------------------------------ MODULE Dispatch ------------------------------
(***************************************************************************)
(* The block dispatcher (rtl/dispatch.sv) with the control register it     *)
(* reads (rtl/dcr.sv), the start/done handshake of every compute core      *)
(* (rtl/core.sv) and the host that drives start, reset and the register    *)
(* (VerilatedGpu, and the testbench in sim_rtl).                           *)
(*                                                                         *)
(* One step is one rising clock edge: the registers of the dispatcher, of  *)
(* the control register and of every core change together.  What a core    *)
(* computes is left out: a running core raises its done wire in a cycle of *)
(* its own choosing (the set fin).                                         *)
(***************************************************************************)
EXTENDS Integers, FiniteSets

CONSTANTS
  NumCores,          \* NUM_CORES
  ThreadsPerBlock,   \* THREADS_PER_BLOCK
  ThreadCounts,      \* values the host writes to the control register
  MaxThreads         \* largest value of the 8-bit control register

ASSUME NumCoresAssumption == NumCores \in Nat \ {0}
ASSUME BlockSizeAssumption == ThreadsPerBlock \in Nat \ {0}
ASSUME WidthAssumption == MaxThreads \in Nat /\ ThreadCounts \subseteq 0 .. MaxThreads

Cores == 0 .. NumCores - 1

VARIABLES
  thread_count,       \* the control register
  dispatch_state,     \* "IDLE", "BUSY" or "WAIT"
  core_state,         \* per core "IDLE_C" or "BUSY_C", as the dispatcher sees it
  block_id,           \* number of blocks of this launch
  block_id_n,         \* next block to hand out
  core_start,         \* start wires (registered)
  core_block_id,      \* block number wires (registered)
  core_thread_count,  \* thread count wires (registered)
  done,               \* kernel completion
  start,              \* the host's start wire
  start_q,            \* per core: core_start one cycle ago
  running,            \* per core: executing a block
  ran                 \* history: <<block, lanes>> of every block a core has finished

dispatchVars == <<dispatch_state, core_state, block_id, block_id_n, core_start,
                  core_block_id, core_thread_count, done>>
coreVars == <<start_q, running>>
vars == <<thread_count, dispatchVars, start, coreVars, ran>>

-----------------------------------------------------------------------------
(* The cores, as far as the dispatcher can see them.                       *)

StartEdge(c) == core_start[c] /\ ~start_q[c]

\* The done wire of core c when the cores in fin retire their last thread.
CoreDone(c, fin) ==
  IF StartEdge(c) THEN core_thread_count[c] = 0 ELSE c \in fin

\* Cores that may retire their last thread in this cycle.
CanFinish == {c \in Cores : running[c] /\ ~StartEdge(c)}

CoresTick(fin) ==
  /\ start_q' = core_start
  /\ running' = [c \in Cores |-> IF StartEdge(c) THEN core_thread_count[c] # 0
                                 ELSE running[c] /\ c \notin fin]

Job(c) == <<core_block_id[c], core_thread_count[c]>>

-----------------------------------------------------------------------------
(* The dispatcher.                                                         *)

\* Mutant: no block for the threads beyond the last multiple of the block size.
NumBlocksFloor == thread_count \div ThreadsPerBlock

NumBlocks == (thread_count + ThreadsPerBlock - 1) \div ThreadsPerBlock

IdleCores == {c \in Cores : core_state[c] = "IDLE_C"}

\* Mutant: completion waits for the last block to be handed out, not for the cores.
AllCoresIdleIgnored == TRUE

AllCoresIdle == IdleCores = Cores

\* Mutant: the loop does not advance temp, so idle cores take the same block.
SlotNotAdvanced(c) == block_id_n

\* The loop counter temp when the loop over the cores reaches core c: every
\* idle core before c has taken one block.
Slot(c) == block_id_n + Cardinality({d \in IdleCores : d < c})

Takes(c) == c \in IdleCores /\ Slot(c) < block_id

\* Mutant: the remainder is computed for every block, not for the last one.
BlockThreadsRest(b) == thread_count - b * ThreadsPerBlock

\* The last block takes what is left.  The subtraction is on integers: a wrap
\* of the 8-bit one, or a truncation, would leave the range TypeOK gives.
BlockThreads(b) ==
  IF b + 1 = block_id THEN thread_count - b * ThreadsPerBlock ELSE ThreadsPerBlock

\* block_id_n after the loop: one block per idle core, while there are any.
NextBlock ==
  LET free == block_id_n + Cardinality(IdleCores)
  IN  IF free < block_id THEN free ELSE block_id

\* Cores whose done wire the dispatcher sees in this cycle.
Released(fin) == {c \in Cores : core_state[c] = "BUSY_C" /\ CoreDone(c, fin)}

\* Mutant: start stays high when a core is released.
StartWireSticky(c, fin) == Takes(c) \/ core_start[c]

StartWire(c, fin) == Takes(c) \/ (core_start[c] /\ c \notin Released(fin))

Quiesce ==
  /\ core_state' = [c \in Cores |-> "IDLE_C"]
  /\ core_start' = [c \in Cores |-> FALSE]
  /\ core_block_id' = [c \in Cores |-> 0]
  /\ core_thread_count' = [c \in Cores |-> 0]

Init ==
  /\ thread_count = 0
  /\ dispatch_state = "IDLE"
  /\ core_state = [c \in Cores |-> "IDLE_C"]
  /\ block_id = 0
  /\ block_id_n = 0
  /\ core_start = [c \in Cores |-> FALSE]
  /\ core_block_id = [c \in Cores |-> 0]
  /\ core_thread_count = [c \in Cores |-> 0]
  /\ done = FALSE
  /\ start = FALSE
  /\ start_q = [c \in Cores |-> FALSE]
  /\ running = [c \in Cores |-> FALSE]
  /\ ran = {}

\* Synchronous reset of every unit; the host lowers start with it.
Reset ==
  /\ thread_count' = 0
  /\ dispatch_state' = "IDLE"
  /\ block_id' = 0
  /\ block_id_n' = 0
  /\ done' = FALSE
  /\ start' = FALSE
  /\ start_q' = [c \in Cores |-> FALSE]
  /\ running' = [c \in Cores |-> FALSE]
  /\ ran' = {}
  /\ Quiesce

\* The host writes the control register, which VerilatedGpu refuses while a
\* kernel is running.
WriteThreadCount(n) ==
  /\ ~start
  /\ dispatch_state = "IDLE"
  /\ thread_count' = n
  /\ CoresTick({})
  /\ UNCHANGED <<dispatchVars, start, ran>>

\* IDLE: the dispatcher opens a launch.
Open ==
  /\ dispatch_state = "IDLE"
  /\ dispatch_state' = "BUSY"
  /\ block_id' = NumBlocks
  /\ block_id_n' = 0
  /\ Quiesce
  /\ UNCHANGED done

\* The host raises start.
Launch ==
  /\ ~start
  /\ start' = TRUE
  /\ Open
  /\ ran' = {}
  /\ CoresTick({})
  /\ UNCHANGED thread_count

\* BUSY: cores that report done are released, idle cores take blocks in index
\* order.  A core released now takes its next block a cycle later.
HandOut(fin) ==
  /\ dispatch_state = "BUSY"
  /\ ~(block_id_n = block_id /\ AllCoresIdle)
  /\ core_state' = [c \in Cores |-> IF Takes(c) THEN "BUSY_C"
                                    ELSE IF c \in Released(fin) THEN "IDLE_C"
                                    ELSE core_state[c]]
  /\ core_start' = [c \in Cores |-> StartWire(c, fin)]
  /\ core_block_id' = [c \in Cores |-> IF Takes(c) THEN Slot(c) ELSE core_block_id[c]]
  /\ core_thread_count' = [c \in Cores |-> IF Takes(c) THEN BlockThreads(Slot(c))
                                           ELSE core_thread_count[c]]
  /\ block_id_n' = NextBlock
  /\ UNCHANGED <<dispatch_state, block_id, done>>

\* A cycle in which the cores in fin retire their last thread.
Assign(fin) ==
  /\ fin \subseteq CanFinish
  /\ HandOut(fin)
  /\ ran' = ran \cup {Job(c) : c \in fin}
  /\ CoresTick(fin)
  /\ UNCHANGED <<thread_count, start>>

\* Every block handed out and every core idle: completion is reported.
Report ==
  /\ dispatch_state = "BUSY"
  /\ block_id_n = block_id /\ AllCoresIdle
  /\ dispatch_state' = "WAIT"
  /\ done' = TRUE
  /\ UNCHANGED <<core_state, block_id, block_id_n, core_start, core_block_id,
                 core_thread_count>>

Complete == Report /\ CoresTick({}) /\ UNCHANGED <<thread_count, start, ran>>

\* WAIT: start is low again.
Rearm ==
  /\ dispatch_state = "WAIT"
  /\ dispatch_state' = "IDLE"
  /\ done' = FALSE
  /\ UNCHANGED <<core_state, block_id, block_id_n, core_start, core_block_id,
                 core_thread_count>>

\* The host has seen done and lowers start.
Release ==
  /\ done
  /\ start' = FALSE
  /\ Rearm
  /\ CoresTick({})
  /\ UNCHANGED <<thread_count, ran>>

Next ==
  \/ Reset
  \/ \E n \in ThreadCounts : WriteThreadCount(n)
  \/ Launch
  \/ \E fin \in SUBSET Cores : Assign(fin)
  \/ Complete
  \/ Release

\* The clock runs, a kernel's blocks end (the cores are not modelled here),
\* and the host lowers start once it has seen done (run_until_done).
Fairness ==
  /\ WF_vars(\E fin \in SUBSET Cores : Assign(fin))
  /\ \A c \in Cores : WF_vars(\E fin \in SUBSET Cores : c \in fin /\ Assign(fin))
  /\ WF_vars(Complete)
  /\ WF_vars(Release)

Spec == Init /\ [][Next]_vars
FairSpec == Spec /\ Fairness

-----------------------------------------------------------------------------
(* Properties.                                                             *)

\* Every register stays within its width: the counters of dispatch.sv never
\* exceed the control register, and no lane count exceeds a block.
TypeOK ==
  /\ thread_count \in 0 .. MaxThreads
  /\ dispatch_state \in {"IDLE", "BUSY", "WAIT"}
  /\ core_state \in [Cores -> {"IDLE_C", "BUSY_C"}]
  /\ block_id \in 0 .. MaxThreads
  /\ block_id_n \in 0 .. MaxThreads
  /\ core_start \in [Cores -> BOOLEAN]
  /\ core_block_id \in [Cores -> 0 .. MaxThreads]
  /\ core_thread_count \in [Cores -> 0 .. ThreadsPerBlock]
  /\ done \in BOOLEAN
  /\ start \in BOOLEAN
  /\ start_q \in [Cores -> BOOLEAN]
  /\ running \in [Cores -> BOOLEAN]
  /\ ran \subseteq (0 .. MaxThreads) \X (0 .. ThreadsPerBlock)

\* The start/done handshake never wedges: a core the dispatcher waits for is
\* running or is about to see its start edge (core.sv detects the edge against
\* start_q, so a start raised again too early would never be seen), and a core
\* the dispatcher calls idle is not running.
Handshake ==
  \A c \in Cores :
    /\ core_start[c] <=> core_state[c] = "BUSY_C"
    /\ core_state[c] = "BUSY_C" => (running[c] <=> start_q[c])
    /\ core_state[c] = "IDLE_C" => ~running[c]

BusyCores == Cores \ IdleCores

HandedOut == {<<b, BlockThreads(b)>> : b \in 0 .. block_id_n - 1}

Active == {Job(c) : c \in BusyCores}

Waiting ==
  IF dispatch_state = "BUSY"
  THEN {<<b, BlockThreads(b)>> : b \in block_id_n .. block_id - 1}
  ELSE {}

\* Every block handed out so far runs on exactly one core or has run, never
\* both, and carries the number of threads its position demands.
ExactlyOnce ==
  dispatch_state # "IDLE" =>
    /\ block_id_n <= block_id
    /\ ran \cup Active = HandedOut
    /\ ran \cap Active = {}
    /\ \A c, d \in BusyCores : c # d => core_block_id[c] # core_block_id[d]

Phase ==
  CASE dispatch_state = "IDLE" -> "idle"
    [] dispatch_state = "BUSY" -> "running"
    [] dispatch_state = "WAIT" -> "done"

KL == INSTANCE KernelLaunch
        WITH phase <- Phase,
             waiting <- Waiting,
             active <- Active,
             Capacity <- NumCores

\* done is reported only when every thread id below the launched thread count,
\* and no other, has run, and no core is still running.
CompletionIsTotal ==
  done => /\ KL!Threads(ran) = 0 .. thread_count - 1
          /\ \A c \in Cores : ~running[c]

\* How the control state bounds the rest; with the three above it is inductive.
Phases ==
  /\ dispatch_state # "IDLE" => block_id = NumBlocks
  /\ dispatch_state # "BUSY" => AllCoresIdle
  /\ dispatch_state = "WAIT" => block_id_n = block_id
  /\ done <=> dispatch_state = "WAIT"
  /\ start <=> dispatch_state # "IDLE"

\* The inductive invariant of the dispatcher and its cores: each part holds after
\* a clock edge because all of them hold before it.
IInv == TypeOK /\ Handshake /\ Phases /\ ExactlyOnce

\* The dispatcher and its cores implement the abstract launch: blocks wait, run
\* on a core once and end, completion comes last.
ImplementsKernelLaunch == KL!Spec

\* A launch ends in done unless a reset interrupts it.
LaunchCompletes ==
  dispatch_state = "BUSY" ~> (done \/ dispatch_state = "IDLE")
=============================================================================
