--------------------------------- MODULE Gpu ---------------------------------
(***************************************************************************)
(* The GPU (rtl/gpu.sv): the dispatcher of Dispatch, NumCores cores of     *)
(* Pipeline, and two memory controllers of MemoryController, one between   *)
(* the cores' load/store units and data memory, one between their fetch    *)
(* stages and program memory, wired together.  One step is one clock       *)
(* cycle of VerilatedGpu::cycle, which answers every channel in the cycle  *)
(* in which it is valid; the host runs one kernel on a GPU that comes out  *)
(* of reset (tinygpu_verilator_run makes a VerilatedGpu for every job).    *)
(*                                                                         *)
(* Nothing is left to chance but the kernel and the thread count, so the   *)
(* checks run every cycle of each launch.                                  *)
(***************************************************************************)
EXTENDS Pipeline

CONSTANTS
  NumCores,       \* NUM_CORES
  DataChannels,   \* DATA_MEM_NUM_CHANNELS
  ProgramChannels,\* PROGRAM_MEM_NUM_CHANNELS
  Kernels,        \* kernels: [program, words], words being the initial data
  ThreadCounts,   \* values written to the control register
  MaxThreads,     \* largest value of the control register
  StepBound       \* instructions a thread executes at most

ASSUME CoresAssumption == NumCores \in Nat \ {0} /\ BlockDim \in Nat \ {0}
ASSUME ChannelsAssumption ==
  DataChannels \in Nat \ {0} /\ ProgramChannels \in Nat \ {0}
ASSUME CountsAssumption == MaxThreads \in Nat /\ ThreadCounts \subseteq 0 .. MaxThreads

Cores == 0 .. NumCores - 1

VARIABLES
  job,            \* the kernel loaded and its input; they do not change in a launch
  memory,         \* data memory of the wrapper
  done_,          \* VerilatedGpu::done_: the kernel has completed
  thread_count, dispatch_state, core_state, block_id, block_id_n, core_start,
  core_block_id, core_thread_count, done, start,    \* as in Dispatch
  ran,            \* history: <<block, lanes>> of every block a core has finished
  core,           \* per core: its registers, as in Pipeline
  data_channel, program_channel   \* the channels of the controllers

dispatchVars == <<dispatch_state, core_state, block_id, block_id_n, core_start,
                  core_block_id, core_thread_count, done>>
vars == <<job, memory, done_, thread_count, dispatchVars, start, ran, core,
          data_channel, program_channel>>

NoAnswers == [u \in {} |-> 0]   \* the controllers' history, not kept here

D == INSTANCE Dispatch
       WITH ThreadsPerBlock <- BlockDim,
            start_q <- [c \in Cores |-> core[c].start_q],
            running <- [c \in Cores |-> core[c].running]

-----------------------------------------------------------------------------
(* Wiring of the load/store units to the data memory controller.           *)

\* Mutant: the index does not tell the cores apart.
LsuShared(c, t) == t

\* LSU_INDEX
Lsu(c, t) == c * BlockDim + t

Lsus == 0 .. NumCores * BlockDim - 1

Request(i) ==
  CASE i.op = "LDR" -> [kind |-> "read", address |-> i.value]
    [] i.op = "STR" -> [kind |-> "write", address |-> i.value, data |-> i.data]
    [] OTHER -> [kind |-> "none"]

\* An access is on the wires from the cycle it enters MEM until it is answered.
LsuRequest == [u \in Lsus |-> Request(InMem(core[u \div BlockDim], u % BlockDim))]

DataController == INSTANCE MemoryController
  WITH NumConsumers <- NumCores * BlockDim, NumChannels <- DataChannels,
       WriteEnable <- TRUE, Addresses <- Word, Data <- Word,
       channel <- data_channel, request <- LsuRequest, answer <- NoAnswers

\* VerilatedGpu serves every data channel that is busy.
DataReady == DataController!BusyChannels

\* Threads of core c whose access is answered in this cycle.
Answered(c) ==
  {t \in Threads : Lsu(c, t) \in DataController!ConsumersOf(DataReady)}

WordFor(u) ==
  LET reads == DataController!ReadsOf(DataReady, u)
  IN  IF reads = {} THEN 0
      ELSE LET ch == CHOOSE ch \in reads : TRUE
           IN  DataController!WordAt(DataReady, data_channel[ch].request.address, ch)

-----------------------------------------------------------------------------
(* Wiring of the fetch stages to the program memory controller.            *)

FetchedFrom(c) ==
  {r \in {program_channel[ch] : ch \in 0 .. ProgramChannels - 1} :
     r.state = "BUSY" /\ r.consumer = c}

\* The input wires of core c.
Wires(c) ==
  [start |-> core_start[c], block |-> core_block_id[c], count |-> core_thread_count[c],
   fetched |-> FetchedFrom(c) # {},
   instr |-> IF FetchedFrom(c) = {} THEN Nop
             ELSE FetchAt(job.program, (CHOOSE r \in FetchedFrom(c) : TRUE).request.address),
   answered |-> Answered(c),
   word |-> [t \in Threads |-> WordFor(Lsu(c, t))]]

Fetch(pc) == [kind |-> "read", address |-> pc]

\* A fetch is on the wires from the cycle the decoders are ready for it.
FetchRequest ==
  [c \in Cores |->
     LET k == core[c] IN
     IF k.fetch.state = "WAIT" THEN Fetch(k.fetch.pc)
     ELSE IF k.running /\ IfReady(k, Wires(c)) THEN Fetch(FetchContext(k, Wires(c)).pc)
     ELSE [kind |-> "none"]]

ProgramController == INSTANCE MemoryController
  WITH NumConsumers <- NumCores, NumChannels <- ProgramChannels,
       WriteEnable <- FALSE, Addresses <- 0 .. PcSpace - 1, Data <- {},
       channel <- program_channel, request <- FetchRequest, answer <- NoAnswers

-----------------------------------------------------------------------------

\* A GPU out of reset, with a kernel and its input loaded.
Init ==
  /\ job \in Kernels
  /\ memory = job.words
  /\ done_ = FALSE
  /\ core = [c \in Cores |-> ResetCore]
  /\ data_channel = [ch \in 0 .. DataChannels - 1 |-> DataController!Idle]
  /\ program_channel = [ch \in 0 .. ProgramChannels - 1 |-> ProgramController!Idle]
  /\ D!Init

\* A rising edge for everything but the dispatcher and the host's wires.
Edge ==
  /\ core' = [c \in Cores |-> CoreNext(core[c], Wires(c))]
  /\ data_channel' = [ch \in 0 .. DataChannels - 1 |->
                        DataController!ChannelAfter(ch, DataReady)]
  /\ program_channel' = [ch \in 0 .. ProgramChannels - 1 |->
                           ProgramController!ChannelAfter(ch, ProgramController!BusyChannels)]
  /\ memory' = [a \in Word |-> DataController!WordAt(DataReady, a, DataChannels)]
  /\ UNCHANGED job

\* Cores that retire their last thread in this cycle.
Fin == {c \in Cores : CoreDone(core[c], Wires(c)) /\ ~StartEdge(core[c], Wires(c))}

\* A new VerilatedGpu for the next kernel, once this one has been read out.
NewGpu ==
  /\ done_ /\ ~start
  /\ job' \in Kernels
  /\ memory' = job'.words
  /\ done_' = FALSE
  /\ core' = [c \in Cores |-> ResetCore]
  /\ data_channel' = [ch \in 0 .. DataChannels - 1 |-> DataController!Idle]
  /\ program_channel' = [ch \in 0 .. ProgramChannels - 1 |-> ProgramController!Idle]
  /\ D!Reset

SetThreadCount(n) ==
  /\ ~start /\ ~done_
  /\ thread_count' = n
  /\ Edge
  /\ UNCHANGED <<done_, dispatchVars, start, ran>>

Start ==
  /\ ~start /\ ~done_
  /\ start' = TRUE
  /\ D!Open
  /\ ran' = {}
  /\ Edge
  /\ UNCHANGED <<thread_count, done_>>

Cycle ==
  /\ D!HandOut(Fin)
  /\ ran' = ran \cup {D!Job(c) : c \in Fin}
  /\ Edge
  /\ UNCHANGED <<thread_count, start, done_>>

Complete ==
  /\ D!Report
  /\ done_' = TRUE
  /\ Edge
  /\ UNCHANGED <<thread_count, start, ran>>

\* run_until_done has seen done and lowers start.
Finish ==
  /\ done_ /\ start
  /\ start' = FALSE
  /\ D!Rearm
  /\ Edge
  /\ UNCHANGED <<thread_count, ran, done_>>

Next ==
  \/ NewGpu
  \/ \E n \in ThreadCounts : SetThreadCount(n)
  \/ Start
  \/ Cycle
  \/ Complete
  \/ Finish

\* run_until_done drives the clock until the kernel is done.
Fairness == WF_vars(Cycle) /\ WF_vars(Complete) /\ WF_vars(Finish)

Spec == Init /\ [][Next]_vars
FairSpec == Spec /\ Fairness

-----------------------------------------------------------------------------
(* The reference: every thread on its own.                                 *)

Grid == {g \in (0 .. (MaxThreads - 1) \div BlockDim) \X Threads :
           g[1] * BlockDim + g[2] < MaxThreads}

Traces ==
  [k \in Kernels |->
     [g \in Grid |-> ThreadTrace(k.program, k.words, g[1], g[2], StepBound)]]

\* Within StepBound instructions every thread has returned.
ASSUME StepsAssumption == \A k \in Kernels, g \in Grid : Traces[k][g][StepBound].returned

\* The memory each thread leaves when it runs alone.
Alone == [k \in Kernels |-> [g \in Grid |-> Traces[k][g][StepBound].memory]]

\* The memory the first n threads leave together; no two write the same word.
\* The control register is 0 until the host writes it.
Expected ==
  [k \in Kernels |->
     [n \in ThreadCounts \cup {0} |->
        [a \in Word |->
           LET writers == {g \in Grid : g[1] * BlockDim + g[2] < n /\ Alone[k][g][a] # k.words[a]}
           IN  IF writers = {} THEN k.words[a] ELSE Alone[k][CHOOSE g \in writers : TRUE][a]]]]

-----------------------------------------------------------------------------
(* Properties.                                                             *)

\* The data memory the host copies out holds what the launched threads compute
\* one by one: cores and lanes that share two channels lose, repeat and cross
\* no access.
ResultIsSequential == done_ => memory = Expected[job][thread_count]

\* A channel serves the access its unit still asks for, and no unit is on two
\* channels: the stages hold a request as the controllers rely on.
RequestsHeld ==
  /\ DataController!ServesItsConsumer /\ DataController!Exclusive
  /\ ProgramController!ServesItsConsumer /\ ProgramController!Exclusive

\* No access is on its way to memory when the kernel is reported done.
NothingInFlight ==
  done_ => /\ \A u \in Lsus : LsuRequest[u].kind = "none"
           /\ DataController!BusyChannels = {}

\* The cores keep the start/done handshake that the dispatcher's own
\* specification assumes of them.
ImplementsDispatch == D!Spec

\* A launch completes: no core waits for an access that is never served.
LaunchCompletes == start ~> done_
=============================================================================
