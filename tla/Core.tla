-------------------------------- MODULE Core --------------------------------
(***************************************************************************)
(* A compute core at work: the core of Pipeline, the dispatcher's wires    *)
(* that hand it one block after another, and a program and a data memory   *)
(* that answer after any delay.  One step is one clock cycle.              *)
(*                                                                         *)
(* The reference is Isa: every thread of every block run on its own from   *)
(* the initial memory.  Programs are race free (no thread reads or writes  *)
(* what another writes), so the order of the threads does not matter.      *)
(***************************************************************************)
EXTENDS Pipeline

CONSTANTS
  ThreadCount,    \* threads launched
  DataChannels,   \* data accesses answered in one cycle at most
  Jobs,           \* kernels: [program, words], words being the initial data
  StepBound       \* instructions a thread executes at most

ASSUME LaunchAssumption == ThreadCount \in Nat /\ BlockDim \in Nat \ {0}

VARIABLES
  job,       \* the kernel in program memory and its input; they do not change
  core,      \* the registers of the core
  memory,    \* data memory
  start, block, count,   \* the dispatcher's wires to this core
  next,      \* next block to hand out
  retired,   \* history: threads of the block whose RET has been written back
  finished   \* history: blocks reported done

vars == <<job, core, memory, start, block, count, next, retired, finished>>

NumBlocks == (ThreadCount + BlockDim - 1) \div BlockDim

BlockSize(b) == IF b + 1 = NumBlocks THEN ThreadCount - b * BlockDim ELSE BlockDim

Launched == {t \in Threads : t < count}

-----------------------------------------------------------------------------

Init ==
  /\ job \in Jobs
  /\ core = ResetCore
  /\ memory = job.words
  /\ start = FALSE /\ block = 0 /\ count = 0
  /\ next = 0
  /\ retired = {}
  /\ finished = {}

Wires(fetched, answered) ==
  [start |-> start, block |-> block, count |-> count,
   fetched |-> fetched, instr |-> FetchAt(job.program, core.fetch.pc),
   answered |-> answered,
   word |-> [t \in Threads |-> IF t \in answered THEN memory[core.lane[t].pending.value]
                               ELSE 0]]

StoresTo(a, answered) ==
  {t \in answered : core.lane[t].pending.op = "STR" /\ core.lane[t].pending.value = a}

\* The channels are served in thread order.
MemoryNext(answered) ==
  [a \in Word |->
     LET s == StoresTo(a, answered)
     IN  IF s = {} THEN memory[a]
         ELSE core.lane[CHOOSE t \in s : \A u \in s : u <= t].pending.data]

\* Mutant: the next block is put on the wires without lowering start.
DispatcherNextWithoutGap(done) ==
  IF (start => done) /\ next < NumBlocks
  THEN /\ start' = TRUE
       /\ block' = next
       /\ count' = BlockSize(next)
       /\ next' = next + 1
  ELSE /\ start' = (start /\ ~done)
       /\ UNCHANGED <<block, count, next>>

\* The dispatcher lowers start when it sees done and, while blocks are left,
\* raises it with the next one in the cycle after.
DispatcherNext(done) ==
  IF start
  THEN /\ start' = ~done
       /\ UNCHANGED <<block, count, next>>
  ELSE IF next < NumBlocks
  THEN /\ start' = TRUE
       /\ block' = next
       /\ count' = BlockSize(next)
       /\ next' = next + 1
  ELSE UNCHANGED <<start, block, count, next>>

\* A clock cycle in which memory answers the fetch, if fetched, and the data
\* accesses of the threads in answered.
Cycle(fetched, answered) ==
  LET w == Wires(fetched, answered)
      done == CoreDone(core, w)
  IN  /\ fetched => core.fetch.state = "WAIT"
      /\ answered \subseteq Waiting(core)
      /\ Cardinality(answered) <= DataChannels
      /\ core' = CoreNext(core, w)
      /\ memory' = MemoryNext(answered)
      /\ DispatcherNext(done)
      /\ UNCHANGED job
      /\ retired' = IF StartEdge(core, w) THEN {}
                    ELSE IF core.running THEN retired \cup Retiring(core)
                    ELSE retired
      /\ finished' = IF start /\ done THEN finished \cup {block} ELSE finished

Next == \E fetched \in BOOLEAN, answered \in SUBSET Threads : Cycle(fetched, answered)

\* The clock runs, and memory answers every request in the end.
Fairness ==
  /\ WF_vars(Next)
  /\ WF_vars(\E answered \in SUBSET Threads : Cycle(TRUE, answered))
  /\ \A t \in Threads :
       WF_vars(\E fetched \in BOOLEAN, answered \in SUBSET Threads :
                 t \in answered /\ Cycle(fetched, answered))

Spec == Init /\ [][Next]_vars
FairSpec == Spec /\ Fairness

-----------------------------------------------------------------------------
(* The reference: every thread on its own.                                 *)

Grid == {g \in (0 .. NumBlocks - 1) \X Threads : g[2] < BlockSize(g[1])}

Traces ==
  [j \in Jobs |-> [g \in Grid |-> ThreadTrace(j.program, j.words, g[1], g[2], StepBound)]]

MemoryAfter(j, g, n) == Traces[j][g][n].memory

ASSUME ProgramsFit == \A j \in Jobs : 2 * Len(j.program) <= PcSpace
ASSUME StepsAssumption == \A j \in Jobs, g \in Grid : Traces[j][g][StepBound].returned

\* The values a word may hold while the program runs.
Permitted ==
  [j \in Jobs |->
     {<<a, j.words[a]>> : a \in Word} \cup
     {<<a, MemoryAfter(j, g, n)[a]>> : a \in Word, g \in Grid, n \in 0 .. StepBound}]

\* The words a block changes and the values it leaves there.
Results ==
  [j \in Jobs |->
     UNION {{<<g[1], a, MemoryAfter(j, g, StepBound)[a]>> :
               a \in {x \in Word : MemoryAfter(j, g, StepBound)[x] # j.words[x]}} : g \in Grid}]

\* The memory that all threads leave together; no two write the same word.
Expected ==
  [j \in Jobs |->
     [a \in Word |->
        LET writers == {g \in Grid : MemoryAfter(j, g, StepBound)[a] # j.words[a]}
        IN  IF writers = {} THEN j.words[a]
            ELSE MemoryAfter(j, CHOOSE g \in writers : TRUE, StepBound)[a]]]

-----------------------------------------------------------------------------
(* Properties.                                                             *)

WordsArePermitted == \A a \in Word : <<a, memory[a]>> \in Permitted[job]

ResultIsSequential ==
  finished = 0 .. NumBlocks - 1 => \A a \in Word : memory[a] = Expected[job][a]

\* Data memory never holds anything but what the sequential meaning of the
\* program puts there, and once every block has been reported done it is the
\* memory that the threads leave one by one: forwarding, load waits, stalls of
\* single threads and masks lose no store and make up none.
StoresAreSequential == WordsArePermitted /\ ResultIsSequential

\* When a block is reported done, everything its threads store is in memory.
BlocksComplete == \A r \in Results[job] : r[1] \in finished => memory[r[2]] = r[3]

Stacked == {core.stack[i].mask : i \in 1 .. Len(core.stack)}

\* The launched threads are split into the running group, the groups on the
\* branch stack and the returned ones: divergence loses and duplicates none.
ThreadGroups ==
  core.running =>
    /\ core.mask \cup (UNION Stacked) \cup retired = Launched
    /\ core.mask \cap (UNION Stacked) = {}
    /\ (core.mask \cup (UNION Stacked)) \cap retired = {}
    /\ \A i, j \in 1 .. Len(core.stack) :
         i # j => core.stack[i].mask \cap core.stack[j].mask = {}

\* A block is over only when each of its threads has executed RET.
DoneMeansAllReturned == core.start_q /\ ~core.running => retired = Launched

InProgram(fetch) == fetch.valid /\ fetch.pc \div 2 < Len(job.program)

\* An instruction of the program delivered to the decoders is new to every
\* active thread (the one-bit epoch never matches by accident), and is replaced
\* only when each of them has accepted it.
EveryThreadDecodes ==
  [][core.running /\ core'.fetch # core.fetch =>
       \A t \in core'.mask \cap core.mask :
         /\ InProgram(core'.fetch) => core'.fetch.flag # core'.lane[t].accepted
         /\ InProgram(core.fetch) => core'.lane[t].accepted = core.fetch.flag]_vars

\* Every block of the launch ends, whatever the delays of memory.
AllBlocksFinish == <>(finished = 0 .. NumBlocks - 1)
=============================================================================
