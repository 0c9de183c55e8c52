----------------------------- MODULE CoreProofs -----------------------------
(***************************************************************************)
(* Theorems about Core, for every program memory latency, data memory      *)
(* latency, number of lanes and number of launched threads: what holds of  *)
(* the pipeline whatever the program; for kernels whose threads never part *)
(* that every block runs until each of its threads has returned; for       *)
(* straight-line kernels that every thread decodes every instruction; and  *)
(* for those without races that memory holds what the threads compute one  *)
(* by one.                                                                 *)
(***************************************************************************)
EXTENDS Core, PipelineProofs

-----------------------------------------------------------------------------
(* Definitions.                                                            *)

\* The core runs from the cycle after the start edge until its last RET.
Handshake ==
  /\ core.running \in BOOLEAN /\ core.start_q \in BOOLEAN /\ start \in BOOLEAN
  /\ core.running <=> start /\ core.start_q

\* A RET in write-back belongs to an active thread, or to one that has returned
\* and will not be kept there.
ReturnsAreOwned ==
  \A t \in Retiring(core) :
    Active(core, t) \/ (core.lane[t].ex = NoItem /\ (core.running => t \in retired))

\* No address of a kernel holds a conditional branch or a JOIN.
NoDivergence == \A j \in Jobs : \A pc \in Addresses : StaysTogether(FetchAt(j.program, pc))

Together ==
  /\ job \in Jobs
  /\ core.pc \in Addresses /\ core.fetch.pc \in Addresses
  /\ StaysTogether(core.fetch.instr)
  /\ core.stack = <<NoContext>>

PipeInv == Shapes(core) /\ Gaps(core) /\ Handshake

GroupsInv ==
  /\ Together
  /\ ReturnsAreOwned
  /\ ThreadGroups
  /\ DoneMeansAllReturned

StraightKernels == \A j \in Jobs : StraightLine(j.program)

\* The pipeline is that of a straight-line kernel, and a block on the wires is
\* not empty.
StraightInv ==
  /\ StraightCore(core, job.program)
  /\ next \in Nat
  /\ start => count \in Nat \ {0}

-----------------------------------------------------------------------------
(* The core at work.                                                       *)

\* A clock cycle is an edge of the pipeline.
LEMMA CycleIsEdge ==
  ASSUME NEW fetched, NEW answered, Cycle(fetched, answered), NEW w,
         w = Wires(fetched, answered)
  PROVE  /\ core' = CoreNext(core, w)
         /\ w.start = start /\ w.count = count /\ w.fetched = fetched
         /\ w.instr = FetchAt(job.program, core.fetch.pc)
         /\ DispatcherNext(CoreDone(core, w))
         /\ job' = job
         /\ retired' = IF StartEdge(core, w) THEN {}
                       ELSE IF core.running THEN retired \cup Retiring(core)
                       ELSE retired
         /\ fetched => core.fetch.state = "WAIT"
  BY DEF Cycle, Wires

\* The dispatcher raises start on an idle core and lowers it when it is done.
LEMMA HandshakeStep ==
  ASSUME Handshake, NEW w, w.start = start, core' = CoreNext(core, w),
         DispatcherNext(CoreDone(core, w))
  PROVE  Handshake'
  <1>1. /\ core'.running = RunningNext(core, w)
        /\ core'.start_q = start
    BY CoreFields
  <1>2. CoreDone(core, w) \in BOOLEAN /\ RunningNext(core, w) \in BOOLEAN
    <2>1. CASE StartEdge(core, w)
      BY <2>1 DEF CoreDone, RunningNext
    <2>2. CASE ~StartEdge(core, w)
      <3>1. Ends(core, w) \in BOOLEAN
        BY DEF Ends
      <3>. QED BY <2>2, <3>1 DEF CoreDone, RunningNext
    <2>. QED BY <2>1, <2>2
  <1>3. start' \in BOOLEAN /\ (start => (start' <=> ~CoreDone(core, w)))
    <2>1. CASE start
      BY <1>2, <2>1 DEF DispatcherNext
    <2>2. CASE ~start
      BY <2>2 DEF DispatcherNext, Handshake
    <2>. QED BY <2>1, <2>2
  <1>4. RunningNext(core, w) <=> start /\ ~CoreDone(core, w)
    <2>1. CASE StartEdge(core, w)
      BY <2>1 DEF RunningNext, CoreDone, StartEdge
    <2>2. CASE ~StartEdge(core, w)
      <3>1. core.running <=> start
        BY <2>2 DEF StartEdge, Handshake
      <3>2. Ends(core, w) => core.running
        BY DEF Ends
      <3>. QED BY <2>2, <3>1, <3>2 DEF RunningNext, CoreDone
    <2>. QED BY <2>1, <2>2
  <1>5. /\ core'.running \in BOOLEAN /\ core'.start_q \in BOOLEAN
        /\ core'.running <=> start' /\ core'.start_q
    <2>1. core'.start_q = start /\ (core'.running <=> start /\ ~CoreDone(core, w))
      BY <1>1, <1>4
    <2>2. start \in BOOLEAN
      BY DEF Handshake
    <2>. QED BY <1>1, <1>2, <1>3, <2>1, <2>2
  <1>. QED BY <1>3, <1>5 DEF Handshake

\* Reset leaves every register empty.
LEMMA PipeInitial == Init => PipeInv
  <1>. SUFFICES ASSUME Init PROVE PipeInv
    OBVIOUS
  <1>1. \A t \in Threads : core.lane[t] = ResetLane
    BY DEF Init, ResetCore
  <1>2. Shapes(core)
    BY <1>1 DEF Init, ResetCore, ResetLane, Shapes, IsItem, IsFetch, NoItem
  <1>3. Gaps(core)
    BY <1>1 DEF Gaps, ResetLane
  <1>4. Handshake
    BY DEF Init, ResetCore, Handshake
  <1>. QED BY <1>2, <1>3, <1>4 DEF PipeInv

\* A clock cycle keeps the invariant of the pipeline.
LEMMA PipeStep == PipeInv /\ [Next]_vars => PipeInv'
  <1>. SUFFICES ASSUME PipeInv, [Next]_vars PROVE PipeInv'
    OBVIOUS
  <1>1. ASSUME NEW fetched \in BOOLEAN, NEW answered \in SUBSET Threads,
               Cycle(fetched, answered)
        PROVE  PipeInv'
    <2>1. PICK w : w = Wires(fetched, answered)
      OBVIOUS
    <2>2. core' = CoreNext(core, w) /\ w.start = start /\ DispatcherNext(CoreDone(core, w))
      BY <1>1, <2>1, CycleIsEdge
    <2>3. Shapes(core)' /\ Gaps(core)'
      <3>1. Shapes(CoreNext(core, w)) /\ Gaps(CoreNext(core, w))
        BY ShapesStep, GapsStep DEF PipeInv
      <3>. QED BY <2>2, <3>1 DEF Shapes, Gaps, InstructionPending
    <2>. QED BY <2>2, <2>3, HandshakeStep DEF PipeInv
  <1>2. CASE UNCHANGED vars
    BY <1>2 DEF vars, PipeInv, Handshake, Shapes, Gaps, InstructionPending
  <1>. QED BY <1>1, <1>2 DEF Next

\* Whatever program a core runs and whenever memory answers, a lane never holds
\* three instructions without a gap, so a RET that has retired its thread meets
\* no instruction that could keep it in write-back (mem_stage.sv).
THEOREM PipelineInvariance == Spec => []PipeInv
  BY PipeInitial, PipeStep, PTL DEF Spec

\* An instruction on offer is replaced only when each active thread has taken
\* it: no lane, however long memory holds it up, misses one.
NothingSkipped ==
  [][core.running /\ core.fetch.valid /\ core'.fetch # core.fetch =>
       \A t \in core.mask \cap Threads : core'.lane[t].accepted = core.fetch.flag]_vars

\* The fetch stage waits for every lane, for any program.
THEOREM NoLaneMissesAnInstruction == Spec => NothingSkipped
  <1>1. ASSUME PipeInv, [Next]_vars, core.running, core.fetch.valid, core'.fetch # core.fetch,
               NEW t \in core.mask \cap Threads
        PROVE  core'.lane[t].accepted = core.fetch.flag
    <2>1. PICK fetched \in BOOLEAN, answered \in SUBSET Threads : Cycle(fetched, answered)
      BY <1>1 DEF Next, vars
    <2>2. PICK w : w = Wires(fetched, answered)
      OBVIOUS
    <2>3. core' = CoreNext(core, w)
      BY <2>1, <2>2, CycleIsEdge
    <2>4. FetchNext(core, w) # core.fetch /\ ~(core.fetch.state = "WAIT")
      BY <1>1, <2>3, CoreFields DEF PipeInv, Shapes
    <2>5. IfReady(core, w)
      BY <2>4 DEF FetchNext
    <2>6. IdReady(core, w, t)
      BY <2>5 DEF IfReady
    <2>7. Accepts(core, w, t) \/ core.lane[t].accepted = core.fetch.flag
      BY <1>1, <2>6 DEF IdReady, Accepts, Active, InstructionPending
    <2>. QED BY <2>3, <2>7, LaneFields
  <1>2. PipeInv /\ [Next]_vars =>
          [core.running /\ core.fetch.valid /\ core'.fetch # core.fetch =>
             \A t \in core.mask \cap Threads : core'.lane[t].accepted = core.fetch.flag]_vars
    BY <1>1
  <1>. QED BY <1>2, PipelineInvariance, PTL DEF Spec, NothingSkipped

-----------------------------------------------------------------------------
(* Kernels whose threads stay together.                                    *)

\* The core fetches from the kernel, and its stack stays as reset left it.
LEMMA TogetherStep ==
  ASSUME NoDivergence, Shapes(core), Together, NEW w, core' = CoreNext(core, w),
         w.instr = FetchAt(job.program, core.fetch.pc), job' = job
  PROVE  Together'
  <1>1. /\ core'.pc = PcNext(core, w) /\ core'.fetch = FetchNext(core, w)
        /\ core'.stack = StackNext(core, w)
    BY CoreFields
  <1>2. /\ job \in Jobs /\ core.pc \in Addresses /\ core.fetch.pc \in Addresses
        /\ StaysTogether(core.fetch.instr) /\ core.stack = <<NoContext>>
    BY DEF Together
  <1>3. core'.stack = <<NoContext>>
    BY <1>1, <1>2, TogetherEdge
  <1>4. FetchContext(core, w).pc = core.pc
    BY <1>2, TogetherEdge
  <1>5. core'.fetch.pc \in Addresses
    BY <1>1, <1>2, <1>4, FetchStep
  <1>6. core'.pc \in Addresses
    <2>1. 0 \in Addresses
      BY PcAssumption DEF Addresses
    <2>2. Redirects(core, w) => core.fetch.instr.imm \in Addresses
      BY <1>2, TogetherEdge
    <2>3. NextPc(core.fetch.pc) \in Addresses
      BY <1>2, NextAddress
    <2>. QED BY <1>1, <1>2, <1>4, <2>1, <2>2, <2>3 DEF PcNext
  <1>7. StaysTogether(core'.fetch.instr)
    <2>1. StaysTogether(Nop)
      BY DEF StaysTogether, Nop, Instr
    <2>2. StaysTogether(w.instr)
      BY <1>2 DEF NoDivergence
    <2>3. FetchNext(core, w) = core.fetch \/ FetchNext(core, w).instr \in {Nop, w.instr}
      BY FetchStep
    <2>. QED BY <1>1, <1>2, <2>1, <2>2, <2>3
  <1>. QED BY <1>2, <1>3, <1>5, <1>6, <1>7 DEF Together

\* No RET is left over for a thread that another block starts.
LEMMA ReturnsStep ==
  ASSUME PipeInv, Together, ReturnsAreOwned, NEW w, core' = CoreNext(core, w),
         w.start = start,
         retired' = IF StartEdge(core, w) THEN {}
                    ELSE IF core.running THEN retired \cup Retiring(core)
                    ELSE retired
  PROVE  ReturnsAreOwned'
  <1>. SUFFICES ASSUME NEW t \in Threads, core'.lane[t].wb.op = "RET"
                PROVE  \/ core'.running /\ t \in core'.mask
                       \/ core'.lane[t].ex = NoItem /\ (core'.running => t \in retired')
    BY DEF ReturnsAreOwned, Retiring, Active
  <1>1. /\ core'.lane[t].wb = WriteBackNext(core, w, t)
        /\ core'.lane[t].ex = ExNext(core, t)
    BY LaneFields
  <1>2. /\ MemReady(core, t) /\ core.lane[t].ex # NoItem
        /\ Active(core, t) \/ t \in Retiring(core)
    BY <1>1, ReturnFrom DEF PipeInv
  <1>3. core.running /\ t \in core.mask
    BY <1>2 DEF ReturnsAreOwned, Active
  <1>4. ~StartEdge(core, w)
    BY <1>3 DEF StartEdge, PipeInv, Handshake
  <1>5. /\ core'.mask = core.mask \ Retiring(core)
        /\ core'.running = (core.running /\ ~(core.mask \subseteq Retiring(core)))
    BY <1>3, <1>4, CoreFields, TogetherEdge DEF Together
  <1>6. CASE t \in Retiring(core)
    <2>1. core.lane[t].wb # NoItem
      BY <1>6 DEF Retiring, NoItem
    <2>2. core.lane[t].id = NoOperands
      BY <1>2, <2>1 DEF PipeInv, Gaps
    <2>3. ExNext(core, t) = NoItem
      BY <1>2, <2>2, DecodeStep DEF PipeInv
    <2>. QED BY <1>1, <1>3, <1>4, <1>6, <2>3
  <1>7. CASE t \notin Retiring(core)
    BY <1>3, <1>5, <1>7
  <1>. QED BY <1>6, <1>7

\* A stack as reset left it holds one empty group.
LEMMA IdleStack ==
  ASSUME NEW stack, stack = <<NoContext>>
  PROVE  /\ {stack[i].mask : i \in 1 .. Len(stack)} = {{}}
         /\ \A i, j \in 1 .. Len(stack) : i = j
  <1>1. 1 .. Len(stack) = {1} /\ stack[1].mask = {}
    BY DEF NoContext
  <1>. QED BY <1>1

\* With the stack as reset left it, the groups are the running threads and the
\* returned ones.
LEMMA TogetherGroups ==
  /\ core.stack = <<NoContext>> =>
       (ThreadGroups <=> (core.running => /\ core.mask \cup retired = Launched
                                          /\ core.mask \cap retired = {}))
  /\ core'.stack = <<NoContext>> =>
       (ThreadGroups' <=> (core'.running => /\ core'.mask \cup retired' = Launched'
                                            /\ core'.mask \cap retired' = {}))
  <1>1. ASSUME core.stack = <<NoContext>>
        PROVE  ThreadGroups <=> (core.running => /\ core.mask \cup retired = Launched
                                                 /\ core.mask \cap retired = {})
    <2>1. Stacked = {{}} /\ \A i, j \in 1 .. Len(core.stack) : i = j
      BY <1>1, IdleStack DEF Stacked
    <2>. QED BY <2>1 DEF ThreadGroups
  <1>2. ASSUME core'.stack = <<NoContext>>
        PROVE  ThreadGroups' <=> (core'.running => /\ core'.mask \cup retired' = Launched'
                                                   /\ core'.mask \cap retired' = {})
    <2>1. Stacked' = {{}} /\ \A i, j \in 1 .. Len(core'.stack) : i = j
      BY <1>2, IdleStack DEF Stacked
    <2>. QED BY <2>1 DEF ThreadGroups
  <1>. QED BY <1>1, <1>2

\* The threads of a block are running or have returned, and it ends with the
\* last return.
LEMMA GroupsStep ==
  ASSUME PipeInv, GroupsInv, NEW w, core' = CoreNext(core, w),
         w.start = start, w.count = count, DispatcherNext(CoreDone(core, w)), Together',
         retired' = IF StartEdge(core, w) THEN {}
                    ELSE IF core.running THEN retired \cup Retiring(core)
                    ELSE retired
  PROVE  ThreadGroups' /\ DoneMeansAllReturned'
  <1>1. /\ core'.mask = MaskNext(core, w) /\ core'.running = RunningNext(core, w)
        /\ core'.start_q = start
    BY CoreFields
  <1>2. core.running <=> start /\ core.start_q
    BY DEF PipeInv, Handshake
  <1>3. ThreadGroups' <=> (core'.running => /\ core'.mask \cup retired' = Launched'
                                            /\ core'.mask \cap retired' = {})
    BY TogetherGroups DEF Together
  <1>4. start => Launched' = Launched
    BY DEF DispatcherNext, Launched
  <1>5. CASE StartEdge(core, w)
    <2>1. start /\ retired' = {} /\ core'.mask = Launched /\ core'.running = (count # 0)
      BY <1>1, <1>5 DEF StartEdge, MaskNext, RunningNext, Launched
    <2>2. count = 0 => Launched = {}
      BY DEF Launched, Threads
    <2>. QED BY <1>3, <1>4, <2>1, <2>2 DEF DoneMeansAllReturned
  <1>6. CASE ~StartEdge(core, w) /\ core.running
    <2>1. /\ core'.mask = core.mask \ Retiring(core)
          /\ core'.running = (core.running /\ ~(core.mask \subseteq Retiring(core)))
          /\ retired' = retired \cup Retiring(core)
      BY <1>1, <1>6, TogetherEdge DEF GroupsInv, Together
    <2>2. core.mask \cup retired = Launched /\ core.mask \cap retired = {}
      BY <1>6, TogetherGroups DEF GroupsInv, Together
    <2>3. Retiring(core) \subseteq core.mask \cup retired
      BY <1>6 DEF GroupsInv, ReturnsAreOwned, Active
    <2>4. Launched' = Launched
      BY <1>2, <1>4, <1>6
    <2>. QED BY <1>3, <1>6, <2>1, <2>2, <2>3, <2>4 DEF DoneMeansAllReturned
  <1>7. CASE ~StartEdge(core, w) /\ ~core.running
    <2>1. ~core'.running /\ ~start
      BY <1>1, <1>2, <1>7 DEF StartEdge, RunningNext
    <2>. QED BY <1>1, <1>3, <2>1 DEF DoneMeansAllReturned
  <1>. QED BY <1>5, <1>6, <1>7

\* Before the first block no thread runs.
LEMMA GroupsInitial == NoDivergence /\ Init => GroupsInv
  <1>. SUFFICES ASSUME NoDivergence, Init PROVE GroupsInv
    OBVIOUS
  <1>1. \A t \in Threads : core.lane[t] = ResetLane
    BY DEF Init, ResetCore
  <1>2. Together
    BY PcAssumption DEF Init, ResetCore, Together, Addresses, StaysTogether, Nop, Instr
  <1>3. ReturnsAreOwned
    BY <1>1 DEF ReturnsAreOwned, Retiring, ResetLane, NoItem
  <1>4. ThreadGroups /\ DoneMeansAllReturned
    BY DEF Init, ResetCore, ThreadGroups, DoneMeansAllReturned
  <1>. QED BY <1>2, <1>3, <1>4 DEF GroupsInv

\* A clock cycle keeps the threads of the block together.
LEMMA GroupsNext ==
  NoDivergence /\ PipeInv /\ GroupsInv /\ [Next]_vars => GroupsInv'
  <1>. SUFFICES ASSUME NoDivergence, PipeInv, GroupsInv, [Next]_vars PROVE GroupsInv'
    OBVIOUS
  <1>1. ASSUME NEW fetched \in BOOLEAN, NEW answered \in SUBSET Threads,
               Cycle(fetched, answered)
        PROVE  GroupsInv'
    <2>1. PICK w : w = Wires(fetched, answered)
      OBVIOUS
    <2>2. /\ core' = CoreNext(core, w) /\ w.start = start /\ w.count = count
          /\ w.instr = FetchAt(job.program, core.fetch.pc)
          /\ DispatcherNext(CoreDone(core, w))
          /\ job' = job
          /\ retired' = IF StartEdge(core, w) THEN {}
                        ELSE IF core.running THEN retired \cup Retiring(core)
                        ELSE retired
      BY <1>1, <2>1, CycleIsEdge
    <2>3. Together'
      BY <2>2, TogetherStep DEF PipeInv, GroupsInv
    <2>4. ReturnsAreOwned'
      BY <2>2, ReturnsStep DEF GroupsInv
    <2>5. ThreadGroups' /\ DoneMeansAllReturned'
      BY <2>2, <2>3, GroupsStep
    <2>. QED BY <2>3, <2>4, <2>5 DEF GroupsInv
  <1>2. CASE UNCHANGED vars
    BY <1>2 DEF vars, GroupsInv, Together, ReturnsAreOwned, Active, Retiring, ThreadGroups,
                DoneMeansAllReturned, Stacked, Launched
  <1>. QED BY <1>1, <1>2 DEF Next

\* For kernels without conditional branches: no thread of a block is lost or
\* counted twice, whatever each lane waits for and whatever the block before
\* has left in the pipeline.
THEOREM TogetherGroupsCorrect == ASSUME NoDivergence PROVE Spec => []ThreadGroups
  <1>1. GroupsInv => ThreadGroups
    BY DEF GroupsInv
  <1>. QED BY <1>1, NoDivergence, GroupsInitial, GroupsNext, PipelineInvariance, PTL DEF Spec

\* For the same kernels: a block is reported done only when each of its threads
\* has executed a RET.
THEOREM TogetherDoneCorrect == ASSUME NoDivergence PROVE Spec => []DoneMeansAllReturned
  <1>1. GroupsInv => DoneMeansAllReturned
    BY DEF GroupsInv
  <1>. QED BY <1>1, NoDivergence, GroupsInitial, GroupsNext, PipelineInvariance, PTL DEF Spec

\* No block is empty.
LEMMA BlockSizes ==
  ASSUME NEW b \in Nat, b < NumBlocks
  PROVE  BlockSize(b) \in Nat \ {0}
  <1>. DEFINE q == NumBlocks
              t == BlockDim
              c == ThreadCount
  <1>1. t \in Nat \ {0} /\ c \in Nat
    BY LaunchAssumption
  <1>2. q = (c + t - 1) \div t
    BY DEF NumBlocks
  <1>. HIDE DEF q, t, c
  <1>3. q \in Nat /\ t * q <= c + t - 1
    BY <1>1, <1>2
  <1>4. CASE b + 1 = q
    <2>1. t * (b + 1) = t * b + t /\ t * b = b * t /\ b * t \in Int
      BY <1>1
    <2>2. t * (b + 1) <= c + t - 1
      BY <1>3, <1>4
    <2>3. c - b * t \in Nat \ {0}
      BY <1>1, <2>1, <2>2
    <2>. QED BY <1>4, <2>3 DEF BlockSize, q, t, c
  <1>5. CASE b + 1 # q
    BY <1>1, <1>5 DEF BlockSize, q, t
  <1>. QED BY <1>4, <1>5

\* No block that the dispatcher launches is empty.
LEMMA LaunchStep ==
  ASSUME next \in Nat, start => count \in Nat \ {0}, NEW ends, DispatcherNext(ends)
  PROVE  next' \in Nat /\ (start' => count' \in Nat \ {0})
  <1>1. CASE start
    BY <1>1 DEF DispatcherNext
  <1>2. CASE ~start /\ next < NumBlocks
    <2>1. BlockSize(next) \in Nat \ {0}
      BY <1>2, BlockSizes
    <2>. QED BY <1>2, <2>1 DEF DispatcherNext
  <1>3. CASE ~start /\ ~(next < NumBlocks)
    BY <1>3 DEF DispatcherNext
  <1>. QED BY <1>1, <1>2, <1>3

\* A straight-line kernel keeps its threads together.
LEMMA StraightStaysTogether == StraightKernels => NoDivergence
  BY StraightFacts DEF StraightKernels, NoDivergence

\* What a cycle of a straight-line kernel finds on the wires.
LEMMA StraightCycle ==
  ASSUME StraightKernels, PipeInv, GroupsInv, StraightInv, NEW w,
         w.start = start, w.count = count,
         w.fetched => w.instr = FetchAt(job.program, core.fetch.pc)
  PROVE  StraightWires(core, w, job.program)
  <1>1. StraightLine(job.program)
    BY DEF GroupsInv, Together, StraightKernels
  <1>2. StartEdge(core, w) => 0 \in Threads /\ 0 < w.count
    BY LaunchAssumption DEF StartEdge, StraightInv, Threads
  <1>. QED BY <1>1, <1>2 DEF StraightWires, PipeInv, Handshake

\* Reset has fetched nothing.
LEMMA StraightInitial == Init => StraightInv
  <1>. SUFFICES ASSUME Init PROVE StraightInv
    OBVIOUS
  <1>1. StraightCore(core, job.program)
    BY StraightReset DEF Init
  <1>. QED BY <1>1 DEF Init, StraightInv

\* A clock cycle keeps the pipeline of a straight-line kernel.
LEMMA StraightNext ==
  StraightKernels /\ PipeInv /\ GroupsInv /\ StraightInv /\ [Next]_vars => StraightInv'
  <1>. SUFFICES ASSUME StraightKernels, PipeInv, GroupsInv, StraightInv, [Next]_vars
                PROVE  StraightInv'
    OBVIOUS
  <1>1. ASSUME NEW fetched \in BOOLEAN, NEW answered \in SUBSET Threads,
               Cycle(fetched, answered)
        PROVE  StraightInv'
    <2>1. PICK w : w = Wires(fetched, answered)
      OBVIOUS
    <2>2. /\ core' = CoreNext(core, w) /\ w.start = start /\ w.count = count
          /\ w.instr = FetchAt(job.program, core.fetch.pc)
          /\ DispatcherNext(CoreDone(core, w))
          /\ job' = job
      BY <1>1, <2>1, CycleIsEdge
    <2>3. StraightCore(CoreNext(core, w), job.program)
      BY <2>2, StraightCycle, StraightStep DEF StraightInv
    <2>4. StraightCore(core', job'.program)
      BY <2>2, <2>3
    <2>5. next' \in Nat /\ (start' => count' \in Nat \ {0})
      BY <2>2, LaunchStep DEF StraightInv
    <2>. QED BY <2>4, <2>5 DEF StraightInv
  <1>2. CASE UNCHANGED vars
    <2>1. StraightCore(core', job'.program)
      BY <1>2 DEF vars, StraightInv
    <2>. QED BY <1>2, <2>1 DEF vars, StraightInv
  <1>. QED BY <1>1, <1>2 DEF Next

\* For kernels without branches, whatever memory answers and however many blocks
\* follow each other: an instruction of the kernel is new to every thread it is
\* offered to, so the one-bit epoch never takes it for the one before, and each
\* thread takes it before the next one is fetched.
THEOREM StraightKernelsDecode == ASSUME StraightKernels PROVE Spec => EveryThreadDecodes
  <1>1. ASSUME PipeInv, GroupsInv, StraightInv, [Next]_vars, core.running,
               core'.fetch # core.fetch, NEW t \in core'.mask \cap core.mask,
               InProgram(core'.fetch)
        PROVE  core'.fetch.flag # core'.lane[t].accepted
    <2>1. PICK fetched \in BOOLEAN, answered \in SUBSET Threads : Cycle(fetched, answered)
      BY <1>1 DEF Next, vars
    <2>2. PICK w : w = Wires(fetched, answered)
      OBVIOUS
    <2>3. /\ core' = CoreNext(core, w) /\ w.instr = FetchAt(job.program, core.fetch.pc)
          /\ job' = job
      BY <2>1, <2>2, CycleIsEdge
    <2>4. InPlace(core, job.program)
      BY <1>1 DEF StraightInv, StraightCore
    <2>5. t \in Threads /\ Active(core, t)
      BY <1>1 DEF Active, StraightInv, StraightCore, SomeoneRuns
    <2>6. Shapes(core) /\ core.fetch.instr.op \notin {"BR", "JOIN"}
      BY <1>1, <2>4 DEF PipeInv, InPlace, OfferInPlace
    <2>7. core'.fetch.valid /\ core'.fetch.pc \div 2 < Len(job.program)
      BY <1>1, <2>3 DEF InProgram
    <2>8. /\ core.fetch.state = "WAIT" /\ ~core.fetch.valid
          /\ core'.fetch.flag = ~core.fetch.flag /\ core'.fetch.pc = core.fetch.pc
      BY <1>1, <2>3, <2>6, <2>7, StraightFetch
    <2>9. core.lane[t].accepted = core.fetch.flag
      BY <2>4, <2>5, <2>7, <2>8 DEF InPlace, CaughtUp, FetchIndex, HasTaken
    <2>10. core'.lane[t].accepted = core.fetch.flag
      BY <2>3, <2>5, <2>9, LaneFields
    <2>11. core.fetch.flag \in BOOLEAN
      BY <1>1 DEF PipeInv, Shapes, IsFetch
    <2>. QED BY <2>8, <2>10, <2>11
  <1>2. PipeInv /\ GroupsInv /\ StraightInv /\ [Next]_vars
        /\ [core.running /\ core.fetch.valid /\ core'.fetch # core.fetch =>
              \A t \in core.mask \cap Threads : core'.lane[t].accepted = core.fetch.flag]_vars
        => [core.running /\ core'.fetch # core.fetch =>
              \A t \in core'.mask \cap core.mask :
                /\ InProgram(core'.fetch) => core'.fetch.flag # core'.lane[t].accepted
                /\ InProgram(core.fetch) => core'.lane[t].accepted = core.fetch.flag]_vars
    BY <1>1 DEF InProgram, StraightInv, StraightCore, SomeoneRuns
  <1>. QED BY <1>2, StraightKernels, StraightStaysTogether, PipelineInvariance,
              NoLaneMissesAnInstruction, GroupsInitial, GroupsNext, StraightInitial, StraightNext,
              PTL DEF Spec, NothingSkipped, EveryThreadDecodes

-----------------------------------------------------------------------------
(* Kernels without branches and races: what reaches memory.                *)

\* The words that thread g of kernel j reads or writes, and those it writes.
ReadsAndWrites(j, g) == Touched(j.program, Traces[j][g], g[1], g[2])

Writes(j, g) == StoredTo(j.program, Traces[j][g], g[1], g[2])

\* Every kernel of the launch computes the same in any order of its threads.
SoundKernels == \A j \in Jobs : SoundKernel(j, Traces[j], Grid, StepBound)

\* The dispatcher's wires hold the last block handed out.
HandedOut ==
  /\ next \in 0 .. NumBlocks
  /\ start => next > 0
  /\ next > 0 => block = next - 1 /\ count = BlockSize(block)
  /\ finished \subseteq {b \in 0 .. next - 1 : start => b # block}

\* The thread that lane t runs, as Grid names it.
ThreadOf(t) == <<block, t>>

\* Every lane at work is in step with its thread, and the others are at rest.
LanesInStep ==
  /\ FromTheStart(core)
  /\ \A t \in Threads :
       /\ IsRegisters(core.lane[t])
       /\ IF Active(core, t)
          THEN InStep(core, t, memory, job.program, Traces[job][ThreadOf(t)], block)
          ELSE Quiet(core.lane[t])

\* Thread g has not started.
Untouched(g) == g[1] >= next \/ (g[1] = block /\ start /\ ~core.running)

\* Thread g has returned, and its RET has been written back.
Over(g) ==
  \/ g[1] < next /\ ~(g[1] = block /\ start)
  \/ g[1] = block /\ core.running /\ g[2] \notin core.mask

\* What a thread reads and writes is as at first before it starts, and as its
\* program leaves it when it is over.
WordsInStep ==
  \A g \in Grid : \A a \in ReadsAndWrites(job, g) :
    /\ Untouched(g) => memory[a] = job.words[a]
    /\ Over(g) => memory[a] = MemoryAfter(job, g, Len(job.program))[a]

\* Memory is as the threads leave it one by one: the lanes are in step with
\* their threads, the words of a thread that has not started or has returned
\* are known, and which blocks those are the dispatcher's wires say.
SequentialInv == HandedOut /\ LanesInStep /\ WordsInStep /\ WordsArePermitted

\* answered are the threads whose access a cycle answers, w its wires.
CycleOf(answered, w) ==
  \E fetched \in BOOLEAN : Cycle(fetched, answered) /\ w = Wires(fetched, answered)

\* The invariants of the core that the lanes rest on.
AllInStep == GroupsInv /\ PipeInv /\ StraightInv /\ HandedOut /\ LanesInStep

\* Sound kernels are straight-line kernels.
LEMMA SoundIsStraight == SoundKernels => StraightKernels
  BY DEF SoundKernels, SoundKernel, StraightKernels

\* A launch has a number of blocks.
LEMMA BlockCount == NumBlocks \in Nat
  <1>. DEFINE q == NumBlocks
              t == BlockDim
              c == ThreadCount
  <1>1. t \in Nat \ {0} /\ c \in Nat
    BY LaunchAssumption
  <1>2. q = (c + t - 1) \div t
    BY DEF NumBlocks
  <1>. HIDE DEF q, t, c
  <1>3. q \in Nat
    BY <1>1, <1>2
  <1>. QED BY <1>3 DEF q

\* Each thread of the launch has its trace.
LEMMA ReferenceOf ==
  ASSUME SoundKernels, NEW j \in Jobs, NEW g \in Grid
  PROVE  /\ Reference(j.program, j.words, Traces[j][g], g[1], g[2], StepBound)
         /\ Straight(Traces[j][g], j.program, j.words, StepBound)
         /\ Len(j.program) \in 1 .. StepBound /\ StepBound \in Nat
         /\ ReadsAndWrites(j, g) \subseteq Word
         /\ Writes(j, g) \subseteq ReadsAndWrites(j, g)
  <1>1. Traces[j][g] = ThreadTrace(j.program, j.words, g[1], g[2], StepBound)
    BY DEF Traces
  <1>2. /\ StraightLine(j.program) /\ WellFormed(j.program) /\ IsMemory(j.words)
        /\ StepBound \in Nat /\ Len(j.program) \in 1 .. StepBound
        /\ ReadsAndWrites(j, g) \subseteq Word
    BY DEF SoundKernels, SoundKernel, ReadsAndWrites
  <1>3. IsTrace(Traces[j][g], j.program, j.words, g[1], g[2], StepBound)
    BY <1>1, <1>2, TraceDefined
  <1>4. Straight(Traces[j][g], j.program, j.words, StepBound)
    BY <1>2, <1>3, StraightTrace
  <1>5. Writes(j, g) \subseteq ReadsAndWrites(j, g)
    BY DEF Writes, ReadsAndWrites, StoredTo, Touched, MemoryOps
  <1>6. Len(j.program) <= StepBound
    BY <1>2
  <1>. QED BY <1>2, <1>3, <1>4, <1>5, <1>6 DEF Reference, ReadsAndWrites

\* Out of reset no thread has started.
LEMMA SequentialInitial == SoundKernels /\ Init => SequentialInv
  <1>. SUFFICES ASSUME SoundKernels, Init PROVE SequentialInv
    OBVIOUS
  <1>1. \A t \in Threads : core.lane[t] = ResetLane
    BY DEF Init, ResetCore
  <1>2. ~core.running /\ core.pc = 0
    BY DEF Init, ResetCore
  <1>3. NumBlocks \in Nat
    BY BlockCount
  <1>4. HandedOut
    BY <1>3 DEF Init, HandedOut
  <1>5. LanesInStep
    <2>1. Quiet(ResetLane) /\ IsRegisters(ResetLane)
      BY DEF Quiet, IdleOps, IsRegisters, ResetLane, NoOperands, NoItem
    <2>2. FromTheStart(core) /\ \A t \in Threads : ~Active(core, t)
      BY <1>2 DEF FromTheStart, Active
    <2>. QED BY <1>1, <2>1, <2>2 DEF LanesInStep
  <1>6. WordsInStep
    <2>1. \A g \in Grid : ~Over(g)
      BY <1>2 DEF Init, Over, Grid
    <2>. QED BY <2>1 DEF WordsInStep, Init
  <1>7. WordsArePermitted
    BY DEF Init, WordsArePermitted, Permitted
  <1>. QED BY <1>4, <1>5, <1>6, <1>7 DEF SequentialInv

\* The thread of a lane at work is one of the launch.
LEMMA LaneOfGrid ==
  ASSUME ThreadGroups, HandedOut, Handshake, NEW t \in Threads, Active(core, t)
  PROVE  /\ ThreadOf(t) \in Grid /\ ThreadOf(t)[1] = block /\ ThreadOf(t)[2] = t
         /\ block \in 0 .. NumBlocks - 1 /\ next = block + 1
  <1>1. start /\ t \in core.mask /\ core.running
    BY DEF Active, Handshake
  <1>2. t \in Launched
    BY <1>1 DEF ThreadGroups
  <1>3. next \in 0 .. NumBlocks /\ block = next - 1 /\ count = BlockSize(block) /\ next > 0
    BY <1>1 DEF HandedOut
  <1>4. NumBlocks \in Nat
    BY BlockCount
  <1>5. block \in 0 .. NumBlocks - 1 /\ next = block + 1
    BY <1>3, <1>4
  <1>. QED BY <1>2, <1>3, <1>5 DEF Launched, Grid, ThreadOf

\* A store that is answered is one its thread makes.
LEMMA StoreOf ==
  ASSUME SoundKernels, GroupsInv, PipeInv, HandedOut, LanesInStep,
         NEW t \in Threads, core.lane[t].pending.op = "STR"
  PROVE  /\ Active(core, t) /\ ThreadOf(t) \in Grid
         /\ core.lane[t].pending.value \in Writes(job, ThreadOf(t))
         /\ core.lane[t].pending.value \in Word
         /\ \E n \in 0 .. StepBound :
              MemoryAfter(job, ThreadOf(t), n)[core.lane[t].pending.value]
                = core.lane[t].pending.data
  <1>. DEFINE i == core.lane[t].pending
              trace == Traces[job][ThreadOf(t)]
  <1>1. job \in Jobs /\ ThreadGroups /\ Handshake
    BY DEF GroupsInv, Together, PipeInv
  <1>2. i # NoItem
    BY DEF NoItem
  <1>3. Active(core, t) /\ InStep(core, t, memory, job.program, trace, block)
    BY <1>2 DEF LanesInStep, Quiet, IdleOps
  <1>4. ThreadOf(t) \in Grid /\ ThreadOf(t)[1] = block /\ ThreadOf(t)[2] = t
    BY <1>1, <1>3, LaneOfGrid
  <1>5. AccessOf(i, trace, job.program, block, t)
    BY <1>3 DEF InStep, Owns
  <1>6. PICK n \in 0 .. Len(job.program) - 1 :
          /\ InstrAt(job.program, n).op = "STR"
          /\ Address(job.program, trace[n], block, t) = i.value
          /\ trace[n + 1].memory[i.value] = i.data
    BY <1>5 DEF AccessOf, MemoryOps
  <1>7. i.value \in Writes(job, ThreadOf(t))
    BY <1>4, <1>6 DEF Writes, StoredTo
  <1>8. i.value \in Word /\ Len(job.program) \in 1 .. StepBound /\ StepBound \in Nat
    <2>. HIDE DEF i
    <2>. QED BY <1>1, <1>4, <1>7, ReferenceOf
  <1>9. n + 1 \in 0 .. StepBound
    BY <1>8
  <1>10. MemoryAfter(job, ThreadOf(t), n + 1)[i.value] = i.data
    BY <1>6 DEF MemoryAfter
  <1>. QED BY <1>3, <1>4, <1>7, <1>8, <1>9, <1>10

\* At most one store to a word is answered.
LEMMA OneStore ==
  ASSUME SoundKernels, GroupsInv, PipeInv, HandedOut, LanesInStep,
         NEW t \in Threads, core.lane[t].pending.op = "STR",
         NEW u \in Threads, core.lane[u].pending.op = "STR",
         core.lane[t].pending.value = core.lane[u].pending.value
  PROVE  t = u
  <1>1. job \in Jobs
    BY DEF GroupsInv, Together
  <1>2. ThreadOf(t) \in Grid /\ core.lane[t].pending.value \in Writes(job, ThreadOf(t))
    BY StoreOf
  <1>3. ThreadOf(u) \in Grid /\ core.lane[u].pending.value \in Writes(job, ThreadOf(u))
    BY StoreOf
  <1>4. core.lane[u].pending.value \in ReadsAndWrites(job, ThreadOf(u))
    BY <1>1, <1>3, ReferenceOf
  <1>5. ThreadOf(t) = ThreadOf(u)
    BY <1>1, <1>2, <1>3, <1>4 DEF SoundKernels, SoundKernel, Writes, ReadsAndWrites
  <1>. QED BY <1>5 DEF ThreadOf

\* A word keeps its value, or takes that of the store that is answered.
LEMMA WordNext ==
  ASSUME SoundKernels, GroupsInv, PipeInv, HandedOut, LanesInStep,
         NEW answered, NEW w, CycleOf(answered, w), NEW a \in Word
  PROVE  /\ memory'[a] = memory[a] \/
              \E t \in answered : /\ t \in Threads
                                  /\ core.lane[t].pending.op = "STR"
                                  /\ core.lane[t].pending.value = a
                                  /\ memory'[a] = core.lane[t].pending.data
         /\ \A t \in answered : core.lane[t].pending.op = "STR" /\ core.lane[t].pending.value = a
              => memory'[a] = core.lane[t].pending.data
  <1>. DEFINE s == StoresTo(a, answered)
              c == CHOOSE t \in s : \A u \in s : u <= t
  <1>1. /\ memory'[a] = IF s = {} THEN memory[a] ELSE core.lane[c].pending.data
        /\ answered \subseteq Threads
    BY DEF CycleOf, Cycle, MemoryNext, Waiting
  <1>2. \A t : t \in s <=> /\ t \in answered /\ core.lane[t].pending.op = "STR"
                           /\ core.lane[t].pending.value = a
    BY DEF StoresTo
  <1>3. \A t, u \in s : t = u
    <2>. HIDE DEF s
    <2>. QED BY <1>1, <1>2, OneStore
  <1>4. ASSUME NEW t \in s PROVE c = t
    <2>1. s = {t} /\ t <= t
      BY <1>1, <1>2, <1>3, <1>4 DEF Threads
    <2>. HIDE DEF s
    <2>. QED BY <2>1
  <1>. HIDE DEF s, c
  <1>. QED BY <1>1, <1>2, <1>4

\* What a cycle does outside the lanes.
LEMMA CycleFacts ==
  ASSUME SoundKernels, AllInStep, NEW answered, NEW w, CycleOf(answered, w)
  PROVE  /\ core' = CoreNext(core, w) /\ StraightEdge(core, w, job.program)
         /\ w.block = block /\ w.start = start /\ w.count = count
         /\ w.answered = answered /\ answered \subseteq Waiting(core)
         /\ \A t \in answered : w.word[t] = memory[core.lane[t].pending.value]
         /\ job' = job /\ job \in Jobs
         /\ DispatcherNext(CoreDone(core, w)) /\ CoreDone(core, w) \in BOOLEAN
         /\ finished' = IF start /\ CoreDone(core, w) THEN finished \cup {block} ELSE finished
         /\ Handshake' /\ core'.start_q = start
  <1>1. PICK fetched \in BOOLEAN : Cycle(fetched, answered) /\ w = Wires(fetched, answered)
    BY DEF CycleOf
  <1>2. /\ core' = CoreNext(core, w)
        /\ w.start = start /\ w.count = count /\ w.fetched = fetched
        /\ w.instr = FetchAt(job.program, core.fetch.pc)
        /\ DispatcherNext(CoreDone(core, w))
        /\ job' = job
    BY <1>1, CycleIsEdge
  <1>3. StraightWires(core, w, job.program)
    BY <1>2, StraightCycle, SoundIsStraight DEF AllInStep
  <1>4. /\ w.block = block /\ w.answered = answered
        /\ \A t \in Threads : t \in answered => w.word[t] = memory[core.lane[t].pending.value]
    BY <1>1 DEF Wires
  <1>5. answered \subseteq Waiting(core) /\ answered \subseteq Threads
    BY <1>1 DEF Cycle, Waiting
  <1>6. finished' = IF start /\ CoreDone(core, w) THEN finished \cup {block} ELSE finished
    BY <1>1 DEF Cycle
  <1>7. Handshake'
    BY <1>2, HandshakeStep DEF AllInStep, PipeInv
  <1>8. CoreDone(core, w) \in BOOLEAN
    <2>1. Ends(core, w) \in BOOLEAN
      BY DEF Ends
    <2>. QED BY <2>1 DEF CoreDone
  <1>9. core'.start_q = start
    BY <1>2, CoreFields
  <1>10. job \in Jobs /\ StraightEdge(core, w, job.program)
    BY <1>3 DEF AllInStep, GroupsInv, Together, StraightInv, StraightEdge
  <1>. QED BY <1>2, <1>4, <1>5, <1>6, <1>7, <1>8, <1>9, <1>10

\* The dispatcher hands out one block after another, and counts none of them as
\* done that it has not handed out.
LEMMA HandedOutStep ==
  ASSUME HandedOut, NEW done \in BOOLEAN, DispatcherNext(done),
         finished' = IF start /\ done THEN finished \cup {block} ELSE finished
  PROVE  HandedOut'
  <1>1. NumBlocks \in Nat /\ next \in 0 .. NumBlocks /\ next \in Nat
    BY BlockCount DEF HandedOut
  <1>2. CASE start
    <2>1. start' = ~done /\ next' = next /\ block' = block /\ count' = count
      BY <1>2 DEF DispatcherNext
    <2>2. block = next - 1 /\ next > 0 /\ count = BlockSize(block)
      BY <1>2 DEF HandedOut
    <2>3. finished' \subseteq {b \in 0 .. next - 1 : ~done => b # block}
      BY <1>1, <1>2, <2>2 DEF HandedOut
    <2>4. BlockSize(block)' = BlockSize(block)
      BY <2>1 DEF BlockSize
    <2>. QED BY <1>1, <2>1, <2>2, <2>3, <2>4 DEF HandedOut
  <1>3. CASE ~start /\ next < NumBlocks
    <2>1. start' = TRUE /\ next' = next + 1 /\ block' = next /\ count' = BlockSize(next)
      BY <1>3 DEF DispatcherNext
    <2>2. finished' = finished /\ finished \subseteq 0 .. next - 1
      BY <1>3 DEF HandedOut
    <2>3. ASSUME NEW b \in finished' PROVE b \in 0 .. next' - 1 /\ b # block'
      <3>1. b \in 0 .. next - 1
        BY <2>2
      <3>. QED BY <1>1, <2>1, <3>1
    <2>4. BlockSize(block)' = BlockSize(next)
      BY <2>1 DEF BlockSize
    <2>5. next' \in 0 .. NumBlocks /\ next' > 0 /\ block' = next' - 1
      BY <1>1, <1>3, <2>1
    <2>. QED BY <1>1, <2>1, <2>3, <2>4, <2>5 DEF HandedOut
  <1>4. CASE ~start /\ ~(next < NumBlocks)
    <2>1. UNCHANGED <<start, block, count, next, finished>>
      BY <1>4 DEF DispatcherNext
    <2>. QED BY <2>1 DEF HandedOut, BlockSize
  <1>. QED BY <1>2, <1>3, <1>4

\* What memory does for a lane at work, in a launch without races.
LEMMA LaneMemoryOf ==
  ASSUME SoundKernels, AllInStep, NEW answered, NEW w, CycleOf(answered, w),
         NEW t \in Threads, Active(core, t)
  PROVE  LaneMemory(core, w, t, memory, memory', ReadsAndWrites(job, ThreadOf(t)))
  <1>. DEFINE i == core.lane[t].pending
              own == ReadsAndWrites(job, ThreadOf(t))
  <1>1. /\ w.answered = answered /\ answered \subseteq Waiting(core) /\ job \in Jobs
        /\ \A u \in answered : w.word[u] = memory[core.lane[u].pending.value]
    BY CycleFacts
  <1>2. ThreadOf(t) \in Grid /\ own \subseteq Word
    <2>1. ThreadOf(t) \in Grid
      BY LaneOfGrid DEF AllInStep, GroupsInv, PipeInv
    <2>. QED BY <1>1, <2>1, ReferenceOf
  <1>3. ASSUME NEW a \in own, memory'[a] # memory[a]
        PROVE  i.op = "STR" /\ i.value = a /\ memory'[a] = i.data
    <2>1. PICK u \in answered : /\ u \in Threads
                                /\ core.lane[u].pending.op = "STR"
                                /\ core.lane[u].pending.value = a
                                /\ memory'[a] = core.lane[u].pending.data
      BY <1>2, <1>3, WordNext DEF AllInStep
    <2>2. ThreadOf(u) \in Grid /\ a \in Writes(job, ThreadOf(u))
      BY <2>1, StoreOf DEF AllInStep
    <2>3. ThreadOf(u) = ThreadOf(t)
      BY <1>1, <1>2, <2>2 DEF SoundKernels, SoundKernel, Writes, ReadsAndWrites
    <2>. QED BY <2>1, <2>3 DEF ThreadOf
  <1>4. ASSUME t \in answered
        PROVE  /\ i # NoItem
               /\ i.op = "STR" => memory'[i.value] = i.data
               /\ i.op = "LDR" => w.word[t] = memory[i.value]
    <2>1. i # NoItem
      BY <1>1, <1>4 DEF Waiting, MemReady
    <2>2. ASSUME i.op = "STR" PROVE memory'[i.value] = i.data
      <3>1. i.value \in Word
        BY <2>2, StoreOf DEF AllInStep
      <3>. QED BY <1>4, <2>2, <3>1, WordNext DEF AllInStep
    <2>. QED BY <1>1, <1>4, <2>1, <2>2
  <1>. QED BY <1>1, <1>3, <1>4 DEF LaneMemory

\* The words of a thread that is not at work stay as they are.
LEMMA WordsRest ==
  ASSUME SoundKernels, AllInStep, NEW answered, NEW w, CycleOf(answered, w),
         NEW g \in Grid, \A t \in Threads : Active(core, t) => g # ThreadOf(t)
  PROVE  \A a \in ReadsAndWrites(job, g) : memory'[a] = memory[a]
  <1>. SUFFICES ASSUME NEW a \in ReadsAndWrites(job, g), memory'[a] # memory[a] PROVE FALSE
    OBVIOUS
  <1>1. job \in Jobs
    BY CycleFacts
  <1>2. a \in Word
    BY <1>1, ReferenceOf
  <1>3. PICK u \in answered : /\ u \in Threads
                              /\ core.lane[u].pending.op = "STR"
                              /\ core.lane[u].pending.value = a
    BY <1>2, WordNext DEF AllInStep
  <1>4. Active(core, u) /\ ThreadOf(u) \in Grid /\ a \in Writes(job, ThreadOf(u))
    BY <1>3, StoreOf DEF AllInStep
  <1>5. ThreadOf(u) = g
    BY <1>1, <1>4 DEF SoundKernels, SoundKernel, Writes, ReadsAndWrites
  <1>. QED BY <1>3, <1>4, <1>5

\* Nothing is stored but what a thread stores.
LEMMA StoresStep ==
  ASSUME SoundKernels, AllInStep, WordsArePermitted,
         NEW answered, NEW w, CycleOf(answered, w)
  PROVE  WordsArePermitted'
  <1>. SUFFICES ASSUME NEW a \in Word PROVE <<a, memory'[a]>> \in Permitted[job]
    BY CycleFacts DEF WordsArePermitted
  <1>1. job \in Jobs
    BY CycleFacts
  <1>2. CASE memory'[a] = memory[a]
    BY <1>2 DEF WordsArePermitted
  <1>3. CASE memory'[a] # memory[a]
    <2>1. PICK u \in answered : /\ u \in Threads
                                /\ core.lane[u].pending.op = "STR"
                                /\ core.lane[u].pending.value = a
                                /\ memory'[a] = core.lane[u].pending.data
      BY <1>3, WordNext DEF AllInStep
    <2>2. ThreadOf(u) \in Grid /\ \E n \in 0 .. StepBound :
            MemoryAfter(job, ThreadOf(u), n)[a] = memory'[a]
      BY <2>1, StoreOf DEF AllInStep
    <2>. QED BY <1>1, <2>2 DEF Permitted
  <1>. QED BY <1>2, <1>3

\* Every lane stays in step with its thread, or at rest.
LEMMA LanesStep ==
  ASSUME SoundKernels, AllInStep, WordsInStep, NEW answered, NEW w, CycleOf(answered, w)
  PROVE  LanesInStep'
  <1>. DEFINE p == job.program
  <1>1. /\ core' = CoreNext(core, w) /\ StraightEdge(core, w, p)
        /\ w.block = block /\ w.start = start /\ w.count = count
        /\ job' = job /\ job \in Jobs /\ DispatcherNext(CoreDone(core, w))
    BY CycleFacts
  <1>2. FromTheStart(core) /\ FromTheStart(core')
    BY <1>1, FromTheStartStep DEF AllInStep, LanesInStep
  <1>3. core.running <=> start /\ core.start_q
    BY DEF AllInStep, PipeInv, Handshake
  <1>4. start => block' = block
    BY <1>1 DEF DispatcherNext
  <1>5. ASSUME NEW t \in Threads
        PROVE  /\ IsRegisters(core'.lane[t])
               /\ IF Active(core', t)
                  THEN InStep(core', t, memory', p, Traces[job][<<block', t>>], block')
                  ELSE Quiet(core'.lane[t])
    <2>. DEFINE g == ThreadOf(t)
                trace == Traces[job][ThreadOf(t)]
                own == Touched(p, trace, block, t)
    <2>1. IsRegisters(core.lane[t]) /\ IsRegisters(core'.lane[t])
      BY <1>1, RegistersStep DEF AllInStep, LanesInStep
    <2>2. g[1] = block /\ g[2] = t /\ ReadsAndWrites(job, g) = own
      BY DEF ThreadOf, ReadsAndWrites
    <2>3. CASE Active(core, t)
      <3>1. g \in Grid
        BY <2>3, LaneOfGrid DEF AllInStep, GroupsInv, PipeInv
      <3>2. Reference(p, job.words, trace, block, t, StepBound)
        BY <1>1, <2>2, <3>1, ReferenceOf
      <3>3. LaneMemory(core, w, t, memory, memory', own)
        BY <2>2, <2>3, LaneMemoryOf
      <3>4. InStep(core, t, memory, p, trace, block)
        BY <2>3 DEF AllInStep, LanesInStep
      <3>5. block' = block /\ core.running
        BY <1>3, <1>4, <2>3 DEF Active
      <3>6. Active(core', t) <=> t \notin Retiring(core)
        BY <1>1, <2>3, <3>5, ActiveAfter
      <3>. HIDE DEF p, trace
      <3>7. CASE t \notin Retiring(core)
        <4>1. InStep(core', t, memory', p, trace, block)
          BY <1>1, <1>2, <2>3, <3>2, <3>3, <3>4, <3>7, LaneStep
        <4>. QED BY <2>1, <3>5, <3>6, <3>7, <4>1 DEF trace, ThreadOf
      <3>8. CASE t \in Retiring(core)
        <4>1. Quiet(core'.lane[t])
          BY <1>1, <1>2, <2>3, <3>2, <3>3, <3>4, <3>8, LaneRetires
        <4>. QED BY <2>1, <3>6, <3>8, <4>1
      <3>. QED BY <3>7, <3>8
    <2>4. CASE ~Active(core, t) /\ ~Active(core', t)
      <3>1. Quiet(core.lane[t])
        BY <2>4 DEF AllInStep, LanesInStep
      <3>2. Quiet(core'.lane[t])
        BY <1>1, <2>4, <3>1, QuietStep
      <3>. QED BY <2>1, <2>4, <3>2
    <2>5. CASE ~Active(core, t) /\ Active(core', t)
      <3>1. ~core.running /\ StartEdge(core, w)
        BY <1>1, <2>5, ActiveAfter
      <3>2. start /\ t < count
        BY <1>1, <2>5, <3>1, CoreFields DEF StartEdge, MaskNext, Active
      <3>3. g \in Grid /\ block' = block
        <4>1. /\ next \in 0 .. NumBlocks /\ NumBlocks \in Nat
              /\ block = next - 1 /\ count = BlockSize(block) /\ next > 0
          BY <3>2, BlockCount DEF AllInStep, HandedOut
        <4>2. block \in 0 .. NumBlocks - 1
          BY <4>1
        <4>. QED BY <1>4, <3>2, <4>1, <4>2 DEF Grid, ThreadOf
      <3>4. Reference(p, job.words, trace, block, t, StepBound)
        BY <1>1, <2>2, <3>3, ReferenceOf
      <3>5. ASSUME NEW a \in own PROVE memory'[a] = job.words[a]
        <4>1. memory'[a] = memory[a]
          BY <2>2, <3>1, <3>3, WordsRest DEF Active
        <4>2. Untouched(g)
          BY <2>2, <3>1, <3>2 DEF Untouched
        <4>3. memory[a] = job.words[a]
          BY <2>2, <3>3, <4>2 DEF WordsInStep
        <4>. QED BY <4>1, <4>3
      <3>6. Quiet(core.lane[t])
        BY <2>5 DEF AllInStep, LanesInStep
      <3>7. \A a \in Touched(p, trace, w.block, t) : memory'[a] = job.words[a]
        BY <1>1, <3>5
      <3>8. /\ Reference(p, job.words, trace, w.block, t, StepBound)
            /\ core' = CoreNext(core, w) /\ StraightEdge(core, w, p)
        BY <1>1, <3>4
      <3>. HIDE DEF p, trace
      <3>9. InStep(core', t, memory', p, trace, w.block)
        BY <1>2, <2>1, <3>1, <3>6, <3>7, <3>8, LaneStarts
      <3>. QED BY <1>1, <2>1, <2>5, <3>3, <3>9 DEF trace, ThreadOf
    <2>. QED BY <2>3, <2>4, <2>5
  <1>. QED BY <1>1, <1>2, <1>5 DEF LanesInStep, Active, FromTheStart, ThreadOf

\* A thread has its words as at first until it starts, and leaves them as its
\* program does when its RET is written back.
LEMMA WordsStep ==
  ASSUME SoundKernels, AllInStep, WordsInStep, NEW answered, NEW w, CycleOf(answered, w)
  PROVE  WordsInStep'
  <1>. DEFINE p == job.program
              done == CoreDone(core, w)
  <1>1. /\ core' = CoreNext(core, w) /\ StraightEdge(core, w, p)
        /\ w.block = block /\ w.start = start /\ w.count = count
        /\ job' = job /\ job \in Jobs /\ DispatcherNext(done) /\ done \in BOOLEAN
        /\ Handshake' /\ core'.start_q = start
    BY CycleFacts
  <1>2. core.running <=> start /\ core.start_q
    BY DEF AllInStep, PipeInv, Handshake
  <1>3. core'.running <=> start' /\ start
    BY <1>1 DEF Handshake
  <1>4. /\ start => block' = block /\ next' = next /\ (start' <=> ~done)
        /\ ~start => (next' = next + 1 /\ start' /\ block' = next)
                     \/ (next' = next /\ ~start' /\ block' = block)
    BY <1>1 DEF DispatcherNext
  <1>5. /\ next \in Nat
        /\ start => next > 0 /\ count = BlockSize(block) /\ count \in Nat \ {0}
        /\ next > 0 => block = next - 1 /\ block \in Nat
    <2>1. next \in 0 .. NumBlocks /\ NumBlocks \in Nat
      BY BlockCount DEF AllInStep, HandedOut
    <2>. QED BY <2>1 DEF AllInStep, HandedOut, StraightInv
  <1>. SUFFICES ASSUME NEW g \in Grid, NEW a \in ReadsAndWrites(job, g)
                PROVE  /\ Untouched(g)' => memory'[a] = job.words[a]
                       /\ Over(g)' => memory'[a] = MemoryAfter(job, g, Len(p))[a]
    BY <1>1 DEF WordsInStep, Untouched, Over, Grid
  <1>6. g[1] \in Nat /\ g[2] \in Threads /\ g = <<g[1], g[2]>> /\ g[2] < BlockSize(g[1])
    BY BlockCount DEF Grid
  <1>7. ~(g[1] = block /\ core.running /\ g[2] \in core.mask) => memory'[a] = memory[a]
    <2>1. ~(g[1] = block /\ core.running /\ g[2] \in core.mask) =>
            \A t \in Threads : Active(core, t) => g # ThreadOf(t)
      BY DEF Active, ThreadOf
    <2>. QED BY <2>1, WordsRest
  <1>8. ASSUME Untouched(g)' PROVE memory'[a] = job.words[a]
    <2>1. g[1] >= next' \/ (g[1] = block' /\ start' /\ ~core'.running)
      BY <1>8 DEF Untouched
    <2>2. g[1] >= next
      <3>1. CASE start
        BY <1>3, <1>4, <2>1, <3>1
      <3>2. CASE ~start
        BY <1>4, <1>5, <1>6, <2>1, <3>2
      <3>. QED BY <3>1, <3>2
    <2>3. memory[a] = job.words[a]
      BY <2>2 DEF WordsInStep, Untouched
    <2>4. ~(g[1] = block /\ core.running)
      BY <1>2, <1>5, <2>2
    <2>. QED BY <1>7, <2>3, <2>4
  <1>9. ASSUME Over(g)', ~Over(g)
        PROVE  g[1] = block /\ core.running /\ g[2] \in core.mask /\ g[2] \in Retiring(core)
    <2>1. \/ g[1] < next' /\ ~(g[1] = block' /\ start')
          \/ g[1] = block' /\ core'.running /\ g[2] \notin core'.mask
      BY <1>9 DEF Over
    <2>2. /\ g[1] < next => g[1] = block /\ start
          /\ g[1] = block /\ core.running => g[2] \in core.mask
      BY <1>9 DEF Over
    <2>3. start
      <3>. SUFFICES ASSUME ~start PROVE FALSE
        OBVIOUS
      <3>1. ~core'.running /\ ~(g[1] < next)
        BY <1>3, <2>2
      <3>. QED BY <1>4, <1>5, <1>6, <2>1, <3>1
    <2>4. next' = next /\ block' = block /\ g[1] = block
      <3>1. next' = next /\ block' = block
        BY <1>4, <2>3
      <3>. QED BY <2>1, <2>2, <3>1
    <2>5. core.running
      <3>. SUFFICES ASSUME ~core.running PROVE FALSE
        OBVIOUS
      <3>1. StartEdge(core, w)
        BY <1>1, <1>2, <2>3 DEF StartEdge
      <3>2. ~done /\ core'.running
        BY <1>1, <1>3, <1>4, <1>5, <2>3, <3>1 DEF CoreDone
      <3>3. core'.mask = {t \in Threads : t < count}
        BY <1>1, <3>1, CoreFields DEF MaskNext
      <3>4. g[2] \in core'.mask
        BY <1>5, <1>6, <2>3, <2>4, <3>3
      <3>. QED BY <1>3, <2>1, <2>4, <3>2, <3>4
    <2>6. /\ core'.mask = core.mask \ Retiring(core)
          /\ core'.running <=> ~(core.mask \subseteq Retiring(core))
      BY <1>1, <2>5, RunningEdge
    <2>7. g[2] \in core.mask
      BY <2>2, <2>4, <2>5
    <2>. QED BY <1>3, <2>1, <2>3, <2>4, <2>5, <2>6, <2>7
  <1>10. ASSUME Over(g)' PROVE memory'[a] = MemoryAfter(job, g, Len(p))[a]
    <2>1. CASE Over(g)
      <3>1. memory[a] = MemoryAfter(job, g, Len(p))[a]
        BY <2>1 DEF WordsInStep
      <3>2. ~(g[1] = block /\ core.running /\ g[2] \in core.mask)
        BY <1>2, <2>1 DEF Over
      <3>. QED BY <1>7, <3>1, <3>2
    <2>2. CASE ~Over(g)
      <3>. DEFINE t == g[2]
                  trace == Traces[job][ThreadOf(t)]
                  own == Touched(p, trace, block, t)
      <3>1. g = ThreadOf(t) /\ t \in Threads /\ Active(core, t) /\ t \in Retiring(core)
        BY <1>6, <1>9, <1>10, <2>2 DEF ThreadOf, Active
      <3>2. ReadsAndWrites(job, g) = own /\ g[1] = block
        BY <1>9, <1>10, <2>2, <3>1 DEF ReadsAndWrites
      <3>3. Reference(p, job.words, trace, block, t, StepBound)
        <4>1. Reference(p, job.words, Traces[job][g], g[1], g[2], StepBound)
          BY <1>1, ReferenceOf
        <4>. QED BY <3>1, <3>2, <4>1
      <3>4. LaneMemory(core, w, t, memory, memory', own)
        BY <3>1, <3>2, LaneMemoryOf
      <3>5. InStep(core, t, memory, p, trace, block) /\ FromTheStart(core)
        BY <3>1 DEF AllInStep, LanesInStep
      <3>6. MemoryAfter(job, g, Len(p)) = trace[Len(p)].memory
        BY <3>1 DEF MemoryAfter
      <3>. HIDE DEF p, trace, t
      <3>8. /\ Reference(p, job.words, trace, w.block, t, StepBound)
            /\ LaneMemory(core, w, t, memory, memory', Touched(p, trace, w.block, t))
            /\ InStep(core, t, memory, p, trace, w.block)
            /\ own = Touched(p, trace, w.block, t)
        BY <1>1, <3>3, <3>4, <3>5
      <3>. HIDE DEF own
      <3>9. /\ core' = CoreNext(core, w) /\ StraightEdge(core, w, p)
            /\ t \in Threads /\ Active(core, t) /\ t \in Retiring(core) /\ FromTheStart(core)
        BY <1>1, <3>1, <3>5
      <3>7. AsLeft(p, trace, own, memory')
        BY <3>8, <3>9, LaneRetires
      <3>. QED BY <3>2, <3>6, <3>7 DEF AsLeft
    <2>. QED BY <2>1, <2>2
  <1>. QED BY <1>8, <1>10

\* A clock cycle keeps every lane and every word in step with the threads.
LEMMA SequentialNext ==
  SoundKernels /\ GroupsInv /\ PipeInv /\ StraightInv /\ SequentialInv /\ [Next]_vars
    => SequentialInv'
  <1>. SUFFICES ASSUME SoundKernels, GroupsInv, PipeInv, StraightInv, SequentialInv, [Next]_vars
                PROVE  SequentialInv'
    OBVIOUS
  <1>1. ASSUME NEW fetched \in BOOLEAN, NEW answered \in SUBSET Threads,
               Cycle(fetched, answered)
        PROVE  SequentialInv'
    <2>1. PICK w : w = Wires(fetched, answered)
      OBVIOUS
    <2>2. CycleOf(answered, w) /\ AllInStep
      BY <1>1, <2>1 DEF CycleOf, AllInStep, SequentialInv
    <2>3. HandedOut'
      BY <2>2, CycleFacts, HandedOutStep DEF AllInStep
    <2>. QED BY <2>2, <2>3, LanesStep, WordsStep, StoresStep DEF SequentialInv
  <1>2. CASE UNCHANGED vars
    <2>1. HandedOut'
      BY <1>2 DEF vars, SequentialInv, HandedOut, BlockSize
    <2>2. LanesInStep'
      BY <1>2 DEF vars, SequentialInv, LanesInStep, FromTheStart, Active, ThreadOf
    <2>3. WordsInStep'
      BY <1>2 DEF vars, SequentialInv, WordsInStep, Untouched, Over
    <2>4. WordsArePermitted'
      BY <1>2 DEF vars, SequentialInv, WordsArePermitted
    <2>. QED BY <2>1, <2>2, <2>3, <2>4 DEF SequentialInv
  <1>. QED BY <1>1, <1>2 DEF Next

\* Blocks that are counted as done are over.
LEMMA FinishedIsOver ==
  ASSUME SequentialInv, NEW g \in Grid, g[1] \in finished
  PROVE  Over(g)
  <1>1. g[1] \in 0 .. next - 1 /\ (start => block # g[1])
    BY DEF SequentialInv, HandedOut
  <1>2. next \in Nat
    BY BlockCount DEF SequentialInv, HandedOut
  <1>. QED BY <1>1, <1>2 DEF Over

\* A thread changes the words that it stores to and no other.
LEMMA OthersUnchanged ==
  ASSUME SoundKernels, NEW j \in Jobs, NEW g \in Grid, NEW a \in Word, a \notin Writes(j, g)
  PROVE  \A m \in 0 .. StepBound : MemoryAfter(j, g, m)[a] = j.words[a]
  <1>. DEFINE trace == Traces[j][g]
              p == j.program
  <1>1. /\ Reference(p, j.words, trace, g[1], g[2], StepBound)
        /\ Straight(trace, p, j.words, StepBound) /\ Len(p) > 0
    BY ReferenceOf
  <1>2. a \notin StoredTo(p, trace, g[1], g[2])
    BY DEF Writes
  <1>3. \A m \in 0 .. StepBound : MemoryAfter(j, g, m) = trace[m].memory
    BY DEF MemoryAfter
  <1>. HIDE DEF trace, p
  <1>4. KeepsWord(trace, j.words, StepBound, a)
    BY <1>1, <1>2, OnlyStored DEF Reference
  <1>. QED BY <1>3, <1>4 DEF KeepsWord

\* The words that a thread of a finished block stores to are as it leaves them.
LEMMA StoredIsLeft ==
  ASSUME SoundKernels, SequentialInv, job \in Jobs,
         NEW g \in Grid, g[1] \in finished, NEW a \in Writes(job, g)
  PROVE  memory[a] = MemoryAfter(job, g, StepBound)[a]
  <1>. DEFINE trace == Traces[job][g]
              p == job.program
  <1>1. /\ Straight(trace, p, job.words, StepBound)
        /\ Len(p) \in 1 .. StepBound /\ StepBound \in Nat
        /\ Writes(job, g) \subseteq ReadsAndWrites(job, g)
    BY ReferenceOf
  <1>2. memory[a] = MemoryAfter(job, g, Len(p))[a]
    BY <1>1, FinishedIsOver DEF SequentialInv, WordsInStep
  <1>3. StepBound \in 0 .. StepBound /\ Len(p) > 0 /\ StepBound >= Len(p)
    BY <1>1
  <1>4. trace[StepBound].memory = trace[Len(p)].memory
    BY <1>1, <1>3 DEF Straight
  <1>. QED BY <1>2, <1>4 DEF MemoryAfter

LEMMA FinishedIsComplete == SoundKernels /\ GroupsInv /\ SequentialInv => BlocksComplete
  <1>. SUFFICES ASSUME SoundKernels, GroupsInv, SequentialInv,
                       NEW r \in Results[job], r[1] \in finished
                PROVE  memory[r[2]] = r[3]
    BY DEF BlocksComplete
  <1>0. job \in Jobs
    BY DEF GroupsInv, Together
  <1>1. job \in Jobs /\ StepBound \in 0 .. StepBound
    BY <1>0 DEF SoundKernels, SoundKernel
  <1>2. PICK g \in Grid, a \in Word :
          /\ MemoryAfter(job, g, StepBound)[a] # job.words[a]
          /\ r = <<g[1], a, MemoryAfter(job, g, StepBound)[a]>>
    BY <1>1 DEF Results
  <1>3. a \in Writes(job, g) /\ g[1] \in finished
    BY <1>1, <1>2, OthersUnchanged
  <1>. QED BY <1>1, <1>2, <1>3, StoredIsLeft

\* When all blocks are done, a word is as the threads that store to it leave it,
\* and a word that none stores to has only ever held its first value.
LEMMA FinishedIsSequential == SoundKernels /\ GroupsInv /\ SequentialInv => ResultIsSequential
  <1>. SUFFICES ASSUME SoundKernels, GroupsInv, SequentialInv, finished = 0 .. NumBlocks - 1,
                       NEW a \in Word
                PROVE  memory[a] = Expected[job][a]
    BY DEF ResultIsSequential
  <1>. DEFINE Left(g) == MemoryAfter(job, g, StepBound)[a]
              writers == {g \in Grid : Left(g) # job.words[a]}
  <1>0. job \in Jobs
    BY DEF GroupsInv, Together
  <1>1. job \in Jobs /\ StepBound \in 0 .. StepBound
    BY <1>0 DEF SoundKernels, SoundKernel
  <1>2. Expected[job][a] = IF writers = {} THEN job.words[a]
                           ELSE Left(CHOOSE g \in writers : TRUE)
    BY <1>1 DEF Expected
  <1>3. ASSUME NEW g \in Grid, a \in Writes(job, g)
        PROVE  memory[a] = Left(g)
    <2>1. g[1] \in finished
      BY DEF Grid
    <2>. QED BY <1>1, <1>3, <2>1, StoredIsLeft
  <1>4. \A g \in writers : a \in Writes(job, g)
    BY <1>1, OthersUnchanged
  <1>5. CASE writers # {}
    <2>. DEFINE w == CHOOSE g \in writers : TRUE
    <2>1. w \in writers
      BY <1>5
    <2>2. Expected[job][a] = Left(w)
      BY <1>2, <1>5
    <2>. HIDE DEF w
    <2>. QED BY <1>3, <1>4, <2>1, <2>2
  <1>6. CASE writers = {}
    <2>1. Expected[job][a] = job.words[a]
      BY <1>2, <1>6
    <2>2. CASE \E g \in Grid : a \in Writes(job, g)
      BY <1>3, <1>6, <2>1, <2>2
    <2>3. CASE \A g \in Grid : a \notin Writes(job, g)
      <3>1. \A g \in Grid, m \in 0 .. StepBound : MemoryAfter(job, g, m)[a] = job.words[a]
        BY <1>1, <2>3, OthersUnchanged
      <3>2. <<a, memory[a]>> \in Permitted[job]
        BY DEF SequentialInv, WordsArePermitted
      <3>3. memory[a] = job.words[a]
        BY <1>1, <3>1, <3>2 DEF Permitted
      <3>. QED BY <2>1, <3>3
    <2>. QED BY <2>2, <2>3
  <1>. QED BY <1>5, <1>6

\* For kernels without branches and races: whatever the delays of memory, data
\* memory never holds anything but what a thread that runs alone puts there, and
\* when all blocks are reported done it is the memory that the threads leave one
\* by one.  Forwarding, load waits, and what a block leaves in the registers for
\* the next, lose no store and make up none.
THEOREM KernelsAreSequential == ASSUME SoundKernels PROVE Spec => []StoresAreSequential
  <1>1. SoundKernels /\ GroupsInv /\ SequentialInv => StoresAreSequential
    BY FinishedIsSequential DEF SequentialInv, StoresAreSequential
  <1>. QED BY <1>1, SoundKernels, SoundIsStraight, StraightStaysTogether, PipelineInvariance,
              GroupsInitial, GroupsNext, StraightInitial, StraightNext,
              SequentialInitial, SequentialNext, PTL DEF Spec

\* When a block of such a kernel is reported done, everything its threads store
\* is in memory: no store is still in a lane (core.sv counts the RETs, and
\* mem_stage.sv holds a RET back behind the accesses before it).
THEOREM KernelsComplete == ASSUME SoundKernels PROVE Spec => []BlocksComplete
  <1>. QED BY FinishedIsComplete, SoundKernels, SoundIsStraight, StraightStaysTogether,
              PipelineInvariance,
              GroupsInitial, GroupsNext, StraightInitial, StraightNext,
              SequentialInitial, SequentialNext, PTL DEF Spec
=============================================================================
