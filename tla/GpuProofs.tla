----------------------------- MODULE GpuProofs -----------------------------
(***************************************************************************)
(* Theorems about the GPU, for every number of cores, lanes and channels   *)
(* and every kernel: its cores keep the handshake the dispatcher's own     *)
(* specification assumes, so what is proved of the dispatcher holds of the *)
(* GPU, and its stages hold their requests as the memory controllers rely  *)
(* on.  For kernels without branches it has come to rest when it reports   *)
(* a kernel done, and if they are free of races, memory is then as their   *)
(* threads leave it one by one.                                            *)
(***************************************************************************)
EXTENDS Gpu, Ranks, PipelineProofs

\* The dispatcher of Gpu, with the theorems about it.
DP == INSTANCE DispatchProofs
        WITH ThreadsPerBlock <- BlockDim,
             start_q <- [c \in Cores |-> core[c].start_q],
             running <- [c \in Cores |-> core[c].running]

-----------------------------------------------------------------------------
(* The dispatcher.                                                         *)

\* Both instances count alike.
LEMMA SameCardinality == \A S : D!Cardinality(S) = DP!Cardinality(S)
  BY DEF D!Cardinality, DP!Cardinality, D!IsFiniteSet, DP!IsFiniteSet

\* The two instances of Dispatch are the same.
LEMMA SameDispatch ==
  /\ D!Init => DP!Init
  /\ [D!Next]_(D!vars) => [DP!Next]_(DP!vars)
  <1>1. D!Init => DP!Init
    BY DEF D!Init, DP!Init, D!Cores, DP!Cores
  <1>2. D!Reset => DP!Reset
    BY DEF D!Reset, D!Quiesce, D!Cores, DP!Reset, DP!Quiesce, DP!Cores
  <1>3. \A fin : D!CoresTick(fin) => DP!CoresTick(fin)
    BY DEF D!CoresTick, D!StartEdge, D!Cores, DP!CoresTick, DP!StartEdge, DP!Cores
  <1>4. D!Open => DP!Open
    BY DEF D!Open, D!NumBlocks, D!Quiesce, D!Cores,
           DP!Open, DP!NumBlocks, DP!Quiesce, DP!Cores
  <1>5. D!IdleCores = DP!IdleCores /\ D!Cores = DP!Cores
    BY DEF D!IdleCores, D!Cores, DP!IdleCores, DP!Cores
  <1>6. \A fin : D!HandOut(fin) => DP!HandOut(fin)
    <2>1. \A c : D!Slot(c) = DP!Slot(c)
      BY <1>5, SameCardinality DEF D!Slot, DP!Slot
    <2>2. \A c : D!Takes(c) <=> DP!Takes(c)
      BY <1>5, <2>1 DEF D!Takes, DP!Takes
    <2>3. \A fin : D!Released(fin) = DP!Released(fin)
      BY <1>5 DEF D!Released, D!CoreDone, D!StartEdge, DP!Released, DP!CoreDone, DP!StartEdge
    <2>4. \A c, fin : D!StartWire(c, fin) <=> DP!StartWire(c, fin)
      BY <2>2, <2>3 DEF D!StartWire, DP!StartWire
    <2>5. \A b : D!BlockThreads(b) = DP!BlockThreads(b)
      BY DEF D!BlockThreads, DP!BlockThreads
    <2>6. D!NextBlock = DP!NextBlock
      BY <1>5, SameCardinality DEF D!NextBlock, DP!NextBlock
    <2>7. D!AllCoresIdle = DP!AllCoresIdle
      BY <1>5 DEF D!AllCoresIdle, DP!AllCoresIdle
    <2> SUFFICES ASSUME NEW fin, D!HandOut(fin)
                 PROVE  DP!HandOut(fin)
      OBVIOUS
    <2>8. core_state' = [c \in DP!Cores |-> IF DP!Takes(c) THEN "BUSY_C"
                                            ELSE IF c \in DP!Released(fin) THEN "IDLE_C"
                                            ELSE core_state[c]]
      BY <1>5, <2>2, <2>3 DEF D!HandOut
    <2>9. core_start' = [c \in DP!Cores |-> DP!StartWire(c, fin)]
      BY <1>5, <2>4 DEF D!HandOut
    <2>10. /\ core_block_id' = [c \in DP!Cores |-> IF DP!Takes(c) THEN DP!Slot(c)
                                                   ELSE core_block_id[c]]
           /\ core_thread_count' = [c \in DP!Cores |->
                IF DP!Takes(c) THEN DP!BlockThreads(DP!Slot(c)) ELSE core_thread_count[c]]
      BY <1>5, <2>1, <2>2, <2>5 DEF D!HandOut
    <2> QED
      BY <2>6, <2>7, <2>8, <2>9, <2>10 DEF D!HandOut, DP!HandOut
  <1>7. D!Report => DP!Report
    BY <1>5 DEF D!Report, D!AllCoresIdle, DP!Report, DP!AllCoresIdle
  <1>8. \A c : D!Job(c) = DP!Job(c)
    BY DEF D!Job, DP!Job
  <1>9. ASSUME NEW fin, D!Assign(fin)
        PROVE  DP!Assign(fin)
    <2>1. D!CanFinish = DP!CanFinish
      BY <1>5 DEF D!CanFinish, D!StartEdge, DP!CanFinish, DP!StartEdge
    <2>2. ran' = ran \cup {DP!Job(c) : c \in fin}
      BY <1>8, <1>9 DEF D!Assign
    <2> QED
      BY <1>3, <1>6, <1>9, <2>1, <2>2 DEF D!Assign, DP!Assign
  <1>10. \A n : D!WriteThreadCount(n) => DP!WriteThreadCount(n)
    BY <1>3 DEF D!WriteThreadCount, D!dispatchVars, DP!WriteThreadCount, DP!dispatchVars
  <1>11. D!Launch => DP!Launch
    BY <1>3, <1>4 DEF D!Launch, DP!Launch
  <1>12. D!Complete => DP!Complete
    BY <1>3, <1>7 DEF D!Complete, DP!Complete
  <1>13. D!Release => DP!Release
    BY <1>3 DEF D!Release, D!Rearm, DP!Release, DP!Rearm
  <1>14. UNCHANGED D!vars => UNCHANGED DP!vars
    BY DEF D!vars, D!dispatchVars, D!coreVars, DP!vars, DP!dispatchVars, DP!coreVars
  <1> QED
    BY <1>1, <1>2, <1>5, <1>9, <1>10, <1>11, <1>12, <1>13, <1>14 DEF D!Next, DP!Next

\* What the dispatcher's invariant says in the terms of Gpu.
LEMMA DispatchFacts ==
  ASSUME DP!IInv
  PROVE  /\ core_start \in [Cores -> BOOLEAN]
         /\ \A c \in Cores : core_state[c] = "IDLE_C" => ~core_start[c] /\ ~core[c].running
         /\ dispatch_state # "BUSY" => \A c \in Cores : core_state[c] = "IDLE_C"
         /\ start <=> dispatch_state # "IDLE"
         /\ done <=> dispatch_state = "WAIT"
  <1>1. DP!Cores = Cores
    BY DEF DP!Cores, Cores
  <1>2. core_start \in [Cores -> BOOLEAN] /\ core_state \in [Cores -> {"IDLE_C", "BUSY_C"}]
    BY <1>1 DEF DP!IInv, DP!TypeOK
  <1>3. \A c \in Cores : core_state[c] = "IDLE_C" => ~core_start[c] /\ ~core[c].running
    BY <1>1 DEF DP!IInv, DP!Handshake
  <1>4. dispatch_state # "BUSY" => \A c \in Cores : core_state[c] = "IDLE_C"
    BY <1>1 DEF DP!IInv, DP!Phases, DP!AllCoresIdle, DP!IdleCores
  <1>5. (start <=> dispatch_state # "IDLE") /\ (done <=> dispatch_state = "WAIT")
    BY DEF DP!IInv, DP!Phases
  <1> QED
    BY <1>2, <1>3, <1>4, <1>5

\* What an edge does to the wires between dispatcher and cores.
LEMMA EdgeTicks ==
  ASSUME DP!IInv, Edge, NEW fin, fin = Fin
  PROVE  D!CoresTick(fin)
  <1>1. \A c \in Cores : core'[c] = CoreNext(core[c], Wires(c))
    BY DEF Edge
  <1>2. \A c \in Cores : /\ Wires(c).start = core_start[c]
                         /\ Wires(c).count = core_thread_count[c]
    BY DEF Wires
  <1>3. \A c \in Cores : D!StartEdge(c) <=> StartEdge(core[c], Wires(c))
    BY <1>2 DEF D!StartEdge, StartEdge
  <1>4. [c \in Cores |-> core[c].start_q]' = core_start
    <2>1. \A c \in Cores : core'[c].start_q = core_start[c]
      <3> SUFFICES ASSUME NEW c \in Cores
                   PROVE  core'[c].start_q = core_start[c]
        OBVIOUS
      <3>1. core'[c] = CoreNext(core[c], Wires(c))
        BY <1>1
      <3>2. CoreNext(core[c], Wires(c)).start_q = Wires(c).start
        BY CoreFields
      <3> QED
        BY <3>1, <3>2, <1>2
    <2> QED
      BY <2>1, DispatchFacts
  <1>5. ASSUME NEW c \in Cores
        PROVE  core'[c].running = IF D!StartEdge(c) THEN core_thread_count[c] # 0
                                  ELSE core[c].running /\ c \notin fin
    <2>1. core'[c].running = RunningNext(core[c], Wires(c))
      <3>1. core'[c] = CoreNext(core[c], Wires(c))
        BY <1>1
      <3>2. CoreNext(core[c], Wires(c)).running = RunningNext(core[c], Wires(c))
        BY CoreFields
      <3> QED
        BY <3>1, <3>2
    <2>2. CASE StartEdge(core[c], Wires(c))
      BY <2>1, <2>2, <1>2, <1>3 DEF RunningNext
    <2>3. CASE ~StartEdge(core[c], Wires(c))
      <3>1. c \in fin <=> Ends(core[c], Wires(c))
        BY <2>3 DEF Fin, CoreDone
      <3> QED
        BY <2>1, <2>3, <3>1, <1>3 DEF RunningNext
    <2> QED
      BY <2>2, <2>3
  <1>6. D!Cores = Cores
    BY DEF D!Cores, Cores
  <1> QED
    BY <1>4, <1>5, <1>6 DEF D!CoresTick

\* Cores that the dispatcher takes for idle retire nothing.
LEMMA QuietEdge ==
  ASSUME DP!IInv, \A c \in Cores : core_state[c] = "IDLE_C"
  PROVE  Fin = {}
  BY DispatchFacts DEF Fin, CoreDone, Ends

\* A core ends its block only while it runs one.
LEMMA FinCanFinish ==
  Fin \subseteq D!CanFinish
  BY DEF Fin, D!CanFinish, D!Cores, Cores, CoreDone, Ends, StartEdge, D!StartEdge, Wires

\* Each action of the GPU is the action of Dispatch of the same name, with the cores
\* that retire their last thread for fin.
LEMMA GpuStepIsDispatchStep ==
  ASSUME DP!IInv, [Next]_vars
  PROVE  [D!Next]_(D!vars)
  <1>1. CASE NewGpu
    <2>1. D!Reset
      BY <1>1 DEF NewGpu
    <2> QED
      BY <2>1 DEF D!Next
  <1>2. ASSUME NEW n \in ThreadCounts, SetThreadCount(n)
        PROVE  D!Next
    <2>1. D!CoresTick({})
      <3>1. Edge /\ \A c \in Cores : core_state[c] = "IDLE_C"
        BY <1>2, DispatchFacts DEF SetThreadCount
      <3>2. {} = Fin
        BY <3>1, QuietEdge
      <3> QED
        BY <3>1, <3>2, EdgeTicks
    <2>2. D!WriteThreadCount(n)
      BY <1>2, <2>1, DispatchFacts
      DEF SetThreadCount, D!WriteThreadCount, dispatchVars, D!dispatchVars
    <2> QED
      BY <2>2 DEF D!Next
  <1>3. CASE Start
    <2>1. D!CoresTick({})
      <3>1. Edge /\ \A c \in Cores : core_state[c] = "IDLE_C"
        BY <1>3, DispatchFacts DEF Start, D!Open
      <3>2. {} = Fin
        BY <3>1, QuietEdge
      <3> QED
        BY <3>1, <3>2, EdgeTicks
    <2>2. D!Launch
      BY <1>3, <2>1 DEF Start, D!Launch
    <2> QED
      BY <2>2 DEF D!Next
  <1>4. CASE Cycle
    <2>1. PICK fin : fin = Fin
      OBVIOUS
    <2>2. D!CoresTick(fin)
      <3>1. Edge
        BY <1>4 DEF Cycle
      <3> QED
        BY <2>1, <3>1, EdgeTicks
    <2>3. fin \in SUBSET D!Cores /\ fin \subseteq D!CanFinish
      BY <2>1, FinCanFinish DEF Fin, Cores, D!Cores
    <2>4. D!HandOut(fin)
      BY <1>4, <2>1 DEF Cycle, D!HandOut, D!StartWire, D!Released, D!CoreDone
    <2>5. ran' = ran \cup {D!Job(c) : c \in fin} /\ UNCHANGED <<thread_count, start>>
      BY <1>4, <2>1 DEF Cycle
    <2>6. D!Assign(fin)
      BY <2>2, <2>3, <2>4, <2>5 DEF D!Assign
    <2> QED
      BY <2>3, <2>6 DEF D!Next
  <1>5. CASE Complete
    <2>1. \A c \in Cores : core_state[c] = "IDLE_C"
      BY <1>5 DEF Complete, D!Report, D!AllCoresIdle, D!IdleCores, D!Cores, Cores
    <2>2. D!CoresTick({})
      <3>1. Edge /\ \A c \in Cores : core_state[c] = "IDLE_C"
        BY <1>5, <2>1, DispatchFacts DEF Complete
      <3>2. {} = Fin
        BY <3>1, QuietEdge
      <3> QED
        BY <3>1, <3>2, EdgeTicks
    <2>3. D!Complete
      BY <1>5, <2>2 DEF Complete, D!Complete
    <2> QED
      BY <2>3 DEF D!Next
  <1>6. CASE Finish
    <2>1. dispatch_state = "WAIT"
      BY <1>6 DEF Finish, D!Rearm
    <2>2. D!CoresTick({})
      <3>1. Edge /\ \A c \in Cores : core_state[c] = "IDLE_C"
        BY <1>6, <2>1, DispatchFacts DEF Finish
      <3>2. {} = Fin
        BY <3>1, QuietEdge
      <3> QED
        BY <3>1, <3>2, EdgeTicks
    <2>3. D!Release
      BY <1>6, <2>1, <2>2, DispatchFacts DEF Finish, D!Release
    <2> QED
      BY <2>3 DEF D!Next
  <1>7. CASE UNCHANGED vars
    BY <1>7 DEF vars, dispatchVars, D!vars, D!dispatchVars, D!coreVars
  <1> QED
    BY <1>1, <1>2, <1>3, <1>4, <1>5, <1>6, <1>7 DEF Next

\* What is invariant in Dispatch is so here.
LEMMA DispatchInvariance == Spec => []DP!IInv
  <1>1. Init => DP!IInv
    BY SameDispatch, DP!InitInv, CoresAssumption, CountsAssumption DEF Init
  <1>2. DP!IInv /\ [Next]_vars => DP!IInv'
    BY GpuStepIsDispatchStep, SameDispatch, DP!NextInv, CoresAssumption, CountsAssumption
  <1> QED
    BY <1>1, <1>2, PTL DEF Spec

\* The cores, with their pipelines, programs and memory, do to the dispatcher
\* only what its own specification allows them.
THEOREM GpuImplementsDispatch == Spec => ImplementsDispatch
  <1>1. Init => D!Init
    BY DEF Init
  <1>2. DP!IInv /\ [Next]_vars => [D!Next]_(D!vars)
    BY GpuStepIsDispatchStep
  <1> QED
    BY <1>1, <1>2, DispatchInvariance, PTL DEF Spec, ImplementsDispatch, D!Spec

\* The GPU implements the dispatcher with its assumptions on cores.
LEMMA GpuIsDispatch == Spec => DP!Spec
  <1>1. Init => DP!Init
    BY SameDispatch DEF Init
  <1>2. DP!IInv /\ [Next]_vars => [DP!Next]_(DP!vars)
    BY GpuStepIsDispatchStep, SameDispatch
  <1> QED
    BY <1>1, <1>2, DispatchInvariance, PTL DEF Spec, DP!Spec

\* The GPU launches a kernel as KernelLaunch describes it.
THEOREM GpuImplementsKernelLaunch == Spec => DP!ImplementsKernelLaunch
  BY GpuIsDispatch, DP!Refinement, CoresAssumption, CountsAssumption, PTL

\* On the GPU too, a launch reported done has run each of its threads, and no
\* core is at work then.
THEOREM GpuCompletion == Spec => []DP!CompletionIsTotal
  BY GpuIsDispatch, DP!CompletionCorrect, CoresAssumption, CountsAssumption, PTL

-----------------------------------------------------------------------------
(* The memory controllers.                                                 *)

\* The load/store units are numbered core by core.
LEMMA LsuNumbers ==
  /\ \A u \in Lsus : /\ u \div BlockDim \in Cores /\ u % BlockDim \in Threads
                     /\ u = Lsu(u \div BlockDim, u % BlockDim)
  /\ \A c \in Cores, t \in Threads : /\ Lsu(c, t) \in Lsus
                                     /\ Lsu(c, t) \div BlockDim = c
                                     /\ Lsu(c, t) % BlockDim = t
  <1>0. NumCores \in Nat \ {0} /\ BlockDim \in Nat \ {0}
    BY CoresAssumption
  <1>1. ASSUME NEW u \in Lsus
        PROVE  /\ u \div BlockDim \in Cores /\ u % BlockDim \in Threads
               /\ u = Lsu(u \div BlockDim, u % BlockDim)
    <2>. DEFINE q == u \div BlockDim
                r == u % BlockDim
    <2>1. u \in Nat /\ u < NumCores * BlockDim
      BY <1>0 DEF Lsus
    <2>2. q \in Nat /\ r \in 0 .. BlockDim - 1 /\ u = q * BlockDim + r
      BY <1>0, <2>1
    <2>. HIDE DEF q, r
    <2>3. q < NumCores
      <3>1. SUFFICES ASSUME q >= NumCores PROVE FALSE
        BY <1>0, <2>2
      <3>2. q * BlockDim >= NumCores * BlockDim
        BY <1>0, <2>2, <3>1
      <3>. QED BY <1>0, <2>1, <2>2, <3>2
    <2>4. q \in Cores /\ r \in Threads /\ u = Lsu(q, r)
      BY <1>0, <2>2, <2>3 DEF Cores, Threads, Lsu
    <2>. QED BY <2>4 DEF q, r
  <1>2. ASSUME NEW c \in Cores, NEW t \in Threads
        PROVE  /\ Lsu(c, t) \in Lsus
               /\ Lsu(c, t) \div BlockDim = c
               /\ Lsu(c, t) % BlockDim = t
    <2>1. c \in Nat /\ c <= NumCores - 1 /\ t \in Nat /\ t <= BlockDim - 1
      BY <1>0 DEF Cores, Threads
    <2>. DEFINE u == c * BlockDim + t
                q == u \div BlockDim
    <2>2. u \in Nat /\ u < NumCores * BlockDim
      <3>1. c * BlockDim <= (NumCores - 1) * BlockDim
        BY <1>0, <2>1
      <3>2. (NumCores - 1) * BlockDim = NumCores * BlockDim - BlockDim
        BY <1>0
      <3>. QED BY <1>0, <2>1, <3>1, <3>2
    <2>3. q \in Nat /\ u % BlockDim = u - q * BlockDim /\ u % BlockDim \in 0 .. BlockDim - 1
      <3>. HIDE DEF u
      <3>. QED BY <1>0, <2>2
    <2>4. q = c
      <3>. HIDE DEF q
      <3>1. ASSUME q < c PROVE FALSE
        <4>1. (q + 1) * BlockDim <= c * BlockDim
          BY <1>0, <2>1, <2>3, <3>1
        <4>2. (q + 1) * BlockDim = q * BlockDim + BlockDim
          BY <1>0, <2>3
        <4>. QED BY <1>0, <2>1, <2>3, <4>1, <4>2
      <3>2. ASSUME q > c PROVE FALSE
        <4>1. (c + 1) * BlockDim <= q * BlockDim
          BY <1>0, <2>1, <2>3, <3>2
        <4>2. (c + 1) * BlockDim = c * BlockDim + BlockDim
          BY <1>0, <2>1
        <4>. QED BY <1>0, <2>1, <2>3, <4>1, <4>2
      <3>. QED BY <2>1, <2>3, <3>1, <3>2
    <2>5. u % BlockDim = t
      <3>1. u % BlockDim = u - c * BlockDim
        BY <2>3, <2>4
      <3>. QED BY <1>0, <2>1, <3>1
    <2>. QED BY <1>0, <2>2, <2>4, <2>5 DEF Lsu, Lsus
  <1>. QED BY <1>1, <1>2

\* Two scans at once: members of equal rank correspond one to one.
LEMMA EqualRanks ==
  ASSUME NEW n \in Nat, NEW S \in SUBSET (0 .. n - 1), NEW x \in S, NEW y \in S,
         NEW m \in Nat, NEW T \in SUBSET (0 .. m - 1), NEW c \in T, NEW d \in T,
         Rank(S, x) = Rank(T, c), Rank(S, y) = Rank(T, d), c = d
  PROVE  x = y
  BY RankInjective

\* A scan grants a load/store unit no two channels.
LEMMA DataGrants ==
  ASSUME NEW ch, NEW oh, NEW u,
         DataController!Grants(ch, u), DataController!Grants(oh, u)
  PROVE  ch = oh
  <1>. DEFINE S == DataController!IdleChannels
              T == DataController!Waiting
  <1>1. \A X : DataController!Cardinality(X) = Cardinality(X)
    BY DEF DataController!Cardinality, Cardinality, DataController!IsFiniteSet, IsFiniteSet
  <1>2. /\ ch \in S /\ oh \in S /\ u \in T
        /\ Rank(S, ch) = Rank(T, u) /\ Rank(S, oh) = Rank(T, u)
    BY <1>1 DEF DataController!Grants, DataController!Turn, Rank
  <1>3. S \in SUBSET (0 .. DataChannels - 1)
    BY DEF DataController!IdleChannels, DataController!Channels
  <1>4. T \in SUBSET (0 .. NumCores * BlockDim - 1)
    BY DEF DataController!Waiting, DataController!Pending, DataController!Consumers
  <1>5. DataChannels \in Nat /\ NumCores * BlockDim \in Nat
    BY ChannelsAssumption, CoresAssumption
  <1>. HIDE DEF S, T
  <1>. QED BY <1>2, <1>3, <1>4, <1>5, EqualRanks

\* A scan grants a core's fetch no two channels.
LEMMA ProgramGrants ==
  ASSUME NEW ch, NEW oh, NEW c,
         ProgramController!Grants(ch, c), ProgramController!Grants(oh, c)
  PROVE  ch = oh
  <1>. DEFINE S == ProgramController!IdleChannels
              T == ProgramController!Waiting
  <1>1. \A X : ProgramController!Cardinality(X) = Cardinality(X)
    BY DEF ProgramController!Cardinality, Cardinality, ProgramController!IsFiniteSet, IsFiniteSet
  <1>2. /\ ch \in S /\ oh \in S /\ c \in T
        /\ Rank(S, ch) = Rank(T, c) /\ Rank(S, oh) = Rank(T, c)
    BY <1>1 DEF ProgramController!Grants, ProgramController!Turn, Rank
  <1>3. S \in SUBSET (0 .. ProgramChannels - 1)
    BY DEF ProgramController!IdleChannels, ProgramController!Channels
  <1>4. T \in SUBSET (0 .. NumCores - 1)
    BY DEF ProgramController!Waiting, ProgramController!Pending, ProgramController!Consumers
  <1>5. ProgramChannels \in Nat /\ NumCores \in Nat
    BY ChannelsAssumption, CoresAssumption
  <1>. HIDE DEF S, T
  <1>. QED BY <1>2, <1>3, <1>4, <1>5, EqualRanks

\* A channel that serves a unit carries the access which the unit's MEM stage
\* holds in WAIT, one that serves a core the fetch which its IF stage holds.
DataHeld ==
  \A ch \in DataController!BusyChannels : \E c \in Cores, t \in Threads :
    /\ core[c].lane[t].pending.op \in MemoryOps
    /\ data_channel[ch] = [state |-> "BUSY", consumer |-> Lsu(c, t),
                           request |-> Request(core[c].lane[t].pending)]

ProgramHeld ==
  \A ch \in ProgramController!BusyChannels : \E c \in Cores :
    /\ core[c].fetch.state = "WAIT"
    /\ program_channel[ch] = [state |-> "BUSY", consumer |-> c,
                              request |-> Fetch(core[c].fetch.pc)]

HeldInv == /\ DataHeld /\ DataController!Exclusive
           /\ ProgramHeld /\ ProgramController!Exclusive

\* A stage that holds a request keeps it on its wires.
LEMMA HeldMeansServed == HeldInv => RequestsHeld
  <1>. SUFFICES ASSUME HeldInv PROVE RequestsHeld
    OBVIOUS
  <1>1. ASSUME NEW ch \in DataController!BusyChannels
        PROVE  data_channel[ch].request = LsuRequest[data_channel[ch].consumer]
    <2>1. PICK c \in Cores, t \in Threads :
            /\ core[c].lane[t].pending.op \in MemoryOps
            /\ data_channel[ch] = [state |-> "BUSY", consumer |-> Lsu(c, t),
                                   request |-> Request(core[c].lane[t].pending)]
      BY DEF HeldInv, DataHeld
    <2>2. InMem(core[c], t) = core[c].lane[t].pending
      BY <2>1 DEF InMem, MemReady, NoItem, MemoryOps
    <2>3. LsuRequest[Lsu(c, t)] = Request(InMem(core[c], t))
      BY LsuNumbers DEF LsuRequest
    <2>. QED BY <2>1, <2>2, <2>3
  <1>2. ASSUME NEW ch \in ProgramController!BusyChannels
        PROVE  program_channel[ch].request = FetchRequest[program_channel[ch].consumer]
    <2>1. PICK c \in Cores :
            /\ core[c].fetch.state = "WAIT"
            /\ program_channel[ch] = [state |-> "BUSY", consumer |-> c,
                                      request |-> Fetch(core[c].fetch.pc)]
      BY DEF HeldInv, ProgramHeld
    <2>2. FetchRequest[c] = Fetch(core[c].fetch.pc)
      BY <2>1 DEF FetchRequest
    <2>. QED BY <2>1, <2>2
  <1>. QED BY <1>1, <1>2 DEF HeldInv, RequestsHeld, DataController!ServesItsConsumer,
                             ProgramController!ServesItsConsumer

\* Out of reset the controllers are idle.
LEMMA InitHeld == ASSUME Init PROVE HeldInv
  <1>1. DataController!BusyChannels = {} /\ ProgramController!BusyChannels = {}
    BY DEF Init, DataController!BusyChannels, DataController!IdleChannels,
           DataController!Channels, ProgramController!BusyChannels,
           ProgramController!IdleChannels, ProgramController!Channels
  <1>. QED BY <1>1 DEF HeldInv, DataHeld, ProgramHeld, DataController!Exclusive,
                       ProgramController!Exclusive

\* A new GPU starts with idle controllers.
LEMMA ResetHeld == ASSUME NewGpu PROVE HeldInv'
  <1>1. DataController!BusyChannels' = {} /\ ProgramController!BusyChannels' = {}
    BY DEF NewGpu, DataController!BusyChannels, DataController!IdleChannels,
           DataController!Channels, ProgramController!BusyChannels,
           ProgramController!IdleChannels, ProgramController!Channels
  <1>. QED BY <1>1 DEF HeldInv, DataHeld, ProgramHeld, DataController!Exclusive,
                       ProgramController!Exclusive

\* A channel busy after an edge was granted at it, to a waiting unit that no
\* channel answers: memory answers every channel in the cycle it is busy.
LEMMA DataGranted ==
  ASSUME Edge, NEW ch \in DataController!BusyChannels'
  PROVE  \E u \in DataController!Waiting :
           DataController!Grants(ch, u) /\ data_channel'[ch] = DataController!Serving(u)
  <1>1. ch \in DataController!Channels /\ data_channel'[ch] # DataController!Idle
    BY DEF DataController!BusyChannels, DataController!IdleChannels
  <1>2. data_channel'[ch] = DataController!ChannelAfter(ch, DataReady)
    BY <1>1 DEF Edge, DataController!Channels
  <1>3. data_channel[ch] # DataController!Idle => ch \in DataReady
    BY <1>1 DEF DataReady, DataController!BusyChannels, DataController!IdleChannels
  <1>4. /\ \E u \in DataController!Consumers : DataController!Grants(ch, u)
        /\ data_channel'[ch] = DataController!Serving(
             CHOOSE u \in DataController!Consumers : DataController!Grants(ch, u))
    BY <1>1, <1>2, <1>3 DEF DataController!ChannelAfter
  <1>. QED BY <1>4 DEF DataController!Grants

\* The same of the fetches.
LEMMA ProgramGranted ==
  ASSUME Edge, NEW ch \in ProgramController!BusyChannels'
  PROVE  \E c \in ProgramController!Waiting :
           ProgramController!Grants(ch, c) /\ program_channel'[ch] = ProgramController!Serving(c)
  <1>1. ch \in ProgramController!Channels /\ program_channel'[ch] # ProgramController!Idle
    BY DEF ProgramController!BusyChannels, ProgramController!IdleChannels
  <1>2. program_channel'[ch] =
          ProgramController!ChannelAfter(ch, ProgramController!BusyChannels)
    BY <1>1 DEF Edge, ProgramController!Channels
  <1>3. program_channel[ch] # ProgramController!Idle => ch \in ProgramController!BusyChannels
    BY <1>1 DEF ProgramController!BusyChannels, ProgramController!IdleChannels
  <1>4. /\ \E c \in ProgramController!Consumers : ProgramController!Grants(ch, c)
        /\ program_channel'[ch] = ProgramController!Serving(
             CHOOSE c \in ProgramController!Consumers : ProgramController!Grants(ch, c))
    BY <1>1, <1>2, <1>3 DEF ProgramController!ChannelAfter
  <1>. QED BY <1>4 DEF ProgramController!Grants

\* A unit whose access is granted at an edge holds it in WAIT from then on.
LEMMA GrantedIsHeld ==
  ASSUME Edge, NEW u \in DataController!Waiting
  PROVE  \E c \in Cores, t \in Threads :
           /\ core'[c].lane[t].pending.op \in MemoryOps
           /\ DataController!Serving(u) = [state |-> "BUSY", consumer |-> Lsu(c, t),
                                           request |-> Request(core'[c].lane[t].pending)]
  <1>1. /\ u \in Lsus /\ LsuRequest[u] # DataController!NoRequest
        /\ u \notin DataController!ConsumersOf(DataReady)
    BY DEF DataController!Waiting, DataController!Pending, DataController!Consumers, Lsus,
           DataController!Selected, DataController!ConsumersOf, DataReady
  <1>2. PICK c \in Cores, t \in Threads :
          u = Lsu(c, t) /\ c = u \div BlockDim /\ t = u % BlockDim
    BY <1>1, LsuNumbers
  <1>. DEFINE m == InMem(core[c], t)
  <1>3. LsuRequest[u] = Request(m)
    BY <1>1, <1>2 DEF LsuRequest
  <1>4. m.op \in MemoryOps
    BY <1>1, <1>3 DEF Request, DataController!NoRequest, MemoryOps
  <1>5. t \notin Wires(c).answered
    BY <1>1, <1>2 DEF Wires, Answered
  <1>6. PendingNext(core[c], Wires(c), t) = m
    BY <1>4, <1>5 DEF PendingNext, Finishes
  <1>7. core'[c].lane[t].pending = m
    <2>1. core'[c] = CoreNext(core[c], Wires(c))
      BY DEF Edge
    <2>2. CoreNext(core[c], Wires(c)).lane[t].pending = PendingNext(core[c], Wires(c), t)
      BY LaneFields
    <2>. QED BY <1>6, <2>1, <2>2
  <1>8. DataController!Serving(u) = [state |-> "BUSY", consumer |-> u, request |-> Request(m)]
    BY <1>3 DEF DataController!Serving
  <1>. HIDE DEF m
  <1>. QED BY <1>2, <1>4, <1>7, <1>8

\* A core whose fetch is granted at an edge waits for it from then on.
LEMMA GrantedFetchIsHeld ==
  ASSUME Edge, NEW c \in ProgramController!Waiting
  PROVE  /\ c \in Cores /\ core'[c].fetch.state = "WAIT"
         /\ ProgramController!Serving(c) = [state |-> "BUSY", consumer |-> c,
                                            request |-> Fetch(core'[c].fetch.pc)]
  <1>1. /\ c \in Cores /\ FetchRequest[c] # ProgramController!NoRequest
        /\ c \notin ProgramController!Selected
    BY DEF ProgramController!Waiting, ProgramController!Pending, ProgramController!Consumers, Cores
  <1>2. ~Wires(c).fetched
    <2>1. FetchedFrom(c) = {}
      <3>1. SUFFICES ASSUME NEW ch \in 0 .. ProgramChannels - 1,
                            program_channel[ch].state = "BUSY", program_channel[ch].consumer = c
                     PROVE  FALSE
        BY DEF FetchedFrom
      <3>2. ch \in ProgramController!BusyChannels
        BY <3>1 DEF ProgramController!BusyChannels, ProgramController!IdleChannels,
                    ProgramController!Channels, ProgramController!Idle
      <3>. QED BY <1>1, <3>1, <3>2 DEF ProgramController!Selected
    <2>. QED BY <2>1 DEF Wires
  <1>3. core'[c].fetch = FetchNext(core[c], Wires(c))
    <2>1. core'[c] = CoreNext(core[c], Wires(c))
      BY <1>1 DEF Edge
    <2>2. CoreNext(core[c], Wires(c)).fetch = FetchNext(core[c], Wires(c))
      BY CoreFields
    <2>. QED BY <2>1, <2>2
  <1>4. core'[c].fetch.state = "WAIT" /\ FetchRequest[c] = Fetch(core'[c].fetch.pc)
    <2>1. CASE core[c].fetch.state = "WAIT"
      BY <1>1, <1>2, <1>3, <2>1 DEF FetchNext, FetchRequest
    <2>2. CASE core[c].fetch.state # "WAIT"
      <3>1. core[c].running /\ IfReady(core[c], Wires(c))
        BY <1>1, <2>2 DEF FetchRequest, ProgramController!NoRequest
      <3>2. FetchRequest[c] = Fetch(FetchContext(core[c], Wires(c)).pc)
        BY <1>1, <2>2, <3>1 DEF FetchRequest
      <3>3. /\ FetchNext(core[c], Wires(c)).state = "WAIT"
            /\ FetchNext(core[c], Wires(c)).pc = FetchContext(core[c], Wires(c)).pc
        BY <2>2, <3>1 DEF FetchNext
      <3>. QED BY <1>3, <3>2, <3>3
    <2>. QED BY <2>1, <2>2
  <1>. QED BY <1>1, <1>4 DEF ProgramController!Serving

\* At an edge the grants, and the registers of the stages, agree.
LEMMA EdgeHeld ==
  ASSUME Edge
  PROVE  HeldInv'
  <1>1. DataHeld'
    <2>. SUFFICES ASSUME NEW ch \in DataController!BusyChannels'
                  PROVE  \E c \in Cores, t \in Threads :
                           /\ core'[c].lane[t].pending.op \in MemoryOps
                           /\ data_channel'[ch] =
                                [state |-> "BUSY", consumer |-> Lsu(c, t),
                                 request |-> Request(core'[c].lane[t].pending)]
      BY DEF DataHeld
    <2>. QED BY DataGranted, GrantedIsHeld
  <1>2. ProgramHeld'
    <2>. SUFFICES ASSUME NEW ch \in ProgramController!BusyChannels'
                  PROVE  \E c \in Cores :
                           /\ core'[c].fetch.state = "WAIT"
                           /\ program_channel'[ch] = [state |-> "BUSY", consumer |-> c,
                                                      request |-> Fetch(core'[c].fetch.pc)]
      BY DEF ProgramHeld
    <2>. QED BY ProgramGranted, GrantedFetchIsHeld
  <1>3. DataController!Exclusive'
    <2>. SUFFICES ASSUME NEW ch \in DataController!BusyChannels',
                         NEW oh \in DataController!BusyChannels',
                         data_channel'[ch].consumer = data_channel'[oh].consumer
                  PROVE  ch = oh
      BY DEF DataController!Exclusive
    <2>1. \A u : DataController!Serving(u).consumer = u
      BY DEF DataController!Serving
    <2>2. PICK u \in DataController!Waiting :
            DataController!Grants(ch, u) /\ data_channel'[ch] = DataController!Serving(u)
      BY DataGranted
    <2>3. PICK v \in DataController!Waiting :
            DataController!Grants(oh, v) /\ data_channel'[oh] = DataController!Serving(v)
      BY DataGranted
    <2>. QED BY <2>1, <2>2, <2>3, DataGrants
  <1>4. ProgramController!Exclusive'
    <2>. SUFFICES ASSUME NEW ch \in ProgramController!BusyChannels',
                         NEW oh \in ProgramController!BusyChannels',
                         program_channel'[ch].consumer = program_channel'[oh].consumer
                  PROVE  ch = oh
      BY DEF ProgramController!Exclusive
    <2>1. \A u : ProgramController!Serving(u).consumer = u
      BY DEF ProgramController!Serving
    <2>2. PICK u \in ProgramController!Waiting :
            ProgramController!Grants(ch, u) /\ program_channel'[ch] = ProgramController!Serving(u)
      BY ProgramGranted
    <2>3. PICK v \in ProgramController!Waiting :
            ProgramController!Grants(oh, v) /\ program_channel'[oh] = ProgramController!Serving(v)
      BY ProgramGranted
    <2>. QED BY <2>1, <2>2, <2>3, ProgramGrants
  <1>. QED BY <1>1, <1>2, <1>3, <1>4 DEF HeldInv

\* No step of the GPU parts a channel from the stage it serves.
LEMMA HeldInvariance == Spec => []HeldInv
  <1>1. Init => HeldInv
    BY InitHeld
  <1>2. HeldInv /\ [Next]_vars => HeldInv'
    <2>. SUFFICES ASSUME HeldInv, [Next]_vars PROVE HeldInv'
      OBVIOUS
    <2>1. CASE NewGpu
      BY <2>1, ResetHeld
    <2>2. CASE UNCHANGED vars
      BY <2>2 DEF vars, HeldInv, DataHeld, ProgramHeld, DataController!Exclusive,
                  ProgramController!Exclusive, DataController!BusyChannels,
                  DataController!IdleChannels, ProgramController!BusyChannels,
                  ProgramController!IdleChannels
    <2>3. CASE Edge
      BY <2>3, EdgeHeld
    <2>. QED BY <2>1, <2>2, <2>3 DEF Next, SetThreadCount, Start, Cycle, Complete, Finish
  <1>. QED BY <1>1, <1>2, PTL DEF Spec

\* Each busy channel works on the access or the fetch that its stage still
\* holds, on no other channel: what the controllers rely on (memory_controller.sv)
\* is what mem_stage.sv and if_stage.sv do.
THEOREM StagesHoldTheirRequests == Spec => []RequestsHeld
  BY HeldInvariance, HeldMeansServed, PTL

-----------------------------------------------------------------------------
(* Kernels without branches.                                               *)

StraightKernels == \A j \in Kernels : StraightLine(j.program)

\* Each core runs the kernel that is loaded, or is between two blocks of it, and
\* the kernel is reported done only when the dispatcher has no block left.
StraightInv ==
  /\ job \in Kernels
  /\ \A c \in Cores : StraightCore(core[c], job.program)
  /\ done_ => dispatch_state # "BUSY"

\* The start wire of a core comes with a block of some threads, and a running
\* core has seen it rise.
LEMMA StartFacts ==
  ASSUME DP!IInv, NEW c \in Cores
  PROVE  /\ core_start[c] => 0 < core_thread_count[c]
         /\ core[c].running => core[c].start_q
  <1>0. BlockDim \in Nat \ {0} /\ MaxThreads \in Nat /\ NumCores \in Nat \ {0}
    BY CoresAssumption, CountsAssumption
  <1>1. DP!Cores = Cores
    BY DEF DP!Cores, Cores
  <1>2. /\ core_start[c] <=> core_state[c] = "BUSY_C"
        /\ core_state[c] = "BUSY_C" => (core[c].running <=> core[c].start_q)
        /\ core_state[c] = "IDLE_C" => ~core[c].running
        /\ core_state \in [Cores -> {"IDLE_C", "BUSY_C"}]
        /\ core_thread_count \in [Cores -> 0 .. BlockDim]
    BY <1>1 DEF DP!IInv, DP!Handshake, DP!TypeOK
  <1>3. ASSUME core_state[c] = "BUSY_C" PROVE core_thread_count[c] # 0
    <2>1. dispatch_state # "IDLE"
      BY <1>3, DispatchFacts
    <2>2. c \in DP!BusyCores
      BY <1>1, <1>3 DEF DP!BusyCores, DP!IdleCores
    <2>. QED BY <2>1, <2>2, DP!BusyCoreJob, CoresAssumption, CountsAssumption
  <1>4. core_state[c] \in {"IDLE_C", "BUSY_C"} /\ core_thread_count[c] \in 0 .. BlockDim
    BY <1>2
  <1>. QED BY <1>0, <1>2, <1>3, <1>4

\* A fetch is answered with the instruction at its address.
LEMMA FetchAnswer ==
  ASSUME HeldInv, NEW c \in Cores, Wires(c).fetched
  PROVE  Wires(c).instr = FetchAt(job.program, core[c].fetch.pc)
  <1>1. FetchedFrom(c) # {}
    BY DEF Wires
  <1>2. ASSUME NEW r \in FetchedFrom(c)
        PROVE  r.request.address = core[c].fetch.pc
    <2>1. PICK ch \in 0 .. ProgramChannels - 1 :
            r = program_channel[ch] /\ r.state = "BUSY" /\ r.consumer = c
      BY DEF FetchedFrom
    <2>2. ch \in ProgramController!BusyChannels
      BY <2>1 DEF ProgramController!BusyChannels, ProgramController!IdleChannels,
                  ProgramController!Channels, ProgramController!Idle
    <2>3. PICK b \in Cores : r = [state |-> "BUSY", consumer |-> b,
                                  request |-> Fetch(core[b].fetch.pc)]
      BY <2>1, <2>2 DEF HeldInv, ProgramHeld
    <2>. QED BY <2>1, <2>3 DEF Fetch
  <1>. DEFINE r == CHOOSE r \in FetchedFrom(c) : TRUE
  <1>3. r \in FetchedFrom(c)
    BY <1>1
  <1>4. Wires(c).instr = FetchAt(job.program, r.request.address)
    BY <1>1 DEF Wires
  <1>. HIDE DEF r
  <1>. QED BY <1>2, <1>3, <1>4

\* The GPU's wires are those of a core that runs a straight-line kernel.
LEMMA StraightGpuWires ==
  ASSUME StraightKernels, DP!IInv, HeldInv, StraightInv, NEW c \in Cores
  PROVE  StraightWires(core[c], Wires(c), job.program)
  <1>1. StraightLine(job.program)
    BY DEF StraightKernels, StraightInv
  <1>2. core[c].running => core[c].start_q
    BY StartFacts
  <1>3. StartEdge(core[c], Wires(c)) => 0 \in Threads /\ 0 < Wires(c).count
    BY StartFacts, CoresAssumption DEF StartEdge, Wires, Threads
  <1>. QED BY <1>1, <1>2, <1>3, FetchAnswer DEF StraightWires

\* An edge keeps every core as it is required to be.
LEMMA StraightGpuEdge ==
  ASSUME StraightKernels, DP!IInv, HeldInv, StraightInv, Edge
  PROVE  job' \in Kernels /\ \A c \in Cores : StraightCore(core'[c], job'.program)
  <1>1. job' = job /\ \A c \in Cores : core'[c] = CoreNext(core[c], Wires(c))
    BY DEF Edge
  <1>2. \A c \in Cores : StraightCore(CoreNext(core[c], Wires(c)), job.program)
    BY StraightGpuWires, StraightStep DEF StraightInv
  <1>. QED BY <1>1, <1>2 DEF StraightInv

\* Completion is reported from BUSY and reported no more once the next launch
\* can start.
LEMMA DoneStep ==
  ASSUME [Next]_vars, done_ => dispatch_state # "BUSY"
  PROVE  done_' => dispatch_state' # "BUSY"
  <1>1. CASE Cycle
    BY <1>1 DEF Cycle, D!HandOut
  <1>2. CASE Complete
    BY <1>2 DEF Complete, D!Report
  <1>3. CASE Finish
    BY <1>3 DEF Finish, D!Rearm
  <1>. QED BY <1>1, <1>2, <1>3
           DEF Next, NewGpu, SetThreadCount, Start, vars, dispatchVars

\* The invariant holds out of reset and after every cycle.
LEMMA StraightInvariance == ASSUME StraightKernels PROVE Spec => []StraightInv
  <1>1. Init => StraightInv
    BY StraightReset DEF Init, StraightInv
  <1>2. DP!IInv /\ HeldInv /\ StraightInv /\ [Next]_vars => StraightInv'
    <2>. SUFFICES ASSUME DP!IInv, HeldInv, StraightInv, [Next]_vars PROVE StraightInv'
      OBVIOUS
    <2>1. done_' => dispatch_state' # "BUSY"
      BY DoneStep DEF StraightInv
    <2>2. job' \in Kernels /\ \A c \in Cores : StraightCore(core'[c], job'.program)
      <3>1. CASE NewGpu
        BY <3>1, StraightReset DEF NewGpu
      <3>2. CASE Edge
        BY <3>2, StraightKernels, StraightGpuEdge
      <3>3. CASE UNCHANGED vars
        BY <3>3 DEF vars, StraightInv
      <3>. QED BY <3>1, <3>2, <3>3 DEF Next, SetThreadCount, Start, Cycle, Complete, Finish
    <2>. QED BY <2>1, <2>2 DEF StraightInv
  <1>. QED BY <1>1, <1>2, DispatchInvariance, HeldInvariance, PTL DEF Spec

\* The GPU has come to rest when the kernel is reported done: done says that the
\* last RET has retired (core.sv), and no lane can have an access behind its RET
\* or before it on the way to memory then.
THEOREM NothingLeftInFlight == ASSUME StraightKernels PROVE Spec => []NothingInFlight
  <1>1. DP!IInv /\ HeldInv /\ StraightInv => NothingInFlight
    <2>. SUFFICES ASSUME DP!IInv, HeldInv, StraightInv, done_
                  PROVE  /\ \A u \in Lsus : LsuRequest[u].kind = "none"
                         /\ DataController!BusyChannels = {}
      BY DEF NothingInFlight
    <2>1. \A c \in Cores : ~core[c].running
      BY DispatchFacts DEF StraightInv
    <2>2. \A c \in Cores, t \in Threads :
            core[c].lane[t].pending = NoItem /\ InMem(core[c], t) = NoItem
      BY <2>1 DEF StraightInv, StraightCore, NothingFollows, Active, MemReady, InMem
    <2>3. Request(NoItem).kind = "none" /\ NoItem.op \notin MemoryOps
      BY DEF Request, NoItem, MemoryOps
    <2>4. ASSUME NEW u \in Lsus PROVE LsuRequest[u].kind = "none"
      BY <2>2, <2>3, LsuNumbers DEF LsuRequest
    <2>5. DataController!BusyChannels = {}
      BY <2>2, <2>3 DEF HeldInv, DataHeld
    <2>. QED BY <2>4, <2>5
  <1>. QED BY <1>1, StraightKernels, DispatchInvariance, HeldInvariance, StraightInvariance,
              PTL DEF Spec

-----------------------------------------------------------------------------
(* Kernels without branches and races: the memory a launch leaves.         *)

\* The threads that some thread count launches, and those of this launch.
Launchable == {g \in Grid : \E n \in ThreadCounts : g[1] * BlockDim + g[2] < n}

Launched(g) == g[1] * BlockDim + g[2] < thread_count

\* The words that thread g of kernel j reads or writes, and those it writes.
ReadsAndWrites(j, g) == Touched(j.program, Traces[j][g], g[1], g[2])

Writes(j, g) == StoredTo(j.program, Traces[j][g], g[1], g[2])

\* Every kernel computes the same in any order of the threads of a launch.
SoundKernels == \A j \in Kernels : SoundKernel(j, Traces[j], Launchable, StepBound)

\* The thread that lane t of core c runs, as Grid names it.
ThreadOf(c, t) == <<core_block_id[c], t>>

\* Blocks that have run.
RanBlocks == {r[1] : r \in ran}

RunsOn(b, c) == core[c].running /\ core_block_id[c] = b

\* Thread g has not started.
Untouched(g) == g[1] \notin RanBlocks /\ \A c \in Cores : ~RunsOn(g[1], c)

\* Thread g, if it is one of the launch, has returned, and its RET has been
\* written back.
Over(g) == \/ g[1] \in RanBlocks
           \/ \E c \in Cores : RunsOn(g[1], c) /\ g[2] \notin core[c].mask

\* The control register holds a count the host has written; a GPU that has
\* launched nothing has run nothing, and one that is done has run everything.
LaunchCounted ==
  /\ thread_count \in ThreadCounts \cup {0}
  /\ ~start /\ ~done_ => ran = {}
  /\ done_ => \A g \in Launchable : Launched(g) => g[1] \in RanBlocks

\* A core runs no more lanes than its block has.
LanesCounted ==
  \A c \in Cores, t \in Threads : Active(core[c], t) => t < core_thread_count[c]

\* Every lane at work is in step with its thread, and the others are at rest.
LanesInStep ==
  \A c \in Cores :
    /\ FromTheStart(core[c])
    /\ \A t \in Threads :
         /\ IsRegisters(core[c].lane[t])
         /\ IF Active(core[c], t)
            THEN InStep(core[c], t, memory, job.program, Traces[job][ThreadOf(c, t)],
                        core_block_id[c])
            ELSE Quiet(core[c].lane[t])

\* No thread at work or returned writes word a.
Unwritten(a) ==
  \A g \in Launchable : a \in Writes(job, g) /\ Launched(g) => Untouched(g)

\* A word is as at first until a thread that writes it starts, and what a thread
\* reads and writes is as its program leaves it when it is over.
WordsInStep ==
  /\ IsMemory(memory)
  /\ \A a \in Word : Unwritten(a) => memory[a] = job.words[a]
  /\ \A g \in Launchable : Launched(g) /\ Over(g) =>
       AsLeft(job.program, Traces[job][g], ReadsAndWrites(job, g), memory)

\* Memory is as the threads leave it one by one: the lanes of all cores are in
\* step with their threads, and the words of the others are known.
SequentialInv == LaunchCounted /\ LanesCounted /\ LanesInStep /\ WordsInStep

\* The invariants of the GPU that the lanes rest on.
AllInStep ==
  /\ DP!IInv /\ HeldInv /\ StraightInv
  /\ LaunchCounted /\ LanesCounted /\ LanesInStep

\* Sound kernels are straight-line kernels.
LEMMA SoundIsStraight == SoundKernels => StraightKernels
  BY DEF SoundKernels, SoundKernel, StraightKernels

\* Each thread that can be launched has its trace.
LEMMA ReferenceOf ==
  ASSUME SoundKernels, NEW j \in Kernels, NEW g \in Launchable
  PROVE  /\ Reference(j.program, j.words, Traces[j][g], g[1], g[2], StepBound)
         /\ Straight(Traces[j][g], j.program, j.words, StepBound)
         /\ Len(j.program) \in 1 .. StepBound /\ StepBound \in Nat
         /\ ReadsAndWrites(j, g) \subseteq Word
         /\ Writes(j, g) \subseteq ReadsAndWrites(j, g)
  <1>0. g \in Grid
    BY DEF Launchable
  <1>1. Traces[j][g] = ThreadTrace(j.program, j.words, g[1], g[2], StepBound)
    BY <1>0 DEF Traces
  <1>2. /\ StraightLine(j.program) /\ WellFormed(j.program) /\ IsMemory(j.words)
        /\ StepBound \in Nat /\ Len(j.program) \in 1 .. StepBound
        /\ ReadsAndWrites(j, g) \subseteq Word
    BY DEF SoundKernels, SoundKernel, ReadsAndWrites
  <1>3. IsTrace(Traces[j][g], j.program, j.words, g[1], g[2], StepBound)
    BY <1>1, <1>2, TraceDefined
  <1>4. Straight(Traces[j][g], j.program, j.words, StepBound)
    BY <1>2, <1>3, StraightTrace
  <1>5. Writes(j, g) \subseteq ReadsAndWrites(j, g)
    BY DEF Writes, ReadsAndWrites, StoredTo, Touched, MemoryOps
  <1>6. Len(j.program) <= StepBound
    BY <1>2
  <1>. QED BY <1>2, <1>3, <1>4, <1>5, <1>6 DEF Reference, ReadsAndWrites

\* Without races a word that one thread writes, no other one reads or writes.
LEMMA NoRace ==
  ASSUME SoundKernels, NEW j \in Kernels, NEW g \in Launchable, NEW h \in Launchable,
         NEW a \in Writes(j, g), a \in ReadsAndWrites(j, h)
  PROVE  g = h
  BY DEF SoundKernels, SoundKernel, Writes, ReadsAndWrites

\* The block of a core at work, and a thread count its lanes stay below.
LEMMA BusyBlock ==
  ASSUME DP!IInv, LaunchCounted, NEW c \in Cores, core_state[c] = "BUSY_C"
  PROVE  /\ core_block_id[c] \in Nat /\ core_thread_count[c] \in Nat
         /\ core_thread_count[c] <= BlockDim
         /\ \A t \in Threads : t < core_thread_count[c] <=> Launched(ThreadOf(c, t))
         /\ core_block_id[c] \notin RanBlocks
         /\ \A d \in Cores : core_state[d] = "BUSY_C" /\ core_block_id[d] = core_block_id[c]
              => d = c
  <1>0. BlockDim \in Nat \ {0} /\ MaxThreads \in Nat
    BY CoresAssumption, CountsAssumption
  <1>1. DP!Cores = Cores
    BY DEF DP!Cores, Cores
  <1>2. /\ dispatch_state # "IDLE" /\ c \in DP!BusyCores
        /\ \A d \in Cores : core_state[d] = "BUSY_C" => d \in DP!BusyCores
    <2>1. dispatch_state # "IDLE"
      BY DispatchFacts
    <2>. QED BY <1>1, <2>1 DEF DP!BusyCores, DP!IdleCores
  <1>. DEFINE b == core_block_id[c]
              n == core_thread_count[c]
  <1>3. /\ b \in 0 .. block_id_n - 1 /\ n = DP!BlockThreads(b) /\ n # 0
        /\ DP!Job(c) \in DP!HandedOut
    BY <1>2, DP!BusyCoreJob, CoresAssumption, CountsAssumption
  <1>4. /\ block_id = DP!NumBlocks /\ block_id_n <= block_id
        /\ block_id \in 0 .. MaxThreads /\ block_id_n \in 0 .. MaxThreads
        /\ thread_count \in 0 .. MaxThreads /\ n \in 0 .. BlockDim
        /\ DP!TypeOK
    BY <1>1, <1>2 DEF DP!IInv, DP!Phases, DP!ExactlyOnce, DP!TypeOK
  <1>5. /\ thread_count <= BlockDim * block_id
        /\ block_id > 0 => BlockDim * block_id < thread_count + BlockDim
    BY <1>4, DP!NumBlocksBounds, CoresAssumption, CountsAssumption
  <1>6. b \in Nat /\ b + 1 <= block_id
    BY <1>3, <1>4
  <1>7. ASSUME NEW t \in Threads PROVE t < n <=> Launched(ThreadOf(c, t))
    <2>1. t \in Nat /\ t < BlockDim
      BY <1>0, <1>7 DEF Threads
    <2>2. Launched(ThreadOf(c, t)) <=> b * BlockDim + t < thread_count
      BY DEF Launched, ThreadOf
    <2>3. n = IF b + 1 = block_id THEN thread_count - b * BlockDim ELSE BlockDim
      BY <1>3 DEF DP!BlockThreads
    <2>4. b * BlockDim \in Nat
      BY <1>0, <1>6
    <2>5. CASE b + 1 = block_id
      <3>1. n = thread_count - b * BlockDim
        BY <2>3, <2>5
      <3>. HIDE DEF b, n
      <3>. QED BY <1>0, <1>4, <2>1, <2>2, <2>4, <3>1
    <2>6. CASE b + 1 # block_id
      <3>1. n = BlockDim
        BY <2>3, <2>6
      <3>2. b + 2 <= block_id /\ block_id \in Nat
        BY <1>4, <1>6, <2>6
      <3>. HIDE DEF b, n
      <3>3. BlockDim * (b + 2) <= BlockDim * block_id
        BY <1>0, <1>6, <3>2
      <3>4. BlockDim * (b + 2) = b * BlockDim + 2 * BlockDim
        BY <1>0, <1>6
      <3>5. BlockDim * block_id < thread_count + BlockDim
        BY <1>5, <1>6, <3>2
      <3>. QED BY <1>0, <1>4, <2>1, <2>2, <2>4, <3>1, <3>2, <3>3, <3>4, <3>5
    <2>. QED BY <2>5, <2>6
  <1>8. b \notin RanBlocks
    <2>. SUFFICES ASSUME NEW r \in ran, r[1] = b PROVE FALSE
      BY DEF RanBlocks
    <2>1. ran \cup DP!Active = DP!HandedOut /\ ran \cap DP!Active = {}
      BY <1>2 DEF DP!IInv, DP!ExactlyOnce
    <2>2. PICK x \in 0 .. block_id_n - 1 : r = <<x, DP!BlockThreads(x)>>
      BY <2>1 DEF DP!HandedOut
    <2>3. r = DP!Job(c)
      BY <1>3, <2>2 DEF DP!Job
    <2>. QED BY <1>2, <2>1, <2>3 DEF DP!Active
  <1>9. ASSUME NEW d \in Cores, core_state[d] = "BUSY_C", core_block_id[d] = b PROVE d = c
    BY <1>2, <1>9 DEF DP!IInv, DP!ExactlyOnce
  <1>. QED BY <1>4, <1>6, <1>7, <1>8, <1>9

\* A thread of the launch is one that can be launched.
LEMMA LaunchedOfGrid ==
  ASSUME DP!IInv, LaunchCounted, NEW b \in Nat, NEW t \in Threads, Launched(<<b, t>>)
  PROVE  <<b, t>> \in Launchable
  <1>0. BlockDim \in Nat \ {0} /\ MaxThreads \in Nat /\ thread_count \in 0 .. MaxThreads
    BY CoresAssumption, CountsAssumption DEF DP!IInv, DP!TypeOK
  <1>1. t \in Nat /\ b * BlockDim \in Nat /\ b * BlockDim + t < thread_count
    BY <1>0 DEF Launched, Threads
  <1>2. b * BlockDim + t < MaxThreads /\ b * BlockDim <= MaxThreads - 1
    BY <1>0, <1>1
  <1>. DEFINE q == (MaxThreads - 1) \div BlockDim
              r == (MaxThreads - 1) % BlockDim
  <1>3. q \in Nat /\ r \in 0 .. BlockDim - 1 /\ MaxThreads - 1 = q * BlockDim + r
    BY <1>0, <1>1, <1>2
  <1>4. b <= q
    <2>. HIDE DEF q, r
    <2>. SUFFICES ASSUME q + 1 <= b PROVE FALSE
      BY <1>3
    <2>1. (q + 1) * BlockDim <= b * BlockDim
      BY <1>0, <1>3
    <2>2. (q + 1) * BlockDim = q * BlockDim + BlockDim
      BY <1>0, <1>3
    <2>. QED BY <1>0, <1>1, <1>2, <1>3, <2>1, <2>2
  <1>5. <<b, t>> \in Grid
    <2>1. b \in 0 .. q
      BY <1>3, <1>4
    <2>. QED BY <1>2, <2>1 DEF Grid
  <1>6. thread_count \in ThreadCounts
    BY <1>0, <1>1 DEF LaunchCounted
  <1>. QED BY <1>1, <1>5, <1>6 DEF Launchable

\* The thread of a lane at work is one of the launch.
LEMMA LaneOfLaunch ==
  ASSUME DP!IInv, LaunchCounted, LanesCounted,
         NEW c \in Cores, NEW t \in Threads, Active(core[c], t)
  PROVE  /\ ThreadOf(c, t) \in Launchable /\ Launched(ThreadOf(c, t))
         /\ ThreadOf(c, t)[1] = core_block_id[c] /\ ThreadOf(c, t)[2] = t
         /\ ~Untouched(ThreadOf(c, t))
         /\ core_state[c] = "BUSY_C" /\ core_start[c]
  <1>1. core[c].running /\ t < core_thread_count[c]
    BY DEF LanesCounted, Active
  <1>2. core_state[c] = "BUSY_C" /\ core_start[c]
    <2>1. DP!Cores = Cores
      BY DEF DP!Cores, Cores
    <2>2. /\ core_state \in [Cores -> {"IDLE_C", "BUSY_C"}]
          /\ core_start[c] <=> core_state[c] = "BUSY_C"
      BY <2>1 DEF DP!IInv, DP!TypeOK, DP!Handshake
    <2>. QED BY <1>1, <2>2, DispatchFacts
  <1>3. Launched(ThreadOf(c, t)) /\ core_block_id[c] \in Nat
    BY <1>1, <1>2, BusyBlock
  <1>4. ThreadOf(c, t) \in Launchable
    BY <1>3, LaunchedOfGrid DEF ThreadOf
  <1>5. RunsOn(core_block_id[c], c)
    BY <1>1 DEF RunsOn
  <1>. QED BY <1>2, <1>3, <1>4, <1>5 DEF ThreadOf, Untouched

\* No two lanes run the same thread.
LEMMA LanesDiffer ==
  ASSUME DP!IInv, LaunchCounted, LanesCounted,
         NEW c \in Cores, NEW t \in Threads, Active(core[c], t),
         NEW d \in Cores, NEW u \in Threads, Active(core[d], u),
         ThreadOf(c, t) = ThreadOf(d, u)
  PROVE  c = d /\ t = u
  <1>1. core_block_id[c] = core_block_id[d] /\ t = u
    BY DEF ThreadOf
  <1>2. core_state[c] = "BUSY_C" /\ core_state[d] = "BUSY_C"
    BY LaneOfLaunch
  <1>. QED BY <1>1, <1>2, BusyBlock

\* An access is answered on a channel that carries it.
LEMMA AnsweredOn ==
  ASSUME HeldInv, NEW c \in Cores, NEW t \in Threads, t \in Wires(c).answered
  PROVE  \E ch \in DataReady :
           /\ core[c].lane[t].pending.op \in MemoryOps
           /\ data_channel[ch] = [state |-> "BUSY", consumer |-> Lsu(c, t),
                                  request |-> Request(core[c].lane[t].pending)]
  <1>1. Lsu(c, t) \in DataController!ConsumersOf(DataReady)
    BY DEF Wires, Answered
  <1>2. PICK ch \in DataReady : data_channel[ch].consumer = Lsu(c, t)
    BY <1>1 DEF DataController!ConsumersOf
  <1>3. PICK d \in Cores, u \in Threads :
          /\ core[d].lane[u].pending.op \in MemoryOps
          /\ data_channel[ch] = [state |-> "BUSY", consumer |-> Lsu(d, u),
                                 request |-> Request(core[d].lane[u].pending)]
    BY <1>2 DEF HeldInv, DataHeld, DataReady
  <1>4. Lsu(c, t) = Lsu(d, u)
    BY <1>2, <1>3
  <1>5. c = d /\ t = u
    BY <1>4, LsuNumbers
  <1>. QED BY <1>3, <1>5

\* A channel that writes carries the store of a lane that it answers.
LEMMA WriterOf ==
  ASSUME HeldInv, NEW ch \in DataReady, data_channel[ch].request.kind = "write"
  PROVE  \E c \in Cores, t \in Threads :
           /\ t \in Wires(c).answered /\ core[c].lane[t].pending.op = "STR"
           /\ data_channel[ch].consumer = Lsu(c, t)
           /\ data_channel[ch].request.address = core[c].lane[t].pending.value
           /\ data_channel[ch].request.data = core[c].lane[t].pending.data
  <1>1. PICK c \in Cores, t \in Threads :
          /\ core[c].lane[t].pending.op \in MemoryOps
          /\ data_channel[ch] = [state |-> "BUSY", consumer |-> Lsu(c, t),
                                 request |-> Request(core[c].lane[t].pending)]
    BY DEF HeldInv, DataHeld, DataReady
  <1>. DEFINE i == core[c].lane[t].pending
  <1>2. Request(i).kind = "write" /\ i.op \in {"LDR", "STR"}
    BY <1>1 DEF MemoryOps
  <1>3. i.op = "STR"
    <2>. HIDE DEF i
    <2>1. i.op = "LDR" => Request(i).kind = "read"
      BY DEF Request
    <2>. QED BY <1>2, <2>1
  <1>4. Request(i).address = i.value /\ Request(i).data = i.data
    <2>. HIDE DEF i
    <2>. QED BY <1>3 DEF Request
  <1>5. t \in Wires(c).answered
    BY <1>1 DEF Wires, Answered, DataController!ConsumersOf
  <1>. QED BY <1>1, <1>3, <1>4, <1>5

\* A store that is on its way is one its thread makes.
LEMMA StoreOf ==
  ASSUME SoundKernels, AllInStep, NEW c \in Cores, NEW t \in Threads,
         core[c].lane[t].pending.op = "STR"
  PROVE  /\ Active(core[c], t) /\ ThreadOf(c, t) \in Launchable /\ Launched(ThreadOf(c, t))
         /\ ~Untouched(ThreadOf(c, t)) /\ job \in Kernels
         /\ core[c].lane[t].pending.value \in Writes(job, ThreadOf(c, t))
         /\ core[c].lane[t].pending.value \in Word
  <1>. DEFINE i == core[c].lane[t].pending
              b == core_block_id[c]
              trace == Traces[job][ThreadOf(c, t)]
  <1>1. job \in Kernels
    BY DEF AllInStep, StraightInv
  <1>2. i # NoItem
    BY DEF NoItem
  <1>3. Active(core[c], t) /\ InStep(core[c], t, memory, job.program, trace, b)
    BY <1>2 DEF AllInStep, LanesInStep, Quiet
  <1>4. /\ ThreadOf(c, t) \in Launchable /\ Launched(ThreadOf(c, t))
        /\ ~Untouched(ThreadOf(c, t)) /\ ThreadOf(c, t)[1] = b /\ ThreadOf(c, t)[2] = t
    BY <1>3, LaneOfLaunch DEF AllInStep
  <1>5. AccessOf(i, trace, job.program, b, t)
    BY <1>3 DEF InStep, Owns
  <1>6. PICK n \in 0 .. Len(job.program) - 1 :
          /\ InstrAt(job.program, n).op = "STR"
          /\ Address(job.program, trace[n], b, t) = i.value
    BY <1>5 DEF AccessOf, MemoryOps
  <1>7. i.value \in Writes(job, ThreadOf(c, t))
    BY <1>4, <1>6 DEF Writes, StoredTo
  <1>8. i.value \in Word
    <2>. HIDE DEF i
    <2>. QED BY <1>1, <1>4, <1>7, ReferenceOf
  <1>. QED BY <1>1, <1>3, <1>4, <1>7, <1>8

\* No two lanes store to the same word.
LEMMA OneStore ==
  ASSUME SoundKernels, AllInStep,
         NEW c \in Cores, NEW t \in Threads, core[c].lane[t].pending.op = "STR",
         NEW d \in Cores, NEW u \in Threads, core[d].lane[u].pending.op = "STR",
         core[c].lane[t].pending.value = core[d].lane[u].pending.value
  PROVE  c = d /\ t = u
  <1>1. /\ job \in Kernels /\ ThreadOf(c, t) \in Launchable /\ Active(core[c], t)
        /\ core[c].lane[t].pending.value \in Writes(job, ThreadOf(c, t))
    BY StoreOf
  <1>2. /\ ThreadOf(d, u) \in Launchable /\ Active(core[d], u)
        /\ core[d].lane[u].pending.value \in Writes(job, ThreadOf(d, u))
    BY StoreOf
  <1>3. core[d].lane[u].pending.value \in ReadsAndWrites(job, ThreadOf(d, u))
    BY <1>1, <1>2, ReferenceOf
  <1>4. ThreadOf(c, t) = ThreadOf(d, u)
    BY <1>1, <1>2, <1>3, NoRace
  <1>. QED BY <1>1, <1>2, <1>4, LanesDiffer DEF AllInStep

\* A word keeps its value, or takes that of the store that is answered.
LEMMA WordNext ==
  ASSUME SoundKernels, AllInStep, Edge, NEW a \in Word
  PROVE  /\ memory'[a] = memory[a] \/
              \E c \in Cores, t \in Threads :
                 /\ t \in Wires(c).answered
                 /\ core[c].lane[t].pending.op = "STR"
                 /\ core[c].lane[t].pending.value = a
                 /\ memory'[a] = core[c].lane[t].pending.data
         /\ \A c \in Cores, t \in Threads :
              /\ t \in Wires(c).answered
              /\ core[c].lane[t].pending.op = "STR"
              /\ core[c].lane[t].pending.value = a
              => memory'[a] = core[c].lane[t].pending.data
  <1>. DEFINE S == DataController!WritersBefore(DataReady, a, DataChannels)
              last == CHOOSE ch \in S : \A v \in S : v <= ch
  <1>0. HeldInv /\ DataChannels \in Nat
    BY ChannelsAssumption DEF AllInStep
  <1>1. memory'[a] = IF S = {} THEN memory[a] ELSE data_channel[last].request.data
    BY DEF Edge, DataController!WordAt
  <1>2. \A ch : ch \in S <=> /\ ch \in DataReady
                             /\ data_channel[ch].request.kind = "write"
                             /\ data_channel[ch].request.address = a
                             /\ ch < DataChannels
    BY DEF DataController!WritersBefore
  <1>3. DataReady \subseteq 0 .. DataChannels - 1
    BY DEF DataReady, DataController!BusyChannels, DataController!Channels
  <1>4. ASSUME NEW ch \in S
        PROVE  \E c \in Cores, t \in Threads :
                 /\ t \in Wires(c).answered /\ core[c].lane[t].pending.op = "STR"
                 /\ data_channel[ch].consumer = Lsu(c, t)
                 /\ core[c].lane[t].pending.value = a
                 /\ data_channel[ch].request.data = core[c].lane[t].pending.data
    <2>. HIDE DEF S
    <2>1. ch \in DataReady /\ data_channel[ch].request.kind = "write"
      BY <1>2
    <2>2. data_channel[ch].request.address = a
      BY <1>2
    <2>3. PICK c \in Cores, t \in Threads :
           /\ t \in Wires(c).answered /\ core[c].lane[t].pending.op = "STR"
           /\ data_channel[ch].consumer = Lsu(c, t)
           /\ data_channel[ch].request.address = core[c].lane[t].pending.value
           /\ data_channel[ch].request.data = core[c].lane[t].pending.data
      BY <1>0, <2>1, WriterOf
    <2>. QED BY <2>2, <2>3
  <1>5. ASSUME NEW ch \in S, NEW oh \in S PROVE ch = oh
    <2>. HIDE DEF S
    <2>1. PICK c \in Cores, t \in Threads :
            /\ core[c].lane[t].pending.op = "STR" /\ core[c].lane[t].pending.value = a
            /\ data_channel[ch].consumer = Lsu(c, t)
      BY <1>4
    <2>2. PICK d \in Cores, u \in Threads :
            /\ core[d].lane[u].pending.op = "STR" /\ core[d].lane[u].pending.value = a
            /\ data_channel[oh].consumer = Lsu(d, u)
      BY <1>4
    <2>3. c = d /\ t = u
      BY <2>1, <2>2, OneStore
    <2>4. ch \in DataController!BusyChannels /\ oh \in DataController!BusyChannels
      BY <1>2 DEF DataReady
    <2>. QED BY <1>0, <2>1, <2>2, <2>3, <2>4 DEF HeldInv, DataController!Exclusive
  <1>6. ASSUME NEW ch \in S PROVE last = ch
    <2>1. ch \in DataReady
      BY <1>2, <1>6
    <2>2. S = {ch}
      <3>. HIDE DEF S
      <3>. QED BY <1>5, <1>6
    <2>3. ch <= ch
      BY <1>0, <1>3, <2>1
    <2>. HIDE DEF S
    <2>. QED BY <2>2, <2>3
  <1>. HIDE DEF S, last
  <1>7. ASSUME memory'[a] # memory[a]
        PROVE  \E c \in Cores, t \in Threads :
                 /\ t \in Wires(c).answered
                 /\ core[c].lane[t].pending.op = "STR"
                 /\ core[c].lane[t].pending.value = a
                 /\ memory'[a] = core[c].lane[t].pending.data
    <2>1. PICK ch \in S : TRUE
      BY <1>1, <1>7
    <2>2. memory'[a] = data_channel[ch].request.data
      BY <1>1, <1>6, <2>1
    <2>. QED BY <1>4, <2>2
  <1>8. ASSUME NEW c \in Cores, NEW t \in Threads, t \in Wires(c).answered,
               core[c].lane[t].pending.op = "STR", core[c].lane[t].pending.value = a
        PROVE  memory'[a] = core[c].lane[t].pending.data
    <2>1. PICK ch \in DataReady :
            data_channel[ch] = [state |-> "BUSY", consumer |-> Lsu(c, t),
                                request |-> Request(core[c].lane[t].pending)]
      BY <1>0, <1>8, AnsweredOn
    <2>. DEFINE i == core[c].lane[t].pending
    <2>2. Request(i) = [kind |-> "write", address |-> i.value, data |-> i.data]
      <3>1. i.op = "STR"
        BY <1>8
      <3>. HIDE DEF i
      <3>. QED BY <3>1 DEF Request
    <2>3. ch \in S
      <3>1. ch < DataChannels
        BY <1>0, <1>3
      <3>. QED BY <1>2, <1>8, <2>1, <2>2, <3>1
    <2>4. memory'[a] = data_channel[ch].request.data
      BY <1>1, <1>6, <2>3
    <2>. QED BY <2>1, <2>2, <2>4
  <1>. QED BY <1>7, <1>8

\* A word that no thread at work writes keeps its value.
LEMMA WordRests ==
  ASSUME SoundKernels, AllInStep, Edge, NEW a \in Word,
         \A c \in Cores, t \in Threads :
           Active(core[c], t) => a \notin Writes(job, ThreadOf(c, t))
  PROVE  memory'[a] = memory[a]
  <1>. SUFFICES ASSUME memory'[a] # memory[a] PROVE FALSE
    OBVIOUS
  <1>1. PICK c \in Cores, t \in Threads : /\ core[c].lane[t].pending.op = "STR"
                                          /\ core[c].lane[t].pending.value = a
    BY WordNext
  <1>. QED BY <1>1, StoreOf

\* So do those that a thread accesses which is not at work.
LEMMA WordsRest ==
  ASSUME SoundKernels, AllInStep, Edge, NEW g \in Launchable,
         \A c \in Cores, t \in Threads : Active(core[c], t) => g # ThreadOf(c, t)
  PROVE  \A a \in ReadsAndWrites(job, g) : memory'[a] = memory[a]
  <1>. SUFFICES ASSUME NEW a \in ReadsAndWrites(job, g) PROVE memory'[a] = memory[a]
    OBVIOUS
  <1>1. job \in Kernels
    BY DEF AllInStep, StraightInv
  <1>2. a \in Word
    BY <1>1, ReferenceOf
  <1>3. ASSUME NEW c \in Cores, NEW t \in Threads, Active(core[c], t),
               a \in Writes(job, ThreadOf(c, t))
        PROVE  FALSE
    <2>1. ThreadOf(c, t) \in Launchable
      BY <1>3, LaneOfLaunch DEF AllInStep
    <2>. QED BY <1>1, <1>3, <2>1, NoRace
  <1>. QED BY <1>2, <1>3, WordRests

\* What memory and its controller do for a lane at work, in a launch without races.
LEMMA LaneMemoryOf ==
  ASSUME SoundKernels, AllInStep, Edge,
         NEW c \in Cores, NEW t \in Threads, Active(core[c], t)
  PROVE  LaneMemory(core[c], Wires(c), t, memory, memory', ReadsAndWrites(job, ThreadOf(c, t)))
  <1>. DEFINE i == core[c].lane[t].pending
              g == ThreadOf(c, t)
              own == ReadsAndWrites(job, g)
  <1>1. job \in Kernels /\ HeldInv /\ DP!IInv /\ LaunchCounted /\ LanesCounted
    BY DEF AllInStep, StraightInv
  <1>2. g \in Launchable /\ own \subseteq Word
    <2>1. g \in Launchable
      BY <1>1, LaneOfLaunch
    <2>. QED BY <1>1, <2>1, ReferenceOf
  <1>3. ASSUME NEW a \in own, memory'[a] # memory[a]
        PROVE  i.op = "STR" /\ i.value = a /\ memory'[a] = i.data
    <2>0. a \in Word
      BY <1>2
    <2>1. PICK d \in Cores, u \in Threads : /\ core[d].lane[u].pending.op = "STR"
                                            /\ core[d].lane[u].pending.value = a
                                            /\ memory'[a] = core[d].lane[u].pending.data
      BY <1>3, <2>0, WordNext
    <2>2. Active(core[d], u) /\ ThreadOf(d, u) \in Launchable /\ a \in Writes(job, ThreadOf(d, u))
      BY <2>1, StoreOf
    <2>3. ThreadOf(d, u) = g
      <3>. HIDE DEF g
      <3>. QED BY <1>1, <1>2, <1>3, <2>2, NoRace
    <2>4. d = c /\ u = t
      BY <1>1, <2>2, <2>3, LanesDiffer
    <2>. QED BY <2>1, <2>4
  <1>4. ASSUME t \in Wires(c).answered
        PROVE  /\ i # NoItem
               /\ i.op = "STR" => memory'[i.value] = i.data
               /\ i.op = "LDR" => Wires(c).word[t] = memory[i.value]
    <2>1. PICK ch \in DataReady :
           /\ i.op \in MemoryOps
           /\ data_channel[ch] = [state |-> "BUSY", consumer |-> Lsu(c, t),
                                  request |-> Request(i)]
      BY <1>1, <1>4, AnsweredOn
    <2>2. i # NoItem
      BY <2>1 DEF NoItem, MemoryOps
    <2>3. ASSUME i.op = "STR" PROVE memory'[i.value] = i.data
      <3>1. i.value \in Word
        BY <2>3, StoreOf
      <3>. QED BY <1>4, <2>3, <3>1, WordNext
    <2>4. ASSUME i.op = "LDR" PROVE Wires(c).word[t] = memory[i.value]
      <3>. DEFINE reads == DataController!ReadsOf(DataReady, Lsu(c, t))
                  rh == CHOOSE x \in reads : TRUE
      <3>1. Request(i) = [kind |-> "read", address |-> i.value]
        <4>1. i.op = "LDR"
          BY <2>4
        <4>. HIDE DEF i
        <4>. QED BY <4>1 DEF Request
      <3>2. ch \in reads
        BY <2>1, <3>1 DEF DataController!ReadsOf
      <3>3. rh \in reads
        BY <3>2
      <3>4. Wires(c).word[t] =
              DataController!WordAt(DataReady, data_channel[rh].request.address, rh)
        BY <3>2 DEF Wires, WordFor
      <3>5. rh = ch
        <4>1. rh \in DataReady /\ data_channel[rh].consumer = Lsu(c, t)
          BY <3>3 DEF DataController!ReadsOf
        <4>2. ch \in DataReady /\ data_channel[ch].consumer = Lsu(c, t)
          BY <2>1
        <4>3. DataController!Exclusive
          BY <1>1 DEF HeldInv
        <4>. HIDE DEF rh, i
        <4>. QED BY <4>1, <4>2, <4>3 DEF DataController!Exclusive, DataReady
      <3>. HIDE DEF reads, rh
      <3>6. data_channel[rh].request.address = i.value
        <4>1. data_channel[ch].request = Request(i)
          BY <2>1
        <4>. HIDE DEF i
        <4>. QED BY <3>1, <3>5, <4>1
      <3>7. DataController!WritersBefore(DataReady, i.value, rh) = {}
        <4>. SUFFICES ASSUME NEW wh \in DataReady, data_channel[wh].request.kind = "write",
                             data_channel[wh].request.address = i.value
                      PROVE  FALSE
          BY DEF DataController!WritersBefore
        <4>1. PICK d \in Cores, u \in Threads :
                core[d].lane[u].pending.op = "STR" /\ core[d].lane[u].pending.value = i.value
          BY <1>1, WriterOf
        <4>2. /\ ThreadOf(d, u) \in Launchable /\ Active(core[d], u)
              /\ i.value \in Writes(job, ThreadOf(d, u))
          BY <4>1, StoreOf
        <4>3. i.value \in own
          <5>1. InStep(core[c], t, memory, job.program, Traces[job][g], core_block_id[c])
            BY DEF AllInStep, LanesInStep
          <5>2. i.value \in Touched(job.program, Traces[job][g], core_block_id[c], t)
            BY <2>4, <5>1 DEF InStep, Owns, AccessOf, MemoryOps
          <5>. QED BY <5>2 DEF ReadsAndWrites, ThreadOf
        <4>4. ThreadOf(d, u) = g
          <5>. HIDE DEF g, i
          <5>. QED BY <1>1, <1>2, <4>2, <4>3, NoRace DEF i
        <4>5. d = c /\ u = t
          BY <1>1, <4>2, <4>4, LanesDiffer
        <4>. QED BY <2>4, <4>1, <4>5
      <3>. QED BY <3>4, <3>6, <3>7 DEF DataController!WordAt
    <2>. QED BY <2>2, <2>3, <2>4
  <1>. QED BY <1>3, <1>4 DEF LaneMemory

\* What a dispatcher does not take back: the block of a core that has its start wire.
LEMMA BlockKept ==
  ASSUME DP!IInv, [Next]_vars, NEW c \in Cores, core_start[c]
  PROVE  core_block_id'[c] = core_block_id[c] /\ core_thread_count'[c] = core_thread_count[c]
  <1>0. dispatch_state = "BUSY" /\ start /\ core_state[c] # "IDLE_C"
    BY DispatchFacts
  <1>1. CASE NewGpu
    BY <1>0, <1>1 DEF NewGpu
  <1>2. ASSUME NEW n \in ThreadCounts, SetThreadCount(n) PROVE FALSE
    BY <1>0, <1>2 DEF SetThreadCount
  <1>3. CASE Start
    BY <1>0, <1>3 DEF Start
  <1>4. CASE Cycle
    <2>1. c \in D!Cores /\ ~D!Takes(c)
      BY <1>0 DEF D!Cores, Cores, D!Takes, D!IdleCores
    <2>. QED BY <1>4, <2>1 DEF Cycle, D!HandOut
  <1>5. CASE Complete
    BY <1>5 DEF Complete, D!Report
  <1>6. CASE Finish
    BY <1>6 DEF Finish, D!Rearm
  <1>7. CASE UNCHANGED vars
    BY <1>7 DEF vars, dispatchVars
  <1>. QED BY <1>1, <1>2, <1>3, <1>4, <1>5, <1>6, <1>7 DEF Next

\* What an edge does to the control registers of a core.
LEMMA CoreEdge ==
  ASSUME SoundKernels, AllInStep, Edge, NEW c \in Cores
  PROVE  /\ core'[c] = CoreNext(core[c], Wires(c)) /\ job' = job /\ job \in Kernels
         /\ StraightEdge(core[c], Wires(c), job.program)
         /\ core[c].running =>
              /\ core_start[c] /\ core'[c].mask = core[c].mask \ Retiring(core[c])
              /\ core'[c].running <=> ~(core[c].mask \subseteq Retiring(core[c]))
              /\ c \in Fin <=> ~core'[c].running
         /\ ~core[c].running /\ core'[c].running =>
              /\ core_start[c] /\ StartEdge(core[c], Wires(c))
              /\ core'[c].mask = {t \in Threads : t < core_thread_count[c]}
         /\ c \in Fin => core[c].running
  <1>. DEFINE k == core[c]
              w == Wires(c)
              n == core'[c]
  <1>1. n = CoreNext(k, w) /\ job' = job /\ job \in Kernels
    BY DEF Edge, AllInStep, StraightInv
  <1>2. StraightEdge(k, w, job.program)
    <2>1. StraightWires(k, w, job.program)
      BY SoundIsStraight, StraightGpuWires DEF AllInStep
    <2>. QED BY <2>1 DEF AllInStep, StraightInv, StraightEdge
  <1>3. w.start = core_start[c] /\ w.count = core_thread_count[c]
    BY DEF Wires
  <1>4. k.running => core_start[c]
    <2>1. DP!Cores = Cores
      BY DEF DP!Cores, Cores
    <2>2. /\ core_state \in [Cores -> {"IDLE_C", "BUSY_C"}]
          /\ core_start[c] <=> core_state[c] = "BUSY_C"
          /\ core_state[c] = "IDLE_C" => ~k.running
      BY <2>1, DispatchFacts DEF AllInStep, DP!IInv, DP!TypeOK, DP!Handshake
    <2>. QED BY <2>2
  <1>5. n.running = RunningNext(k, w) /\ n.mask = MaskNext(k, w)
    BY <1>1, CoreFields
  <1>6. c \in Fin <=> CoreDone(k, w) /\ ~StartEdge(k, w)
    BY DEF Fin
  <1>. HIDE DEF k, w, n
  <1>7. ASSUME k.running
        PROVE  /\ core_start[c] /\ n.mask = k.mask \ Retiring(k)
               /\ n.running <=> ~(k.mask \subseteq Retiring(k))
               /\ c \in Fin <=> ~n.running
    <2>1. /\ ~StartEdge(k, w) /\ n.mask = k.mask \ Retiring(k)
          /\ n.running <=> ~(k.mask \subseteq Retiring(k))
      BY <1>1, <1>2, <1>7, RunningEdge
    <2>2. n.running <=> ~Ends(k, w)
      BY <1>5, <1>7, <2>1 DEF RunningNext
    <2>. QED BY <1>4, <1>6, <1>7, <2>1, <2>2 DEF CoreDone
  <1>8. ASSUME ~k.running, n.running
        PROVE  /\ core_start[c] /\ StartEdge(k, w)
               /\ n.mask = {t \in Threads : t < core_thread_count[c]}
    <2>1. StartEdge(k, w)
      BY <1>5, <1>8 DEF RunningNext
    <2>. QED BY <1>3, <1>5, <2>1 DEF StartEdge, MaskNext
  <1>9. c \in Fin => k.running
    BY <1>6 DEF CoreDone, Ends
  <1>. QED BY <1>1, <1>2, <1>7, <1>8, <1>9 DEF k, w, n

\* A core runs no more lanes than its block has after an edge.
LEMMA LanesCountedStep ==
  ASSUME SoundKernels, AllInStep, Edge, [Next]_vars
  PROVE  LanesCounted'
  <1>. SUFFICES ASSUME NEW c \in Cores, NEW t \in Threads, Active(core'[c], t)
                PROVE  t < core_thread_count'[c]
    BY DEF LanesCounted
  <1>1. core_start[c] /\ t < core_thread_count[c]
    <2>1. CASE core[c].running
      <3>1. Active(core[c], t) /\ core_start[c]
        BY <2>1, CoreEdge DEF Active
      <3>. QED BY <3>1 DEF AllInStep, LanesCounted
    <2>2. CASE ~core[c].running
      BY <2>2, CoreEdge DEF Active
    <2>. QED BY <2>1, <2>2
  <1>2. core_thread_count'[c] = core_thread_count[c]
    BY <1>1, BlockKept DEF AllInStep
  <1>. QED BY <1>1, <1>2

\* Until its thread starts, the words of a lane are as at first.
LEMMA UntouchedWords ==
  ASSUME SoundKernels, AllInStep, WordsInStep, NEW g \in Launchable, Untouched(g)
  PROVE  \A a \in ReadsAndWrites(job, g) : memory[a] = job.words[a]
  <1>. SUFFICES ASSUME NEW a \in ReadsAndWrites(job, g) PROVE memory[a] = job.words[a]
    OBVIOUS
  <1>1. job \in Kernels
    BY DEF AllInStep, StraightInv
  <1>2. a \in Word
    BY <1>1, ReferenceOf
  <1>3. Unwritten(a)
    BY <1>1, NoRace DEF Unwritten
  <1>. QED BY <1>2, <1>3 DEF WordsInStep

\* A core that sees its start edge has a thread for each of its lanes.
LEMMA StartsThread ==
  ASSUME DP!IInv, LaunchCounted, NEW c \in Cores, core_start[c], ~core[c].running,
         NEW t \in Threads, t < core_thread_count[c]
  PROVE  /\ ThreadOf(c, t) \in Launchable /\ Untouched(ThreadOf(c, t))
         /\ ThreadOf(c, t)[1] = core_block_id[c] /\ ThreadOf(c, t)[2] = t
  <1>1. DP!Cores = Cores
    BY DEF DP!Cores, Cores
  <1>2. /\ core_state \in [Cores -> {"IDLE_C", "BUSY_C"}]
        /\ \A d \in Cores : core_start[d] <=> core_state[d] = "BUSY_C"
        /\ \A d \in Cores : core_state[d] = "IDLE_C" => ~core[d].running
    BY <1>1, DispatchFacts DEF DP!IInv, DP!TypeOK, DP!Handshake
  <1>3. core_state[c] = "BUSY_C"
    BY <1>2
  <1>4. /\ Launched(ThreadOf(c, t)) /\ core_block_id[c] \in Nat
        /\ core_block_id[c] \notin RanBlocks
        /\ \A d \in Cores : core_state[d] = "BUSY_C" /\ core_block_id[d] = core_block_id[c]
             => d = c
    BY <1>3, BusyBlock
  <1>5. ThreadOf(c, t) \in Launchable
    BY <1>4, LaunchedOfGrid DEF ThreadOf
  <1>6. \A d \in Cores : ~RunsOn(core_block_id[c], d)
    BY <1>2, <1>4 DEF RunsOn
  <1>. QED BY <1>4, <1>5, <1>6 DEF Untouched, ThreadOf

\* Every lane stays in step with its thread, or at rest.
LEMMA LanesStep ==
  ASSUME SoundKernels, AllInStep, WordsInStep, Edge, [Next]_vars
  PROVE  LanesInStep'
  <1>. DEFINE p == job.program
  <1>1. ASSUME NEW c \in Cores
        PROVE  FromTheStart(core[c]) /\ FromTheStart(core'[c])
    <2>1. FromTheStart(core[c])
      BY DEF AllInStep, LanesInStep
    <2>. QED BY <2>1, CoreEdge, FromTheStartStep
  <1>2. ASSUME NEW c \in Cores, NEW t \in Threads
        PROVE  /\ IsRegisters(core'[c].lane[t])
               /\ IF Active(core'[c], t)
                  THEN InStep(core'[c], t, memory', p, Traces[job][<<core_block_id'[c], t>>],
                              core_block_id'[c])
                  ELSE Quiet(core'[c].lane[t])
    <2>. DEFINE k == core[c]
                w == Wires(c)
                n == core'[c]
                b == core_block_id[c]
                g == ThreadOf(c, t)
                trace == Traces[job][ThreadOf(c, t)]
                own == Touched(p, trace, b, t)
    <2>1. n = CoreNext(k, w) /\ StraightEdge(k, w, p) /\ w.block = b /\ job \in Kernels
      BY CoreEdge DEF Wires
    <2>2. IsRegisters(k.lane[t]) /\ IsRegisters(n.lane[t])
      <3>1. IsRegisters(k.lane[t])
        BY DEF AllInStep, LanesInStep
      <3>. HIDE DEF k, w, n
      <3>. QED BY <2>1, <3>1, RegistersStep
    <2>3. g[1] = b /\ g[2] = t /\ ReadsAndWrites(job, g) = own
      BY DEF ThreadOf, ReadsAndWrites
    <2>4. FromTheStart(k)
      BY <1>1
    <2>5. CASE Active(k, t)
      <3>1. g \in Launchable
        BY <2>5, LaneOfLaunch DEF AllInStep
      <3>2. Reference(p, job.words, trace, b, t, StepBound)
        BY <2>1, <2>3, <3>1, ReferenceOf
      <3>3. LaneMemory(k, w, t, memory, memory', own)
        BY <2>3, <2>5, LaneMemoryOf
      <3>4. InStep(k, t, memory, p, trace, b)
        BY <2>5 DEF AllInStep, LanesInStep
      <3>5. core_block_id'[c] = b /\ k.running
        <4>1. k.running /\ core_start[c]
          BY <2>5, CoreEdge DEF Active
        <4>. QED BY <4>1, BlockKept DEF AllInStep
      <3>. HIDE DEF p, trace, k, w, n
      <3>6. Active(n, t) <=> t \notin Retiring(k)
        BY <2>1, <2>5, <3>5, ActiveAfter
      <3>7. CASE t \notin Retiring(k)
        <4>1. InStep(n, t, memory', p, trace, b)
          BY <2>1, <2>4, <2>5, <3>2, <3>3, <3>4, <3>7, LaneStep
        <4>. QED BY <2>2, <3>5, <3>6, <3>7, <4>1 DEF trace, n, ThreadOf
      <3>8. CASE t \in Retiring(k)
        <4>1. Quiet(n.lane[t])
          BY <2>1, <2>4, <2>5, <3>2, <3>3, <3>4, <3>8, LaneRetires
        <4>. QED BY <2>2, <3>6, <3>8, <4>1 DEF n
      <3>. QED BY <3>7, <3>8
    <2>6. CASE ~Active(k, t) /\ ~Active(n, t)
      <3>1. Quiet(k.lane[t])
        BY <2>6 DEF AllInStep, LanesInStep
      <3>. HIDE DEF p, k, w, n
      <3>2. Quiet(n.lane[t])
        BY <2>1, <2>6, <3>1, QuietStep
      <3>. QED BY <2>2, <2>6, <3>2 DEF n
    <2>7. CASE ~Active(k, t) /\ Active(n, t)
      <3>1. ~k.running
        <4>. HIDE DEF k, w, n, p
        <4>. QED BY <2>1, <2>7, ActiveAfter
      <3>2. core_start[c] /\ t < core_thread_count[c]
        BY <2>7, <3>1, CoreEdge DEF Active
      <3>3. g \in Launchable /\ Untouched(g)
        BY <3>1, <3>2, StartsThread DEF AllInStep
      <3>4. core_block_id'[c] = b
        BY <3>2, BlockKept DEF AllInStep
      <3>5. Reference(p, job.words, trace, b, t, StepBound)
        BY <2>1, <2>3, <3>3, ReferenceOf
      <3>6. ASSUME NEW a \in own PROVE memory'[a] = job.words[a]
        <4>1. memory[a] = job.words[a]
          BY <2>3, <3>3, UntouchedWords
        <4>2. ASSUME NEW d \in Cores, NEW u \in Threads, Active(core[d], u) PROVE g # ThreadOf(d, u)
          BY <3>3, <4>2, LaneOfLaunch DEF AllInStep
        <4>3. memory'[a] = memory[a]
          <5>. HIDE DEF g
          <5>. QED BY <2>3, <3>3, <4>2, WordsRest
        <4>. QED BY <4>1, <4>3
      <3>7. Quiet(k.lane[t])
        BY <2>7 DEF AllInStep, LanesInStep
      <3>8. \A a \in Touched(p, trace, w.block, t) : memory'[a] = job.words[a]
        BY <2>1, <3>6
      <3>9. Reference(p, job.words, trace, w.block, t, StepBound)
        BY <2>1, <3>5
      <3>. HIDE DEF p, trace, k, w, n
      <3>10. InStep(n, t, memory', p, trace, w.block)
        BY <2>1, <2>2, <2>4, <3>1, <3>7, <3>8, <3>9, LaneStarts
      <3>. QED BY <2>1, <2>2, <2>7, <3>4, <3>10 DEF trace, n, ThreadOf
    <2>. QED BY <2>5, <2>6, <2>7
  <1>3. job' = job
    BY DEF Edge
  <1>. QED BY <1>1, <1>2, <1>3 DEF LanesInStep, ThreadOf

\* A clock cycle in which no core has a block changes no word and ends no thread.
LEMMA IdleWords ==
  ASSUME SoundKernels, AllInStep, WordsInStep, Edge,
         \A c \in Cores : core_state[c] = "IDLE_C",
         ran' = ran, ran # {} => thread_count' = thread_count
  PROVE  WordsInStep'
  <1>1. job' = job /\ job \in Kernels
    BY DEF Edge, AllInStep, StraightInv
  <1>2. \A c \in Cores : ~core[c].running /\ ~core'[c].running
    <2>1. \A c \in Cores : ~core[c].running /\ ~core_start[c]
      BY DispatchFacts DEF AllInStep
    <2>. QED BY <2>1, CoreEdge
  <1>3. \A a \in Word : memory'[a] = memory[a]
    BY <1>2, WordRests DEF Active
  <1>4. RanBlocks' = RanBlocks
    BY DEF RanBlocks
  <1>5. \A g : /\ Untouched(g) <=> g[1] \notin RanBlocks
               /\ Untouched(g)' <=> g[1] \notin RanBlocks
               /\ Over(g) <=> g[1] \in RanBlocks
               /\ Over(g)' <=> g[1] \in RanBlocks
    BY <1>2, <1>4 DEF Untouched, Over, RunsOn
  <1>6. ASSUME NEW g, g[1] \in RanBlocks PROVE Launched(g)' <=> Launched(g)
    <2>1. ran # {}
      BY <1>6 DEF RanBlocks
    <2>. QED BY <2>1 DEF Launched
  <1>7. IsMemory(memory')
    BY DEF Edge, IsMemory
  <1>8. ASSUME NEW a \in Word, Unwritten(a)' PROVE memory'[a] = job.words[a]
    <2>1. \A g \in Launchable : a \in Writes(job, g) /\ Launched(g)' => Untouched(g)'
      BY <1>1, <1>8 DEF Unwritten
    <2>2. Unwritten(a)
      BY <1>5, <1>6, <2>1 DEF Unwritten
    <2>. QED BY <1>3, <2>2 DEF WordsInStep
  <1>9. ASSUME NEW g \in Launchable, Launched(g)', Over(g)'
        PROVE  AsLeft(job.program, Traces[job][g], ReadsAndWrites(job, g), memory')
    <2>1. AsLeft(job.program, Traces[job][g], ReadsAndWrites(job, g), memory)
      BY <1>5, <1>6, <1>9 DEF WordsInStep
    <2>2. ReadsAndWrites(job, g) \subseteq Word
      BY <1>1, ReferenceOf
    <2>. QED BY <1>3, <2>1, <2>2 DEF AsLeft
  <1>. QED BY <1>1, <1>7, <1>8, <1>9 DEF WordsInStep

\* A cycle of a launch: blocks that were at work still are, or have run.
LEMMA CycleBlocks ==
  ASSUME SoundKernels, AllInStep, Cycle, [Next]_vars
  PROVE  /\ thread_count' = thread_count /\ job' = job
         /\ RanBlocks' = RanBlocks \cup {core_block_id[c] : c \in Fin}
         /\ \A g : Untouched(g)' => Untouched(g)
  <1>1. thread_count' = thread_count /\ job' = job /\ ran' = ran \cup {D!Job(c) : c \in Fin}
    BY DEF Cycle, Edge
  <1>2. \A c : D!Job(c)[1] = core_block_id[c]
    BY DEF D!Job
  <1>3. RanBlocks' = RanBlocks \cup {core_block_id[c] : c \in Fin}
    BY <1>1, <1>2 DEF RanBlocks
  <1>4. ASSUME NEW g, Untouched(g)' PROVE Untouched(g)
    <2>1. g[1] \notin RanBlocks /\ \A c \in Fin : g[1] # core_block_id[c]
      BY <1>3, <1>4 DEF Untouched
    <2>2. ASSUME NEW c \in Cores, RunsOn(g[1], c) PROVE FALSE
      <3>1. Edge /\ core[c].running /\ core_block_id[c] = g[1]
        BY <2>2 DEF Cycle, RunsOn
      <3>2. core'[c].running /\ core_start[c]
        BY <2>1, <3>1, CoreEdge
      <3>3. core_block_id'[c] = g[1]
        BY <3>1, <3>2, BlockKept DEF AllInStep
      <3>. QED BY <1>4, <3>2, <3>3 DEF Untouched, RunsOn
    <2>. QED BY <2>1, <2>2 DEF Untouched
  <1>. QED BY <1>1, <1>3, <1>4

\* A thread of the launch that is over after a cycle was over before it, or its
\* RET is written back in it.
LEMMA OverStep ==
  ASSUME SoundKernels, AllInStep, Cycle, [Next]_vars,
         NEW g \in Launchable, Launched(g), Over(g)', ~Over(g)
  PROVE  \E c \in Cores : /\ g = ThreadOf(c, g[2]) /\ g[2] \in Threads
                          /\ Active(core[c], g[2]) /\ g[2] \in Retiring(core[c])
  <1>1. g[2] \in Threads /\ g = <<g[1], g[2]>> /\ Edge
    BY DEF Launchable, Grid, Cycle
  <1>2. g[1] \notin RanBlocks /\ \A c \in Cores : RunsOn(g[1], c) => g[2] \in core[c].mask
    BY DEF Over
  <1>3. CASE g[1] \in RanBlocks'
    <2>1. PICK c \in Fin : core_block_id[c] = g[1]
      BY <1>2, <1>3, CycleBlocks
    <2>2. c \in Cores /\ core[c].running
      BY <1>1, CoreEdge DEF Fin
    <2>3. core[c].mask \subseteq Retiring(core[c])
      BY <1>1, <2>2, CoreEdge
    <2>4. g[2] \in core[c].mask
      BY <1>2, <2>1, <2>2 DEF RunsOn
    <2>. QED BY <1>1, <2>1, <2>2, <2>3, <2>4 DEF ThreadOf, Active
  <1>4. CASE g[1] \notin RanBlocks'
    <2>1. PICK c \in Cores : RunsOn(g[1], c)' /\ g[2] \notin core'[c].mask
      BY <1>4 DEF Over
    <2>2. core'[c].running /\ core_block_id'[c] = g[1]
      BY <2>1 DEF RunsOn
    <2>3. core_start[c]
      BY <1>1, <2>2, CoreEdge
    <2>4. core_block_id[c] = g[1]
      BY <2>2, <2>3, BlockKept DEF AllInStep
    <2>5. CASE core[c].running
      <3>1. g[2] \in core[c].mask
        BY <1>2, <2>4, <2>5 DEF RunsOn
      <3>2. g[2] \in Retiring(core[c])
        BY <1>1, <2>1, <2>5, <3>1, CoreEdge
      <3>. QED BY <1>1, <2>4, <2>5, <3>1, <3>2 DEF ThreadOf, Active
    <2>6. CASE ~core[c].running
      <3>1. core'[c].mask = {t \in Threads : t < core_thread_count[c]}
        BY <1>1, <2>2, <2>6, CoreEdge
      <3>2. g = ThreadOf(c, g[2])
        BY <1>1, <2>4 DEF ThreadOf
      <3>3. core_state[c] = "BUSY_C"
        <4>1. DP!Cores = Cores
          BY DEF DP!Cores, Cores
        <4>. QED BY <2>3, <4>1 DEF AllInStep, DP!IInv, DP!Handshake
      <3>4. g[2] < core_thread_count[c]
        BY <1>1, <3>2, <3>3, BusyBlock DEF AllInStep
      <3>. QED BY <1>1, <2>1, <3>1, <3>4
    <2>. QED BY <2>5, <2>6
  <1>. QED BY <1>3, <1>4

\* The thread of a lane at work is not over.
LEMMA AtWork ==
  ASSUME DP!IInv, LaunchCounted, LanesCounted,
         NEW c \in Cores, NEW t \in Threads, Active(core[c], t)
  PROVE  ~Over(ThreadOf(c, t))
  <1>1. core_state[c] = "BUSY_C" /\ ThreadOf(c, t)[1] = core_block_id[c] /\ ThreadOf(c, t)[2] = t
    BY LaneOfLaunch
  <1>2. core_block_id[c] \notin RanBlocks
    BY <1>1, BusyBlock
  <1>3. ASSUME NEW d \in Cores, RunsOn(core_block_id[c], d) PROVE d = c
    <2>1. DP!Cores = Cores
      BY DEF DP!Cores, Cores
    <2>2. core_state \in [Cores -> {"IDLE_C", "BUSY_C"}]
      BY <2>1 DEF DP!IInv, DP!TypeOK
    <2>3. core_state[d] = "BUSY_C" /\ core_block_id[d] = core_block_id[c]
      BY <1>3, <2>2, DispatchFacts DEF RunsOn
    <2>. QED BY <1>1, <2>3, BusyBlock
  <1>. QED BY <1>1, <1>2, <1>3 DEF Over, Active

\* A thread has its words as at first until it starts, and leaves them as its
\* program does when its RET is written back.
LEMMA CycleWords ==
  ASSUME SoundKernels, AllInStep, WordsInStep, Cycle, [Next]_vars
  PROVE  WordsInStep'
  <1>. DEFINE p == job.program
  <1>1. Edge /\ job' = job /\ job \in Kernels /\ thread_count' = thread_count
    BY CycleBlocks DEF Cycle, AllInStep, StraightInv
  <1>2. IsMemory(memory')
    BY <1>1 DEF Edge, IsMemory
  <1>3. \A g : Launched(g)' <=> Launched(g)
    BY <1>1 DEF Launched
  <1>4. ASSUME NEW a \in Word, Unwritten(a)' PROVE memory'[a] = job.words[a]
    <2>1. \A g \in Launchable : a \in Writes(job, g) /\ Launched(g)' => Untouched(g)'
      BY <1>1, <1>4 DEF Unwritten
    <2>2. Unwritten(a)
      BY <1>3, <2>1, CycleBlocks DEF Unwritten
    <2>3. ASSUME NEW c \in Cores, NEW t \in Threads, Active(core[c], t)
          PROVE  a \notin Writes(job, ThreadOf(c, t))
      BY <2>2, <2>3, LaneOfLaunch DEF AllInStep, Unwritten
    <2>. QED BY <1>1, <2>2, <2>3, WordRests DEF WordsInStep
  <1>5. ASSUME NEW g \in Launchable, Launched(g)', Over(g)'
        PROVE  AsLeft(p, Traces[job][g], ReadsAndWrites(job, g), memory')
    <2>1. CASE Over(g)
      <3>1. AsLeft(p, Traces[job][g], ReadsAndWrites(job, g), memory)
        BY <1>3, <1>5, <2>1 DEF WordsInStep
      <3>2. ASSUME NEW c \in Cores, NEW t \in Threads, Active(core[c], t) PROVE g # ThreadOf(c, t)
        BY <2>1, <3>2, AtWork DEF AllInStep
      <3>3. \A a \in ReadsAndWrites(job, g) : memory'[a] = memory[a]
        BY <1>1, <3>2, WordsRest
      <3>. QED BY <3>1, <3>3 DEF AsLeft
    <2>2. CASE ~Over(g)
      <3>. DEFINE t == g[2]
                  trace == Traces[job][g]
      <3>1. PICK c \in Cores : /\ g = ThreadOf(c, t) /\ t \in Threads
                               /\ Active(core[c], t) /\ t \in Retiring(core[c])
        BY <1>3, <1>5, <2>2, OverStep
      <3>. DEFINE k == core[c]
                  w == Wires(c)
                  n == core'[c]
                  own == Touched(p, trace, w.block, t)
      <3>2. /\ n = CoreNext(k, w) /\ StraightEdge(k, w, p) /\ FromTheStart(k)
            /\ w.block = core_block_id[c]
        BY <1>1, CoreEdge DEF AllInStep, LanesInStep, Wires
      <3>3. g[1] = w.block /\ ReadsAndWrites(job, g) = own
        <4>1. g[1] = w.block
          BY <3>1, <3>2 DEF ThreadOf
        <4>. QED BY <4>1 DEF ReadsAndWrites
      <3>4. Reference(p, job.words, trace, w.block, t, StepBound)
        BY <1>1, <3>3, ReferenceOf
      <3>5. LaneMemory(k, w, t, memory, memory', own)
        <4>1. LaneMemory(k, w, t, memory, memory', ReadsAndWrites(job, ThreadOf(c, t)))
          BY <1>1, <3>1, LaneMemoryOf
        <4>. QED BY <3>1, <3>3, <4>1
      <3>6. InStep(k, t, memory, p, trace, w.block)
        <4>1. InStep(core[c], t, memory, job.program, Traces[job][ThreadOf(c, t)], core_block_id[c])
          BY <3>1 DEF AllInStep, LanesInStep
        <4>. QED BY <3>1, <3>2, <4>1
      <3>7. t \in Threads /\ Active(k, t) /\ t \in Retiring(k)
        BY <3>1
      <3>. HIDE DEF p, trace, k, w, n, t
      <3>8. AsLeft(p, trace, own, memory')
        BY <3>2, <3>4, <3>5, <3>6, <3>7, LaneRetires
      <3>. QED BY <3>3, <3>8 DEF trace
    <2>. QED BY <2>1, <2>2
  <1>. QED BY <1>1, <1>2, <1>4, <1>5 DEF WordsInStep

\* When the dispatcher reports completion, each block has run.
LEMMA AllBlocksRan ==
  ASSUME DP!IInv, Complete, NEW g \in Launchable, Launched(g)
  PROVE  g[1] \in RanBlocks
  <1>0. BlockDim \in Nat \ {0} /\ MaxThreads \in Nat
    BY CoresAssumption, CountsAssumption
  <1>1. /\ dispatch_state = "BUSY" /\ block_id_n = block_id
        /\ \A c \in Cores : core_state[c] = "IDLE_C"
    BY DEF Complete, D!Report, D!AllCoresIdle, D!IdleCores, D!Cores, Cores
  <1>2. DP!Active = {}
    <2>1. DP!Cores = Cores
      BY DEF DP!Cores, Cores
    <2>. QED BY <1>1, <2>1 DEF DP!Active, DP!BusyCores, DP!IdleCores
  <1>3. ran = DP!HandedOut /\ block_id = DP!NumBlocks /\ DP!TypeOK
    BY <1>1, <1>2 DEF DP!IInv, DP!ExactlyOnce, DP!Phases
  <1>4. /\ block_id \in Nat /\ thread_count \in Nat /\ thread_count <= BlockDim * block_id
    <2>1. block_id \in 0 .. MaxThreads /\ thread_count \in 0 .. MaxThreads
      BY <1>3 DEF DP!TypeOK
    <2>. QED BY <1>3, <2>1, DP!NumBlocksBounds, CoresAssumption, CountsAssumption
  <1>5. g[1] \in Nat /\ g[2] \in Nat
    BY DEF Launchable, Grid, Threads
  <1>6. g[1] < block_id
    <2>. DEFINE b == g[1]
                t == g[2]
    <2>1. b \in Nat /\ t \in Nat /\ b * BlockDim + t < thread_count
      BY <1>5 DEF Launched
    <2>. HIDE DEF b, t
    <2>2. b < block_id
      <3>. SUFFICES ASSUME block_id <= b PROVE FALSE
        BY <1>4, <2>1
      <3>1. BlockDim * block_id <= b * BlockDim
        BY <1>0, <1>4, <2>1
      <3>. QED BY <1>0, <1>4, <2>1, <3>1
    <2>. QED BY <2>2 DEF b
  <1>7. <<g[1], DP!BlockThreads(g[1])>> \in ran
    BY <1>1, <1>3, <1>4, <1>5, <1>6 DEF DP!HandedOut
  <1>. QED BY <1>7 DEF RanBlocks

\* The host launches with a count it has written, once, and sees it through.
LEMMA LaunchCountedStep ==
  ASSUME DP!IInv, LaunchCounted, [Next]_vars
  PROVE  LaunchCounted'
  <1>1. CASE NewGpu
    BY <1>1 DEF NewGpu, D!Reset, LaunchCounted
  <1>2. ASSUME NEW n \in ThreadCounts, SetThreadCount(n) PROVE LaunchCounted'
    BY <1>2 DEF SetThreadCount, LaunchCounted
  <1>3. CASE Start
    BY <1>3 DEF Start, LaunchCounted
  <1>4. CASE Cycle
    <2>1. start /\ start' = start /\ thread_count' = thread_count /\ done_' = done_
      BY <1>4, DispatchFacts DEF Cycle, D!HandOut
    <2>2. done_ => \A g \in Launchable : Launched(g)' => g[1] \in RanBlocks'
      BY <1>4, <2>1 DEF Cycle, LaunchCounted, Launched, RanBlocks
    <2>. QED BY <2>1, <2>2 DEF LaunchCounted
  <1>5. CASE Complete
    <2>1. start' = start /\ thread_count' = thread_count /\ done_' /\ ran' = ran
      BY <1>5 DEF Complete
    <2>2. \A g \in Launchable : Launched(g)' => g[1] \in RanBlocks'
      BY <1>5, <2>1, AllBlocksRan DEF Launched, RanBlocks
    <2>. QED BY <2>1, <2>2 DEF LaunchCounted
  <1>6. CASE Finish
    BY <1>6 DEF Finish, LaunchCounted, Launched, RanBlocks
  <1>7. CASE UNCHANGED vars
    BY <1>7 DEF vars, LaunchCounted, Launched, RanBlocks
  <1>. QED BY <1>1, <1>2, <1>3, <1>4, <1>5, <1>6, <1>7 DEF Next

\* A core out of reset has no lane at work, and its lanes are at rest.
LEMMA SequentialReset ==
  ASSUME SoundKernels, NEW j \in Kernels, NEW k, k = ResetCore
  PROVE  /\ IsMemory(j.words) /\ ~k.running /\ FromTheStart(k)
         /\ \A t \in Threads : Quiet(k.lane[t]) /\ IsRegisters(k.lane[t]) /\ ~Active(k, t)
  <1>1. \A t \in Threads : k.lane[t] = ResetLane
    BY DEF ResetCore
  <1>2. ~k.running /\ k.pc = 0
    BY DEF ResetCore
  <1>3. Quiet(ResetLane) /\ IsRegisters(ResetLane)
    BY DEF Quiet, IdleOps, IsRegisters, ResetLane, NoOperands, NoItem
  <1>4. IsMemory(j.words)
    BY DEF SoundKernels, SoundKernel
  <1>. QED BY <1>1, <1>2, <1>3, <1>4 DEF FromTheStart, Active

\* Out of reset memory holds the kernel's input.
LEMMA SequentialInitial == SoundKernels /\ Init => SequentialInv
  <1>. SUFFICES ASSUME SoundKernels, Init PROVE SequentialInv
    OBVIOUS
  <1>1. /\ job \in Kernels /\ memory = job.words /\ ran = {} /\ thread_count = 0 /\ ~done_
        /\ \A c \in Cores : core[c] = ResetCore
    BY DEF Init, D!Init
  <1>2. /\ IsMemory(memory) /\ \A c \in Cores : ~core[c].running /\ FromTheStart(core[c])
        /\ \A c \in Cores, t \in Threads : /\ Quiet(core[c].lane[t]) /\ IsRegisters(core[c].lane[t])
                                           /\ ~Active(core[c], t)
    BY <1>1, SequentialReset
  <1>3. \A g : ~Over(g)
    BY <1>1, <1>2 DEF Over, RanBlocks, RunsOn
  <1>. QED BY <1>1, <1>2, <1>3
           DEF SequentialInv, LaunchCounted, LanesCounted, LanesInStep, WordsInStep

\* A new GPU starts with its kernel's input.
LEMMA SequentialNewGpu ==
  ASSUME SoundKernels, NewGpu
  PROVE  LanesCounted' /\ LanesInStep' /\ WordsInStep'
  <1>1. /\ job' \in Kernels /\ memory' = job'.words /\ ran' = {}
        /\ \A c \in Cores : core'[c] = ResetCore
    BY DEF NewGpu, D!Reset
  <1>2. /\ IsMemory(memory') /\ \A c \in Cores : ~core'[c].running /\ FromTheStart(core'[c])
        /\ \A c \in Cores, t \in Threads : /\ Quiet(core'[c].lane[t])
                                           /\ IsRegisters(core'[c].lane[t])
                                           /\ ~Active(core'[c], t)
    BY <1>1, SequentialReset
  <1>3. \A g : ~Over(g)'
    BY <1>1, <1>2 DEF Over, RanBlocks, RunsOn
  <1>. QED BY <1>1, <1>2, <1>3 DEF LanesCounted, LanesInStep, WordsInStep

\* An edge, and a new GPU, keep every lane and every word in step with the threads.
LEMMA SequentialNext ==
  SoundKernels /\ DP!IInv /\ HeldInv /\ StraightInv /\ SequentialInv /\ [Next]_vars
    => SequentialInv'
  <1>. SUFFICES ASSUME SoundKernels, DP!IInv, HeldInv, StraightInv, SequentialInv, [Next]_vars
                PROVE  SequentialInv'
    OBVIOUS
  <1>1. AllInStep /\ WordsInStep /\ LaunchCounted'
    BY LaunchCountedStep DEF AllInStep, SequentialInv
  <1>2. CASE NewGpu
    BY <1>1, <1>2, SequentialNewGpu DEF SequentialInv
  <1>3. CASE Cycle
    <2>1. Edge
      BY <1>3 DEF Cycle
    <2>. QED BY <1>1, <1>3, <2>1, LanesCountedStep, LanesStep, CycleWords DEF SequentialInv
  <1>4. ASSUME Edge, \A c \in Cores : core_state[c] = "IDLE_C",
               ran' = ran, ran # {} => thread_count' = thread_count
        PROVE  SequentialInv'
    BY <1>1, <1>4, LanesCountedStep, LanesStep, IdleWords DEF SequentialInv
  <1>5. ~start /\ ~done_ => ran = {}
    BY DEF SequentialInv, LaunchCounted
  <1>6. ASSUME NEW n \in ThreadCounts, SetThreadCount(n) PROVE SequentialInv'
    <2>1. \A c \in Cores : core_state[c] = "IDLE_C"
      BY <1>6, DispatchFacts DEF SetThreadCount
    <2>. QED BY <1>4, <1>5, <1>6, <2>1 DEF SetThreadCount
  <1>7. CASE Start
    <2>1. \A c \in Cores : core_state[c] = "IDLE_C"
      BY <1>7, DispatchFacts DEF Start
    <2>. QED BY <1>4, <1>5, <1>7, <2>1 DEF Start
  <1>8. CASE Complete
    <2>1. \A c \in Cores : core_state[c] = "IDLE_C"
      BY <1>8 DEF Complete, D!Report, D!AllCoresIdle, D!IdleCores, D!Cores, Cores
    <2>. QED BY <1>4, <1>8, <2>1 DEF Complete
  <1>9. CASE Finish
    <2>1. \A c \in Cores : core_state[c] = "IDLE_C"
      BY <1>9, DispatchFacts DEF Finish, D!Rearm
    <2>. QED BY <1>4, <1>9, <2>1 DEF Finish
  <1>10. CASE UNCHANGED vars
    <2>1. UNCHANGED <<job, memory, done_, thread_count, start, ran, core, core_block_id,
                      core_thread_count>>
      BY <1>10 DEF vars, dispatchVars
    <2>2. LaunchCounted' /\ LanesCounted'
      BY <2>1 DEF SequentialInv, LaunchCounted, LanesCounted, Launched, RanBlocks
    <2>3. LanesInStep'
      BY <2>1 DEF SequentialInv, LanesInStep, ThreadOf
    <2>4. WordsInStep'
      BY <2>1 DEF SequentialInv, WordsInStep, Unwritten, Launched, Untouched, Over, RanBlocks,
                  RunsOn
    <2>. QED BY <2>2, <2>3, <2>4 DEF SequentialInv
  <1>. QED BY <1>2, <1>3, <1>6, <1>7, <1>8, <1>9, <1>10 DEF Next

\* What a thread leaves alone is in memory at its RET, and is its input where it
\* stores nothing.
LEMMA AloneFacts ==
  ASSUME SoundKernels, NEW j \in Kernels, NEW g \in Launchable, NEW a \in Word
  PROVE  /\ Alone[j][g][a] = Traces[j][g][Len(j.program)].memory[a]
         /\ a \notin Writes(j, g) => Alone[j][g][a] = j.words[a]
  <1>. DEFINE trace == Traces[j][g]
              p == j.program
  <1>1. /\ Reference(p, j.words, trace, g[1], g[2], StepBound)
        /\ Straight(trace, p, j.words, StepBound)
        /\ Len(p) \in 1 .. StepBound /\ StepBound \in Nat
    BY ReferenceOf
  <1>2. Alone[j][g] = trace[StepBound].memory
    BY DEF Alone, Launchable
  <1>3. trace[StepBound].memory = trace[Len(p)].memory
    <2>1. StepBound \in 0 .. StepBound /\ Len(p) > 0 /\ StepBound >= Len(p)
      BY <1>1
    <2>. QED BY <1>1, <2>1 DEF Straight
  <1>4. ASSUME a \notin StoredTo(p, trace, g[1], g[2])
        PROVE  trace[StepBound].memory[a] = j.words[a]
    <2>. HIDE DEF trace, p
    <2>1. Len(p) > 0 /\ StepBound \in 0 .. StepBound
      BY <1>1
    <2>2. KeepsWord(trace, j.words, StepBound, a)
      BY <1>1, <1>4, <2>1, OnlyStored DEF Reference
    <2>. QED BY <2>1, <2>2 DEF KeepsWord
  <1>. QED BY <1>2, <1>3, <1>4 DEF Writes

\* When the launch is done each of its threads is over.
LEMMA DoneIsSequential ==
  SoundKernels /\ DP!IInv /\ StraightInv /\ SequentialInv => ResultIsSequential
  <1>. SUFFICES ASSUME SoundKernels, DP!IInv, StraightInv, SequentialInv, done_
                PROVE  memory = Expected[job][thread_count]
    BY DEF ResultIsSequential
  <1>1. /\ job \in Kernels /\ LaunchCounted /\ thread_count \in ThreadCounts \cup {0}
        /\ memory = [a \in Word |-> memory[a]]
    BY DEF StraightInv, SequentialInv, LaunchCounted, WordsInStep, IsMemory
  <1>. DEFINE Writers(a) == {g \in Grid : /\ g[1] * BlockDim + g[2] < thread_count
                                          /\ Alone[job][g][a] # job.words[a]}
              Result(a) == IF Writers(a) = {} THEN job.words[a]
                           ELSE Alone[job][CHOOSE g \in Writers(a) : TRUE][a]
  <1>2. Expected[job][thread_count] = [a \in Word |-> Result(a)]
    BY <1>1 DEF Expected
  <1>3. ASSUME NEW g \in Grid, g[1] * BlockDim + g[2] < thread_count
        PROVE  g \in Launchable /\ Launched(g)
    <2>1. g[1] \in Nat /\ g[2] \in Threads /\ g = <<g[1], g[2]>> /\ Launched(g)
      BY <1>3 DEF Grid, Launched
    <2>. QED BY <1>1, <2>1, LaunchedOfGrid
  <1>4. ASSUME NEW g \in Launchable, Launched(g), NEW a \in Writes(job, g)
        PROVE  memory[a] = Alone[job][g][a]
    <2>1. g[1] \in RanBlocks
      BY <1>1, <1>4 DEF LaunchCounted
    <2>2. AsLeft(job.program, Traces[job][g], ReadsAndWrites(job, g), memory)
      BY <1>4, <2>1 DEF SequentialInv, WordsInStep, Over
    <2>3. a \in ReadsAndWrites(job, g) /\ a \in Word
      BY <1>1, ReferenceOf
    <2>. QED BY <1>1, <2>2, <2>3, AloneFacts DEF AsLeft
  <1>5. ASSUME NEW a \in Word PROVE memory[a] = Result(a)
    <2>1. CASE Writers(a) = {}
      <3>1. CASE Unwritten(a)
        BY <2>1, <3>1 DEF SequentialInv, WordsInStep
      <3>2. CASE ~Unwritten(a)
        <4>1. PICK g \in Launchable : a \in Writes(job, g) /\ Launched(g)
          BY <3>2 DEF Unwritten
        <4>2. Alone[job][g][a] = job.words[a]
          BY <2>1, <4>1 DEF Launchable, Launched
        <4>. QED BY <1>4, <2>1, <4>1, <4>2
      <3>. QED BY <3>1, <3>2
    <2>2. CASE Writers(a) # {}
      <3>. DEFINE g == CHOOSE g \in Writers(a) : TRUE
      <3>1. g \in Writers(a)
        BY <2>2
      <3>2. Result(a) = Alone[job][g][a]
        BY <2>2
      <3>. HIDE DEF g
      <3>3. /\ g \in Grid /\ g[1] * BlockDim + g[2] < thread_count
            /\ Alone[job][g][a] # job.words[a]
        BY <3>1
      <3>4. g \in Launchable /\ Launched(g)
        BY <1>3, <3>3
      <3>5. a \in Writes(job, g)
        BY <1>1, <3>3, <3>4, AloneFacts
      <3>. HIDE DEF Result, Writers
      <3>. QED BY <1>4, <3>2, <3>4, <3>5
    <2>. QED BY <2>1, <2>2
  <1>. HIDE DEF Result
  <1>. QED BY <1>1, <1>2, <1>5

\* For kernels without branches and races: the data memory the host copies out
\* is the one that the launched threads leave one by one, for any numbers of
\* cores, lanes and channels and any thread count.  Cores and lanes that share
\* channels lose, repeat and cross no access.
THEOREM KernelResult == ASSUME SoundKernels PROVE Spec => []ResultIsSequential
  <1>1. StraightKernels
    BY SoundKernels, SoundIsStraight
  <1>. QED BY <1>1, SoundKernels, DispatchInvariance, HeldInvariance, StraightInvariance,
              SequentialInitial, SequentialNext, DoneIsSequential, PTL DEF Spec
=============================================================================
