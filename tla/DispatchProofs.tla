--------------------------- MODULE DispatchProofs ---------------------------
(***************************************************************************)
(* Theorems about Dispatch, for every number of cores, every block size    *)
(* and every thread count.                                                 *)
(***************************************************************************)
EXTENDS Dispatch, Ranks, FiniteSetTheorems, TLAPS

-----------------------------------------------------------------------------
(* Arithmetic of the block count.                                          *)

\* Euclidean division, as the solver needs it.
LEMMA DivFacts ==
  ASSUME NEW m \in Nat, NEW t \in Nat \ {0}
  PROVE  /\ m \div t \in Nat
         /\ t * (m \div t) <= m
         /\ m < t * (m \div t) + t
  OBVIOUS

\* Rounding up: q blocks of t cover n threads, one block fewer does not.
LEMMA CeilingDivision ==
  ASSUME NEW n \in Nat, NEW t \in Nat \ {0}, NEW q, q = (n + t - 1) \div t
  PROVE  /\ q \in 0 .. n
         /\ n <= t * q
         /\ q > 0 => t * q < n + t
  <1>1. q \in Nat /\ t * q <= n + t - 1 /\ n + t - 1 < t * q + t
    BY DivFacts
  <1>2. q <= n
    <2>1. SUFFICES ASSUME q >= n + 1 PROVE FALSE
      BY <1>1
    <2>2. t * q >= t * (n + 1)
      BY <1>1, <2>1
    <2>3. t * (n + 1) = t * n + t
      OBVIOUS
    <2>4. t * n >= n
      OBVIOUS
    <2>. QED BY <1>1, <2>2, <2>3, <2>4
  <1>. QED BY <1>1, <1>2

-----------------------------------------------------------------------------
(* The dispatcher's own helpers.                                           *)

\* The number of blocks is the thread count divided by the block size, rounded up.
LEMMA NumBlocksBounds ==
  ASSUME TypeOK
  PROVE  /\ NumBlocks \in 0 .. thread_count
         /\ thread_count <= ThreadsPerBlock * NumBlocks
         /\ NumBlocks > 0 => ThreadsPerBlock * NumBlocks < thread_count + ThreadsPerBlock
  <1>1. ThreadsPerBlock \in Nat \ {0} /\ thread_count \in Nat
    BY BlockSizeAssumption, WidthAssumption DEF TypeOK
  <1>. QED BY <1>1, CeilingDivision DEF NumBlocks

\* No block is empty and none is larger than its lanes, so the core's lane
\* count never truncates.
LEMMA BlockCount ==
  ASSUME TypeOK
  PROVE  /\ NumBlocks \in 0 .. MaxThreads
         /\ block_id = NumBlocks =>
              \A b \in 0 .. block_id - 1 : BlockThreads(b) \in 1 .. ThreadsPerBlock
  <1>. DEFINE t == ThreadsPerBlock
  <1>1. t \in Nat \ {0} /\ thread_count \in Nat /\ thread_count <= MaxThreads /\ MaxThreads \in Nat
    BY BlockSizeAssumption, WidthAssumption DEF TypeOK
  <1>. HIDE DEF t
  <1>2. /\ NumBlocks \in 0 .. thread_count
        /\ thread_count <= t * NumBlocks
        /\ NumBlocks > 0 => t * NumBlocks < thread_count + t
    BY NumBlocksBounds DEF t
  <1>3. ASSUME block_id = NumBlocks, NEW b \in 0 .. block_id - 1
        PROVE  BlockThreads(b) \in 1 .. ThreadsPerBlock
    <2>1. CASE b + 1 = block_id
      <3>1. t * NumBlocks = b * t + t
        BY <1>1, <1>2, <1>3, <2>1
      <3>2. b * t \in Int /\ NumBlocks > 0
        BY <1>1, <1>2, <1>3
      <3>3. thread_count - b * t \in 1 .. t
        BY <1>1, <1>2, <3>1, <3>2
      <3>. QED BY <2>1, <3>3 DEF BlockThreads, t
    <2>2. CASE b + 1 # block_id
      BY <1>1, <2>2 DEF BlockThreads, t
    <2>. QED BY <2>1, <2>2
  <1>. QED BY <1>1, <1>2, <1>3

\* One pass of the loop hands the blocks block_id_n .. NextBlock - 1, each to
\* one core.
LEMMA LoopPass ==
  ASSUME TypeOK, block_id_n <= block_id
  PROVE  /\ NextBlock \in block_id_n .. block_id
         /\ \A c \in Cores : Takes(c) => Slot(c) \in block_id_n .. NextBlock - 1
         /\ \A b \in block_id_n .. NextBlock - 1 : \E c \in Cores : Takes(c) /\ Slot(c) = b
         /\ \A c, d \in Cores : Takes(c) /\ Takes(d) /\ Slot(c) = Slot(d) => c = d
  <1>. DEFINE card == Cardinality(IdleCores)
  <1>1. /\ NumCores \in Nat /\ IdleCores \in SUBSET (0 .. NumCores - 1)
        /\ IdleCores \subseteq Cores /\ \A c \in Cores : c \in Int
        /\ block_id \in Nat /\ block_id_n \in Nat
    BY NumCoresAssumption DEF Cores, IdleCores, TypeOK
  <1>2. card \in Nat
    BY <1>1, BelowFinite
  <1>3. \A c \in IdleCores :
          /\ Rank(IdleCores, c) \in 0 .. card - 1
          /\ \A d \in IdleCores : c < d => Rank(IdleCores, c) < Rank(IdleCores, d)
    BY <1>1, RankBounds
  <1>4. \A k \in 0 .. card - 1 : \E c \in IdleCores : Rank(IdleCores, c) = k
    BY <1>1, RankOnto
  <1>5. \A c : Slot(c) = block_id_n + Rank(IdleCores, c)
    BY DEF Slot, Rank
  <1>6. NextBlock = IF block_id_n + card < block_id THEN block_id_n + card ELSE block_id
    BY DEF NextBlock
  <1>. HIDE DEF card
  <1>7. NextBlock \in block_id_n .. block_id
    BY <1>1, <1>2, <1>6
  <1>8. ASSUME NEW c \in Cores, Takes(c) PROVE Slot(c) \in block_id_n .. NextBlock - 1
    <2>1. c \in IdleCores /\ Slot(c) < block_id
      BY <1>8 DEF Takes
    <2>. QED BY <1>1, <1>2, <1>3, <1>5, <1>6, <2>1
  <1>9. ASSUME NEW b \in block_id_n .. NextBlock - 1
        PROVE  \E c \in Cores : Takes(c) /\ Slot(c) = b
    <2>1. b - block_id_n \in 0 .. card - 1 /\ b < block_id /\ b \in Int
      BY <1>1, <1>2, <1>6
    <2>2. PICK c \in IdleCores : Rank(IdleCores, c) = b - block_id_n
      BY <1>4, <2>1
    <2>3. Slot(c) = b
      BY <1>1, <1>5, <2>1, <2>2
    <2>. QED BY <1>1, <2>1, <2>2, <2>3 DEF Takes
  <1>10. ASSUME NEW c \in Cores, NEW d \in Cores, Takes(c), Takes(d), Slot(c) = Slot(d)
         PROVE  c = d
    <2>1. c \in IdleCores /\ d \in IdleCores
      BY <1>10 DEF Takes
    <2>2. Rank(IdleCores, c) \in Int /\ Rank(IdleCores, d) \in Int
      BY <1>2, <1>3, <2>1
    <2>3. Rank(IdleCores, c) = Rank(IdleCores, d)
      <3>1. block_id_n + Rank(IdleCores, c) = block_id_n + Rank(IdleCores, d)
        BY <1>5, <1>10, Zenon
      <3>. QED BY <1>1, <2>2, <3>1
    <2>4. ~(c < d) /\ ~(d < c)
      BY <1>3, <2>1, <2>2, <2>3
    <2>. QED BY <1>1, <2>4
  <1>. QED BY <1>7, <1>8, <1>9, <1>10

\* A busy core works on a block that has been handed out, with its lane count.
LEMMA BusyCoreJob ==
  ASSUME IInv, dispatch_state # "IDLE", NEW c \in BusyCores
  PROVE  /\ core_block_id[c] \in 0 .. block_id_n - 1
         /\ core_thread_count[c] = BlockThreads(core_block_id[c])
         /\ core_thread_count[c] # 0
         /\ Job(c) \in HandedOut
  <1>1. Job(c) \in HandedOut
    BY DEF IInv, ExactlyOnce, Active
  <1>2. PICK b \in 0 .. block_id_n - 1 : Job(c) = <<b, BlockThreads(b)>>
    BY <1>1 DEF HandedOut
  <1>3. core_block_id[c] = b /\ core_thread_count[c] = BlockThreads(b)
    BY <1>2 DEF Job
  <1>4. b \in 0 .. block_id - 1
    BY DEF IInv, ExactlyOnce, TypeOK
  <1>5. BlockThreads(b) # 0
    BY <1>4, BlockCount, BlockSizeAssumption DEF IInv, Phases
  <1>. QED BY <1>1, <1>3, <1>5

-----------------------------------------------------------------------------
(* The invariant.                                                          *)

\* Reset state: no core works, nothing is handed out (dispatch.sv:127-138).
LEMMA InitInv == Init => IInv
  <1>. SUFFICES ASSUME Init PROVE IInv
    OBVIOUS
  <1>. USE DEF Init
  <1>0. 0 \in 0 .. MaxThreads /\ 0 \in 0 .. ThreadsPerBlock
    BY BlockSizeAssumption, WidthAssumption
  <1>1. TypeOK
    BY <1>0 DEF TypeOK
  <1>2. Handshake
    BY DEF Handshake
  <1>3. Phases
    BY DEF Phases, AllCoresIdle, IdleCores
  <1>4. ExactlyOnce
    BY DEF ExactlyOnce
  <1>. QED BY <1>1, <1>2, <1>3, <1>4 DEF IInv

\* A synchronous reset in the middle of a launch restores the invariant.
LEMMA ResetInv == IInv /\ Reset => IInv'
  <1>. SUFFICES ASSUME IInv, Reset PROVE IInv'
    OBVIOUS
  <1>. USE DEF Reset, Quiesce
  <1>0. 0 \in 0 .. MaxThreads /\ 0 \in 0 .. ThreadsPerBlock
    BY BlockSizeAssumption, WidthAssumption
  <1>1. TypeOK'
    BY <1>0 DEF TypeOK
  <1>2. Handshake'
    BY DEF Handshake
  <1>3. Phases'
    BY DEF Phases, AllCoresIdle, IdleCores
  <1>4. ExactlyOnce'
    BY DEF ExactlyOnce
  <1>. QED BY <1>1, <1>2, <1>3, <1>4 DEF IInv

\* Outside a launch no core runs or sees a start edge.
LEMMA QuietCores ==
  ASSUME IInv, dispatch_state # "BUSY" \/ AllCoresIdle
  PROVE  /\ IdleCores = Cores
         /\ \A c \in Cores : ~core_start[c] /\ ~running[c] /\ core_state[c] = "IDLE_C"
         /\ \A fin : CoresTick(fin) =>
               \A c \in Cores : ~running'[c] /\ ~start_q'[c]
  <1>1. IdleCores = Cores
    BY DEF IInv, Phases, AllCoresIdle
  <1>2. \A c \in Cores : ~core_start[c] /\ ~running[c] /\ core_state[c] = "IDLE_C"
    BY <1>1 DEF IInv, Handshake, IdleCores
  <1>3. ASSUME NEW fin, CoresTick(fin), NEW c \in Cores
        PROVE  ~running'[c] /\ ~start_q'[c]
    BY <1>2, <1>3 DEF CoresTick, StartEdge
  <1>. QED BY <1>1, <1>2, <1>3

\* A clock edge keeps the types of the cores' registers (core.sv:219-234).
LEMMA CoresTickType ==
  ASSUME TypeOK, NEW fin, CoresTick(fin)
  PROVE  start_q' \in [Cores -> BOOLEAN] /\ running' \in [Cores -> BOOLEAN]
  <1>1. start_q' \in [Cores -> BOOLEAN]
    BY DEF TypeOK, CoresTick
  <1>2. \A c \in Cores : (IF StartEdge(c) THEN core_thread_count[c] # 0
                          ELSE running[c] /\ c \notin fin) \in BOOLEAN
    BY DEF TypeOK
  <1>. QED BY <1>1, <1>2 DEF CoresTick

\* A write of the control register between launches (dcr.sv:18-27).
LEMMA WriteInv ==
  ASSUME IInv, NEW n \in ThreadCounts, WriteThreadCount(n) PROVE IInv'
  <1>. USE DEF WriteThreadCount, dispatchVars
  <1>1. TypeOK'
    BY CoresTickType, WidthAssumption DEF TypeOK, IInv
  <1>2. Handshake'
    BY QuietCores DEF Handshake
  <1>3. Phases'
    BY QuietCores DEF IInv, Phases, AllCoresIdle, IdleCores
  <1>4. ExactlyOnce'
    BY DEF ExactlyOnce
  <1>. QED BY <1>1, <1>2, <1>3, <1>4 DEF IInv

\* The start of a launch computes the block count and clears the rest
\* (dispatch.sv:74-86).
LEMMA LaunchInv == ASSUME IInv, Launch PROVE IInv'
  <1>. USE DEF Launch, Open, Quiesce
  <1>1. NumBlocks \in 0 .. MaxThreads /\ NumBlocks' = NumBlocks
    BY BlockCount DEF IInv, NumBlocks
  <1>2. TypeOK'
    BY <1>1, CoresTickType, BlockSizeAssumption, WidthAssumption DEF TypeOK, IInv
  <1>3. Handshake'
    BY QuietCores DEF Handshake
  <1>4. Phases'
    BY <1>1 DEF IInv, Phases
  <1>5. BusyCores' = {}
    BY DEF BusyCores, IdleCores
  <1>6. Active' = {} /\ HandedOut' = {}
    BY <1>5 DEF Active, HandedOut
  <1>7. ExactlyOnce'
    BY <1>1, <1>5, <1>6 DEF ExactlyOnce
  <1>. QED BY <1>2, <1>3, <1>4, <1>7 DEF IInv

\* Reporting completion (dispatch.sv:88-91).
LEMMA CompleteInv == ASSUME IInv, Complete PROVE IInv'
  <1>. USE DEF Complete, Report
  <1>1. TypeOK'
    BY CoresTickType DEF TypeOK, IInv
  <1>2. Handshake'
    BY QuietCores DEF Handshake
  <1>3. Phases'
    BY DEF IInv, Phases, AllCoresIdle, IdleCores, NumBlocks
  <1>4. ExactlyOnce'
    <2>1. HandedOut' = HandedOut /\ BusyCores' = BusyCores
      BY DEF HandedOut, BlockThreads, BusyCores, IdleCores
    <2>2. Active' = Active
      BY <2>1 DEF Active, Job
    <2>. QED BY <2>1, <2>2 DEF IInv, ExactlyOnce
  <1>. QED BY <1>1, <1>2, <1>3, <1>4 DEF IInv

\* The host lowers start (dispatch.sv:118-123).
LEMMA ReleaseInv == ASSUME IInv, Release PROVE IInv'
  <1>. USE DEF Release, Rearm
  <1>1. TypeOK'
    BY CoresTickType DEF TypeOK, IInv
  <1>2. Handshake'
    BY QuietCores DEF Handshake
  <1>3. Phases'
    BY DEF IInv, Phases, AllCoresIdle, IdleCores
  <1>4. ExactlyOnce'
    BY DEF ExactlyOnce
  <1>. QED BY <1>1, <1>2, <1>3, <1>4 DEF IInv

\* The cores that may finish are busy ones past their start edge, and exactly
\* those that finish are released.
LEMMA FinishingCores ==
  ASSUME IInv, NEW fin, Assign(fin)
  PROVE  /\ fin \subseteq BusyCores
         /\ \A c \in fin : ~StartEdge(c)
         /\ Released(fin) = fin
  <1>1. \A c \in fin : c \in Cores /\ running[c] /\ ~StartEdge(c)
    BY DEF Assign, HandOut, CanFinish
  <1>2. \A c \in fin : c \in BusyCores /\ core_state[c] = "BUSY_C"
    BY <1>1 DEF IInv, Handshake, TypeOK, BusyCores, IdleCores
  <1>3. \A c \in fin : c \in Released(fin)
    BY <1>1, <1>2 DEF Released, CoreDone
  <1>4. ASSUME NEW c \in Released(fin) PROVE c \in fin
    <2>1. c \in BusyCores /\ CoreDone(c, fin)
      BY DEF Released, BusyCores, IdleCores
    <2>2. core_thread_count[c] # 0
      BY <2>1, BusyCoreJob DEF Assign, HandOut
    <2>. QED BY <2>1, <2>2 DEF CoreDone
  <1>. QED BY <1>1, <1>2, <1>3, <1>4

\* A busy cycle keeps every core in step with its start wire (dispatch.sv:92-116,
\* core.sv:169-191).
LEMMA AssignHandshake == ASSUME IInv, NEW fin, Assign(fin) PROVE Handshake'
  <1>1. /\ Released(fin) = fin /\ fin \subseteq BusyCores
        /\ \A c \in fin : ~StartEdge(c)
    BY FinishingCores
  <1>. SUFFICES ASSUME NEW c \in Cores
                PROVE  /\ core_start'[c] <=> core_state'[c] = "BUSY_C"
                       /\ core_state'[c] = "BUSY_C" => (running'[c] <=> start_q'[c])
                       /\ core_state'[c] = "IDLE_C" => ~running'[c]
    BY DEF Handshake
  <1>2. /\ core_state'[c] = IF Takes(c) THEN "BUSY_C"
                            ELSE IF c \in fin THEN "IDLE_C" ELSE core_state[c]
        /\ core_start'[c] <=> Takes(c) \/ (core_start[c] /\ c \notin fin)
        /\ start_q'[c] <=> core_start[c]
        /\ running'[c] <=> IF StartEdge(c) THEN core_thread_count[c] # 0
                           ELSE running[c] /\ c \notin fin
    BY <1>1 DEF Assign, HandOut, StartWire, CoresTick
  <1>3. /\ core_state[c] \in {"IDLE_C", "BUSY_C"}
        /\ core_start[c] <=> core_state[c] = "BUSY_C"
        /\ core_state[c] = "BUSY_C" => (running[c] <=> start_q[c])
        /\ core_state[c] = "IDLE_C" => ~running[c]
    BY DEF IInv, Handshake, TypeOK
  <1>4. CASE core_state[c] = "IDLE_C"
    <2>1. c \notin fin /\ ~StartEdge(c)
      BY <1>1, <1>3, <1>4 DEF BusyCores, IdleCores, StartEdge
    <2>. QED BY <1>2, <1>3, <1>4, <2>1
  <1>5. CASE core_state[c] = "BUSY_C"
    <2>1. ~Takes(c)
      BY <1>5 DEF Takes, IdleCores
    <2>2. core_thread_count[c] # 0
      BY <1>5, BusyCoreJob DEF Assign, HandOut, BusyCores, IdleCores
    <2>3. CASE c \in fin
      BY <1>1, <1>2, <2>1, <2>3
    <2>4. CASE c \notin fin
      BY <1>2, <1>3, <1>5, <2>1, <2>2, <2>4 DEF StartEdge
    <2>. QED BY <2>3, <2>4
  <1>. QED BY <1>3, <1>4, <1>5

\* What one busy cycle does to the set of busy cores and their jobs.
LEMMA AssignJobs ==
  ASSUME IInv, NEW fin, Assign(fin)
  PROVE  /\ BusyCores' = (BusyCores \ fin) \cup {c \in Cores : Takes(c)}
         /\ \A c \in Cores : Takes(c) => /\ core_block_id'[c] = Slot(c)
                                        /\ Job(c)' = <<Slot(c), BlockThreads(Slot(c))>>
         /\ \A c \in BusyCores : /\ ~Takes(c)
                                 /\ core_block_id'[c] = core_block_id[c]
                                 /\ Job(c)' = Job(c)
         /\ HandedOut' = {<<b, BlockThreads(b)>> : b \in 0 .. NextBlock - 1}
  <1>1. Released(fin) = fin /\ fin \subseteq BusyCores
    BY FinishingCores
  <1>2. BusyCores' = (BusyCores \ fin) \cup {c \in Cores : Takes(c)}
    <2>1. \A c \in Cores : core_state'[c] = IF Takes(c) THEN "BUSY_C"
                                           ELSE IF c \in fin THEN "IDLE_C" ELSE core_state[c]
      BY <1>1 DEF Assign, HandOut
    <2>. QED BY <2>1 DEF BusyCores, IdleCores
  <1>3. \A c \in BusyCores : c \in Cores /\ ~Takes(c)
    BY DEF BusyCores, Takes
  <1>4. \A c \in Cores :
          /\ core_block_id'[c] = IF Takes(c) THEN Slot(c) ELSE core_block_id[c]
          /\ core_thread_count'[c] = IF Takes(c) THEN BlockThreads(Slot(c))
                                     ELSE core_thread_count[c]
    BY DEF Assign, HandOut
  <1>5. HandedOut' = {<<b, BlockThreads(b)>> : b \in 0 .. NextBlock - 1}
    BY DEF HandedOut, BlockThreads, Assign, HandOut
  <1>. QED BY <1>2, <1>3, <1>4, <1>5 DEF Job

\* A busy cycle keeps the counters and wires in their ranges.
LEMMA AssignTypes == ASSUME IInv, NEW fin, Assign(fin) PROVE TypeOK'
  <1>1. /\ block_id_n <= block_id /\ block_id = NumBlocks /\ TypeOK
        /\ block_id \in 0 .. MaxThreads /\ block_id_n \in 0 .. MaxThreads
        /\ MaxThreads \in Nat
    BY WidthAssumption DEF IInv, ExactlyOnce, Phases, TypeOK, Assign, HandOut
  <1>2. NextBlock \in 0 .. MaxThreads
    BY <1>1, LoopPass
  <1>3. \A c \in Cores : Takes(c) => /\ Slot(c) \in 0 .. MaxThreads
                                    /\ BlockThreads(Slot(c)) \in 0 .. ThreadsPerBlock
    <2>. SUFFICES ASSUME NEW c \in Cores, Takes(c)
                  PROVE  /\ Slot(c) \in 0 .. MaxThreads
                         /\ BlockThreads(Slot(c)) \in 0 .. ThreadsPerBlock
      OBVIOUS
    <2>1. Slot(c) \in block_id_n .. NextBlock - 1 /\ NextBlock \in block_id_n .. block_id
      BY <1>1, LoopPass
    <2>2. Slot(c) \in 0 .. block_id - 1
      BY <1>1, <2>1
    <2>3. BlockThreads(Slot(c)) \in 1 .. ThreadsPerBlock
      BY <1>1, <2>2, BlockCount
    <2>. QED BY <1>1, <2>2, <2>3, BlockSizeAssumption
  <1>4. core_block_id' \in [Cores -> 0 .. MaxThreads]
    BY <1>1, <1>3 DEF Assign, HandOut, TypeOK
  <1>5. core_thread_count' \in [Cores -> 0 .. ThreadsPerBlock]
    BY <1>1, <1>3 DEF Assign, HandOut, TypeOK
  <1>6. core_state' \in [Cores -> {"IDLE_C", "BUSY_C"}]
    BY <1>1 DEF Assign, HandOut, TypeOK
  <1>7. core_start' \in [Cores -> BOOLEAN]
    <2>1. \A c \in Cores : StartWire(c, fin) \in BOOLEAN
      BY DEF StartWire
    <2>. QED BY <2>1 DEF Assign, HandOut
  <1>8. ran' \subseteq (0 .. MaxThreads) \X (0 .. ThreadsPerBlock)
    <2>1. \A c \in fin : c \in Cores
      BY DEF Assign, HandOut, CanFinish
    <2>2. \A c \in fin : Job(c) \in (0 .. MaxThreads) \X (0 .. ThreadsPerBlock)
      BY <1>1, <2>1 DEF Job, TypeOK
    <2>. QED BY <1>1, <2>2 DEF Assign, HandOut, TypeOK
  <1>9. start_q' \in [Cores -> BOOLEAN] /\ running' \in [Cores -> BOOLEAN]
    BY <1>1, CoresTickType DEF Assign, HandOut
  <1>. QED BY <1>1, <1>2, <1>4, <1>5, <1>6, <1>7, <1>8, <1>9 DEF Assign, HandOut, TypeOK

\* A job handed out now is none of those handed out before.
LEMMA FreshJobs ==
  ASSUME IInv, NEW fin, Assign(fin)
  PROVE  LET new == {<<b, BlockThreads(b)>> : b \in block_id_n .. NextBlock - 1}
         IN  /\ {Job(c)' : c \in {d \in Cores : Takes(d)}} = new
             /\ HandedOut' = HandedOut \cup new
             /\ HandedOut \cap new = {}
             /\ NextBlock \in block_id_n .. block_id
  <1>. DEFINE new == {<<b, BlockThreads(b)>> : b \in block_id_n .. NextBlock - 1}
  <1>1. TypeOK /\ block_id_n <= block_id /\ block_id_n \in Nat /\ block_id \in Nat
    BY DEF IInv, ExactlyOnce, TypeOK, Assign, HandOut
  <1>2. NextBlock \in block_id_n .. block_id
    BY <1>1, LoopPass
  <1>3. {Job(c)' : c \in {d \in Cores : Takes(d)}} = new
    <2>1. \A c \in Cores : Takes(c) => Job(c)' \in new
      BY <1>1, LoopPass, AssignJobs
    <2>2. ASSUME NEW b \in block_id_n .. NextBlock - 1
          PROVE  \E c \in {d \in Cores : Takes(d)} : Job(c)' = <<b, BlockThreads(b)>>
      <3>1. PICK c \in Cores : Takes(c) /\ Slot(c) = b
        BY <1>1, LoopPass
      <3>2. Job(c)' = <<Slot(c), BlockThreads(Slot(c))>>
        BY <3>1, AssignJobs
      <3>. QED BY <3>1, <3>2
    <2>. QED BY <2>1, <2>2
  <1>4. HandedOut' = HandedOut \cup new
    <2>1. HandedOut' = {<<b, BlockThreads(b)>> : b \in 0 .. NextBlock - 1}
      BY AssignJobs
    <2>2. 0 .. NextBlock - 1 = (0 .. block_id_n - 1) \cup (block_id_n .. NextBlock - 1)
      BY <1>1, <1>2
    <2>. QED BY <2>1, <2>2 DEF HandedOut
  <1>5. HandedOut \cap new = {}
    BY <1>1, <1>2 DEF HandedOut
  <1>. QED BY <1>2, <1>3, <1>4, <1>5

\* One busy cycle, on jobs: those of the finishing cores leave the active set
\* for good, and new ones enter it.
LEMMA AssignActive ==
  ASSUME IInv, NEW fin, Assign(fin)
  PROVE  LET new == {<<b, BlockThreads(b)>> : b \in block_id_n .. NextBlock - 1}
             ended == {Job(c) : c \in fin}
         IN  /\ ended \subseteq Active
             /\ Active' = (Active \ ended) \cup new
             /\ ran' = ran \cup ended
  <1>. DEFINE T == {c \in Cores : Takes(c)}
              new == {<<b, BlockThreads(b)>> : b \in block_id_n .. NextBlock - 1}
              kept == {Job(c) : c \in BusyCores \ fin}
              ended == {Job(c) : c \in fin}
  <1>1. {Job(c)' : c \in T} = new
    BY FreshJobs
  <1>2. /\ BusyCores' = (BusyCores \ fin) \cup T
        /\ \A c \in BusyCores : Job(c)' = Job(c)
    BY AssignJobs
  <1>3. fin \subseteq BusyCores
    BY FinishingCores
  <1>4. \A c, d \in BusyCores : c # d => core_block_id[c] # core_block_id[d]
    BY DEF IInv, ExactlyOnce, Assign, HandOut
  <1>5. Active = kept \cup ended
    BY <1>3 DEF Active
  <1>6. kept \cap ended = {}
    <2>. SUFFICES ASSUME NEW c \in BusyCores \ fin, NEW d \in fin, Job(c) = Job(d)
                  PROVE  FALSE
      OBVIOUS
    <2>1. core_block_id[c] = core_block_id[d]
      BY DEF Job
    <2>. QED BY <1>3, <1>4, <2>1
  <1>7. Active' = kept \cup new
    <2>1. Active' = {Job(c)' : c \in BusyCores'}
      BY DEF Active
    <2>2. Active' = {Job(c)' : c \in BusyCores \ fin} \cup {Job(c)' : c \in T}
      BY <1>2, <2>1
    <2>3. {Job(c)' : c \in BusyCores \ fin} = kept
      BY <1>2
    <2>. QED BY <1>1, <2>2, <2>3
  <1>8. ran' = ran \cup ended
    BY DEF Assign, HandOut
  <1>. HIDE DEF new, kept, ended
  <1>9. ended \subseteq Active /\ Active' = (Active \ ended) \cup new
    BY <1>5, <1>6, <1>7
  <1>. QED BY <1>8, <1>9 DEF new, ended

\* A busy cycle hands each block to one core and repeats none.
LEMMA AssignExactlyOnce == ASSUME IInv, NEW fin, Assign(fin) PROVE ExactlyOnce'
  <1>. DEFINE T == {c \in Cores : Takes(c)}
              new == {<<b, BlockThreads(b)>> : b \in block_id_n .. NextBlock - 1}
              ended == {Job(c) : c \in fin}
  <1>1. /\ HandedOut' = HandedOut \cup new /\ HandedOut \cap new = {}
        /\ NextBlock \in block_id_n .. block_id
    BY FreshJobs
  <1>2. /\ BusyCores' = (BusyCores \ fin) \cup T
        /\ \A c \in BusyCores : core_block_id'[c] = core_block_id[c]
        /\ \A c \in T : core_block_id'[c] = Slot(c)
    BY AssignJobs
  <1>4. /\ TypeOK /\ block_id_n <= block_id /\ block_id_n \in Nat /\ block_id \in Nat
        /\ ran \cup Active = HandedOut /\ ran \cap Active = {}
        /\ \A c, d \in BusyCores : c # d => core_block_id[c] # core_block_id[d]
        /\ dispatch_state = "BUSY"
    BY DEF IInv, ExactlyOnce, TypeOK, Assign, HandOut
  <1>7. /\ ended \subseteq Active /\ Active' = (Active \ ended) \cup new
        /\ ran' = ran \cup ended
    BY AssignActive
  <1>. HIDE DEF new, ended, T
  <1>9. ran' \cup Active' = HandedOut' /\ ran' \cap Active' = {}
    BY <1>1, <1>4, <1>7
  <1>10. block_id_n' <= block_id'
    BY <1>1, <1>4 DEF Assign, HandOut
  <1>11. ASSUME NEW c \in BusyCores', NEW d \in BusyCores', c # d
         PROVE  core_block_id'[c] # core_block_id'[d]
    <2>. USE DEF T
    <2>1. \A e \in BusyCores : core_block_id[e] \in 0 .. block_id_n - 1
      BY <1>4, BusyCoreJob
    <2>2. \A e \in T : Slot(e) \in block_id_n .. NextBlock - 1
      BY <1>4, LoopPass
    <2>3. \A e, g \in T : Slot(e) = Slot(g) => e = g
      BY <1>4, LoopPass
    <2>4. CASE c \in BusyCores /\ d \in BusyCores
      BY <1>2, <1>4, <1>11, <2>4
    <2>5. CASE c \in T /\ d \in T
      BY <1>2, <1>11, <2>3, <2>5
    <2>6. CASE c \in BusyCores /\ d \in T
      BY <1>1, <1>2, <1>4, <2>1, <2>2, <2>6
    <2>7. CASE c \in T /\ d \in BusyCores
      BY <1>1, <1>2, <1>4, <2>1, <2>2, <2>7
    <2>. QED BY <1>2, <1>11, <2>4, <2>5, <2>6, <2>7
  <1>. QED BY <1>9, <1>10, <1>11 DEF ExactlyOnce

\* A busy cycle preserves the invariant.
LEMMA AssignInv == ASSUME IInv, NEW fin, Assign(fin) PROVE IInv'
  <1>1. Phases'
    BY DEF IInv, Phases, Assign, HandOut, NumBlocks
  <1>. QED BY <1>1, AssignTypes, AssignHandshake, AssignExactlyOnce DEF IInv

\* The invariant depends on the variables alone.
LEMMA StutterInv == ASSUME IInv, UNCHANGED vars PROVE IInv'
  <1>. USE DEF vars, dispatchVars, coreVars
  <1>1. TypeOK' /\ Handshake'
    BY DEF IInv, TypeOK, Handshake
  <1>2. Phases'
    BY DEF IInv, Phases, AllCoresIdle, IdleCores, NumBlocks
  <1>3. HandedOut' = HandedOut /\ BusyCores' = BusyCores
    BY DEF HandedOut, BlockThreads, BusyCores, IdleCores
  <1>4. Active' = Active
    BY <1>3 DEF Active, Job
  <1>5. ExactlyOnce'
    BY <1>3, <1>4 DEF IInv, ExactlyOnce
  <1>. QED BY <1>1, <1>2, <1>5 DEF IInv

\* A step of the dispatcher, its cores or its host keeps the invariant.
LEMMA NextInv == ASSUME IInv, [Next]_vars PROVE IInv'
  <1>1. CASE Reset
    BY <1>1, ResetInv
  <1>2. ASSUME NEW n \in ThreadCounts, WriteThreadCount(n) PROVE IInv'
    BY <1>2, WriteInv
  <1>3. CASE Launch
    BY <1>3, LaunchInv
  <1>4. ASSUME NEW fin \in SUBSET Cores, Assign(fin) PROVE IInv'
    BY <1>4, AssignInv
  <1>5. CASE Complete
    BY <1>5, CompleteInv
  <1>6. CASE Release
    BY <1>6, ReleaseInv
  <1>7. CASE UNCHANGED vars
    BY <1>7, StutterInv
  <1>. QED BY <1>1, <1>2, <1>3, <1>4, <1>5, <1>6, <1>7 DEF Next

\* The inductive invariant holds in every reachable state: no block is lost,
\* doubled or given the wrong number of threads, and no core handshake wedges,
\* whatever the order in which the cores finish (dispatch.sv).
THEOREM Invariance == Spec => []IInv
  <1>1. IInv /\ [Next]_vars => IInv'
    BY NextInv
  <1>. QED BY <1>1, InitInv, PTL DEF Spec

\* Type correctness.
THEOREM TypeCorrect == Spec => []TypeOK
  <1>1. IInv => TypeOK
    BY DEF IInv
  <1>. QED BY <1>1, Invariance, PTL

\* The start/done handshake of every core stays live.
THEOREM HandshakeCorrect == Spec => []Handshake
  <1>1. IInv => Handshake
    BY DEF IInv
  <1>. QED BY <1>1, Invariance, PTL

\* Every block handed out is run by one core, once.
THEOREM ExactlyOnceCorrect == Spec => []ExactlyOnce
  <1>1. IInv => ExactlyOnce
    BY DEF IInv
  <1>. QED BY <1>1, Invariance, PTL

-----------------------------------------------------------------------------
(* Completion.                                                             *)

\* The jobs of a launch cover the thread ids below the thread count and no others.
LEMMA JobsCoverThreads ==
  ASSUME TypeOK, block_id = NumBlocks, block_id_n = block_id
  PROVE  KL!Threads(HandedOut) = 0 .. thread_count - 1
  <1>. DEFINE t == ThreadsPerBlock
              q == NumBlocks
  <1>1. t \in Nat \ {0} /\ thread_count \in Nat
    BY BlockSizeAssumption, WidthAssumption DEF TypeOK
  <1>3. \A i : i \in KL!Threads(HandedOut) <=>
               \E j \in HandedOut : \E lane \in 0 .. j[2] - 1 : i = j[1] * t + lane
    BY DEF KL!Threads
  <1>4. HandedOut = {<<b, BlockThreads(b)>> : b \in 0 .. q - 1}
    BY DEF HandedOut
  <1>5. \A b \in 0 .. q - 1 : BlockThreads(b) = IF b + 1 = q THEN thread_count - b * t ELSE t
    BY DEF BlockThreads
  <1>. HIDE DEF t, q
  <1>2. q \in Nat /\ thread_count <= t * q /\ (q > 0 => t * q < thread_count + t)
    <2>1. /\ q \in 0 .. thread_count /\ thread_count <= t * q
          /\ q > 0 => t * q < thread_count + t
      BY NumBlocksBounds DEF t, q
    <2>. QED BY <1>1, <2>1
  <1>6. ASSUME NEW b \in 0 .. q - 1, NEW lane \in 0 .. BlockThreads(b) - 1
        PROVE  b * t + lane \in 0 .. thread_count - 1
    <2>1. b * t \in Nat
      BY <1>1
    <2>2. CASE b + 1 = q
      BY <1>1, <1>2, <1>5, <2>1, <2>2
    <2>3. CASE b + 1 # q
      <3>1. b + 2 <= q /\ BlockThreads(b) = t
        BY <1>2, <1>5, <2>3
      <3>2. t * (b + 2) <= t * q
        BY <1>1, <1>2, <3>1
      <3>3. t * (b + 2) = b * t + t + t
        BY <1>1
      <3>. QED BY <1>1, <1>2, <2>1, <3>1, <3>2, <3>3
    <2>. QED BY <2>2, <2>3
  <1>7. ASSUME NEW i \in 0 .. thread_count - 1
        PROVE  \E b \in 0 .. q - 1 : \E lane \in 0 .. BlockThreads(b) - 1 : i = b * t + lane
    <2>. DEFINE b == i \div t
                lane == i - b * t
    <2>1. b \in Nat /\ t * b <= i /\ i < t * b + t
      BY <1>1, DivFacts
    <2>. HIDE DEF b
    <2>2. lane \in 0 .. t - 1 /\ i = b * t + lane
      BY <1>1, <2>1
    <2>3. b < q
      <3>1. SUFFICES ASSUME b >= q PROVE FALSE
        BY <1>2, <2>1
      <3>2. t * b >= t * q
        BY <1>1, <1>2, <2>1, <3>1
      <3>. QED BY <1>1, <1>2, <2>1, <3>2
    <2>4. lane \in 0 .. BlockThreads(b) - 1
      <3>1. CASE b + 1 = q
        BY <1>1, <1>2, <1>5, <2>1, <2>2, <2>3, <3>1
      <3>2. CASE b + 1 # q
        BY <1>2, <1>5, <2>1, <2>2, <2>3, <3>2
      <3>. QED BY <3>1, <3>2
    <2>5. b \in 0 .. q - 1
      BY <1>2, <2>1, <2>3
    <2>. QED BY <2>2, <2>4, <2>5
  <1>8. ASSUME NEW i, i \in KL!Threads(HandedOut) PROVE i \in 0 .. thread_count - 1
    <2>1. PICK j \in HandedOut : \E lane \in 0 .. j[2] - 1 : i = j[1] * t + lane
      BY <1>3, <1>8
    <2>2. PICK b \in 0 .. q - 1 : j = <<b, BlockThreads(b)>>
      BY <1>4
    <2>3. j[1] = b /\ j[2] = BlockThreads(b)
      BY <2>2
    <2>. QED BY <1>6, <2>1, <2>3
  <1>9. ASSUME NEW i \in 0 .. thread_count - 1 PROVE i \in KL!Threads(HandedOut)
    <2>1. PICK b \in 0 .. q - 1 : \E lane \in 0 .. BlockThreads(b) - 1 : i = b * t + lane
      BY <1>7
    <2>. DEFINE j == <<b, BlockThreads(b)>>
    <2>2. j \in HandedOut /\ j[1] = b /\ j[2] = BlockThreads(b)
      BY <1>4
    <2>. HIDE DEF j
    <2>. QED BY <1>3, <2>1, <2>2
  <1>. QED BY <1>8, <1>9

\* done means that exactly the thread ids below the launched count have run and
\* that no core is running.
THEOREM CompletionCorrect == Spec => []CompletionIsTotal
  <1>1. IInv => CompletionIsTotal
    <2>. SUFFICES ASSUME IInv, done PROVE /\ KL!Threads(ran) = 0 .. thread_count - 1
                                          /\ \A c \in Cores : ~running[c]
      BY DEF CompletionIsTotal
    <2>1. /\ dispatch_state = "WAIT" /\ block_id = NumBlocks /\ block_id_n = block_id
          /\ IdleCores = Cores /\ TypeOK
      BY DEF IInv, Phases, AllCoresIdle, TypeOK
    <2>2. \A c \in Cores : ~running[c]
      BY <2>1, QuietCores
    <2>3. Active = {}
      BY <2>1 DEF Active, BusyCores
    <2>4. ran = HandedOut
      BY <2>1, <2>3 DEF IInv, ExactlyOnce
    <2>. QED BY <2>1, <2>2, <2>4, JobsCoverThreads
  <1>. QED BY <1>1, Invariance, PTL

-----------------------------------------------------------------------------
(* Refinement.                                                             *)

\* No more jobs are active than there are cores.
LEMMA JobBound ==
  ASSUME NEW B \in SUBSET Cores, NEW A, NEW f \in Surjection(B, A)
  PROVE  Cardinality(A) <= NumCores
  <1>1. NumCores \in Nat /\ B \in SUBSET (0 .. NumCores - 1)
    BY NumCoresAssumption DEF Cores
  <1>2. IsFiniteSet(B) /\ Cardinality(B) \in Nat
    BY <1>1, BelowFinite
  <1>3. Cardinality(B) <= NumCores
    <2>. DEFINE top == NumCores - 1
    <2>1. top \in Int /\ 0 \in Int
      BY <1>1
    <2>2. IsFiniteSet(0 .. top) /\ Cardinality(0 .. top) = IF 0 > top THEN 0 ELSE top - 0 + 1
      <3>. HIDE DEF top
      <3>. QED BY <2>1, FS_Interval
    <2>3. Cardinality(0 .. NumCores - 1) = NumCores
      BY <1>1, <2>2
    <2>. QED BY <1>1, <2>2, <2>3, FS_Subset
  <1>4. IsFiniteSet(A) /\ Cardinality(A) <= Cardinality(B)
    BY <1>2, FS_Surjection
  <1>5. Cardinality(A) \in Nat
    BY <1>4, FS_CardinalityType
  <1>. QED BY <1>1, <1>2, <1>3, <1>4, <1>5

\* A busy cycle is a step of the abstract launch in which jobs end and begin.
LEMMA AdvanceStep == ASSUME IInv, NEW fin, Assign(fin) PROVE KL!Advance
  <1>. DEFINE new == {<<b, BlockThreads(b)>> : b \in block_id_n .. NextBlock - 1}
              ended == {Job(c) : c \in fin}
  <1>1. /\ ended \subseteq Active /\ Active' = (Active \ ended) \cup new
        /\ ran' = ran \cup ended
    BY AssignActive
  <1>2. NextBlock \in block_id_n .. block_id /\ block_id_n \in Nat /\ block_id \in Nat
    BY FreshJobs DEF IInv, TypeOK
  <1>3. /\ Waiting = {<<b, BlockThreads(b)>> : b \in block_id_n .. block_id - 1}
        /\ Waiting' = {<<b, BlockThreads(b)>> : b \in NextBlock .. block_id - 1}
    BY DEF Waiting, Assign, HandOut, BlockThreads
  <1>4. new \subseteq Waiting /\ Waiting' = Waiting \ new
    <2>1. block_id_n .. NextBlock - 1 \subseteq block_id_n .. block_id - 1
      BY <1>2
    <2>2. NextBlock .. block_id - 1 = (block_id_n .. block_id - 1) \ (block_id_n .. NextBlock - 1)
      BY <1>2
    <2>. QED BY <1>3, <2>1, <2>2
  <1>5. Phase = "running" /\ Phase' = Phase
    BY DEF Phase, Assign, HandOut
  <1>6. Cardinality(Active') <= NumCores
    <2>. DEFINE f == [c \in BusyCores' |-> Job(c)']
    <2>1. BusyCores' \in SUBSET Cores
      BY DEF BusyCores
    <2>2. f \in Surjection(BusyCores', Active')
      BY DEF Surjection, Active
    <2>. HIDE DEF f
    <2>. QED BY <2>1, <2>2, JobBound
  <1>. HIDE DEF new, ended
  <1>7. \E e \in SUBSET Active, n \in SUBSET Waiting :
          /\ Active' = (Active \ e) \cup n
          /\ ran' = ran \cup e
          /\ Waiting' = Waiting \ n
    BY <1>1, <1>4, Zenon
  <1>8. Phase = "running" /\ UNCHANGED Phase
    BY <1>5
  <1>9. KL!Cardinality(Active') = Cardinality(Active')
    BY DEF KL!Cardinality, Cardinality
  <1>. QED BY <1>6, <1>7, <1>8, <1>9 DEF KL!Advance

\* Opening a launch makes all its jobs wait.
LEMMA LaunchStep == ASSUME IInv, Launch PROVE KL!Launch(thread_count)
  <1>1. Phase = "idle" /\ Phase' = "running"
    BY DEF Phase, Launch, Open
  <1>2. Active' = {} /\ ran' = {}
    <2>1. BusyCores' = {}
      BY DEF BusyCores, IdleCores, Launch, Open, Quiesce
    <2>. QED BY <2>1 DEF Active, Launch, Open
  <1>3. Waiting' = KL!Jobs(thread_count)
    <2>1. NumBlocks = KL!NumBlocks(thread_count)
      BY DEF NumBlocks, KL!NumBlocks
    <2>2. \A b : BlockThreads(b)' = KL!Lanes(thread_count, b)
      BY <2>1 DEF BlockThreads, KL!Lanes, Launch, Open
    <2>3. Waiting' = {<<b, BlockThreads(b)'>> : b \in 0 .. NumBlocks - 1}
      BY DEF Waiting, Launch, Open
    <2>. QED BY <2>1, <2>2, <2>3 DEF KL!Jobs
  <1>. QED BY <1>1, <1>2, <1>3 DEF KL!Launch

\* The dispatcher with its cores implements the abstract launch (KernelLaunch).
THEOREM Refinement == Spec => ImplementsKernelLaunch
  <1>1. Init => KL!Init
    <2>. SUFFICES ASSUME Init PROVE KL!Init
      OBVIOUS
    <2>1. BusyCores = {}
      BY DEF BusyCores, IdleCores, Init
    <2>. QED BY <2>1 DEF Init, KL!Init, KL!Idle, Phase, Waiting, Active
  <1>2. IInv /\ [Next]_vars => [KL!Next]_(KL!vars)
    <2>. SUFFICES ASSUME IInv, [Next]_vars PROVE [KL!Next]_(KL!vars)
      OBVIOUS
    <2>1. CASE Reset
      <3>1. BusyCores' = {}
        BY <2>1 DEF BusyCores, IdleCores, Reset, Quiesce
      <3>2. KL!Reset
        BY <2>1, <3>1 DEF KL!Reset, Reset, Phase, Waiting, Active
      <3>. QED BY <3>2 DEF KL!Next
    <2>2. ASSUME NEW n \in ThreadCounts, WriteThreadCount(n) PROVE UNCHANGED KL!vars
      <3>1. /\ BusyCores' = BusyCores /\ \A c : Job(c)' = Job(c)
            /\ dispatch_state = "IDLE" /\ dispatch_state' = "IDLE" /\ ran' = ran
        BY <2>2 DEF WriteThreadCount, dispatchVars, BusyCores, IdleCores, Job
      <3>2. Active' = Active /\ Waiting' = Waiting /\ Phase' = Phase
        BY <3>1 DEF Active, Waiting, Phase
      <3>. QED BY <3>1, <3>2 DEF KL!vars
    <2>3. CASE Launch
      <3>1. thread_count \in 0 .. MaxThreads
        BY DEF IInv, TypeOK
      <3>. QED BY <2>3, <3>1, LaunchStep DEF KL!Next
    <2>4. ASSUME NEW fin \in SUBSET Cores, Assign(fin) PROVE KL!Next
      BY <2>4, AdvanceStep DEF KL!Next
    <2>5. CASE Complete
      <3>1. /\ BusyCores = {} /\ BusyCores' = {}
            /\ dispatch_state = "BUSY" /\ dispatch_state' = "WAIT" /\ ran' = ran
        BY <2>5 DEF Complete, Report, BusyCores, IdleCores, AllCoresIdle
      <3>2. Waiting = {}
        <4>1. block_id_n .. block_id - 1 = {}
          BY <2>5 DEF Complete, Report, IInv, TypeOK
        <4>. QED BY <4>1 DEF Waiting
      <3>3. KL!Complete
        BY <3>1, <3>2 DEF KL!Complete, Phase, Waiting, Active
      <3>. QED BY <3>3 DEF KL!Next
    <2>6. CASE Release
      <3>1. /\ BusyCores' = BusyCores /\ \A c : Job(c)' = Job(c)
            /\ dispatch_state = "WAIT" /\ dispatch_state' = "IDLE" /\ ran' = ran
        BY <2>6 DEF Release, Rearm, BusyCores, IdleCores, Job
      <3>2. Active' = Active
        BY <3>1 DEF Active
      <3>3. KL!Release
        BY <3>1, <3>2 DEF KL!Release, Phase, Waiting
      <3>. QED BY <3>3 DEF KL!Next
    <2>7. CASE UNCHANGED vars
      <3>1. /\ BusyCores' = BusyCores /\ \A c : Job(c)' = Job(c) /\ Waiting' = Waiting
            /\ Phase' = Phase /\ ran' = ran
        BY <2>7 DEF vars, dispatchVars, BusyCores, IdleCores, Job, Waiting, BlockThreads, Phase
      <3>2. Active' = Active
        BY <3>1 DEF Active
      <3>. QED BY <3>1, <3>2 DEF KL!vars
    <2>. QED BY <2>1, <2>2, <2>3, <2>4, <2>5, <2>6, <2>7 DEF Next
  <1>. QED BY <1>1, <1>2, Invariance, PTL DEF Spec, ImplementsKernelLaunch, KL!Spec
=============================================================================
