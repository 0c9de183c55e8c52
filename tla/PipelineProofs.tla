--------------------------- MODULE PipelineProofs ---------------------------
(***************************************************************************)
(* What a clock edge does to a core, for every number of lanes and every   *)
(* answer of memory: what the pipeline registers of a lane can hold        *)
(* together, whatever the program; for kernels without branches, where the *)
(* fetch stage can be when a lane holds a RET and what can follow it; and  *)
(* for those of them that are well formed (Isa), that a lane computes what *)
(* its thread computes on its own.  As in Pipeline, k are the registers of *)
(* a core and w its input wires.                                           *)
(***************************************************************************)
EXTENDS Pipeline, WellFoundedInduction, TLAPS

-----------------------------------------------------------------------------
(* Definitions.                                                            *)

IsItem(i) ==
  i = [op |-> i.op, rd |-> i.rd, value |-> i.value, data |-> i.data, nzp |-> i.nzp]

IsFetch(f) ==
  /\ f = [state |-> f.state, valid |-> f.valid, flag |-> f.flag, instr |-> f.instr,
          pc |-> f.pc, mask |-> f.mask]
  /\ f.valid \in BOOLEAN /\ f.flag \in BOOLEAN

\* The registers the next edge depends on are records, MEM waits for accesses
\* alone, and no instruction is on offer while a fetch is awaited.
Shapes(k) ==
  /\ IsFetch(k.fetch)
  /\ k.fetch.state = "WAIT" => ~k.fetch.valid
  /\ \A t \in Threads : /\ IsItem(k.lane[t].ex) /\ IsItem(k.lane[t].pending)
                        /\ k.lane[t].pending = NoItem \/ k.lane[t].pending.op \in MemoryOps

\* A fetch takes two cycles, so instructions follow each other with a gap. A
\* stall may close the gap between ID and EX, and then no third instruction is
\* on offer, in MEM or in WB.
Gaps(k) ==
  \A t \in Threads :
    /\ k.lane[t].ex # NoItem /\ k.lane[t].id # NoOperands => ~InstructionPending(k, t)
    /\ k.lane[t].pending # NoItem => k.lane[t].ex = NoItem \/ k.lane[t].id = NoOperands
    /\ k.lane[t].wb # NoItem => k.lane[t].ex = NoItem \/ k.lane[t].id = NoOperands

\* Threads that run instruction i stay together.
StaysTogether(i) ==
  /\ i.op # "JOIN"
  /\ i.op = "BR" => Unconditional(i) /\ i.imm \in Addresses

\* The instruction the fetch stage is at, counted from 0.
FetchIndex(k) == k.fetch.pc \div 2

\* Lane t has accepted the instruction last offered.
HasTaken(k, t) == k.lane[t].accepted = k.fetch.flag

NoReturn(k, t) ==
  k.lane[t].id.op # "RET" /\ k.lane[t].ex.op # "RET" /\ k.lane[t].wb.op # "RET"

\* Where the fetch stage is when lane t has decoded the RET, instruction last:
\* it offers the RET itself, waits for the instruction behind it, or offers
\* that one.
JustDecoded(k, t, last) ==
  \/ FetchIndex(k) = last /\ k.fetch.valid /\ HasTaken(k, t)
  \/ FetchIndex(k) = last + 1 /\ k.fetch.state = "WAIT" /\ HasTaken(k, t)
  \/ FetchIndex(k) = last + 1 /\ k.fetch.valid /\ ~HasTaken(k, t)

\* The fetch stage is one instruction further.
OneBehind(k, last) ==
  \/ FetchIndex(k) = last + 1 /\ k.fetch.valid
  \/ FetchIndex(k) = last + 2 /\ k.fetch.state = "WAIT"

\* How far the fetch stage can have come for a RET in ID, in EX and in WB, of
\* which there is at most one.
ReturnInPlace(k, t, last) ==
  /\ k.lane[t].id.op = "RET" =>
       JustDecoded(k, t, last) /\ k.lane[t].ex.op # "RET" /\ k.lane[t].wb.op # "RET"
  /\ k.lane[t].ex.op = "RET" =>
       /\ JustDecoded(k, t, last) \/ (MemReady(k, t) /\ OneBehind(k, last))
       /\ k.lane[t].wb.op # "RET"
  /\ k.lane[t].wb.op = "RET" =>
       \/ FetchIndex(k) = last /\ k.fetch.valid /\ HasTaken(k, t)
       \/ FetchIndex(k) \in {last + 1, last + 2}

\* A lane at work has its RET where the fetch stage says, and one that has
\* returned has none in ID and EX.
ReturnsInPlace(k, last) ==
  \A t \in Threads :
    IF Active(k, t) THEN ReturnInPlace(k, t, last)
    ELSE k.lane[t].id.op # "RET" /\ k.lane[t].ex.op # "RET"

\* The instruction on offer is the kernel's, and the next fetch is for the one
\* behind it, or for the first one when a block starts with an old offer.
OfferInPlace(k, program) ==
  /\ k.fetch.instr.op \notin {"BR", "JOIN"}
  /\ k.fetch.valid =>
       /\ k.fetch.instr = FetchAt(program, k.fetch.pc)
       /\ \/ k.pc = NextPc(k.fetch.pc)
          \/ /\ FetchIndex(k) >= Len(program) /\ k.pc = 0
             /\ \A t \in Threads : NoReturn(k, t)

\* Between blocks the fetch stage is past the kernel, or has never fetched.
PastBetweenBlocks(k, program) ==
  ~k.running => (k.fetch.state # "WAIT" /\ ~k.fetch.valid) \/ FetchIndex(k) >= Len(program)

\* While an instruction of the kernel is fetched, each thread at work has taken
\* the one before it; before the first fetch none is in the pipeline.
CaughtUp(k, program) ==
  /\ k.fetch.state = "WAIT" /\ FetchIndex(k) < Len(program) =>
       \A t \in Threads : Active(k, t) => HasTaken(k, t)
  /\ k.fetch.state # "WAIT" /\ ~k.fetch.valid =>
       \A t \in Threads : HasTaken(k, t) /\ NoReturn(k, t)

InPlace(k, program) ==
  /\ ReturnsInPlace(k, Len(program) - 1)
  /\ OfferInPlace(k, program)
  /\ PastBetweenBlocks(k, program)
  /\ CaughtUp(k, program)

\* A RET in write-back belongs to an active thread, or to one that has returned
\* and will not be kept there.
ReturnsOwned(k) == \A t \in Retiring(k) : Active(k, t) \/ k.lane[t].ex = NoItem

\* No access follows a RET closely enough to reach MEM before the mask has lost
\* the thread, and none is held for a thread that is not at work.
NothingFollows(k) ==
  \A t \in Threads :
    /\ k.lane[t].ex.op = "RET" => k.lane[t].id.op \notin MemoryOps
    /\ k.lane[t].wb.op = "RET" => k.lane[t].ex.op \notin MemoryOps /\ MemReady(k, t)
    /\ ~Active(k, t) => MemReady(k, t)

\* A core at work has a thread.
SomeoneRuns(k) == k.mask \subseteq Threads /\ (k.running => k.mask # {})

\* A core that runs a kernel without branches, or is between two blocks of it.
StraightCore(k, program) ==
  /\ Shapes(k) /\ Gaps(k)
  /\ k.pc \in Addresses /\ k.fetch.pc \in Addresses
  /\ SomeoneRuns(k)
  /\ ReturnsOwned(k)
  /\ InPlace(k, program)
  /\ NothingFollows(k)

\* What the wires of such a core hold at an edge.
StraightWires(k, w, program) ==
  /\ StraightLine(program)
  /\ k.running => k.start_q
  /\ StartEdge(k, w) => 0 \in Threads /\ 0 < w.count
  /\ w.fetched => w.instr = FetchAt(program, k.fetch.pc)

-----------------------------------------------------------------------------
(* One edge of the pipeline, for every program and every answer of memory. *)

\* The registers of a lane after an edge.
LEMMA LaneFields ==
  ASSUME NEW k, NEW w, NEW t \in Threads
  PROVE  LET l == CoreNext(k, w).lane[t]
         IN  /\ l.accepted = IF Accepts(k, w, t) THEN k.fetch.flag ELSE k.lane[t].accepted
             /\ l.id = IdNext(k, w, t)
             /\ l.ex = ExNext(k, t)
             /\ l.pending = PendingNext(k, w, t)
             /\ l.wb = WriteBackNext(k, w, t)
  BY DEF CoreNext, LaneNext

\* The registers that the lanes share.
LEMMA CoreFields ==
  ASSUME NEW k, NEW w
  PROVE  /\ CoreNext(k, w).running = RunningNext(k, w)
         /\ CoreNext(k, w).start_q = w.start
         /\ CoreNext(k, w).pc = PcNext(k, w)
         /\ CoreNext(k, w).mask = MaskNext(k, w)
         /\ CoreNext(k, w).stack = StackNext(k, w)
         /\ CoreNext(k, w).fetch = FetchNext(k, w)
  BY DEF CoreNext

\* What MEM holds is a record, and an access when it is held in WAIT.
LEMMA MemShape ==
  ASSUME NEW k, Shapes(k), NEW t \in Threads
  PROVE  /\ IsItem(InMem(k, t))
         /\ ~MemReady(k, t) => InMem(k, t) = k.lane[t].pending /\ InMem(k, t).op \in MemoryOps
         /\ MemReady(k, t) /\ InMem(k, t) # NoItem => Active(k, t) /\ InMem(k, t) = k.lane[t].ex
  <1>1. IsItem(NoItem)
    BY DEF IsItem, NoItem
  <1>. QED BY <1>1 DEF InMem, MemReady, Shapes

\* The fetch stage keeps its instruction or asks for one, and offers a new one
\* only when it has asked.
LEMMA FetchStep ==
  ASSUME NEW k, Shapes(k), NEW w
  PROVE  /\ IsFetch(FetchNext(k, w))
         /\ FetchNext(k, w).state = "WAIT" => ~FetchNext(k, w).valid
         /\ FetchNext(k, w).valid /\ k.fetch.valid => FetchNext(k, w) = k.fetch
         /\ FetchNext(k, w) = k.fetch \/ FetchNext(k, w).instr \in {Nop, w.instr}
         /\ ~w.fetched => FetchNext(k, w) = k.fetch \/ FetchNext(k, w).instr = Nop
         /\ FetchNext(k, w).pc \in {k.fetch.pc, FetchContext(k, w).pc}
  <1>. DEFINE f == k.fetch
  <1>1. /\ f = [state |-> f.state, valid |-> f.valid, flag |-> f.flag, instr |-> f.instr,
                pc |-> f.pc, mask |-> f.mask]
        /\ f.valid \in BOOLEAN /\ f.flag \in BOOLEAN
        /\ f.state = "WAIT" => ~f.valid
    BY DEF Shapes, IsFetch
  <1>2. CASE f.state = "WAIT" /\ w.fetched
    <2>1. FetchNext(k, w) = [state |-> "IDLE", valid |-> TRUE, flag |-> ~f.flag,
                             instr |-> w.instr, pc |-> f.pc, mask |-> f.mask]
      BY <1>1, <1>2 DEF FetchNext
    <2>. QED BY <1>1, <1>2, <2>1 DEF IsFetch
  <1>3. CASE ~(f.state = "WAIT") /\ k.running /\ IfReady(k, w)
    <2>1. FetchNext(k, w) = [state |-> "WAIT", valid |-> FALSE, flag |-> f.flag, instr |-> Nop,
                             pc |-> FetchContext(k, w).pc, mask |-> FetchContext(k, w).mask]
      BY <1>3 DEF FetchNext
    <2>. QED BY <1>1, <2>1 DEF IsFetch
  <1>4. CASE /\ ~(f.state = "WAIT" /\ w.fetched)
             /\ ~(~(f.state = "WAIT") /\ k.running /\ IfReady(k, w))
    <2>1. FetchNext(k, w) = f
      BY <1>4 DEF FetchNext
    <2>. QED BY <1>1, <2>1 DEF IsFetch
  <1>. QED BY <1>2, <1>3, <1>4

\* The registers stay records.
LEMMA ShapesStep ==
  ASSUME NEW k, Shapes(k), NEW w
  PROVE  Shapes(CoreNext(k, w))
  <1>1. ASSUME NEW t \in Threads
        PROVE  /\ IsItem(ExNext(k, t)) /\ IsItem(PendingNext(k, w, t))
               /\ PendingNext(k, w, t) = NoItem \/ PendingNext(k, w, t).op \in MemoryOps
    <2>1. IsItem(NoItem)
      BY DEF IsItem, NoItem
    <2>2. IsItem(Executed(k.lane[t].id))
      BY <2>1 DEF Executed, IsItem
    <2>3. IsItem(ExNext(k, t))
      BY <2>1, <2>2 DEF ExNext, Shapes
    <2>. QED BY <2>1, <2>3, MemShape DEF PendingNext
  <1>2. /\ IsFetch(CoreNext(k, w).fetch)
        /\ CoreNext(k, w).fetch.state = "WAIT" => ~CoreNext(k, w).fetch.valid
    BY CoreFields, FetchStep
  <1>. QED BY <1>1, <1>2, LaneFields DEF Shapes

\* A lane that has taken the instruction on offer is offered no other one by
\* this edge.
LEMMA OfferStep ==
  ASSUME NEW k, Shapes(k), NEW w, NEW t \in Threads, Accepts(k, w, t)
  PROVE  ~InstructionPending(CoreNext(k, w), t)
  <1>1. k.fetch.valid
    BY DEF Accepts, InstructionPending
  <1>2. CoreNext(k, w).lane[t].accepted = k.fetch.flag
    BY LaneFields
  <1>3. CoreNext(k, w).fetch.valid => CoreNext(k, w).fetch.flag = k.fetch.flag
    <2>1. FetchNext(k, w).valid => FetchNext(k, w) = k.fetch
      BY <1>1, FetchStep
    <2>. QED BY <2>1, CoreFields
  <1>. QED BY <1>2, <1>3 DEF InstructionPending

\* What ID and EX can hold after an edge.
LEMMA DecodeStep ==
  ASSUME NEW k, Shapes(k), Gaps(k), NEW w, NEW t \in Threads
  PROVE  /\ ~MemReady(k, t) => /\ ExNext(k, t) = k.lane[t].ex
                               /\ IdNext(k, w, t) = k.lane[t].id
         /\ MemReady(k, t) /\ k.lane[t].ex # NoItem
              => ExNext(k, t) = NoItem \/ IdNext(k, w, t) = NoOperands
         /\ MemReady(k, t) /\ k.lane[t].id = NoOperands => ExNext(k, t) = NoItem
  <1>1. ~MemReady(k, t) => /\ InEx(k, t) = NoOperands /\ ~Accepts(k, w, t)
    BY DEF InEx, Accepts, CanAccept
  <1>2. MemReady(k, t) /\ k.lane[t].id = NoOperands => ExNext(k, t) = NoItem
    BY DEF ExNext, InEx
  <1>3. ASSUME MemReady(k, t), k.lane[t].ex # NoItem, k.lane[t].id # NoOperands
        PROVE  IdNext(k, w, t) = NoOperands
    <2>1. ~InstructionPending(k, t)
      BY <1>3 DEF Gaps
    <2>. QED BY <1>3, <2>1 DEF IdNext, Accepts
  <1>. QED BY <1>1, <1>2, <1>3 DEF ExNext, IdNext

\* Between three instructions in a row there is a gap, after every edge.
LEMMA GapsStep ==
  ASSUME NEW k, Shapes(k), Gaps(k), NEW w
  PROVE  Gaps(CoreNext(k, w))
  <1>. DEFINE n == CoreNext(k, w)
  <1>. SUFFICES ASSUME NEW t \in Threads
                PROVE  /\ n.lane[t].ex # NoItem /\ n.lane[t].id # NoOperands
                            => ~InstructionPending(n, t)
                       /\ n.lane[t].pending # NoItem
                            => n.lane[t].ex = NoItem \/ n.lane[t].id = NoOperands
                       /\ n.lane[t].wb # NoItem
                            => n.lane[t].ex = NoItem \/ n.lane[t].id = NoOperands
    BY DEF Gaps
  <1>. DEFINE l == k.lane[t]
  <1>0. /\ n.lane[t].id = IdNext(k, w, t) /\ n.lane[t].ex = ExNext(k, t)
        /\ n.lane[t].pending = PendingNext(k, w, t) /\ n.lane[t].wb = WriteBackNext(k, w, t)
    BY LaneFields
  <1>. HIDE DEF n
  <1>1. ASSUME ExNext(k, t) # NoItem, IdNext(k, w, t) # NoOperands
        PROVE  Accepts(k, w, t)
    <2>1. SUFFICES ASSUME ~Accepts(k, w, t) PROVE FALSE
      OBVIOUS
    <2>2. CASE ~MemReady(k, t)
      BY <1>1, <2>2, DecodeStep DEF Gaps, MemReady
    <2>3. CASE MemReady(k, t)
      <3>1. InstructionPending(k, t) /\ ~LoadWait(k, w, t) /\ l.id # NoOperands
        BY <1>1, <2>1, <2>3 DEF IdNext
      <3>2. ~Active(k, t)
        BY <2>1, <2>3, <3>1 DEF Accepts, CanAccept
      <3>3. l.ex # NoItem
        BY <1>1, <3>2 DEF ExNext, InEx
      <3>. QED BY <3>1, <3>3 DEF Gaps
    <2>. QED BY <2>2, <2>3
  <1>2. ASSUME InMem(k, t) # NoItem
        PROVE  ExNext(k, t) = NoItem \/ IdNext(k, w, t) = NoOperands
    <2>1. CASE ~MemReady(k, t)
      BY <2>1, DecodeStep DEF Gaps, MemReady
    <2>2. CASE MemReady(k, t)
      BY <1>2, <2>2, MemShape, DecodeStep
    <2>. QED BY <2>1, <2>2
  <1>3. PendingNext(k, w, t) # NoItem => InMem(k, t) # NoItem
    BY DEF PendingNext, NoItem, MemoryOps
  <1>4. ASSUME WriteBackNext(k, w, t) # NoItem, InMem(k, t) = NoItem
        PROVE  ExNext(k, t) = NoItem
    <2>1. MemReady(k, t) /\ ~Active(k, t) /\ l.ex # NoItem /\ l.wb # NoItem
      BY <1>4 DEF WriteBackNext, Finishes
    <2>2. l.id = NoOperands
      BY <2>1 DEF Gaps
    <2>. QED BY <2>1, <2>2, DecodeStep
  <1>5. Accepts(k, w, t) => ~InstructionPending(n, t)
    BY OfferStep DEF n
  <1>. QED BY <1>0, <1>1, <1>2, <1>3, <1>4, <1>5


\* With neither a JOIN nor a conditional branch on offer the branch stack is
\* idle and the mask loses the threads that return.
LEMMA TogetherEdge ==
  ASSUME NEW k, StaysTogether(k.fetch.instr), NEW w
  PROVE  /\ ~Joins(k, w) /\ ~Splits(k, w)
         /\ StackNext(k, w) = k.stack
         /\ FetchContext(k, w) = [pc |-> k.pc, mask |-> k.mask]
         /\ ~StartEdge(k, w) => MaskNext(k, w) = IF k.running THEN k.mask \ Retiring(k)
                                                 ELSE k.mask
         /\ ~StartEdge(k, w) => RunningNext(k, w) = (k.running /\ ~(k.mask \subseteq Retiring(k)))
         /\ Redirects(k, w) => k.fetch.instr.imm \in Addresses
  <1>1. ~Joins(k, w) /\ ~Pops(k, w) /\ ~Swaps(k, w)
    BY DEF StaysTogether, Joins, Pops, Swaps
  <1>2. Redirects(k, w) => k.fetch.instr.op = "BR"
    BY DEF Redirects, Takers
  <1>3. ~Splits(k, w)
    BY <1>2 DEF Splits, StaysTogether
  <1>4. ~StartEdge(k, w) => RunningNext(k, w) = (k.running /\ ~(k.mask \subseteq Retiring(k)))
    BY <1>1, <1>3 DEF RunningNext, Ends
  <1>. QED BY <1>1, <1>2, <1>3, <1>4 DEF StackNext, FetchContext, MaskNext, StaysTogether

\* Addresses are closed under stepping on.
LEMMA NextAddress ==
  ASSUME NEW pc \in Addresses
  PROVE  NextPc(pc) \in Addresses
  BY PcAssumption DEF Addresses, NextPc

\* Where a RET in write-back comes from.
LEMMA ReturnFrom ==
  ASSUME NEW k, Shapes(k), NEW w, NEW t \in Threads, WriteBackNext(k, w, t).op = "RET"
  PROVE  /\ MemReady(k, t) /\ k.lane[t].ex # NoItem
         /\ Active(k, t) \/ t \in Retiring(k)
  <1>. DEFINE m == InMem(k, t)
  <1>1. CASE Finishes(k, w, t)
    <2>1. WriteBackNext(k, w, t) = [m EXCEPT !.value = MemResult(k, w, t), !.data = 0]
      BY <1>1 DEF WriteBackNext
    <2>2. m = [op |-> m.op, rd |-> m.rd, value |-> m.value, data |-> m.data, nzp |-> m.nzp]
      BY MemShape DEF IsItem
    <2>. HIDE DEF m
    <2>3. m.op = "RET"
      BY <2>1, <2>2
    <2>4. m # NoItem /\ m.op \notin MemoryOps
      BY <2>3 DEF NoItem, MemoryOps
    <2>. QED BY <2>4, MemShape DEF m
  <1>2. CASE ~Finishes(k, w, t)
    <2>1. NoItem.op # "RET"
      BY DEF NoItem
    <2>2. /\ MemReady(k, t) /\ ~Active(k, t) /\ k.lane[t].ex # NoItem
          /\ WriteBackNext(k, w, t) = k.lane[t].wb
      BY <1>2, <2>1 DEF WriteBackNext
    <2>. QED BY <2>2 DEF Retiring
  <1>. QED BY <1>1, <1>2

-----------------------------------------------------------------------------
(* Kernels without branches.                                               *)

\* The only RET of a straight-line kernel is its last instruction.
LEMMA StraightFacts ==
  ASSUME NEW program, StraightLine(program), NEW pc \in Addresses
  PROVE  /\ Len(program) \in Nat /\ pc \div 2 \in Nat
         /\ FetchAt(program, pc).op # "BR"
         /\ StaysTogether(FetchAt(program, pc))
         /\ FetchAt(program, pc).op = "RET" => pc \div 2 = Len(program) - 1
         /\ pc \div 2 <= Len(program) + 1 => NextPc(pc) \div 2 = pc \div 2 + 1
  <1>1. Len(program) \in Nat /\ 2 * Len(program) + 6 <= PcSpace
    BY DEF StraightLine
  <1>2. PcSpace \in Nat /\ pc \in Nat
    BY PcAssumption DEF Addresses
  <1>3. pc \div 2 \in Nat
    BY <1>2
  <1>4. pc \div 2 <= Len(program) + 1 => NextPc(pc) \div 2 = pc \div 2 + 1
    <2>1. SUFFICES ASSUME pc \div 2 <= Len(program) + 1 PROVE NextPc(pc) \div 2 = pc \div 2 + 1
      OBVIOUS
    <2>2. pc + 2 < PcSpace
      BY <1>1, <1>2, <2>1
    <2>3. NextPc(pc) = pc + 2
      BY <1>2, <2>2 DEF NextPc
    <2>. QED BY <1>2, <2>3
  <1>. QED BY <1>1, <1>3, <1>4 DEF StraightLine, StaysTogether

\* Without branches the fetch stage offers the answer it waits for, asks for
\* the next instruction when every lane is ready, or stays as it is.
LEMMA StraightFetch ==
  ASSUME NEW k, Shapes(k), k.fetch.instr.op \notin {"BR", "JOIN"}, NEW w
  PROVE  LET n == CoreNext(k, w)
         IN  \/ /\ k.fetch.state = "WAIT" /\ ~k.fetch.valid /\ w.fetched
                /\ n.fetch.state = "IDLE" /\ n.fetch.valid /\ n.fetch.flag = ~k.fetch.flag
                /\ n.fetch.instr = w.instr /\ n.fetch.pc = k.fetch.pc
                /\ n.pc = IF StartEdge(k, w) THEN 0 ELSE NextPc(k.fetch.pc)
             \/ /\ k.fetch.state # "WAIT" /\ k.running
                /\ \A t \in k.mask : IdReady(k, w, t)
                /\ n.fetch.state = "WAIT" /\ ~n.fetch.valid /\ n.fetch.flag = k.fetch.flag
                /\ n.fetch.pc = k.pc
                /\ n.pc = IF StartEdge(k, w) THEN 0 ELSE k.pc
             \/ /\ n.fetch = k.fetch
                /\ k.fetch.state = "WAIT" \/ ~k.running \/ ~(\A t \in k.mask : IdReady(k, w, t))
                /\ n.pc = IF StartEdge(k, w) THEN 0 ELSE k.pc
  <1>. DEFINE f == k.fetch
  <1>1. /\ f = [state |-> f.state, valid |-> f.valid, flag |-> f.flag, instr |-> f.instr,
                pc |-> f.pc, mask |-> f.mask]
        /\ f.state = "WAIT" => ~f.valid
    BY DEF Shapes, IsFetch
  <1>2. /\ ~Redirects(k, w) /\ ~Joins(k, w)
        /\ CoreNext(k, w).fetch = FetchNext(k, w) /\ CoreNext(k, w).pc = PcNext(k, w)
    BY CoreFields DEF Redirects, Takers, Joins
  <1>3. FetchContext(k, w).pc = k.pc
    BY <1>2 DEF FetchContext, Pops, Swaps, Splits
  <1>4. IfReady(k, w) <=> \A t \in k.mask : IdReady(k, w, t)
    BY <1>2 DEF IfReady
  <1>5. PcNext(k, w) = IF StartEdge(k, w) THEN 0
                       ELSE IF f.state = "WAIT" /\ w.fetched THEN NextPc(f.pc) ELSE k.pc
    BY <1>2, <1>3 DEF PcNext
  <1>6. CASE f.state = "WAIT" /\ w.fetched
    <2>1. FetchNext(k, w) = [state |-> "IDLE", valid |-> TRUE, flag |-> ~f.flag,
                             instr |-> w.instr, pc |-> f.pc, mask |-> f.mask]
      BY <1>1, <1>6 DEF FetchNext
    <2>. QED BY <1>1, <1>2, <1>5, <1>6, <2>1
  <1>7. CASE f.state # "WAIT" /\ k.running /\ IfReady(k, w)
    <2>1. FetchNext(k, w) = [state |-> "WAIT", valid |-> FALSE, flag |-> f.flag, instr |-> Nop,
                             pc |-> k.pc, mask |-> FetchContext(k, w).mask]
      BY <1>3, <1>7 DEF FetchNext
    <2>. QED BY <1>2, <1>4, <1>5, <1>7, <2>1
  <1>8. CASE /\ ~(f.state = "WAIT" /\ w.fetched)
             /\ ~(f.state # "WAIT" /\ k.running /\ IfReady(k, w))
    <2>1. FetchNext(k, w) = f
      BY <1>8 DEF FetchNext
    <2>. QED BY <1>2, <1>4, <1>5, <1>8, <2>1
  <1>. QED BY <1>6, <1>7, <1>8

\* Where a RET in each register of a lane comes from.
LEMMA ReturnFlow ==
  ASSUME NEW k, Shapes(k), NEW w, NEW t \in Threads
  PROVE  LET l == k.lane[t]
             n == CoreNext(k, w).lane[t]
         IN  /\ n.id.op = "RET" => \/ l.id.op = "RET" /\ (Active(k, t) => ~MemReady(k, t))
                                   \/ Accepts(k, w, t) /\ k.fetch.instr.op = "RET"
             /\ n.ex.op = "RET" => \/ l.ex.op = "RET" /\ (Active(k, t) => ~MemReady(k, t))
                                   \/ l.id.op = "RET" /\ MemReady(k, t) /\ Active(k, t)
             /\ n.wb.op = "RET" => /\ MemReady(k, t) /\ l.ex # NoItem
                                   /\ \/ Active(k, t) /\ l.ex.op = "RET"
                                      \/ ~Active(k, t) /\ l.wb.op = "RET"
             /\ n.accepted = IF Accepts(k, w, t) THEN k.fetch.flag ELSE l.accepted
  <1>. DEFINE l == k.lane[t]
              m == InMem(k, t)
  <1>0. NoItem.op = "NONE" /\ NoOperands.op = "NONE"
    BY DEF NoItem, NoOperands
  <1>1. ASSUME IdNext(k, w, t).op = "RET"
        PROVE  \/ l.id.op = "RET" /\ (Active(k, t) => ~MemReady(k, t))
               \/ Accepts(k, w, t) /\ k.fetch.instr.op = "RET"
    <2>1. CASE Accepts(k, w, t)
      <3>1. Decoded(k, w, t).op = "RET"
        BY <1>1, <2>1 DEF IdNext
      <3>. QED BY <2>1, <3>1 DEF Decoded, NoOperands, ArithOps
    <2>2. CASE ~Accepts(k, w, t)
      <3>1. l.id.op = "RET" /\ ~(MemReady(k, t) /\ (~InstructionPending(k, t) \/ LoadWait(k, w, t)))
        BY <1>0, <1>1, <2>2 DEF IdNext
      <3>. QED BY <2>2, <3>1 DEF Accepts, CanAccept
    <2>. QED BY <2>1, <2>2
  <1>2. ASSUME ExNext(k, t).op = "RET"
        PROVE  \/ l.ex.op = "RET" /\ (Active(k, t) => ~MemReady(k, t))
               \/ l.id.op = "RET" /\ MemReady(k, t) /\ Active(k, t)
    <2>1. CASE InEx(k, t) # NoOperands
      <3>1. Active(k, t) /\ MemReady(k, t) /\ Executed(l.id).op = "RET"
        BY <1>2, <2>1 DEF InEx, ExNext
      <3>. QED BY <1>0, <3>1 DEF Executed
    <2>2. CASE InEx(k, t) = NoOperands
      <3>1. ~(MemReady(k, t) /\ l.id = NoOperands) /\ l.ex.op = "RET"
        BY <1>0, <1>2, <2>2 DEF ExNext
      <3>. QED BY <2>2, <3>1 DEF InEx
    <2>. QED BY <2>1, <2>2
  <1>3. ASSUME WriteBackNext(k, w, t).op = "RET"
        PROVE  /\ MemReady(k, t) /\ l.ex # NoItem
               /\ \/ Active(k, t) /\ l.ex.op = "RET"
                  \/ ~Active(k, t) /\ l.wb.op = "RET"
    <2>1. MemReady(k, t) /\ l.ex # NoItem
      BY <1>3, ReturnFrom
    <2>2. CASE Active(k, t)
      <3>1. m = l.ex
        BY <2>1, <2>2 DEF InMem
      <3>2. WriteBackNext(k, w, t) \in {[m EXCEPT !.value = MemResult(k, w, t), !.data = 0], NoItem}
        BY <2>2 DEF WriteBackNext
      <3>3. m = [op |-> m.op, rd |-> m.rd, value |-> m.value, data |-> m.data, nzp |-> m.nzp]
        BY MemShape DEF IsItem
      <3>. HIDE DEF m
      <3>4. m.op = "RET"
        BY <1>0, <1>3, <3>2, <3>3
      <3>. QED BY <2>1, <2>2, <3>1, <3>4
    <2>3. CASE ~Active(k, t)
      BY <1>3, <2>1, <2>3, ReturnFrom DEF Retiring
    <2>. QED BY <2>2, <2>3
  <1>. QED BY <1>1, <1>2, <1>3, LaneFields

\* An edge of a core that runs a kernel without branches.
StraightEdge(k, w, program) == StraightCore(k, program) /\ StraightWires(k, w, program)

\* While a RET is in flight, or the kernel is on offer, the next fetch is for
\* the instruction behind the one on offer.
LEMMA NextBehind ==
  ASSUME NEW k, NEW w, NEW program, StraightEdge(k, w, program), k.fetch.valid,
         FetchIndex(k) < Len(program) \/ (\E t \in Threads : ~NoReturn(k, t))
  PROVE  /\ k.pc = NextPc(k.fetch.pc)
         /\ FetchIndex(k) <= Len(program) + 1 => k.pc \div 2 = FetchIndex(k) + 1
  <1>1. /\ FetchIndex(k) \in Nat /\ Len(program) \in Nat
        /\ FetchIndex(k) <= Len(program) + 1 => NextPc(k.fetch.pc) \div 2 = FetchIndex(k) + 1
    BY StraightFacts DEF StraightEdge, StraightCore, StraightWires, FetchIndex
  <1>2. k.pc = NextPc(k.fetch.pc)
    BY <1>1 DEF StraightEdge, StraightCore, InPlace, OfferInPlace
  <1>. QED BY <1>1, <1>2

\* A running core sees no start edge, loses the threads that return and ends
\* with the last of them.
LEMMA RunningEdge ==
  ASSUME NEW k, NEW w, NEW n, n = CoreNext(k, w),
         NEW program, StraightEdge(k, w, program), k.running
  PROVE  /\ ~StartEdge(k, w)
         /\ n.mask = k.mask \ Retiring(k)
         /\ n.running <=> ~(k.mask \subseteq Retiring(k))
  <1>1. ~StartEdge(k, w)
    BY DEF StraightEdge, StraightWires, StartEdge
  <1>2. ~Joins(k, w) /\ ~Pops(k, w) /\ ~Swaps(k, w) /\ ~Splits(k, w)
    BY DEF StraightEdge, StraightCore, InPlace, OfferInPlace, Joins, Pops, Swaps, Splits,
           Redirects, Takers
  <1>3. n.mask = k.mask \ Retiring(k)
    BY <1>1, <1>2, CoreFields DEF MaskNext
  <1>4. Ends(k, w) <=> k.mask \subseteq Retiring(k)
    BY <1>1, <1>2 DEF Ends
  <1>5. n.running = (k.running /\ ~Ends(k, w))
    BY <1>1, CoreFields DEF RunningNext
  <1>. QED BY <1>1, <1>3, <1>4, <1>5

\* A lane that is not at work holds no RET after an edge.
LEMMA IdleLane ==
  ASSUME NEW k, NEW w, NEW n, n = CoreNext(k, w),
         NEW program, StraightEdge(k, w, program), NEW t \in Threads,
         ~Active(k, t)
  PROVE  NoReturn(n, t)
  <1>1. k.lane[t].id.op # "RET" /\ k.lane[t].ex.op # "RET"
    BY DEF StraightEdge, StraightCore, InPlace, ReturnsInPlace
  <1>2. k.lane[t].wb.op = "RET" => k.lane[t].ex = NoItem
    BY DEF StraightEdge, StraightCore, ReturnsOwned, Retiring
  <1>3. ~Accepts(k, w, t)
    BY DEF Accepts
  <1>. QED BY <1>1, <1>2, <1>3, ReturnFlow DEF StraightEdge, StraightCore, NoReturn

\* A lane without a RET is given one by the fetch stage alone.
LEMMA NoReturnKept ==
  ASSUME NEW k, Shapes(k), NEW w, NEW t \in Threads, NoReturn(k, t),
         k.fetch.instr.op # "RET" \/ ~Accepts(k, w, t)
  PROVE  NoReturn(CoreNext(k, w), t)
  BY ReturnFlow DEF NoReturn

\* What the fetch stage may do under a lane at work: offer what it waited for,
\* ask for more when the lane is ready, or wait, for memory or for a lane.
FetchMoves(k, w, n, t) ==
  \/ /\ k.fetch.state = "WAIT" /\ ~k.fetch.valid
     /\ n.fetch.valid /\ n.fetch.flag = ~k.fetch.flag /\ n.fetch.pc = k.fetch.pc
  \/ /\ k.fetch.state # "WAIT" /\ IdReady(k, w, t)
     /\ n.fetch.state = "WAIT" /\ n.fetch.flag = k.fetch.flag /\ n.fetch.pc = k.pc
  \/ /\ n.fetch = k.fetch
     /\ k.fetch.state = "WAIT" \/ ~(\A u \in k.mask : IdReady(k, w, u))

\* The fetch stage does one of these at every edge of a running core.
LEMMA FetchStepsOn ==
  ASSUME NEW k, NEW w, NEW n, n = CoreNext(k, w),
         NEW program, StraightEdge(k, w, program), NEW t \in Threads, Active(k, t)
  PROVE  FetchMoves(k, w, n, t)
  BY StraightFetch DEF FetchMoves, StraightEdge, StraightCore, InPlace, OfferInPlace, Active

\* While a lane at work keeps its RET the fetch stage comes no further than the
\* instruction behind it, unless the lane takes that one too.
LEMMA JustDecodedStep ==
  ASSUME NEW k, NEW w, NEW n, n = CoreNext(k, w),
         NEW program, StraightEdge(k, w, program), NEW t \in Threads,
         Active(k, t), JustDecoded(k, t, Len(program) - 1), ~NoReturn(k, t)
  PROVE  \/ JustDecoded(n, t, Len(program) - 1)
         \/ /\ Accepts(k, w, t) /\ OneBehind(n, Len(program) - 1)
            /\ FetchIndex(k) = Len(program) /\ k.fetch.valid /\ ~HasTaken(k, t)
  <1>. DEFINE f == k.fetch
              L == Len(program) - 1
  <1>1. FetchIndex(k) \in Nat /\ L + 1 = Len(program) /\ L \in Int
    BY StraightFacts DEF StraightEdge, StraightCore, StraightWires, FetchIndex
  <1>2. f.valid => k.pc \div 2 = FetchIndex(k) + 1
    BY <1>1, NextBehind DEF JustDecoded
  <1>3. f.flag \in BOOLEAN /\ (f.state = "WAIT" => ~f.valid)
    BY DEF StraightEdge, StraightCore, Shapes, IsFetch
  <1>4. n.lane[t].accepted = IF Accepts(k, w, t) THEN f.flag ELSE k.lane[t].accepted
    BY LaneFields
  <1>5. FetchMoves(k, w, n, t)
    BY FetchStepsOn
  <1>6. CASE FetchIndex(k) = L /\ f.valid /\ HasTaken(k, t)
    <2>1. n.lane[t].accepted = f.flag
      BY <1>4, <1>6 DEF HasTaken
    <2>. QED BY <1>2, <1>3, <1>5, <1>6, <2>1 DEF FetchMoves, JustDecoded, FetchIndex, HasTaken
  <1>7. CASE FetchIndex(k) = L + 1 /\ f.state = "WAIT" /\ HasTaken(k, t)
    <2>1. n.lane[t].accepted = f.flag
      BY <1>4, <1>7 DEF HasTaken
    <2>. QED BY <1>3, <1>5, <1>7, <2>1 DEF FetchMoves, JustDecoded, FetchIndex, HasTaken
  <1>8. CASE FetchIndex(k) = L + 1 /\ f.valid /\ ~HasTaken(k, t)
    <2>1. CASE Accepts(k, w, t)
      BY <1>1, <1>2, <1>3, <1>5, <1>8, <2>1 DEF FetchMoves, OneBehind, FetchIndex
    <2>2. CASE ~Accepts(k, w, t)
      <3>1. ~IdReady(k, w, t)
        BY <1>8, <2>2 DEF Accepts, IdReady, InstructionPending, HasTaken
      <3>2. n.fetch = f /\ n.lane[t].accepted = k.lane[t].accepted
        BY <1>3, <1>4, <1>5, <1>8, <2>2, <3>1 DEF FetchMoves, Active
      <3>. QED BY <1>8, <3>2 DEF JustDecoded, FetchIndex, HasTaken
    <2>. QED BY <2>1, <2>2
  <1>. QED BY <1>6, <1>7, <1>8 DEF JustDecoded

\* MEM is free after an edge at which the lane accepts an instruction with
\* another one in ID: the gap is then between EX and MEM.
LEMMA NothingHeld ==
  ASSUME NEW k, Shapes(k), Gaps(k), NEW w, NEW t \in Threads, Accepts(k, w, t),
         k.lane[t].id # NoOperands
  PROVE  MemReady(CoreNext(k, w), t)
  <1>1. k.lane[t].ex = NoItem
    BY DEF Gaps, Accepts
  <1>2. InMem(k, t) = NoItem
    BY <1>1 DEF InMem, Accepts, CanAccept
  <1>. QED BY <1>2, LaneFields DEF MemReady, PendingNext, NoItem, MemoryOps

\* The RET of a lane at work stays where the fetch stage says, and one edge
\* after it is written back the lane has none left in ID and EX.
LEMMA ActiveLane ==
  ASSUME NEW k, NEW w, NEW n, n = CoreNext(k, w),
         NEW program, StraightEdge(k, w, program), NEW t \in Threads,
         Active(k, t)
  PROVE  IF t \in Retiring(k) THEN n.lane[t].id.op # "RET" /\ n.lane[t].ex.op # "RET"
         ELSE ReturnInPlace(n, t, Len(program) - 1)
  <1>. DEFINE f == k.fetch
              l == k.lane[t]
              L == Len(program) - 1
  <1>1. FetchIndex(k) \in Nat /\ L + 1 = Len(program) /\ L \in Int
    BY StraightFacts DEF StraightEdge, StraightCore, StraightWires, FetchIndex
  <1>2. f.flag \in BOOLEAN /\ (f.state = "WAIT" => ~f.valid)
    BY DEF StraightEdge, StraightCore, Shapes, IsFetch
  <1>3. /\ n.lane[t].id.op = "RET" => \/ l.id.op = "RET" /\ ~MemReady(k, t)
                                      \/ Accepts(k, w, t) /\ f.instr.op = "RET"
        /\ n.lane[t].ex.op = "RET" => \/ l.ex.op = "RET" /\ ~MemReady(k, t)
                                      \/ l.id.op = "RET" /\ MemReady(k, t)
        /\ n.lane[t].wb.op = "RET" => MemReady(k, t) /\ l.ex.op = "RET"
        /\ n.lane[t].accepted = IF Accepts(k, w, t) THEN f.flag ELSE l.accepted
    BY ReturnFlow DEF StraightEdge, StraightCore
  <1>4. FetchMoves(k, w, n, t)
    BY FetchStepsOn
  <1>5. ReturnInPlace(k, t, L)
    BY DEF StraightEdge, StraightCore, InPlace, ReturnsInPlace
  <1>6. Accepts(k, w, t) => MemReady(k, t) /\ f.valid /\ ~HasTaken(k, t)
    BY DEF Accepts, CanAccept, InstructionPending, HasTaken
  \* The lane takes the RET: nothing of the kernel is behind it.
  <1>7. ASSUME Accepts(k, w, t), f.instr.op = "RET"
        PROVE  /\ FetchIndex(k) = L
               /\ l.id.op # "RET" /\ l.ex.op # "RET" /\ l.wb.op # "RET"
               /\ JustDecoded(n, t, L)
    <2>1. FetchIndex(k) = L
      BY <1>6, <1>7, StraightFacts
         DEF StraightEdge, StraightCore, StraightWires, InPlace, OfferInPlace, FetchIndex
    <2>2. k.pc \div 2 = L + 1
      BY <1>1, <1>6, <1>7, <2>1, NextBehind
    <2>3. l.id.op # "RET" /\ l.ex.op # "RET" /\ l.wb.op # "RET"
      <3>. HIDE DEF L
      <3>1. ~JustDecoded(k, t, L)
        BY <1>1, <1>6, <1>7, <2>1 DEF JustDecoded
      <3>2. ~OneBehind(k, L)
        BY <1>1, <2>1 DEF OneBehind
      <3>3. ~(FetchIndex(k) = L /\ f.valid /\ HasTaken(k, t)) /\ FetchIndex(k) \notin {L + 1, L + 2}
        BY <1>1, <1>6, <1>7, <2>1
      <3>. QED BY <1>5, <3>1, <3>2, <3>3 DEF ReturnInPlace
    <2>4. JustDecoded(n, t, L)
      BY <1>2, <1>3, <1>4, <1>6, <1>7, <2>1, <2>2 DEF FetchMoves, JustDecoded, FetchIndex, HasTaken
    <2>. QED BY <2>1, <2>3, <2>4
  <1>8. l.wb.op = "RET" => n.lane[t].id.op # "RET" /\ n.lane[t].ex.op # "RET"
    BY <1>3, <1>5, <1>7 DEF ReturnInPlace
  <1>9. ASSUME l.wb.op # "RET" PROVE ReturnInPlace(n, t, L)
    <2>1. ASSUME n.lane[t].id.op = "RET"
          PROVE  JustDecoded(n, t, L) /\ n.lane[t].ex.op # "RET" /\ n.lane[t].wb.op # "RET"
      <3>1. CASE l.id.op = "RET" /\ ~MemReady(k, t)
        <4>1. JustDecoded(n, t, L)
          BY <1>5, <1>6, <3>1, JustDecodedStep DEF ReturnInPlace, NoReturn
        <4>. QED BY <1>3, <1>5, <3>1, <4>1 DEF ReturnInPlace
      <3>2. CASE Accepts(k, w, t) /\ f.instr.op = "RET"
        BY <1>3, <1>7, <3>2
      <3>. QED BY <1>3, <2>1, <3>1, <3>2
    <2>2. ASSUME n.lane[t].ex.op = "RET"
          PROVE  /\ JustDecoded(n, t, L) \/ (MemReady(n, t) /\ OneBehind(n, L))
                 /\ n.lane[t].wb.op # "RET"
      <3>1. CASE l.ex.op = "RET" /\ ~MemReady(k, t)
        <4>1. JustDecoded(n, t, L)
          BY <1>5, <1>6, <3>1, JustDecodedStep DEF ReturnInPlace, NoReturn
        <4>. QED BY <1>3, <3>1, <4>1
      <3>2. CASE l.id.op = "RET" /\ MemReady(k, t)
        <4>1. n.lane[t].wb.op # "RET"
          BY <1>3, <1>5, <3>2 DEF ReturnInPlace
        <4>2. JustDecoded(n, t, L) \/ (Accepts(k, w, t) /\ OneBehind(n, L))
          BY <1>5, <3>2, JustDecodedStep DEF ReturnInPlace, NoReturn
        <4>3. Accepts(k, w, t) => MemReady(n, t)
          BY <3>2, NothingHeld DEF StraightEdge, StraightCore, NoOperands
        <4>. QED BY <4>1, <4>2, <4>3
      <3>. QED BY <1>3, <2>2, <3>1, <3>2
    <2>3. ASSUME n.lane[t].wb.op = "RET"
          PROVE  \/ FetchIndex(n) = L /\ n.fetch.valid /\ HasTaken(n, t)
                 \/ FetchIndex(n) \in {L + 1, L + 2}
      <3>1. MemReady(k, t) /\ l.ex.op = "RET"
        BY <1>3, <2>3
      <3>2. CASE JustDecoded(k, t, L)
        <4>1. JustDecoded(n, t, L) \/ OneBehind(n, L)
          BY <3>1, <3>2, JustDecodedStep DEF NoReturn
        <4>. QED BY <4>1 DEF JustDecoded, OneBehind
      <3>3. CASE OneBehind(k, L)
        <4>1. f.valid /\ FetchIndex(k) = L + 1 => k.pc \div 2 = L + 2
          BY <1>1, <3>1, NextBehind DEF NoReturn
        <4>. QED BY <1>2, <1>4, <3>3, <4>1 DEF OneBehind, FetchMoves, FetchIndex
      <3>. QED BY <1>5, <3>1, <3>2, <3>3 DEF ReturnInPlace
    <2>. QED BY <2>1, <2>2, <2>3 DEF ReturnInPlace
  <1>. QED BY <1>8, <1>9 DEF Retiring

\* A lane is at work after an edge when it was before and has not returned, or
\* when a block starts.
LEMMA ActiveAfter ==
  ASSUME NEW k, NEW w, NEW n, n = CoreNext(k, w),
         NEW program, StraightEdge(k, w, program), NEW t \in Threads
  PROVE  /\ k.running => (Active(n, t) <=> Active(k, t) /\ t \notin Retiring(k))
         /\ Active(n, t) /\ ~k.running => StartEdge(k, w)
  <1>1. k.running => (Active(n, t) <=> Active(k, t) /\ t \notin Retiring(k))
    BY RunningEdge DEF Active
  <1>2. ~k.running /\ ~StartEdge(k, w) => ~n.running
    BY CoreFields DEF RunningNext
  <1>. QED BY <1>1, <1>2 DEF Active

\* Each lane has its RET where the fetch stage says after an edge.
LEMMA ReturnsInPlaceStep ==
  ASSUME NEW k, NEW w, NEW n, n = CoreNext(k, w),
         NEW program, StraightEdge(k, w, program)
  PROVE  ReturnsInPlace(n, Len(program) - 1)
  <1>. SUFFICES ASSUME NEW t \in Threads
                PROVE  IF Active(n, t) THEN ReturnInPlace(n, t, Len(program) - 1)
                       ELSE n.lane[t].id.op # "RET" /\ n.lane[t].ex.op # "RET"
    BY DEF ReturnsInPlace
  <1>1. CASE Active(k, t)
    <2>1. Active(n, t) <=> t \notin Retiring(k)
      BY <1>1, ActiveAfter DEF Active
    <2>. QED BY <1>1, <2>1, ActiveLane
  <1>2. CASE ~Active(k, t)
    BY <1>2, IdleLane DEF NoReturn, ReturnInPlace
  <1>. QED BY <1>1, <1>2

\* The fetch stage moves on behind the last RET by the edge at which a block
\* ends.
LEMMA PastStep ==
  ASSUME NEW k, NEW w, NEW n, n = CoreNext(k, w),
         NEW program, StraightEdge(k, w, program)
  PROVE  PastBetweenBlocks(n, program)
  <1>. SUFFICES ASSUME ~n.running
                PROVE  (n.fetch.state # "WAIT" /\ ~n.fetch.valid) \/ FetchIndex(n) >= Len(program)
    BY DEF PastBetweenBlocks
  <1>. DEFINE f == k.fetch
  <1>1. FetchIndex(k) \in Nat /\ Len(program) \in Nat
    BY StraightFacts DEF StraightEdge, StraightCore, StraightWires, FetchIndex
  <1>2. /\ f.state = "WAIT" => ~f.valid
        /\ f.instr.op \notin {"BR", "JOIN"} /\ Shapes(k)
    BY DEF StraightEdge, StraightCore, Shapes, InPlace, OfferInPlace
  <1>3. CASE ~k.running
    <2>1. (f.state # "WAIT" /\ ~f.valid) \/ FetchIndex(k) >= Len(program)
      BY <1>3 DEF StraightEdge, StraightCore, InPlace, PastBetweenBlocks
    <2>2. n.fetch = f \/ (f.state = "WAIT" /\ n.fetch.pc = f.pc)
      BY <1>2, <1>3, StraightFetch
    <2>. QED BY <2>1, <2>2 DEF FetchIndex
  <1>4. CASE k.running
    <2>1. k.mask \subseteq Retiring(k) /\ k.mask \subseteq Threads
      BY <1>4, RunningEdge DEF StraightEdge, StraightCore, SomeoneRuns
    <2>2. PICK t \in k.mask : TRUE
      BY <1>4 DEF StraightEdge, StraightCore, SomeoneRuns
    <2>3. \A u \in k.mask : /\ Active(k, u) /\ ~NoReturn(k, u)
                            /\ \/ FetchIndex(k) = Len(program) - 1 /\ f.valid /\ HasTaken(k, u)
                               \/ FetchIndex(k) \in {Len(program), Len(program) + 1}
      BY <1>1, <1>4, <2>1
         DEF StraightEdge, StraightCore, InPlace, ReturnsInPlace, ReturnInPlace, Active,
             Retiring, NoReturn
    <2>4. f.valid \/ f.state = "WAIT"
      BY <2>1, <2>2, <2>3 DEF StraightEdge, StraightCore, InPlace, CaughtUp
    <2>5. f.valid => k.pc \div 2 = FetchIndex(k) + 1
      BY <1>1, <2>1, <2>2, <2>3, NextBehind
    <2>6. FetchIndex(k) = Len(program) - 1 => f.valid /\ \A u \in k.mask : IdReady(k, w, u)
      BY <1>1, <2>2, <2>3 DEF IdReady, InstructionPending, HasTaken
    <2>7. \/ f.state = "WAIT" /\ n.fetch.pc = f.pc
          \/ f.state # "WAIT" /\ n.fetch.pc = k.pc
          \/ n.fetch.pc = f.pc /\ ~(\A u \in k.mask : IdReady(k, w, u))
      BY <1>2, <1>4, StraightFetch
    <2>8. FetchIndex(k) \in {Len(program) - 1, Len(program), Len(program) + 1}
      BY <2>2, <2>3
    <2>9. FetchIndex(n) >= Len(program)
      <3>1. CASE FetchIndex(k) = Len(program) - 1
        <4>1. f.valid /\ f.state # "WAIT" /\ n.fetch.pc = k.pc
          BY <1>2, <2>6, <2>7, <3>1
        <4>. QED BY <1>1, <2>5, <3>1, <4>1 DEF FetchIndex
      <3>2. CASE FetchIndex(k) >= Len(program)
        <4>1. n.fetch.pc = f.pc \/ (k.pc \div 2 = FetchIndex(k) + 1 /\ n.fetch.pc = k.pc)
          BY <2>4, <2>5, <2>7
        <4>. QED BY <1>1, <3>2, <4>1 DEF FetchIndex
      <3>. QED BY <1>1, <2>8, <3>1, <3>2
    <2>. QED BY <2>9
  <1>. QED BY <1>3, <1>4

\* What is on offer after an edge is the kernel's.
LEMMA OfferInPlaceStep ==
  ASSUME NEW k, NEW w, NEW n, n = CoreNext(k, w),
         NEW program, StraightEdge(k, w, program)
  PROVE  OfferInPlace(n, program)
  <1>. DEFINE f == k.fetch
  <1>1. /\ FetchIndex(k) \in Nat /\ Len(program) \in Nat
        /\ w.fetched => w.instr = FetchAt(program, f.pc) /\ w.instr.op \notin {"BR", "JOIN"}
    BY StraightFacts
       DEF StraightEdge, StraightCore, StraightWires, FetchIndex, StaysTogether
  <1>2. /\ f.state = "WAIT" => ~f.valid
        /\ f.instr.op \notin {"BR", "JOIN"} /\ Shapes(k)
        /\ f.valid => f.instr = FetchAt(program, f.pc)
    BY DEF StraightEdge, StraightCore, Shapes, InPlace, OfferInPlace
  <1>3. /\ n.fetch = f \/ n.fetch.instr \in {Nop, w.instr}
        /\ ~w.fetched => n.fetch = f \/ n.fetch.instr = Nop
    <2>1. n.fetch = FetchNext(k, w)
      BY CoreFields
    <2>. QED BY <1>2, <2>1, FetchStep
  <1>4. n.fetch.instr.op \notin {"BR", "JOIN"}
    BY <1>1, <1>2, <1>3 DEF Nop, Instr
  <1>5. ASSUME n.fetch.valid
        PROVE  /\ n.fetch.instr = FetchAt(program, n.fetch.pc)
               /\ \/ n.pc = NextPc(n.fetch.pc)
                  \/ /\ FetchIndex(n) >= Len(program) /\ n.pc = 0
                     /\ \A t \in Threads : NoReturn(n, t)
    <2>1. \/ /\ f.state = "WAIT" /\ w.fetched
             /\ n.fetch.instr = w.instr /\ n.fetch.pc = f.pc
             /\ n.pc = IF StartEdge(k, w) THEN 0 ELSE NextPc(f.pc)
          \/ n.fetch = f /\ n.pc = IF StartEdge(k, w) THEN 0 ELSE k.pc
      BY <1>2, <1>5, StraightFetch
    <2>2. n.fetch.instr = FetchAt(program, n.fetch.pc) /\ n.fetch.pc = f.pc
      BY <1>1, <1>2, <1>5, <2>1
    <2>3. CASE StartEdge(k, w)
      <3>1. ~k.running
        BY <2>3 DEF StraightEdge, StraightWires, StartEdge
      <3>2. \A t \in Threads : NoReturn(n, t)
        BY <3>1, IdleLane DEF Active
      <3>3. FetchIndex(k) >= Len(program)
        BY <1>5, <2>1, <3>1 DEF StraightEdge, StraightCore, InPlace, PastBetweenBlocks
      <3>. QED BY <2>1, <2>2, <2>3, <3>2, <3>3 DEF FetchIndex
    <2>4. CASE ~StartEdge(k, w) /\ n.pc # NextPc(n.fetch.pc)
      <3>1. n.fetch = f /\ n.pc = k.pc /\ f.valid
        BY <1>5, <2>1, <2>2, <2>4
      <3>2. FetchIndex(k) >= Len(program) /\ k.pc = 0 /\ \A t \in Threads : NoReturn(k, t)
        BY <2>2, <2>4, <3>1 DEF StraightEdge, StraightCore, InPlace, OfferInPlace
      <3>3. f.instr.op # "RET"
        BY <1>1, <1>2, <3>1, <3>2, StraightFacts
           DEF StraightEdge, StraightCore, StraightWires, FetchIndex
      <3>4. \A t \in Threads : NoReturn(n, t)
        BY <1>2, <3>2, <3>3, NoReturnKept
      <3>. QED BY <2>2, <3>1, <3>2, <3>4 DEF FetchIndex
    <2>. QED BY <2>2, <2>3, <2>4
  <1>. QED BY <1>4, <1>5 DEF OfferInPlace

\* Before the next instruction of the kernel is asked for, each thread at work
\* has taken the one on offer.
LEMMA CaughtUpStep ==
  ASSUME NEW k, NEW w, NEW n, n = CoreNext(k, w),
         NEW program, StraightEdge(k, w, program)
  PROVE  CaughtUp(n, program)
  <1>. DEFINE f == k.fetch
  <1>1. /\ f.state = "WAIT" => ~f.valid
        /\ f.instr.op \notin {"BR", "JOIN"} /\ Shapes(k)
        /\ FetchIndex(k) \in Nat /\ Len(program) \in Nat
    BY StraightFacts
       DEF StraightEdge, StraightCore, StraightWires, Shapes, InPlace, OfferInPlace,
           FetchIndex
  <1>2. CaughtUp(k, program) /\ PastBetweenBlocks(k, program)
    BY DEF StraightEdge, StraightCore, InPlace
  <1>3. \A t \in Threads : n.lane[t].accepted = IF Accepts(k, w, t) THEN f.flag
                                                ELSE k.lane[t].accepted
    BY LaneFields
  <1>4. ~f.valid => \A t \in Threads : ~Accepts(k, w, t)
    BY DEF Accepts, InstructionPending
  <1>5. ASSUME n.fetch.state = "WAIT", FetchIndex(n) < Len(program),
               NEW t \in Threads, Active(n, t)
        PROVE  HasTaken(n, t)
    <2>1. \/ f.state # "WAIT" /\ k.running /\ (\A u \in k.mask : IdReady(k, w, u))
             /\ n.fetch.flag = f.flag
          \/ n.fetch = f
      BY <1>1, <1>5, StraightFetch
    <2>2. CASE f.state = "WAIT" /\ n.fetch = f
      <3>1. k.running
        BY <1>1, <1>2, <1>5, <2>2 DEF PastBetweenBlocks, FetchIndex
      <3>2. Active(k, t)
        BY <1>5, <3>1, ActiveAfter
      <3>3. HasTaken(k, t)
        BY <1>2, <1>5, <2>2, <3>2 DEF CaughtUp, FetchIndex
      <3>. QED BY <1>1, <1>3, <1>4, <2>2, <3>3 DEF HasTaken
    <2>3. CASE f.state # "WAIT" /\ k.running /\ (\A u \in k.mask : IdReady(k, w, u))
               /\ n.fetch.flag = f.flag
      <3>1. Active(k, t)
        BY <1>5, <2>3, ActiveAfter
      <3>2. CASE f.valid
        <4>1. IdReady(k, w, t)
          BY <2>3, <3>1 DEF Active
        <4>2. Accepts(k, w, t) \/ k.lane[t].accepted = f.flag
          BY <3>1, <3>2, <4>1 DEF IdReady, Accepts, InstructionPending
        <4>. QED BY <1>3, <2>3, <4>2 DEF HasTaken
      <3>3. CASE ~f.valid
        <4>1. HasTaken(k, t)
          BY <1>2, <2>3, <3>3 DEF CaughtUp
        <4>. QED BY <1>3, <1>4, <2>3, <3>3, <4>1 DEF HasTaken
      <3>. QED BY <3>2, <3>3
    <2>. QED BY <1>5, <2>1, <2>2, <2>3
  <1>6. ASSUME n.fetch.state # "WAIT", ~n.fetch.valid, NEW t \in Threads
        PROVE  HasTaken(n, t) /\ NoReturn(n, t)
    <2>1. n.fetch = f
      BY <1>1, <1>6, StraightFetch
    <2>2. HasTaken(k, t) /\ NoReturn(k, t) /\ ~Accepts(k, w, t)
      BY <1>2, <1>4, <1>6, <2>1 DEF CaughtUp
    <2>3. NoReturn(n, t)
      BY <1>1, <2>2, NoReturnKept
    <2>. QED BY <1>3, <2>1, <2>2, <2>3 DEF HasTaken
  <1>. QED BY <1>5, <1>6 DEF CaughtUp

\* An edge of the core keeps everything in place.
LEMMA InPlaceStep ==
  ASSUME NEW k, NEW w, NEW n, n = CoreNext(k, w),
         NEW program, StraightEdge(k, w, program)
  PROVE  InPlace(n, program)
  BY ReturnsInPlaceStep, OfferInPlaceStep, PastStep, CaughtUpStep DEF InPlace

\* The addresses stay those of program memory.
LEMMA AddressesStep ==
  ASSUME NEW k, NEW w, NEW n, n = CoreNext(k, w),
         NEW program, StraightEdge(k, w, program)
  PROVE  n.pc \in Addresses /\ n.fetch.pc \in Addresses
  <1>1. k.pc \in Addresses /\ k.fetch.pc \in Addresses /\ 0 \in Addresses
    BY PcAssumption DEF StraightEdge, StraightCore, Addresses
  <1>2. NextPc(k.fetch.pc) \in Addresses
    BY <1>1, NextAddress
  <1>3. Shapes(k) /\ k.fetch.instr.op \notin {"BR", "JOIN"}
    BY DEF StraightEdge, StraightCore, InPlace, OfferInPlace
  <1>. QED BY <1>1, <1>2, <1>3, StraightFetch

\* A core at work has a thread at work after every edge.
LEMMA SomeoneRunsStep ==
  ASSUME NEW k, NEW w, NEW n, n = CoreNext(k, w),
         NEW program, StraightEdge(k, w, program)
  PROVE  SomeoneRuns(n)
  <1>1. k.mask \subseteq Threads
    BY DEF StraightEdge, StraightCore, SomeoneRuns
  <1>2. CASE k.running
    BY <1>1, <1>2, RunningEdge DEF SomeoneRuns
  <1>3. CASE ~k.running /\ StartEdge(k, w)
    <2>1. n.mask = {t \in Threads : t < w.count}
      BY <1>3, CoreFields DEF MaskNext
    <2>2. 0 \in Threads /\ 0 < w.count
      BY <1>3 DEF StraightEdge, StraightWires
    <2>. QED BY <2>1, <2>2 DEF SomeoneRuns
  <1>4. CASE ~k.running /\ ~StartEdge(k, w)
    <2>1. n.mask = k.mask /\ ~n.running
      BY <1>4, CoreFields DEF MaskNext, RunningNext
    <2>. QED BY <1>1, <2>1 DEF SomeoneRuns
  <1>. QED BY <1>2, <1>3, <1>4

\* A lane whose RET is in write-back for good meets nothing in EX one edge
\* later, since it had a gap behind it.
LEMMA ReturnsOwnedStep ==
  ASSUME NEW k, NEW w, NEW n, n = CoreNext(k, w),
         NEW program, StraightEdge(k, w, program)
  PROVE  ReturnsOwned(n)
  <1>. SUFFICES ASSUME NEW t \in Threads, n.lane[t].wb.op = "RET"
                PROVE  Active(n, t) \/ n.lane[t].ex = NoItem
    BY DEF ReturnsOwned, Retiring
  <1>1. Shapes(k) /\ Gaps(k)
    BY DEF StraightEdge, StraightCore
  <1>2. MemReady(k, t) /\ k.lane[t].ex # NoItem /\ Active(k, t)
    <2>1. ~NoReturn(n, t)
      BY DEF NoReturn
    <2>. QED BY <1>1, <2>1, IdleLane, ReturnFlow
  <1>3. CASE t \in Retiring(k)
    <2>1. k.lane[t].wb # NoItem
      BY <1>3 DEF Retiring, NoItem
    <2>2. k.lane[t].id = NoOperands
      BY <1>1, <1>2, <2>1 DEF Gaps
    <2>3. n.lane[t].ex = ExNext(k, t)
      BY LaneFields
    <2>. QED BY <1>1, <1>2, <2>2, <2>3, DecodeStep
  <1>4. CASE t \notin Retiring(k)
    BY <1>2, <1>4, ActiveAfter DEF Active
  <1>. QED BY <1>3, <1>4

\* Nothing of the kernel is behind its last RET: what a lane takes behind it is
\* a NOP.
LEMMA NopBehind ==
  ASSUME NEW k, NEW w, NEW n, n = CoreNext(k, w),
         NEW program, StraightEdge(k, w, program), NEW t \in Threads,
         Accepts(k, w, t), k.lane[t].id.op = "RET"
  PROVE  n.lane[t].id.op \notin MemoryOps
  <1>1. FetchIndex(k) \in Nat /\ Len(program) \in Nat
    BY StraightFacts DEF StraightEdge, StraightCore, StraightWires, FetchIndex
  <1>2. Active(k, t) /\ k.fetch.valid /\ ~HasTaken(k, t)
    BY DEF Accepts, InstructionPending, HasTaken
  <1>3. JustDecoded(k, t, Len(program) - 1)
    BY <1>2 DEF StraightEdge, StraightCore, InPlace, ReturnsInPlace, ReturnInPlace
  <1>4. k.fetch.state # "WAIT"
    BY <1>2 DEF StraightEdge, StraightCore, Shapes
  <1>5. FetchIndex(k) = Len(program)
    BY <1>1, <1>2, <1>3, <1>4 DEF JustDecoded
  <1>6. k.fetch.instr = Nop
    BY <1>1, <1>2, <1>5 DEF StraightEdge, StraightCore, InPlace, OfferInPlace, FetchAt, FetchIndex
  <1>7. n.lane[t].id = Decoded(k, w, t)
    BY LaneFields DEF IdNext
  <1>. QED BY <1>6, <1>7 DEF Decoded, Nop, Instr, ArithOps, NoOperands, MemoryOps

\* A lane at work sends nothing to MEM behind its RET.
LEMMA FollowStep ==
  ASSUME NEW k, NEW w, NEW n, n = CoreNext(k, w),
         NEW program, StraightEdge(k, w, program), NEW t \in Threads, Active(k, t)
  PROVE  /\ n.lane[t].ex.op = "RET" => n.lane[t].id.op \notin MemoryOps
         /\ n.lane[t].wb.op = "RET" => n.lane[t].ex.op \notin MemoryOps /\ MemReady(n, t)
         /\ t \in Retiring(k) => MemReady(n, t)
  <1>. DEFINE l == k.lane[t]
  <1>0. NoItem.op \notin MemoryOps /\ NoOperands.op \notin MemoryOps /\ "RET" \notin MemoryOps
    BY DEF NoItem, NoOperands, MemoryOps
  <1>1. /\ l.ex.op = "RET" => l.id.op \notin MemoryOps
        /\ l.wb.op = "RET" => l.ex.op \notin MemoryOps /\ MemReady(k, t)
    BY DEF StraightEdge, StraightCore, NothingFollows
  <1>2. Shapes(k) /\ Gaps(k)
    BY DEF StraightEdge, StraightCore
  <1>3. /\ n.lane[t].id = IdNext(k, w, t) /\ n.lane[t].ex = ExNext(k, t)
        /\ n.lane[t].pending = PendingNext(k, w, t)
    BY LaneFields
  <1>4. MemReady(k, t) /\ l.ex.op \notin MemoryOps => MemReady(n, t)
    BY <1>0, <1>3 DEF PendingNext, InMem, MemReady
  <1>5. ASSUME n.lane[t].ex.op = "RET" PROVE n.lane[t].id.op \notin MemoryOps
    <2>1. CASE l.ex.op = "RET" /\ ~MemReady(k, t)
      BY <1>1, <1>2, <1>3, <2>1, DecodeStep
    <2>2. CASE l.id.op = "RET" /\ MemReady(k, t)
      <3>1. CASE Accepts(k, w, t)
        BY <2>2, <3>1, NopBehind
      <3>2. CASE ~Accepts(k, w, t)
        BY <1>0, <1>3, <2>2, <3>2 DEF IdNext
      <3>. QED BY <3>1, <3>2
    <2>. QED BY <1>2, <1>5, <2>1, <2>2, ReturnFlow
  <1>6. ASSUME n.lane[t].wb.op = "RET"
        PROVE  n.lane[t].ex.op \notin MemoryOps /\ MemReady(n, t)
    <2>1. MemReady(k, t) /\ l.ex.op = "RET"
      BY <1>2, <1>6, ReturnFlow
    <2>2. n.lane[t].ex.op \in {"NONE", l.id.op, l.ex.op}
      BY <1>3 DEF ExNext, Executed, NoItem
    <2>. QED BY <1>0, <1>1, <1>4, <2>1, <2>2 DEF MemoryOps
  <1>. QED BY <1>1, <1>4, <1>5, <1>6 DEF Retiring

\* Neither does any lane, and a lane that is not at work waits for no access.
LEMMA NothingFollowsStep ==
  ASSUME NEW k, NEW w, NEW n, n = CoreNext(k, w),
         NEW program, StraightEdge(k, w, program)
  PROVE  NothingFollows(n)
  <1>. SUFFICES ASSUME NEW t \in Threads
                PROVE  /\ n.lane[t].ex.op = "RET" => n.lane[t].id.op \notin MemoryOps
                       /\ n.lane[t].wb.op = "RET" =>
                            n.lane[t].ex.op \notin MemoryOps /\ MemReady(n, t)
                       /\ ~Active(n, t) => MemReady(n, t)
    BY DEF NothingFollows
  <1>1. CASE Active(k, t)
    <2>1. ~Active(n, t) => t \in Retiring(k)
      BY <1>1, ActiveAfter DEF Active
    <2>. QED BY <1>1, <2>1, FollowStep
  <1>2. CASE ~Active(k, t)
    <2>1. NoReturn(n, t)
      BY <1>2, IdleLane
    <2>2. MemReady(k, t)
      BY <1>2 DEF StraightEdge, StraightCore, NothingFollows
    <2>3. n.lane[t].pending = PendingNext(k, w, t)
      BY LaneFields
    <2>4. MemReady(n, t)
      BY <1>2, <2>2, <2>3 DEF PendingNext, InMem, MemReady, NoItem, MemoryOps
    <2>. QED BY <2>1, <2>4 DEF NoReturn
  <1>. QED BY <1>1, <1>2

\* An edge of a core that runs a kernel without branches, or is between two
\* blocks of it, keeps all of this.
LEMMA StraightStep ==
  ASSUME NEW k, NEW w, NEW program, StraightCore(k, program), StraightWires(k, w, program)
  PROVE  StraightCore(CoreNext(k, w), program)
  <1>1. StraightEdge(k, w, program)
    BY DEF StraightEdge
  <1>2. Shapes(CoreNext(k, w)) /\ Gaps(CoreNext(k, w))
    BY ShapesStep, GapsStep DEF StraightCore
  <1>. QED BY <1>1, <1>2, AddressesStep, SomeoneRunsStep, ReturnsOwnedStep, InPlaceStep,
              NothingFollowsStep
           DEF StraightCore

\* Reset has fetched nothing.
LEMMA StraightReset == \A program : StraightCore(ResetCore, program)
  <1>. SUFFICES ASSUME NEW program, NEW k, k = ResetCore
                PROVE  StraightCore(k, program)
    OBVIOUS
  <1>1. \A t \in Threads : k.lane[t] = ResetLane
    BY DEF ResetCore
  <1>2. Shapes(k) /\ Gaps(k)
    BY <1>1 DEF ResetCore, ResetLane, Shapes, Gaps, IsItem, IsFetch, NoItem
  <1>3. \A t \in Threads : HasTaken(k, t) /\ NoReturn(k, t)
    BY <1>1 DEF ResetCore, ResetLane, NoItem, NoOperands, HasTaken, NoReturn
  <1>4. InPlace(k, program)
    BY <1>3 DEF ResetCore, InPlace, ReturnsInPlace, Active, NoReturn, OfferInPlace,
                PastBetweenBlocks, CaughtUp, Nop, Instr
  <1>5. k.pc \in Addresses /\ k.fetch.pc \in Addresses /\ SomeoneRuns(k)
    BY PcAssumption DEF ResetCore, Addresses, SomeoneRuns
  <1>6. ReturnsOwned(k) /\ NothingFollows(k)
    BY <1>1 DEF ReturnsOwned, NothingFollows, Retiring, MemReady, ResetLane, NoItem
  <1>. QED BY <1>2, <1>4, <1>5, <1>6 DEF StraightCore

-----------------------------------------------------------------------------
(* Kernels without branches, computed by a lane: definitions.              *)

\* trace holds the states of a thread after 0 to n steps.
IsTrace(trace, program, words, b, t, n) ==
  /\ trace[0] = ThreadStart(words)
  /\ \A m \in 0 .. n - 1 : trace[m + 1] = ThreadStep(program, trace[m], b, t)

\* What is known of a trace of a straight-line kernel: instruction m follows
\* instruction m - 1 up to the RET, behind which nothing changes.
Straight(trace, program, words, n) ==
  \A m \in 0 .. n :
    /\ m < Len(program) => ~trace[m].returned
    /\ m <= Len(program) => trace[m].pc = 2 * m
    /\ Len(program) > 0 /\ m >= Len(program) =>
         trace[m].returned /\ trace[m].memory = trace[Len(program)].memory
    /\ trace[m].memory = [a \in Word |-> trace[m].memory[a]]
    /\ trace[m].gpr = [r \in Gprs |-> trace[m].gpr[r]]

\* The operands of instruction i when its registers hold x and y.
Reading(i, x, y) ==
  CASE i.op \in ArithOps -> [op |-> i.op, rd |-> i.rd, a |-> x, b |-> y]
    [] i.op \in {"CMP", "STR"} -> [op |-> i.op, rd |-> 0, a |-> x, b |-> y]
    [] i.op = "LDR" -> [op |-> "LDR", rd |-> i.rd, a |-> x, b |-> 0]
    [] i.op = "CONST" -> [op |-> "CONST", rd |-> i.rd, a |-> i.imm, b |-> 0]
    [] i.op = "RET" -> [NoOperands EXCEPT !.op = "RET"]
    [] OTHER -> [NoOperands EXCEPT !.op = "NOP"]

\* Two states agree on a set of registers and a set of words.
Agree(s, z, regs, words) ==
  /\ \A r \in regs : s.gpr[r] = z.gpr[r]
  /\ \A a \in words : s.memory[a] = z.memory[a]

\* A thread's registers and memory s when instruction i, out of EX, has gone
\* through MEM and WB.
Commit(s, i) ==
  [gpr |-> [r \in Gprs |-> IF i.op \in RegWriteOps /\ i.rd = r
                           THEN IF i.op = "LDR" THEN s.memory[i.value] ELSE i.value
                           ELSE s.gpr[r]],
   memory |-> [a \in Word |-> IF i.op = "STR" /\ i.value = a THEN i.data ELSE s.memory[a]]]

\* What lane t and memory hold when the instructions in the lane have gone
\* through: the one in ID/EX is the last, the one in write-back the first.
Drained(k, t, memory) ==
  LET l == k.lane[t]
  IN  Commit(Commit(Commit([gpr |-> GprNext(l), memory |-> memory], l.pending), l.ex), Executed(l.id))

\* How many instructions of the kernel lane t has taken.
Progress(k, t, program) ==
  IF k.fetch.state # "WAIT" /\ ~k.fetch.valid THEN 0
  ELSE IF FetchIndex(k) >= Len(program) THEN IF NoReturn(k, t) THEN 0 ELSE Len(program)
  ELSE FetchIndex(k) + IF k.fetch.valid /\ HasTaken(k, t) THEN 1 ELSE 0

\* An access is one of the thread's; a store carries what the thread stores.
AccessOf(i, trace, program, b, t) ==
   i.op \in MemoryOps =>
     /\ i.value \in Touched(program, trace, b, t)
     /\ i.op = "STR" => \E n \in 0 .. Len(program) - 1 :
           /\ InstrAt(program, n).op = "STR"
           /\ Address(program, trace[n], b, t) = i.value
           /\ trace[n + 1].memory[i.value] = i.data

\* Nothing, or an instruction without effect.
IdleOps == {"NONE", "NOP"}

\* A lane that is not at work has nothing in it that can have an effect.
Quiet(l) ==
  /\ l.id.op \in IdleOps /\ l.ex.op \in IdleOps /\ l.pending = NoItem
  /\ l.wb.op \in {"NONE", "NOP", "RET"}

\* Behind a RET there is nothing but NOPs.
NopsBehind(k, t) ==
  /\ k.lane[t].ex.op = "RET" => k.lane[t].id.op \in IdleOps
  /\ k.lane[t].wb.op = "RET" => /\ k.lane[t].id.op \in IdleOps /\ k.lane[t].ex.op \in IdleOps
                                /\ k.lane[t].pending = NoItem

\* Nothing is fetched yet: the first fetch is for the first instruction.
FromTheStart(k) == k.fetch.state # "WAIT" /\ ~k.fetch.valid => k.pc = 0

\* A lane that has taken the RET, the instruction on offer, holds it.
HoldsReturn(k, t, program) ==
  FetchIndex(k) = Len(program) - 1 /\ k.fetch.valid /\ HasTaken(k, t) => ~NoReturn(k, t)

\* The register file of a lane is one.
IsRegisters(l) == l.gpr = [r \in Gprs |-> l.gpr[r]]

\* An access of lane t in flight is one of the thread's.
Owns(k, t, program, trace, b) ==
  \A i \in {Executed(k.lane[t].id), k.lane[t].ex, k.lane[t].pending} :
    AccessOf(i, trace, program, b, t)

\* What memory does for lane t, of whose words the set is own, at an edge: a
\* word changes to what the store MEM waits for carries, at the latest when it
\* is answered, and a load is answered with the word.
LaneMemory(k, w, t, memory, after, own) ==
  LET i == k.lane[t].pending
  IN  /\ \A a \in own : after[a] = memory[a] \/ (i.op = "STR" /\ i.value = a /\ after[a] = i.data)
      /\ t \in w.answered =>
           /\ i # NoItem
           /\ i.op = "STR" => after[i.value] = i.data
           /\ i.op = "LDR" => w.word[t] = memory[i.value]

\* What the instructions in the lane say of the last ones taken.
InOrder(k, t, program) ==
  LET l == k.lane[t]
      p == Progress(k, t, program)
  IN  /\ l.id.op \in MemoryOps =>
           /\ p > 0 /\ InstrAt(program, p - 1).op = l.id.op
           /\ l.id.op = "LDR" => InstrAt(program, p - 1).rd = l.id.rd
      /\ l.ex.op \in MemoryOps /\ l.id = NoOperands =>
           p > 0 /\ InstrAt(program, p - 1).op \in MemoryOps
      /\ l.id.op = "LDR" /\ (~MemReady(k, t) \/ InstructionPending(k, t)) =>
           p > 1 /\ InstrAt(program, p - 2).op \in MemoryOps

\* An instruction in front of MEM writes a register that can be written.
WritesGprs(k, t) ==
  /\ k.lane[t].id.op \in RegWriteOps => k.lane[t].id.rd \in Gprs
  /\ k.lane[t].ex.op \in RegWriteOps => k.lane[t].ex.rd \in Gprs

\* The thread of lane t on its own, over a well-formed kernel.
Reference(program, words, trace, b, t, n) ==
  /\ StraightLine(program) /\ WellFormed(program) /\ IsMemory(words)
  /\ n \in Nat /\ Len(program) <= n
  /\ IsTrace(trace, program, words, b, t, n)
  /\ Touched(program, trace, b, t) \subseteq Word

\* With what is in its pipeline the lane has computed what its thread has after
\* as many instructions.
Computed(k, t, memory, program, trace, b) ==
  LET p == Progress(k, t, program)
  IN  Agree(Drained(k, t, memory), trace[p], Written(program, p), Touched(program, trace, b, t))

\* Lane t of block b is in step with the thread that runs on its own.
InStep(k, t, memory, program, trace, b) ==
  /\ IsRegisters(k.lane[t])
  /\ NopsBehind(k, t)
  /\ HoldsReturn(k, t, program)
  /\ WritesGprs(k, t)
  /\ InOrder(k, t, program)
  /\ Owns(k, t, program, trace, b)
  /\ Computed(k, t, memory, program, trace, b)

\* Some words of memory are as the thread leaves them at its RET.
AsLeft(program, trace, own, memory) ==
  \A a \in own : memory[a] = trace[Len(program)].memory[a]

-----------------------------------------------------------------------------
(* The reference: the trace of a thread, and what one instruction adds to it. *)

\* Induction over the natural numbers, for a set: what is proved by it below is
\* proved of a function that is defined along them.
LEMMA SetInduction ==
  ASSUME NEW S, 0 \in S, \A n \in Nat : n \in S => n + 1 \in S
  PROVE  Nat \subseteq S
  <1>. DEFINE U == Nat \ S
  <1>. SUFFICES ASSUME U # {} PROVE FALSE
    OBVIOUS
  <1>1. IsWellFoundedOn({ss \in Nat \X Nat : ss[1] < ss[2]}, Nat)
    BY NatLessThanWellFounded DEF OpToRel
  <1>2. PICK n \in U : \A m \in U : <<m, n>> \notin {ss \in Nat \X Nat : ss[1] < ss[2]}
    <2>. DEFINE R == {ss \in Nat \X Nat : ss[1] < ss[2]}
    <2>1. U \subseteq Nat /\ U # {} /\ IsWellFoundedOn(R, Nat)
      BY <1>1
    <2>. HIDE DEF U, R
    <2>2. \E n \in U : \A m \in U : ~(<<m, n>> \in R)
      BY <2>1, WFMin
    <2>. QED BY <2>2 DEF R
  <1>3. n \in Nat /\ n # 0 /\ n \notin S
    BY <1>2
  <1>4. n - 1 \in Nat /\ n - 1 < n /\ (n - 1) + 1 = n
    BY <1>3
  <1>5. n - 1 \notin U
    <2>1. <<n - 1, n>> \in {ss \in Nat \X Nat : ss[1] < ss[2]}
      BY <1>3, <1>4
    <2>. QED BY <1>2, <2>1
  <1>. QED BY <1>3, <1>4, <1>5

\* ThreadTrace starts with the thread's first state and follows its steps.
LEMMA TraceDefined ==
  ASSUME NEW program, NEW words, NEW b, NEW t, NEW n \in Nat
  PROVE  IsTrace(ThreadTrace(program, words, b, t, n), program, words, b, t, n)
  <1>. DEFINE Defines(f, m) ==
               f = [x \in 0 .. m |-> IF x = 0 THEN ThreadStart(words)
                                     ELSE ThreadStep(program, f[x - 1], b, t)]
              S == {m \in Nat : \E f : Defines(f, m)}
              T == ThreadTrace(program, words, b, t, n)
  <1>1. 0 \in S
    <2>1. Defines([x \in 0 .. 0 |-> ThreadStart(words)], 0)
      OBVIOUS
    <2>. HIDE DEF Defines
    <2>. QED BY <2>1
  <1>2. ASSUME NEW m \in Nat, m \in S PROVE m + 1 \in S
    <2>1. PICK f : Defines(f, m)
      BY <1>2
    <2>. DEFINE g == [x \in 0 .. m + 1 |-> IF x = m + 1 THEN ThreadStep(program, f[m], b, t)
                                           ELSE f[x]]
    <2>2. /\ g = [x \in 0 .. m + 1 |-> g[x]]
          /\ g[m + 1] = ThreadStep(program, f[m], b, t)
          /\ \A x \in 0 .. m : g[x] = f[x]
      OBVIOUS
    <2>. HIDE DEF g
    <2>3. ASSUME NEW x \in 0 .. m + 1
          PROVE  g[x] = IF x = 0 THEN ThreadStart(words) ELSE ThreadStep(program, g[x - 1], b, t)
      <3>1. CASE x = m + 1
        BY <2>2, <3>1
      <3>2. CASE x # m + 1
        <4>1. x \in 0 .. m /\ (x # 0 => x - 1 \in 0 .. m)
          BY <3>2
        <4>2. f[x] = IF x = 0 THEN ThreadStart(words) ELSE ThreadStep(program, f[x - 1], b, t)
          BY <2>1, <4>1
        <4>. QED BY <2>2, <4>1, <4>2
      <3>. QED BY <3>1, <3>2
    <2>4. Defines(g, m + 1)
      BY <2>2, <2>3
    <2>. HIDE DEF Defines
    <2>. QED BY <2>4
  <1>3. \E f : Defines(f, n)
    <2>1. Nat \subseteq S
      <3>. HIDE DEF S
      <3>. QED BY <1>1, <1>2, SetInduction
    <2>. QED BY <2>1
  <1>4. T = CHOOSE f : Defines(f, n)
    BY DEF ThreadTrace
  <1>5. Defines(T, n)
    <2>. HIDE DEF Defines, T
    <2>. QED BY <1>3, <1>4
  <1>. HIDE DEF T
  <1>. QED BY <1>5 DEF IsTrace, T

\* The addresses of a straight-line kernel: instruction m is fetched at 2 * m
\* and followed by the next one, and the last one is the RET.
LEMMA ProgramAddresses ==
  ASSUME NEW program, StraightLine(program), NEW m \in Nat, m <= Len(program)
  PROVE  /\ Len(program) \in Nat /\ 2 * m \in Addresses /\ (2 * m) \div 2 = m
         /\ NextPc(2 * m) = 2 * (m + 1)
         /\ InstrAt(program, m).op # "BR"
         /\ InstrAt(program, m).op = "RET" <=> m = Len(program) - 1
  <1>1. Len(program) \in Nat /\ 2 * Len(program) + 6 <= PcSpace /\ PcSpace \in Nat
    BY PcAssumption DEF StraightLine
  <1>2. 2 * m \in Nat /\ 2 * m + 2 < PcSpace /\ (2 * m) \div 2 = m
    BY <1>1
  <1>3. 2 * m \in Addresses
    BY <1>1, <1>2 DEF Addresses
  <1>4. NextPc(2 * m) = 2 * (m + 1)
    BY <1>1, <1>2 DEF NextPc
  <1>5. FetchAt(program, 2 * m).op \notin {"BR", "JOIN"}
        /\ (FetchAt(program, 2 * m).op = "RET" <=> (2 * m) \div 2 = Len(program) - 1)
    BY <1>3 DEF StraightLine
  <1>. QED BY <1>1, <1>2, <1>3, <1>4, <1>5 DEF InstrAt

\* A thread of a straight-line kernel is at instruction m after m steps.
LEMMA StraightTrace ==
  ASSUME NEW program, StraightLine(program), NEW words, IsMemory(words), NEW b, NEW t,
         NEW n \in Nat, NEW trace, IsTrace(trace, program, words, b, t, n)
  PROVE  Straight(trace, program, words, n)
  <1>. DEFINE L == Len(program)
              OK(m) == /\ m < L => ~trace[m].returned
                       /\ m <= L => trace[m].pc = 2 * m
                       /\ L > 0 /\ m >= L =>
                            trace[m].returned /\ trace[m].memory = trace[L].memory
                       /\ trace[m].memory = [a \in Word |-> trace[m].memory[a]]
                       /\ trace[m].gpr = [r \in Gprs |-> trace[m].gpr[r]]
              S == {m \in Nat : m <= n => OK(m)}
  <1>0. L \in Nat
    BY DEF StraightLine
  <1>1. 0 \in S
    <2>1. trace[0] = ThreadStart(words)
      BY DEF IsTrace
    <2>2. /\ trace[0].pc = 0 /\ trace[0].returned = FALSE /\ trace[0].memory = words
          /\ trace[0].gpr = [r \in Gprs |-> 0]
      BY <2>1 DEF ThreadStart
    <2>3. OK(0)
      BY <1>0, <2>2 DEF IsMemory
    <2>. QED BY <2>3
  <1>2. ASSUME NEW m \in Nat, m \in S PROVE m + 1 \in S
    <2>. SUFFICES ASSUME m + 1 <= n PROVE OK(m + 1)
      OBVIOUS
    <2>. DEFINE s == trace[m]
                z == trace[m + 1]
    <2>1. OK(m) /\ z = ThreadStep(program, s, b, t)
      BY <1>2 DEF IsTrace
    <2>2. CASE s.returned
      <3>1. z = s
        BY <2>1, <2>2 DEF ThreadStep
      <3>2. ~(m < L)
        BY <2>1, <2>2
      <3>3. L > 0 => m >= L /\ m + 1 >= L
        BY <1>0, <3>2
      <3>4. CASE L > 0
        <4>1. m + 1 > L /\ ~(m + 1 < L)
          BY <1>0, <3>2
        <4>. HIDE DEF L
        <4>. QED BY <1>0, <2>1, <3>1, <3>3, <3>4, <4>1
      <3>5. CASE ~(L > 0)
        <4>1. ~(m + 1 < L) /\ ~(m + 1 <= L)
          BY <1>0, <3>5
        <4>. QED BY <2>1, <3>1, <3>5, <4>1
      <3>. QED BY <3>4, <3>5
    <2>3. CASE ~s.returned
      <3>1. L > 0 => m < L
        BY <1>0, <2>1, <2>3
      <3>. DEFINE i == FetchAt(program, s.pc)
      <3>8. /\ z.pc = IF i.op = "BR" /\ Taken(i, s.nzp) THEN i.imm ELSE NextPc(s.pc)
            /\ z.returned = (i.op = "RET")
        BY <2>1, <2>3 DEF ThreadStep
      <3>2. /\ z.pc = IF i.op = "BR" /\ Taken(i, s.nzp) THEN i.imm ELSE NextPc(s.pc)
            /\ i.op = "RET" => z.returned
            /\ i.op # "RET" => ~z.returned
        <4>. HIDE DEF i, z, s
        <4>1. CASE i.op = "RET"
          <5>1. z.returned = TRUE
            BY <3>8, <4>1, Zenon
          <5>. QED BY <3>8, <4>1, <5>1
        <4>2. CASE i.op # "RET"
          <5>1. z.returned = FALSE
            BY <3>8, <4>2, Zenon
          <5>. QED BY <3>8, <4>2, <5>1
        <4>. QED BY <4>1, <4>2
      <3>. DEFINE a == IF i.op = "CONST" THEN i.imm ELSE RegisterValue(s.gpr, i.rs, b, t)
                  c == RegisterValue(s.gpr, i.rt, b, t)
                  v == IF i.op = "LDR" THEN s.memory[a] ELSE Execute(i.op, a, c)
      <3>7. /\ z.memory = IF i.op = "STR" THEN [s.memory EXCEPT ![a] = c] ELSE s.memory
            /\ z.gpr = IF i.op \in RegWriteOps /\ i.rd \in Gprs THEN [s.gpr EXCEPT ![i.rd] = v]
                      ELSE s.gpr
        BY <2>1, <2>3 DEF ThreadStep
      <3>3. z.memory = [x \in Word |-> z.memory[x]]
        <4>. HIDE DEF a, c, i, s, z
        <4>1. s.memory = [x \in Word |-> s.memory[x]]
          BY <2>1 DEF s
        <4>. QED BY <3>7, <4>1
      <3>4. z.gpr = [r \in Gprs |-> z.gpr[r]]
        <4>. HIDE DEF a, c, v, i, s, z
        <4>1. s.gpr = [r \in Gprs |-> s.gpr[r]]
          BY <2>1 DEF s
        <4>. QED BY <3>7, <4>1
      <3>5. CASE L > 0
        <4>1. i = InstrAt(program, m) /\ s.pc = 2 * m
          BY <1>0, <2>1, <3>1, <3>5 DEF InstrAt
        <4>2. /\ NextPc(2 * m) = 2 * (m + 1) /\ i.op # "BR"
              /\ i.op = "RET" <=> m = L - 1
          BY <1>0, <3>1, <3>5, <4>1, ProgramAddresses
        <4>3. z.pc = 2 * (m + 1)
          BY <3>2, <4>1, <4>2
        <4>4. m + 1 < L => ~z.returned
          BY <1>0, <3>2, <4>2
        <4>5. m + 1 >= L => m + 1 = L /\ z.returned
          BY <1>0, <3>1, <3>2, <3>5, <4>2
        <4>. QED BY <3>3, <3>4, <4>3, <4>4, <4>5
      <3>6. CASE ~(L > 0)
        <4>1. ~(m + 1 < L) /\ ~(m + 1 <= L)
          BY <1>0, <3>6
        <4>. QED BY <3>3, <3>4, <3>6, <4>1
      <3>. QED BY <3>5, <3>6
    <2>. QED BY <2>2, <2>3
  <1>3. Nat \subseteq S
    <2>. HIDE DEF S
    <2>. QED BY <1>1, <1>2, SetInduction
  <1>4. ASSUME NEW m \in 0 .. n PROVE OK(m)
    BY <1>3
  <1>. QED BY <1>4 DEF Straight

\* The fields of the operands a decoder hands to EX.
LEMMA ReadingFields ==
  ASSUME NEW i, NEW x, NEW y, NEW d, d = Reading(i, x, y)
  PROVE  /\ d.op = IF i.op \in RegWriteOps \cup {"CMP", "STR", "RET"} THEN i.op ELSE "NOP"
         /\ i.op \in RegWriteOps => d.rd = i.rd
         /\ i.op \in ArithOps \cup {"CMP", "STR"} => d.a = x /\ d.b = y
         /\ i.op = "LDR" => d.a = x
         /\ i.op = "CONST" => d.a = i.imm
         /\ d # NoOperands
  <1>1. CASE i.op \in ArithOps
    BY <1>1 DEF Reading, ArithOps, RegWriteOps, NoOperands
  <1>2. CASE i.op \in {"CMP", "STR"}
    BY <1>2 DEF Reading, ArithOps, RegWriteOps, NoOperands
  <1>3. CASE i.op = "LDR"
    BY <1>3 DEF Reading, ArithOps, RegWriteOps, NoOperands
  <1>4. CASE i.op = "CONST"
    BY <1>4 DEF Reading, ArithOps, RegWriteOps, NoOperands
  <1>5. CASE i.op = "RET"
    BY <1>5 DEF Reading, ArithOps, RegWriteOps, NoOperands
  <1>6. CASE i.op \notin RegWriteOps \cup {"CMP", "STR", "RET"}
    <2>1. d = [NoOperands EXCEPT !.op = "NOP"]
      BY <1>6 DEF Reading, ArithOps, RegWriteOps
    <2>. QED BY <1>6, <2>1 DEF ArithOps, RegWriteOps, NoOperands
  <1>. QED BY <1>1, <1>2, <1>3, <1>4, <1>5, <1>6 DEF RegWriteOps

\* The fields of what EX hands to MEM.
LEMMA ExecutedFields ==
  ASSUME NEW d
  PROVE  /\ d # NoOperands => /\ Executed(d).op = d.op /\ Executed(d).rd = d.rd
                              /\ Executed(d).value = Execute(d.op, d.a, d.b)
                              /\ d.op = "STR" => Executed(d).data = d.b
         /\ d = NoOperands => Executed(d) = NoItem
         /\ Executed(d).op = d.op
  BY DEF Executed, NoOperands, NoItem

\* What EX makes of a decoded instruction, from the values of its registers.
LEMMA ExecutedReading ==
  ASSUME NEW i, NEW x, NEW y, NEW e, e = Executed(Reading(i, x, y))
  PROVE  /\ e.op = IF i.op \in RegWriteOps \cup {"CMP", "STR", "RET"} THEN i.op ELSE "NOP"
         /\ i.op \in RegWriteOps => e.rd = i.rd
         /\ i.op \in ArithOps => e.value = Execute(i.op, x, y)
         /\ i.op = "CONST" => e.value = Execute("CONST", i.imm, y)
         /\ i.op \in MemoryOps => e.value = x
         /\ i.op = "STR" => e.data = y
  <1>. DEFINE d == Reading(i, x, y)
  <1>1. /\ d.op = IF i.op \in RegWriteOps \cup {"CMP", "STR", "RET"} THEN i.op ELSE "NOP"
        /\ i.op \in RegWriteOps => d.rd = i.rd
        /\ i.op \in ArithOps \cup {"CMP", "STR"} => d.a = x /\ d.b = y
        /\ i.op = "LDR" => d.a = x
        /\ i.op = "CONST" => d.a = i.imm
        /\ d # NoOperands
    BY ReadingFields
  <1>2. /\ e.op = d.op /\ e.rd = d.rd /\ e.value = Execute(d.op, d.a, d.b)
        /\ d.op = "STR" => e.data = d.b
    <2>. HIDE DEF d
    <2>1. e = Executed(d)
      BY DEF d
    <2>. QED BY <1>1, <2>1, ExecutedFields
  <1>. HIDE DEF d
  <1>3. \A u, v : /\ Execute("LDR", u, v) = u /\ Execute("STR", u, v) = u
                  /\ Execute("CONST", u, v) = u
    BY DEF Execute, MemoryOps
  <1>. QED BY <1>1, <1>2, <1>3 DEF RegWriteOps, MemoryOps, ArithOps

\* A thread's step is what its instruction leaves when it has gone through the
\* pipeline.
LEMMA TraceStep ==
  ASSUME NEW program, StraightLine(program), NEW words, NEW b, NEW t,
         NEW n \in Nat, NEW trace, IsTrace(trace, program, words, b, t, n),
         Straight(trace, program, words, n),
         NEW m \in Nat, m < n, m < Len(program)
  PROVE  LET i == InstrAt(program, m)
             x == RegisterValue(trace[m].gpr, i.rs, b, t)
             y == RegisterValue(trace[m].gpr, i.rt, b, t)
         IN  /\ Agree(trace[m + 1], Commit(trace[m], Executed(Reading(i, x, y))), Gprs, Word)
             /\ x = Address(program, trace[m], b, t)
  <1>. DEFINE i == InstrAt(program, m)
              s == trace[m]
              z == trace[m + 1]
              x == RegisterValue(s.gpr, i.rs, b, t)
              y == RegisterValue(s.gpr, i.rt, b, t)
              e == Executed(Reading(i, x, y))
              a == IF i.op = "CONST" THEN i.imm ELSE x
              v == IF i.op = "LDR" THEN s.memory[a] ELSE Execute(i.op, a, y)
  <1>1. /\ s.pc = 2 * m /\ ~s.returned
        /\ s.memory = [c \in Word |-> s.memory[c]]
        /\ s.gpr = [r \in Gprs |-> s.gpr[r]]
    <2>1. m \in 0 .. n /\ Len(program) \in Nat
      BY DEF StraightLine
    <2>2. m <= Len(program)
      BY <2>1
    <2>. QED BY <2>1, <2>2 DEF Straight
  <1>2. z = ThreadStep(program, s, b, t)
    BY DEF IsTrace
  <1>3. FetchAt(program, s.pc) = i
    BY <1>1 DEF InstrAt
  <1>4. /\ z.memory = IF i.op = "STR" THEN [s.memory EXCEPT ![a] = y] ELSE s.memory
        /\ z.gpr = IF i.op \in RegWriteOps /\ i.rd \in Gprs THEN [s.gpr EXCEPT ![i.rd] = v]
                   ELSE s.gpr
    <2>. HIDE DEF i, s, z
    <2>. QED BY <1>1, <1>2, <1>3 DEF ThreadStep
  <1>10. e = Executed(Reading(i, x, y))
    OBVIOUS
  <1>6. x = Address(program, s, b, t)
    BY <1>3 DEF Address
  <1>. HIDE DEF i, x, y, e, s, z
  <1>5. /\ e.op = IF i.op \in RegWriteOps \cup {"CMP", "STR", "RET"} THEN i.op ELSE "NOP"
        /\ i.op \in RegWriteOps => e.rd = i.rd
        /\ i.op \in ArithOps => e.value = Execute(i.op, x, y)
        /\ i.op = "CONST" => e.value = Execute("CONST", i.imm, y)
        /\ i.op \in MemoryOps => e.value = x
        /\ i.op = "STR" => e.data = y
    BY <1>10, ExecutedReading
  <1>7. /\ "STR" \notin RegWriteOps /\ "NOP" \notin RegWriteOps /\ "LDR" \in MemoryOps
        /\ "STR" \in MemoryOps /\ "CMP" \notin RegWriteOps /\ "RET" \notin RegWriteOps
        /\ "CONST" \notin ArithOps /\ "LDR" \notin ArithOps
        /\ RegWriteOps = ArithOps \cup {"LDR", "CONST"}
    BY DEF RegWriteOps, ArithOps, MemoryOps
  <1>8. ASSUME NEW c \in Word PROVE z.memory[c] = Commit(s, e).memory[c]
    <2>1. Commit(s, e).memory[c] = IF e.op = "STR" /\ e.value = c THEN e.data ELSE s.memory[c]
      BY DEF Commit
    <2>2. CASE i.op = "STR"
      <3>1. a = x
        BY <2>2
      <3>2. z.memory[c] = IF c = x THEN y ELSE s.memory[c]
        <4>. HIDE DEF a
        <4>. QED BY <1>1, <1>4, <2>2, <3>1
      <3>. QED BY <1>5, <1>7, <2>1, <2>2, <3>2
    <2>3. CASE i.op # "STR"
      BY <1>4, <1>5, <1>7, <2>1, <2>3
    <2>. QED BY <2>2, <2>3
  <1>9. ASSUME NEW r \in Gprs PROVE z.gpr[r] = Commit(s, e).gpr[r]
    <2>1. Commit(s, e).gpr[r] = IF e.op \in RegWriteOps /\ e.rd = r
                                THEN IF e.op = "LDR" THEN s.memory[e.value] ELSE e.value
                                ELSE s.gpr[r]
      BY DEF Commit
    <2>2. CASE i.op \in RegWriteOps
      <3>1. z.gpr[r] = IF i.rd = r THEN v ELSE s.gpr[r]
        <4>. HIDE DEF v
        <4>. QED BY <1>1, <1>4, <2>2
      <3>2. v = IF e.op = "LDR" THEN s.memory[e.value] ELSE e.value
        BY <1>5, <1>7, <2>2
      <3>3. e.op = i.op /\ e.rd = i.rd
        BY <1>5, <2>2
      <3>. QED BY <2>1, <2>2, <3>1, <3>2, <3>3
    <2>3. CASE i.op \notin RegWriteOps
      BY <1>4, <1>5, <1>7, <2>1, <2>3
    <2>. QED BY <2>2, <2>3
  <1>. QED BY <1>6, <1>8, <1>9 DEF Agree, i, x, y, e, s, z

\* In the first n steps of the trace the word is as it was.
KeepsWord(trace, words, n, a) == \A m \in 0 .. n : trace[m].memory[a] = words[a]

\* A word the thread stores nothing to keeps its value.
LEMMA OnlyStored ==
  ASSUME NEW program, StraightLine(program), NEW words, NEW b, NEW t,
         NEW n \in Nat, NEW trace, IsTrace(trace, program, words, b, t, n),
         Straight(trace, program, words, n), Len(program) > 0,
         NEW a \in Word, a \notin StoredTo(program, trace, b, t)
  PROVE  KeepsWord(trace, words, n, a)
  <1>. SUFFICES \A m \in 0 .. n : trace[m].memory[a] = words[a]
    BY DEF KeepsWord
  <1>. DEFINE S == {m \in Nat : m <= n => trace[m].memory[a] = words[a]}
  <1>1. 0 \in S
    BY DEF IsTrace, ThreadStart
  <1>2. ASSUME NEW m \in Nat, m \in S PROVE m + 1 \in S
    <2>. SUFFICES ASSUME m < n, trace[m].memory[a] = words[a]
                  PROVE  trace[m + 1].memory[a] = words[a]
      BY <1>2
    <2>. HIDE DEF S
    <2>0. Len(program) \in Nat
      BY DEF StraightLine
    <2>1. CASE m < Len(program)
      <3>. DEFINE i == InstrAt(program, m)
                  x == RegisterValue(trace[m].gpr, i.rs, b, t)
                  y == RegisterValue(trace[m].gpr, i.rt, b, t)
                  e == Executed(Reading(i, x, y))
      <3>0. StraightLine(program) /\ m \in Nat /\ m < n /\ m < Len(program)
        BY <2>1
      <3>1. /\ Agree(trace[m + 1], Commit(trace[m], e), Gprs, Word)
            /\ x = Address(program, trace[m], b, t)
        BY <3>0, TraceStep
      <3>2. i.op = "STR" => x # a
        BY <2>0, <2>1, <3>1 DEF StoredTo
      <3>3. e = Executed(Reading(i, x, y))
        OBVIOUS
      <3>. HIDE DEF i, x, y, e
      <3>4. e.op = "STR" => i.op = "STR" /\ e.value = x
        BY <3>3, ExecutedReading DEF MemoryOps
      <3>5. Commit(trace[m], e).memory[a] = IF e.op = "STR" /\ e.value = a THEN e.data
                                            ELSE trace[m].memory[a]
        BY DEF Commit
      <3>6. trace[m + 1].memory[a] = Commit(trace[m], e).memory[a]
        BY <3>1 DEF Agree
      <3>. QED BY <3>2, <3>4, <3>5, <3>6
    <2>2. CASE ~(m < Len(program))
      <3>0. m \in 0 .. n /\ m + 1 \in 0 .. n /\ m >= Len(program) /\ m + 1 >= Len(program)
        BY <2>0, <2>2
      <3>1. /\ trace[m].memory = trace[Len(program)].memory
            /\ trace[m + 1].memory = trace[Len(program)].memory
        BY <3>0 DEF Straight
      <3>. QED BY <3>1
    <2>. QED BY <2>1, <2>2
  <1>3. Nat \subseteq S
    <2>. HIDE DEF S
    <2>. QED BY <1>1, <1>2, SetInduction
  <1>. QED BY <1>3

-----------------------------------------------------------------------------
(* What follows a RET, and how far a lane has come in the kernel.          *)

\* While a RET is in a lane, the fetch stage is no further than two behind it.
LEMMA ReturnNear ==
  ASSUME NEW k, NEW w, NEW program, StraightEdge(k, w, program), NEW t \in Threads,
         Active(k, t), ~NoReturn(k, t)
  PROVE  /\ FetchIndex(k) \in Nat /\ Len(program) \in Nat
         /\ FetchIndex(k) \in {Len(program) - 1, Len(program), Len(program) + 1}
         /\ k.fetch.valid /\ ~HasTaken(k, t) => FetchIndex(k) >= Len(program)
         /\ k.fetch.valid => FetchIndex(k) <= Len(program) + 1
  <1>. DEFINE L == Len(program) - 1
  <1>1. FetchIndex(k) \in Nat /\ Len(program) \in Nat /\ L \in Int /\ Len(program) = L + 1
    BY StraightFacts DEF StraightEdge, StraightCore, StraightWires, FetchIndex
  <1>2. k.fetch.valid => k.fetch.state # "WAIT"
    BY DEF StraightEdge, StraightCore, Shapes
  <1>3. ReturnInPlace(k, t, L)
    BY DEF StraightEdge, StraightCore, InPlace, ReturnsInPlace
  <1>. HIDE DEF L
  <1>4. JustDecoded(k, t, L) \/ OneBehind(k, L) \/ FetchIndex(k) \in {L + 1, L + 2}
    BY <1>3 DEF ReturnInPlace, NoReturn, JustDecoded
  <1>5. JustDecoded(k, t, L) =>
          /\ FetchIndex(k) \in {L, L + 1}
          /\ k.fetch.valid /\ ~HasTaken(k, t) => FetchIndex(k) = L + 1
    BY <1>1, <1>2 DEF JustDecoded
  <1>6. OneBehind(k, L) => FetchIndex(k) \in {L + 1, L + 2}
    BY DEF OneBehind
  <1>7. \/ FetchIndex(k) \in {L + 1, L + 2}
        \/ FetchIndex(k) = L /\ (k.fetch.valid => HasTaken(k, t))
    BY <1>1, <1>4, <1>5, <1>6
  <1>8. FetchIndex(k) \in {L, L + 1, L + 2}
    BY <1>7
  <1>. QED BY <1>1, <1>7, <1>8

\* What a lane takes behind its RET is a NOP.
LEMMA NopTaken ==
  ASSUME NEW k, NEW w, NEW program, StraightEdge(k, w, program), NEW t \in Threads,
         Accepts(k, w, t), FetchIndex(k) >= Len(program)
  PROVE  k.fetch.instr = Nop /\ IdNext(k, w, t).op = "NOP"
  <1>1. FetchIndex(k) \in Nat /\ Len(program) \in Nat
    BY StraightFacts DEF StraightEdge, StraightCore, StraightWires, FetchIndex
  <1>2. k.fetch.valid
    BY DEF Accepts, InstructionPending
  <1>3. k.fetch.instr = Nop
    BY <1>1, <1>2 DEF StraightEdge, StraightCore, InPlace, OfferInPlace, FetchAt, FetchIndex
  <1>4. IdNext(k, w, t) = Decoded(k, w, t)
    BY DEF IdNext
  <1>. QED BY <1>3, <1>4 DEF Decoded, Nop, Instr, ArithOps, NoOperands

\* A lane at work that does not accept leaves ID empty, or as it is when MEM is
\* held up.
LEMMA DecodeActive ==
  ASSUME NEW k, NEW w, NEW t \in Threads, Active(k, t)
  PROVE  /\ MemReady(k, t) => /\ ExNext(k, t) = Executed(k.lane[t].id)
                              /\ ~Accepts(k, w, t) => IdNext(k, w, t) = NoOperands
         /\ ~MemReady(k, t) => /\ ExNext(k, t) = k.lane[t].ex
                               /\ IdNext(k, w, t) = k.lane[t].id
                               /\ ~Accepts(k, w, t)
         /\ Accepts(k, w, t) => MemReady(k, t) /\ IdNext(k, w, t) = Decoded(k, w, t)
  <1>1. Executed(NoOperands) = NoItem
    BY DEF Executed
  <1>2. MemReady(k, t) => ExNext(k, t) = Executed(k.lane[t].id)
    <2>1. CASE k.lane[t].id = NoOperands
      BY <1>1, <2>1 DEF ExNext, InEx
    <2>2. CASE k.lane[t].id # NoOperands
      BY <2>2 DEF ExNext, InEx
    <2>. QED BY <2>1, <2>2
  <1>3. MemReady(k, t) /\ ~Accepts(k, w, t) => IdNext(k, w, t) = NoOperands
    BY DEF IdNext, Accepts, CanAccept
  <1>4. ~MemReady(k, t) => /\ ~Accepts(k, w, t) /\ InEx(k, t) = NoOperands
    BY DEF Accepts, CanAccept, InEx
  <1>5. ~MemReady(k, t) => ExNext(k, t) = k.lane[t].ex /\ IdNext(k, w, t) = k.lane[t].id
    BY <1>4 DEF ExNext, IdNext
  <1>6. Accepts(k, w, t) => MemReady(k, t) /\ IdNext(k, w, t) = Decoded(k, w, t)
    BY DEF Accepts, CanAccept, IdNext
  <1>. QED BY <1>2, <1>3, <1>4, <1>5, <1>6

\* What MEM hands on, for a lane at work.
LEMMA MemActive ==
  ASSUME NEW k, Shapes(k), NEW w, NEW t \in Threads, Active(k, t)
  PROVE  LET m == IF MemReady(k, t) THEN k.lane[t].ex ELSE k.lane[t].pending
         IN  /\ InMem(k, t) = m
             /\ m = NoItem => WriteBackNext(k, w, t) = NoItem /\ PendingNext(k, w, t) = NoItem
             /\ m # NoItem /\ (m.op \in MemoryOps => t \in w.answered) =>
                  /\ PendingNext(k, w, t) = NoItem
                  /\ WriteBackNext(k, w, t).op = m.op /\ WriteBackNext(k, w, t).rd = m.rd
                  /\ WriteBackNext(k, w, t).value = IF m.op = "LDR" THEN w.word[t] ELSE m.value
             /\ m.op \in MemoryOps /\ t \notin w.answered =>
                  PendingNext(k, w, t) = m /\ WriteBackNext(k, w, t) = NoItem
  <1>. DEFINE m == IF MemReady(k, t) THEN k.lane[t].ex ELSE k.lane[t].pending
  <1>1. InMem(k, t) = m
    BY DEF InMem
  <1>2. IsItem(m)
    BY DEF Shapes
  <1>. HIDE DEF m
  <1>3. NoItem.op \notin MemoryOps
    BY DEF NoItem, MemoryOps
  <1>4. Finishes(k, w, t) <=> m # NoItem /\ (m.op \in MemoryOps => t \in w.answered)
    BY <1>1 DEF Finishes
  <1>5. ~Finishes(k, w, t) => WriteBackNext(k, w, t) = NoItem
    BY DEF WriteBackNext
  <1>6. Finishes(k, w, t) =>
          /\ PendingNext(k, w, t) = NoItem
          /\ WriteBackNext(k, w, t) = [m EXCEPT !.value = MemResult(k, w, t), !.data = 0]
    BY <1>1 DEF WriteBackNext, PendingNext
  <1>7. MemResult(k, w, t) = IF m.op = "LDR" THEN w.word[t] ELSE m.value
    BY <1>1 DEF MemResult
  <1>8. m.op \in MemoryOps /\ ~Finishes(k, w, t) => PendingNext(k, w, t) = m
    BY <1>1 DEF PendingNext
  <1>9. m = NoItem => PendingNext(k, w, t) = NoItem
    BY <1>1, <1>3 DEF PendingNext
  <1>10. \A v : LET z == [m EXCEPT !.value = v, !.data = 0]
                IN  z.op = m.op /\ z.rd = m.rd /\ z.value = v
    BY <1>2 DEF IsItem
  <1>11. ASSUME Finishes(k, w, t)
         PROVE  /\ WriteBackNext(k, w, t).op = m.op /\ WriteBackNext(k, w, t).rd = m.rd
                /\ WriteBackNext(k, w, t).value = IF m.op = "LDR" THEN w.word[t] ELSE m.value
    BY <1>6, <1>7, <1>10, <1>11
  <1>. QED BY <1>1, <1>3, <1>4, <1>5, <1>6, <1>8, <1>9, <1>11 DEF m

\* A RET stays in the lane until it is written back.
LEMMA ReturnStays ==
  ASSUME NEW k, NEW w, NEW n, n = CoreNext(k, w),
         NEW program, StraightEdge(k, w, program), NEW t \in Threads, Active(k, t),
         t \notin Retiring(k)
  PROVE  NoReturn(n, t) <=> NoReturn(k, t) /\ ~(Accepts(k, w, t) /\ k.fetch.instr.op = "RET")
  <1>. DEFINE l == k.lane[t]
  <1>0. /\ n.lane[t].id = IdNext(k, w, t) /\ n.lane[t].ex = ExNext(k, t)
        /\ n.lane[t].wb = WriteBackNext(k, w, t)
    BY LaneFields
  <1>1. Shapes(k) /\ l.wb.op # "RET"
    BY DEF StraightEdge, StraightCore, Retiring
  <1>2. NoReturn(k, t) /\ ~(Accepts(k, w, t) /\ k.fetch.instr.op = "RET") => NoReturn(n, t)
    BY <1>1, NoReturnKept
  <1>3. Accepts(k, w, t) /\ k.fetch.instr.op = "RET" => n.lane[t].id.op = "RET"
    BY <1>0, DecodeActive DEF Decoded, ArithOps, NoOperands
  <1>4. l.id.op = "RET" => n.lane[t].id.op = "RET" \/ n.lane[t].ex.op = "RET"
    BY <1>0, DecodeActive, ExecutedFields
  <1>5. l.ex.op = "RET" => n.lane[t].ex.op = "RET" \/ n.lane[t].wb.op = "RET"
    <2>1. CASE MemReady(k, t) /\ l.ex.op = "RET"
      <3>1. l.ex # NoItem /\ l.ex.op \notin MemoryOps
        BY <2>1 DEF NoItem, MemoryOps
      <3>. QED BY <1>0, <1>1, <2>1, <3>1, MemActive
    <2>2. CASE ~MemReady(k, t)
      BY <1>0, <2>2, DecodeActive
    <2>. QED BY <2>1, <2>2
  <1>. QED BY <1>1, <1>2, <1>3, <1>4, <1>5 DEF NoReturn

\* Nothing but NOPs comes behind a RET, and it leaves the lane quiet.
LEMMA NopsBehindStep ==
  ASSUME NEW k, NEW w, NEW n, n = CoreNext(k, w),
         NEW program, StraightEdge(k, w, program), NEW t \in Threads, Active(k, t),
         NopsBehind(k, t)
  PROVE  /\ t \notin Retiring(k) => NopsBehind(n, t)
         /\ t \in Retiring(k) => Quiet(n.lane[t])
  <1>. DEFINE l == k.lane[t]
  <1>0. /\ n.lane[t].id = IdNext(k, w, t) /\ n.lane[t].ex = ExNext(k, t)
        /\ n.lane[t].wb = WriteBackNext(k, w, t) /\ n.lane[t].pending = PendingNext(k, w, t)
    BY LaneFields
  <1>1. Shapes(k)
    BY DEF StraightEdge, StraightCore
  <1>2. NoOperands.op \in IdleOps /\ NoItem.op \in IdleOps /\ "RET" \notin IdleOps /\ "RET" \notin MemoryOps
        /\ "LDR" \notin IdleOps /\ "STR" \notin IdleOps
    BY DEF NoOperands, NoItem, IdleOps, MemoryOps
  <1>3. ~NoReturn(k, t) /\ MemReady(k, t) => IdNext(k, w, t).op \in IdleOps
    <2>1. ~NoReturn(k, t) /\ Accepts(k, w, t) => FetchIndex(k) >= Len(program)
      BY ReturnNear DEF Accepts, InstructionPending, HasTaken
    <2>2. ~NoReturn(k, t) /\ Accepts(k, w, t) => IdNext(k, w, t).op = "NOP"
      BY <2>1, NopTaken
    <2>. QED BY <1>2, <2>2, DecodeActive DEF IdleOps
  <1>4. MemReady(k, t) => ExNext(k, t).op = l.id.op
    BY DecodeActive, ExecutedFields
  <1>5. MemReady(k, t) /\ (l.ex.op \in IdleOps \/ l.ex.op = "RET") =>
          PendingNext(k, w, t) = NoItem /\ (l.ex.op \in IdleOps => WriteBackNext(k, w, t).op \in IdleOps)
    <2>1. l.ex.op \in IdleOps \/ l.ex.op = "RET" => l.ex.op \notin MemoryOps
      BY <1>2 DEF MemoryOps
    <2>. QED BY <1>1, <1>2, <2>1, MemActive
  <1>6. ASSUME t \in Retiring(k) PROVE Quiet(n.lane[t])
    <2>1. l.id.op \in IdleOps /\ l.ex.op \in IdleOps /\ MemReady(k, t) /\ ~NoReturn(k, t)
      BY <1>6 DEF NopsBehind, Retiring, MemReady, NoReturn
    <2>. QED BY <1>0, <1>3, <1>4, <1>5, <2>1 DEF Quiet, IdleOps
  <1>7. ASSUME n.lane[t].ex.op = "RET" PROVE n.lane[t].id.op \in IdleOps
    <2>1. CASE MemReady(k, t)
      BY <1>0, <1>3, <1>4, <1>7, <2>1 DEF NoReturn
    <2>2. CASE ~MemReady(k, t)
      BY <1>0, <1>7, <2>2, DecodeActive DEF NopsBehind
    <2>. QED BY <2>1, <2>2
  <1>8. ASSUME n.lane[t].wb.op = "RET"
        PROVE  /\ n.lane[t].id.op \in IdleOps /\ n.lane[t].ex.op \in IdleOps
               /\ n.lane[t].pending = NoItem
    <2>1. MemReady(k, t) /\ l.ex.op = "RET"
      BY <1>1, <1>8, ReturnFlow
    <2>2. l.id.op \in IdleOps /\ ~NoReturn(k, t)
      BY <2>1 DEF NopsBehind, NoReturn
    <2>. QED BY <1>0, <1>3, <1>4, <1>5, <2>1, <2>2
  <1>. QED BY <1>6, <1>7, <1>8 DEF NopsBehind

\* A lane that is not at work stays quiet.
LEMMA QuietStep ==
  ASSUME NEW k, NEW w, NEW n, n = CoreNext(k, w),
         NEW program, StraightEdge(k, w, program), NEW t \in Threads, ~Active(k, t),
         Quiet(k.lane[t])
  PROVE  Quiet(n.lane[t]) /\ NoReturn(n, t)
  <1>. DEFINE l == k.lane[t]
  <1>0. /\ n.lane[t].id = IdNext(k, w, t) /\ n.lane[t].ex = ExNext(k, t)
        /\ n.lane[t].wb = WriteBackNext(k, w, t) /\ n.lane[t].pending = PendingNext(k, w, t)
    BY LaneFields
  <1>1. NoOperands.op \in {"NONE", "NOP"} /\ NoItem.op \in {"NONE", "NOP"}
    BY DEF NoOperands, NoItem
  <1>2. MemReady(k, t) /\ InMem(k, t) = NoItem /\ InEx(k, t) = NoOperands /\ ~Accepts(k, w, t)
    BY DEF Quiet, IdleOps, MemReady, InMem, InEx, Accepts
  <1>3. IdNext(k, w, t) \in {l.id, NoOperands} /\ ExNext(k, t) \in {l.ex, NoItem}
    BY <1>2 DEF IdNext, ExNext
  <1>4. WriteBackNext(k, w, t) \in {l.wb, NoItem} /\ PendingNext(k, w, t) = NoItem
    BY <1>2 DEF WriteBackNext, PendingNext, Finishes, NoItem, MemoryOps
  <1>5. NoReturn(n, t)
    BY IdleLane
  <1>. QED BY <1>0, <1>1, <1>3, <1>4, <1>5 DEF Quiet, IdleOps

\* Behind the kernel the fetch stage goes on to the next instruction, or starts
\* again.
LEMMA PastKernel ==
  ASSUME NEW program, StraightLine(program), NEW pc \in Addresses, pc \div 2 >= Len(program)
  PROVE  NextPc(pc) \div 2 >= Len(program) \/ NextPc(pc) \div 2 = 0
  <1>1. Len(program) \in Nat /\ PcSpace \in Nat /\ PcSpace % 2 = 0 /\ pc \in Nat /\ pc < PcSpace
        /\ PcSpace > 0
    BY PcAssumption DEF StraightLine, Addresses
  <1>2. CASE pc + 2 < PcSpace
    <2>1. NextPc(pc) = pc + 2
      BY <1>1, <1>2 DEF NextPc
    <2>2. (pc + 2) \div 2 >= pc \div 2
      BY <1>1
    <2>. QED BY <1>1, <2>1, <2>2
  <1>3. CASE pc + 2 >= PcSpace
    <2>1. PcSpace >= 2
      BY <1>1
    <2>2. (pc + 2) % PcSpace = pc + 2 - PcSpace
      BY <1>1, <1>3, <2>1
    <2>3. NextPc(pc) \in {0, 1}
      BY <1>1, <1>3, <2>2 DEF NextPc
    <2>. QED BY <2>3
  <1>. QED BY <1>1, <1>2, <1>3

\* A lane at work counts an instruction of the kernel when it accepts it, and
\* no other.
LEMMA ProgressStep ==
  ASSUME NEW k, NEW w, NEW n, n = CoreNext(k, w),
         NEW program, StraightEdge(k, w, program), NEW t \in Threads,
         Active(k, t), t \notin Retiring(k),
         FromTheStart(k), HoldsReturn(k, t, program)
  PROVE  /\ Progress(n, t, program) =
              Progress(k, t, program) +
                IF Accepts(k, w, t) /\ FetchIndex(k) < Len(program) THEN 1 ELSE 0
         /\ Accepts(k, w, t) /\ FetchIndex(k) < Len(program) =>
              Progress(k, t, program) = FetchIndex(k)
         /\ Progress(k, t, program) \in 0 .. Len(program)
         /\ HoldsReturn(n, t, program)
  <1>. DEFINE f == k.fetch
              L == Len(program)
              i == FetchIndex(k)
              p == Progress(k, t, program)
              q == Progress(n, t, program)
              acc == Accepts(k, w, t)
  <1>1. i \in Nat /\ L \in Nat
    BY StraightFacts DEF StraightEdge, StraightCore, StraightWires, FetchIndex
  <1>2. /\ Shapes(k) /\ f.instr.op \notin {"BR", "JOIN"} /\ f.flag \in BOOLEAN
        /\ f.state = "WAIT" => ~f.valid
    BY DEF StraightEdge, StraightCore, Shapes, IsFetch, InPlace, OfferInPlace
  <1>3. n.lane[t].accepted = IF acc THEN f.flag ELSE k.lane[t].accepted
    BY LaneFields
  <1>4. acc => f.valid /\ ~HasTaken(k, t)
    BY DEF Accepts, InstructionPending, HasTaken
  <1>5. NoReturn(n, t) <=> NoReturn(k, t) /\ ~(acc /\ f.instr.op = "RET")
    BY ReturnStays
  <1>6. f.valid => /\ f.instr.op = "RET" => i = L - 1
                   /\ i = L - 1 => f.instr.op = "RET"
                   /\ f.instr = FetchAt(program, f.pc)
    <2>1. f.valid => f.instr = FetchAt(program, f.pc)
      BY DEF StraightEdge, StraightCore, InPlace, OfferInPlace
    <2>2. FetchAt(program, f.pc).op = "RET" <=> i = L - 1
      BY DEF StraightEdge, StraightCore, StraightWires, StraightLine, FetchIndex
    <2>. QED BY <2>1, <2>2
  <1>7. p = IF f.state # "WAIT" /\ ~f.valid THEN 0
            ELSE IF i >= L THEN IF NoReturn(k, t) THEN 0 ELSE L
            ELSE i + IF f.valid /\ HasTaken(k, t) THEN 1 ELSE 0
    BY DEF Progress
  <1>8. q = IF n.fetch.state # "WAIT" /\ ~n.fetch.valid THEN 0
            ELSE IF FetchIndex(n) >= L THEN IF NoReturn(n, t) THEN 0 ELSE L
            ELSE FetchIndex(n) + IF n.fetch.valid /\ HasTaken(n, t) THEN 1 ELSE 0
    BY DEF Progress
  <1>9. f.state = "WAIT" /\ i < L => HasTaken(k, t)
    BY DEF StraightEdge, StraightCore, InPlace, CaughtUp
  <1>10. f.state # "WAIT" /\ ~f.valid => NoReturn(k, t)
    BY DEF StraightEdge, StraightCore, InPlace, CaughtUp
  <1>12. ~StartEdge(k, w)
    BY RunningEdge DEF Active
  <1>13. acc /\ i < L => p = i
    BY <1>1, <1>4, <1>7
  <1>14. p \in 0 .. L
    BY <1>1, <1>7
  <1>15. CASE /\ f.state = "WAIT" /\ ~f.valid
              /\ n.fetch.valid /\ n.fetch.flag = ~f.flag /\ n.fetch.pc = f.pc
    <2>1. ~acc /\ FetchIndex(n) = i
      BY <1>4, <1>15 DEF FetchIndex
    <2>2. i < L => ~HasTaken(n, t)
      BY <1>2, <1>3, <1>9, <1>15, <2>1 DEF HasTaken
    <2>3. q = p
      BY <1>1, <1>5, <1>7, <1>8, <1>15, <2>1, <2>2
    <2>4. HoldsReturn(n, t, program)
      BY <1>1, <2>1, <2>2 DEF HoldsReturn
    <2>. QED BY <1>1, <1>14, <2>1, <2>3, <2>4
  <1>16. CASE /\ f.state # "WAIT" /\ IdReady(k, w, t)
              /\ n.fetch.state = "WAIT" /\ ~n.fetch.valid /\ n.fetch.flag = f.flag
              /\ n.fetch.pc = k.pc
    <2>0. HoldsReturn(n, t, program) /\ FetchIndex(n) = k.pc \div 2
      BY <1>16 DEF HoldsReturn, FetchIndex
    <2>1. CASE ~f.valid
      <3>1. ~acc /\ p = 0 /\ k.pc \div 2 = 0 /\ NoReturn(n, t)
        BY <1>4, <1>5, <1>7, <1>10, <1>16, <2>1 DEF FromTheStart
      <3>. QED BY <1>1, <1>8, <1>14, <1>16, <2>0, <3>1
    <2>2. CASE f.valid /\ i < L
      <3>1. k.pc \div 2 = i + 1
        BY <1>1, <2>2, NextBehind
      <3>2. acc \/ HasTaken(k, t)
        BY <1>16, <2>2 DEF IdReady, Accepts, InstructionPending, HasTaken
      <3>3. q = i + 1
        <4>1. i + 1 = L => ~NoReturn(n, t)
          BY <1>1, <1>5, <1>6, <2>2, <3>2 DEF HoldsReturn
        <4>. QED BY <1>1, <1>8, <1>16, <2>0, <2>2, <3>1, <4>1
      <3>4. p = i + IF acc THEN 0 ELSE 1
        BY <1>1, <1>4, <1>7, <2>2, <3>2
      <3>. QED BY <1>1, <1>13, <1>14, <2>0, <2>2, <3>3, <3>4
    <2>3. CASE f.valid /\ i >= L
      <3>1. NoReturn(n, t) <=> NoReturn(k, t)
        BY <1>1, <1>5, <1>6, <2>3
      <3>2. CASE NoReturn(k, t)
        <4>1. k.pc \div 2 >= L \/ k.pc \div 2 = 0
          <5>1. k.pc = NextPc(f.pc) \/ k.pc = 0
            BY <2>3 DEF StraightEdge, StraightCore, InPlace, OfferInPlace
          <5>2. NextPc(f.pc) \div 2 >= L \/ NextPc(f.pc) \div 2 = 0
            BY <2>3, PastKernel DEF StraightEdge, StraightCore, StraightWires, FetchIndex
          <5>. QED BY <5>1, <5>2
        <4>2. p = 0 /\ q = 0
          BY <1>1, <1>7, <1>8, <1>16, <2>0, <2>3, <3>1, <3>2, <4>1
        <4>. QED BY <1>1, <1>14, <2>0, <2>3, <4>2
      <3>3. CASE ~NoReturn(k, t)
        <4>1. i <= L + 1
          BY <2>3, <3>3, ReturnNear
        <4>2. k.pc \div 2 = i + 1
          BY <2>3, <3>3, <4>1, NextBehind
        <4>3. p = L /\ q = L
          BY <1>1, <1>7, <1>8, <1>16, <2>0, <2>3, <3>1, <3>3, <4>2
        <4>. QED BY <1>1, <1>14, <2>0, <2>3, <4>3
      <3>. QED BY <3>2, <3>3
    <2>. QED BY <1>1, <2>1, <2>2, <2>3
  <1>17. CASE n.fetch = f
    <2>0. FetchIndex(n) = i /\ (HasTaken(n, t) <=> acc \/ HasTaken(k, t))
      BY <1>3, <1>17 DEF FetchIndex, HasTaken
    <2>1. acc /\ i = L - 1 => ~NoReturn(n, t)
      BY <1>4, <1>5, <1>6
    <2>2. i >= L => (NoReturn(n, t) <=> NoReturn(k, t))
      BY <1>1, <1>4, <1>5, <1>6
    <2>3. HoldsReturn(n, t, program)
      <3>1. i = L - 1 /\ f.valid /\ HasTaken(k, t) => ~NoReturn(n, t)
        BY <1>5 DEF HoldsReturn
      <3>. QED BY <1>17, <2>0, <2>1, <3>1 DEF HoldsReturn
    <2>4. CASE acc /\ i < L
      BY <1>1, <1>4, <1>7, <1>8, <1>13, <1>14, <1>17, <2>0, <2>3, <2>4
    <2>5. CASE ~(acc /\ i < L)
      <3>1. q = p
        <4>1. CASE i < L
          <5>1. ~acc /\ (HasTaken(n, t) <=> HasTaken(k, t))
            BY <2>0, <2>5, <4>1
          <5>. QED BY <1>1, <1>7, <1>8, <1>17, <2>0, <4>1, <5>1
        <4>2. CASE i >= L
          BY <1>1, <1>7, <1>8, <1>17, <2>0, <2>2, <4>2
        <4>. QED BY <1>1, <4>1, <4>2
      <3>. QED BY <1>1, <1>14, <2>3, <2>5, <3>1
    <2>. QED BY <2>4, <2>5
  <1>18. \/ /\ f.state = "WAIT" /\ ~f.valid
            /\ n.fetch.valid /\ n.fetch.flag = ~f.flag /\ n.fetch.pc = f.pc
         \/ /\ f.state # "WAIT" /\ IdReady(k, w, t)
            /\ n.fetch.state = "WAIT" /\ ~n.fetch.valid /\ n.fetch.flag = f.flag
            /\ n.fetch.pc = k.pc
         \/ n.fetch = f
    BY <1>2, StraightFetch DEF Active
  <1>. QED BY <1>15, <1>16, <1>17, <1>18

\* Nothing is fetched but from the start.
LEMMA FromTheStartStep ==
  ASSUME NEW k, NEW w, NEW n, n = CoreNext(k, w),
         NEW program, StraightEdge(k, w, program), FromTheStart(k)
  PROVE  FromTheStart(n)
  <1>1. Shapes(k) /\ k.fetch.instr.op \notin {"BR", "JOIN"}
    BY DEF StraightEdge, StraightCore, InPlace, OfferInPlace
  <1>. QED BY <1>1, StraightFetch DEF FromTheStart

\* A block starts with nothing of the kernel taken.
LEMMA BlockStart ==
  ASSUME NEW k, NEW w, NEW n, n = CoreNext(k, w),
         NEW program, StraightEdge(k, w, program), NEW t \in Threads,
         ~k.running, Quiet(k.lane[t]), FromTheStart(k)
  PROVE  /\ Progress(n, t, program) = 0
         /\ HoldsReturn(n, t, program)
         /\ NopsBehind(n, t)
  <1>. DEFINE f == k.fetch
              L == Len(program)
  <1>1. FetchIndex(k) \in Nat /\ L \in Nat
    BY StraightFacts DEF StraightEdge, StraightCore, StraightWires, FetchIndex
  <1>2. /\ Shapes(k) /\ f.instr.op \notin {"BR", "JOIN"}
        /\ f.state = "WAIT" => ~f.valid
        /\ (f.state # "WAIT" /\ ~f.valid) \/ FetchIndex(k) >= L
    BY DEF StraightEdge, StraightCore, Shapes, InPlace, OfferInPlace, PastBetweenBlocks
  <1>3. NoReturn(n, t)
    BY QuietStep DEF Active
  <1>4. n.fetch = f \/ (f.state = "WAIT" /\ n.fetch.valid /\ n.fetch.pc = f.pc)
    BY <1>2, StraightFetch
  <1>5. (n.fetch.state # "WAIT" /\ ~n.fetch.valid) \/ FetchIndex(n) >= L
    BY <1>2, <1>4 DEF FetchIndex
  <1>6. FetchIndex(n) = FetchIndex(k)
    BY <1>4 DEF FetchIndex
  <1>7. Progress(n, t, program) = 0
    BY <1>3, <1>5 DEF Progress
  <1>8. HoldsReturn(n, t, program)
    BY <1>1, <1>5, <1>6 DEF HoldsReturn
  <1>. QED BY <1>3, <1>7, <1>8 DEF NopsBehind, NoReturn

-----------------------------------------------------------------------------
(* What a lane and memory hold when the pipeline has been drained.         *)

\* States that agree do so when an instruction has gone through in both.
LEMMA CommitAgree ==
  ASSUME NEW s, NEW z, NEW regs \in SUBSET Gprs, NEW own \in SUBSET Word,
         Agree(s, z, regs, own), NEW i, i.op = "LDR" => i.value \in own
  PROVE  Agree(Commit(s, i), Commit(z, i), regs, own)
  <1>1. ASSUME NEW r \in regs PROVE Commit(s, i).gpr[r] = Commit(z, i).gpr[r]
    BY DEF Commit, Agree
  <1>2. ASSUME NEW a \in own PROVE Commit(s, i).memory[a] = Commit(z, i).memory[a]
    BY DEF Commit, Agree
  <1>. QED BY <1>1, <1>2 DEF Agree

\* An instruction that writes neither register nor memory changes nothing.
LEMMA CommitNothing ==
  ASSUME NEW s, NEW i, i.op \notin RegWriteOps \cup {"STR"}
  PROVE  Agree(Commit(s, i), s, Gprs, Word)
  BY DEF Commit, Agree

\* Agreement is symmetric and transitive, and holds on subsets.
LEMMA AgreeLike ==
  ASSUME NEW s, NEW z, NEW u, NEW regs, NEW own, NEW regs2, NEW own2,
         regs \subseteq regs2, own \subseteq own2
  PROVE  /\ Agree(s, z, regs2, own2) => Agree(z, s, regs, own) /\ Agree(s, z, regs, own)
         /\ Agree(s, z, regs, own) /\ Agree(z, u, regs, own) => Agree(s, u, regs, own)
  BY DEF Agree

\* What an edge commits, and leaves with MEM, is what was in MEM.
LEMMA MemEdge ==
  ASSUME NEW k, Shapes(k), NEW w, NEW n, n = CoreNext(k, w), NEW t \in Threads, Active(k, t),
         IsRegisters(k.lane[t]), NEW own \in SUBSET Word,
         NEW memory, NEW after, LaneMemory(k, w, t, memory, after, own),
         NEW m, m = IF MemReady(k, t) THEN k.lane[t].ex ELSE k.lane[t].pending,
         m.op \in MemoryOps => m.value \in own
  PROVE  Agree(Commit([gpr |-> GprNext(n.lane[t]), memory |-> after], n.lane[t].pending),
               Commit([gpr |-> GprNext(k.lane[t]), memory |-> memory], m), Gprs, own)
  <1>. DEFINE l == k.lane[t]
              g == GprNext(l)
              h == GprNext(n.lane[t])
              v == n.lane[t].wb
              q == n.lane[t].pending
              s == [gpr |-> h, memory |-> after]
              z == [gpr |-> g, memory |-> memory]
  <1>1. n.lane[t].gpr = g /\ v = WriteBackNext(k, w, t) /\ q = PendingNext(k, w, t)
    BY DEF CoreNext, LaneNext
  <1>2. /\ m = NoItem => v = NoItem /\ q = NoItem
        /\ m # NoItem /\ (m.op \in MemoryOps => t \in w.answered) =>
             /\ q = NoItem /\ v.op = m.op /\ v.rd = m.rd
             /\ v.value = IF m.op = "LDR" THEN w.word[t] ELSE m.value
        /\ m.op \in MemoryOps /\ t \notin w.answered => q = m /\ v = NoItem
    BY <1>1, MemActive
  <1>3. /\ NoItem.op \notin RegWriteOps /\ NoItem.op \notin MemoryOps /\ NoItem.op # "STR"
        /\ "STR" \notin RegWriteOps
        /\ "LDR" \in RegWriteOps /\ "LDR" \in MemoryOps /\ "STR" \in MemoryOps
        /\ MemoryOps = {"LDR", "STR"}
    BY DEF NoItem, RegWriteOps, ArithOps, MemoryOps
  <1>4. g = [r \in Gprs |-> g[r]]
    BY DEF GprNext, IsRegisters
  <1>5. \A r \in Gprs : h[r] = IF v.op \in RegWriteOps /\ v.rd = r THEN v.value ELSE g[r]
    <2>1. h = IF v.op \in RegWriteOps /\ v.rd \in Gprs THEN [g EXCEPT ![v.rd] = v.value] ELSE g
      BY <1>1 DEF GprNext
    <2>. HIDE DEF h, g, v
    <2>. QED BY <1>4, <2>1
  <1>6. /\ m.op \notin MemoryOps => MemReady(k, t)
        /\ t \in w.answered => ~MemReady(k, t)
    BY <1>3 DEF Shapes, MemReady, LaneMemory
  <1>7. \A a \in own : /\ MemReady(k, t) => after[a] = memory[a]
                       /\ after[a] = memory[a] \/ (m.op = "STR" /\ m.value = a /\ after[a] = m.data)
    BY <1>3 DEF LaneMemory, MemReady
  <1>8. t \in w.answered => /\ m.op = "STR" => after[m.value] = m.data
                            /\ m.op = "LDR" => w.word[t] = memory[m.value]
    BY <1>6 DEF LaneMemory
  <1>. HIDE DEF l, g, h, v, q
  <1>9. \A r \in Gprs :
          /\ Commit(s, q).gpr[r] = IF q.op \in RegWriteOps /\ q.rd = r
                                   THEN IF q.op = "LDR" THEN after[q.value] ELSE q.value ELSE h[r]
          /\ Commit(z, m).gpr[r] = IF m.op \in RegWriteOps /\ m.rd = r
                                   THEN IF m.op = "LDR" THEN memory[m.value] ELSE m.value ELSE g[r]
    BY DEF Commit
  <1>10. \A a \in own :
           /\ Commit(s, q).memory[a] = IF q.op = "STR" /\ q.value = a THEN q.data ELSE after[a]
           /\ Commit(z, m).memory[a] = IF m.op = "STR" /\ m.value = a THEN m.data ELSE memory[a]
    BY DEF Commit
  <1>. HIDE DEF s, z
  <1>11. ASSUME NEW r \in Gprs PROVE Commit(s, q).gpr[r] = Commit(z, m).gpr[r]
    <2>1. CASE m = NoItem
      BY <1>2, <1>3, <1>5, <1>9, <2>1
    <2>2. CASE m # NoItem /\ m.op \notin MemoryOps
      BY <1>2, <1>3, <1>5, <1>9, <2>2
    <2>3. CASE m.op \in MemoryOps /\ t \notin w.answered
      <3>1. m.op = "LDR" => after[m.value] = memory[m.value]
        BY <1>7, <2>3
      <3>. QED BY <1>2, <1>3, <1>5, <1>9, <2>3, <3>1
    <2>4. CASE m # NoItem /\ m.op \in MemoryOps /\ t \in w.answered
      BY <1>2, <1>3, <1>5, <1>8, <1>9, <2>4
    <2>. QED BY <1>3, <2>1, <2>2, <2>3, <2>4
  <1>12. ASSUME NEW a \in own PROVE Commit(s, q).memory[a] = Commit(z, m).memory[a]
    <2>1. CASE m.op \notin MemoryOps
      BY <1>2, <1>3, <1>6, <1>7, <1>10, <2>1
    <2>2. CASE m.op \in MemoryOps /\ t \notin w.answered
      BY <1>2, <1>3, <1>7, <1>10, <2>2
    <2>3. CASE m # NoItem /\ m.op \in MemoryOps /\ t \in w.answered
      BY <1>2, <1>3, <1>7, <1>8, <1>10, <2>3
    <2>. QED BY <1>3, <2>1, <2>2, <2>3
  <1>. QED BY <1>11, <1>12 DEF Agree, s, z, g, h, q, l

\* An edge adds to what the lane leaves in the end the instruction it accepts,
\* and nothing else.
LEMMA DrainedStep ==
  ASSUME NEW k, Shapes(k), NEW w, NEW n, n = CoreNext(k, w), NEW t \in Threads, Active(k, t),
         IsRegisters(k.lane[t]), NEW own \in SUBSET Word,
         NEW memory, NEW after, LaneMemory(k, w, t, memory, after, own),
         \A i \in {Executed(k.lane[t].id), k.lane[t].ex, k.lane[t].pending} :
           i.op \in MemoryOps => i.value \in own
  PROVE  /\ Accepts(k, w, t) /\ (Executed(Decoded(k, w, t)).op = "LDR"
                                   => Executed(Decoded(k, w, t)).value \in own) =>
              Agree(Drained(n, t, after),
                    Commit(Drained(k, t, memory), Executed(Decoded(k, w, t))), Gprs, own)
         /\ ~Accepts(k, w, t) => Agree(Drained(n, t, after), Drained(k, t, memory), Gprs, own)
  <1>. DEFINE l == k.lane[t]
              j == n.lane[t]
              z == [gpr |-> GprNext(l), memory |-> memory]
              s == [gpr |-> GprNext(j), memory |-> after]
              m == IF MemReady(k, t) THEN l.ex ELSE l.pending
              e == Executed(l.id)
  <1>1. /\ Drained(k, t, memory) = Commit(Commit(Commit(z, l.pending), l.ex), e)
        /\ Drained(n, t, after) = Commit(Commit(Commit(s, j.pending), j.ex), Executed(j.id))
    BY DEF Drained
  <1>2. Agree(Commit(s, j.pending), Commit(z, m), Gprs, own)
    BY MemEdge
  <1>3. /\ MemReady(k, t) => j.ex = e /\ (~Accepts(k, w, t) => j.id = NoOperands)
        /\ ~MemReady(k, t) => j.ex = l.ex /\ j.id = l.id /\ ~Accepts(k, w, t)
        /\ Accepts(k, w, t) => MemReady(k, t) /\ j.id = Decoded(k, w, t)
    BY DecodeActive, LaneFields
  <1>4. /\ e.op = "LDR" => e.value \in own
        /\ l.ex.op = "LDR" => l.ex.value \in own
    BY DEF MemoryOps
  <1>5. NoItem.op \notin RegWriteOps \cup {"STR"} /\ Executed(NoOperands) = NoItem
    BY DEF NoItem, RegWriteOps, ArithOps, Executed
  <1>6. MemReady(k, t) => l.pending = NoItem /\ m = l.ex
    BY DEF MemReady
  <1>7. ~MemReady(k, t) => m = l.pending
    OBVIOUS
  <1>. HIDE DEF l, j, z, s, m, e
  <1>8. CASE MemReady(k, t)
    <2>1. Agree(Commit(z, l.pending), z, Gprs, Word)
      BY <1>5, <1>6, <1>8, CommitNothing
    <2>2. Agree(z, Commit(z, l.pending), Gprs, own)
      BY <2>1, AgreeLike
    <2>3. Agree(Commit(z, m), Commit(Commit(z, l.pending), l.ex), Gprs, own)
      BY <1>4, <1>6, <1>8, <2>2, CommitAgree
    <2>4. Agree(Commit(s, j.pending), Commit(Commit(z, l.pending), l.ex), Gprs, own)
      BY <1>2, <2>3, AgreeLike
    <2>5. Agree(Commit(Commit(s, j.pending), j.ex), Drained(k, t, memory), Gprs, own)
      BY <1>1, <1>3, <1>4, <1>8, <2>4, CommitAgree
    <2>6. CASE Accepts(k, w, t)
      BY <1>1, <1>3, <1>8, <2>5, <2>6, CommitAgree
    <2>7. CASE ~Accepts(k, w, t)
      <3>1. Agree(Drained(n, t, after), Commit(Commit(s, j.pending), j.ex), Gprs, Word)
        BY <1>1, <1>3, <1>5, <1>8, <2>7, CommitNothing
      <3>2. Agree(Drained(n, t, after), Commit(Commit(s, j.pending), j.ex), Gprs, own)
        BY <3>1, AgreeLike
      <3>. QED BY <2>5, <2>7, <3>2, AgreeLike
    <2>. QED BY <2>6, <2>7
  <1>9. CASE ~MemReady(k, t)
    <2>1. Agree(Commit(Commit(s, j.pending), j.ex), Commit(Commit(z, l.pending), l.ex), Gprs, own)
      BY <1>2, <1>3, <1>4, <1>7, <1>9, CommitAgree
    <2>2. Executed(j.id) = e
      BY <1>3, <1>9 DEF e
    <2>3. Agree(Drained(n, t, after), Drained(k, t, memory), Gprs, own)
      BY <1>1, <1>4, <2>1, <2>2, CommitAgree
    <2>. QED BY <1>3, <1>9, <2>3
  <1>. QED BY <1>8, <1>9

-----------------------------------------------------------------------------
(* A lane in step with its thread.                                         *)

\* An instruction of the kernel on offer.
LEMMA Offered ==
  ASSUME NEW k, NEW w, NEW program, StraightEdge(k, w, program), NEW t \in Threads,
         Accepts(k, w, t), FetchIndex(k) < Len(program)
  PROVE  /\ k.fetch.instr = InstrAt(program, FetchIndex(k))
         /\ FetchIndex(k) \in 0 .. Len(program) - 1
         /\ Active(k, t) /\ MemReady(k, t) /\ InstructionPending(k, t)
         /\ ~LoadWait(k, w, t)
  <1>1. FetchIndex(k) \in Nat /\ Len(program) \in Nat
    BY StraightFacts DEF StraightEdge, StraightCore, StraightWires, FetchIndex
  <1>2. Active(k, t) /\ MemReady(k, t) /\ InstructionPending(k, t) /\ ~LoadWait(k, w, t)
        /\ k.fetch.valid
    BY DEF Accepts, CanAccept, InstructionPending
  <1>3. k.fetch.instr = FetchAt(program, k.fetch.pc)
    BY <1>2 DEF StraightEdge, StraightCore, InPlace, OfferInPlace
  <1>4. (2 * FetchIndex(k)) \div 2 = k.fetch.pc \div 2
    BY <1>1 DEF FetchIndex
  <1>. QED BY <1>1, <1>2, <1>3, <1>4 DEF InstrAt, FetchAt

\* Only instructions of the kernel write registers, ones it may write.
LEMMA WritesGprsStep ==
  ASSUME NEW k, NEW w, NEW n, n = CoreNext(k, w),
         NEW program, StraightEdge(k, w, program), WellFormed(program), NEW t \in Threads,
         Active(k, t), WritesGprs(k, t)
  PROVE  WritesGprs(n, t)
  <1>1. n.lane[t].id = IdNext(k, w, t) /\ n.lane[t].ex = ExNext(k, t)
    BY LaneFields
  <1>2. n.lane[t].ex.op \in RegWriteOps => n.lane[t].ex.rd \in Gprs
    <2>1. NoItem.op \notin RegWriteOps /\ NoOperands.op \notin RegWriteOps
      BY DEF NoItem, NoOperands, RegWriteOps, ArithOps
    <2>2. ExNext(k, t) \in {k.lane[t].ex, Executed(k.lane[t].id)}
      BY DecodeActive
    <2>3. Executed(k.lane[t].id).op \in RegWriteOps => Executed(k.lane[t].id).rd = k.lane[t].id.rd
          /\ Executed(k.lane[t].id).op = k.lane[t].id.op
      BY <2>1, ExecutedFields
    <2>. QED BY <1>1, <2>2, <2>3 DEF WritesGprs
  <1>3. CASE Accepts(k, w, t) /\ FetchIndex(k) < Len(program)
    <2>1. n.lane[t].id = Reading(k.fetch.instr, Operand(k, w, t, k.fetch.instr.rs),
                                 Operand(k, w, t, k.fetch.instr.rt))
      BY <1>1, <1>3, DecodeActive DEF Decoded, Reading
    <2>2. k.fetch.instr.op \in RegWriteOps => k.fetch.instr.rd \in Gprs
      BY <1>3, Offered DEF WellFormed
    <2>3. \A x, y : Reading(k.fetch.instr, x, y).op \in RegWriteOps =>
             /\ k.fetch.instr.op \in RegWriteOps
             /\ Reading(k.fetch.instr, x, y).rd = k.fetch.instr.rd
      <3>1. "NOP" \notin RegWriteOps
        BY DEF RegWriteOps, ArithOps
      <3>. QED BY <3>1, ReadingFields
    <2>. QED BY <1>2, <2>1, <2>2, <2>3 DEF WritesGprs
  <1>4. CASE Accepts(k, w, t) /\ ~(FetchIndex(k) < Len(program))
    <2>1. FetchIndex(k) \in Nat /\ Len(program) \in Nat
      BY StraightFacts DEF StraightEdge, StraightCore, StraightWires, FetchIndex
    <2>2. n.lane[t].id.op = "NOP"
      BY <1>1, <1>4, <2>1, NopTaken
    <2>. QED BY <1>2, <2>2 DEF WritesGprs, RegWriteOps, ArithOps
  <1>5. CASE ~Accepts(k, w, t)
    <2>1. n.lane[t].id \in {NoOperands, k.lane[t].id}
      BY <1>1, <1>5, DecodeActive
    <2>2. NoOperands.op \notin RegWriteOps
      BY DEF NoOperands, RegWriteOps, ArithOps
    <2>. QED BY <1>2, <2>1, <2>2 DEF WritesGprs
  <1>. QED BY <1>3, <1>4, <1>5

\* The order of the accesses in a lane.
LEMMA InOrderStep ==
  ASSUME NEW k, NEW w, NEW n, n = CoreNext(k, w),
         NEW program, StraightEdge(k, w, program), NEW t \in Threads,
         Active(k, t), t \notin Retiring(k), FromTheStart(k), HoldsReturn(k, t, program),
         InOrder(k, t, program)
  PROVE  InOrder(n, t, program)
  <1>. DEFINE l == k.lane[t]
              j == n.lane[t]
              p == Progress(k, t, program)
              q == Progress(n, t, program)
              i == k.fetch.instr
  <1>0. Shapes(k) /\ Gaps(k)
    BY DEF StraightEdge, StraightCore
  <1>1. /\ q = p + IF Accepts(k, w, t) /\ FetchIndex(k) < Len(program) THEN 1 ELSE 0
        /\ Accepts(k, w, t) /\ FetchIndex(k) < Len(program) => p = FetchIndex(k)
        /\ p \in 0 .. Len(program)
    BY ProgressStep
  <1>2. /\ MemReady(k, t) => /\ j.ex = Executed(l.id)
                             /\ ~Accepts(k, w, t) => j.id = NoOperands
        /\ ~MemReady(k, t) => /\ j.ex = l.ex
                              /\ j.id = l.id
                              /\ ~Accepts(k, w, t)
        /\ Accepts(k, w, t) => MemReady(k, t) /\ j.id = Decoded(k, w, t)
    BY LaneFields, DecodeActive
  <1>3. Executed(l.id).op = l.id.op
    BY ExecutedFields
  <1>4. /\ NoOperands.op \notin MemoryOps /\ "NOP" \notin MemoryOps /\ "LDR" \in MemoryOps
        /\ MemoryOps \subseteq RegWriteOps \cup {"CMP", "STR", "RET"} /\ NoItem.op \notin MemoryOps
        /\ "LDR" \in RegWriteOps
    BY DEF NoOperands, NoItem, MemoryOps, RegWriteOps
  <1>5. /\ l.id.op \in MemoryOps =>
             /\ p > 0 /\ InstrAt(program, p - 1).op = l.id.op
             /\ l.id.op = "LDR" => InstrAt(program, p - 1).rd = l.id.rd
        /\ l.ex.op \in MemoryOps /\ l.id = NoOperands =>
             p > 0 /\ InstrAt(program, p - 1).op \in MemoryOps
        /\ l.id.op = "LDR" /\ (~MemReady(k, t) \/ InstructionPending(k, t)) =>
             p > 1 /\ InstrAt(program, p - 2).op \in MemoryOps
    BY DEF InOrder
  <1>6. CASE Accepts(k, w, t) /\ FetchIndex(k) < Len(program)
    <2>1. q = p + 1 /\ i = InstrAt(program, p) /\ p \in Nat
      BY <1>1, <1>6, Offered
    <2>2. /\ j.id.op = IF i.op \in RegWriteOps \cup {"CMP", "STR", "RET"} THEN i.op ELSE "NOP"
          /\ i.op \in RegWriteOps => j.id.rd = i.rd
          /\ j.id # NoOperands
      <3>1. j.id = Reading(i, Operand(k, w, t, i.rs), Operand(k, w, t, i.rt))
        BY <1>2, <1>6 DEF Decoded, Reading
      <3>. HIDE DEF i, j
      <3>. QED BY <3>1, ReadingFields
    <2>3. j.id.op = "LDR" /\ (~MemReady(n, t) \/ InstructionPending(n, t)) =>
             p > 0 /\ InstrAt(program, p - 1).op \in MemoryOps
      <3>1. ~InstructionPending(n, t)
        BY <1>0, <1>6, OfferStep
      <3>2. ASSUME ~MemReady(n, t) PROVE l.id = NoOperands /\ l.ex.op \in MemoryOps
        <4>1. l.id = NoOperands
          BY <1>0, <1>6, <3>2, NothingHeld
        <4>2. j.pending # NoItem /\ j.pending = PendingNext(k, w, t)
          BY <3>2, LaneFields DEF MemReady
        <4>3. MemReady(k, t)
          BY <1>2, <1>6
        <4>. QED BY <1>0, <4>1, <4>2, <4>3, MemActive
      <3>. QED BY <1>5, <3>1, <3>2
    <2>. HIDE DEF i, j, p, q, l
    <2>4. q - 1 = p /\ q - 2 = p - 1 /\ q > 0 /\ (p > 0 => q > 1)
      BY <2>1
    <2>5. j.id.op \in MemoryOps =>
            /\ InstrAt(program, q - 1).op = j.id.op
            /\ j.id.op = "LDR" => InstrAt(program, q - 1).rd = j.id.rd
      BY <1>4, <2>1, <2>2, <2>4
    <2>. QED BY <2>2, <2>3, <2>4, <2>5 DEF InOrder, j, q
  <1>7. CASE Accepts(k, w, t) /\ ~(FetchIndex(k) < Len(program))
    <2>1. FetchIndex(k) \in Nat /\ Len(program) \in Nat
      BY StraightFacts DEF StraightEdge, StraightCore, StraightWires, FetchIndex
    <2>2. j.id.op = "NOP"
      BY <1>7, <2>1, NopTaken, LaneFields
    <2>3. j.id # NoOperands /\ "NOP" # "LDR"
      BY <2>2 DEF NoOperands
    <2>. QED BY <1>4, <2>2, <2>3 DEF InOrder
  <1>8. CASE ~Accepts(k, w, t)
    <2>1. q = p
      BY <1>1, <1>8
    <2>2. CASE MemReady(k, t)
      <3>1. j.id = NoOperands /\ j.ex.op = l.id.op
        BY <1>2, <1>3, <1>8, <2>2
      <3>2. j.id.op \notin MemoryOps
        BY <1>4, <3>1
      <3>. HIDE DEF j, p, q, l
      <3>. QED BY <1>4, <1>5, <2>1, <3>1, <3>2 DEF InOrder, j, q
    <2>3. CASE ~MemReady(k, t)
      <3>1. j.id = l.id /\ j.ex = l.ex
        BY <1>2, <2>3
      <3>. HIDE DEF j, p, q, l
      <3>. QED BY <1>5, <2>1, <2>3, <3>1 DEF InOrder, j, q
    <2>. QED BY <2>2, <2>3
  <1>. QED BY <1>6, <1>7, <1>8

\* The thread's state after its next instruction.
LEMMA ReferenceStep ==
  ASSUME NEW program, NEW words, NEW trace, NEW b, NEW t, NEW n,
         Reference(program, words, trace, b, t, n),
         NEW m \in 0 .. Len(program) - 1
  PROVE  LET i == InstrAt(program, m)
             x == RegisterValue(trace[m].gpr, i.rs, b, t)
             y == RegisterValue(trace[m].gpr, i.rt, b, t)
         IN  /\ Agree(trace[m + 1], Commit(trace[m], Executed(Reading(i, x, y))), Gprs, Word)
             /\ x = Address(program, trace[m], b, t)
             /\ i.op \in MemoryOps => x \in Touched(program, trace, b, t)
  <1>. DEFINE i == InstrAt(program, m)
              x == RegisterValue(trace[m].gpr, i.rs, b, t)
  <1>1. Straight(trace, program, words, n)
    BY StraightTrace DEF Reference
  <1>2. m \in Nat /\ m < n /\ m < Len(program)
    BY DEF Reference, StraightLine
  <1>3. /\ Agree(trace[m + 1],
                 Commit(trace[m], Executed(Reading(i, x, RegisterValue(trace[m].gpr, i.rt, b, t)))),
                 Gprs, Word)
        /\ x = Address(program, trace[m], b, t)
    BY <1>1, <1>2, TraceStep DEF Reference
  <1>4. i.op \in MemoryOps => x \in Touched(program, trace, b, t)
    BY <1>3 DEF Touched
  <1>. QED BY <1>3, <1>4

\* The registers read so far are those a well-formed kernel has written.
LEMMA WrittenGrows ==
  ASSUME NEW program, StraightLine(program), WellFormed(program), NEW m \in 0 .. Len(program)
  PROVE  /\ Written(program, m) \subseteq Gprs
         /\ Written(program, 0) = {}
         /\ m < Len(program) =>
              Written(program, m + 1) =
                Written(program, m) \cup IF InstrAt(program, m).op \in RegWriteOps
                                         THEN {InstrAt(program, m).rd} ELSE {}
  <1>1. Len(program) \in Nat /\ m \in Nat
    BY DEF StraightLine
  <1>2. Written(program, m) \subseteq Gprs
    <2>1. \A x \in 0 .. m - 1 : x \in 0 .. Len(program) - 1
      BY <1>1
    <2>. QED BY <2>1 DEF Written, WellFormed
  <1>3. Written(program, 0) = {}
    BY DEF Written
  <1>4. 0 .. (m + 1) - 1 = (0 .. m - 1) \cup {m}
    BY <1>1
  <1>. QED BY <1>2, <1>3, <1>4 DEF Written

\* Forwarding: an operand a lane decodes is the value the thread has at this
\* instruction, wherever in the pipeline it is.
LEMMA OperandValue ==
  ASSUME NEW k, NEW w, NEW program, StraightEdge(k, w, program), NEW t \in Threads,
         FromTheStart(k),
         NEW words, NEW trace, NEW last, Reference(program, words, trace, w.block, t, last),
         NEW memory, InStep(k, t, memory, program, trace, w.block),
         Accepts(k, w, t), FetchIndex(k) < Len(program), t \notin w.answered,
         t \notin Retiring(k),
         NEW r \in WaitSources(k.fetch.instr)
  PROVE  Operand(k, w, t, r) = RegisterValue(trace[FetchIndex(k)].gpr, r, w.block, t)
  <1>. DEFINE l == k.lane[t]
              p == FetchIndex(k)
              d == l.id
              e == Executed(l.id)
              m == l.ex
              v == l.wb
              S == [gpr |-> GprNext(l), memory |-> memory]
  <1>1. /\ k.fetch.instr = InstrAt(program, p) /\ p \in 0 .. Len(program) - 1
        /\ Active(k, t) /\ MemReady(k, t) /\ InstructionPending(k, t) /\ ~LoadWait(k, w, t)
        /\ Len(program) \in Nat
    BY Offered DEF Reference, StraightLine
  <1>2. Progress(k, t, program) = p
    BY ProgressStep, <1>1 DEF InStep
  <1>3. InEx(k, t) = d /\ InMem(k, t) = m /\ l.pending = NoItem
    BY <1>1 DEF InEx, InMem, MemReady
  <1>4. /\ d.op \in RegWriteOps => d.rd \in Gprs
        /\ m.op \in RegWriteOps => m.rd \in Gprs
    BY DEF InStep, WritesGprs
  <1>5. Operand(k, w, t, r) =
          IF d.op \in RegWriteOps \ {"LDR"} /\ d.rd = r THEN Execute(d.op, d.a, d.b)
          ELSE IF m.op \in RegWriteOps /\ m.rd = r THEN MemResult(k, w, t)
          ELSE IF v.op \in RegWriteOps /\ v.rd = r /\ r \in Gprs THEN v.value
          ELSE RegisterValue(l.gpr, r, w.block, t)
    BY <1>3 DEF Operand
  <1>6. CASE r \notin Gprs
    BY <1>4, <1>5, <1>6 DEF RegisterValue
  <1>7. CASE r \in Gprs
    <2>1. r \in Written(program, p)
      BY <1>1, <1>7 DEF Reference, WellFormed
    <2>2. Drained(k, t, memory).gpr[r] = trace[p].gpr[r]
      BY <1>2, <2>1 DEF InStep, Computed, Agree
    <2>3. ~(d.op = "LDR" /\ d.rd = r)
      <3>. SUFFICES ASSUME d.op = "LDR", d.rd = r PROVE FALSE
        OBVIOUS
      <3>1. /\ p > 1 /\ InstrAt(program, p - 1).op = "LDR" /\ InstrAt(program, p - 1).rd = r
            /\ InstrAt(program, p - 2).op \in MemoryOps
        BY <1>1, <1>2 DEF InStep, InOrder, MemoryOps
      <3>2. /\ p - 1 \in 0 .. Len(program) - 1 /\ p - 1 > 0 /\ (p - 1) - 1 = p - 2
            /\ (p - 1) + 1 = p
        BY <1>1, <3>1
      <3>3. WellFormed(program)
        BY DEF Reference
      <3>. DEFINE c == p - 1
      <3>4. /\ InstrAt(program, c).op = "LDR" /\ c > 0 /\ InstrAt(program, c - 1).op \in MemoryOps
               => InstrAt(program, c).rd \notin WaitSources(InstrAt(program, c + 1))
        BY <3>2, <3>3 DEF WellFormed
      <3>. QED BY <1>1, <3>1, <3>2, <3>4
    <2>4. ~(m.op = "LDR" /\ m.rd = r)
      BY <1>1, <1>3 DEF LoadWait
    <2>5. /\ d.op \in RegWriteOps => e.rd = d.rd /\ e.value = Execute(d.op, d.a, d.b)
          /\ e.op = d.op
      <3>1. NoOperands.op \notin RegWriteOps
        BY DEF NoOperands, RegWriteOps, ArithOps
      <3>. QED BY <3>1, ExecutedFields
    <2>6. Drained(k, t, memory) = Commit(Commit(Commit(S, NoItem), m), e)
      BY <1>3 DEF Drained
    <2>7. /\ Commit(S, NoItem).gpr[r] = GprNext(l)[r]
          /\ m.op # "LDR" => Commit(Commit(S, NoItem), m).gpr[r] =
               IF m.op \in RegWriteOps /\ m.rd = r THEN m.value ELSE GprNext(l)[r]
          /\ m.op = "LDR" => Commit(Commit(S, NoItem), m).gpr[r] = GprNext(l)[r]
      <3>1. NoItem.op \notin RegWriteOps
        BY DEF NoItem, RegWriteOps, ArithOps
      <3>2. S.gpr = GprNext(l)
        OBVIOUS
      <3>. HIDE DEF S, m
      <3>3. Commit(S, NoItem).gpr[r] = GprNext(l)[r]
        BY <1>7, <3>1, <3>2 DEF Commit
      <3>. DEFINE Z == Commit(S, NoItem)
      <3>. HIDE DEF Z
      <3>4. Commit(Z, m).gpr[r] = IF m.op \in RegWriteOps /\ m.rd = r
                                  THEN IF m.op = "LDR" THEN Z.memory[m.value] ELSE m.value
                                  ELSE Z.gpr[r]
        BY <1>7 DEF Commit
      <3>5. Z.gpr[r] = GprNext(l)[r] /\ Z = Commit(S, NoItem)
        BY <3>3 DEF Z
      <3>. QED BY <2>4, <3>3, <3>4, <3>5
    <2>8. Drained(k, t, memory).gpr[r] =
            IF d.op \in RegWriteOps \ {"LDR"} /\ d.rd = r THEN Execute(d.op, d.a, d.b)
            ELSE Commit(Commit(S, NoItem), m).gpr[r]
      <3>. DEFINE Z == Commit(Commit(S, NoItem), m)
      <3>1. Drained(k, t, memory) = Commit(Z, e)
        BY <2>6
      <3>. HIDE DEF Z, e, d
      <3>2. Commit(Z, e).gpr[r] = IF e.op \in RegWriteOps /\ e.rd = r
                                  THEN IF e.op = "LDR" THEN Z.memory[e.value] ELSE e.value
                                  ELSE Z.gpr[r]
        BY <1>7 DEF Commit
      <3>3. /\ e.op \in RegWriteOps /\ e.rd = r <=> d.op \in RegWriteOps \ {"LDR"} /\ d.rd = r
            /\ e.op \in RegWriteOps /\ e.rd = r =>
                 e.op # "LDR" /\ e.value = Execute(d.op, d.a, d.b)
        BY <2>3, <2>5
      <3>4. Z.gpr[r] = Commit(Commit(S, NoItem), m).gpr[r]
        BY DEF Z
      <3>. HIDE DEF S, m
      <3>. QED BY <3>1, <3>2, <3>3, <3>4
    <2>9. GprNext(l)[r] = IF v.op \in RegWriteOps /\ v.rd = r THEN v.value ELSE l.gpr[r]
      <3>1. GprNext(l) = IF v.op \in RegWriteOps /\ v.rd \in Gprs THEN [l.gpr EXCEPT ![v.rd] = v.value]
                         ELSE l.gpr
        BY DEF GprNext
      <3>2. l.gpr = [x \in Gprs |-> l.gpr[x]]
        BY DEF InStep, IsRegisters
      <3>. HIDE DEF v, l
      <3>. QED BY <1>7, <3>1, <3>2
    <2>10. m.op \in RegWriteOps /\ m.rd = r => MemResult(k, w, t) = m.value
      BY <1>3, <2>4 DEF MemResult
    <2>11. \A g : RegisterValue(g, r, w.block, t) = g[r]
      BY <1>7, GprAssumption DEF RegisterValue, Gprs, BlockIdReg, BlockDimReg, ThreadIdReg
    <2>. HIDE DEF d, m, v, e, S, l
    <2>12. m.op \in RegWriteOps /\ m.rd = r => m.op # "LDR"
      BY <2>4
    <2>. QED BY <1>5, <1>7, <2>2, <2>7, <2>8, <2>9, <2>10, <2>11, <2>12
  <1>. QED BY <1>6, <1>7

\* The lane decodes what the thread executes.
LEMMA DecodedValue ==
  ASSUME NEW k, NEW w, NEW program, StraightEdge(k, w, program), NEW t \in Threads,
         FromTheStart(k),
         NEW words, NEW trace, NEW last, Reference(program, words, trace, w.block, t, last),
         NEW memory, InStep(k, t, memory, program, trace, w.block),
         Accepts(k, w, t), FetchIndex(k) < Len(program), t \notin w.answered,
         t \notin Retiring(k)
  PROVE  LET i == k.fetch.instr
             s == trace[FetchIndex(k)]
         IN  Decoded(k, w, t) = Reading(i, RegisterValue(s.gpr, i.rs, w.block, t),
                                        RegisterValue(s.gpr, i.rt, w.block, t))
  <1>. DEFINE i == k.fetch.instr
              s == trace[FetchIndex(k)]
              x == RegisterValue(s.gpr, i.rs, w.block, t)
              y == RegisterValue(s.gpr, i.rt, w.block, t)
              X == Operand(k, w, t, i.rs)
              Y == Operand(k, w, t, i.rt)
  <1>1. Decoded(k, w, t) = Reading(i, X, Y)
    BY DEF Decoded, Reading
  <1>2. i.rs \in WaitSources(i) => X = x
    BY OperandValue
  <1>3. i.rt \in WaitSources(i) => Y = y
    BY OperandValue
  <1>. HIDE DEF x, y, X, Y, i
  <1>4. /\ i.op \in ArithOps \cup {"CMP", "STR"} => X = x /\ Y = y
        /\ i.op = "LDR" => X = x
    BY <1>2, <1>3 DEF WaitSources, ArithOps
  <1>5. Reading(i, X, Y) = Reading(i, x, y)
    BY <1>4 DEF Reading
  <1>. QED BY <1>1, <1>5 DEF x, y, X, Y, i

\* A lane that takes an instruction of the kernel computes what it leaves.
LEMMA TakenStep ==
  ASSUME NEW k, NEW w, NEW n, n = CoreNext(k, w),
         NEW program, StraightEdge(k, w, program), NEW t \in Threads,
         Active(k, t), t \notin Retiring(k), FromTheStart(k),
         NEW words, NEW trace, NEW last, Reference(program, words, trace, w.block, t, last),
         NEW memory, NEW after,
         LaneMemory(k, w, t, memory, after, Touched(program, trace, w.block, t)),
         InStep(k, t, memory, program, trace, w.block),
         Accepts(k, w, t), FetchIndex(k) < Len(program)
  PROVE  /\ Computed(n, t, after, program, trace, w.block)
         /\ AccessOf(Executed(n.lane[t].id), trace, program, w.block, t)
  <1>. DEFINE p == FetchIndex(k)
              i == InstrAt(program, p)
              own == Touched(program, trace, w.block, t)
              x == RegisterValue(trace[p].gpr, i.rs, w.block, t)
              y == RegisterValue(trace[p].gpr, i.rt, w.block, t)
              e == Executed(Reading(i, x, y))
              S == Drained(k, t, memory)
              z == Drained(n, t, after)
  <1>1. /\ k.fetch.instr = i /\ p \in 0 .. Len(program) - 1 /\ Len(program) \in Nat
        /\ MemReady(k, t)
    BY Offered DEF Reference, StraightLine
  <1>2. Progress(k, t, program) = p /\ Progress(n, t, program) = p + 1
    BY <1>1, ProgressStep DEF InStep
  <1>3. t \notin w.answered
    BY <1>1 DEF LaneMemory, MemReady
  <1>4. Decoded(k, w, t) = Reading(i, x, y)
    BY <1>1, <1>3, DecodedValue
  <1>5. n.lane[t].id = Reading(i, x, y)
    BY <1>4, LaneFields, DecodeActive
  <1>6. /\ Agree(trace[p + 1], Commit(trace[p], e), Gprs, Word)
        /\ x = Address(program, trace[p], w.block, t)
        /\ i.op \in MemoryOps => x \in own
    BY <1>1, ReferenceStep
  <1>7. own \in SUBSET Word
    BY DEF Reference
  <1>8. /\ e.op = IF i.op \in RegWriteOps \cup {"CMP", "STR", "RET"} THEN i.op ELSE "NOP"
        /\ i.op \in RegWriteOps => e.rd = i.rd
        /\ i.op \in MemoryOps => e.value = x
    <2>1. e = Executed(Reading(i, x, y))
      OBVIOUS
    <2>. HIDE DEF i, x, y, e
    <2>. QED BY <2>1, ExecutedReading
  <1>9. /\ "NOP" \notin MemoryOps /\ "NOP" \notin RegWriteOps
        /\ "STR" \in MemoryOps /\ "LDR" \in MemoryOps /\ "LDR" \in RegWriteOps
        /\ "STR" \notin RegWriteOps
    BY DEF MemoryOps, RegWriteOps, ArithOps
  <1>10. /\ Written(program, p) \subseteq Gprs
         /\ Written(program, p + 1) = Written(program, p) \cup IF i.op \in RegWriteOps THEN {i.rd} ELSE {}
         /\ Written(program, p + 1) \subseteq Gprs
    <2>1. p \in 0 .. Len(program) /\ p + 1 \in 0 .. Len(program) /\ p < Len(program)
      BY <1>1
    <2>2. StraightLine(program) /\ WellFormed(program)
      BY DEF Reference
    <2>. QED BY <2>1, <2>2, WrittenGrows
  <1>11. Agree(S, trace[p], Written(program, p), own)
    BY <1>2 DEF InStep, Computed
  <1>12. Agree(z, Commit(S, e), Gprs, own)
    <2>1. Shapes(k) /\ IsRegisters(k.lane[t])
      BY DEF StraightEdge, StraightCore, InStep
    <2>2. \A a \in {Executed(k.lane[t].id), k.lane[t].ex, k.lane[t].pending} :
            a.op \in MemoryOps => a.value \in own
      BY DEF InStep, Owns, AccessOf
    <2>3. e.op = "LDR" => e.value \in own
      <3>1. e.op = "LDR" => i.op = "LDR"
        <4>. HIDE DEF e, i
        <4>. QED BY <1>8, <1>9
      <3>. HIDE DEF e, i, x, own
      <3>. QED BY <1>6, <1>8, <1>9, <3>1
    <2>4. Executed(Decoded(k, w, t)) = e
      BY <1>4
    <2>5. LaneMemory(k, w, t, memory, after, own)
      OBVIOUS
    <2>. HIDE DEF own, e
    <2>. QED BY <1>7, <2>1, <2>2, <2>3, <2>4, <2>5, DrainedStep DEF S, z
  <1>. HIDE DEF i, own, x, y, e, S, z
  <1>13. e.op \in MemoryOps => i.op = e.op /\ e.value = x /\ x \in own
    BY <1>6, <1>8, <1>9
  <1>14. ASSUME NEW r \in Written(program, p + 1)
         PROVE  Commit(S, e).gpr[r] = Commit(trace[p], e).gpr[r]
    <2>1. r \in Gprs /\ (r \in Written(program, p) \/ (e.op \in RegWriteOps /\ e.rd = r))
      BY <1>8, <1>10
    <2>2. \A c : Commit(c, e).gpr[r] = IF e.op \in RegWriteOps /\ e.rd = r
                                       THEN IF e.op = "LDR" THEN c.memory[e.value] ELSE e.value
                                       ELSE c.gpr[r]
      BY <2>1 DEF Commit
    <2>3. e.op = "LDR" => S.memory[e.value] = trace[p].memory[e.value]
      BY <1>9, <1>11, <1>13 DEF Agree
    <2>4. r \in Written(program, p) => S.gpr[r] = trace[p].gpr[r]
      BY <1>11 DEF Agree
    <2>. QED BY <2>1, <2>2, <2>3, <2>4
  <1>15. ASSUME NEW a \in own PROVE Commit(S, e).memory[a] = Commit(trace[p], e).memory[a]
    BY <1>7, <1>11 DEF Commit, Agree
  <1>16. Agree(z, trace[p + 1], Written(program, p + 1), own)
    BY <1>6, <1>7, <1>10, <1>12, <1>14, <1>15 DEF Agree
  <1>17. Computed(n, t, after, program, trace, w.block)
    BY <1>2, <1>16 DEF Computed, z, own
  <1>18. AccessOf(e, trace, program, w.block, t)
    <2>1. e.op = "STR" => trace[p + 1].memory[e.value] = e.data
      <3>1. e.op = "STR" => e.value \in Word
        BY <1>7, <1>9, <1>13
      <3>2. e.op = "STR" => Commit(trace[p], e).memory[e.value] = e.data
        BY <3>1 DEF Commit
      <3>. QED BY <1>6, <3>1, <3>2 DEF Agree
    <2>2. e.op = "STR" => i.op = "STR" /\ Address(program, trace[p], w.block, t) = e.value
      BY <1>6, <1>9, <1>13
    <2>. QED BY <1>1, <1>13, <2>1, <2>2 DEF AccessOf, own, i
  <1>. QED BY <1>5, <1>17, <1>18 DEF e

\* A lane that takes nothing of the kernel has nothing more to compute.
LEMMA IdleStep ==
  ASSUME NEW k, NEW w, NEW n, n = CoreNext(k, w),
         NEW program, StraightEdge(k, w, program), NEW t \in Threads,
         Active(k, t), t \notin Retiring(k), FromTheStart(k),
         NEW words, NEW trace, NEW last, Reference(program, words, trace, w.block, t, last),
         NEW memory, NEW after,
         LaneMemory(k, w, t, memory, after, Touched(program, trace, w.block, t)),
         InStep(k, t, memory, program, trace, w.block),
         ~(Accepts(k, w, t) /\ FetchIndex(k) < Len(program))
  PROVE  Computed(n, t, after, program, trace, w.block)
  <1>. DEFINE own == Touched(program, trace, w.block, t)
              p == Progress(k, t, program)
              S == Drained(k, t, memory)
              z == Drained(n, t, after)
              e == Executed(Decoded(k, w, t))
  <1>1. Progress(n, t, program) = p /\ p \in 0 .. Len(program)
    BY ProgressStep DEF InStep
  <1>2. Agree(S, trace[p], Written(program, p), own)
    BY DEF InStep, Computed
  <1>3. own \in SUBSET Word /\ Written(program, p) \in SUBSET Gprs
    BY <1>1, WrittenGrows DEF Reference
  <1>4. Accepts(k, w, t) => e.op \notin RegWriteOps \cup {"STR"}
    <2>1. FetchIndex(k) \in Nat /\ Len(program) \in Nat
      BY StraightFacts DEF StraightEdge, StraightCore, StraightWires, FetchIndex
    <2>2. Accepts(k, w, t) => Decoded(k, w, t).op = "NOP"
      BY <2>1, NopTaken, DecodeActive
    <2>3. e.op = Decoded(k, w, t).op
      BY ExecutedFields
    <2>. QED BY <2>2, <2>3 DEF RegWriteOps, ArithOps
  <1>5. /\ Accepts(k, w, t) /\ (e.op = "LDR" => e.value \in own) =>
             Agree(z, Commit(S, e), Gprs, own)
        /\ ~Accepts(k, w, t) => Agree(z, S, Gprs, own)
    <2>1. Shapes(k) /\ IsRegisters(k.lane[t])
      BY DEF StraightEdge, StraightCore, InStep
    <2>2. \A a \in {Executed(k.lane[t].id), k.lane[t].ex, k.lane[t].pending} :
            a.op \in MemoryOps => a.value \in own
      BY DEF InStep, Owns, AccessOf
    <2>3. LaneMemory(k, w, t, memory, after, own)
      OBVIOUS
    <2>. HIDE DEF own
    <2>. QED BY <1>3, <2>1, <2>2, <2>3, DrainedStep
  <1>. HIDE DEF own, p, S, z, e
  <1>6. Agree(z, S, Gprs, own)
    <2>1. CASE Accepts(k, w, t)
      <3>1. e.op # "LDR"
        BY <1>4, <2>1 DEF RegWriteOps
      <3>2. Agree(Commit(S, e), S, Gprs, Word)
        BY <1>4, <2>1, CommitNothing
      <3>3. Agree(Commit(S, e), S, Gprs, own)
        BY <1>3, <3>2, AgreeLike
      <3>. QED BY <1>5, <2>1, <3>1, <3>3, AgreeLike
    <2>2. CASE ~Accepts(k, w, t)
      BY <1>5, <2>2
    <2>. QED BY <2>1, <2>2
  <1>7. Agree(z, S, Written(program, p), own)
    BY <1>3, <1>6, AgreeLike
  <1>8. Agree(z, trace[p], Written(program, p), own)
    BY <1>2, <1>7, AgreeLike
  <1>. QED BY <1>1, <1>8 DEF Computed, z, p, own

\* The accesses of a lane stay those of the thread.
LEMMA OwnsStep ==
  ASSUME NEW k, NEW w, NEW n, n = CoreNext(k, w),
         NEW program, StraightEdge(k, w, program), NEW t \in Threads, Active(k, t),
         NEW trace, NEW b, Owns(k, t, program, trace, b),
         Accepts(k, w, t) => AccessOf(Executed(n.lane[t].id), trace, program, b, t)
  PROVE  Owns(n, t, program, trace, b)
  <1>. DEFINE l == k.lane[t]
              j == n.lane[t]
  <1>1. /\ MemReady(k, t) => /\ j.ex = Executed(l.id)
                             /\ ~Accepts(k, w, t) => j.id = NoOperands
        /\ ~MemReady(k, t) => j.ex = l.ex /\ j.id = l.id
    BY LaneFields, DecodeActive
  <1>2. j.pending \in {NoItem, l.ex, l.pending}
    <2>1. j.pending = PendingNext(k, w, t)
      BY LaneFields
    <2>2. InMem(k, t) \in {NoItem, l.ex, l.pending}
      BY DEF InMem
    <2>. QED BY <2>1, <2>2 DEF PendingNext
  <1>3. Executed(NoOperands) = NoItem /\ AccessOf(NoItem, trace, program, b, t)
    BY DEF Executed, AccessOf, NoItem, MemoryOps
  <1>4. /\ AccessOf(Executed(l.id), trace, program, b, t)
        /\ AccessOf(l.ex, trace, program, b, t) /\ AccessOf(l.pending, trace, program, b, t)
    BY DEF Owns
  <1>. HIDE DEF l, j
  <1>5. AccessOf(Executed(j.id), trace, program, b, t)
    <2>1. CASE Accepts(k, w, t)
      BY <2>1 DEF j
    <2>2. CASE ~Accepts(k, w, t)
      BY <1>1, <1>3, <1>4, <2>2
    <2>. QED BY <2>1, <2>2
  <1>6. AccessOf(j.ex, trace, program, b, t)
    BY <1>1, <1>4
  <1>7. AccessOf(j.pending, trace, program, b, t)
    BY <1>2, <1>3, <1>4
  <1>. QED BY <1>5, <1>6, <1>7 DEF Owns, j

\* An edge leaves a register file.
LEMMA RegistersStep ==
  ASSUME NEW k, NEW w, NEW n, n = CoreNext(k, w), NEW t \in Threads, IsRegisters(k.lane[t])
  PROVE  IsRegisters(n.lane[t])
  <1>1. n.lane[t].gpr = GprNext(k.lane[t])
    BY DEF CoreNext, LaneNext
  <1>. QED BY <1>1 DEF GprNext, IsRegisters

\* A lane at work stays in step with its thread.
LEMMA LaneStep ==
  ASSUME NEW k, NEW w, NEW n, n = CoreNext(k, w),
         NEW program, StraightEdge(k, w, program), NEW t \in Threads,
         Active(k, t), t \notin Retiring(k), FromTheStart(k),
         NEW words, NEW trace, NEW last, Reference(program, words, trace, w.block, t, last),
         NEW memory, NEW after,
         LaneMemory(k, w, t, memory, after, Touched(program, trace, w.block, t)),
         InStep(k, t, memory, program, trace, w.block)
  PROVE  InStep(n, t, after, program, trace, w.block)
  <1>1. IsRegisters(n.lane[t])
    BY RegistersStep DEF InStep
  <1>2. NopsBehind(n, t)
    BY NopsBehindStep DEF InStep
  <1>3. HoldsReturn(n, t, program)
    BY ProgressStep DEF InStep
  <1>4. WritesGprs(n, t)
    BY WritesGprsStep DEF InStep, Reference
  <1>5. InOrder(n, t, program)
    BY InOrderStep DEF InStep
  <1>6. Computed(n, t, after, program, trace, w.block)
    BY TakenStep, IdleStep
  <1>7. Owns(n, t, program, trace, w.block)
    <2>1. CASE Accepts(k, w, t) /\ FetchIndex(k) < Len(program)
      BY <2>1, TakenStep, OwnsStep DEF InStep
    <2>2. CASE Accepts(k, w, t) /\ ~(FetchIndex(k) < Len(program))
      <3>1. FetchIndex(k) \in Nat /\ Len(program) \in Nat
        BY StraightFacts DEF StraightEdge, StraightCore, StraightWires, FetchIndex
      <3>2. n.lane[t].id.op = "NOP"
        BY <2>2, <3>1, NopTaken, LaneFields
      <3>3. Executed(n.lane[t].id).op = "NOP"
        BY <3>2, ExecutedFields
      <3>4. AccessOf(Executed(n.lane[t].id), trace, program, w.block, t)
        BY <3>3 DEF AccessOf, MemoryOps
      <3>. QED BY <3>4, OwnsStep DEF InStep
    <2>3. CASE ~Accepts(k, w, t)
      BY <2>3, OwnsStep DEF InStep
    <2>. QED BY <2>1, <2>2, <2>3
  <1>. QED BY <1>1, <1>2, <1>3, <1>4, <1>5, <1>6, <1>7 DEF InStep

\* A thread that retires has stored everything it stores.
LEMMA LaneRetires ==
  ASSUME NEW k, NEW w, NEW n, n = CoreNext(k, w),
         NEW program, StraightEdge(k, w, program), NEW t \in Threads,
         Active(k, t), t \in Retiring(k), FromTheStart(k),
         NEW words, NEW trace, NEW last, Reference(program, words, trace, w.block, t, last),
         NEW memory, NEW after,
         LaneMemory(k, w, t, memory, after, Touched(program, trace, w.block, t)),
         InStep(k, t, memory, program, trace, w.block)
  PROVE  /\ Quiet(n.lane[t]) /\ IsRegisters(n.lane[t])
         /\ AsLeft(program, trace, Touched(program, trace, w.block, t), after)
  <1>. DEFINE own == Touched(program, trace, w.block, t)
              L == Len(program)
              l == k.lane[t]
              S == [gpr |-> GprNext(l), memory |-> memory]
  <1>1. Quiet(n.lane[t]) /\ IsRegisters(n.lane[t])
    BY NopsBehindStep, RegistersStep DEF InStep
  <1>2. l.id.op \in IdleOps /\ l.ex.op \in IdleOps /\ l.pending = NoItem /\ l.wb.op = "RET"
    BY DEF InStep, NopsBehind, Retiring
  <1>3. ~NoReturn(k, t)
    BY <1>2 DEF NoReturn
  <1>4. L \in Nat /\ FetchIndex(k) \in Nat
    BY <1>3, ReturnNear
  <1>5. \/ FetchIndex(k) = L - 1 /\ k.fetch.valid /\ HasTaken(k, t)
        \/ FetchIndex(k) \in {L, L + 1}
    <2>1. ReturnInPlace(k, t, L - 1)
      BY DEF StraightEdge, StraightCore, InPlace, ReturnsInPlace
    <2>2. \/ FetchIndex(k) = L - 1 /\ k.fetch.valid /\ HasTaken(k, t)
          \/ FetchIndex(k) \in {(L - 1) + 1, (L - 1) + 2}
      BY <1>2, <2>1 DEF ReturnInPlace
    <2>3. (L - 1) + 1 = L /\ (L - 1) + 2 = L + 1
      BY <1>4
    <2>. HIDE DEF L
    <2>. QED BY <2>2, <2>3
  <1>6. ~(k.fetch.state # "WAIT" /\ ~k.fetch.valid)
    BY <1>3 DEF StraightEdge, StraightCore, InPlace, CaughtUp
  <1>7. Progress(k, t, program) = L
    BY <1>3, <1>4, <1>5, <1>6 DEF Progress
  <1>8. own \subseteq Word
    BY DEF Reference
  <1>9. \A a \in own : Drained(k, t, memory).memory[a] = trace[L].memory[a]
    BY <1>7 DEF InStep, Computed, Agree
  <1>10. Drained(k, t, memory) = Commit(Commit(Commit(S, NoItem), l.ex), Executed(l.id))
    BY <1>2 DEF Drained
  <1>11. NoItem.op # "STR" /\ l.ex.op # "STR" /\ Executed(l.id).op # "STR"
    BY <1>2, ExecutedFields DEF NoItem, IdleOps
  <1>12. ASSUME NEW a \in own PROVE Drained(k, t, memory).memory[a] = memory[a]
    <2>1. \A z, i : i.op # "STR" => Commit(z, i).memory[a] = z.memory[a]
      BY <1>8 DEF Commit
    <2>2. S.memory = memory
      OBVIOUS
    <2>. HIDE DEF S, l, own
    <2>. QED BY <1>10, <1>11, <2>1, <2>2
  <1>13. \A a \in own : after[a] = memory[a]
    BY <1>2, <1>11 DEF LaneMemory
  <1>. QED BY <1>1, <1>9, <1>12, <1>13 DEF AsLeft

\* A lane begins a block in step with its thread.
LEMMA LaneStarts ==
  ASSUME NEW k, NEW w, NEW n, n = CoreNext(k, w),
         NEW program, StraightEdge(k, w, program), NEW t \in Threads,
         ~k.running, Quiet(k.lane[t]), FromTheStart(k), IsRegisters(k.lane[t]),
         NEW words, NEW trace, NEW last, Reference(program, words, trace, w.block, t, last),
         NEW after, \A a \in Touched(program, trace, w.block, t) : after[a] = words[a]
  PROVE  InStep(n, t, after, program, trace, w.block)
  <1>. DEFINE own == Touched(program, trace, w.block, t)
              j == n.lane[t]
              S == [gpr |-> GprNext(j), memory |-> after]
  <1>1. IsRegisters(j)
    BY RegistersStep
  <1>2. Progress(n, t, program) = 0 /\ HoldsReturn(n, t, program) /\ NopsBehind(n, t)
    BY BlockStart
  <1>3. Quiet(j)
    BY QuietStep DEF Active
  <1>4. /\ j.id.op \notin RegWriteOps /\ j.ex.op \notin RegWriteOps
        /\ j.id.op \notin MemoryOps /\ j.ex.op \notin MemoryOps
        /\ j.pending = NoItem /\ NoItem.op \notin MemoryOps
    BY <1>3 DEF Quiet, IdleOps, RegWriteOps, ArithOps, MemoryOps, NoItem
  <1>5. Executed(j.id).op = j.id.op
    BY ExecutedFields
  <1>6. WritesGprs(n, t)
    BY <1>4 DEF WritesGprs
  <1>7. InOrder(n, t, program)
    BY <1>4 DEF InOrder, MemoryOps
  <1>8. Owns(n, t, program, trace, w.block)
    BY <1>4, <1>5 DEF Owns, AccessOf
  <1>9. Computed(n, t, after, program, trace, w.block)
    <2>1. Written(program, 0) = {} /\ own \subseteq Word
      BY DEF Written, Reference
    <2>2. trace[0].memory = words
      BY DEF Reference, IsTrace, ThreadStart
    <2>3. ASSUME NEW a \in own PROVE Drained(n, t, after).memory[a] = after[a]
      <3>1. \A z, i : i.op # "STR" => Commit(z, i).memory[a] = z.memory[a]
        BY <2>1 DEF Commit
      <3>2. NoItem.op # "STR" /\ j.ex.op # "STR" /\ Executed(j.id).op # "STR"
        BY <1>4, <1>5 DEF MemoryOps
      <3>3. Drained(n, t, after) = Commit(Commit(Commit(S, NoItem), j.ex), Executed(j.id))
        BY <1>4 DEF Drained
      <3>4. S.memory = after
        OBVIOUS
      <3>. HIDE DEF S, j, own
      <3>. QED BY <3>1, <3>2, <3>3, <3>4
    <2>. QED BY <1>2, <2>1, <2>2, <2>3 DEF Computed, Agree
  <1>. QED BY <1>1, <1>2, <1>6, <1>7, <1>8, <1>9 DEF InStep
=============================================================================
