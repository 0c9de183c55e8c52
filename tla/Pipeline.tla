------------------------------ MODULE Pipeline ------------------------------
(***************************************************************************)
(* One compute core (rtl/core.sv): the shared fetch stage, the branch      *)
(* stack, the mask of active threads and, per thread, the decode, execute, *)
(* memory and write-back stages with their register file (rtl/pipeline).   *)
(*                                                                         *)
(* The module has no variables: CoreNext gives the registers of a core     *)
(* after a clock edge, from its registers k and its input wires w before   *)
(* it, so that a specification may hold one core or several.               *)
(*   k: running, start_q, pc, mask, stack, fetch, lane                     *)
(*   w: start, block, count   the dispatcher's wires                       *)
(*      fetched, instr        program memory answers the fetch, with this  *)
(*      answered, word        threads whose data access is answered, and   *)
(*                            the words read                               *)
(* A pipeline register whose valid bit is clear is normalised to one value *)
(* (NoOperands, NoItem), since its other bits are never used.              *)
(***************************************************************************)
EXTENDS Isa, FiniteSets

CONSTANT StackCapacity   \* STACK_CAPACITY

ASSUME StackAssumption == StackCapacity \in Nat \ {0}

Threads == 0 .. BlockDim - 1

NoOperands == [op |-> "NONE", rd |-> 0, a |-> 0, b |-> 0]
NoItem == [op |-> "NONE", rd |-> 0, value |-> 0, data |-> 0, nzp |-> {}]
NoContext == [pc |-> 0, mask |-> {}]

ResetLane ==
  [accepted |-> FALSE,      \* epoch of the last instruction accepted
   id |-> NoOperands,       \* ID/EX register
   ex |-> NoItem,           \* EX/MEM register
   pending |-> NoItem,      \* access MEM waits for, NoItem in its IDLE state
   wb |-> NoItem,           \* MEM/WB register
   gpr |-> [r \in Gprs |-> 0],
   nzp |-> {}]

\* fetch: in WAIT, pc and mask are the request's; else the instruction's.
ResetCore ==
  [running |-> FALSE, start_q |-> FALSE, pc |-> 0, mask |-> {},
   stack |-> <<NoContext>>,
   fetch |-> [state |-> "IDLE", valid |-> FALSE, flag |-> FALSE, instr |-> Nop,
              pc |-> 0, mask |-> {}],
   lane |-> [t \in Threads |-> ResetLane]]

Active(k, t) == k.running /\ t \in k.mask

-----------------------------------------------------------------------------
(* MEM and WB.                                                             *)

MemReady(k, t) == k.lane[t].pending = NoItem

\* What occupies MEM in this cycle.
InMem(k, t) ==
  IF ~MemReady(k, t) THEN k.lane[t].pending
  ELSE IF Active(k, t) THEN k.lane[t].ex
  ELSE NoItem

\* Threads whose access is held in WAIT.
Waiting(k) == {t \in Threads : ~MemReady(k, t)}

Finishes(k, w, t) ==
  LET m == InMem(k, t)
  IN  m # NoItem /\ (m.op \in MemoryOps => t \in w.answered)

MemResult(k, w, t) ==
  IF InMem(k, t).op = "LDR" THEN w.word[t] ELSE InMem(k, t).value

\* MEM/WB keeps its entry when the thread is inactive with an entry in EX/MEM.
WriteBackNext(k, w, t) ==
  LET l == k.lane[t]
      m == InMem(k, t)
  IN  IF Finishes(k, w, t) THEN [m EXCEPT !.value = MemResult(k, w, t), !.data = 0]
      ELSE IF MemReady(k, t) /\ ~Active(k, t) /\ l.ex # NoItem THEN l.wb
      ELSE NoItem

\* Mutant: only loads are held until they are answered.
PendingNextLoadsOnly(k, w, t) ==
  LET m == InMem(k, t) IN IF m.op = "LDR" /\ ~Finishes(k, w, t) THEN m ELSE NoItem

PendingNext(k, w, t) ==
  LET m == InMem(k, t) IN IF m.op \in MemoryOps /\ ~Finishes(k, w, t) THEN m ELSE NoItem

\* Threads whose RET is in write-back.
Retiring(k) == {t \in Threads : k.lane[t].wb.op = "RET"}

-----------------------------------------------------------------------------
(* EX.                                                                     *)

\* What EX moves on in this cycle; nothing while MEM is held up.
InEx(k, t) == IF Active(k, t) /\ MemReady(k, t) THEN k.lane[t].id ELSE NoOperands

Executed(e) ==
  IF e = NoOperands THEN NoItem
  ELSE [op |-> e.op, rd |-> e.rd, value |-> Execute(e.op, e.a, e.b),
        data |-> IF e.op = "STR" THEN e.b ELSE 0,
        nzp |-> IF e.op = "CMP" THEN CompareFlags(e.a, e.b) ELSE {}]

ExNext(k, t) ==
  LET l == k.lane[t]
  IN  IF InEx(k, t) # NoOperands THEN Executed(l.id)
      ELSE IF MemReady(k, t) /\ l.id = NoOperands THEN NoItem
      ELSE l.ex

-----------------------------------------------------------------------------
(* ID: operands, hazards and acceptance of the fetched instruction.        *)

\* Mutant: a value in MEM is not forwarded.
OperandWithoutMem(k, w, t, r) ==
  LET e == InEx(k, t)
      b == k.lane[t].wb
  IN  IF e.op \in RegWriteOps \ {"LDR"} /\ e.rd = r THEN Execute(e.op, e.a, e.b)
      ELSE IF b.op \in RegWriteOps /\ b.rd = r /\ r \in Gprs THEN b.value
      ELSE RegisterValue(k.lane[t].gpr, r, w.block, t)

\* A register operand: the newest of what EX computes (a load has no value
\* there), what MEM holds, what WB writes and the register file.
Operand(k, w, t, r) ==
  LET e == InEx(k, t)
      m == InMem(k, t)
      b == k.lane[t].wb
  IN  IF e.op \in RegWriteOps \ {"LDR"} /\ e.rd = r THEN Execute(e.op, e.a, e.b)
      ELSE IF m.op \in RegWriteOps /\ m.rd = r THEN MemResult(k, w, t)
      ELSE IF b.op \in RegWriteOps /\ b.rd = r /\ r \in Gprs THEN b.value
      ELSE RegisterValue(k.lane[t].gpr, r, w.block, t)

Flags(k, t) ==
  LET e == InEx(k, t)
      m == InMem(k, t)
      b == k.lane[t].wb
  IN  IF e.op = "CMP" THEN CompareFlags(e.a, e.b)
      ELSE IF m.op = "CMP" THEN m.nzp
      ELSE IF b.op = "CMP" THEN b.nzp
      ELSE k.lane[t].nzp

\* The instruction reads a register whose load has not been answered.
LoadWait(k, w, t) ==
  LET m == InMem(k, t)
  IN  m.op = "LDR" /\ t \notin w.answered /\ m.rd \in WaitSources(k.fetch.instr)

InstructionPending(k, t) == k.fetch.valid /\ k.fetch.flag # k.lane[t].accepted

CanAccept(k, w, t) == MemReady(k, t) /\ ~LoadWait(k, w, t)

IdReady(k, w, t) == InstructionPending(k, t) => CanAccept(k, w, t)

Accepts(k, w, t) == Active(k, t) /\ InstructionPending(k, t) /\ CanAccept(k, w, t)

Decoded(k, w, t) ==
  LET i == k.fetch.instr
      rs == Operand(k, w, t, i.rs)
      rt == Operand(k, w, t, i.rt)
  IN  CASE i.op \in ArithOps -> [op |-> i.op, rd |-> i.rd, a |-> rs, b |-> rt]
        [] i.op \in {"CMP", "STR"} -> [op |-> i.op, rd |-> 0, a |-> rs, b |-> rt]
        [] i.op = "LDR" -> [op |-> "LDR", rd |-> i.rd, a |-> rs, b |-> 0]
        [] i.op = "CONST" -> [op |-> "CONST", rd |-> i.rd, a |-> i.imm, b |-> 0]
        [] i.op = "RET" -> [NoOperands EXCEPT !.op = "RET"]
        [] OTHER -> [NoOperands EXCEPT !.op = "NOP"]

IdNext(k, w, t) ==
  IF Accepts(k, w, t) THEN Decoded(k, w, t)
  ELSE IF MemReady(k, t) /\ (~InstructionPending(k, t) \/ LoadWait(k, w, t)) THEN NoOperands
  ELSE k.lane[t].id

-----------------------------------------------------------------------------
(* Control flow: the core combines what the decoders ask for.              *)

Takers(k, w) ==
  {t \in Threads : /\ k.fetch.instr.op = "BR"
                   /\ Accepts(k, w, t)
                   /\ Taken(k.fetch.instr, Flags(k, t))}

Redirects(k, w) == Takers(k, w) # {}
Splits(k, w) == Redirects(k, w) /\ ~Unconditional(k.fetch.instr)

FallThrough(k, w) == k.mask \ Takers(k, w)

Top(stack) == IF stack = <<>> THEN NoContext ELSE stack[Len(stack)]
Below(stack) == SubSeq(stack, 1, Len(stack) - 1)

Joins(k, w) == k.fetch.instr.op = "JOIN" /\ \E t \in Threads : Accepts(k, w, t)

\* Mutant: an empty group on top is taken for a group to resume.
GroupsMetByAddress(k) == k.stack # <<>> /\ Top(k.stack).pc = NextPc(k.fetch.pc)

\* Both groups are here, or the entry is the initial one.
GroupsMet(k) ==
  /\ k.stack # <<>>
  /\ \/ Top(k.stack).pc = NextPc(k.fetch.pc)
     \/ Top(k.stack).mask = {}

Pops(k, w) == Joins(k, w) /\ GroupsMet(k)
Swaps(k, w) == Joins(k, w) /\ ~GroupsMet(k)

StackNext(k, w) ==
  IF Pops(k, w) THEN Below(k.stack)
  ELSE IF Swaps(k, w)
  THEN Append(IF k.stack = <<>> THEN <<>> ELSE Below(k.stack),
              [pc |-> NextPc(k.fetch.pc), mask |-> k.fetch.mask])
  ELSE IF Splits(k, w) /\ FallThrough(k, w) # {} /\ Len(k.stack) < StackCapacity
  THEN Append(k.stack, [pc |-> NextPc(k.fetch.pc), mask |-> FallThrough(k, w)])
  ELSE k.stack

StartEdge(k, w) == w.start /\ ~k.start_q

\* Mutant: a pop resumes the stacked group and forgets the running one.
MaskNextPopReplaces(k, w) ==
  IF StartEdge(k, w) THEN {t \in Threads : t < w.count}
  ELSE IF ~k.running THEN k.mask
  ELSE IF Joins(k, w) THEN Top(k.stack).mask
  ELSE IF Splits(k, w) THEN Takers(k, w)
  ELSE k.mask \ Retiring(k)

\* A RET clears its thread's bit only in a cycle without a JOIN or a split.
MaskNext(k, w) ==
  IF StartEdge(k, w) THEN {t \in Threads : t < w.count}
  ELSE IF ~k.running THEN k.mask
  ELSE IF Pops(k, w) THEN k.mask \cup Top(k.stack).mask
  ELSE IF Swaps(k, w) THEN Top(k.stack).mask
  ELSE IF Splits(k, w) THEN Takers(k, w)
  ELSE k.mask \ Retiring(k)

\* Mutant: the first RET of the running group ends the block.
EndsAtFirstReturn(k, w) ==
  /\ k.running
  /\ ~StartEdge(k, w) /\ ~Joins(k, w) /\ ~Splits(k, w)
  /\ k.mask \cap Retiring(k) # {}

Ends(k, w) ==
  /\ k.running
  /\ ~StartEdge(k, w) /\ ~Joins(k, w) /\ ~Splits(k, w)
  /\ k.mask \subseteq Retiring(k)

\* Mutant: a core goes on running after its last thread has returned.
RunningNextForever(k, w) ==
  IF StartEdge(k, w) THEN w.count # 0 ELSE k.running

RunningNext(k, w) ==
  IF StartEdge(k, w) THEN w.count # 0 ELSE k.running /\ ~Ends(k, w)

\* The done wire.
CoreDone(k, w) == IF StartEdge(k, w) THEN w.count = 0 ELSE Ends(k, w)

-----------------------------------------------------------------------------
(* IF, with the bypass of a stack operation or a split to the fetch PC.    *)

\* Mutant: a stack operation reaches the fetch stage a cycle late.
FetchContextUnbypassed(k, w) == [pc |-> k.pc, mask |-> k.mask]

FetchContext(k, w) ==
  IF Pops(k, w) THEN [pc |-> k.pc, mask |-> k.mask \cup Top(k.stack).mask]
  ELSE IF Swaps(k, w) THEN Top(k.stack)
  ELSE IF Splits(k, w) THEN [pc |-> k.fetch.instr.imm, mask |-> Takers(k, w)]
  ELSE [pc |-> k.pc, mask |-> k.mask]

\* Mutant: the next fetch waits for one lane, not for all.
IfReadyOneLane(k, w) == ~Redirects(k, w) /\ \E t \in k.mask : IdReady(k, w, t)

IfReady(k, w) == ~Redirects(k, w) /\ \A t \in k.mask : IdReady(k, w, t)

\* An answer in the very cycle of the request is left out: a controller grants at
\* an edge and answers in a later cycle, so that fetched is low in IDLE.
FetchNext(k, w) ==
  IF k.fetch.state = "WAIT"
  THEN IF w.fetched
       THEN [k.fetch EXCEPT !.state = "IDLE", !.valid = TRUE, !.flag = ~k.fetch.flag,
                            !.instr = w.instr]
       ELSE k.fetch
  ELSE IF k.running /\ IfReady(k, w)
  THEN [state |-> "WAIT", valid |-> FALSE, flag |-> k.fetch.flag, instr |-> Nop,
        pc |-> FetchContext(k, w).pc, mask |-> FetchContext(k, w).mask]
  ELSE k.fetch

PcNext(k, w) ==
  IF StartEdge(k, w) THEN 0
  ELSE IF Redirects(k, w) THEN k.fetch.instr.imm
  ELSE IF k.fetch.state = "WAIT" /\ w.fetched THEN NextPc(k.fetch.pc)
  ELSE FetchContext(k, w).pc

-----------------------------------------------------------------------------

\* What write-back leaves in the register file and in the flags.
GprNext(l) ==
  IF l.wb.op \in RegWriteOps /\ l.wb.rd \in Gprs
  THEN [l.gpr EXCEPT ![l.wb.rd] = l.wb.value] ELSE l.gpr

NzpNext(l) == IF l.wb.op = "CMP" THEN l.wb.nzp ELSE l.nzp

LaneNext(k, w, t) ==
  [accepted |-> IF Accepts(k, w, t) THEN k.fetch.flag ELSE k.lane[t].accepted,
   id |-> IdNext(k, w, t),
   ex |-> ExNext(k, t),
   pending |-> PendingNext(k, w, t),
   wb |-> WriteBackNext(k, w, t),
   gpr |-> GprNext(k.lane[t]),
   nzp |-> NzpNext(k.lane[t])]

\* One rising edge.
CoreNext(k, w) ==
  [running |-> RunningNext(k, w),
   start_q |-> w.start,
   pc |-> PcNext(k, w),
   mask |-> MaskNext(k, w),
   stack |-> StackNext(k, w),
   fetch |-> FetchNext(k, w),
   lane |-> [t \in Threads |-> LaneNext(k, w, t)]]
=============================================================================
