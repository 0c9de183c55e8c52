-------------------------------- MODULE Isa --------------------------------
(***************************************************************************)
(* The instruction set of the GPU (rtl/pipeline/id_stage.sv decodes it,    *)
(* ex_stage.sv computes it) and what a program means to one thread: its    *)
(* instructions run one after the other, with no pipeline, no other thread *)
(* and no memory latency.  The pipelined core is compared with this.       *)
(*                                                                         *)
(* An instruction is a record of its fields; the 16-bit encoding is left   *)
(* out.  Program addresses are byte addresses: an instruction occupies two.*)
(***************************************************************************)
EXTENDS Integers, Sequences

CONSTANTS
  PcSpace,       \* size of the program address space in bytes
  WordSpace,     \* number of values of a data word (2^8)
  GprCount,      \* writable registers of a thread (GPR_COUNT)
  BlockDim       \* THREADS_PER_BLOCK, visible to programs as %blockDim

ASSUME PcAssumption == PcSpace \in Nat \ {0} /\ PcSpace % 2 = 0
ASSUME WordAssumption == WordSpace \in Nat \ {0} /\ WordSpace % 2 = 0
ASSUME GprAssumption == GprCount \in 1 .. 13

Word == 0 .. WordSpace - 1
Gprs == 0 .. GprCount - 1

BlockIdReg == 13
BlockDimReg == 14
ThreadIdReg == 15

Instr(op, rd, rs, rt, imm, nzp) ==
  [op |-> op, rd |-> rd, rs |-> rs, rt |-> rt, imm |-> imm, nzp |-> nzp]

Nop == Instr("NOP", 0, 0, 0, 0, {})
Br(nzp, target) == Instr("BR", 0, 0, 0, target, nzp)
Cmp(rs, rt) == Instr("CMP", 0, rs, rt, 0, {})
Alu(op, rd, rs, rt) == Instr(op, rd, rs, rt, 0, {})
Ldr(rd, rs) == Instr("LDR", rd, rs, 0, 0, {})
Str(rs, rt) == Instr("STR", 0, rs, rt, 0, {})
Const(rd, imm) == Instr("CONST", rd, 0, 0, imm, {})
Join == Instr("JOIN", 0, 0, 0, 0, {})
Ret == Instr("RET", 0, 0, 0, 0, {})

NZP == {"n", "z", "p"}

\* Program memory past the program is zero, which decodes as NOP.
FetchAt(program, pc) ==
  IF pc \div 2 < Len(program) THEN program[pc \div 2 + 1] ELSE Nop

NextPc(pc) == (pc + 2) % PcSpace

ArithOps == {"ADD", "SUB", "MUL", "DIV"}
RegWriteOps == ArithOps \cup {"LDR", "CONST"}
MemoryOps == {"LDR", "STR"}

\* Registers an instruction waits for when a load into one is outstanding.
WaitSources(i) ==
  CASE i.op \in ArithOps \cup {"CMP", "STR"} -> {i.rs, i.rt}
    [] i.op = "LDR" -> {i.rs}
    [] OTHER -> {}

\* The EX result bus: a value, or the address of a memory access.  CONST has
\* its immediate as first operand.
Execute(op, a, b) ==
  CASE op = "ADD" -> (a + b) % WordSpace
    [] op = "SUB" -> (a - b) % WordSpace
    [] op = "MUL" -> (a * b) % WordSpace
    [] op = "DIV" -> IF b = 0 THEN 0 ELSE a \div b
    [] op \in MemoryOps \cup {"CONST"} -> a
    [] OTHER -> 0

Signed(w) == IF w < WordSpace \div 2 THEN w ELSE w - WordSpace

CompareFlags(a, b) ==
  {f \in NZP : \/ f = "n" /\ Signed(a) < Signed(b)
               \/ f = "z" /\ a = b
               \/ f = "p" /\ Signed(a) > Signed(b)}

\* A branch on all three flags is the unconditional one, even before any CMP.
Unconditional(i) == i.nzp = NZP

Taken(i, flags) == Unconditional(i) \/ flags \cap i.nzp # {}

\* Reads of the register file: R13 to R15 are the thread's coordinates.
RegisterValue(gpr, r, blockIdx, thread) ==
  CASE r \in Gprs -> gpr[r]
    [] r = BlockIdReg -> blockIdx
    [] r = BlockDimReg -> BlockDim
    [] r = ThreadIdReg -> thread
    [] OTHER -> 0

-----------------------------------------------------------------------------
(* One thread, alone.                                                      *)

ThreadStart(words) ==
  [pc |-> 0, gpr |-> [r \in Gprs |-> 0], nzp |-> {}, memory |-> words,
   returned |-> FALSE]

ThreadStep(program, s, blockIdx, thread) ==
  LET i == FetchAt(program, s.pc)
      a == IF i.op = "CONST" THEN i.imm ELSE RegisterValue(s.gpr, i.rs, blockIdx, thread)
      b == RegisterValue(s.gpr, i.rt, blockIdx, thread)
      v == IF i.op = "LDR" THEN s.memory[a] ELSE Execute(i.op, a, b)
  IN  IF s.returned THEN s
      ELSE [pc |-> IF i.op = "BR" /\ Taken(i, s.nzp) THEN i.imm ELSE NextPc(s.pc),
            gpr |-> IF i.op \in RegWriteOps /\ i.rd \in Gprs
                    THEN [s.gpr EXCEPT ![i.rd] = v] ELSE s.gpr,
            nzp |-> IF i.op = "CMP" THEN CompareFlags(a, b) ELSE s.nzp,
            memory |-> IF i.op = "STR" THEN [s.memory EXCEPT ![a] = b] ELSE s.memory,
            returned |-> i.op = "RET"]

\* The thread's states after 0 to n steps.
ThreadTrace(program, words, blockIdx, thread, n) ==
  LET trace[k \in 0 .. n] == IF k = 0 THEN ThreadStart(words)
                             ELSE ThreadStep(program, trace[k - 1], blockIdx, thread)
  IN  trace
-----------------------------------------------------------------------------
(* Kernels without branches, and what their threads access.                *)

Addresses == 0 .. PcSpace - 1

\* A kernel without branches that returns at its end alone, with room for the
\* two NOPs fetched behind it before the addresses start again at 0.
StraightLine(program) ==
  /\ Len(program) \in Nat /\ 2 * Len(program) + 6 <= PcSpace
  /\ \A pc \in Addresses :
       /\ FetchAt(program, pc).op \notin {"BR", "JOIN"}
       /\ FetchAt(program, pc).op = "RET" <=> pc \div 2 = Len(program) - 1

\* Instruction n of a program, counted from 0.
InstrAt(program, n) == FetchAt(program, 2 * n)

\* Registers that the first n instructions write.
Written(program, n) ==
  {InstrAt(program, m).rd : m \in {x \in 0 .. n - 1 : InstrAt(program, x).op \in RegWriteOps}}

\* The kernel keeps its results in registers it may write, reads none before it
\* has written it (a block finds in them what the block before has left), and
\* does not use the word it loads in the next instruction when another access
\* is directly in front of the load: the pipeline then hands out an old value.
WellFormed(program) ==
  \A n \in 0 .. Len(program) - 1 :
    LET i == InstrAt(program, n)
    IN  /\ i.op \in RegWriteOps => i.rd \in Gprs
        /\ WaitSources(i) \cap Gprs \subseteq Written(program, n)
        /\ i.op = "LDR" /\ n > 0 /\ InstrAt(program, n - 1).op \in MemoryOps
             => i.rd \notin WaitSources(InstrAt(program, n + 1))

\* The address that a thread in state s accesses with its next instruction.
Address(program, s, blockIdx, thread) ==
  RegisterValue(s.gpr, FetchAt(program, s.pc).rs, blockIdx, thread)

\* The words a thread reads or writes, and those it writes, by its trace.
Touched(program, trace, blockIdx, thread) ==
  {Address(program, trace[n], blockIdx, thread) :
     n \in {m \in 0 .. Len(program) - 1 : InstrAt(program, m).op \in MemoryOps}}

StoredTo(program, trace, blockIdx, thread) ==
  {Address(program, trace[n], blockIdx, thread) :
     n \in {m \in 0 .. Len(program) - 1 : InstrAt(program, m).op = "STR"}}

IsMemory(words) == words = [a \in Word |-> words[a]]

\* A kernel that computes the same whatever the order of its threads, the pairs
\* <<block, thread>> of grid: each returns within n instructions, accesses
\* words of the memory, and none that another one writes.
SoundKernel(kernel, traces, grid, n) ==
  LET Reads(g) == Touched(kernel.program, traces[g], g[1], g[2])
      Stores(g) == StoredTo(kernel.program, traces[g], g[1], g[2])
  IN  /\ StraightLine(kernel.program) /\ WellFormed(kernel.program)
      /\ IsMemory(kernel.words)
      /\ n \in Nat /\ Len(kernel.program) \in 1 .. n
      /\ \A g \in grid : Reads(g) \subseteq Word
      /\ \A g, h \in grid : g # h => Stores(g) \cap Reads(h) = {}
=============================================================================
