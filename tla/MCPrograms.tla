----------------------------- MODULE MCPrograms -----------------------------
(* Programs and data for the cores, small enough for TLC: the input in the *)
(* words from 0, the output in the words from 8.                           *)
EXTENDS Pipeline

\* Word i of memory holds input i.
Input(values) == [a \in Word |-> IF a < Len(values) THEN values[a + 1] ELSE 0]

\* i = blockIdx * blockDim + threadIdx, in R0
Prologue == <<Alu("MUL", 0, 13, 14), Alu("ADD", 0, 0, 15)>>

\* out[i] = R4 / in[i], with every kind of operand forwarding, a load followed
\* by its use, a store followed by a load of the same word, and a DIV by zero.
HazardProgram(out) == Prologue \o
  <<Const(1, out), Alu("ADD", 2, 0, 1), Ldr(3, 0), Alu("ADD", 4, 3, 1), Str(2, 4),
    Alu("SUB", 5, 3, 1), Ldr(6, 2), Alu("DIV", 7, 6, 3), Str(2, 7), Ret>>
HazardJob == [program |-> HazardProgram(8), words |-> Input(<<3, 0, 1, 9, 2, 0>>)]

\* out[i] = IF in[i] > 5 THEN 1 ELSE 2 * i: a loop every thread runs twice (as
\* in MATMUL), then a branch that splits the threads and the JOIN that merges
\* them (as in MATMUL_BRANCH_JOIN).
BranchProgram == Prologue \o
  <<Const(1, 1), Const(2, 2), Const(3, 0), Const(4, 0),
    Alu("ADD", 4, 4, 0), Alu("ADD", 3, 3, 1), Cmp(3, 2), Br({"n"}, 12),
    Ldr(3, 0), Const(1, 5), Cmp(3, 1), Br({"p"}, 30), Br(NZP, 32), Const(4, 1), Join,
    Const(2, 8), Alu("ADD", 2, 2, 0), Str(2, 4), Ret>>
BranchJob == [program |-> BranchProgram, words |-> Input(<<6, 2, 7, 4, 3, 3>>)]

\* out[i] = threadIdx, by branches within branches: each splits one thread off,
\* so that all four wait on the branch stack or run alone, and the stack is full.
NestedProgram == Prologue \o
  <<Const(1, 0), Const(2, 1), Const(3, 2), Const(4, 0),
    Cmp(15, 1), Br({"p"}, 18), Br(NZP, 40), Cmp(15, 2), Br({"p"}, 24), Br(NZP, 36),
    Cmp(15, 3), Br({"p"}, 30), Br(NZP, 32), Alu("ADD", 4, 4, 2), Join,
    Alu("ADD", 4, 4, 2), Join, Alu("ADD", 4, 4, 2), Join,
    Const(2, 8), Alu("ADD", 2, 2, 0), Str(2, 4), Ret>>
NestedJob == [program |-> NestedProgram, words |-> Input(<<>>)]

\* out[i] = in[i] + 8, where the load of in[i] follows another load and is used
\* by the next instruction.
LoadUseProgram == Prologue \o
  <<Const(1, 8), Alu("ADD", 2, 0, 1), Ldr(3, 1), Ldr(4, 0), Alu("ADD", 5, 4, 1),
    Str(2, 5), Ret>>
LoadUseJob == [program |-> LoadUseProgram, words |-> Input(<<3, 5>>)]

\* The compiler's code for two if statements in a row (generate_stmt), with a
\* condition that holds for every thread.
If(body) == <<Const(2, 0), Cmp(1, 2), Br({"z"}, body)>>
TwoIfsProgram ==
  <<Const(1, 1)>> \o If(10) \o <<Const(3, 7), Join>>
                  \o If(20) \o <<Const(3, 6), Join>>
                  \o <<Const(4, 8), Alu("ADD", 4, 4, 15), Str(4, 3), Ret>>
TwoIfsJob == [program |-> TwoIfsProgram, words |-> Input(<<>>)]

\* The compiler's code for if (threadIdx) x = 1; the threads differ.
IfProgram ==
  <<Const(3, 0), Const(2, 0), Cmp(15, 2), Br({"z"}, 10), Const(3, 1), Join,
    Const(4, 8), Alu("ADD", 4, 4, 15), Str(4, 3), Ret>>
IfJob == [program |-> IfProgram, words |-> Input(<<>>)]

\* MATMUL_PROGRAM of sim_rtl/test_gpu.py for n by n matrices up to its last
\* three instructions: A, B and C follow each other in memory.
MatmulLoop(n) == Prologue \o
  <<Const(1, 1), Const(2, n), Const(3, 0), Const(4, n * n), Const(5, 2 * n * n),
    Alu("DIV", 6, 0, 2), Alu("MUL", 7, 6, 2), Alu("SUB", 7, 0, 7), Const(8, 0), Const(9, 0),
    Alu("MUL", 10, 6, 2), Alu("ADD", 10, 10, 9), Alu("ADD", 10, 10, 3), Ldr(10, 10),
    Alu("MUL", 11, 9, 2), Alu("ADD", 11, 11, 7), Alu("ADD", 11, 11, 4), Ldr(11, 11),
    Alu("MUL", 12, 10, 11), Alu("ADD", 8, 8, 12), Alu("ADD", 9, 9, 1), Cmp(9, 2),
    Br({"n"}, 24)>>
MatmulEnd == <<Alu("ADD", 9, 5, 0), Str(9, 8), Ret>>

\* MATMUL_BRANCH_JOIN_PROGRAM: a result above ten becomes zero.
MatmulBranchJoin(n) == MatmulLoop(n) \o
  <<Const(10, 10), Cmp(8, 10), Br({"p"}, 58), Br(NZP, 60), Const(8, 0), Join>> \o MatmulEnd

\* Four by four: every row of C has results on both sides of ten.
Matrices == <<1, 1, 1, 1,   2, 1, 1, 1,   0, 3, 1, 2,   1, 0, 6, 0,
              1, 2, 3, 4,   1, 2, 3, 4,   1, 2, 3, 4,   1, 2, 3, 4>>
MatmulJob == [program |-> MatmulLoop(4) \o MatmulEnd, words |-> Input(Matrices)]
MatmulBranchJoinJob == [program |-> MatmulBranchJoin(4), words |-> Input(Matrices)]
WideHazardJob ==
  [program |-> HazardProgram(32), words |-> Input(<<3, 0, 1, 9, 2, 0, 7, 7, 200, 5, 0, 255, 4>>)]
=============================================================================
