------------------------------- MODULE Codegen -------------------------------
(***************************************************************************)
(* The kernel compiler: the parser, the code generator (codegen.cpp), which *)
(* walks the syntax tree once, allocating registers and emitting assembly, *)
(* and the assembler (assembler.cpp), which resolves the labels.  The code *)
(* is then run by one thread, as Isa defines it.                           *)
(*                                                                         *)
(* A line of assembly is an instruction whose branch target is a label.    *)
(* An exception of the generator (fail) is ok = FALSE: the rest of its     *)
(* work is discarded.                                                      *)
(***************************************************************************)
EXTENDS Parser, FiniteSetsExt, SequencesExt

CONSTANTS
  Sources,     \* kernels: [tokens, unit], a text and the tree it stands for
  Inputs,      \* contents of data memory at launch
  Threads,     \* coordinates of the thread that is run: [block, thread]
  PcSpace,     \* size of the program address space in bytes (256)
  LengthSpace, \* 2^32, for the lengths of fields
  GprCount,    \* writable registers (13)
  BlockDim     \* THREADS_PER_BLOCK

VARIABLES
  written,   \* the kernel that is compiled
  kernel,    \* the translation unit
  rest,      \* statements of the main function not generated yet
  gen,       \* the generator
  phase,     \* "parse", "generate", "assemble", "load", "run", "returned", "refused"
  program,   \* the assembled instructions
  launch,    \* the input and the coordinates of the run
  state      \* the running thread

vars == <<written, kernel, rest, gen, phase, program, launch, state>>

Ops == INSTANCE Isa

-----------------------------------------------------------------------------
(* Registers and output.                                                   *)

Fail(g) == [g EXCEPT !.ok = FALSE]
Emit(g, line) == [g EXCEPT !.output = Append(@, line)]

\* A generated value: the generator after it, its register, and whether the
\* register is only its own.
Value(g, reg, temporary) == [g |-> g, reg |-> reg, temporary |-> temporary]

AllocateTemp(g) ==
  LET free == (0 .. GprCount - 1) \ g.used
  IN  IF free = {} THEN Value(Fail(g), 0, TRUE)
      ELSE Value([g EXCEPT !.used = @ \cup {Min(free)}], Min(free), TRUE)

Release(g, value) ==
  IF value.temporary THEN [g EXCEPT !.used = @ \ {value.reg}] ELSE g

\* Mutant: the source is not released.
CopyKeepsSource(g, destination, source) ==
  IF destination = source.reg THEN g
  ELSE LET zero == AllocateTemp(g)
           copied == Emit(Emit(zero.g, Ops!Const(zero.reg, 0)),
                          Ops!Alu("ADD", destination, source.reg, zero.reg))
       IN  Release(copied, zero)

CopyTo(g, destination, source) ==
  IF destination = source.reg THEN Release(g, source)
  ELSE LET zero == AllocateTemp(g)
           copied == Emit(Emit(zero.g, Ops!Const(zero.reg, 0)),
                          Ops!Alu("ADD", destination, source.reg, zero.reg))
       IN  Release(Release(copied, zero), source)

\* Mutant: the result overwrites a left operand that is a local variable.
ResultInOperand(g, operand) == [operand EXCEPT !.g = g]

\* Where a result goes: the operand's register if that is only the operand's
\* own.  An operand that is replaced is no temporary and need not be released.
ResultFor(g, operand) ==
  IF operand.temporary THEN [operand EXCEPT !.g = g] ELSE AllocateTemp(g)

\* The parameter structure is laid out without gaps.  Lengths are added in 32 bits,
\* so that one near 2^32 wraps to a sum that fits; an offset is kept in 8 bits.
StartOf(fields, f) == FieldOffset(fields, f) % LengthSpace

Layout(fields) ==
  [f \in {fields[i].name : i \in DOMAIN fields} |->
     [type |-> FieldType(fields, f), offset |-> StartOf(fields, f) % WordSpace]]

LayoutFits(fields) ==
  /\ \A i, j \in DOMAIN fields : fields[i].name = fields[j].name => i = j
  /\ \A i \in DOMAIN fields :
       (StartOf(fields, fields[i].name) + fields[i].size) % LengthSpace <= WordSpace

\* The parameter structure: the only one, or one without a name and fields.
Params(unit) ==
  IF unit.globals = <<>> THEN [name |-> "", fields |-> <<>>] ELSE Head(unit.globals)

Generator(unit) ==
  LET params == Params(unit)
  IN  [output |-> <<>>, used |-> {}, locals |-> <<>>,
       global |-> params.name, fields |-> Layout(params.fields),
       labels |-> <<>>, ends_with_ret |-> FALSE,
       ok |-> unit.main # None /\ Len(unit.globals) <= 1 /\ LayoutFits(params.fields)]

-----------------------------------------------------------------------------
(* Expressions.                                                            *)

Builtins == "blockIdx" :> 13 @@ "blockDim" :> 14 @@ "threadIdx" :> 15

RECURSIVE GenerateExpr(_, _)

Load(value) == [value EXCEPT !.g = Emit(@, Ops!Ldr(value.reg, value.reg))]

\* A member is a field of the parameter structure, named by its name.
IsField(g, e) ==
  e.kind = "member" /\ e.base = IdentifierExpr(g.global) /\ e.member \in DOMAIN g.fields
IsArray(g, e) == IsField(g, e) /\ g.fields[e.member].type = "array"

\* lhs and rhs, and the instruction op on them.
GenerateBinary(g, op, lhs_expr, rhs_expr) ==
  LET lhs == GenerateExpr(g, lhs_expr)
      rhs == GenerateExpr(lhs.g, rhs_expr)
      result == ResultFor(rhs.g, lhs)
  IN  [result EXCEPT !.g = Release(Emit(@, Ops!Alu(op, result.reg, lhs.reg, rhs.reg)), rhs)]

MemberAddress(g, e) ==
  LET address == AllocateTemp(g)
  IN  IF IsField(g, e)
      THEN [address EXCEPT !.g = Emit(@, Ops!Const(address.reg, g.fields[e.member].offset))]
      ELSE Value(Fail(g), 0, TRUE)

\* The base of an index is an expression, in which an array is its address.
GenerateAddress(g, e) ==
  CASE e.kind = "member" -> MemberAddress(g, e)
    [] e.kind = "index" -> GenerateBinary(g, "ADD", e.base, e.index)
    [] e.kind = "unary" /\ e.op = "dereference" -> GenerateExpr(g, e.operand)
    [] OTHER -> Value(Fail(g), 0, TRUE)

GenerateNumber(g, n) ==
  LET result == AllocateTemp(g)
  IN  IF n < WordSpace THEN [result EXCEPT !.g = Emit(@, Ops!Const(result.reg, n))]
      ELSE Value(Fail(g), 0, TRUE)

GenerateIdentifier(g, x) ==
  CASE x \in DOMAIN g.locals -> Value(g, g.locals[x], FALSE)
    [] x \in DOMAIN Builtins \ DOMAIN g.locals -> Value(g, Builtins[x], FALSE)
    [] OTHER -> Value(Fail(g), 0, FALSE)

GenerateDereference(operand) ==
  LET result == ResultFor(operand.g, operand)
  IN  Load(IF result.reg = operand.reg THEN result
           ELSE [result EXCEPT !.g = CopyTo(@, result.reg, operand)])

GenerateMinus(operand) ==
  LET result == AllocateTemp(operand.g)
      zero == Emit(result.g, Ops!Const(result.reg, 0))
      minus == Emit(zero, Ops!Alu("SUB", result.reg, result.reg, operand.reg))
  IN  [result EXCEPT !.g = Release(minus, operand)]

GenerateExpr(g, e) ==
  CASE e.kind = "number" -> GenerateNumber(g, e.value)
    [] e.kind = "identifier" -> GenerateIdentifier(g, e.name)
    [] e.kind = "member" ->
         IF IsArray(g, e) THEN GenerateAddress(g, e) ELSE Load(GenerateAddress(g, e))
    [] e.kind = "index" -> Load(GenerateAddress(g, e))
    [] e.kind = "binary" -> GenerateBinary(g, e.op, e.lhs, e.rhs)
    [] e.kind = "unary" ->
         CASE e.op = "address" -> GenerateAddress(g, e.operand)
           [] e.op = "dereference" -> GenerateDereference(GenerateExpr(g, e.operand))
           [] e.op = "minus" -> GenerateMinus(GenerateExpr(g, e.operand))
           [] e.op = "plus" -> GenerateExpr(g, e.operand)

-----------------------------------------------------------------------------
(* Statements.  A label is the number it was made with; labels maps it to  *)
(* the index of the instruction it stands before, once it is placed.       *)

Unplaced == -1

NewLabels(g, n) ==
  [g EXCEPT !.labels = @ \o [i \in 1 .. n |-> Unplaced]]

PlaceLabel(g, label) == [g EXCEPT !.labels[label] = Len(g.output)]

Branch(g, label) == Emit(g, Ops!Br(Ops!NZP, label))

\* Mutant: the label is placed behind the JOIN.
JoinBeforeLabel(g, label) == PlaceLabel(Emit(g, Ops!Join), label)

JoinAt(g, label) == Emit(PlaceLabel(g, label), Ops!Join)

ConditionBranch(g, condition, false_label) ==
  LET value == GenerateExpr(g, condition)
      zero == AllocateTemp(value.g)
      compare == Emit(Emit(zero.g, Ops!Const(zero.reg, 0)), Ops!Cmp(value.reg, zero.reg))
  IN  Release(Release(Emit(compare, Ops!Br({"z"}, false_label)), value), zero)

RECURSIVE GenerateStmt(_, _)

GenerateBlock(g, block) == FoldLeft(GenerateStmt, g, block.body)

\* The register is taken before the initialiser is generated, so that the
\* initialiser finds the new variable.
GenerateDeclaration(g, t) ==
  LET local == AllocateTemp(g)
      known == [local.g EXCEPT !.locals = (t.name :> local.reg) @@ @]
      value == GenerateExpr(known, t.init)
  IN  CASE t.type = "array" \/ t.name \in DOMAIN g.locals -> Fail(g)
        [] OTHER -> IF t.init = None THEN Emit(known, Ops!Const(local.reg, 0))
                    ELSE CopyTo(value.g, local.reg, value)

GenerateAssignment(g, t) ==
  LET value == GenerateExpr(g, t.value)
      address == GenerateAddress(value.g, t.target)
      stored == Emit(address.g, Ops!Str(address.reg, value.reg))
  IN  IF t.target.kind = "identifier"
      THEN IF t.target.name \in DOMAIN g.locals
           THEN CopyTo(value.g, g.locals[t.target.name], value)
           ELSE Fail(g)
      ELSE Release(Release(stored, address), value)

GenerateIf(g, t) ==
  LET else_label == Len(g.labels) + 1
      join_label == Len(g.labels) + 2
      false_label == IF t.else_block = None THEN join_label ELSE else_label
      then == GenerateBlock(ConditionBranch(NewLabels(g, 2), t.condition, false_label),
                            t.then_block)
  IN  JoinAt(IF t.else_block = None THEN then
             ELSE GenerateBlock(PlaceLabel(Branch(then, join_label), else_label),
                                t.else_block),
             join_label)

\* head: condition, body, step, back to head; then the JOIN.
GenerateLoop(g, condition, step, body) ==
  LET head == Len(g.labels) + 1
      done == Len(g.labels) + 2
      begun == PlaceLabel(NewLabels(g, 2), head)
      inside == IF condition = None THEN begun ELSE ConditionBranch(begun, condition, done)
      ended == GenerateBlock(inside, body)
  IN  JoinAt(Branch(IF step = None THEN ended ELSE GenerateStmt(ended, step), head), done)

\* Mutant: the mark of an earlier RET is not taken back.
StmtKeepsRet(g0, t) == g0

BeginStmt(g0, t) == [g0 EXCEPT !.ends_with_ret = FALSE]

GenerateStmt(g0, t) ==
  LET g == BeginStmt(g0, t)
  IN  CASE t.kind = "declare" -> GenerateDeclaration(g, t)
        [] t.kind = "assign" -> GenerateAssignment(g, t)
        [] t.kind = "expression" ->
             LET value == GenerateExpr(g, t.expr) IN Release(value.g, value)
        [] t.kind = "return" -> [Emit(g, Ops!Ret) EXCEPT !.ends_with_ret = TRUE]
        [] t.kind = "block" -> GenerateBlock(g, t)
        [] t.kind = "if" -> GenerateIf(g, t)
        [] t.kind = "while" -> GenerateLoop(g, t.condition, None, t.body)
        [] t.kind = "for" ->
             GenerateLoop(IF t.init = None THEN g ELSE GenerateStmt(g, t.init),
                          t.condition, t.step, t.body)

-----------------------------------------------------------------------------
(* The assembler, and the passes in order.                                 *)

Address(g, label) == 2 * g.labels[label]

\* Every instruction and every label has an address in program memory.
Assembles(g) ==
  /\ 2 * Len(g.output) <= PcSpace
  /\ \A label \in DOMAIN g.labels : Address(g, label) < PcSpace

Assembled(g) ==
  [i \in DOMAIN g.output |->
     IF g.output[i].op = "BR" THEN [g.output[i] EXCEPT !.imm = Address(g, @)]
     ELSE g.output[i]]

Init ==
  /\ written \in Sources
  /\ kernel = EmptyUnit
  /\ rest = <<>>
  /\ gen = Generator(EmptyUnit)
  /\ phase = "parse"
  /\ program = <<>>
  /\ launch = None
  /\ state = None

ParseSource ==
  /\ phase = "parse"
  /\ kernel' = Parse(written.tokens)
  /\ rest' = IF kernel'.main = None THEN <<>> ELSE kernel'.main.body
  /\ gen' = Generator(kernel')
  /\ phase' = "generate"
  /\ UNCHANGED <<written, program, launch, state>>

Generate ==
  /\ phase = "generate" /\ gen.ok /\ rest # <<>>
  /\ gen' = GenerateStmt(gen, Head(rest))
  /\ rest' = Tail(rest)
  /\ UNCHANGED <<written, kernel, phase, program, launch, state>>

EndGenerate ==
  /\ phase = "generate" /\ gen.ok /\ rest = <<>>
  /\ gen' = IF gen.ends_with_ret THEN gen ELSE Emit(gen, Ops!Ret)
  /\ phase' = "assemble"
  /\ UNCHANGED <<written, kernel, rest, program, launch, state>>

Assemble ==
  /\ phase = "assemble" /\ Assembles(gen)
  /\ program' = Assembled(gen)
  /\ phase' = "load"
  /\ UNCHANGED <<written, kernel, rest, gen, launch, state>>

Refuse ==
  /\ \/ phase = "generate" /\ ~gen.ok
     \/ phase = "assemble" /\ ~Assembles(gen)
  /\ phase' = "refused"
  /\ UNCHANGED <<written, kernel, rest, gen, program, launch, state>>

Launch(words, coordinates) ==
  /\ phase = "load"
  /\ launch' = [words |-> words, at |-> coordinates]
  /\ state' = Ops!ThreadStart(words)
  /\ phase' = "run"
  /\ UNCHANGED <<written, kernel, rest, gen, program>>

Step ==
  /\ phase = "run"
  /\ state' = Ops!ThreadStep(program, state, launch.at.block, launch.at.thread)
  /\ phase' = IF state'.returned THEN "returned" ELSE "run"
  /\ UNCHANGED <<written, kernel, rest, gen, program, launch>>

Next ==
  \/ ParseSource
  \/ Generate
  \/ EndGenerate
  \/ Assemble
  \/ Refuse
  \/ \E words \in Inputs, coordinates \in Threads : Launch(words, coordinates)
  \/ Step

Spec == Init /\ [][Next]_vars
\* The thread keeps running.
FairSpec == Spec /\ WF_vars(Step)

-----------------------------------------------------------------------------
(* Properties.                                                             *)

\* The parser gives the tree the text stands for, with every operator on its
\* operands and every else at its if, and none for a text that is no kernel.
ParsedAsWritten == phase # "parse" => kernel = written.unit

\* Between two statements exactly the local variables' registers are in use,
\* one for each: no path through generate_stmt leaks or frees a register.
RegistersBalanced ==
  gen.ok => /\ gen.used = {gen.locals[x] : x \in DOMAIN gen.locals}
            /\ Cardinality(gen.used) = Cardinality(DOMAIN gen.locals)

KernelMeaning ==
  LET builtin == "blockIdx" :> launch.at.block @@ "blockDim" :> BlockDim
                   @@ "threadIdx" :> launch.at.thread
  IN  Meaning(Params(kernel).fields, kernel.main.body, launch.words, builtin)

\* When the compiled kernel returns, the kernel does terminate, and data memory
\* and the registers of the local variables hold what it means.
MeansTheSame ==
  phase = "returned" =>
    LET meaning == KernelMeaning
    IN  /\ ~meaning.diverges
        /\ state.memory = meaning.memory
        /\ \A x \in DOMAIN meaning.locals : state.gpr[gen.locals[x]] = meaning.locals[x]

\* The indices control can reach from index i without passing index avoid.
ReachableAvoiding(code, i, avoid) ==
  LET n == Len(code)
      target(k) == code[k].imm \div 2 + 1
      successors(k) ==
        CASE code[k].op = "RET" -> {}
          [] code[k].op = "BR" /\ code[k].nzp = Ops!NZP -> {target(k)}
          [] code[k].op = "BR" /\ code[k].nzp # Ops!NZP -> {target(k), k + 1}
          [] OTHER -> {k + 1}
      extend(S) == S \cup (UNION {successors(k) : k \in S \ {n + 1}} \ {avoid})
      reach[k \in 0 .. n] ==
        IF k = 0 THEN successors(i) \ {avoid} ELSE extend(reach[k - 1])
  IN  reach[n]

RECURSIVE ReturnsIn(_, _)

\* Whether t has a return in a branch of its own, or at all if t is in a branch.
ReturnsIn(t, branch) ==
  CASE t.kind = "return" -> branch
    [] t.kind = "block" -> \E i \in DOMAIN t.body : ReturnsIn(t.body[i], branch)
    [] t.kind = "if" ->
         \/ ReturnsIn(t.then_block, TRUE)
         \/ t.else_block # None /\ ReturnsIn(t.else_block, TRUE)
    [] t.kind \in {"while", "for"} -> ReturnsIn(t.body, TRUE)
    [] OTHER -> FALSE

\* Both ways out of a conditional branch pass a JOIN of its own before any RET and
\* before the end of the code (sim_rtl/README.md: both paths must reach the same
\* JOIN), so that the core can bring the threads together again.  Kernels with a
\* return in an if or a loop are not meant: the generator emits its RET in the
\* branch, before the JOIN, and a thread that takes it never reaches the JOIN.
EveryBranchJoins ==
  phase = "load" /\ ~ReturnsIn(kernel.main, FALSE) =>
    LET branches == {i \in DOMAIN program : program[i].op = "BR" /\ program[i].nzp # Ops!NZP}
        joins == {i \in DOMAIN program : program[i].op = "JOIN"}
        ends == {i \in DOMAIN program : program[i].op = "RET"} \cup {Len(program) + 1}
    IN  \E join \in [branches -> joins] :
          /\ \A i, j \in branches : join[i] = join[j] => i = j
          /\ \A i \in branches : ReachableAvoiding(program, i, join[i]) \cap ends = {}

\* A kernel that terminates returns once it is launched, and does not run on
\* behind its end.  Sources holds no kernel whose last statement is an if or a
\* loop that ends with a return: there the generator leaves out the last RET, and
\* this fails.
Returns == (phase = "run" /\ ~KernelMeaning.diverges) ~> phase = "returned"
=============================================================================
