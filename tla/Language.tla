------------------------------ MODULE Language ------------------------------
(***************************************************************************)
(* The kernel language of the compiler: its syntax trees (compiler/include *)
(* /tinygpu/compiler/ast.h) as records, and what a kernel means, as an     *)
(* interpreter.  The compiler is compared with the interpreter.            *)
(*                                                                         *)
(* Every value is one byte, pointers too.  A kernel's parameters are the   *)
(* fields of one structure at data address 0: [name, type, size], of type  *)
(* "u8", "pointer" or "array".  The value of a return goes nowhere.        *)
(***************************************************************************)
EXTENDS Integers, Sequences, TLC

CONSTANTS
  WordSpace,   \* number of values of a data word (2^8)
  MaxRounds    \* bound on the rounds of a loop that the interpreter follows

\* Absent parts of a tree (an else block, an initialiser, a for clause).
None == [kind |-> "none"]

NumberExpr(n) == [kind |-> "number", value |-> n]
IdentifierExpr(x) == [kind |-> "identifier", name |-> x]
UnaryExpr(op, e) == [kind |-> "unary", op |-> op, operand |-> e]
BinaryExpr(op, l, r) == [kind |-> "binary", op |-> op, lhs |-> l, rhs |-> r]
IndexExpr(b, i) == [kind |-> "index", base |-> b, index |-> i]
MemberExpr(b, f) == [kind |-> "member", base |-> b, member |-> f]

ExprStmt(e) == [kind |-> "expression", expr |-> e]
ReturnStmt(e) == [kind |-> "return", value |-> e]
AssignStmt(t, v) == [kind |-> "assign", target |-> t, value |-> v]
VarDecl(type, x, e) == [kind |-> "declare", type |-> type, name |-> x, init |-> e]
BlockStmt(body) == [kind |-> "block", body |-> body]
IfStmt(c, then, else) ==
  [kind |-> "if", condition |-> c, then_block |-> then, else_block |-> else]
WhileStmt(c, body) == [kind |-> "while", condition |-> c, body |-> body]
ForStmt(init, c, step, body) ==
  [kind |-> "for", init |-> init, condition |-> c, step |-> step, body |-> body]

-----------------------------------------------------------------------------
(* Meaning.  A state s of the interpreter holds the data memory, the local *)
(* variables, the constants a thread sees (builtin), whether it has        *)
(* returned, and whether it was given up in a loop that went on too long.  *)

Arithmetic(op, a, b) ==
  CASE op = "ADD" -> (a + b) % WordSpace
    [] op = "SUB" -> (a - b) % WordSpace
    [] op = "MUL" -> (a * b) % WordSpace
    [] op = "DIV" -> IF b = 0 THEN 0 ELSE a \div b

\* Where a field begins.
FieldOffset(fields, f) ==
  LET start[i \in 1 .. Len(fields)] ==
        IF i = 1 THEN 0 ELSE start[i - 1] + fields[i - 1].size
  IN  start[CHOOSE i \in 1 .. Len(fields) : fields[i].name = f]

FieldType(fields, f) ==
  fields[CHOOSE i \in 1 .. Len(fields) : fields[i].name = f].type

RECURSIVE ValueOf(_, _, _)

\* The address of an object in data memory.
AddressOf(fields, s, e) ==
  CASE e.kind = "member" -> FieldOffset(fields, e.member)
    [] e.kind = "index" ->
         (ValueOf(fields, s, e.base) + ValueOf(fields, s, e.index)) % WordSpace
    [] e.kind = "unary" -> ValueOf(fields, s, e.operand)

\* An array stands for its address.
ValueOf(fields, s, e) ==
  CASE e.kind = "number" -> e.value
    [] e.kind = "identifier" ->
         IF e.name \in DOMAIN s.locals THEN s.locals[e.name] ELSE s.builtin[e.name]
    [] e.kind = "binary" ->
         Arithmetic(e.op, ValueOf(fields, s, e.lhs), ValueOf(fields, s, e.rhs))
    [] e.kind = "unary" /\ e.op = "address" -> AddressOf(fields, s, e.operand)
    [] e.kind = "unary" /\ e.op = "minus" -> (-ValueOf(fields, s, e.operand)) % WordSpace
    [] e.kind = "unary" /\ e.op = "plus" -> ValueOf(fields, s, e.operand)
    [] e.kind = "member" /\ FieldType(fields, e.member) = "array" ->
         AddressOf(fields, s, e)
    [] OTHER -> s.memory[AddressOf(fields, s, e)]

Holds(fields, s, c) == c = None \/ ValueOf(fields, s, c) # 0

SetLocal(s, x, v) == [s EXCEPT !.locals = (x :> v) @@ @]

\* The variables of a block or a loop end with it.
Leave(s, inner) == [inner EXCEPT !.locals = [x \in DOMAIN s.locals |-> @[x]]]

RECURSIVE Exec(_, _, _), ExecAll(_, _, _), Loop(_, _, _, _, _)

\* A thread that has returned executes nothing.
Exec(fields, s, t) ==
  IF s.returned THEN s
  ELSE CASE t.kind = "none" -> s
         [] t.kind = "expression" -> s
         [] t.kind = "return" -> [s EXCEPT !.returned = TRUE]
         [] t.kind = "declare" ->
              SetLocal(s, t.name, IF t.init = None THEN 0 ELSE ValueOf(fields, s, t.init))
         [] t.kind = "assign" /\ t.target.kind = "identifier" ->
              SetLocal(s, t.target.name, ValueOf(fields, s, t.value))
         [] t.kind = "assign" /\ t.target.kind # "identifier" ->
              [s EXCEPT !.memory[AddressOf(fields, s, t.target)] = ValueOf(fields, s, t.value)]
         [] t.kind = "block" -> Leave(s, ExecAll(fields, s, t.body))
         [] t.kind = "if" ->
              Exec(fields, s, IF Holds(fields, s, t.condition) THEN t.then_block
                              ELSE t.else_block)
         [] t.kind = "while" -> Loop(fields, s, t, None, MaxRounds)
         [] t.kind = "for" ->
              Leave(s, Loop(fields, Exec(fields, s, t.init), t, t.step, MaxRounds))

ExecAll(fields, s, body) ==
  IF body = <<>> THEN s ELSE ExecAll(fields, Exec(fields, s, Head(body)), Tail(body))

Loop(fields, s, t, step, rounds) ==
  IF s.returned \/ ~Holds(fields, s, t.condition) THEN s
  ELSE IF rounds = 0 THEN [s EXCEPT !.returned = TRUE, !.diverges = TRUE]
  ELSE Loop(fields, Exec(fields, Exec(fields, s, t.body), step), t, step, rounds - 1)

Meaning(fields, body, words, builtin) ==
  ExecAll(fields, [memory |-> words, locals |-> <<>>, builtin |-> builtin,
                   returned |-> FALSE, diverges |-> FALSE], body)
=============================================================================
