------------------------------- MODULE Grammar -------------------------------
(***************************************************************************)
(* The concrete syntax of the kernel language, which the parser is compared*)
(* with: how a tree is written, with no more parentheses than it needs, and*)
(* the trees that the productions of the expressions give to a text.       *)
(***************************************************************************)
EXTENDS Language

Sign(kind) == <<[kind |-> kind]>>
Identifier(x) == <<[kind |-> "identifier", lexeme |-> x]>>
Number(n) == <<[kind |-> "number", number |-> n]>>

RECURSIVE Join(_)
Join(texts) == IF texts = <<>> THEN <<>> ELSE Head(texts) \o Join(Tail(texts))

Signs == "ADD" :> "+" @@ "SUB" :> "-" @@ "MUL" :> "*" @@ "DIV" :> "/"
           @@ "address" :> "&" @@ "dereference" :> "*" @@ "plus" :> "+" @@ "minus" :> "-"

-----------------------------------------------------------------------------
(* How a tree is written.                                                  *)

\* How tightly the parts of an expression hold together.
Level(e) ==
  CASE e.kind = "binary" /\ e.op \in {"ADD", "SUB"} -> 0
    [] e.kind = "binary" /\ e.op \in {"MUL", "DIV"} -> 1
    [] e.kind = "unary" -> 2
    [] OTHER -> 3

RECURSIVE Expr(_, _)

\* e where the parts have to hold together at least as tightly as level.
Expr(e, level) ==
  LET text ==
        CASE e.kind = "number" -> Number(e.value)
          [] e.kind = "identifier" -> Identifier(e.name)
          [] e.kind = "unary" -> Sign(Signs[e.op]) \o Expr(e.operand, 2)
          [] e.kind = "binary" ->
               Expr(e.lhs, Level(e)) \o Sign(Signs[e.op]) \o Expr(e.rhs, Level(e) + 1)
          [] e.kind = "index" ->
               Expr(e.base, 3) \o Sign("[") \o Expr(e.index, 0) \o Sign("]")
          [] e.kind = "member" -> Expr(e.base, 3) \o Sign(".") \o Identifier(e.member)
  IN  IF Level(e) < level THEN Sign("(") \o text \o Sign(")") ELSE text

\* The size of a local array is not in its tree.
Declarator(type, name, size) ==
  Sign("u8") \o (IF type = "pointer" THEN Sign("*") ELSE <<>>) \o Identifier(name)
    \o IF type = "array" THEN Sign("[") \o Number(size) \o Sign("]") ELSE <<>>

RECURSIVE Stmt(_)
Braces(block) == Sign("{") \o Join([i \in DOMAIN block.body |-> Stmt(block.body[i])]) \o Sign("}")

\* A statement without a semicolon of its own, as it is in a for clause.
Clause(t) ==
  CASE t.kind = "none" -> <<>>
    [] t.kind = "expression" -> Expr(t.expr, 0)
    [] t.kind = "assign" -> Expr(t.target, 0) \o Sign("=") \o Expr(t.value, 0)
    [] t.kind = "declare" ->
         Declarator(t.type, t.name, 2)
           \o IF t.init = None THEN <<>> ELSE Sign("=") \o Expr(t.init, 0)

Stmt(t) ==
  CASE t.kind = "block" -> Braces(t)
    [] t.kind = "return" -> Sign("return") \o Expr(t.value, 0) \o Sign(";")
    [] t.kind = "if" ->
         Sign("if") \o Sign("(") \o Expr(t.condition, 0) \o Sign(")") \o Braces(t.then_block)
           \o IF t.else_block = None THEN <<>> ELSE Sign("else") \o Braces(t.else_block)
    [] t.kind = "while" ->
         Sign("while") \o Sign("(") \o Expr(t.condition, 0) \o Sign(")") \o Braces(t.body)
    [] t.kind = "for" ->
         Sign("for") \o Sign("(") \o Clause(t.init) \o Sign(";")
           \o (IF t.condition = None THEN <<>> ELSE Expr(t.condition, 0)) \o Sign(";")
           \o Clause(t.step) \o Sign(")") \o Braces(t.body)
    [] OTHER -> Clause(t) \o Sign(";")

Field(field) == Declarator(field.type, field.name, field.size) \o Sign(";")

Global(global) ==
  Sign("global") \o Identifier(global.name) \o Sign("{")
    \o Join([i \in DOMAIN global.fields |-> Field(global.fields[i])]) \o Sign("}") \o Sign(";")

Function(name, body) == Sign("u8") \o Identifier(name) \o Sign("(") \o Sign(")") \o Braces(body)

Unit(unit) ==
  Join([i \in DOMAIN unit.globals |-> Global(unit.globals[i])]) \o Function("main", unit.main)

-----------------------------------------------------------------------------
(* The trees of a text, by the productions of the expressions:             *)
(*   sum: product, or sum + product, or sum - product                      *)
(*   product: unary, or product * unary, or product / unary                *)
(*   unary: postfix, or one of & * + - and a unary                         *)
(*   postfix: name, number, (sum), postfix [sum], or postfix.name          *)

RECURSIVE Sums(_), Products(_), Unaries(_), Postfixes(_)

Before(text, i) == SubSeq(text, 1, i - 1)
After(text, i) == SubSeq(text, i + 1, Len(text))
Last(text) == IF text = <<>> THEN "eof" ELSE text[Len(text)].kind
Where(text, op) == {i \in DOMAIN text : text[i].kind = Signs[op]}

Postfixes(text) ==
  LET n == Len(text)
      inside(i) == SubSeq(text, i + 1, n - 1)
      closed(sign) == {i \in 1 .. n - 1 : text[i].kind = sign}
  IN  CASE Last(text) = "number" -> {e \in {NumberExpr(text[n].number)} : n = 1}
        [] Last(text) = "identifier" ->
             {e \in {IdentifierExpr(text[n].lexeme)} : n = 1}
             \cup {MemberExpr(b, text[n].lexeme) :
                     b \in IF n > 1 /\ text[n - 1].kind = "." THEN Postfixes(Before(text, n - 1))
                           ELSE {}}
        [] Last(text) = ")" -> UNION {Sums(inside(i)) : i \in closed("(") \cap {1}}
        [] Last(text) = "]" ->
             UNION {{IndexExpr(b, e) : b \in Postfixes(Before(text, i)), e \in Sums(inside(i))} :
                      i \in closed("[")}
        [] OTHER -> {}

Unaries(text) ==
  Postfixes(text)
  \cup UNION {{UnaryExpr(op, e) : e \in IF 1 \in Where(text, op) THEN Unaries(Tail(text)) ELSE {}} :
                op \in {"address", "dereference", "plus", "minus"}}

Products(text) ==
  Unaries(text)
  \cup UNION {UNION {{BinaryExpr(op, l, r) : l \in Products(Before(text, i)),
                                             r \in Unaries(After(text, i))} :
                       i \in Where(text, op)} : op \in {"MUL", "DIV"}}

Sums(text) ==
  Products(text)
  \cup UNION {UNION {{BinaryExpr(op, l, r) : l \in Sums(Before(text, i)),
                                             r \in Products(After(text, i))} :
                       i \in Where(text, op)} : op \in {"ADD", "SUB"}}
=============================================================================
