------------------------------- MODULE Parser -------------------------------
(***************************************************************************)
(* The kernel compiler's parser (parser.cpp): recursive descent over the   *)
(* tokens of a kernel.  A token is its kind, with the lexeme of an         *)
(* identifier and the value of a number.  The lexer is left out, and of a  *)
(* type only what the generator reads: u8, pointer, or array with its size.*)
(*                                                                         *)
(* Every function takes the parser and gives the parser after it: the      *)
(* tokens that are left, ok, and the parts built so far (the local         *)
(* variables and return values of the functions), to which it adds one.    *)
(* An exception (Throw) leaves no tokens, so that nothing more is read.    *)
(***************************************************************************)
EXTENDS Language

Throw == [rest |-> <<>>, ok |-> FALSE, parts |-> <<>>]
Peek(p) == IF p.rest = <<>> THEN "eof" ELSE Head(p.rest).kind
Advance(p) == [p EXCEPT !.rest = Tail(@)]
Consume(p, kind) == IF Peek(p) = kind THEN Advance(p) ELSE Throw

Add(p, part) == [p EXCEPT !.parts = Append(@, part)]
Newest(p) == p.parts[Len(p.parts)]

\* The last n parts make one.
Build(p, n, Make(_)) ==
  LET older == Len(p.parts) - n
  IN  IF p.ok
      THEN [p EXCEPT !.parts = Append(SubSeq(@, 1, older), Make(SubSeq(@, older + 1, Len(@))))]
      ELSE Throw

ConsumeName(p) == IF Peek(p) = "identifier" THEN Add(Advance(p), Head(p.rest).lexeme) ELSE Throw
ConsumeNumber(p) == IF Peek(p) = "number" THEN Add(Advance(p), Head(p.rest).number) ELSE Throw

-----------------------------------------------------------------------------
(* Expressions.                                                            *)

BinaryOps == "+" :> "ADD" @@ "-" :> "SUB" @@ "*" :> "MUL" @@ "/" :> "DIV"
UnaryOps == "&" :> "address" @@ "*" :> "dereference" @@ "+" :> "plus" @@ "-" :> "minus"

RECURSIVE ParseExpr(_), ParseUnary(_)
RECURSIVE MoreTerms(_), MoreFactors(_), MorePostfixes(_)

ParsePrimary(p) ==
  CASE Peek(p) = "number" -> Build(ConsumeNumber(p), 1, LAMBDA t : NumberExpr(t[1]))
    [] Peek(p) = "identifier" -> Build(ConsumeName(p), 1, LAMBDA t : IdentifierExpr(t[1]))
    [] Peek(p) = "(" -> Consume(ParseExpr(Advance(p)), ")")
    [] OTHER -> Throw

ParseIndex(p) ==
  Build(Consume(ParseExpr(Advance(p)), "]"), 2, LAMBDA t : IndexExpr(t[1], t[2]))

ParseMember(p) == Build(ConsumeName(Advance(p)), 2, LAMBDA t : MemberExpr(t[1], t[2]))

MorePostfixes(p) ==
  CASE Peek(p) = "[" -> MorePostfixes(ParseIndex(p))
    [] Peek(p) = "." -> MorePostfixes(ParseMember(p))
    [] OTHER -> p

ParseUnary(p) ==
  IF Peek(p) \in DOMAIN UnaryOps
  THEN Build(ParseUnary(Advance(p)), 1, LAMBDA t : UnaryExpr(UnaryOps[Peek(p)], t[1]))
  ELSE MorePostfixes(ParsePrimary(p))

\* The last two parts are the operands.
Operation(p, sign) == Build(p, 2, LAMBDA t : BinaryExpr(BinaryOps[sign], t[1], t[2]))

MoreFactors(p) ==
  IF Peek(p) \in {"*", "/"} THEN MoreFactors(Operation(ParseUnary(Advance(p)), Peek(p))) ELSE p

ParseMultiplicative(p) == MoreFactors(ParseUnary(p))

\* Mutant: what follows an operator is its right operand as a whole.
MoreTermsToTheRight(p) ==
  IF Peek(p) \in {"+", "-"} THEN Operation(ParseExpr(Advance(p)), Peek(p)) ELSE p

MoreTerms(p) ==
  IF Peek(p) \in {"+", "-"} THEN MoreTerms(Operation(ParseMultiplicative(Advance(p)), Peek(p)))
  ELSE p

ParseExpr(p) == MoreTerms(ParseMultiplicative(p))

-----------------------------------------------------------------------------
(* Declarations and statements.                                            *)

RECURSIVE ParseStars(_)
ParseStars(p) ==
  IF Peek(p) = "*" THEN ParseStars(Build(Advance(p), 1, LAMBDA t : "pointer")) ELSE p

ParseType(p) == ParseStars(Add(Consume(p, "u8"), "u8"))

\* After a type and a name.
ParseSize(p) ==
  IF Peek(p) = "["
  THEN Build(Consume(ConsumeNumber(Advance(p)), "]"), 3,
             LAMBDA t : [name |-> t[2], type |-> "array", size |-> t[3]])
  ELSE Build(p, 2, LAMBDA t : [name |-> t[2], type |-> t[1], size |-> 1])

\* What a field and a variable begin with.
ParseDeclarator(p) == ParseSize(ConsumeName(ParseType(p)))

ParseInitial(p) == IF Peek(p) = "=" THEN ParseExpr(Advance(p)) ELSE Add(p, None)

ParseVarDecl(p) ==
  Build(ParseInitial(ParseDeclarator(p)), 2, LAMBDA t : VarDecl(t[1].type, t[1].name, t[2]))

\* After an expression, which may be the target of an assignment.
ParseAssign(p) ==
  IF Peek(p) = "=" THEN Build(ParseExpr(Advance(p)), 2, LAMBDA t : AssignStmt(t[1], t[2]))
  ELSE Build(p, 1, LAMBDA t : ExprStmt(t[1]))

\* A statement without its semicolon, as a for clause has it.
ParseDeclOrExpr(p) == IF Peek(p) = "u8" THEN ParseVarDecl(p) ELSE ParseAssign(ParseExpr(p))

RECURSIVE ParseStmt(_), ParseStmts(_)

\* The newest part is the block so far.
ParseStmts(p) ==
  IF p.ok /\ Peek(p) # "}"
  THEN ParseStmts(Build(ParseStmt(p), 2, LAMBDA t : BlockStmt(Append(t[1].body, t[2]))))
  ELSE Consume(p, "}")

ParseBlock(p) == ParseStmts(Add(Consume(p, "{"), BlockStmt(<<>>)))

ParseElse(p) == IF Peek(p) = "else" THEN ParseBlock(Advance(p)) ELSE Add(p, None)

\* The else block belongs to the if before it.
ParseIf(p) ==
  LET condition == ParseExpr(Consume(Consume(p, "if"), "("))
      then == ParseBlock(Consume(condition, ")"))
  IN  Build(ParseElse(then), 3, LAMBDA t : IfStmt(t[1], t[2], t[3]))

ParseWhile(p) ==
  LET condition == ParseExpr(Consume(Consume(p, "while"), "("))
      body == ParseBlock(Consume(condition, ")"))
  IN  Build(body, 2, LAMBDA t : WhileStmt(t[1], t[2]))

\* A clause that ends before the token end, and may be absent.
ParseClause(p, end, Clause(_)) == IF Peek(p) = end THEN Add(p, None) ELSE Clause(p)

ParseFor(p) ==
  LET init == ParseClause(Consume(Consume(p, "for"), "("), ";", ParseDeclOrExpr)
      condition == ParseClause(Consume(init, ";"), ";", ParseExpr)
      step == ParseClause(Consume(condition, ";"), ")", ParseDeclOrExpr)
      body == ParseBlock(Consume(step, ")"))
  IN  Build(body, 4, LAMBDA t : ForStmt(t[1], t[2], t[3], t[4]))

ParseReturn(p) ==
  Build(Consume(ParseExpr(Consume(p, "return")), ";"), 1, LAMBDA t : ReturnStmt(t[1]))

ParseStmt(p) ==
  CASE Peek(p) = "{" -> ParseBlock(p)
    [] Peek(p) = "if" -> ParseIf(p)
    [] Peek(p) = "while" -> ParseWhile(p)
    [] Peek(p) = "for" -> ParseFor(p)
    [] Peek(p) = "return" -> ParseReturn(p)
    [] OTHER -> Consume(ParseDeclOrExpr(p), ";")

-----------------------------------------------------------------------------
(* Translation units.                                                      *)

RECURSIVE ParseFields(_), ParseUnit(_)

ParseFields(p) ==
  IF p.ok /\ Peek(p) # "}"
  THEN ParseFields(Build(Consume(ParseDeclarator(p), ";"), 2, LAMBDA t : Append(t[1], t[2])))
  ELSE Consume(p, "}")

ParseGlobal(p) ==
  LET name == ConsumeName(Consume(p, "global"))
      fields == ParseFields(Add(Consume(name, "{"), <<>>))
  IN  Build(Consume(fields, ";"), 2, LAMBDA t : [name |-> t[1], fields |-> t[2]])

\* The only function is main, and it has no parameters.
CheckMain(p) == IF p.ok /\ Newest(p) = "main" THEN p ELSE Throw

ParseFunction(p) ==
  LET name == CheckMain(ConsumeName(ParseType(p)))
      body == ParseBlock(Consume(Consume(name, "("), ")"))
  IN  Build(body, 3, LAMBDA t : t[3])

EmptyUnit == [globals |-> <<>>, main |-> None]

\* The newest part is the unit so far.
ParseUnit(p) ==
  CASE ~p.ok \/ Peek(p) = "eof" -> p
    [] Peek(p) = "global" ->
         ParseUnit(Build(ParseGlobal(p), 2, LAMBDA t : [t[1] EXCEPT !.globals = Append(@, t[2])]))
    [] Peek(p) = "u8" /\ Newest(p).main = None ->
         ParseUnit(Build(ParseFunction(p), 2, LAMBDA t : [t[1] EXCEPT !.main = t[2]]))
    [] OTHER -> Throw

\* An exception ends the parse with an empty unit.
UnitOf(p) == IF p.ok THEN Newest(p) ELSE EmptyUnit

Parse(tokens) == UnitOf(ParseUnit([rest |-> tokens, ok |-> TRUE, parts |-> <<EmptyUnit>>]))
=============================================================================
