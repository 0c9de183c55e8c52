----------------------------- MODULE MCCodegen -----------------------------
(* Kernels over the parameters { u8 *p; u8 v; u8 a[3]; } and a local x: one *)
(* statement of every form over small expressions, loops with branches and *)
(* returns in them, and kernels at the limits of registers and memory; and *)
(* texts that are no kernels.                                              *)
EXTENDS Codegen

Fields == <<[name |-> "p", type |-> "pointer", size |-> 1],
            [name |-> "v", type |-> "u8", size |-> 1],
            [name |-> "a", type |-> "array", size |-> 3]>>

x == IdentifierExpr("x")
p == MemberExpr(IdentifierExpr("Args"), "p")
v == MemberExpr(IdentifierExpr("Args"), "v")
a == MemberExpr(IdentifierExpr("Args"), "a")
Deref(e) == UnaryExpr("dereference", e)
Sub1(e) == BinaryExpr("SUB", e, NumberExpr(1))

Atoms == {NumberExpr(3), x, v, IdentifierExpr("threadIdx"), IndexExpr(a, x), Deref(p)}
Objects == {x, v, IndexExpr(a, x), IndexExpr(p, NumberExpr(1)), Deref(p), Deref(x)}

Exprs ==
  Atoms
  \cup {BinaryExpr(op, l, r) : op \in {"ADD", "SUB"}, l \in Atoms, r \in Atoms}
  \cup {BinaryExpr("MUL", BinaryExpr("DIV", l, x), v) : l \in Atoms}
  \cup {UnaryExpr(op, e) : op \in {"minus", "plus"}, e \in Atoms}
  \cup {UnaryExpr("address", o) : o \in Objects \ {x}}
  \cup {BinaryExpr(op, x, Sub1(v)) : op \in {"SUB", "MUL"}}
  \cup {UnaryExpr("minus", Sub1(x)), Deref(BinaryExpr("ADD", p, x))}
  \cup {Deref(x), IndexExpr(x, x), IndexExpr(IndexExpr(a, v), x), Deref(a)}

Return == ReturnStmt(NumberExpr(0))

Simple == {AssignStmt(o, e) : o \in Objects, e \in Exprs}

Declare == VarDecl("u8", "x", v)
Countdown == AssignStmt(x, Sub1(x))
Store == AssignStmt(IndexExpr(a, x), x)
One == BlockStmt(<<Store>>)

\* Blocks of one or two statements, some of which return or branch.
Blocks ==
  {BlockStmt(<<>>), One, BlockStmt(<<Countdown, Store>>),
   BlockStmt(<<AssignStmt(v, x), Return>>),
   BlockStmt(<<VarDecl("u8", "y", x), AssignStmt(Deref(p), IdentifierExpr("y"))>>),
   BlockStmt(<<IfStmt(Sub1(x), One, None)>>)}

Conditionals == {IfStmt(c, b, e) : c \in {x, v, Sub1(x)}, b \in Blocks, e \in Blocks \cup {None}}

Rounds(b) == BlockStmt(<<b, Countdown>>)
Bodies == {Rounds(b) : b \in Blocks \cup {IfStmt(Sub1(x), BlockStmt(<<Return>>), None)}}

z == IdentifierExpr("z")

Loops ==
  {WhileStmt(x, b) : b \in Bodies}
  \cup {ForStmt(init, x, Countdown, b) :
          init \in {None, AssignStmt(x, NumberExpr(2))},
          b \in Blocks \ {BlockStmt(<<Countdown, Store>>)}}
  \cup {ForStmt(VarDecl("u8", "z", NumberExpr(2)), z, AssignStmt(z, Sub1(z)),
                BlockStmt(<<WhileStmt(x, Rounds(One)), AssignStmt(x, v)>>)),
        ForStmt(None, None, Countdown,
                BlockStmt(<<Store, IfStmt(x, BlockStmt(<<>>), BlockStmt(<<Return>>))>>))}

\* A kernel may end without a return, but not in a branch that ends with one:
\* the generator then leaves out the last RET (see the README).
Ends == {<<Return>>, <<AssignStmt(v, x)>>}

Body(s) == {<<Declare, s>> \o end : end \in Ends}

RECURSIVE Deep(_)
Deep(n) == IF n = 0 THEN v ELSE BinaryExpr("ADD", v, Deep(n - 1))

\* Below, at and past the limits: registers, data memory, constants, program memory
\* (31, 32 and 33 instructions), lengths that wrap, and names used twice or not at all.
Limits ==
  {<<VarDecl("u8", "x", Deep(n)), AssignStmt(v, x)>> : n \in 2 .. 5}
  \cup {<<VarDecl("u8", "x", None), VarDecl("u8", "x", None)>>,
        <<AssignStmt(v, NumberExpr(WordSpace))>>, <<AssignStmt(v, x)>>,
        <<VarDecl("array", "x", None)>>, <<AssignStmt(v, MemberExpr(x, "v"))>>,
        <<AssignStmt(v, MemberExpr(IdentifierExpr("Args"), "q"))>>, <<AssignStmt(NumberExpr(1), v)>>,
        <<ExprStmt(UnaryExpr("address", NumberExpr(1)))>>,
        <<Declare>> \o [i \in 1 .. 7 |-> AssignStmt(x, v)]}
  \cup {<<Declare>> \o [i \in 1 .. n |-> AssignStmt(x, v)]
          \o [i \in 1 .. 7 - n |-> AssignStmt(x, NumberExpr(3))] : n \in {5, 6}}

Args == [name |-> "Args", fields |-> Fields]
Kernel(fields, body) ==
  [globals |-> <<[Args EXCEPT !.fields = fields]>>, main |-> BlockStmt(body)]

AllKernels ==
  {Kernel(Fields, b) :
     b \in {<<Declare, s, Return>> : s \in Simple \cup {BlockStmt(<<Store>>), ExprStmt(v)}}
           \cup UNION {Body(s) : s \in Conditionals \cup Loops} \cup Limits}
  \cup {Kernel(Append(Fields, [name |-> "big", type |-> "array", size |-> n]),
                <<AssignStmt(IndexExpr(MemberExpr(IdentifierExpr("Args"), "big"), NumberExpr(0)), v)>>) :
          n \in {3, 4}}
  \cup {Kernel(Append(Fields, [name |-> "big", type |-> "array", size |-> LengthSpace - n]),
                <<Declare, Store>>) : n \in {5, 6}}
  \cup {Kernel(Append(Fields, [name |-> "v", type |-> "u8", size |-> 1]), <<>>),
         [globals |-> <<>>, main |-> BlockStmt(<<AssignStmt(v, v)>>)],
         [globals |-> <<Args, Args>>, main |-> BlockStmt(<<>>)]}

Text == INSTANCE Grammar

\* Expressions token by token, most of which are none, as the value of x.
Texts(alphabet, n) == UNION {[1 .. k -> alphabet] : k \in 0 .. n}
Names == {[kind |-> "identifier", lexeme |-> "x"], [kind |-> "number", number |-> 1]}
Tokens(signs) == Names \cup {[kind |-> s] : s \in signs}
Rows == Texts(Tokens({"+", "*", "&", "(", ")", "[", "]", "."}), 4)
        \cup Texts(Tokens({"-", "*"}) \ {[kind |-> "number", number |-> 1]}, 5)
        \cup Texts(Tokens({"-", "(", ")"}) \ {[kind |-> "number", number |-> 1]}, 5)

Reading(row) ==
  [tokens |-> Text!Join(<<Text!Sign("u8"), Text!Identifier("main"), Text!Sign("("), Text!Sign(")"),
                     Text!Sign("{"), Text!Sign("u8"), Text!Identifier("x"), Text!Sign(";"),
                     Text!Identifier("x"), Text!Sign("="), row, Text!Sign(";"), Text!Sign("}")>>),
   unit |-> IF Text!Sums(row) = {} THEN EmptyUnit
            ELSE [globals |-> <<>>,
                  main |-> BlockStmt(<<VarDecl("u8", "x", None),
                                       AssignStmt(x, CHOOSE e \in Text!Sums(row) : TRUE)>>)]]

\* A kernel with every form of statement, cut off anywhere, without one of its
\* signs, and functions that the language does not have.
Everything ==
  Kernel(Fields, <<Declare, ForStmt(VarDecl("pointer", "z", None), x, Countdown, One),
                   IfStmt(x, One, BlockStmt(<<WhileStmt(x, Rounds(One))>>)), Return>>)
Long == Text!Unit(Everything)
Needed == {"(", ")", "{", "}", "[", "]", ";", "=", "."}
Function(name) == Text!Function(name, BlockStmt(<<>>))
Broken ==
  {SubSeq(Long, 1, i) : i \in 0 .. Len(Long) - 1}
  \cup {RemoveAt(Long, i) : i \in {j \in DOMAIN Long : Long[j].kind \in Needed}}
  \cup {Function("helper"), Function("main") \o Function("main"),
         Text!Sign("u8") \o Text!Identifier("main") \o Text!Sign("(") \o Text!Sign("u8")
           \o Text!Identifier("x") \o Text!Sign(")") \o Text!Sign("{") \o Text!Sign("}")}

AllSources ==
  {[tokens |-> Text!Unit(k), unit |-> k] : k \in AllKernels \cup {Everything}}
  \cup {Reading(row) : row \in Rows}
  \cup {[tokens |-> tokens,
         unit |-> IF tokens = Text!Global(Args) THEN [EmptyUnit EXCEPT !.globals = <<Args>>]
                  ELSE EmptyUnit] : tokens \in Broken}

\* p points behind the parameters, or to them.
SomeInputs ==
  {[i \in 0 .. WordSpace - 1 |-> CASE i = 0 -> to [] i = 1 -> 3 [] OTHER -> (3 * i) % WordSpace] :
     to \in {1, 5}}

OneThread == {[block |-> 1, thread |-> 2]}
=============================================================================
