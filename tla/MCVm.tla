-------------------------------- MODULE MCVm --------------------------------
(***************************************************************************)
(* Families of programs: those that call a function of one parameter with  *)
(* every body of three statements below; those with three statements at    *)
(* the root; those with closures, effects and AI operations.  Most that do *)
(* not type-check are refused before they run; names are few, so that      *)
(* shadowing and redeclaring is common.                                    *)
(***************************************************************************)
EXTENDS Vm

Num(n)      == Integer(ToString(n))
Use(f, args) == Call(Identifier(f), args)
Do(f, args) == ExprStmt(Use(f, args))
Minus(l, r) == Binary("-", l, r)
Less(l, r)  == Binary("<", l, r)
PrintOf(e)  == Do("print", <<e>>)
Def(f, ps, t, ss) == Fn(FALSE, f, ps, T(t), Absent, Block(ss))
Within(f, effects, ss) == Fn(FALSE, f, <<>>, T("Int"), Names("Effects", effects), Block(ss))
IntParam(x) == Param(x, T("Int"))
Fun         == FnType(<<>>, T("Int"))

X == Identifier("x")
Y == Identifier("y")
Pred == Minus(X, Num(1))

-----------------------------------------------------------------------------
(* Bodies of f(x) *)

Lets == {Let("x", Minus(Num(3), X)), Let("y", Num(7)), Let("y", Pred)}

Blocks == {<<l, PrintOf(Identifier(l.text))>> : l \in Lets} \cup {<<Return(Pred)>>}

BodyStatements ==
  Lets \cup {PrintOf(X)}
       \cup {If(Less(X, Num(2)), Block(b), Absent) : b \in Blocks}
       \cup {If(Less(X, Num(2)), Block(<<Let("y", X)>>), Block(b)) : b \in Blocks}

\* The recursive call is an operand, so that a value waits for it on the stack.
Recursive == Minus(X, Use("f", <<Pred>>))
Results == {X, Minus(X, Y), Recursive}

Stop == If(Less(X, Num(1)), Block(<<Return(Num(0))>>), Absent)

\* A `let` that shadows x must not undo the progress of the recursion.
FunctionPrograms ==
  {<<Def("f", <<IntParam("x")>>, "Int", <<Stop, p[1], p[2], Return(p[3])>>), PrintOf(Use("f", <<Num(2)>>))>> :
     p \in {q \in BodyStatements \X BodyStatements \X Results :
              ~(q[3] = Recursive /\ \E i \in 1..2 : q[i] = Let("x", Minus(Num(3), X)))}}

-----------------------------------------------------------------------------
(* Statements at the root *)

RootStatements ==
  {Let("x", Num(0)), Let("x", Num(2)), Let("y", Minus(Num(5), Num(1))),
   If(Less(X, Num(1)), Block(<<Let("y", Num(9)), PrintOf(Minus(Y, X))>>), Block(<<PrintOf(X)>>)),
   Assertion(Less(X, Num(1))),
   PrintOf(Binary("/", Num(7), X)),
   PrintOf(Minus(Y, X)),
   PrintOf(Use("f", <<Num(4)>>)),
   Def("f", <<IntParam("x")>>, "Int", <<Return(Pred)>>),
   Def("f", <<IntParam("x")>>, "Int", <<Return(Minus(Y, X))>>),
   Def("g", <<>>, "Unit", <<PrintOf(X)>>),
   Do("g", <<>>)}

Three(S) == S \X S \X S

\* A call at the end, so that failing statements have something to keep from running;
\* a call at the start, before the function and the globals it reads are declared.
RootPrograms ==
  Three(RootStatements)
    \cup {q \o <<PrintOf(Use("f", <<Num(1)>>))>> : q \in Three(RootStatements)}
    \cup {<<Do("g", <<>>)>> \o q : q \in Three(RootStatements)}

\* Lists, enums and the library: a list and a constant of an enum that a local hides.
E == Enum("E", <<"A", "B">>)
DataStatements ==
  {Let("x", Elements(<<Num(4), Num(7)>>)),
   Import("collections"),
   PrintOf(Index(X, Num(1))), PrintOf(Index(X, Unary("-", Num(1)))),
   PrintOf(Index(X, Minus(Use("collections_length", <<X>>), Num(1)))),
   If(Unary("!", Binary("==", Identifier("E_A"), Identifier("E_B"))),
      Block(<<Let("E_A", Num(1)), PrintOf(Identifier("E_A"))>>), Absent),
   Def("f", <<Param("x", Type("List", <<T("Int")>>))>>, "Int",
       <<Return(Index(X, Use("collections_length", <<X>>)))>>),
   PrintOf(Use("f", <<X>>))}
DataPrograms == {<<E>> \o q : q \in Three(DataStatements)} \cup {q \o <<E>> : q \in Three(DataStatements)}

-----------------------------------------------------------------------------
(* Closures, effects and AI operations, which only the interpreter runs *)

Ask   == Await(Use("ask", <<X>>))
Look  == Await(Use("look", <<>>))
Declared0 ==
  <<Infer("ask", <<IntParam("q")>>, T("Int"), Absent),
    Tool("look", <<>>, T("Int"), Block(<<Return(Await(Use("ask", <<Num(1)>>)))>>))>>

EffectBodies == {<<Return(X)>>, <<Return(Ask)>>, <<Return(Look)>>, <<Return(Use("g", <<>>))>>,
                 <<If(Less(X, Num(2)), Block(<<Return(Ask)>>), Block(<<Return(Num(1))>>))>>,
                 <<If(Less(X, Num(1)), Block(<<Return(X)>>), Absent)>>}
Clauses == {<<"pure">>, <<"inference">>, <<"tool">>, <<"inference", "tool">>}
Clausewise(f, bodies) ==
  {Def(f, <<>>, "Int", b) : b \in bodies} \cup {Within(f, c, b) : c \in Clauses, b \in bodies}

EffectPrograms ==
  {Declared0 \o <<Let("x", Num(1)), g, f, PrintOf(Minus(Use("f", <<>>), X))>> :
     g \in Clausewise("g", EffectBodies \ {<<Return(Use("g", <<>>))>>}), f \in Clausewise("f", EffectBodies)}

ClosureOf(b) == Lambda(<<>>, T("Int"), Block(b))
Letters0 == Characters("String", <<"a">>)
ClosureStatements ==
  {Let("x", Num(1)), Let("x", Letters0), Let("h", ClosureOf(<<Return(X)>>)),
   Let("h", ClosureOf(<<Let("x", Num(2)), Return(X)>>)),
   Let("x", ClosureOf(<<Return(X)>>)),
   PrintOf(Minus(Use("h", <<>>), Num(1))),
   PrintOf(IfExpr(Binary("&&", Bool(TRUE), Less(Use("h", <<>>), Num(2))), X, Num(5))),
   Def("k", <<Param("h", Fun)>>, "Int", <<Return(Minus(Use("h", <<>>), X))>>),
   PrintOf(Use("k", <<Identifier("h")>>)),
   PrintOf(Use("k", <<ClosureOf(<<Return(Use("h", <<>>))>>)>>)),
   Fn(TRUE, "p", <<>>, T("Int"), Absent, Block(<<Return(Use("h", <<>>))>>)),
   PrintOf(Minus(Await(Use("p", <<>>)), X))}
ClosurePrograms ==
  {<<Let("x", Num(3))>> \o q : q \in ClosureStatements \X ClosureStatements \X ClosureStatements \X ClosureStatements}

RepeatStatements ==
  {Let("a", Ask), Let("b", Ask), Let("b", Look), ExprStmt(Ask), ExprStmt(Look), Let("x", Num(2)),
   Let("a", Await(Use("ask", <<Use("g", <<>>)>>))), Let("b", Await(Use("ask", <<Use("g", <<>>)>>))),
   If(Less(X, Num(2)), Block(<<Let("c", Ask), Let("d", Ask), PrintOf(Identifier("d"))>>), Block(<<Let("c", Look)>>)),
   PrintOf(Identifier("a")), PrintOf(Identifier("b"))}
RepeatPrograms ==
  {Declared0 \o <<Let("x", Num(1)), Def("g", <<>>, "Int", <<PrintOf(Num(8)), Return(X)>>)>> \o q
     \o <<PrintOf(Identifier("b"))>> : q \in Three(RepeatStatements)}

MCPrograms ==
  {Program(q) : q \in FunctionPrograms \cup RootPrograms \cup DataPrograms \cup EffectPrograms
                        \cup ClosurePrograms \cup RepeatPrograms}
=============================================================================
