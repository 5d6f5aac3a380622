------------------------------ MODULE MCFrontEnd ------------------------------
(***************************************************************************)
(* Projects of up to four files that import each other in every way, and   *)
(* files with every operator under every other, every statement, and every *)
(* form that `migrate` rewrites.                                           *)
(***************************************************************************)
EXTENDS FrontEnd

Num(n)   == Integer(ToString(n))
Var(x)   == Identifier(x)
Use(f, args) == Call(Identifier(f), args)
PrintOf(e) == ExprStmt(Use("print", <<e>>))
IntType  == Type("Int", <<>>)
BoolType == Type("Bool", <<>>)

\* A text spelled with every bracket, and with a space where none is needed.
RECURSIVE Spelled(_)
InParens(e) == <<"(", " ">> \o Spelled(e) \o <<")">>
Spelled(e) ==
  CASE e.kind = "Unary" -> <<e.text>> \o InParens(e.parts[1])
    [] e.kind = "Await" -> <<"await">> \o InParens(e.parts[1])
    [] e.kind = "Binary" -> InParens(e.parts[1]) \o Symbol(e.text) \o InParens(e.parts[2])
    [] e.kind = "Call" -> InParens(e.parts[1]) \o <<"(">>
                            \o Separated([i \in 1..Len(e.parts) - 1 |-> InParens(e.parts[i + 1])], <<",">>) \o <<")">>
    [] e.kind = "Index" -> InParens(e.parts[1]) \o <<"[">> \o InParens(e.parts[2]) \o <<"]">>
    [] e.kind = "List" -> <<"[">> \o Separated([i \in DOMAIN e.parts |-> InParens(e.parts[i])], <<",">>) \o <<"]">>
    [] e.kind = "IfExpr" -> <<"if">> \o InParens(e.parts[1]) \o <<"{">> \o InParens(e.parts[2]) \o <<"}", "else", "{">>
                              \o InParens(e.parts[3]) \o <<"}">>
    [] OTHER -> PrintExpr(e, 0)

-----------------------------------------------------------------------------
(* Files for the formatter *)

OpsSeq == <<"||", "&&", "==", "!=", "<", ">", "<=", ">=", "+", "-", "*", "/">>
Operators == ToSet(OpsSeq)
A == Var("a")
B == Var("b")
C == Var("c")
Small == <<Unary("-", B), Unary("!", B), Await(B), Call(B, <<>>), Call(B, <<A, C>>), Index(B, C),
           IfExpr(A, B, C), Lambda(<<>>, IntType, Block(<<Return(A)>>)), Elements(<<A, B>>),
           NodeLiteral("Box", <<Node("Prop", "gap", <<Num(1)>>)>>, <<B, C>>),
           Float("1", "5"), Characters("String", <<"a", Quote, Slosh, "\n">>)>>

\* Every expression over every other.
Over(e) ==
  <<Unary("-", e), Unary("!", e), Await(e), Call(e, <<A>>), Call(A, <<e, e>>), Index(e, A), Index(A, e),
    IfExpr(e, A, B), IfExpr(A, B, e), Elements(<<e>>)>>
Under(e) == Over(e) \o [i \in DOMAIN OpsSeq |-> Binary(OpsSeq[i], e, C)] \o [i \in DOMAIN OpsSeq |-> Binary(OpsSeq[i], A, e)]

LetOf(e) == <<"let", " ", "x", "=">> \o Spelled(e) \o <<"\n">>
ExpressionTexts ==
  UNION {{LetOf(e) : e \in ToSet(Under(inner))} : inner \in {Binary(op, A, B) : op \in Operators} \cup ToSet(Small)}

\* No brackets: the precedence of the parser decides.
PlainTexts ==
  {<<"let", " ", "x", "=", "a">> \o Symbol(p) \o <<"b">> \o Symbol(q) \o <<"-", "c">> \o Symbol(p) \o <<"!", "a", "\n">> :
     p, q \in Operators}

Signature2 == <<"(", "a", ":", "Int", ",", "b", ":", "List", "<", "E", ">", ")", "-", ">", "fn", "(", "Int", ")", "-", ">", "Bool">>
Body2 == <<"{", "return", " ", "a", "}", "\n">>
StatementTexts ==
  {<<"fn", " ", "f">> \o Signature2 \o <<" ", "effects", "[", "pure", "]">> \o Body2,
   <<"async", " ", "fn", " ", "f", "(", ")", "-", ">", "Int">> \o Body2 \o <<"\n", "\n", "x", "(", ")", "\n">>,
   <<"infer", " ", "f">> \o Signature2 \o <<" ", "permissions", "[", "t", ",", "u", "]", "\n">>,
   <<"tool", " ", "f">> \o Signature2 \o <<"\n", "tool", " ", "g">> \o Signature2 \o Body2,
   <<"enum", " ", "E", "{", "A", " ", "B", "}">>, <<"enum", " ", "E", "{", "}">>,
   <<"import", " ", "math", "\n", "import", " ", Quote, ".", "/", "a", Quote, " ", "as", " ", "a", "\n">>,
   <<"test", Quote, "t", Slosh, "t", Quote, "{", "mock", " ", "f", "-", ">", "1", "\n", "\n", "assert", " ", "a", "}">>,
   <<"budget", "{", "max_cost", "=", "2", " ", "max_tokens", "=", "10", " ", "max_cost", "=", "1", ".", "5", "}">>,
   <<"if", " ", "a", "{", "}", "else", " ", "if", " ", "b", "{", "x", "}", "else", "{", "if", " ", "c", "{", "y", "}", "}">>,
   <<"let", " ", "x", "=", "a", "/", "b", "/", "/", " ", "note", "\n">>,
   <<"/", "/", " ", Quote, "\n", "x", "\n">>,
   <<"print", "(", Quote, "/", "/", Quote, ")", "\n">>,
   <<"print", "(", Quote, Slosh, Quote, "/", "/", Quote, ")", "/", "/", "\n">>,
   <<"let", " ", "x", "=", "\n">>, <<"print", "(", Quote, "\n">>, <<"x", " ", "=", "1", "\n">>,
   <<"budget", "{", "max_calls", "=", "1", "}">>, <<"fn", " ", "f", "(", ")", "effects", "[", "slow", "]", "{", "}">>,
   <<"let", " ", "x", "=", "9223372036854775808", "\n">>, <<"let", " ", "x", "=", "1", ".", "\n">>, <<"&", "\n">>}

-----------------------------------------------------------------------------
(* Sessions with one file *)

Main == <<"main.an">>
Disk(files) == [files |-> files, manifests |-> {}, locks |-> <<>>]
Do(do, path) == Command(do, path, FALSE, FALSE)
Check2(do, path) == Command(do, path, FALSE, TRUE)

FormatSessions ==
  [disk : {Disk(Main :> t) : t \in ExpressionTexts \cup PlainTexts \cup StatementTexts},
   script : {<<Check2("fmt", Main), Do("fmt", Main), Do("fmt", Main)>>}]
    \cup [disk : {Disk(<<>>)}, script : {<<Do("fmt", Main), Do("migrate", Main), Do("run", Main)>>}]

\* What migrate rewrites: comparisons with a literal, and functions that return on both branches.
P == Var("p")
Bools == {P, Bool(TRUE), Bool(FALSE), Unary("!", P), Binary("==", P, Bool(TRUE))}
Comparisons == {Binary(op, l, r) : op \in {"==", "!="}, l \in Bools, r \in Bools}
Conditional(c, e) ==
  Fn(FALSE, "f", <<Param("p", BoolType)>>, BoolType, Absent,
     Block(<<If(c, Block(<<Return(e)>>), Block(<<If(P, Block(<<Return(c)>>), Block(<<Return(e)>>))>>))>>))
AskModel == Infer("ask", <<Param("n", IntType)>>, BoolType, Absent)
Exercise ==
  <<PrintOf(Use("f", <<Bool(TRUE)>>)), PrintOf(Use("f", <<Bool(FALSE)>>)), PrintOf(Await(Use("ask", <<Num(0)>>))),
    Test(Characters("String", <<"yes">>), Block(<<Mock("ask", Bool(TRUE)),
      Assertion(Binary("!=", Use("f", <<Await(Use("ask", <<Num(1)>>))>>), Bool(FALSE)))>>)),
    Test(Characters("String", <<"no">>), Block(<<Mock("ask", Bool(FALSE)), Assertion(P)>>))>>

MigrateTexts ==
  {FormatProgram(Program(<<AskModel, Let("p", Bool(TRUE)), Conditional(c, Var("p"))>> \o Exercise)) : c \in Comparisons}
    \cup {FormatProgram(Program(<<AskModel, Let("p", Bool(TRUE)), Conditional(P, c)>> \o Exercise)) : c \in Comparisons}

Observe(f) == <<Do("run", f), Do("test", f)>>
Untyped == {FormatProgram(Program(<<Let("x", Binary("==", Num(1), Bool(TRUE)))>>)),
            FormatProgram(Program(<<Let("x", Binary("==", Bool(FALSE), Bool(TRUE))), PrintOf(Unary("-", Var("x")))>>)),
            FormatProgram(Program(<<Let("x", Binary("/", Num(1), Num(0)))>>))}
\* A statement that the printer prints as the beginning of a function.
Unprintable ==
  <<"(", "fn", "(", ")", "-", ">", "Int", "{", "return", " ", "1", "}", ")", "(", ")", "\n">>
    \o <<"print", "(", "true", "=", "=", "true", ")", "\n">>
MigrateScripts ==
  {Observe(Main) \o <<Check2("migrate", Main), Do("migrate", Main), Do("fmt", Main)>> \o Observe(Main)}
MigrateSessions ==
  [disk : {Disk(Main :> t) : t \in MigrateTexts}, script : MigrateScripts]
    \cup [disk : {Disk(Main :> t) : t \in Untyped \cup {<<"x", " ", "=", "\n">>}},
          script : {<<Do("check", Main), Do("migrate", Main), Do("check", Main)>>}]
    \cup [disk : {Disk(Main :> Unprintable)}, script : {<<Do("run", Main), Do("migrate", Main), Do("run", Main)>>}]

-----------------------------------------------------------------------------
(* Sessions with several files: app/main.an, app/a.an, lib/b.an and the    *)
(* package dep, pkg/lib.an, which import each other and themselves.        *)

AppMain == <<"app", "main.an">>
AppA    == <<"app", "a.an">>
LibB    == <<"lib", "b.an">>
PkgLib  == <<"pkg", "lib.an">>

From(alias, path) == ImportFile(Characters("Path", path), alias)
ImportA   == From("a", <<".", "/", "a.an">>)
ImportB   == From("b", <<"..", "/", "lib", "/", "b.an">>)
ImportDep == From("dep", <<"dep">>)

\* A function, a tool, a model call and an enum, of the same names in each file, which use
\* those of the files it imports.
E2  == Type("E", <<>>)
Dotted(alias, x) == alias \o "_" \o x
Its(alias, x) == Identifier(Dotted(alias, x))
FirstOf(aliases, x) == IF aliases = <<>> THEN x ELSE Dotted(aliases[1], x)

Library(aliases) ==
  <<Enum("E", <<"Yes", "No">>),
    Tool("t", <<Param("n", IntType)>>, IntType, Block(<<Return(Binary("+", Var("n"), Num(1)))>>)),
    Infer("q", <<Param("n", IntType)>>, E2, Names("Permissions", <<"t">> \o [i \in DOMAIN aliases |-> Dotted(aliases[i], "t")])),
    Fn(FALSE, "f", <<Param("e", Type(FirstOf(aliases, "E"), <<>>))>>, E2, Absent,
       Block(<<If(Binary("==", Binary("==", Var("e"), Var(FirstOf(aliases, "E_No"))), Bool(FALSE)),
                  Block(<<Return(Var("E_No"))>>),
                  Block(<<Return(Var("E_Yes"))>>))>>))>>

User(aliases) ==
  Flat([i \in DOMAIN aliases |->
    LET a == aliases[i] IN
    <<PrintOf(Call(Its(a, "t"), <<Num(1)>>)),
      Fn(FALSE, "ask" \o a, <<Param("k", IntType)>>, Type(Dotted(a, "E"), <<>>), Absent,
         Block(<<Return(Await(Call(Its(a, "q"), <<Var("k")>>)))>>)),
      Test(Characters("String", <<a>>),
           Block(<<Mock(Dotted(a, "q"), Its(a, "E_No")),
                   Assertion(Binary("==", Use("ask" \o a, <<Num(1)>>), Its(a, "E_No")))>>))>>])

Aliases(imports) == [i \in DOMAIN imports |-> imports[i].text]
TextOf(imports, Body(_)) == FormatProgram(Program(imports \o Body(Aliases(imports))))

World(files, lock) ==
  [files |-> files,
   manifests |-> IF lock = "none" THEN {} ELSE {<<"app">>},
   locks |-> IF lock \in {"none", "absent"} THEN <<>>
             ELSE <<"app">> :> [ok |-> lock = "valid", dirs |-> "dep" :> <<"pkg">>]]

Project(main, a, b, dep, lock) ==
  World((AppMain :> TextOf(main, User)) @@ (AppA :> TextOf(a, Library)) @@ (LibB :> TextOf(b, Library))
          @@ (PkgLib :> TextOf(dep, Library)), lock)

MainImports ==
  {<<>>, <<ImportA>>, <<ImportB>>, <<ImportA, ImportB>>, <<ImportB, ImportA>>, <<ImportDep>>, <<ImportDep, ImportA>>,
   <<ImportA, From("a", <<"..", "/", "lib", "/", "b.an">>)>>,
   <<ImportA, From("again", <<".", "/", "..", "/", "app", "/", ".", "/", "a.an">>)>>,
   <<ImportA, From("other", <<"other">>)>>, <<From("x", <<".", "/", "missing.an">>), ImportA>>}
AImports ==
  {<<>>, <<ImportB>>, <<ImportDep>>, <<ImportA>>, <<From("main", <<".", "/", "main.an">>)>>}
BImports == {<<>>, <<ImportDep>>, <<From("a", <<"..", "/", "app", "/", "a.an">>)>>}

Graphs ==
  {Project(main, a, b, <<>>, "valid") : main \in MainImports, a \in AImports, b \in BImports}
    \cup {Project(main, a, <<>>, <<>>, lock) :
            main \in {<<>>, <<ImportA>>, <<ImportDep>>}, a \in {<<>>, <<ImportDep>>}, lock \in {"none", "absent", "invalid"}}

\* What may not stand in an imported file, or not be read.
Bad ==
  {FormatProgram(Program(<<s>>)) :
     s \in {Let("x", Num(1)), PrintOf(Num(1)), Test(Characters("String", <<"t">>), Block(<<>>)), Import("math")}}
    \cup {<<"let", "\n">>, <<"&">>}
BadWorlds ==
  UNION {{World((AppMain :> TextOf(<<ImportA, ImportB>>, User)) @@ (AppA :> bad) @@ (LibB :> TextOf(<<>>, Library)), "none"),
          World((AppMain :> TextOf(<<ImportA>>, User)) @@ (AppA :> TextOf(<<ImportB>>, Library)) @@ (LibB :> bad), "none")} :
           bad \in Bad}

LoadSessions ==
  [disk : Graphs \cup BadWorlds, script : {<<Do("check", AppMain), Do("check", AppA)>>}]

\* Every file is formatted or migrated, in one order or another.
Chain == Project(<<ImportA>>, <<ImportB>>, <<ImportDep>>, <<>>, "valid")
Fork  == Project(<<ImportDep, ImportA, ImportB>>, <<>>, <<>>, <<>>, "valid")
Lines == {<<LibB, AppA>>, <<AppA, PkgLib>>, <<PkgLib, LibB>>, <<AppMain, AppA>>}
RewriteSessions ==
  [disk : {Chain, Fork},
   script : {Observe(AppMain) \o <<Do(d, f[1]), Do(e, f[2])>> \o Observe(AppMain) :
               d, e \in {"fmt", "migrate"}, f \in Lines}]

\* The same entry, with its directory and without.
MCBareSessions ==
  [disk : {Project(<<ImportDep>>, <<>>, <<>>, <<>>, "valid"), Project(<<ImportA>>, <<>>, <<>>, <<>>, "valid")},
   script : {<<Command("check", AppMain, bare, FALSE)>> : bare \in BOOLEAN}]

MCSessions == FormatSessions \cup MigrateSessions \cup LoadSessions \cup RewriteSessions
=============================================================================
