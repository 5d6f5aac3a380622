------------------------------- MODULE Parser -------------------------------
(***************************************************************************)
(* The parser: recursive descent over a list of tokens.  A parser state p  *)
(* is the struct Parser (tokens, position, suppress_node_literal) together *)
(* with the nodes parsed so far, the latest last, and the first and last   *)
(* line of the latest.  Every operator takes a state to the state after    *)
(* it, with one more node; after an error `ok` stays FALSE and nothing     *)
(* more is read.                                                           *)
(***************************************************************************)
EXTENDS Lexer, Syntax

Begin(tokens) ==
  [tokens |-> tokens, at |-> 1, suppress |-> FALSE, ok |-> TRUE, nodes |-> <<>>, from |-> 1, to |-> 1]

Current(p)  == p.tokens[p.at]
Here(p)     == Current(p).line
Check(p, t) == p.ok /\ Current(p).t = t
Advance(p)  == [p EXCEPT !.at = @ + 1, !.to = Here(p)]
Fail(p)     == [p EXCEPT !.ok = FALSE]
Expect(p, t) == IF Check(p, t) THEN Advance(p) ELSE Fail(p)

Latest(p) == Last(p.nodes)
Shift(p, from, node) == [p EXCEPT !.nodes = Append(@, node), !.from = from]
Without(p) == Shift(p, p.from, Absent)

\* The latest k nodes become one, which begins on the given line.
Build(p, k, from, Make(_)) ==
  IF ~p.ok THEN p
  ELSE [p EXCEPT !.nodes = Append(SubSeq(@, 1, Len(@) - k), Make(SubSeq(@, Len(@) - k + 1, Len(@)))), !.from = from]

\* A group is opened and its members are gathered one by one.
Open(p, kind) == Shift(p, p.from, Group(kind, <<>>))
Gather(p)     == Build(p, 2, p.from, LAMBDA n : [n[1] EXCEPT !.parts = Append(@, n[2])])

ExpectIdentifier(p) ==
  IF Check(p, "identifier") THEN Shift(Advance(p), Here(p), Leaf("Name", Current(p).v[1])) ELSE Fail(p)

\* Where a list without commas ends.
AtClose(p, close) == ~p.ok \/ Check(p, close) \/ Check(p, "eof")

Literal(p) ==
  CASE Current(p).t = "integer" -> Integer(Current(p).v[1])
    [] Current(p).t = "float"   -> Float(Current(p).v[1], Current(p).v[2])
    [] Current(p).t = "string"  -> Characters("String", Current(p).v)
    [] Current(p).t \in {"true", "false"} -> Bool(Current(p).t = "true")

Effects == {"pure", "inference", "network", "filesystem"}

KnownEffect(q) == IF q.ok /\ Latest(q).text \in Effects THEN q ELSE Fail(q)
ParseEffectWord(p) ==
  IF Check(p, "tool") THEN Shift(Advance(p), Here(p), Leaf("Name", "tool")) ELSE KnownEffect(ExpectIdentifier(p))

RECURSIVE Parsed(_, _), Items(_, _), Statements(_, _)
ParseExpr(p)      == Parsed(p, "expr")
ParseType(p)      == Parsed(p, "type")
ParseBlock(p)     == Parsed(p, "block")
ParseStatement(p) == Parsed(p, "statement")

ParseParam(p) ==
  Build(ParseType(Expect(ExpectIdentifier(p), ":")), 2, Here(p), LAMBDA n : Param(n[1].text, n[2]))

WithNodeLiterals(p, allowed, Parse(_)) ==
  [Parse([p EXCEPT !.suppress = ~allowed]) EXCEPT !.suppress = p.suppress]

MoreItems(q, what) == IF Check(q, ",") THEN Items(Advance(q), what) ELSE q
Items(p, what)     == MoreItems(Gather(Parsed(p, what)), what)

ItemsUntil(p, what, close) ==
  IF Check(p, close) THEN Advance(p) ELSE Expect(IF p.ok THEN Items(p, what) ELSE p, close)

\* A group of items with commas between them, and the brackets around them.
CommaList(p, kind, open, what, close) == ItemsUntil(Open(Expect(p, open), kind), what, close)

-----------------------------------------------------------------------------
(* Types *)

ParseResult(p) == ParseType(Expect(p, "->"))

ParseFunctionType(p) ==
  Build(ParseResult(CommaList(Expect(p, "fn"), "Types", "(", "type", ")")), 2, Here(p),
        LAMBDA n : FnType(n[1].parts, n[2]))

\* The span of a type with an argument is that of its name.
TypeArgument(q) ==
  IF q.ok /\ Latest(q).text \in {"List", "Option", "Distribution"}
  THEN [Build(Expect(ParseType(Expect(q, "<")), ">"), 2, q.from, LAMBDA n : Type(n[1].text, <<n[2]>>))
          EXCEPT !.to = q.to]
  ELSE Build(q, 1, q.from, LAMBDA n : Type(n[1].text, <<>>))

SomeType(p) ==
  IF ~p.ok THEN p
  ELSE IF Check(p, "fn") THEN ParseFunctionType(p) ELSE TypeArgument(ExpectIdentifier(p))

\* (name: type, ...) -> type
ParseSignature(p) == ParseResult(CommaList(p, "Params", "(", "param", ")"))

-----------------------------------------------------------------------------
(* Blocks *)

\* A statement may follow a gap, if there is one before it.
Spaced(q, p) ==
  IF Latest(p).parts # <<>> /\ q.from > p.to + 1
  THEN Build(q, 1, q.from, LAMBDA n : [n[1] EXCEPT !.gap = TRUE]) ELSE q

Statements(p, close) ==
  IF AtClose(p, close) THEN p ELSE Statements(Gather(Spaced(ParseStatement(p), p)), close)

BlockOf(p) ==
  Build(Expect(Statements(Open(Expect(p, "{"), "Block"), "}"), "}"), 1, Here(p), LAMBDA n : n[1])

-----------------------------------------------------------------------------
(* Expressions, lowest precedence first *)

Levels == <<{"||"}, {"&&"}, {"==", "!="}, {"<", ">", "<=", ">="}, {"+", "-"}, {"*", "/"}>>

ParseLambda(p) ==
  Build(ParseBlock(ParseSignature(Expect(p, "fn"))), 3, Here(p), LAMBDA n : Lambda(n[1].parts, n[2], n[3]))

Braced(p) == Expect(ParseExpr(Expect(p, "{")), "}")

Condition(p) == WithNodeLiterals(Expect(p, "if"), FALSE, ParseExpr)

RECURSIVE ParseIfExpr(_), ParseIf(_)
ElseExpr(p) == IF Check(p, "if") THEN ParseIfExpr(p) ELSE Braced(p)
ParseIfExpr(p) ==
  Build(ElseExpr(Expect(Braced(Condition(p)), "else")), 3, Here(p), LAMBDA n : IfExpr(n[1], n[2], n[3]))

AtNodeProp(p) == Check(p, "identifier") /\ p.tokens[p.at + 1].t = ":"

ParseProp(p) ==
  Build(ParseExpr(Expect(ExpectIdentifier(p), ":")), 2, Here(p), LAMBDA n : Node("Prop", n[1].text, <<n[2]>>))

RECURSIVE NodeItems(_)
\* Props and children in any order.
NodeItems(p) ==
  IF AtClose(p, "}") THEN p ELSE NodeItems(Gather(IF AtNodeProp(p) THEN ParseProp(p) ELSE ParseExpr(p)))

IsProp(n)    == n.kind = "Prop"
IsNotProp(n) == ~IsProp(n)

ParseNodeLiteral(p) ==
  Build(Expect(NodeItems(Open(Expect(p, "{"), "Items")), "}"), 2, p.from, LAMBDA n :
        NodeLiteral(n[1].text, SelectSeq(n[2].parts, IsProp), SelectSeq(n[2].parts, IsNotProp)))

AfterName(q) ==
  IF Check(q, "{") /\ ~q.suppress THEN ParseNodeLiteral(q)
  ELSE Build(q, 1, q.from, LAMBDA n : Identifier(n[1].text))

\* Parentheses leave no trace, not even in the lines.
Enclosed(q) == [Expect(q, ")") EXCEPT !.to = q.to]

ParsePrimary(p) ==
  CASE ~p.ok -> p
    [] Check(p, "integer") \/ Check(p, "float") \/ Check(p, "string")
         \/ Check(p, "true") \/ Check(p, "false") -> Shift(Advance(p), Here(p), Literal(p))
    [] Check(p, "identifier") -> AfterName(ExpectIdentifier(p))
    [] Check(p, "fn") -> ParseLambda(p)
    [] Check(p, "if") -> ParseIfExpr(p)
    [] Check(p, "(")  -> Enclosed(WithNodeLiterals(Advance(p), TRUE, ParseExpr))
    [] Check(p, "[")  -> Build(CommaList(p, "List", "[", "argument", "]"), 1, Here(p), LAMBDA n : n[1])
    [] OTHER -> Fail(p)

RECURSIVE Postfixes(_), ParseUnary(_), ParseLevel(_, _), BinaryRest(_, _)

Postfixes(q) ==
  CASE Check(q, "(") ->
         Postfixes(Build(CommaList(q, "Args", "(", "argument", ")"), 2, q.from, LAMBDA n : Call(n[1], n[2].parts)))
    [] Check(q, "[") ->
         Postfixes(Build(Expect(WithNodeLiterals(Advance(q), TRUE, ParseExpr), "]"), 2, q.from,
                         LAMBDA n : Index(n[1], n[2])))
    [] OTHER -> q

ParseUnary(p) ==
  IF Check(p, "-") \/ Check(p, "!") \/ Check(p, "await")
  THEN Build(ParseUnary(Advance(p)), 1, Here(p),
             LAMBDA n : IF Check(p, "await") THEN Await(n[1]) ELSE Unary(Current(p).t, n[1]))
  ELSE Postfixes(ParsePrimary(p))

BinaryRest(p, k) ==
  IF p.ok /\ Current(p).t \in Levels[k]
  THEN BinaryRest(Build(ParseLevel(Advance(p), k + 1), 2, p.from, LAMBDA n : Binary(Current(p).t, n[1], n[2])), k)
  ELSE p

ParseLevel(p, k) ==
  IF k > Len(Levels) THEN ParseUnary(p) ELSE BinaryRest(ParseLevel(p, k + 1), k)

-----------------------------------------------------------------------------
(* Statements *)

ParseLet(p) ==
  Build(ParseExpr(Expect(ExpectIdentifier(Expect(p, "let")), "=")), 2, Here(p), LAMBDA n : Let(n[1].text, n[2]))

AfterElse(p) == IF Check(p, "if") THEN Build(ParseIf(p), 1, p.from, Block) ELSE ParseBlock(p)
ElseBlock(p) == IF Check(p, "else") THEN AfterElse(Advance(p)) ELSE Without(p)
ParseIf(p) ==
  Build(ElseBlock(ParseBlock(Condition(p))), 3, Here(p), LAMBDA n : If(n[1], n[2], n[3]))

ParseClause(p, keyword, kind, what) ==
  IF Check(p, keyword) THEN CommaList(Advance(p), kind, "[", what, "]") ELSE Without(p)

ParseFn(p, async) ==
  Build(ParseBlock(ParseClause(ParseSignature(ExpectIdentifier(Expect(IF async THEN Advance(p) ELSE p, "fn"))),
                               "effects", "Effects", "effect")),
        5, Here(p), LAMBDA n : Fn(async, n[1].text, n[2].parts, n[3], n[4], n[5]))

ParsePath(p) == Shift(Advance(p), Here(p), Characters("Path", Current(p).v))
ParseImport(p, q) ==
  IF Check(q, "string")
  THEN Build(ExpectIdentifier(Expect(ParsePath(q), "as")), 2, Here(p), LAMBDA n : ImportFile(n[1], n[2].text))
  ELSE Build(ExpectIdentifier(q), 1, Here(p), LAMBDA n : Import(n[1].text))

ParseInfer(p) ==
  Build(ParseClause(ParseSignature(ExpectIdentifier(Advance(p))), "permissions", "Permissions", "name"),
        4, Here(p), LAMBDA n : Infer(n[1].text, n[2].parts, n[3], n[4]))

ToolBody(p) == IF Check(p, "{") THEN ParseBlock(p) ELSE Without(p)
ParseTool(p) ==
  Build(ToolBody(ParseSignature(ExpectIdentifier(Advance(p)))), 4, Here(p),
        LAMBDA n : Tool(n[1].text, n[2].parts, n[3], n[4]))

RECURSIVE Variants(_)
Variants(p) == IF AtClose(p, "}") THEN p ELSE Variants(Gather(ExpectIdentifier(p)))

ParseEnum(p) ==
  Build(Expect(Variants(Open(Expect(ExpectIdentifier(Advance(p)), "{"), "Variants")), "}"), 2, Here(p),
        LAMBDA n : Node("Enum", n[1].text, <<n[2]>>))

ExpectString(p) == IF Check(p, "string") THEN Shift(Advance(p), Here(p), Literal(p)) ELSE Fail(p)
ParseTest(p) == Build(ParseBlock(ExpectString(Advance(p))), 2, Here(p), LAMBDA n : Test(n[1], n[2]))

ParseMock(p) ==
  Build(ParseExpr(Expect(ExpectIdentifier(Advance(p)), "->")), 2, Here(p), LAMBDA n : Mock(n[1].text, n[2]))

Places(field) == {i \in DOMAIN BudgetFields : BudgetFields[i] = field}
Amount(p, field) == IF field = "max_cost" /\ Check(p, "integer") THEN Float(Current(p).v[1], "0") ELSE Literal(p)

\* max_cost is a float, the others are integers.
ParseAmount(p) ==
  IF /\ p.ok /\ Places(Latest(p).text) # {}
     /\ Check(p, "integer") \/ (Check(p, "float") /\ Latest(p).text = "max_cost")
  THEN Build(Advance(p), 2, p.from, LAMBDA n :
         [n[1] EXCEPT !.parts[CHOOSE i \in Places(n[2].text) : TRUE] = Amount(p, n[2].text)])
  ELSE Fail(p)

RECURSIVE Fields(_)
\* A field that is given twice keeps its last value.
Fields(p) == IF AtClose(p, "}") THEN p ELSE Fields(ParseAmount(Expect(ExpectIdentifier(p), "=")))

NoLimits == Budget([i \in DOMAIN BudgetFields |-> Absent])
ParseBudget(p) ==
  Build(Expect(Fields(Shift(Expect(Advance(p), "{"), p.from, NoLimits)), "}"), 1, Here(p), LAMBDA n : n[1])

ParsePrefixed(p, Make(_)) == Build(ParseExpr(Advance(p)), 1, Here(p), LAMBDA n : Make(n[1]))
ExprStatement(e) == Build(e, 1, e.from, LAMBDA n : ExprStmt(n[1]))

StatementOf(p) ==
  CASE ~p.ok -> p
    [] Check(p, "let")    -> ParseLet(p)
    [] Check(p, "if")     -> ParseIf(p)
    [] Check(p, "fn")     -> ParseFn(p, FALSE)
    [] Check(p, "async")  -> ParseFn(p, TRUE)
    [] Check(p, "return") -> ParsePrefixed(p, Return)
    [] Check(p, "assert") -> ParsePrefixed(p, Assertion)
    [] Check(p, "import") -> ParseImport(p, Advance(p))
    [] Check(p, "infer")  -> ParseInfer(p)
    [] Check(p, "enum")   -> ParseEnum(p)
    [] Check(p, "tool")   -> ParseTool(p)
    [] Check(p, "test")   -> ParseTest(p)
    [] Check(p, "mock")   -> ParseMock(p)
    [] Check(p, "budget") -> ParseBudget(p)
    [] OTHER -> ExprStatement(ParseExpr(p))

-----------------------------------------------------------------------------
Parsed(p, what) ==
  CASE what = "expr"      -> ParseLevel(p, 1)
    [] what = "argument"  -> WithNodeLiterals(p, TRUE, ParseExpr)
    [] what = "type"      -> SomeType(p)
    [] what = "block"     -> BlockOf(p)
    [] what = "statement" -> StatementOf(p)
    [] what = "param"     -> ParseParam(p)
    [] what = "name"      -> ExpectIdentifier(p)
    [] what = "effect"    -> ParseEffectWord(p)

ParseProgram(tokens) == Statements(Open(Begin(tokens), "Program"), "eof")

\* The program of a list of tokens, or Absent if it has none.
ProgramIn(p)        == IF p.ok THEN Latest(p) ELSE Absent
ParseTokens(tokens) == IF tokens = NoTokens THEN Absent ELSE ProgramIn(ParseProgram(tokens))
Parse(text)         == ParseTokens(Tokenize(text))
=============================================================================
