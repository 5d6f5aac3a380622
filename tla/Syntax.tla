------------------------------- MODULE Syntax -------------------------------
(***************************************************************************)
(* The syntax tree of AINT.  A node is its kind, a text (a name, an        *)
(* operator, a numeral) and its parts in order; `gap` tells that a blank   *)
(* line precedes a statement, which is all of the positions that the       *)
(* formatter reads.                                                        *)
(***************************************************************************)
EXTENDS Sequences, Integers

Node(kind, text, parts) == [kind |-> kind, text |-> text, parts |-> parts, gap |-> FALSE]
Leaf(kind, text)        == Node(kind, text, <<>>)

Absent == Leaf("Absent", "")      \* no else branch, no clause, no body

\* Expressions.
Integer(numeral)    == Leaf("Integer", numeral)
Float(whole, frac)  == Node("Float", whole, <<Leaf("Fraction", frac)>>)
Bool(b)             == Leaf("Bool", IF b THEN "true" ELSE "false")
Identifier(x)       == Leaf("Identifier", x)
Unary(op, e)        == Node("Unary", op, <<e>>)
Binary(op, l, r)    == Node("Binary", op, <<l, r>>)
Call(f, args)       == Node("Call", "", <<f>> \o args)
Elements(es)        == Node("List", "", es)
Index(e, i)         == Node("Index", "", <<e, i>>)
Await(e)            == Node("Await", "", <<e>>)
IfExpr(c, t, f)     == Node("IfExpr", "", <<c, t, f>>)
\* The characters of a string are leaves, so that they can be escaped one by one.
Characters(kind, cs) == Node(kind, "", [i \in DOMAIN cs |-> Leaf("Char", cs[i])])

Group(kind, ns)     == Node(kind, "", ns)
Names(kind, xs)     == Group(kind, [i \in DOMAIN xs |-> Leaf("Name", xs[i])])
Lambda(ps, t, b)    == Node("Lambda", "", <<Group("Params", ps), t, b>>)
NodeLiteral(role, props, children) ==
  Node("NodeLiteral", role, <<Group("Props", props), Group("Children", children)>>)

\* Types: a name with arguments, or a function's parameters and its result.
Type(name, args)    == Node("Type", name, args)
FnType(ts, t)       == Node("FnType", "", Append(ts, t))
Param(x, t)         == Node("Param", x, <<t>>)

\* Statements.
Block(ss)           == Node("Block", "", ss)
Program(ss)         == Node("Program", "", ss)
Let(x, e)           == Node("Let", x, <<e>>)
If(c, t, f)         == Node("If", "", <<c, t, f>>)
ExprStmt(e)         == Node("Expr", "", <<e>>)
Return(e)           == Node("Return", "", <<e>>)
Fn(async, f, ps, t, effects, b) ==
  Node(IF async THEN "AsyncFn" ELSE "Fn", f, <<Group("Params", ps), t, effects, b>>)
Import(m)           == Leaf("Import", m)
ImportFile(path, alias) == Node("ImportFile", alias, <<path>>)
Infer(f, ps, t, permissions) == Node("Infer", f, <<Group("Params", ps), t, permissions>>)
Enum(name, variants) == Node("Enum", name, <<Names("Variants", variants)>>)
Tool(f, ps, t, b)   == Node("Tool", f, <<Group("Params", ps), t, b>>)
Test(name, b)       == Node("Test", "", <<name, b>>)
Mock(f, e)          == Node("Mock", f, <<e>>)
Assertion(e)        == Node("Assert", "", <<e>>)
Budget(fields)      == Node("Budget", "", fields)

\* The limits of a budget, in the order of the fields of StmtKind::Budget.
BudgetFields == <<"max_tokens", "max_model_calls", "max_cost", "timeout_ms">>
=============================================================================
