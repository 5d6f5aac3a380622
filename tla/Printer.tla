------------------------------- MODULE Printer -------------------------------
(***************************************************************************)
(* The pretty-printer of `aint fmt`, from a tree to a text.  Indentation   *)
(* is a function of the nesting of blocks and is left out.                 *)
(***************************************************************************)
EXTENDS Parser

UnaryPrecedence   == 6
PrimaryPrecedence == 7

\* Or binds least; the levels are the parser's, seen from the other side.
BinaryPrecedence(op) ==
  CASE op = "||" -> 0
    [] op = "&&" -> 1
    [] op \in {"==", "!="} -> 2
    [] op \in {"<", ">", "<=", ">="} -> 3
    [] op \in {"+", "-"} -> 4
    [] op \in {"*", "/"} -> 5

\* An operator is written with its characters.
Symbol(op) == IF op \in Pairs THEN CHOOSE s \in {<<c, d>> : c, d \in Singles \cup Unknown} : s[1] \o s[2] = op ELSE <<op>>

Escaped(c) ==
  CASE c = "\n" -> <<Slosh, "n">>
    [] c = "\t" -> <<Slosh, "t">>
    [] c = "\r" -> <<Slosh, "r">>
    [] c \in {Quote, Slosh} -> <<Slosh, c>>
    [] OTHER -> <<c>>

Flat(seqs) == FlattenSeq(seqs)
Each(ns, Text(_)) == [i \in DOMAIN ns |-> Text(ns[i])]
Separated(seqs, sep) ==
  Flat([i \in DOMAIN seqs |-> IF i = 1 THEN seqs[i] ELSE sep \o seqs[i]])
Comma == <<",", " ">>

Texts(ns) == [i \in DOMAIN ns |-> <<ns[i].text>>]

FormatString(n) == <<Quote>> \o Flat(Each(n.parts, LAMBDA c : Escaped(c.text))) \o <<Quote>>

FormatFloat(n) == <<n.text, ".", n.parts[1].text>>

RECURSIVE PrintType(_)
PrintType(t) ==
  CASE t.kind = "FnType" ->
         <<"fn", "(">> \o Separated(Each(Front(t.parts), PrintType), Comma)
           \o <<")", " ", "-", ">", " ">> \o PrintType(Last(t.parts))
    [] t.kind = "Type" /\ t.parts = <<>> -> <<t.text>>
    [] t.kind = "Type" /\ t.parts # <<>> -> <<t.text, "<">> \o PrintType(t.parts[1]) \o <<">">>

\* (name: type, ...) -> type
PrintSignature(params, result) ==
  <<"(">> \o Separated(Each(params.parts, LAMBDA x : <<x.text, ":", " ">> \o PrintType(x.parts[1])), Comma)
    \o <<")", " ", "-", ">", " ">> \o PrintType(result)

\* Faulty: brackets only around operators that bind less than their left neighbour.
ParensUnstrict(prec, min, text) == IF prec + 1 < min THEN <<"(">> \o text \o <<")">> ELSE text

Parens(prec, min, text) == IF prec < min THEN <<"(">> \o text \o <<")">> ELSE text

RECURSIVE PrintExpr(_, _), PrintStmt(_), PrintStmts(_), PrintIf(_)

PrintBlock(b) == <<"{", "\n">> \o PrintStmts(b.parts) \o <<"}">>

PrintAll(ns) == Separated(Each(ns, LAMBDA e : PrintExpr(e, 0)), Comma)

PrintItems(ns) == Flat(Each(ns, LAMBDA n :
  <<" ">> \o IF n.kind = "Prop" THEN <<n.text, ":", " ">> \o PrintExpr(n.parts[1], 0) ELSE PrintExpr(n, 0)))

\* A chain of else ifs is printed flat.
PrintElse(e) ==
  IF e.kind = "IfExpr" THEN PrintExpr(e, 0) ELSE <<"{", " ">> \o PrintExpr(e, 0) \o <<" ", "}">>

PrintExpr(e, min) ==
  CASE e.kind \in {"Integer", "Bool", "Identifier"} -> <<e.text>>
    [] e.kind = "Float" -> FormatFloat(e)
    [] e.kind = "String" -> FormatString(e)
    [] e.kind = "Unary" ->
         Parens(UnaryPrecedence, min, <<e.text>> \o PrintExpr(e.parts[1], UnaryPrecedence))
    [] e.kind = "Await" ->
         Parens(UnaryPrecedence, min, <<"await", " ">> \o PrintExpr(e.parts[1], UnaryPrecedence))
    [] e.kind = "Binary" ->
         LET prec == BinaryPrecedence(e.text)
         IN Parens(prec, min, PrintExpr(e.parts[1], prec) \o <<" ">> \o Symbol(e.text) \o <<" ">>
                                \o PrintExpr(e.parts[2], prec + 1))
    [] e.kind = "Call" ->
         PrintExpr(e.parts[1], PrimaryPrecedence) \o <<"(">> \o PrintAll(Tail(e.parts)) \o <<")">>
    [] e.kind = "List" -> <<"[">> \o PrintAll(e.parts) \o <<"]">>
    [] e.kind = "Index" ->
         PrintExpr(e.parts[1], PrimaryPrecedence) \o <<"[">> \o PrintExpr(e.parts[2], 0) \o <<"]">>
    [] e.kind = "Lambda" ->
         <<"fn">> \o PrintSignature(e.parts[1], e.parts[2]) \o <<" ">> \o PrintBlock(e.parts[3])
    [] e.kind = "IfExpr" ->
         <<"if", " ">> \o PrintExpr(e.parts[1], 0) \o <<" ", "{", " ">> \o PrintExpr(e.parts[2], 0)
           \o <<" ", "}", " ", "else", " ">> \o PrintElse(e.parts[3])
    [] e.kind = "NodeLiteral" ->
         <<e.text, " ", "{">> \o PrintItems(e.parts[1].parts \o e.parts[2].parts) \o <<" ", "}">>

\* `else { if ... }` and `else if ...` are one tree.
PrintIf(s) ==
  <<"if", " ">> \o PrintExpr(s.parts[1], 0) \o <<" ">> \o PrintBlock(s.parts[2])
    \o IF s.parts[3] = Absent THEN <<>>
       ELSE <<" ", "else", " ">> \o
              IF Len(s.parts[3].parts) = 1 /\ s.parts[3].parts[1].kind = "If"
              THEN PrintIf(s.parts[3].parts[1]) ELSE PrintBlock(s.parts[3])

PrintClause(keyword, n) ==
  IF n = Absent THEN <<>>
  ELSE <<" ", keyword, " ", "[">> \o Separated(Texts(n.parts), Comma) \o <<"]">>

PrintField(name, n) ==
  CASE n = Absent -> <<>>
    [] n.kind = "Integer" -> <<name, " ", "=", " ", n.text, "\n">>
    [] n.kind = "Float" -> <<name, " ", "=", " ">> \o FormatFloat(n) \o <<"\n">>

PrintStmt(s) ==
  CASE s.kind = "Let" -> <<"let", " ", s.text, " ", "=", " ">> \o PrintExpr(s.parts[1], 0)
    [] s.kind = "Expr" -> PrintExpr(s.parts[1], 0)
    [] s.kind = "Return" -> <<"return", " ">> \o PrintExpr(s.parts[1], 0)
    [] s.kind = "Assert" -> <<"assert", " ">> \o PrintExpr(s.parts[1], 0)
    [] s.kind = "Mock" -> <<"mock", " ", s.text, " ", "-", ">", " ">> \o PrintExpr(s.parts[1], 0)
    [] s.kind = "If" -> PrintIf(s)
    [] s.kind \in {"Fn", "AsyncFn"} ->
         (IF s.kind = "AsyncFn" THEN <<"async", " ">> ELSE <<>>)
           \o <<"fn", " ", s.text>> \o PrintSignature(s.parts[1], s.parts[2])
           \o PrintClause("effects", s.parts[3]) \o <<" ">> \o PrintBlock(s.parts[4])
    [] s.kind = "Import" -> <<"import", " ", s.text>>
    [] s.kind = "ImportFile" ->       \* the path as it is, not escaped
         <<"import", " ", Quote>> \o Flat(Texts(s.parts[1].parts)) \o <<Quote, " ", "as", " ", s.text>>
    [] s.kind = "Infer" ->
         <<"infer", " ", s.text>> \o PrintSignature(s.parts[1], s.parts[2])
           \o PrintClause("permissions", s.parts[3])
    [] s.kind = "Enum" ->
         <<"enum", " ", s.text, " ", "{", " ">> \o Separated(Texts(s.parts[1].parts), <<" ">>) \o <<" ", "}">>
    [] s.kind = "Tool" ->
         <<"tool", " ", s.text>> \o PrintSignature(s.parts[1], s.parts[2])
           \o IF s.parts[3] = Absent THEN <<>> ELSE <<" ">> \o PrintBlock(s.parts[3])
    [] s.kind = "Test" ->
         <<"test", " ">> \o FormatString(s.parts[1]) \o <<" ">> \o PrintBlock(s.parts[2])
    [] s.kind = "Budget" ->
         <<"budget", " ", "{", "\n">>
           \o Flat([i \in DOMAIN s.parts |-> PrintField(BudgetFields[i], s.parts[i])]) \o <<"}">>

\* Each on a line of its own, and the blank lines of the source.
PrintStmts(ss) == Flat([i \in DOMAIN ss |->
  (IF ss[i].gap THEN <<"\n">> ELSE <<>>) \o PrintStmt(ss[i]) \o <<"\n">>])

FormatProgram(program) == PrintStmts(program.parts)

\* `format`: what becomes of a text, or why nothing does.
Format(text) ==
  LET program == Parse(text)
  IN CASE SourceHasComment(text) -> [error |-> "contains comments", text |-> text]
       [] ~SourceHasComment(text) /\ program = Absent -> [error |-> "parse", text |-> text]
       [] OTHER -> [error |-> "none", text |-> FormatProgram(program)]
=============================================================================
