----------------------------- MODULE Interpreter -----------------------------
(***************************************************************************)
(* What `aint run` does with a program: the tree walk of                   *)
(* runtime/src/interpreter.rs.  The environments of a run are numbered, 1  *)
(* is the globals; a function keeps the number of the one it was made in,  *)
(* not a copy.  Programs here do no arithmetic with floats.                *)
(***************************************************************************)
EXTENDS TypeChecker

Datum(type, n, text, items) == [type |-> type, n |-> n, text |-> text, items |-> items]

IntValue(n)   == Datum("Int", n, "", <<>>)
BoolValue(b)  == Datum("Bool", IF b THEN 1 ELSE 0, "", <<>>)
UnitValue     == Datum("Unit", 0, "", <<>>)
StringValue(chars) == Datum("String", 0, "", chars)
ListValue(vs) == Datum("List", 0, "", vs)
EnumValue(e, v) == Datum("Enum", 0, v, <<Leaf("Name", e)>>)
\* The variants of an enum by the names they are bound to.
EnumValues(s) ==
  LET variants == NamesIn(s.parts[1]) IN
    [x \in {s.text \o "_" \o v : v \in variants} |->
       EnumValue(s.text, CHOOSE v \in variants : s.text \o "_" \o v = x)]
\* A callable: what was declared, and the environment it was declared in.
Callable(type, env, s) == Datum(type, env, s.text, <<s>>)
\* A call that waits to be awaited.
Pending(type, f, args) == Datum(type, 0, f.text, <<f>> \o args)

Numerals == [s \in {ToString(n) : n \in 0..99} |-> CHOOSE n \in 0..99 : ToString(n) = s]

\* A run: its environments and tools, what it printed, and the history variables
\* `active`, the effects allowed to each function that is running (since the last call
\* of a tool, which is an effect itself), and `breaches`, the effects that one of these
\* does not allow.
AnyEffect == {"inference", "tool"}
Begun ==
  [envs |-> <<[values |-> [x \in {"print"} |-> Datum("Native", 0, "print", <<>>)], parent |-> 0]>>,
   tools |-> <<>>, enums |-> <<>>, output |-> <<>>,
   scripted |-> FALSE, answers |-> <<>>, mocked |-> <<>>,      \* the mocks of a test
   active |-> <<>>, breaches |-> {}]

Bind(st, env, x, v) == [st EXCEPT !.envs[env].values = (x :> v) @@ @]
Child(st, env, values) == [st EXCEPT !.envs = Append(@, [values |-> values, parent |-> env])]
Perform(st, effect) ==
  IF \E i \in DOMAIN st.active : effect \notin st.active[i] THEN [st EXCEPT !.breaches = @ \cup {effect}] ELSE st

RECURSIVE Find(_, _, _)
\* The environment from `env` outwards that binds x, or 0.
Find(st, env, x) ==
  IF env = 0 \/ x \in DOMAIN st.envs[env].values THEN env ELSE Find(st, st.envs[env].parent, x)

\* Faulty: the environment of the declaration is not looked at, only the globals.
FindGlobal(st, env, x) ==
  IF x \in DOMAIN st.envs[env].values THEN env
  ELSE IF x \in DOMAIN st.envs[1].values THEN 1 ELSE 0

\* How a statement or an expression ends: `flow` is "normal", "return" or an error.
Ends(st, flow, v) == [st |-> st, flow |-> flow, value |-> v]
Gives(st, v)      == Ends(st, "normal", v)
Fails(st, error)  == Ends(st, error, UnitValue)
Then(r, F(_, _))  == IF r.flow = "normal" THEN F(r.st, r.value) ELSE r

-----------------------------------------------------------------------------
(* Operators and the standard library *)

\* Rust's division rounds towards zero.
Magnitude(n)   == IF n < 0 THEN -n ELSE n
Quotient(l, r) == (IF (l < 0) = (r < 0) THEN 1 ELSE -1) * (Magnitude(l) \div Magnitude(r))

Arithmetic(op, l, r) ==
  CASE op = "+" -> IntValue(l + r)
    [] op = "-" -> IntValue(l - r)
    [] op = "*" -> IntValue(l * r)
    [] op = "/" -> IntValue(Quotient(l, r))
    [] op = "<" -> BoolValue(l < r)
    [] op = ">" -> BoolValue(l > r)
    [] op = "<=" -> BoolValue(l <= r)
    [] op = ">=" -> BoolValue(l >= r)

EvalBinary(st, op, l, r) ==
  IF op \in {"==", "!="} THEN Gives(st, BoolValue((l = r) = (op = "==")))
  ELSE IF {l.type, r.type} # {"Int"} THEN Fails(st, "TypeMismatch")
  ELSE IF op = "/" /\ r.n = 0 THEN Fails(st, "DivisionByZero")
  ELSE Gives(st, Arithmetic(op, l.n, r.n))

EvalUnary(st, op, v) ==
  CASE op = "-" /\ v.type = "Int"  -> Gives(st, IntValue(-v.n))
    [] op = "!" /\ v.type = "Bool" -> Gives(st, BoolValue(v.n = 0))
    [] OTHER -> Fails(st, "TypeMismatch")

EvalIndex(st, list, i) ==
  IF list.type # "List" \/ i.type # "Int" THEN Fails(st, "TypeMismatch")
  ELSE IF i.n \in 0..Len(list.items) - 1 THEN Gives(st, list.items[i.n + 1])
  ELSE Fails(st, "IndexOutOfBounds")

\* The functions of the library that programs here use.
CallNative(st, f, args) ==
  CASE f = "print" -> Gives([st EXCEPT !.output = @ \o args], UnitValue)
    [] f = "collections_length" ->
         IF args[1].type = "List" THEN Gives(st, IntValue(Len(args[1].items))) ELSE Fails(st, "TypeMismatch")
    [] f = "string_concat" ->
         IF {args[1].type, args[2].type} = {"String"} THEN Gives(st, StringValue(args[1].items \o args[2].items))
         ELSE Fails(st, "TypeMismatch")

\* What a model says that always gives the same answer to the same question.
Canned(f, args) ==
  LET t == f.items[1].parts[2].text
      asked == IF args = <<>> THEN UnitValue ELSE args[1]
  IN CASE t = "Int" -> IntValue(asked.n + 5)
       [] t = "Bool" -> BoolValue(asked.n = 0)
       [] t = "String" -> StringValue(<<Leaf("Char", f.text)>> \o (IF asked.type = "String" THEN asked.items ELSE <<>>))
       [] OTHER -> UnitValue

\* MockModel: each answer of a test is given once.
Answer(st, f, args) ==
  CASE ~st.scripted -> Gives(st, Canned(f, args))
    [] st.scripted /\ f.text \in DOMAIN st.answers ->
         Gives([st EXCEPT !.answers = Restrict(@, DOMAIN @ \ {f.text})], st.answers[f.text])
    [] OTHER -> Fails(st, "ModelError")

\* validate_inference_result: only the answers that are enums are looked at.
Fits(st, v, t) ==
  CASE t.kind = "Type" /\ t.text \notin Primitives /\ t.parts = <<>> ->
         v.type = "Enum" /\ v.items[1].text = t.text /\ t.text \in DOMAIN st.enums /\ v.text \in st.enums[t.text]
    [] t.text = "Distribution" -> v.type = "Distribution"
    [] OTHER -> TRUE
Validated(r, t) == Then(r, LAMBDA s, v : IF Fits(s, v, t) THEN r ELSE Fails(s, "SchemaViolation"))

-----------------------------------------------------------------------------
(* Expressions and statements *)

RECURSIVE Eval(_, _, _), EvalAll(_, _, _), Exec(_, _, _), ExecStmt(_, _, _)

\* The values from left to right, up to the first that fails.
EvalAll(st, env, es) ==
  IF es = <<>> THEN Gives(st, <<>>)
  ELSE Then(Eval(st, env, Head(es)), LAMBDA s, v :
         Then(EvalAll(s, env, Tail(es)), LAMBDA u, vs : Gives(u, <<v>> \o vs)))

Allowed(f) ==
  IF f.kind \in {"Fn", "AsyncFn"} /\ f.parts[3] # Absent THEN FnEffectInfo(f.parts[3]).effects ELSE AnyEffect

\* run_function and run_tool_body: a scope of its own, under that of the declaration.
RunBody(st, f, args) ==
  LET decl  == f.items[1]
      ps    == decl.parts[1].parts
      scope == FoldLeft(LAMBDA values, i : (ps[i].text :> args[i]) @@ values, <<>>, [i \in DOMAIN ps |-> i])
      begun == Child([st EXCEPT !.active = IF decl.kind = "Tool" THEN <<>> ELSE Append(@, Allowed(decl))],
                     f.n, scope)
      r     == Exec(begun, Len(begun.envs), Last(decl.parts).parts)
      s     == [r.st EXCEPT !.active = st.active]
  IN CASE r.flow = "normal" -> Gives(s, UnitValue)
       [] r.flow = "return" -> Gives(s, r.value)
       [] OTHER -> Fails(s, r.flow)

CallValue(st, f, args) ==
  LET decl == f.items[1] IN
  CASE f.type = "Native" -> CallNative(st, f.text, args)
    [] f.type \in {"Function", "InferenceFn", "ToolFn"} ->
         IF Len(decl.parts[1].parts) # Len(args) THEN Fails(st, "ArityMismatch")
         ELSE CASE decl.kind \in {"Fn", "Lambda"} -> RunBody(st, f, args)
                [] decl.kind = "AsyncFn" -> Gives(st, Pending("Task", f, args))
                [] decl.kind = "Infer"   -> Gives(st, Pending("Inference", f, args))
                [] decl.kind = "Tool"    -> Gives(st, Pending("ToolCall", f, args))
    [] OTHER -> Fails(st, "NotCallable")

\* A mock comes first; then the body of the tool that has the name now.
CallTool(st, f, args) ==
  CASE f.text \in DOMAIN st.mocked -> Gives(st, st.mocked[f.text])
    [] f.text \notin DOMAIN st.mocked /\ Last(st.tools[f.text].items[1].parts) # Absent ->
         RunBody(st, st.tools[f.text], args)
    [] OTHER -> Fails(st, "ToolError")

EvalAwait(st, v) ==
  LET f == v.items[1]
      args == Tail(v.items)
  IN CASE v.type = "Task" -> RunBody(st, f, args)
       [] v.type = "Inference" -> Validated(Answer(Perform(st, "inference"), f, args), f.items[1].parts[2])
       [] v.type = "ToolCall" -> Validated(CallTool(Perform(st, "tool"), f, args), f.items[1].parts[2])
       [] OTHER -> Fails(st, "TypeMismatch")

Choose(r, Yes(_), No(_)) ==
  Then(r, LAMBDA s, c : IF c.type # "Bool" THEN Fails(s, "TypeMismatch")
                        ELSE IF c.n = 1 THEN Yes(s) ELSE No(s))

\* The left operand decides whether the right one is evaluated.
ShortCircuit(st, env, e) ==
  LET Decided(s) == Gives(s, BoolValue(e.text = "||"))
      Right(s) == Choose(Eval(s, env, e.parts[2]), LAMBDA u : Gives(u, BoolValue(TRUE)),
                                                   LAMBDA u : Gives(u, BoolValue(FALSE)))
  IN IF e.text = "||" THEN Choose(Eval(st, env, e.parts[1]), Decided, Right)
     ELSE Choose(Eval(st, env, e.parts[1]), Right, Decided)

\* Lists among the children are spliced in.
Children(vs) == FlattenSeq([i \in DOMAIN vs |-> IF vs[i].type = "List" THEN vs[i].items ELSE <<vs[i]>>])

EvalNode(st, env, e) ==
  LET props == e.parts[1].parts IN
  Then(EvalAll(st, env, [i \in DOMAIN props |-> props[i].parts[1]]), LAMBDA s, ps :
    IF \E i \in DOMAIN ps : ps[i].type \notin {"String", "Int", "Float", "Bool"} THEN Fails(s, "TypeMismatch")
    ELSE Then(EvalAll(s, env, e.parts[2].parts), LAMBDA u, cs :
           IF \E i \in DOMAIN cs : cs[i].type \notin {"Node", "String", "List"} THEN Fails(u, "TypeMismatch")
           ELSE Gives(u, Datum("Node", 0, e.text,
             <<ListValue([i \in DOMAIN ps |-> Datum("Prop", 0, props[i].text, <<ps[i]>>)]), ListValue(Children(cs))>>))))

Literals == {"Integer", "Float", "Bool", "String"}
LiteralValue(e) ==
  CASE e.kind = "Integer" -> IntValue(Numerals[e.text])
    [] e.kind = "Float"   -> Datum("Float", 0, e.text, e.parts)
    [] e.kind = "Bool"    -> BoolValue(e.text = "true")
    [] e.kind = "String"  -> StringValue(e.parts)

Eval(st, env, e) ==
  CASE e.kind \in Literals -> Gives(st, LiteralValue(e))
    [] e.kind = "Identifier" ->
         LET at == Find(st, env, e.text)
         IN IF at = 0 THEN Fails(st, "UndefinedVariable") ELSE Gives(st, st.envs[at].values[e.text])
    [] e.kind = "Unary" -> Then(Eval(st, env, e.parts[1]), LAMBDA s, v : EvalUnary(s, e.text, v))
    [] e.kind = "Binary" ->
         IF e.text \in {"&&", "||"} THEN ShortCircuit(st, env, e)
         ELSE Then(EvalAll(st, env, e.parts), LAMBDA s, vs : EvalBinary(s, e.text, vs[1], vs[2]))
    [] e.kind = "Call" -> Then(EvalAll(st, env, e.parts), LAMBDA s, vs : CallValue(s, Head(vs), Tail(vs)))
    [] e.kind = "List" -> Then(EvalAll(st, env, e.parts), LAMBDA s, vs : Gives(s, ListValue(vs)))
    [] e.kind = "Index" -> Then(EvalAll(st, env, e.parts), LAMBDA s, vs : EvalIndex(s, vs[1], vs[2]))
    [] e.kind = "Await" -> Then(Eval(st, env, e.parts[1]), LAMBDA s, v : EvalAwait(s, v))
    [] e.kind = "IfExpr" ->
         Choose(Eval(st, env, e.parts[1]), LAMBDA s : Eval(s, env, e.parts[2]), LAMBDA s : Eval(s, env, e.parts[3]))
    [] e.kind = "Lambda" -> Gives(st, Callable("Function", env, e))
    [] e.kind = "NodeLiteral" -> EvalNode(st, env, e)

ExecBranch(st, env, b) ==
  IF b = Absent THEN Gives(st, UnitValue)
  ELSE LET s == Child(st, env, <<>>) IN Exec(s, Len(s.envs), b.parts)

Bindings(st, env, bs) == [st EXCEPT !.envs[env].values = bs @@ @]

\* What becomes of the value of a statement.
UseValue(st, env, s, v) ==
  LET OnBool(Yes(_), No(_)) == Choose(Gives(st, v), Yes, No)
  IN CASE s.kind = "Let" -> Gives(Bind(st, env, s.text, v), UnitValue)
       [] s.kind = "Expr" -> Gives(st, UnitValue)
       [] s.kind = "Return" -> Ends(st, "return", v)
       [] s.kind = "If" ->
            OnBool(LAMBDA u : ExecBranch(u, env, s.parts[2]), LAMBDA u : ExecBranch(u, env, s.parts[3]))
       [] s.kind = "Assert" ->
            OnBool(LAMBDA u : Gives(u, UnitValue), LAMBDA u : Fails(u, "AssertionFailed"))

ExecStmt(st, env, s) ==
  LET Declares(type) == Bind(st, env, s.text, Callable(type, env, s))
  IN CASE s.kind \in {"Let", "Expr", "Return", "If", "Assert"} ->
            Then(Eval(st, env, s.parts[1]), LAMBDA u, v : UseValue(u, env, s, v))
       [] s.kind \in {"Fn", "AsyncFn"} -> Gives(Declares("Function"), UnitValue)
       [] s.kind = "Infer" -> Gives(Declares("InferenceFn"), UnitValue)
       [] s.kind = "Tool" ->
            Gives([Declares("ToolFn") EXCEPT !.tools = (s.text :> Callable("ToolFn", env, s)) @@ @], UnitValue)
       [] s.kind = "Enum" ->
            Gives([Bindings(st, env, EnumValues(s)) EXCEPT !.enums = (s.text :> NamesIn(s.parts[1])) @@ @], UnitValue)
       [] s.kind = "Import" ->
            Gives(Bindings(st, env, [f \in DOMAIN ModuleBindings[s.text] |-> Datum("Native", 0, f, <<>>)]), UnitValue)
       [] s.kind \in {"Test", "Mock", "Budget"} -> Gives(st, UnitValue)

\* exec_block, and run_statements for the top level.
Exec(st, env, statements) ==
  IF statements = <<>> THEN Gives(st, UnitValue)
  ELSE Then(ExecStmt(st, env, Head(statements)), LAMBDA s, v : Exec(s, env, Tail(statements)))

\* How a run ends: what it printed, and its error.
Outcome(r) ==
  [output |-> r.st.output, breaches |-> r.st.breaches,
   error |-> CASE r.flow = "normal" -> "none" [] r.flow = "return" -> "ReturnOutsideFunction" [] OTHER -> r.flow]

Interpreted(program) == Outcome(Exec(Begun, 1, program.parts))
=============================================================================
