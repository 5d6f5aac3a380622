------------------------------ MODULE TypeChecker ------------------------------
(***************************************************************************)
(* The static checker: which programs may be run at all.  A context holds  *)
(* the scopes, the names of the enums, and for the function being checked  *)
(* the type it returns and the effects it declared.  Checking an           *)
(* expression gives its type; checking a statement gives the scopes after  *)
(* it, since a declaration adds to the innermost one.                      *)
(***************************************************************************)
EXTENDS Trees, FiniteSets, SequencesExt, TLC

T(name)  == Type(name, <<>>)
NoType   == Absent            \* a type error
NoScopes == <<>>              \* a statement that is refused
Primitives == {"Int", "Float", "Bool", "String", "Unit", "Node"}

\* What is known of the effects of a callable.  Only "declared" ones are compared.
Exempt      == [tracking |-> "exempt", effects |-> {}]
Untracked   == [tracking |-> "untracked", effects |-> {}]
Declared(s) == [tracking |-> "declared", effects |-> s]

NamesIn(group) == {group.parts[i].text : i \in DOMAIN group.parts}

FnEffectInfo(clause) ==
  IF clause = Absent THEN Untracked
  ELSE Declared(IF "pure" \in NamesIn(clause) THEN {} ELSE NamesIn(clause))

\* Bindings.
Variable(t)    == [is |-> "variable", type |-> t]
Polymorphic(f) == [is |-> "polymorphic", name |-> f]
Function(ts, t, mode, effects) ==
  [is |-> "function", types |-> ts, type |-> t, mode |-> mode, effects |-> effects]

ParamTypes(ps) == [i \in DOMAIN ps |-> ps[i].parts[1]]

Signature(s) ==
  LET Of(mode, effects) == Function(ParamTypes(s.parts[1].parts), s.parts[2], mode, effects)
  IN CASE s.kind = "Fn"      -> Of("Sync", FnEffectInfo(s.parts[3]))
       [] s.kind = "AsyncFn" -> Of("Task", FnEffectInfo(s.parts[3]))
       [] s.kind = "Infer"   -> Of("Inference", Declared({"inference"}))
       [] s.kind = "Tool"    -> Of("Tool", Declared({"tool"}))

\* A scope, and the innermost scope that has a name.
Define(scopes, x, b) == [scopes EXCEPT ![Len(scopes)] = (x :> b) @@ @]
DefineAll(scopes, bs) == [scopes EXCEPT ![Len(scopes)] = bs @@ @]
Lookup(scopes, x) ==
  LET holders == {i \in DOMAIN scopes : x \in DOMAIN scopes[i]}
  IN IF holders = {} THEN [is |-> "nothing"]
     ELSE scopes[CHOOSE i \in holders : \A j \in holders : j <= i][x]

\* A parameter given twice is the later one.
Params(ps) == FoldLeft(LAMBDA scope, p : (p.text :> Variable(p.parts[1])) @@ scope, <<>>, ps)

RECURSIVE ValidType(_, _)
ValidType(enums, t) ==
  IF t.kind = "FnType" \/ t.text \in {"List", "Option"}
  THEN \A i \in DOMAIN t.parts : ValidType(enums, t.parts[i])
  ELSE IF t.text = "Distribution" THEN t.parts[1].kind = "Type" /\ t.parts[1].text \in enums \ Primitives
  ELSE t.text \in Primitives \cup enums

-----------------------------------------------------------------------------
(* The standard library *)

Natives(names, ts, t) == [f \in names |-> Function(ts, t, "Sync", Exempt)]
AsyncNatives(names, ts) == [f \in names |-> Function(ts, T("Unit"), "Task", Exempt)]

ModuleBindings ==
  LET F == T("Float")
      S == T("String")
      B == T("Bool")
      Strings == Type("List", <<S>>)
      Maybe == Type("Option", <<S>>)
  IN [math |-> Natives({"math_sqrt", "math_floor", "math_ceil", "math_round", "math_abs"}, <<F>>, F)
                 @@ Natives({"math_pow", "math_min", "math_max"}, <<F, F>>, F),
      string |-> Natives({"string_length"}, <<S>>, T("Int"))
                 @@ Natives({"string_to_upper", "string_to_lower", "string_trim", "string_url_decode"}, <<S>>, S)
                 @@ Natives({"string_contains"}, <<S, S>>, B)
                 @@ Natives({"string_concat"}, <<S, S>>, S)
                 @@ Natives({"string_split"}, <<S, S>>, Strings)
                 @@ Natives({"string_replace"}, <<S, S, S>>, S),
      time |-> Natives({"time_now_seconds"}, <<>>, T("Int")) @@ AsyncNatives({"time_sleep_ms"}, <<T("Int")>>),
      json |-> Natives({"json_get"}, <<S, S>>, Maybe) @@ Natives({"json_object"}, <<Strings, Strings>>, S),
      db |-> Natives({"db_insert", "db_update"}, <<S, S, S>>, B) @@ Natives({"db_get"}, <<S, S>>, Maybe)
                 @@ Natives({"db_list"}, <<S>>, Strings) @@ Natives({"db_delete"}, <<S, S>>, B),
      auth |-> Natives({"auth_hash_password"}, <<S>>, S) @@ Natives({"auth_verify_password"}, <<S, S>>, B)
                 @@ Natives({"auth_generate_token"}, <<>>, S),
      log |-> Natives({"log_info", "log_error"}, <<S>>, T("Unit")),
      http |-> AsyncNatives({"http_serve"}, <<T("Int")>>)
                 @@ AsyncNatives({"http_serve_assets"}, <<T("Int"), S>>),
      ui |-> Natives({"render"}, <<T("Node")>>, S),
      collections |-> [f \in {"collections_length"} |-> Polymorphic(f)],
      distribution |-> [f \in {"distribution_probability", "distribution_argmax", "distribution_entropy",
                               "distribution_sample", "distribution_require_confidence"} |-> Polymorphic(f)],
      option |-> [f \in {"option_is_some", "option_unwrap"} |-> Polymorphic(f)]]

Of(t, name) == t.kind = "Type" /\ t.text = name /\ t.parts # <<>>

\* The functions that take a List<T>, a Distribution<T> or an Option<T> of any T.
DistributionType(f, found) ==
  LET inner == found[1].parts[1]
  IN CASE f \in {"distribution_argmax", "distribution_sample"} /\ Len(found) = 1 -> inner
       [] f = "distribution_entropy" /\ Len(found) = 1 -> T("Float")
       [] f = "distribution_probability" /\ Len(found) = 2 /\ found[2] = inner -> T("Float")
       [] f = "distribution_require_confidence" /\ Len(found) = 2 /\ found[2] = T("Float") ->
            Type("Option", <<inner>>)
       [] OTHER -> NoType

PolymorphicType(f, found) ==
  CASE found # <<>> /\ Of(found[1], "Distribution") /\ f \in DOMAIN ModuleBindings.distribution ->
         DistributionType(f, found)
    [] f = "collections_length" /\ Len(found) = 1 /\ Of(found[1], "List") -> T("Int")
    [] f = "option_is_some" /\ Len(found) = 1 /\ Of(found[1], "Option") -> T("Bool")
    [] f = "option_unwrap" /\ Len(found) = 1 /\ Of(found[1], "Option") -> found[1].parts[1]
    [] OTHER -> NoType

-----------------------------------------------------------------------------
(* Expressions *)

BinaryType(op, l, r) ==
  LET numbers == l = r /\ l \in {T("Int"), T("Float")}
  IN CASE op \in {"+", "-", "*", "/"} /\ numbers -> l
       [] op \in {"<", ">", "<=", ">="} /\ numbers -> T("Bool")
       [] op \in {"==", "!="} /\ l = r /\ l # NoType -> T("Bool")
       [] op \in {"&&", "||"} /\ l = r /\ l = T("Bool") -> T("Bool")
       [] OTHER -> NoType

UnaryType(op, t) ==
  IF (op = "-" /\ t \in {T("Int"), T("Float")}) \/ (op = "!" /\ t = T("Bool")) THEN t ELSE NoType

\* Only a plain function is a value too.
IdentifierType(cx, x) ==
  LET b == Lookup(cx.scopes, x)
  IN CASE b.is = "variable" -> b.type
       [] b.is = "function" /\ b.mode = "Sync" -> FnType(b.types, b.type)
       [] OTHER -> NoType

\* The type of a call that type-checks, by the mode of what is called.
Wrapped(mode, t) == IF mode = "Sync" THEN t ELSE Type(mode, <<t>>)

\* Faulty: a function that tracks no effects may be called from anywhere.
CompatibleIfDeclared(caller, callee) ==
  caller.tracking = "declared" /\ callee.tracking = "declared" => callee.effects \subseteq caller.effects

Compatible(caller, callee) ==
  caller.tracking = "declared" =>
    \/ callee.tracking = "exempt"
    \/ callee.tracking = "declared" /\ callee.effects \subseteq caller.effects

ClosureCallType(cx, t, found) ==
  IF t.kind = "FnType" /\ Front(t.parts) = found /\ Compatible(cx.effects, Untracked)
  THEN Last(t.parts) ELSE NoType

NamedCallType(cx, f, found) ==
  LET b == Lookup(cx.scopes, f)
  IN CASE f = "print" -> IF Len(found) = 1 /\ found[1] # NoType THEN T("Unit") ELSE NoType
       [] f # "print" /\ b.is = "function" ->
            IF b.types = found /\ Compatible(cx.effects, b.effects) THEN Wrapped(b.mode, b.type) ELSE NoType
       [] f # "print" /\ b.is = "variable" -> ClosureCallType(cx, b.type, found)
       [] f # "print" /\ b.is = "polymorphic" -> PolymorphicType(f, found)
       [] OTHER -> NoType

RECURSIVE DefinitelyReturns(_)

\* Faulty: one branch that returns is enough.
ReturnsOnOneBranch(statements) ==
  \E i \in DOMAIN statements :
    LET s == statements[i] IN
      s.kind = "Return" \/ (s.kind = "If" /\ DefinitelyReturns(s.parts[2].parts))

DefinitelyReturns(statements) ==
  \E i \in DOMAIN statements :
    LET s == statements[i] IN
      \/ s.kind = "Return"
      \/ /\ s.kind = "If" /\ s.parts[3] # Absent
         /\ DefinitelyReturns(s.parts[2].parts) /\ DefinitelyReturns(s.parts[3].parts)

RECURSIVE TypeOf(_, _), CheckStatements(_, _)

CheckBlock(cx, scope, block) ==
  CheckStatements([cx EXCEPT !.scopes = Append(@, scope)], block.parts) # NoScopes

\* The body of a function, a lambda or a tool.
CheckBody(cx, ps, result, effects, body) ==
  /\ \A t \in ToSet(ParamTypes(ps)) \cup {result} : ValidType(cx.enums, t)
  /\ CheckBlock([cx EXCEPT !.returns = result, !.effects = effects], Params(ps), body)
  /\ result # T("Unit") => DefinitelyReturns(body.parts)

LambdaType(cx, e) ==
  LET ps == e.parts[1].parts
  IN IF CheckBody(cx, ps, e.parts[2], Untracked, e.parts[3]) THEN FnType(ParamTypes(ps), e.parts[2]) ELSE NoType

NodeType(cx, props, children) ==
  IF /\ \A i \in DOMAIN props : TypeOf(cx, props[i].parts[1]) \in {T("String"), T("Int"), T("Float"), T("Bool")}
     /\ \A i \in DOMAIN children :
          TypeOf(cx, children[i]) \in {T("Node"), T("String"), Type("List", <<T("Node")>>)}
  THEN T("Node") ELSE NoType

TypeOf(cx, e) ==
  LET found == [i \in DOMAIN e.parts |-> TypeOf(cx, e.parts[i])]
  IN CASE e.kind = "Integer" -> T("Int")
       [] e.kind \in {"Float", "Bool", "String"} -> T(e.kind)
       [] e.kind = "Identifier" -> IdentifierType(cx, e.text)
       [] e.kind = "Unary" -> UnaryType(e.text, found[1])
       [] e.kind = "Binary" -> BinaryType(e.text, found[1], found[2])
       [] e.kind = "Call" ->
            LET args == Tail(e.parts)
                types == [i \in DOMAIN args |-> TypeOf(cx, args[i])]
            IN IF e.parts[1].kind = "Identifier" THEN NamedCallType(cx, e.parts[1].text, types)
               ELSE ClosureCallType(cx, TypeOf(cx, e.parts[1]), types)
       [] e.kind = "List" ->
            IF Cardinality(ToSet(found)) = 1 /\ found[1] # NoType THEN Type("List", <<found[1]>>) ELSE NoType
       [] e.kind = "Index" ->
            IF Of(found[1], "List") /\ found[2] = T("Int") THEN found[1].parts[1] ELSE NoType
       [] e.kind = "Await" ->
            IF \E mode \in {"Task", "Inference", "Tool"} : Of(found[1], mode) THEN found[1].parts[1] ELSE NoType
       [] e.kind = "Lambda" -> LambdaType(cx, e)
       [] e.kind = "IfExpr" ->
            IF found[1] = T("Bool") /\ found[2] = found[3] THEN found[2] ELSE NoType
       [] e.kind = "NodeLiteral" -> NodeType(cx, e.parts[1].parts, e.parts[2].parts)

-----------------------------------------------------------------------------
(* Statements: the scopes after one, or NoScopes *)

CheckFn(cx, s) ==
  LET after == Define(cx.scopes, s.text, Signature(s))
      clause == s.parts[3]
  IN IF /\ clause # Absent => ("pure" \in NamesIn(clause) => Len(clause.parts) = 1)
        /\ CheckBody([cx EXCEPT !.scopes = after], s.parts[1].parts, s.parts[2], FnEffectInfo(clause), s.parts[4])
     THEN after ELSE NoScopes

IsToolName(scopes, x) == LET b == Lookup(scopes, x) IN b.is = "function" /\ b.mode = "Tool"

CheckInfer(cx, s) ==
  LET after == Define(cx.scopes, s.text, Signature(s))
  IN IF /\ \A t \in ToSet(ParamTypes(s.parts[1].parts)) \cup {s.parts[2]} : ValidType(cx.enums, t)
        /\ s.parts[3] # Absent => \A x \in NamesIn(s.parts[3]) : IsToolName(after, x)
     THEN after ELSE NoScopes

CheckTool(cx, s) ==
  LET after == Define(cx.scopes, s.text, Signature(s))
      ps == s.parts[1].parts
  IN IF IF s.parts[3] = Absent
        THEN \A t \in ToSet(ParamTypes(ps)) \cup {s.parts[2]} : ValidType(cx.enums, t)
        ELSE CheckBody([cx EXCEPT !.scopes = after], ps, s.parts[2], Untracked, s.parts[3])
     THEN after ELSE NoScopes

CheckMock(cx, s) ==
  LET b == Lookup(cx.scopes, s.text)
  IN cx.test /\ b.is = "function" /\ b.mode \in {"Inference", "Tool"} /\ TypeOf(cx, s.parts[1]) = b.type

CheckIf(cx, s) ==
  /\ TypeOf(cx, s.parts[1]) = T("Bool")
  /\ CheckBlock(cx, <<>>, s.parts[2])
  /\ s.parts[3] # Absent => CheckBlock(cx, <<>>, s.parts[3])

CheckStmt(cx, s) ==
  LET Keeps(ok) == IF ok THEN cx.scopes ELSE NoScopes
      found == TypeOf(cx, s.parts[1])
  IN CASE s.kind = "Let" -> IF found = NoType THEN NoScopes ELSE Define(cx.scopes, s.text, Variable(found))
       [] s.kind = "Expr" -> Keeps(found # NoType)
       [] s.kind = "Return" -> Keeps(cx.returns # Absent /\ found = cx.returns)
       [] s.kind = "Assert" -> Keeps(found = T("Bool"))
       [] s.kind = "If" -> Keeps(CheckIf(cx, s))
       [] s.kind \in {"Fn", "AsyncFn"} -> CheckFn(cx, s)
       [] s.kind = "Infer" -> CheckInfer(cx, s)
       [] s.kind = "Tool" -> CheckTool(cx, s)
       [] s.kind = "Enum" -> Keeps(s.parts[1].parts # <<>>)
       [] s.kind = "Test" -> Keeps(CheckBlock([cx EXCEPT !.test = TRUE], <<>>, s.parts[2]))
       [] s.kind = "Mock" -> Keeps(CheckMock(cx, s))
       [] s.kind = "Budget" -> cx.scopes
       [] s.kind = "Import" ->
            IF s.text \in DOMAIN ModuleBindings THEN DefineAll(cx.scopes, ModuleBindings[s.text]) ELSE NoScopes
       [] s.kind = "ImportFile" -> NoScopes

CheckStatements(cx, statements) ==
  IF statements = <<>> \/ cx.scopes = NoScopes THEN cx.scopes
  ELSE CheckStatements([cx EXCEPT !.scopes = CheckStmt(cx, Head(statements))], Tail(statements))

-----------------------------------------------------------------------------
(* Programs *)

Declarations(program, kinds) == SelectSeq(program.parts, LAMBDA s : s.kind \in kinds)

EnumConstants(e) ==
  [x \in {e.text \o "_" \o v : v \in NamesIn(e.parts[1])} |-> Variable(T(e.text))]

\* The enums first, then the signatures of everything that can be called.
Hoist(program) ==
  LET enums == FoldLeft(LAMBDA scope, e : EnumConstants(e) @@ scope, <<>>, Declarations(program, {"Enum"}))
  IN FoldLeft(LAMBDA scope, s : (s.text :> Signature(s)) @@ scope, enums,
              Declarations(program, {"Fn", "AsyncFn", "Infer", "Tool"}))

RECURSIVE Budgets(_)
Budgets(n) == IF n.kind = "Budget" THEN 1 ELSE FoldLeft(LAMBDA sum, m : sum + Budgets(m), 0, n.parts)

TopLevel(program) ==
  [scopes |-> <<Hoist(program)>>, enums |-> {e.text : e \in ToSet(Declarations(program, {"Enum"}))},
   returns |-> Absent, effects |-> Untracked, test |-> FALSE]

WellTyped(program) ==
  Budgets(program) <= 1 /\ CheckStatements(TopLevel(program), program.parts) # NoScopes
=============================================================================
