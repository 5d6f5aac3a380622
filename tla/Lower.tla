-------------------------------- MODULE Lower --------------------------------
(***************************************************************************)
(* AIR, the intermediate form: lowering, and the optimiser that removes    *)
(* repeated AI operations.  AIR is the syntax tree with calls by name, of  *)
(* four kinds; its statements keep types and clauses here, which nothing   *)
(* after the lowering reads.                                               *)
(***************************************************************************)
EXTENDS Interpreter

Refused == Leaf("Refused", "")        \* what the machine does not support

DeclaredAs(kind, program) == {s.text : s \in ToSet(Declarations(program, {kind}))}

\* lower_call: the operations of the model and of tools are told from other calls.
LowerCall(infers, tools, f, args) ==
  CASE f = "distribution_probability" /\ Len(args) # 2 -> Refused
    [] f \in DOMAIN ModuleBindings.distribution /\ (f = "distribution_probability" => Len(args) = 2) ->
         Node("Distribution", f, args)
    [] f \notin DOMAIN ModuleBindings.distribution /\ f \in infers -> Node("InferCall", f, args)
    [] f \notin DOMAIN ModuleBindings.distribution \cup infers /\ f \in tools -> Node("ToolCall", f, args)
    [] OTHER -> Node("NamedCall", f, args)

RECURSIVE LowerNode(_, _, _)
LowerNode(infers, tools, n) ==
  LET m == [n EXCEPT !.parts = [i \in DOMAIN n.parts |-> LowerNode(infers, tools, n.parts[i])]]
  IN CASE n.kind \in {"Lambda", "IfExpr", "NodeLiteral", "ImportFile"} -> Refused
       [] n.kind = "Binary" -> IF n.text \in {"&&", "||"} THEN Refused ELSE m
       [] n.kind = "Call" ->
            IF n.parts[1].kind = "Identifier" THEN LowerCall(infers, tools, n.parts[1].text, Tail(m.parts))
            ELSE Refused
       [] n.kind = "Tool" -> n                \* AIR has no body for a tool; nothing below looks at it
       [] OTHER -> m

Lowered(program) == LowerNode(DeclaredAs("Infer", program), DeclaredAs("Tool", program), program)
Lowers(program)  == Refused \notin NodesOf(Lowered(program))

-----------------------------------------------------------------------------
(* The optimiser *)

Stable(e) == e.kind \in {"Integer", "Float", "String", "Bool", "Identifier"}

\* Faulty: the arguments may be calls.
CacheableWithCalls(e) ==
  LET call == IF e.kind = "Await" THEN e.parts[1] ELSE e
  IN call.kind \in {"InferCall", "ToolCall", "Distribution"}

RECURSIVE Cacheable(_)
\* A call that is its own key: equal calls have equal nodes.
Cacheable(e) ==
  \/ e.kind = "Await" /\ Cacheable(e.parts[1])
  \/ e.kind \in {"InferCall", "ToolCall", "Distribution"} /\ \A i \in DOMAIN e.parts : Stable(e.parts[i])

\* The cache of a block maps a call to the name of its result.
OptimizeStmt(b, s) ==
  LET call  == s.parts[1]
      temp  == "__air_cse_" \o ToString(b.temps)
      Writes(t) == [b EXCEPT !.out = Append(@, t)]
      Caches(x) == [b EXCEPT !.cache = (call :> x) @@ @]
  IN CASE s.kind \notin {"Let", "Expr"} \/ ~Cacheable(call) -> Writes(s)
       [] s.kind \in {"Let", "Expr"} /\ Cacheable(call) /\ call \in DOMAIN b.cache ->
            Writes([s EXCEPT !.parts[1] = Identifier(b.cache[call])])
       [] s.kind = "Let" /\ Cacheable(call) /\ call \notin DOMAIN b.cache ->
            [Writes(s) EXCEPT !.cache = Caches(s.text).cache]
       [] s.kind = "Expr" /\ Cacheable(call) /\ call \notin DOMAIN b.cache ->
            [Writes(Let(temp, call)) EXCEPT !.cache = Caches(temp).cache, !.temps = @ + 1]

OptimizeStatements(ss) ==
  FoldLeft(LAMBDA b, s : OptimizeStmt(b, s), [cache |-> <<>>, temps |-> 0, out |-> <<>>], ss).out

RECURSIVE Optimize(_)
\* Every block has a cache of its own.
Optimize(n) ==
  LET m == [n EXCEPT !.parts = [i \in DOMAIN n.parts |-> Optimize(n.parts[i])]]
  IN CASE n.kind \in {"Program", "Block"} -> [m EXCEPT !.parts = OptimizeStatements(@)]
       [] n.kind = "Tool" -> n
       [] OTHER -> m

RECURSIVE Raised(_)
\* The tree of an AIR program, to be run by the interpreter.
Raised(n) ==
  LET parts == [i \in DOMAIN n.parts |-> Raised(n.parts[i])]
  IN IF n.kind \in {"NamedCall", "InferCall", "ToolCall", "Distribution"}
     THEN Call(Identifier(n.text), parts) ELSE [n EXCEPT !.parts = parts]
=============================================================================
