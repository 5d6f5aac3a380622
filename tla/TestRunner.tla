----------------------------- MODULE TestRunner -----------------------------
(***************************************************************************)
(* `aint test`: each test runs in an interpreter of its own, whose model   *)
(* and tools give the answers of its `mock` statements.                    *)
(***************************************************************************)
EXTENDS Interpreter

Unsupported == Datum("Unsupported", 0, "", <<>>)

RECURSIVE EvalMockValue(_, _)
\* Literals, constants of enums, and nodes of these; nothing that would have to run.
EvalMockValue(constants, e) ==
  CASE e.kind \in Literals -> LiteralValue(e)
    [] e.kind = "Identifier" -> IF e.text \in DOMAIN constants THEN constants[e.text] ELSE Unsupported
    [] e.kind = "NodeLiteral" ->
         LET props == e.parts[1].parts
             ps == [i \in DOMAIN props |-> EvalMockValue(constants, props[i].parts[1])]
             cs == [i \in DOMAIN e.parts[2].parts |-> EvalMockValue(constants, e.parts[2].parts[i])]
         IN IF /\ \A i \in DOMAIN ps : ps[i].type \in {"String", "Int", "Float", "Bool"}
               /\ \A i \in DOMAIN cs : cs[i].type \in {"Node", "String"}
            THEN Datum("Node", 0, e.text,
                       <<ListValue([i \in DOMAIN ps |-> Datum("Prop", 0, props[i].text, <<ps[i]>>)]), ListValue(cs)>>)
            ELSE Unsupported
    [] OTHER -> Unsupported

\* What the name of a mock stands for: the last declaration of it.
MockTargets(program) ==
  FoldLeft(LAMBDA targets, s : (s.text :> s.kind) @@ targets, <<>>, Declarations(program, {"Infer", "Tool"}))

\* The last mock of a name counts.
MockValues(mocks, values, targets, kind) ==
  FoldLeft(LAMBDA all, i : IF targets[mocks[i].text] = kind THEN (mocks[i].text :> values[i]) @@ all ELSE all,
           <<>>, [i \in DOMAIN mocks |-> i])

\* Everything but the tests runs first, then the statements of the test.
RunOneTest(program, test) ==
  LET constants == FoldLeft(LAMBDA all, e : EnumValues(e) @@ all, <<>>, Declarations(program, {"Enum"}))
      mocks   == SelectSeq(test.parts[2].parts, LAMBDA s : s.kind = "Mock")
      values  == [i \in DOMAIN mocks |-> EvalMockValue(constants, mocks[i].parts[1])]
      targets == MockTargets(program)
      fresh   == [Begun EXCEPT !.scripted = TRUE,
                               !.answers = MockValues(mocks, values, targets, "Infer"),
                               !.mocked  = MockValues(mocks, values, targets, "Tool")]
      rest    == SelectSeq(program.parts, LAMBDA s : s.kind # "Test")
  IN IF \E i \in DOMAIN mocks : values[i] = Unsupported \/ mocks[i].text \notin DOMAIN targets
     THEN Outcome(Fails(Begun, "UnsupportedMockValue"))
     ELSE Outcome(Then(Exec(fresh, 1, rest), LAMBDA st, v : Exec(st, 1, test.parts[2].parts)))

RunTests(program) ==
  LET tests == Declarations(program, {"Test"})
  IN [i \in DOMAIN tests |-> [name |-> tests[i].parts[1], outcome |-> RunOneTest(program, tests[i])]]
=============================================================================
