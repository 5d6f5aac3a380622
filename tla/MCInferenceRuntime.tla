------------------------- MODULE MCInferenceRuntime -------------------------
(* A restricted and an unrestricted infer function; a mocked tool, a tool   *)
(* with a body and one with neither; one undeclared name the model may ask  *)
(* for.                                                                     *)
EXTENDS InferenceRuntime

CONSTANTS summarize, triage, lookup, mailer, ledger, ghost

MCInfers       == {summarize, triage}
MCTools        == {lookup, mailer, ledger}
MCUnknownNames == {ghost}
MCPermissions  == [f \in MCInfers |-> IF f = summarize THEN {lookup} ELSE NoClause]
MCMocked       == {lookup}
MCWithBody     == {lookup, mailer}
MCBudgets      == {[max_model_calls |-> 2, timeout_ms |-> TRUE]}
=============================================================================
