------------------------------- MODULE Rewrite -------------------------------
(***************************************************************************)
(* The deterministic half of `aint migrate`: two rewrites, applied to a    *)
(* tree from the leaves to the root.                                       *)
(***************************************************************************)
EXTENDS Printer

SingleReturn(b) == Len(b.parts) = 1 /\ b.parts[1].kind = "Return"

\* if c { return a } else { return b }  ->  return if c { a } else { b }
IfReturn(s) ==
  IF s.parts[3] # Absent /\ SingleReturn(s.parts[2]) /\ SingleReturn(s.parts[3])
  THEN [Return(IfExpr(s.parts[1], s.parts[2].parts[1].parts[1], s.parts[3].parts[1].parts[1]))
          EXCEPT !.gap = s.gap]
  ELSE s

IsBool(e, b) == e = Bool(b)

\* Faulty: `!=` with true is taken for `!=` with false.
CompareUnnegated(e) ==
  LET l == e.parts[1]
      r == e.parts[2]
  IN CASE e.text \in {"==", "!="} /\ IsBool(l, TRUE) -> r
       [] e.text \in {"==", "!="} /\ ~IsBool(l, TRUE) /\ IsBool(r, TRUE) -> l
       [] OTHER -> e

\* x == true -> x, x == false -> !x, and so for != and with the literal on the left; the arms in order.
Compare(e) ==
  LET l == e.parts[1]
      r == e.parts[2]
      Drop(b) == IF IsBool(l, b) THEN r ELSE l
      Negated(b) == Unary("!", Drop(b))
      Has(b) == IsBool(l, b) \/ IsBool(r, b)
  IN CASE e.text = "==" /\ Has(TRUE) -> Drop(TRUE)
       [] e.text = "==" /\ ~Has(TRUE) /\ Has(FALSE) -> Negated(FALSE)
       [] e.text = "!=" /\ Has(FALSE) -> Drop(FALSE)
       [] e.text = "!=" /\ ~Has(FALSE) /\ Has(TRUE) -> Negated(TRUE)
       [] OTHER -> e

RECURSIVE Transform(_)
Transform(n) ==
  LET m == [n EXCEPT !.parts = [i \in DOMAIN n.parts |-> Transform(n.parts[i])]]
  IN CASE n.kind = "If" -> IfReturn(m)
       [] n.kind = "Binary" -> Compare(m)
       [] OTHER -> m

Migrated(program) == Transform(program)
=============================================================================
