-------------------------------- MODULE Trees ---------------------------------
(***************************************************************************)
(* Every node of a tree is itself or a node of one of its parts.           *)
(***************************************************************************)
EXTENDS Syntax

RECURSIVE NodesOf(_)
NodesOf(n) == {n} \cup UNION {NodesOf(n.parts[i]) : i \in DOMAIN n.parts}
=============================================================================
