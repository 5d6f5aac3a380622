------------------------------- MODULE Tables -------------------------------
(***************************************************************************)
(* What one db_* call does to the rows of one table: crates/runtime/src/   *)
(* db.rs without its file system.  A table is the sequence of its lines; a *)
(* line is a row or, after an interrupted or overlapping write, a fragment *)
(* that no longer parses.                                                  *)
(***************************************************************************)
EXTENDS Naturals, Sequences, FiniteSets

CONSTANTS
  TableNames,        \* tables the programs use (valid names only)
  Ids,               \* row ids
  Records,           \* what a row holds, opaque to the store
  Torn               \* a line that is not a row

Row == [id : Ids, record : Records]

Operation ==
       [kind : {"insert", "update"}, table : TableNames, id : Ids, record : Records]
  \cup [kind : {"get", "delete"}, table : TableNames, id : Ids]
  \cup [kind : {"list"}, table : TableNames]

Corrupt(lines) == \E i \in DOMAIN lines : lines[i] = Torn

RowOf(rows, id) == {i \in DOMAIN rows : rows[i].id = id}

(* Mutant of Writes: insert does not look for the id first.                 *)
WritesUnchecked(op, rows) ==
  \/ op.kind = "insert"
  \/ op.kind \in {"update", "delete"} /\ RowOf(rows, op.id) # {}

\* Does the call get as far as write_table?
Writes(op, rows) ==
  \/ op.kind = "insert" /\ RowOf(rows, op.id) = {}
  \/ op.kind \in {"update", "delete"} /\ RowOf(rows, op.id) # {}

First(S) == CHOOSE i \in S : \A j \in S : i <= j

\* The rows of another id, in their order: the k-th is the one that k of them
\* do not come after.
Without(rows, id) ==
  LET kept == DOMAIN rows \ RowOf(rows, id)
      Kth(k) == CHOOSE i \in kept : Cardinality({j \in kept : j <= i}) = k
  IN  [k \in 1..Cardinality(kept) |-> rows[Kth(k)]]

\* The rows it writes.
Apply(op, rows) ==
  CASE op.kind = "insert" -> Append(rows, [id |-> op.id, record |-> op.record])
    [] op.kind = "update" -> [rows EXCEPT ![First(RowOf(rows, op.id))].record = op.record]
    [] op.kind = "delete" -> Without(rows, op.id)

\* What a call returns: a Bool, an Option<String> or a List<String>.
Result(status, records) == [status |-> status, records |-> records]
None  == Result("none", <<>>)
Error == Result("error", <<>>)           \* a RuntimeError

Answer(op, rows) ==
  CASE op.kind = "get" ->
         IF RowOf(rows, op.id) = {} THEN None
         ELSE Result("some", <<rows[First(RowOf(rows, op.id))].record>>)
    [] op.kind = "list" -> Result("list", [i \in DOMAIN rows |-> rows[i].record])
    [] OTHER -> Result(IF Writes(op, rows) THEN "true" ELSE "false", <<>>)

\* What a write of rows can leave behind when it is cut short: some of the
\* lines, the last one perhaps not whole.
Partial(rows) ==
  LET firsts == {SubSeq(rows, 1, k) : k \in 0..Len(rows)}
  IN  firsts \cup {Append(s, Torn) : s \in firsts \ {rows}}

UniqueRows(lines) ==
  \A i, j \in DOMAIN lines :
    lines[i] # Torn /\ lines[j] # Torn /\ lines[i].id = lines[j].id => i = j
=============================================================================
