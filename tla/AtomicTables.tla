---------------------------- MODULE AtomicTables ----------------------------
(***************************************************************************)
(* What a program can rely on when no other process uses its tables: every *)
(* db_* call takes effect at one moment between call and return.  The only *)
(* exceptions are a call that is interrupted, by a crash or by a full      *)
(* disk, which may lose the end of the table, and a table so damaged,      *)
(* which answers every call with an error.                                 *)
(***************************************************************************)
EXTENDS Tables

CONSTANTS Procs, NoCall

VARIABLES
  tables,     \* the rows of each table
  pending,    \* the call each process is in, or NoCall
  result      \* the result of its last one

vars == <<tables, pending, result>>

Init ==
  /\ tables = [t \in TableNames |-> <<>>]
  /\ pending = [p \in Procs |-> NoCall]
  /\ result = [p \in Procs |-> None]

Rows(p) == tables[pending[p].table]

Returns(p, r) ==
  /\ pending' = [pending EXCEPT ![p] = NoCall]
  /\ result' = [result EXCEPT ![p] = r]

Call(p, op) ==
  /\ pending[p] = NoCall
  /\ pending' = [pending EXCEPT ![p] = op]
  /\ UNCHANGED <<tables, result>>

Perform(p) ==
  /\ pending[p] # NoCall /\ ~Corrupt(Rows(p))
  /\ Returns(p, Answer(pending[p], Rows(p)))
  /\ IF Writes(pending[p], Rows(p))
     THEN tables' = [tables EXCEPT ![pending[p].table] = Apply(pending[p], @)]
     ELSE UNCHANGED tables

Reject(p) ==
  /\ pending[p] # NoCall /\ Corrupt(Rows(p))
  /\ Returns(p, Error)
  /\ UNCHANGED tables

Interrupt(p) ==
  /\ pending[p] # NoCall
  /\ Returns(p, Error)
  /\ \/ UNCHANGED tables
     \/ /\ ~Corrupt(Rows(p)) /\ Writes(pending[p], Rows(p))
        /\ \E left \in Partial(Apply(pending[p], Rows(p))) :
             tables' = [tables EXCEPT ![pending[p].table] = left]

Next ==
  \E p \in Procs :
    \/ \E op \in Operation : Call(p, op)
    \/ Perform(p)
    \/ Reject(p)
    \/ Interrupt(p)

Spec == Init /\ [][Next]_vars
=============================================================================
