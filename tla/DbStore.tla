------------------------------ MODULE DbStore ------------------------------
(***************************************************************************)
(* The db stdlib module: tables in .aintdb/<table>.jsonl files that any    *)
(* number of AINT processes read and rewrite, without a lock.              *)
(*                                                                         *)
(* A call reads the whole file, then rewrites it with fs::write: it opens  *)
(* the file, which empties it, and then writes the new content.  Other     *)
(* processes run between these steps.  A missing file reads as an empty    *)
(* table, and is not told from one here.                                   *)
(***************************************************************************)
EXTENDS Tables

CONSTANTS
  Procs,             \* processes
  Uses,              \* Uses[p]: the tables p's program names
  NoCall,            \* no call in progress
  MaxCalls,          \* bound: calls of one process
  MaxFaults          \* bound: crashes and failed writes

ASSUME DbAssumptions ==
  /\ Uses \in [Procs -> SUBSET TableNames]
  /\ Torn \notin Row
  /\ NoCall \notin Operation
  /\ MaxCalls \in Nat /\ MaxFaults \in Nat

VARIABLES
  file,       \* the lines of each table's file
  pc,         \* "idle", "read", "open" or "write"
  call,       \* the operation in progress, or NoCall
  seen,       \* the rows it read
  result,     \* the result of the last one
  calls,      \* calls made so far
  faults      \* faults so far

dbVars == <<file, pc, call, seen, result, calls, faults>>

TableOf(p) == call[p].table

-----------------------------------------------------------------------------
Init ==
  /\ file = [t \in TableNames |-> <<>>]
  /\ pc = [p \in Procs |-> "idle"]
  /\ call = [p \in Procs |-> NoCall]
  /\ seen = [p \in Procs |-> <<>>]
  /\ result = [p \in Procs |-> None]
  /\ calls = [p \in Procs |-> 0]
  /\ faults = 0

Call(p, op) ==
  /\ pc[p] = "idle" /\ calls[p] < MaxCalls
  /\ op.table \in Uses[p]
  /\ pc' = [pc EXCEPT ![p] = "read"]
  /\ call' = [call EXCEPT ![p] = op]
  /\ calls' = [calls EXCEPT ![p] = @ + 1]
  /\ UNCHANGED <<file, seen, result, faults>>

Returns(p, r) ==
  /\ pc' = [pc EXCEPT ![p] = "idle"]
  /\ call' = [call EXCEPT ![p] = NoCall]
  /\ seen' = [seen EXCEPT ![p] = <<>>]
  /\ result' = [result EXCEPT ![p] = r]

ReadTable(p) ==
  /\ pc[p] = "read"
  /\ LET lines == file[TableOf(p)] IN
     IF Corrupt(lines) THEN Returns(p, Error)
     ELSE IF ~Writes(call[p], lines) THEN Returns(p, Answer(call[p], lines))
     ELSE /\ pc' = [pc EXCEPT ![p] = "open"]
          /\ seen' = [seen EXCEPT ![p] = lines]
          /\ UNCHANGED <<call, result>>
  /\ UNCHANGED <<file, calls, faults>>

(* Mutant of OpenForWriting: the file keeps its old content.                *)
OpenKeeping(p) ==
  /\ pc[p] = "open"
  /\ pc' = [pc EXCEPT ![p] = "write"]
  /\ UNCHANGED <<file, call, seen, result, calls, faults>>

OpenForWriting(p) ==
  /\ pc[p] = "open"
  /\ file' = [file EXCEPT ![TableOf(p)] = <<>>]
  /\ pc' = [pc EXCEPT ![p] = "write"]
  /\ UNCHANGED <<call, seen, result, calls, faults>>

\* What the file holds after lines are written from its start over old ones.
\* Lines differ in width: what is left of the old ones is any suffix, perhaps
\* with a fragment before it.
Overlay(old, lines) ==
  IF old = <<>> \/ lines = <<>> THEN {lines \o old}
  ELSE {lines \o cut \o SubSeq(old, k, Len(old)) : cut \in {<<>>, <<Torn>>}, k \in 2..Len(old) + 1}

WriteRows(p) ==
  /\ pc[p] = "write"
  /\ \E lines \in Overlay(file[TableOf(p)], Apply(call[p], seen[p])) :
       file' = [file EXCEPT ![TableOf(p)] = lines]
  /\ Returns(p, Answer(call[p], seen[p]))
  /\ UNCHANGED <<calls, faults>>

\* The process dies, or fs::write fails, before or amid a write.
Fault(p) ==
  /\ pc[p] # "idle" /\ faults < MaxFaults
  /\ faults' = faults + 1
  /\ Returns(p, Error)
  /\ IF pc[p] = "write"
     THEN \E part \in Partial(Apply(call[p], seen[p])) :
          \E lines \in Overlay(file[TableOf(p)], part) :
            file' = [file EXCEPT ![TableOf(p)] = lines]
     ELSE UNCHANGED file
  /\ UNCHANGED calls

Step(p) ==
  \/ ReadTable(p)
  \/ OpenForWriting(p)
  \/ WriteRows(p)

\* Every process has made its last call.
AtRest ==
  /\ \A p \in Procs : pc[p] = "idle" /\ calls[p] = MaxCalls
  /\ UNCHANGED dbVars

Next ==
  \/ \E p \in Procs :
       \/ \E op \in Operation : Call(p, op)
       \/ Step(p)
       \/ Fault(p)
  \/ AtRest

Spec == Init /\ [][Next]_dbVars

-----------------------------------------------------------------------------
(* Properties *)

(* No two rows of a table have the same id, crashes and failed writes       *)
(* included: db_insert is an insert, never an upsert.  (Processes use       *)
(* disjoint tables.)                                                        *)
UniqueIds == \A t \in TableNames : UniqueRows(file[t])

\* While a call rewrites a table, the table still is what the call read.
Committed(t) ==
  IF \E p \in Procs : pc[p] = "write" /\ TableOf(p) = t
  THEN seen[CHOOSE p \in Procs : pc[p] = "write" /\ TableOf(p) = t]
  ELSE file[t]

AT == INSTANCE AtomicTables WITH
        tables  <- [t \in TableNames |-> Committed(t)],
        pending <- call

(* Processes that use disjoint tables see every call of theirs as atomic.   *)
ImplementsAtomicTables == AT!Spec
=============================================================================
