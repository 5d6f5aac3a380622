---------------------------- MODULE StoreProofs ----------------------------
(***************************************************************************)
(* Theorems about DbStore and CustomerSupport.                             *)
(*                                                                         *)
(* Part 1, DbStore: as long as no two processes use the same table,        *)
(* rewriting a whole file without a lock is as good as an atomic           *)
(* operation, and a table never holds two rows of one id, whatever crashes *)
(* and failed writes there were.                                           *)
(*                                                                         *)
(* Part 2, CustomerSupport: what a reader of the tables can count on       *)
(* although server and worker overwrite each other's jobs, for any number  *)
(* of tickets, runs of the worker and faults.  Nothing in it is about      *)
(* whole tables, which races and faults can spoil: every fact is about     *)
(* single rows, and survives any mixture of the lines of two writes.       *)
(***************************************************************************)
EXTENDS CustomerSupport, FunctionTheorems, FiniteSetTheorems, SequenceTheorems,
        NaturalsInduction, WellFoundedInduction, TLAPS

Line == Row \cup {Torn}

\* What milestone 25 asks of the programs that share a database directory.
DisjointTables == \A p, q \in Procs : p # q => Uses[p] \cap Uses[q] = {}

-----------------------------------------------------------------------------
(* One call on one table *)

(* The positions of a finite set of numbers are counted without a gap: for  *)
(* each k up to its size there is one element that is the k-th.             *)
LEMMA KthExists ==
  ASSUME NEW n \in Nat, NEW S \in SUBSET (1..n)
  PROVE  /\ Cardinality(S) \in Nat
         /\ \A k \in 1..Cardinality(S) : \E i \in S : Cardinality({j \in S : j <= i}) = k
  <1> DEFINE Upto(i) == {j \in S : j <= i}
             c == Cardinality(S)
             rank == [i \in S |-> Cardinality(Upto(i))]
  <1>1. IsFiniteSet(1..n) /\ IsFiniteSet(S) /\ c \in Nat
    <2>1. IsFiniteSet(1..n)
      BY FS_Interval
    <2> QED  BY <2>1, FS_Subset, FS_CardinalityType
  <1>2. ASSUME NEW i \in S PROVE /\ IsFiniteSet(Upto(i)) /\ Cardinality(Upto(i)) \in 1..c
    <2>1. Upto(i) \subseteq S
      OBVIOUS
    <2>2. IsFiniteSet(Upto(i)) /\ Cardinality(Upto(i)) \in Nat /\ Cardinality(Upto(i)) <= c
      BY <1>1, <2>1, FS_Subset, FS_CardinalityType
    <2>3. i \in Upto(i)
      OBVIOUS
    <2>4. Cardinality(Upto(i)) # 0
      BY <2>2, <2>3, FS_EmptySet
    <2> QED  BY <1>1, <2>2, <2>4
  <1>3. rank \in [S -> 1..c]
    BY <1>2
  <1>4. ASSUME NEW i \in S, NEW j \in S, i < j PROVE rank[i] # rank[j]
    <2>1. Upto(i) \subseteq Upto(j) /\ j \in Upto(j) /\ j \notin Upto(i)
      <3>1. \A k \in S : k \in Int
        OBVIOUS
      <3>2. \A k \in S : k <= i => k <= j
        BY <1>4, <3>1
      <3>3. j <= j /\ ~(j <= i)
        BY <1>4, <3>1
      <3> QED  BY <3>2, <3>3
    <2>2. Cardinality(Upto(i)) < Cardinality(Upto(j))
      <3>1. Upto(i) # Upto(j)
        BY <2>1
      <3>2. Upto(i) \in SUBSET Upto(j) /\ IsFiniteSet(Upto(j))
        BY <1>2, <2>1
      <3> HIDE DEF Upto
      <3>3. Cardinality(Upto(i)) <= Cardinality(Upto(j))
            /\ (Cardinality(Upto(j)) = Cardinality(Upto(i)) => Upto(j) = Upto(i))
        BY <3>2, FS_Subset
      <3> QED  BY <1>1, <1>2, <3>1, <3>3
    <2> QED  BY <1>2, <2>2
  <1>5. \A i, j \in S : i # j => rank[i] # rank[j]
    <2>1. \A i, j \in S : i # j => i < j \/ j < i
      OBVIOUS
    <2> QED  BY <1>4, <2>1
  <1> HIDE DEF rank
  <1>6. rank \in Injection(S, 1..c)
    BY <1>3, <1>5 DEF Injection, IsInjective
  <1>7. IsFiniteSet(1..c) /\ Cardinality(1..c) = c
    BY <1>1, FS_Interval
  <1>8. rank \in Surjection(S, 1..c)
    BY <1>6, <1>7, FS_Injection
  <1>9. \A k \in 1..c : \E i \in S : rank[i] = k
    BY <1>8 DEF Surjection
  <1> QED  BY <1>1, <1>9 DEF rank

(* Deleting an id gives rows of the table, no two from the same position.   *)
LEMMA WithoutIs ==
  ASSUME NEW rows \in Seq(Row), NEW id
  PROVE  /\ Without(rows, id) \in Seq(Row)
         /\ UniqueRows(rows) => UniqueRows(Without(rows, id))
  <1> DEFINE kept == DOMAIN rows \ RowOf(rows, id)
             Kth(k) == CHOOSE i \in kept : Cardinality({j \in kept : j <= i}) = k
             left == Without(rows, id)
  <1>1. DOMAIN rows = 1..Len(rows) /\ Len(rows) \in Nat
    BY LenProperties
  <1>2. kept \in SUBSET (1..Len(rows))
    BY <1>1
  <1>3. left = [k \in 1..Cardinality(kept) |-> rows[Kth(k)]]
    BY Zenon DEF Without
  <1> HIDE DEF kept, left
  <1>4. Cardinality(kept) \in Nat
    BY <1>1, <1>2, KthExists
  <1>5. ASSUME NEW k \in 1..Cardinality(kept)
        PROVE  Kth(k) \in kept /\ Cardinality({j \in kept : j <= Kth(k)}) = k
    <2>1. \E i \in kept : Cardinality({j \in kept : j <= i}) = k
      BY <1>1, <1>2, KthExists
    <2> QED  BY <2>1
  <1> HIDE DEF Kth
  <1>6. \A k \in 1..Cardinality(kept) : Kth(k) \in 1..Len(rows) /\ rows[Kth(k)] \in Row
    BY <1>1, <1>2, <1>5, ElementOfSeq
  <1>7. left \in [1..Cardinality(kept) -> Row]
    BY <1>3, <1>6
  <1>8. left \in Seq(Row)
    BY <1>4, <1>7
  <1>9. ASSUME UniqueRows(rows), NEW k \in DOMAIN left, NEW m \in DOMAIN left,
               left[k] # Torn, left[m] # Torn, left[k].id = left[m].id
        PROVE  k = m
    <2>1. k \in 1..Cardinality(kept) /\ m \in 1..Cardinality(kept)
      BY <1>3, <1>9
    <2>2. left[k] = rows[Kth(k)] /\ left[m] = rows[Kth(m)]
      BY <1>3, <2>1
    <2>3. Kth(k) = Kth(m)
      BY <1>1, <1>6, <1>9, <2>1, <2>2 DEF UniqueRows
    <2> QED  BY <1>5, <2>1, <2>3
  <1> QED  BY <1>8, <1>9 DEF left, UniqueRows

(* A table without fragments is a sequence of rows.                         *)
LEMMA WholeRows ==
  ASSUME NEW lines \in Seq(Line), ~Corrupt(lines)
  PROVE  lines \in Seq(Row)
  <1>1. lines \in [1..Len(lines) -> Line] /\ Len(lines) \in Nat /\ DOMAIN lines = 1..Len(lines)
    BY LenProperties
  <1>2. \A i \in 1..Len(lines) : lines[i] \in Row
    BY <1>1 DEF Corrupt, Line
  <1>3. lines \in [1..Len(lines) -> Row]
    BY <1>1, <1>2
  <1> QED  BY <1>1, <1>3

(* The first row found is one of those found.                               *)
LEMMA FirstIsIn ==
  ASSUME NEW rows \in Seq(Row), NEW id, RowOf(rows, id) # {}
  PROVE  /\ First(RowOf(rows, id)) \in 1..Len(rows)
         /\ rows[First(RowOf(rows, id))].id = id
  <1> DEFINE S == RowOf(rows, id)
  <1>1. S \subseteq 1..Len(rows) /\ \A i \in S : rows[i].id = id
    BY LenProperties DEF RowOf
  <1> HIDE DEF S
  <1>2. S \subseteq Nat
    BY <1>1
  <1>3. PICK x \in S : \A y \in S : x <= y
    <2> DEFINE R == OpToRel(<, Nat)
    <2>1. S # {} /\ IsWellFoundedOn(R, Nat)
      BY NatLessThanWellFounded, Zenon DEF S
    <2>2. \A x, y \in Nat : y < x <=> <<y, x>> \in R
      BY DEF OpToRel
    <2> HIDE DEF R
    <2>3. PICK x \in S : \A y \in S : ~(<<y, x>> \in R)
      BY <1>2, <2>1, WFMin
    <2>4. \A y \in S : ~(y < x)
      BY <1>2, <2>2, <2>3
    <2>5. \A y \in S : x <= y
      BY <1>2, <2>3, <2>4
    <2> QED  BY <2>3, <2>5
  <1>4. First(S) \in S
    BY <1>3 DEF First
  <1> QED  BY <1>1, <1>4 DEF S
(* What a call writes are rows, one for each id if those it read were.      *)
LEMMA ApplyIs ==
  ASSUME NEW op \in Operation, NEW rows \in Seq(Row), Writes(op, rows)
  PROVE  /\ Apply(op, rows) \in Seq(Row)
         /\ UniqueRows(rows) => UniqueRows(Apply(op, rows))
  <1>1. DOMAIN rows = 1..Len(rows) /\ Len(rows) \in Nat
        /\ \A i \in 1..Len(rows) : rows[i] \in Row
    BY LenProperties, ElementOfSeq
  <1>2. op.kind \in {"insert", "update", "delete"}
    BY DEF Writes
  <1>3. CASE op.kind = "insert"
    <2> DEFINE row == [id |-> op.id, record |-> op.record]
               new == Append(rows, row)
    <2>1. op.id \in Ids /\ op.record \in Records
      BY <1>3 DEF Operation
    <2>2. row \in Row
      BY <2>1 DEF Row
    <2>3. Apply(op, rows) = new
      BY <1>3 DEF Apply
    <2>4. row.id = op.id
      OBVIOUS
    <2> HIDE DEF row
    <2>5. /\ new \in Seq(Row) /\ DOMAIN new = 1..(Len(rows) + 1)
          /\ \A i \in 1..Len(rows) : new[i] = rows[i]
          /\ new[Len(rows) + 1] = row
      BY <1>1, <2>2, AppendProperties, LenProperties
    <2>6. \A i \in 1..Len(rows) : rows[i].id # op.id
      BY <1>1, <1>3 DEF Writes, RowOf
    <2> HIDE DEF new
    <2>7. ASSUME UniqueRows(rows) PROVE UniqueRows(new)
      <3> SUFFICES ASSUME NEW i \in 1..(Len(rows) + 1), NEW j \in 1..(Len(rows) + 1),
                          new[i] # Torn, new[j] # Torn, new[i].id = new[j].id
                   PROVE  i = j
        BY <2>5 DEF UniqueRows
      <3>1. CASE i \in 1..Len(rows) /\ j \in 1..Len(rows)
        BY <1>1, <2>5, <2>7, <3>1 DEF UniqueRows
      <3>2. CASE i = Len(rows) + 1 /\ j \in 1..Len(rows)
        BY <2>4, <2>5, <2>6, <3>2
      <3>3. CASE i \in 1..Len(rows) /\ j = Len(rows) + 1
        BY <2>4, <2>5, <2>6, <3>3
      <3> QED  BY <1>1, <3>1, <3>2, <3>3
    <2> QED  BY <2>3, <2>5, <2>7
  <1>4. CASE op.kind = "update"
    <2> DEFINE k == First(RowOf(rows, op.id))
               row == [rows[k] EXCEPT !.record = op.record]
               new == [rows EXCEPT ![k] = row]
    <2>1. k \in 1..Len(rows) /\ rows[k].id = op.id
      BY <1>4, FirstIsIn DEF Writes
    <2>2. Apply(op, rows) = new
      BY <1>4, Zenon DEF Apply
    <2>3. op.record \in Records
      BY <1>4 DEF Operation
    <2> HIDE DEF k
    <2>4. row \in Row /\ row.id = rows[k].id
      BY <1>1, <2>1, <2>3 DEF Row
    <2> HIDE DEF row
    <2>5. new \in Seq(Row) /\ DOMAIN new = 1..Len(rows)
          /\ \A j \in 1..Len(rows) : new[j] = IF j = k THEN row ELSE rows[j]
      BY <1>1, <2>1, <2>4, ExceptSeq
    <2> HIDE DEF new
    <2>6. \A j \in 1..Len(rows) : new[j].id = rows[j].id
      BY <2>4, <2>5
    <2>7. \A j \in 1..Len(rows) : rows[j] # Torn
      BY <1>1, DbAssumptions
    <2>8. UniqueRows(rows) => UniqueRows(new)
      BY <1>1, <2>5, <2>6, <2>7 DEF UniqueRows
    <2> QED  BY <2>2, <2>5, <2>8
  <1>5. CASE op.kind = "delete"
    BY <1>5, WithoutIs DEF Apply
  <1> QED  BY <1>2, <1>3, <1>4, <1>5

(* A write that is cut short leaves no two rows of one id either.           *)
LEMMA PartialIs ==
  ASSUME NEW rows \in Seq(Row), NEW part \in Partial(rows)
  PROVE  /\ part \in Seq(Line)
         /\ UniqueRows(rows) => UniqueRows(part)
  <1>1. DOMAIN rows = 1..Len(rows) /\ Len(rows) \in Nat
        /\ \A i \in 1..Len(rows) : rows[i] \in Line
    BY LenProperties, ElementOfSeq DEF Line
  <1>2. PICK k \in 0..Len(rows) : \/ part = SubSeq(rows, 1, k)
                                  \/ part = Append(SubSeq(rows, 1, k), Torn)
    BY DEF Partial
  <1> DEFINE s == SubSeq(rows, 1, k)
  <1>3. s \in Seq(Line) /\ Len(s) = k /\ \A i \in 1..k : s[i] = rows[i]
    <2>1. k \in Nat /\ \A i \in 1..k : rows[i] \in Line
      BY <1>1
    <2> QED  BY <2>1, SubSeqProperties
  <1>4. DOMAIN s = 1..k
    BY <1>3, LenProperties
  <1> HIDE DEF s
  <1>5. CASE part = s
    BY <1>1, <1>3, <1>4, <1>5 DEF UniqueRows
  <1>6. CASE part = Append(s, Torn)
    <2>1. Torn \in Line
      BY DEF Line
    <2>2. part \in Seq(Line) /\ DOMAIN part = 1..(k + 1) /\ part[k + 1] = Torn
          /\ \A i \in 1..k : part[i] = s[i]
      BY <1>3, <1>6, <2>1, AppendProperties, LenProperties
    <2>3. \A i \in 1..(k + 1) : part[i] # Torn => i \in 1..k /\ part[i] = rows[i]
      BY <1>3, <2>2
    <2> QED  BY <1>1, <2>2, <2>3 DEF UniqueRows
  <1> QED  BY <1>2, <1>5, <1>6 DEF s

(* Over an emptied file a write leaves what it writes.                      *)
LEMMA OverlayEmpty ==
  ASSUME NEW lines \in Seq(Line)
  PROVE  Overlay(<<>>, lines) = {lines}
  BY ConcatEmptySeq DEF Overlay

-----------------------------------------------------------------------------
(* The inductive invariant *)

Typed ==
  /\ file \in [TableNames -> Seq(Line)]
  /\ pc \in [Procs -> {"idle", "read", "open", "write"}]
  /\ call \in [Procs -> Operation \cup {NoCall}]
  /\ seen \in [Procs -> Seq(Line)]
  /\ DOMAIN result = Procs

\* A process is in a call exactly when it is not idle, on a table of its own.
InCall(p) ==
  /\ pc[p] = "idle" <=> call[p] = NoCall
  /\ pc[p] # "idle" => call[p] \in Operation /\ TableOf(p) \in Uses[p]

\* What a process is about to write rests on what its table holds, or held
\* until the process emptied it.
Rewriting(p) ==
  /\ pc[p] \in {"open", "write"} => ~Corrupt(seen[p]) /\ Writes(call[p], seen[p])
  /\ pc[p] = "open" => seen[p] = file[TableOf(p)]
  /\ pc[p] = "write" => file[TableOf(p)] = <<>>

IInv == Typed /\ \A p \in Procs : InCall(p) /\ Rewriting(p)

(* An operation is on a table and is not NoCall.                            *)
LEMMA OperationIs == \A op \in Operation : op.table \in TableNames /\ op # NoCall
  BY DbAssumptions DEF Operation

(* While a process is in a call, no other process is on its table.          *)
LEMMA Alone ==
  ASSUME DisjointTables, IInv, NEW p \in Procs, NEW q \in Procs, p # q,
         pc[p] # "idle", pc[q] # "idle"
  PROVE  TableOf(p) # TableOf(q)
  BY DEF DisjointTables, IInv, InCall

(* What is to be written are rows of the table it is written to.            *)
LEMMA WrittenIs ==
  ASSUME IInv, NEW p \in Procs, pc[p] = "write"
  PROVE  /\ call[p] \in Operation /\ TableOf(p) \in TableNames
         /\ seen[p] \in Seq(Row) /\ Writes(call[p], seen[p]) /\ ~Corrupt(seen[p])
         /\ file[TableOf(p)] = <<>>
  <1>1. InCall(p) /\ Rewriting(p) /\ seen[p] \in Seq(Line)
    BY DEF IInv, Typed
  <1>2. call[p] \in Operation /\ ~Corrupt(seen[p])
    BY <1>1 DEF InCall, Rewriting
  <1>3. seen[p] \in Seq(Row)
    BY <1>1, <1>2, WholeRows
  <1> QED  BY <1>1, <1>2, <1>3, OperationIs DEF Rewriting, TableOf

\* A step of p, seen from the other processes and from other tables.
StepOf(p) ==
  /\ \A q \in Procs \ {p} : pc'[q] = pc[q] /\ call'[q] = call[q] /\ seen'[q] = seen[q]
  /\ \A t \in TableNames : (pc[p] = "idle" \/ t # TableOf(p)) => file'[t] = file[t]

(* The outcomes of a write leave the table with lines of its own.           *)
LEMMA WritesLines ==
  ASSUME IInv, NEW p \in Procs, pc[p] = "write"
  PROVE  /\ Apply(call[p], seen[p]) \in Seq(Row)
         /\ Overlay(file[TableOf(p)], Apply(call[p], seen[p])) = {Apply(call[p], seen[p])}
         /\ \A part \in Partial(Apply(call[p], seen[p])) :
              part \in Seq(Line) /\ Overlay(file[TableOf(p)], part) = {part}
  <1> DEFINE new == Apply(call[p], seen[p])
  <1>1. new \in Seq(Row)
    BY WrittenIs, ApplyIs
  <1>2. file[TableOf(p)] = <<>>
    BY WrittenIs
  <1> HIDE DEF new
  <1>3. new \in Seq(Line)
    BY <1>1, SeqMonotonic DEF Line
  <1>4. \A part \in Partial(new) : part \in Seq(Line)
    BY <1>1, PartialIs
  <1> QED  BY <1>1, <1>2, <1>3, <1>4, OverlayEmpty, Zenon DEF new

(* A step of p that keeps its own part of the invariant keeps the others'.  *)
LEMMA OthersKeep ==
  ASSUME DisjointTables, IInv, Typed', NEW p \in Procs, StepOf(p),
         InCall(p)', Rewriting(p)'
  PROVE  IInv'
  <1> SUFFICES ASSUME NEW q \in Procs, q # p PROVE InCall(q)' /\ Rewriting(q)'
    BY DEF IInv
  <1>1. pc'[q] = pc[q] /\ call'[q] = call[q] /\ seen'[q] = seen[q]
    BY DEF StepOf
  <1>2. InCall(q) /\ Rewriting(q)
    BY DEF IInv
  <1>3. InCall(q)'
    BY <1>1, <1>2 DEF InCall, TableOf
  <1>4. pc[q] # "idle" => file'[TableOf(q)] = file[TableOf(q)]
    <2> SUFFICES ASSUME pc[q] # "idle" PROVE file'[TableOf(q)] = file[TableOf(q)]
      OBVIOUS
    <2>1. TableOf(q) \in TableNames
      BY <1>2, OperationIs DEF InCall, TableOf
    <2>2. pc[p] = "idle" \/ TableOf(q) # TableOf(p)
      BY Alone
    <2> QED  BY <2>1, <2>2 DEF StepOf
  <1>5. Rewriting(q)'
    BY <1>1, <1>2, <1>4 DEF Rewriting, TableOf
  <1> QED  BY <1>3, <1>5

(* A call begins, and nothing is read yet.                                  *)
LEMMA CallKeeps ==
  ASSUME DisjointTables, IInv, NEW p \in Procs, NEW op \in Operation, Call(p, op)
  PROVE  IInv'
  <1>1. Typed'
    BY DEF IInv, Typed, Call
  <1>2. pc'[p] = "read" /\ call'[p] = op /\ StepOf(p)
    BY DEF IInv, Typed, Call, StepOf
  <1>3. InCall(p)' /\ Rewriting(p)'
    BY <1>2, OperationIs DEF Call, InCall, Rewriting, TableOf
  <1> QED  BY <1>1, <1>2, <1>3, OthersKeep

(* A call returns.                                                          *)
LEMMA ReturnKeeps ==
  ASSUME DisjointTables, IInv, NEW p \in Procs, NEW r, pc[p] # "idle", Returns(p, r),
         file' \in [TableNames -> Seq(Line)],
         \A t \in TableNames \ {TableOf(p)} : file'[t] = file[t]
  PROVE  IInv'
  <1>1. Typed'
    BY EmptySeq DEF IInv, Typed, Returns
  <1>2. pc'[p] = "idle" /\ call'[p] = NoCall
    BY DEF IInv, Typed, Returns
  <1>3. StepOf(p)
    BY DEF IInv, Typed, Returns, StepOf
  <1>4. InCall(p)' /\ Rewriting(p)'
    BY <1>2 DEF InCall, Rewriting
  <1> QED  BY <1>1, <1>3, <1>4, OthersKeep

(* A call reads its table.                                                  *)
LEMMA ReadKeeps ==
  ASSUME DisjointTables, IInv, NEW p \in Procs, ReadTable(p)
  PROVE  IInv'
  <1>1. pc[p] = "read" /\ file' = file /\ file \in [TableNames -> Seq(Line)]
    BY DEF ReadTable, IInv, Typed
  <1>2. InCall(p) /\ call[p] \in Operation /\ TableOf(p) \in TableNames
    BY <1>1, OperationIs DEF IInv, InCall, TableOf
  <1>3. ASSUME NEW r, Returns(p, r) PROVE IInv'
    BY <1>1, <1>3, ReturnKeeps
  <1>4. CASE Corrupt(file[TableOf(p)]) \/ ~Writes(call[p], file[TableOf(p)])
    BY <1>3, <1>4 DEF ReadTable
  <1>5. CASE ~Corrupt(file[TableOf(p)]) /\ Writes(call[p], file[TableOf(p)])
    <2>1. /\ pc' = [pc EXCEPT ![p] = "open"]
          /\ seen' = [seen EXCEPT ![p] = file[TableOf(p)]]
          /\ call' = call /\ result' = result
      BY <1>5 DEF ReadTable
    <2>2. Typed'
      BY <1>1, <1>2, <2>1 DEF IInv, Typed
    <2>3. pc'[p] = "open" /\ seen'[p] = file[TableOf(p)] /\ StepOf(p)
      BY <1>1, <2>1 DEF IInv, Typed, StepOf
    <2>4. InCall(p)' /\ Rewriting(p)'
      BY <1>1, <1>2, <1>5, <2>1, <2>3 DEF InCall, Rewriting, TableOf
    <2> QED  BY <2>2, <2>3, <2>4, OthersKeep
  <1> QED  BY <1>4, <1>5

(* A call empties its table.                                                *)
LEMMA OpenKeeps ==
  ASSUME DisjointTables, IInv, NEW p \in Procs, OpenForWriting(p)
  PROVE  IInv'
  <1>1. InCall(p) /\ Rewriting(p) /\ pc[p] = "open" /\ TableOf(p) \in TableNames
    BY OperationIs DEF OpenForWriting, IInv, InCall, TableOf
  <1>2. Typed'
    BY EmptySeq DEF IInv, Typed, OpenForWriting
  <1>3. pc'[p] = "write" /\ file'[TableOf(p)] = <<>> /\ StepOf(p)
    BY <1>1 DEF IInv, Typed, OpenForWriting, StepOf
  <1>4. InCall(p)' /\ Rewriting(p)'
    BY <1>1, <1>3 DEF OpenForWriting, InCall, Rewriting, TableOf
  <1> QED  BY <1>2, <1>3, <1>4, OthersKeep

(* A call writes its rows.                                                  *)
LEMMA WriteKeeps ==
  ASSUME DisjointTables, IInv, NEW p \in Procs, WriteRows(p)
  PROVE  /\ IInv'
         /\ file' = [file EXCEPT ![TableOf(p)] = Apply(call[p], seen[p])]
  <1>1. pc[p] = "write"
    BY DEF WriteRows
  <1> DEFINE new == Apply(call[p], seen[p])
  <1>2. file' = [file EXCEPT ![TableOf(p)] = new]
    BY <1>1, WritesLines DEF WriteRows
  <1>3. new \in Seq(Line)
    BY <1>1, WritesLines, SeqMonotonic DEF Line
  <1> HIDE DEF new
  <1>4. /\ file' \in [TableNames -> Seq(Line)]
        /\ \A t \in TableNames \ {TableOf(p)} : file'[t] = file[t]
    BY <1>2, <1>3 DEF IInv, Typed
  <1>5. Returns(p, Answer(call[p], seen[p]))
    BY DEF WriteRows
  <1> QED  BY <1>1, <1>2, <1>4, <1>5, ReturnKeeps DEF new

(* A call is interrupted, perhaps amid a write.                             *)
LEMMA FaultKeeps ==
  ASSUME DisjointTables, IInv, NEW p \in Procs, Fault(p)
  PROVE  /\ IInv'
         /\ \/ file' = file /\ pc[p] # "write"
            \/ /\ pc[p] = "write"
               /\ \E part \in Partial(Apply(call[p], seen[p])) :
                    file' = [file EXCEPT ![TableOf(p)] = part]
  <1>1. Returns(p, Error) /\ pc[p] # "idle" /\ file \in [TableNames -> Seq(Line)]
    BY DEF Fault, IInv, Typed
  <1>2. CASE pc[p] # "write"
    <2>1. file' = file
      BY <1>2 DEF Fault
    <2> QED  BY <1>1, <1>2, <2>1, ReturnKeeps
  <1>3. CASE pc[p] = "write"
    <2>1. PICK part \in Partial(Apply(call[p], seen[p])) :
               file' = [file EXCEPT ![TableOf(p)] = part]
      <3>1. PICK part \in Partial(Apply(call[p], seen[p])) :
                 \E lines \in Overlay(file[TableOf(p)], part) :
                   file' = [file EXCEPT ![TableOf(p)] = lines]
        BY <1>3 DEF Fault
      <3>2. Overlay(file[TableOf(p)], part) = {part}
        BY <1>3, WritesLines
      <3> QED  BY <3>1, <3>2
    <2>2. part \in Seq(Line)
      BY <1>3, WritesLines
    <2>3. /\ file' \in [TableNames -> Seq(Line)]
          /\ \A t \in TableNames \ {TableOf(p)} : file'[t] = file[t]
      BY <1>1, <2>1, <2>2
    <2>4. IInv'
      BY <1>1, <2>3, ReturnKeeps
    <2> QED  BY <1>3, <2>1, <2>4
  <1> QED  BY <1>2, <1>3

LEMMA InitIInv == Init => IInv
  <1> SUFFICES ASSUME Init PROVE IInv
    OBVIOUS
  <1>1. Typed
    BY EmptySeq DEF Init, Typed
  <1>2. \A p \in Procs : InCall(p) /\ Rewriting(p)
    BY DEF Init, InCall, Rewriting
  <1> QED  BY <1>1, <1>2 DEF IInv

LEMMA NextIInv ==
  ASSUME DisjointTables, IInv, [Next]_dbVars
  PROVE  IInv'
  <1>1. ASSUME NEW p \in Procs, NEW op \in Operation, Call(p, op) PROVE IInv'
    BY <1>1, CallKeeps
  <1>2. ASSUME NEW p \in Procs, Step(p) PROVE IInv'
    BY <1>2, ReadKeeps, OpenKeeps, WriteKeeps DEF Step
  <1>3. ASSUME NEW p \in Procs, Fault(p) PROVE IInv'
    BY <1>3, FaultKeeps
  <1>4. CASE UNCHANGED dbVars
    <2>1. Typed'
      BY <1>4 DEF dbVars, IInv, Typed
    <2>2. ASSUME NEW p \in Procs PROVE InCall(p)' /\ Rewriting(p)'
      <3>1. InCall(p) /\ Rewriting(p)
        BY DEF IInv
      <3> QED  BY <1>4, <3>1 DEF dbVars, InCall, Rewriting, TableOf
    <2> QED  BY <2>1, <2>2 DEF IInv
  <1> QED  BY <1>1, <1>2, <1>3, <1>4 DEF Next, AtRest

-----------------------------------------------------------------------------
(* No two rows of one id *)

\* The rows a process has read are the ones its next write rests on.
UniqueSeen == \A p \in Procs : UniqueRows(seen[p])

LEMMA UniqueEmpty == UniqueRows(<<>>)
  BY DEF UniqueRows

(* A process that leaves its table alone, or puts unique rows there, and    *)
(* forgets what it read or has read unique rows, keeps all rows unique.     *)
LEMMA UniqueKept ==
  ASSUME IInv, UniqueIds, UniqueSeen, NEW p \in Procs, NEW r, Returns(p, r),
         \/ file' = file
         \/ \E lines : UniqueRows(lines) /\ file' = [file EXCEPT ![TableOf(p)] = lines]
  PROVE  UniqueIds' /\ UniqueSeen'
  <1>1. UniqueSeen'
    BY UniqueEmpty DEF Returns, UniqueSeen, IInv, Typed
  <1>2. UniqueIds'
    BY DEF UniqueIds, IInv, Typed
  <1> QED  BY <1>1, <1>2

LEMMA NextUnique ==
  ASSUME DisjointTables, IInv, UniqueIds, UniqueSeen, [Next]_dbVars
  PROVE  UniqueIds' /\ UniqueSeen'
  <1>1. ASSUME NEW p \in Procs, NEW op \in Operation, Call(p, op)
        PROVE  UniqueIds' /\ UniqueSeen'
    BY <1>1 DEF Call, UniqueIds, UniqueSeen
  <1>2. ASSUME NEW p \in Procs, ReadTable(p) PROVE UniqueIds' /\ UniqueSeen'
    <2>1. file' = file
      BY <1>2 DEF ReadTable
    <2>2. CASE \E r : Returns(p, r)
      BY <2>1, <2>2, UniqueKept
    <2>3. CASE seen' = [seen EXCEPT ![p] = file[TableOf(p)]]
      <3>1. TableOf(p) \in TableNames
        BY <1>2, OperationIs DEF ReadTable, IInv, InCall, TableOf
      <3> QED  BY <2>1, <2>3, <3>1 DEF UniqueIds, UniqueSeen, IInv, Typed
    <2> QED  BY <1>2, <2>2, <2>3 DEF ReadTable
  <1>3. ASSUME NEW p \in Procs, OpenForWriting(p) PROVE UniqueIds' /\ UniqueSeen'
    BY <1>3, UniqueEmpty DEF OpenForWriting, UniqueIds, UniqueSeen, IInv, Typed
  <1>4. ASSUME NEW p \in Procs, WriteRows(p) PROVE UniqueIds' /\ UniqueSeen'
    <2>1. pc[p] = "write" /\ UniqueRows(seen[p])
      BY <1>4 DEF WriteRows, UniqueSeen
    <2>2. UniqueRows(Apply(call[p], seen[p]))
      BY <2>1, WrittenIs, ApplyIs
    <2>3. \E r : Returns(p, r)
      BY <1>4 DEF WriteRows
    <2> QED  BY <1>4, <2>2, <2>3, WriteKeeps, UniqueKept
  <1>5. ASSUME NEW p \in Procs, Fault(p) PROVE UniqueIds' /\ UniqueSeen'
    <2>1. Returns(p, Error)
      BY <1>5 DEF Fault
    <2>2. CASE file' = file
      BY <2>1, <2>2, UniqueKept
    <2>3. ASSUME pc[p] = "write", NEW part \in Partial(Apply(call[p], seen[p])),
                 file' = [file EXCEPT ![TableOf(p)] = part]
          PROVE  UniqueIds' /\ UniqueSeen'
      <3>1. UniqueRows(seen[p])
        BY DEF UniqueSeen
      <3>2. UniqueRows(part)
        BY <2>3, <3>1, WrittenIs, ApplyIs, PartialIs
      <3> QED  BY <2>1, <2>3, <3>2, UniqueKept
    <2> QED  BY <1>5, <2>2, <2>3, FaultKeeps
  <1>6. CASE UNCHANGED dbVars
    BY <1>6 DEF dbVars, UniqueIds, UniqueSeen
  <1> QED  BY <1>1, <1>2, <1>3, <1>4, <1>5, <1>6 DEF Next, AtRest, Step

(* With tables of their own, processes never leave two rows of one id,      *)
(* wherever crashes and failed writes hit (db_insert, db_update, db_delete  *)
(* and write_table).                                                        *)
THEOREM IdsAreUnique ==
  ASSUME DisjointTables
  PROVE  Spec => []UniqueIds
  <1>1. Init => UniqueIds /\ UniqueSeen
    BY UniqueEmpty DEF Init, UniqueIds, UniqueSeen
  <1>2. IInv /\ UniqueIds /\ UniqueSeen /\ [Next]_dbVars
        => IInv' /\ UniqueIds' /\ UniqueSeen'
    BY NextIInv, NextUnique
  <1> QED  BY <1>1, <1>2, InitIInv, PTL DEF Spec

-----------------------------------------------------------------------------
(* The refinement *)

\* A table that is being rewritten is what its writer read, any other is its
\* file.
CommittedRows ==
  /\ \A p \in Procs : pc[p] = "write" => Committed(TableOf(p)) = seen[p]
  /\ \A t \in TableNames :
       (\A p \in Procs : ~(pc[p] = "write" /\ TableOf(p) = t)) => Committed(t) = file[t]

(* The writer of a table is the only one.                                   *)
LEMMA CommittedIs ==
  ASSUME DisjointTables
  PROVE  IInv => CommittedRows
  <1> SUFFICES ASSUME IInv PROVE CommittedRows
    OBVIOUS
  <1>1. ASSUME NEW p \in Procs, pc[p] = "write" PROVE Committed(TableOf(p)) = seen[p]
    <2> DEFINE w == CHOOSE q \in Procs : pc[q] = "write" /\ TableOf(q) = TableOf(p)
    <2>1. w \in Procs /\ pc[w] = "write" /\ TableOf(w) = TableOf(p)
      BY <1>1
    <2>2. Committed(TableOf(p)) = seen[w]
      BY <1>1 DEF Committed
    <2> HIDE DEF w
    <2>3. w = p
      BY <1>1, <2>1, Alone
    <2> QED  BY <2>2, <2>3
  <1>2. ASSUME NEW t \in TableNames, \A p \in Procs : ~(pc[p] = "write" /\ TableOf(p) = t)
        PROVE  Committed(t) = file[t]
    BY <1>2 DEF Committed
  <1> QED  BY <1>1, <1>2 DEF CommittedRows

(* The same after a step.                                                   *)
LEMMA CommittedNext ==
  ASSUME DisjointTables
  PROVE  IInv' => CommittedRows'
  BY CommittedIs, PTL

(* A step of p changes no table that p is not in a call on.                 *)
LEMMA ElsewhereSame ==
  ASSUME DisjointTables, IInv, IInv', NEW p \in Procs, StepOf(p), NEW t \in TableNames,
         pc[p] = "idle" \/ t # TableOf(p),
         pc'[p] # "write" \/ t # TableOf(p)'
  PROVE  Committed(t)' = Committed(t)
  <1>1. CommittedRows /\ CommittedRows' /\ file'[t] = file[t]
    BY CommittedIs, CommittedNext DEF StepOf
  <1>2. ASSUME NEW q \in Procs, q # p
        PROVE  /\ pc'[q] = pc[q] /\ seen'[q] = seen[q] /\ TableOf(q)' = TableOf(q)
    BY <1>2 DEF StepOf, TableOf
  <1>3. ASSUME NEW q \in Procs, pc[q] = "write", TableOf(q) = t PROVE Committed(t)' = Committed(t)
    <2>1. q # p
      BY <1>3
    <2>2. Committed(t) = seen[q]
      BY <1>1, <1>3 DEF CommittedRows
    <2>3. pc'[q] = "write" /\ TableOf(q)' = t /\ seen'[q] = seen[q]
      BY <1>2, <1>3, <2>1
    <2>4. Committed(t)' = seen'[q]
      BY <1>1, <2>3 DEF CommittedRows
    <2> QED  BY <2>2, <2>3, <2>4
  <1>4. CASE \A q \in Procs : ~(pc[q] = "write" /\ TableOf(q) = t)
    <2>1. \A q \in Procs : ~(pc'[q] = "write" /\ TableOf(q)' = t)
      BY <1>2, <1>4
    <2> QED  BY <1>1, <1>4, <2>1 DEF CommittedRows
  <1> QED  BY <1>3, <1>4

(* Before it empties its table, a call finds in it what is committed.       *)
LEMMA OwnTable ==
  ASSUME DisjointTables, IInv, NEW p \in Procs, pc[p] \in {"read", "open"}
  PROVE  /\ call[p] \in Operation /\ TableOf(p) \in TableNames
         /\ Committed(TableOf(p)) = file[TableOf(p)]
  <1>1. call[p] \in Operation /\ TableOf(p) \in TableNames
    BY OperationIs DEF IInv, InCall, TableOf
  <1>2. \A q \in Procs : ~(pc[q] = "write" /\ TableOf(q) = TableOf(p))
    BY Alone
  <1> QED  BY <1>1, <1>2, CommittedIs DEF CommittedRows

(* Returning is a step of p that leaves only its table to be accounted for. *)
LEMMA ReturnRefines ==
  ASSUME DisjointTables, IInv, IInv', NEW p \in Procs, pc[p] # "idle", NEW r, Returns(p, r),
         \A t \in TableNames \ {TableOf(p)} : file'[t] = file[t]
  PROVE  /\ AT!Returns(p, r)
         /\ TableOf(p) \in TableNames
         /\ \A t \in TableNames :
              Committed(t)' = IF t = TableOf(p) THEN file'[t] ELSE Committed(t)
  <1>1. AT!Returns(p, r)
    BY DEF Returns, AT!Returns
  <1>2. StepOf(p) /\ pc'[p] = "idle"
    BY DEF IInv, Typed, Returns, StepOf
  <1>3. \A t \in TableNames \ {TableOf(p)} : Committed(t)' = Committed(t)
    BY <1>2, ElsewhereSame
  <1>4. TableOf(p) \in TableNames
    BY OperationIs DEF IInv, InCall, TableOf
  <1>5. \A q \in Procs : ~(pc'[q] = "write" /\ TableOf(q)' = TableOf(p))
    <2>1. \A q \in Procs : pc'[q] = "write" =>
             q # p /\ pc[q] = "write" /\ TableOf(q)' = TableOf(q)
      BY <1>2 DEF StepOf, TableOf
    <2> QED  BY <2>1, Alone
  <1>6. \A t \in TableNames : t = TableOf(p) => Committed(t)' = file'[t]
    BY <1>5, CommittedNext DEF CommittedRows
  <1> QED  BY <1>1, <1>3, <1>4, <1>6

(* AtomicTables is about the same operations on rows.                       *)
LEMMA SameTables ==
  /\ AT!Error = Error
  /\ \A rows : AT!Corrupt(rows) <=> Corrupt(rows)
  /\ \A op, rows : /\ AT!Writes(op, rows) <=> Writes(op, rows)
                   /\ AT!Apply(op, rows) = Apply(op, rows)
                   /\ AT!Answer(op, rows) = Answer(op, rows)
  /\ \A rows : AT!Partial(rows) = Partial(rows)
  <1>1. AT!Error = Error
    BY DEF AT!Error, Error, AT!Result, Result
  <1>2. ASSUME NEW rows PROVE AT!Corrupt(rows) <=> Corrupt(rows)
    BY DEF AT!Corrupt, Corrupt
  <1>3. ASSUME NEW rows PROVE AT!Partial(rows) = Partial(rows)
    BY Zenon DEF AT!Partial, Partial
  <1>4. ASSUME NEW rows, NEW id
        PROVE  AT!RowOf(rows, id) = RowOf(rows, id) /\ AT!Without(rows, id) = Without(rows, id)
    <2>1. AT!RowOf(rows, id) = RowOf(rows, id)
      BY DEF AT!RowOf, RowOf
    <2>2. AT!Without(rows, id) = Without(rows, id)
      BY Zenon DEF AT!Without, Without, AT!RowOf, RowOf, AT!Cardinality, Cardinality
    <2> QED  BY <2>1, <2>2
  <1>5. ASSUME NEW S PROVE AT!First(S) = First(S)
    BY Zenon DEF AT!First, First
  <1>6. ASSUME NEW op, NEW rows PROVE AT!Writes(op, rows) <=> Writes(op, rows)
    BY <1>4 DEF AT!Writes, Writes
  <1>7. ASSUME NEW op, NEW rows PROVE AT!Apply(op, rows) = Apply(op, rows)
    BY <1>4, <1>5, Zenon DEF AT!Apply, Apply
  <1>8. ASSUME NEW op, NEW rows PROVE AT!Answer(op, rows) = Answer(op, rows)
    BY <1>4, <1>5, <1>6, Zenon DEF AT!Answer, Answer, AT!None, None, AT!Result, Result
  <1> QED  BY <1>1, <1>2, <1>3, <1>6, <1>7, <1>8

(* A call begins.                                                           *)
LEMMA CallRefines ==
  ASSUME DisjointTables, IInv, IInv', NEW p \in Procs, NEW op \in Operation, Call(p, op)
  PROVE  AT!Call(p, op)
  <1>1. StepOf(p) /\ pc[p] = "idle" /\ pc'[p] # "write"
    BY DEF Call, IInv, Typed, StepOf
  <1>2. \A t \in TableNames : Committed(t)' = Committed(t)
    BY <1>1, ElsewhereSame
  <1>3. call[p] = NoCall /\ call' = [call EXCEPT ![p] = op] /\ result' = result
    BY DEF Call, IInv, InCall
  <1> QED  BY <1>2, <1>3 DEF AT!Call

(* A call that reads a damaged table is rejected, one that finds nothing to *)
(* write is performed, and one that goes on has not happened yet.           *)
LEMMA ReadRefines ==
  ASSUME DisjointTables, IInv, IInv', NEW p \in Procs, ReadTable(p)
  PROVE  AT!Reject(p) \/ AT!Perform(p) \/ UNCHANGED AT!vars
  <1> DEFINE x == TableOf(p)
  <1>1. pc[p] = "read" /\ file' = file /\ call[p] # NoCall /\ call[p] \in Operation
        /\ x \in TableNames /\ Committed(x) = file[x]
    BY OwnTable, OperationIs DEF ReadTable
  <1>2. AT!Rows(p) = file[x]
    BY <1>1 DEF AT!Rows, TableOf
  <1>3. ASSUME NEW r, Returns(p, r)
        PROVE  AT!Returns(p, r) /\ \A t \in TableNames : Committed(t)' = Committed(t)
    BY <1>1, <1>3, ReturnRefines
  <1>4. CASE Corrupt(file[x])
    <2>1. Returns(p, Error)
      BY <1>4 DEF ReadTable
    <2> QED  BY <1>1, <1>2, <1>3, <1>4, <2>1, SameTables DEF AT!Reject
  <1>5. CASE ~Corrupt(file[x]) /\ ~Writes(call[p], file[x])
    <2>1. Returns(p, Answer(call[p], file[x]))
      BY <1>5 DEF ReadTable
    <2> QED  BY <1>1, <1>2, <1>3, <1>5, <2>1, SameTables DEF AT!Perform
  <1>6. CASE ~Corrupt(file[x]) /\ Writes(call[p], file[x])
    <2>1. pc' = [pc EXCEPT ![p] = "open"] /\ seen' = [seen EXCEPT ![p] = file[x]]
          /\ call' = call /\ result' = result
      BY <1>6 DEF ReadTable
    <2>2. StepOf(p) /\ pc'[p] # "write" /\ TableOf(p)' = x
      BY <1>1, <2>1 DEF IInv, Typed, StepOf, TableOf
    <2>3. \A t \in TableNames \ {x} : Committed(t)' = Committed(t)
      BY <2>2, ElsewhereSame
    <2>4. \A t \in TableNames : t = x => Committed(t)' = Committed(t)
      <3>1. pc'[p] \in {"read", "open"}
        BY <2>1 DEF IInv, Typed
      <3>2. \A q \in Procs : ~(pc'[q] = "write" /\ TableOf(q)' = x)
        <4>1. \A q \in Procs : pc'[q] = "write" => q # p /\ pc[q] = "write" /\ TableOf(q)' = TableOf(q)
          BY <2>2 DEF StepOf, TableOf
        <4> QED  BY <1>1, <4>1, Alone
      <3>3. \A t \in TableNames : t = x => Committed(t)' = file'[t]
        BY <3>2, CommittedNext DEF CommittedRows
      <3> QED  BY <1>1, <3>3
    <2> QED  BY <2>1, <2>3, <2>4 DEF AT!vars
  <1> QED  BY <1>4, <1>5, <1>6

(* Emptying the file is not seen: what was read stands for it.              *)
LEMMA OpenRefines ==
  ASSUME DisjointTables, IInv, IInv', NEW p \in Procs, OpenForWriting(p)
  PROVE  UNCHANGED AT!vars
  <1>1. pc[p] = "open" /\ call' = call /\ seen' = seen /\ result' = result
    BY DEF OpenForWriting
  <1>2. TableOf(p) \in TableNames /\ Committed(TableOf(p)) = seen[p]
    BY <1>1, OwnTable DEF IInv, Rewriting
  <1>3. StepOf(p) /\ pc'[p] = "write" /\ TableOf(p)' = TableOf(p)
    BY <1>1 DEF OpenForWriting, IInv, Typed, StepOf, TableOf
  <1>4. \A t \in TableNames : t # TableOf(p) => Committed(t)' = Committed(t)
    BY <1>3, ElsewhereSame
  <1>5. \A t \in TableNames : t = TableOf(p) => Committed(t)' = seen'[p]
    BY <1>3, CommittedNext DEF CommittedRows
  <1> QED  BY <1>1, <1>2, <1>4, <1>5 DEF AT!vars

(* A write is the moment at which the call happens.                         *)
LEMMA WriteRefines ==
  ASSUME DisjointTables, IInv, IInv', NEW p \in Procs, WriteRows(p)
  PROVE  AT!Perform(p)
  <1> DEFINE x == TableOf(p)
             new == Apply(call[p], seen[p])
  <1>1. pc[p] = "write" /\ Returns(p, Answer(call[p], seen[p]))
    BY DEF WriteRows
  <1>2. file' = [file EXCEPT ![x] = new]
    BY WriteKeeps
  <1>3. x \in TableNames /\ call[p] # NoCall /\ Writes(call[p], seen[p]) /\ ~Corrupt(seen[p])
    BY <1>1, WrittenIs, OperationIs
  <1>4. AT!Rows(p) = seen[p] /\ Committed(x) = seen[p]
    BY <1>1, <1>3, CommittedIs DEF CommittedRows, AT!Rows, TableOf
  <1> HIDE DEF new
  <1>5. /\ AT!Returns(p, Answer(call[p], seen[p]))
        /\ \A t \in TableNames : Committed(t)' = IF t = x THEN new ELSE Committed(t)
    BY <1>1, <1>2, <1>3, ReturnRefines DEF IInv, Typed
  <1>6. [t \in TableNames |-> Committed(t)]'
          = [[t \in TableNames |-> Committed(t)] EXCEPT ![call[p].table] = new]
    BY <1>3, <1>5 DEF TableOf
  <1>7. new = AT!Apply(call[p], [t \in TableNames |-> Committed(t)][call[p].table])
    BY <1>3, <1>4, SameTables DEF new, TableOf
  <1> QED  BY <1>3, <1>4, <1>5, <1>6, <1>7, SameTables DEF AT!Perform

(* A fault interrupts the call, and loses at most the end of its write.     *)
LEMMA FaultRefines ==
  ASSUME DisjointTables, IInv, IInv', NEW p \in Procs, Fault(p)
  PROVE  AT!Interrupt(p)
  <1> DEFINE x == TableOf(p)
  <1>1. pc[p] # "idle" /\ Returns(p, Error) /\ call[p] # NoCall
    BY OperationIs DEF Fault, IInv, InCall
  <1>2. CASE file' = file /\ pc[p] # "write"
    <2>1. pc[p] \in {"read", "open"}
      BY <1>1, <1>2 DEF IInv, Typed
    <2>2. Committed(x) = file[x]
      BY <2>1, OwnTable
    <2>3. AT!Returns(p, Error) /\ \A t \in TableNames : Committed(t)' = Committed(t)
      BY <1>1, <1>2, <2>2, ReturnRefines
    <2> QED  BY <1>1, <2>3, SameTables DEF AT!Interrupt
  <1>3. ASSUME pc[p] = "write", NEW part \in Partial(Apply(call[p], seen[p])),
               file' = [file EXCEPT ![x] = part]
        PROVE  AT!Interrupt(p)
    <2>1. x \in TableNames /\ Writes(call[p], seen[p]) /\ ~Corrupt(seen[p])
      BY <1>3, WrittenIs
    <2>2. AT!Rows(p) = seen[p]
      BY <1>3, <2>1, CommittedIs DEF CommittedRows, AT!Rows, TableOf
    <2>3. /\ AT!Returns(p, Error)
          /\ \A t \in TableNames : Committed(t)' = IF t = x THEN part ELSE Committed(t)
      BY <1>1, <1>3, <2>1, ReturnRefines DEF IInv, Typed
    <2>4. [t \in TableNames |-> Committed(t)]'
            = [[t \in TableNames |-> Committed(t)] EXCEPT ![call[p].table] = part]
      BY <2>1, <2>3 DEF TableOf
    <2>5. part \in AT!Partial(AT!Apply(call[p], AT!Rows(p)))
      BY <1>3, <2>2, SameTables
    <2> QED  BY <1>1, <2>1, <2>2, <2>3, <2>4, <2>5, SameTables DEF AT!Interrupt
  <1> QED  BY <1>2, <1>3, FaultKeeps

LEMMA InitRefines ==
  ASSUME DisjointTables, Init
  PROVE  AT!Init
  <1>1. \A t \in TableNames : Committed(t) = <<>>
    BY DEF Init, Committed
  <1>2. AT!None = None
    BY DEF AT!None, None, AT!Result, Result
  <1> QED  BY <1>1, <1>2 DEF Init, AT!Init

LEMMA NextRefines ==
  ASSUME DisjointTables, IInv, IInv', [Next]_dbVars
  PROVE  [AT!Next]_AT!vars
  <1>1. ASSUME NEW p \in Procs, NEW op \in Operation, Call(p, op) PROVE AT!Next
    <2>1. Operation = AT!Operation
      BY Zenon DEF Operation, AT!Operation
    <2> QED  BY <1>1, <2>1, CallRefines DEF AT!Next
  <1>2. ASSUME NEW p \in Procs, Step(p) PROVE AT!Next \/ UNCHANGED AT!vars
    BY <1>2, ReadRefines, OpenRefines, WriteRefines DEF Step, AT!Next
  <1>3. ASSUME NEW p \in Procs, Fault(p) PROVE AT!Next
    BY <1>3, FaultRefines DEF AT!Next
  <1>4. CASE UNCHANGED dbVars
    BY <1>4 DEF dbVars, AT!vars, Committed, TableOf
  <1> QED  BY <1>1, <1>2, <1>3, <1>4 DEF Next, AtRest

(* With tables of their own, processes see every db_* call as one atomic    *)
(* operation, although each reads a file, empties it and writes it anew     *)
(* with others running in between (read_table, write_table).                *)
THEOREM DbStoreImplementsAtomicTables ==
  ASSUME DisjointTables
  PROVE  Spec => ImplementsAtomicTables
  <1>1. Init => AT!Init
    BY InitRefines
  <1>2. IInv /\ [Next]_dbVars => IInv'
    BY NextIInv
  <1>3. IInv /\ IInv' /\ [Next]_dbVars => [AT!Next]_AT!vars
    BY NextRefines
  <1> QED  BY <1>1, <1>2, <1>3, InitIInv, PTL DEF Spec, AT!Spec, ImplementsAtomicTables

-----------------------------------------------------------------------------
(* Rows in, rows out *)

(* Overlapping writes mix lines and leave fragments, and invent no row.     *)
LEMMA OverlayMixes ==
  ASSUME NEW S, NEW old \in Seq(S \cup {Torn}), NEW lines \in Seq(S \cup {Torn}),
         NEW mix \in Overlay(old, lines)
  PROVE  mix \in Seq(S \cup {Torn})
  <1> DEFINE L == S \cup {Torn}
  <1>1. Torn \in L /\ old \in Seq(L) /\ lines \in Seq(L)
    OBVIOUS
  <1> HIDE DEF L
  <1>2. CASE old = <<>> \/ lines = <<>>
    <2>1. Overlay(old, lines) = {lines \o old}
      <3>1. CASE old = <<>>
        BY <3>1 DEF Overlay
      <3>2. CASE lines = <<>>
        BY <3>2 DEF Overlay
      <3> QED  BY <1>2, <3>1, <3>2
    <2> QED  BY <1>1, <2>1, ConcatProperties DEF L
  <1>3. CASE ~(old = <<>> \/ lines = <<>>)
    <2>1. PICK cut \in {<<>>, <<Torn>>}, k \in 2..Len(old) + 1 :
               mix = lines \o cut \o SubSeq(old, k, Len(old))
      <3> DEFINE Mixed(cut, k) == lines \o cut \o SubSeq(old, k, Len(old))
                 Mixes == {Mixed(cut, k) : cut \in {<<>>, <<Torn>>}, k \in 2..Len(old) + 1}
      <3>1. Overlay(old, lines) = Mixes
        BY <1>3 DEF Overlay
      <3> HIDE DEF Mixes
      <3>2. mix \in Mixes
        BY <3>1
      <3> HIDE DEF Mixed
      <3>3. \E cut \in {<<>>, <<Torn>>}, k \in 2..Len(old) + 1 : mix = Mixed(cut, k)
        BY <3>2 DEF Mixes
      <3> QED  BY <3>3 DEF Mixed
    <2>2. cut \in Seq(L)
      <3>1. <<>> \in Seq(L) /\ <<Torn>> \in Seq(L)
        BY <1>1
      <3> QED  BY <3>1
    <2>3. SubSeq(old, k, Len(old)) \in Seq(L)
      <3>1. k \in Int /\ Len(old) \in Int /\ \A i \in k..Len(old) : old[i] \in L
        BY <1>1, LenProperties, ElementOfSeq
      <3> QED  BY <3>1, SubSeqProperties
    <2>4. lines \o cut \in Seq(L)
      BY <1>1, <2>2, ConcatProperties
    <2>5. (lines \o cut) \o SubSeq(old, k, Len(old)) \in Seq(L)
      BY <2>3, <2>4, ConcatProperties
    <2> QED  BY <2>1, <2>5 DEF L
  <1> QED  BY <1>2, <1>3

(* Nor does a write that is cut short.                                      *)
LEMMA PartialCuts ==
  ASSUME NEW S, NEW rows \in Seq(S), NEW part \in Partial(rows)
  PROVE  part \in Seq(S \cup {Torn})
  <1> DEFINE L == S \cup {Torn}
  <1>1. PICK k \in 0..Len(rows) : \/ part = SubSeq(rows, 1, k)
                                  \/ part = Append(SubSeq(rows, 1, k), Torn)
    BY DEF Partial
  <1>2. SubSeq(rows, 1, k) \in Seq(L)
    <2>1. k \in Int /\ \A i \in 1..k : rows[i] \in L
      BY LenProperties, ElementOfSeq
    <2> QED  BY <2>1, SubSeqProperties
  <1> QED  BY <1>1, <1>2, AppendProperties

(* The row an insert or an update writes, and no other new one, is in what  *)
(* it leaves.                                                               *)
NewRow(op) == [id |-> op.id, record |-> op.record]

LEMMA ApplyAdds ==
  ASSUME NEW S \in SUBSET Row, NEW rows \in Seq(S), NEW op, op.kind \in {"insert", "update"},
         Writes(op, rows), NewRow(op) \in S
  PROVE  /\ Apply(op, rows) \in Seq(S)
         /\ \E i \in DOMAIN Apply(op, rows) : Apply(op, rows)[i] = NewRow(op)
         /\ \A i \in DOMAIN rows :
              /\ i \in DOMAIN Apply(op, rows)
              /\ \/ Apply(op, rows)[i] = rows[i]
                 \/ op.kind = "update" /\ rows[i].id = op.id /\ Apply(op, rows)[i] = NewRow(op)
  <1> DEFINE new == Apply(op, rows)
  <1>1. /\ DOMAIN rows = 1..Len(rows) /\ Len(rows) \in Nat /\ rows \in Seq(Row)
        /\ \A i \in 1..Len(rows) : rows[i] \in S
    BY LenProperties, ElementOfSeq, SeqMonotonic
  <1>2. CASE op.kind = "insert"
    <2>1. new = Append(rows, NewRow(op))
      BY <1>2 DEF Apply, NewRow
    <2> HIDE DEF new
    <2>2. /\ new \in Seq(S) /\ Len(new) = Len(rows) + 1 /\ new[Len(rows) + 1] = NewRow(op)
          /\ \A i \in 1..Len(rows) : new[i] = rows[i]
      BY <2>1, AppendProperties
    <2>3. DOMAIN new = 1..(Len(rows) + 1)
      BY <2>2, LenProperties
    <2> QED  BY <1>1, <2>2, <2>3 DEF new
  <1>3. CASE op.kind = "update"
    <2> DEFINE k == First(RowOf(rows, op.id))
               row == [rows[k] EXCEPT !.record = op.record]
    <2>1. k \in 1..Len(rows) /\ rows[k].id = op.id
      BY <1>1, <1>3, FirstIsIn DEF Writes
    <2>2. new = [rows EXCEPT ![k] = row]
      BY <1>3, Zenon DEF Apply
    <2> HIDE DEF k, new
    <2>3. row = NewRow(op)
      BY <1>1, <2>1 DEF Row, NewRow
    <2> HIDE DEF row
    <2>4. /\ new \in Seq(S) /\ Len(new) = Len(rows)
          /\ \A i \in 1..Len(rows) : new[i] = IF i = k THEN NewRow(op) ELSE rows[i]
      BY <2>1, <2>2, <2>3, ExceptSeq
    <2>5. DOMAIN new = 1..Len(rows)
      BY <2>4, LenProperties
    <2> QED  BY <1>1, <1>3, <2>1, <2>4, <2>5 DEF new
  <1> QED  BY <1>2, <1>3
-----------------------------------------------------------------------------
(* Who is in which call *)

Handlers ==
  [at : {"idle", "ticket", "job", "get", "update"}, ticket : Ids \cup {"none"}, negative : BOOLEAN]

Shapes ==
  /\ DOMAIN file = TableNames
  /\ pc \in [Procs -> {"idle", "read", "open", "write"}]
  /\ DOMAIN call = Procs /\ DOMAIN seen = Procs /\ DOMAIN result = Procs
  /\ handler \in Handlers /\ (handler.at # "idle" => handler.ticket \in Ids)
  /\ drain = [at |-> drain.at, todo |-> drain.todo]

\* The call the handler is waiting for.
ServerOp ==
  CASE handler.at = "ticket" -> Insert(tickets, Rec(handler.ticket, handler.ticket, "open"))
    [] handler.at = "job"    -> Insert(jobs, Rec(handler.ticket, handler.ticket, "pending"))
    [] handler.at = "get"    -> Get(tickets, handler.ticket)
    [] handler.at = "update" -> Update(tickets, Rec(handler.ticket, handler.ticket, "resolved"))

\* The call the worker is waiting for.
WorkerOp ==
  CASE drain.at = "list"   -> List(jobs)
    [] drain.at = "update" -> Update(jobs, Rec(NextJob.id, NextJob.about, "processed"))

Callers ==
  /\ pc[server] # "idle" => handler.at # "idle" /\ call[server] = ServerOp
  /\ pc[worker] # "idle" => drain.at \in {"list", "update"} /\ call[worker] = WorkerOp
  /\ drain.at = "update" => drain.todo # <<>>
  /\ \A p \in Procs \ {server, worker} : pc[p] = "idle"

\* The server is about to write what the ticket table holds, or held until
\* the server emptied it.
TicketFile ==
  pc[server] # "idle" /\ TableOf(server) = tickets =>
    /\ pc[server] = "open" => file[tickets] = seen[server]
    /\ pc[server] = "write" => file[tickets] = <<>>

Base == Shapes /\ Callers /\ TicketFile

LEMMA Parties == server \in Procs /\ worker \in Procs /\ server # worker
                 /\ tickets \in TableNames /\ jobs \in TableNames /\ tickets # jobs
  BY SupportAssumptions

(* The calls and their tables.                                              *)
LEMMA OpsAre ==
  ASSUME Base
  PROVE  /\ pc[server] # "idle" =>
              /\ TableOf(server) \in {tickets, jobs}
              /\ call[server].kind \in {"insert", "get", "update"}
              /\ TableOf(server) = jobs => handler.at = "job" /\ call[server].kind = "insert"
         /\ pc[worker] # "idle" => TableOf(worker) = jobs /\ call[worker].kind \in {"list", "update"}
         /\ \A p \in Procs : pc[p] # "idle" => p \in {server, worker}
  <1>1. ASSUME pc[server] # "idle"
        PROVE  /\ TableOf(server) \in {tickets, jobs}
               /\ call[server].kind \in {"insert", "get", "update"}
               /\ TableOf(server) = jobs => handler.at = "job" /\ call[server].kind = "insert"
    <2>1. call[server] = ServerOp /\ handler.at \in {"ticket", "job", "get", "update"}
      BY <1>1 DEF Base, Callers, Shapes, Handlers
    <2>2. CASE handler.at = "ticket"
      BY <2>1, <2>2, Parties DEF ServerOp, TableOf, Insert
    <2>3. CASE handler.at = "job"
      BY <2>1, <2>3, Parties DEF ServerOp, TableOf, Insert
    <2>4. CASE handler.at = "get"
      BY <2>1, <2>4, Parties DEF ServerOp, TableOf, Get
    <2>5. CASE handler.at = "update"
      BY <2>1, <2>5, Parties DEF ServerOp, TableOf, Update
    <2> QED  BY <2>1, <2>2, <2>3, <2>4, <2>5
  <1>2. ASSUME pc[worker] # "idle"
        PROVE  TableOf(worker) = jobs /\ call[worker].kind \in {"list", "update"}
    <2>1. call[worker] = WorkerOp /\ drain.at \in {"list", "update"}
      BY <1>2 DEF Base, Callers
    <2>2. CASE drain.at = "list"
      BY <2>1, <2>2, Parties DEF WorkerOp, TableOf, List
    <2>3. CASE drain.at = "update"
      BY <2>1, <2>3, Parties DEF WorkerOp, TableOf, Update
    <2> QED  BY <2>1, <2>2, <2>3
  <1>3. \A p \in Procs : pc[p] # "idle" => p \in {server, worker}
    BY DEF Base, Callers
  <1> QED  BY <1>1, <1>2, <1>3

(* The server calls.                                                        *)
LEMMA ServerCallsBase ==
  ASSUME Base, NEW op, Call(server, op), drain' = drain,
         handler' \in Handlers, handler'.at # "idle", handler'.ticket \in Ids, op = ServerOp'
  PROVE  Base'
  <1>1. Shapes'
    BY DEF Base, Shapes, Call
  <1>2. pc'[server] = "read" /\ call'[server] = op
        /\ \A p \in Procs \ {server} : pc'[p] = pc[p] /\ call'[p] = call[p]
    BY Parties DEF Base, Shapes, Call
  <1>3. WorkerOp' = WorkerOp
    BY DEF WorkerOp, NextJob
  <1>4. Callers'
    BY <1>2, <1>3, Parties DEF Base, Callers
  <1>5. TicketFile'
    BY <1>2 DEF TicketFile
  <1> QED  BY <1>1, <1>4, <1>5 DEF Base

(* The worker calls.                                                        *)
LEMMA WorkerCallsBase ==
  ASSUME Base, NEW op, Call(worker, op), handler' = handler,
         drain' = [at |-> drain'.at, todo |-> drain'.todo],
         drain'.at \in {"list", "update"}, drain'.at = "update" => drain'.todo # <<>>,
         op = WorkerOp'
  PROVE  Base'
  <1>1. Shapes'
    BY DEF Base, Shapes, Call
  <1>2. pc'[worker] = "read" /\ call'[worker] = op /\ file' = file /\ seen' = seen
        /\ \A p \in Procs \ {worker} : pc'[p] = pc[p] /\ call'[p] = call[p]
    BY Parties DEF Base, Shapes, Call
  <1>3. ServerOp' = ServerOp
    BY DEF ServerOp
  <1>4. Callers'
    BY <1>2, <1>3, Parties DEF Base, Callers
  <1>5. TicketFile'
    BY <1>2, Parties DEF Base, TicketFile, TableOf
  <1> QED  BY <1>1, <1>4, <1>5 DEF Base

(* A program that is in no call goes on by itself.                          *)
LEMMA LocalBase ==
  ASSUME Base, UNCHANGED dbVars,
         handler' = handler \/ (pc[server] = "idle" /\ handler' = Idle),
         drain' = drain \/ (/\ pc[worker] = "idle" /\ drain'.at # "update"
                            /\ drain' = [at |-> drain'.at, todo |-> drain'.todo])
  PROVE  Base'
  <1>1. file' = file /\ pc' = pc /\ call' = call /\ seen' = seen /\ result' = result
    BY DEF dbVars
  <1>2. Shapes'
    <2>1. handler' \in Handlers /\ (handler'.at # "idle" => handler'.ticket \in Ids)
      <3>1. CASE handler' = handler
        BY <3>1 DEF Base, Shapes
      <3>2. CASE handler' = Idle
        BY <3>2 DEF Handlers, Idle
      <3> QED  BY <3>1, <3>2
    <2>2. drain' = [at |-> drain'.at, todo |-> drain'.todo]
      BY DEF Base, Shapes
    <2> QED  BY <1>1, <2>1, <2>2 DEF Base, Shapes
  <1>3. pc[server] # "idle" => handler' = handler /\ ServerOp' = ServerOp
    BY DEF ServerOp
  <1>4. pc[worker] # "idle" => drain' = drain /\ WorkerOp' = WorkerOp
    BY DEF WorkerOp, NextJob
  <1>5. drain'.at = "update" => drain'.todo # <<>>
    BY DEF Base, Callers
  <1>6. Callers'
    BY <1>1, <1>3, <1>4, <1>5 DEF Base, Callers
  <1>7. TicketFile'
    BY <1>1 DEF Base, TicketFile, TableOf
  <1> QED  BY <1>2, <1>6, <1>7 DEF Base

(* A call goes on or ends, and touches no table but its own.                *)
LEMMA StoreBase ==
  ASSUME Base, NEW p \in Procs, pc[p] # "idle", handler' = handler, drain' = drain,
         Shapes', TicketFile',
         pc'[p] = "idle" \/ call'[p] = call[p],
         \A q \in Procs \ {p} : pc'[q] = pc[q] /\ call'[q] = call[q]
  PROVE  Base'
  <1>1. ServerOp' = ServerOp /\ WorkerOp' = WorkerOp
    BY DEF ServerOp, WorkerOp, NextJob
  <1>2. p \in {server, worker}
    BY OpsAre
  <1>3. Callers'
    BY <1>1, <1>2, Parties DEF Base, Callers
  <1> QED  BY <1>3 DEF Base

(* A call ends.                                                             *)
LEMMA ReturnBase ==
  ASSUME Base, NEW p \in Procs, pc[p] # "idle", handler' = handler, drain' = drain,
         NEW r, Returns(p, r), DOMAIN file' = TableNames,
         TableOf(p) # tickets => file'[tickets] = file[tickets]
  PROVE  Base'
  <1>1. Shapes'
    BY DEF Base, Shapes, Returns
  <1>2. /\ pc'[p] = "idle"
        /\ \A q \in Procs \ {p} : pc'[q] = pc[q] /\ call'[q] = call[q] /\ seen'[q] = seen[q]
    BY DEF Base, Shapes, Returns
  <1>3. TicketFile'
    <2>1. CASE p = server
      BY <1>2, <2>1 DEF TicketFile
    <2>2. CASE p # server
      <3>1. TableOf(p) # tickets
        BY <2>2, OpsAre, Parties
      <3> QED  BY <1>2, <2>2, <3>1, Parties DEF Base, TicketFile, TableOf
    <2> QED  BY <2>1, <2>2
  <1> QED  BY <1>1, <1>2, <1>3, StoreBase

LEMMA InitBase ==
  ASSUME SupportInit
  PROVE  Base
  <1>1. Shapes
    BY DEF SupportInit, Init, Shapes, Idle, Off, Handlers
  <1>2. Callers /\ TicketFile
    BY Parties DEF SupportInit, Init, Callers, TicketFile, Off
  <1> QED  BY <1>1, <1>2 DEF Base

LEMMA ReadBase ==
  ASSUME Base, NEW p \in Procs, ReadTable(p), handler' = handler, drain' = drain
  PROVE  Base'
  <1>1. pc[p] = "read" /\ file' = file
    BY DEF ReadTable
  <1>2. CASE \E r : Returns(p, r)
    BY <1>1, <1>2, ReturnBase DEF Base, Shapes
  <1>3. CASE /\ pc' = [pc EXCEPT ![p] = "open"]
             /\ seen' = [seen EXCEPT ![p] = file[TableOf(p)]]
             /\ UNCHANGED <<call, result>>
    <2>1. Shapes'
      BY <1>1, <1>3 DEF Base, Shapes
    <2>2. pc'[p] = "open" /\ seen'[p] = file[TableOf(p)] /\ \A q \in Procs \ {p} : pc'[q] = pc[q] /\ seen'[q] = seen[q]
      BY <1>3 DEF Base, Shapes
    <2>3. TicketFile'
      BY <1>1, <1>3, <2>2, Parties DEF Base, TicketFile, TableOf
    <2> QED  BY <1>1, <1>3, <2>1, <2>2, <2>3, StoreBase
  <1> QED  BY <1>2, <1>3 DEF ReadTable

LEMMA OpenBase ==
  ASSUME Base, NEW p \in Procs, OpenForWriting(p), handler' = handler, drain' = drain
  PROVE  Base'
  <1>1. /\ pc[p] = "open" /\ call' = call /\ seen' = seen /\ result' = result
        /\ pc' = [pc EXCEPT ![p] = "write"] /\ file' = [file EXCEPT ![TableOf(p)] = <<>>]
    BY DEF OpenForWriting
  <1>2. Shapes'
    BY <1>1 DEF Base, Shapes
  <1>3. pc'[p] = "write" /\ \A q \in Procs \ {p} : pc'[q] = pc[q]
    BY <1>1 DEF Base, Shapes
  <1>4. TicketFile'
    <2>1. CASE p = server
      BY <1>1, <1>3, <2>1, Parties DEF Base, Shapes, TicketFile, TableOf
    <2>2. CASE p # server
      <3>1. TableOf(p) # tickets
        BY <1>1, <2>2, OpsAre, Parties
      <3>2. file'[tickets] = file[tickets]
        BY <1>1, <3>1, Parties DEF Base, Shapes
      <3> QED  BY <1>1, <1>3, <2>2, <3>2, Parties DEF Base, TicketFile, TableOf
    <2> QED  BY <2>1, <2>2
  <1> QED  BY <1>1, <1>2, <1>3, <1>4, StoreBase

LEMMA StoreStepBase ==
  ASSUME Base, NEW p \in Procs, Step(p) \/ Fault(p), handler' = handler, drain' = drain
  PROVE  Base'
  <1>1. CASE WriteRows(p) \/ Fault(p)
    <2>1. pc[p] # "idle" /\ \E r : Returns(p, r)
      BY <1>1 DEF WriteRows, Fault
    <2>2. file' = file \/ \E lines : file' = [file EXCEPT ![TableOf(p)] = lines]
      BY <1>1 DEF WriteRows, Fault
    <2>3. DOMAIN file' = TableNames /\ (TableOf(p) # tickets => file'[tickets] = file[tickets])
      BY <2>2, Parties DEF Base, Shapes
    <2> QED  BY <2>1, <2>3, ReturnBase
  <1> QED  BY <1>1, ReadBase, OpenBase DEF Step

\* What the handler read of its ticket is about that ticket.
TicketRead ==
  handler.at = "get" /\ Returned(server) /\ result[server].status = "some" =>
    result[server].records[1].about = handler.ticket

(* Each of the actions keeps to its calls.                                  *)
LEMMA NextBase ==
  ASSUME Base, TicketRead, [SupportNext]_vars
  PROVE  Base'
  <1>1. ASSUME NEW t \in Ids, NEW negative \in BOOLEAN, CreateTicket(t, negative) PROVE Base'
    <2>1. handler' = [at |-> "ticket", ticket |-> t, negative |-> negative] /\ drain' = drain
      BY <1>1 DEF CreateTicket
    <2> QED  BY <1>1, <2>1, ServerCallsBase DEF CreateTicket, ServerOp, Handlers
  <1>2. CASE EnqueueJob
    <2>1. handler' = [handler EXCEPT !.at = "job"] /\ handler.at = "ticket" /\ drain' = drain
          /\ handler \in Handlers /\ handler.ticket \in Ids
      BY <1>2 DEF EnqueueJob, Base, Shapes
    <2> QED  BY <1>2, <2>1, ServerCallsBase DEF EnqueueJob, ServerOp, Handlers
  <1>3. ASSUME NEW t \in Ids, ResolveTicket(t) PROVE Base'
    <2>1. handler' = [at |-> "get", ticket |-> t, negative |-> FALSE] /\ drain' = drain
      BY <1>3 DEF ResolveTicket
    <2> QED  BY <1>3, <2>1, ServerCallsBase DEF ResolveTicket, ServerOp, Handlers
  <1>4. CASE MarkResolved
    <2>1. handler' = [handler EXCEPT !.at = "update"] /\ handler.at = "get" /\ drain' = drain
          /\ handler \in Handlers /\ handler.ticket \in Ids
      BY <1>4 DEF MarkResolved, Base, Shapes
    <2> QED  BY <1>4, <2>1, ServerCallsBase DEF MarkResolved, ServerOp, Handlers, TicketRead
  <1>5. CASE StartWorker
    <2>1. drain' = [drain EXCEPT !.at = "list"] /\ handler' = handler
      BY <1>5 DEF StartWorker
    <2>2. drain'.at = "list" /\ drain' = [at |-> drain'.at, todo |-> drain'.todo]
      BY <2>1 DEF Base, Shapes
    <2> QED  BY <1>5, <2>1, <2>2, WorkerCallsBase DEF StartWorker, WorkerOp
  <1>6. CASE ProcessJob
    <2>1. drain' = [drain EXCEPT !.at = "update"] /\ handler' = handler /\ drain.todo # <<>>
      BY <1>6 DEF ProcessJob
    <2>2. drain'.at = "update" /\ drain'.todo = drain.todo
          /\ drain' = [at |-> drain'.at, todo |-> drain'.todo]
      BY <2>1 DEF Base, Shapes
    <2>3. NextJob' = NextJob
      BY <2>2 DEF NextJob
    <2> QED  BY <1>6, <2>1, <2>2, <2>3, WorkerCallsBase DEF ProcessJob, WorkerOp
  <1>7. CASE AnswerCreated \/ AnswerResolved \/ AnswerError
    <2>1. UNCHANGED dbVars /\ drain' = drain /\ pc[server] = "idle" /\ handler' = Idle
      BY <1>7 DEF AnswerCreated, AnswerResolved, AnswerError, Returned, Raised
    <2> QED  BY <2>1, LocalBase
  <1>8. CASE JobsListed \/ SkipJob \/ JobProcessed \/ WorkerExits
    <2>1. UNCHANGED dbVars /\ handler' = handler
      BY <1>8 DEF JobsListed, SkipJob, JobProcessed, WorkerExits
    <2>2. pc[worker] = "idle"
      BY <1>8 DEF JobsListed, SkipJob, JobProcessed, WorkerExits, Returned, Raised, Base, Callers
    <2>3. drain'.at # "update" /\ drain' = [at |-> drain'.at, todo |-> drain'.todo]
      BY <1>8 DEF JobsListed, SkipJob, JobProcessed, WorkerExits, Off, Base, Shapes
    <2> QED  BY <2>1, <2>2, <2>3, LocalBase
  <1>9. CASE StoreStep \/ StoreFault
    BY <1>9, StoreStepBase DEF StoreStep, StoreFault
  <1>10. CASE UNCHANGED vars
    <2>1. UNCHANGED dbVars /\ handler' = handler /\ drain' = drain
      BY <1>10 DEF vars
    <2> QED  BY <2>1, LocalBase
  <1> QED  BY <1>1, <1>2, <1>3, <1>4, <1>5, <1>6, <1>7, <1>8, <1>9, <1>10 DEF SupportNext, Quiet

-----------------------------------------------------------------------------
(* What the rows say *)

\* The ticket is stored, or a fault hit its table amid a write.
Safe(t)   == tickets \in damaged \/ Holds(Committed(tickets), t, {"open", "resolved"})
Closed(t) == tickets \in damaged \/ Holds(Committed(tickets), t, {"resolved"})

TicketRow == {r \in Row : r.record.about = r.id /\ r.record.status \in {"open", "resolved"}}
JobRecord == {r \in [id : Ids, about : Ids, status : {"pending", "processed"}] : Safe(r.about)}
JobRow    == {r \in Row : /\ r.record \in JobRecord
                          /\ r.record.status = "processed" => emails[r.record.about] > 0}

RowsOf(t) == IF t = tickets THEN TicketRow ELSE JobRow

Rows ==
  /\ \A t \in TableNames : file[t] \in Seq(RowsOf(t) \cup {Torn})
  /\ \A p \in Procs : pc[p] \in {"open", "write"} =>
       seen[p] \in Seq(RowsOf(TableOf(p))) /\ Writes(call[p], seen[p])

\* What is recorded outside the tables.
Recorded ==
  /\ emails \in [Ids -> Nat] /\ opened \subseteq Ids /\ resolved \subseteq Ids
  /\ \A t \in Ids : emails[t] > 0 => Safe(t)
  /\ \A t \in opened : Safe(t)
  /\ \A t \in resolved : Closed(t)

\* What the handler and the worker know.
HandlerKnows ==
  /\ handler.at = "ticket" /\ Returned(server) => Safe(handler.ticket)
  /\ handler.at = "job" => Safe(handler.ticket)
  /\ TicketRead
  /\ handler.at \in {"get", "update"} => handler.ticket \in opened
  /\ handler.at = "update" /\ Returned(server) => Closed(handler.ticket)

WorkerKnows ==
  /\ drain.at = "list" /\ Returned(worker) => result[worker].records \in Seq(JobRecord)
  /\ drain.todo \in Seq(JobRecord)
  /\ drain.at = "update" => emails[NextJob.about] > 0

Facts == Rows /\ Recorded /\ HandlerKnows /\ WorkerKnows

\* What holds of tickets and emails goes on to hold.
Grown ==
  /\ \A t \in Ids : Safe(t) => Safe(t)'
  /\ \A t \in Ids : Closed(t) => Closed(t)'
  /\ emails' \in [Ids -> Nat] /\ \A t \in Ids : emails[t] > 0 => emails'[t] > 0

(* Then a row that could be in a table still can.                           *)
LEMMA RowsGrow ==
  ASSUME Grown
  PROVE  /\ Seq(JobRecord) \subseteq Seq(JobRecord')
         /\ \A t : RowsOf(t) \subseteq RowsOf(t)'
         /\ \A t : Seq(RowsOf(t)) \subseteq Seq(RowsOf(t)')
         /\ \A t : Seq(RowsOf(t) \cup {Torn}) \subseteq Seq(RowsOf(t)' \cup {Torn})
  <1>1. JobRecord \subseteq JobRecord'
    BY DEF JobRecord, Grown
  <1>2. JobRow \subseteq JobRow'
    <2> SUFFICES ASSUME NEW r \in JobRow PROVE r \in JobRow'
      OBVIOUS
    <2>1. r \in Row /\ r.record.about \in Ids
      BY DEF JobRow, JobRecord, Row
    <2> QED  BY <1>1, <2>1 DEF JobRow, Grown
  <1>3. ASSUME NEW t PROVE RowsOf(t) \subseteq RowsOf(t)'
    BY <1>2 DEF RowsOf, TicketRow
  <1> QED  BY <1>1, <1>3, SeqMonotonic

(* The ticket table is what the server is writing to it, or its file.       *)
TicketTable ==
  Committed(tickets) = IF pc[server] = "write" /\ TableOf(server) = tickets
                       THEN seen[server] ELSE file[tickets]

LEMMA TicketTableIs == Base => TicketTable
  <1> SUFFICES ASSUME Base PROVE TicketTable
    OBVIOUS
  <1>1. \A p \in Procs : pc[p] = "write" /\ TableOf(p) = tickets => p = server
    BY OpsAre, Parties
  <1>2. CASE pc[server] = "write" /\ TableOf(server) = tickets
    <2> DEFINE w == CHOOSE q \in Procs : pc[q] = "write" /\ TableOf(q) = tickets
    <2>1. w \in Procs /\ pc[w] = "write" /\ TableOf(w) = tickets
      BY <1>2, Parties
    <2>2. Committed(tickets) = seen[w]
      BY <1>2, Parties DEF Committed
    <2> HIDE DEF w
    <2>3. w = server
      BY <1>1, <2>1
    <2> QED  BY <1>2, <2>2, <2>3 DEF TicketTable
  <1>3. CASE ~(pc[server] = "write" /\ TableOf(server) = tickets)
    BY <1>1, <1>3 DEF Committed, TicketTable
  <1> QED  BY <1>2, <1>3

LEMMA TicketTableNext == Base' => TicketTable'
  BY TicketTableIs, PTL

\* The row the two programs write.
RowFor(t, about, status) == [id |-> t, record |-> Rec(t, about, status)]

LEMMA RowForIs ==
  ASSUME NEW t \in Ids, NEW about \in Ids,
         NEW status \in {"open", "resolved", "pending", "processed"}
  PROVE  /\ RowFor(t, about, status) \in Row
         /\ about = t /\ status \in {"open", "resolved"} => RowFor(t, about, status) \in TicketRow
         /\ /\ Safe(about) /\ status \in {"pending", "processed"}
            /\ status = "processed" => emails[about] > 0
            => RowFor(t, about, status) \in JobRow
  <1> DEFINE record == Rec(t, about, status)
  <1>1. /\ record \in [id : Ids, about : Ids, status : {"open", "resolved", "pending", "processed"}]
        /\ record.id = t /\ record.about = about /\ record.status = status
    BY DEF Rec
  <1>2. /\ RowFor(t, about, status) \in Row
        /\ RowFor(t, about, status).id = t /\ RowFor(t, about, status).record = record
    BY <1>1, SupportAssumptions DEF RowFor, Row
  <1>3. Safe(about) /\ status \in {"pending", "processed"} => record \in JobRecord
    BY <1>1 DEF JobRecord, Rec
  <1> HIDE DEF RowFor, record
  <1>4. about = t /\ status \in {"open", "resolved"} => RowFor(t, about, status) \in TicketRow
    BY <1>1, <1>2 DEF TicketRow
  <1> QED  BY <1>1, <1>2, <1>3, <1>4 DEF JobRow

(* The row a call is to write fits its table.                               *)
LEMMA NewRowFits ==
  ASSUME Base, Facts, NEW p \in Procs, pc[p] # "idle", call[p].kind \in {"insert", "update"}
  PROVE  NewRow(call[p]) \in RowsOf(TableOf(p))
  <1>2. CASE p = server
    <2>1. call[server] = ServerOp /\ handler.at \in {"ticket", "job", "get", "update"}
          /\ handler.ticket \in Ids
      BY <1>2 DEF Base, Callers, Shapes, Handlers
    <2>2. CASE handler.at = "ticket"
      <3>1. TableOf(p) = tickets /\ NewRow(call[p]) = RowFor(handler.ticket, handler.ticket, "open")
        BY <1>2, <2>1, <2>2 DEF ServerOp, TableOf, Insert, NewRow, RowFor, Rec
      <3> QED  BY <2>1, <3>1, RowForIs DEF RowsOf
    <2>3. CASE handler.at = "job"
      <3>1. TableOf(p) = jobs /\ NewRow(call[p]) = RowFor(handler.ticket, handler.ticket, "pending")
        BY <1>2, <2>1, <2>3 DEF ServerOp, TableOf, Insert, NewRow, RowFor, Rec
      <3>2. Safe(handler.ticket)
        BY <2>3 DEF Facts, HandlerKnows
      <3> QED  BY <2>1, <3>1, <3>2, RowForIs, Parties DEF RowsOf
    <2>4. CASE handler.at = "get"
      BY <1>2, <2>1, <2>4 DEF ServerOp, Get
    <2>5. CASE handler.at = "update"
      <3>1. TableOf(p) = tickets /\ NewRow(call[p]) = RowFor(handler.ticket, handler.ticket, "resolved")
        BY <1>2, <2>1, <2>5 DEF ServerOp, TableOf, Update, NewRow, RowFor, Rec
      <3> QED  BY <2>1, <3>1, RowForIs DEF RowsOf
    <2> QED  BY <2>1, <2>2, <2>3, <2>4, <2>5
  <1>3. CASE p = worker
    <2>1. call[worker] = WorkerOp /\ drain.at \in {"list", "update"}
          /\ (drain.at = "update" => drain.todo # <<>>)
      BY <1>3 DEF Base, Callers
    <2>2. drain.at = "update"
      BY <1>3, <2>1 DEF WorkerOp, List
    <2>3. NextJob \in JobRecord /\ emails[NextJob.about] > 0
      BY <2>1, <2>2, HeadTailProperties DEF Facts, WorkerKnows, NextJob
    <2>4. TableOf(p) = jobs /\ NewRow(call[p]) = RowFor(NextJob.id, NextJob.about, "processed")
      BY <1>3, <2>1, <2>2 DEF WorkerOp, TableOf, Update, NewRow, RowFor, Rec
    <2>5. NextJob.id \in Ids /\ NextJob.about \in Ids /\ Safe(NextJob.about)
      BY <2>3 DEF JobRecord
    <2> QED  BY <2>3, <2>4, <2>5, RowForIs, Parties DEF RowsOf
  <1> QED  BY <1>2, <1>3, OpsAre

LEMMA RowsOfRow == ASSUME NEW t PROVE RowsOf(t) \subseteq Row /\ Torn \notin RowsOf(t)
  BY DbAssumptions DEF RowsOf, TicketRow, JobRow

(* A call that writes is an insert or an update of fitting rows.            *)
LEMMA WriteFits ==
  ASSUME Base, Facts, NEW p \in Procs, pc[p] = "write"
  PROVE  /\ call[p].kind \in {"insert", "update"} /\ TableOf(p) \in {tickets, jobs}
         /\ seen[p] \in Seq(RowsOf(TableOf(p))) /\ Writes(call[p], seen[p])
         /\ NewRow(call[p]) \in RowsOf(TableOf(p))
         /\ Apply(call[p], seen[p]) \in Seq(RowsOf(TableOf(p)))
  <1>1. seen[p] \in Seq(RowsOf(TableOf(p))) /\ Writes(call[p], seen[p])
    BY DEF Facts, Rows
  <1>2. call[p].kind \in {"insert", "update"} /\ TableOf(p) \in {tickets, jobs}
    BY <1>1, OpsAre DEF Writes
  <1>3. NewRow(call[p]) \in RowsOf(TableOf(p))
    BY <1>2, NewRowFits
  <1>4. Apply(call[p], seen[p]) \in Seq(RowsOf(TableOf(p)))
    BY <1>1, <1>2, <1>3, RowsOfRow, ApplyAdds
  <1> QED  BY <1>1, <1>2, <1>3, <1>4

(* Each table keeps to its rows, when a call of p writes all or part.       *)
LEMMA FileFits ==
  ASSUME Base, Facts, NEW p \in Procs, Step(p) \/ Fault(p)
  PROVE  \A t \in TableNames : file'[t] \in Seq(RowsOf(t) \cup {Torn})
  <1> SUFFICES ASSUME NEW t \in TableNames PROVE file'[t] \in Seq(RowsOf(t) \cup {Torn})
    OBVIOUS
  <1> DEFINE L == RowsOf(TableOf(p)) \cup {Torn}
             new == Apply(call[p], seen[p])
  <1>1. file[t] \in Seq(RowsOf(t) \cup {Torn}) /\ DOMAIN file = TableNames
    BY DEF Facts, Rows, Base, Shapes
  <1>2. CASE file' = file
    BY <1>1, <1>2
  <1>3. CASE file' = [file EXCEPT ![TableOf(p)] = <<>>]
    <2>1. <<>> \in Seq(RowsOf(t) \cup {Torn})
      BY EmptySeq
    <2> QED  BY <1>1, <1>3, <2>1
  <1>4. ASSUME pc[p] = "write", NEW rows, rows = new \/ rows \in Partial(new),
               NEW lines \in Overlay(file[TableOf(p)], rows),
               file' = [file EXCEPT ![TableOf(p)] = lines]
        PROVE  file'[t] \in Seq(RowsOf(t) \cup {Torn})
    <2>1. new \in Seq(RowsOf(TableOf(p))) /\ TableOf(p) \in TableNames
      BY <1>4, WriteFits, Parties
    <2> HIDE DEF new
    <2>2. new \in Seq(L)
      BY <2>1, SeqMonotonic
    <2>3. rows \in Seq(L)
      BY <1>4, <2>1, <2>2, PartialCuts
    <2>4. file[TableOf(p)] \in Seq(L)
      BY <2>1 DEF Facts, Rows
    <2>5. lines \in Seq(L)
      BY <1>4, <2>3, <2>4, OverlayMixes
    <2> QED  BY <1>1, <1>4, <2>5
  <1>5. CASE WriteRows(p)
    <2>1. pc[p] = "write"
          /\ \E lines \in Overlay(file[TableOf(p)], new) : file' = [file EXCEPT ![TableOf(p)] = lines]
      BY <1>5 DEF WriteRows
    <2> QED  BY <1>4, <2>1
  <1>6. CASE Fault(p)
    <2>1. CASE pc[p] = "write"
      <3>1. \E part \in Partial(new) : \E lines \in Overlay(file[TableOf(p)], part) :
               file' = [file EXCEPT ![TableOf(p)] = lines]
        BY <1>6, <2>1 DEF Fault
      <3> QED  BY <1>4, <2>1, <3>1
    <2>2. CASE pc[p] # "write"
      BY <1>2, <1>6, <2>2 DEF Fault
    <2> QED  BY <2>1, <2>2
  <1>7. CASE ReadTable(p)
    BY <1>2, <1>7 DEF ReadTable
  <1>8. CASE OpenForWriting(p)
    BY <1>3, <1>8 DEF OpenForWriting
  <1> QED  BY <1>5, <1>6, <1>7, <1>8 DEF Step

(* What a call of p has read, and goes on to rest its write on, are rows.   *)
LEMMA SeenFits ==
  ASSUME Base, Facts, NEW p \in Procs, Step(p) \/ Fault(p), NEW q \in Procs,
         pc'[q] \in {"open", "write"}
  PROVE  /\ TableOf(q)' = TableOf(q) /\ call'[q] = call[q]
         /\ seen'[q] \in Seq(RowsOf(TableOf(q))) /\ Writes(call[q], seen'[q])
  <1>1. CASE q # p \/ OpenForWriting(p)
    <2>1. pc[q] \in {"open", "write"} /\ call'[q] = call[q] /\ seen'[q] = seen[q]
      BY <1>1 DEF Step, ReadTable, OpenForWriting, WriteRows, Fault, Returns, Base, Shapes
    <2> QED  BY <2>1 DEF TableOf, Facts, Rows
  <1>2. CASE q = p /\ ~OpenForWriting(p)
    <2>1. \A r : ~Returns(p, r)
      BY <1>2 DEF Returns, Base, Shapes
    <2>2. ReadTable(p)
      BY <1>2, <2>1 DEF Step, WriteRows, Fault
    <2>3. pc[p] = "read" /\ ~Corrupt(file[TableOf(p)]) /\ Writes(call[p], file[TableOf(p)])
          /\ seen' = [seen EXCEPT ![p] = file[TableOf(p)]] /\ call' = call
      BY <2>1, <2>2 DEF ReadTable
    <2>4. TableOf(p) \in TableNames
      BY <2>3, OpsAre, Parties
    <2>5. file[TableOf(p)] \in Seq(RowsOf(TableOf(p)) \cup {Torn})
      BY <2>4 DEF Facts, Rows
    <2>6. file[TableOf(p)] \in Seq(RowsOf(TableOf(p)))
      <3> DEFINE lines == file[TableOf(p)]
                 S == RowsOf(TableOf(p))
      <3>1. lines \in [1..Len(lines) -> S \cup {Torn}] /\ Len(lines) \in Nat
            /\ DOMAIN lines = 1..Len(lines)
        BY <2>5, LenProperties
      <3>2. \A i \in 1..Len(lines) : lines[i] # Torn
        BY <2>3, <3>1 DEF Corrupt
      <3> HIDE DEF lines, S
      <3>3. lines \in [1..Len(lines) -> S]
        BY <3>1, <3>2
      <3>4. lines \in Seq(S)
        BY <3>1, <3>3
      <3> QED  BY <3>4 DEF lines, S
    <2> QED  BY <1>2, <2>3, <2>6 DEF TableOf, Base, Shapes
  <1> QED  BY <1>1, <1>2

(* A call that is not writing tickets leaves that table as it is.           *)
LEMMA TicketsUntouched ==
  ASSUME Base, Base', NEW p \in Procs, Step(p) \/ Fault(p),
         ~(p = server /\ pc[p] = "write" /\ TableOf(p) = tickets)
  PROVE  Committed(tickets)' = Committed(tickets)
  <1>1. TicketTable /\ TicketTable'
    BY TicketTableIs, TicketTableNext
  <1>2. pc[p] # "idle" /\ (p # server => TableOf(p) # tickets)
    BY OpsAre, Parties DEF Step, ReadTable, OpenForWriting, WriteRows, Fault
  <1>3. CASE p # server
    <2>1. file'[tickets] = file[tickets]
      BY <1>2, <1>3, Parties DEF Step, ReadTable, OpenForWriting, WriteRows, Fault, Base, Shapes
    <2>2. pc'[server] = pc[server] /\ call'[server] = call[server] /\ seen'[server] = seen[server]
      BY <1>3, Parties
         DEF Step, ReadTable, OpenForWriting, WriteRows, Fault, Returns, Base, Shapes
    <2> QED  BY <1>1, <2>1, <2>2 DEF TicketTable, TableOf
  <1>4. CASE p = server /\ TableOf(p) # tickets
    <2>1. file'[tickets] = file[tickets]
      BY <1>4, Parties DEF Step, ReadTable, OpenForWriting, WriteRows, Fault, Base, Shapes
    <2>2. pc'[server] = "idle" \/ call'[server] = call[server]
      BY <1>4, Parties
         DEF Step, ReadTable, OpenForWriting, WriteRows, Fault, Returns, Base, Shapes
    <2> QED  BY <1>1, <1>4, <2>1, <2>2 DEF TicketTable, TableOf
  <1>5. CASE p = server /\ TableOf(p) = tickets /\ pc[p] # "write"
    <2>1. Committed(tickets) = file[tickets]
      BY <1>1, <1>5 DEF TicketTable
    <2>2. CASE OpenForWriting(p)
      <3>1. pc[server] = "open" /\ call' = call /\ seen' = seen /\ pc'[server] = "write"
        BY <1>5, <2>2, Parties DEF OpenForWriting, Base, Shapes
      <3>2. seen[server] = file[tickets]
        BY <1>5, <3>1 DEF Base, TicketFile
      <3> QED  BY <1>1, <1>5, <2>1, <3>1, <3>2 DEF TicketTable, TableOf
    <2>3. CASE ReadTable(p) \/ Fault(p)
      <3>1. file' = file /\ pc'[server] \in {"idle", "open"}
        BY <1>5, <2>3, Parties DEF ReadTable, Fault, Returns, Base, Shapes
      <3> QED  BY <1>1, <2>1, <3>1 DEF TicketTable
    <2> QED  BY <1>5, <2>2, <2>3 DEF Step, WriteRows
  <1> QED  BY <1>3, <1>4, <1>5

(* A row that is there is found.                                            *)
LEMMA HoldsRow ==
  ASSUME NEW rows \in Seq(Row), NEW i \in DOMAIN rows, NEW statuses,
         rows[i].record.about = rows[i].id, rows[i].record.status \in statuses
  PROVE  Holds(rows, rows[i].id, statuses)
  <1>1. rows[i] \in Row
    BY LenProperties, ElementOfSeq
  <1> QED  BY <1>1, DbAssumptions DEF Holds

(* A write of tickets replaces rows only by resolved ones.                  *)
LEMMA TicketsWritten ==
  ASSUME Base, Base', Facts, WriteRows(server), TableOf(server) = tickets
  PROVE  /\ \A t \in Ids : Holds(Committed(tickets), t, {"open", "resolved"})
                             => Holds(Committed(tickets)', t, {"open", "resolved"})
         /\ \A t \in Ids : Holds(Committed(tickets), t, {"resolved"})
                             => Holds(Committed(tickets)', t, {"resolved"})
         /\ Holds(Committed(tickets)', handler.ticket, {"open", "resolved"})
         /\ handler.at = "update" => Holds(Committed(tickets)', handler.ticket, {"resolved"})
  <1> DEFINE op == call[server]
             old == seen[server]
             new == Apply(op, old)
             row == NewRow(op)
  <1>1. pc[server] = "write" /\ handler.ticket \in Ids /\ op = ServerOp
        /\ handler.at \in {"ticket", "job", "get", "update"}
    BY DEF WriteRows, Base, Shapes, Handlers, Callers
  <1>2. /\ op.kind \in {"insert", "update"} /\ old \in Seq(TicketRow) /\ Writes(op, old)
        /\ row \in TicketRow /\ new \in Seq(TicketRow)
    BY <1>1, WriteFits, Parties DEF RowsOf
  <1>3. /\ row.id = handler.ticket /\ row.record.about = row.id
        /\ row.record.status \in {"open", "resolved"}
        /\ handler.at = "update" \/ op.kind = "update" => row.record.status = "resolved"
    <2>1. handler.at \in {"ticket", "update"}
      BY <1>1, <1>2, Parties DEF ServerOp, TableOf, Insert, Get
    <2>2. CASE handler.at = "ticket"
      BY <1>1, <2>2 DEF ServerOp, Insert, NewRow, Rec
    <2>3. CASE handler.at = "update"
      BY <1>1, <2>3 DEF ServerOp, Update, NewRow, Rec
    <2> QED  BY <2>1, <2>2, <2>3
  <1>4. Committed(tickets) = old /\ Committed(tickets)' = new
    <2>1. TicketTable /\ TicketTable'
      BY TicketTableIs, TicketTableNext
    <2>2. file[tickets] = <<>> /\ pc'[server] = "idle"
      BY <1>1, Parties DEF Base, TicketFile, WriteRows, Returns, Shapes
    <2>3. Overlay(<<>>, new) = {new}
      <3>1. new \in Seq(Line)
        BY <1>2, SeqMonotonic DEF TicketRow, Line
      <3> QED  BY <3>1, OverlayEmpty
    <2>4. file' = [file EXCEPT ![tickets] = new]
      BY <2>2, <2>3 DEF WriteRows
    <2> QED  BY <1>1, <2>1, <2>2, <2>4, Parties DEF TicketTable, Base, Shapes
  <1>5. TicketRow \in SUBSET Row /\ new \in Seq(Row) /\ old \in Seq(Row)
    BY <1>2, SeqMonotonic DEF TicketRow
  <1>6. /\ \E i \in DOMAIN new : new[i] = row
        /\ \A i \in DOMAIN old :
             /\ i \in DOMAIN new
             /\ new[i] = old[i] \/ (op.kind = "update" /\ old[i].id = op.id /\ new[i] = row)
    BY <1>2, <1>5, ApplyAdds
  <1>7. row.id = op.id
    BY DEF NewRow
  <1> HIDE DEF op, old, new, row
  <1>8. ASSUME NEW t \in Ids, NEW statuses, "resolved" \in statuses, Holds(old, t, statuses)
        PROVE  Holds(new, t, statuses)
    <2>1. PICK i \in DOMAIN old : /\ old[i].id = t /\ old[i].record.about = t
                                /\ old[i].record.status \in statuses
      BY <1>8 DEF Holds
    <2>2. /\ i \in DOMAIN new /\ new[i].id = t /\ new[i].record.about = t
         /\ new[i].record.status \in statuses
      BY <1>3, <1>6, <1>7, <1>8, <2>1
    <2> QED  BY <1>5, <2>2, HoldsRow
  <1>9. ASSUME NEW statuses, row.record.status \in statuses
        PROVE  Holds(new, handler.ticket, statuses)
    BY <1>3, <1>5, <1>6, <1>9, HoldsRow
  <1> QED  BY <1>3, <1>4, <1>8, <1>9

(* A step of the store.                                                     *)
InStore(p) ==
  /\ \/ Step(p) /\ damaged' = damaged
     \/ Fault(p) /\ damaged' = IF pc[p] = "write" THEN damaged \cup {TableOf(p)} ELSE damaged
  /\ UNCHANGED <<handler, drain, tokens, history>>

LEMMA StoreGrown ==
  ASSUME Base, Base', Facts, NEW p \in Procs, InStore(p)
  PROVE  Grown
  <1>1. emails' = emails /\ emails \in [Ids -> Nat] /\ damaged \subseteq damaged'
    BY DEF InStore, history, Facts, Recorded
  <1>2. CASE ~(p = server /\ pc[p] = "write" /\ TableOf(p) = tickets)
    BY <1>1, <1>2, TicketsUntouched DEF InStore, Grown, Safe, Closed
  <1>3. CASE p = server /\ pc[p] = "write" /\ TableOf(p) = tickets /\ ~WriteRows(p)
    <2>1. tickets \in damaged'
      BY <1>3 DEF InStore, Step, ReadTable, OpenForWriting
    <2> QED  BY <1>1, <2>1 DEF Grown, Safe, Closed
  <1>4. CASE p = server /\ TableOf(p) = tickets /\ WriteRows(p)
    BY <1>1, <1>4, TicketsWritten DEF Grown, Safe, Closed
  <1> QED  BY <1>2, <1>3, <1>4

(* What the handler knows when its call returns.                            *)
LEMMA StoreHandler ==
  ASSUME Base, Base', Facts, NEW p \in Procs, InStore(p)
  PROVE  HandlerKnows'
  <1>1. Grown /\ handler' = handler /\ opened' = opened /\ HandlerKnows
        /\ (handler.at # "idle" => handler.ticket \in Ids)
    BY StoreGrown DEF InStore, history, Facts, Base, Shapes
  <1>2. CASE p # server
    <2>1. pc'[server] = pc[server] /\ result'[server] = result[server]
      BY <1>2, Parties
         DEF InStore, Step, ReadTable, OpenForWriting, WriteRows, Fault, Returns, Base, Shapes
    <2> QED  BY <1>1, <2>1 DEF HandlerKnows, TicketRead, Returned, Grown
  <1>3. CASE p = server
    <2>1. pc[server] # "idle" /\ call[server] = ServerOp /\ handler.at # "idle"
      BY <1>3 DEF InStore, Step, ReadTable, OpenForWriting, WriteRows, Fault, Base, Callers
    <2>2. ASSUME Returned(server)', handler.at \in {"ticket", "update"}
          PROVE  /\ handler.at = "ticket" => Safe(handler.ticket)'
                 /\ handler.at = "update" => Closed(handler.ticket)'
      <3> DEFINE t == handler.ticket
      <3>1. TableOf(server) = tickets /\ call[server].kind \in {"insert", "update"}
            /\ call[server].id = t /\ t \in Ids
            /\ (handler.at = "ticket" => call[server].kind = "insert")
            /\ (handler.at = "update" => call[server].kind = "update")
        BY <1>1, <2>1, <2>2 DEF ServerOp, TableOf, Insert, Update, Rec
      <3>2. CASE WriteRows(server)
        BY <1>1, <3>1, <3>2, TicketsWritten DEF Safe, Closed
      <3>3. CASE ReadTable(server)
        <4> DEFINE lines == file[tickets]
        <4>1. pc[server] = "read" /\ pc'[server] = "idle" /\ result'[server] # Error
          BY <2>2, <3>3, Parties DEF Returned, ReadTable
        <4>2. ~Corrupt(lines) /\ ~Writes(call[server], lines)
          BY <3>1, <3>3, <4>1, Parties DEF ReadTable, Returns, Base, Shapes
        <4>3. Committed(tickets) = lines /\ Committed(tickets)' = lines
          BY <1>3, <3>3, <4>1, TicketTableIs, TicketsUntouched DEF Step, TicketTable
        <4>4. lines \in Seq(TicketRow \cup {Torn})
          BY Parties DEF Facts, Rows, RowsOf
        <4>5. \A i \in DOMAIN lines : lines[i] \in TicketRow
          BY <4>2, <4>4, LenProperties, ElementOfSeq DEF Corrupt
        <4>6. CASE handler.at = "ticket"
          <5>1. RowOf(lines, t) # {}
            BY <3>1, <4>2, <4>6 DEF Writes
          <5>2. PICK i \in DOMAIN lines : lines[i].id = t
            BY <5>1 DEF RowOf
          <5>3. /\ lines[i].record.status \in {"open", "resolved"} /\ lines[i] # Torn
                /\ lines[i].record.about = t
            BY <5>2, <4>2, <4>5 DEF TicketRow, Corrupt
          <5>4. Holds(lines, t, {"open", "resolved"})
            BY <5>2, <5>3 DEF Holds
          <5> QED  BY <1>1, <4>3, <4>6, <5>4 DEF Safe
        <4>7. CASE handler.at = "update"
          <5>1. RowOf(lines, t) = {}
            BY <3>1, <4>2, <4>7 DEF Writes
          <5>2. ~Holds(lines, t, {"open", "resolved"})
            BY <5>1 DEF Holds, RowOf
          <5>3. Safe(t)
            BY <1>1, <4>7 DEF HandlerKnows, Facts, Recorded
          <5>4. tickets \in damaged
            BY <4>3, <5>2, <5>3 DEF Safe
          <5> QED  BY <1>1, <4>7, <5>4 DEF Closed, InStore
        <4> QED  BY <2>2, <4>6, <4>7
      <3>4. CASE Fault(server) \/ OpenForWriting(server)
        BY <2>2, <3>4, Parties DEF Returned, Fault, OpenForWriting, Returns, Base, Shapes
      <3> QED  BY <1>3, <3>2, <3>3, <3>4 DEF InStore, Step
    <2>3. handler.at = "job" => Safe(handler.ticket)'
      BY <1>1 DEF HandlerKnows, Grown
    <2>4. TicketRead'
      <3> SUFFICES ASSUME handler.at = "get", Returned(server)', result'[server].status = "some"
                   PROVE  result'[server].records[1].about = handler.ticket
        BY <1>1 DEF TicketRead
      <3> DEFINE t == handler.ticket
                 lines == file[tickets]
      <3>1. call[server] = Get(tickets, t) /\ TableOf(server) = tickets
            /\ call[server].kind = "get" /\ call[server].id = t
        BY <2>1 DEF ServerOp, TableOf, Get
      <3>2. ~WriteRows(server)
        BY <3>1, WriteFits, Parties DEF WriteRows
      <3>3. ReadTable(server)
        BY <1>3, <3>2, Parties
           DEF InStore, Step, OpenForWriting, Fault, Returned, Returns, Base, Shapes
      <3>4. ~Corrupt(lines) /\ result'[server] = Answer(call[server], lines)
        BY <3>1, <3>3, Parties DEF ReadTable, Returned, Returns, Base, Shapes, Writes
      <3>5. lines \in Seq(TicketRow \cup {Torn})
        BY Parties DEF Facts, Rows, RowsOf
      <3>6. (\A i \in DOMAIN lines : lines[i] \in TicketRow) /\ lines \in Seq(Row)
        <4>1. lines \in [1..Len(lines) -> TicketRow \cup {Torn}] /\ Len(lines) \in Nat
              /\ DOMAIN lines = 1..Len(lines)
          BY <3>5, LenProperties
        <4>2. \A i \in 1..Len(lines) : lines[i] # Torn
          BY <3>4, <4>1 DEF Corrupt
        <4> HIDE DEF lines
        <4>3. \A i \in 1..Len(lines) : lines[i] \in TicketRow
          BY <4>1, <4>2
        <4>4. lines \in [1..Len(lines) -> Row]
          BY <4>1, <4>3 DEF TicketRow
        <4> QED  BY <4>1, <4>3, <4>4
      <3> DEFINE at == RowOf(lines, t)
      <3>7. at # {} /\ result'[server].records = <<lines[First(at)].record>>
        BY <3>1, <3>4 DEF Answer, Result, None
      <3>8. First(at) \in DOMAIN lines /\ lines[First(at)].id = t
        BY <3>6, <3>7, LenProperties, FirstIsIn
      <3>9. lines[First(at)].record.about = t
        BY <3>6, <3>8 DEF TicketRow
      <3> QED  BY <3>7, <3>9
    <2> QED  BY <1>1, <2>2, <2>3, <2>4 DEF HandlerKnows
  <1> QED  BY <1>2, <1>3

(* What the worker knows when its call returns.                             *)
LEMMA StoreWorker ==
  ASSUME Base, Base', Facts, NEW p \in Procs, InStore(p)
  PROVE  WorkerKnows'
  <1>1. Grown /\ drain' = drain /\ WorkerKnows /\ emails' = emails
    BY StoreGrown DEF InStore, history, Facts
  <1>2. Seq(JobRecord) \subseteq Seq(JobRecord')
    BY <1>1, RowsGrow
  <1>3. ASSUME drain.at = "list", Returned(worker)'
        PROVE  result'[worker].records \in Seq(JobRecord)
    <2>1. CASE p # worker
      <3>1. pc'[worker] = pc[worker] /\ result'[worker] = result[worker]
        BY <2>1, Parties
           DEF InStore, Step, ReadTable, OpenForWriting, WriteRows, Fault, Returns, Base, Shapes
      <3> QED  BY <1>1, <1>3, <3>1 DEF WorkerKnows, Returned
    <2>2. CASE p = worker
      <3>1. pc[worker] # "idle"
        BY <2>2 DEF InStore, Step, ReadTable, OpenForWriting, WriteRows, Fault
      <3>2. call[worker] = List(jobs) /\ call[worker].kind = "list" /\ TableOf(worker) = jobs
        BY <1>3, <3>1 DEF Base, Callers, WorkerOp, List, TableOf
      <3>3. ~WriteRows(worker)
        BY <3>2, WriteFits, Parties DEF WriteRows
      <3>4. ReadTable(worker)
        BY <1>3, <2>2, <3>3, Parties
           DEF InStore, Step, OpenForWriting, Fault, Returned, Returns, Base, Shapes
      <3> DEFINE lines == file[jobs]
      <3>5. ~Corrupt(lines) /\ result'[worker] = Answer(call[worker], lines)
        BY <1>3, <3>2, <3>4, Parties DEF ReadTable, Returned, Returns, Base, Shapes, Writes
      <3>6. result'[worker].records = [i \in DOMAIN lines |-> lines[i].record]
        BY <3>2, <3>5 DEF Answer, Result
      <3>7. lines \in Seq(JobRow \cup {Torn})
        BY Parties DEF Facts, Rows, RowsOf
      <3>8. DOMAIN lines = 1..Len(lines) /\ Len(lines) \in Nat
            /\ \A i \in 1..Len(lines) : lines[i] \in JobRow
        BY <3>5, <3>7, LenProperties, ElementOfSeq DEF Corrupt
      <3>9. \A i \in 1..Len(lines) : lines[i].record \in JobRecord
        BY <3>8 DEF JobRow
      <3> HIDE DEF lines
      <3>10. [i \in DOMAIN lines |-> lines[i].record] \in [1..Len(lines) -> JobRecord]
        BY <3>8, <3>9
      <3> QED  BY <3>6, <3>8, <3>10
    <2> QED  BY <2>1, <2>2
  <1>4. drain.at = "update" => emails'[NextJob.about] > 0 /\ NextJob' = NextJob
    BY <1>1 DEF WorkerKnows, NextJob
  <1> QED  BY <1>1, <1>2, <1>3, <1>4 DEF WorkerKnows

LEMMA StoreFacts ==
  ASSUME Base, Base', Facts, NEW p \in Procs, InStore(p)
  PROVE  Facts'
  <1>1. Grown
    BY StoreGrown
  <1>2. Rows'
    <2>1. ASSUME NEW t \in TableNames PROVE (file[t] \in Seq(RowsOf(t) \cup {Torn}))'
      <3>1. RowsOf(t) \cup {Torn} \subseteq RowsOf(t)' \cup {Torn}
        BY <1>1, RowsGrow
      <3> QED  BY <3>1, FileFits, SeqMonotonic DEF InStore
    <2>2. ASSUME NEW q \in Procs, (pc[q] \in {"open", "write"})'
          PROVE  (seen[q] \in Seq(RowsOf(TableOf(q))) /\ Writes(call[q], seen[q]))'
      <3>1. /\ TableOf(q)' = TableOf(q) /\ call'[q] = call[q]
            /\ seen'[q] \in Seq(RowsOf(TableOf(q))) /\ Writes(call[q], seen'[q])
        BY <2>2, SeenFits DEF InStore
      <3>2. RowsOf(TableOf(q)) \subseteq RowsOf(TableOf(q))'
        BY <1>1, <3>1, RowsGrow DEF RowsOf
      <3>3. seen'[q] \in Seq(RowsOf(TableOf(q))')
        BY <3>1, <3>2, SeqMonotonic
      <3> QED  BY <3>1, <3>3 DEF Writes
    <2> QED  BY <2>1, <2>2, Zenon DEF Rows
  <1>3. Recorded'
    <2>1. emails' = emails /\ opened' = opened /\ resolved' = resolved
      BY DEF InStore, history
    <2> QED  BY <1>1, <2>1 DEF Facts, Recorded, Grown
  <1> QED  BY <1>2, <1>3, StoreHandler, StoreWorker DEF Facts

\* A step outside the store: tables and what was read from them stay, and a
\* call may begin.
Outside ==
  /\ file' = file /\ seen' = seen /\ result' = result /\ damaged' = damaged
  /\ \A p \in Procs : \/ pc'[p] = pc[p] /\ call'[p] = call[p]
                      \/ pc[p] = "idle" /\ pc'[p] = "read"

LEMMA CallIsOutside ==
  ASSUME Base, NEW p \in Procs, NEW op, Call(p, op), damaged' = damaged
  PROVE  Outside /\ pc'[p] = "read" /\ \A q \in Procs \ {p} : pc'[q] = pc[q]
  BY DEF Call, Outside, Base, Shapes

LEMMA OutsideIs ==
  ASSUME Base, Base', Facts, Outside,
         emails' \in [Ids -> Nat], \A t \in Ids : emails[t] > 0 => emails'[t] > 0
  PROVE  Grown /\ Rows' /\ Committed(tickets)' = Committed(tickets)
  <1>1. Committed(tickets)' = Committed(tickets)
    <2>1. TicketTable /\ TicketTable'
      BY TicketTableIs, TicketTableNext
    <2>2. (pc'[server] = "write" <=> pc[server] = "write")
          /\ (pc[server] = "write" => TableOf(server)' = TableOf(server))
      BY Parties DEF Outside, TableOf
    <2> QED  BY <2>1, <2>2 DEF Outside, TicketTable
  <1>2. Grown
    BY <1>1 DEF Grown, Safe, Closed, Outside
  <1>3. Rows'
    <2>1. ASSUME NEW t \in TableNames PROVE (file[t] \in Seq(RowsOf(t) \cup {Torn}))'
      <3>1. RowsOf(t) \cup {Torn} \subseteq RowsOf(t)' \cup {Torn}
        BY <1>2, RowsGrow
      <3>2. file'[t] \in Seq(RowsOf(t) \cup {Torn})
        BY DEF Outside, Facts, Rows
      <3> QED  BY <3>1, <3>2, SeqMonotonic
    <2>2. ASSUME NEW q \in Procs, (pc[q] \in {"open", "write"})'
          PROVE  (seen[q] \in Seq(RowsOf(TableOf(q))) /\ Writes(call[q], seen[q]))'
      <3>1. /\ TableOf(q)' = TableOf(q) /\ call'[q] = call[q] /\ seen'[q] = seen[q]
            /\ seen[q] \in Seq(RowsOf(TableOf(q))) /\ Writes(call[q], seen[q])
        BY <2>2 DEF Outside, TableOf, Facts, Rows
      <3>2. RowsOf(TableOf(q)) \subseteq RowsOf(TableOf(q))'
        BY <1>2, <3>1, RowsGrow DEF RowsOf
      <3>3. seen'[q] \in Seq(RowsOf(TableOf(q))')
        BY <3>1, <3>2, SeqMonotonic
      <3> QED  BY <3>1, <3>3 DEF Writes
    <2> QED  BY <2>1, <2>2, Zenon DEF Rows
  <1> QED  BY <1>1, <1>2, <1>3

(* A program that does not take the step knows what it knew.                *)
LEMMA OthersKnow ==
  ASSUME Base, Facts, Grown
  PROVE  /\ /\ drain' = drain
            /\ result'[worker] = result[worker] /\ pc'[worker] = pc[worker]
            => WorkerKnows'
         /\ /\ handler' = handler /\ opened \subseteq opened'
            /\ result'[server] = result[server] /\ pc'[server] = pc[server]
            => HandlerKnows'
  <1>1. ASSUME drain' = drain, result'[worker] = result[worker], pc'[worker] = pc[worker]
        PROVE  WorkerKnows'
    <2>1. Seq(JobRecord) \subseteq Seq(JobRecord')
      BY RowsGrow
    <2>2. drain.at = "update" => NextJob \in JobRecord /\ NextJob.about \in Ids
      <3>1. drain.at = "update" => NextJob \in JobRecord
        BY HeadTailProperties DEF Base, Callers, NextJob, Facts, WorkerKnows
      <3> QED  BY <3>1 DEF JobRecord
    <2>3. NextJob' = NextJob
      BY <1>1 DEF NextJob
    <2> QED  BY <1>1, <2>1, <2>2, <2>3 DEF Facts, WorkerKnows, Returned, Grown
  <1>2. ASSUME handler' = handler, opened \subseteq opened', result'[server] = result[server],
               pc'[server] = pc[server]
        PROVE  HandlerKnows'
    <2>1. handler.at # "idle" => handler.ticket \in Ids
      BY DEF Base, Shapes
    <2> QED  BY <1>2, <2>1 DEF Facts, HandlerKnows, TicketRead, Returned, Grown
  <1> QED  BY <1>1, <1>2

(* A step of the server outside the store.                                  *)
LEMMA ServerKnows ==
  ASSUME Base, Base', Facts, Outside, emails' = emails, drain' = drain,
         pc'[worker] = pc[worker],
         opened' \subseteq Ids, resolved' \subseteq Ids,
         Grown => /\ \A t \in opened' \ opened : Safe(t)'
                  /\ \A t \in resolved' \ resolved : Closed(t)'
                  /\ HandlerKnows'
  PROVE  Facts'
  <1>1. Grown /\ Rows'
    BY OutsideIs DEF Facts, Recorded
  <1>2. WorkerKnows'
    BY <1>1, OthersKnow DEF Outside
  <1>3. Recorded'
    BY <1>1 DEF Facts, Recorded, Grown
  <1> QED  BY <1>1, <1>2, <1>3 DEF Facts

(* A step of the worker outside the store.                                  *)
LEMMA WorkerStep ==
  ASSUME Base, Base', Facts, Outside, handler' = handler, opened' = opened, resolved' = resolved,
         pc'[server] = pc[server],
         emails' \in [Ids -> Nat], \A t \in Ids : emails'[t] # emails[t] => emails'[t] > 0 /\ Safe(t),
         Grown => WorkerKnows'
  PROVE  Facts'
  <1>1. Grown /\ Rows'
    BY OutsideIs DEF Facts, Recorded
  <1>2. HandlerKnows'
    BY <1>1, OthersKnow DEF Outside
  <1>3. Recorded'
    BY <1>1 DEF Facts, Recorded, Grown
  <1> QED  BY <1>1, <1>2, <1>3 DEF Facts

(* Each action of the two programs.                                         *)
LEMMA NextFacts ==
  ASSUME Base, Base', Facts, [SupportNext]_vars
  PROVE  Facts'
  <1>1. ASSUME NEW t \in Ids, NEW negative \in BOOLEAN, CreateTicket(t, negative) PROVE Facts'
    <2>1. Outside /\ pc'[server] = "read" /\ pc'[worker] = pc[worker]
      BY <1>1, CallIsOutside, Parties DEF CreateTicket
    <2>2. HandlerKnows'
      BY <1>1, <2>1 DEF CreateTicket, HandlerKnows, TicketRead, Returned
    <2> QED  BY <1>1, <2>1, <2>2, ServerKnows DEF CreateTicket, history, Facts, Recorded
  <1>2. CASE EnqueueJob
    <2>1. Outside /\ pc'[server] = "read" /\ pc'[worker] = pc[worker]
      BY <1>2, CallIsOutside, Parties DEF EnqueueJob
    <2>2. handler' = [handler EXCEPT !.at = "job"] /\ handler \in Handlers
          /\ handler.ticket \in Ids /\ Safe(handler.ticket)
      BY <1>2 DEF EnqueueJob, Base, Shapes, Facts, HandlerKnows
    <2>3. handler'.at = "job" /\ handler'.ticket = handler.ticket
      BY <2>2 DEF Handlers
    <2>4. Grown => HandlerKnows'
      BY <2>2, <2>3 DEF HandlerKnows, TicketRead, Grown, Safe
    <2> QED  BY <1>2, <2>1, <2>4, ServerKnows DEF EnqueueJob, history, Facts, Recorded
  <1>3. ASSUME NEW t \in Ids, ResolveTicket(t) PROVE Facts'
    <2>1. Outside /\ pc'[server] = "read" /\ pc'[worker] = pc[worker]
      BY <1>3, CallIsOutside, Parties DEF ResolveTicket
    <2>2. HandlerKnows'
      BY <1>3, <2>1 DEF ResolveTicket, HandlerKnows, TicketRead, Returned, history
    <2> QED  BY <1>3, <2>1, <2>2, ServerKnows DEF ResolveTicket, history, Facts, Recorded
  <1>4. CASE MarkResolved
    <2>1. Outside /\ pc'[server] = "read" /\ pc'[worker] = pc[worker]
      BY <1>4, CallIsOutside, Parties DEF MarkResolved
    <2>2. handler' = [handler EXCEPT !.at = "update"] /\ handler \in Handlers
          /\ handler.ticket \in opened
      BY <1>4 DEF MarkResolved, Base, Shapes, Facts, HandlerKnows
    <2>3. handler'.at = "update" /\ handler'.ticket = handler.ticket
      BY <2>2 DEF Handlers
    <2>4. HandlerKnows'
      BY <1>4, <2>1, <2>2, <2>3 DEF MarkResolved, HandlerKnows, TicketRead, Returned, history
    <2> QED  BY <1>4, <2>1, <2>4, ServerKnows DEF MarkResolved, history, Facts, Recorded
  <1>5. CASE AnswerCreated \/ AnswerResolved \/ AnswerError
    <2>1. UNCHANGED dbVars /\ drain' = drain /\ emails' = emails /\ damaged' = damaged
          /\ handler' = Idle
      BY <1>5 DEF AnswerCreated, AnswerResolved, AnswerError, history
    <2>2. Outside /\ pc' = pc
      BY <2>1 DEF Outside, dbVars
    <2>3. HandlerKnows'
      BY <2>1 DEF HandlerKnows, TicketRead, Idle
    <2>4. handler.at # "idle" => handler.ticket \in Ids
      BY DEF Base, Shapes
    <2>5. CASE AnswerCreated
      <3>1. opened' = opened \cup {handler.ticket} /\ resolved' = resolved
            /\ handler.ticket \in Ids /\ Safe(handler.ticket)
        BY <2>4, <2>5 DEF AnswerCreated, Facts, HandlerKnows
      <3> QED  BY <2>1, <2>2, <2>3, <3>1, ServerKnows DEF Grown, Facts, Recorded
    <2>6. CASE AnswerResolved
      <3>1. resolved' = resolved \cup {handler.ticket} /\ opened' = opened
            /\ handler.ticket \in Ids /\ Closed(handler.ticket)
        BY <2>4, <2>6 DEF AnswerResolved, Facts, HandlerKnows
      <3> QED  BY <2>1, <2>2, <2>3, <3>1, ServerKnows DEF Grown, Facts, Recorded
    <2>7. CASE AnswerError
      BY <2>1, <2>2, <2>3, <2>7, ServerKnows DEF AnswerError, history, Facts, Recorded
    <2> QED  BY <1>5, <2>5, <2>6, <2>7
  <1>6. CASE StartWorker
    <2>1. Outside /\ pc'[worker] = "read" /\ pc'[server] = pc[server]
      BY <1>6, CallIsOutside, Parties DEF StartWorker
    <2>2. drain'.at = "list" /\ drain'.todo = drain.todo
      BY <1>6 DEF StartWorker, Base, Shapes
    <2>3. Grown => WorkerKnows'
      BY <2>1, <2>2, RowsGrow DEF WorkerKnows, Returned, Facts
    <2> QED  BY <1>6, <2>1, <2>3, WorkerStep DEF StartWorker, history, Facts, Recorded
  <1>7. CASE ProcessJob
    <2>1. Outside /\ pc'[worker] = "read" /\ pc'[server] = pc[server]
      BY <1>7, CallIsOutside, Parties DEF ProcessJob
    <2>2. drain'.at = "update" /\ drain'.todo = drain.todo /\ drain.todo # <<>>
      BY <1>7 DEF ProcessJob, Base, Shapes
    <2>3. NextJob \in JobRecord /\ NextJob' = NextJob
      BY <2>2, HeadTailProperties DEF Facts, WorkerKnows, NextJob
    <2>4. NextJob.about \in Ids /\ Safe(NextJob.about)
      BY <2>3 DEF JobRecord
    <2>5. emails' = [emails EXCEPT ![NextJob.about] = @ + 1] /\ emails \in [Ids -> Nat]
      BY <1>7 DEF ProcessJob, Facts, Recorded
    <2>6. /\ emails' \in [Ids -> Nat] /\ emails'[NextJob.about] > 0
          /\ \A t \in Ids : emails'[t] # emails[t] => emails'[t] > 0 /\ Safe(t)
      BY <2>4, <2>5
    <2>7. Grown => WorkerKnows'
      BY <2>2, <2>3, <2>6, RowsGrow DEF WorkerKnows, Facts
    <2> QED  BY <1>7, <2>1, <2>6, <2>7, WorkerStep DEF ProcessJob
  <1>8. CASE JobsListed \/ SkipJob \/ JobProcessed \/ WorkerExits
    <2>1. UNCHANGED dbVars /\ handler' = handler /\ emails' = emails /\ opened' = opened
          /\ resolved' = resolved /\ damaged' = damaged
      BY <1>8 DEF JobsListed, SkipJob, JobProcessed, WorkerExits, history
    <2>2. Outside /\ pc' = pc
      BY <2>1 DEF Outside, dbVars
    <2>3. drain'.at \in {"next", "off"}
      BY <1>8 DEF JobsListed, SkipJob, JobProcessed, WorkerExits, Off, Base, Shapes
    <2>4. drain'.todo \in Seq(JobRecord)
      <3>1. CASE JobsListed
        BY <3>1 DEF JobsListed, Facts, WorkerKnows
      <3>2. CASE WorkerExits
        BY <3>2, EmptySeq DEF WorkerExits, Off
      <3>3. CASE SkipJob \/ JobProcessed
        <4>1. drain.todo # <<>> /\ drain'.todo = Tail(drain.todo)
          BY <3>3 DEF SkipJob, JobProcessed, Base, Shapes, Callers
        <4> QED  BY <4>1, HeadTailProperties DEF Facts, WorkerKnows
      <3> QED  BY <1>8, <3>1, <3>2, <3>3
    <2>5. Grown => WorkerKnows'
      BY <2>3, <2>4, RowsGrow DEF WorkerKnows
    <2> QED  BY <2>1, <2>2, <2>5, WorkerStep DEF Facts, Recorded
  <1>9. CASE StoreStep \/ StoreFault
    <2>1. \E p \in Procs : InStore(p)
      BY <1>9 DEF StoreFault, StoreStep, InStore
    <2> QED  BY <2>1, StoreFacts
  <1>10. CASE UNCHANGED vars
    <2>1. /\ UNCHANGED dbVars /\ handler' = handler /\ drain' = drain /\ damaged' = damaged
          /\ emails' = emails /\ opened' = opened /\ resolved' = resolved
      BY <1>10 DEF vars, history
    <2>2. Outside /\ pc' = pc
      BY <2>1 DEF Outside, dbVars
    <2>3. Grown => HandlerKnows'
      BY <2>1, <2>2, OthersKnow DEF Outside
    <2> QED  BY <2>1, <2>2, <2>3, ServerKnows DEF Facts, Recorded
  <1> QED  BY <1>1, <1>2, <1>3, <1>4, <1>5, <1>6, <1>7, <1>8, <1>9, <1>10 DEF SupportNext, Quiet

LEMMA InitFacts ==
  ASSUME SupportInit
  PROVE  Facts
  <1>1. Rows
    BY EmptySeq DEF SupportInit, Init, Rows
  <1>2. Recorded /\ HandlerKnows /\ WorkerKnows
    BY EmptySeq DEF SupportInit, Recorded, HandlerKnows, TicketRead, WorkerKnows, Idle, Off
  <1> QED  BY <1>1, <1>2 DEF Facts

LEMMA SupportIsSound == SupportSpec => [](Base /\ Facts)
  <1>1. SupportInit => Base /\ Facts
    BY InitBase, InitFacts
  <1>2. Base /\ Facts /\ [SupportNext]_vars => Base' /\ Facts'
    BY NextBase, NextFacts DEF Facts, HandlerKnows
  <1> QED  BY <1>1, <1>2, PTL DEF SupportSpec

-----------------------------------------------------------------------------
(* Theorems *)

(* A ticket the server has confirmed is neither lost nor altered, and a     *)
(* confirmed resolution not undone, while server and worker run side by side, unless  *)
(* a fault hit the ticket table amid a write.                               *)
THEOREM ConfirmedTicketsKept == SupportSpec => []TicketsKept
  <1>1. Base /\ Facts => TicketsKept
    BY DEF Facts, Recorded, Safe, Closed, TicketsKept
  <1> QED  BY <1>1, SupportIsSound, PTL

\* A job row, seen by any reader of the file, is one of the two programs'.
LEMMA JobRowsAre ==
  ASSUME Facts, NEW t, NEW statuses, Queued(file[jobs], t, statuses)
  PROVE  \E r \in JobRow : r.record.about = t /\ r.record.status \in statuses
  <1>1. file[jobs] \in Seq(JobRow \cup {Torn})
    BY Parties DEF Facts, Rows, RowsOf
  <1>2. PICK i \in DOMAIN file[jobs] : /\ file[jobs][i] # Torn /\ file[jobs][i].record.about = t
                                       /\ file[jobs][i].record.status \in statuses
    BY DEF Queued
  <1>3. file[jobs][i] \in JobRow
    BY <1>1, <1>2, LenProperties, ElementOfSeq
  <1> QED  BY <1>2, <1>3

(* Every queued job and every email is about a stored ticket, whatever the  *)
(* races for the job table leave of it.                                     *)
THEOREM FollowUpsAreAboutTickets == SupportSpec => []FollowUpsHaveTickets
  <1>1. Base /\ Facts => FollowUpsHaveTickets
    <2> SUFFICES ASSUME Base, Facts, tickets \notin damaged, NEW t \in Ids,
                        emails[t] > 0 \/ Queued(file[jobs], t, {"pending", "processed"})
                 PROVE  Holds(Committed(tickets), t, {"open", "resolved"})
      BY DEF FollowUpsHaveTickets
    <2>1. Safe(t)
      <3>1. CASE emails[t] > 0
        BY <3>1 DEF Facts, Recorded
      <3>2. CASE Queued(file[jobs], t, {"pending", "processed"})
        BY <3>2, JobRowsAre DEF JobRow, JobRecord
      <3> QED  BY <3>1, <3>2
    <2> QED  BY <2>1 DEF Safe
  <1> QED  BY <1>1, SupportIsSound, PTL

(* No job is marked processed before its email was sent: not when the       *)
(* worker dies, nor when an old copy of the table is written back.          *)
THEOREM ProcessedJobsWereEmailed == SupportSpec => []ProcessedWasEmailed
  <1>1. Base /\ Facts => ProcessedWasEmailed
    BY JobRowsAre DEF JobRow, ProcessedWasEmailed
  <1> QED  BY <1>1, SupportIsSound, PTL

=============================================================================
