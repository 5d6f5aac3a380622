----------------------------- MODULE LoaderProofs -----------------------------
(***************************************************************************)
(* Theorems about Loader: what a load says of the import graph is true,    *)
(* for every disk, parser and entry, and every load ends.                  *)
(*                                                                         *)
(* The walk is depth first, and the graph of the properties knows nothing  *)
(* of it.  The invariant (Walks) counts, for each file that was entered,   *)
(* the statements that were taken of it, and says of the imports among     *)
(* them that each led to a file of its own.  When the entry is left, every *)
(* statement of every file was taken.                                      *)
(***************************************************************************)
EXTENDS Loader, SequenceTheorems, FiniteSetTheorems, TLAPS

-----------------------------------------------------------------------------
(* Sequences *)

(* A sequence is one of its own elements.                                  *)
LEMMA SequenceIn ==
  ASSUME NEW s, IsSequence(s)
  PROVE  /\ s \in Seq({s[i] : i \in 1..Len(s)})
         /\ DOMAIN s = 1..Len(s)
  <1> DEFINE n == Len(s)
             S == {s[i] : i \in 1..n}
  <1>1. n \in Nat /\ s = [i \in 1..n |-> s[i]]
    BY DEF IsSequence
  <1>2. s \in [1..n -> S]
    BY <1>1
  <1>3. [1..n -> S] \subseteq Seq(S)
    BY <1>1, SeqDef
  <1> QED BY <1>1, <1>2, <1>3

(* A sequence of any kind is one.                                          *)
LEMMA SequenceOf ==
  ASSUME NEW S, NEW s \in Seq(S)
  PROVE  IsSequence(s)
  BY DEF IsSequence

(* What a step does to a sequence.                                         *)
Longer(s, x, t) ==
  /\ IsSequence(t) /\ Len(t) = Len(s) + 1 /\ t[Len(s) + 1] = x
  /\ \A i \in 1..Len(s) : t[i] = s[i]
Shorter(s, t) ==
  /\ IsSequence(t) /\ Len(t) = Len(s) - 1
  /\ \A i \in 1..Len(s) - 1 : t[i] = s[i]
Altered(s, x, t) ==
  /\ IsSequence(t) /\ Len(t) = Len(s) /\ t[Len(s)] = x
  /\ \A i \in 1..Len(s) - 1 : t[i] = s[i]

LEMMA AppendIsLonger ==
  ASSUME NEW s, NEW x, IsSequence(s)
  PROVE  Longer(s, x, Append(s, x))
  <1> DEFINE S == {s[i] : i \in 1..Len(s)} \cup {x}
  <1>1. s \in Seq(S)
    <2>1. s \in Seq({s[i] : i \in 1..Len(s)})
      BY SequenceIn
    <2> QED BY <2>1
  <1>2. x \in S /\ Len(s) \in Nat
    BY DEF IsSequence
  <1> HIDE DEF S
  <1>3. Append(s, x) \in Seq(S)
    BY <1>1, <1>2
  <1>4. /\ Len(Append(s, x)) = Len(s) + 1 /\ Append(s, x)[Len(s) + 1] = x
        /\ \A i \in 1..Len(s) : Append(s, x)[i] = s[i]
    BY <1>1, <1>2
  <1> QED BY <1>3, <1>4, SequenceOf DEF Longer

LEMMA Emptiness ==
  ASSUME NEW s, IsSequence(s)
  PROVE  Len(s) \in Nat /\ (s = <<>> <=> Len(s) = 0)
  <1>1. s \in Seq({s[i] : i \in 1..Len(s)})
    BY SequenceIn
  <1> QED BY <1>1

LEMMA FrontIsShorter ==
  ASSUME NEW s, IsSequence(s), s # <<>>
  PROVE  Shorter(s, Front(s))
  <1> DEFINE S == {s[i] : i \in 1..Len(s)}
  <1>1. PICK n \in Nat : n = Len(s) /\ n > 0
    BY Emptiness
  <1>2. PICK m \in Nat : m = n - 1
    BY <1>1
  <1>3. \A i \in 1..m : s[i] \in S
    BY <1>1, <1>2
  <1> DEFINE t == SubSeq(s, 1, m)
  <1> HIDE DEF S
  <1>4. t \in Seq(S) /\ Len(t) = m /\ \A i \in 1..m : t[i] = s[i]
    BY <1>3, SubSeqProperties
  <1>5. Front(s) = t
    BY <1>1, <1>2 DEF Front
  <1> HIDE DEF t
  <1>6. IsSequence(t)
    BY <1>4, SequenceOf
  <1>7. Len(s) - 1 = m
    BY <1>1, <1>2
  <1> QED BY <1>4, <1>5, <1>6, <1>7 DEF Shorter

LEMMA ReplaceAlters ==
  ASSUME NEW s, NEW x, IsSequence(s), s # <<>>
  PROVE  Altered(s, x, Append(Front(s), x))
  <1>1. Shorter(s, Front(s))
    BY FrontIsShorter
  <1>2. Longer(Front(s), x, Append(Front(s), x))
    BY <1>1, AppendIsLonger DEF Shorter
  <1>3. Len(s) \in Nat /\ Len(s) > 0
    BY Emptiness
  <1> QED BY <1>1, <1>2, <1>3 DEF Shorter, Longer, Altered

LEMMA ExceptAlters ==
  ASSUME NEW s, NEW x, IsSequence(s), s # <<>>
  PROVE  Altered(s, x, [s EXCEPT ![Len(s)] = x])
  <1> DEFINE n == Len(s)
             t == [s EXCEPT ![n] = x]
             S == {s[i] : i \in 1..n} \cup {x}
  <1>1. n \in Nat /\ n > 0
    BY Emptiness
  <1>2. s \in [1..n -> S]
    BY DEF IsSequence
  <1>3. t \in [1..n -> S] /\ t[n] = x /\ \A i \in 1..n - 1 : t[i] = s[i]
    BY <1>1, <1>2
  <1> HIDE DEF S, t
  <1>4. t \in Seq(S)
    BY <1>1, <1>3, SeqDef
  <1>5. Len(t) = n
    BY <1>1, <1>3, <1>4
  <1> QED BY <1>3, <1>4, <1>5, SequenceOf DEF Altered, t

LEMMA TailIsRest ==
  ASSUME NEW s, IsSequence(s), s # <<>>
  PROVE  /\ Len(s) \in Nat /\ Len(s) > 0 /\ Head(s) = s[1]
         /\ IsSequence(Tail(s)) /\ Len(Tail(s)) = Len(s) - 1
         /\ \A i \in 1..Len(s) - 1 : Tail(s)[i] = s[i + 1]
  <1> DEFINE S == {s[i] : i \in 1..Len(s)}
  <1>1. s \in Seq(S)
    BY SequenceIn
  <1>2. Len(s) \in Nat /\ Len(s) > 0
    BY Emptiness
  <1> HIDE DEF S
  <1>3. /\ Tail(s) \in Seq(S) /\ Len(Tail(s)) = Len(s) - 1
        /\ \A i \in 1..Len(s) - 1 : Tail(s)[i] = s[i + 1]
    BY <1>1, <1>2
  <1>4. IsSequence(Tail(s))
    BY <1>3, SequenceOf
  <1>5. Head(s) = s[1]
    BY <1>1, <1>2
  <1> QED BY <1>2, <1>3, <1>4, <1>5

-----------------------------------------------------------------------------
(* The graph *)

Parts(g, f) == g[f].program.parts

\* What a graph of programs is like.
Sound(g) ==
  \A f \in DOMAIN g : /\ IsProgram(g[f].program)
                      /\ DOMAIN g[f].to = {i \in 1..Len(Parts(g, f)) : IsImport(Parts(g, f)[i])}

(* The graph of a disk has its programs, and an edge for each import.      *)
LEMMA GraphOfDisk ==
  ASSUME NEW d, NEW e, Readable(d)
  PROVE  /\ DOMAIN Graph(d, e) = DOMAIN d.files
         /\ Sound(Graph(d, e))
         /\ \A f \in DOMAIN d.files :
              /\ Graph(d, e)[f].program = ProgramOf(d.files[f])
              /\ \A i \in DOMAIN Graph(d, e)[f].to :
                   Graph(d, e)[f].to[i] = Canonical(d, Wanted(d, e, f, Parts(Graph(d, e), f)[i]))
  <1> DEFINE g == Graph(d, e)
  <1>1. DOMAIN g = DOMAIN d.files
    BY DEF Graph
  <1>2. ASSUME NEW f \in DOMAIN d.files
        PROVE  /\ g[f].program = ProgramOf(d.files[f]) /\ IsProgram(g[f].program)
               /\ DOMAIN g[f].to = {i \in 1..Len(Parts(g, f)) : IsImport(Parts(g, f)[i])}
               /\ \A i \in DOMAIN g[f].to : g[f].to[i] = Canonical(d, Wanted(d, e, f, Parts(g, f)[i]))
    <2> DEFINE p == ProgramOf(d.files[f])
    <2>1. g[f] = Vertex(d, e, f, p)
      BY DEF Graph
    <2>2. IsProgram(p)
      BY DEF Readable
    <2> HIDE DEF p, g
    <2>3. DOMAIN p.parts = 1..Len(p.parts)
      BY <2>2, SequenceIn DEF IsProgram
    <2>4. /\ g[f].program = p
          /\ g[f].to = [i \in {j \in DOMAIN p.parts : IsImport(p.parts[j])} |-> Canonical(d, Wanted(d, e, f, p.parts[i]))]
      BY <2>1 DEF Vertex
    <2> QED BY <2>2, <2>3, <2>4 DEF Parts, p
  <1> HIDE DEF g
  <1>3. Sound(g)
    BY <1>1, <1>2 DEF Sound
  <1> QED BY <1>1, <1>2, <1>3 DEF g

(* The entry is reached, and what a reached file imports; and no more.     *)
LEMMA StartReached ==
  ASSUME NEW g, NEW start \in DOMAIN g
  PROVE  start \in Reached(g, start)
  BY DEF Reached, Closed

LEMMA ImportReached ==
  ASSUME NEW g, NEW start, NEW f \in Reached(g, start), NEW i \in DOMAIN g[f].to, g[f].to[i] \in DOMAIN g
  PROVE  g[f].to[i] \in Reached(g, start)
  BY DEF Reached, Closed

LEMMA ReachedWithin ==
  ASSUME NEW g, NEW start, NEW files \in SUBSET DOMAIN g, Closed(g, start, files)
  PROVE  Reached(g, start) \subseteq files
  BY DEF Reached

-----------------------------------------------------------------------------
(* The walk, of a graph g from a file `start` *)

\* The statements of x that were taken.
Taken(g, x) == Len(Parts(g, x.file)) - Len(x.rest)
AliasesUpTo(g, f, n) == {Parts(g, f)[k].text : k \in {l \in 1..n : IsImport(Parts(g, f)[l])}}

IsFrame(x) == x = [file |-> x.file, alias |-> x.alias, rest |-> x.rest, flat |-> x.flat, aliases |-> x.aliases]
\* A frame has the statements of its file that are left, and the aliases of those that were taken.
Frames(g, x) ==
  /\ IsFrame(x) /\ x.file \in DOMAIN g
  /\ IsSequence(x.rest) /\ Len(x.rest) <= Len(Parts(g, x.file))
  /\ \A j \in 1..Len(x.rest) : x.rest[j] = Parts(g, x.file)[Taken(g, x) + j]
  /\ x.aliases = AliasesUpTo(g, x.file, Taken(g, x))

\* The frames are of different files, and each but the last waits for the import it took last.
Stack(g, start, fr, vi) ==
  /\ IsSequence(fr) /\ Len(fr) > 0
  /\ \A i \in 1..Len(fr) : Frames(g, fr[i]) /\ fr[i].file \in vi /\ (fr[i].alias = NoAlias <=> i = 1)
  /\ fr[1].file = start
  /\ \A i, j \in 1..Len(fr) : fr[i].file = fr[j].file => i = j
  /\ \A i \in 1..Len(fr) - 1 :
       /\ Taken(g, fr[i]) \in DOMAIN g[fr[i].file].to
       /\ g[fr[i].file].to[Taken(g, fr[i])] = fr[i + 1].file

\* The statements that were taken, each a file and a place in it; all of a file that is
\* not on the stack.
Read(g, fr, vi) ==
  {s \in vi \X (Nat \ {0}) :
     /\ s[2] <= Len(Parts(g, s[1]))
     /\ \A i \in 1..Len(fr) : fr[i].file = s[1] => s[2] <= Taken(g, fr[i])}
\* The import whose file is not entered yet.
Pending(g, fr, waits) == IF waits THEN {<<fr[Len(fr)].file, Taken(g, fr[Len(fr)])>>} ELSE {}
\* The imports whose files were entered.
Imported(g, read, pending) == {s \in read : s[2] \in DOMAIN g[s[1]].to} \ pending

To(g, s) == g[s[1]].to[s[2]]

\* Every file that was entered but the first was entered by one import, and no statement
\* that was taken is at fault.
Visits(g, start, vi, read, imported) ==
  /\ vi \subseteq Reached(g, start)
  /\ \A f \in vi \ {start} : \E s \in imported : To(g, s) = f
  /\ \A s \in imported : To(g, s) \in vi \ {start}
  /\ \A s, t \in imported : To(g, s) = To(g, t) => s = t
  /\ \A f \in vi : g[f].program # Absent
  /\ \A s \in read : s[1] = start \/ Parts(g, s[1])[s[2]].kind \in Importable \cup {"ImportFile"}
  /\ \A s, t \in read :
       s[1] = t[1] /\ s[2] < t[2] /\ IsImport(Parts(g, s[1])[s[2]]) /\ IsImport(Parts(g, t[1])[t[2]]) =>
         Parts(g, s[1])[s[2]].text # Parts(g, t[1])[t[2]].text

Asks(d, e, g, fr, as) ==
  as.call =>
    LET x == fr[Len(fr)] IN
    /\ as.alias # NoAlias
    /\ Taken(g, x) \in DOMAIN g[x.file].to
    /\ as.path = Wanted(d, e, x.file, Parts(g, x.file)[Taken(g, x)])

Visited(g, start, fr, vi, waits) ==
  Visits(g, start, vi, Read(g, fr, vi), Imported(g, Read(g, fr, vi), Pending(g, fr, waits)))

Begun(e, fr, vi, as) == fr = <<>> /\ vi = {} /\ as = [call |-> TRUE, path |-> e.path, alias |-> NoAlias]
UnderWay(d, e, g, fr, vi, as) ==
  /\ Stack(g, Start(d, e), fr, vi)
  /\ Visited(g, Start(d, e), fr, vi, as.call)
  /\ Asks(d, e, g, fr, as)
Walks(d, e, fr, vi, as) == Begun(e, fr, vi, as) \/ UnderWay(d, e, Graph(d, e), fr, vi, as)

-----------------------------------------------------------------------------
(* One frame *)

(* The number of statements that were taken is a place in the file.        *)
LEMMA TakenIs ==
  ASSUME NEW g, Sound(g), NEW x, Frames(g, x)
  PROVE  /\ Len(x.rest) \in Nat /\ Len(Parts(g, x.file)) \in Nat
         /\ Taken(g, x) \in Nat /\ Taken(g, x) + Len(x.rest) = Len(Parts(g, x.file))
         /\ IsSequence(Parts(g, x.file))
  <1>1. IsSequence(Parts(g, x.file))
    BY DEF Sound, IsProgram, Parts, Frames
  <1>2. IsSequence(x.rest) /\ Len(x.rest) <= Len(Parts(g, x.file))
    BY DEF Frames
  <1>3. PICK n \in Nat, m \in Nat : n = Len(Parts(g, x.file)) /\ m = Len(x.rest)
    BY <1>1, <1>2 DEF IsSequence
  <1>4. m <= n /\ Taken(g, x) = n - m
    BY <1>2, <1>3 DEF Taken
  <1> QED BY <1>1, <1>3, <1>4

(* The head of what is left is the next statement of the file.             *)
LEMMA NextStatement ==
  ASSUME NEW g, Sound(g), NEW x, Frames(g, x), x.rest # <<>>
  PROVE  /\ Taken(g, x) + 1 \in 1..Len(Parts(g, x.file))
         /\ Head(x.rest) = Parts(g, x.file)[Taken(g, x) + 1]
  <1>1. IsSequence(x.rest) /\ \A j \in 1..Len(x.rest) : x.rest[j] = Parts(g, x.file)[Taken(g, x) + j]
    BY DEF Frames
  <1>2. Len(x.rest) \in Nat /\ Len(x.rest) > 0 /\ Head(x.rest) = x.rest[1]
    BY <1>1, TailIsRest
  <1>3. 1 \in 1..Len(x.rest)
    BY <1>2
  <1> QED BY <1>1, <1>2, <1>3, TakenIs

\* y is x after the head of its rest was taken.
Took(x, y) ==
  /\ IsFrame(y) /\ y.file = x.file /\ y.alias = x.alias /\ y.rest = Tail(x.rest)
  /\ y.aliases = x.aliases \cup (IF IsImport(Head(x.rest)) THEN {Head(x.rest).text} ELSE {})
\* The head of the rest of x is not at fault.
MayTake(x) ==
  /\ x.alias = NoAlias \/ Head(x.rest).kind \in Importable \cup {"ImportFile"}
  /\ IsImport(Head(x.rest)) => Head(x.rest).text \notin x.aliases

(* A frame that took it is one.                                            *)
LEMMA NextFrame ==
  ASSUME NEW g, Sound(g), NEW x, Frames(g, x), x.rest # <<>>,
         NEW y, Took(x, y)
  PROVE  Frames(g, y) /\ Taken(g, y) = Taken(g, x) + 1
  <1> DEFINE P == Parts(g, x.file)
  <1>0. /\ IsFrame(y) /\ y.file = x.file /\ y.rest = Tail(x.rest)
        /\ y.aliases = x.aliases \cup (IF IsImport(Head(x.rest)) THEN {Head(x.rest).text} ELSE {})
    BY DEF Took
  <1>1. PICK t \in Nat, m \in Nat : t = Taken(g, x) /\ m = Len(x.rest) /\ t + m = Len(P)
    BY TakenIs
  <1>2. IsSequence(x.rest) /\ \A j \in 1..m : x.rest[j] = P[t + j]
    BY <1>1 DEF Frames
  <1>3. /\ m > 0 /\ IsSequence(y.rest) /\ Len(y.rest) = m - 1
        /\ \A j \in 1..m - 1 : y.rest[j] = x.rest[j + 1]
    BY <1>0, <1>1, <1>2, TailIsRest
  <1>4. Taken(g, y) = t + 1
    <2>1. Taken(g, y) = Len(P) - Len(y.rest)
      BY <1>0, Zenon DEF Taken
    <2>2. Len(P) - Len(y.rest) = (t + m) - (m - 1)
      BY <1>1, <1>3, Zenon
    <2>3. (t + m) - (m - 1) = t + 1
      OBVIOUS
    <2> QED BY <2>1, <2>2, <2>3, Zenon
  <1>5. \A j \in 1..m - 1 : y.rest[j] = P[t + 1 + j]
    <2> SUFFICES ASSUME NEW j \in 1..m - 1 PROVE y.rest[j] = P[t + 1 + j]
      OBVIOUS
    <2>1. j + 1 \in 1..m /\ t + (j + 1) = t + 1 + j
      OBVIOUS
    <2> QED BY <2>1, <1>2, <1>3
  <1>6. x.aliases = AliasesUpTo(g, x.file, t)
    BY <1>1 DEF Frames
  <1>7. Head(x.rest) = P[t + 1]
    BY <1>1, NextStatement
  <1>8. y.aliases = AliasesUpTo(g, y.file, t + 1)
    <2>1. \A k : k \in 1..t + 1 <=> k \in 1..t \/ k = t + 1
      OBVIOUS
    <2> HIDE DEF P
    <2> QED BY <2>1, <1>0, <1>6, <1>7 DEF AliasesUpTo, P
  <1>9. x.file \in DOMAIN g
    BY DEF Frames
  <1> QED BY <1>0, <1>1, <1>3, <1>4, <1>5, <1>8, <1>9 DEF Frames

Fresh(g, f, alias, x) ==
  x = [file |-> f, alias |-> alias, rest |-> Parts(g, f), flat |-> <<>>, aliases |-> {}]

Untouched(g, f, alias, x) == Frames(g, x) /\ Taken(g, x) = 0 /\ x.file = f /\ x.alias = alias

(* Nothing was taken of a file that is just entered.                       *)
LEMMA FirstFrame ==
  ASSUME NEW g, Sound(g), NEW f \in DOMAIN g, NEW alias,
         NEW x, Fresh(g, f, alias, x)
  PROVE  Untouched(g, f, alias, x)
  <1>1. IsSequence(Parts(g, f))
    BY DEF Sound, IsProgram, Parts
  <1>2. PICK n \in Nat : n = Len(Parts(g, f))
    BY <1>1 DEF IsSequence
  <1>3. x.file = f /\ x.alias = alias /\ x.rest = Parts(g, f) /\ x.aliases = {} /\ IsFrame(x)
    BY DEF IsFrame, Fresh
  <1>4. Taken(g, x) = 0
    BY <1>2, <1>3 DEF Taken
  <1>5. AliasesUpTo(g, f, 0) = {}
    BY DEF AliasesUpTo
  <1>6. \A j \in 1..Len(x.rest) : x.rest[j] = Parts(g, x.file)[Taken(g, x) + j]
    BY <1>2, <1>3, <1>4
  <1>7. IsSequence(x.rest) /\ Len(x.rest) <= Len(Parts(g, x.file)) /\ x.aliases = AliasesUpTo(g, x.file, Taken(g, x))
    BY <1>1, <1>2, <1>3, <1>4, <1>5
  <1>8. Frames(g, x)
    BY <1>3, <1>4, <1>6, <1>7, Zenon DEF Frames
  <1> QED BY <1>3, <1>4, <1>8, Zenon DEF Untouched

-----------------------------------------------------------------------------
(* The steps of a walk, of a sound graph *)

(* What a statement that was taken is.                                     *)
LEMMA ReadIs ==
  ASSUME NEW g, NEW fr, NEW vi, NEW f, NEW k
  PROVE  <<f, k>> \in Read(g, fr, vi) <=>
           /\ f \in vi /\ k \in Nat \ {0} /\ k <= Len(Parts(g, f))
           /\ \A i \in 1..Len(fr) : fr[i].file = f => k <= Taken(g, fr[i])
  BY DEF Read

LEMMA SameRead ==
  ASSUME NEW g, NEW fr, NEW fs, NEW vi, NEW vj, vi \subseteq vj,
         \A f \in vj, k \in Nat \ {0} : <<f, k>> \in Read(g, fs, vj) <=> <<f, k>> \in Read(g, fr, vi)
  PROVE  Read(g, fs, vj) = Read(g, fr, vi)
  <1>1. Read(g, fs, vj) \subseteq vj \X (Nat \ {0}) /\ Read(g, fr, vi) \subseteq vj \X (Nat \ {0})
    BY DEF Read
  <1>2. \A s \in vj \X (Nat \ {0}) : s \in Read(g, fs, vj) <=> s \in Read(g, fr, vi)
    OBVIOUS
  <1> QED BY <1>1, <1>2, Zenon

(* The next statement of the innermost file is taken.                      *)
LEMMA TakeReads ==
  ASSUME NEW g, Sound(g), NEW start, NEW fr, NEW vi, Stack(g, start, fr, vi),
         NEW y, Frames(g, y), NEW fs, Altered(fr, y, fs),
         y.file = fr[Len(fr)].file, y.alias = fr[Len(fr)].alias,
         Taken(g, y) = Taken(g, fr[Len(fr)]) + 1
  PROVE  /\ Stack(g, start, fs, vi)
         /\ Read(g, fs, vi) = Read(g, fr, vi) \cup {<<y.file, Taken(g, y)>>}
         /\ <<y.file, Taken(g, y)>> \notin Read(g, fr, vi)
  <1> DEFINE x == fr[Len(fr)]
  <1>1. PICK n \in Nat : n = Len(fr) /\ n > 0
    BY DEF Stack, IsSequence
  <1>2. /\ \A i \in 1..n : Frames(g, fr[i]) /\ fr[i].file \in vi /\ (fr[i].alias = NoAlias <=> i = 1)
        /\ fr[1].file = start
        /\ \A i, j \in 1..n : fr[i].file = fr[j].file => i = j
        /\ \A i \in 1..n - 1 :
             /\ Taken(g, fr[i]) \in DOMAIN g[fr[i].file].to
             /\ g[fr[i].file].to[Taken(g, fr[i])] = fr[i + 1].file
    BY <1>1 DEF Stack
  <1>3. PICK t \in Nat : t = Taken(g, fr[n])
    BY <1>1, <1>2, TakenIs
  <1>4. Taken(g, y) = t + 1
    BY <1>1, <1>3
  <1>5. IsSequence(fs) /\ Len(fs) = n /\ fs[n] = y /\ \A i \in 1..n - 1 : fs[i] = fr[i]
    BY <1>1 DEF Altered
  <1>6. \A i \in 1..n : i = n \/ i \in 1..n - 1
    BY <1>1
  <1>7. \A i \in 1..n : fs[i].file = fr[i].file /\ fs[i].alias = fr[i].alias /\ Frames(g, fs[i])
    BY <1>1, <1>2, <1>5, <1>6
  <1>8. Stack(g, start, fs, vi)
    <2>1. \A i \in 1..n : Frames(g, fs[i]) /\ fs[i].file \in vi /\ (fs[i].alias = NoAlias <=> i = 1)
      BY <1>2, <1>7, Zenon
    <2>2. fs[1].file = start /\ \A i, j \in 1..n : fs[i].file = fs[j].file => i = j
      BY <1>1, <1>2, <1>7
    <2>3. \A i \in 1..n - 1 : /\ Taken(g, fs[i]) \in DOMAIN g[fs[i].file].to
                              /\ g[fs[i].file].to[Taken(g, fs[i])] = fs[i + 1].file
      BY <1>1, <1>2, <1>5, <1>7
    <2> QED BY <1>1, <1>5, <2>1, <2>2, <2>3 DEF Stack
  <1>9. t + 1 <= Len(Parts(g, y.file)) /\ t + 1 \in Nat \ {0} /\ y.file \in vi
    <2>1. PICK p \in Nat, m \in Nat : p = Len(Parts(g, y.file)) /\ Taken(g, y) + m = p
      BY TakenIs
    <2>2. n \in 1..n
      BY <1>1
    <2>3. y.file \in vi
      BY <1>1, <1>2, <2>2
    <2> QED BY <1>4, <2>1, <2>3
  <1>10. ASSUME NEW f, NEW k \in Nat
         PROVE  (\A i \in 1..n : fs[i].file = f => k <= Taken(g, fs[i])) <=>
                \/ \A i \in 1..n : fr[i].file = f => k <= Taken(g, fr[i])
                \/ f = y.file /\ k = t + 1
    <2>1. (\A i \in 1..n : fs[i].file = f => k <= Taken(g, fs[i])) <=>
            /\ \A i \in 1..n - 1 : fr[i].file = f => k <= Taken(g, fr[i])
            /\ y.file = f => k <= t + 1
      BY <1>1, <1>4, <1>5, <1>6
    <2>2. (\A i \in 1..n : fr[i].file = f => k <= Taken(g, fr[i])) <=>
            /\ \A i \in 1..n - 1 : fr[i].file = f => k <= Taken(g, fr[i])
            /\ y.file = f => k <= t
      BY <1>1, <1>3, <1>6
    <2>3. f = y.file => \A i \in 1..n - 1 : fr[i].file # f
      BY <1>1, <1>2
    <2>4. k <= t + 1 <=> k <= t \/ k = t + 1
      OBVIOUS
    <2> QED BY <2>1, <2>2, <2>3, <2>4, Zenon
  <1>11. ~(t + 1 <= t)
    OBVIOUS
  <1>12. <<y.file, t + 1>> \notin Read(g, fr, vi)
    <2>1. n \in 1..n /\ fr[n].file = y.file /\ ~(t + 1 <= Taken(g, fr[n]))
      BY <1>1, <1>3, <1>11
    <2>2. <<y.file, t + 1>> \in Read(g, fr, vi) => \A i \in 1..n : fr[i].file = y.file => t + 1 <= Taken(g, fr[i])
      BY <1>1, ReadIs
    <2> QED BY <2>1, <2>2, Zenon
  <1>13. \A s \in vi \X (Nat \ {0}) : s \in Read(g, fs, vi) <=> s \in Read(g, fr, vi) \/ s = <<y.file, t + 1>>
    <2> SUFFICES ASSUME NEW f \in vi, NEW k \in Nat \ {0}
                 PROVE  <<f, k>> \in Read(g, fs, vi) <=> <<f, k>> \in Read(g, fr, vi) \/ <<f, k>> = <<y.file, t + 1>>
      OBVIOUS
    <2>1. <<f, k>> = <<y.file, t + 1>> <=> f = y.file /\ k = t + 1
      OBVIOUS
    <2>2. k \in Nat
      OBVIOUS
    <2>3. <<f, k>> \in Read(g, fs, vi) <=>
            k <= Len(Parts(g, f)) /\ \A i \in 1..n : fs[i].file = f => k <= Taken(g, fs[i])
      BY <1>5, ReadIs
    <2>4. <<f, k>> \in Read(g, fr, vi) <=>
            k <= Len(Parts(g, f)) /\ \A i \in 1..n : fr[i].file = f => k <= Taken(g, fr[i])
      BY <1>1, ReadIs
    <2> QED BY <1>9, <1>10, <2>1, <2>2, <2>3, <2>4, Zenon
  <1>14. Read(g, fs, vi) \subseteq vi \X (Nat \ {0}) /\ Read(g, fr, vi) \subseteq vi \X (Nat \ {0})
    BY DEF Read
  <1>15. <<y.file, t + 1>> \in vi \X (Nat \ {0})
    BY <1>9
  <1> QED BY <1>4, <1>8, <1>12, <1>13, <1>14, <1>15, Zenon

(* It may be taken: no statement that was taken is at fault.               *)
LEMMA TakeVisits ==
  ASSUME NEW g, Sound(g), NEW start, NEW vi, NEW read, NEW imported, NEW f \in vi, NEW k \in Nat \ {0},
         Visits(g, start, vi, read, imported), read \subseteq vi \X (Nat \ {0}),
         f = start \/ Parts(g, f)[k].kind \in Importable \cup {"ImportFile"},
         \A s \in read : s[1] = f => s[2] < k,
         \A l \in Nat \ {0} : <<f, l>> \in read /\ IsImport(Parts(g, f)[l]) /\ IsImport(Parts(g, f)[k]) =>
                         Parts(g, f)[l].text # Parts(g, f)[k].text
  PROVE  Visits(g, start, vi, read \cup {<<f, k>>}, imported)
  <1> DEFINE new == <<f, k>>
  <1>1. new[1] = f /\ new[2] = k
    OBVIOUS
  <1> HIDE DEF new
  <1>2. \A s \in read \cup {new} : s[1] = start \/ Parts(g, s[1])[s[2]].kind \in Importable \cup {"ImportFile"}
    BY <1>1 DEF Visits
  <1>3. ASSUME NEW s \in read \cup {new}, NEW t \in read \cup {new}, s[1] = t[1], s[2] < t[2],
               IsImport(Parts(g, s[1])[s[2]]), IsImport(Parts(g, t[1])[t[2]])
        PROVE  Parts(g, s[1])[s[2]].text # Parts(g, t[1])[t[2]].text
    <2>1. CASE s \in read /\ t \in read
      BY <1>3, <2>1 DEF Visits
    <2>2. CASE s \in read /\ t = new
      <3>1. PICK l \in Nat \ {0} : s = <<f, l>>
        BY <1>1, <1>3, <2>2
      <3>2. s[2] = l /\ s[1] = f
        BY <3>1
      <3> QED BY <1>1, <1>3, <2>2, <3>1, <3>2
    <2>3. CASE s = new
      <3>1. t # new
        BY <1>1, <1>3, <2>3
      <3>2. t \in read /\ t[1] = f /\ t[2] \in Nat
        BY <1>1, <1>3, <2>3, <3>1
      <3>3. t[2] < k /\ k < t[2]
        BY <1>1, <1>3, <2>3, <3>2
      <3> QED BY <3>2, <3>3
    <2> QED BY <2>1, <2>2, <2>3
  <1> QED BY <1>2, <1>3 DEF Visits, new

(* A step that takes a statement goes on with the walk.                    *)
LEMMA TakeKeeps ==
  ASSUME NEW g, Sound(g), NEW start, NEW fr, NEW vi, Stack(g, start, fr, vi), Visited(g, start, fr, vi, FALSE),
         NEW x, x = fr[Len(fr)], x.rest # <<>>,
         MayTake(x), NEW y, Took(x, y),
         NEW fs, Altered(fr, y, fs), NEW waits \in BOOLEAN, waits <=> IsImport(Head(x.rest))
  PROVE  Stack(g, start, fs, vi) /\ Visited(g, start, fs, vi, waits)
  <1> DEFINE new    == <<y.file, Taken(g, y)>>
             read   == Read(g, fr, vi)
             future == Read(g, fs, vi)
             h      == Head(x.rest)
  <1>1. PICK n \in Nat : n = Len(fr) /\ n > 0 /\ n \in 1..n /\ x = fr[n]
    BY DEF Stack, IsSequence
  <1>2. Frames(g, x) /\ x.file \in vi
    BY <1>1 DEF Stack
  <1>3. Frames(g, y) /\ Taken(g, y) = Taken(g, x) + 1
    BY <1>2, NextFrame
  <1>4. Stack(g, start, fs, vi) /\ future = read \cup {new} /\ new \notin read
    BY <1>3, TakeReads DEF Took
  <1>5. PICK t \in Nat : t = Taken(g, x)
    BY <1>2, TakenIs
  <1>6. y.file = x.file /\ Taken(g, y) = t + 1 /\ t + 1 \in Nat \ {0} /\ t + 1 \in 1..Len(Parts(g, x.file)) /\ h = Parts(g, x.file)[t + 1]
    BY <1>2, <1>3, <1>5, NextStatement DEF Took
  <1>7. \A s \in read : s[1] = x.file => s[2] < t + 1
    <2> SUFFICES ASSUME NEW s \in read, s[1] = x.file PROVE s[2] < t + 1
      OBVIOUS
    <2>1. s[2] \in Nat /\ s[2] <= Taken(g, fr[n])
      BY <1>1 DEF Read
    <2> QED BY <1>1, <1>5, <2>1
  <1>8. ASSUME NEW l \in Nat \ {0}, <<x.file, l>> \in read, IsImport(Parts(g, x.file)[l]), IsImport(h)
        PROVE  Parts(g, x.file)[l].text # h.text
    <2>0. h.text \notin x.aliases
      BY <1>8, Zenon DEF MayTake
    <2>1. l <= t
      BY <1>1, <1>5, <1>8, ReadIs
    <2>2. x.aliases = AliasesUpTo(g, x.file, t)
      BY <1>2, <1>5 DEF Frames
    <2>3. l \in 1..t
      BY <2>1
    <2>4. Parts(g, x.file)[l].text \in x.aliases
      BY <1>8, <2>2, <2>3 DEF AliasesUpTo
    <2> QED BY <2>0, <2>4
  <1>9. x.file = start \/ h.kind \in Importable \cup {"ImportFile"}
    BY <1>1, Zenon DEF Stack, MayTake
  <1>10. fs[Len(fs)] = y
    BY DEF Altered
  <1>11. new \in {s \in future : s[2] \in DOMAIN g[s[1]].to} <=> waits
    <2>1. DOMAIN g[x.file].to = {i \in 1..Len(Parts(g, x.file)) : IsImport(Parts(g, x.file)[i])}
      BY <1>2 DEF Sound, Frames
    <2>2. t + 1 \in DOMAIN g[x.file].to <=> waits
      BY <1>6, <2>1
    <2>3. new[1] = x.file /\ new[2] = t + 1
      BY <1>6
    <2> HIDE DEF future, new, read
    <2> QED BY <1>4, <2>2, <2>3
  <1>12. Pending(g, fs, waits) = IF waits THEN {new} ELSE {}
    BY <1>10 DEF Pending
  <1>13. Pending(g, fr, FALSE) = {}
    BY DEF Pending
  <1> DEFINE imported == Imported(g, read, {})
  <1>14. Imported(g, future, Pending(g, fs, waits)) = imported
    <2> HIDE DEF new, future, read
    <2> QED BY <1>4, <1>11, <1>12 DEF Imported
  <1>15. read \subseteq vi \X (Nat \ {0})
    BY DEF Read
  <1>16. Visits(g, start, vi, read, imported)
    BY <1>13, Zenon DEF Visited
  <1>17. Visits(g, start, vi, read \cup {<<x.file, t + 1>>}, imported)
    <2> HIDE DEF read, imported
    <2>1. \A l \in Nat \ {0} : <<x.file, l>> \in read /\ IsImport(Parts(g, x.file)[l]) /\ IsImport(Parts(g, x.file)[t + 1]) =>
                         Parts(g, x.file)[l].text # Parts(g, x.file)[t + 1].text
      BY <1>6, <1>8, Zenon
    <2>2. x.file = start \/ Parts(g, x.file)[t + 1].kind \in Importable \cup {"ImportFile"}
      BY <1>6, <1>9, Zenon
    <2>3. t + 1 \in Nat \ {0}
      OBVIOUS
    <2> HIDE DEF h
    <2> QED BY <1>2, <1>7, <1>15, <1>16, <2>1, <2>2, <2>3, TakeVisits
  <1>18. future = read \cup {<<x.file, t + 1>>}
    BY <1>4, <1>6, Zenon
  <1> QED BY <1>4, <1>14, <1>17, <1>18, Zenon DEF Visited

(* The file of the import that was taken last is entered for the first     *)
(* time.                                                                   *)
LeadsTo(g, x, f) == Taken(g, x) \in DOMAIN g[x.file].to /\ f = g[x.file].to[Taken(g, x)]

LEMMA PushStack ==
  ASSUME NEW g, Sound(g), NEW start, NEW fr, NEW vi, Stack(g, start, fr, vi),
         NEW x, x = fr[Len(fr)], NEW f, LeadsTo(g, x, f), f \notin vi,
         NEW y, Frames(g, y), y.file = f, y.alias # NoAlias, Taken(g, y) = 0,
         NEW fs, Longer(fr, y, fs)
  PROVE  /\ Stack(g, start, fs, vi \cup {f})
         /\ Read(g, fs, vi \cup {f}) = Read(g, fr, vi)
         /\ <<x.file, Taken(g, x)>> \in Read(g, fr, vi)
  <1>1. PICK n \in Nat : n = Len(fr) /\ n > 0 /\ n \in 1..n /\ x = fr[n]
    BY DEF Stack, IsSequence
  <1>2. /\ \A i \in 1..n : Frames(g, fr[i]) /\ fr[i].file \in vi /\ (fr[i].alias = NoAlias <=> i = 1)
        /\ fr[1].file = start
        /\ \A i, j \in 1..n : fr[i].file = fr[j].file => i = j
        /\ \A i \in 1..n - 1 :
             /\ Taken(g, fr[i]) \in DOMAIN g[fr[i].file].to
             /\ g[fr[i].file].to[Taken(g, fr[i])] = fr[i + 1].file
    BY <1>1 DEF Stack
  <1>3. IsSequence(fs) /\ Len(fs) = n + 1 /\ fs[n + 1] = y /\ \A i \in 1..n : fs[i] = fr[i]
    BY <1>1 DEF Longer
  <1>4. \A i \in 1..n + 1 : i = n + 1 \/ i \in 1..n
    BY <1>1
  <1>5. Stack(g, start, fs, vi \cup {f})
    <2>1. \A i \in 1..n + 1 : Frames(g, fs[i]) /\ fs[i].file \in vi \cup {f} /\ (fs[i].alias = NoAlias <=> i = 1)
      <3>1. n + 1 # 1
        BY <1>1
      <3>2. Frames(g, fs[n + 1]) /\ fs[n + 1].file \in vi \cup {f} /\ fs[n + 1].alias # NoAlias
        BY <1>3, Zenon
      <3>3. \A i \in 1..n : Frames(g, fs[i]) /\ fs[i].file \in vi \cup {f} /\ (fs[i].alias = NoAlias <=> i = 1)
        <4> SUFFICES ASSUME NEW i \in 1..n
                     PROVE  Frames(g, fs[i]) /\ fs[i].file \in vi \cup {f} /\ (fs[i].alias = NoAlias <=> i = 1)
          OBVIOUS
        <4>1. fs[i] = fr[i]
          BY <1>3
        <4> QED BY <1>2, <4>1
      <3> QED BY <1>4, <3>1, <3>2, <3>3, Zenon
    <2>2. fs[1].file = start
      BY <1>1, <1>2, <1>3
    <2>3. ASSUME NEW i \in 1..n + 1, NEW j \in 1..n + 1, fs[i].file = fs[j].file PROVE i = j
      BY <1>2, <1>3, <1>4, <2>3
    <2>4. ASSUME NEW i \in 1..n
          PROVE  /\ Taken(g, fs[i]) \in DOMAIN g[fs[i].file].to
                 /\ g[fs[i].file].to[Taken(g, fs[i])] = fs[i + 1].file
      <3>1. CASE i = n
        <4>1. fs[n] = x /\ fs[n + 1].file = f
          BY <1>1, <1>3
        <4> QED BY <3>1, <4>1, Zenon DEF LeadsTo
      <3>2. CASE i \in 1..n - 1
        <4>1. i + 1 \in 1..n
          BY <3>2
        <4> QED BY <1>2, <1>3, <3>2, <4>1
      <3> QED BY <1>1, <3>1, <3>2
    <2>5. Len(fs) > 0 /\ Len(fs) - 1 = n
      BY <1>1, <1>3
    <2> QED BY <1>3, <2>1, <2>2, <2>3, <2>4, <2>5, Zenon DEF Stack
  <1>7. ASSUME NEW h \in vi \cup {f}, NEW k \in Nat \ {0}
        PROVE  <<h, k>> \in Read(g, fs, vi \cup {f}) <=> <<h, k>> \in Read(g, fr, vi)
    <2>1. <<h, k>> \in Read(g, fs, vi \cup {f}) <=>
            k <= Len(Parts(g, h)) /\ \A i \in 1..n + 1 : fs[i].file = h => k <= Taken(g, fs[i])
      BY <1>3, ReadIs
    <2>2. <<h, k>> \in Read(g, fr, vi) <=>
            h \in vi /\ k <= Len(Parts(g, h)) /\ \A i \in 1..n : fr[i].file = h => k <= Taken(g, fr[i])
      BY <1>1, ReadIs
    <2>3. (\A i \in 1..n + 1 : fs[i].file = h => k <= Taken(g, fs[i])) <=>
            /\ \A i \in 1..n : fr[i].file = h => k <= Taken(g, fr[i])
            /\ f = h => k <= 0
      BY <1>1, <1>3, <1>4
    <2>4. ~(k <= 0)
      OBVIOUS
    <2> QED BY <2>1, <2>2, <2>3, <2>4, Zenon
  <1>8. Read(g, fs, vi \cup {f}) = Read(g, fr, vi)
    <2> DEFINE vj == vi \cup {f}
    <2>1. vi \subseteq vj
      OBVIOUS
    <2>2. \A h \in vj, k \in Nat \ {0} : <<h, k>> \in Read(g, fs, vj) <=> <<h, k>> \in Read(g, fr, vi)
      BY <1>7
    <2> HIDE DEF vj
    <2>3. Read(g, fs, vj) = Read(g, fr, vi)
      BY <2>1, <2>2, SameRead
    <2> QED BY <2>3 DEF vj
  <1>9. <<x.file, Taken(g, x)>> \in Read(g, fr, vi)
    <2>1. x.file \in DOMAIN g
      BY <1>1, <1>2 DEF Frames
    <2>2. Taken(g, x) \in 1..Len(Parts(g, x.file))
      BY <2>1 DEF Sound, LeadsTo
    <2>3. PICK p \in Nat : p = Len(Parts(g, x.file))
      BY <1>1, <1>2, TakenIs
    <2>4. PICK t \in Nat : t = Taken(g, x)
      BY <1>1, <1>2, TakenIs
    <2>5. t \in Nat \ {0} /\ t <= p
      BY <2>2, <2>3, <2>4
    <2>6. \A i \in 1..n : fr[i].file = x.file => t <= Taken(g, fr[i])
      BY <1>1, <1>2, <2>4
    <2> QED BY <1>1, <1>2, <2>3, <2>4, <2>5, <2>6, ReadIs
  <1> QED BY <1>5, <1>8, <1>9

LEMMA PushKeeps ==
  ASSUME NEW g, Sound(g), NEW start, NEW fr, NEW vi, Stack(g, start, fr, vi), Visited(g, start, fr, vi, TRUE),
         NEW x, x = fr[Len(fr)], NEW f, LeadsTo(g, x, f), f \in DOMAIN g \ vi, g[f].program # Absent,
         NEW y, Frames(g, y), y.file = f, y.alias # NoAlias, Taken(g, y) = 0,
         NEW fs, Longer(fr, y, fs)
  PROVE  Stack(g, start, fs, vi \cup {f}) /\ Visited(g, start, fs, vi \cup {f}, FALSE)
  <1> DEFINE edge == <<x.file, Taken(g, x)>>
             read == Read(g, fr, vi)
             past == Imported(g, read, {edge})
             imported == Imported(g, read, {})
  <1>1. Stack(g, start, fs, vi \cup {f}) /\ Read(g, fs, vi \cup {f}) = read /\ edge \in read
    BY PushStack
  <1>2. Pending(g, fr, TRUE) = {edge} /\ Pending(g, fs, FALSE) = {}
    BY DEF Pending
  <1>3. Visits(g, start, vi, read, past)
    BY <1>2, Zenon DEF Visited
  <1>4. edge[1] = x.file /\ edge[2] \in DOMAIN g[edge[1]].to /\ To(g, edge) = f
    <2>1. edge[1] = x.file /\ edge[2] = Taken(g, x)
      OBVIOUS
    <2> HIDE DEF edge
    <2> QED BY <2>1, Zenon DEF To, LeadsTo
  <1>5. start \in vi /\ x.file \in vi /\ vi \subseteq Reached(g, start)
    <2>1. PICK n \in Nat : n = Len(fr) /\ n > 0 /\ n \in 1..n /\ 1 \in 1..n
      BY DEF Stack, IsSequence
    <2> QED BY <1>3, <2>1 DEF Stack, Visits
  <1>6. f \in Reached(g, start)
    BY <1>5, ImportReached DEF LeadsTo
  <1> HIDE DEF edge, read
  <1>7. imported = past \cup {edge}
    BY <1>1, <1>4 DEF Imported
  <1> HIDE DEF past, imported
  <1>8. f # start /\ \A s \in past : To(g, s) # f
    BY <1>3, <1>5 DEF Visits
  <1>9. Visits(g, start, vi \cup {f}, read, imported)
    <2>1. vi \cup {f} \subseteq Reached(g, start)
      BY <1>5, <1>6
    <2>2. \A h \in (vi \cup {f}) \ {start} : \E s \in imported : To(g, s) = h
      BY <1>3, <1>4, <1>7 DEF Visits
    <2>3. \A s \in imported : To(g, s) \in (vi \cup {f}) \ {start}
      BY <1>3, <1>4, <1>7, <1>8 DEF Visits
    <2>4. \A s, t \in imported : To(g, s) = To(g, t) => s = t
      BY <1>3, <1>4, <1>7, <1>8 DEF Visits
    <2>5. \A h \in vi \cup {f} : g[h].program # Absent
      BY <1>3 DEF Visits
    <2> QED BY <1>3, <2>1, <2>2, <2>3, <2>4, <2>5 DEF Visits
  <1> QED BY <1>1, <1>2, <1>9, Zenon DEF Visited, imported

(* The entry is entered.                                                   *)
LEMMA PushFirst ==
  ASSUME NEW g, Sound(g), NEW start \in DOMAIN g, g[start].program # Absent,
         NEW y, Frames(g, y), y.file = start, y.alias = NoAlias, Taken(g, y) = 0,
         NEW fs, Longer(<<>>, y, fs)
  PROVE  Stack(g, start, fs, {start}) /\ Visited(g, start, fs, {start}, FALSE)
  <1>1. IsSequence(fs) /\ Len(fs) = 1 /\ fs[1] = y
    BY DEF Longer
  <1>2. \A i \in 1..1 : i = 1
    OBVIOUS
  <1>3. Stack(g, start, fs, {start})
    BY <1>1, <1>2 DEF Stack
  <1>4. Read(g, fs, {start}) = {}
    <2> SUFFICES ASSUME NEW s \in Read(g, fs, {start}) PROVE FALSE
      OBVIOUS
    <2>1. s[1] = start /\ s[2] \in Nat \ {0} /\ s[2] <= Taken(g, fs[1])
      BY <1>1 DEF Read
    <2> QED BY <1>1, <2>1
  <1>5. Imported(g, {}, Pending(g, fs, FALSE)) = {}
    BY DEF Imported
  <1>6. Visits(g, start, {start}, {}, {})
    BY StartReached DEF Visits
  <1> QED BY <1>3, <1>4, <1>5, <1>6, Zenon DEF Visited

(* A file is left for the one that imports it.                             *)
LEMMA LeaveKeeps ==
  ASSUME NEW g, Sound(g), NEW start, NEW fr, NEW vi, Stack(g, start, fr, vi), Visited(g, start, fr, vi, FALSE),
         fr[Len(fr)].rest = <<>>,
         NEW callers, Shorter(fr, callers), callers # <<>>,
         NEW y, IsFrame(y), y.file = callers[Len(callers)].file, y.alias = callers[Len(callers)].alias,
         y.rest = callers[Len(callers)].rest, y.aliases = callers[Len(callers)].aliases,
         NEW fs, Altered(callers, y, fs)
  PROVE  Stack(g, start, fs, vi) /\ Visited(g, start, fs, vi, FALSE)
  <1>1. PICK m \in Nat : m = Len(callers) /\ m > 0 /\ m \in 1..m
    BY Emptiness DEF Shorter
  <1>2. PICK n \in Nat : n = Len(fr)
    BY DEF Stack, IsSequence
  <1>3. n = m + 1 /\ \A i \in 1..m : callers[i] = fr[i] /\ i \in 1..n
    BY <1>1, <1>2 DEF Shorter
  <1>4. /\ \A i \in 1..n : Frames(g, fr[i]) /\ fr[i].file \in vi /\ (fr[i].alias = NoAlias <=> i = 1)
        /\ fr[1].file = start
        /\ \A i, j \in 1..n : fr[i].file = fr[j].file => i = j
        /\ \A i \in 1..n - 1 :
             /\ Taken(g, fr[i]) \in DOMAIN g[fr[i].file].to
             /\ g[fr[i].file].to[Taken(g, fr[i])] = fr[i + 1].file
    BY <1>2 DEF Stack
  <1>5. /\ IsSequence(fs) /\ Len(fs) = m /\ fs[m] = y /\ \A i \in 1..m - 1 : fs[i] = fr[i]
        /\ callers[m] = fr[m]
    <2>1. callers[m] = fr[m]
      BY <1>1, <1>3, Zenon
    <2>2. IsSequence(fs) /\ Len(fs) = m /\ fs[m] = y /\ \A i \in 1..m - 1 : fs[i] = callers[i]
      BY <1>1 DEF Altered
    <2>3. \A i \in 1..m - 1 : i \in 1..m
      OBVIOUS
    <2> QED BY <1>3, <2>1, <2>2, <2>3, Zenon
  <1>6. Frames(g, y) /\ Taken(g, y) = Taken(g, fr[m]) /\ y.file = fr[m].file /\ y.alias = fr[m].alias
    <2>1. y.file = fr[m].file /\ y.alias = fr[m].alias /\ y.rest = fr[m].rest /\ y.aliases = fr[m].aliases
      BY <1>1, <1>5, Zenon
    <2>2. Taken(g, y) = Taken(g, fr[m])
      BY <2>1, Zenon DEF Taken
    <2>3. Frames(g, fr[m])
      BY <1>1, <1>3, <1>4
    <2> QED BY <2>1, <2>2, <2>3, Zenon DEF Frames
  <1>7. \A i \in 1..m : i = m \/ i \in 1..m - 1
    BY <1>1
  <1>8. \A i \in 1..m : Frames(g, fs[i]) /\ fs[i].file = fr[i].file /\ fs[i].alias = fr[i].alias /\ Taken(g, fs[i]) = Taken(g, fr[i])
    <2>1. ASSUME NEW i \in 1..m - 1 PROVE fs[i] = fr[i] /\ Frames(g, fr[i])
      BY <1>3, <1>4, <1>5
    <2> QED BY <1>5, <1>6, <1>7, <2>1, Zenon
  <1>9. Stack(g, start, fs, vi)
    <2>1. \A i \in 1..m : Frames(g, fs[i]) /\ fs[i].file \in vi /\ (fs[i].alias = NoAlias <=> i = 1)
      BY <1>3, <1>4, <1>8, Zenon
    <2>2. fs[1].file = start /\ \A i, j \in 1..m : fs[i].file = fs[j].file => i = j
      <3>1. 1 \in 1..m
        BY <1>1
      <3> QED BY <1>3, <1>4, <1>8, <3>1, Zenon
    <2>3. ASSUME NEW i \in 1..m - 1
          PROVE  /\ Taken(g, fs[i]) \in DOMAIN g[fs[i].file].to
                 /\ g[fs[i].file].to[Taken(g, fs[i])] = fs[i + 1].file
      <3>1. i \in 1..m /\ i + 1 \in 1..m /\ i \in 1..n - 1
        BY <1>3
      <3> QED BY <1>4, <1>8, <3>1, Zenon
    <2> QED BY <1>1, <1>5, <2>1, <2>2, <2>3 DEF Stack
  <1>10. Read(g, fs, vi) = Read(g, fr, vi)
    <2>1. ASSUME NEW f \in vi, NEW k \in Nat \ {0}
          PROVE  <<f, k>> \in Read(g, fs, vi) <=> <<f, k>> \in Read(g, fr, vi)
      <3>1. <<f, k>> \in Read(g, fs, vi) <=>
              k <= Len(Parts(g, f)) /\ \A i \in 1..m : fs[i].file = f => k <= Taken(g, fs[i])
        BY <1>5, ReadIs
      <3>2. <<f, k>> \in Read(g, fr, vi) <=>
              k <= Len(Parts(g, f)) /\ \A i \in 1..n : fr[i].file = f => k <= Taken(g, fr[i])
        BY <1>2, ReadIs
      <3>3. \A i \in 1..n : i = n \/ i \in 1..m
        BY <1>3
      <3>4. (\A i \in 1..n : fr[i].file = f => k <= Taken(g, fr[i])) <=>
              /\ \A i \in 1..m : fr[i].file = f => k <= Taken(g, fr[i])
              /\ fr[n].file = f => k <= Taken(g, fr[n])
        BY <1>3, <3>3
      <3>5. Taken(g, fr[n]) = Len(Parts(g, fr[n].file))
        <4>1. Frames(g, fr[n])
          BY <1>3, <1>4
        <4>2. fr[n].rest = <<>> /\ Len(fr[n].rest) = 0
          BY <1>2
        <4>3. PICK p \in Nat, t \in Nat : p = Len(Parts(g, fr[n].file)) /\ t = Taken(g, fr[n]) /\ t + Len(fr[n].rest) = p
          BY <4>1, TakenIs
        <4>4. t + 0 = p
          BY <4>2, <4>3, Zenon
        <4> QED BY <4>3, <4>4
      <3>6. (\A i \in 1..m : fs[i].file = f => k <= Taken(g, fs[i])) <=>
            (\A i \in 1..m : fr[i].file = f => k <= Taken(g, fr[i]))
        BY <1>8, Zenon
      <3>7. k <= Len(Parts(g, f)) => (fr[n].file = f => k <= Taken(g, fr[n]))
        BY <3>5, Zenon
      <3> QED BY <3>1, <3>2, <3>4, <3>6, <3>7, Zenon
    <2> QED BY <2>1, SameRead
  <1>11. Pending(g, fr, FALSE) = {} /\ Pending(g, fs, FALSE) = {}
    BY DEF Pending
  <1> QED BY <1>9, <1>10, <1>11, Zenon DEF Visited

(* When the entry is left, everything was read, and it was faultless.      *)
LEMMA LastLeave ==
  ASSUME NEW g, Sound(g), NEW start, NEW fr, NEW vi, Stack(g, start, fr, vi), Visited(g, start, fr, vi, FALSE),
         NEW x, x = fr[Len(fr)], x.rest = <<>>, x.alias = NoAlias
  PROVE  Faultless(g, start, Reached(g, start))
  <1> DEFINE read == Read(g, fr, vi)
             imported == Imported(g, read, {})
  <1>1. PICK n \in Nat : n = Len(fr) /\ n > 0 /\ n \in 1..n /\ x = fr[n]
    BY DEF Stack, IsSequence
  <1>2. n = 1 /\ x.file = start /\ start \in vi /\ Frames(g, x)
    BY <1>1 DEF Stack
  <1>3. Visits(g, start, vi, read, imported)
    <2>1. Pending(g, fr, FALSE) = {}
      BY DEF Pending
    <2> QED BY <2>1, Zenon DEF Visited
  <1>4. vi \subseteq Reached(g, start) /\ Reached(g, start) \subseteq DOMAIN g
    BY <1>3 DEF Visits, Reached
  <1>5. Taken(g, x) = Len(Parts(g, x.file))
    <2>1. PICK p \in Nat, t \in Nat : p = Len(Parts(g, x.file)) /\ t = Taken(g, x) /\ t + Len(x.rest) = p
      BY <1>2, TakenIs
    <2>2. Len(x.rest) = 0
      OBVIOUS
    <2>3. t + 0 = p
      BY <2>1, <2>2, Zenon
    <2> QED BY <2>1, <2>3
  <1>6. ASSUME NEW f \in vi, NEW k \in 1..Len(Parts(g, f))
        PROVE  <<f, k>> \in read
    <2>1. PICK p \in Nat : p = Len(Parts(g, f))
      BY <1>4 DEF Sound, IsProgram, IsSequence, Parts
    <2>2. k \in Nat \ {0} /\ k <= p
      BY <2>1
    <2>3. \A i \in 1..n : fr[i].file = f => k <= Taken(g, fr[i])
      BY <1>1, <1>2, <1>5, <2>1, <2>2
    <2> QED BY <1>1, <2>1, <2>2, <2>3, ReadIs
  <1>7. ASSUME NEW f \in vi
        PROVE  DOMAIN g[f].to = {i \in 1..Len(Parts(g, f)) : IsImport(Parts(g, f)[i])}
    BY <1>4 DEF Sound
  <1>8. ASSUME NEW f \in vi, NEW i \in DOMAIN g[f].to
        PROVE  <<f, i>> \in imported /\ To(g, <<f, i>>) = g[f].to[i]
    <2>1. <<f, i>> \in read
      BY <1>6, <1>7
    <2> HIDE DEF read
    <2> QED BY <2>1 DEF Imported, To
  <1> HIDE DEF read, imported
  <1>9. \A f \in vi : \A i \in DOMAIN g[f].to : g[f].to[i] \in vi \ {start}
    <2> SUFFICES ASSUME NEW f \in vi, NEW i \in DOMAIN g[f].to PROVE g[f].to[i] \in vi \ {start}
      OBVIOUS
    <2>1. To(g, <<f, i>>) \in vi \ {start}
      BY <1>3, <1>8 DEF Visits
    <2> QED BY <1>8, <2>1, Zenon
  <1>10. Closed(g, start, vi)
    BY <1>2, <1>9 DEF Closed
  <1>11. Reached(g, start) = vi
    BY <1>4, <1>10, ReachedWithin
  <1>12. \A a, b \in Edges(g, vi) : a.to = b.to => a = b
    <2> SUFFICES ASSUME NEW a \in Edges(g, vi), NEW b \in Edges(g, vi), a.to = b.to PROVE a = b
      OBVIOUS
    <2>1. PICK f \in vi : \E i \in DOMAIN g[f].to : a = [from |-> f, at |-> i, to |-> g[f].to[i]]
      BY DEF Edges
    <2>2. PICK h \in vi : \E j \in DOMAIN g[h].to : b = [from |-> h, at |-> j, to |-> g[h].to[j]]
      BY DEF Edges
    <2>3. PICK i \in DOMAIN g[f].to : a = [from |-> f, at |-> i, to |-> g[f].to[i]]
      BY <2>1
    <2>4. PICK j \in DOMAIN g[h].to : b = [from |-> h, at |-> j, to |-> g[h].to[j]]
      BY <2>2
    <2>5. g[f].to[i] = g[h].to[j]
      BY <2>3, <2>4
    <2>6. To(g, <<f, i>>) = To(g, <<h, j>>) /\ <<f, i>> \in imported /\ <<h, j>> \in imported
      BY <1>8, <2>5, Zenon
    <2>7. <<f, i>> = <<h, j>>
      BY <1>3, <2>6, Zenon DEF Visits
    <2>8. f = h /\ i = j
      BY <2>7
    <2> QED BY <2>3, <2>4, <2>8, Zenon
  <1>13. ASSUME NEW f \in vi
         PROVE  /\ g[f].program # Absent /\ ~TwiceUsed(g[f].program)
                /\ f = start \/ ~Illegal(g[f].program)
    <2>1. IsSequence(Parts(g, f)) /\ DOMAIN Parts(g, f) = 1..Len(Parts(g, f)) /\ Len(Parts(g, f)) \in Nat
      <3>1. IsSequence(Parts(g, f))
        BY <1>4 DEF Sound, IsProgram, Parts
      <3> QED BY <3>1, SequenceIn DEF IsSequence
    <2>2. g[f].program # Absent
      BY <1>3 DEF Visits
    <2>3. ASSUME NEW i \in 1..Len(Parts(g, f)), NEW j \in 1..Len(Parts(g, f)), i < j,
                 IsImport(Parts(g, f)[i]), IsImport(Parts(g, f)[j])
          PROVE  Parts(g, f)[i].text # Parts(g, f)[j].text
      <3> DEFINE s == <<f, i>>
                 t == <<f, j>>
      <3>1. s \in read /\ t \in read
        BY <1>6
      <3>2. s[1] = f /\ t[1] = f /\ s[2] = i /\ t[2] = j
        OBVIOUS
      <3> HIDE DEF s, t
      <3> QED BY <1>3, <2>3, <3>1, <3>2 DEF Visits
    <2>4. ~TwiceUsed(g[f].program)
      BY <2>1, <2>3 DEF TwiceUsed, Parts
    <2>5. ASSUME f # start, NEW i \in 1..Len(Parts(g, f))
          PROVE  Parts(g, f)[i].kind \in {"Fn", "AsyncFn", "Enum", "Tool", "Infer", "Import", "ImportFile"}
      <3> DEFINE s == <<f, i>>
      <3>1. s \in read
        BY <1>6
      <3>2. s[1] = f /\ s[2] = i
        OBVIOUS
      <3> HIDE DEF s
      <3>3. Parts(g, f)[i].kind \in Importable \cup {"ImportFile"}
        BY <1>3, <2>5, <3>1, <3>2 DEF Visits
      <3> QED BY <3>3 DEF Importable
    <2>6. f = start \/ ~Illegal(g[f].program)
      BY <2>1, <2>5 DEF Illegal, Parts
    <2> QED BY <2>2, <2>4, <2>6
  <1> QED BY <1>2, <1>9, <1>11, <1>12, <1>13, Zenon DEF Faultless

-----------------------------------------------------------------------------
(* The errors *)

Files(d, e) == Reached(Graph(d, e), Start(d, e))

(* What is on the stack was reached, and the entry is visited.             *)
LEMMA StackReached ==
  ASSUME NEW d, NEW e, Readable(d), NEW fr, NEW vi, NEW as, UnderWay(d, e, Graph(d, e), fr, vi, as)
  PROVE  /\ Sound(Graph(d, e)) /\ DOMAIN Graph(d, e) = DOMAIN d.files
         /\ Len(fr) \in Nat \ {0} /\ Len(fr) \in 1..Len(fr)
         /\ vi \subseteq Files(d, e) /\ Files(d, e) \subseteq DOMAIN Graph(d, e)
         /\ \A i \in 1..Len(fr) : fr[i].file \in vi
         /\ Start(d, e) \in vi
         /\ Frames(Graph(d, e), fr[Len(fr)])
  <1>1. Sound(Graph(d, e)) /\ DOMAIN Graph(d, e) = DOMAIN d.files
    BY GraphOfDisk
  <1> DEFINE g == Graph(d, e)
             start == Start(d, e)
  <1> HIDE DEF g, start
  <1>2. Stack(g, start, fr, vi) /\ Visited(g, start, fr, vi, as.call)
    BY Zenon DEF UnderWay, g, start
  <1>3. PICK n \in Nat \ {0} : n = Len(fr) /\ n \in 1..n /\ 1 \in 1..n
    BY <1>2 DEF Stack, IsSequence
  <1>4. /\ \A i \in 1..n : fr[i].file \in vi
        /\ start \in vi /\ Frames(g, fr[n])
    BY <1>2, <1>3 DEF Stack
  <1>5. vi \subseteq Reached(g, start)
    BY <1>2 DEF Visited, Visits
  <1>6. Reached(g, start) \subseteq DOMAIN g
    BY DEF Reached
  <1> QED BY <1>1, <1>3, <1>4, <1>5, <1>6, Zenon DEF Files, g, start

(* The import that is asked for is an edge of the innermost file, x.       *)
AskedAt(d, e, g, x, as) ==
  /\ Taken(g, x) \in DOMAIN g[x.file].to
  /\ g[x.file].to[Taken(g, x)] = Canonical(d, as.path)
  /\ as.path = Wanted(d, e, x.file, g[x.file].program.parts[Taken(g, x)])
  /\ as.alias # NoAlias

LEMMA AskedEdge ==
  ASSUME NEW d, NEW e, Readable(d), NEW fr, NEW vi, NEW as, as.call,
         UnderWay(d, e, Graph(d, e), fr, vi, as)
  PROVE  AskedAt(d, e, Graph(d, e), fr[Len(fr)], as)
  <1> DEFINE g == Graph(d, e)
             x == fr[Len(fr)]
             t == Taken(g, x)
  <1>1. t \in DOMAIN g[x.file].to /\ as.path = Wanted(d, e, x.file, Parts(g, x.file)[t]) /\ as.alias # NoAlias
    BY Zenon DEF UnderWay, Asks
  <1>2. x.file \in DOMAIN d.files
    BY StackReached
  <1>3. g[x.file].to[t] = Canonical(d, Wanted(d, e, x.file, Parts(g, x.file)[t]))
    <2> HIDE DEF t
    <2> QED BY <1>1, <1>2, GraphOfDisk
  <1> QED BY <1>1, <1>3, Zenon DEF Parts, AskedAt

(* What is asked for was reached.                                          *)
LEMMA AskedReached ==
  ASSUME NEW d, NEW e, Readable(d), NEW fr, NEW vi, NEW as, as.call, Walks(d, e, fr, vi, as),
         Canonical(d, as.path) \in DOMAIN d.files
  PROVE  Canonical(d, as.path) \in Files(d, e)
  <1>1. DOMAIN Graph(d, e) = DOMAIN d.files
    BY GraphOfDisk
  <1>2. CASE Begun(e, fr, vi, as)
    <2>1. as.path = e.path
      BY <1>2 DEF Begun
    <2>2. Canonical(d, as.path) = Start(d, e)
      BY <2>1, Zenon DEF Start
    <2>3. Start(d, e) \in DOMAIN Graph(d, e)
      BY <1>1, <2>2, Zenon
    <2> QED BY <2>2, <2>3, StartReached, Zenon DEF Files
  <1>3. CASE UnderWay(d, e, Graph(d, e), fr, vi, as)
    <2> DEFINE g == Graph(d, e)
               start == Start(d, e)
               f == fr[Len(fr)].file
               t == Taken(g, fr[Len(fr)])
    <2>1. t \in DOMAIN g[f].to /\ g[f].to[t] = Canonical(d, as.path)
      BY <1>3, AskedEdge, Zenon DEF AskedAt
    <2>2. f \in Reached(g, start)
      BY <1>3, StackReached DEF Files
    <2> HIDE DEF f, t, g, start
    <2>3. g[f].to[t] \in DOMAIN g
      BY <1>1, <2>1, Zenon DEF g
    <2>4. g[f].to[t] \in Reached(g, start)
      BY <2>1, <2>2, <2>3, ImportReached, Zenon
    <2> QED BY <2>1, <2>4, Zenon DEF Files, g, start
  <1> QED BY <1>2, <1>3 DEF Walks

LEMMA IoHolds ==
  ASSUME NEW d, NEW e, Readable(d), NEW fr, NEW vi, NEW as, as.call, Walks(d, e, fr, vi, as),
         Canonical(d, as.path) \notin DOMAIN d.files
  PROVE  Holds(d, e, Graph(d, e), Files(d, e), "Io", as.path)
  <1> DEFINE g == Graph(d, e)
  <1>1. CASE Begun(e, fr, vi, as)
    <2>1. as.path = e.path
      BY <1>1 DEF Begun
    <2> QED BY <2>1 DEF Holds
  <1>2. CASE UnderWay(d, e, Graph(d, e), fr, vi, as)
    <2>1. PICK x : x = fr[Len(fr)]
      OBVIOUS
    <2> DEFINE f == x.file
               t == Taken(g, x)
    <2>2. t \in DOMAIN g[f].to /\ as.path = Wanted(d, e, f, g[f].program.parts[t])
      <3>1. AskedAt(d, e, g, x, as)
        BY <1>2, <2>1, AskedEdge, Zenon
      <3> QED BY <3>1, Zenon DEF AskedAt
    <2>3. f \in Files(d, e)
      BY <1>2, <2>1, StackReached
    <2> HIDE DEF f, t, g
    <2>4. \E h \in Files(d, e) : \E i \in DOMAIN g[h].to : as.path = Wanted(d, e, h, g[h].program.parts[i])
      BY <2>2, <2>3
    <2> QED BY <2>4 DEF Holds, g
  <1> QED BY <1>1, <1>2 DEF Walks

LEMMA ParseHolds ==
  ASSUME NEW d, NEW e, Readable(d), NEW fr, NEW vi, NEW as, as.call, Walks(d, e, fr, vi, as),
         NEW f \in DOMAIN d.files, f = Canonical(d, as.path), ProgramOf(d.files[f]) = Absent
  PROVE  Holds(d, e, Graph(d, e), Files(d, e), "Parse", f)
  <1>1. f \in Files(d, e)
    BY AskedReached
  <1>2. Graph(d, e)[f].program = Absent
    BY GraphOfDisk
  <1> QED BY <1>1, <1>2 DEF Holds

LEMMA CycleHolds ==
  ASSUME NEW d, NEW e, Readable(d), NEW fr, NEW vi, NEW as, as.call, UnderWay(d, e, Graph(d, e), fr, vi, as),
         NEW f, f = Canonical(d, as.path), NEW s \in 1..Len(fr), fr[s].file = f
  PROVE  Holds(d, e, Graph(d, e), Files(d, e), "Cycle",
               Append([i \in 1..Len(fr) - s + 1 |-> fr[s + i - 1].file], f))
  <1> DEFINE g == Graph(d, e)
             n == Len(fr)
             q == [i \in 1..Len(fr) - s + 1 |-> fr[s + i - 1].file]
             at == Append(q, f)
  <1>1. n \in Nat \ {0} /\ \A i \in 1..n : fr[i].file \in Files(d, e)
    BY StackReached
  <1>2. PICK m \in Nat \ {0} : m = n - s + 1
    BY <1>1
  <1>3. Len(at) = m + 1 /\ at[m + 1] = f /\ \A i \in 1..m : at[i] = fr[s + i - 1].file
    <2>1. q = [i \in 1..m |-> fr[s + i - 1].file]
      BY <1>2
    <2>2. \A i \in 1..m : s + i - 1 \in 1..n
      BY <1>1, <1>2
    <2>3. q \in Seq(Files(d, e)) /\ Len(q) = m
      BY <1>1, <2>1, <2>2
    <2>4. IsSequence(q)
      BY <2>3, SequenceOf
    <2> HIDE DEF q
    <2>5. Longer(q, f, at)
      BY <2>4, AppendIsLonger
    <2> QED BY <2>1, <2>3, <2>5 DEF Longer
  <1>4. at[1] = f
    <2>1. 1 \in 1..m /\ s + 1 - 1 = s
      BY <1>2
    <2> QED BY <1>3, <2>1
  <1>5. ASSUME NEW i \in 1..m
        PROVE  at[i] \in Files(d, e) /\ \E k \in DOMAIN g[at[i]].to : g[at[i]].to[k] = at[i + 1]
    <2>1. PICK j \in 1..n : j = s + i - 1
      BY <1>1, <1>2
    <2>2. at[i] = fr[j].file
      BY <1>3, <2>1
    <2>3. CASE j = n
      <3>1. at[i + 1] = f
        <4>1. i + 1 = m + 1
          BY <1>1, <1>2, <2>1, <2>3
        <4> QED BY <1>3, <4>1
      <3>2. Taken(g, fr[n]) \in DOMAIN g[fr[n].file].to /\ g[fr[n].file].to[Taken(g, fr[n])] = f
        <4>1. AskedAt(d, e, g, fr[n], as)
          BY AskedEdge, Zenon
        <4> QED BY <4>1, Zenon DEF AskedAt
      <3> HIDE DEF at, g, n
      <3> QED BY <1>1, <2>1, <2>2, <2>3, <3>1, <3>2
    <2>4. CASE j # n
      <3>1. j \in 1..n - 1 /\ i + 1 \in 1..m /\ s + (i + 1) - 1 = j + 1
        BY <1>1, <1>2, <2>1, <2>4
      <3>2. at[i + 1] = fr[j + 1].file
        BY <1>3, <3>1
      <3>3. Stack(g, Start(d, e), fr, vi)
        BY Zenon DEF UnderWay
      <3>4. Taken(g, fr[j]) \in DOMAIN g[fr[j].file].to /\ g[fr[j].file].to[Taken(g, fr[j])] = fr[j + 1].file
        BY <3>1, <3>3 DEF Stack
      <3> HIDE DEF at, g, n
      <3> QED BY <1>1, <2>1, <2>2, <3>2, <3>4
    <2> QED BY <2>3, <2>4
  <1> HIDE DEF at, g
  <1>6. Len(at) > 1 /\ at[Len(at)] = at[1] /\ Len(at) - 1 = m
    BY <1>3, <1>4
  <1>7. Holds(d, e, g, Files(d, e), "Cycle", at)
    BY <1>5, <1>6 DEF Holds
  <1> QED BY <1>7, Zenon DEF at, g

LEMMA EdgeOf ==
  ASSUME NEW g, NEW files, NEW h \in files, NEW i \in DOMAIN g[h].to, NEW f, f = g[h].to[i]
  PROVE  [from |-> h, at |-> i, to |-> f] \in Edges(g, files)
  BY DEF Edges

(* A file is imported twice if what is asked for was entered and left.     *)
LEMMA DuplicateImportHolds ==
  ASSUME NEW d, NEW e, Readable(d), NEW fr, NEW vi, NEW as, as.call, UnderWay(d, e, Graph(d, e), fr, vi, as),
         NEW f, f = Canonical(d, as.path), f \in vi, \A i \in 1..Len(fr) : fr[i].file # f
  PROVE  Holds(d, e, Graph(d, e), Files(d, e), "DuplicateImport", f)
  <1> DEFINE g == Graph(d, e)
             start == Start(d, e)
             read == Read(g, fr, vi)
  <1>1. PICK x : x = fr[Len(fr)]
    OBVIOUS
  <1> DEFINE edge == <<x.file, Taken(g, x)>>
  <1>2. Taken(g, x) \in DOMAIN g[x.file].to /\ g[x.file].to[Taken(g, x)] = f
    <2>1. AskedAt(d, e, g, x, as)
      BY <1>1, AskedEdge, Zenon
    <2> QED BY <2>1, Zenon DEF AskedAt
  <1>3. /\ x.file \in Files(d, e) /\ vi \subseteq Files(d, e)
        /\ Len(fr) \in Nat \ {0}
    BY <1>1, StackReached
  <1>4. f # start
    <2>1. Stack(g, start, fr, vi)
      BY Zenon DEF UnderWay
    <2>2. fr[1].file = start /\ 1 \in 1..Len(fr)
      BY <1>3, <2>1 DEF Stack
    <2> QED BY <2>2
  <1>5. Visits(g, start, vi, read, Imported(g, read, {edge}))
    <2>1. Pending(g, fr, as.call) = {edge}
      BY <1>1, Zenon DEF Pending
    <2> QED BY <2>1, Zenon DEF UnderWay, Visited
  <1> HIDE DEF g, edge
  <1>6. PICK s \in Imported(g, read, {edge}) : To(g, s) = f
    BY <1>4, <1>5 DEF Visits
  <1>7. s \in read /\ s[2] \in DOMAIN g[s[1]].to /\ s # edge
    BY <1>6 DEF Imported
  <1>8. s = <<s[1], s[2]>> /\ s[1] \in Files(d, e)
    BY <1>3, <1>7 DEF Read
  <1> DEFINE a == [from |-> x.file, at |-> Taken(g, x), to |-> f]
             b == [from |-> s[1], at |-> s[2], to |-> f]
  <1>9. a \in Edges(g, Files(d, e))
    BY <1>2, <1>3, EdgeOf, Zenon
  <1>10. b \in Edges(g, Files(d, e))
    <2>1. g[s[1]].to[s[2]] = f
      BY <1>6, Zenon DEF To
    <2> HIDE DEF read
    <2> QED BY <1>7, <1>8, <2>1, EdgeOf, Zenon
  <1>11. a # b
    <2>1. ASSUME a = b PROVE x.file = s[1] /\ Taken(g, x) = s[2]
      <3>1. a.from = b.from /\ a.at = b.at
        BY <2>1, Zenon
      <3> QED BY <3>1
    <2> QED BY <1>7, <1>8, <2>1, Zenon DEF edge
  <1>12. a.to = f /\ b.to = f
    OBVIOUS
  <1> HIDE DEF a, b
  <1>13. Holds(d, e, g, Files(d, e), "DuplicateImport", f)
    BY <1>9, <1>10, <1>11, <1>12 DEF Holds
  <1> QED BY <1>13, Zenon DEF g

(* What the next statement is in the graph.                                *)
NextIn(g, x) ==
  /\ Taken(g, x) \in Nat
  /\ Taken(g, x) + 1 \in DOMAIN g[x.file].program.parts
  /\ g[x.file].program.parts[Taken(g, x) + 1] = Head(x.rest)
  /\ x.aliases = AliasesUpTo(g, x.file, Taken(g, x))
  /\ DOMAIN g[x.file].program.parts = 1..Len(g[x.file].program.parts)
  /\ Len(g[x.file].program.parts) \in Nat

LEMMA NextOfTop ==
  ASSUME NEW d, NEW e, Readable(d), NEW fr, NEW vi, NEW as, UnderWay(d, e, Graph(d, e), fr, vi, as),
         NEW x, x = fr[Len(fr)], x.rest # <<>>
  PROVE  x.file \in Files(d, e) /\ NextIn(Graph(d, e), x)
  <1> DEFINE g == Graph(d, e)
  <1>1. Sound(g) /\ Frames(g, x) /\ x.file \in Files(d, e)
    BY StackReached
  <1> HIDE DEF g
  <1>2. /\ Taken(g, x) + 1 \in 1..Len(Parts(g, x.file))
        /\ Head(x.rest) = Parts(g, x.file)[Taken(g, x) + 1]
    BY <1>1, NextStatement
  <1>3. DOMAIN Parts(g, x.file) = 1..Len(Parts(g, x.file)) /\ Taken(g, x) \in Nat /\ Len(Parts(g, x.file)) \in Nat
    BY <1>1, TakenIs, SequenceIn
  <1>4. x.aliases = AliasesUpTo(g, x.file, Taken(g, x))
    BY <1>1 DEF Frames
  <1> QED BY <1>1, <1>2, <1>3, <1>4, Zenon DEF Parts, NextIn, g

LEMMA DuplicateAliasHolds ==
  ASSUME NEW d, NEW e, Readable(d), NEW fr, NEW vi, NEW as, UnderWay(d, e, Graph(d, e), fr, vi, as),
         NEW x, x = fr[Len(fr)], x.rest # <<>>, IsImport(Head(x.rest)), Head(x.rest).text \in x.aliases
  PROVE  Holds(d, e, Graph(d, e), Files(d, e), "DuplicateAlias", x.file)
  <1> DEFINE g == Graph(d, e)
             t == Taken(g, x)
             P == g[x.file].program.parts
  <1>1. /\ x.file \in Files(d, e) /\ t + 1 \in DOMAIN P /\ P[t + 1] = Head(x.rest)
        /\ x.aliases = AliasesUpTo(g, x.file, t) /\ t \in Nat /\ DOMAIN P = 1..Len(P) /\ Len(P) \in Nat
    <2>1. x.file \in Files(d, e) /\ NextIn(g, x)
      BY NextOfTop, Zenon
    <2> QED BY <2>1, Zenon DEF NextIn
  <1>2. PICK k \in 1..t : IsImport(P[k]) /\ P[k].text = P[t + 1].text
    <2> HIDE DEF g, t
    <2> QED BY <1>1 DEF AliasesUpTo, Parts
  <1> HIDE DEF t
  <1>3. k < t + 1 /\ k \in 1..t + 1
    BY <1>1
  <1>4. k \in DOMAIN P
    <2> HIDE DEF P
    <2>1. PICK m \in Nat : m = Len(P)
      BY <1>1
    <2>2. t + 1 \in 1..m
      BY <1>1, <2>1, Zenon
    <2>3. k \in 1..m
      BY <1>1, <1>3, <2>2
    <2> QED BY <1>1, <2>1, <2>3
  <1>5. TwiceUsed(g[x.file].program)
    <2> HIDE DEF g
    <2> QED BY <1>1, <1>2, <1>3, <1>4 DEF TwiceUsed
  <1> QED BY <1>1, <1>5 DEF Holds

LEMMA IllegalHolds ==
  ASSUME NEW d, NEW e, Readable(d), NEW fr, NEW vi, NEW as, UnderWay(d, e, Graph(d, e), fr, vi, as),
         NEW x, x = fr[Len(fr)], x.rest # <<>>, ~IsImport(Head(x.rest)), Head(x.rest).kind \notin Importable,
         x.alias # NoAlias
  PROVE  Holds(d, e, Graph(d, e), Files(d, e), "IllegalTopLevelStatement", x.file)
  <1> DEFINE g == Graph(d, e)
  <1>1. /\ x.file \in Files(d, e) /\ Taken(g, x) + 1 \in DOMAIN g[x.file].program.parts
        /\ g[x.file].program.parts[Taken(g, x) + 1] = Head(x.rest)
    <2>1. x.file \in Files(d, e) /\ NextIn(g, x)
      BY NextOfTop, Zenon
    <2> QED BY <2>1, Zenon DEF NextIn
  <1>2. Head(x.rest).kind \notin {"Fn", "AsyncFn", "Enum", "Tool", "Infer", "Import", "ImportFile"}
    BY DEF Importable, IsImport
  <1>3. Illegal(g[x.file].program)
    <2> HIDE DEF g
    <2> QED BY <1>1, <1>2 DEF Illegal
  <1>4. x.file # Start(d, e)
    <2>1. Stack(g, Start(d, e), fr, vi)
      BY Zenon DEF UnderWay
    <2>2. PICK n \in Nat \ {0} : n = Len(fr)
      BY StackReached
    <2>3. n \in 1..n /\ 1 \in 1..n
      OBVIOUS
    <2> HIDE DEF g
    <2> QED BY <2>1, <2>2, <2>3 DEF Stack
  <1> QED BY <1>1, <1>3, <1>4 DEF Holds

(* What discover found.                                                    *)
PackagesTrue(d, e, p) ==
  /\ p.is \in {"NoPackageRoot", "NoLockfile", "Resolved"}
  /\ p.is = "NoPackageRoot" => e.bare \/ Root(d, e) = NoPath
  /\ p.is = "NoLockfile" => Root(d, e) # NoPath /\ Root(d, e) \notin DOMAIN d.locks
  /\ p.is = "Resolved" => Root(d, e) \in DOMAIN d.locks /\ p.dirs = Locked(d, e)

LEMMA PackageHolds ==
  ASSUME NEW d, NEW e, Readable(d), NEW fr, NEW vi, NEW as, UnderWay(d, e, Graph(d, e), fr, vi, as),
         NEW x, x = fr[Len(fr)], x.rest # <<>>, IsImport(Head(x.rest)), ~IsRelativeImport(PathOf(Head(x.rest))),
         NEW p, PackagesTrue(d, e, p), NEW name, name = PackageName(PathOf(Head(x.rest))), ~e.bare,
         NEW error, \/ p.is # "Resolved" /\ error = p.is
                    \/ p.is = "Resolved" /\ name \notin DOMAIN p.dirs /\ error = "UnknownPackage"
  PROVE  Holds(d, e, Graph(d, e), Files(d, e), error, <<x.file, name>>)
  <1> DEFINE g == Graph(d, e)
             at == <<x.file, name>>
  <1>1. /\ x.file \in Files(d, e) /\ Taken(g, x) + 1 \in DOMAIN g[x.file].program.parts
        /\ g[x.file].program.parts[Taken(g, x) + 1] = Head(x.rest)
    <2>1. x.file \in Files(d, e) /\ NextIn(g, x)
      BY NextOfTop, Zenon
    <2> QED BY <2>1, Zenon DEF NextIn
  <1>2. ImportsPackage(g[x.file].program, name)
    <2> HIDE DEF g
    <2> QED BY <1>1 DEF ImportsPackage
  <1>3. at[1] = x.file /\ at[2] = name
    OBVIOUS
  <1> HIDE DEF g, at
  <1>4. error \in {"NoPackageRoot", "NoLockfile", "UnknownPackage"}
    BY DEF PackagesTrue
  <1>5. error = "NoPackageRoot" => Root(d, e) = NoPath
    BY DEF PackagesTrue
  <1>6. error = "NoLockfile" => Root(d, e) # NoPath /\ Root(d, e) \notin DOMAIN d.locks
    BY DEF PackagesTrue
  <1>7. error = "UnknownPackage" => Root(d, e) \in DOMAIN d.locks /\ name \notin DOMAIN Locked(d, e)
    BY DEF PackagesTrue
  <1>8. Holds(d, e, g, Files(d, e), error, at)
    BY <1>1, <1>2, <1>3, <1>4, <1>5, <1>6, <1>7 DEF Holds
  <1> QED BY <1>8, Zenon DEF g, at

LEMMA LockfileHolds ==
  ASSUME NEW d, NEW e, NEW root, root = Root(d, e), root \in DOMAIN d.locks, ~d.locks[root].ok
  PROVE  Holds(d, e, Graph(d, e), Files(d, e), "InvalidLockfile", root)
  BY DEF Holds

-----------------------------------------------------------------------------
(* The steps, of a disk *)

(* The first file is entered; and another one.                             *)
Entered(d, f, alias, y) ==
  y = [file |-> f, alias |-> alias, rest |-> ProgramOf(d.files[f]).parts, flat |-> <<>>, aliases |-> {}]

LEMMA EntersFirst ==
  ASSUME NEW d, NEW e, Readable(d), NEW f \in DOMAIN d.files, f = Start(d, e), ProgramOf(d.files[f]) # Absent,
         NEW y, Entered(d, f, NoAlias, y),
         NEW as, as = Nothing
  PROVE  UnderWay(d, e, Graph(d, e), Append(<<>>, y), {f}, as)
  <1> DEFINE g == Graph(d, e)
             fs == Append(<<>>, y)
  <1>1. Sound(g) /\ f \in DOMAIN g /\ g[f].program = ProgramOf(d.files[f])
    BY GraphOfDisk
  <1> HIDE DEF g
  <1>2. Longer(<<>>, y, fs)
    <2>1. IsSequence(<<>>)
      BY DEF IsSequence
    <2> QED BY <2>1, AppendIsLonger
  <1>3. Fresh(g, f, NoAlias, y)
    BY <1>1, Zenon DEF Parts, Fresh, Entered
  <1>4. Frames(g, y) /\ Taken(g, y) = 0 /\ y.file = f /\ y.alias = NoAlias
    <2>1. Untouched(g, f, NoAlias, y)
      BY <1>1, <1>3, FirstFrame, Zenon
    <2> QED BY <2>1, Zenon DEF Untouched
  <1>5. as.call = FALSE
    BY DEF Nothing
  <1> HIDE DEF fs
  <1>6. Stack(g, f, fs, {f}) /\ Visited(g, f, fs, {f}, FALSE)
    BY <1>1, <1>2, <1>4, PushFirst
  <1>7. Asks(d, e, g, fs, as)
    BY <1>5 DEF Asks
  <1> QED BY <1>5, <1>6, <1>7, Zenon DEF UnderWay, g, fs

LEMMA EntersNext ==
  ASSUME NEW d, NEW e, Readable(d), NEW fr, NEW vi, NEW as, as.call = TRUE, UnderWay(d, e, Graph(d, e), fr, vi, as),
         NEW f \in DOMAIN d.files \ vi, f = Canonical(d, as.path), ProgramOf(d.files[f]) # Absent,
         NEW alias, alias = as.alias, NEW y, Entered(d, f, alias, y),
         NEW at, at = Nothing
  PROVE  UnderWay(d, e, Graph(d, e), Append(fr, y), vi \cup {f}, at)
  <1> DEFINE g == Graph(d, e)
             start == Start(d, e)
             fs == Append(fr, y)
             top == fr[Len(fr)]
  <1>1. Sound(g) /\ f \in DOMAIN g /\ f \notin vi /\ g[f].program = ProgramOf(d.files[f])
    BY GraphOfDisk
  <1>2. AskedAt(d, e, g, top, as)
    BY AskedEdge, Zenon
  <1> HIDE DEF g
  <1>3. Stack(g, start, fr, vi) /\ Visited(g, start, fr, vi, TRUE)
    BY Zenon DEF UnderWay, g
  <1>4. Longer(fr, y, fs)
    BY <1>3, AppendIsLonger DEF Stack
  <1>5. Fresh(g, f, alias, y)
    BY <1>1, Zenon DEF Parts, Fresh, Entered
  <1>6. Frames(g, y) /\ Taken(g, y) = 0 /\ y.file = f /\ y.alias = alias
    <2>1. Untouched(g, f, alias, y)
      BY <1>1, <1>5, FirstFrame, Zenon
    <2> QED BY <2>1, Zenon DEF Untouched
  <1>7. at.call = FALSE
    BY DEF Nothing
  <1>8. LeadsTo(g, top, f) /\ y.alias # NoAlias
    BY <1>2, <1>6, Zenon DEF AskedAt, LeadsTo
  <1>9. g[f].program # Absent
    BY <1>1, Zenon
  <1> HIDE DEF fs, start
  <1>10. PICK z : z = fr[Len(fr)]
    OBVIOUS
  <1>11. Stack(g, start, fs, vi \cup {f}) /\ Visited(g, start, fs, vi \cup {f}, FALSE)
    BY <1>1, <1>3, <1>4, <1>6, <1>8, <1>9, <1>10, PushKeeps
  <1>12. Asks(d, e, g, fs, at)
    BY <1>7 DEF Asks
  <1> QED BY <1>7, <1>11, <1>12, Zenon DEF UnderWay, g, fs, start

(* A frame of which a statement was taken.                                 *)
ImportTaken(x, y) == y = [x EXCEPT !.rest = Tail(@), !.aliases = @ \cup {Head(x.rest).text}]
LEMMA TookImport ==
  ASSUME NEW x, IsFrame(x), IsImport(Head(x.rest)), NEW y, ImportTaken(x, y)
  PROVE  Took(x, y)
  <1>1. PICK s : s = Head(x.rest).text
    OBVIOUS
  <1>2. IsFrame(y) /\ y.file = x.file /\ y.alias = x.alias /\ y.rest = Tail(x.rest) /\ y.aliases = x.aliases \cup {s}
    BY <1>1 DEF IsFrame, ImportTaken
  <1> QED BY <1>1, <1>2, Zenon DEF Took

StatementTaken(x, y) == y = [x EXCEPT !.rest = Tail(@), !.flat = Append(@, Head(x.rest))]
LEMMA TookStatement ==
  ASSUME NEW x, IsFrame(x), ~IsImport(Head(x.rest)), NEW y, StatementTaken(x, y)
  PROVE  Took(x, y)
  <1>1. IsFrame(y) /\ y.file = x.file /\ y.alias = x.alias /\ y.rest = Tail(x.rest) /\ y.aliases = x.aliases
    BY DEF IsFrame, StatementTaken
  <1> QED BY <1>1 DEF Took

(* A statement is taken that is no import; and an import.                  *)
LEMMA TakesStatement ==
  ASSUME NEW d, NEW e, Readable(d), NEW fr, NEW vi, NEW as, as.call = FALSE, UnderWay(d, e, Graph(d, e), fr, vi, as),
         NEW x, x = fr[Len(fr)], x.rest # <<>>, ~IsImport(Head(x.rest)),
         x.alias = NoAlias \/ Head(x.rest).kind \in Importable,
         NEW y, StatementTaken(x, y)
  PROVE  UnderWay(d, e, Graph(d, e), Append(Front(fr), y), vi, as)
  <1> DEFINE g == Graph(d, e)
             start == Start(d, e)
             fs == Append(Front(fr), y)
             h == Head(x.rest)
  <1>1. Sound(g) /\ Frames(g, x) /\ Len(fr) \in Nat \ {0}
    BY StackReached
  <1> HIDE DEF g
  <1>2. Stack(g, start, fr, vi) /\ Visited(g, start, fr, vi, FALSE)
    BY Zenon DEF UnderWay, g
  <1>3. IsSequence(fr) /\ fr # <<>>
    BY <1>1, <1>2 DEF Stack
  <1>4. Altered(fr, y, fs)
    BY <1>3, ReplaceAlters
  <1>5. Took(x, y)
    BY <1>1, TookStatement DEF Frames
  <1>6. MayTake(x)
    BY DEF MayTake
  <1>7. PICK waits \in BOOLEAN : waits = FALSE
    OBVIOUS
  <1>8. waits <=> IsImport(h)
    BY <1>7
  <1> HIDE DEF fs, start
  <1>9. Stack(g, start, fs, vi) /\ Visited(g, start, fs, vi, waits)
    BY <1>1, <1>2, <1>4, <1>5, <1>6, <1>8, TakeKeeps
  <1>10. Asks(d, e, g, fs, as)
    BY DEF Asks
  <1> QED BY <1>7, <1>9, <1>10, Zenon DEF UnderWay, g, fs, start

LEMMA TakesImport ==
  ASSUME NEW d, NEW e, Readable(d), NEW fr, NEW vi, NEW as, as.call = FALSE, UnderWay(d, e, Graph(d, e), fr, vi, as),
         NEW x, x = fr[Len(fr)], x.rest # <<>>, NEW h, h = Head(x.rest), IsImport(h), h.text \notin x.aliases,
         NEW y, ImportTaken(x, y),
         NEW path, path = Wanted(d, e, x.file, h),
         NEW at, at = [call |-> TRUE, path |-> path, alias |-> h.text]
  PROVE  UnderWay(d, e, Graph(d, e), Append(Front(fr), y), vi, at)
  <1> DEFINE g == Graph(d, e)
             start == Start(d, e)
             fs == Append(Front(fr), y)
  <1>1. Sound(g) /\ Frames(g, x) /\ Len(fr) \in Nat \ {0}
    BY StackReached
  <1> HIDE DEF g
  <1>2. Stack(g, start, fr, vi) /\ Visited(g, start, fr, vi, FALSE)
    BY Zenon DEF UnderWay, g
  <1>3. IsSequence(fr) /\ fr # <<>>
    BY <1>1, <1>2 DEF Stack
  <1>4. Altered(fr, y, fs)
    BY <1>3, ReplaceAlters
  <1>5. Took(x, y) /\ y.file = x.file
    <2>1. IsFrame(x)
      BY <1>1 DEF Frames
    <2>2. IsImport(Head(x.rest))
      OBVIOUS
    <2>3. Took(x, y)
      BY <2>1, <2>2, TookImport, Zenon
    <2> QED BY <2>3, Zenon DEF Took
  <1>6. MayTake(x)
    BY DEF MayTake, IsImport
  <1>7. PICK waits \in BOOLEAN : waits = TRUE
    OBVIOUS
  <1>8. waits <=> IsImport(Head(x.rest))
    BY <1>7
  <1> HIDE DEF fs, start
  <1>9. Stack(g, start, fs, vi) /\ Visited(g, start, fs, vi, waits)
    BY <1>1, <1>2, <1>4, <1>5, <1>6, <1>8, TakeKeeps
  <1>10. Taken(g, y) = Taken(g, x) + 1 /\ fs[Len(fs)] = y
    <2>1. Taken(g, y) = Taken(g, x) + 1
      BY <1>1, <1>5, NextFrame
    <2> QED BY <1>4, <2>1, Zenon DEF Altered
  <1>11. /\ Taken(g, x) + 1 \in 1..Len(Parts(g, x.file))
         /\ h = Parts(g, x.file)[Taken(g, x) + 1]
    BY <1>1, NextStatement
  <1>12. x.file \in DOMAIN g
    BY <1>1 DEF Frames
  <1>13. h.text # NoAlias /\ Taken(g, x) + 1 \in DOMAIN g[x.file].to
    <2>1. IsProgram(g[x.file].program) /\ DOMAIN g[x.file].to = {i \in 1..Len(Parts(g, x.file)) : IsImport(Parts(g, x.file)[i])}
      BY <1>1, <1>12 DEF Sound
    <2>2. Taken(g, x) + 1 \in DOMAIN g[x.file].to
      BY <1>11, <2>1
    <2>3. h.text # NoAlias
      BY <1>11, <2>1 DEF IsProgram, Parts
    <2> QED BY <2>2, <2>3
  <1>14. at.call = TRUE /\ at.path = path /\ at.alias = h.text
    OBVIOUS
  <1>15. Asks(d, e, g, fs, at)
    <2>1. PICK t : t = Taken(g, y)
      OBVIOUS
    <2>2. t \in DOMAIN g[y.file].to /\ Parts(g, y.file)[t] = h
      BY <1>5, <1>10, <1>11, <1>13, <2>1, Zenon
    <2>3. at.alias # NoAlias /\ at.path = Wanted(d, e, y.file, Parts(g, y.file)[t])
      BY <1>5, <1>13, <1>14, <2>2, Zenon
    <2> QED BY <1>10, <2>1, <2>2, <2>3, Zenon DEF Asks
  <1> QED BY <1>7, <1>9, <1>14, <1>15, Zenon DEF UnderWay, g, fs, start

(* A file is left that another one imports.                                *)
LEMMA Leaves ==
  ASSUME NEW d, NEW e, Readable(d), NEW fr, NEW vi, NEW as, as.call = FALSE, UnderWay(d, e, Graph(d, e), fr, vi, as),
         NEW x, x = fr[Len(fr)], x.rest = <<>>, x.alias # NoAlias,
         NEW callers, callers = Front(fr),
         NEW flat, NEW fs, fs = [callers EXCEPT ![Len(callers)].flat = flat]
  PROVE  UnderWay(d, e, Graph(d, e), fs, vi, as)
  <1> DEFINE g == Graph(d, e)
             start == Start(d, e)
  <1>1. Sound(g) /\ Frames(g, x)
    BY StackReached
  <1>2. PICK n \in Nat \ {0} : n = Len(fr) /\ n \in 1..n
    BY StackReached
  <1> HIDE DEF g
  <1>3. Stack(g, start, fr, vi) /\ Visited(g, start, fr, vi, FALSE)
    BY Zenon DEF UnderWay, g
  <1>4. n # 1 /\ IsSequence(fr) /\ fr # <<>>
    BY <1>2, <1>3 DEF Stack
  <1>5. Shorter(fr, callers)
    BY <1>4, FrontIsShorter
  <1>6. PICK m \in Nat \ {0} : m = Len(callers) /\ m = n - 1 /\ m \in 1..n - 1 /\ m \in 1..n
    BY <1>2, <1>4, <1>5 DEF Shorter
  <1>7. IsSequence(callers) /\ callers # <<>> /\ callers[m] = fr[m]
    BY <1>2, <1>5, <1>6 DEF Shorter
  <1>8. IsFrame(callers[m])
    BY <1>2, <1>3, <1>6, <1>7 DEF Stack, Frames
  <1>9. PICK y : y = [callers[m] EXCEPT !.flat = flat]
    OBVIOUS
  <1>10. IsFrame(y) /\ y.file = callers[m].file /\ y.alias = callers[m].alias /\ y.rest = callers[m].rest /\ y.aliases = callers[m].aliases
    BY <1>8, <1>9 DEF IsFrame
  <1>11. fs = [callers EXCEPT ![Len(callers)] = y]
    BY <1>6, <1>9, Zenon
  <1>12. Altered(callers, y, fs)
    <2>1. Altered(callers, y, [callers EXCEPT ![Len(callers)] = y])
      BY <1>7, ExceptAlters
    <2> QED BY <1>11, <2>1, Zenon
  <1> HIDE DEF start
  <1>13. Stack(g, start, fs, vi) /\ Visited(g, start, fs, vi, FALSE)
    BY <1>1, <1>3, <1>5, <1>6, <1>7, <1>10, <1>12, LeaveKeeps
  <1>14. Asks(d, e, g, fs, as)
    BY DEF Asks
  <1> QED BY <1>13, <1>14, Zenon DEF UnderWay, g, start

-----------------------------------------------------------------------------
(* The invariant of the steps, and what is left to do *)

IInv ==
  /\ Readable(disk)
  /\ asked.call \in BOOLEAN
  /\ result.is = "started" => frames = <<>> /\ visited = {}
  /\ Loading => PackagesTrue(disk, entry, packages) /\ Walks(disk, entry, frames, visited, asked)
  /\ TrueErrors

LEMMA Lexical ==
  ASSUME NEW a, NEW b, NEW c, NEW n, NEW i, NEW j, NEW k, NEW m,
         \/ a < i
         \/ a = i /\ b < j
         \/ a = i /\ b = j /\ c < k
         \/ a = i /\ b = j /\ c = k /\ n < m
  PROVE  Precedes(<<a, b, c, n>>, <<i, j, k, m>>)
  <1> DEFINE s == <<a, b, c, n>>
             t == <<i, j, k, m>>
  <1>1. /\ DOMAIN s = 1..4 /\ s[1] = a /\ s[2] = b /\ s[3] = c /\ s[4] = n
        /\ t[1] = i /\ t[2] = j /\ t[3] = k /\ t[4] = m
    OBVIOUS
  <1> HIDE DEF s, t
  <1>2. \E l \in 1..4 : s[l] < t[l] /\ \A o \in 1..l - 1 : s[o] = t[o]
    <2>1. CASE a < i
      <3>1. \A o \in 1..1 - 1 : s[o] = t[o]
        OBVIOUS
      <3> QED BY <1>1, <2>1, <3>1
    <2>2. CASE a = i /\ b < j
      <3>1. \A o \in 1..2 - 1 : o = 1
        OBVIOUS
      <3>2. \A o \in 1..2 - 1 : s[o] = t[o]
        BY <1>1, <2>2, <3>1, Zenon
      <3> QED BY <1>1, <2>2, <3>2
    <2>3. CASE a = i /\ b = j /\ c < k
      <3>1. \A o \in 1..3 - 1 : o = 1 \/ o = 2
        OBVIOUS
      <3>2. \A o \in 1..3 - 1 : s[o] = t[o]
        BY <1>1, <2>3, <3>1, Zenon
      <3> QED BY <1>1, <2>3, <3>2
    <2>4. CASE a = i /\ b = j /\ c = k /\ n < m
      <3>1. \A o \in 1..4 - 1 : o = 1 \/ o = 2 \/ o = 3
        OBVIOUS
      <3>2. \A o \in 1..4 - 1 : s[o] = t[o]
        BY <1>1, <2>4, <3>1, Zenon
      <3> QED BY <1>1, <2>4, <3>2
    <2> QED BY <2>1, <2>2, <2>3, <2>4
  <1> QED BY <1>1, <1>2, Zenon DEF Precedes, s, t

Stage(is) == CASE is = "started" -> 2 [] is = "loading" -> 1 [] OTHER -> 0

(* The parts of what is left to do.                                        *)
LEMMA ToDoIs ==
  /\ LoadToDo = <<Stage(result.is), Cardinality(DOMAIN disk.files \ visited), Len(frames),
                  IF frames = <<>> THEN 0 ELSE Len(Top.rest)>>
  /\ LoadToDo' = <<Stage(result'.is), Cardinality(DOMAIN disk'.files \ visited'), Len(frames'),
                   IF frames' = <<>> THEN 0 ELSE Len(Top'.rest)>>
  BY Zenon DEF LoadToDo, Stage

(* A load that goes on to its next stage, or stops, has less to do.        *)
LEMMA NextStage ==
  ASSUME Stage(result'.is) < Stage(result.is)
  PROVE  Precedes(LoadToDo', LoadToDo)
  BY ToDoIs, Lexical

(* A load that stops with an error that is true.                           *)
LEMMA StopKeeps ==
  ASSUME IInv, Loading \/ result.is = "started", UNCHANGED <<disk, entry>>,
         NEW error \in LoadErrors, NEW at, Stop(error, at),
         ~entry.bare => Holds(disk, entry, Graph(disk, entry), Files(disk, entry), error, at)
  PROVE  IInv' /\ Precedes(LoadToDo', LoadToDo)
  <1>1. result'.is = error /\ result'.at = at /\ asked' = asked
    BY DEF Stop
  <1>2. error \notin {"loaded", "started", "loading"}
    BY DEF LoadErrors
  <1>3. disk' = disk /\ entry' = entry
    OBVIOUS
  <1>4. ~entry'.bare => Holds(disk', entry', Graph(disk', entry'), Files(disk', entry'), result'.is, result'.at)
    BY <1>1, <1>3, Zenon
  <1>5. result'.is # "loaded"
    BY <1>1, <1>2
  <1>6. TrueErrors'
    BY <1>4, <1>5, Zenon DEF TrueErrors, TrulyReached, Truly, Files
  <1>7. ~Loading' /\ result'.is # "started"
    BY <1>1, <1>2 DEF Loading
  <1>8. Readable(disk') /\ asked'.call \in BOOLEAN
    BY <1>1, <1>3, Zenon DEF IInv
  <1>9. Stage(result'.is) < Stage(result.is)
    BY <1>1, <1>2 DEF Stage, Loading
  <1> QED BY <1>6, <1>7, <1>8, <1>9, NextStage, Zenon DEF IInv

(* A load that goes on.                                                    *)
LEMMA WalkKeeps ==
  ASSUME IInv, Loading, UNCHANGED <<disk, entry, packages, result>>, asked'.call \in BOOLEAN,
         Walks(disk, entry, frames', visited', asked')
  PROVE  IInv'
  <1>1. disk' = disk /\ entry' = entry /\ packages' = packages /\ result' = result
    OBVIOUS
  <1>2. result.is = "loading"
    BY DEF Loading
  <1>3. result'.is = "loading"
    BY <1>1, <1>2, Zenon
  <1>4. "loading" # "started" /\ "loading" # "loaded" /\ "loading" \notin LoadErrors
    BY DEF LoadErrors
  <1>5. TrueErrors'
    BY <1>3, <1>4, Zenon DEF TrueErrors, Finished
  <1>6. PackagesTrue(disk', entry', packages') /\ Walks(disk', entry', frames', visited', asked') /\ Readable(disk')
    BY <1>1, Zenon DEF IInv
  <1> QED BY <1>3, <1>4, <1>5, <1>6, Zenon DEF IInv

(* discover reads the lock file of the nearest aint.toml, if there is one. *)
LEMMA DiscoverKeeps ==
  ASSUME IInv, Discover
  PROVE  IInv' /\ Precedes(LoadToDo', LoadToDo)
  <1> DEFINE root == IF entry.bare THEN NoPath ELSE Root(disk, entry)
  <1>1. result.is = "started" /\ disk' = disk /\ entry' = entry /\ frames = <<>> /\ visited = {} /\ Readable(disk)
    BY DEF Discover, IInv
  <1>2. ASSUME NEW dirs, NEW is, Resolve(dirs, is), PackagesTrue(disk, entry, [is |-> is, dirs |-> dirs])
        PROVE  IInv' /\ Precedes(LoadToDo', LoadToDo)
    <2>1. /\ packages' = [is |-> is, dirs |-> dirs] /\ frames' = <<>> /\ visited' = {}
          /\ asked' = [call |-> TRUE, path |-> entry.path, alias |-> NoAlias]
          /\ result'.is = "loading"
      BY <1>1, <1>2 DEF Resolve
    <2>2. asked'.call \in BOOLEAN
      BY <2>1
    <2>3. Walks(disk', entry', frames', visited', asked')
      BY <1>1, <2>1, Zenon DEF Walks, Begun
    <2>4. PackagesTrue(disk', entry', packages')
      BY <1>1, <1>2, <2>1, Zenon
    <2>5. "loading" # "started" /\ "loading" # "loaded" /\ "loading" \notin LoadErrors
      BY DEF LoadErrors
    <2>6. TrueErrors'
      BY <2>1, <2>5, Zenon DEF TrueErrors, Finished
    <2>7. IInv'
      BY <1>1, <2>1, <2>2, <2>3, <2>4, <2>5, <2>6, Zenon DEF IInv
    <2>8. Stage(result'.is) < Stage(result.is)
      BY <1>1, <2>1 DEF Stage
    <2> QED BY <2>7, <2>8, NextStage
  <1>3. CASE root = NoPath /\ Resolve(<<>>, "NoPackageRoot")
    <2>1. entry.bare \/ Root(disk, entry) = NoPath
      BY <1>3
    <2>2. PackagesTrue(disk, entry, [is |-> "NoPackageRoot", dirs |-> <<>>])
      BY <2>1 DEF PackagesTrue
    <2> QED BY <1>2, <1>3, <2>2, Zenon
  <1>4. ASSUME root # NoPath PROVE root = Root(disk, entry) /\ Root(disk, entry) # NoPath
    BY <1>4, Zenon
  <1>5. CASE root # NoPath /\ root \notin DOMAIN disk.locks /\ Resolve(<<>>, "NoLockfile")
    <2>1. Root(disk, entry) # NoPath /\ Root(disk, entry) \notin DOMAIN disk.locks
      BY <1>4, <1>5, Zenon
    <2>2. PackagesTrue(disk, entry, [is |-> "NoLockfile", dirs |-> <<>>])
      BY <2>1 DEF PackagesTrue
    <2> QED BY <1>2, <1>5, <2>2, Zenon
  <1>6. CASE root # NoPath /\ root \in DOMAIN disk.locks /\ ~disk.locks[root].ok /\ Stop("InvalidLockfile", root)
    <2>1. PICK at : at = root
      OBVIOUS
    <2>2. at = Root(disk, entry) /\ at \in DOMAIN disk.locks /\ ~disk.locks[at].ok /\ Stop("InvalidLockfile", at)
      BY <1>4, <1>6, <2>1, Zenon
    <2>3. Holds(disk, entry, Graph(disk, entry), Files(disk, entry), "InvalidLockfile", at)
      BY <2>2, LockfileHolds
    <2>4. "InvalidLockfile" \in LoadErrors
      BY DEF LoadErrors
    <2> QED BY <1>1, <2>2, <2>3, <2>4, StopKeeps
  <1>7. CASE root # NoPath /\ root \in DOMAIN disk.locks /\ disk.locks[root].ok /\ Resolve(disk.locks[root].dirs, "Resolved")
    <2>1. PICK dirs : dirs = disk.locks[root].dirs
      OBVIOUS
    <2>2. Root(disk, entry) \in DOMAIN disk.locks /\ disk.locks[Root(disk, entry)].ok /\ dirs = disk.locks[Root(disk, entry)].dirs
      BY <1>4, <1>7, <2>1, Zenon
    <2>3. dirs = Locked(disk, entry)
      BY <2>2 DEF Locked
    <2>4. PackagesTrue(disk, entry, [is |-> "Resolved", dirs |-> dirs])
      BY <2>2, <2>3 DEF PackagesTrue
    <2> QED BY <1>2, <1>7, <2>1, <2>4, Zenon
  <1>8. \/ root = NoPath /\ Resolve(<<>>, "NoPackageRoot")
        \/ root # NoPath /\ root \notin DOMAIN disk.locks /\ Resolve(<<>>, "NoLockfile")
        \/ root # NoPath /\ root \in DOMAIN disk.locks /\ ~disk.locks[root].ok /\ Stop("InvalidLockfile", root)
        \/ root # NoPath /\ root \in DOMAIN disk.locks /\ disk.locks[root].ok /\ Resolve(disk.locks[root].dirs, "Resolved")
    BY Zenon DEF Discover
  <1> HIDE DEF root
  <1> QED BY <1>3, <1>5, <1>6, <1>7, <1>8, Zenon

(* A file that was not entered leaves fewer of them.                       *)
LEMMA FewerFiles ==
  ASSUME NEW files, IsFiniteSet(files), NEW vi, NEW f \in files \ vi
  PROVE  Cardinality(files \ (vi \cup {f})) < Cardinality(files \ vi)
  <1>1. IsFiniteSet(files \ vi)
    BY FS_Difference
  <1>2. files \ (vi \cup {f}) = (files \ vi) \ {f}
    OBVIOUS
  <1>3. Cardinality((files \ vi) \ {f}) = Cardinality(files \ vi) - 1 /\ Cardinality(files \ vi) \in Nat
    BY <1>1, FS_RemoveElement, FS_CardinalityType
  <1> QED BY <1>2, <1>3

(* A file is entered that was not entered before.                          *)
LEMMA PushWalks ==
  ASSUME IInv, Loading, asked.call, UNCHANGED <<disk, entry>>,
         NEW f \in DOMAIN disk.files \ visited, f = Canonical(disk, asked.path),
         ProgramOf(disk.files[f]) # Absent, Push(f, ProgramOf(disk.files[f]))
  PROVE  IInv' /\ Precedes(LoadToDo', LoadToDo)
  <1>1. PICK y : Entered(disk, f, asked.alias, y) /\ frames' = Append(frames, y)
    BY Zenon DEF Push, Entered
  <1>2. /\ visited' = visited \cup {f} /\ asked' = Nothing /\ packages' = packages /\ result' = result
        /\ disk' = disk /\ entry' = entry
    BY DEF Push
  <1>3. Readable(disk) /\ asked.call = TRUE /\ Walks(disk, entry, frames, visited, asked)
    BY DEF IInv
  <1>4. ASSUME Begun(entry, frames, visited, asked)
        PROVE  UnderWay(disk, entry, Graph(disk, entry), frames', visited', asked')
    <2>1. /\ frames = <<>> /\ visited = {} /\ asked = [call |-> TRUE, path |-> entry.path, alias |-> NoAlias]
      BY <1>4, Zenon DEF Begun
    <2>2. asked.path = entry.path /\ asked.alias = NoAlias
      BY <2>1
    <2>3. Entered(disk, f, NoAlias, y) /\ f = Start(disk, entry) /\ frames' = Append(<<>>, y)
      BY <1>1, <2>1, <2>2, Zenon DEF Start
    <2>4. PICK as : as = Nothing
      OBVIOUS
    <2>5. UnderWay(disk, entry, Graph(disk, entry), Append(<<>>, y), {f}, as)
      <3>1. f \in DOMAIN disk.files
        OBVIOUS
      <3> QED BY <1>3, <2>3, <2>4, <3>1, EntersFirst, Zenon
    <2>6. visited' = {f}
      BY <1>2, <2>1
    <2> QED BY <1>2, <2>3, <2>4, <2>5, <2>6, Zenon
  <1>5. ASSUME UnderWay(disk, entry, Graph(disk, entry), frames, visited, asked)
        PROVE  UnderWay(disk, entry, Graph(disk, entry), frames', visited', asked')
    <2>1. PICK as : as = Nothing
      OBVIOUS
    <2>2. PICK alias : alias = asked.alias
      OBVIOUS
    <2>3. Entered(disk, f, alias, y)
      BY <1>1, <2>2, Zenon
    <2>4. UnderWay(disk, entry, Graph(disk, entry), Append(frames, y), visited \cup {f}, as)
      BY <1>3, <1>5, <2>1, <2>2, <2>3, EntersNext, Zenon
    <2> QED BY <1>1, <1>2, <2>1, <2>4, Zenon
  <1>6. UnderWay(disk, entry, Graph(disk, entry), frames', visited', asked')
    <2>1. Begun(entry, frames, visited, asked) \/ UnderWay(disk, entry, Graph(disk, entry), frames, visited, asked)
      BY <1>3, Zenon DEF Walks
    <2> QED BY <1>4, <1>5, <2>1, Zenon
  <1>7. Walks(disk, entry, frames', visited', asked') /\ asked'.call \in BOOLEAN
    <2>1. Nothing.call \in BOOLEAN
      BY DEF Nothing
    <2> QED BY <1>2, <1>6, <2>1, Zenon DEF Walks
  <1>8. IInv'
    BY <1>2, <1>7, WalkKeeps
  <1>9. Cardinality(DOMAIN disk'.files \ visited') < Cardinality(DOMAIN disk.files \ visited)
    <2>1. IsFiniteSet(DOMAIN disk.files)
      BY <1>3, Zenon DEF Readable
    <2>2. PICK files : files = DOMAIN disk.files
      OBVIOUS
    <2>3. Cardinality(files \ (visited \cup {f})) < Cardinality(files \ visited)
      BY <2>1, <2>2, FewerFiles
    <2> QED BY <1>2, <2>2, <2>3, Zenon
  <1>10. Stage(result'.is) = Stage(result.is)
    BY <1>2, Zenon
  <1>11. Precedes(LoadToDo', LoadToDo)
    BY <1>9, <1>10, ToDoIs, Lexical
  <1> QED BY <1>8, <1>11

(* resolve_file: each of its refusals is true, and otherwise the file is   *)
(* entered.                                                                *)
LEMMA EnterKeeps ==
  ASSUME IInv, Enter
  PROVE  IInv' /\ Precedes(LoadToDo', LoadToDo)
  <1> DEFINE f == Canonical(disk, asked.path)
  <1>0. \/ f \notin DOMAIN disk.files /\ Stop("Io", asked.path)
        \/ /\ OnStack(f)
           /\ LET start == CHOOSE i \in DOMAIN frames : frames[i].file = f
              IN Stop("Cycle", Append([i \in 1..Len(frames) - start + 1 |-> frames[start + i - 1].file], f))
        \/ f \in visited /\ ~OnStack(f) /\ Stop("DuplicateImport", f)
        \/ /\ f \in DOMAIN disk.files \ visited
           /\ LET program == ProgramOf(disk.files[f])
              IN IF program = Absent THEN Stop("Parse", f) ELSE Push(f, program)
    BY Zenon DEF Enter
  <1>1. f = Canonical(disk, asked.path)
    OBVIOUS
  <1> HIDE DEF f
  <1>2. Loading /\ asked.call /\ UNCHANGED <<disk, entry>>
    BY DEF Enter
  <1>3. Readable(disk) /\ Walks(disk, entry, frames, visited, asked)
    BY <1>2 DEF IInv
  <1>4. ASSUME f \in visited
        PROVE  UnderWay(disk, entry, Graph(disk, entry), frames, visited, asked)
    BY <1>3, <1>4 DEF Walks, Begun
  <1>5. CASE f \notin DOMAIN disk.files /\ Stop("Io", asked.path)
    <2>1. PICK at : at = asked.path
      OBVIOUS
    <2>2. Holds(disk, entry, Graph(disk, entry), Files(disk, entry), "Io", at)
      <3>1. Canonical(disk, at) \notin DOMAIN disk.files
        BY <1>1, <1>5, <2>1, Zenon
      <3>2. Holds(disk, entry, Graph(disk, entry), Files(disk, entry), "Io", asked.path)
        BY <1>2, <1>3, <2>1, <3>1, IoHolds, Zenon
      <3> QED BY <2>1, <3>2, Zenon
    <2>3. "Io" \in LoadErrors /\ Stop("Io", at)
      BY <1>5, <2>1, Zenon DEF LoadErrors
    <2> QED BY <1>2, <2>2, <2>3, StopKeeps
  <1>6. CASE /\ OnStack(f)
             /\ LET start == CHOOSE i \in DOMAIN frames : frames[i].file = f
                IN Stop("Cycle", Append([i \in 1..Len(frames) - start + 1 |-> frames[start + i - 1].file], f))
    <2> DEFINE s == CHOOSE i \in DOMAIN frames : frames[i].file = f
               at == Append([i \in 1..Len(frames) - s + 1 |-> frames[s + i - 1].file], f)
    <2>1. Stop("Cycle", at)
      BY <1>6, Zenon
    <2>2. s \in DOMAIN frames /\ frames[s].file = f
      BY <1>6, Zenon DEF OnStack
    <2> HIDE DEF s
    <2>3. UnderWay(disk, entry, Graph(disk, entry), frames, visited, asked)
      BY <1>3, <2>2 DEF Walks, Begun
    <2>4. DOMAIN frames = 1..Len(frames)
      <3>1. IsSequence(frames)
        BY <2>3, Zenon DEF UnderWay, Stack
      <3> QED BY <3>1, SequenceIn
    <2>5. s \in 1..Len(frames)
      BY <2>2, <2>4, Zenon
    <2>6. Holds(disk, entry, Graph(disk, entry), Files(disk, entry), "Cycle", at)
      BY <1>1, <1>2, <1>3, <2>2, <2>3, <2>5, CycleHolds, Zenon
    <2>7. "Cycle" \in LoadErrors
      BY DEF LoadErrors
    <2> HIDE DEF at
    <2> QED BY <1>2, <2>1, <2>6, <2>7, StopKeeps
  <1>7. CASE f \in visited /\ ~OnStack(f) /\ Stop("DuplicateImport", f)
    <2>1. UnderWay(disk, entry, Graph(disk, entry), frames, visited, asked)
      BY <1>4, <1>7
    <2>2. IsSequence(frames)
      BY <2>1, Zenon DEF UnderWay, Stack
    <2>3. DOMAIN frames = 1..Len(frames)
      BY <2>2, SequenceIn
    <2>4. \A i \in 1..Len(frames) : frames[i].file # f
      BY <1>7, <2>3, Zenon DEF OnStack
    <2>5. Holds(disk, entry, Graph(disk, entry), Files(disk, entry), "DuplicateImport", f)
      BY <1>1, <1>2, <1>3, <1>7, <2>1, <2>4, DuplicateImportHolds, Zenon
    <2>6. "DuplicateImport" \in LoadErrors
      BY DEF LoadErrors
    <2> QED BY <1>2, <1>7, <2>5, <2>6, StopKeeps
  <1>8. CASE /\ f \in DOMAIN disk.files \ visited
             /\ LET program == ProgramOf(disk.files[f])
                IN IF program = Absent THEN Stop("Parse", f) ELSE Push(f, program)
    <2>1. f \in DOMAIN disk.files
      BY <1>8
    <2>2. CASE ProgramOf(disk.files[f]) = Absent
      <3>1. Holds(disk, entry, Graph(disk, entry), Files(disk, entry), "Parse", f)
        BY <1>1, <1>2, <1>3, <2>1, <2>2, ParseHolds, Zenon
      <3>2. "Parse" \in LoadErrors /\ Stop("Parse", f)
        BY <1>8, <2>2, Zenon DEF LoadErrors
      <3> QED BY <1>2, <3>1, <3>2, StopKeeps
    <2>3. CASE ProgramOf(disk.files[f]) # Absent
      <3>1. Push(f, ProgramOf(disk.files[f]))
        BY <1>8, <2>3, Zenon
      <3> QED BY <1>1, <1>2, <1>8, <2>3, <3>1, PushWalks, Zenon
    <2> QED BY <2>2, <2>3
  <1> QED BY <1>0, <1>5, <1>6, <1>7, <1>8, Zenon

(* A walk that is not asking for a file has one that it reads.             *)
LEMMA WalkingIs ==
  ASSUME IInv, Walking
  PROVE  /\ UnderWay(disk, entry, Graph(disk, entry), frames, visited, asked)
         /\ Readable(disk) /\ asked.call = FALSE /\ Loading /\ PackagesTrue(disk, entry, packages)
         /\ Len(frames) \in Nat \ {0} /\ Top = frames[Len(frames)] /\ IsSequence(frames)
         /\ frames # <<>> /\ IsSequence(Top.rest)
  <1>1. Loading /\ asked.call = FALSE /\ Readable(disk) /\ Walks(disk, entry, frames, visited, asked)
        /\ PackagesTrue(disk, entry, packages)
    BY DEF Walking, IInv
  <1>2. ~Begun(entry, frames, visited, asked)
    BY <1>1 DEF Begun
  <1>3. UnderWay(disk, entry, Graph(disk, entry), frames, visited, asked)
    BY <1>1, <1>2, Zenon DEF Walks
  <1>4. Len(frames) \in Nat \ {0} /\ Frames(Graph(disk, entry), frames[Len(frames)])
    BY <1>1, <1>3, StackReached
  <1>5. IsSequence(frames)
    BY <1>3, Zenon DEF UnderWay, Stack
  <1>6. frames # <<>>
    BY <1>4
  <1>7. Top = frames[Len(frames)]
    BY Zenon DEF Top, Last
  <1>8. IsSequence(Top.rest)
    BY <1>4, <1>7, Zenon DEF Frames
  <1> QED BY <1>1, <1>3, <1>4, <1>5, <1>6, <1>7, <1>8, Zenon

(* A statement fewer is left of the innermost file.                        *)
LEMMA ReplaceLessens ==
  ASSUME IInv, Walking, Top.rest # <<>>, NEW y, Replace(y), y.rest = Tail(Top.rest),
         UNCHANGED <<disk, visited, result>>
  PROVE  Precedes(LoadToDo', LoadToDo)
  <1>1. IsSequence(frames) /\ frames # <<>> /\ IsSequence(Top.rest)
    BY WalkingIs
  <1>2. Altered(frames, y, frames')
    BY <1>1, ReplaceAlters, Zenon DEF Replace
  <1>3. IsSequence(frames') /\ Len(frames') = Len(frames) /\ frames'[Len(frames')] = y
    BY <1>2, Zenon DEF Altered
  <1>4. frames' # <<>>
    BY <1>1, <1>3, Emptiness
  <1>5. Top'.rest = Tail(Top.rest)
    BY <1>3, Zenon DEF Top, Last
  <1>6. Len(Tail(Top.rest)) = Len(Top.rest) - 1 /\ Len(Top.rest) \in Nat
    BY <1>1, TailIsRest
  <1>7. PICK l \in Nat : l = Len(Top.rest)
    BY <1>6
  <1>8. PICK k \in Nat : k = Len(Top'.rest) /\ k < l
    <2>1. PICK k \in Nat : k = Len(Tail(Top.rest))
      BY <1>1, TailIsRest DEF IsSequence
    <2>2. k < l
      BY <1>6, <1>7, <2>1
    <2> QED BY <1>5, <2>1, <2>2, Zenon
  <1>9. /\ Stage(result'.is) = Stage(result.is)
        /\ Cardinality(DOMAIN disk'.files \ visited') = Cardinality(DOMAIN disk.files \ visited)
    <2>1. result' = result /\ disk' = disk /\ visited' = visited
      OBVIOUS
    <2> QED BY <2>1, Zenon
  <1>10. PICK a, b, c : a = Stage(result.is) /\ b = Cardinality(DOMAIN disk.files \ visited) /\ c = Len(frames)
    OBVIOUS
  <1>11. LoadToDo = <<a, b, c, l>> /\ LoadToDo' = <<a, b, c, k>>
    BY <1>1, <1>3, <1>4, <1>7, <1>8, <1>9, <1>10, ToDoIs, Zenon
  <1>12. Precedes(<<a, b, c, k>>, <<a, b, c, l>>)
    BY <1>8, Lexical
  <1> QED BY <1>11, <1>12, Zenon

(* An import is asked for.                                                 *)
LEMMA AskKeeps ==
  ASSUME IInv, Walking, UNCHANGED <<disk, entry>>, Top.rest # <<>>,
         NEW s, s = Head(Top.rest), IsImport(s), s.text \notin Top.aliases,
         NEW path, path = Wanted(disk, entry, Top.file, s), Ask(path, s)
  PROVE  IInv' /\ Precedes(LoadToDo', LoadToDo)
  <1>1. /\ UnderWay(disk, entry, Graph(disk, entry), frames, visited, asked)
        /\ Readable(disk) /\ asked.call = FALSE /\ Loading
    BY WalkingIs
  <1>2. PICK x : x = Top
    OBVIOUS
  <1>3. x = frames[Len(frames)]
    BY <1>2, WalkingIs
  <1>4. PICK y : y = [x EXCEPT !.rest = Tail(@), !.aliases = @ \cup {s.text}]
    OBVIOUS
  <1>5. ImportTaken(x, y)
    BY <1>2, <1>4, Zenon DEF ImportTaken
  <1>6. Replace(y) /\ asked' = [call |-> TRUE, path |-> path, alias |-> s.text] /\ UNCHANGED <<packages, visited, result>>
    BY <1>2, <1>4, Zenon DEF Ask
  <1>7. PICK as : as = [call |-> TRUE, path |-> path, alias |-> s.text]
    OBVIOUS
  <1>8. UnderWay(disk, entry, Graph(disk, entry), Append(Front(frames), y), visited, as)
    BY <1>1, <1>2, <1>3, <1>5, <1>7, TakesImport, Zenon
  <1>9. Walks(disk, entry, frames', visited', asked')
    <2>1. visited' = visited
      BY <1>6
    <2> QED BY <1>6, <1>7, <1>8, <2>1, Zenon DEF Replace, Walks
  <1>10. asked'.call \in BOOLEAN
    BY <1>6
  <1>11. IInv'
    BY <1>1, <1>6, <1>9, <1>10, WalkKeeps
  <1>12. y.rest = Tail(Top.rest)
    <2>1. Frames(Graph(disk, entry), x)
      BY <1>1, <1>3, StackReached
    <2>2. Took(x, y)
      BY <1>2, <1>5, <2>1, TookImport, Zenon DEF Frames
    <2> QED BY <1>2, <2>2, Zenon DEF Took
  <1>13. Precedes(LoadToDo', LoadToDo)
    BY <1>6, <1>12, ReplaceLessens
  <1> QED BY <1>11, <1>13

(* The innermost file has an import next: it is asked for, or a true       *)
(* error.                                                                  *)
LEMMA TakeImportKeeps ==
  ASSUME IInv, TakeImport
  PROVE  IInv' /\ Precedes(LoadToDo', LoadToDo)
  <1>1. PICK s, path, x : s = Head(Top.rest) /\ path = PathOf(s) /\ x = Top
    OBVIOUS
  <1>2. /\ Walking /\ Top.rest # <<>> /\ IsImport(s) /\ UNCHANGED <<disk, entry>>
        /\ IF s.text \in Top.aliases THEN Stop("DuplicateAlias", Top.file)
           ELSE IF IsRelativeImport(path) THEN Ask(Parent(Top.file) \o path, s)
           ELSE PackageImport(s, PackageName(path))
    BY <1>1, Zenon DEF TakeImport
  <1>3. /\ UnderWay(disk, entry, Graph(disk, entry), frames, visited, asked)
        /\ Readable(disk) /\ asked.call = FALSE /\ Loading /\ PackagesTrue(disk, entry, packages)
        /\ x = frames[Len(frames)] /\ x.rest # <<>>
    BY <1>1, <1>2, WalkingIs
  <1>4. CASE s.text \in Top.aliases
    <2>1. PICK at : at = x.file
      OBVIOUS
    <2>2. Holds(disk, entry, Graph(disk, entry), Files(disk, entry), "DuplicateAlias", at)
      BY <1>1, <1>2, <1>3, <1>4, <2>1, DuplicateAliasHolds, Zenon
    <2>3. "DuplicateAlias" \in LoadErrors /\ Stop("DuplicateAlias", at)
      BY <1>1, <1>2, <1>4, <2>1, Zenon DEF LoadErrors
    <2> QED BY <1>2, <1>3, <2>2, <2>3, StopKeeps
  <1>5. CASE s.text \notin Top.aliases /\ IsRelativeImport(path)
    <2>1. PICK to : to = Parent(Top.file) \o path
      OBVIOUS
    <2>2. Ask(to, s)
      BY <1>2, <1>5, <2>1, Zenon
    <2>3. to = Wanted(disk, entry, Top.file, s)
      BY <1>1, <1>5, <2>1, Zenon DEF Wanted
    <2> QED BY <1>1, <1>2, <1>5, <2>2, <2>3, AskKeeps, Zenon
  <1>6. CASE s.text \notin Top.aliases /\ ~IsRelativeImport(path)
    <2>1. PICK name : name = PackageName(path)
      OBVIOUS
    <2>2. PackageImport(s, name)
      BY <1>2, <1>6, <2>1, Zenon
    <2>3. ASSUME NEW error \in {"NoPackageRoot", "NoLockfile", "UnknownPackage"}, Stop(error, <<Top.file, name>>),
                 \/ packages.is # "Resolved" /\ error = packages.is
                 \/ packages.is = "Resolved" /\ name \notin DOMAIN packages.dirs /\ error = "UnknownPackage"
          PROVE  IInv' /\ Precedes(LoadToDo', LoadToDo)
      <3>1. PICK at : at = <<x.file, name>>
        OBVIOUS
      <3>2. ~entry.bare => Holds(disk, entry, Graph(disk, entry), Files(disk, entry), error, at)
        BY <1>1, <1>2, <1>3, <1>6, <2>1, <2>3, <3>1, PackageHolds, Zenon
      <3>3. error \in LoadErrors /\ Stop(error, at)
        <4>1. error \in LoadErrors
          BY <2>3 DEF LoadErrors
        <4> QED BY <1>1, <2>3, <3>1, <4>1, Zenon
      <3> QED BY <1>2, <1>3, <3>2, <3>3, StopKeeps
    <2>4. CASE packages.is # "Resolved" /\ Stop(packages.is, <<Top.file, name>>)
      <3>1. PICK error : error = packages.is
        OBVIOUS
      <3>2. error \in {"NoPackageRoot", "NoLockfile", "UnknownPackage"}
        BY <1>3, <2>4, <3>1 DEF PackagesTrue
      <3> QED BY <2>3, <2>4, <3>1, <3>2, Zenon
    <2>5. CASE packages.is = "Resolved" /\ name \notin DOMAIN packages.dirs /\ Stop("UnknownPackage", <<Top.file, name>>)
      BY <2>3, <2>5, Zenon
    <2>6. CASE packages.is = "Resolved" /\ name \in DOMAIN packages.dirs /\ Ask(Append(packages.dirs[name], "lib.an"), s)
      <3>1. PICK to : to = Append(packages.dirs[name], "lib.an")
        OBVIOUS
      <3>2. packages.dirs = Locked(disk, entry)
        BY <1>3, <2>6, Zenon DEF PackagesTrue
      <3>3. to = Wanted(disk, entry, Top.file, s)
        BY <1>1, <1>6, <2>1, <2>6, <3>1, <3>2, Zenon DEF Wanted
      <3>4. Ask(to, s)
        BY <2>6, <3>1, Zenon
      <3> QED BY <1>1, <1>2, <1>6, <3>3, <3>4, AskKeeps, Zenon
    <2> QED BY <2>2, <2>4, <2>5, <2>6, Zenon DEF PackageImport
  <1> QED BY <1>4, <1>5, <1>6

(* The innermost file has a declaration next.                              *)
LEMMA TakeStatementKeeps ==
  ASSUME IInv, TakeStatement
  PROVE  IInv' /\ Precedes(LoadToDo', LoadToDo)
  <1>1. PICK s, x : s = Head(Top.rest) /\ x = Top
    OBVIOUS
  <1>2. /\ Walking /\ Top.rest # <<>> /\ ~IsImport(s) /\ UNCHANGED <<disk, entry>>
        /\ \/ Top.alias # NoAlias /\ s.kind \notin Importable /\ Stop("IllegalTopLevelStatement", Top.file)
           \/ /\ Top.alias = NoAlias \/ s.kind \in Importable
              /\ Replace([Top EXCEPT !.rest = Tail(@), !.flat = Append(@, s)])
              /\ UNCHANGED <<packages, visited, asked, result>>
    BY <1>1, Zenon DEF TakeStatement
  <1>3. /\ UnderWay(disk, entry, Graph(disk, entry), frames, visited, asked)
        /\ Readable(disk) /\ asked.call = FALSE /\ Loading
        /\ x = frames[Len(frames)] /\ x.rest # <<>> /\ ~IsImport(Head(x.rest))
    BY <1>1, <1>2, WalkingIs
  <1>4. CASE Top.alias # NoAlias /\ s.kind \notin Importable /\ Stop("IllegalTopLevelStatement", Top.file)
    <2>1. PICK at : at = x.file
      OBVIOUS
    <2>2. x.alias # NoAlias /\ Head(x.rest).kind \notin Importable /\ Stop("IllegalTopLevelStatement", at)
      BY <1>1, <1>4, <2>1, Zenon
    <2>3. Holds(disk, entry, Graph(disk, entry), Files(disk, entry), "IllegalTopLevelStatement", at)
      BY <1>3, <2>1, <2>2, IllegalHolds, Zenon
    <2>4. "IllegalTopLevelStatement" \in LoadErrors
      BY DEF LoadErrors
    <2> QED BY <1>2, <1>3, <2>2, <2>3, <2>4, StopKeeps
  <1>5. CASE /\ Top.alias = NoAlias \/ s.kind \in Importable
             /\ Replace([Top EXCEPT !.rest = Tail(@), !.flat = Append(@, s)])
             /\ UNCHANGED <<packages, visited, asked, result>>
    <2>1. PICK y : y = [Top EXCEPT !.rest = Tail(@), !.flat = Append(@, s)]
      OBVIOUS
    <2>2. StatementTaken(x, y) /\ Replace(y)
      BY <1>1, <1>5, <2>1, Zenon DEF StatementTaken
    <2>3. x.alias = NoAlias \/ Head(x.rest).kind \in Importable
      BY <1>1, <1>5, Zenon
    <2>4. UnderWay(disk, entry, Graph(disk, entry), Append(Front(frames), y), visited, asked)
      BY <1>3, <2>2, <2>3, TakesStatement, Zenon
    <2>5. asked' = asked /\ visited' = visited
      BY <1>5
    <2>6. Walks(disk, entry, frames', visited', asked') /\ asked'.call \in BOOLEAN
      <3>1. asked.call \in BOOLEAN
        BY DEF IInv
      <3> QED BY <2>2, <2>4, <2>5, <3>1, Zenon DEF Replace, Walks
    <2>7. IInv'
      BY <1>2, <1>3, <1>5, <2>6, WalkKeeps
    <2>8. y.rest = Tail(Top.rest)
      <3>1. Frames(Graph(disk, entry), x)
        BY <1>3, StackReached
      <3>2. Took(x, y)
        BY <1>3, <2>2, <3>1, TookStatement, Zenon DEF Frames
      <3> QED BY <1>1, <3>2, Zenon DEF Took
    <2>9. Precedes(LoadToDo', LoadToDo)
      BY <1>2, <1>5, <2>2, <2>8, ReplaceLessens
    <2> QED BY <2>7, <2>9
  <1> QED BY <1>2, <1>4, <1>5, Zenon

(* The innermost file is done; when it is the entry, the graph is          *)
(* faultless.                                                              *)
LEMMA LeaveFileKeeps ==
  ASSUME IInv, LeaveFile
  PROVE  IInv' /\ Precedes(LoadToDo', LoadToDo)
  <1>1. Walking /\ Top.rest = <<>> /\ UNCHANGED <<disk, entry, packages, visited, asked>>
    BY DEF LeaveFile
  <1>2. disk' = disk /\ entry' = entry /\ visited' = visited /\ asked' = asked
    BY <1>1
  <1>3. PICK x : x = Top
    OBVIOUS
  <1>4. /\ UnderWay(disk, entry, Graph(disk, entry), frames, visited, asked)
        /\ Readable(disk) /\ asked.call = FALSE /\ Loading
        /\ Len(frames) \in Nat \ {0} /\ IsSequence(frames) /\ frames # <<>>
        /\ x = frames[Len(frames)] /\ x.rest = <<>>
    BY <1>1, <1>3, WalkingIs
  <1>5. CASE Top.alias = NoAlias
    <2>1. result'.is = "loaded"
      <3>1. result' = [is |-> "loaded", at |-> Top.flat]
        BY <1>5, Zenon DEF LeaveFile
      <3> QED BY <3>1
    <2>2. Faultless(Graph(disk, entry), Start(disk, entry), Files(disk, entry))
      <3> DEFINE g == Graph(disk, entry)
                 start == Start(disk, entry)
      <3>1. Sound(g)
        BY <1>4, GraphOfDisk
      <3> HIDE DEF g, start
      <3>2. Stack(g, start, frames, visited) /\ Visited(g, start, frames, visited, FALSE)
        BY <1>4, Zenon DEF UnderWay, g, start
      <3>3. x.alias = NoAlias
        BY <1>3, <1>5, Zenon
      <3>4. Faultless(g, start, Reached(g, start))
        BY <1>4, <3>1, <3>2, <3>3, LastLeave, Zenon
      <3> QED BY <3>4, Zenon DEF Files, g, start
    <2>3. TrueErrors'
      BY <1>2, <2>1, <2>2, Zenon DEF TrueErrors, TrulyReached, Truly, Files
    <2>4. ~Loading' /\ result'.is # "started"
      BY <2>1 DEF Loading
    <2>5. IInv'
      BY <1>2, <2>3, <2>4, Zenon DEF IInv
    <2>6. Stage(result'.is) < Stage(result.is)
      BY <1>4, <2>1 DEF Stage, Loading
    <2> QED BY <2>5, <2>6, NextStage
  <1>6. CASE Top.alias # NoAlias
    <2>1. PICK flat : flat = Front(frames)[Len(Front(frames))].flat
                               \o [i \in DOMAIN Top.flat |-> RenamedStatement(Top.flat[i], RenameMap(Top.flat), Top.alias)]
      OBVIOUS
    <2>2. PICK callers : callers = Front(frames)
      OBVIOUS
    <2>3. frames' = [callers EXCEPT ![Len(callers)].flat = flat] /\ result' = result
      BY <1>6, <2>1, <2>2 DEF LeaveFile
    <2>4. PICK fs : fs = [callers EXCEPT ![Len(callers)].flat = flat]
      OBVIOUS
    <2>5. x.alias # NoAlias
      BY <1>3, <1>6, Zenon
    <2>6. UnderWay(disk, entry, Graph(disk, entry), fs, visited, asked)
      BY <1>4, <2>2, <2>4, <2>5, Leaves, Zenon
    <2>7. frames' = fs
      BY <2>3, <2>4, Zenon
    <2>8. Walks(disk, entry, frames', visited', asked') /\ asked'.call \in BOOLEAN
      <3>1. asked.call \in BOOLEAN
        BY DEF IInv
      <3> QED BY <1>2, <2>6, <2>7, <3>1, Zenon DEF Walks
    <2>9. IInv'
      BY <1>1, <1>4, <2>3, <2>8, WalkKeeps
    <2>10. Len(frames') < Len(frames)
      <3>1. Shorter(frames, callers)
        BY <1>4, <2>2, FrontIsShorter
      <3>2. Len(fs) = Len(callers)
        <4>1. IsSequence(callers)
          BY <3>1, Zenon DEF Shorter
        <4>2. Stack(Graph(disk, entry), Start(disk, entry), fs, visited)
          BY <2>6, Zenon DEF UnderWay
        <4>3. DOMAIN fs = 1..Len(fs) /\ Len(fs) \in Nat
          BY <4>2, SequenceIn DEF Stack, IsSequence
        <4>4. DOMAIN callers = 1..Len(callers) /\ Len(callers) \in Nat
          BY <4>1, SequenceIn DEF IsSequence
        <4>5. DOMAIN fs = DOMAIN callers
          BY <2>4
        <4>6. PICK m \in Nat, n \in Nat : m = Len(fs) /\ n = Len(callers)
          BY <4>3, <4>4
        <4>7. 1..m = 1..n
          BY <4>3, <4>4, <4>5, <4>6, Zenon
        <4>8. m = n
          BY <4>7
        <4> QED BY <4>6, <4>8, Zenon
      <3>3. PICK n \in Nat : n = Len(frames)
        BY <1>4
      <3>4. Len(frames') = n - 1
        BY <2>7, <3>1, <3>2, <3>3, Zenon DEF Shorter
      <3> QED BY <3>3, <3>4
    <2>11. /\ Stage(result'.is) = Stage(result.is)
           /\ Cardinality(DOMAIN disk'.files \ visited') = Cardinality(DOMAIN disk.files \ visited)
      BY <1>2, <2>3, Zenon
    <2>12. Precedes(LoadToDo', LoadToDo)
      BY <2>10, <2>11, ToDoIs, Lexical
    <2> QED BY <2>9, <2>12
  <1> QED BY <1>5, <1>6

(* Each step of a load keeps the invariant and leaves less to do.          *)
LEMMA LoadStepKeeps ==
  ASSUME IInv, LoadStep
  PROVE  IInv' /\ Precedes(LoadToDo', LoadToDo)
  BY DiscoverKeeps, EnterKeeps, TakeImportKeeps, TakeStatementKeeps, LeaveFileKeeps DEF LoadStep

(* What is left to do can be counted.                                      *)
LEMMA ToDoIsCounted ==
  ASSUME IInv, LoadStep
  PROVE  LoadToDo \in Nat \X Nat \X Nat \X Nat
  <1>1. Loading \/ (result.is = "started" /\ frames = <<>>)
    BY DEF LoadStep, Discover, Enter, TakeImport, TakeStatement, LeaveFile, Walking, IInv
  <1>2. PICK n : n = Cardinality(DOMAIN disk.files \ visited) /\ n \in Nat
    <2>1. IsFiniteSet(DOMAIN disk.files \ visited)
      BY FS_Subset DEF IInv, Readable
    <2> QED BY <2>1, FS_CardinalityType
  <1>3. PICK l : l = Len(frames) /\ l \in Nat
    <2>1. frames = <<>> \/ IsSequence(frames)
      <3>1. CASE Loading
        <4>1. Walks(disk, entry, frames, visited, asked)
          BY <3>1 DEF IInv
        <4> QED BY <4>1, Zenon DEF Walks, Begun, UnderWay, Stack
      <3> QED BY <1>1, <3>1
    <2> QED BY <2>1, Emptiness
  <1>4. PICK r : r = (IF frames = <<>> THEN 0 ELSE Len(Top.rest)) /\ r \in Nat
    <2>1. CASE frames = <<>>
      BY <2>1
    <2>2. CASE frames # <<>>
      <3>1. UnderWay(disk, entry, Graph(disk, entry), frames, visited, asked)
        BY <1>1, <2>2, Zenon DEF IInv, Walks, Begun
      <3>2. Len(frames) \in Nat \ {0} /\ Frames(Graph(disk, entry), frames[Len(frames)])
        <4>1. Readable(disk)
          BY DEF IInv
        <4> QED BY <3>1, <4>1, StackReached
      <3>3. IsSequence(Top.rest)
        BY <3>2, Zenon DEF Top, Last, Frames
      <3> QED BY <2>2, <3>3, Emptiness
    <2> QED BY <2>1, <2>2
  <1>5. Stage(result.is) \in Nat
    BY DEF Stage
  <1> QED BY <1>2, <1>3, <1>4, <1>5, ToDoIs

(* Every other step keeps it; it begins a load, or forgets one.             *)
LEMMA NextKeeps ==
  ASSUME IInv, [LoaderNext]_<<disk, loadVars>>
  PROVE  IInv'
  <1>1. CASE LoadStep
    BY <1>1, LoadStepKeeps
  <1>2. CASE Readable(disk') /\ StartLoad(entry'.path, entry'.bare)
    <2>1. /\ frames' = <<>> /\ visited' = {} /\ asked' = Nothing /\ result'.is = "started"
      BY <1>2 DEF StartLoad
    <2>2. Nothing.call \in BOOLEAN
      BY DEF Nothing
    <2>3. "started" # "loading" /\ "started" # "loaded" /\ "started" \notin LoadErrors
      BY DEF LoadErrors
    <2>4. TrueErrors' /\ ~Loading'
      BY <2>1, <2>3, Zenon DEF TrueErrors, Finished, Loading
    <2> QED BY <1>2, <2>1, <2>2, <2>4, Zenon DEF IInv
  <1>3. CASE Readable(disk') /\ Idle'
    <2>1. asked' = Nothing /\ result'.is = "idle"
      BY <1>3 DEF Idle
    <2>2. Nothing.call \in BOOLEAN
      BY DEF Nothing
    <2>3. "idle" # "loading" /\ "idle" # "loaded" /\ "idle" \notin LoadErrors /\ "idle" # "started"
      BY DEF LoadErrors
    <2>4. TrueErrors' /\ ~Loading'
      BY <2>1, <2>3, Zenon DEF TrueErrors, Finished, Loading
    <2> QED BY <1>3, <2>1, <2>2, <2>3, <2>4, Zenon DEF IInv
  <1>4. CASE UNCHANGED <<disk, loadVars>>
    <2>1. /\ disk' = disk /\ entry' = entry /\ packages' = packages /\ frames' = frames
          /\ visited' = visited /\ asked' = asked /\ result' = result
      BY <1>4, Zenon DEF loadVars
    <2>2. TrueErrors'
      BY <2>1, Zenon DEF IInv, TrueErrors, Finished, TrulyReached, Truly
    <2>3. Loading' = Loading
      BY <2>1, Zenon DEF Loading
    <2> QED BY <2>1, <2>2, <2>3, Zenon DEF IInv
  <1> QED BY <1>1, <1>2, <1>3, <1>4, Zenon DEF LoaderNext

LEMMA InitHolds ==
  ASSUME LoaderInit
  PROVE  IInv
  <1>1. asked = Nothing /\ result.is = "idle" /\ Readable(disk)
    BY DEF LoaderInit, Idle
  <1>2. Nothing.call \in BOOLEAN
    BY DEF Nothing
  <1>3. "idle" # "loading" /\ "idle" # "loaded" /\ "idle" \notin LoadErrors /\ "idle" # "started"
    BY DEF LoadErrors
  <1>4. TrueErrors /\ ~Loading
    BY <1>1, <1>3, Zenon DEF TrueErrors, Finished, Loading
  <1> QED BY <1>1, <1>2, <1>3, <1>4, Zenon DEF IInv

LEMMA Invariant == LoaderSpec => []IInv
  <1>1. LoaderInit => IInv
    BY InitHolds
  <1>2. IInv /\ [LoaderNext]_<<disk, loadVars>> => IInv'
    BY NextKeeps
  <1> QED BY <1>1, <1>2, PTL DEF LoaderSpec

-----------------------------------------------------------------------------
(* The theorems *)

(* A load succeeds only on a graph without a fault, and the fault that it  *)
(* reports is there: a true cycle, diamond, repeated alias, forbidden      *)
(* statement, missing file or package.                                     *)
THEOREM ReportsAreTrue == LoaderSpec => []TrueErrors
  <1>1. IInv => TrueErrors
    BY DEF IInv
  <1> QED BY <1>1, Invariant, PTL

(* Every step of a load leaves less to do of what can be counted, so that  *)
(* it ends on any disk, one with cycles included.                          *)
THEOREM EveryLoadEnds == LoaderSpec => LoadsEnd
  <1>1. IInv /\ LoadStep => LoadToDo \in Nat \X Nat \X Nat \X Nat /\ Precedes(LoadToDo', LoadToDo)
    BY LoadStepKeeps, ToDoIsCounted
  <1>2. IInv => [LoadStep => /\ LoadToDo \in Nat \X Nat \X Nat \X Nat
                            /\ Precedes(LoadToDo', LoadToDo)]_<<disk, loadVars>>
    BY <1>1
  <1> QED BY <1>2, Invariant, PTL DEF LoadsEnd

=============================================================================
