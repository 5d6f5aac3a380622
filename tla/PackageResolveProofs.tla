------------------------- MODULE PackageResolveProofs -------------------------
(***************************************************************************)
(* Proofs about `aint add`.  The graph it locks is closed, has no cycle    *)
(* and nothing superfluous; a pin is honoured unless another process meant *)
(* the working copy for something else; and what was added can be          *)
(* imported.                                                               *)
(*                                                                         *)
(* The walk is described by what its stack, its graph and its history have *)
(* to do with one another after each of its three steps: a package is      *)
(* entered, skipped or left.  Working copies are described by what stays   *)
(* as it is, whoever runs git in them.                                     *)
(***************************************************************************)
EXTENDS PackageResolve, FiniteSetTheorems, SequenceTheorems, WellFoundedInduction, TLAPS

-----------------------------------------------------------------------------
(* The walk: a stack fr of packages being visited, the graph re so far, and *)
(* what was walked for each package of it, fi.                              *)

FrameSet ==
  {f \in [name : NameSet, deps : UNION {[ns -> Dependencies] : ns \in SUBSET NameSet},
          todo : SUBSET NameSet] : f.todo \subseteq DOMAIN f.deps}

OnTrail(fr)      == {fr[i].name : i \in DOMAIN fr}
Finished(fr, re) == DOMAIN re \ OnTrail(fr)
Needs(fi, n)     == fi[n].manifest.deps
Done(f)          == DOMAIN f.deps \ f.todo

\* Everything in ns is in the graph, where the map deps wants it.
AtPlaces(re, deps, ns) == \A d \in ns : d \in DOMAIN re /\ re[d].path = PlaceOf(deps[d])

(* What is on the stack is in the graph, once, with the dependencies of its *)
(* manifest; what is in the graph is there under its own name.              *)
Trail(fr, re, fi) ==
  /\ fr \in Seq(FrameSet) /\ fr # <<>>
  /\ DOMAIN fi = DOMAIN re
  /\ \A n \in DOMAIN re : fi[n].manifest \in Manifests /\ fi[n].manifest.name = n
  /\ \A i \in DOMAIN fr : fr[i].name \in DOMAIN re /\ Needs(fi, fr[i].name) = fr[i].deps
  /\ \A i, j \in DOMAIN fr : fr[i].name = fr[j].name => i = j

(* All dependencies of a finished package are in the graph, and all that a  *)
(* package on the stack is done with.                                       *)
Placed(fr, re, fi) ==
  /\ \A i \in DOMAIN fr : AtPlaces(re, fr[i].deps, Done(fr[i]))
  /\ \A n \in Finished(fr, re) : AtPlaces(re, Needs(fi, n), DOMAIN Needs(fi, n))

(* What is finished depends on what is finished, without a cycle; what a    *)
(* package on the stack is done with is finished, or is the next above it.  *)
Ordered(fr, re, fi) ==
  /\ \A i \in DOMAIN fr : \A d \in Done(fr[i]) :
       \/ d \in Finished(fr, re)
       \/ i < Len(fr) /\ d = fr[i + 1].name
  /\ \A n \in Finished(fr, re) : DOMAIN Needs(fi, n) \subseteq Finished(fr, re)
  /\ \A S \in SUBSET Finished(fr, re) : S # {} => \E n \in S : DOMAIN Needs(fi, n) \cap S = {}

(* The walk began at the project's own manifest, and every part of the      *)
(* graph without it is depended on from outside of the part.                *)
FromRoot(fr, re, fi, root) ==
  /\ fr[1].name = root.name /\ fi[root.name].manifest = root
  /\ \A S \in SUBSET DOMAIN re : S # {} =>
       root.name \in S \/ \E n \in DOMAIN re \ S : DOMAIN Needs(fi, n) \cap S # {}

Walked(fr, re, fi, root) ==
  /\ Trail(fr, re, fi)
  /\ Placed(fr, re, fi)
  /\ Ordered(fr, re, fi)
  /\ FromRoot(fr, re, fi, root)

-----------------------------------------------------------------------------
(* Facts about the operators of the model.                                  *)

(* What a manifest is, part by part.                                        *)
LEMMA ManifestParts ==
  ASSUME NEW m \in Manifests
  PROVE  /\ m = [name |-> m.name, deps |-> m.deps]
         /\ m.name \in NameSet
         /\ DOMAIN m.deps \subseteq NameSet
         /\ m.deps \in [DOMAIN m.deps -> Dependencies]
<1>1. m = [name |-> m.name, deps |-> m.deps] /\ m.name \in NameSet
  BY DEF Manifests
<1>2. PICK ns \in SUBSET NameSet : m.deps \in [ns -> Dependencies]
  BY DEF Manifests
<1> QED
  BY <1>1, <1>2

(* A map of dependencies, and a manifest, from their parts.                 *)
LEMMA ManifestFrom ==
  ASSUME NEW n \in NameSet, NEW ns \in SUBSET NameSet, NEW deps \in [ns -> Dependencies]
  PROVE  /\ deps \in UNION {[ms -> Dependencies] : ms \in SUBSET NameSet}
         /\ [name |-> n, deps |-> deps] \in Manifests
BY DEF Manifests

(* FirstName picks a member, so the loop of visit looks at a dependency     *)
(* that is left.                                                            *)
LEMMA FirstNameIsIn ==
  ASSUME NEW S \in SUBSET NameSet, S # {}
  PROVE  FirstName(S) \in S
<1> DEFINE At == {i \in DOMAIN Names : Names[i] \in S}
<1>1. At \subseteq Nat /\ At # {}
  BY PackageAssumptions DEF NameSet
<1>2. \E i \in At : \A j \in At : i <= j
  <2> DEFINE R == OpToRel(<, Nat)
  <2>1. IsWellFoundedOn(R, Nat)
    BY NatLessThanWellFounded, Zenon
  <2>2. \A i, j \in Nat : j < i <=> <<j, i>> \in R
    BY DEF OpToRel
  <2> HIDE DEF At, R
  <2>3. PICK i \in At : \A j \in At : ~(<<j, i>> \in R)
    BY <1>1, <2>1, WFMin
  <2>4. \A j \in At : ~(j < i)
    BY <1>1, <2>2, <2>3
  <2>5. \A j \in At : i <= j
    BY <1>1, <2>3, <2>4
  <2> QED
    BY <2>3, <2>5
<1> QED
  BY <1>2 DEF FirstName

-----------------------------------------------------------------------------
(* The steps of the walk, each from any walk that is as described.          *)

\* The stack when the innermost package is done with n.
Without(fr, n) == [fr EXCEPT ![Len(fr)].todo = @ \ {n}]

(* Only the innermost package changes, and it is done with one more.        *)
LEMMA WithoutIs ==
  ASSUME NEW fr \in Seq(FrameSet), fr # <<>>, NEW n \in fr[Len(fr)].todo
  PROVE  /\ Without(fr, n) \in Seq(FrameSet) /\ Len(Without(fr, n)) = Len(fr)
         /\ Len(fr) \in DOMAIN fr /\ DOMAIN fr = 1..Len(fr)
         /\ n \in DOMAIN fr[Len(fr)].deps
         /\ \A i \in DOMAIN fr : /\ Without(fr, n)[i].name = fr[i].name
                                 /\ Without(fr, n)[i].deps = fr[i].deps
                                 /\ i # Len(fr) => Done(Without(fr, n)[i]) = Done(fr[i])
         /\ Done(Without(fr, n)[Len(fr)]) = Done(fr[Len(fr)]) \cup {n}
<1> DEFINE top == fr[Len(fr)]
           new == [top EXCEPT !.todo = @ \ {n}]
<1>1. Len(fr) \in Nat /\ DOMAIN fr = 1..Len(fr) /\ Len(fr) > 0
  BY EmptySeq, LenProperties
<1>2. top \in FrameSet
  BY <1>1, ElementOfSeq
<1>3. /\ new \in FrameSet /\ new.name = top.name /\ new.deps = top.deps
      /\ new.todo = top.todo \ {n} /\ n \in DOMAIN top.deps
  BY <1>2 DEF FrameSet
<1>4. Without(fr, n) = [fr EXCEPT ![Len(fr)] = new]
  BY DEF Without
<1> HIDE DEF top, new
<1>5. Without(fr, n) \in Seq(FrameSet) /\ Len(Without(fr, n)) = Len(fr)
  BY <1>1, <1>3, <1>4, ExceptSeq
<1>6. \A i \in DOMAIN fr : Without(fr, n)[i] = IF i = Len(fr) THEN new ELSE fr[i]
  BY <1>4
<1>7. Done(new) = Done(top) \cup {n}
  BY <1>3 DEF Done, top
<1> QED
  BY <1>1, <1>3, <1>5, <1>6, <1>7 DEF top, Done

(* What is on the stack, as far as its names go.                            *)
LEMMA WithoutTrail ==
  ASSUME NEW fr \in Seq(FrameSet), fr # <<>>, NEW n \in fr[Len(fr)].todo, NEW re
  PROVE  /\ OnTrail(Without(fr, n)) = OnTrail(fr)
         /\ Finished(Without(fr, n), re) = Finished(fr, re)
<1>1. DOMAIN Without(fr, n) = DOMAIN fr
  BY WithoutIs, LenProperties
<1>2. OnTrail(Without(fr, n)) = OnTrail(fr)
  BY <1>1, WithoutIs DEF OnTrail
<1> QED
  BY <1>2 DEF Finished

(* A package that is in the graph already, at the right place and not on    *)
(* the stack, is finished: the innermost package is done with it.           *)
LEMMA Skips ==
  ASSUME NEW fr, NEW re, NEW fi, NEW root, Walked(fr, re, fi, root),
         NEW n \in fr[Len(fr)].todo, n \in DOMAIN re, n \notin OnTrail(fr),
         re[n].path = PlaceOf(fr[Len(fr)].deps[n])
  PROVE  Walked(Without(fr, n), re, fi, root)
<1> DEFINE gr == Without(fr, n)
<1>0. fr \in Seq(FrameSet) /\ fr # <<>>
  BY DEF Walked, Trail
<1>1. /\ gr \in Seq(FrameSet) /\ Len(gr) = Len(fr) /\ gr # <<>> /\ DOMAIN gr = DOMAIN fr
      /\ Len(fr) \in DOMAIN fr /\ 1 \in DOMAIN fr
      /\ \A i \in DOMAIN fr : /\ gr[i].name = fr[i].name /\ gr[i].deps = fr[i].deps
                              /\ i # Len(fr) => Done(gr[i]) = Done(fr[i])
      /\ Done(gr[Len(fr)]) = Done(fr[Len(fr)]) \cup {n}
  <2>1. Len(fr) \in Nat /\ Len(fr) > 0 /\ DOMAIN fr = 1..Len(fr)
    BY <1>0, EmptySeq, LenProperties
  <2>2. gr \in Seq(FrameSet) /\ Len(gr) = Len(fr)
    BY <1>0, WithoutIs
  <2>3. gr # <<>> /\ DOMAIN gr = DOMAIN fr /\ 1 \in DOMAIN fr /\ Len(fr) \in DOMAIN fr
    BY <2>1, <2>2, EmptySeq, LenProperties
  <2> QED
    BY <1>0, <2>2, <2>3, WithoutIs
<1>2. Finished(gr, re) = Finished(fr, re) /\ n \in Finished(fr, re)
  BY <1>0, WithoutTrail DEF Finished
<1> HIDE DEF gr
<1>3. Trail(gr, re, fi)
  BY <1>1 DEF Walked, Trail
<1>4. Placed(gr, re, fi)
  <2>1. ASSUME NEW i \in DOMAIN gr
        PROVE  AtPlaces(re, gr[i].deps, Done(gr[i]))
    <3>1. AtPlaces(re, fr[i].deps, Done(fr[i]))
      BY <1>1 DEF Walked, Placed
    <3> QED
      BY <3>1, <1>1 DEF AtPlaces
  <2>2. \A m \in Finished(gr, re) : AtPlaces(re, Needs(fi, m), DOMAIN Needs(fi, m))
    BY <1>2 DEF Walked, Placed
  <2> QED
    BY <2>1, <2>2 DEF Placed
<1>5. Ordered(gr, re, fi)
  <2>1. ASSUME NEW i \in DOMAIN gr, NEW d \in Done(gr[i])
        PROVE  d \in Finished(gr, re) \/ (i < Len(gr) /\ d = gr[i + 1].name)
    <3>1. CASE d \in Done(fr[i])
      <4>1. d \in Finished(fr, re) \/ (i < Len(fr) /\ d = fr[i + 1].name)
        BY <1>1, <3>1 DEF Walked, Ordered
      <4>2. i < Len(fr) => i + 1 \in DOMAIN fr
        BY <1>0, <1>1, LenProperties
      <4> QED
        BY <4>1, <4>2, <1>1, <1>2
    <3>2. CASE d = n
      BY <1>2, <3>2
    <3> QED
      BY <1>1, <3>1, <3>2
  <2> QED
    BY <2>1, <1>2 DEF Walked, Ordered
<1>6. FromRoot(gr, re, fi, root)
  BY <1>1 DEF Walked, FromRoot
<1> QED
  BY <1>3, <1>4, <1>5, <1>6 DEF Walked, gr


(* A map that is extended.                                                  *)
LEMMA ExtendIs ==
  ASSUME NEW f, NEW n, NEW v
  PROVE  /\ DOMAIN Extend(f, n, v) = DOMAIN f \cup {n}
         /\ \A m \in DOMAIN f \cup {n} : Extend(f, n, v)[m] = IF m = n THEN v ELSE f[m]
BY DEF Extend

(* A package that is entered is done with nothing yet.                      *)
LEMMA FrameIs ==
  ASSUME NEW m \in Manifests
  PROVE  /\ Frame(m) \in FrameSet /\ Done(Frame(m)) = {}
         /\ Frame(m).name = m.name /\ Frame(m).deps = m.deps
<1>1. /\ m.name \in NameSet /\ DOMAIN m.deps \in SUBSET NameSet
      /\ m.deps \in [DOMAIN m.deps -> Dependencies]
  BY ManifestParts
<1>2. m.deps \in UNION {[ns -> Dependencies] : ns \in SUBSET NameSet}
  BY <1>1
<1> HIDE <1>1
<1>3. DOMAIN m.deps \in SUBSET NameSet /\ m.name \in NameSet
  BY <1>1
<1> QED
  BY <1>2, <1>3 DEF Frame, FrameSet, Done

\* The package of manifest m is entered as n, with its entries in the graph and in the history.
Enters(fr, re, n, m, entry, walked) ==
  /\ n \in fr[Len(fr)].todo /\ n \notin DOMAIN re
  /\ m \in Manifests /\ m.name = n
  /\ entry.path = PlaceOf(fr[Len(fr)].deps[n]) /\ walked.manifest = m

(* A package that is not in the graph is entered: it is put into the graph  *)
(* where its dependent wants it, and onto the stack.                        *)
LEMMA Descends ==
  ASSUME NEW fr, NEW re, NEW fi, NEW root, Walked(fr, re, fi, root),
         NEW n, NEW m, NEW entry, NEW walked, Enters(fr, re, n, m, entry, walked)
  PROVE  Walked(Append(Without(fr, n), Frame(m)), Extend(re, n, entry),
                Extend(fi, n, walked), root)
<1> DEFINE gr == Without(fr, n)
           hr == Append(gr, Frame(m))
           k  == Len(fr)
           re2 == Extend(re, n, entry)
           fi2 == Extend(fi, n, walked)
<1>0. fr \in Seq(FrameSet) /\ fr # <<>>
  BY DEF Walked, Trail
<1>00. n \in fr[Len(fr)].todo /\ n \notin DOMAIN re /\ m \in Manifests
  BY DEF Enters
<1>1. /\ k \in Nat /\ k > 0 /\ DOMAIN fr = 1..k /\ k \in 1..k /\ 1 \in 1..k
      /\ n \in DOMAIN fr[k].deps
  BY <1>0, <1>00, WithoutIs, EmptySeq, LenProperties
<1>2. /\ gr \in Seq(FrameSet) /\ Len(gr) = k
      /\ \A i \in 1..k : /\ gr[i].name = fr[i].name /\ gr[i].deps = fr[i].deps
                         /\ i # k => Done(gr[i]) = Done(fr[i])
      /\ Done(gr[k]) = Done(fr[k]) \cup {n}
  <2>1. gr \in Seq(FrameSet) /\ Len(gr) = k
    BY <1>0, <1>00, WithoutIs
  <2>2. Done(gr[k]) = Done(fr[k]) \cup {n}
    BY <1>0, <1>00, WithoutIs, Zenon
  <2>3. \A i \in DOMAIN fr : gr[i].name = fr[i].name /\ gr[i].deps = fr[i].deps
    BY <1>0, <1>00, WithoutIs
  <2>4. \A i \in DOMAIN fr : i # k => Done(gr[i]) = Done(fr[i])
    BY <1>0, <1>00, WithoutIs
  <2> HIDE DEF gr, k
  <2> QED
    BY <2>1, <2>2, <2>3, <2>4, <1>1
<1>3. Frame(m) \in FrameSet /\ Done(Frame(m)) = {} /\ Frame(m).name = n /\ Frame(m).deps = m.deps
  BY <1>00, FrameIs DEF Enters
<1> HIDE DEF gr
<1>4. /\ hr \in Seq(FrameSet) /\ Len(hr) = k + 1 /\ DOMAIN hr = 1..(k + 1) /\ hr # <<>>
      /\ hr[k + 1] = Frame(m) /\ \A i \in 1..k : hr[i] = gr[i]
  <2>1. hr \in Seq(FrameSet) /\ Len(hr) = k + 1
    BY <1>2, <1>3, AppendProperties
  <2>2. hr[k + 1] = Frame(m) /\ \A i \in 1..k : hr[i] = gr[i]
    <3> HIDE DEF k
    <3> QED
      BY <1>1, <1>2, <1>3, AppendProperties
  <2> QED
    BY <1>1, <2>1, <2>2, LenProperties, EmptySeq
<1>5. /\ DOMAIN re2 = DOMAIN re \cup {n} /\ DOMAIN fi2 = DOMAIN fi \cup {n}
      /\ re2[n] = entry /\ fi2[n] = walked
      /\ \A x \in DOMAIN re : re2[x] = re[x] /\ fi2[x] = fi[x]
  <2>1. DOMAIN fi = DOMAIN re
    BY DEF Walked, Trail
  <2>2. DOMAIN re2 = DOMAIN re \cup {n} /\ DOMAIN fi2 = DOMAIN fi \cup {n}
    BY ExtendIs, Zenon
  <2>3. re2[n] = entry /\ \A x \in DOMAIN re : re2[x] = re[x]
    BY <1>00 DEF Extend
  <2>4. fi2[n] = walked /\ \A x \in DOMAIN fi : fi2[x] = fi[x]
    BY <1>00, <2>1 DEF Extend
  <2> HIDE DEF re2, fi2
  <2> QED
    BY <1>00, <2>1, <2>2, <2>3, <2>4
<1> HIDE DEF hr, re2, fi2, k
<1>6. \A i \in 1..(k + 1) : i \in 1..k \/ i = k + 1
  BY <1>1
<1>7. /\ \A i \in 1..k : /\ hr[i].name = fr[i].name /\ hr[i].deps = fr[i].deps
                         /\ i # k => Done(hr[i]) = Done(fr[i])
      /\ Done(hr[k]) = Done(fr[k]) \cup {n}
      /\ hr[k + 1].name = n /\ hr[k + 1].deps = m.deps /\ Done(hr[k + 1]) = {}
      /\ 1 \in DOMAIN hr /\ hr[1].name = fr[1].name
  BY <1>1, <1>2, <1>3, <1>4
<1>8. OnTrail(hr) = OnTrail(fr) \cup {n} /\ OnTrail(fr) \subseteq DOMAIN re
  <2>1. OnTrail(fr) \subseteq DOMAIN re
    BY <1>1 DEF Walked, Trail, OnTrail
  <2>2. OnTrail(hr) = {hr[i].name : i \in 1..k} \cup {hr[k + 1].name}
    BY <1>1, <1>4, <1>6 DEF OnTrail
  <2>3. {hr[i].name : i \in 1..k} = OnTrail(fr)
    BY <1>1, <1>7 DEF OnTrail
  <2> QED
    BY <2>1, <2>2, <2>3, <1>7
<1>9. Finished(hr, re2) = Finished(fr, re) /\ Finished(fr, re) \subseteq DOMAIN re
  BY <1>00, <1>5, <1>8 DEF Finished
<1>10. \A x \in DOMAIN re : Needs(fi2, x) = Needs(fi, x)
  BY <1>5 DEF Needs
<1>11. Needs(fi2, n) = m.deps
  BY <1>5 DEF Needs, Enters
<1>12. Trail(hr, re2, fi2)
  <2>1. DOMAIN fi2 = DOMAIN re2
    BY <1>5 DEF Walked, Trail
  <2>2. \A x \in DOMAIN re2 : fi2[x].manifest \in Manifests /\ fi2[x].manifest.name = x
    BY <1>5 DEF Walked, Trail, Enters
  <2>3. \A i \in DOMAIN hr : hr[i].name \in DOMAIN re2 /\ Needs(fi2, hr[i].name) = hr[i].deps
    <3>1. \A i \in 1..k : fr[i].name \in DOMAIN re /\ Needs(fi, fr[i].name) = fr[i].deps
      BY <1>1 DEF Walked, Trail
    <3> QED
      BY <3>1, <1>4, <1>5, <1>6, <1>7, <1>10, <1>11
  <2>4. \A i, j \in DOMAIN hr : hr[i].name = hr[j].name => i = j
    <3>1. \A i, j \in 1..k : fr[i].name = fr[j].name => i = j
      BY <1>1 DEF Walked, Trail
    <3>2. \A i \in 1..k : fr[i].name # n
      BY <1>00, <1>1 DEF Walked, Trail
    <3> QED
      BY <3>1, <3>2, <1>4, <1>6, <1>7
  <2> QED
    BY <2>1, <2>2, <2>3, <2>4, <1>4 DEF Trail
<1>13. Placed(hr, re2, fi2)
  <2>0. ASSUME NEW deps, NEW ns, AtPlaces(re, deps, ns)
        PROVE  AtPlaces(re2, deps, ns)
    BY <2>0, <1>5 DEF AtPlaces
  <2>1. ASSUME NEW i \in DOMAIN hr
        PROVE  AtPlaces(re2, hr[i].deps, Done(hr[i]))
    <3>1. CASE i \in 1..k
      <4>1. AtPlaces(re2, fr[i].deps, Done(fr[i]))
        BY <2>0, <3>1, <1>1 DEF Walked, Placed
      <4>2. n \in DOMAIN re2 /\ re2[n].path = PlaceOf(fr[k].deps[n])
        BY <1>5 DEF k, Enters
      <4> QED
        BY <3>1, <4>1, <4>2, <1>7 DEF AtPlaces
    <3>2. CASE i = k + 1
      BY <3>2, <1>7 DEF AtPlaces
    <3> QED
      BY <3>1, <3>2, <1>4, <1>6
  <2>2. ASSUME NEW x \in Finished(hr, re2)
        PROVE  AtPlaces(re2, Needs(fi2, x), DOMAIN Needs(fi2, x))
    <3>1. AtPlaces(re, Needs(fi, x), DOMAIN Needs(fi, x))
      BY <1>9 DEF Walked, Placed
    <3> QED
      BY <3>1, <2>0, <1>9, <1>10
  <2> QED
    BY <2>1, <2>2 DEF Placed
<1>14. Ordered(hr, re2, fi2)
  <2>1. ASSUME NEW i \in DOMAIN hr, NEW d \in Done(hr[i])
        PROVE  d \in Finished(hr, re2) \/ (i < Len(hr) /\ d = hr[i + 1].name)
    <3>1. i \in 1..k
      BY <1>4, <1>6, <1>7
    <3>2. CASE d \in Done(fr[i])
      <4>1. d \in Finished(fr, re) \/ (i < k /\ d = fr[i + 1].name)
        BY <3>1, <3>2, <1>1 DEF Walked, Ordered, k
      <4>2. i < k => i + 1 \in 1..k
        BY <3>1, <1>1
      <4> QED
        BY <4>1, <4>2, <3>1, <1>1, <1>4, <1>7, <1>9
    <3>3. CASE i = k /\ d = n
      BY <3>3, <1>1, <1>4, <1>7
    <3> QED
      BY <3>1, <3>2, <3>3, <1>7
  <2>2. \A x \in Finished(hr, re2) : DOMAIN Needs(fi2, x) \subseteq Finished(hr, re2)
    BY <1>9, <1>10 DEF Walked, Ordered
  <2>3. ASSUME NEW S \in SUBSET Finished(hr, re2), S # {}
        PROVE  \E x \in S : DOMAIN Needs(fi2, x) \cap S = {}
    <3>1. PICK x \in S : DOMAIN Needs(fi, x) \cap S = {}
      BY <2>3, <1>9 DEF Walked, Ordered
    <3> QED
      BY <3>1, <1>9, <1>10
  <2> QED
    BY <2>1, <2>2, <2>3 DEF Ordered
<1>15. FromRoot(hr, re2, fi2, root)
  <2>1. fr[1].name = root.name /\ root.name \in DOMAIN re /\ fi[root.name].manifest = root
    BY <1>1 DEF Walked, FromRoot, Trail
  <2>2. ASSUME NEW S \in SUBSET DOMAIN re2, S # {}, root.name \notin S
        PROVE  \E x \in DOMAIN re2 \ S : DOMAIN Needs(fi2, x) \cap S # {}
    <3>1. CASE S = {n}
      <4>1. /\ fr[k].name \in DOMAIN re /\ Needs(fi, fr[k].name) = fr[k].deps
        BY <1>1 DEF Walked, Trail
      <4>2. fr[k].name \in DOMAIN re2 \ S /\ n \in DOMAIN Needs(fi2, fr[k].name)
        BY <4>1, <3>1, <1>00, <1>1, <1>5, <1>10
      <4> QED
        BY <4>2, <3>1
    <3>2. CASE S # {n}
      <4>1. S \ {n} \in SUBSET DOMAIN re /\ S \ {n} # {} /\ root.name \notin S \ {n}
        BY <2>2, <3>2, <1>5
      <4>2. PICK x \in DOMAIN re \ (S \ {n}) : DOMAIN Needs(fi, x) \cap (S \ {n}) # {}
        BY <4>1 DEF Walked, FromRoot
      <4> QED
        BY <4>2, <1>00, <1>5, <1>10
    <3> QED
      BY <3>1, <3>2
  <2> QED
    BY <2>1, <2>2, <1>5, <1>7 DEF FromRoot
<1> QED
  BY <1>12, <1>13, <1>14, <1>15 DEF Walked, hr, gr, re2, fi2


(* A package with nothing left to look at is left, and is finished.         *)
LEMMA Leaves ==
  ASSUME NEW fr, NEW re, NEW fi, NEW root, Walked(fr, re, fi, root),
         fr[Len(fr)].todo = {}, Len(fr) > 1
  PROVE  Walked(SubSeq(fr, 1, Len(fr) - 1), re, fi, root)
<1> DEFINE k  == Len(fr)
           gr == SubSeq(fr, 1, k - 1)
           t  == fr[k].name
<1>0. fr \in Seq(FrameSet) /\ fr # <<>>
  BY DEF Walked, Trail
<1>1. k \in Nat /\ k > 1 /\ DOMAIN fr = 1..k /\ fr[k] \in FrameSet
  BY <1>0, LenProperties, ElementOfSeq
<1>2. /\ gr \in Seq(FrameSet) /\ Len(gr) = k - 1 /\ DOMAIN gr = 1..(k - 1) /\ gr # <<>>
      /\ \A i \in 1..(k - 1) : gr[i] = fr[i]
  <2>1. gr \in Seq(FrameSet) /\ Len(gr) = k - 1 /\ \A i \in 1..(k - 1) : gr[i] = fr[i]
    BY <1>0, <1>1, SubSeqProperties
  <2> HIDE DEF gr, k
  <2> QED
    BY <1>1, <2>1, LenProperties, EmptySeq
<1>3. Done(fr[k]) = DOMAIN fr[k].deps
  BY DEF Done
<1> HIDE DEF gr, k
<1>4. \A i \in 1..k : i \in 1..(k - 1) \/ i = k
  BY <1>1
<1>5. \A i \in 1..(k - 1) : i \in 1..k /\ i + 1 \in 1..k
  BY <1>1
<1>6. /\ k \in 1..k /\ 1 \in 1..(k - 1)
      /\ t \in DOMAIN re /\ Needs(fi, t) = fr[k].deps
      /\ \A i \in 1..(k - 1) : fr[i].name # t
  BY <1>1, <1>5 DEF Walked, Trail
<1> HIDE DEF t
<1>7. OnTrail(fr) = OnTrail(gr) \cup {t} /\ t \notin OnTrail(gr)
  <2>1. OnTrail(gr) = {fr[i].name : i \in 1..(k - 1)}
    BY <1>2 DEF OnTrail
  <2>2. OnTrail(fr) = {fr[i].name : i \in 1..(k - 1)} \cup {t}
    BY <1>1, <1>4, <1>5, <1>6 DEF OnTrail, t
  <2> QED
    BY <2>1, <2>2, <1>6
<1>8. Finished(gr, re) = Finished(fr, re) \cup {t} /\ t \notin Finished(fr, re)
  BY <1>6, <1>7 DEF Finished
<1>9. DOMAIN Needs(fi, t) \subseteq Finished(fr, re)
  <2>1. \A d \in Done(fr[k]) : d \in Finished(fr, re) \/ (k < Len(fr) /\ d = fr[k + 1].name)
    BY <1>1, <1>6 DEF Walked, Ordered
  <2>2. ~(k < Len(fr))
    BY <1>1 DEF k
  <2> QED
    BY <2>1, <2>2, <1>3, <1>6
<1>10. Trail(gr, re, fi)
  BY <1>1, <1>2, <1>5 DEF Walked, Trail
<1>11. Placed(gr, re, fi)
  <2>1. \A i \in 1..k : AtPlaces(re, fr[i].deps, Done(fr[i]))
    BY <1>1 DEF Walked, Placed
  <2>2. \A n \in Finished(fr, re) : AtPlaces(re, Needs(fi, n), DOMAIN Needs(fi, n))
    BY DEF Walked, Placed
  <2>3. AtPlaces(re, Needs(fi, t), DOMAIN Needs(fi, t))
    BY <2>1, <1>3, <1>6
  <2> QED
    BY <2>1, <2>2, <2>3, <1>2, <1>5, <1>8 DEF Placed
<1>12. Ordered(gr, re, fi)
  <2>1. ASSUME NEW i \in DOMAIN gr, NEW d \in Done(gr[i])
        PROVE  d \in Finished(gr, re) \/ (i < Len(gr) /\ d = gr[i + 1].name)
    <3>1. d \in Finished(fr, re) \/ (i < k /\ d = fr[i + 1].name)
      BY <1>1, <1>2, <1>5 DEF Walked, Ordered, k
    <3>2. CASE i < k /\ d = fr[i + 1].name
      <4>1. CASE i = k - 1
        BY <4>1, <3>2, <1>1, <1>8 DEF t
      <4>2. CASE i # k - 1
        <5>1. i \in 1..(k - 1) /\ i < k - 1 /\ i + 1 \in 1..(k - 1)
          BY <4>2, <1>1, <1>2
        <5> QED
          BY <5>1, <3>2, <1>2
      <4> QED
        BY <4>1, <4>2
    <3> QED
      BY <3>1, <3>2, <1>8
  <2>2. \A n \in Finished(gr, re) : DOMAIN Needs(fi, n) \subseteq Finished(gr, re)
    BY <1>8, <1>9 DEF Walked, Ordered
  <2>3. ASSUME NEW S \in SUBSET Finished(gr, re), S # {}
        PROVE  \E n \in S : DOMAIN Needs(fi, n) \cap S = {}
    <3>1. CASE S = {t}
      BY <3>1, <1>8, <1>9
    <3>2. CASE S # {t}
      <4>1. S \ {t} \in SUBSET Finished(fr, re) /\ S \ {t} # {}
        BY <3>2, <2>3, <1>8
      <4>2. PICK n \in S \ {t} : DOMAIN Needs(fi, n) \cap (S \ {t}) = {}
        BY <4>1 DEF Walked, Ordered
      <4>3. t \notin DOMAIN Needs(fi, n)
        BY <4>1, <1>8 DEF Walked, Ordered
      <4> QED
        BY <4>2, <4>3
    <3> QED
      BY <3>1, <3>2
  <2> QED
    BY <2>1, <2>2, <2>3 DEF Ordered
<1>13. FromRoot(gr, re, fi, root)
  BY <1>2, <1>6 DEF Walked, FromRoot
<1> QED
  BY <1>10, <1>11, <1>12, <1>13 DEF Walked, gr, k

(* A walk begins at the project's own package, of which nothing is done.    *)
LEMMA Begins ==
  ASSUME NEW root \in Manifests, NEW entry, NEW walked, walked.manifest = root
  PROVE  Walked(<<Frame(root)>>, Extend(<<>>, root.name, entry),
                Extend(<<>>, root.name, walked), root)
<1> DEFINE f  == Frame(root)
           fr == <<f>>
           re == Extend(<<>>, root.name, entry)
           fi == Extend(<<>>, root.name, walked)
<1>1. f \in FrameSet /\ Done(f) = {} /\ f.name = root.name /\ f.deps = root.deps
  BY FrameIs
<1> HIDE DEF f
<1>2. fr \in Seq(FrameSet) /\ fr # <<>> /\ DOMAIN fr = {1} /\ fr[1] = f
  BY <1>1
<1>3. DOMAIN re = {root.name} /\ DOMAIN fi = {root.name} /\ fi[root.name] = walked
  BY DEF Extend
<1>4. OnTrail(fr) = {root.name} /\ Finished(fr, re) = {}
  <2>1. OnTrail(fr) = {root.name}
    BY <1>1, <1>2 DEF OnTrail
  <2> QED
    BY <2>1, <1>3 DEF Finished
<1>5. Needs(fi, root.name) = root.deps
  BY <1>3 DEF Needs
<1> HIDE DEF fr, re, fi
<1>6. Trail(fr, re, fi)
  BY <1>1, <1>2, <1>3, <1>5 DEF Trail
<1>7. Placed(fr, re, fi)
  BY <1>1, <1>2, <1>4 DEF Placed, AtPlaces
<1>8. Ordered(fr, re, fi)
  BY <1>1, <1>2, <1>4 DEF Ordered
<1>9. FromRoot(fr, re, fi, root)
  BY <1>1, <1>2, <1>3 DEF FromRoot
<1> QED
  BY <1>6, <1>7, <1>8, <1>9 DEF Walked, fr, re, fi, f

(* When only the project's own package is left and it has nothing left to   *)
(* look at, the graph is closed, without a cycle, and all of it is needed.  *)
LEMMA Ends ==
  ASSUME NEW fr, NEW re, NEW fi, NEW root, Walked(fr, re, fi, root),
         fr[Len(fr)].todo = {}, Len(fr) = 1
  PROVE  /\ \A n \in DOMAIN re : /\ fi[n].manifest.name = n
                                 /\ AtPlaces(re, Needs(fi, n), DOMAIN Needs(fi, n))
         /\ root.name \in DOMAIN re /\ Needs(fi, root.name) = root.deps
         /\ fi[root.name].manifest = root
         /\ \A S \in SUBSET DOMAIN re : S # {} =>
              /\ \E n \in S : DOMAIN Needs(fi, n) \cap S = {}
              /\ root.name \in S \/ \E n \in DOMAIN re \ S : DOMAIN Needs(fi, n) \cap S # {}
<1> DEFINE t == root.name
           done == Finished(fr, re)
<1>1. DOMAIN fr = {1} /\ fr[1].name = t /\ fr[1].todo = {} /\ Done(fr[1]) = DOMAIN fr[1].deps
  BY LenProperties DEF Walked, Trail, FromRoot, Done
<1>2. t \in DOMAIN re /\ Needs(fi, t) = fr[1].deps /\ fi[t].manifest = root
  BY <1>1 DEF Walked, Trail, FromRoot
<1>3. OnTrail(fr) = {t}
  BY <1>1 DEF OnTrail
<1>4. DOMAIN re = done \cup {t} /\ t \notin done
  BY <1>2, <1>3 DEF Finished
<1>5. \A n \in DOMAIN re : AtPlaces(re, Needs(fi, n), DOMAIN Needs(fi, n))
  BY <1>1, <1>2, <1>4 DEF Walked, Placed
<1>6. \A n \in DOMAIN re : DOMAIN Needs(fi, n) \subseteq done
  <2>1. DOMAIN Needs(fi, t) \subseteq done
    BY <1>1, <1>2 DEF Walked, Ordered
  <2> QED
    BY <2>1, <1>4 DEF Walked, Ordered
<1>7. ASSUME NEW S \in SUBSET DOMAIN re, S # {}
      PROVE  \E n \in S : DOMAIN Needs(fi, n) \cap S = {}
  <2> HIDE DEF done, t
  <2>1. CASE S = {t}
    BY <2>1, <1>4, <1>6
  <2>2. CASE S # {t}
    <3>1. S \ {t} \in SUBSET done /\ S \ {t} # {}
      BY <2>2, <1>4, <1>7
    <3>2. PICK n \in S \ {t} : DOMAIN Needs(fi, n) \cap (S \ {t}) = {}
      BY <3>1 DEF Walked, Ordered, done
    <3>3. t \notin DOMAIN Needs(fi, n)
      BY <3>1, <1>4, <1>6
    <3> QED
      BY <3>2, <3>3
  <2> QED
    BY <2>1, <2>2
<1>8. Needs(fi, t) = root.deps
  BY <1>2 DEF Needs
<1> QED
  BY <1>2, <1>5, <1>7, <1>8 DEF Walked, Trail, FromRoot


-----------------------------------------------------------------------------
(* The inductive invariant: what holds of the world, and of each process.   *)

GitLabels == {"exists", "clone", "cloning", "fetch", "checkout", "rev_parse"}
Labels    == GitLabels \cup {"idle", "manifest", "resolve", "visit", "lock"}

Shapes ==
  /\ toml \in [Dirs -> Manifests \cup {None}]
  /\ remote \in [Urls -> [Refs -> Commits \cup {None}]]
  /\ \A u \in Urls : remote[u][DefaultBranch] # None
  /\ cache \in [Copies -> WorkingCopies \cup {None, Partial}]
  /\ pc \in [Projects -> Labels]
  /\ DOMAIN lock = Projects /\ DOMAIN result = Projects /\ DOMAIN request = Projects
  /\ DOMAIN frames = Projects /\ DOMAIN resolved = Projects /\ DOMAIN first = Projects
  /\ DOMAIN commit = Projects /\ DOMAIN disturbed = Projects

(* Where a process is says what it knows.                                   *)
Where(p) ==
  /\ pc[p] = "idle" => frames[p] = <<>>
  /\ pc[p] # "idle" => toml[p] # None
  /\ frames[p] = <<>> => resolved[p] = <<>>
  /\ pc[p] \in {"visit", "lock"} => frames[p] # <<>>
  /\ pc[p] = "resolve" => frames[p] = <<>>
  /\ pc[p] # "idle" /\ frames[p] = <<>> => request[p] \in Dependencies
  /\ pc[p] \in GitLabels \cup {"manifest"} /\ frames[p] # <<>> => Top(p).todo # {}
  /\ pc[p] \in GitLabels => Dep(p).kind = "git"
  /\ pc[p] \in {"fetch", "checkout"} => Dep(p).rev # None
  /\ pc[p] = "lock" => Top(p).todo = {} /\ Len(frames[p]) = 1

(* Its walk is as described, and began at its own manifest.                 *)
Walks(p) == frames[p] # <<>> => Walked(frames[p], resolved[p], first[p], toml[p])

(* A copy that is being cloned is left alone; once HEAD was set for a pin   *)
(* it stays until another process sets it; a pin in the graph is the one    *)
(* that was asked for, and what was walked is what the pin has.             *)
Asked(c, rev, com) ==
  /\ Whole(c) /\ com \in Commits
  /\ rev # None => rev \in Refs /\ cache[c].local[rev] = com

Pinned(place, source, walked, moved) ==
  source # None /\ place \notin moved =>
    /\ place \in Copies /\ Asked(place, walked.dep.rev, source.commit)
    /\ walked.manifest = GitManifest(cache[place].origin, source.commit)

ClonePin(p) == pc[p] = "cloning" => cache[Copy(p)] = Partial

HeadPin(p) ==
  pc[p] = "rev_parse" /\ Dep(p).rev # None /\ Copy(p) \notin disturbed[p] =>
    Asked(Copy(p), Dep(p).rev, cache[Copy(p)].head)

CommitPin(p) ==
  pc[p] = "manifest" /\ Dep(p).kind = "git" /\ Copy(p) \notin disturbed[p] =>
    Asked(Copy(p), Dep(p).rev, commit[p]) /\ commit[p] = cache[Copy(p)].head

GraphPins(p) ==
  \A n \in DOMAIN resolved[p] :
    Pinned(resolved[p][n].path, resolved[p][n].source, first[p][n], disturbed[p])

Pins(p) == ClonePin(p) /\ HeadPin(p) /\ CommitPin(p) /\ GraphPins(p)

(* What was added can be imported.                                          *)
Importable(p) ==
  pc[p] = "idle" /\ result[p] = "added" =>
    AtPlaces(lock[p], toml[p].deps, DOMAIN toml[p].deps)

(* No two processes clone to the same directory.                            *)
Exclusive ==
  \A p, q \in Projects :
    pc[p] = "cloning" /\ pc[q] = "cloning" /\ Copy(p) = Copy(q) => p = q

Fits(p) == Where(p) /\ Walks(p) /\ Pins(p) /\ Importable(p)

IInv == Shapes /\ Exclusive /\ \A p \in Projects : Fits(p)


-----------------------------------------------------------------------------
(* What a step of q does to the others, and to the working copies.          *)

OthersKeep(q) ==
  \A p \in Projects \ {q} :
    /\ toml'[p] = toml[p] /\ lock'[p] = lock[p] /\ pc'[p] = pc[p] /\ result'[p] = result[p]
    /\ request'[p] = request[p] /\ frames'[p] = frames[p] /\ resolved'[p] = resolved[p]
    /\ first'[p] = first[p] /\ commit'[p] = commit[p]
    /\ disturbed[p] \subseteq disturbed'[p]

CopyStays(c) ==
  Whole(c) =>
    /\ Whole(c)' /\ cache'[c].origin = cache[c].origin
    /\ \A r \in Refs : cache[c].local[r] # None => cache'[c].local[r] = cache[c].local[r]

HeadStays(q, c) ==
  Whole(c) /\ cache'[c].head # cache[c].head => \A p \in Projects \ {q} : c \in disturbed'[p]

PartialStays(q, c) ==
  cache[c] = Partial => cache'[c] = Partial \/ (pc[q] = "cloning" /\ Copy(q) = c)

CopiesStay(q) == \A c \in Copies : CopyStays(c) /\ HeadStays(q, c) /\ PartialStays(q, c)

OneClone(q) ==
  pc'[q] = "cloning" => Copy(q)' = Copy(q) /\ (pc[q] = "cloning" \/ cache[Copy(q)] = None)

Good(q) ==
  Shapes' /\ OthersKeep(q) /\ CopiesStay(q) /\ OneClone(q) /\ Fits(q)'

(* What is walked for does not depend on the place of the other processes.  *)
LEMMA DepSame ==
  ASSUME NEW p \in Projects, frames'[p] = frames[p], request'[p] = request[p]
  PROVE  Dep(p)' = Dep(p) /\ Copy(p)' = Copy(p) /\ Adding(p)' = Adding(p)
         /\ Top(p)' = Top(p) /\ DepName(p)' = DepName(p)
BY DEF Dep, Copy, Adding, Top, DepName

(* The dependency at hand is one, and of the walk it is the one that is     *)
(* left with the least name.                                                *)
LEMMA DepIs ==
  ASSUME IInv, NEW p \in Projects, pc[p] \in GitLabels \cup {"manifest"}
  PROVE  /\ Dep(p) \in Dependencies
         /\ Dep(p).kind = "git" => /\ Dep(p).url \in Urls /\ Dep(p).rev \in Refs \cup {None}
                                   /\ Copy(p) \in Copies /\ PlaceOf(Dep(p)) = Copy(p)
         /\ Dep(p).kind # "git" => Dep(p).dir \in Dirs /\ PlaceOf(Dep(p)) = Dep(p).dir
         /\ Dep(p).kind = "path" <=> Dep(p).kind # "git"
         /\ ~Adding(p) => /\ Walked(frames[p], resolved[p], first[p], toml[p])
                          /\ DepName(p) \in Top(p).todo
                          /\ Dep(p) = Top(p).deps[DepName(p)]
<1>1. /\ pc[p] # "idle"
      /\ frames[p] = <<>> => request[p] \in Dependencies
      /\ frames[p] # <<>> => /\ Top(p).todo # {}
                             /\ Walked(frames[p], resolved[p], first[p], toml[p])
  BY DEF IInv, Fits, Where, Walks, GitLabels
<1>2. ASSUME ~Adding(p)
      PROVE  /\ DepName(p) \in Top(p).todo /\ Dep(p) = Top(p).deps[DepName(p)]
             /\ Dep(p) \in Dependencies
  <2>1. frames[p] \in Seq(FrameSet) /\ frames[p] # <<>> /\ Top(p).todo # {}
    BY <1>1, <1>2 DEF Adding, Walked, Trail
  <2>2. Len(frames[p]) \in 1..Len(frames[p])
    BY <2>1, EmptySeq, LenProperties
  <2>3. Top(p) \in FrameSet
    BY <2>1, <2>2, ElementOfSeq DEF Top
  <2>4. Top(p).todo \in SUBSET NameSet /\ Top(p).todo \subseteq DOMAIN Top(p).deps
    BY <2>3 DEF FrameSet
  <2>5. PICK ns \in SUBSET NameSet : Top(p).deps \in [ns -> Dependencies]
    BY <2>3 DEF FrameSet
  <2>6. DepName(p) \in Top(p).todo
    BY <2>1, <2>4, FirstNameIsIn DEF DepName
  <2>7. Dep(p) = Top(p).deps[DepName(p)]
    BY <1>2 DEF Dep
  <2> QED
    BY <2>4, <2>5, <2>6, <2>7
<1>3. Dep(p) \in Dependencies
  BY <1>1, <1>2 DEF Adding, Dep
<1>4. \/ Dep(p) \in [kind : {"path"}, dir : Dirs]
      \/ Dep(p) \in [kind : {"git"}, url : Urls, rev : Refs \cup {None}]
  BY <1>3 DEF Dependencies
<1>5. "path" # "git"
  OBVIOUS
<1>6. CASE Dep(p) \in [kind : {"path"}, dir : Dirs]
  <2>1. Dep(p).kind = "path" /\ Dep(p).dir \in Dirs
    BY <1>6
  <2> QED
    BY <2>1, <1>1, <1>2, <1>3, <1>5 DEF PlaceOf, Adding
<1>7. CASE Dep(p) \in [kind : {"git"}, url : Urls, rev : Refs \cup {None}]
  <2>1. Dep(p).kind = "git" /\ Dep(p).url \in Urls /\ Dep(p).rev \in Refs \cup {None}
    BY <1>7
  <2> QED
    BY <2>1, <1>1, <1>2, <1>3, <1>5 DEF PlaceOf, Copy, Copies, Adding
<1> QED
  BY <1>4, <1>6, <1>7

(* A whole working copy is one, and what is read from it is what its remote *)
(* has at the commit that is checked out.                                   *)
LEMMA ManifestAtIs ==
  ASSUME Shapes
  PROVE  /\ \A c \in Copies : Whole(c) <=> cache[c] \in WorkingCopies
         /\ \A c \in Copies : ManifestAt(c) # None =>
              Whole(c) /\ ManifestAt(c) = GitManifest(cache[c].origin, cache[c].head)
         /\ \A place \in Dirs \cup Copies : ManifestAt(place) \in Manifests \cup {None}
<1>1. \A c \in Copies : cache[c] \in WorkingCopies \cup {None, Partial}
  BY DEF Shapes
<1>2. \A c \in Copies : Whole(c) <=> cache[c] \in WorkingCopies
  BY <1>1, PackageAssumptions DEF Whole
<1>3. \A c \in Copies : c \notin Dirs
  BY PackageAssumptions DEF Copies
<1>4. ASSUME NEW c \in Copies, Whole(c)
      PROVE  GitManifest(cache[c].origin, cache[c].head) \in Manifests \cup {None}
  <2>1. cache[c].origin \in Urls /\ cache[c].head \in Commits
    BY <1>2, <1>4 DEF WorkingCopies
  <2> QED
    BY <2>1, PackageAssumptions
<1>5. \A d \in Dirs : ManifestAt(d) \in Manifests \cup {None}
  BY DEF ManifestAt, Shapes
<1>6. \A c \in Copies : ManifestAt(c) \in Manifests \cup {None}
  BY <1>3, <1>4 DEF ManifestAt
<1>7. \A c \in Copies : ManifestAt(c) # None =>
              Whole(c) /\ ManifestAt(c) = GitManifest(cache[c].origin, cache[c].head)
  BY <1>3 DEF ManifestAt
<1> QED
  BY <1>2, <1>5, <1>6, <1>7


(* A commit that was asked for and found stays what it is.                  *)
LEMMA AskedStays ==
  ASSUME NEW c \in Copies, CopyStays(c), NEW rev, NEW com, Asked(c, rev, com)
  PROVE  Asked(c, rev, com)' /\ cache'[c].origin = cache[c].origin
<1>1. com # None
  BY PackageAssumptions DEF Asked
<1> QED
  BY <1>1 DEF Asked, CopyStays

(* And so does a pin in the graph, as far as it is one.                     *)
LEMMA PinnedStays ==
  ASSUME NEW q \in Projects, CopiesStay(q), NEW place, NEW source, NEW walked,
         NEW moved, NEW moved2, moved \subseteq moved2, Pinned(place, source, walked, moved)
  PROVE  source # None /\ place \notin moved2 =>
           /\ place \in Copies /\ Asked(place, walked.dep.rev, source.commit)'
           /\ walked.manifest = GitManifest(cache'[place].origin, source.commit)
<1> SUFFICES ASSUME source # None, place \notin moved2
             PROVE  /\ place \in Copies /\ Asked(place, walked.dep.rev, source.commit)'
                    /\ walked.manifest = GitManifest(cache'[place].origin, source.commit)
  OBVIOUS
<1> DEFINE rev == walked.dep.rev
           com == source.commit
<1>1. /\ place \in Copies /\ Asked(place, rev, com)
      /\ walked.manifest = GitManifest(cache[place].origin, com)
  BY DEF Pinned
<1>2. CopyStays(place)
  BY <1>1 DEF CopiesStay
<1>3. Asked(place, rev, com)' /\ cache'[place].origin = cache[place].origin
  <2> HIDE DEF rev, com
  <2> QED
    BY <1>1, <1>2, AskedStays
<1> QED
  BY <1>1, <1>3

(* The pins of the graph, for a process whose graph and history are the     *)
(* same.                                                                    *)
LEMMA GraphPinsStay ==
  ASSUME NEW q \in Projects, CopiesStay(q), NEW p \in Projects, Pins(p),
         resolved'[p] = resolved[p], first'[p] = first[p], disturbed[p] \subseteq disturbed'[p]
  PROVE  GraphPins(p)'
<1> SUFFICES ASSUME NEW n \in DOMAIN resolved[p],
                    resolved[p][n].source # None, resolved[p][n].path \notin disturbed'[p]
             PROVE  LET place == resolved[p][n].path
                        source == resolved[p][n].source
                        walked == first[p][n]
                    IN  /\ place \in Copies
                        /\ Asked(place, walked.dep.rev, source.commit)'
                        /\ walked.manifest = GitManifest(cache'[place].origin, source.commit)
  BY DEF GraphPins, Pinned, Asked, Whole
<1>1. PICK place, source, walked, moved, moved2 :
         /\ place = resolved[p][n].path /\ source = resolved[p][n].source
         /\ walked = first[p][n] /\ moved = disturbed[p] /\ moved2 = disturbed'[p]
  OBVIOUS
<1>2. Pinned(place, source, walked, moved) /\ moved \subseteq moved2
  BY <1>1 DEF Pins, GraphPins
<1>3. /\ place \in Copies /\ Asked(place, walked.dep.rev, source.commit)'
      /\ walked.manifest = GitManifest(cache'[place].origin, source.commit)
  BY <1>1, <1>2, PinnedStays
<1> QED
  BY <1>1, <1>3

(* A step of q leaves every other process as it was described.              *)
LEMMA Elsewhere ==
  ASSUME IInv, NEW q \in Projects, OthersKeep(q), CopiesStay(q),
         NEW p \in Projects \ {q}
  PROVE  Fits(p)'
<1>0. /\ p \in Projects /\ Fits(p) /\ p # q
      /\ toml'[p] = toml[p] /\ lock'[p] = lock[p] /\ pc'[p] = pc[p] /\ result'[p] = result[p]
      /\ request'[p] = request[p] /\ frames'[p] = frames[p] /\ resolved'[p] = resolved[p]
      /\ first'[p] = first[p] /\ commit'[p] = commit[p]
      /\ disturbed[p] \subseteq disturbed'[p]
  BY DEF IInv, OthersKeep
<1>1. /\ Dep(p)' = Dep(p) /\ Copy(p)' = Copy(p) /\ Top(p)' = Top(p)
  BY <1>0, DepSame
<1>2. Where(p)'
  BY <1>0, <1>1 DEF Fits, Where
<1>3. Walks(p)'
  BY <1>0 DEF Fits, Walks
<1>4. Importable(p)'
  BY <1>0 DEF Fits, Importable, AtPlaces
<1>5. pc[p] \in GitLabels => Dep(p).kind = "git" /\ Copy(p) \in Copies
  BY <1>0, DepIs DEF Fits, Where
<1>6. ClonePin(p)'
  <2> SUFFICES ASSUME pc[p] = "cloning" PROVE cache'[Copy(p)] = Partial
    BY <1>0, <1>1 DEF ClonePin
  <2>1. Copy(p) \in Copies /\ cache[Copy(p)] = Partial
    BY <1>0, <1>5 DEF Fits, Pins, ClonePin, GitLabels
  <2>2. PICK c \in Copies : c = Copy(p)
    BY <2>1
  <2>3. ~(pc[q] = "cloning" /\ Copy(q) = c)
    BY <1>0, <2>2 DEF IInv, Exclusive
  <2> QED
    BY <2>1, <2>2, <2>3 DEF CopiesStay, PartialStays
<1>7. HeadPin(p)'
  <2> SUFFICES ASSUME pc[p] = "rev_parse", Dep(p).rev # None, Copy(p) \notin disturbed'[p]
               PROVE  Asked(Copy(p), Dep(p).rev, cache[Copy(p)].head)'
    BY <1>0, <1>1 DEF HeadPin
  <2>1. Copy(p) \in Copies /\ Asked(Copy(p), Dep(p).rev, cache[Copy(p)].head)
    BY <1>0, <1>5 DEF Fits, Pins, HeadPin, GitLabels
  <2>2. PICK c, rev, head :
           c = Copy(p) /\ rev = Dep(p).rev /\ head = cache[Copy(p)].head
    BY <2>1
  <2>3. c \in Copies /\ CopyStays(c) /\ HeadStays(q, c) /\ Asked(c, rev, head)
    BY <2>1, <2>2 DEF CopiesStay
  <2>4. cache'[c].head = head
    BY <2>2, <2>3, <1>0 DEF HeadStays, Asked
  <2>5. Asked(c, rev, head)'
    BY <2>3, AskedStays
  <2> QED
    BY <2>2, <2>4, <2>5, <1>1
<1>8. CommitPin(p)'
  <2> SUFFICES ASSUME pc[p] = "manifest", Dep(p).kind = "git", Copy(p) \notin disturbed'[p]
               PROVE  (Asked(Copy(p), Dep(p).rev, commit[p]) /\ commit[p] = cache[Copy(p)].head)'
    BY <1>0, <1>1 DEF CommitPin
  <2>1. /\ Copy(p) \in Copies /\ Asked(Copy(p), Dep(p).rev, commit[p])
        /\ commit[p] = cache[Copy(p)].head
    BY <1>0, DepIs DEF Fits, Pins, CommitPin
  <2>2. PICK c, rev, head : c = Copy(p) /\ rev = Dep(p).rev /\ head = commit[p]
    BY <2>1
  <2>3. /\ c \in Copies /\ CopyStays(c) /\ HeadStays(q, c)
        /\ Asked(c, rev, head) /\ cache[c].head = head
    BY <2>1, <2>2 DEF CopiesStay
  <2>4. cache'[c].head = head
    BY <2>2, <2>3, <1>0 DEF HeadStays, Asked
  <2>5. Asked(c, rev, head)'
    BY <2>3, AskedStays
  <2> QED
    BY <2>2, <2>4, <2>5, <1>0, <1>1
<1>9. GraphPins(p)'
  BY <1>0, GraphPinsStay DEF Fits
<1>10. Pins(p)'
  BY <1>6, <1>7, <1>8, <1>9 DEF Pins
<1> QED
  BY <1>2, <1>3, <1>4, <1>10 DEF Fits


(* After a step as described by Good the invariant holds again.             *)
LEMMA GoodIsEnough ==
  ASSUME IInv, NEW q \in Projects, Good(q)
  PROVE  IInv'
<1>1. \A p \in Projects : Fits(p)'
  BY Elsewhere DEF Good
<1>2. Exclusive'
  <2> SUFFICES ASSUME NEW p \in Projects, NEW r \in Projects,
                      pc'[p] = "cloning", pc'[r] = "cloning", Copy(p)' = Copy(r)', p # r
               PROVE  FALSE
    BY DEF Exclusive
  <2>1. ASSUME NEW o \in Projects \ {q}, pc'[o] = "cloning", pc'[q] = "cloning",
               Copy(o)' = Copy(q)'
        PROVE  FALSE
    <3>1. pc[o] = "cloning" /\ frames'[o] = frames[o] /\ request'[o] = request[o]
      BY <2>1 DEF Good, OthersKeep
    <3>2. Copy(o) = Copy(q)
      BY <2>1, <3>1, DepSame DEF Good, OneClone
    <3>3. pc[q] # "cloning"
      BY <3>1, <3>2 DEF IInv, Exclusive
    <3>4. cache[Copy(q)] = None
      BY <3>3, <2>1 DEF Good, OneClone
    <3>5. cache[Copy(o)] = Partial
      BY <3>1 DEF IInv, Fits, Pins, ClonePin
    <3> QED
      BY <3>2, <3>4, <3>5, PackageAssumptions
  <2>2. CASE p = q
    BY <2>1, <2>2
  <2>3. CASE r = q
    BY <2>1, <2>3
  <2>4. CASE p # q /\ r # q
    <3>1. /\ pc[p] = "cloning" /\ frames'[p] = frames[p] /\ request'[p] = request[p]
          /\ pc[r] = "cloning" /\ frames'[r] = frames[r] /\ request'[r] = request[r]
      BY <2>4 DEF Good, OthersKeep
    <3>2. Copy(p) = Copy(r)
      BY <3>1, DepSame
    <3> QED
      BY <3>1, <3>2 DEF IInv, Exclusive
  <2> QED
    BY <2>2, <2>3, <2>4
<1> QED
  BY <1>1, <1>2 DEF IInv, Good

(* A step that leaves the working copies alone.                             *)
LEMMA SameCopies ==
  ASSUME Shapes, NEW q \in Projects, UNCHANGED cache
  PROVE  CopiesStay(q)
BY DEF CopiesStay, CopyStays, HeadStays, PartialStays, Whole

(* What the end of a process changes.                                       *)
LEMMA ExitIs ==
  ASSUME Shapes, NEW q \in Projects, NEW r, Exit(q, r)
  PROVE  /\ pc' \in [Projects -> Labels] /\ pc'[q] = "idle" /\ result'[q] = r
         /\ frames'[q] = <<>> /\ resolved'[q] = <<>>
         /\ DOMAIN result' = Projects /\ DOMAIN request' = Projects
         /\ DOMAIN frames' = Projects /\ DOMAIN resolved' = Projects /\ DOMAIN first' = Projects
         /\ DOMAIN commit' = Projects /\ DOMAIN disturbed' = Projects
         /\ \A p \in Projects \ {q} :
              /\ pc'[p] = pc[p] /\ result'[p] = result[p] /\ request'[p] = request[p]
              /\ frames'[p] = frames[p] /\ resolved'[p] = resolved[p] /\ first'[p] = first[p]
              /\ commit'[p] = commit[p] /\ disturbed'[p] = disturbed[p]
<1>1. pc' \in [Projects -> Labels] /\ pc'[q] = "idle" /\ result'[q] = r
  BY DEF Shapes, Exit, Goto, Labels
<1>2. frames'[q] = <<>> /\ resolved'[q] = <<>>
  BY DEF Shapes, Exit
<1>3. /\ DOMAIN result' = Projects /\ DOMAIN request' = Projects
      /\ DOMAIN frames' = Projects /\ DOMAIN resolved' = Projects /\ DOMAIN first' = Projects
      /\ DOMAIN commit' = Projects /\ DOMAIN disturbed' = Projects
  BY DEF Shapes, Exit
<1>4. ASSUME NEW p \in Projects \ {q}
      PROVE  /\ pc'[p] = pc[p] /\ result'[p] = result[p] /\ request'[p] = request[p]
             /\ frames'[p] = frames[p] /\ resolved'[p] = resolved[p] /\ first'[p] = first[p]
             /\ commit'[p] = commit[p] /\ disturbed'[p] = disturbed[p]
  BY DEF Shapes, Exit, Goto
<1> QED
  BY <1>1, <1>2, <1>3, <1>4

(* The world outside of the processes, after a step of q.                   *)
Outside(q) ==
  /\ toml' \in [Dirs -> Manifests \cup {None}] /\ DOMAIN lock' = Projects
  /\ cache' \in [Copies -> WorkingCopies \cup {None, Partial}] /\ UNCHANGED remote
  /\ \A p \in Projects \ {q} : toml'[p] = toml[p] /\ lock'[p] = lock[p]
  /\ CopiesStay(q)

(* A process that ends, other than by reporting success, fits.              *)
LEMMA ExitIsGood ==
  ASSUME IInv, NEW q \in Projects, NEW r, Exit(q, r), Outside(q),
         r = "added" => AtPlaces(lock'[q], toml'[q].deps, DOMAIN toml'[q].deps)
  PROVE  Good(q)
<1> USE ExitIs
<1>1. Shapes
  BY DEF IInv
<1>2. Shapes'
  BY <1>1 DEF Outside, Shapes
<1>3. OthersKeep(q)
  BY <1>1 DEF Outside, OthersKeep
<1>4. pc'[q] = "idle" /\ result'[q] = r /\ frames'[q] = <<>> /\ resolved'[q] = <<>>
  BY <1>1
<1>5. Where(q)' /\ Walks(q)'
  BY <1>4 DEF Where, Walks, GitLabels
<1>6. DOMAIN resolved'[q] = {}
  BY <1>4
<1>7. Pins(q)'
  BY <1>4, <1>6 DEF Pins, ClonePin, HeadPin, CommitPin, GraphPins
<1>8. Importable(q)'
  BY <1>4 DEF Importable, AtPlaces
<1>9. OneClone(q)
  BY <1>4 DEF OneClone
<1> QED
  BY <1>2, <1>3, <1>5, <1>7, <1>8, <1>9 DEF Good, Fits, Outside

(* A step between two commands of git, or from the last one to the          *)
(* manifest.                                                                *)
GitGoto(q, l) ==
  /\ Goto(q, l) /\ UNCHANGED <<result, request, frames, resolved, first>>
  /\ DOMAIN commit' = Projects /\ \A p \in Projects \ {q} : commit'[p] = commit[p]
  /\ DOMAIN disturbed' = Projects /\ \A p \in Projects : disturbed[p] \subseteq disturbed'[p]

LEMMA GitGotoIsGood ==
  ASSUME IInv, NEW q \in Projects, pc[q] \in GitLabels, NEW l \in GitLabels \cup {"manifest"},
         GitGoto(q, l), Outside(q), toml'[q] = toml[q], lock'[q] = lock[q],
         l \in {"fetch", "checkout"} => Dep(q).rev # None,
         l = "cloning" => cache[Copy(q)] = None /\ cache'[Copy(q)] = Partial,
         HeadPin(q)', CommitPin(q)'
  PROVE  Good(q)
<1>1. Shapes /\ Fits(q) /\ pc[q] # "idle"
  BY DEF IInv, GitLabels
<1>2. pc' \in [Projects -> Labels] /\ pc'[q] = l /\ \A p \in Projects \ {q} : pc'[p] = pc[p]
  BY <1>1 DEF Shapes, GitGoto, Goto, Labels
<1>3. Shapes'
  BY <1>1, <1>2 DEF Outside, GitGoto, Shapes
<1>4. OthersKeep(q)
  BY <1>1, <1>2 DEF Outside, GitGoto, OthersKeep
<1>5. Dep(q)' = Dep(q) /\ Copy(q)' = Copy(q) /\ Top(q)' = Top(q)
  BY DepSame DEF GitGoto
<1>6. l # "idle" /\ l # "resolve" /\ l # "visit" /\ l # "lock"
  BY DEF GitLabels
<1>7. Where(q)'
  BY <1>1, <1>2, <1>5, <1>6 DEF Fits, Where, GitGoto
<1>8. Walks(q)' /\ Importable(q)'
  BY <1>1, <1>2, <1>6 DEF Fits, Walks, Importable, GitGoto
<1>9. ClonePin(q)' /\ OneClone(q)
  BY <1>2, <1>5 DEF ClonePin, OneClone
<1>10. GraphPins(q)'
  BY <1>1, GraphPinsStay DEF Fits, Outside, GitGoto
<1>11. Pins(q)'
  BY <1>9, <1>10 DEF Pins
<1> QED
  BY <1>3, <1>4, <1>7, <1>8, <1>9, <1>11 DEF Good, Fits, Outside


-----------------------------------------------------------------------------
(* The commands of git                                                      *)

\* What no command of git touches.
LEMMA OutsideIs ==
  ASSUME IInv, NEW q \in Projects, UNCHANGED <<toml, lock, remote>>, CopiesStay(q),
         cache' \in [Copies -> WorkingCopies \cup {None, Partial}]
  PROVE  Outside(q)
BY DEF IInv, Shapes, Outside

(* A copy that changes while all others are as they were.                   *)
LEMMA OneCopyChanges ==
  ASSUME IInv, NEW q \in Projects, NEW c \in Copies, NEW v,
         cache' = [cache EXCEPT ![c] = v],
         v \in WorkingCopies \cup {None, Partial},
         CopyStays(c), HeadStays(q, c), PartialStays(q, c)
  PROVE  /\ cache' \in [Copies -> WorkingCopies \cup {None, Partial}] /\ cache'[c] = v
         /\ CopiesStay(q)
<1>1. /\ cache' \in [Copies -> WorkingCopies \cup {None, Partial}] /\ cache'[c] = v
      /\ \A x \in Copies \ {c} : cache'[x] = cache[x]
  BY DEF IInv, Shapes
<1>2. \A x \in Copies \ {c} : CopyStays(x) /\ HeadStays(q, x) /\ PartialStays(q, x)
  BY <1>1 DEF CopyStays, HeadStays, PartialStays, Whole
<1> QED
  BY <1>1, <1>2 DEF CopiesStay

LEMMA CheckCacheIsGood ==
  ASSUME IInv, NEW q \in Projects, CheckCache(q)
  PROVE  Good(q)
<1>1. Shapes /\ pc[q] = "exists" /\ UNCHANGED <<toml, lock, remote, cache, result, local>>
  BY DEF IInv, CheckCache
<1>2. PICK l \in {"clone", "fetch", "rev_parse"} :
         Goto(q, l) /\ (l = "fetch" => Dep(q).rev # None) /\ (l = "rev_parse" => Dep(q).rev = None)
  BY DEF CheckCache
<1>3. GitGoto(q, l)
  BY <1>1, <1>2 DEF GitGoto, local, walk, Shapes
<1>4. Outside(q)
  <2>1. cache' \in [Copies -> WorkingCopies \cup {None, Partial}]
    BY <1>1 DEF Shapes
  <2> QED
    BY <1>1, <2>1, SameCopies, OutsideIs
<1>5. pc'[q] = l /\ Dep(q)' = Dep(q)
  BY <1>1, <1>2, DepSame DEF Goto, Shapes, local, walk
<1>6. HeadPin(q)' /\ CommitPin(q)'
  BY <1>2, <1>5 DEF HeadPin, CommitPin
<1> QED
  BY <1>1, <1>2, <1>3, <1>4, <1>6, GitGotoIsGood DEF GitLabels

LEMMA StartCloneIsGood ==
  ASSUME IInv, NEW q \in Projects, StartClone(q)
  PROVE  Good(q)
<1>1. /\ Shapes /\ pc[q] = "clone" /\ UNCHANGED <<toml, lock, remote, result, local>>
      /\ cache[Copy(q)] = None /\ cache' = [cache EXCEPT ![Copy(q)] = Partial]
      /\ Goto(q, "cloning")
  BY DEF IInv, StartClone
<1>0. Copy(q) \in Copies
  BY <1>1, DepIs DEF IInv, Fits, Where, GitLabels
<1>2. PICK c \in Copies : c = Copy(q)
  BY <1>0
<1>3. CopyStays(c) /\ HeadStays(q, c) /\ PartialStays(q, c)
  BY <1>1, <1>2, PackageAssumptions DEF CopyStays, HeadStays, PartialStays, Whole
<1>4. /\ cache' \in [Copies -> WorkingCopies \cup {None, Partial}] /\ cache'[c] = Partial
      /\ CopiesStay(q)
  BY <1>1, <1>2, <1>3, OneCopyChanges
<1>5. Outside(q)
  BY <1>1, <1>4, OutsideIs
<1>6. GitGoto(q, "cloning")
  BY <1>1 DEF GitGoto, local, walk, Shapes
<1>7. pc'[q] = "cloning"
  BY <1>1 DEF Goto, Shapes
<1>8. HeadPin(q)' /\ CommitPin(q)'
  BY <1>7 DEF HeadPin, CommitPin
<1> QED
  BY <1>1, <1>2, <1>4, <1>5, <1>6, <1>8, GitGotoIsGood DEF GitLabels

(* What git clone leaves is a working copy.                                 *)
LEMMA ClonedIs ==
  ASSUME Shapes, NEW u \in Urls
  PROVE  Cloned(u) \in WorkingCopies
<1>1. remote[u] \in [Refs -> Commits \cup {None}] /\ DefaultBranch \in Refs
  BY PackageAssumptions DEF Shapes, Refs
<1>2. remote[u][DefaultBranch] \in Commits
  BY <1>1 DEF Shapes
<1> QED
  BY <1>1, <1>2 DEF Cloned, WorkingCopies

LEMMA FinishCloneIsGood ==
  ASSUME IInv, NEW q \in Projects, FinishClone(q)
  PROVE  Good(q)
<1> DEFINE l == IF Dep(q).rev = None THEN "rev_parse" ELSE "checkout"
<1>1. /\ Shapes /\ Fits(q) /\ pc[q] = "cloning" /\ UNCHANGED <<toml, lock, remote, result, walk>>
      /\ cache' = [cache EXCEPT ![Copy(q)] = Cloned(Dep(q).url)]
      /\ Goto(q, l) /\ Disturb(q, Copy(q))
  BY DEF IInv, FinishClone
<1>0. Copy(q) \in Copies /\ Dep(q).url \in Urls
  BY <1>1, DepIs DEF IInv, Fits, Where, GitLabels
<1>2. PICK c \in Copies : c = Copy(q)
  BY <1>0
<1>3. Cloned(Dep(q).url) \in WorkingCopies
  BY <1>0, <1>1, ClonedIs
<1>4. cache[c] = Partial
  BY <1>1, <1>2 DEF Fits, Pins, ClonePin
<1>5. CopyStays(c) /\ HeadStays(q, c) /\ PartialStays(q, c)
  BY <1>1, <1>2, <1>4 DEF CopyStays, HeadStays, PartialStays, Whole
<1>6. cache' \in [Copies -> WorkingCopies \cup {None, Partial}] /\ CopiesStay(q)
  BY <1>1, <1>2, <1>3, <1>5, OneCopyChanges
<1>7. Outside(q)
  BY <1>1, <1>6, OutsideIs
<1>8. GitGoto(q, l)
  BY <1>1 DEF GitGoto, walk, Shapes, Disturb
<1>9. pc'[q] = l /\ Dep(q)' = Dep(q)
  BY <1>1, DepSame DEF Goto, Shapes, walk
<1>10. HeadPin(q)' /\ CommitPin(q)'
  BY <1>9 DEF HeadPin, CommitPin
<1>11. l \in {"rev_parse", "checkout"} /\ (l = "checkout" => Dep(q).rev # None)
  OBVIOUS
<1> HIDE DEF l
<1> QED
  BY <1>1, <1>7, <1>8, <1>10, <1>11, GitGotoIsGood DEF GitLabels

LEMMA CloneFailsIsGood ==
  ASSUME IInv, NEW q \in Projects, CloneFails(q)
  PROVE  Good(q)
<1>1. /\ Shapes /\ Fits(q) /\ UNCHANGED <<toml, lock, remote>> /\ Exit(q, "git")
      /\ pc[q] \in GitLabels
      /\ UNCHANGED cache \/ (pc[q] = "cloning" /\ cache' = [cache EXCEPT ![Copy(q)] = None])
  BY DEF IInv, CloneFails, GitLabels
<1>2. cache' \in [Copies -> WorkingCopies \cup {None, Partial}] /\ CopiesStay(q)
  <2>1. CASE UNCHANGED cache
    BY <1>1, <2>1, SameCopies DEF Shapes
  <2>2. CASE pc[q] = "cloning" /\ cache' = [cache EXCEPT ![Copy(q)] = None]
    <3>0. Copy(q) \in Copies /\ cache[Copy(q)] = Partial
      BY <1>1, <2>2, DepIs DEF Fits, Where, Pins, ClonePin
    <3>1. PICK c \in Copies : c = Copy(q)
      BY <3>0
    <3>2. CopyStays(c) /\ HeadStays(q, c) /\ PartialStays(q, c)
      BY <2>2, <3>0, <3>1 DEF CopyStays, HeadStays, PartialStays, Whole
    <3> QED
      BY <2>2, <3>1, <3>2, OneCopyChanges
  <2> QED
    BY <1>1, <2>1, <2>2
<1>3. Outside(q)
  BY <1>1, <1>2, OutsideIs
<1> QED
  BY <1>1, <1>3, ExitIsGood


LEMMA FetchIsGood ==
  ASSUME IInv, NEW q \in Projects, Fetch(q)
  PROVE  Good(q)
<1>1. /\ Shapes /\ Fits(q) /\ pc[q] = "fetch" /\ UNCHANGED <<toml, lock, remote, result, local>>
      /\ Goto(q, "checkout")
  BY DEF IInv, Fetch
<1>0. Copy(q) \in Copies /\ Dep(q).rev # None
  BY <1>1, DepIs DEF Fits, Where, GitLabels
<1>2. PICK c \in Copies : c = Copy(q)
  BY <1>0
<1>3. cache' \in [Copies -> WorkingCopies \cup {None, Partial}] /\ CopiesStay(q)
  <2>1. CASE UNCHANGED cache
    BY <1>1, <2>1, SameCopies DEF Shapes
  <2>2. CASE Whole(c) /\ cache' = [cache EXCEPT ![c].tracking = remote[cache[c].origin]]
    <3> DEFINE v == [cache[c] EXCEPT !.tracking = remote[cache[c].origin]]
    <3>1. cache[c] \in WorkingCopies
      BY <1>1, <1>2, <2>2, ManifestAtIs
    <3>2. remote[cache[c].origin] \in [Refs -> Commits \cup {None}]
      BY <1>1, <3>1 DEF Shapes, WorkingCopies
    <3>3. /\ v \in WorkingCopies /\ v.origin = cache[c].origin /\ v.head = cache[c].head
          /\ v.local = cache[c].local
      BY <3>1, <3>2 DEF WorkingCopies
    <3>4. cache' = [cache EXCEPT ![c] = v]
      BY <2>2
    <3> HIDE DEF v
    <3>5. cache'[c] = v
      BY <1>1, <1>2, <3>4 DEF Shapes
    <3>6. v # None /\ v # Partial
      BY <3>3, PackageAssumptions
    <3>7. CopyStays(c) /\ HeadStays(q, c) /\ PartialStays(q, c)
      BY <2>2, <3>3, <3>5, <3>6 DEF CopyStays, HeadStays, PartialStays, Whole
    <3> QED
      BY <1>2, <3>3, <3>4, <3>7, OneCopyChanges
  <2> QED
    BY <1>2, <2>1, <2>2 DEF Fetch
<1>4. Outside(q)
  BY <1>1, <1>3, OutsideIs
<1>5. GitGoto(q, "checkout")
  BY <1>1 DEF GitGoto, local, walk, Shapes
<1>6. pc'[q] = "checkout"
  BY <1>1 DEF Goto, Shapes
<1>7. HeadPin(q)' /\ CommitPin(q)'
  BY <1>6 DEF HeadPin, CommitPin
<1> QED
  BY <1>0, <1>1, <1>4, <1>5, <1>7, GitGotoIsGood DEF GitLabels

(* Only what a copy knows can be checked out, and what it has of its own    *)
(* stays where it is.                                                       *)
LEMMA RefCommitIs ==
  ASSUME Shapes, NEW c \in Copies, NEW r \in Refs, RefCommit(c, r) # None
  PROVE  /\ cache[c] \in WorkingCopies /\ Whole(c) /\ RefCommit(c, r) \in Commits
         /\ cache[c].local[r] # None => RefCommit(c, r) = cache[c].local[r]
<1>1. Whole(c)
  BY DEF RefCommit
<1>2. cache[c] \in WorkingCopies
  BY <1>1, ManifestAtIs
<1>3. cache[c].local[r] \in Commits \cup {None} /\ cache[c].tracking[r] \in Commits \cup {None}
  BY <1>2 DEF WorkingCopies
<1> QED
  BY <1>1, <1>2, <1>3 DEF RefCommit

LEMMA CheckoutIsGood ==
  ASSUME IInv, NEW q \in Projects, Checkout(q)
  PROVE  Good(q)
<1>1. /\ Shapes /\ Fits(q) /\ pc[q] = "checkout" /\ UNCHANGED <<toml, lock, remote>>
  BY DEF IInv, Checkout
<1>0. Copy(q) \in Copies /\ Dep(q).rev \in Refs
  BY <1>1, DepIs DEF Fits, Where, GitLabels
<1>2. PICK c \in Copies : c = Copy(q)
  BY <1>0
<1>5. PICK r \in Refs : r = Dep(q).rev
  BY <1>0
<1>6. PICK com : com = RefCommit(c, r)
  OBVIOUS
<1>3. CASE Exit(q, "git") /\ UNCHANGED cache
  <2>1. cache' \in [Copies -> WorkingCopies \cup {None, Partial}] /\ CopiesStay(q)
    BY <1>1, <1>3, SameCopies DEF Shapes
  <2>2. Outside(q)
    BY <1>1, <2>1, OutsideIs
  <2> QED
    BY <1>1, <1>3, <2>2, ExitIsGood
<1>4. CASE /\ com # None
           /\ cache' = [cache EXCEPT ![c].head = com, ![c].local[r] = com]
           /\ Goto(q, "rev_parse") /\ Disturb(q, c) /\ UNCHANGED <<result, walk>>
  <2> DEFINE v == [cache[c] EXCEPT !.head = com, !.local[r] = com]
  <2>1. /\ cache[c] \in WorkingCopies /\ Whole(c) /\ com \in Commits
        /\ cache[c].local[r] # None => com = cache[c].local[r]
    <3>1. RefCommit(c, r) # None
      BY <1>4, <1>6, Zenon
    <3> QED
      BY <1>1, <1>6, <3>1, RefCommitIs
  <2>2. cache' = [cache EXCEPT ![c] = v]
    <3>1. cache \in [Copies -> WorkingCopies \cup {None, Partial}]
      BY <1>1 DEF Shapes
    <3>2. cache' = [cache EXCEPT ![c].head = com, ![c].local[r] = com]
      BY <1>4, Zenon
    <3> QED
      BY <3>1, <3>2
  <2>3. cache[c].local \in [Refs -> Commits \cup {None}]
    BY <2>1 DEF WorkingCopies
  <2>4. /\ v \in WorkingCopies /\ v.origin = cache[c].origin /\ v.head = com
        /\ v.local = [cache[c].local EXCEPT ![r] = com]
    BY <1>2, <2>1, <2>3 DEF WorkingCopies
  <2>5. v.local[r] = com /\ \A x \in Refs : cache[c].local[x] # None => v.local[x] = cache[c].local[x]
    BY <1>2, <2>1, <2>3, <2>4
  <2> HIDE DEF v
  <2>6. v # None /\ v # Partial
    BY <2>4, PackageAssumptions
  <2>7. cache'[c] = v
    BY <1>1, <1>2, <2>2 DEF Shapes
  <2>8. \A p \in Projects \ {q} : c \in disturbed'[p]
    BY <1>4 DEF Disturb
  <2>9. CopyStays(c) /\ HeadStays(q, c) /\ PartialStays(q, c)
    BY <2>1, <2>4, <2>5, <2>6, <2>7, <2>8 DEF CopyStays, HeadStays, PartialStays, Whole
  <2>10. cache' \in [Copies -> WorkingCopies \cup {None, Partial}] /\ CopiesStay(q)
    BY <1>2, <2>2, <2>4, <2>9, OneCopyChanges
  <2>11. Outside(q)
    BY <1>1, <2>10, OutsideIs
  <2>12. GitGoto(q, "rev_parse")
    BY <1>1, <1>4 DEF GitGoto, walk, Shapes, Disturb
  <2>13. pc'[q] = "rev_parse" /\ Dep(q)' = Dep(q) /\ Copy(q)' = Copy(q)
    BY <1>1, <1>4, DepSame DEF Goto, Shapes, walk
  <2>14. CommitPin(q)'
    BY <2>13 DEF CommitPin
  <2>15. HeadPin(q)'
    <3>1. cache'[c].head = com /\ cache'[c].local[r] = com /\ Whole(c)'
      BY <2>4, <2>5, <2>6, <2>7 DEF Whole
    <3> QED
      BY <1>2, <1>5, <2>1, <2>13, <3>1 DEF HeadPin, Asked
  <2> QED
    BY <1>1, <2>11, <2>12, <2>14, <2>15, GitGotoIsGood DEF GitLabels
<1> QED
  BY <1>2, <1>3, <1>4, <1>5, <1>6 DEF Checkout

LEMMA RevParseHeadIsGood ==
  ASSUME IInv, NEW q \in Projects, RevParseHead(q)
  PROVE  Good(q)
<1>1. /\ Shapes /\ Fits(q) /\ pc[q] = "rev_parse" /\ UNCHANGED <<toml, lock, remote, cache>>
  BY DEF IInv, RevParseHead
<1>0. Copy(q) \in Copies /\ Dep(q).rev \in Refs \cup {None} /\ Dep(q).kind = "git"
  BY <1>1, DepIs DEF Fits, Where, GitLabels
<1>2. PICK c \in Copies : c = Copy(q)
  BY <1>0
<1>6. PICK r \in Refs \cup {None} : r = Dep(q).rev
  BY <1>0
<1>3. Outside(q)
  <2>1. cache' \in [Copies -> WorkingCopies \cup {None, Partial}] /\ CopiesStay(q)
    BY <1>1, SameCopies DEF Shapes
  <2> QED
    BY <1>1, <2>1, OutsideIs
<1>4. CASE Exit(q, "git")
  BY <1>1, <1>3, <1>4, ExitIsGood
<1>5. CASE /\ Whole(c) /\ commit' = [commit EXCEPT ![q] = cache[c].head] /\ Goto(q, "manifest")
           /\ UNCHANGED <<result, request, frames, resolved, first, disturbed>>
  <2>1. GitGoto(q, "manifest")
    BY <1>1, <1>5 DEF GitGoto, Shapes
  <2>2. /\ pc'[q] = "manifest" /\ Dep(q)' = Dep(q) /\ Copy(q)' = Copy(q)
        /\ commit'[q] = cache[c].head
    BY <1>1, <1>5, DepSame DEF Goto, Shapes
  <2>3. cache[c].head \in Commits
    BY <1>1, <1>2, <1>5, ManifestAtIs DEF WorkingCopies
  <2>4. r # None /\ c \notin disturbed[q] => Asked(c, r, cache[c].head)
    BY <1>1, <1>2, <1>6 DEF Fits, Pins, HeadPin
  <2>5. HeadPin(q)'
    BY <2>2 DEF HeadPin
  <2>6. CommitPin(q)'
    <3> SUFFICES ASSUME c \notin disturbed[q]
                 PROVE  (Asked(Copy(q), Dep(q).rev, commit[q]) /\ commit[q] = cache[Copy(q)].head)'
      BY <1>2, <1>5, <2>2 DEF CommitPin
    <3>1. r # None => r \in Refs /\ cache[c].local[r] = cache[c].head
      BY <2>4 DEF Asked
    <3>2. /\ cache'[Copy(q)'] = cache[c] /\ Whole(c)' /\ commit'[q] = cache[c].head
          /\ Dep(q)'.rev = r
      BY <1>1, <1>2, <1>5, <1>6, <2>2 DEF Whole
    <3> QED
      BY <1>2, <2>2, <2>3, <3>1, <3>2 DEF Asked, Whole
  <2> QED
    BY <1>1, <1>3, <2>1, <2>5, <2>6, GitGotoIsGood DEF GitLabels
<1> QED
  BY <1>2, <1>4, <1>5 DEF RevParseHead


-----------------------------------------------------------------------------
(* aint add, and the walk                                                   *)

LEMMA AddIsGood ==
  ASSUME IInv, NEW q \in Projects, NEW d \in Additions, Add(q, d)
  PROVE  Good(q)
<1> DEFINE l == IF d.kind = "git" THEN "exists" ELSE "manifest"
<1>1. /\ Shapes /\ Fits(q) /\ pc[q] = "idle" /\ toml[q] # None
      /\ request' = [request EXCEPT ![q] = d] /\ result' = [result EXCEPT ![q] = "none"]
      /\ Goto(q, l)
      /\ UNCHANGED <<toml, lock, remote, cache, frames, resolved, commit, first, disturbed>>
  BY DEF IInv, Add
<1>2. frames[q] = <<>> /\ resolved[q] = <<>>
  BY <1>1 DEF Fits, Where
<1>3. d \in Dependencies
  BY PackageAssumptions
<1>4. /\ pc' \in [Projects -> Labels] /\ pc'[q] = l /\ \A p \in Projects \ {q} : pc'[p] = pc[p]
  BY <1>1 DEF Shapes, Goto, Labels, GitLabels
<1>5. request'[q] = d /\ Dep(q)' = d
  BY <1>1, <1>2 DEF Shapes, Dep, Adding
<1>6. l # "idle" /\ l \in {"exists", "manifest"} /\ (l = "exists" => d.kind = "git")
      /\ (l = "manifest" => d.kind # "git")
  OBVIOUS
<1> HIDE DEF l
<1>7. Shapes'
  BY <1>1, <1>4 DEF Shapes
<1>8. OthersKeep(q)
  BY <1>1, <1>4 DEF OthersKeep, Shapes
<1>9. Where(q)' /\ Walks(q)' /\ Importable(q)'
  BY <1>1, <1>2, <1>3, <1>4, <1>5, <1>6 DEF Where, Walks, Importable, GitLabels
<1>10. DOMAIN resolved'[q] = {}
  BY <1>1, <1>2
<1>11. Pins(q)' /\ OneClone(q)
  BY <1>4, <1>5, <1>6, <1>10 DEF Pins, ClonePin, HeadPin, CommitPin, GraphPins, OneClone
<1> QED
  BY <1>1, <1>7, <1>8, <1>9, <1>11, SameCopies DEF Good, Fits

LEMMA WriteTomlIsGood ==
  ASSUME IInv, NEW q \in Projects, WriteToml(q)
  PROVE  Good(q)
<1> DEFINE m == ManifestAt(PlaceOf(request[q]))
<1>1. /\ Shapes /\ Fits(q) /\ pc[q] = "manifest" /\ Adding(q) /\ UNCHANGED <<lock, remote, cache>>
  BY DEF IInv, WriteToml
<1>2. /\ frames[q] = <<>> /\ resolved[q] = <<>> /\ request[q] \in Dependencies
      /\ toml[q] \in Manifests /\ q \in Dirs /\ Dep(q) = request[q]
  BY <1>1 DEF Fits, Where, Adding, Shapes, Dirs, Dep
<1>3. CopiesStay(q)
  BY <1>1, SameCopies
<1>4. CASE Exit(q, "manifest") /\ UNCHANGED toml
  <2>1. Outside(q)
    BY <1>1, <1>3, <1>4 DEF Outside, Shapes
  <2> QED
    BY <1>4, <2>1, ExitIsGood
<1>5. CASE /\ m # None /\ toml' = [toml EXCEPT ![q].deps = Extend(@, m.name, request[q])]
           /\ Goto(q, "resolve") /\ UNCHANGED <<result, local>>
  <2>1. PlaceOf(request[q]) \in Dirs \cup Copies
    BY <1>1, <1>2, DepIs
  <2>2. m \in Manifests
    BY <1>1, <1>5, <2>1, ManifestAtIs
  <2> DEFINE deps == Extend(toml[q].deps, m.name, request[q])
             new  == [toml[q] EXCEPT !.deps = deps]
  <2>3. /\ toml[q].name \in NameSet /\ DOMAIN toml[q].deps \in SUBSET NameSet
        /\ toml[q].deps \in [DOMAIN toml[q].deps -> Dependencies]
        /\ toml[q] = [name |-> toml[q].name, deps |-> toml[q].deps] /\ m.name \in NameSet
    BY <1>2, <2>2, ManifestParts
  <2>4. deps \in [DOMAIN toml[q].deps \cup {m.name} -> Dependencies]
    <3> HIDE DEF m
    <3> QED
      BY <1>2, <2>3 DEF Extend
  <2> HIDE DEF deps, m
  <2>5. new \in Manifests
    <3>1. new = [name |-> toml[q].name, deps |-> deps]
      BY <2>3
    <3>2. DOMAIN toml[q].deps \cup {m.name} \in SUBSET NameSet
      BY <2>3
    <3>3. [name |-> toml[q].name, deps |-> deps] \in Manifests
      BY <2>3, <2>4, <3>2, ManifestFrom
    <3> QED
      BY <3>1, <3>3
  <2>6. toml' = [toml EXCEPT ![q] = new]
    BY <1>5 DEF deps
  <2> HIDE DEF new
  <2>7. /\ toml' \in [Dirs -> Manifests \cup {None}] /\ toml'[q] \in Manifests
        /\ \A p \in Dirs \ {q} : toml'[p] = toml[p]
    BY <1>1, <1>2, <2>5, <2>6 DEF Shapes
  <2>8. toml[q] # None /\ toml'[q] # None
    BY <1>2, <2>7, PackageAssumptions
  <2>9. pc' \in [Projects -> Labels] /\ pc'[q] = "resolve" /\ \A p \in Projects \ {q} : pc'[p] = pc[p]
    BY <1>1, <1>5 DEF Shapes, Goto, Labels
  <2>10. UNCHANGED <<result, request, frames, resolved, first, commit, disturbed>>
    BY <1>5 DEF local, walk
  <2>11. Shapes'
    BY <1>1, <2>7, <2>9, <2>10 DEF Shapes
  <2>12. OthersKeep(q)
    BY <1>1, <2>7, <2>9, <2>10 DEF OthersKeep, Dirs
  <2>13. Where(q)' /\ Walks(q)' /\ Importable(q)'
    BY <1>2, <2>8, <2>9, <2>10 DEF Where, Walks, Importable, GitLabels
  <2>14. DOMAIN resolved'[q] = {}
    BY <1>2, <2>10
  <2>15. Pins(q)' /\ OneClone(q)
    BY <2>9, <2>14 DEF Pins, ClonePin, HeadPin, CommitPin, GraphPins, OneClone
  <2> QED
    BY <1>3, <2>11, <2>12, <2>13, <2>15 DEF Good, Fits
<1> QED
  BY <1>4, <1>5 DEF WriteToml


(* A step of the walk changes what q knows, and nothing of the world.       *)
WalkGoto(q, l) ==
  /\ Goto(q, l) /\ UNCHANGED <<toml, lock, remote, cache, result, request, disturbed>>
  /\ DOMAIN commit' = Projects /\ DOMAIN frames' = Projects
  /\ DOMAIN resolved' = Projects /\ DOMAIN first' = Projects
  /\ \A p \in Projects \ {q} :
       /\ commit'[p] = commit[p] /\ frames'[p] = frames[p]
       /\ resolved'[p] = resolved[p] /\ first'[p] = first[p]

LEMMA WalkGotoIsGood ==
  ASSUME IInv, NEW q \in Projects, pc[q] # "idle",
         NEW l \in {"visit", "lock", "exists", "manifest"}, WalkGoto(q, l),
         frames'[q] # <<>>, Walked(frames'[q], resolved'[q], first'[q], toml[q]),
         l \in {"exists", "manifest"} => Top(q)'.todo # {},
         l = "exists" => Dep(q)'.kind = "git",
         l = "manifest" => Dep(q)'.kind # "git",
         l = "lock" => Top(q)'.todo = {} /\ Len(frames'[q]) = 1,
         GraphPins(q)'
  PROVE  Good(q)
<1>1. Shapes /\ Fits(q)
  BY DEF IInv
<1>2. pc' \in [Projects -> Labels] /\ pc'[q] = l /\ \A p \in Projects \ {q} : pc'[p] = pc[p]
  BY <1>1 DEF WalkGoto, Shapes, Goto, Labels, GitLabels
<1>3. Shapes'
  BY <1>1, <1>2 DEF WalkGoto, Shapes
<1>4. OthersKeep(q)
  BY <1>1, <1>2 DEF WalkGoto, OthersKeep
<1>5. CopiesStay(q)
  BY <1>1, SameCopies DEF WalkGoto
<1>6. toml'[q] = toml[q] /\ toml[q] # None
  BY <1>1 DEF WalkGoto, Fits, Where
<1>7. l = "visit" \/ l = "lock" \/ l = "exists" \/ l = "manifest"
  OBVIOUS
<1>8. Where(q)'
  BY <1>2, <1>6, <1>7 DEF Where, GitLabels
<1>9. Walks(q)' /\ Importable(q)'
  BY <1>2, <1>6, <1>7 DEF Walks, Importable
<1>10. Pins(q)' /\ OneClone(q)
  BY <1>2, <1>7 DEF Pins, ClonePin, HeadPin, CommitPin, OneClone
<1> QED
  BY <1>3, <1>4, <1>5, <1>8, <1>9, <1>10 DEF Good, Fits

LEMMA ResolveIsGood ==
  ASSUME IInv, NEW q \in Projects, Resolve(q)
  PROVE  Good(q)
<1> DEFINE entry  == [path |-> None, source |-> None]
           walked == [manifest |-> toml[q], dep |-> None]
<1>1. /\ Shapes /\ Fits(q) /\ pc[q] = "resolve" /\ Goto(q, "visit")
      /\ frames' = [frames EXCEPT ![q] = <<Frame(toml[q])>>]
      /\ resolved' = [resolved EXCEPT ![q] = Extend(<<>>, toml[q].name, entry)]
      /\ first' = [first EXCEPT ![q] = Extend(<<>>, toml[q].name, walked)]
      /\ UNCHANGED <<toml, lock, remote, cache, result, request, commit, disturbed>>
  BY DEF IInv, Resolve
<1>2. toml[q] \in Manifests
  BY <1>1 DEF Fits, Where, Shapes, Dirs
<1>3. /\ frames'[q] = <<Frame(toml[q])>> /\ frames'[q] # <<>>
      /\ resolved'[q] = Extend(<<>>, toml[q].name, entry)
      /\ first'[q] = Extend(<<>>, toml[q].name, walked)
  BY <1>1 DEF Shapes
<1>4. walked.manifest = toml[q] /\ entry.source = None
  OBVIOUS
<1>5. DOMAIN resolved'[q] = {toml[q].name} /\ resolved'[q][toml[q].name] = entry
  BY <1>3 DEF Extend
<1> HIDE DEF entry, walked
<1>6. Walked(frames'[q], resolved'[q], first'[q], toml[q])
  BY <1>2, <1>3, <1>4, Begins
<1>7. GraphPins(q)'
  BY <1>4, <1>5 DEF GraphPins, Pinned
<1>8. WalkGoto(q, "visit")
  BY <1>1 DEF WalkGoto, Shapes
<1> QED
  BY <1>1, <1>3, <1>6, <1>7, <1>8, WalkGotoIsGood

LEMMA WriteLockIsGood ==
  ASSUME IInv, NEW q \in Projects, WriteLock(q)
  PROVE  Good(q)
<1>1. /\ Shapes /\ Fits(q) /\ pc[q] = "lock" /\ lock' = [lock EXCEPT ![q] = resolved[q]]
      /\ Exit(q, "added") /\ UNCHANGED <<toml, remote, cache>>
  BY DEF IInv, WriteLock
<1>2. /\ frames[q] # <<>> /\ Top(q).todo = {} /\ Len(frames[q]) = 1
      /\ Walked(frames[q], resolved[q], first[q], toml[q])
  BY <1>1 DEF Fits, Where, Walks
<1>3. AtPlaces(resolved[q], toml[q].deps, DOMAIN toml[q].deps)
  <2> DEFINE root == toml[q].name
             re   == resolved[q]
             fi   == first[q]
  <2>1. /\ \A n \in DOMAIN re : AtPlaces(re, Needs(fi, n), DOMAIN Needs(fi, n))
        /\ root \in DOMAIN re /\ Needs(fi, root) = toml[q].deps
    BY <1>2, Ends DEF Top
  <2> QED
    BY <2>1
<1>4. /\ lock'[q] = resolved[q] /\ toml'[q] = toml[q] /\ DOMAIN lock' = Projects
      /\ \A p \in Projects \ {q} : lock'[p] = lock[p]
  BY <1>1 DEF Shapes
<1>5. Outside(q)
  BY <1>1, <1>4, SameCopies DEF Outside, Shapes
<1> QED
  BY <1>1, <1>3, <1>4, <1>5, ExitIsGood

LEMMA VisitIsGood ==
  ASSUME IInv, NEW q \in Projects, Visit(q)
  PROVE  Good(q)
<1>1. /\ Shapes /\ Fits(q) /\ pc[q] = "visit"
      /\ UNCHANGED <<toml, lock, remote, cache, result, request, resolved, first, disturbed>>
  BY DEF IInv, Visit
<1>2. /\ frames[q] # <<>> /\ frames[q] \in Seq(FrameSet)
      /\ Walked(frames[q], resolved[q], first[q], toml[q])
  BY <1>1 DEF Fits, Where, Walks, Walked, Trail
<1>3. GraphPins(q)'
  BY <1>1, SameCopies, GraphPinsStay DEF Fits
<1>4. CASE /\ Top(q).todo # {} /\ commit' = [commit EXCEPT ![q] = None]
           /\ Goto(q, IF Dep(q).kind = "git" THEN "exists" ELSE "manifest") /\ UNCHANGED frames
  <2>1. Dep(q)' = Dep(q) /\ Top(q)' = Top(q)
    BY <1>1, <1>4, DepSame
  <2>2. PICK l \in {"exists", "manifest"} :
           /\ Goto(q, l) /\ (l = "exists" => Dep(q).kind = "git")
           /\ (l = "manifest" => Dep(q).kind # "git")
    BY <1>4
  <2>3. WalkGoto(q, l)
    BY <1>1, <1>4, <2>2 DEF WalkGoto, Shapes
  <2> QED
    BY <1>1, <1>2, <1>3, <1>4, <2>1, <2>2, <2>3, WalkGotoIsGood
<1>5. CASE /\ Top(q).todo = {} /\ Len(frames[q]) > 1
           /\ frames' = [frames EXCEPT ![q] = SubSeq(@, 1, Len(@) - 1)]
           /\ UNCHANGED <<pc, commit>>
  <2>1. frames'[q] = SubSeq(frames[q], 1, Len(frames[q]) - 1)
    BY <1>1, <1>5 DEF Shapes
  <2>2. Walked(frames'[q], resolved'[q], first'[q], toml[q])
    BY <1>1, <1>2, <1>5, <2>1, Leaves DEF Top
  <2>3. frames'[q] # <<>>
    BY <2>2 DEF Walked, Trail
  <2>4. WalkGoto(q, "visit")
    BY <1>1, <1>5 DEF WalkGoto, Shapes, Goto
  <2> QED
    BY <1>1, <1>3, <2>2, <2>3, <2>4, WalkGotoIsGood
<1>6. CASE /\ Top(q).todo = {} /\ Len(frames[q]) = 1 /\ Goto(q, "lock")
           /\ UNCHANGED <<frames, commit>>
  <2>1. Top(q)' = Top(q)
    BY <1>1, <1>6, DepSame
  <2>2. WalkGoto(q, "lock")
    BY <1>1, <1>6 DEF WalkGoto, Shapes
  <2> QED
    BY <1>1, <1>2, <1>3, <1>6, <2>1, <2>2, WalkGotoIsGood
<1> QED
  BY <1>4, <1>5, <1>6 DEF Visit

LEMMA ReadManifestIsGood ==
  ASSUME IInv, NEW q \in Projects, ReadManifest(q)
  PROVE  Good(q)
<1> DEFINE m == ManifestAt(PlaceOf(Dep(q)))
           n == DepName(q)
<1>1. /\ Shapes /\ Fits(q) /\ pc[q] = "manifest" /\ ~Adding(q)
      /\ UNCHANGED <<toml, lock, remote, cache>>
  BY DEF IInv, ReadManifest
<1>2. /\ frames[q] # <<>> /\ frames[q] \in Seq(FrameSet)
      /\ Walked(frames[q], resolved[q], first[q], toml[q])
      /\ n \in frames[q][Len(frames[q])].todo
      /\ Dep(q) = frames[q][Len(frames[q])].deps[n]
      /\ PlaceOf(Dep(q)) \in Dirs \cup Copies
  <2>1. PlaceOf(Dep(q)) \in Dirs \cup Copies
    BY <1>1, DepIs
  <2> QED
    BY <1>1, <2>1, DepIs DEF Adding, Walked, Trail, Top
<1>3. CopiesStay(q)
  BY <1>1, SameCopies
<1>4. ASSUME NEW r, r # "added", Exit(q, r)
      PROVE  Good(q)
  <2>1. Outside(q)
    BY <1>1, <1>3 DEF Outside, Shapes
  <2> QED
    BY <1>4, <2>1, ExitIsGood
<1>5. CASE m # None /\ m.name = n /\ ~OnStack(q, n) /\ n \in DOMAIN resolved[q]
           /\ SamePath(q, n) /\ Skip(q)
  <2>1. frames'[q] = Without(frames[q], n)
    BY <1>1, <1>5 DEF Skip, Rest, Without, Shapes
  <2>2. n \notin OnTrail(frames[q])
    BY <1>5 DEF OnStack, OnTrail
  <2>3. UNCHANGED <<result, request, resolved, first, commit, disturbed>> /\ Goto(q, "visit")
    BY <1>5 DEF Skip
  <2>4. Walked(frames'[q], resolved'[q], first'[q], toml[q])
    BY <1>2, <1>5, <2>1, <2>2, <2>3, Skips DEF SamePath
  <2>5. frames'[q] # <<>>
    BY <2>4 DEF Walked, Trail
  <2>6. WalkGoto(q, "visit")
    BY <1>1, <1>5, <2>3 DEF WalkGoto, Skip, Shapes
  <2>7. GraphPins(q)'
    BY <1>1, <1>3, <2>3, GraphPinsStay DEF Fits
  <2> QED
    BY <1>1, <2>4, <2>5, <2>6, <2>7, WalkGotoIsGood
<1>6. CASE m # None /\ m.name = n /\ n \notin DOMAIN resolved[q] /\ Descend(q, m)
  <2> DEFINE entry  == [path |-> PlaceOf(Dep(q)), source |-> Source(q)]
             walked == [manifest |-> m, dep |-> Dep(q)]
  <2>1. m \in Manifests
    BY <1>1, <1>2, <1>6, ManifestAtIs
  <2>2. /\ frames'[q] = Append(Without(frames[q], n), Frame(m))
        /\ resolved'[q] = Extend(resolved[q], n, entry)
        /\ first'[q] = Extend(first[q], n, walked)
    BY <1>1, <1>6 DEF Descend, Rest, Without, Shapes
  <2>3. Enters(frames[q], resolved[q], n, m, entry, walked)
    BY <1>2, <1>6, <2>1 DEF Enters
  <2>4. Walked(frames'[q], resolved'[q], first'[q], toml[q])
    <3> HIDE DEF m, n, entry, walked
    <3> QED
      BY <1>2, <2>2, <2>3, Descends
  <2>5. frames'[q] # <<>>
    BY <2>4 DEF Walked, Trail
  <2>6. WalkGoto(q, "visit")
    BY <1>1, <1>6 DEF WalkGoto, Descend, Shapes
  <2>7. GraphPins(q)'
    <3>1. UNCHANGED <<cache, disturbed>>
      BY <1>1, <1>6 DEF Descend
    <3>2. Pinned(entry.path, entry.source, walked, disturbed[q])
      <4> SUFFICES ASSUME Source(q) # None, PlaceOf(Dep(q)) \notin disturbed[q]
                   PROVE  /\ PlaceOf(Dep(q)) \in Copies
                          /\ Asked(PlaceOf(Dep(q)), Dep(q).rev, Source(q).commit)
                          /\ m = GitManifest(cache[PlaceOf(Dep(q))].origin, Source(q).commit)
        BY DEF Pinned
      <4>1. Dep(q).kind = "git" /\ Source(q).commit = commit[q]
        BY <1>1, DepIs DEF Source
      <4>2. PlaceOf(Dep(q)) = Copy(q) /\ Copy(q) \in Copies
        BY <1>1, <4>1, DepIs
      <4>3. Asked(Copy(q), Dep(q).rev, commit[q]) /\ commit[q] = cache[Copy(q)].head
        BY <1>1, <4>1, <4>2 DEF Fits, Pins, CommitPin
      <4>4. m = GitManifest(cache[Copy(q)].origin, cache[Copy(q)].head)
        BY <1>1, <1>6, <4>2, ManifestAtIs
      <4> QED
        BY <4>1, <4>2, <4>3, <4>4
    <3>3. DOMAIN first[q] = DOMAIN resolved[q]
      BY <1>2 DEF Walked, Trail
    <3> HIDE DEF m, n, entry, walked
    <3>4. /\ DOMAIN resolved'[q] = DOMAIN resolved[q] \cup {n}
          /\ resolved'[q][n] = entry /\ first'[q][n] = walked
          /\ \A x \in DOMAIN resolved[q] : resolved'[q][x] = resolved[q][x] /\ first'[q][x] = first[q][x]
      BY <1>6, <2>2, <3>3 DEF Extend
    <3>5. \A x \in DOMAIN resolved[q] :
            Pinned(resolved[q][x].path, resolved[q][x].source, first[q][x], disturbed[q])
      BY <1>1 DEF Fits, Pins, GraphPins
    <3>6. ASSUME NEW x \in DOMAIN resolved'[q]
          PROVE  Pinned(resolved'[q][x].path, resolved'[q][x].source, first'[q][x], disturbed[q])
      BY <3>2, <3>4, <3>5
    <3> QED
      BY <3>1, <3>6 DEF GraphPins, Pinned, Asked, Whole
  <2> QED
    BY <1>1, <2>4, <2>5, <2>6, <2>7, WalkGotoIsGood
<1> QED
  BY <1>4, <1>5, <1>6 DEF ReadManifest, Decide


LEMMA KillIsGood ==
  ASSUME IInv, NEW q \in Projects, Kill(q)
  PROVE  Good(q)
<1>1. Shapes /\ Fits(q) /\ pc[q] # "idle" /\ Exit(q, "killed") /\ UNCHANGED remote
  BY DEF IInv, Kill
<1>2. /\ toml' \in [Dirs -> Manifests \cup {None}] /\ DOMAIN lock' = Projects
      /\ \A p \in Projects \ {q} : toml'[p] = toml[p] /\ lock'[p] = lock[p]
  <2>1. CASE UNCHANGED <<toml, lock>>
    BY <1>1, <2>1 DEF Shapes
  <2>2. CASE toml' = [toml EXCEPT ![q] = None] /\ UNCHANGED lock
    BY <1>1, <2>2 DEF Shapes, Dirs
  <2>3. CASE lock' = [lock EXCEPT ![q] = None] /\ UNCHANGED toml
    BY <1>1, <2>3 DEF Shapes
  <2> QED
    BY <2>1, <2>2, <2>3 DEF Kill
<1>3. cache' \in [Copies -> WorkingCopies \cup {None, Partial}] /\ CopiesStay(q)
  <2>1. CASE UNCHANGED cache
    BY <1>1, <2>1, SameCopies DEF Shapes
  <2>2. CASE /\ pc[q] = "cloning"
             /\ \E c \in {None, Cloned(Dep(q).url)} : cache' = [cache EXCEPT ![Copy(q)] = c]
    <3>1. Copy(q) \in Copies /\ Dep(q).url \in Urls /\ cache[Copy(q)] = Partial
      BY <1>1, <2>2, DepIs DEF Fits, Where, Pins, ClonePin, GitLabels
    <3>2. PICK c \in Copies : c = Copy(q)
      BY <3>1
    <3>3. PICK v \in WorkingCopies \cup {None} : cache' = [cache EXCEPT ![c] = v]
      BY <1>1, <2>2, <3>1, <3>2, ClonedIs
    <3>4. CopyStays(c) /\ HeadStays(q, c) /\ PartialStays(q, c)
      BY <2>2, <3>1, <3>2 DEF CopyStays, HeadStays, PartialStays, Whole
    <3> QED
      BY <3>3, <3>4, OneCopyChanges
  <2> QED
    BY <2>1, <2>2 DEF Kill
<1>4. Outside(q)
  BY <1>1, <1>2, <1>3 DEF Outside
<1> QED
  BY <1>1, <1>4, ExitIsGood

(* What nobody looks at may change: a remote, the bounds, or nothing.       *)
LEMMA NobodyMoves ==
  ASSUME IInv, UNCHANGED <<toml, lock, cache, pc, result, local>>,
         remote' \in [Urls -> [Refs -> Commits \cup {None}]],
         \A u \in Urls : remote'[u][DefaultBranch] # None
  PROVE  IInv'
<1>1. UNCHANGED <<toml, lock, cache, pc, result, request, frames, resolved, commit, first, disturbed>>
  BY DEF local, walk
<1>2. Shapes'
  BY <1>1 DEF IInv, Shapes
<1>3. \A p \in Projects : Dep(p)' = Dep(p) /\ Copy(p)' = Copy(p) /\ Top(p)' = Top(p)
  BY <1>1, DepSame
<1>4. Exclusive'
  BY <1>1, <1>3 DEF IInv, Exclusive
<1>5. ASSUME NEW p \in Projects
      PROVE  Fits(p)'
  <2>1. Fits(p)
    BY DEF IInv
  <2>2. Where(p)' /\ Walks(p)' /\ Importable(p)'
    BY <1>1, <1>3, <2>1 DEF Fits, Where, Walks, Importable, AtPlaces
  <2>3. GraphPins(p)'
    BY <1>1, <2>1 DEF Fits, Pins, GraphPins, Pinned, Asked, Whole
  <2>4. ClonePin(p)' /\ HeadPin(p)' /\ CommitPin(p)'
    BY <1>1, <1>3, <2>1 DEF Fits, Pins, ClonePin, HeadPin, CommitPin, Asked, Whole
  <2> QED
    BY <2>2, <2>3, <2>4 DEF Fits, Pins
<1> QED
  BY <1>2, <1>4, <1>5 DEF IInv

LEMMA PushIsGood ==
  ASSUME IInv, NEW u \in Urls, NEW b \in Branches, NEW c \in Commits, Push(u, b, c)
  PROVE  IInv'
<1>1. /\ remote' = [remote EXCEPT ![u][b] = c] /\ b \in Refs
      /\ UNCHANGED <<toml, lock, cache, pc, result, local>>
      /\ remote \in [Urls -> [Refs -> Commits \cup {None}]]
      /\ \A x \in Urls : remote[x][DefaultBranch] # None
  BY DEF Push, IInv, Shapes, Refs
<1>2. DefaultBranch \in Refs /\ c # None
  BY PackageAssumptions DEF Refs
<1>3. remote' \in [Urls -> [Refs -> Commits \cup {None}]]
  BY <1>1
<1>4. \A x \in Urls : remote'[x][DefaultBranch] # None
  BY <1>1, <1>2
<1> QED
  BY <1>1, <1>3, <1>4, NobodyMoves

-----------------------------------------------------------------------------
LEMMA InitIsGood == Init => IInv
<1> SUFFICES ASSUME Init PROVE IInv
  OBVIOUS
<1>1. Shapes
  <2>1. remote \in [Urls -> [Refs -> Commits \cup {None}]] /\ \A u \in Urls : remote[u][DefaultBranch] # None
    BY PackageAssumptions DEF Init
  <2>2. toml \in [Dirs -> Manifests \cup {None}]
    BY PackageAssumptions DEF Init
  <2>3. cache \in [Copies -> WorkingCopies \cup {None, Partial}] /\ pc \in [Projects -> Labels]
    BY DEF Init, Labels
  <2> QED
    BY <2>1, <2>2, <2>3 DEF Shapes, Init
<1>2. \A p \in Projects : /\ pc[p] = "idle" /\ frames[p] = <<>> /\ resolved[p] = <<>>
                          /\ result[p] = "none"
  BY DEF Init
<1>3. Exclusive
  BY <1>2 DEF Exclusive
<1>4. ASSUME NEW p \in Projects
      PROVE  Fits(p)
  <2>1. Where(p) /\ Walks(p) /\ Importable(p)
    BY <1>2 DEF Where, Walks, Importable, GitLabels
  <2>2. DOMAIN resolved[p] = {}
    BY <1>2
  <2>3. Pins(p)
    BY <1>2, <2>2 DEF Pins, ClonePin, HeadPin, CommitPin, GraphPins
  <2> QED
    BY <2>1, <2>3 DEF Fits
<1> QED
  BY <1>1, <1>3, <1>4 DEF IInv

LEMMA NextIsGood == IInv /\ [Next]_vars => IInv'
<1> SUFFICES ASSUME IInv, [Next]_vars PROVE IInv'
  OBVIOUS
<1>1. ASSUME NEW p \in Projects, Step(p)
      PROVE  IInv'
  <2>1. CASE Materialize(p)
    BY <2>1, CheckCacheIsGood, StartCloneIsGood, FinishCloneIsGood, CloneFailsIsGood, FetchIsGood,
       CheckoutIsGood, RevParseHeadIsGood, GoodIsEnough DEF Materialize
  <2>2. CASE WriteToml(p) \/ Resolve(p) \/ WriteLock(p)
    BY <2>2, WriteTomlIsGood, ResolveIsGood, WriteLockIsGood, GoodIsEnough
  <2>3. CASE Visit(p) \/ ReadManifest(p)
    BY <2>3, VisitIsGood, ReadManifestIsGood, GoodIsEnough
  <2> QED
    BY <1>1, <2>1, <2>2, <2>3 DEF Step
<1>2. ASSUME NEW p \in Projects, Kill(p)
      PROVE  IInv'
  BY <1>2, KillIsGood, GoodIsEnough
<1>3. ASSUME NEW p \in Projects, NEW d \in Additions, Add(p, d)
      PROVE  IInv'
  BY <1>3, AddIsGood, GoodIsEnough
<1>4. ASSUME NEW u \in Urls, NEW b \in Branches, NEW c \in Commits, Push(u, b, c)
      PROVE  IInv'
  BY <1>4, PushIsGood
<1>5. CASE UNCHANGED vars
  BY <1>5, NobodyMoves DEF vars, IInv, Shapes
<1> QED
  BY <1>1, <1>2, <1>3, <1>4, <1>5 DEF Next

LEMMA Inductive == Spec => []IInv
BY InitIsGood, NextIsGood, PTL DEF Spec

(* What a walk that is about to be locked has found.                        *)
LEMMA Locked ==
  ASSUME IInv, NEW p \in Projects, pc[p] = "lock"
  PROVE  /\ \A n \in DOMAIN resolved[p] :
              /\ first[p][n].manifest.name = n
              /\ AtPlaces(resolved[p], Needs(first[p], n), DOMAIN Needs(first[p], n))
         /\ first[p][toml[p].name].manifest = toml[p]
         /\ \A S \in SUBSET DOMAIN resolved[p] : S # {} =>
              /\ \E n \in S : DOMAIN Needs(first[p], n) \cap S = {}
              /\ \/ toml[p].name \in S
                 \/ \E n \in DOMAIN resolved[p] \ S : DOMAIN Needs(first[p], n) \cap S # {}
<1>1. /\ frames[p] # <<>> /\ Top(p).todo = {} /\ Len(frames[p]) = 1
      /\ Walked(frames[p], resolved[p], first[p], toml[p])
  BY DEF IInv, Fits, Where, Walks
<1>2. frames[p][Len(frames[p])].todo = {}
  BY <1>1 DEF Top
<1> QED
  BY <1>1, <1>2, Ends

(* The graph that `aint add` is about to lock is closed: every package of   *)
(* it has each dependency of its manifest, under the name and at the place  *)
(* the manifest declared (visit, resolve.rs), whatever other processes do   *)
(* to the working copies meanwhile.                                         *)
THEOREM LockedGraphsAreClosed == Spec => []GraphClosed
<1>1. IInv => GraphClosed
  <2> SUFFICES ASSUME IInv, NEW p \in Projects, pc[p] = "lock", NEW n \in DOMAIN resolved[p],
                      NEW d \in DOMAIN Deps(p, n)
               PROVE  d \in DOMAIN resolved[p] /\ resolved[p][d].path = PlaceOf(Deps(p, n)[d])
    BY Locked DEF GraphClosed
  <2>1. AtPlaces(resolved[p], Needs(first[p], n), DOMAIN Needs(first[p], n))
    BY Locked
  <2> QED
    BY <2>1 DEF AtPlaces, Needs, Deps
<1> QED
  BY <1>1, Inductive, PTL

(* The graph that is locked has no cycle, and no part that the project does *)
(* not need: the stack of visit refuses the one, and what is entered is a   *)
(* dependency of what is in the graph.                                      *)
THEOREM LockedGraphsAreRooted == Spec => []GraphRooted
<1>1. IInv => GraphRooted
  <2> SUFFICES ASSUME IInv, NEW p \in Projects, pc[p] = "lock",
                      NEW S \in SUBSET DOMAIN resolved[p], S # {}
               PROVE  /\ \E n \in S : DOMAIN Deps(p, n) \cap S = {}
                      /\ first[p][toml[p].name].manifest = toml[p]
                      /\ \/ toml[p].name \in S
                         \/ \E n \in DOMAIN resolved[p] \ S : DOMAIN Deps(p, n) \cap S # {}
    BY DEF GraphRooted
  <2>1. \A n : Deps(p, n) = Needs(first[p], n)
    BY DEF Deps, Needs
  <2> QED
    BY <2>1, Locked
<1> QED
  BY <1>1, Inductive, PTL

(* Unless another process changed the working copy meanwhile, the commit in *)
(* the graph is the one that was asked for, and what was walked is what the *)
(* package depends on at that commit: checkout, rev_parse_head and the      *)
(* reading of the manifest are three steps, and only a process of its own   *)
(* comes between them.                                                      *)
THEOREM PinsAreHonoured == Spec => []PinsHonoured
<1>1. IInv => PinsHonoured
  <2> SUFFICES ASSUME IInv, NEW p \in Projects, NEW n \in DOMAIN resolved[p]
               PROVE  LET place == resolved[p][n].path
                          source == resolved[p][n].source
                      IN  source # None /\ place \notin disturbed[p] =>
                            /\ first[p][n].manifest = GitManifest(cache[place].origin, source.commit)
                            /\ first[p][n].dep.rev # None =>
                                 source.commit = cache[place].local[first[p][n].dep.rev]
    BY DEF PinsHonoured
  <2>1. Pinned(resolved[p][n].path, resolved[p][n].source, first[p][n], disturbed[p])
    BY DEF IInv, Fits, Pins, GraphPins
  <2> QED
    BY <2>1 DEF Pinned, Asked
<1> QED
  BY <1>1, Inductive, PTL

(* After an `aint add` that reports success aint.lock has every dependency  *)
(* of aint.toml, the new one and the old ones, at the place aint.toml says: *)
(* nothing between the writing of the two files loses one.                  *)
THEOREM WhatIsAddedIsImportable == Spec => []AddedIsImportable
<1>1. IInv => AddedIsImportable
  BY DEF IInv, Fits, Importable, AtPlaces, AddedIsImportable
<1> QED
  BY <1>1, Inductive, PTL


=============================================================================
