----------------------------- MODULE CallBudget -----------------------------
(***************************************************************************)
(* What the runtime promises about model calls, without saying how.        *)
(*                                                                         *)
(* Work is done in sessions: the top-level statements of the program are   *)
(* the first one, every request served afterwards is another.  A session   *)
(* makes model calls one at a time.  A call either completes and is        *)
(* counted, or is abandoned, which ends its session.  Once a limit is      *)
(* declared no call begins when the count has reached it.                  *)
(*                                                                         *)
(* InferenceRuntime implements this module (its property                   *)
(* ImplementsCallBudget).                                                  *)
(***************************************************************************)
EXTENDS Integers, TLAPS

CONSTANT NoLimit            \* "no max_model_calls": not a number

VARIABLES
  limit,      \* the declared max_model_calls, or NoLimit
  sessions,   \* sessions opened so far
  open,       \* TRUE while a session may still begin calls
  busy,       \* TRUE while a call is in flight
  calls,      \* calls completed, and counted against the limit
  issued      \* calls begun

vars == <<limit, sessions, open, busy, calls, issued>>

LimitReached == limit # NoLimit /\ calls >= limit

-----------------------------------------------------------------------------
Init ==
  /\ limit = NoLimit
  /\ sessions = 1
  /\ open = TRUE
  /\ busy = FALSE
  /\ calls = 0
  /\ issued = 0

Open ==
  /\ ~open /\ ~busy
  /\ open' = TRUE
  /\ sessions' = sessions + 1
  /\ UNCHANGED <<limit, busy, calls, issued>>

Declare ==
  /\ open /\ ~busy
  /\ limit = NoLimit
  /\ limit' \in Nat
  /\ UNCHANGED <<sessions, open, busy, calls, issued>>

Begin ==
  /\ open /\ ~busy
  /\ ~LimitReached
  /\ busy' = TRUE
  /\ issued' = issued + 1
  /\ UNCHANGED <<limit, sessions, open, calls>>

\* The call completed; what came back may also end the session.
Complete ==
  /\ busy
  /\ busy' = FALSE
  /\ calls' = calls + 1
  /\ open' \in {open, FALSE}
  /\ UNCHANGED <<limit, sessions, issued>>

\* The caller stopped waiting.  The call is never counted.
Abandon ==
  /\ busy
  /\ busy' = FALSE
  /\ open' = FALSE
  /\ UNCHANGED <<limit, sessions, calls, issued>>

Close ==
  /\ open /\ ~busy
  /\ open' = FALSE
  /\ UNCHANGED <<limit, sessions, busy, calls, issued>>

Next ==
  \/ Open
  \/ Declare
  \/ Begin
  \/ Complete
  \/ Abandon
  \/ Close

Spec == Init /\ [][Next]_vars

-----------------------------------------------------------------------------
TypeOK ==
  /\ limit \in Nat \cup {NoLimit}
  /\ sessions \in Nat
  /\ open \in BOOLEAN
  /\ busy \in BOOLEAN
  /\ calls \in Nat
  /\ issued \in Nat

Count(b) == IF b THEN 1 ELSE 0

(* A session loses at most one call: everything issued is counted, except  *)
(* one call for each session that is over and the one in flight.  This is  *)
(* the real bound on the calls made under `max_model_calls`.               *)
OvershootBounded ==
  /\ issued <= calls + (sessions - Count(open)) + Count(busy)
  /\ busy => open

(* A call in flight still fits the limit when it is counted. *)
InFlightFits == busy /\ limit # NoLimit => calls < limit

(* No call that would exceed the limit is counted. *)
CountWithinLimit == [][limit # NoLimit /\ calls' # calls => calls' <= limit]_vars

-----------------------------------------------------------------------------
Inv == TypeOK /\ OvershootBounded /\ InFlightFits

(* One call is in flight, or none.                                          *)
LEMMA CountValues == Count(TRUE) = 1 /\ Count(FALSE) = 0
  BY DEF Count

(* The invariant holds when the first session opens.                        *)
LEMMA InvInit == Init => Inv
  <1> SUFFICES ASSUME Init PROVE Inv
    OBVIOUS
  <1>1. TypeOK
    BY DEF Init, TypeOK
  <1>2. InFlightFits
    BY DEF Init, InFlightFits
  <1>3. Count(open) = 1 /\ Count(busy) = 0
    BY CountValues DEF Init
  <1>4. calls = 0 /\ issued = 0 /\ sessions = 1
    BY DEF Init
  <1>5. issued <= calls + (sessions - Count(open)) + Count(busy)
    BY <1>3, <1>4
  <1>6. busy => open
    BY DEF Init
  <1> QED  BY <1>1, <1>2, <1>5, <1>6 DEF Inv, OvershootBounded

(* Inv is inductive: the bound on the overshoot alone is not, a call in     *)
(* flight must have begun below the limit.                                  *)
LEMMA InvInductive == Inv /\ [Next]_vars => Inv'
  <1> SUFFICES ASSUME Inv, [Next]_vars PROVE Inv'
    OBVIOUS
  <1> USE DEF Inv
  <1>1. CASE Open
    BY <1>1 DEF Open, TypeOK, OvershootBounded, InFlightFits, Count
  <1>2. CASE Declare
    BY <1>2 DEF Declare, TypeOK, OvershootBounded, InFlightFits, Count
  <1>3. CASE Begin
    BY <1>3 DEF Begin, LimitReached, TypeOK, OvershootBounded, InFlightFits, Count
  <1>4. CASE Complete
    <2>1. busy = TRUE /\ open = TRUE /\ busy' = FALSE /\ open' \in BOOLEAN
      BY <1>4 DEF Complete, TypeOK, OvershootBounded
    <2>2. calls' = calls + 1 /\ UNCHANGED <<limit, sessions, issued>>
      BY <1>4 DEF Complete
    <2>3. TypeOK'
      <3>1. limit' \in Nat \cup {NoLimit} /\ sessions' \in Nat /\ calls' \in Nat /\ issued' \in Nat
        BY <2>2 DEF TypeOK
      <3>2. busy' \in BOOLEAN /\ open' \in BOOLEAN
        BY <2>1
      <3> QED  BY <3>1, <3>2, Zenon DEF TypeOK
    <2>4. InFlightFits'
      BY <2>1 DEF InFlightFits
    <2>5. Count(open) = 1 /\ Count(busy) = 1 /\ Count(busy') = 0 /\ Count(open') \in {0, 1}
      BY <2>1, CountValues
    <2>6. issued <= calls + (sessions - Count(open)) + Count(busy)
      BY DEF OvershootBounded
    <2>7. issued' <= calls' + (sessions' - Count(open')) + Count(busy')
      BY <2>2, <2>5, <2>6 DEF TypeOK
    <2> QED  BY <2>1, <2>3, <2>4, <2>7 DEF OvershootBounded
  <1>5. CASE Abandon \/ Close
    <2>1. open = TRUE /\ busy' = FALSE /\ open' = FALSE /\ busy \in BOOLEAN
      BY <1>5 DEF Abandon, Close, TypeOK, OvershootBounded
    <2>2. UNCHANGED <<limit, sessions, calls, issued>>
      BY <1>5 DEF Abandon, Close
    <2>3. TypeOK'
      BY <2>1, <2>2 DEF TypeOK
    <2>4. InFlightFits'
      BY <2>1 DEF InFlightFits
    <2>5. Count(open) = 1 /\ Count(busy) \in {0, 1} /\ Count(busy') = 0 /\ Count(open') = 0
      BY <2>1, CountValues
    <2>6. issued' <= calls' + (sessions' - Count(open')) + Count(busy')
      BY <2>2, <2>5 DEF TypeOK, OvershootBounded
    <2> QED  BY <2>1, <2>3, <2>4, <2>6 DEF OvershootBounded
  <1>6. CASE UNCHANGED vars
    BY <1>6 DEF vars, TypeOK, OvershootBounded, InFlightFits, Count
  <1> QED  BY <1>1, <1>2, <1>3, <1>4, <1>5, <1>6 DEF Next

(* Whatever the limit and however many sessions, all calls begun stay       *)
(* within those counted plus one for each session.                          *)
THEOREM Overshoot == Spec => []OvershootBounded
  <1>1. Inv => OvershootBounded
    BY DEF Inv
  <1> QED  BY <1>1, InvInit, InvInductive, PTL DEF Spec

(* The counted calls respect the limit: the one that completes was below it *)
(* when it began, and no other began since.                                 *)
THEOREM CountedCallsFit == Spec => CountWithinLimit
  <1>1. Inv /\ [Next]_vars => [limit # NoLimit /\ calls' # calls => calls' <= limit]_vars
    <2> SUFFICES ASSUME Inv, [Next]_vars, limit # NoLimit, calls' # calls PROVE calls' <= limit
      OBVIOUS
    <2>1. busy /\ calls' = calls + 1
      BY DEF Next, Open, Declare, Begin, Complete, Abandon, Close, vars
    <2>2. calls < limit /\ calls \in Nat /\ limit \in Nat
      BY <2>1 DEF Inv, TypeOK, InFlightFits
    <2> QED  BY <2>1, <2>2
  <1> QED  BY <1>1, InvInit, InvInductive, PTL DEF Spec, CountWithinLimit
=============================================================================
