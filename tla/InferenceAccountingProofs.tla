---------------------- MODULE InferenceAccountingProofs ----------------------
(***************************************************************************)
(* More theorems about InferenceRuntime, for every program, set of tools,  *)
(* permissions, budgets and bounds: the discipline of the stack, the books *)
(* kept on calls (counters, history variables and the trace log), and the  *)
(* two statements about tools that rest on them.                           *)
(*                                                                         *)
(* Typing is the invariant below all of them.  First the counting lemmas,  *)
(* then one lemma for each action that changes the stack, which says what  *)
(* it does frame by frame, then one section for each invariant.            *)
(***************************************************************************)
EXTENDS InferenceRuntimeProofs

-----------------------------------------------------------------------------
(* Counting the members of F among the elements of a sequence *)

Positions(s, F) == {i \in DOMAIN s : s[i] \in F}
Count(s, F) == Cardinality(Positions(s, F))

(* A sequence has finitely many positions, so counting them yields a        *)
(* number.                                                                  *)
LEMMA CountType ==
  ASSUME NEW s, NEW n \in Nat, DOMAIN s = 1..n, NEW F
  PROVE  IsFiniteSet(Positions(s, F)) /\ Count(s, F) \in Nat
  <1>1. IsFiniteSet(1..n)
    BY FS_Interval
  <1>2. IsFiniteSet(Positions(s, F))
    BY <1>1, FS_Subset DEF Positions
  <1> QED  BY <1>2, FS_CardinalityType DEF Count

(* The empty log, the empty history, the empty stack.                       *)
LEMMA CountEmpty ==
  ASSUME NEW s, DOMAIN s = {}, NEW F
  PROVE  Count(s, F) = 0
  <1>1. Positions(s, F) = {}
    BY DEF Positions
  <1> QED  BY <1>1, FS_EmptySet DEF Count

(* Elements may change as long as none enters or leaves F.                  *)
LEMMA CountSame ==
  ASSUME NEW s, NEW r, DOMAIN r = DOMAIN s, NEW F, NEW G,
         \A i \in DOMAIN s : s[i] \in F <=> r[i] \in G
  PROVE  Count(r, G) = Count(s, F)
  <1>1. Positions(r, G) = Positions(s, F)
    BY DEF Positions
  <1> QED  BY <1>1 DEF Count

(* A new last element counts if it is in F.                                 *)
LEMMA CountLonger ==
  ASSUME NEW s, NEW r, NEW n \in Nat, DOMAIN s = 1..n, DOMAIN r = 1..(n + 1), NEW F,
         \A i \in 1..n : s[i] \in F <=> r[i] \in F
  PROVE  Count(r, F) = Count(s, F) + (IF r[n + 1] \in F THEN 1 ELSE 0)
  <1>1. IsFiniteSet(Positions(s, F)) /\ Count(s, F) \in Nat
    BY CountType
  <1>2. CASE r[n + 1] \in F
    <2>1. Positions(r, F) = Positions(s, F) \cup {n + 1} /\ n + 1 \notin Positions(s, F)
      BY <1>2 DEF Positions
    <2>2. Cardinality(Positions(s, F) \cup {n + 1}) = Cardinality(Positions(s, F)) + 1
      BY <1>1, <2>1, FS_AddElement
    <2> QED  BY <1>2, <2>1, <2>2 DEF Count
  <1>3. CASE r[n + 1] \notin F
    <2>1. Positions(r, F) = Positions(s, F)
      BY <1>3 DEF Positions
    <2> QED  BY <1>1, <1>3, <2>1 DEF Count
  <1> QED  BY <1>2, <1>3

(* Cutting a sequence at n leaves out exactly the positions above n.        *)
LEMMA CountCut ==
  ASSUME NEW s, NEW r, NEW m \in Nat, NEW n \in 0..m, DOMAIN s = 1..m, DOMAIN r = 1..n, NEW F,
         \A i \in 1..n : r[i] = s[i]
  PROVE  Count(s, F) = Count(r, F) + Cardinality({i \in Positions(s, F) : i > n})
  <1> DEFINE A == Positions(r, F)
             B == {i \in Positions(s, F) : i > n}
  <1>1. IsFiniteSet(A) /\ IsFiniteSet(Positions(s, F))
    BY CountType
  <1>2. IsFiniteSet(B)
    BY <1>1, FS_Subset
  <1>3. Positions(s, F) = A \cup B /\ A \cap B = {}
    BY DEF Positions
  <1>4. Cardinality(A \cup B) = Cardinality(A) + Cardinality(B) - Cardinality(A \cap B)
    BY <1>1, <1>2, FS_Union
  <1>5. Cardinality(A) \in Nat /\ Cardinality(B) \in Nat /\ Cardinality({}) = 0
    BY <1>1, <1>2, FS_CardinalityType, FS_EmptySet
  <1> HIDE DEF A, B
  <1>6. Cardinality(Positions(s, F)) = Cardinality(A \cup B) /\ Cardinality(A \cap B) = 0
    BY <1>3, <1>5, Zenon
  <1>7. Cardinality(Positions(s, F)) = Cardinality(A) + Cardinality(B)
    BY <1>4, <1>5, <1>6
  <1> QED  BY <1>7 DEF Count, A, B

-----------------------------------------------------------------------------
(* What each action does to the stack, frame by frame *)

\* The frames below position n stay.
KeepsBelow(n) == \A j \in 1..(n - 1) : stack'[j] = stack[j]

TopBecomes(g) ==
  /\ stack # <<>> /\ Len(stack) \in Nat \ {0}
  /\ Top \in Good /\ g \in Good /\ g.kind = Top.kind /\ g.name = Top.name
  /\ Len(stack') = Len(stack) /\ KeepsBelow(Len(stack)) /\ stack'[Len(stack)] = g

TopPushes(g, h) ==
  /\ stack # <<>> /\ Len(stack) \in Nat \ {0}
  /\ Top \in Good /\ g \in Good /\ g.kind = Top.kind /\ g.name = Top.name /\ h \in Good
  /\ Len(stack') = Len(stack) + 1 /\ KeepsBelow(Len(stack))
  /\ stack'[Len(stack)] = g /\ stack'[Len(stack) + 1] = h

CallerBecomes(g) ==
  /\ stack # <<>> /\ Len(stack) \in Nat \ {0, 1}
  /\ Top \in Good /\ Caller \in Good
  /\ g \in Good /\ g.kind = Caller.kind /\ g.name = Caller.name
  /\ Len(stack') = Len(stack) - 1 /\ KeepsBelow(Len(stack) - 1)
  /\ stack'[Len(stack) - 1] = g

CutsTo(n) ==
  /\ stack # <<>> /\ Len(stack) \in Nat \ {0} /\ n \in 0..(Len(stack) - 1)
  /\ Len(stack') = n /\ KeepsBelow(n + 1)

(* SetTop changes the innermost frame and no other.                         *)
LEMMA TopBecomesIs ==
  ASSUME Typing, stack # <<>>, NEW g \in Good, g.kind = Top.kind, g.name = Top.name,
         stack' = SetTop(g)
  PROVE  TopBecomes(g)
  <1>1. Len(stack) \in Nat \ {0} /\ Top \in Good
    BY TopFacts
  <1>2. /\ Len(SetTop(g)) = Len(stack) /\ SetTop(g)[Len(stack)] = g
        /\ \A j \in 1..(Len(stack) - 1) : SetTop(g)[j] = stack[j]
    BY SetTopRooted
  <1> QED  BY <1>1, <1>2 DEF TopBecomes, KeepsBelow

(* Code that awaits a model call changes its frame and gets one on top. *)
LEMMA TopPushesIs ==
  ASSUME Typing, stack # <<>>, NEW g \in Good, g.kind = Top.kind, g.name = Top.name,
         NEW h \in Good, stack' = Append(SetTop(g), h)
  PROVE  TopPushes(g, h)
  <1>1. Len(stack) \in Nat \ {0} /\ Top \in Good
    BY TopFacts
  <1>2. /\ Rooted(SetTop(g)) /\ SetTop(g) # <<>>
        /\ Len(SetTop(g)) = Len(stack) /\ SetTop(g)[Len(stack)] = g
        /\ \A j \in 1..(Len(stack) - 1) : SetTop(g)[j] = stack[j]
    BY SetTopRooted
  <1>3. /\ Len(stack') = Len(SetTop(g)) + 1
        /\ \A j \in 1..Len(SetTop(g)) : stack'[j] = SetTop(g)[j]
        /\ stack'[Len(SetTop(g)) + 1] = h
    BY <1>2, PushRooted
  <1> QED  BY <1>1, <1>2, <1>3 DEF TopPushes, KeepsBelow

(* A tool's body starts on top of a caller that stays as it is.             *)
LEMMA BodyPushed ==
  ASSUME Typing, stack # <<>>, NEW h \in Good, stack' = Append(stack, h)
  PROVE  TopPushes(Top, h)
  <1>1. Len(stack) \in Nat \ {0} /\ Top \in Good
    BY TopFacts
  <1>2. /\ Len(stack') = Len(stack) + 1
        /\ \A j \in 1..Len(stack) : stack'[j] = stack[j]
        /\ stack'[Len(stack) + 1] = h
    BY PushRooted DEF Typing
  <1> QED  BY <1>1, <1>2 DEF TopPushes, KeepsBelow, Top

(* SetCaller drops the innermost frame and changes the one below it.        *)
LEMMA CallerBecomesIs ==
  ASSUME Typing, stack # <<>>, Len(stack) > 1, NEW g \in Good, g.kind = Caller.kind,
         g.name = Caller.name, stack' = SetCaller(g)
  PROVE  CallerBecomes(g)
  <1>1. Len(stack) \in Nat \ {0} /\ Top \in Good /\ Caller \in Good
    BY TopFacts, CallerFacts
  <1>2. /\ Len(SetCaller(g)) = Len(stack) - 1 /\ SetCaller(g)[Len(stack) - 1] = g
        /\ \A j \in 1..(Len(stack) - 2) : SetCaller(g)[j] = stack[j]
    BY SetCallerRooted
  <1> QED  BY <1>1, <1>2 DEF CallerBecomes, KeepsBelow

(* An error or a timeout drops the frames above one, and changes none.      *)
LEMMA CutsToIs ==
  ASSUME Typing, stack # <<>>, NEW n \in 0..(Len(stack) - 1), stack' = SubSeq(stack, 1, n)
  PROVE  CutsTo(n)
  <1>1. Len(stack) \in Nat \ {0}
    BY TopFacts
  <1>2. n \in Nat /\ n <= Len(stack)
    BY <1>1
  <1>3. Len(stack') = n /\ \A j \in 1..n : stack'[j] = stack[j]
    BY <1>2, CutRooted DEF Typing
  <1> QED  BY <1>1, <1>3 DEF CutsTo, KeepsBelow

(* AwaitTool marks the innermost code as calling the tool.                  *)
LEMMA AwaitToolStack ==
  ASSUME Typing, NEW t \in Tools, AwaitTool(t)
  PROVE  \E g : /\ TopBecomes(g) /\ Top.kind \in CodeKinds /\ Top.phase = "run"
                /\ g.phase = "calling" /\ g.wants = t /\ g.history = Top.history
  <1> DEFINE g == [Top EXCEPT !.phase = "calling", !.wants = t, !.awaits = @ + 1]
  <1>1. stack # <<>> /\ Top.kind \in CodeKinds /\ Top.phase = "run" /\ Top.awaits < MaxAwaits
        /\ stack' = SetTop(g)
    BY DEF AwaitTool, InCode, Running, Awaits
  <1>2. Top \in Good
    BY <1>1, TopFacts
  <1>3. g \in Good /\ g.kind = Top.kind
    BY <1>1, <1>2, AwaitingGood
  <1>4. g.name = Top.name /\ g.phase = "calling" /\ g.wants = t /\ g.history = Top.history
    BY <1>2 DEF Good, Frame
  <1> HIDE DEF g
  <1>5. TopBecomes(g)
    BY <1>1, <1>3, <1>4, TopBecomesIs
  <1> QED  BY <1>1, <1>4, <1>5

(* AwaitSleep puts the innermost code to sleep.                             *)
LEMMA AwaitSleepStack ==
  ASSUME Typing, AwaitSleep
  PROVE  \E g : /\ TopBecomes(g) /\ Top.kind \in CodeKinds /\ Top.phase = "run"
                /\ g.phase = "asleep" /\ g.history = Top.history
  <1> DEFINE g == [Top EXCEPT !.phase = "asleep", !.wants = NoName, !.awaits = @ + 1]
  <1>1. stack # <<>> /\ Top.kind \in CodeKinds /\ Top.phase = "run" /\ Top.awaits < MaxAwaits
        /\ stack' = SetTop(g)
    BY DEF AwaitSleep, InCode, Running, Awaits
  <1>2. Top \in Good
    BY <1>1, TopFacts
  <1>3. g \in Good /\ g.kind = Top.kind
    BY <1>1, <1>2, AsleepGood
  <1>4. g.name = Top.name /\ g.phase = "asleep" /\ g.history = Top.history
    BY <1>1, <1>2, AsleepGood
  <1> HIDE DEF g
  <1>5. TopBecomes(g)
    BY <1>1, <1>3, <1>4, TopBecomesIs
  <1> QED  BY <1>1, <1>4, <1>5

(* Wake resumes it.                                                         *)
LEMMA WakeStack ==
  ASSUME Typing, Wake
  PROVE  \E g : /\ TopBecomes(g) /\ Top.phase = "asleep"
                /\ g.phase = "run" /\ g.history = Top.history
  <1> DEFINE g == [Top EXCEPT !.phase = "run"]
  <1>1. stack # <<>> /\ Top.phase = "asleep" /\ stack' = SetTop(g)
    BY DEF Wake, Running
  <1>2. Top \in Good
    BY <1>1, TopFacts
  <1>3. g \in Good /\ g.kind = Top.kind /\ g.name = Top.name /\ g.phase = "run"
        /\ g.history = Top.history
    BY <1>2, PhaseGood
  <1> HIDE DEF g
  <1>4. TopBecomes(g)
    BY <1>1, <1>3, TopBecomesIs
  <1> QED  BY <1>1, <1>3, <1>4

(* AskModel marks the conversation as waiting for the model.                *)
LEMMA AskModelStack ==
  ASSUME Typing, AskModel
  PROVE  \E g : /\ TopBecomes(g) /\ Top.kind = "infer" /\ Top.phase = "check"
                /\ g.phase = "sent" /\ g.history = Top.history
  <1> DEFINE g == [Top EXCEPT !.phase = "sent"]
  <1>1. stack # <<>> /\ Top.kind = "infer" /\ Top.phase = "check" /\ stack' = SetTop(g)
    BY DEF AskModel, InConversation, Running
  <1>2. Top \in Good
    BY <1>1, TopFacts
  <1>3. g \in Good /\ g.kind = Top.kind /\ g.name = Top.name /\ g.phase = "sent"
        /\ g.history = Top.history
    BY <1>2, PhaseGood
  <1> HIDE DEF g
  <1>4. TopBecomes(g)
    BY <1>1, <1>3, TopBecomesIs
  <1> QED  BY <1>1, <1>3, <1>4

(* ModelCallsTool marks the conversation as calling what the model named.   *)
LEMMA ModelCallsToolStack ==
  ASSUME Typing, NEW t \in Names, ModelCallsTool(t)
  PROVE  \E g : /\ TopBecomes(g) /\ Top.kind = "infer" /\ Top.phase = "sent"
                /\ g.phase = "calling" /\ g.wants = t /\ g.history = Top.history
  <1> DEFINE g == [Top EXCEPT !.phase = "calling", !.wants = t]
  <1>1. stack # <<>> /\ Top.kind = "infer" /\ Top.phase = "sent" /\ stack' = SetTop(g)
    BY DEF ModelCallsTool, InConversation, Running
  <1>2. Top \in Good
    BY <1>1, TopFacts
  <1>3. g \in Good /\ g.kind = Top.kind /\ g.name = Top.name
        /\ g.phase = "calling" /\ g.wants = t /\ g.history = Top.history
    BY <1>1, <1>2 DEF Good, Frame, CodeKinds
  <1> HIDE DEF g
  <1>4. TopBecomes(g)
    BY <1>1, <1>3, TopBecomesIs
  <1> QED  BY <1>1, <1>3, <1>4

(* MockAnswers gives the caller its mock, and a conversation also an        *)
(* exchange more, or raises and leaves the stack alone.                     *)
LEMMA MockAnswersStack ==
  ASSUME Typing, NEW valid \in BOOLEAN, MockAnswers(valid)
  PROVE  /\ stack # <<>> /\ Top.wants \in Tools
         /\ IF valid
            THEN \E g : /\ TopBecomes(g) /\ Top.phase = "calling"
                        /\ g.phase \in {"check", "run"}
                        /\ g.history = IF Top.kind = "infer" THEN Append(Top.history, Top.wants)
                                                             ELSE Top.history
            ELSE stack' = stack
  <1> DEFINE g == WithResult(Top, Top.wants)
  <1>1. stack # <<>> /\ Top.phase = "calling" /\ Top.wants \in Tools
    BY InferenceAssumptions DEF MockAnswers, CallsTool, Running
  <1>2. CASE ~valid
    BY <1>1, <1>2 DEF MockAnswers
  <1>3. CASE valid
    <2>1. Top \in Good /\ stack' = SetTop(g)
      BY <1>1, <1>3, TopFacts DEF MockAnswers
    <2>2. /\ g \in Good /\ g.kind = Top.kind /\ g.name = Top.name /\ g.phase \in {"check", "run"}
          /\ g.history = IF Top.kind = "infer" THEN Append(Top.history, Top.wants)
                                               ELSE Top.history
      BY <1>1, <2>1, WithResultGood
    <2> HIDE DEF g
    <2>3. TopBecomes(g)
      BY <1>1, <2>1, <2>2, TopBecomesIs
    <2> QED  BY <1>1, <1>3, <2>2, <2>3
  <1> QED  BY <1>2, <1>3

(* AwaitInference suspends the code and starts an empty conversation.       *)
LEMMA AwaitInferenceStack ==
  ASSUME Typing, NEW f \in Infers, AwaitInference(f)
  PROVE  \E g, h : /\ TopPushes(g, h) /\ Top.kind \in CodeKinds /\ Top.phase = "run"
                   /\ g.phase = "awaiting" /\ g.history = Top.history
                   /\ h.kind = "infer" /\ h.phase = "check" /\ h.history = <<>>
  <1> DEFINE g == [Top EXCEPT !.phase = "awaiting", !.wants = NoName, !.awaits = @ + 1]
             h == NewFrame("infer", f, "check", budget.timeout_ms)
  <1>1. stack # <<>> /\ Top.kind \in CodeKinds /\ Top.phase = "run" /\ Top.awaits < MaxAwaits
        /\ stack' = Append(SetTop(g), h)
    BY DEF AwaitInference, InCode, Running, Awaits
  <1>2. Top \in Good
    BY <1>1, TopFacts
  <1>3. g \in Good /\ g.kind = Top.kind
    BY <1>1, <1>2, AwaitingGood
  <1>4. g.name = Top.name /\ g.phase = "awaiting" /\ g.history = Top.history
    BY <1>2 DEF Good, Frame
  <1>5. h \in Good
    BY BudgetFacts, NewFrameGood
  <1>6. h.kind = "infer" /\ h.phase = "check" /\ h.history = <<>>
    BY DEF NewFrame
  <1> HIDE DEF g, h
  <1>7. TopPushes(g, h)
    BY <1>1, <1>3, <1>4, <1>5, TopPushesIs
  <1> QED  BY <1>1, <1>4, <1>6, <1>7

(* RunToolBody starts the body of the tool its caller is calling.           *)
LEMMA RunToolBodyStack ==
  ASSUME Typing, RunToolBody
  PROVE  \E h : /\ TopPushes(Top, h) /\ Top.phase = "calling"
                /\ Top.wants \in WithBody \ Mocked /\ (Top.kind = "infer" => Callable)
                /\ h.kind = "tool" /\ h.name = Top.wants /\ h.phase = "run" /\ h.history = <<>>
  <1> DEFINE h == NewFrame("tool", Top.wants, "run", FALSE)
  <1>1. /\ stack # <<>> /\ Top.phase = "calling" /\ Top.wants \in Tools
        /\ Top.wants \in WithBody \ Mocked /\ (Top.kind = "infer" => Callable)
        /\ stack' = Append(stack, h)
    BY InferenceAssumptions DEF RunToolBody, CallsTool, Running
  <1>2. h \in Good
    BY <1>1, NewFrameGood DEF CodeKinds
  <1>3. h.kind = "tool" /\ h.name = Top.wants /\ h.phase = "run" /\ h.history = <<>>
    BY DEF NewFrame
  <1> HIDE DEF h
  <1>4. TopPushes(Top, h)
    BY <1>1, <1>2, BodyPushed
  <1> QED  BY <1>1, <1>3, <1>4

(* ModelAnswers ends the conversation and resumes the code below it.        *)
LEMMA ModelAnswersStack ==
  ASSUME Typing, ModelAnswers
  PROVE  \E g : /\ CallerBecomes(g) /\ Top.kind = "infer" /\ Top.phase = "sent"
                /\ g.phase = "run" /\ g.history = Caller.history
  <1> DEFINE g == [Caller EXCEPT !.phase = "run"]
  <1>1. stack # <<>> /\ Top.kind = "infer" /\ Top.phase = "sent" /\ Len(stack) > 1
        /\ stack' = SetCaller(g)
    BY TopFacts DEF ModelAnswers, InConversation, Running
  <1>2. g \in Good /\ g.kind = Caller.kind /\ g.name = Caller.name /\ g.phase = "run"
        /\ g.history = Caller.history
    BY <1>1, CallerFacts, PhaseGood
  <1> HIDE DEF g
  <1>3. CallerBecomes(g)
    BY <1>1, <1>2, CallerBecomesIs
  <1> QED  BY <1>1, <1>2, <1>3

(* ToolReturns ends the body: its caller resumes with the value, or is the  *)
(* next frame the error leaves.                                             *)
LEMMA ToolReturnsStack ==
  ASSUME Typing, NEW valid \in BOOLEAN, ToolReturns(valid)
  PROVE  /\ stack # <<>> /\ Top.kind = "tool" /\ Top.name \in Tools
         /\ IF valid
            THEN \E g : /\ CallerBecomes(g) /\ g.phase \in {"check", "run"}
                        /\ g.history = IF Caller.kind = "infer"
                                       THEN Append(Caller.history, Top.name) ELSE Caller.history
            ELSE CutsTo(Len(stack) - 1)
  <1>1. /\ stack # <<>> /\ Len(stack) > 1 /\ Len(stack) \in Nat \ {0} /\ Top.kind = "tool"
        /\ Top.name \in Tools
    BY TopFacts DEF ToolReturns, InCode, Running, Good
  <1>2. CASE ~valid
    <2>1. stack' = SubSeq(stack, 1, Len(stack) - 1) /\ Len(stack) - 1 \in 0..(Len(stack) - 1)
      BY <1>1, <1>2 DEF ToolReturns, Below
    <2> QED  BY <1>1, <1>2, <2>1, CutsToIs
  <1>3. CASE valid
    <2> DEFINE g == WithResult(Caller, Top.name)
    <2>1. stack' = SetCaller(g)
      BY <1>3 DEF ToolReturns
    <2>2. /\ g \in Good /\ g.kind = Caller.kind /\ g.name = Caller.name
          /\ g.phase \in {"check", "run"}
          /\ g.history = IF Caller.kind = "infer" THEN Append(Caller.history, Top.name)
                                                  ELSE Caller.history
      BY <1>1, CallerFacts, WithResultGood
    <2> HIDE DEF g
    <2>3. CallerBecomes(g)
      BY <1>1, <2>1, <2>2, CallerBecomesIs
    <2> QED  BY <1>1, <1>3, <2>2, <2>3
  <1> QED  BY <1>2, <1>3

(* Unwind drops the innermost frame.                                        *)
LEMMA UnwindStack ==
  ASSUME Typing, Unwind
  PROVE  CutsTo(Len(stack) - 1)
  <1>1. stack # <<>> /\ stack' = SubSeq(stack, 1, Len(stack) - 1)
    BY DEF Unwind, Below
  <1>2. Len(stack) - 1 \in 0..(Len(stack) - 1)
    BY <1>1, TopFacts
  <1> QED  BY <1>1, <1>2, CutsToIs

(* Timeout(k) drops the conversation k and all above it.                    *)
LEMMA TimeoutCuts ==
  ASSUME Typing, NEW k \in DOMAIN stack, Timeout(k)
  PROVE  CutsTo(k - 1) /\ k \in 2..Len(stack) /\ stack[k].kind = "infer"
  <1>1. stack # <<>> /\ stack[k].timed /\ stack' = SubSeq(stack, 1, k - 1)
    BY DEF Timeout, Running
  <1>2. k \in 2..Len(stack) /\ Len(stack) \in Nat
    BY <1>1, TimeoutStack, TopFacts
  <1>3. stack[k] \in Good
    BY <1>1, <1>2, TopGood DEF Typing, Rooted
  <1>4. k - 1 \in 0..(Len(stack) - 1)
    BY <1>2
  <1> QED  BY <1>1, <1>2, <1>3, <1>4, CutsToIs DEF Good

-----------------------------------------------------------------------------
(* The discipline of the stack *)

Sits(g, f) ==
  \/ f.kind \in CodeKinds /\ f.phase = "awaiting" /\ g.kind = "infer"
  \/ f.phase = "calling" /\ g.kind = "tool" /\ g.name = f.wants

IsRoot(f) == f.kind \in {"main", "handler"}

Disciplined(s) ==
  /\ \A i \in 1..Len(s) : (i = 1) <=> IsRoot(s[i])
  /\ \A i \in 1..(Len(s) - 1) : Sits(s[i + 1], s[i])

(* StackDiscipline says this of the stack, in a typed state.                *)
LEMMA DisciplineIs ==
  ASSUME Typing
  PROVE  StackDiscipline <=> Disciplined(stack)
  <1>1. DOMAIN stack = 1..Len(stack) /\ Len(stack) \in Nat
    BY LenProperties DEF Typing, Rooted
  <1>2. StackDiscipline => Disciplined(stack)
    BY <1>1 DEF StackDiscipline, Disciplined, Sits, IsRoot
  <1>3. ASSUME Disciplined(stack), NEW i \in DOMAIN stack
        PROVE  /\ (i = 1) <=> stack[i].kind \in {"main", "handler"}
               /\ i < Len(stack) => Sits(stack[i + 1], stack[i])
    BY <1>1, <1>3 DEF Disciplined, IsRoot
  <1> QED  BY <1>2, <1>3 DEF StackDiscipline, Sits

(* A stack that is cut, and whose innermost frame is like the one that was  *)
(* in its place, is as disciplined as before.                               *)
LEMMA CutKeepsDiscipline ==
  ASSUME NEW s, NEW t, Disciplined(s), Len(s) \in Nat, Len(t) \in 0..Len(s),
         \A i \in 1..Len(t) : t[i].kind = s[i].kind /\ t[i].name = s[i].name,
         \A i \in 1..(Len(t) - 1) : t[i] = s[i]
  PROVE  Disciplined(t)
  <1>1. ASSUME NEW i \in 1..Len(t) PROVE (i = 1) <=> IsRoot(t[i])
    <2>1. (i = 1) <=> IsRoot(s[i])
      BY DEF Disciplined
    <2> QED  BY <2>1 DEF IsRoot
  <1>2. ASSUME NEW i \in 1..(Len(t) - 1) PROVE Sits(t[i + 1], t[i])
    <2>1. Sits(s[i + 1], s[i])
      BY DEF Disciplined
    <2>2. i + 1 \in 1..Len(t)
      OBVIOUS
    <2>3. t[i] = s[i] /\ t[i + 1].kind = s[i + 1].kind /\ t[i + 1].name = s[i + 1].name
      BY <2>2
    <2> QED  BY <2>1, <2>3 DEF Sits
  <1> QED  BY <1>1, <1>2 DEF Disciplined

(* The four steps keep the discipline, a push if the new frame may sit on   *)
(* the one below.                                                           *)
LEMMA DisciplineKept ==
  ASSUME Disciplined(stack), NEW g, NEW h, NEW n,
         \/ TopBecomes(g)
         \/ TopPushes(g, h) /\ Sits(h, g) /\ ~IsRoot(h)
         \/ CallerBecomes(g)
         \/ CutsTo(n)
  PROVE  Disciplined(stack')
  <1>1. CASE TopBecomes(g)
    <2>1. /\ Len(stack) \in Nat \ {0} /\ Len(stack') = Len(stack)
          /\ \A i \in 1..(Len(stack) - 1) : stack'[i] = stack[i]
          /\ stack'[Len(stack)].kind = stack[Len(stack)].kind
          /\ stack'[Len(stack)].name = stack[Len(stack)].name
      BY <1>1 DEF TopBecomes, KeepsBelow, Top
    <2> QED  BY <2>1, CutKeepsDiscipline
  <1>2. CASE TopPushes(g, h) /\ Sits(h, g) /\ ~IsRoot(h)
    <2>1. /\ Len(stack) \in Nat \ {0} /\ Len(stack') = Len(stack) + 1
          /\ \A i \in 1..(Len(stack) - 1) : stack'[i] = stack[i]
          /\ stack'[Len(stack)] = g /\ g.kind = stack[Len(stack)].kind
          /\ g.name = stack[Len(stack)].name /\ stack'[Len(stack) + 1] = h
      BY <1>2 DEF TopPushes, KeepsBelow, Top
    <2>2. ASSUME NEW i \in 1..Len(stack') PROVE (i = 1) <=> IsRoot(stack'[i])
      <3>1. CASE i = Len(stack) + 1
        BY <1>2, <2>1, <3>1
      <3>2. CASE i # Len(stack) + 1
        <4>1. i \in 1..Len(stack) /\ stack'[i].kind = stack[i].kind
          BY <2>1, <3>2
        <4>2. (i = 1) <=> IsRoot(stack[i])
          BY <4>1 DEF Disciplined
        <4> QED  BY <4>1, <4>2 DEF IsRoot
      <3> QED  BY <3>1, <3>2
    <2>3. ASSUME NEW i \in 1..(Len(stack') - 1) PROVE Sits(stack'[i + 1], stack'[i])
      <3>1. CASE i = Len(stack)
        BY <1>2, <2>1, <3>1
      <3>2. CASE i # Len(stack)
        <4>1. i \in 1..(Len(stack) - 1) /\ stack'[i] = stack[i]
              /\ stack'[i + 1].kind = stack[i + 1].kind /\ stack'[i + 1].name = stack[i + 1].name
          BY <2>1, <3>2
        <4>2. Sits(stack[i + 1], stack[i])
          BY <4>1 DEF Disciplined
        <4> QED  BY <4>1, <4>2 DEF Sits
      <3> QED  BY <3>1, <3>2
    <2> QED  BY <2>2, <2>3 DEF Disciplined
  <1>3. CASE CallerBecomes(g)
    <2>0. /\ Len(stack) \in Nat \ {0, 1} /\ Len(stack') = Len(stack) - 1
          /\ \A i \in 1..((Len(stack) - 1) - 1) : stack'[i] = stack[i]
          /\ stack'[Len(stack) - 1] = g
          /\ g.kind = stack[Len(stack) - 1].kind /\ g.name = stack[Len(stack) - 1].name
      BY <1>3, Zenon DEF CallerBecomes, KeepsBelow, Caller
    <2>1. /\ Len(stack) \in Nat /\ Len(stack') \in 0..Len(stack)
          /\ \A i \in 1..Len(stack') : stack'[i].kind = stack[i].kind /\ stack'[i].name = stack[i].name
          /\ \A i \in 1..(Len(stack') - 1) : stack'[i] = stack[i]
      BY <2>0
    <2> QED  BY <2>1, CutKeepsDiscipline
  <1>4. CASE CutsTo(n)
    <2>1. /\ Len(stack) \in Nat /\ Len(stack') \in 0..Len(stack)
          /\ \A i \in 1..Len(stack') : stack'[i] = stack[i]
      BY <1>4 DEF CutsTo, KeepsBelow
    <2> QED  BY <2>1, CutKeepsDiscipline
  <1> QED  BY <1>1, <1>2, <1>3, <1>4, Zenon

(* No step puts a frame where it may not sit.                               *)
LEMMA StepDisciplined ==
  ASSUME Typing, Disciplined(stack), [Next]_vars
  PROVE  Disciplined(stack')
  <1>1. CASE UNCHANGED stack
    BY <1>1
  <1>2. CASE stack' = <<>>
    BY <1>2 DEF Disciplined
  <1>3. CASE Code
    <2>1. ASSUME NEW f \in Infers, AwaitInference(f) PROVE Disciplined(stack')
      <3>1. PICK g, h : /\ TopPushes(g, h) /\ Top.kind \in CodeKinds
                        /\ g.phase = "awaiting" /\ h.kind = "infer"
        BY <2>1, AwaitInferenceStack
      <3>2. Sits(h, g) /\ ~IsRoot(h)
        BY <3>1 DEF TopPushes, Sits, IsRoot
      <3> QED  BY <3>1, <3>2, DisciplineKept
    <2>2. ASSUME NEW t \in Tools, AwaitTool(t) PROVE Disciplined(stack')
      BY <2>2, AwaitToolStack, DisciplineKept
    <2>3. ASSUME NEW valid \in BOOLEAN, ToolReturns(valid) PROVE Disciplined(stack')
      BY <2>3, ToolReturnsStack, DisciplineKept
    <2> QED  BY <1>1, <1>2, <1>3, <2>1, <2>2, <2>3, AwaitSleepStack, WakeStack, DisciplineKept
             DEF Code, DeclareTool, DeclareBudget, ProgramError, HandlerReturns, MainReturns,
                 StartServing
  <1>4. CASE Conversation
    <2>1. ASSUME NEW valid \in BOOLEAN, MockAnswers(valid) PROVE Disciplined(stack')
      BY <1>1, <2>1, MockAnswersStack, DisciplineKept
    <2>2. CASE RunToolBody
      <3>1. PICK h : /\ TopPushes(Top, h) /\ Top.phase = "calling"
                     /\ h.kind = "tool" /\ h.name = Top.wants
        BY <2>2, RunToolBodyStack
      <3>2. Sits(h, Top) /\ ~IsRoot(h)
        BY <3>1 DEF Sits, IsRoot
      <3> QED  BY <3>1, <3>2, DisciplineKept
    <2> QED  BY <1>1, <1>4, <2>1, <2>2, AskModelStack, UnwindStack, DisciplineKept
             DEF Conversation, RejectModelCall, RefuseToolCall, RefuseArguments, NoImplementation
  <1>5. CASE Model
    <2>1. ASSUME NEW t \in Names, ModelCallsTool(t) PROVE Disciplined(stack')
      BY <2>1, ModelCallsToolStack, DisciplineKept
    <2> QED  BY <1>1, <1>5, <2>1, ModelAnswersStack, DisciplineKept DEF Model, ModelAnswersBadly
  <1>6. ASSUME NEW k \in DOMAIN stack, Timeout(k) PROVE Disciplined(stack')
    BY <1>6, TimeoutCuts, DisciplineKept
  <1>7. CASE AcceptRequest
    <2> DEFINE f == NewFrame("handler", NoName, "run", FALSE)
    <2>1. stack' = <<f>> /\ IsRoot(f)
      BY <1>7 DEF AcceptRequest, NewFrame, IsRoot
    <2> HIDE DEF f
    <2> QED  BY <2>1 DEF Disciplined
  <1>8. CASE AtRest \/ UNCHANGED vars
    BY <1>1, <1>8 DEF AtRest, vars
  <1> QED  BY <1>3, <1>4, <1>5, <1>6, <1>7, <1>8 DEF Next, Timeouts

(* With the types, the discipline is inductive as it stands.                *)
LEMMA DisciplineInductive ==
  /\ Init => Disciplined(stack)
  /\ Typing /\ Disciplined(stack) /\ [Next]_vars => Disciplined(stack')
  <1>1. ASSUME Init PROVE Disciplined(stack)
    <2> DEFINE f == NewFrame("main", NoName, "run", FALSE)
    <2>1. stack = <<f>> /\ IsRoot(f)
      BY <1>1 DEF Init, NewFrame, IsRoot
    <2> HIDE DEF f
    <2> QED  BY <2>1 DEF Disciplined
  <1> QED  BY <1>1, StepDisciplined

(* Conversations sit on the code that awaits them and tool bodies on the    *)
(* caller that waits for that tool, for any program and any nesting.        *)
THEOREM StackIsDisciplined == Spec => []StackDiscipline
  <1> DEFINE D == Disciplined(stack)
  <1>1. Typing /\ D => StackDiscipline
    BY DisciplineIs
  <1>2. Init => Typing /\ D
    BY TypingInductive, DisciplineInductive
  <1>3. Typing /\ D /\ [Next]_vars => Typing' /\ D'
    BY TypingInductive, DisciplineInductive
  <1> HIDE DEF D
  <1> QED  BY <1>1, <1>2, <1>3, PTL DEF Spec

-----------------------------------------------------------------------------
(* The books: model calls *)

(* The frame the future runs in after a step, from what the step did.       *)
LEMMA NewTop ==
  ASSUME NEW g, NEW h
  PROVE  /\ TopBecomes(g) => stack' # <<>> /\ Top' = g
         /\ TopPushes(g, h) => stack' # <<>> /\ Top' = h
         /\ CallerBecomes(g) => stack' # <<>> /\ Top' = g
  <1>1. ASSUME NEW s \in Nat, Len(stack') = s, s # 0 PROVE stack' # <<>>
    BY <1>1, EmptySeq
  <1>2. ASSUME TopBecomes(g) PROVE stack' # <<>> /\ Top' = g
    BY <1>1, <1>2 DEF TopBecomes, Top
  <1>3. ASSUME TopPushes(g, h) PROVE stack' # <<>> /\ Top' = h
    BY <1>1, <1>3 DEF TopPushes, Top
  <1>4. ASSUME CallerBecomes(g) PROVE stack' # <<>> /\ Top' = g
    BY <1>1, <1>4 DEF CallerBecomes, Top
  <1> QED  BY <1>2, <1>3, <1>4, Zenon

ModelCallsBalance ==
  issued = total_model_calls + abandoned + (IF CallInFlight THEN 1 ELSE 0)

(* A step that neither asks the model, nor hears from it, nor loses a call, *)
(* leaves the balance as it is.                                             *)
LEMMA BalanceKept ==
  ASSUME ModelCallsBalance, ~CallInFlight, ~CallInFlight',
         UNCHANGED <<issued, total_model_calls, abandoned>>
  PROVE  ModelCallsBalance'
  BY DEF ModelCallsBalance

(* Every model call issued stays accounted for.                             *)
LEMMA StepModelCalls ==
  ASSUME Typing, ModelCallsBalance, [Next]_vars
  PROVE  ModelCallsBalance'
  <1> USE DEF serverVars, budgetVars, toolVars
  <1>0. issued \in Nat /\ total_model_calls \in Nat /\ abandoned \in Nat
    BY DEF Typing, TypeOK
  <1>1. CASE UNCHANGED <<stack, ctl, budgetVars>>
    BY <1>1 DEF ModelCallsBalance, CallInFlight, Running, Top
  <1>2. ASSUME InCode PROVE ~CallInFlight
    BY <1>2 DEF InCode, CallInFlight
  <1>3. CASE Code
    <2>1. ASSUME NEW f \in Infers, AwaitInference(f) PROVE ModelCallsBalance'
      <3>1. ~CallInFlight'
        BY <2>1, AwaitInferenceStack, NewTop DEF CallInFlight
      <3> QED  BY <1>2, <2>1, <3>1, BalanceKept DEF AwaitInference
    <2>2. ASSUME NEW t \in Tools, AwaitTool(t) PROVE ModelCallsBalance'
      <3>1. ~CallInFlight'
        BY <2>2, AwaitToolStack, NewTop DEF CallInFlight
      <3> QED  BY <1>2, <2>2, <3>1, BalanceKept DEF AwaitTool
    <2>3. CASE AwaitSleep
      <3>1. ~CallInFlight'
        BY <2>3, AwaitSleepStack, NewTop DEF CallInFlight
      <3> QED  BY <1>2, <2>3, <3>1, BalanceKept DEF AwaitSleep
    <2>4. CASE Wake
      <3>1. ~CallInFlight /\ ~CallInFlight'
        BY <2>4, WakeStack, NewTop DEF CallInFlight
      <3> QED  BY <2>4, <3>1, BalanceKept DEF Wake
    <2>5. CASE ProgramError
      <3>1. ~CallInFlight'
        BY <2>5 DEF ProgramError, Raise, CallInFlight, Running
      <3> QED  BY <1>2, <2>5, <3>1, BalanceKept DEF ProgramError
    <2>6. ASSUME NEW valid \in BOOLEAN, ToolReturns(valid) PROVE ModelCallsBalance'
      <3>1. CASE valid
        <4>1. ~CallInFlight'
          BY <2>6, <3>1, ToolReturnsStack, NewTop DEF CallInFlight
        <4> QED  BY <1>2, <2>6, <4>1, BalanceKept DEF ToolReturns
      <3>2. CASE ~valid
        <4>1. ~CallInFlight'
          BY <2>6, <3>2 DEF ToolReturns, Raise, CallInFlight, Running
        <4> QED  BY <1>2, <2>6, <4>1, BalanceKept DEF ToolReturns
      <3> QED  BY <3>1, <3>2
    <2>7. CASE HandlerReturns \/ MainReturns \/ StartServing
      <3>1. ~CallInFlight /\ ~CallInFlight'
        BY <1>2, <2>7 DEF HandlerReturns, MainReturns, StartServing, CallInFlight, Running
      <3> QED  BY <2>7, <3>1, BalanceKept DEF HandlerReturns, MainReturns, StartServing
    <2>8. CASE \/ \E t \in Tools : DeclareTool(t)
               \/ \E b \in Budgets : DeclareBudget(b)
      <3>1. UNCHANGED <<stack, ctl, issued, total_model_calls, abandoned>>
        BY <2>8 DEF DeclareTool, DeclareBudget
      <3> QED  BY <3>1 DEF ModelCallsBalance, CallInFlight, Running, Top
    <2> QED  BY <1>3, <2>1, <2>2, <2>3, <2>4, <2>5, <2>6, <2>7, <2>8 DEF Code
  <1>4. CASE Conversation
    <2>1. CASE RejectModelCall \/ RefuseToolCall \/ RefuseArguments \/ NoImplementation
      <3>1. ~CallInFlight /\ ~CallInFlight'
        BY <2>1 DEF RejectModelCall, RefuseToolCall, RefuseArguments, NoImplementation,
                    CallsTool, InConversation, Raise, CallInFlight, Running
      <3> QED  BY <2>1, <3>1, BalanceKept
               DEF RejectModelCall, RefuseToolCall, RefuseArguments, NoImplementation
    <2>2. CASE AskModel
      <3>1. ~CallInFlight
        BY <2>2 DEF AskModel, InConversation, CallInFlight
      <3>2. CallInFlight'
        BY <2>2, AskModelStack, NewTop DEF CallInFlight, AskModel, InConversation, Running
      <3> QED  BY <1>0, <2>2, <3>1, <3>2 DEF AskModel, ModelCallsBalance
    <2>3. ASSUME NEW valid \in BOOLEAN, MockAnswers(valid) PROVE ModelCallsBalance'
      <3>1. ~CallInFlight
        BY <2>3 DEF MockAnswers, CallsTool, CallInFlight
      <3>2. CASE valid
        <4>1. ~CallInFlight'
          BY <2>3, <3>2, MockAnswersStack, NewTop DEF CallInFlight
        <4> QED  BY <2>3, <3>1, <4>1, BalanceKept DEF MockAnswers
      <3>3. CASE ~valid
        <4>1. ~CallInFlight'
          BY <2>3, <3>3 DEF MockAnswers, Raise, CallInFlight, Running
        <4> QED  BY <2>3, <3>1, <4>1, BalanceKept DEF MockAnswers
      <3> QED  BY <3>2, <3>3
    <2>4. CASE RunToolBody
      <3>1. ~CallInFlight
        BY <2>4 DEF RunToolBody, CallsTool, CallInFlight
      <3>2. ~CallInFlight'
        BY <2>4, RunToolBodyStack, NewTop DEF CallInFlight
      <3> QED  BY <2>4, <3>1, <3>2, BalanceKept DEF RunToolBody
    <2>5. CASE Unwind
      <3>1. ~CallInFlight /\ ~CallInFlight'
        BY <2>5 DEF Unwind, CallInFlight, Running
      <3> QED  BY <2>5, <3>1, BalanceKept DEF Unwind
    <2> QED  BY <1>4, <2>1, <2>2, <2>3, <2>4, <2>5 DEF Conversation
  <1>5. CASE Model
    <2>1. ASSUME InConversation("sent") PROVE CallInFlight
      BY <2>1 DEF InConversation, CallInFlight
    <2>2. CASE ModelAnswers
      <3>1. ~CallInFlight'
        BY <2>2, ModelAnswersStack, NewTop DEF CallInFlight
      <3> QED  BY <1>0, <2>1, <2>2, <3>1 DEF ModelAnswers, RecordModelCall, ModelCallsBalance
    <2>3. CASE ModelAnswersBadly
      <3>1. ~CallInFlight'
        BY <2>3 DEF ModelAnswersBadly, Raise, CallInFlight, Running
      <3> QED  BY <1>0, <2>1, <2>3, <3>1 DEF ModelAnswersBadly, RecordModelCall, ModelCallsBalance
    <2>4. ASSUME NEW t \in Names, ModelCallsTool(t) PROVE ModelCallsBalance'
      <3>1. ~CallInFlight'
        BY <2>4, ModelCallsToolStack, NewTop DEF CallInFlight
      <3> QED  BY <1>0, <2>1, <2>4, <3>1 DEF ModelCallsTool, RecordModelCall, ModelCallsBalance
    <2> QED  BY <1>5, <2>2, <2>3, <2>4 DEF Model
  <1>6. ASSUME NEW k \in DOMAIN stack, Timeout(k) PROVE ModelCallsBalance'
    <2>1. ~CallInFlight'
      BY <1>6 DEF Timeout, Raise, CallInFlight, Running
    <2>2. CallInFlight <=> Top.phase = "sent"
      BY <1>6 DEF Timeout, CallInFlight
    <2> QED  BY <1>0, <1>6, <2>1, <2>2 DEF Timeout, ModelCallsBalance
  <1>7. CASE AcceptRequest
    <2> DEFINE f == NewFrame("handler", NoName, "run", FALSE)
    <2>1. stack' = <<f>> /\ f.phase = "run"
      BY <1>7 DEF AcceptRequest, NewFrame
    <2> HIDE DEF f
    <2>2. Len(stack') = 1 /\ stack'[1] = f
      BY <2>1
    <2>3. ~CallInFlight'
      BY <2>1, <2>2 DEF CallInFlight, Top
    <2>4. ~CallInFlight
      BY <1>7 DEF AcceptRequest, CallInFlight, Running
    <2> QED  BY <1>7, <2>3, <2>4, BalanceKept DEF AcceptRequest
  <1>8. CASE AtRest \/ UNCHANGED vars
    BY <1>1, <1>8 DEF AtRest, vars
  <1> QED  BY <1>3, <1>4, <1>5, <1>6, <1>7, <1>8 DEF Next, Timeouts

-----------------------------------------------------------------------------
(* The trace log *)

KindRecords(kind) == {r \in TraceRecord : r.kind = kind}
ToolRecords(t) == {r \in TraceRecord : r.kind = "ToolCall" /\ r.name = t}

TraceKinds == {"Inference", "ToolCall"}

(* What the properties count in the log, in a typed state.                  *)
LEMMA LogCounts ==
  ASSUME Typing
  PROVE  /\ DOMAIN traces = 1..Len(traces) /\ Len(traces) \in Nat
         /\ \A kind \in TraceKinds :
              /\ Records(kind) = Positions(traces, KindRecords(kind))
              /\ IsFiniteSet(Records(kind))
              /\ Cardinality(Records(kind)) = Count(traces, KindRecords(kind))
              /\ Count(traces, KindRecords(kind)) \in Nat
         /\ \A t \in Tools :
              /\ Cardinality({j \in Records("ToolCall") : traces[j].name = t})
                   = Count(traces, ToolRecords(t))
              /\ Count(traces, ToolRecords(t)) \in Nat
  <1>1. traces \in Seq(TraceRecord)
    BY DEF Typing, TypeOK, TraceRecord
  <1>2. DOMAIN traces = 1..Len(traces) /\ Len(traces) \in Nat
    BY <1>1, LenProperties
  <1>3. \A i \in DOMAIN traces : traces[i] \in TraceRecord
    BY <1>1, <1>2, ElementOfSeq
  <1>4. ASSUME NEW kind \in TraceKinds
        PROVE  Records(kind) = Positions(traces, KindRecords(kind))
    BY <1>3 DEF Records, Positions, KindRecords
  <1>5. ASSUME NEW t \in Tools
        PROVE  {j \in Records("ToolCall") : traces[j].name = t} = Positions(traces, ToolRecords(t))
    BY <1>3 DEF Records, Positions, ToolRecords
  <1>6. \A F : IsFiniteSet(Positions(traces, F)) /\ Count(traces, F) \in Nat
    BY <1>2, CountType
  <1>7. ASSUME NEW kind \in TraceKinds
        PROVE  /\ Records(kind) = Positions(traces, KindRecords(kind))
               /\ IsFiniteSet(Records(kind))
               /\ Cardinality(Records(kind)) = Count(traces, KindRecords(kind))
    BY <1>4, <1>6, Zenon DEF Count
  <1>8. ASSUME NEW t \in Tools
        PROVE  Cardinality({j \in Records("ToolCall") : traces[j].name = t})
                 = Count(traces, ToolRecords(t))
    BY <1>5, Zenon DEF Count
  <1> QED  BY <1>2, <1>6, <1>7, <1>8

Pushes(kind, name, id) ==
  traces' = Append(traces, [kind |-> kind, id |-> id, name |-> name])

(* A record pushed on the log is the last one, and counts for its kind and  *)
(* its tool only.                                                           *)
LEMMA PushCounts ==
  ASSUME Typing, NEW kind \in TraceKinds, NEW name \in Infers \cup Tools, NEW id \in Nat,
         Pushes(kind, name, id)
  PROVE  /\ Len(traces') = Len(traces) + 1 /\ DOMAIN traces' = 1..(Len(traces) + 1)
         /\ \A i \in 1..Len(traces) : traces'[i] = traces[i]
         /\ traces'[Len(traces) + 1] = [kind |-> kind, id |-> id, name |-> name]
         /\ \A k \in TraceKinds : Count(traces', KindRecords(k))
              = Count(traces, KindRecords(k)) + (IF k = kind THEN 1 ELSE 0)
         /\ \A t \in Tools : Count(traces', ToolRecords(t))
              = Count(traces, ToolRecords(t)) + (IF kind = "ToolCall" /\ t = name THEN 1 ELSE 0)
  <1> DEFINE r == [kind |-> kind, id |-> id, name |-> name]
             n == Len(traces)
  <1>1. traces \in Seq(TraceRecord) /\ r \in TraceRecord /\ traces' = Append(traces, r)
    BY DEF Typing, TypeOK, TraceRecord, Pushes, TraceKinds
  <1>2. r.kind = kind /\ r.name = name
    OBVIOUS
  <1> HIDE DEF r
  <1>3. /\ DOMAIN traces = 1..n /\ n \in Nat /\ DOMAIN traces' = 1..(n + 1)
        /\ Len(traces') = n + 1
        /\ \A i \in 1..n : traces'[i] = traces[i]
        /\ traces'[n + 1] = r
    BY <1>1, AppendProperties, LenProperties
  <1> HIDE DEF n
  <1>4. \A F : Count(traces', F) = Count(traces, F) + (IF r \in F THEN 1 ELSE 0)
    BY <1>3, CountLonger
  <1>5. \A k \in TraceKinds : r \in KindRecords(k) <=> k = kind
    BY <1>1, <1>2 DEF KindRecords
  <1>6. \A t \in Tools : r \in ToolRecords(t) <=> kind = "ToolCall" /\ t = name
    BY <1>1, <1>2 DEF ToolRecords
  <1> USE DEF n
  <1>7. \A k \in TraceKinds : Count(traces', KindRecords(k))
          = Count(traces, KindRecords(k)) + (IF k = kind THEN 1 ELSE 0)
    BY <1>4, <1>5
  <1>8. \A t \in Tools : Count(traces', ToolRecords(t))
          = Count(traces, ToolRecords(t)) + (IF kind = "ToolCall" /\ t = name THEN 1 ELSE 0)
    BY <1>4, <1>6
  <1> QED  BY <1>3, <1>7, <1>8 DEF r

\* A step pushes one record and counts the call if it is a model's, or leaves
\* the log and the count.
LogsInference == \E f \in Infers : RecordInference(f) /\ total_model_calls' = total_model_calls + 1
LogsTool(t)   == RecordTool(t) /\ UNCHANGED total_model_calls
LogsNothing   == UNCHANGED <<traceVars, total_model_calls>>

(* The only steps that count a model call are those that log it.            *)
LEMMA StepLogs ==
  ASSUME Typing, [Next]_vars
  PROVE  LogsInference \/ (\E t \in Tools : LogsTool(t)) \/ LogsNothing
  <1> USE DEF LogsInference, LogsTool, LogsNothing, budgetVars
  <1>1. CASE Code
    <2>1. ASSUME NEW valid \in BOOLEAN, ToolReturns(valid)
          PROVE  \E t \in Tools : LogsTool(t)
      BY <2>1, ToolReturnsStack DEF ToolReturns
    <2> QED  BY <1>1, <2>1 DEF Code, DeclareTool, DeclareBudget, AwaitInference, AwaitTool,
               AwaitSleep, Wake, ProgramError, HandlerReturns, MainReturns, StartServing
  <1>2. CASE Conversation
    <2>1. ASSUME NEW valid \in BOOLEAN, MockAnswers(valid)
          PROVE  \E t \in Tools : LogsTool(t)
      BY <2>1, InferenceAssumptions DEF MockAnswers
    <2>2. CASE NoImplementation
      <3>1. Top \in Good /\ (Top.kind = "infer" => Top.wants \in tools_registry)
        BY <2>2, TopFacts DEF NoImplementation, CallsTool, Callable, Running
      <3>2. Top.wants \in Tools
        BY <2>2, <3>1 DEF NoImplementation, CallsTool, Good, Frame, Typing, TypeOK
      <3> QED  BY <2>2, <3>2 DEF NoImplementation
    <2>3. CASE Unwind
      <3>1. Top.kind = "tool" => Top.name \in Tools
        BY <2>3, TopFacts DEF Unwind, Good
      <3> QED  BY <2>3, <3>1 DEF Unwind
    <2> QED  BY <1>2, <2>1, <2>2, <2>3 DEF Conversation, RejectModelCall, AskModel,
               RefuseToolCall, RefuseArguments, RunToolBody
  <1>3. CASE Model
    <2>1. ASSUME InConversation("sent")
          PROVE  Top.name \in Infers
      BY <2>1, TopFacts DEF InConversation, Running, Good
    <2> QED  BY <1>3, <2>1 DEF Model, ModelAnswers, ModelAnswersBadly, ModelCallsTool,
                               RecordModelCall
  <1>4. CASE Timeouts \/ AcceptRequest \/ AtRest \/ UNCHANGED vars
    BY <1>4 DEF Timeouts, Timeout, AcceptRequest, AtRest, vars
  <1> QED  BY <1>1, <1>2, <1>3, <1>4 DEF Next

\* The counter that numbers the records of a kind.
NextId(kind) == IF kind = "Inference" THEN next_inference_id ELSE next_tool_call_id

\* TracesNumberCalls alone says nothing of the counters the next record's
\* number comes from.
Numbered ==
  /\ total_model_calls = Count(traces, KindRecords("Inference"))
  /\ \A kind \in TraceKinds : NextId(kind) = Count(traces, KindRecords(kind)) + 1
  /\ \A i \in DOMAIN traces :
       traces[i].id = Cardinality({j \in Records(traces[i].kind) : j <= i})

(* A record numbered by its kind's counter gets its place among the records *)
(* of its kind, and moves no other.                                         *)
LEMMA NumberedPush ==
  ASSUME Typing, Numbered, NEW kind \in TraceKinds, NEW name \in Infers \cup Tools,
         Pushes(kind, name, NextId(kind))
  PROVE  \A i \in DOMAIN traces' :
           traces'[i].id = Cardinality({j \in Records(traces[i].kind) : j <= i}')
  <1> DEFINE n == Len(traces)
             Upto(i) == {j \in Records(traces[i].kind) : j <= i}
  <1>1. /\ DOMAIN traces = 1..n /\ n \in Nat
        /\ NextId(kind) = Count(traces, KindRecords(kind)) + 1
        /\ Count(traces, KindRecords(kind)) \in Nat
    BY LogCounts DEF Numbered
  <1>2. NextId(kind) \in Nat
    BY <1>1
  <1>3. /\ DOMAIN traces' = 1..(n + 1)
        /\ \A i \in 1..n : traces'[i] = traces[i]
        /\ traces'[n + 1] = [kind |-> kind, id |-> NextId(kind), name |-> name]
        /\ Count(traces', KindRecords(kind)) = Count(traces, KindRecords(kind)) + 1
    BY <1>2, PushCounts
  <1> HIDE DEF n
  <1>4. ASSUME NEW i \in 1..n PROVE traces'[i].id = Cardinality(Upto(i)')
    <2>1. Upto(i)' = Upto(i)
      BY <1>1, <1>3, <1>4 DEF Records
    <2>2. traces[i].id = Cardinality(Upto(i))
      BY <1>1, <1>4 DEF Numbered
    <2> HIDE DEF Upto
    <2> QED  BY <1>3, <1>4, <2>1, <2>2
  <1>5. ASSUME NEW i \in Nat, i = n + 1 PROVE traces'[i].id = Cardinality(Upto(i)')
    <2>1. traces'[i].kind = kind /\ traces'[i].id = NextId(kind)
      BY <1>3, <1>5
    <2>2. Upto(i)' = Records(kind) \cup {i} /\ i \notin Records(kind)
      BY <1>1, <1>3, <1>5, <2>1 DEF Records
    <2>3. IsFiniteSet(Records(kind))
          /\ Cardinality(Records(kind)) = Count(traces, KindRecords(kind))
      BY LogCounts
    <2>4. Cardinality(Records(kind) \cup {i}) = Count(traces, KindRecords(kind)) + 1
      BY <2>2, <2>3, FS_AddElement
    <2> HIDE DEF Upto
    <2>5. Cardinality(Upto(i)') = Cardinality(Records(kind) \cup {i})
      BY <2>2, Zenon
    <2> QED  BY <1>1, <2>1, <2>4, <2>5
  <1>6. ASSUME NEW i \in DOMAIN traces' PROVE traces'[i].id = Cardinality(Upto(i)')
    <2>1. i \in 1..n \/ (i = n + 1 /\ i \in Nat)
      BY <1>1, <1>3, <1>6
    <2> HIDE DEF Upto
    <2> QED  BY <1>4, <1>5, <2>1
  <1> QED  BY <1>6

(* Every step numbers the record it pushes, and counts it if it is a        *)
(* model's.                                                                 *)
LEMMA NumberedInductive ==
  /\ Init => Numbered
  /\ Typing /\ Numbered /\ [Next]_vars => Numbered'
  <1>1. ASSUME Init PROVE Numbered
    <2>1. traces = <<>> /\ DOMAIN traces = {} /\ total_model_calls = 0
          /\ next_inference_id = 1 /\ next_tool_call_id = 1
      BY <1>1 DEF Init
    <2>2. \A F : Count(traces, F) = 0
      BY <2>1, CountEmpty
    <2> QED  BY <2>1, <2>2 DEF Numbered, NextId
  <1>2. ASSUME Typing, Numbered, [Next]_vars PROVE Numbered'
    <2>1. \A kind \in TraceKinds : Count(traces, KindRecords(kind)) \in Nat
      BY <1>2, LogCounts
    <2>2. CASE LogsInference
      <3>1. PICK f \in Infers : RecordInference(f) /\ total_model_calls' = total_model_calls + 1
        BY <2>2 DEF LogsInference
      <3>2. Pushes("Inference", f, NextId("Inference")) /\ "Inference" \in TraceKinds
        BY <3>1 DEF RecordInference, Pushes, NextId, TraceKinds
      <3>3. NextId("Inference") \in Nat
        BY <1>2, <2>1, <3>2 DEF Numbered
      <3>4. \A k \in TraceKinds : Count(traces', KindRecords(k))
              = Count(traces, KindRecords(k)) + (IF k = "Inference" THEN 1 ELSE 0)
        BY <1>2, <3>2, <3>3, PushCounts
      <3>5. \A i \in DOMAIN traces' :
              traces'[i].id = Cardinality({j \in Records(traces[i].kind) : j <= i}')
        BY <1>2, <3>2, NumberedPush
      <3>6. \A kind \in TraceKinds : NextId(kind)' = Count(traces', KindRecords(kind)) + 1
        BY <1>2, <2>1, <3>1, <3>4 DEF Numbered, RecordInference, NextId, TraceKinds
      <3>7. total_model_calls' = Count(traces', KindRecords("Inference"))
        BY <1>2, <3>1, <3>2, <3>4 DEF Numbered
      <3> QED  BY <3>5, <3>6, <3>7 DEF Numbered
    <2>3. ASSUME NEW t \in Tools, LogsTool(t) PROVE Numbered'
      <3>1. Pushes("ToolCall", t, NextId("ToolCall")) /\ "ToolCall" \in TraceKinds
            /\ "Inference" \in TraceKinds
        BY <2>3 DEF LogsTool, RecordTool, Pushes, NextId, TraceKinds
      <3>2. NextId("ToolCall") \in Nat
        BY <1>2, <2>1, <3>1 DEF Numbered
      <3>3. \A k \in TraceKinds : Count(traces', KindRecords(k))
              = Count(traces, KindRecords(k)) + (IF k = "ToolCall" THEN 1 ELSE 0)
        BY <1>2, <3>1, <3>2, PushCounts
      <3>4. \A i \in DOMAIN traces' :
              traces'[i].id = Cardinality({j \in Records(traces[i].kind) : j <= i}')
        BY <1>2, <3>1, NumberedPush
      <3>5. \A kind \in TraceKinds : NextId(kind)' = Count(traces', KindRecords(kind)) + 1
        BY <1>2, <2>1, <2>3, <3>3 DEF Numbered, LogsTool, RecordTool, NextId, TraceKinds
      <3>6. total_model_calls' = Count(traces', KindRecords("Inference"))
        BY <1>2, <2>1, <2>3, <3>1, <3>3 DEF Numbered, LogsTool
      <3> QED  BY <3>4, <3>5, <3>6 DEF Numbered
    <2>4. CASE LogsNothing
      BY <1>2, <2>4 DEF Numbered, LogsNothing, traceVars, NextId, Records
    <2> QED  BY <1>2, <2>2, <2>3, <2>4, StepLogs
  <1> QED  BY <1>1, <1>2

(* The log numbers model calls and tool calls 1, 2, 3... in its own order,  *)
(* and holds one Inference record for each model call counted, for every    *)
(* interleaving of code, conversations and timeouts.                        *)
THEOREM TracesAreNumbered == Spec => []TracesNumberCalls
  <1>1. Typing /\ Numbered => TracesNumberCalls
    BY LogCounts DEF Numbered, TracesNumberCalls, TraceKinds
  <1>2. Init => Typing /\ Numbered
    BY TypingInductive, NumberedInductive
  <1>3. Typing /\ Numbered /\ [Next]_vars => Typing' /\ Numbered'
    BY TypingInductive, NumberedInductive
  <1> QED  BY <1>1, <1>2, <1>3, PTL DEF Spec

-----------------------------------------------------------------------------
(* The books: tool calls *)

Bodies == {f \in Good : f.kind = "tool"}
Logged == Count(traces, KindRecords("ToolCall"))

\* Every tool call started is logged, running its body or was dropped.
ToolCallsBalance == tool_starts = Logged + Count(stack, Bodies) + cancelled

(* ToolFrames are the positions of the bodies.                              *)
LEMMA BodiesAreToolFrames ==
  ASSUME Typing
  PROVE  /\ DOMAIN stack = 1..Len(stack) /\ Len(stack) \in Nat
         /\ \A i \in 1..Len(stack) : stack[i] \in Good
         /\ ToolFrames(stack) = Positions(stack, Bodies)
         /\ Count(stack, Bodies) \in Nat
  <1>1. DOMAIN stack = 1..Len(stack) /\ Len(stack) \in Nat
    BY LenProperties DEF Typing, Rooted
  <1>2. \A i \in 1..Len(stack) : stack[i] \in Good
    BY <1>1, ElementOfSeq DEF Typing, Rooted
  <1>3. ToolFrames(stack) = Positions(stack, Bodies)
    BY <1>1, <1>2 DEF ToolFrames, Positions, Bodies
  <1> QED  BY <1>1, <1>2, <1>3, CountType

(* How many bodies run after each of the four steps.                        *)
LEMMA BodyCounts ==
  ASSUME Typing, DOMAIN stack' = 1..Len(stack'), NEW g, NEW h, NEW n
  PROVE  /\ TopBecomes(g) => Count(stack', Bodies) = Count(stack, Bodies)
         /\ TopPushes(g, h) => Count(stack', Bodies)
              = Count(stack, Bodies) + (IF h.kind = "tool" THEN 1 ELSE 0)
         /\ CallerBecomes(g) => Count(stack, Bodies)
              = Count(stack', Bodies) + (IF Top.kind = "tool" THEN 1 ELSE 0)
         /\ CutsTo(n) => Count(stack, Bodies)
              = Count(stack', Bodies) + Cardinality({i \in ToolFrames(stack) : i > n})
         /\ CutsTo(Len(stack) - 1) => Count(stack, Bodies)
              = Count(stack', Bodies) + (IF Top.kind = "tool" THEN 1 ELSE 0)
  <1> USE BodiesAreToolFrames
  <1>1. ASSUME TopBecomes(g) PROVE Count(stack', Bodies) = Count(stack, Bodies)
    <2>1. \A i \in 1..Len(stack) : stack[i] \in Bodies <=> stack'[i] \in Bodies
      BY <1>1 DEF TopBecomes, KeepsBelow, Top, Bodies
    <2>2. DOMAIN stack' = DOMAIN stack
      BY <1>1 DEF TopBecomes
    <2> QED  BY <2>1, <2>2, CountSame
  <1>2. ASSUME TopPushes(g, h)
        PROVE  Count(stack', Bodies) = Count(stack, Bodies) + (IF h.kind = "tool" THEN 1 ELSE 0)
    <2>1. \A i \in 1..Len(stack) : stack[i] \in Bodies <=> stack'[i] \in Bodies
      BY <1>2 DEF TopPushes, KeepsBelow, Top, Bodies
    <2>2. DOMAIN stack' = 1..(Len(stack) + 1)
          /\ (stack'[Len(stack) + 1] \in Bodies <=> h.kind = "tool")
      BY <1>2 DEF TopPushes, Bodies
    <2>3. Count(stack', Bodies)
            = Count(stack, Bodies) + (IF stack'[Len(stack) + 1] \in Bodies THEN 1 ELSE 0)
      BY <2>1, <2>2, CountLonger
    <2> QED  BY <2>2, <2>3
  <1>3. ASSUME CallerBecomes(g) \/ CutsTo(Len(stack) - 1)
        PROVE  Count(stack, Bodies) = Count(stack', Bodies) + (IF Top.kind = "tool" THEN 1 ELSE 0)
    <2> DEFINE m == Len(stack) - 1
    <2>0. Len(stack) \in Nat \ {0} /\ Len(stack') = m
      BY <1>3 DEF CallerBecomes, CutsTo
    <2>1. m \in Nat /\ DOMAIN stack' = 1..m /\ DOMAIN stack = 1..(m + 1) /\ m + 1 = Len(stack)
      BY <2>0
    <2>2. ASSUME NEW i \in 1..m PROVE stack'[i] \in Bodies <=> stack[i] \in Bodies
      <3>1. CASE CallerBecomes(g)
        BY <2>0, <2>2, <3>1 DEF CallerBecomes, KeepsBelow, Caller, Bodies
      <3>2. CASE CutsTo(Len(stack) - 1)
        BY <2>0, <2>2, <3>2 DEF CutsTo, KeepsBelow, Bodies
      <3> QED  BY <1>3, <3>1, <3>2
    <2>3. stack[m + 1] \in Bodies <=> Top.kind = "tool"
      BY <2>1 DEF Top, Bodies
    <2> HIDE DEF m
    <2>4. Count(stack, Bodies)
            = Count(stack', Bodies) + (IF stack[m + 1] \in Bodies THEN 1 ELSE 0)
      BY <2>1, <2>2, CountLonger
    <2> QED  BY <2>3, <2>4
  <1>4. ASSUME CutsTo(n)
        PROVE  Count(stack, Bodies)
                 = Count(stack', Bodies) + Cardinality({i \in ToolFrames(stack) : i > n})
    <2>1. n \in 0..Len(stack) /\ DOMAIN stack' = 1..n /\ \A i \in 1..n : stack'[i] = stack[i]
      BY <1>4 DEF CutsTo, KeepsBelow
    <2>2. Count(stack, Bodies)
            = Count(stack', Bodies) + Cardinality({i \in Positions(stack, Bodies) : i > n})
      BY <2>1, CountCut
    <2>3. ToolFrames(stack) = Positions(stack, Bodies)
      OBVIOUS
    <2> QED  BY <2>2, <2>3, Zenon
  <1> QED  BY <1>1, <1>2, <1>3, <1>4

(* RecordTool adds one to the tool calls logged, RecordInference none.      *)
LEMMA LoggedAfter ==
  ASSUME Typing
  PROVE  /\ Logged \in Nat
         /\ \A t \in Tools : RecordTool(t) => Logged' = Logged + 1
         /\ \A f \in Infers : RecordInference(f) => Logged' = Logged
         /\ UNCHANGED traceVars => Logged' = Logged
  <1>1. "ToolCall" \in TraceKinds /\ "Inference" \in TraceKinds
    BY DEF TraceKinds
  <1>2. next_inference_id \in Nat /\ next_tool_call_id \in Nat
    BY DEF Typing, TypeOK
  <1>3. ASSUME NEW t \in Tools, RecordTool(t) PROVE Logged' = Logged + 1
    <2>1. Pushes("ToolCall", t, next_tool_call_id)
      BY <1>3 DEF RecordTool, Pushes
    <2> QED  BY <1>1, <1>2, <2>1, PushCounts DEF Logged
  <1>4. ASSUME NEW f \in Infers, RecordInference(f) PROVE Logged' = Logged
    <2>1. Pushes("Inference", f, next_inference_id)
      BY <1>4 DEF RecordInference, Pushes
    <2>2. Count(traces', KindRecords("ToolCall")) = Count(traces, KindRecords("ToolCall")) + 0
      BY <1>1, <1>2, <2>1, PushCounts
    <2> QED  BY <1>1, <2>2, LogCounts DEF Logged
  <1>5. ASSUME UNCHANGED traceVars PROVE Logged' = Logged
    BY <1>5 DEF traceVars, Logged
  <1> QED  BY <1>1, <1>3, <1>4, <1>5, LogCounts DEF Logged

(* Every tool call started stays accounted for.                             *)
LEMMA StepToolCalls ==
  ASSUME Typing, DOMAIN stack' = 1..Len(stack'), Len(stack') \in Nat,
         Disciplined(stack), ToolCallsBalance, [Next]_vars
  PROVE  ToolCallsBalance'
  <1> DEFINE B == Count(stack, Bodies)
  <1>0. /\ tool_starts \in Nat /\ cancelled \in Nat /\ Logged \in Nat /\ B \in Nat
        /\ tool_starts = Logged + B + cancelled
        /\ B' \in Nat
    BY LoggedAfter, BodiesAreToolFrames, CountType DEF Typing, TypeOK, ToolCallsBalance
  <1>1. (tool_starts' = Logged' + B' + cancelled') => ToolCallsBalance'
    BY DEF ToolCallsBalance
  <1>2. UNCHANGED stack => B' = B
    OBVIOUS
  <1>3. /\ \A g : TopBecomes(g) => B' = B
        /\ \A g, h : TopPushes(g, h) => B' = B + (IF h.kind = "tool" THEN 1 ELSE 0)
        /\ \A g : CallerBecomes(g) => B = B' + (IF Top.kind = "tool" THEN 1 ELSE 0)
        /\ CutsTo(Len(stack) - 1) => B = B' + (IF Top.kind = "tool" THEN 1 ELSE 0)
        /\ \A n : CutsTo(n) => B = B' + Cardinality({i \in ToolFrames(stack) : i > n})
    BY BodyCounts
  \* The program and the handler end alone on the stack.
  <1>4. ASSUME stack # <<>>, IsRoot(Top), stack' = <<>> PROVE B' = B
    <2>1. Len(stack) \in Nat \ {0}
      BY <1>4, TopFacts
    <2>2. Len(stack) = 1
      <3>1. Len(stack) \in 1..Len(stack) /\ IsRoot(stack[Len(stack)])
        BY <1>4, <2>1 DEF Top
      <3> QED  BY <3>1 DEF Disciplined, IsRoot
    <2>3. CutsTo(Len(stack) - 1) /\ Top.kind # "tool"
      BY <1>4, <2>2 DEF CutsTo, KeepsBelow, IsRoot
    <2>4. B = B' + 0
      BY <1>3, <2>3
    <2>5. B' = 0
      <3>1. DOMAIN stack' = {}
        BY <1>4
      <3> QED  BY <3>1, CountEmpty
    <2> QED  BY <2>4, <2>5
  <1> HIDE DEF B
  <1> USE <1>0, <1>1 DEF serverVars, budgetVars, toolVars
  <1>5. CASE Code
    <2>1. ASSUME NEW f \in Infers, AwaitInference(f) PROVE ToolCallsBalance'
      <3>1. B' = B
        BY <1>3, <2>1, AwaitInferenceStack
      <3> QED  BY <2>1, <3>1, LoggedAfter DEF AwaitInference
    <2>2. ASSUME NEW t \in Tools, AwaitTool(t) PROVE ToolCallsBalance'
      <3>1. B' = B
        BY <1>3, <2>2, AwaitToolStack
      <3> QED  BY <2>2, <3>1, LoggedAfter DEF AwaitTool
    <2>3. CASE AwaitSleep
      <3>1. B' = B
        BY <1>3, <2>3, AwaitSleepStack
      <3> QED  BY <2>3, <3>1, LoggedAfter DEF AwaitSleep
    <2>4. CASE Wake
      <3>1. B' = B
        BY <1>3, <2>4, WakeStack
      <3> QED  BY <2>4, <3>1, LoggedAfter DEF Wake
    <2>5. ASSUME NEW valid \in BOOLEAN, ToolReturns(valid) PROVE ToolCallsBalance'
      <3>1. B = B' + 1
        BY <1>3, <2>5, ToolReturnsStack
      <3>2. Top.name \in Tools
        BY <2>5, ToolReturnsStack
      <3>3. Logged' = Logged + 1
        BY <2>5, <3>2, LoggedAfter DEF ToolReturns
      <3> QED  BY <2>5, <3>1, <3>3 DEF ToolReturns
    <2>6. CASE HandlerReturns \/ MainReturns \/ StartServing
      <3>1. stack # <<>> /\ IsRoot(Top) /\ stack' = <<>>
        BY <2>6 DEF HandlerReturns, MainReturns, StartServing, InCode, Running, IsRoot
      <3>2. B' = B
        BY <1>4, <3>1
      <3> QED  BY <2>6, <3>2, LoggedAfter DEF HandlerReturns, MainReturns, StartServing
    <2>7. CASE \/ \E t \in Tools : DeclareTool(t)
               \/ \E b \in Budgets : DeclareBudget(b)
               \/ ProgramError
      BY <1>2, <2>7, LoggedAfter DEF DeclareTool, DeclareBudget, ProgramError
    <2> QED  BY <1>5, <2>1, <2>2, <2>3, <2>4, <2>5, <2>6, <2>7 DEF Code
  <1>6. CASE Conversation
    <2>1. CASE RejectModelCall \/ RefuseToolCall \/ RefuseArguments
      BY <1>2, <2>1, LoggedAfter DEF RejectModelCall, RefuseToolCall, RefuseArguments
    <2>2. CASE AskModel
      <3>1. B' = B
        BY <1>3, <2>2, AskModelStack
      <3> QED  BY <2>2, <3>1, LoggedAfter DEF AskModel
    <2>3. ASSUME NEW valid \in BOOLEAN, MockAnswers(valid) PROVE ToolCallsBalance'
      <3>1. Top.wants \in Tools /\ B' = B
        BY <1>2, <1>3, <2>3, MockAnswersStack
      <3>2. Logged' = Logged + 1
        BY <2>3, <3>1, LoggedAfter DEF MockAnswers
      <3> QED  BY <2>3, <3>1, <3>2 DEF MockAnswers, StartTool
    <2>4. CASE RunToolBody
      <3>1. B' = B + 1
        BY <1>3, <2>4, RunToolBodyStack
      <3> QED  BY <2>4, <3>1, LoggedAfter DEF RunToolBody, StartTool
    <2>5. CASE NoImplementation
      <3>1. stack # <<>> /\ Top.phase = "calling" /\ (Top.kind = "infer" => Top.wants \in tools_registry)
        BY <2>5 DEF NoImplementation, CallsTool, Callable, Running
      <3>2. Top \in Good
        BY <3>1, TopFacts
      <3>3. Top.wants \in Tools
        BY <3>1, <3>2 DEF Good, Frame, Typing, TypeOK
      <3>4. Logged' = Logged + 1
        BY <2>5, <3>3, LoggedAfter DEF NoImplementation
      <3> QED  BY <1>2, <2>5, <3>4 DEF NoImplementation, StartTool
    <2>6. CASE Unwind
      <3>1. stack # <<>>
        BY <2>6 DEF Unwind
      <3>2. Top.kind = "tool" => Top.name \in Tools
        BY <3>1, TopFacts DEF Good
      <3>3. Logged' = Logged + (IF Top.kind = "tool" THEN 1 ELSE 0)
        BY <2>6, <3>2, LoggedAfter DEF Unwind
      <3>4. B = B' + (IF Top.kind = "tool" THEN 1 ELSE 0)
        BY <1>3, <2>6, UnwindStack
      <3> QED  BY <2>6, <3>3, <3>4 DEF Unwind
    <2> QED  BY <1>6, <2>1, <2>2, <2>3, <2>4, <2>5, <2>6 DEF Conversation
  <1>7. CASE Model
    <2>1. ASSUME InConversation("sent") PROVE Top.name \in Infers
      BY <2>1, TopFacts DEF InConversation, Running, Good
    <2>2. CASE ModelAnswers
      <3>1. B = B' + 0
        BY <1>3, <2>2, ModelAnswersStack
      <3>2. Logged' = Logged
        BY <2>1, <2>2, LoggedAfter DEF ModelAnswers
      <3> QED  BY <2>2, <3>1, <3>2 DEF ModelAnswers
    <2>3. CASE ModelAnswersBadly
      <3>1. Logged' = Logged
        BY <2>1, <2>3, LoggedAfter DEF ModelAnswersBadly
      <3> QED  BY <1>2, <2>3, <3>1 DEF ModelAnswersBadly
    <2>4. ASSUME NEW t \in Names, ModelCallsTool(t) PROVE ToolCallsBalance'
      <3>1. B' = B
        BY <1>3, <2>4, ModelCallsToolStack
      <3>2. Logged' = Logged
        BY <2>1, <2>4, LoggedAfter DEF ModelCallsTool
      <3> QED  BY <2>4, <3>1, <3>2 DEF ModelCallsTool
    <2> QED  BY <1>7, <2>2, <2>3, <2>4 DEF Model
  \* The bodies a timeout drops sit above the conversation, which is not one.
  <1>8. ASSUME NEW k \in DOMAIN stack, Timeout(k) PROVE ToolCallsBalance'
    <2>1. CutsTo(k - 1) /\ k \in 2..Len(stack) /\ stack[k].kind = "infer"
      BY <1>8, TimeoutCuts
    <2>2. B = B' + Cardinality({i \in ToolFrames(stack) : i > k - 1})
      BY <1>3, <2>1
    <2>3. {i \in ToolFrames(stack) : i > k - 1} = {i \in ToolFrames(stack) : i > k}
      BY <2>1, BodiesAreToolFrames DEF ToolFrames
    <2>4. Cardinality({i \in ToolFrames(stack) : i > k - 1})
            = Cardinality({i \in ToolFrames(stack) : i > k})
      BY <2>3, Zenon
    <2>5. cancelled' = cancelled + Cardinality({i \in ToolFrames(stack) : i > k})
      BY <1>8 DEF Timeout
    <2> DEFINE C == Cardinality({i \in ToolFrames(stack) : i > k})
    <2>6. B = B' + C /\ cancelled' = cancelled + C
      BY <2>2, <2>4, <2>5, Zenon
    <2>7. C \in Nat
      <3>1. IsFiniteSet(ToolFrames(stack))
        BY BodiesAreToolFrames, CountType
      <3> QED  BY <3>1, FS_Subset, FS_CardinalityType
    <2> HIDE DEF C
    <2>8. Logged' = Logged /\ UNCHANGED tool_starts
      BY <1>8, LoggedAfter DEF Timeout
    <2> QED  BY <2>6, <2>7, <2>8
  <1>9. CASE AcceptRequest
    <2> DEFINE f == NewFrame("handler", NoName, "run", FALSE)
    <2>1. stack' = <<f>> /\ f.kind # "tool" /\ stack = <<>>
      BY <1>9 DEF AcceptRequest, NewFrame
    <2> HIDE DEF f
    <2>2. Positions(stack, Bodies) = {} /\ Positions(stack', Bodies) = {}
      BY <2>1 DEF Positions, Bodies
    <2>3. B' = B
      BY <2>2, Zenon DEF Count, B
    <2> QED  BY <1>9, <2>3, LoggedAfter DEF AcceptRequest
  <1>10. CASE AtRest \/ UNCHANGED vars
    BY <1>2, <1>10, LoggedAfter DEF AtRest, vars
  <1> QED  BY <1>5, <1>6, <1>7, <1>8, <1>9, <1>10 DEF Next, Timeouts

Accounted == Disciplined(stack) /\ ModelCallsBalance /\ ToolCallsBalance

(* With the discipline of the stack, both balances are inductive.           *)
LEMMA AccountedInductive ==
  /\ Init => Accounted
  /\ Typing /\ Typing' /\ Accounted /\ [Next]_vars => Accounted'
  <1>1. ASSUME Init PROVE Accounted
    <2> DEFINE f == NewFrame("main", NoName, "run", FALSE)
    <2>1. /\ stack = <<f>> /\ f.kind = "main" /\ f.phase = "run" /\ traces = <<>>
          /\ issued = 0 /\ total_model_calls = 0 /\ abandoned = 0
          /\ tool_starts = 0 /\ cancelled = 0
      BY <1>1 DEF Init, NewFrame
    <2> HIDE DEF f
    <2>2. Top = f
      BY <2>1 DEF Top
    <2>3. ModelCallsBalance
      BY <2>1, <2>2 DEF ModelCallsBalance, CallInFlight
    <2>4. DOMAIN traces = {}
      BY <2>1
    <2>5. Logged = 0
      BY <2>4, CountEmpty DEF Logged
    <2>6. Positions(stack, Bodies) = {}
      BY <2>1 DEF Positions, Bodies
    <2>7. Count(stack, Bodies) = 0
      BY <2>6, FS_EmptySet DEF Count
    <2>8. ToolCallsBalance
      BY <2>1, <2>5, <2>7 DEF ToolCallsBalance
    <2> QED  BY <1>1, <2>3, <2>8, DisciplineInductive DEF Accounted
  <1>2. ASSUME Typing, Typing', Accounted, [Next]_vars PROVE Accounted'
    <2>1. DOMAIN stack' = 1..Len(stack') /\ Len(stack') \in Nat
      BY <1>2, LenProperties DEF Typing, Rooted
    <2>2. ModelCallsBalance' /\ ToolCallsBalance' /\ Disciplined(stack')
      BY <1>2, <2>1, StepModelCalls, StepToolCalls, StepDisciplined DEF Accounted
    <2> QED  BY <2>2 DEF Accounted
  <1> QED  BY <1>1, <1>2

(* No call is lost: every model call issued is counted, in flight or        *)
(* dropped by a timeout, and every tool call started is logged, running its *)
(* body or dropped by a timeout, however the two nest.                      *)
THEOREM AccountsAreKept == Spec => []CallsAreAccounted
  <1>1. Typing /\ Accounted => CallsAreAccounted
    <2> SUFFICES ASSUME Typing, Accounted PROVE CallsAreAccounted
      OBVIOUS
    <2>1. Cardinality(Records("ToolCall")) = Logged
      BY LogCounts DEF Logged, TraceKinds
    <2>2. Cardinality(ToolFrames(stack)) = Count(stack, Bodies)
      BY BodiesAreToolFrames, Zenon DEF Count
    <2> QED  BY <2>1, <2>2 DEF Accounted, ModelCallsBalance, ToolCallsBalance, CallsAreAccounted
  <1>2. Init => Typing /\ Accounted
    BY TypingInductive, AccountedInductive
  <1>3. Typing /\ Accounted /\ [Next]_vars => Typing' /\ Accounted'
    BY TypingInductive, AccountedInductive
  <1> QED  BY <1>1, <1>2, <1>3, PTL DEF Spec

-----------------------------------------------------------------------------
(* What holds of every frame *)

(* After each of the four steps a frame is one of the old ones, or the      *)
(* frame that step changed or pushed.                                       *)
LEMMA FramesAfter ==
  ASSUME NEW g, NEW h, NEW n, NEW i \in 1..Len(stack')
  PROVE  /\ TopBecomes(g) => stack'[i] = g \/ (i \in 1..Len(stack) /\ stack'[i] = stack[i])
         /\ TopPushes(g, h) => \/ stack'[i] = g \/ stack'[i] = h
                               \/ i \in 1..Len(stack) /\ stack'[i] = stack[i]
         /\ CallerBecomes(g) => stack'[i] = g \/ (i \in 1..Len(stack) /\ stack'[i] = stack[i])
         /\ CutsTo(n) => i \in 1..Len(stack) /\ stack'[i] = stack[i]
  <1>1. TopBecomes(g) => stack'[i] = g \/ (i \in 1..Len(stack) /\ stack'[i] = stack[i])
    BY DEF TopBecomes, KeepsBelow
  <1>2. TopPushes(g, h) => \/ stack'[i] = g \/ stack'[i] = h
                           \/ i \in 1..Len(stack) /\ stack'[i] = stack[i]
    BY DEF TopPushes, KeepsBelow
  <1>3. CallerBecomes(g) => stack'[i] = g \/ (i \in 1..Len(stack) /\ stack'[i] = stack[i])
    BY DEF CallerBecomes, KeepsBelow
  <1>4. CutsTo(n) => i \in 1..Len(stack) /\ stack'[i] = stack[i]
    BY DEF CutsTo, KeepsBelow
  <1> QED  BY <1>1, <1>2, <1>3, <1>4

\* Code that calls a tool calls one declared before: MocksWin is not
\* inductive without it.
CallsDeclared(f, registry) ==
  f.kind \in CodeKinds /\ f.phase = "calling" => f.wants \in registry

BodyAllowed(f, registry) ==
  f.kind = "tool" => f.name \in (WithBody \cap registry) \ Mocked

AllDeclared(s, registry) ==
  \A i \in 1..Len(s) : CallsDeclared(s[i], registry) /\ BodyAllowed(s[i], registry)

(* The four steps keep AllDeclared if the frame they change or push         *)
(* satisfies it and the registry only grows.                                *)
LEMMA DeclaredKept ==
  ASSUME AllDeclared(stack, tools_registry), tools_registry \subseteq tools_registry',
         NEW g, NEW h, NEW n,
         \/ TopBecomes(g) /\ CallsDeclared(g, tools_registry')
         \/ TopPushes(g, h) /\ CallsDeclared(g, tools_registry')
              /\ CallsDeclared(h, tools_registry') /\ BodyAllowed(h, tools_registry')
         \/ CallerBecomes(g) /\ CallsDeclared(g, tools_registry')
         \/ CutsTo(n)
  PROVE  AllDeclared(stack', tools_registry')
  <1> DEFINE R == tools_registry'
             Ok(f) == CallsDeclared(f, R) /\ BodyAllowed(f, R)
  <1>1. \A i \in 1..Len(stack) : Ok(stack[i])
    BY DEF AllDeclared, CallsDeclared, BodyAllowed
  <1>2. ASSUME TopBecomes(g) \/ TopPushes(g, h) PROVE BodyAllowed(g, R)
    <2>1. Len(stack) \in 1..Len(stack) /\ g.kind = Top.kind /\ g.name = Top.name
      BY <1>2 DEF TopBecomes, TopPushes
    <2>2. BodyAllowed(Top, R)
      BY <1>1, <2>1 DEF Top
    <2> QED  BY <2>1, <2>2 DEF BodyAllowed
  <1>3. ASSUME CallerBecomes(g) PROVE BodyAllowed(g, R)
    <2>1. Len(stack) - 1 \in 1..Len(stack) /\ g.kind = Caller.kind /\ g.name = Caller.name
      BY <1>3 DEF CallerBecomes
    <2>2. BodyAllowed(Caller, R)
      BY <1>1, <2>1 DEF Caller
    <2> QED  BY <2>1, <2>2 DEF BodyAllowed
  <1> HIDE DEF Ok
  <1>4. ASSUME NEW i \in 1..Len(stack') PROVE Ok(stack'[i])
    <2>1. CASE TopBecomes(g) /\ CallsDeclared(g, R)
      BY <1>1, <1>2, <2>1, <1>4, FramesAfter DEF Ok
    <2>2. CASE TopPushes(g, h) /\ CallsDeclared(g, R)
               /\ CallsDeclared(h, R) /\ BodyAllowed(h, R)
      BY <1>1, <1>2, <2>2, <1>4, FramesAfter DEF Ok
    <2>3. CASE CallerBecomes(g) /\ CallsDeclared(g, R)
      BY <1>1, <1>3, <2>3, <1>4, FramesAfter DEF Ok
    <2>4. CASE CutsTo(n)
      BY <1>1, <2>4, <1>4, FramesAfter
    <2> QED  BY <2>1, <2>2, <2>3, <2>4
  <1> QED  BY <1>4 DEF AllDeclared, Ok

(* No step calls an undeclared tool from code or starts a mocked or         *)
(* undeclared body.                                                         *)
LEMMA StepDeclared ==
  ASSUME Typing, AllDeclared(stack, tools_registry), [Next]_vars
  PROVE  AllDeclared(stack', tools_registry')
  <1> DEFINE Goal == AllDeclared(stack', tools_registry')
  <1>1. CASE UNCHANGED stack /\ tools_registry \subseteq tools_registry'
    BY <1>1 DEF AllDeclared, CallsDeclared, BodyAllowed
  <1>2. CASE stack' = <<>>
    BY <1>2 DEF AllDeclared
  <1>3. \A g : g.phase # "calling" => CallsDeclared(g, tools_registry')
    BY DEF CallsDeclared
  <1>4. CASE Code
    <2>1. ASSUME NEW f \in Infers, AwaitInference(f) PROVE Goal
      <3>1. PICK g, h : /\ TopPushes(g, h) /\ g.phase = "awaiting"
                        /\ h.kind = "infer" /\ h.phase = "check"
        BY <2>1, AwaitInferenceStack
      <3>2. BodyAllowed(h, tools_registry')
        BY <3>1 DEF BodyAllowed
      <3>3. UNCHANGED tools_registry
        BY <2>1 DEF AwaitInference, toolVars
      <3> QED  BY <1>3, <3>1, <3>2, <3>3, DeclaredKept
    <2>2. ASSUME NEW t \in Tools, AwaitTool(t) PROVE Goal
      <3>1. PICK g : TopBecomes(g) /\ g.phase = "calling" /\ g.wants = t
        BY <2>2, AwaitToolStack
      <3>2. UNCHANGED tools_registry /\ t \in tools_registry
        BY <2>2 DEF AwaitTool, toolVars
      <3>3. CallsDeclared(g, tools_registry')
        BY <3>1, <3>2 DEF CallsDeclared
      <3> QED  BY <3>1, <3>2, <3>3, DeclaredKept
    <2>3. CASE AwaitSleep
      <3>1. PICK g : TopBecomes(g) /\ g.phase = "asleep"
        BY <2>3, AwaitSleepStack
      <3>2. UNCHANGED tools_registry
        BY <2>3 DEF AwaitSleep, toolVars
      <3> QED  BY <1>3, <3>1, <3>2, DeclaredKept
    <2>4. CASE Wake
      <3>1. PICK g : TopBecomes(g) /\ g.phase = "run"
        BY <2>4, WakeStack
      <3>2. UNCHANGED tools_registry
        BY <2>4 DEF Wake, toolVars
      <3> QED  BY <1>3, <3>1, <3>2, DeclaredKept
    <2>5. ASSUME NEW valid \in BOOLEAN, ToolReturns(valid) PROVE Goal
      <3>1. UNCHANGED tools_registry
        BY <2>5 DEF ToolReturns, toolVars
      <3>2. CASE valid
        <4>1. PICK g : CallerBecomes(g) /\ g.phase \in {"check", "run"}
          BY <2>5, <3>2, ToolReturnsStack
        <4> QED  BY <1>3, <3>1, <4>1, DeclaredKept
      <3>3. CASE ~valid
        BY <2>5, <3>1, <3>3, ToolReturnsStack, DeclaredKept
      <3> QED  BY <3>2, <3>3
    <2>6. CASE HandlerReturns \/ MainReturns \/ StartServing
      BY <1>2, <2>6 DEF HandlerReturns, MainReturns, StartServing
    <2>7. CASE \/ \E t \in Tools : DeclareTool(t)
               \/ \E b \in Budgets : DeclareBudget(b)
               \/ ProgramError
      BY <1>1, <2>7 DEF DeclareTool, DeclareBudget, ProgramError, toolVars
    <2> QED  BY <1>4, <2>1, <2>2, <2>3, <2>4, <2>5, <2>6, <2>7 DEF Code
  <1>5. CASE Conversation
    <2>1. ASSUME NEW valid \in BOOLEAN, MockAnswers(valid) PROVE Goal
      <3>1. UNCHANGED tools_registry
        BY <2>1 DEF MockAnswers, StartTool
      <3>2. CASE valid
        <4>1. PICK g : TopBecomes(g) /\ g.phase \in {"check", "run"}
          BY <2>1, <3>2, MockAnswersStack
        <4> QED  BY <1>3, <3>1, <4>1, DeclaredKept
      <3>3. CASE ~valid
        BY <1>1, <2>1, <3>1, <3>3, MockAnswersStack
      <3> QED  BY <3>2, <3>3
    <2>2. CASE RunToolBody
      <3>1. PICK h : /\ TopPushes(Top, h) /\ Top.phase = "calling"
                     /\ Top.wants \in WithBody \ Mocked /\ (Top.kind = "infer" => Callable)
                     /\ h.kind = "tool" /\ h.name = Top.wants /\ h.phase = "run"
        BY <2>2, RunToolBodyStack
      <3>2. UNCHANGED tools_registry
        BY <2>2 DEF RunToolBody, StartTool
      <3>3. CallsDeclared(Top, tools_registry)
        BY <3>1 DEF TopPushes, AllDeclared, Top
      <3>4. Top.kind \in CodeKinds \/ Top.kind = "infer"
        BY <3>1 DEF TopPushes, Good, Frame
      <3>5. Top.wants \in tools_registry
        BY <3>1, <3>3, <3>4 DEF CallsDeclared, Callable
      <3>6. BodyAllowed(h, tools_registry')
        BY <3>1, <3>2, <3>5 DEF BodyAllowed
      <3> QED  BY <1>3, <3>1, <3>2, <3>3, <3>6, DeclaredKept
    <2>3. CASE AskModel
      <3>1. PICK g : TopBecomes(g) /\ g.phase = "sent"
        BY <2>3, AskModelStack
      <3>2. UNCHANGED tools_registry
        BY <2>3 DEF AskModel, toolVars
      <3> QED  BY <1>3, <3>1, <3>2, DeclaredKept
    <2>4. CASE Unwind
      <3>1. UNCHANGED tools_registry
        BY <2>4 DEF Unwind, toolVars
      <3> QED  BY <2>4, <3>1, UnwindStack, DeclaredKept
    <2>5. CASE RejectModelCall \/ RefuseToolCall \/ RefuseArguments \/ NoImplementation
      BY <1>1, <2>5 DEF RejectModelCall, RefuseToolCall, RefuseArguments, NoImplementation,
                        StartTool, toolVars
    <2> QED  BY <1>5, <2>1, <2>2, <2>3, <2>4, <2>5 DEF Conversation
  <1>6. CASE Model
    <2>1. CASE ModelAnswers
      <3>1. PICK g : CallerBecomes(g) /\ g.phase = "run"
        BY <2>1, ModelAnswersStack
      <3>2. UNCHANGED tools_registry
        BY <2>1 DEF ModelAnswers, toolVars
      <3> QED  BY <1>3, <3>1, <3>2, DeclaredKept
    <2>2. CASE ModelAnswersBadly
      BY <1>1, <2>2 DEF ModelAnswersBadly, toolVars
    <2>3. ASSUME NEW t \in Names, ModelCallsTool(t) PROVE Goal
      <3>1. PICK g : TopBecomes(g) /\ Top.kind = "infer"
        BY <2>3, ModelCallsToolStack
      <3>2. CallsDeclared(g, tools_registry')
        BY <3>1 DEF TopBecomes, CallsDeclared, CodeKinds
      <3>3. UNCHANGED tools_registry
        BY <2>3 DEF ModelCallsTool, toolVars
      <3> QED  BY <3>1, <3>2, <3>3, DeclaredKept
    <2> QED  BY <1>6, <2>1, <2>2, <2>3 DEF Model
  <1>7. ASSUME NEW k \in DOMAIN stack, Timeout(k) PROVE Goal
    <2>1. UNCHANGED tools_registry
      BY <1>7 DEF Timeout
    <2> QED  BY <1>7, <2>1, TimeoutCuts, DeclaredKept
  <1>8. CASE AcceptRequest
    <2> DEFINE f == NewFrame("handler", NoName, "run", FALSE)
    <2>1. stack' = <<f>> /\ f.kind = "handler" /\ f.phase = "run"
      BY <1>8 DEF AcceptRequest, NewFrame
    <2> HIDE DEF f
    <2> QED  BY <2>1 DEF AllDeclared, CallsDeclared, BodyAllowed
  <1>9. CASE AtRest \/ UNCHANGED vars
    BY <1>1, <1>9 DEF AtRest, vars, toolVars
  <1> QED  BY <1>4, <1>5, <1>6, <1>7, <1>8, <1>9 DEF Next, Timeouts

(* A mocked tool's body never runs, and no undeclared tool's does, whoever  *)
(* asks for the tool.                                                       *)
THEOREM MocksAlwaysWin == Spec => []MocksWin
  <1> DEFINE D == AllDeclared(stack, tools_registry)
  <1>1. Typing /\ D => MocksWin
    BY BodiesAreToolFrames DEF AllDeclared, BodyAllowed, MocksWin, ToolFrames
  <1>2. Init => Typing /\ D
    <2>1. ASSUME Init PROVE D
      <3> DEFINE f == NewFrame("main", NoName, "run", FALSE)
      <3>1. stack = <<f>> /\ f.kind = "main" /\ f.phase = "run"
        BY <2>1 DEF Init, NewFrame
      <3> HIDE DEF f
      <3> QED  BY <3>1 DEF AllDeclared, CallsDeclared, BodyAllowed
    <2> QED  BY <2>1, TypingInductive
  <1>3. Typing /\ D /\ [Next]_vars => Typing' /\ D'
    BY TypingInductive, StepDeclared
  <1> HIDE DEF D
  <1> QED  BY <1>1, <1>2, <1>3, PTL DEF Spec

-----------------------------------------------------------------------------
(* The history a model is told *)

Calls(t) == Count(traces, ToolRecords(t))

(* The log never loses a record, and RecordTool adds one of its tool.       *)
LEMMA CallsGrow ==
  ASSUME Typing, [Next]_vars, NEW t \in Tools
  PROVE  /\ Calls(t) \in Nat /\ Calls(t)' \in Nat /\ Calls(t) <= Calls(t)'
         /\ RecordTool(t) => Calls(t)' = Calls(t) + 1
  <1>1. Calls(t) \in Nat
    BY LogCounts DEF Calls
  <1>2. next_inference_id \in Nat /\ next_tool_call_id \in Nat
        /\ "ToolCall" \in TraceKinds /\ "Inference" \in TraceKinds
    BY DEF Typing, TypeOK, TraceKinds
  <1>3. ASSUME NEW u \in Tools, RecordTool(u)
        PROVE  Calls(t)' = Calls(t) + (IF t = u THEN 1 ELSE 0)
    <2>1. Pushes("ToolCall", u, next_tool_call_id)
      BY <1>3 DEF RecordTool, Pushes
    <2>2. \A kind \in TraceKinds : Pushes(kind, u, next_tool_call_id) =>
            Count(traces', ToolRecords(t))
              = Count(traces, ToolRecords(t)) + (IF kind = "ToolCall" /\ t = u THEN 1 ELSE 0)
      BY <1>2, PushCounts
    <2>3. Calls(t)' = Calls(t) + (IF "ToolCall" = "ToolCall" /\ t = u THEN 1 ELSE 0)
      BY <1>2, <2>1, <2>2, Zenon DEF Calls
    <2> QED  BY <2>3
  <1>4. ASSUME NEW f \in Infers, RecordInference(f) PROVE Calls(t)' = Calls(t)
    <2>1. Pushes("Inference", f, next_inference_id)
      BY <1>4 DEF RecordInference, Pushes
    <2>2. Count(traces', ToolRecords(t)) = Count(traces, ToolRecords(t)) + 0
      BY <1>2, <2>1, PushCounts
    <2> QED  BY <1>1, <2>2 DEF Calls
  <1>5. CASE LogsInference
    BY <1>1, <1>3, <1>4, <1>5 DEF LogsInference
  <1>6. CASE \E u \in Tools : LogsTool(u)
    BY <1>1, <1>3, <1>6 DEF LogsTool
  <1>7. ASSUME LogsNothing PROVE Calls(t)' = Calls(t)
    BY <1>7 DEF LogsNothing, traceVars, Calls
  <1> QED  BY <1>1, <1>3, <1>5, <1>6, <1>7, StepLogs

Told(f, t) == Count(f.history, {t})
Backed(f, t, calls) == Told(f, t) <= calls

(* A new conversation has been told nothing, and an exchange more in a      *)
(* history is one result more of its tool.                                  *)
LEMMA ToldCounts ==
  ASSUME NEW f \in Good, NEW t
  PROVE  /\ Told(f, t) \in Nat
         /\ f.history = <<>> => Told(f, t) = 0
         /\ \A u \in Tools : \A g : g.history = Append(f.history, u) =>
              Told(g, t) = Told(f, t) + (IF u = t THEN 1 ELSE 0)
         /\ \A g : g.history = f.history => Told(g, t) = Told(f, t)
  <1>1. f.history \in Seq(Tools)
    BY DEF Good, Frame
  <1>2. DOMAIN f.history = 1..Len(f.history) /\ Len(f.history) \in Nat
    BY <1>1, LenProperties
  <1>3. ASSUME NEW u \in Tools, NEW g, g.history = Append(f.history, u)
        PROVE  Told(g, t) = Told(f, t) + (IF u = t THEN 1 ELSE 0)
    <2>1. /\ DOMAIN g.history = 1..(Len(f.history) + 1)
          /\ \A i \in 1..Len(f.history) : g.history[i] = f.history[i]
          /\ g.history[Len(f.history) + 1] = u
      BY <1>1, <1>3, AppendProperties, LenProperties
    <2>2. Count(g.history, {t})
            = Count(f.history, {t}) + (IF g.history[Len(f.history) + 1] \in {t} THEN 1 ELSE 0)
      BY <1>2, <2>1, CountLonger
    <2> QED  BY <2>1, <2>2 DEF Told
  <1>4. f.history = <<>> => Told(f, t) = 0
    BY CountEmpty DEF Told
  <1> QED  BY <1>2, <1>3, <1>4, CountType DEF Told

Backing == \A i \in 1..Len(stack), t \in Tools : Backed(stack[i], t, Calls(t))

(* The four steps keep every history backed by the log if they leave the    *)
(* frame that changes its history, or start an empty one.                   *)
LEMMA BackingKept ==
  ASSUME Typing, [Next]_vars, Backing, NEW g, NEW h, NEW n,
         \/ TopBecomes(g) /\ g.history = Top.history
         \/ TopPushes(g, h) /\ g.history = Top.history /\ h.history = <<>>
         \/ CallerBecomes(g) /\ g.history = Caller.history
         \/ CutsTo(n)
  PROVE  Backing'
  <1> SUFFICES ASSUME NEW t \in Tools, NEW i \in 1..Len(stack')
               PROVE  Backed(stack'[i], t, Calls(t)')
    BY DEF Backing, Backed
  <1>1. Calls(t) \in Nat /\ Calls(t)' \in Nat /\ Calls(t) <= Calls(t)'
    BY CallsGrow
  <1>2. ASSUME NEW f \in Good, Backed(f, t, Calls(t)), NEW r, r.history = f.history
        PROVE  Backed(r, t, Calls(t)')
    BY <1>1, <1>2, ToldCounts DEF Backed
  <1>3. ASSUME NEW j \in 1..Len(stack) PROVE Backed(stack[j], t, Calls(t)')
    <2>1. stack[j] \in Good
      BY <1>3, BodiesAreToolFrames
    <2> QED  BY <1>2, <1>3, <2>1 DEF Backing
  <1>4. ASSUME TopBecomes(g) \/ TopPushes(g, h), g.history = Top.history
        PROVE  Backed(g, t, Calls(t)')
    <2>1. Len(stack) \in 1..Len(stack) /\ Top \in Good
      BY <1>4 DEF TopBecomes, TopPushes
    <2>2. Backed(Top, t, Calls(t))
      BY <2>1 DEF Backing, Top
    <2> QED  BY <1>2, <1>4, <2>1, <2>2
  <1>5. ASSUME CallerBecomes(g), g.history = Caller.history
        PROVE  Backed(g, t, Calls(t)')
    <2>1. Len(stack) - 1 \in 1..Len(stack) /\ Caller \in Good
      BY <1>5 DEF CallerBecomes
    <2>2. Backed(Caller, t, Calls(t))
      BY <2>1 DEF Backing, Caller
    <2> QED  BY <1>2, <1>5, <2>1, <2>2
  <1>6. ASSUME TopPushes(g, h), h.history = <<>> PROVE Backed(h, t, Calls(t)')
    <2>1. h \in Good
      BY <1>6 DEF TopPushes
    <2> QED  BY <1>1, <1>6, <2>1, ToldCounts DEF Backed
  <1> QED  BY <1>3, <1>4, <1>5, <1>6, FramesAfter

\* The frame f resumes as g.
Resumes(f, g) ==
  \/ TopBecomes(g) /\ f = Top
  \/ CallerBecomes(g) /\ f = Caller

(* The frame on top resumes when it takes the result itself.                *)
LEMMA TopResumes == ASSUME NEW g, TopBecomes(g) PROVE Resumes(Top, g)
  BY DEF Resumes

(* A tool's result enters a history in the step that logs the call.         *)
LEMMA BackingExtended ==
  ASSUME Typing, [Next]_vars, Backing, NEW g, NEW u \in Tools, RecordTool(u), NEW f \in Good,
         Resumes(f, g),
         g.history = IF f.kind = "infer" THEN Append(f.history, u) ELSE f.history
  PROVE  Backing'
  <1> SUFFICES ASSUME NEW t \in Tools, NEW i \in 1..Len(stack')
               PROVE  Backed(stack'[i], t, Calls(t)')
    BY DEF Backing, Backed
  <1>1. Calls(t) \in Nat /\ Calls(t)' \in Nat /\ Calls(t) <= Calls(t)'
        /\ (u = t => Calls(t)' = Calls(t) + 1)
    BY CallsGrow
  <1>2. ASSUME NEW j \in 1..Len(stack) PROVE Backed(stack[j], t, Calls(t)')
    <2>1. stack[j] \in Good
      BY <1>2, BodiesAreToolFrames
    <2>2. Told(stack[j], t) \in Nat /\ Told(stack[j], t) <= Calls(t)
      BY <1>2, <2>1, ToldCounts DEF Backing, Backed
    <2> QED  BY <1>1, <2>2 DEF Backed
  <1>3. Told(f, t) \in Nat /\ Told(f, t) <= Calls(t)
    <2>1. \E j \in 1..Len(stack) : f = stack[j]
      <3>1. \/ Len(stack) \in 1..Len(stack) /\ f = Top
            \/ Len(stack) - 1 \in 1..Len(stack) /\ f = Caller
        BY DEF Resumes, TopBecomes, CallerBecomes
      <3> QED  BY <3>1 DEF Top, Caller
    <2>2. Backed(f, t, Calls(t))
      BY <2>1 DEF Backing
    <2> QED  BY <2>2, ToldCounts DEF Backed
  <1>4. Backed(g, t, Calls(t)')
    <2>1. \/ Told(g, t) = Told(f, t)
          \/ Told(g, t) = Told(f, t) + (IF u = t THEN 1 ELSE 0)
      <3>1. g.history = f.history \/ g.history = Append(f.history, u)
        OBVIOUS
      <3>2. ASSUME g.history = f.history PROVE Told(g, t) = Told(f, t)
        BY <3>2, ToldCounts
      <3>3. ASSUME g.history = Append(f.history, u)
            PROVE  Told(g, t) = Told(f, t) + (IF u = t THEN 1 ELSE 0)
        BY <3>3, ToldCounts
      <3> QED  BY <3>1, <3>2, <3>3
    <2> QED  BY <1>1, <1>3, <2>1 DEF Backed
  <1> QED  BY <1>2, <1>4, FramesAfter DEF Resumes

(* No step tells a model of a call that is not in the log.                  *)
LEMMA StepBacking ==
  ASSUME Typing, Backing, [Next]_vars
  PROVE  Backing'
  <1>1. ASSUME UNCHANGED stack PROVE Backing'
    <2> SUFFICES ASSUME NEW t \in Tools, NEW i \in 1..Len(stack)
                 PROVE  Backed(stack[i], t, Calls(t)')
      BY <1>1 DEF Backing, Backed
    <2>1. stack[i] \in Good /\ Backed(stack[i], t, Calls(t))
      BY BodiesAreToolFrames DEF Backing
    <2>2. Told(stack[i], t) \in Nat
      BY <2>1, ToldCounts
    <2> QED  BY <2>1, <2>2, CallsGrow DEF Backed
  <1>2. CASE stack' = <<>>
    BY <1>2 DEF Backing
  <1>3. CASE Code
    <2>1. ASSUME NEW valid \in BOOLEAN, ToolReturns(valid) PROVE Backing'
      <3>1. CASE valid
        <4>1. PICK g : /\ CallerBecomes(g) /\ Top.name \in Tools
                       /\ g.history = IF Caller.kind = "infer"
                                      THEN Append(Caller.history, Top.name) ELSE Caller.history
          BY <2>1, <3>1, ToolReturnsStack
        <4>2. RecordTool(Top.name) /\ Caller \in Good
          BY <2>1, <4>1 DEF ToolReturns, CallerBecomes
        <4>3. Resumes(Caller, g)
          BY <4>1 DEF Resumes
        <4> QED  BY <4>1, <4>2, <4>3, BackingExtended
      <3>2. CASE ~valid
        BY <2>1, <3>2, ToolReturnsStack, BackingKept
      <3> QED  BY <3>1, <3>2
    <2>2. ASSUME NEW f \in Infers, AwaitInference(f) PROVE Backing'
      BY <2>2, AwaitInferenceStack, BackingKept
    <2>3. ASSUME NEW t \in Tools, AwaitTool(t) PROVE Backing'
      BY <2>3, AwaitToolStack, BackingKept
    <2>4. CASE AwaitSleep \/ Wake
      BY <2>4, AwaitSleepStack, WakeStack, BackingKept
    <2> QED  BY <1>1, <1>2, <1>3, <2>1, <2>2, <2>3, <2>4
             DEF Code, DeclareTool, DeclareBudget, ProgramError, HandlerReturns, MainReturns,
                 StartServing
  <1>4. CASE Conversation
    <2>1. ASSUME NEW valid \in BOOLEAN, MockAnswers(valid) PROVE Backing'
      <3>1. CASE valid
        <4>1. PICK g : /\ TopBecomes(g) /\ Top.wants \in Tools
                       /\ g.history = IF Top.kind = "infer"
                                      THEN Append(Top.history, Top.wants) ELSE Top.history
          BY <2>1, <3>1, MockAnswersStack
        <4>2. RecordTool(Top.wants) /\ Top \in Good
          BY <2>1, <4>1 DEF MockAnswers, TopBecomes
        <4>3. Resumes(Top, g)
          BY <4>1, TopResumes
        <4> QED  BY <4>1, <4>2, <4>3, BackingExtended
      <3>2. CASE ~valid
        BY <1>1, <2>1, <3>2, MockAnswersStack
      <3> QED  BY <3>1, <3>2
    <2>2. CASE RunToolBody
      <3>1. PICK h : TopPushes(Top, h) /\ h.history = <<>>
        BY <2>2, RunToolBodyStack
      <3> QED  BY <3>1, BackingKept
    <2>3. CASE AskModel \/ Unwind
      BY <2>3, AskModelStack, UnwindStack, BackingKept
    <2> QED  BY <1>1, <1>4, <2>1, <2>2, <2>3
             DEF Conversation, RejectModelCall, RefuseToolCall, RefuseArguments, NoImplementation
  <1>5. CASE Model
    <2>1. ASSUME NEW t \in Names, ModelCallsTool(t) PROVE Backing'
      BY <2>1, ModelCallsToolStack, BackingKept
    <2> QED  BY <1>1, <1>5, <2>1, ModelAnswersStack, BackingKept DEF Model, ModelAnswersBadly
  <1>6. ASSUME NEW k \in DOMAIN stack, Timeout(k) PROVE Backing'
    BY <1>6, TimeoutCuts, BackingKept
  <1>7. CASE AcceptRequest
    <2> DEFINE f == NewFrame("handler", NoName, "run", FALSE)
    <2>1. stack' = <<f>> /\ f.history = <<>> /\ f \in Good
      BY <1>7, NewFrameGood DEF AcceptRequest, NewFrame, CodeKinds
    <2> HIDE DEF f
    <2>2. ASSUME NEW t \in Tools PROVE Backed(f, t, Calls(t)')
      BY <2>1, ToldCounts, CallsGrow DEF Backed
    <2> QED  BY <2>1, <2>2 DEF Backing, Backed
  <1> QED  BY <1>1, <1>3, <1>4, <1>5, <1>6, <1>7 DEF Next, Timeouts, AtRest, vars

(* Whatever a model is told in a conversation's history is backed by Tool   *)
(* Call records: it never reads of a call that the log does not show.       *)
THEOREM HistoriesAreTraced == Spec => []HistoryIsTraced
  <1>1. Typing /\ Backing => HistoryIsTraced
    <2> SUFFICES ASSUME Typing, Backing, NEW i \in DOMAIN stack, NEW t \in Tools
                 PROVE  Cardinality({j \in DOMAIN stack[i].history : stack[i].history[j] = t})
                          <= Cardinality({j \in Records("ToolCall") : traces[j].name = t})
      BY DEF HistoryIsTraced
    <2>1. Told(stack[i], t) <= Calls(t)
      BY BodiesAreToolFrames DEF Backing, Backed
    <2>2. {j \in DOMAIN stack[i].history : stack[i].history[j] = t}
            = Positions(stack[i].history, {t})
      BY DEF Positions
    <2>3. Cardinality({j \in DOMAIN stack[i].history : stack[i].history[j] = t}) = Told(stack[i], t)
      BY <2>2, Zenon DEF Told, Count
    <2>4. Cardinality({j \in Records("ToolCall") : traces[j].name = t}) = Calls(t)
      BY LogCounts DEF Calls
    <2> QED  BY <2>1, <2>3, <2>4
  <1>2. Init => Typing /\ Backing
    <2>1. ASSUME Init PROVE Backing
      <3> DEFINE f == NewFrame("main", NoName, "run", FALSE)
      <3>1. stack = <<f>> /\ f.history = <<>> /\ f \in Good
        BY <2>1, NewFrameGood DEF Init, NewFrame, CodeKinds
      <3> HIDE DEF f
      <3>2. ASSUME NEW t \in Tools PROVE Backed(f, t, Calls(t))
        <4>1. Typing
          BY <2>1, TypingInductive
        <4>2. Calls(t) \in Nat
          BY <4>1, LogCounts DEF Calls
        <4> QED  BY <3>1, <4>2, ToldCounts DEF Backed
      <3> QED  BY <3>1, <3>2 DEF Backing
    <2> QED  BY <2>1, TypingInductive
  <1>3. Typing /\ Backing /\ [Next]_vars => Typing' /\ Backing'
    BY TypingInductive, StepBacking
  <1> QED  BY <1>1, <1>2, <1>3, PTL DEF Spec

=============================================================================
