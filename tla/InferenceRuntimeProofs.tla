----------------------- MODULE InferenceRuntimeProofs -----------------------
(***************************************************************************)
(* Theorems about InferenceRuntime, for every program, set of tools and    *)
(* permissions, every budget and every value of the bounds.                *)
(*                                                                         *)
(* All rest on Typing: the types, the program or the handler at the root   *)
(* of the stack, and an error only while there is a frame to leave.  The   *)
(* permissions add Permitted; the two statements about the budget come     *)
(* from the refinement of CallBudget and its theorems.                     *)
(***************************************************************************)
EXTENDS InferenceRuntime, SequenceTheorems, FiniteSetTheorems, TLAPS

(* What one frame satisfies, beyond its type.                               *)
Good ==
  {f \in Frame :
     /\ f.kind = "infer" => f.name \in Infers
     /\ f.kind = "tool" => f.name \in Tools
     /\ f.kind \in CodeKinds /\ f.phase = "calling" => f.wants \in Tools
     /\ f.timed => f.kind = "infer"}

Rooted(s) ==
  /\ s \in Seq(Good)
  /\ s # <<>> => s[1].kind \in {"main", "handler"}

Typing ==
  /\ TypeOK
  /\ Rooted(stack)
  /\ ctl = "raise" => stack # <<>>

-----------------------------------------------------------------------------
(* Frames and stacks *)

(* What exec_stmt, eval_inference and run_tool_body push is a well-formed   *)
(* frame.                                                                   *)
LEMMA NewFrameGood ==
  ASSUME NEW k \in CodeKinds \cup {"infer"}, NEW n \in Infers \cup Tools \cup {NoName},
         NEW p \in {"run", "check"}, NEW b \in BOOLEAN,
         k = "infer" => n \in Infers, k = "tool" => n \in Tools, b => k = "infer"
  PROVE  NewFrame(k, n, p, b) \in Good
  BY InferenceAssumptions, EmptySeq DEF NewFrame, Good, Frame, CodeKinds, NoName

(* Every frame of a stack of well-formed frames is one, the last included.  *)
LEMMA TopGood ==
  ASSUME NEW s \in Seq(Good), s # <<>>
  PROVE  /\ Len(s) \in Nat \ {0}
         /\ \A i \in 1..Len(s) : s[i] \in Good
  BY EmptySeq, ElementOfSeq

(* Code that begins an await stays a well-formed frame of its kind.         *)
LEMMA AwaitingGood ==
  ASSUME NEW f \in Good, f.kind \in CodeKinds, f.awaits < MaxAwaits,
         NEW p \in {"asleep", "awaiting", "calling"}, NEW t \in Tools \cup {NoName},
         p = "calling" => t \in Tools
  PROVE  LET g == [f EXCEPT !.phase = p, !.wants = t, !.awaits = @ + 1]
         IN  g \in Good /\ g.kind = f.kind /\ g.phase = p
  <1> DEFINE g == [f EXCEPT !.phase = p, !.wants = t, !.awaits = @ + 1]
  <1>1. f.awaits + 1 \in 0..MaxAwaits
    BY InferenceAssumptions DEF Good, Frame
  <1>2. g \in Frame
    BY <1>1 DEF Good, Frame, Names
  <1>3. g.kind = f.kind /\ g.phase = p /\ g.wants = t /\ g.name = f.name /\ g.timed = f.timed
    BY DEF Good, Frame
  <1> QED  BY <1>2, <1>3 DEF Good

(* So does code that begins to sleep.                                       *)
LEMMA AsleepGood ==
  ASSUME NEW f \in Good, f.kind \in CodeKinds, f.awaits < MaxAwaits
  PROVE  LET g == [f EXCEPT !.phase = "asleep", !.wants = NoName, !.awaits = @ + 1]
         IN  /\ g \in Good /\ g.kind = f.kind /\ g.phase = "asleep"
             /\ g.name = f.name /\ g.history = f.history
  <1> DEFINE g == [f EXCEPT !.phase = "asleep", !.wants = NoName, !.awaits = @ + 1]
  <1>1. f.awaits + 1 \in 0..MaxAwaits
    BY InferenceAssumptions DEF Good, Frame
  <1>2. g \in Frame
    BY <1>1 DEF Good, Frame, Names
  <1>3. g.kind = f.kind /\ g.phase = "asleep" /\ g.wants = NoName
    BY DEF Good, Frame
  <1>4. g.name = f.name /\ g.timed = f.timed /\ g.history = f.history
    BY DEF Good, Frame
  <1>5. g \in Good
    BY <1>2, <1>3, <1>4 DEF Good
  <1> QED  BY <1>3, <1>4, <1>5

(* Resuming a frame, or marking its model call as sent, keeps it well-      *)
(* formed.                                                                  *)
LEMMA PhaseGood ==
  ASSUME NEW f \in Good, NEW p \in {"run", "sent"}
  PROVE  LET g == [f EXCEPT !.phase = p]
         IN  g \in Good /\ g.kind = f.kind /\ g.name = f.name /\ g.phase = p /\ g.history = f.history
  BY DEF Good, Frame, CodeKinds

(* A caller that gets its tool's value is well-formed; only a conversation  *)
(* notes the exchange in its history.                                       *)
LEMMA WithResultGood ==
  ASSUME NEW f \in Good, NEW t \in Tools
  PROVE  LET g == WithResult(f, t)
         IN  /\ g \in Good /\ g.kind = f.kind /\ g.name = f.name
             /\ g.phase = IF f.kind = "infer" THEN "check" ELSE "run"
             /\ g.history = IF f.kind = "infer" THEN Append(f.history, t) ELSE f.history
  <1>1. CASE f.kind = "infer"
    <2>1. Append(f.history, t) \in Seq(Tools)
      BY AppendProperties DEF Good, Frame
    <2> QED  BY <1>1, <2>1 DEF WithResult, Good, Frame, CodeKinds
  <1>2. CASE f.kind # "infer"
    BY <1>2 DEF WithResult, Good, Frame, CodeKinds
  <1> QED  BY <1>1, <1>2

(* SetTop keeps a stack rooted when the new frame is of the old one's kind. *)
LEMMA ReplaceRooted ==
  ASSUME NEW s, Rooted(s), NEW i \in 1..Len(s), NEW f \in Good, f.kind = s[i].kind
  PROVE  LET r == [s EXCEPT ![i] = f]
         IN  /\ Rooted(r) /\ r # <<>>
             /\ Len(r) = Len(s) /\ Len(s) \in Nat \ {0}
             /\ \A j \in 1..Len(s) : r[j] = IF j = i THEN f ELSE s[j]
  <1> DEFINE r == [s EXCEPT ![i] = f]
  <1>1. r \in Seq(Good) /\ Len(r) = Len(s) /\ \A j \in 1..Len(s) : r[j] = IF j = i THEN f ELSE s[j]
    BY ExceptSeq DEF Rooted
  <1>2. Len(s) \in Nat \ {0} /\ s # <<>> /\ r # <<>>
    BY <1>1, EmptySeq, LenProperties DEF Rooted
  <1> QED  BY <1>1, <1>2 DEF Rooted

(* A frame pushed on a rooted stack (a new conversation or tool body)       *)
(* leaves it rooted.                                                        *)
LEMMA PushRooted ==
  ASSUME NEW s, Rooted(s), s # <<>>, NEW f \in Good
  PROVE  LET r == Append(s, f)
         IN  /\ Rooted(r) /\ r # <<>>
             /\ Len(r) = Len(s) + 1 /\ Len(s) \in Nat \ {0}
             /\ \A j \in 1..Len(s) : r[j] = s[j]
             /\ r[Len(s) + 1] = f
  <1>1. Len(s) \in Nat \ {0}
    BY EmptySeq DEF Rooted
  <1> QED  BY <1>1, AppendProperties DEF Rooted

(* Any lower part of a rooted stack is rooted: what an error or a timeout   *)
(* leaves.                                                                  *)
LEMMA CutRooted ==
  ASSUME NEW s, Rooted(s), NEW n \in Nat, n <= Len(s)
  PROVE  LET r == SubSeq(s, 1, n)
         IN  /\ Rooted(r)
             /\ Len(r) = n
             /\ \A j \in 1..n : r[j] = s[j]
             /\ r = <<>> <=> n = 0
  <1> DEFINE r == SubSeq(s, 1, n)
  <1>1. \A i \in 1..n : s[i] \in Good
    BY LenProperties, ElementOfSeq DEF Rooted
  <1>2. r \in Seq(Good) /\ Len(r) = n /\ \A i \in 1..n : r[i] = s[i]
    BY <1>1, SubSeqProperties
  <1>3. r = <<>> <=> n = 0
    BY <1>2, EmptySeq
  <1>4. r # <<>> => s # <<>>
    BY <1>3, EmptySeq
  <1> QED  BY <1>2, <1>3, <1>4 DEF Rooted
-----------------------------------------------------------------------------
(* What the actions do to the stack.  Every lemma about a step starts from  *)
(* Typing and the action.                                                   *)

(* The innermost frame exists and is well-formed, and a conversation or     *)
(* tool body has a caller below it.                                         *)
LEMMA TopFacts ==
  ASSUME Typing, stack # <<>>
  PROVE  /\ Len(stack) \in 1..Len(stack) /\ Len(stack) \in Nat \ {0}
         /\ Top \in Good
         /\ Top.kind \notin {"main", "handler"} => Len(stack) > 1
  <1>1. Len(stack) \in Nat \ {0} /\ Top \in Good
    BY TopGood DEF Typing, Rooted, Top
  <1> QED  BY <1>1 DEF Typing, Rooted, Top

(* Changing the innermost frame within its kind keeps the stack rooted and  *)
(* every other frame as it was.                                             *)
LEMMA SetTopRooted ==
  ASSUME Typing, stack # <<>>, NEW f \in Good, f.kind = Top.kind
  PROVE  /\ Rooted(SetTop(f)) /\ SetTop(f) # <<>>
         /\ Len(SetTop(f)) = Len(stack) /\ SetTop(f)[Len(stack)] = f
         /\ \A j \in 1..(Len(stack) - 1) : SetTop(f)[j] = stack[j]
  <1>1. Len(stack) \in Nat \ {0} /\ Rooted(stack) /\ f.kind = stack[Len(stack)].kind
    BY TopFacts DEF Typing, Top
  <1> QED  BY <1>1, ReplaceRooted DEF SetTop

(* The stack without its innermost frame is rooted, and empty only if that  *)
(* frame was the root.                                                      *)
LEMMA BelowRooted ==
  ASSUME Typing, stack # <<>>
  PROVE  /\ Rooted(Below) /\ Len(Below) = Len(stack) - 1
         /\ \A j \in 1..(Len(stack) - 1) : Below[j] = stack[j]
         /\ Below = <<>> <=> Len(stack) = 1
  <1>1. Len(stack) \in Nat \ {0} /\ Rooted(stack)
    BY TopFacts DEF Typing
  <1>2. Len(stack) - 1 \in Nat /\ Len(stack) - 1 <= Len(stack)
    BY <1>1
  <1>3. /\ Rooted(Below) /\ Len(Below) = Len(stack) - 1
        /\ \A j \in 1..(Len(stack) - 1) : Below[j] = stack[j]
        /\ Below = <<>> <=> Len(stack) - 1 = 0
    BY <1>1, <1>2, CutRooted, Zenon DEF Below
  <1> QED  BY <1>1, <1>3

(* The frame below the innermost one is well-formed.                        *)
LEMMA CallerFacts ==
  ASSUME Typing, stack # <<>>, Len(stack) > 1
  PROVE  Caller \in Good
  BY TopFacts, TopGood DEF Typing, Rooted, Caller

(* Popping the innermost frame into its caller keeps the stack rooted.      *)
LEMMA SetCallerRooted ==
  ASSUME Typing, stack # <<>>, Len(stack) > 1, NEW f \in Good, f.kind = Caller.kind
  PROVE  /\ Rooted(SetCaller(f)) /\ SetCaller(f) # <<>>
         /\ Len(SetCaller(f)) = Len(stack) - 1 /\ SetCaller(f)[Len(stack) - 1] = f
         /\ \A j \in 1..(Len(stack) - 2) : SetCaller(f)[j] = stack[j]
  <1>1. Len(stack) \in Nat \ {0}
    BY TopFacts
  <1>2. Rooted(Below) /\ Len(Below) = Len(stack) - 1
        /\ \A j \in 1..(Len(stack) - 1) : Below[j] = stack[j]
    BY BelowRooted
  <1>3. Len(stack) - 1 \in 1..Len(Below) /\ f.kind = Below[Len(stack) - 1].kind
    BY <1>1, <1>2 DEF Caller
  <1>4. /\ Rooted(SetCaller(f)) /\ SetCaller(f) # <<>>
        /\ Len(SetCaller(f)) = Len(Below)
        /\ \A j \in 1..Len(Below) :
             SetCaller(f)[j] = IF j = Len(stack) - 1 THEN f ELSE Below[j]
    BY <1>2, <1>3, ReplaceRooted DEF SetCaller
  <1> QED  BY <1>1, <1>2, <1>3, <1>4

-----------------------------------------------------------------------------
(* Typing is inductive *)

StackTyped(s, c) == Rooted(s) /\ (c = "raise" => s # <<>>)

(* The budget in force has a limit that is a number or NoLimit, and a       *)
(* timeout that is set or not.                                              *)
LEMMA BudgetFacts ==
  ASSUME Typing
  PROVE  /\ budget.max_model_calls \in Nat \cup {NoLimit}
         /\ budget.timeout_ms \in BOOLEAN
  <1>1. Budgets \subseteq [max_model_calls : Nat \cup {NoLimit}, timeout_ms : BOOLEAN]
    BY InferenceAssumptions
  <1>2. CASE budget = NoBudget
    BY <1>2 DEF NoBudget
  <1>3. CASE budget \in Budgets
    BY <1>1, <1>3
  <1> QED  BY <1>2, <1>3 DEF Typing, TypeOK

(* No step of program, handler or tool code breaks the shape of the stack.  *)
LEMMA CodeStack ==
  ASSUME Typing, Code
  PROVE  StackTyped(stack', ctl')
  <1> USE DEF StackTyped
  <1>1. ASSUME NEW t \in Tools, DeclareTool(t) PROVE StackTyped(stack', ctl')
    BY <1>1 DEF DeclareTool, Typing
  <1>2. ASSUME NEW b \in Budgets, DeclareBudget(b) PROVE StackTyped(stack', ctl')
    BY <1>2 DEF DeclareBudget, Typing
  <1>3. ASSUME NEW f \in Infers, AwaitInference(f) PROVE StackTyped(stack', ctl')
    <2> DEFINE g == [Top EXCEPT !.phase = "awaiting", !.wants = NoName, !.awaits = @ + 1]
               h == NewFrame("infer", f, "check", budget.timeout_ms)
    <2>1. stack # <<>> /\ Top.kind \in CodeKinds /\ Top.awaits < MaxAwaits
          /\ stack' = Append(SetTop(g), h) /\ ctl' = ctl /\ ctl = "run"
      BY <1>3 DEF AwaitInference, InCode, Running, Awaits
    <2>2. g \in Good /\ g.kind = Top.kind
      BY <2>1, TopFacts, AwaitingGood
    <2>3. budget.timeout_ms \in BOOLEAN
      BY BudgetFacts
    <2>4. h \in Good
      BY <2>3, NewFrameGood
    <2> QED  BY <2>1, <2>2, <2>4, SetTopRooted, PushRooted
  <1>4. ASSUME NEW t \in Tools, AwaitTool(t) PROVE StackTyped(stack', ctl')
    <2> DEFINE g == [Top EXCEPT !.phase = "calling", !.wants = t, !.awaits = @ + 1]
    <2>1. stack # <<>> /\ Top.kind \in CodeKinds /\ Top.awaits < MaxAwaits
          /\ stack' = SetTop(g) /\ ctl' = ctl
      BY <1>4 DEF AwaitTool, InCode, Running, Awaits
    <2>2. g \in Good /\ g.kind = Top.kind
      BY <2>1, TopFacts, AwaitingGood
    <2> QED  BY <2>1, <2>2, SetTopRooted
  <1>5. CASE AwaitSleep
    <2> DEFINE g == [Top EXCEPT !.phase = "asleep", !.wants = NoName, !.awaits = @ + 1]
    <2>1. stack # <<>> /\ Top.kind \in CodeKinds /\ Top.awaits < MaxAwaits
          /\ stack' = SetTop(g) /\ ctl' = ctl
      BY <1>5 DEF AwaitSleep, InCode, Running, Awaits
    <2>2. g \in Good /\ g.kind = Top.kind
      BY <2>1, TopFacts, AsleepGood
    <2> QED  BY <2>1, <2>2, SetTopRooted
  <1>6. CASE Wake
    <2> DEFINE g == [Top EXCEPT !.phase = "run"]
    <2>1. stack # <<>> /\ stack' = SetTop(g) /\ ctl' = ctl
      BY <1>6 DEF Wake, Running
    <2>2. g \in Good /\ g.kind = Top.kind
      BY <2>1, TopFacts, PhaseGood
    <2> QED  BY <2>1, <2>2, SetTopRooted
  <1>7. CASE ProgramError
    BY <1>7 DEF ProgramError, InCode, Running, Typing
  <1>8. ASSUME NEW valid \in BOOLEAN, ToolReturns(valid) PROVE StackTyped(stack', ctl')
    <2>1. stack # <<>> /\ Len(stack) > 1 /\ Top.name \in Tools
      BY <1>8, TopFacts DEF ToolReturns, InCode, Running, Good
    <2>2. CASE valid
      <3>1. Caller \in Good
        BY <2>1, CallerFacts
      <3>2. WithResult(Caller, Top.name) \in Good
            /\ WithResult(Caller, Top.name).kind = Caller.kind
        BY <2>1, <3>1, WithResultGood
      <3> QED  BY <1>8, <2>1, <2>2, <3>2, SetCallerRooted DEF ToolReturns
    <2>3. CASE ~valid
      <3>1. Rooted(Below) /\ Below # <<>>
        BY <2>1, BelowRooted
      <3> QED  BY <1>8, <2>3, <3>1 DEF ToolReturns
    <2> QED  BY <2>2, <2>3
  <1>9. CASE HandlerReturns \/ MainReturns \/ StartServing
    <2>1. stack' = <<>> /\ ctl' = "run"
      BY <1>9 DEF HandlerReturns, MainReturns, StartServing, InCode, Running
    <2> QED  BY <2>1, EmptySeq DEF Rooted
  <1> QED  BY <1>1, <1>2, <1>3, <1>4, <1>5, <1>6, <1>7, <1>8, <1>9 DEF Code

(* No step of eval_inference_loop or call_tool_traced breaks the shape of   *)
(* the stack.                                                               *)
LEMMA ConversationStack ==
  ASSUME Typing, Conversation
  PROVE  StackTyped(stack', ctl')
  <1> USE DEF StackTyped
  <1>1. CASE RejectModelCall \/ RefuseToolCall \/ RefuseArguments \/ NoImplementation
    BY <1>1 DEF RejectModelCall, RefuseToolCall, RefuseArguments, NoImplementation,
                CallsTool, InConversation, Running, Typing
  <1>2. CASE AskModel
    <2> DEFINE g == [Top EXCEPT !.phase = "sent"]
    <2>1. stack # <<>> /\ stack' = SetTop(g) /\ ctl' = ctl
      BY <1>2 DEF AskModel, InConversation, Running
    <2>2. g \in Good /\ g.kind = Top.kind
      BY <2>1, TopFacts, PhaseGood
    <2> QED  BY <2>1, <2>2, SetTopRooted
  <1>3. ASSUME NEW valid \in BOOLEAN, MockAnswers(valid) PROVE StackTyped(stack', ctl')
    <2>1. stack # <<>> /\ Top \in Good /\ Top.wants \in Tools
      BY <1>3, TopFacts, InferenceAssumptions DEF MockAnswers, CallsTool, Running
    <2>2. WithResult(Top, Top.wants) \in Good /\ WithResult(Top, Top.wants).kind = Top.kind
      BY <2>1, WithResultGood
    <2>3. Rooted(SetTop(WithResult(Top, Top.wants))) /\ SetTop(WithResult(Top, Top.wants)) # <<>>
      BY <2>1, <2>2, SetTopRooted
    <2> QED  BY <1>3, <2>1, <2>3 DEF MockAnswers, Typing
  <1>4. CASE RunToolBody
    <2>1. stack # <<>> /\ Top.wants \in Tools /\ ctl' = ctl /\ ctl = "run"
          /\ stack' = Append(stack, NewFrame("tool", Top.wants, "run", FALSE))
      BY <1>4, InferenceAssumptions DEF RunToolBody, CallsTool, Running
    <2>2. NewFrame("tool", Top.wants, "run", FALSE) \in Good
      BY <2>1, NewFrameGood DEF CodeKinds
    <2> QED  BY <2>1, <2>2, PushRooted DEF Typing
  <1>5. CASE Unwind
    BY <1>5, BelowRooted DEF Unwind
  <1> QED  BY <1>1, <1>2, <1>3, <1>4, <1>5 DEF Conversation

(* No answer of the model breaks the shape of the stack.                    *)
LEMMA ModelStack ==
  ASSUME Typing, Model
  PROVE  StackTyped(stack', ctl')
  <1> USE DEF StackTyped
  <1>1. CASE ModelAnswers
    <2> DEFINE g == [Caller EXCEPT !.phase = "run"]
    <2>1. stack # <<>> /\ Len(stack) > 1 /\ stack' = SetCaller(g) /\ ctl' = ctl
      BY <1>1, TopFacts DEF ModelAnswers, InConversation, Running
    <2>2. g \in Good /\ g.kind = Caller.kind
      BY <2>1, CallerFacts, PhaseGood
    <2> QED  BY <2>1, <2>2, SetCallerRooted
  <1>2. CASE ModelAnswersBadly
    BY <1>2 DEF ModelAnswersBadly, InConversation, Running, Typing
  <1>3. ASSUME NEW t \in Names, ModelCallsTool(t) PROVE StackTyped(stack', ctl')
    <2> DEFINE g == [Top EXCEPT !.phase = "calling", !.wants = t]
    <2>1. stack # <<>> /\ Top.kind = "infer" /\ stack' = SetTop(g) /\ ctl' = ctl
      BY <1>3 DEF ModelCallsTool, InConversation, Running
    <2>2. g \in Good /\ g.kind = Top.kind
      BY <2>1, TopFacts DEF Good, Frame, CodeKinds
    <2> QED  BY <2>1, <2>2, SetTopRooted
  <1> QED  BY <1>1, <1>2, <1>3 DEF Model

(* A timeout cuts the stack above its root: a timed frame is a              *)
(* conversation, never the program or the handler.                          *)
LEMMA TimeoutStack ==
  ASSUME Typing, NEW k \in DOMAIN stack, Timeout(k)
  PROVE  /\ StackTyped(stack', ctl')
         /\ k \in 2..Len(stack)
  <1>1. stack # <<>> /\ stack[k].timed /\ stack' = SubSeq(stack, 1, k - 1) /\ ctl' = "raise"
    BY DEF Timeout, Running, Raise
  <1>2. k \in 1..Len(stack) /\ Len(stack) \in Nat /\ stack[k] \in Good
    BY <1>1, TopGood, LenProperties DEF Typing, Rooted
  <1>3. stack[k].kind = "infer"
    BY <1>1, <1>2 DEF Good
  <1>4. k # 1
    BY <1>1, <1>3 DEF Typing, Rooted
  <1>5. k - 1 \in Nat /\ k - 1 <= Len(stack) /\ k - 1 # 0
    BY <1>2, <1>4
  <1>6. Rooted(stack') /\ stack' # <<>>
    BY <1>1, <1>5, CutRooted DEF Typing
  <1> QED  BY <1>2, <1>4, <1>6 DEF StackTyped

(* No step of the runtime breaks the shape of the stack.                    *)
LEMMA StepStack ==
  ASSUME Typing, [Next]_vars
  PROVE  StackTyped(stack', ctl')
  <1>1. CASE AcceptRequest
    <2> DEFINE f == NewFrame("handler", NoName, "run", FALSE)
    <2>1. f \in Good /\ f.kind = "handler"
      BY NewFrameGood DEF CodeKinds, NewFrame
    <2>2. stack' = <<f>>
      BY <1>1 DEF AcceptRequest
    <2> HIDE DEF f
    <2>3. <<f>> \in Seq(Good) /\ <<f>> # <<>> /\ <<f>>[1] = f
      BY <2>1
    <2> QED  BY <2>1, <2>2, <2>3 DEF StackTyped, Rooted
  <1>2. CASE Timeouts
    BY <1>2, TimeoutStack DEF Timeouts
  <1>3. CASE AtRest \/ UNCHANGED vars
    BY <1>3 DEF AtRest, vars, StackTyped, Typing
  <1> QED  BY <1>1, <1>2, <1>3, CodeStack, ConversationStack, ModelStack DEF Next

(* A stack of well-formed frames has the type TypeOK gives it.              *)
LEMMA GoodStackIsFrames ==
  ASSUME NEW s \in Seq(Good)
  PROVE  s \in Seq(Frame)
  <1>1. \A i \in 1..Len(s) : s[i] \in Frame
    BY ElementOfSeq DEF Good
  <1> QED  BY <1>1, LenProperties

TraceRecord == [kind : {"Inference", "ToolCall"}, id : Nat, name : Infers \cup Tools]

TracesTyped == traces \in Seq(TraceRecord) /\ next_inference_id \in Nat /\ next_tool_call_id \in Nat

(* Pushing a record, or none, keeps the trace log and its two counters      *)
(* typed.                                                                   *)
LEMMA RecordTyped ==
  ASSUME TracesTyped
  PROVE  /\ \A f \in Infers : RecordInference(f) => TracesTyped'
         /\ \A t \in Tools : RecordTool(t) => TracesTyped'
         /\ UNCHANGED traceVars => TracesTyped'
  <1>1. ASSUME NEW f \in Infers, RecordInference(f) PROVE TracesTyped'
    <2>1. [kind |-> "Inference", id |-> next_inference_id, name |-> f] \in TraceRecord
      BY DEF TraceRecord, TracesTyped
    <2> QED  BY <1>1, <2>1, AppendProperties DEF RecordInference, TracesTyped
  <1>2. ASSUME NEW t \in Tools, RecordTool(t) PROVE TracesTyped'
    <2>1. [kind |-> "ToolCall", id |-> next_tool_call_id, name |-> t] \in TraceRecord
      BY DEF TraceRecord, TracesTyped
    <2> QED  BY <1>2, <2>1, AppendProperties DEF RecordTool, TracesTyped
  <1>3. ASSUME UNCHANGED traceVars PROVE TracesTyped'
    BY <1>3 DEF traceVars, TracesTyped
  <1> QED  BY <1>1, <1>2, <1>3

(* Every step pushes one record or leaves the trace log alone, so the log   *)
(* stays typed.                                                             *)
LEMMA StepTraces ==
  ASSUME Typing, [Next]_vars
  PROVE  TracesTyped'
  <1>1. TracesTyped
    BY DEF Typing, TypeOK, TracesTyped, TraceRecord
  <1> SUFFICES \/ \E f \in Infers : RecordInference(f)
               \/ \E t \in Tools : RecordTool(t)
               \/ UNCHANGED traceVars
    BY <1>1, RecordTyped
  <1>2. CASE Code
    <2>1. ASSUME NEW valid \in BOOLEAN, ToolReturns(valid)
          PROVE  Top.name \in Tools /\ RecordTool(Top.name)
      BY <2>1, TopFacts DEF ToolReturns, InCode, Running, Good
    <2> QED  BY <1>2, <2>1 DEF Code, DeclareTool, DeclareBudget, AwaitInference, AwaitTool,
               AwaitSleep, Wake, ProgramError, HandlerReturns, MainReturns, StartServing
  <1>3. CASE Conversation
    <2>1. ASSUME NEW valid \in BOOLEAN, MockAnswers(valid)
          PROVE  Top.wants \in Tools /\ RecordTool(Top.wants)
      BY <2>1, InferenceAssumptions DEF MockAnswers
    <2>2. CASE NoImplementation
      <3>1. Top \in Good /\ (Top.kind = "infer" => Top.wants \in tools_registry)
        BY <2>2, TopFacts DEF NoImplementation, CallsTool, Callable, Running
      <3>2. Top.wants \in Tools
        BY <2>2, <3>1 DEF NoImplementation, CallsTool, Good, Frame, Typing, TypeOK
      <3> QED  BY <2>2, <3>2 DEF NoImplementation
    <2>3. CASE Unwind
      <3>1. Top.kind = "tool" => Top.name \in Tools
        BY <2>3, TopFacts DEF Unwind, Good
      <3> QED  BY <2>3, <3>1 DEF Unwind
    <2> QED  BY <1>3, <2>1, <2>2, <2>3 DEF Conversation, RejectModelCall, AskModel,
               RefuseToolCall, RefuseArguments, RunToolBody
  <1>4. CASE Model
    <2>1. ASSUME InConversation("sent")
          PROVE  Top.name \in Infers
      BY <2>1, TopFacts DEF InConversation, Running, Good
    <2> QED  BY <1>4, <2>1 DEF Model, ModelAnswers, ModelAnswersBadly, ModelCallsTool
  <1>5. CASE Timeouts \/ AcceptRequest \/ AtRest \/ UNCHANGED vars
    BY <1>5 DEF Timeouts, Timeout, AcceptRequest, AtRest, vars
  <1> QED  BY <1>2, <1>3, <1>4, <1>5 DEF Next

CountersTyped ==
  /\ process \in {"script", "serving", "exited"}
  /\ requests \in Nat
  /\ ctl \in {"run", "raise"}
  /\ budget \in Budgets \cup {NoBudget}
  /\ total_model_calls \in Nat
  /\ tools_registry \subseteq Tools
  /\ issued \in Nat /\ abandoned \in Nat
  /\ tool_starts \in Nat /\ cancelled \in Nat

(* Every step keeps the process, the budget, the counters and the registry  *)
(* in their types.                                                          *)
LEMMA StepCounters ==
  ASSUME Typing, [Next]_vars
  PROVE  CountersTyped'
  <1>0. CountersTyped
    BY DEF Typing, TypeOK, CountersTyped
  <1> USE <1>0 DEF CountersTyped, serverVars, budgetVars, toolVars, Raise
  <1>1. CASE Code
    BY <1>1 DEF Code, DeclareTool, DeclareBudget, AwaitInference, AwaitTool, AwaitSleep,
       Wake, ProgramError, ToolReturns, HandlerReturns, MainReturns, StartServing
  <1>2. CASE Conversation
    <2>1. CASE RejectModelCall \/ RefuseToolCall \/ RefuseArguments
      BY <2>1 DEF RejectModelCall, RefuseToolCall, RefuseArguments
    <2>2. CASE AskModel
      BY <2>2 DEF AskModel
    <2>3. ASSUME NEW valid \in BOOLEAN, MockAnswers(valid) PROVE CountersTyped'
      BY <2>3 DEF MockAnswers, StartTool
    <2>4. CASE RunToolBody
      BY <2>4 DEF RunToolBody, StartTool
    <2>5. CASE NoImplementation
      BY <2>5 DEF NoImplementation, StartTool
    <2>6. CASE Unwind
      BY <2>6 DEF Unwind
    <2> QED  BY <1>2, <2>1, <2>2, <2>3, <2>4, <2>5, <2>6 DEF Conversation
  <1>3. CASE Model
    <2>1. CASE ModelAnswers
      BY <2>1 DEF ModelAnswers, RecordModelCall
    <2>2. CASE ModelAnswersBadly
      BY <2>2 DEF ModelAnswersBadly, RecordModelCall
    <2>3. ASSUME NEW t \in Names, ModelCallsTool(t) PROVE CountersTyped'
      BY <2>3 DEF ModelCallsTool, RecordModelCall
    <2> QED  BY <1>3, <2>1, <2>2, <2>3 DEF Model
  <1>4. ASSUME NEW k \in DOMAIN stack, Timeout(k) PROVE CountersTyped'
    <2>1. DOMAIN stack = 1..Len(stack) /\ Len(stack) \in Nat
      BY LenProperties DEF Typing, Rooted
    <2>2. IsFiniteSet({i \in ToolFrames(stack) : i > k})
      <3>1. IsFiniteSet(1..Len(stack))
        BY <2>1, FS_Interval
      <3> QED  BY <2>1, <3>1, FS_Subset DEF ToolFrames
    <2>3. Cardinality({i \in ToolFrames(stack) : i > k}) \in Nat
      BY <2>2, FS_CardinalityType
    <2> QED  BY <1>4, <2>3 DEF Timeout
  <1>5. CASE AcceptRequest
    BY <1>5 DEF AcceptRequest
  <1>6. CASE AtRest \/ UNCHANGED vars
    BY <1>6 DEF AtRest, vars
  <1> QED  BY <1>1, <1>2, <1>3, <1>4, <1>5, <1>6 DEF Next, Timeouts

(* Typing is inductive: the types alone are not, because SetCaller needs a  *)
(* caller to exist.                                                         *)
LEMMA TypingInductive ==
  /\ Init => Typing
  /\ Typing /\ [Next]_vars => Typing'
  <1>1. ASSUME Init PROVE Typing
    <2> DEFINE f == NewFrame("main", NoName, "run", FALSE)
    <2>1. f \in Good /\ f.kind = "main"
      BY NewFrameGood DEF CodeKinds, NewFrame
    <2>2. stack = <<f>>
      BY <1>1 DEF Init
    <2> HIDE DEF f
    <2>3. Rooted(stack)
      BY <2>1, <2>2 DEF Rooted
    <2>4. stack \in Seq(Frame)
      BY <2>3, GoodStackIsFrames DEF Rooted
    <2>5. traces \in Seq(TraceRecord)
      BY <1>1, EmptySeq DEF Init
    <2> QED  BY <1>1, <2>3, <2>4, <2>5 DEF Init, Typing, TypeOK, TraceRecord
  <1>2. ASSUME Typing, [Next]_vars PROVE Typing'
    <2>1. StackTyped(stack', ctl') /\ TracesTyped' /\ CountersTyped'
      BY <1>2, StepStack, StepTraces, StepCounters
    <2>2. stack' \in Seq(Frame)
      BY <2>1, GoodStackIsFrames DEF StackTyped, Rooted
    <2>3. Rooted(stack)' /\ (ctl = "raise" => stack # <<>>)'
      BY <2>1 DEF StackTyped, Rooted
    <2>4. TypeOK'
      BY <2>1, <2>2 DEF TypeOK, TracesTyped, CountersTyped, TraceRecord
    <2> QED  BY <2>3, <2>4 DEF Typing
  <1> QED  BY <1>1, <1>2

(* Every variable keeps its type, for any program, tools and budget.        *)
THEOREM TypeCorrect == Spec => []TypeOK
  <1>1. Typing => TypeOK
    BY DEF Typing
  <1> QED  BY <1>1, TypingInductive, PTL DEF Spec

-----------------------------------------------------------------------------
(* Permissions *)

HistoryPermitted(f) ==
  f.kind = "infer" => \A j \in DOMAIN f.history : Permits(f.name, f.history[j])

PermittedStack(s) ==
  \A i \in 1..Len(s) :
    /\ HistoryPermitted(s[i])
    /\ s[i].kind = "infer" /\ i < Len(s) => Permits(s[i].name, s[i + 1].name)

\* r is s with its last frame replaced by one of the same name and kind.
LEMMA PermittedReplaced ==
  ASSUME NEW s \in Seq(Good), NEW r \in Seq(Good), Len(r) = Len(s), Len(s) \in Nat \ {0},
         \A j \in 1..(Len(s) - 1) : r[j] = s[j],
         r[Len(s)].name = s[Len(s)].name, r[Len(s)].kind = s[Len(s)].kind,
         HistoryPermitted(r[Len(s)]), PermittedStack(s)
  PROVE  PermittedStack(r)
  <1> SUFFICES ASSUME NEW i \in 1..Len(s)
               PROVE  /\ HistoryPermitted(r[i])
                      /\ r[i].kind = "infer" /\ i < Len(s) => Permits(r[i].name, r[i + 1].name)
    BY DEF PermittedStack
  <1>1. CASE i = Len(s)
    BY <1>1
  <1>2. CASE i < Len(s)
    <2>1. r[i] = s[i] /\ r[i + 1].name = s[i + 1].name
      <3>1. CASE i + 1 = Len(s)
        BY <3>1, <1>2
      <3>2. CASE i + 1 \in 1..(Len(s) - 1)
        BY <3>2, <1>2
      <3> QED  BY <3>1, <3>2, <1>2
    <2> QED  BY <1>2, <2>1 DEF PermittedStack
  <1> QED  BY <1>1, <1>2

(* Pushing a frame onto a conversation keeps the permissions if the         *)
(* conversation permits the frame's tool.                                   *)
LEMMA PermittedPushed ==
  ASSUME NEW s \in Seq(Good), NEW r \in Seq(Good), Len(s) \in Nat \ {0}, Len(r) = Len(s) + 1,
         \A j \in 1..Len(s) : r[j] = s[j], HistoryPermitted(r[Len(s) + 1]),
         s[Len(s)].kind = "infer" => Permits(s[Len(s)].name, r[Len(s) + 1].name),
         PermittedStack(s)
  PROVE  PermittedStack(r)
  <1> SUFFICES ASSUME NEW i \in 1..Len(r)
               PROVE  /\ HistoryPermitted(r[i])
                      /\ r[i].kind = "infer" /\ i < Len(r) => Permits(r[i].name, r[i + 1].name)
    BY DEF PermittedStack
  <1>1. CASE i = Len(s) + 1
    BY <1>1
  <1>2. CASE i = Len(s)
    BY <1>2 DEF PermittedStack
  <1>3. CASE i < Len(s)
    <2>1. i \in 1..Len(s) /\ i + 1 \in 1..Len(s)
      BY <1>3
    <2> QED  BY <1>3, <2>1 DEF PermittedStack
  <1> QED  BY <1>1, <1>2, <1>3

(* A lower part of a stack that respects the permissions respects them.     *)
LEMMA PermittedCut ==
  ASSUME NEW s \in Seq(Good), NEW r, Len(s) \in Nat, Len(r) \in 0..Len(s),
         \A j \in 1..Len(r) : r[j] = s[j], PermittedStack(s)
  PROVE  PermittedStack(r)
  BY DEF PermittedStack

(* A permitted tool's result may be added to a conversation's history.      *)
LEMMA HistoryExtended ==
  ASSUME NEW f \in Good, NEW g, NEW t \in Tools, HistoryPermitted(f),
         f.kind = "infer" => Permits(f.name, t),
         g.kind = f.kind, g.name = f.name,
         g.history = IF f.kind = "infer" THEN Append(f.history, t) ELSE f.history
  PROVE  HistoryPermitted(g)
  <1> SUFFICES ASSUME f.kind = "infer", NEW j \in DOMAIN g.history
               PROVE  Permits(g.name, g.history[j])
    BY DEF HistoryPermitted
  <1>1. f.history \in Seq(Tools)
    BY DEF Good, Frame
  <1>2. /\ DOMAIN g.history = 1..(Len(f.history) + 1) /\ Len(f.history) \in Nat
        /\ \A i \in 1..Len(f.history) : g.history[i] = f.history[i]
        /\ g.history[Len(f.history) + 1] = t
    BY <1>1, AppendProperties, LenProperties
  <1>3. DOMAIN f.history = 1..Len(f.history)
    BY <1>1, LenProperties
  <1> QED  BY <1>2, <1>3 DEF HistoryPermitted

Permitted == PermittedStack(stack)

(* No step gives a conversation the result, or starts the body, of a tool   *)
(* outside its permissions clause.                                          *)
LEMMA StepPermitted ==
  ASSUME Typing, Permitted, [Next]_vars
  PROVE  Permitted'
  <1>1. CASE UNCHANGED stack
    BY <1>1 DEF Permitted
  <1>2. CASE stack' = <<>>
    BY <1>2 DEF Permitted, PermittedStack
  \* The last frame changes, but neither its name and kind nor its history.
  <1>3. ASSUME stack # <<>>, NEW g \in Good,
               g.kind = Top.kind, g.name = Top.name, HistoryPermitted(g)
        PROVE  PermittedStack(SetTop(g))
    <2>1. Len(stack) \in Nat \ {0} /\ stack \in Seq(Good)
      BY <1>3, TopFacts DEF Typing, Rooted
    <2>2. /\ SetTop(g) \in Seq(Good) /\ Len(SetTop(g)) = Len(stack) /\ SetTop(g)[Len(stack)] = g
          /\ \A j \in 1..(Len(stack) - 1) : SetTop(g)[j] = stack[j]
      BY <1>3, SetTopRooted DEF Rooted
    <2> QED  BY <1>3, <2>1, <2>2, PermittedReplaced DEF Permitted, Top
  \* A frame is popped and its caller resumes.
  <1>4. ASSUME stack # <<>>, Len(stack) > 1,
               NEW g \in Good, stack' = SetCaller(g),
               g.kind = Caller.kind, g.name = Caller.name, HistoryPermitted(g)
        PROVE  Permitted'
    <2>1. Len(stack) \in Nat \ {0} /\ stack \in Seq(Good)
      BY <1>4, TopFacts DEF Typing, Rooted
    <2>2. /\ Below \in Seq(Good) /\ Len(Below) = Len(stack) - 1 /\ Len(Below) \in Nat \ {0}
          /\ \A j \in 1..(Len(stack) - 1) : Below[j] = stack[j]
      BY <1>4, <2>1, BelowRooted DEF Rooted
    <2>3. PermittedStack(Below)
      BY <2>1, <2>2, PermittedCut DEF Permitted
    <2>4. Below[Len(Below)] = Caller
      BY <2>1, <2>2, <1>4 DEF Caller
    <2>5. /\ stack' \in Seq(Good) /\ Len(stack') = Len(Below) /\ stack'[Len(Below)] = g
          /\ \A j \in 1..(Len(Below) - 1) : stack'[j] = Below[j]
      BY <1>4, <2>1, <2>2, SetCallerRooted DEF Rooted
    <2>6. PermittedStack(stack')
      BY <1>4, <2>2, <2>3, <2>4, <2>5, PermittedReplaced
    <2> QED  BY <2>6 DEF Permitted
  \* Frames are dropped.
  <1>5. ASSUME NEW n \in 0..Len(stack), stack' = SubSeq(stack, 1, n)
        PROVE  Permitted'
    <2>1. Len(stack) \in Nat /\ stack \in Seq(Good) /\ n \in Nat /\ n <= Len(stack)
      BY <1>5, LenProperties DEF Typing, Rooted
    <2>2. Len(stack') = n /\ \A j \in 1..n : stack'[j] = stack[j]
      BY <1>5, <2>1, CutRooted DEF Typing
    <2>3. PermittedStack(stack')
      BY <2>1, <2>2, PermittedCut DEF Permitted
    <2> QED  BY <2>3 DEF Permitted
  <1>6. stack # <<>> => Top \in Good /\ HistoryPermitted(Top)
    BY TopFacts DEF Permitted, PermittedStack, Top
  <1>7. CASE Code
    <2>1. ASSUME NEW t \in Tools, AwaitTool(t) PROVE Permitted'
      <3> DEFINE g == [Top EXCEPT !.phase = "calling", !.wants = t, !.awaits = @ + 1]
      <3>1. stack # <<>> /\ Top \in Good /\ Top.kind \in CodeKinds /\ Top.awaits < MaxAwaits
            /\ stack' = SetTop(g)
        BY <1>6, <2>1 DEF AwaitTool, InCode, Running, Awaits
      <3>2. g \in Good /\ g.kind = Top.kind
        BY <3>1, AwaitingGood
      <3>3. g.name = Top.name /\ HistoryPermitted(g)
        BY <3>1 DEF Good, Frame, HistoryPermitted, CodeKinds
      <3> QED  BY <1>3, <3>1, <3>2, <3>3 DEF Permitted
    <2>2. ASSUME NEW f \in Infers, AwaitInference(f) PROVE Permitted'
      <3> DEFINE g == [Top EXCEPT !.phase = "awaiting", !.wants = NoName, !.awaits = @ + 1]
                 h == NewFrame("infer", f, "check", budget.timeout_ms)
      <3>1. stack # <<>> /\ Top \in Good /\ Top.kind \in CodeKinds /\ Top.awaits < MaxAwaits
            /\ stack' = Append(SetTop(g), h)
        BY <1>6, <2>2 DEF AwaitInference, InCode, Running, Awaits
      <3>2. g \in Good /\ g.kind = Top.kind
        BY <3>1, AwaitingGood
      <3>3. g.name = Top.name /\ HistoryPermitted(g)
        BY <3>1 DEF Good, Frame, HistoryPermitted, CodeKinds
      <3>4. h \in Good /\ HistoryPermitted(h)
        BY BudgetFacts, NewFrameGood DEF HistoryPermitted, NewFrame
      <3>5. PermittedStack(SetTop(g)) /\ Rooted(SetTop(g)) /\ SetTop(g) # <<>>
            /\ SetTop(g)[Len(SetTop(g))].kind # "infer"
        BY <1>3, <3>1, <3>2, <3>3, SetTopRooted DEF CodeKinds
      <3> DEFINE s == SetTop(g)
      <3> HIDE DEF g, h, s
      <3>6. stack' = Append(s, h)
        BY <3>1 DEF s
      <3>7. PermittedStack(s) /\ Rooted(s) /\ s # <<>> /\ s[Len(s)].kind # "infer"
        BY <3>5 DEF s
      <3>8. /\ Rooted(stack') /\ Len(stack') = Len(s) + 1 /\ Len(s) \in Nat \ {0}
            /\ \A j \in 1..Len(s) : stack'[j] = s[j]
            /\ stack'[Len(s) + 1] = h
        BY <3>4, <3>6, <3>7, PushRooted
      <3>9. PermittedStack(stack')
        BY <3>4, <3>7, <3>8, PermittedPushed DEF Rooted
      <3> QED  BY <3>9 DEF Permitted
    <2>3. CASE Wake
      <3> DEFINE g == [Top EXCEPT !.phase = "run"]
      <3>1. stack # <<>> /\ Top \in Good /\ stack' = SetTop(g) /\ HistoryPermitted(Top)
        BY <1>6, <2>3 DEF Wake, Running
      <3>2. g \in Good /\ g.kind = Top.kind /\ g.name = Top.name /\ HistoryPermitted(g)
        BY <3>1, PhaseGood DEF HistoryPermitted
      <3> QED  BY <1>3, <3>1, <3>2 DEF Permitted
    <2>4. ASSUME NEW valid \in BOOLEAN, ToolReturns(valid) PROVE Permitted'
      <3>1. stack # <<>> /\ Len(stack) > 1 /\ Top.name \in Tools /\ Len(stack) \in Nat
        BY <2>4, TopFacts DEF ToolReturns, InCode, Running, Good
      <3>2. CASE ~valid
        <4>1. stack' = SubSeq(stack, 1, Len(stack) - 1) /\ Len(stack) - 1 \in 0..Len(stack)
          BY <2>4, <3>1, <3>2 DEF ToolReturns, Below
        <4> QED  BY <1>5, <4>1
      <3>3. CASE valid
        <4> DEFINE g == WithResult(Caller, Top.name)
        <4>1. Caller \in Good
          BY <3>1, CallerFacts
        <4>2. HistoryPermitted(Caller) /\ (Caller.kind = "infer" => Permits(Caller.name, Top.name))
          BY <3>1 DEF Permitted, PermittedStack, Caller, Top
        <4>3. /\ g \in Good /\ g.kind = Caller.kind /\ g.name = Caller.name
              /\ g.history = IF Caller.kind = "infer" THEN Append(Caller.history, Top.name)
                                                      ELSE Caller.history
          BY <3>1, <4>1, WithResultGood
        <4>4. HistoryPermitted(g)
          BY <3>1, <4>1, <4>2, <4>3, HistoryExtended
        <4>5. stack' = SetCaller(g)
          BY <2>4, <3>3 DEF ToolReturns
        <4> QED  BY <1>4, <3>1, <4>3, <4>4, <4>5
      <3> QED  BY <3>2, <3>3
    <2>5. CASE AwaitSleep
      <3> DEFINE g == [Top EXCEPT !.phase = "asleep", !.wants = NoName, !.awaits = @ + 1]
      <3>1. stack # <<>> /\ Top \in Good /\ Top.kind \in CodeKinds /\ Top.awaits < MaxAwaits
            /\ stack' = SetTop(g)
        BY <1>6, <2>5 DEF AwaitSleep, InCode, Running, Awaits
      <3>2. g \in Good /\ g.kind = Top.kind
        BY <3>1, AsleepGood
      <3>3. g.name = Top.name /\ HistoryPermitted(g)
        BY <3>1 DEF Good, Frame, HistoryPermitted, CodeKinds
      <3> QED  BY <1>3, <3>1, <3>2, <3>3 DEF Permitted
    <2> QED  BY <1>1, <1>2, <1>7, <2>1, <2>2, <2>3, <2>4, <2>5
             DEF Code, DeclareTool, DeclareBudget, ProgramError,
                 HandlerReturns, MainReturns, StartServing
  <1>8. CASE Conversation
    <2>1. CASE AskModel
      <3> DEFINE g == [Top EXCEPT !.phase = "sent"]
      <3>1. stack # <<>> /\ Top \in Good /\ stack' = SetTop(g) /\ HistoryPermitted(Top)
        BY <1>6, <2>1 DEF AskModel, InConversation, Running
      <3>2. g \in Good /\ g.kind = Top.kind /\ g.name = Top.name /\ HistoryPermitted(g)
        BY <3>1, PhaseGood DEF HistoryPermitted
      <3> QED  BY <1>3, <3>1, <3>2 DEF Permitted
    <2>2. ASSUME NEW valid \in BOOLEAN, MockAnswers(valid) PROVE Permitted'
      <3> DEFINE g == WithResult(Top, Top.wants)
      <3>1. stack # <<>> /\ Top \in Good /\ Top.wants \in Tools /\ HistoryPermitted(Top)
            /\ (Top.kind = "infer" => Permits(Top.name, Top.wants))
        BY <1>6, <2>2, InferenceAssumptions DEF MockAnswers, CallsTool, Running, Callable
      <3>2. /\ g \in Good /\ g.kind = Top.kind /\ g.name = Top.name
            /\ g.history = IF Top.kind = "infer" THEN Append(Top.history, Top.wants)
                                                 ELSE Top.history
        BY <3>1, WithResultGood
      <3>3. HistoryPermitted(g)
        BY <3>1, <3>2, HistoryExtended
      <3>4. stack' = SetTop(g) \/ UNCHANGED stack
        BY <2>2 DEF MockAnswers
      <3> QED  BY <1>1, <1>3, <3>1, <3>2, <3>3, <3>4 DEF Permitted
    <2>3. CASE RunToolBody
      <3> DEFINE h == NewFrame("tool", Top.wants, "run", FALSE)
      <3>1. stack # <<>> /\ Top.wants \in Tools /\ stack' = Append(stack, h)
            /\ (Top.kind = "infer" => Permits(Top.name, Top.wants))
        BY <2>3, InferenceAssumptions DEF RunToolBody, CallsTool, Running, Callable
      <3>2. h \in Good /\ HistoryPermitted(h) /\ h.name = Top.wants
        BY <3>1, NewFrameGood DEF CodeKinds, NewFrame, HistoryPermitted
      <3> HIDE DEF h
      <3>3. /\ Rooted(stack') /\ Len(stack') = Len(stack) + 1 /\ Len(stack) \in Nat \ {0}
            /\ \A j \in 1..Len(stack) : stack'[j] = stack[j]
            /\ stack'[Len(stack) + 1] = h
        BY <3>1, <3>2, PushRooted DEF Typing
      <3>4. PermittedStack(stack')
        BY <3>1, <3>2, <3>3, PermittedPushed DEF Typing, Rooted, Permitted, Top
      <3> QED  BY <3>4 DEF Permitted
    <2>4. CASE Unwind
      <3>1. stack' = SubSeq(stack, 1, Len(stack) - 1) /\ Len(stack) - 1 \in 0..Len(stack)
        BY <2>4, TopFacts DEF Unwind, Below
      <3> QED  BY <1>5, <3>1
    <2> QED  BY <1>1, <1>8, <2>1, <2>2, <2>3, <2>4
             DEF Conversation, RejectModelCall, RefuseToolCall, RefuseArguments, NoImplementation
  <1>9. CASE Model
    <2>1. CASE ModelAnswers
      <3> DEFINE g == [Caller EXCEPT !.phase = "run"]
      <3>1. stack # <<>> /\ Len(stack) > 1 /\ stack' = SetCaller(g) /\ Len(stack) \in Nat
        BY <2>1, TopFacts DEF ModelAnswers, InConversation, Running
      <3>2. Caller \in Good /\ HistoryPermitted(Caller)
        BY <3>1, CallerFacts DEF Permitted, PermittedStack, Caller
      <3>3. g \in Good /\ g.kind = Caller.kind /\ g.name = Caller.name /\ HistoryPermitted(g)
        BY <3>2, PhaseGood DEF HistoryPermitted
      <3> QED  BY <1>4, <3>1, <3>3
    <2>2. ASSUME NEW t \in Names, ModelCallsTool(t) PROVE Permitted'
      <3> DEFINE g == [Top EXCEPT !.phase = "calling", !.wants = t]
      <3>1. stack # <<>> /\ Top \in Good /\ Top.kind = "infer" /\ stack' = SetTop(g)
            /\ HistoryPermitted(Top)
        BY <1>6, <2>2 DEF ModelCallsTool, InConversation, Running
      <3>2. g \in Good /\ g.kind = Top.kind /\ g.name = Top.name /\ g.history = Top.history
        BY <3>1 DEF Good, Frame, CodeKinds
      <3>3. HistoryPermitted(g)
        BY <3>1, <3>2 DEF HistoryPermitted
      <3> QED  BY <1>3, <3>1, <3>2, <3>3 DEF Permitted
    <2> QED  BY <1>1, <1>9, <2>1, <2>2 DEF Model, ModelAnswersBadly
  <1>10. ASSUME NEW k \in DOMAIN stack, Timeout(k) PROVE Permitted'
    <2>1. k - 1 \in 0..Len(stack) /\ stack' = SubSeq(stack, 1, k - 1)
      BY <1>10, TimeoutStack, LenProperties DEF Timeout, Typing, Rooted
    <2> QED  BY <1>5, <2>1
  <1>11. CASE AcceptRequest
    <2>1. Len(stack') = 1 /\ HistoryPermitted(stack'[1])
      BY <1>11 DEF AcceptRequest, NewFrame, HistoryPermitted
    <2> QED  BY <2>1 DEF Permitted, PermittedStack
  <1>12. CASE AtRest \/ UNCHANGED vars
    BY <1>1, <1>12 DEF AtRest, vars
  <1> QED  BY <1>7, <1>8, <1>9, <1>10, <1>11, <1>12 DEF Next, Timeouts

(* A conversation only ever gets the results of tools its permissions       *)
(* clause allows, and no other tool's body runs on its behalf, whatever     *)
(* tools are declared and whatever the model asks for.                      *)
THEOREM PermissionsHold == Spec => []ToolsWithinPermissions
  <1>1. Init => Permitted
    <2>1. Init => Len(stack) = 1 /\ HistoryPermitted(stack[1])
      BY DEF Init, NewFrame, HistoryPermitted
    <2>2. ASSUME NEW s, Len(s) = 1, HistoryPermitted(s[1]) PROVE PermittedStack(s)
      BY <2>2 DEF PermittedStack
    <2> QED  BY <2>1, <2>2 DEF Permitted
  <1>2. Typing /\ Permitted /\ [Next]_vars => Permitted'
    BY StepPermitted
  <1>3. Typing /\ Permitted => ToolsWithinPermissions
    <2>1. Typing => DOMAIN stack = 1..Len(stack)
      BY LenProperties DEF Typing, Rooted
    <2> QED  BY <2>1 DEF Permitted, PermittedStack, HistoryPermitted, ToolsWithinPermissions
  <1> QED  BY <1>1, <1>2, <1>3, TypingInductive, PTL DEF Spec

-----------------------------------------------------------------------------
(* The runtime implements CallBudget *)

Counts == <<budget.max_model_calls, requests, total_model_calls, issued>>

(* Two shapes of step the refinement meets again and again: the future      *)
(* ended, or nothing the abstract budget sees changed.                      *)
LEMMA AbstractSteps ==
  /\ Running /\ ~CallInFlight /\ ~Running' /\ ~CallInFlight' /\ UNCHANGED Counts
       => CB!Close
  /\ (Running <=> Running') /\ (CallInFlight <=> CallInFlight') /\ UNCHANGED Counts
       => UNCHANGED CB!vars
  <1>1. ASSUME Running, ~CallInFlight, ~Running', ~CallInFlight', UNCHANGED Counts
        PROVE  CB!Close
    <2>1. Running' = FALSE /\ CallInFlight' = CallInFlight
      BY <1>1 DEF Running, CallInFlight
    <2> QED  BY <1>1, <2>1 DEF CB!Close, Counts
  <1>2. ASSUME Running <=> Running', CallInFlight <=> CallInFlight', UNCHANGED Counts
        PROVE  UNCHANGED CB!vars
    BY <1>2 DEF CB!vars, Counts, Running, CallInFlight
  <1> QED  BY <1>1, <1>2

(* The program starts as the first session of the abstract budget.          *)
LEMMA InitRefines == Init => CB!Init
  BY DEF Init, CB!Init, NoBudget, Running, CallInFlight, Top, NewFrame

\* What the last frame says of a stack that runs on.
LEMMA AfterStep ==
  ASSUME stack' # <<>>, ctl' = "run", NEW g, stack'[Len(stack')] = g
  PROVE  Running' /\ (CallInFlight' <=> g.phase = "sent")
  BY DEF Running, CallInFlight, Top

(* A step of code declares the budget, closes the session, or is invisible  *)
(* to the abstract budget.                                                  *)
LEMMA CodeRefines ==
  ASSUME Typing, Code
  PROVE  [CB!Next]_(CB!vars)
  <1>1. Code => Running
    BY DEF Code, DeclareTool, DeclareBudget, AwaitInference, AwaitTool, AwaitSleep, Wake,
           ProgramError, ToolReturns, HandlerReturns, MainReturns, StartServing, InCode, Running
  <1>2. Code => ~CallInFlight
    BY DEF Code, DeclareTool, DeclareBudget, AwaitInference, AwaitTool, AwaitSleep, Wake,
           ProgramError, ToolReturns, HandlerReturns, MainReturns, StartServing, InCode, CallInFlight
  <1>3. ASSUME Running', ~CallInFlight', UNCHANGED Counts PROVE UNCHANGED CB!vars
    BY <1>1, <1>2, <1>3, AbstractSteps
  <1>4. ASSUME ~Running', UNCHANGED Counts PROVE CB!Next
    <2>1. ~CallInFlight'
      BY <1>4 DEF CallInFlight
    <2> QED  BY <1>1, <1>2, <1>4, <2>1, AbstractSteps DEF CB!Next
  <1> USE DEF Counts, serverVars, budgetVars
  <1>5. ASSUME NEW t \in Tools, DeclareTool(t) PROVE UNCHANGED CB!vars
    <2>1. Running' /\ ~CallInFlight'
      BY <1>1, <1>2, <1>5 DEF DeclareTool, Running, CallInFlight, Top
    <2> QED  BY <1>3, <1>5, <2>1 DEF DeclareTool
  <1>6. ASSUME NEW b \in Budgets, DeclareBudget(b) PROVE [CB!Next]_(CB!vars)
    <2>1. (Running' = Running) /\ (CallInFlight' = CallInFlight)
      BY <1>6 DEF DeclareBudget, Running, CallInFlight, Top
    <2>2. b.max_model_calls \in Nat \cup {NoLimit}
      BY InferenceAssumptions
    <2>3. budget.max_model_calls = NoLimit /\ budget'.max_model_calls = b.max_model_calls
          /\ UNCHANGED <<requests, total_model_calls, issued>>
      BY <1>6 DEF DeclareBudget, NoBudget
    <2>4. CASE b.max_model_calls = NoLimit
      BY <2>1, <2>3, <2>4, AbstractSteps
    <2>5. CASE b.max_model_calls \in Nat
      <3>1. CB!Declare
        BY <1>1, <1>2, <2>1, <2>3, <2>5 DEF CB!Declare
      <3> QED  BY <3>1 DEF CB!Next
    <2> QED  BY <2>2, <2>4, <2>5
  <1>7. ASSUME NEW f \in Infers, AwaitInference(f) PROVE UNCHANGED CB!vars
    <2> DEFINE g == [Top EXCEPT !.phase = "awaiting", !.wants = NoName, !.awaits = @ + 1]
               h == NewFrame("infer", f, "check", budget.timeout_ms)
               s == SetTop(g)
    <2>1. stack # <<>> /\ Top \in Good /\ Top.kind \in CodeKinds /\ Top.awaits < MaxAwaits
          /\ stack' = Append(s, h) /\ ctl' = "run"
      BY <1>7, TopFacts DEF AwaitInference, InCode, Running, Awaits
    <2>2. g \in Good /\ g.kind = Top.kind
      BY <2>1, AwaitingGood
    <2>3. Rooted(s) /\ s # <<>>
      BY <2>1, <2>2, SetTopRooted
    <2>4. h \in Good /\ h.phase = "check"
      BY BudgetFacts, NewFrameGood DEF NewFrame
    <2> HIDE DEF s, h
    <2>5. stack' # <<>> /\ stack'[Len(stack')] = h
      BY <2>1, <2>3, <2>4, PushRooted
    <2>6. Running' /\ ~CallInFlight'
      BY <2>1, <2>4, <2>5, AfterStep
    <2> QED  BY <1>3, <1>7, <2>6 DEF AwaitInference
  <1>8. ASSUME NEW t \in Tools, AwaitTool(t) PROVE UNCHANGED CB!vars
    <2> DEFINE g == [Top EXCEPT !.phase = "calling", !.wants = t, !.awaits = @ + 1]
    <2>1. stack # <<>> /\ Top \in Good /\ Top.kind \in CodeKinds /\ Top.awaits < MaxAwaits
          /\ stack' = SetTop(g) /\ ctl' = "run"
      BY <1>8, TopFacts DEF AwaitTool, InCode, Running, Awaits
    <2>2. g \in Good /\ g.kind = Top.kind /\ g.phase = "calling"
      BY <2>1, AwaitingGood
    <2>3. stack' # <<>> /\ stack'[Len(stack')] = g
      BY <2>1, <2>2, SetTopRooted
    <2>4. Running' /\ ~CallInFlight'
      BY <2>1, <2>2, <2>3, AfterStep
    <2> QED  BY <1>3, <1>8, <2>4 DEF AwaitTool
  <1>9. ASSUME AwaitSleep PROVE UNCHANGED CB!vars
    <2> DEFINE g == [Top EXCEPT !.phase = "asleep", !.wants = NoName, !.awaits = @ + 1]
    <2>1. stack # <<>> /\ Top \in Good /\ Top.kind \in CodeKinds /\ Top.awaits < MaxAwaits
          /\ stack' = SetTop(g) /\ ctl' = "run"
      BY <1>9, TopFacts DEF AwaitSleep, InCode, Running, Awaits
    <2>2. g \in Good /\ g.kind = Top.kind /\ g.phase = "asleep"
      BY <2>1, AsleepGood
    <2>3. stack' # <<>> /\ stack'[Len(stack')] = g
      BY <2>1, <2>2, SetTopRooted
    <2>4. Running' /\ ~CallInFlight'
      BY <2>1, <2>2, <2>3, AfterStep
    <2> QED  BY <1>3, <1>9, <2>4 DEF AwaitSleep
  <1>10. ASSUME Wake PROVE UNCHANGED CB!vars
    <2> DEFINE g == [Top EXCEPT !.phase = "run"]
    <2>1. stack # <<>> /\ Top \in Good /\ stack' = SetTop(g) /\ ctl' = "run"
      BY <1>10, TopFacts DEF Wake, Running
    <2>2. g \in Good /\ g.kind = Top.kind /\ g.phase = "run"
      BY <2>1, PhaseGood
    <2>3. stack' # <<>> /\ stack'[Len(stack')] = g
      BY <2>1, <2>2, SetTopRooted
    <2>4. Running' /\ ~CallInFlight'
      BY <2>1, <2>2, <2>3, AfterStep
    <2> QED  BY <1>3, <1>10, <2>4 DEF Wake
  <1>11. ASSUME ProgramError PROVE CB!Next
    BY <1>4, <1>11 DEF ProgramError, Raise, Running
  <1>12. ASSUME HandlerReturns \/ MainReturns \/ StartServing PROVE CB!Next
    BY <1>4, <1>12 DEF HandlerReturns, MainReturns, StartServing, Running
  <1>13. ASSUME NEW valid \in BOOLEAN, ToolReturns(valid) PROVE [CB!Next]_(CB!vars)
    <2>1. CASE ~valid
      BY <1>4, <1>13, <2>1 DEF ToolReturns, Raise, Running
    <2>2. CASE valid
      <3> DEFINE g == WithResult(Caller, Top.name)
      <3>1. stack # <<>> /\ Len(stack) > 1 /\ Top.name \in Tools
            /\ stack' = SetCaller(g) /\ ctl' = "run"
        BY <1>13, <2>2, TopFacts DEF ToolReturns, InCode, Running, Good
      <3>2. Caller \in Good
        BY <3>1, CallerFacts
      <3>3. g \in Good /\ g.kind = Caller.kind /\ g.phase # "sent"
        BY <3>1, <3>2, WithResultGood
      <3>4. stack' # <<>> /\ stack'[Len(stack')] = g
        BY <3>1, <3>3, SetCallerRooted
      <3>5. Running' /\ ~CallInFlight'
        BY <3>1, <3>3, <3>4, AfterStep
      <3> QED  BY <1>3, <1>13, <3>5 DEF ToolReturns
    <2> QED  BY <2>1, <2>2
  <1> QED  BY <1>5, <1>6, <1>7, <1>8, <1>9, <1>10, <1>11, <1>12, <1>13 DEF Code

(* A step of a conversation begins a model call, closes the session by an   *)
(* error, or is invisible.                                                  *)
LEMMA ConversationRefines ==
  ASSUME Typing, Conversation
  PROVE  [CB!Next]_(CB!vars)
  <1>1. ASSUME Running, ~CallInFlight, Running', ~CallInFlight', UNCHANGED Counts
        PROVE  UNCHANGED CB!vars
    BY <1>1, AbstractSteps
  <1>2. ASSUME Running, ~CallInFlight, ~Running', UNCHANGED Counts PROVE CB!Next
    <2>1. ~CallInFlight'
      BY <1>2 DEF CallInFlight
    <2> QED  BY <1>2, <2>1, AbstractSteps DEF CB!Next
  <1> USE DEF Counts, serverVars, budgetVars
  <1>3. CASE RejectModelCall \/ RefuseToolCall \/ RefuseArguments \/ NoImplementation
    <2>1. Running /\ ~CallInFlight /\ ~Running' /\ UNCHANGED Counts
      BY <1>3 DEF RejectModelCall, RefuseToolCall, RefuseArguments, NoImplementation,
                  CallsTool, InConversation, CallInFlight, Running, Raise
    <2> QED  BY <1>2, <2>1
  <1>4. CASE AskModel
    <2> DEFINE g == [Top EXCEPT !.phase = "sent"]
    <2>1. stack # <<>> /\ Top \in Good /\ stack' = SetTop(g) /\ ctl' = "run"
      BY <1>4, TopFacts DEF AskModel, InConversation, Running
    <2>2. g \in Good /\ g.kind = Top.kind /\ g.phase = "sent"
      BY <2>1, PhaseGood
    <2>3. stack' # <<>> /\ stack'[Len(stack')] = g
      BY <2>1, <2>2, SetTopRooted
    <2>4. Running /\ ~CallInFlight /\ Running' /\ CallInFlight'
      BY <1>4, <2>1, <2>2, <2>3, AfterStep DEF AskModel, InConversation, CallInFlight
    <2>5. Running' = Running /\ CallInFlight' = TRUE
      BY <2>4 DEF Running, CallInFlight
    <2>6. ~CB!LimitReached
      BY <1>4 DEF AskModel, BudgetSpent, CB!LimitReached
    <2>7. issued' = issued + 1 /\ UNCHANGED <<budget, requests, total_model_calls>>
      BY <1>4 DEF AskModel
    <2>8. CB!Begin
      BY <2>4, <2>5, <2>6, <2>7 DEF CB!Begin
    <2> QED  BY <2>8 DEF CB!Next
  <1>5. ASSUME NEW valid \in BOOLEAN, MockAnswers(valid) PROVE [CB!Next]_(CB!vars)
    <2>1. Running /\ ~CallInFlight /\ UNCHANGED Counts
      BY <1>5 DEF MockAnswers, CallsTool, CallInFlight
    <2>2. CASE ~valid
      <3>1. ~Running'
        BY <1>5, <2>2 DEF MockAnswers, Raise, Running
      <3> QED  BY <1>2, <2>1, <3>1
    <2>3. CASE valid
      <3> DEFINE g == WithResult(Top, Top.wants)
      <3>1. stack # <<>> /\ Top \in Good /\ Top.wants \in Tools
            /\ stack' = SetTop(g) /\ ctl' = "run"
        BY <1>5, <2>3, TopFacts, InferenceAssumptions DEF MockAnswers, CallsTool, Running
      <3>2. g \in Good /\ g.kind = Top.kind /\ g.phase # "sent"
        BY <3>1, WithResultGood
      <3>3. stack' # <<>> /\ stack'[Len(stack')] = g
        BY <3>1, <3>2, SetTopRooted
      <3>4. Running' /\ ~CallInFlight'
        BY <3>1, <3>2, <3>3, AfterStep
      <3> QED  BY <1>1, <2>1, <3>4
    <2> QED  BY <2>2, <2>3
  <1>6. CASE RunToolBody
    <2> DEFINE h == NewFrame("tool", Top.wants, "run", FALSE)
    <2>1. Running /\ ~CallInFlight /\ UNCHANGED Counts
      BY <1>6 DEF RunToolBody, CallsTool, CallInFlight
    <2>2. stack # <<>> /\ stack' = Append(stack, h) /\ ctl' = "run" /\ Top.wants \in Tools
      BY <1>6, InferenceAssumptions DEF RunToolBody, CallsTool, Running
    <2>3. h \in Good /\ h.phase = "run"
      BY <2>2, NewFrameGood DEF NewFrame, CodeKinds
    <2> HIDE DEF h
    <2>4. stack' # <<>> /\ stack'[Len(stack')] = h
      BY <2>2, <2>3, PushRooted DEF Typing
    <2>5. Running' /\ ~CallInFlight'
      BY <2>2, <2>3, <2>4, AfterStep
    <2> QED  BY <1>1, <2>1, <2>5
  <1>7. CASE Unwind
    <2>1. ~Running /\ ~Running' /\ ~CallInFlight /\ ~CallInFlight' /\ UNCHANGED Counts
      BY <1>7 DEF Unwind, Running, CallInFlight
    <2> QED  BY <2>1, AbstractSteps
  <1> QED  BY <1>3, <1>4, <1>5, <1>6, <1>7 DEF Conversation

(* An answer of the model completes the call in flight, and one that is an  *)
(* error closes the session as well.                                        *)
LEMMA ModelRefines ==
  ASSUME Typing, Model
  PROVE  [CB!Next]_(CB!vars)
  <1>1. CallInFlight /\ Running /\ RecordModelCall /\ UNCHANGED requests
    BY DEF Model, ModelAnswers, ModelAnswersBadly, ModelCallsTool, InConversation,
           CallInFlight, serverVars
  <1>2. ASSUME ~CallInFlight' PROVE CB!Next
    <2>1. CallInFlight' = FALSE /\ Running' \in {Running, FALSE}
      BY <1>1, <1>2 DEF CallInFlight, Running
    <2>2. total_model_calls' = total_model_calls + 1 /\ UNCHANGED <<budget, requests, issued>>
      BY <1>1 DEF RecordModelCall
    <2>3. CB!Complete
      BY <1>1, <2>1, <2>2 DEF CB!Complete
    <2> QED  BY <2>3 DEF CB!Next
  <1>3. ASSUME ModelAnswers PROVE ~CallInFlight'
    <2> DEFINE g == [Caller EXCEPT !.phase = "run"]
    <2>1. stack # <<>> /\ Len(stack) > 1 /\ stack' = SetCaller(g) /\ ctl' = "run"
      BY <1>3, TopFacts DEF ModelAnswers, InConversation, Running
    <2>2. g \in Good /\ g.kind = Caller.kind /\ g.phase = "run"
      BY <2>1, CallerFacts, PhaseGood
    <2>3. stack' # <<>> /\ stack'[Len(stack')] = g
      BY <2>1, <2>2, SetCallerRooted
    <2> QED  BY <2>1, <2>2, <2>3, AfterStep
  <1>4. ASSUME ModelAnswersBadly PROVE ~CallInFlight'
    BY <1>4 DEF ModelAnswersBadly, Raise, CallInFlight, Running
  <1>5. ASSUME NEW t \in Names, ModelCallsTool(t) PROVE ~CallInFlight'
    <2> DEFINE g == [Top EXCEPT !.phase = "calling", !.wants = t]
    <2>1. stack # <<>> /\ Top \in Good /\ Top.kind = "infer" /\ stack' = SetTop(g) /\ ctl' = "run"
      BY <1>5, TopFacts DEF ModelCallsTool, InConversation, Running
    <2>2. g \in Good /\ g.kind = Top.kind /\ g.phase = "calling"
      BY <2>1 DEF Good, Frame, CodeKinds
    <2>3. stack' # <<>> /\ stack'[Len(stack')] = g
      BY <2>1, <2>2, SetTopRooted
    <2> QED  BY <2>1, <2>2, <2>3, AfterStep
  <1> QED  BY <1>2, <1>3, <1>4, <1>5 DEF Model

(* A timeout abandons the call in flight, or closes a session that was      *)
(* asleep.                                                                  *)
LEMMA TimeoutRefines ==
  ASSUME Typing, NEW k \in DOMAIN stack, Timeout(k)
  PROVE  CB!Next
  <1>1. Running /\ Running' = FALSE /\ CallInFlight' = FALSE /\ UNCHANGED Counts
    BY DEF Timeout, Running, CallInFlight, Raise, Counts, serverVars
  <1>2. CASE CallInFlight
    <2>1. CB!Abandon
      BY <1>1, <1>2 DEF CB!Abandon, Counts
    <2> QED  BY <2>1 DEF CB!Next
  <1>3. CASE ~CallInFlight
    BY <1>1, <1>3, AbstractSteps DEF CB!Next
  <1> QED  BY <1>2, <1>3

(* Every step of the runtime is a step of the abstract budget or leaves it  *)
(* unchanged.                                                               *)
LEMMA StepRefines == Typing /\ [Next]_vars => [CB!Next]_(CB!vars)
  <1> SUFFICES ASSUME Typing, [Next]_vars PROVE [CB!Next]_(CB!vars)
    OBVIOUS
  <1>1. CASE AcceptRequest
    <2> DEFINE h == NewFrame("handler", NoName, "run", FALSE)
    <2>1. stack = <<>> /\ stack' = <<h>> /\ h.phase = "run" /\ ctl = "run" /\ ctl' = "run"
      BY <1>1 DEF AcceptRequest, NewFrame, Typing, TypeOK
    <2>2. stack' # <<>> /\ stack'[Len(stack')] = h
      BY <2>1
    <2>3. Running' /\ ~CallInFlight' /\ ~Running /\ ~CallInFlight
      BY <2>1, <2>2, AfterStep DEF Running, CallInFlight
    <2>4. Running' = TRUE /\ CallInFlight' = CallInFlight
      BY <2>3 DEF Running, CallInFlight
    <2>5. requests' = requests + 1 /\ requests \in Nat /\ UNCHANGED <<budget, total_model_calls, issued>>
      BY <1>1 DEF AcceptRequest, budgetVars, Typing, TypeOK
    <2>6. requests' + 1 = (requests + 1) + 1
      BY <2>5
    <2>7. CB!Open
      BY <2>3, <2>4, <2>5, <2>6 DEF CB!Open
    <2> QED  BY <2>7 DEF CB!Next
  <1>2. CASE AtRest \/ UNCHANGED vars
    <2>1. UNCHANGED <<stack, ctl, budget, requests, total_model_calls, issued>>
      BY <1>2 DEF AtRest, vars, serverVars, budgetVars
    <2>2. Running' = Running /\ CallInFlight' = CallInFlight
      BY <2>1 DEF Running, CallInFlight, Top
    <2> QED  BY <2>1, <2>2 DEF CB!vars
  <1>3. CASE Timeouts
    BY <1>3, TimeoutRefines DEF Timeouts
  <1> QED  BY <1>1, <1>2, <1>3, CodeRefines, ConversationRefines, ModelRefines DEF Next

(* The runtime implements the abstract call budget.                         *)
THEOREM RuntimeImplementsCallBudget == Spec => ImplementsCallBudget
  <1>1. Init => CB!Init
    BY InitRefines
  <1>2. Typing /\ [Next]_vars => [CB!Next]_(CB!vars)
    BY StepRefines
  <1> QED  BY <1>1, <1>2, TypingInductive, PTL DEF Spec, CB!Spec, ImplementsCallBudget

(* The model calls issued stay within those counted plus one for each       *)
(* session: a consequence of the refinement and CallBudget's Overshoot.     *)
THEOREM IssuedCallsBounded == Spec => []IssuedBounded
  <1>1. CB!Spec => []CB!OvershootBounded
    BY CB!Overshoot
  <1> QED  BY <1>1, RuntimeImplementsCallBudget, PTL DEF ImplementsCallBudget, IssuedBounded

(* Under a declared max_model_calls no model call beyond it is counted, for *)
(* every budget, nesting of conversations and number of requests.           *)
THEOREM CountedCallsWithinBudget == Spec => NoCallCountedBeyondBudget
  <1>1. CB!Spec => CB!CountWithinLimit
    BY CB!CountedCallsFit
  <1>2. [budget.max_model_calls # NoLimit /\ total_model_calls' # total_model_calls
           => total_model_calls' <= budget.max_model_calls]_(CB!vars)
        => [budget.max_model_calls # NoLimit /\ total_model_calls' # total_model_calls
              => total_model_calls' <= budget.max_model_calls]_vars
    BY DEF CB!vars
  <1> QED  BY <1>1, <1>2, RuntimeImplementsCallBudget, PTL
           DEF ImplementsCallBudget, NoCallCountedBeyondBudget, CB!CountWithinLimit
=============================================================================
