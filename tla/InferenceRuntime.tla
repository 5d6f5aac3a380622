--------------------------- MODULE InferenceRuntime ---------------------------
(***************************************************************************)
(* The interpreter's model and tool runtime: what `await` does with an     *)
(* `infer` call or a `tool` call, the tool-calling conversation with the   *)
(* model, the program-wide `budget`, the trace log, and the two places     *)
(* this code runs from, the top-level statements of a program and the      *)
(* handler that http_serve calls for one request after another.            *)
(*                                                                         *)
(* One future runs at a time.  It is written as a stack of frames: code    *)
(* (the program, the handler, a tool's body) and conversations (one        *)
(* activation of eval_inference_loop).  The future is suspended only while *)
(* the model has been asked ("sent") or code sleeps ("asleep"); only then  *)
(* can a timeout cut the stack.                                            *)
(*                                                                         *)
(* Values are abstracted to whether they pass validation, programs to      *)
(* "await something, at most MaxAwaits times, then return or fail".        *)
(***************************************************************************)
EXTENDS Integers, Sequences, FiniteSets

CONSTANTS
  Infers,            \* declared infer functions
  Tools,             \* tools the program may declare
  UnknownNames,      \* tool names a model may ask for that no tool has
  Permissions,       \* Permissions[f]: the permissions clause of f
  NoClause,          \* "no permissions clause": every tool is allowed
  Mocked,            \* tools with a configured mock response
  WithBody,          \* tools declared with a body
  Budgets,           \* budget blocks the program may declare (one of them)
  NoLimit,           \* "no max_model_calls"
  MaxAwaits,         \* bound: awaits in one activation of a piece of code
  MaxDepth,          \* bound: height of the stack
  MaxCalls,          \* bound: model and tool calls after which no other starts
  MaxRequests        \* bound: requests accepted by http_serve

ASSUME InferenceAssumptions ==
  /\ Tools \cap UnknownNames = {}
  /\ Mocked \subseteq Tools
  /\ WithBody \subseteq Tools
  /\ Permissions \in [Infers -> (SUBSET Tools) \cup {NoClause}]
  /\ NoLimit \notin Nat
  /\ Budgets \subseteq [max_model_calls : Nat \cup {NoLimit}, timeout_ms : BOOLEAN]
  /\ MaxAwaits \in Nat /\ MaxDepth \in Nat /\ MaxCalls \in Nat /\ MaxRequests \in Nat

VARIABLES
  process,           \* "script", "serving" or "exited"
  requests,          \* requests accepted so far
  stack,             \* the frames of the running future, innermost last
  ctl,               \* "run", or "raise" while a RuntimeError propagates
  budget,
  total_model_calls,
  tools_registry,
  traces,
  next_inference_id,
  next_tool_call_id,
  \* History variables, read by properties only:
  issued,            \* model.infer futures started
  abandoned,         \* ... dropped by a timeout before they completed
  tool_starts,       \* tool calls that reached call_tool_traced
  cancelled          \* ... whose body a timeout dropped

budgetVars == <<budget, total_model_calls, issued, abandoned>>
toolVars   == <<tools_registry, tool_starts, cancelled>>
traceVars  == <<traces, next_inference_id, next_tool_call_id>>
serverVars == <<process, requests>>
vars == <<serverVars, stack, ctl, budgetVars, toolVars, traceVars>>

-----------------------------------------------------------------------------
(* Frames *)

CodeKinds == {"main", "handler", "tool"}
Names     == Tools \cup UnknownNames
NoName    == "none"

Frame ==
  [kind    : CodeKinds \cup {"infer"},
   name    : Infers \cup Tools \cup {NoName},
   phase   : {"run", "asleep", "awaiting", "check", "sent", "calling"},
   awaits  : 0..MaxAwaits,          \* code: awaits performed
   timed   : BOOLEAN,               \* conversation: inside tokio's timeout
   wants   : Names \cup {NoName},   \* the tool being called
   history : Seq(Tools)]            \* conversation: completed exchanges

NewFrame(kind, name, phase, timed) ==
  [kind |-> kind, name |-> name, phase |-> phase, awaits |-> 0,
   timed |-> timed, wants |-> NoName, history |-> <<>>]

Top    == stack[Len(stack)]
Below  == SubSeq(stack, 1, Len(stack) - 1)
Caller == stack[Len(stack) - 1]

SetTop(f)    == [stack EXCEPT ![Len(stack)] = f]
SetCaller(f) == [Below EXCEPT ![Len(stack) - 1] = f]

NoBudget == [max_model_calls |-> NoLimit, timeout_ms |-> FALSE]

Permits(f, t) == Permissions[f] # NoClause => t \in Permissions[f]

\* A caller resumes with the value of the tool it called.
WithResult(f, t) ==
  IF f.kind = "infer"
  THEN [f EXCEPT !.phase = "check", !.wants = NoName, !.history = Append(@, t)]
  ELSE [f EXCEPT !.phase = "run", !.wants = NoName]

\* A record also carries arguments, latency and outcome; no property reads them.
RecordInference(f) ==
  /\ traces' = Append(traces, [kind |-> "Inference", id |-> next_inference_id, name |-> f])
  /\ next_inference_id' = next_inference_id + 1
  /\ UNCHANGED next_tool_call_id

\* Faulty: one counter numbers both kinds of record.
RecordToolSharedCounter(t) ==
  /\ traces' = Append(traces, [kind |-> "ToolCall", id |-> next_inference_id, name |-> t])
  /\ next_inference_id' = next_inference_id + 1
  /\ UNCHANGED next_tool_call_id

RecordTool(t) ==
  /\ traces' = Append(traces, [kind |-> "ToolCall", id |-> next_tool_call_id, name |-> t])
  /\ next_tool_call_id' = next_tool_call_id + 1
  /\ UNCHANGED next_inference_id

Raise == ctl' = "raise"

\* The bounds on the calls of a behaviour.
MayCall == Len(stack) < MaxDepth /\ issued + tool_starts < MaxCalls

-----------------------------------------------------------------------------
(* Code: statements of the program, of the handler, of a tool's body *)

Running == ctl = "run" /\ stack # <<>>
InCode  == Running /\ Top.kind \in CodeKinds /\ Top.phase = "run"

DeclareTool(t) ==
  /\ InCode
  /\ t \notin tools_registry
  /\ tools_registry' = tools_registry \cup {t}
  /\ UNCHANGED <<serverVars, stack, ctl, budgetVars, tool_starts, cancelled, traceVars>>

\* The type checker allows one budget block; running it again sets the same value.
DeclareBudget(b) ==
  /\ InCode
  /\ budget = NoBudget
  /\ budget' = b
  /\ UNCHANGED <<serverVars, stack, ctl, total_model_calls, issued, abandoned,
                 toolVars, traceVars>>

\* Faulty: the awaited call is spawned, and its caller runs on.
AwaitsWithoutWaiting(phase, t) == SetTop([Top EXCEPT !.wants = t, !.awaits = @ + 1])

\* Top counts one more await and changes phase.
Awaits(phase, t) == SetTop([Top EXCEPT !.phase = phase, !.wants = t, !.awaits = @ + 1])

\* Faulty: the loop is not wrapped in the timeout.
AwaitInferenceUntimed(f) ==
  /\ InCode
  /\ Top.awaits < MaxAwaits /\ MayCall
  /\ stack' = Append(Awaits("awaiting", NoName), NewFrame("infer", f, "check", FALSE))
  /\ UNCHANGED <<serverVars, ctl, budgetVars, toolVars, traceVars>>

AwaitInference(f) ==
  /\ InCode
  /\ Top.awaits < MaxAwaits /\ MayCall
  /\ stack' = Append(Awaits("awaiting", NoName),
                     NewFrame("infer", f, "check", budget.timeout_ms))
  /\ UNCHANGED <<serverVars, ctl, budgetVars, toolVars, traceVars>>

AwaitTool(t) ==
  /\ InCode
  /\ Top.awaits < MaxAwaits /\ MayCall
  /\ t \in tools_registry
  /\ stack' = Awaits("calling", t)
  /\ UNCHANGED <<serverVars, ctl, budgetVars, toolVars, traceVars>>

AwaitSleep ==
  /\ InCode
  /\ Top.awaits < MaxAwaits
  /\ stack' = Awaits("asleep", NoName)
  /\ UNCHANGED <<serverVars, ctl, budgetVars, toolVars, traceVars>>

Wake ==
  /\ Running /\ Top.phase = "asleep"
  /\ stack' = SetTop([Top EXCEPT !.phase = "run"])
  /\ UNCHANGED <<serverVars, ctl, budgetVars, toolVars, traceVars>>

\* Any RuntimeError an expression can raise.
ProgramError ==
  /\ InCode
  /\ Raise
  /\ UNCHANGED <<serverVars, stack, budgetVars, toolVars, traceVars>>

-----------------------------------------------------------------------------
(* A conversation: eval_inference_loop *)

InConversation(phase) == Running /\ Top.kind = "infer" /\ Top.phase = phase

\* Faulty: > for >=.
BudgetOverspent ==
  /\ budget.max_model_calls # NoLimit
  /\ total_model_calls > budget.max_model_calls

BudgetSpent ==
  /\ budget.max_model_calls # NoLimit
  /\ total_model_calls >= budget.max_model_calls

RejectModelCall ==
  /\ InConversation("check")
  /\ BudgetSpent
  /\ Raise
  /\ UNCHANGED <<serverVars, stack, budgetVars, toolVars, traceVars>>

AskModel ==
  /\ InConversation("check")
  /\ ~BudgetSpent
  /\ issued' = issued + 1
  /\ stack' = SetTop([Top EXCEPT !.phase = "sent"])
  /\ UNCHANGED <<serverVars, ctl, budget, total_model_calls, abandoned, toolVars, traceVars>>

\* record_model_call: every answer is counted, an error too.  Token and cost
\* totals stay 0 in the code, so its max_tokens and max_cost checks never fire.
RecordModelCall ==
  /\ total_model_calls' = total_model_calls + 1
  /\ UNCHANGED <<budget, issued, abandoned>>

\* An answer that passes validation is the value of the await expression.
ModelAnswers ==
  /\ InConversation("sent")
  /\ RecordInference(Top.name)
  /\ RecordModelCall
  /\ stack' = SetCaller([Caller EXCEPT !.phase = "run"])
  /\ UNCHANGED <<serverVars, ctl, toolVars>>

\* Faulty: the model's error is propagated before record_model_call.
ModelAnswersBadlyUncounted ==
  /\ InConversation("sent")
  /\ RecordInference(Top.name)
  /\ Raise
  /\ UNCHANGED <<serverVars, stack, budgetVars, toolVars>>

\* The model failed, or answered with a value outside the declared schema.
ModelAnswersBadly ==
  /\ InConversation("sent")
  /\ RecordInference(Top.name)
  /\ RecordModelCall
  /\ Raise
  /\ UNCHANGED <<serverVars, stack, toolVars>>

ModelCallsTool(t) ==
  /\ InConversation("sent")
  /\ MayCall
  /\ RecordInference(Top.name)
  /\ RecordModelCall
  /\ stack' = SetTop([Top EXCEPT !.phase = "calling", !.wants = t])
  /\ UNCHANGED <<serverVars, ctl, toolVars>>

\* Faulty: the list of tools offered to the model is trusted to restrict it.
CallableIfDeclared == Top.wants \in tools_registry

\* Faulty: the permissions clause is trusted to name declared tools only.
CallableIfPermitted == Permits(Top.name, Top.wants)

\* check_tool_permission, then the registry lookup.
Callable == Permits(Top.name, Top.wants) /\ Top.wants \in tools_registry

RefuseToolCall ==
  /\ InConversation("calling")
  /\ ~Callable
  /\ Raise
  /\ UNCHANGED <<serverVars, stack, budgetVars, toolVars, traceVars>>

\* Wrong number or types of arguments.
RefuseArguments ==
  /\ InConversation("calling")
  /\ Callable
  /\ Raise
  /\ UNCHANGED <<serverVars, stack, budgetVars, toolVars, traceVars>>

-----------------------------------------------------------------------------
(* A tool call: call_tool_traced, for code and conversations alike *)

CallsTool ==
  /\ Running /\ Top.phase = "calling"
  /\ Top.kind = "infer" => Callable

StartTool == tool_starts' = tool_starts + 1 /\ UNCHANGED <<tools_registry, cancelled>>

\* Faulty: a mock is answered before the trace is taken.
MockAnswersUntraced(valid) ==
  /\ CallsTool
  /\ Top.wants \in Mocked
  /\ StartTool
  /\ IF valid
     THEN stack' = SetTop(WithResult(Top, Top.wants)) /\ UNCHANGED ctl
     ELSE Raise /\ UNCHANGED stack
  /\ UNCHANGED <<serverVars, budgetVars, traceVars>>

\* The mocked value may fail validation against the declared return type.
MockAnswers(valid) ==
  /\ CallsTool
  /\ Top.wants \in Mocked
  /\ StartTool
  /\ RecordTool(Top.wants)
  /\ IF valid
     THEN stack' = SetTop(WithResult(Top, Top.wants)) /\ UNCHANGED ctl
     ELSE Raise /\ UNCHANGED stack
  /\ UNCHANGED <<serverVars, budgetVars>>

\* Faulty: the body is looked up before the mock.
RunToolBodyFirst ==
  /\ CallsTool
  /\ Top.wants \in WithBody
  /\ StartTool
  /\ stack' = Append(stack, NewFrame("tool", Top.wants, "run", FALSE))
  /\ UNCHANGED <<serverVars, ctl, budgetVars, traceVars>>

RunToolBody ==
  /\ CallsTool
  /\ Top.wants \in WithBody \ Mocked
  /\ StartTool
  /\ stack' = Append(stack, NewFrame("tool", Top.wants, "run", FALSE))
  /\ UNCHANGED <<serverVars, ctl, budgetVars, traceVars>>

NoImplementation ==
  /\ CallsTool
  /\ Top.wants \notin WithBody \cup Mocked
  /\ StartTool
  /\ RecordTool(Top.wants)
  /\ Raise
  /\ UNCHANGED <<serverVars, stack, budgetVars>>

ToolReturns(valid) ==
  /\ InCode /\ Top.kind = "tool"
  /\ RecordTool(Top.name)
  /\ IF valid
     THEN stack' = SetCaller(WithResult(Caller, Top.name)) /\ UNCHANGED ctl
     ELSE stack' = Below /\ Raise
  /\ UNCHANGED <<serverVars, budgetVars, toolVars>>

-----------------------------------------------------------------------------
(* Errors and timeouts *)

\* A RuntimeError leaves the innermost frame.  Nothing catches it but
\* http_serve, which answers 500, and main, which exits.
Unwind ==
  /\ ctl = "raise" /\ stack # <<>>
  /\ stack' = Below
  /\ ctl' = IF Below = <<>> THEN "run" ELSE "raise"
  /\ process' = IF Top.kind = "main" THEN "exited" ELSE process
  /\ IF Top.kind = "tool" THEN RecordTool(Top.name) ELSE UNCHANGED traceVars
  /\ UNCHANGED <<requests, budgetVars, toolVars>>

ToolFrames(s) == {i \in DOMAIN s : s[i].kind = "tool"}

\* Faulty: an elapsed timeout gives the caller a default value, no error.
TimeoutWithDefault(k) ==
  /\ Running /\ Top.phase \in {"sent", "asleep"}
  /\ stack[k].timed
  /\ stack' = [SubSeq(stack, 1, k - 1) EXCEPT ![k - 1].phase = "run"]
  /\ abandoned' = abandoned + (IF Top.phase = "sent" THEN 1 ELSE 0)
  /\ cancelled' = cancelled + Cardinality({i \in ToolFrames(stack) : i > k})
  /\ UNCHANGED <<serverVars, ctl, budget, total_model_calls, issued,
                 tools_registry, tool_starts, traceVars>>

\* The timeout around conversation k fires: everything above and including k
\* is dropped where it stands, and BudgetExceeded is raised in k's caller.
Timeout(k) ==
  /\ Running /\ Top.phase \in {"sent", "asleep"}
  /\ stack[k].timed
  /\ stack' = SubSeq(stack, 1, k - 1)
  /\ Raise
  /\ abandoned' = abandoned + (IF Top.phase = "sent" THEN 1 ELSE 0)
  /\ cancelled' = cancelled + Cardinality({i \in ToolFrames(stack) : i > k})
  /\ UNCHANGED <<serverVars, budget, total_model_calls, issued,
                 tools_registry, tool_starts, traceVars>>

-----------------------------------------------------------------------------
(* The program and http_serve *)

StartServing ==
  /\ InCode /\ Top.kind = "main"
  /\ process' = "serving"
  /\ stack' = <<>>
  /\ UNCHANGED <<requests, ctl, budgetVars, toolVars, traceVars>>

MainReturns ==
  /\ InCode /\ Top.kind = "main"
  /\ process' = "exited"
  /\ stack' = <<>>
  /\ UNCHANGED <<requests, ctl, budgetVars, toolVars, traceVars>>

\* Faulty: the call budget is per request, not program-wide.
AcceptRequestAnew ==
  /\ process = "serving" /\ stack = <<>>
  /\ requests < MaxRequests
  /\ requests' = requests + 1
  /\ stack' = <<NewFrame("handler", NoName, "run", FALSE)>>
  /\ total_model_calls' = 0
  /\ UNCHANGED <<process, ctl, budget, issued, abandoned, toolVars, traceVars>>

AcceptRequest ==
  /\ process = "serving" /\ stack = <<>>
  /\ requests < MaxRequests
  /\ requests' = requests + 1
  /\ stack' = <<NewFrame("handler", NoName, "run", FALSE)>>
  /\ UNCHANGED <<process, ctl, budgetVars, toolVars, traceVars>>

HandlerReturns ==
  /\ InCode /\ Top.kind = "handler"
  /\ stack' = <<>>
  /\ UNCHANGED <<serverVars, ctl, budgetVars, toolVars, traceVars>>

\* The process has exited, or waits for a request this model does not send.
AtRest ==
  /\ stack = <<>>
  /\ process = "exited" \/ requests = MaxRequests
  /\ UNCHANGED vars

-----------------------------------------------------------------------------
Init ==
  /\ process = "script"
  /\ requests = 0
  /\ stack = <<NewFrame("main", NoName, "run", FALSE)>>
  /\ ctl = "run"
  /\ budget = NoBudget
  /\ total_model_calls = 0
  /\ tools_registry = {}
  /\ traces = <<>>
  /\ next_inference_id = 1
  /\ next_tool_call_id = 1
  /\ issued = 0
  /\ abandoned = 0
  /\ tool_starts = 0
  /\ cancelled = 0

Code ==
  \/ \E t \in Tools : DeclareTool(t)
  \/ \E b \in Budgets : DeclareBudget(b)
  \/ \E f \in Infers : AwaitInference(f)
  \/ \E t \in Tools : AwaitTool(t)
  \/ AwaitSleep
  \/ Wake
  \/ ProgramError
  \/ \E valid \in BOOLEAN : ToolReturns(valid)
  \/ HandlerReturns
  \/ MainReturns
  \/ StartServing

Conversation ==
  \/ RejectModelCall
  \/ AskModel
  \/ RefuseToolCall
  \/ RefuseArguments
  \/ \E valid \in BOOLEAN : MockAnswers(valid)
  \/ RunToolBody
  \/ NoImplementation
  \/ Unwind

Model ==
  \/ ModelAnswers
  \/ ModelAnswersBadly
  \/ \E t \in Names : ModelCallsTool(t)

Timeouts == \E k \in DOMAIN stack : Timeout(k)

Next == Code \/ Conversation \/ Model \/ Timeouts \/ AcceptRequest \/ AtRest

Spec == Init /\ [][Next]_vars

(* The executor keeps polling the one future, and tokio's timer fires.  The *)
(* model owes nothing: it may never answer.                                 *)
FairSpec ==
  /\ Spec
  /\ WF_vars(Code \/ Conversation)
  /\ WF_vars(Timeouts)

-----------------------------------------------------------------------------
(* Properties *)

TypeOK ==
  /\ process \in {"script", "serving", "exited"}
  /\ requests \in Nat
  /\ stack \in Seq(Frame)
  /\ ctl \in {"run", "raise"}
  /\ budget \in Budgets \cup {NoBudget}
  /\ total_model_calls \in Nat
  /\ tools_registry \subseteq Tools
  /\ traces \in Seq([kind : {"Inference", "ToolCall"}, id : Nat, name : Infers \cup Tools])
  /\ next_inference_id \in Nat
  /\ next_tool_call_id \in Nat
  /\ issued \in Nat /\ abandoned \in Nat
  /\ tool_starts \in Nat /\ cancelled \in Nat

CallInFlight == Running /\ Top.phase = "sent"
Records(kind) == {i \in DOMAIN traces : traces[i].kind = kind}

(* Who may sit on whom: the program or the handler at the bottom, a         *)
(* conversation on the code that awaits it, a tool's body on the caller     *)
(* waiting for that very tool, and only the innermost frame asking the      *)
(* model or asleep.  (exec_stmt, eval_inference_loop and call_tool_traced   *)
(* calling each other.)                                                     *)
StackDiscipline ==
  \A i \in DOMAIN stack :
    LET f == stack[i] IN
    /\ (i = 1) <=> f.kind \in {"main", "handler"}
    /\ i < Len(stack) =>
         LET g == stack[i + 1] IN
         \/ f.kind \in CodeKinds /\ f.phase = "awaiting" /\ g.kind = "infer"
         \/ f.phase = "calling" /\ g.kind = "tool" /\ g.name = f.wants

(* Every model call issued is counted in total_model_calls, in flight, or   *)
(* was dropped by a timeout; every tool call started has a Tool Call        *)
(* record, is still running its body, or was dropped by a timeout.          *)
CallsAreAccounted ==
  /\ issued = total_model_calls + abandoned + (IF CallInFlight THEN 1 ELSE 0)
  /\ tool_starts = Cardinality(Records("ToolCall")) + Cardinality(ToolFrames(stack)) + cancelled

(* The trace log numbers the counted model calls, and the answered tool     *)
(* calls, 1, 2, 3... in the order of the log, across requests, errors and   *)
(* nested conversations.                                                    *)
TracesNumberCalls ==
  /\ total_model_calls = Cardinality(Records("Inference"))
  /\ \A i \in DOMAIN traces :
       traces[i].id = Cardinality({j \in Records(traces[i].kind) : j <= i})

(* A conversation only ever gets the results of tools its permissions       *)
(* clause allows, and no other tool's body runs on its behalf.              *)
ToolsWithinPermissions ==
  \A i \in DOMAIN stack :
    stack[i].kind = "infer" =>
      /\ \A j \in DOMAIN stack[i].history : Permits(stack[i].name, stack[i].history[j])
      /\ i < Len(stack) => Permits(stack[i].name, stack[i + 1].name)

(* No body of a mocked tool ever runs, nor one of a tool never declared.    *)
MocksWin ==
  \A i \in ToolFrames(stack) : stack[i].name \in (WithBody \cap tools_registry) \ Mocked

(* What the model is told in a conversation's history happened: there are   *)
(* at least as many Tool Call records of the tool.                          *)
HistoryIsTraced ==
  \A i \in DOMAIN stack, t \in Tools :
    Cardinality({j \in DOMAIN stack[i].history : stack[i].history[j] = t})
      <= Cardinality({j \in Records("ToolCall") : traces[j].name = t})

(* Under a declared max_model_calls no model call that would exceed it is   *)
(* counted, whatever the nesting, and even if the budget is declared after  *)
(* the first calls.                                                         *)
NoCallCountedBeyondBudget ==
  [][/\ budget.max_model_calls # NoLimit
     /\ total_model_calls' # total_model_calls
     => total_model_calls' <= budget.max_model_calls]_vars

CB == INSTANCE CallBudget WITH
        limit    <- budget.max_model_calls,
        sessions <- requests + 1,
        open     <- Running,
        busy     <- CallInFlight,
        calls    <- total_model_calls

(* The runtime implements the abstract call budget: the script and each     *)
(* request are its sessions.                                                *)
ImplementsCallBudget == CB!Spec

(* A request (or the script) loses at most one model call to the timeout,   *)
(* so all calls issued stay within those counted plus one for each session. *)
IssuedBounded == CB!OvershootBounded

(* With timeout_ms declared before it starts, a request, or the rest of the *)
(* script, ends even when the model never answers.                          *)
TimedSessionEnds ==
  (stack # <<>> /\ Len(stack) = 1 /\ Top.awaits = 0 /\ budget.timeout_ms)
     ~> (stack = <<>>)

(* Contradicted by the code, see PROJECT.json "findings".                   *)
(* The calls the program makes under a budget stay within max_model_calls.  *)
IssuedWithinBudget ==
  [][budget.max_model_calls # NoLimit /\ issued' # issued
     => issued' <= budget.max_model_calls]_vars

=============================================================================
