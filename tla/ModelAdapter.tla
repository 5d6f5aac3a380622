---------------------------- MODULE ModelAdapter ----------------------------
(***************************************************************************)
(* HttpModel: one `infer` call as an exchange with a chat completions      *)
(* endpoint.  A response 429 or 5xx is retried after a delay, everything   *)
(* else ends the call.  AuthorModel (chat.rs) sends in the same way.       *)
(*                                                                         *)
(* A response text is a model value; Reads says which types it parses as.  *)
(* Times are in milliseconds and only added up: a sleep may end any time.  *)
(***************************************************************************)
EXTENDS Integers, Sequences, FiniteSets

CONSTANTS
  Texts,          \* response texts
  Reads,          \* [Texts -> SUBSET types]: what each text parses as
  Unreadable,     \* bodies that are not JSON, or have no message content
  Statuses,       \* of a response
  Seconds,        \* numeric Retry-After headers
  NoHeader        \* no such header, or not a number

ASSUME AdapterAssumption ==
  /\ Statuses \subseteq 200..599
  /\ Seconds \subseteq Nat
  /\ NoHeader \notin Seconds
  /\ Unreadable \cap Texts = {}
  /\ Reads \in [Texts -> SUBSET {"Bool", "Int", "Float", "Node"}]

VARIABLES
  exchange,       \* the call in progress
  wire            \* history: requests sent by all calls

adapterVars == <<exchange, wire>>

-----------------------------------------------------------------------------
MaxRetries == 4
RetryCap   == 8000

Idle ==
  [phase |-> "idle", type |-> "String", attempt |-> 0, sent |-> 0, value |-> "none",
   waited |-> 0, demanded |-> 0]

AdapterInit == exchange = Idle /\ wire = 0

Failed(x) == [x EXCEPT !.phase = "failed"]

\* infer: tools and distributions are refused before anything is sent.
Infer(type, tools) ==
  /\ exchange.phase = "idle"
  /\ exchange' = IF tools \/ type = "Distribution"
                 THEN Failed(Idle)
                 ELSE [Idle EXCEPT !.phase = "sending", !.type = type]
  /\ UNCHANGED wire

Send ==
  /\ exchange.phase = "sending"
  /\ exchange' = [exchange EXCEPT !.phase = "sent", !.sent = @ + 1]
  /\ wire' = wire + 1

\* parse_response_text: a String or an Enum takes any text.
Parses(text, type) == type \in {"String", "Enum"} \/ type \in Reads[text]

Answered(x, body) ==
  IF body \in Unreadable \/ ~Parses(body, x.type)
  THEN Failed(x)
  ELSE [x EXCEPT !.phase = "answered", !.value = body]

\* is_success of a status: any of the 2xx.
Succeeds(status) == status \in 200..299

Retryable(status) == status = 429 \/ status >= 500

\* Faulty: > for >=.
ExhaustedLate(x) == x.attempt > MaxRetries

Exhausted(x) == x.attempt >= MaxRetries

Smaller(a, b) == IF a < b THEN a ELSE b

Delay(x, header) ==
  IF header # NoHeader THEN 1000 * header ELSE Smaller(500 * 2^x.attempt, RetryCap)

Backoff(x, header) ==
  [x EXCEPT !.phase = "sleeping",
            !.waited = @ + Delay(x, header),
            !.demanded = @ + IF header = NoHeader THEN 0 ELSE 1000 * header]

ModelResponds(status, header, body) ==
  /\ exchange.phase = "sent"
  /\ exchange' = IF Succeeds(status) THEN Answered(exchange, body)
                 ELSE IF ~Retryable(status) \/ Exhausted(exchange) THEN Failed(exchange)
                 ELSE Backoff(exchange, header)
  /\ UNCHANGED wire

\* A transport error is not retried.
ModelUnreachable ==
  /\ exchange.phase = "sent"
  /\ exchange' = Failed(exchange)
  /\ UNCHANGED wire

EndOfDelay ==
  /\ exchange.phase = "sleeping"
  /\ exchange' = [exchange EXCEPT !.phase = "sending", !.attempt = @ + 1]
  /\ UNCHANGED wire

AdapterBusy == exchange.phase \in {"sending", "sent", "sleeping"}
AdapterDone == exchange.phase \in {"answered", "failed"}

\* The caller takes the outcome, or drops the call before there is one.
Release ==
  /\ exchange' = Idle
  /\ UNCHANGED wire

AdapterStep ==
  \/ Send
  \/ \E status \in Statuses :
       \/ ~Succeeds(status) /\ \E header \in Seconds \cup {NoHeader} :
                                 ModelResponds(status, header, "none")
       \/ Succeeds(status) /\ \E body \in Texts \cup Unreadable :
                                ModelResponds(status, NoHeader, body)
  \/ ModelUnreachable
  \/ EndOfDelay
=============================================================================
