------------------------------ MODULE HttpServe ------------------------------
(***************************************************************************)
(* http_serve: connections one after another.  A request is read in        *)
(* chunks, answered by a file or by the program's handle_request, and the  *)
(* connection closed.  A handler may ask the model through ModelAdapter,   *)
(* under the program's budget; nothing else runs meanwhile, so every       *)
(* connection waits for the client or the model that this one waits for.   *)
(*                                                                         *)
(* A client's bytes are numbers: Line for a word of the request line, Pad  *)
(* for other headers, End for the blank line, and 1, 2, ... for the body.  *)
(***************************************************************************)
EXTENDS ModelAdapter, SequencesExt

CONSTANTS
  Clients,
  Messages,       \* requests a client may send
  Handler,        \* [paths -> what handle_request does on them]
  Files,          \* absolute names of files, each a sequence of segments
  Root,           \* the segments of asset_root
  Variants,       \* variants of the enum the handler's infer returns
  MaxModelCalls,  \* the declared budget
  Chunk,          \* bytes that one read returns at most
  HeaderLimit     \* bytes after which incomplete headers are refused

VARIABLES
  conn,           \* [Clients -> connection]
  backlog,        \* accepted by the kernel, not yet by the program
  server,         \* where http_serve stands, and its locals
  calls,          \* total_model_calls
  dropped,        \* history: model calls dropped by timeout_ms
  handled         \* history: [client, body] of every call of handle_request

serveVars == <<conn, backlog, server, calls, dropped, handled>>
vars == <<adapterVars, serveVars>>

Outcomes == {"page", "json", "number", "error", "ask", "ask_with_tools"}

ASSUME ServeAssumption ==
  /\ Messages \subseteq [method : STRING, path : Seq(STRING), words : Nat, padding : Nat,
                        length : Nat, body : Seq(Nat \ {0})]
  /\ \A m \in Messages : Handler[m.path] \in Outcomes
  /\ Root \in Seq(STRING)
  /\ {MaxModelCalls, HeaderLimit} \subseteq Nat
  /\ Chunk \in Nat \ {0}

-----------------------------------------------------------------------------
Line == 0
Pad  == -1
End  == -2

Repeat(n, byte) == [i \in 1..n |-> byte]

Bytes(m) == Repeat(m.words, Line) \o Repeat(m.padding, Pad) \o <<End>> \o m.body

NoMessage ==
  [method |-> "none", path |-> <<>>, words |-> 0, padding |-> 0, length |-> 0, body |-> <<>>]

Away ==
  [phase |-> "away", message |-> NoMessage, rest |-> <<>>, stream |-> <<>>,
   closed |-> FALSE, reply |-> [status |-> 0, from |-> "none"]]

Listening == [pc |-> "accept", client |-> "none", buf |-> <<>>, body |-> <<>>, reply |-> Away.reply]

Init ==
  /\ AdapterInit
  /\ conn = [c \in Clients |-> Away]
  /\ backlog = <<>>
  /\ server = Listening
  /\ calls = 0
  /\ dropped = 0
  /\ handled = {}

-----------------------------------------------------------------------------
(* Clients *)

Connect(c, m) ==
  /\ conn[c].phase = "away"
  /\ conn' = [conn EXCEPT ![c] = [Away EXCEPT !.phase = "open", !.message = m, !.rest = Bytes(m)]]
  /\ backlog' = Append(backlog, c)
  /\ UNCHANGED <<adapterVars, server, calls, dropped, handled>>

\* Some more bytes arrive; the network cuts them anywhere.
Arrive(c, n) ==
  /\ conn[c].phase = "open" /\ ~conn[c].closed
  /\ conn' = [conn EXCEPT ![c].stream = @ \o SubSeq(conn[c].rest, 1, n),
                          ![c].rest = SubSeq(@, n + 1, Len(@))]
  /\ UNCHANGED <<adapterVars, backlog, server, calls, dropped, handled>>

\* The client goes away, whatever it has sent.
Hangup(c) ==
  /\ conn[c].phase = "open" /\ ~conn[c].closed
  /\ conn' = [conn EXCEPT ![c].closed = TRUE]
  /\ UNCHANGED <<adapterVars, backlog, server, calls, dropped, handled>>

-----------------------------------------------------------------------------
(* Reading one request *)

At(pc)  == server.pc = pc
Current == conn[server.client]
Message == Current.message

Replies(status, from) ==
  server' = [server EXCEPT !.pc = "reply", !.reply = [status |-> status, from |-> from]]

Accept ==
  /\ At("accept") /\ backlog # <<>>
  /\ server' = [Listening EXCEPT !.pc = "head", !.client = Head(backlog)]
  /\ backlog' = Tail(backlog)
  /\ UNCHANGED <<adapterVars, conn, calls, dropped, handled>>

\* One read: what has arrived, up to a chunk.
Taken == SubSeq(Current.stream, 1, Smaller(Chunk, Len(Current.stream)))

Consume ==
  /\ Current.stream # <<>>
  /\ conn' = [conn EXCEPT ![server.client].stream = SubSeq(@, Len(Taken) + 1, Len(@))]

\* The first blank line, or 0.
EndOfHead(buf) ==
  LET ends == {i \in 1..Len(buf) : buf[i] = End}
  IN IF ends = {} THEN 0 ELSE Min(ends)

\* The end of the headers is looked for before their size is checked.
ReadHead ==
  /\ At("head")
  /\ Consume
  /\ LET buf == server.buf \o Taken
         end == EndOfHead(buf)
     IN CASE end > 0 /\ Message.words >= 2 ->
               server' = [server EXCEPT !.pc = "body", !.buf = buf,
                                        !.body = SubSeq(buf, end + 1, Len(buf))]
          [] end > 0 /\ Message.words < 2 -> Replies(400, "none")
          [] end = 0 /\ Len(buf) > HeaderLimit -> Replies(400, "none")
          [] end = 0 /\ Len(buf) <= HeaderLimit -> server' = [server EXCEPT !.buf = buf]
  /\ UNCHANGED <<adapterVars, backlog, calls, dropped, handled>>

AtEnd == Current.stream = <<>> /\ Current.closed

\* The connection ended, or failed, before the headers did.
HeadEnds ==
  /\ At("head") /\ AtEnd
  /\ Replies(400, "none")
  /\ UNCHANGED <<adapterVars, conn, backlog, calls, dropped, handled>>

BodyMissing == Len(server.body) < Message.length

ReadBody ==
  /\ At("body") /\ BodyMissing
  /\ Consume
  /\ server' = [server EXCEPT !.body = @ \o Taken]
  /\ UNCHANGED <<adapterVars, backlog, calls, dropped, handled>>

\* A connection that is reset while the body is read.
BodyFails ==
  /\ At("body") /\ BodyMissing /\ AtEnd
  /\ Replies(400, "none")
  /\ UNCHANGED <<adapterVars, conn, backlog, calls, dropped, handled>>

\* Faulty: bytes beyond the declared length are left in the body.
BodyEndsUncut ==
  /\ At("body") /\ (~BodyMissing \/ AtEnd)
  /\ server' = [server EXCEPT !.pc = "route"]
  /\ UNCHANGED <<adapterVars, conn, backlog, calls, dropped, handled>>

\* All of the body, or the end of the stream: `break`, not an error.
BodyEnds ==
  /\ At("body") /\ (~BodyMissing \/ AtEnd)
  /\ server' = [server EXCEPT !.pc = "route",
                              !.body = SubSeq(@, 1, Smaller(Message.length, Len(@)))]
  /\ UNCHANGED <<adapterVars, conn, backlog, calls, dropped, handled>>

-----------------------------------------------------------------------------
(* Static files.  A path is its segments. *)

Plain(segment) == segment \notin {"", ".", "..", "%2e%2e"}

\* Faulty: empty segments and `..` are left to the file system.
SafeAssetPathLenient(path) == path # <<>> /\ \A i \in DOMAIN path : path[i] # "%2e%2e"

SafeAssetPath(path) == path # <<>> /\ \A i \in DOMAIN path : Plain(path[i])

\* Where the file system finds root/path.
Resolve(path) ==
  LET at[i \in 0..Len(path)] ==
        CASE i = 0 -> Root
          [] i > 0 /\ path[i] \in {"", "."} -> at[i - 1]
          [] i > 0 /\ path[i] = ".." -> IF at[i - 1] = <<>> THEN <<>> ELSE Front(at[i - 1])
          [] OTHER -> Append(at[i - 1], path[i])
  IN at[Len(path)]

IsAsset(m) == m.method = "GET" /\ SafeAssetPath(m.path) /\ Resolve(m.path) \in Files

ServeAsset ==
  /\ At("route") /\ IsAsset(Message)
  /\ Replies(200, "file")
  /\ UNCHANGED <<adapterVars, conn, backlog, calls, dropped, handled>>

-----------------------------------------------------------------------------
(* The handler *)

CallHandler ==
  /\ At("route") /\ ~IsAsset(Message)
  /\ handled' = handled \cup {[client |-> server.client, body |-> server.body]}
  /\ server' = [server EXCEPT !.pc = "handler"]
  /\ UNCHANGED <<adapterVars, conn, backlog, calls, dropped>>

Does == Handler[Message.path]
Asks == Does \in {"ask", "ask_with_tools"}

\* A String is a 200; any other value and any error a 500.
HandlerEnds ==
  /\ At("handler") /\ ~Asks
  /\ CASE Does \in {"page", "json"}    -> Replies(200, "handler")
       [] Does \in {"number", "error"} -> Replies(500, "none")
  /\ UNCHANGED <<adapterVars, conn, backlog, calls, dropped, handled>>

\* check_model_call_budget, then the model.
AskModel ==
  /\ At("handler") /\ Asks
  /\ IF calls >= MaxModelCalls
     THEN Replies(500, "none") /\ UNCHANGED adapterVars
     ELSE /\ Infer("Enum", Does = "ask_with_tools")
          /\ server' = [server EXCEPT !.pc = "model"]
  /\ UNCHANGED <<conn, backlog, calls, dropped, handled>>

ModelSteps == At("model") /\ AdapterStep /\ UNCHANGED serveVars

\* The outcome is counted, then validated against the enum.
ModelEnds ==
  /\ At("model") /\ AdapterDone
  /\ calls' = calls + 1
  /\ IF exchange.phase = "answered" /\ exchange.value \in Variants
     THEN Replies(200, "model")
     ELSE Replies(500, "none")
  /\ Release
  /\ UNCHANGED <<conn, backlog, dropped, handled>>

\* timeout_ms drops the call, whatever it waits for.
ModelTimeout ==
  /\ At("model") /\ exchange.phase \in {"sent", "sleeping"}
  /\ dropped' = dropped + 1
  /\ Replies(500, "none")
  /\ Release
  /\ UNCHANGED <<conn, backlog, calls, handled>>

\* Faulty: a failed write leaves http_serve with an error.
ReplyOrStop ==
  /\ At("reply")
  /\ conn' = [conn EXCEPT ![server.client].phase = "done", ![server.client].reply = server.reply]
  /\ server' = IF Current.closed THEN [Listening EXCEPT !.pc = "stopped"] ELSE Listening
  /\ UNCHANGED <<adapterVars, backlog, calls, dropped, handled>>

\* A failed write is ignored; either way the connection is over.
Reply ==
  /\ At("reply")
  /\ conn' = [conn EXCEPT ![server.client].phase = "done", ![server.client].reply = server.reply]
  /\ server' = Listening
  /\ UNCHANGED <<adapterVars, backlog, calls, dropped, handled>>

-----------------------------------------------------------------------------
ServerStep ==
  \/ Accept
  \/ ReadHead
  \/ HeadEnds
  \/ ReadBody
  \/ BodyFails
  \/ BodyEnds
  \/ ServeAsset
  \/ CallHandler
  \/ HandlerEnds
  \/ AskModel
  \/ ModelEnds
  \/ Reply

Next ==
  \/ \E c \in Clients, m \in Messages : Connect(c, m)
  \/ \E c \in Clients : \E n \in 1..Len(conn[c].rest) : Arrive(c, n)
  \/ \E c \in Clients : Hangup(c)
  \/ ServerStep
  \/ ModelSteps
  \/ ModelTimeout

Spec == Init /\ [][Next]_vars

\* The process runs, and so does its timer.  Nothing is assumed of clients and model.
FairSpec ==
  /\ Spec
  /\ WF_vars(ServerStep)
  /\ WF_vars(At("model") /\ Send /\ UNCHANGED serveVars)
  /\ WF_vars(ModelTimeout)

-----------------------------------------------------------------------------
(* What handle_request gets is the beginning of what this connection sent, *)
(* no more than it declared, and less only if the client went away early.  *)
(* (read_http_request answers an early end of the stream with what it has: *)
(* a handler cannot tell a cut body from a whole one.)                     *)
WholeRequests ==
  \A h \in handled :
    LET m == conn[h.client].message
    IN /\ IsPrefix(h.body, m.body) /\ Len(h.body) <= m.length
       /\ Len(h.body) < m.length => conn[h.client].closed

(* Every answer is the one its own request calls for: a file under the     *)
(* root for a GET that names it, whatever the program defines; otherwise   *)
(* the handler's, with 500 when it failed; 400 only to requests cut short, *)
(* malformed or too long.                                                  *)
RightReplies ==
  \A c \in Clients : conn[c].phase = "done" =>
    LET r == conn[c].reply
        m == conn[c].message
        called == \E h \in handled : h.client = c
    IN /\ r.from = "file" => m.method = "GET" /\ ~called /\ IsPrefix(Root, Resolve(m.path))
       /\ r.from \in {"handler", "model"} \/ r.status = 500 => called
       /\ r.status = 400 => conn[c].closed \/ m.words < 2 \/ m.padding + m.words > HeaderLimit
       /\ r.from = "handler" => Handler[m.path] \in {"page", "json"}
       /\ r.from = "model" => Handler[m.path] = "ask"

(* However the endpoint answers, a call counted or dropped has sent at     *)
(* most five requests, and has waited no longer than the backoff plus what *)
(* the endpoint itself demanded: max_model_calls bounds the bill.          *)
WireBounded ==
  /\ wire <= (MaxRetries + 1) * (calls + dropped + IF AdapterBusy \/ AdapterDone THEN 1 ELSE 0)
  /\ exchange.waited <= exchange.demanded + 500 + 1000 + 2000 + 4000
  /\ calls <= MaxModelCalls

Stalled(c) ==
  server.client = c /\ server.pc \in {"head", "body"} /\ Current.stream = <<>> /\ ~Current.closed

(* Unless some client keeps its connection open and silent for ever, every *)
(* client is answered: no request, error or hangup ends the accept loop.   *)
EveryoneServed ==
  (\A c \in Clients : []<>~Stalled(c)) =>
    \A c \in Clients : conn[c].phase = "open" ~> conn[c].phase = "done"
=============================================================================
