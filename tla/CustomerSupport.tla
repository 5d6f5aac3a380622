-------------------------- MODULE CustomerSupport --------------------------
(***************************************************************************)
(* The customer support example: server.an answers requests and enqueues   *)
(* follow-up jobs for negative tickets, worker.an drains the job table     *)
(* once per run.  Two OS processes that share the tables of DbStore.       *)
(*                                                                         *)
(* A ticket, its row and its job carry the same name here; in the code     *)
(* each has a fresh random token.  What a record says beside its status is *)
(* its field about: a ticket is about its user, subject, body and priority *)
(* (named by the same token), a job about its ticket_id.  Requests that    *)
(* fail authentication or validation, or whose classification or tier      *)
(* lookup fails, store nothing and are left out, as are the user and       *)
(* session tables.                                                         *)
(***************************************************************************)
EXTENDS DbStore

CONSTANTS
  server, worker,    \* the processes
  tickets, jobs      \* the tables

ASSUME SupportAssumptions ==
  /\ server # worker /\ {server, worker} \subseteq Procs
  /\ tickets # jobs /\ {tickets, jobs} \subseteq TableNames
  /\ [id : Ids, about : Ids, status : {"open", "resolved", "pending", "processed"}] \subseteq Records

VARIABLES
  handler,    \* what the server's handler is doing: [at, ticket, negative]
  drain,      \* what the worker is doing: [at, todo]
  tokens,     \* ticket ids drawn by auth_generate_token
  \* History variables, read by properties only:
  opened,     \* tickets whose creation was answered with 200
  resolved,   \* tickets whose resolution was answered with 200
  emails,     \* follow-up emails sent for each ticket
  damaged     \* tables a fault hit amid a write

history == <<opened, resolved, emails>>
vars == <<dbVars, handler, drain, tokens, history, damaged>>

Idle == [at |-> "idle", ticket |-> "none", negative |-> FALSE]
Off  == [at |-> "off", todo |-> <<>>]

Rec(id, about, status) == [id |-> id, about |-> about, status |-> status]

Insert(table, record) == [kind |-> "insert", table |-> table, id |-> record.id, record |-> record]
Update(table, record) == [kind |-> "update", table |-> table, id |-> record.id, record |-> record]
Get(table, t)         == [kind |-> "get", table |-> table, id |-> t]
List(table)           == [kind |-> "list", table |-> table]

\* The call a process made has returned, without or with a RuntimeError.
Returned(p) == pc[p] = "idle" /\ result[p] # Error
Raised(p)   == pc[p] = "idle" /\ result[p] = Error

-----------------------------------------------------------------------------
(* server.an: handle_create_ticket and handle_resolve_ticket *)

CreateTicket(t, negative) ==
  /\ handler.at = "idle" /\ calls[server] + 2 <= MaxCalls
  /\ t \notin tokens
  /\ tokens' = tokens \cup {t}
  /\ Call(server, Insert(tickets, Rec(t, t, "open")))
  /\ handler' = [at |-> "ticket", ticket |-> t, negative |-> negative]
  /\ UNCHANGED <<drain, history, damaged>>

(* Mutant of EnqueueJob: a failed db_insert of the ticket goes unnoticed.   *)
EnqueueJobRegardless ==
  /\ handler.at = "ticket" /\ pc[server] = "idle"
  /\ handler.negative
  /\ Call(server, Insert(jobs, Rec(handler.ticket, handler.ticket, "pending")))
  /\ handler' = [handler EXCEPT !.at = "job"]
  /\ UNCHANGED <<drain, tokens, history, damaged>>

EnqueueJob ==
  /\ handler.at = "ticket" /\ Returned(server)
  /\ handler.negative
  /\ Call(server, Insert(jobs, Rec(handler.ticket, handler.ticket, "pending")))
  /\ handler' = [handler EXCEPT !.at = "job"]
  /\ UNCHANGED <<drain, tokens, history, damaged>>

AnswerCreated ==
  /\ Returned(server)
  /\ \/ handler.at = "ticket" /\ ~handler.negative
     \/ handler.at = "job"
  /\ opened' = opened \cup {handler.ticket}
  /\ handler' = Idle
  /\ UNCHANGED <<dbVars, drain, tokens, resolved, emails, damaged>>

ResolveTicket(t) ==
  /\ handler.at = "idle" /\ calls[server] + 2 <= MaxCalls
  /\ t \in opened \ resolved
  /\ Call(server, Get(tickets, t))
  /\ handler' = [at |-> "get", ticket |-> t, negative |-> FALSE]
  /\ UNCHANGED <<drain, tokens, history, damaged>>

(* Mutant of MarkResolved: the fields are taken from the request, which has *)
(* none of them.                                                            *)
MarkResolvedFromRequest ==
  /\ handler.at = "get" /\ Returned(server)
  /\ result[server].status = "some"
  /\ Call(server, Update(tickets, Rec(handler.ticket, "none", "resolved")))
  /\ handler' = [handler EXCEPT !.at = "update"]
  /\ UNCHANGED <<drain, tokens, history, damaged>>

\* The record is built anew, its fields copied from the one that was read.
MarkResolved ==
  /\ handler.at = "get" /\ Returned(server)
  /\ result[server].status = "some"
  /\ Call(server, Update(tickets, Rec(handler.ticket, result[server].records[1].about, "resolved")))
  /\ handler' = [handler EXCEPT !.at = "update"]
  /\ UNCHANGED <<drain, tokens, history, damaged>>

\* db_update's result is not looked at.
AnswerResolved ==
  /\ handler.at = "update" /\ Returned(server)
  /\ resolved' = resolved \cup {handler.ticket}
  /\ handler' = Idle
  /\ UNCHANGED <<dbVars, drain, tokens, opened, emails, damaged>>

\* "no such ticket", or the 500 http_serve answers for a RuntimeError.
AnswerError ==
  /\ handler.at # "idle"
  /\ \/ Raised(server)
     \/ handler.at = "get" /\ Returned(server) /\ result[server] = None
  /\ handler' = Idle
  /\ UNCHANGED <<dbVars, drain, tokens, history, damaged>>

-----------------------------------------------------------------------------
(* worker.an *)

StartWorker ==
  /\ drain.at = "off" /\ calls[worker] + 1 + Cardinality(Ids) <= MaxCalls
  /\ Call(worker, List(jobs))
  /\ drain' = [drain EXCEPT !.at = "list"]
  /\ UNCHANGED <<handler, tokens, history, damaged>>

JobsListed ==
  /\ drain.at = "list" /\ Returned(worker)
  /\ drain' = [at |-> "next", todo |-> result[worker].records]
  /\ UNCHANGED <<dbVars, handler, tokens, history, damaged>>

NextJob == Head(drain.todo)

SkipJob ==
  /\ drain.at = "next" /\ drain.todo # <<>>
  /\ NextJob.status # "pending"
  /\ drain' = [drain EXCEPT !.todo = Tail(@)]
  /\ UNCHANGED <<dbVars, handler, tokens, history, damaged>>

(* Mutant of ProcessJob: the update comes before the email.                 *)
UpdateBeforeEmail ==
  /\ drain.at = "next" /\ drain.todo # <<>>
  /\ NextJob.status = "pending"
  /\ Call(worker, Update(jobs, Rec(NextJob.id, NextJob.about, "processed")))
  /\ drain' = [drain EXCEPT !.at = "update"]
  /\ UNCHANGED <<handler, tokens, history, damaged>>

\* process_job: the email, then the update.
ProcessJob ==
  /\ drain.at = "next" /\ drain.todo # <<>>
  /\ NextJob.status = "pending"
  /\ emails' = [emails EXCEPT ![NextJob.about] = @ + 1]
  /\ Call(worker, Update(jobs, Rec(NextJob.id, NextJob.about, "processed")))
  /\ drain' = [drain EXCEPT !.at = "update"]
  /\ UNCHANGED <<handler, tokens, opened, resolved, damaged>>

\* db_update's result is not looked at here either.
JobProcessed ==
  /\ drain.at = "update" /\ Returned(worker)
  /\ drain' = [at |-> "next", todo |-> Tail(drain.todo)]
  /\ UNCHANGED <<dbVars, handler, tokens, history, damaged>>

WorkerExits ==
  /\ \/ drain.at = "next" /\ drain.todo = <<>>
     \/ drain.at \in {"list", "update"} /\ Raised(worker)
  /\ drain' = Off
  /\ UNCHANGED <<dbVars, handler, tokens, history, damaged>>

-----------------------------------------------------------------------------
(* The store, and faults of either process amid a call *)

StoreStep ==
  /\ \E p \in Procs : Step(p)
  /\ UNCHANGED <<handler, drain, tokens, history, damaged>>

StoreFault ==
  /\ \E p \in Procs :
       /\ Fault(p)
       /\ damaged' = IF pc[p] = "write" THEN damaged \cup {TableOf(p)} ELSE damaged
  /\ UNCHANGED <<handler, drain, tokens, history>>

\* Nothing is in progress.
Quiet ==
  /\ handler.at = "idle" /\ drain.at = "off"
  /\ UNCHANGED vars

SupportInit ==
  /\ Init
  /\ handler = Idle
  /\ drain = Off
  /\ tokens = {}
  /\ opened = {} /\ resolved = {}
  /\ emails = [t \in Ids |-> 0]
  /\ damaged = {}

SupportNext ==
  \/ \E t \in Ids, negative \in BOOLEAN : CreateTicket(t, negative)
  \/ EnqueueJob
  \/ AnswerCreated
  \/ \E t \in Ids : ResolveTicket(t)
  \/ MarkResolved
  \/ AnswerResolved
  \/ AnswerError
  \/ StartWorker
  \/ JobsListed
  \/ SkipJob
  \/ ProcessJob
  \/ JobProcessed
  \/ WorkerExits
  \/ StoreStep
  \/ StoreFault
  \/ Quiet

SupportSpec == SupportInit /\ [][SupportNext]_vars

-----------------------------------------------------------------------------
(* Properties *)

\* The ticket t is in the table, and says what it said when it was created.
Holds(lines, t, statuses) ==
  \E i \in DOMAIN lines : /\ lines[i] # Torn /\ lines[i].id = t
                          /\ lines[i].record.about = t /\ lines[i].record.status \in statuses

\* A job about the ticket t is in the table.
Queued(lines, t, statuses) ==
  \E i \in DOMAIN lines : /\ lines[i] # Torn /\ lines[i].record.about = t
                          /\ lines[i].record.status \in statuses

(* A ticket whose creation was answered stays in the table as it was        *)
(* written, and stays resolved once that was answered: every rewrite of its *)
(* row carries over all that the row said, and no confirmation is given for *)
(* an update that found no row, unless a fault hit the table amid a write.  *)
TicketsKept ==
  tickets \notin damaged =>
    \A t \in opened :
      Holds(Committed(tickets), t, IF t \in resolved THEN {"resolved"} ELSE {"open", "resolved"})

(* No job is queued and no email sent for a ticket that is not stored: the  *)
(* handler stores the ticket before its job, and a request that fails in    *)
(* between leaves at most a ticket without a job.                           *)
FollowUpsHaveTickets ==
  tickets \notin damaged =>
    \A t \in Ids :
      emails[t] > 0 \/ Queued(file[jobs], t, {"pending", "processed"})
        => Holds(Committed(tickets), t, {"open", "resolved"})

(* A job is marked processed only after its email was sent, even when the   *)
(* worker dies or the two programs overwrite each other's rows.             *)
ProcessedWasEmailed ==
  \A t \in Ids : Queued(file[jobs], t, {"processed"}) => emails[t] > 0

=============================================================================
