------------------------------ MODULE Outbound ------------------------------
(***************************************************************************)
(* Sending to Slack (service/app.py: send_message, send_thread_reply and   *)
(* the helpers they share) from the API's request threads, the MCP server  *)
(* and the CLI, each with a connection of its own.                         *)
(*                                                                         *)
(* A request looks for an action with its idempotency key, looks again     *)
(* once the channel is resolved, inserts a pending action, reads back the  *)
(* latest pending action with its channel and text, posts to Slack, then   *)
(* marks the action sent, journals it and queues it for the listeners, all *)
(* in transactions of their own.  Whatever raises from the post on marks   *)
(* the action failed and journals that.  A process can be killed anywhere. *)
(* Listeners are registered and unregistered meanwhile.                    *)
(*                                                                         *)
(* One workspace and one kind of action: both are part of every key of the *)
(* table.  A `target` stands for a channel and a text; thread_ts, which    *)
(* the reading back ignores, is left out.                                  *)
(***************************************************************************)
EXTENDS Naturals, Sequences

CONSTANTS
    Callers,          \* threads and processes that send
    Keys,             \* idempotency keys
    NoKey,            \* a request without one
    Targets,          \* channel and text of a message
    None,             \* no request
    MaxRequests,      \* bound: requests made
    MaxFaults,        \* bound: posts refused, answers lost, steps that raise
    MaxKills,         \* bound: processes killed in the middle of a request
    MaxListenerMoves  \* bound: listeners registered or unregistered

ASSUME OutboundAssumption ==
    /\ NoKey \notin Keys
    /\ None \notin [key : Keys \union {NoKey}, target : Targets]
    /\ MaxListenerMoves \in Nat

VARIABLES
    actions,          \* table outbound_actions; a row's id is its index
    journal,          \* outcomes in the child journal: <<"sent", id>>, ...
    listeners,        \* ids of the listeners, all enabled and subscribed to it
    deliveries,       \* listener_deliveries: <<listener, action id>>
    posts,            \* messages Slack accepted: the action's id, the request's key
    pc,               \* where each caller stands in its request
    req,              \* its key and target
    row,              \* the id of the action it works on
    audience,         \* the listeners it read
    used,             \* how much of each bound has been used
    shared,           \* history: actions two callers worked on
    left,             \* history: actions no caller worked on, or was killed on
    troubled,         \* history: actions a step after the post of which raised
    together          \* history: keys two requests were under way with

tables  == <<actions, journal, listeners, deliveries>>
callers == <<pc, req, row, audience>>
history == <<shared, left, troubled, together>>
vars    == <<tables, posts, callers, used, history>>

Ids == DOMAIN actions

Request == [key : Keys \union {NoKey}, target : Targets]

Action == [key : Keys \union {NoKey}, target : Targets,
           status : {"pending", "sent", "failed"}]

Busy(c) == pc[c] # "idle"

With(k) == {i \in Ids : k # NoKey /\ actions[i].key = k}

PendingFor(t) == {i \in Ids : actions[i].target = t /\ actions[i].status = "pending"}

(* c is on its way from the post of action i to the end of its request.    *)
Working(c, i) == row[c] = i /\ pc[c] \in {"post", "finish", "journal", "listeners",
                                           "queue", "fail", "journalFailed"}

-----------------------------------------------------------------------------
Init ==
    /\ actions = <<>>
    /\ journal = {} /\ listeners = {} /\ deliveries = {}
    /\ posts = <<>>
    /\ pc = [c \in Callers |-> "idle"]
    /\ req = [c \in Callers |-> None]
    /\ row = [c \in Callers |-> 0]
    /\ audience = [c \in Callers |-> {}]
    /\ used = [requests |-> 0, faults |-> 0, kills |-> 0, moves |-> 0]
    /\ shared = {} /\ left = {} /\ troubled = {} /\ together = {}

Goto(c, place) == pc' = [pc EXCEPT ![c] = place]

(* The request returns or raises: its caller is free again.                *)
Return(c) ==
    /\ Goto(c, "idle")
    /\ req' = [req EXCEPT ![c] = None]
    /\ row' = [row EXCEPT ![c] = 0]
    /\ audience' = [audience EXCEPT ![c] = {}]

Replays_sentOnly(k) == \E i \in With(k) : actions[i].status = "sent"

(* _existing_outbound_action, whatever the action's status.                *)
Replays(k) == With(k) # {}

(* A request comes in; an action with its key is returned as it is.        *)
Start(c, r) ==
    /\ ~Busy(c)
    /\ used.requests < MaxRequests
    /\ used' = [used EXCEPT !.requests = @ + 1]
    /\ IF Replays(r.key)
       THEN UNCHANGED <<callers, together>>
       ELSE /\ Goto(c, "look")
            /\ req' = [req EXCEPT ![c] = r]
            /\ together' =
                 IF r.key # NoKey /\ \E d \in Callers : Busy(d) /\ req[d].key = r.key
                 THEN together \union {r.key} ELSE together
            /\ UNCHANGED <<row, audience>>
    /\ UNCHANGED <<tables, posts, shared, left, troubled>>

(* _record_outbound_action looks for the key again.  An action it finds is *)
(* sent by this request too if it is still pending, and returned if not.   *)
Look(c) ==
    /\ pc[c] = "look"
    /\ IF With(req[c].key) = {}
       THEN Goto(c, "insert") /\ UNCHANGED <<req, row, audience, shared>>
       ELSE \E i \in With(req[c].key) :
              IF actions[i].status = "pending"
              THEN /\ Goto(c, "post")
                   /\ row' = [row EXCEPT ![c] = i]
                   /\ shared' = shared \union {i}
                   /\ UNCHANGED <<req, audience>>
              ELSE Return(c) /\ UNCHANGED shared
    /\ UNCHANGED <<tables, posts, used, left, troubled, together>>

(* It inserts a pending action, or UNIQUE (workspace_id, kind,             *)
(* idempotency_key) raises; actions without a key are all distinct.        *)
Insert(c) ==
    /\ pc[c] = "insert"
    /\ IF With(req[c].key) # {}
       THEN Return(c) /\ UNCHANGED actions
       ELSE /\ actions' = Append(actions, [key |-> req[c].key, target |-> req[c].target,
                                           status |-> "pending"])
            /\ Goto(c, "pick")
            /\ row' = [row EXCEPT ![c] = Len(actions) + 1]
            /\ UNCHANGED <<req, audience>>
    /\ UNCHANGED <<journal, listeners, deliveries, posts, used, history>>

(* It reads back the latest pending action with its channel and text,      *)
(* which another request may have inserted or be sending.                  *)
Pick(c, i) ==
    /\ pc[c] = "pick"
    /\ i \in PendingFor(req[c].target)
    /\ \A j \in PendingFor(req[c].target) : j <= i
    /\ Goto(c, "post")
    /\ row' = [row EXCEPT ![c] = i]
    /\ shared' = IF i # row[c] \/ \E d \in Callers \ {c} : Working(d, i)
                 THEN shared \union {i, row[c]} ELSE shared
    /\ UNCHANGED <<tables, posts, req, audience, used, left, troubled, together>>

(* There is none: dict(None) raises, before anything is sent.              *)
PickNothing(c) ==
    /\ pc[c] = "pick"
    /\ PendingFor(req[c].target) = {}
    /\ Return(c)
    /\ left' = left \union {row[c]}
    /\ UNCHANGED <<tables, posts, used, shared, troubled, together>>

-----------------------------------------------------------------------------
Accept(c) == posts' = Append(posts, [id |-> row[c], key |-> req[c].key])

(* Slack accepts the message.                                              *)
Post(c) ==
    /\ pc[c] = "post"
    /\ Accept(c)
    /\ Goto(c, "finish")
    /\ UNCHANGED <<tables, req, row, audience, used, history>>

(* Slack refuses it, or accepts it and the answer is lost.                 *)
PostRaises(c) ==
    /\ pc[c] = "post"
    /\ used.faults < MaxFaults
    /\ used' = [used EXCEPT !.faults = @ + 1]
    /\ \/ UNCHANGED <<posts, troubled>>
       \/ /\ Accept(c)
          /\ troubled' = troubled \union {row[c]}
    /\ Goto(c, "fail")
    /\ UNCHANGED <<tables, req, row, audience, shared, left, together>>

(* _finish_outbound_action updates the action by its id.                   *)
SetStatus(i, s) == actions' = [actions EXCEPT ![i].status = s]

FinishSent(c) ==
    /\ pc[c] = "finish"
    /\ SetStatus(row[c], "sent")
    /\ Goto(c, "journal")
    /\ UNCHANGED <<journal, listeners, deliveries, posts, req, row,
                   audience, used, history>>

JournalSent(c) ==
    /\ pc[c] = "journal"
    /\ journal' = journal \union {<<"sent", row[c]>>}
    /\ Goto(c, "listeners")
    /\ UNCHANGED <<actions, listeners, deliveries, posts, req, row,
                   audience, used, history>>

(* _queue_listener_deliveries reads the listeners ...                      *)
ReadListeners(c) ==
    /\ pc[c] = "listeners"
    /\ audience' = [audience EXCEPT ![c] = listeners]
    /\ Goto(c, "queue")
    /\ UNCHANGED <<tables, posts, req, row, used, history>>

AllThere_unchecked(c) == TRUE

(* The foreign key of listener_deliveries holds.                           *)
AllThere(c) == audience[c] \subseteq listeners

(* ... and inserts a delivery for each, unless one has gone meanwhile: the *)
(* foreign key raises and nothing is inserted.                             *)
Queue(c) ==
    /\ pc[c] = "queue"
    /\ IF AllThere(c)
       THEN /\ deliveries' = deliveries \union (audience[c] \X {row[c]})
            /\ Return(c)
            /\ UNCHANGED troubled
       ELSE /\ Goto(c, "fail")
            /\ troubled' = troubled \union {row[c]}
            /\ UNCHANGED <<deliveries, req, row, audience>>
    /\ UNCHANGED <<actions, journal, listeners, posts, used,
                   shared, left, together>>

(* One of these steps raises, "database is locked" for one.                *)
StepRaises(c) ==
    /\ pc[c] \in {"finish", "journal", "listeners", "queue"}
    /\ used.faults < MaxFaults
    /\ used' = [used EXCEPT !.faults = @ + 1]
    /\ troubled' = troubled \union {row[c]}
    /\ Goto(c, "fail")
    /\ UNCHANGED <<tables, posts, req, row, audience, shared, left, together>>

FailedStatus_error == "error"

FailedStatus_pending == "pending"

(* The except branch, in two transactions as well.                         *)
FailedStatus == "failed"

FinishFailed(c) ==
    /\ pc[c] = "fail"
    /\ SetStatus(row[c], FailedStatus)
    /\ Goto(c, "journalFailed")
    /\ UNCHANGED <<journal, listeners, deliveries, posts, req, row,
                   audience, used, history>>

JournalFailed(c) ==
    /\ pc[c] = "journalFailed"
    /\ journal' = journal \union {<<"failed", row[c]>>}
    /\ Return(c)
    /\ UNCHANGED <<actions, listeners, deliveries, posts, used, history>>

(* The process is killed, or the except branch itself raises.              *)
Kill(c) ==
    /\ Busy(c)
    /\ used.kills < MaxKills
    /\ used' = [used EXCEPT !.kills = @ + 1]
    /\ left' = IF row[c] = 0 THEN left ELSE left \union {row[c]}
    /\ Return(c)
    /\ UNCHANGED <<tables, posts, shared, troubled, together>>

-----------------------------------------------------------------------------
(* Listeners *)

Listeners == 1 .. MaxListenerMoves

(* register_listener under a new name; an id is never used again.          *)
Register ==
    /\ used.moves < MaxListenerMoves
    /\ used' = [used EXCEPT !.moves = @ + 1]
    /\ listeners' = listeners \union {used.moves + 1}
    /\ UNCHANGED <<actions, journal, deliveries, posts, callers, history>>

(* unregister_listener; its deliveries go with it (ON DELETE CASCADE).     *)
Unregister(l) ==
    /\ used.moves < MaxListenerMoves
    /\ used' = [used EXCEPT !.moves = @ + 1]
    /\ listeners' = listeners \ {l}
    /\ deliveries' = {d \in deliveries : d[1] # l}
    /\ UNCHANGED <<actions, journal, posts, callers, history>>

-----------------------------------------------------------------------------
Next ==
    \/ \E c \in Callers :
         \/ \E r \in Request : Start(c, r)
         \/ Look(c) \/ Insert(c) \/ (\E i \in Ids : Pick(c, i)) \/ PickNothing(c)
         \/ Post(c) \/ PostRaises(c)
         \/ FinishSent(c) \/ JournalSent(c) \/ ReadListeners(c) \/ Queue(c)
         \/ StepRaises(c) \/ FinishFailed(c) \/ JournalFailed(c)
         \/ Kill(c)
    \/ Register
    \/ \E l \in listeners : Unregister(l)

Spec == Init /\ [][Next]_vars

-----------------------------------------------------------------------------
(* Properties *)

TypeOK ==
    /\ actions \in Seq(Action)
    /\ journal \subseteq {"sent", "failed"} \X Ids
    /\ listeners \subseteq Listeners
    /\ deliveries \subseteq Listeners \X Ids
    /\ posts \in Seq([id : Ids, key : Keys \union {NoKey}])
    /\ pc \in [Callers -> {"idle", "look", "insert", "pick", "post", "finish", "journal",
                           "listeners", "queue", "fail", "journalFailed"}]
    /\ req \in [Callers -> Request \union {None}]
    /\ row \in [Callers -> Ids \union {0}]
    /\ audience \in [Callers -> SUBSET Listeners]
    /\ used \in [requests : Nat, faults : Nat, kills : Nat, moves : Nat]
    /\ shared \subseteq Ids /\ left \subseteq Ids /\ troubled \subseteq Ids
    /\ together \subseteq Keys

(* Slack gets one message at most for an idempotency key, through lost     *)
(* answers, failures, kills and retries, as long as no two requests with   *)
(* the key are under way together (send_message, _record_outbound_action). *)
SentOnceIfAlone ==
    \A m, n \in DOMAIN posts :
        posts[m].key = posts[n].key /\ posts[m].key \notin together \union {NoKey}
            => m = n

(* The same with no condition, as the API contract states it.              *)
SentOnce ==
    \A m, n \in DOMAIN posts :
        posts[m].key = posts[n].key /\ posts[m].key # NoKey => m = n

(* An action nobody works on any more says what happened to it, once: it   *)
(* is sent, posted once and journaled as sent, or failed, not posted and   *)
(* journaled as failed.  The exceptions are actions two requests worked    *)
(* on, a caller was killed on, or a step after the post of which raised.   *)
OutcomeAgrees ==
    \A i \in Ids \ (shared \union left \union troubled) :
        (\A c \in Callers : row[c] # i) =>
            /\ actions[i].status \in {"sent", "failed"}
            /\ \A o \in {"sent", "failed"} :
                 <<o, i>> \in journal <=> actions[i].status = o
            /\ (\E n \in DOMAIN posts : posts[n].id = i) <=> actions[i].status = "sent"

(* Only what was journaled as sent is delivered, and only to listeners     *)
(* still registered (_queue_listener_deliveries against unregister).       *)
DeliveriesStand ==
    \A d \in deliveries : d[1] \in listeners /\ <<"sent", d[2]>> \in journal
=============================================================================
