--------------------------- MODULE EventPipeline ---------------------------
(***************************************************************************)
(* The live path of one workspace: Slack's Events API, the Socket Mode     *)
(* receiver (service/server.py, cmd_serve_socket_mode), the events table   *)
(* and the unified daemon that applies it (service/processor.py,           *)
(* cmd_mirror_daemon), with the daemon's reconcile, which writes what it   *)
(* fetched from Slack over the same rows.                                  *)
(*                                                                         *)
(* The receiver acknowledges an envelope before it stores the event, on    *)
(* one thread per envelope, so events are stored in any order.  The daemon *)
(* lists a batch of pending events ordered by event time, a whole number   *)
(* of seconds, then by event id, an opaque string.  It applies each one,   *)
(* appends it to the child journal and marks it, in separate transactions. *)
(* Either process can be killed between two steps; Slack sends an event    *)
(* again when it misses the acknowledgement.                               *)
(*                                                                         *)
(* The content of a message is its version: 1 when it is posted, one more  *)
(* for every edit and for its deletion.  The transactions inside           *)
(* upsert_message are the subject of MessageStore; here it is one step.    *)
(***************************************************************************)
EXTENDS Naturals, FiniteSets

CONSTANTS
    Keys,             \* messages
    Ids,              \* event ids; < is the text order of the ids
    Never,            \* recorded_at of an event that is not in the journal
    BatchLimit,       \* --event-limit
    MaxTime,          \* bound: seconds that pass
    MaxCopies,        \* bound: envelopes sent again
    MaxStops,         \* bound: times the receiver or the daemon is killed
    MaxErrors,        \* bound: steps that raise
    MaxReconciles     \* bound: reconcile passes

ASSUME PipelineAssumption ==
    /\ Ids \subseteq Nat \ {0}
    /\ Never \notin Nat
    /\ BatchLimit \in Nat \ {0}

VARIABLES
    now,              \* the time, in seconds
    slack,            \* version of each message at Slack, 0 before it is posted
    issued,           \* events Slack has issued: id -> its key, version, time
    wire,             \* envelopes of each event still to be delivered
    received,         \* envelopes acknowledged whose event is yet to be stored
    events,           \* table events: the status of each event
    rows,             \* table messages: the version of each message
    journal,          \* table child_event_journal: recorded_at of each event
    phase,            \* where the daemon stands
    batch,            \* events it has listed and not reached
    cur,              \* the event it is on, 0 for none
    page,             \* the versions its reconcile fetched, 0 for none
    used,             \* how much of each bound has been used
    lost,             \* history: events acknowledged or in error, not applied
    late,             \* history: messages an event of which was stored too late
    again             \* history: messages an old event of which came again

slackVars  == <<now, slack, issued>>
tables     == <<events, rows, journal>>
daemonVars == <<phase, batch, cur, page>>
history    == <<lost, late, again>>
vars == <<slackVars, wire, received, tables, daemonVars, used, history>>

Known == DOMAIN issued

Event == [key : Keys, version : Nat, at : Nat]

Newer(j, i) ==
    /\ issued[j].key = issued[i].key
    /\ issued[j].version > issued[i].version

NoPage == [k \in Keys |-> 0]

(* The status insert_event gives an event, whatever the one it had.        *)
InsertedStatus(old) == "pending"

Before_idFirst(i, j) == i < j

(* ORDER BY event_ts, event_id *)
Before(i, j) ==
    \/ issued[i].at < issued[j].at
    \/ issued[i].at = issued[j].at /\ i < j

Pending == {i \in Ids : events[i] = "pending"}

FillsLimit(s) ==
    Cardinality(s) =
        IF Cardinality(Pending) < BatchLimit THEN Cardinality(Pending) ELSE BatchLimit

IsListing_unordered(s) == s \subseteq Pending /\ FillsLimit(s)

(* The first BatchLimit pending events.                                    *)
IsListing(s) ==
    /\ s \subseteq Pending
    /\ FillsLimit(s)
    /\ \A i \in s, j \in Pending \ s : Before(i, j)

(* The daemon is at, past or about to reach j before anything stored now.  *)
Ahead(j) == events[j] \in {"processed", "error"} \/ j \in batch \union {cur}

Overtaken(i) == \E j \in Known : Newer(j, i) /\ Ahead(j)

-----------------------------------------------------------------------------
Init ==
    /\ now = 0
    /\ slack = [k \in Keys |-> 0]
    /\ issued = [i \in {} |-> 0]
    /\ wire = [i \in Ids |-> 0]
    /\ received = [i \in Ids |-> 0]
    /\ events = [i \in Ids |-> "none"]
    /\ rows = [k \in Keys |-> 0]
    /\ journal = [i \in Ids |-> Never]
    /\ phase = "idle" /\ batch = {} /\ cur = 0 /\ page = NoPage
    /\ used = [copies |-> 0, stops |-> 0, errors |-> 0, reconciles |-> 0]
    /\ lost = {} /\ late = {} /\ again = {}

-----------------------------------------------------------------------------
(* Slack *)

Tick ==
    /\ now < MaxTime
    /\ now' = now + 1
    /\ UNCHANGED <<slack, issued, wire, received, tables, daemonVars,
                   used, history>>

(* A message is posted, edited or deleted: Slack issues event i.           *)
Change(k, i) ==
    /\ i \notin Known
    /\ slack' = [slack EXCEPT ![k] = @ + 1]
    /\ issued' = [j \in Known \union {i} |->
                    IF j = i THEN [key |-> k, version |-> slack[k] + 1, at |-> now]
                    ELSE issued[j]]
    /\ wire' = [wire EXCEPT ![i] = 1]
    /\ UNCHANGED <<now, received, tables, daemonVars, used, history>>

(* Slack misses the acknowledgement and sends the event again.             *)
Redeliver(i) ==
    /\ i \in Known
    /\ used.copies < MaxCopies
    /\ used' = [used EXCEPT !.copies = @ + 1]
    /\ wire' = [wire EXCEPT ![i] = @ + 1]
    /\ UNCHANGED <<slackVars, received, tables, daemonVars, history>>

-----------------------------------------------------------------------------
(* The receiver *)

(* process_event acknowledges the envelope first.                          *)
Acknowledge(i) ==
    /\ wire[i] > 0
    /\ wire' = [wire EXCEPT ![i] = @ - 1]
    /\ received' = [received EXCEPT ![i] = @ + 1]
    /\ UNCHANGED <<slackVars, tables, daemonVars, used, history>>

(* on_event stores it, as pending again if it is there already.            *)
Store(i) ==
    /\ received[i] > 0
    /\ received' = [received EXCEPT ![i] = @ - 1]
    /\ events' = [events EXCEPT ![i] = InsertedStatus(@)]
    /\ late' = IF events[i] = "none" /\ Overtaken(i)
               THEN late \union {issued[i].key} ELSE late
    /\ again' = IF events[i] # "none" /\ Overtaken(i)
                THEN again \union {issued[i].key} ELSE again
    /\ UNCHANGED <<slackVars, wire, rows, journal, daemonVars, used, lost>>

(* on_event raises: the listener thread is gone, and so is the event.      *)
FailStore(i) ==
    /\ received[i] > 0
    /\ used.errors < MaxErrors
    /\ used' = [used EXCEPT !.errors = @ + 1]
    /\ received' = [received EXCEPT ![i] = @ - 1]
    /\ lost' = lost \union {i}
    /\ UNCHANGED <<slackVars, wire, tables, daemonVars, late, again>>

StopReceiver ==
    /\ used.stops < MaxStops
    /\ used' = [used EXCEPT !.stops = @ + 1]
    /\ \E i \in Ids : received[i] > 0
    /\ received' = [i \in Ids |-> 0]
    /\ lost' = lost \union {i \in Ids : received[i] > 0}
    /\ UNCHANGED <<slackVars, wire, tables, daemonVars, late, again>>

-----------------------------------------------------------------------------
(* The daemon *)

(* process_pending_events selects its batch.                               *)
List ==
    /\ phase = "idle"
    /\ Pending # {}
    /\ \E s \in SUBSET Pending : IsListing(s) /\ batch' = s
    /\ phase' = "batch"
    /\ UNCHANGED <<slackVars, wire, received, tables, cur, page, used, history>>

Take(i) ==
    /\ phase = "batch"
    /\ i \in batch
    /\ \A j \in batch \ {i} : Before(i, j)
    /\ batch' = batch \ {i}
    /\ cur' = i
    /\ phase' = "apply"
    /\ UNCHANGED <<slackVars, wire, received, tables, page, used, history>>

(* _apply_event upserts the message of the payload.                        *)
Apply ==
    /\ phase = "apply"
    /\ rows' = [rows EXCEPT ![issued[cur].key] = issued[cur].version]
    /\ lost' = lost \ {cur}
    /\ phase' = "journal"
    /\ UNCHANGED <<slackVars, wire, received, events, journal, batch, cur, page,
                   used, late, again>>

(* append_child_event records the time of the call, also on a conflict.    *)
RecordedAt(old) == now

(* ... and appends it to the child journal.                                *)
Append ==
    /\ phase = "journal"
    /\ journal' = [journal EXCEPT ![cur] = RecordedAt(@)]
    /\ phase' = "mark"
    /\ UNCHANGED <<slackVars, wire, received, events, rows, batch, cur, page,
                   used, history>>

NextEvent_keepCur ==
    /\ cur' = cur
    /\ phase' = IF batch = {} THEN "idle" ELSE "batch"

NextEvent_noRelist == cur' = 0 /\ phase' = "batch"

(* On to the next of the batch, or back to the loop.                       *)
NextEvent ==
    /\ cur' = 0
    /\ phase' = IF batch = {} THEN "idle" ELSE "batch"

Mark ==
    /\ phase = "mark"
    /\ events' = [events EXCEPT ![cur] = "processed"]
    /\ NextEvent
    /\ UNCHANGED <<slackVars, wire, received, rows, journal, batch, page, used,
                   history>>

(* The steps inside the try block.                                         *)
ErrorPhases == {"apply", "journal", "mark"}

(* One of them raises: the event is marked with the error, for good.       *)
Fail ==
    /\ phase \in ErrorPhases
    /\ used.errors < MaxErrors
    /\ used' = [used EXCEPT !.errors = @ + 1]
    /\ events' = [events EXCEPT ![cur] = "error"]
    /\ lost' = IF phase = "apply" THEN lost \union {cur} ELSE lost
    /\ NextEvent
    /\ UNCHANGED <<slackVars, wire, received, rows, journal, batch, page,
                   late, again>>

(* backfill_messages, between two batches, fetches the messages in its     *)
(* window from Slack.                                                      *)
Fetch(w) ==
    /\ phase = "idle"
    /\ used.reconciles < MaxReconciles
    /\ used' = [used EXCEPT !.reconciles = @ + 1]
    /\ \A k \in w : slack[k] > 0
    /\ page' = [k \in Keys |-> IF k \in w THEN slack[k] ELSE 0]
    /\ phase' = "reconcile"
    /\ UNCHANGED <<slackVars, wire, received, tables, batch, cur, history>>

(* ... and upserts them one by one.                                        *)
WriteFetched(k) ==
    /\ phase = "reconcile"
    /\ page[k] > 0
    /\ rows' = [rows EXCEPT ![k] = page[k]]
    /\ page' = [page EXCEPT ![k] = 0]
    /\ phase' = IF \A j \in Keys \ {k} : page[j] = 0 THEN "idle" ELSE phase
    /\ UNCHANGED <<slackVars, wire, received, events, journal, batch, cur, used,
                   history>>

(* The daemon is killed, or reconcile raises, and is started again.        *)
StopDaemon ==
    /\ phase # "idle"
    /\ used.stops < MaxStops
    /\ used' = [used EXCEPT !.stops = @ + 1]
    /\ phase' = "idle" /\ batch' = {} /\ cur' = 0 /\ page' = NoPage
    /\ UNCHANGED <<slackVars, wire, received, tables, history>>

-----------------------------------------------------------------------------
DaemonStep ==
    \/ List \/ (\E i \in Ids : Take(i)) \/ Apply \/ Append \/ Mark
    \/ \E k \in Keys : WriteFetched(k)

Next ==
    \/ Tick
    \/ \E i \in Ids :
         \/ \E k \in Keys : Change(k, i)
         \/ Redeliver(i) \/ Acknowledge(i) \/ Store(i) \/ FailStore(i)
         \/ Take(i)
    \/ StopReceiver
    \/ List \/ Apply \/ Append \/ Mark \/ Fail
    \/ \E w \in (SUBSET Keys) \ {{}} : Fetch(w)
    \/ \E k \in Keys : WriteFetched(k)
    \/ StopDaemon

Spec == Init /\ [][Next]_vars

(* Both services are restarted when they die; envelopes get through.       *)
FairSpec ==
    /\ Spec
    /\ WF_vars(DaemonStep)
    /\ \A i \in Ids : WF_vars(Acknowledge(i)) /\ WF_vars(Store(i))

-----------------------------------------------------------------------------
(* Properties *)

TypeOK ==
    /\ now \in Nat
    /\ slack \in [Keys -> Nat]
    /\ Known \subseteq Ids /\ issued \in [Known -> Event]
    /\ wire \in [Ids -> Nat] /\ received \in [Ids -> Nat]
    /\ events \in [Ids -> {"none", "pending", "processed", "error"}]
    /\ rows \in [Keys -> Nat]
    /\ journal \in [Ids -> Nat \union {Never}]
    /\ phase \in {"idle", "batch", "apply", "journal", "mark", "reconcile"}
    /\ batch \subseteq Ids
    /\ cur \in IF phase \in ErrorPhases THEN Known ELSE {0}
    /\ page \in [Keys -> Nat]
    /\ used \in [copies : Nat, stops : Nat, errors : Nat, reconciles : Nat]
    /\ lost \subseteq Ids /\ late \subseteq Keys /\ again \subseteq Keys

(* Two events of the message bear the same second and their ids sort the   *)
(* other way round.                                                        *)
Tied(k) ==
    \E i, j \in Known :
        /\ issued[i].key = k /\ Newer(j, i)
        /\ issued[i].at = issued[j].at /\ j < i

LostLatest(k) ==
    \E i \in lost : issued[i].key = k /\ issued[i].version = slack[k]

(* What a processed event did stays done: it is in the journal, and its    *)
(* message never falls back behind it, through kills, errors and reconcile *)
(* passes that write older fetches, unless an event was stored after a     *)
(* newer one of its message was under way or two of them share a second    *)
(* (process_pending_events, insert_event, backfill_messages).              *)
ProcessedStays ==
    \A i \in Known :
        events[i] = "processed" =>
            /\ journal[i] # Never
            /\ \/ rows[issued[i].key] >= issued[i].version
               \/ issued[i].key \in late \union again
               \/ Tied(issued[i].key)

Settled(k) ==
    /\ page[k] = 0
    /\ \A i \in Known : issued[i].key = k =>
         /\ wire[i] = 0 /\ received[i] = 0
         /\ events[i] # "pending" /\ i \notin batch \union {cur}

(* When nothing about a message is under way any more, its row is the      *)
(* message at Slack: unless its last event was lost, or its events were    *)
(* stored or sorted out of order.                                          *)
Converges ==
    \A k \in Keys :
        Settled(k) => \/ rows[k] = slack[k]
                      \/ LostLatest(k) \/ Tied(k)
                      \/ k \in late \union again

(* The same without the exception for redelivery: the replay-safe event    *)
(* processing that ARCHITECTURE.md names.                                  *)
ReplayConverges ==
    \A k \in Keys :
        Settled(k) => \/ rows[k] = slack[k]
                      \/ LostLatest(k) \/ Tied(k) \/ k \in late

(* Every event the receiver acknowledged is processed or marked with an    *)
(* error in the end, however the daemon's batches are cut, unless the      *)
(* receiver lost it.                                                       *)
EveryEventEnds ==
    \A i \in Ids :
        received[i] > 0 ~> (events[i] \in {"processed", "error"} \/ i \in lost)

(* Once Slack is quiet the mirror becomes the workspace and stays it, with *)
(* the same exceptions.                                                    *)
EventuallyMirrored ==
    <>[](\A k \in Keys : \/ rows[k] = slack[k]
                         \/ LostLatest(k) \/ Tied(k)
                         \/ k \in late \union again)
=============================================================================
