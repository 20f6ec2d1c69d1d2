-------------------------------- MODULE Daemon --------------------------------
(***************************************************************************)
(* The loop of the unified daemon over its workspaces: a batch of events   *)
(* and one of embeddings for each, a heartbeat for each and, when it is    *)
(* due, a reconcile of each; systemd starts it again when it ends          *)
(* (cmd_mirror_daemon in cli/main.py).                                     *)
(*                                                                         *)
(* What a batch of events does is the subject of EventPipeline, what a     *)
(* reconcile does that of Backfill: here an event is applied by its batch, *)
(* and what the live path missed is mirrored by the reconcile, of as many  *)
(* channels as it takes, always those with the lowest ids.                 *)
(***************************************************************************)
EXTENDS Naturals, FiniteSets, Sequences

CONSTANTS
    Workspaces,       \* the enabled workspaces, in the order of the config
    EventLimit,       \* --event-limit
    Channels,         \* channels of each workspace, by their ids
    FirstChannels,    \* those mirrored when the daemon is first started
    ChannelLimit,     \* --reconcile-channel-limit, 0 for none
    MaxEvents,        \* bound: events received, messages missed, channels met
    MaxFaults         \* bound: passing faults, tokens revoked

ASSUME DaemonAssumption ==
    /\ Workspaces \in Seq(STRING) /\ Len(Workspaces) > 0
    /\ EventLimit \in Nat \ {0} /\ MaxEvents \in Nat /\ MaxFaults \in Nat
    /\ Channels \subseteq Nat /\ IsFiniteSet(Channels) /\ FirstChannels \subseteq Channels
    /\ ChannelLimit \in Nat

VARIABLES
    pending,          \* each workspace's pending events
    channelsOf,       \* its mirrored channels
    missed,           \* those of which the live path missed something
    revoked,          \* workspaces whose token Slack refuses
    tokenless,        \* workspaces without a token in the config
    beat,             \* workspaces whose heartbeat is recent
    at,               \* what the daemon is at
    turn,             \* the workspace whose turn it is
    due,              \* whether a reconcile is due
    received, faults  \* bounds

daemonVars == <<pending, channelsOf, missed, revoked, tokenless, beat, at, turn, due,
                received, faults>>

Turns == 1 .. Len(Workspaces)

DaemonInit ==
    /\ pending = [w \in Turns |-> 0]
    /\ channelsOf = [w \in Turns |-> FirstChannels]
    /\ missed = channelsOf
    /\ revoked = {} /\ tokenless = {} /\ beat = {}
    /\ at = "down" /\ turn = 1 /\ due = TRUE
    /\ received = 0 /\ faults = 0

(* An exception ends the daemon, whichever workspace it was of.            *)
EndsDaemon == at' = "down" /\ turn' = 1

(* It starts over: the first reconcile is due at once.  Every workspace    *)
(* must have a token.                                                      *)
StartDaemon ==
    /\ at = "down" /\ tokenless = {}
    /\ at' = "events" /\ turn' = 1 /\ due' = TRUE
    /\ UNCHANGED <<pending, channelsOf, missed, revoked, tokenless, beat, received, faults>>

AfterCycle_reconcileOnly == IF due THEN "reconcile" ELSE "sleep"

AfterCycle ==
    IF turn < Len(Workspaces) THEN "events" ELSE IF due THEN "reconcile" ELSE "sleep"

NextTurn_past == turn + 1

NextTurn == IF turn < Len(Workspaces) THEN turn + 1 ELSE 1

RunEvents ==
    /\ at = "events"
    /\ pending' = [pending EXCEPT ![turn] = IF @ > EventLimit THEN @ - EventLimit ELSE 0]
    /\ at' = "embeddings"
    /\ UNCHANGED <<channelsOf, missed, revoked, tokenless, beat, turn, due, received, faults>>

RunEmbeddings ==
    /\ at = "embeddings"
    /\ beat' = beat \union {turn}
    /\ at' = AfterCycle /\ turn' = NextTurn
    /\ UNCHANGED <<pending, channelsOf, missed, revoked, tokenless, due, received, faults>>

(* The channels a reconcile takes: the first ones, by their ids.           *)
Taken(w) ==
    IF ChannelLimit = 0 THEN channelsOf[w]
    ELSE {c \in channelsOf[w] : Cardinality({d \in channelsOf[w] : d <= c}) <= ChannelLimit}

(* A token that Slack refuses raises.  What the live path missed in the    *)
(* channels taken is mirrored now; when the last workspace is done, the    *)
(* clock is set.                                                           *)
ReconcileTurn ==
    /\ at = "reconcile"
    /\ IF turn \in revoked
       THEN EndsDaemon /\ UNCHANGED <<missed, beat, due>>
       ELSE /\ missed' = [missed EXCEPT ![turn] = @ \ Taken(turn)]
            /\ beat' = beat \union {turn}
            /\ turn' = NextTurn
            /\ IF turn < Len(Workspaces) THEN UNCHANGED <<at, due>>
               ELSE at' = "sleep" /\ due' = FALSE
    /\ UNCHANGED <<pending, channelsOf, revoked, tokenless, received, faults>>

Wake ==
    /\ at = "sleep"
    /\ at' = "events"
    /\ UNCHANGED <<pending, channelsOf, missed, revoked, tokenless, beat, turn, due, received, faults>>

(* The minutes between two reconciles are over.                            *)
BecomesDue ==
    /\ at = "sleep" /\ ~due
    /\ due' = TRUE
    /\ UNCHANGED <<pending, channelsOf, missed, revoked, tokenless, beat, at, turn, received, faults>>

-----------------------------------------------------------------------------
(* Around it *)

Receive(w) ==
    /\ received < MaxEvents
    /\ received' = received + 1
    /\ pending' = [pending EXCEPT ![w] = @ + 1]
    /\ UNCHANGED <<channelsOf, missed, revoked, tokenless, beat, at, turn, due, faults>>

Miss(w) ==
    /\ received < MaxEvents
    /\ received' = received + 1
    /\ \E c \in channelsOf[w] : missed' = [missed EXCEPT ![w] = @ \union {c}]
    /\ UNCHANGED <<pending, channelsOf, revoked, tokenless, beat, at, turn, due, faults>>

(* A channel comes to be mirrored, with all that was posted there before.  *)
Meet(w) ==
    /\ received < MaxEvents
    /\ received' = received + 1
    /\ \E c \in Channels \ channelsOf[w] :
        /\ channelsOf' = [channelsOf EXCEPT ![w] = @ \union {c}]
        /\ missed' = [missed EXCEPT ![w] = @ \union {c}]
    /\ UNCHANGED <<pending, revoked, tokenless, beat, at, turn, due, faults>>

(* A locked database, a failing provider, a kill.                          *)
Fault ==
    /\ at \notin {"down", "sleep"} /\ faults < MaxFaults
    /\ faults' = faults + 1
    /\ EndsDaemon
    /\ UNCHANGED <<pending, channelsOf, missed, revoked, tokenless, beat, due, received>>

(* For good, as far as the daemon is concerned.                            *)
LoseToken(w) ==
    /\ faults < MaxFaults
    /\ faults' = faults + 1
    /\ \/ revoked' = revoked \union {w} /\ UNCHANGED tokenless
       \/ tokenless' = tokenless \union {w} /\ UNCHANGED revoked
    /\ UNCHANGED <<pending, channelsOf, missed, beat, at, turn, due, received>>

(* Ten minutes without a heartbeat.                                        *)
BeatAges(w) ==
    /\ beat' = beat \ {w} /\ w \in beat
    /\ at \in {"down", "sleep", "reconcile"}
    /\ UNCHANGED <<pending, channelsOf, missed, revoked, tokenless, at, turn, due, received, faults>>

DaemonNext ==
    \/ StartDaemon \/ RunEvents \/ RunEmbeddings \/ ReconcileTurn \/ Wake \/ BecomesDue
    \/ Fault
    \/ \E w \in Turns : Receive(w) \/ Miss(w) \/ Meet(w) \/ LoseToken(w) \/ BeatAges(w)

(* systemd starts what ended, the loop goes on, and time passes.           *)
DaemonFairness ==
    /\ WF_daemonVars(StartDaemon) /\ WF_daemonVars(RunEvents)
    /\ WF_daemonVars(RunEmbeddings) /\ WF_daemonVars(ReconcileTurn)
    /\ WF_daemonVars(Wake) /\ SF_daemonVars(BecomesDue)

DaemonSpec == DaemonInit /\ [][DaemonNext]_daemonVars /\ DaemonFairness

-----------------------------------------------------------------------------
(* Properties *)

DaemonTypeOK ==
    /\ pending \in [Turns -> 0 .. MaxEvents]
    /\ channelsOf \in [Turns -> SUBSET Channels] /\ missed \in [Turns -> SUBSET Channels]
    /\ \A w \in Turns : missed[w] \subseteq channelsOf[w]
    /\ revoked \subseteq Turns /\ tokenless \subseteq Turns /\ beat \subseteq Turns
    /\ at \in {"down", "events", "embeddings", "reconcile", "sleep"}
    /\ turn \in Turns /\ due \in BOOLEAN
    /\ received \in 0 .. MaxEvents /\ faults \in 0 .. MaxFaults

(* Every workspace's events are applied and what the live path missed of   *)
(* it is mirrored, though the token of another is refused: its own and     *)
(* those before it in the config must be good for the reconcile, and no    *)
(* workspace may be without a token.  A channel that has as many before it *)
(* as a reconcile takes is not reconciled again, whatever is missed there  *)
(* (cmd_mirror_daemon).                                                    *)
EveryWorkspaceServed ==
    \A w \in Turns :
        /\ []<>(pending[w] = 0 \/ tokenless # {})
        /\ \A c \in Channels :
            []<>(c \notin missed[w] \/ c \notin Taken(w) \/ tokenless # {}
                 \/ \E v \in revoked : v <= w)
=============================================================================
