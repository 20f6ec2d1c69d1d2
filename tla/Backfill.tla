------------------------------ MODULE Backfill ------------------------------
(***************************************************************************)
(* backfill_messages (sync/backfill.py) on one channel: the daemon's       *)
(* periodic reconcile and the `mirror backfill` an operator or a tenant's  *)
(* request starts beside it, against a channel that goes on changing.      *)
(*                                                                         *)
(* A pass reads the channel's checkpoint, fetches the history from there   *)
(* on, upserts it, and fetches the replies of the threads it saw and of    *)
(* the recent ones it knows; then it moves the checkpoint to the newest    *)
(* message it saw.  A pass with bounds of its own leaves the checkpoint    *)
(* alone.  An error or a kill ends a pass anywhere.                        *)
(*                                                                         *)
(* A message is known by its ts, the order it was posted in.  Live events  *)
(* either write a change at once or never arrive: how they go wrong        *)
(* otherwise is the subject of EventPipeline.  Fetching one page after     *)
(* another is one step: later pages are older, so no message is missed     *)
(* between them.                                                           *)
(***************************************************************************)
EXTENDS Naturals, Sequences, FiniteSetsExt

CONSTANTS
    Procs,            \* processes that run passes
    Lookback,         \* RECENT_THREAD_ROOT_LOOKBACK_SECONDS, in messages
    MaxTs,            \* bound: messages posted
    MaxMishaps        \* bound: messages edited, passes cut short or with
                      \*        bounds of their own, threads not found

ASSUME BackfillAssumption ==
    /\ Lookback \in Nat
    /\ MaxTs \in Nat
    /\ MaxMishaps \in Nat

VARIABLES
    slack,            \* the channel's messages at Slack: root, version
    rows,             \* table messages: the version of each message, 0 for none
    threaded,         \* messages whose row has thread_ts = ts
    checkpoint,       \* sync_state messages.oldest.<channel>, 0 for none
    pass,             \* the pass each process runs
    mishaps,          \* how many of them so far
    passed,           \* history: messages a pass went by while they were posted
    unreached         \* history: replies whose thread a pass did not reach

vars == <<slack, rows, threaded, checkpoint, pass, mishaps, passed, unreached>>

Ts == 1 .. MaxTs

Posted == DOMAIN slack

Message == [root : 0 .. MaxTs, version : Nat]    \* root 0: not a reply

IsReply(t) == slack[t].root # 0

HasReplies(t) == \E r \in Posted : slack[r].root = t

(* What a fetch says of a message.                                         *)
Copy(t) == [ts |-> t, version |-> slack[t].version, head |-> HasReplies(t)]

NoPass == [phase |-> "idle", oldest |-> 0, bounded |-> FALSE, todo |-> {},
           heads |-> {}, roots |-> {}, missed |-> {}, newest |-> 0, upto |-> 0]

Latest(S, n) == Max(S \union {n})

Init ==
    /\ slack = <<>>
    /\ rows = [t \in Ts |-> 0]
    /\ threaded = {}
    /\ checkpoint = 0
    /\ pass = [p \in Procs |-> NoPass]
    /\ mishaps = 0
    /\ passed = {} /\ unreached = {}

-----------------------------------------------------------------------------
(* Slack and the live path *)

(* A message is posted, in the channel or to a thread, and its live event  *)
(* writes it unless it is missed.                                          *)
Post(root, live) ==
    LET t == Len(slack) + 1 IN
    /\ t <= MaxTs
    /\ root # 0 => root \in Posted /\ ~IsReply(root)
    /\ slack' = Append(slack, [root |-> root, version |-> 1])
    /\ rows' = IF live THEN [rows EXCEPT ![t] = 1] ELSE rows
    /\ UNCHANGED <<threaded, checkpoint, pass, mishaps, passed, unreached>>

(* A message is edited, once; likewise.  The event carries its thread_ts.  *)
Edit(t, live) ==
    /\ mishaps < MaxMishaps
    /\ slack[t].version = 1
    /\ mishaps' = mishaps + 1
    /\ slack' = [slack EXCEPT ![t].version = 2]
    /\ IF live
       THEN /\ rows' = [rows EXCEPT ![t] = 2]
            /\ threaded' = IF HasReplies(t) THEN threaded \union {t} ELSE threaded \ {t}
       ELSE UNCHANGED <<rows, threaded>>
    /\ UNCHANGED <<checkpoint, pass, passed, unreached>>

-----------------------------------------------------------------------------
(* A pass *)

(* It starts from the checkpoint, or from an oldest it is given.           *)
Start(p) ==
    /\ pass[p].phase = "idle"
    /\ pass' = [pass EXCEPT ![p] = [NoPass EXCEPT !.phase = "history",
                                                  !.oldest = checkpoint]]
    /\ UNCHANGED <<slack, rows, threaded, checkpoint, mishaps, passed, unreached>>

StartBounded(p, oldest) ==
    /\ pass[p].phase = "idle"
    /\ mishaps < MaxMishaps
    /\ mishaps' = mishaps + 1
    /\ pass' = [pass EXCEPT ![p] = [NoPass EXCEPT !.phase = "history", !.bounded = TRUE,
                                                  !.oldest = oldest]]
    /\ UNCHANGED <<slack, rows, threaded, checkpoint, passed, unreached>>

(* conversations.history: the messages of the channel, replies excepted,   *)
(* from oldest on.                                                         *)
FetchHistory(p) ==
    LET slice == {t \in Posted : ~IsReply(t) /\ t >= pass[p].oldest} IN
    /\ pass[p].phase = "history"
    /\ pass' = [pass EXCEPT ![p].phase = "slice",
                            ![p].todo = {Copy(t) : t \in slice},
                            ![p].heads = {t \in slice : HasReplies(t)},
                            ![p].newest = Latest(slice, 0),
                            ![p].upto = Len(slack)]
    /\ UNCHANGED <<slack, rows, threaded, checkpoint, mishaps, passed, unreached>>

(* The upsert of one fetched message; thread_ts is written with it.        *)
Upsert(p, m) ==
    /\ pass[p].phase \in {"slice", "roots"}
    /\ m \in pass[p].todo
    /\ \A n \in pass[p].todo :
         IF pass[p].phase = "slice" THEN n.ts <= m.ts ELSE m.ts <= n.ts
    /\ rows' = [rows EXCEPT ![m.ts] = m.version]
    /\ threaded' = IF m.head THEN threaded \union {m.ts} ELSE threaded \ {m.ts}
    /\ pass' = [pass EXCEPT ![p].todo = @ \ {m}]
    /\ UNCHANGED <<slack, checkpoint, mishaps, passed, unreached>>

KnownRoots_noLookback(oldest) == {t \in threaded : t >= oldest}

(* list_recent_thread_roots, asked only once there is a checkpoint.        *)
KnownRoots(oldest) == {t \in threaded : oldest > 0 /\ t + Lookback >= oldest}

(* A pass cannot know that r has replies: it lies before the slice, and it *)
(* is out of the lookback or its row does not say so.                      *)
Hidden(p, r) ==
    /\ r \notin pass[p].heads
    /\ r \notin threaded \/ r + Lookback < pass[p].oldest

(* The threads to fetch: those of the slice and the recent known ones.     *)
ChooseRoots(p) ==
    /\ pass[p].phase = "slice"
    /\ pass[p].todo = {}
    /\ pass' = [pass EXCEPT ![p].phase = "roots", ![p].heads = {},
                            ![p].roots = pass[p].heads \union KnownRoots(pass[p].oldest),
                            ![p].missed = {t \in Posted : /\ IsReply(t)
                                                          /\ t >= pass[p].oldest
                                                          /\ Hidden(p, slack[t].root)}]
    /\ UNCHANGED <<slack, rows, threaded, checkpoint, mishaps, passed, unreached>>

NextThread(p, root) ==
    /\ pass[p].phase = "roots" /\ pass[p].todo = {}
    /\ root \in pass[p].roots
    /\ \A r \in pass[p].roots : root <= r

(* conversations.replies of the next thread: its replies from oldest on,   *)
(* and its root, which Slack may send whatever its age.                    *)
FetchReplies(p, root, withRoot) ==
    LET thread == {t \in Posted : slack[t].root = root /\ t >= pass[p].oldest}
                    \union (IF withRoot \/ root >= pass[p].oldest THEN {root} ELSE {})
    IN
    /\ NextThread(p, root)
    /\ pass' = [pass EXCEPT ![p].roots = @ \ {root},
                            ![p].todo = {Copy(t) : t \in thread},
                            ![p].newest = Latest(thread, @)]
    /\ UNCHANGED <<slack, rows, threaded, checkpoint, mishaps, passed, unreached>>

(* thread_not_found and its like: on to the next thread.                   *)
SkipThread(p, root) ==
    /\ NextThread(p, root)
    /\ mishaps < MaxMishaps
    /\ mishaps' = mishaps + 1
    /\ pass' = [pass EXCEPT ![p].roots = @ \ {root},
                            ![p].missed = @ \union
                                {t \in Posted : slack[t].root = root /\ t >= pass[p].oldest}]
    /\ UNCHANGED <<slack, rows, threaded, checkpoint, passed, unreached>>

NewCheckpoint_next(p) == IF pass[p].bounded \/ pass[p].newest = 0 THEN checkpoint
                         ELSE pass[p].newest + 1

NewCheckpoint_anyPass(p) == IF pass[p].newest = 0 THEN checkpoint ELSE pass[p].newest

(* set_sync_state, when the pass has no bounds and has seen a message.     *)
NewCheckpoint(p) == IF pass[p].bounded \/ pass[p].newest = 0 THEN checkpoint
                    ELSE pass[p].newest

Finish(p) ==
    /\ pass[p].phase = "roots" /\ pass[p].todo = {}
    /\ pass[p].roots = {}
    /\ checkpoint' = NewCheckpoint(p)
    /\ LET absent == {t \in Posted : rows[t] = 0 /\ ~pass[p].bounded} IN
       /\ passed' = passed \union {t \in absent : pass[p].upto < t /\ t < pass[p].newest}
       /\ unreached' = unreached \union (absent \intersect pass[p].missed)
    /\ pass' = [pass EXCEPT ![p] = NoPass]
    /\ UNCHANGED <<slack, rows, threaded, mishaps>>

(* The pass raises or its process is killed.                               *)
Cut(p) ==
    /\ pass[p].phase # "idle"
    /\ mishaps < MaxMishaps
    /\ mishaps' = mishaps + 1
    /\ pass' = [pass EXCEPT ![p] = NoPass]
    /\ UNCHANGED <<slack, rows, threaded, checkpoint, passed, unreached>>

-----------------------------------------------------------------------------
PassStep(p) ==
    \/ Start(p) \/ FetchHistory(p) \/ ChooseRoots(p) \/ Finish(p)
    \/ \E m \in pass[p].todo : Upsert(p, m)
    \/ \E root \in pass[p].roots, withRoot \in BOOLEAN : FetchReplies(p, root, withRoot)

Next ==
    \/ \E root \in 0 .. MaxTs, live \in BOOLEAN : Post(root, live)
    \/ \E t \in Posted, live \in BOOLEAN : Edit(t, live)
    \/ \E p \in Procs :
         \/ Start(p) \/ FetchHistory(p) \/ ChooseRoots(p) \/ Finish(p)
         \/ \E oldest \in Ts : StartBounded(p, oldest)
         \/ \E m \in pass[p].todo : Upsert(p, m)
         \/ \E root \in pass[p].roots :
              \/ \E withRoot \in BOOLEAN : FetchReplies(p, root, withRoot)
              \/ SkipThread(p, root)
         \/ Cut(p)

Spec == Init /\ [][Next]_vars

(* Reconcile comes round for ever, every --reconcile-minutes.              *)
FairSpec == Spec /\ \A p \in Procs : WF_vars(PassStep(p))

-----------------------------------------------------------------------------
(* Properties *)

TypeOK ==
    /\ slack \in Seq(Message) /\ Len(slack) <= MaxTs
    /\ rows \in [Ts -> Nat]
    /\ threaded \subseteq Ts
    /\ checkpoint \in 0 .. MaxTs
    /\ pass \in [Procs ->
         [phase : {"idle", "history", "slice", "roots"}, oldest : 0 .. MaxTs,
          bounded : BOOLEAN,
          todo : SUBSET [ts : Ts, version : Nat, head : BOOLEAN],
          heads : SUBSET Ts, roots : SUBSET Ts, missed : SUBSET Ts, newest : 0 .. MaxTs, upto : 0 .. MaxTs]]
    /\ mishaps \in 0 .. MaxMishaps
    /\ passed \subseteq Ts /\ unreached \subseteq Ts

(* Everything up to the checkpoint is mirrored: later passes will not look *)
(* there again.  The exceptions are messages posted during a pass that saw *)
(* a newer reply, and replies to threads a pass did not reach              *)
(* (backfill_messages, however its passes are cut or overlap).             *)
CheckpointCovers ==
    \A t \in Posted : t <= checkpoint => rows[t] > 0 \/ t \in passed \union unreached

(* Once Slack is quiet every message the live path missed is fetched, with *)
(* the same exceptions.                                                    *)
EventuallyFetched ==
    <>[](\A t \in Posted : rows[t] > 0 \/ t \in passed \union unreached)

(* The blind spot the comment in backfill_messages says is closed: a reply *)
(* to a root no older than the lookback is fetched in the end, unless it   *)
(* was posted during a pass.                                               *)
RecentRepliesFetched ==
    <>[](\A t \in Posted :
            IsReply(t) /\ slack[t].root + Lookback >= t => rows[t] > 0 \/ t \in passed)
=============================================================================
