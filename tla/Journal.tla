------------------------------- MODULE Journal -------------------------------
(***************************************************************************)
(* The child events a parent service reads from the mirror: /v1/events     *)
(* lists the append-only journal together with what the present rows and   *)
(* exports imply, /v1/events/follow waits on the journal alone             *)
(* (list_child_events, follow_child_events in service/app.py).             *)
(*                                                                         *)
(* A reader keeps a cursor: the recorded time and the id of the last event *)
(* it was given.  Times are compared as strings.  Rows carry whole         *)
(* seconds, exports fractions of one, and "12.5Z" sorts before "12Z": the  *)
(* exports of a second come before its rows.  Ids are opaque, so within a  *)
(* second the order has nothing to do with the order of recording.  An     *)
(* event is here its place in that order.                                  *)
(***************************************************************************)
EXTENDS Naturals, FiniteSets

CONSTANTS
    Journaled,        \* events of the journal table
    Observed,         \* events implied by a row: a message or a file link
    Created,          \* slack.export.created, implied by a bundle
    Removed,          \* slack.export.deleted or .renamed, in the log of exports
    Limit,            \* limit of a page
    MaxClock,         \* bound: seconds
    MaxAgain          \* bound: events recorded again, renamed or gone

Files == Created \union Removed
Tabled == Journaled \union Observed
Events == Files \union Tabled

ASSUME JournalAssumption ==
    /\ Events \subseteq Nat \ {0} /\ IsFiniteSet(Events)
    /\ Files \intersect Tabled = {} /\ Created \intersect Removed = {}
    /\ Journaled \intersect Observed = {}
    /\ \A f \in Files, e \in Tabled : f < e
    /\ Limit \in Nat \ {0} /\ MaxClock \in Nat \ {0} /\ MaxAgain \in Nat

VARIABLES
    clock,            \* seconds
    recorded,         \* second each event was last recorded, 0: not there
    writing,          \* the write transaction under way: second and event, or Start
    owed,             \* lines of the log of exports still to be written
    follows,          \* whether the reader follows the journal or lists all
    began,            \* the cursor of status it began at, Start for none
    after,            \* its cursor, Start for none
    seen,             \* events it was given as they are recorded now
    stale,            \* whether its last page said stale-cursor
    again,            \* bound
    moved,            \* history: an event was recorded anew or went
    late              \* history: how an event came to be recorded behind the cursor

cursorVars == <<follows, began, after, stale>>
readerVars == <<cursorVars, seen>>
journalVars == <<clock, recorded, writing, owed, readerVars, again, moved, late>>

Start == <<0, 0>>

Earlier(a, b) == a[1] < b[1] \/ (a[1] = b[1] /\ a[2] < b[2])

JournalInit ==
    /\ clock = 1
    /\ recorded = [e \in Events |-> 0]
    /\ writing = Start
    /\ owed = {}
    /\ follows \in BOOLEAN
    /\ began = Start /\ after = Start
    /\ seen = {}
    /\ stale = FALSE
    /\ again = 0
    /\ moved = FALSE /\ late = [e \in Events |-> "no"]

-----------------------------------------------------------------------------
(* What is recorded *)

Second ==
    /\ clock < MaxClock
    /\ clock' = clock + 1
    /\ UNCHANGED <<recorded, writing, owed, readerVars, again, moved, late>>

(* Where the cursor is when event e is recorded at second t: it has not    *)
(* come to it, it is in the same second (a tie), or at a later export.     *)
Lateness(e, t) ==
    IF t = 0 \/ Earlier(after, <<t, e>>) THEN "no"
    ELSE IF t = after[1] THEN "tied" ELSE "overtaken"

(* Bookkeeping of a change of event e to second t, 0 if it goes.           *)
Records(e, t) ==
    /\ recorded' = [recorded EXCEPT ![e] = t]
    /\ seen' = seen \ {e} /\ moved' = (moved \/ recorded[e] # 0)
    /\ late' = [late EXCEPT ![e] = Lateness(e, t)]

(* What is recorded again counts towards the bound.                        *)
Recount(e) ==
    /\ recorded[e] # 0 => again < MaxAgain
    /\ again' = IF recorded[e] # 0 THEN again + 1 ELSE again

(* A row is written: the statement takes CURRENT_TIMESTAMP, the event      *)
(* shows once the transaction commits; SQLite has one writer at a time.    *)
(* A journal row or a message written again moves to the new second.       *)
Stamp(e) ==
    /\ writing = Start /\ Recount(e)
    /\ writing' = <<clock, e>>
    /\ UNCHANGED <<clock, recorded, owed, readerVars, moved, late>>

Commit ==
    /\ writing # Start
    /\ Records(writing[2], writing[1])
    /\ writing' = Start
    /\ UNCHANGED <<clock, owed, cursorVars, again>>

(* A file link goes with the next upsert of its message.                   *)
Unlink(e) ==
    /\ writing = Start /\ recorded[e] # 0 /\ Recount(e)
    /\ Records(e, 0)
    /\ UNCHANGED <<clock, writing, owed, cursorVars>>

(* A bundle appears, or is written again; its event carries the time of    *)
(* its directory, that of the last file that came into it.                 *)
Build(x) ==
    /\ Recount(x) /\ Records(x, clock)
    /\ UNCHANGED <<clock, writing, owed, cursorVars>>

(* A bundle goes; a line in the log of exports is to say so.               *)
Owe(line) == recorded[line] = 0 /\ line \notin owed /\ owed' = owed \union {line}

Drop(x, line) ==
    /\ recorded[x] # 0 /\ Recount(x) /\ Records(x, 0) /\ Owe(line)
    /\ UNCHANGED <<clock, writing, cursorVars>>

(* A bundle renamed is the same directory, with the time it had: its files *)
(* are rewritten in place.  Under its new name it may be behind cursors.   *)
Retitle(x, name, line) ==
    /\ recorded[x] # 0 /\ recorded[name] = 0 /\ Recount(x) /\ Owe(line)
    /\ recorded' = [recorded EXCEPT ![x] = 0, ![name] = recorded[x]]
    /\ late' = [late EXCEPT ![x] = "no", ![name] =
                  IF Earlier(after, <<recorded[x], name>>) THEN "no" ELSE "renamed"]
    /\ moved' = TRUE /\ seen' = seen \ {x}
    /\ UNCHANGED <<clock, writing, cursorVars>>

(* The line is written last; a request that is cut leaves none.            *)
Log(line) ==
    /\ line \in owed /\ owed' = owed \ {line}
    /\ Records(line, clock)
    /\ UNCHANGED <<clock, writing, cursorVars, again>>

-----------------------------------------------------------------------------
(* Reading *)

Recorded == {<<recorded[e], e>> : e \in {x \in Events : recorded[x] # 0}}

(* The events a reader is shown: a follower those of the journal.          *)
Window == {x \in Recorded : follows => x[2] \in Journaled}

FirstOf(S, n) == {x \in S : Cardinality({y \in S : Earlier(y, x)}) < n}

LastOf(S) == CHOOSE x \in S : \A y \in S : y = x \/ Earlier(y, x)

After(c) == {x \in Window : Earlier(c, x)}

Page == FirstOf(After(after), Limit)

NextCursor_latest == LastOf(After(after))

NextCursor == LastOf(Page)

(* The cursor is older than all there is.                                  *)
StaleCursor == /\ after # Start /\ Window # {}
               /\ \A x \in Window : Earlier(after, x)

(* A page is read and its next_cursor kept.  An empty page has none, and   *)
(* the reader keeps the cursor it has; so does one whose follow times out. *)
Read ==
    /\ Page # {} \/ stale # StaleCursor
    /\ seen' = seen \union {x[2] : x \in Page}
    /\ after' = IF Page = {} THEN after ELSE NextCursor
    /\ stale' = StaleCursor
    /\ UNCHANGED <<clock, recorded, writing, owed, follows, began, again, moved, late>>

(* A new reader may begin at latest_cursor of /v1/events/status, which is  *)
(* of all events, for one that is to follow the journal too; what is there *)
(* already is no concern of its.                                           *)
StartLatest ==
    /\ after = Start /\ Recorded # {}
    /\ after' = LastOf(Recorded) /\ began' = after'
    /\ seen' = {x[2] : x \in Recorded}
    /\ UNCHANGED <<clock, recorded, writing, owed, follows, stale, again, moved, late>>

JournalNext ==
    \/ Second \/ Commit
    \/ \E e \in Tabled : Stamp(e)
    \/ \E e \in Observed : Unlink(e)
    \/ \E x \in Created :
         \/ Build(x)
         \/ \E line \in Removed : Drop(x, line) \/ \E name \in Created : Retitle(x, name, line)
    \/ \E line \in Removed : Log(line)
    \/ Read \/ StartLatest

JournalSpec == JournalInit /\ [][JournalNext]_journalVars

-----------------------------------------------------------------------------
(* Properties *)

JournalTypeOK ==
    /\ clock \in 1 .. MaxClock
    /\ recorded \in [Events -> 0 .. MaxClock]
    /\ writing \in {Start} \union ((1 .. MaxClock) \X Tabled)
    /\ owed \subseteq Removed
    /\ follows \in BOOLEAN /\ stale \in BOOLEAN
    /\ began \in {Start} \union ((1 .. MaxClock) \X Events)
    /\ after \in {Start} \union ((1 .. MaxClock) \X Events)
    /\ seen \subseteq Events
    /\ again \in 0 .. MaxAgain
    /\ moved \in BOOLEAN
    /\ late \in [Events -> {"no", "tied", "overtaken", "renamed"}]

(* A reader that pages on by next_cursor misses nothing it has paged past, *)
(* except events recorded in the very second of its cursor and, for a      *)
(* reader of exports, bundles renamed, which keep their time, and rows     *)
(* committed after an export of a later second.  A follower of the journal *)
(* has only the first exception, and the last where it began at the        *)
(* latest cursor of status, which may be an export's (list_child_events:   *)
(* the cursor is a second and an id).  And a reader is told "stale-cursor" *)
(* only where an event has moved or gone, or where it began to follow the  *)
(* journal at an event that is not of the journal.                         *)
PagesMissOnlyLateRecords ==
    /\ \A x \in Window :
          \/ Earlier(after, x) \/ x[2] \in seen
          \/ late[x[2]] \in {"tied", "renamed"}
          \/ late[x[2]] = "overtaken" /\ (follows => x[1] < began[1])
    /\ stale => moved \/ (follows /\ began # Start /\ began[2] \notin Journaled)
=============================================================================
