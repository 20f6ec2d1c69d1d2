------------------------ MODULE EventPipeline_proofs ------------------------
(***************************************************************************)
(* Proofs about EventPipeline, for every set of messages and event ids,    *)
(* every batch limit and every bound: type correctness, ProcessedStays     *)
(* and Converges.                                                          *)
(*                                                                         *)
(* Neither is inductive.  The argument is that of Overtakes: an event the  *)
(* daemon reaches before an older one of its message that is still to be   *)
(* applied was listed before it, so the two share a second, or the older   *)
(* one was stored when the newer one had been reached.  Hence an Apply     *)
(* never takes a row back behind what is Done, and neither does reconcile, *)
(* whose page is at least as new as everything done when it was fetched.   *)
(***************************************************************************)
EXTENDS EventPipeline, TLAPS

(* The exceptions of the two properties.                                   *)
Excused(k) == Tied(k) \/ k \in late \union again

(* Slack counts versions and the clock goes forward.                       *)
Clock ==
    /\ \A i \in Known : /\ issued[i].at <= now
                        /\ issued[i].version > 0
                        /\ issued[i].version <= slack[issued[i].key]
    /\ \A i, j \in Known : Newer(i, j) => issued[j].at <= issued[i].at
    /\ \A k \in Keys : slack[k] > 0 =>
         \E i \in Known : issued[i].key = k /\ issued[i].version = slack[k]

(* Only events Slack has issued are in flight or stored.                   *)
OnlyIssued ==
    \A i \in Ids \ Known : wire[i] = 0 /\ received[i] = 0 /\ events[i] = "none"

(* What the daemon has listed and not finished is pending.                 *)
Listed ==
    /\ cur \notin batch
    /\ \A i \in Ids : i \in batch \/ i = cur => events[i] = "pending"

(* An event not stored is on its way or lost.                              *)
Accounted ==
    \A i \in Known :
        events[i] = "none" => wire[i] > 0 \/ received[i] > 0 \/ i \in lost

(* Processed events are in the journal.                                    *)
Journaled ==
    /\ \A i \in Known : events[i] = "processed" => journal[i] # Never
    /\ phase = "mark" => journal[cur] # Never

(* The daemon gets to i, or has got to it, before it gets to j.            *)
Overtakes(i, j) ==
    /\ Newer(i, j)
    /\ events[j] = "pending"
    /\ \/ events[i] \in {"processed", "error"}
       \/ i = cur
       \/ i \in batch /\ j \notin batch /\ j # cur

InOrder ==
    \A i, j \in Known : Overtakes(i, j) => Excused(issued[i].key)

(* The change of the event is in the row of its message.                   *)
Done(i) ==
    \/ events[i] = "processed"
    \/ events[i] = "error" /\ i \notin lost
    \/ i = cur /\ phase \in {"journal", "mark"}

RowsKeepUp ==
    \A i \in Known :
        Done(i) => \/ rows[issued[i].key] >= issued[i].version
                   \/ Excused(issued[i].key)

(* Reconcile holds nothing older than what is done.                        *)
PagesKeepUp ==
    /\ \A k \in Keys : page[k] > 0 => phase = "reconcile"
    /\ \A i \in Known :
         Done(i) /\ page[issued[i].key] > 0
            => page[issued[i].key] >= issued[i].version

RowsBehindSlack ==
    \A k \in Keys : rows[k] <= slack[k] /\ page[k] <= slack[k]

TypeInv == TypeOK /\ OnlyIssued /\ Listed

-----------------------------------------------------------------------------
(* Type correctness *)

LEMMA IdFacts == 0 \notin Ids /\ Ids \subseteq Nat
BY PipelineAssumption

LEMMA PipelineInitType == Init => TypeInv
<1> SUFFICES ASSUME Init PROVE TypeInv
  OBVIOUS
<1>1. Known = {} /\ issued \in [Known -> Event]
  BY DEF Init, Known
<1>2. TypeOK
  BY <1>1, IdFacts DEF Init, TypeOK, NoPage, ErrorPhases
<1>3. OnlyIssued /\ Listed
  BY <1>1, IdFacts DEF Init, OnlyIssued, Listed
<1>4. QED
  BY <1>2, <1>3 DEF TypeInv

LEMMA ReceiverType ==
  ASSUME TypeInv,
         \/ StopReceiver
         \/ \E i \in Ids : \/ Redeliver(i) \/ Acknowledge(i)
                           \/ Store(i) \/ FailStore(i)
  PROVE  TypeInv'
<1> USE DEF TypeInv, OnlyIssued, Listed
<1>1. ASSUME NEW i \in Ids, Redeliver(i) PROVE TypeInv'
  BY <1>1 DEF TypeOK, Redeliver, slackVars, tables, daemonVars, history, Known
<1>2. ASSUME NEW i \in Ids, Acknowledge(i) PROVE TypeInv'
  BY <1>2 DEF TypeOK, Acknowledge, slackVars, tables, daemonVars, history, Known
<1>3. ASSUME NEW i \in Ids, Store(i) PROVE TypeInv'
  <2>1. i \in Known /\ issued[i].key \in Keys
    BY <1>3 DEF TypeOK, Store, Event
  <2>2. QED
    BY <1>3, <2>1 DEF TypeOK, Store, InsertedStatus, slackVars, daemonVars, Known
<1>4. ASSUME NEW i \in Ids, FailStore(i) PROVE TypeInv'
  BY <1>4 DEF TypeOK, FailStore, slackVars, tables, daemonVars, Known
<1>5. ASSUME StopReceiver PROVE TypeInv'
  BY <1>5 DEF TypeOK, StopReceiver, slackVars, tables, daemonVars, Known
<1>6. QED
  BY <1>1, <1>2, <1>3, <1>4, <1>5

LEMMA ChangeType ==
  ASSUME TypeInv, NEW k \in Keys, NEW n \in Ids, Change(k, n)
  PROVE  TypeInv'
<1> USE DEF TypeInv
<1>1. Known' = Known \union {n}
  BY DEF Change, Known
<1>2. [key |-> k, version |-> slack[k] + 1, at |-> now] \in Event
  BY DEF TypeOK, Event
<1>3. issued' \in [Known' -> Event]
  BY <1>1, <1>2 DEF Change, TypeOK
<1>4. TypeOK'
  BY <1>1, <1>3 DEF Change, TypeOK, tables, daemonVars, history
<1>5. OnlyIssued' /\ Listed'
  BY <1>1 DEF Change, TypeOK, tables, daemonVars, OnlyIssued, Listed
<1>6. QED
  BY <1>4, <1>5

LEMMA DaemonType ==
  ASSUME TypeInv,
         \/ List \/ Apply \/ Append \/ Mark \/ Fail \/ StopDaemon
         \/ \E i \in Ids : Take(i)
         \/ \E w \in (SUBSET Keys) \ {{}} : Fetch(w)
         \/ \E k \in Keys : WriteFetched(k)
  PROVE  TypeInv'
<1> USE IdFacts DEF TypeInv, OnlyIssued, Listed
<1>1. CASE List
  BY <1>1 DEF TypeOK, List, IsListing, Pending, ErrorPhases, slackVars, tables,
     history, Known
<1>2. ASSUME NEW i \in Ids, Take(i) PROVE TypeInv'
  <2>1. i \in Known
    BY <1>2 DEF Take
  <2>2. QED
    BY <1>2, <2>1 DEF TypeOK, Take, ErrorPhases, slackVars, tables, history, Known
<1>3. CASE Apply
  <2>1. cur \in Known /\ issued[cur].key \in Keys /\ issued[cur].version \in Nat
    BY <1>3 DEF TypeOK, Apply, ErrorPhases, Event
  <2>2. QED
    BY <1>3, <2>1 DEF TypeOK, Apply, ErrorPhases, slackVars, Known
<1>4. CASE Append
  BY <1>4 DEF TypeOK, Append, RecordedAt, ErrorPhases, slackVars, history, Known
<1>5. CASE Mark
  <2>1. cur \in Known /\ cur' = 0 /\ phase' \in {"idle", "batch"}
    BY <1>5 DEF TypeOK, Mark, NextEvent, ErrorPhases
  <2>2. QED
    BY <1>5, <2>1 DEF TypeOK, Mark, ErrorPhases, slackVars, history, Known
<1>6. CASE Fail
  <2>1. cur \in Known /\ cur' = 0 /\ phase' \in {"idle", "batch"}
    BY <1>6 DEF TypeOK, Fail, NextEvent, ErrorPhases
  <2>2. QED
    BY <1>6, <2>1 DEF TypeOK, Fail, ErrorPhases, slackVars, Known
<1>7. ASSUME NEW w \in SUBSET Keys, Fetch(w) PROVE TypeInv'
  BY <1>7 DEF TypeOK, Fetch, ErrorPhases, slackVars, tables, history, Known
<1>8. ASSUME NEW k \in Keys, WriteFetched(k) PROVE TypeInv'
  BY <1>8 DEF TypeOK, WriteFetched, ErrorPhases, slackVars, history, Known
<1>9. CASE StopDaemon
  BY <1>9 DEF TypeOK, StopDaemon, NoPage, ErrorPhases, slackVars, tables, history,
     Known
<1>10. QED
  BY <1>1, <1>2, <1>3, <1>4, <1>5, <1>6, <1>7, <1>8, <1>9

LEMMA PipelineNextType == TypeInv /\ [Next]_vars => TypeInv'
<1> SUFFICES ASSUME TypeInv, [Next]_vars PROVE TypeInv'
  OBVIOUS
<1>1. CASE UNCHANGED vars
  BY <1>1 DEF TypeInv, TypeOK, OnlyIssued, Listed, Known, vars, slackVars, tables,
     daemonVars, history
<1>2. CASE Tick
  BY <1>2 DEF Tick, TypeInv, TypeOK, OnlyIssued, Listed, Known, slackVars, tables,
     daemonVars, history
<1>3. QED
  BY <1>1, <1>2, ReceiverType, ChangeType, DaemonType DEF Next

(* Every variable of the pipeline keeps its type; a step of the daemon     *)
(* always has an event Slack issued in hand (process_pending_events).      *)
THEOREM PipelineTypeCorrect == Spec => []TypeOK
<1>1. TypeInv => TypeOK
  BY DEF TypeInv
<1>2. QED
  BY <1>1, PipelineInitType, PipelineNextType, PTL DEF Spec

-----------------------------------------------------------------------------
(* Slack's side *)

(* Every step but Change leaves what Slack has issued alone.               *)
LEMMA IssuedStays ==
  ASSUME [Next]_vars, \A k \in Keys, i \in Ids : ~Change(k, i)
  PROVE  issued' = issued /\ slack' = slack
BY DEF Next, vars, slackVars, Tick, Redeliver, Acknowledge, Store, FailStore,
   StopReceiver, List, Take, Apply, Append, Mark, Fail, Fetch, WriteFetched, StopDaemon

LEMMA ChangeIssues ==
  ASSUME TypeInv, NEW k \in Keys, NEW n \in Ids, Change(k, n)
  PROVE  /\ Known' = Known \union {n} /\ n \notin Known
         /\ \A i \in Known : issued'[i] = issued[i]
         /\ issued'[n].key = k /\ issued'[n].at = now
         /\ issued'[n].version = slack[k] + 1
         /\ slack'[k] = slack[k] + 1 /\ \A l \in Keys \ {k} : slack'[l] = slack[l]
         /\ \A l \in Keys : slack[l] \in Nat
         /\ \A i \in Known : /\ issued[i].key \in Keys /\ issued[i].version \in Nat
                             /\ issued[i].at \in Nat
         /\ now \in Nat /\ now' = now
<1>1. Known' = Known \union {n} /\ n \notin Known
  BY DEF Change, Known
<1>2. issued' = [j \in Known \union {n} |->
                   IF j = n THEN [key |-> k, version |-> slack[k] + 1, at |-> now]
                   ELSE issued[j]]
  BY DEF Change
<1>3. issued'[n] = [key |-> k, version |-> slack[k] + 1, at |-> now]
  BY <1>2
<1>4. \A i \in Known : issued'[i] = issued[i]
  BY <1>1, <1>2
<1>5. QED
  BY <1>1, <1>3, <1>4 DEF Change, TypeInv, TypeOK, Event

LEMMA PipelineInitClock == Init => Clock
BY DEF Init, Clock, Known

LEMMA ClockStep == TypeInv /\ Clock /\ [Next]_vars => Clock'
<1> SUFFICES ASSUME TypeInv, Clock, [Next]_vars PROVE Clock'
  OBVIOUS
<1>1. ASSUME NEW k \in Keys, NEW n \in Ids, Change(k, n) PROVE Clock'
  <2>1. \A i \in Known' : /\ issued'[i].at <= now'
                         /\ issued'[i].version > 0
                         /\ issued'[i].version <= slack'[issued'[i].key]
    BY <1>1, ChangeIssues DEF Clock
  <2>2. \A i, j \in Known' : Newer(i, j)' => issued'[j].at <= issued'[i].at
    BY <1>1, ChangeIssues DEF Clock, Newer
  <2>3. \A l \in Keys : slack'[l] > 0 =>
          \E i \in Known' : issued'[i].key = l /\ issued'[i].version = slack'[l]
    BY <1>1, ChangeIssues DEF Clock
  <2>4. QED
    BY <2>1, <2>2, <2>3 DEF Clock
<1>2. ASSUME \A k \in Keys, i \in Ids : ~Change(k, i) PROVE Clock'
  <2>1. now' = now \/ now' = now + 1
    BY <1>2 DEF Next, vars, slackVars, Tick, Redeliver, Acknowledge, Store, FailStore,
       StopReceiver, List, Take, Apply, Append, Mark, Fail, Fetch, WriteFetched,
       StopDaemon
  <2>2. now \in Nat /\ \A i \in Known : issued[i].at \in Nat
    BY DEF TypeInv, TypeOK, Event
  <2>3. QED
    BY <1>2, <2>1, <2>2, IssuedStays DEF Clock, Newer, Known
<1>3. QED
  BY <1>1, <1>2

(* An exception once made is made for good.                                *)
LEMMA ExcusedStays ==
  ASSUME TypeInv, [Next]_vars, NEW k \in Keys, Excused(k)
  PROVE  Excused(k)'
<1>1. late \subseteq late' /\ again \subseteq again'
  BY DEF Next, vars, history, Tick, Change, Redeliver, Acknowledge, Store, FailStore,
     StopReceiver, List, Take, Apply, Append, Mark, Fail, Fetch, WriteFetched,
     StopDaemon
<1>2. Tied(k) => Tied(k)'
  <2>1. ASSUME NEW l \in Keys, NEW n \in Ids, Change(l, n), Tied(k) PROVE Tied(k)'
    BY <2>1, ChangeIssues DEF Tied, Newer
  <2>2. QED
    BY <2>1, IssuedStays DEF Tied, Newer, Known
<1>3. QED
  BY <1>1, <1>2 DEF Excused

-----------------------------------------------------------------------------
(* The order events are reached in *)

(* What was listed before an older event of its message shares a second    *)
(* with it.                                                                *)
LEMMA BeforeOlderIsTied ==
  ASSUME TypeInv, Clock, NEW i \in Known, NEW j \in Known, Newer(i, j), Before(i, j)
  PROVE  Excused(issued[i].key)
<1>1. issued[i].at \in Nat /\ issued[j].at \in Nat
  BY DEF TypeInv, TypeOK, Event
<1>2. issued[i].at = issued[j].at /\ i < j
  BY <1>1 DEF Clock, Before
<1>3. QED
  BY <1>2 DEF Newer, Excused, Tied

LEMMA KeyFacts == ASSUME TypeInv, NEW i \in Known PROVE issued[i].key \in Keys /\ i \in Ids
BY DEF TypeInv, TypeOK, Event

(* If a step adds no pair of events that overtake, the old ones are        *)
(* excused still.                                                          *)
LEMMA NoNewOvertaking ==
  ASSUME TypeInv, InOrder, [Next]_vars, issued' = issued,
         \A i, j \in Known : Overtakes(i, j)' => Overtakes(i, j)
  PROVE  InOrder'
BY ExcusedStays, KeyFacts DEF InOrder, Known

LEMMA PipelineInitOrder == Init => InOrder
BY DEF Init, InOrder, Known

LEMMA StoreInOrder ==
  ASSUME TypeInv, InOrder, NEW n \in Ids, Store(n), [Next]_vars
  PROVE  InOrder'
<1>1. issued' = issued /\ batch' = batch /\ cur' = cur
  BY DEF Store, slackVars, daemonVars
<1>2. events' = [events EXCEPT ![n] = "pending"]
  BY DEF Store, InsertedStatus
<1>3. events \in [Ids -> {"none", "pending", "processed", "error"}]
  BY DEF TypeInv, TypeOK
<1>4. SUFFICES ASSUME NEW i \in Known, NEW j \in Known, Overtakes(i, j)'
               PROVE  Excused(issued[i].key)'
  BY <1>1 DEF InOrder, Known
<1>5. Newer(i, j)
  BY <1>1, <1>4 DEF Overtakes, Newer
<1>6. CASE Overtakes(i, j)
  BY <1>1, <1>6, KeyFacts, ExcusedStays DEF InOrder
<1>7. CASE ~Overtakes(i, j)
  <2>1. j = n
    BY <1>1, <1>2, <1>3, <1>4, <1>5, <1>7, KeyFacts DEF Overtakes
  <2>2. Ahead(i)
    BY <1>1, <1>2, <1>3, <1>4, <2>1, KeyFacts DEF Overtakes, Ahead
  <2>3. Overtaken(n)
    BY <1>5, <2>1, <2>2 DEF Overtaken
  <2>4. issued[n].key \in late' \union again'
    BY <2>3 DEF Store
  <2>5. QED
    BY <1>1, <1>5, <2>1, <2>4 DEF Excused, Newer
<1>8. QED
  BY <1>6, <1>7

LEMMA ListInOrder ==
  ASSUME TypeInv, Clock, InOrder, List, [Next]_vars
  PROVE  InOrder'
<1>1. issued' = issued /\ events' = events /\ cur' = cur /\ cur = 0
  BY DEF List, slackVars, tables, TypeInv, TypeOK, ErrorPhases
<1>2. \A i \in batch', j \in Pending \ batch' : Before(i, j)
  BY DEF List, IsListing
<1>3. SUFFICES ASSUME NEW i \in Known, NEW j \in Known, Overtakes(i, j)'
               PROVE  Excused(issued[i].key)'
  BY <1>1 DEF InOrder, Known
<1>4. Newer(i, j)
  BY <1>1, <1>3 DEF Overtakes, Newer
<1>5. Overtakes(i, j) \/ (i \in batch' /\ j \in Pending \ batch')
  BY <1>1, <1>3, <1>4, KeyFacts DEF Overtakes, Pending
<1>6. Excused(issued[i].key)
  BY <1>2, <1>4, <1>5, BeforeOlderIsTied DEF InOrder
<1>7. QED
  BY <1>1, <1>6, KeyFacts, ExcusedStays

LEMMA TakeInOrder ==
  ASSUME TypeInv, Clock, InOrder, NEW n \in Ids, Take(n), [Next]_vars
  PROVE  InOrder'
<1>1. /\ issued' = issued /\ events' = events /\ cur' = n /\ batch' = batch \ {n}
      /\ n \in batch /\ cur = 0
  BY DEF Take, slackVars, tables, TypeInv, TypeOK, ErrorPhases
<1>2. \A j \in batch \ {n} : Before(n, j)
  BY DEF Take
<1>3. SUFFICES ASSUME NEW i \in Known, NEW j \in Known, Overtakes(i, j)'
               PROVE  Excused(issued[i].key)'
  BY <1>1 DEF InOrder, Known
<1>4. Newer(i, j) /\ i # j
  BY <1>1, <1>3, KeyFacts DEF Overtakes, Newer, TypeInv, TypeOK, Event
<1>5. Overtakes(i, j) \/ (i = n /\ j \in batch \ {n})
  BY <1>1, <1>3, <1>4, KeyFacts, IdFacts DEF Overtakes
<1>6. Excused(issued[i].key)
  BY <1>2, <1>4, <1>5, BeforeOlderIsTied DEF InOrder
<1>7. QED
  BY <1>1, <1>6, KeyFacts, ExcusedStays

LEMMA NextInOrder == TypeInv /\ Clock /\ InOrder /\ [Next]_vars => InOrder'
<1> SUFFICES ASSUME TypeInv, Clock, InOrder, [Next]_vars PROVE InOrder'
  OBVIOUS
<1>1. ASSUME NEW k \in Keys, NEW n \in Ids, Change(k, n) PROVE InOrder'
  <2>1. /\ events' = events /\ batch' = batch /\ cur' = cur
        /\ events[n] = "none" /\ n # cur /\ n \notin batch
    BY <1>1, ChangeIssues DEF Change, tables, daemonVars, TypeInv, OnlyIssued, Listed
  <2>2. ASSUME NEW i \in Known', NEW j \in Known', Overtakes(i, j)'
        PROVE  i \in Known /\ j \in Known /\ Overtakes(i, j)
    BY <1>1, <2>1, <2>2, ChangeIssues DEF Overtakes, Newer
  <2>3. QED
    BY <1>1, <2>2, ChangeIssues, ExcusedStays, KeyFacts DEF InOrder
<1>2. ASSUME \/ Tick \/ StopReceiver \/ UNCHANGED vars
             \/ \E i \in Ids : Redeliver(i) \/ Acknowledge(i) \/ FailStore(i)
             \/ Apply \/ Append
             \/ \E w \in SUBSET Keys : Fetch(w)
             \/ \E k \in Keys : WriteFetched(k)
      PROVE  InOrder'
  <2>1. issued' = issued /\ events' = events /\ batch' = batch /\ cur' = cur
    BY <1>2 DEF vars, slackVars, tables, daemonVars, Tick, Redeliver, Acknowledge,
       FailStore, StopReceiver, Apply, Append, Fetch, WriteFetched
  <2>2. QED
    BY <2>1, NoNewOvertaking DEF Overtakes, Newer
<1>3. CASE Mark \/ Fail
  <2>1. /\ issued' = issued /\ batch' = batch /\ cur' = 0 /\ cur \in Known
        /\ \/ events' = [events EXCEPT ![cur] = "processed"]
           \/ events' = [events EXCEPT ![cur] = "error"]
    BY <1>3 DEF Mark, Fail, NextEvent, slackVars, TypeInv, TypeOK, ErrorPhases
  <2>2. events \in [Ids -> {"none", "pending", "processed", "error"}]
    BY DEF TypeInv, TypeOK
  <2>3. ASSUME NEW i \in Known, NEW j \in Known, Overtakes(i, j)'
        PROVE  Overtakes(i, j)
    BY <2>1, <2>2, <2>3, KeyFacts, IdFacts DEF Overtakes, Newer
  <2>4. QED
    BY <2>1, <2>3, NoNewOvertaking
<1>4. CASE StopDaemon
  <2>1. issued' = issued /\ events' = events /\ batch' = {} /\ cur' = 0
    BY <1>4 DEF StopDaemon, slackVars, tables
  <2>2. ASSUME NEW i \in Known, NEW j \in Known, Overtakes(i, j)'
        PROVE  Overtakes(i, j)
    BY <2>1, <2>2, KeyFacts, IdFacts DEF Overtakes, Newer
  <2>3. QED
    BY <2>1, <2>2, NoNewOvertaking
<1>5. QED
  BY <1>1, <1>2, <1>3, <1>4, StoreInOrder, ListInOrder, TakeInOrder DEF Next

-----------------------------------------------------------------------------
(* Events accounted for and journaled *)

LEMMA PipelineInitBooks == Init => Accounted /\ Journaled
BY DEF Init, Accounted, Journaled, Known

LEMMA NextAccounted == TypeInv /\ Accounted /\ [Next]_vars => Accounted'
<1> SUFFICES ASSUME TypeInv, Accounted, [Next]_vars PROVE Accounted'
  OBVIOUS
<1> USE DEF Accounted
<1>1. /\ wire \in [Ids -> Nat] /\ received \in [Ids -> Nat]
      /\ events \in [Ids -> {"none", "pending", "processed", "error"}]
      /\ Known \subseteq Ids
  BY DEF TypeInv, TypeOK
<1>2. ASSUME NEW k \in Keys, NEW n \in Ids, Change(k, n) PROVE Accounted'
  <2>1. Known' = Known \union {n}
    BY <1>2, ChangeIssues
  <2>2. /\ wire' = [wire EXCEPT ![n] = 1] /\ received' = received
        /\ events' = events /\ lost' = lost
    BY <1>2 DEF Change, tables, history
  <2>3. QED
    BY <1>1, <2>1, <2>2
<1>3. ASSUME NEW n \in Ids, Redeliver(n) \/ Acknowledge(n) PROVE Accounted'
  BY <1>1, <1>3 DEF Redeliver, Acknowledge, slackVars, tables, history, Known
<1>4. ASSUME NEW n \in Ids, Store(n) \/ FailStore(n) PROVE Accounted'
  BY <1>1, <1>4 DEF Store, FailStore, InsertedStatus, slackVars, tables, Known
<1>5. CASE StopReceiver
  BY <1>1, <1>5 DEF StopReceiver, slackVars, tables, Known
<1>6. ASSUME \/ Tick \/ List \/ Append \/ StopDaemon \/ UNCHANGED vars
             \/ \E i \in Ids : Take(i)
             \/ \E w \in SUBSET Keys : Fetch(w)
             \/ \E k \in Keys : WriteFetched(k)
      PROVE  Accounted'
  <2>1. /\ issued' = issued /\ wire' = wire /\ received' = received
        /\ events' = events /\ lost' = lost
    BY <1>6 DEF Tick, List, Append, StopDaemon, Take, Fetch, WriteFetched, vars,
       slackVars, tables, history
  <2>2. QED
    BY <2>1 DEF Known
<1>7. CASE Apply \/ Mark \/ Fail
  <2>1. events[cur] = "pending" /\ cur \in Ids
    BY <1>7 DEF Apply, Mark, Fail, TypeInv, TypeOK, Listed, ErrorPhases
  <2>2. QED
    BY <1>1, <1>7, <2>1 DEF Apply, Mark, Fail, slackVars, history, Known
<1>8. QED
  BY <1>2, <1>3, <1>4, <1>5, <1>6, <1>7 DEF Next

LEMMA NextJournaled == TypeInv /\ Journaled /\ [Next]_vars => Journaled'
<1> SUFFICES ASSUME TypeInv, Journaled, [Next]_vars PROVE Journaled'
  OBVIOUS
<1> USE DEF Journaled
<1>1. /\ journal \in [Ids -> Nat \union {Never}] /\ now \in Nat /\ Never \notin Nat
      /\ events \in [Ids -> {"none", "pending", "processed", "error"}]
      /\ Known \subseteq Ids
  BY PipelineAssumption DEF TypeInv, TypeOK
<1>2. ASSUME NEW k \in Keys, NEW n \in Ids, Change(k, n) PROVE Journaled'
  <2>1. Known' = Known \union {n} /\ n \notin Known
    BY <1>2, ChangeIssues
  <2>2. events' = events /\ journal' = journal /\ phase' = phase /\ cur' = cur
    BY <1>2 DEF Change, tables, daemonVars
  <2>3. QED
    BY <1>1, <2>1, <2>2 DEF TypeInv, OnlyIssued
<1>3. ASSUME NEW n \in Ids, Store(n) PROVE Journaled'
  BY <1>1, <1>3 DEF Store, InsertedStatus, slackVars, daemonVars, Known
<1>4. ASSUME \/ Tick \/ StopReceiver \/ List \/ Apply \/ StopDaemon \/ UNCHANGED vars
             \/ \E i \in Ids : \/ Redeliver(i) \/ Acknowledge(i) \/ FailStore(i)
                               \/ Take(i)
             \/ \E w \in SUBSET Keys : Fetch(w)
             \/ \E k \in Keys : WriteFetched(k)
      PROVE  Journaled'
  <2>1. /\ issued' = issued /\ events' = events /\ journal' = journal
        /\ phase' # "mark" \/ (phase' = phase /\ cur' = cur)
    BY <1>4 DEF Tick, StopReceiver, List, Apply, StopDaemon, Redeliver, Acknowledge,
       FailStore, Take, Fetch, WriteFetched, vars, slackVars, tables, daemonVars
  <2>2. QED
    BY <2>1 DEF Known
<1>5. CASE Append
  <2>1. cur \in Ids
    BY <1>5 DEF Append, TypeInv, TypeOK, ErrorPhases
  <2>2. QED
    BY <1>1, <1>5, <2>1 DEF Append, RecordedAt, slackVars, Known
<1>6. CASE Mark \/ Fail
  <2>1. phase' # "mark" /\ issued' = issued /\ journal' = journal /\ cur \in Ids
    BY <1>6 DEF Mark, Fail, NextEvent, slackVars, TypeInv, TypeOK, ErrorPhases
  <2>2. QED
    BY <1>1, <1>6, <2>1 DEF Mark, Fail, Known
<1>7. QED
  BY <1>2, <1>3, <1>4, <1>5, <1>6 DEF Next

-----------------------------------------------------------------------------
(* Rows and pages keep up with what is done *)

Kept == RowsKeepUp /\ PagesKeepUp

LEMMA PipelineInitKept == Init => Kept /\ RowsBehindSlack
BY DEF Init, Kept, RowsKeepUp, PagesKeepUp, RowsBehindSlack, NoPage, Known

(* A step that leaves rows and pages alone and completes nothing.          *)
LEMMA NothingDone ==
  ASSUME TypeInv, Kept, [Next]_vars, issued' = issued, rows' = rows, page' = page,
         phase = "reconcile" => phase' = "reconcile",
         \A i \in Known : Done(i)' => Done(i)
  PROVE  Kept'
<1>1. \A k \in Keys : Excused(k) => Excused(k)'
  BY ExcusedStays
<1>2. QED
  BY <1>1, KeyFacts DEF Kept, RowsKeepUp, PagesKeepUp, Known

LEMMA ApplyKept ==
  ASSUME TypeInv, InOrder, Kept, Apply, [Next]_vars
  PROVE  Kept'
<1>1. /\ issued' = issued /\ events' = events /\ cur' = cur /\ page' = page
      /\ phase = "apply" /\ phase' = "journal" /\ cur \in Known
      /\ events[cur] = "pending" /\ lost' = lost \ {cur}
      /\ rows' = [rows EXCEPT ![issued[cur].key] = issued[cur].version]
  BY DEF Apply, slackVars, TypeInv, TypeOK, Listed, ErrorPhases
<1>2. page \in [Keys -> Nat] /\ rows \in [Keys -> Nat]
      /\ \A i \in Known : issued[i].version \in Nat
  BY DEF TypeInv, TypeOK, Event
<1>3. \A k \in Keys : Excused(k) => Excused(k)'
  BY ExcusedStays
<1>4. ASSUME NEW i \in Known, Done(i)'
      PROVE  rows'[issued[i].key] >= issued[i].version \/ Excused(issued[i].key)
  <2>1. CASE issued[i].key # issued[cur].key
    BY <1>1, <1>2, <1>4, <2>1, KeyFacts DEF Kept, RowsKeepUp, Done
  <2>2. CASE issued[i].key = issued[cur].key /\ issued[i].version <= issued[cur].version
    BY <1>1, <1>2, <2>2, KeyFacts
  <2>3. CASE issued[i].key = issued[cur].key /\ issued[i].version > issued[cur].version
    <3>1. i # cur
      BY <1>2, <2>3
    <3>2. Overtakes(i, cur)
      BY <1>1, <1>4, <2>3, <3>1 DEF Done, Overtakes, Newer
    <3>3. QED
      BY <1>1, <3>2 DEF InOrder
  <2>4. QED
    BY <1>1, <1>2, <2>1, <2>2, <2>3
<1>5. RowsKeepUp'
  BY <1>1, <1>3, <1>4, KeyFacts DEF RowsKeepUp, Known
<1>6. PagesKeepUp'
  BY <1>1, <1>2, KeyFacts DEF Kept, PagesKeepUp, Known
<1>7. QED
  BY <1>5, <1>6 DEF Kept

LEMMA ReconcileKept ==
  ASSUME TypeInv, Clock, Kept, [Next]_vars,
         \/ \E w \in SUBSET Keys : Fetch(w)
         \/ \E k \in Keys : WriteFetched(k)
  PROVE  Kept'
<1>1. /\ issued' = issued /\ events' = events /\ cur' = cur /\ lost' = lost
      /\ phase \notin {"journal", "mark"} /\ phase' \notin {"journal", "mark"}
  BY DEF Fetch, WriteFetched, slackVars, tables, history
<1>2. page \in [Keys -> Nat] /\ rows \in [Keys -> Nat] /\ slack \in [Keys -> Nat]
      /\ \A i \in Known : issued[i].version \in Nat
  BY DEF TypeInv, TypeOK, Event
<1>3. \A k \in Keys : Excused(k) => Excused(k)'
  BY ExcusedStays
<1>4. \A i \in Known : Done(i)' => Done(i)
  BY <1>1 DEF Done
<1>5. ASSUME NEW w \in SUBSET Keys, Fetch(w) PROVE Kept'
  <2>1. rows' = rows /\ phase' = "reconcile"
        /\ page' = [k \in Keys |-> IF k \in w THEN slack[k] ELSE 0]
    BY <1>5 DEF Fetch, tables
  <2>2. RowsKeepUp'
    BY <1>1, <1>3, <1>4, <2>1, KeyFacts DEF Kept, RowsKeepUp, Known
  <2>3. PagesKeepUp'
    BY <1>1, <1>2, <2>1, KeyFacts DEF Clock, PagesKeepUp, Known
  <2>4. QED
    BY <2>2, <2>3 DEF Kept
<1>6. ASSUME NEW k \in Keys, WriteFetched(k) PROVE Kept'
  <2>1. /\ phase = "reconcile" /\ page[k] > 0
        /\ rows' = [rows EXCEPT ![k] = page[k]] /\ page' = [page EXCEPT ![k] = 0]
        /\ phase' = phase \/ \A j \in Keys \ {k} : page[j] = 0
    BY <1>6 DEF WriteFetched
  <2>2. RowsKeepUp'
    BY <1>1, <1>2, <1>3, <1>4, <2>1, KeyFacts DEF Kept, RowsKeepUp, PagesKeepUp, Known
  <2>3. PagesKeepUp'
    BY <1>1, <1>2, <1>4, <2>1, KeyFacts DEF Kept, PagesKeepUp, Known
  <2>4. QED
    BY <2>2, <2>3 DEF Kept
<1>7. QED
  BY <1>5, <1>6

LEMMA NextKept ==
  TypeInv /\ Clock /\ InOrder /\ Kept /\ [Next]_vars => Kept'
<1> SUFFICES ASSUME TypeInv, Clock, InOrder, Kept, [Next]_vars PROVE Kept'
  OBVIOUS
<1>1. events \in [Ids -> {"none", "pending", "processed", "error"}] /\ Known \subseteq Ids
  BY DEF TypeInv, TypeOK
<1>2. ASSUME NEW k \in Keys, NEW n \in Ids, Change(k, n) PROVE Kept'
  <2>1. /\ events' = events /\ rows' = rows /\ page' = page /\ lost' = lost
        /\ cur' = cur /\ phase' = phase
    BY <1>2 DEF Change, tables, daemonVars, history
  <2>2. /\ Known' = Known \union {n} /\ n \notin Known
        /\ \A i \in Known : issued'[i] = issued[i]
    BY <1>2, ChangeIssues
  <2>3. n # cur /\ events[n] = "none"
    BY <1>2, <2>2 DEF TypeInv, OnlyIssued, Listed
  <2>4. \A i \in Known' : Done(i)' => i \in Known /\ Done(i)
    BY <2>1, <2>2, <2>3 DEF Done
  <2>5. \A l \in Keys : Excused(l) => Excused(l)'
    BY ExcusedStays
  <2>6. RowsKeepUp'
    BY <2>1, <2>2, <2>4, <2>5, KeyFacts DEF Kept, RowsKeepUp
  <2>7. PagesKeepUp'
    BY <2>1, <2>2, <2>4, KeyFacts DEF Kept, PagesKeepUp
  <2>8. QED
    BY <2>6, <2>7 DEF Kept
<1>3. ASSUME \/ Tick \/ StopReceiver \/ UNCHANGED vars
             \/ \E i \in Ids : Redeliver(i) \/ Acknowledge(i) \/ FailStore(i)
      PROVE  Kept'
  <2>1. /\ issued' = issued /\ events' = events /\ rows' = rows /\ page' = page
        /\ lost \subseteq lost' /\ cur' = cur /\ phase' = phase
    BY <1>3 DEF Tick, StopReceiver, Redeliver, Acknowledge, FailStore, vars, slackVars,
       tables, daemonVars, history
  <2>2. QED
    BY <2>1, NothingDone DEF Done
<1>4. ASSUME NEW n \in Ids, Store(n) PROVE Kept'
  <2>1. /\ issued' = issued /\ events' = [events EXCEPT ![n] = "pending"]
        /\ rows' = rows /\ page' = page /\ lost' = lost /\ cur' = cur /\ phase' = phase
    BY <1>4 DEF Store, InsertedStatus, slackVars, daemonVars
  <2>2. \A i \in Known : Done(i)' => Done(i)
    BY <1>1, <2>1 DEF Done
  <2>3. QED
    BY <2>1, <2>2, NothingDone
<1>5. ASSUME List \/ Append \/ \E i \in Ids : Take(i)
      PROVE  Kept'
  <2>1. /\ issued' = issued /\ events' = events /\ rows' = rows /\ page' = page
        /\ lost' = lost /\ phase # "reconcile"
        /\ phase' \in {"batch", "apply"} \/ (cur' = cur /\ phase = "journal")
    BY <1>5 DEF List, Append, Take, slackVars, tables, history
  <2>2. QED
    BY <2>1, NothingDone DEF Done
<1>6. CASE Mark \/ Fail
  <2>1. /\ issued' = issued /\ rows' = rows /\ page' = page
        /\ phase # "reconcile" /\ phase' \in {"idle", "batch"} /\ cur \in Known
        /\ \/ /\ events' = [events EXCEPT ![cur] = "processed"]
              /\ lost' = lost /\ phase = "mark"
           \/ /\ events' = [events EXCEPT ![cur] = "error"]
              /\ lost' = IF phase = "apply" THEN lost \union {cur} ELSE lost
              /\ phase \in {"apply", "journal", "mark"}
    BY <1>6 DEF Mark, Fail, NextEvent, slackVars, history, ErrorPhases, TypeInv, TypeOK
  <2>2. \A i \in Known : Done(i)' => Done(i)
    BY <1>1, <2>1 DEF Done
  <2>3. QED
    BY <2>1, <2>2, NothingDone
<1>7. CASE StopDaemon
  <2>1. /\ issued' = issued /\ events' = events /\ rows' = rows /\ lost' = lost
        /\ phase' = "idle" /\ page' = NoPage
    BY <1>7 DEF StopDaemon, slackVars, tables, history
  <2>2. \A k \in Keys : Excused(k) => Excused(k)'
    BY ExcusedStays
  <2>3. RowsKeepUp'
    BY <2>1, <2>2, KeyFacts DEF Kept, RowsKeepUp, Done, Known
  <2>4. PagesKeepUp'
    BY <2>1, KeyFacts DEF PagesKeepUp, NoPage, Known
  <2>5. QED
    BY <2>3, <2>4 DEF Kept
<1>8. QED
  BY <1>2, <1>3, <1>4, <1>5, <1>6, <1>7, ApplyKept, ReconcileKept DEF Next

LEMMA NextBehindSlack ==
  TypeInv /\ Clock /\ RowsBehindSlack /\ [Next]_vars => RowsBehindSlack'
<1> SUFFICES ASSUME TypeInv, Clock, RowsBehindSlack, [Next]_vars
             PROVE  RowsBehindSlack'
  OBVIOUS
<1> USE DEF RowsBehindSlack
<1>1. slack \in [Keys -> Nat] /\ rows \in [Keys -> Nat] /\ page \in [Keys -> Nat]
  BY DEF TypeInv, TypeOK
<1>2. ASSUME NEW k \in Keys, NEW n \in Ids, Change(k, n) PROVE RowsBehindSlack'
  BY <1>1, <1>2 DEF Change, tables, daemonVars
<1>3. CASE Apply
  <2>1. issued[cur].key \in Keys /\ issued[cur].version <= slack[issued[cur].key]
    BY <1>3, KeyFacts DEF Apply, Clock, TypeInv, TypeOK, ErrorPhases
  <2>2. QED
    BY <1>1, <1>3, <2>1 DEF Apply, slackVars
<1>4. ASSUME NEW w \in SUBSET Keys, Fetch(w) PROVE RowsBehindSlack'
  BY <1>1, <1>4 DEF Fetch, slackVars, tables
<1>5. ASSUME NEW k \in Keys, WriteFetched(k) PROVE RowsBehindSlack'
  BY <1>1, <1>5 DEF WriteFetched, slackVars
<1>6. CASE StopDaemon
  BY <1>1, <1>6 DEF StopDaemon, NoPage, slackVars, tables
<1>7. ASSUME \/ Tick \/ StopReceiver \/ List \/ Append \/ Mark \/ Fail \/ UNCHANGED vars
             \/ \E i \in Ids : \/ Redeliver(i) \/ Acknowledge(i) \/ Store(i)
                               \/ FailStore(i) \/ Take(i)
      PROVE  RowsBehindSlack'
  <2>1. slack' = slack /\ rows' = rows /\ page' = page
    BY <1>7 DEF Tick, StopReceiver, List, Append, Mark, Fail, Redeliver, Acknowledge,
       Store, FailStore, Take, vars, slackVars, tables, daemonVars
  <2>2. QED
    BY <2>1
<1>8. QED
  BY <1>2, <1>3, <1>4, <1>5, <1>6, <1>7 DEF Next

-----------------------------------------------------------------------------
(* The theorems *)

PipelineInv ==
    /\ TypeInv /\ Clock /\ Accounted /\ Journaled /\ InOrder
    /\ Kept /\ RowsBehindSlack

LEMMA PipelineInvHolds == Spec => []PipelineInv
<1>1. Init => PipelineInv
  BY PipelineInitType, PipelineInitClock, PipelineInitBooks, PipelineInitOrder,
     PipelineInitKept DEF PipelineInv
<1>2. PipelineInv /\ [Next]_vars => PipelineInv'
  BY PipelineNextType, ClockStep, NextAccounted, NextJournaled, NextInOrder, NextKept,
     NextBehindSlack DEF PipelineInv
<1>3. QED
  BY <1>1, <1>2, PTL DEF Spec

(* What a processed event did stays done, for any number of messages and   *)
(* events, through kills, errors and reconcile passes: unless events of    *)
(* its message were stored out of order or share a second                  *)
(* (process_pending_events, insert_event, backfill_messages).              *)
THEOREM ProcessedEventsStay == Spec => []ProcessedStays
<1>1. PipelineInv => ProcessedStays
  <2> SUFFICES ASSUME PipelineInv, NEW i \in Known, events[i] = "processed"
               PROVE  /\ journal[i] # Never
                      /\ \/ rows[issued[i].key] >= issued[i].version
                         \/ issued[i].key \in late \union again
                         \/ Tied(issued[i].key)
    BY DEF ProcessedStays
  <2>1. journal[i] # Never
    BY DEF PipelineInv, Journaled
  <2>2. rows[issued[i].key] >= issued[i].version \/ Excused(issued[i].key)
    BY DEF PipelineInv, Kept, RowsKeepUp, Done
  <2>3. QED
    BY <2>1, <2>2 DEF Excused
<1>2. QED
  BY <1>1, PipelineInvHolds, PTL

(* A message nothing is under way for reads as at Slack, for any number of *)
(* messages and events: unless its last event was lost, or its events were *)
(* stored out of order or share a second.                                  *)
THEOREM QuietMessagesConverge == Spec => []Converges
<1>1. PipelineInv => Converges
  <2> SUFFICES ASSUME PipelineInv, NEW k \in Keys, Settled(k), ~Excused(k),
                      ~LostLatest(k)
               PROVE  rows[k] = slack[k]
    BY DEF Converges, Excused
  <2>1. /\ rows[k] \in Nat /\ slack[k] \in Nat /\ rows[k] <= slack[k]
    BY DEF PipelineInv, TypeInv, TypeOK, RowsBehindSlack
  <2>2. CASE slack[k] = 0
    BY <2>1, <2>2
  <2>3. CASE slack[k] > 0
    <3>1. PICK i \in Known : issued[i].key = k /\ issued[i].version = slack[k]
      BY <2>3 DEF PipelineInv, Clock
    <3>2. i \notin lost
      BY <3>1 DEF LostLatest
    <3>3. /\ i \in Ids /\ wire[i] = 0 /\ received[i] = 0 /\ events[i] # "pending"
          /\ events[i] \in {"none", "pending", "processed", "error"}
      BY <3>1 DEF Settled, PipelineInv, TypeInv, TypeOK
    <3>4. events[i] # "none"
      BY <3>2, <3>3 DEF PipelineInv, Accounted
    <3>5. Done(i)
      BY <3>2, <3>3, <3>4 DEF Done
    <3>6. rows[k] >= slack[k]
      BY <3>1, <3>5 DEF PipelineInv, Kept, RowsKeepUp
    <3>7. QED
      BY <2>1, <3>6
  <2>4. QED
    BY <2>1, <2>2, <2>3
<1>2. QED
  BY <1>1, PipelineInvHolds, PTL
=============================================================================
