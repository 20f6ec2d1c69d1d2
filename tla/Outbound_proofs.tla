--------------------------- MODULE Outbound_proofs ---------------------------
(***************************************************************************)
(* Proofs about Outbound, for any number of callers, keys and listeners:   *)
(* type correctness, one message per key unless requests with it overlap   *)
(* (SentOnceIfAlone), outcomes that say what happened (OutcomeAgrees), and *)
(* deliveries of what was sent to those still registered                   *)
(* (DeliveriesStand).                                                      *)
(*                                                                         *)
(* None is inductive alone.  Keyed says where a request with a key of its  *)
(* own stands between finding no action with it and posting; OnItsWay what *)
(* the table, the journal and Slack say of an action at every step of the  *)
(* one request that works on it (Handled); Announced that a request which  *)
(* reads the listeners has journaled its message.                          *)
(***************************************************************************)
EXTENDS Outbound, TLAPS, SequenceTheorems

(* A request under way has its parameters, and from its insert on a row.   *)
Equipped ==
    \A c \in Callers :
        /\ Busy(c) => req[c] \in Request
        /\ pc[c] \in {"idle", "look", "insert"} => row[c] = 0
        /\ pc[c] \notin {"idle", "look", "insert"} => row[c] \in Ids

TypeInv == TypeOK /\ Equipped

(* Of a key no two requests were under way with: who has it, whether there *)
(* is an action with it, and whether Slack has a message.                  *)
PostedWith(k) == \E n \in DOMAIN posts : posts[n].key = k

Keyed ==
    \A k \in Keys \ together :
        /\ PostedWith(k) => With(k) # {}
        /\ \A c \in Callers : Busy(c) /\ req[c].key = k =>
             /\ \A d \in Callers : Busy(d) /\ req[d].key = k => d = c
             /\ With(k) = {} <=> pc[c] \in {"look", "insert"}
             /\ pc[c] \in {"pick", "post"} => ~PostedWith(k)

(* What is known of action i while c works on it.                          *)
PostedFor(i) == \E n \in DOMAIN posts : posts[n].id = i

Journaled(o, i) == <<o, i>> \in journal

OnItsWay(c, i) ==
    /\ pc[c] \in {"pick", "post", "finish", "fail"} <=> actions[i].status = "pending"
    /\ pc[c] \in {"journal", "listeners", "queue"} <=> actions[i].status = "sent"
    /\ Journaled("sent", i) <=> pc[c] \in {"listeners", "queue"}
    /\ ~Journaled("failed", i)
    /\ PostedFor(i) <=> pc[c] \in {"finish", "journal", "listeners", "queue"}

(* Actions that none of the exceptions of OutcomeAgrees is about.          *)
Own(i) == i \in Ids \ (shared \union left \union troubled)

Settled(i) ==
    /\ actions[i].status \in {"sent", "failed"}
    /\ \A o \in {"sent", "failed"} : Journaled(o, i) <=> actions[i].status = o
    /\ PostedFor(i) <=> actions[i].status = "sent"

(* One request works on it, or it is settled.                              *)
Handled(i) ==
    \/ \E c \in Callers : /\ row[c] = i /\ OnItsWay(c, i)
                         /\ \A d \in Callers : row[d] = i => d = c
    \/ (\A c \in Callers : row[c] # i) /\ Settled(i)

AllHandled == \A i \in Ids : Own(i) => Handled(i)

Announced ==
    \A c \in Callers : pc[c] \in {"listeners", "queue"} => Journaled("sent", row[c])

CallerStep(c) ==
    \/ \E r \in Request : Start(c, r)
    \/ Look(c) \/ Insert(c) \/ (\E i \in Ids : Pick(c, i)) \/ PickNothing(c)
    \/ Post(c) \/ PostRaises(c)
    \/ FinishSent(c) \/ JournalSent(c) \/ ReadListeners(c) \/ Queue(c)
    \/ StepRaises(c) \/ FinishFailed(c) \/ JournalFailed(c)
    \/ Kill(c)

ListenerStep == Register \/ \E l \in listeners : Unregister(l)

LEMMA NextCases ==
    ASSUME [Next]_vars
    PROVE  \/ \E c \in Callers : CallerStep(c)
           \/ ListenerStep
           \/ UNCHANGED vars
BY DEF Next, CallerStep, ListenerStep

-----------------------------------------------------------------------------
(* Type correctness *)

Places == {"idle", "look", "insert", "pick", "post", "finish", "journal",
           "listeners", "queue", "fail", "journalFailed"}

Usage == [requests : Nat, faults : Nat, kills : Nat, moves : Nat]

LEMMA UsageFacts ==
    ASSUME NEW u \in Usage
    PROVE  /\ [u EXCEPT !.requests = @ + 1] \in Usage
           /\ [u EXCEPT !.faults = @ + 1] \in Usage
           /\ [u EXCEPT !.kills = @ + 1] \in Usage
           /\ [u EXCEPT !.moves = @ + 1] \in Usage
BY DEF Usage

LEMMA ActionFacts ==
    ASSUME TypeOK
    PROVE  /\ Ids = 1 .. Len(actions) /\ Len(actions) \in Nat
           /\ \A i \in Ids : actions[i] \in Action
           /\ 0 \notin Ids
BY DEF TypeOK, Ids

LEMMA InitTypeInv == Init => TypeInv
<1> SUFFICES ASSUME Init PROVE TypeInv
  OBVIOUS
<1>1. Ids = {} /\ posts \in Seq([id : Ids, key : Keys \union {NoKey}])
  BY DEF Init, Ids
<1>2. TypeOK
  BY <1>1 DEF Init, TypeOK
<1>3. Equipped
  BY DEF Init, Equipped, Busy
<1> QED BY <1>2, <1>3 DEF TypeInv

(* The parts of TypeInv that a step of c leaves to show when it changes no *)
(* table but in what it appends to or marks.                               *)
LEMMA CallerFrame ==
    ASSUME TypeInv, NEW c \in Callers, NEW place \in Places,
           NEW r \in Request \union {None}, NEW i \in Ids' \union {0}, NEW a \in SUBSET Listeners,
           pc' = [pc EXCEPT ![c] = place], req' = [req EXCEPT ![c] = r],
           row' = [row EXCEPT ![c] = i], audience' = [audience EXCEPT ![c] = a],
           place # "idle" => r \in Request,
           place \in {"idle", "look", "insert"} <=> i = 0,
           actions' \in Seq(Action), Ids \subseteq Ids', 0 \notin Ids',
           journal' \subseteq {"sent", "failed"} \X Ids', listeners' \subseteq Listeners,
           deliveries' \subseteq Listeners \X Ids',
           posts' \in Seq([id : Ids', key : Keys \union {NoKey}]),
           used' \in Usage,
           shared' \subseteq Ids', left' \subseteq Ids', troubled' \subseteq Ids',
           together' \subseteq Keys
    PROVE  TypeInv'
<1> USE DEF TypeInv, TypeOK
<1>1. /\ pc' \in [Callers -> Places]
      /\ req' \in [Callers -> Request \union {None}]
      /\ row' \in [Callers -> Ids' \union {0}]
      /\ audience' \in [Callers -> SUBSET Listeners]
  BY DEF Places
<1>2. TypeOK'
  BY <1>1 DEF Places, Usage, Listeners
<1>3. Equipped'
  <2> SUFFICES ASSUME NEW d \in Callers
               PROVE  /\ Busy(d)' => req'[d] \in Request
                      /\ pc'[d] \in {"idle", "look", "insert"} => row'[d] = 0
                      /\ pc'[d] \notin {"idle", "look", "insert"} => row'[d] \in Ids'
    BY DEF Equipped
  <2>1. CASE d = c
    BY <2>1 DEF Busy
  <2>2. CASE d # c
    BY <2>2 DEF Equipped, Busy
  <2> QED BY <2>1, <2>2
<1> QED BY <1>2, <1>3

(* The end of a request, however it ends.                                  *)
LEMMA ReturnKeepsTypes ==
    ASSUME TypeInv, NEW c \in Callers, Return(c), actions' = actions,
           journal' \subseteq {"sent", "failed"} \X Ids, listeners' \subseteq Listeners,
           deliveries' \subseteq Listeners \X Ids, posts' = posts, used' \in Usage,
           shared' \subseteq Ids, left' \subseteq Ids, troubled' \subseteq Ids,
           together' \subseteq Keys
    PROVE  TypeInv'
<1>1. Ids' = Ids /\ posts' \in Seq([id : Ids', key : Keys \union {NoKey}])
  BY DEF TypeInv, TypeOK, Ids
<1>2. /\ pc' = [pc EXCEPT ![c] = "idle"] /\ req' = [req EXCEPT ![c] = None]
      /\ row' = [row EXCEPT ![c] = 0] /\ audience' = [audience EXCEPT ![c] = {}]
  BY DEF Return, Goto
<1>3. "idle" \in Places /\ {} \in SUBSET Listeners /\ 0 \in Ids' \union {0} /\ 0 \notin Ids'
  BY <1>1, ActionFacts DEF TypeInv, Places
<1>4. actions' \in Seq(Action)
  BY DEF TypeInv, TypeOK
<1> QED BY <1>1, <1>2, <1>3, <1>4, CallerFrame

(* A step within a request that leaves its parameters and actions alone.   *)
LEMMA StepKeepsTypes ==
    ASSUME TypeInv, NEW c \in Callers, NEW place \in Places \ {"idle"}, Busy(c),
           pc' = [pc EXCEPT ![c] = place], UNCHANGED <<req, actions, listeners>>,
           NEW i \in Ids \union {0}, row' = [row EXCEPT ![c] = i],
           place \in {"look", "insert"} <=> i = 0,
           \/ audience' = audience
           \/ audience' = [audience EXCEPT ![c] = listeners],
           journal' \subseteq {"sent", "failed"} \X Ids,
           deliveries' \subseteq Listeners \X Ids,
           posts' \in Seq([id : Ids, key : Keys \union {NoKey}]), used' \in Usage,
           shared' \subseteq Ids, left' \subseteq Ids, troubled' \subseteq Ids,
           together' \subseteq Keys
    PROVE  TypeInv'
<1>1. Ids' = Ids /\ 0 \notin Ids
  BY ActionFacts DEF TypeInv, Ids
<1>2. /\ req' = [req EXCEPT ![c] = req[c]] /\ req[c] \in Request
      /\ actions' \in Seq(Action) /\ listeners' \subseteq Listeners
  BY DEF TypeInv, TypeOK, Equipped
<1>3. PICK a \in SUBSET Listeners : audience' = [audience EXCEPT ![c] = a]
  <2>1. audience = [audience EXCEPT ![c] = audience[c]]
    BY DEF TypeInv, TypeOK
  <2>2. audience[c] \in SUBSET Listeners /\ listeners \in SUBSET Listeners
    BY DEF TypeInv, TypeOK
  <2> QED BY <2>1, <2>2
<1> QED BY <1>1, <1>2, <1>3, CallerFrame

LEMMA SearchKeepsTypes ==
    ASSUME TypeInv, NEW c \in Callers
    PROVE  /\ \A r \in Request : Start(c, r) => TypeInv'
           /\ Look(c) => TypeInv'
           /\ Insert(c) => TypeInv'
           /\ \A i \in Ids : Pick(c, i) => TypeInv'
           /\ PickNothing(c) => TypeInv'
<1> USE DEF TypeInv
<1>0. /\ TypeOK /\ Equipped /\ used \in Usage /\ 0 \notin Ids
      /\ row = [row EXCEPT ![c] = row[c]]
  BY ActionFacts DEF TypeOK, Usage
<1>1. ASSUME NEW r \in Request, Start(c, r) PROVE TypeInv'
  <2>1. used' \in Usage
    BY <1>0, <1>1, UsageFacts DEF Start
  <2>2. CASE Replays(r.key)
    BY <1>0, <1>1, <2>1, <2>2
       DEF Start, TypeOK, Equipped, Busy, callers, tables, Ids, Usage, Request
  <2>3. CASE ~Replays(r.key)
    <3>1. /\ pc' = [pc EXCEPT ![c] = "look"] /\ req' = [req EXCEPT ![c] = r]
          /\ UNCHANGED <<row, audience, actions, journal, listeners, deliveries, posts,
                         shared, left, troubled>>
          /\ ~Busy(c)
      BY <1>1, <2>3 DEF Start, Goto, tables
    <3>2. together' \subseteq Keys
      BY <1>0, <1>1, <2>3 DEF Start, TypeOK, Request
    <3>3. row' = [row EXCEPT ![c] = 0] /\ audience' = [audience EXCEPT ![c] = audience[c]]
      BY <1>0, <3>1 DEF Equipped, Busy, TypeOK
    <3>4. "look" \in Places /\ audience[c] \in SUBSET Listeners
      BY <1>0 DEF Places, TypeOK
    <3>5. Ids' = Ids
      BY <3>1 DEF Ids
    <3> QED BY <1>0, <2>1, <3>1, <3>2, <3>3, <3>4, <3>5, CallerFrame DEF TypeOK
  <2> QED BY <2>2, <2>3
<1>2. ASSUME Look(c) PROVE TypeInv'
  <2>1. /\ pc[c] = "look" /\ row[c] = 0
        /\ UNCHANGED <<actions, journal, listeners, deliveries, posts, used, left,
                       troubled, together>>
    BY <1>0, <1>2 DEF Look, tables, Equipped
  <2>2. CASE With(req[c].key) = {}
    <3>1. pc' = [pc EXCEPT ![c] = "insert"] /\ UNCHANGED <<req, row, audience, shared>>
      BY <1>2, <2>2 DEF Look, Goto
    <3>2. "insert" \in Places \ {"idle"} /\ row' = [row EXCEPT ![c] = 0] /\ Busy(c)
      BY <1>0, <2>1, <3>1 DEF Places, Busy
    <3> QED BY <1>0, <2>1, <3>1, <3>2, StepKeepsTypes DEF TypeOK
  <2>3. ASSUME NEW i \in With(req[c].key), actions[i].status = "pending",
               pc' = [pc EXCEPT ![c] = "post"], row' = [row EXCEPT ![c] = i],
               shared' = shared \union {i}, UNCHANGED <<req, audience>>
        PROVE  TypeInv'
    <3>1. i \in Ids /\ i # 0
      BY <1>0 DEF With
    <3>2. "post" \in Places \ {"idle"} /\ Busy(c) /\ shared' \subseteq Ids
      BY <1>0, <2>1, <2>3, <3>1 DEF Places, Busy, TypeOK
    <3> QED BY <1>0, <2>1, <2>3, <3>1, <3>2, StepKeepsTypes DEF TypeOK
  <2>4. ASSUME Return(c), UNCHANGED shared PROVE TypeInv'
    BY <1>0, <2>1, <2>4, ReturnKeepsTypes DEF TypeOK
  <2> QED BY <1>2, <2>2, <2>3, <2>4 DEF Look, Goto
<1>3. ASSUME Insert(c) PROVE TypeInv'
  <2>1. /\ pc[c] = "insert" /\ row[c] = 0 /\ req[c] \in Request
        /\ UNCHANGED <<journal, listeners, deliveries, posts, used, shared, left,
                       troubled, together>>
    BY <1>0, <1>3 DEF Insert, Equipped, history, Busy
  <2>2. CASE With(req[c].key) # {}
    BY <1>0, <1>3, <2>1, <2>2, ReturnKeepsTypes DEF Insert, TypeOK
  <2>3. CASE With(req[c].key) = {}
    <3>1. [key |-> req[c].key, target |-> req[c].target, status |-> "pending"] \in Action
      BY <2>1 DEF Request, Action
    <3>2. /\ actions' \in Seq(Action) /\ Ids' = Ids \union {Len(actions) + 1}
          /\ 0 \notin Ids'
      <4>1. /\ actions' = Append(actions, [key |-> req[c].key, target |-> req[c].target,
                                           status |-> "pending"])
            /\ actions \in Seq(Action)
        BY <1>0, <1>3, <2>3 DEF Insert, TypeOK
      <4>2. actions' \in Seq(Action) /\ Len(actions') = Len(actions) + 1
        BY <3>1, <4>1
      <4>3. Ids' = 1 .. Len(actions')
        BY <4>2 DEF Ids
      <4> QED BY <1>0, <4>2, <4>3, ActionFacts
    <3>3. /\ pc' = [pc EXCEPT ![c] = "pick"] /\ row' = [row EXCEPT ![c] = Len(actions) + 1]
          /\ req' = [req EXCEPT ![c] = req[c]] /\ audience' = [audience EXCEPT ![c] = audience[c]]
      BY <1>0, <1>3, <2>3 DEF Insert, Goto, TypeOK
    <3>4. "pick" \in Places /\ audience[c] \in SUBSET Listeners
      BY <1>0 DEF Places, TypeOK
    <3>5. posts' \in Seq([id : Ids', key : Keys \union {NoKey}])
      <4>1. [id : Ids, key : Keys \union {NoKey}] \subseteq [id : Ids', key : Keys \union {NoKey}]
        BY <3>2
      <4>2. posts' \in Seq([id : Ids, key : Keys \union {NoKey}])
        BY <1>0, <2>1 DEF TypeOK
      <4> QED BY <4>1, <4>2, SeqMonotonic
    <3>6. /\ journal' \subseteq {"sent", "failed"} \X Ids' /\ listeners' \subseteq Listeners
          /\ deliveries' \subseteq Listeners \X Ids'
          /\ shared' \subseteq Ids' /\ left' \subseteq Ids' /\ troubled' \subseteq Ids'
          /\ together' \subseteq Keys
      BY <1>0, <2>1, <3>2 DEF TypeOK
    <3>7. Len(actions) + 1 \in Ids' /\ Len(actions) + 1 # 0
      BY <1>0, <3>2, ActionFacts
    <3> QED BY <1>0, <2>1, <3>2, <3>3, <3>4, <3>5, <3>6, <3>7, CallerFrame
  <2> QED BY <2>2, <2>3
<1>4. ASSUME NEW i \in Ids, Pick(c, i) PROVE TypeInv'
  <2>1. /\ pc[c] = "pick" /\ pc' = [pc EXCEPT ![c] = "post"] /\ row' = [row EXCEPT ![c] = i]
        /\ shared' \subseteq shared \union {i, row[c]}
        /\ UNCHANGED <<actions, journal, listeners, deliveries, posts, req, audience, used,
                       left, troubled, together>>
    BY <1>4 DEF Pick, Goto, tables
  <2>2. row[c] \in Ids
    BY <1>0, <2>1 DEF Equipped
  <2>3. "post" \in Places \ {"idle"} /\ Busy(c) /\ shared' \subseteq Ids /\ i # 0
    BY <1>0, <2>1, <2>2 DEF Places, Busy, TypeOK
  <2>4. /\ posts' \in Seq([id : Ids, key : Keys \union {NoKey}])
        /\ journal' \subseteq {"sent", "failed"} \X Ids /\ deliveries' \subseteq Listeners \X Ids
        /\ left' \subseteq Ids /\ troubled' \subseteq Ids /\ together' \subseteq Keys
        /\ used' \in Usage
    BY <1>0, <2>1 DEF TypeOK
  <2> QED BY <2>1, <2>3, <2>4, StepKeepsTypes
<1>5. ASSUME PickNothing(c) PROVE TypeInv'
  <2>1. row[c] \in Ids
    BY <1>0, <1>5 DEF PickNothing, Equipped
  <2> QED BY <1>0, <1>5, <2>1, ReturnKeepsTypes DEF PickNothing, tables, TypeOK
<1> QED BY <1>1, <1>2, <1>3, <1>4, <1>5

LEMMA SendKeepsTypes ==
    ASSUME TypeInv, NEW c \in Callers
    PROVE  /\ Post(c) => TypeInv'
           /\ PostRaises(c) => TypeInv'
           /\ FinishSent(c) => TypeInv'
           /\ JournalSent(c) => TypeInv'
           /\ ReadListeners(c) => TypeInv'
           /\ Queue(c) => TypeInv'
           /\ StepRaises(c) => TypeInv'
           /\ FinishFailed(c) => TypeInv'
           /\ JournalFailed(c) => TypeInv'
           /\ Kill(c) => TypeInv'
<1> DEFINE Late == {"post", "finish", "journal", "listeners", "queue", "fail", "journalFailed"}
(* What the type invariant says, with the set of uses named.               *)
<1>0. /\ TypeOK /\ Equipped /\ used \in Usage /\ 0 \notin Ids
      /\ row = [row EXCEPT ![c] = row[c]]
      /\ journal \subseteq {"sent", "failed"} \X Ids /\ deliveries \subseteq Listeners \X Ids
      /\ posts \in Seq([id : Ids, key : Keys \union {NoKey}])
      /\ shared \subseteq Ids /\ left \subseteq Ids /\ troubled \subseteq Ids
      /\ together \subseteq Keys /\ listeners \subseteq Listeners
  BY ActionFacts DEF TypeInv, TypeOK, Usage
<1>1. ASSUME pc[c] \in Late
      PROVE  row[c] \in Ids /\ row[c] # 0 /\ Busy(c) /\ req[c].key \in Keys \union {NoKey}
  BY <1>0, <1>1 DEF Equipped, Busy, Request
<1>2. ASSUME pc[c] \in Late, Accept(c)
      PROVE  posts' \in Seq([id : Ids, key : Keys \union {NoKey}])
  BY <1>0, <1>1, <1>2 DEF Accept
(* A step to another place of the request, its row and parameters kept.    *)
<1>3. ASSUME NEW place \in Late, pc[c] \in Late, Goto(c, place),
             UNCHANGED <<req, actions, listeners, row, deliveries, shared, left, together>>,
             audience' = audience \/ audience' = [audience EXCEPT ![c] = listeners],
             journal' \subseteq {"sent", "failed"} \X Ids,
             posts' \in Seq([id : Ids, key : Keys \union {NoKey}]), used' \in Usage,
             troubled' \subseteq Ids
      PROVE  TypeInv'
  <2>1. /\ place \in Places \ {"idle"} /\ pc' = [pc EXCEPT ![c] = place]
        /\ row' = [row EXCEPT ![c] = row[c]] /\ row[c] \in Ids \union {0}
        /\ place \in {"look", "insert"} <=> row[c] = 0
    BY <1>0, <1>1, <1>3 DEF Places, Goto
  <2>2. Busy(c)
    BY <1>1, <1>3
  <2> QED BY <1>0, <1>3, <2>1, <2>2, StepKeepsTypes
(* A status written to the action at hand, and a place moved on.           *)
<1>4. ASSUME NEW place \in Late, NEW status \in {"sent", "failed"}, pc[c] \in Late,
             Goto(c, place), SetStatus(row[c], status),
             UNCHANGED <<journal, listeners, deliveries, posts, req, row, audience, used, history>>
      PROVE  TypeInv'
  <2>1. /\ actions' = [actions EXCEPT ![row[c]].status = status] /\ row[c] \in Ids
    BY <1>1, <1>4 DEF SetStatus
  <2>2. [actions[row[c]] EXCEPT !.status = status] \in Action
    BY <1>0, <2>1, ActionFacts DEF Action
  <2>3. actions' \in Seq(Action) /\ Ids' = Ids
    BY <1>0, <2>1, <2>2, ExceptSeq, ActionFacts DEF TypeOK, Ids
  <2>4. /\ place \in Places /\ pc' = [pc EXCEPT ![c] = place] /\ row[c] \in Ids' \union {0}
        /\ req' = [req EXCEPT ![c] = req[c]] /\ req[c] \in Request
        /\ row' = [row EXCEPT ![c] = row[c]] /\ audience' = [audience EXCEPT ![c] = audience[c]]
        /\ audience[c] \in SUBSET Listeners
        /\ place \in {"idle", "look", "insert"} <=> row[c] = 0
    BY <1>0, <1>1, <1>4, <2>3 DEF Places, Goto, TypeOK, Equipped
  <2>5. /\ journal' \subseteq {"sent", "failed"} \X Ids' /\ deliveries' \subseteq Listeners \X Ids'
        /\ posts' \in Seq([id : Ids', key : Keys \union {NoKey}]) /\ used' \in Usage
        /\ shared' \subseteq Ids' /\ left' \subseteq Ids' /\ troubled' \subseteq Ids'
        /\ together' \subseteq Keys /\ listeners' \subseteq Listeners
        /\ 0 \notin Ids' /\ Ids \subseteq Ids'
    BY <1>0, <1>4, <2>3 DEF history
  <2> QED BY <1>0, <2>3, <2>4, <2>5, CallerFrame
<1>5. Post(c) => TypeInv'
  BY <1>0, <1>2, <1>3 DEF Post, tables, history
<1>6. PostRaises(c) => TypeInv'
  <2> SUFFICES ASSUME PostRaises(c) PROVE TypeInv'
    OBVIOUS
  <2>1. /\ posts' \in Seq([id : Ids, key : Keys \union {NoKey}])
        /\ troubled' \subseteq Ids
    BY <1>0, <1>1, <1>2 DEF PostRaises
  <2>2. used' \in Usage
    BY <1>0, UsageFacts DEF PostRaises
  <2> QED BY <1>0, <1>3, <2>1, <2>2 DEF PostRaises, tables
<1>7. FinishSent(c) => TypeInv'
  BY <1>4 DEF FinishSent
<1>8. JournalSent(c) => TypeInv'
  <2> SUFFICES ASSUME JournalSent(c) PROVE TypeInv'
    OBVIOUS
  <2>1. journal' \subseteq {"sent", "failed"} \X Ids
    BY <1>0, <1>1 DEF JournalSent
  <2> QED BY <1>0, <1>3, <2>1 DEF JournalSent, history
<1>9. ReadListeners(c) => TypeInv'
  BY <1>0, <1>3 DEF ReadListeners, tables, history
<1>10. Queue(c) => TypeInv'
  <2> SUFFICES ASSUME Queue(c) PROVE TypeInv'
    OBVIOUS
  <2>1. pc[c] \in Late
    BY DEF Queue
  <2>2. CASE AllThere(c)
    <3>1. deliveries' \subseteq Listeners \X Ids
      BY <1>0, <1>1, <2>1, <2>2 DEF Queue, AllThere
    <3> QED BY <1>0, <2>2, <3>1, ReturnKeepsTypes DEF Queue
  <2>3. CASE ~AllThere(c)
    <3>1. troubled' \subseteq Ids
      BY <1>0, <1>1, <2>1, <2>3 DEF Queue
    <3> QED BY <1>0, <1>3, <2>1, <2>3, <3>1 DEF Queue
  <2> QED BY <2>2, <2>3
<1>11. StepRaises(c) => TypeInv'
  <2> SUFFICES ASSUME StepRaises(c) PROVE TypeInv'
    OBVIOUS
  <2>1. used' \in Usage /\ pc[c] \in Late
    BY <1>0, UsageFacts DEF StepRaises
  <2>2. troubled' \subseteq Ids
    BY <1>0, <1>1, <2>1 DEF StepRaises
  <2> QED BY <1>0, <1>3, <2>1, <2>2 DEF StepRaises, tables
<1>12. FinishFailed(c) => TypeInv'
  BY <1>4 DEF FinishFailed, FailedStatus
<1>13. JournalFailed(c) => TypeInv'
  <2> SUFFICES ASSUME JournalFailed(c) PROVE TypeInv'
    OBVIOUS
  <2>1. journal' \subseteq {"sent", "failed"} \X Ids
    BY <1>0, <1>1 DEF JournalFailed
  <2> QED BY <1>0, <2>1, ReturnKeepsTypes DEF JournalFailed, history
<1>14. Kill(c) => TypeInv'
  <2> SUFFICES ASSUME Kill(c) PROVE TypeInv'
    OBVIOUS
  <2>1. used' \in Usage
    BY <1>0, UsageFacts DEF Kill
  <2>2. left' \subseteq Ids
    BY <1>0 DEF Kill, TypeOK
  <2> QED BY <1>0, <2>1, <2>2, ReturnKeepsTypes DEF Kill, tables
<1> QED BY <1>5, <1>6, <1>7, <1>8, <1>9, <1>10, <1>11, <1>12, <1>13, <1>14

LEMMA ListenersKeepTypes ==
    ASSUME TypeInv, ListenerStep
    PROVE  TypeInv'
<1>1. /\ UNCHANGED <<actions, journal, posts, pc, req, row, audience, shared, left, troubled,
                     together>>
      /\ listeners' \subseteq Listeners /\ deliveries' \subseteq deliveries
      /\ used' \in Usage
  <2>1. used \in Usage /\ used.moves \in Nat
    BY DEF TypeInv, TypeOK, Usage
  <2>2. CASE Register
    <3>1. used.moves + 1 \in Listeners
      BY <2>1, <2>2, OutboundAssumption DEF Register, Listeners
    <3> QED BY <2>1, <2>2, <3>1, UsageFacts DEF Register, TypeInv, TypeOK, callers, history
  <2>3. CASE \E l \in listeners : Unregister(l)
    BY <2>1, <2>3, UsageFacts DEF Unregister, TypeInv, TypeOK, callers, history
  <2> QED BY <2>2, <2>3 DEF ListenerStep
<1>2. Ids' = Ids
  BY <1>1 DEF Ids
<1> QED BY <1>1, <1>2 DEF TypeInv, TypeOK, Equipped, Busy, Usage, Listeners

LEMMA NextTypeInv == TypeInv /\ [Next]_vars => TypeInv'
<1> SUFFICES ASSUME TypeInv, [Next]_vars PROVE TypeInv'
  OBVIOUS
<1>1. CASE \E c \in Callers : CallerStep(c)
  BY <1>1, SearchKeepsTypes, SendKeepsTypes DEF CallerStep
<1>2. CASE UNCHANGED vars
  BY <1>2 DEF vars, tables, callers, history, TypeInv, TypeOK, Equipped, Busy, Ids
<1> QED BY <1>1, <1>2, NextCases, ListenersKeepTypes

(* Every variable keeps its type, and a request under way has a row from   *)
(* its insert on (send_message, send_thread_reply, the listeners' calls).  *)
THEOREM OutboundTypeCorrect == Spec => []TypeOK
<1>1. TypeInv => TypeOK
  BY DEF TypeInv
<1> QED BY <1>1, InitTypeInv, NextTypeInv, PTL DEF Spec

-----------------------------------------------------------------------------
(* What a step leaves alone *)

LEMMA OthersStay ==
    ASSUME TypeInv, NEW c \in Callers, CallerStep(c), NEW d \in Callers, d # c
    PROVE  pc'[d] = pc[d] /\ req'[d] = req[d] /\ row'[d] = row[d]
BY DEF TypeInv, TypeOK, CallerStep, Start, Look, Insert, Pick, PickNothing, Post, PostRaises,
       FinishSent, JournalSent, ReadListeners, Queue, StepRaises, FinishFailed,
       JournalFailed, Kill, Return, Goto, callers

(* Actions and messages are only added, and an action keeps its key.       *)
LEMMA TablesGrow ==
    ASSUME TypeInv, NEW c \in Callers, CallerStep(c)
    PROVE  /\ Ids \subseteq Ids'
           /\ \A i \in Ids : actions'[i].key = actions[i].key
           /\ ~Insert(c) => Ids' = Ids
           /\ journal \subseteq journal'
<1>0. Ids = 1 .. Len(actions) /\ actions \in Seq(Action)
  BY ActionFacts DEF TypeInv, TypeOK
<1>1. CASE actions' = actions
  <2>1. journal \subseteq journal'
    BY DEF CallerStep, Start, Look, Insert, Pick, PickNothing, Post, PostRaises,
           FinishSent, JournalSent, ReadListeners, Queue, StepRaises, FinishFailed,
           JournalFailed, Kill, tables
  <2> QED BY <1>1, <2>1 DEF Ids
<1>2. CASE Insert(c)
  <2>1. CASE actions' = Append(actions, [key |-> req[c].key, target |-> req[c].target,
                                         status |-> "pending"])
    <3>1. Ids' = 1 .. Len(actions) + 1 /\ \A i \in Ids : actions'[i] = actions[i]
      BY <1>0, <2>1 DEF Ids
    <3> QED BY <1>0, <1>2, <3>1 DEF Insert
  <2> QED BY <1>1, <1>2, <2>1 DEF Insert
<1>3. CASE FinishSent(c) \/ FinishFailed(c)
  <2>1. PICK status \in {"sent", "failed"} :
            actions' = [actions EXCEPT ![row[c]].status = status]
    BY <1>3 DEF FinishSent, FinishFailed, SetStatus, FailedStatus
  <2>2. Ids' = Ids /\ \A i \in Ids : actions'[i].key = actions[i].key
    BY <1>0, <2>1, ActionFacts DEF Ids, TypeInv, Action
  <2> QED BY <1>3, <2>2 DEF FinishSent, FinishFailed
<1> QED BY <1>1, <1>2, <1>3
        DEF CallerStep, Start, Look, Pick, PickNothing, Post, PostRaises, JournalSent,
            ReadListeners, Queue, StepRaises, JournalFailed, Kill, tables

-----------------------------------------------------------------------------
(* Deliveries *)

LEMMA NextDeliveries ==
    TypeInv /\ Announced /\ DeliveriesStand /\ [Next]_vars => (Announced /\ DeliveriesStand)'
<1> SUFFICES ASSUME TypeInv, Announced, DeliveriesStand, [Next]_vars
             PROVE  Announced' /\ DeliveriesStand'
  OBVIOUS
<1>1. ASSUME NEW c \in Callers, CallerStep(c) PROVE Announced' /\ DeliveriesStand'
  <2>1. journal \subseteq journal' /\ listeners' = listeners
    BY <1>1, TablesGrow DEF CallerStep, Start, Look, Insert, Pick, PickNothing, Post, PostRaises,
       FinishSent, JournalSent, ReadListeners, Queue, StepRaises, FinishFailed,
       JournalFailed, Kill, tables
  <2>2. pc'[c] \in {"listeners", "queue"} => Journaled("sent", row[c])' /\ row'[c] = row[c]
    <3>1. CASE JournalSent(c)
      BY <3>1 DEF JournalSent, Journaled
    <3>2. CASE ReadListeners(c)
      BY <3>2 DEF ReadListeners, Announced, Journaled, tables
    <3>3. CASE ~JournalSent(c) /\ ~ReadListeners(c)
      <4>1. CASE pc'[c] = pc[c] /\ row'[c] = row[c]
        BY <2>1, <4>1 DEF Announced, Journaled
      <4>2. CASE pc'[c] \notin {"listeners", "queue"}
        BY <4>2
      <4> QED BY <1>1, <3>3, <4>1, <4>2
              DEF CallerStep, Start, Look, Insert, Pick, PickNothing, Post, PostRaises,
                  FinishSent, Queue, StepRaises, FinishFailed, JournalFailed, Kill,
                  Return, Goto, callers, TypeInv, TypeOK
    <3> QED BY <3>1, <3>2, <3>3
  <2>3. Announced'
    BY <1>1, <2>1, <2>2, OthersStay DEF Announced, Journaled
  <2>4. deliveries' \subseteq deliveries
          \union (IF Queue(c) /\ AllThere(c) THEN audience[c] \X {row[c]} ELSE {})
    BY <1>1 DEF CallerStep, Start, Look, Insert, Pick, PickNothing, Post, PostRaises,
       FinishSent, JournalSent, ReadListeners, Queue, StepRaises, FinishFailed,
       JournalFailed, Kill, tables
  <2>5. Queue(c) => Journaled("sent", row[c])
    BY DEF Queue, Announced
  <2> QED BY <2>1, <2>3, <2>4, <2>5 DEF DeliveriesStand, AllThere, Journaled
<1>2. CASE ListenerStep
  <2>1. UNCHANGED <<pc, row, journal>>
    BY <1>2 DEF ListenerStep, Register, Unregister, callers
  <2>2. Announced'
    BY <2>1 DEF Announced, Journaled
  <2>3. DeliveriesStand'
    BY <1>2, <2>1 DEF ListenerStep, Register, Unregister, DeliveriesStand
  <2> QED BY <2>2, <2>3
<1>3. CASE UNCHANGED vars
  BY <1>3 DEF vars, tables, callers, Announced, DeliveriesStand, Journaled
<1> QED BY <1>1, <1>2, <1>3, NextCases

(* Only what was journaled as sent is delivered, and only to listeners     *)
(* still registered, for any number of callers and listeners               *)
(* (_queue_listener_deliveries against unregister_listener).               *)
THEOREM DeliveriesAreSound == Spec => []DeliveriesStand
<1>1. Init => TypeInv /\ Announced /\ DeliveriesStand
  BY InitTypeInv DEF Init, Announced, DeliveriesStand
<1> QED BY <1>1, NextTypeInv, NextDeliveries, PTL DEF Spec

-----------------------------------------------------------------------------
(* One message per key *)

Once == \A m, n \in DOMAIN posts :
            posts[m].key = posts[n].key /\ posts[m].key \in Keys \ together => m = n

LEMMA NoKeyIsNone == \A c \in Callers : TypeInv /\ Busy(c) => req[c].key \in Keys \union {NoKey}
BY DEF TypeInv, Equipped, Request

LEMMA WithStays ==
    ASSUME NEW k, Ids' = Ids, \A i \in Ids : actions'[i].key = actions[i].key
    PROVE  With(k)' = With(k)
BY DEF With

(* A step of c within its request, or to its end, that neither inserts nor *)
(* posts: c goes no way back.                                              *)
LEMMA KeyedStays ==
    ASSUME TypeInv, Keyed, NEW c \in Callers, CallerStep(c), ~Insert(c),
           posts' = posts, together' = together,
           \/ ~Busy(c)'
           \/ /\ Busy(c) /\ req'[c] = req[c]
              /\ req[c].key \in Keys \ together =>
                   (pc'[c] \in {"look", "insert"} <=> pc[c] \in {"look", "insert"})
              /\ pc'[c] \in {"pick", "post"} =>
                   pc[c] \in {"pick", "post"} \/ req[c].key \notin Keys \ together
    PROVE  Keyed'
<1>1. ASSUME NEW k PROVE With(k)' = With(k) /\ PostedWith(k)' = PostedWith(k)
  BY TablesGrow, WithStays DEF PostedWith
<1>2. ASSUME NEW d \in Callers, d # c
      PROVE  pc'[d] = pc[d] /\ req'[d] = req[d] /\ Busy(d)' = Busy(d)
  BY <1>2, OthersStay DEF Busy
<1>3. ASSUME NEW d \in Callers, Busy(d)' PROVE Busy(d) /\ req'[d] = req[d]
  BY <1>2, <1>3 DEF Busy
<1> SUFFICES ASSUME NEW k \in Keys \ together
             PROVE  /\ PostedWith(k)' => With(k)' # {}
                    /\ \A d \in Callers : Busy(d)' /\ req'[d].key = k =>
                         /\ \A e \in Callers : Busy(e)' /\ req'[e].key = k => e = d
                         /\ With(k)' = {} <=> pc'[d] \in {"look", "insert"}
                         /\ pc'[d] \in {"pick", "post"} => ~PostedWith(k)'
  BY DEF Keyed
<1>4. PostedWith(k)' => With(k)' # {}
  BY <1>1 DEF Keyed
<1>5. ASSUME NEW d \in Callers, Busy(d)', req'[d].key = k
      PROVE  /\ \A e \in Callers : Busy(e)' /\ req'[e].key = k => e = d
             /\ With(k)' = {} <=> pc'[d] \in {"look", "insert"}
             /\ pc'[d] \in {"pick", "post"} => ~PostedWith(k)'
  <2>1. /\ \A e \in Callers : Busy(e) /\ req[e].key = k => e = d
        /\ With(k) = {} <=> pc[d] \in {"look", "insert"}
        /\ pc[d] \in {"pick", "post"} => ~PostedWith(k)
    BY <1>3, <1>5 DEF Keyed
  <2>2. CASE d # c
    BY <1>1, <1>2, <1>3, <2>1, <2>2
  <2>3. CASE d = c
    BY <1>1, <1>3, <1>5, <2>1, <2>3
  <2> QED BY <2>2, <2>3
<1> QED BY <1>4, <1>5

LEMMA StartKeepsKeyed ==
    ASSUME TypeInv, Keyed, NEW c \in Callers, NEW r \in Request, Start(c, r)
    PROVE  Keyed'
<1>1. CallerStep(c) /\ ~Insert(c) /\ posts' = posts /\ ~Busy(c)
  BY DEF CallerStep, Start, Insert, Busy
<1>2. CASE Replays(r.key)
  BY <1>1, <1>2, KeyedStays DEF Start, callers, Busy
<1>3. CASE ~Replays(r.key)
  <2>1. /\ pc'[c] = "look" /\ req'[c] = r /\ together \subseteq together'
        /\ r.key # NoKey /\ (\E d \in Callers : Busy(d) /\ req[d].key = r.key)
              => r.key \in together'
    BY <1>3 DEF Start, Goto, TypeInv, TypeOK
  <2>2. With(r.key) = {}
    BY <1>3 DEF Replays
  <2>3. ASSUME NEW k PROVE With(k)' = With(k) /\ PostedWith(k)' = PostedWith(k)
    BY <1>1, TablesGrow, WithStays DEF PostedWith
  <2>4. ASSUME NEW d \in Callers, d # c
        PROVE  pc'[d] = pc[d] /\ req'[d] = req[d] /\ Busy(d)' = Busy(d)
    BY <1>1, <2>4, OthersStay DEF Busy
  <2> SUFFICES ASSUME NEW k \in Keys \ together'
               PROVE  /\ PostedWith(k) => With(k) # {}
                      /\ \A d \in Callers : Busy(d)' /\ req'[d].key = k =>
                           /\ \A e \in Callers : Busy(e)' /\ req'[e].key = k => e = d
                           /\ With(k) = {} <=> pc'[d] \in {"look", "insert"}
                           /\ pc'[d] \in {"pick", "post"} => ~PostedWith(k)
    BY <2>3 DEF Keyed
  <2>5. k \in Keys \ together
    BY <2>1
  <2>6. CASE k = r.key
    <3>1. \A d \in Callers : Busy(d) => req[d].key # k
      BY <2>1, <2>6, OutboundAssumption
    <3>2. \A d \in Callers : Busy(d)' /\ req'[d].key = k => d = c
      BY <2>4, <3>1
    <3> QED BY <2>1, <2>2, <2>5, <2>6, <3>2 DEF Keyed
  <2>7. CASE k # r.key
    <3>1. \A d \in Callers : Busy(d)' /\ req'[d].key = k => d # c
      BY <2>1, <2>7
    <3> QED BY <2>4, <2>5, <3>1 DEF Keyed
  <2> QED BY <2>6, <2>7
<1> QED BY <1>2, <1>3

LEMMA InsertKeepsKeyed ==
    ASSUME TypeInv, Keyed, NEW c \in Callers, Insert(c)
    PROVE  Keyed'
<1> DEFINE key == req[c].key
<1>1. /\ CallerStep(c) /\ posts' = posts /\ together' = together /\ pc[c] = "insert" /\ Busy(c)
      /\ key \in Keys \union {NoKey}
  BY NoKeyIsNone DEF CallerStep, Insert, Busy, history
<1>2. ASSUME NEW d \in Callers, d # c
      PROVE  pc'[d] = pc[d] /\ req'[d] = req[d] /\ Busy(d)' = Busy(d)
  BY <1>1, <1>2, OthersStay DEF Busy
<1>3. CASE With(key) # {}
  <2>1. Ids' = Ids /\ ~Busy(c)' /\ actions' = actions
    BY <1>1, <1>3 DEF Insert, Return, Goto, Busy, Ids, TypeInv, TypeOK
  <2>2. \A k : With(k)' = With(k) /\ PostedWith(k)' = PostedWith(k)
    BY <1>1, <2>1, WithStays DEF PostedWith
  <2>3. \A d \in Callers : Busy(d)' => d # c /\ Busy(d) /\ pc'[d] = pc[d] /\ req'[d] = req[d]
    BY <1>2, <2>1
  <2> QED BY <1>1, <2>2, <2>3 DEF Keyed
<1>4. CASE With(key) = {}
  <2>1. /\ actions' = Append(actions, [key |-> key, target |-> req[c].target, status |-> "pending"])
        /\ pc'[c] = "pick" /\ req'[c] = req[c]
    BY <1>4 DEF Insert, Goto, TypeInv, TypeOK
  <2>2. PICK i : i = Len(actions) + 1
    OBVIOUS
  <2>3. /\ Ids' = Ids \union {i} /\ actions'[i].key = key
        /\ \A j \in Ids : actions'[j] = actions[j]
    BY <2>1, <2>2, ActionFacts DEF TypeInv, TypeOK, Ids
  <2>4. ASSUME NEW k \in Keys, k # key PROVE With(k)' = With(k)
    BY <2>3, <2>4 DEF With
  <2>5. key \in Keys => With(key) = {} /\ i \in {j \in Ids' : key # NoKey /\ actions'[j].key = key}
    BY <1>4, <2>3, OutboundAssumption
  <2>6. ASSUME NEW k \in Keys \ together
        PROVE  /\ PostedWith(k)' => With(k)' # {}
               /\ \A d \in Callers : Busy(d)' /\ req'[d].key = k =>
                    /\ \A e \in Callers : Busy(e)' /\ req'[e].key = k => e = d
                    /\ With(k)' = {} <=> pc'[d] \in {"look", "insert"}
                    /\ pc'[d] \in {"pick", "post"} => ~PostedWith(k)'
    <3>1. PostedWith(k)' = PostedWith(k)
      BY <1>1 DEF PostedWith
    <3>2. \A d \in Callers : Busy(d)' => Busy(d) /\ req'[d] = req[d]
      BY <1>1, <1>2, <2>1
    <3>3. CASE k = key
      <4>1. With(k)' # {}
        BY <2>5, <2>6, <3>3 DEF With
      <4>2. \A d \in Callers : Busy(d)' /\ req'[d].key = k => d = c
        BY <1>1, <3>2, <3>3, <2>6 DEF Keyed
      <4>3. ~PostedWith(k)
        BY <1>4, <2>6, <3>3 DEF Keyed
      <4> QED BY <2>1, <3>1, <4>1, <4>2, <4>3
    <3>4. CASE k # key
      <4>1. With(k)' = With(k)
        BY <2>4, <2>6, <3>4
      <4>2. \A d \in Callers : Busy(d)' /\ req'[d].key = k =>
                d # c /\ Busy(d) /\ pc'[d] = pc[d] /\ req[d].key = k
        BY <1>2, <2>1, <3>4
      <4> QED BY <2>6, <3>1, <3>2, <4>1, <4>2 DEF Keyed
    <3> QED BY <3>3, <3>4
  <2> QED BY <1>1, <2>6 DEF Keyed
<1> QED BY <1>3, <1>4

(* c posts its message, or Slack accepts it and the answer is lost.        *)
LEMMA AcceptKeepsKeyed ==
    ASSUME TypeInv, Keyed, Once, NEW c \in Callers, CallerStep(c), ~Insert(c), pc[c] = "post",
           Accept(c), pc'[c] \in {"finish", "fail"}, req' = req, together' = together
    PROVE  Keyed' /\ Once'
<1> DEFINE key == req[c].key
<1>1. PICK n : n = Len(posts) + 1
  OBVIOUS
<1>2. /\ DOMAIN posts' = DOMAIN posts \union {n} /\ posts'[n].key = key
      /\ \A m \in DOMAIN posts : posts'[m] = posts[m]
      /\ n \notin DOMAIN posts
  BY <1>1 DEF Accept, TypeInv, TypeOK
<1>3. Busy(c) /\ Busy(c)' /\ key \in Keys \union {NoKey}
  BY NoKeyIsNone DEF Busy
<1>4. ASSUME NEW k PROVE With(k)' = With(k) /\ (PostedWith(k)' <=> PostedWith(k) \/ k = key)
  BY <1>2, TablesGrow, WithStays DEF PostedWith
<1>5. \A d \in Callers : d # c => pc'[d] = pc[d] /\ Busy(d)' = Busy(d)
  BY OthersStay DEF Busy
<1>6. key \in Keys \ together => ~PostedWith(key) /\ With(key) # {}
  BY <1>3 DEF Keyed
<1>7. ASSUME NEW k \in Keys \ together
      PROVE  /\ PostedWith(k)' => With(k)' # {}
             /\ \A d \in Callers : Busy(d)' /\ req[d].key = k =>
                  /\ \A e \in Callers : Busy(e)' /\ req[e].key = k => e = d
                  /\ With(k)' = {} <=> pc'[d] \in {"look", "insert"}
                  /\ pc'[d] \in {"pick", "post"} => ~PostedWith(k)'
  <2>1. \A d \in Callers : Busy(d)' <=> Busy(d)
    BY <1>3, <1>5
  <2>2. PostedWith(k)' => With(k)' # {}
    BY <1>4, <1>6, <1>7 DEF Keyed
  <2>3. ASSUME NEW d \in Callers, Busy(d), req[d].key = k
        PROVE  /\ With(k)' = {} <=> pc'[d] \in {"look", "insert"}
               /\ pc'[d] \in {"pick", "post"} => ~PostedWith(k)'
    <3>1. CASE d = c
      BY <1>4, <1>7, <2>3, <3>1 DEF Keyed
    <3>2. CASE d # c
      <4>1. k # key
        BY <1>3, <1>7, <2>3, <3>2 DEF Keyed
      <4> QED BY <1>4, <1>5, <1>7, <2>3, <3>2, <4>1 DEF Keyed
    <3> QED BY <3>1, <3>2
  <2> QED BY <1>7, <2>1, <2>2, <2>3 DEF Keyed
<1>8. Keyed'
  BY <1>7 DEF Keyed
<1>9. Once'
  <2>1. \A m \in DOMAIN posts : posts[m].key = key => key \notin Keys \ together
    BY <1>6 DEF PostedWith
  <2> QED BY <1>2, <2>1 DEF Once
<1> QED BY <1>8, <1>9

LEMMA NextOnce == TypeInv /\ Keyed /\ Once /\ [Next]_vars => (Keyed /\ Once)'
<1> SUFFICES ASSUME TypeInv, Keyed, Once, [Next]_vars PROVE Keyed' /\ Once'
  OBVIOUS
<1>1. ASSUME posts' = posts, together \subseteq together' PROVE Once'
  BY <1>1 DEF Once
<1>2. ASSUME NEW c \in Callers, CallerStep(c) PROVE Keyed' /\ Once'
  <2>1. CASE \E r \in Request : Start(c, r)
    <3>1. posts' = posts /\ together \subseteq together'
      BY <2>1 DEF Start, callers
    <3> QED BY <1>1, <2>1, <3>1, StartKeepsKeyed
  <2>2. CASE Insert(c)
    BY <1>1, <2>2, InsertKeepsKeyed DEF Insert, history
  <2>3. CASE Look(c)
    <3>1. /\ posts' = posts /\ together' = together /\ pc[c] = "look" /\ Busy(c) /\ ~Insert(c)
          /\ req[c].key \in Keys \ together => With(req[c].key) = {}
      BY <2>3 DEF Look, Busy, Keyed, Insert
    <3>2. CASE With(req[c].key) = {}
      <4>1. pc'[c] = "insert" /\ req' = req
        BY <2>3, <3>2 DEF Look, Goto, TypeInv, TypeOK
      <4> QED BY <1>1, <1>2, <3>1, <4>1, KeyedStays
    <3>3. CASE With(req[c].key) # {}
      <4>1. \/ pc'[c] = "post" /\ req' = req
            \/ ~Busy(c)'
        BY <2>3, <3>3 DEF Look, Goto, Return, Busy, TypeInv, TypeOK
      <4> QED BY <1>1, <1>2, <3>1, <3>3, <4>1, KeyedStays
    <3> QED BY <3>2, <3>3
  <2>4. CASE \E i \in Ids : Pick(c, i)
    <3>1. /\ posts' = posts /\ together' = together /\ pc[c] = "pick" /\ pc'[c] = "post"
          /\ req' = req /\ Busy(c) /\ ~Insert(c)
      BY <2>4 DEF Pick, Goto, Busy, Insert, TypeInv, TypeOK
    <3> QED BY <1>1, <1>2, <3>1, KeyedStays
  <2>5. CASE PickNothing(c) \/ JournalFailed(c) \/ Kill(c)
    <3>1. posts' = posts /\ together' = together /\ ~Busy(c)'
      BY <2>5 DEF PickNothing, JournalFailed, Kill, Return, Goto, Busy, history, TypeInv, TypeOK
    <3>2. ~Insert(c)
      BY <2>5, <3>1, OutboundAssumption
         DEF PickNothing, JournalFailed, Kill, Insert, Return, Goto, TypeInv, TypeOK, tables, Usage
    <3> QED BY <1>1, <1>2, <3>1, <3>2, KeyedStays
  <2>6. CASE FinishSent(c) \/ JournalSent(c) \/ ReadListeners(c) \/ StepRaises(c) \/ FinishFailed(c)
    <3>1. /\ posts' = posts /\ together' = together /\ req' = req /\ Busy(c) /\ ~Insert(c)
          /\ pc[c] \notin {"look", "insert"} /\ pc'[c] \notin {"look", "insert", "pick", "post"}
      BY <2>6 DEF FinishSent, JournalSent, ReadListeners, StepRaises, FinishFailed, Goto, Busy,
                  Insert, history, TypeInv, TypeOK
    <3> QED BY <1>1, <1>2, <3>1, KeyedStays
  <2>7. CASE Queue(c)
    <3>1. /\ posts' = posts /\ together' = together /\ pc[c] = "queue" /\ ~Insert(c) /\ Busy(c)
      BY <2>7 DEF Queue, Busy, Insert
    <3>2. CASE AllThere(c)
      <4>1. ~Busy(c)'
        BY <2>7, <3>2 DEF Queue, Return, Goto, Busy, TypeInv, TypeOK
      <4> QED BY <1>1, <1>2, <3>1, <4>1, KeyedStays
    <3>3. CASE ~AllThere(c)
      <4>1. pc'[c] = "fail" /\ req' = req
        BY <2>7, <3>3 DEF Queue, Goto, TypeInv, TypeOK
      <4> QED BY <1>1, <1>2, <3>1, <4>1, KeyedStays
    <3> QED BY <3>2, <3>3
  <2>8. CASE Post(c)
    BY <1>2, <2>8, AcceptKeepsKeyed DEF Post, Goto, Insert, history, TypeInv, TypeOK
  <2>9. CASE PostRaises(c)
    <3>1. /\ pc[c] = "post" /\ pc'[c] = "fail" /\ req' = req /\ together' = together
          /\ ~Insert(c) /\ Busy(c) /\ (posts' = posts \/ Accept(c))
      BY <2>9 DEF PostRaises, Goto, Insert, Busy, TypeInv, TypeOK
    <3> QED BY <1>1, <1>2, <3>1, AcceptKeepsKeyed, KeyedStays
  <2> QED BY <1>2, <2>1, <2>2, <2>3, <2>4, <2>5, <2>6, <2>7, <2>8, <2>9 DEF CallerStep
<1>3. CASE ListenerStep \/ UNCHANGED vars
  <2>1. UNCHANGED <<actions, posts, pc, req, together>>
    BY <1>3 DEF ListenerStep, Register, Unregister, vars, tables, callers, history
  <2> QED BY <1>1, <2>1 DEF Keyed, With, Ids, PostedWith, Busy
<1> QED BY <1>2, <1>3, NextCases

(* Slack gets one message at most for an idempotency key, for any number   *)
(* of callers, keys, retries, refusals, lost answers and kills, as long as *)
(* no two requests with the key are under way together (send_message,      *)
(* _record_outbound_action).                                               *)
THEOREM OneMessagePerKey == Spec => []SentOnceIfAlone
<1>1. Init => TypeInv /\ Keyed /\ Once
  BY InitTypeInv DEF Init, Keyed, Once, PostedWith, Busy
<1>2. TypeInv /\ Once => SentOnceIfAlone
  <2> SUFFICES ASSUME TypeInv, Once, NEW m \in DOMAIN posts, NEW n \in DOMAIN posts,
                      posts[m].key = posts[n].key, posts[m].key \notin together \union {NoKey}
               PROVE  m = n
    BY DEF SentOnceIfAlone
  <2>1. posts[m] \in [id : Ids, key : Keys \union {NoKey}]
    <3>1. posts \in Seq([id : Ids, key : Keys \union {NoKey}])
      BY DEF TypeInv, TypeOK
    <3>2. m \in 1 .. Len(posts)
      BY <3>1
    <3> QED BY <3>1, <3>2, ElementOfSeq
  <2>2. posts[m].key \in Keys \ together
    BY <2>1
  <2> QED BY <2>2 DEF Once
<1> QED BY <1>1, <1>2, NextTypeInv, NextOnce, PTL DEF Spec

-----------------------------------------------------------------------------
(* Outcomes *)

LEMMA HistoryGrows ==
    ASSUME NEW c \in Callers, CallerStep(c)
    PROVE  shared \subseteq shared' /\ left \subseteq left' /\ troubled \subseteq troubled'
BY DEF CallerStep, Start, Look, Insert, Pick, PickNothing, Post, PostRaises, FinishSent,
       JournalSent, ReadListeners, Queue, StepRaises, FinishFailed, JournalFailed, Kill, history

(* A request writes of no action but the one it works on.                  *)
LEMMA OtherActionsStay ==
    ASSUME TypeInv, NEW c \in Callers, CallerStep(c), NEW i \in Ids, row[c] # i
    PROVE  /\ actions'[i] = actions[i]
           /\ \A o \in {"sent", "failed"} : Journaled(o, i)' <=> Journaled(o, i)
           /\ PostedFor(i)' <=> PostedFor(i)
<1>0. actions \in Seq(Action) /\ Ids = 1 .. Len(actions) /\ i \in 1 .. Len(actions)
  BY ActionFacts DEF TypeInv, TypeOK
<1>1. actions'[i] = actions[i]
  <2>1. CASE actions' = actions
    BY <2>1
  <2>2. CASE actions' = Append(actions, [key |-> req[c].key, target |-> req[c].target,
                                         status |-> "pending"])
    BY <1>0, <2>2
  <2>3. CASE SetStatus(row[c], "sent") \/ SetStatus(row[c], "failed")
    BY <1>0, <2>3 DEF SetStatus
  <2> QED BY <2>1, <2>2, <2>3
          DEF CallerStep, Start, Look, Insert, Pick, PickNothing, Post, PostRaises, FinishSent,
              JournalSent, ReadListeners, Queue, StepRaises, FinishFailed, JournalFailed, Kill,
              tables, FailedStatus
<1>2. \A o \in {"sent", "failed"} : Journaled(o, i)' <=> Journaled(o, i)
  <2>1. \/ journal' = journal
        \/ journal' = journal \union {<<"sent", row[c]>>}
        \/ journal' = journal \union {<<"failed", row[c]>>}
    BY DEF CallerStep, Start, Look, Insert, Pick, PickNothing, Post, PostRaises, FinishSent,
           JournalSent, ReadListeners, Queue, StepRaises, FinishFailed, JournalFailed, Kill, tables
  <2> QED BY <2>1 DEF Journaled
<1>3. PostedFor(i)' <=> PostedFor(i)
  <2>1. posts' = posts \/ Accept(c)
    BY DEF CallerStep, Start, Look, Insert, Pick, PickNothing, Post, PostRaises, FinishSent,
           JournalSent, ReadListeners, Queue, StepRaises, FinishFailed, JournalFailed, Kill
  <2>2. CASE posts' = posts
    BY <2>2 DEF PostedFor
  <2>3. CASE Accept(c)
    <3>1. PICK n : n = Len(posts) + 1
      OBVIOUS
    <3>2. /\ DOMAIN posts' = DOMAIN posts \union {n} /\ posts'[n].id = row[c]
          /\ \A m \in DOMAIN posts : posts'[m] = posts[m]
      BY <2>3, <3>1 DEF Accept, TypeInv, TypeOK
    <3> QED BY <3>2 DEF PostedFor
  <2> QED BY <2>1, <2>2, <2>3
<1> QED BY <1>1, <1>2, <1>3

(* The action c works on, alone: a step of c takes it one place further,   *)
(* settles it, or makes an exception of it.                                *)
LEMMA OwnActionMoves ==
    ASSUME TypeInv, NEW c \in Callers, CallerStep(c), NEW i \in Ids, row[c] = i,
           OnItsWay(c, i), i \notin shared' \union left' \union troubled'
    PROVE  (row'[c] = i /\ OnItsWay(c, i)') \/ (row'[c] # i /\ Settled(i)')
<1>0. /\ actions \in Seq(Action) /\ i \in 1 .. Len(actions) /\ actions[i] \in Action
      /\ i # 0 /\ pc[c] \notin {"idle", "look", "insert"} /\ pc[c] \in Places
  BY ActionFacts DEF TypeInv, TypeOK, Equipped, Places
<1>1. ASSUME NEW place \in Places, Goto(c, place)
      PROVE  pc'[c] = place
  BY <1>1 DEF Goto, TypeInv, TypeOK
<1>2. ASSUME Return(c) PROVE row'[c] = 0
  BY <1>2 DEF Return, TypeInv, TypeOK
<1>3. ASSUME NEW s \in {"sent", "failed"}, SetStatus(row[c], s)
      PROVE  actions'[i].status = s
  BY <1>0, <1>3 DEF SetStatus, Action
<1>4. posts' = posts => (PostedFor(i)' <=> PostedFor(i))
  BY DEF PostedFor
<1>5. Accept(c) => PostedFor(i)'
  <2> SUFFICES ASSUME Accept(c) PROVE PostedFor(i)'
    OBVIOUS
  <2>1. PICK n : n = Len(posts) + 1
    OBVIOUS
  <2>2. n \in DOMAIN posts' /\ posts'[n].id = row[c]
    BY <2>1 DEF Accept, TypeInv, TypeOK
  <2> QED BY <2>2 DEF PostedFor
<1>6. CASE \E j \in Ids : Pick(c, j)
  <2>1. PICK j \in Ids : Pick(c, j)
    BY <1>6
  <2>2. j = i
    BY <2>1 DEF Pick
  <2>3. /\ pc[c] = "pick" /\ pc'[c] = "post" /\ row'[c] = i /\ actions' = actions
        /\ journal' = journal /\ posts' = posts
    BY <2>1, <2>2 DEF Pick, Goto, tables, TypeInv, TypeOK
  <2> QED BY <1>4, <2>3 DEF OnItsWay, Journaled
<1>7. CASE Post(c)
  <2>1. /\ pc[c] = "post" /\ pc'[c] = "finish" /\ row' = row /\ actions' = actions
        /\ journal' = journal /\ PostedFor(i)'
    BY <1>5, <1>7 DEF Post, Goto, tables, TypeInv, TypeOK
  <2> QED BY <2>1 DEF OnItsWay, Journaled
<1>8. CASE PostRaises(c)
  <2>1. /\ pc[c] = "post" /\ pc'[c] = "fail" /\ row' = row /\ actions' = actions
        /\ journal' = journal /\ posts' = posts
    BY <1>8 DEF PostRaises, Goto, tables, TypeInv, TypeOK
  <2> QED BY <1>4, <2>1 DEF OnItsWay, Journaled
<1>9. CASE FinishSent(c)
  <2>1. /\ pc[c] = "finish" /\ pc'[c] = "journal" /\ row' = row /\ actions'[i].status = "sent"
        /\ journal' = journal /\ posts' = posts
    BY <1>3, <1>9 DEF FinishSent, Goto, TypeInv, TypeOK
  <2> QED BY <1>4, <2>1 DEF OnItsWay, Journaled
<1>10. CASE JournalSent(c)
  <2>1. /\ pc[c] = "journal" /\ pc'[c] = "listeners" /\ row' = row /\ actions' = actions
        /\ journal' = journal \union {<<"sent", i>>} /\ posts' = posts
    BY <1>10 DEF JournalSent, Goto, TypeInv, TypeOK
  <2> QED BY <1>4, <2>1 DEF OnItsWay, Journaled
<1>11. CASE ReadListeners(c)
  <2>1. /\ pc[c] = "listeners" /\ pc'[c] = "queue" /\ row' = row /\ actions' = actions
        /\ journal' = journal /\ posts' = posts
    BY <1>11 DEF ReadListeners, Goto, tables, TypeInv, TypeOK
  <2> QED BY <1>4, <2>1 DEF OnItsWay, Journaled
<1>12. CASE Queue(c)
  <2>1. /\ pc[c] = "queue" /\ actions' = actions /\ journal' = journal /\ posts' = posts
        /\ Return(c)
    BY <1>12 DEF Queue
  <2> QED BY <1>0, <1>2, <1>4, <2>1 DEF OnItsWay, Journaled, Settled
<1>13. CASE FinishFailed(c)
  <2>1. /\ pc[c] = "fail" /\ pc'[c] = "journalFailed" /\ row' = row
        /\ actions'[i].status = "failed" /\ journal' = journal /\ posts' = posts
    BY <1>3, <1>13 DEF FinishFailed, FailedStatus, Goto, TypeInv, TypeOK
  <2> QED BY <1>4, <2>1 DEF OnItsWay, Journaled
<1>14. CASE JournalFailed(c)
  <2>1. /\ pc[c] = "journalFailed" /\ row'[c] = 0 /\ actions' = actions
        /\ journal' = journal \union {<<"failed", i>>} /\ posts' = posts
    BY <1>2, <1>14 DEF JournalFailed
  <2>2. actions[i].status = "failed"
    BY <1>0, <2>1 DEF OnItsWay, Action
  <2> QED BY <1>0, <1>4, <2>1, <2>2 DEF OnItsWay, Journaled, Settled
<1>15. ~PickNothing(c) /\ ~StepRaises(c) /\ ~Kill(c)
  BY <1>0 DEF PickNothing, StepRaises, Kill
<1>16. ~(\E r \in Request : Start(c, r)) /\ ~Look(c) /\ ~Insert(c)
  BY <1>0 DEF Start, Look, Insert, Busy
<1> QED BY <1>6, <1>7, <1>8, <1>9, <1>10, <1>11, <1>12, <1>13, <1>14, <1>15, <1>16 DEF CallerStep

(* No request takes up an action that is there but to share it.            *)
LEMMA TakingUpShares ==
    ASSUME TypeInv, NEW c \in Callers, CallerStep(c), NEW i \in Ids, row[c] # i, row'[c] = i
    PROVE  i \in shared'
<1>1. /\ i # 0 /\ i # Len(actions) + 1 /\ row \in [Callers -> Ids \union {0}]
  BY ActionFacts DEF TypeInv, TypeOK
<1>2. ASSUME NEW r \in Request, Start(c, r) PROVE row' = row
  BY <1>2 DEF Start, callers
<1>3. Look(c) => i \in shared'
  BY <1>1 DEF Look, Return
<1>4. ~Insert(c)
  BY <1>1 DEF Insert, Return
<1>5. ASSUME NEW j \in Ids, Pick(c, j) PROVE i \in shared'
  BY <1>1, <1>5 DEF Pick
<1> QED BY <1>1, <1>2, <1>3, <1>4, <1>5
        DEF CallerStep, PickNothing, Post, PostRaises, FinishSent, JournalSent, ReadListeners,
            Queue, StepRaises, FinishFailed, JournalFailed, Kill, Return

LEMMA NextHandled == TypeInv /\ AllHandled /\ [Next]_vars => AllHandled'
<1> SUFFICES ASSUME TypeInv, AllHandled, [Next]_vars PROVE AllHandled'
  OBVIOUS
<1>1. ASSUME NEW c \in Callers, CallerStep(c) PROVE AllHandled'
  <2>1. \A d \in Callers : d # c => pc'[d] = pc[d] /\ row'[d] = row[d]
    BY <1>1, OthersStay
  <2>2. ASSUME NEW i \in Ids, Own(i)' PROVE Handled(i)'
    <3>1. Handled(i) /\ i \notin shared' \union left' \union troubled'
      BY <1>1, <2>2, HistoryGrows DEF AllHandled, Own
    <3>2. CASE row[c] = i
      <4>1. OnItsWay(c, i) /\ \A d \in Callers : row[d] = i => d = c
        BY <3>1, <3>2 DEF Handled
      <4>2. (row'[c] = i /\ OnItsWay(c, i)') \/ (row'[c] # i /\ Settled(i)')
        BY <1>1, <3>1, <3>2, <4>1, OwnActionMoves
      <4> QED BY <2>1, <4>1, <4>2 DEF Handled
    <3>3. CASE row[c] # i
      <4>1. row'[c] # i
        BY <1>1, <3>1, <3>3, TakingUpShares
      <4>2. /\ actions'[i] = actions[i]
            /\ \A o \in {"sent", "failed"} : Journaled(o, i)' <=> Journaled(o, i)
            /\ PostedFor(i)' <=> PostedFor(i)
        BY <1>1, <3>3, OtherActionsStay
      <4>3. Settled(i) => Settled(i)'
        BY <4>2 DEF Settled
      <4>4. ASSUME NEW d \in Callers, d # c, OnItsWay(d, i) PROVE OnItsWay(d, i)'
        BY <2>1, <4>2, <4>4 DEF OnItsWay
      <4> QED BY <2>1, <3>1, <3>3, <4>1, <4>3, <4>4 DEF Handled
    <3> QED BY <3>2, <3>3
  <2>3. ASSUME NEW i \in Ids', i \notin Ids PROVE Handled(i)'
    <3>1. Insert(c) /\ With(req[c].key) = {}
      BY <1>1, <2>3, TablesGrow DEF Insert, Ids
    <3>2. /\ actions' = Append(actions, [key |-> req[c].key, target |-> req[c].target,
                                         status |-> "pending"])
          /\ pc'[c] = "pick" /\ row'[c] = Len(actions) + 1
          /\ journal' = journal /\ posts' = posts
      BY <3>1 DEF Insert, Goto, TypeInv, TypeOK
    <3>3. i = Len(actions) + 1 /\ actions'[i].status = "pending"
      <4>1. actions \in Seq(Action) /\ Ids = 1 .. Len(actions) /\ Len(actions) \in Nat
        BY ActionFacts DEF TypeInv, TypeOK
      <4>2. Ids' = 1 .. Len(actions) + 1
        BY <3>2, <4>1 DEF Ids
      <4>3. i = Len(actions) + 1
        BY <2>3, <4>1, <4>2
      <4> QED BY <3>2, <4>1, <4>3
    <3>4. ~Journaled("sent", i)' /\ ~Journaled("failed", i)'
      BY <2>3, <3>2 DEF Journaled, TypeInv, TypeOK
    <3>5. ~PostedFor(i)'
      <4> SUFFICES ASSUME NEW n \in DOMAIN posts PROVE posts[n].id # i
        BY <3>2 DEF PostedFor
      <4>1. posts \in Seq([id : Ids, key : Keys \union {NoKey}])
        BY DEF TypeInv, TypeOK
      <4>2. n \in 1 .. Len(posts)
        BY <4>1
      <4>3. posts[n] \in [id : Ids, key : Keys \union {NoKey}]
        BY <4>1, <4>2, ElementOfSeq
      <4> QED BY <2>3, <4>3
    <3>6. \A d \in Callers : d # c => row'[d] # i
      BY <2>1, <2>3, <3>3, ActionFacts DEF TypeInv, TypeOK
    <3>7. OnItsWay(c, i)'
      BY <3>2, <3>3, <3>4, <3>5 DEF OnItsWay
    <3> QED BY <3>2, <3>3, <3>6, <3>7 DEF Handled
  <2> QED BY <2>2, <2>3 DEF AllHandled
<1>2. CASE ListenerStep \/ UNCHANGED vars
  <2>1. UNCHANGED <<actions, journal, posts, pc, row, shared, left, troubled>>
    BY <1>2 DEF ListenerStep, Register, Unregister, vars, tables, callers, history
  <2>2. Ids' = Ids /\ \A i \in Ids : Own(i)' => Own(i)
    BY <2>1 DEF Own, Ids
  <2>3. ASSUME NEW i \in Ids, Handled(i) PROVE Handled(i)'
    <3>1. Settled(i) => Settled(i)'
      BY <2>1 DEF Settled, Journaled, PostedFor
    <3>2. \A c \in Callers : OnItsWay(c, i) => OnItsWay(c, i)'
      BY <2>1 DEF OnItsWay, Journaled, PostedFor
    <3> QED BY <2>1, <2>3, <3>1, <3>2 DEF Handled
  <2> QED BY <2>2, <2>3 DEF AllHandled
<1> QED BY <1>1, <1>2, NextCases

(* An action nobody works on any more says what happened to it, in the     *)
(* table, in the journal and at Slack alike, but for the three exceptions, *)
(* for any number of callers and requests (send_message,                   *)
(* _finish_outbound_action and the except branch).                         *)
THEOREM OutcomesAgree == Spec => []OutcomeAgrees
<1>1. Init => TypeInv /\ AllHandled
  BY InitTypeInv DEF Init, AllHandled, Ids
<1>2. AllHandled => OutcomeAgrees
  <2> SUFFICES ASSUME AllHandled, NEW i \in Ids, Own(i), \A c \in Callers : row[c] # i
               PROVE  Settled(i)
    BY DEF OutcomeAgrees, Own, Settled, Journaled, PostedFor
  <2> QED BY DEF AllHandled, Handled
<1> QED BY <1>1, <1>2, NextTypeInv, NextHandled, PTL DEF Spec
=============================================================================
