--------------------------- MODULE Backfill_proofs ---------------------------
(***************************************************************************)
(* Proofs about Backfill, for any set of processes, lookback and bounds:   *)
(* type correctness, and that everything up to the checkpoint is mirrored  *)
(* (CheckpointCovers).                                                     *)
(*                                                                         *)
(* CheckpointCovers is not inductive: that the checkpoint may move holds   *)
(* because of what the pass did on the way.  Covered says, for every phase *)
(* of a pass, what it has written, what it still has to write, and what it *)
(* cannot know of; InRange, that nobody names a message not yet posted.    *)
(***************************************************************************)
EXTENDS Backfill, TLAPS, WellFoundedInduction

(* A thread's root was posted, and is no reply.                            *)
RootsAreHeads ==
    \A t \in Posted : IsReply(t) => slack[t].root \in Posted /\ ~IsReply(slack[t].root)

Versioned == \A t \in Posted : slack[t].version > 0

PassInRange(p) ==
    /\ \A m \in pass[p].todo : m.ts \in Posted /\ m.version > 0
    /\ pass[p].heads \subseteq Posted /\ pass[p].roots \subseteq Posted
    /\ pass[p].newest <= Len(slack) /\ pass[p].upto <= Len(slack)
    /\ ~pass[p].bounded => pass[p].oldest <= Len(slack)

InRange ==
    /\ RootsAreHeads /\ Versioned
    /\ threaded \subseteq Posted
    /\ checkpoint <= Len(slack)
    /\ \A p \in Procs : PassInRange(p)

Mirrored(t) == rows[t] > 0 \/ t \in passed \union unreached

(* The row is there, or the pass holds the message and will write it.      *)
Got(p, t) == rows[t] > 0 \/ \E m \in pass[p].todo : m.ts = t

(* The pass will ask for the reply's thread, or cannot know of it.         *)
Settled(p, t) ==
    CASE pass[p].phase = "slice" ->
            slack[t].root \in pass[p].heads \/ slack[t].root < pass[p].oldest
      [] OTHER ->
            Got(p, t) \/ slack[t].root \in pass[p].roots \/ t \in pass[p].missed

Within(p, t) == pass[p].oldest <= t /\ t <= pass[p].upto

Covered(p) ==
    (pass[p].phase # "idle" /\ ~pass[p].bounded) =>
        /\ \A t \in Posted : t <= pass[p].oldest => Mirrored(t)
        /\ pass[p].newest = 0 \/ Got(p, pass[p].newest)
        /\ pass[p].phase # "history" =>
             \A t \in Posted : Within(p, t) =>
                 IF IsReply(t) THEN Settled(p, t) ELSE Got(p, t)

PassesCover == \A p \in Procs : Covered(p)

IInv == TypeOK /\ InRange /\ PassesCover /\ CheckpointCovers

-----------------------------------------------------------------------------
(* The latest of a set of messages *)

Below == {p \in Nat \X Nat : p[1] < p[2]}

LEMMA BelowWellFounded == IsWellFoundedOn(Below, Nat)
<1>1. OpToRel(<, Nat) = Below
  BY DEF OpToRel, Below
<1> QED BY <1>1, NatLessThanWellFounded

(* A non-empty set of numbers up to N has a largest one.                   *)
LEMMA LargestExists ==
    ASSUME NEW N \in Nat, NEW S, S \subseteq 0 .. N, S # {}
    PROVE  \E x \in S : \A y \in S : x >= y
<1> DEFINE T == {N - x : x \in S}
<1>1. \A x \in S : N - x \in Nat
  OBVIOUS
<1>2. T \subseteq Nat /\ T # {}
  BY <1>1
<1>3. \A x \in S : N - x \in T
  OBVIOUS
<1> HIDE DEF T
<1>4. PICK n \in T : \A m \in T : <<m, n>> \notin Below
  BY <1>2, BelowWellFounded, WFMin
<1>5. \A m \in T : ~ (m < n)
  BY <1>2, <1>4 DEF Below
<1>6. PICK x \in S : n = N - x
  BY DEF T
<1>7. \A y \in S : x >= y
  BY <1>3, <1>5, <1>6
<1> QED BY <1>7

LEMMA LatestIsOne ==
    ASSUME NEW N \in Nat, NEW S, S \subseteq 0 .. N, NEW n \in 0 .. N
    PROVE  Latest(S, n) \in S \union {n}
<1>1. S \union {n} \subseteq 0 .. N /\ S \union {n} # {}
  OBVIOUS
<1>2. \E x \in S \union {n} : \A y \in S \union {n} : x >= y
  BY <1>1, LargestExists
<1> QED BY <1>2 DEF Latest, Max

-----------------------------------------------------------------------------
(* Facts about passes and the channel *)

Pass == [phase : {"idle", "history", "slice", "roots"}, oldest : 0 .. MaxTs,
         bounded : BOOLEAN,
         todo : SUBSET [ts : Ts, version : Nat, head : BOOLEAN],
         heads : SUBSET Ts, roots : SUBSET Ts, missed : SUBSET Ts,
         newest : 0 .. MaxTs, upto : 0 .. MaxTs]

LEMMA ChannelFacts ==
    ASSUME TypeOK
    PROVE  /\ Len(slack) \in 0 .. MaxTs
           /\ Posted = 1 .. Len(slack)
           /\ Posted \subseteq Ts
           /\ \A t \in Posted : slack[t] \in Message
           /\ pass \in [Procs -> Pass]
           /\ rows \in [Ts -> Nat]
BY BackfillAssumption DEF TypeOK, Pass, Posted, Ts

LEMMA NoPassIsPass == NoPass \in Pass
BY BackfillAssumption DEF NoPass, Pass

LEMMA CopyFacts ==
    ASSUME TypeOK, NEW t \in Posted
    PROVE  /\ Copy(t) \in [ts : Ts, version : Nat, head : BOOLEAN]
           /\ Copy(t).ts = t
           /\ Versioned => Copy(t).version > 0
BY ChannelFacts DEF Copy, Message, HasReplies, Versioned

LEMMA InitTypeOK == Init => TypeOK
BY BackfillAssumption, NoPassIsPass DEF Init, TypeOK, Pass, Ts

-----------------------------------------------------------------------------
(* Type correctness and ranges, together: what a fetch says of a message   *)
(* has its type because the message was posted.                            *)

(* What a message posted or edited, and its live event, leave in order.    *)
LEMMA ChannelStep ==
    ASSUME TypeOK, InRange,
           \/ \E root \in 0 .. MaxTs, live \in BOOLEAN : Post(root, live)
           \/ \E t \in Posted, live \in BOOLEAN : Edit(t, live)
    PROVE  TypeOK' /\ InRange'
<1>1. ASSUME NEW root \in 0 .. MaxTs, NEW live \in BOOLEAN, Post(root, live)
      PROVE  TypeOK' /\ InRange'
  <2>1. PICK t \in Ts : t = Len(slack) + 1
    BY <1>1, ChannelFacts DEF Post, Ts
  <2>2. [root |-> root, version |-> 1] \in Message
    BY <1>1 DEF Message
  <2>3. /\ slack' \in Seq(Message) /\ Len(slack') = t
        /\ \A u \in Posted : slack'[u] = slack[u]
        /\ slack'[t] = [root |-> root, version |-> 1]
        /\ Posted' = Posted \union {t}
    BY <1>1, <2>1, <2>2, ChannelFacts DEF Post, TypeOK, Posted
  <2>4. rows' \in [Ts -> Nat]
    BY <1>1, <2>1, ChannelFacts DEF Post
  <2>5. TypeOK'
    BY <1>1, <2>1, <2>3, <2>4, ChannelFacts DEF TypeOK, Post, Ts
  <2>6. RootsAreHeads'
    <3>1. \A u \in Posted : IsReply(u)' <=> IsReply(u)
      BY <2>3 DEF IsReply
    <3>2. slack'[t].root # 0 => root \in Posted /\ ~IsReply(root)
      BY <1>1, <2>3 DEF Post
    <3>3. ASSUME NEW u \in Posted', slack'[u].root # 0
          PROVE  slack'[u].root \in Posted /\ ~IsReply(slack'[u].root)
      <4>1. CASE u \in Posted
        BY <2>3, <3>3, <4>1 DEF InRange, RootsAreHeads, IsReply
      <4>2. CASE u = t
        BY <2>3, <3>2, <3>3, <4>2
      <4> QED BY <2>3, <4>1, <4>2
    <3> QED BY <2>3, <3>1, <3>3 DEF RootsAreHeads, IsReply
  <2>7. Versioned'
    BY <2>3 DEF Versioned, InRange
  <2>8. ASSUME NEW p \in Procs PROVE PassInRange(p)'
    <3>1. pass'[p] = pass[p] /\ pass[p] \in Pass
      BY <1>1, ChannelFacts DEF Post
    <3>2. Posted \subseteq Posted' /\ Len(slack) <= Len(slack')
      BY <2>1, <2>3, ChannelFacts
    <3> QED BY <2>1, <2>3, <3>1, <3>2, ChannelFacts DEF PassInRange, InRange, Pass
  <2> QED BY <1>1, <2>1, <2>3, <2>5, <2>6, <2>7, <2>8, ChannelFacts DEF InRange, Post, TypeOK
<1>2. ASSUME NEW t \in Posted, NEW live \in BOOLEAN, Edit(t, live)
      PROVE  TypeOK' /\ InRange'
  <2>1. t \in Ts
    BY ChannelFacts
  <2>2. [slack[t] EXCEPT !.version = 2] \in Message
    BY ChannelFacts DEF Message
  <2>3. /\ slack' \in Seq(Message) /\ Len(slack') = Len(slack)
        /\ Posted' = Posted
    BY <1>2, <2>2, ChannelFacts DEF Edit, TypeOK, Posted
  <2>4. ASSUME NEW u \in Posted
        PROVE  slack'[u].root = slack[u].root /\ slack'[u].version \in {2, slack[u].version}
    BY <1>2, ChannelFacts DEF Edit, TypeOK, Posted, Message
  <2>5. rows' \in [Ts -> Nat]
    BY <1>2, <2>1, ChannelFacts DEF Edit
  <2>6. threaded' \subseteq threaded \union {t}
    BY <1>2 DEF Edit
  <2>7. TypeOK'
    BY <1>2, <2>1, <2>3, <2>5, <2>6, BackfillAssumption DEF TypeOK, Edit
  <2>8. RootsAreHeads' /\ Versioned'
    BY <2>3, <2>4 DEF RootsAreHeads, Versioned, InRange, IsReply
  <2>9. ASSUME NEW p \in Procs PROVE PassInRange(p)'
    <3>1. pass'[p] = pass[p]
      BY <1>2 DEF Edit
    <3> QED BY <2>3, <3>1 DEF PassInRange, InRange
  <2> QED BY <1>2, <2>3, <2>6, <2>8, <2>7, <2>9 DEF InRange, Edit
<1> QED BY <1>1, <1>2

(* A step of a pass changes that pass, and nothing at Slack.               *)
LEMMA PassFrame ==
    ASSUME TypeOK, InRange, NEW p \in Procs, NEW rec \in Pass,
           slack' = slack, pass' = [pass EXCEPT ![p] = rec],
           rows' \in [Ts -> Nat], threaded' \subseteq Posted,
           checkpoint' \in 0 .. Len(slack),
           mishaps' \in 0 .. MaxMishaps,
           passed' \subseteq Ts, unreached' \subseteq Ts,
           PassInRange(p)'
    PROVE  TypeOK' /\ InRange'
<1>1. pass' \in [Procs -> Pass]
  BY ChannelFacts
<1>2. TypeOK'
  <2>1. slack' \in Seq(Message) /\ Len(slack') <= MaxTs
    BY DEF TypeOK
  <2>2. threaded' \subseteq Ts
    BY ChannelFacts
  <2>3. checkpoint' \in 0 .. MaxTs
    BY ChannelFacts, BackfillAssumption
  <2> QED BY <1>1, <2>1, <2>2, <2>3 DEF TypeOK, Pass
<1>3. ASSUME NEW q \in Procs PROVE PassInRange(q)'
  <2>1. q # p => pass'[q] = pass[q]
    BY ChannelFacts
  <2> QED BY <2>1 DEF InRange, PassInRange, Posted
<1>4. RootsAreHeads' /\ Versioned'
  BY DEF InRange, RootsAreHeads, Versioned, Posted, IsReply
<1> QED BY <1>2, <1>3, <1>4, ChannelFacts DEF InRange, Posted

(* One pass's next step.                                                   *)
StepOf(p) ==
    \/ Start(p) \/ FetchHistory(p) \/ ChooseRoots(p) \/ Finish(p)
    \/ \E oldest \in Ts : StartBounded(p, oldest)
    \/ \E m \in pass[p].todo : Upsert(p, m)
    \/ \E root \in pass[p].roots :
         \/ \E withRoot \in BOOLEAN : FetchReplies(p, root, withRoot)
         \/ SkipThread(p, root)
    \/ Cut(p)

LEMMA PassStepKeepsRange ==
    ASSUME TypeOK, InRange, NEW p \in Procs, StepOf(p)
    PROVE  TypeOK' /\ InRange'
<1>1. /\ pass[p] \in Pass /\ PassInRange(p)
      /\ threaded \subseteq Posted /\ checkpoint \in 0 .. Len(slack)
      /\ mishaps \in 0 .. MaxMishaps
      /\ passed \subseteq Ts /\ unreached \subseteq Ts
  BY ChannelFacts DEF InRange, TypeOK
<1>2. CASE Start(p)
  <2>1. [NoPass EXCEPT !.phase = "history", !.oldest = checkpoint] \in Pass
    <3>1. checkpoint \in 0 .. MaxTs
      BY DEF TypeOK
    <3> QED BY <3>1, NoPassIsPass DEF Pass
  <2>2. PassInRange(p)'
    BY <1>1, <1>2, ChannelFacts DEF Start, PassInRange, NoPass
  <2> QED BY <1>1, <1>2, <2>1, <2>2, PassFrame, ChannelFacts DEF Start
<1>3. CASE \E oldest \in Ts : StartBounded(p, oldest)
  <2>1. PICK oldest \in Ts : StartBounded(p, oldest)
    BY <1>3
  <2>2. [NoPass EXCEPT !.phase = "history", !.bounded = TRUE, !.oldest = oldest] \in Pass
    <3>1. oldest \in 0 .. MaxTs
      BY BackfillAssumption DEF Ts
    <3> QED BY <3>1, NoPassIsPass DEF Pass
  <2>3. PassInRange(p)'
    BY <1>1, <2>1, ChannelFacts DEF StartBounded, PassInRange, NoPass
  <2>4. mishaps' \in 0 .. MaxMishaps
    BY <1>1, <2>1, BackfillAssumption DEF StartBounded
  <2> QED BY <1>1, <2>1, <2>2, <2>3, <2>4, PassFrame, ChannelFacts DEF StartBounded
<1>4. CASE FetchHistory(p)
  <2> DEFINE slice == {t \in Posted : ~IsReply(t) /\ t >= pass[p].oldest}
             rec == [pass[p] EXCEPT !.phase = "slice", !.todo = {Copy(t) : t \in slice},
                                    !.heads = {t \in slice : HasReplies(t)},
                                    !.newest = Latest(slice, 0), !.upto = Len(slack)]
  <2>1. Latest(slice, 0) \in 0 .. Len(slack)
    BY LatestIsOne, ChannelFacts
  <2>2. rec \in Pass
    <3>1. {Copy(t) : t \in slice} \subseteq [ts : Ts, version : Nat, head : BOOLEAN]
      BY CopyFacts
    <3>2. Latest(slice, 0) \in 0 .. MaxTs /\ Len(slack) \in 0 .. MaxTs
      BY <2>1, ChannelFacts, BackfillAssumption
    <3>3. {t \in slice : HasReplies(t)} \subseteq Ts
      BY ChannelFacts
    <3> HIDE DEF slice
    <3> QED BY <1>1, <3>1, <3>2, <3>3 DEF Pass
  <2>3. pass' = [pass EXCEPT ![p] = rec]
    BY <1>4 DEF FetchHistory
  <2>4. PassInRange(p)'
    <3>1. \A m \in {Copy(t) : t \in slice} : m.ts \in Posted /\ m.version > 0
      BY CopyFacts DEF InRange
    <3>2. Posted' = Posted /\ Len(slack') = Len(slack)
      BY <1>4 DEF FetchHistory, Posted
    <3> HIDE DEF slice
    <3>3. pass'[p] = rec
      BY <2>3, ChannelFacts
    <3>4. slice \subseteq Posted
      BY DEF slice
    <3> QED BY <1>1, <2>1, <3>1, <3>2, <3>3, <3>4, ChannelFacts DEF PassInRange, Pass
  <2> QED BY <1>1, <1>4, <2>2, <2>3, <2>4, PassFrame, ChannelFacts DEF FetchHistory
<1>5. CASE \E m \in pass[p].todo : Upsert(p, m)
  <2>1. PICK m \in pass[p].todo : Upsert(p, m)
    BY <1>5
  <2>2. m.ts \in Ts /\ m.ts \in Posted /\ m.version \in Nat
    BY <1>1 DEF Pass, PassInRange
  <2>3. [pass[p] EXCEPT !.todo = @ \ {m}] \in Pass
    BY <1>1 DEF Pass
  <2>4. pass' = [pass EXCEPT ![p] = [pass[p] EXCEPT !.todo = @ \ {m}]]
    BY <2>1 DEF Upsert
  <2>5. PassInRange(p)'
    BY <1>1, <2>1, <2>4, ChannelFacts DEF Upsert, PassInRange, Posted, Pass
  <2>6. rows' \in [Ts -> Nat] /\ threaded' \subseteq Posted
    BY <1>1, <2>1, <2>2, ChannelFacts DEF Upsert
  <2> QED BY <1>1, <2>1, <2>3, <2>4, <2>5, <2>6, PassFrame DEF Upsert
<1>6. CASE ChooseRoots(p)
  <2> DEFINE rec == [pass[p] EXCEPT !.phase = "roots", !.heads = {},
                        !.roots = pass[p].heads \union KnownRoots(pass[p].oldest),
                        !.missed = {t \in Posted : /\ IsReply(t) /\ t >= pass[p].oldest
                                                   /\ Hidden(p, slack[t].root)}]
  <2>1. KnownRoots(pass[p].oldest) \subseteq Posted
    BY <1>1 DEF KnownRoots
  <2>2. rec \in Pass
    BY <1>1, <2>1, ChannelFacts DEF Pass, PassInRange
  <2>3. pass' = [pass EXCEPT ![p] = rec]
    BY <1>6 DEF ChooseRoots
  <2>4. PassInRange(p)'
    <3>1. pass'[p] = rec
      BY <2>3, ChannelFacts
    <3>2. /\ pass'[p].todo = pass[p].todo /\ pass'[p].heads = {}
          /\ pass'[p].roots = pass[p].heads \union KnownRoots(pass[p].oldest)
          /\ pass'[p].newest = pass[p].newest /\ pass'[p].upto = pass[p].upto
          /\ pass'[p].bounded = pass[p].bounded /\ pass'[p].oldest = pass[p].oldest
      BY <1>1, <3>1 DEF Pass
    <3>3. slack' = slack
      BY <1>6 DEF ChooseRoots
    <3> QED BY <1>1, <2>1, <3>2, <3>3 DEF PassInRange, Posted
  <2> QED BY <1>1, <1>6, <2>2, <2>3, <2>4, PassFrame, ChannelFacts DEF ChooseRoots
<1>7. ASSUME NEW root \in pass[p].roots, NEW withRoot \in BOOLEAN,
             FetchReplies(p, root, withRoot)
      PROVE  TypeOK' /\ InRange'
  <2> DEFINE thread == {t \in Posted : slack[t].root = root /\ t >= pass[p].oldest}
                         \union (IF withRoot \/ root >= pass[p].oldest THEN {root} ELSE {})
             rec == [pass[p] EXCEPT !.roots = @ \ {root}, !.todo = {Copy(t) : t \in thread},
                                    !.newest = Latest(thread, @)]
  <2>1. thread \subseteq Posted
    BY <1>1 DEF PassInRange
  <2>2. pass' = [pass EXCEPT ![p] = rec]
    BY <1>7 DEF FetchReplies
  <2> HIDE DEF thread
  <2>3. Latest(thread, pass[p].newest) \in 0 .. Len(slack)
    BY <1>1, <2>1, LatestIsOne, ChannelFacts DEF PassInRange, Pass
  <2>4. /\ {Copy(t) : t \in thread} \subseteq [ts : Ts, version : Nat, head : BOOLEAN]
        /\ \A m \in {Copy(t) : t \in thread} : m.ts \in Posted /\ m.version > 0
    BY <2>1, CopyFacts DEF InRange
  <2>5. rec \in Pass
    <3>1. Latest(thread, pass[p].newest) \in 0 .. MaxTs
      BY <2>3, ChannelFacts, BackfillAssumption
    <3> QED BY <1>1, <2>4, <3>1 DEF Pass
  <2>6. PassInRange(p)'
    <3>1. pass'[p] = rec
      BY <2>2, ChannelFacts
    <3>2. /\ pass'[p].todo = {Copy(t) : t \in thread} /\ pass'[p].heads = pass[p].heads
          /\ pass'[p].roots = pass[p].roots \ {root}
          /\ pass'[p].newest = Latest(thread, pass[p].newest)
          /\ pass'[p].upto = pass[p].upto
          /\ pass'[p].bounded = pass[p].bounded /\ pass'[p].oldest = pass[p].oldest
      BY <1>1, <3>1 DEF Pass
    <3>3. slack' = slack
      BY <1>7 DEF FetchReplies
    <3> QED BY <1>1, <2>3, <2>4, <3>2, <3>3, ChannelFacts DEF PassInRange, Posted
  <2> QED BY <1>1, <1>7, <2>2, <2>5, <2>6, PassFrame, ChannelFacts DEF FetchReplies
<1>8. ASSUME NEW root \in pass[p].roots, SkipThread(p, root)
      PROVE  TypeOK' /\ InRange'
  <2> DEFINE rec == [pass[p] EXCEPT !.roots = @ \ {root},
                        !.missed = @ \union
                            {t \in Posted : slack[t].root = root /\ t >= pass[p].oldest}]
  <2>1. rec \in Pass
    BY <1>1, ChannelFacts DEF Pass
  <2>2. pass' = [pass EXCEPT ![p] = rec]
    BY <1>8 DEF SkipThread
  <2>3. PassInRange(p)'
    <3>1. pass'[p] = rec
      BY <2>2, ChannelFacts
    <3>2. /\ pass'[p].todo = pass[p].todo /\ pass'[p].heads = pass[p].heads
          /\ pass'[p].roots = pass[p].roots \ {root}
          /\ pass'[p].newest = pass[p].newest /\ pass'[p].upto = pass[p].upto
          /\ pass'[p].bounded = pass[p].bounded /\ pass'[p].oldest = pass[p].oldest
      BY <1>1, <3>1 DEF Pass
    <3>3. slack' = slack
      BY <1>8 DEF SkipThread
    <3> QED BY <1>1, <3>2, <3>3 DEF PassInRange, Posted
  <2>4. mishaps' \in 0 .. MaxMishaps
    BY <1>1, <1>8, BackfillAssumption DEF SkipThread
  <2> QED BY <1>1, <1>8, <2>1, <2>2, <2>3, <2>4, PassFrame, ChannelFacts DEF SkipThread
<1>9. CASE Finish(p)
  <2>1. checkpoint' \in 0 .. Len(slack)
    BY <1>1, <1>9, ChannelFacts DEF Finish, NewCheckpoint, PassInRange, Pass
  <2>2. PassInRange(p)'
    BY <1>9, ChannelFacts DEF Finish, PassInRange, NoPass
  <2>3. passed' \subseteq Ts /\ unreached' \subseteq Ts
    BY <1>1, <1>9, ChannelFacts DEF Finish
  <2> QED BY <1>1, <1>9, <2>1, <2>2, <2>3, PassFrame, NoPassIsPass, ChannelFacts DEF Finish
<1>10. CASE Cut(p)
  <2>1. PassInRange(p)'
    BY <1>10, ChannelFacts DEF Cut, PassInRange, NoPass
  <2>2. mishaps' \in 0 .. MaxMishaps
    BY <1>1, <1>10, BackfillAssumption DEF Cut
  <2> QED BY <1>1, <1>10, <2>1, <2>2, PassFrame, NoPassIsPass, ChannelFacts DEF Cut
<1> QED BY <1>2, <1>3, <1>4, <1>5, <1>6, <1>7, <1>8, <1>9, <1>10 DEF StepOf

LEMMA TypeStep ==
    ASSUME TypeOK, InRange, [Next]_vars
    PROVE  TypeOK' /\ InRange'
<1>1. CASE UNCHANGED vars
  <2>1. TypeOK'
    BY <1>1 DEF vars, TypeOK
  <2>2. InRange'
    BY <1>1 DEF vars, InRange, RootsAreHeads, Versioned, PassInRange, Posted, IsReply
  <2> QED BY <2>1, <2>2
<1>2. CASE \E p \in Procs : StepOf(p)
  BY <1>2, PassStepKeepsRange
<1>3. CASE \/ \E root \in 0 .. MaxTs, live \in BOOLEAN : Post(root, live)
           \/ \E t \in Posted, live \in BOOLEAN : Edit(t, live)
  BY <1>3, ChannelStep
<1> QED BY <1>1, <1>2, <1>3 DEF Next, StepOf

-----------------------------------------------------------------------------
(* What passes hold on to *)

(* Nothing is unposted or taken out of the mirror.                         *)
Grows ==
    /\ Posted \subseteq Posted'
    /\ \A t \in Posted' : t \in Posted \/ (t \in Ts /\ t > Len(slack))
    /\ \A t \in Posted : slack'[t].root = slack[t].root
    /\ \A t \in Ts : rows[t] > 0 => rows'[t] > 0
    /\ passed \subseteq passed' /\ unreached \subseteq unreached'

LEMMA StepGrows ==
    ASSUME TypeOK, InRange, Next
    PROVE  Grows
<1>1. ASSUME NEW root \in 0 .. MaxTs, NEW live \in BOOLEAN, Post(root, live)
      PROVE  Grows
  <2>1. /\ Posted' = Posted \union {Len(slack) + 1}
        /\ \A t \in Posted : slack'[t] = slack[t]
        /\ Len(slack) + 1 \in Ts
    BY <1>1, ChannelFacts DEF Post, Posted, TypeOK, Ts
  <2>2. \A t \in Ts : rows[t] > 0 => rows'[t] > 0
    BY <1>1, ChannelFacts DEF Post
  <2> QED BY <1>1, <2>1, <2>2, ChannelFacts DEF Grows, Post
<1>2. ASSUME NEW t \in Posted, NEW live \in BOOLEAN, Edit(t, live)
      PROVE  Grows
  <2>1. /\ Posted' = Posted
        /\ \A u \in Posted : slack'[u].root = slack[u].root
    BY <1>2, ChannelFacts DEF Edit, Posted, TypeOK, Message
  <2>2. \A u \in Ts : rows[u] > 0 => rows'[u] > 0
    BY <1>2, ChannelFacts DEF Edit
  <2> QED BY <1>2, <2>1, <2>2 DEF Grows, Edit
<1>3. ASSUME NEW p \in Procs, StepOf(p)
      PROVE  Grows
  <2>1. slack' = slack /\ passed \subseteq passed' /\ unreached \subseteq unreached'
    BY <1>3 DEF StepOf, Start, StartBounded, FetchHistory, Upsert, ChooseRoots,
                FetchReplies, SkipThread, Finish, Cut
  <2>2. CASE rows' = rows
    BY <2>1, <2>2 DEF Grows, Posted
  <2>3. ASSUME NEW m \in pass[p].todo, Upsert(p, m) PROVE Grows
    <3>1. m.version > 0 /\ m.version \in Nat /\ m.ts \in Ts
      BY ChannelFacts DEF InRange, PassInRange, Pass
    <3>2. \A u \in Ts : rows[u] > 0 => rows'[u] > 0
      BY <2>3, <3>1, ChannelFacts DEF Upsert
    <3> QED BY <2>1, <3>2 DEF Grows, Posted
  <2> QED BY <1>3, <2>2, <2>3 DEF StepOf, Start, StartBounded, FetchHistory, ChooseRoots,
                FetchReplies, SkipThread, Finish, Cut
<1> QED BY <1>1, <1>2, <1>3 DEF Next, StepOf

(* A pass that does not move is not disturbed by anything that does.       *)
LEMMA CoveredStays ==
    ASSUME TypeOK, InRange, Grows, NEW p \in Procs, pass'[p] = pass[p], Covered(p)
    PROVE  Covered(p)'
<1> SUFFICES ASSUME pass[p].phase # "idle", ~pass[p].bounded
             PROVE  Covered(p)'
  BY DEF Covered
<1>1. pass[p] \in Pass /\ Posted \subseteq Ts
  BY ChannelFacts
<1>2. pass[p].oldest <= Len(slack) /\ pass[p].upto <= Len(slack)
  BY DEF InRange, PassInRange
<1>3. \A t \in Ts : Got(p, t) => Got(p, t)'
  BY DEF Got, Grows
<1>4. \A t \in Posted : IsReply(t)' <=> IsReply(t)
  BY DEF Grows, IsReply
<1>5. \A t \in Posted : Settled(p, t) => Settled(p, t)'
  BY <1>1, <1>3 DEF Settled, Grows
<1>6. ASSUME NEW t \in Posted', t <= pass[p].oldest
      PROVE  Mirrored(t)'
  <2>1. t \in Posted
    BY <1>1, <1>2, <1>6, ChannelFacts DEF Grows, Pass, Ts
  <2>2. Mirrored(t)
    BY <1>6, <2>1 DEF Covered
  <2> QED BY <1>1, <2>1, <2>2 DEF Grows, Mirrored
<1>7. pass[p].newest = 0 \/ Got(p, pass[p].newest)'
  <2>1. pass[p].newest # 0 => pass[p].newest \in Ts
    BY <1>1 DEF Pass, Ts
  <2> QED BY <1>3, <2>1 DEF Covered
<1>8. ASSUME pass[p].phase # "history", NEW t \in Posted', Within(p, t)'
      PROVE  IF IsReply(t)' THEN Settled(p, t)' ELSE Got(p, t)'
  <2>1. t \in Posted /\ Within(p, t)
    BY <1>1, <1>2, <1>8, ChannelFacts DEF Grows, Within, Pass, Ts
  <2> QED BY <1>1, <1>3, <1>4, <1>5, <1>8, <2>1 DEF Covered
<1> QED BY <1>6, <1>7, <1>8 DEF Covered

(* A pass's own step keeps it covered: the slice holds every message a     *)
(* later phase relies on, and what leaves todo is in its row.              *)
LEMMA OwnStepCovers ==
    ASSUME IInv, NEW p \in Procs, StepOf(p), Grows
    PROVE  Covered(p)'
<1>1. /\ pass[p] \in Pass /\ PassInRange(p) /\ Covered(p)
      /\ TypeOK /\ InRange /\ CheckpointCovers
      /\ Posted \subseteq Ts /\ Posted = 1 .. Len(slack)
  BY ChannelFacts DEF IInv, InRange, PassesCover
<1>2. slack' = slack /\ Posted' = Posted
  BY DEF StepOf, Start, StartBounded, FetchHistory, Upsert, ChooseRoots,
         FetchReplies, SkipThread, Finish, Cut, Posted
<1>3. \A t \in Posted : Mirrored(t) => Mirrored(t)'
  BY <1>1 DEF Mirrored, Grows
<1>4. CASE Start(p)
  <2>1. /\ pass'[p].phase = "history" /\ pass'[p].newest = 0
        /\ pass'[p].oldest = checkpoint
    BY <1>1, <1>4, ChannelFacts DEF Start, NoPass
  <2>2. \A t \in Posted : t <= checkpoint => Mirrored(t)
    BY <1>1 DEF CheckpointCovers, Mirrored
  <2> QED BY <1>2, <1>3, <2>1, <2>2 DEF Covered
<1>5. CASE \E oldest \in Ts : StartBounded(p, oldest)
  <2>1. pass'[p].bounded
    BY <1>1, <1>5, ChannelFacts DEF StartBounded, NoPass
  <2> QED BY <2>1 DEF Covered
<1>6. CASE Finish(p) \/ Cut(p)
  <2>1. pass'[p].phase = "idle"
    BY <1>1, <1>6, ChannelFacts DEF Finish, Cut, NoPass
  <2> QED BY <2>1 DEF Covered
<1>7. CASE FetchHistory(p)
  <2> DEFINE slice == {t \in Posted : ~IsReply(t) /\ t >= pass[p].oldest}
  <2>1. /\ pass[p].phase = "history"
        /\ pass'[p].phase = "slice" /\ pass'[p].todo = {Copy(t) : t \in slice}
        /\ pass'[p].heads = {t \in slice : HasReplies(t)}
        /\ pass'[p].newest = Latest(slice, 0)
        /\ pass'[p].bounded = pass[p].bounded /\ pass'[p].oldest = pass[p].oldest
    BY <1>1, <1>7, ChannelFacts DEF FetchHistory, Pass
  <2>2. \A t \in slice : Got(p, t)'
    BY <1>1, <2>1, CopyFacts DEF Got
  <2>3. pass'[p].newest = 0 \/ Got(p, pass[p].newest)'
    <3>1. slice \subseteq 0 .. Len(slack) /\ Len(slack) \in Nat /\ 0 \in 0 .. Len(slack)
      BY <1>1, ChannelFacts
    <3> HIDE DEF slice
    <3>2. Latest(slice, 0) \in slice \union {0}
      BY <3>1, LatestIsOne
    <3> QED BY <2>1, <2>2, <3>2
  <2>4. ASSUME NEW t \in Posted, IsReply(t)
        PROVE  slack[t].root \in pass'[p].heads \/ slack[t].root < pass[p].oldest
    <3>1. slack[t].root \in Posted /\ ~IsReply(slack[t].root) /\ HasReplies(slack[t].root)
      BY <1>1, <2>4 DEF InRange, RootsAreHeads, HasReplies
    <3> QED BY <1>1, <2>1, <3>1 DEF Pass, Ts
  <2>5. ASSUME NEW t \in Posted, Within(p, t)'
        PROVE  IF IsReply(t)' THEN Settled(p, t)' ELSE Got(p, t)'
    <3>1. IsReply(t)' <=> IsReply(t)
      BY <1>2 DEF IsReply
    <3>2. pass[p].oldest <= t
      BY <2>1, <2>5 DEF Within
    <3>3. CASE IsReply(t)
      BY <1>2, <2>1, <2>4, <3>1, <3>3 DEF Settled
    <3>4. CASE ~IsReply(t)
      BY <1>1, <2>2, <3>1, <3>2, <3>4 DEF Pass, Ts
    <3> QED BY <3>3, <3>4
  <2>6. ~pass[p].bounded => \A t \in Posted : t <= pass[p].oldest => Mirrored(t)
    BY <1>1, <2>1 DEF Covered
  <2>7. pass'[p].phase # "history" =>
          \A t \in Posted : Within(p, t)' =>
              IF IsReply(t)' THEN Settled(p, t)' ELSE Got(p, t)'
    BY <2>5
  <2> HIDE DEF slice
  <2> QED BY <1>2, <1>3, <2>1, <2>3, <2>6, <2>7 DEF Covered
<1>8. ASSUME NEW m \in pass[p].todo, Upsert(p, m)
      PROVE  Covered(p)'
  <2>1. m.version > 0 /\ m.version \in Nat /\ m.ts \in Ts
    BY <1>1 DEF PassInRange, Pass
  <2>2. pass'[p] = [pass[p] EXCEPT !.todo = @ \ {m}]
    BY <1>1, <1>8, ChannelFacts DEF Upsert
  <2>3. rows'[m.ts] > 0
    BY <1>1, <1>8, <2>1, ChannelFacts DEF Upsert
  <2>4. ASSUME NEW t \in Ts, Got(p, t)
        PROVE  Got(p, t)'
    BY <1>1, <2>2, <2>3, <2>4 DEF Got, Grows, Pass
  <2> QED BY <1>1, <1>2, <1>3, <2>2, <2>4
          DEF Covered, Settled, Within, IsReply, Pass, Ts
<1>9. CASE ChooseRoots(p)
  <2>1. /\ pass[p].phase = "slice"
        /\ pass'[p].phase = "roots" /\ pass'[p].todo = pass[p].todo
        /\ pass'[p].roots = pass[p].heads \union KnownRoots(pass[p].oldest)
        /\ pass'[p].missed = {t \in Posted : /\ IsReply(t) /\ t >= pass[p].oldest
                                             /\ Hidden(p, slack[t].root)}
        /\ pass'[p].newest = pass[p].newest /\ pass'[p].upto = pass[p].upto
        /\ pass'[p].bounded = pass[p].bounded /\ pass'[p].oldest = pass[p].oldest
    BY <1>1, <1>9, ChannelFacts DEF ChooseRoots, Pass
  <2>2. \A t \in Ts : Got(p, t) => Got(p, t)'
    BY <2>1 DEF Got, Grows
  <2>3. ASSUME NEW t \in Posted, IsReply(t), Settled(p, t), Within(p, t)
        PROVE  Settled(p, t)'
    <3>1. slack[t].root \in pass[p].heads \/ slack[t].root < pass[p].oldest
      BY <2>1, <2>3 DEF Settled
    <3>2. slack[t].root \in Ts /\ pass[p].oldest \in Nat /\ t \in Nat
      BY <1>1, <2>3 DEF InRange, RootsAreHeads, Pass, Ts
    <3>3. CASE Hidden(p, slack[t].root)
      <4>1. t \in pass'[p].missed
        BY <2>1, <2>3, <3>2, <3>3 DEF Within
      <4> QED BY <1>2, <2>1, <4>1 DEF Settled
    <3>4. CASE ~Hidden(p, slack[t].root)
      <4>1. slack[t].root \in pass'[p].roots
        <5>1. CASE slack[t].root \in pass[p].heads
          BY <2>1, <5>1
        <5>2. CASE slack[t].root \notin pass[p].heads
          <6>1. slack[t].root \in threaded /\ ~(slack[t].root + Lookback < pass[p].oldest)
            BY <3>4, <5>2 DEF Hidden
          <6>2. slack[t].root \in Nat /\ Lookback \in Nat
            BY <3>2, BackfillAssumption DEF Ts
          <6>3. pass[p].oldest > 0 /\ slack[t].root + Lookback >= pass[p].oldest
            BY <3>1, <3>2, <5>2, <6>1, <6>2
          <6> QED BY <2>1, <6>1, <6>3 DEF KnownRoots
        <5> QED BY <5>1, <5>2
      <4> QED BY <1>2, <2>1, <4>1 DEF Settled
    <3> QED BY <3>3, <3>4
  <2> QED BY <1>1, <1>2, <1>3, <2>1, <2>2, <2>3 DEF Covered, Within, IsReply, Pass, Ts
<1>10. ASSUME NEW root \in pass[p].roots, NEW withRoot \in BOOLEAN,
              FetchReplies(p, root, withRoot)
       PROVE  Covered(p)'
  <2> DEFINE thread == {t \in Posted : slack[t].root = root /\ t >= pass[p].oldest}
                         \union (IF withRoot \/ root >= pass[p].oldest THEN {root} ELSE {})
  <2>1. /\ pass[p].phase = "roots" /\ pass[p].todo = {}
        /\ pass'[p].phase = "roots" /\ pass'[p].todo = {Copy(t) : t \in thread}
        /\ pass'[p].roots = pass[p].roots \ {root}
        /\ pass'[p].missed = pass[p].missed
        /\ pass'[p].newest = Latest(thread, pass[p].newest) /\ pass'[p].upto = pass[p].upto
        /\ pass'[p].bounded = pass[p].bounded /\ pass'[p].oldest = pass[p].oldest
    BY <1>1, <1>10, ChannelFacts DEF FetchReplies, NextThread, Pass
  <2>2. thread \subseteq Posted
    BY <1>1 DEF PassInRange
  <2>3. \A t \in Posted : slack[t].root = root /\ t >= pass[p].oldest => t \in thread
    OBVIOUS
  <2> HIDE DEF thread
  <2>4. \A t \in thread : Got(p, t)'
    BY <1>1, <2>1, <2>2, CopyFacts DEF Got
  <2>5. \A t \in Ts : Got(p, t) => Got(p, t)'
    BY <2>1 DEF Got, Grows
  <2>6. Latest(thread, pass[p].newest) \in thread \union {pass[p].newest}
    <3>1. /\ thread \subseteq 0 .. Len(slack) /\ Len(slack) \in Nat
          /\ pass[p].newest \in 0 .. Len(slack)
      BY <1>1, <2>2, ChannelFacts DEF PassInRange, Pass
    <3> QED BY <3>1, LatestIsOne
  <2>7. ~pass[p].bounded => (pass'[p].newest = 0 \/ Got(p, pass[p].newest)')
    <3>1. pass[p].newest # 0 => pass[p].newest \in Ts
      BY <1>1 DEF Pass, Ts
    <3> QED BY <1>1, <2>1, <2>4, <2>5, <2>6, <3>1 DEF Covered
  <2>8. ASSUME NEW t \in Posted, IsReply(t), Settled(p, t), Within(p, t)
        PROVE  Settled(p, t)'
    <3>1. Got(p, t) \/ slack[t].root \in pass[p].roots \/ t \in pass[p].missed
      BY <2>1, <2>8 DEF Settled
    <3>2. slack[t].root = root => Got(p, t)'
      BY <1>1, <2>3, <2>4, <2>8 DEF Within, Pass, Ts
    <3> QED BY <1>1, <1>2, <2>1, <2>5, <3>1, <3>2 DEF Settled
  <2>9. ASSUME ~pass[p].bounded, NEW t \in Posted, Within(p, t)'
        PROVE  IF IsReply(t)' THEN Settled(p, t)' ELSE Got(p, t)'
    <3>1. Within(p, t) /\ (IsReply(t)' <=> IsReply(t))
      BY <1>2, <2>1, <2>9 DEF Within, IsReply
    <3>2. IF IsReply(t) THEN Settled(p, t) ELSE Got(p, t)
      BY <1>1, <2>1, <2>9, <3>1 DEF Covered
    <3> QED BY <1>1, <2>5, <2>8, <3>1, <3>2
  <2> QED BY <1>1, <1>2, <1>3, <2>1, <2>7, <2>9 DEF Covered
<1>11. ASSUME NEW root \in pass[p].roots, SkipThread(p, root)
       PROVE  Covered(p)'
  <2>1. /\ pass[p].phase = "roots" /\ pass'[p].phase = "roots"
        /\ pass'[p].todo = pass[p].todo /\ pass'[p].roots = pass[p].roots \ {root}
        /\ pass'[p].missed = pass[p].missed \union
                {t \in Posted : slack[t].root = root /\ t >= pass[p].oldest}
        /\ pass'[p].newest = pass[p].newest /\ pass'[p].upto = pass[p].upto
        /\ pass'[p].bounded = pass[p].bounded /\ pass'[p].oldest = pass[p].oldest
    BY <1>1, <1>11, ChannelFacts DEF SkipThread, NextThread, Pass
  <2>2. \A t \in Ts : Got(p, t) => Got(p, t)'
    BY <2>1 DEF Got, Grows
  <2>3. ASSUME NEW t \in Posted, IsReply(t), Settled(p, t), Within(p, t)
        PROVE  Settled(p, t)'
    <3>1. Got(p, t) \/ slack[t].root \in pass[p].roots \/ t \in pass[p].missed
      BY <2>1, <2>3 DEF Settled
    <3>2. slack[t].root = root => t \in pass'[p].missed
      BY <1>1, <2>1, <2>3 DEF Within, Pass, Ts
    <3> QED BY <1>1, <1>2, <2>1, <2>2, <3>1, <3>2 DEF Settled
  <2> QED BY <1>1, <1>2, <1>3, <2>1, <2>2, <2>3 DEF Covered, Within, IsReply, Pass, Ts
<1> QED BY <1>4, <1>5, <1>6, <1>7, <1>8, <1>9, <1>10, <1>11 DEF StepOf

(* The checkpoint moves only over what a finished pass has covered.        *)
LEMMA FinishCovers ==
    ASSUME IInv, NEW p \in Procs, Finish(p)
    PROVE  CheckpointCovers'
<1>1. /\ pass[p] \in Pass /\ Covered(p) /\ TypeOK /\ CheckpointCovers
      /\ Posted \subseteq Ts /\ pass[p].todo = {} /\ pass[p].roots = {}
      /\ pass[p].phase = "roots"
  BY ChannelFacts DEF IInv, PassesCover, Finish
<1>2. /\ slack' = slack /\ rows' = rows /\ Posted' = Posted
      /\ passed \subseteq passed' /\ unreached \subseteq unreached'
  BY DEF Finish, Posted
<1>3. CASE checkpoint' = checkpoint
  BY <1>1, <1>2, <1>3 DEF CheckpointCovers
<1>4. CASE checkpoint' # checkpoint
  <2>1. ~pass[p].bounded /\ pass[p].newest # 0 /\ checkpoint' = pass[p].newest
    BY <1>4 DEF Finish, NewCheckpoint
  <2>2. ASSUME NEW t \in Posted, t <= pass[p].newest, rows[t] = 0
        PROVE  t \in passed' \union unreached'
    <3>1. t \in Nat /\ pass[p].newest \in Nat /\ pass[p].upto \in Nat /\ pass[p].oldest \in Nat
      BY <1>1 DEF Pass, Ts
    <3>2. ~Got(p, t)
      BY <1>1, <2>2 DEF Got
    <3>3. t # pass[p].newest
      BY <1>1, <2>1, <3>2 DEF Covered
    <3>4. CASE t <= pass[p].oldest
      BY <1>1, <1>2, <2>1, <2>2, <3>4 DEF Covered, Mirrored
    <3>5. CASE t > pass[p].upto
      BY <2>1, <2>2, <3>1, <3>3, <3>5 DEF Finish
    <3>6. CASE Within(p, t)
      <4>1. IsReply(t) /\ Settled(p, t)
        BY <1>1, <2>1, <3>2, <3>6 DEF Covered
      <4>2. t \in pass[p].missed
        BY <1>1, <3>2, <4>1 DEF Settled
      <4> QED BY <2>1, <2>2, <4>2 DEF Finish
    <3> QED BY <3>1, <3>4, <3>5, <3>6 DEF Within
  <2> QED BY <1>1, <1>2, <2>1, <2>2, ChannelFacts DEF CheckpointCovers
<1> QED BY <1>3, <1>4

LEMMA CheckpointStep ==
    ASSUME IInv, Next, Grows
    PROVE  CheckpointCovers'
<1>1. /\ TypeOK /\ InRange /\ CheckpointCovers
      /\ Posted \subseteq Ts /\ Len(slack) \in Nat /\ checkpoint \in 0 .. Len(slack)
  BY ChannelFacts DEF IInv, InRange, TypeOK
<1>2. CASE \E p \in Procs : Finish(p)
  BY <1>2, FinishCovers
<1>3. CASE checkpoint' = checkpoint
  <2>1. ASSUME NEW t \in Posted', t <= checkpoint
        PROVE  t \in Posted
    BY <1>1, <2>1 DEF Grows, Ts
  <2> QED BY <1>1, <1>3, <2>1 DEF CheckpointCovers, Grows
<1>4. CASE \/ \E root \in 0 .. MaxTs, live \in BOOLEAN : Post(root, live)
           \/ \E t \in Posted, live \in BOOLEAN : Edit(t, live)
  BY <1>3, <1>4 DEF Post, Edit
<1>5. ASSUME NEW p \in Procs, StepOf(p)
      PROVE  Finish(p) \/ checkpoint' = checkpoint
  BY <1>5 DEF StepOf, Start, StartBounded, FetchHistory, Upsert, ChooseRoots,
              FetchReplies, SkipThread, Cut
<1> QED BY <1>2, <1>3, <1>4, <1>5 DEF Next, StepOf

LEMMA PassesStep ==
    ASSUME IInv, Next, Grows, NEW p \in Procs
    PROVE  Covered(p)'
<1>1. TypeOK /\ InRange /\ Covered(p)
  BY DEF IInv, PassesCover
<1>2. CASE StepOf(p)
  BY <1>2, OwnStepCovers
<1>3. CASE pass'[p] = pass[p]
  BY <1>1, <1>3, CoveredStays
<1>4. ASSUME NEW q \in Procs, q # p, StepOf(q)
      PROVE  pass'[p] = pass[p]
  BY <1>1, <1>4, ChannelFacts
     DEF StepOf, Start, StartBounded, FetchHistory, Upsert, ChooseRoots,
         FetchReplies, SkipThread, Finish, Cut
<1>5. CASE \/ \E root \in 0 .. MaxTs, live \in BOOLEAN : Post(root, live)
           \/ \E t \in Posted, live \in BOOLEAN : Edit(t, live)
  BY <1>5, <1>3 DEF Post, Edit
<1>6. \/ \E q \in Procs : StepOf(q)
      \/ \E root \in 0 .. MaxTs, live \in BOOLEAN : Post(root, live)
      \/ \E t \in Posted, live \in BOOLEAN : Edit(t, live)
  BY DEF Next, StepOf
<1> QED BY <1>2, <1>3, <1>4, <1>5, <1>6

-----------------------------------------------------------------------------
(* The theorems *)

LEMMA InitInv == Init => IInv
<1> SUFFICES ASSUME Init PROVE IInv
  OBVIOUS
<1>1. TypeOK
  BY InitTypeOK
<1>2. Posted = {} /\ Len(slack) = 0
  BY DEF Init, Posted
<1>3. InRange
  BY <1>1, <1>2 DEF Init, InRange, RootsAreHeads, Versioned, PassInRange, NoPass
<1>4. PassesCover /\ CheckpointCovers
  BY <1>2 DEF Init, PassesCover, Covered, NoPass, CheckpointCovers
<1> QED BY <1>1, <1>3, <1>4 DEF IInv

LEMMA InvStep == IInv /\ [Next]_vars => IInv'
<1> SUFFICES ASSUME IInv, [Next]_vars PROVE IInv'
  OBVIOUS
<1>1. TypeOK' /\ InRange'
  BY TypeStep DEF IInv
<1>2. CASE Next
  <2>1. Grows
    BY <1>2, StepGrows DEF IInv
  <2>2. PassesCover'
    BY <1>2, <2>1, PassesStep DEF PassesCover
  <2> QED BY <1>1, <1>2, <2>1, <2>2, CheckpointStep DEF IInv
<1>3. CASE UNCHANGED vars
  BY <1>1, <1>3 DEF vars, IInv, PassesCover, Covered, CheckpointCovers, Mirrored, Got,
                    Settled, Within, IsReply, Posted
<1> QED BY <1>2, <1>3

LEMMA Invariance == Spec => []IInv
BY InitInv, InvStep, PTL DEF Spec

(* However passes overlap, are cut short, are given bounds of their own or *)
(* skip threads (backfill_messages), every variable keeps its type: what a *)
(* pass holds are messages that were posted.                               *)
THEOREM BackfillTypeCorrect == Spec => []TypeOK
BY Invariance, PTL DEF IInv

(* Everything up to the checkpoint is mirrored, with the two named         *)
(* exceptions, for any number of passes on any channel.                    *)
THEOREM CheckpointIsCovered == Spec => []CheckpointCovers
BY Invariance, PTL DEF IInv
=============================================================================
