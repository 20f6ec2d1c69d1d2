--------------------------- MODULE Services_proofs ---------------------------
(***************************************************************************)
(* Proofs about what serves the mirror, for any number of events, clients, *)
(* messages, documents, names, channels, workers and threads and every     *)
(* value of the bounds.                                                    *)
(*                                                                         *)
(* The journal: a reader which pages on misses only what                   *)
(* PagesMissOnlyLateRecords names. The cursor is the last event of a page  *)
(* and a page the first events past the cursor, so nothing lies between    *)
(* two pages (PageIsPrefix). What is recorded behind the cursor is then    *)
(* the only thing to miss: Clocked bounds it by the clock, and Serial says *)
(* why a follower of the journal never sees an older second again: a       *)
(* transaction stamped earlier than its cursor would have been open when   *)
(* the cursor's event was written, but where the cursor is the one it      *)
(* began at, which may be of an export.                                    *)
(*                                                                         *)
(* Sign-in: the bound on failures that requests verifying at once can      *)
(* reach (FailuresBounded), and what a name's password is                  *)
(* (CredentialsStand). Throttled counts with the failures that are written *)
(* the requests that may still write one. The steps of one setting are     *)
(* alone unless two overlap (OneSetting): what is between its statements   *)
(* is its own.                                                             *)
(*                                                                         *)
(* Semantic rollout: what search health and the rollout plan call ready is *)
(* (ReadinessStands). EmbeddingsKept says what an embedding may be between *)
(* the reports, whatever backfills and jobs are under way.                 *)
(*                                                                         *)
(* The directory, reports and exports: Follows, ChoreStands and TaskStands *)
(* say at each step what is still to come or has been left behind. The     *)
(* standalone exporter: TreeFits says how far the files of a conversation  *)
(* have got. Catch-up: TriedLastIn puts what a run tried behind all it did *)
(* not.                                                                    *)
(***************************************************************************)
EXTENDS MCServices, Sorting_proofs, SequenceTheorems

-----------------------------------------------------------------------------
(* The journal *)

Times == 1 .. MaxClock

JournalPlaces == Times \X Events

LEMMA EarlierIsOrder ==
    ASSUME NEW x \in Nat \X Nat, NEW y \in Nat \X Nat, NEW z \in Nat \X Nat
    PROVE  /\ ~Earlier(x, x)
           /\ Earlier(x, y) /\ Earlier(y, z) => Earlier(x, z)
           /\ Earlier(x, y) \/ x = y \/ Earlier(y, x)
BY DEF Earlier

LEMMA PlacesArePairs == JournalPlaces \subseteq Nat \X Nat /\ Events \subseteq Nat /\ Times \subseteq Nat
<1>1. Events \subseteq Nat /\ Times \subseteq Nat
  BY JournalAssumption DEF Times
<1> QED BY <1>1 DEF JournalPlaces

LEMMA WindowFacts ==
    ASSUME JournalTypeOK
    PROVE  /\ Recorded \subseteq JournalPlaces /\ IsFiniteSet(Recorded)
           /\ Window \subseteq JournalPlaces /\ IsFiniteSet(Window) /\ Window \subseteq Recorded
<1>1. Recorded \subseteq JournalPlaces
  <2> SUFFICES ASSUME NEW e \in Events, recorded[e] # 0 PROVE <<recorded[e], e>> \in JournalPlaces
    BY DEF Recorded
  <2>1. recorded[e] \in 0 .. MaxClock /\ MaxClock \in Nat
    BY JournalAssumption DEF JournalTypeOK
  <2>2. recorded[e] \in Times
    BY <2>1 DEF Times
  <2> QED BY <2>2 DEF JournalPlaces
<1>2. IsFiniteSet(Recorded)
  <2> DEFINE There == {x \in Events : recorded[x] # 0}
             enumeration == [e \in There |-> <<recorded[e], e>>]
  <2>1. IsFiniteSet(There)
    BY JournalAssumption, FS_Subset
  <2>2. enumeration \in Surjection(There, Recorded)
    BY DEF Recorded, Surjection
  <2> QED BY <2>1, <2>2, FS_Surjection
<1>3. Window \subseteq Recorded
  BY DEF Window
<1>4. IsFiniteSet(Window)
  BY <1>2, <1>3, FS_Subset
<1> QED BY <1>1, <1>2, <1>3, <1>4

(* What is shown: the events recorded, to a follower those of the journal. *)
LEMMA WindowIs ==
    \A x : x \in Window <=>
        \E e \in Events : recorded[e] # 0 /\ x = <<recorded[e], e>> /\ (follows => e \in Journaled)
BY DEF Window, Recorded

(* A finite set of events that is not empty has a last one: of the sets of *)
(* events later than a given one, the smallest is empty.                   *)
LEMMA LastExists ==
    ASSUME NEW P, P \subseteq Nat \X Nat, IsFiniteSet(P), P # {}
    PROVE  LastOf(P) \in P /\ \A y \in P : y = LastOf(P) \/ Earlier(y, LastOf(P))
<1> DEFINE FromOn(x) == {y \in P : Earlier(x, y)}
           All == {FromOn(x) : x \in P}
<1>1. All \subseteq FiniteSubsetsOf(P) /\ All # {}
  <2>1. ASSUME NEW x \in P PROVE FromOn(x) \in FiniteSubsetsOf(P)
    BY FS_Subset DEF FiniteSubsetsOf
  <2> QED BY <2>1
<1>2. PICK A \in All : \A B \in All : <<B, A>> \notin StrictSubsetOrdering(P)
  BY <1>1, WFMin, FS_StrictSubsetOrderingWellFounded
<1>3. PICK x \in P : A = FromOn(x)
  BY <1>2
<1>4. ASSUME NEW y \in P, Earlier(x, y) PROVE FALSE
  <2>1. FromOn(y) \subseteq FromOn(x)
    BY <1>4, EarlierIsOrder
  <2>2. y \in FromOn(x) /\ y \notin FromOn(y)
    BY <1>4, EarlierIsOrder
  <2>3. <<FromOn(y), FromOn(x)>> \in StrictSubsetOrdering(P)
    BY <2>1, <2>2 DEF StrictSubsetOrdering
  <2> QED BY <1>2, <1>3, <2>3
<1>5. \A y \in P : y = x \/ Earlier(y, x)
  BY <1>4, EarlierIsOrder
<1> QED BY <1>5 DEF LastOf

(* What is earlier than an event of a page and past its start is on it.    *)
LEMMA PageIsPrefix ==
    ASSUME JournalTypeOK, NEW x \in Page, NEW y \in After(after), Earlier(y, x)
    PROVE  y \in Page
<1> DEFINE S == After(after)
           Before(z) == {w \in S : Earlier(w, z)}
<1>1. S \subseteq Nat \X Nat /\ IsFiniteSet(S)
  BY WindowFacts, PlacesArePairs, FS_Subset DEF After
<1>2. Before(y) \subseteq Before(x) /\ x \in S
  BY <1>1, EarlierIsOrder DEF Page, FirstOf
<1>3. IsFiniteSet(Before(x)) /\ IsFiniteSet(Before(y))
  BY <1>1, FS_Subset
<1>4. Cardinality(Before(y)) <= Cardinality(Before(x))
  BY <1>2, <1>3, FS_Subset
<1>5. Cardinality(Before(x)) \in Nat /\ Cardinality(Before(y)) \in Nat
  BY <1>3, FS_CardinalityType
<1>6. Cardinality(Before(x)) < Limit
  BY DEF Page, FirstOf
<1>7. Cardinality(Before(y)) < Limit
  BY <1>4, <1>5, <1>6, JournalAssumption
<1> QED BY <1>7 DEF Page, FirstOf

(* Where the cursor goes when a page has events.                           *)
LEMMA CursorIsOnPage ==
    ASSUME JournalTypeOK, Page # {}
    PROVE  /\ NextCursor \in Page /\ Page \subseteq After(after) /\ Page \subseteq Window
           /\ \A y \in Page : y = NextCursor \/ Earlier(y, NextCursor)
<1>1. Page \subseteq After(after) /\ After(after) \subseteq Window
  BY DEF Page, FirstOf, After
<1>2. Page \subseteq Nat \X Nat /\ IsFiniteSet(Page)
  BY <1>1, WindowFacts, PlacesArePairs, FS_Subset
<1> QED BY <1>1, <1>2, LastExists DEF NextCursor

LEMMA LatestIsRecorded ==
    ASSUME JournalTypeOK, Recorded # {}
    PROVE  /\ LastOf(Recorded) \in Recorded
           /\ \A y \in Recorded : y = LastOf(Recorded) \/ Earlier(y, LastOf(Recorded))
BY WindowFacts, PlacesArePairs, LastExists

-----------------------------------------------------------------------------
(* Type correctness *)

(* The clock runs ahead of everything recorded.                            *)
Clocked ==
    /\ \A e \in Events : recorded[e] <= clock
    /\ writing[1] <= clock /\ after[1] <= clock

JournalTypeInv == JournalTypeOK /\ Clocked

Dropping ==
    \E x \in Created, line \in Removed :
        Drop(x, line) \/ \E title \in Created : Retitle(x, title, line)

Recording ==
    \/ Commit \/ \E e \in Observed : Unlink(e)
    \/ \E x \in Created : Build(x)
    \/ \E line \in Removed : Log(line)
    \/ Dropping

Reading == Read \/ StartLatest

LEMMA JournalNextCases ==
    ASSUME [JournalNext]_journalVars
    PROVE  \/ Second \/ Recording \/ Reading \/ \E e \in Tabled : Stamp(e)
           \/ UNCHANGED journalVars
BY DEF JournalNext, Recording, Dropping, Reading

LEMMA Constants ==
    /\ MaxClock \in Nat \ {0} /\ MaxAgain \in Nat /\ Times \subseteq Nat \ {0}
    /\ Events \subseteq Nat \ {0} /\ Tabled \subseteq Events /\ Files \subseteq Events
    /\ Observed \subseteq Tabled /\ Journaled \subseteq Tabled
    /\ Created \subseteq Files /\ Removed \subseteq Files
    /\ Created \intersect Removed = {} /\ Files \intersect Tabled = {}
    /\ Journaled \intersect Observed = {}
BY JournalAssumption DEF Times, Tabled, Files, Events

LateKinds == {"no", "tied", "overtaken", "renamed"}

LEMMA JournalTypesUnfold ==
    ASSUME JournalTypeInv
    PROVE  /\ clock \in Times /\ clock \in Nat
           /\ recorded \in [Events -> 0 .. MaxClock]
           /\ \A e \in Events : recorded[e] \in Nat /\ recorded[e] <= clock
           /\ writing \in {Start} \union (Times \X Tabled)
           /\ writing[1] \in Nat /\ writing[1] <= clock
           /\ after \in {Start} \union JournalPlaces /\ after \in Nat \X Nat
           /\ after[1] \in Nat /\ after[2] \in Nat /\ after[1] <= clock
           /\ follows \in BOOLEAN /\ stale \in BOOLEAN /\ again \in 0 .. MaxAgain
           /\ began \in {Start} \union JournalPlaces /\ owed \subseteq Removed
           /\ seen \subseteq Events /\ moved \in BOOLEAN /\ late \in [Events -> LateKinds]
<1>1. /\ clock \in Times /\ clock \in Nat
      /\ writing \in {Start} \union (Times \X Tabled) /\ after \in {Start} \union JournalPlaces
  BY Constants DEF JournalTypeInv, JournalTypeOK, Times, JournalPlaces
<1>2. \A e \in Events : recorded[e] \in Nat
  BY Constants DEF JournalTypeInv, JournalTypeOK
<1>3. writing[1] \in Nat
  <2>1. CASE writing = Start
    BY <2>1 DEF Start
  <2>2. CASE writing \in Times \X Tabled
    <3>1. writing[1] \in Times
      BY <2>2
    <3> QED BY <3>1, Constants
  <2> QED BY <1>1, <2>1, <2>2
<1>4. after[1] \in Nat /\ after[2] \in Nat /\ after \in Nat \X Nat
  <2>1. CASE after = Start
    BY <2>1 DEF Start
  <2>2. CASE after \in JournalPlaces
    BY <2>2, PlacesArePairs
  <2> QED BY <1>1, <2>1, <2>2
<1> QED BY <1>1, <1>2, <1>3, <1>4
     DEF JournalTypeInv, JournalTypeOK, Clocked, Times, JournalPlaces, LateKinds

LEMMA RecordsKeepTypes ==
    ASSUME JournalTypeInv, NEW e \in Events, NEW t \in 0 .. clock, Records(e, t)
    PROVE  /\ recorded' \in [Events -> 0 .. MaxClock]
           /\ \A x \in Events : recorded'[x] <= clock
           /\ moved' \in BOOLEAN /\ seen' \subseteq Events /\ late' \in [Events -> LateKinds]
<1>1. t \in 0 .. MaxClock
  BY JournalTypesUnfold, Constants DEF Times
<1>2. Lateness(e, t) \in LateKinds
  BY DEF Lateness, LateKinds
<1>3. recorded' \in [Events -> 0 .. MaxClock] /\ \A x \in Events : recorded'[x] <= clock
  BY <1>1, JournalTypesUnfold DEF Records
<1>4. late' \in [Events -> LateKinds]
  BY <1>2, JournalTypesUnfold DEF Records
<1>5. moved' \in BOOLEAN /\ seen' \subseteq Events
  BY JournalTypesUnfold DEF Records
<1> QED BY <1>3, <1>4, <1>5

LEMMA RecountBounds ==
    ASSUME JournalTypeInv, NEW e, Recount(e) PROVE again' \in 0 .. MaxAgain
BY JournalTypesUnfold, Constants DEF Recount

(* A step that leaves the clock and the reader's cursor alone.             *)
LEMMA RecordingFrame ==
    ASSUME JournalTypeInv, UNCHANGED <<clock, cursorVars>>,
           recorded' \in [Events -> 0 .. MaxClock], \A x \in Events : recorded'[x] <= clock,
           writing' \in {Start} \union (Times \X Tabled), writing'[1] <= clock,
           owed' \subseteq Removed, again' \in 0 .. MaxAgain, moved' \in BOOLEAN,
           seen' \subseteq Events, late' \in [Events -> LateKinds]
    PROVE  JournalTypeInv'
BY DEF JournalTypeInv, JournalTypeOK, Clocked, cursorVars, Times, JournalPlaces, LateKinds

LEMMA DroppingKeepsTypes ==
    ASSUME JournalTypeInv, Dropping
    PROVE  JournalTypeInv'
<1>1. PICK x \in Created, line \in Removed :
        Drop(x, line) \/ \E title \in Created : Retitle(x, title, line)
  BY DEF Dropping
<1>2. x \in Events /\ again' \in 0 .. MaxAgain /\ owed' \subseteq Removed
  <2>1. Recount(x) /\ owed' = owed \union {line}
    BY <1>1 DEF Drop, Retitle, Owe
  <2>2. owed \subseteq Removed
    BY JournalTypesUnfold
  <2> QED BY <2>1, <2>2, RecountBounds, Constants
<1>3. CASE Drop(x, line)
  <2>1. 0 \in 0 .. clock
    BY JournalTypesUnfold
  <2> QED BY <1>2, <1>3, <2>1, RecordsKeepTypes, RecordingFrame, JournalTypesUnfold DEF Drop
<1>4. ASSUME NEW title \in Created, Retitle(x, title, line) PROVE JournalTypeInv'
  <2>1. /\ recorded' = [recorded EXCEPT ![x] = 0, ![title] = recorded[x]]
        /\ moved' = TRUE /\ seen' = seen \ {x} /\ UNCHANGED <<clock, writing, cursorVars>>
    BY <1>4 DEF Retitle
  <2>2. recorded' \in [Events -> 0 .. MaxClock] /\ \A y \in Events : recorded'[y] <= clock
    <3>1. 0 \in 0 .. MaxClock /\ recorded[x] \in 0 .. MaxClock /\ recorded[x] <= clock
      BY <1>2, JournalTypesUnfold, Constants
    <3>2. /\ recorded \in [Events -> 0 .. MaxClock] /\ x \in Events /\ title \in Events
          /\ \A y \in Events : recorded[y] <= clock
      BY <1>2, JournalTypesUnfold, Constants
    <3>3. /\ recorded' \in [Events -> 0 .. MaxClock]
          /\ \A y \in Events : recorded'[y] \in {0, recorded[x], recorded[y]}
      BY <2>1, <3>1, <3>2
    <3>4. 0 <= clock
      BY JournalTypesUnfold
    <3> QED BY <3>1, <3>2, <3>3, <3>4
  <2>3. late' \in [Events -> LateKinds]
    BY <1>4, JournalTypesUnfold DEF Retitle, LateKinds
  <2>4. seen' \subseteq Events
    BY <2>1, JournalTypesUnfold
  <2> QED BY <1>2, <2>1, <2>2, <2>3, <2>4, JournalTypesUnfold, RecordingFrame
<1> QED BY <1>1, <1>3, <1>4

LEMMA RecordingKeepsTypes ==
    ASSUME JournalTypeInv, Recording
    PROVE  JournalTypeInv'
<1>1. CASE Commit
  <2>1. writing \in Times \X Tabled
    BY <1>1, JournalTypesUnfold DEF Commit
  <2>2. writing[2] \in Events /\ writing[1] \in 0 .. clock
    <3>1. writing[2] \in Tabled /\ writing[1] \in Times
      BY <2>1
    <3>2. writing[2] \in Events
      BY <3>1, Constants
    <3>3. clock \in Nat /\ writing[1] \in Nat /\ writing[1] <= clock
      BY <3>1, JournalTypesUnfold DEF Times
    <3> QED BY <3>2, <3>3
  <2>3. Start[1] <= clock
    BY JournalTypesUnfold DEF Start
  <2> QED BY <1>1, <2>2, <2>3, RecordsKeepTypes, RecordingFrame, JournalTypesUnfold DEF Commit
<1>2. ASSUME NEW e \in Observed, Unlink(e) PROVE JournalTypeInv'
  <2>1. e \in Events /\ 0 \in 0 .. clock /\ again' \in 0 .. MaxAgain
    BY <1>2, JournalTypesUnfold, RecountBounds, Constants DEF Unlink
  <2> QED BY <1>2, <2>1, RecordsKeepTypes, RecordingFrame, JournalTypesUnfold DEF Unlink
<1>3. ASSUME NEW x \in Created, Build(x) PROVE JournalTypeInv'
  <2>1. x \in Events /\ clock \in 0 .. clock /\ again' \in 0 .. MaxAgain
    BY <1>3, JournalTypesUnfold, RecountBounds, Constants DEF Build
  <2> QED BY <1>3, <2>1, RecordsKeepTypes, RecordingFrame, JournalTypesUnfold DEF Build
<1>4. ASSUME NEW line \in Removed, Log(line) PROVE JournalTypeInv'
  <2>1. line \in Events /\ clock \in 0 .. clock /\ owed' \subseteq Removed
    BY <1>4, JournalTypesUnfold, Constants DEF Log
  <2> QED BY <1>4, <2>1, RecordsKeepTypes, RecordingFrame, JournalTypesUnfold DEF Log
<1> QED BY <1>1, <1>2, <1>3, <1>4, DroppingKeepsTypes DEF Recording

LEMMA ReadingKeepsTypes ==
    ASSUME JournalTypeInv, Reading
    PROVE  JournalTypeInv'
<1>1. UNCHANGED <<clock, recorded, writing, owed, follows, again, moved, late>>
  BY DEF Reading, Read, StartLatest
<1>2. Recorded \subseteq JournalPlaces /\ \A x \in Recorded : x[1] <= clock /\ x[2] \in Events
  <2>1. \A x \in Recorded : x[1] <= clock /\ x[2] \in Events
    BY JournalTypesUnfold DEF Recorded
  <2> QED BY <2>1, WindowFacts DEF JournalTypeInv
<1>3. /\ after' = after \/ after' \in Recorded
      /\ began' = began \/ began' \in Recorded
      /\ seen' \subseteq Events /\ stale' \in BOOLEAN
  <2>1. CASE Read
    <3>1. Page # {} => NextCursor \in Recorded
      BY CursorIsOnPage, WindowFacts DEF JournalTypeInv
    <3>2. Page \subseteq Recorded
      BY WindowFacts DEF Page, FirstOf, After, JournalTypeInv
    <3>3. seen' \subseteq Events
      BY <1>2, <2>1, <3>2, JournalTypesUnfold DEF Read
    <3> QED BY <2>1, <3>1, <3>3 DEF Read, StaleCursor
  <2>2. CASE StartLatest
    <3>1. after' \in Recorded /\ began' = after'
      BY <2>2, LatestIsRecorded DEF StartLatest, JournalTypeInv
    <3>2. seen' \subseteq Events
      BY <1>2, <2>2 DEF StartLatest
    <3> QED BY <2>2, <3>1, <3>2, JournalTypesUnfold DEF StartLatest
  <2> QED BY <2>1, <2>2 DEF Reading
<1>4. after' \in {Start} \union JournalPlaces /\ began' \in {Start} \union JournalPlaces
  BY <1>2, <1>3, JournalTypesUnfold
<1>5. after'[1] <= clock
  BY <1>2, <1>3, JournalTypesUnfold
<1> QED BY <1>1, <1>3, <1>4, <1>5 DEF JournalTypeInv, JournalTypeOK, Clocked, Times, JournalPlaces

LEMMA JournalNextTypeInv == JournalTypeInv /\ [JournalNext]_journalVars => JournalTypeInv'
<1> SUFFICES ASSUME JournalTypeInv, [JournalNext]_journalVars PROVE JournalTypeInv'
  OBVIOUS
<1>1. CASE Second
  <2>1. /\ clock' \in 1 .. MaxClock /\ clock' = clock + 1
        /\ \A e \in Events : recorded[e] <= clock'
        /\ writing[1] <= clock' /\ after[1] <= clock'
    BY <1>1, JournalTypesUnfold, Constants DEF Second, Times
  <2> QED BY <1>1, <2>1 DEF Second, JournalTypeInv, JournalTypeOK, Clocked, readerVars, cursorVars
<1>2. ASSUME NEW e \in Tabled, Stamp(e) PROVE JournalTypeInv'
  <2>1. writing' \in Times \X Tabled /\ writing'[1] <= clock
    BY <1>2, JournalTypesUnfold DEF Stamp
  <2>2. again' \in 0 .. MaxAgain
    BY <1>2, RecountBounds DEF Stamp
  <2> QED BY <1>2, <2>1, <2>2, JournalTypesUnfold, RecordingFrame DEF Stamp, readerVars
<1>3. CASE UNCHANGED journalVars
  BY <1>3 DEF journalVars, readerVars, cursorVars, JournalTypeInv, JournalTypeOK, Clocked
<1> QED BY <1>1, <1>2, <1>3, RecordingKeepsTypes, ReadingKeepsTypes, JournalNextCases

LEMMA JournalInitTypeInv == JournalInit => JournalTypeInv
<1>1. 1 \in 1 .. MaxClock /\ 0 \in 0 .. MaxClock /\ 0 \in 0 .. MaxAgain
  BY Constants
<1> SUFFICES ASSUME JournalInit PROVE JournalTypeInv
  OBVIOUS
<1>2. JournalTypeOK
  BY <1>1 DEF JournalInit, JournalTypeOK
<1>3. Clocked
  BY DEF JournalInit, Clocked, Start
<1> QED BY <1>2, <1>3 DEF JournalTypeInv

(* Every variable of the journal and its reader keeps its type, and        *)
(* nothing is recorded or read ahead of the clock (child_event_journal,    *)
(* list_child_events).                                                     *)
THEOREM JournalTypeCorrect == JournalSpec => []JournalTypeOK
<1>1. JournalTypeInv => JournalTypeOK
  BY DEF JournalTypeInv
<1> QED BY <1>1, JournalInitTypeInv, JournalNextTypeInv, PTL DEF JournalSpec

-----------------------------------------------------------------------------
(* What a reader misses *)

(* Until an event moves or goes, the one its cursor names is there.  What  *)
(* a follower's cursor names is of the journal, but where it began.        *)
CursorStands ==
    /\ after # Start /\ ~moved => after \in Recorded
    /\ follows /\ after # Start => after[2] \in Journaled \/ after = began
    /\ began # Start => after # Start

(* While a row is written, a follower's cursor and the journal are no      *)
(* later than the second it was stamped with, but where the cursor is the  *)
(* one it began at.                                                        *)
Serial ==
    follows /\ writing # Start =>
        /\ after[1] <= writing[1] \/ after = began
        /\ \A e \in Journaled : recorded[e] <= writing[1]

(* Why an event recorded at second t may be missed.                        *)
Excused(e, t) ==
    \/ late[e] \in {"tied", "renamed"}
    \/ late[e] = "overtaken" /\ (follows => t < began[1])

(* An event that is shown is still to come, was given, or is excused.      *)
Reckoned(e) ==
    Earlier(after, <<recorded[e], e>>) \/ e \in seen \/ Excused(e, recorded[e])

Shown(e) == recorded[e] # 0 /\ (follows => e \in Journaled)

OnlyLateMissed == \A e \in Events : Shown(e) => Reckoned(e)

Reads ==
    /\ CursorStands /\ Serial /\ OnlyLateMissed
    /\ stale => moved \/ (follows /\ began # Start /\ began[2] \notin Journaled)

(* One event is recorded, for a follower only by a transaction that is     *)
(* stamped no earlier than its cursor, unless it has that from status.     *)
LEMMA RecordsKeepReads ==
    ASSUME JournalTypeInv, Reads, NEW e \in Events, NEW t \in 0 .. clock, Records(e, t),
           UNCHANGED <<clock, cursorVars>>,
           follows /\ e \in Journaled /\ t # 0 => after[1] <= t \/ after = began,
           writing' = Start \/ (writing' = writing /\ e \notin Journaled)
    PROVE  Reads'
<1>0. /\ recorded' = [recorded EXCEPT ![e] = t] /\ UNCHANGED <<after, began, stale, follows>>
      /\ seen' = seen \ {e} /\ late' = [late EXCEPT ![e] = Lateness(e, t)]
      /\ moved' = (moved \/ recorded[e] # 0) /\ t \in Nat /\ e \in Nat
  BY JournalTypesUnfold, Constants DEF Records, cursorVars
<1>1. /\ recorded'[e] = t /\ late'[e] = Lateness(e, t)
      /\ \A x \in Events : x # e => recorded'[x] = recorded[x] /\ late'[x] = late[x]
  BY <1>0, JournalTypesUnfold
<1>2. CursorStands'
  <2>1. ASSUME after # Start, ~moved' PROVE after \in Recorded'
    <3>1. recorded[e] = 0 /\ ~moved
      BY <1>0, <2>1
    <3>2. PICK x \in Events : recorded[x] # 0 /\ after = <<recorded[x], x>>
      BY <2>1, <3>1 DEF Reads, CursorStands, Recorded
    <3>3. recorded'[x] = recorded[x]
      BY <1>1, <3>1, <3>2
    <3> QED BY <3>2, <3>3 DEF Recorded
  <2> QED BY <1>0, <2>1 DEF Reads, CursorStands
<1>3. Serial'
  <2>1. CASE writing' = Start
    BY <2>1 DEF Serial
  <2>2. CASE writing' = writing /\ e \notin Journaled
    <3>1. \A x \in Journaled : recorded'[x] = recorded[x]
      BY <1>1, <2>2, Constants
    <3> QED BY <1>0, <2>2, <3>1 DEF Reads, Serial
  <2> QED BY <2>1, <2>2
<1>4. OnlyLateMissed'
  <2>1. ASSUME NEW x \in Events, Shown(x)', x # e PROVE Reckoned(x)'
    <3>1. Shown(x) /\ recorded'[x] = recorded[x] /\ late'[x] = late[x]
      BY <1>0, <1>1, <2>1 DEF Shown
    <3>2. Reckoned(x)
      BY <3>1 DEF Reads, OnlyLateMissed
    <3> QED BY <1>0, <2>1, <3>1, <3>2 DEF Reckoned, Excused, Earlier
  <2>2. ASSUME Shown(e)' PROVE Reckoned(e)'
    <3>1. t # 0 /\ (follows => e \in Journaled)
      BY <1>0, <1>1, <2>2 DEF Shown
    <3>2. CASE Earlier(after, <<t, e>>)
      BY <1>0, <1>1, <3>2 DEF Reckoned, Earlier
    <3>3. CASE ~Earlier(after, <<t, e>>) /\ t = after[1]
      <4>1. late'[e] = "tied"
        BY <1>1, <3>1, <3>3 DEF Lateness
      <4> QED BY <4>1 DEF Reckoned, Excused
    <3>4. CASE ~Earlier(after, <<t, e>>) /\ t # after[1]
      <4>1. late'[e] = "overtaken"
        BY <1>1, <3>1, <3>4 DEF Lateness
      <4>2. t < after[1]
        BY <1>0, <3>4, JournalTypesUnfold DEF Earlier
      <4>3. follows => after = began
        BY <1>0, <3>1, <4>2, JournalTypesUnfold
      <4>4. follows => t < began[1]
        BY <4>2, <4>3
      <4> QED BY <1>0, <1>1, <4>1, <4>4 DEF Reckoned, Excused
    <3> QED BY <3>2, <3>3, <3>4
  <2> QED BY <2>1, <2>2 DEF OnlyLateMissed
<1>5. stale' => moved' \/ (follows' /\ began' # Start /\ began'[2] \notin Journaled)
  BY <1>0 DEF Reads
<1> QED BY <1>2, <1>3, <1>4, <1>5 DEF Reads

(* A bundle that is renamed comes back under another name.                  *)
LEMMA RetitleKeepsReads ==
    ASSUME JournalTypeInv, Reads,
           NEW x \in Created, NEW title \in Created, NEW line \in Removed, Retitle(x, title, line)
    PROVE  Reads'
<1>0. /\ recorded' = [recorded EXCEPT ![x] = 0, ![title] = recorded[x]]
      /\ late' = [late EXCEPT ![x] = "no", ![title] =
                    IF Earlier(after, <<recorded[x], title>>) THEN "no" ELSE "renamed"]
      /\ moved' = TRUE /\ seen' = seen \ {x} /\ recorded[x] # 0 /\ recorded[title] = 0
      /\ UNCHANGED <<clock, writing, after, began, stale, follows>>
  BY DEF Retitle, cursorVars
<1>1. x \in Events \ Journaled /\ title \in Events \ Journaled /\ x # title
  BY <1>0, Constants
<1>2. /\ recorded'[x] = 0 /\ recorded'[title] = recorded[x]
      /\ late'[title] = IF Earlier(after, <<recorded[x], title>>) THEN "no" ELSE "renamed"
      /\ \A y \in Events : y # x /\ y # title => recorded'[y] = recorded[y] /\ late'[y] = late[y]
  BY <1>0, <1>1, JournalTypesUnfold
<1>3. CursorStands'
  BY <1>0 DEF Reads, CursorStands
<1>4. Serial'
  <2>1. \A y \in Journaled : recorded'[y] = recorded[y]
    BY <1>1, <1>2, Constants
  <2> QED BY <1>0, <2>1 DEF Reads, Serial
<1>5. ASSUME NEW y \in Events, Shown(y)' PROVE Reckoned(y)'
  <2>1. CASE y = x
    BY <1>2, <1>5, <2>1 DEF Shown
  <2>2. CASE y = title
    <3>1. CASE Earlier(after, <<recorded[x], title>>)
      BY <1>0, <1>2, <2>2, <3>1 DEF Reckoned, Earlier
    <3>2. CASE ~Earlier(after, <<recorded[x], title>>)
      <4>1. late'[title] = "renamed"
        BY <1>2, <3>2
      <4> QED BY <2>2, <4>1 DEF Reckoned, Excused
    <3> QED BY <3>1, <3>2
  <2>3. CASE y # x /\ y # title
    <3>1. Shown(y) /\ recorded'[y] = recorded[y] /\ late'[y] = late[y]
      BY <1>0, <1>2, <1>5, <2>3 DEF Shown
    <3>2. Reckoned(y)
      BY <3>1 DEF Reads, OnlyLateMissed
    <3> QED BY <1>0, <2>3, <3>1, <3>2 DEF Reckoned, Excused, Earlier
  <2> QED BY <2>1, <2>2, <2>3
<1> QED BY <1>0, <1>3, <1>4, <1>5 DEF Reads, OnlyLateMissed

LEMMA RecordingKeepsReads ==
    ASSUME JournalTypeInv, Reads, Recording
    PROVE  Reads'
<1>1. CASE Commit
  <2>1. writing \in Times \X Tabled /\ writing # Start
    BY <1>1, JournalTypesUnfold DEF Commit
  <2>2. writing[2] \in Events /\ writing[1] \in 0 .. clock
    <3>1. writing[2] \in Tabled /\ writing[1] \in Times
      BY <2>1
    <3>2. writing[2] \in Events
      BY <3>1, Constants
    <3>3. clock \in Nat /\ writing[1] \in Nat /\ writing[1] <= clock
      BY <3>1, JournalTypesUnfold DEF Times
    <3> QED BY <3>2, <3>3
  <2>3. follows => after[1] <= writing[1] \/ after = began
    BY <2>1 DEF Reads, Serial
  <2> QED BY <1>1, <2>2, <2>3, RecordsKeepReads DEF Commit
<1>2. ASSUME NEW e \in Observed, Unlink(e) PROVE Reads'
  <2>1. e \in Events /\ e \notin Journaled /\ 0 \in 0 .. clock
    BY JournalTypesUnfold, Constants
  <2> QED BY <1>2, <2>1, RecordsKeepReads DEF Unlink
<1>3. ASSUME NEW x \in Created, Build(x) PROVE Reads'
  <2>1. x \in Events /\ x \notin Journaled /\ clock \in 0 .. clock
    BY JournalTypesUnfold, Constants
  <2> QED BY <1>3, <2>1, RecordsKeepReads DEF Build
<1>4. ASSUME NEW x \in Created, NEW line \in Removed, Drop(x, line) PROVE Reads'
  <2>1. x \in Events /\ x \notin Journaled /\ 0 \in 0 .. clock
    BY JournalTypesUnfold, Constants
  <2> QED BY <1>4, <2>1, RecordsKeepReads DEF Drop
<1>5. ASSUME NEW line \in Removed, Log(line) PROVE Reads'
  <2>1. line \in Events /\ line \notin Journaled /\ clock \in 0 .. clock
    BY JournalTypesUnfold, Constants
  <2> QED BY <1>5, <2>1, RecordsKeepReads DEF Log
<1> QED BY <1>1, <1>2, <1>3, <1>4, <1>5, RetitleKeepsReads DEF Recording, Dropping

LEMMA ReadingKeepsReads ==
    ASSUME JournalTypeInv, Reads, Reading
    PROVE  Reads'
<1>0. /\ UNCHANGED <<clock, recorded, writing, follows, again, moved, late>>
      /\ Window' = Window /\ Recorded' = Recorded /\ JournalTypeOK
  BY DEF Reading, Read, StartLatest, Window, Recorded, JournalTypeInv
<1>1. Window \subseteq Nat \X Nat /\ Recorded \subseteq Nat \X Nat /\ after \in Nat \X Nat
  BY <1>0, WindowFacts, PlacesArePairs, JournalTypesUnfold
(* The cursor stays, moves to an event that is shown, past all it has been *)
(* given, or begins at the last event there is.                            *)
<1>2. /\ \/ after' = after /\ began' = began
         \/ after' \in Window /\ began' = began
         \/ after = Start /\ after' \in Recorded /\ began' = after'
      /\ OnlyLateMissed'
  <2>1. CASE Read /\ Page = {}
    <3>1. UNCHANGED <<after, began, seen>>
      BY <2>1 DEF Read
    <3> QED BY <1>0, <3>1 DEF Reads, OnlyLateMissed, Shown, Reckoned, Excused, Earlier
  <2>2. CASE Read /\ Page # {}
    <3>1. /\ after' = NextCursor /\ NextCursor \in Page /\ NextCursor \in Window
          /\ began' = began /\ seen' = seen \union {x[2] : x \in Page}
          /\ Page \subseteq After(after)
      BY <1>0, <2>2, CursorIsOnPage DEF Read
    <3>2. ASSUME NEW e \in Events, Shown(e), ~Earlier(after', <<recorded[e], e>>), e \notin seen'
          PROVE  Excused(e, recorded[e])
      <4> DEFINE x == <<recorded[e], e>>
      <4>1. x \in Window
        BY <3>2, WindowIs DEF Shown
      <4>2. CASE Earlier(after, x)
        <5>1. x \in After(after)
          BY <4>1, <4>2 DEF After
        <5>2. x = NextCursor \/ Earlier(x, NextCursor)
          BY <1>1, <3>1, <3>2, <4>1, EarlierIsOrder
        <5>3. x \in Page
          BY <1>0, <3>1, <5>1, <5>2, PageIsPrefix
        <5>4. e \in {y[2] : y \in Page}
          BY <5>3
        <5> QED BY <3>1, <3>2, <5>4
      <4>3. CASE ~Earlier(after, x)
        BY <3>1, <3>2, <4>3 DEF Reads, OnlyLateMissed, Reckoned
      <4> QED BY <4>2, <4>3
    <3>3. OnlyLateMissed'
      <4>1. ASSUME NEW e \in Events, Shown(e)' PROVE Reckoned(e)'
        <5>1. Shown(e) /\ (Excused(e, recorded[e])' <=> Excused(e, recorded[e]))
          BY <1>0, <3>1, <4>1 DEF Shown, Excused
        <5> QED BY <1>0, <3>2, <5>1 DEF Reckoned, Earlier
      <4> QED BY <4>1 DEF OnlyLateMissed
    <3> QED BY <3>1, <3>3
  <2>3. CASE StartLatest
    <3>1. after = Start /\ after' \in Recorded /\ began' = after'
      BY <1>0, <2>3, LatestIsRecorded DEF StartLatest
    <3>2. \A e \in Events : recorded[e] # 0 => e \in seen'
      <4> SUFFICES ASSUME NEW e \in Events, recorded[e] # 0 PROVE e \in seen'
        OBVIOUS
      <4>1. <<recorded[e], e>> \in Recorded
        BY DEF Recorded
      <4>2. <<recorded[e], e>>[2] \in {y[2] : y \in Recorded}
        BY <4>1
      <4> QED BY <2>3, <4>2 DEF StartLatest
    <3> QED BY <1>0, <3>1, <3>2 DEF OnlyLateMissed, Shown, Reckoned
  <2> QED BY <2>1, <2>2, <2>3 DEF Reading
<1>3. \A x \in Window : x \in Recorded /\ (follows => x[2] \in Journaled)
  BY DEF Window
<1>4. Start \notin Recorded
  BY Constants DEF Recorded, Start
<1>5. CursorStands'
  BY <1>0, <1>2, <1>3, <1>4 DEF Reads, CursorStands
<1>6. Serial'
  <2> SUFFICES ASSUME follows, writing # Start
               PROVE  /\ after'[1] <= writing[1] \/ after' = began'
                      /\ \A e \in Journaled : recorded[e] <= writing[1]
    BY <1>0 DEF Serial
  <2>1. ASSUME NEW x \in Window PROVE x[1] <= writing[1]
    <3>1. PICK e \in Events : x = <<recorded[e], e>> /\ e \in Journaled
      BY <2>1, WindowIs
    <3> QED BY <3>1 DEF Reads, Serial
  <2> QED BY <1>2, <2>1 DEF Reads, Serial
<1>7. stale' => moved' \/ (follows' /\ began' # Start /\ began'[2] \notin Journaled)
  <2>1. CASE Read
    <3>1. stale' = StaleCursor /\ began' = began
      BY <2>1 DEF Read
    <3>2. ASSUME StaleCursor, ~moved
          PROVE  follows /\ began # Start /\ began[2] \notin Journaled
      <4>1. after \notin Window /\ after # Start
        BY <1>1, <3>2, EarlierIsOrder DEF StaleCursor
      <4>2. after \in Recorded
        BY <3>2, <4>1 DEF Reads, CursorStands
      <4>3. follows /\ after[2] \notin Journaled
        BY <4>1, <4>2, JournalTypesUnfold DEF Window
      <4> QED BY <4>1, <4>3 DEF Reads, CursorStands
    <3> QED BY <1>0, <3>1, <3>2
  <2>2. CASE StartLatest
    BY <1>0, <2>2 DEF StartLatest, Reads, CursorStands
  <2> QED BY <2>1, <2>2 DEF Reading
<1> QED BY <1>2, <1>5, <1>6, <1>7 DEF Reads

LEMMA NextReads == JournalTypeInv /\ Reads /\ [JournalNext]_journalVars => Reads'
<1> SUFFICES ASSUME JournalTypeInv, Reads, [JournalNext]_journalVars PROVE Reads'
  OBVIOUS
<1>1. ASSUME UNCHANGED <<recorded, after, began, seen, stale, follows, moved, late>>, Serial'
      PROVE  Reads'
  BY <1>1 DEF Reads, CursorStands, Recorded, OnlyLateMissed, Shown, Reckoned, Excused, Earlier
<1>2. CASE Second \/ UNCHANGED journalVars
  BY <1>1, <1>2 DEF Second, journalVars, readerVars, cursorVars, Reads, Serial
<1>3. ASSUME NEW e \in Tabled, Stamp(e) PROVE Reads'
  <2>1. writing'[1] = clock /\ UNCHANGED <<after, began, recorded, follows>>
    BY <1>3 DEF Stamp, readerVars, cursorVars
  <2>2. Serial'
    BY <2>1, JournalTypesUnfold, Constants DEF Serial
  <2> QED BY <1>1, <1>3, <2>2 DEF Stamp, readerVars, cursorVars
<1> QED BY <1>2, <1>3, RecordingKeepsReads, ReadingKeepsReads, JournalNextCases

(* A reader that pages on misses nothing it has paged past but what was    *)
(* recorded in the very second of its cursor and, reading exports, bundles *)
(* renamed and what was committed behind an export of a later second, as a *)
(* follower may that began at an export; and only a reader of whose events *)
(* one moved or went, or such a follower, is told its cursor is stale.     *)
(* For any events and any limit of a page (list_child_events).             *)
THEOREM PagesMissNothingElse == JournalSpec => []PagesMissOnlyLateRecords
<1>1. JournalInit => JournalTypeInv /\ Reads
  <2> SUFFICES ASSUME JournalInit PROVE Reads
    BY JournalInitTypeInv
  <2>1. \A e \in Events : recorded[e] = 0
    BY DEF JournalInit
  <2> QED BY <2>1 DEF JournalInit, Reads, CursorStands, Serial, OnlyLateMissed, Shown
<1>2. Reads => PagesMissOnlyLateRecords
  <2> SUFFICES ASSUME Reads, NEW x \in Window
               PROVE  \/ Earlier(after, x) \/ x[2] \in seen
                      \/ late[x[2]] \in {"tied", "renamed"}
                      \/ late[x[2]] = "overtaken" /\ (follows => x[1] < began[1])
    BY DEF PagesMissOnlyLateRecords, Reads
  <2>1. PICK e \in Events :
          recorded[e] # 0 /\ x = <<recorded[e], e>> /\ (follows => e \in Journaled)
    BY WindowIs
  <2>2. Reckoned(e) /\ x[1] = recorded[e] /\ x[2] = e
    BY <2>1 DEF Reads, OnlyLateMissed, Shown
  <2> QED BY <2>1, <2>2 DEF Reckoned, Excused
<1> QED BY <1>1, <1>2, JournalNextTypeInv, NextReads, PTL DEF JournalSpec

-----------------------------------------------------------------------------
(* Sign-in *)

Session == [opened : 1 .. MaxNow, seen : 1 .. MaxNow, revoked : BOOLEAN]

Phases == {"idle", "create", "check", "set", "issue", "verify", "fail", "clear",
           "touch", "revoke"}

Requests == [phase : Phases, kind : {"none", "register", "provision", "login"},
             password : Passwords \union {NoPassword}, reset : BOOLEAN, session : Nat]

(* Setting a password takes one, and is told from logging in.              *)
Purpose(r) ==
    /\ r.phase \in {"create", "check", "set"} =>
         r.password \in Passwords /\ r.kind \in {"register", "provision"}
    /\ r.phase = "issue" => r.kind \in {"register", "login"}
    /\ r.phase \in {"verify", "fail", "clear"} => r.kind = "login"

Purposeful == \A c \in Clients : Purpose(request[c])

AuthTypeInv == AuthTypeOK /\ Purposeful

-----------------------------------------------------------------------------
(* Steps of one client *)

LEMMA AuthTypesUnfold ==
    ASSUME AuthTypeInv
    PROVE  /\ now \in 1 .. MaxNow /\ now \in Nat
           /\ user \in BOOLEAN /\ credential \in Passwords \union {NoPassword}
           /\ attempts \in Seq(1 .. MaxNow) /\ sessions \in Seq(Session)
           /\ request \in [Clients -> Requests]
           /\ requests \in 0 .. MaxRequests
           /\ chosen \in Passwords \union {NoPassword} /\ overlapped \in BOOLEAN
BY DEF AuthTypeInv, AuthTypeOK, Session, Requests, Phases

LEMMA IdleIsARequest == Idle \in Requests
BY DEF Idle, Requests, Phases

(* The rest of the type invariant, when one client's request changes.      *)
LEMMA ClientFrame ==
    ASSUME AuthTypeInv, NEW c \in Clients, NEW r \in Requests,
           request' = [request EXCEPT ![c] = r],
           Purpose(r),
           now' = now, user' \in BOOLEAN, credential' \in Passwords \union {NoPassword},
           attempts' \in Seq(1 .. MaxNow), sessions' \in Seq(Session),
           requests' \in 0 .. MaxRequests, chosen' \in Passwords \union {NoPassword},
           overlapped' \in BOOLEAN
    PROVE  AuthTypeInv'
<1>1. request' \in [Clients -> Requests]
  BY AuthTypesUnfold
<1>2. AuthTypeOK'
  BY <1>1, AuthTypesUnfold DEF AuthTypeOK, Requests, Phases, Session
<1>3. Purposeful'
  BY AuthTypesUnfold DEF Purposeful, AuthTypeInv
<1> QED BY <1>2, <1>3 DEF AuthTypeInv

LEMMA BeginKeepsTypes ==
    ASSUME AuthTypeInv, NEW c \in Clients, NEW r \in Requests, Begin(c, r),
           Purpose(r)
    PROVE  AuthTypeInv'
<1>1. requests' \in 0 .. MaxRequests
  BY AuthTypesUnfold, AuthAssumption DEF Begin
<1>2. overlapped' \in BOOLEAN
  BY DEF Begin
<1>3. /\ request' = [request EXCEPT ![c] = r]
      /\ UNCHANGED <<now, user, credential, attempts, sessions, chosen>>
  BY DEF Begin
<1> QED BY <1>1, <1>2, <1>3, AuthTypesUnfold, ClientFrame

LEMMA GoesIsARequest ==
    ASSUME AuthTypeInv, NEW c \in Clients, NEW phase \in Phases, Goes(c, phase)
    PROVE  \E r \in Requests :
             /\ r = [request[c] EXCEPT !.phase = phase]
             /\ request' = [request EXCEPT ![c] = r]
             /\ r.phase = phase /\ r.kind = request[c].kind /\ r.password = request[c].password
<1>1. request[c] \in Requests
  BY AuthTypesUnfold
<1>2. [request[c] EXCEPT !.phase = phase] \in Requests
  BY <1>1 DEF Requests
<1> QED BY <1>1, <1>2 DEF Goes, Requests

(* What a request begins with.                                             *)
Opening(r) ==
    /\ r \in Requests
    /\ \/ r.phase \in {"create", "check"} /\ r.kind \in {"register", "provision"}
          /\ r.password \in Passwords
       \/ r.phase \in {"verify", "touch", "revoke"} /\ r.kind = "login"

Beginning(c) ==
    \/ \E p \in Passwords : \/ Register(c, p) \/ Login(c, p)
                            \/ \E reset \in BOOLEAN : Provision(c, p, reset)
    \/ \E s \in DOMAIN sessions : Resolve(c, s) \/ Logout(c, s)

RequestGoesOn(c) ==
    \/ CreateUser(c) \/ CheckCredential(c) \/ SetCredential(c) \/ Issue(c)
    \/ Verify(c) \/ RecordFailure(c) \/ ClearAttempts(c)
    \/ Touch(c) \/ Revoke(c) \/ Die(c)

LEMMA AuthNextCases ==
    ASSUME [AuthNext]_authVars
    PROVE  \/ Tick
           \/ \E c \in Clients : Beginning(c) \/ RequestGoesOn(c)
           \/ UNCHANGED authVars
BY DEF AuthNext, Beginning, RequestGoesOn

LEMMA Openings ==
    ASSUME AuthTypeInv, NEW c \in Clients, Beginning(c)
    PROVE  \E r : Opening(r) /\ Begin(c, r) /\ (r.phase = "verify" => ~Blocked)
<1>1. Idle \in Requests
  BY IdleIsARequest
<1>2. ASSUME NEW p \in Passwords, Register(c, p)
      PROVE  \E r : Opening(r) /\ Begin(c, r) /\ (r.phase = "verify" => ~Blocked)
  <2>1. Opening([Idle EXCEPT !.phase = "create", !.kind = "register", !.password = p])
    BY DEF Opening, Requests, Phases, Idle
  <2>2. [Idle EXCEPT !.phase = "create", !.kind = "register", !.password = p].phase # "verify"
    BY DEF Idle
  <2> QED BY <1>2, <2>1, <2>2 DEF Register
<1>3. ASSUME NEW p \in Passwords, Login(c, p)
      PROVE  \E r : Opening(r) /\ Begin(c, r) /\ (r.phase = "verify" => ~Blocked)
  <2>1. Opening([Idle EXCEPT !.phase = "verify", !.kind = "login", !.password = p])
    BY DEF Opening, Requests, Phases, Idle
  <2> QED BY <1>3, <2>1 DEF Login
<1>4. ASSUME NEW p \in Passwords, NEW reset \in BOOLEAN, Provision(c, p, reset)
      PROVE  \E r : Opening(r) /\ Begin(c, r) /\ (r.phase = "verify" => ~Blocked)
  <2> DEFINE phase == IF user THEN "check" ELSE "create"
             r == [Idle EXCEPT !.phase = phase, !.kind = "provision", !.password = p,
                               !.reset = reset]
  <2>1. Opening(r) /\ r.phase # "verify"
    BY DEF Opening, Requests, Phases, Idle
  <2>2. Begin(c, r)
    BY <1>4 DEF Provision
  <2> QED BY <2>1, <2>2
<1>5. ASSUME NEW s \in DOMAIN sessions, Resolve(c, s) \/ Logout(c, s)
      PROVE  \E r : Opening(r) /\ Begin(c, r) /\ (r.phase = "verify" => ~Blocked)
  <2>1. s \in Nat
    BY AuthTypesUnfold
  <2>2. PICK phase \in {"touch", "revoke"} :
            Begin(c, [Idle EXCEPT !.phase = phase, !.kind = "login", !.session = s])
    BY <1>5 DEF Resolve, Logout
  <2> DEFINE r == [Idle EXCEPT !.phase = phase, !.kind = "login", !.session = s]
  <2>3. Opening(r) /\ r.phase # "verify"
    BY <2>1, <2>2 DEF Opening, Requests, Phases, Idle
  <2> QED BY <2>2, <2>3
<1> QED BY <1>2, <1>3, <1>4, <1>5 DEF Beginning

-----------------------------------------------------------------------------
(* Type correctness *)

LEMMA AuthInitTypeInv == AuthInit => AuthTypeInv
<1> SUFFICES ASSUME AuthInit PROVE AuthTypeInv
  OBVIOUS
<1>1. /\ attempts \in Seq(1 .. MaxNow) /\ sessions \in Seq(Session)
      /\ request \in [Clients -> Requests] /\ now \in 1 .. MaxNow /\ requests \in 0 .. MaxRequests
  BY IdleIsARequest, AuthAssumption DEF AuthInit
<1> QED BY <1>1 DEF AuthInit, AuthTypeInv, AuthTypeOK, Purposeful, Purpose, Idle, Session, Requests, Phases

(* Steps that write no more than a client's request, the name's user, its  *)
(* password or a failure.                                                  *)
LEMMA NameKeepsTypes ==
    ASSUME AuthTypeInv, NEW c \in Clients
    PROVE  /\ CreateUser(c) => AuthTypeInv'
           /\ CheckCredential(c) => AuthTypeInv'
           /\ SetCredential(c) => AuthTypeInv'
           /\ Verify(c) => AuthTypeInv'
           /\ RecordFailure(c) => AuthTypeInv'
           /\ ClearAttempts(c) => AuthTypeInv'
           /\ Die(c) => AuthTypeInv'
(* The request ends.                                                       *)
<1>1. ASSUME Ends(c), now' = now, user' \in BOOLEAN,
             credential' \in Passwords \union {NoPassword},
             attempts' \in Seq(1 .. MaxNow), sessions' \in Seq(Session),
             requests' \in 0 .. MaxRequests, chosen' \in Passwords \union {NoPassword},
             overlapped' \in BOOLEAN
      PROVE  AuthTypeInv'
  BY <1>1, IdleIsARequest, ClientFrame DEF Ends, Idle, Purpose
(* It goes on to its next statement.                                       *)
<1>2. ASSUME NEW phase \in Phases, Goes(c, phase), request[c].phase # "idle",
             \A r \in Requests :
                 (r.phase = phase /\ r.kind = request[c].kind
                  /\ r.password = request[c].password) => Purpose(r),
             now' = now, user' \in BOOLEAN, credential' \in Passwords \union {NoPassword},
             attempts' \in Seq(1 .. MaxNow), sessions' \in Seq(Session),
             requests' \in 0 .. MaxRequests, chosen' \in Passwords \union {NoPassword},
             overlapped' \in BOOLEAN
      PROVE  AuthTypeInv'
  <2>1. PICK r \in Requests : /\ request' = [request EXCEPT ![c] = r]
                              /\ r.phase = phase /\ r.kind = request[c].kind
                              /\ r.password = request[c].password
    BY <1>2, GoesIsARequest
  <2> QED BY <1>2, <2>1, ClientFrame
<1>3. CreateUser(c) => AuthTypeInv'
  <2> SUFFICES ASSUME CreateUser(c) PROVE AuthTypeInv'
    OBVIOUS
  <2>1. CASE user
    BY <2>1, <1>1, AuthTypesUnfold DEF CreateUser
  <2>2. CASE ~user
    <3>1. PICK phase \in {"set", "check"} : Goes(c, phase)
      BY <2>2 DEF CreateUser
    <3>2. Purpose(request[c]) /\ request[c].phase = "create"
      BY DEF CreateUser, AuthTypeInv, Purposeful
    <3> QED BY <1>2, <3>1, <3>2, AuthTypesUnfold DEF CreateUser, Phases, Purpose
  <2> QED BY <2>1, <2>2
<1>4. CheckCredential(c) => AuthTypeInv'
  <2> SUFFICES ASSUME CheckCredential(c) PROVE AuthTypeInv'
    OBVIOUS
  <2>1. CASE Refused(c)
    BY <2>1, <1>1, AuthTypesUnfold DEF CheckCredential
  <2>2. CASE ~Refused(c)
    <3>1. Purpose(request[c]) /\ request[c].phase = "check"
      BY DEF CheckCredential, AuthTypeInv, Purposeful
    <3> QED BY <1>2, <2>2, <3>1, AuthTypesUnfold DEF CheckCredential, Phases, Purpose
  <2> QED BY <2>1, <2>2
<1>5. SetCredential(c) => AuthTypeInv'
  <2> SUFFICES ASSUME SetCredential(c) PROVE AuthTypeInv'
    OBVIOUS
  <2>1. request[c].password \in Passwords /\ credential' = request[c].password
    BY DEF SetCredential, Upserted, AuthTypeInv, Purposeful, Purpose
  <2>2. CASE request[c].kind = "register"
    BY <2>1, <2>2, <1>2, AuthTypesUnfold DEF SetCredential, Phases, Purpose
  <2>3. CASE request[c].kind # "register"
    BY <2>1, <2>3, <1>1, AuthTypesUnfold DEF SetCredential
  <2> QED BY <2>2, <2>3
<1>6. Verify(c) => AuthTypeInv'
  <2> SUFFICES ASSUME Verify(c) PROVE AuthTypeInv'
    OBVIOUS
  <2>1. PICK phase \in {"clear", "fail"} : Goes(c, phase)
    BY DEF Verify
  <2>2. Purpose(request[c]) /\ request[c].phase = "verify"
    BY DEF Verify, AuthTypeInv, Purposeful
  <2> QED BY <1>2, <2>1, <2>2, AuthTypesUnfold DEF Verify, Phases, Purpose
<1>7. RecordFailure(c) => AuthTypeInv'
  BY <1>1, AuthTypesUnfold DEF RecordFailure
<1>8. ClearAttempts(c) => AuthTypeInv'
  <2> SUFFICES ASSUME ClearAttempts(c) PROVE AuthTypeInv'
    OBVIOUS
  <2>1. request[c].kind = "login"
    BY DEF ClearAttempts, AuthTypeInv, Purposeful, Purpose
  <2> QED BY <1>2, <2>1, EmptySeq, AuthTypesUnfold DEF ClearAttempts, Phases, Purpose
<1>9. Die(c) => AuthTypeInv'
  BY <1>1, AuthTypesUnfold DEF Die
<1> QED BY <1>3, <1>4, <1>5, <1>6, <1>7, <1>8, <1>9

LEMMA SessionKeepsTypes ==
    ASSUME AuthTypeInv, NEW c \in Clients
    PROVE  /\ Issue(c) => AuthTypeInv'
           /\ Touch(c) => AuthTypeInv'
           /\ Revoke(c) => AuthTypeInv'
<1>1. ASSUME Ends(c), UNCHANGED <<now, user, credential, attempts, requests, overlapped>>,
             sessions' \in Seq(Session), chosen' \in Passwords \union {NoPassword}
      PROVE  AuthTypeInv'
  BY <1>1, AuthTypesUnfold, IdleIsARequest, ClientFrame DEF Ends, Idle, Purpose
<1>2. Issue(c) => AuthTypeInv'
  <2> SUFFICES ASSUME Issue(c) PROVE AuthTypeInv'
    OBVIOUS
  <2>1. [opened |-> now, seen |-> now, revoked |-> FALSE] \in Session
    BY AuthTypesUnfold DEF Session
  <2>2. sessions' \in Seq(Session)
    BY <2>1, AuthTypesUnfold DEF Issue
  <2>3. chosen' \in Passwords \union {NoPassword}
    BY AuthTypesUnfold DEF Issue, Requests
  <2> QED BY <1>1, <2>2, <2>3 DEF Issue
(* One field of one session is written, if it is there.                    *)
<1>3. ASSUME NEW s, NEW new, s \in DOMAIN sessions => new \in Session,
             sessions' = [sessions EXCEPT ![s] = new]
      PROVE  sessions' \in Seq(Session)
  <2>1. PICK n \in Nat : sessions \in [1 .. n -> Session]
    BY AuthTypesUnfold, SeqDef
  <2>2. sessions' \in [1 .. n -> Session]
    BY <1>3, <2>1
  <2> QED BY <2>2, SeqDef
<1>4. ASSUME NEW s \in DOMAIN sessions PROVE sessions[s] \in Session
  BY AuthTypesUnfold
<1>5. Touch(c) => AuthTypeInv'
  <2> SUFFICES ASSUME Touch(c) PROVE AuthTypeInv'
    OBVIOUS
  <2> DEFINE s == request[c].session
  <2>1. CASE sessions[s].revoked
    BY <2>1, <1>1, AuthTypesUnfold DEF Touch
  <2>2. CASE ~sessions[s].revoked
    <3>1. sessions' = [sessions EXCEPT ![s] = [sessions[s] EXCEPT !.seen = now]]
      BY <2>2 DEF Touch
    <3>2. s \in DOMAIN sessions => [sessions[s] EXCEPT !.seen = now] \in Session
      BY <1>4, AuthTypesUnfold DEF Session
    <3> QED BY <1>1, <1>3, <3>1, <3>2, AuthTypesUnfold DEF Touch
  <2> QED BY <2>1, <2>2
<1>6. Revoke(c) => AuthTypeInv'
  <2> SUFFICES ASSUME Revoke(c) PROVE AuthTypeInv'
    OBVIOUS
  <2> DEFINE s == request[c].session
  <2>1. sessions' = [sessions EXCEPT ![s] = [sessions[s] EXCEPT !.revoked = TRUE]]
    BY DEF Revoke
  <2>2. s \in DOMAIN sessions => [sessions[s] EXCEPT !.revoked = TRUE] \in Session
    BY <1>4 DEF Session
  <2> QED BY <1>1, <1>3, <2>1, <2>2, AuthTypesUnfold DEF Revoke
<1> QED BY <1>2, <1>5, <1>6

LEMMA AuthNextTypeInv == AuthTypeInv /\ [AuthNext]_authVars => AuthTypeInv'
<1> SUFFICES ASSUME AuthTypeInv, [AuthNext]_authVars PROVE AuthTypeInv'
  OBVIOUS
<1>1. CASE Tick
  <2>1. now' \in 1 .. MaxNow
    BY <1>1, AuthTypesUnfold, AuthAssumption DEF Tick
  <2> QED BY <1>1, <2>1 DEF Tick, AuthTypeInv, AuthTypeOK, Purposeful
<1>2. ASSUME NEW c \in Clients, Beginning(c) PROVE AuthTypeInv'
  <2>1. PICK r : Opening(r) /\ Begin(c, r)
    BY <1>2, Openings
  <2> QED BY <2>1, BeginKeepsTypes DEF Opening, Purpose
<1>3. ASSUME NEW c \in Clients, RequestGoesOn(c) PROVE AuthTypeInv'
  BY <1>3, NameKeepsTypes, SessionKeepsTypes DEF RequestGoesOn
<1>4. CASE UNCHANGED authVars
  BY <1>4 DEF authVars, AuthTypeInv, AuthTypeOK, Purposeful
<1> QED BY <1>1, <1>2, <1>3, <1>4, AuthNextCases

(* Every variable of sign-in keeps its type, and a request on its way to   *)
(* set a password has one (service/frontend_auth.py).                      *)
THEOREM AuthTypeCorrect == AuthSpec => []AuthTypeOK
<1>1. AuthTypeInv => AuthTypeOK
  BY DEF AuthTypeInv
<1> QED BY <1>1, AuthInitTypeInv, AuthNextTypeInv, PTL DEF AuthSpec

-----------------------------------------------------------------------------
(* The password *)

OneSetting == \A c, d \in Clients : Setting(c) /\ Setting(d) => c = d

(* It has set the password and is about to answer.                         *)
Announcing(c) == request[c].phase = "issue" /\ request[c].kind = "register"

Accounted ==
    /\ user /\ credential = NoPassword =>
         \E c \in Clients : request[c].phase \in {"check", "set"}
    /\ credential = chosen \/ \E c \in Clients : Announcing(c)
    /\ \A c \in Clients : Announcing(c) => request[c].password = credential

Owned == overlapped \/ (OneSetting /\ Accounted)

(* A client goes on, or ends, and the others stay as they are.             *)
LEMMA OwnRequest ==
    ASSUME AuthTypeInv, NEW c \in Clients
    PROVE  /\ Ends(c) => request'[c] = Idle /\ \A d \in Clients \ {c} : request'[d] = request[d]
           /\ \A phase \in Phases : Goes(c, phase) =>
                /\ request'[c].phase = phase /\ request'[c].kind = request[c].kind
                /\ request'[c].password = request[c].password
                /\ \A d \in Clients \ {c} : request'[d] = request[d]
<1>1. request[c] \in Requests /\ request \in [Clients -> Requests]
  BY AuthTypesUnfold
<1>2. Ends(c) => request'[c] = Idle /\ \A d \in Clients \ {c} : request'[d] = request[d]
  BY <1>1 DEF Ends
<1>3. ASSUME NEW phase \in Phases, Goes(c, phase)
      PROVE  /\ request'[c].phase = phase /\ request'[c].kind = request[c].kind
             /\ request'[c].password = request[c].password
             /\ \A d \in Clients \ {c} : request'[d] = request[d]
  BY <1>1, <1>3 DEF Goes, Requests
<1> QED BY <1>2, <1>3

(* A setting is alone as long as none begins beside it.                    *)
LEMMA SettingStaysAlone ==
    ASSUME AuthTypeInv, OneSetting, NEW c \in Clients,
           \A d \in Clients \ {c} : request'[d] = request[d],
           Setting(c)' => Setting(c)
    PROVE  OneSetting'
BY DEF OneSetting, Setting

LEMMA BeginKeepsOwned ==
    ASSUME AuthTypeInv, Owned, NEW c \in Clients, NEW r, Opening(r), Begin(c, r)
    PROVE  Owned'
<1>1. /\ request'[c] = r /\ \A d \in Clients \ {c} : request'[d] = request[d]
      /\ request[c].phase = "idle" /\ UNCHANGED <<user, credential, chosen>>
  BY AuthTypesUnfold DEF Begin
<1>2. CASE overlapped'
  BY <1>2 DEF Owned
<1>3. CASE ~overlapped'
  <2>1. /\ ~overlapped /\ OneSetting /\ Accounted
        /\ r.kind # "login" => \A d \in Clients : ~Setting(d)
    BY <1>3 DEF Begin, Owned, Opening
  <2>2. OneSetting'
    <3>1. ~Setting(c)
      BY <1>1 DEF Setting
    <3>2. CASE r.kind = "login"
      <4>1. ~Setting(c)'
        BY <1>1, <3>2 DEF Setting
      <4> QED BY <1>1, <2>1, <4>1, SettingStaysAlone
    <3>3. CASE r.kind # "login"
      <4>1. \A d \in Clients \ {c} : ~Setting(d)'
        BY <1>1, <2>1, <3>3 DEF Setting
      <4> QED BY <4>1 DEF OneSetting
    <3> QED BY <3>2, <3>3
  <2>3. \A d \in Clients : (Announcing(d)' <=> Announcing(d)) /\ (Announcing(d) => d # c)
    BY <1>1 DEF Announcing, Opening
  <2>4. Accounted'
    BY <1>1, <2>1, <2>3 DEF Accounted
  <2> QED BY <2>2, <2>4 DEF Owned
<1> QED BY <1>2, <1>3

(* Steps of a request that sets no password, or that ends without setting  *)
(* one: nobody loses what accounts for the password.                       *)
LEMMA OthersKeepOwned ==
    ASSUME AuthTypeInv, Owned, NEW c \in Clients,
           \A d \in Clients \ {c} : request'[d] = request[d],
           Setting(c)' => Setting(c), ~Announcing(c)',
           UNCHANGED <<user, credential, chosen, overlapped>>,
           \/ ~Setting(c)
           \/ request[c].phase = "check" /\ (credential # NoPassword \/ request'[c].phase = "set")
           \/ request[c].phase = "create" /\ user
    PROVE  Owned'
<1>1. CASE overlapped'
  BY <1>1 DEF Owned
<1>2. CASE ~overlapped'
  <2>1. OneSetting /\ Accounted
    BY <1>2 DEF Owned
  <2>2. OneSetting'
    BY <2>1, SettingStaysAlone
  <2>3. user /\ credential = NoPassword =>
            \E d \in Clients : request'[d].phase \in {"check", "set"}
    <3> SUFFICES ASSUME user, credential = NoPassword
                 PROVE  \E d \in Clients : request'[d].phase \in {"check", "set"}
      OBVIOUS
    <3>1. PICK d \in Clients : request[d].phase \in {"check", "set"}
      BY <2>1 DEF Accounted
    <3>2. Setting(d)
      BY <3>1 DEF Setting, AuthTypeInv, Purposeful, Purpose
    <3>3. CASE d = c
      BY <3>1, <3>2, <3>3
    <3>4. CASE d # c
      BY <3>1, <3>4
    <3> QED BY <3>3, <3>4
  <2>4. ASSUME NEW d \in Clients
        PROVE  (Announcing(d)' <=> Announcing(d)) /\ (Announcing(d) => d # c)
    <3>1. Announcing(d) => Setting(d) /\ d # c
      BY DEF Setting, Announcing
    <3>2. Announcing(d)' => d # c
      BY DEF Setting, Announcing
    <3> QED BY <3>1, <3>2 DEF Announcing
  <2>5. Accounted'
    BY <2>1, <2>3, <2>4 DEF Accounted
  <2> QED BY <2>2, <2>5 DEF Owned
<1> QED BY <1>1, <1>2

(* The steps of a setting that change what the password is.                *)
LEMMA SettingKeepsOwned ==
    ASSUME AuthTypeInv, Owned, NEW c \in Clients,
           \/ CreateUser(c) /\ ~user
           \/ SetCredential(c)
           \/ Issue(c) /\ request[c].kind = "register"
    PROVE  Owned'
<1>1. CASE overlapped
  BY <1>1 DEF Owned, CreateUser, SetCredential, Issue
<1>2. CASE ~overlapped
  <2>1. OneSetting /\ Accounted /\ Setting(c)
    BY <1>2 DEF Owned, Setting, CreateUser, SetCredential, Issue, AuthTypeInv, Purposeful, Purpose
  <2>2. ASSUME NEW d \in Clients, Announcing(d)
        PROVE  d = c
    BY <2>1, <2>2 DEF OneSetting, Setting, Announcing
  <2>3. CASE CreateUser(c) /\ ~user
    <3>1. PICK phase \in {"set", "check"} : Goes(c, phase)
      BY <2>3 DEF CreateUser
    <3>2. /\ request'[c].phase \in {"set", "check"} /\ request'[c].kind = request[c].kind
          /\ \A d \in Clients \ {c} : request'[d] = request[d]
          /\ request[c].phase = "create" /\ UNCHANGED <<credential, chosen, overlapped>>
      BY <2>3, <3>1, OwnRequest DEF CreateUser, Phases
    <3>3. credential' = chosen'
      BY <2>1, <2>2, <3>2 DEF Accounted, Announcing
    <3>4. Accounted'
      BY <2>2, <3>2, <3>3 DEF Accounted, Announcing
    <3>5. OneSetting'
      BY <2>1, <3>2, SettingStaysAlone
    <3> QED BY <3>4, <3>5 DEF Owned
  <2>4. CASE SetCredential(c)
    <3>1. /\ credential' = request[c].password /\ credential' # NoPassword
          /\ request[c].phase = "set"
      BY <2>4, AuthAssumption DEF SetCredential, Upserted, AuthTypeInv, Purposeful, Purpose
    <3>2. CASE request[c].kind = "register"
      <4>1. Goes(c, "issue")
        BY <2>4, <3>2 DEF SetCredential
      <4>2. /\ request'[c].phase = "issue" /\ request'[c].kind = "register"
            /\ request'[c].password = credential'
            /\ \A d \in Clients \ {c} : request'[d] = request[d]
        BY <3>1, <3>2, <4>1, OwnRequest DEF Phases
      <4>3. overlapped' = overlapped /\ Accounted'
        BY <2>2, <2>4, <3>1, <4>2 DEF Accounted, Announcing, SetCredential
      <4> QED BY <2>1, <4>2, <4>3, SettingStaysAlone DEF Owned
    <3>3. CASE request[c].kind # "register"
      <4>1. /\ request'[c] = Idle /\ chosen' = credential'
            /\ \A d \in Clients \ {c} : request'[d] = request[d]
        BY <2>4, <3>1, <3>3, OwnRequest DEF SetCredential
      <4>2. overlapped' = overlapped /\ Accounted'
        BY <2>2, <2>4, <3>1, <4>1 DEF Accounted, Announcing, SetCredential, Idle
      <4>3. Setting(c)' => Setting(c)
        BY <4>1 DEF Setting, Idle
      <4> QED BY <2>1, <4>1, <4>2, <4>3, SettingStaysAlone DEF Owned
    <3> QED BY <3>2, <3>3
  <2>5. CASE Issue(c) /\ request[c].kind = "register"
    <3>1. /\ request'[c] = Idle /\ \A d \in Clients \ {c} : request'[d] = request[d]
          /\ chosen' = request[c].password /\ UNCHANGED <<user, credential, overlapped>>
          /\ request[c].phase = "issue"
      BY <2>5, OwnRequest DEF Issue
    <3>2. user /\ credential = NoPassword => FALSE
      <4> SUFFICES ASSUME user, credential = NoPassword PROVE FALSE
        OBVIOUS
      <4>1. PICK d \in Clients : request[d].phase \in {"check", "set"}
        BY <2>1 DEF Accounted
      <4>2. Setting(d)
        BY <4>1 DEF Setting, AuthTypeInv, Purposeful, Purpose
      <4> QED BY <2>1, <3>1, <4>1, <4>2 DEF OneSetting
    <3>3. credential' = chosen'
      BY <2>1, <2>5, <3>1 DEF Accounted, Announcing
    <3>4. Accounted'
      BY <2>2, <3>1, <3>2, <3>3 DEF Accounted, Announcing, Idle
    <3> QED BY <2>1, <3>1, <3>4, SettingStaysAlone DEF Owned
  <2> QED BY <2>3, <2>4, <2>5
<1> QED BY <1>1, <1>2

LEMMA GoingOnKeepsOwned ==
    ASSUME AuthTypeInv, Owned, NEW c \in Clients, RequestGoesOn(c)
    PROVE  Owned'
<1>1. CASE CreateUser(c)
  <2>1. CASE user
    <3>1. request'[c] = Idle /\ \A d \in Clients \ {c} : request'[d] = request[d]
      BY <1>1, <2>1, OwnRequest DEF CreateUser
    <3>2. ~Setting(c)' /\ ~Announcing(c)'
      BY <3>1 DEF Setting, Announcing, Idle
    <3> QED BY <1>1, <2>1, <3>1, <3>2, OthersKeepOwned DEF CreateUser
  <2> QED BY <1>1, <2>1, SettingKeepsOwned
<1>2. CASE CheckCredential(c)
  <2>1. request[c].phase = "check" /\ Setting(c)
    BY <1>2 DEF CheckCredential, Setting, AuthTypeInv, Purposeful, Purpose
  <2>2. CASE Refused(c)
    <3>1. request'[c] = Idle /\ \A d \in Clients \ {c} : request'[d] = request[d]
      BY <1>2, <2>2, OwnRequest DEF CheckCredential
    <3>2. ~Setting(c)' /\ ~Announcing(c)'
      BY <3>1 DEF Setting, Announcing, Idle
    <3> QED BY <1>2, <2>1, <2>2, <3>1, <3>2, OthersKeepOwned DEF CheckCredential, Refused
  <2>3. CASE ~Refused(c)
    <3>1. request'[c].phase = "set" /\ \A d \in Clients \ {c} : request'[d] = request[d]
      BY <1>2, <2>3, OwnRequest DEF CheckCredential, Phases
    <3>2. ~Announcing(c)'
      BY <3>1 DEF Announcing
    <3> QED BY <1>2, <2>1, <3>1, <3>2, OthersKeepOwned DEF CheckCredential
  <2> QED BY <2>2, <2>3
<1>3. CASE SetCredential(c)
  BY <1>3, SettingKeepsOwned
<1>4. CASE Issue(c)
  <2>1. CASE request[c].kind # "register"
    <3>1. /\ request'[c] = Idle /\ \A d \in Clients \ {c} : request'[d] = request[d]
          /\ UNCHANGED <<user, credential, chosen, overlapped>>
      BY <1>4, <2>1, OwnRequest DEF Issue
    <3>2. ~Setting(c)' /\ ~Announcing(c)' /\ ~Setting(c)
      BY <1>4, <2>1, <3>1 DEF Setting, Announcing, Idle, Issue, AuthTypeInv, Purposeful, Purpose
    <3> QED BY <3>1, <3>2, OthersKeepOwned
  <2> QED BY <1>4, <2>1, SettingKeepsOwned
<1>5. CASE Verify(c) \/ ClearAttempts(c)
  <2>1. PICK phase \in {"clear", "fail", "issue"} : Goes(c, phase)
    BY <1>5 DEF Verify, ClearAttempts
  <2>2. /\ request'[c].kind = request[c].kind /\ request'[c].phase = phase
        /\ \A d \in Clients \ {c} : request'[d] = request[d]
    BY <2>1, OwnRequest DEF Phases
  <2>3. request[c].kind = "login"
    BY <1>5 DEF Verify, ClearAttempts, AuthTypeInv, Purposeful, Purpose
  <2>4. ~Setting(c)' /\ ~Announcing(c)' /\ ~Setting(c)
    BY <2>2, <2>3 DEF Setting, Announcing
  <2> QED BY <1>5, <2>2, <2>4, OthersKeepOwned DEF Verify, ClearAttempts
<1>6. CASE RecordFailure(c) \/ Touch(c) \/ Revoke(c)
  <2>1. request'[c] = Idle /\ \A d \in Clients \ {c} : request'[d] = request[d]
    BY <1>6, OwnRequest DEF RecordFailure, Touch, Revoke
  <2>2. ~Setting(c)' /\ ~Announcing(c)' /\ ~Setting(c)
    BY <1>6, <2>1 DEF Setting, Announcing, Idle, RecordFailure, Touch, Revoke
  <2> QED BY <1>6, <2>1, <2>2, OthersKeepOwned DEF RecordFailure, Touch, Revoke
<1>7. CASE Die(c)
  <2>1. request'[c] = Idle /\ \A d \in Clients \ {c} : request'[d] = request[d]
    BY <1>7, OwnRequest DEF Die
  <2>2. ~Setting(c)' /\ ~Announcing(c)'
    BY <2>1 DEF Setting, Announcing, Idle
  <2>3. CASE Setting(c)
    BY <1>7, <2>3 DEF Die, Owned
  <2>4. CASE ~Setting(c)
    <3>1. UNCHANGED <<user, credential, chosen>> /\ overlapped' = overlapped
      BY <1>7, <2>4, AuthTypesUnfold DEF Die
    <3> QED BY <2>1, <2>2, <2>4, <3>1, OthersKeepOwned
  <2> QED BY <2>3, <2>4
<1> QED BY <1>1, <1>2, <1>3, <1>4, <1>5, <1>6, <1>7 DEF RequestGoesOn

LEMMA NextOwned == AuthTypeInv /\ Owned /\ [AuthNext]_authVars => Owned'
<1> SUFFICES ASSUME AuthTypeInv, Owned, [AuthNext]_authVars PROVE Owned'
  OBVIOUS
<1>1. CASE Tick \/ UNCHANGED authVars
  BY <1>1 DEF Tick, authVars, Owned, OneSetting, Accounted, Setting, Announcing
<1>2. ASSUME NEW c \in Clients, Beginning(c) PROVE Owned'
  BY <1>2, Openings, BeginKeepsOwned
<1>3. ASSUME NEW c \in Clients, RequestGoesOn(c) PROVE Owned'
  BY <1>3, GoingOnKeepsOwned
<1> QED BY <1>1, <1>2, <1>3, AuthNextCases

(* Unless two settings of the password overlap or one is cut, a name is    *)
(* without a password only while a request sets one, and its password is   *)
(* the last one reported as set or one about to be, for any number of      *)
(* clients (register_frontend_user, provision_frontend_user).              *)
THEOREM CredentialsAlwaysStand == AuthSpec => []CredentialsStand
<1>1. AuthInit => AuthTypeInv /\ Owned
  BY AuthInitTypeInv DEF AuthInit, Owned, OneSetting, Accounted, Setting, Announcing, Idle
<1>2. Owned => CredentialsStand
  BY DEF Owned, Accounted, CredentialsStand, Announcing
<1> QED BY <1>1, <1>2, AuthNextTypeInv, NextOwned, PTL DEF AuthSpec

-----------------------------------------------------------------------------
(* The throttle *)

CountedFailures == {i \in DOMAIN attempts : attempts[i] + AttemptWindow >= now}

(* Requests that may still write a failure.                                *)
Doubtful == {c \in Clients : request[c].phase \in {"verify", "fail"}}

Throttled == Cardinality(CountedFailures) + Cardinality(Doubtful)
                 <= MaxFailures - 1 + Cardinality(Clients)

LEMMA Counts ==
    ASSUME AuthTypeInv
    PROVE  /\ IsFiniteSet(CountedFailures) /\ Cardinality(CountedFailures) \in Nat
           /\ IsFiniteSet(Doubtful) /\ Cardinality(Doubtful) \in Nat
           /\ Cardinality(Clients) \in Nat /\ Cardinality(Doubtful) <= Cardinality(Clients)
           /\ DOMAIN attempts = 1 .. Len(attempts) /\ Len(attempts) \in Nat
           /\ \A i \in DOMAIN attempts : attempts[i] \in Nat
<1>1. /\ DOMAIN attempts = 1 .. Len(attempts) /\ Len(attempts) \in Nat
      /\ \A i \in DOMAIN attempts : attempts[i] \in Nat
  <2>1. attempts \in Seq(1 .. MaxNow) /\ 1 .. MaxNow \subseteq Nat
    BY AuthTypesUnfold, AuthAssumption
  <2>2. attempts \in Seq(Nat)
    BY <2>1, SeqMonotonic
  <2> QED BY <2>2
<1>2. IsFiniteSet(DOMAIN attempts)
  BY <1>1, FS_Interval
<1>3. CountedFailures \subseteq DOMAIN attempts /\ Doubtful \subseteq Clients
  BY DEF CountedFailures, Doubtful
<1> QED BY <1>1, <1>2, <1>3, FS_Subset, FS_CardinalityType, AuthAssumption

(* Fewer failures count and no more requests are in doubt.                 *)
LEMMA ThrottledStays ==
    ASSUME AuthTypeInv, Throttled, CountedFailures' \subseteq CountedFailures, Doubtful' \subseteq Doubtful
    PROVE  Throttled'
<1>1. /\ Cardinality(CountedFailures') \in Nat /\ Cardinality(CountedFailures') <= Cardinality(CountedFailures)
      /\ Cardinality(Doubtful') \in Nat /\ Cardinality(Doubtful') <= Cardinality(Doubtful)
  BY Counts, FS_Subset, FS_CardinalityType
<1> QED BY <1>1, Counts, AuthAssumption DEF Throttled

(* A failure is written: one more counts, one request is less in doubt.    *)
LEMMA FailureKeepsThrottled ==
    ASSUME AuthTypeInv, Throttled, NEW c \in Clients, RecordFailure(c)
    PROVE  Throttled'
<1>1. PICK n : n = Len(attempts) + 1
  OBVIOUS
<1>2. CountedFailures' = CountedFailures \union {n} /\ n \notin CountedFailures
  <2>1. /\ DOMAIN attempts' = DOMAIN attempts \union {n} /\ n \notin DOMAIN attempts
        /\ attempts'[n] = now /\ \A i \in DOMAIN attempts : attempts'[i] = attempts[i]
        /\ now' = now
    BY <1>1, AuthTypesUnfold DEF RecordFailure
  <2>2. now + AttemptWindow >= now
    BY AuthTypesUnfold, AuthAssumption
  <2> QED BY <2>1, <2>2 DEF CountedFailures
<1>3. Doubtful' = Doubtful \ {c} /\ c \in Doubtful
  <2>1. request'[c] = Idle /\ \A d \in Clients \ {c} : request'[d] = request[d]
    BY OwnRequest DEF RecordFailure
  <2> QED BY <2>1 DEF Doubtful, RecordFailure, Idle
<1>4. /\ Cardinality(CountedFailures') = Cardinality(CountedFailures) + 1
      /\ Cardinality(Doubtful') = Cardinality(Doubtful) - 1
  BY <1>2, <1>3, Counts, FS_AddElement, FS_RemoveElement
<1> QED BY <1>4, Counts, AuthAssumption DEF Throttled

(* A login begins under the limit, however many are in doubt.              *)
LEMMA BeginKeepsThrottled ==
    ASSUME AuthTypeInv, Throttled, NEW c \in Clients, Beginning(c)
    PROVE  Throttled'
<1>1. PICK r : Opening(r) /\ Begin(c, r) /\ (r.phase = "verify" => ~Blocked)
  BY Openings
<1>2. /\ request'[c] = r /\ \A d \in Clients \ {c} : request'[d] = request[d]
      /\ UNCHANGED <<now, attempts>> /\ request[c].phase = "idle"
  BY <1>1, AuthTypesUnfold DEF Begin
<1>3. CountedFailures' = CountedFailures
  BY <1>2 DEF CountedFailures
<1>4. CASE r.phase = "verify"
  <2>1. Cardinality(CountedFailures) < MaxFailures
    BY <1>1, <1>4, Counts, AuthAssumption DEF Blocked, Failures, CountedFailures
  <2>2. Doubtful' \subseteq Clients
    BY DEF Doubtful
  <2>3. Cardinality(Doubtful') \in Nat /\ Cardinality(Doubtful') <= Cardinality(Clients)
    BY <2>2, AuthAssumption, FS_Subset, FS_CardinalityType
  <2> QED BY <1>3, <2>1, <2>3, Counts, AuthAssumption DEF Throttled
<1>5. CASE r.phase # "verify"
  <2>1. Doubtful' \subseteq Doubtful
    BY <1>1, <1>2, <1>5 DEF Doubtful, Opening
  <2> QED BY <1>3, <2>1, ThrottledStays
<1> QED BY <1>4, <1>5

LEMMA GoingOnKeepsThrottled ==
    ASSUME AuthTypeInv, Throttled, NEW c \in Clients, RequestGoesOn(c)
    PROVE  Throttled'
<1>1. CASE RecordFailure(c)
  BY <1>1, FailureKeepsThrottled
<1>2. CASE ~RecordFailure(c)
  <2>1. (now' = now /\ attempts' = attempts) \/ attempts' = <<>>
    BY <1>2 DEF RequestGoesOn, CreateUser, CheckCredential, SetCredential, Issue, Verify,
                ClearAttempts, Touch, Revoke, Die
  <2>2. CountedFailures' \subseteq CountedFailures
    BY <2>1 DEF CountedFailures
  <2>3. Ends(c) \/ \E phase \in Phases \ {"verify"} :
            Goes(c, phase) /\ (phase = "fail" => request[c].phase = "verify")
    BY <1>2 DEF RequestGoesOn, CreateUser, CheckCredential, SetCredential, Issue, Verify,
                ClearAttempts, Touch, Revoke, Die, Phases
  <2>4. Doubtful' \subseteq Doubtful
    <3>1. CASE Ends(c)
      BY <3>1, OwnRequest DEF Doubtful, Idle
    <3>2. CASE \E phase \in Phases \ {"verify"} :
                  Goes(c, phase) /\ (phase = "fail" => request[c].phase = "verify")
      BY <3>2, OwnRequest DEF Doubtful
    <3> QED BY <2>3, <3>1, <3>2
  <2> QED BY <2>2, <2>4, ThrottledStays
<1> QED BY <1>1, <1>2

LEMMA NextThrottled == AuthTypeInv /\ Throttled /\ [AuthNext]_authVars => Throttled'
<1> SUFFICES ASSUME AuthTypeInv, Throttled, [AuthNext]_authVars PROVE Throttled'
  OBVIOUS
<1>1. CASE Tick \/ UNCHANGED authVars
  <2>1. Doubtful' = Doubtful /\ attempts' = attempts /\ (now' = now \/ now' = now + 1)
    BY <1>1 DEF Tick, authVars, Doubtful
  <2>2. CountedFailures' \subseteq CountedFailures
    BY <2>1, Counts, AuthTypesUnfold, AuthAssumption DEF CountedFailures
  <2> QED BY <2>1, <2>2, ThrottledStays
<1> QED BY <1>1, BeginKeepsThrottled, GoingOnKeepsThrottled, AuthNextCases

(* However many requests verify a password at once, the failures of a      *)
(* window pass the limit by no more than one each, less one                *)
(* (login_frontend_user checks before it verifies and records after).      *)
THEOREM FailuresStayBounded == AuthSpec => []FailuresBounded
<1>1. AuthInit => AuthTypeInv /\ Throttled
  <2> SUFFICES ASSUME AuthInit PROVE AuthTypeInv /\ Throttled
    OBVIOUS
  <2>1. AuthTypeInv /\ CountedFailures = {} /\ Doubtful = {}
    BY AuthInitTypeInv DEF AuthInit, CountedFailures, Doubtful, Idle
  <2> QED BY <2>1, Counts, FS_EmptySet, AuthAssumption DEF Throttled
<1>2. AuthTypeInv /\ Throttled => FailuresBounded
  BY Counts, AuthAssumption DEF Throttled, FailuresBounded, Failures, CountedFailures
<1> QED BY <1>1, <1>2, AuthNextTypeInv, NextThrottled, PTL DEF AuthSpec

-----------------------------------------------------------------------------
(* Semantic rollout *)

DemandStates == {"none", "pending", "done", "skipped", "error"}

(* A message that does not exist was never asked for or embedded, one that *)
(* is here was asked for, and a job that is done embedded what there is,   *)
(* and so will the one under way, unless the message was edited meanwhile. *)
MessagesKept ==
    /\ versions \in [Numbers -> Nat] /\ demands \in [Numbers -> DemandStates]
    /\ DOMAIN vectors = Models /\ vectors[Configured] \in [Numbers -> Nat]
    /\ \A m \in Numbers :
         /\ versions[m] = 0 => demands[m] = "none" /\ vectors[Configured][m] = 0
         /\ m \in Here => demands[m] \in {"pending", "done", "error"}
         /\ m \notin raced /\ demands[m] = "done" => vectors[Configured][m] = versions[m]
    /\ job \in [at : {"none", "read", "stored"}, of : Nat, version : Nat]
    /\ job.at # "none" => job.of \in Numbers
    /\ \A m \in Numbers :
         job.of = m =>
           /\ versions[m] # 0 /\ (m \notin raced => job.version = versions[m])
           /\ m \notin raced /\ job.at = "stored" => vectors[Configured][m] = versions[m]

(* The embedding of a chunk, of either model, is of its present text.      *)
ChunksKept ==
    /\ documents \in [Documents -> Nat]
    /\ DOMAIN chunkVectors = Models
    /\ \A k \in Models : chunkVectors[k] \in [Documents -> Nat]
    /\ \A k \in Models, d \in Documents :
         chunkVectors[k][d] # 0 => chunkVectors[k][d] = documents[d]

EmbeddingsKept == MessagesKept /\ ChunksKept

LEMMA RolloutModels ==
    /\ Configured \in Models /\ Profile \in Models /\ Configured # Profile
    /\ 0 \notin Numbers /\ Numbers \subseteq Nat
  BY RolloutAssumption DEF Models, Numbers

LEMMA RolloutStarts == RolloutInit => EmbeddingsKept
<1> SUFFICES ASSUME RolloutInit PROVE EmbeddingsKept
  OBVIOUS
<1>1. MessagesKept
  BY RolloutModels DEF RolloutInit, MessagesKept, Here, DemandStates, NoJob
<1>2. ChunksKept
  BY RolloutModels DEF RolloutInit, ChunksKept
<1> QED BY <1>1, <1>2 DEF EmbeddingsKept

(* A request or a change of a message.                                     *)
LEMMA MessageKeeps ==
    ASSUME NEW m \in Numbers, EmbeddingsKept,
           PostMessage(m) \/ EditMessage(m) \/ DeleteMessage(m)
    PROVE  EmbeddingsKept'
<1> USE DEF EmbeddingsKept, MessagesKept
<1>1. UNCHANGED <<documents, chunkVectors>> => ChunksKept'
  BY DEF ChunksKept
<1>2. CASE PostMessage(m)
  <2>1. MessagesKept'
    BY <1>2, RolloutModels DEF PostMessage, jobVars, Here, DemandStates
  <2> QED BY <1>1, <1>2, <2>1 DEF PostMessage
<1>3. CASE EditMessage(m)
  <2>1. MessagesKept'
    BY <1>3, RolloutModels DEF EditMessage, Here, DemandStates
  <2> QED BY <1>1, <1>3, <2>1 DEF EditMessage
<1>4. CASE DeleteMessage(m)
  <2>1. MessagesKept'
    BY <1>4, RolloutModels DEF DeleteMessage, jobVars, Here, DemandStates
  <2> QED BY <1>1, <1>4, <2>1 DEF DeleteMessage
<1> QED BY <1>2, <1>3, <1>4

(* A job is read, and is then of the message as it is.                     *)
LEMMA ReadKeeps ==
    ASSUME NEW m \in Numbers, EmbeddingsKept, ReadJob(m)
    PROVE  EmbeddingsKept'
<1>1. /\ UNCHANGED <<versions, deleted, demands, vectors, documents, chunkVectors>>
      /\ job' = [at |-> "read", of |-> m, version |-> versions[m]] /\ raced' = raced \ {m}
      /\ demands[m] = "pending"
  BY DEF ReadJob
<1>2. Here' = Here /\ ChunksKept'
  BY <1>1 DEF Here, EmbeddingsKept, ChunksKept
<1>3. MessagesKept'
  BY <1>1, <1>2, RolloutModels DEF EmbeddingsKept, MessagesKept
<1> QED BY <1>2, <1>3 DEF EmbeddingsKept

(* What it read is stored, or it fails; a job that is stored is done.      *)
LEMMA JobKeeps ==
    ASSUME EmbeddingsKept, StoreJob \/ EndJob
    PROVE  EmbeddingsKept'
<1>1. UNCHANGED <<versions, deleted, documents, chunkVectors, raced>>
  BY DEF StoreJob, EndJob
<1>2. Here' = Here /\ ChunksKept'
  BY <1>1 DEF Here, EmbeddingsKept, ChunksKept
<1>3. job.of \in Numbers /\ NoJob.of \notin Numbers /\ NoJob.at = "none"
      /\ NoJob \in [at : {"none", "read", "stored"}, of : Nat, version : Nat]
  BY RolloutModels DEF EmbeddingsKept, MessagesKept, StoreJob, EndJob, NoJob
<1>4. MessagesKept'
  <2>1. CASE /\ vectors' = [vectors EXCEPT ![Configured][job.of] = job.version]
             /\ job' = [job EXCEPT !.at = "stored"] /\ demands' = demands
    <3>1. DOMAIN vectors' = Models
          /\ vectors'[Configured] = [vectors[Configured] EXCEPT ![job.of] = job.version]
      BY <2>1, RolloutModels DEF EmbeddingsKept, MessagesKept
    <3>2. job'.of = job.of /\ job'.version = job.version
      BY <2>1
    <3> QED BY <1>1, <1>2, <1>3, <2>1, <3>1, <3>2 DEF EmbeddingsKept, MessagesKept
  <2>2. CASE /\ demands' = [demands EXCEPT ![job.of] = "error"] /\ job' = NoJob
             /\ vectors' = vectors
    BY <1>1, <1>2, <1>3, <2>2 DEF EmbeddingsKept, MessagesKept, DemandStates
  <2>3. CASE /\ demands' = [demands EXCEPT ![job.of] = "done"] /\ job' = NoJob
             /\ vectors' = vectors /\ job.at = "stored"
    BY <1>1, <1>2, <1>3, <2>3 DEF EmbeddingsKept, MessagesKept, DemandStates
  <2> QED BY <2>1, <2>2, <2>3 DEF StoreJob, EndJob
<1> QED BY <1>2, <1>4 DEF EmbeddingsKept

(* A document's text is extracted again.                                   *)
LEMMA ExtractKeeps ==
    ASSUME NEW d \in Documents, EmbeddingsKept, ExtractDocument(d)
    PROVE  EmbeddingsKept'
<1>1. MessagesKept'
  BY DEF EmbeddingsKept, MessagesKept, ExtractDocument, jobVars, Here
<1>2. documents' = [documents EXCEPT ![d] = @ + 1] /\ documents' \in [Documents -> Nat]
  BY DEF EmbeddingsKept, ChunksKept, ExtractDocument
<1>3. chunkVectors' = [k \in Models |->
        [chunkVectors[k] EXCEPT ![d] = IF k = Configured THEN documents'[d] ELSE 0]]
  BY DEF ExtractDocument
<1>4. ASSUME NEW k \in Models
      PROVE  /\ chunkVectors'[k] \in [Documents -> Nat]
             /\ \A c \in Documents : chunkVectors'[k][c] # 0 => chunkVectors'[k][c] = documents'[c]
  <2>1. chunkVectors'[k] = [chunkVectors[k] EXCEPT ![d] =
                               IF k = Configured THEN documents'[d] ELSE 0]
    BY <1>3
  <2> QED BY <1>2, <2>1 DEF EmbeddingsKept, ChunksKept
<1>5. ChunksKept'
  BY <1>2, <1>3, <1>4 DEF ChunksKept
<1> QED BY <1>1, <1>5 DEF EmbeddingsKept

(* A backfill embeds a row of the profile's model.                         *)
LEMMA EmbedKeeps ==
    ASSUME EmbeddingsKept, EmbedRow
    PROVE  EmbeddingsKept'
<1> DEFINE row == Head(batch.rows)
<1>1. UNCHANGED <<versions, deleted, demands, documents, job, raced>>
  BY DEF EmbedRow, jobVars
<1>2. Here' = Here
  BY <1>1 DEF Here
<1>3. \/ vectors' = vectors
      \/ vectors' = [vectors EXCEPT ![Profile][row.of] = row.version]
  BY DEF EmbedRow
<1>4. DOMAIN vectors' = Models /\ vectors'[Configured] = vectors[Configured]
  BY <1>3, RolloutModels DEF EmbeddingsKept, MessagesKept
<1>5. MessagesKept'
  BY <1>1, <1>2, <1>4 DEF EmbeddingsKept, MessagesKept
<1>6. \/ chunkVectors' = chunkVectors
      \/ /\ chunkVectors' = [chunkVectors EXCEPT ![Profile][row.of] = row.version]
         /\ documents[row.of] = row.version
  BY DEF EmbedRow
<1> HIDE DEF row
<1>7. ChunksKept'
  <2>1. CASE chunkVectors' = chunkVectors
    BY <1>1, <2>1 DEF EmbeddingsKept, ChunksKept
  <2>2. CASE /\ chunkVectors' = [chunkVectors EXCEPT ![Profile][row.of] = row.version]
             /\ documents[row.of] = row.version
    <3>1. /\ DOMAIN chunkVectors' = Models
          /\ chunkVectors'[Profile] = [chunkVectors[Profile] EXCEPT ![row.of] = row.version]
          /\ \A k \in Models \ {Profile} : chunkVectors'[k] = chunkVectors[k]
      BY <2>2, RolloutModels DEF EmbeddingsKept, ChunksKept
    <3>2. chunkVectors'[Profile] \in [Documents -> Nat]
          /\ \A d \in Documents : chunkVectors'[Profile][d] # 0 => chunkVectors'[Profile][d] = documents[d]
      <4>1. CASE row.of \in Documents
        BY <2>2, <3>1, <4>1, RolloutModels DEF EmbeddingsKept, ChunksKept
      <4>2. CASE row.of \notin Documents
        <5>1. chunkVectors[Profile] \in [Documents -> Nat]
          BY RolloutModels DEF EmbeddingsKept, ChunksKept
        <5>2. chunkVectors'[Profile] = chunkVectors[Profile]
          BY <3>1, <4>2, <5>1
        <5> QED BY <5>1, <5>2, RolloutModels DEF EmbeddingsKept, ChunksKept
      <4> QED BY <4>1, <4>2
    <3> QED BY <1>1, <3>1, <3>2 DEF EmbeddingsKept, ChunksKept
  <2> QED BY <1>6, <2>1, <2>2
<1> QED BY <1>5, <1>7 DEF EmbeddingsKept

LEMMA RolloutKeeps == EmbeddingsKept /\ [RolloutNext]_rolloutVars => EmbeddingsKept'
<1> SUFFICES ASSUME EmbeddingsKept, [RolloutNext]_rolloutVars PROVE EmbeddingsKept'
  OBVIOUS
<1>1. UNCHANGED <<versions, deleted, demands, vectors, documents, chunkVectors, jobVars>>
        => EmbeddingsKept'
  BY DEF EmbeddingsKept, MessagesKept, ChunksKept, Here, jobVars
<1>2. ASSUME NEW m \in Numbers,
             PostMessage(m) \/ EditMessage(m) \/ DeleteMessage(m) \/ ReadJob(m)
      PROVE  EmbeddingsKept'
  BY <1>2, MessageKeeps, ReadKeeps
<1>3. ASSUME NEW d \in Documents, ExtractDocument(d)
      PROVE  EmbeddingsKept'
  BY <1>3, ExtractKeeps
<1>4. CASE EmbedRow
  BY <1>4, EmbedKeeps
<1>5. CASE StartMessages
  BY <1>1, <1>5 DEF StartMessages
<1>6. CASE StartChunks
  BY <1>1, <1>6 DEF StartChunks
<1>7. CASE FailBatch \/ EndBatch
  BY <1>1, <1>7 DEF FailBatch, EndBatch
<1>8. CASE UNCHANGED rolloutVars
  BY <1>1, <1>8 DEF rolloutVars
<1>9. CASE StoreJob \/ EndJob
  BY <1>9, JobKeeps
<1> QED BY <1>2, <1>3, <1>4, <1>5, <1>6, <1>7, <1>8, <1>9 DEF RolloutNext

(* A subset that has as many members as the finite whole is the whole.     *)
LEMMA AllCounted ==
    ASSUME NEW S, NEW T, IsFiniteSet(S), T \subseteq S, Cardinality(T) >= Cardinality(S)
    PROVE  T = S
<1>1. Cardinality(T) \in Nat /\ Cardinality(S) \in Nat /\ Cardinality(T) <= Cardinality(S)
  BY FS_Subset, FS_CardinalityType
<1> QED BY <1>1, FS_Subset

LEMMA HealthyFollows == EmbeddingsKept => HealthyIsEmbedded
<1> SUFFICES ASSUME EmbeddingsKept, HealthStatus = "pass"
             PROVE  /\ (\A m \in deleted : vectors[Configured][m] = 0)
                          => \A m \in Here : vectors[Configured][m] # 0
                    /\ (\A m \in Numbers : demands[m] # "pending")
                          => \A m \in Here \ raced : vectors[Configured][m] = versions[m]
  BY DEF HealthyIsEmbedded
<1>1. ReadinessStatus = "ready" /\ ModelReady
  BY DEF HealthStatus
<1>2. \A m \in Numbers : demands[m] # "error"
  BY <1>1 DEF ReadinessStatus
<1>3. ASSUME \A m \in deleted : vectors[Configured][m] = 0
      PROVE  \A m \in Here : vectors[Configured][m] # 0
  <2> DEFINE Embedded == {m \in Numbers : vectors[Configured][m] # 0}
  <2>1. IsFiniteSet(Numbers)
    BY RolloutAssumption, FS_Interval DEF Numbers
  <2>2. IsFiniteSet(Here)
    BY <2>1, FS_Subset DEF Here
  <2>3. Embedded \subseteq Here
    BY <1>3 DEF EmbeddingsKept, MessagesKept, Here
  <2>4. Cardinality(Embedded) >= Cardinality(Here)
    <3>1. Counted = Cardinality(Embedded)
      BY Zenon DEF Counted
    <3>2. Counted >= Cardinality(Here)
      BY <1>1 DEF ModelReady
    <3> QED BY <3>1, <3>2, Zenon
  <2>5. Embedded = Here
    BY <2>2, <2>3, <2>4, AllCounted
  <2> QED BY <2>5
<1>4. ASSUME \A m \in Numbers : demands[m] # "pending"
      PROVE  \A m \in Here \ raced : vectors[Configured][m] = versions[m]
  BY <1>2, <1>4 DEF EmbeddingsKept, MessagesKept, Here
<1> QED BY <1>3, <1>4

LEMMA ReadyFollows == EmbeddingsKept => ReadyFindsDocuments
<1> SUFFICES ASSUME EmbeddingsKept, ProfileState(Profile, TRUE) = "ready",
                    NEW d \in Docs
             PROVE  chunkVectors[Profile][d] = documents[d]
  BY DEF ReadyFindsDocuments
<1>1. PlanStatus(Profile) = "ready"
  BY DEF ProfileState
<1>2. Cardinality(CoveredChunks(Profile)) >= Cardinality(Docs)
  <2> SUFFICES ASSUME ~(Cardinality(CoveredChunks(Profile)) >= Cardinality(Docs))
               PROVE  PlanStatus(Profile) = "rollout_needed"
    BY <1>1
  <2> QED BY Zenon DEF PlanStatus
<1>3. IsFiniteSet(Docs)
  <2>1. Docs \subseteq Documents
    BY DEF Docs
  <2>2. IsFiniteSet(Documents)
    BY RolloutAssumption
  <2> QED BY <2>1, <2>2, FS_Subset, Zenon
<1>4. CoveredChunks(Profile) \subseteq Docs
  BY DEF CoveredChunks
<1>5. CoveredChunks(Profile) = Docs
  BY <1>2, <1>3, <1>4, AllCounted
<1> QED BY <1>5, RolloutModels DEF CoveredChunks, Docs, EmbeddingsKept, ChunksKept

(* A step of the services is a step of one part and of no other.           *)
LEMMA StepOfRollout == [Next]_vars => [RolloutNext]_rolloutVars
  BY DEF Next, Alone, vars, journalVars, authVars, exportVars, reportVars, directoryVars,
         filesVars, rolloutVars, jobVars, catchupVars, scriptVars

(* What search health passes is embedded, and a profile that the rollout   *)
(* plan calls ready finds every document by its current text, whatever     *)
(* messages, deletions, extractions, jobs and backfills went before, but   *)
(* for messages edited while their job was under way                       *)
(* (search_health, semantic_rollout_plan in service/app.py).               *)
THEOREM ReadinessAlwaysStands == Spec => []ReadinessStands
<1>1. Init => EmbeddingsKept
  BY RolloutStarts DEF Init
<1>2. EmbeddingsKept /\ [Next]_vars => EmbeddingsKept'
  BY RolloutKeeps, StepOfRollout
<1>3. EmbeddingsKept => ReadinessStands
  BY HealthyFollows, ReadyFollows DEF ReadinessStands
<1> QED BY <1>1, <1>2, <1>3, PTL DEF Spec

(* The rows a backfill has read and not embedded yet.                      *)
MessageRow == [of : Numbers, version : 0 .. MaxEdits + 1]
ChunkRow == [of : Documents, version : 0 .. MaxEdits]

JobsUnderWay == [at : {"read", "stored"}, of : Numbers, version : 0 .. MaxEdits + 1] \union {NoJob}

BatchOf(b) ==
    /\ \/ b = NoBatch
       \/ b = [lane |-> "messages", rows |-> b.rows] /\ b.rows \in Seq(MessageRow)
       \/ b = [lane |-> "chunks", rows |-> b.rows] /\ b.rows \in Seq(ChunkRow)
    /\ Len(b.rows) <= BatchLimit

(* A text has as many versions as there were edits, and its first.         *)
RolloutTypes ==
    /\ edits \in 0 .. MaxEdits /\ outages \in 0 .. MaxOutages
    /\ versions \in [Numbers -> 0 .. edits + 1] /\ deleted \subseteq Numbers
    /\ demands \in [Numbers -> {"none", "pending", "done", "skipped", "error"}]
    /\ vectors \in [Models -> [Numbers -> 0 .. MaxEdits + 1]]
    /\ documents \in [Documents -> 0 .. edits] /\ updated \in Seq(Documents)
    /\ chunkVectors \in [Models -> [Documents -> 0 .. MaxEdits]]
    /\ job \in JobsUnderWay /\ raced \subseteq Numbers
    /\ BatchOf(batch)

LEMMA Bounds == /\ MaxMessages \in Nat /\ BatchLimit \in Nat \ {0} /\ MaxEdits \in Nat
                /\ MaxOutages \in Nat /\ Numbers \in SUBSET Nat /\ IsFiniteSet(Numbers)
<1>1. IsFiniteSet(1 .. MaxMessages)
  BY RolloutAssumption, FS_Interval
<1> QED BY <1>1, RolloutAssumption DEF Numbers

LEMMA FirstStaleFacts ==
    ASSUME NEW S, NEW s \in Seq(S)
    PROVE  FirstStale(s) \in Seq(S) /\ Len(FirstStale(s)) <= BatchLimit
<1> PICK n : n = IF Len(s) < BatchLimit THEN Len(s) ELSE BatchLimit
  OBVIOUS
<1>1. n \in 0 .. Len(s) /\ n <= BatchLimit
  BY Bounds
<1>2. FirstStale(s) = SubSeq(s, 1, n)
  BY DEF FirstStale
<1>3. SubSeq(s, 1, n) \in Seq(S) /\ Len(SubSeq(s, 1, n)) = n
  BY <1>1
<1> QED BY <1>1, <1>2, <1>3

(* What a backfill reads of the rows it chose.                             *)
RowsOf(s, value) == [i \in DOMAIN s |-> [of |-> s[i], version |-> value[s[i]]]]

LEMMA RowsRead ==
    ASSUME NEW S, NEW s \in Seq(S), NEW value, NEW W, Len(s) <= BatchLimit,
           \A x \in S : [of |-> x, version |-> value[x]] \in W
    PROVE  RowsOf(s, value) \in Seq(W) /\ Len(RowsOf(s, value)) <= BatchLimit
<1>1. Len(s) \in Nat /\ DOMAIN s = 1 .. Len(s) /\ \A i \in DOMAIN s : s[i] \in S
  OBVIOUS
<1>2. RowsOf(s, value) \in [1 .. Len(s) -> W]
  BY <1>1 DEF RowsOf
<1> QED BY <1>1, <1>2, SequencesAreFunctions

LEMMA LatestFacts == Latest \in Seq(Numbers)
<1> DEFINE R == {p \in Here \X Here : p[1] > p[2]}
<1>1. Here \in SUBSET Numbers /\ Here \in SUBSET Nat
  BY Bounds DEF Here
<1>2. IsFiniteSet(Here)
  BY <1>1, Bounds, FS_Subset
<1>3. \A x, y \in Here : <<x, y>> \in R <=> x > y
  OBVIOUS
<1> HIDE DEF R
<1>4. Orders(R, Here)
  BY <1>1, <1>2, <1>3 DEF Orders
<1>5. InPlaces(Here, R) \in Seq(Here)
  BY <1>4, PlacesEnumerate DEF Enumerates
<1>6. Latest = InPlaces(Here, R)
  BY DEF Latest, R
<1> QED BY <1>1, <1>5, <1>6, SequencesWiden

LEMMA RolloutBegins == RolloutInit => RolloutTypes
BY Bounds DEF RolloutInit, RolloutTypes, BatchOf, NoBatch, JobsUnderWay

LEMMA EditsKeep ==
    ASSUME RolloutTypes, NEW m \in Numbers, PostMessage(m) \/ EditMessage(m) \/ DeleteMessage(m)
    PROVE  RolloutTypes'
<1>1. /\ edits \in 0 .. MaxEdits /\ edits' \in 0 .. MaxEdits /\ edits <= edits'
      /\ versions \in [Numbers -> 0 .. edits + 1]
  BY Bounds DEF RolloutTypes, PostMessage, EditMessage, DeleteMessage, Edit
<1>2. versions' \in [Numbers -> 0 .. edits' + 1]
  BY <1>1, Bounds DEF PostMessage, EditMessage, DeleteMessage, Edit
<1>3. documents' \in [Documents -> 0 .. edits'] /\ UNCHANGED <<updated, chunkVectors, vectors, batch, outages>>
  BY <1>1, Bounds DEF RolloutTypes, PostMessage, EditMessage, DeleteMessage, Edit
<1>4. deleted' \subseteq Numbers /\ demands' \in [Numbers -> {"none", "pending", "done", "skipped", "error"}]
  BY DEF RolloutTypes, PostMessage, EditMessage, DeleteMessage
<1>5. job' \in JobsUnderWay /\ raced' \subseteq Numbers
  BY DEF RolloutTypes, PostMessage, EditMessage, DeleteMessage, jobVars
<1> QED BY <1>1, <1>2, <1>3, <1>4, <1>5 DEF RolloutTypes

LEMMA ExtractKeepsTypes ==
    ASSUME RolloutTypes, NEW d \in Documents, ExtractDocument(d)
    PROVE  RolloutTypes'
<1>1. /\ edits \in 0 .. MaxEdits /\ edits' = edits + 1 /\ edits' \in 0 .. MaxEdits
      /\ versions' \in [Numbers -> 0 .. edits' + 1] /\ documents \in [Documents -> 0 .. edits]
  BY Bounds DEF RolloutTypes, ExtractDocument, Edit
<1>2. documents' \in [Documents -> 0 .. edits'] /\ documents'[d] \in 0 .. MaxEdits
  BY <1>1, Bounds DEF ExtractDocument
<1>3. updated' \in Seq(Documents)
  <2>1. Without(updated, d) \in Seq(Documents)
    BY WithoutFacts DEF RolloutTypes
  <2> QED BY <2>1 DEF ExtractDocument
<1>4. chunkVectors' \in [Models -> [Documents -> 0 .. MaxEdits]]
  BY <1>2, Bounds DEF RolloutTypes, ExtractDocument
<1> QED BY <1>1, <1>2, <1>3, <1>4 DEF RolloutTypes, ExtractDocument, jobVars

LEMMA ReadKeepsTypes ==
    ASSUME RolloutTypes, NEW m \in Numbers, ReadJob(m)
    PROVE  RolloutTypes'
<1>1. versions[m] \in 0 .. MaxEdits + 1
  BY Bounds DEF RolloutTypes
<1>2. job' \in JobsUnderWay /\ raced' \subseteq Numbers
  BY <1>1 DEF RolloutTypes, ReadJob, JobsUnderWay
<1> QED BY <1>2 DEF RolloutTypes, ReadJob

LEMMA JobKeepsTypes ==
    ASSUME RolloutTypes, StoreJob \/ EndJob
    PROVE  RolloutTypes'
<1>1. /\ job \in [at : {"read", "stored"}, of : Numbers, version : 0 .. MaxEdits + 1]
      /\ job' \in JobsUnderWay
  <2>1. job.at # "none"
    BY DEF StoreJob, EndJob
  <2>2. job \in [at : {"read", "stored"}, of : Numbers, version : 0 .. MaxEdits + 1]
    BY <2>1 DEF RolloutTypes, JobsUnderWay, NoJob
  <2>3. job' = NoJob \/ job' = [job EXCEPT !.at = "stored"]
    BY DEF StoreJob, EndJob
  <2> QED BY <2>2, <2>3 DEF JobsUnderWay
<1>2. vectors' \in [Models -> [Numbers -> 0 .. MaxEdits + 1]]
  <2>1. \/ vectors' = vectors
        \/ vectors' = [vectors EXCEPT ![Configured][job.of] = job.version]
    BY DEF StoreJob, EndJob
  <2>2. vectors \in [Models -> [Numbers -> 0 .. MaxEdits + 1]]
    BY DEF RolloutTypes
  <2>3. job.of \in Numbers /\ job.version \in 0 .. MaxEdits + 1
    BY <1>1
  <2>4. [vectors EXCEPT ![Configured][job.of] = job.version] \in [Models -> [Numbers -> 0 .. MaxEdits + 1]]
    BY <2>2, <2>3, RolloutModels, SetInside
  <2> QED BY <2>1, <2>2, <2>4
<1>3. outages' \in 0 .. MaxOutages
  BY Bounds DEF RolloutTypes, StoreJob, EndJob
<1>4. demands' \in [Numbers -> {"none", "pending", "done", "skipped", "error"}]
  BY <1>1 DEF RolloutTypes, StoreJob, EndJob
<1> QED BY <1>1, <1>2, <1>3, <1>4 DEF RolloutTypes, StoreJob, EndJob

LEMMA StartKeeps ==
    ASSUME RolloutTypes, StartMessages \/ StartChunks
    PROVE  RolloutTypes'
<1>1. UNCHANGED <<versions, deleted, demands, vectors, documents, updated, chunkVectors, edits, outages,
                job, raced>>
  BY DEF StartMessages, StartChunks, jobVars
<1>2. CASE StartMessages
  <2> PICK taken : taken = FirstStale(Latest)
    OBVIOUS
  <2>1. taken \in Seq(Numbers) /\ Len(taken) <= BatchLimit
    BY LatestFacts, FirstStaleFacts
  <2>2. versions \in [Numbers -> 0 .. MaxEdits + 1]
    BY Bounds DEF RolloutTypes
  <2> PICK read : read = RowsOf(taken, versions)
    OBVIOUS
  <2>3. read \in Seq(MessageRow) /\ Len(read) <= BatchLimit
    <3>1. \A x \in Numbers : [of |-> x, version |-> versions[x]] \in MessageRow
      BY <2>2 DEF MessageRow
    <3> QED BY <2>1, <3>1, RowsRead
  <2>4. batch' = [lane |-> "messages", rows |-> read]
    BY <1>2 DEF StartMessages, RowsOf
  <2> QED BY <1>1, <2>3, <2>4 DEF RolloutTypes, BatchOf
<1>3. CASE StartChunks
  <2> PICK taken : taken = FirstStale(updated)
    OBVIOUS
  <2>1. taken \in Seq(Documents) /\ Len(taken) <= BatchLimit
    BY FirstStaleFacts DEF RolloutTypes
  <2>2. documents \in [Documents -> 0 .. MaxEdits]
    BY Bounds DEF RolloutTypes
  <2> PICK read : read = RowsOf(taken, documents)
    OBVIOUS
  <2>3. read \in Seq(ChunkRow) /\ Len(read) <= BatchLimit
    <3>1. \A x \in Documents : [of |-> x, version |-> documents[x]] \in ChunkRow
      BY <2>2 DEF ChunkRow
    <3> QED BY <2>1, <3>1, RowsRead
  <2>4. batch' = [lane |-> "chunks", rows |-> read]
    BY <1>3 DEF StartChunks, RowsOf
  <2> QED BY <1>1, <2>3, <2>4 DEF RolloutTypes, BatchOf
<1> QED BY <1>2, <1>3

LEMMA NoBatchKeeps ==
    ASSUME RolloutTypes, batch' = NoBatch, outages' \in 0 .. MaxOutages,
           UNCHANGED <<versions, deleted, demands, vectors, documents, updated, chunkVectors, jobVars,
                       edits>>
    PROVE  RolloutTypes'
BY Bounds DEF RolloutTypes, BatchOf, NoBatch, jobVars

LEMMA EmbedKeepsTypes ==
    ASSUME RolloutTypes, EmbedRow
    PROVE  RolloutTypes'
<1> PICK row : row = Head(batch.rows)
  OBVIOUS
<1>1. /\ batch.rows # <<>>
      /\ batch' = NoBatch \/ batch' = [batch EXCEPT !.rows = Tail(@)]
      /\ vectors' = IF batch.lane = "messages" /\ Stale(row)
                    THEN [vectors EXCEPT ![Profile][row.of] = row.version] ELSE vectors
      /\ \/ chunkVectors' = chunkVectors
         \/ /\ batch.lane = "chunks"
            /\ chunkVectors' = [chunkVectors EXCEPT ![Profile][row.of] = row.version]
      /\ UNCHANGED <<versions, deleted, demands, documents, updated, edits, outages, job, raced>>
  BY DEF EmbedRow, jobVars
<1>2. CASE batch = [lane |-> "messages", rows |-> batch.rows] /\ batch.rows \in Seq(MessageRow)
  <2>1. /\ row \in MessageRow /\ Tail(batch.rows) \in Seq(MessageRow) /\ batch.lane = "messages"
        /\ Len(Tail(batch.rows)) = Len(batch.rows) - 1 /\ Len(batch.rows) \in Nat
    BY <1>1, <1>2
  <2>2. vectors' \in [Models -> [Numbers -> 0 .. MaxEdits + 1]] /\ chunkVectors' = chunkVectors
    <3>1. vectors \in [Models -> [Numbers -> 0 .. MaxEdits + 1]]
      BY DEF RolloutTypes
    <3>2. row.of \in Numbers /\ row.version \in 0 .. MaxEdits + 1
      BY <2>1 DEF MessageRow
    <3>3. [vectors EXCEPT ![Profile][row.of] = row.version] \in [Models -> [Numbers -> 0 .. MaxEdits + 1]]
      BY <3>1, <3>2, RolloutModels, SetInside
    <3> QED BY <1>1, <2>1, <3>1, <3>3
  <2>3. \/ batch' = NoBatch
        \/ batch' = [lane |-> "messages", rows |-> batch'.rows] /\ batch'.rows = Tail(batch.rows)
    BY <1>1, <1>2
  <2>4. BatchOf(batch')
    <3>1. Len(batch.rows) <= BatchLimit
      BY DEF RolloutTypes, BatchOf
    <3>2. CASE batch' = NoBatch
      BY <3>2, Bounds DEF BatchOf, NoBatch
    <3>3. CASE batch' # NoBatch
      <4>1. batch'.rows = Tail(batch.rows)
        BY <2>3, <3>3
      <4>2. Len(Tail(batch.rows)) <= BatchLimit
        BY <2>1, <3>1, Bounds
      <4>3. Len(batch'.rows) <= BatchLimit
        BY <4>1, <4>2
      <4> QED BY <2>1, <2>3, <3>3, <4>3 DEF BatchOf
    <3> QED BY <3>2, <3>3
  <2> QED BY <1>1, <2>2, <2>4 DEF RolloutTypes
<1>3. CASE batch = [lane |-> "chunks", rows |-> batch.rows] /\ batch.rows \in Seq(ChunkRow)
  <2>1. /\ row \in ChunkRow /\ Tail(batch.rows) \in Seq(ChunkRow) /\ batch.lane = "chunks"
        /\ Len(Tail(batch.rows)) = Len(batch.rows) - 1 /\ Len(batch.rows) \in Nat
    BY <1>1, <1>3
  <2>2. chunkVectors' \in [Models -> [Documents -> 0 .. MaxEdits]] /\ vectors' = vectors
    <3>1. chunkVectors \in [Models -> [Documents -> 0 .. MaxEdits]]
      BY DEF RolloutTypes
    <3>2. row.of \in Documents /\ row.version \in 0 .. MaxEdits
      BY <2>1 DEF ChunkRow
    <3>3. [chunkVectors EXCEPT ![Profile][row.of] = row.version] \in [Models -> [Documents -> 0 .. MaxEdits]]
      BY <3>1, <3>2, RolloutModels, SetInside
    <3> QED BY <1>1, <2>1, <3>1, <3>3
  <2>3. \/ batch' = NoBatch
        \/ batch' = [lane |-> "chunks", rows |-> batch'.rows] /\ batch'.rows = Tail(batch.rows)
    BY <1>1, <1>3
  <2>4. BatchOf(batch')
    <3>1. Len(batch.rows) <= BatchLimit
      BY DEF RolloutTypes, BatchOf
    <3>2. CASE batch' = NoBatch
      BY <3>2, Bounds DEF BatchOf, NoBatch
    <3>3. CASE batch' # NoBatch
      <4>1. batch'.rows = Tail(batch.rows)
        BY <2>3, <3>3
      <4>2. Len(Tail(batch.rows)) <= BatchLimit
        BY <2>1, <3>1, Bounds
      <4>3. Len(batch'.rows) <= BatchLimit
        BY <4>1, <4>2
      <4> QED BY <2>1, <2>3, <3>3, <4>3 DEF BatchOf
    <3> QED BY <3>2, <3>3
  <2> QED BY <1>1, <2>2, <2>4 DEF RolloutTypes
<1>4. batch # NoBatch
  BY <1>1 DEF NoBatch
<1> QED BY <1>2, <1>3, <1>4 DEF RolloutTypes, BatchOf

LEMMA RolloutStepTypes == RolloutTypes /\ [RolloutNext]_rolloutVars => RolloutTypes'
<1> SUFFICES ASSUME RolloutTypes, [RolloutNext]_rolloutVars PROVE RolloutTypes'
  OBVIOUS
<1>1. CASE FailBatch \/ EndBatch
  <2>1. outages' \in 0 .. MaxOutages
    BY <1>1, Bounds DEF RolloutTypes, FailBatch, EndBatch
  <2> QED BY <1>1, <2>1, NoBatchKeeps DEF FailBatch, EndBatch
<1>2. CASE UNCHANGED rolloutVars
  BY <1>2 DEF rolloutVars, jobVars, RolloutTypes
<1> QED BY <1>1, <1>2, EditsKeep, ExtractKeepsTypes, ReadKeepsTypes, JobKeepsTypes, StartKeeps,
           EmbedKeepsTypes DEF RolloutNext

LEMMA RolloutTypesUnfold == RolloutTypes => RolloutTypeOK
BY Bounds DEF RolloutTypes, RolloutTypeOK, BatchOf, NoBatch, JobsUnderWay

(* Texts, jobs, embeddings and the batch under way keep their types, and a *)
(* batch its limit, for any messages, documents, models and bounds         *)
(* (backfill_message_embeddings, backfill_derived_text_chunk_embeddings).  *)
THEOREM RolloutTypeCorrect == RolloutSpec => []RolloutTypeOK
BY RolloutBegins, RolloutStepTypes, RolloutTypesUnfold, PTL DEF RolloutSpec

-----------------------------------------------------------------------------
(* Directory *)

Memberships == {"member_joined_channel", "member_left_channel"}

SlackEvents ==
    [type : {"message", "channel_created", "channel_rename"}, channel : Channels,
     user : {"nobody"}, title : 0 .. MaxChanges + 1]
    \union [type : Memberships, channel : Channels, user : Users, title : {0}]

DirectoryTypeInv ==
    /\ DirectoryTypeOK
    /\ \A c \in Channels : name[c] <= changes + 1
    /\ feed \in Seq(SlackEvents)
    /\ creation = NoRequest
       \/ creation \in [at : {"invite", "write"}, channel : Channels, invited : SUBSET Users]

(* From some event on, what waits in the feed tells whether u is in c.     *)
Concerns(e, c, u) == e.type \in Memberships /\ e.channel = c /\ e.user = u
Tells(e, c, u) == (e.type = "member_joined_channel") <=> (<<c, u>> \in joined)
Told(c, u) ==
    \E i \in 1 .. Len(feed) :
        /\ Concerns(feed[i], c, u)
        /\ \A j \in i .. Len(feed) : Concerns(feed[j], c, u) => Tells(feed[j], c, u)
Silent(c, u) == \A i \in 1 .. Len(feed) : ~Concerns(feed[i], c, u)

(* The members table is right, or the feed will put it right: but of who   *)
(* was a member before, nothing tells.                                     *)
Follows ==
    \A c \in Channels, u \in Users : <<c, u>> \notin overtaken =>
        \/ Told(c, u) /\ <<c, u>> \notin untold
        \/ Silent(c, u) /\ (<<c, u>> \in members <=> <<c, u>> \in joined \ untold)

(* Whom a request is about to write is in the channel, or the event that   *)
(* tells they left is still to come.                                       *)
Inviting ==
    \A u \in creation.invited : creation.at = "write" =>
        \/ <<creation.channel, u>> \in joined \union overtaken
        \/ Told(creation.channel, u)

MembersInv == DirectoryTypeInv /\ Follows /\ Inviting

LEMMA DirectoryStarts == DirectoryInit => MembersInv
<1> SUFFICES ASSUME DirectoryInit PROVE MembersInv
  OBVIOUS
<1>1. MaxChanges \in Nat
  BY DirectoryAssumption
<1>2. DirectoryTypeOK
  <2>1. name \in [Channels -> 0 .. MaxChanges + 1]
    BY <1>1 DEF DirectoryInit
  <2> QED BY <1>1, <2>1 DEF DirectoryInit, DirectoryTypeOK, Rows, NoRequest
<1>3. DirectoryTypeInv
  BY <1>1, <1>2 DEF DirectoryInit, DirectoryTypeInv
<1>4. Follows /\ Inviting
  BY DEF DirectoryInit, Follows, Inviting, Silent, NoRequest
<1> QED BY <1>3, <1>4 DEF MembersInv

(* What more events leave of what is told, and what they tell.             *)
LEMMA Appended ==
    ASSUME NEW c, NEW u, NEW s \in Seq(SlackEvents), feed \in Seq(SlackEvents),
           feed' = feed \o s
    PROVE  /\ /\ \A k \in 1 .. Len(s) : ~Concerns(s[k], c, u)
              /\ <<c, u>> \in joined' <=> <<c, u>> \in joined
              => (Told(c, u) => Told(c, u)') /\ (Silent(c, u) => Silent(c, u)')
           /\ /\ \E k \in 1 .. Len(s) : Concerns(s[k], c, u)
              /\ \A k \in 1 .. Len(s) : Concerns(s[k], c, u) => Tells(s[k], c, u)'
              => Told(c, u)'
<1>1. /\ Len(feed) \in Nat /\ Len(s) \in Nat
      /\ Len(feed') = Len(feed) + Len(s)
      /\ \A i \in 1 .. Len(feed) : feed'[i] = feed[i]
      /\ \A k \in 1 .. Len(s) : feed'[Len(feed) + k] = s[k]
      /\ \A j \in 1 .. Len(feed') : j \notin 1 .. Len(feed) => j - Len(feed) \in 1 .. Len(s)
  OBVIOUS
<1>2. \A j \in 1 .. Len(feed') : j \notin 1 .. Len(feed) => feed'[j] = s[j - Len(feed)]
  BY <1>1
<1>3. ASSUME \A k \in 1 .. Len(s) : ~Concerns(s[k], c, u),
             <<c, u>> \in joined' <=> <<c, u>> \in joined
      PROVE  (Told(c, u) => Told(c, u)') /\ (Silent(c, u) => Silent(c, u)')
  <2>1. \A j \in 1 .. Len(feed') : Concerns(feed'[j], c, u) => j \in 1 .. Len(feed)
    BY <1>1, <1>2, <1>3
  <2>2. \A e : Tells(e, c, u)' <=> Tells(e, c, u)
    BY <1>3 DEF Tells
  <2>3. ASSUME Told(c, u) PROVE Told(c, u)'
    <3>1. PICK i \in 1 .. Len(feed) :
            /\ Concerns(feed[i], c, u)
            /\ \A j \in i .. Len(feed) : Concerns(feed[j], c, u) => Tells(feed[j], c, u)
      BY <2>3 DEF Told
    <3>2. i \in 1 .. Len(feed') /\ Concerns(feed'[i], c, u)
      BY <1>1, <3>1
    <3>3. ASSUME NEW j \in i .. Len(feed'), Concerns(feed'[j], c, u)
          PROVE  Tells(feed'[j], c, u)
      <4>1. j \in 1 .. Len(feed') /\ j \in 1 .. Len(feed)
        BY <1>1, <2>1, <3>1, <3>3
      <4>2. j \in i .. Len(feed) /\ feed'[j] = feed[j]
        BY <1>1, <3>1, <4>1
      <4> QED BY <3>1, <3>3, <4>2
    <3> QED BY <2>2, <3>2, <3>3 DEF Told, Concerns, Tells
  <2>4. ASSUME Silent(c, u) PROVE Silent(c, u)'
    BY <1>1, <2>1, <2>4 DEF Silent, Concerns
  <2> QED BY <2>3, <2>4
<1>4. ASSUME NEW k \in 1 .. Len(s), Concerns(s[k], c, u),
             \A l \in 1 .. Len(s) : Concerns(s[l], c, u) => Tells(s[l], c, u)'
      PROVE  Told(c, u)'
  <2> DEFINE i == Len(feed) + k
  <2>1. i \in 1 .. Len(feed') /\ Concerns(feed'[i], c, u)
    BY <1>1, <1>4
  <2>2. ASSUME NEW j \in i .. Len(feed'), Concerns(feed'[j], c, u)
        PROVE  Tells(feed[j], c, u)'
    <3>1. j \in 1 .. Len(feed') /\ j \notin 1 .. Len(feed)
      BY <1>1
    <3>2. feed'[j] = s[j - Len(feed)] /\ j - Len(feed) \in 1 .. Len(s)
      BY <1>1, <1>2, <3>1
    <3> QED BY <1>4, <2>2, <3>2 DEF Tells
  <2> QED BY <2>1, <2>2 DEF Told, Concerns, Tells
<1> QED BY <1>3, <1>4

(* What is told once the first event is applied.                           *)
LEMMA Applied ==
    ASSUME NEW c, NEW u, feed \in Seq(SlackEvents), feed # <<>>,
           feed' = Tail(feed), joined' = joined
    PROVE  /\ Silent(c, u) => Silent(c, u)' /\ ~Concerns(Head(feed), c, u)
           /\ Told(c, u) =>
                \/ Told(c, u)'
                \/ Silent(c, u)' /\ Concerns(Head(feed), c, u) /\ Tells(Head(feed), c, u)
<1>1. /\ Len(feed) \in Nat \ {0} /\ Head(feed) = feed[1]
      /\ Len(feed') = Len(feed) - 1
      /\ \A i \in 1 .. Len(feed') : feed'[i] = feed[i + 1]
  OBVIOUS
<1>2. ASSUME Silent(c, u) PROVE Silent(c, u)' /\ ~Concerns(Head(feed), c, u)
  <2>1. \A i \in 1 .. Len(feed') : i + 1 \in 1 .. Len(feed)
    BY <1>1
  <2>2. 1 \in 1 .. Len(feed)
    BY <1>1
  <2> QED BY <1>1, <1>2, <2>1, <2>2 DEF Silent, Concerns
<1>3. ASSUME Told(c, u)
      PROVE  \/ Told(c, u)'
             \/ Silent(c, u)' /\ Concerns(Head(feed), c, u) /\ Tells(Head(feed), c, u)
  <2>1. PICK i \in 1 .. Len(feed) :
          /\ Concerns(feed[i], c, u)
          /\ \A j \in i .. Len(feed) : Concerns(feed[j], c, u) => Tells(feed[j], c, u)
    BY <1>3 DEF Told
  <2>2. ASSUME NEW k \in 1 .. Len(feed'), k + 1 >= i, Concerns(feed'[k], c, u)
        PROVE  Told(c, u)'
    <3>1. ASSUME NEW j \in k .. Len(feed'), Concerns(feed'[j], c, u)
          PROVE  Tells(feed[j], c, u)'
      <4>1. j + 1 \in i .. Len(feed) /\ feed'[j] = feed[j + 1]
        BY <1>1, <2>2
      <4> QED BY <2>1, <3>1, <4>1 DEF Tells
    <3> QED BY <2>2, <3>1 DEF Told, Concerns, Tells
  <2>3. CASE i > 1
    <3>1. i - 1 \in 1 .. Len(feed') /\ feed'[i - 1] = feed[i]
      BY <1>1, <2>3
    <3> QED BY <2>1, <2>2, <3>1
  <2>4. CASE i = 1
    <3>1. Concerns(Head(feed), c, u) /\ Tells(Head(feed), c, u)
      BY <1>1, <2>1, <2>4
    <3>2. CASE \E k \in 1 .. Len(feed') : Concerns(feed'[k], c, u)
      BY <1>1, <2>2, <2>4, <3>2
    <3>3. CASE \A k \in 1 .. Len(feed') : ~Concerns(feed'[k], c, u)
      BY <3>1, <3>3 DEF Silent, Concerns
    <3> QED BY <3>1, <3>2, <3>3
  <2> QED BY <2>3, <2>4
<1> QED BY <1>2, <1>3

LEMMA ASlackEvent ==
    /\ \A c \in Channels, x \in 0 .. MaxChanges + 1, k \in {"message", "channel_created", "channel_rename"} :
         Event(k, c, "nobody", x) \in SlackEvents
    /\ \A c \in Channels, u \in Users, k \in Memberships : Event(k, c, u, 0) \in SlackEvents
  BY DEF SlackEvents, Event

(* What a channel has been called at Slack is within the bound.            *)
LEMMA Titled ==
    ASSUME DirectoryTypeInv, Change
    PROVE  /\ changes \in Nat /\ changes' = changes + 1 /\ changes' \in 0 .. MaxChanges
           /\ 0 \in 0 .. MaxChanges + 1 /\ 1 \in 0 .. MaxChanges + 1
           /\ \A c \in Channels :
                /\ name[c] \in 0 .. MaxChanges + 1 /\ name[c] <= changes' + 1
                /\ name[c] + 1 \in 0 .. MaxChanges + 1 /\ name[c] + 1 <= changes' + 1
<1>1. MaxChanges \in Nat
  BY DirectoryAssumption
<1>2. changes \in 0 .. MaxChanges /\ changes < MaxChanges /\ changes' = changes + 1
      /\ \A c \in Channels : name[c] \in 0 .. MaxChanges + 1 /\ name[c] <= changes + 1
  BY DEF DirectoryTypeInv, DirectoryTypeOK, Change
<1> QED BY <1>1, <1>2

LEMMA AnnouncedType ==
    ASSUME DirectoryTypeInv, Change, NEW c \in Channels
    PROVE  /\ Announced(c) \in Seq(SlackEvents)
           /\ \E s \in Seq(SlackEvents) :
                /\ Announced(c) = feed \o s
                /\ \A d, u : \A k \in 1 .. Len(s) : ~Concerns(s[k], d, u)
<1> DEFINE e == Event("channel_created", c, "nobody", 1)
<1>1. e \in SlackEvents
  BY ASlackEvent, Titled
<1>2. feed \in Seq(SlackEvents)
  BY DEF DirectoryTypeInv
<1>3. \A d, u : ~Concerns(e, d, u)
  BY DEF Concerns, Event, Memberships
<1> HIDE DEF e
<1>4. CASE Announced(c) = feed
  <2>1. PICK s \in Seq(SlackEvents) : feed = feed \o s /\ Len(s) = 0
    <3>1. <<>> \in Seq(SlackEvents)
      OBVIOUS
    <3>2. feed = feed \o <<>> /\ Len(<<>>) = 0
      BY <1>2
    <3> QED BY <3>1, <3>2, Zenon
  <2>2. \A k \in 1 .. Len(s) : FALSE
    BY <2>1
  <2> QED BY <1>2, <1>4, <2>1, <2>2, Zenon
<1>5. CASE Announced(c) = Append(feed, e)
  <2>1. <<e>> \in Seq(SlackEvents) /\ Append(feed, e) = feed \o <<e>>
        /\ Append(feed, e) \in Seq(SlackEvents)
        /\ \A k \in 1 .. Len(<<e>>) : <<e>>[k] = e
    BY <1>1, <1>2
  <2> QED BY <1>3, <1>5, <2>1
<1> QED BY <1>4, <1>5 DEF Announced, e

(* Those whom a request invites and who are not in the channel yet.        *)
Uninvited == {u \in creation.invited : <<creation.channel, u>> \notin joined}

LEMMA Invitations ==
    ASSUME DirectoryTypeInv, Invite
    PROVE  /\ feed' \in Seq(SlackEvents)
           /\ \E s \in Seq(SlackEvents) :
                /\ feed' = feed \o s
                /\ \A k \in 1 .. Len(s) : /\ s[k].type = "member_joined_channel"
                                         /\ s[k].channel = creation.channel
                                         /\ s[k].user \in Uninvited
                /\ \A u \in Uninvited : \E k \in 1 .. Len(s) : s[k].user = u
<1>1. creation.channel \in Channels /\ creation.invited \subseteq Users
  BY DEF DirectoryTypeInv, Invite, NoRequest
<1>2. Uninvited \subseteq Users /\ Cardinality(Uninvited) \in Nat
  <2>1. Uninvited \subseteq Users
    BY <1>1 DEF Uninvited
  <2>2. IsFiniteSet(Users)
    BY DirectoryAssumption
  <2> QED BY <2>1, <2>2, FS_Subset, FS_CardinalityType
<1>3. PICK order \in [1 .. Cardinality(Uninvited) -> Uninvited] :
        /\ \A u \in Uninvited : \E i \in DOMAIN order : order[i] = u
        /\ feed' = feed \o [i \in DOMAIN order |->
                       Event("member_joined_channel", creation.channel, order[i], 0)]
  BY DEF Invite, Uninvited
<1> DEFINE s == [i \in DOMAIN order |->
                   Event("member_joined_channel", creation.channel, order[i], 0)]
<1>4. DOMAIN order = 1 .. Cardinality(Uninvited)
      /\ \A i \in DOMAIN order : order[i] \in Uninvited
  BY <1>3
<1>5. \A i \in DOMAIN order : s[i] \in SlackEvents
  BY <1>1, <1>2, <1>4, ASlackEvent DEF Memberships
<1>6. s \in Seq(SlackEvents) /\ Len(s) = Cardinality(Uninvited)
  BY <1>2, <1>4, <1>5
<1>7. \A k \in 1 .. Len(s) : /\ s[k].type = "member_joined_channel"
                            /\ s[k].channel = creation.channel
                            /\ s[k].user = order[k]
  BY <1>4, <1>6 DEF Event
<1>8. feed' = feed \o s
  BY <1>3
<1> HIDE DEF s
<1>9. feed \in Seq(SlackEvents) /\ feed' \in Seq(SlackEvents)
  BY <1>6, <1>8 DEF DirectoryTypeInv
<1>10. \A k \in 1 .. Len(s) : s[k].user \in Uninvited
  BY <1>4, <1>6, <1>7
<1>11. ASSUME NEW u \in Uninvited PROVE \E k \in 1 .. Len(s) : s[k].user = u
  <2>1. PICK i \in DOMAIN order : order[i] = u
    BY <1>3
  <2> QED BY <1>4, <1>6, <1>7, <2>1
<1> QED BY <1>6, <1>7, <1>8, <1>9, <1>10, <1>11

LEMMA DirectoryTypeKept ==
    ASSUME DirectoryTypeInv, [DirectoryNext]_directoryVars
    PROVE  DirectoryTypeInv'
<1> USE DEF DirectoryTypeInv, DirectoryTypeOK, historyVars
<1>0. \A c \in Channels, x \in 0 .. MaxChanges + 1 :
        Row(x, Kind[c]) \in Rows /\ Row(x, "public") \in Rows
  BY DirectoryAssumption DEF Row, Rows
<1>1. ASSUME NEW c \in Channels, Post(c) PROVE DirectoryTypeInv'
  <2>1. Event("message", c, "nobody", 0) \in SlackEvents
    BY <1>1, ASlackEvent, Titled DEF Post
  <2>2. feed' \in Seq(SlackEvents)
    BY <1>1, <2>1 DEF Post
  <2> QED BY <1>1, <2>2, Titled DEF Post
<1>2. ASSUME NEW c \in Channels, Found(c) PROVE DirectoryTypeInv'
  <2>1. feed' \in Seq(SlackEvents)
    BY <1>2, AnnouncedType DEF Found
  <2>2. name' \in [Channels -> 0 .. MaxChanges + 1] /\ \A d \in Channels : name'[d] <= changes' + 1
    BY <1>2, Titled DEF Found
  <2> QED BY <1>2, <2>1, <2>2, Titled DEF Found
<1>3. ASSUME NEW c \in Channels, RenameAtSlack(c) PROVE DirectoryTypeInv'
  <2>1. name' \in [Channels -> 0 .. MaxChanges + 1] /\ \A d \in Channels : name'[d] <= changes' + 1
    BY <1>3, Titled DEF RenameAtSlack
  <2>2. Event("channel_rename", c, "nobody", name'[c]) \in SlackEvents
    BY <2>1, ASlackEvent
  <2>3. feed' \in Seq(SlackEvents)
    BY <1>3, <2>2 DEF RenameAtSlack
  <2> QED BY <1>3, <2>1, <2>3, Titled DEF RenameAtSlack
<1>4. ASSUME NEW c \in Channels, WriteListed(c) PROVE DirectoryTypeInv'
  <2>1. rows' \in [Channels -> Rows] /\ listing' \in [Channels -> Rows]
    BY <1>4 DEF WriteListed, Rows
  <2> QED BY <1>4, <2>1 DEF WriteListed
<1>5. ASSUME NEW c \in Channels, NEW u \in Users, Join(c, u) \/ Leave(c, u) PROVE DirectoryTypeInv'
  <2>1. \A k \in Memberships : Append(feed, Event(k, c, u, 0)) \in Seq(SlackEvents)
    BY ASlackEvent
  <2>2. feed' \in Seq(SlackEvents)
    BY <1>5, <2>1 DEF Join, Leave, Memberships
  <2>3. joined' \subseteq Channels \X Users /\ untold' \subseteq joined'
    BY <1>5 DEF Join, Leave
  <2> QED BY <1>5, <2>2, <2>3, Titled DEF Join, Leave
<1>6. ASSUME NEW c \in Channels, NEW invited \in SUBSET Users, CreateChannel(c, invited)
      PROVE  DirectoryTypeInv'
  <2>1. Change /\ UNCHANGED <<joined, members, listing, overtaken, untold, backfilled>>
        /\ creation' = [at |-> "invite", channel |-> c, invited |-> invited]
    BY <1>6 DEF CreateChannel
  <2>2. creation'.at = "invite" /\ creation'.invited \subseteq Users
        /\ creation' \in [at : {"invite", "write"}, channel : Channels, invited : SUBSET Users]
    BY <2>1
  <2>3. CASE FoundByName(c)
    <3>1. UNCHANGED <<name, rows, feed>>
      BY <1>6, <2>3 DEF CreateChannel
    <3> QED BY <2>1, <2>2, <3>1, Titled
  <2>4. CASE ~FoundByName(c)
    <3>1. name' = [name EXCEPT ![c] = 1] /\ rows' = [rows EXCEPT ![c] = Row(1, Kind[c])]
          /\ feed' = Announced(c)
      BY <1>6, <2>4 DEF CreateChannel
    <3>2. feed' \in Seq(SlackEvents)
      BY <2>1, <3>1, AnnouncedType
    <3>3. name' \in [Channels -> 0 .. MaxChanges + 1] /\ \A d \in Channels : name'[d] <= changes' + 1
      BY <2>1, <3>1, Titled
    <3>4. rows' \in [Channels -> Rows]
      BY <1>0, <2>1, <3>1, Titled
    <3> QED BY <2>1, <2>2, <3>2, <3>3, <3>4, Titled
  <2> QED BY <2>3, <2>4
<1>7. CASE ApplyNext
  <2> DEFINE e == Head(feed)
  <2>1. e \in SlackEvents /\ feed' = Tail(feed) /\ feed' \in Seq(SlackEvents)
    BY <1>7 DEF ApplyNext
  <2>2. /\ rows' = [rows EXCEPT ![e.channel] = RowOf(e)]
        /\ members' = MembersAfter(e)
        /\ UNCHANGED <<name, joined, listing, creation, changes, untold, backfilled>>
    BY <1>7 DEF ApplyNext
  <2>7. \/ overtaken' = overtaken
        \/ e.type = "member_left_channel" /\ overtaken' = overtaken \union {<<e.channel, e.user>>}
    BY <1>7 DEF ApplyNext
  <2> HIDE DEF e
  <2>3. e.channel \in Channels /\ e.title \in 0 .. MaxChanges + 1
        /\ (e.type \in Memberships => e.user \in Users)
    BY <2>1, DirectoryAssumption DEF SlackEvents, Memberships
  <2>4. RowOf(e) \in Rows
    <3>1. 0 \in 0 .. MaxChanges + 1
      BY DirectoryAssumption
    <3>2. rows[e.channel] \in Rows
      BY <2>3
    <3>3. Row(0, "public") \in Rows /\ Row(e.title, "public") \in Rows
      BY <1>0, <2>3, <3>1
    <3> QED BY <3>2, <3>3 DEF RowOf
  <2>5. rows' \in [Channels -> Rows]
    BY <2>2, <2>3, <2>4
  <2>6. members' \subseteq Channels \X Users /\ overtaken' \subseteq Channels \X Users
    BY <2>2, <2>3, <2>7 DEF MembersAfter, Memberships
  <2> QED BY <2>1, <2>2, <2>5, <2>6
<1>8. CASE FetchListing
  <2>1. listing' \in [Channels -> Rows]
    <3>1. Unlisted \in Rows
      BY DEF Rows
    <3>2. \A c \in Channels : Row(name[c], Kind[c]) \in Rows
      BY <1>0
    <3> QED BY <1>8, <3>1, <3>2 DEF FetchListing
  <2> QED BY <1>8, <2>1, Titled DEF FetchListing
<1>9. CASE Invite
  <2>1. creation.at = "invite" /\ creation.channel \in Channels
        /\ creation \in [at : {"invite", "write"}, channel : Channels, invited : SUBSET Users]
    BY <1>9 DEF Invite, NoRequest
  <2>2. feed' \in Seq(SlackEvents)
    BY <1>9, Invitations
  <2>3. creation' = [creation EXCEPT !.at = "write"]
        /\ UNCHANGED <<name, rows, members, listing, changes, overtaken, untold, backfilled>>
        /\ joined' = joined \union {<<creation.channel, u>> : u \in Uninvited}
    BY <1>9 DEF Invite, Uninvited
  <2>4. creation' \in [at : {"invite", "write"}, channel : Channels, invited : SUBSET Users]
        /\ creation'.at = "write" /\ creation'.invited \subseteq Users
    BY <2>1, <2>3
  <2>5. joined' \subseteq Channels \X Users /\ untold' \subseteq joined'
    <3>1. \A u \in Uninvited : <<creation.channel, u>> \in Channels \X Users
      BY <2>1 DEF Uninvited
    <3> QED BY <2>3, <3>1
  <2> QED BY <2>2, <2>3, <2>4, <2>5
<1>10. CASE WriteInvited
  <2>1. creation \in [at : {"invite", "write"}, channel : Channels, invited : SUBSET Users]
    BY <1>10 DEF WriteInvited, NoRequest
  <2>2. UNCHANGED <<name, joined, feed, rows, listing, changes, overtaken, backfilled>>
        /\ untold' \subseteq joined'
    BY <1>10 DEF WriteInvited
  <2>3. CASE creation' = NoRequest /\ members' = members
    BY <2>2, <2>3 DEF NoRequest
  <2>4. ASSUME NEW u \in creation.invited, members' = members \union {<<creation.channel, u>>},
               creation' = [creation EXCEPT !.invited = @ \ {u}]
        PROVE  DirectoryTypeInv'
    <3>1. creation' \in [at : {"invite", "write"}, channel : Channels, invited : SUBSET Users]
          /\ creation'.at \in {"invite", "write"} /\ creation'.invited \subseteq Users
      BY <2>1, <2>4
    <3>2. members' \subseteq Channels \X Users
      BY <2>1, <2>4
    <3> QED BY <2>2, <3>1, <3>2
  <2> QED BY <1>10, <2>3, <2>4 DEF WriteInvited
<1>11. CASE CreationFails
  BY <1>11 DEF CreationFails, NoRequest
<1>12. CASE UNCHANGED directoryVars
  BY <1>12 DEF directoryVars
<1> QED BY <1>1, <1>2, <1>3, <1>4, <1>5, <1>6, <1>7, <1>8, <1>9, <1>10, <1>11, <1>12
         DEF DirectoryNext

(* A step that moves neither membership nor feed.                          *)
LEMMA NothingTold ==
    ASSUME UNCHANGED <<joined, feed>>
    PROVE  \A c, u : (Told(c, u)' <=> Told(c, u)) /\ (Silent(c, u)' <=> Silent(c, u))
  BY DEF Told, Silent, Concerns, Tells

(* A step that adds events which tell of no membership.                    *)
LEMMA OthersTold ==
    ASSUME NEW s \in Seq(SlackEvents), MembersInv, feed' = feed \o s,
           \A c, u : \A k \in 1 .. Len(s) : ~Concerns(s[k], c, u),
           UNCHANGED <<joined, members, overtaken, untold>>,
           creation' = creation \/ creation'.at # "write"
    PROVE  Follows' /\ Inviting'
<1>1. \A c, u : (Told(c, u) => Told(c, u)') /\ (Silent(c, u) => Silent(c, u)')
  BY Appended DEF MembersInv, DirectoryTypeInv
<1> QED BY <1>1 DEF MembersInv, Follows, Inviting

LEMMA OneEvent ==
    ASSUME NEW e \in SlackEvents, MembersInv, feed' = Append(feed, e)
    PROVE  \E s \in Seq(SlackEvents) :
             feed' = feed \o s /\ Len(s) = 1 /\ s[1] = e /\ \A k \in 1 .. Len(s) : s[k] = e
<1>1. feed \in Seq(SlackEvents)
  BY DEF MembersInv, DirectoryTypeInv
<1>2. <<e>> \in Seq(SlackEvents) /\ feed' = feed \o <<e>> /\ Len(<<e>>) = 1
      /\ <<e>>[1] = e /\ \A k \in 1 .. Len(<<e>>) : <<e>>[k] = e
  BY <1>1
<1> QED BY <1>2

(* Someone joins or leaves.                                                *)
LEMMA MembershipFollows ==
    ASSUME NEW c \in Channels, NEW u \in Users, MembersInv, Join(c, u) \/ Leave(c, u)
    PROVE  Follows' /\ Inviting'
<1>1. PICK k \in Memberships : /\ feed' = Append(feed, Event(k, c, u, 0))
                               /\ Tells(Event(k, c, u, 0), c, u)'
                               /\ \A d, v : <<d, v>> # <<c, u>> =>
                                    (<<d, v>> \in joined' <=> <<d, v>> \in joined)
  BY DEF Join, Leave, Memberships, Tells, Event
<1>2. /\ UNCHANGED <<members, creation, overtaken>>
      /\ <<c, u>> \notin untold'
      /\ \A d, v : <<d, v>> # <<c, u>> => (<<d, v>> \in untold' <=> <<d, v>> \in untold)
  <2>1. untold \subseteq joined
    BY DEF MembersInv, DirectoryTypeInv, DirectoryTypeOK
  <2> QED BY <2>1 DEF Join, Leave, historyVars
<1>3. PICK s \in Seq(SlackEvents) : /\ feed' = feed \o s /\ Len(s) = 1
                                    /\ s[1] = Event(k, c, u, 0)
                                    /\ \A i \in 1 .. Len(s) : s[i] = Event(k, c, u, 0)
  BY <1>1, ASlackEvent, OneEvent
<1>4. feed \in Seq(SlackEvents)
  BY DEF MembersInv, DirectoryTypeInv
<1>5. Told(c, u)'
  <2>1. Concerns(s[1], c, u) /\ 1 \in 1 .. Len(s)
    BY <1>3 DEF Concerns, Event
  <2>2. \A i \in 1 .. Len(s) : Concerns(s[i], c, u) => Tells(s[i], c, u)'
    BY <1>1, <1>3 DEF Tells
  <2> QED BY <1>3, <1>4, <2>1, <2>2, Appended
<1>6. ASSUME NEW d, NEW v, <<d, v>> # <<c, u>>
      PROVE  (Told(d, v) => Told(d, v)') /\ (Silent(d, v) => Silent(d, v)')
             /\ (<<d, v>> \in joined' <=> <<d, v>> \in joined)
  <2>1. \A i \in 1 .. Len(s) : ~Concerns(s[i], d, v)
    BY <1>3, <1>6 DEF Concerns, Event
  <2>2. <<d, v>> \in joined' <=> <<d, v>> \in joined
    BY <1>1, <1>6
  <2> QED BY <1>3, <1>4, <2>1, <2>2, Appended
<1>7. Follows'
  BY <1>2, <1>5, <1>6 DEF MembersInv, Follows
<1>8. Inviting'
  BY <1>2, <1>5, <1>6 DEF MembersInv, Inviting
<1> QED BY <1>7, <1>8

(* An event is applied.                                                    *)
LEMMA ApplyFollows ==
    ASSUME MembersInv, ApplyNext
    PROVE  Follows' /\ Inviting'
<1> DEFINE e == Head(feed)
<1>1. /\ feed \in Seq(SlackEvents) /\ feed # <<>> /\ feed' = Tail(feed) /\ joined' = joined
      /\ creation' = creation /\ untold' = untold /\ members' = MembersAfter(e)
      /\ e \in SlackEvents
  BY DEF MembersInv, DirectoryTypeInv, ApplyNext
<1>2. overtaken' = IF e.type = "member_left_channel" /\ creation.channel = e.channel
                       /\ e.user \in creation.invited
                   THEN overtaken \union {<<e.channel, e.user>>} ELSE overtaken
  BY DEF ApplyNext
<1>3. ASSUME NEW c, NEW u
      PROVE  /\ Silent(c, u) => Silent(c, u)' /\ ~Concerns(e, c, u)
             /\ Told(c, u) =>
                  \/ Told(c, u)'
                  \/ Silent(c, u)' /\ Concerns(e, c, u) /\ Tells(e, c, u)
  <2>1. /\ Silent(c, u) => Silent(c, u)' /\ ~Concerns(Head(feed), c, u)
        /\ Told(c, u) =>
             \/ Told(c, u)'
             \/ Silent(c, u)' /\ Concerns(Head(feed), c, u) /\ Tells(Head(feed), c, u)
    BY <1>1, Applied
  <2> QED BY <2>1 DEF e
<1> HIDE DEF e
<1>4. \A c, u : ~Concerns(e, c, u) => (<<c, u>> \in members' <=> <<c, u>> \in members)
  BY <1>1 DEF MembersAfter, Concerns, Memberships
<1>5. \A c, u : Concerns(e, c, u) /\ Tells(e, c, u) => (<<c, u>> \in members' <=> <<c, u>> \in joined)
  BY <1>1 DEF MembersAfter, Concerns, Tells, Memberships
<1>6. overtaken \subseteq overtaken'
  BY <1>2
<1>7. Follows'
  <2> SUFFICES ASSUME NEW c \in Channels, NEW u \in Users, <<c, u>> \notin overtaken'
               PROVE  \/ Told(c, u)' /\ <<c, u>> \notin untold
                      \/ Silent(c, u)' /\ (<<c, u>> \in members' <=> <<c, u>> \in joined \ untold)
    BY <1>1 DEF Follows
  <2>1. \/ Told(c, u) /\ <<c, u>> \notin untold
        \/ Silent(c, u) /\ (<<c, u>> \in members <=> <<c, u>> \in joined \ untold)
    BY <1>6 DEF MembersInv, Follows
  <2> QED BY <1>1, <1>3, <1>4, <1>5, <2>1
<1>8. Inviting'
  <2> SUFFICES ASSUME NEW u \in creation.invited, creation.at = "write"
               PROVE  \/ <<creation.channel, u>> \in joined \union overtaken'
                      \/ Told(creation.channel, u)'
    BY <1>1 DEF Inviting
  <2>0. PICK room : room = creation.channel /\ room = creation'.channel
    BY <1>1
  <2>1. CASE <<creation.channel, u>> \in joined \union overtaken
    BY <1>6, <2>1
  <2>2. CASE Told(creation.channel, u) /\ <<creation.channel, u>> \notin joined
    <3>1. Concerns(e, room, u) /\ Tells(e, room, u) => <<room, u>> \in overtaken'
      BY <1>2, <2>0, <2>2 DEF Concerns, Tells, Memberships
    <3>2. Told(room, u)' \/ <<room, u>> \in overtaken'
      BY <1>3, <2>0, <2>2, <3>1
    <3> QED BY <2>0, <3>2
  <2> QED BY <2>1, <2>2 DEF MembersInv, Inviting
<1> QED BY <1>7, <1>8

(* A request invites, and then writes whom it invited.                     *)
LEMMA InviteFollows ==
    ASSUME MembersInv, Invite
    PROVE  Follows' /\ Inviting'
<1>0. PICK room : room = creation.channel
  OBVIOUS
<1>1. PICK s \in Seq(SlackEvents) :
        /\ feed' = feed \o s
        /\ \A k \in 1 .. Len(s) : /\ s[k].type = "member_joined_channel"
                                  /\ s[k].channel = creation.channel
                                  /\ s[k].user \in Uninvited
        /\ \A u \in Uninvited : \E k \in 1 .. Len(s) : s[k].user = u
  BY Invitations DEF MembersInv
<1>2. /\ feed \in Seq(SlackEvents) /\ joined' = joined \union {<<room, u>> : u \in Uninvited}
      /\ UNCHANGED <<members, overtaken, untold>> /\ untold \subseteq joined
      /\ creation'.channel = room /\ creation'.invited = creation.invited
  BY <1>0 DEF MembersInv, DirectoryTypeInv, DirectoryTypeOK, Invite, Uninvited, NoRequest, historyVars
<1>3. ASSUME NEW u \in Uninvited
      PROVE  Told(room, u)' /\ <<room, u>> \in joined'
  <2>1. PICK k \in 1 .. Len(s) : s[k].user = u
    BY <1>1
  <2>2. Concerns(s[k], room, u)
    BY <1>0, <1>1, <2>1 DEF Concerns, Memberships
  <2>3. <<room, u>> \in joined'
    BY <1>2
  <2>4. \A l \in 1 .. Len(s) : Concerns(s[l], room, u) => Tells(s[l], room, u)'
    BY <1>1, <2>3 DEF Tells, Concerns
  <2> QED BY <1>1, <1>2, <2>2, <2>3, <2>4, Appended
<1>4. ASSUME NEW c, NEW u, c # room \/ u \notin Uninvited
      PROVE  /\ Told(c, u) => Told(c, u)'
             /\ Silent(c, u) => Silent(c, u)'
             /\ <<c, u>> \in joined' <=> <<c, u>> \in joined
  <2>1. <<c, u>> \in joined' <=> <<c, u>> \in joined
    BY <1>2, <1>4
  <2>2. \A k \in 1 .. Len(s) : ~Concerns(s[k], c, u)
    BY <1>0, <1>1, <1>4 DEF Concerns
  <2> QED BY <1>1, <1>2, <2>1, <2>2, Appended
<1>5. Follows'
  <2> SUFFICES ASSUME NEW c \in Channels, NEW u \in Users, <<c, u>> \notin overtaken
               PROVE  \/ Told(c, u)' /\ <<c, u>> \notin untold
                      \/ Silent(c, u)' /\ (<<c, u>> \in members' <=> <<c, u>> \in joined' \ untold)
    BY <1>2 DEF Follows
  <2>1. CASE c = room /\ u \in Uninvited
    <3>1. <<c, u>> \notin untold
      BY <1>0, <1>2, <2>1 DEF Uninvited
    <3> QED BY <1>3, <2>1, <3>1
  <2>2. CASE c # room \/ u \notin Uninvited
    BY <1>2, <1>4, <2>2 DEF MembersInv, Follows
  <2> QED BY <2>1, <2>2
<1>6. Inviting'
  <2>1. \A u \in creation.invited : <<room, u>> \in joined'
    BY <1>0, <1>2, <1>3 DEF Uninvited
  <2> QED BY <1>2, <2>1 DEF Inviting
<1> QED BY <1>5, <1>6

LEMMA WriteFollows ==
    ASSUME MembersInv, WriteInvited
    PROVE  Follows' /\ Inviting'
<1>1. UNCHANGED <<joined, feed, overtaken>> /\ creation.at = "write"
  BY DEF WriteInvited
<1>2. \A c, u : (Told(c, u)' <=> Told(c, u)) /\ (Silent(c, u)' <=> Silent(c, u))
  BY <1>1, NothingTold
<1>3. CASE creation' = NoRequest /\ members' = members /\ untold' = untold
  BY <1>1, <1>2, <1>3 DEF MembersInv, Follows, Inviting, NoRequest
<1>4. ASSUME NEW w \in creation.invited, members' = members \union {<<creation.channel, w>>},
             untold' = untold \ {<<creation.channel, w>>},
             creation' = [creation EXCEPT !.invited = @ \ {w}]
      PROVE  Follows' /\ Inviting'
  <2>1. \/ <<creation.channel, w>> \in joined \union overtaken
        \/ Told(creation.channel, w)
    BY <1>1 DEF MembersInv, Inviting
  <2>2. ASSUME NEW c \in Channels, NEW u \in Users, <<c, u>> \notin overtaken,
               ~(Told(c, u) /\ <<c, u>> \notin untold)
        PROVE  Silent(c, u) /\ (<<c, u>> \in members' <=> <<c, u>> \in joined \ untold')
    <3>1. Silent(c, u) /\ (<<c, u>> \in members <=> <<c, u>> \in joined \ untold)
      BY <2>2 DEF MembersInv, Follows
    <3>2. ~Told(c, u)
      BY <3>1 DEF Silent, Told
    <3> QED BY <1>4, <2>1, <2>2, <3>1, <3>2
  <2>3. Follows'
    <3> SUFFICES ASSUME NEW c \in Channels, NEW u \in Users, <<c, u>> \notin overtaken
                 PROVE  \/ Told(c, u) /\ <<c, u>> \notin untold'
                        \/ Silent(c, u) /\ (<<c, u>> \in members' <=> <<c, u>> \in joined \ untold')
      BY <1>1, <1>2 DEF Follows
    <3> QED BY <1>4, <2>2
  <2>4. creation'.channel = creation.channel /\ creation'.invited \subseteq creation.invited
    BY <1>4 DEF MembersInv, DirectoryTypeInv, NoRequest
  <2>5. Inviting'
    BY <1>1, <1>2, <2>4 DEF MembersInv, Inviting
  <2> QED BY <2>3, <2>5
<1> QED BY <1>3, <1>4 DEF WriteInvited

LEMMA MembersKept == MembersInv /\ [DirectoryNext]_directoryVars => MembersInv'
<1> SUFFICES ASSUME MembersInv, [DirectoryNext]_directoryVars PROVE MembersInv'
  OBVIOUS
<1>0. DirectoryTypeInv'
  BY DirectoryTypeKept DEF MembersInv
<1> SUFFICES Follows' /\ Inviting'
  BY <1>0 DEF MembersInv
<1>1. UNCHANGED <<joined, feed, members, overtaken, untold>> /\ (creation' = creation \/ creation'.at # "write")
      => Follows' /\ Inviting'
  BY NothingTold DEF MembersInv, Follows, Inviting
<1>2. ASSUME NEW c \in Channels, Post(c) \/ RenameAtSlack(c) PROVE Follows' /\ Inviting'
  <2>1. PICK e : /\ e \in SlackEvents /\ feed' = Append(feed, e)
                 /\ \A d, u : ~Concerns(e, d, u)
    <3>1. name'[c] \in 0 .. MaxChanges + 1 /\ 0 \in 0 .. MaxChanges + 1
      BY <1>0, DirectoryAssumption DEF DirectoryTypeInv, DirectoryTypeOK
    <3>2. PICK k \in {"message", "channel_rename"}, x \in 0 .. MaxChanges + 1 :
            feed' = Append(feed, Event(k, c, "nobody", x))
      BY <1>2, <3>1 DEF Post, RenameAtSlack
    <3>3. Event(k, c, "nobody", x) \in SlackEvents
      BY <3>2, ASlackEvent
    <3>4. \A d, u : ~Concerns(Event(k, c, "nobody", x), d, u)
      BY <3>2 DEF Concerns, Event, Memberships
    <3> QED BY <3>2, <3>3, <3>4
  <2>2. UNCHANGED <<joined, members, overtaken, untold, creation>>
    BY <1>2 DEF Post, RenameAtSlack, historyVars
  <2>3. PICK s \in Seq(SlackEvents) : feed' = feed \o s /\ \A k \in 1 .. Len(s) : s[k] = e
    BY <2>1, OneEvent
  <2> QED BY <2>1, <2>2, <2>3, OthersTold
<1>3. ASSUME NEW c \in Channels, feed' = Announced(c), Change,
             UNCHANGED <<joined, members, overtaken, untold>>, creation' = creation \/ creation'.at # "write"
      PROVE  Follows' /\ Inviting'
  <2>1. PICK s \in Seq(SlackEvents) :
          Announced(c) = feed \o s /\ \A d, u : \A k \in 1 .. Len(s) : ~Concerns(s[k], d, u)
    BY <1>3, AnnouncedType DEF MembersInv
  <2> QED BY <1>3, <2>1, OthersTold
<1>4. ASSUME NEW c \in Channels, Found(c) PROVE Follows' /\ Inviting'
  BY <1>3, <1>4 DEF Found, historyVars
<1>5. ASSUME NEW c \in Channels, NEW invited \in SUBSET Users, CreateChannel(c, invited)
      PROVE  Follows' /\ Inviting'
  <2>1. Change /\ UNCHANGED <<joined, members, overtaken, untold>> /\ creation'.at # "write"
        /\ (feed' = feed \/ feed' = Announced(c))
    BY <1>5 DEF CreateChannel, historyVars
  <2> QED BY <1>1, <1>3, <2>1
<1>6. ASSUME NEW c \in Channels, WriteListed(c) PROVE Follows' /\ Inviting'
  BY <1>1, <1>6 DEF WriteListed
<1>7. ASSUME NEW c \in Channels, NEW u \in Users, Join(c, u) \/ Leave(c, u)
      PROVE  Follows' /\ Inviting'
  BY <1>7, MembershipFollows
<1>8. CASE ApplyNext
  BY <1>8, ApplyFollows
<1>9. CASE FetchListing \/ CreationFails
  BY <1>1, <1>9 DEF FetchListing, CreationFails, NoRequest, historyVars
<1>10. CASE Invite
  BY <1>10, InviteFollows
<1>11. CASE WriteInvited
  BY <1>11, WriteFollows
<1>12. CASE UNCHANGED directoryVars
  BY <1>1, <1>12 DEF directoryVars, historyVars
<1> QED BY <1>2, <1>4, <1>5, <1>6, <1>7, <1>8, <1>9, <1>10, <1>11, <1>12 DEF DirectoryNext

(* The tables and the feed of the directory keep their types and bounds    *)
(* (upsert_channel and the member functions in core/db.py).                *)
THEOREM DirectoryTypeCorrect == DirectorySpec => []DirectoryTypeOK
<1>1. DirectoryInit => MembersInv
  BY DirectoryStarts
<1>2. MembersInv => DirectoryTypeOK
  BY DEF MembersInv, DirectoryTypeInv
<1> QED BY <1>1, <1>2, MembersKept, PTL DEF DirectorySpec

(* Once every event is applied, the members table has those who are in a   *)
(* channel and of whom an event or a request has told, however joins,      *)
(* leaves, invitations and their writes overlapped, but for whoever left   *)
(* before a request wrote them, whoever was a member at the start          *)
(* (create_channel in service/app.py, upsert_channel_member).              *)
THEOREM MembersAlwaysFollow == DirectorySpec => []MembersFollow
<1>1. DirectoryInit => MembersInv
  BY DirectoryStarts
<1>2. MembersInv => MembersFollow
  <2> SUFFICES ASSUME MembersInv, Settled PROVE members \ overtaken = (joined \ untold) \ overtaken
    BY DEF MembersFollow
  <2>1. feed = <<>>
    BY DEF Settled
  <2>2. \A c, u : ~Told(c, u)
    BY <2>1 DEF Told
  <2>3. \A c \in Channels, u \in Users :
          <<c, u>> \notin overtaken => (<<c, u>> \in members <=> <<c, u>> \in joined \ untold)
    BY <2>2 DEF MembersInv, Follows
  <2>4. members \subseteq Channels \X Users /\ joined \subseteq Channels \X Users
    BY DEF MembersInv, DirectoryTypeInv, DirectoryTypeOK
  <2> QED BY <2>3, <2>4
<1> QED BY <1>1, <1>2, MembersKept, PTL DEF DirectorySpec

-----------------------------------------------------------------------------
(* Runtime reports *)

(* A chore as it may be: a snapshot, a deletion or a rename.               *)
SnapshotsBy(s) == [at : {"page", "latest", "manifest"}, name : Reports, to : {"none"},
                   stamp : 1 .. s]
Snapshots == SnapshotsBy(second)
Deletions == [at : {"unpage", "unlist"}, name : Reports, to : {"none"}, stamp : {0}]
Renames == [at : {"move pages", "move latest", "rewrite"}, name : Reports, to : Reports,
            stamp : {0}]

ReportsTypeInv ==
    /\ ReportsTypeOK
    /\ pages \subseteq Reports \X (1 .. second)
    /\ \A t \in Threads : chore[t] \in {Resting} \union Snapshots \union Deletions \union Renames
    /\ \A t \in Threads : chore[t] \in Renames => chore[t].name # chore[t].to

Named(t) == {chore[t].name, chore[t].to}
Clear(n) == n \notin muddled \union robbed
Listed(n) ==
    /\ manifest[n] # None /\ manifest[n].name = n
    /\ latest[n] = manifest[n].at /\ <<n, manifest[n].at>> \in pages

(* A name that is not muddled is worked on by one thread at most.          *)
OneEach ==
    \A t, u \in Threads, n \in Reports \ muddled :
        n \in Named(t) /\ n \in Named(u) => t = u

(* What a chore has done of its name so far.                               *)
ChoreStands(t) ==
    LET at == chore[t].at  n == chore[t].name  to == chore[t].to  s == chore[t].stamp IN
    /\ at \in {"page", "latest", "manifest"} /\ n \notin muddled =>
         \A p \in pages : p[1] = n => p[2] <= s
    /\ at \in {"latest", "manifest"} /\ Clear(n) => <<n, s>> \in pages
    /\ at = "manifest" /\ Clear(n) => latest[n] = s
    /\ at = "move pages" /\ Clear(n) => Listed(n)
    /\ at = "move latest" /\ Clear(n) /\ Clear(to) =>
         /\ manifest[n] # None /\ latest[n] = manifest[n].at
         /\ <<to, manifest[n].at>> \in pages
    /\ at = "rewrite" /\ n \notin muddled => manifest[n] = None
    /\ at = "rewrite" /\ Clear(to) =>
         /\ manifest[to] # None /\ latest[to] = manifest[to].at
         /\ <<to, manifest[to].at>> \in pages

Stands(n) == Clear(n) /\ manifest[n] # None /\ AtWork(n) = {} => Listed(n)

ReportsInv ==
    /\ ReportsTypeInv /\ OneEach
    /\ \A t \in Threads : ChoreStands(t)
    /\ \A n \in Reports : Stands(n)

LEMMA ReportsStart == ReportsInit => ReportsInv
<1> SUFFICES ASSUME ReportsInit PROVE ReportsInv
  OBVIOUS
<1>1. MaxSecond \in Nat \ {0} /\ MaxChores \in Nat /\ "none" \notin Reports
  BY ReportsAssumption
<1>2. \A t \in Threads : chore[t] = Resting
  BY DEF ReportsInit
<1>3. ReportsTypeOK
  BY <1>1 DEF ReportsInit, ReportsTypeOK, Resting
<1>4. ReportsTypeInv
  BY <1>2, <1>3 DEF ReportsTypeInv, ReportsInit, Resting, Renames
<1>5. OneEach
  BY <1>1, <1>2 DEF OneEach, Named, Resting
<1>6. ASSUME NEW t \in Threads PROVE ChoreStands(t)
  <2>1. chore[t].at = "rest"
    BY <1>2 DEF Resting
  <2> QED BY <2>1 DEF ChoreStands
<1>7. \A n \in Reports : Stands(n)
  BY DEF Stands, ReportsInit
<1> QED BY <1>4, <1>5, <1>6, <1>7 DEF ReportsInv

LEMMA ChoreTypes ==
    ASSUME ReportsTypeInv, NEW t \in Threads
    PROVE  /\ chore[t].at \in {"page", "latest", "manifest"} => chore[t] \in Snapshots
           /\ chore[t].at \in {"unpage", "unlist"} => chore[t] \in Deletions
           /\ chore[t].at \in {"move pages", "move latest", "rewrite"} =>
                chore[t] \in Renames /\ chore[t].name # chore[t].to
           /\ chore[t].at = "rest" => chore[t] = Resting
           /\ chore[t] \in {Resting} \union Snapshots \union Deletions \union Renames
<1>1. /\ chore[t] \in {Resting} \union Snapshots \union Deletions \union Renames
      /\ chore[t] \in Renames => chore[t].name # chore[t].to
  BY DEF ReportsTypeInv
<1>2. CASE chore[t] = Resting
  BY <1>2 DEF Resting
<1>3. CASE chore[t] \in Snapshots
  BY <1>3 DEF Snapshots, SnapshotsBy
<1>4. CASE chore[t] \in Deletions
  BY <1>4 DEF Deletions
<1>5. CASE chore[t] \in Renames
  BY <1>1, <1>5 DEF Renames
<1> QED BY <1>1, <1>2, <1>3, <1>4, <1>5

LEMMA AtWorkNamed ==
    ASSUME NEW n
    PROVE  /\ AtWork(n) = {t \in Threads : n \in Named(t)}
           /\ AtWork(n)' = {t \in Threads : n \in Named(t)'}
  BY DEF AtWork, Named

(* What a step of t leaves alone: the others' chores and, but for pages    *)
(* that are robbed, the names that t is not at.                            *)
Apart(t) ==
    /\ chore' \in [Threads -> Snapshots' \union Deletions \union Renames \union {Resting}]
    /\ \A u \in Threads : u # t => chore'[u] = chore[u]
    /\ chore'[t] = Resting \/ Named(t)' \subseteq Named(t)
    /\ muddled \subseteq muddled' /\ robbed \subseteq robbed'
    /\ \A n \in Reports : n \notin Named(t) =>
         /\ manifest'[n] = manifest[n]
         /\ \A s : <<n, s>> \in pages' => <<n, s>> \in pages
         /\ Clear(n)' => /\ latest'[n] = latest[n]
                         /\ \A s : <<n, s>> \in pages => <<n, s>> \in pages'

(* Such a step keeps what holds of the other chores and the other names.   *)
LEMMA OthersStand ==
    ASSUME ReportsInv, NEW t \in Threads, Apart(t), ReportsTypeInv'
    PROVE  /\ OneEach'
           /\ \A u \in Threads : u # t => ChoreStands(u)'
           /\ \A n \in Reports : n \notin Named(t) => Stands(n)'
<1>0. "none" \notin Reports
  BY ReportsAssumption
<1>1. \A u \in Threads : u # t => Named(u)' = Named(u)
  BY DEF Apart, Named
<1>2. \A n \in Reports : n \in Named(t)' => n \in Named(t)
  BY <1>0 DEF Apart, Named, Resting
<1>3. OneEach'
  <2> SUFFICES ASSUME NEW u \in Threads, NEW v \in Threads, NEW n \in Reports, n \notin muddled',
                      n \in Named(u)', n \in Named(v)'
               PROVE  u = v
    BY DEF OneEach
  <2>1. n \notin muddled
    BY DEF Apart
  <2>2. n \in Named(u) /\ n \in Named(v)
    BY <1>1, <1>2
  <2> QED BY <2>1, <2>2 DEF ReportsInv, OneEach
<1>4. ASSUME NEW u \in Threads, u # t PROVE ChoreStands(u)'
  <2>1. chore'[u] = chore[u]
    BY <1>4 DEF Apart
  <2>2. \A n \in Reports : n \in Named(u) /\ n \notin muddled' => n \notin Named(t) /\ n \notin muddled
    BY <1>4 DEF ReportsInv, OneEach, Apart
  <2>3. ASSUME NEW n \in Reports, n \in Named(u), n \notin muddled'
        PROVE  /\ manifest'[n] = manifest[n]
               /\ \A s : <<n, s>> \in pages' => <<n, s>> \in pages
               /\ Clear(n)' => /\ latest'[n] = latest[n] /\ Clear(n)
                               /\ \A s : <<n, s>> \in pages => <<n, s>> \in pages'
    BY <2>2, <2>3 DEF Apart, Clear
  <2>4. ChoreStands(u)
    BY DEF ReportsInv
  <2>5. CASE chore[u].at \in {"page", "latest", "manifest"}
    <3>1. chore[u].name \in Reports /\ chore[u].name \in Named(u)
      BY <2>5, ChoreTypes DEF ReportsInv, Snapshots, SnapshotsBy, Named
    <3>2. PICK n \in Reports : n = chore[u].name /\ n \in Named(u)
      BY <3>1
    <3>3. /\ chore[u].at \in {"latest", "manifest"} /\ Clear(n)' => <<n, chore[u].stamp>> \in pages'
          /\ chore[u].at = "manifest" /\ Clear(n)' => latest'[n] = chore[u].stamp
      BY <2>3, <2>4, <3>2 DEF ChoreStands, Clear
    <3>4. ASSUME n \notin muddled', NEW p \in pages', p[1] = n PROVE p[2] <= chore[u].stamp
      <4>1. p = <<n, p[2]>>
        BY <3>4 DEF ReportsTypeInv
      <4>2. p \in pages /\ n \notin muddled
        BY <2>2, <2>3, <3>2, <3>4, <4>1
      <4> QED BY <2>4, <2>5, <3>2, <3>4, <4>2 DEF ChoreStands
    <3> QED BY <2>1, <2>5, <3>2, <3>3, <3>4 DEF ChoreStands, Clear
  <2>6. CASE chore[u].at \in {"move pages", "move latest", "rewrite"}
    <3>1. /\ chore[u].name \in Reports /\ chore[u].name \in Named(u)
          /\ chore[u].to \in Reports /\ chore[u].to \in Named(u)
      BY <2>6, ChoreTypes DEF ReportsInv, Renames, Named
    <3>2. PICK n \in Reports : n = chore[u].name /\ n \in Named(u)
      BY <3>1
    <3>3. PICK to \in Reports : to = chore[u].to /\ to \in Named(u)
      BY <3>1
    <3>4. chore[u].at = "move pages" /\ Clear(n)' => Listed(n)'
      BY <2>3, <2>4, <3>2 DEF ChoreStands, Clear, Listed
    <3>5. chore[u].at = "move latest" /\ Clear(n)' /\ Clear(to)' =>
            /\ manifest'[n] # None /\ latest'[n] = manifest'[n].at
            /\ <<to, manifest'[n].at>> \in pages'
      BY <2>3, <2>4, <3>2, <3>3 DEF ChoreStands, Clear
    <3>6. chore[u].at = "rewrite" /\ n \notin muddled' => manifest'[n] = None
      BY <2>2, <2>3, <2>4, <3>2 DEF ChoreStands
    <3>7. chore[u].at = "rewrite" /\ Clear(to)' =>
            /\ manifest'[to] # None /\ latest'[to] = manifest'[to].at
            /\ <<to, manifest'[to].at>> \in pages'
      BY <2>3, <2>4, <3>3 DEF ChoreStands, Clear
    <3> QED BY <2>1, <2>6, <3>2, <3>3, <3>4, <3>5, <3>6, <3>7 DEF ChoreStands, Clear, Listed
  <2>7. CASE chore[u].at \notin {"page", "latest", "manifest", "move pages", "move latest", "rewrite"}
    BY <2>1, <2>7 DEF ChoreStands
  <2> QED BY <2>5, <2>6, <2>7
<1>5. ASSUME NEW n \in Reports, n \notin Named(t) PROVE Stands(n)'
  <2> SUFFICES ASSUME Clear(n)', manifest'[n] # None, AtWork(n)' = {}
               PROVE  Listed(n)'
    BY DEF Stands
  <2>1. AtWork(n) = {}
    BY <1>1, <1>5, AtWorkNamed
  <2>2. Clear(n) /\ manifest[n] = manifest'[n] /\ latest'[n] = latest[n]
        /\ \A s : <<n, s>> \in pages => <<n, s>> \in pages'
    BY <1>5 DEF Apart, Clear
  <2>3. Listed(n)
    BY <2>1, <2>2 DEF ReportsInv, Stands
  <2> QED BY <2>2, <2>3 DEF Listed
<1> QED BY <1>3, <1>4, <1>5

Manifests == {None} \union [name : Reports, at : 1 .. MaxSecond]

Chores ==
    [at : {"rest", "page", "latest", "manifest", "unpage", "unlist", "move pages",
           "move latest", "rewrite"},
     name : Reports \union {"none"}, to : Reports \union {"none"}, stamp : 0 .. MaxSecond]

LEMMA RestingIsAChore == Resting \in Chores
  BY ReportsAssumption DEF Resting, Chores

LEMMA SnapshotIsAChore ==
    ASSUME NEW s \in 1 .. MaxSecond, NEW c \in SnapshotsBy(s) PROVE c \in Chores
<1>1. c.stamp \in 0 .. MaxSecond
  BY ReportsAssumption DEF SnapshotsBy
<1> QED BY <1>1 DEF SnapshotsBy, Chores

LEMMA DeletionIsAChore == ASSUME NEW c \in Deletions PROVE c \in Chores
<1>1. 0 \in 0 .. MaxSecond
  BY ReportsAssumption
<1> QED BY <1>1 DEF Deletions, Chores

LEMMA RenameIsAChore == ASSUME NEW c \in Renames PROVE c \in Chores
<1>1. 0 \in 0 .. MaxSecond
  BY ReportsAssumption
<1> QED BY <1>1 DEF Renames, Chores

(* What stays of a chore that goes on.                                     *)
LEMMA SnapshotGoesOn ==
    ASSUME NEW s, NEW c \in SnapshotsBy(s), NEW at \in {"latest", "manifest"}
    PROVE  /\ [c EXCEPT !.at = at] \in SnapshotsBy(s)
           /\ [c EXCEPT !.at = at] \notin Renames
           /\ [c EXCEPT !.at = at].name = c.name
           /\ [c EXCEPT !.at = at].to = c.to
<1>1. [c EXCEPT !.at = at] \in SnapshotsBy(s)
  BY DEF SnapshotsBy
<1>2. DOMAIN c = {"at", "name", "to", "stamp"}
  BY DEF SnapshotsBy
<1>3. \A d \in Renames : d.at \notin {"latest", "manifest"}
  BY DEF Renames
<1> QED BY <1>1, <1>2, <1>3

LEMMA DeletionGoesOn ==
    ASSUME NEW c \in Deletions, NEW at, at = "unlist"
    PROVE  /\ [c EXCEPT !.at = at] \in Deletions
           /\ [c EXCEPT !.at = at] \notin Renames
           /\ [c EXCEPT !.at = at].name = c.name
           /\ [c EXCEPT !.at = at].to = c.to
<1>1. [c EXCEPT !.at = at] \in Deletions
  BY DEF Deletions
<1>2. DOMAIN c = {"at", "name", "to", "stamp"}
  BY DEF Deletions
<1>3. \A d \in Renames : d.at # "unlist"
  BY DEF Renames
<1> QED BY <1>1, <1>2, <1>3

LEMMA RenameGoesOn ==
    ASSUME NEW c \in Renames, NEW at \in {"move latest", "rewrite"}
    PROVE  /\ [c EXCEPT !.at = at] \in Renames
           /\ [c EXCEPT !.at = at].name = c.name
           /\ [c EXCEPT !.at = at].to = c.to
<1>1. [c EXCEPT !.at = at] \in Renames
  BY DEF Renames
<1>2. DOMAIN c = {"at", "name", "to", "stamp"}
  BY DEF Renames
<1> QED BY <1>1, <1>2

LEMMA ReportsTypeFrom ==
    ASSUME second' \in 1 .. MaxSecond, pages' \subseteq Reports \X (1 .. second'),
           latest' \in [Reports -> 0 .. MaxSecond], manifest' \in [Reports -> Manifests],
           chore' \in [Threads -> Snapshots' \union Deletions \union Renames \union {Resting}],
           \A t \in Threads : chore'[t] \in Renames => chore'[t].name # chore'[t].to,
           chores' \in 0 .. MaxChores, muddled' \subseteq Reports, robbed' \subseteq Reports
    PROVE  ReportsTypeInv'
<1>1. MaxSecond \in Nat \ {0}
  BY ReportsAssumption
<1>2. pages' \subseteq Reports \X (1 .. MaxSecond)
  BY <1>1
<1>3. ASSUME NEW t \in Threads
      PROVE  chore'[t] \in Chores
  <2>1. chore'[t] \in Snapshots' => chore'[t] \in Chores
    BY SnapshotIsAChore DEF Snapshots
  <2> QED BY <2>1, RestingIsAChore, DeletionIsAChore, RenameIsAChore
<1>4. ReportsTypeOK'
  BY <1>2, <1>3 DEF ReportsTypeOK, Manifests, Chores
<1>5. \A t \in Threads : chore'[t] \in {Resting} \union Snapshots' \union Deletions \union Renames
  OBVIOUS
<1> QED BY <1>4, <1>5 DEF ReportsTypeInv, Resting, Deletions, Renames

LEMMA ReportsTypes ==
    ASSUME ReportsTypeInv
    PROVE  /\ second \in 1 .. MaxSecond /\ MaxSecond \in Nat /\ second \in Nat /\ second >= 1
           /\ pages \subseteq Reports \X (1 .. second)
           /\ latest \in [Reports -> 0 .. MaxSecond] /\ manifest \in [Reports -> Manifests]
           /\ chore \in [Threads -> Snapshots \union Deletions \union Renames \union {Resting}]
           /\ \A t \in Threads : chore[t] \in Renames => chore[t].name # chore[t].to
           /\ chores \in 0 .. MaxChores /\ muddled \subseteq Reports /\ robbed \subseteq Reports
<1>1. MaxSecond \in Nat
  BY ReportsAssumption
<1>2. chore \in [Threads -> Snapshots \union Deletions \union Renames \union {Resting}]
  <2>1. DOMAIN chore = Threads /\ chore = [t \in Threads |-> chore[t]]
    BY DEF ReportsTypeInv, ReportsTypeOK
  <2>2. \A t \in Threads : chore[t] \in {Resting} \union Snapshots \union Deletions \union Renames
    BY DEF ReportsTypeInv
  <2> QED BY <2>1, <2>2
<1>3. second \in 1 .. MaxSecond /\ second \in Nat /\ second >= 1
  <2>1. second \in 1 .. MaxSecond
    BY DEF ReportsTypeInv, ReportsTypeOK
  <2> QED BY <1>1, <2>1
<1>4. latest \in [Reports -> 0 .. MaxSecond] /\ manifest \in [Reports -> Manifests]
  BY DEF ReportsTypeInv, ReportsTypeOK, Manifests
<1> QED BY <1>1, <1>2, <1>3, <1>4 DEF ReportsTypeInv, ReportsTypeOK

(* A thread goes on in the same chore, or rests.                           *)
LEMMA ChoreGoesOn ==
    ASSUME ReportsTypeInv, NEW t \in Threads, second' = second, NEW at,
           \/ chore' = [chore EXCEPT ![t] = Resting]
           \/ /\ chore' = [chore EXCEPT ![t].at = at]
              /\ \/ chore[t] \in Snapshots /\ at \in {"latest", "manifest"}
                 \/ chore[t] \in Deletions /\ at = "unlist"
                 \/ chore[t] \in Renames /\ at \in {"move latest", "rewrite"}
    PROVE  /\ chore' \in [Threads -> Snapshots' \union Deletions \union Renames \union {Resting}]
           /\ \A u \in Threads : chore'[u] \in Renames => chore'[u].name # chore'[u].to
           /\ \A u \in Threads : u # t => chore'[u] = chore[u]
           /\ \/ chore'[t] = Resting
              \/ chore'[t] = [chore[t] EXCEPT !.at = at] /\ Named(t)' = Named(t)
<1>1. Snapshots' = Snapshots
  BY DEF Snapshots
<1>2. /\ chore \in [Threads -> Snapshots \union Deletions \union Renames \union {Resting}]
      /\ \A u \in Threads : chore[u] \in Renames => chore[u].name # chore[u].to
  BY ReportsTypes
<1>3. Resting \notin Renames
  BY DEF Resting, Renames
<1>4. CASE chore' = [chore EXCEPT ![t] = Resting]
  <2>1. chore'[t] = Resting /\ \A u \in Threads : u # t => chore'[u] = chore[u]
    BY <1>2, <1>4
  <2>2. chore' \in [Threads -> Snapshots \union Deletions \union Renames \union {Resting}]
    BY <1>2, <1>4
  <2>3. \A u \in Threads : chore'[u] \in Renames => chore'[u].name # chore'[u].to
    BY <1>2, <1>3, <2>1
  <2>4. chore' \in [Threads -> Snapshots' \union Deletions \union Renames \union {Resting}]
    BY <1>1, <2>2
  <2> QED BY <2>1, <2>3, <2>4
<1>5. ASSUME chore' = [chore EXCEPT ![t].at = at],
             \/ chore[t] \in Snapshots /\ at \in {"latest", "manifest"}
             \/ chore[t] \in Deletions /\ at = "unlist"
             \/ chore[t] \in Renames /\ at \in {"move latest", "rewrite"}
      PROVE  /\ chore' \in [Threads -> Snapshots \union Deletions \union Renames \union {Resting}]
             /\ \A u \in Threads : chore'[u] \in Renames => chore'[u].name # chore'[u].to
             /\ \A u \in Threads : u # t => chore'[u] = chore[u]
             /\ chore'[t] = [chore[t] EXCEPT !.at = at] /\ Named(t)' = Named(t)
  <2>1. chore'[t] = [chore[t] EXCEPT !.at = at] /\ \A u \in Threads : u # t => chore'[u] = chore[u]
    BY <1>2, <1>5
  <2>2. chore'[t].name = chore[t].name /\ chore'[t].to = chore[t].to
        /\ chore'[t] \in Snapshots \union Deletions \union Renames
        /\ (chore'[t] \in Renames => chore[t] \in Renames)
    <3>1. PICK c : c = chore[t]
      OBVIOUS
    <3>2. \/ c \in SnapshotsBy(second) /\ at \in {"latest", "manifest"}
          \/ c \in Deletions /\ at = "unlist"
          \/ c \in Renames /\ at \in {"move latest", "rewrite"}
      BY <1>5, <3>1 DEF Snapshots
    <3>3. chore'[t] = [c EXCEPT !.at = at]
      BY <2>1, <3>1
    <3>4. /\ [c EXCEPT !.at = at] \in SnapshotsBy(second) \union Deletions \union Renames
          /\ [c EXCEPT !.at = at] \in Renames => c \in Renames
          /\ [c EXCEPT !.at = at].name = c.name
          /\ [c EXCEPT !.at = at].to = c.to
      <4>1. CASE c \in SnapshotsBy(second) /\ at \in {"latest", "manifest"}
        BY <4>1, SnapshotGoesOn
      <4>2. CASE c \in Deletions /\ at = "unlist"
        BY <4>2, DeletionGoesOn
      <4>3. CASE c \in Renames /\ at \in {"move latest", "rewrite"}
        BY <4>3, RenameGoesOn
      <4> QED BY <3>2, <4>1, <4>2, <4>3
    <3> QED BY <3>1, <3>3, <3>4 DEF Snapshots
  <2>3. chore' \in [Threads -> Snapshots \union Deletions \union Renames \union {Resting}]
    BY <1>2, <1>5, <2>1, <2>2
  <2> QED BY <1>2, <2>1, <2>2, <2>3 DEF Named
<1> QED BY <1>1, <1>4, <1>5

LEMMA StepStands ==
    ASSUME ReportsInv, NEW t \in Threads, Apart(t), ReportsTypeInv', ChoreStands(t)',
           \A n \in Reports : n \in Named(t) => Stands(n)'
    PROVE  ReportsInv'
<1>1. OneEach' /\ \A u \in Threads : u # t => ChoreStands(u)'
  BY OthersStand
<1>2. \A n \in Reports : n \notin Named(t) => Stands(n)'
  BY OthersStand
<1> QED BY <1>1, <1>2 DEF ReportsInv

(* While t goes on, no name it is at need be listed.                       *)
LEMMA GoingOn ==
    ASSUME NEW t \in Threads, Named(t)' = Named(t)
    PROVE  \A n \in Reports : n \in Named(t) => Stands(n)'
<1> SUFFICES ASSUME NEW n \in Reports, n \in Named(t) PROVE AtWork(n)' # {}
  BY DEF Stands
<1> QED BY AtWorkNamed

LEMMA WritePageStands ==
    ASSUME ReportsInv, NEW t \in Threads, WritePage(t) PROVE ReportsInv'
<1> DEFINE n == chore[t].name  s == chore[t].stamp
<1>0. ReportsTypeInv
  BY DEF ReportsInv
<1>1. chore[t].at = "page" /\ chore[t] \in Snapshots
  BY <1>0, ChoreTypes DEF WritePage
<1>2. n \in Reports /\ s \in 1 .. second /\ n \in Named(t)
  BY <1>1 DEF Snapshots, SnapshotsBy, Named
<1>3. pages' = pages \union {<<n, s>>} /\ chore' = [chore EXCEPT ![t].at = "latest"]
      /\ UNCHANGED <<second, latest, manifest, chores, muddled, robbed>>
  BY DEF WritePage, Onto
<1>4. /\ chore' \in [Threads -> Snapshots' \union Deletions \union Renames \union {Resting}]
      /\ \A u \in Threads : chore'[u] \in Renames => chore'[u].name # chore'[u].to
      /\ \A u \in Threads : u # t => chore'[u] = chore[u]
      /\ chore'[t] = [chore[t] EXCEPT !.at = "latest"]
  <2>1. chore'[t] = [chore[t] EXCEPT !.at = "latest"]
    BY <1>0, <1>3, ReportsTypes
  <2> QED BY <1>0, <1>1, <1>3, <2>1, ChoreGoesOn
<1>5. chore'[t].at = "latest" /\ chore'[t].name = n /\ chore'[t].stamp = s /\ chore'[t].to = chore[t].to
  BY <1>1, <1>4 DEF Snapshots, SnapshotsBy
<1>6. Named(t)' = Named(t)
  BY <1>5 DEF Named
<1>7. ReportsTypeInv'
  <2>1. pages' \subseteq Reports \X (1 .. second')
    BY <1>0, <1>2, <1>3, ReportsTypes
  <2> QED BY <1>0, <1>3, <1>4, <2>1, ReportsTypes, ReportsTypeFrom
<1>8. Apart(t)
  BY <1>2, <1>3, <1>4, <1>6 DEF Apart
<1>9. ChoreStands(t)'
  <2>1. n \notin muddled => \A p \in pages : p[1] = n => p[2] <= s
    BY <1>1 DEF ReportsInv, ChoreStands
  <2>2. s <= s
    BY <1>0, <1>2, ReportsTypes
  <2>3. n \notin muddled => \A p \in pages' : p[1] = n => p[2] <= s
    BY <1>3, <2>1, <2>2
  <2>4. <<n, s>> \in pages'
    BY <1>3
  <2>5. chore'[t].at \notin {"page", "manifest", "move pages", "move latest", "rewrite"}
    BY <1>5
  <2> HIDE DEF n, s
  <2> QED BY <1>3, <1>5, <2>3, <2>4, <2>5 DEF ChoreStands
<1> QED BY <1>6, <1>7, <1>8, <1>9, GoingOn, StepStands

(* The same of the state a step leads to, name by name.                    *)
LEMMA ChoreStandsFrom ==
    ASSUME NEW t \in Threads, NEW n, NEW to, NEW s, NEW at,
           chore'[t].at = at, chore'[t].name = n, chore'[t].to = to, chore'[t].stamp = s,
           at \in {"page", "latest", "manifest"} /\ n \notin muddled' =>
             \A p \in pages' : p[1] = n => p[2] <= s,
           at \in {"latest", "manifest"} /\ Clear(n)' => <<n, s>> \in pages',
           at = "manifest" /\ Clear(n)' => latest'[n] = s,
           at = "move pages" /\ Clear(n)' => Listed(n)',
           at = "move latest" /\ Clear(n)' /\ Clear(to)' =>
             /\ manifest'[n] # None /\ latest'[n] = manifest'[n].at
             /\ <<to, manifest'[n].at>> \in pages',
           at = "rewrite" /\ n \notin muddled' => manifest'[n] = None,
           at = "rewrite" /\ Clear(to)' =>
             /\ manifest'[to] # None /\ latest'[to] = manifest'[to].at
             /\ <<to, manifest'[to].at>> \in pages'
    PROVE  ChoreStands(t)'
  BY DEF ChoreStands, Clear, Listed

LEMMA WriteLatestStands ==
    ASSUME ReportsInv, NEW t \in Threads, WriteLatest(t) PROVE ReportsInv'
<1> DEFINE n == chore[t].name  s == chore[t].stamp
<1>0. ReportsTypeInv
  BY DEF ReportsInv
<1>1. chore[t].at = "latest" /\ chore[t] \in Snapshots
  BY <1>0, ChoreTypes DEF WriteLatest
<1>2. n \in Reports /\ s \in 1 .. second /\ n \in Named(t)
  BY <1>1 DEF Snapshots, SnapshotsBy, Named
<1>3. latest' = [latest EXCEPT ![n] = s] /\ chore' = [chore EXCEPT ![t].at = "manifest"]
      /\ UNCHANGED <<second, pages, manifest, chores, muddled, robbed>>
  BY DEF WriteLatest, Onto
<1>4. /\ chore' \in [Threads -> Snapshots' \union Deletions \union Renames \union {Resting}]
      /\ \A u \in Threads : chore'[u] \in Renames => chore'[u].name # chore'[u].to
      /\ \A u \in Threads : u # t => chore'[u] = chore[u]
      /\ chore'[t] = [chore[t] EXCEPT !.at = "manifest"]
  <2>1. chore'[t] = [chore[t] EXCEPT !.at = "manifest"]
    BY <1>0, <1>3, ReportsTypes
  <2> QED BY <1>0, <1>1, <1>3, <2>1, ChoreGoesOn
<1>5. chore'[t].at = "manifest" /\ chore'[t].name = n /\ chore'[t].stamp = s /\ chore'[t].to = chore[t].to
  BY <1>1, <1>4 DEF Snapshots, SnapshotsBy
<1>6. Named(t)' = Named(t)
  BY <1>5 DEF Named
<1>7. ReportsTypeInv'
  <2>1. s \in 0 .. MaxSecond
    BY <1>0, <1>2, ReportsTypes
  <2>2. latest' \in [Reports -> 0 .. MaxSecond]
    BY <1>0, <1>2, <1>3, <2>1, ReportsTypes
  <2> QED BY <1>0, <1>3, <1>4, <2>2, ReportsTypes, ReportsTypeFrom
<1>8. latest'[n] = s /\ \A m \in Reports : m # n => latest'[m] = latest[m]
  BY <1>0, <1>2, <1>3, ReportsTypes
<1>9. Apart(t)
  BY <1>2, <1>3, <1>4, <1>6, <1>8 DEF Apart
<1>10. ChoreStands(t)'
  <2>1. /\ n \notin muddled => \A p \in pages : p[1] = n => p[2] <= s
        /\ Clear(n) => <<n, s>> \in pages
    BY <1>1 DEF ReportsInv, ChoreStands
  <2>2. \A m : Clear(m)' <=> Clear(m)
    BY <1>3 DEF Clear
  <2>3. chore'[t].at = "manifest" /\ s >= s
    BY <1>0, <1>2, <1>5, ReportsTypes
  <2>4. PICK m, z : m = n /\ z = s
    OBVIOUS
  <2> HIDE DEF n, s
  <2>5. /\ m \notin muddled' => \A p \in pages' : p[1] = m => p[2] <= z
        /\ Clear(m)' => <<m, z>> \in pages' /\ latest'[m] = z
    BY <1>3, <1>8, <2>1, <2>2, <2>4
  <2> QED BY <1>5, <2>3, <2>4, <2>5, ChoreStandsFrom
<1> QED BY <1>6, <1>7, <1>9, <1>10, GoingOn, StepStands

LEMMA PruneAndListStands ==
    ASSUME ReportsInv, NEW t \in Threads, PruneAndList(t) PROVE ReportsInv'
<1> DEFINE n == chore[t].name  s == chore[t].stamp
<1>0. ReportsTypeInv
  BY DEF ReportsInv
<1>1. chore[t].at = "manifest" /\ chore[t] \in Snapshots
  BY <1>0, ChoreTypes DEF PruneAndList
<1>2. n \in Reports /\ s \in 1 .. second /\ Named(t) = {n, "none"}
  BY <1>1 DEF Snapshots, SnapshotsBy, Named
<1>3. /\ pages' = {p \in pages : p[1] # n} \union Kept(n, s)
      /\ manifest' = [manifest EXCEPT ![n] = [name |-> n, at |-> s]]
      /\ chore' = [chore EXCEPT ![t] = Resting]
      /\ UNCHANGED <<second, latest, chores, muddled, robbed>>
  BY DEF PruneAndList, Rests
<1>4. /\ chore' \in [Threads -> Snapshots' \union Deletions \union Renames \union {Resting}]
      /\ \A u \in Threads : chore'[u] \in Renames => chore'[u].name # chore'[u].to
      /\ \A u \in Threads : u # t => chore'[u] = chore[u]
      /\ chore'[t] = Resting
  <2>1. chore'[t] = Resting
    BY <1>0, <1>3, ReportsTypes
  <2> QED BY <1>0, <1>3, <2>1, ChoreGoesOn
<1>5. Kept(n, s) \subseteq {p \in pages : p[1] = n}
  BY DEF Kept
<1>6. manifest'[n] = [name |-> n, at |-> s] /\ \A m \in Reports : m # n => manifest'[m] = manifest[m]
  BY <1>0, <1>2, <1>3, ReportsTypes
<1>7. ReportsTypeInv'
  <2>1. pages' \subseteq Reports \X (1 .. second')
    BY <1>0, <1>3, <1>5, ReportsTypes
  <2>2. s \in 1 .. MaxSecond
    BY <1>0, <1>2, ReportsTypes
  <2>3. manifest' \in [Reports -> Manifests]
    BY <1>0, <1>2, <1>3, <2>2, ReportsTypes DEF Manifests
  <2> QED BY <1>0, <1>3, <1>4, <2>1, <2>3, ReportsTypes, ReportsTypeFrom
<1>8. \A m : m # n => \A x : <<m, x>> \in pages' <=> <<m, x>> \in pages
  BY <1>3, <1>5
<1>9. Apart(t)
  BY <1>2, <1>3, <1>4, <1>6, <1>8 DEF Apart
<1>10. ChoreStands(t)'
  BY <1>4 DEF ChoreStands, Resting
<1>11. ASSUME NEW m \in Reports, m = n, Clear(m) PROVE Listed(m)'
  <2>1. /\ \A p \in pages : p[1] = n => p[2] <= s
        /\ <<n, s>> \in pages /\ latest[n] = s
    BY <1>1, <1>11 DEF ReportsInv, ChoreStands, Clear
  <2>2. <<n, s>> \in Kept(n, s)
    <3> DEFINE newer == {q \in pages : q[1] = n /\ q[2] > s}
    <3>1. newer = {}
      <4> SUFFICES ASSUME NEW q \in pages, q[1] = n, q[2] > s PROVE FALSE
        OBVIOUS
      <4>1. q[2] \in 1 .. second /\ s \in 1 .. second /\ second \in Nat
        BY <1>0, <1>2, ReportsTypes
      <4> QED BY <2>1, <4>1
    <3>2. Cardinality(newer) < KeepCount
      <4>1. Cardinality(newer) = 0
        BY <3>1, FS_EmptySet, Zenon
      <4> HIDE DEF newer
      <4> QED BY <4>1, ReportsAssumption
    <3>3. s + MaxAge >= s
      BY <1>0, <1>2, ReportsTypes, ReportsAssumption
    <3> QED BY <2>1, <3>2, <3>3 DEF Kept
  <2>3. [name |-> n, at |-> s] # None
    BY <1>0, <1>2, ReportsTypes DEF None
  <2>4. manifest'[m] = [name |-> m, at |-> s] /\ latest'[m] = s /\ <<m, s>> \in pages'
    BY <1>3, <1>6, <1>11, <2>1, <2>2
  <2> QED BY <1>11, <2>3, <2>4 DEF Listed, None
<1>12. ASSUME NEW m \in Reports, m \in Named(t) PROVE Stands(m)'
  <2>1. m = n
    BY <1>2, <1>12, ReportsAssumption
  <2>2. Clear(m)' => Clear(m)
    BY <1>3 DEF Clear
  <2> QED BY <1>11, <2>1, <2>2 DEF Stands
<1> QED BY <1>7, <1>9, <1>10, <1>12, StepStands

(* Pages that go with a shorter name's leave their own name robbed.        *)
LEMMA RobbingStands ==
    ASSUME ReportsTypeInv, NEW n \in Reports, Robs(n), NEW movedPages,
           pages' = {p \in pages : p[1] \notin {n} \union Longer[n]} \union movedPages
    PROVE  /\ latest' \in [Reports -> 0 .. MaxSecond]
           /\ latest'[n] = latest[n]
           /\ robbed \subseteq robbed' /\ robbed' \subseteq Reports
           /\ n \in robbed' => n \in robbed
           /\ \A m \in Reports : m # n /\ m \notin robbed' =>
                /\ latest'[m] = latest[m]
                /\ \A s : <<m, s>> \in pages => <<m, s>> \in pages'
<1>1. /\ latest \in [Reports -> 0 .. MaxSecond] /\ robbed \subseteq Reports
      /\ pages \subseteq Reports \X (1 .. second) /\ MaxSecond \in Nat
  BY ReportsTypes
<1>2. n \notin Longer[n] /\ Longer[n] \subseteq Reports
  BY ReportsAssumption
<1>3. latest' = [m \in Reports |-> IF m \in Longer[n] THEN 0 ELSE latest[m]]
      /\ robbed' = robbed \union {m \in Longer[n] :
                                    latest[m] # 0 \/ \E p \in pages : p[1] = m}
  BY DEF Robs
<1>4. latest' \in [Reports -> 0 .. MaxSecond] /\ latest'[n] = latest[n]
  BY <1>1, <1>2, <1>3
<1>5. ASSUME NEW m \in Reports, m # n, m \notin robbed'
      PROVE  /\ latest'[m] = latest[m]
             /\ \A s : <<m, s>> \in pages => <<m, s>> \in pages'
  <2>1. CASE m \in Longer[n]
    <3>1. latest[m] = 0 /\ \A s : <<m, s>> \notin pages
      BY <1>3, <1>5, <2>1
    <3> QED BY <1>3, <2>1, <3>1
  <2>2. CASE m \notin Longer[n]
    BY <1>3, <1>5, <2>2
  <2> QED BY <2>1, <2>2
<1> QED BY <1>1, <1>2, <1>3, <1>4, <1>5

LEMMA UnpageStands ==
    ASSUME ReportsInv, NEW t \in Threads, Unpage(t) PROVE ReportsInv'
<1> DEFINE n == chore[t].name
<1>0. ReportsTypeInv
  BY DEF ReportsInv
<1>1. chore[t].at = "unpage" /\ chore[t] \in Deletions
  BY <1>0, ChoreTypes DEF Unpage
<1>2. n \in Reports /\ Named(t) = {n, "none"}
  BY <1>1 DEF Deletions, Named
<1>3. /\ pages' = {p \in pages : p[1] \notin {n} \union Longer[n]} \union {}
      /\ Robs(n)
      /\ chore' = [chore EXCEPT ![t].at = "unlist"]
      /\ UNCHANGED <<second, manifest, chores, muddled>>
  BY DEF Unpage, Onto
<1>4. /\ chore' \in [Threads -> Snapshots' \union Deletions \union Renames \union {Resting}]
      /\ \A u \in Threads : chore'[u] \in Renames => chore'[u].name # chore'[u].to
      /\ \A u \in Threads : u # t => chore'[u] = chore[u]
      /\ chore'[t] = [chore[t] EXCEPT !.at = "unlist"]
  <2>1. chore'[t] = [chore[t] EXCEPT !.at = "unlist"]
    BY <1>0, <1>3, ReportsTypes
  <2> QED BY <1>0, <1>1, <1>3, <2>1, ChoreGoesOn
<1>5. chore'[t].at = "unlist" /\ chore'[t].name = n /\ chore'[t].to = chore[t].to
  BY <1>1, <1>4 DEF Deletions
<1>6. Named(t)' = Named(t)
  BY <1>5 DEF Named
<1>7. /\ latest' \in [Reports -> 0 .. MaxSecond]
      /\ robbed \subseteq robbed' /\ robbed' \subseteq Reports
      /\ \A m \in Reports : m # n /\ m \notin robbed' =>
           /\ latest'[m] = latest[m]
           /\ \A s : <<m, s>> \in pages => <<m, s>> \in pages'
  BY <1>0, <1>2, <1>3, RobbingStands
<1>8. ReportsTypeInv'
  <2>1. pages' \subseteq Reports \X (1 .. second')
    BY <1>0, <1>3, ReportsTypes
  <2> QED BY <1>0, <1>3, <1>4, <1>7, <2>1, ReportsTypes, ReportsTypeFrom
<1>9. Apart(t)
  BY <1>2, <1>3, <1>4, <1>6, <1>7 DEF Apart, Clear
<1>10. ChoreStands(t)'
  BY <1>5 DEF ChoreStands
<1> QED BY <1>6, <1>8, <1>9, <1>10, GoingOn, StepStands

LEMMA UnlistStands ==
    ASSUME ReportsInv, NEW t \in Threads, Unlist(t) PROVE ReportsInv'
<1> DEFINE n == chore[t].name
<1>0. ReportsTypeInv
  BY DEF ReportsInv
<1>1. chore[t].at = "unlist" /\ chore[t] \in Deletions
  BY <1>0, ChoreTypes DEF Unlist
<1>2. n \in Reports /\ Named(t) = {n, "none"}
  BY <1>1 DEF Deletions, Named
<1>3. /\ latest' = [latest EXCEPT ![n] = 0]
      /\ UNCHANGED <<second, pages, chores, muddled, robbed>>
      /\ \/ UNCHANGED <<chore, manifest>>
         \/ manifest' = [manifest EXCEPT ![n] = None] /\ chore' = [chore EXCEPT ![t] = Resting]
  BY DEF Unlist, Rests
<1>4. /\ latest' \in [Reports -> 0 .. MaxSecond] /\ manifest' \in [Reports -> Manifests]
      /\ \A m \in Reports : m # n => latest'[m] = latest[m] /\ manifest'[m] = manifest[m]
  <2>1. 0 \in 0 .. MaxSecond
    BY <1>0, ReportsTypes
  <2> QED BY <1>0, <1>2, <1>3, <2>1, ReportsTypes DEF Manifests
<1>5. pages' \subseteq Reports \X (1 .. second')
  BY <1>0, <1>3, ReportsTypes
<1>6. CASE chore' = [chore EXCEPT ![t] = Resting] /\ manifest' = [manifest EXCEPT ![n] = None]
  <2>1. /\ chore' \in [Threads -> Snapshots' \union Deletions \union Renames \union {Resting}]
        /\ \A u \in Threads : chore'[u] \in Renames => chore'[u].name # chore'[u].to
        /\ \A u \in Threads : u # t => chore'[u] = chore[u]
        /\ chore'[t] = Resting
    <3>1. chore'[t] = Resting
      BY <1>0, <1>6, ReportsTypes
    <3> QED BY <1>0, <1>3, <1>6, <3>1, ChoreGoesOn
  <2>2. ReportsTypeInv'
    BY <1>0, <1>3, <1>4, <1>5, <2>1, ReportsTypes, ReportsTypeFrom
  <2>3. Apart(t)
    BY <1>2, <1>3, <1>4, <2>1 DEF Apart
  <2>4. ChoreStands(t)'
    BY <2>1 DEF ChoreStands, Resting
  <2>5. manifest'[n] = None
    BY <1>0, <1>2, <1>6, ReportsTypes
  <2>6. \A m \in Reports : m \in Named(t) => Stands(m)'
    BY <1>2, <2>5, ReportsAssumption DEF Stands
  <2> QED BY <2>2, <2>3, <2>4, <2>6, StepStands
<1>7. CASE chore' = chore /\ manifest' = manifest
  <2>1. /\ Snapshots' = Snapshots /\ Named(t)' = Named(t)
        /\ chore' \in [Threads -> Snapshots' \union Deletions \union Renames \union {Resting}]
        /\ \A u \in Threads : chore'[u] \in Renames => chore'[u].name # chore'[u].to
    BY <1>0, <1>3, <1>7, ReportsTypes DEF Snapshots, Named
  <2>2. ReportsTypeInv'
    BY <1>0, <1>3, <1>4, <1>5, <2>1, ReportsTypes, ReportsTypeFrom
  <2>3. Apart(t)
    BY <1>2, <1>3, <1>4, <1>7, <2>1 DEF Apart
  <2>4. ChoreStands(t)'
    BY <1>1, <1>7 DEF ChoreStands
  <2> QED BY <2>1, <2>2, <2>3, <2>4, GoingOn, StepStands
<1> QED BY <1>3, <1>6, <1>7

LEMMA KilledStands ==
    ASSUME ReportsInv, NEW t \in Threads, Killed(t) PROVE ReportsInv'
<1>0. ReportsTypeInv
  BY DEF ReportsInv
<1>1. /\ chore' = [chore EXCEPT ![t] = Resting]
      /\ muddled' = muddled \union (Named(t) \intersect Reports)
      /\ UNCHANGED <<second, pages, latest, manifest, chores, robbed>>
  BY DEF Killed, Rests, Named
<1>2. /\ chore' \in [Threads -> Snapshots' \union Deletions \union Renames \union {Resting}]
      /\ \A u \in Threads : chore'[u] \in Renames => chore'[u].name # chore'[u].to
      /\ \A u \in Threads : u # t => chore'[u] = chore[u]
      /\ chore'[t] = Resting
  <2>1. chore'[t] = Resting
    BY <1>0, <1>1, ReportsTypes
  <2> QED BY <1>0, <1>1, <2>1, ChoreGoesOn
<1>3. ReportsTypeInv'
  BY <1>0, <1>1, <1>2, ReportsTypes, ReportsTypeFrom
<1>4. Apart(t)
  BY <1>1, <1>2 DEF Apart
<1>5. ChoreStands(t)'
  BY <1>2 DEF ChoreStands, Resting
<1>6. \A n \in Reports : n \in Named(t) => Stands(n)'
  BY <1>1 DEF Stands, Clear
<1> QED BY <1>3, <1>4, <1>5, <1>6, StepStands

LEMMA MovePagesStands ==
    ASSUME ReportsInv, NEW t \in Threads, MovePages(t) PROVE ReportsInv'
<1> DEFINE n == chore[t].name  to == chore[t].to
           movedPages == {<<to, p[2]>> : p \in {q \in pages : q[1] = n}}
<1>0. ReportsTypeInv
  BY DEF ReportsInv
<1>1. chore[t].at = "move pages" /\ chore[t] \in Renames
  BY <1>0, ChoreTypes DEF MovePages
<1>2. n \in Reports /\ to \in Reports /\ Named(t) = {n, to}
  BY <1>1 DEF Renames, Named
<1>3. /\ pages' = {p \in pages : p[1] \notin {n} \union Longer[n]} \union movedPages
      /\ Robs(n)
      /\ chore' = [chore EXCEPT ![t].at = "move latest"]
      /\ UNCHANGED <<second, manifest, chores, muddled>>
  BY DEF MovePages, Onto
<1>4. /\ chore' \in [Threads -> Snapshots' \union Deletions \union Renames \union {Resting}]
      /\ \A u \in Threads : chore'[u] \in Renames => chore'[u].name # chore'[u].to
      /\ \A u \in Threads : u # t => chore'[u] = chore[u]
      /\ chore'[t] = [chore[t] EXCEPT !.at = "move latest"]
  <2>1. chore'[t] = [chore[t] EXCEPT !.at = "move latest"]
    BY <1>0, <1>3, ReportsTypes
  <2> QED BY <1>0, <1>1, <1>3, <2>1, ChoreGoesOn
<1>5. /\ chore'[t].at = "move latest" /\ chore'[t].name = n /\ chore'[t].to = to
      /\ chore'[t].stamp = chore[t].stamp
  BY <1>1, <1>4 DEF Renames
<1>6. Named(t)' = Named(t)
  BY <1>5 DEF Named
<1>7. /\ latest' \in [Reports -> 0 .. MaxSecond] /\ latest'[n] = latest[n]
      /\ robbed \subseteq robbed' /\ robbed' \subseteq Reports
      /\ n \in robbed' => n \in robbed
      /\ \A m \in Reports : m # n /\ m \notin robbed' =>
           /\ latest'[m] = latest[m]
           /\ \A s : <<m, s>> \in pages => <<m, s>> \in pages'
  <2> HIDE DEF movedPages
  <2> QED BY <1>0, <1>2, <1>3, RobbingStands
<1>8. ReportsTypeInv'
  <2>1. movedPages \subseteq Reports \X (1 .. second)
    BY <1>0, <1>2, ReportsTypes
  <2>2. pages' \subseteq Reports \X (1 .. second')
    <3> HIDE DEF movedPages
    <3> QED BY <1>0, <1>3, <2>1, ReportsTypes
  <2> QED BY <1>0, <1>3, <1>4, <1>7, <2>2, ReportsTypes, ReportsTypeFrom
<1>9. Apart(t)
  <2>1. \A m \in Reports : m \notin Named(t) => \A s : <<m, s>> \in pages' => <<m, s>> \in pages
    BY <1>2, <1>3
  <2> HIDE DEF movedPages
  <2> QED BY <1>2, <1>3, <1>4, <1>6, <1>7, <2>1 DEF Apart, Clear
<1>10. ChoreStands(t)'
  <2>1. Clear(n) => Listed(n)
    BY <1>1 DEF ReportsInv, ChoreStands
  <2>2. PICK m, o : m = n /\ o = to
    OBVIOUS
  <2>3. Clear(m)' => Clear(m)
    BY <1>3, <1>7, <2>2 DEF Clear
  <2>4. Clear(m)' => /\ manifest'[m] # None /\ latest'[m] = manifest'[m].at
                     /\ <<o, manifest'[m].at>> \in pages'
    <3> SUFFICES ASSUME Clear(m)'
                 PROVE  /\ manifest'[m] # None /\ latest'[m] = manifest'[m].at
                        /\ <<o, manifest'[m].at>> \in pages'
      OBVIOUS
    <3>1. Listed(n)
      BY <2>1, <2>2, <2>3
    <3>2. <<n, manifest[n].at>> \in pages /\ <<to, manifest[n].at>> \in movedPages
      BY <3>1 DEF Listed
    <3> HIDE DEF movedPages
    <3> QED BY <1>3, <1>7, <2>2, <3>1, <3>2 DEF Listed
  <2> HIDE DEF n, to
  <2> QED BY <1>5, <2>2, <2>4, ChoreStandsFrom
<1> QED BY <1>6, <1>8, <1>9, <1>10, GoingOn, StepStands

LEMMA MoveLatestStands ==
    ASSUME ReportsInv, NEW t \in Threads, MoveLatest(t) PROVE ReportsInv'
<1> DEFINE n == chore[t].name  to == chore[t].to
<1>0. ReportsTypeInv
  BY DEF ReportsInv
<1>1. chore[t].at = "move latest" /\ chore[t] \in Renames /\ n # to
  BY <1>0, ChoreTypes DEF MoveLatest
<1>2. n \in Reports /\ to \in Reports /\ Named(t) = {n, to}
  BY <1>1 DEF Renames, Named
<1>3. /\ latest' = [latest EXCEPT ![n] = 0,
                       ![to] = IF latest[n] = 0 THEN latest[to] ELSE latest[n]]
      /\ manifest' = [manifest EXCEPT ![n] = None,
                         ![to] = IF manifest[n] = None THEN manifest[to] ELSE manifest[n]]
      /\ robbed' = IF n \in robbed THEN robbed \union {to} ELSE robbed
      /\ muddled' = IF n \in muddled THEN muddled \union {to} ELSE muddled
      /\ chore' = [chore EXCEPT ![t].at = "rewrite"]
      /\ UNCHANGED <<second, pages, chores>>
  BY <1>0, <1>1, <1>2, ReportsTypes DEF MoveLatest, Onto
<1>4. /\ chore' \in [Threads -> Snapshots' \union Deletions \union Renames \union {Resting}]
      /\ \A u \in Threads : chore'[u] \in Renames => chore'[u].name # chore'[u].to
      /\ \A u \in Threads : u # t => chore'[u] = chore[u]
      /\ chore'[t] = [chore[t] EXCEPT !.at = "rewrite"]
  <2>1. chore'[t] = [chore[t] EXCEPT !.at = "rewrite"]
    BY <1>0, <1>3, ReportsTypes
  <2> QED BY <1>0, <1>1, <1>3, <2>1, ChoreGoesOn
<1>5. /\ chore'[t].at = "rewrite" /\ chore'[t].name = n /\ chore'[t].to = to
      /\ chore'[t].stamp = chore[t].stamp
  BY <1>1, <1>4 DEF Renames
<1>6. Named(t)' = Named(t)
  BY <1>5 DEF Named
<1>7. /\ latest' \in [Reports -> 0 .. MaxSecond] /\ manifest' \in [Reports -> Manifests]
      /\ manifest'[n] = None
      /\ latest[n] # 0 => latest'[to] = latest[n]
      /\ manifest[n] # None => manifest'[to] = manifest[n]
      /\ \A m \in Reports : m \notin {n, to} =>
           latest'[m] = latest[m] /\ manifest'[m] = manifest[m]
  <2> HIDE DEF n, to
  <2>1. 0 \in 0 .. MaxSecond
    BY <1>0, ReportsTypes
  <2> QED BY <1>0, <1>1, <1>2, <1>3, <2>1, ReportsTypes DEF Manifests
<1>8. muddled' \subseteq Reports /\ robbed' \subseteq Reports
      /\ muddled \subseteq muddled' /\ robbed \subseteq robbed'
      /\ (to \notin muddled' \union robbed' => Clear(n) /\ Clear(to))
  <2> HIDE DEF n, to
  <2> QED BY <1>0, <1>2, <1>3, ReportsTypes DEF Clear
<1>9. ReportsTypeInv'
  BY <1>0, <1>3, <1>4, <1>7, <1>8, ReportsTypes, ReportsTypeFrom
<1>10. Apart(t)
  <2> HIDE DEF n, to
  <2> QED BY <1>2, <1>3, <1>4, <1>6, <1>7, <1>8 DEF Apart
<1>11. ChoreStands(t)'
  <2>1. Clear(n) /\ Clear(to) =>
          /\ manifest[n] # None /\ latest[n] = manifest[n].at
          /\ <<to, manifest[n].at>> \in pages
    BY <1>1 DEF ReportsInv, ChoreStands
  <2>2. manifest[n] # None => manifest[n].at # 0
    BY <1>0, <1>2, ReportsTypes DEF Manifests
  <2>3. PICK m, o : m = n /\ o = to
    OBVIOUS
  <2> HIDE DEF n, to
  <2>4. Clear(o)' => Clear(n) /\ Clear(to)
    BY <1>8, <2>3 DEF Clear
  <2>5. Clear(o)' => /\ manifest'[o] # None /\ latest'[o] = manifest'[o].at
                     /\ <<o, manifest'[o].at>> \in pages'
    BY <1>3, <1>7, <2>1, <2>2, <2>3, <2>4
  <2>6. manifest'[m] = None
    BY <1>7, <2>3
  <2> QED BY <1>5, <2>3, <2>5, <2>6, ChoreStandsFrom
<1> QED BY <1>6, <1>9, <1>10, <1>11, GoingOn, StepStands

LEMMA Retitled ==
    ASSUME NEW to \in Reports, NEW m \in Manifests, m # None
    PROVE  /\ [m EXCEPT !.name = to] \in Manifests /\ [m EXCEPT !.name = to] # None
           /\ [m EXCEPT !.name = to].name = to /\ [m EXCEPT !.name = to].at = m.at
  BY ReportsAssumption DEF Manifests, None

LEMMA RewriteStands ==
    ASSUME ReportsInv, NEW t \in Threads, Rewrite(t) PROVE ReportsInv'
<1> DEFINE n == chore[t].name  to == chore[t].to
<1>0. ReportsTypeInv
  BY DEF ReportsInv
<1>1. chore[t].at = "rewrite" /\ chore[t] \in Renames /\ n # to
  BY <1>0, ChoreTypes DEF Rewrite
<1>2. n \in Reports /\ to \in Reports /\ Named(t) = {n, to}
  BY <1>1 DEF Renames, Named
<1>3. /\ manifest' = IF manifest[to] = None THEN manifest
                     ELSE [manifest EXCEPT ![to] = [manifest[to] EXCEPT !.name = to]]
      /\ chore' = [chore EXCEPT ![t] = Resting]
      /\ UNCHANGED <<second, pages, latest, chores, muddled, robbed>>
  BY <1>0, <1>2, ReportsTypes DEF Rewrite, Rests
<1>4. /\ chore' \in [Threads -> Snapshots' \union Deletions \union Renames \union {Resting}]
      /\ \A u \in Threads : chore'[u] \in Renames => chore'[u].name # chore'[u].to
      /\ \A u \in Threads : u # t => chore'[u] = chore[u]
      /\ chore'[t] = Resting
  <2>1. chore'[t] = Resting
    BY <1>0, <1>3, ReportsTypes
  <2> QED BY <1>0, <1>3, <2>1, ChoreGoesOn
<1>5. /\ manifest' \in [Reports -> Manifests]
      /\ \A m \in Reports : m # to => manifest'[m] = manifest[m]
      /\ manifest[to] # None => /\ manifest'[to] # None /\ manifest'[to].name = to
                                /\ manifest'[to].at = manifest[to].at
  <2> HIDE DEF to
  <2>1. manifest \in [Reports -> Manifests]
    BY <1>0, ReportsTypes
  <2>2. CASE manifest[to] = None
    BY <1>3, <2>1, <2>2
  <2>3. CASE manifest[to] # None
    <3>1. PICK new : new = [manifest[to] EXCEPT !.name = to]
      OBVIOUS
    <3>2. manifest' = [manifest EXCEPT ![to] = new]
      BY <1>3, <2>3, <3>1
    <3>3. new \in Manifests /\ new # None /\ new.name = to /\ new.at = manifest[to].at
      BY <1>2, <2>1, <2>3, <3>1, Retitled
    <3> QED BY <1>2, <2>1, <3>2, <3>3
  <2> QED BY <2>2, <2>3
<1>6. ReportsTypeInv'
  BY <1>0, <1>3, <1>4, <1>5, ReportsTypes, ReportsTypeFrom
<1>7. Apart(t)
  <2> HIDE DEF n, to
  <2> QED BY <1>2, <1>3, <1>4, <1>5 DEF Apart
<1>8. ChoreStands(t)'
  BY <1>4 DEF ChoreStands, Resting
<1>9. ASSUME NEW m \in Reports, m \in Named(t) PROVE Stands(m)'
  <2> SUFFICES ASSUME Clear(m), manifest'[m] # None PROVE Listed(m)'
    BY <1>3 DEF Stands, Clear
  <2>1. CASE m = n
    <3>1. manifest[n] = None
      BY <1>1, <2>1 DEF ReportsInv, ChoreStands, Clear
    <3> QED BY <1>1, <1>2, <1>5, <2>1, <3>1
  <2>2. CASE m = to
    <3>1. /\ manifest[to] # None /\ latest[to] = manifest[to].at
          /\ <<to, manifest[to].at>> \in pages
      BY <1>1, <2>2 DEF ReportsInv, ChoreStands
    <3> QED BY <1>3, <1>5, <2>2, <3>1 DEF Listed
  <2> QED BY <1>2, <1>9, <2>1, <2>2
<1> QED BY <1>6, <1>7, <1>8, <1>9, StepStands

(* A chore that is taken muddles every name another thread is at, and      *)
(* leaves the others' names as they were.                                  *)
LEMMA TakingStands ==
    ASSUME ReportsInv, NEW t \in Threads, NEW c, Takes(t, c),
           c \in Snapshots \union Deletions \union Renames,
           c \in Renames => c.name # c.to,
           UNCHANGED <<pages, latest, manifest>>,
           robbed' \subseteq robbed,
           \A n \in Reports : n \notin {c.name, c.to} => (n \in robbed <=> n \in robbed'),
           ChoreStands(t)'
    PROVE  ReportsInv'
<1>0. ReportsTypeInv
  BY DEF ReportsInv
<1>1. /\ chore[t] = Resting
      /\ chores' \in 0 .. MaxChores
      /\ chore' = [chore EXCEPT ![t] = c]
      /\ second' = second /\ Snapshots' = Snapshots
  BY <1>0, ReportsTypes, ReportsAssumption DEF Takes, Snapshots
<1>2. /\ muddled \subseteq muddled' /\ muddled' \subseteq Reports
      /\ \A n \in Reports : n \in {c.name, c.to} /\ AtWork(n) # {} => n \in muddled'
  BY <1>0, ReportsTypes DEF Takes
<1>3. /\ chore'[t] = c /\ Named(t)' = {c.name, c.to}
      /\ \A u \in Threads : u # t => chore'[u] = chore[u] /\ Named(u)' = Named(u)
  BY <1>0, <1>1, ReportsTypes DEF Named
<1>4. ReportsTypeInv'
  <2>1. chore' \in [Threads -> Snapshots' \union Deletions \union Renames \union {Resting}]
    BY <1>0, <1>1, ReportsTypes
  <2>2. \A u \in Threads : chore'[u] \in Renames => chore'[u].name # chore'[u].to
    BY <1>0, <1>3, ReportsTypes
  <2> QED BY <1>0, <1>1, <1>2, <2>1, <2>2, ReportsTypes, ReportsTypeFrom
<1>5. ASSUME NEW u \in Threads, u # t, NEW n \in Reports, n \in Named(u), n \notin muddled'
      PROVE  n \notin {c.name, c.to} /\ n \notin muddled /\ (Clear(n)' => Clear(n))
  <2>1. AtWork(n) # {}
    BY <1>5, AtWorkNamed
  <2>2. n \notin {c.name, c.to} /\ n \notin muddled
    BY <1>2, <1>5, <2>1
  <2> QED BY <2>2 DEF Clear
<1>6. OneEach'
  <2> SUFFICES ASSUME NEW u \in Threads, NEW v \in Threads, NEW n \in Reports, n \notin muddled',
                      n \in Named(u)', n \in Named(v)'
               PROVE  u = v
    BY DEF OneEach
  <2>1. CASE u # t /\ v # t
    BY <1>2, <1>3, <2>1 DEF ReportsInv, OneEach
  <2>2. CASE u = t /\ v # t
    BY <1>3, <1>5, <2>2
  <2>3. CASE u # t /\ v = t
    BY <1>3, <1>5, <2>3
  <2> QED BY <2>1, <2>2, <2>3
<1>7. ASSUME NEW u \in Threads, u # t PROVE ChoreStands(u)'
  <2>1. chore'[u] = chore[u] /\ ChoreStands(u)
    BY <1>3, <1>7 DEF ReportsInv
  <2>2. CASE chore[u].at \in {"page", "latest", "manifest"}
    <3>1. chore[u].name \in Reports /\ chore[u].name \in Named(u)
      BY <1>0, <2>2, ChoreTypes DEF Snapshots, SnapshotsBy, Named
    <3>2. PICK n \in Reports : n = chore[u].name /\ n \in Named(u)
      BY <3>1
    <3>3. /\ n \notin muddled' => n \notin muddled
          /\ Clear(n)' => Clear(n)
      BY <1>5, <1>7, <3>2 DEF Clear
    <3> QED BY <2>1, <2>2, <3>2, <3>3, ChoreStandsFrom DEF ChoreStands
  <2>3. CASE chore[u].at \in {"move pages", "move latest", "rewrite"}
    <3>1. /\ chore[u].name \in Reports /\ chore[u].name \in Named(u)
          /\ chore[u].to \in Reports /\ chore[u].to \in Named(u)
      BY <1>0, <2>3, ChoreTypes DEF Renames, Named
    <3>2. PICK n \in Reports : n = chore[u].name /\ n \in Named(u)
      BY <3>1
    <3>3. PICK to \in Reports : to = chore[u].to /\ to \in Named(u)
      BY <3>1
    <3>4. /\ n \notin muddled' => n \notin muddled
          /\ Clear(n)' => Clear(n)
      BY <1>5, <1>7, <3>2 DEF Clear
    <3>5. Clear(to)' => Clear(to)
      BY <1>5, <1>7, <3>3 DEF Clear
    <3>6. Clear(n)' => (chore[u].at = "move pages" => Listed(n)')
      BY <2>1, <3>2, <3>4 DEF ChoreStands, Listed
    <3> QED BY <2>1, <2>3, <3>2, <3>3, <3>4, <3>5, <3>6, ChoreStandsFrom DEF ChoreStands
  <2>4. CASE chore[u].at \notin {"page", "latest", "manifest", "move pages", "move latest", "rewrite"}
    BY <2>1, <2>4 DEF ChoreStands
  <2> QED BY <2>2, <2>3, <2>4
<1>8. ASSUME NEW n \in Reports PROVE Stands(n)'
  <2> SUFFICES ASSUME Clear(n)', manifest'[n] # None, AtWork(n)' = {} PROVE Listed(n)'
    BY DEF Stands
  <2>1. \A u \in Threads : n \notin Named(u)'
    BY AtWorkNamed
  <2>2. n \notin {c.name, c.to}
    BY <1>3, <2>1
  <2>3. \A u \in Threads : n \notin Named(u)
    <3>1. n \notin Named(t)
      BY <1>1, ReportsAssumption DEF Named, Resting
    <3> QED BY <1>3, <2>1, <3>1
  <2>4. AtWork(n) = {}
    BY <2>3, AtWorkNamed
  <2>5. Clear(n)
    BY <1>2, <2>2 DEF Clear
  <2>6. Listed(n)
    BY <2>4, <2>5 DEF ReportsInv, Stands
  <2> QED BY <2>6 DEF Listed
<1> QED BY <1>4, <1>6, <1>7, <1>8 DEF ReportsInv

LEMMA SnapshotStands ==
    ASSUME ReportsInv, NEW t \in Threads, NEW n \in Reports, Snapshot(t, n) PROVE ReportsInv'
<1>0. ReportsTypeInv
  BY DEF ReportsInv
<1>1. PICK c : c = [Resting EXCEPT !.at = "page", !.name = n, !.stamp = second]
  OBVIOUS
<1>2. /\ c.at = "page" /\ c.name = n /\ c.to = "none" /\ c.stamp = second
      /\ c = [at |-> "page", name |-> n, to |-> "none", stamp |-> second]
  BY <1>1 DEF Resting
<1>3. c \in Snapshots /\ c \notin Renames
  <2>1. second \in 1 .. second
    BY <1>0, ReportsTypes
  <2> QED BY <1>2, <2>1 DEF Snapshots, SnapshotsBy, Renames
<1>4. /\ Takes(t, c) /\ robbed' = robbed \ {n}
      /\ UNCHANGED <<pages, latest, manifest>>
  BY <1>1 DEF Snapshot
<1>5. chore'[t] = c
  BY <1>0, <1>4, ReportsTypes DEF Takes
<1>6. \A p \in pages : p[2] <= second
  <2> SUFFICES ASSUME NEW p \in pages PROVE p[2] <= second
    OBVIOUS
  <2>1. p[2] \in 1 .. second /\ second \in Nat
    BY <1>0, ReportsTypes
  <2> QED BY <2>1
<1>7. ChoreStands(t)'
  BY <1>2, <1>4, <1>5, <1>6, ChoreStandsFrom
<1> QED BY <1>2, <1>3, <1>4, <1>7, TakingStands

LEMMA DeleteStands ==
    ASSUME ReportsInv, NEW t \in Threads, NEW n \in Reports, Delete(t, n) PROVE ReportsInv'
<1>0. ReportsTypeInv
  BY DEF ReportsInv
<1>1. PICK c : c = [Resting EXCEPT !.at = "unpage", !.name = n]
  OBVIOUS
<1>2. c = [at |-> "unpage", name |-> n, to |-> "none", stamp |-> 0]
  BY <1>1 DEF Resting
<1>3. c \in Deletions /\ c \notin Renames
  BY <1>2 DEF Deletions, Renames
<1>4. Takes(t, c) /\ UNCHANGED <<pages, latest, manifest, robbed>>
  BY <1>1 DEF Delete
<1>5. chore'[t] = c
  BY <1>0, <1>4, ReportsTypes DEF Takes
<1>6. ChoreStands(t)'
  BY <1>2, <1>5 DEF ChoreStands
<1> QED BY <1>3, <1>4, <1>6, TakingStands

LEMMA RenameChoreStands ==
    ASSUME ReportsInv, NEW t \in Threads, NEW n \in Reports, NEW to \in Reports, Rename(t, n, to)
    PROVE  ReportsInv'
<1>0. ReportsTypeInv
  BY DEF ReportsInv
<1>1. PICK c : c = [Resting EXCEPT !.at = "move pages", !.name = n, !.to = to]
  OBVIOUS
<1>2. /\ c.at = "move pages" /\ c.name = n /\ c.to = to /\ c.stamp = 0
      /\ c = [at |-> "move pages", name |-> n, to |-> to, stamp |-> 0]
  BY <1>1 DEF Resting
<1>3. c \in Renames /\ c.name # c.to /\ c.name = n
  BY <1>2 DEF Renames, Rename
<1>4. /\ manifest[n] # None
      /\ Takes(t, c) /\ UNCHANGED <<pages, latest, manifest, robbed>>
  BY <1>1 DEF Rename
<1>5. chore'[t] = c
  BY <1>0, <1>4, ReportsTypes DEF Takes
<1>6. Clear(n)' => Listed(n)'
  <2> SUFFICES ASSUME Clear(n)' PROVE Listed(n)'
    OBVIOUS
  <2>1. Clear(n) /\ AtWork(n) = {}
    BY <1>3, <1>4 DEF Takes, Clear
  <2>2. Listed(n)
    BY <1>4, <2>1 DEF ReportsInv, Stands
  <2> QED BY <1>4, <2>2 DEF Listed
<1>7. ChoreStands(t)'
  <2>1. chore'[t].at = "move pages" /\ chore'[t].name = n
    BY <1>2, <1>5
  <2>2. chore'[t].to = to /\ chore'[t].stamp = 0
    BY <1>2, <1>5
  <2> QED BY <1>6, <2>1, <2>2, ChoreStandsFrom
<1> QED BY <1>3, <1>4, <1>7, TakingStands

LEMMA LaterStands == ASSUME ReportsInv, Later PROVE ReportsInv'
<1>0. ReportsTypeInv
  BY DEF ReportsInv
<1>1. /\ second' = second + 1 /\ second < MaxSecond
      /\ UNCHANGED <<pages, latest, manifest, chore, chores, muddled, robbed>>
  BY DEF Later
<1>2. second' \in 1 .. MaxSecond /\ 1 .. second \subseteq 1 .. second'
  BY <1>0, <1>1, ReportsTypes
<1>3. Snapshots \subseteq Snapshots'
  BY <1>2 DEF Snapshots, SnapshotsBy
<1>4. pages' \subseteq Reports \X (1 .. second')
  BY <1>0, <1>1, <1>2, ReportsTypes
<1>5. chore' \in [Threads -> Snapshots' \union Deletions \union Renames \union {Resting}]
  BY <1>0, <1>1, <1>3, ReportsTypes
<1>6. \A t \in Threads : chore'[t] \in Renames => chore'[t].name # chore'[t].to
  BY <1>0, <1>1, ReportsTypes
<1>7. ReportsTypeInv'
  BY <1>0, <1>1, <1>2, <1>4, <1>5, <1>6, ReportsTypes, ReportsTypeFrom
<1>8. OneEach' /\ (\A t \in Threads : ChoreStands(t)') /\ \A n \in Reports : Stands(n)'
  BY <1>1 DEF ReportsInv, OneEach, Named, ChoreStands, Stands, Clear, Listed, AtWork
<1> QED BY <1>7, <1>8 DEF ReportsInv

LEMMA ReportsStepStands == ReportsInv /\ [ReportsNext]_reportVars => ReportsInv'
<1> SUFFICES ASSUME ReportsInv, [ReportsNext]_reportVars PROVE ReportsInv'
  OBVIOUS
<1>1. CASE UNCHANGED reportVars
  <2>1. UNCHANGED <<second, pages, latest, manifest, chore, chores, muddled, robbed>>
    BY <1>1 DEF reportVars
  <2>2. Snapshots' = Snapshots
    BY <2>1 DEF Snapshots
  <2>3. ReportsTypeInv'
    BY <2>1, <2>2 DEF ReportsInv, ReportsTypeInv, ReportsTypeOK
  <2>4. OneEach' /\ \A t \in Threads : ChoreStands(t)'
    BY <2>1 DEF ReportsInv, OneEach, Named, ChoreStands, Clear, Listed
  <2>5. \A n \in Reports : Stands(n)'
    BY <2>1 DEF ReportsInv, Stands, Clear, Listed, AtWork
  <2> QED BY <2>3, <2>4, <2>5 DEF ReportsInv
<1>2. CASE Later
  BY <1>2, LaterStands
<1>3. ASSUME NEW t \in Threads, NEW n \in Reports,
             \/ Snapshot(t, n) \/ Delete(t, n)
             \/ \E to \in Reports : Rename(t, n, to)
      PROVE  ReportsInv'
  BY <1>3, SnapshotStands, DeleteStands, RenameChoreStands
<1>4. ASSUME NEW t \in Threads,
             \/ WritePage(t) \/ WriteLatest(t) \/ PruneAndList(t)
             \/ Unpage(t) \/ Unlist(t) \/ MovePages(t) \/ MoveLatest(t) \/ Rewrite(t)
             \/ Killed(t)
      PROVE  ReportsInv'
  BY <1>4, WritePageStands, WriteLatestStands, PruneAndListStands, UnpageStands, UnlistStands,
     MovePagesStands, MoveLatestStands, RewriteStands, KilledStands
<1> QED BY <1>1, <1>2, <1>3, <1>4 DEF ReportsNext

(* The types of service/runtime_report.py's pages, manifests and chores.   *)
THEOREM ReportsTypeCorrect == ReportsSpec => []ReportsTypeOK
<1>1. ReportsInit => ReportsInv
  BY ReportsStart
<1>2. ReportsInv => ReportsTypeOK
  BY DEF ReportsInv, ReportsTypeInv
<1> QED BY <1>1, <1>2, ReportsStepStands, PTL DEF ReportsSpec

(* Whatever snapshots, renames and deletions a request or the timer has in *)
(* hand, a listed report that none of them is at, was cut at or shared,    *)
(* and whose pages did not go with a shorter name's, has the manifest,     *)
(* latest page and stamped page of one and the same write.                 *)
THEOREM ListedReportsAlwaysStand == ReportsSpec => []ListedReportsStand
<1>1. ReportsInit => ReportsInv
  BY ReportsStart
<1>2. ReportsInv => ListedReportsStand
  BY DEF ReportsInv, ListedReportsStand, Stands, Clear, Listed
<1> QED BY <1>1, <1>2, ReportsStepStands, PTL DEF ReportsSpec

-----------------------------------------------------------------------------
(* Exports *)

(* A task as it may be: an export, a rename or a deletion.                 *)
WriteTasks == [doing : {"html", "json", "manifest"}, kind : {"day", "selected"}, id : Ids,
               to : {Nothing}, day : Days, left : {{}}]
RenameTasks == [doing : {"move", "relink json", "relink page", "manifest"}, kind : {"rename"},
                id : Ids, to : Ids, day : {Nothing}, left : {{}}]
DeleteTasks == [doing : {"unlink"}, kind : {"delete"}, id : Ids, to : {Nothing},
                day : {Nothing}, left : SUBSET Parts]
Tasks == {Free} \union WriteTasks \union RenameTasks \union DeleteTasks

ExportsTypeInv ==
    /\ bundles \in [Ids -> {Nothing} \union Bundle]
    /\ task \in [Workers -> Tasks]
    /\ \A w \in Workers : task[w] \in RenameTasks => task[w].id # task[w].to
    /\ exports \in 0 .. MaxExports
    /\ redated \subseteq Ids /\ broken \subseteq Ids

(* An id that is not broken is one worker's at most.                       *)
OneWorkerEach ==
    \A v, w \in Workers : \A i \in (Touches(v) \intersect Touches(w)) \ broken : v = w

Dated(i, b) == b["html"].day = b["json"].day /\ (i \in redated \/ About(b) = b["json"].day)
WholeBundle(i) ==
    /\ bundles[i] # Nothing
    /\ \A p \in Parts : bundles[i][p].link = i
    /\ Dated(i, bundles[i])
Quiet(i) == i \notin broken /\ bundles[i] # Nothing /\ (\A w \in Workers : i \notin Touches(w))
              => WholeBundle(i)

(* What an export has written so far.                                      *)
Written(t) == IF t.doing = "manifest" THEN {"html", "json"}
              ELSE {IF t.kind = "day" THEN "html" ELSE "json"} \ {t.doing}
WriteStands(t) ==
    t \in WriteTasks /\ t.id \notin broken =>
        /\ bundles[t.id] = Nothing => t.kind = "day" /\ t.doing = "html"
        /\ \A p \in Written(t) : bundles[t.id][p] = PageOf(t.day, t.id)
        /\ bundles[t.id] # Nothing /\ bundles[t.id]["manifest"] # Unwritten =>
             t.id \in redated \/ bundles[t.id]["manifest"].day = t.day

(* What a rename has moved and linked so far.                              *)
RenameStands(t) ==
    t \in RenameTasks =>
        /\ t.id \notin broken => IF t.doing = "move" THEN WholeBundle(t.id) ELSE bundles[t.id] = Nothing
        /\ t.to \notin broken /\ t.doing = "move" => bundles[t.to] = Nothing
        /\ t.to \notin broken /\ t.doing # "move" =>
             /\ bundles[t.to] # Nothing
             /\ bundles[t.to]["json"].link = IF t.doing = "relink json" THEN t.id ELSE t.to
             /\ bundles[t.to]["html"].link = IF t.doing = "manifest" THEN t.to ELSE t.id
             /\ bundles[t.to]["manifest"].link = t.id
             /\ Dated(t.to, bundles[t.to])

TaskStands(w) == WriteStands(task[w]) /\ RenameStands(task[w])

ExportsInv ==
    /\ ExportsTypeInv /\ OneWorkerEach
    /\ \A w \in Workers : TaskStands(w)
    /\ \A i \in Ids : Quiet(i)

LEMMA TaskKinds ==
    ASSUME NEW t \in Tasks
    PROVE  /\ t \in WriteTasks <=> t.kind \in {"day", "selected"}
           /\ t \in RenameTasks <=> t.kind = "rename"
           /\ t \in DeleteTasks <=> t.kind = "delete"
           /\ t = Free <=> t.kind = "none"
<1>1. /\ \A r \in WriteTasks : r.kind \in {"day", "selected"}
      /\ \A r \in RenameTasks : r.kind = "rename"
      /\ \A r \in DeleteTasks : r.kind = "delete"
      /\ Free.kind = "none"
  BY DEF Free, WriteTasks, RenameTasks, DeleteTasks
<1> QED BY <1>1 DEF Tasks

LEMMA TaskNames ==
    ASSUME NEW t \in Tasks
    PROVE  /\ t.id \in Ids \union {Nothing} /\ t.to \in Ids \union {Nothing}
           /\ t # Free => t.id \in Ids
           /\ t \in WriteTasks => t.to = Nothing /\ t.day \in Days
           /\ t \in RenameTasks => t.to \in Ids
           /\ t \in DeleteTasks => t.to = Nothing
           /\ {t.id, t.to} \ {Nothing} \subseteq Ids
<1>1. /\ \A r \in WriteTasks : r.id \in Ids /\ r.to = Nothing /\ r.day \in Days
      /\ \A r \in RenameTasks : r.id \in Ids /\ r.to \in Ids
      /\ \A r \in DeleteTasks : r.id \in Ids /\ r.to = Nothing
      /\ Free.id = Nothing /\ Free.to = Nothing
  BY DEF Free, WriteTasks, RenameTasks, DeleteTasks
<1> QED BY <1>1 DEF Tasks

(* What stays of a task that goes on.                                      *)
LEMMA TaskGoesOn ==
    ASSUME NEW t \in Tasks, NEW d,
           \/ t \in WriteTasks /\ d \in {"html", "json", "manifest"}
           \/ t \in RenameTasks /\ d \in {"relink json", "relink page", "manifest"}
    PROVE  LET n == [t EXCEPT !.doing = d] IN
           /\ n \in Tasks /\ n.doing = d /\ n.kind = t.kind /\ n.id = t.id /\ n.to = t.to
           /\ n.day = t.day
           /\ n \in WriteTasks <=> t \in WriteTasks
           /\ n \in RenameTasks <=> t \in RenameTasks
<1> DEFINE n == [t EXCEPT !.doing = d]
<1>1. CASE t \in WriteTasks /\ d \in {"html", "json", "manifest"}
  <2>1. n \in WriteTasks
    BY <1>1 DEF WriteTasks
  <2>2. n.doing = d /\ n.kind = t.kind /\ n.id = t.id /\ n.to = t.to /\ n.day = t.day
    BY <1>1 DEF WriteTasks
  <2>3. n \notin RenameTasks /\ t \notin RenameTasks
    BY <1>1, <2>1, TaskKinds DEF Tasks
  <2> QED BY <1>1, <2>1, <2>2, <2>3 DEF Tasks
<1>2. CASE t \in RenameTasks /\ d \in {"relink json", "relink page", "manifest"}
  <2>1. n \in RenameTasks
    BY <1>2 DEF RenameTasks
  <2>2. n.doing = d /\ n.kind = t.kind /\ n.id = t.id /\ n.to = t.to /\ n.day = t.day
    BY <1>2 DEF RenameTasks
  <2>3. n \notin WriteTasks /\ t \notin WriteTasks
    BY <1>2, <2>1, TaskKinds DEF Tasks
  <2> QED BY <1>2, <2>1, <2>2, <2>3 DEF Tasks
<1> QED BY <1>1, <1>2

LEMMA ExportsStart == ExportsInit => ExportsInv
<1> SUFFICES ASSUME ExportsInit PROVE ExportsInv
  OBVIOUS
<1>1. Free \in Tasks /\ Free \notin WriteTasks /\ Free \notin RenameTasks
  BY DEF Tasks, Free, WriteTasks, RenameTasks
<1>2. \A w \in Workers : task[w] = Free
  BY DEF ExportsInit
<1>3. ExportsTypeInv
  <2>1. 0 \in 0 .. MaxExports
    BY ExportsAssumption
  <2> QED BY <1>1, <1>2, <2>1 DEF ExportsInit, ExportsTypeInv
<1>4. \A w \in Workers : TaskStands(w)
  BY <1>1, <1>2 DEF TaskStands, WriteStands, RenameStands
<1>5. OneWorkerEach
  <2>1. \A w \in Workers : Touches(w) = {}
    BY <1>2 DEF Touches, Free
  <2> QED BY <2>1 DEF OneWorkerEach
<1>6. \A i \in Ids : Quiet(i)
  BY DEF Quiet, ExportsInit
<1> QED BY <1>3, <1>4, <1>5, <1>6 DEF ExportsInv

(* A task stands on where its ids' bundles stay and none becomes broken.   *)
LEMMA TaskStandsOn ==
    ASSUME NEW t \in Tasks, WriteStands(t), RenameStands(t),
           \A i \in Ids : i \in {t.id, t.to} /\ i \notin broken' =>
             /\ i \notin broken /\ bundles'[i] = bundles[i]
             /\ i \in redated => i \in redated'
    PROVE  WriteStands(t)' /\ RenameStands(t)'
<1>1. CASE t \in WriteTasks
  <2>1. t.id \in Ids /\ t \notin RenameTasks
    BY <1>1, TaskNames, TaskKinds
  <2> QED BY <1>1, <2>1 DEF WriteStands, RenameStands, Written, PageOf, Unwritten
<1>2. CASE t \in RenameTasks
  <2>1. t.id \in Ids /\ t.to \in Ids /\ t \notin WriteTasks
    BY <1>2, TaskNames, TaskKinds
  <2>2. PICK i, o \in Ids : i = t.id /\ o = t.to
    BY <2>1
  <2>3. i \notin broken' /\ WholeBundle(i) => WholeBundle(i)'
    BY <2>2 DEF WholeBundle, Dated, About, About_json, Unwritten
  <2>4. i \notin broken' => IF t.doing = "move" THEN WholeBundle(i)' ELSE bundles'[i] = Nothing
    BY <1>2, <2>2, <2>3 DEF RenameStands
  <2>5. o \notin broken' /\ t.doing = "move" => bundles'[o] = Nothing
    BY <1>2, <2>2 DEF RenameStands
  <2>6. o \notin broken' /\ t.doing # "move" =>
             /\ bundles'[o] # Nothing
             /\ bundles'[o]["json"].link = IF t.doing = "relink json" THEN i ELSE o
             /\ bundles'[o]["html"].link = IF t.doing = "manifest" THEN o ELSE i
             /\ bundles'[o]["manifest"].link = i
             /\ Dated(o, bundles[o])'
    BY <1>2, <2>2 DEF RenameStands, Dated, About, About_json, Unwritten
  <2>7. RenameStands(t)'
    BY <2>2, <2>4, <2>5, <2>6 DEF RenameStands, WholeBundle, Dated, About, About_json, Unwritten
  <2> QED BY <2>1, <2>7 DEF WriteStands
<1>3. CASE t \notin WriteTasks /\ t \notin RenameTasks
  BY <1>3 DEF WriteStands, RenameStands
<1> QED BY <1>1, <1>2, <1>3

LEMMA TaskStandsFrom ==
    ASSUME NEW w \in Workers, NEW t, task'[w] = t, WriteStands(t)', RenameStands(t)'
    PROVE  TaskStands(w)'
  BY DEF TaskStands, WriteStands, RenameStands, Written, WholeBundle, Dated, About, About_json,
     PageOf, Unwritten

(* What a step of w leaves alone: the others' tasks, and the bundles it is *)
(* not at.                                                                 *)
LeavesAlone(w) ==
    /\ \A u \in Workers : u # w => task'[u] = task[u]
    /\ Touches(w)' \subseteq Touches(w)
    /\ broken \subseteq broken'
    /\ \A i \in Ids \ Touches(w) : bundles'[i] = bundles[i] /\ (i \in redated => i \in redated')

LEMMA ExportStepStands ==
    ASSUME ExportsInv, NEW w \in Workers, LeavesAlone(w), ExportsTypeInv', TaskStands(w)',
           \A i \in Ids : i \in Touches(w) => Quiet(i)'
    PROVE  ExportsInv'
<1>1. \A u \in Workers : u # w => Touches(u)' = Touches(u)
  BY DEF LeavesAlone, Touches
<1>2. \A u \in Workers : Touches(u) \subseteq Ids
  BY TaskNames DEF ExportsInv, ExportsTypeInv, Touches
<1>3. OneWorkerEach'
  <2> SUFFICES ASSUME NEW u \in Workers, NEW v \in Workers,
                      NEW i \in (Touches(u)' \intersect Touches(v)') \ broken'
               PROVE  u = v
    BY DEF OneWorkerEach
  <2>1. i \in Touches(u) /\ i \in Touches(v) /\ i \notin broken
    BY <1>1 DEF LeavesAlone
  <2> QED BY <2>1 DEF ExportsInv, OneWorkerEach
<1>4. ASSUME NEW u \in Workers, u # w PROVE TaskStands(u)'
  <2>1. PICK t : t = task[u]
    OBVIOUS
  <2>2. task'[u] = t /\ t \in Tasks
    BY <1>4, <2>1 DEF LeavesAlone, ExportsInv, ExportsTypeInv
  <2>3. WriteStands(t) /\ RenameStands(t)
    BY <2>1 DEF ExportsInv, TaskStands
  <2>4. ASSUME NEW i \in Ids, i \in {t.id, t.to}, i \notin broken'
        PROVE  /\ i \notin broken /\ bundles'[i] = bundles[i]
               /\ i \in redated => i \in redated'
    <3>1. i \in Touches(u) /\ i \notin broken
      BY <2>1, <2>4, ExportsAssumption DEF Touches, LeavesAlone
    <3>2. i \notin Touches(w)
      BY <1>4, <3>1 DEF ExportsInv, OneWorkerEach
    <3> QED BY <3>1, <3>2 DEF LeavesAlone
  <2>5. WriteStands(t)' /\ RenameStands(t)'
    BY <2>2, <2>3, <2>4, TaskStandsOn
  <2> QED BY <2>2, <2>5, TaskStandsFrom
<1>5. ASSUME NEW i \in Ids, i \notin Touches(w) PROVE Quiet(i)'
  <2> SUFFICES ASSUME i \notin broken', bundles'[i] # Nothing,
                      \A u \in Workers : i \notin Touches(u)'
               PROVE  WholeBundle(i)'
    BY DEF Quiet
  <2>1. i \notin broken /\ bundles'[i] = bundles[i] /\ (i \in redated => i \in redated')
    BY <1>5 DEF LeavesAlone
  <2>2. \A u \in Workers : i \notin Touches(u)
    BY <1>1, <1>5
  <2>3. WholeBundle(i)
    BY <2>1, <2>2 DEF ExportsInv, Quiet
  <2> QED BY <2>1, <2>3 DEF WholeBundle, Dated, About, About_json, Unwritten
<1> QED BY <1>3, <1>4, <1>5 DEF ExportsInv

(* While w goes on, none of its bundles need be whole.                     *)
LEMMA WorkingOn ==
    ASSUME NEW w \in Workers, Touches(w)' = Touches(w)
    PROVE  \A i \in Ids : i \in Touches(w) => Quiet(i)'
  BY DEF Quiet

LEMMA FreeStands ==
    ASSUME NEW w \in Workers, task'[w] = Free
    PROVE  TaskStands(w)' /\ Touches(w)' = {}
<1>1. Free \notin WriteTasks /\ Free \notin RenameTasks
  BY DEF Free, WriteTasks, RenameTasks
<1>2. WriteStands(Free)' /\ RenameStands(Free)'
  BY <1>1 DEF WriteStands, RenameStands
<1>3. TaskStands(w)'
  BY <1>2, TaskStandsFrom
<1>4. Free.id = Nothing /\ Free.to = Nothing
  BY DEF Free
<1> QED BY <1>3, <1>4 DEF Touches

LEMMA RaisesStands ==
    ASSUME ExportsInv, NEW w \in Workers, Raises(w) PROVE ExportsInv'
<1>1. /\ task' = [task EXCEPT ![w] = Free]
      /\ broken' = broken \union Touches(w)
      /\ UNCHANGED <<bundles, exports, redated>>
  BY DEF Raises, Done
<1>2. task \in [Workers -> Tasks]
  BY DEF ExportsInv, ExportsTypeInv
<1>3. task'[w] = Free /\ \A u \in Workers : u # w => task'[u] = task[u]
  BY <1>1, <1>2
<1>4. TaskStands(w)' /\ Touches(w)' = {}
  BY <1>3, FreeStands
<1>5. ExportsTypeInv'
  <2>1. Free \in Tasks /\ Free \notin RenameTasks
    BY DEF Tasks, Free, RenameTasks
  <2>2. Touches(w) \subseteq Ids
    BY <1>2, TaskNames DEF Touches
  <2>3. task' \in [Workers -> Tasks]
    BY <1>1, <1>2, <2>1
  <2>4. \A u \in Workers : task'[u] \in RenameTasks => task'[u].id # task'[u].to
    BY <1>3, <2>1 DEF ExportsInv, ExportsTypeInv
  <2> QED BY <1>1, <2>2, <2>3, <2>4 DEF ExportsInv, ExportsTypeInv
<1>6. LeavesAlone(w)
  BY <1>1, <1>3, <1>4 DEF LeavesAlone
<1>7. \A i \in Ids : i \in Touches(w) => Quiet(i)'
  BY <1>1 DEF Quiet
<1> QED BY <1>4, <1>5, <1>6, <1>7, ExportStepStands

(* A page put into a bundle, whose directory is made if need be.           *)
BundlePage == [day : Days \union {Nothing}, link : Ids \union {Nothing}]

LEMMA PagePut ==
    ASSUME NEW b \in {Nothing} \union Bundle, NEW file \in Parts, NEW page \in BundlePage
    PROVE  LET n == [(IF b = Nothing THEN Empty ELSE b) EXCEPT ![file] = page] IN
           /\ n \in Bundle /\ n # Nothing /\ n[file] = page
           /\ \A p \in Parts : p # file => n[p] = IF b = Nothing THEN Unwritten ELSE b[p]
<1> DEFINE n == [(IF b = Nothing THEN Empty ELSE b) EXCEPT ![file] = page]
<1>1. Unwritten \in BundlePage
  BY DEF Unwritten, BundlePage
<1>2. Empty \in [Parts -> BundlePage] /\ \A p \in Parts : Empty[p] = Unwritten
  BY <1>1 DEF Empty
<1>3. Bundle = [Parts -> BundlePage]
  BY DEF Bundle, BundlePage
<1>4. n \in [Parts -> BundlePage] /\ n[file] = page
      /\ \A p \in Parts : p # file => n[p] = IF b = Nothing THEN Unwritten ELSE b[p]
  <2>1. CASE b = Nothing
    BY <1>2, <2>1
  <2>2. CASE b # Nothing
    BY <1>3, <2>2
  <2> QED BY <2>1, <2>2
<1> QED BY <1>3, <1>4, ExportsAssumption

LEMMA WorkerGoesOn ==
    ASSUME ExportsTypeInv, NEW w \in Workers, NEW d, Then(w, d),
           \/ task[w] \in WriteTasks /\ d \in {"html", "json", "manifest"}
           \/ task[w] \in RenameTasks /\ d \in {"relink json", "relink page", "manifest"}
    PROVE  /\ task' \in [Workers -> Tasks]
           /\ \A u \in Workers : task'[u] \in RenameTasks => task'[u].id # task'[u].to
           /\ \A u \in Workers : u # w => task'[u] = task[u]
           /\ Touches(w)' = Touches(w)
           /\ task'[w] \in Tasks /\ task'[w].doing = d /\ task'[w].kind = task[w].kind
           /\ task'[w].id = task[w].id /\ task'[w].to = task[w].to /\ task'[w].day = task[w].day
           /\ task'[w] \in WriteTasks <=> task[w] \in WriteTasks
           /\ task'[w] \in RenameTasks <=> task[w] \in RenameTasks
<1>1. task \in [Workers -> Tasks]
  BY DEF ExportsTypeInv
<1>2. PICK t : t = task[w]
  OBVIOUS
<1>3. PICK n : n = [t EXCEPT !.doing = d]
  OBVIOUS
<1>4. /\ n \in Tasks /\ n.doing = d /\ n.kind = t.kind /\ n.id = t.id /\ n.to = t.to
      /\ n.day = t.day
      /\ n \in WriteTasks <=> t \in WriteTasks
      /\ n \in RenameTasks <=> t \in RenameTasks
  <2>1. t \in Tasks
    BY <1>1, <1>2
  <2>2. \/ t \in WriteTasks /\ d \in {"html", "json", "manifest"}
        \/ t \in RenameTasks /\ d \in {"relink json", "relink page", "manifest"}
    BY <1>2
  <2> QED BY <1>3, <2>1, <2>2, TaskGoesOn
<1>5. task' = [task EXCEPT ![w] = n]
  BY <1>1, <1>2, <1>3 DEF Then
<1>6. /\ task' \in [Workers -> Tasks] /\ task'[w] = n
      /\ \A u \in Workers : u # w => task'[u] = task[u]
  BY <1>1, <1>4, <1>5
<1>7. \A u \in Workers : task'[u] \in RenameTasks => task'[u].id # task'[u].to
  BY <1>2, <1>4, <1>6 DEF ExportsTypeInv
<1>8. Touches(w)' = Touches(w)
  BY <1>2, <1>4, <1>6 DEF Touches
<1> QED BY <1>2, <1>4, <1>6, <1>7, <1>8

LEMMA WorkerRests ==
    ASSUME ExportsTypeInv, NEW w \in Workers, Done(w)
    PROVE  /\ task' \in [Workers -> Tasks] /\ task'[w] = Free
           /\ \A u \in Workers : task'[u] \in RenameTasks => task'[u].id # task'[u].to
           /\ \A u \in Workers : u # w => task'[u] = task[u]
           /\ TaskStands(w)' /\ Touches(w)' = {}
<1>1. task \in [Workers -> Tasks]
  BY DEF ExportsTypeInv
<1>2. Free \in Tasks /\ Free \notin RenameTasks
  BY DEF Tasks, Free, RenameTasks
<1>3. /\ task' \in [Workers -> Tasks] /\ task'[w] = Free
      /\ \A u \in Workers : u # w => task'[u] = task[u]
  BY <1>1, <1>2 DEF Done
<1>4. \A u \in Workers : task'[u] \in RenameTasks => task'[u].id # task'[u].to
  BY <1>2, <1>3 DEF ExportsTypeInv
<1> QED BY <1>3, <1>4, FreeStands

(* What a page put into a bundle of its own leaves of the state.           *)
LEMMA PutKeeps ==
    ASSUME ExportsTypeInv, NEW w \in Workers, NEW id \in Ids, NEW file \in Parts, NEW page \in BundlePage,
           NEW next, Put(w, id, file, page, next)
    PROVE  /\ bundles' \in [Ids -> {Nothing} \union Bundle]
           /\ \A i \in Ids : i # id => bundles'[i] = bundles[i]
           /\ bundles'[id] # Nothing /\ bundles'[id][file] = page
           /\ \A p \in Parts : p # file =>
                bundles'[id][p] = IF bundles[id] = Nothing THEN Unwritten ELSE bundles[id][p]
           /\ IF next = "nothing" THEN Done(w) ELSE Then(w, next)
<1>1. bundles \in [Ids -> {Nothing} \union Bundle]
  BY DEF ExportsTypeInv
<1>2. PICK b : b = bundles[id]
  OBVIOUS
<1>3. PICK n : n = [(IF b = Nothing THEN Empty ELSE b) EXCEPT ![file] = page]
  OBVIOUS
<1>4. bundles' = [bundles EXCEPT ![id] = n]
  BY <1>1, <1>2, <1>3 DEF Put
<1>5. /\ n \in Bundle /\ n # Nothing /\ n[file] = page
      /\ \A p \in Parts : p # file => n[p] = IF b = Nothing THEN Unwritten ELSE b[p]
  <2>1. b \in {Nothing} \union Bundle
    BY <1>1, <1>2
  <2> QED BY <1>3, <2>1, PagePut
<1>6. /\ bundles' \in [Ids -> {Nothing} \union Bundle] /\ bundles'[id] = n
      /\ \A i \in Ids : i # id => bundles'[i] = bundles[i]
  BY <1>1, <1>4, <1>5
<1>7. IF next = "nothing" THEN Done(w) ELSE Then(w, next)
  BY DEF Put
<1> QED BY <1>2, <1>5, <1>6, <1>7

LEMMA WritePartStands ==
    ASSUME ExportsInv, NEW w \in Workers, NEW file \in {"html", "json"}, WritePart(w, file)
    PROVE  ExportsInv'
<1>0. ExportsTypeInv
  BY DEF ExportsInv
<1>1. PICK t : t = task[w]
  OBVIOUS
<1>2. /\ t.kind \in {"day", "selected"} /\ t.doing = file
      /\ t \in Tasks /\ t \in WriteTasks /\ t.id \in Ids /\ t.to = Nothing /\ t.day \in Days
  BY <1>0, <1>1, TaskKinds, TaskNames DEF WritePart, ExportsTypeInv
<1>3. PICK i : i = t.id
  OBVIOUS
<1>4. PICK first : first = IF t.kind = "day" THEN "html" ELSE "json"
  OBVIOUS
<1>5. PICK next : next = IF file # first THEN "manifest" ELSE IF file = "html" THEN "json" ELSE "html"
  OBVIOUS
<1>6. CASE Raises(w)
  BY <1>6, RaisesStands
<1>7. CASE /\ ~(t.kind = "selected" /\ bundles[i] = Nothing)
           /\ Put(w, i, file, PageOf(t.day, i), next)
           /\ UNCHANGED <<exports, redated, broken>>
  <2>1. PICK page : page = PageOf(t.day, i)
    OBVIOUS
  <2>2. page \in BundlePage /\ file \in Parts /\ i \in Ids /\ page # Unwritten
    BY <1>2, <1>3, <2>1, ExportsAssumption DEF PageOf, BundlePage, Parts, Unwritten
  <2>3. /\ bundles' \in [Ids -> {Nothing} \union Bundle]
        /\ \A j \in Ids : j # i => bundles'[j] = bundles[j]
        /\ bundles'[i] # Nothing /\ bundles'[i][file] = page
        /\ \A p \in Parts : p # file =>
             bundles'[i][p] = IF bundles[i] = Nothing THEN Unwritten ELSE bundles[i][p]
        /\ IF next = "nothing" THEN Done(w) ELSE Then(w, next)
    BY <1>0, <1>7, <2>1, <2>2, PutKeeps
  <2>4. next \in {"html", "json", "manifest"} /\ Then(w, next)
    BY <1>5, <2>3
  <2>5. PICK n : n = task'[w]
    OBVIOUS
  <2>6. /\ task' \in [Workers -> Tasks]
        /\ \A u \in Workers : task'[u] \in RenameTasks => task'[u].id # task'[u].to
        /\ \A u \in Workers : u # w => task'[u] = task[u]
        /\ Touches(w)' = Touches(w)
        /\ n \in Tasks /\ n.doing = next /\ n.kind = t.kind
        /\ n.id = i /\ n.to = t.to /\ n.day = t.day
        /\ n \in WriteTasks
    BY <1>0, <1>1, <1>2, <1>3, <2>4, <2>5, WorkerGoesOn
  <2>7. ExportsTypeInv'
    BY <1>0, <1>7, <2>3, <2>6 DEF ExportsTypeInv
  <2>8. i \in Touches(w)
    BY <1>1, <1>2, <1>3, ExportsAssumption DEF Touches
  <2>9. LeavesAlone(w)
    BY <1>7, <2>3, <2>6, <2>8 DEF LeavesAlone
  <2>10. WriteStands(n)'
    <3> SUFFICES ASSUME i \notin broken
                 PROVE  /\ \A p \in Written(n) : bundles'[i][p] = page
                        /\ bundles'[i]["manifest"] # Unwritten =>
                             i \in redated' \/ bundles'[i]["manifest"].day = t.day
      BY <1>7, <2>1, <2>3, <2>6 DEF WriteStands
    <3>1. /\ bundles[i] = Nothing => t.kind = "day" /\ file = "html"
          /\ \A p \in Written(t) : bundles[i][p] = page
          /\ bundles[i] # Nothing /\ bundles[i]["manifest"] # Unwritten =>
               i \in redated \/ bundles[i]["manifest"].day = t.day
      BY <1>1, <1>2, <1>3, <2>1 DEF ExportsInv, TaskStands, WriteStands
    <3>2. Written(n) = Written(t) \union {file} /\ file \notin Written(t)
          /\ Written(t) \subseteq Parts
      BY <1>2, <1>4, <1>5, <2>6 DEF Written, Parts
    <3>3. bundles[i] = Nothing => Written(t) = {}
      BY <1>2, <3>1 DEF Written
    <3>4. \A p \in Written(n) : bundles'[i][p] = page
      BY <2>3, <3>1, <3>2, <3>3
    <3>5. bundles'[i]["manifest"] = IF bundles[i] = Nothing THEN Unwritten ELSE bundles[i]["manifest"]
      BY <2>3 DEF Parts
    <3> QED BY <1>7, <3>1, <3>4, <3>5
  <2>11. n \notin RenameTasks
    BY <2>6, TaskKinds
  <2>12. TaskStands(w)'
    BY <2>5, <2>10, <2>11, TaskStandsFrom DEF RenameStands
  <2> QED BY <2>6, <2>7, <2>9, <2>12, WorkingOn, ExportStepStands
<1> QED BY <1>1, <1>2, <1>3, <1>4, <1>5, <1>6, <1>7 DEF WritePart

LEMMA WriteManifestStands ==
    ASSUME ExportsInv, NEW w \in Workers,
           WriteManifest(w, IF task[w].kind = "rename" THEN task[w].to ELSE task[w].id)
    PROVE  ExportsInv'
<1>0. ExportsTypeInv
  BY DEF ExportsInv
<1>1. PICK t : t = task[w]
  OBVIOUS
<1>2. t.doing = "manifest" /\ t \in Tasks /\ t \in WriteTasks \union RenameTasks
  <2>1. t.doing = "manifest" /\ t \in Tasks
    BY <1>0, <1>1 DEF WriteManifest, ExportsTypeInv
  <2> QED BY <2>1 DEF Tasks, Free, DeleteTasks
<1>3. PICK o : o = IF t.kind = "rename" THEN t.to ELSE t.id
  OBVIOUS
<1>4. o \in Ids /\ t.id \in Ids /\ t.to \in Ids \union {Nothing}
  BY <1>2, <1>3, TaskKinds, TaskNames
<1>5. CASE Raises(w)
  BY <1>5, RaisesStands
<1>6. CASE /\ bundles[o] # Nothing
           /\ Put(w, o, "manifest", PageOf(About(bundles[o]), o), "nothing")
           /\ UNCHANGED <<exports, redated, broken>>
  <2>1. PICK b : b = bundles[o]
    OBVIOUS
  <2>2. b \in Bundle /\ b # Nothing
    BY <1>0, <1>4, <1>6, <2>1 DEF ExportsTypeInv
  <2>3. About(b) \in Days \union {Nothing}
    BY <2>2 DEF About, About_json, Bundle, Parts
  <2>4. PICK page : page = PageOf(About(b), o)
    OBVIOUS
  <2>5. /\ page \in BundlePage /\ page # Unwritten /\ page.day = About(b) /\ page.link = o
        /\ "manifest" \in Parts
    BY <1>4, <2>3, <2>4, ExportsAssumption DEF PageOf, BundlePage, Unwritten, Parts
  <2>6. Put(w, o, "manifest", page, "nothing")
    BY <1>6, <2>1, <2>4
  <2>7. /\ bundles' \in [Ids -> {Nothing} \union Bundle]
        /\ \A j \in Ids : j # o => bundles'[j] = bundles[j]
        /\ bundles'[o] # Nothing /\ bundles'[o]["manifest"] = page
        /\ bundles'[o]["html"] = b["html"] /\ bundles'[o]["json"] = b["json"]
        /\ Done(w)
    <3>1. /\ bundles' \in [Ids -> {Nothing} \union Bundle]
          /\ \A j \in Ids : j # o => bundles'[j] = bundles[j]
          /\ bundles'[o] # Nothing /\ bundles'[o]["manifest"] = page
          /\ \A p \in Parts : p # "manifest" =>
               bundles'[o][p] = IF bundles[o] = Nothing THEN Unwritten ELSE bundles[o][p]
          /\ IF "nothing" = "nothing" THEN Done(w) ELSE Then(w, "nothing")
      BY <1>0, <1>4, <2>5, <2>6, PutKeeps
    <3> QED BY <1>6, <2>1, <3>1 DEF Parts
  <2>8. /\ task' \in [Workers -> Tasks]
        /\ \A u \in Workers : task'[u] \in RenameTasks => task'[u].id # task'[u].to
        /\ \A u \in Workers : u # w => task'[u] = task[u]
        /\ TaskStands(w)' /\ Touches(w)' = {}
    BY <1>0, <2>7, WorkerRests
  <2>9. ExportsTypeInv'
    BY <1>0, <1>6, <2>7, <2>8 DEF ExportsTypeInv
  <2>10. o \in Touches(w) /\ Touches(w) = {t.id, t.to} \ {Nothing}
    BY <1>1, <1>3, <1>4, ExportsAssumption DEF Touches
  <2>11. LeavesAlone(w)
    BY <1>6, <2>7, <2>8, <2>10 DEF LeavesAlone
  <2>12. o \notin broken => b["html"].link = o /\ b["json"].link = o /\ Dated(o, b)
    <3> SUFFICES ASSUME o \notin broken
                 PROVE  b["html"].link = o /\ b["json"].link = o /\ Dated(o, b)
      OBVIOUS
    <3>1. CASE t \in WriteTasks
      <4>1. t.id = o /\ t.day \in Days
        BY <1>2, <1>3, <3>1, TaskKinds, TaskNames
      <4>2. /\ b["html"] = PageOf(t.day, o) /\ b["json"] = PageOf(t.day, o)
            /\ b["manifest"] # Unwritten => o \in redated \/ b["manifest"].day = t.day
        BY <1>1, <1>2, <1>6, <2>1, <3>1, <4>1 DEF ExportsInv, TaskStands, WriteStands, Written
      <4>3. /\ b["html"].day = t.day /\ b["html"].link = o
            /\ b["json"].day = t.day /\ b["json"].link = o /\ b["json"] # Unwritten
        BY <1>4, <4>2, ExportsAssumption DEF PageOf, Unwritten
      <4> QED BY <4>2, <4>3 DEF Dated, About, About_json
    <3>2. CASE t \in RenameTasks
      <4>1. t.to = o
        BY <1>2, <1>3, <3>2, TaskKinds
      <4> QED BY <1>1, <1>2, <2>1, <3>2, <4>1 DEF ExportsInv, TaskStands, RenameStands
    <3> QED BY <1>2, <3>1, <3>2
  <2>13. ASSUME NEW i \in Ids, i \in Touches(w) PROVE Quiet(i)'
    <3>1. CASE i = o
      <4> SUFFICES ASSUME o \notin broken PROVE WholeBundle(o)'
        BY <1>6, <3>1 DEF Quiet
      <4>1. \A p \in Parts : bundles'[o][p].link = o
        BY <2>5, <2>7, <2>12 DEF Parts
      <4>2. Dated(o, bundles[o])'
        <5>1. b["html"].day = b["json"].day /\ (o \in redated \/ About(b) = b["json"].day)
          BY <2>12 DEF Dated
        <5> QED BY <1>6, <2>5, <2>7, <5>1 DEF Dated, About, Unwritten
      <4> QED BY <2>7, <4>1, <4>2 DEF WholeBundle
    <3>2. CASE i # o
      <4>1. t \in RenameTasks /\ i = t.id
        BY <1>2, <1>3, <2>10, <2>13, <3>2, TaskKinds, TaskNames
      <4>2. i \notin broken => bundles[i] = Nothing
        BY <1>1, <1>2, <4>1 DEF ExportsInv, TaskStands, RenameStands
      <4> QED BY <1>6, <2>7, <3>2, <4>2 DEF Quiet
    <3> QED BY <3>1, <3>2
  <2> QED BY <2>8, <2>9, <2>11, <2>13, ExportStepStands
<1> QED BY <1>1, <1>3, <1>5, <1>6 DEF WriteManifest

LEMMA MoveStands ==
    ASSUME ExportsInv, NEW w \in Workers, Move(w) PROVE ExportsInv'
<1>0. ExportsTypeInv
  BY DEF ExportsInv
<1>1. PICK t : t = task[w]
  OBVIOUS
<1>2. t.doing = "move" /\ t \in Tasks /\ t \in RenameTasks /\ t.id # t.to
  <2>1. t.doing = "move" /\ t \in Tasks
    BY <1>0, <1>1 DEF Move, ExportsTypeInv
  <2>2. t \in RenameTasks
    BY <2>1 DEF Tasks, Free, WriteTasks, DeleteTasks
  <2> QED BY <1>0, <1>1, <2>1, <2>2 DEF ExportsTypeInv
<1>3. PICK i, o : i = t.id /\ o = t.to
  OBVIOUS
<1>4. i \in Ids /\ o \in Ids /\ i # o
  BY <1>2, <1>3, TaskKinds, TaskNames
<1>5. CASE Raises(w)
  BY <1>5, RaisesStands
<1>6. CASE ~Raises(w)
  <2>1. /\ bundles[i] # Nothing
        /\ bundles' = [bundles EXCEPT ![i] = Nothing,
                          ![o] = IF bundles[o] = Nothing THEN bundles[i] ELSE bundles[o]]
        /\ redated' = IF i \in redated THEN (redated \ {i}) \union {o} ELSE redated
        /\ broken' = IF i \in broken THEN broken \union {o} ELSE broken
        /\ Then(w, "relink json")
        /\ UNCHANGED exports
    BY <1>0, <1>1, <1>3, <1>4, <1>6 DEF Move, ExportsTypeInv
  <2>2. /\ bundles' \in [Ids -> {Nothing} \union Bundle]
        /\ bundles'[i] = Nothing
        /\ bundles[o] = Nothing => bundles'[o] = bundles[i]
        /\ \A j \in Ids : j \notin {i, o} => bundles'[j] = bundles[j]
    BY <1>0, <1>4, <2>1 DEF ExportsTypeInv
  <2>3. PICK n : n = task'[w]
    OBVIOUS
  <2>4. /\ task' \in [Workers -> Tasks]
        /\ \A u \in Workers : task'[u] \in RenameTasks => task'[u].id # task'[u].to
        /\ \A u \in Workers : u # w => task'[u] = task[u]
        /\ Touches(w)' = Touches(w)
        /\ n \in Tasks /\ n.doing = "relink json" /\ n.id = i /\ n.to = o
        /\ n \in RenameTasks
    BY <1>0, <1>1, <1>2, <1>3, <2>1, <2>3, WorkerGoesOn
  <2>5. /\ redated' \subseteq Ids /\ broken' \subseteq Ids /\ broken \subseteq broken'
        /\ o \notin broken' => i \notin broken /\ o \notin broken
        /\ i \in redated => o \in redated'
        /\ \A j \in Ids : j \notin {i, o} /\ j \in redated => j \in redated'
    BY <1>0, <1>4, <2>1 DEF ExportsTypeInv
  <2>6. ExportsTypeInv'
    BY <1>0, <2>1, <2>2, <2>4, <2>5 DEF ExportsTypeInv
  <2>7. i \in Touches(w) /\ o \in Touches(w)
    BY <1>1, <1>3, <1>4, ExportsAssumption DEF Touches
  <2>8. LeavesAlone(w)
    BY <2>2, <2>4, <2>5, <2>7 DEF LeavesAlone
  <2>9. o \notin broken' =>
             /\ bundles'[o] # Nothing
             /\ \A p \in Parts : bundles'[o][p].link = i
             /\ Dated(o, bundles[o])'
    <3> SUFFICES ASSUME o \notin broken'
                 PROVE  /\ bundles'[o] # Nothing
                        /\ \A p \in Parts : bundles'[o][p].link = i
                        /\ Dated(o, bundles[o])'
      OBVIOUS
    <3>1. WholeBundle(i) /\ bundles[o] = Nothing
      BY <1>1, <1>2, <1>3, <2>5 DEF ExportsInv, TaskStands, RenameStands
    <3>2. bundles'[o] = bundles[i]
      BY <2>2, <3>1
    <3> QED BY <2>5, <3>1, <3>2 DEF WholeBundle, Dated, About, About_json, Unwritten
  <2>10. RenameStands(n)'
    <3>1. "json" \in Parts /\ "html" \in Parts /\ "manifest" \in Parts
      BY DEF Parts
    <3>2. n.id = i /\ n.to = o /\ n.doing = "relink json"
      BY <2>4
    <3> QED BY <2>2, <2>9, <3>1, <3>2 DEF RenameStands, Dated, About, About_json, Unwritten
  <2>11. n \notin WriteTasks
    BY <2>4, TaskKinds
  <2>12. TaskStands(w)'
    BY <2>3, <2>10, <2>11, TaskStandsFrom DEF WriteStands
  <2> QED BY <2>4, <2>6, <2>8, <2>12, WorkingOn, ExportStepStands
<1> QED BY <1>5, <1>6

LEMMA LinkedIsWritten ==
    ASSUME NEW page, page.link \in Ids PROVE page # Unwritten
<1>1. Unwritten.link \notin Ids
  BY ExportsAssumption DEF Unwritten
<1> QED BY <1>1

LEMMA PageRelinked ==
    ASSUME NEW page \in BundlePage, NEW i \in Ids, NEW o \in Ids
    PROVE  /\ Relinked(page, i, o) \in BundlePage /\ Relinked(page, i, o).day = page.day
           /\ page.link = i => Relinked(page, i, o).link = o
<1>1. CASE page.link = i
  BY <1>1 DEF Relinked, BundlePage
<1>2. CASE page.link # i
  BY <1>2 DEF Relinked
<1> QED BY <1>1, <1>2

LEMMA RelinkStands ==
    ASSUME ExportsInv, NEW w \in Workers, NEW doing, NEW file, NEW next,
           \/ doing = "relink json" /\ file = "json" /\ next = "relink page"
           \/ doing = "relink page" /\ file = "html" /\ next = "manifest",
           Relink(w, doing, file, next)
    PROVE  ExportsInv'
<1>0. ExportsTypeInv
  BY DEF ExportsInv
<1>1. PICK t : t = task[w]
  OBVIOUS
<1>2. t.doing = doing /\ t \in Tasks /\ t \in RenameTasks /\ t.id # t.to
  <2>1. t.doing = doing /\ t \in Tasks
    BY <1>0, <1>1 DEF Relink, ExportsTypeInv
  <2>2. t.doing \in {"relink json", "relink page"}
    BY <2>1
  <2>3. t \in RenameTasks
    <3>1. /\ \A r \in WriteTasks : r.doing \in {"html", "json", "manifest"}
          /\ \A r \in DeleteTasks : r.doing = "unlink"
          /\ Free.doing = "nothing"
      BY DEF WriteTasks, DeleteTasks, Free
    <3> QED BY <2>1, <2>2, <3>1 DEF Tasks
  <2> QED BY <1>0, <1>1, <2>1, <2>3 DEF ExportsTypeInv
<1>3. PICK i, o : i = t.id /\ o = t.to
  OBVIOUS
<1>4. i \in Ids /\ o \in Ids /\ i # o /\ file \in Parts
  BY <1>2, <1>3, TaskKinds, TaskNames DEF Parts
<1>5. /\ Then(w, next)
      /\ bundles' = IF Has(o, file)
                    THEN [bundles EXCEPT ![o][file] = Relinked(bundles[o][file], i, o)]
                    ELSE bundles
      /\ UNCHANGED <<exports, redated, broken>>
  <2>1. bundles \in [Ids -> {Nothing} \union Bundle]
    BY <1>0 DEF ExportsTypeInv
  <2> QED BY <1>1, <1>3, <1>4, <2>1 DEF Relink
<1>6. /\ bundles' \in [Ids -> {Nothing} \union Bundle]
      /\ \A j \in Ids : j # o => bundles'[j] = bundles[j]
      /\ bundles[o] # Nothing /\ bundles[o][file].link = i =>
           /\ bundles'[o] # Nothing
           /\ bundles'[o][file].day = bundles[o][file].day /\ bundles'[o][file].link = o
           /\ \A p \in Parts : p # file => bundles'[o][p] = bundles[o][p]
  <2>1. bundles \in [Ids -> {Nothing} \union Bundle]
    BY <1>0 DEF ExportsTypeInv
  <2>2. CASE ~Has(o, file)
    <3>1. ~(bundles[o] # Nothing /\ bundles[o][file].link = i)
      BY <1>4, <2>2, LinkedIsWritten DEF Has
    <3> QED BY <1>5, <2>1, <2>2, <3>1
  <2>3. CASE Has(o, file)
    <3>1. PICK b : b = bundles[o]
      OBVIOUS
    <3>2. b \in Bundle
      BY <1>4, <2>1, <2>3, <3>1 DEF Has
    <3> DEFINE n == [b EXCEPT ![file] = Relinked(b[file], i, o)]
    <3>4. /\ n \in Bundle /\ n # Nothing
          /\ n[file].day = b[file].day /\ (b[file].link = i => n[file].link = o)
          /\ \A p \in Parts : p # file => n[p] = b[p]
      <4>1. Bundle = [Parts -> BundlePage]
        BY DEF Bundle, BundlePage
      <4>2. PICK page : page = Relinked(b[file], i, o)
        OBVIOUS
      <4>3. page \in BundlePage /\ page.day = b[file].day /\ (b[file].link = i => page.link = o)
        BY <1>4, <3>2, <4>1, <4>2, PageRelinked
      <4>4. n \in [Parts -> BundlePage] /\ n[file] = page /\ \A p \in Parts : p # file => n[p] = b[p]
        BY <1>4, <3>2, <4>1, <4>2, <4>3
      <4> HIDE DEF n
      <4> QED BY <4>1, <4>3, <4>4, ExportsAssumption
    <3>5. bundles' = [bundles EXCEPT ![o] = n]
      BY <1>5, <2>3, <3>1
    <3> HIDE DEF n
    <3>6. bundles'[o] = n /\ bundles' \in [Ids -> {Nothing} \union Bundle]
          /\ \A j \in Ids : j # o => bundles'[j] = bundles[j]
      BY <1>4, <2>1, <3>4, <3>5
    <3> QED BY <3>1, <3>4, <3>6
  <2> QED BY <2>2, <2>3
<1>7. PICK n : n = task'[w]
  OBVIOUS
<1>8. /\ task' \in [Workers -> Tasks]
      /\ \A u \in Workers : task'[u] \in RenameTasks => task'[u].id # task'[u].to
      /\ \A u \in Workers : u # w => task'[u] = task[u]
      /\ Touches(w)' = Touches(w)
      /\ n \in Tasks /\ n.doing = next /\ n.id = i /\ n.to = o
      /\ n \in RenameTasks
  <2>1. next \in {"relink json", "relink page", "manifest"}
    OBVIOUS
  <2> QED BY <1>0, <1>1, <1>2, <1>3, <1>5, <1>7, <2>1, WorkerGoesOn
<1>9. ExportsTypeInv'
  BY <1>0, <1>5, <1>6, <1>8 DEF ExportsTypeInv
<1>10. o \in Touches(w)
  BY <1>1, <1>3, <1>4, ExportsAssumption DEF Touches
<1>11. LeavesAlone(w)
  BY <1>5, <1>6, <1>8, <1>10 DEF LeavesAlone
<1>12. /\ t.id \notin broken => bundles[i] = Nothing
       /\ o \notin broken =>
            /\ bundles[o] # Nothing
            /\ bundles[o]["json"].link = IF doing = "relink json" THEN i ELSE o
            /\ bundles[o]["html"].link = i
            /\ bundles[o]["manifest"].link = i
            /\ Dated(o, bundles[o])
  BY <1>1, <1>2, <1>3 DEF ExportsInv, TaskStands, RenameStands
<1>13. o \notin broken =>
            /\ bundles'[o] # Nothing
            /\ bundles'[o]["json"].link = o
            /\ bundles'[o]["html"].link = IF doing = "relink json" THEN i ELSE o
            /\ bundles'[o]["manifest"].link = i
            /\ Dated(o, bundles[o])'
  <2> SUFFICES ASSUME o \notin broken
               PROVE  /\ bundles'[o] # Nothing
                      /\ bundles'[o]["json"].link = o
                      /\ bundles'[o]["html"].link = IF doing = "relink json" THEN i ELSE o
                      /\ bundles'[o]["manifest"].link = i
                      /\ Dated(o, bundles[o])'
    OBVIOUS
  <2>1. bundles[o] # Nothing /\ bundles[o][file].link = i
    BY <1>12
  <2>2. /\ bundles'[o] # Nothing
        /\ bundles'[o][file].day = bundles[o][file].day /\ bundles'[o][file].link = o
        /\ \A p \in Parts : p # file => bundles'[o][p] = bundles[o][p]
    BY <1>6, <2>1
  <2>3. /\ \A p \in Parts : bundles'[o][p].day = bundles[o][p].day
        /\ bundles'[o]["manifest"] = bundles[o]["manifest"]
    BY <2>2 DEF Parts
  <2>4. bundles[o]["manifest"] # Unwritten
    BY <1>4, <1>12, LinkedIsWritten
  <2>5. Dated(o, bundles[o])'
    BY <1>5, <1>12, <2>3, <2>4 DEF Dated, About, Parts, Unwritten
  <2> QED BY <1>12, <2>2, <2>5 DEF Parts
<1>14. RenameStands(n)'
  <2>1. n.id \notin broken' => bundles'[n.id] = Nothing
    BY <1>3, <1>4, <1>5, <1>6, <1>8, <1>12
  <2>2. o \notin broken => Dated(n.to, bundles[n.to])'
    BY <1>8, <1>13 DEF Dated, About, About_json, Unwritten
  <2>3. n.to \notin broken' =>
             /\ bundles'[n.to] # Nothing
             /\ bundles'[n.to]["json"].link = IF n.doing = "relink json" THEN n.id ELSE n.to
             /\ bundles'[n.to]["html"].link = IF n.doing = "manifest" THEN n.to ELSE n.id
             /\ bundles'[n.to]["manifest"].link = n.id
             /\ Dated(n.to, bundles[n.to])'
    BY <1>5, <1>8, <1>13, <2>2
  <2>4. n.doing # "move"
    BY <1>8
  <2> QED BY <2>1, <2>3, <2>4 DEF RenameStands
<1>15. n \notin WriteTasks
  BY <1>8, TaskKinds
<1>16. TaskStands(w)'
  BY <1>7, <1>14, <1>15, TaskStandsFrom DEF WriteStands
<1> QED BY <1>8, <1>9, <1>11, <1>16, WorkingOn, ExportStepStands

LEMMA DeletingTask ==
    ASSUME ExportsTypeInv, NEW w \in Workers, task[w].doing = "unlink"
    PROVE  /\ task[w] \in DeleteTasks /\ task[w] \notin WriteTasks /\ task[w] \notin RenameTasks
           /\ task[w].id \in Ids /\ task[w].to = Nothing /\ task[w].id # Nothing
           /\ Touches(w) = {task[w].id}
<1>1. /\ \A r \in WriteTasks : r.doing \in {"html", "json", "manifest"}
      /\ \A r \in RenameTasks : r.doing # "unlink"
      /\ Free.doing = "nothing"
  BY DEF WriteTasks, RenameTasks, Free
<1>2. task[w] \in Tasks
  BY DEF ExportsTypeInv
<1>3. task[w] \in DeleteTasks /\ task[w] \notin WriteTasks /\ task[w] \notin RenameTasks
  BY <1>1, <1>2 DEF Tasks
<1>4. task[w].id \in Ids /\ task[w].to = Nothing /\ task[w].id # Nothing
  BY <1>2, <1>3, TaskKinds, TaskNames, ExportsAssumption
<1> QED BY <1>3, <1>4 DEF Touches

LEMMA LessLeft ==
    ASSUME NEW t \in DeleteTasks, NEW file
    PROVE  LET n == [t EXCEPT !.left = t.left \ {file}] IN
           /\ n \in DeleteTasks /\ n.id = t.id /\ n.to = t.to
  BY DEF DeleteTasks

LEMMA Unlink1Stands ==
    ASSUME ExportsInv, NEW w \in Workers, NEW file \in Parts, Unlink1(w, file)
    PROVE  ExportsInv'
<1>0. ExportsTypeInv
  BY DEF ExportsInv
<1>1. PICK t : t = task[w]
  OBVIOUS
<1>2. t \in DeleteTasks /\ t.id \in Ids /\ Touches(w) = {t.id} /\ t.to = Nothing /\ t.id # Nothing
  BY <1>0, <1>1, DeletingTask DEF Unlink1
<1>3. CASE Raises(w)
  BY <1>3, RaisesStands
<1>4. CASE ~Raises(w)
  <2>1. /\ Has(t.id, file)
        /\ bundles' = [bundles EXCEPT ![t.id][file] = Unwritten]
        /\ task' = [task EXCEPT ![w].left = task[w].left \ {file}]
        /\ UNCHANGED <<exports, redated, broken>>
    BY <1>0, <1>1, <1>4 DEF Unlink1, ExportsTypeInv
  <2>2. bundles' \in [Ids -> {Nothing} \union Bundle]
        /\ \A j \in Ids : j # t.id => bundles'[j] = bundles[j]
    <3>1. bundles \in [Ids -> {Nothing} \union Bundle]
      BY <1>0 DEF ExportsTypeInv
    <3>2. PICK b : b = bundles[t.id]
      OBVIOUS
    <3>3. b \in Bundle
      BY <1>2, <2>1, <3>1, <3>2 DEF Has
    <3>4. Unwritten \in BundlePage /\ Bundle = [Parts -> BundlePage]
      BY DEF Unwritten, BundlePage, Bundle
    <3>5. PICK n : n = [b EXCEPT ![file] = Unwritten]
      OBVIOUS
    <3>6. n \in Bundle
      BY <3>3, <3>4, <3>5
    <3>7. bundles' = [bundles EXCEPT ![t.id] = n]
      BY <2>1, <3>1, <3>2, <3>5
    <3> QED BY <1>2, <3>1, <3>6, <3>7
  <2>3. PICK n : n = task'[w]
    OBVIOUS
  <2>4. /\ n \in DeleteTasks /\ n.id = t.id /\ n.to = t.to
        /\ \A u \in Workers : u # w => task'[u] = task[u]
        /\ task' \in [Workers -> Tasks]
    <3>1. task \in [Workers -> Tasks]
      BY <1>0 DEF ExportsTypeInv
    <3>2. n = [t EXCEPT !.left = t.left \ {file}]
      BY <1>1, <2>1, <2>3, <3>1
    <3>3. n \in DeleteTasks /\ n.id = t.id /\ n.to = t.to
      BY <1>2, <3>2, LessLeft
    <3>4. task' = [task EXCEPT ![w] = n]
      BY <1>1, <2>1, <3>1, <3>2
    <3> QED BY <3>1, <3>3, <3>4 DEF Tasks
  <2>5. n \notin WriteTasks /\ n \notin RenameTasks
    BY <2>4, TaskKinds DEF Tasks
  <2>6. ExportsTypeInv'
    BY <1>0, <2>1, <2>2, <2>3, <2>4, <2>5 DEF ExportsTypeInv
  <2>7. Touches(w)' = Touches(w)
    BY <1>1, <2>3, <2>4 DEF Touches
  <2>8. LeavesAlone(w)
    BY <1>2, <2>1, <2>2, <2>4, <2>7 DEF LeavesAlone
  <2>9. TaskStands(w)'
    BY <2>3, <2>5, TaskStandsFrom DEF WriteStands, RenameStands
  <2> QED BY <2>6, <2>7, <2>8, <2>9, WorkingOn, ExportStepStands
<1> QED BY <1>3, <1>4

LEMMA RemoveDirStands ==
    ASSUME ExportsInv, NEW w \in Workers, RemoveDir(w) PROVE ExportsInv'
<1>0. ExportsTypeInv
  BY DEF ExportsInv
<1>1. PICK t : t = task[w]
  OBVIOUS
<1>2. t.id \in Ids /\ Touches(w) = {t.id}
  BY <1>0, <1>1, DeletingTask DEF RemoveDir
<1>3. CASE Raises(w)
  BY <1>3, RaisesStands
<1>4. CASE ~Raises(w)
  <2>1. /\ bundles' = [bundles EXCEPT ![t.id] = Nothing]
        /\ redated' = redated \ {t.id} /\ Done(w)
        /\ UNCHANGED <<exports, broken>>
    BY <1>1, <1>4 DEF RemoveDir
  <2>2. /\ bundles' \in [Ids -> {Nothing} \union Bundle] /\ bundles'[t.id] = Nothing
        /\ \A j \in Ids : j # t.id => bundles'[j] = bundles[j]
    BY <1>0, <1>2, <2>1 DEF ExportsTypeInv
  <2>3. /\ task' \in [Workers -> Tasks]
        /\ \A u \in Workers : task'[u] \in RenameTasks => task'[u].id # task'[u].to
        /\ \A u \in Workers : u # w => task'[u] = task[u]
        /\ TaskStands(w)' /\ Touches(w)' = {}
    BY <1>0, <2>1, WorkerRests
  <2>4. ExportsTypeInv'
    BY <1>0, <2>1, <2>2, <2>3 DEF ExportsTypeInv
  <2>5. LeavesAlone(w)
    BY <1>2, <2>1, <2>2, <2>3 DEF LeavesAlone
  <2>6. \A i \in Ids : i \in Touches(w) => Quiet(i)'
    BY <1>2, <2>2 DEF Quiet
  <2> QED BY <2>3, <2>4, <2>5, <2>6, ExportStepStands
<1> QED BY <1>3, <1>4

LEMMA SharedBreaks ==
    ASSUME ExportsTypeInv, NEW w \in Workers, NEW t \in Tasks, SetsOut(w, t)
    PROVE  /\ broken \subseteq broken' /\ broken' \subseteq Ids
           /\ \A u \in Workers, i \in Ids : i \in Touches(u) /\ i \in {t.id, t.to} => i \in broken'
<1> DEFINE shared == {t.id, t.to} \intersect UNION {Touches(v) : v \in Workers}
<1>1. {t.id, t.to} \ {Nothing} \subseteq Ids
  BY TaskNames
<1>2. \A u \in Workers : Touches(u) \subseteq Ids
  BY TaskNames DEF ExportsTypeInv, Touches
<1>3. CASE shared = {}
  BY <1>3 DEF SetsOut, ExportsTypeInv
<1>4. CASE shared # {}
  <2>1. broken' = broken \union ({t.id, t.to} \ {Nothing})
                    \union UNION {Touches(v) : v \in {u \in Workers : Touches(u) \intersect shared # {}}}
    BY <1>4 DEF SetsOut
  <2>2. \A i \in Ids : i # Nothing
    BY ExportsAssumption
  <2> HIDE DEF shared
  <2> QED BY <1>1, <1>2, <2>1, <2>2 DEF ExportsTypeInv
<1> QED BY <1>3, <1>4

(* A task set out on breaks each id that another worker is at, and leaves  *)
(* the others' bundles as they were.                                       *)
LEMMA SettingOutStands ==
    ASSUME ExportsInv, NEW w \in Workers, NEW t \in Tasks \ {Free}, SetsOut(w, t),
           t \in RenameTasks => t.id # t.to,
           bundles' \in [Ids -> {Nothing} \union Bundle], redated' \subseteq Ids,
           \A i \in Ids : i \notin {t.id, t.to} =>
             bundles'[i] = bundles[i] /\ (i \in redated => i \in redated'),
           WriteStands(t)', RenameStands(t)'
    PROVE  ExportsInv'
<1>0. ExportsTypeInv
  BY DEF ExportsInv
<1>2. task[w] = Free /\ exports < MaxExports /\ exports' = exports + 1
      /\ task' = [task EXCEPT ![w] = t]
  BY DEF SetsOut
<1>3. Touches(w) = {}
  BY <1>2 DEF Touches, Free
<1>4. \A u \in Workers : Touches(u) \subseteq Ids
  BY <1>0, TaskNames DEF ExportsTypeInv, Touches
<1>5. /\ broken \subseteq broken' /\ broken' \subseteq Ids
      /\ \A u \in Workers, i \in Ids : i \in Touches(u) /\ i \in {t.id, t.to} => i \in broken'
  BY <1>0, SharedBreaks
<1>6. /\ task' \in [Workers -> Tasks] /\ task'[w] = t
      /\ \A u \in Workers : u # w => task'[u] = task[u] /\ Touches(u)' = Touches(u)
      /\ Touches(w)' = {t.id, t.to} \ {Nothing}
  BY <1>0, <1>2 DEF ExportsTypeInv, Touches
<1>7. ExportsTypeInv'
  <2>1. exports' \in 0 .. MaxExports
    BY <1>0, <1>2, ExportsAssumption DEF ExportsTypeInv
  <2> QED BY <1>0, <1>5, <1>6, <2>1 DEF ExportsTypeInv
<1>8. OneWorkerEach'
  <2> SUFFICES ASSUME NEW u \in Workers, NEW v \in Workers,
                      NEW i \in (Touches(u)' \intersect Touches(v)') \ broken'
               PROVE  u = v
    BY DEF OneWorkerEach
  <2>1. i \in Ids
    BY <1>4, <1>6, TaskNames
  <2>2. CASE u # w /\ v # w
    BY <1>5, <1>6, <2>2 DEF ExportsInv, OneWorkerEach
  <2>3. CASE u = w /\ v # w
    BY <1>5, <1>6, <2>1, <2>3
  <2>4. CASE u # w /\ v = w
    BY <1>5, <1>6, <2>1, <2>4
  <2> QED BY <2>2, <2>3, <2>4
<1>9. ASSUME NEW u \in Workers PROVE TaskStands(u)'
  <2>1. CASE u = w
    BY <1>6, <2>1, TaskStandsFrom
  <2>2. CASE u # w
    <3>1. PICK c : c = task[u]
      OBVIOUS
    <3>2. task'[u] = c /\ c \in Tasks
      BY <1>0, <1>6, <2>2, <3>1 DEF ExportsTypeInv
    <3>3. WriteStands(c) /\ RenameStands(c)
      BY <3>1 DEF ExportsInv, TaskStands
    <3>4. ASSUME NEW i \in Ids, i \in {c.id, c.to}, i \notin broken'
          PROVE  /\ i \notin broken /\ bundles'[i] = bundles[i]
                 /\ i \in redated => i \in redated'
      <4>1. i \in Touches(u)
        BY <3>1, <3>4, ExportsAssumption DEF Touches
      <4>2. i \notin {t.id, t.to} /\ i \notin broken
        BY <1>5, <3>4, <4>1
      <4> QED BY <4>2
    <3>5. WriteStands(c)' /\ RenameStands(c)'
      BY <3>2, <3>3, <3>4, TaskStandsOn
    <3> QED BY <3>2, <3>5, TaskStandsFrom
  <2> QED BY <2>1, <2>2
<1>10. ASSUME NEW i \in Ids PROVE Quiet(i)'
  <2> SUFFICES ASSUME i \notin broken', bundles'[i] # Nothing,
                      \A u \in Workers : i \notin Touches(u)'
               PROVE  WholeBundle(i)'
    BY DEF Quiet
  <2>1. i # Nothing /\ i \notin {t.id, t.to}
    BY <1>6, ExportsAssumption
  <2>2. bundles'[i] = bundles[i] /\ (i \in redated => i \in redated') /\ i \notin broken
    BY <1>5, <2>1
  <2>3. \A u \in Workers : i \notin Touches(u)
    BY <1>3, <1>6
  <2>4. WholeBundle(i)
    BY <2>2, <2>3 DEF ExportsInv, Quiet
  <2> QED BY <2>2, <2>4 DEF WholeBundle, Dated, About, About_json, Unwritten
<1> QED BY <1>7, <1>8, <1>9, <1>10 DEF ExportsInv

LEMMA ChannelDayStands ==
    ASSUME ExportsInv, NEW w \in Workers, NEW id \in Ids, NEW day \in Days, ChannelDay(w, id, day)
    PROVE  ExportsInv'
<1>0. ExportsTypeInv
  BY DEF ExportsInv
<1>1. PICK t : t = [Free EXCEPT !.doing = "html", !.kind = "day", !.id = id, !.day = day]
  OBVIOUS
<1>2. t = [doing |-> "html", kind |-> "day", id |-> id, to |-> Nothing, day |-> day, left |-> {}]
  BY <1>1 DEF Free
<1>3. t.doing = "html" /\ t.kind = "day" /\ t.id = id /\ t.to = Nothing /\ t.day = day
  BY <1>2
<1>4. t \in WriteTasks
  BY <1>2 DEF WriteTasks
<1>5. t \in Tasks \ {Free} /\ t \notin RenameTasks
  BY <1>3, <1>4, TaskKinds DEF Tasks
<1>6. /\ SetsOut(w, t) /\ bundles' = bundles
      /\ redated' = IF bundles[id] # Nothing /\ About(bundles[id]) # day
                    THEN redated \union {id} ELSE redated
  BY <1>1 DEF ChannelDay
<1>7. Written(t) = {}
  BY <1>3 DEF Written
<1>8. WriteStands(t)'
  BY <1>3, <1>6, <1>7 DEF WriteStands, About
<1>9. RenameStands(t)'
  BY <1>5 DEF RenameStands
<1>10. redated' \subseteq Ids /\ redated \subseteq redated' /\ bundles' \in [Ids -> {Nothing} \union Bundle]
  BY <1>0, <1>6 DEF ExportsTypeInv
<1> QED BY <1>5, <1>6, <1>8, <1>9, <1>10, SettingOutStands

LEMMA SelectedStands ==
    ASSUME ExportsInv, NEW w \in Workers, NEW id \in Ids, NEW day \in Days, Selected(w, id, day)
    PROVE  ExportsInv'
<1>0. ExportsTypeInv
  BY DEF ExportsInv
<1>1. PICK t : t = [Free EXCEPT !.doing = "json", !.kind = "selected", !.id = id, !.day = day]
  OBVIOUS
<1>2. t = [doing |-> "json", kind |-> "selected", id |-> id, to |-> Nothing, day |-> day, left |-> {}]
  BY <1>1 DEF Free
<1>3. t.doing = "json" /\ t.kind = "selected" /\ t.id = id /\ t.to = Nothing /\ t.day = day
  BY <1>2
<1>4. t \in WriteTasks
  BY <1>2 DEF WriteTasks
<1>5. t \in Tasks \ {Free} /\ t \notin RenameTasks
  BY <1>3, <1>4, TaskKinds DEF Tasks
<1>6. SetsOut(w, t) /\ bundles' = [bundles EXCEPT ![id] = Empty] /\ redated' = redated
  BY <1>1 DEF Selected
<1>7. Empty \in Bundle /\ Empty # Nothing /\ Empty["manifest"] = Unwritten
  BY ExportsAssumption DEF Empty, Bundle, Unwritten, Parts
<1>8. /\ bundles' \in [Ids -> {Nothing} \union Bundle] /\ bundles'[id] = Empty
      /\ \A i \in Ids : i # id => bundles'[i] = bundles[i]
  BY <1>0, <1>6, <1>7 DEF ExportsTypeInv
<1>9. Written(t) = {}
  BY <1>3 DEF Written
<1>10. WriteStands(t)'
  BY <1>3, <1>7, <1>8, <1>9 DEF WriteStands, Unwritten
<1>11. RenameStands(t)'
  BY <1>5 DEF RenameStands
<1>12. redated' \subseteq Ids
  BY <1>0, <1>6 DEF ExportsTypeInv
<1> QED BY <1>3, <1>5, <1>6, <1>8, <1>10, <1>11, <1>12, SettingOutStands

LEMMA RenameBundleStands ==
    ASSUME ExportsInv, NEW w \in Workers, NEW id \in Ids, NEW to \in Ids, RenameBundle(w, id, to)
    PROVE  ExportsInv'
<1>0. ExportsTypeInv
  BY DEF ExportsInv
<1>1. PICK t : t = [Free EXCEPT !.doing = "move", !.kind = "rename", !.id = id, !.to = to]
  OBVIOUS
<1>2. t = [doing |-> "move", kind |-> "rename", id |-> id, to |-> to, day |-> Nothing, left |-> {}]
  BY <1>1 DEF Free
<1>3. t.doing = "move" /\ t.kind = "rename" /\ t.id = id /\ t.to = to
  BY <1>2
<1>4. t \in RenameTasks
  BY <1>2 DEF RenameTasks
<1>5. t \in Tasks \ {Free} /\ t \notin WriteTasks
  BY <1>3, <1>4, TaskKinds DEF Tasks
<1>6. /\ id # to /\ bundles[id] # Nothing /\ bundles[to] = Nothing
      /\ SetsOut(w, t) /\ UNCHANGED <<bundles, redated>>
  BY <1>1 DEF RenameBundle
<1>7. id \notin broken' => WholeBundle(id)'
  <2> SUFFICES ASSUME id \notin broken' PROVE WholeBundle(id)'
    OBVIOUS
  <2>1. id \notin broken /\ \A u \in Workers : id \notin Touches(u)
    BY <1>0, <1>3, <1>5, <1>6, SharedBreaks
  <2>2. WholeBundle(id)
    BY <1>6, <2>1 DEF ExportsInv, Quiet
  <2> QED BY <1>6, <2>2 DEF WholeBundle, Dated, About, About_json, Unwritten
<1>8. RenameStands(t)'
  BY <1>3, <1>6, <1>7 DEF RenameStands, WholeBundle, Dated, About, About_json, Unwritten
<1>9. WriteStands(t)'
  BY <1>5 DEF WriteStands
<1>10. redated' \subseteq Ids /\ bundles' \in [Ids -> {Nothing} \union Bundle]
  BY <1>0, <1>6 DEF ExportsTypeInv
<1> QED BY <1>3, <1>5, <1>6, <1>8, <1>9, <1>10, SettingOutStands

LEMMA DeleteBundleStands ==
    ASSUME ExportsInv, NEW w \in Workers, NEW id \in Ids, DeleteBundle(w, id)
    PROVE  ExportsInv'
<1>0. ExportsTypeInv
  BY DEF ExportsInv
<1>1. PICK t : t = [Free EXCEPT !.doing = "unlink", !.kind = "delete", !.id = id,
                                !.left = {p \in Parts : Has(id, p)}]
  OBVIOUS
<1>2. t = [doing |-> "unlink", kind |-> "delete", id |-> id, to |-> Nothing, day |-> Nothing,
           left |-> {p \in Parts : Has(id, p)}]
  BY <1>1 DEF Free
<1>3. t.kind = "delete"
  BY <1>2
<1>4. t \in DeleteTasks
  BY <1>2 DEF DeleteTasks
<1>5. t \in Tasks \ {Free} /\ t \notin WriteTasks /\ t \notin RenameTasks
  BY <1>3, <1>4, TaskKinds DEF Tasks
<1>6. SetsOut(w, t) /\ UNCHANGED <<bundles, redated>>
  BY <1>1 DEF DeleteBundle
<1>7. WriteStands(t)' /\ RenameStands(t)'
  BY <1>5 DEF WriteStands, RenameStands
<1>8. redated' \subseteq Ids /\ bundles' \in [Ids -> {Nothing} \union Bundle]
  BY <1>0, <1>6 DEF ExportsTypeInv
<1> QED BY <1>5, <1>6, <1>7, <1>8, SettingOutStands

LEMMA ExportsKept == ExportsInv /\ [ExportsNext]_exportVars => ExportsInv'
<1> SUFFICES ASSUME ExportsInv, [ExportsNext]_exportVars PROVE ExportsInv'
  OBVIOUS
<1>1. CASE UNCHANGED exportVars
  <2>1. UNCHANGED <<bundles, task, exports, redated, broken>>
    BY <1>1 DEF exportVars
  <2>2. ExportsTypeInv' /\ OneWorkerEach'
    BY <2>1 DEF ExportsInv, ExportsTypeInv, OneWorkerEach, Touches
  <2>3. \A i \in Ids : Quiet(i)'
    BY <2>1 DEF ExportsInv, Quiet, Touches, WholeBundle, Dated, About, About_json, Unwritten
  <2>4. ASSUME NEW w \in Workers PROVE TaskStands(w)'
    <3>1. PICK t : t = task[w]
      OBVIOUS
    <3>2. t \in Tasks /\ WriteStands(t) /\ RenameStands(t) /\ task'[w] = t
      BY <2>1, <3>1 DEF ExportsInv, ExportsTypeInv, TaskStands
    <3>3. WriteStands(t)' /\ RenameStands(t)'
      BY <2>1, <3>2, TaskStandsOn
    <3> QED BY <3>2, <3>3, TaskStandsFrom
  <2> QED BY <2>2, <2>3, <2>4 DEF ExportsInv
<1>2. ASSUME NEW w \in Workers, NEW id \in Ids,
             \/ \E day \in Days : ChannelDay(w, id, day) \/ Selected(w, id, day)
             \/ \E to \in Ids : RenameBundle(w, id, to)
             \/ DeleteBundle(w, id)
      PROVE  ExportsInv'
  BY <1>2, ChannelDayStands, SelectedStands, RenameBundleStands, DeleteBundleStands
<1>3. ASSUME NEW w \in Workers,
             \/ WritePart(w, "html") \/ WritePart(w, "json")
             \/ WriteManifest(w, IF task[w].kind = "rename" THEN task[w].to ELSE task[w].id)
      PROVE  ExportsInv'
  BY <1>3, WritePartStands, WriteManifestStands
<1>4. ASSUME NEW w \in Workers,
             \/ Move(w) \/ Relink(w, "relink json", "json", "relink page")
             \/ Relink(w, "relink page", "html", "manifest")
      PROVE  ExportsInv'
  BY <1>4, MoveStands, RelinkStands
<1>5. ASSUME NEW w \in Workers,
             (\E file \in Parts : Unlink1(w, file)) \/ RemoveDir(w) \/ Cut(w)
      PROVE  ExportsInv'
  BY <1>5, Unlink1Stands, RemoveDirStands, RaisesStands DEF Cut
<1> QED BY <1>1, <1>2, <1>3, <1>4, <1>5 DEF ExportsNext

(* The types of exports.py's bundles and of what is under way on them.     *)
THEOREM ExportsTypeCorrect == ExportsSpec => []ExportsTypeOK
<1>1. ExportsInit => ExportsInv
  BY ExportsStart
<1>2. ExportsInv => ExportsTypeOK
  <2> SUFFICES ASSUME ExportsTypeInv PROVE ExportsTypeOK
    BY DEF ExportsInv
  <2>1. \A t \in Tasks : t \in
         [doing : {"nothing", "html", "json", "manifest", "move", "relink json",
                   "relink page", "unlink"},
          kind : {"none", "day", "selected", "rename", "delete"},
          id : Ids \union {Nothing}, to : Ids \union {Nothing},
          day : Days \union {Nothing}, left : SUBSET Parts]
    <3> DEFINE Task ==
         [doing : {"nothing", "html", "json", "manifest", "move", "relink json",
                   "relink page", "unlink"},
          kind : {"none", "day", "selected", "rename", "delete"},
          id : Ids \union {Nothing}, to : Ids \union {Nothing},
          day : Days \union {Nothing}, left : SUBSET Parts]
    <3>1. Free \in Task
      BY DEF Free
    <3>2. \A t \in WriteTasks : t \in Task
      BY DEF WriteTasks
    <3>3. \A t \in RenameTasks : t \in Task
      BY DEF RenameTasks
    <3>4. \A t \in DeleteTasks : t \in Task
      BY DEF DeleteTasks
    <3> HIDE DEF Task
    <3>5. \A t \in Tasks : t \in Task
      BY <3>1, <3>2, <3>3, <3>4 DEF Tasks
    <3> QED BY <3>5 DEF Task
  <2> QED BY <2>1 DEF ExportsTypeInv, ExportsTypeOK
<1> QED BY <1>1, <1>2, ExportsKept, PTL DEF ExportsSpec

(* Whatever exports, renames and deletions requests and scripts run at     *)
(* once, a bundle that nobody is at work on and no task was cut at or      *)
(* shared is whole and links to itself, and says what it is about unless   *)
(* it was exported anew for another day.                                   *)
THEOREM BundlesAlwaysAgree == ExportsSpec => []BundlesAgree
<1>1. ExportsInit => ExportsInv
  BY ExportsStart
<1>2. ExportsInv => BundlesAgree
  BY DEF ExportsInv, BundlesAgree, Quiet, WholeBundle, Dated
<1> QED BY <1>1, <1>2, ExportsKept, PTL DEF ExportsSpec

-----------------------------------------------------------------------------
(* The standalone exporter *)

(* For any conversations and histories: while messages are taken, every    *)
(* one settled is in one file, of its day, in a directory of its           *)
(* conversation's, and the files of the conversation under way are of days *)
(* before the one collected (TreeFits).                                    *)
NoName == ""

(* Where the files of a conversation may be.                               *)
DirsOf(i) == {Dir(n) : n \in NamesOf(i)} \union {Literal(n) : n \in NamesOf(i)}

Fetchable(i) == [id : {i} \X Nat, day : Nat \ {0}, from : NamesOf(i) \union {NoName},
                 to : NamesOf(i) \union {NoName}]

TakenIds == {fetched[j].id : j \in 1 .. messageAt}

(* Files have messages, and their directories are there and have names.    *)
Shape(t) ==
    /\ t = [dirs |-> t.dirs, days |-> t.days]
    /\ Dir(NoName) \notin t.dirs
    /\ \A b \in t.days :
         /\ b = [dir |-> b.dir, day |-> b.day, messages |-> b.messages]
         /\ b.day \in Nat /\ b.messages # {} /\ b.dir \in t.dirs

(* No file has these messages.                                             *)
Unfiled(t, ids) == \A b \in t.days : b.messages \intersect ids = {}

(* The conversation's directories have its messages and no others.         *)
OnlyOwn(t, i) == \A b \in t.days : \A id \in b.messages : b.dir \in DirsOf(i) <=> id[1] = i

(* Of a day a conversation has one file.                                   *)
OneADay(t, i) ==
    \A b, e \in t.days :
        b.dir \in DirsOf(i) /\ e.dir \in DirsOf(i) /\ b.day = e.day => b = e

(* The conversation's files are of days before day.                        *)
Before(t, i, day) == \A b \in t.days : b.dir \in DirsOf(i) => b.day < day

(* One file has the message, and it is of the message's day.               *)
InOne(t, m) ==
    \E b \in t.days : /\ m.id \in b.messages /\ b.day = m.day
                      /\ \A e \in t.days \ {b} : m.id \notin e.messages

(* Where the exporter is in the conversation under way: its messages come  *)
(* by day, each with a number of its own, and those kept for the next file *)
(* are of the day it is for.                                               *)
RoomStands ==
    /\ roomAt \in 0 .. Len(Rooms) /\ messageAt \in 0 .. Len(fetched)
    /\ IF roomAt = 0 THEN fetched = <<>> ELSE fetched \in Seq(Fetchable(roomAt))
    /\ \A j, k \in DOMAIN fetched : fetched[j].id = fetched[k].id => j = k
    /\ \A j, k \in DOMAIN fetched : j <= k => fetched[j].day <= fetched[k].day
    /\ currentDay = IF messageAt = 0 THEN 0 ELSE fetched[messageAt].day
    /\ roomAt > 0 => roomDir \in DirsOf(roomAt)
    /\ currentMessages \subseteq TakenIds
    /\ messageAt = 0 => currentMessages = {}
    /\ \A j \in 1 .. messageAt : fetched[j].id \in currentMessages => fetched[j].day = currentDay

(* What is taken of the conversations and not kept for the next file.      *)
InTheirFiles == kept \union {fetched[j] : j \in {k \in 1 .. messageAt : fetched[k].id \notin currentMessages}}

(* The tree while messages of r are taken and ids kept for the file of day: *)
(* the settled ones each in one file, of their day.                        *)
TreeFits(t, r, taken, ids, day, settled) ==
    /\ Shape(t) /\ Unfiled(t, ids)
    /\ \A b \in t.days : \A id \in b.messages : id[1] \in Nat /\ (id[1] < r \/ id \in taken)
    /\ \A i \in DOMAIN Rooms : ApartFromOthers(i) => OnlyOwn(t, i) /\ OneADay(t, i)
    /\ r > 0 /\ ApartFromOthers(r) => Before(t, r, day)
    /\ \A m \in settled : m.id[1] \in DOMAIN Rooms /\ (ApartFromOthers(m.id[1]) => InOne(t, m))

(* The files there are of the conversation are of days before.             *)
NextDay == IF messageAt = Len(fetched) /\ currentMessages = {} THEN currentDay + 1 ELSE currentDay

(* The tree fits where the exporter is.                                    *)
TreeStands ==
    TreeFits(tree, roomAt, TakenIds, currentMessages, NextDay, InTheirFiles)

(* What is indexed is at a path of its own, whole but where the index was  *)
(* written over it; and while files are exported, no more paths are taken  *)
(* than files were dealt with, so that a free one is found.                *)
Exporting == exporter \in {"idle", "files"}

FilesStand ==
    /\ fileAt \in 0 .. Len(SharedFiles)
    /\ Exporting => IsFiniteSet(DOMAIN filesDir) /\ Cardinality(DOMAIN filesDir) <= fileAt
    /\ \A e \in index : e[2] \in DOMAIN filesDir
                        /\ (e[2] # IndexPath => filesDir[e[2]] = Whole(e[1]))
    /\ \A e \in index : \A d \in index \ {e} : d[2] # e[2]
    /\ ~Exporting => filesDir[IndexPath] = Index

(* The inductive invariant of the script.                                  *)
ScriptInv ==
    /\ exporter \in {"idle", "files", "rooms", "done", "failed"}
    /\ FilesStand /\ RoomStands /\ TreeStands

-----------------------------------------------------------------------------

(* A conversation has a name and directories of it.                        *)
LEMMA RoomFacts ==
    ASSUME NEW i \in DOMAIN Rooms
    PROVE  /\ i \in Nat \ {0} /\ Rooms[i].name \in STRING \ {NoName}
           /\ Rooms[i].history \in Seq(Messages)
           /\ Dir(Rooms[i].name) \in DirsOf(i) /\ Literal(Rooms[i].name) \in DirsOf(i)
           /\ \A n : n \in NamesOf(i) => n # NoName /\ Dir(n) \in DirsOf(i)
<1> USE DEF NoName
<1> DEFINE Room == [kind : Kinds, name : STRING \ {NoName}, history : Seq(Messages)]
<1>1. i \in Nat \ {0} /\ Rooms[i].name \in STRING \ {NoName} /\ Rooms[i].history \in Seq(Messages)
  <2>1. Rooms \in Seq(Room)
    BY ScriptAssumption
  <2> HIDE DEF Room
  <2>2. i \in Nat \ {0} /\ Rooms[i] \in Room
    BY <2>1
  <2> QED BY <2>2 DEF Room
<1>2. Rooms[i].name \in NamesOf(i)
  BY <1>1 DEF NamesOf
<1>3. \A n : n \in NamesOf(i) => n # NoName
  BY <1>1 DEF NamesOf
<1> QED BY <1>1, <1>2, <1>3 DEF DirsOf

(* Directories of different names, or of the two kinds, are different.     *)
LEMMA DirsDiffer == \A n, p : (Dir(n) = Dir(p) <=> n = p) /\ (Literal(n) = Literal(p) <=> n = p) /\ Dir(n) # Literal(p)
  BY DEF Dir, Literal

(* A conversation apart from others shares no directory with them.         *)
LEMMA ApartDirs ==
    ASSUME NEW i, NEW r \in DOMAIN Rooms, ApartFromOthers(i), i # r
    PROVE  DirsOf(i) \intersect DirsOf(r) = {}
<1>1. NamesOf(i) \intersect NamesOf(r) = {}
  BY DEF ApartFromOthers
<1> QED BY <1>1, DirsDiffer DEF DirsOf

-----------------------------------------------------------------------------
(* A file is written *)

(* A file is added, or replaced, and has messages and a directory.         *)
LEMMA WriteShape ==
    ASSUME NEW t, NEW dir, NEW day \in Nat, NEW ids, Shape(t), ids # {} => dir # Dir(NoName)
    PROVE  /\ Shape(WriteMessageFile(t, dir, day, ids))
           /\ \A b \in WriteMessageFile(t, dir, day, ids).days :
                \/ b \in t.days
                \/ b = [dir |-> dir, day |-> day, messages |-> ids] /\ ids # {}
<1> DEFINE w == WriteMessageFile(t, dir, day, ids)
           new == [dir |-> dir, day |-> day, messages |-> ids]
<1>1. CASE ids = {}
  BY <1>1 DEF WriteMessageFile
<1>2. CASE ids # {}
  <2>1. w = [dirs |-> t.dirs \union {dir},
             days |-> {b \in t.days : <<b.dir, b.day>> # <<dir, day>>} \union {new}]
    BY <1>2 DEF WriteMessageFile
  <2> HIDE DEF w, new
  <2>2. w.dirs = t.dirs \union {dir}
        /\ w.days = {b \in t.days : <<b.dir, b.day>> # <<dir, day>>} \union {new}
    BY <2>1
  <2>3. new = [dir |-> new.dir, day |-> new.day, messages |-> new.messages]
        /\ new.day \in Nat /\ new.messages # {} /\ new.dir = dir
    BY <1>2 DEF new
  <2>4. ASSUME NEW b \in w.days
        PROVE  /\ b = [dir |-> b.dir, day |-> b.day, messages |-> b.messages]
               /\ b.day \in Nat /\ b.messages # {} /\ b.dir \in w.dirs
    <3> HIDE DEF new, w
    <3>1. CASE b \in t.days
      BY <2>2, <3>1 DEF Shape
    <3>2. CASE b = new
      BY <2>2, <2>3, <3>2
    <3> QED BY <2>2, <3>1, <3>2
  <2> HIDE DEF w
  <2>5. Shape(w)
    BY <1>2, <2>1, <2>2, <2>4 DEF Shape
  <2> QED BY <1>2, <2>2, <2>5 DEF w, new
<1> QED BY <1>1, <1>2

(* What of the tree is kept when a file is written.                        *)
LEMMA WriteKeeps ==
    ASSUME NEW t, NEW r \in DOMAIN Rooms, NEW dir \in DirsOf(r), NEW day \in Nat, NEW ids,
           Shape(t), \A id \in ids : id[1] = r, Unfiled(t, ids),
           NEW i, ApartFromOthers(i), OnlyOwn(t, i), OneADay(t, i),
           i = r /\ ids # {} => Before(t, i, day)
    PROVE  LET w == WriteMessageFile(t, dir, day, ids)
           IN  /\ OnlyOwn(w, i) /\ OneADay(w, i)
               /\ \A m : m.id[1] = i /\ InOne(t, m) => InOne(w, m)
<1> DEFINE w == WriteMessageFile(t, dir, day, ids)
           new == [dir |-> dir, day |-> day, messages |-> ids]
<1>1. CASE ids = {}
  BY <1>1 DEF WriteMessageFile
<1>2. CASE ids # {}
  <2>1. w.days = {b \in t.days : <<b.dir, b.day>> # <<dir, day>>} \union {new}
    BY <1>2 DEF WriteMessageFile
  <2>2. new.dir = dir /\ new.day = day /\ new.messages = ids
    OBVIOUS
  <2>3. i # r => dir \notin DirsOf(i)
    BY ApartDirs
  <2>4. \A b \in t.days : b.day \in Nat
    BY DEF Shape
  <2> HIDE DEF w, new
  <2>5. ASSUME NEW b \in t.days, b.dir \in DirsOf(i)
        PROVE  b \in w.days /\ (new.dir \in DirsOf(i) => b.day # new.day)
    <3>1. CASE i = r
      BY <1>2, <2>1, <2>2, <2>4, <2>5, <3>1 DEF Before
    <3>2. CASE i # r
      BY <2>1, <2>2, <2>3, <2>5, <3>2
    <3> QED BY <3>1, <3>2
  <2>6. OnlyOwn(w, i)
    <3>1. ASSUME NEW id \in new.messages PROVE new.dir \in DirsOf(i) <=> id[1] = i
      BY <2>2, <2>3, <3>1
    <3> QED BY <2>1, <3>1 DEF OnlyOwn
  <2>7. OneADay(w, i)
    BY <2>1, <2>5 DEF OneADay
  <2>8. ASSUME NEW m, m.id[1] = i, InOne(t, m) PROVE InOne(w, m)
    <3>1. PICK b \in t.days : /\ m.id \in b.messages /\ b.day = m.day
                              /\ \A e \in t.days \ {b} : m.id \notin e.messages
      BY <2>8 DEF InOne
    <3>2. b.dir \in DirsOf(i)
      BY <2>8, <3>1 DEF OnlyOwn
    <3>3. m.id \notin new.messages
      BY <2>2, <3>1 DEF Unfiled
    <3> QED BY <2>1, <2>5, <3>1, <3>2, <3>3 DEF InOne
  <2> QED BY <2>6, <2>7, <2>8 DEF w
<1> QED BY <1>1, <1>2

(* What is written is in the new file alone.                               *)
LEMMA WriteHas ==
    ASSUME NEW t, NEW dir, NEW day, NEW ids, Unfiled(t, ids), NEW m, m.id \in ids, m.day = day
    PROVE  InOne(WriteMessageFile(t, dir, day, ids), m)
<1> DEFINE w == WriteMessageFile(t, dir, day, ids)
           new == [dir |-> dir, day |-> day, messages |-> ids]
<1>1. w.days = {b \in t.days : <<b.dir, b.day>> # <<dir, day>>} \union {new}
  BY DEF WriteMessageFile
<1>2. new.day = day /\ new.messages = ids
  OBVIOUS
<1> HIDE DEF w, new
<1>3. \A e \in t.days : m.id \notin e.messages
  BY DEF Unfiled
<1>4. InOne(w, m)
  BY <1>1, <1>2, <1>3 DEF InOne
<1> QED BY <1>4 DEF w

-----------------------------------------------------------------------------
(* Files are moved *)

(* u is t with some of old's files under new instead.                      *)
Movable(t, u, old, new, carried) ==
    /\ carried \subseteq FilesOf(t, old)
    /\ u.days = (t.days \ carried) \union {[b EXCEPT !.dir = new] : b \in carried}

(* A file keeps its day and its messages where it goes.                    *)
LEMMA MovedFile ==
    ASSUME NEW b, b = [dir |-> b.dir, day |-> b.day, messages |-> b.messages], NEW new
    PROVE  LET c == [b EXCEPT !.dir = new]
           IN  /\ c = [dir |-> c.dir, day |-> c.day, messages |-> c.messages]
               /\ c.dir = new /\ c.day = b.day /\ c.messages = b.messages
  OBVIOUS

(* What the files after a move were before it.                             *)
LEMMA MovedOnes ==
    ASSUME NEW t, Shape(t), NEW u, NEW old, NEW new, NEW carried, Movable(t, u, old, new, carried)
    PROVE  /\ \A c \in u.days :
                \/ c \in t.days /\ c \notin carried
                \/ \E b \in carried : /\ b \in t.days /\ b.dir = old /\ c.dir = new
                                    /\ c.day = b.day /\ c.messages = b.messages
                                    /\ c = [dir |-> c.dir, day |-> c.day, messages |-> c.messages]
           /\ \A b \in t.days : \/ b \notin carried /\ b \in u.days
                                \/ b \in carried /\ \E c \in u.days : c.day = b.day /\ c.messages = b.messages
<1>1. \A b \in carried : b \in t.days /\ b.dir = old
  BY DEF Movable, FilesOf
<1>2. \A b \in t.days : b = [dir |-> b.dir, day |-> b.day, messages |-> b.messages]
  BY DEF Shape
<1>3. \A b \in carried : LET c == [b EXCEPT !.dir = new]
           IN  /\ c = [dir |-> c.dir, day |-> c.day, messages |-> c.messages]
               /\ c.dir = new /\ c.day = b.day /\ c.messages = b.messages
  BY <1>1, <1>2, MovedFile
<1>4. ASSUME NEW c \in u.days
      PROVE  \/ c \in t.days /\ c \notin carried
             \/ \E b \in carried : /\ b \in t.days /\ b.dir = old /\ c.dir = new
                                 /\ c.day = b.day /\ c.messages = b.messages
                                 /\ c = [dir |-> c.dir, day |-> c.day, messages |-> c.messages]
  <2>1. CASE c \in t.days \ carried
    BY <2>1
  <2>2. ASSUME NEW b \in carried, c = [b EXCEPT !.dir = new]
        PROVE  /\ b \in t.days /\ b.dir = old /\ c.dir = new
               /\ c.day = b.day /\ c.messages = b.messages
               /\ c = [dir |-> c.dir, day |-> c.day, messages |-> c.messages]
    BY <1>1, <1>3, <2>2
  <2> QED BY <2>1, <2>2 DEF Movable
<1>5. ASSUME NEW b \in carried
      PROVE  \E c \in u.days : c.day = b.day /\ c.messages = b.messages
  <2>1. PICK c : c = [b EXCEPT !.dir = new]
    OBVIOUS
  <2>2. c \in u.days
    BY <2>1 DEF Movable
  <2>3. c.day = b.day /\ c.messages = b.messages
    BY <1>3, <2>1
  <2> QED BY <2>2, <2>3
<1> QED BY <1>4, <1>5 DEF Movable

(* A message that was in one file is in one after a move.                  *)
LEMMA MoveKeepsIn ==
    ASSUME NEW t, Shape(t), NEW u, NEW old, NEW new, NEW carried, Movable(t, u, old, new, carried),
           NEW m, InOne(t, m)
    PROVE  InOne(u, m)
<1>1. PICK b \in t.days : /\ m.id \in b.messages /\ b.day = m.day
                          /\ \A e \in t.days \ {b} : m.id \notin e.messages
  BY DEF InOne
<1>2. CASE b \notin carried
  <2>1. b \in u.days
    BY <1>2, MovedOnes
  <2>2. ASSUME NEW e \in u.days \ {b} PROVE m.id \notin e.messages
    BY <1>1, <1>2, MovedOnes
  <2> QED BY <1>1, <2>1, <2>2 DEF InOne
<1>3. CASE b \in carried
  <2> DEFINE c == [b EXCEPT !.dir = new]
  <2>1. c \in u.days
    BY <1>3 DEF Movable
  <2>2. c.day = b.day /\ c.messages = b.messages
    BY MovedFile DEF Shape
  <2>3. ASSUME NEW e \in u.days \ {c} PROVE m.id \notin e.messages
    <3>1. CASE e \in t.days /\ e \notin carried
      BY <1>1, <1>3, <3>1
    <3>2. CASE \E h \in carried : e = [h EXCEPT !.dir = new]
      <4>1. PICK h \in carried : e = [h EXCEPT !.dir = new]
        BY <3>2
      <4>2. h # b /\ h \in t.days
        BY <2>3, <4>1 DEF Movable, FilesOf
      <4>3. e.messages = h.messages
        BY <4>1, <4>2, MovedFile DEF Shape
      <4> QED BY <1>1, <4>2, <4>3
    <3> QED BY <3>1, <3>2 DEF Movable
  <2> HIDE DEF c
  <2> QED BY <1>1, <2>1, <2>2, <2>3 DEF InOne
<1> QED BY <1>2, <1>3

(* A move within a conversation's directories disturbs no other one.       *)
LEMMA MoveKeeps ==
    ASSUME NEW t, Shape(t), NEW u, NEW old, NEW new, NEW carried, Movable(t, u, old, new, carried),
           NEW r \in DOMAIN Rooms, old \in DirsOf(r), new \in DirsOf(r),
           NEW i, ApartFromOthers(i), OnlyOwn(t, i), OneADay(t, i)
    PROVE  /\ OnlyOwn(u, i) /\ OneADay(u, i)
           /\ \A day : Before(t, i, day) => Before(u, i, day)
<1>1. i # r => old \notin DirsOf(i) /\ new \notin DirsOf(i)
  BY ApartDirs
<1>2. old \in DirsOf(i) <=> new \in DirsOf(i)
  BY <1>1
<1>3. OnlyOwn(u, i)
  <2>1. ASSUME NEW c \in u.days, NEW id \in c.messages PROVE c.dir \in DirsOf(i) <=> id[1] = i
    BY <1>2, MovedOnes DEF OnlyOwn
  <2> QED BY <2>1 DEF OnlyOwn
<1>4. ASSUME NEW day, Before(t, i, day) PROVE Before(u, i, day)
  BY <1>2, <1>4, MovedOnes DEF Before
<1>5. OneADay(u, i)
  <2>1. ASSUME NEW c \in u.days, NEW e \in u.days, c.dir \in DirsOf(i), e.dir \in DirsOf(i), c.day = e.day
        PROVE  c = e
    <3>1. PICK b \in t.days : \/ b = c /\ b \notin carried
                              \/ b \in carried /\ c = [b EXCEPT !.dir = new]
      BY DEF Movable, FilesOf
    <3>2. PICK h \in t.days : \/ h = e /\ h \notin carried
                              \/ h \in carried /\ e = [h EXCEPT !.dir = new]
      BY DEF Movable, FilesOf
    <3>3. b.dir \in DirsOf(i) /\ b.day = c.day
      <4>1. CASE b = c
        BY <2>1, <4>1
      <4>2. CASE b \in carried /\ c = [b EXCEPT !.dir = new]
        <5>1. c.dir = new /\ c.day = b.day /\ b.dir = old
          BY <4>2, MovedFile DEF Shape, Movable, FilesOf
        <5> QED BY <1>2, <2>1, <5>1
      <4> QED BY <3>1, <4>1, <4>2
    <3>4. h.dir \in DirsOf(i) /\ h.day = e.day
      <4>1. CASE h = e
        BY <2>1, <4>1
      <4>2. CASE h \in carried /\ e = [h EXCEPT !.dir = new]
        <5>1. e.dir = new /\ e.day = h.day /\ h.dir = old
          BY <4>2, MovedFile DEF Shape, Movable, FilesOf
        <5> QED BY <1>2, <2>1, <5>1
      <4> QED BY <3>2, <4>1, <4>2
    <3>5. b = h
      BY <2>1, <3>3, <3>4 DEF OneADay
    <3> QED BY <3>1, <3>2, <3>5
  <2> QED BY <2>1 DEF OneADay
<1> QED BY <1>3, <1>4, <1>5

-----------------------------------------------------------------------------
(* A file of the messages kept for it settles them.                        *)
LEMMA WriteFits ==
    ASSUME NEW t, NEW r \in DOMAIN Rooms, NEW taken, NEW ids, NEW day \in Nat, NEW settled,
           TreeFits(t, r, taken, ids, day, settled),
           NEW dir \in DirsOf(r), \A id \in ids : id[1] = r /\ id \in taken,
           NEW newly, \A m \in newly : m.id \in ids /\ m.day = day,
           NEW later \in Nat, day < later
    PROVE  TreeFits(WriteMessageFile(t, dir, day, ids), r, taken, {}, later, settled \union newly)
<1> DEFINE w == WriteMessageFile(t, dir, day, ids)
<1>1. dir # Dir(NoName) /\ r \in Nat \ {0}
  <2>1. \A n : n \in NamesOf(r) => n # NoName
    BY RoomFacts
  <2> QED BY <2>1, RoomFacts, DirsDiffer DEF DirsOf
<1>2. Shape(t) /\ Unfiled(t, ids)
  BY DEF TreeFits
<1>3. /\ Shape(w)
      /\ \A b \in w.days : \/ b \in t.days
                           \/ b = [dir |-> dir, day |-> day, messages |-> ids] /\ ids # {}
  BY <1>1, <1>2, WriteShape
<1>4. ASSUME NEW i \in DOMAIN Rooms, ApartFromOthers(i)
      PROVE  /\ OnlyOwn(w, i) /\ OneADay(w, i)
             /\ \A m : m.id[1] = i /\ InOne(t, m) => InOne(w, m)
  <2>1. OnlyOwn(t, i) /\ OneADay(t, i)
    BY <1>4 DEF TreeFits
  <2>2. ASSUME i = r, ids # {} PROVE Before(t, i, day)
    <3>1. ApartFromOthers(r)
      BY <1>4, <2>2
    <3>2. r > 0
      BY <1>1
    <3> QED BY <2>2, <3>1, <3>2 DEF TreeFits
  <2> QED BY <1>2, <1>4, <2>1, <2>2, WriteKeeps
<1>5. ASSUME NEW m \in newly PROVE m.id[1] \in DOMAIN Rooms /\ InOne(w, m)
  <2>1. m.id \in ids /\ m.day = day
    OBVIOUS
  <2> QED BY <1>2, <2>1, WriteHas
<1>6. ASSUME NEW m \in settled PROVE m.id[1] \in DOMAIN Rooms /\ (ApartFromOthers(m.id[1]) => InOne(w, m))
  <2>1. m.id[1] \in DOMAIN Rooms /\ (ApartFromOthers(m.id[1]) => InOne(t, m))
    BY DEF TreeFits
  <2> QED BY <1>4, <2>1
<1>7. ASSUME NEW b \in w.days, NEW id \in b.messages
      PROVE  id[1] \in Nat /\ (id[1] < r \/ id \in taken)
  <2>1. CASE b \in t.days
    BY <2>1 DEF TreeFits
  <2>2. CASE b = [dir |-> dir, day |-> day, messages |-> ids]
    <3>1. id \in ids
      BY <2>2
    <3> QED BY <1>1, <3>1
  <2> QED BY <1>3, <2>1, <2>2
<1>8. ASSUME ApartFromOthers(r) PROVE Before(w, r, later)
  <2>1. ASSUME NEW b \in w.days, b.dir \in DirsOf(r) PROVE b.day < later
    <3>1. CASE b \in t.days
      <4>1. b.day < day
        BY <1>1, <1>8, <2>1, <3>1 DEF TreeFits, Before
      <4>2. b.day \in Nat
        BY <1>2, <3>1 DEF Shape
      <4> QED BY <4>1, <4>2
    <3>2. CASE b = [dir |-> dir, day |-> day, messages |-> ids]
      BY <3>2
    <3> QED BY <1>3, <3>1, <3>2
  <2> QED BY <2>1 DEF Before
<1>9. Unfiled(w, {})
  BY DEF Unfiled
<1> HIDE DEF w
<1>10. TreeFits(w, r, taken, {}, later, settled \union newly)
  BY <1>3, <1>4, <1>5, <1>6, <1>7, <1>8, <1>9 DEF TreeFits
<1> QED BY <1>10 DEF w

(* Files moved between directories of a conversation.                      *)
LEMMA MoveFits ==
    ASSUME NEW t, NEW r \in DOMAIN Rooms, NEW taken, NEW ids, NEW day, NEW settled,
           TreeFits(t, r, taken, ids, day, settled),
           NEW u, Shape(u), NEW old \in DirsOf(r), NEW new \in DirsOf(r), NEW carried,
           Movable(t, u, old, new, carried)
    PROVE  TreeFits(u, r, taken, ids, day, settled)
<1>1. Shape(t)
  BY DEF TreeFits
<1>2. ASSUME NEW i \in DOMAIN Rooms, ApartFromOthers(i)
      PROVE  OnlyOwn(u, i) /\ OneADay(u, i) /\ (Before(t, i, day) => Before(u, i, day))
  <2>1. OnlyOwn(t, i) /\ OneADay(t, i)
    BY <1>2 DEF TreeFits
  <2> QED BY <1>1, <1>2, <2>1, MoveKeeps
<1>3. ASSUME NEW m \in settled PROVE m.id[1] \in DOMAIN Rooms /\ (ApartFromOthers(m.id[1]) => InOne(u, m))
  <2>1. m.id[1] \in DOMAIN Rooms /\ (ApartFromOthers(m.id[1]) => InOne(t, m))
    BY DEF TreeFits
  <2> QED BY <1>1, <2>1, MoveKeepsIn
<1>4. \A c \in u.days : \E b \in t.days : b.messages = c.messages
  BY <1>1, MovedOnes
<1>5. Unfiled(u, ids)
  BY <1>4 DEF TreeFits, Unfiled
<1>6. ASSUME NEW c \in u.days, NEW id \in c.messages
      PROVE  id[1] \in Nat /\ (id[1] < r \/ id \in taken)
  <2>1. PICK b \in t.days : b.messages = c.messages
    BY <1>4
  <2> QED BY <2>1 DEF TreeFits
<1>7. r > 0 /\ ApartFromOthers(r) => Before(u, r, day)
  BY <1>2 DEF TreeFits
<1> QED BY <1>2, <1>3, <1>5, <1>6, <1>7 DEF TreeFits

(* A message of the conversation that was not taken before is taken.       *)
LEMMA TakeFits ==
    ASSUME NEW t, NEW r \in DOMAIN Rooms, NEW taken, NEW ids, NEW day, NEW settled,
           TreeFits(t, r, taken, ids, day, settled),
           NEW id, id \notin taken, id[1] = r
    PROVE  TreeFits(t, r, taken \union {id}, ids \union {id}, day, settled)
<1>1. r \in Nat
  BY RoomFacts
<1>2. \A b \in t.days : id \notin b.messages
  BY <1>1 DEF TreeFits
<1>3. Unfiled(t, ids \union {id})
  BY <1>2 DEF TreeFits, Unfiled
<1> QED BY <1>3 DEF TreeFits

(* The next conversation has nothing yet.                                  *)
LEMMA StartFits ==
    ASSUME NEW t, NEW r \in Nat, NEW taken, NEW day, NEW settled,
           TreeFits(t, r, taken, {}, day, settled), \A id \in taken : id[1] = r,
           NEW i \in DOMAIN Rooms, r < i, NEW next, NEW dirs, Dir(NoName) \notin dirs
    PROVE  TreeFits([t EXCEPT !.dirs = @ \union dirs], i, {}, {}, next, settled)
<1> DEFINE u == [t EXCEPT !.dirs = @ \union dirs]
<1>1. Shape(t) /\ i \in Nat
  BY RoomFacts DEF TreeFits
<1>2. u = [dirs |-> t.dirs \union dirs, days |-> t.days] /\ u.dirs = t.dirs \union dirs /\ u.days = t.days
  <2>1. t = [dirs |-> t.dirs, days |-> t.days]
    BY <1>1 DEF Shape
  <2>2. u = [dirs |-> t.dirs \union dirs, days |-> t.days]
    BY <2>1
  <2> QED BY <2>2
<1> HIDE DEF u
<1>3. Shape(u) /\ Unfiled(u, {})
  BY <1>1, <1>2 DEF Shape, Unfiled
<1>4. ASSUME NEW b \in u.days, NEW id \in b.messages PROVE id[1] \in Nat /\ id[1] < i
  <2>1. id[1] \in Nat /\ (id[1] < r \/ id \in taken)
    BY <1>2 DEF TreeFits
  <2> QED BY <1>1, <2>1
<1>5. \A j \in DOMAIN Rooms : ApartFromOthers(j) => OnlyOwn(u, j) /\ OneADay(u, j)
  BY <1>2 DEF TreeFits, OnlyOwn, OneADay
<1>6. ASSUME ApartFromOthers(i) PROVE Before(u, i, next)
  <2>1. ASSUME NEW b \in u.days PROVE b.dir \notin DirsOf(i)
    <3>1. PICK id \in b.messages : TRUE
      BY <1>3 DEF Shape
    <3>2. id[1] \in Nat /\ id[1] < i
      BY <1>4
    <3>3. id[1] # i
      BY <1>1, <3>2
    <3> QED BY <1>5, <1>6, <3>1, <3>3 DEF OnlyOwn
  <2> QED BY <2>1 DEF Before
<1>7. \A m \in settled : m.id[1] \in DOMAIN Rooms /\ (ApartFromOthers(m.id[1]) => InOne(u, m))
  BY <1>2 DEF TreeFits, InOne
<1>8. TreeFits(u, i, {}, {}, next, settled)
  BY <1>3, <1>4, <1>5, <1>6, <1>7 DEF TreeFits
<1> QED BY <1>8 DEF u

-----------------------------------------------------------------------------
(* Files of the workspace *)

(* There are more numbers than paths taken.                                *)
LEMMA FreePathIsFree ==
    ASSUME NEW titled, IsFiniteSet(DOMAIN filesDir),
           Cardinality(DOMAIN filesDir) <= Len(SharedFiles), Len(SharedFiles) \in Nat
    PROVE  FreePath(titled) \notin DOMAIN filesDir
<1> DEFINE N == Len(SharedFiles)
           free == {n \in 0 .. N : <<titled, n>> \notin DOMAIN filesDir}
           below(n) == {k \in free : k < n}
           all == {below(n) : n \in free}
<1>1. free # {}
  <2> SUFFICES ASSUME free = {} PROVE FALSE
    OBVIOUS
  <2> DEFINE path == [n \in 0 .. N |-> <<titled, n>>]
  <2>1. path \in [0 .. N -> DOMAIN filesDir]
    OBVIOUS
  <2>2. IsFiniteSet(0 .. N) /\ Cardinality(0 .. N) = N + 1
    BY FS_Interval
  <2>3. Cardinality(DOMAIN filesDir) \in Nat
    BY FS_CardinalityType
  <2>4. Cardinality(DOMAIN filesDir) < Cardinality(0 .. N)
    BY <2>2, <2>3
  <2>5. \E x, y \in 0 .. N : x # y /\ path[x] = path[y]
    <3> HIDE DEF path
    <3> QED BY <2>1, <2>2, <2>4, FS_PigeonHole
  <2> QED BY <2>5
<1>2. all \subseteq FiniteSubsetsOf(0 .. N) /\ all # {}
  <2>1. IsFiniteSet(0 .. N)
    BY FS_Interval
  <2>2. ASSUME NEW n \in free PROVE below(n) \in FiniteSubsetsOf(0 .. N)
    BY <2>1, FS_Subset DEF FiniteSubsetsOf
  <2> QED BY <1>1, <2>2
<1>3. PICK A \in all : \A B \in all : <<B, A>> \notin StrictSubsetOrdering(0 .. N)
  <2> HIDE DEF all
  <2> QED BY <1>2, WFMin, FS_StrictSubsetOrderingWellFounded
<1>4. PICK n \in free : A = below(n)
  BY <1>3
<1>5. ASSUME NEW k \in free PROVE n <= k
  <2> SUFFICES ASSUME k < n PROVE FALSE
    OBVIOUS
  <2>1. below(k) \subseteq below(n) /\ k \in below(n) /\ k \notin below(k)
    OBVIOUS
  <2>2. below(k) \subseteq 0 .. N /\ below(n) \subseteq 0 .. N /\ below(k) \in all
    OBVIOUS
  <2>3. <<below(k), below(n)>> \in StrictSubsetOrdering(0 .. N)
    <3> HIDE DEF below
    <3> QED BY <2>1, <2>2 DEF StrictSubsetOrdering
  <2> QED BY <1>3, <1>4, <2>2, <2>3
<1> DEFINE least == CHOOSE m \in free : \A k \in free : m <= k
<1>6. least \in free
  <2> HIDE DEF free
  <2> QED BY <1>5
<1>7. FreePath(titled) = <<titled, least>>
  BY DEF FreePath
<1> HIDE DEF least
<1> QED BY <1>6, <1>7

(* A file gets a path that nothing has.                                    *)
LEMMA ExportFileStands ==
    ASSUME FilesStand, ExportFile
    PROVE  FilesStand'
<1> DEFINE i == fileAt + 1
           path == FreePath(SharedFiles[i])
<1>1. /\ fileAt \in Nat /\ Len(SharedFiles) \in Nat /\ i <= Len(SharedFiles) /\ fileAt' = i
      /\ IsFiniteSet(DOMAIN filesDir) /\ Cardinality(DOMAIN filesDir) <= fileAt
      /\ \A e \in index : e[2] \in DOMAIN filesDir
                          /\ (e[2] # IndexPath => filesDir[e[2]] = Whole(e[1]))
      /\ \A e \in index : \A d \in index \ {e} : d[2] # e[2]
      /\ Exporting /\ Exporting'
  <2>1. SharedFiles \in Seq(STRING)
    BY ScriptAssumption
  <2>2. Len(SharedFiles) \in Nat
    BY <2>1
  <2>3. Exporting /\ Exporting'
    BY DEF ExportFile, Exporting
  <2> QED BY <2>2, <2>3 DEF FilesStand, ExportFile
<1>2. Cardinality(DOMAIN filesDir) \in Nat
  BY <1>1, FS_CardinalityType
<1>3. path \notin DOMAIN filesDir
  <2>1. Cardinality(DOMAIN filesDir) <= Len(SharedFiles)
    BY <1>1, <1>2
  <2> QED BY <1>1, <2>1, FreePathIsFree
<1>4. fileAt' \in 0 .. Len(SharedFiles)
  BY <1>1
<1>5. ASSUME NEW content, PutFile(path, content)
      PROVE  /\ IsFiniteSet(DOMAIN filesDir') /\ Cardinality(DOMAIN filesDir') <= fileAt'
             /\ path \in DOMAIN filesDir' /\ filesDir'[path] = content
             /\ \A e \in index : e[2] \in DOMAIN filesDir'
                                 /\ (e[2] # IndexPath => filesDir'[e[2]] = Whole(e[1]))
  <2> HIDE DEF path
  <2>1. filesDir' = [p \in DOMAIN filesDir \union {path} |-> IF p = path THEN content ELSE filesDir[p]]
    BY <1>5 DEF PutFile
  <2>2. DOMAIN filesDir' = DOMAIN filesDir \union {path}
    BY <2>1
  <2>3. IsFiniteSet(DOMAIN filesDir') /\ Cardinality(DOMAIN filesDir') = Cardinality(DOMAIN filesDir) + 1
    BY <1>1, <1>3, <2>2, FS_AddElement
  <2>4. Cardinality(DOMAIN filesDir') <= fileAt'
    BY <1>1, <1>2, <2>3
  <2> QED BY <1>1, <1>3, <2>1, <2>3, <2>4
<1>6. CASE PutFile(path, Whole(i)) /\ index' = index \union {<<i, path>>}
  <2> HIDE DEF path, i
  <2>1. ASSUME NEW e \in index'
        PROVE  e[2] \in DOMAIN filesDir' /\ (e[2] # IndexPath => filesDir'[e[2]] = Whole(e[1]))
    <3>1. CASE e \in index
      BY <1>5, <1>6, <3>1
    <3>2. CASE e = <<i, path>>
      <4>1. e[1] = i /\ e[2] = path
        BY <3>2
      <4> QED BY <1>5, <1>6, <4>1
    <3> QED BY <1>6, <3>1, <3>2
  <2>2. ASSUME NEW e \in index', NEW d \in index' \ {e} PROVE d[2] # e[2]
    <3>1. \A x : x = <<i, path>> => x[2] = path
      OBVIOUS
    <3>2. \A x \in index : x[2] # path
      BY <1>1, <1>3
    <3> QED BY <1>1, <1>6, <3>1, <3>2
  <2> QED BY <1>1, <1>4, <1>5, <1>6, <2>1, <2>2 DEF FilesStand
<1>7. CASE PutFile(path, [Whole(i) EXCEPT !.whole = FALSE]) /\ UNCHANGED index
  <2> HIDE DEF path, i
  <2> QED BY <1>1, <1>4, <1>5, <1>7 DEF FilesStand
<1>8. CASE UNCHANGED <<filesDir, index>>
  BY <1>1, <1>2, <1>4, <1>8 DEF FilesStand
<1> QED BY <1>6, <1>7, <1>8 DEF ExportFile

(* The index is written, over a file of its name if there is one.          *)
LEMMA EndFilesStands ==
    ASSUME FilesStand, EndFiles
    PROVE  FilesStand'
<1>1. /\ filesDir' = [p \in DOMAIN filesDir \union {IndexPath} |->
                         IF p = IndexPath THEN Index ELSE filesDir[p]]
      /\ UNCHANGED <<fileAt, index>> /\ ~Exporting'
  BY DEF EndFiles, PutFile, Exporting
<1>2. filesDir'[IndexPath] = Index
  BY <1>1
<1>3. ASSUME NEW e \in index
      PROVE  e[2] \in DOMAIN filesDir' /\ (e[2] # IndexPath => filesDir'[e[2]] = Whole(e[1]))
  <2>1. e[2] \in DOMAIN filesDir /\ (e[2] # IndexPath => filesDir[e[2]] = Whole(e[1]))
    BY DEF FilesStand
  <2> QED BY <1>1, <2>1
<1> QED BY <1>1, <1>2, <1>3 DEF FilesStand

-----------------------------------------------------------------------------
(* Conversations *)

RoomParts == <<roomAt, messageVars, tree, kept>>

(* What has nothing to do with conversations leaves them as they are.      *)
LEMMA RoomUntouched ==
    ASSUME RoomStands, TreeStands, UNCHANGED RoomParts
    PROVE  RoomStands' /\ TreeStands'
BY DEF RoomParts, messageVars, RoomStands, TreeStands, TakenIds, InTheirFiles, NextDay

(* A rename is from a name of the conversation to another of it.           *)
LEMMA HistoryNames ==
    ASSUME NEW i \in DOMAIN Rooms, NEW j \in DOMAIN Rooms[i].history
    PROVE  /\ Rooms[i].history[j].from \in NamesOf(i) \union {NoName}
           /\ Rooms[i].history[j].to \in NamesOf(i) \union {NoName}
<1> DEFINE said == {Rooms[i].history[l] : l \in DOMAIN Rooms[i].history}
           named == {{m.from, m.to} : m \in said}
<1>1. Rooms[i].history[j] \in said
  OBVIOUS
<1>2. {Rooms[i].history[j].from, Rooms[i].history[j].to} \in named
  BY <1>1
<1>3. NamesOf(i) = ({Rooms[i].name} \union UNION named) \ {NoName}
  BY DEF NamesOf, NoName
<1> HIDE DEF named
<1> QED BY <1>2, <1>3

(* What is fetched of a conversation.                                      *)
LEMMA HistoryStands ==
    ASSUME NEW i \in DOMAIN Rooms, NEW k \in 0 .. Len(Rooms[i].history)
    PROVE  LET h == Rooms[i].history
               s == [j \in 1 .. Len(h) - k |-> [h[k + j] EXCEPT !.id = <<i, k + j>>]]
           IN  /\ s \in Seq(Fetchable(i)) /\ Len(s) \in Nat
               /\ \A j, l \in DOMAIN s : s[j].id = s[l].id => j = l
               /\ \A j, l \in DOMAIN s : j <= l => s[j].day <= s[l].day
<1> DEFINE h == Rooms[i].history
           s == [j \in 1 .. Len(h) - k |-> [h[k + j] EXCEPT !.id = <<i, k + j>>]]
<1>1. h \in Seq(Messages) /\ Len(h) \in Nat /\ DOMAIN h = 1 .. Len(h) /\ k \in Nat /\ k <= Len(h)
  BY RoomFacts
<1>2. ASSUME NEW j \in 1 .. Len(h) - k
      PROVE  s[j] \in Fetchable(i) /\ s[j].id = <<i, k + j>> /\ s[j].day = h[k + j].day
  <2>1. k + j \in DOMAIN h /\ k + j \in Nat
    BY <1>1
  <2>2. h[k + j] \in Messages
    BY <1>1, <2>1
  <2>3. h[k + j].from \in NamesOf(i) \union {NoName} /\ h[k + j].to \in NamesOf(i) \union {NoName}
    BY <2>1, HistoryNames
  <2>4. h[k + j] = [id |-> h[k + j].id, day |-> h[k + j].day, from |-> h[k + j].from, to |-> h[k + j].to]
        /\ h[k + j].day \in Nat \ {0}
    BY <2>2 DEF Messages
  <2>5. s[j] = [id |-> <<i, k + j>>, day |-> h[k + j].day, from |-> h[k + j].from, to |-> h[k + j].to]
    <3> HIDE DEF h
    <3> QED BY <2>4
  <2> HIDE DEF s, h
  <2> QED BY <2>1, <2>3, <2>4, <2>5 DEF Fetchable
<1>3. DOMAIN s = 1 .. Len(h) - k /\ Len(h) - k \in Nat
  BY <1>1
<1>4. \A j, l \in DOMAIN h : j <= l => h[j].day <= h[l].day
  BY ScriptAssumption
<1>5. s \in Seq(Fetchable(i)) /\ Len(s) \in Nat
  <2>1. s \in [1 .. Len(h) - k -> Fetchable(i)]
    BY <1>2
  <2> HIDE DEF s, h
  <2> QED BY <1>3, <2>1
<1>6. ASSUME NEW j \in DOMAIN s, NEW l \in DOMAIN s
      PROVE  (s[j].id = s[l].id => j = l) /\ (j <= l => s[j].day <= s[l].day)
  <2>1. /\ s[j].id = <<i, k + j>> /\ s[l].id = <<i, k + l>>
        /\ s[j].day = h[k + j].day /\ s[l].day = h[k + l].day
    BY <1>2, <1>3
  <2>2. k + j \in DOMAIN h /\ k + l \in DOMAIN h /\ (j <= l => k + j <= k + l) /\ j \in Nat /\ l \in Nat
    BY <1>1, <1>3
  <2> HIDE DEF s, h
  <2>3. s[j].id = s[l].id => j = l
    BY <1>1, <2>1, <2>2
  <2> QED BY <1>4, <2>1, <2>2, <2>3
<1> QED BY <1>5, <1>6

(* What fits fits for fewer settled messages.                              *)
LEMMA FewerSettled ==
    ASSUME NEW t, NEW r, NEW taken, NEW ids, NEW day, NEW settled, NEW fewer, fewer \subseteq settled,
           TreeFits(t, r, taken, ids, day, settled)
    PROVE  TreeFits(t, r, taken, ids, day, fewer)
BY DEF TreeFits

(* Numbers and days of what was fetched.                                   *)
LEMMA FetchedFacts ==
    ASSUME RoomStands
    PROVE  /\ Len(fetched) \in Nat /\ DOMAIN fetched = 1 .. Len(fetched)
           /\ roomAt \in Nat /\ (roomAt # 0 => roomAt \in DOMAIN Rooms) /\ (DOMAIN fetched # {} => roomAt # 0)
           /\ messageAt \in Nat /\ messageAt <= Len(fetched) /\ currentDay \in Nat
           /\ \A j \in DOMAIN fetched :
                /\ fetched[j] \in Fetchable(roomAt) /\ fetched[j].id[1] = roomAt
                /\ fetched[j].day \in Nat \ {0}
           /\ \A id \in TakenIds : id[1] = roomAt
<1> DEFINE Room == [kind : Kinds, name : STRING \ {""}, history : Seq(Messages)]
<1>1. Rooms \in Seq(Room)
  BY ScriptAssumption
<1> HIDE DEF Room
<1>2. Len(Rooms) \in Nat /\ DOMAIN Rooms = 1 .. Len(Rooms)
  BY <1>1
<1>3. roomAt \in Nat /\ (roomAt # 0 => roomAt \in DOMAIN Rooms)
  BY <1>2 DEF RoomStands
<1>4. Len(fetched) \in Nat /\ DOMAIN fetched = 1 .. Len(fetched) /\ (DOMAIN fetched # {} => roomAt # 0)
  <2>1. CASE roomAt = 0
    BY <2>1 DEF RoomStands
  <2>2. CASE roomAt # 0
    BY <2>2 DEF RoomStands
  <2> QED BY <2>1, <2>2
<1>5. ASSUME NEW j \in DOMAIN fetched
      PROVE  /\ fetched[j] \in Fetchable(roomAt) /\ fetched[j].id[1] = roomAt
             /\ fetched[j].day \in Nat \ {0}
  <2>1. fetched \in Seq(Fetchable(roomAt))
    BY <1>4, <1>5 DEF RoomStands
  <2>2. fetched[j] \in Fetchable(roomAt)
    <3> HIDE DEF Fetchable
    <3> QED BY <2>1
  <2>3. fetched[j].id \in {roomAt} \X Nat /\ fetched[j].day \in Nat \ {0}
    BY <2>2 DEF Fetchable
  <2> QED BY <2>2, <2>3
<1>6. messageAt \in Nat /\ messageAt <= Len(fetched)
  BY <1>4 DEF RoomStands
<1>7. currentDay \in Nat
  BY <1>4, <1>5, <1>6 DEF RoomStands
<1>8. ASSUME NEW id \in TakenIds PROVE id[1] = roomAt
  <2>1. PICK j \in 1 .. messageAt : id = fetched[j].id
    BY DEF TakenIds
  <2> QED BY <1>4, <1>5, <1>6, <2>1
<1> QED BY <1>3, <1>4, <1>5, <1>6, <1>7, <1>8

(* The next conversation is fetched.                                       *)
LEMMA StartRoomStands ==
    ASSUME RoomStands, TreeStands, StartRoom
    PROVE  RoomStands' /\ TreeStands'
<1>1. PICK i \in NextRoom :
        /\ roomAt' = i
        /\ \E k \in 0 .. Len(Rooms[i].history) :
             fetched' = [j \in 1 .. Len(Rooms[i].history) - k |->
                            [Rooms[i].history[k + j] EXCEPT !.id = <<i, k + j>>]]
        /\ roomDir' = IF Rooms[i].kind = "im" THEN Dir(Rooms[i].name) ELSE Literal(Rooms[i].name)
        /\ tree' = [tree EXCEPT !.dirs = @ \union {Dir(Rooms[i].name)} \union DummyChannel(i)]
  BY DEF StartRoom
<1>2. PICK k \in 0 .. Len(Rooms[i].history) :
        fetched' = [j \in 1 .. Len(Rooms[i].history) - k |->
                       [Rooms[i].history[k + j] EXCEPT !.id = <<i, k + j>>]]
  BY <1>1
<1>3. /\ messageAt' = 0 /\ currentDay' = 0 /\ currentMessages = {} /\ currentMessages' = {} /\ kept' = kept
      /\ messageAt = Len(fetched)
  BY DEF StartRoom
<1>4. i \in DOMAIN Rooms /\ i \in Nat \ {0} /\ roomAt \in Nat /\ roomAt < i /\ i \in 0 .. Len(Rooms)
  <2> DEFINE Room == [kind : Kinds, name : STRING \ {""}, history : Seq(Messages)]
  <2>1. Rooms \in Seq(Room)
    BY ScriptAssumption
  <2> HIDE DEF Room
  <2>2. Len(Rooms) \in Nat /\ DOMAIN Rooms = 1 .. Len(Rooms)
    BY <2>1
  <2>3. i \in roomAt + 1 .. Len(Rooms) /\ roomAt \in Nat
    BY FetchedFacts DEF NextRoom
  <2> QED BY <2>2, <2>3
<1>5. /\ fetched' \in Seq(Fetchable(i)) /\ Len(fetched') \in Nat
      /\ \A j, l \in DOMAIN fetched' : fetched'[j].id = fetched'[l].id => j = l
      /\ \A j, l \in DOMAIN fetched' : j <= l => fetched'[j].day <= fetched'[l].day
  <2> DEFINE s == [j \in 1 .. Len(Rooms[i].history) - k |->
                      [Rooms[i].history[k + j] EXCEPT !.id = <<i, k + j>>]]
  <2>1. /\ s \in Seq(Fetchable(i)) /\ Len(s) \in Nat
        /\ \A j, l \in DOMAIN s : s[j].id = s[l].id => j = l
        /\ \A j, l \in DOMAIN s : j <= l => s[j].day <= s[l].day
    BY <1>4, HistoryStands
  <2>2. fetched' = s
    BY <1>2
  <2> HIDE DEF s
  <2> QED BY <2>1, <2>2
<1>6. roomDir' \in DirsOf(i)
  BY <1>1, <1>4, RoomFacts
<1>7. RoomStands'
  <2>1. messageAt' \in 0 .. Len(fetched')
    BY <1>3, <1>5
  <2>2. \A j : j \notin 1 .. messageAt'
    BY <1>3
  <2> QED BY <1>1, <1>3, <1>4, <1>5, <1>6, <2>1, <2>2 DEF RoomStands
<1>8. TreeStands'
  <2> DEFINE dirs == {Dir(Rooms[i].name)} \union DummyChannel(i)
  <2>1. Dir(NoName) \notin dirs
    <3>1. Dir(NoName) # Dir(Rooms[i].name)
      BY <1>4, RoomFacts, DirsDiffer DEF NoName
    <3>2. Dir(NoName) \notin DummyChannel(i)
      <4>1. 1 \in DOMAIN Rooms
        <5> DEFINE Room == [kind : Kinds, name : STRING \ {""}, history : Seq(Messages)]
        <5>1. Rooms \in Seq(Room)
          BY ScriptAssumption
        <5> HIDE DEF Room
        <5> QED BY <1>4, <5>1
      <4>2. Rooms[1].name # NoName
        BY <4>1, RoomFacts DEF NoName
      <4> QED BY <4>2, DirsDiffer DEF DummyChannel
    <3> QED BY <3>1, <3>2
  <2>2. tree' = [tree EXCEPT !.dirs = @ \union dirs]
    <3>1. tree.dirs \union {Dir(Rooms[i].name)} \union DummyChannel(i) = tree.dirs \union dirs
      OBVIOUS
    <3> HIDE DEF dirs
    <3> QED BY <1>1, <3>1
  <2> HIDE DEF dirs
  <2>3. TreeFits(tree, roomAt, TakenIds, {}, NextDay, InTheirFiles)
    BY <1>3 DEF TreeStands
  <2>4. \A day : TreeFits(tree', i, {}, {}, day, InTheirFiles)
    BY <1>4, <2>1, <2>2, <2>3, FetchedFacts, StartFits
  <2>5. TakenIds' = {} /\ InTheirFiles' = kept
    BY <1>3 DEF TakenIds, InTheirFiles
  <2>6. TreeFits(tree', i, {}, {}, NextDay', kept)
    BY <2>4, FewerSettled DEF InTheirFiles
  <2> QED BY <1>1, <1>3, <2>5, <2>6 DEF TreeStands
<1> QED BY <1>7, <1>8

(* The last file of a conversation.                                        *)
LEMMA EndRoomStands ==
    ASSUME RoomStands, TreeStands, EndRoom
    PROVE  RoomStands' /\ TreeStands'
<1>1. /\ messageAt = Len(fetched) /\ currentMessages # {} /\ currentMessages' = {}
      /\ tree' = WriteMessageFile(tree, roomDir, currentDay, currentMessages)
      /\ kept' = kept \union {fetched[j] : j \in DOMAIN fetched}
      /\ UNCHANGED <<roomAt, fetched, messageAt, roomDir, currentDay>>
  BY DEF EndRoom
<1>2. RoomStands'
  BY <1>1 DEF RoomStands
<1>3. roomAt \in DOMAIN Rooms /\ roomDir \in DirsOf(roomAt)
  <2>1. DOMAIN fetched # {}
    BY <1>1, FetchedFacts DEF RoomStands, TakenIds
  <2> QED BY <2>1, FetchedFacts DEF RoomStands
<1> DEFINE newly == {m \in {fetched[j] : j \in 1 .. messageAt} : m.id \in currentMessages}
<1>4. \A m \in newly : m.id \in currentMessages /\ m.day = currentDay
  BY DEF RoomStands
<1>5. \A id \in currentMessages : id[1] = roomAt /\ id \in TakenIds
  BY FetchedFacts DEF RoomStands
<1>6. TreeFits(tree, roomAt, TakenIds, currentMessages, currentDay, InTheirFiles)
  BY <1>1 DEF TreeStands, NextDay
<1>7. currentDay \in Nat /\ currentDay + 1 \in Nat /\ currentDay < currentDay + 1
  BY FetchedFacts
<1>8. TreeFits(tree', roomAt, TakenIds, {}, currentDay + 1, InTheirFiles \union newly)
  <2> HIDE DEF newly
  <2> QED BY <1>1, <1>3, <1>4, <1>5, <1>6, <1>7, WriteFits
<1>9. InTheirFiles' \subseteq InTheirFiles \union newly
  <2>1. DOMAIN fetched = 1 .. messageAt
    BY <1>1, FetchedFacts
  <2> QED BY <1>1, <2>1 DEF InTheirFiles
<1>10. TakenIds' = TakenIds /\ NextDay' = currentDay + 1 /\ roomAt' = roomAt
  BY <1>1 DEF TakenIds, NextDay
<1>11. TreeFits(tree', roomAt, TakenIds, {}, currentDay + 1, InTheirFiles')
  <2> HIDE DEF newly
  <2> QED BY <1>8, <1>9, FewerSettled
<1> QED BY <1>1, <1>2, <1>10, <1>11 DEF TreeStands

(* A directory takes the place of another, or some of its files move.      *)
LEMMA RenameShape ==
    ASSUME NEW t, Shape(t), NEW old, NEW new, new # Dir(NoName), old \in t.dirs,
           NEW carried \in SUBSET FilesOf(t, old), NEW stays,
           (stays = {} /\ carried = FilesOf(t, old)) \/ stays = {old}
    PROVE  LET u == [dirs |-> ((t.dirs \ {old}) \union {new}) \union stays,
                     days |-> (t.days \ carried) \union {[b EXCEPT !.dir = new] : b \in carried}]
           IN  Shape(u) /\ Movable(t, u, old, new, carried)
<1> DEFINE u == [dirs |-> ((t.dirs \ {old}) \union {new}) \union stays,
                 days |-> (t.days \ carried) \union {[b EXCEPT !.dir = new] : b \in carried}]
<1>1. /\ u = [dirs |-> u.dirs, days |-> u.days] /\ u.dirs = ((t.dirs \ {old}) \union {new}) \union stays
      /\ u.days = (t.days \ carried) \union {[b EXCEPT !.dir = new] : b \in carried}
  OBVIOUS
<1> HIDE DEF u
<1>2. Movable(t, u, old, new, carried)
  BY <1>1 DEF Movable
<1>3. Dir(NoName) \notin u.dirs
  BY <1>1 DEF Shape
<1>4. ASSUME NEW c \in u.days
      PROVE  /\ c = [dir |-> c.dir, day |-> c.day, messages |-> c.messages]
             /\ c.day \in Nat /\ c.messages # {} /\ c.dir \in u.dirs
  <2>1. CASE c \in t.days /\ c \notin carried
    <3>1. c.dir \in u.dirs
      BY <1>1, <2>1 DEF Shape, FilesOf
    <3> QED BY <2>1, <3>1 DEF Shape
  <2>2. CASE \E b \in carried : /\ b \in t.days /\ b.dir = old /\ c.dir = new
                              /\ c.day = b.day /\ c.messages = b.messages
                              /\ c = [dir |-> c.dir, day |-> c.day, messages |-> c.messages]
    BY <1>1, <2>2 DEF Shape
  <2> QED BY <1>2, <2>1, <2>2, MovedOnes
<1>5. Shape(u)
  BY <1>1, <1>3, <1>4 DEF Shape
<1> QED BY <1>2, <1>5 DEF u

(* Directories added to a tree.                                            *)
LEMMA DirsAdded ==
    ASSUME NEW a, NEW b, NEW d
    PROVE  \A r : r = [dirs |-> a, days |-> b] =>
                [r EXCEPT !.dirs = @ \union d] = [dirs |-> a \union d, days |-> b]
  OBVIOUS

(* A rename that does nothing, moves all, or stops at a clash halfway.     *)
LEMMA ChannelRenameStands ==
    ASSUME NEW t, Shape(t), NEW old, NEW new, new # Dir(NoName), NEW u,
           \/ u = ChannelRename(t, old, new, FilesOf(t, old))
           \/ /\ Clashes(t, old, new) # {}
              /\ \E some \in SUBSET (FilesOf(t, old) \ Clashes(t, old, new)) :
                    u = [ChannelRename(t, old, new, some) EXCEPT !.dirs = @ \union {old}]
    PROVE  \/ u = t
           \/ old # Dir(NoName) /\ Shape(u) /\ \E carried : Movable(t, u, old, new, carried)
<1>1. CASE old \notin t.dirs
  <2>1. Clashes(t, old, new) = {}
    BY <1>1 DEF Clashes
  <2>2. ChannelRename(t, old, new, FilesOf(t, old)) = t
    BY <1>1 DEF ChannelRename
  <2> QED BY <2>1, <2>2
<1>2. CASE old \in t.dirs
  <2>1. old # Dir(NoName)
    BY <1>2 DEF Shape
  <2>2. CASE u = ChannelRename(t, old, new, FilesOf(t, old))
    <3> DEFINE carried == FilesOf(t, old)
    <3>1. u = [dirs |-> ((t.dirs \ {old}) \union {new}) \union {},
               days |-> (t.days \ carried) \union {[b EXCEPT !.dir = new] : b \in carried}]
      BY <1>2, <2>2 DEF ChannelRename
    <3>2. Shape(u) /\ Movable(t, u, old, new, carried)
      <4> HIDE DEF carried
      <4>1. carried \in SUBSET FilesOf(t, old) /\ carried = FilesOf(t, old)
        BY DEF carried
      <4> QED BY <1>2, <3>1, <4>1, RenameShape
    <3> QED BY <2>1, <3>2
  <2>3. ASSUME NEW carried \in SUBSET (FilesOf(t, old) \ Clashes(t, old, new)),
               u = [ChannelRename(t, old, new, carried) EXCEPT !.dirs = @ \union {old}]
        PROVE  Shape(u) /\ Movable(t, u, old, new, carried)
    <3>1. ChannelRename(t, old, new, carried)
            = [dirs |-> (t.dirs \ {old}) \union {new},
               days |-> (t.days \ carried) \union {[b EXCEPT !.dir = new] : b \in carried}]
      BY <1>2 DEF ChannelRename
    <3>2. u = [dirs |-> ((t.dirs \ {old}) \union {new}) \union {old},
               days |-> (t.days \ carried) \union {[b EXCEPT !.dir = new] : b \in carried}]
      <4> DEFINE r == ChannelRename(t, old, new, carried)
                 filesThen == (t.days \ carried) \union {[b EXCEPT !.dir = new] : b \in carried}
      <4>1. r = [dirs |-> (t.dirs \ {old}) \union {new}, days |-> filesThen]
        BY <3>1
      <4>2. u = [r EXCEPT !.dirs = @ \union {old}]
        BY <2>3
      <4> HIDE DEF r, filesThen
      <4>3. u = [dirs |-> ((t.dirs \ {old}) \union {new}) \union {old}, days |-> filesThen]
        BY <4>1, <4>2, DirsAdded
      <4> QED BY <4>3 DEF filesThen
    <3>3. carried \in SUBSET FilesOf(t, old)
      OBVIOUS
    <3> QED BY <1>2, <3>2, <3>3, RenameShape
  <2> QED BY <2>1, <2>2, <2>3
<1> QED BY <1>1, <1>2

(* A message is taken: the file of the day before it is written, and what  *)
(* there is of a name before goes to the name after.                       *)
LEMMA TakeMessageStands ==
    ASSUME RoomStands, TreeStands, TakeMessage
    PROVE  RoomStands' /\ TreeStands'
<1> DEFINE m == fetched[messageAt + 1]
           written == IF m.day = currentDay THEN tree
                      ELSE WriteMessageFile(tree, roomDir, currentDay, currentMessages)
           renames == m.to # NoName /\ Rooms[roomAt].kind # "im"
           clash == Clashes(written, Dir(m.from), Dir(m.to))
           ids == Current(m) \ {m.id}
<1>1. /\ messageAt < Len(fetched) /\ messageAt' = messageAt + 1
      /\ currentDay' = m.day /\ currentMessages' = Current(m)
      /\ UNCHANGED <<roomAt, fetched, kept>>
  BY DEF TakeMessage
<1>0. /\ IF ~renames
         THEN tree' = written /\ UNCHANGED roomDir
         ELSE /\ roomDir' = Dir(m.to)
              /\ IF clash = {}
                 THEN tree' = ChannelRename(written, Dir(m.from), Dir(m.to),
                                            FilesOf(written, Dir(m.from)))
                 ELSE \E carried \in SUBSET (FilesOf(written, Dir(m.from)) \ clash) :
                        tree' = [ChannelRename(written, Dir(m.from), Dir(m.to), carried)
                                    EXCEPT !.dirs = @ \union {Dir(m.from)}]
  BY DEF TakeMessage, NoName
<1>2. /\ messageAt + 1 \in DOMAIN fetched /\ messageAt \in Nat /\ currentDay \in Nat
      /\ roomAt \in DOMAIN Rooms /\ m.day \in Nat \ {0} /\ m.id[1] = roomAt
      /\ DOMAIN fetched = 1 .. Len(fetched) /\ Len(fetched) \in Nat /\ roomAt \in Nat \ {0}
  <2>1. messageAt + 1 \in DOMAIN fetched
    BY <1>1, FetchedFacts
  <2>2. roomAt # 0
    BY <2>1, FetchedFacts
  <2> QED BY <2>1, <2>2, FetchedFacts
<1>3. m.from \in NamesOf(roomAt) \union {NoName} /\ m.to \in NamesOf(roomAt) \union {NoName}
  BY <1>2, FetchedFacts DEF Fetchable
<1>4. \A j \in 1 .. messageAt : fetched[j].day <= m.day /\ fetched[j].id # m.id /\ j \in DOMAIN fetched
  <2> SUFFICES ASSUME NEW j \in 1 .. messageAt
               PROVE  fetched[j].day <= m.day /\ fetched[j].id # m.id /\ j \in DOMAIN fetched
    OBVIOUS
  <2>1. j \in DOMAIN fetched /\ j <= messageAt + 1 /\ j # messageAt + 1
    BY <1>1, <1>2
  <2> QED BY <1>2, <2>1 DEF RoomStands
<1>5. currentDay <= m.day /\ (currentDay # m.day => currentDay < m.day)
  <2>1. currentDay <= m.day
    BY <1>2, <1>4 DEF RoomStands
  <2> QED BY <1>2, <2>1
<1>6. m.id \notin TakenIds /\ TakenIds' = TakenIds \union {m.id}
  <2>1. m.id \notin TakenIds
    BY <1>4 DEF TakenIds
  <2>2. 1 .. messageAt + 1 = 1 .. messageAt \union {messageAt + 1}
    BY <1>2
  <2> QED BY <1>1, <2>1, <2>2 DEF TakenIds
<1>7. /\ currentMessages \subseteq TakenIds /\ roomDir \in DirsOf(roomAt)
      /\ \A j \in 1 .. messageAt : fetched[j].id \in currentMessages => fetched[j].day = currentDay
  BY <1>2 DEF RoomStands
<1>8. /\ Current(m) = ids \union {m.id} /\ ids \subseteq currentMessages
      /\ (m.day = currentDay => ids = currentMessages) /\ (m.day # currentDay => ids = {})
  BY <1>6, <1>7 DEF Current
<1>9. RoomStands'
  <2>1. messageAt' \in 0 .. Len(fetched')
    BY <1>1, <1>2
  <2>2. currentDay' = IF messageAt' = 0 THEN 0 ELSE fetched'[messageAt'].day
    BY <1>1, <1>2
  <2>3. roomDir' \in DirsOf(roomAt)
    <3>1. m.to # NoName => Dir(m.to) \in DirsOf(roomAt)
      BY <1>2, <1>3, RoomFacts DEF NoName
    <3> QED BY <1>0, <1>7, <3>1
  <2>4. currentMessages' \subseteq TakenIds' /\ messageAt' # 0
    BY <1>1, <1>2, <1>6, <1>7, <1>8
  <2>5. ASSUME NEW j \in 1 .. messageAt', fetched[j].id \in currentMessages'
        PROVE  fetched[j].day = m.day
    <3>1. CASE j = messageAt + 1
      BY <3>1
    <3>2. CASE j # messageAt + 1
      <4>1. j \in 1 .. messageAt
        BY <1>1, <1>2, <3>2
      <4>2. fetched[j].id \in ids
        BY <1>1, <1>4, <1>8, <2>5, <4>1
      <4> QED BY <1>7, <1>8, <4>1, <4>2
    <3> QED BY <3>1, <3>2
  <2> QED BY <1>1, <2>1, <2>2, <2>3, <2>4, <2>5 DEF RoomStands
<1>10. TreeFits(tree, roomAt, TakenIds, currentMessages, currentDay, InTheirFiles)
  BY <1>1, <1>2 DEF TreeStands, NextDay
<1> DEFINE settled == InTheirFiles \union {fetched[j] : j \in {l \in 1 .. messageAt :
                                        fetched[l].id \in currentMessages \ ids}}
<1>11. TreeFits(written, roomAt, TakenIds, ids, m.day, settled)
  <2>1. CASE m.day = currentDay
    <3>1. settled = InTheirFiles /\ written = tree
      BY <1>8, <2>1
    <3> QED BY <1>8, <1>10, <2>1, <3>1
  <2>2. CASE m.day # currentDay
    <3> DEFINE newly == {fetched[j] : j \in {l \in 1 .. messageAt : fetched[l].id \in currentMessages}}
    <3>1. \A k \in newly : k.id \in currentMessages /\ k.day = currentDay
      BY <1>7
    <3>2. \A id \in currentMessages : id[1] = roomAt /\ id \in TakenIds
      BY <1>7, FetchedFacts
    <3>3. m.day \in Nat /\ currentDay \in Nat /\ currentDay < m.day
      BY <1>2, <1>5, <2>2
    <3>4. TreeFits(WriteMessageFile(tree, roomDir, currentDay, currentMessages),
                   roomAt, TakenIds, {}, m.day, InTheirFiles \union newly)
      <4> HIDE DEF newly, m
      <4> QED BY <1>2, <1>7, <1>10, <3>1, <3>2, <3>3, WriteFits
    <3>5. settled = InTheirFiles \union newly /\ ids = {}
      BY <1>8, <2>2
    <3>6. written = WriteMessageFile(tree, roomDir, currentDay, currentMessages)
      BY <2>2
    <3> QED BY <3>4, <3>5, <3>6
  <2> QED BY <2>1, <2>2
<1>12. TreeFits(written, roomAt, TakenIds', currentMessages', m.day, settled)
  <2>1. TreeFits(written, roomAt, TakenIds \union {m.id}, ids \union {m.id}, m.day, settled)
    <3> HIDE DEF written, m, ids, settled
    <3> QED BY <1>2, <1>6, <1>11, TakeFits
  <2> QED BY <1>1, <1>6, <1>8, <2>1
<1>13. InTheirFiles' \subseteq settled
  <2>1. \A j \in 1 .. messageAt' : j \in 1 .. messageAt \/ fetched[j].id \in currentMessages'
    BY <1>1, <1>2, <1>8
  <2> QED BY <1>1, <1>8, <2>1 DEF InTheirFiles
<1>14. TreeFits(tree', roomAt, TakenIds', currentMessages', m.day, settled)
  <2>1. CASE tree' = written
    BY <1>12, <2>1
  <2>2. CASE renames
    <3> DEFINE old == Dir(m.from)
               new == Dir(m.to)
    <3>1. new \in DirsOf(roomAt) /\ new # Dir(NoName)
      BY <1>2, <1>3, <2>2, RoomFacts, DirsDiffer DEF NoName
    <3>2. old # Dir(NoName) => old \in DirsOf(roomAt)
      BY <1>2, <1>3, RoomFacts DEF NoName
    <3>3. Shape(written)
      BY <1>12 DEF TreeFits
    <3>4. \/ tree' = ChannelRename(written, old, new, FilesOf(written, old))
          \/ /\ Clashes(written, old, new) # {}
             /\ \E carried \in SUBSET (FilesOf(written, old) \ Clashes(written, old, new)) :
                   tree' = [ChannelRename(written, old, new, carried) EXCEPT !.dirs = @ \union {old}]
      BY <1>0, <2>2
    <3>5. \/ tree' = written
          \/ old # Dir(NoName) /\ Shape(tree') /\ \E carried : Movable(written, tree', old, new, carried)
      <4> HIDE DEF written, old, new
      <4> QED BY <3>1, <3>3, <3>4, ChannelRenameStands
    <3> HIDE DEF old, new, written, settled, m
    <3>6. ASSUME old # Dir(NoName), Shape(tree'), NEW carried, Movable(written, tree', old, new, carried)
          PROVE  TreeFits(tree', roomAt, TakenIds', currentMessages', m.day, settled)
      BY <1>2, <1>12, <3>1, <3>2, <3>6, MoveFits
    <3> QED BY <1>12, <3>5, <3>6
  <2> QED BY <1>0, <2>1, <2>2
<1>15. TreeStands'
  <2>1. TreeFits(tree', roomAt, TakenIds', currentMessages', m.day, InTheirFiles')
    <3> HIDE DEF settled, m
    <3> QED BY <1>13, <1>14, FewerSettled
  <2>2. NextDay' = m.day
    BY <1>1, <1>8 DEF NextDay
  <2> QED BY <1>1, <2>1, <2>2 DEF TreeStands
<1> QED BY <1>9, <1>15

(* Nothing is there before the script is started.                          *)
LEMMA ScriptStarts == ScriptInit => ScriptInv
<1> SUFFICES ASSUME ScriptInit PROVE ScriptInv
  OBVIOUS
<1>1. FilesStand
  <2>1. Len(SharedFiles) \in Nat
    <3>1. SharedFiles \in Seq(STRING)
      BY ScriptAssumption
    <3> QED BY <3>1
  <2>2. IsFiniteSet(DOMAIN filesDir) /\ Cardinality(DOMAIN filesDir) = 0
    <3>1. filesDir = <<>>
      BY DEF ScriptInit
    <3>2. DOMAIN filesDir = {}
      BY <3>1
    <3> QED BY <3>2, FS_EmptySet
  <2>3. fileAt = 0 /\ index = {} /\ Exporting
    BY DEF ScriptInit, Exporting
  <2> QED BY <2>1, <2>2, <2>3 DEF FilesStand
<1>2. /\ roomAt = 0 /\ fetched = <<>> /\ messageAt = 0 /\ currentDay = 0
      /\ currentMessages = {} /\ tree = [dirs |-> {}, days |-> {}] /\ kept = {} /\ exporter = "idle"
  BY DEF ScriptInit
<1>3. RoomStands
  <2> DEFINE Room == [kind : Kinds, name : STRING \ {""}, history : Seq(Messages)]
  <2>1. Rooms \in Seq(Room)
    BY ScriptAssumption
  <2> HIDE DEF Room
  <2>2. Len(Rooms) \in Nat
    BY <2>1
  <2> QED BY <1>2, <2>2 DEF RoomStands
<1>4. TreeStands
  <2>1. tree.days = {} /\ tree.dirs = {} /\ InTheirFiles = {} /\ tree = [dirs |-> tree.dirs, days |-> tree.days]
    BY <1>2 DEF InTheirFiles
  <2> QED BY <1>2, <2>1 DEF TreeStands, TreeFits, Shape, Unfiled, OnlyOwn, OneADay, Before
<1> QED BY <1>1, <1>2, <1>3, <1>4 DEF ScriptInv

(* Every step of the script keeps the invariant.                           *)
LEMMA ScriptKept == ScriptInv /\ [ScriptNext]_scriptVars => ScriptInv'
<1> SUFFICES ASSUME ScriptInv, [ScriptNext]_scriptVars PROVE ScriptInv'
  OBVIOUS
<1>1. FilesStand /\ RoomStands /\ TreeStands
  BY DEF ScriptInv
<1>2. UNCHANGED fileVars /\ (Exporting' <=> Exporting) => FilesStand'
  BY <1>1 DEF FilesStand, fileVars
<1>3. UNCHANGED RoomParts => RoomStands' /\ TreeStands'
  BY <1>1, RoomUntouched
<1>4. CASE StartScript
  BY <1>2, <1>3, <1>4 DEF StartScript, ScriptInv, RoomParts, Exporting
<1>5. CASE ExportFile
  <2>1. FilesStand'
    BY <1>1, <1>5, ExportFileStands
  <2>2. UNCHANGED RoomParts /\ exporter' = exporter
    BY <1>5 DEF ExportFile, RoomParts
  <2> QED BY <1>3, <2>1, <2>2 DEF ScriptInv
<1>6. CASE EndFiles
  <2>1. FilesStand'
    BY <1>1, <1>6, EndFilesStands
  <2>2. UNCHANGED RoomParts /\ exporter' = "rooms"
    BY <1>6 DEF EndFiles, RoomParts
  <2> QED BY <1>3, <2>1, <2>2 DEF ScriptInv
<1>7. CASE StartRoom
  <2>1. RoomStands' /\ TreeStands'
    BY <1>1, <1>7, StartRoomStands
  <2>2. UNCHANGED <<fileVars, exporter>>
    BY <1>7 DEF StartRoom
  <2> QED BY <1>2, <2>1, <2>2 DEF ScriptInv, Exporting
<1>8. CASE TakeMessage
  <2>1. RoomStands' /\ TreeStands'
    BY <1>1, <1>8, TakeMessageStands
  <2>2. UNCHANGED fileVars /\ exporter = "rooms" /\ exporter' \in {"rooms", "failed"}
    BY <1>8 DEF TakeMessage
  <2> QED BY <1>2, <2>1, <2>2 DEF ScriptInv, Exporting
<1>9. CASE EndRoom
  <2>1. RoomStands' /\ TreeStands'
    BY <1>1, <1>9, EndRoomStands
  <2>2. UNCHANGED <<fileVars, exporter>>
    BY <1>9 DEF EndRoom
  <2> QED BY <1>2, <2>1, <2>2 DEF ScriptInv, Exporting
<1>10. CASE Finalize
  BY <1>2, <1>3, <1>10 DEF Finalize, ScriptInv, RoomParts, Exporting
<1>11. CASE UNCHANGED scriptVars
  BY <1>2, <1>3, <1>11 DEF scriptVars, ScriptInv, RoomParts, Exporting, fileVars, messageVars
<1> QED BY <1>4, <1>5, <1>6, <1>7, <1>8, <1>9, <1>10, <1>11 DEF ScriptNext

(* What is settled is in one file, and a conversation that is done is      *)
(* settled.                                                                *)
LEMMA InvKeepsEveryDay == ScriptInv => ScriptStands
<1> SUFFICES ASSUME ScriptInv PROVE ScriptStands
  OBVIOUS
<1>1. IndexNamesWhole
  BY DEF ScriptInv, FilesStand, IndexNamesWhole, Exporting
<1>2. EveryDayKept
  <2> SUFFICES ASSUME NEW m \in kept, ApartFromOthers(m.id[1])
               PROVE  \E b \in tree.days :
                        /\ m.id \in b.messages /\ b.day = m.day /\ b.dir \in tree.dirs
                        /\ \A id \in b.messages : id[1] = m.id[1]
                        /\ \A h \in tree.days \ {b} : m.id \notin h.messages
    BY DEF EveryDayKept
  <2>1. TreeFits(tree, roomAt, TakenIds, currentMessages, NextDay, InTheirFiles)
    BY DEF ScriptInv, TreeStands
  <2>2. m \in InTheirFiles
    BY DEF InTheirFiles
  <2>3. m.id[1] \in DOMAIN Rooms /\ InOne(tree, m) /\ Shape(tree)
    BY <2>1, <2>2 DEF TreeFits
  <2>4. OnlyOwn(tree, m.id[1])
    BY <2>1, <2>3 DEF TreeFits
  <2>5. PICK b \in tree.days : /\ m.id \in b.messages /\ b.day = m.day
                               /\ \A e \in tree.days \ {b} : m.id \notin e.messages
    BY <2>3 DEF InOne
  <2>6. b.dir \in tree.dirs
    BY <2>3 DEF Shape
  <2>7. \A id \in b.messages : id[1] = m.id[1]
    BY <2>4, <2>5 DEF OnlyOwn
  <2> QED BY <2>5, <2>6, <2>7
<1> QED BY <1>1, <1>2 DEF ScriptStands

(* The counters are within bounds where the invariant holds.               *)
LEMMA InvKeepsScriptType == ScriptInv => ScriptTypeOK
<1> SUFFICES ASSUME ScriptInv PROVE ScriptTypeOK
  OBVIOUS
<1>1. RoomStands /\ FilesStand
  BY DEF ScriptInv
<1>2. roomAt <= Len(Rooms) /\ messageAt <= Len(fetched) /\ fileAt <= Len(SharedFiles)
  <2> DEFINE Room == [kind : Kinds, name : STRING \ {""}, history : Seq(Messages)]
  <2>1. Rooms \in Seq(Room) /\ SharedFiles \in Seq(STRING)
    BY ScriptAssumption
  <2> HIDE DEF Room
  <2>2. Len(Rooms) \in Nat /\ Len(SharedFiles) \in Nat
    BY <2>1
  <2>3. Len(fetched) \in Nat
    BY <1>1, FetchedFacts
  <2> QED BY <1>1, <2>2, <2>3 DEF RoomStands, FilesStand
<1> QED BY <1>2 DEF ScriptInv, ScriptTypeOK
(* The script's counters stay within what it was given, for any            *)
(* conversations, files and selections.                                    *)
THEOREM ScriptTypeCorrect == ScriptSpec => []ScriptTypeOK
BY ScriptStarts, ScriptKept, InvKeepsScriptType, PTL DEF ScriptSpec

(* A step of the services is one of the script or leaves it alone, and so  *)
(* for the exports.                                                        *)
LEMMA StepOfScript == [Next]_vars => [ScriptNext]_scriptVars /\ [ExportsNext]_exportVars
<1>1. ASSUME [Next]_vars PROVE [ScriptNext]_scriptVars
  BY <1>1 DEF Next, Alone, vars, journalVars, authVars, exportVars, reportVars, directoryVars,
         filesVars, rolloutVars, catchupVars, scriptVars
<1>2. ASSUME [Next]_vars PROVE [ExportsNext]_exportVars
  BY <1>2 DEF Next, Alone, vars, journalVars, authVars, exportVars, reportVars, directoryVars,
         filesVars, rolloutVars, catchupVars, scriptVars
<1> QED BY <1>1, <1>2

(* What exports leave behind is whole: the API's bundles as                *)
(* BundlesAlwaysAgree says, and of the standalone script the index, every  *)
(* file it names but one it was written over, and every message fetched of *)
(* a conversation that is done, in one file of its day, through whatever   *)
(* renames its history has, unless one of its names was another's          *)
(* (exports.py, slack_export.py).                                          *)
THEOREM ExportsAlwaysStand == Spec => []ExportsStand
<1>1. Init => ExportsInv /\ ScriptInv
  BY ExportsStart, ScriptStarts DEF Init
<1>2. ExportsInv /\ [Next]_vars => ExportsInv'
  BY ExportsKept, StepOfScript
<1>3. ScriptInv /\ [Next]_vars => ScriptInv'
  BY ScriptKept, StepOfScript
<1>4. ExportsInv => BundlesAgree
  BY DEF ExportsInv, BundlesAgree, Quiet, WholeBundle, Dated
<1>5. BundlesAgree /\ ScriptStands => ExportsStand
  BY DEF ExportsStand
<1> QED BY <1>1, <1>2, <1>3, <1>4, <1>5, InvKeepsEveryDay, PTL DEF Spec

-----------------------------------------------------------------------------
(* Files *)

FileRow == [path : Places \union {"none"}, sum : BOOLEAN]
OnDisk == {"absent", "cut", "whole"}
AtItem == {"open", "write", "record", "enqueue"}

(* A process that downloads is at an item, but between two of them.        *)
Fetching ==
    [at : {"idle", "next"} \union AtItem, item : Items \union {NoRow}, todo : Seq(Items),
     paths : Seq(Places \union {"none"}), tried : Nat, content : BOOLEAN]

FetchTypes(r) == r \in Fetching /\ (r.at \in AtItem => r.item \in Items)

WorkerTypes(r) ==
    r = NoFetch \/ r \in [item : Items, read : OnDisk, again : BOOLEAN]

RowsTypes ==
    /\ files \in [Items -> FileRow \union {NoRow}] /\ oldest \in Seq(Items)
    /\ \A k \in DOMAIN oldest : files[oldest[k]] \in FileRow
    /\ \A k, l \in DOMAIN oldest : k # l => oldest[k] # oldest[l]

ContentTypes ==
    /\ disk \in [Items -> [Places -> OnDisk]]
    /\ jobs \in [Items -> {"none", "pending", "ended", "error"}]
    /\ texts \in [Items -> {"none", "cut", "whole"}]
    /\ forgotten \subseteq Items

(* A pass keeps a path for each row it has left.                           *)
ProcessTypes ==
    /\ FetchTypes(backfill) /\ FetchTypes(pass) /\ Len(pass.paths) = Len(pass.todo)
    /\ WorkerTypes(worker)

FilesInv == RowsTypes /\ ContentTypes /\ ProcessTypes

LEMMA FilesBegin == FilesInit => FilesInv
<1>1. FilesInit => RowsTypes
  BY DEF FilesInit, RowsTypes
<1>2. FilesInit => ContentTypes
  BY DEF FilesInit, ContentTypes, OnDisk
<1>3. FilesInit => ProcessTypes
  BY DEF FilesInit, ProcessTypes, FetchTypes, Fetching, AtRest, AtItem, WorkerTypes
<1> QED BY <1>1, <1>2, <1>3 DEF FilesInv

LEMMA RestTypes == FetchTypes(AtRest) /\ Len(AtRest.paths) = Len(AtRest.todo)
BY DEF FetchTypes, Fetching, AtRest, AtItem

(* A row that is written is the last in the order of the updates.          *)
LEMMA UpdatedKeeps ==
    ASSUME RowsTypes, NEW i \in Items, NEW r \in FileRow, files' = [files EXCEPT ![i] = r],
           oldest' = Updated(i) \/ oldest' = oldest
    PROVE  RowsTypes'
<1> PICK w : w = Without(oldest, i)
  OBVIOUS
<1>1. /\ w \in Seq(Items)
      /\ \A a \in DOMAIN w : \E b \in DOMAIN oldest : w[a] = oldest[b] /\ oldest[b] # i
      /\ \A a, b \in DOMAIN w : a < b =>
           \E c, d \in DOMAIN oldest : c < d /\ w[a] = oldest[c] /\ w[b] = oldest[d]
  BY WithoutFacts DEF RowsTypes
<1> PICK t : t = Append(w, i)
  OBVIOUS
<1>2. /\ t \in Seq(Items) /\ Len(w) \in Nat /\ DOMAIN w = 1 .. Len(w)
      /\ DOMAIN t = 1 .. (Len(w) + 1) /\ t[Len(w) + 1] = i
      /\ \A a \in DOMAIN w : t[a] = w[a]
  BY <1>1
<1>3. files' \in [Items -> FileRow \union {NoRow}] /\ \A k \in Items : files'[k] = files[k] \/ files'[k] \in FileRow
  BY DEF RowsTypes
<1>4. CASE oldest' = oldest
  BY <1>3, <1>4 DEF RowsTypes
<1>5. CASE oldest' = t
  <2>1. ASSUME NEW k \in DOMAIN t PROVE files'[t[k]] \in FileRow
    <3>1. CASE k \in DOMAIN w
      <4>1. PICK b \in DOMAIN oldest : w[k] = oldest[b]
        BY <1>1, <3>1
      <4>2. oldest[b] \in Items /\ files[oldest[b]] \in FileRow
        BY DEF RowsTypes
      <4> QED BY <1>2, <1>3, <3>1, <4>1, <4>2
    <3>2. CASE k = Len(w) + 1
      BY <1>2, <3>2 DEF RowsTypes
    <3> QED BY <1>2, <3>1, <3>2
  <2>2. ASSUME NEW k \in DOMAIN t, NEW l \in DOMAIN t, k < l PROVE t[k] # t[l]
    <3>1. k \in DOMAIN w
      BY <1>2, <2>2
    <3>2. CASE l \in DOMAIN w
      <4>1. PICK c \in DOMAIN oldest, d \in DOMAIN oldest : c < d /\ w[k] = oldest[c] /\ w[l] = oldest[d]
        BY <1>1, <2>2, <3>1, <3>2
      <4>2. c # d
        <5>1. DOMAIN oldest \in SUBSET Nat
          BY DEF RowsTypes
        <5> QED BY <4>1, <5>1
      <4>3. oldest[c] # oldest[d]
        BY <4>2 DEF RowsTypes
      <4> QED BY <1>2, <3>1, <3>2, <4>1, <4>3
    <3>3. CASE l = Len(w) + 1
      BY <1>1, <1>2, <3>1, <3>3
    <3> QED BY <1>2, <3>2, <3>3
  <2>3. \A k, l \in DOMAIN t : k # l => t[k] # t[l]
    BY <1>2, <2>2
  <2> QED BY <1>2, <1>3, <1>5, <2>1, <2>3 DEF RowsTypes
<1> QED BY <1>4, <1>5 DEF Updated

LEMMA EnqueueKeeps ==
    ASSUME ContentTypes, WorkerTypes(worker), NEW i \in Items, Enqueue(i), UNCHANGED <<disk, texts>>
    PROVE  ContentTypes' /\ WorkerTypes(worker')
<1>1. ContentTypes'
  BY DEF ContentTypes, Enqueue, Requested
<1>2. WorkerTypes(worker')
  <2>1. CASE worker = NoFetch
    <3>1. worker.item # i
      BY <2>1, FilesAssumption DEF NoFetch
    <3> QED BY <3>1 DEF Enqueue
  <2>2. CASE worker \in [item : Items, read : OnDisk, again : BOOLEAN]
    BY <2>2 DEF Enqueue, WorkerTypes
  <2> QED BY <2>1, <2>2 DEF WorkerTypes
<1> QED BY <1>1, <1>2

LEMMA ContentOnDisk ==
    ASSUME ContentTypes, NEW i \in Items, NEW path \in Places \union {"none"}
    PROVE  Content(i, path) \in OnDisk
BY DEF ContentTypes, Content, OnDisk

-----------------------------------------------------------------------------
(* The steps of the files *)

LEMMA BackfillKeeps ==
    ASSUME held \in Holdings, FilesInv, UpsertListed \/ \E content \in BOOLEAN : StartBackfill(content)
    PROVE  FilesInv'
<1>1. ASSUME NEW content \in BOOLEAN, StartBackfill(content) PROVE FilesInv'
  <2>1. FetchTypes(backfill')
    <3>1. backfill' = [at |-> "next", item |-> NoRow, todo |-> Listing, paths |-> <<>>,
                       tried |-> 0, content |-> content]
      BY <1>1 DEF StartBackfill, AtRest
    <3>2. Listing \in Seq(Items) /\ <<>> \in Seq(Places \union {"none"})
      BY FilesAssumption DEF Listing
    <3> QED BY <3>1, <3>2 DEF FetchTypes, Fetching, AtItem
  <2> QED BY <1>1, <2>1 DEF StartBackfill, FilesInv, RowsTypes, ContentTypes, ProcessTypes
<1>2. CASE UpsertListed /\ backfill.todo = <<>>
  <2>1. backfill' = AtRest
        /\ UNCHANGED <<files, oldest, disk, jobs, texts, forgotten, pass, worker>>
    BY <1>2 DEF UpsertListed
  <2> QED BY <2>1, RestTypes DEF FilesInv, RowsTypes, ContentTypes, ProcessTypes
<1>3. CASE UpsertListed /\ backfill.todo # <<>>
  <2> PICK i : i = Head(backfill.todo)
    OBVIOUS
  <2>1. /\ backfill' = [backfill EXCEPT !.item = i, !.todo = Tail(@),
                                        !.at = IF backfill.content THEN "open" ELSE "next"]
        /\ files' = [files EXCEPT ![i] =
             [path |-> "files", sum |-> IF files[i] = NoRow THEN FALSE ELSE files[i].sum]]
        /\ oldest' = IF i \in Canvases THEN oldest ELSE Updated(i)
        /\ Enqueue(i) /\ UNCHANGED <<disk, texts, pass>>
    BY <1>3 DEF UpsertListed
  <2>2. FetchTypes(backfill) /\ backfill \in Fetching
    BY DEF FilesInv, ProcessTypes, FetchTypes
  <2>3. i \in Items /\ Tail(backfill.todo) \in Seq(Items)
    BY <1>3, <2>2 DEF Fetching
  <2>4. FetchTypes(backfill')
    BY <2>1, <2>2, <2>3 DEF FetchTypes, Fetching, AtItem
  <2>5. [path |-> "files", sum |-> IF files[i] = NoRow THEN FALSE ELSE files[i].sum] \in FileRow
    BY <2>3 DEF FilesInv, RowsTypes, FileRow, Places
  <2>6. RowsTypes'
    BY <2>1, <2>3, <2>5, UpdatedKeeps DEF FilesInv
  <2>7. ContentTypes' /\ WorkerTypes(worker')
    BY <2>1, <2>3, EnqueueKeeps DEF FilesInv, ProcessTypes
  <2> QED BY <2>1, <2>4, <2>6, <2>7 DEF FilesInv, ProcessTypes
<1> QED BY <1>1, <1>2, <1>3

LEMMA FetchMade ==
    ASSUME NEW at \in {"idle", "next"} \union AtItem, NEW i \in Items \union {NoRow}, NEW t \in Seq(Items),
           NEW u \in Seq(Places \union {"none"}), NEW n \in Nat, NEW b \in BOOLEAN
    PROVE  [at |-> at, item |-> i, todo |-> t, paths |-> u, tried |-> n, content |-> b] \in Fetching
BY DEF Fetching

LEMMA PassKeeps ==
    ASSUME FilesInv, StartPass \/ NextMissing
    PROVE  FilesInv'
<1>1. FetchTypes(pass') /\ Len(pass'.paths) = Len(pass'.todo)
  <2>1. CASE StartPass
    <3> PICK read : read = [k \in DOMAIN oldest |-> files[oldest[k]].path]
      OBVIOUS
    <3>1. oldest \in Seq(Items) /\ Len(oldest) \in Nat /\ DOMAIN oldest = 1 .. Len(oldest)
      BY DEF FilesInv, RowsTypes
    <3>2. \A k \in DOMAIN oldest : files[oldest[k]].path \in Places \union {"none"}
      BY DEF FilesInv, RowsTypes, FileRow
    <3>3. [k \in DOMAIN oldest |-> files[oldest[k]].path] \in [1 .. Len(oldest) -> Places \union {"none"}]
      BY <3>1, <3>2
    <3>4. read \in Seq(Places \union {"none"}) /\ Len(read) = Len(oldest)
      BY <3>1, <3>3, SequencesAreFunctions
    <3>5. pass' = [AtRest EXCEPT !.at = "next", !.todo = oldest, !.paths = read]
      BY <2>1 DEF StartPass
    <3> QED BY <3>1, <3>4, <3>5 DEF FetchTypes, Fetching, AtRest, AtItem
  <2>2. CASE NextMissing /\ (pass.todo = <<>> \/ pass' = AtRest)
    BY <2>2, RestTypes DEF NextMissing
  <2>3. CASE NextMissing /\ pass.todo # <<>> /\ pass' # AtRest
    <3>1. pass \in Fetching /\ Len(pass.paths) = Len(pass.todo) /\ pass.at = "next"
      BY <2>3 DEF FilesInv, ProcessTypes, FetchTypes, NextMissing
    <3>2. /\ pass.todo \in Seq(Items) /\ pass.paths \in Seq(Places \union {"none"})
          /\ pass.tried \in Nat
      BY <3>1 DEF Fetching
    <3>3. /\ Head(pass.todo) \in Items /\ Tail(pass.todo) \in Seq(Items)
          /\ Len(Tail(pass.todo)) = Len(pass.todo) - 1
      BY <2>3, <3>2
    <3>4. pass.paths # <<>>
      BY <2>3, <3>1, <3>2
    <3>5. /\ Tail(pass.paths) \in Seq(Places \union {"none"})
          /\ Len(Tail(pass.paths)) = Len(pass.paths) - 1
      BY <3>2, <3>4
    <3>6. \/ pass' = [pass EXCEPT !.todo = Tail(@), !.paths = Tail(@)]
          \/ pass' = [pass EXCEPT !.todo = Tail(@), !.paths = Tail(@), !.tried = @ + 1,
                                  !.at = "open", !.item = Head(pass.todo)]
      BY <2>3 DEF NextMissing, Taken
    <3>7. pass'.todo = Tail(pass.todo) /\ pass'.paths = Tail(pass.paths)
      BY <3>1, <3>6 DEF Fetching
    <3>8. FetchTypes(pass')
      <4>1. pass' \in Fetching
        <5>1. /\ pass.at \in {"idle", "next"} \union AtItem /\ pass.item \in Items \union {NoRow}
              /\ pass.content \in BOOLEAN /\ pass.tried + 1 \in Nat
              /\ pass = [at |-> pass.at, item |-> pass.item, todo |-> pass.todo, paths |-> pass.paths,
                         tried |-> pass.tried, content |-> pass.content]
          BY <3>1, <3>2 DEF Fetching
        <5>2. \/ pass' = [at |-> pass.at, item |-> pass.item, todo |-> Tail(pass.todo),
                          paths |-> Tail(pass.paths), tried |-> pass.tried, content |-> pass.content]
              \/ pass' = [at |-> "open", item |-> Head(pass.todo), todo |-> Tail(pass.todo),
                          paths |-> Tail(pass.paths), tried |-> pass.tried + 1, content |-> pass.content]
          BY <3>6, <5>1
        <5>3. "open" \in {"idle", "next"} \union AtItem /\ Head(pass.todo) \in Items \union {NoRow}
          BY <3>3 DEF AtItem
        <5>4. [at |-> pass.at, item |-> pass.item, todo |-> Tail(pass.todo),
               paths |-> Tail(pass.paths), tried |-> pass.tried, content |-> pass.content] \in Fetching
          BY <3>2, <3>3, <3>5, <5>1, FetchMade
        <5>5. [at |-> "open", item |-> Head(pass.todo), todo |-> Tail(pass.todo),
               paths |-> Tail(pass.paths), tried |-> pass.tried + 1, content |-> pass.content] \in Fetching
          BY <3>3, <3>5, <5>1, <5>3, FetchMade
        <5> QED BY <5>2, <5>4, <5>5
      <4>2. pass'.at = pass.at \/ pass'.item \in Items
        BY <3>1, <3>3, <3>6 DEF Fetching
      <4> QED BY <3>1, <4>1, <4>2 DEF FetchTypes, AtItem
    <3> QED BY <3>1, <3>3, <3>5, <3>7, <3>8
  <2> QED BY <2>1, <2>2, <2>3
<1> QED BY <1>1 DEF StartPass, NextMissing, FilesInv, RowsTypes, ContentTypes, ProcessTypes

(* A download moves the process it is of, and no other.                    *)
LEMMA PutKeepsFetch ==
    ASSUME ProcessTypes, NEW p \in {"pass", "backfill"}, NEW at \in {"next"} \union AtItem,
           NEW r, r = [(IF p = "pass" THEN pass ELSE backfill) EXCEPT !.at = at] \/ r = AtRest,
           (IF p = "pass" THEN pass ELSE backfill).at \in AtItem \/ r = AtRest,
           PutOnDisk(p, r), WorkerTypes(worker')
    PROVE  ProcessTypes'
<1>1. CASE r = AtRest
  BY <1>1, RestTypes DEF ProcessTypes, PutOnDisk
<1>2. CASE r # AtRest
  <2>1. FetchTypes(IF p = "pass" THEN pass ELSE backfill)
    BY DEF ProcessTypes
  <2>2. FetchTypes(r)
    BY <1>2, <2>1 DEF FetchTypes, Fetching, AtItem
  <2>3. p = "pass" => Len(r.paths) = Len(r.todo)
    <3>1. p = "pass" => r.paths = pass.paths /\ r.todo = pass.todo
      BY <1>2, <2>1 DEF FetchTypes, Fetching
    <3> QED BY <3>1 DEF ProcessTypes
  <2> QED BY <2>2, <2>3 DEF ProcessTypes, PutOnDisk
<1> QED BY <1>1, <1>2

LEMMA DownloadKeeps ==
    ASSUME FilesInv, NEW p \in {"pass", "backfill"}, NEW process,
           process = IF p = "pass" THEN pass ELSE backfill,
           Download(p, process) \/ Interrupted(p, process)
    PROVE  FilesInv'
<1>0. RowsTypes /\ ContentTypes /\ ProcessTypes /\ FetchTypes(process)
  BY DEF FilesInv, ProcessTypes
<1>1. process.at \in AtItem => process.item \in Items /\ Place(p, process.item) \in Places
  BY <1>0 DEF FetchTypes, Place, Places
<1>2. CASE Open(p, process) \/ Complete(p, process) \/ Broken(p, process)
  <2>1. process.item \in Items /\ Place(p, process.item) \in Places
    BY <1>1, <1>2 DEF Open, Complete, Broken, AtItem
  <2>2. \E left \in OnDisk : disk' = [disk EXCEPT ![process.item][Place(p, process.item)] = left]
    BY <1>2 DEF Open, Complete, Broken, OnDisk
  <2>3. disk' \in [Items -> [Places -> OnDisk]]
    BY <1>0, <2>1, <2>2, SetInside DEF ContentTypes
  <2>4. forgotten' \subseteq Items /\ UNCHANGED <<files, oldest, jobs, texts, worker>>
    BY <1>0, <1>2, <2>1 DEF Open, Complete, Broken, ContentTypes
  <2>5. \E at \in {"write", "next", "record"} : PutOnDisk(p, [process EXCEPT !.at = at])
    BY <1>2 DEF Open, Complete, Broken
  <2>6. process.at \in AtItem
    BY <1>2 DEF Open, Complete, Broken, AtItem
  <2>7. ProcessTypes'
    BY <1>0, <2>4, <2>5, <2>6, PutKeepsFetch DEF AtItem, ProcessTypes
  <2> QED BY <1>0, <2>3, <2>4, <2>7 DEF FilesInv, RowsTypes, ContentTypes
<1>3. CASE SlackRefuses(p, process) \/ RefusedAsEver(p, process)
  <2>1. UNCHANGED <<files, oldest, disk, jobs, texts, worker, forgotten>>
    BY <1>3 DEF SlackRefuses, RefusedAsEver
  <2>2. process.at \in AtItem /\ PutOnDisk(p, [process EXCEPT !.at = "next"])
    BY <1>3 DEF SlackRefuses, RefusedAsEver, AtItem
  <2>3. ProcessTypes'
    BY <1>0, <2>1, <2>2, PutKeepsFetch DEF ProcessTypes
  <2> QED BY <1>0, <2>1, <2>3 DEF FilesInv, RowsTypes, ContentTypes
<1>4. CASE Record(p, process)
  <2>1. process.item \in Items /\ process.at \in AtItem /\ Place(p, process.item) \in Places
    BY <1>1, <1>4 DEF Record, AtItem
  <2>2. [path |-> Place(p, process.item), sum |-> TRUE] \in FileRow
    BY <2>1 DEF FileRow
  <2>3. RowsTypes'
    BY <1>0, <1>4, <2>1, <2>2, UpdatedKeeps DEF Record
  <2>4. PutOnDisk(p, [process EXCEPT !.at = "enqueue"])
        /\ UNCHANGED <<disk, jobs, texts, worker, forgotten>>
    BY <1>4 DEF Record
  <2>5. ProcessTypes'
    BY <1>0, <2>1, <2>4, PutKeepsFetch DEF ProcessTypes, AtItem
  <2> QED BY <1>0, <2>3, <2>4, <2>5 DEF FilesInv, ContentTypes
<1>5. CASE AskAgain(p, process)
  <2>1. process.item \in Items /\ process.at \in AtItem
    BY <1>1, <1>5 DEF AskAgain, AtItem
  <2>2. Enqueue(process.item) /\ PutOnDisk(p, [process EXCEPT !.at = "next"])
        /\ UNCHANGED <<files, oldest, disk, texts>>
    BY <1>5 DEF AskAgain
  <2>3. ContentTypes' /\ WorkerTypes(worker')
    BY <1>0, <2>1, <2>2, EnqueueKeeps DEF ProcessTypes
  <2>4. ProcessTypes'
    BY <1>0, <2>1, <2>2, <2>3, PutKeepsFetch
  <2> QED BY <1>0, <2>2, <2>3, <2>4 DEF FilesInv, RowsTypes
<1>6. CASE Kill(p, process)
  <2>1. UNCHANGED <<files, oldest, disk, jobs, texts, worker>> /\ PutOnDisk(p, AtRest)
    BY <1>6 DEF Kill
  <2>2. forgotten' \subseteq Items
    BY <1>0, <1>1, <1>6 DEF Kill, ContentTypes, AtItem
  <2>3. ProcessTypes'
    BY <1>0, <2>1, PutKeepsFetch DEF ProcessTypes
  <2> QED BY <1>0, <2>1, <2>2, <2>3 DEF FilesInv, RowsTypes, ContentTypes
<1> QED BY <1>2, <1>3, <1>4, <1>5, <1>6 DEF Download, Interrupted

LEMMA WorkerKeeps ==
    ASSUME FilesInv, Working \/ FailJob \/ KillWorker
    PROVE  FilesInv'
<1>0. RowsTypes /\ ContentTypes /\ ProcessTypes
  BY DEF FilesInv
<1>1. UNCHANGED <<files, oldest, disk, backfill, pass>>
  BY DEF Working, MarkJob, Extract, FailJob, KillWorker
<1>2. ASSUME NEW i \in Items, Extract(i) PROVE FilesInv'
  <2>1. (IF files[i] = NoRow THEN "none" ELSE files[i].path) \in Places \union {"none"}
    BY <1>0 DEF RowsTypes, FileRow
  <2>2. WorkerTypes(worker')
    BY <1>0, <1>2, <2>1, ContentOnDisk DEF Extract, WorkerTypes
  <2>3. ContentTypes'
    BY <1>0, <1>2 DEF Extract, ContentTypes
  <2> QED BY <1>0, <1>1, <2>2, <2>3 DEF FilesInv, RowsTypes, ProcessTypes
<1>3. CASE MarkJob \/ FailJob \/ KillWorker
  <2>1. worker' = NoFetch /\ worker # NoFetch
    BY <1>3 DEF MarkJob, FailJob, KillWorker
  <2>2. worker.item \in Items /\ worker.read \in OnDisk
    BY <1>0, <2>1 DEF ProcessTypes, WorkerTypes
  <2>3. ContentTypes'
    BY <1>0, <1>1, <1>3, <2>2 DEF MarkJob, FailJob, KillWorker, ContentTypes, OnDisk
  <2> QED BY <1>0, <1>1, <2>1, <2>3 DEF FilesInv, RowsTypes, ProcessTypes, WorkerTypes
<1> QED BY <1>2, <1>3 DEF Working

(* What Slack holds does not change.                                       *)
HeldInv == held \in Holdings /\ FilesInv

LEMMA FilesStepKeeps == HeldInv /\ [FilesNext]_filesVars => HeldInv'
<1> SUFFICES ASSUME held \in Holdings, FilesInv, [FilesNext]_filesVars PROVE HeldInv'
  BY DEF HeldInv
<1>0. held' = held
  BY DEF FilesNext, filesVars
<1> SUFFICES FilesInv'
  BY <1>0 DEF HeldInv
<1>1. ASSUME NEW i \in Items, FileEvent(i) PROVE FilesInv'
  <2>1. [path |-> "none", sum |-> FALSE] \in FileRow
    BY DEF FileRow
  <2>2. RowsTypes'
    BY <1>1, <2>1, UpdatedKeeps DEF FileEvent, FilesInv
  <2> QED BY <1>1, <2>2 DEF FileEvent, FilesInv, ContentTypes, ProcessTypes
<1>2. CASE Download("backfill", backfill) \/ Interrupted("backfill", backfill)
  BY <1>2, DownloadKeeps
<1>3. CASE Download("pass", pass) \/ Interrupted("pass", pass)
  BY <1>3, DownloadKeeps
<1>4. CASE UNCHANGED filesVars
  BY <1>4 DEF filesVars, FilesInv, RowsTypes, ContentTypes, ProcessTypes
<1> QED BY <1>1, <1>2, <1>3, <1>4, BackfillKeeps, PassKeeps, WorkerKeeps DEF FilesNext, FilesSteps

LEMMA HeldBegins == FilesInit => HeldInv
BY FilesBegin DEF FilesInit, HeldInv

LEMMA FilesInvTypes == HeldInv => FilesTypeOK
BY DEF HeldInv, FilesInv, RowsTypes, ContentTypes, FilesTypeOK, FileRow, OnDisk

(* Rows, content on disk, jobs and texts keep their types, and a row is    *)
(* once in the order of the updates, however the backfill, the passes and  *)
(* the worker overlap, for any files and bounds (update_file_download).    *)
THEOREM FilesTypeCorrect == FilesSpec => []FilesTypeOK
BY HeldBegins, FilesStepKeeps, FilesInvTypes, PTL DEF FilesSpec

-----------------------------------------------------------------------------
(* The catch-up runner *)

Runners == {"down", "between", "pass"}

CatchupTypes ==
    /\ newest \in [CatchupChannels -> 0 .. 2] /\ mirrored \in [CatchupChannels -> 0 .. 2]
    /\ checkpointed \subseteq CatchupChannels /\ tried \subseteq CatchupChannels
    /\ noted \in Seq(CatchupChannels) /\ savedNotes \in Seq(CatchupChannels)
    /\ passQueue \in Seq(CatchupChannels) /\ runner \in Runners

Once(s) == \A i, j \in DOMAIN s : s[i] = s[j] => i = j

(* What this run tried was tried after all that runs before it tried.      *)
TriedLastIn(T, s) ==
    /\ \A c \in T : \E i \in DOMAIN s : s[i] = c
    /\ \A i, j \in DOMAIN s : s[i] \in T /\ s[j] \notin T => j < i

CatchupInv ==
    /\ CatchupTypes /\ Once(noted) /\ Once(savedNotes) /\ Once(passQueue)
    /\ runner # "down" => TriedLastIn(tried, noted)

LEMMA CatchupBegins == CatchupInit => CatchupInv
<1>1. CatchupInit => CatchupTypes
  BY CatchupAssumption DEF CatchupInit, CatchupTypes, Runners
<1> QED BY <1>1 DEF CatchupInit, CatchupInv, Once

(* What is tried goes to the end of what was tried before.                 *)
LEMMA NotedAgain ==
    ASSUME NEW s \in Seq(CatchupChannels), Once(s), NEW c \in CatchupChannels
    PROVE  /\ Append(Without(s, c), c) \in Seq(CatchupChannels) /\ Once(Append(Without(s, c), c))
           /\ \A T : TriedLastIn(T, s) => TriedLastIn(T \union {c}, Append(Without(s, c), c))
<1> PICK w : w = Without(s, c)
  OBVIOUS
<1>1. /\ w \in Seq(CatchupChannels)
      /\ \A i \in DOMAIN w : \E a \in DOMAIN s : w[i] = s[a] /\ s[a] # c
      /\ \A a \in DOMAIN s : s[a] # c => \E i \in DOMAIN w : w[i] = s[a]
      /\ \A i, j \in DOMAIN w : i < j => \E a, b \in DOMAIN s : a < b /\ w[i] = s[a] /\ w[j] = s[b]
  BY WithoutFacts
<1> PICK t : t = Append(w, c)
  OBVIOUS
<1>2. /\ t \in Seq(CatchupChannels) /\ Len(w) \in Nat /\ DOMAIN w = 1 .. Len(w)
      /\ DOMAIN t = 1 .. (Len(w) + 1) /\ t[Len(w) + 1] = c
      /\ \A i \in DOMAIN w : i \in DOMAIN t /\ t[i] = w[i] /\ i <= Len(w)
      /\ \A i \in DOMAIN t : i \in DOMAIN w \/ i = Len(w) + 1
  BY <1>1
<1>3. DOMAIN s \in SUBSET Nat
  OBVIOUS
<1>4. \A i \in DOMAIN w : w[i] # c
  BY <1>1
<1>5. ASSUME NEW i \in DOMAIN w, NEW j \in DOMAIN w, i < j PROVE w[i] # w[j]
  <2>1. PICK a \in DOMAIN s, b \in DOMAIN s : a < b /\ w[i] = s[a] /\ w[j] = s[b]
    BY <1>1, <1>5
  <2> QED BY <1>3, <2>1 DEF Once
<1>6. Once(t)
  <2> SUFFICES ASSUME NEW i \in DOMAIN t, NEW j \in DOMAIN t, t[i] = t[j], i < j PROVE FALSE
    BY <1>2 DEF Once
  <2>1. i \in DOMAIN w
    BY <1>2
  <2> QED BY <1>2, <1>4, <1>5, <2>1
<1>7. ASSUME NEW T, TriedLastIn(T, s) PROVE TriedLastIn(T \union {c}, t)
  <2>1. ASSUME NEW d \in T \union {c} PROVE \E i \in DOMAIN t : t[i] = d
    <3>1. CASE d = c
      BY <1>2, <3>1
    <3>2. CASE d # c
      <4>1. PICK a \in DOMAIN s : s[a] = d
        BY <1>7, <3>2 DEF TriedLastIn
      <4>2. PICK i \in DOMAIN w : w[i] = d
        BY <1>1, <3>2, <4>1
      <4> QED BY <1>2, <4>2
    <3> QED BY <3>1, <3>2
  <2>2. ASSUME NEW i \in DOMAIN t, NEW j \in DOMAIN t, t[i] \in T \union {c}, t[j] \notin T \union {c}
        PROVE  j < i
    <3>1. j \in DOMAIN w
      BY <1>2, <2>2
    <3>2. CASE i \notin DOMAIN w
      BY <1>2, <3>1, <3>2
    <3>3. CASE i \in DOMAIN w /\ i < j
      <4>1. PICK a \in DOMAIN s, b \in DOMAIN s : a < b /\ w[i] = s[a] /\ w[j] = s[b]
        BY <1>1, <3>1, <3>3
      <4>2. s[a] \in T /\ s[b] \notin T
        BY <1>2, <1>4, <2>2, <3>1, <3>3, <4>1
      <4>3. b < a
        BY <1>7, <4>2 DEF TriedLastIn
      <4> QED BY <1>3, <4>1, <4>3
    <3>4. CASE i = j
      BY <2>2, <3>4
    <3> QED BY <1>2, <3>1, <3>2, <3>3, <3>4
  <2> QED BY <2>1, <2>2 DEF TriedLastIn
<1> QED BY <1>2, <1>6, <1>7

-----------------------------------------------------------------------------
(* The candidates in their order *)

SoonerPairs == {p \in Candidates \X Candidates : Sooner(p[1], p[2])}

LEMMA TriedAtFacts ==
    ASSUME CatchupInv
    PROVE  /\ \A c \in Noted : TriedAt(c) \in DOMAIN noted /\ noted[TriedAt(c)] = c /\ TriedAt(c) \in Nat
           /\ \A i \in DOMAIN noted : noted[i] \in Noted /\ TriedAt(noted[i]) = i
<1>1. noted \in Seq(CatchupChannels) /\ Once(noted)
  BY DEF CatchupInv, CatchupTypes
<1>2. \A c : c \in Noted <=> \E i \in DOMAIN noted : noted[i] = c
  BY DEF Noted, Seqs!ToSet
<1>3. \A c \in Noted : TriedAt(c) \in DOMAIN noted /\ noted[TriedAt(c)] = c
  BY <1>2 DEF TriedAt
<1>4. \A i \in DOMAIN noted : noted[i] \in Noted
  BY <1>2
<1>5. \A i \in DOMAIN noted : TriedAt(noted[i]) = i
  BY <1>1, <1>3, <1>4 DEF Once
<1>6. DOMAIN noted \in SUBSET Nat
  BY <1>1
<1> QED BY <1>3, <1>4, <1>5, <1>6

LEMMA SoonerOrders == ASSUME CatchupInv PROVE Orders(SoonerPairs, Candidates)
<1>1. /\ IsFiniteSet(Candidates) /\ Candidates \in SUBSET CatchupChannels
      /\ \A c \in Candidates : c \in Nat /\ mirrored[c] \in 0 .. 2
  <2>1. Candidates \in SUBSET CatchupChannels
    BY DEF Candidates
  <2>2. IsFiniteSet(Candidates)
    BY <2>1, CatchupAssumption, FS_Subset
  <2> QED BY <2>1, <2>2, CatchupAssumption DEF CatchupInv, CatchupTypes
<1>2. \A c \in Noted : TriedAt(c) \in Nat
  BY TriedAtFacts
<1>3. \A c, d \in Noted : TriedAt(c) = TriedAt(d) => c = d
  BY TriedAtFacts
<1>4. \A c, d \in Candidates : <<c, d>> \in SoonerPairs <=> Sooner(c, d)
  BY DEF SoonerPairs
<1>5. ASSUME NEW c \in Candidates, NEW d \in Candidates
      PROVE  Sooner(c, d) <=>
               \/ c \notin Noted /\ d \in Noted
               \/ c \in Noted /\ d \in Noted /\ TriedAt(c) < TriedAt(d)
               \/ /\ c \notin Noted /\ d \notin Noted
                  /\ mirrored[c] < mirrored[d] \/ (mirrored[c] = mirrored[d] /\ c < d)
  BY DEF Sooner
<1>6. \A c \in Candidates : ~Sooner(c, c)
  BY <1>1, <1>2, <1>5
<1>7. \A c, d \in Candidates : c = d \/ Sooner(c, d) \/ Sooner(d, c)
  BY <1>1, <1>2, <1>3, <1>5
<1>8. \A c, d, e \in Candidates : Sooner(c, d) /\ Sooner(d, e) => Sooner(c, e)
  BY <1>1, <1>2, <1>5
<1> QED BY <1>1, <1>4, <1>6, <1>7, <1>8 DEF Orders

LEMMA ListFacts ==
    ASSUME CatchupInv
    PROVE  /\ ListCandidates \in Seq(CatchupChannels) /\ Once(ListCandidates)
           /\ \A i \in DOMAIN ListCandidates : ListCandidates[i] \in Candidates
           /\ \A c \in Candidates : \E i \in DOMAIN ListCandidates : ListCandidates[i] = c
           /\ \A i, j \in DOMAIN ListCandidates : Sooner(ListCandidates[i], ListCandidates[j]) => i < j
<1>1. ListCandidates = InPlaces(Candidates, SoonerPairs)
  BY DEF ListCandidates, SoonerPairs
<1>2. Orders(SoonerPairs, Candidates)
  BY SoonerOrders
<1>3. Enumerates(ListCandidates, Candidates)
  BY <1>1, <1>2, PlacesEnumerate
<1>4. Candidates \in SUBSET CatchupChannels
  BY DEF Candidates
<1>5. /\ ListCandidates \in Seq(Candidates) /\ DOMAIN ListCandidates = 1 .. Cardinality(Candidates)
      /\ \A c \in Candidates : \E i \in DOMAIN ListCandidates : ListCandidates[i] = c
      /\ Once(ListCandidates)
  BY <1>3 DEF Enumerates, Once
<1>6. \A i \in DOMAIN ListCandidates : ListCandidates[i] \in Candidates
  <2>1. \A s \in Seq(Candidates) : \A i \in DOMAIN s : s[i] \in Candidates
    OBVIOUS
  <2> QED BY <1>5, <2>1
<1>7. ListCandidates \in Seq(CatchupChannels)
  BY <1>4, <1>5
<1>8. ASSUME NEW i \in DOMAIN ListCandidates, NEW j \in DOMAIN ListCandidates,
             Sooner(ListCandidates[i], ListCandidates[j])
      PROVE  i < j
  <2>1. <<ListCandidates[i], ListCandidates[j]>> \in SoonerPairs
    BY <1>6, <1>8 DEF SoonerPairs
  <2> QED BY <1>1, <1>2, <1>5, <2>1, PlacesRise
<1> QED BY <1>5, <1>6, <1>7, <1>8

(* A pass takes the first of them.                                         *)
LEMMA PassFacts ==
    ASSUME CatchupInv, BeginPass
    PROVE  /\ passQueue' \in Seq(CatchupChannels) /\ Once(passQueue')
           /\ \A i \in DOMAIN passQueue' :
                i \in DOMAIN ListCandidates /\ passQueue'[i] = ListCandidates[i]
           /\ \A i \in DOMAIN passQueue' : \A j \in DOMAIN ListCandidates :
                j < i => j \in DOMAIN passQueue'
<1> PICK list : list = ListCandidates
  OBVIOUS
<1>1. list \in Seq(CatchupChannels) /\ Once(list) /\ Len(list) \in Nat /\ DOMAIN list = 1 .. Len(list)
  BY ListFacts
<1>2. PICK n \in 0 .. Len(list) : passQueue' = SubSeq(list, 1, n)
  <2>1. CASE PerPassLimit = 0
    <3>1. SubSeq(list, 1, Len(list)) = list
      BY <1>1
    <3>2. passQueue' = list
      BY <2>1 DEF BeginPass
    <3>3. Len(list) \in 0 .. Len(list)
      BY <1>1
    <3> QED BY <3>1, <3>2, <3>3
  <2>2. CASE PerPassLimit # 0
    <3>1. (IF PerPassLimit < Len(list) THEN PerPassLimit ELSE Len(list)) \in 0 .. Len(list)
      BY <1>1, CatchupAssumption
    <3>2. passQueue' = SubSeq(list, 1, IF PerPassLimit < Len(list) THEN PerPassLimit ELSE Len(list))
      BY <2>2 DEF BeginPass
    <3> QED BY <3>1, <3>2
  <2> QED BY <2>1, <2>2
<1>3. /\ passQueue' \in Seq(CatchupChannels) /\ DOMAIN passQueue' = 1 .. n
      /\ \A i \in 1 .. n : passQueue'[i] = list[i] /\ i \in DOMAIN list
  BY <1>1, <1>2
<1>4. Once(passQueue')
  BY <1>1, <1>3 DEF Once
<1>5. \A i \in DOMAIN passQueue' : \A j \in DOMAIN list : j < i => j \in DOMAIN passQueue'
  BY <1>1, <1>3
<1> QED BY <1>3, <1>4, <1>5

(* A channel not tried in this run is listed before those that were.       *)
LEMMA UntriedSooner ==
    ASSUME CatchupInv, runner # "down", NEW c \in Candidates \ tried, NEW d \in Candidates \intersect tried
    PROVE  Sooner(c, d)
<1>1. TriedLastIn(tried, noted)
  BY DEF CatchupInv
<1>2. PICK i \in DOMAIN noted : noted[i] = d
  BY <1>1 DEF TriedLastIn
<1>3. d \in Noted /\ TriedAt(d) = i
  BY <1>2, TriedAtFacts
<1>4. CASE c \notin Noted
  BY <1>3, <1>4 DEF Sooner
<1>5. CASE c \in Noted
  <2>1. TriedAt(c) \in DOMAIN noted /\ noted[TriedAt(c)] = c
    BY <1>5, TriedAtFacts
  <2>2. TriedAt(c) < i
    BY <1>1, <1>2, <2>1 DEF TriedLastIn
  <2> QED BY <1>3, <1>5, <2>2 DEF Sooner
<1> QED BY <1>4, <1>5

LEMMA NoSecondTurn ==
    ASSUME CatchupInv, BeginPass, Seqs!ToSet(passQueue') \intersect tried # {}
    PROVE  Candidates \subseteq tried \union Seqs!ToSet(passQueue')
<1>1. PICK i \in DOMAIN passQueue' : passQueue'[i] \in tried
  BY DEF Seqs!ToSet
<1>2. i \in DOMAIN ListCandidates /\ passQueue'[i] = ListCandidates[i]
  BY PassFacts
<1>3. ListCandidates[i] \in Candidates \intersect tried
  BY <1>1, <1>2, ListFacts
<1>4. ASSUME NEW c \in Candidates, c \notin tried PROVE c \in Seqs!ToSet(passQueue')
  <2>1. PICK j \in DOMAIN ListCandidates : ListCandidates[j] = c
    BY ListFacts
  <2>2. runner # "down"
    BY DEF BeginPass
  <2>3. Sooner(c, ListCandidates[i])
    BY <1>3, <1>4, <2>2, UntriedSooner
  <2>4. j < i
    BY <1>2, <2>1, <2>3, ListFacts
  <2>5. j \in DOMAIN passQueue' /\ passQueue'[j] = c
    BY <1>2, <2>1, <2>4, PassFacts
  <2> QED BY <2>5 DEF Seqs!ToSet
<1> QED BY <1>4

-----------------------------------------------------------------------------
(* The steps of the runner *)

LEMMA QueueFacts ==
    ASSUME CatchupInv, passQueue # <<>>
    PROVE  /\ Head(passQueue) \in CatchupChannels /\ Tail(passQueue) \in Seq(CatchupChannels)
           /\ Once(Tail(passQueue))
<1>1. passQueue \in Seq(CatchupChannels) /\ Once(passQueue)
  BY DEF CatchupInv, CatchupTypes
<1>2. Head(passQueue) \in CatchupChannels /\ Tail(passQueue) \in Seq(CatchupChannels)
  BY <1>1
<1>3. /\ Len(passQueue) \in Nat \ {0} /\ DOMAIN Tail(passQueue) = 1 .. (Len(passQueue) - 1)
      /\ \A i \in 1 .. (Len(passQueue) - 1) : Tail(passQueue)[i] = passQueue[i + 1]
      /\ DOMAIN passQueue = 1 .. Len(passQueue)
  BY <1>1
<1>4. Once(Tail(passQueue))
  <2> SUFFICES ASSUME NEW i \in 1 .. (Len(passQueue) - 1), NEW j \in 1 .. (Len(passQueue) - 1),
                      passQueue[i + 1] = passQueue[j + 1]
               PROVE  i = j
    BY <1>3 DEF Once
  <2>1. i + 1 \in DOMAIN passQueue /\ j + 1 \in DOMAIN passQueue
    BY <1>3
  <2>2. i + 1 = j + 1
    BY <1>1, <2>1 DEF Once
  <2> QED BY <1>3, <2>2
<1> QED BY <1>2, <1>4

LEMMA MirrorTypes ==
    ASSUME CatchupInv, NEW c \in CatchupChannels, Mirror_(c) \/ UNCHANGED <<mirrored, checkpointed>>
    PROVE  mirrored' \in [CatchupChannels -> 0 .. 2] /\ checkpointed' \subseteq CatchupChannels
BY DEF CatchupInv, CatchupTypes, Mirror_

LEMMA TriesKeep ==
    ASSUME CatchupInv, TryChannel \/ DeferChannel
    PROVE  CatchupInv'
<1> PICK c : c = Head(passQueue)
  OBVIOUS
<1>1. /\ runner = "pass" /\ passQueue # <<>> /\ Note(c) /\ passQueue' = Tail(passQueue)
      /\ Mirror_(c) \/ UNCHANGED <<mirrored, checkpointed>>
      /\ UNCHANGED <<newest, savedNotes, runner>>
  BY DEF TryChannel, DeferChannel
<1>2. c \in CatchupChannels /\ passQueue' \in Seq(CatchupChannels) /\ Once(passQueue')
  BY <1>1, QueueFacts
<1>3. mirrored' \in [CatchupChannels -> 0 .. 2] /\ checkpointed' \subseteq CatchupChannels
  BY <1>1, <1>2, MirrorTypes
<1>4. noted' = Append(Without(noted, c), c) /\ tried' = tried \union {c}
  BY <1>1 DEF Note
<1>5. noted \in Seq(CatchupChannels) /\ Once(noted) /\ TriedLastIn(tried, noted)
  BY <1>1 DEF CatchupInv, CatchupTypes
<1>6. noted' \in Seq(CatchupChannels) /\ Once(noted') /\ TriedLastIn(tried', noted')
  BY <1>2, <1>4, <1>5, NotedAgain
<1>7. tried' \subseteq CatchupChannels
  BY <1>2, <1>4 DEF CatchupInv, CatchupTypes
<1>8. CatchupTypes'
  BY <1>1, <1>2, <1>3, <1>6, <1>7 DEF CatchupInv, CatchupTypes
<1>9. Once(savedNotes')
  BY <1>1 DEF CatchupInv
<1> QED BY <1>2, <1>6, <1>8, <1>9 DEF CatchupInv

LEMMA EmptyList == Once(<<>>) /\ <<>> \in Seq(CatchupChannels)
BY DEF Once

LEMMA CatchupStepKeeps == CatchupInv /\ [CatchupNext]_catchupVars => CatchupInv'
<1> SUFFICES ASSUME CatchupInv, [CatchupNext]_catchupVars PROVE CatchupInv'
  OBVIOUS
<1>0. /\ CatchupTypes /\ Once(noted) /\ Once(savedNotes) /\ Once(passQueue)
      /\ runner # "down" => TriedLastIn(tried, noted)
  BY DEF CatchupInv
<1>1. CASE StartRunner
  <2>1. CatchupTypes'
    BY <1>0, <1>1 DEF StartRunner, CatchupTypes, Runners
  <2>2. TriedLastIn(tried', noted')
    BY <1>1 DEF StartRunner, TriedLastIn
  <2>3. Once(noted') /\ Once(savedNotes') /\ Once(passQueue')
    BY <1>0, <1>1 DEF StartRunner
  <2> QED BY <2>1, <2>2, <2>3 DEF CatchupInv
<1>2. CASE BeginPass
  <2>1. passQueue' \in Seq(CatchupChannels) /\ Once(passQueue')
    BY <1>2, PassFacts
  <2>2. CatchupTypes'
    BY <1>0, <1>2, <2>1 DEF BeginPass, CatchupTypes, Runners
  <2>3. Once(noted') /\ Once(savedNotes') /\ TriedLastIn(tried', noted')
    BY <1>0, <1>2 DEF BeginPass
  <2> QED BY <2>1, <2>2, <2>3 DEF CatchupInv
<1>3. CASE TryChannel \/ DeferChannel
  BY <1>3, TriesKeep
<1>4. CASE EndRunner
  <2>1. CatchupTypes'
    BY <1>0, <1>4, EmptyList DEF EndRunner, CatchupTypes, Runners
  <2>2. Once(noted') /\ Once(savedNotes') /\ Once(passQueue') /\ runner' = "down"
    BY <1>0, <1>4, EmptyList DEF EndRunner
  <2> QED BY <2>1, <2>2 DEF CatchupInv
<1>5. CASE EndPass
  <2>1. CatchupTypes'
    BY <1>0, <1>5, EmptyList DEF EndPass, CatchupTypes, Runners
  <2>2. Once(noted') /\ Once(savedNotes') /\ Once(passQueue')
    BY <1>0, <1>5, EmptyList DEF EndPass
  <2>3. runner' # "down" => TriedLastIn(tried', noted')
    BY <1>0, <1>5 DEF EndPass
  <2> QED BY <2>1, <2>2, <2>3 DEF CatchupInv
<1>6. CASE UNCHANGED <<checkpointed, noted, savedNotes, passQueue, runner, tried>>
           /\ newest' \in [CatchupChannels -> 0 .. 2] /\ mirrored' \in [CatchupChannels -> 0 .. 2]
  BY <1>0, <1>6 DEF CatchupInv, CatchupTypes
<1>7. ASSUME NEW c \in CatchupChannels, PostInChannel(c) \/ ChangeAccess(c) PROVE CatchupInv'
  <2>1. newest' \in [CatchupChannels -> 0 .. 2] /\ mirrored' \in [CatchupChannels -> 0 .. 2]
    BY <1>0, <1>7 DEF PostInChannel, ChangeAccess, CatchupTypes
  <2> QED BY <1>6, <1>7, <2>1 DEF PostInChannel, ChangeAccess
<1>8. CASE DayPasses
  <2>1. newest' \in [CatchupChannels -> 0 .. 2] /\ mirrored' \in [CatchupChannels -> 0 .. 2]
    BY <1>8 DEF DayPasses
  <2> QED BY <1>6, <1>8, <2>1 DEF DayPasses
<1>9. CASE UNCHANGED catchupVars
  BY <1>0, <1>6, <1>9 DEF catchupVars, CatchupTypes
<1> QED BY <1>1, <1>2, <1>3, <1>4, <1>5, <1>7, <1>8, <1>9
        DEF CatchupNext, RaiseChannel, KillRunner

LEMMA CatchupInvTypes == CatchupInv => CatchupTypeOK
<1> SUFFICES ASSUME CatchupInv PROVE CatchupTypeOK
  OBVIOUS
<1>1. \A s \in Seq(CatchupChannels) : Seqs!ToSet(s) \subseteq CatchupChannels
  BY DEF Seqs!ToSet
<1>2. Once(noted) /\ Once(passQueue)
  BY DEF CatchupInv
<1>3. Seqs!IsInjective(noted) /\ Seqs!IsInjective(passQueue)
  BY <1>2 DEF Once, Seqs!IsInjective
<1> QED BY <1>1, <1>3 DEF CatchupInv, CatchupTypes, CatchupTypeOK, Noted, Runners

(* The catch-up runner's tables, its notes and its queue keep their types, *)
(* for any channels and limits (scripts/catchup_until_complete.py).        *)
THEOREM CatchupTypeCorrect == CatchupSpec => []CatchupTypeOK
BY CatchupBegins, CatchupStepKeeps, CatchupInvTypes, PTL DEF CatchupSpec

LEMMA BeginsFairly ==
    CatchupInv /\ [CatchupNext]_catchupVars =>
        [BeginPass /\ Seqs!ToSet(passQueue') \intersect tried # {}
            => Candidates \subseteq tried \union Seqs!ToSet(passQueue')]_catchupVars
BY NoSecondTurn

(* No channel gets a second turn in a run while another that needs one     *)
(* waits for its first, for any channels, limits and cuts of earlier runs  *)
(* (list_candidate_channels).                                              *)
THEOREM EveryChannelInTurn == CatchupSpec => NoSecondTurnFirst
BY CatchupBegins, CatchupStepKeeps, BeginsFairly, PTL DEF CatchupSpec, NoSecondTurnFirst

-----------------------------------------------------------------------------
(* The services together *)

(* Every part of the services keeps the types of its variables, whatever   *)
(* the constants (journal, sign-in, exports, reports, directory, files,    *)
(* rollout, catch-up and the standalone exporter).                         *)
THEOREM ServicesTypeCorrect == Spec => []ServicesTypeOK
<1>1. Init => /\ JournalInit /\ AuthInit /\ ExportsInit /\ ReportsInit /\ DirectoryInit
              /\ FilesInit /\ RolloutInit /\ CatchupInit /\ ScriptInit
  BY DEF Init
<1>2. [Next]_vars =>
        /\ [JournalNext]_journalVars /\ [AuthNext]_authVars /\ [ExportsNext]_exportVars
        /\ [ReportsNext]_reportVars /\ [DirectoryNext]_directoryVars
        /\ [FilesNext]_filesVars /\ [RolloutNext]_rolloutVars
        /\ [CatchupNext]_catchupVars /\ [ScriptNext]_scriptVars
  BY DEF Next, Alone, vars
<1>3. Spec => []JournalTypeOK
  <2>1. Spec => JournalSpec
    BY <1>1, <1>2, PTL DEF Spec, JournalSpec
  <2> QED BY <2>1, JournalTypeCorrect
<1>4. Spec => []AuthTypeOK
  <2>1. Spec => AuthSpec
    BY <1>1, <1>2, PTL DEF Spec, AuthSpec
  <2> QED BY <2>1, AuthTypeCorrect
<1>5. Spec => []ExportsTypeOK
  <2>1. Spec => ExportsSpec
    BY <1>1, <1>2, PTL DEF Spec, ExportsSpec
  <2> QED BY <2>1, ExportsTypeCorrect
<1>6. Spec => []ReportsTypeOK
  <2>1. Spec => ReportsSpec
    BY <1>1, <1>2, PTL DEF Spec, ReportsSpec
  <2> QED BY <2>1, ReportsTypeCorrect
<1>7. Spec => []DirectoryTypeOK
  <2>1. Spec => DirectorySpec
    BY <1>1, <1>2, PTL DEF Spec, DirectorySpec
  <2> QED BY <2>1, DirectoryTypeCorrect
<1>8. Spec => []FilesTypeOK
  BY <1>1, <1>2, HeldBegins, FilesStepKeeps, FilesInvTypes, PTL DEF Spec
<1>9. Spec => []RolloutTypeOK
  BY <1>1, <1>2, RolloutBegins, RolloutStepTypes, RolloutTypesUnfold, PTL DEF Spec
<1>10. Spec => []CatchupTypeOK
  <2>1. Spec => CatchupSpec
    BY <1>1, <1>2, PTL DEF Spec, CatchupSpec
  <2> QED BY <2>1, CatchupTypeCorrect
<1>11. Spec => []ScriptTypeOK
  <2>1. Spec => ScriptSpec
    BY <1>1, <1>2, PTL DEF Spec, ScriptSpec
  <2> QED BY <2>1, ScriptTypeCorrect
<1>12. JournalTypeOK /\ AuthTypeOK /\ ExportsTypeOK /\ ReportsTypeOK /\ DirectoryTypeOK
       /\ FilesTypeOK /\ RolloutTypeOK /\ CatchupTypeOK /\ ScriptTypeOK => ServicesTypeOK
  BY DEF ServicesTypeOK
<1> QED BY <1>3, <1>4, <1>5, <1>6, <1>7, <1>8, <1>9, <1>10, <1>11, <1>12, PTL
=============================================================================
