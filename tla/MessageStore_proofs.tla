------------------------ MODULE MessageStore_proofs ------------------------
(***************************************************************************)
(* Proofs about MessageStore, for every set of processes, messages, texts  *)
(* and files and every value of the bounds: type correctness, that keyword *)
(* search and the file links follow the rows (IndexFollowsRow,             *)
(* LinksFollowRow), and that a live message has the embedding of its text  *)
(* or a job to get it (EmbeddingTracksText).                               *)
(*                                                                         *)
(* IndexFollowsRow is not inductive: that an `unchanged` upsert may skip   *)
(* the index holds because the row it compared with is still there when it *)
(* writes.  SameMeans and Written say so for every upsert in progress, and *)
(* Alone that nobody else can have written the row in between.             *)
(* LinksWritten adds what the second transaction left, and HeldIsCurrent   *)
(* that what a batch has read of a message is still how it reads.          *)
(***************************************************************************)
EXTENDS MessageStore, TLAPS

InUpsert(p) == pc[p] \in {"row", "links", "index"}

(* A process has a message exactly while it upserts one, an unchanged      *)
(* upsert never reaches the index, and only a batch of jobs marks them.    *)
Working ==
    \A p \in Procs :
        /\ InUpsert(p) => msg[p] \in Message
        /\ pc[p] = "index" => ~same[p]
        /\ pc[p] = "mark" => queued[p]

Alone ==
    \A k \in Keys \ overlapped : \A p, q \in Procs :
        Upserting(p, k) /\ Upserting(q, k) => p = q

SameMeans ==
    \A p \in Procs :
        (pc[p] = "row" /\ same[p] /\ msg[p].key \notin overlapped)
            => Matches(messages[msg[p].key], msg[p])

Written ==
    \A p \in Procs :
        (pc[p] \in {"links", "index"} /\ msg[p].key \notin overlapped)
            => messages[msg[p].key] = RowOf(msg[p])

IndexCore == Alone /\ SameMeans /\ Written /\ IndexFollowsRow

-----------------------------------------------------------------------------
(* Facts about messages and rows *)

LEMMA MessageFacts ==
    ASSUME NEW m \in Message
    PROVE  /\ m.key \in Keys
           /\ m.text \in Content
           /\ m.deleted \in BOOLEAN
           /\ m.files \in SUBSET Files
           /\ m # NoMsg
           /\ RowOf(m) \in Row
BY StoreAssumption DEF Message, Content, RowOf, Row

LEMMA RowIsNotNoRow == NoRow \notin Row
BY StoreAssumption DEF Row, Content

(* What the index transaction writes is what search should find for the    *)
(* row the first transaction wrote.                                        *)
LEMMA IndexedIsSearchable ==
    ASSUME NEW m \in Message, NEW old
    PROVE  IndexedText(old, m) = Searchable(RowOf(m))
<1>1. RowOf(m) # NoRow
  BY MessageFacts, RowIsNotNoRow
<1>2. RowOf(m).text = m.text /\ RowOf(m).deleted = m.deleted
  BY DEF RowOf
<1>3. QED
  BY <1>1, <1>2 DEF IndexedText, Searchable

(* An unchanged message leaves what search should find as it was.          *)
LEMMA UnchangedIsSearchable ==
    ASSUME NEW m \in Message, NEW r, Matches(r, m)
    PROVE  Searchable(RowOf(m)) = Searchable(r)
<1>1. RowOf(m) # NoRow
  BY MessageFacts, RowIsNotNoRow
<1>2. RowOf(m).text = m.text /\ RowOf(m).deleted = m.deleted
  BY DEF RowOf
<1>3. r # NoRow /\ r.text = m.text /\ r.deleted = m.deleted
  BY DEF Matches
<1>4. QED
  BY <1>1, <1>2, <1>3 DEF Searchable

LEMMA SearchableType ==
    ASSUME NEW r \in Row \union {NoRow}
    PROVE  Searchable(r) \in Content
BY DEF Row, Searchable, Content

LEMMA UsageFacts ==
    ASSUME NEW u \in Usage
    PROVE  /\ [u EXCEPT !.upserts = @ + 1] \in Usage
           /\ [u EXCEPT !.rebuilds = @ + 1] \in Usage
           /\ [u EXCEPT !.listings = @ + 1] \in Usage
           /\ [u EXCEPT !.cutUpserts = @ + 1] \in Usage
           /\ [u EXCEPT !.cutEmbeds = @ + 1] \in Usage
           /\ [u EXCEPT !.failures = @ + 1] \in Usage
BY DEF Usage

LEMMA ContentFacts ==
    /\ NoText \in Content
    /\ NoTexts \in [Keys -> Content]
BY DEF Content, NoTexts

-----------------------------------------------------------------------------
(* Type correctness.  Working is needed beside it: an upsert in progress   *)
(* has a message to write.                                                 *)

TypeInv == TypeOK /\ Working

LEMMA InitTypeInv == Init => TypeInv
BY ContentFacts DEF Init, TypeInv, TypeOK, Working, InUpsert, JobStatus, Usage

LEMMA UpsertTypeInv ==
    ASSUME TypeInv, NEW p \in Procs
    PROVE  /\ \A m \in Message : Begin(p, m) => TypeInv'
           /\ WriteRow(p) => TypeInv'
           /\ WriteLinks(p) => TypeInv'
           /\ WriteIndex(p) => TypeInv'
           /\ CutUpsert(p) => TypeInv'
           /\ Reindex(p) => TypeInv'
<1> USE DEF TypeInv, TypeOK, Working, InUpsert, tables, upserts, batches, history
<1>1. ASSUME NEW m \in Message, Begin(p, m) PROVE TypeInv'
  BY <1>1, MessageFacts, UsageFacts DEF Begin, Matches
<1>2. ASSUME WriteRow(p) PROVE TypeInv'
  BY <1>2, MessageFacts DEF WriteRow
<1>3. ASSUME WriteLinks(p) PROVE TypeInv'
  <2>1. msg[p] \in Message
    BY <1>3 DEF WriteLinks
  <2>2. CASE same[p]
    <3>1. links' \in [Keys -> SUBSET Files]
      BY <1>3, <2>1, MessageFacts DEF WriteLinks, LinkedFiles
    <3>2. EndUpsert(p) /\ settled' = settled \union {msg[p].key}
      BY <1>3, <2>2 DEF WriteLinks
    <3>3. msg[p].key \in Keys
      BY <2>1, MessageFacts
    <3>4. QED
      BY <1>3, <3>1, <3>2, <3>3 DEF WriteLinks, EndUpsert
  <2>3. CASE ~same[p]
    <3>1. links' \in [Keys -> SUBSET Files]
      BY <1>3, <2>1, MessageFacts DEF WriteLinks, LinkedFiles
    <3>2. pc' = [pc EXCEPT ![p] = "index"] /\ UNCHANGED <<upserts, settled>>
      BY <1>3, <2>3 DEF WriteLinks
    <3>3. QED
      BY <1>3, <2>1, <2>3, <3>1, <3>2 DEF WriteLinks
  <2>4. QED
    BY <2>2, <2>3
<1>4. ASSUME WriteIndex(p) PROVE TypeInv'
  BY <1>4, MessageFacts, ContentFacts DEF WriteIndex, IndexedText, JobAfterUpsert,
     EndUpsert, JobStatus
<1>5. ASSUME CutUpsert(p) PROVE TypeInv'
  <2>1. msg[p] \in Message
    BY <1>5 DEF CutUpsert
  <2>2. used' \in Usage
    BY <1>5, UsageFacts DEF CutUpsert
  <2>3. QED
    BY <1>5, <2>1, <2>2, MessageFacts DEF CutUpsert, EndUpsert, Ahead
<1>6. ASSUME Reindex(p) PROVE TypeInv'
  BY <1>6, SearchableType, UsageFacts DEF Reindex
<1>7. QED
  BY <1>1, <1>2, <1>3, <1>4, <1>5, <1>6

(* Where a batch goes after the message at hand.                           *)
LEMMA EmbeddedTypes ==
    ASSUME TypeInv, NEW p \in Procs, Embedded(p), pc[p] \in {"embed", "store"},
           UNCHANGED <<msg, same>>
    PROVE  /\ pc' \in [Procs -> {"idle", "row", "links", "index",
                                  "batch", "embed", "store", "mark"}]
           /\ cur' \in [Procs -> Keys \union {NoKey}]
           /\ seen' \in [Procs -> [Keys -> Content]]
           /\ queued' \in [Procs -> BOOLEAN]
           /\ outcome' \in [Procs -> JobStatus]
           /\ Working'
<1> USE DEF TypeInv, TypeOK, Working, InUpsert
<1>1. CASE queued[p]
  <2>1. /\ pc' = [pc EXCEPT ![p] = "mark"] /\ outcome' = [outcome EXCEPT ![p] = "done"]
        /\ UNCHANGED <<cur, seen, queued>>
    BY <1>1 DEF Embedded
  <2>2. Working'
    BY <1>1, <2>1
  <2>3. QED
    BY <2>1, <2>2 DEF JobStatus
<1>2. CASE ~queued[p]
  <2>1. NextInBatch(p)
    BY <1>2 DEF Embedded
  <2>2. CASE todo[p] = {}
    BY <2>1, <2>2, ContentFacts DEF NextInBatch, JobStatus
  <2>3. CASE todo[p] # {}
    BY <1>2, <2>1, <2>3, ContentFacts DEF NextInBatch, JobStatus
  <2>4. QED
    BY <2>2, <2>3
<1>3. QED
  BY <1>1, <1>2

LEMMA EmbedTypeInv ==
    ASSUME TypeInv, NEW p \in Procs
    PROVE  /\ ListJobs(p) => TypeInv'
           /\ ListMessages(p) => TypeInv'
           /\ \A k \in Keys : Take(p, k) => TypeInv'
           /\ CheckEmbedding(p) => TypeInv'
           /\ StoreEmbedding(p) => TypeInv'
           /\ FailEmbedding(p) => TypeInv'
           /\ MarkJob(p) => TypeInv'
           /\ CutEmbed(p) => TypeInv'
<1> USE DEF TypeInv, TypeOK, Working, InUpsert, tables, upserts, batches, history
<1>1. ASSUME ListJobs(p) PROVE TypeInv'
  BY <1>1 DEF ListJobs
<1>2. ASSUME ListMessages(p) PROVE TypeInv'
  BY <1>2, SearchableType, UsageFacts DEF ListMessages
<1>3. ASSUME NEW k \in Keys, Take(p, k) PROVE TypeInv'
  <2>1. messages[k] # NoRow => messages[k].text \in Content
    BY DEF Row
  <2>2. CASE ~queued[p]
    <3>1. /\ pc' = [pc EXCEPT ![p] = "embed"]
          /\ UNCHANGED <<tables, upserts, queued, used, history, seen, outcome>>
          /\ todo' = [todo EXCEPT ![p] = @ \ {k}] /\ cur' = [cur EXCEPT ![p] = k]
      BY <1>3, <2>2 DEF Take
    <3>2. QED
      BY <1>3, <3>1 DEF Take
  <2>3. CASE queued[p] /\ (messages[k] = NoRow \/ messages[k].deleted)
    <3>1. /\ pc' = [pc EXCEPT ![p] = "mark"] /\ outcome' = [outcome EXCEPT ![p] = "skipped"]
          /\ UNCHANGED <<tables, upserts, queued, used, history, seen>>
          /\ todo' = [todo EXCEPT ![p] = @ \ {k}] /\ cur' = [cur EXCEPT ![p] = k]
      BY <1>3, <2>3 DEF Take
    <3>2. Working'
      BY <2>3, <3>1
    <3>3. TypeOK'
      BY <3>1 DEF JobStatus
    <3>4. QED
      BY <3>2, <3>3
  <2>4. CASE queued[p] /\ ~(messages[k] = NoRow \/ messages[k].deleted)
    <3>1. messages[k].text \in Content
      BY <2>1, <2>4
    <3>2. /\ seen' = [seen EXCEPT ![p][k] = messages[k].text]
          /\ pc' = [pc EXCEPT ![p] = "embed"]
          /\ outcome' = outcome
      BY <1>3, <2>4 DEF Take
    <3>3. seen' \in [Procs -> [Keys -> Content]]
      BY <3>1, <3>2
    <3>4. QED
      BY <1>3, <3>2, <3>3 DEF Take
  <2>5. QED
    BY <2>2, <2>3, <2>4
<1>4. ASSUME CheckEmbedding(p) PROVE TypeInv'
  <2>1. CASE AlreadyEmbedded(embeds[cur[p]], seen[p][cur[p]])
    BY <1>4, <2>1, EmbeddedTypes DEF CheckEmbedding
  <2>2. CASE ~AlreadyEmbedded(embeds[cur[p]], seen[p][cur[p]])
    BY <1>4, <2>2 DEF CheckEmbedding
  <2>3. QED
    BY <2>1, <2>2
<1>5. ASSUME StoreEmbedding(p) PROVE TypeInv'
  <2>1. Embedded(p) /\ pc[p] = "store" /\ UNCHANGED <<msg, same>>
    BY <1>5 DEF StoreEmbedding
  <2>2. embeds' \in [Keys -> Content]
    <3>1. CASE cur[p] \in Keys
      BY <1>5, <3>1 DEF StoreEmbedding
    <3>2. CASE cur[p] = NoKey
      BY <1>5, <3>2, StoreAssumption DEF StoreEmbedding
    <3>3. QED
      BY <3>1, <3>2
  <2>3. QED
    BY <1>5, <2>1, <2>2, EmbeddedTypes DEF StoreEmbedding
<1>6. ASSUME FailEmbedding(p) PROVE TypeInv'
  BY <1>6, UsageFacts DEF FailEmbedding, JobStatus
<1>7. ASSUME MarkJob(p) PROVE TypeInv'
  BY <1>7, ContentFacts DEF MarkJob, MarkedStatus, NextInBatch, JobStatus
<1>8. ASSUME CutEmbed(p) PROVE TypeInv'
  BY <1>8, ContentFacts, UsageFacts DEF CutEmbed, JobStatus
<1>9. QED
  BY <1>1, <1>2, <1>3, <1>4, <1>5, <1>6, <1>7, <1>8

LEMMA NextTypeInv == TypeInv /\ [Next]_vars => TypeInv'
<1> SUFFICES ASSUME TypeInv, [Next]_vars PROVE TypeInv'
  OBVIOUS
<1>1. CASE UNCHANGED vars
  BY <1>1 DEF vars, tables, upserts, batches, history, TypeInv, TypeOK, Working,
     InUpsert
<1>2. CASE Next
  BY <1>2, UpsertTypeInv, EmbedTypeInv DEF Next
<1>3. QED
  BY <1>1, <1>2

(* Every variable of the store keeps its type.                             *)
THEOREM StoreTypeCorrect == Spec => []TypeOK
<1>1. TypeInv => TypeOK
  BY DEF TypeInv
<1>2. QED
  BY <1>1, InitTypeInv, NextTypeInv, PTL DEF Spec

-----------------------------------------------------------------------------
(* Keyword search follows the rows *)

LEMMA InitIndexCore == Init => IndexCore
BY DEF Init, IndexCore, Alone, SameMeans, Written, IndexFollowsRow, Upserting,
   Ahead, Searchable, NoTexts

(* A step that leaves the rows, the index and the upserts in progress      *)
(* alone keeps IndexCore: every step of the embedding operations is one.   *)
LEMMA ElsewhereKeepsIndexCore ==
    ASSUME IndexCore,
           UNCHANGED <<messages, fts, msg, same, overlapped, cutIndex>>,
           \A q \in Procs : pc'[q] = pc[q] \/ (~InUpsert(q) /\ ~InUpsert(q)')
    PROVE  IndexCore'
<1>1. \A q \in Procs : \A k : Upserting(q, k)' <=> Upserting(q, k)
  BY DEF Upserting, InUpsert
<1>2. \A q \in Procs : \A k : Ahead(q, k)' <=> Ahead(q, k)
  BY DEF Ahead, InUpsert
<1>3. Alone'
  BY <1>1 DEF IndexCore, Alone
<1>4. SameMeans'
  BY DEF IndexCore, SameMeans, InUpsert
<1>5. Written'
  BY DEF IndexCore, Written, InUpsert
<1>6. IndexFollowsRow'
  BY <1>2 DEF IndexCore, IndexFollowsRow
<1>7. QED
  BY <1>3, <1>4, <1>5, <1>6 DEF IndexCore

LEMMA EmbedKeepsIndexCore ==
    ASSUME TypeInv, IndexCore, NEW p \in Procs,
           \/ ListJobs(p) \/ ListMessages(p) \/ (\E k \in Keys : Take(p, k))
           \/ CheckEmbedding(p) \/ StoreEmbedding(p) \/ FailEmbedding(p)
           \/ MarkJob(p) \/ CutEmbed(p)
    PROVE  IndexCore'
<1>1. UNCHANGED <<messages, fts, msg, same, overlapped, cutIndex>>
  BY DEF ListJobs, ListMessages, Take, CheckEmbedding, StoreEmbedding,
     FailEmbedding, MarkJob, CutEmbed, tables, upserts, history
<1>2. \A q \in Procs : pc'[q] = pc[q] \/ (~InUpsert(q) /\ ~InUpsert(q)')
  BY DEF ListJobs, ListMessages, Take, CheckEmbedding, StoreEmbedding,
     FailEmbedding, MarkJob, CutEmbed, Embedded, NextInBatch, InUpsert,
     TypeInv, TypeOK
<1>3. QED
  BY <1>1, <1>2, ElsewhereKeepsIndexCore

LEMMA BeginKeepsIndexCore ==
    ASSUME TypeInv, IndexCore, NEW p \in Procs, NEW m \in Message, Begin(p, m)
    PROVE  IndexCore'
<1> USE DEF TypeInv, TypeOK
<1>1. /\ pc[p] = "idle"
      /\ pc' = [pc EXCEPT ![p] = "row"]
      /\ msg' = [msg EXCEPT ![p] = m]
      /\ same' = [same EXCEPT ![p] = Matches(messages[m.key], m)]
      /\ UNCHANGED <<messages, fts, cutIndex>>
  BY DEF Begin, tables
<1>2. /\ overlapped \subseteq overlapped'
      /\ (\E q \in Procs : Upserting(q, m.key)) => m.key \in overlapped'
  BY DEF Begin
<1>3. \A q \in Procs : q # p => /\ pc'[q] = pc[q]
                                /\ msg'[q] = msg[q]
                                /\ same'[q] = same[q]
  BY <1>1
<1>4. pc'[p] = "row" /\ msg'[p] = m
  BY <1>1
<1>5. \A q \in Procs : \A k : Ahead(q, k)' <=> Ahead(q, k)
  BY <1>1, <1>3, <1>4 DEF Ahead
<1>6. Alone'
  <2> SUFFICES ASSUME NEW k \in Keys \ overlapped', NEW q \in Procs, NEW r \in Procs,
                      Upserting(q, k)', Upserting(r, k)'
               PROVE  q = r
    BY DEF Alone
  <2>1. ASSUME NEW u \in Procs, NEW v \in Procs, u # p,
               Upserting(u, k)', Upserting(v, k)'
        PROVE  v # p /\ Upserting(u, k)
    <3>1. Upserting(u, k)
      BY <1>3, <2>1 DEF Upserting
    <3>2. v # p
      BY <1>2, <1>4, <2>1, <3>1 DEF Upserting
    <3>3. QED
      BY <3>1, <3>2
  <2>2. CASE q # p \/ r # p
    <3>1. Upserting(q, k) /\ Upserting(r, k)
      BY <2>1, <2>2
    <3>2. k \in Keys \ overlapped
      BY <1>2
    <3>3. QED
      BY <3>1, <3>2 DEF IndexCore, Alone
  <2>3. QED
    BY <2>2
<1>7. SameMeans'
  BY <1>1, <1>2, <1>3, <1>4 DEF IndexCore, SameMeans
<1>8. Written'
  BY <1>1, <1>2, <1>3, <1>4 DEF IndexCore, Written
<1>9. IndexFollowsRow'
  BY <1>1, <1>2, <1>5 DEF IndexCore, IndexFollowsRow
<1>10. QED
  BY <1>6, <1>7, <1>8, <1>9 DEF IndexCore

LEMMA WriteRowKeepsIndexCore ==
    ASSUME TypeInv, IndexCore, NEW p \in Procs, WriteRow(p)
    PROVE  IndexCore'
<1> DEFINE m == msg[p]
<1> USE DEF TypeInv, TypeOK
<1>1. m \in Message /\ m.key \in Keys
  BY MessageFacts DEF WriteRow, Working, InUpsert
<1>2. /\ pc[p] = "row"
      /\ messages' = [messages EXCEPT ![m.key] = RowOf(m)]
      /\ pc' = [pc EXCEPT ![p] = "links"]
      /\ UNCHANGED <<fts, msg, same, overlapped, cutIndex>>
  BY DEF WriteRow, upserts, history
<1>3. \A q \in Procs : q # p => pc'[q] = pc[q]
  BY <1>2
<1>4. \A q \in Procs : \A k : Upserting(q, k)' <=> Upserting(q, k)
  BY <1>2, <1>3 DEF Upserting
<1>5. Alone'
  BY <1>2, <1>4 DEF IndexCore, Alone
<1>6. ASSUME NEW q \in Procs, q # p, InUpsert(q), msg[q].key \notin overlapped,
             msg[q] \in Message
      PROVE  messages'[msg[q].key] = messages[msg[q].key]
  <2>1. msg[q].key \in Keys
    BY <1>6, MessageFacts
  <2>2. msg[q].key # m.key
    BY <1>2, <1>6, <2>1 DEF IndexCore, Alone, Upserting, InUpsert
  <2>3. QED
    BY <1>2, <2>1, <2>2
<1>7. SameMeans'
  BY <1>2, <1>3, <1>6 DEF IndexCore, SameMeans, Working, InUpsert
<1>8. Written'
  BY <1>1, <1>2, <1>3, <1>6 DEF IndexCore, Written, Working, InUpsert
<1>9. IndexFollowsRow'
  <2> SUFFICES ASSUME NEW k \in Keys \ (overlapped \union cutIndex),
                      \A q \in Procs : ~Ahead(q, k)'
               PROVE  fts[k] = Searchable(messages'[k])
    BY <1>2 DEF IndexFollowsRow
  <2>1. CASE k # m.key
    <3>1. \A q \in Procs : ~Ahead(q, k)
      BY <1>2, <1>3, <2>1 DEF Ahead
    <3>2. messages'[k] = messages[k]
      BY <1>2, <2>1
    <3>3. QED
      BY <3>1, <3>2 DEF IndexCore, IndexFollowsRow
  <2>2. CASE k = m.key
    <3>1. same[p]
      BY <1>2, <2>2 DEF Ahead
    <3>2. Matches(messages[k], m)
      BY <1>2, <2>2, <3>1 DEF IndexCore, SameMeans
    <3>3. messages'[k] = RowOf(m)
      BY <1>2, <2>2
    <3>4. \A q \in Procs : ~Ahead(q, k)
      <4> SUFFICES ASSUME NEW q \in Procs, Ahead(q, k) PROVE FALSE
        OBVIOUS
      <4>1. q = p
        BY <1>2, <2>2 DEF IndexCore, Alone, Ahead, Upserting
      <4>2. QED
        BY <1>2, <4>1 DEF Ahead
    <3>5. fts[k] = Searchable(messages[k])
      BY <3>4 DEF IndexCore, IndexFollowsRow
    <3>6. QED
      BY <1>1, <3>2, <3>3, <3>5, UnchangedIsSearchable
  <2>3. QED
    BY <2>1, <2>2
<1>10. QED
  BY <1>5, <1>7, <1>8, <1>9 DEF IndexCore

LEMMA WriteLinksKeepsIndexCore ==
    ASSUME TypeInv, IndexCore, NEW p \in Procs, WriteLinks(p)
    PROVE  IndexCore'
<1> USE DEF TypeInv, TypeOK
<1>1. /\ pc[p] = "links"
      /\ UNCHANGED <<messages, fts, overlapped, cutIndex>>
  BY DEF WriteLinks
<1>2. \A q \in Procs : q # p => /\ pc'[q] = pc[q]
                                /\ msg'[q] = msg[q]
                                /\ same'[q] = same[q]
  BY DEF WriteLinks, EndUpsert, upserts
<1>3. \/ pc'[p] = "idle" /\ same[p]
      \/ pc'[p] = "index" /\ ~same[p] /\ msg'[p] = msg[p] /\ same'[p] = same[p]
  BY DEF WriteLinks, EndUpsert, upserts
<1>4. \A q \in Procs : \A k : Upserting(q, k)' => Upserting(q, k)
  BY <1>1, <1>2, <1>3 DEF Upserting
<1>5. \A q \in Procs : \A k : Ahead(q, k)' <=> Ahead(q, k)
  BY <1>1, <1>2, <1>3 DEF Ahead
<1>6. Alone'
  BY <1>1, <1>4 DEF IndexCore, Alone
<1>7. SameMeans'
  BY <1>1, <1>2, <1>3 DEF IndexCore, SameMeans
<1>8. Written'
  BY <1>1, <1>2, <1>3 DEF IndexCore, Written
<1>9. IndexFollowsRow'
  BY <1>1, <1>5 DEF IndexCore, IndexFollowsRow
<1>10. QED
  BY <1>6, <1>7, <1>8, <1>9 DEF IndexCore

(* The end of an upsert, returned or cut: p leaves it, nobody else moves.  *)
LEMMA EndKeepsUpserts ==
    ASSUME TypeInv, IndexCore, NEW p \in Procs, EndUpsert(p),
           UNCHANGED <<messages, overlapped>>
    PROVE  /\ Alone' /\ SameMeans' /\ Written'
           /\ \A q \in Procs : \A k : Ahead(q, k)' <=> (q # p /\ Ahead(q, k))
<1> USE DEF TypeInv, TypeOK
<1>1. pc'[p] = "idle"
  BY DEF EndUpsert
<1>2. \A q \in Procs : q # p => /\ pc'[q] = pc[q]
                                /\ msg'[q] = msg[q]
                                /\ same'[q] = same[q]
  BY DEF EndUpsert
<1>3. \A q \in Procs : \A k : Upserting(q, k)' => Upserting(q, k)
  BY <1>1, <1>2 DEF Upserting
<1>4. Alone'
  BY <1>3 DEF IndexCore, Alone
<1>5. SameMeans' /\ Written'
  BY <1>1, <1>2 DEF IndexCore, SameMeans, Written
<1>6. \A q \in Procs : \A k : Ahead(q, k)' <=> (q # p /\ Ahead(q, k))
  BY <1>1, <1>2 DEF Ahead
<1>7. QED
  BY <1>4, <1>5, <1>6

LEMMA WriteIndexKeepsIndexCore ==
    ASSUME TypeInv, IndexCore, NEW p \in Procs, WriteIndex(p)
    PROVE  IndexCore'
<1> DEFINE m == msg[p]
<1> USE DEF TypeInv, TypeOK
<1>1. m \in Message /\ m.key \in Keys
  BY MessageFacts DEF WriteIndex, Working, InUpsert
<1>2. /\ pc[p] = "index" /\ ~same[p]
      /\ fts' = [fts EXCEPT ![m.key] = IndexedText(@, m)]
      /\ EndUpsert(p)
      /\ cutIndex' = cutIndex \ {m.key}
      /\ UNCHANGED <<messages, overlapped>>
  BY DEF WriteIndex, Working
<1>3. /\ Alone' /\ SameMeans' /\ Written'
      /\ \A q \in Procs : \A k : Ahead(q, k)' <=> (q # p /\ Ahead(q, k))
  BY <1>2, EndKeepsUpserts
<1>4. IndexFollowsRow'
  <2> SUFFICES ASSUME NEW k \in Keys \ (overlapped \union cutIndex'),
                      \A q \in Procs : ~Ahead(q, k)'
               PROVE  fts'[k] = Searchable(messages[k])
    BY <1>2 DEF IndexFollowsRow
  <2>1. CASE k = m.key
    <3>1. fts'[k] = IndexedText(fts[k], m)
      BY <1>2, <2>1
    <3>2. messages[k] = RowOf(m)
      BY <1>2, <2>1 DEF IndexCore, Written
    <3>3. QED
      BY <1>1, <3>1, <3>2, IndexedIsSearchable
  <2>2. CASE k # m.key
    <3>1. \A q \in Procs : ~Ahead(q, k)
      BY <1>3, <2>2 DEF Ahead
    <3>2. fts'[k] = fts[k] /\ k \notin cutIndex
      BY <1>2, <2>2
    <3>3. QED
      BY <3>1, <3>2 DEF IndexCore, IndexFollowsRow
  <2>3. QED
    BY <2>1, <2>2
<1>5. QED
  BY <1>3, <1>4 DEF IndexCore

LEMMA CutKeepsIndexCore ==
    ASSUME TypeInv, IndexCore, NEW p \in Procs, CutUpsert(p)
    PROVE  IndexCore'
<1> USE DEF TypeInv, TypeOK
<1>1. EndUpsert(p) /\ UNCHANGED <<messages, fts, overlapped>>
  BY DEF CutUpsert, tables
<1>2. /\ Alone' /\ SameMeans' /\ Written'
      /\ \A q \in Procs : \A k : Ahead(q, k)' <=> (q # p /\ Ahead(q, k))
  BY <1>1, EndKeepsUpserts
<1>3. /\ cutIndex \subseteq cutIndex'
      /\ \A k : Ahead(p, k) => k \in cutIndex'
  BY DEF CutUpsert, Ahead
<1>4. IndexFollowsRow'
  BY <1>1, <1>2, <1>3 DEF IndexCore, IndexFollowsRow
<1>5. QED
  BY <1>2, <1>4 DEF IndexCore

LEMMA ReindexKeepsIndexCore ==
    ASSUME TypeInv, IndexCore, NEW p \in Procs, Reindex(p)
    PROVE  IndexCore'
<1>1. /\ fts' = [k \in Keys |-> Searchable(messages[k])]
      /\ UNCHANGED <<messages, pc, msg, same, overlapped>>
  BY DEF Reindex, upserts
<1>2. Alone' /\ SameMeans' /\ Written'
  BY <1>1 DEF IndexCore, Alone, SameMeans, Written, Upserting
<1>3. IndexFollowsRow'
  BY <1>1 DEF IndexFollowsRow
<1>4. QED
  BY <1>2, <1>3 DEF IndexCore

LEMMA NextIndexCore == TypeInv /\ IndexCore /\ [Next]_vars => IndexCore'
<1> SUFFICES ASSUME TypeInv, IndexCore, [Next]_vars PROVE IndexCore'
  OBVIOUS
<1>1. CASE UNCHANGED vars
  BY <1>1, ElsewhereKeepsIndexCore DEF vars, tables, upserts, history
<1>2. CASE Next
  BY <1>2, EmbedKeepsIndexCore, BeginKeepsIndexCore, WriteRowKeepsIndexCore,
     WriteLinksKeepsIndexCore, WriteIndexKeepsIndexCore, CutKeepsIndexCore,
     ReindexKeepsIndexCore DEF Next
<1>3. QED
  BY <1>1, <1>2

(* Keyword search finds every message by exactly the text of its row, for  *)
(* any number of processes and messages: unless two upserts of it ran      *)
(* together, or one was cut and nothing re-indexed it since                *)
(* (upsert_message, reindex_messages_fts).                                 *)
THEOREM SearchFollowsRows == Spec => []IndexFollowsRow
<1>1. Init => TypeInv /\ IndexCore
  BY InitTypeInv, InitIndexCore
<1>2. TypeInv /\ IndexCore /\ [Next]_vars => (TypeInv /\ IndexCore)'
  BY NextTypeInv, NextIndexCore
<1>3. IndexCore => IndexFollowsRow
  BY DEF IndexCore
<1>4. QED
  BY <1>1, <1>2, <1>3, PTL DEF Spec

-----------------------------------------------------------------------------
(* File links follow the rows *)

LinksWritten ==
    \A p \in Procs :
        (pc[p] = "index" /\ msg[p].key \notin overlapped)
            => links[msg[p].key] = msg[p].files

LinksCore == LinksWritten /\ LinksFollowRow

LEMMA LinkedFilesOfMessage ==
    ASSUME NEW m \in Message, NEW old
    PROVE  LinkedFiles(old, m) = m.files /\ RowOf(m).files = m.files
BY DEF Message, LinkedFiles, RowOf

(* Nothing but the second transaction and the row's disturbs the links.    *)
LEMMA LinksElsewhere ==
    ASSUME LinksCore,
           UNCHANGED <<messages, links, overlapped>>, settled' \subseteq settled,
           \A q \in Procs : /\ (pc[q] = "links") => \/ pc'[q] = "links" /\ msg'[q] = msg[q]
                                                    \/ msg[q].key \notin settled'
                            /\ (pc'[q] = "index") => pc[q] = "index" /\ msg'[q] = msg[q]
    PROVE  LinksCore'
BY DEF LinksCore, LinksWritten, LinksFollowRow

LEMMA EmbedKeepsLinks ==
    ASSUME TypeInv, LinksCore, NEW p \in Procs,
           \/ ListJobs(p) \/ ListMessages(p) \/ (\E k \in Keys : Take(p, k))
           \/ CheckEmbedding(p) \/ StoreEmbedding(p) \/ FailEmbedding(p)
           \/ MarkJob(p) \/ CutEmbed(p)
    PROVE  LinksCore'
<1>1. UNCHANGED <<messages, links, msg, overlapped, settled>>
  BY DEF ListJobs, ListMessages, Take, CheckEmbedding, StoreEmbedding,
     FailEmbedding, MarkJob, CutEmbed, tables, upserts, history
<1>2. \A q \in Procs : pc'[q] = pc[q] \/ (~InUpsert(q) /\ ~InUpsert(q)')
  BY DEF ListJobs, ListMessages, Take, CheckEmbedding, StoreEmbedding,
     FailEmbedding, MarkJob, CutEmbed, Embedded, NextInBatch, InUpsert,
     TypeInv, TypeOK
<1> QED BY <1>1, <1>2, LinksElsewhere DEF InUpsert

LEMMA UpsertKeepsLinks ==
    ASSUME TypeInv, IndexCore, LinksCore, NEW p \in Procs
    PROVE  /\ \A m \in Message : Begin(p, m) => LinksCore'
           /\ WriteRow(p) => LinksCore'
           /\ WriteLinks(p) => LinksCore'
           /\ WriteIndex(p) => LinksCore'
           /\ CutUpsert(p) => LinksCore'
           /\ Reindex(p) => LinksCore'
<1> USE DEF TypeInv, TypeOK
<1>1. ASSUME NEW m \in Message, Begin(p, m) PROVE LinksCore'
  <2>1. /\ UNCHANGED <<messages, links, settled>> /\ overlapped \subseteq overlapped'
        /\ \A q \in Procs : pc'[q] \in {"links", "index"}
                             => pc'[q] = pc[q] /\ msg'[q] = msg[q]
        /\ \A q \in Procs : pc[q] = "links" => pc'[q] = "links" /\ msg'[q] = msg[q]
    BY <1>1 DEF Begin, tables
  <2> QED BY <2>1 DEF LinksCore, LinksWritten, LinksFollowRow
<1>2. ASSUME WriteRow(p) PROVE LinksCore'
  <2> DEFINE m == msg[p]
  <2>1. m \in Message /\ m.key \in Keys
    BY <1>2, MessageFacts DEF WriteRow, Working, InUpsert
  <2>2. /\ pc[p] = "row" /\ pc'[p] = "links" /\ UNCHANGED <<links, msg, overlapped, settled>>
        /\ \A q \in Procs : q # p => pc'[q] = pc[q]
        /\ \A k \in Keys : k # m.key => messages'[k] = messages[k]
    BY <1>2, <2>1 DEF WriteRow, upserts, history
  <2>3. LinksWritten'
    BY <2>2 DEF LinksCore, LinksWritten
  <2>4. LinksFollowRow'
    <3> SUFFICES ASSUME NEW k \in settled \ overlapped,
                        \A q \in Procs : ~(pc'[q] = "links" /\ msg[q].key = k)
                 PROVE  links[k] = messages'[k].files
      BY <2>2 DEF LinksFollowRow
    <3>1. k # m.key /\ k \in Keys
      BY <2>2
    <3>2. \A q \in Procs : ~(pc[q] = "links" /\ msg[q].key = k)
      BY <2>2
    <3> QED BY <2>2, <3>1, <3>2 DEF LinksCore, LinksFollowRow
  <2> QED BY <2>3, <2>4 DEF LinksCore
<1>3. ASSUME WriteLinks(p) PROVE LinksCore'
  <2> DEFINE m == msg[p]
  <2>1. m \in Message /\ m.key \in Keys
    BY <1>3, MessageFacts DEF WriteLinks, Working, InUpsert
  <2>2. /\ pc[p] = "links" /\ UNCHANGED <<messages, overlapped>>
        /\ \A q \in Procs : q # p => pc'[q] = pc[q] /\ msg'[q] = msg[q]
        /\ pc'[p] = "index" => msg'[p] = m
        /\ settled' \subseteq settled \union {m.key}
        /\ links'[m.key] = m.files
        /\ \A k \in Keys : k # m.key => links'[k] = links[k]
    BY <1>3, <2>1, LinkedFilesOfMessage DEF WriteLinks, EndUpsert, upserts
  <2>3. m.key \notin overlapped => messages[m.key].files = m.files
    BY <2>1, <2>2, LinkedFilesOfMessage DEF IndexCore, Written
  <2>4. ASSUME NEW q \in Procs, q # p, pc[q] = "index", msg[q].key \notin overlapped
        PROVE  msg[q].key # m.key /\ msg[q].key \in Keys
    BY <2>2, <2>1, <2>4, MessageFacts
       DEF IndexCore, Alone, Upserting, Working, InUpsert
  <2>5. LinksWritten'
    BY <2>2, <2>4 DEF LinksCore, LinksWritten
  <2>6. LinksFollowRow'
    <3> SUFFICES ASSUME NEW k \in settled' \ overlapped,
                        \A q \in Procs : ~(pc'[q] = "links" /\ msg'[q].key = k)
                 PROVE  links'[k] = messages[k].files
      BY <2>2 DEF LinksFollowRow
    <3>1. CASE k = m.key
      BY <2>2, <2>3, <3>1
    <3>2. CASE k # m.key
      BY <2>2, <3>2 DEF LinksCore, LinksFollowRow
    <3> QED BY <3>1, <3>2
  <2> QED BY <2>5, <2>6 DEF LinksCore
<1>4. ASSUME WriteIndex(p) PROVE LinksCore'
  <2> DEFINE m == msg[p]
  <2>1. m \in Message /\ m.key \in Keys
    BY <1>4, MessageFacts DEF WriteIndex, Working, InUpsert
  <2>2. /\ pc[p] = "index" /\ pc'[p] = "idle" /\ UNCHANGED <<messages, links, overlapped>>
        /\ \A q \in Procs : q # p => pc'[q] = pc[q] /\ msg'[q] = msg[q]
        /\ settled' = settled \union {m.key}
    BY <1>4 DEF WriteIndex, EndUpsert
  <2>3. m.key \notin overlapped => links[m.key] = messages[m.key].files
    BY <2>1, <2>2, LinkedFilesOfMessage DEF IndexCore, Written, LinksCore, LinksWritten
  <2>4. LinksWritten'
    BY <2>2 DEF LinksCore, LinksWritten
  <2>5. LinksFollowRow'
    <3> SUFFICES ASSUME NEW k \in settled' \ overlapped,
                        \A q \in Procs : ~(pc'[q] = "links" /\ msg'[q].key = k)
                 PROVE  links[k] = messages[k].files
      BY <2>2 DEF LinksFollowRow
    <3>1. \A q \in Procs : ~(pc[q] = "links" /\ msg[q].key = k)
      BY <2>2
    <3> QED BY <2>2, <2>3, <3>1 DEF LinksCore, LinksFollowRow
  <2> QED BY <2>4, <2>5 DEF LinksCore
<1>5. ASSUME CutUpsert(p) PROVE LinksCore'
  <2>1. /\ UNCHANGED <<messages, links, overlapped>> /\ settled' = settled \ {msg[p].key}
        /\ pc'[p] = "idle" /\ \A q \in Procs : q # p => pc'[q] = pc[q] /\ msg'[q] = msg[q]
    BY <1>5 DEF CutUpsert, EndUpsert, tables
  <2> QED BY <2>1, LinksElsewhere
<1>6. ASSUME Reindex(p) PROVE LinksCore'
  BY <1>6, LinksElsewhere DEF Reindex, upserts
<1> QED BY <1>1, <1>2, <1>3, <1>4, <1>5, <1>6

LEMMA NextLinks == TypeInv /\ IndexCore /\ LinksCore /\ [Next]_vars => LinksCore'
<1> SUFFICES ASSUME TypeInv, IndexCore, LinksCore, [Next]_vars PROVE LinksCore'
  OBVIOUS
<1>1. CASE UNCHANGED vars
  BY <1>1, LinksElsewhere DEF vars, tables, upserts, history
<1>2. CASE Next
  BY <1>2, EmbedKeepsLinks, UpsertKeepsLinks DEF Next
<1> QED BY <1>1, <1>2

(* The links of a message whose last upsert returned are those of its row, *)
(* for any number of processes and messages: unless two upserts of it ran  *)
(* together (upsert_message's second transaction, an unchanged replay      *)
(* included).                                                              *)
THEOREM LinksFollowRows == Spec => []LinksFollowRow
<1>1. Init => TypeInv /\ IndexCore /\ LinksCore
  BY InitTypeInv, InitIndexCore DEF Init, LinksCore, LinksWritten, LinksFollowRow
<1>2. TypeInv /\ IndexCore /\ LinksCore /\ [Next]_vars => (TypeInv /\ IndexCore /\ LinksCore)'
  BY NextTypeInv, NextIndexCore, NextLinks
<1>3. LinksCore => LinksFollowRow
  BY DEF LinksCore
<1> QED BY <1>1, <1>2, <1>3, PTL DEF Spec

-----------------------------------------------------------------------------
(* Embeddings follow the rows *)

Live(k) == messages[k] # NoRow /\ ~messages[k].deleted

Reads(p, k) == Live(k) /\ seen[p][k] = messages[k].text

(* What a process holds of a message it is embedding is how it reads now,  *)
(* and the status it is about to give the job is the right one.            *)
HeldIsCurrent(p, k) ==
    /\ pc[p] \in {"embed", "store"} /\ cur[p] = k => Reads(p, k)
    /\ pc[p] \in {"batch", "embed", "store"} /\ ~queued[p] /\ k \in todo[p] => Reads(p, k)
    /\ pc[p] = "mark" /\ cur[p] = k =>
         \/ outcome[p] = "error"
         \/ outcome[p] = "done" /\ Live(k) /\ embeds[k] = messages[k].text
         \/ outcome[p] = "skipped" /\ ~Live(k)

Tracked(k) ==
    \/ Searchable(messages[k]) = NoText
    \/ embeds[k] = messages[k].text
    \/ jobs[k] \in {"pending", "error"}

(* The message is none of the exceptions, and no upsert of it is half way. *)
Settled(k) == /\ k \notin overlapped \union cutJob \union raced
              /\ \A q \in Procs : ~Ahead(q, k)

Sound(k) == Settled(k) => Tracked(k) /\ \A p \in Procs : HeldIsCurrent(p, k)

EmbedCore == \A k \in Keys : Sound(k)

(* p holds nothing after a step, or what it held before.                   *)
HoldsNoMore(p) ==
    \/ pc'[p] \in {"idle", "row", "links", "index"}
    \/ /\ pc'[p] = pc[p] /\ cur'[p] = cur[p] /\ seen'[p] = seen[p]
       /\ todo'[p] = todo[p] /\ queued'[p] = queued[p] /\ outcome'[p] = outcome[p]

LEMMA SoundStays ==
    ASSUME NEW k \in Keys, Sound(k), Settled(k)' => Settled(k),
           Live(k)' <=> Live(k), messages'[k].text = messages[k].text,
           Searchable(messages'[k]) = Searchable(messages[k]),
           embeds'[k] = embeds[k], jobs'[k] = jobs[k],
           \A p \in Procs : HoldsNoMore(p)
    PROVE  Sound(k)'
<1> SUFFICES ASSUME Settled(k)' PROVE Tracked(k)' /\ \A p \in Procs : HeldIsCurrent(p, k)'
  BY DEF Sound
<1>1. Tracked(k) /\ \A p \in Procs : HeldIsCurrent(p, k)
  BY DEF Sound
<1>2. Tracked(k)'
  BY <1>1 DEF Tracked
<1>3. ASSUME NEW p \in Procs PROVE HeldIsCurrent(p, k)'
  <2>1. CASE pc'[p] \in {"idle", "row", "links", "index"}
    BY <2>1 DEF HeldIsCurrent
  <2>2. CASE /\ pc'[p] = pc[p] /\ cur'[p] = cur[p] /\ seen'[p] = seen[p]
             /\ todo'[p] = todo[p] /\ queued'[p] = queued[p] /\ outcome'[p] = outcome[p]
    BY <1>1, <2>2 DEF HeldIsCurrent, Reads
  <2> QED BY <2>1, <2>2 DEF HoldsNoMore
<1> QED BY <1>2, <1>3

LEMMA UpsertKeepsEmbeds ==
    ASSUME TypeInv, IndexCore, EmbedCore, NEW p \in Procs
    PROVE  /\ \A m \in Message : Begin(p, m) => EmbedCore'
           /\ WriteRow(p) => EmbedCore'
           /\ WriteLinks(p) => EmbedCore'
           /\ WriteIndex(p) => EmbedCore'
           /\ CutUpsert(p) => EmbedCore'
           /\ Reindex(p) => EmbedCore'
<1> USE DEF TypeInv, TypeOK
<1>1. ASSUME NEW m \in Message, Begin(p, m) PROVE EmbedCore'
  <2>1. UNCHANGED <<messages, embeds, jobs, cutJob, raced>> /\ overlapped \subseteq overlapped'
    BY <1>1 DEF Begin, tables
  <2>2. \A q \in Procs : HoldsNoMore(q)
    BY <1>1 DEF Begin, batches, HoldsNoMore
  <2>3. \A q \in Procs : \A k : Ahead(q, k)' <=> Ahead(q, k)
    BY <1>1 DEF Begin, Ahead
  <2> QED BY <2>1, <2>2, <2>3, SoundStays DEF EmbedCore, Settled, Live
<1>2. ASSUME WriteRow(p) PROVE EmbedCore'
  <2>0. PICK m \in Message : m = msg[p]
    BY <1>2 DEF WriteRow, Working, InUpsert
  <2>1. m.key \in Keys
    BY MessageFacts
  <2>2. /\ pc[p] = "row" /\ messages' = [messages EXCEPT ![m.key] = RowOf(m)]
        /\ pc' = [pc EXCEPT ![p] = "links"]
        /\ UNCHANGED <<embeds, jobs, msg, same, overlapped, cutJob, raced>>
        /\ UNCHANGED batches
    BY <1>2, <2>0 DEF WriteRow, upserts, history
  <2>3. \A q \in Procs : HoldsNoMore(q)
    BY <2>2 DEF batches, HoldsNoMore
  <2>4. ASSUME NEW k \in Keys PROVE Settled(k)' => Settled(k)
    BY <2>0, <2>2 DEF Settled, Ahead
  <2>5. ASSUME NEW k \in Keys, k # m.key PROVE Sound(k)'
    BY <2>2, <2>3, <2>4, <2>5, SoundStays DEF EmbedCore, Live
  <2>6. ASSUME Settled(m.key)'
        PROVE  Matches(messages[m.key], m)
    <3>1. same[p]
      BY <2>0, <2>2, <2>6 DEF Settled, Ahead
    <3> QED BY <2>0, <2>2, <2>6, <3>1 DEF IndexCore, SameMeans, Settled
  <2>7. Sound(m.key)'
    <3> SUFFICES ASSUME Settled(m.key)' PROVE Sound(m.key)'
      BY DEF Sound
    <3>1. Matches(messages[m.key], m)
      BY <2>6
    <3>2. messages'[m.key] = RowOf(m) /\ RowOf(m) # NoRow
      BY <2>1, <2>2, MessageFacts, RowIsNotNoRow
    <3>3. RowOf(m).text = m.text /\ RowOf(m).deleted = m.deleted
      BY DEF RowOf
    <3>4. Searchable(messages'[m.key]) = Searchable(messages[m.key])
      BY <2>1, <3>1, <3>2, UnchangedIsSearchable
    <3>5. Live(m.key)' <=> Live(m.key)
      BY <3>1, <3>2, <3>3 DEF Live, Matches
    <3>6. messages'[m.key].text = messages[m.key].text
      BY <3>1, <3>2, <3>3 DEF Matches
    <3> QED BY <2>1, <2>2, <2>3, <2>4, <3>4, <3>5, <3>6, SoundStays DEF EmbedCore
  <2> QED BY <2>5, <2>7 DEF EmbedCore
<1>3. ASSUME WriteLinks(p) PROVE EmbedCore'
  <2>1. UNCHANGED <<messages, embeds, jobs, overlapped, cutJob, raced>>
    BY <1>3 DEF WriteLinks
  <2>2. \A q \in Procs : HoldsNoMore(q)
    BY <1>3 DEF WriteLinks, EndUpsert, batches, HoldsNoMore
  <2>3. \A q \in Procs : \A k : Ahead(q, k)' <=> Ahead(q, k)
    BY <1>3 DEF WriteLinks, EndUpsert, upserts, Ahead
  <2> QED BY <2>1, <2>2, <2>3, SoundStays DEF EmbedCore, Settled, Live
<1>4. ASSUME WriteIndex(p) PROVE EmbedCore'
  <2>0. PICK m \in Message : m = msg[p]
    BY <1>4 DEF WriteIndex, Working, InUpsert
  <2>1. m.key \in Keys
    BY MessageFacts
  <2>2. /\ pc[p] = "index" /\ EndUpsert(p) /\ UNCHANGED <<messages, embeds, overlapped>>
        /\ jobs' = [jobs EXCEPT ![m.key] = JobAfterUpsert(@, m)]
        /\ cutJob' = cutJob \ {m.key} /\ raced \subseteq raced'
        /\ (\E q \in Procs : Holds(q, m.key)) => m.key \in raced'
        /\ UNCHANGED batches
    BY <1>4, <2>0 DEF WriteIndex
  <2>3. \A q \in Procs : HoldsNoMore(q)
    BY <2>2 DEF EndUpsert, batches, HoldsNoMore
  <2>4. \A q \in Procs : \A k : Ahead(q, k)' <=> (q # p /\ Ahead(q, k))
    BY <2>2, EndKeepsUpserts
  <2>5. ASSUME NEW k \in Keys, k # m.key PROVE Sound(k)'
    <3>1. Settled(k)' => Settled(k)
      BY <2>0, <2>2, <2>4, <2>5 DEF Settled, Ahead
    <3> QED BY <2>2, <2>3, <2>5, <3>1, SoundStays DEF EmbedCore, Live
  <2>6. ASSUME Settled(m.key)'
        PROVE  Tracked(m.key)' /\ \A q \in Procs : HeldIsCurrent(q, m.key)'
    <3>1. messages[m.key] = RowOf(m)
      BY <2>0, <2>2, <2>6 DEF IndexCore, Written, Settled
    <3>2. Tracked(m.key)'
      <4>1. CASE m.deleted
        BY <2>2, <3>1, <4>1 DEF Tracked, Searchable, RowOf, Message
      <4>2. CASE ~m.deleted
        BY <2>1, <2>2, <4>2 DEF Tracked, JobAfterUpsert
      <4> QED BY <4>1, <4>2
    <3>3. \A q \in Procs : ~Holds(q, m.key)
      BY <2>2, <2>6 DEF Settled
    <3>4. ASSUME NEW q \in Procs PROVE HeldIsCurrent(q, m.key)'
      BY <2>3, <3>3 DEF HoldsNoMore, HeldIsCurrent, Holds
    <3> QED BY <3>2, <3>4
  <2> QED BY <2>5, <2>6 DEF EmbedCore, Sound
<1>5. ASSUME CutUpsert(p) PROVE EmbedCore'
  <2>1. /\ EndUpsert(p) /\ UNCHANGED <<messages, embeds, jobs, overlapped, raced>>
        /\ UNCHANGED batches /\ cutJob \subseteq cutJob'
        /\ \A k : Ahead(p, k) => k \in cutJob'
    BY <1>5 DEF CutUpsert, tables, Ahead
  <2>2. \A q \in Procs : HoldsNoMore(q)
    BY <2>1 DEF EndUpsert, batches, HoldsNoMore
  <2>3. \A q \in Procs : \A k : Ahead(q, k)' <=> (q # p /\ Ahead(q, k))
    BY <2>1, EndKeepsUpserts
  <2>4. ASSUME NEW k \in Keys PROVE Settled(k)' => Settled(k)
    BY <2>1, <2>3 DEF Settled
  <2> QED BY <2>1, <2>2, <2>4, SoundStays DEF EmbedCore, Live
<1>6. ASSUME Reindex(p) PROVE EmbedCore'
  <2>1. UNCHANGED <<messages, embeds, jobs, pc, msg, same, overlapped, cutJob, raced>>
    BY <1>6 DEF Reindex, upserts
  <2>2. \A q \in Procs : HoldsNoMore(q)
    BY <1>6 DEF Reindex, batches, HoldsNoMore
  <2> QED BY <2>1, <2>2, SoundStays DEF EmbedCore, Settled, Ahead, Live
<1> QED BY <1>1, <1>2, <1>3, <1>4, <1>5, <1>6

(* Where a batch goes after a message whose text it has made sure of.      *)
LEMMA EmbeddedIsCurrent ==
    ASSUME TypeInv, NEW p \in Procs, NEW k \in Keys, pc[p] \in {"embed", "store"},
           HeldIsCurrent(p, k), Embedded(p), UNCHANGED <<messages, todo>>,
           cur[p] = k => embeds'[k] = messages[k].text
    PROVE  HeldIsCurrent(p, k)'
<1> USE DEF TypeInv, TypeOK
<1>1. CASE queued[p]
  <2>1. pc'[p] = "mark" /\ outcome'[p] = "done" /\ cur' = cur
    BY <1>1 DEF Embedded
  <2> QED BY <2>1 DEF HeldIsCurrent, Reads, Live
<1>2. CASE ~queued[p]
  <2>1. /\ pc'[p] = (IF todo[p] = {} THEN "idle" ELSE "batch")
        /\ todo[p] # {} => seen'[p] = seen[p]
        /\ queued'[p] = FALSE
    BY <1>2 DEF Embedded, NextInBatch
  <2> QED BY <1>2, <2>1 DEF HeldIsCurrent, Reads, Live
<1> QED BY <1>1, <1>2

(* Every step of the embedding operations changes one process and the      *)
(* embedding or the job of one message.                                    *)
LEMMA EmbedKeepsEmbeds ==
    ASSUME TypeInv, EmbedCore, NEW p \in Procs
    PROVE  /\ ListJobs(p) => EmbedCore'
           /\ ListMessages(p) => EmbedCore'
           /\ \A k \in Keys : Take(p, k) => EmbedCore'
           /\ CheckEmbedding(p) => EmbedCore'
           /\ StoreEmbedding(p) => EmbedCore'
           /\ FailEmbedding(p) => EmbedCore'
           /\ MarkJob(p) => EmbedCore'
           /\ CutEmbed(p) => EmbedCore'
<1> USE DEF TypeInv, TypeOK
<1> DEFINE Moves == /\ UNCHANGED <<messages, msg, same, overlapped, cutJob, raced>>
                    /\ \A q \in Procs : q # p => HoldsNoMore(q) /\ pc'[q] = pc[q]
                    /\ ~InUpsert(p) /\ ~InUpsert(p)'
<1>1. ASSUME Moves, NEW k \in Keys PROVE Settled(k)' => Settled(k)
  BY <1>1 DEF Settled, Ahead, InUpsert
(* The message at hand is another, or none.                                *)
<1>2. ASSUME Moves, NEW k \in Keys,
             Settled(k) => (embeds'[k] = embeds[k] /\ jobs'[k] = jobs[k]) \/ Tracked(k)',
             Settled(k) => embeds'[k] \in {embeds[k], messages[k].text},
             Settled(k) /\ HeldIsCurrent(p, k) => HeldIsCurrent(p, k)'
      PROVE  Sound(k)'
  <2> SUFFICES ASSUME Settled(k)' PROVE Tracked(k)' /\ \A q \in Procs : HeldIsCurrent(q, k)'
    BY DEF Sound
  <2>1. Settled(k) /\ Tracked(k) /\ \A q \in Procs : HeldIsCurrent(q, k)
    BY <1>1, <1>2 DEF EmbedCore, Sound
  <2>2. Tracked(k)'
    BY <1>2, <2>1 DEF Tracked
  <2>3. ASSUME NEW q \in Procs, q # p PROVE HeldIsCurrent(q, k)'
    <3>1. HoldsNoMore(q) /\ HeldIsCurrent(q, k)
      BY <1>2, <2>1, <2>3
    <3>2. CASE pc'[q] \in {"idle", "row", "links", "index"}
      BY <3>2 DEF HeldIsCurrent
    <3>3. CASE /\ pc'[q] = pc[q] /\ cur'[q] = cur[q] /\ seen'[q] = seen[q]
               /\ todo'[q] = todo[q] /\ queued'[q] = queued[q] /\ outcome'[q] = outcome[q]
      BY <1>2, <2>1, <3>1, <3>3 DEF HeldIsCurrent, Reads, Live
    <3> QED BY <3>1, <3>2, <3>3 DEF HoldsNoMore
  <2> QED BY <1>2, <2>1, <2>2, <2>3
<1>3. ASSUME ListJobs(p) PROVE EmbedCore'
  <2>1. Moves /\ UNCHANGED <<embeds, jobs>>
    BY <1>3 DEF ListJobs, tables, upserts, history, HoldsNoMore, InUpsert
  <2>2. pc'[p] = "batch" /\ queued'[p]
    BY <1>3 DEF ListJobs
  <2>3. \A k \in Keys : HeldIsCurrent(p, k)'
    BY <2>2 DEF HeldIsCurrent
  <2> QED BY <1>2, <2>1, <2>3 DEF EmbedCore
<1>4. ASSUME ListMessages(p) PROVE EmbedCore'
  <2>1. Moves /\ UNCHANGED <<embeds, jobs>>
    BY <1>4 DEF ListMessages, tables, upserts, history, HoldsNoMore, InUpsert
  <2>2. /\ pc'[p] = "batch"
        /\ todo'[p] = {k \in Keys : messages[k] # NoRow /\ ~messages[k].deleted}
        /\ seen'[p] = [k \in Keys |-> Searchable(messages[k])]
    BY <1>4 DEF ListMessages
  <2>3. ASSUME NEW k \in Keys PROVE HeldIsCurrent(p, k)'
    BY <2>1, <2>2 DEF HeldIsCurrent, Reads, Live, Searchable
  <2> QED BY <1>2, <2>1, <2>3 DEF EmbedCore
<1>5. ASSUME NEW j \in Keys, Take(p, j) PROVE EmbedCore'
  <2>1. Moves /\ UNCHANGED <<embeds, jobs, queued>>
    BY <1>5 DEF Take, tables, upserts, history, HoldsNoMore, InUpsert
  <2>2. /\ pc[p] = "batch" /\ j \in todo[p] /\ cur'[p] = j /\ todo'[p] = todo[p] \ {j}
    BY <1>5 DEF Take
  <2>3. ASSUME NEW k \in Keys, HeldIsCurrent(p, k) PROVE HeldIsCurrent(p, k)'
    <3>1. CASE ~queued[p]
      <4>1. pc'[p] = "embed" /\ seen' = seen
        BY <1>5, <3>1 DEF Take
      <4> QED BY <2>1, <2>2, <2>3, <3>1, <4>1 DEF HeldIsCurrent, Reads, Live
    <3>2. CASE queued[p] /\ ~Live(j)
      <4>1. pc'[p] = "mark" /\ outcome'[p] = "skipped"
        BY <1>5, <3>2 DEF Take, Live
      <4> QED BY <2>1, <2>2, <3>2, <4>1 DEF HeldIsCurrent, Live
    <3>3. CASE queued[p] /\ Live(j)
      <4>1. pc'[p] = "embed" /\ seen'[p][j] = messages[j].text
        BY <1>5, <3>3 DEF Take, Live
      <4> QED BY <2>1, <2>2, <3>3, <4>1 DEF HeldIsCurrent, Reads, Live
    <3> QED BY <3>1, <3>2, <3>3
  <2> QED BY <1>2, <2>1, <2>3 DEF EmbedCore
<1>6. ASSUME CheckEmbedding(p) PROVE EmbedCore'
  <2>1. Moves /\ UNCHANGED <<embeds, jobs, todo>> /\ pc[p] = "embed"
    BY <1>6 DEF CheckEmbedding, Embedded, NextInBatch, tables, upserts, history,
                HoldsNoMore, InUpsert
  <2>2. ASSUME NEW k \in Keys, HeldIsCurrent(p, k) PROVE HeldIsCurrent(p, k)'
    <3>1. CASE AlreadyEmbedded(embeds[cur[p]], seen[p][cur[p]])
      <4>1. Embedded(p)
        BY <1>6, <3>1 DEF CheckEmbedding
      <4>2. cur[p] = k => embeds'[k] = messages[k].text
        BY <2>1, <2>2, <3>1 DEF AlreadyEmbedded, HeldIsCurrent, Reads
      <4> QED BY <2>1, <2>2, <4>1, <4>2, EmbeddedIsCurrent
    <3>2. CASE ~AlreadyEmbedded(embeds[cur[p]], seen[p][cur[p]])
      <4>1. pc'[p] = "store" /\ UNCHANGED <<cur, seen, queued>>
        BY <1>6, <3>2 DEF CheckEmbedding
      <4> QED BY <2>1, <2>2, <4>1 DEF HeldIsCurrent, Reads, Live
    <3> QED BY <3>1, <3>2
  <2> QED BY <1>2, <2>1, <2>2 DEF EmbedCore
<1>7. ASSUME StoreEmbedding(p) PROVE EmbedCore'
  <2>1. /\ Moves /\ UNCHANGED <<jobs, todo>> /\ pc[p] = "store" /\ Embedded(p)
        /\ embeds' = [embeds EXCEPT ![cur[p]] = seen[p][cur[p]]]
    BY <1>7 DEF StoreEmbedding, Embedded, NextInBatch, upserts, history,
                HoldsNoMore, InUpsert
  <2>2. ASSUME NEW k \in Keys, HeldIsCurrent(p, k)
        PROVE  cur[p] = k => embeds'[k] = messages[k].text
    BY <2>1, <2>2 DEF HeldIsCurrent, Reads
  <2>3. ASSUME NEW k \in Keys, HeldIsCurrent(p, k) PROVE HeldIsCurrent(p, k)'
    BY <2>1, <2>2, <2>3, EmbeddedIsCurrent
  <2>4. ASSUME NEW k \in Keys, Settled(k) PROVE HeldIsCurrent(p, k)
    BY <2>4 DEF EmbedCore, Sound
  <2>5. ASSUME NEW k \in Keys, Settled(k)
        PROVE  embeds'[k] = embeds[k] \/ embeds'[k] = messages[k].text
    BY <2>1, <2>2, <2>4, <2>5
  <2>6. ASSUME NEW k \in Keys, Settled(k) PROVE Tracked(k)'
    <3>1. Tracked(k)
      BY <2>6 DEF EmbedCore, Sound
    <3> QED BY <2>1, <2>5, <2>6, <3>1 DEF Tracked
  <2>7. ASSUME NEW k \in Keys PROVE Sound(k)'
    <3>1. Settled(k) => embeds'[k] \in {embeds[k], messages[k].text}
      BY <2>5
    <3> QED BY <1>2, <2>1, <2>3, <2>6, <3>1
  <2> QED BY <2>7 DEF EmbedCore
<1>8. ASSUME FailEmbedding(p) PROVE EmbedCore'
  <2>1. Moves /\ UNCHANGED <<embeds, jobs>>
    BY <1>8 DEF FailEmbedding, tables, upserts, history, HoldsNoMore, InUpsert
  <2>2. pc'[p] = "mark" /\ outcome'[p] = "error"
    BY <1>8 DEF FailEmbedding
  <2>3. \A k \in Keys : HeldIsCurrent(p, k)'
    BY <2>2 DEF HeldIsCurrent
  <2> QED BY <1>2, <2>1, <2>3 DEF EmbedCore
<1>9. ASSUME MarkJob(p) PROVE EmbedCore'
  <2>1. /\ Moves /\ UNCHANGED <<embeds, todo>> /\ pc[p] = "mark"
        /\ jobs' = [jobs EXCEPT ![cur[p]] = outcome[p]]
    BY <1>9 DEF MarkJob, MarkedStatus, NextInBatch, upserts, history, HoldsNoMore, InUpsert
  <2>2. /\ pc'[p] = (IF todo[p] = {} THEN "idle" ELSE "batch")
        /\ todo[p] # {} => queued'[p] = queued[p]
        /\ ~queued[p] => (todo[p] # {} => seen'[p] = seen[p])
    BY <1>9 DEF MarkJob, NextInBatch
  <2>3. ASSUME NEW k \in Keys, Settled(k) PROVE Tracked(k)'
    <3>1. Tracked(k) /\ HeldIsCurrent(p, k)
      BY <2>3 DEF EmbedCore, Sound
    <3>2. CASE cur[p] = k
      BY <2>1, <3>1, <3>2 DEF HeldIsCurrent, Tracked, Live, Searchable
    <3>3. CASE cur[p] # k
      BY <2>1, <3>1, <3>3 DEF Tracked
    <3> QED BY <3>2, <3>3
  <2>4. ASSUME NEW k \in Keys, Settled(k), HeldIsCurrent(p, k) PROVE HeldIsCurrent(p, k)'
    BY <2>1, <2>2, <2>4 DEF HeldIsCurrent, Reads, Live, Working
  <2> QED BY <1>2, <2>1, <2>3, <2>4 DEF EmbedCore
<1>10. ASSUME CutEmbed(p) PROVE EmbedCore'
  <2>1. Moves /\ UNCHANGED <<embeds, jobs>>
    BY <1>10 DEF CutEmbed, tables, upserts, history, HoldsNoMore, InUpsert
  <2>2. pc'[p] = "idle"
    BY <1>10 DEF CutEmbed
  <2>3. \A k \in Keys : HeldIsCurrent(p, k)'
    BY <2>2 DEF HeldIsCurrent
  <2> QED BY <1>2, <2>1, <2>3 DEF EmbedCore
<1> QED BY <1>3, <1>4, <1>5, <1>6, <1>7, <1>8, <1>9, <1>10

LEMMA NextEmbeds == TypeInv /\ IndexCore /\ EmbedCore /\ [Next]_vars => EmbedCore'
<1> SUFFICES ASSUME TypeInv, IndexCore, EmbedCore, [Next]_vars PROVE EmbedCore'
  OBVIOUS
<1>1. CASE UNCHANGED vars
  <2>1. \A q \in Procs : HoldsNoMore(q)
    BY <1>1 DEF vars, batches, HoldsNoMore
  <2> QED BY <1>1, <2>1, SoundStays
          DEF vars, tables, upserts, history, EmbedCore, Settled, Ahead, Live
<1>2. CASE Next
  BY <1>2, EmbedKeepsEmbeds, UpsertKeepsEmbeds DEF Next
<1> QED BY <1>1, <1>2

(* A live message has the embedding of its text, or a job pending or in    *)
(* error, for any number of processes and messages, outside the named      *)
(* exceptions (process_embedding_jobs, backfill_message_embeddings and the *)
(* upserts beside them).                                                   *)
THEOREM EmbeddingsTrackTexts == Spec => []EmbeddingTracksText
<1>1. Init => TypeInv /\ IndexCore /\ EmbedCore
  <2>1. Init => EmbedCore
    BY DEF Init, EmbedCore, Sound, Tracked, Searchable, HeldIsCurrent
  <2> QED BY <2>1, InitTypeInv, InitIndexCore
<1>2. TypeInv /\ IndexCore /\ EmbedCore /\ [Next]_vars => (TypeInv /\ IndexCore /\ EmbedCore)'
  BY NextTypeInv, NextIndexCore, NextEmbeds
<1>3. EmbedCore => EmbeddingTracksText
  BY DEF EmbedCore, Sound, Settled, Tracked, EmbeddingTracksText
<1> QED BY <1>1, <1>2, <1>3, PTL DEF Spec

-----------------------------------------------------------------------------
(* MessageStore implements Projection step by step, for any messages,      *)
(* texts and files: every step of a store with one writer whose upserts    *)
(* are not cut is a step of the abstract specification or changes nothing  *)
(* its readers see.  Fairness, the rest of Projects, is left to TLC.       *)
(*                                                                         *)
(* What makes it true is IndexCore: an `unchanged` upsert writes a row     *)
(* that search already shows, and the index transaction shows the row that *)
(* the first one wrote.  Both need that no upserts overlap (Undisturbed).  *)

OneWriter == (\A p, q \in Procs : p = q) /\ MaxCutUpserts = 0

Undisturbed == overlapped = {} /\ cutIndex = {}

(* The messages Projection calls dirty.                                    *)
Stale == {k \in Keys : \E p \in Procs : Ahead(p, k)}

LEMMA NextUndisturbed ==
    ASSUME OneWriter, TypeInv, Undisturbed, [Next]_vars
    PROVE  Undisturbed'
<1> USE DEF Undisturbed
<1>1. ASSUME NEW p \in Procs, NEW m \in Message, Begin(p, m) PROVE Undisturbed'
  <2>1. ~\E q \in Procs : Upserting(q, m.key)
    BY <1>1 DEF OneWriter, Begin, Upserting
  <2> QED BY <1>1, <2>1 DEF Begin
<1>2. ASSUME NEW p \in Procs PROVE ~CutUpsert(p)
  BY DEF OneWriter, CutUpsert, TypeInv, TypeOK, Usage
<1>3. CASE UNCHANGED vars
  BY <1>3 DEF vars, history
<1> QED BY <1>1, <1>2, <1>3
        DEF Next, WriteRow, WriteLinks, WriteIndex, Reindex, ListJobs, ListMessages, Take,
            CheckEmbedding, StoreEmbedding, FailEmbedding, MarkJob, CutEmbed, history

LEMMA StaleIsOwn ==
    ASSUME OneWriter, NEW p \in Procs
    PROVE  /\ Stale = {k \in Keys : Ahead(p, k)}
           /\ Stale' = {k \in Keys : Ahead(p, k)'}
BY DEF OneWriter, Stale

(* Search shows what it should of every message that is not stale.         *)
LEMMA ShownUnlessStale ==
    ASSUME IndexCore, Undisturbed, NEW k \in Keys, k \notin Stale
    PROVE  fts[k] = Searchable(messages[k])
BY DEF IndexCore, Undisturbed, IndexFollowsRow, Stale

-----------------------------------------------------------------------------
(* The step of the abstract specification a step of the store maps to      *)

LEMMA StutterProjects ==
    ASSUME UNCHANGED <<messages, fts>>, Stale' = Stale
    PROVE  [Proj!ProjectionNext]_(Proj!projVars)
BY DEF Proj!projVars, Stale

(* The first transaction is a Put, which marks the message unless the      *)
(* upsert is an unchanged one.                                             *)
LEMMA WriteRowProjects ==
    ASSUME OneWriter, TypeInv, IndexCore, Undisturbed, NEW p \in Procs, WriteRow(p)
    PROVE  [Proj!ProjectionNext]_(Proj!projVars)
<1> DEFINE k == msg[p].key
           r == RowOf(msg[p])
<1>1. msg[p] \in Message /\ k \in Keys /\ r \in Row /\ r # NoRow
  BY MessageFacts, RowIsNotNoRow DEF WriteRow, TypeInv, Working, InUpsert
<1>2. /\ messages' = [messages EXCEPT ![k] = r] /\ fts' = fts /\ msg' = msg /\ same' = same
      /\ pc[p] = "row" /\ pc'[p] = "links"
  BY DEF WriteRow, upserts, TypeInv, TypeOK
<1>3. Stale = {}
  BY <1>2, StaleIsOwn DEF Ahead
<1>4. Stale' = IF same[p] THEN {} ELSE {k}
  BY <1>1, <1>2, StaleIsOwn DEF Ahead
<1>5. same[p] => Searchable(r) = fts[k]
  <2> SUFFICES ASSUME same[p] PROVE Searchable(r) = fts[k]
    OBVIOUS
  <2>1. Matches(messages[k], msg[p])
    BY <1>2 DEF IndexCore, SameMeans, Undisturbed
  <2>2. Searchable(r) = Searchable(messages[k])
    BY <1>1, <2>1, UnchangedIsSearchable
  <2> QED BY <1>1, <1>3, <2>2, ShownUnlessStale
<1>6. Proj!Put(k, r)
  BY <1>2, <1>3, <1>4, <1>5 DEF Proj!Put, Stale
<1> QED BY <1>1, <1>6 DEF Proj!ProjectionNext

(* The second is one only the links see.                                   *)
LEMMA WriteLinksProjects ==
    ASSUME OneWriter, TypeInv, NEW p \in Procs, WriteLinks(p)
    PROVE  [Proj!ProjectionNext]_(Proj!projVars)
<1>1. messages' = messages /\ fts' = fts /\ pc[p] = "links"
  BY DEF WriteLinks
<1>2. CASE same[p]
  <2>1. pc'[p] = "idle"
    BY <1>2 DEF WriteLinks, EndUpsert, TypeInv, TypeOK
  <2> QED BY <1>1, <1>2, <2>1, StaleIsOwn, StutterProjects DEF Ahead
<1>3. CASE ~same[p]
  <2>1. pc'[p] = "index" /\ msg' = msg /\ same' = same
    BY <1>3 DEF WriteLinks, upserts, TypeInv, TypeOK
  <2> QED BY <1>1, <2>1, StaleIsOwn, StutterProjects DEF Ahead
<1> QED BY <1>2, <1>3

(* The third is the Refresh.                                               *)
LEMMA WriteIndexProjects ==
    ASSUME OneWriter, TypeInv, IndexCore, Undisturbed, NEW p \in Procs, WriteIndex(p)
    PROVE  [Proj!ProjectionNext]_(Proj!projVars)
<1> DEFINE k == msg[p].key
<1>1. msg[p] \in Message /\ k \in Keys /\ pc[p] = "index" /\ ~same[p]
  BY MessageFacts DEF WriteIndex, TypeInv, Working, InUpsert
<1>2. messages' = messages /\ pc'[p] = "idle" /\ fts' = [fts EXCEPT ![k] = IndexedText(@, msg[p])]
  BY DEF WriteIndex, EndUpsert, TypeInv, TypeOK
<1>3. Stale = {k} /\ Stale' = {}
  BY <1>1, <1>2, StaleIsOwn DEF Ahead
<1>4. messages[k] = RowOf(msg[p])
  BY <1>1 DEF IndexCore, Written, Undisturbed
<1>5. fts' = [fts EXCEPT ![k] = Searchable(messages[k])]
  BY <1>1, <1>2, <1>4, IndexedIsSearchable
<1>6. Proj!Refresh(k)
  BY <1>2, <1>3, <1>5 DEF Proj!Refresh, Stale
<1> QED BY <1>1, <1>6 DEF Proj!ProjectionNext

LEMMA NextProjects ==
    ASSUME OneWriter, TypeInv, IndexCore, Undisturbed, [Next]_vars
    PROVE  [Proj!ProjectionNext]_(Proj!projVars)
(* A step that begins or embeds: nothing its readers see changes.          *)
<1>1. ASSUME NEW p \in Procs, UNCHANGED <<messages, fts>>,
             pc[p] \notin {"links", "index"}, pc'[p] \notin {"links", "index"}
      PROVE  [Proj!ProjectionNext]_(Proj!projVars)
  <2>1. Stale = {} /\ Stale' = {}
    BY <1>1, StaleIsOwn DEF Ahead
  <2> QED BY <1>1, <2>1, StutterProjects
<1>2. ASSUME NEW p \in Procs, NEW m \in Message, Begin(p, m)
      PROVE  [Proj!ProjectionNext]_(Proj!projVars)
  BY <1>1, <1>2 DEF Begin, tables, TypeInv, TypeOK
<1>3. ASSUME NEW p \in Procs, Reindex(p) PROVE [Proj!ProjectionNext]_(Proj!projVars)
  <2>1. /\ messages' = messages /\ fts' = [k \in Keys |-> Searchable(messages[k])]
        /\ pc' = pc /\ pc[p] = "idle"
    BY <1>3 DEF Reindex
  <2>2. Stale' = Stale
    BY <2>1, StaleIsOwn DEF Ahead
  <2>3. Proj!Rebuild
    BY <2>1, <2>2 DEF Proj!Rebuild, Stale
  <2> QED BY <2>3 DEF Proj!ProjectionNext
<1>4. ASSUME NEW p \in Procs, ListJobs(p) \/ ListMessages(p) \/ \E k \in Keys : Take(p, k)
      PROVE  [Proj!ProjectionNext]_(Proj!projVars)
  <2>1. /\ UNCHANGED <<messages, fts>>
        /\ pc[p] \notin {"links", "index"} /\ pc'[p] \notin {"links", "index"}
    BY <1>4 DEF ListJobs, ListMessages, Take, tables, TypeInv, TypeOK
  <2> QED BY <1>1, <2>1
<1>5. ASSUME NEW p \in Procs,
             CheckEmbedding(p) \/ StoreEmbedding(p) \/ FailEmbedding(p) \/ MarkJob(p) \/ CutEmbed(p)
      PROVE  [Proj!ProjectionNext]_(Proj!projVars)
  <2>1. /\ UNCHANGED <<messages, fts>>
        /\ pc[p] \notin {"links", "index"} /\ pc'[p] \notin {"links", "index"}
    BY <1>5 DEF CheckEmbedding, StoreEmbedding, FailEmbedding, MarkJob, CutEmbed, Embedded,
                NextInBatch, tables, TypeInv, TypeOK
  <2> QED BY <1>1, <2>1
<1>6. ASSUME NEW p \in Procs PROVE ~CutUpsert(p)
  BY DEF OneWriter, CutUpsert, TypeInv, TypeOK, Usage
<1>7. CASE UNCHANGED vars
  <2>1. Stale' = Stale
    BY <1>7 DEF vars, upserts, Stale, Ahead
  <2> QED BY <1>7, <2>1, StutterProjects DEF vars, tables
<1> QED BY <1>2, <1>3, <1>4, <1>5, <1>6, <1>7, WriteRowProjects, WriteLinksProjects,
           WriteIndexProjects DEF Next

-----------------------------------------------------------------------------
(* With one writer that is not cut the store is an implementation of       *)
(* Projection: a row is written first, and keyword search never shows      *)
(* anything but the row of a message that is not waiting for its index     *)
(* transaction (upsert_message, reindex_messages_fts and the embedding     *)
(* operations, for any messages).                                          *)
THEOREM StoreImplementsProjection ==
    ASSUME OneWriter
    PROVE  Spec => Proj!ProjectionInit /\ [][Proj!ProjectionNext]_(Proj!projVars)
<1>1. Init => TypeInv /\ IndexCore /\ Undisturbed
  BY InitTypeInv, InitIndexCore DEF Init, Undisturbed
<1>2. Init => Proj!ProjectionInit
  BY DEF Init, Proj!ProjectionInit, Ahead, Searchable, NoTexts
<1>3. TypeInv /\ IndexCore /\ Undisturbed /\ [Next]_vars => (TypeInv /\ IndexCore /\ Undisturbed)'
  BY NextTypeInv, NextIndexCore, NextUndisturbed
<1>4. TypeInv /\ IndexCore /\ Undisturbed /\ [Next]_vars =>
          [Proj!ProjectionNext]_(Proj!projVars)
  BY NextProjects
<1> QED BY <1>1, <1>2, <1>3, <1>4, PTL DEF Spec
=============================================================================
