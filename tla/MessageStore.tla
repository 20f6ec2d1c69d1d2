---------------------------- MODULE MessageStore ----------------------------
(***************************************************************************)
(* The message tables of the mirror and the two operations every process   *)
(* runs on them (slack_mirror/core/db.py, sync/embeddings.py,              *)
(* search/keyword.py):                                                     *)
(*                                                                         *)
(*  - upsert_message writes one message in separate SQLite transactions:   *)
(*    the row, then the file links, then the full-text row and the         *)
(*    embedding job.  Whether the last one runs was decided before the     *)
(*    first one, by comparing the message with the row already there;      *)
(*  - process_embedding_jobs lists the pending jobs, and for each one      *)
(*    reads the text, embeds it and marks the job, in separate             *)
(*    transactions; backfill_message_embeddings does the same from one     *)
(*    listing of all live messages, without jobs.                          *)
(*                                                                         *)
(* A process is the unified daemon, or a `mirror backfill` that the CLI or *)
(* a tenant's backfill request starts beside it.  Each runs one operation  *)
(* at a time; their transactions interleave.  Any operation can be cut     *)
(* short between two transactions: the process is killed, or SQLite        *)
(* raises "database is locked".                                            *)
(*                                                                         *)
(* A message's user, subtype, thread and edit stamp change with its text,  *)
(* so `text` stands for all the columns the comparison looks at.           *)
(***************************************************************************)
EXTENDS Naturals, FiniteSets

CONSTANTS
    Procs,            \* processes that write the database
    Keys,             \* message identities (channel, ts)
    Texts,            \* contents a live message can have
    Files,            \* files a message can carry
    NoRow,            \* no messages row for this key
    NoText,           \* the empty text of a deletion, and "no embedding"
    NoMsg,            \* no upsert in progress
    NoKey,            \* no message being embedded
    MaxUpserts,       \* bound: upserts started
    MaxRebuilds,      \* bound: full-text rebuilds
    MaxListings,      \* bound: listings for an embeddings backfill
    MaxCutUpserts,    \* bound: upserts cut short
    MaxCutEmbeds,     \* bound: embedding batches cut short
    MaxFailures       \* bound: embeddings the provider fails to compute

ASSUME StoreAssumption ==
    /\ NoKey \notin Keys
    /\ NoText \notin Texts
    /\ NoMsg \notin [key : Keys, text : Texts \union {NoText},
                     deleted : BOOLEAN, files : SUBSET Files]
    /\ NoRow \notin [text : Texts \union {NoText}, deleted : BOOLEAN,
                     files : SUBSET Files]

VARIABLES
    messages,         \* table messages
    links,            \* table message_files
    fts,              \* table messages_fts: the searchable text, or NoText
    jobs,             \* table embedding_jobs: the status of a message's job
    embeds,           \* table message_embeddings: the text embedded
    pc,               \* where each process stands in its operation
    msg,              \* the message its upsert writes
    same,             \* upsert_message's local `unchanged`
    todo,             \* jobs or messages its embedding batch has left
    cur,              \* the one it is working on
    seen,             \* the texts it has read
    queued,           \* TRUE for a batch of jobs, FALSE for a backfill
    outcome,          \* status it is about to give the job
    used,             \* how much of each bound has been used
    overlapped,       \* history: keys two upserts worked on at once
    cutIndex,         \* history: keys an upsert left newer than their index
    cutJob,           \* history: keys an upsert left without a new job
    settled,          \* history: keys whose last upsert ran to its end
    raced             \* history: keys re-queued while being embedded

tables  == <<messages, links, fts, jobs, embeds>>
upserts == <<msg, same>>
batches == <<todo, cur, seen, queued, outcome>>
history == <<overlapped, cutIndex, cutJob, settled, raced>>
vars    == <<tables, pc, upserts, batches, used, history>>

Content == Texts \union {NoText}

(* A message as Slack sends it: live with a text and files, or the         *)
(* tombstone that _apply_event builds for a deletion.                      *)
Message ==
    [key : Keys, text : Texts, deleted : {FALSE}, files : SUBSET Files]
        \union [key : Keys, text : {NoText}, deleted : {TRUE}, files : {{}}]

Row == [text : Content, deleted : BOOLEAN, files : SUBSET Files]

JobStatus == {"none", "pending", "done", "skipped", "error"}

Usage == [upserts : Nat, rebuilds : Nat, listings : Nat,
          cutUpserts : Nat, cutEmbeds : Nat, failures : Nat]

-----------------------------------------------------------------------------
(* Pieces of upsert_message *)

Matches_anyText(r, m) == r # NoRow /\ r.deleted = m.deleted

(* The comparison that makes an upsert `unchanged`; files are not in it.   *)
Matches(r, m) ==
    /\ r # NoRow
    /\ r.text = m.text
    /\ r.deleted = m.deleted

RowOf(m) == [text |-> m.text, deleted |-> m.deleted, files |-> m.files]

LinkedFiles_addOnly(old, m) == old \union m.files

(* The message_files rows after the links transaction: the old ones are    *)
(* deleted and those of the message inserted.                              *)
LinkedFiles(old, m) == IF m.deleted THEN {} ELSE m.files

IndexedText_keepDeleted(old, m) == IF m.deleted THEN old ELSE m.text

(* The messages_fts row after the index transaction.                       *)
IndexedText(old, m) == IF m.deleted THEN NoText ELSE m.text

JobAfterUpsert_keepOld(old, m) ==
    IF m.deleted THEN "skipped" ELSE IF old = "none" THEN "pending" ELSE old

(* The embedding job after the index transaction: (re)queued for a live    *)
(* message, skipped for a deleted one that has a job.                      *)
JobAfterUpsert(old, m) ==
    IF ~m.deleted THEN "pending"
    ELSE IF old = "none" THEN "none" ELSE "skipped"

(* What search should find for a row: nothing for a missing or deleted one *)
Searchable(r) == IF r = NoRow \/ r.deleted THEN NoText ELSE r.text

Upserting(p, k) == pc[p] \in {"row", "links", "index"} /\ msg[p].key = k

(* p has written the row of k and has yet to bring the index up to date.   *)
Ahead(p, k) == pc[p] \in {"links", "index"} /\ msg[p].key = k /\ ~same[p]

(* p has read a text of k that it may still store or report done.          *)
Holds(p, k) ==
    \/ pc[p] \in {"embed", "store", "mark"} /\ cur[p] = k
    \/ pc[p] \in {"batch", "embed", "store"} /\ ~queued[p] /\ k \in todo[p]

NoTexts == [k \in Keys |-> NoText]

-----------------------------------------------------------------------------
Init ==
    /\ messages = [k \in Keys |-> NoRow]
    /\ links = [k \in Keys |-> {}]
    /\ fts = NoTexts
    /\ jobs = [k \in Keys |-> "none"]
    /\ embeds = NoTexts
    /\ pc = [p \in Procs |-> "idle"]
    /\ msg = [p \in Procs |-> NoMsg]
    /\ same = [p \in Procs |-> FALSE]
    /\ todo = [p \in Procs |-> {}]
    /\ cur = [p \in Procs |-> NoKey]
    /\ seen = [p \in Procs |-> NoTexts]
    /\ queued = [p \in Procs |-> FALSE]
    /\ outcome = [p \in Procs |-> "none"]
    /\ used = [upserts |-> 0, rebuilds |-> 0, listings |-> 0,
               cutUpserts |-> 0, cutEmbeds |-> 0, failures |-> 0]
    /\ overlapped = {} /\ cutIndex = {} /\ cutJob = {}
    /\ settled = {} /\ raced = {}

(* upsert_message is called with m: it reads the current row.              *)
Begin(p, m) ==
    /\ pc[p] = "idle"
    /\ used.upserts < MaxUpserts
    /\ used' = [used EXCEPT !.upserts = @ + 1]
    /\ pc' = [pc EXCEPT ![p] = "row"]
    /\ msg' = [msg EXCEPT ![p] = m]
    /\ same' = [same EXCEPT ![p] = Matches(messages[m.key], m)]
    /\ overlapped' = IF \E q \in Procs : Upserting(q, m.key)
                     THEN overlapped \union {m.key} ELSE overlapped
    /\ UNCHANGED <<tables, batches, cutIndex, cutJob, settled, raced>>

(* First transaction: the messages row, whatever was there before.         *)
WriteRow(p) ==
    /\ pc[p] = "row"
    /\ messages' = [messages EXCEPT ![msg[p].key] = RowOf(msg[p])]
    /\ pc' = [pc EXCEPT ![p] = "links"]
    /\ UNCHANGED <<links, fts, jobs, embeds, upserts, batches, used, history>>

EndUpsert(p) ==
    /\ pc' = [pc EXCEPT ![p] = "idle"]
    /\ msg' = [msg EXCEPT ![p] = NoMsg]
    /\ same' = [same EXCEPT ![p] = FALSE]

(* Second transaction: the file links (the metadata of the files was       *)
(* upserted just before).  An unchanged message ends here.                 *)
WriteLinks(p) ==
    LET m == msg[p] IN
    /\ pc[p] = "links"
    /\ links' = [links EXCEPT ![m.key] = LinkedFiles(@, m)]
    /\ IF same[p]
       THEN EndUpsert(p) /\ settled' = settled \union {m.key}
       ELSE /\ pc' = [pc EXCEPT ![p] = "index"]
            /\ UNCHANGED <<upserts, settled>>
    /\ UNCHANGED <<messages, fts, jobs, embeds, batches, used,
                   overlapped, cutIndex, cutJob, raced>>

(* Third transaction: the full-text row and the embedding job.             *)
WriteIndex(p) ==
    LET m == msg[p] IN
    /\ pc[p] = "index"
    /\ fts' = [fts EXCEPT ![m.key] = IndexedText(@, m)]
    /\ jobs' = [jobs EXCEPT ![m.key] = JobAfterUpsert(@, m)]
    /\ EndUpsert(p)
    /\ settled' = settled \union {m.key}
    /\ raced' = IF \E q \in Procs : Holds(q, m.key)
                THEN raced \union {m.key} ELSE raced
    /\ cutIndex' = cutIndex \ {m.key}
    /\ cutJob' = cutJob \ {m.key}
    /\ UNCHANGED <<messages, links, embeds, batches, used, overlapped>>

(* The upsert dies between two transactions.                               *)
CutUpsert(p) ==
    LET k == msg[p].key IN
    /\ pc[p] \in {"row", "links", "index"}
    /\ used.cutUpserts < MaxCutUpserts
    /\ used' = [used EXCEPT !.cutUpserts = @ + 1]
    /\ EndUpsert(p)
    /\ IF Ahead(p, k)
       THEN /\ cutIndex' = cutIndex \union {k}
            /\ cutJob' = cutJob \union {k}
       ELSE UNCHANGED <<cutIndex, cutJob>>
    /\ settled' = settled \ {k}
    /\ UNCHANGED <<tables, batches, overlapped, raced>>

(* reindex_messages_fts: the whole index again, in one transaction.        *)
Reindex(p) ==
    /\ pc[p] = "idle"
    /\ used.rebuilds < MaxRebuilds
    /\ used' = [used EXCEPT !.rebuilds = @ + 1]
    /\ fts' = [k \in Keys |-> Searchable(messages[k])]
    /\ cutIndex' = {}
    /\ UNCHANGED <<messages, links, jobs, embeds, pc, upserts, batches,
                   overlapped, cutJob, settled, raced>>

-----------------------------------------------------------------------------
(* Embedding *)

(* process_embedding_jobs lists the pending jobs (all of them: the limit   *)
(* is far above the number of keys of an instance).                        *)
ListJobs(p) ==
    LET pending == {k \in Keys : jobs[k] = "pending"} IN
    /\ pc[p] = "idle"
    /\ pending # {}
    /\ pc' = [pc EXCEPT ![p] = "batch"]
    /\ todo' = [todo EXCEPT ![p] = pending]
    /\ queued' = [queued EXCEPT ![p] = TRUE]
    /\ UNCHANGED <<tables, upserts, cur, seen, outcome, used, history>>

(* backfill_message_embeddings lists all live messages with their texts.   *)
ListMessages(p) ==
    LET live == {k \in Keys : messages[k] # NoRow /\ ~messages[k].deleted} IN
    /\ pc[p] = "idle"
    /\ live # {}
    /\ used.listings < MaxListings
    /\ used' = [used EXCEPT !.listings = @ + 1]
    /\ pc' = [pc EXCEPT ![p] = "batch"]
    /\ todo' = [todo EXCEPT ![p] = live]
    /\ seen' = [seen EXCEPT ![p] = [k \in Keys |-> Searchable(messages[k])]]
    /\ queued' = [queued EXCEPT ![p] = FALSE]
    /\ UNCHANGED <<tables, upserts, cur, outcome, history>>

(* The next of the batch: a job's message is read now; one that is missing *)
(* or deleted will have its job skipped.                                   *)
Take(p, k) ==
    /\ pc[p] = "batch"
    /\ k \in todo[p]
    /\ todo' = [todo EXCEPT ![p] = @ \ {k}]
    /\ cur' = [cur EXCEPT ![p] = k]
    /\ IF ~queued[p]
       THEN /\ pc' = [pc EXCEPT ![p] = "embed"]
            /\ UNCHANGED <<seen, outcome>>
       ELSE IF messages[k] = NoRow \/ messages[k].deleted
       THEN /\ pc' = [pc EXCEPT ![p] = "mark"]
            /\ outcome' = [outcome EXCEPT ![p] = "skipped"]
            /\ UNCHANGED seen
       ELSE /\ pc' = [pc EXCEPT ![p] = "embed"]
            /\ seen' = [seen EXCEPT ![p][k] = messages[k].text]
            /\ UNCHANGED outcome
    /\ UNCHANGED <<tables, upserts, queued, used, history>>

(* On to the next of the batch, or back to the loop.                       *)
NextInBatch(p) ==
    /\ pc' = [pc EXCEPT ![p] = IF todo[p] = {} THEN "idle" ELSE "batch"]
    /\ cur' = [cur EXCEPT ![p] = NoKey]
    /\ seen' = [seen EXCEPT ![p] = IF queued[p] \/ todo[p] = {} THEN NoTexts ELSE @]
    /\ outcome' = [outcome EXCEPT ![p] = "none"]
    /\ queued' = [queued EXCEPT ![p] = @ /\ todo[p] # {}]

(* The message at hand is embedded: its job is marked next, if it has one. *)
Embedded(p) ==
    IF queued[p]
    THEN /\ pc' = [pc EXCEPT ![p] = "mark"]
         /\ outcome' = [outcome EXCEPT ![p] = "done"]
         /\ UNCHANGED <<cur, seen, queued>>
    ELSE NextInBatch(p)

AlreadyEmbedded_any(stored, text) == stored # NoText

(* get_message_embedding found the content hash of the text.               *)
AlreadyEmbedded(stored, text) == stored = text

(* _embed_and_store reads the stored embedding: nothing to do if it has    *)
(* the hash of the text that was read.                                     *)
CheckEmbedding(p) ==
    /\ pc[p] = "embed"
    /\ IF AlreadyEmbedded(embeds[cur[p]], seen[p][cur[p]])
       THEN Embedded(p)
       ELSE /\ pc' = [pc EXCEPT ![p] = "store"]
            /\ UNCHANGED <<cur, seen, queued, outcome>>
    /\ UNCHANGED <<tables, upserts, todo, used, history>>

(* The embedding of the text that was read replaces the stored one.        *)
StoreEmbedding(p) ==
    /\ pc[p] = "store"
    /\ embeds' = [embeds EXCEPT ![cur[p]] = seen[p][cur[p]]]
    /\ Embedded(p)
    /\ UNCHANGED <<messages, links, fts, jobs, upserts, todo, used, history>>

(* The provider raises: the job is marked with the error.                  *)
FailEmbedding(p) ==
    /\ pc[p] = "store"
    /\ queued[p]
    /\ used.failures < MaxFailures
    /\ used' = [used EXCEPT !.failures = @ + 1]
    /\ pc' = [pc EXCEPT ![p] = "mark"]
    /\ outcome' = [outcome EXCEPT ![p] = "error"]
    /\ UNCHANGED <<tables, upserts, todo, cur, seen, queued, history>>

MarkedStatus_eventStatus(status) == IF status = "done" THEN "processed" ELSE status

(* mark_embedding_job_status updates the row whatever its status is.       *)
MarkedStatus(status) == status

MarkJob(p) ==
    /\ pc[p] = "mark"
    /\ jobs' = [jobs EXCEPT ![cur[p]] = MarkedStatus(outcome[p])]
    /\ NextInBatch(p)
    /\ UNCHANGED <<messages, links, fts, embeds, upserts, todo, used, history>>

(* The process is killed in the middle of a batch.                         *)
CutEmbed(p) ==
    /\ pc[p] \in {"batch", "embed", "store", "mark"}
    /\ used.cutEmbeds < MaxCutEmbeds
    /\ used' = [used EXCEPT !.cutEmbeds = @ + 1]
    /\ pc' = [pc EXCEPT ![p] = "idle"]
    /\ todo' = [todo EXCEPT ![p] = {}]
    /\ cur' = [cur EXCEPT ![p] = NoKey]
    /\ seen' = [seen EXCEPT ![p] = NoTexts]
    /\ queued' = [queued EXCEPT ![p] = FALSE]
    /\ outcome' = [outcome EXCEPT ![p] = "none"]
    /\ UNCHANGED <<tables, upserts, history>>

-----------------------------------------------------------------------------
UpsertStep(p) == WriteRow(p) \/ WriteLinks(p) \/ WriteIndex(p)

EmbedStep(p) ==
    \/ ListJobs(p)
    \/ \E k \in Keys : Take(p, k)
    \/ CheckEmbedding(p) \/ StoreEmbedding(p) \/ MarkJob(p)

Next ==
    \E p \in Procs :
        \/ \E m \in Message : Begin(p, m)
        \/ WriteRow(p) \/ WriteLinks(p) \/ WriteIndex(p) \/ CutUpsert(p)
        \/ Reindex(p)
        \/ ListJobs(p) \/ ListMessages(p)
        \/ \E k \in Keys : Take(p, k)
        \/ CheckEmbedding(p) \/ StoreEmbedding(p) \/ FailEmbedding(p)
        \/ MarkJob(p) \/ CutEmbed(p)

Spec == Init /\ [][Next]_vars

(* The daemon's loop never stops between two of its steps for good, and    *)
(* every cycle lists the pending jobs; nobody has to start an upsert.      *)
FairSpec ==
    /\ Spec
    /\ \A p \in Procs : WF_vars(UpsertStep(p)) /\ WF_vars(EmbedStep(p))

-----------------------------------------------------------------------------
(* Properties *)

TypeOK ==
    /\ messages \in [Keys -> Row \union {NoRow}]
    /\ links \in [Keys -> SUBSET Files]
    /\ fts \in [Keys -> Content]
    /\ jobs \in [Keys -> JobStatus]
    /\ embeds \in [Keys -> Content]
    /\ pc \in [Procs -> {"idle", "row", "links", "index",
                          "batch", "embed", "store", "mark"}]
    /\ msg \in [Procs -> Message \union {NoMsg}]
    /\ same \in [Procs -> BOOLEAN]
    /\ todo \in [Procs -> SUBSET Keys]
    /\ cur \in [Procs -> Keys \union {NoKey}]
    /\ seen \in [Procs -> [Keys -> Content]]
    /\ queued \in [Procs -> BOOLEAN]
    /\ outcome \in [Procs -> JobStatus]
    /\ used \in Usage
    /\ overlapped \subseteq Keys /\ cutIndex \subseteq Keys
    /\ cutJob \subseteq Keys /\ settled \subseteq Keys /\ raced \subseteq Keys

(* Keyword search finds a message by exactly the text of its row, and a    *)
(* deleted message not at all, whatever other processes do meanwhile:      *)
(* unless two upserts of that very message were in progress together, or   *)
(* one was cut after its first transaction and nothing re-indexed it since *)
(* (upsert_message, reindex_messages_fts).                                 *)
IndexFollowsRow ==
    \A k \in Keys \ (overlapped \union cutIndex) :
        (\A p \in Procs : ~Ahead(p, k)) => fts[k] = Searchable(messages[k])

(* The links of a message are those of its row once its last upsert        *)
(* returned, an `unchanged` replay after a cut included, unless two        *)
(* upserts of it overlapped (upsert_message's second transaction).         *)
LinksFollowRow ==
    \A k \in settled \ overlapped :
        (\A p \in Procs : ~(pc[p] = "links" /\ msg[p].key = k))
            => links[k] = messages[k].files

(* A live message has the embedding of its text, or a pending job to get   *)
(* it, or a job in error: unless it was re-queued while some process was   *)
(* between reading its text and marking its job, or its upserts overlapped *)
(* or were cut (process_embedding_jobs, backfill_message_embeddings).      *)
EmbeddingTracksText ==
    \A k \in Keys \ (overlapped \union cutJob \union raced) :
        (\A p \in Procs : ~Ahead(p, k)) =>
            \/ Searchable(messages[k]) = NoText
            \/ embeds[k] = messages[k].text
            \/ jobs[k] \in {"pending", "error"}

(* Once messages stop arriving every live message is embedded as it reads, *)
(* or its job has failed: the daemon's cycle drains the queue.             *)
EventuallyFresh ==
    <>[](\A k \in Keys : \/ Searchable(messages[k]) = NoText
                         \/ embeds[k] = messages[k].text
                         \/ jobs[k] = "error")

(* The store as its readers see it: MessageStore implements Projection     *)
(* (the row is what Put writes, and a message is dirty from its row's      *)
(* transaction to its index transaction).                                  *)
Proj == INSTANCE Projection WITH
            Rows <- Row,
            Shown <- Searchable,
            row <- messages,
            shown <- fts,
            dirty <- {k \in Keys : \E p \in Procs : Ahead(p, k)}

Projects == Proj!ProjectionSpec
=============================================================================
