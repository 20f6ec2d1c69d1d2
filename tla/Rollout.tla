------------------------------ MODULE Rollout -------------------------------
(***************************************************************************)
(* Embeddings of a second model, rolled out beside the configured one, and *)
(* what the readiness reports say of both (sync/embeddings.py,             *)
(* sync/derived_text.py; search_readiness, semantic_rollout_plan,          *)
(* semantic_readiness and search_health in service/app.py).                *)
(*                                                                         *)
(* Messages are numbered as they are dated.  A document of derived text is *)
(* one chunk.  Versions stand for texts, and for the hashes of texts.      *)
(***************************************************************************)
EXTENDS Naturals, FiniteSets, Sequences, Sorting

CONSTANTS
    Configured, Profile,     \* the model of the daemon, and that of a profile
    MaxMessages, Documents,
    BatchLimit,              \* rows that one backfill looks at
    MaxEdits, MaxOutages     \* bounds

ASSUME RolloutAssumption ==
    /\ Configured # Profile /\ IsFiniteSet(Documents)
    /\ MaxMessages \in Nat /\ BatchLimit \in Nat \ {0}
    /\ MaxEdits \in Nat /\ MaxOutages \in Nat

Models == {Configured, Profile}
Numbers == 1 .. MaxMessages

VARIABLES
    versions,         \* messages: the version of each one's text, 0 before it exists
    deleted,
    demands,          \* embedding_jobs
    vectors,          \* message_embeddings: the version embedded for each model, or 0
    documents,        \* derived_text: the version of each, or 0
    updated,          \* the documents, the last updated first
    chunkVectors,     \* derived_text_chunk_embeddings
    job,              \* the daemon's job under way: its message, the version read
    raced,            \* history: messages edited while their job was under way
    batch,            \* an embeddings backfill under way: rows as it read them
    edits, outages    \* bounds

jobVars == <<job, raced>>
rolloutVars == <<versions, deleted, demands, vectors, documents, updated, chunkVectors,
                 jobVars, batch, edits, outages>>

NoJob == [at |-> "none", of |-> 0, version |-> 0]
NoBatch == [lane |-> "none", rows |-> <<>>]
Here == {m \in Numbers : versions[m] # 0 /\ m \notin deleted}

RolloutInit ==
    /\ versions = [m \in Numbers |-> 0] /\ deleted = {}
    /\ demands = [m \in Numbers |-> "none"]
    /\ vectors = [k \in Models |-> [m \in Numbers |-> 0]]
    /\ documents = [d \in Documents |-> 0] /\ updated = <<>>
    /\ chunkVectors = [k \in Models |-> [d \in Documents |-> 0]]
    /\ job = NoJob /\ raced = {} /\ batch = NoBatch
    /\ edits = 0 /\ outages = 0

Edit == edits < MaxEdits /\ edits' = edits + 1

-----------------------------------------------------------------------------
(* What is embedded *)

PostMessage(m) ==
    /\ versions[m] = 0 /\ \A l \in 1 .. m - 1 : versions[l] # 0
    /\ versions' = [versions EXCEPT ![m] = 1]
    /\ demands' = [demands EXCEPT ![m] = "pending"]
    /\ UNCHANGED <<deleted, vectors, documents, updated, chunkVectors, jobVars, batch, edits, outages>>

EditMessage(m) ==
    /\ m \in Here /\ Edit
    /\ versions' = [versions EXCEPT ![m] = @ + 1]
    /\ demands' = [demands EXCEPT ![m] = "pending"]
    /\ raced' = IF job.of = m THEN raced \union {m} ELSE raced
    /\ UNCHANGED <<deleted, vectors, documents, updated, chunkVectors, job, batch, outages>>

(* The embeddings of a message stay when it is deleted.                    *)
DeleteMessage(m) ==
    /\ m \in Here /\ Edit
    /\ deleted' = deleted \union {m}
    /\ demands' = [demands EXCEPT ![m] = "skipped"]
    /\ UNCHANGED <<versions, vectors, documents, updated, chunkVectors, jobVars, batch, outages>>

(* Text that is extracted again has new chunks, and none of their          *)
(* embeddings is left; the worker embeds them for the configured model.    *)
ExtractDocument(d) ==
    /\ Edit
    /\ documents' = [documents EXCEPT ![d] = @ + 1]
    /\ updated' = <<d>> \o Without(updated, d)
    /\ chunkVectors' = [k \in Models |->
         [chunkVectors[k] EXCEPT ![d] = IF k = Configured THEN documents'[d] ELSE 0]]
    /\ UNCHANGED <<versions, deleted, demands, vectors, jobVars, batch, outages>>

(* A job of the daemon reads the text there is, embeds and stores it, or   *)
(* fails, and marks the job done whatever became of the message since.     *)
ReadJob(m) ==
    /\ job = NoJob /\ demands[m] = "pending"
    /\ job' = [at |-> "read", of |-> m, version |-> versions[m]]
    /\ raced' = raced \ {m}
    /\ UNCHANGED <<versions, deleted, demands, vectors, documents, updated, chunkVectors, batch, edits,
                   outages>>

StoreJob ==
    /\ job.at = "read"
    /\ \/ /\ vectors' = [vectors EXCEPT ![Configured][job.of] = job.version]
          /\ job' = [job EXCEPT !.at = "stored"]
          /\ UNCHANGED <<demands, outages>>
       \/ /\ outages < MaxOutages /\ outages' = outages + 1
          /\ demands' = [demands EXCEPT ![job.of] = "error"]
          /\ job' = NoJob
          /\ UNCHANGED vectors
    /\ UNCHANGED <<versions, deleted, raced, documents, updated, chunkVectors, batch, edits>>

EndJob ==
    /\ job.at = "stored"
    /\ demands' = [demands EXCEPT ![job.of] = "done"]
    /\ job' = NoJob
    /\ UNCHANGED <<versions, deleted, vectors, raced, documents, updated, chunkVectors, batch, edits,
                   outages>>

-----------------------------------------------------------------------------
(* embeddings-backfill and derived-text-embeddings-backfill, as the plan   *)
(* prints them: the rows are limited before those that are done are left   *)
(* out.                                                                    *)

FirstStale(rows) == SubSeq(rows, 1, IF Len(rows) < BatchLimit THEN Len(rows) ELSE BatchLimit)

Latest == InPlaces(Here, {p \in Here \X Here : p[1] > p[2]})

Stale(row) ==
    IF batch.lane = "messages" THEN vectors[Profile][row.of] # row.version
                               ELSE chunkVectors[Profile][row.of] # row.version

StartMessages ==
    /\ batch = NoBatch /\ Here # {}
    /\ LET rows == FirstStale(Latest) IN
       batch' = [lane |-> "messages",
                 rows |-> [i \in DOMAIN rows |-> [of |-> rows[i], version |-> versions[rows[i]]]]]
    /\ UNCHANGED <<versions, deleted, demands, vectors, documents, updated, chunkVectors, jobVars, edits,
                   outages>>

StartChunks ==
    /\ batch = NoBatch /\ updated # <<>>
    /\ LET rows == FirstStale(updated) IN
       batch' = [lane |-> "chunks",
                 rows |-> [i \in DOMAIN rows |-> [of |-> rows[i], version |-> documents[rows[i]]]]]
    /\ UNCHANGED <<versions, deleted, demands, vectors, documents, updated, chunkVectors, jobVars, edits,
                   outages>>

(* A chunk that was replaced since it was read cannot have an embedding:   *)
(* the foreign key refuses it, and the backfill ends.                      *)
EmbedRow ==
    /\ batch.rows # <<>>
    /\ LET row == Head(batch.rows)
           gone == batch.lane = "chunks" /\ documents[row.of] # row.version
       IN
       /\ batch' = IF Stale(row) /\ gone THEN NoBatch ELSE [batch EXCEPT !.rows = Tail(@)]
       /\ vectors' = IF batch.lane = "messages" /\ Stale(row)
                     THEN [vectors EXCEPT ![Profile][row.of] = row.version] ELSE vectors
       /\ chunkVectors' = IF batch.lane = "chunks" /\ Stale(row) /\ ~gone
                          THEN [chunkVectors EXCEPT ![Profile][row.of] = row.version]
                          ELSE chunkVectors
    /\ UNCHANGED <<versions, deleted, demands, documents, updated, jobVars, edits, outages>>

(* The provider fails: so does the backfill.                               *)
FailBatch ==
    /\ batch # NoBatch /\ outages < MaxOutages
    /\ outages' = outages + 1 /\ batch' = NoBatch
    /\ UNCHANGED <<versions, deleted, demands, vectors, documents, updated, chunkVectors, jobVars, edits>>

EndBatch ==
    /\ batch # NoBatch /\ batch.rows = <<>>
    /\ batch' = NoBatch
    /\ UNCHANGED <<versions, deleted, demands, vectors, documents, updated, chunkVectors, jobVars, edits,
                   outages>>

RolloutNext ==
    \/ \E m \in Numbers : PostMessage(m) \/ EditMessage(m) \/ DeleteMessage(m) \/ ReadJob(m)
    \/ StoreJob \/ EndJob
    \/ \E d \in Documents : ExtractDocument(d)
    \/ StartMessages \/ StartChunks \/ EmbedRow \/ FailBatch \/ EndBatch

(* The operator runs both commands again and again.                        *)
RolloutFairness ==
    /\ SF_rolloutVars(StartMessages) /\ SF_rolloutVars(StartChunks)
    /\ WF_rolloutVars(EmbedRow \/ EndBatch)

RolloutSpec == RolloutInit /\ [][RolloutNext]_rolloutVars /\ RolloutFairness

-----------------------------------------------------------------------------
(* The reports *)

Docs == {d \in Documents : documents[d] # 0}
Covered(model) == {m \in Here : vectors[model][m] # 0}
CoveredChunks(model) == {d \in Docs : chunkVectors[model][d] # 0}

PlanStatus(model) ==
    IF Cardinality(Covered(model)) >= Cardinality(Here)
       /\ Cardinality(CoveredChunks(model)) >= Cardinality(Docs)
    THEN "ready" ELSE "rollout_needed"

ProfileState(model, available) ==
    CASE ~available -> "provider_unavailable"
      [] available /\ PlanStatus(model) = "ready" -> "ready"
      [] available /\ PlanStatus(model) # "ready"
         /\ Covered(model) \union CoveredChunks(model) # {} -> "partial_rollout"
      [] OTHER -> "rollout_needed"

(* search_readiness counts the embeddings of deleted messages too.         *)
Counted == Cardinality({m \in Numbers : vectors[Configured][m] # 0})
ModelReady == Counted >= Cardinality(Here)

ReadinessStatus_present == IF Here # {} THEN "ready" ELSE "degraded"
ReadinessStatus ==
    IF Here # {} /\ \A m \in Numbers : demands[m] # "error" THEN "ready" ELSE "degraded"

HealthStatus ==
    IF ReadinessStatus = "ready" /\ ModelReady
       /\ (CoveredChunks(Configured) = {} \/ CoveredChunks(Configured) = Docs)
    THEN "pass" ELSE "pass_with_warnings"

-----------------------------------------------------------------------------
(* Properties *)

RolloutTypeOK ==
    /\ versions \in [Numbers -> 0 .. MaxEdits + 1] /\ deleted \subseteq Numbers
    /\ demands \in [Numbers -> {"none", "pending", "done", "skipped", "error"}]
    /\ vectors \in [Models -> [Numbers -> 0 .. MaxEdits + 1]]
    /\ documents \in [Documents -> 0 .. MaxEdits]
    /\ chunkVectors \in [Models -> [Documents -> 0 .. MaxEdits]]
    /\ job \in [at : {"read", "stored"}, of : Numbers, version : 0 .. MaxEdits + 1] \union {NoJob}
    /\ raced \subseteq Numbers
    /\ batch.lane \in {"none", "messages", "chunks"} /\ Len(batch.rows) <= BatchLimit

(* When health passes, a search of the configured model finds every        *)
(* message, if only by an older text: only the embeddings of deleted       *)
(* messages, which are counted with the others, may hide that one is       *)
(* missing.  When no job waits either, it finds each by its current text,  *)
(* except a message edited while its job was under way: the job is queued  *)
(* again by the edit and then marked done, and neither the reports nor the *)
(* daemon see that its embedding is of the older text                      *)
(* (search_readiness, search_health, process_embedding_jobs).              *)
HealthyIsEmbedded ==
    HealthStatus = "pass" =>
        /\ (\A m \in deleted : vectors[Configured][m] = 0)
             => \A m \in Here : vectors[Configured][m] # 0
        /\ (\A m \in Numbers : demands[m] # "pending")
             => \A m \in Here \ raced : vectors[Configured][m] = versions[m]

(* A profile said to be ready finds every document by its current text,    *)
(* for a chunk that is replaced takes its embedding with it; a message may *)
(* be known to it by an older text (semantic_rollout_plan).                *)
ReadyFindsDocuments ==
    ProfileState(Profile, TRUE) = "ready"
    => \A d \in Docs : chunkVectors[Profile][d] = documents[d]

(* The commands that the plan prints, run again and again, embed the       *)
(* current text of every message, and of every document, for the profile's *)
(* model: of those that are among the last BatchLimit, for they never look *)
(* further (backfill_message_embeddings).                                  *)
RolloutCatchesUp ==
    /\ \A m \in Numbers :
         <>[](m \in Here /\ Cardinality({l \in Here : l > m}) < BatchLimit
              => vectors[Profile][m] = versions[m])
    /\ \A d \in Documents :
         <>[]((\E i \in 1 .. BatchLimit : i <= Len(updated) /\ updated[i] = d)
              => chunkVectors[Profile][d] = documents[d])
=============================================================================
