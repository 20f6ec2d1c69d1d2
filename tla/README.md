# A verification of slack_mirror in TLA+

`slack_mirror` keeps a local copy of one or more Slack workspaces in an SQLite
database and serves search, exports, an event feed and outbound messages from
it. This directory holds TLA+ specifications of the parts where processes,
transactions and failures meet and of the algorithms on which its answers rest,
the TLC configurations that check them on small instances, and TLAPS proofs of
what holds for every instance. Paths below are relative to the repository;
`app.py` is `slack_mirror/service/app.py`.

Run everything inside `tla/`: `tlc -workers 2 -config Pipeline.cfg MCEventPipeline`
checks a configuration, `tlapm MessageStore_proofs.tla` checks proofs.

## 1. The system

### Processes

- one **receiver** per workspace (`serve-socket-mode`): acknowledges Socket Mode
  envelopes and stores their events, one thread per envelope;
- one unified **daemon** (`mirror daemon`): for each workspace it applies stored
  events, embeds messages and, every `--reconcile-minutes`, backfills each
  channel from its checkpoint;
- the **API** server (a thread and a connection per request), the **MCP** server
  and the **CLI**, which read the mirror, send messages, manage listeners,
  exports, tenants and sessions, and can run a `mirror backfill` beside the
  daemon (`service/tenant_onboarding.py` starts one as a subprocess);
- timers and operators that run `reconcile-files`, the derived-text worker, the
  runtime snapshot, catch-up runs and installs; a loopback **inference** service.

They share nothing but the SQLite file (WAL, a busy timeout, one transaction per
`with conn:` block) and a few directories and files. systemd starts the receiver
and the daemon again when they die.

### Components, their state and what makes them correct

| component | state | operations | hard parts | correct when |
|---|---|---|---|---|
| message store (`core/db.py`, `sync/embeddings.py`, `search/keyword.py`) | messages, message_files, messages_fts, embedding_jobs, message_embeddings | upsert, embed, backfill embeddings, reindex | each upsert is three transactions, each embedding three; two processes; kills between them | search, links and embeddings are those of the row |
| live event path (`service/server.py`, `service/processor.py`) | events, child_event_journal, messages | receive, store, list, apply, journal, mark | redelivery, events out of order, acknowledgement before storing, kills, errors, reconcile over the same rows | the mirror becomes the workspace; no event is forgotten |
| unified daemon (`cli/main.py`) | its place in the loop, heartbeats | events, embeddings, reconcile of each workspace | one workspace's exception ends it for all | every workspace is served |
| message backfill (`sync/backfill.py`) | sync_state checkpoints, messages | history, threads, checkpoint | overlapping passes, messages posted during a pass, passes cut short | nothing below the checkpoint is missing |
| outbound actions and listeners (`app.py`) | outbound_actions, listeners, listener_deliveries, journal | send, reply, register, unregister, acknowledge | retries, lost answers, concurrent requests, listeners that go | a key is sent once; the recorded outcome is what happened |
| child event journal readers (`app.py`) | cursors kept by clients | list, follow, status | a cursor of seconds and ids over rows that move | a reader that pages on misses nothing |
| channel and user directory (`core/db.py`) | channels, users, channel_members | upsert from backfill, events, rename, create | every writer writes all columns, most know only some | a channel keeps its name and kind; members are who is in it |
| files, canvases and downloads (`sync/downloads.py`, `sync/backfill.py`) | files, canvases, the download directory | upsert, download, reconcile | files half written, rows ahead of files | what Slack gives ends up on disk, whole |
| derived text (`sync/derived_text.py`) | derived_text, chunks, derived_text_jobs | extract, chunk, embed | jobs cut short, chunks replaced while embedded | text and chunks are those of the file |
| semantic rollout (`app.py`) | embeddings of a second model | backfill, readiness, health, plan | batches of limited size, counts that hide what is missing | what is called ready is embedded |
| inference and embeddings (`service/inference.py`, `search/embeddings.py`, `search/profiles.py`) | the loaded model | embed, rerank, probe | threads sharing a model | a request gets the vectors of its model; a probe holds |
| search (`search/`, `app.py`) | none | parse, rank, fuse, page, context | three-valued SQL, pages searched anew, cursors over arriving messages | every match on one page; windows that join |
| retrieval benchmarks (`search/eval.py`, `app.py`) | dataset reports | resolve labels, embed, score, diagnose | labels that name nothing or several rows | scores, coverage and ranks agree |
| frontend authentication (`service/frontend_auth.py`) | auth users, sessions, login attempts | register, login, resolve, revoke, provision | throttle under concurrent attempts, expiry, races on registration | only live sessions resolve; the throttle bounds failures |
| exports (`exports.py`) | bundle directories and manifests | build, rename, delete | several file operations, cut in the middle | a bundle is whole |
| runtime reports and heartbeats (`service/runtime_*.py`) | report and heartbeat files | write, prune, rename, delete, read | file by file, by patterns of names | `latest` shows the report it names |
| tenant onboarding (`service/tenant_onboarding.py`) | config and dotenv files, rows, units | create, activate, install credentials, live sync, retire, status | files read, changed and written back without a lock | the config holds what was reported |
| managed user environment (`service/user_env.py`) | snapshots, virtual environment, schema, units | install, update, roll back, uninstall, check, recover | steps of which one fails | the version that worked survives; recovery ends |
| catch-up runner (`scripts/catchup_until_complete.py`) | its file of what was tried | passes over channels | few per pass, channels that never become clean | every channel gets its turn |
| standalone exporter (`slack_export.py`) | directories and files of a run | files, histories, renames | names that pass from one conversation to another | every message is in one file of its day |
| API, MCP, CLI; configuration, OAuth; release helpers; shell scripts; frontend | none shared | parse, format, call the above | none of state | thin layers |

`PROJECT.json` lists each with its status. The behaviours that are hard to test
are listed there under `hazards`, each at its line with the properties that
cover it.

## 2. Modules

| module | models |
|---|---|
| `Projection` | abstract: a message's row is written first and becomes searchable a little later |
| `MessageStore` | `upsert_message`, `process_embedding_jobs`, `backfill_message_embeddings`, `reindex_messages_fts`, transaction by transaction |
| `EventPipeline` | Slack's Events API, the receiver, the events table, the daemon's batches and its reconcile |
| `Daemon` | the daemon's loop over workspaces, its heartbeats and restarts |
| `Backfill` | `backfill_messages` on one channel that goes on changing |
| `Outbound` | `send_message` and `send_thread_reply`, with the listeners |
| `Journal` | the child event journal and its readers |
| `Directory` | channels and members under every writer |
| `Files` | files and canvases: rows, disk, jobs and texts |
| `Rollout` | embeddings of a second model, and the readiness reports |
| `Inference` | profiles, providers, probes and the loopback service |
| `SearchQuery`, `SearchPages`, `ContextWindow` | what a query finds, how it is ranked and paged, reading on from a hit |
| `Benchmarks` | labels, reports, scores and ranks of retrieval benchmarks |
| `FrontendAuth` | names, passwords, the login throttle, sessions |
| `Exports`, `RuntimeReports` | bundles and runtime snapshots, file by file |
| `Tenants`, `TenantStatus` | tenant operations; what status says of a tenant |
| `UserEnv`, `LiveChecks` | the installer's commands; the checks and their recovery |
| `Catchup`, `StandaloneExport` | the two scripts beside the mirror |
| `Sorting` | the orders by which the code sorts rows and lists, and sums of lists; used by `Catchup`, `Files`, `Rollout` and `Benchmarks` |
| `..._proofs` | proofs about the module or the `MC...` instance they are named for (`Projection` holds its own; `MessageStore_proofs` also shows that `MessageStore` implements `Projection`) |
| `MC...` | the values of the constants for TLC; `MCServices` and `MCOperations` put independent components side by side |

### MessageStore

A process is the daemon or a backfill beside it. `messages`, `links`, `fts`,
`jobs` and `embeds` are the five tables; `pc` says which transaction of its
operation a process does next. `Begin` reads the old row and decides
`unchanged`, `WriteRow`, `WriteLinks` and `WriteIndex` are the transactions of
`upsert_message`, and an upsert that was `unchanged` ends before the last, as
the code does. `text` stands for all the columns the comparison looks at; files
are apart because it does not look at them. `ListJobs`, `ListMessages`, `Take`,
`CheckEmbedding`, `StoreEmbedding` and `MarkJob` are the steps of the two
embedding operations. `CutUpsert` and `CutEmbed` end an operation between two
transactions: a kill, or "database is locked".

The invariants hold outside named situations, kept in history variables:
`overlapped` (two upserts of one message at once), `cutIndex` and `cutJob` (an
upsert cut before its last transaction and not made up for), `raced` (a message
re-queued while it was being embedded). These are the situations in which the
code does go stale; the invariants say they are the only ones.

### EventPipeline

The content of a message is a version number. Slack issues an event per change,
with a time in whole seconds and an opaque id; envelopes may be sent again.
`Acknowledge` and `Store` are the two halves of the receiver's handler.
`List` selects a batch as the SQL does: the first `BatchLimit` pending events by
time, then id. `Take`, `Apply`, `Append` and `Mark` are the steps of one event.
`Fail` is the `except` branch, which can run after any of them. `Fetch` and
`WriteFetched` are the daemon's reconcile. `StopReceiver` and `StopDaemon` are
kills: what was only in memory is gone. `lost`, `late` and `again` record, for
the properties, events lost after their acknowledgement or in error, and
messages whose events were stored after newer ones had been reached. What the
transactions inside `Apply` do is the subject of `MessageStore`.

### Daemon

`at` and `turn` are the place in `cmd_mirror_daemon`: `RunEvents` takes at most
`EventLimit` pending events of a workspace, `RunEmbeddings` follows, then the
next workspace; when it is `due`, `ReconcileTurn` does each workspace in the
order of the config. A refused token (`LoseToken`) ends the daemon at that
workspace's reconcile; one that is not there ends it before the loop. `Fault` is
any other exception that is not caught, and `StartDaemon` is systemd. `channelsOf`
are the channels mirrored of a workspace, `missed` those of which the live path
missed something, and a reconcile takes the first `ChannelLimit` of them by id
(`Taken`), the same ones every time. `beat` is the set of workspaces with a
fresh heartbeat. What a batch does inside is
`EventPipeline`, a reconcile `Backfill`.

### Backfill

A message is its ts: the order it was posted in. The live path either writes a
change at once or misses it. A pass reads the checkpoint (`Start`) or is given a
bound (`StartBounded`), fetches the history as it is at that moment
(`FetchHistory`, newest first), upserts it message by message, chooses the
threads (`ChooseRoots`), fetches and upserts each (`FetchReplies`, or
`SkipThread`), and moves the checkpoint (`Finish`). `Cut` ends it anywhere.
`threaded` is the column the choice depends on: rows whose `thread_ts` is their
own ts. Deletions are left out; which channels a reconcile takes is in `Daemon`.

### Outbound

Each caller is a request thread, the MCP server or a CLI. `actions` is the
table, a row's id its index. The steps follow `send_message`:
the look-up by key (`Start`), the second look-up after the channel is resolved
(`Look`), the insert with its UNIQUE constraint (`Insert`), the reading back of
the latest pending action with the same channel and text (`Pick`), the post,
and the bookkeeping in three transactions; `FinishFailed` and `JournalFailed`
are the `except` branch. `PostRaises` covers a refusal and an accepted message
whose answer is lost. One workspace and one kind of action are modelled, both
being part of every key; `thread_ts` is left out because the reading back
ignores it. The listeners are all enabled and subscribed to what is sent.

### Journal

An event is its place in the order of ids. `recorded` is when it was recorded,
`writing` a transaction that took its time and has not committed (`Stamp`,
`Commit`). A message row or a file link that is written again moves its event,
`Unlink` removes one. Bundles of exports appear (`Build`) and go (`Drop`) with
the time of their directory; a renamed one (`Retitle`) is the same directory
with its files rewritten in place, so it keeps its time under its new name. The
line in the log of exports comes a step later, if at all (`owed`, `Log`). `Page`
is `list_child_events` from a cursor, `NextCursor` what it hands back,
`StaleCursor` its `stale-cursor`; `follows` tells a reader of the journal alone.
`StartLatest` begins at the `latest_cursor` of status, which is of all events
for a follower too (`began`). `seen`, `moved` and `late` record what the reader
was given and how an event came to be behind its cursor. Filters only narrow the
set of events; the choice between the journal and everything is kept.

### Directory, Files, Rollout, Inference

`Directory` has Slack's channels (`name`, `joined`), the `feed` of stored events,
and the tables `rows` and `members`. `RowOf` is what a message, rename or create
event makes of a row: a message event knows neither name nor kind. `FetchListing`
and `WriteListed` are the channel backfill with changes in between,
`CreateChannel`, `Invite` and `WriteInvited` the steps of `create_channel`.
Channels may have members before the mirror; nothing reads who they are
(`backfill_users_and_channels` writes channels and users alone), and `untold`
has those of whom no event or request has told. `backfilled` has the channels
whose row a channel backfill wrote.

`Files` has the rows with their local path, `disk` with what is at each place
(`absent`, `cut` or `whole`), the text `jobs` and the extracted `texts`. `Open`,
`Complete`, `Broken` and `SlackRefuses` are one download, which writes in place;
`backfill` and `pass` are the two processes that download, `Extract`, `MarkJob`
and `FailJob` the worker. `Kill` ends a download, `KillWorker` a job. What Slack
holds is chosen at the start (`held`): which items are emails or canvases, which
a backfill lists, and which it never gives (`RefusedAsEver`), beside the
refusals that pass (`SlackRefuses`). A pass takes the rows updated longest ago
first and tries at most `DownloadLimit`; a refused file stays where it is in
that order.

`Rollout` follows the configured model, embedded by the daemon's jobs, and a
profile's, embedded by batches of at most `BatchLimit` rows (`StartMessages`,
`StartChunks`, `EmbedRow`). A job reads the text, stores its embedding and is
marked done in three steps (`ReadJob`, `StoreJob`, `EndJob`), and messages are
edited in between; `raced` has those that were. `ProfileState`, `ReadinessStatus` and `HealthStatus`
are the reports. Attachment and OCR errors, and the reasons the reports give,
are left out: they add warnings and take none away.

`Inference` computes a profile's settings (`Profile`), what a provider would do
(`Embeds`) and what a probe says (`Available`). The machine has packages, a GPU
or none, and the models that load (`works`): a probe looks at packages and
device, and only its smoke test loads the model (`Loads`). A smoke test of a
profile that goes through the service is a request there like any other, whose
end tells the probe (`Tell`). `MakeProvider` to `Answer` are the steps of a
request in its thread, which stores the model and the model's name one after the
other in a provider that all threads share.

### SearchQuery, SearchPages, ContextWindow, Benchmarks

`SearchQuery` types a query token by token. `Clause` is the SQL of a token with
SQL's three truth values, `Where` that of a query, `SearchLexical`,
`SearchSemantic` and the two searches of derived text what each lane takes.
`SearchPages` merges and orders what was found: `Lane` is what a lane keeps of
each kind and workspace, `Score` the weighted or reciprocal-rank score,
`Diversified` and `Reranked` the last steps, `ReadPage` a request for the next
page, each a search of its own over `Pool(offset)` rows per lane. Scores are
given; the cut-off of candidates by time before they are scored is left out, and
ties are broken by key. `ContextWindow` has windows (`OpenWindow`,
`NextWindow`), threads, permalinks and packs over messages that go on arriving;
a request is one step although its queries are several reads, and a reader asks
for windows or for a pack, not both. `Benchmarks` resolves labels (`Resolve`),
reports (`DatasetReport`), embeds (`BackfillTargets`), scores by rows and by
labels, and ranks (`TargetRank`), while titles change and texts are extracted
anew. A message's title label is its channel's name with its time, so it names
one message; when the channel's name is the channel's id, it is also the
message's own label, and `ChannelNames` has that value. The discounts of ranks
are naturals that fall with the place, for the reciprocals of logarithms the
code divides by; grades are naturals, so datasets with negative or fractional
weights are outside the model.

### FrontendAuth

One name, since every table is keyed by it. `request` says which statement a
client's request is at. `Register`, `Provision` and `Login` begin one;
`CreateUser`, `CheckCredential`, `SetCredential` and `Issue` are the statements
of a registration or a provision, `Verify`, `RecordFailure` and `ClearAttempts`
of a login that counted the failures before, `Resolve`, `Touch`, `Logout` and
`Revoke` of a session. `chosen` is the password last reported as set;
`overlapped` says that two settings ran at once or one was cut.

### Exports, RuntimeReports

A bundle is its three kinds of files, each with what it is about and which id
its links name; a report its pages, its latest page and its manifest. Every
action writes, moves or removes one file or directory, as the code does, so
that operations interleave and are cut (`Cut`, `Killed`) between them. `broken`,
`redated`, `muddled` and `robbed` name what was cut, worked on by two at once,
exported anew for another day, or taken by the pattern of a shorter name.

### Tenants, TenantStatus, UserEnv, LiveChecks

`Tenants` has the config file (which a write empties before it fills it:
`EmptyFile`, `FillFile`), the dotenv file, the rows and the units. An operation
holds the file it read until it writes it back; `BootUnit` and `Reboot` are
systemd. `TenantStatus` is a function of facts that change one at a time: its
operators are the labels, the next action and the actions offered.

`UserEnv` has the three snapshots (`app`, `previous`, `swap`), each a version
that is whole or not, the version in the virtual environment, the schema, and
the units with the code they run. An operator runs one command at a time, step
by step (`DropPrevious` to `Purge`); `CutEnv` ends it anywhere, and units crash,
start and migrate meanwhile. `LiveChecks` derives issues and warnings from facts
(`Issues`, `Warnings`, `CheckLive`), plans (`Remedy`) and applies (`Recovered`).

### Catchup, StandaloneExport

`Catchup` orders the `Candidates` as `list_candidate_channels` does and takes a
few in each pass; a channel that raises is skipped or ends the run, a locked
database defers the channel. `noted` is what was tried and `savedNotes` the
file, which is written after a pass. One workspace is modelled.
`StandaloneExport` selects conversations, writes the files with names made free,
and goes through each history, closing a day's file when the day changes and
renaming the directory when the history says so. The index of the files is
written last, among them, whatever has its name (`EndFiles`). Canvases, which are named by
id, user lists and prompts are left out.

## 3. Runs

| run | configuration | shows |
|---|---|---|
| `store_daemon` | one process, two messages, three upserts, an embedding batch cut and a provider failure | `Projects`: the tables implement `Projection`, fairness included; `EventuallyFresh`: once messages stop, every live message is embedded as it reads or its job is in error |
| `store_two_writers` | two processes on one message, three upserts, cuts at every boundary, a rebuild, a backfill | `TypeOK`, `IndexFollowsRow`, `LinksFollowRow`, `EmbeddingTracksText` |
| `pipeline` | two messages, two events, a redelivery, a kill, an error, a reconcile, batches of one | `TypeOK`, `ProcessedStays` (what a processed event did stays done), `Converges` (a quiet message reads as at Slack), `EveryEventEnds`, `EventuallyMirrored` |
| `pipeline_replay` (violated) | one message, two events, one redelivery | `ReplayConverges` fails: a late redelivery puts an old text back |
| `outbound_sends` | two callers, three requests on one key or none, a fault, a kill, a listener that comes and goes | `TypeOK`, `SentOnceIfAlone`, `OutcomeAgrees`, `DeliveriesStand` |
| `outbound_idempotency` (violated) | two requests with one key | `SentOnce` fails: overlapping requests post the same action twice |
| `backfill_passes` | two processes, three messages, a mishap | `TypeOK`, `CheckpointCovers` (everything below the checkpoint is mirrored), `EventuallyFetched` |
| `backfill_blind_spot` (violated) | one daemon, three messages | `RecentRepliesFetched` fails: a root mirrored before its first reply is not known as a root |
| `services` | `MCServices`: the journal, sign-in, exports, reports, the directory, files, the rollout, catch-up and the standalone exporter, one at a time | see below |
| `directory_kinds` (violated) | two channels, one of them private | `ListedAsWhatItIs` fails: a message lists a private channel as a public one named by its id |
| `operations` | `MCOperations`: tenants and their status, the managed environment, its checks, the daemon, queries, pages, context, benchmarks and inference, one at a time | see below |
| `search_operators` (violated) | a small mirror, queries of two tokens | `OperatorsConstrain` fails: rows found by a channel's name or an alias ignore the operators |

`services` and `operations` put components side by side that keep separate state
and do not call each other: `part` is chosen at the start, `Alone` lets that
component move, and the others stay as they began. The state space is the sum of
the components', not their product, and every property is about the component
that moves. `services` checks `ServicesTypeOK` and

- `PagesMissOnlyLateRecords`: a reader that pages on by the cursor misses only
  events recorded in the second of its cursor and, reading exports, bundles
  renamed and rows committed behind an export of a later second; a follower that
  began at the cursor of status may miss such rows up to that cursor. A cursor
  is stale only when an event moved or went, or for such a follower;
- `FailuresBounded`: logins that verify at once exceed the throttle by no more
  than one each, less one; `CredentialsStand`: the password is the last one
  reported as set, and no name is left without one;
- `ExportsStand`: a bundle nobody works on is whole and about one thing
  (`BundlesAgree`), and the standalone exporter keeps every message once, in a
  file of its day, and indexes only whole files, each under a path of its own,
  but for one titled `files.json`, which the index is written over
  (`ScriptStands`);
- `ListedReportsStand`: a listed report shows what its manifest says;
- `MembersFollow`: once events are applied members are who is in the channel,
  but for members from before the mirror of whom nothing has told and for those
  who left before a request wrote that it had invited them;
- `ReadinessStands`: when health passes every message is embedded, and by its
  current text when no job waits, unless it was edited while it was being
  embedded (`HealthyIsEmbedded`), and a profile that is
  ready knows every document by its current text (`ReadyFindsDocuments`);
- `FilesArrive`: what Slack gives is in the end on disk, whole, with its text,
  unless as many files that it never gives are ahead as a pass may try, a
  download broke off and left a part, or the job for the content was lost;
- `NothingStarves`: the rollout's commands get to all that is within their
  limit (`RolloutCatchesUp`), and no channel of a catch-up run gets a second
  turn before another's first (`NoSecondTurnFirst`).

`operations` checks `OperationsTypeOK` and

- `ConfigAsReported` and `ErasedStaysErased`: the config holds each tenant as
  last reported, and an erased tenant stays out of the database;
- `StatusesStand`: the suggested next action is among those offered
  (`SuggestedIsOffered`), and the strict checks find what the lenient ones do
  (`StrictChecksFindMore`);
- `GoodSurvivesOneFailure`: one failed or cut update or rollback leaves the
  version that worked in a snapshot; `UnitsKeepUpWithSchema`: no unit runs code
  older than the schema but those named;
- `SearchesStand`: a clause and its negation split the messages
  (`NegationSplits`), and pages read to the end have every match once
  (`PagesPartition`);
- `ProvidersStand`: a request gets the vectors of the model it asked for unless
  two are asked for at once (`RightModel`); after a smoke test through the
  service went well, the service embeds with that model, whatever becomes of
  packages and weights, as long as it keeps it, and what a probe finds
  unavailable embeds nothing but the hash (`ProbeHolds`);
- `ContextStands`: windows join without a gap and a pack marks the hit;
  `BenchmarksStand`: scores, coverage and ranks agree;
- `RecoveryEnds`: a recovery leaves nothing to recover but units without files;
- `DaemonServesAll`: every workspace's events are applied, and what was missed
  of the channels a reconcile takes is mirrored, unless a token is gone.

Most of these name exceptions: situations in which the code does go wrong, kept
in history variables or facts, which TLC reaches when an exception is dropped.

Where a property joins several claims, `PROJECT.json` has a mutant of the code
for one of them. The others were seen to fail too: `IndexNamesWhole` when a free
path is not looked for, or the index is not written over what has its name;
`ProbeHolds` when the service loads anew what it has, or a failed load answers a
smoke test well; `HealthyIsEmbedded` when a job stores an older text's vectors,
`ReadyFindsDocuments` when a chunk that is replaced leaves its vectors,
`RolloutCatchesUp` when a batch takes the oldest rows; `NegationSplits` when a
reply's column may make a clause null; `PackShowsHit` when the place of the hit
is counted from the wrong end; `StrictChecksFindMore` when a backlog is no issue
of the strict checks.

The violated runs state what a document or a comment of the repository says, and
TLC shows the code doing otherwise; `PROJECT.json` quotes the line under
`findings`. `outbound_idempotency` needs two requests within the time of one
post to Slack; the others show ordinary behaviour.

### Bounds

Every bound is a constant named `Max...` and counts occurrences of one cause, so
that each cause can happen between any two steps of any process. They are enough
for the situations the properties tell apart:

- two processes, callers, clients, workers, operators or threads: every table
  and file is written by one statement at a time, so an anomaly needs a reader
  and one writer in between;
- two texts and one file: a row can differ from the index, and from a third
  state through deletion;
- three upserts of one message: one in place, one cut or overlapping, one that
  repairs or does not;
- two events: enough for a wrong order, a redelivery behind a newer event, and
  a batch that does not hold everything; in `Journal`, five events over two
  seconds and pages of one: two bundles, for a rename needs two names, a line of
  the log, a row and an event of the journal;
- two files in `Files`, with passes that try one, in five holdings: an email and
  a canvas or a file and an email, with nothing, the first or the second never
  given, so that a refused file is ahead of another. In `Daemon` each of two
  workspaces has two channels and a reconcile takes one: the channel of the
  lower id comes to be mirrored later and takes the other's place;
- three messages in `backfill_passes`: a root, a newer message that moves the
  checkpoint, and a reply to the root. A pass cut short, a pass with bounds, a
  missed edit and a thread not found share one bound there;
- three exports, chores, requests or commands: one that leaves something, one
  that is cut or overlaps it, one that builds on the result; four tenant
  operations, for a retirement and a reboot after two;
- batches, limits and pages of one or two, so that they are full;
- the algorithms (`SearchQuery`, `SearchPages`, `ContextWindow`, `Benchmarks`,
  `Inference`) run over small mirrors in `MCOperations` and `MCSearch`: every
  kind of message, null columns among them, and scores that tie; a channel has
  no name, a name or its id for one. The pools and
  the offset of ranks are constants there, smaller than the code's so that they
  bind.

Symmetry is used for processes, texts and callers in the safety runs only.
Deadlock checking is off where the bounds let the system stop: all upserts,
events or requests made and handled. `Backfill` never stops, its passes come
round for ever, so deadlock is checked there.

### Fairness

- `MessageStore`: each process goes on with the upsert or batch it is in, and
  lists jobs again (`cmd_mirror_daemon` is an endless loop);
- `EventPipeline`: the daemon's step is weakly fair, for the loop and because
  systemd starts it again; so are acknowledging and storing an envelope that
  has arrived. Slack owes nothing: `Change`, `Redeliver` and `Tick` are not
  fair, and reconcile is not either, since it may never run;
- `Daemon`: each step of the loop and the restart are weakly fair; that the next
  reconcile becomes due is strongly fair, as it can only while the daemon
  sleeps between two cycles and time passes there;
- `Backfill`: passes are weakly fair, since reconcile comes round every
  `--reconcile-minutes`; errors, bounded passes and Slack are not;
- `Files`: a backfill that began goes on, and operators and timers run
  `reconcile-files` and the worker again and again;
- `Rollout`: the operator runs both commands of the plan again and again:
  strongly fair, because each waits for the other. The daemon's jobs need not
  be worked off for that.

No fairness is assumed of kills, errors, retries or requests.

## 4. Proofs

All proofs assume only the named ASSUMEs of the modules: that the special values
(`NoKey`, `NoRow`, `Never` and the like) are none of the ordinary ones, that
event ids are positive numbers, that clients and the events of the journal are
finite, that limits and bounds are natural numbers, and, in `Journal`, that the
kinds of events do not overlap and exports sort before rows. Bounds may have any
value. Some modules need more. `StandaloneExport` assumes that names are not
empty and that Slack gives a history in the order of its days; `SearchPages`
that rows have distinct keys and scores are numbers; `Benchmarks` that a dataset
is finite, its grades are natural numbers and a later place counts no more than
an earlier one; `Catchup` that there are finitely many channels. Each holds of every mirror the
code can have, and TLC evaluates them on the instances. `StoreImplementsProjection` assumes one writer that is not cut,
as the run of `Projects` has. Every strengthening below holds on
the instances of the runs too: TLC reads the proof modules, and takes it as an
INVARIANT there.

The theorems of the components that `MCServices` and `MCOperations` put side by
side are stated of each component by itself, with its own `Spec`, and where a run
checks several components under one name, of the sum: `Alone` keeps a part's
variables unless it is the part that moves, so every step of the sum is a step of
each component or leaves it alone.

**`Projection`: `ProjectionShowsRows`.** What the abstract specification gives
readers: outside its dirty messages, search shows what the rows say.

**`MessageStore_proofs`.** `StoreTypeCorrect` (`TypeOK`), `SearchFollowsRows`
(`IndexFollowsRow`), `LinksFollowRows` (`LinksFollowRow`) and
`EmbeddingsTrackTexts` (`EmbeddingTracksText`), for any number of processes and
messages. `IndexFollowsRow` is not inductive: an upsert that found its row
unchanged skips the index, and that is right only because the row it compared
with is still there when it writes. `IndexCore` adds what is needed: of the
upserts of a message that never overlapped, at most one is in progress
(`Alone`); one that found the row unchanged still finds it so before it writes
(`SameMeans`); one past its first transaction finds its own row (`Written`).
`LinksWritten` adds what the second transaction left. For embeddings,
`HeldIsCurrent` says that what a batch has read of a message is still how it
reads, unless the message was re-queued meanwhile, and that the status it is
about to give the job is right.

`StoreImplementsProjection`, in the same module, is the safety half of
`Projects`: initial states map to initial states, and every step of a store with
one writer is a step of `Projection` or changes nothing its readers see. It
rests on `IndexCore`, in states where nothing overlapped (`Undisturbed`).

**`EventPipeline_proofs`.** `PipelineTypeCorrect`, `ProcessedEventsStay`
(`ProcessedStays`) and `QuietMessagesConverge` (`Converges`), for any messages,
events, batch limit and bounds. The core is `InOrder`: if the daemon reaches an
event before an older one of its message that is still to be applied
(`Overtakes`), the message is excused: the newer one was listed first although
not older by the clock, so they share a second, or the older one was stored when
the newer one had been reached. So an `Apply` never takes a row back behind what
is `Done` (`RowsKeepUp`). Reconcile does not either: the page it fetched was at
least as new as everything done then, and nothing is processed until it is
written (`PagesKeepUp`). `Clock`, `Accounted`, `Journaled` and `RowsBehindSlack`
supply the rest: versions and seconds grow together, an event that was never
stored is on its way or lost, a processed event was journaled first, no row is
ahead of Slack.

**`Outbound_proofs`.** `OutboundTypeCorrect`, `OneMessagePerKey`
(`SentOnceIfAlone`), `OutcomesAgree` (`OutcomeAgrees`) and `DeliveriesAreSound`
(`DeliveriesStand`), for any number of callers, keys and listeners. `Equipped`
gives every request under way its parameters and, from its insert on, its row.
`Keyed` says where the one request with a key stands: before the insert there is
no action with the key, before the post no message. `Handled` says of every
action outside the exceptions that one request works on it and the table, the
journal and Slack are where that request has come to (`OnItsWay`), or that
nobody does and the three agree (`Settled`). `Announced` has a request that reads
the listeners journal its message before.

**`Backfill_proofs`.** `BackfillTypeCorrect` and `CheckpointIsCovered`
(`CheckpointCovers`), for any number of processes, any lookback and any length
of the channel. The checkpoint may move because of what the pass did on the way:
`Covered` says for each phase of a pass what it has written, what it holds and
will write (`Got`), which threads it will ask for, and what it cannot know of
(`Settled`). `InRange` says that nobody names a message not yet posted and that
a reply's root is no reply.

**`Services_proofs`.** Every component of `services` keeps its types
(`JournalTypeCorrect`, `AuthTypeCorrect`, `RolloutTypeCorrect`,
`DirectoryTypeCorrect`, `ReportsTypeCorrect`, `ExportsTypeCorrect`,
`ScriptTypeCorrect`, `FilesTypeCorrect`, `CatchupTypeCorrect`), and so does the
sum (`ServicesTypeCorrect`: `ServicesTypeOK`). The safety properties of the run:

- `PagesMissNothingElse` (`PagesMissOnlyLateRecords`), for any events, page limit
  and number of seconds. A page is the first events past the cursor
  (`PageIsPrefix`) and its last one the next cursor (`LastExists`), so nothing
  lies between two pages. What is recorded behind the cursor is the rest:
  `Clocked` bounds both by the clock, `Serial` says that while a row is written
  no follower's cursor is past its second, unless it is still the one it began
  at, and `CursorStands` that a cursor is at an event that is there until one
  moved or went, a follower's at one of the journal or where it began.
- `FailuresStayBounded` (`FailuresBounded`) and `CredentialsAlwaysStand`
  (`CredentialsStand`), for any number of clients. `Throttled` counts with the
  failures of the window the requests that may still add one (`Doubtful`): a
  login is let in only below the limit, and each step moves a request from the
  one to the other at most. `OneSetting` and `Accounted` say that a setting which
  overlaps no other is alone between its statements, and what the name and the
  password are at each.
- `ReadinessAlwaysStands` (`ReadinessStands`), for any messages, texts and
  limits. `EmbeddingsKept` says what holds between two reports: a message that is
  here was asked for, a job that is done or has stored its embedding embedded
  the text there is unless the message is in `raced`, and an embedding of a
  chunk is of its present text. A count that is full is then a set
  that is full. For types,
  `RolloutTypes` adds that no version is newer than the edits that were made and
  that a batch holds rows of its lane within the limit.
- `MembersAlwaysFollow` (`MembersFollow`), for any channels, users and order of
  joins, and any members from before the mirror. `Follows` says of each channel
  and user that the table is right but for who is in `untold`, or that an event
  in the feed will put it right, and `Inviting` that whom a request is
  about to write is in the channel, or the event that tells they left is still
  to come.
- `ListedReportsAlwaysStand` (`ListedReportsStand`), for any reports, threads
  and seconds. `OneEach` gives a name that is not muddled one worker, and
  `ChoreStands` says for each file of a chore what it has left behind, so that
  the one that writes the manifest leaves a report that stands.
- `BundlesAlwaysAgree` (`BundlesAgree`), for any ids, days and workers, by the
  same argument: `OneWorkerEach`, `TaskStands` for each step of an export, a
  rename or a deletion, and `Quiet` for the bundles nobody is at.
- `ExportsAlwaysStand` (`ExportsStand`) adds `ScriptStands`, for any rooms,
  histories and shared files. `TreeFits` says of the directories while a
  conversation is gone through that the settled messages are each in one file of
  their day and that files of it are of days before the one that is open;
  renames keep that because a directory belongs to the conversation whose names
  it had. A free path is always found because, until the index is written, no
  more are taken than files were dealt with (`FilesStand`), which is counting,
  not search; the index then changes one path, its own.
- `EveryChannelInTurn` (`NoSecondTurnFirst`, the half of `NothingStarves` that is
  safety), for any channels and number per pass. A pass takes the candidates in
  order, and those tried come last, by when: `TriedLastIn` says that what this
  run tried stands in the notes behind all it did not, which restarts and
  deferred channels keep.
- `FilesTypeCorrect` needs `FilesInv`: what is in the order of the updates has a
  row and is there once, and a pass keeps a path for each row it has left. It
  holds whatever Slack holds (`HeldInv`).

**`Operations_proofs`.** Every component of `operations` keeps its types
(`TenantsTypeCorrect`, `EnvTypeCorrect`, `InferenceTypeCorrect`,
`ChecksTypeCorrect`, `DaemonTypeCorrect`, `ContextTypeCorrect`,
`PagesTypeCorrect`, `BenchmarksTypeCorrect`), and so does the sum
(`OperationsTypeCorrect`: `OperationsTypeOK`). The safety properties of the run:

- `ConfigIsAsReported` (`ConfigAsReported`) and `ErasedTenantsStayErased`
  (`ErasedStaysErased`), for any tenants and operators. Both are about the time
  between operations; `Orderly` says what an operation that is alone has read and
  written at each of its steps, `Retiring` that what is erased has no row and no
  daemon that could add it, from the step on that stopped it.
- `GoodVersionSurvives` (`GoodSurvivesOneFailure`) and `ServicesKeepUpWithSchema`
  (`UnitsKeepUpWithSchema`), for any services and number of commands. `GoodKept`
  names at each step of a command the snapshot that has the good version
  (`Holder`); `UnitsKept` says what came up while an update migrates.
- `ProvidersKeepTheirWord` (`ProvidersStand`), for any models and threads.
  `NamesTell`: as long as the requests that were in at once asked for one model,
  a model is under its own name or a thread is about to put it there. A smoke test's
  word holds by the same argument: its thread answered from a provider that had
  the model under its name, and no request since asked for another.
- `RecoveryLeavesNothing` (`RecoveryEnds`), from every state of an installation
  whose facts are in their domains, and `StatusesAlwaysStand` (`StatusesStand`),
  in every state.
- `SearchesAlwaysStand` (`SearchesStand`), from two halves.
  `NegationAlwaysSplits` is about every token and message, whatever columns are
  null. `PagesAlwaysPartition` is about every set of rows, scores, pool and
  limit: a sorted list is given by the place of each row, one more than the rows
  before it, so that it has every row once (`PlacesEnumerate`); searches over
  larger pools give the same places as long as the matches fit; and `ReadSoFar`
  says that the pages got are where the list begins, all of it after a page that
  comes short.
- `ContextAlwaysStands` (`ContextStands`), for any messages and limits. `Joined`
  says that what a reader has is one stretch of the stream; `Anchored` that its
  next window is of the same stream; `PackInv` what a pack knows of its hit. That
  a window of the nearest rows leaves no gap is shown by ranking rows by how many
  lie between, without induction.
- `BenchmarksAlwaysStand` (`BenchmarksStand`), from three parts.
  `CoverageAlwaysStands`: what was just embedded is covered.
  `DiagnosticsAlwaysAgree`: a label has a rank exactly when a result that matches
  it is among those scored. `ScoresAlwaysStand`: no search scores better than the
  ideal one, for any dataset, grades, results and falling discounts. Where no
  label names two rows found, every place with a grade has a label of the dataset
  to itself (`RowsLabelled`, `LabelsLabelled`), so the places with a grade are no
  more than the labels; among all ways to give labels places the ideal order has
  the largest sum (`BestInOrder`), which `IdealBounds` states of the gains. That
  a larger grade gains more is `PowersRise`: 2^n is the number of subsets of n
  places. `LabelHitsAreRowHits` reads the place a score by labels has for a row
  off the row's own (`PlacesUpwards`), and so compares the two.

**`Sorting_proofs`.** What the two above share: `InPlaces` lists every member
once and in order (`PlacesEnumerate`, `PlacesRise`), `Without` takes one out and
keeps the order of the rest (`WithoutFacts`), a finite set has a first member in
an order (`FirstInOrder`). And what `Total` adds up: it is given step by step
(`TotalSteps`), and two lists that differ in one place or two have sums that
differ by as much (`OneGrows`, `TwoGrow`). From these `BestInOrder`: of the ways
to put members in places that count less and less, the one in falling order of
worth has the largest sum, because a larger member that comes later may change
places with a smaller one at no loss (`LargerFirst`).

**Only model-checked.** Liveness under fairness and the fairness of `Projects`, which are
outside what the prover supports: `EventuallyFresh`, `EveryEventEnds`,
`EventuallyMirrored`, `EventuallyFetched`, `FilesArrive`, `DaemonServesAll` and
`RolloutCatchesUp`, the other half of `NothingStarves`. Every invariant of the
passing runs is a theorem, for every value of the constants.

## 5. What the models met

Besides the findings, places where the code does something a reader of it may
not expect; the models follow the code:

- `slack_export.py` makes a directory for a channel and writes its days to
  another, whose name is the printed form of bytes, `b'name'`, until a rename
  found in the history leads it to a plain name;
- its README has `--prompt` apply to the types that are not given, while
  `selectConversations` takes none of them;
- catch-up "until complete" does not end while a channel is quiet or may not be
  read, which stay candidates; `--max-passes` ends it. A Slack error that is not
  skipped ends the run with the notes of the pass unsaved;
- a tenant that was erased may come back without any overlap: once the config
  has it again a daemon may start and add its row. `erased` therefore forgets a
  name that is onboarded or synced again, which the proof of
  `ErasedStaysErased` asked for;
- a search whose first page is empty has read a page, so a row that comes later
  moves what follows: the proof of `PagesPartition` showed that `moved` has to
  count that page too;
- the nDCG of a benchmark can exceed 1 when a title label names two of the texts
  found, and, in a search of messages alone, when a channel has its id for a
  name: live events store it so (`processor.py:78`, `:173`), and then
  `eval.py:134` lists a hit under the same label twice, each time with the
  label's full grade. The proof of `ScoresStand` asked for both exceptions;
- `search_readiness` counts the embeddings of deleted messages, so it can call
  ready a model that lacks one of a live message;
- an edit while its message is being embedded queues the job anew, and the batch
  then marks it done (`sync/embeddings.py:215`): health passes with a stale
  embedding and no job pending;
- a bundle that is renamed keeps its time, so its `slack.export.created` under
  the new name is behind the cursors of readers that were past it
  (`app.py:2838`); they are told of it by `slack.export.renamed` alone;
- `child_event_status` gives a follower of the journal a cursor that may be an
  export's or a row's (`app.py:2301`): its first read may say `stale-cursor`
  though nothing went, and it may miss a journal row committed behind it;
- nobody reads who is in a channel: a member from before the mirror is not in
  `channel_members` until they leave and join, or are invited by a request;
- `reconcile_file_downloads` takes the rows updated longest ago first, and a
  file that Slack refuses for good is not updated: `--limit` of them keep every
  later file from being tried;
- the daemon's reconcile takes the first 300 channels by id
  (`cli/main.py:3463`), so what the live path misses in the others is not
  mirrored by it, and a channel that comes to be known among the first takes the
  place of another;
- a probe says that sentence transformers are available when the packages and
  the device are there; the weights may still fail to load, which only a smoke
  test would tell;
- `slack_export.py` writes its index over a file exported under the title
  `files.json`, which the index goes on naming.

## 6. What is not modelled

- Components with status `not_modelled` in `PROJECT.json`: the API's, the MCP
  server's and the CLI's parsing and formatting, configuration and OAuth, the
  release helpers, the shell scripts and the frontend. They keep no state that
  several steps share; what they call is modelled where it has any.
- SQLite is taken at its word: a `with conn:` block is atomic, a read sees what
  was committed, and a `locked` database raises.
- Slack's pagination inside one call is one step: the pages of a history go back
  in time, so nothing is missed between them. Rate limits and sleeps only delay.
- Times are seconds where the code stores seconds and are left out elsewhere.
- Reactions, file and user events write rows of their own or only a journal row;
  message events stand for them in `EventPipeline`. Channel events are in
  `Directory`, file events in `Files`. Users' rows are written by backfill alone.
- Of outbound actions, the acknowledging of a delivery and the disabling of a
  listener; of backfill, deletions; of files, what
  the extractors read; of benchmarks, query variants and scale reviews, which
  measure time; of the standalone exporter, prompts, canvases and lists.
- Between the embedding of a query and of a text lies arithmetic: scores are
  given, and a vector is known by its model and its text.

## 7. What could follow

- The child components that write while others read are composed only inside
  `EventPipeline` (receiver, daemon, reconcile) and `Files`. A composition of
  `EventPipeline` with `MessageStore` would show that the steps inside `Apply`
  change none of its properties; today that rests on `IndexFollowsRow` and
  `Converges` together.
- `Daemon` mirrors a channel's misses at once; with `Backfill` in its place a
  reconcile that is cut between two channels could be followed.
