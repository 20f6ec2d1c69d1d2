------------------------------- MODULE Files --------------------------------
(***************************************************************************)
(* Files and canvases: their rows, their content on disk and the text that *)
(* is extracted from it (core/db.py, sync/backfill.py, sync/downloads.py,  *)
(* sync/derived_text.py).                                                  *)
(*                                                                         *)
(* Three processes share them: a backfill, which writes the rows and may   *)
(* download what they name; reconcile-files, which downloads what is not   *)
(* on disk; and the worker of the text jobs.  None of them keeps another   *)
(* out, and a download writes in place.                                    *)
(***************************************************************************)
EXTENDS Naturals, FiniteSets, Sequences, Sorting

CONSTANTS
    Items,            \* files and canvases
    Holdings,         \* what Slack may hold of them
    NoRow,
    DownloadLimit,    \* files that one reconcile tries to download
    MaxBackfills, MaxFaults   \* bounds

ASSUME FilesAssumption ==
    /\ IsFiniteSet(Items) /\ NoRow \notin Items
    /\ \A h \in Holdings : /\ h.emails \subseteq Items /\ h.canvases \subseteq Items \ h.emails
                          /\ h.listing \in Seq(Items) /\ h.refused \subseteq Items
    /\ DownloadLimit \in Nat \ {0} /\ MaxBackfills \in Nat /\ MaxFaults \in Nat

VARIABLES
    held,             \* what Slack holds, which does not change
    files,            \* the files and canvases tables
    oldest,           \* the rows, the one updated longest ago first
    disk,             \* the content at the two places a file may have
    jobs,             \* the text job of each
    texts,            \* what is in derived_text: "none", "cut" or "whole"
    backfill, pass,   \* the two processes that download
    worker,           \* the one that extracts
    rounds, faults,   \* bounds
    forgotten         \* history: content that no job will look at

filesVars == <<held, files, oldest, disk, jobs, texts, backfill, pass, worker, rounds, faults,
               forgotten>>

(* Those that are an email, those that are a canvas, those that a backfill *)
(* lists, in order, and those that are refused whoever asks, and whenever. *)
Emails == held.emails
Canvases == held.canvases
Listing == held.listing
NeverGiven == held.refused

Places == {"files", "emails"}
AtRest == [at |-> "idle", item |-> NoRow, todo |-> <<>>, paths |-> <<>>, tried |-> 0, content |-> FALSE]
NoFetch == [item |-> NoRow, read |-> "none", again |-> FALSE]

FilesInit ==
    /\ held \in Holdings
    /\ files = [i \in Items |-> NoRow] /\ oldest = <<>>
    /\ disk = [i \in Items |-> [p \in Places |-> "absent"]]
    /\ jobs = [i \in Items |-> "none"] /\ texts = [i \in Items |-> "none"]
    /\ backfill = AtRest /\ pass = AtRest /\ worker = NoFetch
    /\ rounds = 0 /\ faults = 0 /\ forgotten = {}

Fault == faults < MaxFaults /\ faults' = faults + 1

Updated_again(i) == Append(oldest, i)

Updated(i) == Append(Without(oldest, i), i)

(* What a row says the content is at, on disk.                             *)
Content(i, path) == IF path = "none" THEN "absent" ELSE disk[i][path]

(* A job that is there is set to pending again, whoever is at work on it.  *)
Requested_once(i) == IF jobs[i] = "none" THEN "pending" ELSE jobs[i]

Requested(i) == "pending"

Enqueue(i) ==
    /\ jobs' = [jobs EXCEPT ![i] = Requested(i)]
    /\ worker' = IF worker.item = i THEN [worker EXCEPT !.again = TRUE] ELSE worker
    /\ forgotten' = forgotten \ {i}

-----------------------------------------------------------------------------
(* The rows *)

(* An event tells of a file: its row keeps the path and the checksum.      *)
FileEvent(i) ==
    /\ i \notin Canvases /\ files[i] = NoRow
    /\ files' = [files EXCEPT ![i] = [path |-> "none", sum |-> FALSE]]
    /\ oldest' = Updated(i)
    /\ UNCHANGED <<disk, jobs, texts, backfill, pass, worker, rounds, faults, forgotten>>

StartBackfill(content) ==
    /\ backfill.at = "idle" /\ rounds < MaxBackfills /\ rounds' = rounds + 1
    /\ backfill' = [AtRest EXCEPT !.at = "next", !.todo = Listing, !.content = content]
    /\ UNCHANGED <<files, oldest, disk, jobs, texts, pass, worker, faults, forgotten>>

(* The row gets the path its content is planned at, there or not, and      *)
(* keeps its checksum; then its text is asked for.                         *)
UpsertListed ==
    /\ backfill.at = "next"
    /\ IF backfill.todo = <<>>
       THEN backfill' = AtRest /\ UNCHANGED <<files, oldest, jobs, worker, forgotten>>
       ELSE LET i == Head(backfill.todo) IN
            /\ backfill' = [backfill EXCEPT !.item = i, !.todo = Tail(@),
                                            !.at = IF backfill.content THEN "open" ELSE "next"]
            /\ files' = [files EXCEPT ![i] =
                 [path |-> "files", sum |-> IF @ = NoRow THEN FALSE ELSE @.sum]]
            /\ oldest' = IF i \in Canvases THEN oldest ELSE Updated(i)
            /\ Enqueue(i)
    /\ UNCHANGED <<disk, texts, pass, rounds, faults>>

-----------------------------------------------------------------------------
(* Reconcile *)

StartPass ==
    /\ pass.at = "idle"
    /\ pass' = [AtRest EXCEPT !.at = "next", !.todo = oldest,
                               !.paths = [k \in DOMAIN oldest |-> files[oldest[k]].path]]
    /\ UNCHANGED <<files, oldest, disk, jobs, texts, backfill, worker, rounds, faults, forgotten>>

Present == Content(Head(pass.todo), Head(pass.paths)) # "absent"

(* A file that is on disk, in whatever state, is passed over and does not  *)
(* count.                                                                  *)
Taken ==
    IF Present THEN [pass EXCEPT !.todo = Tail(@), !.paths = Tail(@)]
    ELSE IF pass.tried >= DownloadLimit THEN AtRest
    ELSE [pass EXCEPT !.todo = Tail(@), !.paths = Tail(@), !.tried = @ + 1,
                      !.at = "open", !.item = Head(pass.todo)]

NextMissing ==
    /\ pass.at = "next"
    /\ pass' = IF pass.todo = <<>> THEN AtRest ELSE Taken
    /\ UNCHANGED <<files, oldest, disk, jobs, texts, backfill, worker, rounds, faults, forgotten>>

-----------------------------------------------------------------------------
(* A download, by either *)

(* Reconcile makes an email's page of its preview, in a directory of its   *)
(* own; a backfill downloads it like any file.                             *)
Place(p, i) == IF p = "pass" /\ i \in Emails THEN "emails" ELSE "files"

PutOnDisk(p, process) ==
    IF p = "pass" THEN pass' = process /\ UNCHANGED backfill
                  ELSE backfill' = process /\ UNCHANGED pass

(* The destination is truncated before anything has arrived.               *)
Open(p, process) ==
    /\ process.at = "open" /\ process.item \notin NeverGiven
    /\ disk' = [disk EXCEPT ![process.item][Place(p, process.item)] = "cut"]
    /\ PutOnDisk(p, [process EXCEPT !.at = "write"])
    /\ UNCHANGED <<files, oldest, jobs, texts, worker, rounds, faults, forgotten>>

(* Slack refuses before a byte is written, three times over: for once, or  *)
(* as ever (no such file, no scope for it, a page to sign in instead).     *)
SlackRefuses(p, process) ==
    /\ process.at = "open" /\ Fault
    /\ PutOnDisk(p, [process EXCEPT !.at = "next"])
    /\ UNCHANGED <<files, oldest, disk, jobs, texts, worker, rounds, forgotten>>

RefusedAsEver(p, process) ==
    /\ process.at = "open" /\ process.item \in NeverGiven
    /\ PutOnDisk(p, [process EXCEPT !.at = "next"])
    /\ UNCHANGED <<files, oldest, disk, jobs, texts, worker, rounds, faults, forgotten>>

(* No one asks for the text of a canvas once its content is there.         *)
Complete(p, process) ==
    LET i == process.item IN
    /\ process.at = "write"
    /\ disk' = [disk EXCEPT ![i][Place(p, i)] = "whole"]
    /\ IF i \in Canvases
       THEN /\ PutOnDisk(p, [process EXCEPT !.at = "next"])
            /\ forgotten' = IF jobs[i] = "pending" /\ worker.item # i
                            THEN forgotten ELSE forgotten \union {i}
       ELSE PutOnDisk(p, [process EXCEPT !.at = "record"]) /\ UNCHANGED forgotten
    /\ UNCHANGED <<files, oldest, jobs, texts, worker, rounds, faults>>

(* The transfer breaks each time, and what came stays; or what came is a   *)
(* page of HTML, which is removed, and with it what was there before.      *)
Broken(p, process) ==
    /\ process.at = "write" /\ Fault
    /\ \E left \in {"cut", "absent"} :
         disk' = [disk EXCEPT ![process.item][Place(p, process.item)] = left]
    /\ PutOnDisk(p, [process EXCEPT !.at = "next"])
    /\ UNCHANGED <<files, oldest, jobs, texts, worker, rounds, forgotten>>

Record(p, process) ==
    LET i == process.item IN
    /\ process.at = "record"
    /\ files' = [files EXCEPT ![i] = [path |-> Place(p, i), sum |-> TRUE]]
    /\ oldest' = Updated(i)
    /\ PutOnDisk(p, [process EXCEPT !.at = "enqueue"])
    /\ UNCHANGED <<disk, jobs, texts, worker, rounds, faults, forgotten>>

AskAgain(p, process) ==
    /\ process.at = "enqueue"
    /\ Enqueue(process.item)
    /\ PutOnDisk(p, [process EXCEPT !.at = "next"])
    /\ UNCHANGED <<files, oldest, disk, texts, rounds, faults>>

Kill(p, process) ==
    /\ process.at # "idle" /\ Fault
    /\ forgotten' = IF process.at \in {"record", "enqueue"}
                    THEN forgotten \union {process.item} ELSE forgotten
    /\ PutOnDisk(p, AtRest)
    /\ UNCHANGED <<files, oldest, disk, jobs, texts, worker, rounds>>

-----------------------------------------------------------------------------
(* The worker of the text jobs *)

(* Whether a job is listed before or after others run makes no difference: *)
(* the row and the content are read as they are when its turn comes.       *)
Extract(i) ==
    /\ worker = NoFetch /\ jobs[i] = "pending"
    /\ worker' = [item |-> i, again |-> FALSE,
                  read |-> Content(i, IF files[i] = NoRow THEN "none" ELSE files[i].path)]
    /\ UNCHANGED <<files, oldest, disk, jobs, texts, backfill, pass, rounds, faults, forgotten>>

(* A file that is not there leaves what was extracted before.  The job is  *)
(* done or skipped, though it may have been asked for again since.         *)
MarkJob ==
    /\ worker # NoFetch
    /\ texts' = [texts EXCEPT ![worker.item] = IF worker.read = "absent" THEN @ ELSE worker.read]
    /\ jobs' = [jobs EXCEPT ![worker.item] = "ended"]
    /\ forgotten' = IF worker.again THEN forgotten \union {worker.item} ELSE forgotten
    /\ worker' = NoFetch
    /\ UNCHANGED <<files, oldest, disk, backfill, pass, rounds, faults>>

(* An extractor raises: an errored job is not tried again.                 *)
FailJob ==
    /\ worker # NoFetch /\ Fault
    /\ jobs' = [jobs EXCEPT ![worker.item] = "error"]
    /\ forgotten' = forgotten \union {worker.item}
    /\ worker' = NoFetch
    /\ UNCHANGED <<files, oldest, disk, texts, backfill, pass, rounds>>

KillWorker ==
    /\ worker # NoFetch /\ Fault
    /\ worker' = NoFetch
    /\ UNCHANGED <<files, oldest, disk, jobs, texts, backfill, pass, rounds, forgotten>>

Working == MarkJob \/ (\E i \in Items : Extract(i))

Download(p, process) ==
    \/ Open(p, process) \/ RefusedAsEver(p, process)
    \/ Complete(p, process) \/ Record(p, process) \/ AskAgain(p, process)

Interrupted(p, process) == SlackRefuses(p, process) \/ Broken(p, process) \/ Kill(p, process)

FilesSteps ==
    \/ \E i \in Items : FileEvent(i)
    \/ \E content \in BOOLEAN : StartBackfill(content)
    \/ UpsertListed \/ StartPass \/ NextMissing
    \/ Download("backfill", backfill) \/ Interrupted("backfill", backfill)
    \/ Download("pass", pass) \/ Interrupted("pass", pass)
    \/ Working \/ FailJob \/ KillWorker

FilesNext == FilesSteps /\ UNCHANGED held

(* Operators and timers run reconcile and the worker again and again.      *)
BackfillGoesOn == (UpsertListed \/ Download("backfill", backfill)) /\ UNCHANGED held
PassGoesOn == (StartPass \/ NextMissing \/ Download("pass", pass)) /\ UNCHANGED held
JobsGoOn == Working /\ UNCHANGED held

FilesFairness ==
    WF_filesVars(BackfillGoesOn) /\ WF_filesVars(PassGoesOn) /\ WF_filesVars(JobsGoOn)

FilesSpec == FilesInit /\ [][FilesNext]_filesVars /\ FilesFairness

-----------------------------------------------------------------------------
(* Properties *)

FilesTypeOK ==
    /\ held \in Holdings
    /\ files \in [Items -> [path : Places \union {"none"}, sum : BOOLEAN] \union {NoRow}]
    /\ \A k, l \in DOMAIN oldest : k # l => oldest[k] # oldest[l]
    /\ disk \in [Items -> [Places -> {"absent", "cut", "whole"}]]
    /\ jobs \in [Items -> {"none", "pending", "ended", "error"}]
    /\ texts \in [Items -> {"none", "cut", "whole"}]
    /\ forgotten \subseteq Items

(* A download that was cut and left what had come, which every pass takes  *)
(* for the file.                                                           *)
LeftCut(i) == "cut" \in {disk[i][p] : p \in Places}

(* A canvas that its backfill did not download is not downloaded later.    *)
NotFetched(i) == i \in Canvases /\ disk[i]["files"] = "absent"

(* A refused file stays the one updated longest ago and is tried by every  *)
(* pass: as many of them as a pass may try keep it from all that follow.   *)
HeldUp(i) ==
    \E n \in DOMAIN oldest :
        /\ oldest[n] = i
        /\ Cardinality({k \in 1 .. n - 1 : /\ oldest[k] \in NeverGiven
                                          /\ Content(oldest[k], files[oldest[k]].path) = "absent"})
             >= DownloadLimit

Arrived(i) == Content(i, files[i].path) = "whole" /\ texts[i] = "whole"

(* What Slack gives is in the end on disk, whole, and its text extracted,  *)
(* however the backfill, the passes and the worker overlap; only content   *)
(* that Slack refuses, that was cut and left, or that waits behind as many *)
(* refused files as a pass may try, a canvas that was not downloaded, and  *)
(* content whose job was lost may not be (reconcile_file_downloads,        *)
(* download_with_retries, process_derived_text_jobs).                      *)
FilesArrive ==
    \A i \in Items : <>[](\/ files[i] = NoRow \/ i \in NeverGiven \/ i \in forgotten
                          \/ LeftCut(i) \/ HeldUp(i) \/ NotFetched(i) \/ Arrived(i))
=============================================================================
