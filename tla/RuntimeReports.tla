--------------------------- MODULE RuntimeReports ---------------------------
(***************************************************************************)
(* The snapshots of the runtime's state that the managed timer and the API *)
(* write, rename, prune and delete (service/runtime_report.py).            *)
(*                                                                         *)
(* A report "n" has pages n-<second>, pages n.latest and, last, a manifest *)
(* n.latest.json.  Markdown and HTML go together here and are one page.    *)
(* Renaming and deleting glob for "n-*": that takes the pages of a report  *)
(* whose name goes on after "n-" too, but never its manifest; the new name *)
(* of such pages is one that no report has.                                *)
(***************************************************************************)
EXTENDS Naturals, FiniteSets

CONSTANTS
    Reports,          \* names
    Longer,           \* Longer[n]: the names that begin with "n-"
    Threads,          \* requests and the timer, at work at once
    KeepCount,        \* RUNTIME_REPORT_RETENTION_MAX_SNAPSHOTS
    MaxAge,           \* RUNTIME_REPORT_RETENTION_MAX_AGE_SECONDS
    MaxSecond,        \* bound: seconds
    MaxChores         \* bound: operations begun

ASSUME ReportsAssumption ==
    /\ IsFiniteSet(Reports) /\ IsFiniteSet(Threads) /\ "none" \notin Reports
    /\ Longer \in [Reports -> SUBSET Reports]
    /\ \A n \in Reports : n \notin Longer[n]
    /\ KeepCount \in Nat \ {0} /\ MaxAge \in Nat
    /\ MaxSecond \in Nat \ {0} /\ MaxChores \in Nat

VARIABLES
    second,
    pages,            \* the stamped pages there are: name and second
    latest,           \* each name's n.latest page: its second, 0 for none
    manifest,         \* each name's manifest: the name in it and its second
    chore,            \* what each thread is at
    chores,           \* bound
    muddled,          \* history: names a chore was cut at, or two worked on
    robbed            \* history: names whose pages went with a shorter name's

reportVars == <<second, pages, latest, manifest, chore, chores, muddled, robbed>>

None == [name |-> "none", at |-> 0]
Resting == [at |-> "rest", name |-> "none", to |-> "none", stamp |-> 0]

ReportsInit ==
    /\ second = 1
    /\ pages = {}
    /\ latest = [n \in Reports |-> 0]
    /\ manifest = [n \in Reports |-> None]
    /\ chore = [t \in Threads |-> Resting]
    /\ chores = 0
    /\ muddled = {} /\ robbed = {}

AtWork(n) == {t \in Threads : n \in {chore[t].name, chore[t].to}}

Takes(t, c) ==
    LET names == {c.name, c.to} \intersect Reports IN
    /\ chore[t] = Resting /\ chores < MaxChores
    /\ chores' = chores + 1
    /\ chore' = [chore EXCEPT ![t] = c]
    /\ muddled' = muddled \union
         {n \in Reports : \E m \in names : AtWork(m) # {} /\
             (n \in names \/ \E u \in AtWork(m) : n \in {chore[u].name, chore[u].to})}
    /\ UNCHANGED second

Onto(t, at) == chore' = [chore EXCEPT ![t].at = at]
Rests(t) == chore' = [chore EXCEPT ![t] = Resting]

-----------------------------------------------------------------------------
(* Snapshots *)

Snapshot(t, n) ==
    /\ Takes(t, [Resting EXCEPT !.at = "page", !.name = n, !.stamp = second])
    /\ robbed' = robbed \ {n}
    /\ UNCHANGED <<pages, latest, manifest>>

WritePage(t) ==
    /\ chore[t].at = "page"
    /\ pages' = pages \union {<<chore[t].name, chore[t].stamp>>}
    /\ Onto(t, "latest")
    /\ UNCHANGED <<second, latest, manifest, chores, muddled, robbed>>

WriteLatest(t) ==
    /\ chore[t].at = "latest"
    /\ latest' = [latest EXCEPT ![chore[t].name] = chore[t].stamp]
    /\ Onto(t, "manifest")
    /\ UNCHANGED <<second, pages, manifest, chores, muddled, robbed>>

Kept_oldest(n, at) ==
    {p \in pages : p[1] = n /\ p[2] + MaxAge >= at
        /\ Cardinality({q \in pages : q[1] = n /\ q[2] < p[2]}) < KeepCount}

(* The newest pages of the name, and none too old.                         *)
Kept(n, at) ==
    {p \in pages : p[1] = n /\ p[2] + MaxAge >= at
        /\ Cardinality({q \in pages : q[1] = n /\ q[2] > p[2]}) < KeepCount}

(* Old pages are pruned, and the manifest is written last.                 *)
PruneAndList(t) ==
    LET n == chore[t].name  s == chore[t].stamp IN
    /\ chore[t].at = "manifest"
    /\ pages' = {p \in pages : p[1] # n} \union Kept(n, s)
    /\ manifest' = [manifest EXCEPT ![n] = [name |-> n, at |-> s]]
    /\ Rests(t)
    /\ UNCHANGED <<second, latest, chores, muddled, robbed>>

-----------------------------------------------------------------------------
(* Deleting and renaming *)

Delete(t, n) ==
    /\ manifest[n] # None
    /\ Takes(t, [Resting EXCEPT !.at = "unpage", !.name = n])
    /\ UNCHANGED <<pages, latest, manifest, robbed>>

(* No report has the new name of the pages of a longer one.                *)
Rename(t, n, to) ==
    /\ n # to /\ manifest[n] # None /\ manifest[to] = None
    /\ Takes(t, [Resting EXCEPT !.at = "move pages", !.name = n, !.to = to])
    /\ UNCHANGED <<pages, latest, manifest, robbed>>

Robs(n) ==
    /\ latest' = [m \in Reports |-> IF m \in Longer[n] THEN 0 ELSE latest[m]]
    /\ robbed' = robbed \union {m \in Longer[n] :
                                   latest[m] # 0 \/ \E p \in pages : p[1] = m}

Unpage(t) ==
    LET n == chore[t].name IN
    /\ chore[t].at = "unpage"
    /\ pages' = {p \in pages : p[1] \notin {n} \union Longer[n]}
    /\ Robs(n)
    /\ Onto(t, "unlist")
    /\ UNCHANGED <<second, manifest, chores, muddled>>

(* Page, then manifest.                                                    *)
Unlist(t) ==
    LET n == chore[t].name IN
    /\ chore[t].at = "unlist"
    /\ latest' = [latest EXCEPT ![n] = 0]
    /\ IF latest[n] # 0
       THEN UNCHANGED <<chore, manifest>>
       ELSE manifest' = [manifest EXCEPT ![n] = None] /\ Rests(t)
    /\ UNCHANGED <<second, pages, chores, muddled, robbed>>

MovePages(t) ==
    LET n == chore[t].name  to == chore[t].to IN
    /\ chore[t].at = "move pages"
    /\ pages' = {p \in pages : p[1] \notin {n} \union Longer[n]}
                  \union {<<to, p[2]>> : p \in {q \in pages : q[1] = n}}
    /\ Robs(n)
    /\ Onto(t, "move latest")
    /\ UNCHANGED <<second, manifest, chores, muddled>>

(* The latest page and the manifest, what there is of them.                *)
MoveLatest(t) ==
    LET n == chore[t].name  to == chore[t].to IN
    /\ chore[t].at = "move latest"
    /\ latest' = [latest EXCEPT ![n] = 0, ![to] = IF latest[n] = 0 THEN @ ELSE latest[n]]
    /\ manifest' = [manifest EXCEPT ![n] = None,
                       ![to] = IF manifest[n] = None THEN @ ELSE manifest[n]]
    /\ robbed' = IF n \in robbed THEN robbed \union {to} ELSE robbed
    /\ muddled' = IF n \in muddled THEN muddled \union {to} ELSE muddled
    /\ Onto(t, "rewrite")
    /\ UNCHANGED <<second, pages, chores>>

(* The manifest gets its new name, or the rename raises for the lack of it.*)
Rewrite(t) ==
    LET to == chore[t].to IN
    /\ chore[t].at = "rewrite"
    /\ manifest' = IF manifest[to] = None THEN manifest
                   ELSE [manifest EXCEPT ![to].name = to]
    /\ Rests(t)
    /\ UNCHANGED <<second, pages, latest, chores, muddled, robbed>>

Killed(t) ==
    /\ chore[t] # Resting
    /\ Rests(t)
    /\ muddled' = muddled \union ({chore[t].name, chore[t].to} \intersect Reports)
    /\ UNCHANGED <<second, pages, latest, manifest, chores, robbed>>

Later ==
    /\ second < MaxSecond
    /\ second' = second + 1
    /\ UNCHANGED <<pages, latest, manifest, chore, chores, muddled, robbed>>

ReportsNext ==
    \/ Later
    \/ \E t \in Threads :
         \/ \E n \in Reports :
              \/ Snapshot(t, n) \/ Delete(t, n)
              \/ \E to \in Reports : Rename(t, n, to)
         \/ WritePage(t) \/ WriteLatest(t) \/ PruneAndList(t)
         \/ Unpage(t) \/ Unlist(t) \/ MovePages(t) \/ MoveLatest(t) \/ Rewrite(t)
         \/ Killed(t)

ReportsSpec == ReportsInit /\ [][ReportsNext]_reportVars

-----------------------------------------------------------------------------
(* Properties *)

ReportsTypeOK ==
    /\ second \in 1 .. MaxSecond
    /\ pages \subseteq Reports \X (1 .. MaxSecond)
    /\ latest \in [Reports -> 0 .. MaxSecond]
    /\ manifest \in [Reports -> {None} \union [name : Reports, at : 1 .. MaxSecond]]
    /\ chore \in [Threads ->
         [at : {"rest", "page", "latest", "manifest", "unpage", "unlist", "move pages",
                "move latest", "rewrite"},
          name : Reports \union {"none"}, to : Reports \union {"none"},
          stamp : 0 .. MaxSecond]]
    /\ chores \in 0 .. MaxChores
    /\ muddled \subseteq Reports /\ robbed \subseteq Reports

(* A listed report shows what its manifest says: its latest page is of the *)
(* manifest's second, the stamped page of that second is there too, and it *)
(* has the name it is listed under.  Not so if a chore on it was cut or    *)
(* two worked on it at once, nor if a report whose name is the beginning   *)
(* of its own was renamed or deleted (delete_runtime_report_snapshot and   *)
(* rename_runtime_report_snapshot take all that begins with "name-").      *)
ListedReportsStand ==
    \A n \in Reports \ (muddled \union robbed) :
        manifest[n] # None /\ AtWork(n) = {} =>
            /\ manifest[n].name = n
            /\ latest[n] = manifest[n].at
            /\ <<n, manifest[n].at>> \in pages
=============================================================================
