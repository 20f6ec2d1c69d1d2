------------------------------- MODULE Exports -------------------------------
(***************************************************************************)
(* Export bundles: a directory of files under the export root, written,    *)
(* renamed and deleted file by file by the API server's threads and by the *)
(* channel-day script, a process of its own (exports.py, service/app.py,   *)
(* scripts/export_channel_day.py).                                         *)
(*                                                                         *)
(* The day stands for all that a bundle is about.  The attachments of a    *)
(* bundle are abstracted with the links to them that its pages hold.       *)
(***************************************************************************)
EXTENDS Naturals, FiniteSets

CONSTANTS
    Ids,              \* export ids
    Days,             \* what a bundle may be about
    Nothing,
    Workers,          \* requests and scripts under way at once
    MaxExports        \* bound: operations begun

Parts == {"html", "json", "manifest"}
Bundle == [Parts -> [day : Days \union {Nothing}, link : Ids \union {Nothing}]]

ASSUME ExportsAssumption ==
    /\ IsFiniteSet(Ids) /\ IsFiniteSet(Days) /\ IsFiniteSet(Workers)
    /\ Nothing \notin Ids \union Days \union Bundle
    /\ MaxExports \in Nat

VARIABLES
    bundles,          \* each id's directory: what its files are about and link to
    task,             \* what each worker is at
    exports,          \* bound
    redated,          \* history: bundles exported anew for another day
    broken            \* history: bundles a task was cut at, or two worked on

exportVars == <<bundles, task, exports, redated, broken>>

Unwritten == [day |-> Nothing, link |-> Nothing]
Empty == [f \in Parts |-> Unwritten]
PageOf(day, id) == [day |-> day, link |-> id]
Has(id, part) == bundles[id] # Nothing /\ bundles[id][part] # Unwritten
Free == [doing |-> "nothing", kind |-> "none", id |-> Nothing, to |-> Nothing,
         day |-> Nothing, left |-> {}]

ExportsInit ==
    /\ bundles = [i \in Ids |-> Nothing]
    /\ task = [w \in Workers |-> Free]
    /\ exports = 0
    /\ redated = {} /\ broken = {}

Touches(w) == {task[w].id, task[w].to} \ {Nothing}

(* A worker sets out; ids it shares with another are noted.                *)
SetsOut(w, t) ==
    LET shared == {t.id, t.to} \intersect UNION {Touches(v) : v \in Workers}
    IN /\ task[w] = Free /\ exports < MaxExports
       /\ exports' = exports + 1
       /\ task' = [task EXCEPT ![w] = t]
       /\ broken' = IF shared = {} THEN broken
                    ELSE broken \union ({t.id, t.to} \ {Nothing})
                                \union UNION {Touches(v) : v \in {u \in Workers :
                                                Touches(u) \intersect shared # {}}}

Then(w, doing) == task' = [task EXCEPT ![w].doing = doing]
Done(w) == task' = [task EXCEPT ![w] = Free]

(* Writing raises where the directory is gone; what is there stays.        *)
Raises(w) ==
    /\ Done(w)
    /\ broken' = broken \union Touches(w)
    /\ UNCHANGED <<bundles, exports, redated>>

Put(w, id, part, page, next) ==
    /\ bundles' = [bundles EXCEPT ![id] =
                      [(IF @ = Nothing THEN Empty ELSE @) EXCEPT ![part] = page]]
    /\ IF next = "nothing" THEN Done(w) ELSE Then(w, next)

-----------------------------------------------------------------------------
(* What a bundle says it is *)

About_json(b) == IF b["json"] # Unwritten THEN b["json"].day ELSE Nothing

(* The metadata come from the manifest if there is one, else from the      *)
(* export itself.                                                          *)
About(b) == IF b["manifest"] # Unwritten THEN b["manifest"].day ELSE About_json(b)

WriteManifest(w, id) ==
    /\ task[w].doing = "manifest"
    /\ IF bundles[id] = Nothing
       THEN Raises(w)
       ELSE /\ Put(w, id, "manifest", PageOf(About(bundles[id]), id), "nothing")
            /\ UNCHANGED <<exports, redated, broken>>

-----------------------------------------------------------------------------
(* Exporting *)

(* The id of a channel-day is made from its day, or given with it.  What   *)
(* the id already has is written over: page, then json, then manifest.     *)
ChannelDay(w, id, day) ==
    /\ SetsOut(w, [Free EXCEPT !.doing = "html", !.kind = "day", !.id = id, !.day = day])
    /\ redated' = IF bundles[id] # Nothing /\ About(bundles[id]) # day
                  THEN redated \union {id} ELSE redated
    /\ UNCHANGED bundles

(* The page is written last of the two, into a directory made for it; an   *)
(* id that has one is refused.                                             *)
Selected(w, id, day) ==
    /\ bundles[id] = Nothing
    /\ SetsOut(w, [Free EXCEPT !.doing = "json", !.kind = "selected", !.id = id, !.day = day])
    /\ bundles' = [bundles EXCEPT ![id] = Empty]
    /\ UNCHANGED redated

WritePart(w, part) ==
    LET id == task[w].id
        first == IF task[w].kind = "day" THEN "html" ELSE "json"
    IN /\ task[w].kind \in {"day", "selected"} /\ task[w].doing = part
       /\ IF task[w].kind = "selected" /\ bundles[id] = Nothing
          THEN Raises(w)
          ELSE /\ Put(w, id, part, PageOf(task[w].day, id),
                      IF part # first THEN "manifest"
                      ELSE IF part = "html" THEN "json" ELSE "html")
               /\ UNCHANGED <<exports, redated, broken>>

-----------------------------------------------------------------------------
(* Renaming and deleting *)

(* To the same id, it only reads.  An id that is taken is refused.         *)
RenameBundle(w, id, to) ==
    /\ id # to /\ bundles[id] # Nothing /\ bundles[to] = Nothing
    /\ SetsOut(w, [Free EXCEPT !.doing = "move", !.kind = "rename", !.id = id, !.to = to])
    /\ UNCHANGED <<bundles, redated>>

(* A directory that has appeared meanwhile swallows the one moved to it.   *)
Move(w) ==
    LET id == task[w].id  to == task[w].to IN
    /\ task[w].doing = "move"
    /\ IF bundles[id] = Nothing THEN Raises(w)
       ELSE /\ bundles' = [bundles EXCEPT ![id] = Nothing,
                              ![to] = IF @ = Nothing THEN bundles[id] ELSE @]
            /\ redated' = IF id \in redated THEN (redated \ {id}) \union {to}
                          ELSE redated
            /\ broken' = IF id \in broken THEN broken \union {to} ELSE broken
            /\ Then(w, "relink json")
            /\ UNCHANGED exports

Relinked_never(page, id, to) == page

(* The links to the old id are replaced; others are left.                  *)
Relinked(page, id, to) == IF page.link = id THEN [page EXCEPT !.link = to] ELSE page

Relink(w, doing, part, next) ==
    LET id == task[w].id  to == task[w].to IN
    /\ task[w].doing = doing
    /\ Then(w, next)
    /\ bundles' = IF Has(to, part)
                  THEN [bundles EXCEPT ![to][part] = Relinked(@, id, to)]
                  ELSE bundles
    /\ UNCHANGED <<exports, redated, broken>>

DeleteBundle(w, id) ==
    /\ bundles[id] # Nothing
    /\ SetsOut(w, [Free EXCEPT !.doing = "unlink", !.kind = "delete", !.id = id,
                               !.left = {p \in Parts : Has(id, p)}])
    /\ UNCHANGED <<bundles, redated>>

(* The files it found go one by one, then the directory if it is empty.    *)
Unlink1(w, part) ==
    LET id == task[w].id IN
    /\ task[w].doing = "unlink" /\ part \in task[w].left
    /\ IF ~Has(id, part) THEN Raises(w)
       ELSE /\ bundles' = [bundles EXCEPT ![id][part] = Unwritten]
            /\ task' = [task EXCEPT ![w].left = @ \ {part}]
            /\ UNCHANGED <<exports, redated, broken>>

RemoveDir(w) ==
    LET id == task[w].id IN
    /\ task[w].doing = "unlink" /\ task[w].left = {}
    /\ IF bundles[id] # Empty THEN Raises(w)
       ELSE /\ bundles' = [bundles EXCEPT ![id] = Nothing]
            /\ redated' = redated \ {id}
            /\ Done(w)
            /\ UNCHANGED <<exports, broken>>

(* A script is killed, the server stops, the disk is full.                 *)
Cut(w) == task[w] # Free /\ Raises(w)

ExportsNext == \E w \in Workers :
    \/ \E id \in Ids :
         \/ \E day \in Days : ChannelDay(w, id, day) \/ Selected(w, id, day)
         \/ \E to \in Ids : RenameBundle(w, id, to)
         \/ DeleteBundle(w, id)
    \/ WritePart(w, "html") \/ WritePart(w, "json")
    \/ WriteManifest(w, IF task[w].kind = "rename" THEN task[w].to ELSE task[w].id)
    \/ Move(w) \/ Relink(w, "relink json", "json", "relink page")
    \/ Relink(w, "relink page", "html", "manifest")
    \/ \E part \in Parts : Unlink1(w, part)
    \/ RemoveDir(w) \/ Cut(w)

ExportsSpec == ExportsInit /\ [][ExportsNext]_exportVars

-----------------------------------------------------------------------------
(* Properties *)

ExportsTypeOK ==
    /\ bundles \in [Ids -> {Nothing} \union Bundle]
    /\ task \in [Workers ->
         [doing : {"nothing", "html", "json", "manifest", "move", "relink json",
                   "relink page", "unlink"},
          kind : {"none", "day", "selected", "rename", "delete"},
          id : Ids \union {Nothing}, to : Ids \union {Nothing},
          day : Days \union {Nothing}, left : SUBSET Parts]]
    /\ exports \in 0 .. MaxExports
    /\ redated \subseteq Ids /\ broken \subseteq Ids

(* A bundle nobody is at work on is whole: its page, its json and its      *)
(* manifest are there, link to the id it has now and are about one thing.  *)
(* Not so one that a task was cut at or two worked on at once, whose links *)
(* may name an id some other bundle has since; and one exported anew under *)
(* its id for another day keeps the manifest of the first                  *)
(* (rename_export_bundle, read_export_metadata).                           *)
BundlesAgree ==
    \A id \in Ids \ broken :
        bundles[id] # Nothing /\ (\A w \in Workers : id \notin Touches(w)) =>
            /\ \A p \in Parts : bundles[id][p].link = id
            /\ bundles[id]["html"].day = bundles[id]["json"].day
            /\ id \in redated \/ About(bundles[id]) = bundles[id]["json"].day
=============================================================================
