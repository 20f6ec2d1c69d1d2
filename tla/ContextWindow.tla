--------------------------- MODULE ContextWindow ---------------------------
(***************************************************************************)
(* Reading around what a search found (service/app.py): windows over a     *)
(* channel or a thread that continue one another by cursors, whole threads,*)
(* permalinks, and packs of the hits a user selected.                      *)
(*                                                                         *)
(* Each request reads the mirror as it is then, while messages still come: *)
(* late ones, replies, texts extracted anew.  Rows are never removed, a    *)
(* deleted message is shown as such.  A message is its time and the root of*)
(* its thread (0 if its thread_ts is null).                                *)
(***************************************************************************)
EXTENDS Integers, Sequences, FiniteSets

CONSTANTS
    Messages,      \* the messages of a channel
    Unmirrored,    \* those not mirrored at first
    WindowSizes,   \* how many messages a window may show
    MaxWindows,    \* bound: windows a reader asks for
    Extractions,   \* what a file's text may be, as chunks
    MaxExtractions,\* bound: times it is extracted
    Configs,       \* configured workspaces, in order, with name and domain
    NamesWithin,   \* for each domain, the names that it contains
    WorkspaceRows, \* the workspaces the database knows, with name and domain
    LinkDomains    \* domains of links

(* A message is known by its time, and an extraction gives some text.      *)
ASSUME ContextAssumption ==
    /\ IsFiniteSet(Messages) /\ Messages \subseteq [ts : Nat \ {0}, root : Nat]
    /\ Unmirrored \subseteq Messages
    /\ \A m, n \in Messages : m.ts = n.ts => m = n
    /\ WindowSizes \subseteq Nat \ {0} /\ MaxWindows \in Nat \ {0}
    /\ Extractions \subseteq Seq(STRING) \ {<<>>}

VARIABLES
    stored,        \* messages mirrored
    reader,        \* what the reader has: selection, rows, flags
    there,         \* history: messages mirrored when the reader began
    rooted,        \* history: replies came to a selected message without any
    chunks,        \* the file's text, none at first
    hit,           \* a chunk a search found, what it said, and if that is stale
    pack,          \* the chunks of the last pack
    extractions    \* how often the text was extracted

contextVars == <<stored, reader, there, rooted, chunks, hit, pack, extractions>>

NoReader == [selected |-> 0, stream |-> 0, rows |-> <<>>, before |-> FALSE, after |-> FALSE,
             refused |-> FALSE, windows |-> 0]
NoHit == [index |-> 0, text |-> "none", stale |-> FALSE]
NoPack == [selected |-> 0, rows |-> <<>>]

AtTime(ts) == CHOOSE m \in stored : m.ts = ts
Elems(s) == {s[i] : i \in DOMAIN s}
Least(n, k) == IF n < k THEN n ELSE k

-----------------------------------------------------------------------------
(* Windows *)

(* A message with replies is read in its thread even if it has no          *)
(* thread_ts itself; any other without one in its channel.                 *)
ThreadRoot(m) ==
    IF m.root # 0 THEN m.root
    ELSE IF \E r \in stored : r.root = m.ts THEN m.ts ELSE 0

Stream(root) ==
    IF root = 0 THEN stored ELSE {m \in stored : m.ts = root \/ m.root = root}

Side_inclusive(root, anchor, direction) ==
    {m \in Stream(root) : IF direction = "before" THEN m.ts < anchor ELSE m.ts >= anchor}

Side(root, anchor, direction) ==
    {m \in Stream(root) : IF direction = "before" THEN m.ts < anchor ELSE m.ts > anchor}

(* The nearest on one side, earliest first.                                *)
ContextWindowRows(root, anchor, direction, limit) ==
    LET side == Side(root, anchor, direction)
        Nearer(m) == {n \in side : IF direction = "before" THEN n.ts > m.ts ELSE n.ts < m.ts}
        near == {m \in side : Cardinality(Nearer(m)) < limit}
    IN  [i \in 1..Cardinality(near) |->
            CHOOSE m \in near : Cardinality({n \in near : n.ts < m.ts}) = i - 1]

HasNeighbor(root, anchor, direction) ==
    ContextWindowRows(root, anchor, direction, 1) # <<>>

(* The first window has half its rows before the hit, and the rest after.  *)
OpenWindow ==
    /\ reader = NoReader /\ chunks = <<>>
    /\ \E m \in stored, limit \in WindowSizes :
        LET root == ThreadRoot(m)
            earlier == ContextWindowRows(root, m.ts, "before", (limit - 1) \div 2)
            later == ContextWindowRows(root, m.ts, "after", limit - 1 - (limit - 1) \div 2)
            rows == earlier \o <<m>> \o later
        IN  reader' = [selected |-> m.ts, stream |-> root, rows |-> rows, refused |-> FALSE, windows |-> 1,
                       before |-> HasNeighbor(root, rows[1].ts, "before"),
                       after |-> HasNeighbor(root, rows[Len(rows)].ts, "after")]
    /\ there' = stored
    /\ UNCHANGED <<stored, rooted, chunks, hit, pack, extractions>>

(* A cursor is good for the stream it was made in; the stream is told from *)
(* the mirror each time.                                                   *)
NextWindow(direction) ==
    /\ reader.windows \in 1..(MaxWindows - 1) /\ ~reader.refused
    /\ IF direction = "before" THEN reader.before ELSE reader.after
    /\ \E limit \in WindowSizes :
        LET first == reader.rows[1].ts
            last == reader.rows[Len(reader.rows)].ts
            root == ThreadRoot(AtTime(reader.selected))
            new == ContextWindowRows(root, IF direction = "before" THEN first ELSE last, direction, limit)
            rows == IF direction = "before" THEN new \o reader.rows ELSE reader.rows \o new
        IN  reader' =
                IF root # reader.stream THEN [reader EXCEPT !.refused = TRUE]
                ELSE [reader EXCEPT
                        !.rows = rows, !.windows = @ + 1,
                        !.before = IF direction = "before" THEN HasNeighbor(root, rows[1].ts, "before") ELSE @,
                        !.after = IF direction = "after"
                                  THEN HasNeighbor(root, rows[Len(rows)].ts, "after") ELSE @]
    /\ UNCHANGED <<stored, there, rooted, chunks, hit, pack, extractions>>

CloseWindow ==
    /\ reader # NoReader /\ reader' = NoReader /\ there' = {} /\ rooted' = FALSE
    /\ UNCHANGED <<stored, chunks, hit, pack, extractions>>

(* A message is mirrored, in whatever order.                               *)
ArriveMessage ==
    /\ \E m \in Unmirrored \ stored :
        /\ stored' = stored \union {m}
        /\ rooted' = (rooted \/ (reader # NoReader /\ m.root = reader.selected /\ reader.stream = 0))
    /\ UNCHANGED <<reader, there, chunks, hit, pack, extractions>>

-----------------------------------------------------------------------------
(* Threads and permalinks *)

(* A thread's first messages, with its root if that is mirrored.           *)
ThreadContext(root, limit) ==
    [items |-> {m \in Stream(root) : Cardinality({n \in Stream(root) : n.ts < m.ts}) < limit},
     root |-> \E m \in stored : m.ts = root]

(* The workspace of a link: of its domain or name as configured, in the    *)
(* order of the configuration; else the only one whose name the domain     *)
(* contains; else one of the database, which keeps those no longer in it.   *)
WorkspaceFor(domain) ==
    LET exact == {i \in DOMAIN Configs : domain \in {Configs[i].domain, Configs[i].name}}
        alike == {Configs[i].name : i \in DOMAIN Configs} \intersect NamesWithin[domain]
        kept == {r.name : r \in {r \in WorkspaceRows : domain \in {r.domain, r.name}}}
    IN  IF exact # {} THEN Configs[CHOOSE i \in exact : \A j \in exact : i <= j].name
        ELSE IF Cardinality(alike) = 1 THEN CHOOSE n \in alike : TRUE
        ELSE IF kept # {} THEN CHOOSE n \in kept : TRUE
        ELSE "unknown"

(* What a link to a message says is mirrored.                              *)
Resolution(ts, root) ==
    [message |-> \E m \in stored : m.ts = ts, root |-> \E m \in stored : m.ts = root,
     count |-> Cardinality(Stream(root))]

(* A permalink opens the thread it names if any of it is mirrored.         *)
OpenPermalink ==
    /\ reader = NoReader /\ chunks = <<>>
    /\ \E domain \in LinkDomains, m \in Messages, limit \in WindowSizes :
        LET root == IF m.root = 0 THEN m.ts ELSE m.root
            thread == ThreadContext(root, limit).items
        IN  /\ WorkspaceFor(domain) # "unknown" /\ Resolution(m.ts, root).count > 0
            /\ reader' = [NoReader EXCEPT !.selected = m.ts, !.stream = root, !.windows = MaxWindows,
                            !.rows = [i \in 1..Cardinality(thread) |->
                                CHOOSE n \in thread : Cardinality({k \in thread : k.ts < n.ts}) = i - 1],
                            !.after = Resolution(m.ts, root).count > limit]
    /\ there' = stored
    /\ UNCHANGED <<stored, rooted, chunks, hit, pack, extractions>>

-----------------------------------------------------------------------------
(* Packs *)

(* The user selects a chunk; the target names its text and its number.     *)
(* Packs and windows share nothing, so a behaviour has one or the other.   *)
FindChunk ==
    /\ hit = NoHit /\ reader = NoReader
    /\ \E i \in DOMAIN chunks : hit' = [index |-> i, text |-> chunks[i], stale |-> FALSE]
    /\ UNCHANGED <<stored, reader, there, rooted, chunks, pack, extractions>>

(* The text is extracted, chunks and all, in place of what there was.      *)
ExtractText ==
    /\ reader = NoReader
    /\ extractions < MaxExtractions /\ extractions' = extractions + 1
    /\ chunks' \in Extractions
    /\ hit' = [hit EXCEPT !.stale = hit # NoHit]
    /\ UNCHANGED <<stored, reader, there, rooted, pack>>

(* The chunk and those next to it; the first ones, the first as selected,  *)
(* if there is no such chunk any more.                                     *)
SelectContextChunks(index, around) ==
    IF index \notin DOMAIN chunks
    THEN [selected |-> 1, rows |-> SubSeq(chunks, 1, Least(Len(chunks), 2 * around + 1))]
    ELSE LET start == IF index > around THEN index - around ELSE 1
         IN  [selected |-> index - start + 1, rows |-> SubSeq(chunks, start, Least(Len(chunks), index + around))]

BuildPack ==
    /\ hit # NoHit
    /\ \E around \in WindowSizes : pack' = SelectContextChunks(hit.index, around)
    /\ UNCHANGED <<stored, reader, there, rooted, chunks, hit, extractions>>

ContextInit ==
    /\ stored = Messages \ Unmirrored /\ reader = NoReader /\ there = {} /\ rooted = FALSE
    /\ chunks = <<>> /\ hit = NoHit /\ pack = NoPack /\ extractions = 0

ContextNext ==
    \/ OpenWindow \/ CloseWindow \/ OpenPermalink
    \/ \E direction \in {"before", "after"} : NextWindow(direction)
    \/ ArriveMessage
    \/ FindChunk \/ ExtractText \/ BuildPack

ContextSpec == ContextInit /\ [][ContextNext]_contextVars

-----------------------------------------------------------------------------
(* Properties *)

ContextTypeOK ==
    /\ stored \subseteq Messages /\ there \subseteq stored /\ Elems(reader.rows) \subseteq stored
    /\ reader.windows \in 0..MaxWindows
    /\ pack.selected \in 0..Len(pack.rows)

InStream(m, root) == root = 0 \/ m.ts = root \/ m.root = root

(* Windows that continue one another show every message that was mirrored  *)
(* when the first was opened exactly once, in order and with none left out *)
(* between the first and the last shown, and say that there is no more on  *)
(* a side only if there was none; a cursor is refused only if the selected *)
(* message has got its first reply since (build_context_window).           *)
WindowsJoin ==
    reader # NoReader =>
        /\ \A i, j \in DOMAIN reader.rows : i < j => reader.rows[i].ts < reader.rows[j].ts
        /\ \A m \in there :
            InStream(m, reader.stream) =>
                \/ m \in Elems(reader.rows)
                \/ reader.rows # <<>> /\ m.ts < reader.rows[1].ts /\ reader.before
                \/ reader.rows # <<>> /\ m.ts > reader.rows[Len(reader.rows)].ts /\ reader.after
        /\ reader.refused => rooted

(* A pack marks as selected the chunk the search found, as long as the     *)
(* text is the one that was searched; after that whatever has its number,  *)
(* or the first chunk (_select_context_chunks).                            *)
PackShowsHit ==
    pack # NoPack /\ ~hit.stale => pack.rows[pack.selected] = hit.text

ContextStands == WindowsJoin /\ PackShowsHit
=============================================================================
