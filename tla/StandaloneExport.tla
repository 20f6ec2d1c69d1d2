--------------------------- MODULE StandaloneExport ---------------------------
(***************************************************************************)
(* The standalone exporter (slack_export.py): files, then the history of   *)
(* the conversations asked for, one after the other, as a file for each    *)
(* day in a directory that follows the renames found in the history.       *)
(*                                                                         *)
(* A message is its conversation and its place there; a history gives each *)
(* its day and, for a rename, the names before and after.                  *)
(***************************************************************************)
EXTENDS Naturals, Sequences, FiniteSets

CONSTANTS
    Rooms,          \* all conversations: public ones, private ones, direct ones
    SharedFiles,    \* the names of the workspace's files, in the order listed
    Asked           \* what may be asked for of each kind: "absent", "all" or names

VARIABLES
    selection,      \* what is asked for
    fileAt,         \* files dealt with
    filesDir,       \* paths under files/, with the file or what there is of it
    index,          \* what is to go to files.json: files and their paths
    roomAt,         \* the conversation under way, 0 before the first
    fetched,        \* its messages, as far as Slack gave them
    messageAt,      \* how many of them were taken
    roomDir,        \* the directory its files go to
    currentDay,     \* the day of the messages kept for the next file
    currentMessages,
    tree,           \* the directories there are, and the files of days
    kept,           \* history: messages of the conversations that are done
    exporter        \* "files", "rooms", "done" or "failed"

scriptVars == <<selection, fileAt, filesDir, index, roomAt, fetched, messageAt, roomDir,
                currentDay, currentMessages, tree, kept, exporter>>
fileVars == <<fileAt, filesDir, index>>
messageVars == <<fetched, messageAt, roomDir, currentDay, currentMessages>>

Kinds == {"public", "private", "im"}

(* A conversation has a name, and its messages come by their time          *)
(* (getHistory), so the days of a history follow each other.               *)
Messages == [id : {<<>>}, day : Nat \ {0}, from : STRING, to : STRING]
ASSUME ScriptAssumption ==
    /\ Rooms \in Seq([kind : Kinds, name : STRING \ {""}, history : Seq(Messages)])
    /\ \A i \in DOMAIN Rooms : \A j, k \in DOMAIN Rooms[i].history :
         j <= k => Rooms[i].history[j].day <= Rooms[i].history[k].day
    /\ SharedFiles \in Seq(STRING)

Dir(name) == <<"directory", name>>

(* A name as bytes, formatted: a directory called b'name'.                 *)
Literal(name) == <<"literal", name>>

-----------------------------------------------------------------------------
(* Files *)

Whole(i) == [file |-> i, whole |-> TRUE]

(* The name, or the name with the first number that is free.               *)
FreePath(name) ==
    LET free == {n \in 0..Len(SharedFiles) : <<name, n>> \notin DOMAIN filesDir}
    IN  <<name, CHOOSE n \in free : \A k \in free : n <= k>>

PutFile(path, content) ==
    filesDir' = [p \in DOMAIN filesDir \union {path} |->
                    IF p = path THEN content ELSE filesDir[p]]

(* Without an address, or refused, there is nothing; cut short, a part.    *)
ExportFile ==
    LET i == fileAt + 1
        path == FreePath(SharedFiles[i])
    IN  /\ exporter = "files" /\ i <= Len(SharedFiles)
        /\ fileAt' = i
        /\ \/ PutFile(path, Whole(i)) /\ index' = index \union {<<i, path>>}
           \/ PutFile(path, [Whole(i) EXCEPT !.whole = FALSE]) /\ UNCHANGED index
           \/ UNCHANGED <<filesDir, index>>
        /\ UNCHANGED <<selection, roomAt, messageVars, tree, kept, exporter>>

(* The index goes among the files it names, over a file of that name.      *)
IndexPath == <<"files.json", 0>>
Index == Whole(0)

EndFiles ==
    /\ exporter = "files" /\ fileAt = Len(SharedFiles)
    /\ PutFile(IndexPath, Index)
    /\ exporter' = "rooms"
    /\ UNCHANGED <<selection, fileAt, index, roomAt, messageVars, tree, kept>>

-----------------------------------------------------------------------------
(* Conversations *)

(* A kind that is not asked for is exported if no kind is.                 *)
AskedFor(i) ==
    LET asked == selection[Rooms[i].kind]
    IN  CASE asked = "all" -> TRUE
          [] asked = "absent" -> \A k \in Kinds : selection[k] = "absent"
          [] OTHER -> Rooms[i].name = asked

NextRoom == {i \in roomAt + 1 .. Len(Rooms) :
                AskedFor(i) /\ \A j \in roomAt + 1 .. i - 1 : ~AskedFor(j)}

(* Before private ones without public ones the first public one gets a     *)
(* directory.                                                              *)
DummyChannel(i) ==
    IF /\ Rooms[i].kind = "private" /\ Rooms[1].kind = "public"
       /\ ~\E j \in 1 .. i - 1 : AskedFor(j) /\ Rooms[j].kind = "public"
    THEN {Dir(Rooms[1].name)} ELSE {}

(* Pages come newest first, and after an error there are no more.          *)
StartRoom ==
    /\ exporter = "rooms" /\ messageAt = Len(fetched) /\ currentMessages = {}
    /\ \E i \in NextRoom :
        LET room == Rooms[i]
        IN  /\ roomAt' = i
            /\ \E k \in 0 .. Len(room.history) :
                fetched' = [j \in 1 .. Len(room.history) - k |->
                                [room.history[k + j] EXCEPT !.id = <<i, k + j>>]]
            /\ roomDir' = IF room.kind = "im" THEN Dir(room.name) ELSE Literal(room.name)
            /\ tree' = [tree EXCEPT !.dirs = @ \union {Dir(room.name)} \union DummyChannel(i)]
    /\ messageAt' = 0 /\ currentDay' = 0
    /\ UNCHANGED <<selection, fileVars, currentMessages, kept, exporter>>

WriteMessageFile(t, dir, day, messages) ==
    IF messages = {} THEN t
    ELSE [dirs |-> t.dirs \union {dir},
          days |-> {f \in t.days : <<f.dir, f.day>> # <<dir, day>>}
                   \union {[dir |-> dir, day |-> day, messages |-> messages]}]

FilesOf(t, dir) == {f \in t.days : f.dir = dir}

(* What is moved of one directory to another, which takes its place.       *)
ChannelRename(t, old, new, moved) ==
    IF old \notin t.dirs THEN t
    ELSE [dirs |-> (t.dirs \ {old}) \union {new},
          days |-> (t.days \ moved) \union {[f EXCEPT !.dir = new] : f \in moved}]

(* A file of the same day is there.                                        *)
Clashes(t, old, new) ==
    {f \in FilesOf(t, old) : old \in t.dirs /\ \E h \in FilesOf(t, new) : h.day = f.day}

Current(m) == IF m.day = currentDay THEN currentMessages \union {m.id} ELSE {m.id}

(* A day's file is written where the directory was then; a rename moves    *)
(* what is there of the name before, and stops at a file that exists.      *)
TakeMessage ==
    /\ exporter = "rooms" /\ messageAt < Len(fetched)
    /\ LET m == fetched[messageAt + 1]
           written == IF m.day = currentDay THEN tree
                      ELSE WriteMessageFile(tree, roomDir, currentDay, currentMessages)
           renames == m.to # "" /\ Rooms[roomAt].kind # "im"
           clash == Clashes(written, Dir(m.from), Dir(m.to))
       IN  IF ~renames
           THEN tree' = written /\ UNCHANGED <<roomDir, exporter>>
           ELSE /\ roomDir' = Dir(m.to)
                /\ IF clash = {}
                   THEN /\ tree' = ChannelRename(written, Dir(m.from), Dir(m.to),
                                                 FilesOf(written, Dir(m.from)))
                        /\ UNCHANGED exporter
                   ELSE /\ \E moved \in SUBSET (FilesOf(written, Dir(m.from)) \ clash) :
                            tree' = [ChannelRename(written, Dir(m.from), Dir(m.to), moved)
                                        EXCEPT !.dirs = @ \union {Dir(m.from)}]
                        /\ exporter' = "failed"
    /\ currentDay' = fetched[messageAt + 1].day
    /\ currentMessages' = Current(fetched[messageAt + 1])
    /\ messageAt' = messageAt + 1
    /\ UNCHANGED <<selection, fileVars, roomAt, fetched, kept>>

EndRoom ==
    /\ exporter = "rooms" /\ messageAt = Len(fetched) /\ currentMessages # {}
    /\ tree' = WriteMessageFile(tree, roomDir, currentDay, currentMessages)
    /\ kept' = kept \union {fetched[j] : j \in DOMAIN fetched}
    /\ currentMessages' = {}
    /\ UNCHANGED <<selection, fileVars, roomAt, fetched, messageAt, roomDir, currentDay, exporter>>

(* With --zip the directory is packed and removed.                         *)
Finalize ==
    /\ exporter = "rooms" /\ messageAt = Len(fetched) /\ currentMessages = {} /\ NextRoom = {}
    /\ exporter' = "done"
    /\ UNCHANGED <<selection, fileVars, roomAt, messageVars, tree, kept>>

ScriptInit ==
    /\ selection = [k \in Kinds |-> "absent"]
    /\ fileAt = 0 /\ filesDir = <<>> /\ index = {}
    /\ roomAt = 0 /\ fetched = <<>> /\ messageAt = 0 /\ roomDir = Dir("") /\ currentDay = 0
    /\ currentMessages = {} /\ tree = [dirs |-> {}, days |-> {}] /\ kept = {}
    /\ exporter = "idle"

StartScript ==
    /\ exporter = "idle"
    /\ selection' \in [Kinds -> Asked]
    /\ exporter' = "files"
    /\ UNCHANGED <<fileVars, roomAt, messageVars, tree, kept>>

ScriptNext ==
    \/ StartScript \/ ExportFile \/ EndFiles
    \/ StartRoom \/ TakeMessage \/ EndRoom \/ Finalize

ScriptSpec == ScriptInit /\ [][ScriptNext]_scriptVars

-----------------------------------------------------------------------------
(* Properties *)

ScriptTypeOK ==
    /\ fileAt <= Len(SharedFiles) /\ roomAt <= Len(Rooms) /\ messageAt <= Len(fetched)
    /\ exporter \in {"idle", "files", "rooms", "done", "failed"}

(* The names a conversation has and had.                                   *)
NamesOf(i) ==
    LET messages == {Rooms[i].history[j] : j \in DOMAIN Rooms[i].history}
    IN  ({Rooms[i].name} \union UNION {{m.from, m.to} : m \in messages}) \ {""}

ApartFromOthers(i) ==
    \A j \in DOMAIN Rooms \ {i} : NamesOf(i) \intersect NamesOf(j) = {}

(* Every message fetched of a conversation that is done is in one file, of *)
(* its day, with nothing of another conversation, though the conversation  *)
(* was renamed, if its names were never another's (parseMessages).         *)
EveryDayKept ==
    \A m \in {k \in kept : ApartFromOthers(k.id[1])} :
        \E f \in tree.days :
            /\ m.id \in f.messages /\ f.day = m.day /\ f.dir \in tree.dirs
            /\ \A id \in f.messages : id[1] = m.id[1]
            /\ \A h \in tree.days \ {f} : m.id \notin h.messages

(* Whatever the index names is there, whole, each file at a path of its    *)
(* own, except a file exported as files.json, which the index is written   *)
(* over and goes on naming; and the index itself is there (exportFiles).   *)
IndexNamesWhole ==
    /\ \A e \in index : e[2] # IndexPath => filesDir[e[2]] = Whole(e[1])
    /\ \A e \in index : \A d \in index \ {e} : d[2] # e[2]
    /\ exporter \notin {"idle", "files"} => filesDir[IndexPath] = Index

ScriptStands == EveryDayKept /\ IndexNamesWhole
=============================================================================
