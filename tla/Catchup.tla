------------------------------- MODULE Catchup -------------------------------
(***************************************************************************)
(* The catch-up runner (scripts/catchup_until_complete.py): passes over    *)
(* the channels of a workspace that have no message, none recent or no     *)
(* checkpoint, until none is left.  A pass takes a few, those never tried  *)
(* first, and a file keeps what was tried from one run to the next.        *)
(*                                                                         *)
(* A channel is its place in the order of the ids; its messages are told   *)
(* apart by age: 0 is no message, 1 an old one, 2 a recent one.            *)
(***************************************************************************)
EXTENDS Naturals, Sequences, FiniteSets, Sorting
Seqs == INSTANCE SequencesExt

CONSTANTS
    CatchupChannels,   \* the channels, numbers
    PerPassLimit,      \* --per-pass-limit; 0 is none
    MaxPasses,         \* --max-passes; 0 is until nothing is left
    MaxUpsets          \* bound: kills, locks, messages posted, days

ASSUME CatchupAssumption ==
    /\ CatchupChannels \subseteq Nat /\ IsFiniteSet(CatchupChannels)
    /\ PerPassLimit \in Nat /\ MaxPasses \in Nat /\ MaxUpsets \in Nat

VARIABLES
    access,            \* what Slack does when asked for a channel's history
    newest,            \* the age of the newest message in Slack
    mirrored,          \* the age of the newest message in the mirror
    checkpointed,      \* channels with a checkpoint
    noted,             \* channels tried, the longest ago first
    savedNotes,        \* the same in the file
    passQueue,         \* channels left of this pass
    passes,            \* passes begun in this run
    runner,            \* what the runner does
    tried,             \* history: channels tried in this run
    upsets             \* bound

catchupVars == <<access, newest, mirrored, checkpointed, noted, savedNotes, passQueue, passes,
                 runner, tried, upsets>>

Candidates ==
    {c \in CatchupChannels : mirrored[c] # 2 \/ c \notin checkpointed}

Noted == Seqs!ToSet(noted)
TriedAt(c) == CHOOSE i \in DOMAIN noted : noted[i] = c

Sooner_byAge(c, d) == mirrored[c] < mirrored[d] \/ (mirrored[c] = mirrored[d] /\ c < d)

(* Those never tried, by age, before the others, by when they were tried.  *)
Sooner(c, d) ==
    \/ c \notin Noted /\ d \in Noted
    \/ {c, d} \subseteq Noted /\ TriedAt(c) < TriedAt(d)
    \/ {c, d} \intersect Noted = {}
       /\ (mirrored[c] < mirrored[d] \/ (mirrored[c] = mirrored[d] /\ c < d))

ListCandidates ==
    InPlaces(Candidates, {p \in Candidates \X Candidates : Sooner(p[1], p[2])})

Note(c) ==
    /\ noted' = Append(Without(noted, c), c)
    /\ tried' = tried \union {c}

StartRunner ==
    /\ runner = "down"
    /\ noted' = savedNotes
    /\ passes' = 0 /\ tried' = {} /\ runner' = "between"
    /\ UNCHANGED <<access, newest, mirrored, checkpointed, savedNotes, passQueue, upsets>>

BeginPass ==
    /\ runner = "between"
    /\ savedNotes' = noted
    /\ passQueue' = IF PerPassLimit = 0 THEN ListCandidates
                    ELSE SubSeq(ListCandidates, 1,
                                IF PerPassLimit < Len(ListCandidates) THEN PerPassLimit
                                ELSE Len(ListCandidates))
    /\ passes' = IF MaxPasses = 0 THEN 0 ELSE passes + 1
    /\ runner' = "pass"
    /\ UNCHANGED <<access, newest, mirrored, checkpointed, noted, tried, upsets>>

(* backfill_messages: what Slack has is mirrored, nothing where the runner *)
(* may not read, which is no error; what was seen moves the checkpoint.    *)
Mirror_(c) ==
    IF access[c] # "open" THEN UNCHANGED <<mirrored, checkpointed>>
    ELSE /\ mirrored' = [mirrored EXCEPT ![c] = newest[c]]
         /\ checkpointed' = IF newest[c] = 0 THEN checkpointed ELSE checkpointed \union {c}

TryChannel ==
    /\ runner = "pass" /\ passQueue # <<>> /\ access[Head(passQueue)] # "raises"
    /\ Mirror_(Head(passQueue)) /\ Note(Head(passQueue))
    /\ passQueue' = Tail(passQueue)
    /\ UNCHANGED <<access, newest, savedNotes, passes, runner, upsets>>

(* The database was locked, before the messages or by the embeddings.      *)
DeferChannel ==
    /\ runner = "pass" /\ passQueue # <<>> /\ access[Head(passQueue)] # "raises"
    /\ upsets < MaxUpsets /\ upsets' = upsets + 1
    /\ Mirror_(Head(passQueue)) \/ UNCHANGED <<mirrored, checkpointed>>
    /\ Note(Head(passQueue))
    /\ passQueue' = Tail(passQueue)
    /\ UNCHANGED <<access, newest, savedNotes, passes, runner>>

(* What the pass tried so far is not saved.                                *)
EndRunner ==
    /\ runner' = "down" /\ noted' = <<>> /\ passQueue' = <<>> /\ passes' = 0
    /\ UNCHANGED <<access, newest, mirrored, checkpointed, savedNotes, tried>>

RaiseChannel ==
    /\ runner = "pass" /\ passQueue # <<>> /\ access[Head(passQueue)] = "raises"
    /\ EndRunner /\ UNCHANGED upsets

EndPass ==
    /\ runner = "pass" /\ passQueue = <<>>
    /\ savedNotes' = noted
    /\ IF Candidates = {} \/ (MaxPasses # 0 /\ passes >= MaxPasses)
       THEN runner' = "down" /\ noted' = <<>> /\ passes' = 0
       ELSE runner' = "between" /\ UNCHANGED <<noted, passes>>
    /\ UNCHANGED <<access, newest, mirrored, checkpointed, passQueue, tried, upsets>>

-----------------------------------------------------------------------------
(* Around it *)

Upset == upsets < MaxUpsets /\ upsets' = upsets + 1

KillRunner == runner # "down" /\ Upset /\ EndRunner

PostInChannel(c) ==
    /\ Upset /\ newest' = [newest EXCEPT ![c] = 2]
    /\ UNCHANGED <<access, mirrored, checkpointed, noted, savedNotes, passQueue, passes, runner, tried>>

(* A day later what was recent is not.                                     *)
DayPasses ==
    /\ Upset
    /\ newest' = [c \in CatchupChannels |-> IF newest[c] = 0 THEN 0 ELSE 1]
    /\ mirrored' = [c \in CatchupChannels |-> IF mirrored[c] = 0 THEN 0 ELSE 1]
    /\ UNCHANGED <<access, checkpointed, noted, savedNotes, passQueue, passes, runner, tried>>

ChangeAccess(c) ==
    /\ Upset /\ \E a \in {"open", "closed", "raises"} : access' = [access EXCEPT ![c] = a]
    /\ UNCHANGED <<newest, mirrored, checkpointed, noted, savedNotes, passQueue, passes, runner, tried>>

CatchupInit ==
    /\ access = [c \in CatchupChannels |-> "open"]
    /\ newest = [c \in CatchupChannels |-> IF c = 1 THEN 0 ELSE 2]
    /\ mirrored = [c \in CatchupChannels |-> 0]
    /\ checkpointed = {} /\ noted = <<>> /\ savedNotes = <<>> /\ passQueue = <<>>
    /\ passes = 0 /\ runner = "down" /\ tried = {} /\ upsets = 0

CatchupNext ==
    \/ StartRunner \/ BeginPass \/ TryChannel \/ DeferChannel \/ RaiseChannel \/ EndPass
    \/ KillRunner \/ DayPasses
    \/ \E c \in CatchupChannels : PostInChannel(c) \/ ChangeAccess(c)

CatchupSpec == CatchupInit /\ [][CatchupNext]_catchupVars

-----------------------------------------------------------------------------
(* Properties *)

CatchupTypeOK ==
    /\ checkpointed \subseteq CatchupChannels /\ tried \subseteq CatchupChannels
    /\ Noted \union Seqs!ToSet(savedNotes) \union Seqs!ToSet(passQueue) \subseteq CatchupChannels
    /\ Seqs!IsInjective(noted) /\ Seqs!IsInjective(passQueue)
    /\ runner \in {"down", "between", "pass"}

(* No channel gets a second turn in a run while another that needs one     *)
(* waits for its first, however few a pass takes, though quiet and closed  *)
(* channels need one for ever and runs before were cut                     *)
(* (list_candidate_channels).                                              *)
NoSecondTurnFirst ==
    [][BeginPass /\ Seqs!ToSet(passQueue') \intersect tried # {}
        => Candidates \subseteq tried \union Seqs!ToSet(passQueue')]_catchupVars
=============================================================================
