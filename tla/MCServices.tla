----------------------------- MODULE MCServices -----------------------------
(* Instances for TLC of the components that serve the mirror: the          *)
(* directory, files, embeddings, exports, the journal, sign-in, reports    *)
(* and the scripts beside them.  They keep separate state and do not call  *)
(* each other, so a behaviour moves one of them, named by part, and leaves *)
(* the others as they began: the run is the sum of the components, not     *)
(* their product.                                                          *)
EXTENDS Journal, FrontendAuth, Exports, RuntimeReports, MCDirectory, Files, Rollout,
        Catchup, StandaloneExport, TLC

CONSTANTS f, g

LongerNames == [n \in Reports |-> IF n = "ops" THEN {"ops-daily"} ELSE {}]

(* A backfill lists an email and a canvas; or it lists a file, and of an   *)
(* email only an event tells.                                              *)
EmailAndCanvas(refused) ==
    [emails |-> {f}, canvases |-> {g}, listing |-> <<f, g>>, refused |-> refused]
FileAndEmail(refused) ==
    [emails |-> {g}, canvases |-> {}, listing |-> <<f>>, refused |-> refused]
FileHoldings ==
    {EmailAndCanvas({}), EmailAndCanvas({f})} \union {FileAndEmail(r) : r \in {{}, {f}, {g}}}

(* Four conversations.  The names of sales were never another's; deep was  *)
(* called ops before ops was.                                              *)
Said(d) == [id |-> <<>>, day |-> d, from |-> "", to |-> ""]
Renamed(d, old, new) == [Said(d) EXCEPT !.from = old, !.to = new]
ExportRooms == <<
    [kind |-> "public", name |-> "ops",
     history |-> <<Renamed(1, "x", "lab"), Said(2), Renamed(4, "lab", "ops")>>],
    [kind |-> "public", name |-> "sales",
     history |-> <<Renamed(1, "leads", "deals"), Said(2), Renamed(3, "deals", "sales")>>],
    [kind |-> "private", name |-> "deep",
     history |-> <<Renamed(1, "w", "deep"), Renamed(2, "deep", "ops"), Renamed(3, "ops", "deep")>>],
    [kind |-> "im", name |-> "D1", history |-> <<Said(1)>>]>>
TwoNames == <<"files.json", "files.json">>

VARIABLE part

vars == <<journalVars, authVars, exportVars, reportVars, directoryVars, filesVars,
          rolloutVars, catchupVars, scriptVars, part>>

(* A step of the part that moves.                                          *)
Alone(p, A) ==
    /\ part = p /\ A /\ UNCHANGED part
    /\ p # "journal" => UNCHANGED journalVars
    /\ p # "auth" => UNCHANGED authVars
    /\ p # "exports" => UNCHANGED exportVars
    /\ p # "reports" => UNCHANGED reportVars
    /\ p # "directory" => UNCHANGED directoryVars
    /\ p # "files" => UNCHANGED filesVars
    /\ p # "rollout" => UNCHANGED rolloutVars
    /\ p # "catchup" => UNCHANGED catchupVars
    /\ p # "script" => UNCHANGED scriptVars

Init ==
    /\ part \in {"journal", "auth", "exports", "reports", "directory", "files", "rollout",
                 "catchup", "script"}
    /\ JournalInit /\ AuthInit /\ ExportsInit /\ ReportsInit /\ DirectoryInit
    /\ FilesInit /\ RolloutInit /\ CatchupInit /\ ScriptInit
    /\ part # "journal" => ~follows      \* the choices of those that move
    /\ part # "directory" => joined = {} /\ \A c \in Channels : name[c] = 0
    /\ part # "files" => held = EmailAndCanvas({})

Next ==
    \/ Alone("journal", JournalNext) \/ Alone("auth", AuthNext)
    \/ Alone("exports", ExportsNext) \/ Alone("reports", ReportsNext)
    \/ Alone("directory", DirectoryNext) \/ Alone("files", FilesNext)
    \/ Alone("rollout", RolloutNext) \/ Alone("catchup", CatchupNext)
    \/ Alone("script", ScriptNext)

(* The components' fairness, each for when it is the part that moves.      *)
Fairness ==
    /\ WF_filesVars(part = "files" /\ BackfillGoesOn)
    /\ WF_filesVars(part = "files" /\ PassGoesOn)
    /\ WF_filesVars(part = "files" /\ JobsGoOn)
    /\ SF_rolloutVars(part = "rollout" /\ StartMessages)
    /\ SF_rolloutVars(part = "rollout" /\ StartChunks)
    /\ WF_rolloutVars(part = "rollout" /\ (EmbedRow \/ EndBatch))

Spec == Init /\ [][Next]_vars /\ Fairness

(* The variables of the part that moves keep their types.                  *)
ServicesTypeOK ==
    /\ part = "journal" => JournalTypeOK
    /\ part = "auth" => AuthTypeOK
    /\ part = "exports" => ExportsTypeOK
    /\ part = "reports" => ReportsTypeOK
    /\ part = "directory" => DirectoryTypeOK
    /\ part = "files" => FilesTypeOK
    /\ part = "rollout" => RolloutTypeOK
    /\ part = "catchup" => CatchupTypeOK
    /\ part = "script" => ScriptTypeOK

(* What exports leave behind, the API server's (exports.py) and the        *)
(* standalone script's (slack_export.py).                                  *)
ExportsStand == BundlesAgree /\ ScriptStands

(* What health and the rollout plan call ready is (search_health,          *)
(* semantic_rollout_plan).                                                 *)
ReadinessStands == HealthyIsEmbedded /\ ReadyFindsDocuments

(* Nothing is passed over: the rollout gets to all that is to be embedded, *)
(* and a catch-up run to every channel (catchup_until_complete.py).        *)
NothingStarves == RolloutCatchesUp /\ NoSecondTurnFirst
=============================================================================
