---------------------------- MODULE MCOperations ----------------------------
(* Instances for TLC of what operates and reads the mirror: tenants and    *)
(* what is suggested for them, the managed environment and its checks, the *)
(* daemon's loop; queries, pages, context, benchmarks and inference.  They *)
(* keep separate state, so a behaviour moves one of them, named by part,   *)
(* and leaves the others as they began.                                    *)
EXTENDS Tenants, TenantStatus, UserEnv, LiveChecks, Daemon,
        MCSearch, SearchPages, Inference, ContextWindow, Benchmarks

TwoWorkspaces == <<"alpha", "beta">>

(* Rows as searches find them: <<key, workspace, kind, source, lexical and *)
(* semantic scores, time, what a reranker adds>>.  In pools of two, message *)
(* 3 is in neither lane; in larger ones, it is the best of all.            *)
Row(r) == [key |-> r[1], ws |-> r[2], kind |-> r[3], source |-> r[4], lex |-> r[5],
           sem |-> r[6], ts |-> r[7], judged |-> r[8]]
FoundRows == {Row(r) : r \in {
    <<1, "alpha", "message", "#ops", {3}, {}, 1, 0>>,
    <<2, "alpha", "message", "#ops", {3}, {}, 2, 5>>,
    <<3, "alpha", "message", "#lab", {2}, {2}, 3, 0>>,
    <<4, "alpha", "message", "#ops", {1}, {3}, 4, 0>>,
    <<5, "alpha", "derived_text", "file", {1}, {1, 2}, 5, 9>>,
    <<6, "beta", "message", "#ops2", {2}, {1}, 6, 0>>,
    <<7, "alpha", "message", "#lab", {}, {3}, 7, 0>>}}
LateRows == {r \in FoundRows : r.key = 7}

(* Two threads, of messages 2 and 3; replies come late.                    *)
ChannelMessages ==
    {[ts |-> t, root |-> CASE t \in {4, 6} -> 2 [] t = 5 -> 3 [] OTHER -> 0] : t \in 1..6}
LateMessages == {m \in ChannelMessages : m.ts \in {1, 5, 6}}
FileTexts == {<<"one", "two", "three", "four">>, <<"new">>}

(* A workspace whose domain begins with the name of another.               *)
WorkspacesInOrder ==
    <<[name |-> "acme", domain |-> "acme"], [name |-> "lab", domain |-> "acme-lab"]>>
NamesIn == [d \in {"acme", "acme-lab", "acme-old", "other", "left"} |->
    CASE d = "acme-lab" -> {"acme", "lab"} [] d \in {"other", "left"} -> {} [] OTHER -> {"acme"}]
RowsOfWorkspaces == {[name |-> "acme", domain |-> "acme"], [name |-> "former", domain |-> "left"]}

(* Datasets of one query, and what a result counts for by its place.       *)
LabelSets == {
    (<<"own", "m1">> :> 2),
    (<<"title", "report">> :> 3 @@ <<"own", "m2">> :> 1),
    (<<"title", "q3: plan">> :> 1 @@ <<"own", "m2">> :> 2),
    (<<"general", "m1">> :> 1 @@ <<"own", "t1">> :> 0)}
Discounts == <<1000, 631, 500, 431, 387, 356, 333, 315>>

Provider(p, m, d, u) == [provider |-> p, model |-> m, device |-> d, target |-> u]
BuiltinProfiles == [n \in {"baseline", "local-bge", "local-bge-http"} |->
    CASE n = "baseline" -> Provider("local_hash", "hash", "cpu", "")
      [] n = "local-bge" -> Provider("sentence_transformers", "bge", "cpu", "")
      [] n = "local-bge-http" -> Provider("http", "bge", "cpu", "service")]
ProfileOverrides == [n \in {"local-bge", "external"} |->
    IF n = "external" THEN [provider |-> "command", model |-> "e5"] ELSE [device |-> "cuda"]]
DefaultSettings == Provider("local_hash", "bge", "cpu", "")

VARIABLE part

vars == <<tenantVars, facts, envVars, checkVars, daemonVars, query, pageVars, inferenceVars,
          contextVars, benchmarkVars, part>>

(* A step of the part that moves.                                          *)
Alone(p, A) ==
    /\ part = p /\ A /\ UNCHANGED part
    /\ p # "tenants" => UNCHANGED tenantVars
    /\ p # "status" => UNCHANGED facts
    /\ p # "environment" => UNCHANGED envVars
    /\ p # "checks" => UNCHANGED checkVars
    /\ p # "daemon" => UNCHANGED daemonVars
    /\ p # "query" => UNCHANGED query
    /\ p # "pages" => UNCHANGED pageVars
    /\ p # "inference" => UNCHANGED inferenceVars
    /\ p # "context" => UNCHANGED contextVars
    /\ p # "benchmarks" => UNCHANGED benchmarkVars

Init ==
    /\ part \in {"tenants", "status", "environment", "checks", "daemon",
                 "query", "pages", "inference", "context", "benchmarks"}
    /\ TenantsInit /\ StatusInit /\ EnvInit /\ ChecksInit /\ DaemonInit
    /\ QueryInit /\ PagesInit /\ InferenceInit /\ ContextInit /\ BenchmarksInit

Next ==
    \/ Alone("tenants", TenantsNext) \/ Alone("status", StatusNext)
    \/ Alone("environment", EnvNext) \/ Alone("checks", ChecksNext)
    \/ Alone("daemon", DaemonNext)
    \/ Alone("query", QueryNext) \/ Alone("pages", PagesNext)
    \/ Alone("inference", InferenceNext) \/ Alone("context", ContextNext)
    \/ Alone("benchmarks", BenchmarksNext)

(* The daemon's fairness, for when it is the part that moves.              *)
Fairness ==
    /\ WF_daemonVars(part = "daemon" /\ StartDaemon)
    /\ WF_daemonVars(part = "daemon" /\ RunEvents)
    /\ WF_daemonVars(part = "daemon" /\ RunEmbeddings)
    /\ WF_daemonVars(part = "daemon" /\ ReconcileTurn)
    /\ WF_daemonVars(part = "daemon" /\ Wake)
    /\ SF_daemonVars(part = "daemon" /\ BecomesDue)

Spec == Init /\ [][Next]_vars /\ Fairness

(* The variables of the part that moves keep their types.                  *)
OperationsTypeOK ==
    /\ part = "tenants" => TenantsTypeOK
    /\ part = "status" => StatusTypeOK
    /\ part = "environment" => EnvTypeOK
    /\ part = "checks" => ChecksTypeOK
    /\ part = "daemon" => DaemonTypeOK
    /\ part = "query" => QueryTypeOK
    /\ part = "pages" => PagesTypeOK
    /\ part = "inference" => InferenceTypeOK
    /\ part = "context" => ContextTypeOK
    /\ part = "benchmarks" => BenchmarksTypeOK

(* What a query finds and how its pages are dealt (search_messages,        *)
(* corpus_search_page).                                                    *)
SearchesStand == NegationSplits /\ PagesPartition

(* What operators are told of tenants and of the installation hangs        *)
(* together (tenant_status, _build_live_validation_report).                *)
StatusesStand == SuggestedIsOffered /\ StrictChecksFindMore

(* EveryWorkspaceServed, of the daemon when it moves: every workspace's    *)
(* events are applied and what was missed is mirrored (cmd_mirror_daemon). *)
DaemonServesAll == part = "daemon" => EveryWorkspaceServed
=============================================================================
