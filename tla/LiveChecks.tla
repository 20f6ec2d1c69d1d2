----------------------------- MODULE LiveChecks -----------------------------
(***************************************************************************)
(* The checks of a live installation and its recovery: what validate-live, *)
(* check-live and the baseline of the installer find wrong, what           *)
(* recover-live plans for it, and what its commands change                 *)
(* (service/user_env.py).                                                  *)
(*                                                                         *)
(* An issue is its code.  One enabled tenant is modelled, or none; a fact  *)
(* is what the checks look at, in as many values as they tell apart.       *)
(***************************************************************************)
EXTENDS Naturals

CONSTANT MaxBreaks    \* bound: things that break, or are put right by hand

ASSUME ChecksAssumption == MaxBreaks \in Nat

VARIABLES
    found,            \* what is so of the installation
    breaks            \* bound

checkVars == <<found, breaks>>

Domains == [
    config |-> {"ok", "missing", "invalid"}, db |-> {"ok", "missing", "unreadable"},
    tenant |-> BOOLEAN, launchers |-> BOOLEAN, coreUnits |-> BOOLEAN,
    mcp |-> {"ok", "fails", "fails at once"}, api |-> BOOLEAN, timer |-> BOOLEAN,
    synced |-> BOOLEAN, tokens |-> BOOLEAN, unitFiles |-> BOOLEAN, units |-> BOOLEAN,
    duplicates |-> BOOLEAN, heartbeat |-> {"fresh", "stale", "missing"},
    queues |-> {"empty", "pending", "backlog", "error", "uninspectable"},
    reconcile |-> {"fine", "warnings", "failures"}, stale |-> {"none", "quiet", "empty"}]

Sound == [
    config |-> "ok", db |-> "ok", tenant |-> TRUE, launchers |-> TRUE, coreUnits |-> TRUE,
    mcp |-> "ok", api |-> TRUE, timer |-> TRUE, synced |-> TRUE, tokens |-> TRUE,
    unitFiles |-> TRUE, units |-> TRUE, duplicates |-> FALSE, heartbeat |-> "fresh",
    queues |-> "empty", reconcile |-> "fine", stale |-> "none"]

ChecksInit == found = Sound /\ breaks = 0

If(condition, code) == IF condition THEN {code} ELSE {}

-----------------------------------------------------------------------------
(* What the checks find *)

TenantIssues(f, live, tokens) ==
    If(~f.synced, "WORKSPACE_DB_MISSING")
    \union If(tokens /\ ~f.tokens, "OUTBOUND_TOKEN_MISSING")
    \union (IF live THEN If(~f.unitFiles, "LIVE_UNIT_MISSING")
                         \union If(~f.units, "LIVE_UNIT_INACTIVE")
                         \union If(f.duplicates, "DUPLICATE_TOPOLOGY")
                         \union If(f.heartbeat = "missing", "DAEMON_HEARTBEAT_MISSING")
                         \union If(f.heartbeat = "stale", "DAEMON_HEARTBEAT_STALE")
            ELSE {})
    \union If(f.queues = "uninspectable", "QUEUE_INSPECTION_FAILED")
    \union (IF live THEN If(f.queues = "error", "EVENT_ERRORS")
                         \union If(f.queues = "backlog", "EVENT_BACKLOG")
            ELSE {})

(* The checks stop at the first thing they cannot look behind.             *)
StopsEarly(f) ==
    IF f.config # "ok" THEN If(TRUE, IF f.config = "missing" THEN "CONFIG_MISSING"
                                     ELSE "CONFIG_INVALID")
    ELSE If(f.db = "missing", "DB_MISSING")
         \union If(f.db # "missing" /\ ~f.tenant, "WORKSPACE_CONFIG")

Issues(f, live, tokens) ==
    IF StopsEarly(f) # {} THEN StopsEarly(f)
    ELSE If(~f.coreUnits, "API_UNIT_MISSING") \union If(~f.api, "API_UNIT_INACTIVE")
         \union (IF f.db = "unreadable" THEN {"DB_UNREADABLE"}
                 ELSE TenantIssues(f, live, tokens))

Inspected(f) == StopsEarly(f) = {} /\ f.db = "ok" /\ f.queues # "uninspectable"

Warnings(f, live) ==
    IF ~Inspected(f) THEN {}
    ELSE If(f.reconcile = "failures", "RECONCILE_REPAIR_FAILURES")
         \union If(f.reconcile = "warnings", "RECONCILE_REPAIR_WARNINGS")
         \union If(~live /\ f.queues = "error", "EVENT_ERRORS")
         \union If(f.queues = "pending" \/ (~live /\ f.queues = "backlog"), "EVENT_PENDING")
         \union If(f.stale = "empty" \/ (~live /\ f.stale = "quiet"), "STALE_MIRROR")

RuntimeIssues(f) ==
    (IF ~f.launchers THEN {"WRAPPER_MISSING"}
     ELSE If(f.mcp = "fails", "MCP_SMOKE_FAILED")
          \union If(f.mcp = "fails at once", "MCP_MULTI_CLIENT_FAILED"))
    \union If(~f.coreUnits, "SERVICE_FILE_MISSING")
    \union If(f.coreUnits /\ ~f.timer, "SNAPSHOT_TIMER_INACTIVE")

CheckLive(f) == Issues(f, TRUE, TRUE) \union RuntimeIssues(f)

Baseline(f) == IF Issues(f, FALSE, FALSE) # {} THEN Issues(f, FALSE, FALSE)
               ELSE RuntimeIssues(f)

Verdict(issues, warnings) ==
    IF issues # {} THEN "fail" ELSE IF warnings # {} THEN "pass_with_warnings" ELSE "pass"

-----------------------------------------------------------------------------
(* What recovery plans and does *)

Refreshed_all == {"WRAPPER_MISSING", "MCP_SMOKE_FAILED", "SERVICE_FILE_MISSING",
                  "MCP_MULTI_CLIENT_FAILED", "API_UNIT_MISSING", "LIVE_UNIT_MISSING"}

Refreshed == {"WRAPPER_MISSING", "MCP_SMOKE_FAILED", "SERVICE_FILE_MISSING"}

Remedy(code) ==
    CASE code \in Refreshed -> "REFRESH_MANAGED_RUNTIME"
      [] code = "API_UNIT_INACTIVE" -> "RESTART_API_UNIT"
      [] code = "SNAPSHOT_TIMER_INACTIVE" -> "ENABLE_SNAPSHOT_TIMER"
      [] code = "LIVE_UNIT_INACTIVE" -> "RESTART_WORKSPACE_UNITS"
      [] OTHER -> "operator"

Plan(f) == {Remedy(code) : code \in CheckLive(f)} \ {"operator"}
OperatorOnly(f) == {code \in CheckLive(f) : Remedy(code) = "operator"}

RecoveryStatus(f) ==
    IF Plan(f) # {} THEN "actionable"
    ELSE IF OperatorOnly(f) # {} THEN "operator_only" ELSE "pass"

(* systemctl, on units that are there.                                     *)
AfterRestarts(f, plan) ==
    [f EXCEPT !.api = @ \/ ("RESTART_API_UNIT" \in plan /\ f.coreUnits),
              !.timer = @ \/ ("ENABLE_SNAPSHOT_TIMER" \in plan /\ f.coreUnits),
              !.units = @ \/ ("RESTART_WORKSPACE_UNITS" \in plan /\ f.unitFiles)]

(* user-env update, as far as the checks see it.  It makes what config is  *)
(* missing from the template, and migrating makes the database and its     *)
(* tenants' rows; with a config or database it cannot read it raises, its  *)
(* launchers and units written and its units as they were.                 *)
AfterUpdate(f) ==
    LET written == [f EXCEPT !.launchers = TRUE, !.coreUnits = TRUE, !.mcp = "ok",
                             !.config = IF @ = "missing" THEN "ok" ELSE @]
    IN IF f.config = "invalid" \/ f.db = "unreadable" THEN written
       ELSE [written EXCEPT !.db = "ok", !.synced = TRUE, !.api = TRUE, !.timer = TRUE]

(* recover-live --apply, whose commands do their work.  The update comes   *)
(* last.                                                                   *)
Recovered(f) ==
    LET restarted == AfterRestarts(f, Plan(f))
    IN IF "REFRESH_MANAGED_RUNTIME" \in Plan(f) THEN AfterUpdate(restarted) ELSE restarted

Recover ==
    /\ Plan(found) # {}
    /\ found' = Recovered(found)
    /\ UNCHANGED breaks

(* Something breaks, or the operator sees to it.                           *)
Break ==
    /\ breaks < MaxBreaks
    /\ breaks' = breaks + 1
    /\ \E fact \in DOMAIN Domains : \E value \in Domains[fact] :
         found' = [found EXCEPT ![fact] = value]

ChecksNext == Recover \/ Break
ChecksSpec == ChecksInit /\ [][ChecksNext]_checkVars

-----------------------------------------------------------------------------
(* Properties *)

ChecksTypeOK ==
    /\ breaks \in 0 .. MaxBreaks
    /\ DOMAIN found = DOMAIN Domains
    /\ \A fact \in DOMAIN Domains : found[fact] \in Domains[fact]

(* A recovery that worked leaves nothing to recover but the restart of     *)
(* units whose files are not there, which no recovery can bring up and     *)
(* which is offered again and again.  Not so one that was planned from     *)
(* checks that had stopped early, or that raised over a config or database *)
(* it could not read (recover_live_user_env).                              *)
RecoveryEnds ==
    [][ (Recover /\ StopsEarly(found) = {} /\ found.db = "ok")
        => /\ Plan(found') \subseteq {"RESTART_WORKSPACE_UNITS"}
           /\ Plan(found') = {} \/ ~found'.unitFiles ]_checkVars

(* Where the lenient checks of the installer fail, recovery does not say   *)
(* that all is well, and whatever they find suspicious the strict ones     *)
(* find too, if as another issue of the same queue; only the silence of    *)
(* channels is no issue to the strict ones as long as none is empty        *)
(* (_build_live_validation_report, _finalize_live_recovery_report).        *)
StrictChecksFindMore ==
    /\ Verdict(Baseline(found), Warnings(found, FALSE)) = "fail" => RecoveryStatus(found) # "pass"
    /\ \A code \in Warnings(found, FALSE) :
         \/ code \in CheckLive(found) \union Warnings(found, TRUE)
         \/ code = "EVENT_PENDING" /\ "EVENT_BACKLOG" \in CheckLive(found)
         \/ code = "STALE_MIRROR" /\ found.stale = "quiet"
=============================================================================
