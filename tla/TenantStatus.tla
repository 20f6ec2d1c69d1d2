----------------------------- MODULE TenantStatus -----------------------------
(***************************************************************************)
(* What the status of a tenant says of it, as decided from its config, its *)
(* credentials, its row, its units, the state of the last reconcile and    *)
(* the queues: the label of its health, that of its backfill, the next     *)
(* thing to do and the maintenance actions offered                         *)
(* (tenant_status and tenant_maintenance_actions in                        *)
(* service/tenant_onboarding.py).                                          *)
(***************************************************************************)
EXTENDS Naturals

VARIABLE facts        \* what is so of the tenant

UnitStates == {"active", "inactive", "failed", "unknown"}

(* Reconcile: "never" ran; else whether it "failed", had "warnings", did   *)
(* "work" or found nothing to do.  Queues: jobs in "error", "pending" or   *)
(* none.                                                                   *)
Reconciles == {"never", "failed", "warnings", "work", "nothing"}
Queues == {"error", "pending", "empty"}

Facts == [enabled : BOOLEAN, ready : BOOLEAN, synced : BOOLEAN, protected : BOOLEAN,
          webhooks : UnitStates, daemon : UnitStates,
          reconcile : Reconciles, queues : Queues]

StatusInit == facts = [enabled |-> FALSE, ready |-> FALSE, synced |-> FALSE,
                       protected |-> FALSE, webhooks |-> "unknown", daemon |-> "unknown",
                       reconcile |-> "never", queues |-> "empty"]

(* One fact changes at a time.                                             *)
Becomes(fact, values) == \E v \in values : facts' = [facts EXCEPT ![fact] = v]

StatusNext ==
    \/ \E fact \in {"enabled", "ready", "synced", "protected"} : Becomes(fact, BOOLEAN)
    \/ \E fact \in {"webhooks", "daemon"} : Becomes(fact, UnitStates)
    \/ Becomes("reconcile", Reconciles) \/ Becomes("queues", Queues)

-----------------------------------------------------------------------------
Units(f) == {f.webhooks, f.daemon}

SyncHealth(f) ==
    CASE ~f.enabled -> "disabled"
      [] f.enabled /\ f.reconcile = "never" -> "needs_initial_sync"
      [] f.enabled /\ f.reconcile = "failed" -> "error"
      [] f.enabled /\ f.reconcile = "warnings" -> "warning"
      [] f.enabled /\ f.reconcile = "work" -> "healthy"
      [] OTHER -> "idle"

Validation(f) ==
    IF ~f.enabled THEN "disabled"
    ELSE IF ~f.ready THEN "credentials_required"
    ELSE IF ~f.synced THEN "db_sync_required"
    ELSE IF "failed" \in Units(f) THEN "live_error"
    ELSE IF "active" \notin Units(f) THEN "live_stopped"
    ELSE IF SyncHealth(f) \in {"error", "warning"} THEN "warning"
    ELSE IF SyncHealth(f) = "needs_initial_sync" THEN "needs_initial_sync"
    ELSE "healthy"

(* What the reconcile did counts only when it is read: not if disabled.    *)
Backfill(f) ==
    IF ~f.enabled THEN "disabled"
    ELSE IF f.queues = "error" \/ f.reconcile = "failed" THEN "error"
    ELSE IF f.queues = "pending" THEN "syncing"
    ELSE IF f.reconcile \in {"work", "warnings"} THEN "current"
    ELSE "needs_initial_sync"

NextAction_units(f) ==
    IF f.enabled /\ "active" \in Units(f) THEN "run_initial_sync"
    ELSE IF f.enabled THEN "start_live_sync"
    ELSE IF ~f.ready THEN "credentials_required"
    ELSE IF ~f.synced THEN "sync_config"
    ELSE "ready_to_activate"

NextAction(f) ==
    IF f.enabled
    THEN IF "active" \notin Units(f) THEN "start_live_sync"
         ELSE IF Backfill(f) = "needs_initial_sync" THEN "run_initial_sync"
         ELSE IF Backfill(f) \in {"syncing", "error"} THEN "inspect_backfill_status"
         ELSE IF Validation(f) \in {"warning", "needs_initial_sync"} THEN "inspect_sync_health"
         ELSE "monitor_live_validation"
    ELSE IF ~f.ready THEN "credentials_required"
    ELSE IF ~f.synced THEN "sync_config"
    ELSE "ready_to_activate"

LiveAllowed(f) == f.enabled /\ f.ready /\ f.synced

Offered(f) ==
    {"install_credentials"}
    \union {a \in {"activate"} : ~f.enabled /\ f.ready}
    \union {a \in {"start_live_sync"} : LiveAllowed(f) /\ "active" \notin Units(f)}
    \union {a \in {"restart_live_sync"} : LiveAllowed(f) /\ Units(f) \intersect {"active", "failed"} # {}}
    \union {a \in {"stop_live_sync"} : LiveAllowed(f) /\ "active" \in Units(f)}
    \union {a \in {"run_initial_sync"} : LiveAllowed(f) /\ Backfill(f) # "syncing"}
    \union {a \in {"retire"} : ~f.protected}

(* The maintenance action a suggestion means, if it means one.             *)
Means == [start_live_sync |-> "start_live_sync", run_initial_sync |-> "run_initial_sync",
          ready_to_activate |-> "activate", credentials_required |-> "install_credentials"]

-----------------------------------------------------------------------------
(* Properties *)

StatusTypeOK == facts \in Facts

(* What the status tells the operator to do next it also lets him do, in   *)
(* every state but one: a tenant enabled without credentials or without a  *)
(* row is told to start a live sync that is not offered                    *)
(* (tenant_status against tenant_maintenance_actions).                     *)
SuggestedIsOffered ==
    NextAction(facts) \in DOMAIN Means =>
        \/ Means[NextAction(facts)] \in Offered(facts)
        \/ facts.enabled /\ ~LiveAllowed(facts)
=============================================================================
