------------------------------- MODULE UserEnv -------------------------------
(***************************************************************************)
(* The managed user environment: a snapshot of the checkout (app), the     *)
(* snapshot before it (app.previous), the package installed from it in a   *)
(* virtual environment, the schema of the database, and the systemd units  *)
(* that run the package; and the commands that install, update, roll back  *)
(* and uninstall it (service/user_env.py).                                 *)
(*                                                                         *)
(* A version stands for the code.  Removing and copying a tree, and        *)
(* installing a package, have a state in the middle, where a command may   *)
(* be cut.  One operator runs one command at a time.                       *)
(***************************************************************************)
EXTENDS Naturals, FiniteSets

CONSTANTS
    Core,             \* units the installer writes
    TenantUnits,      \* the units of the tenants, which it pauses and restores too
    MaxVersion,       \* bound: versions of the checkout
    MaxCommands,      \* bound: commands
    MaxCrashes        \* bound: units that fail and are started again

ASSUME UserEnvAssumption ==
    /\ IsFiniteSet(Core) /\ IsFiniteSet(TenantUnits)
    /\ Core \intersect TenantUnits = {}
    /\ MaxVersion \in Nat \ {0} /\ MaxCommands \in Nat /\ MaxCrashes \in Nat

VARIABLES
    checkout,         \* the version in the checkout; 0 where none is found
    app, previous, swap,  \* the snapshots
    venv,             \* the version installed; 0 for none, or half of one
    schema,           \* the version the database was migrated to, 0 for no database
    service,             \* each service: what it is doing and the version it runs
    cmd,              \* the command under way and where it is
    paused,           \* units stopped for the migrations, to be started again
    commands, crashes,  \* bounds
    good,             \* history: the version of the last command that succeeded
    failures,         \* history: commands that failed since
    behind            \* history: units left running code older than the schema

envVars == <<checkout, app, previous, swap, venv, schema, service, cmd, paused,
             commands, crashes, good, failures, behind>>

AllUnits == Core \union TenantUnits
NoTree == [version |-> 0, whole |-> FALSE]
Whole(v) == [version |-> v, whole |-> TRUE]
Idle == [name |-> "none", at |-> "end"]
Stopped == [is |-> "down", code |-> 0]
Up(u) == service[u].is = "up"
Newer(v, w) == IF v > w THEN v ELSE w

EnvInit ==
    /\ checkout = 1
    /\ app = NoTree /\ previous = NoTree /\ swap = NoTree
    /\ venv = 0 /\ schema = 0
    /\ service = [u \in AllUnits |-> Stopped]
    /\ cmd = Idle /\ paused = {}
    /\ commands = 0 /\ crashes = 0
    /\ good = 0 /\ failures = 0 /\ behind = {}

Go(at) == cmd' = [cmd EXCEPT !.at = at]

counts == <<commands, crashes>>

Begins(name, at) ==
    /\ cmd = Idle /\ commands < MaxCommands
    /\ commands' = commands + 1
    /\ cmd' = [name |-> name, at |-> at]
    /\ good' = IF name \in {"install", "uninstall"} THEN 0 ELSE good
    /\ UNCHANGED <<checkout, app, previous, swap, venv, schema, service, paused, crashes,
                   failures, behind>>

(* An exception or a kill ends the command where it is.                    *)
Fails ==
    /\ cmd' = Idle
    /\ failures' = failures + 1

-----------------------------------------------------------------------------
(* The commands begin *)

InstallEnv == Begins("install", "clear app")
UpdateEnv == Begins("update", "drop previous")

(* Without a snapshot to go back to, a rollback says so and ends.          *)
RollbackEnv == previous # NoTree /\ Begins("rollback", "drop swap")
UninstallEnv == Begins("uninstall", "disable")

-----------------------------------------------------------------------------
(* Trees *)

(* rmtree, with the tree half removed in between.                          *)
Removing(tree) == IF tree.whole THEN [tree EXCEPT !.whole = FALSE] ELSE NoTree

DropPrevious ==
    /\ cmd.at = "drop previous"
    /\ previous' = Removing(previous)
    /\ IF previous.whole THEN UNCHANGED cmd
       ELSE Go(IF cmd.name = "update" THEN "keep app" ELSE "drop venv")
    /\ UNCHANGED <<checkout, app, swap, venv, schema, service, paused, counts, good,
                   failures, behind>>

Kept_dropped == previous

(* The snapshot that was, whole or not, is the one to go back to.          *)
Kept == IF app = NoTree THEN previous ELSE app

KeepApp ==
    /\ cmd.at = "keep app"
    /\ previous' = Kept
    /\ app' = NoTree
    /\ Go("clear app")
    /\ UNCHANGED <<checkout, swap, venv, schema, service, paused, counts, good, failures,
                   behind>>

(* The checkout is looked for before the old snapshot is removed.          *)
ClearApp ==
    /\ cmd.at = "clear app"
    /\ IF cmd.name # "uninstall" /\ checkout = 0
       THEN Fails /\ UNCHANGED app
       ELSE /\ app' = Removing(app)
            /\ IF app.whole THEN UNCHANGED cmd
               ELSE Go(IF cmd.name = "uninstall" THEN "drop previous" ELSE "copy")
            /\ UNCHANGED failures
    /\ UNCHANGED <<checkout, previous, swap, venv, schema, service, paused, counts, good,
                   behind>>

CopyCheckout ==
    /\ cmd.at = "copy" /\ checkout # 0
    /\ IF app = NoTree
       THEN app' = [Whole(checkout) EXCEPT !.whole = FALSE] /\ UNCHANGED cmd
       ELSE app' = Whole(app.version) /\ Go("pip")
    /\ UNCHANGED <<checkout, previous, swap, venv, schema, service, paused, counts, good,
                   failures, behind>>

DropSwap ==
    /\ cmd.at = "drop swap"
    /\ swap' = Removing(swap)
    /\ IF swap.whole THEN UNCHANGED cmd ELSE Go("park")
    /\ UNCHANGED <<checkout, app, previous, venv, schema, service, paused, counts, good,
                   failures, behind>>

(* app to swap, previous to app, swap to previous.                         *)
MoveTrees ==
    /\ \/ /\ cmd.at = "park"
          /\ swap' = app /\ app' = NoTree /\ UNCHANGED previous
          /\ Go("restore app")
       \/ /\ cmd.at = "restore app"
          /\ app' = previous /\ previous' = NoTree /\ UNCHANGED swap
          /\ Go("keep swap")
       \/ /\ cmd.at = "keep swap"
          /\ previous' = swap /\ swap' = NoTree /\ UNCHANGED app
          /\ Go("pip")
    /\ UNCHANGED <<checkout, venv, schema, service, paused, counts, good, failures, behind>>

(* The package that is there goes before the new one is put in its place.  *)
(* Half a snapshot, or no network, fails it.                               *)
PipInstall ==
    /\ cmd.at = "pip"
    /\ \/ venv # 0 /\ venv' = 0 /\ UNCHANGED <<cmd, failures>>
       \/ app.whole /\ venv' = app.version /\ UNCHANGED failures
          /\ Go(IF cmd.name = "update" THEN "pause"
                ELSE IF cmd.name = "install" THEN "migrate" ELSE "restart")
       \/ Fails /\ UNCHANGED venv
    /\ UNCHANGED <<checkout, app, previous, swap, schema, service, paused, counts, good,
                   behind>>

-----------------------------------------------------------------------------
(* Units and schema *)

Pausable_core == Core

(* Tenants' units by their file names, too.                                *)
Pausable == AllUnits

Pause ==
    /\ cmd.at = "pause"
    /\ paused' = {u \in Pausable : Up(u)}
    /\ service' = [u \in AllUnits |-> IF u \in paused' THEN Stopped ELSE service[u]]
    /\ Go("migrate")
    /\ UNCHANGED <<checkout, app, previous, swap, venv, schema, counts, good, failures,
                   behind>>

Left(s) == {u \in AllUnits : Up(u) /\ service[u].code < s}

(* An install migrates under the units that run.  Of an update the units   *)
(* come back whether it worked or not.                                     *)
Migrate ==
    /\ cmd.at = "migrate"
    /\ \/ /\ schema' = Newer(schema, venv)
          /\ behind' = IF cmd.name = "install" THEN behind \union Left(schema') ELSE behind
          /\ Go(IF cmd.name = "install" THEN "restart" ELSE "restore")
          /\ UNCHANGED failures
       \/ /\ IF cmd.name = "install" THEN Fails
             ELSE Go("restore and raise") /\ UNCHANGED failures
          /\ UNCHANGED <<schema, behind>>
    /\ UNCHANGED <<checkout, app, previous, swap, venv, service, paused, counts, good>>

Starting(u) == [is |-> "starting", code |-> 0]

Restore ==
    /\ cmd.at \in {"restore", "restore and raise"}
    /\ service' = [u \in AllUnits |-> IF u \in paused THEN Starting(u) ELSE service[u]]
    /\ paused' = {}
    /\ IF cmd.at = "restore" THEN Go("restart") /\ UNCHANGED failures ELSE Fails
    /\ UNCHANGED <<checkout, app, previous, swap, venv, schema, counts, good, behind>>

(* Update and rollback restart the core's units; an install starts those   *)
(* that are down.                                                          *)
Restart ==
    /\ cmd.at = "restart"
    /\ service' = [u \in AllUnits |->
                  IF u \in Core /\ (cmd.name # "install" \/ ~Up(u)) THEN Starting(u)
                  ELSE service[u]]
    /\ Go("validate")
    /\ UNCHANGED <<checkout, app, previous, swap, venv, schema, paused, counts, good,
                   failures, behind>>

(* The verdict changes nothing but the exit code.                          *)
Validate ==
    /\ cmd.at = "validate"
    /\ \/ cmd' = Idle /\ good' = app.version /\ failures' = 0
       \/ Fails /\ UNCHANGED good
    /\ UNCHANGED <<checkout, app, previous, swap, venv, schema, service, paused, counts,
                   behind>>

(* The installer's own units are stopped, the tenants' are not.            *)
Disable ==
    /\ cmd.at = "disable"
    /\ service' = [u \in AllUnits |-> IF u \in Core THEN Stopped ELSE service[u]]
    /\ Go("clear app")
    /\ UNCHANGED <<checkout, app, previous, swap, venv, schema, paused, counts, good,
                   failures, behind>>

(* With the data or without.                                               *)
Purge ==
    /\ cmd.at = "drop venv"
    /\ venv' = 0
    /\ schema' \in {0, schema}
    /\ good' = 0 /\ failures' = 0
    /\ cmd' = Idle
    /\ UNCHANGED <<checkout, app, previous, swap, service, paused, counts, behind>>

-----------------------------------------------------------------------------
(* What goes on meanwhile *)

(* A service that starts, or is started again, runs what is installed.  It    *)
(* migrates the database to it when it connects.                           *)
StartUnit(u) ==
    /\ service[u].is = "starting" /\ venv # 0
    /\ service' = [service EXCEPT ![u] = [is |-> "up", code |-> venv]]
    /\ schema' = Newer(schema, venv)
    /\ behind' = (IF venv < schema THEN behind \union {u} ELSE behind \ {u})
                 \union Left(schema')
    /\ UNCHANGED <<checkout, app, previous, swap, venv, cmd, paused, counts, good,
                   failures>>

(* So does one that connects anew with newer migrations on the disk.       *)
Connect(u) ==
    /\ Up(u) /\ venv > schema
    /\ schema' = venv
    /\ behind' = behind \union Left(venv)
    /\ UNCHANGED <<checkout, app, previous, swap, venv, service, cmd, paused, counts,
                   good, failures>>

CrashUnit(u) ==
    /\ Up(u) /\ crashes < MaxCrashes
    /\ crashes' = crashes + 1
    /\ service' = [service EXCEPT ![u] = Starting(u)]
    /\ UNCHANGED <<checkout, app, previous, swap, venv, schema, cmd, paused, commands,
                   good, failures, behind>>

(* install_live_mode_systemd_user.sh starts a tenant's service.               *)
StartTenant(u) ==
    /\ service[u] = Stopped /\ u \notin paused /\ venv # 0 /\ cmd = Idle
    /\ service' = [service EXCEPT ![u] = Starting(u)]
    /\ UNCHANGED <<checkout, app, previous, swap, venv, schema, cmd, paused, counts,
                   good, failures, behind>>

(* A newer commit is checked out, or the command is run elsewhere.         *)
Checkout ==
    /\ cmd = Idle
    /\ \/ checkout # 0 /\ checkout < MaxVersion /\ checkout' = checkout + 1
       \/ checkout = MaxVersion /\ checkout' = 0
    /\ UNCHANGED <<app, previous, swap, venv, schema, service, cmd, paused, counts, good,
                   failures, behind>>

(* Control-C, a full disk.  What was paused stays down.                    *)
CutEnv ==
    /\ cmd # Idle
    /\ Fails
    /\ paused' = {}
    /\ UNCHANGED <<checkout, app, previous, swap, venv, schema, service, counts, good,
                   behind>>

EnvNext ==
    \/ InstallEnv \/ UpdateEnv \/ RollbackEnv \/ UninstallEnv
    \/ DropPrevious \/ KeepApp \/ ClearApp \/ CopyCheckout \/ DropSwap \/ MoveTrees
    \/ PipInstall \/ Pause \/ Migrate \/ Restore \/ Restart \/ Validate
    \/ Disable \/ Purge \/ Checkout \/ CutEnv
    \/ \E u \in AllUnits : StartUnit(u) \/ Connect(u) \/ CrashUnit(u)
    \/ \E u \in TenantUnits : StartTenant(u)

EnvSpec == EnvInit /\ [][EnvNext]_envVars

-----------------------------------------------------------------------------
(* Properties *)

Trees == [version : 0 .. MaxVersion, whole : BOOLEAN]

EnvTypeOK ==
    /\ checkout \in 0 .. MaxVersion /\ venv \in 0 .. MaxVersion
    /\ schema \in 0 .. MaxVersion /\ good \in 0 .. MaxVersion
    /\ app \in Trees /\ previous \in Trees /\ swap \in Trees
    /\ service \in [AllUnits -> [is : {"down", "starting", "up"}, code : 0 .. MaxVersion]]
    /\ cmd.name \in {"none", "install", "update", "rollback", "uninstall"}
    /\ paused \subseteq AllUnits /\ behind \subseteq AllUnits
    /\ commands \in 0 .. MaxCommands /\ crashes \in 0 .. MaxCrashes
    /\ failures \in 0 .. MaxCommands

(* The version of the last command that succeeded survives one update or   *)
(* rollback that fails or is cut, whole, in one of the snapshots: it takes *)
(* two to lose it (_rotate_app_snapshot_backup, _copy_repo_snapshot,       *)
(* _swap_app_snapshot_with_backup).  An install over it, or an uninstall,  *)
(* removes it at once.                                                     *)
GoodSurvivesOneFailure ==
    \/ good = 0 \/ failures > 1 \/ (failures = 1 /\ cmd # Idle)
    \/ Whole(good) \in {app, previous, swap}

(* No service runs code older than the schema it works on, but one that an    *)
(* install left running or a rollback put back, or under which another     *)
(* service, connecting, migrated first (_pause_managed_runtime_for_migrations).*)
UnitsKeepUpWithSchema ==
    \A u \in AllUnits : Up(u) => service[u].code >= schema \/ u \in behind
=============================================================================
