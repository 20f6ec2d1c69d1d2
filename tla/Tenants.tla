------------------------------- MODULE Tenants -------------------------------
(***************************************************************************)
(* Tenants: an entry of the config file, credentials in the dotenv file, a *)
(* row of the database with all that hangs on it, and two systemd units    *)
(* that run while the tenant is live (service/tenant_onboarding.py).       *)
(*                                                                         *)
(* Browser requests (threads of the API server) and CLI commands read the  *)
(* files, change what they read and write the whole back; a write empties  *)
(* the file before it fills it.  No lock is held over the two.             *)
(*                                                                         *)
(* Dry runs change nothing and are left out.  The two units of a tenant    *)
(* are started and stopped together and are one here.                      *)
(***************************************************************************)
EXTENDS Naturals, FiniteSets

CONSTANTS
    Names,            \* tenants
    Operators,        \* requests and commands under way at once
    NoTenant,
    MaxOperations     \* bound: requests and commands, reboots

ASSUME TenantsAssumption ==
    /\ IsFiniteSet(Names) /\ IsFiniteSet(Operators)
    /\ NoTenant \notin Names /\ MaxOperations \in Nat

VARIABLES
    config,           \* each name: "absent", "disabled" or "enabled"
    emptied,          \* whether the config file is being written
    dotenv,           \* the names whose credentials it holds
    rows,             \* the names with a row in workspaces
    unit,             \* each name's unit: "down", "starting" or "up"
    installed,        \* the names whose units start when the machine does
    op,               \* what each operator is at
    operations,       \* bound
    reported,         \* history: the config as operators reported it done
    erased,           \* history: the names erased from the database, not onboarded since
    collided          \* history: two operations at once, one cut, or a reboot

tenantVars == <<config, emptied, dotenv, rows, unit, installed, op, operations,
                reported, erased, collided>>

NoOp == [does |-> "nothing", at |-> "end", name |-> NoTenant,
         file |-> [n \in Names |-> "absent"], env |-> {}, erase |-> FALSE, units |-> FALSE]

TenantsInit ==
    /\ config = [n \in Names |-> "absent"]
    /\ emptied = FALSE
    /\ dotenv = {} /\ rows = {}
    /\ unit = [n \in Names |-> "down"]
    /\ installed = {}
    /\ op = [o \in Operators |-> NoOp]
    /\ operations = 0
    /\ reported = [n \in Names |-> "absent"]
    /\ erased = {}
    /\ collided = FALSE

(* What a reader finds: YAML cut short is no config, or an error.          *)
FileSeen == IF emptied THEN [n \in Names |-> "absent"] ELSE config

Starts(o, r) ==
    /\ op[o] = NoOp
    /\ operations < MaxOperations
    /\ operations' = operations + 1
    /\ op' = [op EXCEPT ![o] = r]
    /\ collided' = (collided \/ \E q \in Operators : op[q] # NoOp)
    /\ UNCHANGED <<config, emptied, dotenv, rows, unit, installed, reported, erased>>

Next_(o, at) == op' = [op EXCEPT ![o].at = at]

-----------------------------------------------------------------------------
(* Operations: what they check and where they go from there *)

(* A scaffold is added disabled; one that is there and disabled is left,   *)
(* and one that is enabled refused.                                        *)
Onboard(o, n) ==
    /\ FileSeen[n] # "enabled"
    /\ Starts(o, [NoOp EXCEPT !.does = "onboard", !.name = n,
                    !.at = IF FileSeen[n] = "absent" THEN "empty" ELSE "sync",
                    !.file = [FileSeen EXCEPT ![n] = "disabled"]])

Activate(o, n, units) ==
    /\ FileSeen[n] # "absent" /\ n \in dotenv
    /\ Starts(o, [NoOp EXCEPT !.does = "activate", !.name = n, !.units = units,
                    !.at = IF FileSeen[n] = "disabled" THEN "empty" ELSE "sync",
                    !.file = [FileSeen EXCEPT ![n] = "enabled"]])

(* Values are put into the lines that were read.                           *)
InstallCredentials(o, n) ==
    /\ FileSeen[n] # "absent"
    /\ Starts(o, [NoOp EXCEPT !.does = "credentials", !.at = "dotenv", !.name = n,
                    !.env = dotenv \union {n}])

(* Whether the tenant is enabled is not asked.                             *)
ManageLive(o, n, action) ==
    /\ FileSeen[n] # "absent"
    /\ Starts(o, [NoOp EXCEPT !.does = action, !.at = "unit", !.name = n])

Retire(o, n, erase, units) ==
    /\ FileSeen[n] # "absent"
    /\ Starts(o, [NoOp EXCEPT !.does = "retire", !.name = n, !.erase = erase,
                    !.units = units, !.at = IF units THEN "unit" ELSE "erase",
                    !.file = [FileSeen EXCEPT ![n] = "absent"]])

(* workspaces sync-config and mirror backfill read the config, then write. *)
SyncConfig(o) ==
    Starts(o, [NoOp EXCEPT !.does = "sync", !.at = "sync", !.file = FileSeen])

-----------------------------------------------------------------------------
(* Their steps *)

EmptyFile(o) ==
    /\ op[o].at = "empty"
    /\ emptied' = TRUE
    /\ Next_(o, "fill")
    /\ UNCHANGED <<config, dotenv, rows, unit, installed, operations, reported,
                   erased, collided>>

Written_unchanged(o) == config

(* What was read, changed, is all that the file has now.                   *)
Written(o) == op[o].file

Ends(o) ==
    /\ op' = [op EXCEPT ![o] = NoOp]
    /\ reported' = IF op[o].does \in {"onboard", "activate", "retire"}
                   THEN [reported EXCEPT ![op[o].name] = op[o].file[op[o].name]]
                   ELSE reported

(* Its units were stopped before its rows were deleted; a name that is in  *)
(* the config again is erased no more, for its daemon may start.           *)
Retired(o) ==
    {n \in Names : /\ Written(o)[n] = "absent"
                   /\ \/ n \in erased
                      \/ op[o].does = "retire" /\ op[o].erase /\ op[o].units /\ n = op[o].name}

FillFile(o) ==
    /\ op[o].at = "fill"
    /\ emptied' = FALSE
    /\ config' = Written(o)
    /\ IF op[o].does = "retire" THEN Ends(o) ELSE Next_(o, "sync") /\ UNCHANGED reported
    /\ erased' = Retired(o)
    /\ UNCHANGED <<dotenv, rows, unit, installed, operations, collided>>

(* The config is read again; a tenant it has no more is an error.          *)
SyncRows(o) ==
    LET found == IF op[o].does = "sync" THEN {n \in Names : op[o].file[n] # "absent"}
                 ELSE {op[o].name} \intersect {n \in Names : FileSeen[n] # "absent"}
    IN /\ op[o].at = "sync"
       /\ rows' = rows \union found
       /\ erased' = erased \ found
       /\ IF op[o].does = "activate" /\ op[o].units /\ found # {}
          THEN Next_(o, "unit") /\ UNCHANGED reported
          ELSE Ends(o)
       /\ UNCHANGED <<config, emptied, dotenv, unit, installed, operations, collided>>

WriteDotenv(o) ==
    /\ op[o].at = "dotenv"
    /\ dotenv' = op[o].env
    /\ Ends(o)
    /\ UNCHANGED <<config, emptied, rows, unit, installed, operations, erased, collided>>

(* Starting installs the units, whatever they were; stopping leaves them   *)
(* installed.                                                              *)
RunUnit(o) ==
    LET n == op[o].name IN
    /\ op[o].at = "unit"
    /\ unit' = [unit EXCEPT ![n] = IF op[o].does \in {"stop", "retire"} THEN "down"
                                   ELSE "starting"]
    /\ installed' = IF op[o].does \in {"start", "activate"} THEN installed \union {n}
                    ELSE installed
    /\ IF op[o].does = "retire" THEN Next_(o, "erase") /\ UNCHANGED reported ELSE Ends(o)
    /\ UNCHANGED <<config, emptied, dotenv, rows, operations, erased, collided>>

(* Rows of every table go in one transaction.                              *)
EraseRows(o) ==
    /\ op[o].at = "erase"
    /\ rows' = IF op[o].erase THEN rows \ {op[o].name} ELSE rows
    /\ Next_(o, "empty")
    /\ UNCHANGED <<config, emptied, dotenv, unit, installed, operations, reported,
                   erased, collided>>

(* A command that raises or dies leaves the rest undone.                   *)
CutOff(o) ==
    /\ op[o] # NoOp
    /\ op' = [op EXCEPT ![o] = NoOp]
    /\ collided' = TRUE
    /\ UNCHANGED <<config, emptied, dotenv, rows, unit, installed, operations,
                   reported, erased>>

-----------------------------------------------------------------------------
(* The units *)

Booted_unchecked(n) == TRUE

(* The daemon wants its tenant in the config and its token.                *)
Booted(n) == FileSeen[n] # "absent" /\ n \in dotenv

(* It adds the row it does not find.  Without a config entry it exits, and *)
(* systemd starts it again.                                                *)
BootUnit(n) ==
    /\ unit[n] = "starting" /\ Booted(n)
    /\ unit' = [unit EXCEPT ![n] = "up"]
    /\ rows' = rows \union {n}
    /\ UNCHANGED <<config, emptied, dotenv, installed, op, operations, reported,
                   erased, collided>>

(* An exception, such as a foreign key without a row, ends it; it is       *)
(* started again.                                                          *)
UnitFails(n) ==
    /\ unit[n] = "up"
    /\ unit' = [unit EXCEPT ![n] = "starting"]
    /\ UNCHANGED <<config, emptied, dotenv, rows, installed, op, operations,
                   reported, erased, collided>>

(* Units that were installed start again, retired or not.                  *)
Reboot ==
    /\ operations < MaxOperations
    /\ operations' = operations + 1
    /\ op' = [o \in Operators |-> NoOp]
    /\ unit' = [n \in Names |-> IF n \in installed THEN "starting" ELSE "down"]
    /\ collided' = (collided \/ \E o \in Operators : op[o] # NoOp)
    /\ UNCHANGED <<config, emptied, dotenv, rows, installed, reported, erased>>

TenantsNext ==
    \/ Reboot
    \/ \E n \in Names : BootUnit(n) \/ UnitFails(n)
    \/ \E o \in Operators :
         \/ \E n \in Names :
              \/ Onboard(o, n) \/ InstallCredentials(o, n)
              \/ \E units \in BOOLEAN :
                   \/ Activate(o, n, units)
                   \/ \E erase \in BOOLEAN : Retire(o, n, erase, units)
              \/ \E action \in {"start", "restart", "stop"} : ManageLive(o, n, action)
         \/ SyncConfig(o)
         \/ EmptyFile(o) \/ FillFile(o) \/ SyncRows(o) \/ WriteDotenv(o)
         \/ RunUnit(o) \/ EraseRows(o) \/ CutOff(o)

TenantsSpec == TenantsInit /\ [][TenantsNext]_tenantVars

-----------------------------------------------------------------------------
(* Properties *)

States == {"absent", "disabled", "enabled"}

TenantsTypeOK ==
    /\ config \in [Names -> States] /\ reported \in [Names -> States]
    /\ emptied \in BOOLEAN /\ collided \in BOOLEAN
    /\ dotenv \subseteq Names /\ rows \subseteq Names
    /\ installed \subseteq Names /\ erased \subseteq Names
    /\ unit \in [Names -> {"down", "starting", "up"}]
    /\ operations \in 0 .. MaxOperations
    /\ op \in [Operators ->
         [does : {"nothing", "onboard", "activate", "credentials", "start", "restart",
                  "stop", "retire", "sync"},
          at : {"end", "empty", "fill", "sync", "dotenv", "unit", "erase"},
          name : Names \union {NoTenant}, file : [Names -> States], env : SUBSET Names,
          erase : BOOLEAN, units : BOOLEAN]]

(* The config file holds every tenant as it was last reported onboarded,   *)
(* activated or retired, unless two operations ran at once, so that one    *)
(* wrote back what it had read before the other, or one was cut            *)
(* (scaffold_tenant, activate_tenant, retire_tenant).                      *)
ConfigAsReported ==
    collided \/ (\E o \in Operators : op[o] # NoOp) \/ config = reported

(* A tenant whose units were stopped and its database rows deleted stays   *)
(* out of the database until the config has it or it is synced, though its *)
(* units are still installed and start with the machine, unless operations *)
(* overlapped or were cut (retire_tenant, cmd_mirror_daemon).              *)
ErasedStaysErased == collided \/ erased \intersect rows = {}
=============================================================================
