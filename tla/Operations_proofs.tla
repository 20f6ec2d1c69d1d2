-------------------------- MODULE Operations_proofs --------------------------
(***************************************************************************)
(* Proofs about what operates the mirror and what answers from it, for any *)
(* number of tenants, operators, units, versions, workspaces, tokens, rows *)
(* and messages and every value of the bounds.                             *)
(*                                                                         *)
(* Tenants: the config is as it was last reported (ConfigAsReported) and a *)
(* tenant that was erased stays so (ErasedStaysErased). Both hold between  *)
(* operations, so Orderly and Retiring say what one that is alone has done *)
(* at each of its steps.                                                   *)
(*                                                                         *)
(* The managed environment: the version that worked survives one failure,  *)
(* which Holder follows through the steps of a command, and units keep up  *)
(* with the schema (UnitsKept). The checks: a recovery leaves nothing to   *)
(* recover, in every state. Inference: a request gets the vectors of its   *)
(* model (NamesTell).                                                      *)
(*                                                                         *)
(* Search: an operator and its negation split the messages; pages          *)
(* partition the matches, because each page is cut from one list that has  *)
(* every match in its place (ReadSoFar). Context: windows join (Joined,    *)
(* Anchored) and a pack marks its hit (PackInv). Benchmarks: coverage and  *)
(* diagnostics agree with what is stored and scored.                       *)
(***************************************************************************)
EXTENDS MCOperations, Sorting_proofs

(* The steps an operation goes through.                                    *)
OnPath(r) ==
    \/ r.does = "onboard" /\ r.at \in {"empty", "fill", "sync"} /\ r.name \in Names
    \/ r.does = "activate" /\ r.at \in {"empty", "fill", "sync", "unit"} /\ r.name \in Names
    \/ r.does = "credentials" /\ r.at = "dotenv" /\ r.name \in Names
    \/ r.does \in {"start", "restart", "stop"} /\ r.at = "unit" /\ r.name \in Names
    \/ r.does = "retire" /\ r.at \in {"unit", "erase", "empty", "fill"} /\ r.name \in Names
    \/ r.does = "sync" /\ r.at = "sync"

Operation == [does : {"nothing", "onboard", "activate", "credentials", "start", "restart",
                      "stop", "retire", "sync"},
              at : {"end", "empty", "fill", "sync", "dotenv", "unit", "erase"},
              name : Names \union {NoTenant}, file : [Names -> States], env : SUBSET Names,
              erase : BOOLEAN, units : BOOLEAN]

TenantsInv == TenantsTypeOK /\ \A o \in Operators : op[o] = NoOp \/ OnPath(op[o])

Writes(o) == op[o].does \in {"onboard", "activate", "retire"}
Wrote(o) == op[o].does \in {"onboard", "activate"} /\ op[o].at \in {"sync", "unit"}

(* An operation that is alone has read the config as it was reported, and  *)
(* the file is as it read it or, once it wrote, as it wants it.            *)
Orderly ==
    ~collided =>
        /\ \A p, q \in Operators : (op[p] # NoOp /\ op[q] # NoOp) => p = q
        /\ (\A o \in Operators : op[o] = NoOp) => config = reported /\ ~emptied
        /\ \A o \in Operators : op[o] # NoOp =>
            /\ Writes(o) => op[o].file = [reported EXCEPT ![op[o].name] = op[o].file[op[o].name]]
            /\ config = IF Wrote(o) THEN op[o].file ELSE reported
            /\ emptied <=> op[o].at = "fill"

(* What is erased has no row and no daemon that could add it; nor has what *)
(* is being retired, from the step on that stopped or deleted it.          *)
Retiring ==
    ~collided =>
        /\ \A n \in erased : n \notin rows /\ config[n] = "absent"
        /\ \A o \in Operators : (op[o].does = "retire" /\ op[o].units) =>
            /\ op[o].at # "unit" => unit[op[o].name] = "down"
            /\ (op[o].erase /\ op[o].at \in {"empty", "fill"}) => op[o].name \notin rows

TenantsIInv == TenantsInv /\ Orderly /\ Retiring

LEMMA NoOpIsOperation ==
    /\ NoOp \in Operation /\ NoOp.does = "nothing" /\ NoOp.at = "end"
    /\ ~NoOp.units
BY DEF NoOp, Operation, States

(* A function of operators changed at one of them.                         *)
LEMMA OpSet ==
    ASSUME TenantsInv, NEW o \in Operators, NEW r \in Operation,
           r = NoOp \/ OnPath(r), op' = [op EXCEPT ![o] = r]
    PROVE  /\ op' \in [Operators -> Operation]
           /\ op'[o] = r /\ \A q \in Operators : q # o => op'[q] = op[q]
           /\ \A q \in Operators : op'[q] = NoOp \/ OnPath(op'[q])
<1>1. op \in [Operators -> Operation]
  BY DEF TenantsInv, TenantsTypeOK, Operation
<1>2. /\ op' \in [Operators -> Operation]
      /\ op'[o] = r /\ \A q \in Operators : q # o => op'[q] = op[q]
  BY <1>1
<1> QED BY <1>2 DEF TenantsInv

(* Beginning an operation.                                                 *)
LEMMA StartsFacts ==
    ASSUME TenantsInv, NEW o \in Operators, NEW r \in Operation, OnPath(r), Starts(o, r)
    PROVE  /\ TenantsInv' /\ op[o] = NoOp /\ op'[o] = r
           /\ \A q \in Operators : q # o => op'[q] = op[q]
           /\ ~collided' => ~collided /\ \A q \in Operators : op[q] = NoOp
           /\ UNCHANGED <<config, emptied, dotenv, rows, unit, installed, reported, erased>>
<1>1. op' = [op EXCEPT ![o] = r] /\ op[o] = NoOp
  BY DEF Starts
<1>2. /\ op' \in [Operators -> Operation]
      /\ op'[o] = r /\ \A q \in Operators : q # o => op'[q] = op[q]
      /\ \A q \in Operators : op'[q] = NoOp \/ OnPath(op'[q])
  BY <1>1, OpSet
<1>3. operations' \in 0 .. MaxOperations
  BY TenantsAssumption DEF Starts, TenantsInv, TenantsTypeOK
<1>4. collided' \in BOOLEAN /\ (~collided' => ~collided /\ \A q \in Operators : op[q] = NoOp)
  BY DEF Starts, TenantsInv, TenantsTypeOK
<1>5. UNCHANGED <<config, emptied, dotenv, rows, unit, installed, reported, erased>>
  BY DEF Starts
<1> QED BY <1>1, <1>2, <1>3, <1>4, <1>5 DEF TenantsInv, TenantsTypeOK, Operation

(* What the operations that begin are.                                     *)
Begun(o, r) ==
    /\ r \in Operation /\ OnPath(r)
    /\ r.does \in {"onboard", "activate", "retire"} =>
          r.file = [FileSeen EXCEPT ![r.name] = r.file[r.name]]
    /\ (r.does \in {"onboard", "activate"} /\ r.at = "sync") => r.file = FileSeen
    /\ r.at # "fill" /\ (r.does = "retire" /\ r.units => r.at = "unit")
    /\ (r.does = "activate" => r.at # "unit")
    /\ (r.does \in {"onboard", "activate"} => r.at \in {"empty", "sync"})
    /\ Starts(o, r)

Begins_(o) == \E r \in Operation : Begun(o, r)

LEMMA SeenType ==
    ASSUME TenantsInv PROVE FileSeen \in [Names -> States] /\ (~emptied => FileSeen = config)
BY DEF TenantsInv, TenantsTypeOK, FileSeen, States

LEMMA OnboardBegins ==
    ASSUME TenantsInv, NEW o \in Operators, NEW n \in Names, Onboard(o, n) PROVE Begins_(o)
<1> DEFINE r == [NoOp EXCEPT !.does = "onboard", !.name = n,
                    !.at = IF FileSeen[n] = "absent" THEN "empty" ELSE "sync",
                    !.file = [FileSeen EXCEPT ![n] = "disabled"]]
<1>1. Starts(o, r) /\ FileSeen[n] # "enabled"
  BY DEF Onboard
<1>2. /\ r.does = "onboard" /\ r.name = n /\ r.file = [FileSeen EXCEPT ![n] = "disabled"]
      /\ r.at = (IF FileSeen[n] = "absent" THEN "empty" ELSE "sync")
      /\ r.env = {} /\ r.erase = FALSE /\ r.units = FALSE
  BY DEF NoOp
<1>3. r \in Operation
  BY SeenType DEF NoOp, Operation, States
<1> HIDE DEF r
<1>4. FileSeen[n] \in States /\ FileSeen \in [Names -> States]
  BY SeenType
<1>5. r.file \in [Names -> States] /\ r.file[n] = "disabled"
  BY <1>2, <1>4 DEF States
<1>6. r.at = "sync" => r.file = FileSeen
  BY <1>1, <1>2, <1>4 DEF States
<1>7. OnPath(r)
  BY <1>2 DEF OnPath
<1>8. r.file = [FileSeen EXCEPT ![r.name] = r.file[r.name]]
  BY <1>2, <1>5
<1> QED BY <1>1, <1>2, <1>3, <1>6, <1>7, <1>8 DEF Begins_, Begun

LEMMA ActivateBegins ==
    ASSUME TenantsInv, NEW o \in Operators, NEW n \in Names, NEW units \in BOOLEAN,
           Activate(o, n, units)
    PROVE  Begins_(o)
<1> DEFINE r == [NoOp EXCEPT !.does = "activate", !.name = n, !.units = units,
                    !.at = IF FileSeen[n] = "disabled" THEN "empty" ELSE "sync",
                    !.file = [FileSeen EXCEPT ![n] = "enabled"]]
<1>1. Starts(o, r) /\ FileSeen[n] # "absent"
  BY DEF Activate
<1>2. /\ r.does = "activate" /\ r.name = n /\ r.file = [FileSeen EXCEPT ![n] = "enabled"]
      /\ r.at = (IF FileSeen[n] = "disabled" THEN "empty" ELSE "sync")
      /\ r.env = {} /\ r.erase = FALSE /\ r.units = units
  BY DEF NoOp
<1>3. r \in Operation
  BY SeenType DEF NoOp, Operation, States
<1> HIDE DEF r
<1>4. FileSeen[n] \in States /\ FileSeen \in [Names -> States]
  BY SeenType
<1>5. r.file \in [Names -> States] /\ r.file[n] = "enabled"
  BY <1>2, <1>4 DEF States
<1>6. r.at = "sync" => r.file = FileSeen
  BY <1>1, <1>2, <1>4 DEF States
<1>7. OnPath(r)
  BY <1>2 DEF OnPath
<1>8. r.file = [FileSeen EXCEPT ![r.name] = r.file[r.name]]
  BY <1>2, <1>5
<1> QED BY <1>1, <1>2, <1>3, <1>6, <1>7, <1>8 DEF Begins_, Begun

LEMMA RetireBegins ==
    ASSUME TenantsInv, NEW o \in Operators, NEW n \in Names, NEW erase \in BOOLEAN,
           NEW units \in BOOLEAN, Retire(o, n, erase, units)
    PROVE  Begins_(o)
<1> DEFINE r == [NoOp EXCEPT !.does = "retire", !.name = n, !.erase = erase,
                    !.units = units, !.at = IF units THEN "unit" ELSE "erase",
                    !.file = [FileSeen EXCEPT ![n] = "absent"]]
<1>1. Starts(o, r)
  BY DEF Retire
<1>2. /\ r.does = "retire" /\ r.name = n /\ r.file = [FileSeen EXCEPT ![n] = "absent"]
      /\ r.at = (IF units THEN "unit" ELSE "erase")
      /\ r.env = {} /\ r.erase = erase /\ r.units = units
  BY DEF NoOp
<1>3. r \in Operation
  BY SeenType DEF NoOp, Operation, States
<1> HIDE DEF r
<1>4. FileSeen \in [Names -> States]
  BY SeenType
<1>5. r.file \in [Names -> States] /\ r.file[n] = "absent"
  BY <1>2, <1>4 DEF States
<1>6. OnPath(r)
  BY <1>2 DEF OnPath
<1>7. r.file = [FileSeen EXCEPT ![r.name] = r.file[r.name]]
  BY <1>2, <1>5
<1> QED BY <1>1, <1>2, <1>3, <1>6, <1>7 DEF Begins_, Begun

LEMMA OthersBegin ==
    ASSUME TenantsInv, NEW o \in Operators,
           \/ \E n \in Names : InstallCredentials(o, n)
           \/ \E n \in Names, action \in {"start", "restart", "stop"} : ManageLive(o, n, action)
           \/ SyncConfig(o)
    PROVE  Begins_(o)
<1>1. ASSUME NEW n \in Names, InstallCredentials(o, n) PROVE Begins_(o)
  <2> DEFINE r == [NoOp EXCEPT !.does = "credentials", !.at = "dotenv", !.name = n,
                    !.env = dotenv \union {n}]
  <2>1. Starts(o, r)
    BY <1>1 DEF InstallCredentials
  <2>2. r \in Operation /\ r.does = "credentials" /\ r.at = "dotenv" /\ r.name = n
    BY DEF NoOp, Operation, States, TenantsInv, TenantsTypeOK
  <2> HIDE DEF r
  <2> QED BY <2>1, <2>2 DEF Begins_, Begun, OnPath
<1>2. ASSUME NEW n \in Names, NEW action \in {"start", "restart", "stop"}, ManageLive(o, n, action)
      PROVE  Begins_(o)
  <2> DEFINE r == [NoOp EXCEPT !.does = action, !.at = "unit", !.name = n]
  <2>1. Starts(o, r)
    BY <1>2 DEF ManageLive
  <2>2. r \in Operation /\ r.does = action /\ r.at = "unit" /\ r.name = n
    BY DEF NoOp, Operation, States
  <2> HIDE DEF r
  <2> QED BY <2>1, <2>2 DEF Begins_, Begun, OnPath
<1>3. ASSUME SyncConfig(o) PROVE Begins_(o)
  <2> DEFINE r == [NoOp EXCEPT !.does = "sync", !.at = "sync", !.file = FileSeen]
  <2>1. Starts(o, r)
    BY <1>3 DEF SyncConfig
  <2>2. r \in Operation /\ r.does = "sync" /\ r.at = "sync"
    BY SeenType DEF NoOp, Operation, States
  <2> HIDE DEF r
  <2> QED BY <2>1, <2>2 DEF Begins_, Begun, OnPath
<1> QED BY <1>1, <1>2, <1>3

LEMMA BeginsKeepsInv ==
    ASSUME TenantsIInv, NEW o \in Operators, Begins_(o)
    PROVE  TenantsIInv'
<1> USE DEF TenantsIInv
<1>1. PICK r \in Operation : Begun(o, r)
  BY DEF Begins_
<1>2. /\ TenantsInv' /\ op[o] = NoOp /\ op'[o] = r
      /\ \A q \in Operators : q # o => op'[q] = op[q]
      /\ ~collided' => ~collided /\ \A q \in Operators : op[q] = NoOp
      /\ UNCHANGED <<config, emptied, dotenv, rows, unit, installed, reported, erased>>
  BY <1>1, StartsFacts DEF Begun
<1>3. r # NoOp
  BY <1>1, NoOpIsOperation DEF Begun, OnPath
<1>4. Orderly'
  <2> SUFFICES ASSUME ~collided' PROVE Orderly'
    BY DEF Orderly
  <2>1. /\ ~collided /\ config = reported /\ ~emptied
        /\ \A q \in Operators : q # o => op'[q] = NoOp
    BY <1>2 DEF Orderly
  <2>2. FileSeen = config
    BY <2>1 DEF FileSeen
  <2>3. Writes(o)' => op'[o].file = [reported EXCEPT ![op'[o].name] = op'[o].file[op'[o].name]]
    BY <1>1, <1>2, <2>1, <2>2 DEF Writes, Begun
  <2>4. config = IF Wrote(o)' THEN op'[o].file ELSE reported
    BY <1>1, <1>2, <2>1, <2>2 DEF Wrote, Begun
  <2>5. op'[o].at # "fill" /\ ~emptied'
    BY <1>1, <1>2, <2>1 DEF Begun
  <2>6. \A q \in Operators : op'[q] # NoOp => q = o
    BY <2>1
  <2>7. config' = config /\ reported' = reported /\ NoOp' = NoOp
    BY <1>2 DEF NoOp
  <2>8. /\ \A p, q \in Operators : (op'[p] # NoOp /\ op'[q] # NoOp) => p = q
        /\ ~(\A q \in Operators : op'[q] = NoOp)
    BY <2>6, <1>2, <1>3
  <2>9. \A q \in Operators : op'[q] # NoOp =>
            /\ Writes(q)' => op'[q].file = [reported' EXCEPT ![op'[q].name] = op'[q].file[op'[q].name]]
            /\ config' = IF Wrote(q)' THEN op'[q].file ELSE reported'
            /\ emptied' <=> op'[q].at = "fill"
    BY <2>3, <2>4, <2>5, <2>6, <2>7
  <2> QED BY <2>7, <2>8, <2>9 DEF Orderly
<1>5. Retiring'
  <2> SUFFICES ASSUME ~collided' PROVE Retiring'
    BY DEF Retiring
  <2>1. ~collided /\ \A q \in Operators : q # o => op'[q] = NoOp
    BY <1>2
  <2>2. \A n \in erased' : n \notin rows' /\ config'[n] = "absent"
    BY <1>2, <2>1 DEF Retiring
  <2>3. \A q \in Operators : (op'[q].does = "retire" /\ op'[q].units) => op'[q].at = "unit"
    BY <1>1, <1>2, <2>1, NoOpIsOperation DEF Begun
  <2> QED BY <2>2, <2>3 DEF Retiring
<1> QED BY <1>2, <1>4, <1>5

(* An operation that goes on to its next step, and one that is over.       *)
LEMMA GoesOn ==
    ASSUME TenantsInv, NEW o \in Operators,
           NEW step \in {"fill", "sync", "unit", "erase", "empty"},
           Next_(o, step), OnPath([op[o] EXCEPT !.at = step])
    PROVE  /\ op' \in [Operators -> Operation]
           /\ \A q \in Operators : op'[q] = NoOp \/ OnPath(op'[q])
           /\ \A q \in Operators : q # o => op'[q] = op[q]
           /\ op'[o].at = step /\ op'[o].does = op[o].does /\ op'[o].name = op[o].name
           /\ op'[o].file = op[o].file /\ op'[o].erase = op[o].erase
           /\ op'[o].units = op[o].units /\ op'[o] # NoOp
<1> DEFINE r == [op[o] EXCEPT !.at = step]
<1>1. op[o] \in Operation
  BY DEF TenantsInv, TenantsTypeOK, Operation
<1>2. r \in Operation
  BY <1>1 DEF Operation
<1>3. op' = [op EXCEPT ![o] = r]
  BY DEF Next_
<1>4. /\ r.at = step /\ r.does = op[o].does /\ r.name = op[o].name
      /\ r.file = op[o].file /\ r.erase = op[o].erase /\ r.units = op[o].units
  BY <1>1 DEF Operation
<1>5. OnPath(r)
  OBVIOUS
<1> HIDE DEF r
<1>6. r # NoOp
  BY <1>5, NoOpIsOperation DEF OnPath
<1>7. /\ op' \in [Operators -> Operation]
      /\ op'[o] = r /\ \A q \in Operators : q # o => op'[q] = op[q]
      /\ \A q \in Operators : op'[q] = NoOp \/ OnPath(op'[q])
  BY <1>2, <1>3, <1>5, OpSet
<1> QED BY <1>4, <1>6, <1>7

LEMMA IsOver ==
    ASSUME TenantsInv, NEW o \in Operators, op' = [op EXCEPT ![o] = NoOp]
    PROVE  /\ op' \in [Operators -> Operation]
           /\ \A q \in Operators : op'[q] = NoOp \/ OnPath(op'[q])
           /\ \A q \in Operators : q # o => op'[q] = op[q]
           /\ op'[o] = NoOp
BY OpSet, NoOpIsOperation

(* Orderly and Retiring of a step of an operation that is alone: it is the *)
(* only one before and after.                                              *)
LEMMA AloneSteps ==
    ASSUME TenantsIInv, NEW o \in Operators, op[o] # NoOp, ~collided,
           \A q \in Operators : q # o => op'[q] = op[q]
    PROVE  /\ \A q \in Operators : q # o => op[q] = NoOp /\ op'[q] = NoOp
           /\ Writes(o) => op[o].file = [reported EXCEPT ![op[o].name] = op[o].file[op[o].name]]
           /\ config = IF Wrote(o) THEN op[o].file ELSE reported
           /\ emptied <=> op[o].at = "fill"
           /\ \A n \in erased : n \notin rows /\ config[n] = "absent"
           /\ (op[o].does = "retire" /\ op[o].units) =>
                /\ op[o].at # "unit" => unit[op[o].name] = "down"
                /\ (op[o].erase /\ op[o].at \in {"empty", "fill"}) => op[o].name \notin rows
<1>1. \A q \in Operators : q # o => op[q] = NoOp
  BY DEF TenantsIInv, Orderly
<1> QED BY <1>1 DEF TenantsIInv, Orderly, Retiring

LEMMA NextOrderly ==
    ASSUME NEW o \in Operators, \A q \in Operators : q # o => op'[q] = NoOp,
           op'[o] # NoOp,
           Writes(o)' => op'[o].file = [reported' EXCEPT ![op'[o].name] = op'[o].file[op'[o].name]],
           config' = IF Wrote(o)' THEN op'[o].file ELSE reported',
           emptied' <=> op'[o].at = "fill",
           \A n \in erased' : n \notin rows' /\ config'[n] = "absent",
           (op'[o].does = "retire" /\ op'[o].units) =>
                /\ op'[o].at # "unit" => unit'[op'[o].name] = "down"
                /\ (op'[o].erase /\ op'[o].at \in {"empty", "fill"}) => op'[o].name \notin rows'
    PROVE  Orderly' /\ Retiring'
<1>1. NoOp' = NoOp
  BY DEF NoOp
<1>2. ~NoOp.units
  BY NoOpIsOperation
<1>3. Orderly'
  BY <1>1 DEF Orderly
<1>4. Retiring'
  BY <1>2 DEF Retiring
<1> QED BY <1>3, <1>4

LEMMA OverOrderly ==
    ASSUME \A q \in Operators : op'[q] = NoOp, config' = reported', ~emptied',
           \A n \in erased' : n \notin rows' /\ config'[n] = "absent"
    PROVE  Orderly' /\ Retiring'
<1>1. NoOp' = NoOp
  BY DEF NoOp
<1>2. ~NoOp.units
  BY NoOpIsOperation
<1>3. Orderly'
  BY <1>1 DEF Orderly
<1>4. Retiring'
  BY <1>2 DEF Retiring
<1> QED BY <1>3, <1>4

LEMMA UnderWay ==
    ASSUME TenantsInv, NEW o \in Operators, op[o].at # "end"
    PROVE  op[o] # NoOp /\ OnPath(op[o]) /\ op[o] \in Operation
BY NoOpIsOperation DEF TenantsInv, TenantsTypeOK, Operation

LEMMA EmptyFileKeepsInv ==
    ASSUME TenantsIInv, NEW o \in Operators, EmptyFile(o)
    PROVE  TenantsIInv'
<1> USE DEF TenantsIInv
<1>1. /\ op[o].at = "empty" /\ Next_(o, "fill") /\ emptied' = TRUE
      /\ UNCHANGED <<config, dotenv, rows, unit, installed, operations, reported,
                     erased, collided>>
  BY DEF EmptyFile
<1>2. op[o] # NoOp /\ OnPath(op[o]) /\ op[o] \in Operation
  BY <1>1, UnderWay
<1>3. OnPath([op[o] EXCEPT !.at = "fill"])
  BY <1>1, <1>2 DEF OnPath, Operation
<1>4. /\ op' \in [Operators -> Operation]
      /\ \A q \in Operators : op'[q] = NoOp \/ OnPath(op'[q])
      /\ \A q \in Operators : q # o => op'[q] = op[q]
      /\ op'[o].at = "fill" /\ op'[o].does = op[o].does /\ op'[o].name = op[o].name
      /\ op'[o].file = op[o].file /\ op'[o].erase = op[o].erase
      /\ op'[o].units = op[o].units /\ op'[o] # NoOp
  BY <1>1, <1>3, GoesOn
<1>5. TenantsInv'
  BY <1>1, <1>4 DEF TenantsInv, TenantsTypeOK, Operation
<1>6. ASSUME ~collided' PROVE Orderly' /\ Retiring'
  <2>1. ~collided
    BY <1>1, <1>6
  <2>2. /\ \A q \in Operators : q # o => op'[q] = NoOp
        /\ Writes(o) => op[o].file = [reported EXCEPT ![op[o].name] = op[o].file[op[o].name]]
        /\ config = IF Wrote(o) THEN op[o].file ELSE reported
        /\ \A n \in erased : n \notin rows /\ config[n] = "absent"
        /\ (op[o].does = "retire" /\ op[o].units) =>
             /\ unit[op[o].name] = "down"
             /\ op[o].erase => op[o].name \notin rows
    BY <1>1, <1>2, <1>4, <2>1, AloneSteps
  <2>3. /\ Writes(o)' <=> Writes(o)
        /\ ~Wrote(o) /\ ~Wrote(o)'
    BY <1>1, <1>4 DEF Writes, Wrote
  <2> QED BY <1>1, <1>4, <2>2, <2>3, NextOrderly
<1> QED BY <1>5, <1>6 DEF Orderly, Retiring

LEMMA FillFileKeepsInv ==
    ASSUME TenantsIInv, NEW o \in Operators, FillFile(o)
    PROVE  TenantsIInv'
<1> USE DEF TenantsIInv
<1>1. /\ op[o].at = "fill" /\ emptied' = FALSE /\ config' = op[o].file
      /\ IF op[o].does = "retire" THEN Ends(o) ELSE Next_(o, "sync") /\ UNCHANGED reported
      /\ erased' = Retired(o)
      /\ UNCHANGED <<dotenv, rows, unit, installed, operations, collided>>
  BY DEF FillFile, Written
<1>2. op[o] # NoOp /\ OnPath(op[o]) /\ op[o] \in Operation
  BY <1>1, UnderWay
<1>3. op[o].does \in {"onboard", "activate", "retire"} /\ op[o].name \in Names
      /\ op[o].file \in [Names -> States]
  BY <1>1, <1>2 DEF OnPath, Operation
<1>4. erased' \subseteq Names /\ \A n \in erased' :
          /\ op[o].file[n] = "absent"
          /\ n \in erased \/ (op[o].does = "retire" /\ op[o].erase /\ op[o].units /\ n = op[o].name)
  BY <1>1 DEF Retired, Written
<1>5. ASSUME ~collided'
      PROVE  \A n \in erased' : n \notin rows' /\ config'[n] = "absent"
  BY <1>1, <1>2, <1>4, <1>5 DEF Orderly, Retiring
<1>6. CASE op[o].does = "retire"
  <2>1. op' = [op EXCEPT ![o] = NoOp] /\ reported' = [reported EXCEPT ![op[o].name] = op[o].file[op[o].name]]
    BY <1>1, <1>6 DEF Ends
  <2>2. /\ op' \in [Operators -> Operation]
        /\ \A q \in Operators : op'[q] = NoOp \/ OnPath(op'[q])
        /\ \A q \in Operators : q # o => op'[q] = op[q]
        /\ op'[o] = NoOp
    BY <2>1, IsOver
  <2>3. reported' \in [Names -> States]
    BY <2>1, <1>3 DEF TenantsInv, TenantsTypeOK
  <2>4. TenantsInv'
    BY <1>1, <1>3, <1>4, <2>2, <2>3 DEF TenantsInv, TenantsTypeOK, Operation
  <2>5. ASSUME ~collided' PROVE Orderly' /\ Retiring'
    <3>1. /\ \A q \in Operators : q # o => op[q] = NoOp /\ op'[q] = NoOp
          /\ Writes(o) => op[o].file = [reported EXCEPT ![op[o].name] = op[o].file[op[o].name]]
      BY <1>1, <1>2, <2>2, <2>5, AloneSteps
    <3>2. config' = reported' /\ \A q \in Operators : op'[q] = NoOp
      BY <1>1, <1>6, <2>1, <2>2, <3>1 DEF Writes
    <3> QED BY <1>1, <1>5, <2>5, <3>2, OverOrderly
  <2> QED BY <2>4, <2>5 DEF Orderly, Retiring
<1>7. CASE op[o].does # "retire"
  <2>1. Next_(o, "sync") /\ reported' = reported
    BY <1>1, <1>7
  <2>2. OnPath([op[o] EXCEPT !.at = "sync"])
    BY <1>2, <1>3, <1>7 DEF OnPath, Operation
  <2>3. /\ op' \in [Operators -> Operation]
        /\ \A q \in Operators : op'[q] = NoOp \/ OnPath(op'[q])
        /\ \A q \in Operators : q # o => op'[q] = op[q]
        /\ op'[o].at = "sync" /\ op'[o].does = op[o].does /\ op'[o].name = op[o].name
        /\ op'[o].file = op[o].file /\ op'[o].erase = op[o].erase
        /\ op'[o].units = op[o].units /\ op'[o] # NoOp
    BY <2>1, <2>2, GoesOn
  <2>4. TenantsInv'
    BY <1>1, <1>3, <1>4, <2>1, <2>3 DEF TenantsInv, TenantsTypeOK, Operation
  <2>5. ASSUME ~collided' PROVE Orderly' /\ Retiring'
    <3>1. /\ \A q \in Operators : q # o => op[q] = NoOp /\ op'[q] = NoOp
          /\ Writes(o) => op[o].file = [reported EXCEPT ![op[o].name] = op[o].file[op[o].name]]
      BY <1>1, <1>2, <2>3, <2>5, AloneSteps
    <3> QED BY <1>1, <1>3, <1>5, <1>7, <2>1, <2>3, <2>5, <3>1, NextOrderly DEF Wrote, Writes
  <2> QED BY <2>4, <2>5 DEF Orderly, Retiring
<1> QED BY <1>6, <1>7

LEMMA SyncRowsKeepsInv ==
    ASSUME TenantsIInv, NEW o \in Operators, SyncRows(o)
    PROVE  TenantsIInv'
<1> USE DEF TenantsIInv
<1>1. PICK seen \in SUBSET Names :
        /\ op[o].at = "sync" /\ rows' = rows \union seen /\ erased' = erased \ seen
        /\ \/ op[o].does = "activate" /\ Next_(o, "unit") /\ UNCHANGED reported
           \/ Ends(o)
        /\ UNCHANGED <<config, emptied, dotenv, unit, installed, operations, collided>>
  <2> DEFINE seen == IF op[o].does = "sync" THEN {n \in Names : op[o].file[n] # "absent"}
                 ELSE {op[o].name} \intersect {n \in Names : FileSeen[n] # "absent"}
  <2>1. seen \in SUBSET Names
    OBVIOUS
  <2> HIDE DEF seen
  <2>2. /\ op[o].at = "sync" /\ rows' = rows \union seen /\ erased' = erased \ seen
        /\ \/ op[o].does = "activate" /\ Next_(o, "unit") /\ UNCHANGED reported
           \/ Ends(o)
        /\ UNCHANGED <<config, emptied, dotenv, unit, installed, operations, collided>>
    BY DEF SyncRows, seen
  <2> QED BY <2>1, <2>2
<1>2. op[o] # NoOp /\ OnPath(op[o]) /\ op[o] \in Operation
  BY <1>1, UnderWay
<1>3. /\ op[o].does \in {"onboard", "activate", "sync"}
      /\ op[o].does # "sync" => op[o].name \in Names
      /\ op[o].file \in [Names -> States]
  BY <1>1, <1>2 DEF OnPath, Operation
<1>4. rows' \subseteq Names /\ erased' \subseteq Names
  BY <1>1 DEF TenantsInv, TenantsTypeOK
<1>5. ASSUME ~collided'
      PROVE  \A n \in erased' : n \notin rows' /\ config'[n] = "absent"
  BY <1>1, <1>5 DEF Retiring
<1>6. CASE op[o].does = "activate" /\ Next_(o, "unit") /\ UNCHANGED reported
  <2>1. OnPath([op[o] EXCEPT !.at = "unit"])
    BY <1>2, <1>3, <1>6 DEF OnPath, Operation
  <2>2. /\ op' \in [Operators -> Operation]
        /\ \A q \in Operators : op'[q] = NoOp \/ OnPath(op'[q])
        /\ \A q \in Operators : q # o => op'[q] = op[q]
        /\ op'[o].at = "unit" /\ op'[o].does = op[o].does /\ op'[o].name = op[o].name
        /\ op'[o].file = op[o].file /\ op'[o].erase = op[o].erase
        /\ op'[o].units = op[o].units /\ op'[o] # NoOp
    BY <1>6, <2>1, GoesOn
  <2>3. TenantsInv'
    BY <1>1, <1>4, <1>6, <2>2 DEF TenantsInv, TenantsTypeOK, Operation
  <2>4. ASSUME ~collided' PROVE Orderly' /\ Retiring'
    <3>1. /\ \A q \in Operators : q # o => op[q] = NoOp /\ op'[q] = NoOp
          /\ Writes(o) => op[o].file = [reported EXCEPT ![op[o].name] = op[o].file[op[o].name]]
          /\ config = IF Wrote(o) THEN op[o].file ELSE reported
          /\ emptied <=> op[o].at = "fill"
      BY <1>1, <1>2, <2>2, <2>4, AloneSteps
    <3> QED BY <1>1, <1>3, <1>5, <1>6, <2>2, <2>4, <3>1, NextOrderly DEF Wrote, Writes
  <2> QED BY <2>3, <2>4 DEF Orderly, Retiring
<1>7. CASE Ends(o)
  <2>1. op' = [op EXCEPT ![o] = NoOp]
        /\ reported' = IF op[o].does \in {"onboard", "activate", "retire"}
                       THEN [reported EXCEPT ![op[o].name] = op[o].file[op[o].name]]
                       ELSE reported
    BY <1>7 DEF Ends
  <2>2. /\ op' \in [Operators -> Operation]
        /\ \A q \in Operators : op'[q] = NoOp \/ OnPath(op'[q])
        /\ \A q \in Operators : q # o => op'[q] = op[q]
        /\ op'[o] = NoOp
    BY <2>1, IsOver
  <2>3. reported' \in [Names -> States]
    BY <2>1, <1>3 DEF TenantsInv, TenantsTypeOK
  <2>4. TenantsInv'
    BY <1>1, <1>3, <1>4, <2>2, <2>3 DEF TenantsInv, TenantsTypeOK, Operation
  <2>5. ASSUME ~collided' PROVE Orderly' /\ Retiring'
    <3>1. /\ \A q \in Operators : q # o => op[q] = NoOp /\ op'[q] = NoOp
          /\ Writes(o) => op[o].file = [reported EXCEPT ![op[o].name] = op[o].file[op[o].name]]
          /\ config = IF Wrote(o) THEN op[o].file ELSE reported
          /\ emptied <=> op[o].at = "fill"
      BY <1>1, <1>2, <2>2, <2>5, AloneSteps
    <3>2. config' = reported' /\ \A q \in Operators : op'[q] = NoOp
      BY <1>1, <1>3, <2>1, <2>2, <3>1 DEF Writes, Wrote
    <3> QED BY <1>1, <1>5, <2>5, <3>1, <3>2, OverOrderly
  <2> QED BY <2>4, <2>5 DEF Orderly, Retiring
<1> QED BY <1>1, <1>6, <1>7

LEMMA WriteDotenvKeepsInv ==
    ASSUME TenantsIInv, NEW o \in Operators, WriteDotenv(o)
    PROVE  TenantsIInv'
<1> USE DEF TenantsIInv
<1>1. /\ op[o].at = "dotenv" /\ dotenv' = op[o].env /\ Ends(o)
      /\ UNCHANGED <<config, emptied, rows, unit, installed, operations, erased, collided>>
  BY DEF WriteDotenv
<1>2. op[o] # NoOp /\ OnPath(op[o]) /\ op[o] \in Operation
  BY <1>1, UnderWay
<1>3. op[o].does = "credentials" /\ op[o].env \subseteq Names
  BY <1>1, <1>2 DEF OnPath, Operation
<1>4. op' = [op EXCEPT ![o] = NoOp] /\ reported' = reported
  BY <1>1, <1>3 DEF Ends
<1>5. /\ op' \in [Operators -> Operation]
      /\ \A q \in Operators : op'[q] = NoOp \/ OnPath(op'[q])
      /\ \A q \in Operators : q # o => op'[q] = op[q]
      /\ op'[o] = NoOp
  BY <1>4, IsOver
<1>6. TenantsInv'
  BY <1>1, <1>3, <1>4, <1>5 DEF TenantsInv, TenantsTypeOK, Operation
<1>7. ASSUME ~collided' PROVE Orderly' /\ Retiring'
  BY <1>1, <1>2, <1>3, <1>4, <1>5, <1>7, AloneSteps, OverOrderly DEF Wrote
<1> QED BY <1>6, <1>7 DEF Orderly, Retiring

LEMMA RunUnitKeepsInv ==
    ASSUME TenantsIInv, NEW o \in Operators, RunUnit(o)
    PROVE  TenantsIInv'
<1> USE DEF TenantsIInv
<1>1. /\ op[o].at = "unit"
      /\ unit' = [unit EXCEPT ![op[o].name] =
                     IF op[o].does \in {"stop", "retire"} THEN "down" ELSE "starting"]
      /\ installed' = IF op[o].does \in {"start", "activate"} THEN installed \union {op[o].name}
                      ELSE installed
      /\ IF op[o].does = "retire" THEN Next_(o, "erase") /\ UNCHANGED reported ELSE Ends(o)
      /\ UNCHANGED <<config, emptied, dotenv, rows, operations, erased, collided>>
  BY DEF RunUnit
<1>2. op[o] # NoOp /\ OnPath(op[o]) /\ op[o] \in Operation
  BY <1>1, UnderWay
<1>3. /\ op[o].does \in {"activate", "start", "restart", "stop", "retire"}
      /\ op[o].name \in Names /\ op[o].file \in [Names -> States]
  BY <1>1, <1>2 DEF OnPath, Operation
<1>4. unit' \in [Names -> {"down", "starting", "up"}] /\ installed' \subseteq Names
  BY <1>1, <1>3 DEF TenantsInv, TenantsTypeOK
<1>5. ASSUME ~collided'
      PROVE  \A n \in erased' : n \notin rows' /\ config'[n] = "absent"
  BY <1>1, <1>5 DEF Retiring
<1>6. CASE op[o].does = "retire"
  <2>1. Next_(o, "erase") /\ reported' = reported
    BY <1>1, <1>6
  <2>2. OnPath([op[o] EXCEPT !.at = "erase"])
    BY <1>2, <1>3, <1>6 DEF OnPath, Operation
  <2>3. /\ op' \in [Operators -> Operation]
        /\ \A q \in Operators : op'[q] = NoOp \/ OnPath(op'[q])
        /\ \A q \in Operators : q # o => op'[q] = op[q]
        /\ op'[o].at = "erase" /\ op'[o].does = op[o].does /\ op'[o].name = op[o].name
        /\ op'[o].file = op[o].file /\ op'[o].erase = op[o].erase
        /\ op'[o].units = op[o].units /\ op'[o] # NoOp
    BY <2>1, <2>2, GoesOn
  <2>4. TenantsInv'
    BY <1>1, <1>4, <2>1, <2>3 DEF TenantsInv, TenantsTypeOK, Operation
  <2>5. unit'[op[o].name] = "down"
    BY <1>1, <1>3, <1>6 DEF TenantsInv, TenantsTypeOK
  <2>6. ASSUME ~collided' PROVE Orderly' /\ Retiring'
    <3>1. /\ \A q \in Operators : q # o => op[q] = NoOp /\ op'[q] = NoOp
          /\ Writes(o) => op[o].file = [reported EXCEPT ![op[o].name] = op[o].file[op[o].name]]
          /\ config = IF Wrote(o) THEN op[o].file ELSE reported
          /\ emptied <=> op[o].at = "fill"
      BY <1>1, <1>2, <2>3, <2>6, AloneSteps
    <3> QED BY <1>1, <1>3, <1>5, <1>6, <2>1, <2>3, <2>5, <2>6, <3>1, NextOrderly DEF Wrote, Writes
  <2> QED BY <2>4, <2>6 DEF Orderly, Retiring
<1>7. CASE op[o].does # "retire"
  <2>1. op' = [op EXCEPT ![o] = NoOp]
        /\ reported' = IF op[o].does = "activate"
                       THEN [reported EXCEPT ![op[o].name] = op[o].file[op[o].name]]
                       ELSE reported
    BY <1>1, <1>3, <1>7 DEF Ends
  <2>2. /\ op' \in [Operators -> Operation]
        /\ \A q \in Operators : op'[q] = NoOp \/ OnPath(op'[q])
        /\ \A q \in Operators : q # o => op'[q] = op[q]
        /\ op'[o] = NoOp
    BY <2>1, IsOver
  <2>3. reported' \in [Names -> States]
    BY <2>1, <1>3 DEF TenantsInv, TenantsTypeOK
  <2>4. TenantsInv'
    BY <1>1, <1>4, <2>2, <2>3 DEF TenantsInv, TenantsTypeOK, Operation
  <2>5. ASSUME ~collided' PROVE Orderly' /\ Retiring'
    <3>1. /\ \A q \in Operators : q # o => op[q] = NoOp /\ op'[q] = NoOp
          /\ Writes(o) => op[o].file = [reported EXCEPT ![op[o].name] = op[o].file[op[o].name]]
          /\ config = IF Wrote(o) THEN op[o].file ELSE reported
          /\ emptied <=> op[o].at = "fill"
      BY <1>1, <1>2, <2>2, <2>5, AloneSteps
    <3>2. config' = reported' /\ \A q \in Operators : op'[q] = NoOp
      BY <1>1, <1>3, <1>7, <2>1, <2>2, <3>1 DEF Writes, Wrote
    <3> QED BY <1>1, <1>5, <2>5, <3>1, <3>2, OverOrderly
  <2> QED BY <2>4, <2>5 DEF Orderly, Retiring
<1> QED BY <1>6, <1>7

LEMMA EraseRowsKeepsInv ==
    ASSUME TenantsIInv, NEW o \in Operators, EraseRows(o)
    PROVE  TenantsIInv'
<1> USE DEF TenantsIInv
<1>1. /\ op[o].at = "erase" /\ Next_(o, "empty")
      /\ rows' = IF op[o].erase THEN rows \ {op[o].name} ELSE rows
      /\ UNCHANGED <<config, emptied, dotenv, unit, installed, operations, reported,
                     erased, collided>>
  BY DEF EraseRows
<1>2. op[o] # NoOp /\ OnPath(op[o]) /\ op[o] \in Operation
  BY <1>1, UnderWay
<1>3. op[o].does = "retire" /\ OnPath([op[o] EXCEPT !.at = "empty"])
  BY <1>1, <1>2 DEF OnPath, Operation
<1>4. /\ op' \in [Operators -> Operation]
      /\ \A q \in Operators : op'[q] = NoOp \/ OnPath(op'[q])
      /\ \A q \in Operators : q # o => op'[q] = op[q]
      /\ op'[o].at = "empty" /\ op'[o].does = op[o].does /\ op'[o].name = op[o].name
      /\ op'[o].file = op[o].file /\ op'[o].erase = op[o].erase
      /\ op'[o].units = op[o].units /\ op'[o] # NoOp
  BY <1>1, <1>3, GoesOn
<1>5. TenantsInv'
  BY <1>1, <1>4 DEF TenantsInv, TenantsTypeOK, Operation
<1>6. ASSUME ~collided' PROVE Orderly' /\ Retiring'
  <2>1. \A n \in erased' : n \notin rows' /\ config'[n] = "absent"
    BY <1>1, <1>6 DEF Retiring
  <2>2. op'[o].erase => op'[o].name \notin rows'
    BY <1>1, <1>4
  <2>3. /\ \A q \in Operators : q # o => op[q] = NoOp /\ op'[q] = NoOp
        /\ Writes(o) => op[o].file = [reported EXCEPT ![op[o].name] = op[o].file[op[o].name]]
        /\ config = IF Wrote(o) THEN op[o].file ELSE reported
        /\ emptied <=> op[o].at = "fill"
        /\ op[o].units => unit[op[o].name] = "down"
    BY <1>1, <1>2, <1>3, <1>4, <1>6, AloneSteps
  <2> QED BY <1>1, <1>3, <1>4, <1>6, <2>1, <2>2, <2>3, NextOrderly DEF Wrote, Writes
<1> QED BY <1>5, <1>6 DEF Orderly, Retiring

LEMMA CutOffKeepsInv ==
    ASSUME TenantsIInv, NEW o \in Operators, CutOff(o)
    PROVE  TenantsIInv'
<1> USE DEF TenantsIInv
<1>1. /\ op' = [op EXCEPT ![o] = NoOp] /\ collided' = TRUE
      /\ UNCHANGED <<config, emptied, dotenv, rows, unit, installed, operations,
                     reported, erased>>
  BY DEF CutOff
<1>2. /\ op' \in [Operators -> Operation]
      /\ \A q \in Operators : op'[q] = NoOp \/ OnPath(op'[q])
  BY <1>1, IsOver
<1> QED BY <1>1, <1>2 DEF TenantsInv, TenantsTypeOK, Operation, Orderly, Retiring

LEMMA UnitsKeepInv ==
    ASSUME TenantsIInv, NEW n \in Names, BootUnit(n) \/ UnitFails(n)
    PROVE  TenantsIInv'
<1> USE DEF TenantsIInv
<1>1. /\ UNCHANGED <<config, emptied, dotenv, installed, op, operations, reported,
                     erased, collided>>
      /\ unit[n] # "down"
      /\ \/ rows' = rows
         \/ rows' = rows \union {n} /\ FileSeen[n] # "absent"
  BY DEF BootUnit, UnitFails, Booted
<1>2. unit' \in [Names -> {"down", "starting", "up"}] /\ rows' \subseteq Names
      /\ \A m \in Names : m # n => unit'[m] = unit[m]
  BY DEF BootUnit, UnitFails, TenantsInv, TenantsTypeOK
<1>3. TenantsInv'
  <2>1. NoOp' = NoOp
    BY DEF NoOp
  <2>2. \A o \in Operators : op'[o] = NoOp \/ OnPath(op'[o])
    BY <1>1 DEF TenantsInv
  <2> QED BY <1>1, <1>2, <2>1, <2>2 DEF TenantsInv, TenantsTypeOK
<1>4. Orderly'
  BY <1>1 DEF Orderly, Writes, Wrote, NoOp
<1>5. ASSUME ~collided' PROVE Retiring'
  <2>1. ~collided
    BY <1>1, <1>5
  <2>2. n \in erased => rows' = rows
    <3>1. FileSeen[n] # "absent" => config[n] # "absent"
      BY DEF FileSeen
    <3> QED BY <1>1, <2>1, <3>1 DEF Retiring
  <2>3. \A m \in erased' : m \notin rows' /\ config'[m] = "absent"
    BY <1>1, <2>1, <2>2 DEF Retiring
  <2>4. ASSUME NEW o \in Operators, op[o].does = "retire", op[o].units, op[o].at # "unit"
        PROVE  op[o].name # n /\ op[o].name \in Names
    <3>1. unit[op[o].name] = "down"
      BY <2>1, <2>4 DEF Retiring
    <3>2. OnPath(op[o])
      BY <2>4, NoOpIsOperation DEF TenantsInv
    <3> QED BY <1>1, <2>4, <3>1, <3>2 DEF OnPath
  <2>5. \A o \in Operators : (op'[o].does = "retire" /\ op'[o].units) =>
            /\ op'[o].at # "unit" => unit'[op'[o].name] = "down"
            /\ (op'[o].erase /\ op'[o].at \in {"empty", "fill"}) => op'[o].name \notin rows'
    BY <1>1, <1>2, <2>1, <2>4 DEF Retiring
  <2> QED BY <2>3, <2>5 DEF Retiring
<1> QED BY <1>3, <1>4, <1>5 DEF Retiring

LEMMA RebootKeepsInv ==
    ASSUME TenantsIInv, Reboot
    PROVE  TenantsIInv'
<1> USE DEF TenantsIInv
<1>1. /\ op' = [o \in Operators |-> NoOp] /\ operations' \in 0 .. MaxOperations
      /\ unit' \in [Names -> {"down", "starting", "up"}]
      /\ collided' \in BOOLEAN
      /\ ~collided' => ~collided /\ \A o \in Operators : op[o] = NoOp
      /\ UNCHANGED <<config, emptied, dotenv, rows, installed, reported, erased>>
  <2>1. operations' \in 0 .. MaxOperations
    BY TenantsAssumption DEF Reboot, TenantsInv, TenantsTypeOK
  <2>2. unit' \in [Names -> {"down", "starting", "up"}]
    BY DEF Reboot
  <2>3. /\ collided' \in BOOLEAN
        /\ ~collided' => ~collided /\ \A o \in Operators : op[o] = NoOp
    BY DEF Reboot, TenantsInv, TenantsTypeOK
  <2> QED BY <2>1, <2>2, <2>3 DEF Reboot
<1>2. \A o \in Operators : op'[o] = NoOp
  BY <1>1
<1>3. TenantsInv'
  BY <1>1, <1>2, NoOpIsOperation DEF TenantsInv, TenantsTypeOK, Operation, NoOp
<1>4. ASSUME ~collided' PROVE Orderly' /\ Retiring'
  BY <1>1, <1>2, <1>4, OverOrderly DEF Orderly, Retiring
<1> QED BY <1>3, <1>4 DEF Orderly, Retiring

LEMMA TenantsInductive ==
    /\ TenantsInit => TenantsIInv
    /\ TenantsIInv /\ [TenantsNext]_tenantVars => TenantsIInv'
<1>1. TenantsInit => TenantsIInv
  <2> SUFFICES ASSUME TenantsInit PROVE TenantsIInv
    OBVIOUS
  <2>1. \A o \in Operators : op[o] = NoOp
    BY DEF TenantsInit
  <2>2. TenantsInv
    <3>1. op \in [Operators -> Operation]
      BY NoOpIsOperation DEF TenantsInit
    <3>2. operations \in 0 .. MaxOperations
      BY TenantsAssumption DEF TenantsInit
    <3>3. unit \in [Names -> {"down", "starting", "up"}]
      BY DEF TenantsInit
    <3>4. config \in [Names -> States] /\ reported \in [Names -> States]
      BY DEF TenantsInit, States
    <3> QED BY <2>1, <3>1, <3>2, <3>3, <3>4
            DEF TenantsInit, TenantsInv, TenantsTypeOK, Operation
  <2>3. Orderly /\ Retiring
    BY <2>1, NoOpIsOperation DEF TenantsInit, Orderly, Retiring
  <2> QED BY <2>2, <2>3 DEF TenantsIInv
<1>2. ASSUME TenantsIInv, [TenantsNext]_tenantVars PROVE TenantsIInv'
  <2>1. ASSUME NEW o \in Operators, Begins_(o) PROVE TenantsIInv'
    BY <1>2, <2>1, BeginsKeepsInv
  <2>2. ASSUME NEW o \in Operators, NEW n \in Names, Onboard(o, n) PROVE TenantsIInv'
    BY <1>2, <2>1, <2>2, OnboardBegins DEF TenantsIInv
  <2>3. ASSUME NEW o \in Operators, NEW n \in Names, NEW units \in BOOLEAN, Activate(o, n, units)
        PROVE  TenantsIInv'
    BY <1>2, <2>1, <2>3, ActivateBegins DEF TenantsIInv
  <2>4. ASSUME NEW o \in Operators, NEW n \in Names, NEW units \in BOOLEAN, NEW erase \in BOOLEAN,
               Retire(o, n, erase, units)
        PROVE  TenantsIInv'
    BY <1>2, <2>1, <2>4, RetireBegins DEF TenantsIInv
  <2>5. ASSUME NEW o \in Operators,
               \/ \E n \in Names : InstallCredentials(o, n)
               \/ \E n \in Names, action \in {"start", "restart", "stop"} : ManageLive(o, n, action)
               \/ SyncConfig(o)
        PROVE  TenantsIInv'
    BY <1>2, <2>1, <2>5, OthersBegin DEF TenantsIInv
  <2>6. ASSUME NEW o \in Operators,
               EmptyFile(o) \/ FillFile(o) \/ SyncRows(o) \/ WriteDotenv(o) \/ RunUnit(o)
               \/ EraseRows(o) \/ CutOff(o)
        PROVE  TenantsIInv'
    BY <1>2, <2>6, EmptyFileKeepsInv, FillFileKeepsInv, SyncRowsKeepsInv, WriteDotenvKeepsInv,
       RunUnitKeepsInv, EraseRowsKeepsInv, CutOffKeepsInv
  <2>7. ASSUME NEW n \in Names, BootUnit(n) \/ UnitFails(n) PROVE TenantsIInv'
    BY <1>2, <2>7, UnitsKeepInv
  <2>8. CASE Reboot
    BY <1>2, <2>8, RebootKeepsInv
  <2>9. CASE UNCHANGED tenantVars
    BY <1>2, <2>9 DEF tenantVars, TenantsIInv, TenantsInv, TenantsTypeOK, Orderly, Retiring,
                      Writes, Wrote, NoOp, OnPath
  <2> QED BY <1>2, <2>2, <2>3, <2>4, <2>5, <2>6, <2>7, <2>8, <2>9 DEF TenantsNext
<1> QED BY <1>1, <1>2

(* Every variable of the tenants keeps its type, and every operation keeps *)
(* to its path (tenant_onboarding.py).                                     *)
THEOREM TenantsTypeCorrect == TenantsSpec => []TenantsTypeOK
<1>1. TenantsIInv => TenantsTypeOK
  BY DEF TenantsIInv, TenantsInv
<1> QED BY <1>1, TenantsInductive, PTL DEF TenantsSpec

(* Operations that run one at a time and are not cut leave the config file *)
(* as each of them reported it (scaffold_tenant, activate_tenant,          *)
(* retire_tenant).                                                         *)
THEOREM ConfigIsAsReported == TenantsSpec => []ConfigAsReported
<1>1. TenantsIInv => ConfigAsReported
  BY DEF TenantsIInv, Orderly, ConfigAsReported
<1> QED BY <1>1, TenantsInductive, PTL DEF TenantsSpec

(* A tenant that was retired with its units and rows is not brought back   *)
(* by its daemon, which wants it in the config (retire_tenant,             *)
(* cmd_mirror_daemon).                                                     *)
THEOREM ErasedTenantsStayErased == TenantsSpec => []ErasedStaysErased
<1>1. TenantsIInv => ErasedStaysErased
  BY DEF TenantsIInv, Retiring, ErasedStaysErased
<1> QED BY <1>1, TenantsInductive, PTL DEF TenantsSpec

-----------------------------------------------------------------------------
(* The managed environment *)

(* The steps a command goes through.                                       *)
OnCourse(c) ==
    \/ c = Idle
    \/ /\ c.name = "install"
       /\ c.at \in {"clear app", "copy", "pip", "migrate", "restart", "validate"}
    \/ /\ c.name = "update"
       /\ c.at \in {"drop previous", "keep app", "clear app", "copy", "pip", "pause",
                    "migrate", "restore", "restore and raise", "restart", "validate"}
    \/ /\ c.name = "rollback"
       /\ c.at \in {"drop swap", "park", "restore app", "keep swap", "pip", "restart",
                    "validate"}
    \/ /\ c.name = "uninstall"
       /\ c.at \in {"disable", "clear app", "drop previous", "drop venv"}

Command == [name : {"none", "install", "update", "rollback", "uninstall"},
            at : {"end", "clear app", "copy", "pip", "migrate", "restart", "validate",
                  "drop previous", "keep app", "pause", "restore", "restore and raise",
                  "drop swap", "park", "restore app", "keep swap", "disable", "drop venv"}]

EnvInv ==
    /\ EnvTypeOK
    /\ cmd \in Command /\ OnCourse(cmd)
    /\ failures <= commands /\ (cmd # Idle => failures < commands)

(* The snapshot that has the good version while nothing has failed: the    *)
(* one an update or a rollback has not got to yet, or has just filled.     *)
Holder ==
    IF cmd = Idle \/ cmd.at \in {"drop previous", "keep app", "drop swap", "park"} THEN app
    ELSE IF cmd.at \in {"restore app", "keep swap"} THEN swap
    ELSE previous

GoodKept ==
    /\ cmd.name \in {"install", "uninstall"} => good = 0
    /\ cmd.at \in {"pause", "migrate", "restore", "restore and raise", "restart", "validate"}
         => app.whole
    /\ (good # 0 /\ failures = 0) => Holder = Whole(good)
    /\ (good # 0 /\ failures = 1 /\ cmd = Idle) => Whole(good) \in {app, previous, swap}

(* While an update migrates, what came up since it paused the units runs   *)
(* what it installed.                                                      *)
UnitsKept ==
    /\ UnitsKeepUpWithSchema
    /\ cmd = [name |-> "update", at |-> "migrate"] =>
         \A u \in AllUnits : Up(u) => service[u].code >= Newer(schema, venv) \/ u \in behind

EnvIInv == EnvInv /\ GoodKept /\ UnitsKept

LEMMA RemovingType ==
    ASSUME NEW tree \in Trees
    PROVE  Removing(tree) \in Trees /\ ~Removing(tree).whole
<1>1. NoTree \in Trees /\ ~NoTree.whole
  BY UserEnvAssumption DEF NoTree, Trees
<1>2. tree.whole => Removing(tree) \in Trees /\ ~Removing(tree).whole
  BY DEF Removing, Trees
<1> QED BY <1>1, <1>2 DEF Removing

LEMMA WholeType ==
    ASSUME NEW v \in 0 .. MaxVersion
    PROVE  Whole(v) \in Trees /\ Whole(v).whole /\ Whole(v).version = v
BY DEF Whole, Trees

LEMMA NewerType ==
    ASSUME NEW v \in 0 .. MaxVersion, NEW w \in 0 .. MaxVersion
    PROVE  Newer(v, w) \in 0 .. MaxVersion /\ Newer(v, w) >= v /\ Newer(v, w) >= w
BY UserEnvAssumption DEF Newer

Serving == [is : {"down", "starting", "up"}, code : 0 .. MaxVersion]

LEMMA ServingType ==
    /\ Stopped \in Serving /\ Stopped.is # "up"
    /\ \A u : Starting(u) \in Serving /\ Starting(u).is # "up"
BY UserEnvAssumption DEF Stopped, Starting, Serving

(* A command stays where it is, goes on along its course or fails.         *)
Proceeds ==
    \/ cmd' = cmd /\ failures' = failures
    \/ /\ \E step \in {c.at : c \in Command} \ {"end"} :
             Go(step) /\ OnCourse([name |-> cmd.name, at |-> step])
       /\ failures' = failures
    \/ Fails

LEMMA ProceedsFacts ==
    ASSUME EnvInv, cmd # Idle, commands' = commands, Proceeds
    PROVE  /\ cmd' \in Command /\ OnCourse(cmd') /\ failures' \in 0 .. MaxCommands
           /\ failures' <= commands' /\ (cmd' # Idle => failures' < commands')
<1>1. failures \in Nat /\ commands \in Nat /\ commands <= MaxCommands /\ MaxCommands \in Nat
      /\ failures < commands
  BY UserEnvAssumption DEF EnvInv, EnvTypeOK
<1>2. CASE cmd' = cmd /\ failures' = failures
  BY <1>1, <1>2 DEF EnvInv
<1>3. CASE /\ \E step \in {c.at : c \in Command} \ {"end"} :
                 Go(step) /\ OnCourse([name |-> cmd.name, at |-> step])
           /\ failures' = failures
  <2> PICK step \in {c.at : c \in Command} : Go(step) /\ OnCourse([name |-> cmd.name, at |-> step])
    BY <1>3
  <2>1. cmd' = [name |-> cmd.name, at |-> step]
    BY DEF Go, EnvInv, Command
  <2>2. cmd' \in Command
    BY <2>1 DEF EnvInv, Command
  <2> QED BY <1>1, <1>3, <2>1, <2>2
<1>4. CASE Fails
  <2>1. Idle \in Command /\ OnCourse(Idle)
    BY DEF Idle, Command, OnCourse
  <2> QED BY <1>1, <1>4, <2>1 DEF Fails
<1> QED BY <1>1, <1>2, <1>3, <1>4 DEF Proceeds

LEMMA IdleIsAtEnd == \A c : c.at # "end" => c # Idle
BY DEF Idle

LEMMA BusyCommand ==
    ASSUME EnvInv, cmd.at # "end"
    PROVE  cmd # Idle
BY IdleIsAtEnd

LEMMA Goes ==
    ASSUME EnvInv, NEW step, Go(step), OnCourse([name |-> cmd.name, at |-> step]), step # "end",
           failures' = failures
    PROVE  Proceeds /\ cmd'.at = step /\ cmd'.name = cmd.name
<1>1. cmd' = [name |-> cmd.name, at |-> step]
  BY DEF Go, EnvInv, Command
<1>2. [name |-> cmd.name, at |-> step] \in Command
  BY DEF OnCourse, EnvInv, Command, Idle
<1>3. step \in {c.at : c \in Command} \ {"end"}
  BY <1>2
<1> QED BY <1>1, <1>3 DEF Proceeds

(* The steps of the commands, one after the other.                         *)
LEMMA NextStep ==
    ASSUME EnvInv, NEW step, Go(step), failures' = failures,
           \/ cmd.at = "drop previous" /\ step = (IF cmd.name = "update" THEN "keep app" ELSE "drop venv")
           \/ cmd.at = "keep app" /\ step = "clear app"
           \/ cmd.at = "clear app" /\ step = (IF cmd.name = "uninstall" THEN "drop previous" ELSE "copy")
           \/ cmd.at = "copy" /\ step = "pip"
           \/ cmd.at = "drop swap" /\ step = "park"
           \/ cmd.at = "park" /\ step = "restore app"
           \/ cmd.at = "restore app" /\ step = "keep swap"
           \/ cmd.at = "keep swap" /\ step = "pip"
           \/ cmd.at = "pip" /\ step = (IF cmd.name = "update" THEN "pause"
                                      ELSE IF cmd.name = "install" THEN "migrate" ELSE "restart")
           \/ cmd.at = "pause" /\ step = "migrate"
           \/ cmd.at = "migrate" /\ step = (IF cmd.name = "install" THEN "restart" ELSE "restore")
           \/ cmd.at = "migrate" /\ cmd.name # "install" /\ step = "restore and raise"
           \/ cmd.at = "restore" /\ step = "restart"
           \/ cmd.at = "restart" /\ step = "validate"
           \/ cmd.at = "disable" /\ step = "clear app"
    PROVE  Proceeds /\ cmd'.at = step /\ cmd'.name = cmd.name
<1>1. cmd # Idle
  <2>1. cmd.at # "end"
    OBVIOUS
  <2> QED BY <2>1, BusyCommand
<1>2. OnCourse(cmd)
  BY DEF EnvInv
<1>3. OnCourse([name |-> cmd.name, at |-> step]) /\ step # "end"
  BY <1>1, <1>2 DEF OnCourse
<1> QED BY <1>3, Goes

(* What a step of a command under way leaves is EnvInv again if it leaves  *)
(* the trees, the versions and the units of their types.                   *)
LEMMA EnvInvFrom ==
    ASSUME EnvInv, cmd # Idle, Proceeds, UNCHANGED <<commands, crashes, checkout, good>>,
           app' \in Trees, previous' \in Trees, swap' \in Trees,
           venv' \in 0 .. MaxVersion, schema' \in 0 .. MaxVersion,
           service' \in [AllUnits -> Serving], paused' \subseteq AllUnits, behind' \subseteq AllUnits
    PROVE  EnvInv'
<1>1. /\ cmd' \in Command /\ OnCourse(cmd') /\ failures' \in 0 .. MaxCommands
      /\ failures' <= commands' /\ (cmd' # Idle => failures' < commands')
  BY ProceedsFacts
<1> QED BY <1>1 DEF EnvInv, EnvTypeOK, Serving, Command

LEMMA TreesKeepEnvInv ==
    ASSUME EnvInv, DropPrevious \/ KeepApp \/ ClearApp \/ CopyCheckout \/ DropSwap \/ MoveTrees
    PROVE  EnvInv'
<1> USE DEF counts
<1>1. app \in Trees /\ previous \in Trees /\ swap \in Trees /\ NoTree \in Trees
      /\ Removing(app) \in Trees /\ Removing(previous) \in Trees /\ Removing(swap) \in Trees
      /\ venv \in 0 .. MaxVersion /\ schema \in 0 .. MaxVersion
      /\ service \in [AllUnits -> Serving] /\ paused \subseteq AllUnits /\ behind \subseteq AllUnits
  <2>1. NoTree \in Trees
    BY UserEnvAssumption DEF NoTree, Trees
  <2> QED BY <2>1, RemovingType DEF EnvInv, EnvTypeOK, Serving
<1>2. CASE DropPrevious
  <2>1. cmd # Idle
    BY <1>2, BusyCommand DEF DropPrevious
  <2>2. Proceeds
    <3>1. CASE UNCHANGED cmd
      BY <1>2, <3>1 DEF DropPrevious, Proceeds
    <3>2. CASE Go(IF cmd.name = "update" THEN "keep app" ELSE "drop venv")
      BY <1>2, <3>2, NextStep DEF DropPrevious
    <3> QED BY <1>2, <3>1, <3>2 DEF DropPrevious
  <2> QED BY <1>1, <1>2, <2>1, <2>2, EnvInvFrom DEF DropPrevious
<1>3. CASE KeepApp
  <2>1. cmd # Idle
    BY <1>3, BusyCommand DEF KeepApp
  <2>2. Proceeds
    BY <1>3, NextStep DEF KeepApp
  <2> QED BY <1>1, <1>3, <2>1, <2>2, EnvInvFrom DEF KeepApp, Kept
<1>4. CASE ClearApp
  <2>1. cmd # Idle
    BY <1>4, BusyCommand DEF ClearApp
  <2>2. Proceeds
    <3>1. CASE Fails \/ (UNCHANGED cmd /\ UNCHANGED failures)
      BY <3>1 DEF Proceeds
    <3>2. CASE Go(IF cmd.name = "uninstall" THEN "drop previous" ELSE "copy") /\ UNCHANGED failures
      BY <1>4, <3>2, NextStep DEF ClearApp
    <3> QED BY <1>4, <3>1, <3>2 DEF ClearApp
  <2> QED BY <1>1, <1>4, <2>1, <2>2, EnvInvFrom DEF ClearApp
<1>5. CASE CopyCheckout
  <2>1. cmd # Idle
    BY <1>5, BusyCommand DEF CopyCheckout
  <2>2. Proceeds
    <3>1. CASE UNCHANGED cmd /\ UNCHANGED failures
      BY <3>1 DEF Proceeds
    <3>2. CASE Go("pip") /\ UNCHANGED failures
      BY <1>5, <3>2, NextStep DEF CopyCheckout
    <3> QED BY <1>5, <3>1, <3>2 DEF CopyCheckout
  <2>3. app' \in Trees
    <3>1. checkout \in 0 .. MaxVersion /\ app.version \in 0 .. MaxVersion
      BY <1>1 DEF EnvInv, EnvTypeOK, Trees
    <3>2. [Whole(checkout) EXCEPT !.whole = FALSE] \in Trees
      BY <3>1 DEF Whole, Trees
    <3> QED BY <1>5, <3>1, <3>2, WholeType DEF CopyCheckout
  <2> QED BY <1>1, <1>5, <2>1, <2>2, <2>3, EnvInvFrom DEF CopyCheckout
<1>6. CASE DropSwap
  <2>1. cmd # Idle
    BY <1>6, BusyCommand DEF DropSwap
  <2>2. Proceeds
    <3>1. CASE UNCHANGED cmd
      BY <1>6, <3>1 DEF DropSwap, Proceeds
    <3>2. CASE Go("park")
      BY <1>6, <3>2, NextStep DEF DropSwap
    <3> QED BY <1>6, <3>1, <3>2 DEF DropSwap
  <2> QED BY <1>1, <1>6, <2>1, <2>2, EnvInvFrom DEF DropSwap
<1>7. CASE MoveTrees
  <2>1. cmd # Idle
    BY <1>7, BusyCommand DEF MoveTrees
  <2>2. Proceeds
    <3>1. CASE cmd.at = "park" /\ Go("restore app")
      BY <1>7, <3>1, NextStep DEF MoveTrees
    <3>2. CASE cmd.at = "restore app" /\ Go("keep swap")
      BY <1>7, <3>2, NextStep DEF MoveTrees
    <3>3. CASE cmd.at = "keep swap" /\ Go("pip")
      BY <1>7, <3>3, NextStep DEF MoveTrees
    <3> QED BY <1>7, <3>1, <3>2, <3>3 DEF MoveTrees
  <2>3. app' \in Trees /\ previous' \in Trees /\ swap' \in Trees
    BY <1>1, <1>7 DEF MoveTrees
  <2> QED BY <1>1, <1>7, <2>1, <2>2, <2>3, EnvInvFrom DEF MoveTrees
<1> QED BY <1>2, <1>3, <1>4, <1>5, <1>6, <1>7

LEMMA CommandKeepsEnvInv ==
    ASSUME EnvInv, PipInstall \/ Pause \/ Migrate \/ Restore \/ Restart \/ Disable
    PROVE  EnvInv'
<1> USE DEF counts
<1>1. app \in Trees /\ previous \in Trees /\ swap \in Trees
      /\ venv \in 0 .. MaxVersion /\ schema \in 0 .. MaxVersion
      /\ service \in [AllUnits -> Serving] /\ paused \subseteq AllUnits /\ behind \subseteq AllUnits
  BY DEF EnvInv, EnvTypeOK, Serving
<1>2. CASE PipInstall
  <2>1. cmd # Idle
    BY <1>2, BusyCommand DEF PipInstall
  <2>2. Proceeds
    <3>1. CASE Fails \/ (UNCHANGED cmd /\ UNCHANGED failures)
      BY <3>1 DEF Proceeds
    <3>2. CASE /\ Go(IF cmd.name = "update" THEN "pause"
                     ELSE IF cmd.name = "install" THEN "migrate" ELSE "restart")
               /\ UNCHANGED failures
      BY <1>2, <3>2, NextStep DEF PipInstall
    <3> QED BY <1>2, <3>1, <3>2 DEF PipInstall
  <2>3. venv' \in 0 .. MaxVersion
    BY <1>1, <1>2, UserEnvAssumption DEF PipInstall, Trees
  <2> QED BY <1>1, <1>2, <2>1, <2>2, <2>3, EnvInvFrom DEF PipInstall
<1>3. CASE Pause
  <2>1. cmd # Idle
    BY <1>3, BusyCommand DEF Pause
  <2>2. Proceeds
    BY <1>3, NextStep DEF Pause
  <2>3. service' \in [AllUnits -> Serving] /\ paused' \subseteq AllUnits
    BY <1>1, <1>3, ServingType DEF Pause, Pausable
  <2> QED BY <1>1, <1>3, <2>1, <2>2, <2>3, EnvInvFrom DEF Pause
<1>4. CASE Migrate
  <2>1. cmd # Idle
    BY <1>4, BusyCommand DEF Migrate
  <2>2. Proceeds
    <3>1. CASE Fails
      BY <3>1 DEF Proceeds
    <3>2. CASE Go(IF cmd.name = "install" THEN "restart" ELSE "restore") /\ UNCHANGED failures
      BY <1>4, <3>2, NextStep DEF Migrate
    <3>3. CASE cmd.name # "install" /\ Go("restore and raise") /\ UNCHANGED failures
      BY <1>4, <3>3, NextStep DEF Migrate
    <3> QED BY <1>4, <3>1, <3>2, <3>3 DEF Migrate
  <2>3. schema' \in 0 .. MaxVersion /\ behind' \subseteq AllUnits
    BY <1>1, <1>4, NewerType DEF Migrate, Left
  <2> QED BY <1>1, <1>4, <2>1, <2>2, <2>3, EnvInvFrom DEF Migrate
<1>5. CASE Restore
  <2>1. cmd # Idle
    BY <1>5, BusyCommand DEF Restore
  <2>2. Proceeds
    <3>1. CASE Fails
      BY <3>1 DEF Proceeds
    <3>2. CASE cmd.at = "restore" /\ Go("restart") /\ UNCHANGED failures
      BY <1>5, <3>2, NextStep DEF Restore
    <3> QED BY <1>5, <3>1, <3>2 DEF Restore
  <2>3. service' \in [AllUnits -> Serving] /\ paused' \subseteq AllUnits
    BY <1>1, <1>5, ServingType DEF Restore
  <2> QED BY <1>1, <1>5, <2>1, <2>2, <2>3, EnvInvFrom DEF Restore
<1>6. CASE Restart
  <2>1. cmd # Idle
    BY <1>6, BusyCommand DEF Restart
  <2>2. Proceeds
    BY <1>6, NextStep DEF Restart
  <2>3. service' \in [AllUnits -> Serving]
    BY <1>1, <1>6, ServingType DEF Restart
  <2> QED BY <1>1, <1>6, <2>1, <2>2, <2>3, EnvInvFrom DEF Restart
<1>7. CASE Disable
  <2>1. cmd # Idle
    BY <1>7, BusyCommand DEF Disable
  <2>2. Proceeds
    BY <1>7, NextStep DEF Disable
  <2>3. service' \in [AllUnits -> Serving]
    BY <1>1, <1>7, ServingType DEF Disable
  <2> QED BY <1>1, <1>7, <2>1, <2>2, <2>3, EnvInvFrom DEF Disable
<1> QED BY <1>2, <1>3, <1>4, <1>5, <1>6, <1>7

LEMMA OthersKeepEnvInv ==
    ASSUME EnvInv,
           \/ InstallEnv \/ UpdateEnv \/ RollbackEnv \/ UninstallEnv
           \/ Validate \/ Purge \/ Checkout \/ CutEnv
    PROVE  EnvInv'
<1> USE DEF counts
<1>1. /\ app \in Trees /\ failures \in Nat /\ commands \in Nat /\ MaxCommands \in Nat
      /\ commands <= MaxCommands /\ MaxVersion \in Nat
      /\ checkout \in 0 .. MaxVersion /\ venv \in 0 .. MaxVersion
      /\ schema \in 0 .. MaxVersion
  BY UserEnvAssumption DEF EnvInv, EnvTypeOK
<1>2. ASSUME NEW name \in {"install", "update", "rollback", "uninstall"}, NEW step,
             Begins(name, step), OnCourse([name |-> name, at |-> step])
      PROVE  EnvInv'
  <2>1. [name |-> name, at |-> step] \in Command
    BY <1>2 DEF OnCourse, Command, Idle
  <2>2. cmd' \in Command /\ OnCourse(cmd')
    BY <1>2, <2>1 DEF Begins
  <2>3. good' \in 0 .. MaxVersion
    BY <1>1, <1>2 DEF Begins, EnvInv, EnvTypeOK
  <2>4. commands' = commands + 1 /\ commands' <= MaxCommands
    BY <1>1, <1>2 DEF Begins
  <2>5. /\ failures' \in 0 .. MaxCommands /\ commands' \in 0 .. MaxCommands
        /\ failures' < commands'
    BY <1>1, <1>2, <2>4 DEF Begins, EnvInv
  <2>6. UNCHANGED <<checkout, app, previous, swap, venv, schema, service, paused, crashes, behind>>
    BY <1>2 DEF Begins
  <2>7. cmd'.name \in {"none", "install", "update", "rollback", "uninstall"}
    BY <2>2 DEF Command
  <2> QED BY <2>2, <2>3, <2>5, <2>6, <2>7 DEF EnvInv, EnvTypeOK
<1>3. CASE InstallEnv \/ UpdateEnv \/ RollbackEnv \/ UninstallEnv
  BY <1>2, <1>3 DEF InstallEnv, UpdateEnv, RollbackEnv, UninstallEnv, OnCourse
<1>4. Idle \in Command /\ OnCourse(Idle)
  BY DEF Idle, Command, OnCourse
<1>5. CASE Validate
  <2>1. cmd # Idle
    BY <1>5, BusyCommand DEF Validate
  <2>2. cmd' = Idle /\ failures' \in {0, failures + 1} /\ good' \in 0 .. MaxVersion
    BY <1>1, <1>5 DEF Validate, Fails, Trees, EnvInv, EnvTypeOK
  <2>3. failures' <= commands /\ failures' \in 0 .. MaxCommands
    BY <1>1, <2>1, <2>2 DEF EnvInv
  <2> QED BY <1>1, <1>4, <1>5, <2>2, <2>3 DEF Validate, EnvInv, EnvTypeOK, Idle
<1>6. CASE Purge
  <2>1. schema' = 0 \/ schema' = schema
    BY <1>6 DEF Purge
  <2>2. venv' = 0 /\ good' = 0 /\ failures' = 0 /\ cmd' = Idle
    BY <1>6 DEF Purge
  <2>3. UNCHANGED <<checkout, app, previous, swap, service, paused, commands, crashes, behind>>
    BY <1>6 DEF Purge
  <2>4. cmd'.name = "none" /\ 0 \in 0 .. MaxCommands
    BY <1>1, <2>2 DEF Idle
  <2>5. schema' \in 0 .. MaxVersion /\ 0 \in 0 .. MaxVersion
    BY <1>1, <2>1
  <2> QED BY <1>1, <1>4, <2>2, <2>3, <2>4, <2>5 DEF EnvInv, EnvTypeOK
<1>7. CASE Checkout
  BY <1>1, <1>7 DEF Checkout, EnvInv, EnvTypeOK
<1>8. CASE CutEnv
  <2>1. Proceeds /\ cmd # Idle
    BY <1>8 DEF CutEnv, Proceeds
  <2> QED BY <1>8, <2>1, EnvInvFrom DEF CutEnv, EnvInv, EnvTypeOK, Serving
<1> QED BY <1>3, <1>5, <1>6, <1>7, <1>8

LEMMA ServicesKeepEnvInv ==
    ASSUME EnvInv, NEW u \in AllUnits,
           StartUnit(u) \/ Connect(u) \/ CrashUnit(u) \/ StartTenant(u)
    PROVE  EnvInv'
<1> USE DEF counts
<1>1. /\ app \in Trees /\ venv \in 0 .. MaxVersion /\ schema \in 0 .. MaxVersion
      /\ service \in [AllUnits -> Serving] /\ behind \subseteq AllUnits /\ paused \subseteq AllUnits
      /\ crashes \in 0 .. MaxCrashes /\ MaxCrashes \in Nat
  BY UserEnvAssumption DEF EnvInv, EnvTypeOK, Serving
<1>2. UNCHANGED <<checkout, app, previous, swap, venv, cmd, paused, commands, good, failures>>
  BY DEF StartUnit, Connect, CrashUnit, StartTenant
<1>3. service' \in [AllUnits -> Serving]
  <2>1. [is |-> "up", code |-> venv] \in Serving
    BY <1>1 DEF Serving
  <2> QED BY <1>1, <2>1, ServingType DEF StartUnit, Connect, CrashUnit, StartTenant
<1>4. schema' \in 0 .. MaxVersion
  BY <1>1, NewerType DEF StartUnit, Connect, CrashUnit, StartTenant
<1>5. behind' \subseteq AllUnits
  BY <1>1 DEF StartUnit, Connect, CrashUnit, StartTenant, Left
<1>6. crashes' \in 0 .. MaxCrashes
  BY <1>1 DEF StartUnit, Connect, CrashUnit, StartTenant
<1> QED BY <1>2, <1>3, <1>4, <1>5, <1>6 DEF EnvInv, EnvTypeOK, Serving

(* No command that fails has touched the snapshots in that step.           *)
LEMMA FailsKeepsGood ==
    ASSUME EnvInv, GoodKept, cmd # Idle, Fails, UNCHANGED <<app, previous, swap, good>>
    PROVE  GoodKept'
<1>1. cmd'.name = "none" /\ cmd'.at = "end" /\ cmd' = Idle
  BY DEF Fails, Idle
<1>2. failures \in Nat /\ failures' = failures + 1
  BY UserEnvAssumption DEF Fails, EnvInv, EnvTypeOK
<1>3. (good # 0 /\ failures = 0) => Whole(good) \in {app, previous, swap}
  BY DEF GoodKept, Holder
<1>4. Whole(good)' = Whole(good)
  BY DEF Whole
<1>5. failures' # 0 /\ (failures' = 1 => failures = 0)
  BY <1>2
<1> QED BY <1>1, <1>3, <1>4, <1>5 DEF GoodKept

(* One that goes on, or stays at its step, has the good version where it   *)
(* is to be there.                                                         *)
LEMMA GoesKeepsGood ==
    ASSUME EnvInv, GoodKept, cmd' # Idle, cmd'.name = cmd.name,
           UNCHANGED <<good, failures>>,
           cmd'.at \in {"pause", "migrate", "restore", "restore and raise", "restart", "validate"}
             => app'.whole,
           (good # 0 /\ failures = 0) => Holder' = Whole(good)
    PROVE  GoodKept'
<1>1. Whole(good)' = Whole(good) /\ Idle' = Idle
  BY DEF Whole, Idle
<1> QED BY <1>1 DEF GoodKept

LEMMA UntouchedKeepsGood ==
    ASSUME GoodKept, UNCHANGED <<app, previous, swap, good, failures, cmd>>
    PROVE  GoodKept'
BY DEF GoodKept, Holder, Whole, Idle

LEMMA TreesKeepGood ==
    ASSUME EnvInv, GoodKept,
           DropPrevious \/ KeepApp \/ ClearApp \/ CopyCheckout \/ DropSwap \/ MoveTrees
    PROVE  GoodKept'
<1> USE DEF counts
<1>1. CASE DropPrevious
  <2>1. cmd.at = "drop previous" /\ cmd # Idle /\ UNCHANGED <<app, swap, good, failures>>
    BY <1>1, BusyCommand DEF DropPrevious
  <2>2. \/ cmd' = cmd
        \/ /\ cmd'.at = (IF cmd.name = "update" THEN "keep app" ELSE "drop venv")
           /\ cmd'.name = cmd.name
    BY <1>1, NextStep DEF DropPrevious
  <2>3. cmd' # Idle /\ cmd'.name = cmd.name
    BY <2>1, <2>2, IdleIsAtEnd
  <2>4. cmd.name \in {"update", "uninstall"}
    BY <2>1 DEF EnvInv, OnCourse, Idle
  <2>5. (good # 0 /\ failures = 0) => Holder' = Whole(good)
    BY <2>1, <2>2, <2>3, <2>4 DEF GoodKept, Holder, Idle
  <2> QED BY <2>1, <2>2, <2>3, <2>5, GoesKeepsGood
<1>2. CASE KeepApp
  <2>1. cmd.at = "keep app" /\ cmd # Idle /\ UNCHANGED <<swap, good, failures>>
        /\ previous' = Kept /\ app' = NoTree
    BY <1>2, BusyCommand DEF KeepApp
  <2>2. cmd'.at = "clear app" /\ cmd'.name = cmd.name
    BY <1>2, NextStep DEF KeepApp
  <2>3. cmd' # Idle
    BY <2>2, IdleIsAtEnd
  <2>4. (good # 0 /\ failures = 0) => Holder' = Whole(good)
    <3> SUFFICES ASSUME good # 0, failures = 0 PROVE Holder' = Whole(good)
      OBVIOUS
    <3>1. app = Whole(good)
      BY <2>1 DEF GoodKept, Holder
    <3>2. Kept = Whole(good)
      BY <3>1 DEF Kept, NoTree, Whole
    <3>3. Holder' = previous'
      BY <2>2, <2>3 DEF Holder, Idle
    <3> QED BY <2>1, <3>2, <3>3
  <2> QED BY <2>1, <2>2, <2>3, <2>4, GoesKeepsGood
<1>3. CASE ClearApp
  <2>1. cmd.at = "clear app" /\ cmd # Idle /\ UNCHANGED <<previous, swap, good>>
    BY <1>3, BusyCommand DEF ClearApp
  <2>2. CASE Fails /\ UNCHANGED app
    BY <2>1, <2>2, FailsKeepsGood
  <2>3. CASE UNCHANGED failures /\
             \/ cmd' = cmd
             \/ Go(IF cmd.name = "uninstall" THEN "drop previous" ELSE "copy")
    <3>1. \/ cmd' = cmd
          \/ /\ cmd'.at = (IF cmd.name = "uninstall" THEN "drop previous" ELSE "copy")
             /\ cmd'.name = cmd.name
      BY <2>1, <2>3, NextStep
    <3>2. cmd' # Idle /\ cmd'.name = cmd.name
      BY <2>1, <3>1, IdleIsAtEnd
    <3>3. (good # 0 /\ failures = 0) => Holder' = Whole(good)
      BY <2>1, <2>3, <3>1, <3>2 DEF GoodKept, Holder, Idle
    <3> QED BY <2>1, <2>3, <3>1, <3>2, <3>3, GoesKeepsGood
  <2> QED BY <1>3, <2>2, <2>3 DEF ClearApp
<1>4. CASE CopyCheckout
  <2>1. cmd.at = "copy" /\ cmd # Idle /\ UNCHANGED <<previous, swap, good, failures>>
    BY <1>4, BusyCommand DEF CopyCheckout
  <2>2. cmd' = cmd \/ (cmd'.at = "pip" /\ cmd'.name = cmd.name)
    BY <1>4, <2>1, NextStep DEF CopyCheckout
  <2>3. cmd' # Idle /\ cmd'.name = cmd.name
    BY <2>1, <2>2, IdleIsAtEnd
  <2>4. (good # 0 /\ failures = 0) => Holder' = Whole(good)
    BY <2>1, <2>2, <2>3 DEF GoodKept, Holder, Idle
  <2> QED BY <2>1, <2>2, <2>3, <2>4, GoesKeepsGood
<1>5. CASE DropSwap
  <2>1. cmd.at = "drop swap" /\ cmd # Idle /\ UNCHANGED <<app, previous, good, failures>>
    BY <1>5, BusyCommand DEF DropSwap
  <2>2. cmd' = cmd \/ (cmd'.at = "park" /\ cmd'.name = cmd.name)
    BY <1>5, <2>1, NextStep DEF DropSwap
  <2>3. cmd' # Idle /\ cmd'.name = cmd.name
    BY <2>1, <2>2, IdleIsAtEnd
  <2>4. (good # 0 /\ failures = 0) => Holder' = Whole(good)
    BY <2>1, <2>2, <2>3 DEF GoodKept, Holder, Idle
  <2> QED BY <2>1, <2>2, <2>3, <2>4, GoesKeepsGood
<1>6. CASE MoveTrees
  <2>1. cmd # Idle /\ UNCHANGED <<good, failures>>
    BY <1>6, BusyCommand DEF MoveTrees
  <2>2. \/ /\ cmd.at = "park" /\ swap' = app
           /\ cmd'.at = "restore app" /\ cmd'.name = cmd.name
        \/ /\ cmd.at = "restore app" /\ UNCHANGED swap
           /\ cmd'.at = "keep swap" /\ cmd'.name = cmd.name
        \/ /\ cmd.at = "keep swap" /\ previous' = swap
           /\ cmd'.at = "pip" /\ cmd'.name = cmd.name
    <3>1. CASE cmd.at = "park" /\ swap' = app /\ Go("restore app")
      BY <2>1, <3>1, NextStep
    <3>2. CASE cmd.at = "restore app" /\ UNCHANGED swap /\ Go("keep swap")
      BY <2>1, <3>2, NextStep
    <3>3. CASE cmd.at = "keep swap" /\ previous' = swap /\ Go("pip")
      BY <2>1, <3>3, NextStep
    <3> QED BY <1>6, <3>1, <3>2, <3>3 DEF MoveTrees
  <2>3. cmd' # Idle /\ cmd'.name = cmd.name
    BY <2>1, <2>2, IdleIsAtEnd
  <2>4. (good # 0 /\ failures = 0) => Holder' = Whole(good)
    BY <2>1, <2>2, <2>3 DEF GoodKept, Holder, Idle
  <2>5. cmd'.at \notin {"pause", "migrate", "restore", "restore and raise", "restart", "validate"}
    BY <2>2
  <2> QED BY <2>1, <2>3, <2>4, <2>5, GoesKeepsGood
<1> QED BY <1>1, <1>2, <1>3, <1>4, <1>5, <1>6

LEMMA CommandKeepsGood ==
    ASSUME EnvInv, GoodKept, PipInstall \/ Pause \/ Migrate \/ Restore \/ Restart \/ Disable
    PROVE  GoodKept'
<1> USE DEF counts
<1>1. UNCHANGED <<app, previous, swap, good>> /\ cmd # Idle
  BY BusyCommand DEF PipInstall, Pause, Migrate, Restore, Restart, Disable
<1>2. CASE Fails
  BY <1>1, <1>2, FailsKeepsGood
<1>3. ASSUME cmd' # Idle, cmd'.name = cmd.name, UNCHANGED failures,
             cmd.at \in {"pip", "pause", "migrate", "restore", "restart"},
             cmd'.at \in {"pip", "pause", "migrate", "restore", "restore and raise", "restart",
                          "validate"},
             cmd'.at # "pip" => app.whole
      PROVE  GoodKept'
  <2>1. (good # 0 /\ failures = 0) => Holder' = Whole(good)
    BY <1>1, <1>3 DEF GoodKept, Holder, Idle
  <2> QED BY <1>1, <1>3, <2>1, GoesKeepsGood
<1>4. CASE PipInstall
  <2>1. CASE UNCHANGED <<cmd, failures>>
    BY <1>1, <2>1, UntouchedKeepsGood
  <2>2. CASE /\ app.whole /\ UNCHANGED failures
             /\ Go(IF cmd.name = "update" THEN "pause"
                   ELSE IF cmd.name = "install" THEN "migrate" ELSE "restart")
    <3>1. cmd.at = "pip"
      BY <1>4 DEF PipInstall
    <3>2. cmd'.name = cmd.name /\ cmd'.at \in {"pause", "migrate", "restart"}
      BY <2>2, <3>1, NextStep
    <3> QED BY <1>3, <2>2, <3>1, <3>2, IdleIsAtEnd
  <2> QED BY <1>2, <1>4, <2>1, <2>2 DEF PipInstall
<1>5. CASE Pause
  <2>1. cmd.at = "pause" /\ cmd'.name = cmd.name /\ cmd'.at = "migrate" /\ UNCHANGED failures
    BY <1>5, NextStep DEF Pause
  <2> QED BY <1>3, <2>1, IdleIsAtEnd DEF GoodKept
<1>6. CASE Migrate
  <2>1. CASE UNCHANGED failures
    <3>1. /\ cmd.at = "migrate" /\ cmd'.name = cmd.name
          /\ cmd'.at \in {"restart", "restore", "restore and raise"}
      <4>1. CASE Go(IF cmd.name = "install" THEN "restart" ELSE "restore")
        BY <1>6, <2>1, <4>1, NextStep DEF Migrate
      <4>2. CASE cmd.name # "install" /\ Go("restore and raise")
        BY <1>6, <2>1, <4>2, NextStep DEF Migrate
      <4>3. ~Fails
        BY <2>1, UserEnvAssumption DEF Fails, EnvInv, EnvTypeOK
      <4> QED BY <1>6, <4>1, <4>2, <4>3 DEF Migrate
    <3> QED BY <1>3, <2>1, <3>1, IdleIsAtEnd DEF GoodKept
  <2> QED BY <1>2, <1>6, <2>1 DEF Migrate
<1>7. CASE Restore
  <2>1. CASE cmd.at = "restore" /\ Go("restart") /\ UNCHANGED failures
    <3>1. cmd'.name = cmd.name /\ cmd'.at = "restart"
      BY <2>1, NextStep
    <3> QED BY <1>3, <2>1, <3>1, IdleIsAtEnd DEF GoodKept
  <2> QED BY <1>2, <1>7, <2>1 DEF Restore
<1>8. CASE Restart
  <2>1. cmd.at = "restart" /\ cmd'.name = cmd.name /\ cmd'.at = "validate" /\ UNCHANGED failures
    BY <1>8, NextStep DEF Restart
  <2> QED BY <1>3, <2>1, IdleIsAtEnd DEF GoodKept
<1>9. CASE Disable
  <2>1. cmd.at = "disable" /\ cmd'.name = cmd.name /\ cmd'.at = "clear app" /\ UNCHANGED failures
    BY <1>9, NextStep DEF Disable
  <2>2. cmd.name = "uninstall"
    BY <2>1, <1>1 DEF EnvInv, OnCourse, Idle
  <2>3. good = 0 /\ cmd' # Idle
    BY <2>1, <2>2, IdleIsAtEnd DEF GoodKept
  <2> QED BY <1>1, <2>1, <2>3, GoesKeepsGood
<1> QED BY <1>4, <1>5, <1>6, <1>7, <1>8, <1>9

LEMMA OthersKeepGood ==
    ASSUME EnvInv, GoodKept,
           \/ InstallEnv \/ UpdateEnv \/ RollbackEnv \/ UninstallEnv
           \/ Validate \/ Purge \/ Checkout \/ CutEnv
    PROVE  GoodKept'
<1> USE DEF counts
<1>1. ASSUME NEW name \in {"install", "update", "rollback", "uninstall"},
             NEW step \in {"clear app", "drop previous", "drop swap", "disable"},
             Begins(name, step),
             name \in {"install", "uninstall"} \/ step \in {"drop previous", "drop swap"}
      PROVE  GoodKept'
  <2>1. /\ cmd'.name = name /\ cmd'.at = step /\ cmd' # Idle /\ cmd = Idle
        /\ UNCHANGED <<app, previous, swap, failures>>
        /\ good' = IF name \in {"install", "uninstall"} THEN 0 ELSE good
    BY <1>1 DEF Begins, Idle
  <2>2. (good' # 0 /\ failures' = 0) => Holder' = Whole(good')
    BY <1>1, <2>1 DEF GoodKept, Holder, Idle
  <2>3. Idle' = Idle /\ Whole(good') = Whole(good)'
    BY DEF Idle, Whole
  <2> QED BY <1>1, <2>1, <2>2, <2>3 DEF GoodKept
<1>2. CASE InstallEnv \/ UpdateEnv \/ RollbackEnv \/ UninstallEnv
  BY <1>1, <1>2 DEF InstallEnv, UpdateEnv, RollbackEnv, UninstallEnv
<1>3. CASE Validate
  <2>1. cmd # Idle /\ cmd.at = "validate" /\ UNCHANGED <<app, previous, swap>>
    BY <1>3, BusyCommand DEF Validate
  <2>2. CASE Fails /\ UNCHANGED good
    BY <2>1, <2>2, FailsKeepsGood
  <2>3. CASE cmd' = Idle /\ good' = app.version /\ failures' = 0
    <3>1. app = Whole(app.version)
      BY <2>1 DEF GoodKept, EnvInv, EnvTypeOK, Trees, Whole
    <3>2. Whole(good)' = app' /\ Idle' = Idle /\ cmd'.name = "none" /\ cmd'.at = "end"
      BY <2>1, <2>3, <3>1 DEF Whole, Idle
    <3> QED BY <2>3, <3>2 DEF GoodKept, Holder
  <2> QED BY <1>3, <2>2, <2>3 DEF Validate
<1>4. CASE Purge
  <2>1. good' = 0 /\ cmd'.name = "none" /\ cmd'.at = "end"
    BY <1>4 DEF Purge, Idle
  <2> QED BY <2>1 DEF GoodKept
<1>5. CASE Checkout
  BY <1>5, UntouchedKeepsGood DEF Checkout
<1>6. CASE CutEnv
  BY <1>6, FailsKeepsGood DEF CutEnv
<1> QED BY <1>2, <1>3, <1>4, <1>5, <1>6

LEMMA ServicesKeepGood ==
    ASSUME GoodKept, NEW u \in AllUnits,
           StartUnit(u) \/ Connect(u) \/ CrashUnit(u) \/ StartTenant(u)
    PROVE  GoodKept'
BY UntouchedKeepsGood DEF StartUnit, Connect, CrashUnit, StartTenant, counts

Migrating == [name |-> "update", at |-> "migrate"]

LEMMA MigratingIsUpdate == \A c : (c.at # "migrate" \/ c.name # "update") => c # Migrating
BY DEF Migrating

(* A step that brings no unit up, migrates nothing and begins no update's  *)
(* migration.                                                              *)
LEMMA QuietKeepsUnits ==
    ASSUME EnvInv, UnitsKept, behind' = behind, schema' = schema \/ schema' = 0,
           \A u \in AllUnits : Up(u)' => Up(u) /\ service'[u] = service[u],
           cmd' = Migrating => cmd = Migrating /\ venv' = venv /\ schema' = schema
    PROVE  UnitsKept'
<1>1. /\ schema \in Nat /\ schema' \in Nat /\ schema' <= schema
      /\ \A u \in AllUnits : service[u].code \in Nat
  BY UserEnvAssumption DEF EnvInv, EnvTypeOK
<1>2. UnitsKeepUpWithSchema'
  BY <1>1 DEF UnitsKept, UnitsKeepUpWithSchema
<1>3. ASSUME cmd' = Migrating, NEW u \in AllUnits, Up(u)'
      PROVE  service'[u].code >= Newer(schema', venv') \/ u \in behind'
  <2>1. cmd = [name |-> "update", at |-> "migrate"]
    BY <1>3 DEF Migrating
  <2> QED BY <1>3, <2>1 DEF UnitsKept
<1>4. Newer(schema, venv)' = Newer(schema', venv')
  BY DEF Newer
<1> QED BY <1>2, <1>3, <1>4 DEF UnitsKept, Migrating

(* One that does not leave an update about to migrate, and marks whoever   *)
(* the new schema leaves behind.                                           *)
LEMMA MarkingKeepsUnits ==
    ASSUME EnvInv, UnitsKept,
           \A u \in AllUnits : Up(u)' => service'[u].code >= schema' \/ u \in behind',
           cmd' = Migrating => Newer(schema', venv') = schema'
    PROVE  UnitsKept'
<1>1. Newer(schema, venv)' = Newer(schema', venv')
  BY DEF Newer
<1> QED BY <1>1 DEF UnitsKept, UnitsKeepUpWithSchema, Migrating

LEMMA CommandKeepsUnits ==
    ASSUME EnvInv, UnitsKept, PipInstall \/ Pause \/ Migrate \/ Restore \/ Restart \/ Disable
    PROVE  UnitsKept'
<1> USE DEF counts
<1>1. Stopped.is # "up" /\ \A u : Starting(u).is # "up"
  BY ServingType
<1>2. CASE PipInstall
  <2>1. UNCHANGED <<schema, service, behind>>
    BY <1>2 DEF PipInstall
  <2>2. cmd' # Migrating
    <3>1. cmd.at = "pip"
      BY <1>2 DEF PipInstall
    <3>2. CASE Fails \/ UNCHANGED cmd
      BY <3>1, <3>2 DEF Fails, Idle, Migrating
    <3>3. CASE Go(IF cmd.name = "update" THEN "pause"
                  ELSE IF cmd.name = "install" THEN "migrate" ELSE "restart") /\ UNCHANGED failures
      BY <3>1, <3>3, NextStep DEF Migrating
    <3> QED BY <1>2, <3>2, <3>3 DEF PipInstall
  <2> QED BY <2>1, <2>2, QuietKeepsUnits DEF Up
<1>3. CASE Pause
  <2>1. \A u \in AllUnits : ~Up(u)'
    BY <1>1, <1>3 DEF Pause, Pausable, Up
  <2> QED BY <2>1 DEF UnitsKept, UnitsKeepUpWithSchema
<1>4. CASE Migrate
  <2>1. service' = service /\ venv' = venv /\ cmd.at = "migrate"
    BY <1>4 DEF Migrate
  <2>2. cmd' # Migrating
    <3>1. CASE Fails
      BY <3>1 DEF Fails, Idle, Migrating
    <3>2. CASE Go(IF cmd.name = "install" THEN "restart" ELSE "restore") /\ UNCHANGED failures
      <4>1. cmd'.at \in {"restart", "restore"}
        BY <2>1, <3>2, NextStep
      <4> QED BY <4>1, MigratingIsUpdate
    <3>3. CASE cmd.name # "install" /\ Go("restore and raise") /\ UNCHANGED failures
      <4>1. cmd'.at = "restore and raise"
        BY <2>1, <3>3, NextStep
      <4> QED BY <4>1, MigratingIsUpdate
    <3> QED BY <1>4, <3>1, <3>2, <3>3 DEF Migrate
  <2>3. CASE UNCHANGED <<schema, behind>>
    BY <2>1, <2>2, <2>3, QuietKeepsUnits DEF Up
  <2>4. CASE /\ schema' = Newer(schema, venv)
             /\ behind' = IF cmd.name = "install" THEN behind \union Left(schema') ELSE behind
    <3>1. schema' \in Nat /\ \A u \in AllUnits : service[u].code \in Nat
      BY <2>4, NewerType, UserEnvAssumption DEF EnvInv, EnvTypeOK
    <3>2. CASE cmd.name = "install"
      <4>1. \A u \in AllUnits : Up(u)' => service'[u].code >= schema' \/ u \in behind'
        BY <2>1, <2>4, <3>1, <3>2 DEF Left, Up
      <4> QED BY <2>2, <4>1, MarkingKeepsUnits
    <3>3. CASE cmd.name # "install"
      <4>1. cmd = [name |-> "update", at |-> "migrate"]
        <5>1. cmd # Idle
          BY <2>1, BusyCommand
        <5>2. cmd.name = "update"
          BY <2>1, <3>3, <5>1 DEF EnvInv, OnCourse
        <5> QED BY <2>1, <5>2 DEF EnvInv, Command
      <4>2. \A u \in AllUnits : Up(u) => service[u].code >= Newer(schema, venv) \/ u \in behind
        BY <4>1 DEF UnitsKept
      <4>3. \A u \in AllUnits : Up(u)' => service'[u].code >= schema' \/ u \in behind'
        BY <2>1, <2>4, <3>3, <4>2 DEF Up
      <4> QED BY <2>2, <4>3, MarkingKeepsUnits
    <3> QED BY <3>2, <3>3
  <2> QED BY <1>4, <2>3, <2>4 DEF Migrate
<1>5. ASSUME UNCHANGED <<schema, behind>>, cmd' # Migrating,
             \A u \in AllUnits : service'[u] # service[u] => service'[u].is # "up"
      PROVE  UnitsKept'
  BY <1>5, QuietKeepsUnits DEF Up
<1>6. CASE Restore
  <2>1. cmd' # Migrating
    <3>1. CASE Fails
      BY <3>1 DEF Fails, Idle, Migrating
    <3>2. CASE cmd.at = "restore" /\ Go("restart") /\ UNCHANGED failures
      BY <3>2, NextStep DEF Migrating
    <3> QED BY <1>6, <3>1, <3>2 DEF Restore
  <2> QED BY <1>1, <1>5, <1>6, <2>1 DEF Restore
<1>7. CASE Restart
  <2>1. cmd'.at = "validate"
    BY <1>7, NextStep DEF Restart
  <2> QED BY <1>1, <1>5, <1>7, <2>1 DEF Restart, Migrating
<1>8. CASE Disable
  <2>1. cmd'.at = "clear app"
    BY <1>8, NextStep DEF Disable
  <2>2. cmd' # Migrating
    BY <2>1, MigratingIsUpdate
  <2>3. UNCHANGED <<schema, behind>>
        /\ \A u \in AllUnits : service'[u] # service[u] => service'[u].is # "up"
    BY <1>1, <1>8 DEF Disable
  <2> QED BY <1>5, <2>2, <2>3
<1> QED BY <1>2, <1>3, <1>4, <1>6, <1>7, <1>8

LEMMA TreesKeepUnits ==
    ASSUME EnvInv, UnitsKept,
           DropPrevious \/ KeepApp \/ ClearApp \/ CopyCheckout \/ DropSwap \/ MoveTrees
    PROVE  UnitsKept'
<1>1. UNCHANGED <<venv, schema, service, behind>>
  BY DEF DropPrevious, KeepApp, ClearApp, CopyCheckout, DropSwap, MoveTrees
<1>2. cmd.at # "migrate"
  BY DEF DropPrevious, KeepApp, ClearApp, CopyCheckout, DropSwap, MoveTrees
<1>3. \/ cmd' = cmd \/ cmd' = Idle
      \/ \E step : step # "migrate" /\ Go(step)
  BY DEF DropPrevious, KeepApp, ClearApp, CopyCheckout, DropSwap, MoveTrees, Fails
<1>4. cmd \in Command
  BY DEF EnvInv
<1>5. cmd' # Migrating
  <2>1. CASE cmd' = cmd \/ cmd' = Idle
    BY <1>2, <2>1 DEF Idle, Migrating
  <2>2. ASSUME NEW step, step # "migrate", Go(step) PROVE cmd' # Migrating
    BY <1>4, <2>2 DEF Go, Migrating, Command
  <2> QED BY <1>3, <2>1, <2>2
<1> QED BY <1>1, <1>5, QuietKeepsUnits DEF Up

LEMMA OthersKeepUnits ==
    ASSUME EnvInv, UnitsKept,
           \/ InstallEnv \/ UpdateEnv \/ RollbackEnv \/ UninstallEnv
           \/ Validate \/ Purge \/ Checkout \/ CutEnv
    PROVE  UnitsKept'
<1> USE DEF counts
<1>1. UNCHANGED <<service, behind>> /\ (schema' = schema \/ schema' = 0)
  BY DEF InstallEnv, UpdateEnv, RollbackEnv, UninstallEnv, Begins, Validate, Purge, Checkout, CutEnv
<1>2. cmd' # Migrating
  <2>1. CASE InstallEnv \/ UpdateEnv \/ RollbackEnv \/ UninstallEnv
    <3>1. cmd'.at # "migrate"
      <4>1. \A name, step : Begins(name, step) => cmd'.at = step
        BY DEF Begins
      <4> QED BY <2>1, <4>1 DEF InstallEnv, UpdateEnv, RollbackEnv, UninstallEnv
    <3> QED BY <3>1, MigratingIsUpdate
  <2>2. CASE Validate \/ Purge \/ Checkout \/ CutEnv
    <3>1. cmd' = Idle
      BY <2>2 DEF Validate, Purge, Checkout, CutEnv, Fails
    <3>2. cmd'.at # "migrate"
      BY <3>1 DEF Idle
    <3> QED BY <3>2, MigratingIsUpdate
  <2> QED BY <2>1, <2>2
<1> QED BY <1>1, <1>2, QuietKeepsUnits DEF Up

LEMMA ServicesKeepUnits ==
    ASSUME EnvInv, UnitsKept, NEW u \in AllUnits,
           StartUnit(u) \/ Connect(u) \/ CrashUnit(u) \/ StartTenant(u)
    PROVE  UnitsKept'
<1> USE DEF counts
<1>1. /\ venv \in Nat /\ schema \in Nat /\ \A v \in AllUnits : service[v].code \in Nat
      /\ service \in [AllUnits -> Serving] /\ cmd' = cmd /\ venv' = venv
  BY UserEnvAssumption DEF EnvInv, EnvTypeOK, Serving, StartUnit, Connect, CrashUnit, StartTenant
<1>2. CASE StartUnit(u)
  <2>1. /\ service' = [service EXCEPT ![u] = [is |-> "up", code |-> venv]]
        /\ schema' = Newer(schema, venv)
        /\ behind' = (IF venv < schema THEN behind \union {u} ELSE behind \ {u})
                     \union Left(schema')
    BY <1>2 DEF StartUnit
  <2>2. schema' \in Nat /\ Newer(schema', venv') = schema' /\ (venv >= schema => schema' = venv)
    BY <1>1, <2>1 DEF Newer
  <2>3. service'[u].code = venv
    BY <1>1, <2>1
  <2>4. service'[u].code >= schema' \/ u \in behind'
    BY <1>1, <2>1, <2>2, <2>3
  <2>5. ASSUME NEW v \in AllUnits, v # u, Up(v)'
        PROVE  service'[v].code >= schema' \/ v \in behind'
    <3>1. service'[v] = service[v] /\ Up(v)
      BY <1>1, <2>1, <2>5 DEF Up
    <3> QED BY <1>1, <2>1, <2>2, <3>1 DEF Left
  <2> QED BY <2>2, <2>4, <2>5, MarkingKeepsUnits
<1>3. CASE Connect(u)
  <2>1. schema' = venv /\ behind' = behind \union Left(venv) /\ service' = service
    BY <1>3 DEF Connect
  <2>2. \A v \in AllUnits : Up(v)' => service'[v].code >= schema' \/ v \in behind'
    BY <1>1, <2>1 DEF Left, Up
  <2>3. Newer(schema', venv') = schema'
    BY <1>1, <2>1 DEF Newer
  <2> QED BY <2>2, <2>3, MarkingKeepsUnits
<1>4. CASE CrashUnit(u) \/ StartTenant(u)
  <2>1. service' = [service EXCEPT ![u] = Starting(u)] /\ UNCHANGED <<schema, behind>>
    BY <1>4 DEF CrashUnit, StartTenant
  <2>2. \A v \in AllUnits : Up(v)' => Up(v) /\ service'[v] = service[v]
    BY <1>1, <2>1, ServingType DEF Up
  <2> QED BY <1>1, <2>1, <2>2, QuietKeepsUnits
<1> QED BY <1>2, <1>3, <1>4

LEMMA EnvInductive ==
    /\ EnvInit => EnvIInv
    /\ EnvIInv /\ [EnvNext]_envVars => EnvIInv'
<1>1. ASSUME EnvInit PROVE EnvIInv
  <2>1. /\ NoTree \in Trees /\ Idle \in Command /\ OnCourse(Idle) /\ Stopped \in Serving
        /\ MaxVersion \in Nat \ {0} /\ MaxCommands \in Nat /\ MaxCrashes \in Nat
    <3>1. NoTree \in Trees
      BY UserEnvAssumption DEF NoTree, Trees
    <3> QED BY <3>1, ServingType, UserEnvAssumption DEF Idle, Command, OnCourse
  <2>2. EnvInv
    <3>1. service \in [AllUnits -> Serving]
      BY <1>1, <2>1 DEF EnvInit
    <3>2. cmd.name = "none" /\ cmd = Idle
      BY <1>1 DEF EnvInit, Idle
    <3> QED BY <1>1, <2>1, <3>1, <3>2 DEF EnvInit, EnvInv, EnvTypeOK, Serving
  <2>3. GoodKept
    BY <1>1 DEF EnvInit, GoodKept, Idle
  <2>4. \A u \in AllUnits : ~Up(u)
    BY <1>1 DEF EnvInit, Up, Stopped
  <2> QED BY <2>2, <2>3, <2>4 DEF EnvIInv, UnitsKept, UnitsKeepUpWithSchema
<1>2. ASSUME EnvIInv, EnvNext PROVE EnvIInv'
  <2>1. EnvInv /\ GoodKept /\ UnitsKept
    BY <1>2 DEF EnvIInv
  <2>2. CASE DropPrevious \/ KeepApp \/ ClearApp \/ CopyCheckout \/ DropSwap \/ MoveTrees
    BY <2>1, <2>2, TreesKeepEnvInv, TreesKeepGood, TreesKeepUnits DEF EnvIInv
  <2>3. CASE PipInstall \/ Pause \/ Migrate \/ Restore \/ Restart \/ Disable
    BY <2>1, <2>3, CommandKeepsEnvInv, CommandKeepsGood, CommandKeepsUnits DEF EnvIInv
  <2>4. CASE \/ InstallEnv \/ UpdateEnv \/ RollbackEnv \/ UninstallEnv
             \/ Validate \/ Purge \/ Checkout \/ CutEnv
    BY <2>1, <2>4, OthersKeepEnvInv, OthersKeepGood, OthersKeepUnits DEF EnvIInv
  <2>5. ASSUME NEW u \in AllUnits,
               StartUnit(u) \/ Connect(u) \/ CrashUnit(u) \/ StartTenant(u)
        PROVE  EnvIInv'
    BY <2>1, <2>5, ServicesKeepEnvInv, ServicesKeepGood, ServicesKeepUnits DEF EnvIInv
  <2> QED BY <1>2, <2>2, <2>3, <2>4, <2>5 DEF EnvNext, AllUnits
<1>3. ASSUME EnvIInv, UNCHANGED envVars PROVE EnvIInv'
  <2>1. EnvInv'
    BY <1>3 DEF EnvIInv, EnvInv, EnvTypeOK, envVars, OnCourse, Command, Idle
  <2>2. GoodKept'
    BY <1>3, UntouchedKeepsGood DEF EnvIInv, envVars
  <2>3. UnitsKept'
    <3>1. UNCHANGED <<schema, behind, service, cmd, venv>>
      BY <1>3 DEF envVars
    <3> QED BY <1>3, <3>1, QuietKeepsUnits DEF EnvIInv, Up
  <2> QED BY <2>1, <2>2, <2>3 DEF EnvIInv
<1> QED BY <1>1, <1>2, <1>3

(* Every command of the installer, wherever it fails or is cut, leaves the *)
(* snapshots, the versions and the units what the next one expects, and no *)
(* more commands have failed in a row than were run (service/user_env.py). *)
THEOREM EnvTypeCorrect == EnvSpec => []EnvTypeOK
<1>1. EnvInit => EnvIInv
  BY EnvInductive
<1>2. EnvIInv /\ [EnvNext]_envVars => EnvIInv'
  BY EnvInductive
<1>3. EnvIInv => EnvTypeOK
  BY DEF EnvIInv, EnvInv
<1> QED BY <1>1, <1>2, <1>3, PTL DEF EnvSpec

(* The version of the last command that succeeded survives, whole, one     *)
(* update or rollback that fails or is cut at any of its steps             *)
(* (_rotate_app_snapshot_backup, _copy_repo_snapshot,                      *)
(* _swap_app_snapshot_with_backup).                                        *)
THEOREM GoodVersionSurvives == EnvSpec => []GoodSurvivesOneFailure
<1>1. EnvInit => EnvIInv
  BY EnvInductive
<1>2. EnvIInv /\ [EnvNext]_envVars => EnvIInv'
  BY EnvInductive
<1>3. EnvIInv => GoodSurvivesOneFailure
  <2> SUFFICES ASSUME EnvIInv, good # 0, ~(failures > 1), ~(failures = 1 /\ cmd # Idle)
               PROVE  Whole(good) \in {app, previous, swap}
    BY DEF GoodSurvivesOneFailure
  <2>1. GoodKept /\ (failures = 0 \/ (failures = 1 /\ cmd = Idle))
    BY UserEnvAssumption DEF EnvIInv, EnvInv, EnvTypeOK
  <2>2. Holder \in {app, previous, swap}
    BY DEF Holder
  <2> QED BY <2>1, <2>2 DEF GoodKept
<1> QED BY <1>1, <1>2, <1>3, PTL DEF EnvSpec

(* No service runs code older than the schema it works on, but one that an *)
(* install left running, a rollback put back, or under which another       *)
(* connected and migrated first (_pause_managed_runtime_for_migrations).   *)
THEOREM ServicesKeepUpWithSchema == EnvSpec => []UnitsKeepUpWithSchema
<1>1. EnvInit => EnvIInv
  BY EnvInductive
<1>2. EnvIInv /\ [EnvNext]_envVars => EnvIInv'
  BY EnvInductive
<1>3. EnvIInv => UnitsKeepUpWithSchema
  BY DEF EnvIInv, UnitsKept
<1> QED BY <1>1, <1>2, <1>3, PTL DEF EnvSpec

-----------------------------------------------------------------------------
(* Inference.  Threads share a cache: what its name says of its model is   *)
(* so, unless some thread has stored the model and not yet its name.       *)

Cache == [name : Models \union {NoModel}, model : Models \union {NoModel}]
Request == [pc : {"idle", "received", "making", "load", "name", "use"},
            model : Models \union {NoModel}, cache : Nat,
           probe : ProfileNames \union {NoProfile}]
Machine == [packages : SUBSET {"sentence_transformers", "torch"}, cuda : BOOLEAN,
            works : SUBSET Models, server : Providers \union {Down}]

ThreadsInv ==
    /\ machine \in Machine /\ overlapped \in BOOLEAN
    /\ caches \in Seq(Cache) /\ current \in 0..Len(caches)
    /\ current = 0 => caches = <<>>
    /\ requests \in [Threads -> Request]
    /\ \A t \in Threads :
        /\ requests[t].cache \in 0..Len(caches)
        /\ requests[t].pc \in {"load", "name", "use"} => requests[t].cache # 0
        /\ Busy(t) => requests[t].model \in Models
    /\ machine.server = Down => current = 0 /\ \A t \in Threads : ~Busy(t)

Making == {t \in Threads : AtStep(t, "making")}
RoomForProviders == Len(caches) + Cardinality(Making) <= Cardinality(Threads)

(* As long as the requests that were in at once asked for one model, a     *)
(* model is under its own name, or a thread is about to say so, and what   *)
(* has stored a model still finds it.                                      *)
NamesTell ==
    ~overlapped =>
        /\ \A t, u \in Threads : Busy(t) /\ Busy(u) => requests[t].model = requests[u].model
        /\ \A t \in Threads : requests[t].pc \in {"name", "use"} =>
                caches[requests[t].cache].model = requests[t].model
        /\ \A c \in 1..Len(caches) :
            \/ caches[c].name = NoModel \/ caches[c].name = caches[c].model
            \/ \E t \in Threads : AtStep(t, "name") /\ requests[t].cache = c
        /\ answered[1] = answered[2]

(* What a thread uses has the name of the model it was asked for.          *)
UseNamed ==
    ~overlapped =>
        \A t \in Threads : AtStep(t, "use") => caches[requests[t].cache].name = requests[t].model

(* A smoke test of these settings goes to the service.                     *)
Through(s, server) ==
    /\ s.provider = "http" /\ s.target = "service"
    /\ server # Down /\ ~Hash(s.model) /\ (server = "local_hash" => s.model = "bge")

(* Settings that embed nothing on a machine, but for the hash.             *)
Refused(s, m) ==
    \/ Hash(s.model)
    \/ s.provider \notin {"local_hash", "sentence_transformers", "command", "http"}
    \/ s.provider = "local_hash"
    \/ /\ s.provider = "sentence_transformers"
       /\ ~(/\ m.packages = {"sentence_transformers", "torch"}
            /\ s.model \in m.works /\ (s.device = "cuda" => m.cuda))
    \/ s.provider = "command" /\ ~(s.target # "" /\ s.model \in m.works)
    \/ s.provider = "http" /\ ~Through(s, m.server)

Refusals ==
    probed.cache = 0 =>
        probed = NoProbe \/ probed.said \/ Refused(Settings(probed.name), machine)

Smoking ==
    /\ probed.cache # 0 => /\ probed.cache \in 1..Len(caches)
                           /\ Through(Settings(probed.name), machine.server)
    /\ \A t \in Threads : requests[t].probe # NoProfile =>
            /\ Through(Settings(requests[t].probe), machine.server)
            /\ Settings(requests[t].probe).model = requests[t].model

(* The service goes on with the model of its last smoke test.              *)
Smoked ==
    ~overlapped /\ probed.cache # 0 =>
        /\ \A t \in Threads : Busy(t) => requests[t].model = Settings(probed.name).model
        /\ probed.said => /\ caches[probed.cache].name = Settings(probed.name).model
                          /\ caches[probed.cache].model = Settings(probed.name).model

ProbedNow == UseNamed /\ Refusals /\ Smoking /\ Smoked

InferenceIInv == ThreadsInv /\ RoomForProviders /\ NamesTell /\ ProbedNow

(* What a thread's step does to the requests.                              *)
LEMMA StepOf ==
    ASSUME ThreadsInv, NEW t \in Threads, NEW r \in Request,
           requests' = [requests EXCEPT ![t] = r]
    PROVE  /\ requests' \in [Threads -> Request] /\ requests'[t] = r
           /\ \A u \in Threads : u # t => requests'[u] = requests[u]
BY DEF ThreadsInv

LEMMA GotoFacts ==
    ASSUME ThreadsInv, NEW t \in Threads,
           NEW pc \in {"making", "received", "name", "use"}, Goto(t, pc)
    PROVE  /\ requests' \in [Threads -> Request]
           /\ requests'[t].pc = pc /\ requests'[t].model = requests[t].model
           /\ requests'[t].cache = requests[t].cache /\ requests'[t].probe = requests[t].probe
           /\ \A u \in Threads : u # t => requests'[u] = requests[u]
<1>1. requests[t] \in Request
  BY DEF ThreadsInv
<1>2. [requests[t] EXCEPT !.pc = pc] \in Request
  BY <1>1 DEF Request
<1>3. requests' = [requests EXCEPT ![t] = [requests[t] EXCEPT !.pc = pc]]
  BY DEF Goto
<1>4. /\ [requests[t] EXCEPT !.pc = pc].pc = pc
      /\ [requests[t] EXCEPT !.pc = pc].model = requests[t].model
      /\ [requests[t] EXCEPT !.pc = pc].cache = requests[t].cache
      /\ [requests[t] EXCEPT !.pc = pc].probe = requests[t].probe
  BY <1>1 DEF Request
<1> QED BY <1>2, <1>3, <1>4, StepOf

LEMMA ThroughTheService == \A s : ThroughService(s) <=> Through(s, machine.server)
BY DEF ThroughService, Through, Loadable

(* What a probe said goes on to hold through a step of requests already    *)
(* in, of which those at work keep the model and the smoke test they are.  *)
LEMMA ProbeGoesOn ==
    ASSUME ProbedNow, UseNamed', UNCHANGED <<machine, overlapped, probed>>,
           Len(caches) \in Nat, Len(caches') \in Nat, Len(caches') >= Len(caches),
           \A u \in Threads : Busy(u)' => Busy(u) /\ requests'[u].model = requests[u].model,
           \A u \in Threads : requests'[u].probe # NoProfile =>
                /\ requests'[u].probe = requests[u].probe
                /\ requests'[u].model = requests[u].model,
           ~overlapped /\ probed.cache # 0 =>
                \A c \in 1..Len(caches) :
                    /\ caches[c].name = Settings(probed.name).model
                    /\ caches[c].model = Settings(probed.name).model
                    => /\ caches'[c].name = Settings(probed.name).model
                       /\ caches'[c].model = Settings(probed.name).model
    PROVE  ProbedNow'
<1>1. Refusals'
  BY DEF ProbedNow, Refusals
<1>2. Smoking'
  <2>1. probed.cache # 0 => probed.cache \in 1..Len(caches')
    BY DEF ProbedNow, Smoking
  <2> QED BY <2>1 DEF ProbedNow, Smoking
<1>3. Smoked'
  <2> DEFINE s == Settings(probed.name)
  <2> SUFFICES ASSUME ~overlapped, probed.cache # 0
               PROVE  /\ \A t \in Threads : Busy(t)' => requests'[t].model = s.model
                      /\ probed.said => /\ caches'[probed.cache].name = s.model
                                        /\ caches'[probed.cache].model = s.model
    BY DEF Smoked
  <2> HIDE DEF s
  <2>1. \A t \in Threads : Busy(t)' => requests'[t].model = s.model
    BY DEF ProbedNow, Smoked, s
  <2>2. probed.cache \in 1..Len(caches)
    BY DEF ProbedNow, Smoking
  <2>3. ASSUME probed.said
        PROVE  caches'[probed.cache].name = s.model /\ caches'[probed.cache].model = s.model
    BY <2>2, <2>3 DEF ProbedNow, Smoked, s
  <2> QED BY <2>1, <2>3
<1> QED BY <1>1, <1>2, <1>3 DEF ProbedNow

(* No thread takes up making a provider.                                   *)
LEMMA MakersStay ==
    ASSUME ThreadsInv, RoomForProviders, Making' \subseteq Making, Len(caches') = Len(caches)
    PROVE  RoomForProviders'
<1>1. IsFiniteSet(Making) /\ Making \subseteq Threads
  BY InferenceAssumption, FS_Subset DEF Making
<1>2. /\ Cardinality(Making') <= Cardinality(Making)
      /\ Cardinality(Making') \in Nat /\ Cardinality(Making) \in Nat
      /\ Cardinality(Threads) \in Nat
  BY <1>1, FS_Subset, FS_CardinalityType, InferenceAssumption
<1>3. Len(caches) \in Nat
  BY DEF ThreadsInv
<1>4. Cardinality(Threads)' = Cardinality(Threads)
  OBVIOUS
<1> QED BY <1>2, <1>3 DEF RoomForProviders

LEMMA RequestKeepsInference ==
    ASSUME InferenceIInv, NEW t \in Threads, ReceiveRequest(t)
    PROVE  InferenceIInv'
<1>1. PICK model \in Models :
        /\ Loadable(model)
        /\ \E probe \in {NoProfile} \union {name \in ProfileNames :
                ThroughService(Settings(name)) /\ Settings(name).model = model} :
            requests' = [requests EXCEPT ![t] =
                [pc |-> "received", model |-> model, cache |-> 0, probe |-> probe]]
        /\ overlapped' = (overlapped \/ \E u \in Threads : Busy(u) /\ requests[u].model # model)
        /\ probed' = IF probed.cache # 0 /\ Settings(probed.name).model # model
                     THEN NoProbe ELSE probed
  BY DEF ReceiveRequest
<1>a. PICK probe \in {NoProfile} \union {name \in ProfileNames :
                ThroughService(Settings(name)) /\ Settings(name).model = model} :
        requests' = [requests EXCEPT ![t] =
            [pc |-> "received", model |-> model, cache |-> 0, probe |-> probe]]
  BY <1>1
<1>2. /\ machine.server # Down /\ ~Busy(t)
      /\ UNCHANGED <<machine, caches, current, answered, changes>>
  BY DEF ReceiveRequest
<1>3. ThreadsInv /\ RoomForProviders /\ NamesTell /\ ProbedNow
  BY DEF InferenceIInv
<1> DEFINE r == [pc |-> "received", model |-> model, cache |-> 0, probe |-> probe]
<1>4. /\ r \in Request /\ r.pc = "received" /\ r.model = model /\ r.cache = 0
      /\ r.probe = probe
  BY DEF Request
<1> HIDE DEF r
<1>5. /\ requests' \in [Threads -> Request] /\ requests'[t] = r
      /\ \A u \in Threads : u # t => requests'[u] = requests[u]
  BY <1>a, <1>3, <1>4, StepOf DEF r
<1>6. ThreadsInv'
  <2>1. overlapped' \in BOOLEAN
    BY <1>1
  <2>2. \A u \in Threads :
          /\ requests'[u].cache \in 0..Len(caches)
          /\ requests'[u].pc \in {"load", "name", "use"} => requests'[u].cache # 0
          /\ Busy(u)' => requests'[u].model \in Models
    BY <1>3, <1>4, <1>5 DEF ThreadsInv, Busy
  <2> QED BY <1>2, <1>3, <1>5, <2>1, <2>2 DEF ThreadsInv
<1>7. RoomForProviders'
  <2>1. Making' \subseteq Making
    BY <1>4, <1>5 DEF Making, AtStep
  <2> QED BY <1>2, <1>3, <2>1, MakersStay
<1>8. NamesTell'
  <2> SUFFICES ASSUME ~overlapped' PROVE NamesTell'
    BY DEF NamesTell
  <2>1. ~overlapped /\ \A u \in Threads : Busy(u) => requests[u].model = model
    BY <1>1
  <2>2. \A u \in Threads : Busy(u)' => requests'[u].model = model
    BY <1>4, <1>5, <2>1 DEF Busy
  <2>3. \A u \in Threads : requests'[u].pc \in {"name", "use"} =>
            caches[requests'[u].cache].model = requests'[u].model
    BY <1>3, <1>4, <1>5, <2>1 DEF NamesTell
  <2>4. \A c \in 1..Len(caches) :
            \/ caches[c].name = NoModel \/ caches[c].name = caches[c].model
            \/ \E u \in Threads : AtStep(u, "name")' /\ requests'[u].cache = c
    <3>1. \A u \in Threads : AtStep(u, "name") => u # t
      BY <1>2 DEF AtStep, Busy
    <3> QED BY <1>3, <1>5, <2>1, <3>1 DEF NamesTell, AtStep
  <2>5. answered[1] = answered[2]
    BY <1>3, <2>1 DEF NamesTell
  <2> QED BY <1>2, <2>2, <2>3, <2>4, <2>5 DEF NamesTell
<1>9. UseNamed'
  <2> SUFFICES ASSUME ~overlapped', NEW u \in Threads, AtStep(u, "use")'
               PROVE  caches'[requests'[u].cache].name = requests'[u].model
    BY DEF UseNamed
  <2>1. ~overlapped
    BY <1>1
  <2>2. u # t /\ requests'[u] = requests[u] /\ AtStep(u, "use")
    BY <1>4, <1>5 DEF AtStep
  <2> QED BY <1>2, <1>3, <2>1, <2>2 DEF ProbedNow, UseNamed
<1>10. ASSUME NEW u \in Threads, requests'[u].probe # NoProfile
       PROVE  /\ Through(Settings(requests'[u].probe), machine.server)
              /\ Settings(requests'[u].probe).model = requests'[u].model
  <2>1. CASE u = t
    <3>1. probe # NoProfile /\ requests'[u].probe = probe /\ requests'[u].model = model
      BY <1>4, <1>5, <1>10, <2>1
    <3>2. ThroughService(Settings(probe)) /\ Settings(probe).model = model
      BY <3>1
    <3> QED BY <3>1, <3>2, ThroughTheService
  <2>2. CASE u # t
    BY <1>3, <1>5, <1>10, <2>2 DEF ProbedNow, Smoking
  <2> QED BY <2>1, <2>2
<1>11. CASE probed.cache = 0 \/ Settings(probed.name).model = model
  <2> DEFINE s == Settings(probed.name)
  <2>1. probed' = probed
    BY <1>1, <1>11
  <2>2. probed.cache = 0 \/ s.model = model
    BY <1>11
  <2> HIDE DEF s
  <2>3. Refusals'
    BY <1>2, <1>3, <2>1 DEF ProbedNow, Refusals
  <2>4. Smoking'
    BY <1>2, <1>3, <1>10, <2>1 DEF ProbedNow, Smoking
  <2>5. Smoked'
    <3> SUFFICES ASSUME ~overlapped', probed.cache # 0
                 PROVE  /\ \A u \in Threads : Busy(u)' => requests'[u].model = s.model
                        /\ probed.said => /\ caches[probed.cache].name = s.model
                                          /\ caches[probed.cache].model = s.model
      BY <1>2, <2>1 DEF Smoked, s
    <3>1. ~overlapped
      BY <1>1
    <3>2. \A u \in Threads : Busy(u) => requests[u].model = s.model
      BY <1>3, <3>1 DEF ProbedNow, Smoked, s
    <3>3. \A u \in Threads : Busy(u)' => requests'[u].model = s.model
      BY <1>4, <1>5, <2>2, <3>2 DEF Busy
    <3> QED BY <1>3, <3>1, <3>3 DEF ProbedNow, Smoked, s
  <2> QED BY <1>6, <1>7, <1>8, <1>9, <2>3, <2>4, <2>5 DEF InferenceIInv, ProbedNow
<1>12. CASE probed.cache # 0 /\ Settings(probed.name).model # model
  <2>1. probed' = NoProbe /\ probed'.cache = 0
    BY <1>1, <1>12 DEF NoProbe
  <2>2. Refusals' /\ Smoked'
    BY <2>1 DEF Refusals, Smoked, NoProbe
  <2>3. Smoking'
    BY <1>2, <1>10, <2>1 DEF Smoking
  <2> QED BY <1>6, <1>7, <1>8, <1>9, <2>2, <2>3 DEF InferenceIInv, ProbedNow
<1> QED BY <1>11, <1>12

LEMMA ProviderKeepsInference ==
    ASSUME InferenceIInv, NEW t \in Threads, MakeProvider(t) \/ KeepProvider(t)
    PROVE  InferenceIInv'
<1>1. ThreadsInv /\ RoomForProviders /\ NamesTell /\ ProbedNow
  BY DEF InferenceIInv
<1>2. Empty \in Cache /\ Empty.name = NoModel
  BY DEF Empty, Cache
<1>3. IsFiniteSet(Making) /\ Making \subseteq Threads /\ Cardinality(Making) \in Nat
      /\ Cardinality(Threads) \in Nat
  BY InferenceAssumption, FS_Subset, FS_CardinalityType DEF Making
<1>4. CASE MakeProvider(t)
  <2>1. /\ requests[t].pc = "received" /\ current = 0 /\ Goto(t, "making")
        /\ UNCHANGED <<machine, caches, current, answered, overlapped, probed, changes>>
    BY <1>4 DEF MakeProvider, AtStep
  <2>2. /\ requests' \in [Threads -> Request]
        /\ requests'[t].pc = "making" /\ requests'[t].model = requests[t].model
        /\ requests'[t].cache = requests[t].cache /\ requests'[t].probe = requests[t].probe
        /\ \A u \in Threads : u # t => requests'[u] = requests[u]
    BY <1>1, <2>1, GotoFacts
  <2>3. \A u \in Threads : Busy(u)' <=> Busy(u)
    BY <2>1, <2>2 DEF Busy
  <2>4. ThreadsInv'
    <3>1. \A u \in Threads :
            /\ requests'[u].cache \in 0..Len(caches)
            /\ requests'[u].pc \in {"load", "name", "use"} => requests'[u].cache # 0
            /\ Busy(u)' => requests'[u].model \in Models
      BY <1>1, <2>2, <2>3 DEF ThreadsInv
    <3> QED BY <1>1, <2>1, <2>2, <2>3, <3>1 DEF ThreadsInv
  <2>5. RoomForProviders'
    <3>1. caches = <<>> /\ Len(caches) = 0
      BY <1>1, <2>1 DEF ThreadsInv
    <3>2. Cardinality(Making') <= Cardinality(Threads)
      BY InferenceAssumption, FS_Subset DEF Making
    <3>3. Cardinality(Making') \in Nat
      BY InferenceAssumption, FS_Subset, FS_CardinalityType DEF Making
    <3> QED BY <1>3, <2>1, <3>1, <3>2, <3>3 DEF RoomForProviders
  <2>6. NamesTell'
    <3>1. \A u \in Threads : requests'[u].model = requests[u].model
                /\ (requests'[u].pc \in {"name", "use"} <=> requests[u].pc \in {"name", "use"})
                /\ (AtStep(u, "name")' <=> AtStep(u, "name"))
                /\ requests'[u].cache = requests[u].cache
      BY <2>1, <2>2 DEF AtStep
    <3> QED BY <1>1, <2>1, <2>3, <3>1 DEF NamesTell
  <2>7. ProbedNow'
    <3>1. UseNamed'
      <4>1. \A u \in Threads : AtStep(u, "use")' => AtStep(u, "use") /\ requests'[u] = requests[u]
        BY <2>2 DEF AtStep
      <4> QED BY <1>1, <2>1, <4>1 DEF ProbedNow, UseNamed
    <3>2. \A u \in Threads : requests'[u].model = requests[u].model
                            /\ requests'[u].probe = requests[u].probe
      BY <2>2
    <3>3. Len(caches) \in Nat
      BY <1>1 DEF ThreadsInv
    <3> QED BY <1>1, <2>1, <2>3, <3>1, <3>2, <3>3, ProbeGoesOn
  <2> QED BY <2>4, <2>5, <2>6, <2>7 DEF InferenceIInv
<1>5. CASE KeepProvider(t)
  <2>1. /\ requests[t].pc = "making" /\ t \in Making /\ Goto(t, "received")
        /\ caches' = Append(caches, Empty) /\ current' = Len(caches) + 1
        /\ UNCHANGED <<machine, answered, overlapped, probed, changes>>
    BY <1>5 DEF KeepProvider, AtStep, Making
  <2>2. /\ requests' \in [Threads -> Request]
        /\ requests'[t].pc = "received" /\ requests'[t].model = requests[t].model
        /\ requests'[t].cache = requests[t].cache /\ requests'[t].probe = requests[t].probe
        /\ \A u \in Threads : u # t => requests'[u] = requests[u]
    BY <1>1, <2>1, GotoFacts
  <2>3. \A u \in Threads : Busy(u)' <=> Busy(u)
    BY <2>1, <2>2 DEF Busy
  <2>4. /\ caches' \in Seq(Cache) /\ Len(caches') = Len(caches) + 1
        /\ \A c \in 1..Len(caches) : caches'[c] = caches[c]
        /\ caches'[Len(caches) + 1] = Empty /\ Len(caches) \in Nat
    BY <1>1, <1>2, <2>1 DEF ThreadsInv
  <2>5. ThreadsInv'
    <3>1. \A u \in Threads :
            /\ requests'[u].cache \in 0..Len(caches')
            /\ requests'[u].pc \in {"load", "name", "use"} => requests'[u].cache # 0
            /\ Busy(u)' => requests'[u].model \in Models
      BY <1>1, <2>2, <2>3, <2>4 DEF ThreadsInv
    <3>2. machine.server # Down
      BY <1>1, <2>1 DEF ThreadsInv, Busy
    <3>3. current' \in 0..Len(caches') /\ current' # 0
      BY <2>1, <2>4
    <3> QED BY <1>1, <2>1, <2>2, <2>4, <3>1, <3>2, <3>3 DEF ThreadsInv
  <2>6. RoomForProviders'
    <3>1. Making' = Making \ {t}
      BY <2>1, <2>2 DEF Making, AtStep
    <3>2. Cardinality(Making') = Cardinality(Making) - 1
      BY <1>3, <2>1, <3>1, FS_RemoveElement
    <3> QED BY <1>1, <1>3, <2>4, <3>2 DEF RoomForProviders
  <2>7. NamesTell'
    <3> SUFFICES ASSUME ~overlapped' PROVE NamesTell'
      BY DEF NamesTell
    <3>1. ~overlapped /\ answered' = answered
      BY <2>1
    <3>2. \A u \in Threads : requests'[u].model = requests[u].model
                /\ (requests'[u].pc \in {"name", "use"} <=> requests[u].pc \in {"name", "use"})
                /\ (AtStep(u, "name")' <=> AtStep(u, "name"))
                /\ requests'[u].cache = requests[u].cache
      BY <2>1, <2>2 DEF AtStep
    <3>3. \A u, v \in Threads : Busy(u)' /\ Busy(v)' => requests'[u].model = requests'[v].model
      BY <1>1, <2>3, <3>1, <3>2 DEF NamesTell
    <3>4. \A u \in Threads : requests'[u].pc \in {"name", "use"} =>
              caches'[requests'[u].cache].model = requests'[u].model
      <4>1. \A u \in Threads : requests[u].pc \in {"name", "use"} => requests[u].cache \in 1..Len(caches)
        BY <1>1, <2>4 DEF ThreadsInv
      <4> QED BY <1>1, <2>4, <3>1, <3>2, <4>1 DEF NamesTell
    <3>5. \A c \in 1..Len(caches') :
              \/ caches'[c].name = NoModel \/ caches'[c].name = caches'[c].model
              \/ \E u \in Threads : AtStep(u, "name")' /\ requests'[u].cache = c
      <4> TAKE c \in 1..Len(caches')
      <4>1. CASE c \in 1..Len(caches)
        BY <1>1, <2>4, <3>1, <3>2, <4>1 DEF NamesTell
      <4>2. CASE c = Len(caches) + 1
        BY <1>2, <2>4, <4>2
      <4> QED BY <2>4, <4>1, <4>2
    <3>6. answered'[1] = answered'[2]
      BY <1>1, <3>1 DEF NamesTell
    <3> QED BY <3>3, <3>4, <3>5, <3>6 DEF NamesTell
  <2>8. ProbedNow'
    <3>1. UseNamed'
      <4>1. \A u \in Threads : AtStep(u, "use")' => AtStep(u, "use") /\ requests'[u] = requests[u]
        BY <2>2 DEF AtStep
      <4>2. \A u \in Threads : AtStep(u, "use") => requests[u].cache \in 1..Len(caches)
        BY <1>1, <2>4 DEF ThreadsInv, AtStep
      <4> QED BY <1>1, <2>1, <2>4, <4>1, <4>2 DEF ProbedNow, UseNamed
    <3>2. \A u \in Threads : requests'[u].model = requests[u].model
                            /\ requests'[u].probe = requests[u].probe
      BY <2>2
    <3>3. Len(caches') \in Nat /\ Len(caches') >= Len(caches)
      BY <2>4
    <3> QED BY <1>1, <2>1, <2>3, <2>4, <3>1, <3>2, <3>3, ProbeGoesOn
  <2> QED BY <2>5, <2>6, <2>7, <2>8 DEF InferenceIInv
<1> QED BY <1>4, <1>5

LEMMA CheckKeepsInference ==
    ASSUME InferenceIInv, NEW t \in Threads, CheckCache(t)
    PROVE  InferenceIInv'
<1>1. ThreadsInv /\ RoomForProviders /\ NamesTell /\ ProbedNow
  BY DEF InferenceIInv
<1> DEFINE pc == IF Cached(caches[current], requests[t].model) THEN "use" ELSE "load"
<1> DEFINE r == [requests[t] EXCEPT !.cache = current, !.pc = pc]
<1>2. /\ requests[t].pc = "received" /\ current > 0
      /\ requests' = [requests EXCEPT ![t].cache = current, ![t].pc = pc]
      /\ UNCHANGED <<machine, caches, current, answered, overlapped, probed, changes>>
  BY DEF CheckCache, AtStep
<1>3. requests[t] \in Request /\ current \in Nat /\ current <= Len(caches) /\ Len(caches) \in Nat
  BY <1>1 DEF ThreadsInv
<1>4. /\ r \in Request /\ r.pc = pc /\ r.cache = current /\ r.model = requests[t].model
      /\ r.probe = requests[t].probe
  BY <1>3 DEF Request
<1>5. requests' = [requests EXCEPT ![t] = r]
  BY <1>1, <1>2, <1>3 DEF ThreadsInv, Request
<1> HIDE DEF r
<1>6. /\ requests' \in [Threads -> Request] /\ requests'[t] = r
      /\ \A u \in Threads : u # t => requests'[u] = requests[u]
  BY <1>1, <1>4, <1>5, StepOf
<1>7. \A u \in Threads : Busy(u)' <=> Busy(u)
  BY <1>2, <1>4, <1>6 DEF Busy
<1>8. ThreadsInv'
  <2>1. \A u \in Threads :
          /\ requests'[u].cache \in 0..Len(caches)
          /\ requests'[u].pc \in {"load", "name", "use"} => requests'[u].cache # 0
          /\ Busy(u)' => requests'[u].model \in Models
    BY <1>1, <1>2, <1>3, <1>4, <1>6, <1>7 DEF ThreadsInv
  <2> QED BY <1>1, <1>2, <1>6, <1>7, <2>1 DEF ThreadsInv
<1>9. RoomForProviders'
  <2>1. Making' \subseteq Making
    BY <1>4, <1>6 DEF Making, AtStep
  <2> QED BY <1>1, <1>2, <2>1, MakersStay
<1>10. NamesTell'
  <2> SUFFICES ASSUME ~overlapped PROVE NamesTell'
    BY <1>2 DEF NamesTell
  <2>1. \A u \in Threads : requests'[u].model = requests[u].model
    BY <1>4, <1>6
  <2>2. \A u \in Threads : AtStep(u, "name")' <=> AtStep(u, "name")
    BY <1>2, <1>4, <1>6 DEF AtStep
  <2>3. pc = "use" => caches[current].model = requests[t].model
    <3> SUFFICES ASSUME caches[current].name = requests[t].model
                 PROVE  caches[current].model = requests[t].model
      BY DEF Cached
    <3>1. Busy(t) /\ requests[t].model \in Models /\ current \in 1..Len(caches)
      BY <1>1, <1>2, <1>3 DEF ThreadsInv, Busy
    <3>2. caches[current].name # NoModel
      BY <3>1, InferenceAssumption
    <3>3. ASSUME NEW u \in Threads, AtStep(u, "name"), requests[u].cache = current
          PROVE  caches[current].model = requests[t].model
      <4>1. requests[u].model = requests[t].model
        BY <1>1, <3>1, <3>3 DEF NamesTell, AtStep, Busy
      <4> QED BY <1>1, <3>3, <4>1 DEF NamesTell, AtStep
    <3> QED BY <1>1, <3>1, <3>2, <3>3 DEF NamesTell
  <2>4. \A u \in Threads : requests'[u].pc \in {"name", "use"} =>
            caches[requests'[u].cache].model = requests'[u].model
    BY <1>1, <1>4, <1>6, <2>3 DEF NamesTell
  <2>5. \A c \in 1..Len(caches) :
            \/ caches[c].name = NoModel \/ caches[c].name = caches[c].model
            \/ \E u \in Threads : AtStep(u, "name")' /\ requests'[u].cache = c
    <3>1. \A u \in Threads : AtStep(u, "name") => u # t
      BY <1>2 DEF AtStep
    <3> QED BY <1>1, <1>6, <2>2, <3>1 DEF NamesTell
  <2>6. /\ \A u, v \in Threads : Busy(u)' /\ Busy(v)' => requests'[u].model = requests'[v].model
        /\ answered[1] = answered[2]
    BY <1>1, <1>7, <2>1 DEF NamesTell
  <2> QED BY <1>2, <2>4, <2>5, <2>6 DEF NamesTell
<1>11. UseNamed'
  <2> SUFFICES ASSUME ~overlapped, NEW u \in Threads, AtStep(u, "use")'
               PROVE  caches[requests'[u].cache].name = requests'[u].model
    BY <1>2 DEF UseNamed
  <2>1. CASE u = t
    BY <1>4, <1>6, <2>1 DEF AtStep, Cached
  <2>2. CASE u # t
    BY <1>1, <1>6, <2>2 DEF ProbedNow, UseNamed, AtStep
  <2> QED BY <2>1, <2>2
<1>12. ProbedNow'
  <2>1. \A u \in Threads : requests'[u].model = requests[u].model
                          /\ requests'[u].probe = requests[u].probe
    BY <1>4, <1>6
  <2>2. Len(caches') \in Nat /\ Len(caches') >= Len(caches)
    BY <1>2, <1>3
  <2> QED BY <1>1, <1>2, <1>3, <1>7, <1>11, <2>1, <2>2, ProbeGoesOn
<1> QED BY <1>8, <1>9, <1>10, <1>12 DEF InferenceIInv

(* A provider's model or its name is stored.                               *)
LEMMA StoreFacts ==
    ASSUME ThreadsInv, NEW t \in Threads, requests[t].cache # 0, Busy(t)
    PROVE  /\ requests[t].cache \in 1..Len(caches) /\ requests[t].model \in Models
           /\ \A e \in Cache :
                LET changed == [caches EXCEPT ![requests[t].cache] = e]
                IN  /\ changed \in Seq(Cache) /\ Len(changed) = Len(caches)
                    /\ changed[requests[t].cache] = e
                    /\ \A c \in 1..Len(caches) : c # requests[t].cache => changed[c] = caches[c]
<1>1. requests[t].cache \in 1..Len(caches) /\ requests[t].model \in Models
  BY DEF ThreadsInv
<1> QED BY <1>1 DEF ThreadsInv

LEMMA StoreModelKeepsInference ==
    ASSUME InferenceIInv, NEW t \in Threads, StoreModel(t)
    PROVE  InferenceIInv'
<1>1. ThreadsInv /\ RoomForProviders /\ NamesTell /\ ProbedNow
  BY DEF InferenceIInv
<1> DEFINE k == requests[t].cache
           e == [caches[k] EXCEPT !.model = requests[t].model]
<1>2. /\ requests[t].pc = "load" /\ Goto(t, "name")
      /\ caches' = [caches EXCEPT ![k].model = requests[t].model]
      /\ UNCHANGED <<machine, current, answered, overlapped, probed, changes>>
  BY DEF StoreModel, AtStep
<1>3. k # 0 /\ Busy(t)
  BY <1>1, <1>2 DEF ThreadsInv, Busy
<1>4. k \in 1..Len(caches) /\ requests[t].model \in Models /\ caches \in Seq(Cache)
  BY <1>1, <1>3, StoreFacts DEF ThreadsInv
<1>5. caches[k] \in Cache
  BY <1>4
<1>6. e \in Cache /\ e.model = requests[t].model /\ e.name = caches[k].name
  BY <1>4, <1>5 DEF Cache
<1>7. caches' = [caches EXCEPT ![k] = e]
  BY <1>2
<1> HIDE DEF e
<1>8. /\ caches' \in Seq(Cache) /\ Len(caches') = Len(caches) /\ caches'[k] = e
      /\ \A c \in 1..Len(caches) : c # k => caches'[c] = caches[c]
  BY <1>1, <1>3, <1>6, <1>7, StoreFacts
<1>9. /\ requests' \in [Threads -> Request]
      /\ requests'[t].pc = "name" /\ requests'[t].model = requests[t].model
      /\ requests'[t].cache = k /\ requests'[t].probe = requests[t].probe
      /\ \A u \in Threads : u # t => requests'[u] = requests[u]
  BY <1>1, <1>2, GotoFacts
<1> HIDE DEF k
<1>10. /\ \A u \in Threads : (Busy(u)' <=> Busy(u)) /\ requests'[u].model = requests[u].model
                            /\ requests'[u].cache = requests[u].cache
       /\ k = requests[t].cache
  BY <1>3, <1>9 DEF Busy, k
<1>11. ThreadsInv'
  <2>1. \A u \in Threads :
          /\ requests'[u].cache \in 0..Len(caches')
          /\ requests'[u].pc \in {"load", "name", "use"} => requests'[u].cache # 0
          /\ Busy(u)' => requests'[u].model \in Models
    BY <1>1, <1>3, <1>8, <1>9, <1>10 DEF ThreadsInv
  <2>2. current' \in 0..Len(caches') /\ current' # 0
    BY <1>1, <1>2, <1>4, <1>8 DEF ThreadsInv
  <2>3. machine.server # Down
    BY <1>1, <1>3 DEF ThreadsInv
  <2> QED BY <1>1, <1>2, <1>8, <1>9, <2>1, <2>2, <2>3 DEF ThreadsInv
<1>12. RoomForProviders'
  <2>1. Making' \subseteq Making
    BY <1>9 DEF Making, AtStep
  <2> QED BY <1>1, <1>8, <2>1, MakersStay
<1>13. NamesTell'
  <2> SUFFICES ASSUME ~overlapped PROVE NamesTell'
    BY <1>2 DEF NamesTell
  <2>1. \A u, v \in Threads : Busy(u)' /\ Busy(v)' => requests'[u].model = requests'[v].model
    BY <1>1, <1>10 DEF NamesTell
  <2>2. ASSUME NEW u \in Threads, requests'[u].pc \in {"name", "use"}
        PROVE  caches'[requests'[u].cache].model = requests'[u].model
    <3>1. requests[u].model = requests[t].model
      BY <1>1, <1>3, <1>10, <2>2 DEF NamesTell, Busy
    <3>2. CASE requests[u].cache = k
      BY <1>6, <1>8, <1>10, <3>1, <3>2
    <3>3. CASE requests[u].cache # k
      <4>1. u # t /\ requests'[u] = requests[u]
        BY <1>9, <1>10, <3>3
      <4>2. requests[u].cache \in 1..Len(caches)
        BY <1>1, <2>2, <4>1 DEF ThreadsInv
      <4> QED BY <1>1, <1>8, <2>2, <3>3, <4>1, <4>2 DEF NamesTell
    <3> QED BY <3>2, <3>3
  <2>3. ASSUME NEW c \in 1..Len(caches')
        PROVE  \/ caches'[c].name = NoModel \/ caches'[c].name = caches'[c].model
               \/ \E u \in Threads : AtStep(u, "name")' /\ requests'[u].cache = c
    <3>1. CASE c = k
      BY <1>9, <3>1 DEF AtStep
    <3>2. CASE c # k
      <4>1. \A u \in Threads : AtStep(u, "name") => AtStep(u, "name")'
        BY <1>9 DEF AtStep
      <4> QED BY <1>1, <1>8, <1>10, <3>2, <4>1 DEF NamesTell
    <3> QED BY <3>1, <3>2
  <2>4. answered'[1] = answered'[2]
    BY <1>1, <1>2 DEF NamesTell
  <2> QED BY <2>1, <2>2, <2>3, <2>4 DEF NamesTell
<1>14. UseNamed'
  <2> SUFFICES ASSUME ~overlapped, NEW u \in Threads, AtStep(u, "use")'
               PROVE  caches'[requests'[u].cache].name = requests'[u].model
    BY <1>2 DEF UseNamed
  <2>1. u # t /\ requests'[u] = requests[u] /\ AtStep(u, "use")
    BY <1>9 DEF AtStep
  <2>2. requests[u].cache \in 1..Len(caches)
    BY <1>1, <2>1 DEF ThreadsInv, AtStep
  <2>3. caches'[requests[u].cache].name = caches[requests[u].cache].name
    BY <1>6, <1>8, <2>2
  <2> QED BY <1>1, <2>1, <2>3 DEF ProbedNow, UseNamed
<1>15. ProbedNow'
  <2>1. \A u \in Threads : requests'[u].model = requests[u].model
                          /\ requests'[u].probe = requests[u].probe
    BY <1>9
  <2>2. ASSUME ~overlapped, probed.cache # 0, NEW c \in 1..Len(caches),
               caches[c].name = Settings(probed.name).model,
               caches[c].model = Settings(probed.name).model
        PROVE  /\ caches'[c].name = Settings(probed.name).model
               /\ caches'[c].model = Settings(probed.name).model
    <3>1. requests[t].model = Settings(probed.name).model
      BY <1>1, <1>3, <2>2 DEF ProbedNow, Smoked
    <3>2. CASE c = k
      BY <1>6, <1>8, <2>2, <3>1, <3>2
    <3>3. CASE c # k
      BY <1>8, <2>2, <3>3
    <3> QED BY <3>2, <3>3
  <2>3. Len(caches) \in Nat /\ Len(caches') \in Nat /\ Len(caches') >= Len(caches)
    BY <1>4, <1>8
  <2> QED BY <1>1, <1>2, <1>10, <1>14, <2>1, <2>2, <2>3, ProbeGoesOn
<1> QED BY <1>11, <1>12, <1>13, <1>15 DEF InferenceIInv

LEMMA StoreNameKeepsInference ==
    ASSUME InferenceIInv, NEW t \in Threads, StoreName(t)
    PROVE  InferenceIInv'
<1>1. ThreadsInv /\ RoomForProviders /\ NamesTell /\ ProbedNow
  BY DEF InferenceIInv
<1> DEFINE k == requests[t].cache
           e == [caches[k] EXCEPT !.name = requests[t].model]
<1>2. /\ requests[t].pc = "name" /\ Goto(t, "use")
      /\ caches' = [caches EXCEPT ![k].name = requests[t].model]
      /\ UNCHANGED <<machine, current, answered, overlapped, probed, changes>>
  BY DEF StoreName, AtStep
<1>3. k # 0 /\ Busy(t)
  BY <1>1, <1>2 DEF ThreadsInv, Busy
<1>4. k \in 1..Len(caches) /\ requests[t].model \in Models /\ caches \in Seq(Cache)
  BY <1>1, <1>3, StoreFacts DEF ThreadsInv
<1>5. caches[k] \in Cache
  BY <1>4
<1>6. e \in Cache /\ e.name = requests[t].model /\ e.model = caches[k].model
  BY <1>4, <1>5 DEF Cache
<1>7. caches' = [caches EXCEPT ![k] = e]
  BY <1>2
<1> HIDE DEF e
<1>8. /\ caches' \in Seq(Cache) /\ Len(caches') = Len(caches) /\ caches'[k] = e
      /\ \A c \in 1..Len(caches) : c # k => caches'[c] = caches[c]
  BY <1>1, <1>3, <1>6, <1>7, StoreFacts
<1>9. /\ requests' \in [Threads -> Request]
      /\ requests'[t].pc = "use" /\ requests'[t].model = requests[t].model
      /\ requests'[t].cache = k /\ requests'[t].probe = requests[t].probe
      /\ \A u \in Threads : u # t => requests'[u] = requests[u]
  BY <1>1, <1>2, GotoFacts
<1> HIDE DEF k
<1>10. /\ \A u \in Threads : (Busy(u)' <=> Busy(u)) /\ requests'[u].model = requests[u].model
                            /\ requests'[u].cache = requests[u].cache
       /\ k = requests[t].cache
  BY <1>3, <1>9 DEF Busy, k
<1>11. ThreadsInv'
  <2>1. \A u \in Threads :
          /\ requests'[u].cache \in 0..Len(caches')
          /\ requests'[u].pc \in {"load", "name", "use"} => requests'[u].cache # 0
          /\ Busy(u)' => requests'[u].model \in Models
    BY <1>1, <1>3, <1>8, <1>9, <1>10 DEF ThreadsInv
  <2>2. current' \in 0..Len(caches') /\ current' # 0
    BY <1>1, <1>2, <1>4, <1>8 DEF ThreadsInv
  <2>3. machine.server # Down
    BY <1>1, <1>3 DEF ThreadsInv
  <2> QED BY <1>1, <1>2, <1>8, <1>9, <2>1, <2>2, <2>3 DEF ThreadsInv
<1>12. RoomForProviders'
  <2>1. Making' \subseteq Making
    BY <1>9 DEF Making, AtStep
  <2> QED BY <1>1, <1>8, <2>1, MakersStay
<1>13. NamesTell'
  <2> SUFFICES ASSUME ~overlapped PROVE NamesTell'
    BY <1>2 DEF NamesTell
  <2>1. \A u, v \in Threads : Busy(u)' /\ Busy(v)' => requests'[u].model = requests'[v].model
    BY <1>1, <1>10 DEF NamesTell
  <2>2. caches[k].model = requests[t].model
    BY <1>1, <1>2, <1>10 DEF NamesTell
  <2>3. \A c \in 1..Len(caches) : caches'[c].model = caches[c].model
    BY <1>6, <1>8
  <2>4. ASSUME NEW u \in Threads, requests'[u].pc \in {"name", "use"}
        PROVE  caches'[requests'[u].cache].model = requests'[u].model
    <3>1. requests[u].pc \in {"name", "use"}
      BY <1>2, <1>9, <2>4
    <3>2. requests[u].cache \in 1..Len(caches)
      BY <1>1, <3>1 DEF ThreadsInv
    <3> QED BY <1>1, <1>10, <2>3, <3>1, <3>2 DEF NamesTell
  <2>5. ASSUME NEW c \in 1..Len(caches')
        PROVE  \/ caches'[c].name = NoModel \/ caches'[c].name = caches'[c].model
               \/ \E u \in Threads : AtStep(u, "name")' /\ requests'[u].cache = c
    <3>1. CASE c = k
      BY <1>6, <1>8, <2>2, <3>1
    <3>2. CASE c # k
      <4>1. \A u \in Threads : AtStep(u, "name") /\ requests[u].cache = c => AtStep(u, "name")'
        BY <1>9, <1>10, <3>2 DEF AtStep
      <4> QED BY <1>1, <1>8, <1>10, <3>2, <4>1 DEF NamesTell
    <3> QED BY <3>1, <3>2
  <2>6. answered'[1] = answered'[2]
    BY <1>1, <1>2 DEF NamesTell
  <2> QED BY <2>1, <2>4, <2>5, <2>6 DEF NamesTell
<1>14. UseNamed'
  <2> SUFFICES ASSUME ~overlapped, NEW u \in Threads, AtStep(u, "use")'
               PROVE  caches'[requests'[u].cache].name = requests'[u].model
    BY <1>2 DEF UseNamed
  <2>1. requests[u].model = requests[t].model /\ requests'[u].model = requests[u].model
    <3>1. Busy(u)
      BY <1>10 DEF AtStep, Busy
    <3> QED BY <1>1, <1>3, <1>10, <3>1 DEF NamesTell
  <2>2. CASE requests[u].cache = k
    BY <1>6, <1>8, <1>10, <2>1, <2>2
  <2>3. CASE requests[u].cache # k
    <3>1. u # t /\ requests'[u] = requests[u] /\ AtStep(u, "use")
      BY <1>9, <1>10, <2>3 DEF AtStep
    <3>2. requests[u].cache \in 1..Len(caches)
      BY <1>1, <3>1 DEF ThreadsInv, AtStep
    <3> QED BY <1>1, <1>8, <2>3, <3>1, <3>2 DEF ProbedNow, UseNamed
  <2> QED BY <2>2, <2>3
<1>15. ProbedNow'
  <2>1. \A u \in Threads : requests'[u].model = requests[u].model
                          /\ requests'[u].probe = requests[u].probe
    BY <1>9
  <2>2. ASSUME ~overlapped, probed.cache # 0, NEW c \in 1..Len(caches),
               caches[c].name = Settings(probed.name).model,
               caches[c].model = Settings(probed.name).model
        PROVE  /\ caches'[c].name = Settings(probed.name).model
               /\ caches'[c].model = Settings(probed.name).model
    <3>1. requests[t].model = Settings(probed.name).model
      BY <1>1, <1>3, <2>2 DEF ProbedNow, Smoked
    <3>2. CASE c = k
      BY <1>6, <1>8, <2>2, <3>1, <3>2
    <3>3. CASE c # k
      BY <1>8, <2>2, <3>3
    <3> QED BY <3>2, <3>3
  <2>3. Len(caches) \in Nat /\ Len(caches') \in Nat /\ Len(caches') >= Len(caches)
    BY <1>4, <1>8
  <2> QED BY <1>1, <1>2, <1>10, <1>14, <2>1, <2>2, <2>3, ProbeGoesOn
<1> QED BY <1>11, <1>12, <1>13, <1>15 DEF InferenceIInv

LEMMA LeavingKeepsInference ==
    ASSUME InferenceIInv, NEW t \in Threads, FailLoad(t) \/ Answer(t)
    PROVE  InferenceIInv'
<1>1. ThreadsInv /\ RoomForProviders /\ NamesTell /\ ProbedNow
  BY DEF InferenceIInv
<1>2. /\ requests[t].pc \in {"load", "use"} /\ requests' = [requests EXCEPT ![t] = IdleThread]
      /\ UNCHANGED <<machine, caches, current, overlapped, changes>>
  BY DEF FailLoad, Answer, AtStep
<1>3. /\ IdleThread \in Request /\ IdleThread.pc = "idle" /\ IdleThread.cache = 0
      /\ IdleThread.probe = NoProfile
  BY DEF IdleThread, Request
<1>4. /\ requests' \in [Threads -> Request] /\ requests'[t] = IdleThread
      /\ \A u \in Threads : u # t => requests'[u] = requests[u]
  BY <1>1, <1>2, <1>3, StepOf
<1>5. \A u \in Threads : Busy(u)' => u # t /\ Busy(u)
  BY <1>3, <1>4 DEF Busy
<1>6. ThreadsInv'
  <2>1. \A u \in Threads :
          /\ requests'[u].cache \in 0..Len(caches)
          /\ requests'[u].pc \in {"load", "name", "use"} => requests'[u].cache # 0
          /\ Busy(u)' => requests'[u].model \in Models
    BY <1>1, <1>3, <1>4, <1>5 DEF ThreadsInv
  <2> QED BY <1>1, <1>2, <1>4, <1>5, <2>1 DEF ThreadsInv
<1>7. RoomForProviders'
  <2>1. Making' \subseteq Making
    BY <1>3, <1>4 DEF Making, AtStep
  <2> QED BY <1>1, <1>2, <2>1, MakersStay
<1>8. NamesTell'
  <2> SUFFICES ASSUME ~overlapped PROVE NamesTell'
    BY <1>2 DEF NamesTell
  <2>1. answered'[1] = answered'[2]
    <3>1. CASE FailLoad(t)
      BY <1>1, <3>1 DEF FailLoad, NamesTell
    <3>2. CASE Answer(t)
      BY <1>1, <3>2 DEF Answer, AtStep, NamesTell
    <3> QED BY <3>1, <3>2
  <2>2. \A u, v \in Threads : Busy(u)' /\ Busy(v)' => requests'[u].model = requests'[v].model
    BY <1>1, <1>4, <1>5 DEF NamesTell
  <2>3. \A u \in Threads : requests'[u].pc \in {"name", "use"} =>
            caches[requests'[u].cache].model = requests'[u].model
    BY <1>1, <1>3, <1>4 DEF NamesTell
  <2>4. \A c \in 1..Len(caches) :
            \/ caches[c].name = NoModel \/ caches[c].name = caches[c].model
            \/ \E u \in Threads : AtStep(u, "name")' /\ requests'[u].cache = c
    <3>1. \A u \in Threads : AtStep(u, "name") => u # t
      BY <1>2 DEF AtStep
    <3> QED BY <1>1, <1>4, <3>1 DEF NamesTell, AtStep
  <2> QED BY <1>2, <2>1, <2>2, <2>3, <2>4 DEF NamesTell
<1>9. UseNamed'
  <2>1. \A u \in Threads : AtStep(u, "use")' => AtStep(u, "use") /\ requests'[u] = requests[u]
    BY <1>3, <1>4 DEF AtStep
  <2> QED BY <1>1, <1>2, <2>1 DEF ProbedNow, UseNamed
<1>10. CASE requests[t].probe = NoProfile
  <2>1. probed' = probed
    BY <1>10 DEF FailLoad, Answer, Tell
  <2>2. \A u \in Threads : Busy(u)' => Busy(u) /\ requests'[u].model = requests[u].model
    BY <1>4, <1>5
  <2>3. \A u \in Threads : requests'[u].probe # NoProfile =>
            requests'[u].probe = requests[u].probe /\ requests'[u].model = requests[u].model
    BY <1>3, <1>4
  <2>4. Len(caches) \in Nat
    BY <1>1 DEF ThreadsInv
  <2>5. ProbedNow'
    BY <1>1, <1>2, <1>9, <2>1, <2>2, <2>3, <2>4, ProbeGoesOn
  <2> QED BY <1>6, <1>7, <1>8, <2>5 DEF InferenceIInv
<1>11. CASE requests[t].probe # NoProfile
  <2> DEFINE k == requests[t].cache
             s == Settings(requests[t].probe)
  <2>1. PICK said \in BOOLEAN :
          /\ probed' = [name |-> requests[t].probe, smoke |-> TRUE, said |-> said, cache |-> k]
          /\ said => requests[t].pc = "use"
    BY <1>11 DEF FailLoad, Answer, Tell, AtStep
  <2>2. /\ probed'.name = requests[t].probe /\ probed'.cache = k /\ (probed'.said => said)
        /\ Settings(probed.name)' = s
    BY <2>1
  <2>3. Through(s, machine.server) /\ s.model = requests[t].model
    BY <1>1, <1>11 DEF ProbedNow, Smoking
  <2> HIDE DEF s
  <2>4. k \in 1..Len(caches) /\ k # 0 /\ Busy(t)
    BY <1>1, <1>2 DEF ThreadsInv, Busy
  <2>5. Refusals'
    BY <2>2, <2>4 DEF Refusals
  <2>6. Smoking'
    <3>1. \A u \in Threads : requests'[u].probe # NoProfile => u # t /\ requests'[u] = requests[u]
      BY <1>3, <1>4
    <3> QED BY <1>1, <1>2, <2>2, <2>3, <2>4, <3>1 DEF ProbedNow, Smoking
  <2>7. Smoked'
    <3> SUFFICES ASSUME ~overlapped
                 PROVE  /\ \A u \in Threads : Busy(u)' => requests'[u].model = s.model
                        /\ said => caches[k].name = s.model /\ caches[k].model = s.model
      BY <1>2, <2>2 DEF Smoked
    <3>1. \A u \in Threads : Busy(u)' => requests'[u].model = s.model
      BY <1>1, <1>4, <1>5, <2>3, <2>4 DEF NamesTell
    <3>2. ASSUME said PROVE caches[k].name = s.model /\ caches[k].model = s.model
      <4>1. requests[t].pc = "use"
        BY <2>1, <3>2
      <4> QED BY <1>1, <2>3, <4>1 DEF ProbedNow, UseNamed, AtStep, NamesTell
    <3> QED BY <3>1, <3>2
  <2> QED BY <1>6, <1>7, <1>8, <1>9, <2>5, <2>6, <2>7 DEF InferenceIInv, ProbedNow
<1> QED BY <1>10, <1>11

LEMMA ProbeKeepsInference ==
    ASSUME InferenceIInv, Probe
    PROVE  InferenceIInv'
<1>1. UNCHANGED <<machine, caches, current, requests, answered, overlapped, changes>>
  BY DEF Probe
<1>2. PICK name \in ProfileNames, smoke \in BOOLEAN :
        /\ ~(smoke /\ ThroughService(Settings(name)))
        /\ probed' = [name |-> name, smoke |-> smoke, cache |-> 0,
                      said |-> Available(Settings(name), smoke)]
  BY DEF Probe
<1> DEFINE s == Settings(name)
<1>3. probed'.cache = 0 /\ Settings(probed.name)' = s /\ (probed'.said <=> Available(s, smoke))
  BY <1>2
<1>4. ~(smoke /\ Through(s, machine.server))
  BY <1>2, ThroughTheService
<1> HIDE DEF s
<1>5. Available(s, smoke) \/ Refused(s, machine)
  <2> SUFFICES ASSUME ~Available(s, smoke), ~Hash(s.model) PROVE Refused(s, machine)
    BY DEF Refused
  <2>1. CASE s.provider \notin {"local_hash", "sentence_transformers", "command", "http"}
    BY <2>1 DEF Refused
  <2>2. CASE s.provider = "local_hash"
    BY <2>2 DEF Refused
  <2>3. CASE s.provider = "sentence_transformers"
    BY <2>3 DEF Refused, Available, Ready, DeviceThere, Embeds, Loads, Installed
  <2>4. CASE s.provider = "command"
    BY <2>4 DEF Refused, Available, Embeds
  <2>5. CASE s.provider = "http"
    <3> SUFFICES ASSUME Through(s, machine.server) PROVE FALSE
      BY <2>5 DEF Refused
    <3>1. ~smoke /\ s.target = "service"
      BY <1>4 DEF Through
    <3> QED BY <2>5, <3>1 DEF Available
  <2> QED BY <2>1, <2>2, <2>3, <2>4, <2>5
<1>6. Refusals'
  BY <1>1, <1>3, <1>5 DEF Refusals
<1>7. Smoking'
  BY <1>1, <1>3 DEF InferenceIInv, ProbedNow, Smoking
<1>8. UseNamed' /\ Smoked'
  BY <1>1, <1>3 DEF InferenceIInv, ProbedNow, UseNamed, AtStep, Smoked
<1>9. ThreadsInv'
  BY <1>1 DEF InferenceIInv, ThreadsInv, Busy
<1>10. RoomForProviders' /\ NamesTell'
  BY <1>1 DEF InferenceIInv, RoomForProviders, Making, AtStep, NamesTell, Busy
<1> QED BY <1>6, <1>7, <1>8, <1>9, <1>10 DEF InferenceIInv, ProbedNow

(* With no request in, nothing is told wrong.                              *)
LEMMA AllIdle ==
    ASSUME requests' \in [Threads -> Request], \A t \in Threads : requests'[t].pc = "idle",
           caches' = <<>> \/ caches' = <<Empty>>, answered'[1] = answered'[2]
    PROVE  RoomForProviders' /\ NamesTell'
<1>1. Making' = {}
  BY DEF Making, AtStep
<1>2. Cardinality(Threads) \in Nat /\ Cardinality(Threads) # 0
  BY InferenceAssumption, FS_CardinalityType, FS_EmptySet
<1>3. Cardinality(Making') = 0
  BY <1>1, FS_EmptySet
<1>4. Len(caches') = 0 \/ Len(caches') = 1
  OBVIOUS
<1>5. RoomForProviders'
  <2>1. Len(caches') + Cardinality(Making') <= Cardinality(Threads)
    <3>1. \A a, b, c \in Nat : (a = 0 \/ a = 1) /\ b = 0 /\ c # 0 => a + b <= c
      OBVIOUS
    <3>2. Len(caches') \in Nat /\ Cardinality(Making') \in Nat
      BY <1>3, <1>4
    <3> QED BY <1>2, <1>3, <1>4, <3>1, <3>2
  <2> QED BY <2>1 DEF RoomForProviders
<1>6. \A c \in 1..Len(caches') : caches'[c].name = NoModel
  <2>1. CASE caches' = <<>>
    BY <2>1
  <2>2. CASE caches' = <<Empty>>
    BY <2>2 DEF Empty
  <2> QED BY <2>1, <2>2
<1>7. NamesTell'
  BY <1>6 DEF NamesTell, Busy
<1> QED BY <1>5, <1>7

(* With no request in and nothing probed, no probe tells wrong.            *)
LEMMA NothingProbed ==
    ASSUME \A t \in Threads : requests'[t].pc = "idle" /\ requests'[t].probe = NoProfile,
           probed' = NoProbe
    PROVE  ProbedNow'
BY DEF ProbedNow, UseNamed, AtStep, Refusals, Smoking, Smoked, NoProbe

LEMMA MachineKeepsInference ==
    ASSUME InferenceIInv, ChangePackages \/ StartService \/ StopService
    PROVE  InferenceIInv'
<1>1. ThreadsInv /\ RoomForProviders /\ NamesTell /\ ProbedNow /\ machine \in Machine
  BY DEF InferenceIInv, ThreadsInv
<1>3. CASE ChangePackages
  <2>1. machine' \in Machine /\ machine'.server = machine.server
    <3> DEFINE packages(p) == IF p \in machine.packages THEN machine.packages \ {p}
                              ELSE machine.packages \union {p}
               works(m) == IF m \in machine.works THEN machine.works \ {m}
                           ELSE machine.works \union {m}
    <3>1. CASE \E p \in {"sentence_transformers", "torch"} :
                 machine' = [machine EXCEPT !.packages = packages(p)]
      <4>1. PICK p \in {"sentence_transformers", "torch"} :
              machine' = [machine EXCEPT !.packages = packages(p)]
        BY <3>1
      <4>2. packages(p) \subseteq {"sentence_transformers", "torch"}
        BY <1>1 DEF Machine
      <4> HIDE DEF packages
      <4> QED BY <1>1, <4>1, <4>2 DEF Machine
    <3>2. CASE machine' = [machine EXCEPT !.cuda = ~machine.cuda]
      BY <1>1, <3>2 DEF Machine
    <3>3. CASE \E m \in Models : machine' = [machine EXCEPT !.works = works(m)]
      <4>1. PICK m \in Models : machine' = [machine EXCEPT !.works = works(m)]
        BY <3>3
      <4>2. works(m) \subseteq Models
        BY <1>1 DEF Machine
      <4> HIDE DEF works
      <4> QED BY <1>1, <4>1, <4>2 DEF Machine
    <3> QED BY <1>3, <3>1, <3>2, <3>3 DEF ChangePackages
  <2>2. UNCHANGED <<caches, current, requests, answered, overlapped>>
    BY <1>3 DEF ChangePackages
  <2>3. ThreadsInv'
    BY <1>1, <2>1, <2>2 DEF ThreadsInv, Busy
  <2>4. RoomForProviders' /\ NamesTell'
    BY <1>1, <2>2 DEF RoomForProviders, Making, AtStep, NamesTell, Busy
  <2>5. UseNamed'
    BY <1>1, <2>2 DEF ProbedNow, UseNamed, AtStep
  <2>6. \/ probed.cache = 0 /\ probed' = NoProbe /\ probed'.cache = 0
        \/ probed.cache # 0 /\ probed' = probed
    BY <1>3 DEF ChangePackages, Outdate, NoProbe
  <2>7. Refusals'
    BY <2>6 DEF Refusals
  <2>8. Smoked'
    <3>1. CASE probed.cache = 0
      BY <2>6, <3>1 DEF Smoked
    <3>2. CASE probed.cache # 0
      <4>1. probed' = probed
        BY <2>6, <3>2
      <4> QED BY <1>1, <2>2, <4>1 DEF ProbedNow, Smoked, Busy
    <3> QED BY <3>1, <3>2
  <2>9. Smoking'
    BY <1>1, <2>1, <2>2, <2>6 DEF ProbedNow, Smoking
  <2> QED BY <2>3, <2>4, <2>5, <2>7, <2>8, <2>9 DEF InferenceIInv, ProbedNow
<1>4. CASE StartService
  <2>1. PICK kind \in Providers :
          /\ machine' = [machine EXCEPT !.server = kind]
          /\ current' = IF kind = "local_hash" THEN 0 ELSE 1
          /\ caches' = IF kind = "local_hash" THEN <<>> ELSE <<Empty>>
    BY <1>4 DEF StartService
  <2>2. machine.server = Down /\ UNCHANGED <<requests, answered, overlapped>>
    BY <1>4 DEF StartService
  <2>3. \A t \in Threads : requests'[t].pc = "idle"
    BY <1>1, <2>2 DEF ThreadsInv, Busy
  <2>4. machine' \in Machine /\ machine'.server # Down
    BY <1>1, <2>1 DEF Machine, Providers, Down
  <2>5. Empty \in Cache
    BY DEF Empty, Cache
  <2>6. /\ caches' \in Seq(Cache) /\ current' \in 0..Len(caches')
        /\ current' = 0 => caches' = <<>>
    BY <2>1, <2>5
  <2>7. \A t \in Threads : requests[t].cache = 0
    <3>1. caches = <<>>
      BY <1>1, <2>2 DEF ThreadsInv
    <3> QED BY <1>1, <3>1 DEF ThreadsInv
  <2>8. ThreadsInv'
    BY <1>1, <2>2, <2>3, <2>4, <2>6, <2>7 DEF ThreadsInv, Busy
  <2>9. answered[1] = answered[2] \/ overlapped
    BY <1>1 DEF NamesTell
  <2>10. RoomForProviders' /\ NamesTell'
    <3>1. requests' \in [Threads -> Request]
      BY <1>1, <2>2 DEF ThreadsInv
    <3>2. CASE ~overlapped
      BY <2>1, <2>2, <2>3, <2>9, <3>1, <3>2, AllIdle
    <3>3. CASE overlapped
      <4>1. Cardinality(Threads) \in Nat /\ Cardinality(Threads) # 0
        BY InferenceAssumption, FS_CardinalityType, FS_EmptySet
      <4>2. Making' = {} /\ Cardinality({}) = 0
        BY <2>3, FS_EmptySet DEF Making, AtStep
      <4>3. Len(caches') \in {0, 1}
        BY <2>1
      <4>4. Cardinality(Making') = 0
        BY <4>2
      <4>5. RoomForProviders'
        BY <4>1, <4>3, <4>4 DEF RoomForProviders
      <4> QED BY <2>2, <3>3, <4>5 DEF NamesTell
    <3> QED BY <1>1, <3>2, <3>3
  <2>11. probed' = NoProbe
    <3>1. probed.cache = 0
      <4>1. Len(caches) = 0
        BY <1>1, <2>2 DEF ThreadsInv
      <4> QED BY <1>1, <4>1 DEF ProbedNow, Smoking
    <3> QED BY <1>4, <3>1 DEF StartService, Outdate
  <2>12. \A t \in Threads : requests'[t].probe = NoProfile
    <3>1. \A x : ~Through(x, machine.server)
      BY <2>2 DEF Through
    <3> QED BY <1>1, <2>2, <3>1 DEF ProbedNow, Smoking
  <2>13. ProbedNow'
    BY <2>3, <2>11, <2>12, NothingProbed
  <2> QED BY <2>8, <2>10, <2>13 DEF InferenceIInv
<1>5. CASE StopService
  <2>1. /\ machine' = [machine EXCEPT !.server = Down]
        /\ requests' = [t \in Threads |-> IdleThread] /\ caches' = <<>> /\ current' = 0
        /\ answered' = NoAnswer /\ overlapped' = FALSE /\ probed' = NoProbe
    BY <1>5 DEF StopService
  <2>2. /\ IdleThread \in Request /\ IdleThread.pc = "idle" /\ IdleThread.cache = 0
        /\ IdleThread.probe = NoProfile
    BY DEF IdleThread, Request
  <2>3. requests' \in [Threads -> Request] /\ \A t \in Threads : requests'[t] = IdleThread
    BY <2>1, <2>2
  <2>4. machine' \in Machine
    BY <1>1, <2>1 DEF Machine
  <2>5. ThreadsInv'
    <3>1. caches' \in Seq(Cache) /\ Len(caches') = 0
      BY <2>1
    <3>2. \A t \in Threads : requests'[t].pc = "idle" /\ requests'[t].cache = 0
      BY <2>2, <2>3
    <3>3. current' = 0 /\ overlapped' = FALSE /\ caches' = <<>>
      BY <2>1
    <3>4. current' \in 0..Len(caches') /\ (current' = 0 => caches' = <<>>)
      BY <3>1, <3>3
    <3>5. \A t \in Threads :
            /\ requests'[t].cache \in 0..Len(caches')
            /\ requests'[t].pc \in {"load", "name", "use"} => requests'[t].cache # 0
            /\ Busy(t)' => requests'[t].model \in Models
            /\ ~Busy(t)'
      BY <3>1, <3>2 DEF Busy
    <3>6. overlapped' \in BOOLEAN /\ caches' \in Seq(Cache) /\ current' = 0
      BY <3>1, <3>3
    <3> QED BY <2>3, <2>4, <3>4, <3>5, <3>6 DEF ThreadsInv
  <2>6. answered'[1] = answered'[2]
    BY <2>1 DEF NoAnswer
  <2>7. RoomForProviders' /\ NamesTell'
    BY <2>1, <2>2, <2>3, <2>6, AllIdle
  <2>8. ProbedNow'
    BY <2>1, <2>2, <2>3, NothingProbed
  <2> QED BY <2>5, <2>7, <2>8 DEF InferenceIInv
<1> QED BY <1>3, <1>4, <1>5

LEMMA InferenceStarts == InferenceInit => InferenceIInv
<1> SUFFICES ASSUME InferenceInit PROVE InferenceIInv
  OBVIOUS
<1>1. /\ IdleThread \in Request /\ IdleThread.pc = "idle" /\ IdleThread.cache = 0
      /\ IdleThread.probe = NoProfile
  BY DEF IdleThread, Request
<1>2. requests \in [Threads -> Request] /\ \A t \in Threads : requests[t] = IdleThread
  BY <1>1 DEF InferenceInit
<1>3. machine \in Machine
  BY DEF InferenceInit, Machine
<1>4. ThreadsInv
  <2>1. caches = <<>> /\ current = 0 /\ overlapped = FALSE
    BY DEF InferenceInit
  <2>2. caches \in Seq(Cache) /\ Len(caches) = 0
    BY <2>1
  <2>3. \A t \in Threads : requests[t].pc = "idle" /\ requests[t].cache = 0
    BY <1>1, <1>2
  <2>4. current \in 0..Len(caches) /\ (current = 0 => caches = <<>>)
    BY <2>1, <2>2
  <2>5. \A t \in Threads :
          /\ requests[t].cache \in 0..Len(caches)
          /\ requests[t].pc \in {"load", "name", "use"} => requests[t].cache # 0
          /\ Busy(t) => requests[t].model \in Models
          /\ ~Busy(t)
    BY <2>2, <2>3 DEF Busy
  <2>6. overlapped \in BOOLEAN /\ caches \in Seq(Cache) /\ current = 0
    BY <2>1, <2>2
  <2> QED BY <1>2, <1>3, <2>4, <2>5, <2>6 DEF ThreadsInv
<1>5. Making = {} /\ Cardinality({}) = 0
  BY <1>1, <1>2, FS_EmptySet DEF Making, AtStep
<1>6. Cardinality(Threads) \in Nat
  BY InferenceAssumption, FS_CardinalityType
<1>7. RoomForProviders
  BY <1>5, <1>6 DEF RoomForProviders, InferenceInit
<1>8. NamesTell
  BY <1>1, <1>2 DEF InferenceInit, NamesTell, Busy, NoAnswer
<1>9. ProbedNow
  BY <1>1, <1>2 DEF InferenceInit, ProbedNow, NoProbe, UseNamed, AtStep, Refusals, Smoking, Smoked
<1> QED BY <1>4, <1>7, <1>8, <1>9 DEF InferenceIInv

LEMMA InferenceInductive ==
    InferenceIInv /\ [InferenceNext]_inferenceVars => InferenceIInv'
<1>1. ASSUME InferenceIInv, InferenceNext PROVE InferenceIInv'
  <2>1. ASSUME NEW t \in Threads,
               \/ ReceiveRequest(t) \/ MakeProvider(t) \/ KeepProvider(t) \/ CheckCache(t)
               \/ StoreModel(t) \/ StoreName(t) \/ FailLoad(t) \/ Answer(t)
        PROVE  InferenceIInv'
    BY <1>1, <2>1, RequestKeepsInference, ProviderKeepsInference, CheckKeepsInference,
       StoreModelKeepsInference, StoreNameKeepsInference, LeavingKeepsInference
  <2> QED BY <1>1, <2>1, ProbeKeepsInference, MachineKeepsInference DEF InferenceNext
<1>2. ASSUME InferenceIInv, UNCHANGED inferenceVars PROVE InferenceIInv'
  <2>1. ThreadsInv'
    BY <1>2 DEF InferenceIInv, ThreadsInv, Busy, inferenceVars
  <2>2. RoomForProviders' /\ NamesTell'
    BY <1>2 DEF InferenceIInv, RoomForProviders, Making, AtStep, NamesTell, Busy, inferenceVars
  <2>3. UNCHANGED <<machine, caches, current, requests, overlapped, probed>>
    BY <1>2 DEF inferenceVars
  <2>4. UseNamed' /\ Refusals' /\ Smoking' /\ Smoked'
    BY <1>2, <2>3 DEF InferenceIInv, ProbedNow, UseNamed, AtStep, Refusals, Smoking, Smoked, Busy
  <2> QED BY <2>1, <2>2, <2>4 DEF InferenceIInv, ProbedNow
<1> QED BY <1>1, <1>2

LEMMA InferenceTyped == InferenceIInv => InferenceTypeOK
<1> SUFFICES ASSUME InferenceIInv PROVE InferenceTypeOK
  OBVIOUS
<1>1. ThreadsInv /\ RoomForProviders
  BY DEF InferenceIInv
<1>2. Cardinality(Making) \in Nat /\ Cardinality(Threads) \in Nat /\ Len(caches) \in Nat
  BY <1>1, InferenceAssumption, FS_Subset, FS_CardinalityType DEF Making, ThreadsInv
<1> QED BY <1>1, <1>2 DEF InferenceTypeOK, ThreadsInv, RoomForProviders

LEMMA InferenceTells == InferenceIInv => ProvidersStand
<1> SUFFICES ASSUME InferenceIInv PROVE RightModel /\ ProbeHolds
  BY DEF ProvidersStand
<1>1. RightModel
  BY DEF InferenceIInv, NamesTell, RightModel
<1>2. ProbeHolds
  <2> DEFINE s == Settings(probed.name)
  <2>1. ASSUME probed.said, probed.cache # 0, probed.cache = current, ~overlapped
        PROVE  Embeds(s) /\ Loaded(s.model) /\ caches[current].model = s.model
    <3>1. caches[current].name = s.model /\ caches[current].model = s.model
      BY <2>1 DEF InferenceIInv, ProbedNow, Smoked
    <3>2. Through(s, machine.server)
      BY <2>1 DEF InferenceIInv, ProbedNow, Smoking
    <3>3. current > 0
      BY <2>1 DEF InferenceIInv, ThreadsInv
    <3> HIDE DEF s
    <3>4. Loaded(s.model)
      BY <3>1, <3>3 DEF Loaded
    <3>5. s.provider = "http" /\ s.target = "service" /\ ServerEmbeds(s.model)
      BY <3>2, <3>4 DEF Through, ServerEmbeds, Loadable
    <3>6. Embeds(s)
      BY <3>5 DEF Embeds
    <3> QED BY <3>1, <3>4, <3>6
  <2>2. ASSUME probed # NoProbe, probed.cache = 0, ~probed.said, Embeds(s)
        PROVE  Hash(s.model)
    <3>1. Refused(s, machine)
      BY <2>2 DEF InferenceIInv, ProbedNow, Refusals
    <3>2. Embeds(s)
      BY <2>2
    <3> HIDE DEF s
    <3>3. CASE s.provider = "http" /\ ~Through(s, machine.server)
      BY <3>2, <3>3 DEF Embeds, ServerEmbeds, Loadable, Through
    <3>4. CASE s.provider = "local_hash"
      BY <3>2, <3>4 DEF Embeds
    <3>5. CASE /\ s.provider = "sentence_transformers"
               /\ ~(/\ machine.packages = {"sentence_transformers", "torch"}
                    /\ s.model \in machine.works /\ (s.device = "cuda" => machine.cuda))
      BY <3>2, <3>5 DEF Embeds, Loads, Installed
    <3>6. CASE s.provider = "command" /\ ~(s.target # "" /\ s.model \in machine.works)
      BY <3>2, <3>6 DEF Embeds
    <3>7. CASE s.provider \notin {"local_hash", "sentence_transformers", "command", "http"}
      BY <3>2, <3>7 DEF Embeds
    <3> QED BY <3>1, <3>3, <3>4, <3>5, <3>6, <3>7 DEF Refused
  <2> QED BY <2>1, <2>2 DEF ProbeHolds
<1> QED BY <1>1, <1>2

(* The loopback service makes no more providers than it answers requests   *)
(* at a time, and what a request holds is one of them                      *)
(* (service/inference.py).                                                 *)
THEOREM InferenceTypeCorrect == InferenceSpec => []InferenceTypeOK
BY InferenceStarts, InferenceInductive, InferenceTyped, PTL DEF InferenceSpec

(* A request gets the vectors of the model it asks for, however many       *)
(* threads share the provider, until two ask for different models at once  *)
(* (_load_model); after a smoke test that went well the service goes on    *)
(* embedding with that model, whatever is uninstalled, and what a probe    *)
(* refused embeds nothing (probe_embedding_provider).                      *)
THEOREM ProvidersKeepTheirWord == InferenceSpec => []ProvidersStand
BY InferenceStarts, InferenceInductive, InferenceTells, PTL DEF InferenceSpec

-----------------------------------------------------------------------------
(* The checks of an installation and the status of a tenant.  What the     *)
(* domains of the facts are:                                               *)

LEMMA DomainsAre ==
    /\ DOMAIN Domains = {"config", "db", "tenant", "launchers", "coreUnits", "mcp", "api",
                         "timer", "synced", "tokens", "unitFiles", "units", "duplicates",
                         "heartbeat", "queues", "reconcile", "stale"}
    /\ Domains.config = {"ok", "missing", "invalid"}
    /\ Domains.db = {"ok", "missing", "unreadable"}
    /\ Domains.mcp = {"ok", "fails", "fails at once"}
    /\ \A fact \in {"tenant", "launchers", "coreUnits", "api", "timer", "synced", "tokens",
                    "unitFiles", "units", "duplicates"} : Domains[fact] = BOOLEAN
BY DEF Domains

(* An installation has each fact in one of its values.                     *)
Installed_(f) ==
    /\ f = [fact \in DOMAIN Domains |-> f[fact]]
    /\ \A fact \in DOMAIN Domains : f[fact] \in Domains[fact]

ChecksInv == Installed_(found) /\ breaks \in 0 .. MaxBreaks

LEMMA FactSet ==
    ASSUME NEW f, Installed_(f), NEW fact \in DOMAIN Domains, NEW value \in Domains[fact]
    PROVE  Installed_([f EXCEPT ![fact] = value])
BY DEF Installed_

LEMMA InIf == \A k, code : \A b \in BOOLEAN : code \in If(b, k) <=> (b /\ code = k)
BY DEF If

LEMMA FactTypes ==
    ASSUME NEW f, Installed_(f)
    PROVE  /\ f.config \in {"ok", "missing", "invalid"} /\ f.db \in {"ok", "missing", "unreadable"}
           /\ f.mcp \in {"ok", "fails", "fails at once"}
           /\ f.tenant \in BOOLEAN /\ f.launchers \in BOOLEAN /\ f.coreUnits \in BOOLEAN
           /\ f.api \in BOOLEAN /\ f.timer \in BOOLEAN /\ f.synced \in BOOLEAN
           /\ f.tokens \in BOOLEAN /\ f.unitFiles \in BOOLEAN /\ f.units \in BOOLEAN
           /\ f.duplicates \in BOOLEAN
BY DomainsAre DEF Installed_

(* Restarting units changes no more than whether they run.                 *)
LEMMA RestartsFacts ==
    ASSUME NEW f, Installed_(f), NEW plan
    PROVE  LET g == AfterRestarts(f, plan) IN
           /\ Installed_(g)
           /\ g.api = (f.api \/ ("RESTART_API_UNIT" \in plan /\ f.coreUnits))
           /\ g.timer = (f.timer \/ ("ENABLE_SNAPSHOT_TIMER" \in plan /\ f.coreUnits))
           /\ g.units = (f.units \/ ("RESTART_WORKSPACE_UNITS" \in plan /\ f.unitFiles))
           /\ g.config = f.config /\ g.db = f.db /\ g.tenant = f.tenant
           /\ g.launchers = f.launchers /\ g.coreUnits = f.coreUnits /\ g.mcp = f.mcp
           /\ g.unitFiles = f.unitFiles
<1> DEFINE a == f.api \/ ("RESTART_API_UNIT" \in plan /\ f.coreUnits)
           t == f.timer \/ ("ENABLE_SNAPSHOT_TIMER" \in plan /\ f.coreUnits)
           u == f.units \/ ("RESTART_WORKSPACE_UNITS" \in plan /\ f.unitFiles)
           g == [f EXCEPT !.api = a, !.timer = t, !.units = u]
<1>1. a \in BOOLEAN /\ t \in BOOLEAN /\ u \in BOOLEAN
  OBVIOUS
<1>2. g = AfterRestarts(f, plan)
  BY DEF AfterRestarts
<1> HIDE DEF a, t, u
<1>3. Installed_(g)
  <2>1. g = [[[f EXCEPT !["api"] = a] EXCEPT !["timer"] = t] EXCEPT !["units"] = u]
    OBVIOUS
  <2>2. Installed_([f EXCEPT !["api"] = a])
    BY <1>1, FactSet, DomainsAre
  <2>3. Installed_([[f EXCEPT !["api"] = a] EXCEPT !["timer"] = t])
    BY <1>1, <2>2, FactSet, DomainsAre
  <2>4. Installed_([[[f EXCEPT !["api"] = a] EXCEPT !["timer"] = t] EXCEPT !["units"] = u])
    BY <1>1, <2>3, FactSet, DomainsAre
  <2> QED BY <2>1, <2>4
<1>4. /\ g.api = a /\ g.timer = t /\ g.units = u
      /\ g.config = f.config /\ g.db = f.db /\ g.tenant = f.tenant
      /\ g.launchers = f.launchers /\ g.coreUnits = f.coreUnits /\ g.mcp = f.mcp
      /\ g.unitFiles = f.unitFiles
  BY DomainsAre DEF Installed_
<1> QED BY <1>2, <1>3, <1>4 DEF a, t, u

LEMMA UpdateFacts ==
    ASSUME NEW f, Installed_(f)
    PROVE  LET g == AfterUpdate(f) IN
           /\ Installed_(g)
           /\ (f.config = "ok" /\ f.db = "ok") =>
                /\ g.config = "ok" /\ g.db = "ok" /\ g.launchers /\ g.coreUnits /\ g.mcp = "ok"
                /\ g.api /\ g.timer /\ g.tenant = f.tenant
                /\ g.units = f.units /\ g.unitFiles = f.unitFiles
<1> DEFINE c == IF f.config = "missing" THEN "ok" ELSE f.config
           w == [f EXCEPT !.launchers = TRUE, !.coreUnits = TRUE, !.mcp = "ok", !.config = c]
           d == [w EXCEPT !.db = "ok", !.synced = TRUE, !.api = TRUE, !.timer = TRUE]
<1>1. AfterUpdate(f) = IF f.config = "invalid" \/ f.db = "unreadable" THEN w ELSE d
  BY DEF AfterUpdate
<1>2. Installed_(w)
  <2>1. c \in Domains["config"]
    BY FactTypes, DomainsAre
  <2> HIDE DEF c
  <2>2. w = [[[[f EXCEPT !["launchers"] = TRUE] EXCEPT !["coreUnits"] = TRUE]
               EXCEPT !["mcp"] = "ok"] EXCEPT !["config"] = c]
    OBVIOUS
  <2>3. Installed_([f EXCEPT !["launchers"] = TRUE])
    BY FactSet, DomainsAre
  <2>4. Installed_([[f EXCEPT !["launchers"] = TRUE] EXCEPT !["coreUnits"] = TRUE])
    BY <2>3, FactSet, DomainsAre
  <2>5. Installed_([[[f EXCEPT !["launchers"] = TRUE] EXCEPT !["coreUnits"] = TRUE]
                    EXCEPT !["mcp"] = "ok"])
    BY <2>4, FactSet, DomainsAre
  <2>6. Installed_([[[[f EXCEPT !["launchers"] = TRUE] EXCEPT !["coreUnits"] = TRUE]
                    EXCEPT !["mcp"] = "ok"] EXCEPT !["config"] = c])
    BY <2>1, <2>5, FactSet, DomainsAre
  <2> QED BY <2>2, <2>6
<1>3. /\ w.launchers = TRUE /\ w.coreUnits = TRUE /\ w.mcp = "ok" /\ w.config = c
      /\ w.tenant = f.tenant /\ w.units = f.units /\ w.unitFiles = f.unitFiles /\ w.db = f.db
  BY DomainsAre DEF Installed_
<1> HIDE DEF w
<1>4. Installed_(d)
  <2>1. d = [[[[w EXCEPT !["db"] = "ok"] EXCEPT !["synced"] = TRUE]
               EXCEPT !["api"] = TRUE] EXCEPT !["timer"] = TRUE]
    OBVIOUS
  <2>2. Installed_([w EXCEPT !["db"] = "ok"])
    BY <1>2, FactSet, DomainsAre
  <2>3. Installed_([[w EXCEPT !["db"] = "ok"] EXCEPT !["synced"] = TRUE])
    BY <2>2, FactSet, DomainsAre
  <2>4. Installed_([[[w EXCEPT !["db"] = "ok"] EXCEPT !["synced"] = TRUE] EXCEPT !["api"] = TRUE])
    BY <2>3, FactSet, DomainsAre
  <2>5. Installed_([[[[w EXCEPT !["db"] = "ok"] EXCEPT !["synced"] = TRUE]
                    EXCEPT !["api"] = TRUE] EXCEPT !["timer"] = TRUE])
    BY <2>4, FactSet, DomainsAre
  <2> QED BY <2>1, <2>5
<1>5. /\ d.db = "ok" /\ d.api = TRUE /\ d.timer = TRUE
      /\ d.launchers = w.launchers /\ d.coreUnits = w.coreUnits /\ d.mcp = w.mcp
      /\ d.config = w.config /\ d.tenant = w.tenant /\ d.units = w.units
      /\ d.unitFiles = w.unitFiles
  BY <1>2, DomainsAre DEF Installed_
<1> HIDE DEF d
<1> QED BY <1>1, <1>2, <1>3, <1>4, <1>5

LEMMA ChecksInductive ==
    /\ ChecksInit => ChecksInv
    /\ ChecksInv /\ [ChecksNext]_checkVars => ChecksInv'
<1>1. ASSUME ChecksInit PROVE ChecksInv
  <2>1. Installed_(Sound)
    <3>1. DOMAIN Sound = DOMAIN Domains /\ Sound = [fact \in DOMAIN Sound |-> Sound[fact]]
      BY DomainsAre DEF Sound
    <3>2. \A fact \in DOMAIN Domains : Sound[fact] \in Domains[fact]
      <4>1. /\ Domains.heartbeat = {"fresh", "stale", "missing"}
            /\ Domains.queues = {"empty", "pending", "backlog", "error", "uninspectable"}
            /\ Domains.reconcile = {"fine", "warnings", "failures"}
            /\ Domains.stale = {"none", "quiet", "empty"}
        BY DEF Domains
      <4>2. /\ Sound.config = "ok" /\ Sound.db = "ok" /\ Sound.mcp = "ok"
            /\ Sound.heartbeat = "fresh" /\ Sound.queues = "empty"
            /\ Sound.reconcile = "fine" /\ Sound.stale = "none"
            /\ \A fact \in {"tenant", "launchers", "coreUnits", "api", "timer", "synced", "tokens",
                           "unitFiles", "units", "duplicates"} : Sound[fact] \in BOOLEAN
        BY DEF Sound
      <4>3. \A fact \in {"tenant", "launchers", "coreUnits", "api", "timer", "synced", "tokens",
                          "unitFiles", "units", "duplicates"} : Sound[fact] \in Domains[fact]
        BY <4>2, DomainsAre
      <4>4. /\ Sound["config"] \in Domains["config"] /\ Sound["db"] \in Domains["db"]
            /\ Sound["mcp"] \in Domains["mcp"]
        BY <4>2, DomainsAre
      <4>5. /\ Sound["heartbeat"] \in Domains["heartbeat"] /\ Sound["queues"] \in Domains["queues"]
            /\ Sound["reconcile"] \in Domains["reconcile"] /\ Sound["stale"] \in Domains["stale"]
        BY <4>1, <4>2
      <4> QED BY <4>3, <4>4, <4>5, DomainsAre
    <3> QED BY <3>1, <3>2 DEF Installed_
  <2> QED BY <1>1, <2>1, ChecksAssumption DEF ChecksInit, ChecksInv
<1>2. ASSUME ChecksInv, Recover PROVE ChecksInv'
  <2>1. Installed_(AfterRestarts(found, Plan(found)))
    BY <1>2, RestartsFacts DEF ChecksInv
  <2>2. Installed_(AfterUpdate(AfterRestarts(found, Plan(found))))
    BY <2>1, UpdateFacts
  <2> QED BY <1>2, <2>1, <2>2 DEF Recover, Recovered, ChecksInv
<1>3. ASSUME ChecksInv, Break PROVE ChecksInv'
  <2>0. PICK fact \in DOMAIN Domains :
          \E value \in Domains[fact] : found' = [found EXCEPT ![fact] = value]
    BY <1>3 DEF Break
  <2>1. PICK value \in Domains[fact] : found' = [found EXCEPT ![fact] = value]
    BY <2>0
  <2>2. Installed_(found')
    BY <1>3, <2>1, FactSet DEF ChecksInv
  <2>3. breaks' \in 0 .. MaxBreaks
    BY <1>3, ChecksAssumption DEF Break, ChecksInv
  <2> QED BY <2>2, <2>3 DEF ChecksInv
<1>4. ASSUME ChecksInv, UNCHANGED checkVars PROVE ChecksInv'
  BY <1>4 DEF ChecksInv, checkVars
<1> QED BY <1>1, <1>2, <1>3, <1>4 DEF ChecksNext

(* What is planned of an installation whose config and database can be     *)
(* looked behind.                                                          *)
LEMMA PlannedFrom ==
    ASSUME NEW f, Installed_(f), StopsEarly(f) = {}, f.db = "ok"
    PROVE  /\ "WRAPPER_MISSING" \in CheckLive(f) <=> ~f.launchers
           /\ "MCP_SMOKE_FAILED" \in CheckLive(f) <=> f.launchers /\ f.mcp = "fails"
           /\ "SERVICE_FILE_MISSING" \in CheckLive(f) <=> ~f.coreUnits
           /\ "API_UNIT_INACTIVE" \in CheckLive(f) <=> ~f.api
           /\ "SNAPSHOT_TIMER_INACTIVE" \in CheckLive(f) <=> f.coreUnits /\ ~f.timer
           /\ "LIVE_UNIT_INACTIVE" \in CheckLive(f) <=> ~f.units
<1>1. Issues(f, TRUE, TRUE) = If(~f.coreUnits, "API_UNIT_MISSING")
          \union If(~f.api, "API_UNIT_INACTIVE") \union TenantIssues(f, TRUE, TRUE)
  BY DEF Issues
<1>2. /\ "WRAPPER_MISSING" \notin TenantIssues(f, TRUE, TRUE)
      /\ "MCP_SMOKE_FAILED" \notin TenantIssues(f, TRUE, TRUE)
      /\ "SERVICE_FILE_MISSING" \notin TenantIssues(f, TRUE, TRUE)
      /\ "API_UNIT_INACTIVE" \notin TenantIssues(f, TRUE, TRUE)
      /\ "SNAPSHOT_TIMER_INACTIVE" \notin TenantIssues(f, TRUE, TRUE)
      /\ "LIVE_UNIT_INACTIVE" \in TenantIssues(f, TRUE, TRUE) <=> ~f.units
  BY DEF TenantIssues, If
<1>3. /\ "WRAPPER_MISSING" \in RuntimeIssues(f) <=> ~f.launchers
      /\ "MCP_SMOKE_FAILED" \in RuntimeIssues(f) <=> f.launchers /\ f.mcp = "fails"
      /\ "SERVICE_FILE_MISSING" \in RuntimeIssues(f) <=> ~f.coreUnits
      /\ "API_UNIT_INACTIVE" \notin RuntimeIssues(f)
      /\ "SNAPSHOT_TIMER_INACTIVE" \in RuntimeIssues(f) <=> f.coreUnits /\ ~f.timer
      /\ "LIVE_UNIT_INACTIVE" \notin RuntimeIssues(f)
  BY DEF RuntimeIssues, If
<1> QED BY <1>1, <1>2, <1>3 DEF CheckLive, If

LEMMA RemedyOf ==
    ASSUME NEW f, NEW remedy \in Plan(f)
    PROVE  /\ remedy \in {"REFRESH_MANAGED_RUNTIME", "RESTART_API_UNIT",
                          "ENABLE_SNAPSHOT_TIMER", "RESTART_WORKSPACE_UNITS"}
           /\ remedy = "REFRESH_MANAGED_RUNTIME" => \E code \in Refreshed : code \in CheckLive(f)
           /\ remedy = "RESTART_API_UNIT" => "API_UNIT_INACTIVE" \in CheckLive(f)
           /\ remedy = "ENABLE_SNAPSHOT_TIMER" => "SNAPSHOT_TIMER_INACTIVE" \in CheckLive(f)
           /\ remedy = "RESTART_WORKSPACE_UNITS" => "LIVE_UNIT_INACTIVE" \in CheckLive(f)
<1>1. PICK code \in CheckLive(f) : remedy = Remedy(code) /\ remedy # "operator"
  BY DEF Plan
<1> QED BY <1>1 DEF Remedy

LEMMA InPlan ==
    ASSUME NEW f, NEW code \in CheckLive(f)
    PROVE  /\ code \in Refreshed => "REFRESH_MANAGED_RUNTIME" \in Plan(f)
           /\ code = "API_UNIT_INACTIVE" => "RESTART_API_UNIT" \in Plan(f)
           /\ code = "SNAPSHOT_TIMER_INACTIVE" => "ENABLE_SNAPSHOT_TIMER" \in Plan(f)
           /\ code = "LIVE_UNIT_INACTIVE" => "RESTART_WORKSPACE_UNITS" \in Plan(f)
<1>1. Remedy(code) # "operator" => Remedy(code) \in Plan(f)
  BY DEF Plan
<1>2. /\ code \in Refreshed => Remedy(code) = "REFRESH_MANAGED_RUNTIME"
      /\ code = "API_UNIT_INACTIVE" => Remedy(code) = "RESTART_API_UNIT"
      /\ code = "SNAPSHOT_TIMER_INACTIVE" => Remedy(code) = "ENABLE_SNAPSHOT_TIMER"
      /\ code = "LIVE_UNIT_INACTIVE" => Remedy(code) = "RESTART_WORKSPACE_UNITS"
  BY DEF Remedy, Refreshed
<1> QED BY <1>1, <1>2

LEMMA RecoveryDoes ==
    ASSUME ChecksInv, Recover, StopsEarly(found) = {}, found.db = "ok"
    PROVE  /\ Plan(found') \subseteq {"RESTART_WORKSPACE_UNITS"}
           /\ Plan(found') = {} \/ ~found'.unitFiles
<1> DEFINE f == found
           r == AfterRestarts(f, Plan(f))
           g == Recovered(f)
<1>1. Installed_(f) /\ found' = g
  BY DEF ChecksInv, Recover
<1>2. f.config = "ok" /\ f.tenant
  BY DEF StopsEarly, If
<1>3. /\ Installed_(r)
      /\ r.api = (f.api \/ ("RESTART_API_UNIT" \in Plan(f) /\ f.coreUnits))
      /\ r.timer = (f.timer \/ ("ENABLE_SNAPSHOT_TIMER" \in Plan(f) /\ f.coreUnits))
      /\ r.units = (f.units \/ ("RESTART_WORKSPACE_UNITS" \in Plan(f) /\ f.unitFiles))
      /\ r.config = "ok" /\ r.db = "ok" /\ r.tenant = f.tenant
      /\ r.launchers = f.launchers /\ r.coreUnits = f.coreUnits /\ r.mcp = f.mcp
      /\ r.unitFiles = f.unitFiles
  <2>1. f.db = "ok"
    OBVIOUS
  <2> HIDE DEF f
  <2>2. /\ Installed_(r)
        /\ r.api = (f.api \/ ("RESTART_API_UNIT" \in Plan(f) /\ f.coreUnits))
        /\ r.timer = (f.timer \/ ("ENABLE_SNAPSHOT_TIMER" \in Plan(f) /\ f.coreUnits))
        /\ r.units = (f.units \/ ("RESTART_WORKSPACE_UNITS" \in Plan(f) /\ f.unitFiles))
        /\ r.config = f.config /\ r.db = f.db /\ r.tenant = f.tenant
        /\ r.launchers = f.launchers /\ r.coreUnits = f.coreUnits /\ r.mcp = f.mcp
        /\ r.unitFiles = f.unitFiles
    BY <1>1, RestartsFacts
  <2> HIDE DEF r
  <2> QED BY <1>2, <2>1, <2>2
<1>4. r.units \/ ~r.unitFiles
  <2>1. ~f.units => "RESTART_WORKSPACE_UNITS" \in Plan(f)
    BY <1>1, PlannedFrom, InPlan
  <2>2. f.units \in BOOLEAN /\ f.unitFiles \in BOOLEAN
    BY <1>1, FactTypes
  <2> QED BY <1>3, <2>1, <2>2
<1>5. /\ Installed_(g) /\ g.launchers /\ g.coreUnits /\ g.mcp # "fails" /\ g.api /\ g.timer
      /\ g.config = "ok" /\ g.db = "ok" /\ g.tenant
      /\ g.units = r.units /\ g.unitFiles = r.unitFiles
  <2>1. CASE "REFRESH_MANAGED_RUNTIME" \in Plan(f)
    <3>1. g = AfterUpdate(r)
      BY <2>1 DEF Recovered
    <3> HIDE DEF g, r
    <3> QED BY <1>2, <1>3, <3>1, UpdateFacts
  <2>2. CASE "REFRESH_MANAGED_RUNTIME" \notin Plan(f)
    <3>1. g = r
      BY <2>2 DEF Recovered
    <3>2. f.launchers /\ f.coreUnits /\ ~(f.launchers /\ f.mcp = "fails")
      BY <1>1, <2>2, PlannedFrom, InPlan DEF Refreshed
    <3>3. ~f.api => "RESTART_API_UNIT" \in Plan(f)
      BY <1>1, PlannedFrom, InPlan
    <3>4. ~f.timer => "ENABLE_SNAPSHOT_TIMER" \in Plan(f)
      BY <1>1, <3>2, PlannedFrom, InPlan
    <3> HIDE DEF g, r
    <3> QED BY <1>2, <1>3, <3>1, <3>2, <3>3, <3>4
  <2> QED BY <2>1, <2>2
<1> HIDE DEF g, r
<1>6. StopsEarly(g) = {}
  BY <1>5 DEF StopsEarly, If
<1>7. \A remedy \in Plan(g) : remedy = "RESTART_WORKSPACE_UNITS" /\ ~g.unitFiles
  <2> TAKE remedy \in Plan(g)
  <2>1. /\ \A code \in Refreshed : code \notin CheckLive(g)
        /\ "API_UNIT_INACTIVE" \notin CheckLive(g)
        /\ "SNAPSHOT_TIMER_INACTIVE" \notin CheckLive(g)
        /\ "LIVE_UNIT_INACTIVE" \in CheckLive(g) => ~g.units
    BY <1>5, <1>6, PlannedFrom DEF Refreshed
  <2> QED BY <1>4, <1>5, <2>1, RemedyOf
<1> QED BY <1>1, <1>7

LEMMA StrictFindMore == StrictChecksFindMore
<1> DEFINE f == found
<1>1. Issues(f, FALSE, FALSE) \subseteq Issues(f, TRUE, TRUE)
  <2>1. TenantIssues(f, FALSE, FALSE) \subseteq TenantIssues(f, TRUE, TRUE)
    BY DEF TenantIssues, If
  <2> QED BY <2>1 DEF Issues
<1>2. Baseline(f) \subseteq CheckLive(f)
  BY <1>1 DEF Baseline, CheckLive
<1>3. CheckLive(f) # {} => RecoveryStatus(f) # "pass"
  <2> SUFFICES ASSUME NEW code \in CheckLive(f) PROVE RecoveryStatus(f) # "pass"
    OBVIOUS
  <2>1. CASE Remedy(code) = "operator"
    BY <2>1 DEF RecoveryStatus, OperatorOnly
  <2>2. CASE Remedy(code) # "operator"
    BY <2>2 DEF RecoveryStatus, Plan
  <2> QED BY <2>1, <2>2
<1>4. Verdict(Baseline(f), Warnings(f, FALSE)) = "fail" => RecoveryStatus(f) # "pass"
  BY <1>2, <1>3 DEF Verdict
<1>5. ASSUME NEW code \in Warnings(f, FALSE)
      PROVE  \/ code \in CheckLive(f) \union Warnings(f, TRUE)
             \/ code = "EVENT_PENDING" /\ "EVENT_BACKLOG" \in CheckLive(f)
             \/ code = "STALE_MIRROR" /\ f.stale = "quiet"
  <2>1. Inspected(f)
    BY <1>5 DEF Warnings
  <2>2. TenantIssues(f, TRUE, TRUE) \subseteq CheckLive(f)
    BY <2>1 DEF Inspected, CheckLive, Issues
  <2>3. /\ f.queues = "error" => "EVENT_ERRORS" \in CheckLive(f)
        /\ f.queues = "backlog" => "EVENT_BACKLOG" \in CheckLive(f)
    BY <2>2 DEF TenantIssues, If
  <2>4. /\ f.reconcile = "failures" => "RECONCILE_REPAIR_FAILURES" \in Warnings(f, TRUE)
        /\ f.reconcile = "warnings" => "RECONCILE_REPAIR_WARNINGS" \in Warnings(f, TRUE)
        /\ f.queues = "pending" => "EVENT_PENDING" \in Warnings(f, TRUE)
        /\ f.stale = "empty" => "STALE_MIRROR" \in Warnings(f, TRUE)
    BY <2>1 DEF Warnings, If
  <2>5. \/ code = "RECONCILE_REPAIR_FAILURES" /\ f.reconcile = "failures"
        \/ code = "RECONCILE_REPAIR_WARNINGS" /\ f.reconcile = "warnings"
        \/ code = "EVENT_ERRORS" /\ f.queues = "error"
        \/ code = "EVENT_PENDING" /\ f.queues \in {"pending", "backlog"}
        \/ code = "STALE_MIRROR" /\ f.stale \in {"empty", "quiet"}
    BY <1>5, <2>1 DEF Warnings, If
  <2> QED BY <2>3, <2>4, <2>5
<1> QED BY <1>4, <1>5 DEF StrictChecksFindMore

LEMMA SuggestionOffered == SuggestedIsOffered
<1> DEFINE f == facts
<1> SUFFICES ASSUME NextAction(f) \in DOMAIN Means, ~(f.enabled /\ ~LiveAllowed(f))
             PROVE  Means[NextAction(f)] \in Offered(f)
  BY DEF SuggestedIsOffered
<1>1. /\ Means.start_live_sync = "start_live_sync" /\ Means.run_initial_sync = "run_initial_sync"
      /\ Means.ready_to_activate = "activate" /\ Means.credentials_required = "install_credentials"
      /\ DOMAIN Means = {"start_live_sync", "run_initial_sync", "ready_to_activate",
                         "credentials_required"}
  BY DEF Means
<1>2. CASE f.enabled /\ "active" \notin Units(f)
  BY <1>1, <1>2 DEF NextAction, Offered
<1>3. CASE f.enabled /\ "active" \in Units(f)
  <2>1. NextAction(f) = "run_initial_sync" /\ Backfill(f) = "needs_initial_sync"
    BY <1>1, <1>3 DEF NextAction
  <2> QED BY <1>1, <1>3, <2>1 DEF Offered
<1>4. CASE ~f.enabled
  <2>1. \/ NextAction(f) = "credentials_required"
        \/ NextAction(f) = "ready_to_activate" /\ f.ready
    BY <1>1, <1>4 DEF NextAction
  <2> QED BY <1>1, <1>4, <2>1 DEF Offered
<1> QED BY <1>2, <1>3, <1>4

(* The facts of an installation stay in their domains, whatever breaks and *)
(* whatever recovery does (service/user_env.py).                           *)
THEOREM ChecksTypeCorrect == ChecksSpec => []ChecksTypeOK
<1>1. ChecksInv => ChecksTypeOK
  BY DEF ChecksInv, Installed_, ChecksTypeOK
<1> QED BY <1>1, ChecksInductive, PTL DEF ChecksSpec

(* A recovery that worked, from checks that saw everything, leaves nothing *)
(* to recover but the restart of units whose files are not there           *)
(* (recover_live_user_env).                                                *)
THEOREM RecoveryLeavesNothing == ChecksSpec => RecoveryEnds
<1>1. ChecksInv /\ [ChecksNext]_checkVars
        => [ (Recover /\ StopsEarly(found) = {} /\ found.db = "ok")
             => /\ Plan(found') \subseteq {"RESTART_WORKSPACE_UNITS"}
                /\ Plan(found') = {} \/ ~found'.unitFiles ]_checkVars
  BY RecoveryDoes
<1> QED BY <1>1, ChecksInductive, PTL DEF ChecksSpec, RecoveryEnds

(* In every state of tenants and installation the next action suggested is *)
(* one that is offered, but for a tenant enabled without credentials or    *)
(* row; and what the lenient checks find wrong the strict ones find too    *)
(* (tenant_status, tenant_maintenance_actions,                             *)
(* _build_live_validation_report, _finalize_live_recovery_report).         *)
THEOREM StatusesAlwaysStand == Spec => []StatusesStand
<1>1. StatusesStand
  BY StrictFindMore, SuggestionOffered DEF StatusesStand
<1> QED BY <1>1, PTL

-----------------------------------------------------------------------------
(* The daemon: no workspace has more events pending than were received.    *)

DaemonInv ==
    /\ DaemonTypeOK
    /\ \A w \in Turns : pending[w] <= received

Mirrored ==
    /\ channelsOf \in [Turns -> SUBSET Channels] /\ missed \in [Turns -> SUBSET Channels]
    /\ \A w \in Turns : missed[w] \subseteq channelsOf[w]

(* What is missed is always of a channel that is mirrored.                 *)
LEMMA MissedIsMirrored ==
    ASSUME Mirrored, Turns' = Turns,
           \/ UNCHANGED <<channelsOf, missed>>
           \/ ReconcileTurn
           \/ \E w \in Turns : Miss(w) \/ Meet(w)
    PROVE  Mirrored'
<1>1. CASE UNCHANGED <<channelsOf, missed>>
  BY <1>1 DEF Mirrored
<1>2. CASE ReconcileTurn /\ missed' # missed
  <2>1. channelsOf' = channelsOf /\ missed' = [missed EXCEPT ![turn] = @ \ Taken(turn)]
    BY <1>2 DEF ReconcileTurn
  <2> QED BY <2>1 DEF Mirrored
<1>3. ASSUME NEW w \in Turns, Miss(w) PROVE Mirrored'
  <2>1. PICK c \in channelsOf[w] : missed' = [missed EXCEPT ![w] = @ \union {c}]
    BY <1>3 DEF Miss
  <2>2. channelsOf' = channelsOf /\ c \in Channels
    BY <1>3 DEF Miss, Mirrored
  <2> QED BY <2>1, <2>2 DEF Mirrored
<1>4. ASSUME NEW w \in Turns, Meet(w) PROVE Mirrored'
  <2>1. PICK c \in Channels \ channelsOf[w] :
          /\ channelsOf' = [channelsOf EXCEPT ![w] = @ \union {c}]
          /\ missed' = [missed EXCEPT ![w] = @ \union {c}]
    BY <1>4 DEF Meet
  <2> QED BY <2>1 DEF Mirrored
<1> QED BY <1>1, <1>2, <1>3, <1>4 DEF ReconcileTurn

(* A turn hands on no more events than were received, so the daemon's      *)
(* types are kept by every step (cmd_mirror_daemon).                       *)
LEMMA DaemonInductive ==
    /\ DaemonInit => DaemonInv
    /\ DaemonInv /\ [DaemonNext]_daemonVars => DaemonInv'
<1>1. /\ Len(Workspaces) \in Nat /\ Len(Workspaces) > 0 /\ 1 \in Turns
      /\ EventLimit \in Nat \ {0} /\ MaxEvents \in Nat /\ MaxFaults \in Nat
  BY DaemonAssumption DEF Turns
<1>2. DaemonInit => DaemonInv
  BY <1>1, DaemonAssumption DEF DaemonInit, DaemonInv, DaemonTypeOK
<1>3. ASSUME DaemonInv, [DaemonNext]_daemonVars PROVE DaemonInv'
  <2>1. /\ turn \in Turns /\ received \in Nat /\ received <= MaxEvents
        /\ pending \in [Turns -> 0 .. MaxEvents] /\ Turns' = Turns
    BY <1>1, <1>3 DEF DaemonInv, DaemonTypeOK, Turns
  <2>2. NextTurn \in Turns
    BY <1>1, <2>1 DEF NextTurn, Turns
  <2>a. Mirrored
    BY <1>3 DEF DaemonInv, DaemonTypeOK, Mirrored
  <2>3. CASE RunEvents
    <3>1. pending' \in [Turns -> 0 .. MaxEvents] /\ \A w \in Turns : pending'[w] <= pending[w]
      BY <1>1, <2>1, <2>3 DEF RunEvents
    <3>2. \A w \in Turns : pending'[w] <= received
      BY <1>1, <1>3, <2>1, <3>1 DEF DaemonInv
    <3> QED BY <1>3, <2>3, <3>1, <3>2 DEF RunEvents, DaemonInv, DaemonTypeOK
  <2>4. CASE StartDaemon \/ RunEmbeddings \/ ReconcileTurn \/ Wake \/ BecomesDue
    <3>1. UNCHANGED <<pending, received, faults, revoked, tokenless>>
      BY <2>4 DEF StartDaemon, RunEmbeddings, ReconcileTurn, Wake, BecomesDue
    <3>2. turn' \in Turns
      BY <1>1, <2>1, <2>2, <2>4 DEF StartDaemon, RunEmbeddings, ReconcileTurn, Wake, BecomesDue,
         EndsDaemon
    <3>3. at' \in {"down", "events", "embeddings", "reconcile", "sleep"} /\ due' \in BOOLEAN
      BY <1>3, <2>4 DEF StartDaemon, RunEmbeddings, ReconcileTurn, Wake, BecomesDue,
         EndsDaemon, AfterCycle, DaemonInv, DaemonTypeOK
    <3>4. beat' \subseteq Turns
      BY <1>3, <2>1, <2>4 DEF StartDaemon, RunEmbeddings, ReconcileTurn, Wake, BecomesDue,
         DaemonInv, DaemonTypeOK
    <3>5. Mirrored'
      BY <2>1, <2>4, <2>a, MissedIsMirrored DEF StartDaemon, RunEmbeddings, Wake, BecomesDue
    <3> QED BY <1>3, <2>1, <3>1, <3>2, <3>3, <3>4, <3>5 DEF DaemonInv, DaemonTypeOK, Mirrored
  <2>5. CASE Fault
    BY <1>1, <1>3, <2>5 DEF Fault, EndsDaemon, DaemonInv, DaemonTypeOK
  <2>6. ASSUME NEW w \in Turns, Receive(w) PROVE DaemonInv'
    <3>1. received' = received + 1 /\ received' <= MaxEvents
      BY <1>1, <2>1, <2>6 DEF Receive
    <3>2. \A v \in Turns : pending'[v] <= pending[v] + 1 /\ pending'[v] \in Nat
      BY <1>1, <2>1, <2>6 DEF Receive
    <3>3. \A v \in Turns : pending'[v] <= received' /\ pending'[v] \in 0 .. MaxEvents
      BY <1>1, <1>3, <2>1, <3>1, <3>2 DEF DaemonInv
    <3>4. pending' \in [Turns -> 0 .. MaxEvents]
      BY <2>1, <2>6, <3>3 DEF Receive
    <3> QED BY <1>1, <1>3, <2>1, <2>6, <3>1, <3>3, <3>4 DEF Receive, DaemonInv, DaemonTypeOK
  <2>7. ASSUME NEW w \in Turns, Miss(w) \/ Meet(w) PROVE DaemonInv'
    <3>1. received' = received + 1 /\ received' <= MaxEvents
      BY <1>1, <2>1, <2>7 DEF Miss, Meet
    <3>2. \A v \in Turns : pending[v] <= received'
      BY <1>1, <1>3, <2>1, <3>1 DEF DaemonInv
    <3>3. Mirrored'
      BY <2>1, <2>7, <2>a, MissedIsMirrored
    <3>4. UNCHANGED <<pending, revoked, tokenless, beat, at, turn, due, faults>>
      BY <2>7 DEF Miss, Meet
    <3> QED BY <1>1, <1>3, <2>1, <3>1, <3>2, <3>3, <3>4 DEF DaemonInv, DaemonTypeOK, Mirrored
  <2>8. ASSUME NEW w \in Turns, LoseToken(w) \/ BeatAges(w) PROVE DaemonInv'
    BY <1>1, <1>3, <2>8 DEF LoseToken, BeatAges, DaemonInv, DaemonTypeOK
  <2>9. CASE UNCHANGED daemonVars
    BY <1>3, <2>9 DEF daemonVars, DaemonInv, DaemonTypeOK
  <2> QED BY <1>3, <2>3, <2>4, <2>5, <2>6, <2>7, <2>8, <2>9 DEF DaemonNext
<1> QED BY <1>2, <1>3

(* What the daemon keeps of its workspaces keeps its type, and it is       *)
(* always some workspace's turn, however it is ended and started over      *)
(* (cmd_mirror_daemon).                                                    *)
THEOREM DaemonTypeCorrect == DaemonSpec => []DaemonTypeOK
<1>1. DaemonInv => DaemonTypeOK
  BY DEF DaemonInv
<1> QED BY <1>1, DaemonInductive, PTL DEF DaemonSpec

-----------------------------------------------------------------------------
(* Queries.  What a token says of a message is yes or no, but for who sent *)
(* a message without a user.                                               *)

LEMMA ClauseIsDecided ==
    ASSUME NEW t, NEW m
    PROVE  Clause(t, m) \in {"yes", "no"} \/ (t.op = "from" /\ m.user = "null")
BY DEF Clause, Sql, FromUser, IsReply

LEMMA OppositeToken ==
    ASSUME NEW t \in Tokens
    PROVE  LET o == Opposite(t) IN
           /\ o.op = t.op /\ o.value = t.value /\ (o.neg <=> ~t.neg) /\ t.neg \in BOOLEAN
           /\ o.neg \in BOOLEAN /\ \A m : Clause(o, m) = Clause(t, m)
<1> DEFINE o == Opposite(t)
<1>1. t = [op |-> t.op, value |-> t.value, neg |-> t.neg] /\ t.neg \in BOOLEAN
  BY QueryAssumption
<1>2. o = [op |-> t.op, value |-> t.value, neg |-> ~t.neg]
  BY <1>1 DEF Opposite
<1>3. o.op = t.op /\ o.value = t.value /\ o.neg = ~t.neg
  BY <1>2
<1> HIDE DEF o
<1>4. \A m : Clause(o, m) = Clause(t, m)
  BY <1>3 DEF Clause
<1> QED BY <1>1, <1>3, <1>4 DEF o

(* A single token, as a filter of messages.                                *)
LEMMA WhereOne ==
    ASSUME NEW t \in Tokens \union {Opposite(u) : u \in Tokens}, NEW m, ~m.deleted, t.op \notin FileOps
    PROVE  Where({t}, m) <=> /\ HasClause(t) => Signed(t, m) = "yes"
                             /\ (t.op = "has" /\ t.value \in Attachments /\ ~t.neg) => m.files # {}
<1>1. FileWanted({t}) = {} /\ \A f : FileHolds(f, {t})
  BY DEF FileWanted, FileHolds
<1>2. AsksFiles({t}) <=> (t.op = "has" /\ t.value \in Attachments /\ ~t.neg)
  BY <1>1 DEF AsksFiles
<1> QED BY <1>1, <1>2 DEF Where

QueryInv == query \in Seq(Tokens)

(* A message that is there satisfies an operator or its negation, never    *)
(* both, whatever columns of it are null; but those without a user satisfy *)
(* neither from: nor -from:, and file operators are ignored when negated   *)
(* (_parse_query).                                                         *)
THEOREM NegationAlwaysSplits == QuerySpec => []NegationSplits
<1>1. QueryInit => QueryInv
  BY DEF QueryInit, QueryInv
<1>2. QueryInv /\ [QueryNext]_query => QueryInv'
  BY DEF QueryNext, AddToken, QueryInv
<1>3. QueryInv => NegationSplits
  <2> SUFFICES ASSUME QueryInv, NEW t \in Typed, NEW m \in Mirror,
                      HasClause(t) \/ HasClause(Opposite(t)), ~m.deleted,
                      ~(t.op = "from" /\ m.user = "null")
               PROVE  Where({t}, m) # Where({Opposite(t)}, m)
    BY DEF NegationSplits
  <2> DEFINE o == Opposite(t)
  <2>1. t \in Tokens
    BY DEF Typed, QueryInv
  <2>2. /\ o.op = t.op /\ o.value = t.value /\ (o.neg <=> ~t.neg) /\ t.neg \in BOOLEAN
        /\ o.neg \in BOOLEAN /\ Clause(o, m) = Clause(t, m)
    BY <2>1, OppositeToken
  <2>3. Clause(t, m) \in {"yes", "no"}
    BY ClauseIsDecided
  <2> HIDE DEF o
  <2>4. t.op \notin FileOps
    BY <2>2 DEF HasClause, o
  <2>5. /\ Where({t}, m) <=> /\ HasClause(t) => Signed(t, m) = "yes"
                             /\ (t.op = "has" /\ t.value \in Attachments /\ ~t.neg) => m.files # {}
        /\ Where({o}, m) <=> /\ HasClause(o) => Signed(o, m) = "yes"
                             /\ (t.op = "has" /\ t.value \in Attachments /\ t.neg) => m.files # {}
    BY <2>1, <2>2, <2>4, WhereOne DEF o
  <2>6. (Signed(t, m) = "yes") <=> ~(Signed(o, m) = "yes")
    BY <2>2, <2>3 DEF Signed, Not
  <2>7. CASE t.op = "has" /\ t.value \in Attachments
    <3>1. Clause(t, m) = Sql(m.files # {}) /\ t.value # "link"
      BY <2>7 DEF Clause, Attachments
    <3>2. (HasClause(t) <=> t.neg) /\ (HasClause(o) <=> ~t.neg)
      BY <2>2, <2>7, <3>1 DEF HasClause, FileOps
    <3>3. /\ t.neg => ((Signed(t, m) = "yes") <=> m.files = {})
          /\ ~t.neg => ((Signed(o, m) = "yes") <=> m.files = {})
      BY <2>2, <3>1 DEF Signed, Not, Sql
    <3> QED BY <2>2, <2>5, <2>7, <3>2, <3>3 DEF o
  <2>8. CASE ~(t.op = "has" /\ t.value \in Attachments)
    <3>1. HasClause(t) /\ HasClause(o)
      BY <2>2, <2>8 DEF HasClause, o
    <3> QED BY <2>5, <2>6, <2>8, <3>1 DEF o
  <2> QED BY <2>7, <2>8
<1> QED BY <1>1, <1>2, <1>3, PTL DEF QuerySpec

-----------------------------------------------------------------------------
(* Benchmarks: a report stands until anything it was made from changes,    *)
(* and so does what was embedded for the targets of the dataset.           *)

Known == DOMAIN truth \ Unresolved

Reported ==
    /\ report.model \in ModelNames
    /\ \A l \in Known : report.picked[l] \in Resolve(l)
    /\ report.status = Status(Known # {} /\ {l \in Known : Covered(report.picked[l], report.model)} = Known)

BenchmarksInv ==
    /\ backfilled \subseteq ModelNames
    /\ \A model \in backfilled, i \in Embeddable : Covered(i, model)
    /\ report = NoReport \/ Reported

LEMMA BenchmarksInductive ==
    /\ BenchmarksInit => BenchmarksInv
    /\ BenchmarksInv /\ [BenchmarksNext]_benchmarkVars => BenchmarksInv'
<1>1. BenchmarksInit => BenchmarksInv
  BY DEF BenchmarksInit, BenchmarksInv
<1>2. ASSUME UNCHANGED <<titles, gone, chunked, vectors, truth>>
      PROVE  /\ Embeddable' = Embeddable /\ Known' = Known /\ Unresolved' = Unresolved
             /\ Ambiguous' = Ambiguous
             /\ \A l : Resolve(l)' = Resolve(l)
  <2>1. \A l : Resolve(l)' = Resolve(l)
    BY <1>2 DEF Resolve, RowLabels, OwnLabel, TitleLabel
  <2>2. Targets' = Targets /\ Unresolved' = Unresolved /\ Ambiguous' = Ambiguous
    BY <1>2, <2>1 DEF Targets, Unresolved, Ambiguous
  <2> QED BY <1>2, <2>1, <2>2 DEF Embeddable, EmbeddableMessages, EmbeddableTexts, Known
<1>3. ASSUME BenchmarksInv, NEW model \in ModelNames, DatasetReport(model) PROVE BenchmarksInv'
  <2> DEFINE known == DOMAIN truth \ Unresolved
  <2>1. PICK pick \in [known -> Items] :
          /\ \A l \in known : pick[l] \in Resolve(l)
          /\ LET covered == {l \in known : Covered(pick[l], model)}
             IN  report' = [model |-> model, picked |-> pick, covered |-> Cardinality(covered),
                            status |-> Status(known # {} /\ covered = known)]
    BY <1>3 DEF DatasetReport
  <2>2. UNCHANGED <<titles, gone, chunked, vectors, truth, backfilled>>
    BY <1>3 DEF DatasetReport
  <2>3. /\ report'.model = model /\ report'.picked = pick
        /\ report'.status = Status(known # {} /\ {l \in known : Covered(pick[l], model)} = known)
    BY <2>1
  <2>4. /\ Embeddable' = Embeddable /\ Known' = Known /\ Known = known /\ Unresolved' = Unresolved
        /\ Ambiguous' = Ambiguous
        /\ \A l : Resolve(l)' = Resolve(l)
    BY <1>2, <2>2 DEF Known
  <2> HIDE DEF known
  <2>5. {l \in known : Covered(pick[l], model)}
          = {l \in Known' : Covered(report.picked[l], report.model)'}
    BY <2>2, <2>3, <2>4 DEF Covered
  <2>6. \A b : Status(b)' = Status(b)
    BY <2>4 DEF Status
  <2>7. Reported'
    BY <2>1, <2>3, <2>4, <2>5, <2>6 DEF Reported
  <2> QED BY <1>3, <2>2, <2>4, <2>7 DEF BenchmarksInv, Covered
<1>4. ASSUME BenchmarksInv, NEW model \in ModelNames, BackfillTargets(model) PROVE BenchmarksInv'
  <2>1. /\ vectors' = vectors \union (Embeddable \X {model})
        /\ backfilled' = backfilled \union {model} /\ report' = NoReport
        /\ UNCHANGED <<titles, gone, chunked, truth>>
    BY <1>4 DEF BackfillTargets
  <2>2. Embeddable' = Embeddable
    <3>1. \A l : Resolve(l)' = Resolve(l)
      BY <2>1 DEF Resolve, RowLabels, OwnLabel, TitleLabel
    <3>2. Targets' = Targets
      BY <2>1, <3>1 DEF Targets
    <3> QED BY <2>1, <3>2 DEF Embeddable, EmbeddableMessages, EmbeddableTexts
  <2>3. \A m \in backfilled', i \in Embeddable' : Covered(i, m)'
    BY <1>4, <2>1, <2>2 DEF BenchmarksInv, Covered
  <2>4. NoReport' = NoReport
    BY DEF NoReport
  <2> QED BY <1>4, <2>1, <2>3, <2>4 DEF BenchmarksInv
<1>5. ASSUME BenchmarksInv, TakeDataset \/ Retitle \/ DeleteMessage \/ Reextract PROVE BenchmarksInv'
  <2>1. report' = NoReport /\ backfilled' = {}
    BY <1>5 DEF TakeDataset, Retitle, DeleteMessage, Reextract, Edited
  <2>2. NoReport' = NoReport
    BY DEF NoReport
  <2> QED BY <2>1, <2>2 DEF BenchmarksInv
<1>6. ASSUME BenchmarksInv, Evaluate PROVE BenchmarksInv'
  <2>1. report' = NoReport /\ UNCHANGED <<titles, gone, chunked, vectors, truth, backfilled>>
    BY <1>6 DEF Evaluate
  <2>2. NoReport' = NoReport /\ Embeddable' = Embeddable
    BY <1>2, <2>1 DEF NoReport
  <2> QED BY <1>6, <2>1, <2>2 DEF BenchmarksInv, Covered
<1>7. ASSUME BenchmarksInv, UNCHANGED benchmarkVars PROVE BenchmarksInv'
  <2>1. UNCHANGED <<titles, gone, chunked, vectors, truth, backfilled, report>>
    BY <1>7 DEF benchmarkVars
  <2>2. /\ Embeddable' = Embeddable /\ Known' = Known /\ NoReport' = NoReport
        /\ \A l : Resolve(l)' = Resolve(l)
        /\ \A b : Status(b)' = Status(b)
    BY <1>2, <2>1 DEF NoReport, Status
  <2>3. \A i, m : Covered(i, m)' = Covered(i, m)
    BY <2>1 DEF Covered
  <2>4. Reported => Reported'
    BY <2>1, <2>2, <2>3 DEF Reported
  <2> QED BY <1>7, <2>1, <2>2, <2>3, <2>4 DEF BenchmarksInv
<1> QED BY <1>1, <1>3, <1>4, <1>5, <1>6, <1>7 DEF BenchmarksNext

(* A report that finds every label, right after the targets were embedded  *)
(* for its model, finds them covered but for deleted messages and texts    *)
(* without chunks (backfill_benchmark_dataset_embeddings); and what passes *)
(* without warnings is one embedded row for each label, whichever of the   *)
(* rows of a label the report took.                                        *)
THEOREM CoverageAlwaysStands == BenchmarksSpec => []CoverageStands
<1>1. ASSUME BenchmarksInv PROVE CoverageStands
  <2>1. NoReport.model = "none" /\ NoReport.status = "none"
    BY DEF NoReport
  <2>2. (report.model \in backfilled \/ report.status = "pass") => Reported
    BY <1>1, <2>1, BenchmarksAssumption DEF BenchmarksInv
  <2>3. ASSUME Reported, report.status # "fail"
        PROVE  Unresolved = {} /\ Known = DOMAIN truth
    BY <2>3 DEF Reported, Status, Known
  <2>4. ASSUME report.model \in backfilled, report.status # "fail", NEW l \in DOMAIN truth
        PROVE  Covered(report.picked[l], report.model) \/ report.picked[l] \notin Embeddable
    BY <1>1, <2>4 DEF BenchmarksInv
  <2>5. ASSUME report.status = "pass", NEW l \in DOMAIN truth
        PROVE  \E i \in Items : Resolve(l) = {i} /\ Covered(i, report.model)
    <3>1. Reported /\ Known = DOMAIN truth
      BY <2>2, <2>3, <2>5
    <3>2. report.picked[l] \in Resolve(l) /\ Resolve(l) \subseteq Items
      BY <3>1 DEF Reported, Resolve
    <3>3. /\ Ambiguous = {}
          /\ {k \in Known : Covered(report.picked[k], report.model)} = Known
      BY <2>5, <3>1 DEF Reported, Status
    <3>4. Cardinality(Resolve(l)) <= 1 /\ IsFiniteSet(Resolve(l))
      <4>1. IsFiniteSet(Items)
        BY BenchmarksAssumption, FS_Union DEF Items
      <4>2. IsFiniteSet(Resolve(l)) /\ Cardinality(Resolve(l)) \in Nat
        BY <3>2, <4>1, FS_Subset, FS_CardinalityType
      <4>3. ~(Cardinality(Resolve(l)) > 1)
        BY <3>3 DEF Ambiguous
      <4> QED BY <4>2, <4>3
    <3>5. Resolve(l) = {report.picked[l]}
      <4>1. Cardinality({report.picked[l]}) = 1 /\ {report.picked[l]} \in SUBSET Resolve(l)
        BY <3>2, FS_Singleton
      <4>2. Cardinality({report.picked[l]}) <= Cardinality(Resolve(l))
            /\ (Cardinality(Resolve(l)) = Cardinality({report.picked[l]})
                  => Resolve(l) = {report.picked[l]})
        BY <3>4, <4>1, FS_Subset
      <4>3. Cardinality(Resolve(l)) \in Nat
        BY <3>4, FS_CardinalityType
      <4> QED BY <3>4, <4>1, <4>2, <4>3
    <3> QED BY <3>1, <3>2, <3>3, <3>5
  <2> QED BY <2>4, <2>5 DEF CoverageStands
<1> QED BY <1>1, BenchmarksInductive, PTL DEF BenchmarksSpec

-----------------------------------------------------------------------------
(* ContextWindow: places by a key *)

(* How many of a set come before one of its members.                       *)
PlaceIn(S, key, m) == Cardinality({n \in S : key[n] < key[m]})

Keyed_(S, key) ==
    /\ IsFiniteSet(S) /\ key \in [S -> Int]
    /\ \A m, n \in S : key[m] = key[n] => m = n

LEMMA PlaceGrows ==
    ASSUME NEW S, NEW key, Keyed_(S, key), NEW m \in S, NEW n \in S, key[n] < key[m]
    PROVE  PlaceIn(S, key, n) < PlaceIn(S, key, m)
<1> DEFINE Below(x) == {y \in S : key[y] < key[x]}
<1>1. IsFiniteSet(S) /\ \A x \in S : key[x] \in Int
  BY DEF Keyed_
<1>2. /\ IsFiniteSet(Below(m)) /\ Cardinality(Below(m)) \in Nat
      /\ IsFiniteSet(Below(n)) /\ Cardinality(Below(n)) \in Nat
  BY <1>1, FS_Subset, FS_CardinalityType
<1>3. n \notin Below(n) /\ Below(n) \union {n} \subseteq Below(m)
  BY <1>1
<1>4. Cardinality(Below(n) \union {n}) = Cardinality(Below(n)) + 1
  BY <1>2, <1>3, FS_AddElement
<1>5. Cardinality(Below(n) \union {n}) <= Cardinality(Below(m))
  <2> HIDE DEF Below
  <2> QED BY <1>2, <1>3, FS_Subset
<1> QED BY <1>2, <1>4, <1>5 DEF PlaceIn

LEMMA PlacesFill ==
    ASSUME NEW S, NEW key, Keyed_(S, key)
    PROVE  /\ Cardinality(S) \in Nat
           /\ \A m \in S : PlaceIn(S, key, m) \in 0 .. Cardinality(S) - 1
           /\ \A m, n \in S : key[n] < key[m] <=> PlaceIn(S, key, n) < PlaceIn(S, key, m)
           /\ \A i \in 0 .. Cardinality(S) - 1 : \E m \in S : PlaceIn(S, key, m) = i
<1>1. /\ IsFiniteSet(S) /\ (\A x \in S : key[x] \in Int)
      /\ \A m, n \in S : key[m] = key[n] => m = n
  BY DEF Keyed_
<1>2. Cardinality(S) \in Nat
  BY <1>1, FS_CardinalityType
<1>3. ASSUME NEW m \in S PROVE PlaceIn(S, key, m) \in 0 .. Cardinality(S) - 1
  <2> DEFINE U == {n \in S : key[n] < key[m]}
  <2>1. U \subseteq S \ {m}
    BY <1>1
  <2>2. IsFiniteSet(S \ {m}) /\ Cardinality(S \ {m}) = Cardinality(S) - 1
    BY <1>1, FS_RemoveElement
  <2>3. IsFiniteSet(U) /\ Cardinality(U) <= Cardinality(S \ {m})
    <3> HIDE DEF U
    <3> QED BY <2>1, <2>2, FS_Subset
  <2>4. Cardinality(U) \in Nat
    BY <2>3, FS_CardinalityType
  <2> QED BY <1>2, <2>2, <2>3, <2>4 DEF PlaceIn
<1>4. ASSUME NEW m \in S, NEW n \in S
      PROVE  key[n] < key[m] <=> PlaceIn(S, key, n) < PlaceIn(S, key, m)
  <2>1. PlaceIn(S, key, m) \in Int /\ PlaceIn(S, key, n) \in Int
    BY <1>2, <1>3
  <2>2. key[n] < key[m] => PlaceIn(S, key, n) < PlaceIn(S, key, m)
    BY PlaceGrows
  <2>3. key[m] < key[n] => PlaceIn(S, key, m) < PlaceIn(S, key, n)
    BY PlaceGrows
  <2>4. key[m] = key[n] => m = n
    BY <1>1
  <2> QED BY <1>1, <2>1, <2>2, <2>3, <2>4
<1>5. ASSUME NEW i \in 0 .. Cardinality(S) - 1 PROVE \E m \in S : PlaceIn(S, key, m) = i
  <2> DEFINE T == 0 .. Cardinality(S) - 1
             f == [m \in S |-> PlaceIn(S, key, m)]
  <2>1. IsFiniteSet(T) /\ Cardinality(T) = Cardinality(S)
    BY <1>2, FS_Interval
  <2>2. f \in [S -> T]
    BY <1>3
  <2>3. \A m, n \in S : f[m] = f[n] => m = n
    <3> SUFFICES ASSUME NEW m \in S, NEW n \in S, f[m] = f[n] PROVE m = n
      OBVIOUS
    <3>1. PlaceIn(S, key, m) = PlaceIn(S, key, n) /\ PlaceIn(S, key, m) \in Int
      BY <1>2, <1>3
    <3>2. ~(key[n] < key[m]) /\ ~(key[m] < key[n])
      BY <1>4, <3>1
    <3> QED BY <1>1, <3>2
  <2>4. f \in Injection(S, T)
    <3> HIDE DEF f
    <3> QED BY <2>2, <2>3 DEF Injection, IsInjective
  <2>5. f \in Surjection(S, T)
    BY <2>1, <2>4, FS_Injection
  <2>6. PICK m \in S : f[m] = i
    <3> HIDE DEF f, T
    <3>1. i \in T
      BY DEF T
    <3> QED BY <2>5, <3>1 DEF Surjection
  <2> QED BY <2>6
<1> QED BY <1>2, <1>3, <1>4, <1>5

(* The members of a set put in their places, one each.                     *)
LEMMA PutInOrder ==
    ASSUME NEW S, NEW key, Keyed_(S, key),
           NEW shown \in [1 .. Cardinality(S) -> S],
           \A i \in 1 .. Cardinality(S) : PlaceIn(S, key, shown[i]) = i - 1
    PROVE  /\ shown \in Seq(S) /\ Len(shown) = Cardinality(S)
           /\ Elems(shown) = S
           /\ \A i, j \in DOMAIN shown : i < j => key[shown[i]] < key[shown[j]]
<1>1. /\ Cardinality(S) \in Nat
      /\ \A m \in S : PlaceIn(S, key, m) \in 0 .. Cardinality(S) - 1
      /\ \A m, n \in S : key[n] < key[m] <=> PlaceIn(S, key, n) < PlaceIn(S, key, m)
      /\ \A i \in 0 .. Cardinality(S) - 1 : \E m \in S : PlaceIn(S, key, m) = i
  BY PlacesFill
<1>2. \A i \in 1 .. Cardinality(S) : shown[i] \in S /\ PlaceIn(S, key, shown[i]) = i - 1
  OBVIOUS
<1>3. DOMAIN shown = 1 .. Cardinality(S)
  OBVIOUS
<1>4. shown \in Seq(S) /\ Len(shown) = Cardinality(S)
  <2>1. shown \in [1 .. Cardinality(S) -> S]
    BY <1>2
  <2> QED BY <1>1, <1>3, <2>1
<1>5. ASSUME NEW m \in S PROVE m \in Elems(shown)
  <2>1. PICK i \in 1 .. Cardinality(S) : i - 1 = PlaceIn(S, key, m)
    <3>1. PlaceIn(S, key, m) + 1 \in 1 .. Cardinality(S)
      BY <1>1
    <3> QED BY <1>1, <3>1
  <2>2. shown[i] \in S /\ PlaceIn(S, key, shown[i]) = PlaceIn(S, key, m)
    BY <1>2, <2>1
  <2>3. ~(key[shown[i]] < key[m]) /\ ~(key[m] < key[shown[i]])
    BY <1>1, <2>2
  <2>4. shown[i] = m
    BY <2>2, <2>3 DEF Keyed_
  <2> QED BY <1>3, <2>4 DEF Elems
<1>6. Elems(shown) = S
  BY <1>2, <1>3, <1>5 DEF Elems
<1>7. ASSUME NEW i \in DOMAIN shown, NEW j \in DOMAIN shown, i < j
      PROVE  key[shown[i]] < key[shown[j]]
  <2>1. /\ shown[i] \in S /\ PlaceIn(S, key, shown[i]) = i - 1
        /\ shown[j] \in S /\ PlaceIn(S, key, shown[j]) = j - 1
    BY <1>2, <1>3
  <2> QED BY <1>1, <1>3, <1>7, <2>1
<1> QED BY <1>4, <1>6, <1>7

-----------------------------------------------------------------------------
(* Windows *)

(* Times tell the messages of a channel apart.                             *)
LEMMA StoredKeyed ==
    ASSUME NEW S \in SUBSET Messages
    PROVE  /\ IsFiniteSet(S)
           /\ \A m \in S : m.ts \in Nat \ {0} /\ m.root \in Nat
           /\ \A m, n \in S : m.ts = n.ts => m = n
           /\ Keyed_(S, [m \in S |-> m.ts])
           /\ Keyed_(S, [m \in S |-> -m.ts])
<1>1. IsFiniteSet(S)
  BY ContextAssumption, FS_Subset
<1>2. /\ \A m \in S : m.ts \in Nat \ {0} /\ m.root \in Nat
      /\ \A m, n \in S : m.ts = n.ts => m = n
  BY ContextAssumption
<1>3. Keyed_(S, [m \in S |-> m.ts])
  BY <1>1, <1>2 DEF Keyed_
<1>4. Keyed_(S, [m \in S |-> -m.ts])
  BY <1>1, <1>2 DEF Keyed_
<1> QED BY <1>1, <1>2, <1>3, <1>4

Increasing(shown) == \A i, j \in DOMAIN shown : i < j => shown[i].ts < shown[j].ts

(* Messages in the order of their times, each once.                        *)
LEMMA PutInTimesOrder ==
    ASSUME NEW S \in SUBSET Messages, NEW shown \in [1 .. Cardinality(S) -> S],
           \A i \in 1 .. Cardinality(S) : Cardinality({n \in S : n.ts < shown[i].ts}) = i - 1
    PROVE  /\ Cardinality(S) \in Nat /\ shown \in Seq(S) /\ Elems(shown) = S
           /\ Increasing(shown) /\ (shown = <<>> <=> S = {})
<1> DEFINE key == [m \in S |-> m.ts]
<1>1. Keyed_(S, key) /\ \A m \in S : key[m] = m.ts
  BY StoredKeyed
<1>2. ASSUME NEW m \in S
      PROVE  PlaceIn(S, key, m) = Cardinality({n \in S : n.ts < m.ts})
  <2>1. {n \in S : key[n] < key[m]} = {n \in S : n.ts < m.ts}
    BY <1>1
  <2> QED BY <2>1 DEF PlaceIn
<1> HIDE DEF key
<1>3. \A i \in 1 .. Cardinality(S) : PlaceIn(S, key, shown[i]) = i - 1
  BY <1>2
<1>4. /\ shown \in Seq(S) /\ Len(shown) = Cardinality(S) /\ Elems(shown) = S
      /\ \A i, j \in DOMAIN shown : i < j => key[shown[i]] < key[shown[j]]
  BY <1>1, <1>3, PutInOrder
<1>5. Increasing(shown)
  BY <1>1, <1>4 DEF Increasing
<1>6. Cardinality(S) \in Nat /\ (Cardinality(S) = 0 <=> S = {})
  BY <1>1, FS_EmptySet, FS_CardinalityType DEF Keyed_
<1> QED BY <1>4, <1>5, <1>6

LEMMA InTimesOrder ==
    ASSUME NEW S \in SUBSET Messages, NEW shown,
           shown = [i \in 1 .. Cardinality(S) |->
                     CHOOSE m \in S : Cardinality({n \in S : n.ts < m.ts}) = i - 1]
    PROVE  shown \in Seq(S) /\ Elems(shown) = S /\ Increasing(shown) /\ (shown = <<>> <=> S = {})
<1> DEFINE key == [m \in S |-> m.ts]
<1>1. Keyed_(S, key) /\ \A m \in S : key[m] = m.ts
  BY StoredKeyed
<1>2. ASSUME NEW m \in S
      PROVE  PlaceIn(S, key, m) = Cardinality({n \in S : n.ts < m.ts})
  <2>1. {n \in S : key[n] < key[m]} = {n \in S : n.ts < m.ts}
    BY <1>1
  <2> QED BY <2>1 DEF PlaceIn
<1> HIDE DEF key
<1>3. /\ Cardinality(S) \in Nat
      /\ \A i \in 0 .. Cardinality(S) - 1 : \E m \in S : PlaceIn(S, key, m) = i
  BY <1>1, PlacesFill
<1>4. ASSUME NEW i \in 1 .. Cardinality(S)
      PROVE  shown[i] \in S /\ Cardinality({n \in S : n.ts < shown[i].ts}) = i - 1
  <2>1. i - 1 \in 0 .. Cardinality(S) - 1
    BY <1>3
  <2>2. \E m \in S : Cardinality({n \in S : n.ts < m.ts}) = i - 1
    BY <1>2, <1>3, <2>1
  <2>3. shown[i] = CHOOSE m \in S : Cardinality({n \in S : n.ts < m.ts}) = i - 1
    OBVIOUS
  <2> QED BY <2>2, <2>3
<1>5. shown \in [1 .. Cardinality(S) -> S]
  BY <1>4
<1>6. \A i \in 1 .. Cardinality(S) : Cardinality({n \in S : n.ts < shown[i].ts}) = i - 1
  BY <1>4
<1>7. \A r \in [1 .. Cardinality(S) -> S] :
        (\A i \in 1 .. Cardinality(S) : Cardinality({n \in S : n.ts < r[i].ts}) = i - 1)
        => r \in Seq(S) /\ Elems(r) = S /\ Increasing(r) /\ (r = <<>> <=> S = {})
  BY PutInTimesOrder
<1> QED BY <1>5, <1>6, <1>7

(* Of those on one side the nearest come: any that does not is further     *)
(* away than all that do, and one comes if there is any.                   *)
LEMMA NearestComeFirst ==
    ASSUME NEW S, NEW key, Keyed_(S, key), NEW limit \in Nat,
           NEW near, near = {m \in S : PlaceIn(S, key, m) < limit}
    PROVE  /\ near \subseteq S
           /\ \A m \in S \ near : \A n \in near : key[n] < key[m]
           /\ limit # 0 /\ S # {} => near # {}
<1>1. /\ Cardinality(S) \in Nat
      /\ \A m \in S : PlaceIn(S, key, m) \in 0 .. Cardinality(S) - 1
      /\ \A m, n \in S : key[n] < key[m] <=> PlaceIn(S, key, n) < PlaceIn(S, key, m)
      /\ \A i \in 0 .. Cardinality(S) - 1 : \E m \in S : PlaceIn(S, key, m) = i
  BY PlacesFill
<1>2. ASSUME NEW m \in S \ near, NEW n \in near PROVE key[n] < key[m]
  <2>1. ~(PlaceIn(S, key, m) < limit) /\ PlaceIn(S, key, n) < limit /\ m \in S /\ n \in S
    OBVIOUS
  <2>2. PlaceIn(S, key, m) \in Int /\ PlaceIn(S, key, n) \in Int
    BY <1>1, <2>1
  <2> QED BY <1>1, <2>1, <2>2
<1>3. ASSUME limit # 0, NEW m \in S PROVE near # {}
  <2>1. 0 \in 0 .. Cardinality(S) - 1
    BY <1>1
  <2>2. PICK n \in S : PlaceIn(S, key, n) = 0
    BY <1>1, <2>1
  <2> QED BY <1>3, <2>2
<1> QED BY <1>2, <1>3

Beyond(m, n, direction) == IF direction = "before" THEN m.ts < n.ts ELSE m.ts > n.ts

LEMMA WindowRows ==
    ASSUME stored \subseteq Messages, NEW root, NEW anchor \in Nat,
           NEW direction \in {"before", "after"}, NEW limit \in Nat,
           NEW shown, shown = ContextWindowRows(root, anchor, direction, limit)
    PROVE  /\ shown \in Seq(Side(root, anchor, direction)) /\ Increasing(shown)
           /\ \A m \in Side(root, anchor, direction) \ Elems(shown) :
                \A n \in Elems(shown) : Beyond(m, n, direction)
           /\ limit # 0 /\ Side(root, anchor, direction) # {} => shown # <<>>
<1>1. PICK side : side = Side(root, anchor, direction)
  OBVIOUS
<1>2. side \in SUBSET Messages
  BY <1>1 DEF Side, Stream
<1>3. PICK key : /\ Keyed_(side, key)
                 /\ \A m, n \in side :
                      key[n] < key[m] <=> IF direction = "before" THEN n.ts > m.ts ELSE n.ts < m.ts
  <2>1. CASE direction = "before"
    <3> DEFINE k == [m \in side |-> -m.ts]
    <3>1. Keyed_(side, k) /\ \A m \in side : m.ts \in Nat /\ k[m] = -m.ts
      BY <1>2, StoredKeyed
    <3>2. \A m, n \in side : k[n] < k[m] <=> n.ts > m.ts
      <4> HIDE DEF k
      <4> QED BY <3>1
    <3> QED BY <2>1, <3>1, <3>2
  <2>2. CASE direction = "after"
    <3> DEFINE k == [m \in side |-> m.ts]
    <3>1. Keyed_(side, k) /\ \A m \in side : m.ts \in Nat /\ k[m] = m.ts
      BY <1>2, StoredKeyed
    <3>2. \A m, n \in side : k[n] < k[m] <=> n.ts < m.ts
      <4> HIDE DEF k
      <4> QED BY <3>1
    <3> QED BY <2>2, <3>1, <3>2
  <2> QED BY <2>1, <2>2
<1>4. PICK near : near = {m \in side : PlaceIn(side, key, m) < limit}
  OBVIOUS
<1>5. \A m \in side :
        {n \in side : IF direction = "before" THEN n.ts > m.ts ELSE n.ts < m.ts}
        = {n \in side : key[n] < key[m]}
  BY <1>3
<1>6. near = {m \in side : Cardinality({n \in side : IF direction = "before" THEN n.ts > m.ts
                                                      ELSE n.ts < m.ts}) < limit}
  BY <1>4, <1>5 DEF PlaceIn
<1>7. shown = [i \in 1 .. Cardinality(near) |->
                CHOOSE m \in near : Cardinality({n \in near : n.ts < m.ts}) = i - 1]
  BY <1>1, <1>6 DEF ContextWindowRows
<1>8. /\ near \subseteq side
      /\ \A m \in side \ near : \A n \in near : key[n] < key[m]
      /\ limit # 0 /\ side # {} => near # {}
  BY <1>3, <1>4, NearestComeFirst
<1>9. near \in SUBSET Messages
  BY <1>2, <1>8
<1>10. shown \in Seq(near) /\ Elems(shown) = near /\ Increasing(shown) /\ (shown = <<>> <=> near = {})
  BY <1>7, <1>9, InTimesOrder
<1>11. shown \in Seq(side)
  BY <1>8, <1>10
<1>12. ASSUME NEW m \in side \ near, NEW n \in near PROVE Beyond(m, n, direction)
  <2>1. key[n] < key[m] /\ m \in side /\ n \in side
    BY <1>8, <1>12
  <2> QED BY <1>2, <1>3, <2>1, StoredKeyed DEF Beyond
<1> QED BY <1>1, <1>8, <1>10, <1>11, <1>12

(* A neighbour is reported if there is one.                                *)
LEMMA NeighborFound ==
    ASSUME stored \subseteq Messages, NEW root, NEW anchor \in Nat,
           NEW direction \in {"before", "after"}
    PROVE  HasNeighbor(root, anchor, direction) <=> Side(root, anchor, direction) # {}
<1>1. PICK shown : shown = ContextWindowRows(root, anchor, direction, 1)
  OBVIOUS
<1>2. /\ shown \in Seq(Side(root, anchor, direction))
      /\ Side(root, anchor, direction) # {} => shown # <<>>
  BY <1>1, WindowRows
<1>3. shown # <<>> => Side(root, anchor, direction) # {}
  BY <1>2
<1> QED BY <1>1, <1>2, <1>3 DEF HasNeighbor

LEMMA EndsOfRows ==
    ASSUME NEW shown \in Seq(Messages), shown # <<>>, Increasing(shown)
    PROVE  /\ shown[1] \in Elems(shown) /\ shown[Len(shown)] \in Elems(shown)
           /\ Elems(shown) \subseteq Messages
           /\ \A m \in Elems(shown) : shown[1].ts <= m.ts /\ m.ts <= shown[Len(shown)].ts
<1>1. Len(shown) \in Nat \ {0} /\ DOMAIN shown = 1 .. Len(shown)
  OBVIOUS
<1>2. \A i \in DOMAIN shown : shown[i] \in Messages /\ shown[i].ts \in Nat
  BY ContextAssumption
<1> QED BY <1>1, <1>2 DEF Elems, Increasing

(* Windows put together.                                                   *)
LEMMA RowsJoined ==
    ASSUME NEW a \in Seq(Messages), NEW b \in Seq(Messages), Increasing(a), Increasing(b),
           \A m \in Elems(a), n \in Elems(b) : m.ts < n.ts
    PROVE  /\ a \o b \in Seq(Messages) /\ Increasing(a \o b)
           /\ Elems(a \o b) = Elems(a) \union Elems(b)
           /\ (a \o b = <<>> <=> a = <<>> /\ b = <<>>)
           /\ a # <<>> => (a \o b)[1] = a[1]
           /\ b # <<>> => (a \o b)[Len(a \o b)] = b[Len(b)]
           /\ a = <<>> => a \o b = b
           /\ b = <<>> => a \o b = a
<1>0. PICK shown : shown = a \o b
  OBVIOUS
<1>1. /\ Len(a) \in Nat /\ Len(b) \in Nat
      /\ DOMAIN a = 1 .. Len(a) /\ DOMAIN b = 1 .. Len(b)
  OBVIOUS
<1>2. /\ shown \in Seq(Messages) /\ Len(shown) = Len(a) + Len(b)
      /\ DOMAIN shown = 1 .. Len(a) + Len(b)
  BY <1>0
<1>3. /\ \A i \in 1 .. Len(a) : shown[i] = a[i] /\ shown[i] \in Elems(a)
      /\ \A i \in Len(a) + 1 .. Len(a) + Len(b) :
            i - Len(a) \in DOMAIN b /\ shown[i] = b[i - Len(a)] /\ shown[i] \in Elems(b)
  <2>1. \A i \in 1 .. Len(a) : shown[i] = a[i]
    BY <1>0, <1>1
  <2>2. \A i \in Len(a) + 1 .. Len(a) + Len(b) : i - Len(a) \in DOMAIN b
    BY <1>1
  <2>3. \A i \in Len(a) + 1 .. Len(a) + Len(b) : shown[i] = b[i - Len(a)]
    BY <1>0, <1>1
  <2> QED BY <1>1, <2>1, <2>2, <2>3 DEF Elems
<1>4. ASSUME NEW i \in DOMAIN shown, NEW j \in DOMAIN shown, i < j PROVE shown[i].ts < shown[j].ts
  <2>1. CASE j <= Len(a)
    BY <1>1, <1>2, <1>3, <1>4, <2>1 DEF Increasing
  <2>2. CASE i > Len(a)
    <3>1. i - Len(a) \in DOMAIN b /\ j - Len(a) \in DOMAIN b /\ i - Len(a) < j - Len(a)
      BY <1>1, <1>2, <1>4, <2>2
    <3>2. shown[i] = b[i - Len(a)] /\ shown[j] = b[j - Len(a)]
      <4>1. i \in Len(a) + 1 .. Len(a) + Len(b) /\ j \in Len(a) + 1 .. Len(a) + Len(b)
        BY <1>1, <1>2, <1>4, <2>2
      <4> QED BY <1>3, <4>1
    <3>3. \A p, q \in DOMAIN b : p < q => b[p].ts < b[q].ts
      BY DEF Increasing
    <3>4. b[i - Len(a)].ts < b[j - Len(a)].ts
      BY <3>1, <3>3
    <3> QED BY <3>2, <3>4
  <2>3. CASE i <= Len(a) /\ j > Len(a)
    <3>1. shown[i] \in Elems(a) /\ shown[j] \in Elems(b)
      BY <1>1, <1>2, <1>3, <2>3
    <3> QED BY <3>1
  <2> QED BY <1>1, <1>2, <2>1, <2>2, <2>3
<1>5. Elems(shown) = Elems(a) \union Elems(b)
  <2>1. Elems(shown) \subseteq Elems(a) \union Elems(b)
    BY <1>1, <1>2, <1>3 DEF Elems
  <2>2. ASSUME NEW i \in DOMAIN a PROVE a[i] \in Elems(shown)
    <3>1. i \in DOMAIN shown /\ shown[i] = a[i]
      BY <1>1, <1>2, <1>3
    <3> QED BY <3>1 DEF Elems
  <2>3. ASSUME NEW i \in DOMAIN b PROVE b[i] \in Elems(shown)
    <3>1. i + Len(a) \in DOMAIN shown /\ shown[i + Len(a)] = b[(i + Len(a)) - Len(a)]
      BY <1>1, <1>2, <1>3
    <3> QED BY <1>1, <3>1 DEF Elems
  <2> QED BY <2>1, <2>2, <2>3 DEF Elems
<1>6. Increasing(shown)
  BY <1>4 DEF Increasing
<1>7. a # <<>> => shown[1] = a[1]
  BY <1>1, <1>3
<1>8. b # <<>> => shown[Len(shown)] = b[Len(b)]
  BY <1>1, <1>2, <1>3
<1>9. shown = <<>> <=> a = <<>> /\ b = <<>>
  BY <1>1, <1>2
<1>10. a = <<>> => shown = b
  BY <1>0
<1>11. b = <<>> => shown = a
  BY <1>0
<1> QED BY <1>0, <1>2, <1>5, <1>6, <1>7, <1>8, <1>9, <1>10, <1>11

-----------------------------------------------------------------------------
(* The reader *)

(* Shown without a gap, of what was mirrored at first.                     *)
Joined(r, first) ==
    /\ r.rows \in Seq(Messages) /\ r.rows # <<>> /\ Increasing(r.rows)
    /\ \A m \in first :
        InStream(m, r.stream) =>
            \/ m \in Elems(r.rows)
            \/ m.ts < r.rows[1].ts /\ r.before
            \/ m.ts > r.rows[Len(r.rows)].ts /\ r.after

(* The stream a window was opened in is still the selected message's, or   *)
(* that has got a reply.                                                   *)
Anchored(r, has, late) ==
    \E m \in has :
        /\ m.ts = r.selected
        /\ IF m.root # 0 THEN r.stream = m.root
           ELSE \/ r.stream = m.ts /\ \E n \in has : n.root = m.ts
                \/ r.stream = 0 /\ (late \/ \A n \in has : n.root # m.ts)

Readers ==
    [selected : Nat, stream : Nat, rows : Seq(Messages), before : BOOLEAN, after : BOOLEAN,
     refused : BOOLEAN, windows : 0 .. MaxWindows]

WindowInv ==
    /\ stored \subseteq Messages /\ there \subseteq stored /\ rooted \in BOOLEAN
    /\ reader \in Readers /\ Elems(reader.rows) \subseteq stored
    /\ reader # NoReader =>
        /\ Joined(reader, there)
        /\ reader.refused => rooted
        /\ reader.windows < MaxWindows => Anchored(reader, stored, rooted)

PackInv ==
    /\ chunks = <<>> \/ chunks \in Seq(STRING) \ {<<>>}
    /\ hit = NoHit \/ (hit.index \in Nat \ {0} /\ hit.stale \in BOOLEAN
                        /\ hit = [index |-> hit.index, text |-> hit.text, stale |-> hit.stale])
    /\ hit # NoHit /\ ~hit.stale => hit.index \in DOMAIN chunks /\ chunks[hit.index] = hit.text
    /\ hit # NoHit => chunks # <<>>
    /\ pack # NoPack => hit # NoHit
    /\ pack.selected \in 0 .. Len(pack.rows)
    /\ PackShowsHit

ContextInv == WindowInv /\ PackInv

LEMMA WindowsUntouched ==
    ASSUME WindowInv, UNCHANGED <<stored, there, rooted, reader>> PROVE WindowInv'
BY DEF WindowInv, Joined, Anchored, Increasing, Elems, InStream

LEMMA PacksUntouched ==
    ASSUME PackInv, UNCHANGED <<chunks, hit, pack>> PROVE PackInv'
BY DEF PackInv, PackShowsHit

LEMMA FindChunkKeeps ==
    ASSUME ContextInv, FindChunk PROVE ContextInv'
<1> USE DEF ContextInv
<1>1. WindowInv'
  BY WindowsUntouched DEF FindChunk
<1>2. PICK i \in DOMAIN chunks : hit' = [index |-> i, text |-> chunks[i], stale |-> FALSE]
  BY DEF FindChunk
<1>3. chunks # <<>> /\ chunks \in Seq(STRING) /\ i \in Nat \ {0}
  BY <1>2 DEF PackInv
<1>4. hit' # NoHit /\ pack = NoPack /\ UNCHANGED <<chunks, pack>>
  BY <1>2, <1>3 DEF FindChunk, PackInv, NoHit
<1>5. PackInv'
  BY <1>2, <1>3, <1>4 DEF PackInv, PackShowsHit, NoPack
<1> QED BY <1>1, <1>5

LEMMA ExtractTextKeeps ==
    ASSUME ContextInv, ExtractText PROVE ContextInv'
<1> USE DEF ContextInv
<1>1. WindowInv'
  BY WindowsUntouched DEF ExtractText
<1>2. chunks' \in Seq(STRING) \ {<<>>} /\ UNCHANGED pack
  BY ContextAssumption DEF ExtractText
<1>3. CASE hit = NoHit
  <2>1. hit' = NoHit
    BY <1>3 DEF ExtractText, NoHit
  <2> QED BY <1>1, <1>2, <1>3, <2>1 DEF PackInv, PackShowsHit, NoPack
<1>4. CASE hit # NoHit
  <2>1. hit' = [index |-> hit.index, text |-> hit.text, stale |-> TRUE]
    BY <1>4 DEF ExtractText, PackInv
  <2>2. hit' # NoHit /\ hit.index \in Nat \ {0}
    BY <1>4, <2>1 DEF NoHit, PackInv
  <2> QED BY <1>1, <1>2, <1>4, <2>1, <2>2 DEF PackInv, PackShowsHit
<1> QED BY <1>3, <1>4

LEMMA BuildPackKeeps ==
    ASSUME ContextInv, BuildPack PROVE ContextInv'
<1> USE DEF ContextInv
<1>1. WindowInv' /\ UNCHANGED <<chunks, hit>> /\ hit # NoHit
  BY WindowsUntouched DEF BuildPack
<1>2. PICK around \in WindowSizes : pack' = SelectContextChunks(hit.index, around)
  BY DEF BuildPack
<1>3. /\ around \in Nat \ {0} /\ chunks \in Seq(STRING) /\ Len(chunks) \in Nat \ {0}
      /\ DOMAIN chunks = 1 .. Len(chunks) /\ hit.index \in Nat \ {0}
  BY <1>1, <1>2, ContextAssumption DEF PackInv
<1>4. CASE hit.index \notin DOMAIN chunks
  <2>1. hit.stale
    BY <1>1, <1>4 DEF PackInv
  <2>2. pack' = [selected |-> 1, rows |-> SubSeq(chunks, 1, Least(Len(chunks), 2 * around + 1))]
    BY <1>2, <1>4 DEF SelectContextChunks
  <2>3. Least(Len(chunks), 2 * around + 1) \in 1 .. Len(chunks)
    BY <1>3 DEF Least
  <2>4. Len(SubSeq(chunks, 1, Least(Len(chunks), 2 * around + 1))) = Least(Len(chunks), 2 * around + 1)
    BY <1>3, <2>3
  <2> QED BY <1>1, <2>1, <2>2, <2>3, <2>4 DEF PackInv, PackShowsHit
<1>5. CASE hit.index \in DOMAIN chunks
  <2>1. PICK start : start = IF hit.index > around THEN hit.index - around ELSE 1
    OBVIOUS
  <2>2. PICK last : last = Least(Len(chunks), hit.index + around)
    OBVIOUS
  <2>3. start \in 1 .. hit.index /\ last \in hit.index .. Len(chunks)
    BY <1>3, <1>5, <2>1, <2>2 DEF Least
  <2>4. pack' = [selected |-> hit.index - start + 1, rows |-> SubSeq(chunks, start, last)]
    BY <1>2, <1>5, <2>1, <2>2 DEF SelectContextChunks
  <2>5. Len(SubSeq(chunks, start, last)) = last - start + 1
    BY <1>3, <2>3
  <2>6. SubSeq(chunks, start, last)[hit.index - start + 1] = chunks[hit.index]
    <3>1. /\ hit.index - start + 1 \in 1 .. last - start + 1
          /\ start + (hit.index - start + 1) - 1 = hit.index
      BY <1>3, <2>3
    <3> QED BY <1>3, <2>3, <3>1
  <2> QED BY <1>1, <1>3, <2>3, <2>4, <2>5, <2>6 DEF PackInv, PackShowsHit
<1> QED BY <1>4, <1>5

LEMMA ArriveMessageKeeps ==
    ASSUME ContextInv, ArriveMessage PROVE ContextInv'
<1> USE DEF ContextInv
<1>1. PICK m \in Unmirrored \ stored :
        /\ stored' = stored \union {m}
        /\ rooted' = (rooted \/ (reader # NoReader /\ m.root = reader.selected /\ reader.stream = 0))
  BY DEF ArriveMessage
<1>2. UNCHANGED <<reader, there, chunks, hit, pack>>
  BY DEF ArriveMessage
<1>3. PackInv'
  BY <1>2, PacksUntouched
<1>4. stored' \subseteq Messages /\ there' \subseteq stored' /\ Elems(reader'.rows) \subseteq stored'
  BY <1>1, <1>2, ContextAssumption DEF WindowInv, Elems
<1>5. rooted' \in BOOLEAN /\ (rooted => rooted')
  BY <1>1 DEF WindowInv
<1>6. ASSUME reader # NoReader, Anchored(reader, stored, rooted) PROVE Anchored(reader, stored', rooted')
  BY <1>1, <1>5, <1>6 DEF Anchored
<1>7. WindowInv'
  BY <1>2, <1>4, <1>5, <1>6 DEF WindowInv, Joined
<1> QED BY <1>3, <1>7

LEMMA CloseWindowKeeps ==
    ASSUME ContextInv, CloseWindow PROVE ContextInv'
<1> USE DEF ContextInv
<1>1. PackInv'
  BY PacksUntouched DEF CloseWindow
<1>2. NoReader \in Readers /\ Elems(NoReader.rows) = {}
  BY ContextAssumption DEF NoReader, Readers, Elems
<1>3. WindowInv'
  BY <1>2 DEF CloseWindow, WindowInv
<1> QED BY <1>1, <1>3

(* What is beyond the rows on a side is reported.                          *)
LEMMA FlagsTell ==
    ASSUME stored \subseteq Messages, NEW root, NEW m \in stored, InStream(m, root), NEW n \in Messages
    PROVE  /\ m.ts < n.ts => m \in Side(root, n.ts, "before") /\ HasNeighbor(root, n.ts, "before")
           /\ m.ts > n.ts => m \in Side(root, n.ts, "after") /\ HasNeighbor(root, n.ts, "after")
<1>1. m \in Stream(root) /\ n.ts \in Nat
  BY ContextAssumption DEF Stream, InStream
<1>2. m.ts < n.ts => m \in Side(root, n.ts, "before")
  BY <1>1 DEF Side
<1>3. m.ts > n.ts => m \in Side(root, n.ts, "after")
  BY <1>1 DEF Side
<1> QED BY <1>1, <1>2, <1>3, NeighborFound

LEMMA OpenWindowKeeps ==
    ASSUME ContextInv, OpenWindow PROVE ContextInv'
<1> USE DEF ContextInv
<1>1. PICK m \in stored, limit \in WindowSizes :
        LET root == ThreadRoot(m)
            earlier == ContextWindowRows(root, m.ts, "before", (limit - 1) \div 2)
            later == ContextWindowRows(root, m.ts, "after", limit - 1 - (limit - 1) \div 2)
            shown == earlier \o <<m>> \o later
        IN  reader' = [selected |-> m.ts, stream |-> root, rows |-> shown, refused |-> FALSE, windows |-> 1,
                       before |-> HasNeighbor(root, shown[1].ts, "before"),
                       after |-> HasNeighbor(root, shown[Len(shown)].ts, "after")]
  BY DEF OpenWindow
<1>2. /\ UNCHANGED <<stored, rooted, chunks, hit, pack>> /\ there' = stored
      /\ stored \subseteq Messages /\ m \in Messages
      /\ m.ts \in Nat \ {0} /\ m.root \in Nat /\ limit \in Nat \ {0}
      /\ (limit - 1) \div 2 \in Nat /\ limit - 1 - (limit - 1) \div 2 \in Nat
  <2>1. UNCHANGED <<stored, rooted, chunks, hit, pack>> /\ there' = stored
    BY DEF OpenWindow
  <2>2. stored \subseteq Messages /\ m \in Messages
    BY DEF WindowInv
  <2>3. m.ts \in Nat \ {0} /\ m.root \in Nat /\ limit \in Nat \ {0}
    BY <2>2, ContextAssumption
  <2> QED BY <2>1, <2>2, <2>3
<1>3. PackInv'
  BY <1>2, PacksUntouched
<1>4. PICK root : root = ThreadRoot(m)
  OBVIOUS
<1>5. PICK earlier : earlier = ContextWindowRows(root, m.ts, "before", (limit - 1) \div 2)
  OBVIOUS
<1>6. PICK later : later = ContextWindowRows(root, m.ts, "after", limit - 1 - (limit - 1) \div 2)
  OBVIOUS
<1>7. PICK early : early = earlier \o <<m>>
  OBVIOUS
<1>8. PICK shown : shown = early \o later
  OBVIOUS
<1>9. reader' = [selected |-> m.ts, stream |-> root, rows |-> shown, refused |-> FALSE, windows |-> 1,
                 before |-> HasNeighbor(root, shown[1].ts, "before"),
                 after |-> HasNeighbor(root, shown[Len(shown)].ts, "after")]
  BY <1>1, <1>4, <1>5, <1>6, <1>7, <1>8
<1>10. /\ earlier \in Seq(Side(root, m.ts, "before")) /\ Increasing(earlier)
       /\ \A x \in Side(root, m.ts, "before") \ Elems(earlier) : \A y \in Elems(earlier) : x.ts < y.ts
  BY <1>2, <1>5, WindowRows DEF Beyond
<1>11. /\ later \in Seq(Side(root, m.ts, "after")) /\ Increasing(later)
       /\ \A x \in Side(root, m.ts, "after") \ Elems(later) : \A y \in Elems(later) : x.ts > y.ts
  BY <1>2, <1>6, WindowRows DEF Beyond
<1>12. /\ \A x \in Side(root, m.ts, "before") : x \in stored /\ x.ts < m.ts
       /\ \A x \in Side(root, m.ts, "after") : x \in stored /\ x.ts > m.ts
  BY DEF Side, Stream
<1>13. /\ earlier \in Seq(Messages) /\ later \in Seq(Messages) /\ <<m>> \in Seq(Messages)
       /\ Increasing(<<m>>) /\ Elems(<<m>>) = {m}
       /\ Elems(earlier) \subseteq Side(root, m.ts, "before")
       /\ Elems(later) \subseteq Side(root, m.ts, "after")
  <2>1. /\ Side(root, m.ts, "before") \subseteq Messages
        /\ Side(root, m.ts, "after") \subseteq Messages
    BY <1>2, <1>12
  <2>2. earlier \in Seq(Messages) /\ later \in Seq(Messages) /\ <<m>> \in Seq(Messages)
    BY <1>2, <1>10, <1>11, <2>1
  <2>3. Increasing(<<m>>) /\ Elems(<<m>>) = {m}
    BY DEF Increasing, Elems
  <2>4. /\ Elems(earlier) \subseteq Side(root, m.ts, "before")
        /\ Elems(later) \subseteq Side(root, m.ts, "after")
    BY <1>10, <1>11 DEF Elems
  <2> QED BY <2>2, <2>3, <2>4
<1>14. /\ early \in Seq(Messages) /\ Increasing(early) /\ Elems(early) = Elems(earlier) \union {m}
       /\ early # <<>> /\ early[Len(early)] = m
       /\ earlier # <<>> => early[1] = earlier[1]
       /\ earlier = <<>> => early = <<m>>
  <2>1. \A x \in Elems(earlier), y \in Elems(<<m>>) : x.ts < y.ts
    BY <1>12, <1>13
  <2>2. PICK one : one = <<m>>
    OBVIOUS
  <2>3. one # <<>> /\ one[Len(one)] = m
    BY <2>2
  <2>4. /\ early \in Seq(Messages) /\ Increasing(early)
        /\ Elems(early) = Elems(earlier) \union Elems(one)
        /\ (early = <<>> <=> earlier = <<>> /\ one = <<>>)
        /\ earlier # <<>> => early[1] = earlier[1]
        /\ one # <<>> => early[Len(early)] = one[Len(one)]
        /\ earlier = <<>> => early = one
    <3>1. early = earlier \o one /\ one \in Seq(Messages) /\ Increasing(one)
          /\ \A x \in Elems(earlier), y \in Elems(one) : x.ts < y.ts
      BY <1>7, <1>13, <2>1, <2>2
    <3> QED BY <1>10, <1>13, <3>1, RowsJoined
  <2> QED BY <1>13, <2>2, <2>3, <2>4
<1>15. /\ shown \in Seq(Messages) /\ Increasing(shown) /\ shown # <<>>
       /\ Elems(shown) = Elems(early) \union Elems(later)
       /\ shown[1] = early[1]
       /\ later # <<>> => shown[Len(shown)] = later[Len(later)]
       /\ later = <<>> => shown[Len(shown)] = m
  <2>1. ASSUME NEW x \in Elems(early), NEW y \in Elems(later) PROVE x.ts < y.ts
    <3>1. (x = m \/ (x \in Messages /\ x.ts < m.ts)) /\ y.ts > m.ts /\ y \in Messages
      BY <1>2, <1>12, <1>13, <1>14
    <3> QED BY <1>2, <3>1, ContextAssumption
  <2>2. \A x \in Elems(early), y \in Elems(later) : x.ts < y.ts
    BY <2>1
  <2>3. /\ shown \in Seq(Messages) /\ Increasing(shown)
        /\ Elems(shown) = Elems(early) \union Elems(later)
        /\ (shown = <<>> <=> early = <<>> /\ later = <<>>)
        /\ early # <<>> => shown[1] = early[1]
        /\ later # <<>> => shown[Len(shown)] = later[Len(later)]
        /\ later = <<>> => shown = early
    BY <1>8, <1>11, <1>13, <1>14, <2>2, RowsJoined
  <2> QED BY <1>14, <2>3
<1>16. Elems(shown) \subseteq stored
  BY <1>12, <1>13, <1>14, <1>15
<1>17. shown[1] \in Messages /\ shown[Len(shown)] \in Messages
  BY <1>15, EndsOfRows
<1>18. ASSUME NEW x \in stored, InStream(x, root)
       PROVE  \/ x \in Elems(shown)
              \/ x.ts < shown[1].ts /\ HasNeighbor(root, shown[1].ts, "before")
              \/ x.ts > shown[Len(shown)].ts /\ HasNeighbor(root, shown[Len(shown)].ts, "after")
  <2>1. CASE x.ts = m.ts
    <3>1. x = m
      BY <1>2, <2>1, ContextAssumption
    <3> QED BY <1>14, <1>15, <3>1
  <2>2. CASE x.ts < m.ts /\ x \notin Elems(shown)
    <3>1. x \in Side(root, m.ts, "before") \ Elems(earlier)
      BY <1>2, <1>14, <1>15, <1>18, <2>2, FlagsTell
    <3>2. x.ts < shown[1].ts
      <4>1. CASE earlier = <<>>
        <5>1. shown[1] = m
          BY <1>14, <1>15, <4>1
        <5> QED BY <2>2, <5>1
      <4>2. CASE earlier # <<>>
        <5>1. shown[1] \in Elems(earlier)
          BY <1>10, <1>13, <1>14, <1>15, <4>2, EndsOfRows
        <5> QED BY <1>10, <3>1, <5>1
      <4> QED BY <4>1, <4>2
    <3> QED BY <1>2, <1>17, <1>18, <3>2, FlagsTell
  <2>3. CASE x.ts > m.ts /\ x \notin Elems(shown)
    <3>1. x \in Side(root, m.ts, "after") \ Elems(later)
      BY <1>2, <1>15, <1>18, <2>3, FlagsTell
    <3>2. x.ts > shown[Len(shown)].ts
      <4>1. CASE later = <<>>
        BY <1>15, <2>3, <4>1
      <4>2. CASE later # <<>>
        <5>1. shown[Len(shown)] \in Elems(later)
          BY <1>11, <1>13, <1>15, <4>2, EndsOfRows
        <5> QED BY <1>11, <3>1, <5>1
      <4> QED BY <4>1, <4>2
    <3> QED BY <1>2, <1>17, <1>18, <3>2, FlagsTell
  <2>4. x.ts \in Nat
    BY <1>2, ContextAssumption
  <2> QED BY <1>2, <2>1, <2>2, <2>3, <2>4
<1>19. Joined(reader', there')
  BY <1>2, <1>9, <1>15, <1>18 DEF Joined
<1>20. root \in Nat /\ Anchored(reader', stored', rooted')
  BY <1>2, <1>4, <1>9 DEF ThreadRoot, Anchored
<1>21. HasNeighbor(root, shown[1].ts, "before") \in BOOLEAN
       /\ HasNeighbor(root, shown[Len(shown)].ts, "after") \in BOOLEAN
  BY DEF HasNeighbor
<1>22. reader' \in Readers
  BY <1>2, <1>9, <1>15, <1>20, <1>21, ContextAssumption DEF Readers
<1>23. WindowInv'
  BY <1>2, <1>9, <1>16, <1>19, <1>20, <1>22 DEF WindowInv
<1> QED BY <1>3, <1>23

(* A cursor of another stream than the message's own is one from before    *)
(* its first reply.                                                        *)
LEMMA StreamOfSelected ==
    ASSUME WindowInv, Anchored(reader, stored, rooted),
           NEW root, root = ThreadRoot(AtTime(reader.selected)), root # reader.stream
    PROVE  rooted
<1>1. PICK m \in stored :
        /\ m.ts = reader.selected
        /\ IF m.root # 0 THEN reader.stream = m.root
           ELSE \/ reader.stream = m.ts /\ \E n \in stored : n.root = m.ts
                \/ reader.stream = 0 /\ (rooted \/ \A n \in stored : n.root # m.ts)
  BY DEF Anchored
<1>2. AtTime(reader.selected) = m
  <2>1. \A n \in stored : n.ts = reader.selected => n = m
    BY <1>1, ContextAssumption DEF WindowInv
  <2> QED BY <1>1, <2>1 DEF AtTime
<1> QED BY <1>1, <1>2 DEF ThreadRoot, WindowInv

LEMMA NextWindowKeeps ==
    ASSUME ContextInv, NEW direction \in {"before", "after"}, NextWindow(direction)
    PROVE  ContextInv'
<1> USE DEF ContextInv
<1>1. UNCHANGED <<stored, there, rooted, chunks, hit, pack>>
  BY DEF NextWindow
<1>2. PackInv'
  BY <1>1, PacksUntouched
<1>3. /\ reader.windows \in 1 .. (MaxWindows - 1) /\ ~reader.refused /\ MaxWindows \in Nat \ {0}
      /\ IF direction = "before" THEN reader.before ELSE reader.after
  BY ContextAssumption DEF NextWindow
<1>4. /\ reader # NoReader /\ Joined(reader, there) /\ reader \in Readers
      /\ Anchored(reader, stored, rooted)
      /\ Elems(reader.rows) \subseteq stored /\ stored \subseteq Messages /\ there \subseteq stored
      /\ rooted \in BOOLEAN
  BY <1>3 DEF WindowInv, NoReader
<1>5. PICK limit \in WindowSizes :
        LET first == reader.rows[1].ts
            last == reader.rows[Len(reader.rows)].ts
            root == ThreadRoot(AtTime(reader.selected))
            new == ContextWindowRows(root, IF direction = "before" THEN first ELSE last, direction, limit)
            shown == IF direction = "before" THEN new \o reader.rows ELSE reader.rows \o new
        IN  reader' =
                IF root # reader.stream THEN [reader EXCEPT !.refused = TRUE]
                ELSE [reader EXCEPT
                        !.rows = shown, !.windows = @ + 1,
                        !.before = IF direction = "before" THEN HasNeighbor(root, shown[1].ts, "before") ELSE @,
                        !.after = IF direction = "after"
                                  THEN HasNeighbor(root, shown[Len(shown)].ts, "after") ELSE @]
  BY DEF NextWindow
<1>6. PICK root : root = ThreadRoot(AtTime(reader.selected))
  OBVIOUS
<1>7. CASE root # reader.stream
  <2>1. rooted
    BY <1>4, <1>6, <1>7, StreamOfSelected
  <2>2. reader' = [reader EXCEPT !.refused = TRUE]
    BY <1>5, <1>6, <1>7
  <2>3. /\ reader' \in Readers /\ reader'.rows = reader.rows /\ reader'.stream = reader.stream
        /\ reader'.before = reader.before /\ reader'.after = reader.after
        /\ reader'.selected = reader.selected
    BY <1>4, <2>2 DEF Readers
  <2>4. Joined(reader', there') /\ Anchored(reader', stored', rooted')
    BY <1>1, <1>4, <2>3 DEF Joined, Anchored
  <2> QED BY <1>1, <1>2, <1>4, <2>1, <2>3, <2>4 DEF WindowInv
<1>8. CASE root = reader.stream
  <2>1. PICK old : old = reader.rows
    OBVIOUS
  <2>2. PICK anchor : anchor = IF direction = "before" THEN old[1].ts ELSE old[Len(old)].ts
    OBVIOUS
  <2>3. PICK new : new = ContextWindowRows(root, anchor, direction, limit)
    OBVIOUS
  <2>4. PICK shown : shown = IF direction = "before" THEN new \o old ELSE old \o new
    OBVIOUS
  <2>5. reader' = [reader EXCEPT
                    !.rows = shown, !.windows = reader.windows + 1,
                    !.before = IF direction = "before" THEN HasNeighbor(root, shown[1].ts, "before")
                               ELSE reader.before,
                    !.after = IF direction = "after" THEN HasNeighbor(root, shown[Len(shown)].ts, "after")
                              ELSE reader.after]
    BY <1>5, <1>6, <1>8, <2>1, <2>2, <2>3, <2>4
  <2>6. /\ old \in Seq(Messages) /\ old # <<>> /\ Increasing(old) /\ Elems(old) \subseteq stored
        /\ \A m \in there :
             InStream(m, root) =>
                \/ m \in Elems(old)
                \/ m.ts < old[1].ts /\ reader.before
                \/ m.ts > old[Len(old)].ts /\ reader.after
    BY <1>4, <1>8, <2>1 DEF Joined
  <2>7. /\ old[1] \in Elems(old) /\ old[Len(old)] \in Elems(old)
        /\ \A m \in Elems(old) : m \in Messages /\ old[1].ts <= m.ts /\ m.ts <= old[Len(old)].ts
    BY <2>6, EndsOfRows
  <2>8. /\ anchor \in Nat /\ limit \in Nat \ {0}
        /\ old[1].ts \in Nat /\ old[Len(old)].ts \in Nat
    BY <1>5, <2>2, <2>7, ContextAssumption
  <2>9. PICK side : side = Side(root, anchor, direction)
    OBVIOUS
  <2>10. /\ new \in Seq(side) /\ Increasing(new)
         /\ \A x \in side \ Elems(new) : \A y \in Elems(new) : Beyond(x, y, direction)
         /\ side # {} => new # <<>>
    BY <1>4, <2>3, <2>8, <2>9, WindowRows
  <2>11. /\ side \subseteq stored
         /\ \A x \in side : IF direction = "before" THEN x.ts < old[1].ts ELSE x.ts > old[Len(old)].ts
    BY <2>2, <2>9 DEF Side, Stream
  <2>12. /\ new \in Seq(Messages) /\ Elems(new) \subseteq side
    <3>1. side \subseteq Messages
      BY <1>4, <2>11
    <3> QED BY <2>10, <3>1 DEF Elems
  <2>13. /\ shown \in Seq(Messages) /\ shown # <<>> /\ Increasing(shown)
         /\ Elems(shown) = Elems(old) \union Elems(new)
         /\ IF direction = "before"
            THEN shown[Len(shown)] = old[Len(old)] /\ shown[1] = (IF new = <<>> THEN old[1] ELSE new[1])
            ELSE /\ shown[1] = old[1]
                 /\ shown[Len(shown)] = IF new = <<>> THEN old[Len(old)] ELSE new[Len(new)]
    <3>1. CASE direction = "before"
      <4>1. \A x \in Elems(new), y \in Elems(old) : x.ts < y.ts
        BY <1>4, <2>7, <2>8, <2>11, <2>12, <3>1, ContextAssumption
      <4>2. shown = new \o old
        BY <2>4, <3>1
      <4>3. /\ shown \in Seq(Messages) /\ Increasing(shown)
            /\ Elems(shown) = Elems(new) \union Elems(old)
            /\ (shown = <<>> <=> new = <<>> /\ old = <<>>)
            /\ new # <<>> => shown[1] = new[1]
            /\ old # <<>> => shown[Len(shown)] = old[Len(old)]
            /\ new = <<>> => shown = old
        BY <2>6, <2>10, <2>12, <4>1, <4>2, RowsJoined
      <4> QED BY <2>6, <3>1, <4>3
    <3>2. CASE direction = "after"
      <4>1. \A x \in Elems(old), y \in Elems(new) : x.ts < y.ts
        BY <1>4, <2>7, <2>8, <2>11, <2>12, <3>2, ContextAssumption
      <4>2. shown = old \o new
        BY <2>4, <3>2
      <4>3. /\ shown \in Seq(Messages) /\ Increasing(shown)
            /\ Elems(shown) = Elems(old) \union Elems(new)
            /\ (shown = <<>> <=> old = <<>> /\ new = <<>>)
            /\ old # <<>> => shown[1] = old[1]
            /\ new # <<>> => shown[Len(shown)] = new[Len(new)]
            /\ new = <<>> => shown = old
        BY <2>6, <2>10, <2>12, <4>1, <4>2, RowsJoined
      <4> QED BY <2>6, <3>2, <4>3
    <3> QED BY <3>1, <3>2
  <2>14. shown[1] \in Messages /\ shown[Len(shown)] \in Messages
    BY <2>13, EndsOfRows
  <2>15. /\ HasNeighbor(root, shown[1].ts, "before") \in BOOLEAN
         /\ HasNeighbor(root, shown[Len(shown)].ts, "after") \in BOOLEAN
    BY DEF HasNeighbor
  <2>16. /\ reader' \in Readers /\ reader'.rows = shown /\ reader'.stream = root
         /\ reader'.selected = reader.selected /\ reader'.refused = reader.refused
         /\ reader'.before = IF direction = "before" THEN HasNeighbor(root, shown[1].ts, "before")
                             ELSE reader.before
         /\ reader'.after = IF direction = "after" THEN HasNeighbor(root, shown[Len(shown)].ts, "after")
                            ELSE reader.after
    <3>1. PICK b : b = IF direction = "before" THEN HasNeighbor(root, shown[1].ts, "before") ELSE reader.before
      OBVIOUS
    <3>2. PICK a : a = IF direction = "after" THEN HasNeighbor(root, shown[Len(shown)].ts, "after")
                       ELSE reader.after
      OBVIOUS
    <3>3. b \in BOOLEAN /\ a \in BOOLEAN
      BY <1>4, <2>15, <3>1, <3>2 DEF Readers
    <3>4. reader' = [selected |-> reader.selected, stream |-> root, rows |-> shown, before |-> b,
                     after |-> a, refused |-> reader.refused, windows |-> reader.windows + 1]
      <4>1. reader' = [reader EXCEPT !.rows = shown, !.windows = reader.windows + 1,
                                     !.before = b, !.after = a]
        BY <2>5, <3>1, <3>2
      <4> QED BY <1>4, <1>8, <4>1 DEF Readers
    <3>5. reader.windows + 1 \in 0 .. MaxWindows
      BY <1>3
    <3> QED BY <1>4, <1>8, <2>13, <3>1, <3>2, <3>3, <3>4, <3>5 DEF Readers
  <2>17. ASSUME NEW x \in there, InStream(x, root)
         PROVE  \/ x \in Elems(shown)
                \/ x.ts < shown[1].ts /\ reader'.before
                \/ x.ts > shown[Len(shown)].ts /\ reader'.after
    <3>1. x \in stored /\ x \in Messages /\ x.ts \in Nat
      BY <1>4, ContextAssumption
    <3>2. CASE x \in side /\ x \notin Elems(new)
      <4>1. new # <<>> /\ \A y \in Elems(new) : Beyond(x, y, direction)
        BY <2>10, <3>2
      <4>2. new[1] \in Elems(new) /\ new[Len(new)] \in Elems(new)
        BY <2>10, <2>12, <4>1, EndsOfRows
      <4>3. IF direction = "before" THEN x.ts < shown[1].ts ELSE x.ts > shown[Len(shown)].ts
        BY <2>13, <4>1, <4>2 DEF Beyond
      <4> QED BY <1>4, <2>14, <2>16, <2>17, <3>1, <4>3, FlagsTell
    <3>3. CASE x \in Elems(new) \/ x \in Elems(old)
      BY <2>13, <3>3
    <3>4. CASE x \notin side /\ x \notin Elems(old)
      <4>1. CASE direction = "before"
        <5>1. ~(x.ts < old[1].ts)
          BY <1>4, <2>2, <2>7, <2>9, <2>17, <3>1, <3>4, <4>1, FlagsTell
        <5> QED BY <2>6, <2>13, <2>16, <2>17, <3>4, <4>1, <5>1
      <4>2. CASE direction = "after"
        <5>1. ~(x.ts > old[Len(old)].ts)
          BY <1>4, <2>2, <2>7, <2>9, <2>17, <3>1, <3>4, <4>2, FlagsTell
        <5> QED BY <2>6, <2>13, <2>16, <2>17, <3>4, <4>2, <5>1
      <4> QED BY <4>1, <4>2
    <3> QED BY <3>2, <3>3, <3>4
  <2>18. Joined(reader', there')
    BY <1>1, <2>13, <2>16, <2>17 DEF Joined
  <2>19. Anchored(reader', stored', rooted')
    BY <1>1, <1>4, <1>8, <2>16 DEF Anchored
  <2>20. Elems(reader'.rows) \subseteq stored'
    BY <1>1, <2>6, <2>11, <2>12, <2>13, <2>16
  <2> QED BY <1>1, <1>2, <1>3, <1>4, <2>16, <2>18, <2>19, <2>20 DEF WindowInv
<1> QED BY <1>7, <1>8

LEMMA OpenPermalinkKeeps ==
    ASSUME ContextInv, OpenPermalink PROVE ContextInv'
<1> USE DEF ContextInv
<1>1. PICK m \in Messages, limit \in WindowSizes :
        LET root == IF m.root = 0 THEN m.ts ELSE m.root
            thread == ThreadContext(root, limit).items
        IN  /\ Resolution(m.ts, root).count > 0
            /\ reader' = [NoReader EXCEPT !.selected = m.ts, !.stream = root, !.windows = MaxWindows,
                            !.rows = [i \in 1..Cardinality(thread) |->
                                CHOOSE n \in thread : Cardinality({k \in thread : k.ts < n.ts}) = i - 1],
                            !.after = Resolution(m.ts, root).count > limit]
  BY DEF OpenPermalink
<1>2. UNCHANGED <<stored, rooted, chunks, hit, pack>> /\ there' = stored
  BY DEF OpenPermalink
<1>3. PackInv'
  BY <1>2, PacksUntouched
<1>4. /\ stored \subseteq Messages /\ rooted \in BOOLEAN
      /\ m.ts \in Nat \ {0} /\ m.root \in Nat /\ limit \in Nat \ {0} /\ MaxWindows \in Nat \ {0}
  BY <1>1, ContextAssumption DEF WindowInv
<1> DEFINE root == IF m.root = 0 THEN m.ts ELSE m.root
           thread == ThreadContext(root, limit).items
<1>5. /\ Resolution(m.ts, root).count > 0
      /\ reader' = [NoReader EXCEPT !.selected = m.ts, !.stream = root, !.windows = MaxWindows,
                      !.rows = [i \in 1..Cardinality(thread) |->
                          CHOOSE n \in thread : Cardinality({k \in thread : k.ts < n.ts}) = i - 1],
                      !.after = Resolution(m.ts, root).count > limit]
  BY <1>1
<1>6. PICK stream : stream = Stream(root)
  OBVIOUS
<1>7. stream \subseteq stored /\ root \in Nat \ {0}
  BY <1>4, <1>6 DEF Stream
<1>8. thread = ThreadContext(root, limit).items
  OBVIOUS
<1> HIDE DEF root, thread
<1>9. thread = {x \in stream : Cardinality({n \in stream : n.ts < x.ts}) < limit}
  BY <1>6, <1>8 DEF ThreadContext
<1>10. PICK shown : shown = [i \in 1..Cardinality(thread) |->
                             CHOOSE n \in thread : Cardinality({k \in thread : k.ts < n.ts}) = i - 1]
  OBVIOUS
<1>11. /\ Cardinality(stream) > 0
       /\ reader' = [NoReader EXCEPT !.selected = m.ts, !.stream = root, !.windows = MaxWindows,
                       !.rows = shown, !.after = Cardinality(stream) > limit]
  <2>1. Resolution(m.ts, root).count = Cardinality(stream)
    BY <1>6 DEF Resolution
  <2> QED BY <1>5, <1>10, <2>1
<1>12. stream \in SUBSET Messages /\ thread \in SUBSET Messages
  BY <1>4, <1>7, <1>9
<1>13. shown \in Seq(thread) /\ Elems(shown) = thread /\ Increasing(shown) /\ (shown = <<>> <=> thread = {})
  <2>1. \A r : r = [i \in 1..Cardinality(thread) |->
                     CHOOSE n \in thread : Cardinality({k \in thread : k.ts < n.ts}) = i - 1]
              => r \in Seq(thread) /\ Elems(r) = thread /\ Increasing(r) /\ (r = <<>> <=> thread = {})
    BY <1>12, InTimesOrder
  <2> QED BY <1>10, <2>1
<1>14. PICK key : Keyed_(stream, key) /\ \A x \in stream : key[x] = x.ts
  <2> DEFINE k == [x \in stream |-> x.ts]
  <2>1. Keyed_(stream, k) /\ \A x \in stream : k[x] = x.ts
    BY <1>12, StoredKeyed
  <2> HIDE DEF k
  <2> QED BY <2>1
<1>15. \A x \in stream : Cardinality({n \in stream : n.ts < x.ts}) = PlaceIn(stream, key, x)
  <2> SUFFICES ASSUME NEW x \in stream
               PROVE  Cardinality({n \in stream : n.ts < x.ts}) = PlaceIn(stream, key, x)
    OBVIOUS
  <2>1. {n \in stream : n.ts < x.ts} = {n \in stream : key[n] < key[x]}
    BY <1>14
  <2> QED BY <2>1 DEF PlaceIn
<1>16. thread = {x \in stream : PlaceIn(stream, key, x) < limit}
  BY <1>9, <1>15
<1>17. /\ \A x \in stream \ thread : \A n \in thread : key[n] < key[x]
       /\ stream # {} => thread # {}
  <2>1. \A near : near = {x \in stream : PlaceIn(stream, key, x) < limit}
            => /\ \A x \in stream \ near : \A n \in near : key[n] < key[x]
               /\ limit # 0 /\ stream # {} => near # {}
    BY <1>4, <1>14, NearestComeFirst
  <2> QED BY <1>4, <1>16, <2>1
<1>18. Cardinality(stream) \in Nat /\ \A x \in stream : PlaceIn(stream, key, x) \in 0 .. Cardinality(stream) - 1
  BY <1>14, PlacesFill
<1>19. stream # {} /\ shown # <<>> /\ shown \in Seq(Messages)
  <2>1. stream # {}
    BY <1>11, FS_EmptySet
  <2> QED BY <1>12, <1>13, <1>17, <2>1
<1>20. ASSUME NEW x \in stored, InStream(x, root)
       PROVE  x \in Elems(shown) \/ (x.ts > shown[Len(shown)].ts /\ Cardinality(stream) > limit)
  <2>1. x \in stream
    BY <1>6, <1>20 DEF Stream, InStream
  <2>2. CASE x \notin thread
    <3>1. shown[Len(shown)] \in thread
      BY <1>13, <1>19, EndsOfRows
    <3>2. x.ts > shown[Len(shown)].ts
      BY <1>4, <1>7, <1>9, <1>14, <1>17, <2>1, <2>2, <3>1, ContextAssumption
    <3>3. Cardinality(stream) > limit
      BY <1>4, <1>16, <1>18, <2>1, <2>2
    <3> QED BY <3>2, <3>3
  <2> QED BY <1>13, <2>2
<1>21. /\ reader' \in Readers /\ reader'.rows = shown /\ reader'.stream = root
       /\ reader'.refused = FALSE /\ reader'.windows = MaxWindows
       /\ reader'.after = (Cardinality(stream) > limit)
  <2>1. PICK a : a = (Cardinality(stream) > limit)
    OBVIOUS
  <2>2. reader' = [selected |-> m.ts, stream |-> root, rows |-> shown, before |-> FALSE, after |-> a,
                   refused |-> FALSE, windows |-> MaxWindows]
    BY <1>11, <2>1 DEF NoReader
  <2>3. a \in BOOLEAN /\ MaxWindows \in 0 .. MaxWindows
    BY <1>4, <2>1
  <2> QED BY <1>4, <1>7, <1>19, <2>1, <2>2, <2>3 DEF Readers
<1>22. Joined(reader', there')
  BY <1>2, <1>13, <1>19, <1>20, <1>21 DEF Joined
<1>23. Elems(reader'.rows) \subseteq stored'
  BY <1>2, <1>7, <1>9, <1>13, <1>21
<1>24. WindowInv'
  BY <1>2, <1>4, <1>21, <1>22, <1>23 DEF WindowInv
<1> QED BY <1>3, <1>24

LEMMA ContextBegins == ContextInit => ContextInv
<1> SUFFICES ASSUME ContextInit PROVE ContextInv
  OBVIOUS
<1>1. NoReader \in Readers /\ Elems(NoReader.rows) = {}
  BY ContextAssumption DEF NoReader, Readers, Elems
<1>2. WindowInv
  BY <1>1 DEF ContextInit, WindowInv
<1>3. PackInv
  BY DEF ContextInit, PackInv, PackShowsHit, NoPack, NoHit
<1> QED BY <1>2, <1>3 DEF ContextInv

LEMMA ContextStepKeeps == ContextInv /\ [ContextNext]_contextVars => ContextInv'
<1> SUFFICES ASSUME ContextInv, [ContextNext]_contextVars PROVE ContextInv'
  OBVIOUS
<1>1. CASE UNCHANGED contextVars
  BY <1>1, WindowsUntouched, PacksUntouched DEF contextVars, ContextInv
<1> QED BY <1>1, OpenWindowKeeps, CloseWindowKeeps, OpenPermalinkKeeps, NextWindowKeeps,
           ArriveMessageKeeps, FindChunkKeeps, ExtractTextKeeps, BuildPackKeeps DEF ContextNext

LEMMA ContextInvStands == ContextInv => ContextTypeOK /\ ContextStands
<1> SUFFICES ASSUME ContextInv PROVE ContextTypeOK /\ ContextStands
  OBVIOUS
<1>1. ContextTypeOK
  BY DEF ContextInv, WindowInv, PackInv, ContextTypeOK, Readers
<1>2. WindowsJoin
  BY DEF ContextInv, WindowInv, WindowsJoin, Joined, Increasing
<1> QED BY <1>1, <1>2 DEF ContextInv, PackInv, ContextStands

(* What readers have are messages that are mirrored, and packs mark a row  *)
(* they have (service/app.py).                                             *)
THEOREM ContextTypeCorrect == ContextSpec => []ContextTypeOK
BY ContextBegins, ContextStepKeeps, ContextInvStands, PTL DEF ContextSpec

(* Windows opened around a message and continued by their cursors, or a    *)
(* permalink's thread, show what was mirrored at first once, in order and  *)
(* without a gap, whatever arrives in between and however many a window    *)
(* shows (build_context_window); and a pack marks the hit                  *)
(* (_select_context_chunks).                                               *)
THEOREM ContextAlwaysStands == ContextSpec => []ContextStands
BY ContextBegins, ContextStepKeeps, ContextInvStands, PTL DEF ContextSpec

-----------------------------------------------------------------------------
(* SearchPages: orders of a search *)

RowOrder(S, sc) == {p \in S \X S : Ahead(p[1], sc[p[1]], p[2], sc[p[2]])}

LEMMA RowsOrdered ==
    ASSUME NEW S \in SUBSET Rows, NEW sc, \A r \in S : sc[r] \in Int
    PROVE  Orders(RowOrder(S, sc), S)
<1>1. \A r, s \in S : <<r, s>> \in RowOrder(S, sc) <=> Ahead(r, sc[r], s, sc[s])
  BY DEF RowOrder
<1>2. /\ IsFiniteSet(S) /\ \A r \in S : r.ts \in Nat /\ r.key \in Nat
      /\ \A r, s \in S : r.key = s.key => r = s
  BY PagesAssumption, FS_Subset
<1> QED BY <1>1, <1>2 DEF Orders, Ahead

TurnOrder(s) ==
    {p \in (DOMAIN s) \X (DOMAIN s) :
        \/ Depth(s, p[1]) < Depth(s, p[2])
        \/ Depth(s, p[1]) = Depth(s, p[2]) /\ First(s, p[1]) < First(s, p[2])}

LEMMA DepthFacts ==
    ASSUME NEW S, NEW s \in Seq(S), NEW i \in DOMAIN s
    PROVE  /\ Depth(s, i) \in Nat
           /\ \A j \in DOMAIN s : i < j /\ s[i].source = s[j].source => Depth(s, i) < Depth(s, j)
           /\ First(s, i) \in 1 .. i /\ s[First(s, i)].source = s[i].source
<1> DEFINE same(k) == {j \in 1 .. (k - 1) : s[j].source = s[k].source}
<1>1. DOMAIN s = 1 .. Len(s) /\ Len(s) \in Nat
  OBVIOUS
<1>2. ASSUME NEW k \in DOMAIN s PROVE IsFiniteSet(same(k)) /\ Cardinality(same(k)) \in Nat /\ Depth(s, k) = Cardinality(same(k))
  <2>1. IsFiniteSet(1 .. (k - 1))
    BY <1>1, FS_Interval
  <2>2. same(k) \in SUBSET (1 .. (k - 1))
    OBVIOUS
  <2>3. IsFiniteSet(same(k))
    BY <2>1, <2>2, FS_Subset
  <2> QED BY <2>3, FS_CardinalityType DEF Depth
<1>3. ASSUME NEW j \in DOMAIN s, i < j, s[i].source = s[j].source PROVE Depth(s, i) < Depth(s, j)
  <2>1. i \notin same(i) /\ same(i) \union {i} \in SUBSET same(j)
    BY <1>1, <1>3
  <2>2. Cardinality(same(i) \union {i}) = Cardinality(same(i)) + 1
    <3> HIDE DEF same
    <3> QED BY <1>2, <2>1, FS_AddElement
  <2>3. Cardinality(same(i) \union {i}) <= Cardinality(same(j))
    <3> HIDE DEF same
    <3> QED BY <1>2, <2>1, FS_Subset
  <2> HIDE DEF same
  <2> QED BY <1>2, <2>2, <2>3
<1>4. \E j \in 1 .. i : s[j].source = s[i].source /\ Depth(s, j) = 0
  <2> DEFINE all == {j \in 1 .. i : s[j].source = s[i].source}
  <2>1. all \in SUBSET (1 .. i) /\ i \in all /\ all \in SUBSET Nat
    BY <1>1
  <2>2. IsFiniteSet(all)
    <3>1. IsFiniteSet(1 .. i)
      BY <1>1, FS_Interval
    <3> QED BY <2>1, <3>1, FS_Subset
  <2>3. PICK j \in all : \A k \in all : j <= k
    <3> HIDE DEF all
    <3> QED BY <2>1, <2>2, MostAndLeast
  <2>4. j \in DOMAIN s
    BY <1>1, <2>1
  <2>5. same(j) = {}
    BY <1>1, <2>1, <2>3
  <2>6. Depth(s, j) = 0
    <3> HIDE DEF same
    <3> QED BY <1>2, <2>4, <2>5, FS_EmptySet
  <2> QED BY <2>6
<1>5. First(s, i) \in 1 .. i /\ s[First(s, i)].source = s[i].source
  BY <1>4 DEF First
<1> QED BY <1>2, <1>3, <1>5

LEMMA TurnsOrdered ==
    ASSUME NEW S, NEW s \in Seq(S)
    PROVE  Orders(TurnOrder(s), DOMAIN s)
<1>1. DOMAIN s = 1 .. Len(s) /\ Len(s) \in Nat
  OBVIOUS
<1>2. IsFiniteSet(DOMAIN s)
  BY <1>1, FS_Interval
<1>3. \A i \in DOMAIN s : Depth(s, i) \in Nat /\ First(s, i) \in Nat
  BY <1>1, DepthFacts
<1>4. \A i, j \in DOMAIN s : <<i, j>> \in TurnOrder(s) <=>
        \/ Depth(s, i) < Depth(s, j)
        \/ Depth(s, i) = Depth(s, j) /\ First(s, i) < First(s, j)
  BY DEF TurnOrder
<1>5. ASSUME NEW i \in DOMAIN s, NEW j \in DOMAIN s, Depth(s, i) = Depth(s, j), First(s, i) = First(s, j)
      PROVE  i = j
  <2>1. s[i].source = s[j].source
    BY <1>5, DepthFacts
  <2>2. ~(i < j)
    <3>1. i < j => Depth(s, i) < Depth(s, j)
      BY <2>1, DepthFacts
    <3> QED BY <1>3, <1>5, <3>1
  <2>3. ~(j < i)
    <3>1. j < i => Depth(s, j) < Depth(s, i)
      BY <2>1, DepthFacts
    <3> QED BY <1>3, <1>5, <3>1
  <2> QED BY <1>1, <2>2, <2>3
<1> QED BY <1>2, <1>3, <1>4, <1>5 DEF Orders

JudgedOrder(judged) ==
    {p \in (DOMAIN judged) \X (DOMAIN judged) :
        judged[p[1]] > judged[p[2]] \/ (judged[p[1]] = judged[p[2]] /\ p[1] < p[2])}

LEMMA JudgedOrdered ==
    ASSUME NEW n \in Nat, NEW judged \in [1 .. n -> Int]
    PROVE  Orders(JudgedOrder(judged), 1 .. n)
<1>1. IsFiniteSet(1 .. n)
  BY FS_Interval
<1>2. \A i, j \in 1 .. n : <<i, j>> \in JudgedOrder(judged) <=>
        judged[i] > judged[j] \/ (judged[i] = judged[j] /\ i < j)
  BY DEF JudgedOrder
<1>3. \A i \in 1 .. n : judged[i] \in Int
  OBVIOUS
<1>4. \A i \in 1 .. n : <<i, i>> \notin JudgedOrder(judged)
  BY <1>2, <1>3
<1>5. \A i, j, k \in 1 .. n : <<i, j>> \in JudgedOrder(judged) /\ <<j, k>> \in JudgedOrder(judged)
        => <<i, k>> \in JudgedOrder(judged)
  BY <1>2, <1>3
<1>6. ASSUME NEW i \in 1 .. n, NEW j \in 1 .. n
      PROVE  i = j \/ <<i, j>> \in JudgedOrder(judged) \/ <<j, i>> \in JudgedOrder(judged)
  <2>1. judged[i] > judged[j] \/ judged[j] > judged[i] \/ judged[i] = judged[j]
    BY <1>3
  <2>2. i = j \/ i < j \/ j < i
    OBVIOUS
  <2> QED BY <1>2, <2>1, <2>2
<1> QED BY <1>1, <1>4, <1>5, <1>6 DEF Orders

(* A sequence in another order has the same members.                       *)
LEMMA TurnedEnumerates ==
    ASSUME NEW S, NEW s, Enumerates(s, S), NEW turning, Enumerates(turning, DOMAIN s)
    PROVE  Enumerates([i \in DOMAIN s |-> s[turning[i]]], S)
<1> DEFINE t == [i \in DOMAIN s |-> s[turning[i]]]
<1>1. /\ s \in Seq(S) /\ DOMAIN s = 1 .. Len(s) /\ Len(s) \in Nat /\ Len(s) = Cardinality(S)
      /\ \A x \in S : \E i \in DOMAIN s : s[i] = x
      /\ \A i, j \in DOMAIN s : s[i] = s[j] => i = j
  BY DEF Enumerates
<1>2. /\ DOMAIN turning = DOMAIN s
      /\ \A k \in DOMAIN s : turning[k] \in DOMAIN s
      /\ \A k \in DOMAIN s : \E i \in DOMAIN turning : turning[i] = k
      /\ \A i, j \in DOMAIN turning : turning[i] = turning[j] => i = j
  <2>1. Cardinality(DOMAIN s) = Len(s)
    BY <1>1, FS_Interval
  <2>2. turning \in Seq(DOMAIN s) /\ Len(turning) = Cardinality(DOMAIN s)
    BY DEF Enumerates
  <2>3. DOMAIN turning = DOMAIN s /\ \A k \in DOMAIN turning : turning[k] \in DOMAIN s
    BY <1>1, <2>1, <2>2
  <2> QED BY <2>3 DEF Enumerates
<1>3. \A k \in DOMAIN s : t[k] = s[turning[k]] /\ t[k] \in S
  <2>1. \A k \in DOMAIN s : s[k] \in S
    BY <1>1
  <2> QED BY <1>2, <2>1
<1>4. DOMAIN t = DOMAIN s
  OBVIOUS
<1>5. t \in Seq(S) /\ Len(t) = Len(s)
  <2>1. t = [i \in 1 .. Len(s) |-> t[i]]
    BY <1>1
  <2> HIDE DEF t
  <2>2. t \in [1 .. Len(s) -> S]
    BY <1>1, <1>3, <2>1
  <2> QED BY <1>1, <1>4, <2>2
<1> HIDE DEF t
<1>6. \A x \in S : \E i \in DOMAIN t : t[i] = x
  BY <1>1, <1>2, <1>3, <1>4
<1>7. \A i, j \in DOMAIN t : t[i] = t[j] => i = j
  BY <1>1, <1>2, <1>3, <1>4
<1>8. Enumerates(t, S)
  BY <1>1, <1>5, <1>6, <1>7 DEF Enumerates
<1> QED BY <1>8 DEF t

LEMMA DiversifiedEnumerates ==
    ASSUME NEW S, NEW s, Enumerates(s, S)
    PROVE  Enumerates(Diversified(s), S)
<1>1. s \in Seq(S)
  BY DEF Enumerates
<1> DEFINE turning == InPlaces(DOMAIN s, TurnOrder(s))
<1>2. Enumerates(turning, DOMAIN s)
  BY <1>1, TurnsOrdered, PlacesEnumerate
<1>3. \A i \in DOMAIN s : {j \in DOMAIN s :
          \/ Depth(s, j) < Depth(s, i)
          \/ Depth(s, j) = Depth(s, i) /\ First(s, j) < First(s, i)} = Under(DOMAIN s, TurnOrder(s), i)
  BY DEF Under, TurnOrder
<1>4. Diversified(s) = [i \in DOMAIN s |-> s[turning[i]]]
  <2> DEFINE place == [x \in DOMAIN s |-> 1 + Cardinality({y \in DOMAIN s :
                \/ Depth(s, y) < Depth(s, x)
                \/ Depth(s, y) = Depth(s, x) /\ First(s, y) < First(s, x)})]
  <2>1. place = [x \in DOMAIN s |-> 1 + Cardinality(Under(DOMAIN s, TurnOrder(s), x))]
    BY <1>3
  <2>2. Diversified(s) = [i \in DOMAIN s |->
            s[[k \in 1 .. Cardinality(DOMAIN s) |-> CHOOSE x \in DOMAIN s : place[x] = k][i]]]
    BY DEF Diversified, Sorted
  <2>3. turning = [k \in 1 .. Cardinality(DOMAIN s) |-> CHOOSE x \in DOMAIN s : place[x] = k]
    <3> HIDE DEF place
    <3> QED BY <2>1 DEF InPlaces
  <2> HIDE DEF place, turning
  <2> QED BY <2>2, <2>3
<1> HIDE DEF turning
<1> QED BY <1>2, <1>4, TurnedEnumerates
-----------------------------------------------------------------------------
(* Lanes of a search *)

LEMMA BestIsNat ==
    ASSUME NEW r \in Rows, NEW lane \in LaneNames
    PROVE  Best(r, lane) \in Nat
<1>1. r[lane] \in SUBSET Nat /\ IsFiniteSet(r[lane])
  BY PagesAssumption
<1>2. CASE r[lane] = {}
  BY <1>2 DEF Best
<1>3. CASE r[lane] # {}
  <2>1. \E x \in r[lane] : \A y \in r[lane] : y <= x
    BY <1>1, <1>3, MostAndLeast
  <2>2. Best(r, lane) \in r[lane]
    BY <1>3, <2>1 DEF Best
  <2> QED BY <1>1, <2>2
<1> QED BY <1>2, <1>3

FoundIn(lane, kind, ws) == {r \in mirror : r.kind = kind /\ r.ws = ws /\ r[lane] # {}}

InLane(lane, kind, ws) ==
    InPlaces(FoundIn(lane, kind, ws),
             RowOrder(FoundIn(lane, kind, ws), [r \in FoundIn(lane, kind, ws) |-> Best(r, lane)]))

(* The members of S by the places they are given.                          *)
Placed(S, place) == [i \in 1 .. Cardinality(S) |-> CHOOSE x \in S : place[x] = i]

LEMMA PlacesBy ==
    ASSUME NEW S, NEW R
    PROVE  \A place : place = [x \in S |-> 1 + Cardinality(Under(S, R, x))] =>
             InPlaces(S, R) = Placed(S, place)
<1> SUFFICES ASSUME NEW place, place = [x \in S |-> 1 + Cardinality(Under(S, R, x))]
             PROVE  InPlaces(S, R) = Placed(S, place)
  OBVIOUS
<1>1. \A x \in S : place[x] = 1 + Cardinality(Under(S, R, x))
  OBVIOUS
<1>2. ASSUME NEW i PROVE (CHOOSE x \in S : place[x] = i) = CHOOSE x \in S : 1 + Cardinality(Under(S, R, x)) = i
  BY <1>1
<1> QED BY <1>2 DEF InPlaces, Placed

(* Ordering by a score is what Sorted does.                                *)
LEMMA RowsInPlaces ==
    ASSUME NEW S, NEW sc
    PROVE  \A place : place = [z \in S |-> 1 + Cardinality({y \in S : Ahead(y, sc[y], z, sc[z])})] =>
             InPlaces(S, RowOrder(S, sc)) = Placed(S, place)
<1> SUFFICES ASSUME NEW place, place = [z \in S |-> 1 + Cardinality({y \in S : Ahead(y, sc[y], z, sc[z])})]
             PROVE  InPlaces(S, RowOrder(S, sc)) = Placed(S, place)
  OBVIOUS
<1>1. \A x \in S : {y \in S : Ahead(y, sc[y], x, sc[x])} = Under(S, RowOrder(S, sc), x)
  BY DEF Under, RowOrder
<1>2. place = [x \in S |-> 1 + Cardinality(Under(S, RowOrder(S, sc), x))]
  BY <1>1
<1> QED BY <1>2, PlacesBy

LEMMA LaneIsHead ==
    ASSUME NEW lane, NEW kind, NEW ws, NEW pool
    PROVE  Lane(lane, kind, ws, pool) = Head_(InLane(lane, kind, ws), pool)
<1> DEFINE S == FoundIn(lane, kind, ws)
           sc == [r \in S |-> Best(r, lane)]
           place == [z \in S |-> 1 + Cardinality({y \in S : Ahead(y, Best(y, lane), z, Best(z, lane))})]
           ranks == [z \in S |-> 1 + Cardinality({y \in S : Ahead(y, sc[y], z, sc[z])})]
<1>1. place = ranks
  <2>1. ASSUME NEW z \in S
        PROVE  {y \in S : Ahead(y, Best(y, lane), z, Best(z, lane))} = {y \in S : Ahead(y, sc[y], z, sc[z])}
    <3>1. \A y \in S : sc[y] = Best(y, lane)
      OBVIOUS
    <3> HIDE DEF sc, S
    <3> QED BY <3>1
  <2> HIDE DEF S, sc
  <2> QED BY <2>1
<1>2. Lane(lane, kind, ws, pool) = Head_(Placed(S, place), pool)
  BY DEF Lane, Sorted, FoundIn, Placed
<1>3. InLane(lane, kind, ws) = Placed(S, ranks)
  <2>1. InLane(lane, kind, ws) = InPlaces(S, RowOrder(S, sc))
    BY DEF InLane
  <2>2. InPlaces(S, RowOrder(S, sc)) = Placed(S, ranks)
    <3>1. ranks = [z \in S |-> 1 + Cardinality({y \in S : Ahead(y, sc[y], z, sc[z])})]
      OBVIOUS
    <3> HIDE DEF S, sc, ranks
    <3> QED BY <3>1, RowsInPlaces
  <2> QED BY <2>1, <2>2
<1> HIDE DEF place, ranks, S
<1> QED BY <1>1, <1>2, <1>3

LEMMA FoundFacts ==
    ASSUME mirror \in SUBSET Rows, NEW lane \in LaneNames, NEW kind, NEW ws
    PROVE  /\ FoundIn(lane, kind, ws) \in SUBSET Rows /\ IsFiniteSet(FoundIn(lane, kind, ws))
           /\ Cardinality(FoundIn(lane, kind, ws)) \in Nat
           /\ Enumerates(InLane(lane, kind, ws), FoundIn(lane, kind, ws))
<1> DEFINE S == FoundIn(lane, kind, ws)
           sc == [r \in S |-> Best(r, lane)]
<1>1. S \in SUBSET Rows
  BY DEF FoundIn
<1>2. IsFiniteSet(S) /\ Cardinality(S) \in Nat
  <2> HIDE DEF S
  <2>1. IsFiniteSet(S)
    BY <1>1, FS_Subset, PagesAssumption
  <2> QED BY <2>1, FS_CardinalityType
<1>3. \A r \in S : sc[r] \in Int
  <2> HIDE DEF S
  <2> QED BY <1>1, BestIsNat
<1>4. Orders(RowOrder(S, sc), S)
  <2> HIDE DEF S, sc
  <2> QED BY <1>1, <1>3, RowsOrdered
<1>5. Enumerates(InPlaces(S, RowOrder(S, sc)), S)
  <2> HIDE DEF S, sc
  <2> QED BY <1>4, PlacesEnumerate
<1> QED BY <1>1, <1>2, <1>5 DEF InLane

(* The head of a sequence is what it keeps of it.                          *)
LEMMA HeadFacts ==
    ASSUME NEW S, NEW s \in Seq(S), NEW n \in Nat
    PROVE  /\ Head_(s, n) \in Seq(S) /\ Len(Head_(s, n)) = (IF n < Len(s) THEN n ELSE Len(s))
           /\ DOMAIN Head_(s, n) = 1 .. Len(Head_(s, n))
           /\ \A i \in DOMAIN Head_(s, n) : i \in DOMAIN s /\ Head_(s, n)[i] = s[i]
           /\ Len(s) <= n => Head_(s, n) = s
<1> DEFINE m == IF n < Len(s) THEN n ELSE Len(s)
<1>1. m \in 0 .. Len(s) /\ Len(s) \in Nat
  OBVIOUS
<1>2. Head_(s, n) = SubSeq(s, 1, m)
  BY DEF Head_
<1>3. SubSeq(s, 1, m) \in Seq(S) /\ Len(SubSeq(s, 1, m)) = m
      /\ \A i \in 1 .. m : SubSeq(s, 1, m)[i] = s[i]
  <2> HIDE DEF m
  <2> QED BY <1>1
<1>4. Len(s) <= n => SubSeq(s, 1, m) = s
  <2> SUFFICES ASSUME Len(s) <= n PROVE SubSeq(s, 1, m) = s
    OBVIOUS
  <2>1. m = Len(s)
    OBVIOUS
  <2> HIDE DEF m
  <2> QED BY <1>3, <2>1
<1> QED BY <1>1, <1>2, <1>3, <1>4

(* A sequence without repeats has as many elements as it is long.          *)
LEMMA ElementsCount ==
    ASSUME NEW S, NEW s \in Seq(S), \A i, j \in DOMAIN s : s[i] = s[j] => i = j
    PROVE  /\ Elements(s) \in SUBSET S /\ IsFiniteSet(Elements(s))
           /\ Cardinality(Elements(s)) = Len(s)
<1>1. DOMAIN s = 1 .. Len(s) /\ Len(s) \in Nat
  OBVIOUS
<1>2. IsFiniteSet(1 .. Len(s)) /\ Cardinality(1 .. Len(s)) = Len(s)
  BY <1>1, FS_Interval
<1>3. s \in [1 .. Len(s) -> Elements(s)]
  BY <1>1 DEF Elements
<1>4. s \in Bijection(1 .. Len(s), Elements(s))
  BY <1>1, <1>3 DEF Elements, Bijection, Injection, Surjection, IsInjective
<1>5. ExistsBijection(1 .. Len(s), Elements(s))
  BY <1>4 DEF ExistsBijection
<1>6. IsFiniteSet(Elements(s)) /\ Cardinality(Elements(s)) = Cardinality(1 .. Len(s))
  BY <1>2, <1>5, FS_Bijection
<1>7. Elements(s) \in SUBSET S
  BY <1>1 DEF Elements
<1> QED BY <1>2, <1>6, <1>7

LEMMA EnumeratedElements ==
    ASSUME NEW S, NEW s, Enumerates(s, S)
    PROVE  Elements(s) = S
BY DEF Enumerates, Elements

(* A lane has all it found, or as much as its pool.                        *)
LEMMA LaneFacts ==
    ASSUME mirror \in SUBSET Rows, NEW lane \in LaneNames, NEW kind, NEW ws, NEW pool \in Nat
    PROVE  /\ Lane(lane, kind, ws, pool) \in Seq(Rows)
           /\ Elements(Lane(lane, kind, ws, pool)) \in SUBSET FoundIn(lane, kind, ws)
           /\ Cardinality(FoundIn(lane, kind, ws)) <= pool =>
                /\ Lane(lane, kind, ws, pool) = InLane(lane, kind, ws)
                /\ Elements(Lane(lane, kind, ws, pool)) = FoundIn(lane, kind, ws)
           /\ pool < Cardinality(FoundIn(lane, kind, ws)) =>
                Cardinality(Elements(Lane(lane, kind, ws, pool))) = pool
<1> PICK S : S = FoundIn(lane, kind, ws)
  OBVIOUS
<1> PICK s : s = InLane(lane, kind, ws)
  OBVIOUS
<1> PICK t : t = Lane(lane, kind, ws, pool)
  OBVIOUS
<1>1. S \in SUBSET Rows /\ Cardinality(S) \in Nat /\ Enumerates(s, S)
  BY FoundFacts
<1>2. t = Head_(s, pool)
  BY LaneIsHead
<1>3. s \in Seq(S) /\ Len(s) = Cardinality(S) /\ \A i, j \in DOMAIN s : s[i] = s[j] => i = j
  BY <1>1 DEF Enumerates
<1>4. /\ t \in Seq(S) /\ Len(t) = (IF pool < Len(s) THEN pool ELSE Len(s))
      /\ \A i \in DOMAIN t : i \in DOMAIN s /\ t[i] = s[i]
      /\ Len(s) <= pool => t = s
  BY <1>2, <1>3, HeadFacts
<1>5. \A i, j \in DOMAIN t : t[i] = t[j] => i = j
  BY <1>3, <1>4
<1>6. Elements(t) \in SUBSET S /\ Cardinality(Elements(t)) = Len(t)
  BY <1>4, <1>5, ElementsCount
<1>7. t \in Seq(Rows)
  BY <1>1, <1>4
<1>8. Elements(s) = S
  BY <1>1, EnumeratedElements
<1>9. Cardinality(S) <= pool => t = s /\ Elements(t) = S
  BY <1>3, <1>4, <1>8
<1>10. pool < Cardinality(S) => Cardinality(Elements(t)) = pool
  BY <1>1, <1>3, <1>4, <1>6
<1> QED BY <1>6, <1>7, <1>9, <1>10
-----------------------------------------------------------------------------
(* The rows of a search *)

Searches == [mode : Modes, scope : SUBSET Spaces, limit : Limits, rerank : BOOLEAN]

(* Every lane's rows within the scope, whatever the pool.                  *)
InScope(lane) == {r \in mirror : r.ws \in search.scope /\ r[lane] # {}}

LEMMA KeptFacts ==
    ASSUME mirror \in SUBSET Rows, NEW lane \in LaneNames, NEW pool \in Nat
    PROVE  /\ KeptRows(lane, pool) \in SUBSET InScope(lane)
           /\ (\A kind \in Kinds, ws \in search.scope : Cardinality(FoundIn(lane, kind, ws)) <= pool)
                => KeptRows(lane, pool) = InScope(lane)
           /\ \A kind \in Kinds, ws \in search.scope :
                Elements(Lane(lane, kind, ws, pool)) \in SUBSET KeptRows(lane, pool)
<1>1. ASSUME NEW r
      PROVE  r \in KeptRows(lane, pool)
             <=> \E kind \in Kinds, ws \in search.scope : r \in Elements(Lane(lane, kind, ws, pool))
  BY DEF KeptRows
<1>2. \A kind \in Kinds, ws \in search.scope :
        Elements(Lane(lane, kind, ws, pool)) \in SUBSET FoundIn(lane, kind, ws)
  BY LaneFacts
<1>3. \A r : r \in InScope(lane) <=> \E kind \in Kinds, ws \in search.scope : r \in FoundIn(lane, kind, ws)
  BY PagesAssumption DEF InScope, FoundIn
<1>4. KeptRows(lane, pool) \in SUBSET InScope(lane)
  BY <1>1, <1>2, <1>3
<1>5. ASSUME \A kind \in Kinds, ws \in search.scope : Cardinality(FoundIn(lane, kind, ws)) <= pool
      PROVE  KeptRows(lane, pool) = InScope(lane)
  <2>1. \A kind \in Kinds, ws \in search.scope :
          Elements(Lane(lane, kind, ws, pool)) = FoundIn(lane, kind, ws)
    BY <1>5, LaneFacts
  <2>2. \A r : r \in KeptRows(lane, pool) <=> r \in InScope(lane)
    BY <1>1, <1>3, <2>1
  <2> QED BY <2>2
<1>6. \A kind \in Kinds, ws \in search.scope :
        Elements(Lane(lane, kind, ws, pool)) \in SUBSET KeptRows(lane, pool)
  BY <1>1
<1> QED BY <1>4, <1>5, <1>6

LEMMA LanesOfMode ==
    ASSUME search.mode \in Modes, NEW pool
    PROVE  /\ Lanes \in SUBSET LaneNames /\ Lanes # {}
           /\ Merged(pool) = UNION {KeptRows(lane, pool) : lane \in Lanes}
           /\ search.mode \notin {"lexical", "semantic"} => Lanes = LaneNames
<1>1. CASE search.mode = "lexical"
  BY <1>1 DEF Merged, Lanes, LaneNames
<1>2. CASE search.mode = "semantic"
  BY <1>2 DEF Merged, Lanes, LaneNames
<1>3. CASE search.mode \notin {"lexical", "semantic"}
  <2>1. Merged(pool) = KeptRows("lex", pool) \union KeptRows("sem", pool)
    BY <1>3 DEF Merged
  <2>2. Lanes = {"lex", "sem"}
    BY <1>3 DEF Lanes, LaneNames
  <2> QED BY <1>3, <2>1, <2>2 DEF LaneNames
<1> QED BY <1>1, <1>2, <1>3

LEMMA MergedFacts ==
    ASSUME mirror \in SUBSET Rows, search.mode \in Modes, NEW pool \in Nat
    PROVE  /\ Merged(pool) \in SUBSET Matches
           /\ IsFiniteSet(Matches) /\ IsFiniteSet(Merged(pool))
           /\ Cardinality(Matches) \in Nat /\ Cardinality(Merged(pool)) \in Nat
           /\ Cardinality(Merged(pool)) <= Cardinality(Rows) /\ Cardinality(Rows) \in Nat
<1>1. Matches = UNION {InScope(lane) : lane \in Lanes}
  BY DEF Matches, InScope
<1>2. \A lane \in Lanes : KeptRows(lane, pool) \in SUBSET InScope(lane)
  BY KeptFacts, LanesOfMode
<1>3. Merged(pool) \in SUBSET Matches
  <2> SUFFICES ASSUME NEW r \in Merged(pool) PROVE r \in Matches
    OBVIOUS
  <2>1. PICK lane \in Lanes : r \in KeptRows(lane, pool)
    BY LanesOfMode
  <2>2. r \in InScope(lane)
    BY <1>2, <2>1
  <2> QED BY <1>1, <2>1, <2>2
<1>4. IsFiniteSet(Rows) /\ Cardinality(Rows) \in Nat /\ Matches \in SUBSET Rows
  BY PagesAssumption, FS_CardinalityType DEF Matches
<1>5. IsFiniteSet(Matches) /\ IsFiniteSet(Merged(pool)) /\ Cardinality(Merged(pool)) <= Cardinality(Rows)
  BY <1>3, <1>4, FS_Subset
<1> QED BY <1>3, <1>4, <1>5, FS_CardinalityType

(* A pool that no lane fills keeps every match.                            *)
LEMMA WholeLanes ==
    ASSUME mirror \in SUBSET Rows, search.mode \in Modes, NEW pool \in Nat,
           \A lane \in Lanes, kind \in Kinds, ws \in search.scope :
              Cardinality(FoundIn(lane, kind, ws)) <= pool
    PROVE  Merged(pool) = Matches
<1>1. \A lane \in Lanes : KeptRows(lane, pool) = InScope(lane)
  BY KeptFacts, LanesOfMode
<1>2. Matches = UNION {InScope(lane) : lane \in Lanes}
  BY DEF Matches, InScope
<1>3. Merged(pool) = UNION {KeptRows(lane, pool) : lane \in Lanes}
  BY LanesOfMode
<1> QED BY <1>1, <1>2, <1>3

(* A lane that fills its pool brings as many rows to the search.           *)
LEMMA FewRows ==
    ASSUME mirror \in SUBSET Rows, search.mode \in Modes, NEW pool \in Nat,
           Cardinality(Merged(pool)) < pool
    PROVE  Merged(pool) = Matches
<1>1. ASSUME NEW lane \in Lanes, NEW kind \in Kinds, NEW ws \in search.scope
      PROVE  Cardinality(FoundIn(lane, kind, ws)) <= pool
  <2>1. lane \in LaneNames
    BY LanesOfMode
  <2>2. Elements(Lane(lane, kind, ws, pool)) \in SUBSET Merged(pool)
    BY <2>1, KeptFacts, LanesOfMode
  <2>3. IsFiniteSet(Merged(pool)) /\ Cardinality(Merged(pool)) \in Nat
    BY MergedFacts
  <2>4. Cardinality(Elements(Lane(lane, kind, ws, pool))) <= Cardinality(Merged(pool))
    BY <2>2, <2>3, FS_Subset
  <2>5. Cardinality(Elements(Lane(lane, kind, ws, pool))) < pool
    <3>1. Cardinality(Elements(Lane(lane, kind, ws, pool))) \in Nat
      BY <2>2, <2>3, FS_Subset, FS_CardinalityType
    <3> QED BY <2>3, <2>4, <3>1
  <2>6. pool < Cardinality(FoundIn(lane, kind, ws)) =>
          Cardinality(Elements(Lane(lane, kind, ws, pool))) = pool
    BY <2>1, LaneFacts
  <2>7. Cardinality(FoundIn(lane, kind, ws)) \in Nat
    BY <2>1, FoundFacts
  <2> QED BY <2>5, <2>6, <2>7
<1> QED BY <1>1, WholeLanes

LEMMA ScoreIsInt ==
    ASSUME mirror \in SUBSET Rows, NEW pool \in Nat, NEW r \in Rows
    PROVE  Score(r, pool) \in Int
<1>1. ASSUME NEW lane \in LaneNames PROVE Part(lane, r, pool) \in Int
  <2> PICK rank : rank = RankIn(lane, r, pool)
    OBVIOUS
  <2> PICK t : t = Lane(lane, r.kind, r.ws, pool)
    OBVIOUS
  <2>1. rank \in Nat
    <3>1. t \in Seq(Rows)
      BY LaneFacts
    <3>2. rank = IF r \in Elements(t) THEN CHOOSE i \in DOMAIN t : t[i] = r ELSE 0
      BY DEF RankIn
    <3>3. r \in Elements(t) => \E i \in DOMAIN t : t[i] = r
      BY DEF Elements
    <3>4. DOMAIN t \in SUBSET Nat
      BY <3>1
    <3> QED BY <3>2, <3>3, <3>4
  <2>2. Best(r, lane) \in Nat /\ Weight(lane) \in Nat
    BY BestIsNat DEF Weight
  <2>3. Part(lane, r, pool) = IF rank = 0 THEN 0
          ELSE IF search.mode = "rrf" THEN (Weight(lane) * 1000) \div (FusionK + rank)
          ELSE Weight(lane) * Best(r, lane)
    BY DEF Part
  <2>4. CASE rank = 0
    BY <2>3, <2>4
  <2>5. CASE rank # 0 /\ search.mode = "rrf"
    <3>1. FusionK + rank \in Nat \ {0}
      BY <2>1, <2>5, PagesAssumption
    <3>2. Weight(lane) * 1000 \in Nat
      BY <2>2
    <3>3. \A a \in Nat, b \in Nat \ {0} : a \div b \in Int
      OBVIOUS
    <3> QED BY <2>3, <2>5, <3>1, <3>2, <3>3
  <2>6. CASE rank # 0 /\ search.mode # "rrf"
    <3>1. \A a, b \in Nat : a * b \in Int
      OBVIOUS
    <3> QED BY <2>2, <2>3, <2>6, <3>1
  <2> QED BY <2>4, <2>5, <2>6
<1>2. Best(r, "lex") \in Int /\ Best(r, "sem") \in Int
  BY BestIsNat DEF LaneNames
<1>3. Part("lex", r, pool) + Part("sem", r, pool) \in Int
  BY <1>1 DEF LaneNames
<1> QED BY <1>2, <1>3 DEF Score
-----------------------------------------------------------------------------
(* Sources in turn, and the head reranked *)

InTurn(M, sc) == Diversified(InPlaces(M, RowOrder(M, sc)))

Judged(s, sc) == [i \in DOMAIN Head_(s, TopN) |-> sc[Head_(s, TopN)[i]] + Head_(s, TopN)[i].judged]

ByJudge(s, sc) ==
    [i \in DOMAIN Head_(s, TopN) |->
        Head_(s, TopN)[InPlaces(DOMAIN Head_(s, TopN), JudgedOrder(Judged(s, sc)))[i]]]
    \o SubSeq(s, Len(Head_(s, TopN)) + 1, Len(s))

LEMMA RerankedByJudge ==
    ASSUME NEW M \in SUBSET Rows, NEW s \in Seq(M), NEW pool,
           NEW sc, sc = [r \in M |-> Score(r, pool)]
    PROVE  Reranked(s, pool) = ByJudge(s, sc)
<1> PICK h : h = Head_(s, TopN)
  OBVIOUS
<1> PICK j : j = Judged(s, sc)
  OBVIOUS
<1> DEFINE place == [x \in DOMAIN h |-> 1 + Cardinality({y \in DOMAIN h :
                        \/ j[y] > j[x]
                        \/ j[y] = j[x] /\ y < x})]
<1>1. h \in Seq(M)
  BY HeadFacts, PagesAssumption
<1>2. j = [i \in DOMAIN h |-> Score(h[i], pool) + h[i].judged]
  <2>1. \A i \in DOMAIN h : h[i] \in M
    BY <1>1
  <2>2. \A i \in DOMAIN h : sc[h[i]] = Score(h[i], pool)
    BY <2>1
  <2>3. j = [i \in DOMAIN h |-> sc[h[i]] + h[i].judged]
    BY DEF Judged
  <2> QED BY <2>2, <2>3
<1>3. Reranked(s, pool) = [i \in DOMAIN h |-> h[Placed(DOMAIN h, place)[i]]] \o SubSeq(s, Len(h) + 1, Len(s))
  <2> DEFINE H == Head_(s, TopN)
             J == [i \in DOMAIN H |-> Score(H[i], pool) + H[i].judged]
             ranks == [x \in DOMAIN H |-> 1 + Cardinality({y \in DOMAIN H :
                        \/ J[y] > J[x]
                        \/ J[y] = J[x] /\ y < x})]
  <2>1. Reranked(s, pool) = [i \in DOMAIN H |-> H[Placed(DOMAIN H, ranks)[i]]] \o SubSeq(s, Len(H) + 1, Len(s))
    BY DEF Reranked, Sorted, Placed
  <2>2. h = H
    OBVIOUS
  <2>3. j = J
    BY <1>2, <2>2
  <2>4. place = ranks
    <3> HIDE DEF H, J
    <3> QED BY <2>2, <2>3
  <2> HIDE DEF H, J, place, ranks
  <2> QED BY <2>1, <2>2, <2>4
<1>4. InPlaces(DOMAIN h, JudgedOrder(j)) = Placed(DOMAIN h, place)
  <2>1. DOMAIN j = DOMAIN h
    BY <1>2
  <2>2. \A x \in DOMAIN h : {y \in DOMAIN h : j[y] > j[x] \/ (j[y] = j[x] /\ y < x)}
          = Under(DOMAIN h, JudgedOrder(j), x)
    BY <2>1 DEF Under, JudgedOrder
  <2>3. place = [x \in DOMAIN h |-> 1 + Cardinality(Under(DOMAIN h, JudgedOrder(j), x))]
    BY <2>2
  <2> HIDE DEF place
  <2> QED BY <2>3, PlacesBy
<1> HIDE DEF place
<1> QED BY <1>3, <1>4 DEF ByJudge

(* A head in another order before the same tail.                           *)
LEMMA HeadTurnedEnumerates ==
    ASSUME NEW S, NEW s, Enumerates(s, S), NEW n \in Nat, NEW turning,
           Enumerates(turning, DOMAIN Head_(s, n))
    PROVE  Enumerates([i \in DOMAIN Head_(s, n) |-> Head_(s, n)[turning[i]]]
                        \o SubSeq(s, Len(Head_(s, n)) + 1, Len(s)), S)
<1> PICK h : h = Head_(s, n)
  OBVIOUS
<1> PICK m : m = Len(h)
  OBVIOUS
<1> PICK N : N = Len(s)
  OBVIOUS
<1> DEFINE turned == [i \in 1 .. N |-> IF i <= m THEN turning[i] ELSE i]
<1>1. s \in Seq(S) /\ DOMAIN s = 1 .. N /\ N \in Nat /\ N = Cardinality(S)
  BY DEF Enumerates
<1>2. h \in Seq(S) /\ DOMAIN h = 1 .. m /\ m \in 0 .. N /\ m \in Nat /\ \A i \in 1 .. m : h[i] = s[i]
  BY <1>1, HeadFacts
<1>3. /\ turning \in Seq(1 .. m) /\ DOMAIN turning = 1 .. m
      /\ \A k \in 1 .. m : turning[k] \in 1 .. m
      /\ \A k \in 1 .. m : \E i \in 1 .. m : turning[i] = k
      /\ \A i, j \in 1 .. m : turning[i] = turning[j] => i = j
  <2>1. IsFiniteSet(1 .. m) /\ Cardinality(1 .. m) = m
    <3>1. m \in Int /\ 1 \in Int /\ (1 > m => m = 0)
      BY <1>2
    <3>2. IsFiniteSet(1 .. m) /\ Cardinality(1 .. m) = (IF 1 > m THEN 0 ELSE m - 1 + 1)
      BY <3>1, FS_Interval
    <3> QED BY <3>1, <3>2
  <2>2. turning \in Seq(1 .. m) /\ Len(turning) = m
    BY <1>2, <2>1 DEF Enumerates
  <2>3. DOMAIN turning = 1 .. m /\ \A k \in 1 .. m : turning[k] \in 1 .. m
    BY <1>1, <1>2, <2>2
  <2> QED BY <1>2, <2>2, <2>3 DEF Enumerates
<1>4. Enumerates(turned, DOMAIN s)
  <2>1. \A k \in 1 .. N : turned[k] \in 1 .. N
    BY <1>1, <1>2, <1>3
  <2>2. turned \in Seq(1 .. N) /\ Len(turned) = N /\ DOMAIN turned = 1 .. N
    <3>1. turned = [i \in 1 .. N |-> turned[i]]
      OBVIOUS
    <3> HIDE DEF turned
    <3>2. turned \in [1 .. N -> 1 .. N]
      BY <2>1, <3>1
    <3> QED BY <1>1, <3>2
  <2>3. Cardinality(1 .. N) = N
    BY <1>1, FS_Interval
  <2>4. ASSUME NEW k \in 1 .. N PROVE \E i \in 1 .. N : turned[i] = k
    <3>1. CASE k <= m
      <4>1. k \in 1 .. m
        BY <1>1, <1>2, <3>1
      <4>2. PICK i \in 1 .. m : turning[i] = k
        BY <1>3, <4>1
      <4>3. i \in 1 .. N /\ turned[i] = k
        BY <1>1, <1>2, <4>2
      <4> QED BY <4>3
    <3>2. CASE ~(k <= m)
      BY <3>2
    <3> QED BY <3>1, <3>2
  <2>5. ASSUME NEW i \in 1 .. N, NEW j \in 1 .. N, turned[i] = turned[j] PROVE i = j
    <3>1. CASE i <= m /\ j <= m
      <4>1. i \in 1 .. m /\ j \in 1 .. m
        BY <1>1, <1>2, <3>1
      <4> QED BY <1>3, <2>5, <3>1, <4>1
    <3>2. CASE i <= m /\ ~(j <= m)
      <4>1. turning[i] \in 1 .. m
        BY <1>1, <1>2, <1>3, <3>2
      <4> QED BY <1>2, <2>5, <3>2, <4>1
    <3>3. CASE ~(i <= m) /\ j <= m
      <4>1. turning[j] \in 1 .. m
        BY <1>1, <1>2, <1>3, <3>3
      <4> QED BY <1>2, <2>5, <3>3, <4>1
    <3>4. CASE ~(i <= m) /\ ~(j <= m)
      BY <2>5, <3>4
    <3> QED BY <3>1, <3>2, <3>3, <3>4
  <2> HIDE DEF turned
  <2> QED BY <1>1, <2>2, <2>3, <2>4, <2>5 DEF Enumerates
<1>5. Enumerates([i \in DOMAIN s |-> s[turned[i]]], S)
  <2> HIDE DEF turned
  <2> QED BY <1>4, TurnedEnumerates
<1>6. [i \in DOMAIN h |-> h[turning[i]]] \o SubSeq(s, m + 1, N) = [i \in DOMAIN s |-> s[turned[i]]]
  <2> PICK a : a = [i \in 1 .. m |-> h[turning[i]]]
    OBVIOUS
  <2> PICK b : b = SubSeq(s, m + 1, N)
    OBVIOUS
  <2>1. a \in Seq(S) /\ Len(a) = m /\ \A i \in 1 .. m : a[i] = s[turning[i]]
    <3>1. \A i \in 1 .. m : h[turning[i]] \in S
      BY <1>1, <1>2, <1>3
    <3>2. a \in [1 .. m -> S]
      BY <3>1
    <3>3. a \in Seq(S) /\ Len(a) = m
      <4>1. m \in Nat
        BY <1>2
      <4> QED BY <3>2, <4>1, SequencesAreFunctions
    <3> QED BY <1>2, <1>3, <3>3
  <2>2. b \in Seq(S) /\ Len(b) = N - m /\ \A i \in 1 .. (N - m) : b[i] = s[m + i]
    BY <1>1, <1>2
  <2>3. a \o b \in Seq(S) /\ Len(a \o b) = N /\ DOMAIN (a \o b) = 1 .. N
    <3>1. a \o b \in Seq(S) /\ Len(a \o b) = Len(a) + Len(b)
      BY <2>1, <2>2
    <3>2. Len(a) + Len(b) = N
      BY <1>1, <1>2, <2>1, <2>2
    <3> QED BY <3>1, <3>2
  <2>4. ASSUME NEW i \in 1 .. N PROVE (a \o b)[i] = s[turned[i]]
    <3>1. CASE i <= m
      BY <1>1, <1>2, <2>1, <2>2, <3>1
    <3>2. CASE ~(i <= m)
      <4>1. (a \o b)[i] = b[i - m]
        BY <1>1, <1>2, <2>1, <2>2, <3>2
      <4>2. i - m \in 1 .. (N - m) /\ m + (i - m) = i
        BY <1>1, <1>2, <3>2
      <4>3. b[i - m] = s[i]
        BY <2>2, <4>2
      <4> QED BY <3>2, <4>1, <4>3
    <3> QED BY <3>1, <3>2
  <2>5. a \o b = [i \in 1 .. N |-> (a \o b)[i]]
    BY <1>1, <2>3, SequencesAreFunctions
  <2> HIDE DEF turned
  <2>6. a \o b = [i \in 1 .. N |-> s[turned[i]]]
    BY <2>4, <2>5
  <2> QED BY <1>1, <1>2, <2>6
<1> HIDE DEF turned
<1> QED BY <1>5, <1>6

LEMMA RowsEnumerate ==
    ASSUME NEW M \in SUBSET Rows, NEW sc, \A r \in M : sc[r] \in Int
    PROVE  /\ Enumerates(InTurn(M, sc), M)
           /\ Enumerates(ByJudge(InTurn(M, sc), sc), M)
<1> PICK s : s = InTurn(M, sc)
  OBVIOUS
<1>1. Enumerates(s, M)
  <2>1. Enumerates(InPlaces(M, RowOrder(M, sc)), M)
    BY RowsOrdered, PlacesEnumerate
  <2> QED BY <2>1, DiversifiedEnumerates DEF InTurn
<1> PICK h : h = Head_(s, TopN)
  OBVIOUS
<1> PICK j : j = Judged(s, sc)
  OBVIOUS
<1>2. s \in Seq(M) /\ TopN \in Nat
  BY <1>1, PagesAssumption DEF Enumerates
<1>3. h \in Seq(M) /\ DOMAIN h = 1 .. Len(h) /\ Len(h) \in Nat
  BY <1>2, HeadFacts
<1>4. j \in [1 .. Len(h) -> Int]
  <2>1. j = [i \in 1 .. Len(h) |-> sc[h[i]] + h[i].judged]
    BY <1>3 DEF Judged
  <2>2. \A i \in 1 .. Len(h) : h[i] \in M
    BY <1>3
  <2>3. \A i \in 1 .. Len(h) : sc[h[i]] + h[i].judged \in Int
    <3>1. \A r \in M : sc[r] + r.judged \in Int
      BY PagesAssumption
    <3> QED BY <2>2, <3>1
  <2> QED BY <2>1, <2>3
<1>5. Enumerates(InPlaces(1 .. Len(h), JudgedOrder(j)), 1 .. Len(h))
  BY <1>3, <1>4, JudgedOrdered, PlacesEnumerate
<1>6. Enumerates(InPlaces(DOMAIN h, JudgedOrder(j)), DOMAIN h)
  BY <1>3, <1>5
<1>7. Enumerates(ByJudge(s, sc), M)
  BY <1>1, <1>2, <1>6, HeadTurnedEnumerates DEF ByJudge
<1> QED BY <1>1, <1>7

LEMMA SearchRowsBy ==
    ASSUME mirror \in SUBSET Rows, search.mode \in Modes, NEW pool \in Nat
    PROVE  \A M, sc : M = Merged(pool) /\ sc = [r \in M |-> Score(r, pool)] =>
             SearchRows(pool) = IF search.rerank THEN ByJudge(InTurn(M, sc), sc) ELSE InTurn(M, sc)
<1> SUFFICES ASSUME NEW M, NEW sc, M = Merged(pool), sc = [r \in M |-> Score(r, pool)]
             PROVE  SearchRows(pool) = IF search.rerank THEN ByJudge(InTurn(M, sc), sc) ELSE InTurn(M, sc)
  OBVIOUS
<1>1. M \in SUBSET Rows
  BY MergedFacts DEF Matches
<1>2. \A r \in M : sc[r] \in Int
  BY <1>1, ScoreIsInt
<1> DEFINE place == [z \in M |-> 1 + Cardinality({y \in M : Ahead(y, sc[y], z, sc[z])})]
<1>3. DOMAIN sc = M
  OBVIOUS
<1>4. InTurn(M, sc) = Diversified(Placed(M, place))
  <2>1. place = [z \in M |-> 1 + Cardinality({y \in M : Ahead(y, sc[y], z, sc[z])})]
    OBVIOUS
  <2> HIDE DEF place
  <2> QED BY <2>1, RowsInPlaces DEF InTurn
<1>5. SearchRows(pool) = LET s == Diversified(Placed(M, place))
                         IN  IF search.rerank THEN Reranked(s, pool) ELSE s
  BY <1>3 DEF SearchRows, Sorted, Placed
<1>6. Reranked(InTurn(M, sc), pool) = ByJudge(InTurn(M, sc), sc)
  <2>1. InTurn(M, sc) \in Seq(M)
    BY <1>1, <1>2, RowsEnumerate DEF Enumerates
  <2> QED BY <1>1, <2>1, RerankedByJudge
<1> HIDE DEF place
<1> QED BY <1>4, <1>5, <1>6

LEMMA SearchRowsEnumerate ==
    ASSUME mirror \in SUBSET Rows, search.mode \in Modes, search.rerank \in BOOLEAN, NEW pool \in Nat
    PROVE  Enumerates(SearchRows(pool), Merged(pool))
<1> PICK M : M = Merged(pool)
  OBVIOUS
<1> PICK sc : sc = [r \in M |-> Score(r, pool)]
  OBVIOUS
<1>1. M \in SUBSET Rows
  BY MergedFacts DEF Matches
<1>2. \A r \in M : sc[r] \in Int
  BY <1>1, ScoreIsInt
<1>3. Enumerates(InTurn(M, sc), M) /\ Enumerates(ByJudge(InTurn(M, sc), sc), M)
  BY <1>1, <1>2, RowsEnumerate
<1>4. SearchRows(pool) = IF search.rerank THEN ByJudge(InTurn(M, sc), sc) ELSE InTurn(M, sc)
  BY SearchRowsBy
<1> QED BY <1>3, <1>4
-----------------------------------------------------------------------------
(* Pages *)

LEMMA PoolFacts ==
    ASSUME search \in Searches, NEW n \in Nat
    PROVE  /\ Pool(n) \in Nat /\ Pool(0) \in Nat /\ Pool(0) <= Pool(n)
           /\ search.limit \in Nat /\ search.limit # 0 /\ search.limit + n <= Pool(n)
<1> DEFINE half == MinPool \div 2
           asked(m) == search.limit + m
           each(m) == IF Cardinality(search.scope) > 1
                      THEN (IF asked(m) < half THEN half ELSE asked(m)) + m
                      ELSE asked(m)
<1>1. search.limit \in Nat /\ search.limit # 0 /\ MinPool \in Nat
  BY PagesAssumption DEF Searches
<1>2. half \in Nat
  BY <1>1
<1>3. \A m \in Nat : Pool(m) = IF each(m) * 2 < MinPool THEN MinPool ELSE each(m) * 2
  BY DEF Pool
<1>4. each(n) \in Nat /\ each(0) \in Nat /\ each(0) <= each(n) /\ search.limit + n <= each(n)
  <2> HIDE DEF half
  <2> QED BY <1>1, <1>2
<1> HIDE DEF each
<1>5. Pool(n) = (IF each(n) * 2 < MinPool THEN MinPool ELSE each(n) * 2)
      /\ Pool(0) = (IF each(0) * 2 < MinPool THEN MinPool ELSE each(0) * 2)
  BY <1>3
<1> QED BY <1>1, <1>4, <1>5

RankAt(t, r) == IF r \in Elements(t) THEN CHOOSE i \in DOMAIN t : t[i] = r ELSE 0

LEMMA RankIsPlace ==
    ASSUME NEW lane, NEW r, NEW pool
    PROVE  RankIn(lane, r, pool) = RankAt(Lane(lane, r.kind, r.ws, pool), r)
BY DEF RankIn, RankAt

(* The score of a row whose lanes were not cut.                            *)
Uncut(M, lane, kind, ws) ==
    InPlaces({r \in M : r.kind = kind /\ r.ws = ws /\ r[lane] # {}},
             RowOrder({r \in M : r.kind = kind /\ r.ws = ws /\ r[lane] # {}},
                      [r \in {x \in M : x.kind = kind /\ x.ws = ws /\ x[lane] # {}} |-> Best(r, lane)]))

UncutPart(q, M, lane, r) ==
    IF RankAt(Uncut(M, lane, r.kind, r.ws), r) = 0 THEN 0
    ELSE IF q.mode = "rrf"
         THEN (Weight(lane) * 1000) \div (FusionK + RankAt(Uncut(M, lane, r.kind, r.ws), r))
    ELSE Weight(lane) * Best(r, lane)

UncutScore(q, M, r) ==
    CASE q.mode = "lexical" -> Best(r, "lex")
      [] q.mode = "semantic" -> Best(r, "sem")
      [] OTHER -> UncutPart(q, M, "lex", r) + UncutPart(q, M, "sem", r)

RowsInOrder(reranks, M, sc) == IF reranks THEN ByJudge(InTurn(M, sc), sc) ELSE InTurn(M, sc)

(* All that matches, in the order in which pages give it if it fits.       *)
AllRows == RowsInOrder(search.rerank, Matches, [r \in Matches |-> UncutScore(search, mirror, r)])

AllWithin(M, lanes, n) ==
    \A lane \in lanes, k \in Kinds, ws \in Spaces :
        Cardinality({r \in M : r[lane] # {} /\ r.kind = k /\ r.ws = ws}) <= n

FitsAll == AllWithin(Matches, Lanes, Pool(0))

LEMMA FitsIsAll == Fits <=> FitsAll
BY DEF Fits, FitsAll, AllWithin

(* Once what the lanes found fits the first pool, every page is of the     *)
(* same rows.                                                              *)
LEMMA SameRows ==
    ASSUME mirror \in SUBSET Rows, search \in Searches, FitsAll, NEW pool \in Nat, Pool(0) <= pool
    PROVE  SearchRows(pool) = AllRows /\ Merged(pool) = Matches
<1>1. search.mode \in Modes /\ search.scope \in SUBSET Spaces /\ search.rerank \in BOOLEAN
  BY DEF Searches
<1>2. Pool(0) \in Nat
  BY PoolFacts
<1>3. ASSUME NEW lane \in Lanes, NEW kind \in Kinds, NEW ws \in search.scope
      PROVE  /\ lane \in LaneNames
             /\ Cardinality(FoundIn(lane, kind, ws)) <= Pool(0)
             /\ Cardinality(FoundIn(lane, kind, ws)) <= pool
  <2>1. FoundIn(lane, kind, ws) = {r \in Matches : r[lane] # {} /\ r.kind = kind /\ r.ws = ws}
    BY DEF FoundIn, Matches
  <2>2. Cardinality(FoundIn(lane, kind, ws)) <= Pool(0)
    BY <1>1, <2>1 DEF FitsAll, AllWithin
  <2>3. lane \in LaneNames
    BY <1>1, LanesOfMode
  <2>4. Cardinality(FoundIn(lane, kind, ws)) \in Nat
    BY <2>3, FoundFacts
  <2> QED BY <1>2, <2>2, <2>3, <2>4
<1>4. Merged(pool) = Matches
  BY <1>1, <1>2, <1>3, WholeLanes
<1>5. ASSUME NEW r \in Matches PROVE Score(r, pool) = UncutScore(search, mirror, r)
  <2>1. CASE search.mode \in {"lexical", "semantic"}
    BY <2>1 DEF Score, UncutScore
  <2>2. CASE search.mode \notin {"lexical", "semantic"}
    <3>1. r.kind \in Kinds /\ r.ws \in search.scope
      BY PagesAssumption DEF Matches
    <3>2. ASSUME NEW lane \in LaneNames PROVE Part(lane, r, pool) = UncutPart(search, mirror, lane, r)
      <4>1. lane \in Lanes
        BY <1>1, <2>2, LanesOfMode
      <4>2. Lane(lane, r.kind, r.ws, pool) = InLane(lane, r.kind, r.ws)
        BY <1>2, <1>3, <3>1, <4>1, LaneFacts
      <4>3. InLane(lane, r.kind, r.ws) = Uncut(mirror, lane, r.kind, r.ws)
        BY DEF InLane, FoundIn, Uncut
      <4>4. RankIn(lane, r, pool) = RankAt(Uncut(mirror, lane, r.kind, r.ws), r)
        BY <4>2, <4>3, RankIsPlace
      <4> QED BY <4>4 DEF Part, UncutPart
    <3>3. Part("lex", r, pool) = UncutPart(search, mirror, "lex", r)
          /\ Part("sem", r, pool) = UncutPart(search, mirror, "sem", r)
      BY <3>2 DEF LaneNames
    <3> QED BY <2>2, <3>3 DEF Score, UncutScore
  <2> QED BY <2>1, <2>2
<1> PICK sc : sc = [r \in Matches |-> Score(r, pool)]
  OBVIOUS
<1>6. sc = [r \in Matches |-> UncutScore(search, mirror, r)]
  BY <1>5
<1>7. SearchRows(pool) = IF search.rerank THEN ByJudge(InTurn(Matches, sc), sc) ELSE InTurn(Matches, sc)
  BY <1>1, <1>4, SearchRowsBy
<1> QED BY <1>4, <1>6, <1>7 DEF AllRows, RowsInOrder

PagesTypes ==
    /\ mirror \in SUBSET Rows /\ got \in Seq(Rows) /\ moved \in BOOLEAN
    /\ search \in Searches \union {NoSearch}
    /\ lastPage \in [size : Nat, total : Nat]
    /\ search = NoSearch => got = <<>>
    /\ PagesTypeOK

(* What was read is where the search's rows begin, all of them after a     *)
(* page that comes short.                                                  *)
ReadSoFar ==
    ~moved /\ search # NoSearch =>
        /\ lastPage.size < search.limit => lastPage.total = Cardinality(Matches)
        /\ FitsAll => /\ got # <<>> => Len(got) <= Len(AllRows) /\ got = SubSeq(AllRows, 1, Len(got))
                      /\ lastPage.size < search.limit => got = AllRows

PagesInv == PagesTypes /\ ReadSoFar

LEMMA NoSearchIsNone ==
    /\ NoSearch \notin Searches /\ NoSearch.limit = 0
BY DEF NoSearch, Searches, Modes

LEMMA NothingRead ==
    ASSUME NEW S, NEW s \in Seq(S)
    PROVE  SubSeq(s, 1, Len(<<>>)) = <<>> /\ Len(<<>>) = 0 /\ 0 <= Len(s)
OBVIOUS

PageAfter(s, n, k) == Head_(SubSeq(s, n + 1, Len(s)), k)

LEMMA Concatenated ==
    ASSUME NEW S, NEW a \in Seq(S), NEW p \in Seq(S), NEW b \in Seq(S), Len(b) = Len(a) + Len(p),
           \A i \in 1 .. Len(a) : b[i] = a[i],
           \A i \in 1 .. Len(p) : b[Len(a) + i] = p[i]
    PROVE  a \o p = b
<1>1. ASSUME NEW i \in 1 .. Len(b) PROVE (a \o p)[i] = b[i]
  <2>1. CASE i <= Len(a)
    BY <2>1
  <2>2. CASE ~(i <= Len(a))
    <3>1. (a \o p)[i] = p[i - Len(a)]
      BY <2>2
    <3>2. i - Len(a) \in 1 .. Len(p) /\ Len(a) + (i - Len(a)) = i
      BY <2>2
    <3> QED BY <3>1, <3>2
  <2> QED BY <2>1, <2>2
<1>2. a \o p \in Seq(S) /\ Len(a \o p) = Len(b) /\ Len(b) \in Nat
  OBVIOUS
<1>3. a \o p = [i \in 1 .. Len(b) |-> (a \o p)[i]] /\ b = [i \in 1 .. Len(b) |-> b[i]]
  BY <1>2, SequencesAreFunctions
<1> QED BY <1>1, <1>3

(* The rows before a page, and the page, are the rows to its end.          *)
LEMMA PageFollows ==
    ASSUME NEW S, NEW s \in Seq(S), NEW n \in 0 .. Len(s), NEW k \in Nat
    PROVE  /\ SubSeq(s, 1, n) \o PageAfter(s, n, k) = SubSeq(s, 1, n + Len(PageAfter(s, n, k)))
           /\ Len(PageAfter(s, n, k)) = (IF k < Len(s) - n THEN k ELSE Len(s) - n)
<1> PICK rest : rest = SubSeq(s, n + 1, Len(s))
  OBVIOUS
<1> PICK m : m = IF k < Len(s) - n THEN k ELSE Len(s) - n
  OBVIOUS
<1> PICK p : p = Head_(rest, k)
  OBVIOUS
<1>1. Len(s) \in Nat /\ n \in Nat /\ m \in Nat /\ n + m <= Len(s)
  OBVIOUS
<1>2. rest \in Seq(S) /\ Len(rest) = Len(s) - n /\ \A i \in 1 .. (Len(s) - n) : rest[i] = s[n + i]
  BY <1>1
<1>3. p \in Seq(S) /\ Len(p) = m /\ \A i \in 1 .. m : p[i] = s[n + i]
  <2>1. /\ p \in Seq(S) /\ Len(p) = (IF k < Len(rest) THEN k ELSE Len(rest))
        /\ \A i \in DOMAIN p : i \in DOMAIN rest /\ p[i] = rest[i]
    BY <1>2, HeadFacts
  <2>2. Len(p) = m
    BY <1>2, <2>1
  <2>3. \A i \in 1 .. m : i \in DOMAIN p
    BY <2>1, <2>2
  <2>4. \A i \in 1 .. m : i \in 1 .. (Len(s) - n)
    BY <1>1
  <2> QED BY <1>2, <2>1, <2>2, <2>3, <2>4
<1>4. SubSeq(s, 1, n) \o p = SubSeq(s, 1, n + m)
  <2> DEFINE a == SubSeq(s, 1, n)
             b == SubSeq(s, 1, n + m)
  <2>1. a \in Seq(S) /\ Len(a) = n /\ \A i \in 1 .. n : a[i] = s[i]
    BY <1>1
  <2>2. b \in Seq(S) /\ Len(b) = n + m /\ \A i \in 1 .. (n + m) : b[i] = s[i]
    BY <1>1
  <2> HIDE DEF a, b
  <2>3. Len(b) = Len(a) + Len(p)
    BY <1>1, <1>3, <2>1, <2>2
  <2>4. \A i \in 1 .. Len(a) : b[i] = a[i]
    BY <1>1, <2>1, <2>2
  <2>5. \A i \in 1 .. Len(p) : b[Len(a) + i] = p[i]
    <3>1. ASSUME NEW i \in 1 .. m PROVE n + i \in 1 .. (n + m)
      BY <1>1
    <3> QED BY <1>3, <2>1, <2>2, <3>1
  <2>6. a \o p = b
    BY <1>3, <2>1, <2>2, <2>3, <2>4, <2>5, Concatenated
  <2> QED BY <2>6 DEF a, b
<1> QED BY <1>3, <1>4 DEF PageAfter
LEMMA RowsOfSearch ==
    ASSUME mirror \in SUBSET Rows, search \in Searches
    PROVE  \A pool \in Nat : SearchRows(pool) \in Seq(Rows) /\ Enumerates(SearchRows(pool), Merged(pool))
<1>1. ASSUME NEW pool \in Nat
      PROVE  SearchRows(pool) \in Seq(Rows) /\ Enumerates(SearchRows(pool), Merged(pool))
  <2>1. Enumerates(SearchRows(pool), Merged(pool))
    BY SearchRowsEnumerate DEF Searches
  <2>2. Merged(pool) \in SUBSET Rows
    BY MergedFacts DEF Searches, Matches
  <2>3. SearchRows(pool) \in Seq(Merged(pool))
    BY <2>1 DEF Enumerates
  <2> QED BY <2>1, <2>2, <2>3
<1> QED BY <1>1

LEMMA PageIsPart ==
    ASSUME NEW S, NEW s \in Seq(S), NEW n \in Nat, NEW k \in Nat
    PROVE  /\ PageAfter(s, n, k) \in Seq(S) /\ Len(PageAfter(s, n, k)) \in 0 .. k
           /\ Len(PageAfter(s, n, k))
              = (IF n < Len(s) THEN (IF k < Len(s) - n THEN k ELSE Len(s) - n) ELSE 0)
           /\ Elements(PageAfter(s, n, k)) \in SUBSET Elements(s)
<1> DEFINE rest == SubSeq(s, n + 1, Len(s))
           p == Head_(rest, k)
<1>1. /\ rest \in Seq(S) /\ Len(rest) = (IF n < Len(s) THEN Len(s) - n ELSE 0)
      /\ \A i \in DOMAIN rest : rest[i] = s[n + i] /\ n + i \in DOMAIN s
  OBVIOUS
<1> HIDE DEF rest
<1>2. /\ p \in Seq(S) /\ Len(p) = (IF k < Len(rest) THEN k ELSE Len(rest))
      /\ \A i \in DOMAIN p : i \in DOMAIN rest /\ p[i] = rest[i]
  BY <1>1, HeadFacts
<1> HIDE DEF p
<1>3. Len(p) \in 0 .. k /\ Len(p) = (IF n < Len(s) THEN (IF k < Len(s) - n THEN k ELSE Len(s) - n) ELSE 0)
  BY <1>1, <1>2
<1>4. Elements(p) \in SUBSET Elements(s)
  BY <1>1, <1>2 DEF Elements
<1> QED BY <1>2, <1>3, <1>4 DEF p, rest, PageAfter

LEMMA ElementsOfBoth ==
    ASSUME NEW S, NEW a \in Seq(S), NEW b \in Seq(S)
    PROVE  Elements(a \o b) \in SUBSET (Elements(a) \union Elements(b))
<1> SUFFICES ASSUME NEW i \in DOMAIN (a \o b)
             PROVE  (a \o b)[i] \in Elements(a) \union Elements(b)
  BY DEF Elements
<1>1. i \in 1 .. (Len(a) + Len(b))
  OBVIOUS
<1>2. CASE i <= Len(a)
  BY <1>1, <1>2 DEF Elements
<1>3. CASE ~(i <= Len(a))
  <2>1. (a \o b)[i] = b[i - Len(a)] /\ i - Len(a) \in DOMAIN b
    BY <1>1, <1>3
  <2> QED BY <2>1 DEF Elements
<1> QED BY <1>2, <1>3

LEMMA SearchUnmoved ==
    ASSUME UNCHANGED <<search, mirror>>
    PROVE  Matches' = Matches /\ AllRows' = AllRows /\ (FitsAll' <=> FitsAll)
<1>1. search' = search /\ mirror' = mirror
  OBVIOUS
<1>2. Matches' = Matches /\ Lanes' = Lanes
  BY <1>1 DEF Matches, Lanes
<1>3. Pool(0)' = Pool(0)
  BY <1>1 DEF Pool
<1>4. FitsAll' <=> FitsAll
  BY <1>2, <1>3 DEF FitsAll
<1>5. AllRows' = AllRows
  BY <1>1, <1>2 DEF AllRows
<1> QED BY <1>2, <1>4, <1>5

LEMMA PagesBegin == PagesInit => PagesInv
<1> SUFFICES ASSUME PagesInit PROVE PagesInv
  OBVIOUS
<1> USE DEF PagesInit
<1>1. mirror \in SUBSET Rows
  OBVIOUS
<1>2. Cardinality(Rows) \in Nat
  BY PagesAssumption, FS_CardinalityType
<1>3. PagesTypeOK
  BY <1>1, <1>2, NoSearchIsNone DEF PagesTypeOK, Elements
<1>4. PagesTypes
  <2>1. got \in Seq(Rows)
    OBVIOUS
  <2>2. lastPage \in [size : Nat, total : Nat]
    OBVIOUS
  <2> QED BY <1>1, <1>3, <2>1, <2>2 DEF PagesTypes
<1> QED BY <1>4 DEF PagesInv, ReadSoFar

LEMMA AskKeeps ==
    ASSUME PagesInv, Ask
    PROVE  PagesInv'
<1> USE DEF PagesInv
<1>1. /\ search = NoSearch /\ search' \in Searches /\ got = <<>>
      /\ lastPage' = [size |-> search'.limit, total |-> 0]
      /\ UNCHANGED <<mirror, got, moved>>
  BY PagesAssumption DEF Ask, PagesTypes, Searches
<1>2. search'.limit \in Nat
  BY <1>1, PagesAssumption DEF Searches
<1>3. Cardinality(Rows) \in Nat
  BY PagesAssumption, FS_CardinalityType
<1>4. PagesTypeOK'
  BY <1>1, <1>2, <1>3 DEF PagesTypeOK, PagesTypes, Elements
<1>5. PagesTypes'
  <2>1. lastPage' \in [size : Nat, total : Nat]
    BY <1>1, <1>2
  <2> QED BY <1>1, <1>4, <2>1, NoSearchIsNone DEF PagesTypes
<1>6. ReadSoFar'
  <2>1. ~(lastPage'.size < search'.limit)
    BY <1>1, <1>2
  <2> QED BY <1>1, <2>1 DEF ReadSoFar
<1> QED BY <1>5, <1>6

LEMMA ArriveKeeps ==
    ASSUME PagesInv, Arrive
    PROVE  PagesInv'
<1> USE DEF PagesInv
<1>1. /\ mirror' \in SUBSET Rows /\ mirror \in SUBSET mirror'
      /\ moved' = (moved \/ got # <<>> \/ lastPage.size < search.limit)
      /\ UNCHANGED <<search, got, lastPage>>
  BY PagesAssumption DEF Arrive, PagesTypes
<1>2. PagesTypeOK'
  BY <1>1 DEF PagesTypeOK, PagesTypes
<1>3. PagesTypes'
  BY <1>1, <1>2 DEF PagesTypes
<1>4. ReadSoFar'
  <2>1. moved' \/ (got' = <<>> /\ ~(lastPage'.size < search'.limit))
    BY <1>1 DEF PagesTypes
  <2> QED BY <2>1 DEF ReadSoFar
<1> QED BY <1>3, <1>4

LEMMA ReadPageKeeps ==
    ASSUME PagesInv, ReadPage
    PROVE  PagesInv'
<1> USE DEF PagesInv
<1> PICK n : n = Len(got)
  OBVIOUS
<1> PICK all : all = SearchRows(Pool(n))
  OBVIOUS
<1> PICK page : page = PageAfter(all, n, search.limit)
  OBVIOUS
<1>1. /\ search \in Searches /\ lastPage.size = search.limit
      /\ got' = got \o page
      /\ lastPage' = [size |-> Len(page), total |-> Len(all)]
      /\ UNCHANGED <<search, mirror, moved>>
  BY DEF ReadPage, PageAfter, PagesTypes
<1>2. mirror \in SUBSET Rows /\ got \in Seq(Rows) /\ n \in Nat /\ search.mode \in Modes
  BY <1>1 DEF PagesTypes, Searches
<1>3. Pool(n) \in Nat /\ Pool(0) <= Pool(n) /\ search.limit \in Nat /\ search.limit + n <= Pool(n)
  BY <1>1, <1>2, PoolFacts
<1>4. /\ all \in Seq(Rows) /\ Enumerates(all, Merged(Pool(n))) /\ Len(all) \in Nat
      /\ Len(all) = Cardinality(Merged(Pool(n)))
  <2>1. SearchRows(Pool(n)) \in Seq(Rows) /\ Enumerates(SearchRows(Pool(n)), Merged(Pool(n)))
    BY <1>1, <1>2, <1>3, RowsOfSearch
  <2>2. Len(all) = Cardinality(Merged(Pool(n))) /\ Cardinality(Merged(Pool(n))) \in Nat
    BY <2>1 DEF Enumerates
  <2> QED BY <2>1, <2>2
<1>5. /\ page \in Seq(Rows) /\ Len(page) \in Nat /\ Len(page) \in 0 .. search.limit
      /\ Len(page) = (IF n < Len(all) THEN (IF search.limit < Len(all) - n THEN search.limit ELSE Len(all) - n) ELSE 0)
      /\ Elements(page) \in SUBSET Elements(all)
  <2>1. /\ page \in Seq(Rows) /\ Len(page) \in 0 .. search.limit
        /\ Len(page) = (IF n < Len(all) THEN (IF search.limit < Len(all) - n THEN search.limit ELSE Len(all) - n) ELSE 0)
        /\ Elements(page) \in SUBSET Elements(all)
    <3>1. all \in Seq(Rows) /\ n \in Nat /\ search.limit \in Nat
      BY <1>2, <1>3, <1>4
    <3> HIDE DEF PagesInv
    <3>2. \A s \in Seq(Rows), m, k \in Nat :
            /\ PageAfter(s, m, k) \in Seq(Rows) /\ Len(PageAfter(s, m, k)) \in 0 .. k
            /\ Len(PageAfter(s, m, k))
               = (IF m < Len(s) THEN (IF k < Len(s) - m THEN k ELSE Len(s) - m) ELSE 0)
            /\ Elements(PageAfter(s, m, k)) \in SUBSET Elements(s)
      BY PageIsPart
    <3> QED BY <3>1, <3>2
  <2> QED BY <1>3, <2>1
<1>6. PagesTypeOK'
  <2>1. Elements(got') \in SUBSET (Elements(got) \union Elements(page))
    BY <1>1, <1>2, <1>5, ElementsOfBoth
  <2>2. Elements(all) = Merged(Pool(n))
    BY <1>4, EnumeratedElements
  <2>3. Merged(Pool(n)) \in SUBSET mirror /\ Cardinality(Merged(Pool(n))) <= Cardinality(Rows)
    BY <1>2, <1>3, MergedFacts DEF Matches
  <2>4. Elements(got') \in SUBSET mirror'
    BY <1>1, <1>5, <2>1, <2>2, <2>3 DEF PagesTypes, PagesTypeOK
  <2>5. lastPage'.size = Len(page) /\ lastPage'.total = Len(all)
    BY <1>1
  <2> QED BY <1>1, <1>4, <1>5, <2>3, <2>4, <2>5 DEF PagesTypes, PagesTypeOK
<1>7. PagesTypes'
  <2>1. got' \in Seq(Rows)
    BY <1>1, <1>2, <1>5
  <2>2. lastPage' \in [size : Nat, total : Nat]
    BY <1>1, <1>3, <1>4, <1>5
  <2> QED BY <1>1, <1>6, <2>1, <2>2, NoSearchIsNone DEF PagesTypes
<1>8. ReadSoFar'
  <2> SUFFICES ASSUME ~moved
               PROVE  /\ lastPage'.size < search'.limit => lastPage'.total = Cardinality(Matches')
                      /\ FitsAll' => /\ got' # <<>> => Len(got') <= Len(AllRows') /\ got' = SubSeq(AllRows', 1, Len(got'))
                                     /\ lastPage'.size < search'.limit => got' = AllRows'
    BY <1>1 DEF ReadSoFar
  <2>1. Matches' = Matches /\ AllRows' = AllRows /\ (FitsAll' <=> FitsAll)
    BY <1>1, SearchUnmoved
  <2>2. ASSUME Len(page) < search.limit PROVE Len(all) = Cardinality(Matches)
    <3>1. Len(all) < Pool(n)
      BY <1>2, <1>3, <1>4, <1>5, <2>2
    <3> QED BY <1>2, <1>3, <1>4, <3>1, FewRows
  <2>3. ASSUME FitsAll
        PROVE  /\ Len(got') <= Len(AllRows) /\ got' = SubSeq(AllRows, 1, Len(got'))
               /\ Len(page) < search.limit => got' = AllRows
    <3>1. all = AllRows
      BY <1>1, <1>2, <1>3, <2>3, SameRows
    <3>2. n \in 0 .. Len(all) /\ got = SubSeq(all, 1, n)
      <4>1. CASE got = <<>>
        BY <1>4, <4>1, NothingRead
      <4>2. CASE got # <<>>
        <5>1. n <= Len(all) /\ got = SubSeq(all, 1, n)
          BY <1>1, <2>3, <3>1, <4>2, NoSearchIsNone DEF ReadSoFar
        <5> QED BY <1>2, <1>4, <5>1
      <4> QED BY <4>1, <4>2
    <3>3. /\ got' = SubSeq(all, 1, n + Len(page))
          /\ Len(page) = (IF search.limit < Len(all) - n THEN search.limit ELSE Len(all) - n)
      <4>1. /\ SubSeq(all, 1, n) \o page = SubSeq(all, 1, n + Len(page))
            /\ Len(page) = (IF search.limit < Len(all) - n THEN search.limit ELSE Len(all) - n)
        BY <1>3, <1>4, <3>2, PageFollows
      <4> QED BY <1>1, <3>2, <4>1
    <3>4. n + Len(page) \in 0 .. Len(all)
      <4> PICK k : k = Len(page)
        OBVIOUS
      <4> PICK m : m = Len(all)
        OBVIOUS
      <4>1. m \in Nat /\ n \in 0 .. m /\ search.limit \in Nat
            /\ k = (IF search.limit < m - n THEN search.limit ELSE m - n)
        BY <1>3, <1>4, <3>2, <3>3
      <4> QED BY <4>1
    <3>5. Len(got') = n + Len(page)
      BY <1>4, <3>3, <3>4
    <3>6. ASSUME Len(page) < search.limit PROVE got' = all
      <4>1. n + Len(page) = Len(all)
        <5> PICK k : k = Len(page)
          OBVIOUS
        <5> PICK m : m = Len(all)
          OBVIOUS
        <5>1. m \in Nat /\ n \in 0 .. m /\ search.limit \in Nat /\ k < search.limit
              /\ k = (IF search.limit < m - n THEN search.limit ELSE m - n)
          BY <1>3, <1>4, <3>2, <3>3, <3>6
        <5> QED BY <5>1
      <4>2. SubSeq(all, 1, Len(all)) = all
        BY <1>4
      <4> QED BY <3>3, <4>1, <4>2
    <3> QED BY <1>4, <3>1, <3>3, <3>4, <3>5, <3>6
  <2>4. lastPage'.size = Len(page) /\ lastPage'.total = Len(all)
    BY <1>1
  <2> QED BY <1>1, <2>1, <2>2, <2>3, <2>4
<1> QED BY <1>7, <1>8

LEMMA PagesStep == PagesInv /\ [PagesNext]_pageVars => PagesInv'
<1> SUFFICES ASSUME PagesInv, [PagesNext]_pageVars PROVE PagesInv'
  OBVIOUS
<1>1. CASE Ask
  BY <1>1, AskKeeps
<1>2. CASE ReadPage
  BY <1>2, ReadPageKeeps
<1>3. CASE Arrive
  BY <1>3, ArriveKeeps
<1>4. CASE UNCHANGED pageVars
  <2>1. UNCHANGED <<search, mirror, got, lastPage, moved>>
    BY <1>4 DEF pageVars
  <2>2. PagesTypes'
    BY <2>1 DEF PagesInv, PagesTypes, PagesTypeOK
  <2>4. Matches' = Matches /\ AllRows' = AllRows /\ (FitsAll' <=> FitsAll)
    BY <2>1, SearchUnmoved
  <2>5. ReadSoFar'
    BY <2>1, <2>4 DEF PagesInv, ReadSoFar
  <2> QED BY <2>2, <2>5 DEF PagesInv
<1> QED BY <1>1, <1>2, <1>3, <1>4 DEF PagesNext

LEMMA PagesStand == PagesInv => PagesPartition
<1> SUFFICES ASSUME PagesInv, ~moved, search # NoSearch
             PROVE  /\ lastPage.size < search.limit => lastPage.total = Cardinality(Matches)
                    /\ Fits => /\ Cardinality(Elements(got)) = Len(got)
                               /\ lastPage.size < search.limit => Elements(got) = Matches
  BY DEF PagesPartition
<1>1. mirror \in SUBSET Rows /\ search \in Searches
  BY DEF PagesInv, PagesTypes
<1>2. ASSUME Fits
      PROVE  /\ Cardinality(Elements(got)) = Len(got)
             /\ lastPage.size < search.limit => Elements(got) = Matches
  <2>1. Pool(0) \in Nat
    BY <1>1, PoolFacts
  <2>2. Merged(Pool(0)) = Matches /\ SearchRows(Pool(0)) = AllRows /\ FitsAll
    BY <1>1, <1>2, <2>1, FitsIsAll, SameRows
  <2> PICK all : all = AllRows
    OBVIOUS
  <2>3. all \in Seq(Rows) /\ Enumerates(all, Matches)
    BY <1>1, <2>1, <2>2, RowsOfSearch
  <2>4. Len(got) <= Len(all) /\ got = SubSeq(all, 1, Len(got)) /\ got \in Seq(Rows)
        /\ (lastPage.size < search.limit => got = all)
    <3>1. got \in Seq(Rows)
      BY DEF PagesInv, PagesTypes
    <3>2. CASE got = <<>>
      BY <2>2, <2>3, <3>1, <3>2, NothingRead DEF PagesInv, ReadSoFar
    <3>3. CASE got # <<>>
      BY <2>2, <3>1, <3>3 DEF PagesInv, ReadSoFar
    <3> QED BY <3>2, <3>3
  <2>5. \A i, j \in DOMAIN got : got[i] = got[j] => i = j
    <3> PICK n : n = Len(got)
      OBVIOUS
    <3>1. n \in 0 .. Len(all) /\ DOMAIN got = 1 .. n
      BY <2>3, <2>4
    <3>2. \A i \in 1 .. n : i \in DOMAIN all /\ got[i] = all[i]
      BY <2>3, <2>4, <3>1
    <3> QED BY <2>3, <3>1, <3>2 DEF Enumerates
  <2>6. Cardinality(Elements(got)) = Len(got)
    BY <2>4, <2>5, ElementsCount
  <2>7. Elements(all) = Matches
    BY <2>3, EnumeratedElements
  <2> QED BY <2>4, <2>6, <2>7
<1>3. lastPage.size < search.limit => lastPage.total = Cardinality(Matches)
  BY DEF PagesInv, ReadSoFar
<1> QED BY <1>2, <1>3

(* A page never shows more than was asked for or rows that are not         *)
(* mirrored (search_corpus_page).                                          *)
THEOREM PagesTypeCorrect == PagesSpec => []PagesTypeOK
<1>1. PagesInv => PagesTypeOK
  BY DEF PagesInv, PagesTypes
<1> QED BY <1>1, PagesBegin, PagesStep, PTL DEF PagesSpec

(* A page that comes short is the last and its total counts every match,   *)
(* and where what each lane found fits its first pool the pages have every *)
(* match once, for any rows, scores, limits, modes and rerankings          *)
(* (search_corpus_page, search_corpus_multi_page).                         *)
THEOREM PagesAlwaysPartition == PagesSpec => []PagesPartition
BY PagesBegin, PagesStep, PagesStand, PTL DEF PagesSpec

(* What a query finds and how its pages are dealt: NegationAlwaysSplits    *)
(* and PagesAlwaysPartition together (search_messages,                     *)
(* search_corpus_page).                                                    *)
THEOREM SearchesAlwaysStand == Spec => []SearchesStand
<1>1. Init => QueryInit /\ PagesInit
  BY DEF Init
<1>2. [Next]_vars => [QueryNext]_query /\ [PagesNext]_pageVars
  BY DEF Next, Alone, vars, pageVars
<1>3. Spec => QuerySpec /\ PagesSpec
  BY <1>1, <1>2, PTL DEF Spec, QuerySpec, PagesSpec
<1>4. NegationSplits /\ PagesPartition => SearchesStand
  BY DEF SearchesStand
<1> QED BY <1>3, <1>4, NegationAlwaysSplits, PagesAlwaysPartition, PTL
-----------------------------------------------------------------------------
(* Benchmarks: what a dataset and a search are made of, and what is        *)
(* counted of them.                                                        *)

BenchmarksTypes ==
    /\ BenchmarksTypeOK
    /\ truth = <<>> \/ truth \in Truths
    /\ results \in Seq(Items)

LEMMA TruthIsFinite ==
    ASSUME truth = <<>> \/ truth \in Truths
    PROVE  IsFiniteSet(DOMAIN truth) /\ \A l \in DOMAIN truth : truth[l] \in Nat
<1>1. CASE truth = <<>>
  <2>1. DOMAIN truth = {}
    BY <1>1
  <2> QED BY <2>1, FS_EmptySet
<1>2. CASE truth \in Truths
  BY <1>2, BenchmarksAssumption
<1> QED BY <1>1, <1>2

LEMMA BenchmarksTyped ==
    /\ BenchmarksInit => BenchmarksTypes
    /\ BenchmarksTypes /\ [BenchmarksNext]_benchmarkVars => BenchmarksTypes'
<1>0. NoReport.covered = 0 /\ NoReport' = NoReport
  BY DEF NoReport
<1>1. BenchmarksInit => BenchmarksTypes
  <2> SUFFICES ASSUME BenchmarksInit PROVE BenchmarksTypes
    OBVIOUS
  <2>1. Cardinality(DOMAIN truth) \in Nat
    BY TruthIsFinite, FS_CardinalityType DEF BenchmarksInit
  <2>2. /\ gone = {} /\ chunked = ItemTexts /\ vectors = {} /\ truth = <<>>
        /\ results = <<>> /\ report = NoReport
    BY DEF BenchmarksInit
  <2>3. results \in Seq(Items)
    BY <2>2
  <2> QED BY <1>0, <2>1, <2>2, <2>3 DEF BenchmarksTypes, BenchmarksTypeOK
<1>2. ASSUME BenchmarksTypes, NEW model \in ModelNames, DatasetReport(model) PROVE BenchmarksTypes'
  <2> DEFINE known == DOMAIN truth \ Unresolved
  <2>1. PICK pick \in [known -> Items] :
          LET covered == {l \in known : Covered(pick[l], model)}
          IN  report' = [model |-> model, picked |-> pick, covered |-> Cardinality(covered),
                         status |-> Status(known # {} /\ covered = known)]
    BY <1>2 DEF DatasetReport
  <2>2. report'.covered = Cardinality({l \in known : Covered(pick[l], model)})
    BY <2>1
  <2>3. Cardinality({l \in known : Covered(pick[l], model)}) <= Cardinality(DOMAIN truth)
    <3>1. {l \in known : Covered(pick[l], model)} \in SUBSET (DOMAIN truth)
      OBVIOUS
    <3>2. IsFiniteSet(DOMAIN truth)
      BY <1>2, TruthIsFinite DEF BenchmarksTypes
    <3> QED BY <3>1, <3>2, FS_Subset
  <2>4. results' = <<>> /\ UNCHANGED <<gone, chunked, vectors, truth>>
    BY <1>2 DEF DatasetReport
  <2>5. results' \in Seq(Items)
    BY <2>4
  <2> QED BY <1>2, <2>2, <2>3, <2>4, <2>5 DEF BenchmarksTypes, BenchmarksTypeOK, Items
<1>3. ASSUME BenchmarksTypes, NEW model \in ModelNames, BackfillTargets(model) PROVE BenchmarksTypes'
  <2>1. /\ vectors' = vectors \union (Embeddable \X {model})
        /\ results' = <<>> /\ report' = NoReport /\ UNCHANGED <<gone, chunked, truth>>
    BY <1>3 DEF BackfillTargets
  <2>2. Embeddable \subseteq Items
    BY <1>3 DEF Embeddable, EmbeddableMessages, EmbeddableTexts, BenchmarksTypes, BenchmarksTypeOK, Items
  <2>3. Cardinality(DOMAIN truth) \in Nat
    BY <1>3, TruthIsFinite, FS_CardinalityType DEF BenchmarksTypes
  <2>4. results' \in Seq(Items)
    BY <2>1
  <2>5. vectors' \subseteq Items \X ModelNames
    BY <1>3, <2>1, <2>2 DEF BenchmarksTypes, BenchmarksTypeOK
  <2> QED BY <1>0, <1>3, <2>1, <2>3, <2>4, <2>5 DEF BenchmarksTypes, BenchmarksTypeOK, Items
<1>4. ASSUME BenchmarksTypes, TakeDataset PROVE BenchmarksTypes'
  <2>1. truth' \in Truths /\ results' = <<>> /\ report' = NoReport /\ UNCHANGED <<gone, chunked, vectors>>
    BY <1>4 DEF TakeDataset
  <2>2. Cardinality(DOMAIN truth') \in Nat
    BY <2>1, BenchmarksAssumption, FS_CardinalityType
  <2>3. results' \in Seq(Items)
    BY <2>1
  <2> QED BY <1>0, <1>4, <2>1, <2>2, <2>3 DEF BenchmarksTypes, BenchmarksTypeOK, Items
<1>5. ASSUME BenchmarksTypes, Evaluate PROVE BenchmarksTypes'
  <2>1. PICK n \in 0 .. TopK : results' \in [1 .. n -> Items \ gone]
    BY <1>5 DEF Evaluate
  <2>2. results' \in Seq(Items)
    <3>1. n \in Nat /\ results' \in [1 .. n -> Items]
      BY <2>1
    <3> QED BY <3>1
  <2>3. report' = NoReport /\ UNCHANGED <<gone, chunked, vectors, truth>>
    BY <1>5 DEF Evaluate
  <2>4. Cardinality(DOMAIN truth) \in Nat
    BY <1>5, TruthIsFinite, FS_CardinalityType DEF BenchmarksTypes
  <2> QED BY <1>0, <1>5, <2>2, <2>3, <2>4 DEF BenchmarksTypes, BenchmarksTypeOK, Items
<1>6. ASSUME BenchmarksTypes, Retitle \/ DeleteMessage \/ Reextract PROVE BenchmarksTypes'
  <2>1. results' = <<>> /\ report' = NoReport /\ UNCHANGED truth
    BY <1>6 DEF Retitle, DeleteMessage, Reextract, Edited
  <2>2. gone' \subseteq ItemMessages /\ chunked' \subseteq ItemTexts /\ vectors' \subseteq vectors
    BY <1>6 DEF Retitle, DeleteMessage, Reextract, BenchmarksTypes, BenchmarksTypeOK
  <2>3. Cardinality(DOMAIN truth) \in Nat
    BY <1>6, TruthIsFinite, FS_CardinalityType DEF BenchmarksTypes
  <2>4. results' \in Seq(Items)
    BY <2>1
  <2> QED BY <1>0, <1>6, <2>1, <2>2, <2>3, <2>4 DEF BenchmarksTypes, BenchmarksTypeOK, Items
<1>7. ASSUME BenchmarksTypes, UNCHANGED benchmarkVars PROVE BenchmarksTypes'
  BY <1>7 DEF benchmarkVars, BenchmarksTypes, BenchmarksTypeOK, Items
<1> QED BY <1>1, <1>2, <1>3, <1>4, <1>5, <1>6, <1>7 DEF BenchmarksNext

(* The best of some labels weighs something if one of them does, and then  *)
(* it weighs as much as one of them.                                       *)
LEMMA BestWeight ==
    ASSUME truth = <<>> \/ truth \in Truths, NEW labels
    PROVE  /\ MaxWeight(labels) \in Nat
           /\ MaxWeight(labels) > 0 <=> \E l \in labels \intersect DOMAIN truth : truth[l] > 0
           /\ MaxWeight(labels) > 0 => \E l \in labels \intersect DOMAIN truth : truth[l] = MaxWeight(labels)
<1> DEFINE known == labels \intersect DOMAIN truth
           weights == {0} \union {truth[l] : l \in known}
<1>1. IsFiniteSet(known) /\ \A l \in known : truth[l] \in Nat
  <2>1. known \in SUBSET (DOMAIN truth)
    OBVIOUS
  <2>2. IsFiniteSet(known)
    BY <2>1, TruthIsFinite, FS_Subset
  <2> QED BY <2>2, TruthIsFinite
<1>2. IsFiniteSet({truth[l] : l \in known})
  <2> DEFINE image == {truth[l] : l \in known}
             weigh == [l \in known |-> truth[l]]
  <2>1. weigh \in [known -> image] /\ \A w \in image : \E l \in known : weigh[l] = w
    OBVIOUS
  <2> HIDE DEF known, image, weigh
  <2>2. weigh \in Surjection(known, image)
    BY <2>1 DEF Surjection
  <2>3. IsFiniteSet(image)
    BY <1>1, <2>2, FS_Surjection
  <2> QED BY <2>3 DEF image
<1>3. IsFiniteSet(weights) /\ weights \in SUBSET Nat /\ weights \in SUBSET Int /\ weights # {}
  <2>1. IsFiniteSet({0})
    BY FS_Singleton
  <2>2. IsFiniteSet(weights)
    BY <1>2, <2>1, FS_Union
  <2> HIDE DEF known
  <2> QED BY <1>1, <2>2
<1>4. \E w \in weights : \A v \in weights : v <= w
  <2> HIDE DEF weights
  <2> QED BY <1>3, MostAndLeast
<1> PICK w : w = MaxWeight(labels)
  OBVIOUS
<1>5. w \in weights /\ \A v \in weights : v <= w
  <2>1. w = CHOOSE x \in weights : \A v \in weights : v <= x
    BY DEF MaxWeight
  <2> HIDE DEF weights
  <2> QED BY <1>4, <2>1
<1> HIDE DEF known
<1>6. ASSUME w > 0 PROVE \E l \in known : truth[l] > 0
  BY <1>5, <1>6
<1>7. ASSUME NEW l \in known, truth[l] > 0 PROVE w > 0
  <2>1. truth[l] \in weights /\ truth[l] \in Int /\ w \in Int
    BY <1>1, <1>3, <1>5
  <2>2. truth[l] <= w
    BY <1>5, <2>1
  <2> QED BY <1>7, <2>1, <2>2
<1>8. ASSUME w > 0 PROVE \E l \in known : truth[l] = w
  BY <1>5, <1>8
<1>9. w \in Nat
  BY <1>3, <1>5
<1> QED BY <1>6, <1>7, <1>8, <1>9 DEF known

LeastOf(S) == IF S = {} THEN 0 ELSE CHOOSE j \in S : \A h \in S : j <= h

LEMMA LeastFacts ==
    ASSUME NEW n \in Nat, NEW S \in SUBSET (1 .. n)
    PROVE  /\ S = {} => LeastOf(S) = 0
           /\ S # {} => LeastOf(S) \in S /\ \A h \in S : LeastOf(S) <= h
<1>1. ASSUME S # {} PROVE LeastOf(S) \in S /\ \A h \in S : LeastOf(S) <= h
  <2>1. IsFiniteSet(S) /\ S \in SUBSET Int
    <3>1. IsFiniteSet(1 .. n)
      BY FS_Interval
    <3>2. IsFiniteSet(S)
      BY <3>1, FS_Subset
    <3> QED BY <3>2
  <2>2. \E j \in S : \A h \in S : j <= h
    BY <1>1, <2>1, MostAndLeast
  <2> QED BY <1>1, <2>2 DEF LeastOf
<1> QED BY <1>1 DEF LeastOf

(* Two rows answer to a label of one another's only if they are the same.  *)
LEMMA LabelsTell ==
    ASSUME NEW i \in Items, NEW k \in Items
    PROVE  ResultLabels(k) \intersect MatchLabels(i) # {} <=> k = i
<1>1. ASSUME NEW l, l \in MatchLabels(k), l \in MatchLabels(i) PROVE k = i
  <2>1. ASSUME NEW j, j \in {i, k}
        PROVE  l \in MatchLabels(j) => l = <<"own", j>> \/ l = <<titles[j], j>>
    BY DEF MatchLabels, RowLabels, OwnLabel, TitleLabel
  <2> QED BY <1>1, <2>1
<1>2. OwnLabel(i) \in MatchLabels(i)
  BY DEF MatchLabels, RowLabels
<1>3. ResultLabels(k) = MatchLabels(k)
  BY DEF ResultLabels
<1> QED BY <1>1, <1>2, <1>3

(* The first row that counts as a hit is where the diagnostics rank the    *)
(* best placed label with a weight, whatever was found, as long as every   *)
(* label names something (benchmark_profile_diagnostics).                  *)
LEMMA FirstHitIsRanked == BenchmarksTypes => DiagnosticsAgree
<1> SUFFICES ASSUME BenchmarksTypes, Unresolved = {}
             PROVE  LET ranked == {TargetRank(l) : l \in {k \in DOMAIN truth : truth[k] > 0}} \ {0}
                        first == FirstHit(RowRelevances, Len(results))
                    IN  IF ranked = {} THEN first = 0 ELSE first \in ranked /\ \A r \in ranked : first <= r
  BY DEF DiagnosticsAgree
<1> PICK n : n = Len(results)
  OBVIOUS
<1> DEFINE weighed == {k \in DOMAIN truth : truth[k] > 0}
           spots(l) == {j \in 1 .. n : results[j] \in Resolve(l)}
           hits == {j \in 1 .. n : \E l \in weighed : results[j] \in Resolve(l)}
<1>1. /\ results \in Seq(Items) /\ DOMAIN results = 1 .. n /\ n \in Nat
      /\ \A j \in 1 .. n : results[j] \in Items
      /\ truth = <<>> \/ truth \in Truths
  BY DEF BenchmarksTypes
<1>2. ASSUME NEW l \in DOMAIN truth, NEW i \in Items
      PROVE  l \in RowLabels(i) <=> i \in Resolve(l)
  <2>1. Resolve(l) # {}
    BY <1>2 DEF Unresolved
  <2> QED BY <2>1 DEF Resolve
<1>3. FirstHit(RowRelevances, Len(results)) = LeastOf(hits)
  <2>1. ASSUME NEW j \in 1 .. n
        PROVE  RowRelevances[j] > 0 <=> \E l \in weighed : results[j] \in Resolve(l)
    <3>1. RowRelevances[j] = MaxWeight(RowLabels(results[j]))
      BY <1>1 DEF RowRelevances
    <3>2. RowRelevances[j] > 0 <=> \E l \in RowLabels(results[j]) \intersect DOMAIN truth : truth[l] > 0
      BY <1>1, <3>1, BestWeight
    <3> QED BY <1>1, <1>2, <3>2
  <2>2. DOMAIN RowRelevances = 1 .. n
    BY <1>1 DEF RowRelevances
  <2>3. {j \in DOMAIN RowRelevances : j <= Len(results) /\ RowRelevances[j] > 0} = hits
    <3>1. \A j \in 1 .. n : j <= Len(results)
      BY <1>1
    <3> HIDE DEF weighed
    <3> QED BY <2>1, <2>2, <3>1
  <2>4. FirstHit(RowRelevances, Len(results))
        = LeastOf({j \in DOMAIN RowRelevances : j <= Len(results) /\ RowRelevances[j] > 0})
    BY DEF FirstHit, LeastOf
  <2> HIDE DEF hits
  <2> QED BY <2>3, <2>4
<1>4. ASSUME NEW l \in DOMAIN truth PROVE TargetRank(l) = LeastOf(spots(l))
  <2> DEFINE wanted == UNION {MatchLabels(i) : i \in Resolve(l)}
  <2>1. Resolve(l) \subseteq Items
    BY DEF Resolve
  <2>2. ASSUME NEW j \in 1 .. n
        PROVE  ResultLabels(results[j]) \intersect wanted # {} <=> results[j] \in Resolve(l)
    <3>1. ResultLabels(results[j]) \intersect wanted # {}
          <=> \E i \in Resolve(l) : ResultLabels(results[j]) \intersect MatchLabels(i) # {}
      OBVIOUS
    <3>2. \A i \in Resolve(l) : ResultLabels(results[j]) \intersect MatchLabels(i) # {} <=> results[j] = i
      BY <1>1, <2>1, LabelsTell
    <3> HIDE DEF wanted
    <3> QED BY <3>1, <3>2
  <2>3. {j \in DOMAIN results : ResultLabels(results[j]) \intersect wanted # {}} = spots(l)
    <3> HIDE DEF wanted
    <3> QED BY <1>1, <2>2
  <2>4. TargetRank(l) = LeastOf({j \in DOMAIN results : ResultLabels(results[j]) \intersect wanted # {}})
    BY DEF TargetRank, LeastOf
  <2> HIDE DEF spots, wanted
  <2> QED BY <2>3, <2>4
<1> PICK ranked : ranked = {LeastOf(spots(l)) : l \in weighed} \ {0}
  OBVIOUS
<1>5. ranked = {TargetRank(l) : l \in weighed} \ {0}
  <2> HIDE DEF spots
  <2> QED BY <1>4
<1>6. \A l \in weighed : /\ spots(l) = {} => LeastOf(spots(l)) = 0
                         /\ spots(l) # {} => LeastOf(spots(l)) \in spots(l) /\ \A h \in spots(l) : LeastOf(spots(l)) <= h
  <2>1. \A l \in weighed : spots(l) \in SUBSET (1 .. n)
    OBVIOUS
  <2> HIDE DEF spots, weighed
  <2> QED BY <1>1, <2>1, LeastFacts
<1>7. /\ hits = {} => LeastOf(hits) = 0
      /\ hits # {} => LeastOf(hits) \in hits /\ \A h \in hits : LeastOf(hits) <= h
  <2>1. hits \in SUBSET (1 .. n)
    OBVIOUS
  <2> HIDE DEF hits
  <2> QED BY <1>1, <2>1, LeastFacts
<1>8. /\ \A l \in weighed : \A j \in spots(l) : j \in hits
      /\ \A j \in hits : \E l \in weighed : j \in spots(l)
      /\ \A j \in hits : j \in Nat /\ j # 0
  OBVIOUS
<1> PICK first : first = LeastOf(hits)
  OBVIOUS
<1> HIDE DEF spots, hits
<1>9. \A r \in ranked : r \in hits
  BY <1>6, <1>8
<1>10. CASE hits = {}
  <2>1. ranked = {} /\ first = 0
    BY <1>7, <1>9, <1>10
  <2> QED BY <1>3, <1>5, <2>1
<1>11. CASE hits # {}
  <2>1. first \in hits /\ \A h \in hits : first <= h
    BY <1>7, <1>11
  <2>2. PICK l \in weighed : first \in spots(l)
    BY <1>8, <2>1
  <2>3. LeastOf(spots(l)) \in spots(l) /\ LeastOf(spots(l)) <= first
    BY <1>6, <2>2
  <2>4. LeastOf(spots(l)) \in hits
    BY <1>8, <2>3
  <2>5. LeastOf(spots(l)) = first /\ first # 0
    BY <1>8, <2>1, <2>3, <2>4
  <2>6. first \in ranked /\ \A r \in ranked : first <= r
    BY <1>9, <2>1, <2>5
  <2> QED BY <1>3, <1>5, <2>6
<1> QED BY <1>10, <1>11

(* A report never counts more labels than the dataset has, and what is     *)
(* embedded are items, for models there are (dataset_report).              *)
THEOREM BenchmarksTypeCorrect == BenchmarksSpec => []BenchmarksTypeOK
<1>1. BenchmarksTypes => BenchmarksTypeOK
  BY DEF BenchmarksTypes
<1> QED BY <1>1, BenchmarksTyped, PTL DEF BenchmarksSpec

(* The first row that counts as a hit is where the diagnostics rank the    *)
(* best placed label with a weight, for any dataset whose labels all name  *)
(* something and whatever was found (benchmark_profile_diagnostics).       *)
THEOREM DiagnosticsAlwaysAgree == BenchmarksSpec => []DiagnosticsAgree
BY BenchmarksTyped, FirstHitIsRanked, PTL DEF BenchmarksSpec

-----------------------------------------------------------------------------
(* Benchmarks: what a search scores.  The places of a list are given to    *)
(* labels of the dataset, each to one at most; of all ways to do so the    *)
(* best in order is worth the most.                                        *)

LEMMA PowersRise ==
    ASSUME NEW v \in Nat, NEW w \in Nat, v <= w
    PROVE  Gain(v) \in Nat /\ Gain(w) \in Nat /\ Gain(v) <= Gain(w)
<1>1. ASSUME NEW n \in Nat
      PROVE  IsFiniteSet(SUBSET (1 .. n)) /\ 2^n = Cardinality(SUBSET (1 .. n))
  <2>1. IsFiniteSet(1 .. n) /\ Cardinality(1 .. n) = n
    BY FS_Interval
  <2> QED BY <2>1, FS_SUBSET
<1>2. ASSUME NEW n \in Nat PROVE Cardinality(SUBSET (1 .. n)) \in Nat /\ Cardinality(SUBSET (1 .. n)) # 0
  <2>1. {} \in SUBSET (1 .. n)
    OBVIOUS
  <2>2. SUBSET (1 .. n) # {}
    BY <2>1
  <2> QED BY <1>1, <2>2, FS_CardinalityType, FS_EmptySet
<1>3. Cardinality(SUBSET (1 .. v)) <= Cardinality(SUBSET (1 .. w))
  <2>1. 1 .. v \subseteq 1 .. w
    OBVIOUS
  <2>2. SUBSET (1 .. v) \in SUBSET (SUBSET (1 .. w))
    BY <2>1
  <2> QED BY <1>1, <2>2, FS_Subset
<1>4. 2^v = Cardinality(SUBSET (1 .. v)) /\ 2^w = Cardinality(SUBSET (1 .. w))
  BY <1>1
<1>5. /\ Cardinality(SUBSET (1 .. v)) \in Nat /\ Cardinality(SUBSET (1 .. v)) # 0
      /\ Cardinality(SUBSET (1 .. w)) \in Nat /\ Cardinality(SUBSET (1 .. w)) # 0
  BY <1>2
<1>6. Gain(v) = Cardinality(SUBSET (1 .. v)) - 1 /\ Gain(w) = Cardinality(SUBSET (1 .. w)) - 1
  BY <1>4 DEF Gain
<1> QED BY <1>3, <1>5, <1>6

LEMMA NothingGained == Gain(0) = 0
<1>1. IsFiniteSet(1 .. 0) /\ Cardinality(1 .. 0) = 0
  BY FS_Interval
<1>2. Cardinality(SUBSET (1 .. 0)) = 2^0
  BY <1>1, FS_SUBSET
<1>3. SUBSET (1 .. 0) = {{}}
  OBVIOUS
<1>4. Cardinality({{}}) = 1
  BY FS_Singleton
<1>5. 2^0 = 1
  BY <1>2, <1>3, <1>4
<1> QED BY <1>5 DEF Gain

(* The score of a list, its first places padded with nothing.              *)
Scored(rels) == [i \in 1 .. TopK |-> IF i <= Len(rels) THEN Gain(rels[i]) * Discount[i] ELSE 0]

LEMMA DcgPadded ==
    ASSUME NEW rels \in Seq(Nat)
    PROVE  Dcg(TopOf(rels)) = Total(Scored(rels), TopK)
<1> DEFINE n == IF TopK < Len(rels) THEN TopK ELSE Len(rels)
           s == [j \in 1 .. n |-> Gain(rels[j]) * Discount[j]]
<1>1. /\ TopK \in Nat /\ n \in Nat /\ n <= TopK /\ n <= Len(rels)
      /\ \A i \in 1 .. TopK : i <= Len(rels) <=> i <= n
  BY BenchmarksAssumption
<1> PICK top : top = TopOf(rels)
  OBVIOUS
<1>2. top = SubSeq(rels, 1, n)
  BY DEF TopOf
<1> HIDE DEF n
<1>3. Len(top) = n /\ DOMAIN top = 1 .. n /\ \A j \in 1 .. n : top[j] = rels[j]
  BY <1>1, <1>2
<1>4. [j \in DOMAIN top |-> Gain(top[j]) * Discount[j]] = s
  BY <1>3
<1>5. Dcg(top) = Total(s, n)
  BY <1>3, <1>4 DEF Dcg
<1>6. \A i \in 1 .. n : s[i] = Gain(rels[i]) * Discount[i] /\ s[i] \in Int
  <2> SUFFICES ASSUME NEW i \in 1 .. n PROVE s[i] = Gain(rels[i]) * Discount[i] /\ s[i] \in Int
    OBVIOUS
  <2>1. rels[i] \in Nat /\ i \in 1 .. TopK
    BY <1>1
  <2>2. Gain(rels[i]) \in Nat
    <3>1. rels[i] <= rels[i]
      BY <2>1
    <3> QED BY <2>1, <3>1, PowersRise
  <2>3. Discount[i] \in Nat
    BY <2>1, BenchmarksAssumption
  <2>4. Gain(rels[i]) * Discount[i] \in Int
    BY <2>2, <2>3
  <2> QED BY <2>4
<1> HIDE DEF s
<1>7. \A i \in 1 .. TopK : Scored(rels)[i] = IF i <= n THEN s[i] ELSE 0
  BY <1>1, <1>6 DEF Scored
<1>8. Total(Scored(rels), TopK) = Total(s, n)
  BY <1>1, <1>6, <1>7, TotalPadded
<1> QED BY <1>5, <1>8

(* The labels of the dataset, the heaviest first.                          *)
Descending(s) ==
    /\ s \in [1 .. Cardinality(DOMAIN truth) -> DOMAIN truth]
    /\ \A i, j \in DOMAIN s : i < j =>
        (truth[s[i]] > truth[s[j]] \/ (truth[s[i]] = truth[s[j]] /\ s[i] # s[j]))

LEMMA OrderExists ==
    ASSUME truth = <<>> \/ truth \in Truths
    PROVE  \E s : Descending(s)
<1> DEFINE D == DOMAIN truth
<1>1. IsFiniteSet(D) /\ \A l \in D : truth[l] \in Nat
  BY TruthIsFinite
<1>2. \E rank \in [D -> Nat] : \A x, y \in D : rank[x] = rank[y] => x = y
  <2> HIDE DEF D
  <2>1. PICK n \in Nat : ExistsBijection(1 .. n, D)
    BY <1>1, FS_NatBijection
  <2>2. PICK f \in [1 .. n -> D] : \A x \in D : \E i \in 1 .. n : f[i] = x
    BY <2>1 DEF ExistsBijection, Bijection, Surjection
  <2> DEFINE rank == [x \in D |-> CHOOSE i \in 1 .. n : f[i] = x]
  <2>3. \A x \in D : rank[x] \in 1 .. n /\ f[rank[x]] = x
    BY <2>2
  <2>4. rank \in [D -> Nat]
    <3>1. \A x \in D : rank[x] \in Nat
      BY <2>3
    <3> QED BY <3>1
  <2> HIDE DEF rank
  <2> QED BY <2>3, <2>4
<1>3. PICK rank \in [D -> Nat] : \A x, y \in D : rank[x] = rank[y] => x = y
  BY <1>2
<1> DEFINE R == {p \in D \X D : truth[p[1]] > truth[p[2]]
                                \/ (truth[p[1]] = truth[p[2]] /\ rank[p[1]] < rank[p[2]])}
<1>4. \A x, y \in D : <<x, y>> \in R
        <=> truth[x] > truth[y] \/ (truth[x] = truth[y] /\ rank[x] < rank[y])
  OBVIOUS
<1> HIDE DEF R, D
<1>5. \A x \in D : truth[x] \in Int /\ rank[x] \in Int
  BY <1>1, <1>3
<1>6. Orders(R, D)
  <2>1. \A x \in D : <<x, x>> \notin R
    BY <1>4, <1>5
  <2>2. \A x, y, z \in D : <<x, y>> \in R /\ <<y, z>> \in R => <<x, z>> \in R
    BY <1>4, <1>5
  <2>3. ASSUME NEW x \in D, NEW y \in D, x # y PROVE <<x, y>> \in R \/ <<y, x>> \in R
    <3>1. /\ truth[x] \in Int /\ rank[x] \in Int /\ truth[y] \in Int /\ rank[y] \in Int
          /\ rank[x] # rank[y]
      BY <1>3, <1>5, <2>3
    <3>2. \/ truth[x] > truth[y] \/ truth[y] > truth[x]
          \/ (truth[x] = truth[y] /\ (rank[x] < rank[y] \/ rank[y] < rank[x]))
      BY <3>1
    <3> QED BY <1>4, <3>2
  <2> QED BY <1>1, <2>1, <2>2, <2>3 DEF Orders
<1> DEFINE s == InPlaces(D, R)
<1>7. /\ s \in Seq(D) /\ Cardinality(D) \in Nat /\ Len(s) = Cardinality(D)
      /\ \A i, j \in DOMAIN s : s[i] = s[j] => i = j
  BY <1>6, PlacesEnumerate DEF Enumerates
<1>8. \A i, j \in 1 .. Cardinality(D) : i < j => <<s[i], s[j]>> \in R
  BY <1>6, PlacesRise
<1> HIDE DEF s
<1>9. s \in [1 .. Cardinality(D) -> D]
  BY <1>7
<1>10. ASSUME NEW i \in DOMAIN s, NEW j \in DOMAIN s, i < j
       PROVE  truth[s[i]] > truth[s[j]] \/ (truth[s[i]] = truth[s[j]] /\ s[i] # s[j])
  <2>1. i \in 1 .. Cardinality(D) /\ j \in 1 .. Cardinality(D) /\ i # j /\ s[i] \in D /\ s[j] \in D
    BY <1>7, <1>9, <1>10
  <2>2. s[i] # s[j]
    BY <1>7, <2>1
  <2>3. <<s[i], s[j]>> \in R
    BY <1>8, <1>10, <2>1
  <2> QED BY <1>4, <2>1, <2>2, <2>3
<1>11. Descending(s)
  BY <1>9, <1>10 DEF Descending, D
<1> QED BY <1>11

LEMMA IdealIsInOrder ==
    ASSUME truth = <<>> \/ truth \in Truths
    PROVE  \E s : Descending(s) /\ Ideal = Dcg(TopOf([i \in DOMAIN s |-> truth[s[i]]]))
<1> DEFINE orders == {s \in [1 .. Cardinality(DOMAIN truth) -> DOMAIN truth] :
                        \A i, j \in DOMAIN s : i < j =>
                          (truth[s[i]] > truth[s[j]] \/ (truth[s[i]] = truth[s[j]] /\ s[i] # s[j]))}
           order == CHOOSE s \in orders : TRUE
<1>1. \A s : s \in orders <=> Descending(s)
  BY DEF Descending
<1>2. Ideal = Dcg(TopOf([i \in DOMAIN order |-> truth[order[i]]]))
  BY DEF Ideal
<1> HIDE DEF orders
<1>3. order \in orders
  BY <1>1, OrderExists
<1> HIDE DEF order
<1> QED BY <1>1, <1>2, <1>3

LEMMA DescendingFacts ==
    ASSUME truth = <<>> \/ truth \in Truths, NEW s, Descending(s), NEW m, m = Cardinality(DOMAIN truth)
    PROVE  /\ m \in Nat /\ s \in [1 .. m -> DOMAIN truth]
           /\ \A l \in DOMAIN truth : \E i \in 1 .. m : s[i] = l
           /\ \A i, j \in 1 .. m : i <= j => truth[s[j]] <= truth[s[i]]
<1>1. /\ IsFiniteSet(DOMAIN truth) /\ m \in Nat /\ s \in [1 .. m -> DOMAIN truth]
      /\ \A l \in DOMAIN truth : truth[l] \in Nat
  BY TruthIsFinite, FS_CardinalityType DEF Descending
<1>2. ASSUME NEW i \in 1 .. m, NEW j \in 1 .. m, i < j
      PROVE  s[i] # s[j] /\ truth[s[j]] <= truth[s[i]]
  <2>1. truth[s[i]] > truth[s[j]] \/ (truth[s[i]] = truth[s[j]] /\ s[i] # s[j])
    BY <1>1, <1>2 DEF Descending
  <2>2. truth[s[i]] \in Nat /\ truth[s[j]] \in Nat
    BY <1>1
  <2> QED BY <2>1, <2>2
<1>3. \A i, j \in 1 .. m : s[i] = s[j] => i = j
  <2>1. \A i, j \in 1 .. m : i = j \/ i < j \/ j < i
    BY <1>1
  <2> QED BY <1>2, <2>1
<1>4. \A l \in DOMAIN truth : \E i \in 1 .. m : s[i] = l
  <2>1. IsFiniteSet(1 .. m) /\ Cardinality(1 .. m) = m
    BY <1>1, FS_Interval
  <2>2. s \in Injection(1 .. m, DOMAIN truth)
    BY <1>1, <1>3 DEF Injection, IsInjective
  <2>3. s \in Surjection(1 .. m, DOMAIN truth)
    BY <1>1, <2>1, <2>2, FS_Injection
  <2> QED BY <2>3 DEF Surjection
<1>5. \A i, j \in 1 .. m : i <= j => truth[s[j]] <= truth[s[i]]
  <2> SUFFICES ASSUME NEW i \in 1 .. m, NEW j \in 1 .. m, i <= j PROVE truth[s[j]] <= truth[s[i]]
    OBVIOUS
  <2>1. CASE i = j
    <3>1. truth[s[j]] \in Nat
      BY <1>1
    <3> QED BY <2>1, <3>1
  <2>2. CASE i < j
    BY <1>2, <2>2
  <2>3. i = j \/ i < j
    BY <1>1
  <2> QED BY <2>1, <2>2, <2>3
<1> QED BY <1>1, <1>4, <1>5

(* What scores is a label of the dataset, each at one place at most.       *)
Labelled(rels, lab) ==
    /\ rels \in Seq(Nat)
    /\ \A i \in DOMAIN rels : rels[i] > 0 => lab[i] \in DOMAIN truth /\ truth[lab[i]] = rels[i]
    /\ \A i, j \in DOMAIN rels : rels[i] > 0 /\ rels[j] > 0 /\ lab[i] = lab[j] => i = j

LEMMA IdealBounds ==
    ASSUME truth = <<>> \/ truth \in Truths, NEW rels, NEW lab, Labelled(rels, lab)
    PROVE  Dcg(TopOf(rels)) <= Ideal
<1>1. PICK s : Descending(s) /\ Ideal = Dcg(TopOf([i \in DOMAIN s |-> truth[s[i]]]))
  BY IdealIsInOrder
<1> PICK m : m = Cardinality(DOMAIN truth)
  OBVIOUS
<1>2. /\ m \in Nat /\ s \in [1 .. m -> DOMAIN truth] /\ DOMAIN s = 1 .. m
      /\ \A l \in DOMAIN truth : \E i \in 1 .. m : s[i] = l
      /\ \A i, j \in 1 .. m : i <= j => truth[s[j]] <= truth[s[i]]
      /\ \A i \in 1 .. m : truth[s[i]] \in Nat
  <2>1. /\ m \in Nat /\ s \in [1 .. m -> DOMAIN truth]
        /\ \A l \in DOMAIN truth : \E i \in 1 .. m : s[i] = l
        /\ \A i, j \in 1 .. m : i <= j => truth[s[j]] <= truth[s[i]]
    BY <1>1, DescendingFacts
  <2>2. \A i \in 1 .. m : s[i] \in DOMAIN truth
    BY <2>1
  <2> QED BY <2>1, <2>2, TruthIsFinite
<1>3. TopK \in Nat /\ Falling(Discount, TopK)
  BY BenchmarksAssumption DEF Falling
<1> DEFINE best == [i \in 1 .. m |-> truth[s[i]]]
           h == [i \in 1 .. m + TopK |-> IF i <= m THEN Gain(truth[s[i]]) ELSE 0]
<1>4. best \in Seq(Nat) /\ Len(best) = m /\ \A i \in 1 .. m : best[i] = truth[s[i]]
  BY <1>2
<1>5. \A i \in 1 .. m + TopK : h[i] = IF i <= m THEN Gain(truth[s[i]]) ELSE 0
  OBVIOUS
<1>6. Ideal = Total(Scored(best), TopK)
  <2>1. Ideal = Dcg(TopOf(best))
    BY <1>1, <1>2
  <2> HIDE DEF best
  <2> QED BY <1>4, <2>1, DcgPadded
<1> HIDE DEF best, h
<1>7. Falling(h, m + TopK)
  <2>1. ASSUME NEW i \in 1 .. m + TopK PROVE h[i] \in Nat
    <3>1. CASE i <= m
      <4>1. i \in 1 .. m
        BY <1>2, <1>3, <3>1
      <4>2. truth[s[i]] \in Nat /\ truth[s[i]] <= truth[s[i]]
        BY <1>2, <4>1
      <4>3. Gain(truth[s[i]]) \in Nat
        BY <4>2, PowersRise
      <4> QED BY <1>5, <3>1, <4>3
    <3>2. CASE ~(i <= m)
      BY <1>5, <3>2
    <3> QED BY <3>1, <3>2
  <2>2. ASSUME NEW i \in 1 .. m + TopK, NEW j \in 1 .. m + TopK, i <= j PROVE h[j] <= h[i]
    <3>1. CASE j <= m
      <4>1. i \in 1 .. m /\ j \in 1 .. m /\ i <= m
        BY <1>2, <1>3, <2>2, <3>1
      <4>2. truth[s[i]] \in Nat /\ truth[s[j]] \in Nat /\ truth[s[j]] <= truth[s[i]]
        BY <1>2, <2>2, <4>1
      <4>3. Gain(truth[s[j]]) <= Gain(truth[s[i]])
        BY <4>2, PowersRise
      <4> QED BY <1>5, <3>1, <4>1, <4>3
    <3>2. CASE ~(j <= m)
      <4>1. h[j] = 0 /\ h[i] \in Nat
        BY <1>5, <2>1, <3>2
      <4> QED BY <4>1
    <3> QED BY <3>1, <3>2
  <2> QED BY <2>1, <2>2 DEF Falling
<1> DEFINE fills(i) == i <= Len(rels) /\ rels[i] > 0
<1>8. /\ rels \in Seq(Nat) /\ Len(rels) \in Nat
      /\ \A i \in 1 .. TopK : i <= Len(rels) => i \in DOMAIN rels /\ rels[i] \in Nat
  BY DEF Labelled
<1>9. \E a \in [1 .. TopK -> 1 .. m + TopK] :
        \A i \in 1 .. TopK : IF fills(i) THEN a[i] <= m /\ s[a[i]] = lab[i] ELSE a[i] = m + i
  <2> DEFINE a == [i \in 1 .. TopK |-> IF fills(i) THEN CHOOSE k \in 1 .. m : s[k] = lab[i] ELSE m + i]
  <2>1. ASSUME NEW i \in 1 .. TopK
        PROVE  /\ a[i] \in 1 .. m + TopK
               /\ IF fills(i) THEN a[i] <= m /\ s[a[i]] = lab[i] ELSE a[i] = m + i
    <3>1. CASE fills(i)
      <4>1. lab[i] \in DOMAIN truth
        BY <1>8, <3>1 DEF Labelled
      <4>2. \E k \in 1 .. m : s[k] = lab[i]
        BY <1>2, <4>1
      <4>3. a[i] = CHOOSE k \in 1 .. m : s[k] = lab[i]
        BY <3>1
      <4> HIDE DEF a
      <4>4. a[i] \in 1 .. m /\ s[a[i]] = lab[i]
        BY <4>2, <4>3
      <4>5. a[i] \in 1 .. m + TopK /\ a[i] <= m
        BY <1>2, <1>3, <4>4
      <4> HIDE DEF fills
      <4> QED BY <3>1, <4>4, <4>5
    <3>2. CASE ~fills(i)
      <4>1. a[i] = m + i
        BY <3>2
      <4>2. m + i \in 1 .. m + TopK
        BY <1>2, <1>3
      <4> HIDE DEF a, fills
      <4> QED BY <3>2, <4>1, <4>2
    <3> QED BY <3>1, <3>2
  <2>2. a \in [1 .. TopK -> 1 .. m + TopK]
    <3>1. a = [i \in 1 .. TopK |-> a[i]]
      OBVIOUS
    <3> HIDE DEF a
    <3> QED BY <2>1, <3>1
  <2> HIDE DEF a, fills
  <2> QED BY <2>1, <2>2
<1>10. PICK a \in [1 .. TopK -> 1 .. m + TopK] :
        \A i \in 1 .. TopK : IF fills(i) THEN a[i] <= m /\ s[a[i]] = lab[i] ELSE a[i] = m + i
  BY <1>9
<1>11. OneToOne(a, TopK, m + TopK)
  <2>1. ASSUME NEW i \in 1 .. TopK, NEW j \in 1 .. TopK, a[i] = a[j] PROVE i = j
    <3>1. CASE fills(i) /\ fills(j)
      <4>1. lab[i] = lab[j]
        BY <1>10, <2>1, <3>1
      <4> QED BY <1>8, <3>1, <4>1 DEF Labelled
    <3>2. CASE ~fills(i) /\ ~fills(j)
      <4>1. m + i = m + j
        BY <1>10, <2>1, <3>2
      <4> QED BY <1>2, <4>1
    <3>3. CASE fills(i) /\ ~fills(j)
      <4>1. a[i] <= m /\ a[j] = m + j
        BY <1>10, <3>3
      <4> QED BY <1>2, <2>1, <4>1
    <3>4. CASE ~fills(i) /\ fills(j)
      <4>1. a[j] <= m /\ a[i] = m + i
        BY <1>10, <3>4
      <4> QED BY <1>2, <2>1, <4>1
    <3> HIDE DEF fills
    <3> QED BY <3>1, <3>2, <3>3, <3>4
  <2> HIDE DEF fills
  <2> QED BY <2>1 DEF OneToOne
<1>12. Worth(h, Discount, a, TopK) = Scored(rels)
  <2>1. ASSUME NEW i \in 1 .. TopK
        PROVE  h[a[i]] * Discount[i] = IF i <= Len(rels) THEN Gain(rels[i]) * Discount[i] ELSE 0
    <3>0. a[i] \in 1 .. m + TopK /\ Discount[i] \in Nat
      BY <1>3 DEF Falling
    <3>1. CASE fills(i)
      <4>1. a[i] <= m /\ s[a[i]] = lab[i] /\ truth[lab[i]] = rels[i]
        BY <1>8, <1>10, <3>1 DEF Labelled
      <4>2. h[a[i]] = Gain(rels[i])
        BY <1>5, <3>0, <4>1
      <4> QED BY <3>1, <4>2
    <3>2. CASE ~fills(i)
      <4>1. a[i] = m + i /\ ~(a[i] <= m)
        BY <1>2, <1>10, <3>2
      <4>2. h[a[i]] = 0
        BY <1>5, <3>0, <4>1
      <4>3. i <= Len(rels) => rels[i] = 0
        BY <1>8, <3>2
      <4>4. 0 * Discount[i] = 0
        BY <3>0
      <4>5. i <= Len(rels) => Gain(rels[i]) = 0
        BY <4>3, NothingGained
      <4> QED BY <4>2, <4>4, <4>5
    <3> QED BY <3>1, <3>2
  <2> HIDE DEF fills
  <2> QED BY <2>1 DEF Worth, Scored
<1>13. [i \in 1 .. TopK |-> h[i] * Discount[i]] = Scored(best)
  <2>1. ASSUME NEW i \in 1 .. TopK
        PROVE  h[i] * Discount[i] = IF i <= Len(best) THEN Gain(best[i]) * Discount[i] ELSE 0
    <3>0. i \in 1 .. m + TopK /\ Discount[i] \in Nat
      BY <1>2, <1>3 DEF Falling
    <3>1. CASE i <= m
      <4>1. i \in 1 .. m
        BY <1>2, <3>1
      <4>2. h[i] = Gain(best[i])
        BY <1>4, <1>5, <3>0, <3>1, <4>1
      <4> QED BY <1>4, <3>1, <4>2
    <3>2. CASE ~(i <= m)
      <4>1. h[i] = 0
        BY <1>5, <3>0, <3>2
      <4>2. 0 * Discount[i] = 0
        BY <3>0
      <4> QED BY <1>4, <3>2, <4>1, <4>2
    <3> QED BY <3>1, <3>2
  <2> QED BY <2>1 DEF Scored
<1>14. Total(Worth(h, Discount, a, TopK), TopK) <= Total([i \in 1 .. TopK |-> h[i] * Discount[i]], TopK)
  <2>1. m + TopK \in Nat /\ TopK <= m + TopK
    BY <1>2, <1>3
  <2> QED BY <1>3, <1>7, <1>11, <2>1, BestInOrder
<1>15. Dcg(TopOf(rels)) = Total(Scored(rels), TopK)
  BY <1>8, DcgPadded
<1> QED BY <1>6, <1>12, <1>13, <1>14, <1>15

(* No label of the dataset names two of the rows that were found.          *)
OneRowEach == \A l \in DOMAIN truth : Cardinality({j \in DOMAIN results : l \in RowLabels(results[j])}) <= 1

LEMMA OneRowOnly ==
    ASSUME BenchmarksTypes, OneRowEach, NEW l \in DOMAIN truth,
           NEW i \in DOMAIN results, NEW j \in DOMAIN results,
           l \in RowLabels(results[i]), l \in RowLabels(results[j])
    PROVE  i = j
<1> DEFINE S == {k \in DOMAIN results : l \in RowLabels(results[k])}
<1>1. Cardinality(S) <= 1 /\ i \in S /\ j \in S
  BY DEF OneRowEach
<1>2. DOMAIN results = 1 .. Len(results) /\ Len(results) \in Nat
  BY DEF BenchmarksTypes
<1>3. IsFiniteSet(S)
  <2>1. IsFiniteSet(1 .. Len(results)) /\ S \in SUBSET (1 .. Len(results))
    BY <1>2, FS_Interval
  <2> QED BY <2>1, FS_Subset
<1> HIDE DEF S
<1> SUFFICES ASSUME i # j PROVE FALSE
  OBVIOUS
<1>4. IsFiniteSet({i}) /\ Cardinality({i}) = 1
  BY FS_Singleton
<1>5. Cardinality({i} \union {j}) = 2
  <2>1. j \notin {i}
    OBVIOUS
  <2>2. Cardinality({i} \union {j}) = Cardinality({i}) + 1
    BY <1>4, <2>1, FS_AddElement
  <2> QED BY <1>4, <2>2
<1>6. Cardinality({i} \union {j}) <= Cardinality(S) /\ Cardinality(S) \in Nat
  <2>1. {i} \union {j} \in SUBSET S
    BY <1>1
  <2> QED BY <1>3, <2>1, FS_Subset, FS_CardinalityType
<1> QED BY <1>1, <1>5, <1>6

LEMMA RowsLabelled ==
    ASSUME BenchmarksTypes, OneRowEach
    PROVE  \E lab : Labelled(RowRelevances, lab)
<1> PICK n : n = Len(results)
  OBVIOUS
<1>1. /\ DOMAIN results = 1 .. n /\ n \in Nat /\ (truth = <<>> \/ truth \in Truths)
  BY DEF BenchmarksTypes
<1> DEFINE rels == RowRelevances
           among(j) == RowLabels(results[j]) \intersect DOMAIN truth
           lab == [j \in 1 .. n |-> CHOOSE l \in among(j) : truth[l] = rels[j]]
<1>2. \A j \in 1 .. n : /\ rels[j] \in Nat
                        /\ rels[j] > 0 => \E l \in among(j) : truth[l] = rels[j]
  <2> SUFFICES ASSUME NEW j \in 1 .. n
               PROVE  rels[j] \in Nat /\ (rels[j] > 0 => \E l \in among(j) : truth[l] = rels[j])
    OBVIOUS
  <2>1. rels[j] = MaxWeight(RowLabels(results[j]))
    BY <1>1 DEF RowRelevances
  <2> QED BY <1>1, <2>1, BestWeight
<1>3. rels \in Seq(Nat) /\ DOMAIN rels = 1 .. n
  <2>1. rels = [j \in 1 .. n |-> rels[j]]
    BY <1>1 DEF RowRelevances
  <2> HIDE DEF rels
  <2>2. rels \in [1 .. n -> Nat]
    BY <1>2, <2>1
  <2> QED BY <1>1, <2>2, SequencesAreFunctions
<1>4. \A j \in 1 .. n : lab[j] = CHOOSE l \in among(j) : truth[l] = rels[j]
  OBVIOUS
<1> HIDE DEF rels, lab
<1>5. \A j \in 1 .. n : rels[j] > 0 => lab[j] \in among(j) /\ truth[lab[j]] = rels[j]
  <2> HIDE DEF among
  <2> QED BY <1>2, <1>4
<1>6. ASSUME NEW i \in 1 .. n, NEW j \in 1 .. n, rels[i] > 0, rels[j] > 0, lab[i] = lab[j] PROVE i = j
  <2>1. /\ lab[i] \in DOMAIN truth /\ lab[i] \in RowLabels(results[i])
        /\ lab[i] \in RowLabels(results[j])
    BY <1>5, <1>6
  <2> QED BY <1>1, <2>1, OneRowOnly
<1>7. Labelled(rels, lab)
  BY <1>3, <1>5, <1>6 DEF Labelled
<1> QED BY <1>7 DEF rels

(* The label that a row answers to at its k-th place.                      *)
LabelAt(i, k) == IF k = 1 THEN OwnLabel(i) ELSE TitleLabel(i)

LEMMA LabelsAreAnswered ==
    ASSUME NEW i
    PROVE  /\ LabelAt(i, 1) \in RowLabels(i)
           /\ titles[i] # Untitled => LabelAt(i, 2) \in RowLabels(i)
BY DEF LabelAt, RowLabels

LEMMA OnesJoined ==
    ASSUME NEW S, NEW a \in S, NEW b \in S
    PROVE  <<a>> \o <<>> = <<a>> /\ <<a>> \o <<b>> = <<a, b>>
<1>1. <<a>> \in Seq(S) /\ <<b>> \in Seq(S) /\ <<>> \in Seq(S) /\ <<a, b>> \in Seq(S)
  OBVIOUS
<1>2. <<a>> \o <<>> = <<a>>
  BY <1>1
<1>3. <<a>> \o <<b>> \in Seq(S) /\ Len(<<a>> \o <<b>>) = 2
  BY <1>1
<1>4. (<<a>> \o <<b>>)[1] = a /\ (<<a>> \o <<b>>)[2] = b
  BY <1>1
<1>5. <<a, b>> = [i \in 1 .. 2 |-> <<a, b>>[i]]
  OBVIOUS
<1>6. <<a>> \o <<b>> = [i \in 1 .. 2 |-> (<<a>> \o <<b>>)[i]]
  BY <1>3, SequencesAreFunctions
<1>7. \A i \in 1 .. 2 : (<<a>> \o <<b>>)[i] = <<a, b>>[i]
  <2>1. \A i \in 1 .. 2 : i = 1 \/ i = 2
    OBVIOUS
  <2> QED BY <1>4, <2>1
<1> QED BY <1>2, <1>5, <1>6, <1>7

LEMMA PlacesTyped ==
    ASSUME truth = <<>> \/ truth \in Truths, NEW i
    PROVE  /\ Places(i) \in Seq(Nat) /\ Len(Places(i)) = IF titles[i] = Untitled THEN 1 ELSE 2
           /\ \A k \in 1 .. Len(Places(i)) : Places(i)[k] = MaxWeight({LabelAt(i, k)})
<1> DEFINE first == MaxWeight({OwnLabel(i)})
           second == MaxWeight({TitleLabel(i)})
<1>1. first \in Nat /\ second \in Nat
  BY BestWeight
<1>2. LabelAt(i, 1) = OwnLabel(i) /\ LabelAt(i, 2) = TitleLabel(i)
  BY DEF LabelAt
<1>3. Places(i) = IF titles[i] = Untitled THEN <<first>> \o <<>> ELSE <<first>> \o <<second>>
  BY DEF Places
<1>4. first = MaxWeight({LabelAt(i, 1)}) /\ second = MaxWeight({LabelAt(i, 2)})
  BY <1>2
<1> HIDE DEF first, second
<1>5. CASE titles[i] = Untitled
  <2>1. Places(i) = <<first>>
    BY <1>1, <1>3, <1>5, OnesJoined
  <2>2. Places(i) \in Seq(Nat) /\ Len(Places(i)) = 1 /\ Places(i)[1] = first
    BY <1>1, <2>1
  <2> QED BY <1>4, <1>5, <2>2
<1>6. CASE titles[i] # Untitled
  <2>1. Places(i) = <<first, second>>
    BY <1>1, <1>3, <1>6, OnesJoined
  <2>2. Places(i) \in Seq(Nat) /\ Len(Places(i)) = 2 /\ Places(i)[1] = first /\ Places(i)[2] = second
    BY <1>1, <2>1
  <2>3. \A k \in 1 .. 2 : k = 1 \/ k = 2
    OBVIOUS
  <2> QED BY <1>4, <1>6, <2>2, <2>3
<1> QED BY <1>5, <1>6

(* Places read from the first n rows: which row each comes from, not one   *)
(* further down, and at which place of it.                                 *)
Reads(rels, src, n) ==
    /\ rels \in Seq(Nat) /\ n <= Len(rels)
    /\ \A p \in 1 .. Len(rels) :
        /\ src[p][1] \in 1 .. n /\ src[p][1] <= p
        /\ src[p][2] \in 1 .. Len(Places(results[src[p][1]]))
        /\ rels[p] = Places(results[src[p][1]])[src[p][2]]
    /\ \A p, q \in 1 .. Len(rels) : src[p][1] = src[q][1] /\ src[p][2] = src[q][2] => p = q

(* One row more has its places after the others.                           *)
LEMMA OneRowMore ==
    ASSUME truth = <<>> \/ truth \in Truths, NEW n \in Nat, n # 0, NEW i, results[n] = i,
           NEW rels, NEW src, Reads(rels, src, n - 1)
    PROVE  \E more : Reads(rels \o Places(i), more, n)
<1> PICK L, K : L = Len(rels) /\ K = Len(Places(i))
  OBVIOUS
<1>1. /\ L \in Nat /\ n - 1 <= L /\ rels \in Seq(Nat)
      /\ \A p, q \in 1 .. L : src[p][1] = src[q][1] /\ src[p][2] = src[q][2] => p = q
  BY DEF Reads
<1>2. ASSUME NEW p \in 1 .. L
      PROVE  /\ src[p][1] \in 1 .. n /\ src[p][1] # n /\ src[p][1] <= p
             /\ src[p][2] \in 1 .. Len(Places(results[src[p][1]]))
             /\ rels[p] = Places(results[src[p][1]])[src[p][2]]
  <2>1. /\ src[p][1] \in 1 .. n - 1 /\ src[p][1] <= p
        /\ src[p][2] \in 1 .. Len(Places(results[src[p][1]]))
        /\ rels[p] = Places(results[src[p][1]])[src[p][2]]
    BY DEF Reads
  <2>2. \A x \in 1 .. n - 1 : x \in 1 .. n /\ x # n
    OBVIOUS
  <2> QED BY <2>1, <2>2
<1>3. Places(i) \in Seq(Nat) /\ K \in Nat /\ K # 0
  <2>1. Places(i) \in Seq(Nat) /\ (Len(Places(i)) = 1 \/ Len(Places(i)) = 2)
    BY PlacesTyped
  <2> QED BY <2>1
<1> DEFINE more == [p \in 1 .. L + K |-> IF p <= L THEN src[p] ELSE <<n, p - L>>]
           all == rels \o Places(i)
<1>4. /\ all \in Seq(Nat) /\ Len(all) = L + K
      /\ \A p \in 1 .. L : all[p] = rels[p]
      /\ \A p \in 1 .. L + K : p \notin 1 .. L => all[p] = Places(i)[p - L]
  <2> HIDE DEF more
  <2> QED BY <1>1, <1>3
<1>5. /\ \A p \in 1 .. L : more[p] = src[p] /\ p \in 1 .. L + K
      /\ \A p \in 1 .. L + K : p \notin 1 .. L =>
            /\ more[p][1] = n /\ more[p][2] = p - L
            /\ p - L \in 1 .. K /\ n <= p /\ p \in Nat
  BY <1>1, <1>3
<1> HIDE DEF more, all
<1>6. ASSUME NEW p \in 1 .. L + K
      PROVE  /\ more[p][1] \in 1 .. n /\ more[p][1] <= p
             /\ more[p][2] \in 1 .. Len(Places(results[more[p][1]]))
             /\ all[p] = Places(results[more[p][1]])[more[p][2]]
  <2>1. CASE p \in 1 .. L
    <3>1. more[p] = src[p] /\ all[p] = rels[p]
      BY <1>4, <1>5, <2>1
    <3> QED BY <1>2, <2>1, <3>1
  <2>2. CASE p \notin 1 .. L
    <3>1. more[p][1] = n /\ more[p][2] = p - L /\ p - L \in 1 .. K /\ n <= p /\ all[p] = Places(i)[p - L]
      BY <1>4, <1>5, <2>2
    <3>2. n \in 1 .. n
      OBVIOUS
    <3> QED BY <3>1, <3>2
  <2> QED BY <2>1, <2>2
<1>7. ASSUME NEW p \in 1 .. L + K, NEW q \in 1 .. L + K,
             more[p][1] = more[q][1], more[p][2] = more[q][2]
      PROVE  p = q
  <2>1. CASE p \in 1 .. L /\ q \in 1 .. L
    BY <1>1, <1>5, <1>7, <2>1
  <2>2. CASE p \notin 1 .. L /\ q \in 1 .. L
    <3>1. more[p][1] = n /\ more[q] = src[q]
      BY <1>5, <2>2
    <3> QED BY <1>2, <1>7, <2>2, <3>1
  <2>3. CASE p \in 1 .. L /\ q \notin 1 .. L
    <3>1. more[q][1] = n /\ more[p] = src[p]
      BY <1>5, <2>3
    <3> QED BY <1>2, <1>7, <2>3, <3>1
  <2>4. CASE p \notin 1 .. L /\ q \notin 1 .. L
    <3>1. p - L = q - L
      BY <1>5, <1>7, <2>4
    <3> QED BY <1>1, <1>3, <3>1
  <2> QED BY <2>1, <2>2, <2>3, <2>4
<1>8. n <= L + K
  BY <1>1, <1>3
<1>9. Reads(all, more, n)
  BY <1>4, <1>6, <1>7, <1>8 DEF Reads
<1> QED BY <1>9 DEF all

-----------------------------------------------------------------------------
(* What the first n rows give.                                             *)
Upwards(g, n) == g = [k \in 0 .. n |-> IF k = 0 THEN <<>> ELSE g[k - 1] \o Places(results[k])]

LEMMA PlacesUpwards ==
    ASSUME truth = <<>> \/ truth \in Truths, NEW n \in Nat
    PROVE  \E g : Upwards(g, n)
<1> PICK V : V = Seq(Nat)
  OBVIOUS
<1>1. \E step \in [V \X (1 .. n) -> V] : \A x \in V, k \in 1 .. n : step[<<x, k>>] = x \o Places(results[k])
  <2> DEFINE f == [p \in V \X (1 .. n) |-> p[1] \o Places(results[p[2]])]
  <2>1. ASSUME NEW x \in V, NEW k \in 1 .. n PROVE x \o Places(results[k]) \in V
    <3>1. Places(results[k]) \in Seq(Nat)
      BY PlacesTyped
    <3> QED BY <3>1
  <2>2. f \in [V \X (1 .. n) -> V] /\ \A x \in V, k \in 1 .. n : f[<<x, k>>] = x \o Places(results[k])
    BY <2>1
  <2> HIDE DEF f
  <2> QED BY <2>2
<1>2. PICK step \in [V \X (1 .. n) -> V] : \A x \in V, k \in 1 .. n : step[<<x, k>>] = x \o Places(results[k])
  BY <1>1
<1>3. PICK g \in [0 .. n -> V] : g[0] = <<>> /\ \A k \in 1 .. n : g[k] = step[<<g[k - 1], k>>]
  <2>1. <<>> \in V
    OBVIOUS
  <2>2. \E g \in [0 .. n -> V] : Steps(g, <<>>, step, n)
    BY <2>1, StepsExist
  <2> QED BY <2>2 DEF Steps
<1>4. ASSUME NEW k \in 0 .. n PROVE g[k] = IF k = 0 THEN <<>> ELSE g[k - 1] \o Places(results[k])
  <2>1. CASE k = 0
    BY <1>3, <2>1
  <2>2. CASE k # 0
    <3>1. k \in 1 .. n /\ k - 1 \in 0 .. n
      BY <2>2
    <3>2. g[k - 1] \in V
      BY <3>1
    <3>3. g[k] = g[k - 1] \o Places(results[k])
      BY <1>2, <1>3, <3>1, <3>2
    <3> QED BY <2>2, <3>3
  <2> QED BY <2>1, <2>2
<1>5. Upwards(g, n)
  BY <1>4 DEF Upwards
<1> QED BY <1>5

LEMMA LabelsRead ==
    ASSUME BenchmarksTypes
    PROVE  \E src : Reads(LabelRelevances, src, Len(results))
<1> PICK n : n = Len(results)
  OBVIOUS
<1>1. n \in Nat /\ (truth = <<>> \/ truth \in Truths)
  BY DEF BenchmarksTypes
<1> DEFINE g == CHOOSE u : Upwards(u, n)
<1>2. Upwards(g, n)
  BY <1>1, PlacesUpwards
<1>3. LabelRelevances = g[n]
  BY DEF LabelRelevances, Upwards
<1> HIDE DEF g
<1>4. g[0] = <<>> /\ \A k \in 1 .. n : g[k] = g[k - 1] \o Places(results[k])
  <2>1. 0 \in 0 .. n /\ \A k \in 1 .. n : k \in 0 .. n /\ k # 0
    BY <1>1
  <2> QED BY <1>2, <2>1 DEF Upwards
<1> DEFINE S == {k \in 0 .. n : \E src : Reads(g[k], src, k)}
<1>5. 0 \in S
  <2>1. Reads(<<>>, <<>>, 0)
    <3>1. <<>> \in Seq(Nat) /\ Len(<<>>) = 0 /\ \A p \in 1 .. 0 : FALSE
      OBVIOUS
    <3> QED BY <3>1 DEF Reads
  <2>2. Reads(g[0], <<>>, 0)
    BY <1>4, <2>1
  <2> QED BY <1>1, <2>2
<1>6. ASSUME NEW k \in 1 .. n, k - 1 \in S PROVE k \in S
  <2>1. PICK src : Reads(g[k - 1], src, k - 1)
    BY <1>6
  <2>2. k \in Nat /\ k # 0 /\ k \in 0 .. n
    BY <1>1
  <2>3. \E more : Reads(g[k - 1] \o Places(results[k]), more, k)
    BY <1>1, <2>1, <2>2, OneRowMore
  <2>4. \E more : Reads(g[k], more, k)
    BY <1>4, <2>3
  <2> QED BY <2>2, <2>4
<1>7. n \in S
  <2>1. \A k \in 0 .. n : k \in S
    <3> HIDE DEF S
    <3> QED BY <1>1, <1>5, <1>6, UpTo
  <2> QED BY <1>1, <2>1
<1> QED BY <1>3, <1>7

(* Where a place read from a row has its label and its weight from.        *)
LEMMA PlaceRead ==
    ASSUME BenchmarksTypes, NEW src, Reads(LabelRelevances, src, Len(results)),
           NEW p \in 1 .. Len(LabelRelevances)
    PROVE  /\ src[p][1] \in DOMAIN results /\ src[p][1] <= p /\ src[p][1] \in Nat
           /\ src[p][2] = 1 \/ src[p][2] = 2
           /\ LabelAt(results[src[p][1]], src[p][2]) \in RowLabels(results[src[p][1]])
           /\ LabelRelevances[p] = MaxWeight({LabelAt(results[src[p][1]], src[p][2])})
<1> PICK j, k : j = src[p][1] /\ k = src[p][2]
  OBVIOUS
<1>1. /\ j \in 1 .. Len(results) /\ j <= p /\ k \in 1 .. Len(Places(results[j]))
      /\ LabelRelevances[p] = Places(results[j])[k]
  BY DEF Reads
<1>2. DOMAIN results = 1 .. Len(results) /\ (truth = <<>> \/ truth \in Truths)
  BY DEF BenchmarksTypes
<1>3. /\ Len(Places(results[j])) = IF titles[results[j]] = Untitled THEN 1 ELSE 2
      /\ Places(results[j])[k] = MaxWeight({LabelAt(results[j], k)})
  BY <1>1, <1>2, PlacesTyped
<1>4. k = 1 \/ (k = 2 /\ titles[results[j]] # Untitled)
  BY <1>1, <1>3
<1>5. LabelAt(results[j], k) \in RowLabels(results[j])
  BY <1>4, LabelsAreAnswered
<1> QED BY <1>1, <1>2, <1>3, <1>4, <1>5

LEMMA LabelsLabelled ==
    ASSUME BenchmarksTypes, OneRowEach, \A j \in DOMAIN results : TitleLabel(results[j]) # OwnLabel(results[j])
    PROVE  \E lab : Labelled(LabelRelevances, lab)
<1>1. PICK src : Reads(LabelRelevances, src, Len(results))
  BY LabelsRead
<1> PICK rels : rels = LabelRelevances
  OBVIOUS
<1>2. /\ rels \in Seq(Nat) /\ DOMAIN rels = 1 .. Len(rels)
      /\ \A p, q \in 1 .. Len(rels) : src[p][1] = src[q][1] /\ src[p][2] = src[q][2] => p = q
  BY <1>1 DEF Reads
<1> DEFINE lab == [p \in 1 .. Len(rels) |-> LabelAt(results[src[p][1]], src[p][2])]
<1>3. \A p \in 1 .. Len(rels) : lab[p] = LabelAt(results[src[p][1]], src[p][2])
  OBVIOUS
<1> HIDE DEF lab
<1>4. ASSUME NEW p \in 1 .. Len(rels), rels[p] > 0
      PROVE  lab[p] \in DOMAIN truth /\ truth[lab[p]] = rels[p]
  <2>1. rels[p] = MaxWeight({lab[p]})
    BY <1>1, <1>3, PlaceRead
  <2>2. truth = <<>> \/ truth \in Truths
    BY DEF BenchmarksTypes
  <2>3. \E l \in {lab[p]} \intersect DOMAIN truth : truth[l] = rels[p]
    BY <1>4, <2>1, <2>2, BestWeight
  <2> QED BY <2>3
<1>5. ASSUME NEW p \in 1 .. Len(rels), NEW q \in 1 .. Len(rels), rels[p] > 0, rels[q] > 0, lab[p] = lab[q]
      PROVE  p = q
  <2> PICK i, j : i = src[p][1] /\ j = src[q][1]
    OBVIOUS
  <2>1. /\ i \in DOMAIN results /\ (src[p][2] = 1 \/ src[p][2] = 2)
        /\ lab[p] \in RowLabels(results[i])
    <3>1. /\ src[p][1] \in DOMAIN results /\ (src[p][2] = 1 \/ src[p][2] = 2)
          /\ LabelAt(results[src[p][1]], src[p][2]) \in RowLabels(results[src[p][1]])
      BY <1>1, PlaceRead
    <3>2. lab[p] = LabelAt(results[src[p][1]], src[p][2])
      BY <1>3
    <3> QED BY <3>1, <3>2
  <2>2. /\ j \in DOMAIN results /\ (src[q][2] = 1 \/ src[q][2] = 2)
        /\ lab[q] \in RowLabels(results[j])
    <3>1. /\ src[q][1] \in DOMAIN results /\ (src[q][2] = 1 \/ src[q][2] = 2)
          /\ LabelAt(results[src[q][1]], src[q][2]) \in RowLabels(results[src[q][1]])
      BY <1>1, PlaceRead
    <3>2. lab[q] = LabelAt(results[src[q][1]], src[q][2])
      BY <1>3
    <3> QED BY <3>1, <3>2
  <2>3. lab[p] \in DOMAIN truth
    BY <1>4, <1>5
  <2>4. i = j
    BY <1>5, <2>1, <2>2, <2>3, OneRowOnly
  <2>5. LabelAt(results[i], 1) # LabelAt(results[i], 2)
    BY <2>1 DEF LabelAt
  <2>6. LabelAt(results[i], src[p][2]) = LabelAt(results[i], src[q][2])
    BY <1>3, <1>5, <2>4
  <2>7. src[p][2] = src[q][2]
    BY <2>1, <2>2, <2>5, <2>6
  <2> QED BY <1>2, <2>4, <2>7
<1>6. Labelled(rels, lab)
  BY <1>2, <1>4, <1>5 DEF Labelled
<1> QED BY <1>6

(* Of the first places by labels that hit one is read from a row that hits.*)
LEMMA LabelHitsAreRowHits ==
    ASSUME BenchmarksTypes, FirstHit(LabelRelevances, 3) > 0
    PROVE  FirstHit(RowRelevances, 3) \in 1 .. FirstHit(LabelRelevances, 3)
<1>1. PICK src : Reads(LabelRelevances, src, Len(results))
  BY LabelsRead
<1>2. /\ DOMAIN LabelRelevances = 1 .. Len(LabelRelevances) /\ Len(LabelRelevances) \in Nat
      /\ DOMAIN results = 1 .. Len(results) /\ Len(results) \in Nat
      /\ truth = <<>> \/ truth \in Truths
  BY <1>1 DEF Reads, BenchmarksTypes
<1> DEFINE hits == {j \in DOMAIN LabelRelevances : j <= 3 /\ LabelRelevances[j] > 0}
           rowHits == {j \in DOMAIN RowRelevances : j <= 3 /\ RowRelevances[j] > 0}
<1>3. FirstHit(LabelRelevances, 3) = LeastOf(hits) /\ FirstHit(RowRelevances, 3) = LeastOf(rowHits)
  BY DEF FirstHit, LeastOf
<1>4. DOMAIN RowRelevances = 1 .. Len(results) /\ \A j \in 1 .. Len(results) :
        RowRelevances[j] = MaxWeight(RowLabels(results[j]))
  BY <1>2 DEF RowRelevances
<1>5. hits \in SUBSET (1 .. Len(LabelRelevances)) /\ rowHits \in SUBSET (1 .. Len(results))
  BY <1>2, <1>4
<1> PICK p : p = LeastOf(hits)
  OBVIOUS
<1>6. p \in hits
  <2>1. p > 0 /\ (hits # {} => p \in hits) /\ (hits = {} => p = 0)
    <3> HIDE DEF hits, rowHits
    <3> QED BY <1>2, <1>3, <1>5, LeastFacts
  <2> QED BY <2>1
<1>7. p \in 1 .. Len(LabelRelevances) /\ p <= 3 /\ LabelRelevances[p] > 0
  BY <1>2, <1>6
<1> PICK j : j = src[p][1]
  OBVIOUS
<1> PICK l : l = LabelAt(results[j], src[p][2])
  OBVIOUS
<1>8. /\ j \in DOMAIN results /\ j <= p /\ j \in Nat /\ l \in RowLabels(results[j])
      /\ LabelRelevances[p] = MaxWeight({l})
  BY <1>1, <1>7, PlaceRead
<1>9. RowRelevances[j] > 0
  <2>1. \E k \in {l} \intersect DOMAIN truth : truth[k] > 0
    <3>1. MaxWeight({l}) > 0
      BY <1>7, <1>8
    <3>2. truth = <<>> \/ truth \in Truths
      BY <1>2
    <3> HIDE DEF hits, rowHits
    <3> QED BY <3>1, <3>2, BestWeight
  <2>2. \E k \in RowLabels(results[j]) \intersect DOMAIN truth : truth[k] > 0
    BY <1>8, <2>1
  <2>3. MaxWeight(RowLabels(results[j])) > 0
    BY <1>2, <2>2, BestWeight
  <2> QED BY <1>2, <1>4, <1>8, <2>3
<1>10. j \in rowHits
  <2>1. j <= 3
    <3>1. \A a, b \in Nat : a <= b /\ b <= 3 => a <= 3
      OBVIOUS
    <3>2. p \in Nat
      BY <1>2, <1>7
    <3> QED BY <1>7, <1>8, <3>1, <3>2
  <2>2. j \in DOMAIN RowRelevances
    BY <1>2, <1>4, <1>8
  <2> QED BY <1>9, <2>1, <2>2
<1>11. LeastOf(rowHits) \in rowHits /\ LeastOf(rowHits) <= j
  <2> HIDE DEF hits, rowHits
  <2> QED BY <1>2, <1>5, <1>10, LeastFacts
<1>12. LeastOf(rowHits) \in 1 .. p
  <2>1. LeastOf(rowHits) \in 1 .. Len(results)
    BY <1>5, <1>11
  <2> HIDE DEF rowHits, hits
  <2> QED BY <1>2, <1>7, <1>8, <1>11, <2>1
<1> QED BY <1>3, <1>12

LEMMA ScoresHold == BenchmarksTypes => ScoresStand
<1> SUFFICES ASSUME BenchmarksTypes PROVE ScoresStand
  OBVIOUS
<1>0. truth = <<>> \/ truth \in Truths
  BY DEF BenchmarksTypes
<1>1. ASSUME OneRowEach PROVE Dcg(TopOf(RowRelevances)) <= Ideal
  BY <1>0, <1>1, RowsLabelled, IdealBounds
<1>2. ASSUME OneRowEach, \A j \in DOMAIN results : TitleLabel(results[j]) # OwnLabel(results[j])
      PROVE  Dcg(TopOf(LabelRelevances)) <= Ideal
  <2>1. \E lab : Labelled(LabelRelevances, lab)
    BY <1>2, LabelsLabelled
  <2> QED BY <1>0, <2>1, IdealBounds
<1>3. FirstHit(LabelRelevances, 3) > 0
        => FirstHit(RowRelevances, 3) \in 1 .. FirstHit(LabelRelevances, 3)
  BY LabelHitsAreRowHits
<1> QED BY <1>1, <1>2, <1>3 DEF ScoresStand, OneRowEach

(* No search scores better than the ideal one unless a label names two     *)
(* rows that it found or, by labels, a row answers to the same label       *)
(* twice, whatever the dataset and its grades, and whatever was found, as  *)
(* long as a later place counts no more than an earlier one; and a hit by  *)
(* labels is one by rows (ndcg_at_k, ndcg_from_relevances).                *)
THEOREM ScoresAlwaysStand == BenchmarksSpec => []ScoresStand
BY BenchmarksTyped, ScoresHold, PTL DEF BenchmarksSpec

(* Scores, diagnostics and coverage reports of a dataset stand together,   *)
(* with the rest of the operations beside them (evaluate_corpus_search,    *)
(* benchmark_profile_diagnostics, benchmark_dataset_report).               *)
THEOREM BenchmarksAlwaysStand == Spec => []BenchmarksStand
<1>1. Init => BenchmarksInit
  BY DEF Init
<1>2. [Next]_vars => [BenchmarksNext]_benchmarkVars
  BY DEF Next, Alone, vars
<1>3. Spec => BenchmarksSpec
  BY <1>1, <1>2, PTL DEF Spec, BenchmarksSpec
<1>4. ScoresStand /\ DiagnosticsAgree /\ CoverageStands => BenchmarksStand
  BY DEF BenchmarksStand
<1> QED BY <1>3, <1>4, ScoresAlwaysStand, DiagnosticsAlwaysAgree, CoverageAlwaysStands, PTL

-----------------------------------------------------------------------------
(* All parts together *)

LEMMA StatusTyped ==
    /\ StatusInit => StatusTypeOK
    /\ StatusTypeOK /\ [StatusNext]_facts => StatusTypeOK'
<1>1. StatusInit => StatusTypeOK
  BY DEF StatusInit, StatusTypeOK, Facts, UnitStates, Reconciles, Queues
<1>2. ASSUME StatusTypeOK, NEW fact, NEW values, Becomes(fact, values),
             \/ fact \in {"enabled", "ready", "synced", "protected"} /\ values = BOOLEAN
             \/ fact \in {"webhooks", "daemon"} /\ values = UnitStates
             \/ fact = "reconcile" /\ values = Reconciles
             \/ fact = "queues" /\ values = Queues
      PROVE  StatusTypeOK'
  <2>1. PICK v \in values : facts' = [facts EXCEPT ![fact] = v]
    BY <1>2 DEF Becomes
  <2>2. facts \in Facts
    BY <1>2 DEF StatusTypeOK
  <2>3. [facts EXCEPT ![fact] = v] \in Facts
    BY <1>2, <2>1, <2>2 DEF Facts
  <2> QED BY <2>1, <2>3 DEF StatusTypeOK
<1>3. ASSUME StatusTypeOK, [StatusNext]_facts PROVE StatusTypeOK'
  BY <1>2, <1>3 DEF StatusNext, StatusTypeOK
<1> QED BY <1>1, <1>3

LEMMA QueryTyped ==
    /\ QueryInit => QueryInv /\ Len(query) <= MaxTokens
    /\ (QueryInv /\ Len(query) <= MaxTokens) /\ [QueryNext]_query
         => (QueryInv /\ Len(query) <= MaxTokens)'
    /\ QueryInv /\ Len(query) <= MaxTokens => QueryTypeOK
<1>1. QueryInit => QueryInv /\ Len(query) <= MaxTokens
  BY QueryAssumption DEF QueryInit, QueryInv
<1>2. ASSUME QueryInv, Len(query) <= MaxTokens, [QueryNext]_query PROVE QueryInv' /\ Len(query') <= MaxTokens
  <2>1. CASE AddToken
    <3>1. PICK t \in Tokens : query' = Append(query, t) /\ Len(query) < MaxTokens
      BY <2>1 DEF AddToken
    <3> QED BY <1>2, <3>1, QueryAssumption DEF QueryInv
  <2>2. CASE UNCHANGED query
    BY <1>2, <2>2 DEF QueryInv
  <2> QED BY <1>2, <2>1, <2>2 DEF QueryNext
<1>3. QueryInv /\ Len(query) <= MaxTokens => QueryTypeOK
  BY DEF QueryInv, QueryTypeOK, Typed
<1> QED BY <1>1, <1>2, <1>3

(* Every part of the operations keeps the types of its variables, whatever *)
(* the constants.                                                          *)
THEOREM OperationsTypeCorrect == Spec => []OperationsTypeOK
<1> DEFINE Q == QueryInv /\ Len(query) <= MaxTokens
<1>1. Init => /\ TenantsInit /\ StatusInit /\ EnvInit /\ ChecksInit /\ DaemonInit
              /\ QueryInit /\ PagesInit /\ InferenceInit /\ ContextInit /\ BenchmarksInit
  BY DEF Init
<1>2. [Next]_vars =>
        /\ [TenantsNext]_tenantVars /\ [StatusNext]_facts /\ [EnvNext]_envVars
        /\ [ChecksNext]_checkVars /\ [DaemonNext]_daemonVars /\ [QueryNext]_query
        /\ [PagesNext]_pageVars /\ [InferenceNext]_inferenceVars
        /\ [ContextNext]_contextVars /\ [BenchmarksNext]_benchmarkVars
  BY DEF Next, Alone, vars
<1>3. Spec => []TenantsTypeOK
  <2>1. Spec => TenantsSpec
    BY <1>1, <1>2, PTL DEF Spec, TenantsSpec
  <2> QED BY <2>1, TenantsTypeCorrect
<1>4. Spec => []StatusTypeOK
  BY <1>1, <1>2, StatusTyped, PTL DEF Spec
<1>5. Spec => []EnvTypeOK
  <2>1. Spec => EnvSpec
    BY <1>1, <1>2, PTL DEF Spec, EnvSpec
  <2> QED BY <2>1, EnvTypeCorrect
<1>6. Spec => []ChecksTypeOK
  <2>1. Spec => ChecksSpec
    BY <1>1, <1>2, PTL DEF Spec, ChecksSpec
  <2> QED BY <2>1, ChecksTypeCorrect
<1>7. Spec => []DaemonTypeOK
  <2>1. DaemonInv => DaemonTypeOK
    BY DEF DaemonInv
  <2> QED BY <1>1, <1>2, <2>1, DaemonInductive, PTL DEF Spec
<1>8. Spec => []QueryTypeOK
  <2>1. QueryInit => Q
    BY QueryTyped
  <2>2. Q /\ [QueryNext]_query => Q'
    BY QueryTyped
  <2>3. Q => QueryTypeOK
    BY QueryTyped
  <2> HIDE DEF Q
  <2> QED BY <1>1, <1>2, <2>1, <2>2, <2>3, PTL DEF Spec
<1>9. Spec => []PagesTypeOK
  <2>1. Spec => PagesSpec
    BY <1>1, <1>2, PTL DEF Spec, PagesSpec
  <2> QED BY <2>1, PagesTypeCorrect
<1>10. Spec => []InferenceTypeOK
  <2>1. Spec => InferenceSpec
    BY <1>1, <1>2, PTL DEF Spec, InferenceSpec
  <2> QED BY <2>1, InferenceTypeCorrect
<1>11. Spec => []ContextTypeOK
  <2>1. Spec => ContextSpec
    BY <1>1, <1>2, PTL DEF Spec, ContextSpec
  <2> QED BY <2>1, ContextTypeCorrect
<1>12. Spec => []BenchmarksTypeOK
  <2>1. Spec => BenchmarksSpec
    BY <1>1, <1>2, PTL DEF Spec, BenchmarksSpec
  <2> QED BY <2>1, BenchmarksTypeCorrect
<1>13. TenantsTypeOK /\ StatusTypeOK /\ EnvTypeOK /\ ChecksTypeOK /\ DaemonTypeOK /\ QueryTypeOK
       /\ PagesTypeOK /\ InferenceTypeOK /\ ContextTypeOK /\ BenchmarksTypeOK => OperationsTypeOK
  BY DEF OperationsTypeOK
<1> QED BY <1>3, <1>4, <1>5, <1>6, <1>7, <1>8, <1>9, <1>10, <1>11, <1>12, <1>13, PTL
=============================================================================
