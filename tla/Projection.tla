----------------------------- MODULE Projection -----------------------------
(***************************************************************************)
(* What the message store promises its readers, without saying how: a row  *)
(* is written first and becomes searchable a little later.  `shown` is the *)
(* text keyword search can return for a message, `dirty` the messages      *)
(* whose row has moved ahead of it.  MessageStore is shown to implement    *)
(* this specification when one process writes and is not cut short.        *)
(***************************************************************************)
EXTENDS TLAPS

CONSTANTS Keys,      \* message identities (workspace, channel, ts)
          Rows,      \* the rows a message can have
          NoRow,     \* the message has no row yet
          Shown(_)   \* the searchable text of a row, NoRow included

VARIABLES row, shown, dirty

projVars == <<row, shown, dirty>>

ProjectionInit ==
    /\ row = [k \in Keys |-> NoRow]
    /\ shown = [k \in Keys |-> Shown(NoRow)]
    /\ dirty = {}

(* A row is replaced; the message must be marked dirty if that changes     *)
(* what search should return for it.                                       *)
Put(k, r) ==
    /\ row' = [row EXCEPT ![k] = r]
    /\ dirty' \in {dirty, dirty \union {k}}
    /\ k \notin dirty' => Shown(r) = shown[k]
    /\ UNCHANGED shown

(* The searchable text of a dirty message catches up with its row.         *)
Refresh(k) ==
    /\ k \in dirty
    /\ shown' = [shown EXCEPT ![k] = Shown(row[k])]
    /\ dirty' = dirty \ {k}
    /\ UNCHANGED row

(* All the searchable text is rebuilt from the rows.                       *)
Rebuild ==
    /\ shown' = [k \in Keys |-> Shown(row[k])]
    /\ UNCHANGED <<row, dirty>>

ProjectionNext ==
    \/ \E k \in Keys : Refresh(k) \/ \E r \in Rows : Put(k, r)
    \/ Rebuild

ProjectionSpec ==
    /\ ProjectionInit
    /\ [][ProjectionNext]_projVars
    /\ \A k \in Keys : WF_projVars(Refresh(k))

(* A message that is not waiting for the index is found by exactly the     *)
(* text of its row.                                                        *)
ShownFollowsRow == \A k \in Keys \ dirty : shown[k] = Shown(row[k])

ProjectionInv ==
    /\ row = [k \in Keys |-> row[k]]
    /\ shown = [k \in Keys |-> shown[k]]
    /\ ShownFollowsRow

(* What the mirror promises its readers about search follows from this     *)
(* specification alone, for every set of messages and rows.                *)
THEOREM ProjectionShowsRows == ProjectionSpec => []ShownFollowsRow
<1>1. ProjectionInit => ProjectionInv
  BY DEF ProjectionInit, ProjectionInv, ShownFollowsRow
<1>2. ASSUME ProjectionInv, [ProjectionNext]_projVars
      PROVE  ProjectionInv'
  <2>1. ASSUME NEW k \in Keys, Refresh(k)
        PROVE  ProjectionInv'
    BY <1>2, <2>1 DEF ProjectionInv, ShownFollowsRow, Refresh
  <2>2. ASSUME NEW k \in Keys, NEW r \in Rows, Put(k, r)
        PROVE  ProjectionInv'
    BY <1>2, <2>2 DEF ProjectionInv, ShownFollowsRow, Put
  <2>3. CASE Rebuild
    BY <1>2, <2>3 DEF ProjectionInv, ShownFollowsRow, Rebuild
  <2>4. CASE UNCHANGED projVars
    BY <1>2, <2>4 DEF ProjectionInv, ShownFollowsRow, projVars
  <2>5. QED
    BY <1>2, <2>1, <2>2, <2>3, <2>4 DEF ProjectionNext
<1>3. ProjectionInv => ShownFollowsRow
  BY DEF ProjectionInv
<1>4. QED
  BY <1>1, <1>2, <1>3, PTL DEF ProjectionSpec
=============================================================================
