-------------------------- MODULE MCEventPipeline --------------------------
(* Instances of EventPipeline for TLC.                                     *)
EXTENDS EventPipeline, TLC

CONSTANTS m1, m2

OneMessage == {m1}
TwoMessages == {m1, m2}
TwoIds == 1 .. 2
Symmetric == Permutations(TwoMessages)
=============================================================================
