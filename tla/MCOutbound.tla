----------------------------- MODULE MCOutbound -----------------------------
(* Instances of Outbound for TLC.                                          *)
EXTENDS Outbound, TLC

CONSTANTS api1, api2, k1, t1

TwoCallers == {api1, api2}
OneKey == {k1}
OneTarget == {t1}

Symmetric == Permutations(TwoCallers)
=============================================================================
