--------------------------- MODULE MCMessageStore ---------------------------
(* Instances of MessageStore for TLC.                                      *)
EXTENDS MessageStore, TLC

CONSTANTS daemon, cli, k1, k2, a, b, f1

OneProc == {daemon}
TwoProcs == {daemon, cli}
OneKey == {k1}
TwoKeys == {k1, k2}
TwoTexts == {a, b}
OneFile == {f1}

Symmetric == Permutations(TwoTexts)
BothSymmetric == Permutations(TwoTexts) \union Permutations(TwoProcs)
=============================================================================
