------------------------------ MODULE Sorting -------------------------------
(***************************************************************************)
(* Lists in an order that the code sorts by, as the places of their        *)
(* members: a member comes after as many as come before it.                *)
(***************************************************************************)
EXTENDS Naturals, Sequences, FiniteSets

(* The members of S that R, a set of pairs, puts before x.                 *)
Under(S, R, x) == {y \in S : <<y, x>> \in R}

(* The members of S by how many come before them.                          *)
InPlaces(S, R) == [i \in 1 .. Cardinality(S) |->
                      CHOOSE x \in S : 1 + Cardinality(Under(S, R, x)) = i]

(* The sum of the first n numbers of s.                                    *)
Total(s, n) ==
    LET upTo[k \in 0 .. n] == IF k = 0 THEN 0 ELSE upTo[k - 1] + s[k] IN upTo[n]

(* The sequence s without x, in the order it had.                          *)
Others(s, x) == {i \in DOMAIN s : s[i] # x}
Forward(S) == {p \in S \X S : p[1] < p[2]}
Without(s, x) ==
    LET kept == InPlaces(Others(s, x), Forward(Others(s, x)))
    IN  [k \in DOMAIN kept |-> s[kept[k]]]
=============================================================================
