--------------------------- MODULE Sorting_proofs ---------------------------
(***************************************************************************)
(* Lemmas about lists by places, for any finite set and any strict order   *)
(* of it: every place is taken by one member (a function from a finite set *)
(* to as many places that is one to one is onto), so nothing needs         *)
(* induction on the length of a list.  Sums do, over a set of numbers that *)
(* has the next one whenever it has one: they change by what one number    *)
(* changes, and the best in order are worth the most.                      *)
(***************************************************************************)
EXTENDS Sorting, Integers, FiniteSetTheorems, TLAPS

(* R puts the members of S in a strict order, one after the other.         *)
Orders(R, S) ==
    /\ IsFiniteSet(S)
    /\ \A x \in S : <<x, x>> \notin R
    /\ \A x, y, z \in S : <<x, y>> \in R /\ <<y, z>> \in R => <<x, z>> \in R
    /\ \A x, y \in S : x = y \/ <<x, y>> \in R \/ <<y, x>> \in R

(* s has the members of S, each once.                                      *)
Enumerates(s, S) ==
    /\ s \in Seq(S) /\ Cardinality(S) \in Nat /\ Len(s) = Cardinality(S)
    /\ \A x \in S : \E i \in DOMAIN s : s[i] = x
    /\ \A i, j \in DOMAIN s : s[i] = s[j] => i = j

LEMMA UnderGrows ==
    ASSUME NEW S, NEW R, Orders(R, S), NEW x \in S, NEW y \in S, <<y, x>> \in R
    PROVE  Cardinality(Under(S, R, y)) < Cardinality(Under(S, R, x))
<1>1. IsFiniteSet(S) /\ Under(S, R, x) \in SUBSET S /\ Under(S, R, y) \in SUBSET S
  BY DEF Orders, Under
<1>2. /\ IsFiniteSet(Under(S, R, x)) /\ Cardinality(Under(S, R, x)) \in Nat
      /\ IsFiniteSet(Under(S, R, y)) /\ Cardinality(Under(S, R, y)) \in Nat
  BY <1>1, FS_Subset, FS_CardinalityType
<1>3. y \notin Under(S, R, y) /\ Under(S, R, y) \union {y} \in SUBSET Under(S, R, x)
  BY DEF Under, Orders
<1>4. Cardinality(Under(S, R, y) \union {y}) = Cardinality(Under(S, R, y)) + 1
  BY <1>2, <1>3, FS_AddElement
<1>5. Cardinality(Under(S, R, y) \union {y}) <= Cardinality(Under(S, R, x))
  BY <1>2, <1>3, FS_Subset
<1> QED BY <1>2, <1>4, <1>5

LEMMA PlacesEnumerate ==
    ASSUME NEW S, NEW R, Orders(R, S)
    PROVE  /\ Enumerates(InPlaces(S, R), S)
           /\ \A i \in 1 .. Cardinality(S) :
                1 + Cardinality(Under(S, R, InPlaces(S, R)[i])) = i
<1> DEFINE N == Cardinality(S)
           place == [x \in S |-> 1 + Cardinality(Under(S, R, x))]
           s == InPlaces(S, R)
<1>1. IsFiniteSet(S) /\ N \in Nat
  BY FS_CardinalityType DEF Orders
<1>2. ASSUME NEW x \in S PROVE place[x] \in 1 .. N
  <2>1. Under(S, R, x) \in SUBSET (S \ {x})
    BY DEF Under, Orders
  <2>2. IsFiniteSet(S \ {x}) /\ Cardinality(S \ {x}) = N - 1
    BY <1>1, FS_RemoveElement
  <2>3. IsFiniteSet(Under(S, R, x)) /\ Cardinality(Under(S, R, x)) <= N - 1
    BY <2>1, <2>2, FS_Subset
  <2>4. Cardinality(Under(S, R, x)) \in Nat
    BY <2>3, FS_CardinalityType
  <2> QED BY <1>1, <2>3, <2>4
<1>3. ASSUME NEW x \in S, NEW y \in S, place[x] = place[y] PROVE x = y
  <2> SUFFICES ASSUME x # y PROVE FALSE
    OBVIOUS
  <2>1. Cardinality(Under(S, R, x)) = Cardinality(Under(S, R, y))
    <3>1. Cardinality(Under(S, R, x)) \in Int /\ Cardinality(Under(S, R, y)) \in Int
      <4>1. Under(S, R, x) \in SUBSET S /\ Under(S, R, y) \in SUBSET S
        BY DEF Under
      <4>2. IsFiniteSet(Under(S, R, x)) /\ IsFiniteSet(Under(S, R, y))
        BY <1>1, <4>1, FS_Subset
      <4> QED BY <4>2, FS_CardinalityType
    <3> QED BY <1>3, <3>1
  <2>2. <<x, y>> \in R \/ <<y, x>> \in R
    BY DEF Orders
  <2>3. Cardinality(Under(S, R, x)) < Cardinality(Under(S, R, y))
        \/ Cardinality(Under(S, R, y)) < Cardinality(Under(S, R, x))
    BY <2>2, UnderGrows
  <2>4. Cardinality(Under(S, R, y)) \in Int
    <3>1. Under(S, R, y) \in SUBSET S
      BY DEF Under
    <3>2. IsFiniteSet(Under(S, R, y))
      BY <1>1, <3>1, FS_Subset
    <3> QED BY <3>2, FS_CardinalityType
  <2> QED BY <2>1, <2>3, <2>4
<1>4. ASSUME NEW i \in 1 .. N PROVE \E x \in S : place[x] = i
  <2>1. IsFiniteSet(1 .. N) /\ Cardinality(1 .. N) = N
    BY <1>1, FS_Interval
  <2>2. place \in [S -> 1 .. N]
    BY <1>2
  <2>3. place \in Injection(S, 1 .. N)
    <3> HIDE DEF place
    <3> QED BY <1>3, <2>2 DEF Injection, IsInjective
  <2>4. place \in Surjection(S, 1 .. N)
    <3> HIDE DEF place
    <3> QED BY <2>1, <2>3, FS_Injection
  <2> HIDE DEF place
  <2> QED BY <2>4 DEF Surjection
<1>5. ASSUME NEW i \in 1 .. N PROVE s[i] \in S /\ place[s[i]] = i
  <2>1. s[i] = CHOOSE x \in S : place[x] = i
    BY DEF InPlaces
  <2> HIDE DEF place, s
  <2> QED BY <1>4, <2>1
<1>6. DOMAIN s = 1 .. N
  BY DEF InPlaces
<1>7. s \in Seq(S) /\ Len(s) = N
  <2>1. s = [i \in 1 .. N |-> s[i]]
    BY DEF InPlaces
  <2> HIDE DEF s
  <2>2. s \in [1 .. N -> S]
    BY <1>5, <2>1
  <2> HIDE DEF N
  <2> QED BY <1>1, <1>6, <2>2
<1> HIDE DEF s, place
<1>8. \A x \in S : \E i \in DOMAIN s : s[i] = x
  BY <1>2, <1>3, <1>5, <1>6
<1>9. \A i, j \in DOMAIN s : s[i] = s[j] => i = j
  BY <1>5, <1>6
<1>10. Enumerates(s, S)
  BY <1>1, <1>7, <1>8, <1>9 DEF Enumerates
<1> QED BY <1>5, <1>10 DEF s, place

LEMMA FirstInOrder ==
    ASSUME NEW S, NEW R, Orders(R, S), S # {}
    PROVE  \E x \in S : \A y \in S : y = x \/ <<x, y>> \in R
<1>1. IsFiniteSet(S) /\ Cardinality(S) \in Nat /\ Cardinality(S) # 0
  BY FS_CardinalityType, FS_EmptySet DEF Orders
<1>2. 1 \in 1 .. Cardinality(S)
  BY <1>1
<1> PICK s : s = InPlaces(S, R)
  OBVIOUS
<1> PICK x : x = s[1]
  OBVIOUS
<1>3. x \in S
  <2>1. s \in Seq(S) /\ Len(s) = Cardinality(S)
    BY PlacesEnumerate DEF Enumerates
  <2> QED BY <1>2, <2>1
<1>4. 1 + Cardinality(Under(S, R, x)) = 1
  BY <1>2, PlacesEnumerate
<1>5. Under(S, R, x) = {}
  <2>1. Under(S, R, x) \in SUBSET S
    BY DEF Under
  <2>2. IsFiniteSet(Under(S, R, x)) /\ Cardinality(Under(S, R, x)) \in Nat
    BY <1>1, <2>1, FS_Subset, FS_CardinalityType
  <2>3. Cardinality(Under(S, R, x)) = 0
    BY <1>4, <2>2
  <2> QED BY <2>2, <2>3, FS_EmptySet
<1>6. \A y \in S : <<y, x>> \notin R
  BY <1>5 DEF Under
<1>7. \A y \in S : y = x \/ <<x, y>> \in R
  BY <1>3, <1>6 DEF Orders
<1> QED BY <1>3, <1>7

LEMMA MostAndLeast ==
    ASSUME NEW S \in SUBSET Int, IsFiniteSet(S), S # {}
    PROVE  /\ \E x \in S : \A y \in S : y <= x
           /\ \E x \in S : \A y \in S : x <= y
<1>1. \E x \in S : \A y \in S : y <= x
  <2> DEFINE R == {p \in S \X S : p[1] > p[2]}
  <2>1. \A x, y \in S : <<x, y>> \in R <=> x > y
    OBVIOUS
  <2> HIDE DEF R
  <2>2. Orders(R, S)
    BY <2>1 DEF Orders
  <2>3. PICK x \in S : \A y \in S : y = x \/ <<x, y>> \in R
    BY <2>2, FirstInOrder
  <2>4. ASSUME NEW y \in S PROVE y <= x
    <3>1. x \in Int /\ y \in Int
      OBVIOUS
    <3>2. y = x \/ x > y
      BY <2>1, <2>3
    <3> QED BY <3>1, <3>2
  <2> QED BY <2>4
<1>2. \E x \in S : \A y \in S : x <= y
  <2> DEFINE R == {p \in S \X S : p[1] < p[2]}
  <2>1. \A x, y \in S : <<x, y>> \in R <=> x < y
    OBVIOUS
  <2> HIDE DEF R
  <2>2. Orders(R, S)
    BY <2>1 DEF Orders
  <2>3. PICK x \in S : \A y \in S : y = x \/ <<x, y>> \in R
    BY <2>2, FirstInOrder
  <2>4. ASSUME NEW y \in S PROVE x <= y
    <3>1. x \in Int /\ y \in Int
      OBVIOUS
    <3>2. y = x \/ x < y
      BY <2>1, <2>3
    <3> QED BY <3>1, <3>2
  <2> QED BY <2>4
<1> QED BY <1>1, <1>2

-----------------------------------------------------------------------------
(* Lists *)

LEMMA SequencesAreFunctions ==
    ASSUME NEW S, NEW n \in Nat
    PROVE  /\ \A c \in [1 .. n -> S] : c \in Seq(S) /\ Len(c) = n
           /\ \A c \in Seq(S) : Len(c) = n => c = [i \in 1 .. n |-> c[i]]
<1>1. ASSUME NEW c \in Seq(S), Len(c) = n PROVE c = [i \in 1 .. n |-> c[i]]
  <2>1. c \in [1 .. n -> S]
    BY <1>1
  <2> QED BY <2>1
<1> QED BY <1>1

LEMMA SetInside ==
    ASSUME NEW K, NEW D, NEW V, NEW t \in [K -> [D -> V]], NEW k \in K, NEW d \in D, NEW v \in V
    PROVE  [t EXCEPT ![k][d] = v] \in [K -> [D -> V]]
<1>1. [t[k] EXCEPT ![d] = v] \in [D -> V]
  OBVIOUS
<1>2. [t EXCEPT ![k] = [t[k] EXCEPT ![d] = v]] \in [K -> [D -> V]]
  BY <1>1
<1> QED BY <1>2

LEMMA SequencesWiden ==
    ASSUME NEW S, NEW T, S \subseteq T, NEW s \in Seq(S)
    PROVE  s \in Seq(T)
OBVIOUS

(* What is listed earlier is earlier in the order.                         *)
LEMMA PlacesRise ==
    ASSUME NEW S, NEW R, Orders(R, S), NEW i \in 1 .. Cardinality(S), NEW j \in 1 .. Cardinality(S)
    PROVE  <<InPlaces(S, R)[i], InPlaces(S, R)[j]>> \in R <=> i < j
<1> PICK s : s = InPlaces(S, R)
  OBVIOUS
<1>1. Cardinality(S) \in Nat
  BY FS_CardinalityType DEF Orders
<1>2. s[i] \in S /\ s[j] \in S /\ (s[i] = s[j] => i = j)
  <2>1. /\ s \in Seq(S) /\ Len(s) = Cardinality(S)
        /\ \A k, l \in DOMAIN s : s[k] = s[l] => k = l
    BY PlacesEnumerate DEF Enumerates
  <2>2. DOMAIN s = 1 .. Cardinality(S)
    BY <2>1
  <2> QED BY <2>1, <2>2
<1>3. 1 + Cardinality(Under(S, R, s[i])) = i /\ 1 + Cardinality(Under(S, R, s[j])) = j
  BY PlacesEnumerate
<1>4. Cardinality(Under(S, R, s[i])) \in Nat /\ Cardinality(Under(S, R, s[j])) \in Nat
  <2>1. Under(S, R, s[i]) \in SUBSET S /\ Under(S, R, s[j]) \in SUBSET S /\ IsFiniteSet(S)
    BY DEF Under, Orders
  <2>2. IsFiniteSet(Under(S, R, s[i])) /\ IsFiniteSet(Under(S, R, s[j]))
    BY <2>1, FS_Subset
  <2> QED BY <2>2, FS_CardinalityType
<1>5. ASSUME <<s[i], s[j]>> \in R PROVE i < j
  <2>1. Cardinality(Under(S, R, s[i])) < Cardinality(Under(S, R, s[j]))
    BY <1>2, <1>5, UnderGrows
  <2> QED BY <1>3, <1>4, <2>1
<1>6. ASSUME <<s[j], s[i]>> \in R PROVE j < i
  <2>1. Cardinality(Under(S, R, s[j])) < Cardinality(Under(S, R, s[i]))
    BY <1>2, <1>6, UnderGrows
  <2> QED BY <1>3, <1>4, <2>1
<1>7. s[i] = s[j] \/ <<s[i], s[j]>> \in R \/ <<s[j], s[i]>> \in R
  BY <1>2 DEF Orders
<1> QED BY <1>1, <1>2, <1>5, <1>6, <1>7

LEMMA ForwardOrders ==
    ASSUME NEW S \in SUBSET Nat, IsFiniteSet(S)
    PROVE  Orders(Forward(S), S)
<1>1. \A x, y \in S : <<x, y>> \in Forward(S) <=> x < y
  BY DEF Forward
<1> QED BY <1>1 DEF Orders

(* Without x a list has all the others, each as often, in their order:     *)
(* each comes from a place of its own, and the places keep their order.    *)
LEMMA WithoutFacts ==
    ASSUME NEW S, NEW s \in Seq(S), NEW x
    PROVE  /\ Without(s, x) \in Seq(S) /\ Len(Without(s, x)) <= Len(s)
           /\ \A i \in DOMAIN Without(s, x) :
                \E a \in DOMAIN s : Without(s, x)[i] = s[a] /\ s[a] # x
           /\ \A a \in DOMAIN s : s[a] # x => \E i \in DOMAIN Without(s, x) : Without(s, x)[i] = s[a]
           /\ \A i, j \in DOMAIN Without(s, x) : i < j =>
                \E a, b \in DOMAIN s : a < b /\ Without(s, x)[i] = s[a] /\ Without(s, x)[j] = s[b]
<1> PICK D : D = Others(s, x)
  OBVIOUS
<1> PICK kept : kept = InPlaces(D, Forward(D))
  OBVIOUS
<1>1. D \in SUBSET (DOMAIN s) /\ DOMAIN s = 1 .. Len(s) /\ Len(s) \in Nat
      /\ \A a : a \in D <=> a \in DOMAIN s /\ s[a] # x
  BY DEF Others
<1>2. IsFiniteSet(D) /\ D \in SUBSET Nat /\ Cardinality(D) <= Len(s)
  <2>1. IsFiniteSet(1 .. Len(s)) /\ Cardinality(1 .. Len(s)) = Len(s)
    BY <1>1, FS_Interval
  <2>2. D \in SUBSET (1 .. Len(s))
    BY <1>1
  <2> QED BY <1>1, <2>1, <2>2, FS_Subset
<1>3. Orders(Forward(D), D)
  BY <1>2, ForwardOrders
<1>4. /\ kept \in Seq(D) /\ Len(kept) = Cardinality(D) /\ Cardinality(D) \in Nat
      /\ \A a \in D : \E i \in DOMAIN kept : kept[i] = a
  BY <1>3, PlacesEnumerate DEF Enumerates
<1>5. DOMAIN kept = 1 .. Cardinality(D) /\ \A i \in DOMAIN kept : kept[i] \in D
  BY <1>4
<1>6. ASSUME NEW i \in DOMAIN kept, NEW j \in DOMAIN kept, i < j PROVE kept[i] < kept[j]
  <2>1. <<kept[i], kept[j]>> \in Forward(D)
    BY <1>3, <1>5, <1>6, PlacesRise
  <2> QED BY <2>1 DEF Forward
<1> PICK w : w = Without(s, x)
  OBVIOUS
<1>7. w = [k \in DOMAIN kept |-> s[kept[k]]]
  BY DEF Without
<1>8. DOMAIN w = DOMAIN kept /\ \A i \in DOMAIN kept : w[i] = s[kept[i]]
  BY <1>7
<1>9. w \in Seq(S) /\ Len(w) = Cardinality(D)
  <2>1. \A i \in DOMAIN kept : w[i] \in S
    BY <1>1, <1>5, <1>8
  <2>2. w \in [1 .. Cardinality(D) -> S]
    BY <1>5, <1>7, <2>1
  <2> QED BY <1>4, <1>5, <1>8, <2>2
<1>10. \A i \in DOMAIN w : \E a \in DOMAIN s : w[i] = s[a] /\ s[a] # x
  BY <1>1, <1>5, <1>8
<1>11. \A a \in DOMAIN s : s[a] # x => \E i \in DOMAIN w : w[i] = s[a]
  BY <1>1, <1>4, <1>8
<1>12. \A i, j \in DOMAIN w : i < j => \E a, b \in DOMAIN s : a < b /\ w[i] = s[a] /\ w[j] = s[b]
  BY <1>1, <1>5, <1>6, <1>8
<1> QED BY <1>2, <1>9, <1>10, <1>11, <1>12
-----------------------------------------------------------------------------
(* Sums *)

(* Induction up to n, over a set of numbers: what is not in it would have  *)
(* a first number.                                                         *)
LEMMA UpTo ==
    ASSUME NEW n \in Nat, NEW S, 0 \in S, \A k \in 1 .. n : k - 1 \in S => k \in S
    PROVE  \A k \in 0 .. n : k \in S
<1> DEFINE bad == {k \in 0 .. n : k \notin S}
<1> SUFFICES ASSUME bad # {} PROVE FALSE
  OBVIOUS
<1>1. PICK m \in bad : \A k \in bad : m <= k
  <2>1. IsFiniteSet(0 .. n) /\ bad \in SUBSET (0 .. n) /\ bad \in SUBSET Int
    BY FS_Interval
  <2>2. IsFiniteSet(bad)
    BY <2>1, FS_Subset
  <2> HIDE DEF bad
  <2> QED BY <2>1, <2>2, MostAndLeast
<1>2. m \in 0 .. n /\ m \notin S /\ m # 0
  OBVIOUS
<1>3. m \in 1 .. n /\ m - 1 \in 0 .. n /\ m - 1 \notin bad
  BY <1>1, <1>2
<1>4. m - 1 \in S
  BY <1>3
<1> QED BY <1>2, <1>3, <1>4

(* What is computed step by step from a first value exists.                *)
Steps(g, base, step, n) == g[0] = base /\ \A k \in 1 .. n : g[k] = step[<<g[k - 1], k>>]

LEMMA StepsExist ==
    ASSUME NEW V, NEW base \in V, NEW n \in Nat, NEW step \in [V \X (1 .. n) -> V]
    PROVE  \E g \in [0 .. n -> V] : Steps(g, base, step, n)
<1> DEFINE S == {m \in 0 .. n : \E g \in [0 .. m -> V] : Steps(g, base, step, m)}
<1>1. 0 \in S
  <2>1. [k \in 0 .. 0 |-> base] \in [0 .. 0 -> V] /\ [k \in 0 .. 0 |-> base][0] = base
    OBVIOUS
  <2>2. \A k \in 1 .. 0 : FALSE
    OBVIOUS
  <2>3. \E g \in [0 .. 0 -> V] : Steps(g, base, step, 0)
    BY <2>1, <2>2 DEF Steps
  <2> QED BY <2>3
<1>2. ASSUME NEW m \in 1 .. n, m - 1 \in S PROVE m \in S
  <2>1. PICK g \in [0 .. m - 1 -> V] : g[0] = base /\ \A k \in 1 .. m - 1 : g[k] = step[<<g[k - 1], k>>]
    BY <1>2 DEF Steps
  <2>2. m - 1 \in 0 .. m - 1 /\ g[m - 1] \in V
    OBVIOUS
  <2>3. PICK v \in V : v = step[<<g[m - 1], m>>]
    BY <2>2
  <2> DEFINE h == [k \in 0 .. m |-> IF k = m THEN v ELSE g[k]]
  <2>4. h[m] = v /\ \A k \in 0 .. m - 1 : h[k] = g[k]
    OBVIOUS
  <2>5. h \in [0 .. m -> V]
    <3>1. \A k \in 0 .. m : k # m => k \in 0 .. m - 1
      OBVIOUS
    <3> QED BY <2>1, <3>1
  <2> HIDE DEF h
  <2>6. h[0] = base
    <3>1. 0 \in 0 .. m - 1
      OBVIOUS
    <3> QED BY <2>1, <2>4, <3>1
  <2>7. ASSUME NEW k \in 1 .. m PROVE h[k] = step[<<h[k - 1], k>>]
    <3>1. k - 1 \in 0 .. m - 1
      OBVIOUS
    <3>2. h[k - 1] = g[k - 1]
      BY <2>4, <3>1
    <3>3. CASE k = m
      BY <2>3, <2>4, <3>2, <3>3
    <3>4. CASE k # m
      <4>1. k \in 1 .. m - 1 /\ k \in 0 .. m - 1
        BY <3>4
      <4> QED BY <2>1, <2>4, <3>2, <4>1
    <3> QED BY <3>3, <3>4
  <2>8. Steps(h, base, step, m)
    BY <2>6, <2>7 DEF Steps
  <2> QED BY <2>5, <2>8
<1>3. \A k \in 0 .. n : k \in S
  <2> HIDE DEF S
  <2> QED BY <1>1, <1>2, UpTo
<1>4. n \in 0 .. n
  OBVIOUS
<1> QED BY <1>3, <1>4

(* A list of sums is as its steps say.                                     *)
Sums(g, s, n) == g = [k \in 0 .. n |-> IF k = 0 THEN 0 ELSE g[k - 1] + s[k]]

LEMMA SumsExist ==
    ASSUME NEW n \in Nat, NEW s, \A k \in 1 .. n : s[k] \in Int
    PROVE  \E g : Sums(g, s, n)
<1>1. PICK step \in [Int \X (1 .. n) -> Int] : \A x \in Int, k \in 1 .. n : step[<<x, k>>] = x + s[k]
  <2> DEFINE f == [p \in Int \X (1 .. n) |-> p[1] + s[p[2]]]
  <2>1. f \in [Int \X (1 .. n) -> Int] /\ \A x \in Int, k \in 1 .. n : f[<<x, k>>] = x + s[k]
    OBVIOUS
  <2> HIDE DEF f
  <2> QED BY <2>1
<1>2. PICK h \in [0 .. n -> Int] : h[0] = 0 /\ \A k \in 1 .. n : h[k] = step[<<h[k - 1], k>>]
  <2>1. 0 \in Int
    OBVIOUS
  <2>2. \E g \in [0 .. n -> Int] : Steps(g, 0, step, n)
    BY <2>1, StepsExist
  <2> QED BY <2>2 DEF Steps
<1>3. ASSUME NEW k \in 1 .. n PROVE k \in 0 .. n /\ h[k] = h[k - 1] + s[k]
  <2>1. k - 1 \in 0 .. n /\ k \in 0 .. n
    OBVIOUS
  <2>2. h[k - 1] \in Int
    BY <2>1
  <2> QED BY <1>1, <1>2, <2>1, <2>2
<1>4. ASSUME NEW k \in 0 .. n PROVE h[k] = IF k = 0 THEN 0 ELSE h[k - 1] + s[k]
  <2>1. k # 0 => k \in 1 .. n
    OBVIOUS
  <2> QED BY <1>2, <1>3, <2>1
<1>5. Sums(h, s, n)
  BY <1>4 DEF Sums
<1> QED BY <1>5

(* A sum is what its last step reaches.                                    *)
Adds(g, s, n) == /\ g \in [0 .. n -> Int] /\ g[0] = 0 /\ Total(s, n) = g[n]
                 /\ \A k \in 1 .. n : g[k] = g[k - 1] + s[k]

LEMMA TotalSteps ==
    ASSUME NEW n \in Nat, NEW s, \A k \in 1 .. n : s[k] \in Int
    PROVE  \E g : Adds(g, s, n)
<1> DEFINE c == CHOOSE g : Sums(g, s, n)
<1>1. Sums(c, s, n)
  BY SumsExist
<1>2. Total(s, n) = c[n]
  BY DEF Total, Sums
<1> HIDE DEF c
<1>3. /\ c = [k \in 0 .. n |-> c[k]] /\ c[0] = 0
      /\ \A k \in 1 .. n : c[k] = c[k - 1] + s[k]
  <2>1. 0 \in 0 .. n /\ \A k \in 1 .. n : k \in 0 .. n /\ k # 0
    OBVIOUS
  <2>2. c = [k \in 0 .. n |-> c[k]]
    BY <1>1 DEF Sums
  <2>3. c[0] = 0
    BY <1>1, <2>1 DEF Sums
  <2>4. \A k \in 1 .. n : c[k] = c[k - 1] + s[k]
    BY <1>1, <2>1 DEF Sums
  <2> QED BY <2>2, <2>3, <2>4
<1> DEFINE S == {k \in 0 .. n : c[k] \in Int}
<1>4. 0 \in S
  BY <1>3
<1>5. ASSUME NEW k \in 1 .. n, k - 1 \in S PROVE k \in S
  <2>1. c[k - 1] \in Int /\ s[k] \in Int
    BY <1>5
  <2>2. c[k] = c[k - 1] + s[k]
    BY <1>3
  <2>3. c[k] \in Int
    BY <2>1, <2>2
  <2> QED BY <2>3
<1>6. c \in [0 .. n -> Int]
  <2>1. \A k \in 0 .. n : k \in S
    <3> HIDE DEF S
    <3> QED BY <1>4, <1>5, UpTo
  <2>2. \A k \in 0 .. n : c[k] \in Int
    BY <2>1
  <2> QED BY <1>3, <2>2
<1> QED BY <1>2, <1>3, <1>6 DEF Adds

(* When one number changes, the sum changes by as much.                    *)
LEMMA TotalChanges ==
    ASSUME NEW n \in Nat, NEW s, NEW t, NEW q \in 1 .. n,
           \A k \in 1 .. n : s[k] \in Int /\ t[k] \in Int /\ (k # q => t[k] = s[k])
    PROVE  /\ Total(s, n) \in Int /\ Total(t, n) \in Int
           /\ Total(t, n) = Total(s, n) + (t[q] - s[q])
<1>1. PICK g : Adds(g, s, n)
  BY TotalSteps
<1>2. PICK h : Adds(h, t, n)
  BY TotalSteps
<1> DEFINE S == {k \in 0 .. n : h[k] = g[k] + (IF q <= k THEN t[q] - s[q] ELSE 0)}
<1>3. 0 \in S
  BY <1>1, <1>2 DEF Adds
<1>4. ASSUME NEW k \in 1 .. n, k - 1 \in S PROVE k \in S
  <2>1. k - 1 \in 0 .. n /\ k \in 0 .. n
    OBVIOUS
  <2>2. /\ g[k] \in Int /\ h[k] \in Int /\ g[k - 1] \in Int /\ h[k - 1] \in Int
        /\ s[k] \in Int /\ t[k] \in Int /\ s[q] \in Int /\ t[q] \in Int
    BY <1>1, <1>2, <2>1 DEF Adds
  <2>3. g[k] = g[k - 1] + s[k] /\ h[k] = h[k - 1] + t[k]
    BY <1>1, <1>2 DEF Adds
  <2>4. h[k - 1] = g[k - 1] + (IF q <= k - 1 THEN t[q] - s[q] ELSE 0)
    BY <1>4
  <2>5. h[k] = g[k] + (IF q <= k THEN t[q] - s[q] ELSE 0)
    <3>1. CASE k = q
      <4>1. ~(q <= k - 1) /\ q <= k
        BY <3>1
      <4> QED BY <2>2, <2>3, <2>4, <3>1, <4>1
    <3>2. CASE k # q
      <4>1. t[k] = s[k] /\ (q <= k - 1 <=> q <= k)
        BY <3>2
      <4>2. CASE q <= k
        BY <2>2, <2>3, <2>4, <4>1, <4>2
      <4>3. CASE ~(q <= k)
        BY <2>2, <2>3, <2>4, <4>1, <4>3
      <4> QED BY <4>2, <4>3
    <3> QED BY <3>1, <3>2
  <2> QED BY <2>1, <2>5
<1>5. n \in 0 .. n /\ q <= n
  OBVIOUS
<1>6. n \in S
  <2> HIDE DEF S
  <2>1. \A k \in 0 .. n : k \in S
    BY <1>3, <1>4, UpTo
  <2> QED BY <1>5, <2>1
<1> QED BY <1>1, <1>2, <1>5, <1>6 DEF Adds

LEMMA OneGrows ==
    ASSUME NEW n \in Nat, NEW s, NEW t, NEW q \in 1 .. n,
           \A k \in 1 .. n : s[k] \in Int /\ t[k] \in Int /\ (k # q => t[k] = s[k]),
           s[q] <= t[q]
    PROVE  Total(s, n) <= Total(t, n)
<1>1. /\ Total(s, n) \in Int /\ Total(t, n) \in Int
      /\ Total(t, n) = Total(s, n) + (t[q] - s[q])
  BY TotalChanges
<1>2. s[q] \in Int /\ t[q] \in Int
  OBVIOUS
<1> QED BY <1>1, <1>2

LEMMA TwoGrow ==
    ASSUME NEW n \in Nat, NEW s, NEW t, NEW p \in 1 .. n, NEW q \in 1 .. n, p # q,
           \A k \in 1 .. n : s[k] \in Int /\ t[k] \in Int /\ (k # p /\ k # q => t[k] = s[k]),
           s[p] + s[q] <= t[p] + t[q]
    PROVE  Total(s, n) <= Total(t, n)
<1> DEFINE u == [k \in 1 .. n |-> IF k = p THEN t[p] ELSE s[k]]
<1>1. u[p] = t[p] /\ u[q] = s[q] /\ \A k \in 1 .. n : u[k] \in Int /\ (k # p => u[k] = s[k])
                                                      /\ (k # q => t[k] = u[k])
  OBVIOUS
<1> HIDE DEF u
<1>2. /\ Total(s, n) \in Int /\ Total(u, n) \in Int
      /\ Total(u, n) = Total(s, n) + (u[p] - s[p])
  BY <1>1, TotalChanges
<1>3. /\ Total(t, n) \in Int
      /\ Total(t, n) = Total(u, n) + (t[q] - u[q])
  BY <1>1, TotalChanges
<1>4. s[p] \in Int /\ t[p] \in Int /\ s[q] \in Int /\ t[q] \in Int
  OBVIOUS
<1> QED BY <1>1, <1>2, <1>3, <1>4

(* Zeros after the others add nothing.                                     *)
LEMMA TotalPadded ==
    ASSUME NEW n \in Nat, NEW m \in Nat, n <= m, NEW s, NEW t,
           \A k \in 1 .. n : s[k] \in Int,
           \A k \in 1 .. m : t[k] = IF k <= n THEN s[k] ELSE 0
    PROVE  Total(t, m) = Total(s, n)
<1>0. \A k \in 1 .. m : t[k] \in Int
  <2>1. \A k \in 1 .. m : k <= n => k \in 1 .. n
    OBVIOUS
  <2> QED BY <2>1
<1>1. PICK g : Adds(g, s, n)
  BY TotalSteps
<1>2. PICK h : Adds(h, t, m)
  BY <1>0, TotalSteps
<1> DEFINE S == {k \in 0 .. m : IF k <= n THEN h[k] = g[k] ELSE h[k] = g[n]}
<1>3. 0 \in S
  BY <1>1, <1>2 DEF Adds
<1>4. ASSUME NEW k \in 1 .. m, k - 1 \in S PROVE k \in S
  <2>1. k - 1 \in 0 .. m /\ k \in 0 .. m /\ h[k] = h[k - 1] + t[k]
    BY <1>2 DEF Adds
  <2>2. h[k - 1] \in Int /\ t[k] \in Int
    BY <1>0, <1>2, <2>1 DEF Adds
  <2>3. CASE k <= n
    <3>1. k \in 1 .. n /\ k - 1 <= n
      BY <2>3
    <3>2. h[k - 1] = g[k - 1] /\ g[k] = g[k - 1] + s[k] /\ t[k] = s[k]
      BY <1>1, <1>4, <2>3, <3>1 DEF Adds
    <3>3. h[k] = g[k]
      BY <2>1, <3>2
    <3> QED BY <2>1, <2>3, <3>3
  <2>4. CASE ~(k <= n)
    <3>1. h[k - 1] = g[n]
      <4>1. k - 1 <= n => k - 1 = n
        BY <2>4
      <4> QED BY <1>4, <4>1
    <3>2. t[k] = 0
      BY <2>4
    <3>3. h[k] = g[n]
      BY <2>1, <2>2, <3>1, <3>2
    <3> QED BY <2>1, <2>4, <3>3
  <2> QED BY <2>3, <2>4
<1>5. m \in S
  <2> HIDE DEF S
  <2>1. \A k \in 0 .. m : k \in S
    BY <1>3, <1>4, UpTo
  <2> QED BY <2>1
<1>6. m <= n => m = n
  OBVIOUS
<1> QED BY <1>1, <1>2, <1>5, <1>6 DEF Adds

(* Of two numbers, the larger times the larger of two others is worth it.  *)
LEMMA LargerFirst ==
    ASSUME NEW x \in Nat, NEW y \in Nat, NEW u \in Nat, NEW v \in Nat, y <= x, v <= u
    PROVE  /\ x * u \in Nat /\ y * u \in Nat /\ x * v \in Nat /\ y * v \in Nat
           /\ y * u <= x * u /\ y * u + x * v <= x * u + y * v
<1>1. PICK e \in Nat : x = y + e
  <2>1. x - y \in Nat /\ x = y + (x - y)
    OBVIOUS
  <2> QED BY <2>1
<1>2. PICK f \in Nat : u = v + f
  <2>1. u - v \in Nat /\ u = v + (u - v)
    OBVIOUS
  <2> QED BY <2>1
<1>3. /\ y * v \in Nat /\ y * f \in Nat /\ e * v \in Nat /\ e * f \in Nat
  OBVIOUS
<1>4. y * u = y * v + y * f /\ x * v = y * v + e * v
  BY <1>1, <1>2
<1>5. x * u = y * v + y * f + (e * v + e * f)
  BY <1>1, <1>2
<1> QED BY <1>3, <1>4, <1>5

(* What places are worth that a gives the members of h, by what each place *)
(* counts.                                                                 *)
Worth(h, d, a, n) == [i \in 1 .. n |-> h[a[i]] * d[i]]
OneToOne(a, n, m) == a \in [1 .. n -> 1 .. m] /\ \A i, j \in 1 .. n : a[i] = a[j] => i = j
Falling(h, m) == (\A i \in 1 .. m : h[i] \in Nat) /\ \A i, j \in 1 .. m : i <= j => h[j] <= h[i]

LEMMA WorthTyped ==
    ASSUME NEW n \in Nat, NEW m \in Nat, NEW h, NEW d, NEW a, Falling(h, m), Falling(d, n), OneToOne(a, n, m)
    PROVE  \A i \in 1 .. n : /\ a[i] \in 1 .. m /\ h[a[i]] \in Nat /\ d[i] \in Nat
                             /\ Worth(h, d, a, n)[i] = h[a[i]] * d[i] /\ Worth(h, d, a, n)[i] \in Int
<1> SUFFICES ASSUME NEW i \in 1 .. n
             PROVE  /\ a[i] \in 1 .. m /\ h[a[i]] \in Nat /\ d[i] \in Nat
                    /\ Worth(h, d, a, n)[i] = h[a[i]] * d[i] /\ Worth(h, d, a, n)[i] \in Int
  OBVIOUS
<1>1. a[i] \in 1 .. m /\ h[a[i]] \in Nat /\ d[i] \in Nat
  BY DEF Falling, OneToOne
<1>2. h[a[i]] * d[i] \in Int
  BY <1>1
<1>3. Worth(h, d, a, n)[i] = h[a[i]] * d[i]
  BY DEF Worth
<1> QED BY <1>1, <1>2, <1>3

(* Giving place p its own number is worth no less, if the places before it *)
(* have theirs: the number it had goes to the place that had p, if any.    *)
LEMMA OwnPlace ==
    ASSUME NEW n \in Nat, NEW m \in Nat, n <= m, NEW h, NEW d, NEW b, NEW p \in 1 .. n,
           Falling(h, m), Falling(d, n), OneToOne(b, n, m), \A i \in 1 .. p - 1 : b[i] = i
    PROVE  \E c : /\ OneToOne(c, n, m) /\ \A i \in 1 .. p : c[i] = i
                  /\ Total(Worth(h, d, b, n), n) <= Total(Worth(h, d, c, n), n)
<1>1. p \in 1 .. m /\ b[p] \in 1 .. m /\ \A i \in 1 .. n : b[i] \in 1 .. m
  BY DEF OneToOne
<1>2. \A i \in 1 .. p - 1 : i \in 1 .. n /\ i # p
  OBVIOUS
<1>3. p <= b[p]
  <2> SUFFICES ASSUME b[p] < p PROVE FALSE
    BY <1>1
  <2>1. b[p] \in 1 .. p - 1
    BY <1>1
  <2>2. b[b[p]] = b[p]
    BY <2>1
  <2> QED BY <1>2, <2>1, <2>2 DEF OneToOne
<1>4. /\ h[b[p]] \in Nat /\ h[p] \in Nat /\ h[b[p]] <= h[p]
      /\ d[p] \in Nat
  BY <1>1, <1>3 DEF Falling
<1>5. CASE \A j \in 1 .. n : j # p => b[j] # p
  <2> DEFINE c == [b EXCEPT ![p] = p]
  <2>1. c[p] = p /\ \A i \in 1 .. n : i # p => c[i] = b[i]
    BY DEF OneToOne
  <2>2. c \in [1 .. n -> 1 .. m]
    BY <1>1 DEF OneToOne
  <2> HIDE DEF c
  <2>3. OneToOne(c, n, m)
    <3>1. ASSUME NEW i \in 1 .. n, NEW j \in 1 .. n, c[i] = c[j] PROVE i = j
      <4>1. CASE i = p
        BY <1>5, <2>1, <3>1, <4>1
      <4>2. CASE j = p
        BY <1>5, <2>1, <3>1, <4>2
      <4>3. CASE i # p /\ j # p
        BY <2>1, <3>1, <4>3 DEF OneToOne
      <4> QED BY <4>1, <4>2, <4>3
    <3> QED BY <2>2, <3>1 DEF OneToOne
  <2>4. \A i \in 1 .. p : c[i] = i
    <3>1. \A i \in 1 .. p : i = p \/ i \in 1 .. p - 1
      OBVIOUS
    <3> QED BY <1>2, <2>1, <3>1
  <2> DEFINE s == Worth(h, d, b, n)
             t == Worth(h, d, c, n)
  <2>5. \A i \in 1 .. n : s[i] \in Int /\ s[i] = h[b[i]] * d[i]
    BY WorthTyped
  <2>6. \A i \in 1 .. n : t[i] \in Int /\ t[i] = h[c[i]] * d[i]
    BY <2>3, WorthTyped
  <2> HIDE DEF s, t
  <2>7. \A i \in 1 .. n : i # p => t[i] = s[i]
    BY <2>1, <2>5, <2>6
  <2>8. s[p] <= t[p]
    <3>1. h[b[p]] * d[p] <= h[p] * d[p]
      BY <1>4, LargerFirst
    <3>2. s[p] = h[b[p]] * d[p] /\ t[p] = h[p] * d[p]
      BY <2>1, <2>5, <2>6
    <3> QED BY <3>1, <3>2
  <2>9. Total(s, n) <= Total(t, n)
    BY <2>5, <2>6, <2>7, <2>8, OneGrows
  <2> QED BY <2>3, <2>4, <2>9 DEF s, t
<1>6. ASSUME NEW q \in 1 .. n, q # p, b[q] = p
      PROVE  \E c : /\ OneToOne(c, n, m) /\ \A i \in 1 .. p : c[i] = i
                    /\ Total(Worth(h, d, b, n), n) <= Total(Worth(h, d, c, n), n)
  <2>0. p < q
    <3>1. q \in 1 .. p - 1 => b[q] = q
      OBVIOUS
    <3> QED BY <1>6, <3>1
  <2> DEFINE c == [i \in 1 .. n |-> IF i = p THEN p ELSE IF i = q THEN b[p] ELSE b[i]]
  <2>1. c[p] = p /\ c[q] = b[p] /\ \A i \in 1 .. n : i # p /\ i # q => c[i] = b[i]
    BY <1>6
  <2>2. c \in [1 .. n -> 1 .. m]
    BY <1>1
  <2> HIDE DEF c
  <2>3. OneToOne(c, n, m)
    <3>1. \A i, j \in 1 .. n : b[i] = b[j] => i = j
      BY DEF OneToOne
    <3>2. ASSUME NEW i \in 1 .. n, NEW j \in 1 .. n, c[i] = c[j] PROVE i = j
      BY <1>6, <2>1, <3>1, <3>2
    <3> QED BY <2>2, <3>2 DEF OneToOne
  <2>4. \A i \in 1 .. p : c[i] = i
    <3>1. \A i \in 1 .. p : i = p \/ (i \in 1 .. p - 1 /\ i # q)
      BY <2>0
    <3> QED BY <1>2, <2>1, <3>1
  <2> DEFINE s == Worth(h, d, b, n)
             t == Worth(h, d, c, n)
  <2>5. \A i \in 1 .. n : s[i] \in Int /\ s[i] = h[b[i]] * d[i]
    BY WorthTyped
  <2>6. \A i \in 1 .. n : t[i] \in Int /\ t[i] = h[c[i]] * d[i]
    BY <2>3, WorthTyped
  <2> HIDE DEF s, t
  <2>7. \A i \in 1 .. n : i # p /\ i # q => t[i] = s[i]
    BY <2>1, <2>5, <2>6
  <2>8. s[p] + s[q] <= t[p] + t[q]
    <3>1. h[b[p]] \in Nat /\ h[p] \in Nat /\ h[b[p]] <= h[p]
      BY <1>4
    <3>2. d[p] \in Nat /\ d[q] \in Nat /\ d[q] <= d[p]
      BY <2>0 DEF Falling
    <3>3. h[b[p]] * d[p] + h[p] * d[q] <= h[p] * d[p] + h[b[p]] * d[q]
      BY <3>1, <3>2, LargerFirst
    <3>4. s[p] = h[b[p]] * d[p] /\ s[q] = h[p] * d[q]
      BY <1>6, <2>5
    <3>5. t[p] = h[p] * d[p] /\ t[q] = h[b[p]] * d[q]
      BY <1>6, <2>1, <2>6
    <3> QED BY <3>3, <3>4, <3>5
  <2>9. Total(s, n) <= Total(t, n)
    <3>1. \A k \in 1 .. n : s[k] \in Int /\ t[k] \in Int /\ (k # p /\ k # q => t[k] = s[k])
      BY <2>5, <2>6, <2>7
    <3> QED BY <1>6, <2>8, <3>1, TwoGrow
  <2> QED BY <2>3, <2>4, <2>9 DEF s, t
<1> QED BY <1>5, <1>6

(* The best is worth the most where it counts the most.                    *)
LEMMA BestInOrder ==
    ASSUME NEW n \in Nat, NEW m \in Nat, n <= m, NEW h, NEW d, NEW a,
           Falling(h, m), Falling(d, n), OneToOne(a, n, m)
    PROVE  Total(Worth(h, d, a, n), n) <= Total([i \in 1 .. n |-> h[i] * d[i]], n)
<1> DEFINE Better(b) == Total(Worth(h, d, a, n), n) <= Total(Worth(h, d, b, n), n)
           S == {p \in 0 .. n : \E b : OneToOne(b, n, m) /\ (\A i \in 1 .. p : b[i] = i) /\ Better(b)}
<1>0. \A b : OneToOne(b, n, m) => Total(Worth(h, d, b, n), n) \in Int
  <2> SUFFICES ASSUME NEW b, OneToOne(b, n, m) PROVE Total(Worth(h, d, b, n), n) \in Int
    OBVIOUS
  <2> PICK s : s = Worth(h, d, b, n)
    OBVIOUS
  <2>1. \A i \in 1 .. n : s[i] \in Int
    BY WorthTyped
  <2>2. \E g : Adds(g, s, n)
    BY <2>1, TotalSteps
  <2> QED BY <2>2 DEF Adds
<1>1. 0 \in S
  <2>1. Better(a)
    BY <1>0
  <2>2. \A i \in 1 .. 0 : a[i] = i
    OBVIOUS
  <2> HIDE DEF Better
  <2> QED BY <2>1, <2>2
<1>2. ASSUME NEW p \in 1 .. n, p - 1 \in S PROVE p \in S
  <2>1. PICK b : OneToOne(b, n, m) /\ (\A i \in 1 .. p - 1 : b[i] = i) /\ Better(b)
    BY <1>2
  <2>2. PICK c : /\ OneToOne(c, n, m) /\ \A i \in 1 .. p : c[i] = i
                 /\ Total(Worth(h, d, b, n), n) <= Total(Worth(h, d, c, n), n)
    BY <2>1, OwnPlace
  <2>3. Better(c)
    BY <1>0, <2>1, <2>2
  <2> HIDE DEF Better
  <2> QED BY <2>2, <2>3
<1>3. n \in S
  <2> HIDE DEF S
  <2>1. \A k \in 0 .. n : k \in S
    BY <1>1, <1>2, UpTo
  <2> QED BY <2>1
<1>4. PICK b : OneToOne(b, n, m) /\ (\A i \in 1 .. n : b[i] = i) /\ Better(b)
  BY <1>3
<1>5. Worth(h, d, b, n) = [i \in 1 .. n |-> h[i] * d[i]]
  BY <1>4 DEF Worth
<1> QED BY <1>4, <1>5
=============================================================================
