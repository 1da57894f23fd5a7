---------------------------- MODULE RankingProofs ----------------------------
(***************************************************************************)
(* Lemmas about Ranking, which the proofs about sequences that are put in  *)
(* an order rest on.                                                       *)
(***************************************************************************)
EXTENDS Ranking, FiniteSetTheorems, TLAPS

\* A strict order of all members of a set, as a set of pairs.
StrictOrder(R, S) ==
    /\ \A d \in S : <<d, d>> \notin R
    /\ \A d, e \in S : d # e => <<d, e>> \in R \/ <<e, d>> \in R
    /\ \A d, e, f \in S : <<d, e>> \in R /\ <<e, f>> \in R => <<d, f>> \in R

\* How many come before each, and that these numbers go up with the order and are
\* all numbers up to the size of the set.
Places(S, R) == [d \in S |-> Cardinality({e \in S : <<e, d>> \in R})]
InSteps(n, S, R) ==
    /\ Cardinality(S) \in Nat /\ n \in [S -> 0..Cardinality(S) - 1]
    /\ \A d, e \in S : <<d, e>> \in R => n[d] < n[e]
    /\ \A i \in 0..Cardinality(S) - 1 : \E d \in S : n[d] = i

\* Whoever comes later has more members before it, and every number of members
\* is before one of them.
LEMMA PlacesAreSteps ==
  ASSUME NEW S, IsFiniteSet(S), NEW R, StrictOrder(R, S)
  PROVE  InSteps(Places(S, R), S, R)
  <1> DEFINE Before(d) == {e \in S : <<e, d>> \in R}
             n == Cardinality(S)
             f == Places(S, R)
  <1>1. n \in Nat
    BY FS_CardinalityType
  <1>2. \A d \in S : IsFiniteSet(Before(d)) /\ Cardinality(Before(d)) \in Nat
    BY FS_Subset, FS_CardinalityType
  <1>3. \A d \in S : Cardinality(Before(d)) < n
    <2> SUFFICES ASSUME NEW d \in S PROVE Cardinality(Before(d)) < n
      OBVIOUS
    <2>1. Before(d) \in SUBSET S /\ d \notin Before(d)
      BY DEF StrictOrder
    <2> HIDE DEF Before
    <2>2. Cardinality(Before(d)) <= n /\ Cardinality(Before(d)) # n
      BY <2>1, FS_Subset
    <2>3. QED BY <1>1, <1>2, <2>2
  <1>4. ASSUME NEW d \in S, NEW e \in S, <<d, e>> \in R
        PROVE  Cardinality(Before(d)) < Cardinality(Before(e))
    <2>1. Before(d) \in SUBSET Before(e) /\ d \in Before(e) /\ d \notin Before(d)
      BY <1>4 DEF StrictOrder
    <2>2. IsFiniteSet(Before(e)) /\ Cardinality(Before(e)) \in Nat /\ Cardinality(Before(d)) \in Nat
      BY <1>2
    <2> HIDE DEF Before
    <2>3. Cardinality(Before(d)) <= Cardinality(Before(e))
          /\ Cardinality(Before(d)) # Cardinality(Before(e))
      BY <2>1, <2>2, FS_Subset
    <2>4. QED BY <2>2, <2>3
  <1>5. f = [d \in S |-> Cardinality(Before(d))]
    BY DEF Places
  <1> HIDE DEF Before, f
  <1>6. f \in [S -> 0..n - 1]
    BY <1>1, <1>2, <1>3, <1>5
  <1>7. \A d, e \in S : <<d, e>> \in R => f[d] < f[e]
    BY <1>4, <1>5
  <1>8. f \in Injection(S, 0..n - 1)
    <2> SUFFICES ASSUME NEW d \in S, NEW e \in S, d # e PROVE f[d] # f[e]
      BY <1>6 DEF Injection, IsInjective
    <2>1. <<d, e>> \in R \/ <<e, d>> \in R
      BY DEF StrictOrder
    <2>2. f[d] \in 0..n - 1 /\ f[e] \in 0..n - 1
      BY <1>6
    <2>3. QED BY <1>1, <1>7, <2>1, <2>2
  <1>9. IsFiniteSet(0..n - 1) /\ Cardinality(0..n - 1) = n
    BY <1>1, FS_Interval
  <1> HIDE DEF n
  <1>10. f \in Surjection(S, 0..n - 1)
    BY <1>8, <1>9, FS_Injection DEF n
  <1>11. \A i \in 0..n - 1 : \E d \in S : f[d] = i
    BY <1>10 DEF Surjection
  <1>12. QED BY <1>1, <1>6, <1>7, <1>11 DEF InSteps, n, f

\* The same of an order given by a function that tells the members apart.
LEMMA RanksAreAll ==
  ASSUME NEW S, IsFiniteSet(S), NEW v, \A d \in S : v[d] \in Int,
         \A d, e \in S : d # e => v[d] # v[e]
  PROVE  /\ Cardinality(S) \in Nat
         /\ \A d \in S : Ahead(S, v, d) \in 0..Cardinality(S) - 1
         /\ \A d, e \in S : v[d] < v[e] => Ahead(S, v, d) < Ahead(S, v, e)
         /\ \A i \in 0..Cardinality(S) - 1 : \E d \in S : Ahead(S, v, d) = i
  <1> DEFINE R == {p \in S \X S : v[p[1]] < v[p[2]]}
             n == Places(S, R)
  <1>1. \A d, e \in S : <<d, e>> \in R <=> v[d] < v[e]
    OBVIOUS
  <1> HIDE DEF R
  <1>2. StrictOrder(R, S)
    BY <1>1 DEF StrictOrder
  <1>3. InSteps(n, S, R)
    BY <1>2, PlacesAreSteps
  <1>4. \A d \in S : n[d] = Ahead(S, v, d)
    <2> SUFFICES ASSUME NEW d \in S PROVE n[d] = Ahead(S, v, d)
      OBVIOUS
    <2>1. \A e \in S : <<e, d>> \in R <=> v[e] < v[d]
      BY <1>1
    <2>2. {e \in S : <<e, d>> \in R} = {e \in S : v[e] < v[d]}
      BY ONLY <2>1
    <2>3. QED BY <2>2 DEF Places, Ahead
  <1> HIDE DEF n
  <1>5. Cardinality(S) \in Nat /\ \A d \in S : Ahead(S, v, d) \in 0..Cardinality(S) - 1
    BY ONLY <1>3, <1>4 DEF InSteps
  <1>6. \A d, e \in S : v[d] < v[e] => Ahead(S, v, d) < Ahead(S, v, e)
    <2> SUFFICES ASSUME NEW d \in S, NEW e \in S, v[d] < v[e]
                 PROVE  Ahead(S, v, d) < Ahead(S, v, e)
      OBVIOUS
    <2>1. n[d] < n[e]
      BY <1>1, <1>3 DEF InSteps
    <2>2. QED BY <1>4, <2>1
  <1>7. \A i \in 0..Cardinality(S) - 1 : \E d \in S : Ahead(S, v, d) = i
    BY ONLY <1>3, <1>4 DEF InSteps
  <1>8. QED BY <1>5, <1>6, <1>7

\* A list of the members of a set, each once, in the order of v.
InOrder(list, S, v) ==
    /\ Cardinality(S) \in Nat /\ list \in [1..Cardinality(S) -> S]
    /\ \A d \in S : \E i \in 1..Cardinality(S) : list[i] = d
    /\ \A i, j \in 1..Cardinality(S) : i < j => v[list[i]] < v[list[j]]

\* Enumerated has each member of the set once, in its order.
LEMMA EnumeratedInOrder ==
  ASSUME NEW S, IsFiniteSet(S), NEW v, \A d \in S : v[d] \in Int,
         \A d, e \in S : d # e => v[d] # v[e]
  PROVE  InOrder(Enumerated(S, v), S, v)
  <1> DEFINE n == Cardinality(S)
             E == Enumerated(S, v)
  <1>1. /\ n \in Nat /\ \A d \in S : Ahead(S, v, d) \in 0..n - 1
        /\ \A d, e \in S : v[d] < v[e] => Ahead(S, v, d) < Ahead(S, v, e)
        /\ \A i \in 0..n - 1 : \E d \in S : Ahead(S, v, d) = i
    BY RanksAreAll
  <1> HIDE DEF n
  <1>2. E = [i \in 1..n |-> CHOOSE d \in S : Ahead(S, v, d) = i - 1]
    BY DEF Enumerated, n
  <1> HIDE DEF E
  <1>3. \A i \in 1..n : E[i] \in S /\ Ahead(S, v, E[i]) = i - 1
    <2> SUFFICES ASSUME NEW i \in 1..n PROVE E[i] \in S /\ Ahead(S, v, E[i]) = i - 1
      OBVIOUS
    <2>1. i - 1 \in 0..n - 1
      BY <1>1
    <2>2. \E d \in S : Ahead(S, v, d) = i - 1
      BY <1>1, <2>1
    <2>3. E[i] = CHOOSE d \in S : Ahead(S, v, d) = i - 1
      BY <1>2
    <2>4. QED BY <2>2, <2>3, Zenon
  <1>4. E \in [1..n -> S]
    BY <1>2, <1>3
  <1>5. \A i, j \in 1..n : i < j => v[E[i]] < v[E[j]]
    <2> SUFFICES ASSUME NEW i \in 1..n, NEW j \in 1..n, i < j PROVE v[E[i]] < v[E[j]]
      OBVIOUS
    <2>1. E[i] \in S /\ E[j] \in S /\ Ahead(S, v, E[i]) = i - 1 /\ Ahead(S, v, E[j]) = j - 1
      BY <1>3
    <2>2. ~(v[E[j]] < v[E[i]])
      <3>1. i \in Int /\ j \in Int
        BY <1>1
      <3>2. QED BY <1>1, <2>1, <3>1
    <2>3. E[i] # E[j]
      BY <1>1, <2>1
    <2>4. QED BY <2>1, <2>2, <2>3
  <1>6. ASSUME NEW d \in S PROVE \E i \in 1..n : E[i] = d
    <2>1. Ahead(S, v, d) + 1 \in 1..n
      BY <1>1
    <2> DEFINE i == Ahead(S, v, d) + 1
    <2>2. E[i] \in S /\ Ahead(S, v, E[i]) = Ahead(S, v, d)
      BY <1>1, <1>3, <2>1
    <2>3. E[i] = d
      <3> HIDE DEF i
      <3>1. v[E[i]] \in Int /\ v[d] \in Int
        BY <2>2
      <3>2. ~(v[E[i]] < v[d]) /\ ~(v[d] < v[E[i]])
        BY <1>1, <2>2
      <3>3. QED BY <2>2, <3>1, <3>2
    <2>4. QED BY <2>1, <2>3
  <1>7. QED BY <1>1, <1>4, <1>5, <1>6 DEF n, E, InOrder

\* The positions of a set of positions, each once and in order.
LEMMA InPlaceIs ==
  ASSUME NEW n \in Nat, NEW S \in SUBSET (1..n)
  PROVE  /\ Cardinality(S) \in Nat /\ InPlace(S) \in [1..Cardinality(S) -> S]
         /\ \A i \in S : \E j \in 1..Cardinality(S) : InPlace(S)[j] = i
         /\ \A i, j \in 1..Cardinality(S) : i < j => InPlace(S)[i] < InPlace(S)[j]
  <1> DEFINE v == [i \in S |-> i]
  <1>1. IsFiniteSet(S)
    <2>1. IsFiniteSet(1..n)
      BY FS_Interval
    <2>2. QED BY <2>1, FS_Subset
  <1>2. \A i \in S : v[i] \in Int
    OBVIOUS
  <1>3. \A i, j \in S : i # j => v[i] # v[j]
    OBVIOUS
  <1>4. \A i \in S : v[i] = i
    OBVIOUS
  <1> HIDE DEF v
  <1>5. InOrder(Enumerated(S, v), S, v)
    BY <1>1, <1>2, <1>3, EnumeratedInOrder
  <1>6. InPlace(S) = Enumerated(S, v)
    BY DEF InPlace, v
  <1> DEFINE list == InPlace(S)
             n0 == Cardinality(S)
  <1>7. /\ n0 \in Nat /\ list \in [1..n0 -> S]
        /\ \A i \in S : \E j \in 1..n0 : list[j] = i
        /\ \A i, j \in 1..n0 : i < j => v[list[i]] < v[list[j]]
    BY <1>5, <1>6 DEF InOrder
  <1> HIDE DEF list, n0
  <1>8. \A i, j \in 1..n0 : i < j => list[i] < list[j]
    BY <1>4, <1>7
  <1>9. QED BY <1>7, <1>8 DEF list, n0

\* A list of the members of a set in which one is before another exactly when the
\* order has it so.
ListOf(list, n, S, R) ==
    /\ n \in Nat /\ list \in [1..n -> S]
    /\ \A d \in S : \E i \in 1..n : list[i] = d
    /\ \A i, j \in 1..n : <<list[i], list[j]>> \in R <=> i < j

\* The member at a position of such a list has the members before it, and no more,
\* before it.
LEMMA PlacesInAList ==
  ASSUME NEW n, NEW S, NEW R, NEW list, ListOf(list, n, S, R)
  PROVE  /\ IsFiniteSet(S) /\ Cardinality(S) = n
         /\ \A i \in 1..n : Places(S, R)[list[i]] = i - 1
  <1>0. /\ n \in Nat /\ list \in [1..n -> S]
        /\ \A d \in S : \E i \in 1..n : list[i] = d
        /\ \A i, j \in 1..n : <<list[i], list[j]>> \in R <=> i < j
    BY DEF ListOf
  <1>1. ASSUME NEW i \in 1..n, NEW j \in 1..n, list[i] = list[j] PROVE i = j
    <2>1. ~(i < j) /\ ~(j < i)
      <3>1. ~(i < i)
        BY <1>0
      <3>2. QED BY <1>0, <1>1, <3>1
    <2>2. QED BY <1>0, <2>1
  <1>2. list \in Bijection(1..n, S)
    BY <1>0, <1>1 DEF Bijection, Injection, IsInjective, Surjection
  <1>3. IsFiniteSet(1..n) /\ Cardinality(1..n) = n
    BY <1>0, FS_Interval
  <1>4. IsFiniteSet(S) /\ Cardinality(S) = n
    BY <1>2, <1>3, FS_Bijection DEF ExistsBijection
  <1>5. ASSUME NEW i \in 1..n PROVE Places(S, R)[list[i]] = i - 1
    <2> DEFINE B == {e \in S : <<e, list[i]>> \in R}
               f == [j \in 1..i - 1 |-> list[j]]
    <2>1. \A j \in 1..i - 1 : j \in 1..n /\ j < i
      BY <1>0
    <2>2. f \in [1..i - 1 -> B]
      BY <1>0, <2>1
    <2>3. \A e \in B : \E j \in 1..i - 1 : f[j] = e
      <3> SUFFICES ASSUME NEW e \in B PROVE \E j \in 1..i - 1 : f[j] = e
        OBVIOUS
      <3>1. PICK j \in 1..n : list[j] = e
        BY <1>0
      <3>2. j < i
        BY <1>0, <3>1
      <3>3. j \in 1..i - 1
        BY <1>0, <3>2
      <3>4. QED BY <3>1, <3>3
    <2>4. \A j, k \in 1..i - 1 : f[j] = f[k] => j = k
      BY <1>1, <2>1
    <2>5. f \in Bijection(1..i - 1, B)
      <3> HIDE DEF f, B
      <3>1. QED BY <2>2, <2>3, <2>4 DEF Bijection, Injection, IsInjective, Surjection
    <2>6. IsFiniteSet(1..i - 1) /\ Cardinality(1..i - 1) = i - 1
      <3>1. i \in Int /\ i - 1 \in Int /\ 1 \in Int /\ i >= 1
        BY <1>0
      <3>2. QED BY <3>1, FS_Interval
    <2>7. Cardinality(B) = i - 1
      <3> HIDE DEF B, f
      <3>1. QED BY <2>5, <2>6, FS_Bijection DEF ExistsBijection
    <2>8. list[i] \in S
      BY <1>0
    <2>9. QED BY <2>7, <2>8 DEF Places
  <1>6. QED BY <1>4, <1>5

\* Listed has them in such a list.
LEMMA ListedIs ==
  ASSUME NEW S, IsFiniteSet(S), NEW R, StrictOrder(R, S)
  PROVE  ListOf(Listed(S, R), Cardinality(S), S, R)
  <1> DEFINE n == Cardinality(S)
             f == Places(S, R)
             E == Listed(S, R)
  <1>1. InSteps(f, S, R)
    BY PlacesAreSteps
  <1>2. /\ n \in Nat /\ f \in [S -> 0..n - 1]
        /\ \A d, e \in S : <<d, e>> \in R => f[d] < f[e]
        /\ \A i \in 0..n - 1 : \E d \in S : f[d] = i
    BY <1>1 DEF InSteps
  <1>3. \A d \in S : f[d] = Cardinality({e \in S : <<e, d>> \in R})
    BY DEF Places
  <1>4. E = [i \in 1..n |-> CHOOSE d \in S : Cardinality({e \in S : <<e, d>> \in R}) = i - 1]
    BY DEF Listed
  <1> HIDE DEF n, f, E
  <1>5. ASSUME NEW i \in 1..n PROVE E[i] \in S /\ f[E[i]] = i - 1
    <2>1. i - 1 \in 0..n - 1
      BY <1>2
    <2>2. \E d \in S : Cardinality({e \in S : <<e, d>> \in R}) = i - 1
      BY <1>2, <1>3, <2>1
    <2>3. E[i] = CHOOSE d \in S : Cardinality({e \in S : <<e, d>> \in R}) = i - 1
      BY <1>4
    <2>4. E[i] \in S /\ Cardinality({e \in S : <<e, E[i]>> \in R}) = i - 1
      BY <2>2, <2>3, Zenon
    <2>5. QED BY <1>3, <2>4
  <1>6. E \in [1..n -> S]
    BY <1>4, <1>5
  <1>7. ASSUME NEW d \in S, NEW e \in S, f[d] = f[e] PROVE d = e
    <2>1. f[d] \in Int /\ f[e] \in Int
      BY <1>2
    <2>2. <<d, e>> \notin R /\ <<e, d>> \notin R
      BY <1>2, <1>7, <2>1
    <2>3. QED BY <2>2 DEF StrictOrder
  <1>8. ASSUME NEW d \in S PROVE \E i \in 1..n : E[i] = d
    <2>1. f[d] + 1 \in 1..n /\ (f[d] + 1) - 1 = f[d]
      BY <1>2
    <2>2. E[f[d] + 1] \in S /\ f[E[f[d] + 1]] = f[d]
      BY <1>5, <2>1
    <2>3. QED BY <1>7, <2>1, <2>2
  <1>9. ASSUME NEW i \in 1..n, NEW j \in 1..n PROVE <<E[i], E[j]>> \in R <=> i < j
    <2>1. E[i] \in S /\ E[j] \in S /\ f[E[i]] = i - 1 /\ f[E[j]] = j - 1
      BY <1>5
    <2>2. i \in Int /\ j \in Int
      BY <1>2
    <2>3. <<E[i], E[j]>> \in R => i < j
      <3>1. <<E[i], E[j]>> \in R => i - 1 < j - 1
        BY <1>2, <2>1
      <3>2. QED BY <2>2, <3>1
    <2>4. ASSUME i < j PROVE <<E[i], E[j]>> \in R
      <3>1. E[i] # E[j] /\ ~(j - 1 < i - 1)
        BY <2>1, <2>2, <2>4
      <3>2. <<E[j], E[i]>> \notin R
        BY <1>2, <2>1, <3>1
      <3>3. QED BY <2>1, <3>1, <3>2 DEF StrictOrder
    <2>5. QED BY <2>3, <2>4
  <1>10. ListOf(E, n, S, R)
    BY <1>2, <1>6, <1>8, <1>9 DEF ListOf
  <1>11. QED BY <1>10 DEF E, n

\* A list of the members of a set, each once, by a key, the highest first.
SortedDown(list, n, S, v) ==
    /\ n \in Nat /\ list \in [1..n -> S] /\ \A d \in S : \E i \in 1..n : list[i] = d
    /\ \A i, j \in 1..n : i < j => list[i] # list[j] /\ v[list[i]] >= v[list[j]]
    /\ \A i, j \in 1..n : v[list[i]] > v[list[j]] => i < j

\* HighestFirst has them in such a list.
LEMMA HighestFirstIs ==
  ASSUME NEW n \in Nat, NEW S \in SUBSET (1..n), NEW v, \A d \in S : v[d] \in Int
  PROVE  IsFiniteSet(S) /\ SortedDown(HighestFirst(S, v), Cardinality(S), S, v)
  <1> DEFINE R == ByKey(S, v)
             list == HighestFirst(S, v)
             m == Cardinality(S)
  <1>1. \A d, e \in S : <<d, e>> \in R <=> v[d] > v[e] \/ (v[d] = v[e] /\ d < e)
    BY DEF ByKey
  <1>2. \A d \in S : d \in Int /\ v[d] \in Int
    OBVIOUS
  <1> HIDE DEF R
  <1>3. StrictOrder(R, S)
    <2>1. \A d \in S : <<d, d>> \notin R
      BY <1>1, <1>2
    <2>2. \A d, e \in S : d # e => <<d, e>> \in R \/ <<e, d>> \in R
      BY <1>1, <1>2
    <2>3. \A d, e, f \in S : <<d, e>> \in R /\ <<e, f>> \in R => <<d, f>> \in R
      BY <1>1, <1>2
    <2>4. QED BY <2>1, <2>2, <2>3 DEF StrictOrder
  <1>4. IsFiniteSet(S)
    <2>1. IsFiniteSet(1..n)
      BY FS_Interval
    <2>2. QED BY <2>1, FS_Subset
  <1>5. ListOf(list, m, S, R)
    <2>1. ListOf(Listed(S, R), m, S, R)
      BY ONLY <1>3, <1>4, ListedIs
    <2>2. QED BY <2>1 DEF HighestFirst, R
  <1> HIDE DEF list, m
  <1>6. /\ m \in Nat /\ list \in [1..m -> S] /\ \A d \in S : \E i \in 1..m : list[i] = d
        /\ \A i, j \in 1..m : <<list[i], list[j]>> \in R <=> i < j
    BY <1>5 DEF ListOf
  <1>7. ASSUME NEW i \in 1..m, NEW j \in 1..m
        PROVE  i < j <=> v[list[i]] > v[list[j]] \/ (v[list[i]] = v[list[j]] /\ list[i] < list[j])
    <2>1. list[i] \in S /\ list[j] \in S
      BY <1>6
    <2>2. QED BY <1>1, <1>6, <2>1
  <1>8. \A i \in 1..m : list[i] \in Int /\ v[list[i]] \in Int
    BY <1>2, <1>6
  <1>9. \A i, j \in 1..m : i < j => list[i] # list[j] /\ v[list[i]] >= v[list[j]]
    <2> SUFFICES ASSUME NEW i \in 1..m, NEW j \in 1..m, i < j
                 PROVE  list[i] # list[j] /\ v[list[i]] >= v[list[j]]
      OBVIOUS
    <2>1. v[list[i]] > v[list[j]] \/ (v[list[i]] = v[list[j]] /\ list[i] < list[j])
      BY <1>7
    <2>2. QED BY <1>8, <2>1
  <1>10. \A i, j \in 1..m : v[list[i]] > v[list[j]] => i < j
    BY <1>7
  <1>11. SortedDown(list, m, S, v)
    BY <1>6, <1>9, <1>10 DEF SortedDown
  <1>12. QED BY <1>4, <1>11 DEF list, m

\* A list of the numbers up to n that goes up.
GoesUp(list, n) ==
    /\ list \in [1..n -> 1..n] /\ \A d \in 1..n : \E i \in 1..n : list[i] = d
    /\ \A i, j \in 1..n : i < j => list[i] < list[j]

\* The numbers up to n are their own list, and no other list of them goes up.
LEMMA OneListOfNumbers ==
  ASSUME NEW n \in Nat, NEW list, GoesUp(list, n)
  PROVE  list = [i \in 1..n |-> i]
  <1> DEFINE R == {p \in (1..n) \X (1..n) : p[1] < p[2]}
             self == [i \in 1..n |-> i]
  <1>1. ListOf(self, n, 1..n, R)
    BY DEF ListOf
  <1>2. ListOf(list, n, 1..n, R)
    <2>1. ASSUME NEW i \in 1..n, NEW j \in 1..n PROVE <<list[i], list[j]>> \in R <=> i < j
      <3>1. list[i] \in 1..n /\ list[j] \in 1..n
        BY DEF GoesUp
      <3>2. CASE i < j
        BY <3>1, <3>2 DEF GoesUp
      <3>3. CASE j < i
        <4>1. list[j] < list[i]
          BY <3>3 DEF GoesUp
        <4>2. QED BY <3>1, <3>3, <4>1
      <3>4. CASE i = j
        BY <3>1, <3>4
      <3>5. QED BY <3>2, <3>3, <3>4
    <2> HIDE DEF R
    <2>2. QED BY <2>1 DEF ListOf, GoesUp
  <1> HIDE DEF R
  <1> HIDE DEF self
  <1> DEFINE S == 1..n
  <1> HIDE DEF S
  <1>3. ListOf(self, n, S, R) /\ ListOf(list, n, S, R)
    BY <1>1, <1>2 DEF S
  <1>6. \A i \in 1..n : Places(S, R)[self[i]] = i - 1
    BY ONLY <1>3, PlacesInAList
  <1>7. \A i \in 1..n : Places(S, R)[list[i]] = i - 1
    BY ONLY <1>3, PlacesInAList
  <1>4. ASSUME NEW i \in 1..n PROVE list[i] = i
    <2>1. list[i] \in 1..n /\ self[list[i]] = list[i]
      BY DEF self, GoesUp
    <2>2. Places(S, R)[list[i]] = list[i] - 1 /\ Places(S, R)[list[i]] = i - 1
      BY <1>6, <1>7, <2>1
    <2>3. QED BY <2>1, <2>2
  <1>5. QED BY <1>4 DEF GoesUp

=============================================================================
