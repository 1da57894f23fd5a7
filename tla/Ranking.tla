-------------------------------- MODULE Ranking --------------------------------
(***************************************************************************)
(* Putting the members of a finite set in the order of a function that     *)
(* tells them apart.                                                       *)
(***************************************************************************)
EXTENDS Integers, FiniteSets

\* How many members of S come before d, and S from the first to the last.
Ahead(S, v, d) == Cardinality({e \in S : v[e] < v[d]})
Enumerated(S, v) == [i \in 1..Cardinality(S) |-> CHOOSE d \in S : Ahead(S, v, d) = i - 1]

\* The same of a strict order, a set of pairs.
Listed(S, R) ==
    [i \in 1..Cardinality(S) |->
        CHOOSE d \in S : Cardinality({e \in S : <<e, d>> \in R}) = i - 1]

\* A stable sort of numbers by a key, the highest first.
ByKey(S, v) == {p \in S \X S : v[p[1]] > v[p[2]] \/ (v[p[1]] = v[p[2]] /\ p[1] < p[2])}
HighestFirst(S, v) == Listed(S, ByKey(S, v))

\* Positions, in order.
InPlace(S) == Enumerated(S, [i \in S |-> i])

=============================================================================
