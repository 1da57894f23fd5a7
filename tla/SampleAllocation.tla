--------------------------- MODULE SampleAllocation ---------------------------
(***************************************************************************)
(* sample/strategies.py, _allocate: how many records of each cluster a     *)
(* stratified sample of a given size takes.  A cluster is a position in a  *)
(* sequence of counts; some may be empty.  One step is one turn of a loop. *)
(***************************************************************************)
EXTENDS Integers, Sequences, FiniteSets, Ranking

CONSTANT Clusterings      \* records: counts, and the size that is asked for

\* stratified_sample asks for no more clusters than records of the sample.
ASSUME AllocationAssumption ==
    \A g \in Clusterings : /\ g.counts \in Seq(Nat) /\ \E c \in DOMAIN g.counts : g.counts[c] > 0
                           /\ g.size \in Nat /\ Len(g.counts) <= g.size

VARIABLE split      \* _allocate: the allocation, and where in which loop it is

splitVars == <<split>>

Least(a, b) == IF a < b THEN a ELSE b
Most(a, b) == IF a < b THEN b ELSE a

\* The first so many records of each cluster, and how many that are.
RecordsOf(alloc) == UNION {{c} \X (1..alloc[c]) : c \in DOMAIN alloc}
Given(alloc) == Cardinality(RecordsOf(alloc))
Live(counts) == {c \in DOMAIN counts : counts[c] > 0}

\* Pass 1: every cluster that has records gives a least number of them.
FloorShare(counts, size) == Most(1, size \div (Cardinality(Live(counts)) * 4))
Floors(counts, size) == [c \in DOMAIN counts |-> Least(counts[c], FloorShare(counts, size))]

SplitOf(counts, size) ==
    LET floors == Floors(counts, size)
        budget == size - Given(floors)
    IN  [counts |-> counts, size |-> size, alloc |-> floors, budget |-> budget, order |-> <<>>,
         next |-> 1, at |-> IF budget > 0 THEN "shares" ELSE "giving"]
SplitInit ==
    \E g \in Clusterings : split = SplitOf(g.counts, Least(g.size, Given(g.counts)))

\* Pass 2: the whole part of a share of what the floors left, and the rest of it.
Room(s, c) == s.counts[c] - s.alloc[c]
Whole(s, c) == (s.budget * s.counts[c]) \div Given(s.counts)
Remainder(s, c) == (s.budget * s.counts[c]) % Given(s.counts)

TakeShare ==
    /\ split.at = "shares" /\ split.next <= Len(split.counts)
    /\ split' = [split EXCEPT
           !.alloc[split.next] = @ + Most(0, Least(Whole(split, split.next), Room(split, split.next))),
           !.next = @ + 1]

RankRemainders ==
    /\ split.at = "shares" /\ split.next > Len(split.counts)
    /\ split' = [split EXCEPT
           !.order = HighestFirst(Live(split.counts), [c \in Live(split.counts) |-> Remainder(split, c)]),
           !.next = 1, !.at = "giving"]

\* The loop of pass 2 over the largest remainders, and that of pass 3 over the
\* clusters that have room: a record each, until the size is reached.
GiveOne ==
    /\ split.at = "giving" /\ split.next <= Len(split.order) /\ Given(split.alloc) < split.size
    /\ split' = [split EXCEPT
           !.alloc[split.order[split.next]] = IF Room(split, split.order[split.next]) > 0 THEN @ + 1 ELSE @,
           !.next = @ + 1]

\* Pass 3 goes on as long as there is something left and room for it.
LeftShort(s) == {}
Spendable(s) == {c \in Live(s.counts) : Room(s, c) > 0}

TopUp ==
    /\ split.at = "giving" /\ split.next > Len(split.order) /\ Given(split.alloc) < split.size
    /\ Spendable(split) # {}
    /\ split' = [split EXCEPT
           !.order = HighestFirst(Spendable(split), [c \in Spendable(split) |-> Room(split, c)]),
           !.next = 1]

Allocated ==
    /\ split.at = "giving"
    /\ Given(split.alloc) >= split.size \/ (split.next > Len(split.order) /\ Spendable(split) = {})
    /\ split' = [split EXCEPT !.at = "done"]

SplitNext == TakeShare \/ RankRemainders \/ GiveOne \/ TopUp \/ Allocated
SplitSpec == SplitInit /\ [][SplitNext]_splitVars

----------------------------------------------------------------------------
(* Properties *)

\* _allocate: whichever of the three passes runs short, the sample is as large as was
\* asked for, or all there is; no cluster gives more than it holds; the smallest one,
\* where drift shows first, is in it; and no cluster gives less than a smaller one.
StratificationIsFair ==
    split.at = "done" =>
        /\ Given(split.alloc) = split.size
        /\ \A c \in DOMAIN split.counts : split.alloc[c] \in 0..split.counts[c]
        /\ \A c \in Live(split.counts) : split.alloc[c] > 0
        /\ \A c, d \in DOMAIN split.counts :
              split.counts[c] > split.counts[d] => split.alloc[c] >= split.alloc[d]

=============================================================================
