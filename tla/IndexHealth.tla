------------------------------ MODULE IndexHealth ------------------------------
(***************************************************************************)
(* migrate/health.py: what share of the exact neighbours of a record the   *)
(* index of a store returns.  The exact side reads the corpus in pages and *)
(* folds the best of each page into the best so far (compute/search.py     *)
(* finds the best of a page, in an order that equal scores leave open).    *)
(*                                                                         *)
(* The corpus is seen from one probe: a sequence of scores, higher than    *)
(* NoScore, in the order the store lists its documents; a document is its  *)
(* position.                                                               *)
(***************************************************************************)
EXTENDS Integers, Sequences, FiniteSets, SequencesExt, Ranking

CONSTANTS
    Corpora,      \* the corpora to measure
    PageSizes,    \* values of batch_size
    Cutoffs       \* values of k

ASSUME HealthAssumption ==
    /\ Corpora \subseteq Seq(Nat \ {0}) \ {<<>>}
    /\ PageSizes \subseteq Nat \ {0} /\ Cutoffs \subseteq Nat \ {0}

VARIABLE scan      \* _exact_neighbours: the documents seen, and the best of them

healthVars == <<scan>>

NoScore == 0
NoDocument == 0      \* the "" that fills up a running list

Fewer(a, b) == IF a < b THEN a ELSE b
ScoreOf(scores, d) == IF d = NoDocument THEN NoScore ELSE scores[d]

ScanOf(scores, size, k) == [scores |-> scores, size |-> size, k |-> k, seen |-> 0,
                            best |-> [i \in 1..k + 1 |-> NoDocument]]
HealthInit == \E scores \in Corpora, size \in PageSizes, k \in Cutoffs : scan = ScanOf(scores, size, k)

\* The documents of the next page: size of them, or what the last flush finds left.
FullPage(n, seen, size) == IF n - seen < size THEN {} ELSE (seen + 1) .. (seen + size)
NextPage(n, seen, size) == (seen + 1) .. (seen + Fewer(size, n - seen))

\* top_k_search: the best k of some documents; which of those with the score of
\* the last, and in what order those of one score, is left to argpartition.
TopOf(scores, docs, k) ==
    {top \in [1..Fewer(k, Cardinality(docs)) -> docs] :
        /\ \A i, j \in DOMAIN top : i < j =>
              top[i] # top[j] /\ scores[top[i]] >= scores[top[j]]
        /\ \A d \in docs : (\E i \in DOMAIN top : top[i] = d)
                           \/ \A i \in DOMAIN top : scores[top[i]] >= scores[d]}

\* _merge: the first k of a stable sort of the running list and the page's.
MergePage(scores, best, top, k) ==
    LET both == best \o top
        order == HighestFirst(DOMAIN both, [x \in DOMAIN both |-> ScoreOf(scores, both[x])])
    IN  [i \in 1..k |-> both[order[i]]]

ScanPage ==
    /\ scan.seen < Len(scan.scores)
    /\ \E top \in TopOf(scan.scores, NextPage(Len(scan.scores), scan.seen, scan.size), scan.k + 1) :
          scan' = [scan EXCEPT !.seen = @ + Fewer(scan.size, Len(scan.scores) - @),
                               !.best = MergePage(scan.scores, @, top, scan.k + 1)]

HealthNext == ScanPage
HealthSpec == HealthInit /\ [][HealthNext]_healthVars

\* measure_index_health, of one probe: both lists are one longer than k, and the
\* probe itself is taken out of each.
Others(list, probe) ==
    LET places == InPlace({i \in DOMAIN list : list[i] # probe})
    IN  [j \in DOMAIN places |-> list[places[j]]]
Truth(list, probe, k) == SubSeq(Others(list, probe), 1, Fewer(Len(Others(list, probe)), k))
Overlap(exact, hits, probe, k) ==
    Cardinality(Range(Truth(exact, probe, k)) \intersect Range(Truth(hits, probe, k)))

----------------------------------------------------------------------------
(* Properties *)

Scanned == scan.seen = Len(scan.scores)
ScoreAt(docs, i) == IF i \in DOMAIN docs THEN ScoreOf(scan.scores, docs[i]) ELSE NoScore

\* However the corpus falls into pages, and whatever equal scores do, the exact
\* side has the scores of the best documents, no document twice; and where no two
\* scores are equal an index that misses nothing is measured to miss nothing, in
\* a collection with more than k neighbours.
HealthIsExact ==
    Scanned => \A hits \in TopOf(scan.scores, DOMAIN scan.scores, scan.k + 1) :
       /\ \A i \in 1..scan.k + 1 : ScoreAt(scan.best, i) = ScoreAt(hits, i)
       /\ \A i, j \in 1..scan.k + 1 :
             i # j /\ scan.best[i] # NoDocument => scan.best[i] # scan.best[j]
       /\ Len(scan.scores) > scan.k /\ Cardinality(Range(scan.scores)) = Len(scan.scores) =>
             \A probe \in DOMAIN scan.scores :
                Overlap(scan.best, hits, probe, scan.k) = Len(Truth(scan.best, probe, scan.k))

=============================================================================
