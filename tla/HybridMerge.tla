----------------------------- MODULE HybridMerge -----------------------------
(***************************************************************************)
(* serve/hybrid.py: the two ways of merging the results of the two halves  *)
(* of a partly migrated index, by rank alone or by calibrated score.       *)
(*                                                                         *)
(* A hit is [id, score, rank]; ids are ordered as the code orders strings. *)
(* A calibrator is a function on the scores the store may give, and        *)
(* NoCalibrator its absence.                                               *)
(***************************************************************************)
EXTENDS Integers, Sequences, SequencesExt, FiniteSets

CONSTANT NoCalibrator

RRF_K == 60

\* What the ranks of a document add up to is a fraction, <<numerator, denominator>>.
Plus(p, q) == <<p[1] * q[2] + q[1] * p[2], p[2] * q[2]>>
Exceeds(p, q) == p[1] * q[2] > q[1] * p[2]

Ids(hits) == {hits[i].id : i \in DOMAIN hits}
HitOf(hits, id) == hits[CHOOSE i \in DOMAIN hits : hits[i].id = id]
Take(hits, k) == SubSeq(hits, 1, IF Len(hits) < k THEN Len(hits) ELSE k)

\* The first k of a set of hits in the given order, ranked from zero.
Ranked(hits, Before(_, _), k) ==
    LET Ahead(h) == Cardinality({g \in hits : Before(g, h)})
        size == IF Cardinality(hits) < k THEN Cardinality(hits) ELSE k
    IN  [i \in 1..size |-> [(CHOOSE h \in hits : Ahead(h) = i - 1) EXCEPT !.rank = i - 1]]

RankShare(hits, id) == IF id \in Ids(hits) THEN <<1, RRF_K + HitOf(hits, id).rank + 1>> ELSE <<0, 1>>
Shares(left, right) == {[id |-> d, score |-> Plus(RankShare(left, d), RankShare(right, d)), rank |-> 0]
                          : d \in Ids(left) \union Ids(right)}

\* Ties go to the smaller id, never to the list that was passed first.
ByShareThenId(h, g) ==
    \/ Exceeds(h.score, g.score)
    \/ ~Exceeds(g.score, h.score) /\ h.id < g.id

\* Mutant: the list passed first wins a tie.
LeftFirstFusion(left, right, k) ==
    LET LeftFirst(h, g) ==
            \/ Exceeds(h.score, g.score)
            \/ /\ ~Exceeds(g.score, h.score) /\ h.id # g.id
               /\ g.id \notin Ids(left) \/ (h.id \in Ids(left) /\ h.id < g.id)
    IN  Ranked(Shares(left, right), LeftFirst, k)

ReciprocalRankFusion(left, right, k) == Ranked(Shares(left, right), ByShareThenId, k)

\* A document of both lists keeps its better score and that side's rank, the
\* old side's when the two are equal.
Offered(old, new, calibrator, d) ==
    LET fromOld == [HitOf(old, d) EXCEPT !.score = calibrator[@]]
        fromNew == HitOf(new, d)
    IN  IF d \notin Ids(new) THEN fromOld
        ELSE IF d \notin Ids(old) \/ fromNew.score > fromOld.score THEN fromNew
        ELSE fromOld

\* Mutant: the rank is not looked at.
ByScoreThenId(h, g) == h.score > g.score \/ (h.score = g.score /\ h.id < g.id)

\* A calibrator maps many scores to few, so the rank decides within a side.
ByScoreThenRank(h, g) ==
    \/ h.score > g.score
    \/ h.score = g.score /\ (h.rank < g.rank \/ (h.rank = g.rank /\ h.id < g.id))

CalibratedMerge(old, new, k, calibrator) ==
    IF calibrator = NoCalibrator THEN ReciprocalRankFusion(old, new, k)
    ELSE Ranked({Offered(old, new, calibrator, d) : d \in Ids(old) \union Ids(new)},
                ByScoreThenRank, k)

----------------------------------------------------------------------------
(* What a merge promises, of one call. *)

IdsInOrder(hits) == [i \in DOMAIN hits |-> hits[i].id]

\* Two documents only one side returned stay in the order that side had them,
\* whatever levels the calibrator flattens their scores to: the one that side has
\* later is in the merge only behind the other.
KeepsEachSidesOrder(old, new, k, calibrator) ==
    LET merged == IdsInOrder(CalibratedMerge(old, new, k, calibrator))
        InOrderOf(side, other) ==
            \A i, j \in {n \in DOMAIN side : side[n].id \notin Ids(other)}, p \in DOMAIN merged :
               i < j /\ merged[p] = side[j].id => \E q \in 1..p - 1 : merged[q] = side[i].id
    IN  /\ InOrderOf(old, new) /\ InOrderOf(new, old)
        /\ \A p, q \in DOMAIN merged : p # q => merged[p] # merged[q]

\* No space is favoured: the two sides exchanged, with a calibrator that changes
\* no score, give the same ranking when they share no document.
FavoursNoSide(old, new, k, calibrator) ==
    LET Neutral == calibrator = NoCalibrator \/ \A s \in DOMAIN calibrator : calibrator[s] = s
    IN  Neutral /\ Ids(old) \cap Ids(new) = {} =>
            CalibratedMerge(old, new, k, calibrator) = CalibratedMerge(new, old, k, calibrator)

=============================================================================
