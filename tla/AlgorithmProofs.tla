----------------------------- MODULE AlgorithmProofs -----------------------------
(***************************************************************************)
(* What holds of the merge and of the decision rule (Trials) for every     *)
(* input, where the runs try some; of a sample that is read while the      *)
(* application edits the records (CorpusSample) and of how it is split     *)
(* over clusters (SampleAllocation); and of the exact neighbours an index  *)
(* is measured against (IndexHealth).                                      *)
(***************************************************************************)
EXTENDS Trials, CorpusSample, SampleAllocation, IndexHealth, RankingProofs, TLAPS

----------------------------------------------------------------------------
(* Merging two sides *)

\* Exchanging the two sides of a merge changes nothing, by rank or by score
\* (reciprocal_rank_fusion, calibrated_merge).
THEOREM MergeFavoursNoSideEver ==
  ASSUME NEW I, NEW S \in SUBSET Int, NEW n \in Nat, NEW m \in Nat,
         trial.old \in [1..n -> [id : I, score : S, rank : Nat]],
         trial.new \in [1..m -> [id : I, score : S, rank : Nat]],
         trial.calibrator # NoCalibrator => trial.calibrator \in [S -> Int]
  PROVE  MergeFavoursNoSide
  <1> DEFINE old == trial.old
             new == trial.new
             k == trial.k
             calibrator == trial.calibrator
  <1> SUFFICES ASSUME calibrator = NoCalibrator \/ \A s \in DOMAIN calibrator : calibrator[s] = s,
                      Ids(old) \cap Ids(new) = {}
               PROVE  CalibratedMerge(old, new, k, calibrator)
                        = CalibratedMerge(new, old, k, calibrator)
    BY DEF MergeFavoursNoSide, FavoursNoSide
  <1>0. /\ old \in [1..n -> [id : I, score : S, rank : Nat]]
        /\ new \in [1..m -> [id : I, score : S, rank : Nat]]
        /\ calibrator # NoCalibrator => calibrator \in [S -> Int]
    OBVIOUS
  <1> HIDE DEF old, new, k, calibrator
  <1>1. CASE calibrator = NoCalibrator
    <2>1. \A d : /\ RankShare(old, d) \in Int \X Int /\ RankShare(new, d) \in Int \X Int
      <3>1. \A hits, d : d \in Ids(hits) => HitOf(hits, d) \in {hits[i] : i \in DOMAIN hits}
        BY Zenon DEF Ids, HitOf
      <3>2. \A d \in Ids(old) : HitOf(old, d).rank \in Nat
        BY <1>0, <3>1
      <3>3. \A d \in Ids(new) : HitOf(new, d).rank \in Nat
        BY <1>0, <3>1
      <3>4. QED BY <3>2, <3>3 DEF RankShare, RRF_K
    <2>2. \A p, q \in Int \X Int : Plus(p, q) = Plus(q, p)
      BY DEF Plus
    <2>3. Shares(old, new) = Shares(new, old)
      BY <2>1, <2>2 DEF Shares
    <2>4. ReciprocalRankFusion(old, new, k) = ReciprocalRankFusion(new, old, k)
      BY <2>3, Zenon DEF ReciprocalRankFusion
    <2>5. QED BY <1>1, <2>4 DEF CalibratedMerge
  <1>2. CASE calibrator # NoCalibrator
    <2>1. ASSUME NEW h \in [id : I, score : S, rank : Nat]
          PROVE  [h EXCEPT !.score = calibrator[@]] = h
      <3>1. calibrator[h.score] = h.score
        BY <1>0, <1>2
      <3>2. QED BY <3>1
    <2>2. \A d \in Ids(old) : HitOf(old, d) \in [id : I, score : S, rank : Nat]
      <3>1. \A d \in Ids(old) : HitOf(old, d) \in {old[i] : i \in DOMAIN old}
        BY Zenon DEF Ids, HitOf
      <3>2. QED BY <1>0, <3>1
    <2>3. \A d \in Ids(new) : HitOf(new, d) \in [id : I, score : S, rank : Nat]
      <3>1. \A d \in Ids(new) : HitOf(new, d) \in {new[i] : i \in DOMAIN new}
        BY Zenon DEF Ids, HitOf
      <3>2. QED BY <1>0, <3>1
    <2>4. \A d \in Ids(old) \union Ids(new) :
             Offered(old, new, calibrator, d) = Offered(new, old, calibrator, d)
      BY <2>1, <2>2, <2>3 DEF Offered
    <2>5. {Offered(old, new, calibrator, d) : d \in Ids(old) \union Ids(new)}
            = {Offered(new, old, calibrator, d) : d \in Ids(new) \union Ids(old)}
      BY <2>4
    <2>6. QED BY <1>2, <2>5, Zenon DEF CalibratedMerge
  <1>3. QED BY <1>1, <1>2

\* What a store returns: distinct ids, scores that do not rise, ranks from zero.
Result(hits) ==
    /\ Len(hits) \in Nat /\ hits \in [1..Len(hits) -> [id : Int, score : Int, rank : Nat]]
    /\ \A i, j \in 1..Len(hits) : i # j => hits[i].id # hits[j].id
    /\ \A i, j \in 1..Len(hits) : i < j => hits[i].score >= hits[j].score
    /\ \A i \in 1..Len(hits) : hits[i].rank = i - 1

\* A list of members of a set in its order, none twice: the first of them.
FirstsOf(merged, H, R) ==
    /\ \E size \in Nat : DOMAIN merged = 1..size
    /\ \A p, q \in DOMAIN merged : p # q => merged[p].id # merged[q].id
    /\ \A g, h \in H, p \in DOMAIN merged :
          <<g, h>> \in R /\ merged[p].id = h.id => \E q \in 1..p - 1 : merged[q].id = g.id

\* A finite set of hits of distinct ids, and the list of its k first members.
Hits(H, T) ==
    /\ H \in SUBSET [id : Int, score : T, rank : Int] /\ IsFiniteSet(H)
    /\ \A g, h \in H : g # h => g.id # h.id
ListsFirst(merged, H, n, k) ==
    /\ DOMAIN merged = 1..Smaller(Cardinality(H), k)
    /\ \A i \in 1..Smaller(Cardinality(H), k) :
          merged[i] = [(CHOOSE h \in H : n[h] = i - 1) EXCEPT !.rank = i - 1]

\* What the first k of a set of hits are, whatever they are ordered by.
LEMMA TheFirst ==
  ASSUME NEW T, NEW H, Hits(H, T), NEW R, StrictOrder(R, H), NEW k \in Nat,
         NEW merged, ListsFirst(merged, H, Places(H, R), k)
  PROVE  FirstsOf(merged, H, R)
  <1> DEFINE n == Places(H, R)
             size == Smaller(Cardinality(H), k)
  <1>0. /\ H \in SUBSET [id : Int, score : T, rank : Int] /\ IsFiniteSet(H)
        /\ \A g, h \in H : g # h => g.id # h.id
        /\ DOMAIN merged = 1..size
        /\ \A i \in 1..size : merged[i] = [(CHOOSE h \in H : n[h] = i - 1) EXCEPT !.rank = i - 1]
    BY DEF Hits, ListsFirst
  <1>1. /\ Cardinality(H) \in Nat /\ n \in [H -> 0..Cardinality(H) - 1]
        /\ \A d, e \in H : <<d, e>> \in R => n[d] < n[e]
        /\ \A i \in 0..Cardinality(H) - 1 : \E d \in H : n[d] = i
    BY <1>0, PlacesAreSteps DEF InSteps
  <1>2. size \in Nat /\ size <= Cardinality(H)
    BY <1>1 DEF Smaller
  <1> HIDE DEF n, size
  <1>3. \A g, h \in H : n[g] = n[h] => g = h
    <2> SUFFICES ASSUME NEW g \in H, NEW h \in H, g # h PROVE n[g] # n[h]
      OBVIOUS
    <2>1. <<g, h>> \in R \/ <<h, g>> \in R
      BY DEF StrictOrder
    <2>2. n[g] \in Int /\ n[h] \in Int
      BY <1>1
    <2>3. QED BY <1>1, <2>1, <2>2
  <1> DEFINE Nth(i) == CHOOSE h \in H : n[h] = i - 1
  <1>4. \A i \in 1..size : Nth(i) \in H /\ n[Nth(i)] = i - 1
    <2> SUFFICES ASSUME NEW i \in 1..size PROVE Nth(i) \in H /\ n[Nth(i)] = i - 1
      OBVIOUS
    <2>1. i - 1 \in 0..Cardinality(H) - 1
      BY <1>1, <1>2
    <2>2. \E d \in H : n[d] = i - 1
      BY <1>1, <2>1
    <2>3. QED BY <2>2, Zenon
  <1>5. \A i \in 1..size : merged[i] = [Nth(i) EXCEPT !.rank = i - 1]
    BY <1>0
  <1> HIDE DEF Nth
  <1>6. \A i \in 1..size : merged[i].id = Nth(i).id
    <2> SUFFICES ASSUME NEW i \in 1..size PROVE merged[i].id = Nth(i).id
      OBVIOUS
    <2>1. \A h \in H : \A r : [h EXCEPT !.rank = r].id = h.id
      BY <1>0
    <2>2. merged[i] = [Nth(i) EXCEPT !.rank = i - 1] /\ Nth(i) \in H
      BY <1>4, <1>5
    <2>3. QED BY ONLY <2>1, <2>2
  <1>7. \A p, q \in 1..size : p # q => merged[p].id # merged[q].id
    <2> SUFFICES ASSUME NEW p \in 1..size, NEW q \in 1..size, p # q
                 PROVE  merged[p].id # merged[q].id
      OBVIOUS
    <2>1. Nth(p) # Nth(q)
      BY <1>2, <1>4
    <2>2. QED BY <1>0, <1>4, <1>6, <2>1
  <1>8. ASSUME NEW g \in H, NEW h \in H, NEW p \in 1..size, <<g, h>> \in R, merged[p].id = h.id
        PROVE  \E q \in 1..p - 1 : merged[q].id = g.id
    <2>1. Nth(p) = h
      BY <1>0, <1>4, <1>6, <1>8
    <2>2. n[g] < p - 1 /\ n[g] \in Nat
      BY <1>1, <1>4, <1>8, <2>1
    <2>3. n[g] + 1 \in 1..p - 1 /\ n[g] + 1 \in 1..size
      BY <1>2, <2>2
    <2>4. Nth(n[g] + 1) = g
      BY <1>3, <1>4, <2>2, <2>3
    <2>5. QED BY <1>6, <2>3, <2>4
  <1>9. QED BY <1>0, <1>2, <1>7, <1>8 DEF FirstsOf

\* The ids of a result, and the hit of each.
LEMMA IdsOfResult ==
  ASSUME NEW hits, Result(hits)
  PROVE  /\ IsFiniteSet(Ids(hits)) /\ Ids(hits) \in SUBSET Int
         /\ DOMAIN hits = 1..Len(hits)
         /\ \A d \in Ids(hits) : \E i \in 1..Len(hits) : HitOf(hits, d) = hits[i] /\ hits[i].id = d
         /\ \A i \in 1..Len(hits) : hits[i].id \in Ids(hits) /\ HitOf(hits, hits[i].id) = hits[i]
  <1> DEFINE n == Len(hits)
  <1>1. DOMAIN hits = 1..n /\ n \in Nat
    BY DEF Result
  <1>2. Ids(hits) = {hits[i].id : i \in 1..n}
    BY <1>1 DEF Ids
  <1>3. IsFiniteSet(Ids(hits))
    <2> DEFINE f == [i \in 1..n |-> hits[i].id]
    <2>1. f \in Surjection(1..n, Ids(hits))
      BY <1>2 DEF Surjection
    <2>2. IsFiniteSet(1..n)
      BY <1>1, FS_Interval
    <2> HIDE DEF f
    <2>3. QED BY <2>1, <2>2, FS_Surjection
  <1>4. Ids(hits) \in SUBSET Int
    BY <1>2 DEF Result
  <1>5. ASSUME NEW d \in Ids(hits)
        PROVE  \E i \in 1..n : HitOf(hits, d) = hits[i] /\ hits[i].id = d
    <2> DEFINE c == CHOOSE i \in DOMAIN hits : hits[i].id = d
    <2>1. \E i \in DOMAIN hits : hits[i].id = d
      BY <1>1, <1>2
    <2>2. c \in DOMAIN hits /\ hits[c].id = d
      BY <2>1, Zenon
    <2>3. HitOf(hits, d) = hits[c]
      BY DEF HitOf
    <2> HIDE DEF c
    <2>4. QED BY <1>1, <2>2, <2>3
  <1>6. ASSUME NEW i \in 1..n
        PROVE  hits[i].id \in Ids(hits) /\ HitOf(hits, hits[i].id) = hits[i]
    <2>1. hits[i].id \in Ids(hits)
      BY <1>2
    <2>2. PICK j \in 1..n : HitOf(hits, hits[i].id) = hits[j] /\ hits[j].id = hits[i].id
      BY <1>5, <2>1
    <2>3. j = i
      BY <2>2 DEF Result
    <2>4. QED BY <2>1, <2>2, <2>3
  <1>7. QED BY <1>1, <1>3, <1>4, <1>5, <1>6

\* Fractions with natural numerators and positive denominators.
Fractions == {p \in Nat \X Nat : p[2] > 0}
AtLeast(p, q) == ~Exceeds(q, p)

\* A comparison survives a positive factor.
LEMMA ProductsCompare ==
  ASSUME NEW x \in Nat, NEW y \in Nat, NEW d \in Nat, d > 0
  PROVE  /\ x > y => d * x > d * y
         /\ x >= y => d * x >= d * y
  OBVIOUS

\* Comparing fractions is comparing numbers.
LEMMA FractionsCompare ==
  ASSUME NEW p \in Fractions, NEW q \in Fractions, NEW r \in Fractions
  PROVE  /\ AtLeast(p, q) /\ AtLeast(q, r) => AtLeast(p, r)
         /\ AtLeast(p, q) /\ AtLeast(q, r) /\ (Exceeds(p, q) \/ Exceeds(q, r)) => Exceeds(p, r)
         /\ Exceeds(p, q) => AtLeast(p, q)
  <1> DEFINE a == p[1] b == p[2] c == q[1] d == q[2] e == r[1] f == r[2]
  <1>1. a \in Nat /\ b \in Nat /\ c \in Nat /\ d \in Nat /\ e \in Nat /\ f \in Nat
        /\ b > 0 /\ d > 0 /\ f > 0
    BY DEF Fractions
  <1>2. /\ AtLeast(p, q) <=> ~(c * b > a * d)
        /\ AtLeast(q, r) <=> ~(e * d > c * f)
        /\ AtLeast(p, r) <=> ~(e * b > a * f)
        /\ Exceeds(p, q) <=> a * d > c * b
        /\ Exceeds(q, r) <=> c * f > e * d
        /\ Exceeds(p, r) <=> a * f > e * b
    BY DEF AtLeast, Exceeds
  <1> HIDE DEF a, b, c, d, e, f
  <1>3. /\ a * d \in Nat /\ c * b \in Nat /\ e * d \in Nat /\ c * f \in Nat /\ e * b \in Nat
        /\ a * f \in Nat
    BY <1>1
  <1>4. /\ f * (a * d) = d * (a * f) /\ b * (c * f) = f * (c * b) /\ b * (e * d) = d * (e * b)
    BY <1>1
  <1>5. /\ a * d >= c * b => f * (a * d) >= f * (c * b)
        /\ a * d > c * b => f * (a * d) > f * (c * b)
        /\ c * f >= e * d => b * (c * f) >= b * (e * d)
        /\ c * f > e * d => b * (c * f) > b * (e * d)
    BY <1>1, <1>3, ProductsCompare
  <1>6. /\ e * b > a * f => d * (e * b) > d * (a * f)
        /\ e * b >= a * f => d * (e * b) >= d * (a * f)
    BY <1>1, <1>3, ProductsCompare
  <1>7. /\ f * (a * d) \in Nat /\ f * (c * b) \in Nat /\ b * (c * f) \in Nat /\ b * (e * d) \in Nat
        /\ d * (e * b) \in Nat /\ d * (a * f) \in Nat
    BY <1>1, <1>3
  <1> DEFINE ad == a * d cb == c * b ed == e * d cf == c * f eb == e * b af == a * f
             fad == f * (a * d) fcb == f * (c * b) bcf == b * (c * f) bed == b * (e * d)
             deb == d * (e * b) daf == d * (a * f)
  <1>8. /\ ad \in Nat /\ cb \in Nat /\ ed \in Nat /\ cf \in Nat /\ eb \in Nat /\ af \in Nat
        /\ fad \in Nat /\ fcb \in Nat /\ bcf \in Nat /\ bed \in Nat /\ deb \in Nat /\ daf \in Nat
        /\ fad = daf /\ bcf = fcb /\ bed = deb
        /\ (ad >= cb => fad >= fcb) /\ (ad > cb => fad > fcb)
        /\ (cf >= ed => bcf >= bed) /\ (cf > ed => bcf > bed)
        /\ (eb > af => deb > daf) /\ (eb >= af => deb >= daf)
    BY <1>3, <1>4, <1>5, <1>6, <1>7
  <1>9. /\ AtLeast(p, q) <=> ~(cb > ad)
        /\ AtLeast(q, r) <=> ~(ed > cf)
        /\ AtLeast(p, r) <=> ~(eb > af)
        /\ Exceeds(p, q) <=> ad > cb
        /\ Exceeds(q, r) <=> cf > ed
        /\ Exceeds(p, r) <=> af > eb
    BY <1>2
  <1> HIDE DEF ad, cb, ed, cf, eb, af, fad, fcb, bcf, bed, deb, daf
  <1>10. QED BY <1>8, <1>9

\* What the ranks of a document add up to, in the list that has it, and in both.
LEMMA SharesAre ==
  ASSUME NEW left, NEW right, Result(left), Result(right)
  PROVE  /\ \A d : RankShare(left, d) \in Fractions /\ RankShare(right, d) \in Fractions
         /\ Shares(left, right) \in SUBSET [id : Int, score : Fractions, rank : Int]
         /\ IsFiniteSet(Shares(left, right))
         /\ \A g, h \in Shares(left, right) : g # h => g.id # h.id
  <1>1. \A hits : Result(hits) => \A d : RankShare(hits, d) \in Fractions
    <2> SUFFICES ASSUME NEW hits, Result(hits), NEW d PROVE RankShare(hits, d) \in Fractions
      OBVIOUS
    <2>1. CASE d \in Ids(hits)
      <3>1. PICK i \in 1..Len(hits) : HitOf(hits, d) = hits[i]
        BY <2>1, IdsOfResult
      <3>2. HitOf(hits, d).rank \in Nat
        BY <3>1 DEF Result
      <3>3. QED BY <2>1, <3>2 DEF RankShare, Fractions, RRF_K
    <2>2. CASE d \notin Ids(hits)
      BY <2>2 DEF RankShare, Fractions
    <2>3. QED BY <2>1, <2>2
  <1>2. \A p, q \in Fractions : Plus(p, q) \in Fractions
    <2> SUFFICES ASSUME NEW p \in Fractions, NEW q \in Fractions PROVE Plus(p, q) \in Fractions
      OBVIOUS
    <2>1. p[1] \in Nat /\ p[2] \in Nat /\ q[1] \in Nat /\ q[2] \in Nat /\ p[2] > 0 /\ q[2] > 0
      BY DEF Fractions
    <2>2. p[1] * q[2] + q[1] * p[2] \in Nat /\ p[2] * q[2] \in Nat /\ p[2] * q[2] > 0
      BY <2>1
    <2>3. QED BY <2>2 DEF Fractions, Plus
  <1> DEFINE Entry(d) == [id |-> d, score |-> Plus(RankShare(left, d), RankShare(right, d)), rank |-> 0]
             D == Ids(left) \union Ids(right)
  <1>3. IsFiniteSet(D) /\ D \in SUBSET Int
    BY IdsOfResult, FS_Union
  <1>4. Shares(left, right) = {Entry(d) : d \in D}
    BY DEF Shares
  <1>5. \A d \in D : Entry(d) \in [id : Int, score : Fractions, rank : Int] /\ Entry(d).id = d
    BY <1>1, <1>2, <1>3
  <1> HIDE DEF Entry, D
  <1>6. IsFiniteSet(Shares(left, right))
    <2> DEFINE f == [d \in D |-> Entry(d)]
    <2>1. f \in Surjection(D, Shares(left, right))
      BY <1>4 DEF Surjection
    <2> HIDE DEF f
    <2>2. QED BY <1>3, <2>1, FS_Surjection
  <1>7. QED BY <1>1, <1>4, <1>5, <1>6

\* Fusing by rank is putting in order of the shares, and of the ids where these agree.
ByShare(H) == {p \in H \X H : ByShareThenId(p[1], p[2])}

\* Of hits with distinct ids one is always before the other.
LEMMA ShareIsAnOrder ==
  ASSUME NEW H \in SUBSET [id : Int, score : Fractions, rank : Int],
         \A g, h \in H : g # h => g.id # h.id
  PROVE  StrictOrder(ByShare(H), H)
  <1>1. \A g, h \in H : <<g, h>> \in ByShare(H) <=> ByShareThenId(g, h)
    BY DEF ByShare
  <1>2. \A g \in H : g.score \in Fractions /\ g.id \in Int
    OBVIOUS
  <1>3. \A p \in Fractions : ~Exceeds(p, p)
    <2> SUFFICES ASSUME NEW p \in Fractions PROVE ~Exceeds(p, p)
      OBVIOUS
    <2>1. p[1] * p[2] \in Int
      BY DEF Fractions
    <2>2. QED BY <2>1 DEF Exceeds
  <1>4. \A g \in H : ~ByShareThenId(g, g)
    BY <1>2, <1>3 DEF ByShareThenId
  <1>5. ASSUME NEW g \in H, NEW h \in H, g # h PROVE ByShareThenId(g, h) \/ ByShareThenId(h, g)
    <2>1. g.id < h.id \/ h.id < g.id
      BY <1>2, <1>5
    <2>2. QED BY <2>1 DEF ByShareThenId
  <1>6. ASSUME NEW f \in H, NEW g \in H, NEW h \in H, ByShareThenId(f, g), ByShareThenId(g, h)
        PROVE  ByShareThenId(f, h)
    <2> DEFINE p == f.score q == g.score r == h.score
    <2>0. p \in Fractions /\ q \in Fractions /\ r \in Fractions
          /\ f.id \in Int /\ g.id \in Int /\ h.id \in Int
      BY <1>2
    <2>1. /\ Exceeds(p, q) \/ (AtLeast(p, q) /\ f.id < g.id)
          /\ Exceeds(q, r) \/ (AtLeast(q, r) /\ g.id < h.id)
      BY <1>6 DEF ByShareThenId, AtLeast
    <2> HIDE DEF p, q, r
    <2>2. AtLeast(p, q) /\ AtLeast(q, r)
      BY <2>0, <2>1, FractionsCompare
    <2>3. AtLeast(p, r)
      BY <2>0, <2>2, FractionsCompare
    <2>4. Exceeds(p, r) \/ (AtLeast(p, r) /\ f.id < h.id)
      <3>1. CASE Exceeds(p, q) \/ Exceeds(q, r)
        BY <2>0, <2>2, <3>1, FractionsCompare
      <3>2. CASE f.id < g.id /\ g.id < h.id
        BY <2>0, <2>3, <3>2
      <3>3. QED BY <2>1, <3>1, <3>2
    <2>5. QED BY <2>4 DEF ByShareThenId, AtLeast, p, r
  <1>7. QED BY <1>1, <1>4, <1>5, <1>6 DEF StrictOrder

\* Shares are hits that their order puts one before the other.
SharesInOrder(H) == Hits(H, Fractions) /\ StrictOrder(ByShare(H), H)

\* What is fused by rank lists the first of the shares, in their order.
LEMMA FusionLists ==
  ASSUME NEW left, NEW right, Result(left), Result(right), NEW k \in Nat
  PROVE  /\ SharesInOrder(Shares(left, right))
         /\ ListsFirst(ReciprocalRankFusion(left, right, k), Shares(left, right),
                       Places(Shares(left, right), ByShare(Shares(left, right))), k)
  <1> DEFINE H == Shares(left, right)
             R == ByShare(H)
             n == Places(H, R)
             size == Smaller(Cardinality(H), k)
             merged == ReciprocalRankFusion(left, right, k)
  <1>1. Hits(H, Fractions)
    BY SharesAre DEF Hits
  <1>2. StrictOrder(R, H)
    <2> HIDE DEF H
    <2>1. QED BY <1>1, ShareIsAnOrder DEF Hits
  <1>3. \A h \in H : n[h] = Cardinality({g \in H : ByShareThenId(g, h)})
    <2> HIDE DEF H
    <2> SUFFICES ASSUME NEW h \in H PROVE n[h] = Cardinality({g \in H : ByShareThenId(g, h)})
      OBVIOUS
    <2>1. {g \in H : <<g, h>> \in R} = {g \in H : ByShareThenId(g, h)}
      BY DEF ByShare
    <2>2. QED BY <2>1 DEF Places
  <1>4. merged = [i \in 1..size |->
           [(CHOOSE h \in H : Cardinality({g \in H : ByShareThenId(g, h)}) = i - 1) EXCEPT !.rank = i - 1]]
    BY Zenon DEF ReciprocalRankFusion, Ranked, Smaller
  <1> HIDE DEF H, n, size, merged
  <1>5. ASSUME NEW i \in 1..size
        PROVE  (CHOOSE h \in H : Cardinality({g \in H : ByShareThenId(g, h)}) = i - 1)
                  = CHOOSE h \in H : n[h] = i - 1
    BY <1>3
  <1>6. ListsFirst(merged, H, n, k)
    <2>1. /\ DOMAIN merged = 1..size
          /\ \A i \in 1..size : merged[i] = [(CHOOSE h \in H : n[h] = i - 1) EXCEPT !.rank = i - 1]
      BY <1>4, <1>5
    <2>2. QED BY <2>1 DEF ListsFirst, size
  <1>7. ListsFirst(merged, H, Places(H, R), k)
    BY <1>6 DEF n
  <1>8. QED BY <1>1, <1>2, <1>7 DEF merged, R, H, SharesInOrder

\* They are the first of the shares.
LEMMA FusionIs ==
  ASSUME NEW left, NEW right, Result(left), Result(right), NEW k \in Nat
  PROVE  FirstsOf(ReciprocalRankFusion(left, right, k), Shares(left, right),
                  ByShare(Shares(left, right)))
  <1> DEFINE H == Shares(left, right)
             R == ByShare(H)
             merged == ReciprocalRankFusion(left, right, k)
  <1>1. SharesInOrder(H) /\ ListsFirst(merged, H, Places(H, R), k)
    BY FusionLists
  <1> HIDE DEF H, merged
  <1>2. Hits(H, Fractions) /\ StrictOrder(R, H)
    BY <1>1 DEF SharesInOrder
  <1> HIDE DEF R
  <1>3. FirstsOf(merged, H, R)
    BY <1>1, <1>2, TheFirst
  <1>4. QED BY <1>3 DEF merged, R, H

\* A fusion has as many members as the two sides have documents, up to k.
LEMMA FusionLength ==
  ASSUME NEW left, NEW right, Result(left), Result(right), NEW k \in Nat
  PROVE  DOMAIN ReciprocalRankFusion(left, right, k)
           = 1..Smaller(Cardinality(Ids(left) \union Ids(right)), k)
  <1> DEFINE H == Shares(left, right)
             D == Ids(left) \union Ids(right)
             Entry(d) == [id |-> d, score |-> Plus(RankShare(left, d), RankShare(right, d)), rank |-> 0]
             f == [d \in D |-> Entry(d)]
  <1>1. DOMAIN ReciprocalRankFusion(left, right, k) = 1..Smaller(Cardinality(H), k)
    BY FusionLists DEF ListsFirst
  <1>2. H = {Entry(d) : d \in D}
    BY DEF Shares
  <1>3. \A d : Entry(d).id = d
    OBVIOUS
  <1>4. IsFiniteSet(D)
    BY IdsOfResult, FS_Union
  <1> HIDE DEF H, D, Entry
  <1>5. f \in Bijection(D, H)
    BY <1>2, <1>3 DEF Bijection, Injection, IsInjective, Surjection
  <1> HIDE DEF f
  <1>6. Cardinality(H) = Cardinality(D)
    BY <1>4, <1>5, FS_Bijection DEF ExistsBijection
  <1>7. QED BY <1>1, <1>6 DEF H, D

\* One list, and a list without documents.
OnlyOne(hits, left, right) ==
    \/ left = hits /\ Ids(right) = {}
    \/ right = hits /\ Ids(left) = {}

\* The first members of a set that a list has in its order are the first of the list.
LEMMA FirstsOfList ==
  ASSUME NEW H, \A h \in H : \A r : [h EXCEPT !.rank = r].id = h.id, NEW R, NEW n, NEW list,
         ListOf(list, n, H, R), NEW k \in Nat, NEW merged, ListsFirst(merged, H, Places(H, R), k)
  PROVE  IdsInOrder(merged) = [i \in 1..Smaller(n, k) |-> list[i].id]
  <1>1. n \in Nat /\ list \in [1..n -> H] /\ \A d \in H : \E i \in 1..n : list[i] = d
    BY DEF ListOf
  <1>2. Cardinality(H) = n /\ \A i \in 1..n : Places(H, R)[list[i]] = i - 1
    BY PlacesInAList
  <1>3. /\ DOMAIN merged = 1..Smaller(n, k)
        /\ \A i \in 1..Smaller(n, k) :
              merged[i] = [(CHOOSE h \in H : Places(H, R)[h] = i - 1) EXCEPT !.rank = i - 1]
    BY <1>2 DEF ListsFirst
  <1>4. Smaller(n, k) \in Nat /\ Smaller(n, k) <= n
    BY <1>1 DEF Smaller
  <1>5. ASSUME NEW i \in 1..Smaller(n, k) PROVE merged[i].id = list[i].id
    <2>1. i \in 1..n
      BY <1>1, <1>4
    <2> DEFINE c == CHOOSE h \in H : Places(H, R)[h] = i - 1
    <2>2. list[i] \in H /\ Places(H, R)[list[i]] = i - 1
      BY <1>1, <1>2, <2>1
    <2>3. c \in H /\ Places(H, R)[c] = i - 1
      BY <2>2, Zenon
    <2>4. merged[i] = [c EXCEPT !.rank = i - 1]
      BY <1>3
    <2> HIDE DEF c
    <2>5. PICK j \in 1..n : c = list[j]
      BY <1>1, <2>3
    <2>6. j - 1 = i - 1
      BY <1>2, <2>3, <2>5
    <2>7. j = i
      BY <1>1, <2>1, <2>6
    <2>8. merged[i].id = c.id
      BY <2>3, <2>4
    <2>9. QED BY <2>5, <2>7, <2>8
  <1>6. QED BY <1>3, <1>5 DEF IdsInOrder

\* One list fused with nothing keeps its order.
LEMMA FusionOfOne ==
  ASSUME NEW left, NEW right, Result(left), Result(right), NEW k \in Nat,
         NEW hits, OnlyOne(hits, left, right)
  PROVE  IdsInOrder(ReciprocalRankFusion(left, right, k))
           = [i \in 1..Smaller(Len(hits), k) |-> hits[i].id]
  <1> DEFINE n == Len(hits)
             E(i) == [id |-> hits[i].id, score |-> <<1, RRF_K + i>>, rank |-> 0]
             list == [i \in 1..n |-> E(i)]
             H == Shares(left, right)
             R == ByShare(H)
             merged == ReciprocalRankFusion(left, right, k)
  <1>0. Result(hits)
    BY DEF OnlyOne
  <1>1. /\ n \in Nat /\ DOMAIN hits = 1..n
        /\ \A i \in 1..n : hits[i].rank = i - 1 /\ hits[i].id \in Int
        /\ \A i, j \in 1..n : i # j => hits[i].id # hits[j].id
    BY <1>0 DEF Result
  <1>2. \A i \in 1..n : HitOf(hits, hits[i].id) = hits[i] /\ hits[i].id \in Ids(hits)
    BY <1>0, IdsOfResult
  <1>3. \A i \in 1..n : RankShare(hits, hits[i].id) = <<1, RRF_K + i>>
    <2> SUFFICES ASSUME NEW i \in 1..n PROVE RankShare(hits, hits[i].id) = <<1, RRF_K + i>>
      OBVIOUS
    <2>1. RRF_K + (i - 1) + 1 = RRF_K + i
      BY <1>1 DEF RRF_K
    <2>2. RankShare(hits, hits[i].id) = <<1, RRF_K + hits[i].rank + 1>>
      BY <1>2 DEF RankShare
    <2>3. QED BY <1>1, <2>1, <2>2
  <1>4. \A i \in Nat : /\ Plus(<<1, RRF_K + i>>, <<0, 1>>) = <<1, RRF_K + i>>
                      /\ Plus(<<0, 1>>, <<1, RRF_K + i>>) = <<1, RRF_K + i>>
    BY DEF Plus, RRF_K
  <1>5. H = {E(i) : i \in 1..n}
    <2>1. Ids(hits) = {hits[i].id : i \in 1..n}
      BY <1>1 DEF Ids
    <2>2. Ids(left) \union Ids(right) = Ids(hits)
      BY DEF OnlyOne
    <2>3. ASSUME NEW i \in 1..n
          PROVE  Plus(RankShare(left, hits[i].id), RankShare(right, hits[i].id)) = <<1, RRF_K + i>>
      <3> DEFINE own == <<1, RRF_K + i>>
      <3>0. Plus(own, <<0, 1>>) = own /\ Plus(<<0, 1>>, own) = own /\ RankShare(hits, hits[i].id) = own
        BY <1>1, <1>3, <1>4
      <3> HIDE DEF own
      <3>1. CASE left = hits /\ Ids(right) = {}
        <4>1. RankShare(right, hits[i].id) = <<0, 1>>
          BY <3>1 DEF RankShare
        <4>2. QED BY <3>0, <3>1, <4>1, Zenon DEF own
      <3>2. CASE right = hits /\ Ids(left) = {}
        <4>1. RankShare(left, hits[i].id) = <<0, 1>>
          BY <3>2 DEF RankShare
        <4>2. QED BY <3>0, <3>2, <4>1, Zenon DEF own
      <3>3. QED BY <3>1, <3>2 DEF OnlyOne
    <2> DEFINE Entry(d) == [id |-> d, score |-> Plus(RankShare(left, d), RankShare(right, d)), rank |-> 0]
    <2>4. H = {Entry(d) : d \in Ids(hits)}
      BY <2>2 DEF Shares
    <2>5. \A i \in 1..n : Entry(hits[i].id) = E(i)
      BY <2>3
    <2> HIDE DEF Entry, E, H
    <2>6. QED BY <2>1, <2>4, <2>5
  <1>6. \A i, j \in 1..n : ByShareThenId(E(i), E(j)) <=> i < j
    <2> SUFFICES ASSUME NEW i \in 1..n, NEW j \in 1..n
                 PROVE  ByShareThenId(E(i), E(j)) <=> i < j
      OBVIOUS
    <2>1. i \in Int /\ j \in Int /\ hits[i].id \in Int /\ hits[j].id \in Int
      BY <1>1
    <2>2. /\ Exceeds(E(i).score, E(j).score) <=> i < j
          /\ Exceeds(E(j).score, E(i).score) <=> j < i
      BY <2>1 DEF Exceeds, RRF_K
    <2>3. E(i).id = hits[i].id /\ E(j).id = hits[j].id
      OBVIOUS
    <2> HIDE DEF E
    <2>4. QED BY <2>1, <2>2, <2>3 DEF ByShareThenId
  <1>7. \A i \in 1..n : E(i).id = hits[i].id /\ \A r : [E(i) EXCEPT !.rank = r].id = hits[i].id
    OBVIOUS
  <1> HIDE DEF E
  <1>8. ListOf(list, n, H, R)
    <2>1. list \in [1..n -> H] /\ \A d \in H : \E i \in 1..n : list[i] = d
      BY <1>5
    <2>2. \A i, j \in 1..n : <<list[i], list[j]>> \in R <=> i < j
      BY <1>6, <2>1 DEF ByShare
    <2>3. QED BY <1>1, <2>1, <2>2 DEF ListOf
  <1>9. ListsFirst(merged, H, Places(H, R), k)
    BY FusionLists
  <1>10. \A h \in H : \A r : [h EXCEPT !.rank = r].id = h.id
    BY <1>5, <1>7
  <1>11. \A i \in 1..n : list[i].id = hits[i].id
    BY <1>7
  <1>12. Smaller(n, k) \in Nat /\ Smaller(n, k) <= n
    BY <1>1 DEF Smaller
  <1> HIDE DEF H, R, n, merged, list
  <1>13. IdsInOrder(merged) = [i \in 1..Smaller(n, k) |-> list[i].id]
    BY <1>8, <1>9, <1>10, FirstsOfList
  <1>14. IdsInOrder(merged) = [i \in 1..Smaller(n, k) |-> hits[i].id]
    BY <1>1, <1>11, <1>12, <1>13
  <1>15. QED BY <1>14 DEF merged, n

\* Merging by calibrated score is putting in order of the scores, of the ranks
\* where these agree and then of the ids.
ByScore(H) == {p \in H \X H : ByScoreThenRank(p[1], p[2])}
Calibrates(calibrator, S) ==
    /\ calibrator \in [S -> Int]
    /\ \A s, t \in S : s <= t => calibrator[s] <= calibrator[t]
Merging(old, new, calibrator) ==
    {Offered(old, new, calibrator, d) : d \in Ids(old) \union Ids(new)}

\* The same by score, rank and id.
LEMMA ScoreIsAnOrder ==
  ASSUME NEW H \in SUBSET [id : Int, score : Int, rank : Int],
         \A g, h \in H : g # h => g.id # h.id
  PROVE  StrictOrder(ByScore(H), H)
  <1>1. \A g, h \in H : <<g, h>> \in ByScore(H) <=> ByScoreThenRank(g, h)
    BY DEF ByScore
  <1>2. \A g \in H : g.score \in Int /\ g.id \in Int /\ g.rank \in Int
    OBVIOUS
  <1>3. \A g \in H : ~ByScoreThenRank(g, g)
    BY <1>2 DEF ByScoreThenRank
  <1>4. \A g, h \in H : g # h => ByScoreThenRank(g, h) \/ ByScoreThenRank(h, g)
    BY <1>2 DEF ByScoreThenRank
  <1>5. \A f, g, h \in H : ByScoreThenRank(f, g) /\ ByScoreThenRank(g, h) => ByScoreThenRank(f, h)
    BY <1>2 DEF ByScoreThenRank
  <1>6. QED BY <1>1, <1>3, <1>4, <1>5 DEF StrictOrder

\* The hits a calibrated merge puts in order: those of the new side as they are,
\* those of the old side with a calibrated score.
LEMMA MergingAre ==
  ASSUME NEW S \in SUBSET Int, NEW calibrator, Calibrates(calibrator, S),
         NEW old, NEW new, Result(old), Result(new),
         \A i \in 1..Len(old) : old[i].score \in S
  PROVE  /\ Hits(Merging(old, new, calibrator), Int)
         /\ \A d \in Ids(old) \union Ids(new) :
               /\ Offered(old, new, calibrator, d) \in Merging(old, new, calibrator)
               /\ Offered(old, new, calibrator, d).id = d
  <1> DEFINE D == Ids(old) \union Ids(new)
             H == Merging(old, new, calibrator)
             Hit == [id : Int, score : Int, rank : Int]
             Entry(d) == Offered(old, new, calibrator, d)
             fromOld(d) == [HitOf(old, d) EXCEPT !.score = calibrator[@]]
  <1>1. IsFiniteSet(D)
    BY IdsOfResult, FS_Union
  <1>2. \A h \in [id : Int, score : S, rank : Nat] :
           [h EXCEPT !.score = calibrator[@]] \in Hit
           /\ [h EXCEPT !.score = calibrator[@]].id = h.id
    BY DEF Calibrates
  <1>3. ASSUME NEW d \in Ids(old) PROVE fromOld(d) \in Hit /\ fromOld(d).id = d
    <2>1. PICK i \in 1..Len(old) : HitOf(old, d) = old[i] /\ old[i].id = d
      BY IdsOfResult
    <2>2. HitOf(old, d) \in [id : Int, score : S, rank : Nat] /\ HitOf(old, d).id = d
      BY <2>1 DEF Result
    <2>3. QED BY <1>2, <2>2
  <1>4. ASSUME NEW d \in Ids(new) PROVE HitOf(new, d) \in Hit /\ HitOf(new, d).id = d
    <2>1. PICK i \in 1..Len(new) : HitOf(new, d) = new[i] /\ new[i].id = d
      BY IdsOfResult
    <2>2. QED BY <2>1 DEF Result
  <1> HIDE DEF fromOld
  <1>5. \A d : Entry(d) = IF d \notin Ids(new) THEN fromOld(d)
                       ELSE IF d \notin Ids(old) \/ HitOf(new, d).score > fromOld(d).score
                            THEN HitOf(new, d) ELSE fromOld(d)
    BY DEF Offered, fromOld
  <1>6. \A d \in D : Entry(d) \in Hit /\ Entry(d).id = d
    BY <1>3, <1>4, <1>5
  <1>7. H = {Entry(d) : d \in D}
    BY DEF Merging
  <1> HIDE DEF Entry, D, H
  <1>8. IsFiniteSet(H)
    <2> DEFINE f == [d \in D |-> Entry(d)]
    <2>1. f \in Surjection(D, H)
      BY <1>7 DEF Surjection
    <2> HIDE DEF f
    <2>2. QED BY <1>1, <2>1, FS_Surjection
  <1>9. H \in SUBSET Hit /\ \A g, h \in H : g # h => g.id # h.id
    BY <1>6, <1>7
  <1>10. \A d \in D : Entry(d) \in H
    BY <1>7
  <1>11. QED BY <1>6, <1>8, <1>9, <1>10 DEF Hits, Entry, D, H

\* What is merged by score lists the first of the two sides, in that order.
LEMMA CalibratedLists ==
  ASSUME NEW calibrator, calibrator # NoCalibrator, NEW old, NEW new,
         Hits(Merging(old, new, calibrator), Int), NEW k \in Nat
  PROVE  /\ StrictOrder(ByScore(Merging(old, new, calibrator)), Merging(old, new, calibrator))
         /\ ListsFirst(CalibratedMerge(old, new, k, calibrator), Merging(old, new, calibrator),
                       Places(Merging(old, new, calibrator),
                              ByScore(Merging(old, new, calibrator))), k)
  <1> DEFINE H == Merging(old, new, calibrator)
             R == ByScore(H)
             n == Places(H, R)
             size == Smaller(Cardinality(H), k)
             merged == CalibratedMerge(old, new, k, calibrator)
  <1>1. Hits(H, Int)
    OBVIOUS
  <1>2. StrictOrder(R, H)
    <2> HIDE DEF H
    <2>1. QED BY <1>1, ScoreIsAnOrder DEF Hits
  <1>3. \A h \in H : n[h] = Cardinality({g \in H : ByScoreThenRank(g, h)})
    <2> HIDE DEF H
    <2> SUFFICES ASSUME NEW h \in H PROVE n[h] = Cardinality({g \in H : ByScoreThenRank(g, h)})
      OBVIOUS
    <2>1. {g \in H : <<g, h>> \in R} = {g \in H : ByScoreThenRank(g, h)}
      BY DEF ByScore
    <2>2. QED BY <2>1 DEF Places
  <1>4. merged = [i \in 1..size |->
           [(CHOOSE h \in H : Cardinality({g \in H : ByScoreThenRank(g, h)}) = i - 1) EXCEPT !.rank = i - 1]]
    BY Zenon DEF CalibratedMerge, Ranked, Merging, Smaller
  <1> HIDE DEF H, n, size, merged
  <1>5. ASSUME NEW i \in 1..size
        PROVE  (CHOOSE h \in H : Cardinality({g \in H : ByScoreThenRank(g, h)}) = i - 1)
                  = CHOOSE h \in H : n[h] = i - 1
    BY <1>3
  <1>6. ListsFirst(merged, H, n, k)
    <2>1. /\ DOMAIN merged = 1..size
          /\ \A i \in 1..size : merged[i] = [(CHOOSE h \in H : n[h] = i - 1) EXCEPT !.rank = i - 1]
      BY <1>4, <1>5
    <2>2. QED BY <2>1 DEF ListsFirst, size
  <1>7. ListsFirst(merged, H, Places(H, R), k)
    BY <1>6 DEF n
  <1>8. QED BY <1>2, <1>7 DEF merged, R, H

\* It is the first of the two sides.
LEMMA CalibratedIs ==
  ASSUME NEW calibrator, calibrator # NoCalibrator, NEW old, NEW new,
         Hits(Merging(old, new, calibrator), Int), NEW k \in Nat
  PROVE  FirstsOf(CalibratedMerge(old, new, k, calibrator), Merging(old, new, calibrator),
                  ByScore(Merging(old, new, calibrator)))
  <1> DEFINE H == Merging(old, new, calibrator)
             R == ByScore(H)
             merged == CalibratedMerge(old, new, k, calibrator)
  <1>1. Hits(H, Int) /\ StrictOrder(R, H) /\ ListsFirst(merged, H, Places(H, R), k)
    BY CalibratedLists
  <1> HIDE DEF H, R, merged
  <1>2. FirstsOf(merged, H, R)
    BY <1>1, TheFirst
  <1>3. QED BY <1>2 DEF merged, R, H

\* The documents only one side returned, as the set that is put in order has them.
Exclusive(side, other) == {n \in DOMAIN side : side[n].id \notin Ids(other)}
SideInOrder(side, other, H, R) ==
    \A i, j \in Exclusive(side, other) :
       i < j => \E g, h \in H : g.id = side[i].id /\ h.id = side[j].id /\ <<g, h>> \in R

\* A merge of the first in an order keeps each side in its own, if that order does.
LEMMA FirstsKeepOrder ==
  ASSUME NEW old, NEW new, NEW k, NEW calibrator, NEW H, NEW R,
         FirstsOf(CalibratedMerge(old, new, k, calibrator), H, R),
         SideInOrder(old, new, H, R), SideInOrder(new, old, H, R)
  PROVE  KeepsEachSidesOrder(old, new, k, calibrator)
  <1> DEFINE hits == CalibratedMerge(old, new, k, calibrator)
             merged == IdsInOrder(hits)
  <1>0. PICK size \in Nat : DOMAIN hits = 1..size
    BY DEF FirstsOf
  <1>1. DOMAIN merged = 1..size /\ \A p \in 1..size : merged[p] = hits[p].id
    BY <1>0 DEF IdsInOrder
  <1>2. /\ \A p, q \in 1..size : p # q => hits[p].id # hits[q].id
        /\ \A g, h \in H, p \in 1..size :
              <<g, h>> \in R /\ hits[p].id = h.id => \E q \in 1..p - 1 : hits[q].id = g.id
    BY <1>0 DEF FirstsOf
  <1> HIDE DEF hits, merged
  <1>3. ASSUME NEW side, NEW other, SideInOrder(side, other, H, R),
               NEW i \in Exclusive(side, other), NEW j \in Exclusive(side, other),
               NEW p \in 1..size, i < j, merged[p] = side[j].id
        PROVE  \E q \in 1..p - 1 : merged[q] = side[i].id
    <2>1. PICK g \in H, h \in H : g.id = side[i].id /\ h.id = side[j].id /\ <<g, h>> \in R
      BY ONLY <1>3 DEF SideInOrder
    <2>2. <<g, h>> \in R /\ hits[p].id = h.id
      BY ONLY <1>1, <1>3, <2>1
    <2>3. PICK q \in 1..p - 1 : hits[q].id = g.id
      BY ONLY <1>2, <1>3, <2>1, <2>2
    <2>4. QED BY <1>1, <2>1, <2>3
  <1>4. \A p, q \in 1..size : p # q => merged[p] # merged[q]
    BY <1>1, <1>2
  <1>5. QED BY <1>0, <1>1, <1>3, <1>4 DEF KeepsEachSidesOrder, Exclusive, hits, merged

\* By rank: of two documents only one side returned the earlier has more to it.
LEMMA RankKeepsOrder ==
  ASSUME NEW left, NEW right, Result(left), Result(right)
  PROVE  /\ SideInOrder(left, right, Shares(left, right), ByShare(Shares(left, right)))
         /\ SideInOrder(right, left, Shares(left, right), ByShare(Shares(left, right)))
  <1> DEFINE H == Shares(left, right)
             Entry(d) == [id |-> d, score |-> Plus(RankShare(left, d), RankShare(right, d)), rank |-> 0]
             Share(i) == <<1, RRF_K + i>>
  <1>1. \A d \in Ids(left) \union Ids(right) : Entry(d) \in H /\ Entry(d).id = d
    BY DEF Shares
  <1>2. ASSUME NEW side, Result(side), NEW i \in 1..Len(side)
        PROVE  side[i].id \in Ids(side) /\ RankShare(side, side[i].id) = Share(i)
    <2>1. side[i].id \in Ids(side) /\ HitOf(side, side[i].id) = side[i] /\ side[i].rank = i - 1
      BY <1>2, IdsOfResult DEF Result
    <2>2. RRF_K + (i - 1) + 1 = RRF_K + i
      BY DEF RRF_K
    <2>3. QED BY <2>1, <2>2 DEF RankShare
  <1>3. \A i \in Nat : Plus(Share(i), <<0, 1>>) = Share(i) /\ Plus(<<0, 1>>, Share(i)) = Share(i)
    BY DEF Plus, RRF_K
  <1>4. \A i, j \in Nat : i < j => Exceeds(Share(i), Share(j))
    BY DEF Exceeds, RRF_K
  <1> HIDE DEF Share, H
  <1>5. ASSUME NEW g \in H, NEW h \in H, Exceeds(g.score, h.score)
        PROVE  <<g, h>> \in ByShare(H)
    BY <1>5 DEF ByShare, ByShareThenId
  <1>6. SideInOrder(left, right, H, ByShare(H))
    <2>1. DOMAIN left = 1..Len(left) /\ \A i \in 1..Len(left) : i \in Nat
      BY IdsOfResult DEF Result
    <2>2. ASSUME NEW i \in Exclusive(left, right)
          PROVE  /\ i \in Nat /\ Entry(left[i].id) \in H /\ Entry(left[i].id).id = left[i].id
                 /\ Entry(left[i].id).score = Share(i)
      <3>1. i \in 1..Len(left) /\ left[i].id \notin Ids(right) /\ i \in Nat
        BY <2>1, <2>2 DEF Exclusive
      <3>2. left[i].id \in Ids(left) /\ RankShare(left, left[i].id) = Share(i)
        BY <1>2, <3>1
      <3>3. RankShare(right, left[i].id) = <<0, 1>>
        BY <3>1 DEF RankShare
      <3>4. Entry(left[i].id).score = Share(i)
        BY <1>3, <3>1, <3>2, <3>3
      <3>5. QED BY <1>1, <3>1, <3>2, <3>4
    <2> HIDE DEF Entry
    <2>3. ASSUME NEW i \in Exclusive(left, right), NEW j \in Exclusive(left, right), i < j
          PROVE  /\ Entry(left[i].id) \in H /\ Entry(left[j].id) \in H
                 /\ Exceeds(Entry(left[i].id).score, Entry(left[j].id).score)
      <3>1. i \in Nat /\ Entry(left[i].id) \in H /\ Entry(left[i].id).score = Share(i)
        BY ONLY <2>2, <2>3
      <3>2. j \in Nat /\ Entry(left[j].id) \in H /\ Entry(left[j].id).score = Share(j)
        BY ONLY <2>2, <2>3
      <3>3. Exceeds(Share(i), Share(j))
        BY ONLY <1>4, <2>3, <3>1, <3>2
      <3>4. QED BY ONLY <3>1, <3>2, <3>3
    <2>4. ASSUME NEW i \in Exclusive(left, right), NEW j \in Exclusive(left, right), i < j
          PROVE  \E g, h \in H : g.id = left[i].id /\ h.id = left[j].id /\ <<g, h>> \in ByShare(H)
      <3> DEFINE g == Entry(left[i].id)
                 h == Entry(left[j].id)
      <3>1. g \in H /\ h \in H /\ Exceeds(g.score, h.score)
        BY ONLY <2>3, <2>4
      <3>2. g.id = left[i].id /\ h.id = left[j].id
        BY ONLY <2>2, <2>4
      <3> HIDE DEF g, h
      <3>3. <<g, h>> \in ByShare(H)
        BY ONLY <1>5, <3>1
      <3>4. QED BY ONLY <3>1, <3>2, <3>3
    <2>5. QED BY ONLY <2>4 DEF SideInOrder
  <1>7. SideInOrder(right, left, H, ByShare(H))
    <2>1. DOMAIN right = 1..Len(right) /\ \A i \in 1..Len(right) : i \in Nat
      BY IdsOfResult DEF Result
    <2>2. ASSUME NEW i \in Exclusive(right, left)
          PROVE  /\ i \in Nat /\ Entry(right[i].id) \in H /\ Entry(right[i].id).id = right[i].id
                 /\ Entry(right[i].id).score = Share(i)
      <3>1. i \in 1..Len(right) /\ right[i].id \notin Ids(left) /\ i \in Nat
        BY <2>1, <2>2 DEF Exclusive
      <3>2. right[i].id \in Ids(right) /\ RankShare(right, right[i].id) = Share(i)
        BY <1>2, <3>1
      <3>3. RankShare(left, right[i].id) = <<0, 1>>
        BY <3>1 DEF RankShare
      <3>4. Entry(right[i].id).score = Share(i)
        BY <1>3, <3>1, <3>2, <3>3
      <3>5. QED BY <1>1, <3>1, <3>2, <3>4
    <2> HIDE DEF Entry
    <2>3. ASSUME NEW i \in Exclusive(right, left), NEW j \in Exclusive(right, left), i < j
          PROVE  /\ Entry(right[i].id) \in H /\ Entry(right[j].id) \in H
                 /\ Exceeds(Entry(right[i].id).score, Entry(right[j].id).score)
      <3>1. i \in Nat /\ Entry(right[i].id) \in H /\ Entry(right[i].id).score = Share(i)
        BY ONLY <2>2, <2>3
      <3>2. j \in Nat /\ Entry(right[j].id) \in H /\ Entry(right[j].id).score = Share(j)
        BY ONLY <2>2, <2>3
      <3>3. Exceeds(Share(i), Share(j))
        BY ONLY <1>4, <2>3, <3>1, <3>2
      <3>4. QED BY ONLY <3>1, <3>2, <3>3
    <2>4. ASSUME NEW i \in Exclusive(right, left), NEW j \in Exclusive(right, left), i < j
          PROVE  \E g, h \in H : g.id = right[i].id /\ h.id = right[j].id /\ <<g, h>> \in ByShare(H)
      <3> DEFINE g == Entry(right[i].id)
                 h == Entry(right[j].id)
      <3>1. g \in H /\ h \in H /\ Exceeds(g.score, h.score)
        BY ONLY <2>3, <2>4
      <3>2. g.id = right[i].id /\ h.id = right[j].id
        BY ONLY <2>2, <2>4
      <3> HIDE DEF g, h
      <3>3. <<g, h>> \in ByShare(H)
        BY ONLY <1>5, <3>1
      <3>4. QED BY ONLY <3>1, <3>2, <3>3
    <2>5. QED BY ONLY <2>4 DEF SideInOrder
  <1>8. QED BY <1>6, <1>7 DEF H

\* By calibrated score: the calibrator may make two scores of a side equal, and
\* never turns them round.
LEMMA ScoreKeepsOrder ==
  ASSUME NEW S \in SUBSET Int, NEW calibrator, Calibrates(calibrator, S),
         NEW old, NEW new, Result(old), Result(new),
         \A i \in 1..Len(old) : old[i].score \in S
  PROVE  /\ SideInOrder(old, new, Merging(old, new, calibrator), ByScore(Merging(old, new, calibrator)))
         /\ SideInOrder(new, old, Merging(old, new, calibrator), ByScore(Merging(old, new, calibrator)))
  <1> DEFINE H == Merging(old, new, calibrator)
             Entry(d) == Offered(old, new, calibrator, d)
  <1>1. \A d \in Ids(old) \union Ids(new) : Entry(d) \in H /\ Entry(d).id = d
    BY MergingAre
  <1>2. /\ DOMAIN old = 1..Len(old) /\ DOMAIN new = 1..Len(new) /\ Len(old) \in Nat /\ Len(new) \in Nat
        /\ \A i \in 1..Len(old) : old[i].id \in Ids(old) /\ HitOf(old, old[i].id) = old[i]
        /\ \A i \in 1..Len(new) : new[i].id \in Ids(new) /\ HitOf(new, new[i].id) = new[i]
    BY IdsOfResult DEF Result
  <1>3. \A h \in [id : Int, score : Int, rank : Nat] :
           /\ [h EXCEPT !.score = calibrator[@]].score = calibrator[h.score]
           /\ [h EXCEPT !.score = calibrator[@]].rank = h.rank
    OBVIOUS
  <1>4. ASSUME NEW i \in Exclusive(old, new)
        PROVE  /\ i \in 1..Len(old) /\ old[i].id \in Ids(old) \union Ids(new)
               /\ Entry(old[i].id).score = calibrator[old[i].score] /\ Entry(old[i].id).rank = i - 1
    <2>1. i \in 1..Len(old) /\ old[i].id \notin Ids(new)
      BY <1>2, <1>4 DEF Exclusive
    <2>2. Entry(old[i].id) = [old[i] EXCEPT !.score = calibrator[@]]
      BY <1>2, <2>1 DEF Offered
    <2>3. old[i] \in [id : Int, score : Int, rank : Nat] /\ old[i].rank = i - 1
      BY <2>1 DEF Result
    <2> HIDE DEF Entry
    <2>4. QED BY <1>2, <1>3, <2>1, <2>2, <2>3
  <1>5. ASSUME NEW i \in Exclusive(new, old)
        PROVE  /\ i \in 1..Len(new) /\ new[i].id \in Ids(old) \union Ids(new)
               /\ Entry(new[i].id).score = new[i].score /\ Entry(new[i].id).rank = i - 1
    <2>1. i \in 1..Len(new) /\ new[i].id \notin Ids(old)
      BY <1>2, <1>5 DEF Exclusive
    <2>2. Entry(new[i].id) = new[i]
      BY <1>2, <2>1 DEF Offered
    <2>3. new[i].rank = i - 1
      BY <2>1 DEF Result
    <2> HIDE DEF Entry
    <2>4. QED BY <1>2, <2>1, <2>2, <2>3
  <1> HIDE DEF Entry, H
  <1>6. ASSUME NEW g \in H, NEW h \in H, g.score \in Int, h.score \in Int, g.score >= h.score,
               g.rank < h.rank
        PROVE  <<g, h>> \in ByScore(H)
    <2>1. ByScoreThenRank(g, h)
      BY <1>6 DEF ByScoreThenRank
    <2>2. QED BY <2>1 DEF ByScore
  <1>7. SideInOrder(old, new, H, ByScore(H))
    <2> SUFFICES ASSUME NEW i \in Exclusive(old, new), NEW j \in Exclusive(old, new), i < j
                 PROVE  \E g, h \in H : g.id = old[i].id /\ h.id = old[j].id /\ <<g, h>> \in ByScore(H)
      BY DEF SideInOrder
    <2> DEFINE g == Entry(old[i].id) h == Entry(old[j].id)
    <2>1. old[i].score \in S /\ old[j].score \in S /\ old[i].score >= old[j].score
      BY <1>2, <1>4 DEF Result
    <2>2. calibrator[old[i].score] \in Int /\ calibrator[old[j].score] \in Int
          /\ calibrator[old[i].score] >= calibrator[old[j].score]
      BY <2>1 DEF Calibrates
    <2>3. g \in H /\ h \in H /\ g.id = old[i].id /\ h.id = old[j].id
      BY <1>1, <1>4
    <2>4. g.score \in Int /\ h.score \in Int /\ g.score >= h.score /\ g.rank < h.rank
      BY <1>2, <1>4, <2>2
    <2> HIDE DEF g, h
    <2>5. QED BY <1>6, <2>3, <2>4
  <1>8. SideInOrder(new, old, H, ByScore(H))
    <2> SUFFICES ASSUME NEW i \in Exclusive(new, old), NEW j \in Exclusive(new, old), i < j
                 PROVE  \E g, h \in H : g.id = new[i].id /\ h.id = new[j].id /\ <<g, h>> \in ByScore(H)
      BY DEF SideInOrder
    <2> DEFINE g == Entry(new[i].id) h == Entry(new[j].id)
    <2>1. new[i].score \in Int /\ new[j].score \in Int /\ new[i].score >= new[j].score
      BY <1>2, <1>5 DEF Result
    <2>3. g \in H /\ h \in H /\ g.id = new[i].id /\ h.id = new[j].id
      BY <1>1, <1>5
    <2>4. g.score \in Int /\ h.score \in Int /\ g.score >= h.score /\ g.rank < h.rank
      BY <1>2, <1>5, <2>1
    <2> HIDE DEF g, h
    <2>5. QED BY <1>6, <2>3, <2>4
  <1>9. QED BY <1>7, <1>8 DEF H

\* One list merged by score with nothing keeps its order: what the rank is there for.
LEMMA CalibratedOfOne ==
  ASSUME NEW S \in SUBSET Int, NEW calibrator, Calibrates(calibrator, S),
         calibrator # NoCalibrator, NEW old, NEW new, Result(old), Result(new),
         \A i \in 1..Len(old) : old[i].score \in S, NEW k \in Nat,
         NEW hits, OnlyOne(hits, old, new)
  PROVE  IdsInOrder(CalibratedMerge(old, new, k, calibrator))
           = [i \in 1..Smaller(Len(hits), k) |-> hits[i].id]
  <1> DEFINE n == Len(hits)
             H == Merging(old, new, calibrator)
             R == ByScore(H)
             Entry(d) == Offered(old, new, calibrator, d)
             list == [i \in 1..n |-> Entry(hits[i].id)]
             merged == CalibratedMerge(old, new, k, calibrator)
  <1>1. n \in Nat /\ DOMAIN hits = 1..n /\ Ids(hits) = {hits[i].id : i \in 1..n}
    BY DEF OnlyOne, Result, Ids
  <1>2. Ids(old) \union Ids(new) = Ids(hits)
    BY DEF OnlyOne
  <1>3. Hits(H, Int) /\ \A d \in Ids(hits) : Entry(d) \in H /\ Entry(d).id = d
    BY <1>2, MergingAre
  <1>4. H = {Entry(d) : d \in Ids(hits)}
    BY <1>2 DEF Merging
  <1>5. StrictOrder(R, H) /\ ListsFirst(merged, H, Places(H, R), k)
    BY <1>3, CalibratedLists
  <1>6. SideInOrder(old, new, H, R) /\ SideInOrder(new, old, H, R)
    BY ScoreKeepsOrder
  <1> HIDE DEF n, H, R, Entry, merged
  <1>7. ASSUME NEW i \in 1..n, NEW j \in 1..n, i < j
        PROVE  \E g, h \in H : g.id = hits[i].id /\ h.id = hits[j].id /\ <<g, h>> \in R
    <2>1. CASE old = hits /\ Ids(new) = {}
      <3>1. i \in Exclusive(old, new) /\ j \in Exclusive(old, new)
        BY <1>1, <2>1 DEF Exclusive
      <3>2. QED BY ONLY <1>6, <1>7, <2>1, <3>1 DEF SideInOrder
    <2>2. CASE new = hits /\ Ids(old) = {}
      <3>1. i \in Exclusive(new, old) /\ j \in Exclusive(new, old)
        BY <1>1, <2>2 DEF Exclusive
      <3>2. QED BY ONLY <1>6, <1>7, <2>2, <3>1 DEF SideInOrder
    <2>3. QED BY <2>1, <2>2 DEF OnlyOne
  <1>8. \A i \in 1..n : list[i] \in H /\ list[i].id = hits[i].id
    BY <1>1, <1>3
  <1>9. \A g, h \in H : g.id = h.id => g = h
    BY <1>3 DEF Hits
  <1>10. \A d \in H : \E i \in 1..n : list[i] = d
    BY <1>1, <1>4
  <1> HIDE DEF list
  <1>11. \A i, j \in 1..n : i < j => <<list[i], list[j]>> \in R
    <2> SUFFICES ASSUME NEW i \in 1..n, NEW j \in 1..n, i < j PROVE <<list[i], list[j]>> \in R
      OBVIOUS
    <2>1. PICK g \in H, h \in H : g.id = hits[i].id /\ h.id = hits[j].id /\ <<g, h>> \in R
      BY <1>7
    <2>2. g = list[i] /\ h = list[j]
      BY ONLY <1>8, <1>9, <2>1
    <2>3. QED BY ONLY <2>1, <2>2
  <1>12. ListOf(list, n, H, R)
    <2>1. \A g, h \in H : ~(<<g, g>> \in R) /\ ~(<<g, h>> \in R /\ <<h, g>> \in R)
      BY <1>5 DEF StrictOrder
    <2>2. \A i, j \in 1..n : i = j \/ i < j \/ j < i
      BY <1>1
    <2>3. \A i, j \in 1..n : <<list[i], list[j]>> \in R <=> i < j
      BY <1>8, <1>11, <2>1, <2>2
    <2>4. list \in [1..n -> H]
      BY <1>8 DEF list
    <2>5. QED BY <1>1, <1>10, <2>3, <2>4 DEF ListOf
  <1>13. \A h \in H : \A r : [h EXCEPT !.rank = r].id = h.id
    BY <1>3 DEF Hits
  <1>14. IdsInOrder(merged) = [i \in 1..Smaller(n, k) |-> list[i].id]
    BY <1>5, <1>12, <1>13, FirstsOfList
  <1>15. Smaller(n, k) \in Nat /\ Smaller(n, k) <= n
    BY <1>1 DEF Smaller
  <1>16. IdsInOrder(merged) = [i \in 1..Smaller(n, k) |-> hits[i].id]
    BY <1>1, <1>8, <1>14, <1>15
  <1>17. QED BY <1>16 DEF merged, n

\* A merge by score has as many members as the two sides have documents, up to k.
LEMMA CalibratedLength ==
  ASSUME NEW S \in SUBSET Int, NEW calibrator, Calibrates(calibrator, S),
         calibrator # NoCalibrator, NEW old, NEW new, Result(old), Result(new),
         \A i \in 1..Len(old) : old[i].score \in S, NEW k \in Nat
  PROVE  DOMAIN CalibratedMerge(old, new, k, calibrator)
           = 1..Smaller(Cardinality(Ids(old) \union Ids(new)), k)
  <1> DEFINE H == Merging(old, new, calibrator)
             D == Ids(old) \union Ids(new)
             Entry(d) == Offered(old, new, calibrator, d)
             f == [d \in D |-> Entry(d)]
             merged == CalibratedMerge(old, new, k, calibrator)
  <1>1. Hits(H, Int) /\ \A d \in D : Entry(d) \in H /\ Entry(d).id = d
    BY MergingAre
  <1>2. DOMAIN merged = 1..Smaller(Cardinality(H), k)
    <2>1. ListsFirst(merged, H, Places(H, ByScore(H)), k)
      BY <1>1, CalibratedLists
    <2> HIDE DEF H, merged
    <2>2. QED BY <2>1 DEF ListsFirst
  <1>3. H = {Entry(d) : d \in D}
    BY DEF Merging
  <1>4. IsFiniteSet(D)
    BY IdsOfResult, FS_Union
  <1> HIDE DEF H, D, Entry, merged
  <1>5. f \in Bijection(D, H)
    BY <1>1, <1>3 DEF Bijection, Injection, IsInjective, Surjection
  <1> HIDE DEF f
  <1>6. Cardinality(H) = Cardinality(D)
    BY <1>4, <1>5, FS_Bijection DEF ExistsBijection
  <1>7. QED BY <1>2, <1>6 DEF D, merged

\* What a merge needs of its calibrator and of the old side.
MayCalibrate(calibrator, old) ==
    calibrator # NoCalibrator =>
        \E S \in SUBSET Int : /\ Calibrates(calibrator, S)
                              /\ \A i \in 1..Len(old) : old[i].score \in S

\* With a calibrator or without: one list merged with nothing keeps its order.
LEMMA MergeOfOne ==
  ASSUME NEW calibrator, NEW old, NEW new, Result(old), Result(new),
         MayCalibrate(calibrator, old), NEW k \in Nat, NEW hits, OnlyOne(hits, old, new)
  PROVE  IdsInOrder(CalibratedMerge(old, new, k, calibrator))
           = [i \in 1..Smaller(Len(hits), k) |-> hits[i].id]
  <1>1. CASE calibrator = NoCalibrator
    <2>1. CalibratedMerge(old, new, k, calibrator) = ReciprocalRankFusion(old, new, k)
      BY <1>1 DEF CalibratedMerge
    <2>2. QED BY <2>1, FusionOfOne
  <1>2. CASE calibrator # NoCalibrator
    <2>1. PICK S \in SUBSET Int : /\ Calibrates(calibrator, S)
                                  /\ \A i \in 1..Len(old) : old[i].score \in S
      BY <1>2 DEF MayCalibrate
    <2>2. QED BY <1>2, <2>1, CalibratedOfOne
  <1>3. QED BY <1>1, <1>2

\* With a calibrator or without: how long a merge is.
LEMMA MergeLength ==
  ASSUME NEW calibrator, NEW old, NEW new, Result(old), Result(new),
         MayCalibrate(calibrator, old), NEW k \in Nat
  PROVE  DOMAIN CalibratedMerge(old, new, k, calibrator)
           = 1..Smaller(Cardinality(Ids(old) \union Ids(new)), k)
  <1>1. CASE calibrator = NoCalibrator
    <2>1. CalibratedMerge(old, new, k, calibrator) = ReciprocalRankFusion(old, new, k)
      BY <1>1 DEF CalibratedMerge
    <2>2. QED BY <2>1, FusionLength
  <1>2. CASE calibrator # NoCalibrator
    <2>1. PICK S \in SUBSET Int : /\ Calibrates(calibrator, S)
                                  /\ \A i \in 1..Len(old) : old[i].score \in S
      BY <1>2 DEF MayCalibrate
    <2>2. QED BY <1>2, <2>1, CalibratedLength
  <1>3. QED BY <1>1, <1>2

\* Of the documents only one side returned, the merge has none before one that
\* side ranked above it, and no document twice, by rank and by any calibrator that
\* turns no two scores round (reciprocal_rank_fusion, calibrated_merge).
THEOREM MergeKeepsOrderEver ==
  ASSUME Result(trial.old), Result(trial.new), trial.k \in Nat, NEW S \in SUBSET Int,
         \A i \in 1..Len(trial.old) : trial.old[i].score \in S,
         trial.calibrator # NoCalibrator => Calibrates(trial.calibrator, S)
  PROVE  MergeKeepsOrder
  <1> DEFINE old == trial.old
             new == trial.new
             k == trial.k
             calibrator == trial.calibrator
  <1>0. /\ Result(old) /\ Result(new) /\ k \in Nat /\ S \in SUBSET Int
        /\ \A i \in 1..Len(old) : old[i].score \in S
        /\ calibrator # NoCalibrator => Calibrates(calibrator, S)
    OBVIOUS
  <1> SUFFICES KeepsEachSidesOrder(old, new, k, calibrator)
    BY DEF MergeKeepsOrder
  <1> HIDE DEF old, new, k, calibrator
  <1>1. CASE calibrator = NoCalibrator
    <2> DEFINE H == Shares(old, new)
    <2>1. CalibratedMerge(old, new, k, calibrator) = ReciprocalRankFusion(old, new, k)
      BY <1>1 DEF CalibratedMerge
    <2>2. FirstsOf(CalibratedMerge(old, new, k, calibrator), H, ByShare(H))
      BY <1>0, <2>1, FusionIs
    <2>3. SideInOrder(old, new, H, ByShare(H)) /\ SideInOrder(new, old, H, ByShare(H))
      BY <1>0, RankKeepsOrder
    <2> HIDE DEF H
    <2>4. QED BY <2>2, <2>3, FirstsKeepOrder
  <1>2. CASE calibrator # NoCalibrator
    <2> DEFINE H == Merging(old, new, calibrator)
    <2>1. Hits(H, Int)
      BY <1>0, <1>2, MergingAre
    <2>2. FirstsOf(CalibratedMerge(old, new, k, calibrator), H, ByScore(H))
      BY <1>0, <1>2, <2>1, CalibratedIs
    <2>3. SideInOrder(old, new, H, ByScore(H)) /\ SideInOrder(new, old, H, ByScore(H))
      BY <1>0, <1>2, ScoreKeepsOrder
    <2> HIDE DEF H
    <2>4. QED BY <2>2, <2>3, FirstsKeepOrder
  <1>3. QED BY <1>1, <1>2

----------------------------------------------------------------------------
(* Deciding on a measurement *)

\* A ratio in thousandths that may not have been measured.
Ratio == Nat \union {Unknown}

Measurement == [kind : {"decision"}, arr : Nat, gain : Ratio, old : Ratio, tier : {"t1", "t2"},
                uninformative : BOOLEAN, cascade : Ratio, text : BOOLEAN, priced : BOOLEAN]

\* What each recommendation is worth, and each band.
LEMMA Worths ==
  /\ Worth("bridge_sufficient") = 3 /\ Worth("bridge_and_migrate") = 2 /\ Worth("caution") = 1
  /\ Worth("full_reindex") = 0 /\ Worth("no_upgrade_needed") = 0
  BY DEF Worth

\* Both rules of a retention give more to more, and the break-even one no less than the band.
LEMMA BandsGrow ==
  ASSUME NEW a \in Nat, NEW b \in Nat, a <= b
  PROVE  /\ Worth(BandFor(a)) \in 0..3 /\ Worth(BandFor(a)) <= Worth(BandFor(b))
         /\ Worth(PaysBy(a)) \in 2..3 /\ Worth(PaysBy(a)) <= Worth(PaysBy(b))
         /\ Worth(BandFor(a)) <= Worth(PaysBy(a))
  <1>1. \A x \in Nat : BandFor(x) = IF x >= 950 THEN "bridge_sufficient"
                                    ELSE IF x >= 850 THEN "bridge_and_migrate"
                                    ELSE IF x >= 700 THEN "caution" ELSE "full_reindex"
    BY DEF BandFor
  <1>2. QED BY <1>1, Worths DEF PaysBy

\* A product of ratios grows with each of them.
LEMMA ProductGrows ==
  ASSUME NEW a \in Nat, NEW b \in Nat, a <= b, NEW g \in Nat
  PROVE  /\ a * g \in Nat /\ b * g \in Nat /\ a * g <= b * g
  OBVIOUS

\* Whatever was measured, bridging is recommended only where it retrieves no less
\* than the current model, within what the measurement can be wrong (decide).
THEOREM BridgingLosesNothingEver ==
  ASSUME trial \in Measurement
  PROVE  BridgingLosesNothing
  <1>1. Recommended(trial) \in Bridging => ~Loses(trial)
    BY DEF Recommended, Bridging
  <1>2. trial.arr \in Nat /\ (Known(trial.old) => trial.old \in Nat)
    BY DEF Measurement, Ratio, Known, Unknown
  <1>3. ~Loses(trial) /\ Known(trial.old) => trial.arr >= trial.old - BORDERLINE_BAND
    BY <1>2 DEF Loses, Loss, BORDERLINE_BAND
  <1>4. QED BY <1>1, <1>3 DEF BridgingLosesNothing, BridgingIsNoLoss, Decide

\* Of two measurements that differ in the retention alone, the one that retains
\* more is never recommended less (decide, BreakEven, bands).
THEOREM RetentionNeverHurtsEver ==
  ASSUME trial \in Measurement, Ratios \subseteq Nat
  PROVE  RetentionNeverHurts
  <1> SUFFICES ASSUME NEW arr \in Nat, arr >= trial.arr
               PROVE  Worth(Recommended([trial EXCEPT !.arr = arr])) >= Worth(Recommended(trial))
    BY DEF RetentionNeverHurts, MoreIsNeverWorse, Decide
  <1> DEFINE m == [trial EXCEPT !.arr = arr]
  <1>1. /\ trial.arr \in Nat /\ trial.gain \in Ratio /\ trial.old \in Ratio
        /\ trial.uninformative \in BOOLEAN
        /\ m.arr = arr /\ m.gain = trial.gain /\ m.old = trial.old
        /\ m.uninformative = trial.uninformative
    BY DEF Measurement
  <1> HIDE DEF m
  <1>2. NoUpgrade(m) <=> NoUpgrade(trial)
    BY <1>1 DEF NoUpgrade
  <1>3. Loses(m) => Loses(trial)
    BY <1>1 DEF Loses, Loss, Known, Unknown, Ratio, BORDERLINE_BAND
  <1>4. Known(BreakEven(trial)) /\ Clear(BreakEven(trial))
           => Known(BreakEven(m)) /\ Clear(BreakEven(m))
    <2> SUFFICES ASSUME ~trial.uninformative, Known(trial.gain),
                        Clear(trial.arr * trial.gain)
                 PROVE  Known(arr * trial.gain) /\ Clear(arr * trial.gain)
      BY <1>1 DEF BreakEven, Product, Known, Unknown, Ratio
    <2>1. trial.gain \in Nat
      BY <1>1 DEF Known, Ratio
    <2>2. /\ trial.arr * trial.gain \in Nat /\ arr * trial.gain \in Nat
          /\ trial.arr * trial.gain <= arr * trial.gain
      BY <1>1, <2>1, ProductGrows
    <2>3. QED BY <2>2 DEF Clear, Known, Unknown, BORDERLINE_BAND
  <1>5. /\ Worth(BandFor(trial.arr)) \in 0..3 /\ Worth(BandFor(trial.arr)) <= Worth(BandFor(arr))
        /\ Worth(PaysBy(trial.arr)) \in 2..3 /\ Worth(PaysBy(trial.arr)) <= Worth(PaysBy(arr))
        /\ Worth(BandFor(trial.arr)) <= Worth(PaysBy(trial.arr))
        /\ Worth(BandFor(arr)) \in 0..3 /\ Worth(PaysBy(arr)) \in 2..3
    BY <1>1, BandsGrow
  <1>6. Worth(Recommended(m)) \in 0..3
    BY <1>1, <1>5, Worths DEF Recommended
  <1>7. CASE NoUpgrade(trial)
    BY <1>2, <1>7, Worths DEF Recommended, m
  <1>8. CASE ~NoUpgrade(trial) /\ Loses(trial)
    <2>1. Worth(Recommended(trial)) = 0
      BY <1>8, Worths DEF Recommended
    <2>2. QED BY <1>6, <2>1 DEF m
  <1>9. CASE ~NoUpgrade(trial) /\ ~Loses(trial)
    <2> DEFINE PaysAt(x) == Known(BreakEven(x)) /\ Clear(BreakEven(x))
    <2>1. /\ Recommended(trial) = IF PaysAt(trial) THEN PaysBy(trial.arr) ELSE BandFor(trial.arr)
          /\ Recommended(m) = IF PaysAt(m) THEN PaysBy(arr) ELSE BandFor(arr)
      BY <1>1, <1>2, <1>3, <1>9 DEF Recommended
    <2>2. PaysAt(trial) => PaysAt(m)
      BY <1>4
    <2> HIDE DEF PaysAt
    <2>3. QED BY <1>5, <2>1, <2>2 DEF m
  <1>10. QED BY <1>7, <1>8, <1>9

\* A cascade is never arranged for a run that is told it needs no upgrade
\* (decide, _with_arrangement).
THEOREM DecisionsAgreeEver ==
  ASSUME trial \in Measurement
  PROVE  DecisionsAgree
  <1> SUFFICES ASSUME trial.cascade <= 1000, Clear(Product(trial.cascade, trial.gain))
               PROVE  Recommended(trial) # "no_upgrade_needed"
    BY DEF DecisionsAgree, AnswersAgree, Decide, Arrangement, ClearCascade
  <1>1. trial.cascade \in Nat /\ trial.gain \in Nat /\ Clear(trial.cascade * trial.gain)
    BY DEF Measurement, Ratio, Product, Known, Unknown, Clear, BORDERLINE_BAND
  <1>2. trial.cascade * trial.gain <= 1000 * trial.gain /\ trial.cascade * trial.gain \in Nat
    BY <1>1, ProductGrows
  <1>3. trial.gain >= UPGRADE_GAIN_FLOOR
    BY <1>1, <1>2 DEF Clear, BORDERLINE_BAND, UPGRADE_GAIN_FLOOR
  <1>4. ~NoUpgrade(trial) /\ Known(trial.gain)
    BY <1>1, <1>3 DEF NoUpgrade, Known, Unknown, UPGRADE_GAIN_FLOOR
  <1>5. BandFor(trial.arr) # "no_upgrade_needed" /\ PaysBy(trial.arr) # "no_upgrade_needed"
    <2>1. trial.arr \in Nat
      BY DEF Measurement
    <2>2. QED BY <2>1 DEF BandFor, PaysBy
  <1>6. QED BY <1>4, <1>5 DEF Recommended

----------------------------------------------------------------------------
(* Drawing a sample *)

\* A vector of a record, and where a read can be.
Vector == [of : Sources, version : Nat]

Stages == {"idle", "raised", "streaming", "texts", "dropping", "splitting", "drawn"}

\* What is read is sequences of ids, of vectors and of texts; the split is two sets.
SampleTypeOK ==
    /\ edition \in [Sources -> Nat]
    /\ DOMAIN sampling = {"at", "capacity", "unread", "ids", "vectors", "labels", "arrived",
                          "texts", "queries", "fit"}
    /\ sampling.at \in Stages
    /\ sampling.ids \in Seq(Sources) /\ sampling.vectors \in Seq(Vector)
    /\ sampling.arrived \in Seq([id : Sources, text : SUBSET Vector])

\* Vectors are beside the ids they are of, and labels, if there are any, beside
\* the vectors they were made from.
VectorsAligned ==
    /\ Len(sampling.vectors) = Len(sampling.ids)
    /\ \A i \in 1..Len(sampling.ids) : sampling.vectors[i].of = sampling.ids[i]
    /\ sampling.at \in {"texts", "dropping", "splitting", "drawn"} =>
          sampling.labels = <<>> \/ sampling.labels = sampling.vectors

\* A text that arrived is of the record it came for.
ArrivedAligned ==
    \A j \in 1..Len(sampling.arrived) :
       \A x \in sampling.arrived[j].text : x.of = sampling.arrived[j].id

\* A text is beside its id, and none is blank once the blank ones are dropped.
TextsAligned ==
    sampling.at \in {"dropping", "splitting", "drawn"} =>
       /\ DOMAIN sampling.texts = 1..Len(sampling.ids)
       /\ \A i \in 1..Len(sampling.ids) : \A x \in sampling.texts[i] : x.of = sampling.ids[i]
       /\ sampling.at # "dropping" => \A i \in 1..Len(sampling.ids) : sampling.texts[i] # Blank

\* The two sides of a split share no position, and the fit has enough of them.
SplitDisjointly ==
    sampling.at = "drawn" =>
       /\ sampling.queries \intersect sampling.fit = {}
       /\ Cardinality(sampling.fit) >= MinSample

SampleInv == SampleTypeOK /\ VectorsAligned /\ ArrivedAligned /\ TextsAligned /\ SplitDisjointly

\* What is gathered from a sequence, at positions of it.
GatheredFrom(some, s, positions, m, T) ==
    /\ some \in Seq(T) /\ Len(some) = m
    /\ \A i \in 1..m : positions[i] \in 1..Len(s) /\ some[i] = s[positions[i]]

\* What is gathered at positions of a sequence is the members at these positions.
LEMMA GatherIs ==
  ASSUME NEW T, NEW s \in Seq(T), NEW m \in Nat, NEW positions \in [1..m -> 1..Len(s)]
  PROVE  GatheredFrom(Gather(s, positions), s, positions, m, T)
  <1>1. Gather(s, positions) = [i \in 1..m |-> s[positions[i]]]
    BY DEF Gather
  <1>2. \A i \in 1..m : s[positions[i]] \in T
    OBVIOUS
  <1>3. Gather(s, positions) \in [1..m -> T]
    BY <1>1, <1>2
  <1>4. QED BY <1>1, <1>3 DEF GatheredFrom

\* Nothing is read yet.
LEMMA SampleInvInit == SampleInit => SampleInv
  <1> SUFFICES ASSUME SampleInit PROVE SampleInv
    OBVIOUS
  <1>1. /\ sampling.at = "idle" /\ sampling.ids = <<>> /\ sampling.vectors = <<>>
        /\ sampling.arrived = <<>> /\ edition \in [Sources -> Nat]
        /\ DOMAIN sampling = {"at", "capacity", "unread", "ids", "vectors", "labels", "arrived",
                              "texts", "queries", "fit"}
    BY DEF SampleInit, NotBegun
  <1>2. QED
    BY <1>1 DEF SampleInv, SampleTypeOK, Stages, VectorsAligned, ArrivedAligned, TextsAligned,
                SplitDisjointly

\* An attempt that raises holds nothing.
LEMMA EmptyHeld ==
  ASSUME NEW q, q = [NotBegun EXCEPT !.at = "raised"]
  PROVE  /\ q.at = "raised" /\ q.ids = <<>> /\ q.vectors = <<>> /\ q.arrived = <<>>
         /\ DOMAIN q = {"at", "capacity", "unread", "ids", "vectors", "labels", "arrived",
                        "texts", "queries", "fit"}
  BY DEF NotBegun

\* An attempt that raises keeps what the sample is made of.
LEMMA RaisedKeeps ==
  ASSUME edition' \in [Sources -> Nat], sampling' = [NotBegun EXCEPT !.at = "raised"]
  PROVE  SampleInv'
  <1>1. /\ sampling'.at = "raised" /\ sampling'.ids = <<>> /\ sampling'.vectors = <<>>
        /\ sampling'.arrived = <<>>
        /\ DOMAIN sampling' = {"at", "capacity", "unread", "ids", "vectors", "labels", "arrived",
                               "texts", "queries", "fit"}
    BY EmptyHeld, Zenon
  <1>2. SampleTypeOK'
    <2>1. <<>> \in Seq(Sources) /\ <<>> \in Seq(Vector)
          /\ <<>> \in Seq([id : Sources, text : SUBSET Vector])
      OBVIOUS
    <2>2. "raised" \in Stages
      BY DEF Stages
    <2>3. /\ sampling'.ids \in Seq(Sources) /\ sampling'.vectors \in Seq(Vector)
          /\ sampling'.arrived \in Seq([id : Sources, text : SUBSET Vector])
          /\ sampling'.at \in Stages
      BY <1>1, <2>1, <2>2, Zenon
    <2>4. QED BY <1>1, <2>3, Zenon DEF SampleTypeOK
  <1>3. VectorsAligned' /\ ArrivedAligned' /\ TextsAligned' /\ SplitDisjointly'
    BY <1>1 DEF VectorsAligned, ArrivedAligned, TextsAligned, SplitDisjointly
  <1>4. QED BY <1>2, <1>3 DEF SampleInv

\* What the application does leaves the sample as it was read.
LEMMA EditsKeep ==
  ASSUME SampleInv, edition' \in [Sources -> Nat], UNCHANGED sampling
  PROVE  SampleInv'
  BY DEF SampleInv, SampleTypeOK, VectorsAligned, ArrivedAligned, TextsAligned, SplitDisjointly

\* The reservoir takes a vector together with its id.
LEMMA ReadVectorKeeps ==
  ASSUME SampleInv, NEW d \in Sources, ReadVector(d)
  PROVE  SampleInv'
  <1>1. /\ sampling.at = "streaming" /\ edition' = edition /\ edition \in [Sources -> Nat]
        /\ sampling.ids \in Seq(Sources) /\ sampling.vectors \in Seq(Vector)
        /\ Len(sampling.vectors) = Len(sampling.ids)
        /\ \A i \in 1..Len(sampling.ids) : sampling.vectors[i].of = sampling.ids[i]
    BY DEF ReadVector, Probing, SampleInv, SampleTypeOK, VectorsAligned
  <1>2. Current(d) \in Vector /\ Current(d).of = d
    BY <1>1 DEF Current, Vector
  <1>3. /\ sampling'.at = "streaming" /\ DOMAIN sampling' = DOMAIN sampling
        /\ sampling'.arrived = sampling.arrived
        /\ \/ sampling'.ids = Append(sampling.ids, d)
              /\ sampling'.vectors = Append(sampling.vectors, Current(d))
           \/ sampling'.ids = sampling.ids /\ sampling'.vectors = sampling.vectors
           \/ \E slot \in DOMAIN sampling.ids :
                 /\ sampling'.ids = [sampling.ids EXCEPT ![slot] = d]
                 /\ sampling'.vectors = [sampling.vectors EXCEPT ![slot] = Current(d)]
    <2> DEFINE rest == [sampling EXCEPT !.unread = @ \ {d}]
    <2>0. DOMAIN sampling = {"at", "capacity", "unread", "ids", "vectors", "labels", "arrived",
                             "texts", "queries", "fit"}
      BY DEF SampleInv, SampleTypeOK
    <2>1. /\ rest.at = sampling.at /\ DOMAIN rest = DOMAIN sampling /\ rest.ids = sampling.ids
          /\ rest.arrived = sampling.arrived /\ rest.vectors = sampling.vectors
      BY <2>0
    <2>2. \/ sampling' = [rest EXCEPT !.ids = Append(@, d), !.vectors = Append(@, Current(d))]
          \/ sampling' = rest
          \/ \E slot \in DOMAIN sampling.ids :
                sampling' = [rest EXCEPT !.ids[slot] = d, !.vectors[slot] = Current(d)]
      BY DEF ReadVector
    <2> HIDE DEF rest
    <2>3. CASE sampling' = [rest EXCEPT !.ids = Append(@, d), !.vectors = Append(@, Current(d))]
      BY <1>1, <2>0, <2>1, <2>3
    <2>4. CASE sampling' = rest
      BY <1>1, <2>1, <2>4
    <2>5. ASSUME NEW slot \in DOMAIN sampling.ids,
                 sampling' = [rest EXCEPT !.ids[slot] = d, !.vectors[slot] = Current(d)]
          PROVE  /\ sampling'.at = "streaming" /\ DOMAIN sampling' = DOMAIN sampling
                 /\ sampling'.arrived = sampling.arrived
                 /\ sampling'.ids = [sampling.ids EXCEPT ![slot] = d]
                 /\ sampling'.vectors = [sampling.vectors EXCEPT ![slot] = Current(d)]
      BY <1>1, <2>0, <2>1, <2>5
    <2>6. QED BY <2>2, <2>3, <2>4, <2>5
  <1>4. /\ sampling'.ids \in Seq(Sources) /\ sampling'.vectors \in Seq(Vector)
        /\ Len(sampling'.vectors) = Len(sampling'.ids)
        /\ \A i \in 1..Len(sampling'.ids) : sampling'.vectors[i].of = sampling'.ids[i]
    <2>1. CASE sampling'.ids = Append(sampling.ids, d)
               /\ sampling'.vectors = Append(sampling.vectors, Current(d))
      BY <1>1, <1>2, <2>1
    <2>2. CASE sampling'.ids = sampling.ids /\ sampling'.vectors = sampling.vectors
      BY <1>1, <2>2
    <2>3. ASSUME NEW slot \in DOMAIN sampling.ids,
                 sampling'.ids = [sampling.ids EXCEPT ![slot] = d],
                 sampling'.vectors = [sampling.vectors EXCEPT ![slot] = Current(d)]
          PROVE  /\ sampling'.ids \in Seq(Sources) /\ sampling'.vectors \in Seq(Vector)
                 /\ Len(sampling'.vectors) = Len(sampling'.ids)
                 /\ \A i \in 1..Len(sampling'.ids) : sampling'.vectors[i].of = sampling'.ids[i]
      BY <1>1, <1>2, <2>3
    <2>4. QED BY <1>3, <2>1, <2>2, <2>3
  <1>5. QED
    BY <1>1, <1>3, <1>4 DEF SampleInv, SampleTypeOK, VectorsAligned, ArrivedAligned,
                            TextsAligned, SplitDisjointly

\* A sample is drawn at the same positions of the ids and of the vectors.
LEMMA DrawKeeps ==
  ASSUME SampleInv, NEW stratified \in BOOLEAN, DrawPositions(stratified)
  PROVE  SampleInv'
  <1>1. /\ edition' = edition /\ edition \in [Sources -> Nat]
        /\ sampling.ids \in Seq(Sources) /\ sampling.vectors \in Seq(Vector)
        /\ Len(sampling.vectors) = Len(sampling.ids)
        /\ \A i \in 1..Len(sampling.ids) : sampling.vectors[i].of = sampling.ids[i]
        /\ DOMAIN sampling = {"at", "capacity", "unread", "ids", "vectors", "labels", "arrived",
                              "texts", "queries", "fit"}
    BY DEF DrawPositions, SampleInv, SampleTypeOK, VectorsAligned
  <1>2. CASE sampling' = [NotBegun EXCEPT !.at = "raised"]
    BY <1>1, <1>2, RaisedKeeps
  <1>3. ASSUME NEW S \in SUBSET DOMAIN sampling.ids,
               LET positions == InPlace(S)
               IN  sampling' = [sampling EXCEPT !.at = "texts",
                         !.ids = Gather(@, positions), !.vectors = Gather(@, positions),
                         !.labels = IF stratified THEN Gather(sampling.vectors, positions) ELSE <<>>]
        PROVE  SampleInv'
    <2> DEFINE n == Len(sampling.ids)
               m == Cardinality(S)
               positions == InPlace(S)
    <2>1. n \in Nat /\ S \in SUBSET (1..n)
      BY <1>1
    <2>2. m \in Nat /\ positions \in [1..m -> 1..n]
      BY <2>1, InPlaceIs
    <2> HIDE DEF m, positions
    <2>3. GatheredFrom(Gather(sampling.ids, positions), sampling.ids, positions, m, Sources)
      BY <1>1, <2>2, GatherIs
    <2>4. GatheredFrom(Gather(sampling.vectors, positions), sampling.vectors, positions, m, Vector)
      <3>1. positions \in [1..m -> 1..Len(sampling.vectors)]
        BY <1>1, <2>2
      <3>2. QED BY <1>1, <2>2, <3>1, GatherIs
    <2>5. /\ sampling'.at = "texts" /\ DOMAIN sampling' = DOMAIN sampling
          /\ sampling'.ids = Gather(sampling.ids, positions)
          /\ sampling'.vectors = Gather(sampling.vectors, positions)
          /\ sampling'.labels = <<>> \/ sampling'.labels = sampling'.vectors
          /\ sampling'.arrived = sampling.arrived
      BY <1>1, <1>3 DEF positions
    <2>6. VectorsAligned'
      BY <1>1, <2>3, <2>4, <2>5 DEF VectorsAligned, GatheredFrom
    <2>7. SampleTypeOK'
      BY <1>1, <2>3, <2>4, <2>5 DEF SampleInv, SampleTypeOK, Stages, GatheredFrom
    <2>8. QED
      BY <2>5, <2>6, <2>7 DEF SampleInv, ArrivedAligned, TextsAligned, SplitDisjointly
  <1>4. QED BY <1>2, <1>3 DEF DrawPositions

\* A text arrives with the id of the record it is read from.
LEMMA ReadTextKeeps ==
  ASSUME SampleInv, NEW d \in Sources, ReadText(d)
  PROVE  SampleInv'
  <1>1. /\ sampling.at = "texts" /\ edition' = edition /\ edition \in [Sources -> Nat]
        /\ sampling.arrived \in Seq([id : Sources, text : SUBSET Vector])
        /\ DOMAIN sampling = {"at", "capacity", "unread", "ids", "vectors", "labels", "arrived",
                              "texts", "queries", "fit"}
    BY DEF ReadText, Probing, SampleInv, SampleTypeOK
  <1> DEFINE new == [id |-> d, text |-> TextOf(d)]
  <1>2. new \in [id : Sources, text : SUBSET Vector] /\ new.id = d /\ \A x \in new.text : x.of = d
    <2>1. Current(d) \in Vector /\ Current(d).of = d
      BY <1>1 DEF Current, Vector
    <2>2. TextOf(d) \in SUBSET Vector /\ \A x \in TextOf(d) : x.of = d
      BY <2>1 DEF TextOf, Blank
    <2>3. QED BY <2>2
  <1>3. /\ sampling'.arrived = Append(sampling.arrived, new) /\ DOMAIN sampling' = DOMAIN sampling
        /\ sampling'.at = sampling.at /\ sampling'.ids = sampling.ids
        /\ sampling'.vectors = sampling.vectors /\ sampling'.labels = sampling.labels
    BY <1>1 DEF ReadText
  <1> HIDE DEF new
  <1>4. ArrivedAligned'
    <2> SUFFICES ASSUME NEW j \in 1..Len(sampling'.arrived), NEW x \in sampling'.arrived[j].text
                 PROVE  x.of = sampling'.arrived[j].id
      BY DEF ArrivedAligned
    <2>1. CASE j \in 1..Len(sampling.arrived)
      <3>1. sampling'.arrived[j] = sampling.arrived[j]
        BY <1>1, <1>2, <1>3, <2>1
      <3>2. QED BY <2>1, <3>1 DEF SampleInv, ArrivedAligned
    <2>2. CASE j \notin 1..Len(sampling.arrived)
      <3>1. sampling'.arrived[j] = new
        BY <1>1, <1>2, <1>3, <2>2
      <3>2. QED BY <1>2, <3>1
    <2>3. QED BY <2>1, <2>2
  <1>5. SampleTypeOK'
    <2>1. sampling'.arrived \in Seq([id : Sources, text : SUBSET Vector])
      BY <1>1, <1>2, <1>3
    <2>2. QED BY <1>1, <1>3, <2>1 DEF SampleInv, SampleTypeOK
  <1>6. VectorsAligned' /\ TextsAligned' /\ SplitDisjointly'
    BY <1>1, <1>3 DEF SampleInv, VectorsAligned, TextsAligned, SplitDisjointly
  <1>7. QED BY <1>4, <1>5, <1>6 DEF SampleInv

\* Each id takes the text that came for it, and a blank one if none did.
LEMMA FetchKeeps ==
  ASSUME SampleInv, FetchTexts
  PROVE  SampleInv'
  <1> DEFINE n == Len(sampling.ids)
             texts == TextsById(sampling.ids, sampling.arrived)
  <1>1. /\ sampling.at = "texts" /\ edition' = edition /\ edition \in [Sources -> Nat]
        /\ sampling.ids \in Seq(Sources)
        /\ sampling.arrived \in Seq([id : Sources, text : SUBSET Vector])
        /\ DOMAIN sampling = {"at", "capacity", "unread", "ids", "vectors", "labels", "arrived",
                              "texts", "queries", "fit"}
    BY DEF FetchTexts, Probing, SampleInv, SampleTypeOK
  <1>2. /\ sampling'.arrived = <<>> /\ DOMAIN sampling' = DOMAIN sampling
        /\ sampling'.at = "dropping" /\ sampling'.ids = sampling.ids
        /\ sampling'.vectors = sampling.vectors /\ sampling'.labels = sampling.labels
        /\ sampling'.texts = texts
    BY <1>1 DEF FetchTexts
  <1>3. DOMAIN texts = 1..n
    BY <1>1 DEF TextsById
  <1>4. ASSUME NEW i \in 1..n, NEW x \in texts[i] PROVE x.of = sampling.ids[i]
    <2> DEFINE Came(j) == sampling.arrived[j].id = sampling.ids[i]
               first == CHOOSE j \in DOMAIN sampling.arrived : Came(j)
    <2>1. texts[i] = IF \E j \in DOMAIN sampling.arrived : Came(j)
                     THEN sampling.arrived[first].text ELSE Blank
      <3>1. i \in DOMAIN sampling.ids
        BY <1>1
      <3>2. QED BY <3>1, Zenon DEF TextsById
    <2>2. CASE \E j \in DOMAIN sampling.arrived : Came(j)
      <3>1. first \in DOMAIN sampling.arrived /\ Came(first)
        BY <2>2, Zenon
      <3> HIDE DEF first
      <3>2. first \in 1..Len(sampling.arrived)
        BY <1>1, <3>1
      <3>3. x \in sampling.arrived[first].text
        BY <1>4, <2>1, <2>2
      <3>4. x.of = sampling.arrived[first].id
        BY <3>2, <3>3 DEF SampleInv, ArrivedAligned
      <3>5. QED BY <3>1, <3>4
    <2>3. CASE ~\E j \in DOMAIN sampling.arrived : Came(j)
      <3>1. texts[i] = Blank
        BY <2>1, <2>3
      <3>2. QED BY <1>4, <3>1 DEF Blank
    <2>4. QED BY <2>2, <2>3
  <1> HIDE DEF texts
  <1>5. TextsAligned'
    BY <1>2, <1>3, <1>4 DEF TextsAligned
  <1>6. SampleTypeOK' /\ VectorsAligned'
    <2>1. SampleTypeOK'
      BY <1>1, <1>2 DEF SampleInv, SampleTypeOK, Stages
    <2>2. VectorsAligned'
      BY <1>1, <1>2 DEF SampleInv, VectorsAligned
    <2>3. QED BY <2>1, <2>2
  <1>7. ArrivedAligned' /\ SplitDisjointly'
    BY <1>2 DEF ArrivedAligned, SplitDisjointly
  <1>8. QED BY <1>5, <1>6, <1>7 DEF SampleInv

\* Blank texts go with their ids, vectors and labels.
LEMMA DropKeeps ==
  ASSUME SampleInv, DropEmptyTexts
  PROVE  SampleInv'
  <1> DEFINE n == Len(sampling.ids)
             S == {i \in DOMAIN sampling.ids : sampling.texts[i] # Blank}
             keep == InPlace(S)
             m == Cardinality(S)
  <1>1. /\ sampling.at = "dropping" /\ edition' = edition /\ edition \in [Sources -> Nat]
        /\ sampling.ids \in Seq(Sources) /\ sampling.vectors \in Seq(Vector)
        /\ sampling.arrived \in Seq([id : Sources, text : SUBSET Vector])
        /\ DOMAIN sampling = {"at", "capacity", "unread", "ids", "vectors", "labels", "arrived",
                              "texts", "queries", "fit"}
    BY DEF DropEmptyTexts, Probing, SampleInv, SampleTypeOK
  <1>2. /\ Len(sampling.vectors) = Len(sampling.ids)
        /\ \A i \in 1..n : sampling.vectors[i].of = sampling.ids[i]
        /\ sampling.labels = <<>> \/ sampling.labels = sampling.vectors
        /\ DOMAIN sampling.texts = 1..n
        /\ \A i \in 1..n : \A x \in sampling.texts[i] : x.of = sampling.ids[i]
    BY <1>1 DEF SampleInv, VectorsAligned, TextsAligned
  <1>3. CASE sampling' = [NotBegun EXCEPT !.at = "raised"]
    BY <1>1, <1>3, RaisedKeeps
  <1>4. CASE sampling' = [sampling EXCEPT !.at = "splitting", !.ids = Gather(@, keep),
                     !.texts = Gather(@, keep), !.vectors = Gather(@, keep),
                     !.labels = IF @ = <<>> THEN @ ELSE Gather(@, keep)]
    <2>1. n \in Nat /\ S \in SUBSET (1..n) /\ \A i \in S : sampling.texts[i] # Blank
      BY <1>1
    <2> HIDE DEF S
    <2>2. m \in Nat /\ keep \in [1..m -> S]
      BY <2>1, InPlaceIs
    <2>3. keep \in [1..m -> 1..n]
      BY <2>1, <2>2
    <2> HIDE DEF m, keep
    <2>4. GatheredFrom(Gather(sampling.ids, keep), sampling.ids, keep, m, Sources)
      BY <1>1, <2>2, <2>3, GatherIs
    <2>5. GatheredFrom(Gather(sampling.vectors, keep), sampling.vectors, keep, m, Vector)
      <3>1. keep \in [1..m -> 1..Len(sampling.vectors)]
        BY <1>1, <1>2, <2>2, <2>3
      <3>2. QED BY <1>1, <2>2, <3>1, GatherIs
    <2>6. DOMAIN Gather(sampling.texts, keep) = 1..m
          /\ \A i \in 1..m : Gather(sampling.texts, keep)[i] = sampling.texts[keep[i]]
      BY <2>2 DEF Gather
    <2>7. /\ sampling'.at = "splitting" /\ DOMAIN sampling' = DOMAIN sampling
          /\ sampling'.ids = Gather(sampling.ids, keep)
          /\ sampling'.vectors = Gather(sampling.vectors, keep)
          /\ sampling'.texts = Gather(sampling.texts, keep)
          /\ sampling'.labels = <<>> \/ sampling'.labels = sampling'.vectors
          /\ sampling'.arrived = sampling.arrived
      BY <1>1, <1>2, <1>4
    <2>8. VectorsAligned'
      BY <1>2, <2>4, <2>5, <2>7 DEF VectorsAligned, GatheredFrom
    <2>9. TextsAligned'
      <3>1. \A i \in 1..m : keep[i] \in S /\ keep[i] \in 1..n
        BY <2>2, <2>3
      <3>2. \A i \in 1..m : \A x \in sampling.texts[keep[i]] : x.of = sampling.ids[keep[i]]
        BY <1>2, <3>1
      <3>3. \A i \in 1..m : sampling.texts[keep[i]] # Blank
        BY <2>1, <3>1
      <3>4. QED BY <2>4, <2>6, <2>7, <3>2, <3>3 DEF TextsAligned, GatheredFrom
    <2>10. SampleTypeOK'
      BY <1>1, <2>4, <2>5, <2>7 DEF SampleTypeOK, Stages, GatheredFrom
    <2>11. ArrivedAligned' /\ SplitDisjointly'
      BY <2>7 DEF SampleInv, ArrivedAligned, SplitDisjointly
    <2>12. QED BY <2>8, <2>9, <2>10, <2>11 DEF SampleInv
  <1>5. QED BY <1>3, <1>4 DEF DropEmptyTexts

\* The split takes every position for one side.
LEMMA SplitKeeps ==
  ASSUME SampleInv, SplitDisjoint
  PROVE  SampleInv'
  <1>1. /\ sampling.at = "splitting" /\ edition' = edition /\ edition \in [Sources -> Nat]
        /\ sampling.ids \in Seq(Sources)
        /\ DOMAIN sampling = {"at", "capacity", "unread", "ids", "vectors", "labels", "arrived",
                              "texts", "queries", "fit"}
    BY DEF SplitDisjoint, Probing, SampleInv, SampleTypeOK
  <1> DEFINE all == DOMAIN sampling.ids
  <1>2. PICK Q \in SUBSET all :
           sampling' = IF Cardinality(all \ Q) < MinSample
                       THEN [NotBegun EXCEPT !.at = "raised"]
                       ELSE [sampling EXCEPT !.at = "drawn", !.queries = Q, !.fit = all \ Q]
    BY DEF SplitDisjoint
  <1>3. CASE Cardinality(all \ Q) < MinSample
    BY <1>1, <1>2, <1>3, RaisedKeeps
  <1>4. CASE ~(Cardinality(all \ Q) < MinSample)
    <2>1. /\ sampling'.at = "drawn" /\ DOMAIN sampling' = DOMAIN sampling
          /\ sampling'.ids = sampling.ids /\ sampling'.vectors = sampling.vectors
          /\ sampling'.labels = sampling.labels /\ sampling'.arrived = sampling.arrived
          /\ sampling'.texts = sampling.texts
          /\ sampling'.queries = Q /\ sampling'.fit = all \ Q
      BY <1>1, <1>2, <1>4
    <2>2. Cardinality(all \ Q) \in Nat
      <3>1. all = 1..Len(sampling.ids) /\ Len(sampling.ids) \in Nat
        BY <1>1
      <3>2. IsFiniteSet(1..Len(sampling.ids))
        BY <3>1, FS_Interval
      <3> HIDE DEF all
      <3>3. IsFiniteSet(all \ Q)
        BY <3>1, <3>2, FS_Difference
      <3>4. QED BY <3>3, FS_CardinalityType
    <2>3. SplitDisjointly'
      <3>1. Cardinality(all \ Q) >= MinSample
        BY <1>4, <2>2, SampleAssumption
      <3> HIDE DEF all
      <3>2. QED BY <2>1, <3>1 DEF SplitDisjointly
    <2>4. SampleTypeOK'
      BY <1>1, <2>1 DEF SampleInv, SampleTypeOK, Stages
    <2>5. VectorsAligned' /\ ArrivedAligned' /\ TextsAligned'
      BY <1>1, <2>1 DEF SampleInv, VectorsAligned, ArrivedAligned, TextsAligned
    <2>6. QED BY <2>3, <2>4, <2>5 DEF SampleInv
  <1>5. QED BY <1>3, <1>4

\* SampleInv is inductive.
LEMMA SampleInvStep == SampleInv /\ [SampleNext]_sampleVars => SampleInv'
  <1> SUFFICES ASSUME SampleInv, [SampleNext]_sampleVars PROVE SampleInv'
    OBVIOUS
  <1>0. edition \in [Sources -> Nat]
    BY DEF SampleInv, SampleTypeOK
  <1>1. CASE CountRecords
    <2>1. /\ sampling.at = "idle" /\ edition' = edition /\ sampling'.at = "streaming"
          /\ DOMAIN sampling' = DOMAIN sampling
          /\ sampling'.ids = sampling.ids /\ sampling'.vectors = sampling.vectors
          /\ sampling'.arrived = sampling.arrived
      BY <1>1 DEF CountRecords, Probing, SampleInv, SampleTypeOK
    <2>2. SampleTypeOK'
      BY <1>0, <2>1 DEF SampleInv, SampleTypeOK, Stages
    <2>3. VectorsAligned' /\ ArrivedAligned' /\ TextsAligned' /\ SplitDisjointly'
      BY <2>1 DEF SampleInv, VectorsAligned, ArrivedAligned, TextsAligned, SplitDisjointly
    <2>4. QED BY <2>2, <2>3 DEF SampleInv
  <1>2. ASSUME NEW d \in Sources, EditRecord(d) PROVE SampleInv'
    <2>1. edition' \in [Sources -> Nat]
      BY <1>0, <1>2 DEF EditRecord
    <2>2. QED BY <1>2, <2>1, EditsKeep DEF EditRecord
  <1>3. ASSUME NEW d \in Sources, DeleteRecord(d) PROVE SampleInv'
    BY <1>0, <1>3, EditsKeep DEF DeleteRecord
  <1>4. CASE UNCHANGED sampleVars
    BY <1>0, <1>4, EditsKeep DEF sampleVars
  <1>5. QED
    BY <1>1, <1>2, <1>3, <1>4, ReadVectorKeeps, DrawKeeps, ReadTextKeeps, FetchKeeps, DropKeeps,
       SplitKeeps DEF SampleNext

\* In every reachable state what is read is beside what it is of.
THEOREM SampleAlways == SampleSpec => []SampleInv
  BY SampleInvInit, SampleInvStep, PTL DEF SampleSpec

\* The sample a probe measures is aligned, whatever was edited while it was read and
\* in whatever order it came (_draw, _fetch_texts, _drop_empty_texts, split_disjoint).
THEOREM SampleIsAlignedAlways == SampleSpec => []SampleIsAligned
  <1>1. SampleInv => SampleIsAligned
    <2> SUFFICES ASSUME SampleInv, sampling.at = "drawn" PROVE SampleIsAligned
      BY DEF SampleIsAligned, Probing
    <2> DEFINE n == Len(sampling.ids)
    <2>1. DOMAIN sampling.ids = 1..n
      BY DEF SampleInv, SampleTypeOK
    <2>2. \A i \in 1..n : sampling.vectors[i].of = sampling.ids[i]
          /\ (sampling.labels # <<>> => sampling.labels[i] = sampling.vectors[i])
      BY DEF SampleInv, VectorsAligned
    <2>3. \A i \in 1..n : (\A x \in sampling.texts[i] : x.of = sampling.ids[i])
                        /\ sampling.texts[i] # {}
      BY DEF SampleInv, TextsAligned, Blank
    <2>4. \A i \in 1..n : {text.of : text \in sampling.texts[i]} = {sampling.ids[i]}
      BY <2>3
    <2>5. QED
      BY <2>1, <2>2, <2>4 DEF SampleIsAligned, SampleInv, SplitDisjointly
  <1>2. QED BY <1>1, SampleAlways, PTL

----------------------------------------------------------------------------
(* Splitting a sample over the clusters *)

\* No cluster gives more than it has, nor, if it has any, nothing.
Within(counts, alloc) ==
    /\ alloc \in [DOMAIN counts -> Nat]
    /\ \A c \in DOMAIN counts : alloc[c] <= counts[c] /\ (counts[c] > 0 => alloc[c] > 0)

\* The larger of two clusters gives no less.
LargerGivesMore(counts, alloc) ==
    \A c, d \in DOMAIN counts : counts[c] > counts[d] => alloc[c] >= alloc[d]

\* Who is about to get a record is behind all that are larger, or they come before it.
InTurn(counts, alloc, order, next) ==
    \A j \in next..Len(order) : \A c \in DOMAIN counts :
       counts[c] > counts[order[j]] /\ alloc[order[j]] < counts[order[j]] =>
          alloc[c] > alloc[order[j]] \/ \E i \in next..j - 1 : order[i] = c

\* What a cluster has after the shares, and the records of the clusters that have theirs.
ShareOf(s, floors, c) == floors[c] + Most(0, Least(Whole(s, c), s.counts[c] - floors[c]))
Before(counts, next) == [c \in DOMAIN counts |-> IF c < next THEN counts[c] ELSE 0]

SplitTypeOK ==
    /\ split.counts \in Seq(Nat) /\ split.size \in Nat /\ split.budget \in Nat
    /\ split.next \in Nat \ {0} /\ split.at \in {"shares", "giving", "done"}
    /\ split.order \in Seq(DOMAIN split.counts)
    /\ split = [counts |-> split.counts, size |-> split.size, alloc |-> split.alloc,
                budget |-> split.budget, order |-> split.order, next |-> split.next,
                at |-> split.at]

\* While the shares are taken, they are within the budget in the proportion of the
\* clusters that have theirs.
SharesSoFar(s) ==
    LET floors == Floors(s.counts, s.size)
    IN  /\ s.budget > 0 /\ s.budget = s.size - Given(floors) /\ s.next <= Len(s.counts) + 1
        /\ \A c \in DOMAIN s.counts :
              s.alloc[c] = IF c < s.next THEN ShareOf(s, floors, c) ELSE floors[c]
        /\ Given(s.counts) * (Given(s.alloc) - Given(floors))
              <= s.budget * Given(Before(s.counts, s.next))

SplitInv ==
    /\ SplitTypeOK /\ Within(split.counts, split.alloc)
    /\ split.size <= Given(split.counts) /\ 0 < Given(split.counts)
    /\ \A i, j \in 1..Len(split.order) : i # j => split.order[i] # split.order[j]
    /\ split.at = "shares" => SharesSoFar(split)
    /\ split.at # "shares" =>
          Given(split.alloc) <= split.size /\ LargerGivesMore(split.counts, split.alloc)
    /\ split.at = "giving" => InTurn(split.counts, split.alloc, split.order, split.next)
    /\ split.at = "done" => Given(split.alloc) = split.size

\* Arithmetic of the shares.
LEMMA WholePart ==
  ASSUME NEW a \in Nat, NEW b \in Nat, b > 0
  PROVE  a \div b \in Nat /\ a % b \in Nat /\ a = (b * (a \div b)) + (a % b) /\ a % b < b
  OBVIOUS

LEMMA QuarterFits ==
  ASSUME NEW size \in Nat, NEW n \in Nat, 0 < n, n <= size
  PROVE  Most(1, size \div (n * 4)) \in Nat /\ Most(1, size \div (n * 4)) > 0
         /\ n * Most(1, size \div (n * 4)) <= size
  <1> DEFINE q == size \div (n * 4)
  <1>1. n * 4 \in Nat /\ n * 4 > 0
    OBVIOUS
  <1>2. q \in Nat /\ (n * 4) * q <= size
    BY <1>1, WholePart
  <1> HIDE DEF q
  <1>3. n * q \in Nat /\ (n * 4) * q = 4 * (n * q)
    BY <1>2
  <1>4. n * q <= size
    BY <1>2, <1>3
  <1>5. Most(1, q) \in Nat /\ Most(1, q) > 0 /\ (Most(1, q) = 1 \/ Most(1, q) = q)
    BY <1>2 DEF Most
  <1>6. n * 1 = n
    OBVIOUS
  <1>7. n * Most(1, q) <= size
    BY <1>4, <1>5, <1>6
  <1>8. QED BY <1>5, <1>7 DEF q

\* The larger of two numbers has the larger share, in its whole part or in the rest.
LEMMA LargerShare ==
  ASSUME NEW B \in Nat, NEW x \in Nat, NEW y \in Nat, NEW T \in Nat, T > 0, B > 0, x > y
  PROVE  /\ (B * x) \div T >= (B * y) \div T
         /\ (B * x) \div T = (B * y) \div T => (B * x) % T > (B * y) % T
  <1>1. B * x \in Nat /\ B * y \in Nat
    OBVIOUS
  <1>2. B * x > B * y
    <2>1. x - y \in Nat /\ x - y > 0 /\ x = y + (x - y)
      OBVIOUS
    <2>2. B * x = B * y + B * (x - y)
      BY <2>1
    <2>3. B * (x - y) > 0
      BY <2>1
    <2>4. QED BY <1>1, <2>2, <2>3
  <1> DEFINE a == B * x
             b == B * y
             qa == a \div T
             qb == b \div T
             ra == a % T
             rb == b % T
  <1>3. /\ qa \in Nat /\ ra \in Nat /\ ra < T /\ a = (T * qa) + ra
        /\ qb \in Nat /\ rb \in Nat /\ rb < T /\ b = (T * qb) + rb
    BY <1>1, WholePart
  <1>4. a \in Nat /\ b \in Nat /\ a > b
    BY <1>1, <1>2
  <1> HIDE DEF a, b, qa, qb, ra, rb
  <1>5. qa >= qb
    <2> SUFFICES ASSUME qa < qb PROVE FALSE
      BY <1>3
    <2>1. qb - qa \in Nat /\ qb - qa >= 1 /\ qb = qa + (qb - qa)
      BY <1>3
    <2>2. T * qb = T * qa + T * (qb - qa)
      BY <1>3, <2>1
    <2>3. T * (qb - qa) >= T
      BY <2>1
    <2>4. T * qa \in Nat /\ T * qb \in Nat /\ T * (qb - qa) \in Nat
      BY <1>3, <2>1
    <2>5. QED BY <1>3, <1>4, <2>2, <2>3, <2>4
  <1>6. qa = qb => ra > rb
    <2> SUFFICES ASSUME qa = qb PROVE ra > rb
      OBVIOUS
    <2>1. T * qa = T * qb /\ T * qa \in Nat
      BY <1>3
    <2>2. QED BY <1>3, <1>4, <2>1
  <1>7. QED BY <1>5, <1>6 DEF a, b, qa, qb, ra, rb

\* A share is in the proportion of its cluster.
LEMMA ShareInProportion ==
  ASSUME NEW T \in Nat, T > 0, NEW B \in Nat, NEW n \in Nat, NEW s \in Nat, s <= (B * n) \div T,
         NEW taken \in Int, NEW past \in Nat, T * taken <= B * past
  PROVE  T * (taken + s) <= B * (past + n)
  <1> DEFINE q == (B * n) \div T
  <1>1. B * n \in Nat
    OBVIOUS
  <1>2. q \in Nat /\ T * q <= B * n /\ s <= q
    <2>1. q \in Nat /\ (B * n) % T \in Nat /\ B * n = (T * q) + ((B * n) % T)
      BY <1>1, WholePart
    <2>2. T * q \in Nat
      BY <2>1
    <2>3. QED BY <1>1, <2>1, <2>2
  <1> HIDE DEF q
  <1>3. T * s <= T * q
    <2>1. q = s + (q - s) /\ q - s \in Nat
      BY <1>2
    <2>2. T * q = T * s + T * (q - s) /\ T * (q - s) >= 0 /\ T * s \in Nat
      BY <2>1
    <2>3. QED BY <1>2, <2>1, <2>2
  <1>4. T * (taken + s) = T * taken + T * s /\ B * (past + n) = B * past + B * n
    OBVIOUS
  <1>5. T * s \in Int /\ T * q \in Int /\ B * n \in Int /\ T * taken \in Int /\ B * past \in Int
    BY <1>2
  <1>6. QED BY <1>2, <1>3, <1>4, <1>5

\* The records that are given are a finite set, and so many.
LEMMA GivenIs ==
  ASSUME NEW n \in Nat, NEW alloc \in [1..n -> Nat]
  PROVE  /\ IsFiniteSet(RecordsOf(alloc)) /\ Given(alloc) \in Nat
         /\ \A p : p \in RecordsOf(alloc) <=> \E c \in 1..n : \E i \in 1..alloc[c] : p = <<c, i>>
  <1> DEFINE f == [c \in 1..n |-> {c} \X (1..alloc[c])]
             T == {f[c] : c \in 1..n}
  <1>1. RecordsOf(alloc) = UNION T
    BY DEF RecordsOf
  <1>2. \A c \in 1..n : IsFiniteSet(f[c])
    <2> SUFFICES ASSUME NEW c \in 1..n PROVE IsFiniteSet({c} \X (1..alloc[c]))
      OBVIOUS
    <2>1. IsFiniteSet(1..alloc[c]) /\ IsFiniteSet({c})
      <3>1. alloc[c] \in Int
        OBVIOUS
      <3>2. IsFiniteSet(1..alloc[c])
        BY <3>1, FS_Interval
      <3>3. QED BY <3>2, FS_Singleton
    <2>2. QED BY <2>1, FS_Product
  <1>3. \A p : p \in UNION T <=> \E c \in 1..n : \E i \in 1..alloc[c] : p = <<c, i>>
    OBVIOUS
  <1>4. f \in Surjection(1..n, T)
    BY DEF Surjection
  <1> HIDE DEF f
  <1>5. IsFiniteSet(T)
    <2>1. IsFiniteSet(1..n)
      BY FS_Interval
    <2> HIDE DEF T
    <2>2. QED BY <1>4, <2>1, FS_Surjection
  <1>6. IsFiniteSet(UNION T)
    <2>1. \A x \in T : IsFiniteSet(x)
      BY <1>2
    <2> HIDE DEF T
    <2>2. QED BY <1>5, <2>1, FS_UNION
  <1>7. QED BY <1>1, <1>3, <1>6, FS_CardinalityType DEF Given

\* More of one cluster is so many more in all.
LEMMA GivenGrows ==
  ASSUME NEW n \in Nat, NEW alloc \in [1..n -> Nat], NEW c \in 1..n, NEW s \in Nat
  PROVE  Given([alloc EXCEPT ![c] = @ + s]) = Given(alloc) + s
  <1> DEFINE more == [alloc EXCEPT ![c] = @ + s]
             a == alloc[c]
             New == {c} \X ((a + 1)..(a + s))
  <1>1. a \in Nat /\ more \in [1..n -> Nat] /\ more[c] = a + s
        /\ \A d \in 1..n : d # c => more[d] = alloc[d]
    OBVIOUS
  <1> HIDE DEF more
  <1>2. /\ IsFiniteSet(RecordsOf(alloc)) /\ Given(alloc) \in Nat
        /\ \A p : p \in RecordsOf(alloc) <=> \E d \in 1..n : \E i \in 1..alloc[d] : p = <<d, i>>
        /\ \A p : p \in RecordsOf(more) <=> \E d \in 1..n : \E i \in 1..more[d] : p = <<d, i>>
    BY <1>1, GivenIs
  <1>3. \A p : p \in New <=> \E i \in (a + 1)..(a + s) : p = <<c, i>>
    OBVIOUS
  <1>4. IsFiniteSet(New) /\ Cardinality(New) = s
    <2>1. IsFiniteSet((a + 1)..(a + s)) /\ Cardinality((a + 1)..(a + s)) = s
      <3>1. a + 1 \in Int /\ a + s \in Int
        BY <1>1
      <3>2. IsFiniteSet((a + 1)..(a + s))
            /\ Cardinality((a + 1)..(a + s)) = IF a + 1 > a + s THEN 0 ELSE (a + s) - (a + 1) + 1
        BY <3>1, FS_Interval
      <3>3. QED BY <1>1, <3>2
    <2>2. IsFiniteSet({c}) /\ Cardinality({c}) = 1
      BY FS_Singleton
    <2>3. IsFiniteSet(New) /\ Cardinality(New) = 1 * s
      <3> DEFINE A == {c}
                 B == (a + 1)..(a + s)
      <3> HIDE DEF A, B
      <3>1. IsFiniteSet(A) /\ IsFiniteSet(B) /\ Cardinality(A) = 1 /\ Cardinality(B) = s
        BY <2>1, <2>2 DEF A, B
      <3>2. IsFiniteSet(A \X B) /\ Cardinality(A \X B) = Cardinality(A) * Cardinality(B)
        BY <3>1, FS_Product
      <3>3. QED BY <3>1, <3>2 DEF A, B
    <2>4. QED BY <2>3
  <1> HIDE DEF New
  <1>5. RecordsOf(more) = RecordsOf(alloc) \union New
    <2>1. ASSUME NEW p, p \in RecordsOf(more) PROVE p \in RecordsOf(alloc) \union New
      <3>1. PICK d \in 1..n : \E i \in 1..more[d] : p = <<d, i>>
        BY <1>2, <2>1
      <3>2. PICK i \in 1..more[d] : p = <<d, i>>
        BY <3>1
      <3>3. CASE d # c
        BY <1>1, <1>2, <3>2, <3>3
      <3>4. CASE d = c
        <4>1. i \in 1..a \/ i \in (a + 1)..(a + s)
          BY <1>1, <3>4
        <4>2. QED BY <1>2, <1>3, <3>2, <3>4, <4>1
      <3>5. QED BY <3>3, <3>4
    <2>2. ASSUME NEW p, p \in RecordsOf(alloc) PROVE p \in RecordsOf(more)
      <3>1. PICK d \in 1..n : \E i \in 1..alloc[d] : p = <<d, i>>
        BY <1>2, <2>2
      <3>2. alloc[d] \in Nat /\ more[d] \in Nat /\ alloc[d] <= more[d]
        BY <1>1
      <3>3. \A i \in 1..alloc[d] : i \in 1..more[d]
        BY <3>2
      <3>4. QED BY <1>2, <3>1, <3>3
    <2>3. ASSUME NEW p, p \in New PROVE p \in RecordsOf(more)
      <3>1. \A i \in (a + 1)..(a + s) : i \in 1..more[c]
        BY <1>1
      <3>2. QED BY <1>2, <1>3, <2>3, <3>1
    <2>4. QED BY <2>1, <2>2, <2>3
  <1>6. RecordsOf(alloc) \intersect New = {}
    <2> SUFFICES ASSUME NEW p, p \in RecordsOf(alloc), p \in New PROVE FALSE
      OBVIOUS
    <2>1. PICK i \in (a + 1)..(a + s) : p = <<c, i>>
      BY <1>3
    <2>2. PICK d \in 1..n : \E j \in 1..alloc[d] : p = <<d, j>>
      BY <1>2
    <2>3. PICK j \in 1..alloc[d] : p = <<d, j>>
      BY <2>2
    <2>4. d = c /\ i = j
      BY <2>1, <2>3
    <2>5. QED BY <1>1, <2>1, <2>3, <2>4
  <1>7. Cardinality(RecordsOf(more)) = Cardinality(RecordsOf(alloc)) + Cardinality(New) - 0
    <2>1. Cardinality(RecordsOf(alloc) \union New)
            = Cardinality(RecordsOf(alloc)) + Cardinality(New) - Cardinality(RecordsOf(alloc) \intersect New)
      BY <1>2, <1>4, FS_Union
    <2>2. Cardinality(RecordsOf(alloc) \intersect New) = 0
      BY <1>6, FS_EmptySet
    <2>3. QED BY <1>5, <2>1, <2>2
  <1>8. QED BY <1>2, <1>4, <1>7 DEF Given, more

\* There are no more clusters with records than clusters, or than records.
LEMMA LiveIs ==
  ASSUME NEW n \in Nat, NEW counts \in [1..n -> Nat], \E c \in 1..n : counts[c] > 0
  PROVE  /\ IsFiniteSet(Live(counts)) /\ Cardinality(Live(counts)) \in Nat
         /\ 0 < Cardinality(Live(counts)) /\ Cardinality(Live(counts)) <= n
         /\ Cardinality(Live(counts)) <= Given(counts) /\ Given(counts) \in Nat
  <1> DEFINE L == Live(counts)
             f == [c \in L |-> <<c, 1>>]
  <1>1. L \in SUBSET (1..n) /\ L # {}
    BY DEF Live
  <1>2. IsFiniteSet(L) /\ Cardinality(L) \in Nat /\ Cardinality(L) <= n
    <2>1. IsFiniteSet(1..n) /\ Cardinality(1..n) = n
      BY FS_Interval
    <2>2. IsFiniteSet(L) /\ Cardinality(L) <= Cardinality(1..n)
      BY ONLY <1>1, <2>1, FS_Subset
    <2>3. QED BY <2>1, <2>2, FS_CardinalityType
  <1>3. Cardinality(L) # 0
    BY <1>1, <1>2, FS_EmptySet
  <1>4. IsFiniteSet(RecordsOf(counts)) /\ Given(counts) \in Nat
    BY GivenIs
  <1>5. f \in Injection(L, RecordsOf(counts))
    <2>1. ASSUME NEW c \in L PROVE <<c, 1>> \in RecordsOf(counts)
      <3>1. c \in 1..n /\ 1 \in 1..counts[c]
        BY DEF Live
      <3>2. QED BY <3>1, GivenIs
    <2>2. \A c, d \in L : <<c, 1>> = <<d, 1>> => c = d
      OBVIOUS
    <2> HIDE DEF L
    <2>3. QED BY <2>1, <2>2 DEF Injection, IsInjective
  <1> HIDE DEF f, L
  <1>6. Cardinality(L) <= Given(counts)
    BY <1>4, <1>5, FS_Injection DEF Given
  <1>7. QED BY <1>2, <1>3, <1>4, <1>6 DEF L

\* The floors fit into the sample, and none of them is more than its cluster.
LEMMA FloorsFit ==
  ASSUME NEW n \in Nat, NEW counts \in [1..n -> Nat], \E c \in 1..n : counts[c] > 0,
         NEW size \in Nat, Cardinality(Live(counts)) <= size
  PROVE  /\ FloorShare(counts, size) \in Nat /\ FloorShare(counts, size) > 0
         /\ Floors(counts, size) = [c \in 1..n |-> Least(counts[c], FloorShare(counts, size))]
         /\ Within(counts, Floors(counts, size)) /\ LargerGivesMore(counts, Floors(counts, size))
         /\ Given(Floors(counts, size)) \in Nat /\ Given(Floors(counts, size)) <= size
  <1> DEFINE F == FloorShare(counts, size)
             L == Live(counts)
             floors == Floors(counts, size)
             m == Cardinality(L)
  <1>1. IsFiniteSet(L) /\ m \in Nat /\ 0 < m
    BY LiveIs
  <1>2. F \in Nat /\ F > 0 /\ m * F <= size
    BY <1>1, QuarterFits DEF FloorShare
  <1>3. floors = [c \in 1..n |-> Least(counts[c], F)]
    BY DEF Floors
  <1>4. \A c \in 1..n : c \in L <=> counts[c] > 0
    BY DEF Live
  <1> HIDE DEF F, floors, L
  <1>5. \A c \in 1..n : floors[c] \in Nat /\ floors[c] <= counts[c] /\ floors[c] <= F
                        /\ (counts[c] > 0 => floors[c] > 0)
    BY <1>2, <1>3 DEF Least
  <1>6. floors \in [1..n -> Nat]
    BY <1>3, <1>5
  <1>7. Within(counts, floors)
    BY <1>5, <1>6 DEF Within
  <1>8. LargerGivesMore(counts, floors)
    BY <1>2, <1>3 DEF LargerGivesMore, Least
  <1>9. Given(floors) \in Nat /\ Given(floors) <= m * F
    <2> DEFINE U == 1..F
    <2>1. IsFiniteSet(U) /\ Cardinality(U) = F
      BY <1>2, FS_Interval
    <2>0. \A p : p \in RecordsOf(floors) <=> \E c \in 1..n : \E i \in 1..floors[c] : p = <<c, i>>
      BY ONLY n \in Nat, <1>6, GivenIs
    <2>2. RecordsOf(floors) \in SUBSET (L \X U)
      <3> SUFFICES ASSUME NEW p, p \in RecordsOf(floors) PROVE p \in L \X U
        OBVIOUS
      <3>1. PICK c \in 1..n : \E i \in 1..floors[c] : p = <<c, i>>
        BY <2>0
      <3>2. PICK i \in 1..floors[c] : p = <<c, i>>
        BY <3>1
      <3>3. i \in 1..F /\ counts[c] > 0
        BY <1>2, <1>5
      <3>4. QED BY <1>4, <3>2, <3>3
    <2> HIDE DEF U
    <2>3. IsFiniteSet(L \X U) /\ Cardinality(L \X U) = m * F
      BY <1>1, <2>1, FS_Product
    <2> DEFINE P == L \X U
    <2> HIDE DEF P
    <2>4. Cardinality(RecordsOf(floors)) <= Cardinality(P)
      BY <2>2, <2>3, FS_Subset DEF P
    <2>5. QED BY <1>6, <2>3, <2>4, GivenIs DEF P, Given
  <1>10. Given(floors) <= size
    BY <1>1, <1>2, <1>9
  <1>11. QED BY <1>2, <1>3, <1>7, <1>8, <1>9, <1>10 DEF F, floors

LEMMA ProductIs ==
  ASSUME NEW a \in Nat, NEW b \in Nat
  PROVE  a * b \in Nat
  OBVIOUS

\* The share of the larger of two clusters is no less, and where it is no more, its
\* remainder is larger.
LEMMA LargerHasMore ==
  ASSUME NEW n \in Nat, NEW s, NEW counts, counts = s.counts, counts \in [1..n -> Nat],
         s.budget \in Nat, s.budget > 0, Given(counts) \in Nat, Given(counts) > 0,
         NEW F \in Nat, NEW floors, floors = [c \in 1..n |-> Least(counts[c], F)],
         NEW c \in 1..n, NEW d \in 1..n, counts[c] > counts[d]
  PROVE  /\ ShareOf(s, floors, c) >= ShareOf(s, floors, d)
         /\ ShareOf(s, floors, c) = ShareOf(s, floors, d) /\ ShareOf(s, floors, d) < counts[d]
               => Remainder(s, c) > Remainder(s, d)
         /\ Remainder(s, c) \in Nat
  <1> DEFINE T == Given(counts)
             B == s.budget
             x == counts[c]
             y == counts[d]
             u == Whole(s, c)
             v == Whole(s, d)
  <1>1. x \in Nat /\ y \in Nat /\ B * x \in Nat /\ B * y \in Nat
    <2>1. x \in Nat /\ y \in Nat /\ B \in Nat
      OBVIOUS
    <2> HIDE DEF x, y, B
    <2>2. QED BY ONLY <2>1, ProductIs
  <1>2. /\ u = (B * x) \div T /\ v = (B * y) \div T
        /\ Remainder(s, c) = (B * x) % T /\ Remainder(s, d) = (B * y) % T
    BY DEF Whole, Remainder
  <1>3. /\ ShareOf(s, floors, c) = Least(x, F) + Most(0, Least(u, x - Least(x, F)))
        /\ ShareOf(s, floors, d) = Least(y, F) + Most(0, Least(v, y - Least(y, F)))
    BY DEF ShareOf
  <1>4. x > y /\ B \in Nat /\ B > 0 /\ T \in Nat /\ T > 0
    OBVIOUS
  <1> HIDE DEF x, y, u, v, T, B
  <1>5. u \in Nat /\ v \in Nat /\ Remainder(s, c) \in Nat
    <2> DEFINE p == B * x
               q == B * y
    <2>1. p \in Nat /\ q \in Nat /\ u = p \div T /\ v = q \div T /\ Remainder(s, c) = p % T
      BY <1>1, <1>2
    <2> HIDE DEF p, q
    <2>2. QED BY ONLY <1>4, <2>1, WholePart
  <1>6. u >= v /\ (u = v => Remainder(s, c) > Remainder(s, d))
    <2>1. (B * x) \div T >= (B * y) \div T /\ ((B * x) \div T = (B * y) \div T => (B * x) % T > (B * y) % T)
      BY ONLY <1>1, <1>4, LargerShare
    <2>2. QED BY ONLY <1>2, <2>1
  <1>7. Least(x, F) + Most(0, Least(u, x - Least(x, F)))
          >= Least(y, F) + Most(0, Least(v, y - Least(y, F)))
    BY <1>1, <1>5, <1>6, <1>4 DEF Least, Most
  <1>8. ASSUME Least(x, F) + Most(0, Least(u, x - Least(x, F)))
                 = Least(y, F) + Most(0, Least(v, y - Least(y, F))),
               Least(y, F) + Most(0, Least(v, y - Least(y, F))) < y
        PROVE  u = v
    BY <1>1, <1>5, <1>6, <1>4, <1>8 DEF Least, Most
  <1>9. QED BY <1>5, <1>6, <1>3, <1>7, <1>8 DEF y

\* Who comes before whom in a list by a key that is higher for a larger cluster that
\* is level with it.
KeyIsHigher(n, counts, alloc, S, v) ==
    \A c, d \in 1..n :
       counts[c] > counts[d] /\ alloc[c] = alloc[d] /\ alloc[d] < counts[d] /\ d \in S =>
          c \in S /\ v[c] > v[d]
IsTurns(order, n, counts, alloc) ==
    /\ order \in Seq(1..n) /\ \A i, j \in 1..Len(order) : i # j => order[i] # order[j]
    /\ InTurn(counts, alloc, order, 1)

LEMMA ListsAreInTurn ==
  ASSUME NEW n \in Nat, NEW counts \in [1..n -> Nat], NEW alloc \in [1..n -> Nat],
         LargerGivesMore(counts, alloc), NEW S \in SUBSET (1..n), NEW v, \A c \in S : v[c] \in Int,
         KeyIsHigher(n, counts, alloc, S, v)
  PROVE  IsTurns(HighestFirst(S, v), n, counts, alloc)
  <1> DEFINE m == Cardinality(S)
             order == HighestFirst(S, v)
  <1>1. SortedDown(order, m, S, v)
    BY HighestFirstIs
  <1> HIDE DEF m, order
  <1>2. /\ m \in Nat /\ order \in [1..m -> S] /\ \A d \in S : \E i \in 1..m : order[i] = d
        /\ \A i, j \in 1..m : i < j => order[i] # order[j] /\ v[order[i]] >= v[order[j]]
        /\ \A i, j \in 1..m : v[order[i]] > v[order[j]] => i < j
    BY <1>1 DEF SortedDown
  <1>3. Len(order) = m /\ order \in Seq(1..n)
    <2>1. order \in [1..m -> 1..n]
      BY <1>2
    <2>2. QED BY ONLY <1>2, <2>1
  <1>4. \A i, j \in 1..m : i # j => order[i] # order[j]
    <2> SUFFICES ASSUME NEW i \in 1..m, NEW j \in 1..m, i # j PROVE order[i] # order[j]
      OBVIOUS
    <2>1. i < j \/ j < i
      BY <1>2
    <2>2. QED BY <1>2, <2>1
  <1>5. ASSUME NEW j \in 1..m, NEW c \in 1..n, counts[c] > counts[order[j]],
               alloc[order[j]] < counts[order[j]], ~(alloc[c] > alloc[order[j]])
        PROVE  \E i \in 1..j - 1 : order[i] = c
    <2>1. order[j] \in S /\ order[j] \in 1..n
      BY <1>2
    <2>2. alloc[c] >= alloc[order[j]] /\ alloc[c] \in Nat /\ alloc[order[j]] \in Nat
      BY <1>5, <2>1 DEF LargerGivesMore
    <2>3. c \in S /\ v[c] > v[order[j]]
      BY <1>5, <2>1, <2>2 DEF KeyIsHigher
    <2>4. PICK i \in 1..m : order[i] = c
      BY <1>2, <2>3
    <2>5. i < j
      BY <1>2, <2>3, <2>4
    <2>6. i \in 1..j - 1
      BY <1>2, <2>5
    <2>7. QED BY <2>4, <2>6
  <1>6. InTurn(counts, alloc, order, 1)
    BY <1>3, <1>5 DEF InTurn
  <1>7. QED BY <1>3, <1>4, <1>6 DEF order, IsTurns

\* What is known of the inputs, and of the fields, in a state of SplitInv.
LEMMA SplitFields ==
  ASSUME SplitInv
  PROVE  LET n == Len(split.counts)
         IN  /\ n \in Nat /\ DOMAIN split.counts = 1..n /\ split.counts \in [1..n -> Nat]
             /\ split.alloc \in [1..n -> Nat] /\ Given(split.alloc) \in Nat
             /\ Given(split.counts) \in Nat /\ Given(split.counts) > 0
             /\ \A c \in 1..n : split.alloc[c] <= split.counts[c]
             /\ \E c \in 1..n : split.counts[c] > 0
  <1> DEFINE n == Len(split.counts)
  <1>1. n \in Nat /\ DOMAIN split.counts = 1..n /\ split.counts \in [1..n -> Nat]
    BY DEF SplitInv, SplitTypeOK
  <1>2. split.alloc \in [1..n -> Nat] /\ \A c \in 1..n : split.alloc[c] <= split.counts[c]
    BY <1>1 DEF SplitInv, Within
  <1> HIDE DEF n
  <1>3. Given(split.alloc) \in Nat /\ Given(split.counts) \in Nat
    BY <1>1, <1>2, GivenIs
  <1>4. Given(split.counts) > 0
    BY <1>3 DEF SplitInv
  <1>5. \E c \in 1..n : split.counts[c] > 0
    <2> SUFFICES ASSUME \A c \in 1..n : ~(split.counts[c] > 0) PROVE FALSE
      OBVIOUS
    <2>1. \A c \in 1..n : 1..split.counts[c] = {}
      BY <1>1
    <2>2. RecordsOf(split.counts) = {}
      BY <1>1, <2>1, GivenIs
    <2>3. QED BY <1>4, <2>2, FS_EmptySet DEF Given
  <1>6. QED BY <1>1, <1>2, <1>3, <1>4, <1>5 DEF n

\* The floors fit into every sample that is asked for.
LEMMA SplitInvInit == SplitInit => SplitInv
  <1> SUFFICES ASSUME NEW g \in Clusterings,
                      split = SplitOf(g.counts, Least(g.size, Given(g.counts)))
               PROVE  SplitInv
    BY DEF SplitInit
  <1> DEFINE counts == g.counts
             n == Len(counts)
             size == Least(g.size, Given(counts))
             floors == Floors(counts, size)
             F == FloorShare(counts, size)
  <1>1. /\ counts \in Seq(Nat) /\ n \in Nat /\ counts \in [1..n -> Nat] /\ DOMAIN counts = 1..n
        /\ \E c \in 1..n : counts[c] > 0
        /\ g.size \in Nat /\ n <= g.size
    BY AllocationAssumption
  <1> HIDE DEF counts, n
  <1>2. /\ Cardinality(Live(counts)) \in Nat /\ Cardinality(Live(counts)) > 0
        /\ Cardinality(Live(counts)) <= n /\ Cardinality(Live(counts)) <= Given(counts)
        /\ Given(counts) \in Nat
    BY <1>1, LiveIs
  <1>3. size \in Nat /\ Cardinality(Live(counts)) <= size /\ size <= Given(counts)
    BY <1>1, <1>2 DEF Least
  <1>4. split = SplitOf(counts, size)
    BY DEF counts
  <1> HIDE DEF size
  <1>5. /\ floors = [c \in 1..n |-> Least(counts[c], F)] /\ F \in Nat
        /\ Within(counts, floors) /\ LargerGivesMore(counts, floors)
        /\ Given(floors) \in Nat /\ Given(floors) <= size
    BY <1>1, <1>3, FloorsFit
  <1>6. /\ split.counts = counts /\ split.size = size /\ split.alloc = floors
        /\ split.budget = size - Given(floors) /\ split.order = <<>> /\ split.next = 1
        /\ split.at = (IF size - Given(floors) > 0 THEN "shares" ELSE "giving")
        /\ split = [counts |-> split.counts, size |-> split.size, alloc |-> split.alloc,
                    budget |-> split.budget, order |-> split.order, next |-> split.next,
                    at |-> split.at]
    BY <1>4 DEF SplitOf
  <1> HIDE DEF floors, F
  <1>7. SplitTypeOK
    BY <1>1, <1>3, <1>5, <1>6 DEF SplitTypeOK
  <1>8. split.at = "shares" => SharesSoFar(split)
    <2> SUFFICES ASSUME split.at = "shares" PROVE SharesSoFar(split)
      OBVIOUS
    <2>1. split.budget \in Nat /\ split.budget > 0 /\ split.next <= n + 1
      BY <1>1, <1>3, <1>5, <1>6
    <2>2. \A c \in 1..n : ~(c < split.next)
      BY <1>6
    <2>3. Given(Before(counts, 1)) \in Nat
      <3>1. Before(counts, 1) \in [1..n -> Nat]
        BY <1>1 DEF Before
      <3>2. QED BY <1>1, <3>1, GivenIs
    <2>4. Given(counts) * (Given(floors) - Given(floors)) <= split.budget * Given(Before(counts, 1))
      <3>1. Given(floors) - Given(floors) = 0 /\ Given(counts) * 0 = 0
        BY <1>2, <1>5
      <3>2. split.budget * Given(Before(counts, 1)) \in Nat
        BY <2>1, <2>3
      <3>3. QED BY <3>1, <3>2
    <2>5. QED BY <1>1, <1>6, <2>1, <2>2, <2>4 DEF SharesSoFar, floors
  <1>9. InTurn(split.counts, split.alloc, split.order, split.next)
    BY <1>6 DEF InTurn
  <1>10. QED
    BY <1>2, <1>3, <1>5, <1>6, <1>7, <1>8, <1>9 DEF SplitInv

\* A share leaves the rest of the budget to the clusters after it.
LEMMA TakeShareKeeps == SplitInv /\ TakeShare => SplitInv'
  <1> SUFFICES ASSUME SplitInv, TakeShare PROVE SplitInv'
    OBVIOUS
  <1> DEFINE counts == split.counts
             n == Len(counts)
             alloc == split.alloc
             c == split.next
             floors == Floors(counts, split.size)
             T == Given(counts)
             B == split.budget
             s == Most(0, Least(Whole(split, c), Room(split, c)))
             before == Before(counts, c)
             after == Before(counts, c + 1)
  <1>1. /\ n \in Nat /\ DOMAIN counts = 1..n /\ counts \in [1..n -> Nat]
        /\ alloc \in [1..n -> Nat] /\ Given(alloc) \in Nat /\ T \in Nat /\ T > 0
        /\ \A d \in 1..n : alloc[d] <= counts[d]
        /\ \E d \in 1..n : counts[d] > 0
    BY SplitFields
  <1>2. /\ split.at = "shares" /\ c <= n /\ c \in 1..n
    BY <1>1 DEF TakeShare, SplitInv, SplitTypeOK
  <1>3. /\ B > 0 /\ B \in Nat /\ B = split.size - Given(floors)
        /\ \A d \in 1..n : alloc[d] = IF d < c THEN ShareOf(split, floors, d) ELSE floors[d]
        /\ T * (Given(alloc) - Given(floors)) <= B * Given(before)
        /\ split.size \in Nat
    BY <1>1, <1>2 DEF SplitInv, SharesSoFar, SplitTypeOK
  <1>4. /\ split'.counts = counts /\ split'.size = split.size /\ split'.budget = B
        /\ split'.order = split.order /\ split'.at = "shares" /\ split'.next = c + 1
        /\ split'.alloc = [alloc EXCEPT ![c] = @ + s]
        /\ split' = [counts |-> split'.counts, size |-> split'.size, alloc |-> split'.alloc,
                     budget |-> split'.budget, order |-> split'.order, next |-> split'.next,
                     at |-> split'.at]
    BY <1>2 DEF TakeShare, SplitInv, SplitTypeOK
  <1>5. alloc[c] = floors[c] /\ s = Most(0, Least(Whole(split, c), counts[c] - floors[c]))
    <2>1. alloc[c] = floors[c]
      BY <1>1, <1>2, <1>3
    <2>2. Room(split, c) = counts[c] - alloc[c]
      BY DEF Room
    <2> DEFINE w == Whole(split, c)
               r == Room(split, c)
    <2>3. s = Most(0, Least(w, r))
      OBVIOUS
    <2> HIDE DEF w, r, s
    <2>4. r = counts[c] - floors[c]
      BY <2>1, <2>2 DEF r
    <2>5. s = Most(0, Least(w, counts[c] - floors[c]))
      BY ONLY <2>3, <2>4
    <2>6. QED BY <2>1, <2>5 DEF w
  <1>6. B * counts[c] \in Nat /\ Whole(split, c) = (B * counts[c]) \div T /\ Whole(split, c) \in Nat
    <2>1. B * counts[c] \in Nat
      <3>1. B \in Nat /\ counts[c] \in Nat
        BY <1>1, <1>2, <1>3
      <3>2. QED BY ONLY <3>1, ProductIs
    <2> DEFINE w == Whole(split, c)
               p == B * counts[c]
    <2>2. w = p \div T
      BY DEF Whole
    <2>3. p \in Nat /\ T \in Nat /\ T > 0
      BY <1>1, <2>1
    <2> HIDE DEF w, p, T
    <2>4. w \in Nat
      BY ONLY <2>2, <2>3, WholePart
    <2>5. QED BY <2>1, <2>2, <2>4 DEF w, p, T
  <1>7. s \in Nat /\ s <= (B * counts[c]) \div T /\ s <= counts[c] - alloc[c]
    <2>1. Room(split, c) = counts[c] - alloc[c] /\ Room(split, c) \in Nat
      <3>1. Room(split, c) = counts[c] - alloc[c]
        BY DEF Room
      <3>2. counts[c] \in Nat /\ alloc[c] \in Nat /\ alloc[c] <= counts[c]
        BY <1>1, <1>2
      <3>3. QED BY ONLY <3>1, <3>2
    <2> DEFINE w == Whole(split, c)
               r == Room(split, c)
    <2>2. w \in Nat /\ r \in Nat /\ s = Most(0, Least(w, r))
      BY <1>6, <2>1
    <2> HIDE DEF w, r
    <2>3. s \in Nat /\ s <= w /\ s <= r
      BY ONLY <2>2 DEF Most, Least
    <2>4. QED BY <1>6, <2>1, <2>3 DEF w, r
  <1>8. \A d \in 1..n : ShareOf(split', floors, d) = ShareOf(split, floors, d)
    BY <1>4 DEF ShareOf, Whole
  <1>9. /\ before \in [1..n -> Nat] /\ after = [before EXCEPT ![c] = @ + counts[c]]
        /\ Given(before) \in Nat
    <2>1. before \in [1..n -> Nat] /\ after \in [1..n -> Nat] /\ before[c] = 0 /\ after[c] = counts[c]
      BY <1>1, <1>2 DEF Before
    <2>2. \A d \in 1..n : d # c => after[d] = before[d]
      BY <1>1, <1>2 DEF Before
    <2> HIDE DEF before, after
    <2>3. after = [before EXCEPT ![c] = @ + counts[c]]
      BY <1>1, <1>2, <2>1, <2>2
    <2>4. QED BY <1>1, <2>1, <2>3, GivenIs
  <1>10. ShareOf(split, floors, c) = alloc[c] + s
    BY <1>5 DEF ShareOf
  <1>15. Given(floors) \in Int
    <2>1. Cardinality(Live(counts)) \in Nat
      BY <1>1, LiveIs
    <2>2. Floors(counts, split.size) \in [1..n -> Nat]
      <3>1. FloorShare(counts, split.size) = 1 \/ FloorShare(counts, split.size) = split.size \div (Cardinality(Live(counts)) * 4)
        BY DEF FloorShare, Most
      <3>2. Cardinality(Live(counts)) > 0
        BY <1>1, LiveIs
      <3>3. Cardinality(Live(counts)) * 4 \in Nat /\ Cardinality(Live(counts)) * 4 > 0
        BY <2>1, <3>2
      <3>4. FloorShare(counts, split.size) \in Nat
        BY <1>3, <3>1, <3>3, WholePart
      <3>5. QED BY <1>1, <3>4 DEF Floors, Least
    <2> HIDE DEF floors
    <2>3. floors \in [1..n -> Nat]
      BY <2>2 DEF floors
    <2>4. Given(floors) \in Nat
      BY ONLY <1>1, <2>3, GivenIs
    <2>5. QED BY <2>4
  <1> HIDE DEF counts, n, alloc, c, floors, T, B, s, before, after
  <1>11. Given(split'.alloc) = Given(alloc) + s /\ Given(after) = Given(before) + counts[c]
    <2>1. Given([alloc EXCEPT ![c] = @ + s]) = Given(alloc) + s
      <3>1. n \in Nat /\ alloc \in [1..n -> Nat] /\ c \in 1..n /\ s \in Nat
        BY <1>1, <1>2, <1>7
      <3>2. QED BY ONLY <3>1, GivenGrows
    <2> DEFINE x == counts[c]
    <2>2. x \in Nat /\ n \in Nat /\ before \in [1..n -> Nat] /\ c \in 1..n
      BY <1>1, <1>2, <1>9
    <2> HIDE DEF x
    <2>3. Given([before EXCEPT ![c] = @ + x]) = Given(before) + x
      BY ONLY <2>2, GivenGrows
    <2>4. QED BY <1>4, <1>9, <2>1, <2>3 DEF x
  <1>12. T * (Given(split'.alloc) - Given(floors)) <= B * Given(after)
    <2>1. Given(alloc) - Given(floors) \in Int /\ counts[c] \in Nat
      BY <1>1, <1>2, <1>15
    <2>2. T * ((Given(alloc) - Given(floors)) + s) <= B * (Given(before) + counts[c])
      BY <1>1, <1>3, <1>7, <1>9, <2>1, ShareInProportion
    <2>3. Given(split'.alloc) - Given(floors) = (Given(alloc) - Given(floors)) + s
      BY <1>1, <1>7, <1>11, <1>15
    <2>4. QED BY <1>11, <2>2, <2>3
  <1>13. \A d \in 1..n : /\ split'.alloc[d] \in Nat /\ split'.alloc[d] <= counts[d]
                         /\ alloc[d] <= split'.alloc[d]
                         /\ split'.alloc[d] = IF d < c + 1 THEN ShareOf(split', floors, d) ELSE floors[d]
    <2> SUFFICES ASSUME NEW d \in 1..n
                 PROVE  /\ split'.alloc[d] \in Nat /\ split'.alloc[d] <= counts[d]
                        /\ alloc[d] <= split'.alloc[d]
                        /\ split'.alloc[d] = IF d < c + 1 THEN ShareOf(split', floors, d) ELSE floors[d]
      OBVIOUS
    <2>1. alloc[d] \in Nat /\ counts[d] \in Nat /\ alloc[d] <= counts[d]
      BY <1>1
    <2>2. CASE d = c
      <3>1. split'.alloc[d] = alloc[d] + s /\ d < c + 1
        BY <1>1, <1>2, <1>4, <2>2
      <3>2. QED BY <1>7, <1>8, <1>10, <2>1, <2>2, <3>1
    <2>3. CASE d # c
      <3>1. split'.alloc[d] = alloc[d] /\ (d < c + 1 <=> d < c)
        BY <1>1, <1>2, <1>4, <2>3
      <3>2. QED BY <1>3, <1>8, <2>1, <3>1
    <2>4. QED BY <2>2, <2>3
  <1>14. split'.alloc \in [1..n -> Nat]
    BY <1>1, <1>4, <1>13
  <1>16. SplitTypeOK'
    <2>1. c + 1 \in Nat \ {0}
      BY <1>2
    <2>2. QED BY <1>4, <2>1 DEF SplitInv, SplitTypeOK, counts, B
  <1>17. Within(split'.counts, split'.alloc)
    <2>1. \A d \in 1..n : counts[d] > 0 => alloc[d] > 0
      BY <1>1 DEF SplitInv, Within, counts, alloc
    <2>2. \A d \in 1..n : counts[d] > 0 => split'.alloc[d] > 0
      BY <1>1, <1>13, <2>1
    <2>3. QED BY <1>1, <1>4, <1>13, <1>14, <2>2 DEF Within
  <1>18. SharesSoFar(split')
    <2>1. c + 1 <= n + 1
      BY <1>1, <1>2
    <2>2. QED BY <1>1, <1>3, <1>4, <1>12, <1>13, <2>1 DEF SharesSoFar, floors, after, n, T
  <1>19. QED
    BY <1>4, <1>16, <1>17, <1>18 DEF SplitInv, counts

LEMMA DivideBoth ==
  ASSUME NEW T \in Nat, T > 0, NEW x \in Int, NEW B \in Nat, T * x <= B * T
  PROVE  x <= B
  <1> SUFFICES ASSUME x > B PROVE FALSE
    OBVIOUS
  <1>1. x - B \in Nat /\ x - B >= 1 /\ x = B + (x - B)
    OBVIOUS
  <1>2. T * x = B * T + T * (x - B)
    BY <1>1
  <1>3. T * (x - B) >= 1 /\ B * T \in Nat /\ T * (x - B) \in Nat
    BY <1>1
  <1>4. QED BY <1>2, <1>3

\* When all shares are taken they fit, and the remainders are given in turn.
LEMMA RankRemaindersKeeps == SplitInv /\ RankRemainders => SplitInv'
  <1> SUFFICES ASSUME SplitInv, RankRemainders PROVE SplitInv'
    OBVIOUS
  <1> DEFINE counts == split.counts
             n == Len(counts)
             alloc == split.alloc
             floors == Floors(counts, split.size)
             F == FloorShare(counts, split.size)
             T == Given(counts)
             B == split.budget
             L == Live(counts)
             v == [c \in L |-> Remainder(split, c)]
             order == HighestFirst(L, v)
  <1>1. /\ n \in Nat /\ DOMAIN counts = 1..n /\ counts \in [1..n -> Nat]
        /\ alloc \in [1..n -> Nat] /\ Given(alloc) \in Nat /\ T \in Nat /\ T > 0
        /\ \E d \in 1..n : counts[d] > 0
    BY SplitFields
  <1>2. /\ split.at = "shares" /\ split.next = n + 1
        /\ \A d \in 1..n : d < n + 1
    BY <1>1 DEF RankRemainders, SplitInv, SplitTypeOK, SharesSoFar
  <1>3. /\ B > 0 /\ B \in Nat /\ B = split.size - Given(floors) /\ split.size \in Nat
        /\ \A d \in 1..n : alloc[d] = ShareOf(split, floors, d)
        /\ T * (Given(alloc) - Given(floors)) <= B * Given(Before(counts, n + 1))
    BY <1>1, <1>2 DEF SplitInv, SharesSoFar, SplitTypeOK
  <1>4. /\ split'.counts = counts /\ split'.size = split.size /\ split'.budget = B
        /\ split'.order = order /\ split'.at = "giving" /\ split'.next = 1 /\ split'.alloc = alloc
        /\ split' = [counts |-> split'.counts, size |-> split'.size, alloc |-> split'.alloc,
                     budget |-> split'.budget, order |-> split'.order, next |-> split'.next,
                     at |-> split'.at]
    BY <1>2 DEF RankRemainders, SplitInv, SplitTypeOK
  <1>5. Before(counts, n + 1) = counts
    BY <1>1, <1>2 DEF Before
  <1>6. F \in Nat /\ floors = [c \in 1..n |-> Least(counts[c], F)]
    <2>1. Cardinality(Live(counts)) \in Nat /\ Cardinality(Live(counts)) > 0
      BY <1>1, LiveIs
    <2>2. Cardinality(Live(counts)) * 4 \in Nat /\ Cardinality(Live(counts)) * 4 > 0
      BY <2>1
    <2>3. split.size \div (Cardinality(Live(counts)) * 4) \in Nat
      BY <1>3, <2>2, WholePart
    <2>4. QED BY <1>1, <2>3 DEF FloorShare, Most, Floors
  <1>7. Given(floors) \in Nat
    <2> HIDE DEF F, floors
    <2>1. floors \in [1..n -> Nat]
      BY <1>1, <1>6 DEF Least
    <2> HIDE DEF n
    <2>2. QED BY ONLY <1>1, <2>1, GivenIs
  <1>8. L \in SUBSET (1..n) /\ \A c \in 1..n : c \in L <=> counts[c] > 0
    BY <1>1 DEF Live
  <1>9. \A c \in L : v[c] = Remainder(split, c)
    OBVIOUS
  <1> HIDE DEF counts, n, alloc, floors, F, T, B, L, v, order
  <1>10. Given(alloc) <= split.size
    <2> DEFINE x == Given(alloc) - Given(floors)
    <2>1. x \in Int /\ T \in Nat /\ T > 0 /\ B \in Nat
      BY <1>1, <1>3, <1>7
    <2>2. T * x <= B * T
      BY <1>3, <1>5 DEF T
    <2> HIDE DEF x
    <2>3. x <= B
      BY ONLY <2>1, <2>2, DivideBoth
    <2>4. Given(alloc) - Given(floors) <= split.size - Given(floors)
      BY <1>3, <2>3 DEF x
    <2>5. Given(alloc) \in Int /\ Given(floors) \in Int /\ split.size \in Int
      BY <1>1, <1>3, <1>7
    <2>6. QED BY ONLY <2>4, <2>5
  <1>11. ASSUME NEW c \in 1..n, NEW d \in 1..n, counts[c] > counts[d]
         PROVE  /\ alloc[c] >= alloc[d] /\ c \in L /\ Remainder(split, c) \in Nat
                /\ alloc[c] = alloc[d] /\ alloc[d] < counts[d]
                      => Remainder(split, c) > Remainder(split, d)
    <2>1. /\ ShareOf(split, floors, c) >= ShareOf(split, floors, d)
          /\ ShareOf(split, floors, c) = ShareOf(split, floors, d)
             /\ ShareOf(split, floors, d) < counts[d]
                => Remainder(split, c) > Remainder(split, d)
          /\ Remainder(split, c) \in Nat
      <3>1. counts = split.counts /\ counts \in [1..n -> Nat] /\ n \in Nat
        BY <1>1 DEF counts
      <3>2. split.budget \in Nat /\ split.budget > 0 /\ Given(counts) \in Nat /\ Given(counts) > 0
        BY <1>1, <1>3 DEF T, B
      <3>3. c \in 1..n /\ d \in 1..n /\ counts[c] > counts[d]
        BY <1>11
      <3>4. QED BY ONLY <1>6, <3>1, <3>2, <3>3, LargerHasMore
    <2>2. counts[c] > 0
      BY <1>1, <1>11
    <2>3. QED BY <1>3, <1>8, <2>1, <2>2
  <1>12. \A c \in L : v[c] \in Int
    <2> SUFFICES ASSUME NEW c \in L PROVE Remainder(split, c) \in Nat
      BY <1>9
    <2>1. counts[c] \in Nat
      BY <1>1, <1>8
    <2>2. B * counts[c] \in Nat
      BY <1>3, <2>1
    <2>3. (B * counts[c]) % T \in Nat
      BY <1>1, <2>2, WholePart
    <2>4. QED BY <2>3 DEF Remainder, B, T, counts
  <1>13. LargerGivesMore(counts, alloc)
    BY <1>1, <1>11 DEF LargerGivesMore
  <1>14. KeyIsHigher(n, counts, alloc, L, v)
    BY <1>9, <1>11 DEF KeyIsHigher
  <1>15. /\ order \in Seq(1..n) /\ \A i, j \in 1..Len(order) : i # j => order[i] # order[j]
         /\ InTurn(counts, alloc, order, 1)
    <2>1. IsTurns(HighestFirst(L, v), n, counts, alloc)
      BY ONLY <1>1, <1>8, <1>12, <1>13, <1>14, ListsAreInTurn
    <2>2. QED BY <2>1 DEF order, IsTurns
  <1>16. SplitTypeOK'
    BY <1>1, <1>4, <1>15 DEF SplitInv, SplitTypeOK, counts, B
  <1>17. QED
    BY <1>4, <1>10, <1>13, <1>15, <1>16 DEF SplitInv, counts, alloc

\* A turn of the loop gives a record to a cluster behind all that are larger.
LEMMA GiveOneKeeps == SplitInv /\ GiveOne => SplitInv'
  <1> SUFFICES ASSUME SplitInv, GiveOne PROVE SplitInv'
    OBVIOUS
  <1> DEFINE counts == split.counts
             n == Len(counts)
             alloc == split.alloc
             more == split'.alloc
             order == split.order
             m == Len(order)
             k == split.next
             x == order[k]
  <1>1. /\ n \in Nat /\ DOMAIN counts = 1..n /\ counts \in [1..n -> Nat]
        /\ alloc \in [1..n -> Nat] /\ Given(alloc) \in Nat
        /\ \A d \in 1..n : alloc[d] <= counts[d] /\ (counts[d] > 0 => alloc[d] > 0)
    BY SplitFields DEF SplitInv, Within
  <1>2. /\ split.at = "giving" /\ k <= m /\ Given(alloc) < split.size /\ split.size \in Nat
        /\ order \in Seq(1..n) /\ m \in Nat /\ k \in Nat \ {0} /\ k \in 1..m /\ x \in 1..n
        /\ \A i, j \in 1..m : i # j => order[i] # order[j]
        /\ \A i \in 1..m : order[i] \in 1..n
    <2>1. split.at = "giving" /\ k <= m /\ Given(alloc) < split.size
      BY DEF GiveOne
    <2>2. split.size \in Nat /\ order \in Seq(1..n) /\ k \in Nat \ {0}
      BY <1>1 DEF SplitInv, SplitTypeOK
    <2>3. \A i, j \in 1..m : i # j => order[i] # order[j]
      BY DEF SplitInv
    <2> HIDE DEF order, k, n
    <2> DEFINE D == 1..n
    <2> HIDE DEF D
    <2>4. m \in Nat /\ \A i \in 1..m : order[i] \in D
      <3>1. order \in Seq(D)
        BY <2>2 DEF D
      <3>2. QED BY ONLY <3>1
    <2>5. k \in 1..m
      BY <2>1, <2>2, <2>4
    <2>6. QED BY <2>1, <2>2, <2>3, <2>4, <2>5 DEF D
  <1>3. LargerGivesMore(counts, alloc) /\ InTurn(counts, alloc, order, k)
    BY <1>2 DEF SplitInv
  <1>4. /\ split'.counts = counts /\ split'.size = split.size /\ split'.budget = split.budget
        /\ split'.order = order /\ split'.at = "giving" /\ split'.next = k + 1
        /\ more = [alloc EXCEPT ![x] = IF Room(split, x) > 0 THEN @ + 1 ELSE @]
        /\ split' = [counts |-> split'.counts, size |-> split'.size, alloc |-> split'.alloc,
                     budget |-> split'.budget, order |-> split'.order, next |-> split'.next,
                     at |-> split'.at]
    BY <1>2 DEF GiveOne, SplitInv, SplitTypeOK
  <1>5. Room(split, x) = counts[x] - alloc[x]
    BY DEF Room
  <1>6. /\ \A c, d \in 1..n : counts[c] > counts[d] => alloc[c] >= alloc[d]
        /\ \A j \in k..m : \A c \in 1..n :
              counts[c] > counts[order[j]] /\ alloc[order[j]] < counts[order[j]] =>
                 alloc[c] > alloc[order[j]] \/ \E i \in k..j - 1 : order[i] = c
    BY <1>1, <1>3 DEF LargerGivesMore, InTurn
  <1> HIDE DEF counts, n, alloc, more, order, m, k, x
  <1>7. /\ more \in [1..n -> Nat] /\ \A d \in 1..n : d # x => more[d] = alloc[d]
        /\ alloc[x] \in Nat /\ counts[x] \in Nat /\ alloc[x] <= counts[x]
        /\ alloc[x] < counts[x] => more[x] = alloc[x] + 1
        /\ ~(alloc[x] < counts[x]) => more[x] = alloc[x] /\ alloc[x] = counts[x]
    <2>1. alloc[x] \in Nat /\ counts[x] \in Nat /\ alloc[x] <= counts[x]
      BY <1>1, <1>2
    <2>2. Room(split, x) > 0 <=> alloc[x] < counts[x]
      BY ONLY <1>5, <2>1
    <2>3. x \in 1..n /\ alloc \in [1..n -> Nat] /\ alloc[x] + 1 \in Nat
      BY <1>1, <1>2, <2>1
    <2>4. more \in [1..n -> Nat] /\ \A d \in 1..n : d # x => more[d] = alloc[d]
      BY ONLY <1>4, <2>3
    <2>5. alloc[x] < counts[x] => more[x] = alloc[x] + 1
      BY ONLY <1>4, <2>2, <2>3
    <2>6. ~(alloc[x] < counts[x]) => more[x] = alloc[x] /\ alloc[x] = counts[x]
      <3>1. ~(alloc[x] < counts[x]) => more[x] = alloc[x]
        BY ONLY <1>4, <2>2, <2>3
      <3>2. QED BY ONLY <2>1, <3>1
    <2>7. QED BY <2>1, <2>4, <2>5, <2>6
  <1>8. Given(more) \in Nat /\ Given(more) <= split.size
    <2>1. CASE alloc[x] < counts[x]
      <3>1. more = [alloc EXCEPT ![x] = @ + 1]
        BY <1>1, <1>2, <1>4, <1>5, <1>7, <2>1
      <3>2. Given([alloc EXCEPT ![x] = @ + 1]) = Given(alloc) + 1
        <4>1. n \in Nat /\ alloc \in [1..n -> Nat] /\ x \in 1..n /\ 1 \in Nat
          BY <1>1, <1>2
        <4>2. QED BY ONLY <4>1, GivenGrows
      <3>3. QED BY <1>1, <1>2, <3>1, <3>2
    <2>2. CASE ~(alloc[x] < counts[x])
      <3>1. more = alloc
        BY <1>1, <1>2, <1>7, <2>2
      <3>2. QED BY <1>1, <1>2, <3>1
    <2>3. QED BY <2>1, <2>2
  <1>9. Within(counts, more)
    <2> SUFFICES ASSUME NEW d \in 1..n
                 PROVE  more[d] <= counts[d] /\ (counts[d] > 0 => more[d] > 0)
      BY <1>1, <1>7 DEF Within
    <2>1. CASE d # x
      BY <1>1, <1>7, <2>1
    <2>2. CASE d = x
      BY <1>1, <1>7, <2>2
    <2>3. QED BY <2>1, <2>2
  \* The cluster whose turn it is is behind all that are larger, or has no room.
  <1>10. ASSUME NEW c \in 1..n, counts[c] > counts[x], alloc[x] < counts[x]
         PROVE  alloc[c] > alloc[x]
    <2>1. k \in k..m /\ k..k - 1 = {}
      BY <1>2
    <2>2. QED BY <1>6, <1>10, <2>1 DEF x
  <1>11. LargerGivesMore(counts, more)
    <2> SUFFICES ASSUME NEW c \in 1..n, NEW d \in 1..n, counts[c] > counts[d]
                 PROVE  more[c] >= more[d]
      BY <1>1 DEF LargerGivesMore
    <2>1. alloc[c] >= alloc[d] /\ alloc[c] \in Nat /\ alloc[d] \in Nat /\ counts[c] \in Nat
          /\ counts[d] \in Nat
      BY <1>1, <1>6
    <2>2. CASE c = x
      <3>1. d # x /\ more[d] = alloc[d]
        BY <1>7, <2>1, <2>2
      <3>2. more[x] >= alloc[x]
        BY <1>7
      <3>3. QED BY <1>7, <2>1, <2>2, <3>1, <3>2
    <2>3. CASE d = x
      <3>1. c # x
        BY <2>1, <2>3
      <3>2. more[c] = alloc[c]
        BY <1>7, <3>1
      <3>3. QED BY <1>7, <1>10, <2>1, <2>3, <3>2
    <2>4. CASE c # x /\ d # x
      BY <1>7, <2>1, <2>4
    <2>5. QED BY <2>2, <2>3, <2>4
  <1>12. InTurn(counts, more, order, k + 1)
    <2> SUFFICES ASSUME NEW j \in (k + 1)..m, NEW c \in 1..n, counts[c] > counts[order[j]],
                        more[order[j]] < counts[order[j]], ~(more[c] > more[order[j]])
                 PROVE  \E i \in (k + 1)..j - 1 : order[i] = c
      BY <1>1 DEF InTurn, m
    <2> DEFINE d == order[j]
    <2>1. j \in k..m /\ j \in 1..m /\ j # k /\ d # x /\ d \in 1..n
      BY <1>2 DEF x
    <2>2. more[d] = alloc[d] /\ alloc[c] >= alloc[d] /\ alloc[d] < counts[d]
      BY <1>6, <1>7, <2>1
    <2>3. alloc[c] \in Nat /\ alloc[d] \in Nat /\ more[c] \in Nat /\ counts[c] \in Nat /\ counts[d] \in Nat
      BY <1>1, <1>7, <2>1
    <2>4. c # x
      <3> SUFFICES ASSUME c = x PROVE FALSE
        OBVIOUS
      <3>1. more[c] > more[d]
        BY <1>7, <2>2, <2>3
      <3>2. QED BY <3>1
    <2>5. ~(alloc[c] > alloc[d])
      BY <1>7, <2>2, <2>4
    <2>6. PICK i \in k..j - 1 : order[i] = c
      BY <1>6, <2>1, <2>2, <2>5
    <2>7. i # k
      BY <2>4, <2>6 DEF x
    <2>8. i \in (k + 1)..j - 1
      BY <1>2, <2>1, <2>7
    <2>9. QED BY <2>6, <2>8
  <1>13. SplitTypeOK'
    <2>1. k + 1 \in Nat \ {0}
      BY <1>2
    <2>2. QED BY <1>2, <1>4, <2>1 DEF SplitInv, SplitTypeOK, counts, order
  <1>14. QED
    BY <1>4, <1>8, <1>9, <1>11, <1>12, <1>13 DEF SplitInv, counts, more, order, k

\* As long as there is room, the clusters with most room come first.
LEMMA TopUpKeeps == SplitInv /\ TopUp => SplitInv'
  <1> SUFFICES ASSUME SplitInv, TopUp PROVE SplitInv'
    OBVIOUS
  <1> DEFINE counts == split.counts
             n == Len(counts)
             alloc == split.alloc
             L == Spendable(split)
             v == [c \in L |-> Room(split, c)]
             order == HighestFirst(L, v)
  <1>1. /\ n \in Nat /\ DOMAIN counts = 1..n /\ counts \in [1..n -> Nat]
        /\ alloc \in [1..n -> Nat] /\ Given(alloc) \in Nat
        /\ \A d \in 1..n : alloc[d] <= counts[d]
    BY SplitFields
  <1>2. split.at = "giving" /\ Given(alloc) <= split.size /\ LargerGivesMore(counts, alloc)
    BY DEF TopUp, SplitInv
  <1>3. /\ split'.counts = counts /\ split'.size = split.size /\ split'.budget = split.budget
        /\ split'.order = order /\ split'.at = "giving" /\ split'.next = 1 /\ split'.alloc = alloc
        /\ split' = [counts |-> split'.counts, size |-> split'.size, alloc |-> split'.alloc,
                     budget |-> split'.budget, order |-> split'.order, next |-> split'.next,
                     at |-> split'.at]
    BY <1>2 DEF TopUp, SplitInv, SplitTypeOK
  <1>4. L \in SUBSET (1..n)
        /\ \A c \in 1..n : c \in L <=> counts[c] > 0 /\ counts[c] - alloc[c] > 0
    BY <1>1 DEF Spendable, Live, Room
  <1>5. \A c \in L : v[c] = counts[c] - alloc[c]
    BY DEF Room
  <1> HIDE DEF counts, n, alloc, L, v, order
  <1>6. \A c \in 1..n : counts[c] \in Nat /\ alloc[c] \in Nat
    BY <1>1
  <1>7. \A c \in L : v[c] \in Int
    BY <1>4, <1>5, <1>6
  <1>8. KeyIsHigher(n, counts, alloc, L, v)
    <2> SUFFICES ASSUME NEW c \in 1..n, NEW d \in 1..n, counts[c] > counts[d], alloc[c] = alloc[d],
                        alloc[d] < counts[d], d \in L
                 PROVE  c \in L /\ v[c] > v[d]
      BY DEF KeyIsHigher
    <2>1. counts[c] > 0 /\ counts[c] - alloc[c] > 0
      BY <1>6
    <2>2. c \in L
      BY <1>4, <2>1
    <2>3. counts[c] - alloc[c] > counts[d] - alloc[d]
      BY <1>6
    <2>4. QED BY <1>5, <2>2, <2>3
  <1>9. /\ order \in Seq(1..n) /\ \A i, j \in 1..Len(order) : i # j => order[i] # order[j]
        /\ InTurn(counts, alloc, order, 1)
    <2>1. IsTurns(HighestFirst(L, v), n, counts, alloc)
      BY ONLY <1>1, <1>2, <1>4, <1>7, <1>8, ListsAreInTurn
    <2>2. QED BY <2>1 DEF order, IsTurns
  <1>10. SplitTypeOK'
    BY <1>1, <1>3, <1>9 DEF SplitInv, SplitTypeOK, counts
  <1>11. QED
    BY <1>2, <1>3, <1>9, <1>10 DEF SplitInv, counts, alloc

\* Where there is no more room all is given, and that is the size.
LEMMA AllocatedKeeps == SplitInv /\ Allocated => SplitInv'
  <1> SUFFICES ASSUME SplitInv, Allocated PROVE SplitInv'
    OBVIOUS
  <1> DEFINE counts == split.counts
             n == Len(counts)
             alloc == split.alloc
  <1>1. /\ n \in Nat /\ DOMAIN counts = 1..n /\ counts \in [1..n -> Nat]
        /\ alloc \in [1..n -> Nat] /\ Given(alloc) \in Nat /\ Given(counts) \in Nat
        /\ \A d \in 1..n : alloc[d] <= counts[d]
    BY SplitFields
  <1>2. /\ split.at = "giving" /\ Given(alloc) <= split.size /\ split.size <= Given(counts)
        /\ split.size \in Nat
        /\ Given(alloc) >= split.size \/ Spendable(split) = {}
    BY DEF Allocated, SplitInv, SplitTypeOK
  <1>3. /\ split'.counts = counts /\ split'.size = split.size /\ split'.budget = split.budget
        /\ split'.order = split.order /\ split'.at = "done" /\ split'.next = split.next
        /\ split'.alloc = alloc
        /\ split' = [counts |-> split'.counts, size |-> split'.size, alloc |-> split'.alloc,
                     budget |-> split'.budget, order |-> split'.order, next |-> split'.next,
                     at |-> split'.at]
    BY <1>2 DEF Allocated, SplitInv, SplitTypeOK
  <1>4. Spendable(split) = {} => alloc = counts
    <2> SUFFICES ASSUME Spendable(split) = {} PROVE alloc = counts
      OBVIOUS
    <2>1. \A c \in 1..n : ~(counts[c] > 0 /\ counts[c] - alloc[c] > 0)
      BY <1>1 DEF Spendable, Live, Room
    <2> HIDE DEF counts, n, alloc
    <2>2. \A c \in 1..n : alloc[c] = counts[c]
      BY <1>1, <2>1
    <2>3. QED BY <1>1, <2>2
  <1>5. Given(alloc) = split.size
    <2>1. Given(alloc) >= split.size
      BY <1>1, <1>2, <1>4
    <2>2. QED BY <1>1, <1>2, <2>1
  <1>6. SplitTypeOK'
    BY <1>3 DEF SplitInv, SplitTypeOK
  <1>7. /\ Within(counts, alloc) /\ 0 < Given(counts) /\ LargerGivesMore(counts, alloc)
        /\ \A i, j \in 1..Len(split.order) : i # j => split.order[i] # split.order[j]
    BY <1>2 DEF SplitInv
  <1> HIDE DEF counts, alloc, n
  <1>8. QED BY ONLY <1>2, <1>3, <1>5, <1>6, <1>7 DEF SplitInv

\* SplitInv holds in every reachable state: the sample is never overdrawn, and who
\* gets the next record is behind all that are larger.
THEOREM SplitAlways == SplitSpec => []SplitInv
  <1>1. SplitInv /\ UNCHANGED splitVars => SplitInv'
    BY DEF splitVars, SplitInv, SplitTypeOK
  <1>2. SplitInv /\ [SplitNext]_splitVars => SplitInv'
    BY <1>1, TakeShareKeeps, RankRemaindersKeeps, GiveOneKeeps, TopUpKeeps, AllocatedKeeps
       DEF SplitNext
  <1>3. QED BY <1>2, SplitInvInit, PTL DEF SplitSpec

\* Whichever pass runs short, a stratified sample is as large as was asked for, takes
\* from every cluster and no more than it has, and no less from a larger one (_allocate).
THEOREM StratificationIsFairAlways == SplitSpec => []StratificationIsFair
  <1>1. SplitInv => StratificationIsFair
    <2> SUFFICES ASSUME SplitInv, split.at = "done" PROVE StratificationIsFair
      BY DEF StratificationIsFair
    <2>1. Given(split.alloc) = split.size /\ LargerGivesMore(split.counts, split.alloc)
          /\ Within(split.counts, split.alloc)
      BY DEF SplitInv
    <2>2. \A c \in DOMAIN split.counts : split.alloc[c] \in 0..split.counts[c]
      <3>1. \A c \in DOMAIN split.counts : /\ split.alloc[c] \in Nat /\ split.counts[c] \in Nat
                                            /\ split.alloc[c] <= split.counts[c]
        BY SplitFields
      <3>2. QED BY <3>1
    <2>3. \A c \in Live(split.counts) : split.alloc[c] > 0
      BY <2>1 DEF Within, Live
    <2>4. QED BY <2>1, <2>2, <2>3 DEF StratificationIsFair, LargerGivesMore
  <1>2. QED BY <1>1, SplitAlways, PTL

----------------------------------------------------------------------------
(* The exact neighbours of a record *)

\* A list of the K best of some documents, filled up with no document when they
\* are fewer.
IsBest(best, scores, S, K) ==
    /\ best \in [1..K -> S \union {NoDocument}]
    /\ \A i, j \in 1..K : i # j /\ best[i] # NoDocument => best[i] # best[j]
    /\ \A i, j \in 1..K : i < j => ScoreOf(scores, best[i]) >= ScoreOf(scores, best[j])
    /\ \A d \in S : (\E i \in 1..K : best[i] = d)
                    \/ \A i \in 1..K : ScoreOf(scores, best[i]) >= scores[d]

\* Between two pages: the running list is the best of what was seen.
ScanInv ==
    /\ scan.scores \in Corpora /\ scan.size \in PageSizes /\ scan.k \in Cutoffs
    /\ scan = [scores |-> scan.scores, size |-> scan.size, k |-> scan.k,
               seen |-> scan.seen, best |-> scan.best]
    /\ scan.seen \in 0..Len(scan.scores)
    /\ IsBest(scan.best, scan.scores, 1..scan.seen, scan.k + 1)

\* A corpus, and what scores its documents have.
IsCorpus(scores) == Len(scores) \in Nat /\ scores \in [1..Len(scores) -> Nat \ {0}]

LEMMA ACorpus == \A scores \in Corpora : IsCorpus(scores)
  <1>1. ASSUME NEW scores \in Seq(Nat \ {0}) PROVE IsCorpus(scores)
    BY DEF IsCorpus
  <1>2. QED BY <1>1, HealthAssumption

LEMMA ScoresAre ==
  ASSUME NEW scores, IsCorpus(scores)
  PROVE  /\ ScoreOf(scores, NoDocument) = 0 /\ NoDocument \notin DOMAIN scores
         /\ \A d \in DOMAIN scores : /\ ScoreOf(scores, d) = scores[d]
                                     /\ scores[d] \in Nat /\ scores[d] > 0
         /\ \A d \in DOMAIN scores \union {NoDocument} : ScoreOf(scores, d) \in Nat
  BY DEF IsCorpus, ScoreOf, NoDocument, NoScore

\* No function gives more places than there are different values.
LEMMA TooManyPlaces ==
  ASSUME NEW n \in Nat, NEW m \in Nat, m < n, NEW f \in [1..n -> 1..m]
  PROVE  \E x, y \in 1..n : x # y /\ f[x] = f[y]
  <1>1. IsFiniteSet(1..n) /\ Cardinality(1..n) = n /\ IsFiniteSet(1..m) /\ Cardinality(1..m) = m
    BY FS_Interval
  <1>2. QED BY <1>1, FS_PigeonHole

\* What top_k_search returns of a set of documents.
IsTop(top, n, scores, S, K) ==
    /\ n \in 0..K /\ top \in [1..n -> S]
    /\ \A i, j \in 1..n : i # j => top[i] # top[j]
    /\ \A i, j \in 1..n : i < j => scores[top[i]] >= scores[top[j]]
    /\ \A d \in S : (\E i \in 1..n : top[i] = d)
                    \/ (n = K /\ \A i \in 1..n : scores[top[i]] >= scores[d])

LEMMA TopIs ==
  ASSUME NEW scores, NEW S, IsFiniteSet(S), NEW K \in Nat, NEW top \in TopOf(scores, S, K)
  PROVE  /\ Len(top) \in Nat /\ top \in Seq(S)
         /\ IsTop(top, Len(top), scores, S, K)
  <1> DEFINE n == Fewer(K, Cardinality(S))
  <1>1. Cardinality(S) \in Nat
    BY FS_CardinalityType
  <1>2. n \in 0..K /\ n <= Cardinality(S) /\ (n = K \/ n = Cardinality(S))
    BY <1>1 DEF Fewer
  <1>3. /\ top \in [1..n -> S]
        /\ \A i, j \in 1..n : i < j => top[i] # top[j] /\ scores[top[i]] >= scores[top[j]]
        /\ \A d \in S : (\E i \in 1..n : top[i] = d)
                        \/ \A i \in 1..n : scores[top[i]] >= scores[d]
    BY DEF TopOf
  <1> HIDE DEF n
  <1>4. Len(top) = n /\ top \in Seq(S)
    BY <1>2, <1>3
  <1>5. \A i, j \in 1..n : i # j => top[i] # top[j]
    <2> SUFFICES ASSUME NEW i \in 1..n, NEW j \in 1..n, i # j PROVE top[i] # top[j]
      OBVIOUS
    <2>1. i < j \/ j < i
      BY <1>2
    <2>2. QED BY <1>3, <2>1
  <1>6. ASSUME n # K PROVE \A d \in S : \E i \in 1..n : top[i] = d
    <2>1. top \in Injection(1..n, S)
      BY <1>3, <1>5 DEF Injection, IsInjective
    <2>2. Cardinality(1..n) = n
      BY <1>2, FS_Interval
    <2>3. n = Cardinality(S)
      BY <1>2, <1>6
    <2>4. top \in Surjection(1..n, S)
      BY <2>1, <2>2, <2>3, FS_Injection
    <2>5. QED BY <2>4 DEF Surjection
  <1>7. \A d \in S : (\E i \in 1..n : top[i] = d)
                     \/ (n = K /\ \A i \in 1..n : scores[top[i]] >= scores[d])
    BY <1>3, <1>6
  <1>8. IsTop(top, n, scores, S, K)
    BY <1>2, <1>3, <1>5, <1>7 DEF IsTop
  <1>9. QED BY <1>2, <1>4, <1>8

\* The order in which a page is folded in.
FoldedBy(order, m, both, scores) ==
    /\ order \in [1..m -> 1..m] /\ \A x \in 1..m : \E i \in 1..m : order[i] = x
    /\ \A i, j \in 1..m : i < j =>
          /\ order[i] # order[j]
          /\ ScoreOf(scores, both[order[i]]) >= ScoreOf(scores, both[order[j]])

LEMMA MergeOrderIs ==
  ASSUME NEW scores, NEW m, m \in Nat, NEW both, both \in Seq(DOMAIN scores \union {NoDocument}),
         Len(both) = m, IsCorpus(scores)
  PROVE  FoldedBy(HighestFirst(DOMAIN both, [x \in DOMAIN both |-> ScoreOf(scores, both[x])]),
                  m, both, scores)
  <1> DEFINE v == [x \in DOMAIN both |-> ScoreOf(scores, both[x])]
             order == HighestFirst(1..m, v)
  <1>1. DOMAIN both = 1..m /\ \A x \in 1..m : ScoreOf(scores, both[x]) \in Nat
    BY ScoresAre
  <1>2. \A x \in 1..m : v[x] = ScoreOf(scores, both[x]) /\ v[x] \in Int
    BY <1>1
  <1> HIDE DEF v
  <1>3. Cardinality(1..m) = m
    BY FS_Interval
  <1>4. SortedDown(order, m, 1..m, v)
    <2>1. SortedDown(order, Cardinality(1..m), 1..m, v)
      BY <1>2, HighestFirstIs
    <2>2. QED BY <1>3, <2>1
  <1> HIDE DEF order
  <1>5. FoldedBy(order, m, both, scores)
    <2>1. /\ order \in [1..m -> 1..m] /\ \A x \in 1..m : \E i \in 1..m : order[i] = x
          /\ \A i, j \in 1..m : i < j => order[i] # order[j] /\ v[order[i]] >= v[order[j]]
      BY <1>4 DEF SortedDown
    <2>2. \A i \in 1..m : v[order[i]] = ScoreOf(scores, both[order[i]])
      BY <1>2, <2>1
    <2>3. ASSUME NEW i \in 1..m, NEW j \in 1..m, i < j
          PROVE  ScoreOf(scores, both[order[i]]) >= ScoreOf(scores, both[order[j]])
      <3>1. v[order[i]] >= v[order[j]]
        BY ONLY <2>1, <2>3
      <3>2. v[order[i]] = ScoreOf(scores, both[order[i]]) /\ v[order[j]] = ScoreOf(scores, both[order[j]])
        BY ONLY <2>2, <2>3
      <3>3. QED BY ONLY <3>1, <3>2
    <2>4. QED BY ONLY <2>1, <2>3 DEF FoldedBy
  <1>6. QED BY <1>1, <1>5 DEF order, v

\* Folding the best of a page into the best so far gives the best of both.
LEMMA MergeIsBest ==
  ASSUME NEW scores, IsCorpus(scores), NEW A \in SUBSET DOMAIN scores, NEW B \in SUBSET DOMAIN scores,
         A \intersect B = {}, IsFiniteSet(B), NEW K \in Nat, NEW best, IsBest(best, scores, A, K),
         NEW top \in TopOf(scores, B, K)
  PROVE  IsBest(MergePage(scores, best, top, K), scores, A \union B, K)
  <1> DEFINE n == Len(top)
             m == K + n
             both == best \o top
             order == HighestFirst(DOMAIN both, [x \in DOMAIN both |-> ScoreOf(scores, both[x])])
             new == MergePage(scores, best, top, K)
             V(d) == ScoreOf(scores, d)
             D == A \union {NoDocument}
  <1>1. n \in Nat /\ top \in Seq(B) /\ IsTop(top, n, scores, B, K)
    BY TopIs
  <1> HIDE DEF n
  <1>2. /\ n \in 0..K /\ top \in [1..n -> B]
        /\ \A i, j \in 1..n : i # j => top[i] # top[j]
        /\ \A i, j \in 1..n : i < j => scores[top[i]] >= scores[top[j]]
        /\ \A d \in B : (\E i \in 1..n : top[i] = d)
                        \/ (n = K /\ \A i \in 1..n : scores[top[i]] >= scores[d])
    BY <1>1 DEF IsTop
  <1>3. /\ best \in [1..K -> D]
        /\ \A i, j \in 1..K : i # j /\ best[i] # NoDocument => best[i] # best[j]
        /\ \A d \in A : (\E i \in 1..K : best[i] = d) \/ \A i \in 1..K : V(best[i]) >= scores[d]
    BY DEF IsBest
  <1>4. /\ V(NoDocument) = 0 /\ NoDocument \notin DOMAIN scores
        /\ \A d \in DOMAIN scores : V(d) = scores[d] /\ scores[d] \in Nat
        /\ \A d \in DOMAIN scores \union {NoDocument} : V(d) \in Nat
    BY ScoresAre
  <1>5. best \in Seq(D) /\ Len(best) = K
    BY <1>3
  <1>6. m \in Nat /\ both \in Seq(DOMAIN scores \union {NoDocument}) /\ Len(both) = m
    <2>1. best \in Seq(DOMAIN scores \union {NoDocument})
      BY <1>3, <1>5
    <2>2. top \in Seq(DOMAIN scores \union {NoDocument})
      BY <1>1, <1>2
    <2>3. Len(top) = n
      BY DEF n
    <2>4. QED BY <1>1, <1>5, <2>1, <2>2, <2>3
  <1>7. /\ \A i \in 1..K : both[i] = best[i]
        /\ \A i \in 1..n : both[K + i] = top[i] /\ K + i \in 1..m
        /\ \A x \in 1..m : x \in 1..K \/ \E i \in 1..n : x = K + i
    <2>1. Len(top) = n
      BY DEF n
    <2>2. \A i \in 1..K : both[i] = best[i]
      BY <1>1, <1>5, <2>1
    <2>3. \A i \in 1..n : both[K + i] = top[i] /\ K + i \in 1..m
      BY <1>1, <1>5, <2>1
    <2>4. \A x \in 1..m : x \in 1..K \/ (x - K \in 1..n /\ x = K + (x - K))
      BY <1>1
    <2>5. QED BY <2>2, <2>3, <2>4
  <1>8. /\ order \in [1..m -> 1..m]
        /\ \A x \in 1..m : \E i \in 1..m : order[i] = x
        /\ \A i, j \in 1..m : i < j =>
              order[i] # order[j] /\ V(both[order[i]]) >= V(both[order[j]])
    <2> HIDE DEF both, m
    <2>1. FoldedBy(order, m, both, scores)
      BY <1>6, MergeOrderIs
    <2>2. QED BY <2>1 DEF FoldedBy
  <1>9. new = [i \in 1..K |-> both[order[i]]]
    BY DEF MergePage
  <1>10. \A x \in 1..m : both[x] \in A \union B \union {NoDocument} /\ V(both[x]) \in Nat
    BY <1>2, <1>3, <1>4, <1>7
  <1> HIDE DEF both, order, new, m
  <1>11. \A x, y \in 1..m : x # y /\ both[x] # NoDocument => both[x] # both[y]
    <2> SUFFICES ASSUME NEW x \in 1..m, NEW y \in 1..m, x # y, both[x] # NoDocument,
                        both[x] = both[y]
                 PROVE  FALSE
      OBVIOUS
    <2>1. CASE x \in 1..K /\ y \in 1..K
      BY <1>3, <1>7, <2>1
    <2>2. ASSUME x \in 1..K, NEW j \in 1..n, y = K + j PROVE FALSE
      <3>1. best[x] \in A \union {NoDocument} /\ both[x] = best[x] /\ both[y] = top[j] /\ top[j] \in B
        BY <1>2, <1>3, <1>7, <2>2
      <3>2. QED BY <3>1
    <2>3. ASSUME y \in 1..K, NEW i \in 1..n, x = K + i PROVE FALSE
      <3>1. best[y] \in A \union {NoDocument} /\ both[y] = best[y] /\ both[x] = top[i] /\ top[i] \in B
        BY <1>2, <1>3, <1>7, <2>3
      <3>2. QED BY <3>1
    <2>4. ASSUME NEW i \in 1..n, x = K + i, NEW j \in 1..n, y = K + j PROVE FALSE
      <3>1. both[x] = top[i] /\ both[y] = top[j]
        BY <1>7, <2>4
      <3>2. i # j
        BY <2>4
      <3>3. QED BY <1>2, <3>1, <3>2
    <2>5. QED BY <1>7, <2>1, <2>2, <2>3, <2>4
  <1> HIDE DEF V, D
  <1>12. \A i \in 1..K : i \in 1..m /\ order[i] \in 1..m /\ new[i] = both[order[i]]
    BY <1>1, <1>8, <1>9 DEF m
  <1>13. new \in [1..K -> A \union B \union {NoDocument}]
    BY <1>9, <1>10, <1>12
  <1>14. \A i, j \in 1..K : i # j /\ new[i] # NoDocument => new[i] # new[j]
    <2> SUFFICES ASSUME NEW i \in 1..K, NEW j \in 1..K, i # j, new[i] # NoDocument
                 PROVE  new[i] # new[j]
      OBVIOUS
    <2>1. i < j \/ j < i
      OBVIOUS
    <2>2. order[i] # order[j]
      BY <1>8, <1>12, <2>1
    <2>3. QED BY <1>11, <1>12, <2>2
  <1>15. \A i, j \in 1..K : i < j => V(new[i]) >= V(new[j])
    BY <1>8, <1>12
  <1>16. ASSUME NEW d \in A \union B, NEW i \in 1..K, ~(V(new[i]) >= scores[d])
         PROVE  \E j \in 1..K : new[j] = d
    <2>1. scores[d] \in Nat /\ V(d) = scores[d]
      BY <1>4
    \* All that has a higher score than new[i] comes before it.
    <2>2. ASSUME NEW x \in 1..m, V(both[x]) >= scores[d]
          PROVE  \E j \in 1..i - 1 : order[j] = x
      <3>1. PICK j \in 1..m : order[j] = x
        BY <1>8
      <3>2. ~(i < j) /\ i # j
        <4>1. V(both[order[i]]) \in Nat /\ V(both[x]) \in Nat /\ ~(V(both[order[i]]) >= scores[d])
          BY <1>10, <1>12, <1>16
        <4>2. ~(V(both[order[i]]) >= V(both[x]))
          BY <2>1, <2>2, <4>1
        <4>3. i \in 1..m
          BY <1>12
        <4>4. QED BY <1>8, <3>1, <4>1, <4>2, <4>3, <2>2
      <3>3. j \in 1..i - 1
        BY <1>6, <3>2
      <3>4. QED BY <3>1, <3>3
    <2>3. CASE \E x \in 1..m : both[x] = d
      <3>1. PICK x \in 1..m : both[x] = d
        BY <2>3
      <3>2. PICK j \in 1..i - 1 : order[j] = x
        BY <2>1, <2>2, <3>1
      <3>3. j \in 1..K
        OBVIOUS
      <3>4. QED BY <1>12, <3>1, <3>2, <3>3
    <2>4. CASE ~\E x \in 1..m : both[x] = d
      <3>1. \E start \in {0, K} : \A p \in 1..K : start + p \in 1..m /\ V(both[start + p]) >= scores[d]
        <4>1. CASE d \in A
          <5>1. \A p \in 1..K : 0 + p \in 1..m /\ 0 + p = p
            BY <1>12
          <5>2. \A p \in 1..K : V(both[p]) >= scores[d]
            <6>1. \A p \in 1..K : p \in 1..m /\ both[p] = best[p]
              BY <1>7, <5>1
            <6>2. \A p \in 1..K : best[p] # d
              BY <2>4, <6>1
            <6>3. \A p \in 1..K : V(best[p]) >= scores[d]
              BY <1>3, <4>1, <6>2
            <6>4. QED BY <6>1, <6>3
          <5>3. QED BY <5>1, <5>2
        <4>2. CASE d \in B
          <5>1. n = K /\ \A p \in 1..n : scores[top[p]] >= scores[d]
            <6>1. \A p \in 1..n : top[p] # d
              BY <1>7, <2>4
            <6>2. QED BY <1>2, <4>2, <6>1
          <5>2. \A p \in 1..n : V(top[p]) = scores[top[p]]
            BY <1>2, <1>4
          <5>3. \A p \in 1..K : K + p \in 1..m /\ V(both[K + p]) >= scores[d]
            BY <1>7, <5>1, <5>2
          <5>4. QED BY <5>3
        <4>3. QED BY <4>1, <4>2
      <3>2. PICK start \in {0, K} : \A p \in 1..K : /\ start + p \in 1..m
                                                    /\ V(both[start + p]) >= scores[d]
        BY <3>1
      <3> DEFINE f == [p \in 1..K |-> CHOOSE j \in 1..i - 1 : order[j] = start + p]
      <3>3. \A p \in 1..K : \E j \in 1..i - 1 : order[j] = start + p
        BY <2>2, <3>2
      <3>4. \A p \in 1..K : f[p] \in 1..i - 1 /\ order[f[p]] = start + p
        BY <3>3, Zenon
      <3>5. f \in [1..K -> 1..i - 1]
        BY <3>4
      <3> HIDE DEF f
      <3>6. i - 1 \in Nat /\ i - 1 < K /\ start \in Int
        OBVIOUS
      <3>7. PICK p, q \in 1..K : p # q /\ f[p] = f[q]
        BY ONLY <3>5, <3>6, K \in Nat, TooManyPlaces
      <3>8. start + p = start + q
        BY <3>4, <3>7
      <3>9. QED BY <3>6, <3>7, <3>8
    <2>5. QED BY <2>3, <2>4
  <1>17. IsBest(new, scores, A \union B, K)
    BY <1>13, <1>14, <1>15, <1>16 DEF IsBest, V
  <1>18. QED BY <1>17 DEF new

\* Two lists of the best of the same documents have the same scores in the same
\* places; here no place of one has more than that of the other.
LEMMA NoneHasMore ==
  ASSUME NEW scores, IsCorpus(scores), NEW S \in SUBSET DOMAIN scores, NEW K \in Nat,
         NEW best, IsBest(best, scores, S, K), NEW other, IsBest(other, scores, S, K), NEW i \in 1..K
  PROVE  ScoreOf(scores, best[i]) <= ScoreOf(scores, other[i])
  <1> DEFINE V(d) == ScoreOf(scores, d)
             D == S \union {NoDocument}
  <1>1. /\ V(NoDocument) = 0
        /\ \A d \in DOMAIN scores : V(d) = scores[d] /\ scores[d] \in Nat
        /\ \A d \in D : V(d) \in Nat
    BY ScoresAre
  <1>2. /\ best \in [1..K -> D] /\ \A x \in 1..K : V(best[x]) \in Nat
        /\ \A x, y \in 1..K : x # y /\ best[x] # NoDocument => best[x] # best[y]
        /\ \A x, y \in 1..K : x < y => V(best[x]) >= V(best[y])
    BY <1>1 DEF IsBest
  <1>3. /\ other \in [1..K -> D] /\ \A x \in 1..K : V(other[x]) \in Nat
        /\ \A x, y \in 1..K : x < y => V(other[x]) >= V(other[y])
        /\ \A d \in S : (\E x \in 1..K : other[x] = d) \/ \A x \in 1..K : V(other[x]) >= scores[d]
    BY <1>1 DEF IsBest
  <1> HIDE DEF V
  <1> SUFFICES ASSUME V(best[i]) > V(other[i]) PROVE FALSE
    BY <1>2, <1>3 DEF V
  \* What best has up to i is all above other[i], so other has it before i.
  <1>4. ASSUME NEW x \in 1..i PROVE best[x] # NoDocument /\ \E j \in 1..i - 1 : other[j] = best[x]
    <2>1. x \in 1..K /\ (x < i \/ x = i)
      OBVIOUS
    <2>2. V(best[x]) > V(other[i]) /\ V(best[x]) > 0
      BY <1>2, <1>3, <2>1
    <2>3. best[x] # NoDocument /\ best[x] \in S
      BY <1>1, <1>2, <2>1, <2>2
    <2>4. V(best[x]) = scores[best[x]] /\ V(best[x]) \in Nat
      BY <1>1, <1>2, <2>1, <2>3
    <2>5. PICK j \in 1..K : other[j] = best[x]
      <3>1. ~(V(other[i]) >= scores[best[x]])
        BY <1>3, <2>2, <2>4
      <3>2. QED BY <1>3, <2>3, <3>1
    <2>6. ~(i < j) /\ i # j
      BY <1>3, <2>2, <2>4, <2>5
    <2>7. j \in 1..i - 1
      BY <2>6
    <2>8. QED BY <2>3, <2>5, <2>7
  <1> DEFINE f == [x \in 1..i |-> CHOOSE j \in 1..i - 1 : other[j] = best[x]]
  <1>5. \A x \in 1..i : f[x] \in 1..i - 1 /\ other[f[x]] = best[x]
    BY <1>4, Zenon
  <1>6. f \in [1..i -> 1..i - 1]
    BY <1>5
  <1> HIDE DEF f
  <1>7. i - 1 \in Nat /\ i \in Nat /\ i - 1 < i
    OBVIOUS
  <1>8. PICK x, y \in 1..i : x # y /\ f[x] = f[y]
    BY ONLY <1>6, <1>7, TooManyPlaces
  <1>9. best[x] = best[y] /\ best[x] # NoDocument /\ x \in 1..K /\ y \in 1..K
    BY <1>4, <1>5, <1>8
  <1>10. QED BY <1>2, <1>8, <1>9

\* What the best of all documents are, filled up, is a list of the best.
Filled(hits, K) == [i \in 1..K |-> IF i \in DOMAIN hits THEN hits[i] ELSE NoDocument]

LEMMA FilledIsBest ==
  ASSUME NEW scores, IsCorpus(scores), NEW S \in SUBSET DOMAIN scores, IsFiniteSet(S), NEW K \in Nat,
         NEW hits \in TopOf(scores, S, K)
  PROVE  IsBest(Filled(hits, K), scores, S, K)
  <1> DEFINE n == Len(hits)
             full == Filled(hits, K)
             V(d) == ScoreOf(scores, d)
  <1>1. hits \in Seq(S) /\ IsTop(hits, n, scores, S, K)
    BY TopIs
  <1> HIDE DEF n
  <1>2. /\ n \in 0..K /\ hits \in [1..n -> S] /\ DOMAIN hits = 1..n
        /\ \A i, j \in 1..n : i # j => hits[i] # hits[j]
        /\ \A i, j \in 1..n : i < j => scores[hits[i]] >= scores[hits[j]]
        /\ \A d \in S : (\E i \in 1..n : hits[i] = d)
                        \/ (n = K /\ \A i \in 1..n : scores[hits[i]] >= scores[d])
    BY <1>1 DEF IsTop
  <1>3. /\ V(NoDocument) = 0 /\ NoDocument \notin S
        /\ \A d \in S : V(d) = scores[d] /\ scores[d] \in Nat
    BY ScoresAre
  <1>4. /\ full \in [1..K -> S \union {NoDocument}]
        /\ \A i \in 1..n : i \in 1..K /\ full[i] = hits[i] /\ hits[i] \in S
        /\ \A i \in 1..K : i \notin 1..n => full[i] = NoDocument
    BY <1>2 DEF Filled
  <1> HIDE DEF full, V
  <1>5. \A i, j \in 1..K : i # j /\ full[i] # NoDocument => full[i] # full[j]
    <2> SUFFICES ASSUME NEW i \in 1..K, NEW j \in 1..K, i # j, full[i] # NoDocument
                 PROVE  full[i] # full[j]
      OBVIOUS
    <2>1. i \in 1..n
      BY <1>4
    <2>2. CASE j \in 1..n
      BY <1>2, <1>4, <2>1, <2>2
    <2>3. CASE j \notin 1..n
      BY <1>4, <2>3
    <2>4. QED BY <2>2, <2>3
  <1>6. \A i, j \in 1..K : i < j => V(full[i]) >= V(full[j])
    <2> SUFFICES ASSUME NEW i \in 1..K, NEW j \in 1..K, i < j PROVE V(full[i]) >= V(full[j])
      OBVIOUS
    <2>1. CASE j \in 1..n
      <3>1. i \in 1..n
        BY <1>2, <2>1
      <3>2. scores[hits[i]] >= scores[hits[j]] /\ hits[i] \in S /\ hits[j] \in S
        BY <1>2, <2>1, <3>1
      <3>3. QED BY <1>3, <1>4, <2>1, <3>1, <3>2
    <2>2. CASE j \notin 1..n
      <3>1. V(full[j]) = 0
        BY <1>3, <1>4, <2>2
      <3>2. V(full[i]) \in Nat
        BY <1>3, <1>4
      <3>3. QED BY <3>1, <3>2
    <2>3. QED BY <2>1, <2>2
  <1>7. \A d \in S : (\E i \in 1..K : full[i] = d) \/ \A i \in 1..K : V(full[i]) >= scores[d]
    <2> SUFFICES ASSUME NEW d \in S, ~\E i \in 1..K : full[i] = d
                 PROVE  \A i \in 1..K : V(full[i]) >= scores[d]
      OBVIOUS
    <2>1. n = K /\ \A i \in 1..n : scores[hits[i]] >= scores[d]
      BY <1>2, <1>4
    <2>2. QED BY <1>3, <1>4, <2>1
  <1>8. IsBest(full, scores, S, K)
    BY <1>4, <1>5, <1>6, <1>7 DEF IsBest, V
  <1>9. QED BY <1>8 DEF full

\* The scan starts with the best of nothing, and each page keeps it the best.
LEMMA ScanInvInit == HealthInit => ScanInv
  <1> SUFFICES ASSUME NEW scores \in Corpora, NEW size \in PageSizes, NEW k \in Cutoffs,
                      scan = ScanOf(scores, size, k)
               PROVE  ScanInv
    BY DEF HealthInit
  <1>1. /\ scan.scores = scores /\ scan.size = size /\ scan.k = k /\ scan.seen = 0
        /\ scan.best = [i \in 1..k + 1 |-> NoDocument]
        /\ scan = [scores |-> scores, size |-> size, k |-> k, seen |-> 0, best |-> scan.best]
    BY DEF ScanOf
  <1>2. k \in Nat /\ Len(scores) \in Nat
    BY ACorpus, HealthAssumption DEF IsCorpus
  <1>3. 1..scan.seen = {}
    BY <1>1
  <1>4. IsBest(scan.best, scores, {}, k + 1)
    <2>1. ScoreOf(scores, NoDocument) = 0
      BY DEF ScoreOf, NoScore
    <2>2. QED BY <1>1, <1>2, <2>1 DEF IsBest
  <1>5. QED BY <1>1, <1>2, <1>3, <1>4 DEF ScanInv

LEMMA ScanInvStep == ScanInv /\ [HealthNext]_healthVars => ScanInv'
  <1> SUFFICES ASSUME ScanInv, [HealthNext]_healthVars PROVE ScanInv'
    OBVIOUS
  <1>1. CASE UNCHANGED healthVars
    BY <1>1 DEF ScanInv, healthVars
  <1>2. CASE ScanPage
    <2> DEFINE scores == scan.scores
               size == scan.size
               N == Len(scores)
               K == scan.k + 1
               page == NextPage(N, scan.seen, size)
               read == scan.seen + Fewer(size, N - scan.seen)
    <2>0. PICK top \in TopOf(scores, page, K) :
             scan' = [scan EXCEPT !.seen = read, !.best = MergePage(scores, scan.best, top, K)]
      BY <1>2 DEF ScanPage
    <2>1. /\ scores \in Corpora /\ size \in PageSizes /\ scan.k \in Cutoffs /\ scan.seen \in 0..N
          /\ scan = [scores |-> scores, size |-> size, k |-> scan.k,
                     seen |-> scan.seen, best |-> scan.best]
          /\ IsBest(scan.best, scores, 1..scan.seen, K)
      BY DEF ScanInv
    <2>2. /\ scan'.scores = scores /\ scan'.size = size /\ scan'.k = scan.k /\ scan'.seen = read
          /\ scan'.best = MergePage(scores, scan.best, top, K)
          /\ scan' = [scores |-> scores, size |-> size, k |-> scan.k,
                      seen |-> scan'.seen, best |-> scan'.best]
      BY <2>0, <2>1
    <2>3. IsCorpus(scores) /\ N \in Nat /\ DOMAIN scores = 1..N /\ size \in Nat /\ K \in Nat
      BY <2>1, ACorpus, HealthAssumption DEF IsCorpus
    <2>4. scan.seen \in Nat /\ scan.seen <= N
      BY <2>1, <2>3
    <2> HIDE DEF scores, size, N, K
    <2>5. /\ read \in scan.seen..N /\ page = (scan.seen + 1)..read
      BY <2>3, <2>4 DEF Fewer, NextPage
    <2> HIDE DEF page, read
    <2>6. /\ 1..scan.seen \in SUBSET DOMAIN scores /\ page \in SUBSET DOMAIN scores
          /\ (1..scan.seen) \intersect page = {} /\ (1..scan.seen) \union page = 1..read
          /\ read \in 0..N
      BY <2>3, <2>4, <2>5
    <2>7. IsFiniteSet(page)
      <3>1. scan.seen + 1 \in Int /\ read \in Int
        BY <2>4, <2>5, <2>6, <2>3
      <3>2. QED BY <2>5, <3>1, FS_Interval
    <2>8. IsBest(scan'.best, scores, 1..read, K)
      BY <2>0, <2>1, <2>2, <2>3, <2>6, <2>7, MergeIsBest
    <2>9. QED BY <2>1, <2>2, <2>6, <2>8 DEF ScanInv, K, N, scores, size
  <1>3. QED BY <1>1, <1>2 DEF HealthNext

\* In every reachable state the running list is the best of what was seen.
THEOREM ScanAlways == HealthSpec => []ScanInv
  BY ScanInvInit, ScanInvStep, PTL DEF HealthSpec

\* Taking a document out of a list without doublets, and the first k of the rest,
\* leaves as many documents as places.
LEMMA TruthHasNoDoublets ==
  ASSUME NEW K \in Nat, NEW T, NEW list \in [1..K -> T], NEW probe, NEW k \in Nat,
         \A i, j \in 1..K : i # j => list[i] # list[j]
  PROVE  Cardinality(Range(Truth(list, probe, k))) = Len(Truth(list, probe, k))
  <1> DEFINE kept == {i \in DOMAIN list : list[i] # probe}
             places == InPlace(kept)
             n == Cardinality(kept)
             others == Others(list, probe)
             m == Fewer(n, k)
             truth == Truth(list, probe, k)
  <1>1. kept \in SUBSET (1..K)
    OBVIOUS
  <1>2. /\ n \in Nat /\ places \in [1..n -> kept]
        /\ \A i, j \in 1..n : i < j => places[i] < places[j]
    <2> HIDE DEF kept
    <2>1. QED BY ONLY <1>1, K \in Nat, InPlaceIs
  <1>3. others = [j \in DOMAIN places |-> list[places[j]]]
    BY DEF Others
  <1> HIDE DEF places, n, others
  <1>4. \A i \in 1..n : places[i] \in 1..K
    BY <1>1, <1>2
  <1> HIDE DEF kept
  <1>5. /\ others \in [1..n -> T]
        /\ \A i \in 1..n : others[i] = list[places[i]]
    BY <1>2, <1>3, <1>4
  <1>6. \A i, j \in 1..n : i # j => others[i] # others[j]
    <2> SUFFICES ASSUME NEW i \in 1..n, NEW j \in 1..n, i # j PROVE others[i] # others[j]
      OBVIOUS
    <2>1. places[i] # places[j]
      BY <1>2, <1>4
    <2>2. QED BY <1>4, <1>5, <2>1
  <1>7. Len(others) = n /\ others \in Seq(T)
    BY <1>2, <1>5
  <1>8. m \in Nat /\ m <= n
    BY <1>2 DEF Fewer
  <1>9. truth = SubSeq(others, 1, m)
    BY <1>7 DEF Truth, others, n
  <1> HIDE DEF m, truth
  <1>10. Len(truth) = m /\ DOMAIN truth = 1..m /\ \A i \in 1..m : truth[i] = others[i] /\ i \in 1..n
    BY <1>2, <1>7, <1>8, <1>9
  <1>11. truth \in Bijection(1..m, Range(truth))
    <2>1. \A i, j \in 1..m : truth[i] = truth[j] => i = j
      BY <1>6, <1>10
    <2>2. truth = [i \in 1..m |-> truth[i]]
      BY <1>7, <1>9, <1>10, <1>8
    <2>3. truth \in [1..m -> Range(truth)] /\ \A d \in Range(truth) : \E i \in 1..m : truth[i] = d
      BY <1>10, <2>2 DEF Range
    <2>4. QED BY <2>1, <2>3 DEF Bijection, Injection, Surjection, IsInjective
  <1>12. Cardinality(Range(truth)) = m
    BY <1>8, <1>11, FS_Interval, FS_Bijection DEF ExistsBijection
  <1>13. QED BY <1>10, <1>12 DEF truth

\* The exact side is exact: it has the scores of the best documents, no document
\* twice, and where no two scores are equal an index that misses nothing is measured
\* to miss nothing (_exact_neighbours, _merge, measure_index_health).
THEOREM HealthIsExactAlways == HealthSpec => []HealthIsExact
  <1>1. ScanInv => HealthIsExact
    <2> SUFFICES ASSUME ScanInv, Scanned,
                        NEW hits \in TopOf(scan.scores, DOMAIN scan.scores, scan.k + 1)
                 PROVE  /\ \A i \in 1..scan.k + 1 : ScoreAt(scan.best, i) = ScoreAt(hits, i)
                        /\ \A i, j \in 1..scan.k + 1 :
                              i # j /\ scan.best[i] # NoDocument => scan.best[i] # scan.best[j]
                        /\ Len(scan.scores) > scan.k
                           /\ Cardinality(Range(scan.scores)) = Len(scan.scores) =>
                              \A probe \in DOMAIN scan.scores :
                                 Overlap(scan.best, hits, probe, scan.k)
                                   = Len(Truth(scan.best, probe, scan.k))
      BY DEF HealthIsExact
    <2> DEFINE scores == scan.scores
               best == scan.best
               k == scan.k
               K == k + 1
               N == Len(scores)
               S == DOMAIN scores
               full == Filled(hits, K)
    <2>1. /\ IsCorpus(scores) /\ N \in Nat /\ S = 1..N /\ scores \in [1..N -> Nat \ {0}]
          /\ k \in Nat /\ K \in Nat
      BY ACorpus, HealthAssumption DEF ScanInv, IsCorpus
    <2>2. IsBest(best, scores, S, K)
      BY <2>1 DEF ScanInv, Scanned
    <2>3. S \in SUBSET DOMAIN scores /\ IsFiniteSet(S)
      BY <2>1, FS_Interval
    <2> HIDE DEF full
    <2>4. IsBest(full, scores, S, K)
      BY <2>1, <2>3, FilledIsBest DEF full
    <2>5. ASSUME NEW i \in 1..K PROVE ScoreOf(scores, best[i]) = ScoreOf(scores, full[i])
      <3>1. ScoreOf(scores, best[i]) <= ScoreOf(scores, full[i])
            /\ ScoreOf(scores, full[i]) <= ScoreOf(scores, best[i])
        BY <2>1, <2>2, <2>3, <2>4, NoneHasMore
      <3>2. best[i] \in S \union {NoDocument} /\ full[i] \in S \union {NoDocument}
        BY <2>2, <2>4 DEF IsBest
      <3>3. ScoreOf(scores, best[i]) \in Nat /\ ScoreOf(scores, full[i]) \in Nat
        BY <2>1, <3>2, ScoresAre
      <3>4. QED BY <3>1, <3>3
    <2>6. \A i \in 1..K : ScoreAt(best, i) = ScoreAt(hits, i)
      <3> SUFFICES ASSUME NEW i \in 1..K PROVE ScoreAt(best, i) = ScoreAt(hits, i)
        OBVIOUS
      <3>1. ScoreAt(best, i) = ScoreOf(scores, best[i])
        BY <2>2 DEF ScoreAt, IsBest
      <3>2. full[i] = IF i \in DOMAIN hits THEN hits[i] ELSE NoDocument
        BY DEF full, Filled
      <3>3. ScoreAt(hits, i) = ScoreOf(scores, full[i])
        BY <3>2 DEF ScoreAt, ScoreOf
      <3>4. QED BY <2>5, <3>1, <3>3
    <2>7. \A i, j \in 1..K : i # j /\ best[i] # NoDocument => best[i] # best[j]
      BY <2>2 DEF IsBest
    <2>8. ASSUME N > k, Cardinality(Range(scores)) = N, NEW probe \in S
          PROVE  Overlap(best, hits, probe, k) = Len(Truth(best, probe, k))
      <3> DEFINE truth == Truth(best, probe, k)
      <3>0. hits \in TopOf(scores, S, K) /\ K = k + 1
        OBVIOUS
      <3> HIDE DEF scores, best, k, K, N, S
      <3>1. \A d, e \in S : scores[d] = scores[e] => d = e
        <4>1. scores \in Surjection(1..N, Range(scores))
          BY <2>1 DEF Surjection, Range
        <4>2. IsFiniteSet(1..N) /\ Cardinality(1..N) = N
          BY <2>1, FS_Interval
        <4>3. scores \in Injection(1..N, Range(scores))
          BY <2>8, <4>1, <4>2, FS_Surjection
        <4>4. QED BY <2>1, <4>3 DEF Injection, IsInjective
      <3>2. hits \in [1..K -> S]
        <4>1. Cardinality(S) = N
          BY <2>1, FS_Interval
        <4>2. Fewer(K, N) = K
          <5>1. k \in Nat /\ N \in Nat /\ N > k /\ K = k + 1
            BY <2>1, <2>8, <3>0
          <5>2. QED BY ONLY <5>1 DEF Fewer
        <4>3. QED BY <3>0, <4>1, <4>2 DEF TopOf
      <3>3. \A i \in 1..K : best[i] = hits[i]
        <4> SUFFICES ASSUME NEW i \in 1..K PROVE best[i] = hits[i]
          OBVIOUS
        <4>1. full[i] = hits[i] /\ hits[i] \in S
          BY <3>2 DEF full, Filled
        <4>2. ScoreOf(scores, best[i]) = scores[hits[i]] /\ scores[hits[i]] > 0
          BY <2>1, <2>5, <4>1, ScoresAre
        <4>3. best[i] \in S \union {NoDocument}
          BY <2>2 DEF IsBest
        <4>4. best[i] \in S /\ ScoreOf(scores, best[i]) = scores[best[i]]
          BY <2>1, <4>2, <4>3, ScoresAre
        <4>5. QED BY <3>1, <4>1, <4>2, <4>4
      <3>4. best = hits /\ best \in [1..K -> S]
        <4>1. best \in [1..K -> S \union {NoDocument}]
          BY <2>2 DEF IsBest
        <4>2. best = [i \in 1..K |-> best[i]] /\ hits = [i \in 1..K |-> hits[i]]
          BY <3>2, <4>1
        <4>3. [i \in 1..K |-> best[i]] = [i \in 1..K |-> hits[i]]
          BY <3>3
        <4>4. best = hits
          BY <4>2, <4>3
        <4>5. QED BY <3>2, <4>4
      <3>5. \A i, j \in 1..K : i # j => best[i] # best[j]
        BY <2>1, <2>7, <3>4, ScoresAre
      <3>6. Overlap(best, hits, probe, k) = Cardinality(Range(truth))
        <4>1. Truth(hits, probe, k) = truth
          BY ONLY <3>4
        <4>2. Overlap(best, hits, probe, k) = Cardinality(Range(truth) \intersect Range(truth))
          BY ONLY <4>1 DEF Overlap
        <4>3. Range(truth) \intersect Range(truth) = Range(truth)
          OBVIOUS
        <4>4. QED BY ONLY <4>2, <4>3
      <3>7. Cardinality(Range(truth)) = Len(truth)
        <4>1. best \in [1..K -> S] /\ K \in Nat /\ k \in Nat
          BY <2>1, <3>4
        <4>2. QED BY ONLY <3>5, <4>1, TruthHasNoDoublets DEF truth
      <3>8. QED BY <3>6, <3>7
    <2>9. QED BY <2>6, <2>7, <2>8
  <1>2. QED BY <1>1, ScanAlways, PTL

=============================================================================
