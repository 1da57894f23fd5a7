----------------------------- MODULE MixedSearch -----------------------------
(***************************************************************************)
(* serve/mixed.py: a search of an index of which a migration has rewritten *)
(* a part, while the migration, or its rollback, goes on.  One query is    *)
(* four steps: a reading of the progress, a search in the new space, a     *)
(* search in the old one, and a look at the queue for which of the records *)
(* found have moved.                                                       *)
(*                                                                         *)
(* Documents are numbered from the least to the most relevant, so that the *)
(* order of their ids, which breaks the last ties, is not the right one.   *)
(* A search ranks those whose vectors are in the space of the query by     *)
(* relevance; the others, scored across spaces, fall anywhere.             *)
(***************************************************************************)
EXTENDS HybridMerge, Ranking

CONSTANTS
    Indexed,        \* documents in the index
    K,              \* results asked for
    MAX_OVER_FETCH,
    Calibrators,    \* what the bridge may bring: NoCalibrator, or an isotonic function
    MaxQueries      \* bound

\* A search gives the i-th of its results the score Indexed - i.
StoreScores == 0..Indexed - 1

ASSUME MixedAssumption ==
    /\ Indexed \in Nat \ {0} /\ K \in Nat \ {0}
    /\ MAX_OVER_FETCH \in Nat \ {0} /\ MaxQueries \in Nat

ASSUME CalibratorAssumption ==
    \A c \in Calibrators \ {NoCalibrator} :
        /\ c \in [StoreScores -> Int]
        /\ \A s, t \in StoreScores : s <= t => c[s] <= c[t]

VARIABLES
    space,       \* the space each stored vector is in
    state,       \* the state of each item in the job's queue
    undoing,     \* a rollback has begun
    reading,     \* the cached progress, in documents done
    query,       \* the query in progress
    answer,      \* the last answer
    touched      \* ghost: documents that were between a write and its mark, at
                 \* some moment of the current or last query

mixedVars == <<space, state, undoing, reading, query, answer, touched>>

Documents == 1..Indexed
Marked == {d \in Documents : state[d] = "done"}
Rewritten == {d \in Documents : space[d] = "new"}
InFlight == (Rewritten \ Marked) \union (Marked \ Rewritten)
Touch == touched' = IF query.at \in {"closed", "idle"} THEN touched
                    ELSE touched \union ((Rewritten' \ Marked') \union (Marked' \ Rewritten'))

NoQuery == [at |-> "idle", asked |-> 0, migrated |-> <<>>, bridged |-> <<>>, foreign |-> {}]
NoAnswer == [hits |-> <<>>, foreign |-> {}, reading |-> 0, done |-> 0]

MixedInit ==
    /\ space = [d \in Documents |-> "old"] /\ state = [d \in Documents |-> "pending"]
    /\ undoing = FALSE /\ reading = 0
    /\ query = [NoQuery EXCEPT !.at = "closed"] /\ answer = NoAnswer /\ touched = {}

----------------------------------------------------------------------------
(* The migration and its rollback, a document at a time. *)

Write(d) ==
    /\ ~undoing /\ state[d] = "pending" /\ space[d] = "old"
    /\ space' = [space EXCEPT ![d] = "new"]
    /\ UNCHANGED <<state, undoing, reading, query, answer>> /\ Touch

MarkDone(d) ==
    /\ ~undoing /\ state[d] = "pending" /\ space[d] = "new"
    /\ state' = [state EXCEPT ![d] = "done"]
    /\ UNCHANGED <<space, undoing, reading, query, answer>> /\ Touch

BeginRollback ==
    /\ ~undoing /\ undoing' = TRUE
    /\ UNCHANGED <<space, state, reading, query, answer, touched>>

RestoreOne(d) ==
    /\ undoing /\ space[d] = "new"
    /\ space' = [space EXCEPT ![d] = "old"]
    /\ UNCHANGED <<state, undoing, reading, query, answer>> /\ Touch

Requeue(d) ==
    /\ undoing /\ space[d] = "old" /\ state[d] = "done"
    /\ state' = [state EXCEPT ![d] = "pending"]
    /\ UNCHANGED <<space, undoing, reading, query, answer>> /\ Touch

----------------------------------------------------------------------------
(* MixedSpaceSearch.search *)

Shallow(n) == K
\* _depth, for a share of n documents out of all of them.
Depth(n) ==
    LET wanted == (K * Indexed) \div n + 1
    IN  IF n = 0 THEN K
        ELSE IF wanted < K * MAX_OVER_FETCH THEN wanted ELSE K * MAX_OVER_FETCH

Rankings == {p \in [Documents -> Documents] :
               \A i, j \in Documents : i # j => p[i] # p[j]}
RankingsIn(s) == {p \in Rankings : \A i, j \in Documents :
                    i < j /\ space[p[i]] = s /\ space[p[j]] = s => p[i] > p[j]}

Found(ranking, depth) ==
    Take([i \in Documents |-> [id |-> ranking[i], score |-> Indexed - i, rank |-> i - 1]], depth)

\* One side is left out when no document is expected on it.
Results(s, share) ==
    IF share = 0 THEN {<<>>} ELSE {Found(p, Depth(share)) : p \in RankingsIn(s)}
Foreign(hits, s) == {d \in Documents \intersect Ids(hits) : space[d] # s}

\* __init__ takes a reading, at any moment of the migration.
Install ==
    /\ query.at = "closed"
    /\ query' = NoQuery /\ reading' = Cardinality(Marked)
    /\ UNCHANGED <<space, state, undoing, answer, touched>>

\* _cached_progress: the reading kept from before, or a new one.
ReadProgress(asked) ==
    /\ query.at = "idle" /\ query.asked < asked
    /\ reading' \in {reading, Cardinality(Marked)}
    /\ query' = [NoQuery EXCEPT !.at = "new", !.asked = query.asked + 1]
    /\ answer' = NoAnswer /\ touched' = InFlight
    /\ UNCHANGED <<space, state, undoing>>

SearchNew ==
    /\ query.at = "new"
    /\ \E hits \in Results("new", reading) :
          query' = [query EXCEPT !.at = "old", !.migrated = hits,
                                 !.foreign = {<<"new", d>> : d \in Foreign(hits, "new")}]
    /\ UNCHANGED <<space, state, undoing, reading, answer, touched>>

SearchOld ==
    /\ query.at = "old"
    /\ \E hits \in Results("old", Indexed - reading) :
          query' = [query EXCEPT !.at = "lookup", !.bridged = hits,
                                 !.foreign = @ \union {<<"old", d>> : d \in Foreign(hits, "old")}]
    /\ UNCHANGED <<space, state, undoing, reading, answer, touched>>

\* _renumber: what is left of a side is ranked from zero again.
Renumber(hits) == [i \in DOMAIN hits |-> [hits[i] EXCEPT !.rank = i - 1]]
Those(hits, kept) ==
    LET places == InPlace({i \in DOMAIN hits : hits[i].id \in kept})
    IN  Renumber([j \in DOMAIN places |-> hits[places[j]]])

\* Which of its results each side keeps.
Unfiltered(hits, marked) == Ids(hits)
Unmoved(hits, marked) == Ids(hits) \ marked
NewSide(hits, marked) == Ids(hits) \intersect marked
OldSide(hits, marked) == Ids(hits) \ marked

\* The bridge of the search object brings one of the calibrators, any of them.
LookUpAndMerge ==
    /\ query.at = "lookup"
    /\ \E calibrator \in Calibrators :
       LET new == NewSide(query.migrated, Marked)
           old == OldSide(query.bridged, Marked)
           merged == CalibratedMerge(Those(query.bridged, old), Those(query.migrated, new),
                                     K, calibrator)
       IN  answer' = [hits |-> IdsInOrder(merged), reading |-> reading,
                      foreign |-> {d \in new : <<"new", d>> \in query.foreign}
                          \union {d \in old : <<"old", d>> \in query.foreign},
                      done |-> Cardinality(Marked)]
    /\ query' = [NoQuery EXCEPT !.asked = query.asked]
    /\ UNCHANGED <<space, state, undoing, reading, touched>>

MixedNext ==
    \/ \E d \in Documents : Write(d) \/ MarkDone(d) \/ RestoreOne(d) \/ Requeue(d)
    \/ BeginRollback
    \/ Install \/ ReadProgress(MaxQueries) \/ SearchNew \/ SearchOld \/ LookUpAndMerge

MixedSpec == MixedInit /\ [][MixedNext]_mixedVars

----------------------------------------------------------------------------
(* Properties *)

QueryAnswered == query.at = "idle" /\ query.asked > 0

\* However the migration, its rollback or a kill fall between the steps of a
\* query, a document it did not touch is merged with the score it has in the
\* space its vector is in.
SettledHitsAreInTheirSpace == QueryAnswered => answer.foreign \subseteq touched

MostRelevantFirst == [i \in Documents |-> Indexed + 1 - i]

\* A query that nothing moved under, made on a fresh reading at either end of
\* the migration, is answered as the store alone would answer it, by rank and by
\* calibrated score, however few levels the calibrator maps the scores to
\* (hybrid.py:135-147).
EndsGiveTheStoresAnswer ==
    QueryAnswered /\ touched = {} /\ answer.reading = answer.done /\ answer.done \in {0, Indexed}
        => answer.hits = Take(MostRelevantFirst, K)

\* A query that nothing moved under, on a fresh reading, misses no result when
\* neither half holds more documents than it asks for: what the over-fetching
\* is there to ensure.
RestingAnswerIsFull ==
    /\ QueryAnswered /\ touched = {} /\ answer.reading = answer.done
    /\ answer.done <= K /\ Indexed - answer.done <= K /\ Indexed <= K * MAX_OVER_FETCH
    => Len(answer.hits) = (IF K < Indexed THEN K ELSE Indexed)

=============================================================================
