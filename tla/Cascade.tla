------------------------------- MODULE Cascade -------------------------------
(***************************************************************************)
(* serve/cascade.py: the bridge recalls candidates, the new model ranks    *)
(* them.  Threads share one in-memory cache of re-embedded documents.  A   *)
(* query takes what the cache holds, embeds the rest of the candidates     *)
(* from their text, stores them, and places the candidates.                *)
(*                                                                         *)
(* A document is a model value; the new model's opinion of it is its       *)
(* place in the constant Relevance.  A document may have no text, then or  *)
(* later, and cannot be embedded.                                          *)
(***************************************************************************)
EXTENDS Integers, Sequences, FiniteSets, SequencesExt, Ranking

CONSTANTS
    Threads, Docs,
    Relevance,       \* Docs -> Nat, no two alike
    Candidates,      \* depth of the candidate set
    CascadeK,        \* results asked for
    Capacity,        \* vectors the cache holds
    MaxSearches      \* bound

ASSUME CascadeAssumption ==
    /\ IsFiniteSet(Docs)
    /\ Relevance \in [Docs -> Nat] /\ \A d, e \in Docs : d # e => Relevance[d] # Relevance[e]
    /\ Candidates \in Nat \ {0} /\ CascadeK \in Nat \ {0}
    /\ Capacity \in Nat \ {0} /\ MaxSearches \in Nat

VARIABLES
    entries,     \* MemoryVectorCache._entries, the least recently used first
    withText,    \* documents with text in the store
    thread,      \* thread -> the query it is in
    searches     \* ghost: for the bound

cascadeVars == <<entries, withText, thread, searches>>

Waiting == [at |-> "idle", found |-> <<>>, known |-> {}, fresh |-> <<>>, hits |-> <<>>]

CascadeInit ==
    /\ entries = <<>> /\ withText \in SUBSET Docs
    /\ thread = [t \in Threads |-> Waiting] /\ searches = 0

----------------------------------------------------------------------------
(* MemoryVectorCache *)

Touched(es, d) == Append(SelectSeq(es, LAMBDA e : e # d), d)

\* get: what it holds of some keys, each made the most recent.
Refreshed(es, ds) == FoldLeft(LAMBDA es2, d : IF d \in Range(es) THEN Touched(es2, d) ELSE es2,
                              es, ds)

\* put: everything in, then the oldest out until the rest fits.
PutAll(es, ds) == FoldLeft(Touched, es, ds)
Put(es, ds) ==
    LET full == PutAll(es, ds)
    IN  IF Len(full) <= Capacity THEN full
        ELSE SubSeq(full, Len(full) - Capacity + 1, Len(full))

----------------------------------------------------------------------------
(* Cascade.search *)

CandidateDepth(k) == IF k > Candidates THEN k ELSE Candidates
Lists == UNION {{s \in [1..n -> Docs] : \A i, j \in 1..n : i # j => s[i] # s[j]}
                  : n \in 0..Cardinality(Docs)}

\* The bridge's candidates, in its order: any documents, as many as it may give.
Search(t) ==
    /\ thread[t].at \in {"idle", "answered"} /\ searches < MaxSearches
    /\ searches' = searches + 1
    /\ \E found \in Lists :
         /\ Len(found) <= CandidateDepth(CascadeK)
         /\ thread' = [thread EXCEPT ![t] = [Waiting EXCEPT !.at = "found", !.found = found]]
    /\ UNCHANGED <<entries, withText>>

TakeKnown(t) ==
    /\ thread[t].at = "found"
    /\ entries' = Refreshed(entries, thread[t].found)
    /\ thread' = [thread EXCEPT ![t].at = "known",
                                ![t].known = Range(thread[t].found) \intersect Range(entries)]
    /\ UNCHANGED <<withText, searches>>

\* _embed: the misses that have text are encoded in the order of the candidates.
Embed(t) ==
    /\ thread[t].at = "known"
    /\ LET Missed(d) == d \notin thread[t].known /\ d \in withText
       IN  thread' = [thread EXCEPT ![t].at = "embedded",
                                    ![t].fresh = SelectSeq(thread[t].found, Missed)]
    /\ UNCHANGED <<entries, withText, searches>>

\* The documents the new model scored, the best first.
WorstFirst(S) == Enumerated(S, [d \in S |-> -Relevance[d]])
ByRelevance(S) == Enumerated(S, Relevance)

\* A candidate without a vector keeps its position, and the others flow around.
Flowed(found, scored, k) ==
    LET order == ByRelevance(Range(found) \intersect scored)
    IN  SubSeq(order \o SelectSeq(found, LAMBDA d : d \notin scored), 1,
               IF Len(found) < k THEN Len(found) ELSE k)
Placed(found, scored, k) ==
    LET order == ByRelevance(Range(found) \intersect scored)
        places == {i \in DOMAIN found : found[i] \in scored}
        Nth(i) == 1 + Ahead(places, [j \in places |-> j], i)
    IN  [i \in 1..(IF Len(found) < k THEN Len(found) ELSE k) |->
            IF i \in places THEN order[Nth(i)] ELSE found[i]]

StoreAndPlace(t) ==
    LET q == thread[t]
    IN  /\ q.at = "embedded"
        /\ entries' = IF q.fresh = <<>> THEN entries ELSE Put(entries, q.fresh)
        /\ thread' = [thread EXCEPT ![t].at = "answered",
                        ![t].hits = Placed(q.found, q.known \union Range(q.fresh), CascadeK)]
        /\ UNCHANGED <<withText, searches>>

\* The application removes a document, or its text.
RemoveText(d) ==
    /\ d \in withText /\ withText' = withText \ {d}
    /\ UNCHANGED <<entries, thread, searches>>

CascadeNext ==
    \/ \E t \in Threads : Search(t) \/ TakeKnown(t) \/ Embed(t) \/ StoreAndPlace(t)
    \/ \E d \in Docs : RemoveText(d)

CascadeSpec == CascadeInit /\ [][CascadeNext]_cascadeVars

----------------------------------------------------------------------------
(* Properties *)

\* An answer is as long as asked for or as the candidates allow, no document is
\* lost or repeated for want of a text, and one without a vector has the rank
\* the bridge gave it.
NothingIsStranded ==
    \A t \in Threads : thread[t].at = "answered" =>
        LET q == thread[t]
            scored == q.known \union Range(q.fresh)
            size == IF Len(q.found) < CascadeK THEN Len(q.found) ELSE CascadeK
        IN  /\ Len(q.hits) = size /\ Cardinality(Range(q.hits)) = size
            /\ \A i \in 1..size : q.found[i] \notin scored => q.hits[i] = q.found[i]

\* Of the candidates it has vectors for, the answer holds the best, in the new
\* model's order: no thread's eviction takes from a query what it had found.
BestAreKept ==
    \A t \in Threads : thread[t].at = "answered" =>
        LET q == thread[t]
            scored == Range(q.found) \intersect (q.known \union Range(q.fresh))
            kept == {i \in DOMAIN q.hits : q.hits[i] \in scored}
        IN  /\ \A i, j \in kept : i < j => Relevance[q.hits[i]] < Relevance[q.hits[j]]
            /\ \A d \in scored : d \in Range(q.hits)
                   \/ \A i \in kept : Relevance[q.hits[i]] < Relevance[d]

=============================================================================
