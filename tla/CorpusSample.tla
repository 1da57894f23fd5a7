----------------------------- MODULE CorpusSample -----------------------------
(***************************************************************************)
(* probe/session.py, _draw: the sample a probe measures.  The collection   *)
(* is streamed once for vectors, into a reservoir; a sample is drawn from  *)
(* the reservoir; the texts of that sample are read in a second pass, in   *)
(* the order the backend chooses; records without text are dropped, and    *)
(* the rest is split into queries and fit.  An application edits the       *)
(* collection meanwhile.                                                   *)
(*                                                                         *)
(* A vector is [of, version]: the record it is of, and the edit it is      *)
(* from.  A text is the set of one such record, or empty.  A cluster label *)
(* is a function of a vector, and the vector stands for it.                *)
(***************************************************************************)
EXTENDS Integers, Sequences, FiniteSets, SequencesExt, Ranking

CONSTANTS
    Sources,         \* records of the collection
    PoolMax,         \* CLUSTER_POOL_MAX
    SampleSize, Heldout, MinSample,
    MaxEdits         \* bound

ASSUME SampleAssumption ==
    /\ IsFiniteSet(Sources)
    /\ PoolMax \in Nat \ {0} /\ SampleSize \in Nat \ {0} /\ Heldout \in Nat
    /\ MinSample \in Nat \ {0} /\ MaxEdits \in Nat

VARIABLES
    present,   \* records in the collection
    edition,   \* record -> how often it was edited
    wordless,  \* records whose text is blank
    sampling   \* the probe: where it is and what it holds

sampleVars == <<present, edition, wordless, sampling>>

Blank == {}
NotBegun == [at |-> "idle", capacity |-> 0, unread |-> {}, ids |-> <<>>, vectors |-> <<>>,
             labels |-> <<>>, arrived |-> <<>>, texts |-> <<>>, queries |-> {}, fit |-> {}]

SampleInit ==
    /\ present = Sources /\ edition = [d \in Sources |-> 0]
    /\ wordless \in SUBSET Sources /\ sampling = NotBegun

Current(d) == [of |-> d, version |-> edition[d]]
Probing(step) == sampling.at = step
Smaller(a, b) == IF a < b THEN a ELSE b

----------------------------------------------------------------------------
(* The first pass *)

CountRecords ==
    LET total == Cardinality(present)
    IN  /\ Probing("idle")
        /\ sampling' = [sampling EXCEPT !.at = "streaming", !.unread = Sources,
                          !.capacity = IF total > 0 THEN Smaller(total, PoolMax) ELSE PoolMax]
        /\ UNCHANGED <<present, edition, wordless>>

\* _reservoir: the first records fill it; a later one replaces any of them, or none.
ReadVector(d) ==
    /\ Probing("streaming") /\ d \in sampling.unread \intersect present
    /\ LET rest == [sampling EXCEPT !.unread = @ \ {d}]
       IN  IF Len(sampling.ids) < sampling.capacity
           THEN sampling' = [rest EXCEPT !.ids = Append(@, d), !.vectors = Append(@, Current(d))]
           ELSE \/ sampling' = rest
                \/ \E slot \in DOMAIN sampling.ids :
                     sampling' = [rest EXCEPT !.ids[slot] = d, !.vectors[slot] = Current(d)]
    /\ UNCHANGED <<present, edition, wordless>>

Gather(s, positions) == [i \in DOMAIN positions |-> s[positions[i]]]

\* draw_sample: distinct positions of the pool in order, of every strategy.
DrawPositions(stratified) ==
    /\ Probing("streaming") /\ sampling.unread \intersect present = {}
    /\ IF Len(sampling.ids) < MinSample
       THEN sampling' = [NotBegun EXCEPT !.at = "raised"]
       ELSE \E S \in SUBSET DOMAIN sampling.ids :
              LET positions == InPlace(S)
              IN  /\ Cardinality(S) = Smaller(SampleSize, Len(sampling.ids))
                  /\ sampling' = [sampling EXCEPT !.at = "texts",
                         !.ids = Gather(@, positions), !.vectors = Gather(@, positions),
                         !.labels = IF stratified THEN Gather(sampling.vectors, positions) ELSE <<>>]
    /\ UNCHANGED <<present, edition, wordless>>

----------------------------------------------------------------------------
(* The second pass *)

TextOf(d) == IF d \in wordless THEN Blank ELSE {Current(d)}

ReadText(d) ==
    /\ Probing("texts") /\ d \in Range(sampling.ids) \intersect present
    /\ \A i \in DOMAIN sampling.arrived : sampling.arrived[i].id # d
    /\ sampling' = [sampling EXCEPT !.arrived = Append(@, [id |-> d, text |-> TextOf(d)])]
    /\ UNCHANGED <<present, edition, wordless>>

AllArrived == \A d \in Range(sampling.ids) \intersect present :
                 \E i \in DOMAIN sampling.arrived : sampling.arrived[i].id = d

\* _fetch_texts: by id, and blank for a record that is gone.
ZippedTexts(ids, arrived) ==
    [i \in DOMAIN ids |-> IF i \in DOMAIN arrived THEN arrived[i].text ELSE Blank]
TextsById(ids, arrived) ==
    [i \in DOMAIN ids |->
        IF \E j \in DOMAIN arrived : arrived[j].id = ids[i]
        THEN arrived[CHOOSE j \in DOMAIN arrived : arrived[j].id = ids[i]].text ELSE Blank]

FetchTexts ==
    /\ Probing("texts") /\ AllArrived
    /\ sampling' = [sampling EXCEPT !.at = "dropping", !.arrived = <<>>,
                      !.texts = TextsById(sampling.ids, sampling.arrived)]
    /\ UNCHANGED <<present, edition, wordless>>

\* _drop_empty_texts: from the ids, the texts, the vectors and the labels alike.
DropEmptyTexts ==
    LET keep == InPlace({i \in DOMAIN sampling.ids : sampling.texts[i] # Blank})
    IN  /\ Probing("dropping")
        /\ sampling' = IF keep = <<>> THEN [NotBegun EXCEPT !.at = "raised"]
             ELSE [sampling EXCEPT !.at = "splitting", !.ids = Gather(@, keep),
                     !.texts = Gather(@, keep), !.vectors = Gather(@, keep),
                     !.labels = IF @ = <<>> THEN @ ELSE Gather(@, keep)]
        /\ UNCHANGED <<present, edition, wordless>>

\* split_disjoint, over the positions that are left.
QuerySize(n) == Smaller(Heldout, IF n \div 2 < 1 THEN 1 ELSE n \div 2)
SplitDisjoint ==
    LET all == DOMAIN sampling.ids
    IN  /\ Probing("splitting")
        /\ \E Q \in SUBSET all :
             /\ Cardinality(Q) = QuerySize(Cardinality(all))
             /\ sampling' = IF Cardinality(all \ Q) < MinSample
                            THEN [NotBegun EXCEPT !.at = "raised"]
                            ELSE [sampling EXCEPT !.at = "drawn", !.queries = Q, !.fit = all \ Q]
        /\ UNCHANGED <<present, edition, wordless>>

----------------------------------------------------------------------------
(* The application *)

Edits == FoldFunction(LAMBDA n, sum : n + sum, 0, edition) + Cardinality(Sources \ present)

EditRecord(d) ==
    /\ d \in present /\ Edits < MaxEdits
    /\ edition' = [edition EXCEPT ![d] = @ + 1]
    /\ wordless' \in {wordless \union {d}, wordless \ {d}}
    /\ UNCHANGED <<present, sampling>>

DeleteRecord(d) ==
    /\ d \in present /\ Edits < MaxEdits
    /\ present' = present \ {d}
    /\ UNCHANGED <<edition, wordless, sampling>>

SampleNext ==
    \/ CountRecords \/ FetchTexts \/ DropEmptyTexts \/ SplitDisjoint
    \/ \E stratified \in BOOLEAN : DrawPositions(stratified)
    \/ \E d \in Sources : ReadVector(d) \/ ReadText(d) \/ EditRecord(d) \/ DeleteRecord(d)

SampleSpec == SampleInit /\ [][SampleNext]_sampleVars

----------------------------------------------------------------------------
(* Properties *)

\* In whatever order the backend returned vectors and texts, and whatever was
\* edited, deleted or blank on the way, each record of a sample stands beside its
\* own vector, text and cluster, and no query is among the records that are fitted.
SampleIsAligned == Probing("drawn") =>
    /\ \A i \in DOMAIN sampling.ids :
          /\ sampling.vectors[i].of = sampling.ids[i]
          /\ {text.of : text \in sampling.texts[i]} = {sampling.ids[i]}
          /\ sampling.labels # <<>> => sampling.labels[i] = sampling.vectors[i]
    /\ sampling.queries \intersect sampling.fit = {}
    /\ Cardinality(sampling.fit) >= MinSample

=============================================================================
