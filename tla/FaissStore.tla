----------------------------- MODULE FaissStore -----------------------------
(***************************************************************************)
(* store/backends/faiss.py: an index with an id map, whose rows move when  *)
(* vectors are replaced, and a sidecar file that names the record of each  *)
(* row.  A replacement is made in memory, the index file is written over   *)
(* in place, and the sidecar is replaced atomically.                       *)
(*                                                                         *)
(* A row is [label, of] with the record whose vector it holds; the         *)
(* records' labels are their numbers.                                      *)
(***************************************************************************)
EXTENDS Integers, Sequences, FiniteSets, SequencesExt, Ranking

CONSTANTS
    Vectors,              \* vectors in the index
    MaxUpserts, MaxStoreKills  \* bounds

ASSUME FaissAssumption ==
    Vectors \in Nat \ {0} /\ MaxUpserts \in Nat /\ MaxStoreKills \in Nat

VARIABLES
    index,       \* the index in memory, row by row
    labels, ids, \* the handle's view: the label and the record of each row
    indexFile,   \* [whole, rows]
    sidecar,     \* the record of each row
    upsert,      \* the step of upsert_vectors, and the records it is for
    upserts, storeKills,  \* ghost: for the bounds
    halfSaved    \* ghost: the process ended inside a save

faissVars == <<index, labels, ids, indexFile, sidecar, upsert, upserts, storeKills, halfSaved>>

RowNumbers == 1..Vectors
AsBuilt == [k \in RowNumbers |-> [label |-> k, of |-> k]]
LabelsOf(rws) == [k \in DOMAIN rws |-> rws[k].label]
NoUpsert == [at |-> "idle", batch |-> <<>>]

FaissInit ==
    /\ index = AsBuilt /\ indexFile = [whole |-> TRUE, rows |-> AsBuilt]
    /\ labels = LabelsOf(AsBuilt) /\ ids = LabelsOf(AsBuilt) /\ sidecar = LabelsOf(AsBuilt)
    /\ upsert = NoUpsert /\ upserts = 0 /\ storeKills = 0 /\ halfSaved = FALSE

Row(id) == CHOOSE k \in DOMAIN ids : ids[k] = id
\* iter_records: by the row of the id, then by the label of the row.
Reading(id) ==
    LET label == labels[Row(id)]
        k == CHOOSE j \in DOMAIN index : index[j].label = label
    IN  index[k].of

----------------------------------------------------------------------------
(* upsert_vectors *)

Batches == {s \in UNION {[1..n -> RowNumbers] : n \in 1..2} :
              \A i, j \in DOMAIN s : i # j => s[i] # s[j]}

StartUpsert(batch) ==
    /\ upsert.at = "idle" /\ upserts < MaxUpserts
    /\ Range(batch) \subseteq Range(ids)
    /\ upserts' = upserts + 1
    /\ upsert' = [at |-> "replacing", batch |-> batch]
    /\ UNCHANGED <<index, labels, ids, indexFile, sidecar, storeKills, halfSaved>>

\* remove_ids closes the gaps, add_with_ids appends: the rows end up at the end.
Without(rws, gone) ==
    LET kept == {k \in DOMAIN rws : rws[k].label \notin gone}
        order == Enumerated(kept, [k \in kept |-> k])
    IN  [i \in DOMAIN order |-> rws[order[i]]]
Added(batch) == [i \in DOMAIN batch |-> [label |-> labels[Row(batch[i])], of |-> batch[i]]]
ReplaceRows ==
    /\ upsert.at = "replacing"
    /\ LET added == Added(upsert.batch)
       IN  index' = Without(index, Range(LabelsOf(added))) \o added
    /\ upsert' = [upsert EXCEPT !.at = "resync"]
    /\ UNCHANGED <<labels, ids, indexFile, sidecar, upserts, storeKills, halfSaved>>

\* _resync: the ids follow their labels into the new rows.
IdsUnmoved == ids
IdsOfRows ==
    [k \in DOMAIN index |->
        ids[CHOOSE j \in DOMAIN labels : labels[j] = index[k].label]]
Resync ==
    /\ upsert.at = "resync"
    /\ labels' = LabelsOf(index) /\ ids' = IdsOfRows
    /\ upsert' = [upsert EXCEPT !.at = "truncate"]
    /\ UNCHANGED <<index, indexFile, sidecar, upserts, storeKills, halfSaved>>

\* faiss.write_index opens the file for writing, then fills it, or does not.
TruncateIndex ==
    /\ upsert.at = "truncate"
    /\ indexFile' = [indexFile EXCEPT !.whole = FALSE]
    /\ upsert' = [upsert EXCEPT !.at = "fill"]
    /\ UNCHANGED <<index, labels, ids, sidecar, upserts, storeKills, halfSaved>>

FillIndex ==
    /\ upsert.at = "fill"
    /\ \/ indexFile' = [whole |-> TRUE, rows |-> index]
          /\ upsert' = [upsert EXCEPT !.at = "sidecar"]
       \/ upsert' = NoUpsert /\ UNCHANGED indexFile
    /\ UNCHANGED <<index, labels, ids, sidecar, upserts, storeKills, halfSaved>>

\* _write_sidecar, which may fail as well; the batch is then reported refused.
WriteSidecar ==
    /\ upsert.at = "sidecar"
    /\ \/ sidecar' = ids
       \/ UNCHANGED sidecar
    /\ upsert' = NoUpsert
    /\ UNCHANGED <<index, labels, ids, indexFile, upserts, storeKills, halfSaved>>

\* The process is killed, or ends after a failed save, and another one opens what
\* the files hold: __init__ and _read_sidecar, which compares lengths only.
Saved == indexFile.whole /\ indexFile.rows = index /\ sidecar = ids
Reopened ==
    /\ indexFile.whole /\ storeKills < MaxStoreKills
    /\ storeKills' = storeKills + 1
    /\ halfSaved' = (halfSaved \/ ~Saved)
    /\ index' = indexFile.rows /\ labels' = LabelsOf(indexFile.rows)
    /\ ids' = IF Len(sidecar) = Len(indexFile.rows) THEN sidecar ELSE LabelsOf(indexFile.rows)
    /\ upsert' = NoUpsert
    /\ UNCHANGED <<indexFile, sidecar, upserts>>

FaissNext ==
    \/ \E batch \in Batches : StartUpsert(batch)
    \/ ReplaceRows \/ Resync \/ TruncateIndex \/ FillIndex \/ WriteSidecar \/ Reopened

FaissSpec == FaissInit /\ [][FaissNext]_faissVars

----------------------------------------------------------------------------
(* Properties *)

EachRecordIsItself == upsert.at \notin {"replacing", "resync"} =>
    /\ Range(ids) = RowNumbers /\ Len(ids) = Vectors
    /\ \A id \in RowNumbers : Reading(id) = id

\* Whatever batches were replaced before, in whatever order, and whatever writes
\* failed on the way, every record reads as its own vector, also in a process
\* that opens the files of one that did not end inside a save.
RecordsKeepTheirVectors == ~halfSaved => EachRecordIsItself

\* store/backends/faiss.py:499-501: a sidecar that does not match the index is
\* ignored rather than trusted, since pairing a record with another's vector is
\* worse than not knowing its name.
SidecarIsNotMisread == EachRecordIsItself

=============================================================================
