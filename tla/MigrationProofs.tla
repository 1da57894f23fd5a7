--------------------------- MODULE MigrationProofs ---------------------------
(***************************************************************************)
(* Proofs about Migration for every number of records, every batch size    *)
(* and any number of faults: type correctness, and that an original vector *)
(* is in the shadow copy whenever its record no longer holds it.           *)
(***************************************************************************)
EXTENDS MigrationProperties, SequenceTheorems, WellFoundedInduction, TLAPS

-----------------------------------------------------------------------------
(* Vectors, listings and slices *)

\* An adapter's image of a vector is a vector, and never an original: the model
\* tells at least one application apart from none.
LEMMA MappedType ==
    ASSUME NEW v \in Vectors
    PROVE  Mapped(v) \in Vectors
BY SizeAssumption DEF Mapped, Vectors

\* An index starts with one vector of its own for every record.
LEMMA OriginalType == \A r \in Records : Original(r) \in Vectors
BY SizeAssumption DEF Original, Vectors

\* What next_batch and the store list is a sequence of records.
LEMMA ListingType == \A s \in Listings : s \in Seq(Records)
BY SizeAssumption DEF Listings

\* The entry a rollback keeps for a record is one of the record's entries.
LEMMA LatestIsOne ==
    ASSUME NEW n \in Nat, NEW S \in SUBSET (1..n), S # {}
    PROVE  Latest(S) \in S
<1> DEFINE T == {n - i : i \in S}
<1>1. T \in SUBSET Nat
  <2>1. \A i \in S : n - i \in Nat
    OBVIOUS
  <2> QED
    BY <2>1
<1>2. T # {}
  OBVIOUS
<1> HIDE DEF T
<1>3. \E x \in T : \A y \in T : ~ (<<y, x>> \in OpToRel(<, Nat))
  BY <1>1, <1>2, NatLessThanWellFounded, WFMin, Zenon
<1>4. PICK x \in T : \A y \in T : ~ (<<y, x>> \in OpToRel(<, Nat))
  BY <1>3, Zenon
<1>5. \A y \in T : ~ (y < x)
  BY <1>1, <1>4 DEF OpToRel
<1>6. PICK i \in S : x = n - i
  BY DEF T
<1>7. \A j \in S : j <= i
  <2>1. \A j \in S : ~ (n - j < n - i)
    BY <1>5, <1>6 DEF T
  <2> QED
    BY <2>1
<1> QED
  BY <1>7 DEF Latest

-----------------------------------------------------------------------------
(* Sequence shorthands for the steps that build one *)

\* What the store holds stays typed when mapped vectors of read records land.
LEMMA LandType ==
    ASSUME TypeOK, NEW S, Land(S),
           \A r \in S \cap Records : snapshot[r] \in Vectors
    PROVE  store' \in [Records -> Vectors \cup {NoVector}]
<1>1. \A r \in Records : store'[r] \in Vectors \cup {NoVector}
  BY MappedType DEF TypeOK, Land
<1> QED
  BY <1>1 DEF Land

\* ... and when a slice of the shadow copy is written back.
LEMMA RestoreType ==
    ASSUME TypeOK, VectorsBeforeManifest, NEW last, Restore(last)
    PROVE  store' \in [Records -> Vectors \cup {NoVector}]
<1>1. ASSUME NEW r \in Records, Hits(r, last) # {}
      PROVE  shadowVectors[Latest(Hits(r, last))] \in Vectors
  <2>1. Hits(r, last) \in SUBSET (1..shadowCount)
    BY SizeAssumption DEF TypeOK, Hits, Slice, SliceEnd, Min2
  <2>2. Latest(Hits(r, last)) \in 1..shadowCount
    BY <1>1, <2>1, LatestIsOne DEF TypeOK
  <2> QED
    BY <2>2, ElementOfSeq DEF TypeOK, VectorsBeforeManifest
<1> QED
  BY <1>1 DEF TypeOK, Restore

\* The two halves of a segment are segments, one level deeper.
LEMMA HalvesType ==
    ASSUME NEW seg \in Segments, ~GivesUp(seg)
    PROVE  /\ Halves(seg) \in Seq(Segments)
           /\ Len(Halves(seg)) = 2
           /\ \A i \in 1..2 : \A j \in 1..Len(Halves(seg)[i].ids) :
                 \E k \in 1..Len(seg.ids) : Halves(seg)[i].ids[j] = seg.ids[k]
<1> DEFINE n == Len(seg.ids)
           m == n \div 2
           left == SubSeq(seg.ids, 1, m)
           right == SubSeq(seg.ids, m + 1, n)
<1>1. seg.ids \in Seq(Records) /\ n \in Nat /\ m \in Nat /\ m <= n
  BY LenProperties DEF Segments
<1>2. seg.depth + 1 \in 0..MaxDepth
  BY SizeAssumption DEF Segments, GivesUp
<1>3. \A k \in 1..n : seg.ids[k] \in Records
  BY <1>1, ElementOfSeq
<1> HIDE DEF m, n
<1>4. /\ left \in Seq(Records) /\ Len(left) = m
      /\ \A j \in 1..m : left[j] = seg.ids[j]
  <2>1. \A i \in 1..m : seg.ids[i] \in Records
    BY <1>1, <1>3
  <2> QED
    BY <1>1, <2>1, SubSeqProperties
<1>5. /\ right \in Seq(Records) /\ Len(right) = n - m
      /\ \A j \in 1..(n - m) : right[j] = seg.ids[m + j]
  <2>1. \A i \in (m + 1)..n : seg.ids[i] \in Records
    BY <1>1, <1>3
  <2> QED
    BY <1>1, <2>1, SubSeqProperties
<1>6. Halves(seg) = <<[ids |-> left, depth |-> seg.depth + 1],
                      [ids |-> right, depth |-> seg.depth + 1]>>
  BY DEF Halves, m, n
<1> HIDE DEF left, right
<1>7. Halves(seg) \in Seq(Segments) /\ Len(Halves(seg)) = 2
  BY <1>2, <1>4, <1>5, <1>6 DEF Segments
<1>8. \A j \in 1..Len(Halves(seg)[1].ids) : Halves(seg)[1].ids[j] = seg.ids[j] /\ j \in 1..n
  BY <1>1, <1>4, <1>6
<1>9. \A j \in 1..Len(Halves(seg)[2].ids) :
         Halves(seg)[2].ids[j] = seg.ids[m + j] /\ m + j \in 1..n
  <2>1. Halves(seg)[2].ids = right
    BY <1>6
  <2>2. \A j \in 1..(n - m) : m + j \in 1..n
    BY <1>1
  <2>3. \A j \in 1..Len(right) : right[j] = seg.ids[m + j] /\ m + j \in 1..n
    BY <1>5, <2>2
  <2> QED
    BY <2>1, <2>3
<1>10. \A i \in 1..2 : i = 1 \/ i = 2
  OBVIOUS
<1> QED
  BY <1>7, <1>8, <1>9, <1>10, Zenon DEF n

-----------------------------------------------------------------------------
(* Type correctness, action by action *)

\* Counting a fault keeps the counters counters.
LEMMA CountFaultType ==
    ASSUME TypeOK, NEW f \in FaultKinds, CountFault(f)
    PROVE  faults' \in [FaultKinds -> Nat]
BY DEF TypeOK, CountFault

\* The read of a batch, its copy into the shadow files and the marks around it.
LEMMA BatchType ==
    ASSUME TypeOK, ShadowInv, ReadBatch \/ SkipBatch \/ MarkShadowed \/ PublishManifest
    PROVE  TypeOK'
<1> USE DEF TypeOK, jobVars, storeVars, shadowVars, runVars, batchVars, histVars
<1>1. CASE ReadBatch
  <2>1. batch' \in Seq(Records)
    BY <1>1, ListingType DEF ReadBatch
  <2>2. snapshot' \in [Records -> Vectors \cup {NoVector}]
    BY <1>1 DEF ReadBatch
  <2>3. work' \in Seq(Segments)
    <3>1. [ids |-> batch', depth |-> 0] \in Segments
      BY <2>1, SizeAssumption DEF Segments
    <3>2. <<[ids |-> batch', depth |-> 0]>> \in Seq(Segments)
      BY <3>1
    <3> QED
      BY <1>1, <3>2 DEF ReadBatch
  <2> QED
    BY <1>1, <2>1, <2>2, <2>3 DEF ReadBatch, Goto, Locations
<1>2. CASE SkipBatch
  BY <1>2 DEF SkipBatch, DropBatch, MarkAll, ItemStates, Goto, Locations, NoBatch
<1>3. CASE MarkShadowed
  <2>1. <<[ids |-> batch, depth |-> 0]>> \in Seq(Segments)
    BY SizeAssumption DEF Segments
  <2> QED
    BY <1>3, <2>1 DEF MarkShadowed, MarkAll, ItemStates, Goto, Locations
<1>4. CASE PublishManifest
  BY <1>4, LenProperties DEF PublishManifest, Goto, Locations
<1> QED
  BY <1>1, <1>2, <1>3, <1>4

\* append_vectors and the rewrite of ids.json leave sequences of the right elements.
LEMMA ShadowFileType ==
    ASSUME TypeOK, ShadowInv, AppendVectors \/ PublishIds
    PROVE  TypeOK'
<1> USE DEF TypeOK, jobVars, storeVars, shadowVars, runVars, batchVars, histVars
<1>1. CASE AppendVectors
  <2>1. VouchedFor \in Seq(Vectors)
    BY SubSeqProperties, ElementOfSeq DEF VouchedFor, ShadowInv, FilesInv, VectorsBeforeManifest
  <2>2. [i \in 1..Len(batch) |-> snapshot[batch[i]]] \in Seq(Vectors)
    <3>1. Len(batch) \in Nat
      BY LenProperties
    <3>2. \A i \in 1..Len(batch) : batch[i] \in Range(batch)
      BY RangeEquality
    <3>3. \A i \in 1..Len(batch) : snapshot[batch[i]] \in Vectors
      BY <1>1, <3>2 DEF AppendVectors, ShadowInv, FilesInv, BatchWasRead, BatchInHand
    <3> QED
      BY <3>1, <3>3
  <2>3. shadowVectors' \in Seq(Vectors)
    BY <1>1, <2>1, <2>2, ConcatProperties DEF AppendVectors
  <2> QED
    BY <1>1, <2>3 DEF AppendVectors, Goto, Locations
<1>2. CASE PublishIds
  BY <1>2, ConcatProperties DEF PublishIds, Goto, Locations
<1> QED
  BY <1>1, <1>2

\* Ids handed to the store belong to the batch, so what it takes is typed.
LEMMA HeadIsOfBatch ==
    ASSUME TypeOK, ShadowInv, pc = "write", work # <<>>
    PROVE  /\ Head(work) \in Segments
           /\ Tail(work) \in Seq(Segments) /\ Len(Tail(work)) = Len(work) - 1
           /\ \A i \in 1..(Len(work) - 1) : Tail(work)[i] = work[i + 1]
           /\ \A j \in 1..Len(Head(work).ids) : Head(work).ids[j] \in Range(batch)
           /\ \A r \in Range(batch) : snapshot[r] \in Vectors
           /\ Range(batch) \subseteq Records
<1>1. work \in Seq(Segments) /\ batch \in Seq(Records)
  BY DEF TypeOK
<1>2. /\ Head(work) \in Segments /\ Head(work) = work[1] /\ 1 \in 1..Len(work)
      /\ Tail(work) \in Seq(Segments) /\ Len(Tail(work)) = Len(work) - 1
      /\ \A i \in 1..(Len(work) - 1) : Tail(work)[i] = work[i + 1]
  BY <1>1, HeadTailProperties, EmptySeq, ElementOfSeq, LenProperties
<1>3. \A j \in 1..Len(Head(work).ids) : Head(work).ids[j] \in Range(batch)
  BY <1>2 DEF ShadowInv, FilesInv, WorkIsOfBatch
<1>4. \A r \in Range(batch) : snapshot[r] \in Vectors
  BY DEF ShadowInv, FilesInv, BatchWasRead, BatchInHand
<1>5. Range(batch) \subseteq Records
  BY <1>1, RangeEquality, ElementOfSeq
<1> QED
  BY <1>2, <1>3, <1>4, <1>5

\* Every id of the first k of a segment is an id of the segment.
LEMMA PrefixRange ==
    ASSUME NEW s \in Seq(Records), NEW k \in 0..Len(s)
    PROVE  Range(SubSeq(s, 1, k)) \subseteq Range(s)
<1>1. Len(s) \in Nat /\ \A i \in 1..k : s[i] \in Records
  BY LenProperties, ElementOfSeq
<1>2. /\ SubSeq(s, 1, k) \in Seq(Records) /\ Len(SubSeq(s, 1, k)) = k
      /\ \A j \in 1..k : SubSeq(s, 1, k)[j] = s[j]
  BY <1>1, SubSeqProperties
<1>3. \A j \in 1..k : SubSeq(s, 1, k)[j] = s[j] /\ j \in 1..Len(s)
  BY <1>1, <1>2
<1>4. Range(SubSeq(s, 1, k)) = {SubSeq(s, 1, k)[j] : j \in 1..k}
  BY <1>2, RangeEquality
<1>5. Range(s) = {s[j] : j \in 1..Len(s)}
  BY RangeEquality
<1> QED
  BY <1>3, <1>4, <1>5, Zenon

\* One write of _write_or_split, taken or refused, leaves typed segments behind.
LEMMA WriteType ==
    ASSUME TypeOK, ShadowInv, WriteAccepted \/ WriteRefused
    PROVE  TypeOK'
<1> USE DEF jobVars, storeVars, shadowVars, runVars, batchVars, histVars
<1>1. pc = "write" /\ work # <<>>
  BY DEF WriteAccepted, WriteRefused
<1>2. Head(work).ids \in Seq(Records) /\ Len(Head(work).ids) \in Nat
  BY <1>1, HeadIsOfBatch, LenProperties DEF Segments
<1>3. Range(Head(work).ids) \subseteq Range(batch)
  BY <1>1, <1>2, HeadIsOfBatch, RangeEquality
<1>4. \A r \in Range(Head(work).ids) : snapshot[r] \in Vectors /\ r \in Records
  BY <1>1, <1>3, HeadIsOfBatch
<1>5. CASE WriteAccepted
  <2>1. store' \in [Records -> Vectors \cup {NoVector}]
    BY <1>4, <1>5, LandType DEF WriteAccepted
  <2>2. written' \in Seq(Records)
    BY <1>2, <1>5, ConcatProperties DEF WriteAccepted, TypeOK
  <2>3. work' \in Seq(Segments)
    BY <1>1, <1>5, HeadIsOfBatch DEF WriteAccepted
  <2> QED
    BY <1>5, <2>1, <2>2, <2>3 DEF WriteAccepted, TypeOK
<1>6. CASE WriteRefused
  <2>1. store' \in [Records -> Vectors \cup {NoVector}]
    <3>1. PICK k \in 0..(IF PartialWrites THEN Len(Head(work).ids) - 1 ELSE 0) :
                  Land(Range(SubSeq(Head(work).ids, 1, k)))
      BY <1>6 DEF WriteRefused
    <3>2. CASE k \in 0..Len(Head(work).ids)
      <4>1. Range(SubSeq(Head(work).ids, 1, k)) \subseteq Range(Head(work).ids)
        BY <1>2, <3>2, PrefixRange
      <4> QED
        BY <1>4, <3>1, <4>1, LandType
    <3>3. k \in 0..Len(Head(work).ids)
      BY <1>2, <3>1
    <3> QED
      BY <3>2, <3>3
  <2>2. rejected' \in SUBSET Records
    BY <1>4, <1>6 DEF WriteRefused, TypeOK
  <2>3. work' \in Seq(Segments)
    <3>1. CASE GivesUp(Head(work))
      BY <1>1, <1>6, <3>1, HeadIsOfBatch DEF WriteRefused
    <3>2. CASE ~GivesUp(Head(work))
      <4>1. Halves(Head(work)) \in Seq(Segments)
        BY <1>1, <3>2, HeadIsOfBatch, HalvesType
      <4>2. Tail(work) \in Seq(Segments)
        BY <1>1, HeadIsOfBatch
      <4> QED
        BY <1>6, <3>2, <4>1, <4>2, ConcatProperties DEF WriteRefused
    <3> QED
      BY <3>1, <3>2
  <2> QED
    BY <1>6, <2>1, <2>2, <2>3 DEF WriteRefused, TypeOK
<1> QED
  BY <1>5, <1>6

\* The marks after a write and the end of a batch.
LEMMA MarkType ==
    ASSUME TypeOK, MarkRejected \/ VerifyPassed \/ VerifyFailed \/ MarkDone
    PROVE  TypeOK'
<1> USE DEF TypeOK, jobVars, storeVars, shadowVars, runVars, batchVars, histVars
<1>1. <<>> \in Seq(Records) /\ <<>> \in Seq(Segments) /\ NoBatch \in [Records -> Vectors \cup {NoVector}]
  BY DEF NoBatch
<1>2. Len(written) \in Nat
  BY LenProperties
<1>3. CASE MarkRejected
  BY <1>1, <1>3 DEF MarkRejected, DropBatch, MarkAll, ItemStates, Goto, Locations
<1>4. CASE VerifyPassed
  BY <1>4 DEF VerifyPassed, Goto, Locations
<1>5. CASE VerifyFailed
  BY <1>1, <1>5 DEF VerifyFailed, DropBatch, MarkAll, ItemStates, Goto, Locations
<1>6. CASE MarkDone
  BY <1>1, <1>2, <1>6 DEF MarkDone, DropBatch, MarkAll, ItemStates, Goto, Locations
<1> QED
  BY <1>3, <1>4, <1>5, <1>6

\* What a process leaves behind when it exits is typed.
LEMMA ExitType ==
    ASSUME Exit
    PROVE  /\ pc' \in Locations /\ keep' \in BOOLEAN /\ limit' \in Nat /\ processed' \in Nat
           /\ stopping' \in BOOLEAN /\ rbPos' \in Nat /\ asked' \in BOOLEAN /\ mute' \in BOOLEAN
           /\ batch' \in Seq(Records) /\ snapshot' \in [Records -> Vectors \cup {NoVector}]
           /\ work' \in Seq(Segments) /\ written' \in Seq(Records)
           /\ rejected' \in SUBSET Records
<1>1. <<>> \in Seq(Records) /\ <<>> \in Seq(Segments)
  OBVIOUS
<1>2. NoBatch \in [Records -> Vectors \cup {NoVector}]
  BY DEF NoBatch
<1> QED
  BY <1>1, <1>2 DEF Exit, DropBatch, Goto, Locations

\* The steps of a command around its batches.
LEMMA CommandType ==
    ASSUME TypeOK, Migrate \/ Resume \/ Rollback \/ Command
    PROVE  TypeOK'
<1> USE DEF TypeOK, jobVars, storeVars, shadowVars, runVars, batchVars, histVars,
            Goto, Locations
<1>1. CASE Migrate \/ Resume
  BY <1>1, SizeAssumption, FlagAssumption DEF Migrate, Resume, TakeLock
<1>2. CASE Rollback
  <2>1. faults' \in [FaultKinds -> Nat] /\ pc' \in Locations
    BY <1>2, CountFaultType DEF Rollback, FaultKinds
  <2> QED
    BY <1>2, <2>1 DEF Rollback
<1>3. CASE RegisterJob
  BY <1>3 DEF RegisterJob, JobStates
<1>4. CASE Enqueue
  BY <1>4 DEF Enqueue, MarkAll, ItemStates
<1>5. CASE Preview
  BY <1>5 DEF Preview
<1>6. CASE DoNotStart
  <2>1. faults' \in [FaultKinds -> Nat]
    BY <1>6, CountFaultType DEF DoNotStart, FaultKinds
  <2>2. /\ Exit
        /\ UNCHANGED <<jobState, rowKeep, pauseRequested, item, store, shadowVectors,
                       shadowCount, shadowIds, unkept, putBack>>
    BY <1>6 DEF DoNotStart
  <2> HIDE <1>6
  <2> QED
    BY <2>1, <2>2, ExitType
<1> QED
  BY <1>1, <1>2, <1>3, <1>4, <1>5, <1>6 DEF Command

\* The run loop of the engine changes job row, counters and flags only.
LEMMA LoopType ==
    ASSUME TypeOK, Loop
    PROVE  TypeOK'
<1> USE DEF TypeOK, jobVars, storeVars, shadowVars, runVars, batchVars, histVars,
            Goto, Locations
<1>1. CASE SetRunning
  <2>1. /\ jobState' = "running" /\ pc' = "clear" /\ putBack' = {}
        /\ UNCHANGED <<rowKeep, pauseRequested, item, storeVars, shadowVars, runVars,
                       batchVars, rbPos, unkept, asked, faults>>
    BY <1>1 DEF SetRunning
  <2> HIDE <1>1
  <2>2. jobState' \in JobStates /\ pc' \in Locations /\ putBack' \in SUBSET Records
    BY <2>1 DEF JobStates
  <2> QED
    BY <2>1, <2>2, SMTT(20)
<1>6. CASE ClearStaleRequest \/ ClearRequest
  BY <1>6 DEF ClearStaleRequest, ClearRequest
<1>7. CASE StopAtLimit
  BY <1>7 DEF StopAtLimit
<1>2. CASE StopBeforeBatch
  BY <1>2 DEF StopBeforeBatch, CountFault, FaultKinds
<1>3. CASE Pressure
  <2>1. stopping' \in BOOLEAN /\ pc' \in Locations
    BY <1>3 DEF Pressure
  <2>2. faults' \in [FaultKinds -> Nat]
    BY <1>3, CountFaultType DEF Pressure, FaultKinds
  <2> QED
    BY <1>3, <2>1, <2>2 DEF Pressure
<1>4. CASE TakeBatch
  BY <1>4, ListingType DEF TakeBatch
<1>5. CASE Finish
  BY <1>5, ExitType DEF Finish, FinalState, JobStates
<1> QED
  BY <1>1, <1>2, <1>3, <1>4, <1>5, <1>6, <1>7 DEF Loop

\* rollback puts back vectors that are vectors, because the ids and vectors it pairs exist.
LEMMA RollbackType ==
    ASSUME TypeOK, ShadowInv, RollingBack
    PROVE  TypeOK'
<1> USE DEF TypeOK, jobVars, storeVars, shadowVars, runVars, batchVars, histVars,
            Goto, Locations
<1>1. CASE RestoreSlice
  BY <1>1, RestoreType DEF RestoreSlice, ShadowInv, FilesInv
<1>2. CASE RestoreMismatch
  BY <1>2, RestoreType, ExitType DEF RestoreMismatch, ShadowInv, FilesInv
<1>5. CASE RestoreRefused
  <2>1. PICK last \in (IF PartialWrites THEN rbPos .. SliceEnd - 1 ELSE {rbPos}) : Restore(last)
    BY <1>5 DEF RestoreRefused
  <2>2. last \in Nat /\ last <= Len(shadowIds)
    BY <1>5, <2>1, SizeAssumption DEF RestoreRefused, SliceEnd, Min2
  <2> QED
    BY <1>5, <2>1, <2>2, RestoreType, ExitType DEF RestoreRefused, ShadowInv, FilesInv
<1>3. CASE RequeueSlice
  BY <1>3, SizeAssumption DEF RequeueSlice, MarkAll, Named, ItemStates, SliceEnd, Min2
<1>4. CASE FinishRollback
  BY <1>4, ExitType DEF FinishRollback, JobStates
<1> QED
  BY <1>1, <1>2, <1>3, <1>4, <1>5 DEF RollingBack

\* A pause request, a kill, a mute store and a deletion keep the types.
LEMMA EnvironmentType ==
    ASSUME TypeOK, ShadowInv, Environment
    PROVE  TypeOK'
<1> USE DEF TypeOK, jobVars, storeVars, shadowVars, runVars, batchVars, histVars,
            Goto, Locations
<1>1. CASE RequestPause
  BY <1>1 DEF RequestPause, CountFault, FaultKinds
<1>2. CASE Crash
  <2>1. store' \in [Records -> Vectors \cup {NoVector}]
    <3>1. ASSUME pc = "write", work # <<>>,
                 NEW k \in 1..Len(Head(work).ids), Land(Range(SubSeq(Head(work).ids, 1, k)))
          PROVE  store' \in [Records -> Vectors \cup {NoVector}]
      <4>1. Head(work).ids \in Seq(Records) /\ Len(Head(work).ids) \in Nat
        BY <3>1, HeadIsOfBatch, LenProperties DEF Segments
      <4>2. Range(SubSeq(Head(work).ids, 1, k)) \subseteq Range(Head(work).ids)
        BY <4>1, PrefixRange
      <4>3. \A r \in Range(SubSeq(Head(work).ids, 1, k)) : snapshot[r] \in Vectors
        BY <3>1, <4>1, <4>2, HeadIsOfBatch, RangeEquality
      <4> QED
        BY <3>1, <4>3, LandType
    <3>2. ASSUME NEW last \in Slice, Restore(last)
          PROVE  store' \in [Records -> Vectors \cup {NoVector}]
      BY <3>2, RestoreType DEF ShadowInv, FilesInv
    <3>3. \/ UNCHANGED store
          \/ /\ pc = "write" /\ work # <<>>
             /\ \E k \in 1..Len(Head(work).ids) : Land(Range(SubSeq(Head(work).ids, 1, k)))
          \/ \E last \in Slice : Restore(last)
      BY <1>2 DEF Crash
    <3> QED
      BY <3>1, <3>2, <3>3, SMTT(20)
  <2>2. faults' \in [FaultKinds -> Nat]
    BY <1>2, CountFaultType DEF Crash, FaultKinds
  <2>3. /\ Exit
        /\ UNCHANGED <<jobState, rowKeep, pauseRequested, item, shadowVectors, shadowCount,
                       shadowIds, unkept, putBack>>
    BY <1>2 DEF Crash
  <2> HIDE <1>2
  <2> QED
    BY <2>1, <2>2, <2>3, ExitType
<1>3. CASE StoreGoesMute
  BY <1>3 DEF StoreGoesMute, CountFault, FaultKinds
<1>4. CASE DeleteRecord
  BY <1>4 DEF DeleteRecord, Present, CountFault, FaultKinds
<1> QED
  BY <1>1, <1>2, <1>3, <1>4 DEF Environment

\* Every step of the system keeps the types.
LEMMA TypeStep ==
    ASSUME TypeOK, ShadowInv, [Next]_vars
    PROVE  TypeOK'
<1>1. CASE UNCHANGED vars
  BY <1>1 DEF TypeOK, vars, jobVars, storeVars, shadowVars, runVars, batchVars, histVars
<1> QED
  BY <1>1, BatchType, ShadowFileType, WriteType, MarkType, CommandType, LoopType,
     RollbackType, EnvironmentType DEF Next, Process, Batch

-----------------------------------------------------------------------------
(* The shadow files and the batch in hand *)

\* Outside a batch only the length of vectors.bin matters.
LEMMA FilesOutside ==
    ASSUME FilesInv, pc' \notin BatchInHand, UNCHANGED shadowVars
    PROVE  FilesInv'
BY DEF FilesInv, BatchWasRead, VectorsBeforeManifest, WorkIsOfBatch, BatchInHand, shadowVars

\* A step that leaves the batch and the files alone cannot begin to publish it.
LEMMA FilesFrame ==
    ASSUME FilesInv, UNCHANGED <<shadowVars, batch, snapshot, work>>,
           pc' = pc \/ (pc \in BatchInHand /\ pc' \in BatchInHand \ {"publish", "write"})
    PROVE  FilesInv'
BY DEF FilesInv, BatchWasRead, VectorsBeforeManifest, WorkIsOfBatch, BatchInHand, shadowVars

\* Where the elements of a concatenation come from.
LEMMA ConcatElements ==
    ASSUME NEW S, NEW s \in Seq(S), NEW t \in Seq(S)
    PROVE  /\ Len(s \o t) = Len(s) + Len(t)
           /\ \A i \in 1..Len(s) : (s \o t)[i] = s[i]
           /\ \A j \in 1..Len(t) : (s \o t)[Len(s) + j] = t[j]
<1> DEFINE m == Len(s)
           n == Len(t)
           u == s \o t
<1>1. m \in Nat /\ n \in Nat
  BY LenProperties
<1>2. /\ Len(u) = m + n
      /\ \A i \in 1..(m + n) : u[i] = IF i <= m THEN s[i] ELSE t[i - m]
  BY ConcatProperties, Zenon
<1> HIDE DEF m, n, u
<1>3. \A i \in 1..m : i \in 1..(m + n) /\ i <= m
  BY <1>1
<1>4. \A j \in 1..n : m + j \in 1..(m + n) /\ ~(m + j <= m) /\ (m + j) - m = j
  BY <1>1
<1>5. /\ Len(u) = m + n
      /\ \A i \in 1..m : u[i] = s[i]
      /\ \A j \in 1..n : u[m + j] = t[j]
  BY <1>2, <1>3, <1>4
<1> QED
  BY <1>5 DEF m, n, u

\* The elements of a sequence are what its indices lead to.
LEMMA RangeType ==
    ASSUME NEW S, NEW s \in Seq(S)
    PROVE  Range(s) \subseteq S /\ \A i \in 1..Len(s) : s[i] \in S /\ s[i] \in Range(s)
<1>1. Range(s) = {s[i] : i \in 1..Len(s)}
  BY RangeEquality
<1>2. \A i \in 1..Len(s) : s[i] \in S
  BY ElementOfSeq
<1> QED
  BY <1>1, <1>2

\* A batch as the first piece of work is a piece of the batch.
LEMMA FirstPiece ==
    ASSUME NEW s \in Seq(Records)
    PROVE  \A i \in 1..Len(<<[ids |-> s, depth |-> 0]>>) :
              \A j \in 1..Len(<<[ids |-> s, depth |-> 0]>>[i].ids) :
                 <<[ids |-> s, depth |-> 0]>>[i].ids[j] \in Range(s)
<1>1. \A j \in 1..Len(s) : s[j] \in Range(s)
  BY RangeEquality
<1>2. Len(<<[ids |-> s, depth |-> 0]>>) = 1 /\ <<[ids |-> s, depth |-> 0]>>[1].ids = s
  OBVIOUS
<1>3. \A i \in 1..1 : i = 1
  OBVIOUS
<1> QED
  BY <1>1, <1>2, <1>3

\* Reading a batch: its snapshot is of what the store holds, in the order of the batch.
LEMMA FilesRead ==
    ASSUME TypeOK, FilesInv, ReadBatch
    PROVE  FilesInv'
<1>1. /\ pc' \in {"append", "write"} /\ UNCHANGED <<shadowVectors, shadowCount>>
      /\ pc' = "write" => work' = <<[ids |-> batch', depth |-> 0]>>
  BY DEF ReadBatch, Goto, shadowVars
<1>2. batch' \in Seq(Records)
  BY ListingType DEF ReadBatch
<1>3. \A r \in Range(batch') : snapshot'[r] \in Vectors
  BY DEF ReadBatch, Lists, Present, TypeOK
<1>4. WorkIsOfBatch'
  BY <1>1, <1>2, FirstPiece DEF WorkIsOfBatch
<1>5. VectorsBeforeManifest'
  BY <1>1 DEF FilesInv, VectorsBeforeManifest
<1>6. BatchWasRead'
  BY <1>3 DEF BatchWasRead
<1> QED
  BY <1>4, <1>5, <1>6 DEF FilesInv

\* What an append leaves in vectors.bin: everything vouched for, then the batch.
LEMMA AppendedVectors ==
    ASSUME TypeOK, FilesInv, AppendVectors
    PROVE  /\ Len(shadowVectors') = shadowCount + Len(batch)
           /\ \A i \in 1..shadowCount : shadowVectors'[i] = shadowVectors[i]
           /\ \A j \in 1..Len(batch) : shadowVectors'[shadowCount + j] = snapshot[batch[j]]
<1> DEFINE tail == [i \in 1..Len(batch) |-> snapshot[batch[i]]]
<1>1. /\ shadowVectors \in Seq(Vectors) /\ shadowCount \in Nat /\ Len(batch) \in Nat
      /\ shadowCount <= Len(shadowVectors)
      /\ \A i \in 1..shadowCount : shadowVectors[i] \in Vectors
  BY LenProperties, ElementOfSeq DEF TypeOK, FilesInv, VectorsBeforeManifest
<1>2. /\ VouchedFor \in Seq(Vectors) /\ Len(VouchedFor) = shadowCount
      /\ \A i \in 1..shadowCount : VouchedFor[i] = shadowVectors[i]
  BY <1>1, SubSeqProperties DEF VouchedFor
<1>3. tail \in Seq(Vectors) /\ Len(tail) = Len(batch)
  <2>1. \A i \in 1..Len(batch) : snapshot[batch[i]] \in Vectors
    BY RangeEquality DEF TypeOK, AppendVectors, FilesInv, BatchWasRead, BatchInHand
  <2> QED
    BY <1>1, <2>1
<1>4. shadowVectors' = VouchedFor \o tail
  BY DEF AppendVectors
<1>5. \A j \in 1..Len(batch) : tail[j] = snapshot[batch[j]]
  OBVIOUS
<1> HIDE DEF tail
<1>6. /\ Len(shadowVectors') = Len(VouchedFor) + Len(tail)
      /\ \A i \in 1..Len(VouchedFor) : shadowVectors'[i] = VouchedFor[i]
      /\ \A j \in 1..Len(tail) : shadowVectors'[Len(VouchedFor) + j] = tail[j]
  <2>1. VouchedFor \in Seq(Vectors) /\ tail \in Seq(Vectors)
    BY <1>2, <1>3
  <2>2. /\ Len(VouchedFor \o tail) = Len(VouchedFor) + Len(tail)
        /\ \A i \in 1..Len(VouchedFor) : (VouchedFor \o tail)[i] = VouchedFor[i]
        /\ \A j \in 1..Len(tail) : (VouchedFor \o tail)[Len(VouchedFor) + j] = tail[j]
    BY <2>1, ConcatElements
  <2> QED
    BY <1>4, <2>2
<1> QED
  BY <1>2, <1>3, <1>5, <1>6, Zenon

\* append cuts the file to what the manifest vouches for before it adds the batch.
LEMMA FilesAppend ==
    ASSUME TypeOK, FilesInv, AppendVectors
    PROVE  FilesInv'
<1>1. pc = "append" /\ pc' = "publish" /\ UNCHANGED <<shadowCount, batch, snapshot, work>>
  BY DEF AppendVectors, Goto, batchVars
<1>2. shadowCount \in Nat /\ Len(batch) \in Nat
  BY LenProperties DEF TypeOK
<1> QED
  BY <1>1, <1>2, AppendedVectors
     DEF FilesInv, BatchWasRead, VectorsBeforeManifest, WorkIsOfBatch, BatchInHand

\* The manifest vouches for a batch only after its vectors are in the file.
LEMMA FilesPublish ==
    ASSUME TypeOK, FilesInv, PublishManifest
    PROVE  FilesInv'
BY DEF PublishManifest, Goto, batchVars, FilesInv, BatchWasRead, VectorsBeforeManifest,
       WorkIsOfBatch, BatchInHand

\* The ids and the SHADOWED mark leave vectors and manifest alone.
LEMMA FilesMarked ==
    ASSUME TypeOK, FilesInv, PublishIds \/ MarkShadowed
    PROVE  FilesInv'
<1>1. batch \in Seq(Records)
  BY DEF TypeOK
<1>2. /\ pc \in {"index", "shadowed"} /\ pc' \in {"shadowed", "write"}
      /\ UNCHANGED <<shadowVectors, shadowCount, batch, snapshot>>
      /\ pc' = "write" => work' = <<[ids |-> batch, depth |-> 0]>>
  BY DEF PublishIds, MarkShadowed, Goto, batchVars, shadowVars
<1>3. WorkIsOfBatch'
  BY <1>1, <1>2, FirstPiece DEF WorkIsOfBatch
<1>4. VectorsBeforeManifest'
  BY <1>2 DEF FilesInv, VectorsBeforeManifest
<1>5. BatchWasRead'
  BY <1>2 DEF FilesInv, BatchWasRead, BatchInHand
<1> QED
  BY <1>3, <1>4, <1>5 DEF FilesInv

\* Splitting a refused segment leaves segments of the same batch.
LEMMA FilesWrite ==
    ASSUME TypeOK, ShadowInv, WriteAccepted \/ WriteRefused
    PROVE  FilesInv'
<1>1. /\ pc = "write" /\ work # <<>> /\ UNCHANGED <<pc, batch, snapshot, shadowVectors, shadowCount>>
      /\ work' = Tail(work)
         \/ (~GivesUp(Head(work)) /\ work' = Halves(Head(work)) \o Tail(work))
  BY DEF WriteAccepted, WriteRefused, shadowVars
<1>2. /\ \A i \in 1..Len(work) : \A j \in 1..Len(work[i].ids) : work[i].ids[j] \in Range(batch)
      /\ work \in Seq(Segments) /\ Len(work) \in Nat
  BY <1>1, LenProperties DEF ShadowInv, FilesInv, WorkIsOfBatch, TypeOK
<1>3. /\ Tail(work) \in Seq(Segments) /\ Len(Tail(work)) = Len(work) - 1
      /\ \A i \in 1..Len(Tail(work)) : \A j \in 1..Len(Tail(work)[i].ids) :
            Tail(work)[i].ids[j] \in Range(batch)
  BY <1>1, <1>2, HeadIsOfBatch
<1>4. WorkIsOfBatch'
  <2>1. CASE work' = Tail(work)
    BY <1>1, <1>3, <2>1 DEF WorkIsOfBatch
  <2>2. CASE ~GivesUp(Head(work)) /\ work' = Halves(Head(work)) \o Tail(work)
    <3>1. Head(work) \in Segments
          /\ \A j \in 1..Len(Head(work).ids) : Head(work).ids[j] \in Range(batch)
      BY <1>1, HeadIsOfBatch
    <3>2. /\ Halves(Head(work)) \in Seq(Segments) /\ Len(Halves(Head(work))) = 2
          /\ \A i \in 1..2 : \A j \in 1..Len(Halves(Head(work))[i].ids) :
                Halves(Head(work))[i].ids[j] \in Range(batch)
      <4>1. /\ Halves(Head(work)) \in Seq(Segments) /\ Len(Halves(Head(work))) = 2
            /\ \A i \in 1..2 : \A j \in 1..Len(Halves(Head(work))[i].ids) :
                  \E k \in 1..Len(Head(work).ids) :
                     Halves(Head(work))[i].ids[j] = Head(work).ids[k]
        BY <2>2, <3>1, HalvesType, Zenon
      <4> QED
        BY <3>1, <4>1, Zenon
    <3>3. /\ Len(work') = 2 + Len(Tail(work)) /\ Len(Tail(work)) \in Nat
          /\ \A i \in 1..2 : work'[i] = Halves(Head(work))[i]
          /\ \A i \in 1..Len(Tail(work)) : work'[2 + i] = Tail(work)[i]
      <4> DEFINE two == Halves(Head(work))
                 rest == Tail(work)
      <4>1. two \in Seq(Segments) /\ rest \in Seq(Segments) /\ work' = two \o rest
        BY <1>3, <2>2, <3>2
      <4>2. Len(two) = 2 /\ Len(rest) \in Nat
        BY <1>3, <3>2, LenProperties
      <4> HIDE DEF two, rest
      <4>3. /\ Len(work') = Len(two) + Len(rest)
            /\ \A i \in 1..Len(two) : work'[i] = two[i]
            /\ \A i \in 1..Len(rest) : work'[Len(two) + i] = rest[i]
        <5>1. /\ Len(two \o rest) = Len(two) + Len(rest)
              /\ \A i \in 1..Len(two) : (two \o rest)[i] = two[i]
              /\ \A i \in 1..Len(rest) : (two \o rest)[Len(two) + i] = rest[i]
          BY <4>1, ConcatElements
        <5> QED
          BY <4>1, <5>1, Zenon
      <4>4. Len(work') = 2 + Len(rest) /\ (\A i \in 1..2 : work'[i] = two[i])
            /\ \A i \in 1..Len(rest) : work'[2 + i] = rest[i]
        BY <4>2, <4>3, Zenon
      <4> QED
        BY <4>2, <4>4 DEF two, rest
    <3>4. ASSUME NEW i \in 1..Len(work')
          PROVE  \A j \in 1..Len(work'[i].ids) : work'[i].ids[j] \in Range(batch)
      <4>1. CASE i <= 2
        BY <3>2, <3>3, <4>1
      <4>2. CASE i > 2
        <5>1. i - 2 \in 1..Len(Tail(work)) /\ i = 2 + (i - 2)
          BY <3>3, <4>2
        <5>2. work'[i] = Tail(work)[i - 2]
          BY <3>3, <5>1
        <5> QED
          BY <1>3, <5>1, <5>2
      <4> QED
        BY <3>3, <4>1, <4>2
    <3> QED
      BY <1>1, <3>4 DEF WorkIsOfBatch
  <2> QED
    BY <1>1, <2>1, <2>2
<1> QED
  BY <1>1, <1>4 DEF ShadowInv, FilesInv, BatchWasRead, VectorsBeforeManifest, BatchInHand

\* Every step keeps the shadow files and the batch in hand in agreement.
LEMMA FilesStep ==
    ASSUME TypeOK, ShadowInv, [Next]_vars
    PROVE  FilesInv'
<1> USE DEF Goto, vars, jobVars, storeVars, shadowVars, runVars, batchVars, histVars, ShadowInv
<1>1. CASE UNCHANGED vars
  BY <1>1, FilesFrame
<1>2. CASE Migrate \/ Resume \/ Rollback
  BY <1>2, FilesOutside DEF Migrate, Resume, TakeLock, Rollback, BatchInHand
<1>3. CASE Command
  BY <1>3, FilesOutside
     DEF Command, RegisterJob, Enqueue, Preview, DoNotStart, Exit, BatchInHand
<1>4. CASE Loop
  <2>1. pc' \notin BatchInHand /\ UNCHANGED shadowVars
    BY <1>4 DEF Loop, SetRunning, ClearStaleRequest, StopAtLimit, StopBeforeBatch, TakeBatch,
                Pressure, ClearRequest, Finish, Exit, BatchInHand
  <2> QED
    BY <2>1, FilesOutside
<1>5. CASE Batch
  <2>1. CASE SkipBatch \/ VerifyFailed \/ MarkDone
    BY <2>1, FilesOutside DEF SkipBatch, VerifyFailed, MarkDone, BatchInHand
  <2>2. CASE VerifyPassed
    BY <2>2, FilesFrame DEF VerifyPassed, BatchInHand
  <2>3. CASE MarkRejected
    BY <2>3, FilesFrame, FilesOutside DEF MarkRejected, BatchInHand
  <2> QED
    BY <1>5, <2>1, <2>2, <2>3, FilesRead, FilesAppend, FilesPublish, FilesMarked, FilesWrite
       DEF Batch
<1>6. CASE RollingBack
  BY <1>6, FilesOutside
     DEF RollingBack, RestoreSlice, RestoreMismatch, RestoreRefused, RequeueSlice, FinishRollback, Exit, BatchInHand
<1>7. CASE Environment
  <2>1. CASE Crash
    BY <2>1, FilesOutside DEF Crash, Exit, BatchInHand
  <2>2. CASE RequestPause \/ StoreGoesMute \/ DeleteRecord
    BY <2>2, FilesFrame DEF RequestPause, StoreGoesMute, DeleteRecord
  <2> QED
    BY <1>7, <2>1, <2>2 DEF Environment
<1> QED
  BY <1>1, <1>2, <1>3, <1>4, <1>5, <1>6, <1>7 DEF Next, Process

-----------------------------------------------------------------------------
(* No original is given up *)

\* Only an append writes vectors.bin and only its publication moves the count.
LEMMA ManifestGrows ==
    ASSUME [Next]_vars
    PROVE  AppendVectors \/ PublishManifest \/ UNCHANGED <<shadowVectors, shadowCount>>
<1> USE DEF vars, jobVars, storeVars, shadowVars, runVars, batchVars, histVars
<1>1. CASE Environment \/ Migrate \/ Resume \/ Rollback
  BY <1>1 DEF Environment, RequestPause, Crash, StoreGoesMute, DeleteRecord, Migrate,
              Resume, Rollback, TakeLock
<1>2. CASE Command \/ RollingBack
  BY <1>2 DEF Command, RegisterJob, Enqueue, Preview, DoNotStart, RollingBack,
              RestoreSlice, RestoreMismatch, RestoreRefused, RequeueSlice, FinishRollback
<1>3. CASE Loop
  BY <1>3 DEF Loop, SetRunning, ClearStaleRequest, StopAtLimit, StopBeforeBatch,
              TakeBatch, Pressure, ClearRequest, Finish
<1>4. CASE Batch
  BY <1>4 DEF Batch, SkipBatch, ReadBatch, PublishIds, MarkShadowed, WriteAccepted,
              WriteRefused, MarkRejected, VerifyPassed, VerifyFailed, MarkDone
<1>5. CASE UNCHANGED vars
  BY <1>5
<1> QED
  BY <1>1, <1>2, <1>3, <1>4, <1>5 DEF Next, Process

\* What the shadow copy holds it holds for ever: an append rewrites only bytes the
\* manifest does not vouch for, and the manifest's count never falls.
LEMMA KeptStays ==
    ASSUME TypeOK, ShadowInv, [Next]_vars, NEW r \in Records, Kept(r)
    PROVE  Kept(r)'
<1> USE DEF vars, jobVars, storeVars, shadowVars, runVars, batchVars, histVars
<1>1. CASE AppendVectors
  <2>1. /\ UNCHANGED shadowCount
        /\ \A i \in 1..shadowCount : shadowVectors'[i] = shadowVectors[i]
    BY <1>1, AppendedVectors DEF AppendVectors, ShadowInv
  <2> QED
    BY <2>1 DEF Kept
<1>2. CASE PublishManifest
  <2>1. /\ UNCHANGED shadowVectors /\ shadowCount' = shadowCount + Len(batch)
        /\ shadowCount \in Nat /\ Len(batch) \in Nat
    BY <1>2, LenProperties DEF PublishManifest, TypeOK
  <2>2. \A i \in 1..shadowCount : i \in 1..shadowCount'
    BY <2>1
  <2> QED
    BY <2>1, <2>2 DEF Kept
<1>3. CASE ~AppendVectors /\ ~PublishManifest
  <2>1. UNCHANGED <<shadowVectors, shadowCount>>
    BY <1>3, ManifestGrows
  <2> QED
    BY <2>1 DEF Kept
<1> QED
  BY <1>1, <1>2, <1>3

\* A step that touches neither the store nor the shadow copy, and after which no
\* batch is in hand, has only to keep the --keep-original of the command.
LEMMA KeepOutside ==
    ASSUME KeepInv, UNCHANGED <<store, shadowVars>>, RunKeeps',
           pc' \notin {"append", "publish", "index", "shadowed", "write"}
    PROVE  KeepInv'
BY DEF KeepInv, BatchIsKept, ListedIsKept, MovedIsKept, Moved, Kept, shadowVars

\* A step within a batch that leaves the batch and its shadow copy alone, and
\* moves only records of which the shadow copy holds the original.
LEMMA KeepWithin ==
    ASSUME KeepInv, UNCHANGED <<shadowVars, batch, snapshot, keep, pc>>,
           \A r \in Records : Moved(r)' => Moved(r) \/ Kept(r)
    PROVE  KeepInv'
BY DEF KeepInv, RunKeeps, BatchIsKept, ListedIsKept, MovedIsKept, Kept, shadowVars

\* Writing mapped vectors of a batch moves only records the shadow copy holds.
LEMMA LandMovesKept ==
    ASSUME TypeOK, KeepInv, pc = "write", NEW S \in SUBSET Range(batch), Land(S)
    PROVE  \A r \in Records : Moved(r)' => Moved(r) \/ Kept(r)
<1>1. \A r \in S : Kept(r)
  BY DEF KeepInv, BatchIsKept
<1>2. \A r \in Records : r \notin S => store'[r] = store[r]
  BY DEF Land
<1> QED
  BY <1>1, <1>2 DEF Moved

\* A rollback writes only to records that ids.json names.
LEMMA RestoreMovesKept ==
    ASSUME TypeOK, KeepInv, NEW last \in Nat, last <= Len(shadowIds), Restore(last)
    PROVE  \A r \in Records : Moved(r)' => Moved(r) \/ Kept(r)
<1>1. ASSUME NEW r \in Records, Hits(r, last) # {}
      PROVE  Kept(r)
  <2>1. PICK i \in Slice : i <= last /\ shadowIds[i] = r
    BY <1>1 DEF Hits
  <2>2. i \in 1..Len(shadowIds)
    BY <2>1, SizeAssumption, LenProperties DEF TypeOK, Slice, SliceEnd, Min2
  <2> QED
    BY <2>1, <2>2 DEF KeepInv, ListedIsKept
<1>2. \A r \in Records : Hits(r, last) = {} => store'[r] = store[r]
  BY DEF Restore
<1> QED
  BY <1>1, <1>2 DEF Moved

\* A record read into a batch that keeps originals is unmoved, or already kept.
LEMMA KeepRead ==
    ASSUME TypeOK, KeepInv, ReadBatch
    PROVE  KeepInv'
<1> USE DEF storeVars, shadowVars, runVars
<1>1. /\ pc = "read" /\ keep /\ UNCHANGED <<keep, store, shadowVectors, shadowCount, shadowIds>>
      /\ pc' = "append"
  BY DEF ReadBatch, Goto, KeepInv, RunKeeps
<1>2. \A r \in Range(batch') : snapshot'[r] = store[r] /\ store[r] # NoVector /\ r \in Records
  BY DEF ReadBatch, Lists, Present
<1>3. \A r \in Range(batch') : snapshot'[r] = Original(r) \/ Kept(r)
  BY <1>2 DEF KeepInv, MovedIsKept, Moved
<1>4. BatchIsKept'
  BY <1>1, <1>3 DEF BatchIsKept, Kept
<1> QED
  BY <1>1, <1>4 DEF KeepInv, RunKeeps, ListedIsKept, MovedIsKept, Moved, Kept

\* Cutting unvouched bytes off the shadow file loses no original.
LEMMA KeepAppend ==
    ASSUME TypeOK, ShadowInv, KeepInv, AppendVectors
    PROVE  KeepInv'
<1>1. /\ pc = "append" /\ pc' = "publish"
      /\ UNCHANGED <<keep, store, shadowIds, batch, snapshot>>
  BY DEF AppendVectors, Goto, storeVars, runVars, batchVars
<1>2. \A r \in Records : Kept(r) => Kept(r)'
  <2>1. [Next]_vars
    BY DEF Next, Process, Batch
  <2> QED
    BY <2>1, KeptStays
<1>3. Range(batch) \subseteq Records /\ \A i \in 1..Len(shadowIds) : shadowIds[i] \in Records
  <2>1. batch \in Seq(Records) /\ shadowIds \in Seq(Records)
    BY DEF TypeOK
  <2> QED
    BY <2>1, RangeType
<1>4. BatchIsKept'
  BY <1>1, <1>2, <1>3 DEF KeepInv, BatchIsKept
<1>5. ListedIsKept' /\ MovedIsKept' /\ RunKeeps'
  BY <1>1, <1>2, <1>3 DEF KeepInv, ListedIsKept, MovedIsKept, Moved, RunKeeps
<1> QED
  BY <1>4, <1>5 DEF KeepInv

\* When the manifest grows by the batch, every record of the batch becomes kept.
LEMMA KeepPublish ==
    ASSUME TypeOK, ShadowInv, KeepInv, PublishManifest
    PROVE  KeepInv'
<1>1. /\ pc = "publish" /\ pc' = "index" /\ shadowCount' = shadowCount + Len(batch)
      /\ UNCHANGED <<keep, store, shadowVectors, shadowIds, batch, snapshot>>
  BY DEF PublishManifest, Goto, storeVars, runVars, batchVars
<1>2. \A r \in Records : Kept(r) => Kept(r)'
  <2>1. [Next]_vars
    BY DEF Next, Process, Batch
  <2> QED
    BY <2>1, KeptStays
<1>3. Range(batch) \subseteq Records /\ \A i \in 1..Len(shadowIds) : shadowIds[i] \in Records
  <2>1. batch \in Seq(Records) /\ shadowIds \in Seq(Records)
    BY DEF TypeOK
  <2> QED
    BY <2>1, RangeType
<1>4. ASSUME NEW r \in Range(batch), snapshot[r] = Original(r)
      PROVE  Kept(r)'
  <2>1. PICK j \in 1..Len(batch) : batch[j] = r
    <3>1. batch \in Seq(Records)
      BY DEF TypeOK
    <3> QED
      BY <1>4, <3>1, RangeEquality
  <2>2. shadowVectors[shadowCount + j] = Original(r)
    BY <1>1, <1>4, <2>1 DEF ShadowInv, FilesInv, VectorsBeforeManifest
  <2>3. shadowCount + j \in 1..shadowCount'
    BY <1>1, LenProperties DEF TypeOK
  <2> QED
    BY <1>1, <2>2, <2>3 DEF Kept
<1>5. BatchIsKept'
  BY <1>1, <1>2, <1>3, <1>4 DEF KeepInv, BatchIsKept
<1>6. ListedIsKept' /\ MovedIsKept' /\ RunKeeps'
  BY <1>1, <1>2, <1>3 DEF KeepInv, ListedIsKept, MovedIsKept, Moved, RunKeeps
<1> QED
  BY <1>5, <1>6 DEF KeepInv

\* Once ids.json is replaced, every record of the batch is listed.
LEMMA KeepPublishIds ==
    ASSUME TypeOK, KeepInv, PublishIds
    PROVE  KeepInv'
<1>1. /\ pc = "index" /\ pc' = "shadowed" /\ shadowIds' = shadowIds \o batch
      /\ UNCHANGED <<keep, store, shadowVectors, shadowCount, batch>>
  BY DEF PublishIds, Goto, storeVars, runVars, batchVars
<1>2. \A r \in Range(batch) : Kept(r)
  BY <1>1 DEF KeepInv, BatchIsKept
<1>3. ListedIsKept'
  <2>1. shadowIds \in Seq(Records) /\ batch \in Seq(Records)
        /\ Len(shadowIds) \in Nat /\ Len(batch) \in Nat
    BY LenProperties DEF TypeOK
  <2>2. /\ Len(shadowIds') = Len(shadowIds) + Len(batch)
        /\ \A i \in 1..Len(shadowIds) : shadowIds'[i] = shadowIds[i]
        /\ \A j \in 1..Len(batch) : shadowIds'[Len(shadowIds) + j] = batch[j]
    <3>1. /\ Len(shadowIds \o batch) = Len(shadowIds) + Len(batch)
          /\ \A i \in 1..Len(shadowIds) : (shadowIds \o batch)[i] = shadowIds[i]
          /\ \A j \in 1..Len(batch) : (shadowIds \o batch)[Len(shadowIds) + j] = batch[j]
      BY <2>1, ConcatElements
    <3> QED
      BY <1>1, <3>1, Zenon
  <2>3. \A i \in 1..Len(shadowIds) : Kept(shadowIds'[i])
    BY <2>2 DEF KeepInv, ListedIsKept
  <2>4. \A j \in 1..Len(batch) : Kept(shadowIds'[Len(shadowIds) + j])
    BY <1>2, <2>1, <2>2, RangeEquality
  <2>5. \A i \in 1..Len(shadowIds') :
           i \in 1..Len(shadowIds)
           \/ (i - Len(shadowIds) \in 1..Len(batch) /\ i = Len(shadowIds) + (i - Len(shadowIds)))
    BY <2>1, <2>2
  <2>6. \A i \in 1..Len(shadowIds') : Kept(shadowIds'[i])
    BY <2>3, <2>4, <2>5
  <2> QED
    BY <1>1, <2>6 DEF ListedIsKept, Kept
<1> QED
  BY <1>1, <1>2, <1>3 DEF KeepInv, RunKeeps, BatchIsKept, MovedIsKept, Moved, Kept

\* The ids of the piece of work being written are records of the batch.
LEMMA SegmentInBatch ==
    ASSUME TypeOK, ShadowInv, pc = "write", work # <<>>
    PROVE  /\ Head(work).ids \in Seq(Records) /\ Len(Head(work).ids) \in Nat
           /\ Range(Head(work).ids) \subseteq Range(batch)
<1>1. /\ Head(work).ids \in Seq(Records)
      /\ \A j \in 1..Len(Head(work).ids) : Head(work).ids[j] \in Range(batch)
  BY HeadIsOfBatch DEF Segments
<1> QED
  BY <1>1, LenProperties, RangeEquality

\* Every step keeps the promise of a job that never waived it.
LEMMA KeepStep ==
    ASSUME TypeOK, ShadowInv, KeepInv, [Next]_vars, ~unkept'
    PROVE  KeepInv'
<1> USE DEF Goto, vars, jobVars, storeVars, shadowVars, runVars, batchVars, histVars
<1>1. CASE UNCHANGED vars
  BY <1>1, KeepWithin DEF Moved
<1>2. CASE Migrate \/ Resume
  BY <1>2, KeepOutside DEF Migrate, Resume, TakeLock, RunKeeps
<1>3. CASE Rollback
  BY <1>3, KeepOutside DEF Rollback, RunKeeps
<1>4. CASE Command
  BY <1>4, KeepOutside
     DEF Command, RegisterJob, Enqueue, Preview, DoNotStart, Exit, RunKeeps, KeepInv
<1>5. CASE Loop
  <2>1. /\ UNCHANGED <<store, shadowVars>>
        /\ pc' \in {"idle", "clear", "loop", "settle", "read", "finish"}
        /\ pc \notin {"idle", "restore", "requeue"}
        /\ pc' # "idle" => UNCHANGED keep
    <3>1. CASE SetRunning \/ ClearStaleRequest \/ StopAtLimit \/ ClearRequest \/ Finish
      BY <3>1 DEF SetRunning, ClearStaleRequest, StopAtLimit, ClearRequest, Finish, Exit
    <3>2. CASE StopBeforeBatch \/ TakeBatch \/ Pressure
      BY <3>2 DEF StopBeforeBatch, TakeBatch, Pressure
    <3> QED
      BY <1>5, <3>1, <3>2 DEF Loop
  <2>2. RunKeeps'
    <3>1. keep
      BY <2>1 DEF RunKeeps, KeepInv
    <3>2. pc' # "idle" => keep'
      BY <2>1, <3>1, Zenon
    <3> QED
      BY <3>2 DEF RunKeeps
  <2> QED
    BY <2>1, <2>2, KeepOutside
<1>6. CASE Batch
  <2>1. CASE SkipBatch \/ VerifyPassed \/ VerifyFailed \/ MarkDone \/ MarkRejected
    <3>1. /\ UNCHANGED <<store, shadowVars, keep>>
          /\ pc' \in {"pressure", "done", "settle", "verify"}
          /\ pc \notin {"idle", "restore", "requeue"}
      BY <2>1 DEF SkipBatch, VerifyPassed, VerifyFailed, MarkDone, MarkRejected
    <3>2. RunKeeps'
      BY <3>1 DEF RunKeeps, KeepInv
    <3> QED
      BY <3>1, <3>2, KeepOutside
  <2>2. CASE MarkShadowed
    BY <2>2 DEF MarkShadowed, KeepInv, RunKeeps, BatchIsKept, ListedIsKept, MovedIsKept,
                Moved, Kept
  <2>3. CASE WriteAccepted \/ WriteRefused
    <3>1. /\ pc = "write" /\ work # <<>>
          /\ UNCHANGED <<shadowVars, batch, snapshot, keep, pc>>
      BY <2>3 DEF WriteAccepted, WriteRefused
    <3>2. /\ Head(work).ids \in Seq(Records) /\ Len(Head(work).ids) \in Nat
          /\ Range(Head(work).ids) \subseteq Range(batch)
      BY <3>1, SegmentInBatch
    <3>3. \E S \in SUBSET Range(batch) : Land(S)
      <4>1. CASE WriteAccepted
        BY <3>2, <4>1 DEF WriteAccepted
      <4>2. CASE WriteRefused
        <5>1. PICK k \in 0..(IF PartialWrites THEN Len(Head(work).ids) - 1 ELSE 0) :
                      Land(Range(SubSeq(Head(work).ids, 1, k)))
          BY <4>2 DEF WriteRefused
        <5>2. k \in 0..Len(Head(work).ids)
          BY <3>2, <5>1
        <5> QED
          BY <3>2, <5>1, <5>2, PrefixRange
      <4> QED
        BY <2>3, <4>1, <4>2
    <3>4. \A r \in Records : Moved(r)' => Moved(r) \/ Kept(r)
      BY <3>1, <3>3, LandMovesKept
    <3> QED
      BY <3>1, <3>4, KeepWithin
  <2> QED
    BY <1>6, <2>1, <2>2, <2>3, KeepRead, KeepAppend, KeepPublish, KeepPublishIds DEF Batch
<1>7. CASE RollingBack
  <2>1. RunKeeps'
    BY <1>7 DEF RollingBack, RestoreSlice, RestoreMismatch, RestoreRefused, RequeueSlice, FinishRollback,
                Exit, RunKeeps
  <2>2. CASE RequeueSlice \/ FinishRollback
    BY <2>1, <2>2, KeepOutside DEF RequeueSlice, FinishRollback, Exit
  <2>3. CASE RestoreSlice \/ RestoreMismatch \/ RestoreRefused
    <3>2. SliceEnd \in Nat /\ Len(shadowIds) \in Nat /\ rbPos \in Nat
      BY SizeAssumption, LenProperties DEF TypeOK, SliceEnd, Min2
    <3>1. /\ UNCHANGED shadowVars /\ pc' \in {"requeue", "idle"}
          /\ \/ UNCHANGED store
             \/ \E last \in Nat : last <= Len(shadowIds) /\ Restore(last)
      <4>1. CASE RestoreSlice
        BY <3>2, <4>1 DEF RestoreSlice
      <4>2. CASE RestoreMismatch
        <5>1. UNCHANGED store \/ Restore(Len(shadowIds))
          BY <4>2 DEF RestoreMismatch
        <5> QED
          BY <3>2, <4>2, <5>1 DEF RestoreMismatch, Exit
      <4>3. CASE RestoreRefused
        <5>1. PICK last \in (IF PartialWrites THEN rbPos .. SliceEnd - 1 ELSE {rbPos}) :
                      Restore(last)
          BY <4>3 DEF RestoreRefused
        <5>2. last \in Nat /\ last <= Len(shadowIds)
          BY <3>2, <4>3, <5>1, SizeAssumption DEF RestoreRefused, SliceEnd, Min2, TypeOK
        <5> QED
          BY <4>3, <5>1, <5>2 DEF RestoreRefused, Exit
      <4> QED
        BY <2>3, <4>1, <4>2, <4>3
    <3>3. \A r \in Records : Moved(r)' => Moved(r) \/ Kept(r)
      BY <3>1, <3>2, RestoreMovesKept DEF Moved
    <3> QED
      BY <2>1, <3>1, <3>3
         DEF KeepInv, RunKeeps, BatchIsKept, ListedIsKept, MovedIsKept, Kept
  <2> QED
    BY <1>7, <2>2, <2>3 DEF RollingBack
<1>8. CASE Environment
  <2>1. CASE RequestPause \/ StoreGoesMute
    BY <2>1, KeepWithin DEF RequestPause, StoreGoesMute, Moved
  <2>2. CASE DeleteRecord
    <3>1. \A r \in Records : Moved(r)' => Moved(r)
      BY <2>2 DEF DeleteRecord, Present, Moved, TypeOK
    <3> QED
      BY <2>2, <3>1, KeepWithin DEF DeleteRecord
  <2>3. CASE Crash
    <3>1. /\ UNCHANGED shadowVars /\ pc' = "idle"
      BY <2>3 DEF Crash, Exit
    <3>2. ASSUME pc = "write", work # <<>>, NEW k \in 1..Len(Head(work).ids),
                 Land(Range(SubSeq(Head(work).ids, 1, k)))
          PROVE  \A r \in Records : Moved(r)' => Moved(r) \/ Kept(r)
      <4>1. /\ Head(work).ids \in Seq(Records) /\ Len(Head(work).ids) \in Nat
            /\ Range(Head(work).ids) \subseteq Range(batch)
        BY <3>2, SegmentInBatch
      <4>2. Range(SubSeq(Head(work).ids, 1, k)) \subseteq Range(batch)
        BY <4>1, PrefixRange
      <4> QED
        BY <3>2, <4>2, LandMovesKept
    <3>3. ASSUME SliceEnd <= Len(shadowIds), NEW last \in Slice, Restore(last)
          PROVE  \A r \in Records : Moved(r)' => Moved(r) \/ Kept(r)
      <4>1. last \in Nat /\ last <= Len(shadowIds)
        BY <3>3, SizeAssumption, LenProperties DEF TypeOK, Slice, SliceEnd, Min2
      <4> QED
        BY <3>3, <4>1, RestoreMovesKept
    <3>4. \A r \in Records : Moved(r)' => Moved(r) \/ Kept(r)
      BY <2>3, <3>2, <3>3 DEF Crash, Moved
    <3> QED
      BY <3>1, <3>4
         DEF KeepInv, RunKeeps, BatchIsKept, ListedIsKept, MovedIsKept, Kept
  <2> QED
    BY <1>8, <2>1, <2>2, <2>3 DEF Environment
<1> QED
  BY <1>1, <1>2, <1>3, <1>4, <1>5, <1>6, <1>7, <1>8 DEF Next, Process

-----------------------------------------------------------------------------
(* The theorems *)

\* The inductive invariant of the proofs below.
Inv == TypeOK /\ ShadowInv

\* A system with no job satisfies the inductive invariant.
LEMMA InvInit == ASSUME Init PROVE Inv
<1>1. TypeOK
  <2>1. <<>> \in Seq(Records) /\ <<>> \in Seq(Segments) /\ <<>> \in Seq(Vectors)
    OBVIOUS
  <2>2. store \in [Records -> Vectors \cup {NoVector}]
    BY OriginalType DEF Init
  <2> QED
    BY <2>1, <2>2 DEF Init, TypeOK, JobStates, ItemStates, Locations, NoBatch
<1>2. FilesInv
  BY DEF Init, FilesInv, BatchWasRead, VectorsBeforeManifest, WorkIsOfBatch, BatchInHand
<1>3. KeepInv
  BY DEF Init, KeepInv, RunKeeps, BatchIsKept, ListedIsKept, MovedIsKept, Moved
<1> QED
  BY <1>1, <1>2, <1>3 DEF Inv, ShadowInv

\* No step but the start of a command touches the waiver.
LEMMA WaivedByCommand ==
    ASSUME [Next]_vars, ~ Migrate, ~ Resume
    PROVE  UNCHANGED unkept
<1> USE DEF vars, histVars
<1>1. CASE Command \/ Rollback \/ RollingBack \/ Environment
  BY <1>1 DEF Command, RollingBack, Environment, Rollback, RegisterJob, Enqueue, Preview,
     DoNotStart, RestoreSlice, RestoreMismatch, RestoreRefused, RequeueSlice, FinishRollback,
     RequestPause, Crash, StoreGoesMute, DeleteRecord
<1>2. CASE Loop
  BY <1>2 DEF Loop, SetRunning, ClearStaleRequest, StopAtLimit, StopBeforeBatch, TakeBatch,
     Pressure, ClearRequest, Finish
<1>3. CASE Batch
  BY <1>3 DEF Batch, SkipBatch, ReadBatch, AppendVectors, PublishManifest, PublishIds,
     MarkShadowed, WriteAccepted, WriteRefused, MarkRejected, VerifyPassed, VerifyFailed,
     MarkDone
<1> QED
  BY <1>1, <1>2, <1>3 DEF Next, Process

\* Only the start of a command can waive the promise, and it does nothing else.
LEMMA WaiveAlone ==
    ASSUME TypeOK, [Next]_vars
    PROVE  UNCHANGED unkept
           \/ (unkept' /\ UNCHANGED <<store, shadowVars>>)
<1>1. CASE Migrate \/ Resume
  <2>1. unkept' = (unkept \/ ~keep') /\ UNCHANGED <<store, shadowVars>>
    BY <1>1 DEF Migrate, Resume, TakeLock, storeVars
  <2>2. unkept' \/ unkept' = unkept
    <3>1. unkept \in BOOLEAN
      BY DEF TypeOK
    <3>2. CASE unkept = TRUE
      BY <2>1, <3>2, Zenon
    <3>3. CASE unkept = FALSE
      BY <2>1, <3>3, Zenon
    <3> QED
      BY <3>1, <3>2, <3>3, Zenon
  <2> QED
    BY <2>1, <2>2
<1> QED
  BY <1>1, WaivedByCommand

\* Every step of the system keeps the inductive invariant.
LEMMA InvStep == ASSUME Inv, [Next]_vars PROVE Inv'
<1>1. TypeOK'
  BY TypeStep DEF Inv
<1>2. FilesInv'
  BY FilesStep DEF Inv
<1>3. unkept' \/ KeepInv'
  <2>1. CASE ~unkept'
    <3>1. ~unkept
      BY <2>1, WaiveAlone, Zenon DEF Inv
    <3> QED
      BY <2>1, <3>1, KeepStep DEF Inv, ShadowInv
  <2> QED
    BY <2>1
<1> QED
  BY <1>1, <1>2, <1>3 DEF Inv, ShadowInv

\* The inductive invariant holds between any two durable writes.
LEMMA InvAlways == Spec => []Inv
BY InvInit, InvStep, PTL DEF Spec

\* Every variable keeps its type, between any two durable writes of any command.
THEOREM TypeCorrect == Spec => []TypeOK
BY InvAlways, PTL DEF Inv

\* The shadow files, the batch in hand and the store agree in every reachable state.
THEOREM ShadowConsistent == Spec => []ShadowInv
BY InvAlways, PTL DEF Inv

\* For any number of records, any batch sizes, and any number of crashes, refused or
\* partial writes, pauses, resumes, deletions and rollbacks: a record that lost its
\* original vector has it in the shadow copy, unless a run was told not to keep it.
THEOREM OriginalAlwaysKept == Spec => []OriginalKept
<1>1. Inv => OriginalKept
  BY DEF Inv, ShadowInv, KeepInv, MovedIsKept, OriginalKept
<1> QED
  BY <1>1, InvAlways, PTL


\* Before any job nothing is moved and nothing needs keeping.
LEMMA PromiseInit == ASSUME Init PROVE Promise!Init
BY SizeAssumption DEF Init, Promise!Init, Moved, Kept

\* One step of the migration is one step of ReversibleRewrite, or none.
LEMMA PromiseStep == ASSUME Inv, Inv', [Next]_vars PROVE [Promise!Next]_(Promise!vars)
<1> DEFINE moved == {r \in Records : Moved(r)}
           kept == {r \in Records : Kept(r)}
<1>1. CASE unkept' /\ UNCHANGED <<store, shadowVars>>
  <2>1. moved' = moved /\ kept' = kept /\ unkept' = TRUE
    BY <1>1 DEF Moved, Kept, shadowVars, Inv, TypeOK
  <2> QED
    BY <2>1 DEF Promise!Next, Promise!Waive
<1>2. CASE UNCHANGED <<unkept, store>>
  <2>1. moved' = moved
    BY <1>2 DEF Moved
  <2>2. kept \subseteq kept'
    BY KeptStays DEF Inv
  <2> QED
    BY <1>2, <2>1, <2>2 DEF Promise!Next, Promise!Keep
<1>3. CASE UNCHANGED <<unkept, shadowVectors, shadowCount>>
  <2>1. kept' = kept
    BY <1>3 DEF Kept
  <2>2. unkept \/ moved' \subseteq kept
    BY <1>3, <2>1 DEF Inv, ShadowInv, KeepInv, MovedIsKept
  <2> QED
    BY <1>3, <2>1, <2>2 DEF Promise!Next, Promise!Rewrite
<1>4. UNCHANGED store \/ UNCHANGED <<shadowVectors, shadowCount>>
  <2>1. AppendVectors \/ PublishManifest => UNCHANGED store
    BY DEF AppendVectors, PublishManifest, storeVars
  <2> QED
    BY <2>1, ManifestGrows
<1>5. UNCHANGED unkept \/ (unkept' /\ UNCHANGED <<store, shadowVars>>)
  BY WaiveAlone DEF Inv
<1> QED
  BY <1>1, <1>2, <1>3, <1>4, <1>5

\* A migration implements ReversibleRewrite: step by step, a record leaves its
\* original vector only while the shadow copy holds it, and a copy is never given up.
THEOREM PromiseKept == Spec => KeepsPromise
<1>1. Init => Promise!Init
  BY PromiseInit
<1>2. Inv /\ Inv' /\ [Next]_vars => [Promise!Next]_(Promise!vars)
  BY PromiseStep
<1> QED
  BY <1>1, <1>2, InvAlways, PTL DEF Spec, KeepsPromise, Promise!Spec

\* What ReversibleRewrite allows leaves every moved record with a copy of its original.
THEOREM PromiseIsReversible == Promise!Spec => []Promise!Reversible
<1>1. Promise!Init => Promise!Reversible
  BY DEF Promise!Init, Promise!Reversible
<1>2. Promise!Reversible /\ [Promise!Next]_(Promise!vars) => Promise!Reversible'
  BY DEF Promise!Reversible, Promise!Next, Promise!vars, Promise!Waive, Promise!Keep,
     Promise!Rewrite
<1> QED
  BY <1>1, <1>2, PTL DEF Promise!Spec
=============================================================================
