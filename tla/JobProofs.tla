------------------------------ MODULE JobProofs ------------------------------
(***************************************************************************)
(* Proofs about a migration job from one command to the next: what a job   *)
(* that is never killed does to every record, for every number of records, *)
(* batch sizes, pauses, resumes, refused writes and rollbacks; and, under  *)
(* every fault, that nothing is marked done that was not written.          *)
(***************************************************************************)
EXTENDS MigrationProofs

-----------------------------------------------------------------------------
(* Mapped and original vectors *)

\* A mapped original is neither the original nor missing.
LEMMA MappedIsMoved ==
    ASSUME NEW r \in Records
    PROVE  /\ Original(r) \in Vectors /\ Mapped(Original(r)) \in Vectors
           /\ Original(r).gen = 0 /\ Mapped(Original(r)).gen = 1
           /\ Mapped(Original(r)) # Original(r)
           /\ NoVector \notin {Original(r), Mapped(Original(r))}
<1>1. /\ Original(r) \in Vectors /\ Original(r).gen = 0
      /\ Mapped(Original(r)) \in Vectors /\ Mapped(Original(r)).gen = 1
  BY DEF Original, Mapped, Vectors
<1> QED
  BY <1>1, NoVectorAssumption

\* A record of a rollback's slice gets back the vector that is paired with it.
LEMMA RestoredIsPaired ==
    ASSUME TypeOK, ShadowIsOriginal, NEW last \in Nat, last <= shadowCount,
           shadowCount = Len(shadowIds), Restore(last)
    PROVE  \A r \in Records :
              store'[r] = store[r] \/ (store[r] # NoVector /\ store'[r] = Original(r))
<1>1. ASSUME NEW r \in Records, Hits(r, last) # {}
      PROVE  shadowVectors[Latest(Hits(r, last))] = Original(r)
  <2>1. Hits(r, last) \in SUBSET (1..shadowCount)
    BY SizeAssumption DEF TypeOK, Hits, Slice, SliceEnd, Min2
  <2>2. Latest(Hits(r, last)) \in Hits(r, last)
    BY <1>1, <2>1, LatestIsOne DEF TypeOK
  <2>3. Latest(Hits(r, last)) \in 1..Len(shadowIds) /\ shadowIds[Latest(Hits(r, last))] = r
    BY <2>1, <2>2 DEF Hits
  <2> QED
    BY <2>3 DEF ShadowIsOriginal
<1> QED
  BY <1>1 DEF Restore

\* ... and every record the slice names is reached.
LEMMA SliceIsRestored ==
    ASSUME TypeOK, OwnVectors, ShadowIsOriginal, shadowCount = Len(shadowIds), Restore(SliceEnd)
    PROVE  \A i \in Slice : store'[shadowIds[i]] \in {NoVector, Original(shadowIds[i])}
<1>1. Slice \in SUBSET (1..shadowCount) /\ SliceEnd \in Nat /\ SliceEnd <= shadowCount
  BY SizeAssumption DEF TypeOK, Slice, SliceEnd, Min2
<1>2. SUFFICES ASSUME NEW i \in Slice
               PROVE  store'[shadowIds[i]] \in {NoVector, Original(shadowIds[i])}
  OBVIOUS
<1> DEFINE r == shadowIds[i]
<1>3. r \in Records
  BY <1>1, ElementOfSeq DEF TypeOK
<1>4. Hits(r, SliceEnd) # {} /\ Hits(r, SliceEnd) \in SUBSET (1..shadowCount)
  <2>1. i <= SliceEnd
    BY <1>1, SizeAssumption DEF Slice, TypeOK
  <2> QED
    BY <1>1, <2>1 DEF Hits
<1>5. Latest(Hits(r, SliceEnd)) \in Hits(r, SliceEnd)
  BY <1>4, LatestIsOne DEF TypeOK
<1>6. shadowVectors[Latest(Hits(r, SliceEnd))] = Original(r)
  BY <1>4, <1>5 DEF ShadowIsOriginal, Hits
<1> QED
  BY <1>3, <1>4, <1>6 DEF Restore, OwnVectors

-----------------------------------------------------------------------------
(* Steps around a batch *)

\* A step from outside a batch to outside a batch that leaves the records, the queue
\* and the shadow copy alone.
LEMMA JobBetween ==
    ASSUME JobInv, UNCHANGED <<store, item, shadowVars>>, mute' => mute,
           written' \in {written, <<>>},
           pc \notin BatchInHand, pc' \notin BatchInHand
    PROVE  /\ OwnVectors' /\ QueuedIsFresh' /\ BatchAccounted' /\ WrittenLanded'
           /\ ShadowIsOriginal'
<1> USE DEF JobInv, BatchInHand, shadowVars, Unmarked
<1>1. OwnVectors'
  BY DEF OwnVectors
<1>2. QueuedIsFresh'
  BY DEF QueuedIsFresh, Moved
<1>3. BatchAccounted' /\ WrittenLanded'
  BY DEF BatchAccounted, WrittenLanded
<1>4. ShadowIsOriginal'
  BY DEF ShadowIsOriginal
<1> QED
  BY <1>1, <1>2, <1>3, <1>4

\* The start of a command and its end.
LEMMA JobCommand ==
    ASSUME TypeOK, JobInv,
           Migrate \/ Resume \/ Rollback \/ RegisterJob \/ Preview \/ DoNotStart
    PROVE  JobInv'
<1> USE DEF Goto, jobVars, storeVars, shadowVars, runVars, batchVars, histVars
<1>1. /\ UNCHANGED <<store, item, shadowVars>> /\ (mute' => mute)
      /\ written' \in {written, <<>>}
      /\ pc \in {"idle", "prepare", "preview"}
      /\ pc' \in {"idle", "prepare", "enqueue", "preview", "start", "restore"}
  <2>1. CASE Migrate \/ Resume \/ Rollback
    BY <2>1 DEF Migrate, Resume, TakeLock, Rollback
  <2>2. CASE RegisterJob \/ Preview
    BY <2>2 DEF RegisterJob, Preview
  <2>3. CASE DoNotStart
    BY <2>3 DEF DoNotStart, Exit, DropBatch
  <2> QED
    BY <2>1, <2>2, <2>3
<1>2. OwnVectors' /\ QueuedIsFresh' /\ BatchAccounted' /\ WrittenLanded' /\ ShadowIsOriginal'
  BY <1>1, JobBetween DEF BatchInHand
<1>3. BatchIsOriginal'
  BY <1>1 DEF BatchIsOriginal, BatchInHand, Handling
<1>4. StateIsTold'
  <2>2. CASE Migrate \/ Resume \/ Rollback
    BY <2>2 DEF Migrate, Resume, TakeLock, Rollback, JobInv, StateIsTold, BetweenRuns
  <2>3. CASE RegisterJob \/ DoNotStart
    BY <2>3 DEF RegisterJob, DoNotStart, Exit, JobInv, StateIsTold, BetweenRuns
  <2>4. CASE Preview
    BY <2>4 DEF Preview, JobInv, StateIsTold, BetweenRuns
  <2> QED
    BY <2>2, <2>3, <2>4
<1>5. RestoredSoFar'
  <2>1. rbPos' = 0 /\ UNCHANGED putBack
    BY <1>1 DEF Migrate, Resume, TakeLock, Rollback, RegisterJob, Preview, DoNotStart, Exit,
                JobInv, RestoredSoFar
  <2> QED
    BY <1>1, <2>1 DEF JobInv, RestoredSoFar, BetweenRuns, Moved
<1>6. MovedIsListed'
  <2>1. unkept => unkept'
    <3>1. [Next]_vars
      BY DEF Next, Process, Command
    <3> QED
      BY <3>1, WaiveAlone
  <2>2. jobState' = "rolled_back" => jobState = "rolled_back"
    <3>1. CASE Migrate \/ Resume \/ Rollback
      BY <3>1 DEF Migrate, Resume, TakeLock, Rollback
    <3>2. CASE RegisterJob
      BY <3>2 DEF RegisterJob
    <3>3. CASE Preview \/ DoNotStart
      BY <3>3 DEF Preview, DoNotStart
    <3> QED
      BY <3>1, <3>2, <3>3
  <2> QED
    BY <1>1, <2>1, <2>2 DEF JobInv, MovedIsListed, Moved
<1> QED
  BY <1>2, <1>3, <1>4, <1>5, <1>6 DEF JobInv

\* Enqueueing turns absent records, which no run has touched, into pending ones.
LEMMA JobEnqueue ==
    ASSUME TypeOK, JobInv, Enqueue
    PROVE  JobInv'
<1> USE DEF jobVars, storeVars, shadowVars, runVars, batchVars, histVars
<1>1. /\ pc = "enqueue" /\ pc' = "prepare"
      /\ UNCHANGED <<jobState, store, mute, shadowVectors, shadowCount, shadowIds, rbPos, putBack, unkept, written>>
      /\ \A r \in Records : item'[r] = item[r] \/ (item[r] = "absent" /\ item'[r] = "pending")
  BY DEF Enqueue, Goto, MarkAll, FirstOf, In
<1>2. OwnVectors' /\ ShadowIsOriginal' /\ RestoredSoFar' /\ MovedIsListed'
  BY <1>1 DEF JobInv, OwnVectors, ShadowIsOriginal, RestoredSoFar, BetweenRuns, MovedIsListed, Moved
<1>3. BatchIsOriginal' /\ BatchAccounted' /\ WrittenLanded'
  BY <1>1 DEF BatchIsOriginal, BatchInHand, Handling, BatchAccounted, WrittenLanded, Unmarked,
              JobInv
<1>4. QueuedIsFresh'
  BY <1>1 DEF JobInv, QueuedIsFresh, Moved, Unmarked
<1>5. StateIsTold'
  BY <1>1 DEF JobInv, StateIsTold, BetweenRuns
<1> QED
  BY <1>2, <1>3, <1>4, <1>5 DEF JobInv

\* The run loop: it takes its batch from the queue, and completes the job only when
\* the queue is empty.
LEMMA JobLoop ==
    ASSUME TypeOK, JobInv, Loop
    PROVE  JobInv'
<1> USE DEF Goto, jobVars, storeVars, shadowVars, runVars, batchVars, histVars
<1>1. /\ UNCHANGED <<store, item, shadowVars>> /\ (mute' => mute)
      /\ written' \in {written, <<>>}
      /\ pc \in {"start", "clear", "loop", "pressure", "settle", "finish"}
      /\ pc' \in {"clear", "loop", "read", "settle", "finish", "idle"}
      /\ UNCHANGED unkept /\ (pc' # "idle" => rbPos' = rbPos) /\ (pc' = "idle" => rbPos' = 0)
  <2>1. CASE SetRunning \/ ClearStaleRequest \/ StopAtLimit \/ ClearRequest
    BY <2>1 DEF SetRunning, ClearStaleRequest, StopAtLimit, ClearRequest
  <2>2. CASE StopBeforeBatch \/ TakeBatch \/ Pressure
    BY <2>2 DEF StopBeforeBatch, TakeBatch, Pressure
  <2>3. CASE Finish
    BY <2>3 DEF Finish, Exit, DropBatch
  <2> QED
    BY <2>1, <2>2, <2>3 DEF Loop
<1>2. OwnVectors' /\ QueuedIsFresh' /\ BatchAccounted' /\ WrittenLanded' /\ ShadowIsOriginal'
  BY <1>1, JobBetween DEF BatchInHand
<1>3. BatchIsOriginal'
  <2>1. CASE pc' # "read"
    BY <1>1, <2>1 DEF BatchIsOriginal, BatchInHand, Handling
  <2>2. CASE pc' = "read"
    <3>1. TakeBatch
      BY <2>2 DEF Loop, SetRunning, ClearStaleRequest, StopAtLimit, StopBeforeBatch, Pressure,
                  ClearRequest, Finish, Exit
    <3>2. Range(batch') \subseteq Remaining
      BY <2>2, <3>1 DEF TakeBatch, Lists, FirstOf
    <3>3. Remaining' = Remaining
      BY <1>1 DEF Remaining, In
    <3> QED
      BY <2>2, <3>2, <3>3 DEF BatchIsOriginal, BatchInHand, Handling
  <2> QED
    BY <2>1, <2>2
<1>4. StateIsTold'
  <2>2. CASE SetRunning
    BY <2>2 DEF SetRunning, StateIsTold
  <2>3. CASE Finish
    BY <2>3 DEF Finish, Exit, FinalState, StateIsTold, BetweenRuns
  <2>4. CASE ~SetRunning /\ ~Finish
    <3>1. UNCHANGED jobState /\ pc # "start" /\ pc' # "idle"
      <4>1. CASE ClearStaleRequest \/ StopAtLimit \/ ClearRequest
        BY <4>1 DEF ClearStaleRequest, StopAtLimit, ClearRequest
      <4>2. CASE StopBeforeBatch \/ TakeBatch \/ Pressure
        BY <4>2 DEF StopBeforeBatch, TakeBatch, Pressure
      <4> QED
        BY <2>4, <4>1, <4>2 DEF Loop
    <3> QED
      BY <1>1, <3>1 DEF JobInv, StateIsTold, BetweenRuns
  <2> QED
    BY <2>2, <2>3, <2>4
<1>5. RestoredSoFar'
  <2>1. putBack' = {}
    BY <1>1 DEF Loop, SetRunning, ClearStaleRequest, StopAtLimit, StopBeforeBatch, TakeBatch,
           Pressure, ClearRequest, Finish, JobInv, RestoredSoFar, BetweenRuns
  <2> QED
    BY <1>1, <2>1 DEF JobInv, RestoredSoFar
<1>6. MovedIsListed'
  <2>1. jobState' # "rolled_back" \/ jobState' = jobState
    BY DEF Loop, SetRunning, ClearStaleRequest, StopAtLimit, StopBeforeBatch, TakeBatch,
           Pressure, ClearRequest, Finish, FinalState
  <2> QED
    BY <1>1, <2>1 DEF JobInv, MovedIsListed, Moved
<1> QED
  BY <1>2, <1>3, <1>4, <1>5, <1>6 DEF JobInv

-----------------------------------------------------------------------------
(* One batch *)

\* Within a batch the row says the job is running, and nothing is being rolled back.
LEMMA JobRunning ==
    ASSUME JobInv, UNCHANGED <<jobState, rbPos, putBack>>,
           pc \in {"read", "append", "publish", "index", "shadowed", "write", "verify", "done"},
           pc' \in {"append", "publish", "index", "shadowed", "write", "verify", "done", "pressure"}
    PROVE  StateIsTold' /\ RestoredSoFar' /\ jobState' = "running"
BY DEF JobInv, StateIsTold, BetweenRuns, RestoredSoFar

\* A batch nobody has is skipped: nothing of it was touched.
LEMMA JobSkip ==
    ASSUME TypeOK, JobInv, SkipBatch
    PROVE  JobInv'
<1>1. /\ pc = "read" /\ pc' = "pressure"
      /\ UNCHANGED <<jobState, store, mute, shadowVectors, shadowCount, shadowIds, rbPos, putBack, unkept>>
      /\ written' = <<>>
      /\ \A r \in Records : item'[r] = item[r] \/ item'[r] = "skipped"
  BY DEF SkipBatch, DropBatch, Goto, MarkAll, jobVars, storeVars, shadowVars, histVars
<1>2. OwnVectors' /\ ShadowIsOriginal' /\ MovedIsListed'
  BY <1>1 DEF JobInv, OwnVectors, ShadowIsOriginal, MovedIsListed, Moved
<1>3. BatchIsOriginal' /\ BatchAccounted' /\ WrittenLanded'
  BY <1>1 DEF BatchIsOriginal, BatchInHand, Handling, BatchAccounted, WrittenLanded
<1>4. QueuedIsFresh'
  BY <1>1 DEF JobInv, QueuedIsFresh, Moved, Unmarked
<1> QED
  BY <1>1, <1>2, <1>3, <1>4, JobRunning DEF JobInv

\* A batch is read while every record of it still has its original vector.
LEMMA JobRead ==
    ASSUME TypeOK, ShadowInv, JobInv, ReadBatch
    PROVE  JobInv'
<1>1. /\ pc = "read" /\ pc' \in {"append", "write"} /\ Range(batch') = Range(batch) \cap Present
      /\ batch' \in Seq(Records)
      /\ UNCHANGED <<jobState, item, store, mute, shadowVectors, shadowCount, shadowIds, rbPos,
                     putBack, unkept, keep, written, rejected>>
      /\ snapshot' = [r \in Records |-> IF r \in Range(batch') THEN store[r] ELSE NoVector]
      /\ pc' = "write" => ~keep /\ work' = <<[ids |-> batch', depth |-> 0]>>
  BY ListingType DEF ReadBatch, Goto, Lists, jobVars, storeVars, shadowVars, runVars, histVars
<1>2. \A r \in Range(batch') : r \in Records /\ store[r] = Original(r) /\ r \in Remaining
  <2>1. ASSUME NEW r \in Range(batch')
        PROVE  r \in Records /\ store[r] # NoVector /\ r \in Remaining
    BY <1>1, <2>1 DEF Present, JobInv, BatchIsOriginal
  <2> QED
    BY <1>1, <2>1 DEF JobInv, QueuedIsFresh, Unmarked, Moved, Remaining, In
<1>3. OwnVectors' /\ ShadowIsOriginal'
  BY <1>1 DEF JobInv, OwnVectors, ShadowIsOriginal
<1>4. QueuedIsFresh'
  BY <1>1 DEF JobInv, QueuedIsFresh, Moved, Unmarked
<1>5. BatchIsOriginal'
  <2>1. \A r \in Range(batch') : snapshot'[r] = Original(r) /\ store'[r] # NoVector
    BY <1>1, <1>2, MappedIsMoved
  <2> QED
    BY <1>1, <2>1 DEF BatchIsOriginal
<1>6. BatchAccounted'
  <2>1. ASSUME pc' = "write", NEW r \in Range(batch')
        PROVE  \E i \in 1..Len(work') : r \in Range(work'[i].ids)
    <3>1. work' = <<[ids |-> batch', depth |-> 0]>>
      BY <1>1, <2>1
    <3>2. Len(work') = 1 /\ work'[1].ids = batch'
      BY <3>1
    <3>3. 1 \in 1..Len(work') /\ r \in Range(work'[1].ids)
      BY <3>2
    <3> QED
      BY <3>3
  <2> QED
    BY <1>1, <2>1 DEF BatchAccounted
<1>7. WrittenLanded'
  <2>1. written' = <<>> /\ Range(<<>>) = {}
    BY <1>1 DEF JobInv, WrittenLanded, Unmarked, Range
  <2> QED
    BY <2>1 DEF WrittenLanded
<1>8. MovedIsListed'
  <2>1. unkept \/ keep
    BY <1>1 DEF ShadowInv, KeepInv, RunKeeps
  <2> QED
    BY <1>1, <2>1 DEF JobInv, MovedIsListed, Moved
<1> QED
  BY <1>1, <1>3, <1>4, <1>5, <1>6, <1>7, <1>8, JobRunning DEF JobInv

\* vectors.bin grows behind what the manifest vouches for, which stays as it was.
LEMMA JobAppend ==
    ASSUME TypeOK, ShadowInv, JobInv, AppendVectors
    PROVE  JobInv'
<1>1. /\ pc = "append" /\ pc' = "publish"
      /\ UNCHANGED <<jobState, item, store, mute, shadowCount, shadowIds, rbPos, putBack, unkept, batch,
                     snapshot, written>>
  BY DEF AppendVectors, Goto, jobVars, storeVars, shadowVars, runVars, batchVars, histVars
<1>2. ShadowIsOriginal'
  <2>1. \A i \in 1..shadowCount : shadowVectors'[i] = shadowVectors[i]
    BY AppendedVectors DEF ShadowInv
  <2> QED
    BY <1>1, <2>1 DEF JobInv, ShadowIsOriginal
<1>3. OwnVectors' /\ QueuedIsFresh' /\ BatchIsOriginal' /\ BatchAccounted' /\ WrittenLanded'
  BY <1>1 DEF JobInv, OwnVectors, QueuedIsFresh, Moved, BatchIsOriginal, BatchInHand, Handling,
              BatchAccounted, WrittenLanded, Unmarked
<1>4. MovedIsListed'
  BY <1>1 DEF JobInv, MovedIsListed, Moved
<1> QED
  BY <1>1, <1>2, <1>3, <1>4, JobRunning DEF JobInv

\* The manifest vouches for exactly the batch's originals behind the earlier entries.
LEMMA JobPublish ==
    ASSUME TypeOK, ShadowInv, JobInv, PublishManifest
    PROVE  JobInv'
<1>1. /\ pc = "publish" /\ pc' = "index" /\ shadowCount' = shadowCount + Len(batch)
      /\ UNCHANGED <<jobState, item, store, mute, shadowVectors, shadowIds, rbPos, putBack, unkept, batch,
                     snapshot, written>>
  BY DEF PublishManifest, Goto, jobVars, storeVars, shadowVars, runVars, batchVars, histVars
<1>2. ShadowIsOriginal'
  <2>1. shadowCount = Len(shadowIds)
    BY <1>1, LenProperties DEF JobInv, ShadowIsOriginal, TypeOK
  <2>2. \A j \in 1..Len(batch) : shadowVectors[Len(shadowIds) + j] = Original(batch[j])
    <3>1. \A j \in 1..Len(batch) : batch[j] \in Range(batch)
      BY RangeType DEF TypeOK
    <3> QED
      BY <1>1, <2>1, <3>1
         DEF ShadowInv, FilesInv, VectorsBeforeManifest, JobInv, BatchIsOriginal, BatchInHand
  <2> QED
    BY <1>1, <2>1, <2>2 DEF JobInv, ShadowIsOriginal
<1>3. OwnVectors' /\ QueuedIsFresh' /\ BatchIsOriginal' /\ BatchAccounted' /\ WrittenLanded'
  BY <1>1 DEF JobInv, OwnVectors, QueuedIsFresh, Moved, BatchIsOriginal, BatchInHand, Handling,
              BatchAccounted, WrittenLanded, Unmarked
<1>4. MovedIsListed'
  BY <1>1 DEF JobInv, MovedIsListed, Moved
<1> QED
  BY <1>1, <1>2, <1>3, <1>4, JobRunning DEF JobInv

\* ids.json then names the batch, entry by entry, in the order of the vectors.
LEMMA JobPublishIds ==
    ASSUME TypeOK, ShadowInv, JobInv, PublishIds
    PROVE  JobInv'
<1>1. /\ pc = "index" /\ pc' = "shadowed" /\ shadowIds' = shadowIds \o batch
      /\ UNCHANGED <<jobState, item, store, mute, shadowVectors, shadowCount, rbPos, putBack, unkept, batch,
                     snapshot, written>>
  BY DEF PublishIds, Goto, jobVars, storeVars, shadowVars, runVars, batchVars, histVars
<1>2. /\ shadowIds \in Seq(Records) /\ batch \in Seq(Records)
      /\ Len(shadowIds) \in Nat /\ Len(batch) \in Nat
  BY LenProperties DEF TypeOK
<1>3. /\ Len(shadowIds') = Len(shadowIds) + Len(batch)
      /\ \A i \in 1..Len(shadowIds) : shadowIds'[i] = shadowIds[i]
      /\ \A j \in 1..Len(batch) : shadowIds'[Len(shadowIds) + j] = batch[j]
  <2>1. /\ Len(shadowIds \o batch) = Len(shadowIds) + Len(batch)
        /\ \A i \in 1..Len(shadowIds) : (shadowIds \o batch)[i] = shadowIds[i]
        /\ \A j \in 1..Len(batch) : (shadowIds \o batch)[Len(shadowIds) + j] = batch[j]
    BY <1>2, ConcatElements
  <2> QED
    BY <1>1, <2>1, Zenon
<1>4. ShadowIsOriginal'
  <2>1. \A i \in 1..Len(shadowIds') :
           i \in 1..Len(shadowIds)
           \/ (i - Len(shadowIds) \in 1..Len(batch) /\ i = Len(shadowIds) + (i - Len(shadowIds)))
    BY <1>2, <1>3
  <2>2. \A i \in 1..Len(shadowIds) : shadowVectors[i] = Original(shadowIds'[i])
    BY <1>3 DEF JobInv, ShadowIsOriginal
  <2>3. \A j \in 1..Len(batch) :
           shadowVectors[Len(shadowIds) + j] = Original(shadowIds'[Len(shadowIds) + j])
    BY <1>1, <1>3 DEF JobInv, ShadowIsOriginal
  <2>4. \A i \in 1..Len(shadowIds') : shadowVectors[i] = Original(shadowIds'[i])
    BY <2>1, <2>2, <2>3
  <2>5. shadowCount = Len(shadowIds')
    BY <1>1, <1>3 DEF JobInv, ShadowIsOriginal
  <2> QED
    BY <1>1, <1>2, <1>3, <2>4, <2>5 DEF ShadowIsOriginal
<1>5. OwnVectors' /\ QueuedIsFresh' /\ BatchIsOriginal' /\ BatchAccounted' /\ WrittenLanded'
  BY <1>1 DEF JobInv, OwnVectors, QueuedIsFresh, Moved, BatchIsOriginal, BatchInHand, Handling,
              BatchAccounted, WrittenLanded, Unmarked
<1>6. /\ Range(batch) \subseteq Range(shadowIds')
      /\ Range(shadowIds) \subseteq Range(shadowIds')
  <2>1. shadowIds' \in Seq(Records)
    BY <1>1, <1>2, ConcatProperties
  <2>2. ASSUME NEW r \in Range(batch) PROVE r \in Range(shadowIds')
    <3>1. PICK j \in 1..Len(batch) : batch[j] = r
      BY <1>2, RangeEquality
    <3>2. Len(shadowIds) + j \in 1..Len(shadowIds')
      BY <1>2, <1>3
    <3> QED
      BY <1>3, <2>1, <3>1, <3>2, RangeType
  <2>3. ASSUME NEW r \in Range(shadowIds) PROVE r \in Range(shadowIds')
    <3>1. PICK j \in 1..Len(shadowIds) : shadowIds[j] = r
      BY <1>2, RangeEquality
    <3>2. j \in 1..Len(shadowIds')
      BY <1>2, <1>3
    <3> QED
      BY <1>3, <2>1, <3>1, <3>2, RangeType
  <2> QED
    BY <2>2, <2>3
<1>7. MovedIsListed'
  BY <1>1, <1>6 DEF JobInv, MovedIsListed, Moved
<1>8. StateIsTold' /\ RestoredSoFar'
  BY <1>1, JobRunning
<1> QED
  BY <1>4, <1>5, <1>7, <1>8 DEF JobInv

\* The marks come last, and the whole batch is the first piece of work.
LEMMA JobShadowed ==
    ASSUME TypeOK, ShadowInv, JobInv, MarkShadowed
    PROVE  JobInv'
<1>1. /\ pc = "shadowed" /\ pc' = "write" /\ work' = <<[ids |-> batch, depth |-> 0]>>
      /\ UNCHANGED <<jobState, store, mute, shadowVectors, shadowCount, shadowIds, rbPos, putBack, unkept,
                     batch, snapshot, written, rejected>>
      /\ \A r \in Records : item'[r] = item[r] \/ (r \in Range(batch) /\ item'[r] = "shadowed")
  BY DEF MarkShadowed, MarkAll, Goto, jobVars, storeVars, shadowVars, runVars, histVars
<1>2. OwnVectors' /\ ShadowIsOriginal' /\ BatchIsOriginal' /\ MovedIsListed'
  BY <1>1 DEF JobInv, OwnVectors, ShadowIsOriginal, BatchIsOriginal, BatchInHand, Handling,
              MovedIsListed, Moved
<1>3. QueuedIsFresh'
  BY <1>1 DEF JobInv, QueuedIsFresh, Moved, Unmarked
<1>4. BatchAccounted'
  <2>1. Len(work') = 1 /\ work'[1].ids = batch
    BY <1>1
  <2>2. 1 \in 1..Len(work') /\ \A r \in Range(batch) : r \in Range(work'[1].ids)
    BY <2>1
  <2> QED
    BY <1>1, <2>2 DEF BatchAccounted
<1>5. WrittenLanded'
  <2>1. written' = <<>> /\ Range(<<>>) = {}
    BY <1>1 DEF JobInv, WrittenLanded, Unmarked, Range
  <2> QED
    BY <1>1, <2>1 DEF WrittenLanded, Unmarked
<1>6. StateIsTold' /\ RestoredSoFar'
  BY <1>1, JobRunning
<1> QED
  BY <1>2, <1>3, <1>4, <1>5, <1>6 DEF JobInv

-----------------------------------------------------------------------------
(* The work list of a refused write *)

\* Where _write_or_split cuts a segment.
Middle(seg) == Len(seg.ids) \div 2

\* The two halves of a segment hold its ids in their order.
LEMMA HalvesAre ==
    ASSUME NEW seg \in Segments
    PROVE  /\ Len(seg.ids) \in Nat /\ Middle(seg) \in 0..Len(seg.ids)
           /\ Halves(seg)[1].ids \in Seq(Records) /\ Halves(seg)[2].ids \in Seq(Records)
           /\ Len(Halves(seg)[1].ids) = Middle(seg)
           /\ Len(Halves(seg)[2].ids) = Len(seg.ids) - Middle(seg)
           /\ \A j \in 1..Middle(seg) : Halves(seg)[1].ids[j] = seg.ids[j]
           /\ \A j \in 1..(Len(seg.ids) - Middle(seg)) :
                 Halves(seg)[2].ids[j] = seg.ids[Middle(seg) + j]
<1> DEFINE n == Len(seg.ids)
           m == Middle(seg)
           left == SubSeq(seg.ids, 1, m)
           right == SubSeq(seg.ids, m + 1, n)
<1>1. seg.ids \in Seq(Records) /\ n \in Nat /\ m \in Nat /\ m <= n
  BY LenProperties DEF Segments, Middle
<1>2. \A k \in 1..n : seg.ids[k] \in Records
  BY <1>1, ElementOfSeq
<1> HIDE DEF n
<1>3. left \in Seq(Records) /\ Len(left) = m /\ \A j \in 1..m : left[j] = seg.ids[j]
  <2>1. \A i \in 1..m : seg.ids[i] \in Records
    BY <1>1, <1>2
  <2> QED
    BY <1>1, <2>1, SubSeqProperties
<1>4. right \in Seq(Records) /\ Len(right) = n - m /\ \A j \in 1..(n - m) : right[j] = seg.ids[m + j]
  <2>1. \A i \in (m + 1)..n : seg.ids[i] \in Records
    BY <1>1, <1>2
  <2>2. n \in Int /\ m + 1 \in Int
    BY <1>1
  <2>3. /\ right \in Seq(Records)
        /\ Len(right) = IF m + 1 <= n THEN n - (m + 1) + 1 ELSE 0
        /\ \A j \in 1..(n - (m + 1) + 1) : right[j] = seg.ids[(m + 1) + j - 1]
    BY ONLY <2>1, <2>2, SubSeqProperties
  <2> HIDE DEF right, m
  <2>4. /\ n - (m + 1) + 1 = n - m
        /\ (IF m + 1 <= n THEN n - (m + 1) + 1 ELSE 0) = n - m
        /\ \A j \in 1..(n - m) : (m + 1) + j - 1 = m + j
    BY <1>1
  <2> QED
    BY <2>3, <2>4
<1>5. Halves(seg) = <<[ids |-> left, depth |-> seg.depth + 1],
                      [ids |-> right, depth |-> seg.depth + 1]>>
  BY DEF Halves, Middle, n
<1> HIDE DEF left, right
<1>6. Halves(seg)[1].ids = left /\ Halves(seg)[2].ids = right
  BY <1>5
<1> QED
  BY <1>1, <1>3, <1>4, <1>6 DEF n

\* The piece of work being written is the first of the list.
LEMMA WorkSplit ==
    ASSUME TypeOK, work # <<>>
    PROVE  /\ Head(work) = work[1] /\ Head(work) \in Segments /\ Len(work) \in Nat \ {0}
           /\ Tail(work) \in Seq(Segments) /\ Len(Tail(work)) = Len(work) - 1
           /\ \A i \in 1..(Len(work) - 1) : Tail(work)[i] = work[i + 1]
BY HeadTailProperties, EmptySeq, ElementOfSeq, LenProperties DEF TypeOK

\* Its halves take its place, before the pieces that follow it.
LEMMA WorkHalved ==
    ASSUME TypeOK, work # <<>>, ~GivesUp(Head(work)),
           work' = Halves(Head(work)) \o Tail(work)
    PROVE  /\ Len(work') = Len(work) + 1
           /\ work'[1] = Halves(Head(work))[1] /\ work'[2] = Halves(Head(work))[2]
           /\ \A i \in 2..Len(work) : work'[i + 1] = work[i]
<1> DEFINE two == Halves(Head(work))
           rest == Tail(work)
<1>1. /\ two \in Seq(Segments) /\ Len(two) = 2 /\ rest \in Seq(Segments)
      /\ Len(work) \in Nat \ {0} /\ Len(rest) = Len(work) - 1
      /\ \A i \in 1..(Len(work) - 1) : rest[i] = work[i + 1]
  BY WorkSplit, HalvesType
<1>2. work' = two \o rest
  OBVIOUS
<1>3. /\ Len(two \o rest) = Len(two) + Len(rest)
      /\ \A i \in 1..Len(two) : (two \o rest)[i] = two[i]
      /\ \A i \in 1..Len(rest) : (two \o rest)[Len(two) + i] = rest[i]
  BY <1>1, ConcatElements
<1> HIDE DEF two, rest
<1>4. Len(work') = 2 + Len(rest) /\ (\A i \in 1..2 : work'[i] = two[i])
      /\ \A i \in 1..Len(rest) : work'[2 + i] = rest[i]
  BY <1>1, <1>2, <1>3, Zenon
<1>5. \A i \in 2..Len(work) : work'[i + 1] = work[i]
  <2>1. ASSUME NEW i \in 2..Len(work) PROVE work'[i + 1] = work[i]
    <3>1. i - 1 \in 1..Len(rest) /\ 2 + (i - 1) = i + 1 /\ (i - 1) + 1 = i
      BY <1>1
    <3>2. work'[2 + (i - 1)] = rest[i - 1] /\ rest[i - 1] = work[(i - 1) + 1]
      BY <1>1, <1>4, <3>1
    <3> QED
      BY <3>1, <3>2
  <2> QED
    BY <2>1
<1> QED
  BY <1>1, <1>4, <1>5 DEF two

\* Whatever was still to do is still to do after the split.
LEMMA HalvedCovers ==
    ASSUME TypeOK, work # <<>>, ~GivesUp(Head(work)),
           work' = Halves(Head(work)) \o Tail(work),
           NEW i \in 1..Len(work), NEW r \in Range(work[i].ids)
    PROVE  \E k \in 1..Len(work') : r \in Range(work'[k].ids)
<1> DEFINE seg == Head(work)
           n == Len(seg.ids)
           m == Middle(seg)
<1>1. /\ seg = work[1] /\ seg \in Segments /\ Len(work) \in Nat \ {0}
      /\ Len(work') = Len(work) + 1
      /\ work'[1] = Halves(seg)[1] /\ work'[2] = Halves(seg)[2]
      /\ \A j \in 2..Len(work) : work'[j + 1] = work[j]
  BY WorkSplit, WorkHalved
<1>2. CASE i >= 2
  <2>1. work'[i + 1] = work[i] /\ i + 1 \in 1..Len(work')
    BY <1>1, <1>2
  <2> QED
    BY <2>1
<1>3. CASE i = 1
  <2>1. /\ n \in Nat /\ m \in 0..n
        /\ Halves(seg)[1].ids \in Seq(Records) /\ Halves(seg)[2].ids \in Seq(Records)
        /\ Len(Halves(seg)[1].ids) = m /\ Len(Halves(seg)[2].ids) = n - m
        /\ \A j \in 1..m : Halves(seg)[1].ids[j] = seg.ids[j]
        /\ \A j \in 1..(n - m) : Halves(seg)[2].ids[j] = seg.ids[m + j]
    BY <1>1, HalvesAre, Zenon
  <2>2. seg.ids \in Seq(Records)
    BY <1>1 DEF Segments
  <2>3. PICK j \in 1..n : seg.ids[j] = r
    <3>1. r \in Range(seg.ids)
      BY <1>1, <1>3
    <3> QED
      BY <2>2, <3>1, RangeEquality, Zenon
  <2>4. CASE j <= m
    <3>1. j \in 1..m /\ Halves(seg)[1].ids[j] = r
      <4>1. j \in 1..m
        BY <2>1, <2>3, <2>4
      <4>2. Halves(seg)[1].ids[j] = seg.ids[j]
        BY <2>1, <4>1
      <4> QED
        BY <2>3, <4>1, <4>2, Zenon
    <3>2. r \in Range(work'[1].ids)
      <4>1. j \in 1..Len(Halves(seg)[1].ids)
        BY <2>1, <3>1
      <4>2. r \in Range(Halves(seg)[1].ids)
        BY <2>1, <3>1, <4>1, RangeEquality, Zenon
      <4> QED
        BY <1>1, <4>2
    <3> QED
      BY <1>1, <3>2
  <2>5. CASE j > m
    <3>0. n \in Nat /\ m \in 0..n /\ j \in 1..n /\ j > m
      BY <2>1, <2>3, <2>5
    <3>1. j - m \in 1..(n - m) /\ m + (j - m) = j
      BY <3>0
    <3>2. Halves(seg)[2].ids[j - m] = r
      BY <2>1, <2>3, <3>1
    <3>3. r \in Range(work'[2].ids)
      <4>1. j - m \in 1..Len(Halves(seg)[2].ids)
        BY <2>1, <3>1
      <4>2. r \in Range(Halves(seg)[2].ids)
        BY <2>1, <3>2, <4>1, RangeEquality, Zenon
      <4> QED
        BY <1>1, <4>2
    <3> QED
      BY <1>1, <3>3
  <2> QED
    BY <2>1, <2>3, <2>4, <2>5
<1> QED
  BY <1>1, <1>2, <1>3
-----------------------------------------------------------------------------
(* Writing a batch *)

\* What lands of a batch is mapped from the originals, and everything else stays.
LEMMA JobLand ==
    ASSUME TypeOK, ShadowInv, JobInv, pc = "write", pc' = "write",
           UNCHANGED <<jobState, item, mute, shadowVectors, shadowCount, shadowIds, batch,
                       snapshot, rbPos, putBack, unkept>>,
           NEW S \in SUBSET Range(batch), Land(S)
    PROVE  /\ OwnVectors' /\ QueuedIsFresh' /\ BatchIsOriginal' /\ ShadowIsOriginal'
           /\ StateIsTold' /\ RestoredSoFar' /\ MovedIsListed'
           /\ \A r \in Range(batch) : store[r] = Mapped(snapshot[r]) \/ r \in S
                                         => store'[r] = Mapped(snapshot[r])
<1>1. Range(batch) \subseteq Records
  BY RangeOfSeq DEF TypeOK
<1>2. ~mute /\ \A r \in Range(batch) : snapshot[r] = Original(r) /\ store[r] # NoVector
  BY DEF JobInv, OwnVectors, BatchIsOriginal, BatchInHand, Handling
<1>3. /\ \A r \in S : store'[r] = Mapped(Original(r))
      /\ \A r \in Records \ S : store'[r] = store[r]
  BY <1>1, <1>2 DEF Land
<1>4. OwnVectors'
  BY <1>3 DEF JobInv, OwnVectors
<1>5. QueuedIsFresh'
  BY <1>1, <1>3 DEF JobInv, QueuedIsFresh, Unmarked, Moved
<1>6. \A r \in Range(batch) : store'[r] # NoVector
  BY <1>1, <1>2, <1>3, MappedIsMoved
<1>7. BatchIsOriginal'
  BY <1>2, <1>6 DEF JobInv, BatchIsOriginal, BatchInHand, Handling
<1>8. ShadowIsOriginal'
  BY DEF JobInv, ShadowIsOriginal
<1>9. MovedIsListed'
  <2>1. \A r \in Records : Moved(r)' => Moved(r) \/ r \in Range(batch)
    BY <1>3 DEF Moved
  <2>2. unkept \/ Range(batch) \subseteq Range(shadowIds)
    BY DEF JobInv, MovedIsListed
  <2>3. jobState' = "running"
    BY JobRunning
  <2> QED
    BY <2>1, <2>2, <2>3 DEF JobInv, MovedIsListed
<1>10. \A r \in Range(batch) : store[r] = Mapped(snapshot[r]) \/ r \in S
                                  => store'[r] = Mapped(snapshot[r])
  BY <1>1, <1>2, <1>3
<1> QED
  BY <1>4, <1>5, <1>7, <1>8, <1>9, <1>10, JobRunning

\* A write the store takes moves its piece of work to what was written.
LEMMA JobWriteAccepted ==
    ASSUME TypeOK, ShadowInv, JobInv, WriteAccepted
    PROVE  JobInv'
<1> DEFINE ids == Head(work).ids
<1>1. /\ pc = "write" /\ pc' = "write" /\ work # <<>> /\ Land(Range(ids))
      /\ written' = written \o ids /\ work' = Tail(work)
      /\ UNCHANGED <<jobState, item, mute, shadowVectors, shadowCount, shadowIds, batch,
                     snapshot, rbPos, putBack, unkept, rejected>>
  BY DEF WriteAccepted, jobVars, shadowVars, runVars, histVars
<1>2. /\ ids \in Seq(Records) /\ Range(ids) \subseteq Range(batch)
      /\ Range(written') = Range(written) \cup Range(ids)
  BY <1>1, SegmentInBatch, RangeConcatenation DEF TypeOK
<1> HIDE DEF ids
<1>3. /\ OwnVectors' /\ QueuedIsFresh' /\ BatchIsOriginal' /\ ShadowIsOriginal'
      /\ StateIsTold' /\ RestoredSoFar' /\ MovedIsListed'
      /\ \A r \in Range(batch) : store[r] = Mapped(snapshot[r]) \/ r \in Range(ids)
                                    => store'[r] = Mapped(snapshot[r])
  BY <1>1, <1>2, JobLand
<1>4. WrittenLanded'
  BY <1>1, <1>2, <1>3 DEF JobInv, WrittenLanded, Unmarked
<1>5. BatchAccounted'
  <2>1. SUFFICES ASSUME NEW r \in Range(batch)
                 PROVE  \/ r \in Range(written') \cup rejected
                        \/ \E k \in 1..Len(work') : r \in Range(work'[k].ids)
    BY <1>1 DEF BatchAccounted
  <2>2. CASE r \in Range(written) \cup rejected
    BY <1>2, <2>2
  <2>3. ASSUME NEW i \in 1..Len(work), r \in Range(work[i].ids)
        PROVE  r \in Range(ids) \/ \E k \in 1..Len(work') : r \in Range(work'[k].ids)
    <3>1. /\ ids = work[1].ids /\ Len(work) \in Nat \ {0} /\ Len(work') = Len(work) - 1
          /\ \A k \in 1..(Len(work) - 1) : work'[k] = work[k + 1]
      BY <1>1, WorkSplit DEF ids
    <3>2. CASE i = 1
      BY <2>3, <3>1, <3>2
    <3>3. CASE i > 1
      <4>1. i - 1 \in 1..Len(work') /\ (i - 1) + 1 = i
        BY <3>1, <3>3
      <4>2. work'[i - 1] = work[i]
        BY <3>1, <4>1
      <4> QED
        BY <2>3, <4>1, <4>2
    <3> QED
      BY <3>1, <3>2, <3>3
  <2> QED
    BY <1>1, <1>2, <2>2, <2>3 DEF JobInv, BatchAccounted
<1> QED
  BY <1>3, <1>4, <1>5 DEF JobInv

\* A refused write is given up, or comes back as its halves; what of it landed is
\* still in the batch in hand.
LEMMA JobWriteRefused ==
    ASSUME TypeOK, ShadowInv, JobInv, WriteRefused
    PROVE  JobInv'
<1> DEFINE ids == Head(work).ids
<1>1. /\ pc = "write" /\ pc' = "write" /\ work # <<>>
      /\ \E k \in 0..(IF PartialWrites THEN Len(ids) - 1 ELSE 0) : Land(Range(SubSeq(ids, 1, k)))
      /\ \/ rejected' = rejected \cup Range(ids) /\ work' = Tail(work)
         \/ ~GivesUp(Head(work)) /\ work' = Halves(Head(work)) \o Tail(work)
            /\ rejected' = rejected
      /\ UNCHANGED <<jobState, item, mute, shadowVectors, shadowCount, shadowIds, batch,
                     snapshot, rbPos, putBack, unkept, written>>
  BY DEF WriteRefused, jobVars, shadowVars, runVars, histVars
<1>2. ids \in Seq(Records) /\ Len(ids) \in Nat /\ Range(ids) \subseteq Range(batch)
  BY <1>1, SegmentInBatch
<1>3. PICK S \in SUBSET Range(batch) : Land(S)
  <2>1. PICK k \in 0..(IF PartialWrites THEN Len(ids) - 1 ELSE 0) : Land(Range(SubSeq(ids, 1, k)))
    BY <1>1
  <2>2. k \in 0..Len(ids)
    BY <1>2, <2>1
  <2>3. Range(SubSeq(ids, 1, k)) \subseteq Range(ids)
    BY <1>2, <2>2, PrefixRange
  <2> QED
    BY <1>2, <2>1, <2>3
<1> HIDE DEF ids
<1>4. /\ OwnVectors' /\ QueuedIsFresh' /\ BatchIsOriginal' /\ ShadowIsOriginal'
      /\ StateIsTold' /\ RestoredSoFar' /\ MovedIsListed'
      /\ \A r \in Range(batch) : store[r] = Mapped(snapshot[r]) => store'[r] = Mapped(snapshot[r])
  BY <1>1, <1>3, JobLand
<1>5. WrittenLanded'
  BY <1>1, <1>4 DEF JobInv, WrittenLanded, Unmarked
<1>6. BatchAccounted'
  <2>1. SUFFICES ASSUME NEW r \in Range(batch)
                 PROVE  \/ r \in Range(written) \cup rejected'
                        \/ \E k \in 1..Len(work') : r \in Range(work'[k].ids)
    BY <1>1 DEF BatchAccounted
  <2>2. rejected \subseteq rejected'
    BY <1>1
  <2>3. ASSUME NEW i \in 1..Len(work), r \in Range(work[i].ids)
        PROVE  r \in rejected' \/ \E k \in 1..Len(work') : r \in Range(work'[k].ids)
    <3>1. CASE ~GivesUp(Head(work)) /\ work' = Halves(Head(work)) \o Tail(work)
      BY <1>1, <2>3, <3>1, HalvedCovers
    <3>2. CASE rejected' = rejected \cup Range(ids) /\ work' = Tail(work)
      <4>1. /\ ids = work[1].ids /\ Len(work) \in Nat \ {0} /\ Len(work') = Len(work) - 1
            /\ \A k \in 1..(Len(work) - 1) : work'[k] = work[k + 1]
        BY <1>1, <3>2, WorkSplit DEF ids
      <4>2. CASE i = 1
        BY <2>3, <3>2, <4>1, <4>2
      <4>3. CASE i > 1
        <5>1. i - 1 \in 1..Len(work') /\ (i - 1) + 1 = i
          BY <4>1, <4>3
        <5>2. work'[i - 1] = work[i]
          BY <4>1, <5>1
        <5> QED
          BY <2>3, <5>1, <5>2
      <4> QED
        BY <4>1, <4>2, <4>3
    <3> QED
      BY <1>1, <3>1, <3>2
  <2> QED
    BY <1>1, <2>2, <2>3 DEF JobInv, BatchAccounted
<1> QED
  BY <1>4, <1>5, <1>6 DEF JobInv
-----------------------------------------------------------------------------
(* The read-back *)

\* Multiples of a fraction of d stay below d, and reach it.
LEMMA Fractions ==
    /\ \A d \in Nat, k \in Nat \ {0} : (k * d) \div k = d
    /\ \A d \in Nat, k \in Nat \ {0} : \A i \in 0..k : (i * d) \div k \in 0..d
<1>1. ASSUME NEW d \in Nat, NEW k \in Nat \ {0} PROVE (k * d) \div k = d
  OBVIOUS
<1>2. ASSUME NEW d \in Nat, NEW k \in Nat \ {0}, NEW i \in 0..k PROVE (i * d) \div k \in 0..d
  <2>1. i * d \in Nat /\ i * d <= k * d
    OBVIOUS
  <2> QED
    BY <2>1
<1> QED
  BY <1>1, <1>2

\* _verify_sample reads back positions that exist, the last of them always.
LEMMA SampleReachesLast ==
    ASSUME NEW n \in Nat
    PROVE  /\ SamplePositions(n) \subseteq 1..n
           /\ n > 0 => n \in SamplePositions(n)
<1> DEFINE m == SampleSize(n)
<1>1. m \in Nat /\ m <= n /\ (m = 1 => n = 1) /\ (n > 0 => m > 0)
  BY SizeAssumption DEF SampleSize, Min2
<1>2. SamplePositions(n) = IF m = 1 THEN {1}
                           ELSE {1 + (i * (n - 1)) \div (m - 1) : i \in 0..(m - 1)}
  BY DEF SamplePositions
<1> HIDE DEF m
<1>3. CASE m = 1
  BY <1>1, <1>2, <1>3
<1>4. CASE m = 0
  BY <1>1, <1>2, <1>4
<1>5. CASE m > 1
  <2>1. n - 1 \in Nat /\ m - 1 \in Nat \ {0}
    BY <1>1, <1>5
  <2>2. \A i \in 0..(m - 1) : (i * (n - 1)) \div (m - 1) \in 0..(n - 1)
    BY <2>1, Fractions
  <2>3. ((m - 1) * (n - 1)) \div (m - 1) = n - 1
    BY <2>1, Fractions
  <2>4. SamplePositions(n) = {1 + (i * (n - 1)) \div (m - 1) : i \in 0..(m - 1)}
    BY <1>2, <1>5
  <2> DEFINE at(i) == (i * (n - 1)) \div (m - 1)
  <2>5. /\ \A i \in 0..(m - 1) : at(i) \in 0..(n - 1)
        /\ at(m - 1) = n - 1 /\ m - 1 \in 0..(m - 1)
        /\ SamplePositions(n) = {1 + at(i) : i \in 0..(m - 1)}
    BY <2>1, <2>2, <2>3, <2>4
  <2> HIDE DEF at
  <2> QED
    BY <2>1, <2>5
<1> QED
  BY <1>1, <1>3, <1>4, <1>5

-----------------------------------------------------------------------------
(* The marks after a write *)

\* Refused records are failed; the others of the batch go on to the read-back.
LEMMA JobMarkRejected ==
    ASSUME TypeOK, ShadowInv, JobInv, MarkRejected
    PROVE  JobInv'
<1>1. /\ pc = "write" /\ work = <<>>
      /\ UNCHANGED <<jobState, store, mute, shadowVectors, shadowCount, shadowIds, rbPos, putBack, unkept>>
      /\ item' = [r \in Records |-> IF r \in rejected THEN "failed" ELSE item[r]]
      /\ \/ written = <<>> /\ written' = <<>> /\ pc' = "pressure"
         \/ pc' = "verify" /\ UNCHANGED <<batch, snapshot, written>>
  BY DEF MarkRejected, MarkAll, Goto, DropBatch, jobVars, storeVars, shadowVars, batchVars, histVars
<1>2. Range(batch) \subseteq Records
  BY RangeOfSeq DEF TypeOK
<1>3. \A r \in Range(batch) : r \in Range(written) \cup rejected
  <2>1. Len(work) = 0
    BY <1>1
  <2> QED
    BY <1>1, <2>1 DEF JobInv, BatchAccounted
<1>4. \A r \in Records : item'[r] = item[r] \/ (r \in rejected /\ item'[r] = "failed")
  BY <1>1
<1>5. OwnVectors' /\ ShadowIsOriginal' /\ MovedIsListed'
  BY <1>1 DEF JobInv, OwnVectors, ShadowIsOriginal, MovedIsListed, Moved
<1>6. QueuedIsFresh'
  <2>1. CASE pc' = "verify"
    BY <1>1, <1>4, <2>1 DEF JobInv, QueuedIsFresh, Unmarked, Moved
  <2>2. CASE pc' = "pressure"
    <3>1. \A r \in Range(batch) : item'[r] = "failed"
      <4>1. Range(<<>>) = {}
        BY DEF Range
      <4> QED
        BY <1>1, <1>2, <1>3, <2>2, <4>1
    <3> QED
      BY <1>1, <1>4, <2>2, <3>1 DEF JobInv, QueuedIsFresh, Unmarked, Moved
  <2> QED
    BY <1>1, <2>1, <2>2
<1>7. BatchIsOriginal' /\ WrittenLanded'
  BY <1>1 DEF JobInv, BatchIsOriginal, BatchInHand, Handling, WrittenLanded, Unmarked
<1>8. BatchAccounted'
  BY <1>1, <1>2, <1>3 DEF BatchAccounted
<1> QED
  BY <1>1, <1>5, <1>6, <1>7, <1>8, JobRunning DEF JobInv

\* What was written is read back as it was written, so the run is not interrupted.
LEMMA JobVerify ==
    ASSUME TypeOK, ShadowInv, JobInv, VerifyPassed \/ VerifyFailed
    PROVE  JobInv'
<1>1. pc = "verify" /\ written \in Seq(Records) /\ Len(written) \in Nat
  BY LenProperties DEF VerifyPassed, VerifyFailed, TypeOK
<1>2. Mismatched = {}
  <2>1. \A i \in SamplePositions(Len(written)) : written[i] \in Range(written)
    BY <1>1, SampleReachesLast, RangeEquality
  <2> QED
    BY <1>1, <2>1 DEF JobInv, WrittenLanded, Mismatched
<1>3. /\ pc' = "done"
      /\ UNCHANGED <<jobState, item, store, mute, shadowVectors, shadowCount, shadowIds, rbPos,
                     putBack, unkept, batch, snapshot, written>>
  BY <1>2 DEF VerifyPassed, VerifyFailed, Goto, jobVars, storeVars, shadowVars, batchVars, histVars
<1>4. OwnVectors' /\ ShadowIsOriginal' /\ MovedIsListed' /\ QueuedIsFresh'
  BY <1>1, <1>3 DEF JobInv, OwnVectors, ShadowIsOriginal, MovedIsListed, Moved, QueuedIsFresh,
                    Unmarked
<1>5. BatchIsOriginal' /\ WrittenLanded' /\ BatchAccounted'
  BY <1>1, <1>3 DEF JobInv, BatchIsOriginal, BatchInHand, Handling, WrittenLanded, Unmarked,
                    BatchAccounted
<1> QED
  BY <1>1, <1>3, <1>4, <1>5, JobRunning DEF JobInv

\* No record of the batch is left in the queue when the batch is dropped.
LEMMA JobMarkDone ==
    ASSUME TypeOK, ShadowInv, JobInv, MarkDone
    PROVE  JobInv'
<1>1. /\ pc = "done" /\ pc' = "pressure" /\ written' = <<>>
      /\ UNCHANGED <<jobState, store, mute, shadowVectors, shadowCount, shadowIds, rbPos, putBack, unkept>>
      /\ item' = [r \in Records |-> IF r \in Range(written) THEN "done" ELSE item[r]]
  BY DEF MarkDone, MarkAll, WrittenRecords, Goto, DropBatch, jobVars, storeVars, shadowVars, histVars
<1>2. \A r \in Records : item'[r] \in {"absent", "pending", "shadowed"}
                            => item'[r] = item[r] /\ r \notin Range(batch)
  BY <1>1 DEF JobInv, BatchAccounted
<1>3. QueuedIsFresh'
  BY <1>1, <1>2 DEF JobInv, QueuedIsFresh, Unmarked, Moved
<1>4. OwnVectors' /\ ShadowIsOriginal' /\ MovedIsListed'
  BY <1>1 DEF JobInv, OwnVectors, ShadowIsOriginal, MovedIsListed, Moved
<1>5. BatchIsOriginal' /\ WrittenLanded' /\ BatchAccounted'
  BY <1>1 DEF BatchIsOriginal, BatchInHand, Handling, WrittenLanded, Unmarked, BatchAccounted
<1> QED
  BY <1>1, <1>3, <1>4, <1>5, JobRunning DEF JobInv
-----------------------------------------------------------------------------
(* Rolling back *)

\* A slice of the shadow copy that is written back, as far as it is, undoes what it names.
LEMMA JobRestored ==
    ASSUME TypeOK, JobInv, RestoreSlice \/ RestoreMismatch \/ RestoreRefused
    PROVE  /\ pc = "restore"
           /\ UNCHANGED <<jobState, item, shadowVectors, shadowCount, shadowIds, putBack, unkept>>
           /\ mute' => mute
           /\ \/ RestoreSlice /\ pc' = "requeue" /\ UNCHANGED <<rbPos, written>>
              \/ RestoreRefused /\ pc' = "idle" /\ rbPos' = 0 /\ written' = <<>>
           /\ \A r \in Records :
                 store'[r] = store[r] \/ (store[r] # NoVector /\ store'[r] = Original(r))
<1>1. shadowIds \in Seq(Records) /\ shadowCount \in Nat /\ rbPos \in Nat /\ SliceEnd \in Nat
      /\ SliceEnd <= shadowCount
  BY SizeAssumption DEF TypeOK, SliceEnd, Min2
<1>2. pc = "restore" /\ shadowCount = Len(shadowIds) /\ ShadowIsOriginal /\ ~RestoreMismatch
  BY <1>1 DEF JobInv, ShadowIsOriginal, RestoreSlice, RestoreMismatch, RestoreRefused
<1>3. CASE RestoreSlice
  BY <1>1, <1>2, <1>3, RestoredIsPaired
     DEF RestoreSlice, Goto, jobVars, shadowVars, batchVars, histVars
<1>4. CASE RestoreRefused
  <2>1. PICK last \in (IF PartialWrites THEN rbPos .. SliceEnd - 1 ELSE {rbPos}) : Restore(last)
    BY <1>4 DEF RestoreRefused
  <2>2. last \in Nat /\ last <= shadowCount
    BY <1>1, <1>2, <1>4, <2>1 DEF RestoreRefused
  <2> QED
    BY <1>2, <1>4, <2>1, <2>2, RestoredIsPaired
       DEF RestoreRefused, Exit, DropBatch, Goto, jobVars, shadowVars
<1> QED
  BY <1>2, <1>3, <1>4

LEMMA JobRestoreSlice ==
    ASSUME TypeOK, JobInv, RestoreSlice \/ RestoreMismatch \/ RestoreRefused
    PROVE  JobInv'
<1>1. /\ pc = "restore"
      /\ UNCHANGED <<jobState, item, shadowVectors, shadowCount, shadowIds, putBack, unkept>>
      /\ mute' => mute
      /\ \/ RestoreSlice /\ pc' = "requeue" /\ UNCHANGED <<rbPos, written>>
         \/ RestoreRefused /\ pc' = "idle" /\ rbPos' = 0 /\ written' = <<>>
  BY JobRestored
<1>2. \A r \in Records : store'[r] = store[r] \/ (store[r] # NoVector /\ store'[r] = Original(r))
  BY JobRestored
<1>3. \A r \in Records : Moved(r)' => Moved(r)
  BY <1>2 DEF Moved
<1>4. OwnVectors' /\ ShadowIsOriginal' /\ WrittenLanded'
  BY <1>1, <1>2 DEF JobInv, OwnVectors, ShadowIsOriginal, WrittenLanded, Unmarked
<1>5. QueuedIsFresh' /\ BatchIsOriginal' /\ BatchAccounted' /\ MovedIsListed'
  BY <1>1, <1>3 DEF JobInv, QueuedIsFresh, Unmarked, BatchIsOriginal, BatchInHand, Handling,
                    BatchAccounted, MovedIsListed
<1>6. StateIsTold'
  BY <1>1 DEF JobInv, StateIsTold, BetweenRuns
<1>7. (\A r \in putBack : ~Moved(r))'
  BY <1>1, <1>3 DEF JobInv, RestoredSoFar, TypeOK
<1>8. RestoredSoFar'
  <2>1. CASE RestoreRefused
    BY <1>1, <1>7, <2>1 DEF RestoredSoFar, BetweenRuns, RestoreSlice, RestoreRefused, Exit, Goto
  <2>2. CASE RestoreSlice /\ pc' = "requeue" /\ UNCHANGED <<rbPos, written>>
    <3>1. SliceEnd' = SliceEnd
      BY <1>1, <2>2 DEF SliceEnd
    <3>2. shadowIds \in Seq(Records) /\ rbPos \in Nat /\ SliceEnd \in Nat
          /\ shadowCount = Len(shadowIds) /\ shadowCount \in Nat /\ SliceEnd <= shadowCount
      BY <1>1, SizeAssumption DEF JobInv, ShadowIsOriginal, TypeOK, SliceEnd, Min2
    <3>3. ASSUME NEW i \in 1..SliceEnd PROVE ~Moved(shadowIds[i])'
      <4>1. shadowIds[i] \in Records
        BY <3>2, ElementOfSeq
      <4>2. CASE i <= rbPos
        <5>1. ~Moved(shadowIds[i])
          BY <1>1, <3>2, <4>2 DEF JobInv, RestoredSoFar
        <5> QED
          BY <1>1, <1>3, <4>1, <5>1
      <4>3. CASE i > rbPos
        <5>1. i \in Slice
          BY <3>2, <4>3 DEF Slice
        <5>2. store'[shadowIds[i]] \in {NoVector, Original(shadowIds[i])}
          BY <2>2, <3>2, <5>1, SliceIsRestored DEF JobInv, RestoreSlice
        <5> QED
          BY <1>1, <5>2 DEF Moved
      <4> QED
        BY <3>2, <4>2, <4>3
    <3> QED
      BY <1>1, <1>7, <2>2, <3>1, <3>3 DEF RestoredSoFar, BetweenRuns
  <2> QED
    BY <1>1, <2>1, <2>2
<1> QED
  BY <1>4, <1>5, <1>6, <1>8 DEF JobInv

\* Only after that its records are in the queue again.
LEMMA JobRequeueSlice ==
    ASSUME TypeOK, JobInv, RequeueSlice
    PROVE  JobInv'
<1>1. /\ pc = "requeue" /\ pc' = "restore" /\ rbPos' = SliceEnd
      /\ putBack' = putBack \cup Named
      /\ UNCHANGED <<jobState, store, mute, shadowVectors, shadowCount, shadowIds, unkept, written>>
      /\ item' = [r \in Records |-> IF r \in Named THEN "pending"
                                    ELSE item[r]]
  BY DEF RequeueSlice, MarkAll, Goto, jobVars, storeVars, shadowVars, batchVars, histVars
<1>2. rbPos \in Nat /\ SliceEnd \in Nat
  BY SizeAssumption DEF TypeOK, SliceEnd, Min2
<1>3. \A r \in Named : ~Moved(r)
  <2>1. \A i \in Slice : i \in 1..SliceEnd
    BY <1>2 DEF Slice
  <2> QED
    BY <1>1, <2>1 DEF JobInv, RestoredSoFar, Named, Hits
<1>4. \A r \in Records : item'[r] = item[r] \/ (item'[r] = "pending" /\ ~Moved(r))
  BY <1>1, <1>3
<1>5. QueuedIsFresh'
  BY <1>1, <1>4 DEF JobInv, QueuedIsFresh, Unmarked, Moved
<1>6. OwnVectors' /\ ShadowIsOriginal' /\ WrittenLanded' /\ BatchIsOriginal' /\ BatchAccounted'
  BY <1>1 DEF JobInv, OwnVectors, ShadowIsOriginal, WrittenLanded, Unmarked, BatchIsOriginal,
              BatchInHand, Handling, BatchAccounted
<1>7. StateIsTold' /\ RestoredSoFar' /\ MovedIsListed'
  BY <1>1, <1>3 DEF JobInv, StateIsTold, BetweenRuns, RestoredSoFar, MovedIsListed, Moved
<1> QED
  BY <1>5, <1>6, <1>7 DEF JobInv

\* A rollback that reached the end of the copy has reached every mapped record.
LEMMA JobFinishRollback ==
    ASSUME TypeOK, JobInv, FinishRollback
    PROVE  JobInv'
<1>1. /\ pc = "restore" /\ pc' = "idle" /\ rbPos >= shadowCount /\ rbPos' = 0
      /\ jobState' = "rolled_back" /\ written' = <<>> /\ mute' = FALSE
      /\ UNCHANGED <<item, store, shadowVectors, shadowCount, shadowIds, putBack, unkept>>
  BY DEF FinishRollback, Exit, DropBatch, Goto, shadowVars
<1>2. shadowIds \in Seq(Records) /\ shadowCount = Len(shadowIds) /\ rbPos \in Nat
      /\ Len(shadowIds) \in Nat
  BY <1>1, LenProperties DEF JobInv, ShadowIsOriginal, TypeOK
<1>3. unkept \/ \A r \in Records : ~Moved(r)
  <2>1. \A r \in Range(shadowIds) : ~Moved(r)
    <3>1. \A i \in 1..Len(shadowIds) : ~Moved(shadowIds[i])
      BY <1>1, <1>2 DEF JobInv, RestoredSoFar
    <3> QED
      BY <1>2, <3>1, RangeEquality
  <2> QED
    BY <2>1 DEF JobInv, MovedIsListed
<1>4. OwnVectors' /\ ShadowIsOriginal' /\ WrittenLanded' /\ QueuedIsFresh' /\ BatchIsOriginal'
  BY <1>1 DEF JobInv, OwnVectors, ShadowIsOriginal, WrittenLanded, QueuedIsFresh, Moved, Unmarked,
              BatchIsOriginal, BatchInHand, Handling
<1>5. BatchAccounted' /\ StateIsTold' /\ RestoredSoFar'
  BY <1>1 DEF JobInv, BatchAccounted, StateIsTold, RestoredSoFar, BetweenRuns, Moved
<1>6. MovedIsListed'
  BY <1>1, <1>3 DEF JobInv, MovedIsListed, Moved
<1> QED
  BY <1>4, <1>5, <1>6 DEF JobInv

-----------------------------------------------------------------------------
(* What else can happen *)

\* A pause request and a record deleted between two batches.
LEMMA JobEnvironment ==
    ASSUME Undisturbed, TypeOK, JobInv, Environment
    PROVE  JobInv'
<1>1. ~Crash /\ ~StoreGoesMute
  BY DEF Undisturbed, TypeOK, FaultKinds, Crash, StoreGoesMute, FaultsLeft
<1>2. CASE RequestPause
  <2>1. UNCHANGED <<jobState, item, store, mute, shadowVectors, shadowCount, shadowIds, pc,
                    batch, snapshot, work, written, rejected, rbPos, putBack, unkept>>
    BY <1>2 DEF RequestPause, storeVars, shadowVars, batchVars
  <2>2. OwnVectors' /\ QueuedIsFresh' /\ BatchIsOriginal' /\ BatchAccounted' /\ WrittenLanded'
    BY <2>1 DEF JobInv, OwnVectors, QueuedIsFresh, BatchIsOriginal, BatchAccounted, WrittenLanded,
                Moved, Remaining, In
  <2>3. StateIsTold' /\ ShadowIsOriginal' /\ RestoredSoFar' /\ MovedIsListed'
    BY <2>1 DEF JobInv, StateIsTold, ShadowIsOriginal, RestoredSoFar, MovedIsListed, Moved,
                Remaining, In, SliceEnd
  <2> QED
    BY <2>2, <2>3 DEF JobInv
<1>3. CASE DeleteRecord
  <2>1. pc \in DeletePoints /\ pc \notin Handling
    BY <1>3 DEF DeleteRecord, Undisturbed
  <2>2. /\ UNCHANGED <<jobState, item, mute, shadowVectors, shadowCount, shadowIds, pc,
                       batch, snapshot, work, written, rejected, rbPos, putBack, unkept>>
        /\ \A r \in Records : store'[r] \in {store[r], NoVector}
    BY <1>3 DEF DeleteRecord, jobVars, shadowVars, batchVars, TypeOK, Present
  <2>3. \A r \in Records : Moved(r)' => Moved(r)
    BY <2>2 DEF Moved
  <2>4. OwnVectors' /\ QueuedIsFresh' /\ BatchIsOriginal' /\ BatchAccounted'
    BY <2>1, <2>2, <2>3 DEF JobInv, OwnVectors, QueuedIsFresh, BatchIsOriginal, BatchAccounted,
                            Remaining, In
  <2>5. WrittenLanded' /\ StateIsTold' /\ ShadowIsOriginal' /\ MovedIsListed'
    BY <2>1, <2>2, <2>3 DEF JobInv, WrittenLanded, Handling, StateIsTold, ShadowIsOriginal,
                            MovedIsListed, Remaining, In
  <2>6. RestoredSoFar'
    <3>1. shadowIds \in Seq(Records) /\ SliceEnd' = SliceEnd /\ rbPos \in Nat
          /\ (pc = "requeue" => SliceEnd <= Len(shadowIds))
      <4>1. shadowIds \in Seq(Records) /\ rbPos \in Nat /\ shadowCount \in Nat
            /\ RollbackBatch \in Nat
        BY SizeAssumption DEF TypeOK
      <4>2. SliceEnd' = SliceEnd /\ SliceEnd <= shadowCount
        BY <2>2, <4>1 DEF SliceEnd, Min2
      <4>3. pc = "requeue" => shadowCount = Len(shadowIds)
        BY <4>1, LenProperties DEF JobInv, ShadowIsOriginal
      <4> QED
        BY <4>1, <4>2, <4>3, Zenon
    <3>2. \A i \in 1..Len(shadowIds) : Moved(shadowIds[i])' => Moved(shadowIds[i])
      <4>1. \A i \in 1..Len(shadowIds) : shadowIds[i] \in Records
        BY <3>1, ElementOfSeq
      <4> QED
        BY <2>2, <2>3, <4>1
    <3>3. SliceEnd \in Nat /\ Len(shadowIds) \in Nat
      BY <3>1, LenProperties, SizeAssumption DEF TypeOK, SliceEnd, Min2
    <3> QED
      BY <2>2, <2>3, <3>1, <3>2, <3>3 DEF JobInv, RestoredSoFar, TypeOK
  <2> QED
    BY <2>4, <2>5, <2>6 DEF JobInv
<1> QED
  BY <1>1, <1>2, <1>3 DEF Environment

-----------------------------------------------------------------------------
(* The theorems about an undisturbed job *)

\* A system with no job satisfies the invariant.
LEMMA JobInit == ASSUME Init PROVE JobInv
<1>1. OwnVectors /\ QueuedIsFresh
  BY DEF Init, OwnVectors, QueuedIsFresh, Moved, Unmarked
<1>2. BatchIsOriginal /\ BatchAccounted /\ WrittenLanded
  BY DEF Init, BatchIsOriginal, BatchInHand, Handling, BatchAccounted, WrittenLanded, Unmarked
<1>3. StateIsTold /\ RestoredSoFar /\ ShadowIsOriginal
  BY DEF Init, StateIsTold, RestoredSoFar, BetweenRuns, ShadowIsOriginal
<1>4. MovedIsListed
  BY DEF Init, MovedIsListed, Moved
<1> QED
  BY <1>1, <1>2, <1>3, <1>4 DEF JobInv

\* A step that changes nothing changes nothing the invariant is about.
LEMMA JobStutter == ASSUME JobInv, UNCHANGED vars PROVE JobInv'
<1> USE DEF vars, jobVars, storeVars, shadowVars, batchVars, histVars
<1>1. OwnVectors' /\ QueuedIsFresh' /\ BatchIsOriginal' /\ BatchAccounted' /\ WrittenLanded'
  BY DEF JobInv, OwnVectors, QueuedIsFresh, BatchIsOriginal, BatchAccounted, WrittenLanded,
         Moved, Remaining, In
<1>2. StateIsTold' /\ ShadowIsOriginal' /\ RestoredSoFar' /\ MovedIsListed'
  BY DEF JobInv, StateIsTold, ShadowIsOriginal, RestoredSoFar, MovedIsListed, Moved,
         Remaining, In, SliceEnd
<1> QED
  BY <1>1, <1>2 DEF JobInv

\* Every step of an undisturbed job keeps the invariant.
LEMMA JobStep ==
    ASSUME Undisturbed, Inv, JobInv, [Next]_vars
    PROVE  JobInv'
<1> USE DEF Inv
<1>1. CASE Migrate \/ Resume \/ Rollback \/ RegisterJob \/ Preview \/ DoNotStart
  BY <1>1, JobCommand
<1>2. CASE Enqueue \/ Loop
  BY <1>2, JobEnqueue, JobLoop
<1>3. CASE Batch
  BY <1>3, JobSkip, JobRead, JobAppend, JobPublish, JobPublishIds, JobShadowed,
     JobWriteAccepted, JobWriteRefused, JobMarkRejected, JobVerify, JobMarkDone DEF Batch
<1>4. CASE RollingBack
  BY <1>4, JobRestoreSlice, JobRequeueSlice, JobFinishRollback DEF RollingBack
<1>5. CASE Environment
  BY <1>5, JobEnvironment
<1>6. CASE UNCHANGED vars
  BY <1>6, JobStutter
<1> QED
  BY <1>1, <1>2, <1>3, <1>4, <1>5, <1>6 DEF Next, Process, Command

\* The invariant of an undisturbed job holds between any two durable writes.
LEMMA JobAlways == ASSUME Undisturbed PROVE Spec => []JobInv
<1>1. Init => JobInv
  BY JobInit
<1>2. Inv /\ JobInv /\ [Next]_vars => JobInv'
  BY JobStep
<1> QED
  BY <1>1, <1>2, InvAlways, PTL DEF Spec

\* For any number of records, batch sizes, pauses, resumes, rollbacks and writes
\* refused in part or in whole: no vector is mapped twice by a job that is not killed,
\* whose store keeps what it accepts, and whose records stay while they are handled.
THEOREM NeverMappedTwiceAlways == ASSUME Undisturbed PROVE Spec => []NeverMappedTwice
<1>1. JobInv => NeverMappedTwice
  BY MappedIsMoved DEF JobInv, OwnVectors, NeverMappedTwice
<1> QED
  BY <1>1, JobAlways, PTL

\* What a completed job has in its queue is told by its rollbacks alone, step by step.
LEMMA QueueStep ==
    ASSUME QueueInv, [Next]_vars
    PROVE  QueueInv'
<1> USE DEF QueueInv, BetweenRuns, Goto, jobVars, storeVars, shadowVars, runVars, batchVars,
            histVars
<1>1. UNCHANGED item => UNCHANGED Remaining
  BY DEF Remaining, In
<1>2. CASE Migrate \/ Resume \/ Rollback
  BY <1>1, <1>2 DEF Migrate, Resume, TakeLock, Rollback
<1>3. CASE RegisterJob \/ Preview \/ DoNotStart
  BY <1>1, <1>3 DEF RegisterJob, Preview, DoNotStart, Exit
<1>4. CASE Enqueue
  BY <1>4 DEF Enqueue
<1>5. CASE Loop
  <2>1. CASE SetRunning \/ ClearStaleRequest \/ StopAtLimit \/ ClearRequest
    BY <2>1 DEF SetRunning, ClearStaleRequest, StopAtLimit, ClearRequest
  <2>2. CASE StopBeforeBatch \/ TakeBatch \/ Pressure
    BY <2>2 DEF StopBeforeBatch, TakeBatch, Pressure
  <2>3. CASE Finish
    BY <1>1, <2>3 DEF Finish, FinalState, Exit
  <2> QED
    BY <1>5, <2>1, <2>2, <2>3 DEF Loop
<1>6. CASE Batch
  <2>1. UNCHANGED <<jobState, putBack>> /\ pc \notin BetweenRuns /\ pc' \notin BetweenRuns
    <3>1. CASE SkipBatch \/ ReadBatch \/ AppendVectors \/ PublishManifest \/ PublishIds
      BY <3>1 DEF SkipBatch, ReadBatch, AppendVectors, PublishManifest, PublishIds
    <3>2. CASE MarkShadowed \/ WriteAccepted \/ WriteRefused \/ MarkRejected
      BY <3>2 DEF MarkShadowed, WriteAccepted, WriteRefused, MarkRejected
    <3>3. CASE VerifyPassed \/ VerifyFailed \/ MarkDone
      BY <3>3 DEF VerifyPassed, VerifyFailed, MarkDone
    <3> QED
      BY <1>6, <3>1, <3>2, <3>3 DEF Batch
  <2> QED
    BY <2>1
<1>7. CASE RollingBack
  <2>1. CASE RestoreSlice \/ RestoreMismatch \/ RestoreRefused
    BY <1>1, <2>1 DEF RestoreSlice, RestoreMismatch, RestoreRefused, Exit
  <2>2. CASE RequeueSlice
    <3>1. Remaining' = Remaining \cup Named
      BY <2>2 DEF RequeueSlice, MarkAll, Named, Remaining, In
    <3> QED
      BY <2>2, <3>1 DEF RequeueSlice
  <2>3. CASE FinishRollback
    BY <2>3 DEF FinishRollback, Exit
  <2> QED
    BY <1>7, <2>1, <2>2, <2>3 DEF RollingBack
<1>8. CASE Environment
  BY <1>1, <1>8 DEF Environment, RequestPause, Crash, Exit, StoreGoesMute, DeleteRecord
<1>9. CASE UNCHANGED vars
  BY <1>1, <1>9 DEF vars
<1> QED
  BY <1>2, <1>3, <1>4, <1>5, <1>6, <1>7, <1>8, <1>9 DEF Next, Process, Command

\* Under every fault, a kill in the middle of a rollback included: what the queue of a
\* completed job still hands out is what rollbacks put back since its last run.
THEOREM CompletedQueueAlways == Spec => [](jobState = "completed" => Remaining = putBack)
<1>1. Init => QueueInv
  BY DEF Init, QueueInv, BetweenRuns
<1>2. QueueInv => (jobState = "completed" => Remaining = putBack)
  BY DEF QueueInv
<1> QED
  BY <1>1, <1>2, QueueStep, PTL DEF Spec

\* ... and, in an undisturbed job, each of these records is as it was before the first
\* batch: nothing else is left of a job the database calls completed.
THEOREM CompletedAlways == ASSUME Undisturbed PROVE Spec => []CompletedLeavesNothing
<1>1. JobInv /\ (jobState = "completed" => Remaining = putBack) => CompletedLeavesNothing
  BY DEF JobInv, RestoredSoFar, CompletedLeavesNothing
<1> QED
  BY <1>1, JobAlways, CompletedQueueAlways, PTL

\* However often a job was paused, resumed and rolled back: once it is rolled back,
\* every record is as it was, unless some run was told not to keep originals.
THEOREM RolledBackUnlessWaived ==
    ASSUME Undisturbed
    PROVE  Spec => [](unkept \/ RolledBackRestores)
<1>1. JobInv => unkept \/ RolledBackRestores
  BY DEF JobInv, MovedIsListed, RolledBackRestores
<1> QED
  BY <1>1, JobAlways, PTL

\* ... and of a job no run of which may be told so, without exception.
THEOREM RolledBackAlways ==
    ASSUME Undisturbed, KeepChoices \subseteq {TRUE}
    PROVE  Spec => []RolledBackRestores
<1> DEFINE Keeping == ~unkept
<1>1. Init => Keeping
  BY DEF Init
<1>2. Inv /\ Keeping /\ [Next]_vars => Keeping'
  <2>1. CASE Migrate \/ Resume
    BY <2>1 DEF Migrate, Resume, TakeLock
  <2> QED
    BY <2>1, WaivedByCommand
<1>3. (unkept \/ RolledBackRestores) /\ Keeping => RolledBackRestores
  OBVIOUS
<1> QED
  BY <1>1, <1>2, <1>3, RolledBackUnlessWaived, InvAlways, PTL DEF Spec
-----------------------------------------------------------------------------
(* The order of a batch's writes *)

\* One increasing sequence after another whose ids are all smaller is increasing.
LEMMA IncreasingConcat ==
    ASSUME NEW s \in Seq(Records), NEW t \in Seq(Records), Increasing(s), Increasing(t),
           \A x \in Range(s), y \in Range(t) : x < y
    PROVE  Increasing(s \o t)
<1> DEFINE m == Len(s)
           n == Len(t)
           u == s \o t
<1>1. m \in Nat /\ n \in Nat
  BY LenProperties
<1>2. /\ Len(u) = m + n
      /\ \A i \in 1..m : u[i] = s[i] /\ s[i] \in Range(s)
      /\ \A j \in 1..n : u[m + j] = t[j] /\ t[j] \in Range(t)
  BY <1>1, ConcatElements, RangeEquality
<1>3. /\ \A i, j \in 1..m : i < j => s[i] < s[j]
      /\ \A i, j \in 1..n : i < j => t[i] < t[j]
  BY DEF Increasing
<1> HIDE DEF m, n, u
<1>4. SUFFICES ASSUME NEW i \in 1..(m + n), NEW j \in 1..(m + n), i < j
               PROVE  u[i] < u[j]
  BY <1>2 DEF Increasing, u
<1>5. CASE j <= m
  BY <1>1, <1>2, <1>3, <1>4, <1>5
<1>6. CASE i <= m /\ j > m
  <2>1. i \in 1..m /\ j - m \in 1..n /\ m + (j - m) = j
    BY <1>1, <1>4, <1>6
  <2>2. u[i] = s[i] /\ s[i] \in Range(s) /\ u[j] = t[j - m] /\ t[j - m] \in Range(t)
    BY <1>2, <2>1
  <2> QED
    BY <2>2
<1>7. CASE i > m
  <2>1. /\ i - m \in 1..n /\ m + (i - m) = i /\ j - m \in 1..n /\ m + (j - m) = j
        /\ i - m < j - m
    BY <1>1, <1>4, <1>7
  <2>2. u[i] = t[i - m] /\ u[j] = t[j - m]
    BY <1>2, <2>1
  <2> QED
    BY <1>3, <2>1, <2>2
<1> QED
  BY <1>1, <1>4, <1>5, <1>6, <1>7

\* The halves of an increasing segment are increasing, the first before the second.
LEMMA IncreasingHalves ==
    ASSUME NEW seg \in Segments, Increasing(seg.ids)
    PROVE  LET a == Halves(seg)[1].ids
               b == Halves(seg)[2].ids
           IN  /\ Increasing(a) /\ Increasing(b)
               /\ Range(a) \subseteq Range(seg.ids) /\ Range(b) \subseteq Range(seg.ids)
               /\ \A x \in Range(a), y \in Range(b) : x < y
<1> DEFINE n == Len(seg.ids)
           m == Middle(seg)
           a == Halves(seg)[1].ids
           b == Halves(seg)[2].ids
<1>1. /\ n \in Nat /\ m \in 0..n /\ a \in Seq(Records) /\ b \in Seq(Records)
      /\ Len(a) = m /\ Len(b) = n - m
      /\ \A j \in 1..m : a[j] = seg.ids[j]
      /\ \A j \in 1..(n - m) : b[j] = seg.ids[m + j]
  BY HalvesAre
<1>2. seg.ids \in Seq(Records) /\ Range(seg.ids) = {seg.ids[i] : i \in 1..n}
  BY RangeEquality DEF Segments
<1>3. \A i, j \in 1..n : i < j => seg.ids[i] < seg.ids[j]
  BY DEF Increasing
<1> HIDE DEF n, m, a, b
<1>4. Range(a) = {a[i] : i \in 1..m} /\ Range(b) = {b[i] : i \in 1..(n - m)}
  <2>1. Range(a) = {a[i] : i \in 1..Len(a)}
    BY <1>1, RangeEquality
  <2>2. Range(b) = {b[i] : i \in 1..Len(b)}
    BY <1>1, RangeEquality
  <2> QED
    BY <1>1, <2>1, <2>2
<1>5. /\ \A j \in 1..m : j \in 1..n
      /\ \A j \in 1..(n - m) : m + j \in 1..n
      /\ \A i \in 1..m, j \in 1..(n - m) : i < m + j
      /\ \A i, j \in 1..(n - m) : i < j => m + i < m + j
  BY <1>1
<1>6. Increasing(a)
  BY <1>1, <1>3, <1>5 DEF Increasing
<1>7. Increasing(b)
  <2>1. ASSUME NEW i \in 1..(n - m), NEW j \in 1..(n - m), i < j
        PROVE  b[i] < b[j]
    <3>1. m + i \in 1..n /\ m + j \in 1..n /\ m + i < m + j
      BY <1>5, <2>1
    <3>2. b[i] = seg.ids[m + i] /\ b[j] = seg.ids[m + j]
      BY <1>1
    <3> QED
      BY <1>3, <3>1, <3>2
  <2> QED
    BY <1>1, <2>1 DEF Increasing
<1>8. Range(a) \subseteq Range(seg.ids) /\ Range(b) \subseteq Range(seg.ids)
  <2>1. \A i \in 1..m : a[i] \in Range(seg.ids)
    BY <1>1, <1>2, <1>5
  <2>2. \A i \in 1..(n - m) : b[i] \in Range(seg.ids)
    <3>1. \A i \in 1..(n - m) : b[i] = seg.ids[m + i] /\ m + i \in 1..n
      BY <1>1, <1>5
    <3> QED
      BY <1>2, <3>1
  <2> QED
    BY <1>4, <2>1, <2>2
<1>9. \A x \in Range(a), y \in Range(b) : x < y
  <2>1. ASSUME NEW i \in 1..m, NEW j \in 1..(n - m)
        PROVE  a[i] < b[j]
    <3>1. i \in 1..n /\ m + j \in 1..n /\ i < m + j
      BY <1>5
    <3>2. a[i] = seg.ids[i] /\ b[j] = seg.ids[m + j]
      BY <1>1
    <3> QED
      BY <1>3, <3>1, <3>2
  <2> QED
    BY <1>4, <2>1
<1> QED
  BY <1>6, <1>7, <1>8, <1>9 DEF a, b

\* What a write that landed in part has written.
LEMMA PrefixIs ==
    ASSUME NEW s \in Seq(Records), NEW k \in 0..Len(s)
    PROVE  Range(SubSeq(s, 1, k)) = {s[i] : i \in 1..k}
<1>1. Len(s) \in Nat /\ \A i \in 1..k : s[i] \in Records
  BY LenProperties, ElementOfSeq
<1>2. /\ SubSeq(s, 1, k) \in Seq(Records) /\ Len(SubSeq(s, 1, k)) = k
      /\ \A i \in 1..k : SubSeq(s, 1, k)[i] = s[i]
  BY <1>1, SubSeqProperties
<1>3. Range(SubSeq(s, 1, k)) = {SubSeq(s, 1, k)[i] : i \in 1..k}
  BY <1>2, RangeEquality
<1> QED
  BY <1>2, <1>3, Zenon

\* When a prefix of the next piece of work lands, every smaller id has landed already.
LEMMA LandedPrefix ==
    ASSUME TypeOK, ShadowInv, WritesInOrder, LandedInOrder, pc = "write", work # <<>>,
           UNCHANGED snapshot,
           NEW k \in 0..Len(Head(work).ids), Land(Range(SubSeq(Head(work).ids, 1, k)))
    PROVE  /\ \A x, y \in Pending : x < y /\ store'[y] = Mapped(snapshot[y]) => Hit(x)'
           /\ ~mute => \A x \in Range(written) \cup Range(SubSeq(Head(work).ids, 1, k)) : Hit(x)'
<1> DEFINE ids == Head(work).ids
           S == Range(SubSeq(ids, 1, k))
<1>1. /\ ids \in Seq(Records) /\ ids = work[1].ids /\ Len(work) \in Nat \ {0} /\ Len(ids) \in Nat
  BY WorkSplit, SegmentInBatch
<1>2. S = {ids[i] : i \in 1..k} /\ Range(ids) = {ids[i] : i \in 1..Len(ids)}
  BY <1>1, PrefixIs, RangeEquality
<1>3. Pending \subseteq Records
  <2>1. Range(written) \subseteq Records
    BY RangeOfSeq DEF TypeOK
  <2>2. ASSUME NEW i \in 1..Len(work) PROVE Range(work[i].ids) \subseteq Records
    <3>1. work[i] \in Segments
      BY ElementOfSeq DEF TypeOK
    <3> QED
      BY <3>1, RangeOfSeq DEF Segments
  <2> QED
    BY <2>1, <2>2 DEF Pending
<1>4. S \subseteq Pending /\ Range(written) \subseteq Pending
  <2>1. S \subseteq Range(ids)
    BY <1>1, <1>2
  <2> QED
    BY <1>1, <2>1 DEF Pending
<1>5. \A r \in Records : store'[r] = IF r \in S /\ store[r] # NoVector /\ ~mute
                                     THEN Mapped(snapshot[r]) ELSE store[r]
  BY DEF Land
<1> HIDE DEF S
<1>6. \A r \in Records : Hit(r) \/ (r \in S /\ ~mute) => Hit(r)'
  BY <1>5 DEF Hit
<1>7. \A x \in Range(written) : ~mute => Hit(x)
  BY DEF LandedInOrder
<1>8. ASSUME NEW x \in Pending, NEW y \in S, x < y
      PROVE  x \in Range(written) \cup S
  <2>1. CASE x \in Range(written)
    BY <2>1
  <2>2. ASSUME NEW i \in 1..Len(work), x \in Range(work[i].ids)
        PROVE  x \in S
    <3>1. PICK b \in 1..k : y = ids[b]
      BY <1>2
    <3>2. CASE i = 1
      <4>1. PICK a \in 1..Len(ids) : x = ids[a]
        BY <1>1, <1>2, <2>2, <3>2
      <4>2. x \in Nat /\ y \in Nat
        BY <1>3, <1>4, SizeAssumption DEF Records
      <4>3. \A p, q \in 1..Len(ids) : p < q => ids[p] < ids[q]
        BY <1>1 DEF WritesInOrder, Increasing
      <4>4. ~ (b < a) /\ a # b
        <5>1. a \in 1..Len(ids) /\ b \in 1..Len(ids)
          BY <1>1, <3>1, <4>1
        <5>2. b < a => y < x
          BY <3>1, <4>1, <4>3, <5>1
        <5>3. a = b => x = y
          BY <3>1, <4>1
        <5>4. ~ (y < x) /\ x # y
          BY <1>8, <4>2
        <5> QED
          BY <5>2, <5>3, <5>4
      <4>5. a \in 1..k
        BY <1>1, <3>1, <4>1, <4>4
      <4> QED
        BY <1>2, <4>1, <4>5
    <3>3. CASE i > 1
      <4>1. y \in Range(work[1].ids)
        BY <1>1, <1>2, <3>1
      <4>2. y < x
        BY <1>1, <2>2, <3>3, <4>1 DEF WritesInOrder
      <4>3. x \in Nat /\ y \in Nat
        BY <1>3, <1>4, SizeAssumption DEF Records
      <4> QED
        BY <1>8, <4>2, <4>3
    <3> QED
      BY <3>2, <3>3
  <2> QED
    BY <2>1, <2>2 DEF Pending
<1>9. ASSUME NEW x \in Pending, NEW y \in Pending, x < y, store'[y] = Mapped(snapshot[y])
      PROVE  Hit(x)'
  <2>1. CASE store[y] = Mapped(snapshot[y])
    BY <1>3, <1>6, <1>9, <2>1 DEF LandedInOrder
  <2>2. CASE y \in S /\ ~mute
    BY <1>3, <1>6, <1>7, <1>8, <1>9, <2>2
  <2> QED
    BY <1>3, <1>5, <1>9, <2>1, <2>2
<1>10. ~mute => \A x \in Range(written) \cup S : Hit(x)'
  BY <1>3, <1>4, <1>6, <1>7
<1> QED
  BY <1>9, <1>10 DEF S
\* Outside a batch there is nothing to keep in order.
LEMMA OrderOutside ==
    ASSUME pc' \notin Shadowing \cup Unmarked, written' = <<>>
    PROVE  ReadBackInv'
BY DEF Shadowing, Unmarked, ReadBackInv, WritesInOrder, LandedInOrder, VerifiedIsWritten

\* The first piece of work is the batch, of which nothing is mapped yet.
LEMMA OrderBegins ==
    ASSUME pc' = "write", written' = <<>>, work' = <<[ids |-> batch', depth |-> 0]>>,
           Increasing(batch'),
           \A r \in Range(batch') : /\ snapshot'[r] \in Vectors
                                    /\ store'[r] \in {NoVector, snapshot'[r]}
    PROVE  ReadBackInv'
<1>1. Len(work') = 1 /\ work'[1].ids = batch' /\ Range(<<>>) = {}
  BY DEF Range
<1>2. WritesInOrder'
  <2>1. \A i \in 1..Len(work') : i = 1 /\ work'[i].ids = batch'
    BY <1>1
  <2>2. Increasing(written') /\ Range(written') = {}
    BY <1>1 DEF Increasing
  <2> QED
    BY <2>1, <2>2 DEF WritesInOrder, Shadowing, Unmarked
<1>3. \A y \in Range(batch') : store'[y] # Mapped(snapshot'[y])
  <2>1. \A v \in Vectors : Mapped(v) # v /\ Mapped(v) \in Vectors
    BY DEF Mapped, Vectors
  <2> QED
    BY <2>1, NoVectorAssumption
<1>4. LandedInOrder'
  BY <1>1, <1>3 DEF LandedInOrder, Pending, Shadowing
<1> QED
  BY <1>2, <1>4 DEF ReadBackInv, VerifiedIsWritten

\* A batch is read in the order of its ids.
LEMMA OrderRead ==
    ASSUME TypeOK, ReadBackInv, ReadBatch
    PROVE  ReadBackInv'
<1>1. /\ pc = "read" /\ pc' \in {"append", "write"} /\ written' = <<>> /\ UNCHANGED store
      /\ batch' \in Seq(Records) /\ Range(batch') \subseteq Present
      /\ snapshot' = [r \in Records |-> IF r \in Range(batch') THEN store[r] ELSE NoVector]
      /\ pc' = "write" => work' = <<[ids |-> batch', depth |-> 0]>>
      /\ \A i, j \in DOMAIN batch' : i < j => batch'[i] < batch'[j]
  BY ListingType
     DEF ReadBatch, Goto, Lists, storeVars, ReadBackInv, WritesInOrder, Unmarked
<1>2. Increasing(batch')
  <2>1. DOMAIN batch' = 1..Len(batch')
    BY <1>1, LenProperties
  <2> QED
    BY <1>1, <2>1 DEF Increasing
<1>3. \A r \in Range(batch') : snapshot'[r] = store'[r] /\ store'[r] \in Vectors
  BY <1>1 DEF TypeOK, Present
<1>4. CASE pc' = "write"
  BY <1>1, <1>2, <1>3, <1>4, OrderBegins
<1>5. CASE pc' = "append"
  BY <1>1, <1>2, <1>3, <1>5
     DEF ReadBackInv, WritesInOrder, Shadowing, Unmarked, LandedInOrder, VerifiedIsWritten
<1> QED
  BY <1>1, <1>4, <1>5

\* Nothing of a batch is mapped while it is shadowed.
LEMMA OrderShadowed ==
    ASSUME TypeOK, ShadowInv, ReadBackInv,
           AppendVectors \/ PublishManifest \/ PublishIds \/ MarkShadowed
    PROVE  ReadBackInv'
<1>1. pc \in Shadowing /\ UNCHANGED <<store, batch, snapshot, written>>
  BY DEF AppendVectors, PublishManifest, PublishIds, MarkShadowed, Shadowing, storeVars, batchVars
<1>2. CASE MarkShadowed
  <2>1. pc' = "write" /\ work' = <<[ids |-> batch, depth |-> 0]>> /\ written' = <<>>
    BY <1>1, <1>2 DEF MarkShadowed, Goto, ReadBackInv, WritesInOrder, Shadowing, Unmarked
  <2>2. \A r \in Range(batch) : snapshot[r] \in Vectors
    BY <1>1 DEF ShadowInv, FilesInv, BatchWasRead, Shadowing, BatchInHand
  <2>3. Increasing(batch) /\ \A r \in Range(batch) : store[r] \in {NoVector, snapshot[r]}
    BY <1>1 DEF ReadBackInv, WritesInOrder, LandedInOrder
  <2> QED
    BY <1>1, <2>1, <2>2, <2>3, OrderBegins
<1>3. CASE AppendVectors \/ PublishManifest \/ PublishIds
  <2>1. pc' \in Shadowing
    BY <1>3 DEF AppendVectors, PublishManifest, PublishIds, Goto, Shadowing
  <2> QED
    BY <1>1, <2>1
       DEF ReadBackInv, WritesInOrder, Shadowing, Unmarked, LandedInOrder, VerifiedIsWritten
<1> QED
  BY <1>2, <1>3

\* A write that is taken comes after every write before it.
LEMMA OrderAccepted ==
    ASSUME TypeOK, ShadowInv, ReadBackInv, WriteAccepted
    PROVE  ReadBackInv'
<1> DEFINE ids == Head(work).ids
<1>1. /\ pc = "write" /\ pc' = "write" /\ work # <<>> /\ Land(Range(ids))
      /\ written' = written \o ids /\ work' = Tail(work) /\ UNCHANGED <<mute, batch, snapshot>>
  BY DEF WriteAccepted
<1>2. /\ ids \in Seq(Records) /\ Len(ids) \in Nat /\ Range(ids) \subseteq Range(batch)
      /\ written \in Seq(Records) /\ Range(written') = Range(written) \cup Range(ids)
  BY <1>1, SegmentInBatch, RangeConcatenation DEF TypeOK
<1>3. /\ ids = work[1].ids /\ Len(work) \in Nat \ {0} /\ Len(work') = Len(work) - 1
      /\ \A i \in 1..(Len(work) - 1) : work'[i] = work[i + 1]
  BY <1>1, WorkSplit
<1>4. SubSeq(ids, 1, Len(ids)) = ids
  BY <1>2, SubSeqFull
<1>5. /\ \A x, y \in Pending : x < y /\ store'[y] = Mapped(snapshot[y]) => Hit(x)'
      /\ ~mute => \A x \in Range(written) \cup Range(ids) : Hit(x)'
  <2>1. Len(ids) \in 0..Len(ids)
    BY <1>2
  <2> QED
    BY <1>1, <1>4, <2>1, LandedPrefix DEF ReadBackInv
<1> HIDE DEF ids
<1>6. /\ Increasing(written) /\ Range(written) \subseteq Range(batch)
      /\ \A i \in 1..Len(work) : /\ Increasing(work[i].ids)
                                 /\ \A x \in Range(written), y \in Range(work[i].ids) : x < y
      /\ \A i, j \in 1..Len(work) : i < j =>
            \A x \in Range(work[i].ids), y \in Range(work[j].ids) : x < y
  BY <1>1 DEF ReadBackInv, WritesInOrder
<1>7. \A i \in 1..Len(work') : /\ work'[i] = work[i + 1] /\ i + 1 \in 1..Len(work)
                               /\ 1 \in 1..Len(work) /\ 1 < i + 1
  BY <1>3
<1>8. WritesInOrder'
  <2>1. Increasing(written')
    <3>1. 1 \in 1..Len(work)
      BY <1>3
    <3> QED
      BY <1>1, <1>2, <1>3, <1>6, <3>1, IncreasingConcat
  <2>2. \A i \in 1..Len(work') : /\ Increasing(work'[i].ids)
                                 /\ \A x \in Range(written'), y \in Range(work'[i].ids) : x < y
    BY <1>2, <1>3, <1>6, <1>7
  <2>3. \A i, j \in 1..Len(work') : i < j =>
           \A x \in Range(work'[i].ids), y \in Range(work'[j].ids) : x < y
    <3>1. \A i, j \in 1..Len(work') : i < j => i + 1 < j + 1
      BY <1>3
    <3> QED
      BY <1>6, <1>7, <3>1
  <2> QED
    BY <1>1, <1>2, <1>6, <2>1, <2>2, <2>3 DEF WritesInOrder, Shadowing, Unmarked
<1>9. Pending' \subseteq Pending
  <2>1. Range(ids) \subseteq Pending
    BY <1>3 DEF Pending
  <2> QED
    BY <1>2, <1>7, <2>1 DEF Pending
<1>10. LandedInOrder'
  BY <1>1, <1>2, <1>5, <1>9 DEF LandedInOrder, Shadowing
<1> QED
  BY <1>1, <1>8, <1>10 DEF ReadBackInv, VerifiedIsWritten
\* A refused write leaves behind the first ids of its piece, and its halves in order.
LEMMA OrderRefused ==
    ASSUME TypeOK, ShadowInv, ReadBackInv, WriteRefused
    PROVE  ReadBackInv'
<1> DEFINE ids == Head(work).ids
<1>1. /\ pc = "write" /\ pc' = "write" /\ work # <<>>
      /\ \E k \in 0..(IF PartialWrites THEN Len(ids) - 1 ELSE 0) : Land(Range(SubSeq(ids, 1, k)))
      /\ \/ work' = Tail(work)
         \/ ~GivesUp(Head(work)) /\ work' = Halves(Head(work)) \o Tail(work)
      /\ UNCHANGED <<mute, batch, snapshot, written>>
  BY DEF WriteRefused
<1>2. ids \in Seq(Records) /\ Len(ids) \in Nat /\ written \in Seq(Records)
  BY <1>1, SegmentInBatch DEF TypeOK
<1>3. /\ ids = work[1].ids /\ Head(work) \in Segments /\ Head(work) = work[1]
      /\ Len(work) \in Nat \ {0} /\ 1 \in 1..Len(work)
  BY <1>1, WorkSplit
<1>4. /\ \A x, y \in Pending : x < y /\ store'[y] = Mapped(snapshot[y]) => Hit(x)'
      /\ ~mute => \A x \in Range(written) : Hit(x)'
  <2>1. PICK k \in 0..(IF PartialWrites THEN Len(ids) - 1 ELSE 0) : Land(Range(SubSeq(ids, 1, k)))
    BY <1>1
  <2>2. k \in 0..Len(ids)
    BY <1>2, <2>1
  <2> QED
    BY <1>1, <2>1, <2>2, LandedPrefix DEF ReadBackInv
<1> HIDE DEF ids
<1>5. /\ Increasing(written) /\ Range(written) \subseteq Range(batch)
      /\ \A i \in 1..Len(work) : /\ Increasing(work[i].ids)
                                 /\ \A x \in Range(written), y \in Range(work[i].ids) : x < y
      /\ \A i, j \in 1..Len(work) : i < j =>
            \A x \in Range(work[i].ids), y \in Range(work[j].ids) : x < y
  BY <1>1 DEF ReadBackInv, WritesInOrder
<1> DEFINE OrderOf(w) ==
      /\ \A i \in 1..Len(w) : /\ Increasing(w[i].ids)
                              /\ \A x \in Range(written), y \in Range(w[i].ids) : x < y
      /\ \A i, j \in 1..Len(w) : i < j =>
            \A x \in Range(w[i].ids), y \in Range(w[j].ids) : x < y
<1>6. OrderOf(work') /\ \A i \in 1..Len(work') : \E j \in 1..Len(work) :
                           Range(work'[i].ids) \subseteq Range(work[j].ids)
  <2>1. CASE work' = Tail(work)
    <3>1. \A i \in 1..Len(work') : /\ work'[i] = work[i + 1] /\ i + 1 \in 1..Len(work)
      BY <1>1, <1>3, <2>1, WorkSplit
    <3>2. \A i, j \in 1..Len(work') : i < j => i + 1 < j + 1
      OBVIOUS
    <3> QED
      BY <1>5, <3>1, <3>2
  <2>2. CASE ~GivesUp(Head(work)) /\ work' = Halves(Head(work)) \o Tail(work)
    <3>1. /\ Len(work') = Len(work) + 1
          /\ work'[1] = Halves(Head(work))[1] /\ work'[2] = Halves(Head(work))[2]
          /\ \A i \in 2..Len(work) : work'[i + 1] = work[i]
      BY <1>1, <2>2, WorkHalved
    <3> DEFINE a == work'[1].ids
               b == work'[2].ids
    <3>2. Increasing(ids)
      BY <1>3, <1>5
    <3>3. /\ Increasing(a) /\ Increasing(b)
          /\ Range(a) \subseteq Range(ids) /\ Range(b) \subseteq Range(ids)
          /\ \A x \in Range(a), y \in Range(b) : x < y
      BY <1>3, <3>1, <3>2, IncreasingHalves
    <3>4. \A i \in 1..Len(work') :
             \/ i = 1 \/ i = 2
             \/ i > 2 /\ work'[i] = work[i - 1] /\ i - 1 \in 1..Len(work) /\ 1 < i - 1
      <4>1. ASSUME NEW i \in 1..Len(work'), i > 2
            PROVE  work'[i] = work[i - 1] /\ i - 1 \in 1..Len(work) /\ 1 < i - 1
        <5>1. i - 1 \in 2..Len(work) /\ (i - 1) + 1 = i
          BY <1>3, <3>1, <4>1
        <5> QED
          BY <3>1, <5>1
      <4>2. \A i \in 1..Len(work') : i = 1 \/ i = 2 \/ i > 2
        BY <1>3, <3>1
      <4> QED
        BY <4>1, <4>2
    <3> HIDE DEF a, b
    <3>5. \A i \in 1..Len(work') : \E j \in 1..Len(work) :
             /\ Range(work'[i].ids) \subseteq Range(work[j].ids)
             /\ i <= 2 => j = 1
             /\ i > 2 => j = i - 1
      <4>1. ASSUME NEW i \in 1..Len(work'), i <= 2
            PROVE  Range(work'[i].ids) \subseteq Range(work[1].ids)
        <5>1. i = 1 \/ i = 2
          BY <4>1
        <5> QED
          BY <1>3, <3>3, <5>1 DEF a, b
      <4>2. ASSUME NEW i \in 1..Len(work'), i > 2
            PROVE  i - 1 \in 1..Len(work) /\ work'[i] = work[i - 1]
        BY <3>4, <4>2
      <4>3. 1 \in 1..Len(work)
        BY <1>3
      <4>4. ASSUME NEW i \in 1..Len(work')
            PROVE  \E j \in 1..Len(work) :
                      /\ Range(work'[i].ids) \subseteq Range(work[j].ids)
                      /\ i <= 2 => j = 1
                      /\ i > 2 => j = i - 1
        <5>1. CASE i <= 2
          BY <4>1, <4>3, <5>1
        <5>2. CASE i > 2
          BY <4>2, <5>2
        <5> QED
          BY <5>1, <5>2
      <4> QED
        BY <4>4
    <3>6. \A i \in 1..Len(work') : Increasing(work'[i].ids)
      BY <1>5, <3>3, <3>4 DEF a, b
    <3>7. ASSUME NEW i \in 1..Len(work'), NEW j \in 1..Len(work'), i < j
          PROVE  \A x \in Range(work'[i].ids), y \in Range(work'[j].ids) : x < y
      <4>1. CASE j <= 2
        <5>1. i = 1 /\ j = 2
          BY <3>7, <4>1
        <5> QED
          BY <3>3, <5>1 DEF a, b
      <4>2. CASE j > 2
        <5>1. PICK p \in 1..Len(work) : /\ Range(work'[i].ids) \subseteq Range(work[p].ids)
                                        /\ (i <= 2 => p = 1) /\ (i > 2 => p = i - 1)
          BY <3>5
        <5>2. work'[j] = work[j - 1] /\ j - 1 \in 1..Len(work) /\ p < j - 1
          BY <3>4, <3>7, <4>2, <5>1
        <5> QED
          BY <1>5, <5>1, <5>2
      <4> QED
        BY <4>1, <4>2
    <3>8. \A i \in 1..Len(work') : \A x \in Range(written), y \in Range(work'[i].ids) : x < y
      BY <1>5, <3>5
    <3> QED
      BY <3>5, <3>6, <3>7, <3>8
  <2> QED
    BY <1>1, <2>1, <2>2
<1>7. WritesInOrder'
  BY <1>1, <1>5, <1>6 DEF OrderOf, WritesInOrder, Shadowing, Unmarked
<1> HIDE DEF OrderOf
<1>8. Pending' \subseteq Pending
  <2>1. ASSUME NEW i \in 1..Len(work'), NEW x \in Range(work'[i].ids)
        PROVE  x \in Pending
    BY <1>6 DEF Pending
  <2>2. Range(written') = Range(written)
    BY <1>1
  <2> QED
    BY <2>1, <2>2 DEF Pending
<1>9. LandedInOrder'
  BY <1>1, <1>4, <1>8 DEF LandedInOrder, Shadowing
<1> QED
  BY <1>1, <1>7, <1>9 DEF ReadBackInv, VerifiedIsWritten

\* A batch that passed its read-back was written: the last write is read back.
LEMMA OrderVerified ==
    ASSUME TypeOK, ShadowInv, ReadBackInv, VerifyPassed
    PROVE  ReadBackInv'
<1>1. /\ pc = "verify" /\ pc' = "done" /\ UNCHANGED <<store, snapshot, written, batch>>
      /\ Mismatched = {}
  BY DEF VerifyPassed, Goto, storeVars, batchVars
<1>2. /\ written \in Seq(Records) /\ Len(written) \in Nat \ {0}
      /\ Range(written) = {written[i] : i \in 1..Len(written)}
      /\ Range(written) \subseteq Records
  BY <1>1, EmptySeq, RangeEquality, RangeOfSeq DEF TypeOK, ReadBackInv, WritesInOrder
<1> DEFINE n == Len(written)
           last == written[n]
<1>3. store[last] = Mapped(snapshot[last]) /\ last \in Range(written)
  <2>1. n \in SamplePositions(n) /\ n \in 1..n
    BY <1>2, SampleReachesLast
  <2> QED
    BY <1>1, <1>2, <2>1 DEF Mismatched
<1>4. \A x \in Range(written) : x = last \/ x < last
  <2>1. \A i \in 1..n : i = n \/ i < n
    BY <1>2
  <2>2. \A i, j \in 1..n : i < j => written[i] < written[j]
    BY <1>1 DEF ReadBackInv, WritesInOrder, Increasing
  <2> HIDE DEF n
  <2>3. n \in 1..n
    BY <1>2 DEF n
  <2> QED
    BY <1>2, <2>1, <2>2, <2>3 DEF n
<1> HIDE DEF last, n
<1>5. \A x \in Range(written) : Hit(x)
  BY <1>1, <1>3, <1>4 DEF ReadBackInv, LandedInOrder, Pending, Hit
<1>6. \A x \in Range(written) : snapshot[x] \in Vectors /\ Mapped(snapshot[x]).gen > 0
  <2>1. \A x \in Range(written) : snapshot[x] \in Vectors
    BY <1>1 DEF ShadowInv, FilesInv, BatchWasRead, BatchInHand, ReadBackInv, WritesInOrder
  <2>2. \A v \in Vectors : Mapped(v).gen > 0
    BY DEF Mapped, Vectors
  <2> QED
    BY <2>1, <2>2
<1>7. \A x \in Range(written) : store[x] = NoVector \/ store[x].gen > 0
  BY <1>5, <1>6 DEF Hit
<1> QED
  BY <1>1, <1>7
     DEF ReadBackInv, WritesInOrder, LandedInOrder, VerifiedIsWritten, Shadowing, Unmarked
\* A step that leaves the batch in hand and its place alone, at most drops writes from
\* here on, and at most loses records.
LEMMA OrderWithin ==
    ASSUME TypeOK, ShadowInv, ReadBackInv,
           UNCHANGED <<pc, batch, snapshot, work, written>>, mute => mute',
           \A r \in Records : store'[r] \in {store[r], NoVector}
    PROVE  ReadBackInv'
<1>1. Range(batch) \subseteq Records /\ Range(written) \subseteq Records
  BY RangeOfSeq DEF TypeOK
<1>2. WritesInOrder'
  BY DEF ReadBackInv, WritesInOrder
<1>3. Pending' = Pending
  BY DEF Pending
<1>4. pc = "write" \/ pc = "verify" =>
         \A r \in Pending : r \in Records /\ snapshot[r] \in Vectors
  <2>1. ASSUME pc = "write" \/ pc = "verify", NEW r \in Pending
        PROVE  r \in Range(batch)
    <3>1. CASE r \in Range(written)
      BY <2>1, <3>1 DEF ReadBackInv, WritesInOrder
    <3>2. ASSUME NEW i \in 1..Len(work), r \in Range(work[i].ids)
          PROVE  r \in Range(batch)
      <4>1. pc = "write"
        BY <2>1, <3>2 DEF ReadBackInv, WritesInOrder
      <4>2. work[i].ids \in Seq(Records)
        <5>1. work[i] \in Segments
          BY ElementOfSeq DEF TypeOK
        <5> QED
          BY <5>1 DEF Segments
      <4>3. PICK j \in 1..Len(work[i].ids) : work[i].ids[j] = r
        BY <3>2, <4>2, RangeEquality
      <4> QED
        BY <4>1, <4>3 DEF ShadowInv, FilesInv, WorkIsOfBatch
    <3> QED
      BY <2>1, <3>1, <3>2 DEF Pending
  <2> QED
    BY <1>1, <2>1 DEF ShadowInv, FilesInv, BatchWasRead, BatchInHand
<1>5. \A v \in Vectors : Mapped(v) # NoVector
  BY MappedType, NoVectorAssumption
<1>6. LandedInOrder'
  <2>1. pc \in Shadowing => \A r \in Range(batch) : store'[r] \in {NoVector, snapshot[r]}
    BY <1>1 DEF ReadBackInv, LandedInOrder
  <2>2. \A r \in Records : Hit(r) => Hit(r)'
    BY DEF Hit
  <2>3. ASSUME pc \in {"write", "verify"}
        PROVE  /\ ~mute' => \A x \in Range(written) : Hit(x)'
               /\ \A x, y \in Pending : x < y /\ store'[y] = Mapped(snapshot[y]) => Hit(x)'
    <3>1. ~mute' => \A x \in Range(written) : Hit(x)'
      BY <1>1, <2>2, <2>3 DEF ReadBackInv, LandedInOrder
    <3>2. \A y \in Pending : store'[y] = Mapped(snapshot[y]) => store[y] = Mapped(snapshot[y])
      BY <1>4, <1>5, <2>3
    <3> QED
      BY <1>4, <2>2, <2>3, <3>1, <3>2 DEF ReadBackInv, LandedInOrder
  <2> QED
    BY <1>3, <2>1, <2>3 DEF LandedInOrder
<1>7. VerifiedIsWritten'
  BY <1>1 DEF ReadBackInv, VerifiedIsWritten
<1> QED
  BY <1>2, <1>6, <1>7 DEF ReadBackInv

\* Every step of the system, faults included, keeps the order of the writes.
LEMMA OrderStep == ASSUME Inv, ReadBackInv, [Next]_vars PROVE ReadBackInv'
<1> USE DEF Inv, Goto, vars, jobVars, storeVars, shadowVars, runVars, batchVars
<1>1. CASE UNCHANGED vars
  BY <1>1, OrderWithin
<1>2. CASE Migrate \/ Resume \/ Rollback \/ Command
  <2>1. pc \notin Unmarked /\ pc' \notin Shadowing \cup Unmarked /\ written' \in {written, <<>>}
    BY <1>2 DEF Migrate, Resume, Rollback, TakeLock, Command, RegisterJob, Enqueue, Preview,
                DoNotStart, Exit, DropBatch, Shadowing, Unmarked
  <2> QED
    BY <2>1, OrderOutside DEF ReadBackInv, WritesInOrder
<1>3. CASE Loop
  <2>1. pc \notin Unmarked /\ pc' \notin Shadowing \cup Unmarked /\ written' \in {written, <<>>}
    <3>1. CASE SetRunning \/ ClearStaleRequest \/ StopAtLimit \/ ClearRequest \/ Finish
      BY <3>1 DEF SetRunning, ClearStaleRequest, StopAtLimit, ClearRequest, Finish, Exit,
                  DropBatch, Shadowing, Unmarked
    <3>2. CASE StopBeforeBatch \/ TakeBatch \/ Pressure
      BY <3>2 DEF StopBeforeBatch, TakeBatch, Pressure, Shadowing, Unmarked
    <3> QED
      BY <1>3, <3>1, <3>2 DEF Loop
  <2> QED
    BY <2>1, OrderOutside DEF ReadBackInv, WritesInOrder
<1>4. CASE RollingBack
  <2>1. pc \notin Unmarked /\ pc' \notin Shadowing \cup Unmarked /\ written' \in {written, <<>>}
    BY <1>4 DEF RollingBack, RestoreSlice, RestoreMismatch, RestoreRefused, RequeueSlice, FinishRollback, Exit,
                DropBatch, Shadowing, Unmarked
  <2> QED
    BY <2>1, OrderOutside DEF ReadBackInv, WritesInOrder
<1>5. CASE Batch
  <2>1. CASE SkipBatch \/ VerifyFailed \/ MarkDone
    <3>1. pc' \notin Shadowing \cup Unmarked /\ written' = <<>>
      BY <2>1 DEF SkipBatch, VerifyFailed, MarkDone, DropBatch, Shadowing, Unmarked
    <3> QED
      BY <3>1, OrderOutside
  <2>2. CASE MarkRejected
    <3>1. CASE written = <<>>
      <4>1. pc' = "pressure" /\ written' = <<>>
        BY <2>2, <3>1 DEF MarkRejected, DropBatch
      <4> QED
        BY <4>1, OrderOutside DEF Shadowing, Unmarked
    <3>2. CASE written # <<>>
      <4>1. /\ pc = "write" /\ pc' = "verify" /\ work = <<>> /\ written # <<>>
            /\ UNCHANGED <<store, mute, batch, snapshot, work, written>>
        BY <2>2, <3>2 DEF MarkRejected
      <4>2. WritesInOrder'
        BY <4>1 DEF ReadBackInv, WritesInOrder, Shadowing, Unmarked
      <4>3. LandedInOrder' /\ VerifiedIsWritten'
        BY <4>1 DEF ReadBackInv, LandedInOrder, Pending, Hit, Shadowing, VerifiedIsWritten
      <4> QED
        BY <4>2, <4>3 DEF ReadBackInv
    <3> QED
      BY <3>1, <3>2
  <2> QED
    BY <1>5, <2>1, <2>2, OrderRead, OrderShadowed, OrderAccepted, OrderRefused, OrderVerified
       DEF Batch
<1>6. CASE Environment
  <2>1. CASE Crash
    BY <2>1, OrderOutside DEF Crash, Exit, DropBatch, Shadowing, Unmarked
  <2>2. CASE RequestPause \/ StoreGoesMute
    BY <2>2, OrderWithin DEF RequestPause, StoreGoesMute
  <2>3. CASE DeleteRecord
    <3>1. \A r \in Records : store'[r] \in {store[r], NoVector}
      BY <2>3 DEF DeleteRecord, Present, TypeOK
    <3> QED
      BY <2>3, <3>1, OrderWithin DEF DeleteRecord
  <2> QED
    BY <1>6, <2>1, <2>2, <2>3 DEF Environment
<1> QED
  BY <1>1, <1>2, <1>3, <1>4, <1>5, <1>6 DEF Next, Process

\* Only _mark_done makes a record done.
LEMMA DoneOnlyByMark ==
    ASSUME [Next]_vars, NEW r \in Records, item[r] # "done", item'[r] = "done"
    PROVE  MarkDone
<1> USE DEF vars, MarkAll
<1>1. CASE Migrate \/ Resume \/ Rollback \/ Command
  BY <1>1 DEF Migrate, Resume, Rollback, TakeLock, Command, RegisterJob, Enqueue, Preview,
              DoNotStart
<1>2. CASE Loop
  BY <1>2 DEF Loop, SetRunning, ClearStaleRequest, StopAtLimit, StopBeforeBatch, TakeBatch,
              Pressure, ClearRequest, Finish
<1>3. CASE Batch
  BY <1>3 DEF Batch, SkipBatch, ReadBatch, AppendVectors, PublishManifest, PublishIds,
              MarkShadowed, WriteAccepted, WriteRefused, MarkRejected, VerifyPassed, VerifyFailed
<1>4. CASE RollingBack \/ Environment
  BY <1>4 DEF RollingBack, RestoreSlice, RestoreMismatch, RestoreRefused, RequeueSlice, FinishRollback,
              Environment, RequestPause, Crash, StoreGoesMute, DeleteRecord
<1> QED
  BY <1>1, <1>2, <1>3, <1>4 DEF Next, Process

\* Under every fault - kills, refused and partial writes, deletions, and a store that
\* from some moment on drops whatever it accepts - no record is marked done over a
\* vector that was never written, although a sample of the batch is all that is read
\* back, for every number of records and every sample of at least two.
THEOREM DoneOnlyIfWrittenAlways == Spec => DoneOnlyIfWritten
<1>1. Init => ReadBackInv
  BY DEF Init, ReadBackInv, WritesInOrder, LandedInOrder, VerifiedIsWritten, Shadowing, Unmarked
<1>2. Inv /\ ReadBackInv /\ [Next]_vars => ReadBackInv'
  BY OrderStep
<1>3. Inv /\ ReadBackInv /\ [Next]_vars =>
         [\A r \in Records : item[r] # "done" /\ item'[r] = "done"
                                => store[r] = NoVector \/ store[r].gen > 0]_vars
  <2>1. SUFFICES ASSUME Inv, ReadBackInv, [Next]_vars, NEW r \in Records,
                        item[r] # "done", item'[r] = "done"
                 PROVE  store[r] = NoVector \/ store[r].gen > 0
    OBVIOUS
  <2>2. MarkDone
    BY <2>1, DoneOnlyByMark
  <2>3. pc = "done" /\ r \in Range(written)
    BY <2>1, <2>2 DEF MarkDone, MarkAll, WrittenRecords
  <2> QED
    BY <2>1, <2>3 DEF ReadBackInv, VerifiedIsWritten
<1> QED
  BY <1>1, <1>2, <1>3, InvAlways, PTL DEF Spec, DoneOnlyIfWritten
=============================================================================
