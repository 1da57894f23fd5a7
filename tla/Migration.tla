------------------------------ MODULE Migration ------------------------------
(***************************************************************************)
(* One migration job of rebasis: the engine that rewrites an index in      *)
(* place (migrate/engine.py), the work queue it is checkpointed in         *)
(* (migrate/queue.py), the shadow copy that makes it reversible            *)
(* (storage/shadow.py) and the commands that start, resume, pause and roll *)
(* it back (cli/migrate.py).                                               *)
(*                                                                         *)
(* Every durable write of the code is a step of its own, so a process can  *)
(* be killed between any two of them.  A vector is abstracted to the       *)
(* record it was computed from and the number of times an adapter has been *)
(* applied to it.                                                          *)
(***************************************************************************)
EXTENDS Integers, Sequences, FiniteSets, Functions

CONSTANTS
    N,                \* records in the index, numbered in the queue's order
    BatchSizes,       \* sizes the resource monitor may give a batch
    EnqueueChunk,     \* ids enqueued per call of prepare
    MaxDepth,         \* BISECT_MAX_DEPTH
    VerifyMinimum,    \* floor on the read-back sample
    VerifyShare,      \* 1 / VERIFY_FRACTION: one in so many records is read back
    RollbackBatch,    \* shadow entries restored per step of a rollback
    KeepChoices,      \* values --keep-original may be given
    Limits,           \* values --limit may be given; a large one is "no limit"
    CanRefuse,        \* the store may refuse a write
    PartialWrites,    \* a refused or interrupted write may have landed in part
    DeletePoints,     \* where a command may be when the application deletes a record
    NoVector,         \* what the store answers for a record it does not have
    MaxCrashes, MaxMutes, MaxStops, MaxPauses, MaxRollbacks, MaxDeletes   \* bounds

ASSUME SizeAssumption ==
    /\ N \in Nat \ {0}
    /\ BatchSizes \subseteq Nat \ {0} /\ Limits \subseteq Nat \ {0}
    /\ EnqueueChunk \in Nat \ {0} /\ RollbackBatch \in Nat \ {0}
    /\ VerifyMinimum \in Nat \ {0, 1} /\ VerifyShare \in Nat \ {0} /\ MaxDepth \in Nat

ASSUME FlagAssumption ==
    KeepChoices \subseteq BOOLEAN /\ CanRefuse \in BOOLEAN /\ PartialWrites \in BOOLEAN

ASSUME BoundAssumption ==
    /\ MaxCrashes \in Nat /\ MaxMutes \in Nat /\ MaxStops \in Nat
    /\ MaxPauses \in Nat /\ MaxRollbacks \in Nat /\ MaxDeletes \in Nat

Records == 1..N
Vectors == [owner : Records, gen : Nat]
Original(r) == [owner |-> r, gen |-> 0]

ASSUME NoVectorAssumption == NoVector \notin Vectors

\* adapter.apply: of the vector it is given, whichever space that is in.
Mapped(v) == [v EXCEPT !.gen = v.gen + 1]

Min2(a, b) == IF a < b THEN a ELSE b

\* A sequence of ids as the queue and the store list them: no repeats, in order.
Listings == UNION {[1..n -> Records] : n \in 0..N}
Lists(s, S) == Range(s) = S /\ \A i, j \in DOMAIN s : i < j => s[i] < s[j]

\* The first n members of S in the queue's order.
FirstOf(S, n) == {r \in S : Cardinality({q \in S : q < r}) < n}

JobStates == {"none", "pending", "running", "paused", "completed", "rolled_back"}
ItemStates == {"absent", "pending", "shadowed", "done", "failed", "skipped"}

Locations == {"idle", "prepare", "enqueue", "preview", "start", "clear", "loop",
              "read", "append", "publish", "index", "shadowed", "write", "reject",
              "verify", "done", "pressure", "settle", "finish",
              "restore", "requeue"}

VARIABLES
    (* The manifest database. *)
    jobState, rowKeep, pauseRequested,   \* the row of the job
    item,                                \* the job_items rows, by record
    (* The store, and whether it drops the writes it accepts. *)
    store, mute,
    (* The shadow directory: vectors.bin, the count of shadow.json, ids.json. *)
    shadowVectors, shadowCount, shadowIds,
    (* The process holding the state lock, if pc is not "idle". *)
    pc, keep, limit, processed, stopping,
    batch, snapshot, work, written, rejected,   \* the batch it is working on
    rbPos,                                      \* entries a rollback has read
    (* History, read by properties and fault bounds only. *)
    unkept,     \* some run so far had --no-keep-original
    putBack,    \* records a rollback queued again since the job last ran
    asked,      \* a pause was accepted during the run now in progress
    faults      \* how often each fault has happened

jobVars    == <<jobState, rowKeep, pauseRequested>>
storeVars  == <<store, mute>>
shadowVars == <<shadowVectors, shadowCount, shadowIds>>
runVars    == <<keep, limit, processed, stopping>>
batchVars  == <<batch, snapshot, work, written, rejected>>
histVars   == <<unkept, putBack, asked, faults>>
vars == <<jobVars, item, storeVars, shadowVars, pc, runVars, batchVars, rbPos, histVars>>

FaultKinds == {"crash", "mute", "stop", "pause", "rollback", "delete"}
Segments == [ids : Seq(Records), depth : 0..MaxDepth]
NoBatch == [r \in Records |-> NoVector]

\* Every variable holds a value of its type, between any two durable writes.
TypeOK ==
    /\ jobState \in JobStates /\ rowKeep \in BOOLEAN /\ pauseRequested \in BOOLEAN
    /\ item \in [Records -> ItemStates]
    /\ store \in [Records -> Vectors \cup {NoVector}] /\ mute \in BOOLEAN
    /\ shadowVectors \in Seq(Vectors) /\ shadowIds \in Seq(Records)
    /\ shadowCount \in Nat
    /\ pc \in Locations
    /\ keep \in BOOLEAN /\ limit \in Nat /\ processed \in Nat /\ stopping \in BOOLEAN
    /\ batch \in Seq(Records) /\ snapshot \in [Records -> Vectors \cup {NoVector}]
    /\ work \in Seq(Segments) /\ written \in Seq(Records) /\ rejected \in SUBSET Records
    /\ rbPos \in Nat
    /\ unkept \in BOOLEAN /\ putBack \in SUBSET Records
    /\ asked \in BOOLEAN /\ faults \in [FaultKinds -> Nat]

-----------------------------------------------------------------------------
(* Reading the queue *)

In(states) == {r \in Records : item[r] \in states}
Remaining == In({"pending", "shadowed"})
Present == {r \in Records : store[r] # NoVector}

MarkAll(S, state) == item' = [r \in Records |-> IF r \in S THEN state ELSE item[r]]

Goto(l) == pc' = l
FaultsLeft(f, bound) == faults[f] < bound
CountFault(f) == faults' = [faults EXCEPT ![f] = @ + 1]

\* The locals of _process_batch go out of scope.
DropBatch ==
    /\ batch' = <<>> /\ snapshot' = NoBatch /\ work' = <<>>
    /\ written' = <<>> /\ rejected' = {}

\* The process exits and the operating system releases its lock.
Exit ==
    /\ Goto("idle") /\ DropBatch
    /\ keep' = FALSE /\ limit' = 0 /\ processed' = 0 /\ stopping' = FALSE
    /\ rbPos' = 0 /\ asked' = FALSE /\ mute' = FALSE

Init ==
    /\ jobState = "none" /\ rowKeep = FALSE /\ pauseRequested = FALSE
    /\ item = [r \in Records |-> "absent"]
    /\ store = [r \in Records |-> Original(r)] /\ mute = FALSE
    /\ shadowVectors = <<>> /\ shadowCount = 0 /\ shadowIds = <<>>
    /\ pc = "idle" /\ keep = FALSE /\ limit = 0 /\ processed = 0 /\ stopping = FALSE
    /\ batch = <<>> /\ snapshot = NoBatch /\ work = <<>> /\ written = <<>> /\ rejected = {}
    /\ rbPos = 0 /\ unkept = FALSE /\ putBack = {} /\ asked = FALSE
    /\ faults = [f \in FaultKinds |-> 0]

-----------------------------------------------------------------------------
(* rebasis migrate and rebasis resume, up to the engine's run *)

TakeLock(l) ==
    /\ pc = "idle" /\ Goto(l)
    /\ keep' \in KeepChoices /\ limit' \in Limits
    /\ unkept' = (unkept \/ ~keep')
    /\ UNCHANGED <<jobVars, item, storeVars, shadowVars, processed, stopping,
                   batchVars, rbPos, putBack, asked, faults>>

Migrate == jobState = "none" /\ TakeLock("prepare")

\* No look at the state of the job: any job with a row can be resumed.
Resume == jobState # "none" /\ TakeLock("preview")

\* prepare, first transaction: INSERT OR IGNORE of the job's row.
RegisterJob ==
    /\ pc = "prepare"
    /\ IF In({"absent"}) \cap Present = {}
         THEN Goto("preview") /\ UNCHANGED jobVars
         ELSE /\ Goto("enqueue")
              /\ IF jobState = "none"
                   THEN jobState' = "pending" /\ rowKeep' = keep
                   ELSE UNCHANGED <<jobState, rowKeep>>
              /\ UNCHANGED pauseRequested
    /\ UNCHANGED <<item, storeVars, shadowVars, runVars, batchVars, rbPos, histVars>>

\* prepare, second transaction: INSERT OR IGNORE of one chunk of items.
Enqueue ==
    /\ pc = "enqueue"
    /\ Goto("prepare")
    /\ MarkAll(FirstOf(In({"absent"}) \cap Present, EnqueueChunk), "pending")
    /\ UNCHANGED <<jobVars, storeVars, shadowVars, runVars, batchVars, rbPos, histVars>>

\* The preview counts PENDING items; with none there is "Nothing to migrate".
Preview ==
    /\ pc = "preview"
    /\ In({"pending"}) # {}
    /\ Goto("start")
    /\ UNCHANGED <<jobVars, item, storeVars, shadowVars, runVars, batchVars, rbPos, histVars>>

\* Nothing to migrate, a disk too small, --dry-run, or "Proceed?" answered with no.
DoNotStart ==
    /\ pc = "preview"
    /\ In({"pending"}) = {} \/ FaultsLeft("stop", MaxStops)
    /\ IF In({"pending"}) = {} THEN UNCHANGED faults ELSE CountFault("stop")
    /\ Exit
    /\ UNCHANGED <<jobVars, item, store, shadowVars, unkept, putBack>>

-----------------------------------------------------------------------------
(* The run loop *)

SetRunning ==
    /\ pc = "start"
    /\ jobState' = "running" /\ putBack' = {}
    /\ Goto("clear")
    /\ UNCHANGED <<rowKeep, pauseRequested, item, storeVars, shadowVars, runVars,
                   batchVars, rbPos, unkept, asked, faults>>

ClearStaleRequest ==
    /\ pc = "clear"
    /\ pauseRequested' = FALSE
    /\ Goto("loop")
    /\ UNCHANGED <<jobState, rowKeep, item, storeVars, shadowVars, runVars,
                   batchVars, rbPos, histVars>>

StopAtLimit ==
    /\ pc = "loop"
    /\ processed >= limit
    /\ Goto("settle")
    /\ UNCHANGED <<jobVars, item, storeVars, shadowVars, runVars, batchVars, rbPos, histVars>>

\* _reason_to_stop: a pause request, or a signal or the battery.
StopBeforeBatch ==
    /\ pc = "loop"
    /\ processed < limit
    /\ IF pauseRequested THEN UNCHANGED faults
         ELSE FaultsLeft("stop", MaxStops) /\ CountFault("stop")
    /\ stopping' = TRUE
    /\ Goto("settle")
    /\ UNCHANGED <<jobVars, item, storeVars, shadowVars, keep, limit, processed,
                   batchVars, rbPos, unkept, putBack, asked>>

TakeBatch ==
    /\ pc = "loop"
    /\ processed < limit
    /\ ~pauseRequested
    /\ IF Remaining = {}
         THEN Goto("settle") /\ UNCHANGED batch
         ELSE \E size \in BatchSizes :
                /\ batch' \in Listings
                /\ Lists(batch', FirstOf(Remaining, Min2(size, limit - processed)))
                /\ Goto("read")
    /\ UNCHANGED <<jobVars, item, storeVars, shadowVars, runVars, snapshot, work, written,
                   rejected, rbPos, histVars>>

-----------------------------------------------------------------------------
(* One batch: shadow, map, write, verify, mark - in that order *)

\* Mutant: an empty batch is passed over without a mark.
PassOverBatch ==
    /\ pc = "read"
    /\ Range(batch) \cap Present = {}
    /\ DropBatch
    /\ Goto("pressure")
    /\ UNCHANGED <<jobVars, item, storeVars, shadowVars, runVars, rbPos, histVars>>

\* A batch of which the store has nothing is skipped whole.
SkipBatch ==
    /\ pc = "read"
    /\ Range(batch) \cap Present = {}
    /\ MarkAll(Range(batch), "skipped")
    /\ DropBatch
    /\ Goto("pressure")
    /\ UNCHANGED <<jobVars, storeVars, shadowVars, runVars, rbPos, histVars>>

\* Records the store no longer has fall out of a mixed batch and stay queued.
ReadBatch ==
    /\ pc = "read"
    /\ Range(batch) \cap Present # {}
    /\ batch' \in Listings
    /\ Lists(batch', Range(batch) \cap Present)
    /\ snapshot' = [r \in Records |-> IF r \in Range(batch') THEN store[r] ELSE NoVector]
    /\ IF keep THEN Goto("append") /\ UNCHANGED work
               ELSE Goto("write") /\ work' = <<[ids |-> batch', depth |-> 0]>>
    /\ UNCHANGED <<jobVars, item, storeVars, shadowVars, runVars, written, rejected,
                   rbPos, histVars>>

\* Bytes past the recorded length are cut off before the batch is appended.
\* Mutant: a partial append is built upon.
AllBytes == shadowVectors
VouchedFor == SubSeq(shadowVectors, 1, shadowCount)

AppendVectors ==
    /\ pc = "append"
    /\ shadowVectors' = VouchedFor
                          \o [i \in 1..Len(batch) |-> snapshot[batch[i]]]
    /\ Goto("publish")
    /\ UNCHANGED <<jobVars, item, storeVars, shadowCount, shadowIds, runVars, batchVars,
                   rbPos, histVars>>

PublishManifest ==
    /\ pc = "publish"
    /\ shadowCount' = shadowCount + Len(batch)
    /\ Goto("index")
    /\ UNCHANGED <<jobVars, item, storeVars, shadowVectors, shadowIds, runVars, batchVars,
                   rbPos, histVars>>

PublishIds ==
    /\ pc = "index"
    /\ shadowIds' = shadowIds \o batch
    /\ Goto("shadowed")
    /\ UNCHANGED <<jobVars, item, storeVars, shadowVectors, shadowCount, runVars, batchVars,
                   rbPos, histVars>>

MarkShadowed ==
    /\ pc = "shadowed"
    /\ MarkAll(Range(batch), "shadowed")
    /\ work' = <<[ids |-> batch, depth |-> 0]>>
    /\ Goto("write")
    /\ UNCHANGED <<jobVars, storeVars, shadowVars, runVars, batch, snapshot, written,
                   rejected, rbPos, histVars>>

\* What the store holds once it has taken the mapped vectors of S.  Rows are
\* replaced, never created, and a mute store drops what it accepts.
Land(S) ==
    store' = [r \in Records |-> IF r \in S /\ store[r] # NoVector /\ ~mute
                                THEN Mapped(snapshot[r]) ELSE store[r]]

WriteAccepted ==
    /\ pc = "write" /\ work # <<>>
    /\ Land(Range(Head(work).ids))
    /\ written' = written \o Head(work).ids
    /\ work' = Tail(work)
    /\ UNCHANGED <<jobVars, item, mute, shadowVars, pc, runVars, batch, snapshot, rejected,
                   rbPos, histVars>>

\* _write_or_split on StoreWriteFailed: give the segment up, or try its halves.  The
\* three attempts retry_transient makes at a whole batch are one refusal here, which
\* leaves what the attempt that got furthest left.
Halves(segment) ==
    LET middle == Len(segment.ids) \div 2
    IN  <<[ids |-> SubSeq(segment.ids, 1, middle), depth |-> segment.depth + 1],
          [ids |-> SubSeq(segment.ids, middle + 1, Len(segment.ids)),
           depth |-> segment.depth + 1]>>

\* Mutant: one halving too many.
GivesUpLate(segment) == Len(segment.ids) = 1 \/ segment.depth > MaxDepth
GivesUp(segment) == Len(segment.ids) = 1 \/ segment.depth >= MaxDepth

WriteRefused ==
    /\ pc = "write" /\ work # <<>> /\ CanRefuse
    /\ \E k \in 0..(IF PartialWrites THEN Len(Head(work).ids) - 1 ELSE 0) :
          Land(Range(SubSeq(Head(work).ids, 1, k)))
    /\ IF GivesUp(Head(work))
         THEN /\ rejected' = rejected \cup Range(Head(work).ids)
              /\ work' = Tail(work)
         ELSE /\ work' = Halves(Head(work)) \o Tail(work)
              /\ UNCHANGED rejected
    /\ UNCHANGED <<jobVars, item, mute, shadowVars, pc, runVars, batch, snapshot, written,
                   rbPos, histVars>>

\* Mutant: rejected records are left in the queue.
LeaveRejected ==
    /\ pc = "write" /\ work = <<>>
    /\ IF written = <<>> THEN Goto("pressure") /\ DropBatch
                         ELSE Goto("verify") /\ UNCHANGED batchVars
    /\ UNCHANGED <<jobVars, item, storeVars, shadowVars, runVars, rbPos, histVars>>

MarkRejected ==
    /\ pc = "write" /\ work = <<>>
    /\ MarkAll(rejected, "failed")
    /\ IF written = <<>> THEN Goto("pressure") /\ DropBatch
                         ELSE Goto("verify") /\ UNCHANGED batchVars
    /\ UNCHANGED <<jobVars, storeVars, shadowVars, runVars, rbPos, histVars>>

SampleSize(n) ==
    Min2(IF n \div VerifyShare > VerifyMinimum THEN n \div VerifyShare ELSE VerifyMinimum, n)

\* Mutant: evenly spread positions that leave the last one out.
WithoutEndpoint(n) ==
    LET m == SampleSize(n) IN {1 + (i * n) \div m : i \in 0..(m - 1)}

\* np.linspace(0, n - 1, m, dtype=int), as positions counted from one.
SamplePositions(n) ==
    LET m == SampleSize(n)
    IN  IF m = 1 THEN {1} ELSE {1 + (i * (n - 1)) \div (m - 1) : i \in 0..(m - 1)}

Mismatched == {i \in SamplePositions(Len(written)) :
                 store[written[i]] # Mapped(snapshot[written[i]])}

VerifyPassed ==
    /\ pc = "verify"
    /\ Mismatched = {}
    /\ Goto("done")
    /\ UNCHANGED <<jobVars, item, storeVars, shadowVars, runVars, batchVars, rbPos, histVars>>

\* The first mismatch fails its record and interrupts the run.
VerifyFailed ==
    /\ pc = "verify"
    /\ \E i \in Mismatched :
          /\ \A j \in Mismatched : i <= j
          /\ MarkAll({written[i]}, "failed")
    /\ stopping' = TRUE
    /\ DropBatch
    /\ Goto("settle")
    /\ UNCHANGED <<jobVars, storeVars, shadowVars, keep, limit, processed, rbPos, histVars>>

\* Mutant: only what was read back is marked.
SampledRecords == {written[i] : i \in SamplePositions(Len(written))}
WrittenRecords == Range(written)

MarkDone ==
    /\ pc = "done"
    /\ MarkAll(WrittenRecords, "done")
    /\ processed' = processed + Len(written)
    /\ DropBatch
    /\ Goto("pressure")
    /\ UNCHANGED <<jobVars, storeVars, shadowVars, keep, limit, stopping, rbPos, histVars>>

\* _pressure: memory over its ceiling pauses the run; anything less goes on.
Pressure ==
    /\ pc = "pressure"
    /\ \/ Goto("loop") /\ UNCHANGED <<stopping, faults>>
       \/ /\ FaultsLeft("stop", MaxStops) /\ CountFault("stop")
          /\ stopping' = TRUE
          /\ Goto("settle")
    /\ UNCHANGED <<jobVars, item, storeVars, shadowVars, keep, limit, processed, batchVars,
                   rbPos, unkept, putBack, asked>>

\* _finish, first transaction: no request outlives the run.
ClearRequest ==
    /\ pc = "settle"
    /\ pauseRequested' = FALSE
    /\ Goto("finish")
    /\ UNCHANGED <<jobState, rowKeep, item, storeVars, shadowVars, runVars, batchVars,
                   rbPos, histVars>>

\* Mutant: a run stopped by its limit counts as complete.
StateUnlessStopped == IF stopping THEN "paused" ELSE "completed"
FinalState == IF ~stopping /\ Remaining = {} THEN "completed" ELSE "paused"

\* _finish, second transaction: the state the job is left in.
Finish ==
    /\ pc = "finish"
    /\ jobState' = FinalState
    /\ Exit
    /\ UNCHANGED <<rowKeep, pauseRequested, item, store, shadowVars, unkept, putBack, faults>>

-----------------------------------------------------------------------------
(* rebasis rollback *)

\* JobRow.reversible: the job kept its originals and was not rolled back already.
\* Without a shadow manifest there is nothing to read (ShadowMissing).
Rollback ==
    /\ pc = "idle" /\ FaultsLeft("rollback", MaxRollbacks)
    /\ jobState \notin {"none", "rolled_back"} /\ rowKeep
    /\ shadowCount > 0
    /\ CountFault("rollback")
    /\ Goto("restore")
    /\ UNCHANGED <<jobVars, item, storeVars, shadowVars, runVars, batchVars, rbPos,
                   unkept, putBack, asked>>

SliceEnd == Min2(rbPos + RollbackBatch, shadowCount)

\* Mutant: the slice ends one entry early.
SliceWithoutLast == rbPos + 1 .. SliceEnd - 1
Slice == rbPos + 1 .. SliceEnd

\* Entries for record r among the slice's entries up to the last one written; of
\* several, the last is the one that stays.
Hits(r, last) == {i \in Slice : i <= last /\ shadowIds[i] = r}
Latest(S) == CHOOSE i \in S : \A j \in S : j <= i

Restore(last) ==
    store' = [r \in Records |-> IF Hits(r, last) # {} /\ store[r] # NoVector /\ ~mute
                                THEN shadowVectors[Latest(Hits(r, last))] ELSE store[r]]

RestoreSlice ==
    /\ pc = "restore" /\ rbPos < shadowCount
    /\ SliceEnd <= Len(shadowIds)
    /\ Restore(SliceEnd)
    /\ Goto("requeue")
    /\ UNCHANGED <<jobVars, item, mute, shadowVars, runVars, batchVars, rbPos, histVars>>

\* Fewer ids than vectors in the slice: the store's upsert raises, some stores
\* only after writing the entries that do pair up.
RestoreMismatch ==
    /\ pc = "restore" /\ rbPos < shadowCount
    /\ SliceEnd > Len(shadowIds)
    /\ UNCHANGED store \/ (PartialWrites /\ Restore(Len(shadowIds)))
    /\ Exit
    /\ UNCHANGED <<jobVars, item, shadowVars, unkept, putBack, faults>>

\* The store refuses the slice, some stores with entries of it written.  Nothing tries
\* again and nothing handles it: the slices before this one stay queued, and the row of
\* the job says what it said before the rollback.
RestoreRefused ==
    /\ pc = "restore" /\ rbPos < shadowCount
    /\ SliceEnd <= Len(shadowIds)
    /\ CanRefuse
    /\ \E last \in (IF PartialWrites THEN rbPos .. SliceEnd - 1 ELSE {rbPos}) : Restore(last)
    /\ Exit
    /\ UNCHANGED <<jobVars, item, shadowVars, unkept, putBack, faults>>

\* The records the slice names.
Named == {r \in Records : Hits(r, SliceEnd) # {}}

RequeueSlice ==
    /\ pc = "requeue"
    /\ MarkAll(Named, "pending")
    /\ putBack' = putBack \cup Named
    /\ rbPos' = SliceEnd
    /\ Goto("restore")
    /\ UNCHANGED <<jobVars, storeVars, shadowVars, runVars, batchVars, unkept, asked, faults>>

FinishRollback ==
    /\ pc = "restore" /\ rbPos >= shadowCount
    /\ jobState' = "rolled_back"
    /\ Exit
    /\ UNCHANGED <<rowKeep, pauseRequested, item, store, shadowVars, unkept, putBack, faults>>

-----------------------------------------------------------------------------
(* Everything else that can happen at any moment *)

\* rebasis pause: another process, no lock, guarded on the state in the UPDATE.
RequestPause ==
    /\ jobState = "running" /\ FaultsLeft("pause", MaxPauses)
    /\ CountFault("pause")
    /\ pauseRequested' = TRUE
    /\ asked' = (pc # "idle")
    /\ UNCHANGED <<jobState, rowKeep, item, storeVars, shadowVars, pc, runVars, batchVars,
                   rbPos, unkept, putBack>>

\* kill -9, a power cut, or an exception nothing in the engine handles.  A write
\* that was on its way to the store may have landed in part.
Crash ==
    /\ pc # "idle" /\ FaultsLeft("crash", MaxCrashes)
    /\ CountFault("crash")
    /\ \/ UNCHANGED store
       \/ /\ PartialWrites /\ pc = "write" /\ work # <<>>
          /\ \E k \in 1..Len(Head(work).ids) : Land(Range(SubSeq(Head(work).ids, 1, k)))
       \/ /\ PartialWrites /\ pc = "restore" /\ SliceEnd <= Len(shadowIds)
          /\ \E last \in Slice : Restore(last)
    /\ Exit
    /\ UNCHANGED <<jobVars, item, shadowVars, unkept, putBack>>

\* From now on the store acknowledges this process's writes and drops them.
StoreGoesMute ==
    /\ pc # "idle" /\ ~mute /\ FaultsLeft("mute", MaxMutes)
    /\ mute' = TRUE
    /\ CountFault("mute")
    /\ UNCHANGED <<jobVars, item, store, shadowVars, pc, runVars, batchVars, rbPos,
                   unkept, putBack, asked>>

\* The application that owns the index deletes a record, in a process of its own.
DeleteRecord ==
    /\ pc \in DeletePoints /\ FaultsLeft("delete", MaxDeletes)
    /\ \E r \in Present : store' = [store EXCEPT ![r] = NoVector]
    /\ CountFault("delete")
    /\ UNCHANGED <<jobVars, item, mute, shadowVars, pc, runVars, batchVars, rbPos,
                   unkept, putBack, asked>>

-----------------------------------------------------------------------------
Command == RegisterJob \/ Enqueue \/ Preview \/ DoNotStart
Loop == \/ SetRunning \/ ClearStaleRequest
        \/ StopAtLimit \/ StopBeforeBatch \/ TakeBatch
        \/ Pressure \/ ClearRequest \/ Finish
Batch == \/ SkipBatch \/ ReadBatch
         \/ AppendVectors \/ PublishManifest \/ PublishIds \/ MarkShadowed
         \/ WriteAccepted \/ WriteRefused \/ MarkRejected
         \/ VerifyPassed \/ VerifyFailed \/ MarkDone
RollingBack == \/ RestoreSlice \/ RestoreMismatch \/ RestoreRefused
               \/ RequeueSlice \/ FinishRollback

\* A step of the process that holds the lock.
Process == Command \/ Loop \/ Batch \/ RollingBack

Environment == RequestPause \/ Crash \/ StoreGoesMute \/ DeleteRecord

Next == Migrate \/ Resume \/ Rollback \/ Process \/ Environment

Spec == Init /\ [][Next]_vars

\* The operating system keeps running a process that is not waiting for anything.
FairSpec == Spec /\ WF_vars(Process)

\* ... and an operator who resumes a job that is not finished.
AttendedSpec == FairSpec /\ WF_vars(jobState # "completed" /\ Resume)
=============================================================================
