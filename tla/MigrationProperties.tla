------------------------- MODULE MigrationProperties -------------------------
(***************************************************************************)
(* What a migration job must and must not do, stated over the variables of *)
(* Migration.                                                              *)
(***************************************************************************)
EXTENDS Migration

\* The shadow copy, as far as its manifest vouches for it, holds the original of r.
Kept(r) == \E i \in 1..shadowCount : shadowVectors[i] = Original(r)

Moved(r) == store[r] # NoVector /\ store[r] # Original(r)

-----------------------------------------------------------------------------
(* Safety under every fault *)

\* Unless a run was told not to keep originals, a record that lost its original
\* vector has it in the shadow copy: engine.py shadows before it writes, and
\* shadow.py only ever appends, whatever crash or refused write comes between.
OriginalKept == unkept \/ (\A r \in Records : Moved(r) => Kept(r))

\* The inductive strengthening of OriginalKept is the conjunction, in ShadowInv, of
\* what the locals of a batch and the three shadow files owe to each other between
\* any two durable writes.
BatchInHand == {"append", "publish", "index", "shadowed", "write", "verify", "done"}

\* _process_batch keeps of a batch only the records read_vectors returned.
BatchWasRead == pc \in BatchInHand => \A r \in Range(batch) : snapshot[r] \in Vectors

\* vectors.bin is never shorter than shadow.json says, and holds the batch in hand
\* right behind what the manifest vouches for when the manifest is about to grow.
VectorsBeforeManifest ==
    /\ shadowCount <= Len(shadowVectors)
    /\ pc = "publish" =>
          /\ Len(shadowVectors) = shadowCount + Len(batch)
          /\ \A j \in 1..Len(batch) : shadowVectors[shadowCount + j] = snapshot[batch[j]]

\* Splitting a refused write never reaches beyond the batch it started from.
WorkIsOfBatch ==
    pc = "write" =>
        \A i \in 1..Len(work) : \A j \in 1..Len(work[i].ids) : work[i].ids[j] \in Range(batch)

\* A command in progress was started with --keep-original.
RunKeeps == pc \notin {"idle", "restore", "requeue"} => keep

\* A record of the batch is in the shadow copy before any write of it, from the
\* moment the manifest grows; before that it still has its original vector, or an
\* interrupted run shadowed it already.
BatchIsKept ==
    /\ pc \in {"append", "publish"} =>
          \A r \in Range(batch) : snapshot[r] = Original(r) \/ Kept(r)
    /\ pc \in {"index", "shadowed", "write"} => \A r \in Range(batch) : Kept(r)

\* Whatever record ids.json names can be restored, whichever vector it is paired with.
ListedIsKept == \A i \in 1..Len(shadowIds) : Kept(shadowIds[i])

\* OriginalKept, of a job every run of which kept originals.
MovedIsKept == \A r \in Records : Moved(r) => Kept(r)

FilesInv == BatchWasRead /\ VectorsBeforeManifest /\ WorkIsOfBatch

KeepInv == RunKeeps /\ BatchIsKept /\ ListedIsKept /\ MovedIsKept

\* The shadow files and the batch in hand agree, and nothing is written that the
\* shadow copy does not hold: see the parts above.
ShadowInv == FilesInv /\ (unkept \/ KeepInv)

\* The engine rewrites an index only as ReversibleRewrite allows.
Promise == INSTANCE ReversibleRewrite
    WITH moved <- {r \in Records : Moved(r)},
         kept <- {r \in Records : Kept(r)},
         waived <- unkept

KeepsPromise == Promise!Spec

\* No record is marked done over a vector that was never written: the read-back
\* in _verify_sample catches a store that from some write on drops everything,
\* though it looks at a sample only, because the sample has the batch's last write.
DoneOnlyIfWritten ==
    [][\A r \in Records : item[r] # "done" /\ item'[r] = "done"
                             => store[r] = NoVector \/ store[r].gen > 0]_vars

\* The inductive strengthening of DoneOnlyIfWritten is ReadBackInv, which holds under
\* every fault: a batch is written in the order of its ids, and a store that dropped one
\* write of it keeps none after that, so its last write vouches for the others.
Increasing(s) == \A i, j \in 1..Len(s) : i < j => s[i] < s[j]

\* The part of a batch before its writes, and the part after that in which its records
\* may be mapped but are not marked.
Shadowing == {"append", "publish", "index", "shadowed"}
Unmarked == {"write", "verify", "done"}

WritesInOrder ==
    /\ pc \in Shadowing => Increasing(batch)
    /\ pc \notin Unmarked => written = <<>>
    /\ pc \in {"write", "verify"} => Increasing(written) /\ Range(written) \subseteq Range(batch)
    /\ pc = "write" =>
          /\ \A i \in 1..Len(work) :
                /\ Increasing(work[i].ids)
                /\ \A x \in Range(written), y \in Range(work[i].ids) : x < y
          /\ \A i, k \in 1..Len(work) : i < k =>
                \A x \in Range(work[i].ids), y \in Range(work[k].ids) : x < y
    /\ pc = "verify" => work = <<>> /\ written # <<>>

\* A write of r happened and was kept, unless the record is gone.
Hit(r) == store[r] \in {NoVector, Mapped(snapshot[r])}

\* What of the batch is written or still to be written.
Pending == Range(written) \cup UNION {Range(work[i].ids) : i \in 1..Len(work)}

LandedInOrder ==
    /\ pc \in Shadowing => \A r \in Range(batch) : store[r] \in {NoVector, snapshot[r]}
    /\ pc \in {"write", "verify"} =>
          /\ ~mute => \A x \in Range(written) : Hit(x)
          /\ \A x, y \in Pending : x < y /\ store[y] = Mapped(snapshot[y]) => Hit(x)

VerifiedIsWritten ==
    pc = "done" => \A r \in Range(written) : store[r] = NoVector \/ store[r].gen > 0

ReadBackInv == WritesInOrder /\ LandedInOrder /\ VerifiedIsWritten

-----------------------------------------------------------------------------
(* Safety of a job that is paused, resumed and rolled back, but never killed *)

\* The adapter is applied to no vector twice: `next_batch` hands a record out
\* again only if its write did not happen or was undone.
NeverMappedTwice == \A r \in Records : store[r] # NoVector => store[r].gen < 2

\* After `rebasis rollback` reported success every record is what it was before
\* the first batch, however often the job was paused, resumed and rolled back.
RolledBackRestores ==
    jobState = "rolled_back" => \A r \in Records : ~Moved(r)

\* A job the database calls completed has nothing left to move but what a rollback put
\* back since, be it under way or broken off by a write the store refused: what the
\* queue still hands out is that, all of it, and each record of it is as it was before
\* the first batch.
CompletedLeavesNothing ==
    jobState = "completed" => Remaining = putBack /\ \A r \in putBack : ~Moved(r)

\* Between two runs of the engine: no command, one that has yet to start its run, or a
\* rollback.
BetweenRuns == {"idle", "prepare", "enqueue", "preview", "start", "restore", "requeue"}

\* The half of CompletedLeavesNothing that is about the queue holds under every fault,
\* and is inductive with the fact next to it.
QueueInv ==
    /\ jobState = "completed" =>
          pc \in BetweenRuns \ {"prepare", "enqueue"} /\ Remaining = putBack
    /\ pc \notin BetweenRuns => putBack = {}

\* The inductive strengthening of the three is JobInv.  It holds of a job that is not
\* disturbed: no kill, no write dropped, no record deleted between the read of its
\* batch and the read-back.
Handling == {"append", "publish", "index", "shadowed", "write", "verify"}
Undisturbed == MaxCrashes = 0 /\ MaxMutes = 0 /\ DeletePoints \cap Handling = {}

\* A record has its own vector, as it was or mapped once.
OwnVectors == ~mute /\ \A r \in Records : store[r] \in {NoVector, Original(r), Mapped(Original(r))}

\* What the queue would hand out is not mapped; only a batch in hand is shadowed.
QueuedIsFresh ==
    \A r \in Records :
        LET inHand == pc \in Unmarked /\ r \in Range(batch)
        IN  /\ item[r] \in {"absent", "pending", "shadowed"} => inHand \/ ~Moved(r)
            /\ item[r] = "shadowed" => inHand

\* A batch is taken from the queue, read as originals, and stays in the store.
BatchIsOriginal ==
    /\ pc = "read" => Range(batch) \subseteq Remaining
    /\ pc \in BatchInHand => \A r \in Range(batch) : snapshot[r] = Original(r)
    /\ pc \in Handling => \A r \in Range(batch) : store[r] # NoVector

\* Of a batch nothing is forgotten: every record is written, rejected or still to do.
BatchAccounted ==
    /\ pc = "write" => \A r \in Range(batch) :
          \/ r \in Range(written) \cup rejected
          \/ \E i \in 1..Len(work) : r \in Range(work[i].ids)
    /\ pc \in {"verify", "done"} =>
          \A r \in Range(batch) : r \in Range(written) \/ item[r] = "failed"

WrittenLanded ==
    /\ pc \in {"write", "verify"} =>
          \A r \in Range(written) : r \in Range(batch) /\ store[r] = Mapped(snapshot[r])
    /\ pc \notin Unmarked => written = <<>>

\* The state on the job's row tells where the process can be.
StateIsTold ==
    /\ pc \notin BetweenRuns => jobState = "running"
    /\ jobState = "completed" => pc \in BetweenRuns \ {"prepare", "enqueue"}
    /\ jobState = "rolled_back" => pc \in {"idle", "preview", "start"}

\* The shadow copy pairs each record with its original, entry by entry.
ShadowIsOriginal ==
    /\ shadowCount = Len(shadowIds) + (IF pc = "index" THEN Len(batch) ELSE 0)
    /\ \A i \in 1..Len(shadowIds) : shadowVectors[i] = Original(shadowIds[i])
    /\ pc = "index" => \A j \in 1..Len(batch) :
          shadowVectors[Len(shadowIds) + j] = Original(batch[j])

\* A rollback leaves behind it only records that are as they were, and until the job
\* runs again they stay so.
RestoredSoFar ==
    /\ \A r \in putBack : ~Moved(r)
    /\ pc \notin BetweenRuns => putBack = {}
    /\ pc = "restore" => \A i \in 1..rbPos : i <= Len(shadowIds) => ~Moved(shadowIds[i])
    /\ pc = "requeue" => \A i \in 1..SliceEnd : ~Moved(shadowIds[i])
    /\ pc \notin {"restore", "requeue"} => rbPos = 0

\* A rollback reaches whatever was mapped, and nothing is when it is over.
MovedIsListed ==
    \/ unkept
    \/ /\ pc \in {"shadowed", "write"} => Range(batch) \subseteq Range(shadowIds)
       /\ \A r \in Records : Moved(r) => r \in Range(shadowIds)
       /\ jobState = "rolled_back" => \A r \in Records : ~Moved(r)

JobInv ==
    /\ OwnVectors /\ QueuedIsFresh /\ BatchIsOriginal /\ BatchAccounted /\ WrittenLanded
    /\ StateIsTold /\ ShadowIsOriginal /\ RestoredSoFar /\ MovedIsListed

\* The i-th id of ids.json names the record the i-th vector was read from.
ShadowPairs ==
    pc \notin {"publish", "index"} =>
        /\ shadowCount = Len(shadowIds)
        /\ \A i \in 1..shadowCount : shadowVectors[i].owner = shadowIds[i]

\* spaces.py mixed_spaces: the jobs `status` warns about.
Reported ==
    /\ jobState \in {"pending", "running", "paused"}
    /\ In({"done"}) # {} /\ In({"pending", "shadowed", "failed"}) # {}

\* Whenever no command is running, an index of which part holds the new model's
\* vectors and part the old one's is reported as mixed.
MixedIsReported ==
    /\ pc = "idle"
    /\ \E r \in Present : Moved(r)
    /\ \E r \in Present : ~Moved(r)
    => Reported

\* A run that accepted a pause request begins no further batch.
PauseStopsTheRun == [][pc = "loop" /\ pc' = "read" => ~asked]_vars

-----------------------------------------------------------------------------
(* Liveness *)

\* A command always ends: no batch is handed out for ever, although records the
\* store lost stay queued until a batch consists of nothing else.
CommandEnds == pc # "idle" ~> pc = "idle"

\* An operator who keeps resuming a paused job gets its queue empty.
ResumedQueueEmpties == jobState = "paused" ~> In({"pending", "shadowed"}) = {}

\* "Continue a migration that stopped, from where it stopped" (resume_command): an
\* operator who keeps resuming a paused job gets it completed.
ResumedJobCompletes == jobState = "paused" ~> jobState = "completed"
=============================================================================
