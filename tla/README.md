# A verification development of rebasis

rebasis moves a vector index from one embedding model to another without
re-embedding the corpus: it fits an *adapter* on a sample, and `rebasis migrate`
rewrites every stored vector in place through it. This directory holds TLA+
models of the parts of rebasis that keep state, the TLC configurations that check
them on small instances, and TLAPS proofs of what matters most for every size.

Paths below are relative to the package, `src/src/rebasis/`; `docs/` is
`src/docs/`.

    tlc -workers 2 -config MigrationFaults.cfg MCMigration.tla
    tlapm MigrationProofs.tla

## 1. Inventory

### Components that keep state

| Component | State | Operations | Interacts with | Hard behaviour |
|---|---|---|---|---|
| Engine, `migrate/engine.py` | the batch in hand, counters, the reason to stop, the adapter in use | `prepare`, `run`, one batch (`_process_batch_inner`, `_write_or_split`, `_verify_sample`), `_pressure`, `_finish`, `rollback`, `_maybe_refit`, durability check | queue, shadow copy, store, monitor, audit, database | every durable write is a step a kill may follow; writes refused or landed in part |
| Work queue, `migrate/queue.py` | `job_items` marks, the pause flag of `jobs` | `enqueue`, `next_batch`, `mark`, `stats`, `set_job_state`, `request_pause`, `clear_pause_request` | engine; `pause` from another process | pause races start and end of a run; records that no batch ever settles |
| Shadow copy, `storage/shadow.py` | `vectors.bin`, `shadow.json`, `ids.json` | `append`, `iter_batches`, `read_vectors` | engine, gc | three files replaced one after the other |
| Commands, `cli/migrate.py` | none of its own | `migrate`, `resume`, `pause`, `status`, `rollback`, `gc` | all of the above under the state lock | arbitrary sequences by an operator; conditions that turn a command away |
| State lock, `storage/locks.py` | lock file, holder information file | acquire with a timeout, release, stale report | every command that writes | information written after the lock is taken |
| Garbage collection, `storage/gc.py` | none | plan, apply | shadow copies, cache, other commands | the plan is made before the lock is taken |
| Adapter refit, `migrate/refit.py` and the engine | adapter in use, file on disk, path in the job row | fit, compare, swap, persist | engine, queue | a counter of file names that starts again with every run; a save in two files |
| Resource monitor and signals, `migrate/power.py`, `migrate/signals.py` | batch size, stop flag, previous handlers | observe, halve, stop | engine | the size at its minimum; a signal at any moment, a second one |
| Mixed-space search, `serve/mixed.py` | cached progress | two searches, ask the queue, merge | store and queue while a migration runs | a record moves between the two searches |
| Cascade, `serve/cascade.py` | shared cache | search | several threads | evictions between the lookup and the use of a vector |
| Embedding cache, `storage/embedding_cache.py` | SQLite rows | lookup, insert, encode through | several processes | a locked, damaged or foreign file; weights that change width |
| Atomic writes, `storage/atomic.py` | temporary file, target | write, fsync, rename, fsync of the directory | shadow copy, adapters | power cut between the steps |
| Audit trail, `audit/` | records chained by hash | append, verify, prune, replay | several processes, one database | two records sealed against one predecessor; a prune that is cut short |
| Manifest database, `manifest/` | `jobs`, `job_items`, audit records, schema version | transactions, schema migration | everything above | several processes, restart during a schema change |
| FAISS backend, `store/backends/faiss.py` | index in memory and on disk, sidecar of ids and texts, rows of ids | read, `upsert_vectors`, open | engine | every write moves rows; two files written one after the other |
| Probe sample, `probe/session.py` | pool, ids, texts, vectors | two passes over the store, draw, drop, split | store, while its owner edits | the passes see two versions |

### Components without state of their own

Pure algorithms that are checked against a reference definition: the bisection
of a refused batch and the read-back sample (in `Migration`), reciprocal rank
fusion and the calibrated merge (`serve/hybrid.py`), the probe's decision
(`probe/decision.py`), the allocation of a stratified sample
(`sample/strategies.py`), the exact neighbours an index is measured against
(`migrate/health.py`). Left to their tests: the ranking of adapters
(`core/selection.py`), the transition tables (`migrate/states.py`), the disk
budget (`storage/budget.py`).

Out of reach or without behaviour: adapters (`core/`), numerical kernels
(`compute/`) and the probe's statistics (`probe/`) are linear algebra and
training over floating-point numbers; embedders and most store backends are
clients of external models and databases; reports, logging, telemetry and the
remaining commands format output.

### What makes each component correct

* **Engine, queue, shadow copy.** No original vector is ever lost: it is in the
  index or in the shadow copy, whatever happened. No record is marked done that
  was not rewritten. No vector goes through an adapter twice. A rollback undoes a
  job completely. Completion means nothing is left. A pause is honoured and lost
  by nobody. Every command ends; a resumed job makes progress and is completed.
* **Mixed report and mixed search.** An index of two spaces is reported as such. A
  search merges every record that does not move under it with the score it has
  in its own space, answers at either end of a migration as the store alone would,
  and while nothing moves misses no result the over-fetching is there to reach.
* **Lock and gc.** One writer at a time; nothing in use is collected.
* **Refit.** The adapter that the job row names is never older than one some
  batch was already mapped with.
* **Audit.** One chain, whatever the interleaving; every damage is found; a prune
  accounts for what it removed.
* **Atomic write.** Old content or new, and what was acknowledged survives.
* **Caches.** A call answers with the vectors of the texts it was given, in one
  width; an eviction costs a query nothing of what it had found.
* **Durability check, FAISS.** A store that kept next to nothing of a run does not
  pass, and is never held twice; an id keeps its own vector.
* **Signals.** A run stops within a batch of what asked it to; a second signal
  ends the process.
* **Probe.** The sample is aligned and fairly allocated; the decision never
  recommends what its own numbers say is a loss.

The line by line list of hazards is in `PROJECT.json`.

## 2. Modules

| Module | What it is |
|---|---|
| `Migration` | engine, queue, shadow copy, job row and commands for one job, with the faults around them |
| `MigrationProperties` | what such a job must and must not do |
| `ReversibleRewrite` | the abstract promise: a vector leaves the index only while a copy of it is kept |
| `MCMigration` | constants a `.cfg` cannot write |
| `MigrationProofs` | theorems about `Migration` under every fault |
| `JobProofs` | theorems about a job nothing disturbs, and about the read-back (extends `MigrationProofs`) |
| `StateLock` | the lock on a state directory, the file that names its holder, timeouts and their report |
| `Collection` | the commands as processes that compete for that lock, and gc, which plans before it takes it |
| `MCCollection` | symmetry of the processes for TLC |
| `CollectionProofs` | theorems about `Collection` |
| `AuditChain` | the audit trail: writers, verification, prune, damage |
| `AtomicWrite` | a file that is replaced, backed up and cleaned up after, over a file system that loses what was not flushed |
| `AdapterRefit` | the engine's adapter, its files and the job row, over several runs |
| `MixedSearch` | a search of an index that a migration is rewriting (extends `HybridMerge`) |
| `HybridMerge` | reciprocal rank fusion and the calibrated merge |
| `EmbeddingCache` | processes that encode through one cache file |
| `Cascade` | threads that rerank through one bounded cache |
| `ManifestSchema` | processes that open a manifest and migrate its schema |
| `RunControl` | signals, pause requests, retries and memory pressure around the batches of a run |
| `ProbeDecision` | the recommendation of a probe |
| `Durability` | the read-back on a fresh connection after a completed run |
| `FaissStore` | the rows, labels and files of the FAISS backend |
| `SampleAllocation` | how many records a stratified sample takes from each cluster, loop by loop |
| `CorpusSample` | the sample of vectors and texts a probe works on |
| `IndexHealth` | the exact neighbours of a record, page by page, and what share of them an index returns |
| `Trials` | what the merge and the decision rule promise of one input |
| `Ranking` | a finite set put in the order of a function, or of a strict order; a stable sort |
| `RankingProofs` | lemmas: such an order has every member once, in its place; a stable sort is sorted, and stable |
| `EngineProofs` | theorems about `RunControl`, `AdapterRefit`, `Durability` |
| `StorageProofs` | theorems about `ManifestSchema`, `AtomicWrite`, `AuditChain`, `FaissStore` |
| `ServingProofs` | theorems about `EmbeddingCache`, `MixedSearch`, `Cascade` |
| `AlgorithmProofs` | theorems about the merge, the decision rule, `CorpusSample`, `SampleAllocation` and `IndexHealth` |
| `MCServices` | one run for the modules from `Collection` on: constants, inputs of the algorithms, composition |

### How `Migration` corresponds to the code

The state is what survives a process and what one process holds:

| Variables | In the code |
|---|---|
| `jobState`, `rowKeep`, `pauseRequested` | columns `state`, `keep_original`, `pause_requested` of `jobs` (`manifest/db.py`) |
| `item` | the rows of `job_items`; `"absent"` is a record without a row |
| `store`, `mute` | the index; `mute`: it acknowledges writes and drops them |
| `shadowVectors`, `shadowCount`, `shadowIds` | `vectors.bin`, the count in `shadow.json`, `ids.json` |
| `pc`, `keep`, `limit`, `processed`, `stopping` | where the process holding the state lock is, its options, its counters |
| `batch`, `snapshot`, `work`, `written`, `rejected` | locals of `_process_batch_inner` and `_write_or_split` |
| `rbPos` | how far `rollback` has read the shadow copy |
| `unkept`, `putBack`, `asked`, `faults` | history: read by properties and by the bounds on faults, never by the system |

A vector is a record `[owner, gen]`: whose vector it is and how many times an
adapter has been applied to it. This is all that the properties tell apart; an
adapter is the operator `Mapped`.

Each action is the code between two durable writes, so that `Crash` may fall
between any two of them:

* *commands* -- `Migrate`, `Resume` take the lock; `RegisterJob` and `Enqueue`
  are the transactions of `prepare`; `Preview` and `DoNotStart` are the checks
  before the engine runs, with the early return when nothing is pending;
* *run loop* -- `SetRunning`, `ClearStaleRequest`, then per turn `StopAtLimit`,
  `StopBeforeBatch` or `TakeBatch`, `Pressure` after a batch, `ClearRequest` and
  `Finish` at the end;
* *batch* -- `ReadBatch` (or `SkipBatch`), `AppendVectors`, `PublishManifest`,
  `PublishIds`, `MarkShadowed`, the writes (`WriteAccepted`, `WriteRefused` with
  its bisection kept as the stack `work`), `MarkRejected`, `VerifyPassed` or
  `VerifyFailed`, `MarkDone`;
* *rollback* -- `Rollback`, `RestoreSlice`, `RequeueSlice`, `FinishRollback`, and
  the two ways it raises: `RestoreMismatch`, and `RestoreRefused`, a write of a
  slice that the store refuses -- the slices before it are queued again by then,
  and the job keeps the state it had, `COMPLETED` too;
* *environment* -- `RequestPause` from another process, without the lock;
  `Crash`; `StoreGoesMute`; `DeleteRecord` by the application that owns the index.

The monitor, the signal handler and the battery are nondeterministic choices: a
batch size out of `BatchSizes`, and a stop before or after any batch. Every step
the code makes in one SQLite transaction, or in one atomic rename, is atomic
here.

### How `StateLock` and `Collection` correspond to the code

`StateLock` has one action per moment of `state_lock` that another process can
tell apart: `Ask`, `Acquire`, `EmptyInfo` and `WriteInfo` (`write_text` empties a
file before it fills it), `Leave` (the information file is removed), `Release`;
and, for a process that gets no lock within its five seconds, `TimeOut`,
`ReadInfo` and `Report` -- the last attempt, the read of the file, and the look
for the process it names. The lock itself is `flock`'s: held on a *file*, gone
with its process. `path` numbers the files that have been at `rebasis.lock`, so
that a process that removes it (`RemoveLockFile`) and the holder of the old file
do not meet. Numbers of processes are not reused.

`Collection` gives each process a command and its body, seen from afar: a job has
vectors that were moved or not, a shadow copy or not, a state. `Migration` is
the same system with one process at a time inside and everything else in full.
`Plan` is what `gc_command` does before the lock, `Collect` what it does under
it. `StartJob` is a new job or one resumed from *any* state, as `resume_command` takes
any: a job that was rolled back runs again, and fills its copy again. `removed` and
`overtaken` are history: the processes of gc that removed originals moved vectors
needed, and the plans that were overtaken by such a resume. A copy named with `--job
--i-understand` is not modelled: its operator wants it gone.

### How the services correspond to the code

Each of these modules holds the state of one component and the actions of its
processes; `PROJECT.json` names the lines of every definition.

* **`AuditChain`.** `AuditWriter.write` is `Begin` (`BEGIN IMMEDIATE`), `Seal` (the
  tip read inside the transaction) and `Insert`; `GiveUp` is the rollback, by a
  failure or by a kill. `PlanPrune`, the same write with a gap, and `Delete` are
  `audit prune`. `Alter` and `Lose` are hands in the table. A hash covers the
  whole record, so a record's number stands for it. `ChainValid` is `verify_chain`
  with the gaps `AuditReader.verify` reads off the trail. `trail` is the table, a
  function on the numbers that have a row.
* **`AtomicWrite`.** `dirs` holds the directory as it is on disk and after each
  rename since: a power cut leaves any of them. Contents are flushed on their own.
  `CreateTemporary`, `FlushContent`, `Swap`, `FlushDirectory` are the three
  numbered steps of `atomic_write_stream`; `Fail` is each of its `except` clauses;
  `Rotate`, `Shift`, `MoveAside`, `EndRotation` are `rotate_backup`. A directory
  flush may be unsupported, which the code accepts in silence: such a write
  returns, but is not one that `AckedSurvives` counts as acknowledged.
* **`AdapterRefit`.** Batches are mapped by the adapter in hand; between two of
  them a refit may be due, declined or adopted; an adopted adapter is saved in
  two files (`SaveWeights`, `SaveManifest`) before the row points at it
  (`PointRow`). The name of the file is the number of refits *of this process*, so
  a resumed run writes over the files of the run before. An adapter is its age.
* **`MixedSearch`.** A query is `ReadProgress`, `SearchNew`, `SearchOld`,
  `LookUpAndMerge`; between any two of them a record may be rewritten (`Write`)
  and marked (`MarkDone`), or restored and queued again by a rollback. The store
  ranks by the true similarity in the space a vector is in; every ranking is
  tried. The merge is given whatever calibrator the bridge brings, any of
  `Calibrators`, or none (`serve/mixed.py:275`). Documents are numbered from the least
  to the most relevant, so that a merge that fell back on the order of ids where a
  calibrator makes scores equal would be found out.
* **`EmbeddingCache`.** `LookUp`, `Encode`, `StoreAndStack` are the three parts of
  `CachedEmbedder.encode`; opening may find the file of another schema, reading a
  blob that does not parse (`CutShort`), and every read and write may fail, which
  the code turns into a miss. Two profiles share a file.
* **`Cascade`.** A search is `Search`, `TakeKnown`, `Embed`, `StoreAndPlace`, with
  the cache locked in each access and free in between; `RemoveText` is a document
  that loses its text.
* **`ManifestSchema`.** `ReadVersion`, `BackUp`, then `Upgrade` and `Stamp` for each
  version: `executescript` commits what came before it, so each is a step of its
  own. The first script can be repeated, the `ALTER TABLE`s of the others cannot.
* **`RunControl`.** `Check` is `_reason_to_stop`, `Fetch` the read of the next batch
  by the monitor's size, `WriteLands` and `WriteFails` the attempts of
  `retry_transient`, `Pressure` the look after a batch; `Receive` is a signal at
  any moment, to the handler that is installed.
* **`Durability`.** The sample kept of the writes, the job COMPLETED, the engine's
  handle closed, a fresh one opened, the comparison, the handle opened again; a
  store may have lost what it acknowledged. `handles` holds the open ones. `_close`
  suppresses what its close raises, and a backend may have none to call: `Close` may
  leave the handle among the `stuck`. Either opening may raise (`OpenFresh`,
  `Reopen`). On a backend that `shares` one client per path, a fresh handle answers
  for the old one as long as that is open (`Visible`).
* **`FaissStore`.** Rows of the index with their labels, the ids in memory, the
  index file and the sidecar; `ReplaceRows` moves what it writes to the end,
  `Resync` follows, then the two files are written. `TruncateIndex` is the moment
  at which the index file is not readable, and no process can open it (`Reopened`).
* **`CorpusSample`.** `ReadVector` is Algorithm R with its random slot a choice;
  texts arrive in any order (`ReadText`) and are matched by id (`FetchTexts`);
  records are edited and deleted at any moment (`EditRecord`, `DeleteRecord`).
* **`SampleAllocation`.** Each step is one turn of a loop of `_allocate`: the whole
  part of one cluster's share (`TakeShare`), the sort by remainders
  (`RankRemainders`), one record for one cluster (`GiveOne`, in pass 2 and in
  pass 3), the sort by room for a round of pass 3 (`TopUp`), the return
  (`Allocated`). The fraction of a share is a remainder, compared exactly.
* **`IndexHealth`.** `ScanPage` is a page of `_exact_neighbours`: its best documents,
  chosen as `argpartition` may choose among equals (`TopOf`), folded into the running
  list by a stable sort (`MergePage`). `Overlap` is what `measure_index_health` counts
  of one probe.
* **`HybridMerge`, `ProbeDecision`** are functions of their inputs. Scores are integers,
  ratios are per mille, and what the ranks of a document add up to is a fraction,
  compared exactly. Where the code compares floating-point numbers the model thus
  compares the numbers they stand for: that two of them which should be equal differ
  in their last bit, or the other way round, is outside the model.

## 3. What the runs check

| Run | Faults allowed | Shows |
|---|---|---|
| `faults` | a kill, a mute store, refused and partial writes, a deletion, a rollback, `--no-keep-original` | `OriginalKept`, its inductive form `ShadowInv`, the refinement `KeepsPromise`, `DoneOnlyIfWritten` |
| `job` | a pause, a stop, limits, writes refused in runs and in rollbacks, rollbacks, a deletion; no kill | `NeverMappedTwice`, `RolledBackRestores`, `CompletedLeavesNothing`; with fairness, `CommandEnds` and `ResumedQueueEmpties` |
| `services` | one kill of a lock holder; damage to the audit trail; power cuts, kills and failed writes; refits over three runs; a migration and a rollback during a search; a cache that fails, is damaged or is of another schema; evictions; openers killed at any statement; three signals; a store that forgets; kills of the FAISS process; edits during a probe | the invariants below |
| `stale_hint` | an operator who follows the report of a stale lock | finding 6 |
| `faiss_pairing` | a kill between two files | finding 7 |
| `pruned_trail` | none | finding 8 |
| `spent_copy` | none | finding 9 |
| `stuck_resume`, `killed_after_write`, `killed_mid_shadow`, `pause_erased`, `mixed_unreported` | one each | findings 1 to 5 |

`services` is one run of many questions. The modules share no state, so that their
product would only multiply what each does alone: `part`, chosen in the first
state, is the module that moves, and `trial` one input of an algorithm. What it
checks, by module:

| Module | Invariants |
|---|---|
| `Collection` | `CollectionInv`: one writer, and the information file names it; `CopyOutlivesNeed`: gc, which plans without the lock, removes originals that moved vectors need in one way only, when a rolled-back job was resumed between its plan and its work (finding 9) |
| `AuditChain` | `TrailIsOneChain`, `DamageIsFound`, `PrunesAreDeclared` |
| `AtomicWrite` | `TargetIsWhole`: neither the target nor a backup is ever a file written in part; `AckedSurvives`: a write that returned with its directory flushed is on disk, or a later one is |
| `AdapterRefit` | `AdapterNeverGoesBack`: no batch is mapped with an older adapter than the batch before it, in whatever run |
| `HybridMerge` | `MergeKeepsOrder`, `MergeFavoursNoSide` |
| `MixedSearch` | `SettledHitsAreInTheirSpace`; `EndsGiveTheStoresAnswer`: before the first write and after the last a search answers as the store alone would, with any calibrator; `RestingAnswerIsFull` |
| `EmbeddingCache` | `AnswersAreOfTheirTexts`, `ModelSettlesTheWidth` |
| `Cascade` | `NothingIsStranded`: an answer is as long as it can be, and a candidate without a vector keeps the rank the bridge gave it; `BestAreKept`: the others are the best, in the new model's order, however the threads evict each other's vectors |
| `ManifestSchema` | `VersionNeverAhead`, `OldManifestIsKept` |
| `RunControl` | `StopsWithinABatch`, `SecondSignalEnds` |
| `ProbeDecision` | `BridgingLosesNothing`, `RetentionNeverHurts`, `DecisionsAgree` |
| `Durability` | `PassedMeansKept`: after a check that passed, all that the run wrote is on disk, or a whole sample of it, unless a handle that would not close answered for the fresh one; `OneHandleAtATime`: whatever fails, no handle is opened beside one that nobody tried to release, and the engine ends with an open one unless its last opening raised |
| `FaissStore` | `RecordsKeepTheirVectors`, unless a process ended inside a save |
| `SampleAllocation` | `StratificationIsFair`: the size is met, no cluster gives more than it has or less than a smaller one, each gives at least one |
| `CorpusSample` | `SampleIsAligned`: vector, text and cluster are the id's own, and the two parts of the split share no record |
| `IndexHealth` | `HealthIsExact`: pages give the scores one look at the whole corpus would, no document twice, and a perfect index is measured to be one |

**Bounds.** Three records and batches of two or three give a batch of one, a batch
that is the whole corpus, two batches one after the other, a batch split twice
(`MaxDepth = 1` lets a segment give up both by its length and by its depth) and
a sample smaller than the batch. Two records per enqueued chunk make the queue
incomplete at a kill. One kill per behaviour (`MaxCrashes`) is enough
for every pair of adjacent durable writes, and the resumed run and a rollback
follow it; that more kills change nothing for the invariants is what the proofs
show. A rollback restores two entries per step, so it is interrupted, too. `job`
allows two rollbacks, so that a job is migrated, rolled back, migrated and
rolled back, a rollback that is refused half-way included. Its records come in batches of two
or three: a deleted record can outlive one batch and be in the next.

| Run | Distinct states | Records | Batch sizes | Kills | Pauses | Stops | Rollbacks | Deletions |
|---|---|---|---|---|---|---|---|---|
| `faults` | 3.0 million | 3 | 2, 3 | 1 | 0 | 0 | 1 | 1 |
| `job` | 668 thousand | 3 | 2, 3 | 0 | 1 | 1 | 2 | 1 |
| `services` | 995 thousand | | | | | | | |

In `job` the application deletes only between batches
(`BetweenBatches`): a record deleted between the read and the write of its batch is
found by the read-back and ends the run, which `faults` covers. A refused write may
land in part in this run, too. `job` has no kills because a kill
that leaves only `SHADOWED` records is one of the ways into the finding
`stuck_resume`: no resume takes them up again.

In `services`, `Collection` has four processes, one of each of the three commands and
one more of any of them (`Crew`): with two migrations a job is migrated, rolled back and
resumed while gc holds its plan, which is what `CopyOutlivesNeed` is about and how
`spent_copy` breaks the claim of gc. `CollectionProofs` has the same invariants for any
number. The other bounds, each the smallest at which the case it is for happens:

* audit: two writers and four records, so that a prune and a write overlap and
  records survive on both sides of a gap; one damage, before, during or after;
* atomic writes: two savers, two versions, two backups, a power cut after any
  step of either; rotations while nobody saves (below);
* refit: three runs with a refit after every batch and five batches, so that
  the third run writes over a file of the first;
* mixed search: three records and `k = 2`, so that a hit of one side displaces
  one of the other; one query, whose four steps see every prefix of a migration
  and of its rollback; `MAX_OVER_FETCH` at its real value; no calibrator, and every
  one that maps the three scores to up to three levels without turning two round;
* embedding cache: two processes, two profiles, a call with a repeated text; one
  damaged row, one change of weights;
* cascade: a cache of two for three documents, so that every search evicts;
* schema: two openers of a manifest of any version, four openings, a kill after
  any statement;
* control: batches of five, three at the least, and a load of three; three
  signals, two invocations in one process;
* durability: three records and a sample of two, so that one is left out or
  replaced; two runs; both kinds of backend;
* FAISS: three rows, three writes of any batch, two kills;
* probe sample: four records for a pool of three, one of them without text;
* inputs: two lists of up to two hits over three ids and three scores, with no
  calibrator, the identity, a constant and a step; measurements on both sides of
  every threshold of the decision;
* allocation: clusters of 0 to 13 records, some of them empty, and sizes that run
  short in each of the three passes;
* index health: corpora with equal scores, pages shorter and longer than the list,
  and a last page that is short.

The run stops when the commands, calls and searches are used up, hence
`CHECK_DEADLOCK FALSE`.

**Fairness.** `FairSpec` assumes weak fairness of `Process`, the next step of
the process that holds the lock: the operating system runs it, and every wait in
the code (retry, lock, battery) is bounded or is modelled as a stop. Nothing is
assumed of the environment: no kill, pause or deletion ever has to happen, and a
refusal is one of the choices of `Process`. `AttendedSpec`, which `job` is checked
under, adds an operator who
resumes a job that is not completed; the documentation tells the operator to
do so, and without one nothing in the code continues a paused job.

## 4. What is proved

All safety invariants and action properties of the passing runs of section 3 are
theorems: they hold for every value of the constants, so for any
number of records, processes, kills and retries, where a run has three or so. Each rests
on an inductive invariant, stated beside the properties (`MigrationProperties`) or in
the module of the proof. Unless a table says otherwise, the only hypotheses are the named
assumptions on constants in the module of the specification; those say of bounds that
they are numbers and of sizes that they are positive.

### A migration that anything may disturb (`MigrationProofs`, `JobProofs`)

For every number of records, every set of batch sizes and limits, every depth of
bisection and any number of faults, from `SizeAssumption`, `FlagAssumption`,
`BoundAssumption` and `NoVectorAssumption`:

| Theorem | Statement |
|---|---|
| `TypeCorrect` | `Spec => []TypeOK` |
| `ShadowConsistent` | `Spec => []ShadowInv` |
| `OriginalAlwaysKept` | `Spec => []OriginalKept` |
| `PromiseKept` | `Spec => KeepsPromise`: the migration implements `ReversibleRewrite` |
| `PromiseIsReversible` | what `ReversibleRewrite` allows leaves every moved record with a copy |
| `DoneOnlyIfWrittenAlways` | `Spec => DoneOnlyIfWritten` |

`OriginalKept` -- a record that lost its original has it in the shadow copy -- is
not inductive: it says nothing about the moment between the append and the
manifest, nor about an interrupted append. The inductive invariant is
`Inv == TypeOK /\ ShadowInv`, and `ShadowInv` has three ideas.

1. *What the manifest vouches for is in the file* (`VectorsBeforeManifest`).
   The file is cut to `shadowCount` before an append and the manifest grows
   after it, so a kill anywhere leaves a prefix that is never lost. This is why
   `Kept` is monotone (lemma `KeptStays`), the pivot of both the invariant and the
   refinement.
2. *Nothing is written that is not kept* (`BatchIsKept`). From `PublishManifest`
   on, every record of the batch in hand is kept; and splitting a write never
   leaves the batch (`WorkIsOfBatch`). A batch may well contain vectors that are
   already mapped, after a kill; then an earlier copy holds their originals, which
   is what `snapshot[r] = Original(r) \/ Kept(r)` says.
3. *What a rollback touches is kept* (`ListedIsKept`). Ids and vectors of the
   shadow copy may be misaligned by a kill, so a rollback may put another
   record's vector back; it does so only to records named in `ids.json`, and all
   of those are kept. No original is lost even then, though the index is wrong.

`keep`, the option of the run in progress, makes 2 conditional: a run with
`--no-keep-original` shadows nothing, and once there was one (`unkept`) the
promise is void. That is the disjunct in `ShadowInv`, and `Waive` in
`ReversibleRewrite`.

`DoneOnlyIfWritten` is about a read-back that looks at a sample. The sample always has
the last record of the batch, and that is enough because (`ReadBackInv`) a batch is
written in the order of its ids, through every bisection (`WritesInOrder`), and a
store that dropped one of these writes keeps none after it (`LandedInOrder`): if the
last one landed, all did. The minimum of the sample must not be one, which
`SizeAssumption` says and the code's constant meets: with one position the sample
would be the first record.

### A migration that nothing disturbs (`JobProofs`)

Three properties are false of a killed job -- findings 1 and 2 -- and the theorems say
under what they hold. `Undisturbed` is: no kill, no store that drops writes, no record
deleted between the read of its batch and its read-back. Pauses, stops,
limits, resumes, rollbacks, refused and partial writes, and all other deletions
remain, any number of each.

| Theorem | Hypothesis | Statement |
|---|---|---|
| `CompletedQueueAlways` | | `Spec => []` of: what a completed job still hands out is exactly `putBack` |
| `NeverMappedTwiceAlways` | `Undisturbed` | `Spec => []NeverMappedTwice` |
| `CompletedAlways` | `Undisturbed` | `Spec => []CompletedLeavesNothing` |
| `RolledBackUnlessWaived` | `Undisturbed` | `Spec => [](unkept \/ RolledBackRestores)` |
| `RolledBackAlways` | `Undisturbed`, and no run is given `--no-keep-original` (`KeepChoices`) | `Spec => []RolledBackRestores` |

`putBack` are the records a rollback has queued again since the job last ran. A rollback
that is refused half-way leaves them in the queue of a job that is still `COMPLETED`, and
`CompletedLeavesNothing` says that they are all it leaves, each as it was before the
first run. Its first half, `CompletedQueueAlways`, holds under every fault, kills
included, by a small invariant of its own (`QueueInv`).

The three need one invariant, `JobInv`, since each depends on the others: a rollback
restores only what the shadow copy pairs with its own original (`ShadowIsOriginal`);
that holds because every batch is read as originals (`BatchIsOriginal`); that holds
because the queue hands out nothing that is mapped (`QueuedIsFresh`); and that, because
a batch ends with every record of it written, rejected or put back
(`BatchAccounted`, `WrittenLanded`). `RestoredSoFar` and `MovedIsListed` carry a
rollback through its slices, and `StateIsTold` is what the job's row says of all this.
The lemmas on bisection (`IncreasingHalves` and those around it) say that splitting a
refused write loses no record and repeats none.

### The lock and gc (`CollectionProofs`)

For every number of processes and kills, from `LockAssumption`:

| Theorem | Statement |
|---|---|
| `WriterIsKnown` | `Spec => []CollectionInv` |
| `CopyIsKept` | `Spec => []CopyOutlivesNeed` |

The lock's invariant ties the three views of the holder together: its stage, the
file it holds and the information file. `CopyInv` is why a plan made without the
lock is harmless but in one case: while a plan that lists a copy waits to be applied,
the job is rolled back, and then nothing in the index is moved, or the plan is one
of the `overtaken`; a migration that was inside when the job was rolled back is
excluded by there being one writer.

### Around a batch (`EngineProofs`)

| Theorem | Invariant | Why it is needed |
|---|---|---|
| `StopsWithinABatchAlways`, `SecondSignalEndsAlways` | `ControlInv` | `BegunLate`: a batch that began after the flag was already past the check; `HandlersFollowSignals`: a handler is the default exactly when its signal came once; `BatchBounded`: halving stops at the minimum, or at a first batch below it |
| `AdapterNeverGoesBackAlways` | `RefitInv` | `RowIsNewest`: a file a later run overwrites is overwritten only by newer adapters, because a run refits no more often than it maps batches (`AttemptsFollowBatches`) and fits nothing older than what it loaded (`RunFollowsRow`) |
| `PassedMeansKeptAlways`, `OneHandleAtATimeAlways` | `DurabilityInv` | `ReservoirIsFull`: the sample is all that was written, or as large as it may be; `FoundIsOnDisk`: what was found is on disk, unless the backend shared a handle that stayed open, and a check that passed found all it kept; `HandleFollowsStep`: which handle is open, but for those that would not close, in which step |

### On disk (`StorageProofs`)

| Theorem | Invariant | Why it is needed |
|---|---|---|
| `VersionNeverAheadAlways`, `OldManifestIsKeptAlways` | `SchemaInv` | `ReachedByAll`: the changes an opener relies on were made, by it or by another; `OldIsBackedUp`: until the first change the manifest is untouched, and then there is a copy of it |
| `TargetIsWholeAlways`, `AckedSurvivesAlways` | `WriteInv` | of *every* directory a power cut may leave (`Sound`): its files are flushed, and no acknowledged version is lost by anything but a later one (`Carries`); `SaverSound`: what each step of a call has secured |
| `TrailIsOneChainAlways`, `PrunesAreDeclaredAlways`, `DamageIsFoundAlways` | `AuditInv` | `TipIsRead`: the record a writer read is still the last one when it inserts; `DeclaredFirst`: whatever is missing is below a declared gap, and the last record never is missing; `DamageStays`: the predecessor of a damaged record does not come back |
| `RecordsKeepTheirVectorsAlways` | `FaissInv` | the index has a row for each record with its own vector (`Whole`), the ids in memory follow the rows but while these move, and a whole index file has the labels the sidecar names |

`RecordsKeepTheirVectors` is about a store no process left inside a save, as in the
run; finding 7 is the other case, and `FaissInv` says nothing of it.

### Serving (`ServingProofs`)

| Theorem | Invariant | Why it is needed |
|---|---|---|
| `AnswersAreOfTheirTextsAlways`, `ModelSettlesTheWidthAlways` | `CacheInv` | every whole row is of its key, whoever wrote it; `CallSound`: so is what a call took out, and what the model gave has one width |
| `SettledHitsAreInTheirSpaceAlways` | `MixedInv` | `Explained`: a result scored in the wrong space is of a record that moved during the query, or that the queue still tells apart when it is asked |
| `EndsGiveTheStoresAnswerAlways`, `RestingAnswerIsFullAlways` | `AnswerInv` | as long as nothing moved under a query, each half of its results is one the store may give (`Results`) for the reading it acts on; the answer is then a matter of the merge: at an end one half is empty, and a merge of one list keeps its order with any calibrator, since equal levels are told apart by the ranks (`MergeOfOne`); and no merge is shorter than it can be (`MergeLength`) |
| `NothingIsStrandedAlways`, `BestAreKeptAlways` | `CascadeInv` | an answer is the placement of what its own thread held, whatever the others evicted; the rest is a lemma about `Placed` (`AnswersAreFair`) |

`CalibratorAssumption` says that a calibrator turns no two scores round, as an isotonic
regression does not. `CascadeAssumption` says that no two documents are equally relevant, so that "the best"
means something; the code leaves equals in the order of the bridge.

### Algorithms (`AlgorithmProofs`)

| Theorem | Hypothesis | Statement |
|---|---|---|
| `MergeKeepsOrderEver` | both lists are results of a store (`Result`: distinct ids, scores that do not rise, ranks from zero); the calibrator, if there is one, turns no two scores round (`Calibrates`) | `MergeKeepsOrder` |
| `MergeFavoursNoSideEver` | lists of hits; a calibrator gives numbers | `MergeFavoursNoSide` |
| `BridgingLosesNothingEver`, `DecisionsAgreeEver` | `trial \in Measurement` | the property of that name |
| `RetentionNeverHurtsEver` | `trial \in Measurement`, `Ratios \subseteq Nat` | `RetentionNeverHurts` |
| `SampleIsAlignedAlways` | | `SampleSpec => []SampleIsAligned`, by `SampleInv`: at every stage what is read is beside what it is of |
| `StratificationIsFairAlways` | `AllocationAssumption`: a cluster has records, and no more clusters than records are asked for | `SplitSpec => []StratificationIsFair`, by `SplitInv` |
| `HealthIsExactAlways` | `HealthAssumption`: a corpus is not empty, scores, pages and cut-offs are positive | `HealthSpec => []HealthIsExact`, by `ScanInv` |

The inputs are all lists, of any length, and all ratios, where `services` tries some. An
isotonic regression turns no scores round; it may make many equal, and the proof is
that the rank then decides. `MergeKeepsOrder` rests on `TheFirst`, of a finite set in a
strict order: the list of its first `k` has nothing twice, and nothing before what is
smaller. That, `Enumerated` and the placement of the cascade come from
`PlacesAreSteps` in `RankingProofs`: in a strict order of a finite set every number
below its size is the number of predecessors of exactly one member.

*The allocation.* That a larger cluster never gives less than a smaller one is not
inductive: in the middle of a loop a smaller cluster may have had its turn already.
`SplitInv` says instead what holds at each place of each loop. In pass 2 the clusters
whose turn is past have floor and share, the others the floor, and what was shared
out is within the budget in the proportion of the clusters served (`SharesSoFar`). From
then on, where a cluster with room is still to get its record, every larger one has
more than it already, or gets its own first (`InTurn`): by the remainders in pass 2,
since equal whole parts leave the larger cluster the larger remainder, and by the room
in pass 3, since of two clusters with as many records the larger has more room.

*The neighbours.* `ScanInv` says that after any number of pages the running list is a
best list of what was seen (`IsBest`): sorted, nothing twice, filled up only when
nothing is left, and nothing outside it better than its last. `MergeIsBest` is the
step; what a page leaves out is no better than the page's last, and what the merge
leaves out no better than the merge's. That two best lists have the same scores in
the same places (`NoneHasMore`) is a pigeonhole: were a score of one higher at
some place, that one would have more documents above the other's than fit before it.
`HighestFirst` is the stable sort of both modules; `HighestFirstIs` in
`RankingProofs` gives its order once for all.

### Only model-checked

`CommandEnds` and `ResumedQueueEmpties`: liveness under fairness, which the prover does
not reach. The hypotheses of `Undisturbed` are not for want of a proof: without them the
properties are false, as the runs of the findings show.

## 5. What is not modelled

* Several jobs over one index, and jobs whose row was removed by hand.
* The totals in the job row, `sample_pending` and the audit records a run writes.
* The fit of an adapter and the ranking of candidates (`core/`): floating-point
  linear algebra; `AdapterRefit` takes "adopted or not" as a choice.
* `audit replay`, which repeats a probe; `expose`, `compare`, `eval`, `doctor` and the
  other reading commands, which keep no state.
* `DiskVectorCache` of the cascade: one file per vector, read by its owner only,
  written through `AtomicWrite`'s steps.
* The deletion of reports, caches and backups by age.
* Concurrent use of `rotate_backup`: it has no caller, and two of them would lose
  a backup. `AtomicWrite` rotates while nobody saves.
* A FAISS process killed *inside* `write_index`: the index file is then unreadable
  and the store does not open; and `add_with_ids` failing after `remove_ids`. A FAISS
  index without a sidecar, whose rows get their numbers for ids.
* Records of the corpus without a vector, and probes that need no texts
  (`need_text=False`): in `CorpusSample` every record has a vector, and the texts are
  fetched.
* A power cut of the SQLite files: SQLite's own guarantee is taken as given.
* The data: dimensions, dtypes, hashes of shadow segments, payloads.
* The differences between the other store backends: `Migration` has one store that
  may refuse a write, apply part of it (`PartialWrites`, as LanceDB does when it
  replaces rows one by one) or drop it. They wrap databases that keep ids and
  vectors together, and have no second file of their own.
* Paging while the collection changes. Chroma (`chroma.py:197`), sqlite-vec
  (`sqlite_vec.py:454`) and the LangChain bridge (`langchain_bridge.py:341`) list the
  records by offset; a record the application deletes during `prepare` shifts the
  pages behind it. `Migration` enqueues ids of a collection that stands still.
* `spikes/` and `tools/`: measurement scripts, run by hand, that nothing imports.

## 6. Findings

Each of these nine is a run whose property is what the code's documentation
promises, and which TLC violates.

1. `killed_after_write`: a kill after the upsert of a batch and before its mark
   leaves it `SHADOWED`; the resumed run reads the mapped vectors, shadows them
   as originals and maps them again. `docs/guides/migration.md:285` calls a kill
   safe. (By `OriginalAlwaysKept` the true originals are still in the shadow copy;
   but a rollback puts the *last* entry of a record back, the mapped one.)
2. `killed_mid_shadow`: a kill between `shadow.json` and `ids.json` misaligns
   ids and vectors from there on.
3. `stuck_resume`: a stop honoured after the last batch leaves the job `PAUSED`
   with nothing pending; `resume` then answers "Nothing to migrate" for ever.
4. `pause_erased`: a pause accepted between `RUNNING` and the clearing of stale
   requests is erased and the run goes on.
5. `mixed_unreported`: a completed job with failed records leaves an index of
   two spaces that `status` does not report.
6. `stale_hint`: the report "is no longer running, so this is a stale lock.
   Remove ... and retry" appears only while a *living* process holds the lock --
   otherwise the operating system would have given it away. It needs a holder
   that was killed and a successor that has not written its information yet, or
   a holder that leaves between the read of the file and the look for its
   process. Whoever follows the report lets a second writer in.

7. `faiss_pairing`: a FAISS write moves rows, the index is written before the
   sidecar, and a kill in between leaves both with the same length. The next
   process accepts the sidecar (`store/backends/faiss.py:499` promises to reject
   one that does not match, and compares lengths) and every moved row has the
   id of another record.
8. `pruned_trail`: `audit prune` declares the last number it *removes* as the gap,
   `verify_chain` exempts the record that *has* a declared number, which is gone.
   The first survivor's link is therefore always broken: `audit verify` reports
   tampering after every prune.
9. `spent_copy`: `resume` takes a job that was rolled back, and gc decides before it
   takes the lock. A job that is resumed between gc's plan and its application has
   filled its copy again and moved vectors by then; gc removes their originals, of
   which `storage/gc.py:142` says that the copy "can never be used again --
   `rolled_back` is terminal" and "There is nothing left to protect." TLC's trace:
   migrate, roll back, `gc` plans, `resume` writes a batch and pauses, `gc` removes.
   `CopyOutlivesNeed` says that this is the only way.

Met while modelling the services, without a run:

* two processes that open an old manifest migrate it without a lock
  (`docs/guides/operations.md:153` says they take it): one may stamp a lower version
  after the other, and the next opener repeats an `ALTER TABLE` and fails; a kill
  between an `ALTER TABLE` and its version number, or between `VACUUM INTO` and
  the first script, leaves a manifest that no opener gets through either;
* `save_adapter` says that an interrupted save leaves the previous version intact:
  true of each file, not of the pair, whose hashes `load_adapter` compares only
  when asked;
* `_attempt_refit` calls itself never fatal, but catches only the drawing of
  pairs: a failing fit or save ends the run;
* `JobQueue.sample_pending` draws among `SHADOWED` records too;
* `MixedSpaceSearch` says it returns fewer than `k` only when there are fewer: a stale
  progress or a record that moves between the two searches also costs hits,
  which is why `RestingAnswerIsFull` is about an index at rest;
* `CachedEmbedder.encode` goes by the width of the first text when nothing was missing,
  and encodes the rows of other widths again. When the model has by then another
  width than that first row, what it gives does not fit beside it and `np.vstack`
  raises, although `storage/embedding_cache.py:693` rules that out; a call that had to
  ask the model goes by the model's width, which is what `ModelSettlesTheWidth` is about;
* the cascade's key has no edition of the text, so an edited document keeps the
  score of its old text until it is evicted;
* a second signal of the *other* kind is still caught;
* from a break-even of `1 - 0.025 * gain` up to `0.975`, `decide` falls back to the
  bands and may recommend bridging, not marked provisional, although a break-even
  between `0.975` and `1.025` is;
  `_decide_on_the_break_even` and `_advisories` have no caller;
* a run that finds nothing left completes without a durability check, and the
  check runs after `COMPLETED` is stored;
* `_exact_neighbours` fills its lists with empty ids, and in a collection of at most
  `k` records some stay; `measure_index_health` counts them as neighbours, so an index
  that returns everything has a recall below one, where the docstring says that such
  a collection is not measured (`HealthIsExact` is about larger ones);
* `_merge` sorts stably so that equal scores keep the order they were seen in, but
  a page comes to it from `argpartition` and an unstable sort: which of equal records
  are neighbours depends on the page they are in (`HealthIsExact` says what is true
  nevertheless: the *scores* do not);
* a probe takes vectors and texts in two passes, so a record edited in between is
  in the sample with the vector of its old text (`SampleIsAligned` is about
  identity, not about editions);
* `budget.enforce_budget` does not count the growth of the store it estimates;
* `audit/replay.py` looks for `tf32_matmul` where the snapshot has `tf32_enabled`.

Met while reading the migration, without a run:

* `docs/guides/operations.md:153` lists `adapter upgrade`
  among the commands that take the lock; only `migrate` (and `resume`),
  `rollback` and `gc --apply` do;
* a rollback that is refused half-way leaves a job `COMPLETED` with pending items and
  an index of two spaces, which `mixed_spaces` (`migrate/spaces.py:54`), looking at
  unfinished jobs only, does not report either;
* the durability check wants a fresh handle because "Chroma caches a client per path"
  (`migrate/engine.py:622`), but closes the old one only if the backend has a `close`,
  and the Chroma backend has none: its fresh handle is the cached one, the case that
  `PassedMeansKept` excuses;
* failed records are never tried again: `docs/guides/migration.md:547` says that
  a resume returns them to the queue, but `JobQueue.reset_failed` has no caller;
* the transition tables of `migrate/states.py` are enforced by nothing but their
  own tests;
* a kill while ids are enqueued leaves a queue of part of the corpus, which a
  resume migrates and then calls complete;
* a pause requested between the two transactions of `_finish` stays on the row
  until the next run clears it, against `docs/guides/migration.md:303`.

## 7. Plan

| Step | Modules | Checks and theorems |
|---|---|---|
| 1 (done) | `Migration`, `MigrationProperties`, `ReversibleRewrite`, `MigrationProofs` | sections 3 and 4 |
| 2 (done) | `StateLock`, `Collection`, `CollectionProofs` | sections 3 and 4 |
| 3 (done) | `MixedSearch`, `HybridMerge`, `Cascade`, `EmbeddingCache` | serving while a migration runs, and the caches |
| 4 (done) | `AdapterRefit`, `Durability`, `RunControl`, `FaissStore` | what the engine does around a batch |
| 5 (done) | `AuditChain`, `AtomicWrite`, `ManifestSchema` | what is on disk |
| 6 (done) | `ProbeDecision`, `SampleAllocation`, `CorpusSample`, `IndexHealth` | what a probe and a health check compute |
| 7 (done) | `JobProofs`, `EngineProofs`, `StorageProofs`, `ServingProofs`, `RankingProofs`, `AlgorithmProofs` | section 4 |
| 8 (done) | proofs | `EndsGiveTheStoresAnswer`, `RestingAnswerIsFull`, `StratificationIsFair`, `HealthIsExact` |
| 9 | abstract specifications | the queue, whose promise is that each id is handed out until it is settled, and the audit trail, whose promise is a log that is only appended to and declared short; each with its refinement |
