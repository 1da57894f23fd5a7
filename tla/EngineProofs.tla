----------------------------- MODULE EngineProofs -----------------------------
(***************************************************************************)
(* What holds around the loop of the migration engine, for every value of  *)
(* the constants: the signals and the pressure on memory (RunControl), the *)
(* adapter that is replaced between two batches (AdapterRefit) and the     *)
(* check at the end of a job (Durability).  Each component keeps an        *)
(* invariant of its own; nothing is assumed but what its module assumes of *)
(* its constants.                                                          *)
(***************************************************************************)
EXTENDS RunControl, AdapterRefit, Durability, FiniteSetTheorems, TLAPS

----------------------------------------------------------------------------
(* RunControl *)

ControlTypeOK ==
    /\ control \in {"outside", "check", "fetch", "write", "pressure",
                    "finished", "raised", "killed"}
    /\ handler \in [Signals -> {"previous", "ours", "default"}]
    /\ stop \in Signals \union {NoStop}
    /\ attempt \in 0..MAX_ATTEMPTS
    /\ received \in [Signals -> Nat]
    /\ begun \in 0..1

\* While a run lives, a signal it has received once is left to the default.
HandlersFollowSignals ==
    control \notin {"outside", "killed"} => \A s \in Signals :
        \/ handler[s] = "ours" /\ received[s] = 0
        \/ handler[s] = "default" /\ received[s] = 1

\* A batch begun after the flag was set is past the check that saw no flag.
BegunLate == begun = 1 /\ control \notin {"outside", "killed"} => stop # NoStop /\ control # "fetch"

BatchBounded ==
    batchSize \in (IF FirstBatch < MinBatch THEN FirstBatch ELSE MinBatch)..FirstBatch

ControlInv == ControlTypeOK /\ HandlersFollowSignals /\ BegunLate /\ BatchBounded

\* A run starts with a batch that is a number of records.
LEMMA FirstBatchIsNat == FirstBatch \in Nat /\ MinBatch \in Nat \ {0}
  BY RunControlAssumption DEF FirstBatch

\* ControlInv holds before the first run.
LEMMA ControlInvInit == ControlInit => ControlInv
  <1> SUFFICES ASSUME ControlInit PROVE ControlInv
    OBVIOUS
  <1> USE DEF ControlInit, PreviousHandlers, Signals, NoStop, MAX_ATTEMPTS
  <1>1. ControlTypeOK
    BY DEF ControlTypeOK
  <1>2. HandlersFollowSignals /\ BegunLate
    BY DEF HandlersFollowSignals, BegunLate
  <1>3. BatchBounded
    BY FirstBatchIsNat DEF BatchBounded
  <1>4. QED BY <1>1, <1>2, <1>3 DEF ControlInv

\* Pressure on memory halves a batch no further than to the least one.
LEMMA HalvedStaysBounded ==
  ASSUME BatchBounded, batchSize > MinBatch
  PROVE  Halved(batchSize) \in (IF FirstBatch < MinBatch THEN FirstBatch ELSE MinBatch)..FirstBatch
  <1>1. batchSize \in Nat /\ batchSize <= FirstBatch /\ MinBatch < FirstBatch
    BY FirstBatchIsNat DEF BatchBounded
  <1>2. batchSize \div 2 \in Nat /\ batchSize \div 2 <= batchSize
    BY <1>1
  <1>3. QED BY <1>1, <1>2, FirstBatchIsNat DEF Halved

\* Every step of a run, of its signals and of the processes that follow it keeps
\* ControlInv.
LEMMA ControlStep == ControlInv /\ [ControlNext]_controlVars => ControlInv'
  <1> SUFFICES ASSUME ControlInv, [ControlNext]_controlVars PROVE ControlInv'
    OBVIOUS
  <1> USE FirstBatchIsNat
          DEF ControlInv, ControlTypeOK, HandlersFollowSignals, BegunLate, BatchBounded,
              Goto, Signals, NoStop, MAX_ATTEMPTS
  <1>1. CASE Enter
    <2>1. control' = "check" /\ stop' = NoStop /\ begun' = 0 /\ batchSize' = FirstBatch
          /\ attempt' = attempt
      BY <1>1 DEF Enter
    <2>2. handler' = [s \in Signals |-> "ours"] /\ received' = [s \in Signals |-> 0]
      BY <1>1 DEF Enter
    <2>3. QED BY <2>1, <2>2
  <1>2. ASSUME NEW s \in Signals, Receive(s) PROVE ControlInv'
    <2>1. /\ control \notin {"outside", "killed"}
          /\ received' = [received EXCEPT ![s] = received[s] + 1]
          /\ UNCHANGED <<attempt, batchSize, begun>>
      BY <1>2 DEF Receive
    <2>2. CASE handler[s] = "ours"
      <3>1. /\ stop' = s /\ handler' = [handler EXCEPT ![s] = "default"]
            /\ control' = control
        BY <1>2, <2>2 DEF Receive, Caught
      <3>2. QED BY <2>1, <2>2, <3>1
    <2>3. CASE handler[s] # "ours"
      <3>1. control' = "killed" /\ UNCHANGED <<stop, handler>>
        BY <1>2, <2>3 DEF Receive
      <3>2. QED BY <2>1, <3>1
    <2>4. QED BY <2>2, <2>3
  <1>3. CASE LeaveRun
    BY <1>3 DEF LeaveRun, PreviousHandlers
  <1>4. CASE Relaunch
    BY <1>4 DEF Relaunch, PreviousHandlers
  <1>5. CASE Check
    BY <1>5 DEF Check, StopsFor
  <1>6. CASE Fetch
    BY <1>6 DEF Fetch
  <1>7. CASE WriteLands
    BY <1>7 DEF WriteLands
  <1>8. ASSUME NEW transient \in BOOLEAN, WriteFails(transient) PROVE ControlInv'
    BY <1>8 DEF WriteFails, Retries
  <1>9. ASSUME NEW memory \in {"low", "near", "full"}, Pressure(memory) PROVE ControlInv'
    <2>1. BatchBounded'
      BY <1>9, HalvedStaysBounded DEF Pressure
    <2>2. QED BY <1>9, <2>1 DEF Pressure
  <1>10. CASE UNCHANGED controlVars
    BY <1>10 DEF controlVars
  <1>11. QED
    BY <1>1, <1>2, <1>3, <1>4, <1>5, <1>6, <1>7, <1>8, <1>9, <1>10 DEF ControlNext

\* ControlInv holds of every run of the program.
LEMMA ControlAlways == ControlSpec => []ControlInv
  BY ControlInvInit, ControlStep, PTL DEF ControlSpec

\* signals.py, engine.py, power.py: wherever signals fall in a run, at most one
\* batch begins after the flag is set, no write is tried more often than its
\* attempts, and the batch never leaves its bounds.
THEOREM StopsWithinABatchAlways == ControlSpec => []StopsWithinABatch
  <1>1. ControlInv => StopsWithinABatch
    BY DEF ControlInv, ControlTypeOK, BatchBounded, StopsWithinABatch, MAX_ATTEMPTS
  <1>2. QED BY <1>1, ControlAlways, PTL

\* signals.py: the second signal of a kind finds the default handler and ends the
\* process, in whatever step of the run, of its retries or of the way out it comes.
THEOREM SecondSignalEndsAlways == ControlSpec => []SecondSignalEnds
  <1>1. ControlInv => SecondSignalEnds
    BY DEF ControlInv, ControlTypeOK, HandlersFollowSignals, SecondSignalEnds
  <1>2. QED BY <1>1, ControlAlways, PTL

----------------------------------------------------------------------------
(* AdapterRefit *)

RunRecords ==
    [at : {"off", "loop", "between", "weights", "manifest", "row"},
     adapter : Nat, refits : Nat, processed : Nat, lastRefitAt : Nat, enabled : BOOLEAN]

RefitTypeOK ==
    /\ fitted \in Nat
    /\ rowPath \in 0..Corpus
    /\ rbs \in [0..Corpus -> [weights : Nat, manifest : Nat]]
    /\ run \in RunRecords
    /\ mapped \in Seq(Nat) /\ Len(mapped) <= Corpus

\* A run attempts no more refits than it has migrated batches, so the file of an
\* attempt is one of those there are.
AttemptsFollowBatches ==
    run.refits <= run.lastRefitAt /\ run.lastRefitAt <= run.processed
      /\ run.processed <= Len(mapped)

FilesAreOfTheFitted ==
    run.adapter <= fitted /\ \A n \in 0..Corpus : rbs[n].weights <= fitted

\* Whatever a kill leaves, the file the job row names holds an adapter no older
\* than any batch was mapped with: it is overwritten only by newer ones.
RowIsNewest == \A i \in DOMAIN mapped : mapped[i] <= rbs[rowPath].weights

\* The run maps with what the row names, except while it saves what it adopted.
RunFollowsRow ==
    /\ run.at \in {"loop", "between"} => run.adapter = rbs[rowPath].weights
    /\ run.at \in {"weights", "manifest", "row"} => rbs[rowPath].weights <= run.adapter
    /\ run.at \in {"manifest", "row"} => rbs[run.refits].weights = run.adapter

RefitInv ==
    /\ RefitTypeOK /\ AttemptsFollowBatches /\ FilesAreOfTheFitted
    /\ RowIsNewest /\ RunFollowsRow /\ AdapterNeverGoesBack

\* RefitInv holds of a job that has just been started.
LEMMA RefitInvInit == RefitInit => RefitInv
  BY RefitAssumption
  DEF RefitInit, RefitInv, RefitTypeOK, RunRecords, AttemptsFollowBatches, FilesAreOfTheFitted,
      RowIsNewest, RunFollowsRow, AdapterNeverGoesBack, Stopped, Absent

\* A batch is mapped with what the row names, which no batch before it exceeds.
LEMMA MappingKeeps == RefitInv /\ MapBatch => RefitInv'
  <1> SUFFICES ASSUME RefitInv, MapBatch PROVE RefitInv'
    OBVIOUS
  <1> USE RefitAssumption
  <1>1. /\ run.at = "loop" /\ Len(mapped) < Corpus
        /\ mapped' = Append(mapped, run.adapter)
        /\ run' = [run EXCEPT !.at = "between", !.processed = run.processed + 1]
        /\ UNCHANGED <<rbs, rowPath, fitted>>
    BY DEF MapBatch
  <1>2. RefitTypeOK /\ AttemptsFollowBatches /\ FilesAreOfTheFitted /\ RowIsNewest
        /\ RunFollowsRow /\ AdapterNeverGoesBack
    BY DEF RefitInv
  <1>3. run.adapter = rbs[rowPath].weights /\ run.adapter \in Nat
    BY <1>1, <1>2 DEF RunFollowsRow, RefitTypeOK, RunRecords
  <1>4. \A i \in DOMAIN mapped : mapped[i] <= run.adapter
    BY <1>2, <1>3 DEF RowIsNewest
  <1>5. /\ Len(mapped') = Len(mapped) + 1 /\ mapped' \in Seq(Nat)
        /\ \A i \in 1..Len(mapped) : mapped'[i] = mapped[i]
        /\ mapped'[Len(mapped) + 1] = run.adapter
        /\ DOMAIN mapped = 1..Len(mapped) /\ DOMAIN mapped' = 1..(Len(mapped) + 1)
    BY <1>1, <1>2, <1>3 DEF RefitTypeOK, RunRecords
  <1>6. RefitTypeOK'
    <2>1. run.processed + 1 \in Nat /\ Len(mapped) + 1 <= Corpus
      BY <1>1, <1>2 DEF RefitTypeOK, RunRecords
    <2>2. run' \in RunRecords
      BY <1>1, <1>2, <2>1 DEF RefitTypeOK, RunRecords
    <2>3. QED BY <1>1, <1>2, <1>5, <2>1, <2>2 DEF RefitTypeOK, RunRecords
  <1>7. AttemptsFollowBatches'
    BY <1>1, <1>2, <1>5 DEF AttemptsFollowBatches, RefitTypeOK, RunRecords
  <1>8. FilesAreOfTheFitted' /\ RunFollowsRow'
    BY <1>1, <1>2 DEF FilesAreOfTheFitted, RunFollowsRow, RefitTypeOK, RunRecords
  <1>9. RowIsNewest'
    BY <1>1, <1>2, <1>3, <1>5 DEF RowIsNewest, RefitTypeOK, RunRecords
  <1>10. AdapterNeverGoesBack'
    <2>1. \A i \in 1..Len(mapped) : mapped'[i] <= run.adapter /\ mapped[i] \in Nat
      <3>1. mapped \in Seq(Nat)
        BY <1>2 DEF RefitTypeOK
      <3>2. \A i \in 1..Len(mapped) : mapped[i] \in Nat
        BY <3>1
      <3>3. \A i \in 1..Len(mapped) : mapped'[i] = mapped[i] /\ mapped[i] <= run.adapter
        BY <1>4, <1>5, Zenon
      <3>4. QED BY ONLY <3>2, <3>3
    <2>2. SUFFICES ASSUME NEW i \in DOMAIN mapped', NEW j \in DOMAIN mapped', i < j
                   PROVE  mapped'[i] <= mapped'[j]
      BY DEF AdapterNeverGoesBack
    <2>3. Len(mapped) \in Nat
      BY <1>2 DEF RefitTypeOK, RunRecords
    <2>4. i \in 1..Len(mapped) /\ (j \in 1..Len(mapped) \/ j = Len(mapped) + 1)
      BY <1>5, <2>2, <2>3
    <2>5. CASE j = Len(mapped) + 1
      BY <1>5, <2>1, <2>4, <2>5
    <2>6. CASE j \in 1..Len(mapped)
      BY <1>2, <1>5, <2>2, <2>4, <2>6 DEF AdapterNeverGoesBack
    <2>7. QED BY <2>4, <2>5, <2>6
  <1>11. QED BY <1>6, <1>7, <1>8, <1>9, <1>10 DEF RefitInv

\* Each of the two files of a save is replaced by one of the adapter adopted last,
\* also where an earlier run had left it, and under the path of the row itself.
LEMMA SavingKeeps == RefitInv /\ (SaveWeights \/ SaveManifest) => RefitInv'
  <1> SUFFICES ASSUME RefitInv, SaveWeights \/ SaveManifest PROVE RefitInv'
    OBVIOUS
  <1> USE RefitAssumption
  <1>1. RefitTypeOK /\ AttemptsFollowBatches /\ FilesAreOfTheFitted /\ RowIsNewest
        /\ RunFollowsRow /\ AdapterNeverGoesBack
    BY DEF RefitInv
  <1>2. run.refits \in 0..Corpus
    BY <1>1 DEF RefitTypeOK, RunRecords, AttemptsFollowBatches
  <1>3. UNCHANGED <<rowPath, mapped, fitted>>
    BY DEF SaveWeights, SaveManifest
  <1>4. CASE SaveWeights
    <2>1. /\ run.at = "weights" /\ run' = [run EXCEPT !.at = "manifest"]
          /\ rbs' = [rbs EXCEPT ![run.refits].weights = run.adapter]
      BY <1>4 DEF SaveWeights
    <2>2. \A n \in 0..Corpus :
            rbs'[n].weights = IF n = run.refits THEN run.adapter ELSE rbs[n].weights
      BY <1>1, <1>2, <2>1 DEF RefitTypeOK, RunRecords
    <2>3. RefitTypeOK'
      BY <1>1, <1>2, <1>3, <2>1 DEF RefitTypeOK, RunRecords
    <2>4. rbs[rowPath].weights <= run.adapter
      BY <1>1, <2>1 DEF RunFollowsRow
    <2>5. /\ rowPath \in 0..Corpus /\ rbs[rowPath].weights \in Nat /\ run.adapter \in Nat
          /\ \A i \in DOMAIN mapped : mapped[i] \in Nat
      <3>1. rowPath \in 0..Corpus /\ rbs[rowPath].weights \in Nat /\ run.adapter \in Nat
        BY <1>1 DEF RefitTypeOK, RunRecords
      <3>2. mapped \in Seq(Nat)
        BY <1>1 DEF RefitTypeOK
      <3>3. \A i \in DOMAIN mapped : mapped[i] \in Nat
        BY <3>2
      <3>4. QED BY <3>1, <3>3
    <2>6. RowIsNewest'
      <3>1. rbs'[rowPath].weights \in {run.adapter, rbs[rowPath].weights}
        BY <2>2, <2>5
      <3>2. \A i \in DOMAIN mapped : mapped[i] <= rbs'[rowPath].weights
        BY <1>1, <2>4, <2>5, <3>1 DEF RowIsNewest
      <3>3. QED BY <1>3, <3>2 DEF RowIsNewest
    <2>7. FilesAreOfTheFitted' /\ RunFollowsRow'
      BY <1>1, <1>2, <1>3, <2>1, <2>2, <2>4 DEF FilesAreOfTheFitted, RunFollowsRow, RefitTypeOK, RunRecords
    <2>8. AttemptsFollowBatches' /\ AdapterNeverGoesBack'
      BY <1>1, <1>3, <2>1 DEF AttemptsFollowBatches, AdapterNeverGoesBack, RefitTypeOK, RunRecords
    <2>9. QED BY <2>3, <2>6, <2>7, <2>8 DEF RefitInv
  <1>5. CASE SaveManifest
    <2>1. /\ run.at = "manifest" /\ run' = [run EXCEPT !.at = "row"]
          /\ rbs' = [rbs EXCEPT ![run.refits].manifest = run.adapter]
      BY <1>5 DEF SaveManifest
    <2>2. \A n \in 0..Corpus : rbs'[n].weights = rbs[n].weights
      BY <1>1, <1>2, <2>1 DEF RefitTypeOK, RunRecords
    <2>3. RefitTypeOK'
      BY <1>1, <1>2, <1>3, <2>1 DEF RefitTypeOK, RunRecords
    <2>4. RowIsNewest' /\ FilesAreOfTheFitted' /\ RunFollowsRow'
      BY <1>1, <1>2, <1>3, <2>1, <2>2
      DEF RowIsNewest, FilesAreOfTheFitted, RunFollowsRow, RefitTypeOK, RunRecords
    <2>5. AttemptsFollowBatches' /\ AdapterNeverGoesBack'
      BY <1>1, <1>3, <2>1 DEF AttemptsFollowBatches, AdapterNeverGoesBack, RefitTypeOK, RunRecords
    <2>6. QED BY <2>3, <2>4, <2>5 DEF RefitInv
  <1>6. QED BY <1>4, <1>5

\* An attempt that is due counts one, of the batches since the last at least one.
LEMMA AttemptKeeps ==
  ASSUME RefitTypeOK, AttemptsFollowBatches, Due
  PROVE  /\ Attempted \in RunRecords
         /\ Attempted.at = "loop" /\ Attempted.adapter = run.adapter
         /\ Attempted.refits <= Attempted.lastRefitAt
         /\ Attempted.lastRefitAt <= Attempted.processed
         /\ Attempted.processed <= Len(mapped)
  <1>1. run.refits + 1 <= run.processed
    <2>1. /\ run.refits \in Nat /\ run.lastRefitAt \in Nat /\ run.processed \in Nat
          /\ EveryN \in Nat \ {0}
      BY RefitAssumption DEF RefitTypeOK, RunRecords
    <2>2. run.refits <= run.lastRefitAt
      BY DEF AttemptsFollowBatches
    <2>3. run.processed - run.lastRefitAt >= EveryN
      BY DEF Due
    <2>4. QED BY ONLY <2>1, <2>2, <2>3
  <1>2. Attempted = [run EXCEPT !.refits = run.refits + 1, !.lastRefitAt = run.processed,
                                !.at = "loop"]
    BY DEF Attempted
  <1>3. run \in RunRecords /\ run.refits + 1 \in Nat
    BY DEF RefitTypeOK, RunRecords
  <1>4. /\ Attempted \in RunRecords
        /\ Attempted.at = "loop" /\ Attempted.adapter = run.adapter
        /\ Attempted.refits = run.refits + 1 /\ Attempted.lastRefitAt = run.processed
        /\ Attempted.processed = run.processed
    BY <1>2, <1>3 DEF RunRecords
  <1>5. run.processed \in Nat /\ run.processed <= Len(mapped)
    BY DEF RefitTypeOK, RunRecords, AttemptsFollowBatches
  <1>6. QED BY <1>1, <1>4, <1>5

\* Every step of a run with refits, of its end and of the next one keeps RefitInv.
LEMMA RefitStep == RefitInv /\ [RefitNext]_refitVars => RefitInv'
  <1> SUFFICES ASSUME RefitInv, [RefitNext]_refitVars PROVE RefitInv'
    OBVIOUS
  <1> USE RefitAssumption
  <1>1. RefitTypeOK /\ AttemptsFollowBatches /\ FilesAreOfTheFitted /\ RowIsNewest
        /\ RunFollowsRow /\ AdapterNeverGoesBack
    BY DEF RefitInv
  <1> DEFINE Unsaved == UNCHANGED <<rbs, rowPath, mapped>> /\ fitted' \in {fitted, fitted + 1}
             RunOK == /\ run' \in RunRecords
                      /\ AttemptsFollowBatches' /\ run'.adapter <= fitted' /\ RunFollowsRow'
  <1>2. ASSUME Unsaved, RunOK PROVE RefitInv'
    <2>1. RefitTypeOK'
      <3>1. fitted \in Nat /\ fitted' \in Nat
        BY <1>1, <1>2 DEF RefitTypeOK
      <3>2. /\ rowPath' = rowPath /\ rbs' = rbs /\ mapped' = mapped
            /\ run' \in RunRecords
        BY <1>2
      <3>3. QED BY ONLY <1>1, <3>1, <3>2 DEF RefitTypeOK
    <2>2. FilesAreOfTheFitted'
      <3>1. \A n \in 0..Corpus : rbs[n].weights \in Nat
        BY <1>1 DEF RefitTypeOK, RunRecords
      <3>2. fitted \in Nat /\ fitted <= fitted'
        BY <1>1, <1>2 DEF RefitTypeOK, RunRecords
      <3>3. \A n \in 0..Corpus : rbs[n].weights <= fitted'
        BY <1>1, <1>2, <3>1, <3>2 DEF FilesAreOfTheFitted
      <3>4. QED BY <1>2, <3>3 DEF FilesAreOfTheFitted
    <2>3. RowIsNewest' /\ AdapterNeverGoesBack'
      BY <1>1, <1>2 DEF RowIsNewest, AdapterNeverGoesBack
    <2>4. QED BY <1>2, <2>1, <2>2, <2>3 DEF RefitInv
  <1>3. ASSUME NEW enabled \in BOOLEAN, StartRun(enabled) PROVE RefitInv'
    <2>1. Unsaved
      BY <1>1, <1>3 DEF StartRun, RefitTypeOK, RunRecords
    <2>2. run' = [at |-> "loop", adapter |-> rbs[rowPath].weights, refits |-> 0,
                  processed |-> 0, lastRefitAt |-> 0, enabled |-> enabled]
      BY <1>3 DEF StartRun, Stopped, Absent
    <2>3. RunOK
      <3>1. /\ rowPath \in 0..Corpus /\ rbs[rowPath].weights \in Nat /\ fitted \in Nat
            /\ Len(mapped) \in Nat /\ rbs[rowPath].weights <= fitted
        BY <1>1 DEF RefitTypeOK, FilesAreOfTheFitted
      <3>2. run' \in RunRecords
        BY <2>2, <3>1 DEF RunRecords
      <3>3. AttemptsFollowBatches' /\ RunFollowsRow'
        BY <2>1, <2>2, <3>1 DEF AttemptsFollowBatches, RunFollowsRow
      <3>4. run'.adapter <= fitted'
        BY <2>1, <2>2, <3>1
      <3>5. QED BY <3>2, <3>3, <3>4
    <2>4. QED BY <1>2, <2>1, <2>3
  <1>4. CASE MapBatch
    BY <1>4, MappingKeeps
  <1>5. CASE NotDue \/ Decline
    <2>1. Unsaved
      BY <1>1, <1>5 DEF NotDue, Decline, RefitTypeOK, RunRecords
    <2>2. /\ run.at = "between" /\ fitted' = fitted
          /\ \/ run' = [run EXCEPT !.at = "loop"]
             \/ Due /\ run' = Attempted
      BY <1>5 DEF NotDue, Decline
    <2>3. RunOK
      BY <1>1, <1>5, <2>1, <2>2, AttemptKeeps
      DEF AttemptsFollowBatches, RunFollowsRow, FilesAreOfTheFitted, RefitTypeOK, RunRecords
    <2>4. QED BY <1>2, <2>1, <2>3
  <1>6. CASE Adopt
    <2>1. Unsaved /\ fitted' = fitted + 1
      BY <1>1, <1>6 DEF Adopt, RefitTypeOK, RunRecords
    <2>2. /\ run.at = "between" /\ Due
          /\ run' = [Attempted EXCEPT !.adapter = fitted + 1, !.at = "weights"]
      BY <1>6 DEF Adopt
    <2>3. RunOK
      <3>1. rbs[rowPath].weights <= fitted /\ rbs[rowPath].weights \in Nat /\ fitted \in Nat
        BY <1>1 DEF FilesAreOfTheFitted, RefitTypeOK, RunRecords
      <3>2. /\ run'.at = "weights" /\ run'.adapter = fitted + 1
            /\ run'.refits = Attempted.refits /\ run'.processed = Attempted.processed
            /\ run'.lastRefitAt = Attempted.lastRefitAt /\ run'.enabled = Attempted.enabled
            /\ run' \in RunRecords
        <4>1. Attempted \in RunRecords
          BY <1>1, <2>2, AttemptKeeps
        <4>2. fitted + 1 \in Nat
          BY <3>1
        <4>3. QED BY <2>2, <4>1, <4>2 DEF RunRecords
      <3>3. AttemptsFollowBatches'
        BY <1>1, <2>1, <2>2, <3>2, AttemptKeeps DEF AttemptsFollowBatches
      <3>4. RunFollowsRow'
        BY <2>1, <3>1, <3>2 DEF RunFollowsRow
      <3>5. QED BY <2>1, <3>1, <3>2, <3>3, <3>4
    <2>4. QED BY <1>2, <2>1, <2>3
  <1>7. CASE SaveWeights \/ SaveManifest
    BY <1>7, SavingKeeps
  <1>8. CASE PointRow
    <2>1. /\ run.at = "row" /\ rowPath' = run.refits /\ run' = [run EXCEPT !.at = "loop"]
          /\ UNCHANGED <<rbs, mapped, fitted>>
      BY <1>8 DEF PointRow
    <2>2. run.refits \in 0..Corpus
      BY <1>1 DEF RefitTypeOK, RunRecords, AttemptsFollowBatches
    <2>3. RefitTypeOK' /\ AttemptsFollowBatches' /\ FilesAreOfTheFitted' /\ AdapterNeverGoesBack'
      BY <1>1, <2>1, <2>2
      DEF RefitTypeOK, RunRecords, AttemptsFollowBatches, FilesAreOfTheFitted, AdapterNeverGoesBack
    <2>4. rbs[rowPath].weights <= run.adapter /\ rbs[run.refits].weights = run.adapter
      BY <1>1, <2>1 DEF RunFollowsRow
    <2>5. RowIsNewest' /\ RunFollowsRow'
      <3>1. /\ rbs[rowPath].weights \in Nat /\ run.adapter \in Nat
            /\ \A i \in DOMAIN mapped : mapped[i] \in Nat
        <4>1. mapped \in Seq(Nat)
          BY <1>1 DEF RefitTypeOK
        <4>2. rbs[rowPath].weights \in Nat /\ run.adapter \in Nat
          BY <1>1 DEF RefitTypeOK, RunRecords
        <4>3. QED BY ONLY <4>1, <4>2
      <3>2. \A i \in DOMAIN mapped : mapped[i] <= rbs[rowPath].weights
        BY <1>1, Zenon DEF RowIsNewest
      <3>3. \A i \in DOMAIN mapped : mapped[i] <= run.adapter
        <4>1. SUFFICES ASSUME NEW i \in DOMAIN mapped PROVE mapped[i] <= run.adapter
          OBVIOUS
        <4>2. mapped[i] \in Nat /\ mapped[i] <= rbs[rowPath].weights
          BY <3>1, <3>2, Zenon
        <4>3. QED BY ONLY <2>4, <3>1, <4>2
      <3>4. RowIsNewest'
        BY <2>1, <2>4, <3>3 DEF RowIsNewest
      <3>5. run'.at = "loop" /\ run'.adapter = run.adapter
        BY <1>1, <2>1 DEF RefitTypeOK, RunRecords
      <3>6. RunFollowsRow'
        BY <2>1, <2>4, <3>5 DEF RunFollowsRow
      <3>7. QED BY <3>4, <3>6
    <2>6. QED BY <2>3, <2>5 DEF RefitInv
  <1>9. CASE EndRun
    <2>1. Unsaved /\ run' = Stopped
      BY <1>1, <1>9 DEF EndRun, RefitTypeOK, RunRecords
    <2>2. RunOK
      BY <1>1, <2>1 DEF Stopped, Absent, AttemptsFollowBatches, RunFollowsRow, RefitTypeOK, RunRecords
    <2>3. QED BY <1>2, <2>1, <2>2
  <1>10. CASE UNCHANGED refitVars
    BY <1>1, <1>10
    DEF refitVars, RefitInv, RefitTypeOK, RunRecords, AttemptsFollowBatches, FilesAreOfTheFitted,
        RowIsNewest, RunFollowsRow, AdapterNeverGoesBack
  <1>11. QED
    BY <1>3, <1>4, <1>5, <1>6, <1>7, <1>8, <1>9, <1>10 DEF RefitNext

\* engine.py, refit.py, serialization.py: however runs end, inside a save too, no
\* batch of the job is mapped with an older adapter than one before it.
THEOREM AdapterNeverGoesBackAlways == RefitSpec => []AdapterNeverGoesBack
  <1>1. RefitSpec => []RefitInv
    BY RefitInvInit, RefitStep, PTL DEF RefitSpec
  <1>2. RefitInv => AdapterNeverGoesBack
    BY DEF RefitInv
  <1>3. QED BY <1>1, <1>2, PTL

----------------------------------------------------------------------------
(* Durability *)

\* Who holds the store open at each step of a run.
HandleFollowsStep ==
    /\ stepAt \in {"off", "loop", "unchecked", "closing", "opening", "reading", "reopening",
                   "failing", "passed", "lost", "broken", "shut"}
    /\ stuck \subseteq handles \intersect {"run", "check"}
    /\ stepAt \in {"off", "loop", "unchecked", "closing"} => stuck = {}
    /\ stepAt \in {"opening", "reading"} => "check" \notin stuck
    /\ handles \ stuck =
         CASE stepAt \in {"loop", "unchecked", "closing"} -> {"run"}
           [] stepAt = "reading" -> {"check"}
           [] stepAt \in {"passed", "lost", "broken"} -> {"after"}
           [] OTHER -> {}

\* The reservoir holds everything this run wrote until it is full, and stays full.
ReservoirIsFull ==
    /\ kept \subseteq wrote /\ wrote \subseteq finished /\ finished \subseteq Records
    /\ kept = wrote \/ Cardinality(kept) >= DURABILITY_SAMPLE

FoundIsOnDisk ==
    /\ stepAt \in {"reopening", "passed"} /\ ~(shares /\ "run" \in handles)
         => found \subseteq onDisk
    /\ stepAt = "passed" => kept \subseteq found

DurabilityInv == HandleFollowsStep /\ ReservoirIsFull /\ FoundIsOnDisk

\* A reservoir is a finite set, and its size a number.
LEMMA ReservoirIsFinite ==
  ReservoirIsFull => /\ IsFiniteSet(kept) /\ Cardinality(kept) \in Nat
                     /\ IsFiniteSet(wrote)
  BY DurabilityAssumption, FS_Subset, FS_CardinalityType DEF ReservoirIsFull

\* A record written takes a free place, or the place of one record, or none.
LEMMA KeepingFills ==
  ASSUME ReservoirIsFull, NEW r \in Records \ finished, kept' \in Reservoirs(r),
         wrote' = wrote \union {r}, finished' = finished \union {r}
  PROVE  ReservoirIsFull'
  <1>1. r \notin kept /\ r \notin wrote
    BY DEF ReservoirIsFull
  <1>2. IsFiniteSet(kept) /\ Cardinality(kept) \in Nat /\ DURABILITY_SAMPLE \in Nat
    BY ReservoirIsFinite, DurabilityAssumption
  <1>3. CASE Cardinality(kept) < DURABILITY_SAMPLE
    <2>1. kept = wrote /\ kept' = kept \union {r}
      BY <1>2, <1>3 DEF ReservoirIsFull, Reservoirs
    <2>2. QED BY <2>1 DEF ReservoirIsFull
  <1>4. CASE Cardinality(kept) >= DURABILITY_SAMPLE
    <2>1. kept' = kept \/ \E out \in kept : kept' = (kept \ {out}) \union {r}
      BY <1>2, <1>4 DEF Reservoirs
    <2>2. ASSUME NEW out \in kept, kept' = (kept \ {out}) \union {r}
          PROVE  Cardinality(kept') = Cardinality(kept)
      <3>1. IsFiniteSet(kept \ {out}) /\ Cardinality(kept \ {out}) = Cardinality(kept) - 1
        BY <1>2, FS_RemoveElement
      <3>2. Cardinality((kept \ {out}) \union {r}) = Cardinality(kept \ {out}) + 1
        BY <1>1, <3>1, FS_AddElement
      <3>3. QED BY <1>2, <2>2, <3>1, <3>2
    <2>3. Cardinality(kept') >= DURABILITY_SAMPLE
      BY <1>2, <1>4, <2>1, <2>2
    <2>4. kept' \subseteq wrote' /\ wrote' \subseteq finished' /\ finished' \subseteq Records
      BY <2>1 DEF ReservoirIsFull
    <2>5. QED BY <2>3, <2>4 DEF ReservoirIsFull
  <1>5. QED BY <1>2, <1>3, <1>4

\* DurabilityInv holds before the first run.
LEMMA DurabilityInvInit == DurabilityInit => DurabilityInv
  BY DEF DurabilityInit, DurabilityInv, HandleFollowsStep, ReservoirIsFull, FoundIsOnDisk

\* The steps of the check open a handle where the one before it is closed, or stuck.
LEMMA HandleMoves ==
  ASSUME HandleFollowsStep,
         CompleteJob \/ CloseEngineHandle \/ OpenFresh \/ Reread \/ Reopen \/ EndEngine
  PROVE  HandleFollowsStep'
  <1> USE DEF HandleFollowsStep, Close, handleVars
  <1>1. CASE CompleteJob
    BY <1>1 DEF CompleteJob
  <1>2. CASE CloseEngineHandle
    BY <1>2 DEF CloseEngineHandle
  <1>3. CASE OpenFresh
    BY <1>3 DEF OpenFresh
  <1>4. CASE Reread
    BY <1>4 DEF Reread
  <1>5. CASE Reopen
    BY <1>5 DEF Reopen, Outcome
  <1>6. CASE EndEngine
    BY <1>6 DEF EndEngine
  <1>7. QED BY <1>1, <1>2, <1>3, <1>4, <1>5, <1>6

\* What is found is found on disk, where the run's handle cannot answer.
LEMMA FoundMoves ==
  ASSUME HandleFollowsStep, FoundIsOnDisk,
         CompleteJob \/ CloseEngineHandle \/ OpenFresh \/ Reread \/ Reopen \/ EndEngine
  PROVE  FoundIsOnDisk'
  <1> USE DEF FoundIsOnDisk, Close, handleVars
  <1>1. CASE CompleteJob \/ CloseEngineHandle \/ OpenFresh \/ EndEngine
    BY <1>1 DEF CompleteJob, CloseEngineHandle, OpenFresh, EndEngine
  <1>2. CASE Reread
    <2>1. "run" \in handles' <=> "run" \in handles
      BY <1>2 DEF Reread
    <2>2. QED BY <1>2, <2>1 DEF Reread, Visible
  <1>3. CASE Reopen
    BY <1>3 DEF Reopen, Outcome
  <1>4. QED BY <1>1, <1>2, <1>3

\* Every step of a run, of its check, of the store and of a kill keeps DurabilityInv.
LEMMA DurabilityStep == DurabilityInv /\ [DurabilityNext]_durabilityVars => DurabilityInv'
  <1> SUFFICES ASSUME DurabilityInv, [DurabilityNext]_durabilityVars PROVE DurabilityInv'
    OBVIOUS
  <1>1. HandleFollowsStep /\ ReservoirIsFull /\ FoundIsOnDisk
    BY DEF DurabilityInv
  <1>2. CASE OpenEngine
    <2>1. ReservoirIsFull'
      BY <1>1, <1>2 DEF OpenEngine, ReservoirIsFull
    <2>2. HandleFollowsStep' /\ FoundIsOnDisk'
      BY <1>2 DEF OpenEngine, HandleFollowsStep, FoundIsOnDisk
    <2>3. QED BY <2>1, <2>2 DEF DurabilityInv
  <1>3. ASSUME NEW r \in Records, ProcessRecord(r) PROVE DurabilityInv'
    <2>1. ReservoirIsFull'
      BY <1>1, <1>3, KeepingFills DEF ProcessRecord
    <2>2. HandleFollowsStep' /\ FoundIsOnDisk'
      BY <1>1, <1>3 DEF ProcessRecord, HandleFollowsStep, FoundIsOnDisk, handleVars
    <2>3. QED BY <2>1, <2>2 DEF DurabilityInv
  <1>4. ASSUME NEW r \in Records, Persist(r) PROVE DurabilityInv'
    BY <1>1, <1>4
    DEF Persist, DurabilityInv, HandleFollowsStep, ReservoirIsFull, FoundIsOnDisk, handleVars
  <1>5. CASE CompleteJob \/ CloseEngineHandle \/ OpenFresh \/ Reread \/ Reopen \/ EndEngine
    <2>1. ReservoirIsFull'
      BY <1>1, <1>5
      DEF CompleteJob, CloseEngineHandle, OpenFresh, Reread, Reopen, EndEngine, ReservoirIsFull
    <2>2. HandleFollowsStep'
      BY <1>1, <1>5, HandleMoves
    <2>3. FoundIsOnDisk'
      BY <1>1, <1>5, FoundMoves
    <2>4. QED BY <2>1, <2>2, <2>3 DEF DurabilityInv
  <1>6. CASE UNCHANGED durabilityVars
    BY <1>1, <1>6
    DEF durabilityVars, handleVars, DurabilityInv, HandleFollowsStep, ReservoirIsFull,
        FoundIsOnDisk
  <1>7. QED
    BY <1>2, <1>3, <1>4, <1>5, <1>6 DEF DurabilityNext

\* DurabilityInv holds of every run of the program.
LEMMA DurabilityAlways == DurabilitySpec => []DurabilityInv
  BY DurabilityInvInit, DurabilityStep, PTL DEF DurabilitySpec

\* engine.py, verify_durability: a check that passed looked up, through a handle
\* that had written nothing, everything the run wrote, or a full reservoir of it,
\* unless the handle that wrote was still open and answered in its place.
THEOREM PassedMeansKeptAlways == DurabilitySpec => []PassedMeansKept
  <1>1. DurabilityInv => PassedMeansKept
    <2> SUFFICES ASSUME DurabilityInv, stepAt = "passed", ~(shares /\ "run" \in handles),
                        ~(wrote \subseteq onDisk)
                 PROVE  Cardinality(wrote \intersect onDisk) >= DURABILITY_SAMPLE
      BY DEF PassedMeansKept
    <2>1. kept \subseteq wrote \intersect onDisk /\ kept # wrote
      BY DEF DurabilityInv, ReservoirIsFull, FoundIsOnDisk
    <2>2. Cardinality(kept) >= DURABILITY_SAMPLE
      BY <2>1 DEF DurabilityInv, ReservoirIsFull
    <2>3. IsFiniteSet(wrote \intersect onDisk)
      BY ReservoirIsFinite, FS_Subset DEF DurabilityInv
    <2>4. /\ Cardinality(kept) <= Cardinality(wrote \intersect onDisk)
          /\ Cardinality(kept) \in Nat /\ Cardinality(wrote \intersect onDisk) \in Nat
      BY <2>1, <2>3, FS_Subset, FS_CardinalityType
    <2>5. QED BY <2>2, <2>4, DurabilityAssumption
  <1>2. QED BY <1>1, DurabilityAlways, PTL

\* engine.py, verify_durability: whatever closes, openings and readings fail, a handle is
\* opened only after a close of the one before was tried, and the engine has an open one
\* in every state the command goes on from, unless the last opening itself raised.
THEOREM OneHandleAtATimeAlways == DurabilitySpec => []OneHandleAtATime
  <1>1. DurabilityInv => OneHandleAtATime
    <2> SUFFICES ASSUME HandleFollowsStep PROVE OneHandleAtATime
      BY DEF DurabilityInv
    <2>1. handles \ stuck \in {{}, {"run"}, {"check"}, {"after"}}
      BY DEF HandleFollowsStep
    <2>2. Cardinality(handles \ stuck) <= 1
      <3>1. Cardinality({}) = 0
        BY FS_EmptySet
      <3>2. /\ Cardinality({"run"}) = 1 /\ Cardinality({"check"}) = 1
            /\ Cardinality({"after"}) = 1
        BY FS_Singleton
      <3>3. QED BY <2>1, <3>1, <3>2
    <2>3. QED BY <2>2 DEF HandleFollowsStep, OneHandleAtATime
  <1>2. QED BY <1>1, DurabilityAlways, PTL

=============================================================================
