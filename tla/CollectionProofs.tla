-------------------------- MODULE CollectionProofs --------------------------
(***************************************************************************)
(* Proofs about Collection: while the lock file stays where it is there is *)
(* one writer, and what gc removes is needed again only by a job that was  *)
(* rolled back when gc planned and resumed before it removed.              *)
(***************************************************************************)
EXTENDS Collection, TLAPS

\* A command starts with the lock free and no information file.
LEMMA LockStarts == ASSUME LockInit PROVE LockInv
BY LockAssumption DEF LockInit, LockInv, TypeOK, Stages, Hints, OneWriter, InfoIsCurrent, Holding

\* Waiting for the lock, timing out and reporting leave the holder alone.
LEMMA WaitStep ==
    ASSUME LockInv, NEW p \in Procs, Ask(p) \/ TimeOut(p) \/ ReadInfo(p) \/ Report(p)
    PROVE  LockInv'
<1> USE DEF LockInv, TypeOK, Stages, Hints, OneWriter, InfoIsCurrent, Holding, Move
<1>1. CASE Ask(p)
  BY <1>1 DEF Ask
<1>2. CASE TimeOut(p)
  BY <1>2 DEF TimeOut
<1>3. CASE ReadInfo(p)
  BY <1>3 DEF ReadInfo
<1>4. CASE Report(p)
  BY <1>4 DEF Report, Hint
<1> QED
  BY <1>1, <1>2, <1>3, <1>4

\* Acquiring, naming oneself, leaving and releasing pass the lock from one process to
\* the next, information first.
LEMMA HoldStep ==
    ASSUME LockInv, NEW p \in Procs,
           Acquire(p) \/ EmptyInfo(p) \/ WriteInfo(p) \/ Leave(p) \/ Release(p)
    PROVE  LockInv'
<1> USE LockAssumption
    DEF LockInv, TypeOK, Stages, Hints, OneWriter, InfoIsCurrent, Holding, Move
<1>1. CASE Acquire(p)
  BY <1>1 DEF Acquire, Taken
<1>2. CASE EmptyInfo(p)
  BY <1>2 DEF EmptyInfo
<1>3. CASE WriteInfo(p)
  BY <1>3 DEF WriteInfo
<1>4. CASE Leave(p)
  BY <1>4 DEF Leave
<1>5. CASE Release(p)
  BY <1>5 DEF Release
<1> QED
  BY <1>1, <1>2, <1>3, <1>4, <1>5

\* A process that is killed leaves its information behind and gives its lock back.
LEMMA KillStep == ASSUME LockInv, NEW p \in Procs, Kill(p) PROVE LockInv'
BY LockAssumption
   DEF Kill, Alive, LockInv, TypeOK, Stages, Hints, OneWriter, InfoIsCurrent, Holding

\* The bodies of the commands do not touch the lock.
LEMMA BodyStep == ASSUME LockInv, UNCHANGED lockVars PROVE LockInv'
BY DEF lockVars, LockInv, TypeOK, OneWriter, InfoIsCurrent, Holding

\* One process at a time holds the lock, through every step of every command.
LEMMA LockStays == ASSUME LockInv, [Next]_vars PROVE LockInv'
<1>1. CASE UNCHANGED vars
  BY <1>1, BodyStep DEF vars
<1>2. ASSUME NEW p \in Procs, AskToWrite(p) \/ Plan(p) PROVE LockInv'
  BY <1>2, WaitStep DEF AskToWrite, Plan
<1>3. ASSUME NEW p \in Procs, LockStep(p) PROVE LockInv'
  BY <1>3, WaitStep, HoldStep, KillStep DEF LockStep
<1>4. ASSUME NEW p \in Procs, Body(p) PROVE LockInv'
  BY <1>4, BodyStep DEF Body, StartJob, StandDown, CopyBatch, WriteBatch, FinishJob, Restore,
     FinishRollback, Collect
<1>5. ASSUME NEW p \in Procs, EndCommand(p) PROVE LockInv'
  BY <1>5, HoldStep DEF EndCommand
<1> QED
  BY <1>1, <1>2, <1>3, <1>4, <1>5 DEF Next

\* The commands keep their types.
LEMMA BodyTypes == ASSUME CollectionTypeOK, LockInv', [Next]_vars PROVE CollectionTypeOK'
<1> USE DEF CollectionTypeOK, Commands, States, Phases, In, Then
<1>0. TypeOK'
  BY DEF LockInv
<1>1. CASE UNCHANGED vars
  BY <1>0, <1>1 DEF vars, bodyVars, gcVars
<1>2. ASSUME NEW p \in Procs, AskToWrite(p) \/ LockStep(p) \/ EndCommand(p)
      PROVE  CollectionTypeOK'
  BY <1>0, <1>2 DEF AskToWrite, LockStep, EndCommand, bodyVars, gcVars
<1>3. ASSUME NEW p \in Procs, Plan(p) PROVE CollectionTypeOK'
  BY <1>0, <1>3 DEF Plan, gcVars
<1>4. ASSUME NEW p \in Procs, StartJob(p) \/ StandDown(p) \/ FinishJob(p) \/ FinishRollback(p)
      PROVE  CollectionTypeOK'
  BY <1>0, <1>4 DEF StartJob, StandDown, FinishJob, FinishRollback, gcVars
<1>5. ASSUME NEW p \in Procs, CopyBatch(p) \/ WriteBatch(p) \/ Restore(p) \/ Collect(p)
      PROVE  CollectionTypeOK'
  BY <1>0, <1>5 DEF CopyBatch, WriteBatch, Restore, Collect, gcVars
<1> QED
  BY <1>1, <1>2, <1>3, <1>4, <1>5 DEF Next, Body

\* For any number of processes and kills: while the lock file stays where it is, one
\* process at a time is inside, and the information file tells which.
THEOREM WriterIsKnown == Spec => []CollectionInv
<1>1. Init => CollectionInv
  BY LockStarts DEF Init, CollectionInv, CollectionTypeOK, LockInv, Commands, States, Phases
<1>2. CollectionInv /\ [Next]_vars => CollectionInv'
  BY LockStays, BodyTypes DEF CollectionInv
<1> QED
  BY <1>1, <1>2, PTL DEF Spec

-----------------------------------------------------------------------------
(* What gc removes *)

\* Taking the lock and giving it back happen with the command not begun or at its end.
LEMMA CopyWaits ==
    ASSUME CollectionInv, CopyInv, NEW p \in Procs, AskToWrite(p) \/ LockStep(p) \/ EndCommand(p)
    PROVE  CopyInv'
<1> USE DEF CopyInv, CopyOutlivesNeed, In
<1>1. UNCHANGED bodyVars
  BY DEF AskToWrite, LockStep, EndCommand
<1>2. /\ stage \in [Procs -> Stages]
      /\ \E s \in Stages : stage' = [stage EXCEPT ![p] = s]
                           /\ (s = "inside" => stage[p] = "naming")
                           /\ (s \in {"idle", "waiting", "entered", "naming"}
                                 => stage[p] \in {"idle", "waiting", "entered"})
  BY DEF CollectionInv, LockInv, TypeOK, Stages, AskToWrite, LockStep, EndCommand, Move, Ask,
     Acquire, EmptyInfo, WriteInfo, Leave, Release, TimeOut, ReadInfo, Report, Kill
<1> QED
  BY <1>1, <1>2 DEF bodyVars, gcVars

\* A plan made of a job that was rolled back lists nothing another plan would not.
LEMMA CopyPlanned == ASSUME CollectionInv, CopyInv, NEW p \in Procs, Plan(p) PROVE CopyInv'
BY DEF Plan, Ask, Move, Spent, CopyInv, CopyOutlivesNeed, In, CollectionInv, LockInv, TypeOK,
   gcVars

\* A job that starts overtakes the plans that list its copy, and finishes with the copy there.
LEMMA CopyMigrated ==
    ASSUME CollectionInv, CopyInv, NEW p \in Procs,
           StartJob(p) \/ StandDown(p) \/ CopyBatch(p) \/ WriteBatch(p) \/ FinishJob(p)
    PROVE  CopyInv'
<1> USE DEF CopyInv, CopyOutlivesNeed, In, Then, lockVars, gcVars
<1>1. \A q \in Procs : stage[q] = "inside" => q = p
  BY DEF CollectionInv, LockInv, OneWriter, Holding, StartJob, StandDown, CopyBatch, WriteBatch,
     FinishJob
<1>2. phase \in [Procs -> Phases]
  BY DEF CollectionInv, CollectionTypeOK
<1>3. CASE StartJob(p)
  BY <1>1, <1>2, <1>3 DEF StartJob
<1>4. CASE StandDown(p)
  BY <1>1, <1>2, <1>4 DEF StandDown
<1>5. CASE CopyBatch(p)
  BY <1>1, <1>2, <1>5 DEF CopyBatch
<1>6. CASE WriteBatch(p)
  BY <1>1, <1>2, <1>6 DEF WriteBatch
<1>7. CASE FinishJob(p)
  BY <1>1, <1>2, <1>7 DEF FinishJob
<1> QED
  BY <1>3, <1>4, <1>5, <1>6, <1>7

\* A rollback finishes with everything put back, and gc removes a copy that is spent, or
\* was when it was planned.
LEMMA CopyRestored ==
    ASSUME CollectionInv, CopyInv, NEW p \in Procs,
           Restore(p) \/ FinishRollback(p) \/ Collect(p)
    PROVE  CopyInv'
<1> USE DEF CopyInv, CopyOutlivesNeed, In, Then, lockVars, gcVars
<1>1. \A q \in Procs : stage[q] = "inside" => q = p
  BY DEF CollectionInv, LockInv, OneWriter, Holding, Restore, FinishRollback, Collect
<1>2. phase \in [Procs -> Phases]
  BY DEF CollectionInv, CollectionTypeOK
<1>3. CASE Restore(p)
  BY <1>1, <1>2, <1>3 DEF Restore
<1>4. CASE FinishRollback(p)
  BY <1>1, <1>2, <1>4 DEF FinishRollback
<1>5. CASE Collect(p)
  <2>1. /\ In(p, "gc", "begin") /\ UNCHANGED <<stage, command, doomed, job, overtaken>>
        /\ \A q \in Procs : phase'[q] = IF q = p THEN "end" ELSE phase[q]
    BY <1>2, <1>5 DEF Collect
  <2>2. CopyOutlivesNeed'
    BY <1>5, <2>1 DEF Collect
  <2>3. (moved => shadow)' /\ (job = "rolled_back" => ~moved)'
    BY <1>5, <2>1 DEF Collect
  <2>4. \A q \in Procs : q # p => stage[q] # "inside"
    BY <1>1
  <2>5. (\A q \in doomed : phase[q] = "begin" => job = "rolled_back" \/ q \in overtaken)'
    BY <2>1 DEF CollectionInv, CollectionTypeOK
  <2> QED
    BY <2>1, <2>2, <2>3, <2>4, <2>5
<1> QED
  BY <1>3, <1>4, <1>5

\* For any number of processes and kills: while the lock file stays where it is, gc removes
\* no copy that vectors need, although it makes its plan without the lock, unless the job
\* was rolled back when it planned and resumed before it removed.
THEOREM CopyIsKept == Spec => []CopyOutlivesNeed
<1>1. Init => CopyInv
  BY DEF Init, LockInit, CopyInv, CopyOutlivesNeed, In
<1>2. CollectionInv /\ CopyInv /\ [Next]_vars => CopyInv'
  <2> SUFFICES ASSUME CollectionInv, CopyInv, [Next]_vars PROVE CopyInv'
    OBVIOUS
  <2>1. CASE UNCHANGED vars
    BY <2>1 DEF vars, lockVars, bodyVars, gcVars, CopyInv, CopyOutlivesNeed, In
  <2> QED
    BY <2>1, CopyWaits, CopyPlanned, CopyMigrated, CopyRestored DEF Next, Body
<1>3. CopyInv => CopyOutlivesNeed
  BY DEF CopyInv
<1> QED
  BY <1>1, <1>2, <1>3, WriterIsKnown, PTL DEF Spec
=============================================================================
