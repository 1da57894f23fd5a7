------------------------------ MODULE Collection ------------------------------
(***************************************************************************)
(* The commands that write to one state directory, run by processes that   *)
(* compete for the state lock: migrate and resume, rollback, and gc, which *)
(* decides what to remove before it takes the lock and removes it after    *)
(* (cli/migrate.py, storage/gc.py).                                        *)
(*                                                                         *)
(* A job is seen from afar: whether its index holds moved vectors whose    *)
(* originals are in the shadow copy, and whether that copy is there.       *)
(***************************************************************************)
EXTENDS StateLock, FiniteSets

Commands == {"migrate", "rollback", "gc"}
States == {"none", "running", "paused", "completed", "rolled_back"}
Phases == {"begin", "shadow", "write", "finish", "restore", "end"}

VARIABLES
    command,    \* what each process was started as
    phase,      \* how far the body of its command is
    doomed,     \* processes of gc whose plan lists the shadow copy
    job,        \* the state in the job's row
    moved,      \* the index holds mapped vectors whose originals are in the copy
    shadow,     \* the shadow copy is there
    overtaken,  \* history: plans of gc made before a rolled-back job was resumed
    removed     \* history: processes of gc that removed a copy with such originals

gcVars == <<overtaken, removed>>
bodyVars == <<command, phase, doomed, job, moved, shadow, gcVars>>
vars == <<lockVars, bodyVars>>

CollectionTypeOK ==
    /\ TypeOK
    /\ command \in [Procs -> Commands] /\ phase \in [Procs -> Phases]
    /\ doomed \subseteq Procs /\ overtaken \subseteq Procs /\ removed \subseteq Procs
    /\ job \in States /\ moved \in BOOLEAN /\ shadow \in BOOLEAN

Init ==
    /\ LockInit
    /\ command \in [Procs -> Commands] /\ phase = [p \in Procs |-> "begin"]
    /\ doomed = {} /\ overtaken = {} /\ removed = {}
    /\ job = "none" /\ moved = FALSE /\ shadow = FALSE

-----------------------------------------------------------------------------
(* Before the lock *)

\* migrate and rollback decide nothing before they hold the lock, but --resume
\* wants a row.
AskToWrite(p) ==
    /\ command[p] # "gc"
    /\ Ask(p)
    /\ UNCHANGED bodyVars

\* Mutant: a job that is finished does not need its copy either.
SpentWhenFinished == job \in {"rolled_back", "completed"}

\* _rolled_back_jobs: the copy of a job that was rolled back is spent.
Spent == job = "rolled_back"

\* plan_gc without a lock.  A copy named with --job and --i-understand is removed
\* because the operator wants it gone, and left out here.
Plan(p) ==
    /\ command[p] = "gc"
    /\ Ask(p)
    /\ doomed' = IF shadow /\ Spent THEN doomed \cup {p} ELSE doomed
    /\ UNCHANGED <<command, phase, job, moved, shadow, gcVars>>

-----------------------------------------------------------------------------
(* Under the lock *)

In(p, c, from) == stage[p] = "inside" /\ command[p] = c /\ phase[p] = from
Then(p, to) == phase' = [phase EXCEPT ![p] = to]

\* The job is new, or resumed from any state, rolled_back too: engine.run sets it running.
StartJob(p) ==
    /\ In(p, "migrate", "begin")
    /\ job' = "running" /\ Then(p, "shadow")
    /\ overtaken' = IF job = "rolled_back"
                    THEN overtaken \cup {q \in doomed : phase[q] = "begin"} ELSE overtaken
    /\ UNCHANGED <<lockVars, command, doomed, moved, shadow, removed>>

\* Nothing to migrate, or the operator does not proceed.
StandDown(p) ==
    /\ In(p, "migrate", "begin") \/ In(p, "rollback", "begin")
    /\ Then(p, "end")
    /\ UNCHANGED <<lockVars, command, doomed, job, moved, shadow, gcVars>>

CopyBatch(p) ==
    /\ In(p, "migrate", "shadow")
    /\ shadow' = TRUE /\ Then(p, "write")
    /\ UNCHANGED <<lockVars, command, doomed, job, moved, gcVars>>

WriteBatch(p) ==
    /\ In(p, "migrate", "write")
    /\ moved' = TRUE /\ Then(p, "finish")
    /\ UNCHANGED <<lockVars, command, doomed, job, shadow, gcVars>>

FinishJob(p) ==
    /\ In(p, "migrate", "finish")
    /\ job' \in {"paused", "completed"} /\ Then(p, "end")
    /\ UNCHANGED <<lockVars, command, doomed, moved, shadow, gcVars>>

\* JobRow.reversible, and a shadow copy to read (ShadowMissing otherwise).
Restore(p) ==
    /\ In(p, "rollback", "begin")
    /\ job \notin {"none", "rolled_back"} /\ shadow
    /\ moved' = FALSE /\ Then(p, "restore")
    /\ UNCHANGED <<lockVars, command, doomed, job, shadow, gcVars>>

FinishRollback(p) ==
    /\ In(p, "rollback", "restore")
    /\ job' = "rolled_back" /\ Then(p, "end")
    /\ UNCHANGED <<lockVars, command, doomed, moved, shadow, gcVars>>

\* apply_gc: what the plan lists is removed, and with it the originals it holds.
Collect(p) ==
    /\ In(p, "gc", "begin")
    /\ shadow' = (shadow /\ p \notin doomed)
    /\ moved' = (moved /\ p \notin doomed)
    /\ removed' = IF moved /\ p \in doomed THEN removed \cup {p} ELSE removed
    /\ Then(p, "end")
    /\ UNCHANGED <<lockVars, command, doomed, job, overtaken>>

Body(p) == \/ StartJob(p) \/ StandDown(p) \/ CopyBatch(p) \/ WriteBatch(p) \/ FinishJob(p)
           \/ Restore(p) \/ FinishRollback(p) \/ Collect(p)

EndCommand(p) == phase[p] = "end" /\ Leave(p) /\ UNCHANGED bodyVars

LockStep(p) ==
    /\ \/ Acquire(p) \/ EmptyInfo(p) \/ WriteInfo(p) \/ Release(p)
       \/ TimeOut(p) \/ ReadInfo(p) \/ Report(p) \/ Kill(p)
    /\ UNCHANGED bodyVars

Next == \E p \in Procs :
    AskToWrite(p) \/ Plan(p) \/ LockStep(p) \/ Body(p) \/ EndCommand(p)

Spec == Init /\ [][Next]_vars

\* ... with an operator who believes the report of a stale lock.
TrustingSpec == Init /\ [][Next \/ (RemoveLockFile /\ UNCHANGED bodyVars)]_vars

-----------------------------------------------------------------------------
\* Whatever the commands do, one process is inside at a time and the information file
\* tells which, as long as the lock file stays where it is.
CollectionInv == CollectionTypeOK /\ LockInv

\* gc plans without the lock which copies are spent.  Whatever commands run before it
\* removes them, moved vectors lose their originals to it in one way only: the job was
\* rolled back when the plan was made, and resumed before the plan was applied.
CopyOutlivesNeed == removed \subseteq overtaken

\* gc.py:142-146 of the copy of a job that was rolled back: "it can never be used again -
\* rolled_back is terminal - so it is listed unprompted ... There is nothing left to
\* protect."
NothingLeftToProtect == removed = {}

\* Why: a migration that is about to write has its copy and has set the job running, a
\* rollback that is about to finish has put everything back, and a plan that is still to
\* be applied lists the copy of a job that is rolled back or was resumed since.
CopyInv ==
    /\ \A p \in Procs :
          /\ stage[p] \in {"idle", "waiting", "entered", "naming"} => phase[p] = "begin"
          /\ \A f \in {"shadow", "write", "finish"} : In(p, "migrate", f) => job = "running"
          /\ In(p, "migrate", "write") => shadow
          /\ In(p, "rollback", "restore") => ~moved
    /\ moved => shadow
    /\ job = "rolled_back" => ~moved
    /\ \A p \in doomed : phase[p] = "begin" => job = "rolled_back" \/ p \in overtaken
    /\ CopyOutlivesNeed
=============================================================================
