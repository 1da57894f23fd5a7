------------------------------ MODULE StateLock ------------------------------
(***************************************************************************)
(* The state lock of rebasis (storage/locks.py): an operating-system lock  *)
(* on one file, a second file that names the holder, a timeout after which *)
(* a process reports who holds the lock, and an operator who follows the   *)
(* report.  Every process runs one command.                                *)
(***************************************************************************)
EXTENDS Integers

CONSTANTS
    Procs,          \* the processes that want the lock
    NoProc,         \* the information file is absent, empty or unreadable
    MaxKills,       \* bound on the processes killed
    MaxRemovals     \* bound on how often an operator removes the lock file

ASSUME LockAssumption == NoProc \notin Procs /\ MaxKills \in Nat /\ MaxRemovals \in Nat

Stages == {"idle", "waiting", "entered", "naming", "inside", "leaving", "ended",
           "late", "asking", "refused", "dead"}
Hints == {"none", "another", "running", "stale"}

VARIABLES
    stage,      \* where each process is in state_lock
    path,       \* which file is found at rebasis.lock: one more than were removed
    held,       \* the file each process holds the operating system's lock on, or 0
    info,       \* the process rebasis.lock.info names
    named,      \* what a process that timed out has read there
    hint,       \* what it then told its user
    kills       \* history: processes killed

lockVars == <<stage, path, held, info, named, hint, kills>>

TypeOK ==
    /\ stage \in [Procs -> Stages]
    /\ path \in Nat \ {0} /\ held \in [Procs -> Nat]
    /\ info \in Procs \cup {NoProc} /\ named \in [Procs -> Procs \cup {NoProc}]
    /\ hint \in [Procs -> Hints] /\ kills \in Nat

LockInit ==
    /\ stage = [p \in Procs |-> "idle"]
    /\ path = 1 /\ held = [p \in Procs |-> 0]
    /\ info = NoProc /\ named = [p \in Procs |-> NoProc]
    /\ hint = [p \in Procs |-> "none"] /\ kills = 0

Move(p, from, to) == stage[p] = from /\ stage' = [stage EXCEPT ![p] = to]

Alive(p) == stage[p] \notin {"idle", "ended", "refused", "dead"}

\* Someone holds the file a process that opens rebasis.lock now would open.
Taken == \E q \in Procs : held[q] = path

-----------------------------------------------------------------------------
Ask(p) ==
    /\ Move(p, "idle", "waiting")
    /\ UNCHANGED <<path, held, info, named, hint, kills>>

\* lock.acquire: the file is created if it is not there.
Acquire(p) ==
    /\ Move(p, "waiting", "entered")
    /\ ~Taken
    /\ held' = [held EXCEPT ![p] = path]
    /\ UNCHANGED <<path, info, named, hint, kills>>

\* write_text empties the information file and then fills it.
EmptyInfo(p) ==
    /\ Move(p, "entered", "naming")
    /\ info' = NoProc
    /\ UNCHANGED <<path, held, named, hint, kills>>

WriteInfo(p) ==
    /\ Move(p, "naming", "inside")
    /\ info' = p
    /\ UNCHANGED <<path, held, named, hint, kills>>

\* Mutant: the information outlives the command.
LeaveInfo(p) ==
    /\ Move(p, "inside", "leaving")
    /\ UNCHANGED <<path, held, info, named, hint, kills>>

\* finally, first statement.
Leave(p) ==
    /\ Move(p, "inside", "leaving")
    /\ info' = NoProc
    /\ UNCHANGED <<path, held, named, hint, kills>>

Release(p) ==
    /\ Move(p, "leaving", "ended")
    /\ held' = [held EXCEPT ![p] = 0]
    /\ UNCHANGED <<path, info, named, hint, kills>>

-----------------------------------------------------------------------------
(* Timeout: the last attempt, the read of the information file and the look *)
(* for the process it names are three moments.                              *)

TimeOut(p) ==
    /\ Move(p, "waiting", "late")
    /\ Taken
    /\ UNCHANGED <<path, held, info, named, hint, kills>>

ReadInfo(p) ==
    /\ Move(p, "late", "asking")
    /\ named' = [named EXCEPT ![p] = info]
    /\ UNCHANGED <<path, held, info, hint, kills>>

Hint(q) == IF q = NoProc THEN "another" ELSE IF Alive(q) THEN "running" ELSE "stale"

Report(p) ==
    /\ Move(p, "asking", "refused")
    /\ hint' = [hint EXCEPT ![p] = Hint(named[p])]
    /\ UNCHANGED <<path, held, info, named, kills>>

-----------------------------------------------------------------------------
\* The operating system ends a process and gives its lock back; files stay.
Kill(p) ==
    /\ Alive(p) /\ kills < MaxKills
    /\ stage' = [stage EXCEPT ![p] = "dead"]
    /\ held' = [held EXCEPT ![p] = 0]
    /\ kills' = kills + 1
    /\ UNCHANGED <<path, info, named, hint>>

\* "Remove rebasis.lock and retry", done by an operator who was told so.
RemoveLockFile ==
    /\ path <= MaxRemovals
    /\ \E p \in Procs : hint[p] = "stale"
    /\ path' = path + 1
    /\ UNCHANGED <<stage, held, info, named, hint, kills>>

-----------------------------------------------------------------------------
Holding(p) == stage[p] \in {"entered", "naming", "inside", "leaving"}

\* "Two writers in one manifest is the failure this prevents."
OneWriter == \A p, q \in Procs : Holding(p) /\ Holding(q) => p = q

\* The information file names the process that is inside its command, and otherwise
\* nobody or a process that was killed there: never one that left, whose number
\* another process could have by now.
InfoIsCurrent ==
    /\ \A p \in Procs : stage[p] = "inside" => info = p
    /\ info # NoProc => stage[info] \in {"inside", "dead"}

\* What holds while the lock file stays where it is: a process holds the file at the path
\* from the moment it acquires it to the moment it releases it, there is one such
\* process, and the information file tells which.
LockInv ==
    /\ TypeOK
    /\ \A p \in Procs : held[p] = (IF Holding(p) THEN path ELSE 0)
    /\ OneWriter
    /\ InfoIsCurrent
=============================================================================
