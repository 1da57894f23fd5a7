----------------------------- MODULE Durability -----------------------------
(***************************************************************************)
(* The end-of-job check of migrate/engine.py.  A run reads every batch     *)
(* back through the handle that wrote it, keeps a reservoir of what it     *)
(* wrote, and when the queue is empty closes the store, opens it afresh    *)
(* and looks the reservoir up.  A store may show its handle writes that it *)
(* never puts on disk; a handle may fail to close, or have nothing to be   *)
(* closed by, and an opening may fail.                                     *)
(***************************************************************************)
EXTENDS Integers, FiniteSets

CONSTANTS
    Records,
    DURABILITY_SAMPLE,
    MaxEngines         \* bound on runs

ASSUME DurabilityAssumption ==
    IsFiniteSet(Records) /\ DURABILITY_SAMPLE \in Nat \ {0} /\ MaxEngines \in Nat

VARIABLES
    onDisk,    \* records whose new vector is on disk
    shown,     \* records whose new vector the engine's handle shows
    finished,  \* records marked done
    kept,      \* the reservoir
    wrote,     \* ghost: what this run wrote
    shares,    \* whether a handle of this backend answers through one that is open
    handles,   \* handles on the store: the run's, the check's, the one of after it
    stuck,     \* those of them that a close did not release
    found,     \* records of the reservoir the fresh handle found
    stepAt,    \* where the run is
    engines    \* ghost: for the bound

handleVars == <<shares, handles, stuck>>
durabilityVars == <<onDisk, shown, finished, kept, wrote, handleVars, found, stepAt, engines>>

DurabilityInit ==
    /\ onDisk = {} /\ shown = {} /\ finished = {} /\ kept = {} /\ wrote = {}
    /\ shares \in BOOLEAN /\ handles = {} /\ stuck = {}
    /\ found = {} /\ stepAt = "off" /\ engines = 0

\* Each run has an engine of its own, and with it an empty reservoir.
OpenEngine ==
    /\ stepAt = "off" /\ engines < MaxEngines
    /\ engines' = engines + 1
    /\ handles' = {"run"} /\ stuck' = {} /\ shown' = onDisk
    /\ kept' = {} /\ wrote' = {} /\ found' = {}
    /\ stepAt' = "loop"
    /\ UNCHANGED <<onDisk, finished, shares>>

\* _keep_for_durability: the reservoir fills up, and from then on a record takes
\* the place of one of those kept, or none.
LatestOnly(r) == {{r}}
Reservoirs(r) ==
    IF Cardinality(kept) < DURABILITY_SAMPLE THEN {kept \union {r}}
    ELSE {kept} \union {(kept \ {out}) \union {r} : out \in kept}

\* _process_batch_inner, of a record whose write verifies: written, kept, marked.
ProcessRecord(r) ==
    /\ stepAt = "loop" /\ r \notin finished
    /\ shown' = shown \union {r} /\ wrote' = wrote \union {r}
    /\ kept' \in Reservoirs(r)
    /\ finished' = finished \union {r}
    /\ UNCHANGED <<onDisk, handleVars, found, stepAt, engines>>

\* The store puts on disk what it pleases of what its handle shows, when it pleases.
Persist(r) ==
    /\ "run" \in handles /\ r \in shown \ onDisk
    /\ onDisk' = onDisk \union {r}
    /\ UNCHANGED <<shown, finished, kept, wrote, handleVars, found, stepAt, engines>>

\* The job is COMPLETED before the check, which needs something to look up.
CompleteJob ==
    /\ stepAt = "loop" /\ finished = Records
    /\ stepAt' = IF kept = {} THEN "unchecked" ELSE "closing"
    /\ UNCHANGED <<onDisk, shown, finished, kept, wrote, handleVars, found, engines>>

----------------------------------------------------------------------------
(* verify_durability *)

KeepOpen ==
    /\ stepAt = "closing" /\ stepAt' = "opening"
    /\ UNCHANGED <<onDisk, shown, finished, kept, wrote, handleVars, found, engines>>

\* _close: an exception of the close is suppressed, and a store without a close has
\* none, so that the handle is released or stays.
Close(h) ==
    \/ handles' = handles \ {h} /\ UNCHANGED <<shares, stuck>>
    \/ stuck' = stuck \union {h} /\ UNCHANGED <<shares, handles>>

CloseEngineHandle ==
    /\ stepAt = "closing" /\ stepAt' = "opening"
    /\ Close("run")
    /\ UNCHANGED <<onDisk, shown, finished, kept, wrote, found, engines>>

OpenFresh ==
    /\ stepAt = "opening"
    /\ \/ handles' = handles \union {"check"} /\ stepAt' = "reading"
       \/ UNCHANGED handles /\ stepAt' = "failing"
    /\ UNCHANGED <<onDisk, shown, finished, kept, wrote, shares, stuck, found, engines>>

\* What a fresh handle shows: the disk, or what the run's handle shows while that is open
\* and the backend has one client for both ("Chroma caches a client per path").
Visible == IF shares /\ "run" \in handles THEN shown ELSE onDisk

\* The fresh handle is closed whether the reading succeeds or not.
Reread ==
    /\ stepAt = "reading"
    /\ Close("check")
    /\ \/ found' = kept \intersect Visible /\ stepAt' = "reopening"
       \/ UNCHANGED found /\ stepAt' = "failing"
    /\ UNCHANGED <<onDisk, shown, finished, kept, wrote, engines>>

\* An exception of the reading goes on; WritesDidNotSurvive says what is lost.
Outcome == IF stepAt = "failing" THEN "broken"
           ELSE IF kept \subseteq found THEN "passed" ELSE "lost"

\* The finally clause, which may itself raise, then the comparison.
Reopen ==
    /\ stepAt \in {"reopening", "failing"}
    /\ \/ handles' = handles \union {"after"} /\ stepAt' = Outcome
       \/ UNCHANGED handles /\ stepAt' = "shut"
    /\ UNCHANGED <<onDisk, shown, finished, kept, wrote, shares, stuck, found, engines>>

\* The command ends and closes the store, or it is killed anywhere: what no
\* handle put on disk is gone.
EndEngine ==
    /\ stepAt # "off"
    /\ stepAt' = "off" /\ handles' = {} /\ stuck' = {} /\ shown' = onDisk
    /\ UNCHANGED <<onDisk, finished, kept, wrote, shares, found, engines>>

DurabilityNext ==
    \/ OpenEngine \/ CompleteJob \/ CloseEngineHandle \/ OpenFresh \/ Reread \/ Reopen
    \/ \E r \in Records : ProcessRecord(r) \/ Persist(r)
    \/ EndEngine

DurabilitySpec == DurabilityInit /\ [][DurabilityNext]_durabilityVars

----------------------------------------------------------------------------
(* Properties *)

\* A run whose check passed has on disk all it wrote, or a whole sample of it
\* when it wrote more: a store that keeps nothing of a run, or next to nothing,
\* cannot pass by what its own handle remembers, unless that handle could not be
\* released and the backend let it answer for the fresh one.
PassedMeansKept ==
    stepAt = "passed" /\ ~(shares /\ "run" \in handles) =>
        \/ wrote \subseteq onDisk
        \/ Cardinality(wrote \intersect onDisk) >= DURABILITY_SAMPLE

\* The check never opens the store beside a handle it has not tried to release, which
\* backends with an exclusive lock would refuse.  Whatever was read, and whatever closing
\* or reading failed, the engine has an open handle when the check is over, for the
\* rollback that may come next: it has none only when the reopening itself raised.
OneHandleAtATime ==
    /\ Cardinality(handles \ stuck) <= 1
    /\ stepAt \in {"loop", "unchecked"} => handles = {"run"}
    /\ stepAt \in {"passed", "lost", "broken"} => "after" \in handles \ stuck

=============================================================================
