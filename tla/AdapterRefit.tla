----------------------------- MODULE AdapterRefit -----------------------------
(***************************************************************************)
(* The adapter of a migration job across its runs: the refit that replaces *)
(* it between two batches (migrate/engine.py, migrate/refit.py), the .rbs  *)
(* directory the replacement is saved in (core/serialization.py), and the  *)
(* job row a resumed run loads it from.                                    *)
(*                                                                         *)
(* Adapters are numbered in the order they were fitted; 1 is the one the   *)
(* job was started with.  A .rbs directory holds the number of the adapter *)
(* each of its two files was written for.                                  *)
(***************************************************************************)
EXTENDS Integers, Sequences

CONSTANTS
    Corpus,              \* batches the job has to migrate
    EveryN,              \* RefitPolicy.every_n_records, in batches
    MaxAdapters, MaxRuns \* bounds

ASSUME RefitAssumption ==
    /\ Corpus \in Nat /\ EveryN \in Nat \ {0}
    /\ MaxAdapters \in Nat \ {0} /\ MaxRuns \in Nat

VARIABLES
    rbs,      \* rbs[n]: job-refit-n.rbs, one for each attempt a run may make;
              \* rbs[0] is the file given to migrate
    rowPath,  \* jobs.adapter_path
    run,      \* the engine of the current run
    mapped,   \* the adapter each batch so far was mapped with, in order
    fitted,   \* adapters fitted so far
    runs

refitVars == <<rbs, rowPath, run, mapped, fitted, runs>>

Absent == 0
Stopped == [at |-> "off", adapter |-> Absent, refits |-> 0, processed |-> 0,
            lastRefitAt |-> 0, enabled |-> FALSE]

RefitInit ==
    /\ rbs = [n \in 0..Corpus |->
                  IF n = 0 THEN [weights |-> 1, manifest |-> 1]
                  ELSE [weights |-> Absent, manifest |-> Absent]]
    /\ rowPath = 0 /\ run = Stopped /\ mapped = <<>> /\ fitted = 1 /\ runs = 0

\* load_adapter, which does not compare the weights with the manifest's hashes
\* unless it is asked to.
Loadable(n) == rbs[n].weights # Absent /\ rbs[n].manifest # Absent

\* migrate, or migrate --resume with the path on the job row; --refit or not.
StartRun(enabled) ==
    /\ run.at = "off" /\ runs < MaxRuns /\ Loadable(rowPath)
    /\ run' = [Stopped EXCEPT !.at = "loop", !.adapter = rbs[rowPath].weights,
                              !.enabled = enabled]
    /\ runs' = runs + 1
    /\ UNCHANGED <<rbs, rowPath, mapped, fitted>>

MapBatch ==
    /\ run.at = "loop" /\ Len(mapped) < Corpus
    /\ mapped' = Append(mapped, run.adapter)
    /\ run' = [run EXCEPT !.at = "between", !.processed = @ + 1]
    /\ UNCHANGED <<rbs, rowPath, fitted, runs>>

\* RefitPolicy.due
Due == run.enabled /\ run.processed - run.lastRefitAt >= EveryN

NotDue ==
    /\ run.at = "between" /\ ~Due
    /\ run' = [run EXCEPT !.at = "loop"]
    /\ UNCHANGED <<rbs, rowPath, mapped, fitted, runs>>

\* The attempt counts, and so does the number of batches, whatever comes of it:
\* too few pairs, an embedder that fails, or an improvement within the noise.
Attempted == [run EXCEPT !.refits = @ + 1, !.lastRefitAt = run.processed, !.at = "loop"]

Decline ==
    /\ run.at = "between" /\ Due
    /\ run' = Attempted
    /\ UNCHANGED <<rbs, rowPath, mapped, fitted, runs>>

\* Pairs are drawn from what is left, so nothing left means nothing adopted.
Adopt ==
    /\ run.at = "between" /\ Due /\ Len(mapped) < Corpus
    /\ fitted < MaxAdapters
    /\ fitted' = fitted + 1
    /\ run' = [Attempted EXCEPT !.adapter = fitted + 1, !.at = "weights"]
    /\ UNCHANGED <<rbs, rowPath, mapped, runs>>

\* save_adapter: each file is replaced atomically, the weights first.
SaveWeights ==
    /\ run.at = "weights"
    /\ rbs' = [rbs EXCEPT ![run.refits].weights = run.adapter]
    /\ run' = [run EXCEPT !.at = "manifest"]
    /\ UNCHANGED <<rowPath, mapped, fitted, runs>>

SaveManifest ==
    /\ run.at = "manifest"
    /\ rbs' = [rbs EXCEPT ![run.refits].manifest = run.adapter]
    /\ run' = [run EXCEPT !.at = "row"]
    /\ UNCHANGED <<rowPath, mapped, fitted, runs>>

SkipRow ==
    /\ run.at = "row" /\ run' = [run EXCEPT !.at = "loop"]
    /\ UNCHANGED <<rbs, rowPath, mapped, fitted, runs>>

PointRow ==
    /\ run.at = "row"
    /\ rowPath' = run.refits
    /\ run' = [run EXCEPT !.at = "loop"]
    /\ UNCHANGED <<rbs, mapped, fitted, runs>>

\* The run ends: nothing left, a pause, an error (a save that fails is not
\* caught), or a kill.
EndRun ==
    /\ run.at # "off" /\ run' = Stopped
    /\ UNCHANGED <<rbs, rowPath, mapped, fitted, runs>>

RefitNext ==
    \/ \E enabled \in BOOLEAN : StartRun(enabled)
    \/ MapBatch \/ NotDue \/ Decline \/ Adopt
    \/ SaveWeights \/ SaveManifest \/ PointRow \/ EndRun

RefitSpec == RefitInit /\ [][RefitNext]_refitVars

----------------------------------------------------------------------------
(* Properties *)

\* Killed anywhere, even inside a save over a file an earlier run left (the
\* counter in its name starts again with every run), a resumed run maps with no
\* older adapter than the batches before it: what a refit gained is not given
\* back.
AdapterNeverGoesBack == \A i, j \in DOMAIN mapped : i < j => mapped[i] <= mapped[j]

=============================================================================
