-------------------------------- MODULE Trials --------------------------------
(***************************************************************************)
(* What the algorithms without a state of their own promise of one input:  *)
(* the merge of two sides (HybridMerge) and the decision rule of a probe   *)
(* (ProbeDecision).  trial is the input, and kind says what it is for.     *)
(***************************************************************************)
EXTENDS HybridMerge, ProbeDecision

CONSTANT Ratios      \* retentions, in thousandths, that inputs are compared with

VARIABLE trial

Trying(kind) == trial.kind = kind

\* serve/hybrid.py: documents that only one side returned stay in that side's
\* order, whatever levels the calibrator flattens their scores to.
MergeKeepsOrder ==
    Trying("merge") => KeepsEachSidesOrder(trial.old, trial.new, trial.k, trial.calibrator)

\* serve/hybrid.py: exchanging two sides that share no document changes nothing.
MergeFavoursNoSide ==
    Trying("merge") => FavoursNoSide(trial.old, trial.new, trial.k, trial.calibrator)

\* probe/decision.py: bridging is not recommended where it loses retrieval.
BridgingLosesNothing == Trying("decision") => BridgingIsNoLoss(trial)

\* probe/decision.py: a higher retention is never given a worse recommendation.
RetentionNeverHurts ==
    Trying("decision") => \A arr \in Ratios : MoreIsNeverWorse(trial, arr)

\* probe/decision.py: the recommendation and the arrangement do not contradict.
DecisionsAgree == Trying("decision") => AnswersAgree(trial)

=============================================================================
