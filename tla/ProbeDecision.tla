---------------------------- MODULE ProbeDecision ----------------------------
(***************************************************************************)
(* probe/decision.py: from the measurements of a probe to a recommendation *)
(* and an arrangement.  Ratios are in thousandths, a product of two of     *)
(* them in millionths, and Unknown is a measurement that was not made.     *)
(***************************************************************************)
EXTENDS Integers, FiniteSets

Unknown == -1
Known(x) == x # Unknown

BORDERLINE_BAND == 25
UPGRADE_GAIN_FLOOR == 1020
SYNTH_GAIN_ERROR == 220
Bands == {950, 850, 700}

Decisions == {"no_upgrade_needed", "bridge_sufficient", "bridge_and_migrate",
              "caution", "full_reindex"}
Bridging == {"bridge_sufficient", "bridge_and_migrate"}

BandFor(arr) ==
    CASE arr >= 950 -> "bridge_sufficient"
      [] arr >= 850 /\ arr < 950 -> "bridge_and_migrate"
      [] arr >= 700 /\ arr < 850 -> "caution"
      [] arr < 700 -> "full_reindex"

Product(ratio, gain) == IF Known(ratio) /\ Known(gain) THEN ratio * gain ELSE Unknown
Clear(product) == product > 1000 * (1000 + BORDERLINE_BAND)
WithinNoise(product) ==
    product <= 1000 * (1000 + BORDERLINE_BAND) /\ product >= 1000 * (1000 - BORDERLINE_BAND)

Loss(m) == IF Known(m.old) THEN m.old - m.arr ELSE 0

\* _settled_before_the_bands: what outranks the bands.
NoUpgrade(m) == Known(m.gain) /\ m.gain < UPGRADE_GAIN_FLOOR
LosesEver(m) == FALSE
Loses(m) == Loss(m) > BORDERLINE_BAND

\* Where the break-even is clear of its noise, bridging pays whatever the band.
PaysBySwapped(arr) == IF arr >= 950 THEN "bridge_and_migrate" ELSE "bridge_sufficient"
PaysBy(arr) == IF arr >= 950 THEN "bridge_sufficient" ELSE "bridge_and_migrate"
BreakEven(m) == IF m.uninformative THEN Unknown ELSE Product(m.arr, m.gain)

Recommended(m) ==
    IF NoUpgrade(m) THEN "no_upgrade_needed"
    ELSE IF Loses(m) THEN (IF Known(m.gain) THEN "full_reindex" ELSE "no_upgrade_needed")
    ELSE IF Known(BreakEven(m)) /\ Clear(BreakEven(m)) THEN PaysBy(m.arr)
    ELSE BandFor(m.arr)

Apart(a, b) == IF a > b THEN a - b ELSE b - a
Unsettled(m) == m.tier = "t2" /\ Known(m.gain) /\ Apart(m.gain, 1000) <= SYNTH_GAIN_ERROR

\* A recommendation on an estimate that settles nothing is only provisional.
Provisional(m) ==
    \/ ~Known(m.gain) \/ m.uninformative \/ Unsettled(m)
    \/ ~NoUpgrade(m) /\ ~Loses(m) /\ Known(BreakEven(m)) /\ WithinNoise(BreakEven(m))

\* _with_arrangement: the bridge as a recall stage, where that wins, the single
\* stage does not, the store has the text, and the cache has been priced.
AnyWin(product) == product > 1000 * 1000
ClearCascade(product) == Clear(product)
Arrangement(m) ==
    IF /\ ClearCascade(Product(m.cascade, m.gain))
       /\ ~Clear(Product(m.arr, m.gain))
       /\ m.text /\ m.priced
    THEN "cascade" ELSE "single_stage"

Decide(m) == [decision |-> Recommended(m), provisional |-> Provisional(m),
              arrangement |-> Arrangement(m)]

----------------------------------------------------------------------------
(* What decide promises, of one set of measurements. *)

\* No run is told to bridge when bridging retrieves less than keeping the
\* current model by more than the measurement can be wrong.
BridgingIsNoLoss(m) ==
    Decide(m).decision \in Bridging /\ Known(m.old) => m.arr >= m.old - BORDERLINE_BAND

Worth(decision) ==
    CASE decision = "bridge_sufficient" -> 3 [] decision = "bridge_and_migrate" -> 2
      [] decision = "caution" -> 1 [] OTHER -> 0

\* With everything else equal, an adapter that retains more is never given a
\* worse recommendation, though three rules that know nothing of each other
\* make it.
MoreIsNeverWorse(m, arr) ==
    arr >= m.arr =>
        Worth(Decide([m EXCEPT !.arr = arr]).decision) >= Worth(Decide(m).decision)

\* No run is told at once that no upgrade is needed and to deploy the cascade of
\* the new model, as long as a candidate set retains no more than all there is.
AnswersAgree(m) ==
    m.cascade <= 1000 /\ Decide(m).arrangement = "cascade"
        => Decide(m).decision # "no_upgrade_needed"

=============================================================================
