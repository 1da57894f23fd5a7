----------------------------- MODULE RunControl -----------------------------
(***************************************************************************)
(* What stops, slows and retries a run: migrate/signals.py (the first      *)
(* SIGTERM or SIGINT asks the run to stop, the second one of the kind ends *)
(* the process), migrate/power.py (the battery, and a batch that shrinks   *)
(* with memory) and observability/retry.py, around the loop of             *)
(* MigrationEngine.run.                                                    *)
(***************************************************************************)
EXTENDS Integers, FiniteSets

CONSTANTS
    Load,            \* batches in the queue
    InitialBatch,    \* --batch, or 0 for the suggestion
    MinBatch, SuggestedBatch,
    MaxSignals, MaxInvocations   \* bounds

ASSUME RunControlAssumption ==
    /\ Load \in Nat /\ InitialBatch \in Nat /\ MinBatch \in Nat \ {0}
    /\ SuggestedBatch \in Nat /\ SuggestedBatch >= MinBatch
    /\ MaxSignals \in Nat /\ MaxInvocations \in Nat

MAX_ATTEMPTS == 3
Signals == {"SIGTERM", "SIGINT"}

VARIABLES
    control,     \* where the process is
    handler,     \* signal -> "previous", "ours" or "default"
    stop,        \* the flag, with the name of the signal that set it
    attempt,     \* attempts at the write of this batch
    batchSize,   \* ResourceMonitor.batch_size
    batchesLeft, \* batches in the queue
    received,    \* ghost: signals caught or fatal in this run, by kind
    begun,       \* ghost: batches begun since the stop flag was set
    invocations, signals  \* ghost: for the bounds

controlVars == <<control, handler, stop, attempt, batchSize, batchesLeft, received, begun,
                 invocations, signals>>

NoStop == "none"
PreviousHandlers == [s \in Signals |-> "previous"]
FirstBatch == IF InitialBatch # 0 THEN InitialBatch ELSE SuggestedBatch

ControlInit ==
    /\ control = "outside" /\ handler = PreviousHandlers /\ stop = NoStop /\ attempt = 0
    /\ batchSize = FirstBatch /\ batchesLeft = Load
    /\ received = [s \in Signals |-> 0] /\ begun = 0
    /\ invocations = 0 /\ signals = 0

Goto(where) == control' = where

----------------------------------------------------------------------------
(* stop_on_terminate *)

Enter ==
    /\ control = "outside" /\ invocations < MaxInvocations
    /\ invocations' = invocations + 1
    /\ stop' = NoStop /\ handler' = [s \in Signals |-> "ours"]
    /\ batchSize' = FirstBatch
    /\ received' = [s \in Signals |-> 0] /\ begun' = 0
    /\ Goto("check") /\ UNCHANGED <<attempt, batchesLeft, signals>>

\* The handler: the default first, the flag second.
CaughtAgain(s) == handler
Caught(s) == [handler EXCEPT ![s] = "default"]

Receive(s) ==
    /\ control \notin {"outside", "killed"} /\ signals < MaxSignals
    /\ signals' = signals + 1
    /\ received' = [received EXCEPT ![s] = @ + 1]
    /\ IF handler[s] = "ours"
       THEN /\ stop' = s /\ handler' = Caught(s) /\ UNCHANGED control
       ELSE /\ Goto("killed") /\ UNCHANGED <<stop, handler>>
    /\ UNCHANGED <<attempt, batchSize, batchesLeft, begun, invocations>>

\* The finally clause, however the run ended.
LeaveRun ==
    /\ control \in {"finished", "raised"}
    /\ handler' = PreviousHandlers /\ stop' = NoStop
    /\ Goto("outside")
    /\ UNCHANGED <<attempt, batchSize, batchesLeft, received, begun, invocations, signals>>

\* Another process carries on after a killed one.
Relaunch ==
    /\ control = "killed"
    /\ handler' = PreviousHandlers /\ stop' = NoStop
    /\ Goto("outside")
    /\ UNCHANGED <<attempt, batchSize, batchesLeft, received, begun, invocations, signals>>

----------------------------------------------------------------------------
(* The loop of MigrationEngine.run *)

\* _reason_to_stop: a signal, before anything else that may ask for a stop.
PauseOnly == {TRUE, FALSE}
StopsFor == IF stop # NoStop THEN {TRUE} ELSE {TRUE, FALSE}

Check ==
    /\ control = "check"
    /\ \E stops \in StopsFor : Goto(IF stops THEN "finished" ELSE "fetch")
    /\ UNCHANGED <<handler, stop, attempt, batchSize, batchesLeft, received, begun, invocations, signals>>

Fetch ==
    /\ control = "fetch"
    /\ IF batchesLeft = 0
       THEN Goto("finished") /\ UNCHANGED <<attempt, begun>>
       ELSE /\ Goto("write") /\ attempt' = 1
            /\ begun' = IF stop # NoStop THEN begun + 1 ELSE begun
    /\ UNCHANGED <<handler, stop, batchSize, batchesLeft, received, invocations, signals>>

\* retry_transient: again while the error declares itself transient.
Retries(transient) == transient /\ attempt < MAX_ATTEMPTS

WriteLands ==
    /\ control = "write"
    /\ batchesLeft' = batchesLeft - 1 /\ Goto("pressure")
    /\ UNCHANGED <<handler, stop, attempt, batchSize, received, begun, invocations, signals>>

\* A refusal is retried and then recorded as failed items; another error is raised.
WriteFails(transient) ==
    /\ control = "write"
    /\ IF Retries(transient) THEN attempt' = attempt + 1 /\ UNCHANGED <<control, batchesLeft>>
       ELSE IF transient THEN batchesLeft' = batchesLeft - 1 /\ Goto("pressure") /\ UNCHANGED attempt
       ELSE Goto("raised") /\ UNCHANGED <<attempt, batchesLeft>>
    /\ UNCHANGED <<handler, stop, batchSize, received, begun, invocations, signals>>

\* ResourceMonitor.check, of memory that is low, near its ceiling, or at it.
Halved(size) == IF size \div 2 < MinBatch THEN MinBatch ELSE size \div 2
Pressure(memory) ==
    /\ control = "pressure"
    /\ Goto(IF memory = "full" THEN "finished" ELSE "check")
    /\ batchSize' = IF memory = "near" /\ batchSize > MinBatch THEN Halved(batchSize)
                    ELSE batchSize
    /\ UNCHANGED <<handler, stop, attempt, batchesLeft, received, begun, invocations, signals>>

ControlNext ==
    \/ Enter \/ LeaveRun \/ Relaunch \/ Check \/ Fetch \/ WriteLands
    \/ \E s \in Signals : Receive(s)
    \/ \E transient \in BOOLEAN : WriteFails(transient)
    \/ \E memory \in {"low", "near", "full"} : Pressure(memory)

ControlSpec == ControlInit /\ [][ControlNext]_controlVars

----------------------------------------------------------------------------
(* Properties *)

\* A second signal of a kind ends the process at once, also in the middle of a
\* batch, of its retries, or of the way out: a graceful stop cannot hang.
SecondSignalEnds ==
    \A s \in Signals : received[s] > 1 /\ control # "outside" => control = "killed"

\* Wherever a signal falls, a run that was asked to stop begins at most the batch
\* it had already decided on, whose write is tried no more than its attempts; and
\* memory that stays short never takes a batch below the least one.
StopsWithinABatch ==
    /\ begun <= 1
    /\ attempt <= MAX_ATTEMPTS
    /\ batchSize \in (IF FirstBatch < MinBatch THEN FirstBatch ELSE MinBatch)..FirstBatch

=============================================================================
