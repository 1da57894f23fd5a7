SPECIFICATION AttendedSpec
CONSTANTS
    N = 3
    BatchSizes = {2, 3}
    EnqueueChunk = 2
    MaxDepth = 1
    VerifyMinimum = 2
    VerifyShare = 2
    RollbackBatch = 2
    KeepChoices <- AlwaysKeep
    Limits <- LimitOrNone
    CanRefuse = TRUE
    PartialWrites = TRUE
    DeletePoints <- BetweenBatches
    NoVector = NoVector
    MaxCrashes = 0
    MaxMutes = 0
    MaxStops = 1
    MaxPauses = 1
    MaxRollbacks = 2
    MaxDeletes = 1
INVARIANT NeverMappedTwice
INVARIANT RolledBackRestores
INVARIANT CompletedLeavesNothing
PROPERTY CommandEnds
PROPERTY ResumedQueueEmpties
