SPECIFICATION Spec
CONSTANTS
    N = 3
    BatchSizes = {2}
    EnqueueChunk = 2
    MaxDepth = 1
    VerifyMinimum = 2
    VerifyShare = 2
    RollbackBatch = 2
    KeepChoices <- AlwaysKeep
    Limits <- NoLimit
    CanRefuse = TRUE
    PartialWrites = FALSE
    DeletePoints <- BetweenBatches
    NoVector = NoVector
    MaxCrashes = 0
    MaxMutes = 0
    MaxStops = 0
    MaxPauses = 0
    MaxRollbacks = 0
    MaxDeletes = 0
INVARIANT MixedIsReported
