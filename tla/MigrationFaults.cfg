SPECIFICATION Spec
CONSTANTS
    N = 3
    BatchSizes = {2, 3}
    EnqueueChunk = 2
    MaxDepth = 1
    VerifyMinimum = 2
    VerifyShare = 2
    RollbackBatch = 2
    KeepChoices <- Either
    Limits <- NoLimit
    CanRefuse = TRUE
    PartialWrites = TRUE
    DeletePoints <- Anywhere
    NoVector = NoVector
    MaxCrashes = 1
    MaxMutes = 1
    MaxStops = 0
    MaxPauses = 0
    MaxRollbacks = 1
    MaxDeletes = 1
INVARIANT TypeOK
INVARIANT OriginalKept
INVARIANT ShadowInv
PROPERTY KeepsPromise
PROPERTY DoneOnlyIfWritten
