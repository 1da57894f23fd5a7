SPECIFICATION FaissSpec
CONSTANTS
    Vectors = 3
    MaxUpserts = 3
    MaxStoreKills = 2
INVARIANT SidecarIsNotMisread
CHECK_DEADLOCK FALSE
