SPECIFICATION AuditSpec
CONSTANTS
    Auditors = {a1, a2}
    MaxSeq = 4
    MaxClock = 2
    MaxDamages = 0
INVARIANT PrunedTrailVerifies
