SPECIFICATION TrustingSpec
CONSTANTS
    Procs = {p1, p2, p3, p4}
    NoProc = NoProc
    MaxKills = 0
    MaxRemovals = 1
INVARIANT OneWriter
SYMMETRY Symmetric
CHECK_DEADLOCK FALSE
