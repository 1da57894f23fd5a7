SPECIFICATION Spec
CONSTANTS
    Procs = {p1, p2, p3, p4}
    NoProc = NoProc
    MaxKills = 0
    MaxRemovals = 0
INVARIANT NothingLeftToProtect
SYMMETRY Symmetric
CHECK_DEADLOCK FALSE
