SPECIFICATION ReplaySpec
CONSTANTS
    RequestIds = {q1, q2}
    Usages <- MCUsages
SYMMETRY Symmetry
CHECK_DEADLOCK FALSE
INVARIANTS
    ReplayedSpend
    ReplayedVerdict
