SPECIFICATION Spec
CONSTANTS
    f1 = f1
    f2 = f2
    f3 = f3
    Files = {f1, f2, f3}
    Unsupported = {f3}
    MaxLedger = 1
    MaxFaults = 2
    MaxLosses = 0
    None = None
SYMMETRY Symmetry
INVARIANT
    FenceDurable
