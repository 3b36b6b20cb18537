SPECIFICATION FairSpec
CONSTANTS
    f1 = f1
    f2 = f2
    f3 = f3
    Files = {f1, f2, f3}
    Unsupported = {f3}
    MaxLedger = 1
    MaxFaults = 2
    MaxLosses = 1
    None = None
INVARIANTS
    ReachableNeverMoved
    FenceCoversMoves
    RecordsBacked
    Resumable
PROPERTIES
    OutcomeTruthful
    FenceRemoved
