SPECIFICATION FairSpec
CONSTANTS
    Procs = {p1, p2, p3}
    Handles = {h1, h2}
    MaxInodes = 2
INVARIANTS
    VerifiedExclusion
    FenceRespected
    RegistryBacked
    NoLeakedLock
PROPERTY
    DeadHolderReleases
