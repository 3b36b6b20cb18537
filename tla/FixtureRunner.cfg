SPECIFICATION FairSpec
CONSTANTS
    RunIds = {r1}
    Runners = {a1, a2}
    Operators = {o1}
    Usages <- MCUsages
    Caps <- MCCaps
    Evidence <- MCEvidence
    Losable = {"task_spec", "patch"}
CHECK_DEADLOCK FALSE
INVARIANTS
    DispatchOnce
    SpendCovered
    ResultIsCommitted
    RecoversOwnRun
PROPERTIES
    NoBlindRecovery
    RunsSettle
