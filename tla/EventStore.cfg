SPECIFICATION StoreSpec
CONSTANTS
    RunIds = {r1}
    RequestIds = {q1, q2}
    Usages <- MCUsages
    Caps <- MCCaps
    Times = {0, 1}
SYMMETRY Symmetry
CHECK_DEADLOCK FALSE
INVARIANTS
    RecoveryNeverStuck
    LegalNeverRefused
PROPERTY
    ImplementsLedger
