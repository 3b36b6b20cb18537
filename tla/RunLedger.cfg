SPECIFICATION LedgerSpec
CONSTANTS
    RunIds = {r1, r2}
    Usages <- MCUsages
    Caps <- MCCaps
SYMMETRY Symmetry
CHECK_DEADLOCK FALSE
INVARIANTS
    VerdictHasEvidence
    TerminalSettled
    SpendAccounted
    BudgetRespected
PROPERTY
    LedgerMonotone
