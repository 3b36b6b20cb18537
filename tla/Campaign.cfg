SPECIFICATION Spec
CONSTANTS
    Fixtures <- MCFixtures
    Rounds = 2
    Campaigns = {c1}
    Auditors = {x1}
    MaxChanges = 1
CHECK_DEADLOCK FALSE
INVARIANTS
    DispatchedOnce
    ReportsAgree

PROPERTIES
    PassJustified
