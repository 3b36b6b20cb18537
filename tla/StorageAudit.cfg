SPECIFICATION Spec
CONSTANTS
    Digests <- MCDigests
    Children <- MCChildren
    Defect <- MCDefect
    Bindings <- MCBindings
    HashBudget = 3
    NodeLimit = 2
    EntryLimit = 2
    MaxInodes = 4
    MaxDamage = 1
INVARIANTS
    AuditSound
    IntactNotBlamed
    ExactWhenAlone
