SPECIFICATION Spec
CONSTANTS
    Publishers = {p1, p2}
    d1 = d1
    d2 = d2
    Digests = {d1, d2}
    Shards = {"0a", "0b"}
    Shard <- MCShard
SYMMETRY Symmetry
INVARIANTS
    ReferenceDurable
    ContenderPreserved
PROPERTY
    NeverReplaced
