SPECIFICATION Spec
CONSTANTS
    Types = {"log", "groups", "hash", "zset", "zpair", "map", "geo", "one", "fed", "ruled"}
    GapBits = 8
    c1 = c1
    c2 = c2
    Absent = Absent
INVARIANTS
    TypeOK
    BoundsExact
    ReadsExact
    DueExact
    PendingExact
    LagCovers
    DownstreamExact
    RulesEnd
PROPERTIES
    ImplementsRedisHashes
    ImplementsRedisZSets
CONSTRAINT Kept
VIEW View
SYMMETRY Symmetry
CHECK_DEADLOCK FALSE
