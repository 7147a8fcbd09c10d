SPECIFICATION Spec
CONSTANTS
    ka = ka
    kb = kb
    Absent = Absent
    sa = sa
    sb = sb
    p1 = p1
    p2 = p2
INVARIANTS
    TypeOK
    SizeExact
    ScanComplete
    RowsDecode
    ReadsExact
    GlobExact
    OneLive
PROPERTIES
    ImplementsRedisSets
    ImplementsRedisLists
    ImplementsRedisStrings
    CallsExact
VIEW View
SYMMETRY Symmetry
