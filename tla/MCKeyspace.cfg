CONSTANTS
    Keys = {k1, k2}
    Members = {m1, m2}
    Values = {v1}
    Expiries = {0, 1}
    CopyNx = {FALSE}
    MaxNow = 1
    Tags <- MCTags
    Absent = Absent
SPECIFICATION Spec
INVARIANTS
    TypeOK
    OneLiveType
    SizeExact
PROPERTIES
    ImplementsRedisKeys
SYMMETRY MCSymmetry
