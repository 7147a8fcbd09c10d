SPECIFICATION Spec
CONSTANTS
    Types = {"bitmap", "bitops", "bloom", "cuckoo", "crowd", "keyed", "value", "docs", "twodocs",
             "manager", "texts", "vectors", "digest", "digests"}
    Absent = Absent
INVARIANTS
    TypeOK
    ReadsExact
    NoFalseNegatives
    SizeExact
    SearchExact
PROPERTIES
    ImplementsRedisValues
CONSTRAINT Kept
VIEW View
CHECK_DEADLOCK FALSE
