CONSTANTS
    t1 = t1
    t2 = t2
    Threads = {t1, t2}
    CounterMod = 2
    MaxClock = 1
    MaxCalls = 3
SPECIFICATION FairSpec
INVARIANTS
    TypeOK
    StrictlyMonotonic
PROPERTIES
    OrderedAfterStart
    LockFree
