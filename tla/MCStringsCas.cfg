\* Two threads on one key, no clock.
SPECIFICATION RaceSpec
CONSTANTS
    ka = ka
    kb = kb
    sa = sa
    sb = sb
    p1 = p1
    p2 = p2
    Absent = Absent
PROPERTIES
    CasAtomic
