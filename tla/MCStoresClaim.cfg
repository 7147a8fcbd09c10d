\* A consumer that takes two entries of another at once.
SPECIFICATION Spec
CONSTANTS
    Types = {"groups"}
    GapBits = 8
    c1 = c1
    c2 = c2
    Absent = Absent
INVARIANTS
    ClaimsCounted
CONSTRAINT Kept
VIEW View
CHECK_DEADLOCK FALSE
