\* A packed chunk whose gaps are too wide.
SPECIFICATION Spec
CONSTANTS
    Types = {"one"}
    GapBits = 1
    c1 = c1
    c2 = c2
    Absent = Absent
PROPERTIES
    AddedKept
CONSTRAINT Kept
VIEW View
CHECK_DEADLOCK FALSE
