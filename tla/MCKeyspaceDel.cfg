CONSTANTS
    Keys = {k1}
    Members = {m1}
    Values = {v1}
    Expiries = {0, 1}
    CopyNx = {FALSE}
    MaxNow = 1
    Tags <- MCTags
    Absent = Absent
SPECIFICATION Spec
PROPERTIES
    DelRemoves
