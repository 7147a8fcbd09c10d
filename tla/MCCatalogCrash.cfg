\* One thread removes, commands write, crashes strike anywhere.
SPECIFICATION Spec
CONSTANTS
    Procs = {p1}
    NoProc = NoProc
    NsTop = 1
    DbTop = 1
    Calls = {"nsrm", "dbrm", "flushdb", "write"}
    MaxCalls = 5
INVARIANTS
    HeaderHasRows
