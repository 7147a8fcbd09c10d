\* Two threads open, allocate, write and remove; crashes lose the journal's tail.
SPECIFICATION Spec
CONSTANTS
    Procs = {p1, p2}
    NoProc = NoProc
    NsTop = 2
    DbTop = 1
    Calls = {"ns", "open", "db", "dbrm", "flushdb", "nsrm", "rm", "write"}
    MaxCalls = 3
INVARIANTS
    TypeOK
    OpenedListed
PROPERTIES
    FreshIds
    RmClears
