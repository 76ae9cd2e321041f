SPECIFICATION TftpFairSpec
CONSTANTS
    None = None
    Callers = {s1, s2}
    ListenMayFail = TRUE
    MaxCalls = 4
    MaxTransfers = 1
INVARIANTS
    EntryIsAlive
PROPERTIES
    EnsureReturns
    ServersStop
CHECK_DEADLOCK FALSE
