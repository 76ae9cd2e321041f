SPECIFICATION FairSpec
CONSTANTS
    Words = {"tftp", "scp", "url", "badurl", "exit", "show"}
    Enters = {"cr", "lf"}
    BufSize = 3
    MaxKeys = 4
PROPERTIES
    ImplementsLineShell
    SessionEnds
CHECK_DEADLOCK FALSE
