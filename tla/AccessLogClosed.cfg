SPECIFICATION Spec
CONSTANTS
    Producers = {restconf, ssh}
    HttpProducers = {restconf}
    Channels = {c1, c2}
    MaxSize = 2
    ChanCap = 1
    MaxAdds = 3
INVARIANT NoSendOnClosed
CHECK_DEADLOCK FALSE
