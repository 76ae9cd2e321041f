SPECIFICATION PanelSpec
CONSTANTS
    Producers = {restconf, ssh}
    HttpProducers = {restconf}
    Channels = {c1, c2}
    MaxSize = 1
    ChanCap = 1
    MaxAdds = 2
    PanelSize = 1
    NoChannel = NoChannel
INVARIANTS
    RingHoldsNewest
    StreamKeepsProducerOrder
    RegistrationMatchesStream
    LossOnlyByOverflow
    StreamedOnceInOrder
    NewEntriesAppear
PROPERTY AddNeverBlocks
CHECK_DEADLOCK FALSE
