SPECIFICATION FairSpec
CONSTANTS
    None = None
    Partial = Partial
    Versions <- AllVersions
    First <- V1
    Sound <- SoundVersions
    MaxHelpers = 2
    MaxFaults = 1
    MaxCrashes = 0
    Mishaps = {}
PROPERTY
    ServiceReturns
CHECK_DEADLOCK FALSE
