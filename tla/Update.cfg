SPECIFICATION Spec
CONSTANTS
    None = None
    Partial = Partial
    Versions <- AllVersions
    First <- V1
    Sound <- SoundVersions
    MaxHelpers = 2
    MaxFaults = 1
    MaxCrashes = 1
    Mishaps = {"misread", "unstopped"}
PROPERTY ResultTruthful
INVARIANTS
    NeverDowngrades
    InstalledVerified
    OriginalKept
    SwapOnlyWhenStopped
CHECK_DEADLOCK FALSE
