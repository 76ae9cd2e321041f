SPECIFICATION Spec
CONSTANTS
    p200 = p200
    p201 = p201
    p150 = p150
    s10 = s10
    auto = auto
    away = away
    Pool <- Range3
    Static = {s10}
    Outside = {auto, away}
    AutoIP = auto
    Seed <- SeedFile
    Imports <- Files
    Systems = {"linux", "darwin"}
    MaxOps = 4
    MaxFaults = 1
    MaxHosts = 1
INVARIANTS
    NoAddressConflict
    ListedAreLocal
    OnlyKnownLeaks
PROPERTY RestartKeepsAddresses
CHECK_DEADLOCK FALSE
