SPECIFICATION FairSpec
CONSTANTS
    ip1 = ip1
    ip2 = ip2
    bad = bad
    NoOne = NoOne
    IPs = {ip1, ip2}
    BadIPs = {}
    Services = {https}
    Requests = {r1, r2}
    Auths = {a1}
    SeedAuth = a1
    Seed <- SeedIPs
    Imports <- RepeatingImports
    DiskFaults = FALSE
    ExclusiveAdd = FALSE
    MaxOps = 3
    MaxHandles = 8
    MaxRestarts = 1
INVARIANTS
    StopAtMostOnce
    MapPointsAtDevices
PROPERTY RequestsFinish
