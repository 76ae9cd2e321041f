SPECIFICATION Spec
CONSTANTS
    ip1 = ip1
    ip2 = ip2
    bad = bad
    NoOne = NoOne
    IPs = {ip1, ip2, bad}
    BadIPs = {bad}
    Services = {https}
    Requests = {r1, r2}
    Auths = {a1, a2}
    SeedAuth = a1
    Seed <- SeedIPs
    Imports <- FailingImports
    DiskFaults = TRUE
    ExclusiveAdd = TRUE
    MaxOps = 3
    MaxHandles = 10
    MaxRestarts = 3
SYMMETRY Alike
INVARIANTS
    IdleConsistent
    RestartRestores
