SPECIFICATION Spec
CONSTANTS
    None = None
    Empty = Empty
    Torn = Torn
    Savers = {s1, s2}
    Locked = {s1}
    Data = {d1, d2}
    Inodes = {i1, i2, i3}
    MaxSaves = 4
INVARIANTS
    NeverTruncated
PROPERTY ImplementsAtomicFile
