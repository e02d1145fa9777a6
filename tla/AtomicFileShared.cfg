SPECIFICATION AtomicSpec
CONSTANTS
    Procs = {p1, p2}
    Texts = {a, b}
    Inodes = {i1, i2, i3, i4, i5}
    Hole = Hole
    NoFile = NoFile
    MaxCalls = 2
    MaxFaults = 0
INVARIANT
    ReadersSeeWholeFiles
