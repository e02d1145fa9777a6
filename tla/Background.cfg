SPECIFICATION Spec
CONSTANTS
    Threads = {startup, t1, t2}
    Startup = startup
    MaxRuns = 3
    MaxChanges = 1
    MaxLosses = 2
    n1 = n1
    n2 = n2
    f1 = f1
    f2 = f2
    Adoms = {n1, n2}
    Refreshers = {f1, f2}
    Starter = f1
    MaxGeneration = 1
    MaxOutages = 2
    w1 = w1
    w2 = w2
    e1 = e1
    e2 = e2
    a1 = a1
    NoOne = NoOne
    Workers = {w1, w2}
    Executions = {e1, e2}
    Admins = {a1}
    Home <- MCHomeTogether
    MaxParts = 2
    MaxFailures = 1
    MaxCrashes = 0
    Procs = {p1, p2}
    Texts = {a, b}
    Inodes = {i1, i2, i3, i4, i5}
    Hole = Hole
    NoFile = NoFile
    MaxCalls = 2
    MaxFaults = 2
INVARIANTS
    SerialReadersSeeWholeFiles
    AcknowledgedWriteStands
    MarkHasOwner
    OverlapNeedsRace
    StatusIsLive
    HistoryMatchesStore
PROPERTIES
    TotalsNeverGoBack
    EveryoneEnds
    RunningEnds
    ExecutionsEnd
    WriteReturns
\* The runs and failures are bounded, and a start-up retry of the summary stops
\* its threads for good.
CHECK_DEADLOCK FALSE
