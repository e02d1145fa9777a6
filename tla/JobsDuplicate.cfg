SPECIFICATION Spec
CONSTANTS
    w1 = w1
    w2 = w2
    t1 = t1
    t2 = t2
    j1 = j1
    j2 = j2
    Workers = {w1, w2}
    Threads = {t1, t2}
    Home <- TwoWorkers
    Jobs = {j1}
    Times = {s1}
    Runs = {0, 1, 2, 3, 4}
    NoJob = NoJob
    None = None
    NoTime = NoTime
    InPlace = FALSE
    RetentionDays = {30}
    MaxTriggers <- TwoTriggers
    MaxRequests = 2
    MaxFaults = 0
INVARIANT
    NoDuplicateExecution
\* The requests and triggers are bounded: the system stops when all are spent.
CHECK_DEADLOCK FALSE
