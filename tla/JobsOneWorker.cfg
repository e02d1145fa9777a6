SPECIFICATION Spec
CONSTANTS
    w1 = w1
    w2 = w2
    t1 = t1
    t2 = t2
    j1 = j1
    j2 = j2
    Workers = {w1}
    Threads = {t1, t2}
    Home <- OneWorker
    Jobs = {j1, j2}
    Times = {s1}
    Runs = {0, 1, 2}
    NoJob = NoJob
    None = None
    NoTime = NoTime
    InPlace = FALSE
    RetentionDays = {0, 30}
    MaxTriggers <- TwoTriggers
    MaxRequests = 3
    MaxFaults = 1
INVARIANTS
    TypeOK
    NoDuplicateExecution
    RunningReported
    DeliveryRecorded
PROPERTIES
    RefinesJobStore
    RunsFinish
\* The requests and triggers are bounded: the system stops when all are spent.
CHECK_DEADLOCK FALSE
