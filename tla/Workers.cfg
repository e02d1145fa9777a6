SPECIFICATION Spec
CONSTANTS
    w1 = w1
    w2 = w2
    e1 = e1
    e2 = e2
    a1 = a1
    x1 = x1
    m2 = m2
    c1 = c1
    d1 = d1
    s2 = s2
    r1 = r1
    r2 = r2
    r3 = r3
    fw1 = fw1
    fw2 = fw2
    p1 = p1
    p2 = p2
    u1 = u1
    b1 = b1
    v1 = v1
    j1 = j1
    j2 = j2
    q1 = q1
    n1 = n1
    n2 = n2
    f1 = f1
    f2 = f2
    NoOne = NoOne
    Nobody = Nobody
    NoChange = NoChange
    First = First
    Workers = {w1, w2}
    Executions = {e1, e2}
    Admins = {a1}
    Home <- MCHome
    MaxParts = 2
    MaxFailures = 1
    MaxCrashes = 1
    Processes = {w1, w2}
    Creators = {c1}
    Editors = {d1}
    Savers = {s2}
    BackupRuns = {x1}
    Manuals = {m2}
    HomeOf <- MCHomeOf
    MaxFiles = 1
    MaxMinutes = 2
    MaxTrouble = 1
    Targets = {r1, r2, r3}
    OnDevice <- MCOnDevice
    AssignedTo <- MCAssignedTo
    DeviceOrder <- MCDeviceOrder
    Changes = {u1}
    MaxEdits = 1
    Bulk = {b1}
    Viewers = {v1}
    ViewedDevice <- MCViewedDevice
    MaxFaults = 1
    PolicyChanges = {u1}
    Evaluations = {j1, j2}
    RuleEditors = {q1}
    MaxMishaps = 1
    Adoms = {n1, n2}
    Refreshers = {f1, f2}
    Starter = f1
    MaxGeneration = 2
    MaxOutages = 1
INVARIANTS
    OkMeansDelivered
    MarkIsOwned
    LockFileComesBack
    SuccessIsKept
    SavedIsKept
    PreviewIsComplete
    SentMeansMailed
PROPERTIES
    AlertedOnce
    
\* The requests, runs and failures are bounded.
CHECK_DEADLOCK FALSE
