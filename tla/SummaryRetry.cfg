SPECIFICATION SummarySpec
CONSTANTS
    Threads = {startup, t1}
    Startup = startup
    MaxRuns = 1
    MaxChanges = 0
    MaxLosses = 1
PROPERTY
    StartupEnds
\* The runs are bounded, and a start-up retry stops the threads for good.
CHECK_DEADLOCK FALSE
