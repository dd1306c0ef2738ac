SPECIFICATION FairSpec
CONSTANTS
    j1 = j1
    j2 = j2
    p1 = p1
    NoJob = NoJob
    NoTime = NoTime
    Process = {p1}
    Job = {j1, j2}
    MaxTime = 2
    MaxCrashes = 1
INVARIANTS
    TypeOK
    RunningShown
    
PROPERTY
    DueRuns
CHECK_DEADLOCK FALSE
