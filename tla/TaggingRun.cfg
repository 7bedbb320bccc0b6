SPECIFICATION RunFairSpec
CONSTANTS
    MaxRuns = 3
    MaxReports = 1
    Faulty = {1}
INVARIANTS
    LiveWorkerIsHeld
PROPERTIES
    StoppedStaysStopped
    RunEnds
CHECK_DEADLOCK FALSE
