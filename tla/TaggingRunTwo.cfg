SPECIFICATION RunSpec
CONSTANTS
    MaxRuns = 3
    MaxReports = 1
    Faulty = {}
INVARIANT AtMostOneWorker
CHECK_DEADLOCK FALSE
