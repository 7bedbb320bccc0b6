SPECIFICATION FairSpec
CONSTANTS
    a = a
    b = b
    Folders <- McFolders
    MaxRuns = 3
INVARIANTS
    AtMostOneScanner
PROPERTIES
    RemovedRootStaysRemoved
    ManualResultSurvives
    ImplementsGate
    ScanEnds
CHECK_DEADLOCK FALSE
