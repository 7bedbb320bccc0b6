SPECIFICATION FairSpec
CONSTANTS
    delete = delete
    scan = scan
    package = package
    export = export
    mask = mask
    JobIds <- AllJobs
    Kinds <- MCKinds
    SingleFlight <- MCSingleFlight
    KindOf <- MCKindOf
    ProtocolOf <- MCProtocolOf
    NChunks = 2
    MaxRetained = 1
CONSTRAINT Together
CHECK_DEADLOCK FALSE
INVARIANTS
    WorkerOwnsItsJob
    OneWorkerPerSingleFlightKind
    CancelReplyIsKept
PROPERTIES
    ImplementsContract
    EveryJobSettles
