SPECIFICATION FairSpec
CONSTANTS
    g1 = g1
    s1 = s1
    s2 = s2
    v1 = v1
    gallery = gallery
    smart = smart
    vlm = vlm
    None = None
    Jobs <- McJobs
    Kinds <- McKinds
    Gallery = gallery
    Caption = vlm
    Smart = smart
    KindOf <- McKindOf
    PrintOf <- McPrintOf
    MaxCrashes = 1
    MaxCancels = 1
INVARIANTS
    TypeOK
    AtMostOneJob
    PromisedIsOnFile
    AnsweredStaysDown
PROPERTIES
    ImplementsGate
    QueueDrains
CHECK_DEADLOCK FALSE
