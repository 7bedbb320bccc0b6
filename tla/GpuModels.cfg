CONSTANTS
    s1 = s1
    s2 = s2
    t1 = t1
    t2 = t2
    w1 = w1
    r1 = r1
    Threads = {s1, s2, t1, w1, r1}
    Timed = {w1}
    Child = child
    NoThread = none
    Kind <- KindOf
    Lanes = {50, 100}
SPECIFICATION GpuFairSpec
INVARIANTS
    LeaseIsExclusive
    ForwardFindsItsModel
PROPERTY BusyEnds
\* Two threads may stand off for ever: see JobKeepsGoing.
CHECK_DEADLOCK FALSE
