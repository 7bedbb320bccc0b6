CONSTANTS
    s1 = s1
    s2 = s2
    t1 = t1
    t2 = t2
    w1 = w1
    r1 = r1
    Threads = {s1, s2, t1}
    Timed = {}
    Child = child
    NoThread = none
    Kind <- KindOf
    Lanes = {0, 50, 100}
SPECIFICATION GpuFairSpec
PROPERTY JobKeepsGoing
CHECK_DEADLOCK FALSE
