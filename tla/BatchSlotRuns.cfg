SPECIFICATION Spec
CONSTANTS
    s1 = s1
    s2 = s2
    u1 = u1
    u2 = u2
    Sorts = {s1, s2}
    Undos = {u1}
    MaxFiles = 2
    Resets = TRUE
    None = None
CHECK_DEADLOCK FALSE
INVARIANTS BusySlotHasItsWorker AbandonedSortStops
PROPERTIES BusySlotIsFreed ReportsAreNotOverwritten
