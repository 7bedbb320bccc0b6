SPECIFICATION ModesSpec
CONSTANTS
    a = a
    b = b
    c = c
    d = d
    s1 = s1
    Images = {a, b}
    Lists <- TwoPictures
    Effects = {"move", "collect"}
    Starters = {s1}
    Failures = {}
    Clears = FALSE
    MaxCrashes = 1
    MaxUnsaved = 1
    BenchImages = {a, b, c, d}
    BenchLists <- FourOrOne
    Modes = {"bracket", "cull"}
    Answers <- BenchAnswers
    MaxEntries = 3
    MaxDamages = 2
    MaxBenchCrashes = 1
    None = None
    NoBench = noBench
INVARIANTS EffectsAreRecorded ChampionIsUnbeaten NobodyIsPassedOver
PROPERTIES ImplementsUndoLog RestartKeepsDecisions
CHECK_DEADLOCK FALSE
