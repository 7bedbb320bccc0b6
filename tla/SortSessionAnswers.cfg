SPECIFICATION Spec
CONSTANTS
    a = a
    b = b
    c = c
    s1 = s1
    Images = {a, b}
    Lists <- TwoPictures
    Effects = {"move"}
    Starters = {s1}
    Failures = {"vanish", "return", "delete"}
    Clears = TRUE
    MaxCrashes = 1
    MaxUnsaved = 0
    None = None
INVARIANTS DecidedOnceBehindCursor
PROPERTIES GetAnswers
