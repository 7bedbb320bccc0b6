SPECIFICATION Spec
CONSTANTS
    a = a
    b = b
    s = s
    u1 = u1
    u2 = u2
    Images = {a, b}
    Sort = s
    Undos = {u1}
    Outside = {"move", "remove", "home", "dest"}
    Resets = TRUE
    MaxCrashes = 1
    None = None
CHECK_DEADLOCK FALSE
SYMMETRY Alike
INVARIANTS MovedFilesCanBeUndone LibraryFindsItsFiles ForeignFilesStay
