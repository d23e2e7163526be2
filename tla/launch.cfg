SPECIFICATION Spec
CONSTANTS
    Salts = {s1, s2}
    None = None
    MayOverwrite = TRUE
    Careful = FALSE
    MayLose = TRUE
    HandSeeds = {"seed", "badseed"}
    MaxReorgs = 1
SYMMETRY Symmetry
INVARIANTS
    SealedIsLive
    OpenOnlyWhenSealed
    SaidIsTrue
CHECK_DEADLOCK TRUE
