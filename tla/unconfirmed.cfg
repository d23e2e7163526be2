SPECIFICATION Spec
CONSTANTS
    Salts = {s1, s2}
    None = None
    MayOverwrite = FALSE
    Careful = TRUE
    MayLose = FALSE
    HandSeeds = {"seed"}
    MaxReorgs = 0
SYMMETRY Symmetry
INVARIANTS
    FreshWasConfirmed
CHECK_DEADLOCK TRUE
