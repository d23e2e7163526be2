SPECIFICATION FairSpec
CONSTANTS
    Salts = {s1, s2}
    None = None
    MayOverwrite = FALSE
    Careful = TRUE
    MayLose = TRUE
    HandSeeds = {"seed"}
    MaxReorgs = 0
INVARIANTS
    NoSecondSystem
PROPERTIES
    LaunchCompletes
CHECK_DEADLOCK TRUE
