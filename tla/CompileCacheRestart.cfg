\* Processes that end, cleanly or not, and edits that only move forward.
SPECIFICATION Spec
CONSTANTS
    main = main
    chap = chap
    sec = sec
    None = None
    Torn = Torn
    Index = Index
    Files <- MCFiles
    Root = main
    Contents = {1, 2, 3}
    BadContents = {}
    Inputs <- MCInputs
    Services = {1}
    AllowRevert = FALSE
    AllowCrash = TRUE
    AllowFault = TRUE
    AllowEvict = TRUE
    MaxEdits = 2
    MaxCompiles = 3
    MaxRestarts = 1
INVARIANTS OutputIsCurrent 
CHECK_DEADLOCK FALSE
