\* The two services of a preview, edits that may undo earlier ones, no restart.
SPECIFICATION Spec
CONSTANTS
    main = main
    chap = chap
    sec = sec
    None = None
    Torn = Torn
    Index = Index
    Files <- MCFiles
    Root = main
    Contents = {1, 2}
    BadContents = {2}
    Inputs <- MCInputs
    Services = {1, 2}
    AllowRevert = TRUE
    AllowCrash = FALSE
    AllowFault = TRUE
    AllowEvict = TRUE
    MaxEdits = 3
    MaxCompiles = 3
    MaxRestarts = 0
INVARIANTS OutputIsCurrent WarmMatchesGraph 
CHECK_DEADLOCK FALSE
