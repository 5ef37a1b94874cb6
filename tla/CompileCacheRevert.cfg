\* A change that is undone before the writer has stored it.
SPECIFICATION Spec
CONSTANTS
    main = main
    chap = chap
    sec = sec
    None = None
    Torn = Torn
    Index = Index
    Files <- MCTwoFiles
    Root = main
    Contents = {1, 2}
    BadContents = {}
    Inputs <- MCTwoInputs
    Services = {1}
    AllowRevert = TRUE
    AllowCrash = FALSE
    AllowFault = FALSE
    AllowEvict = FALSE
    MaxEdits = 3
    MaxCompiles = 5
    MaxRestarts = 1
INVARIANTS OutputIsCurrent
CHECK_DEADLOCK FALSE
