\* The claim that a change one cycle misses is seen by the next poll.
SPECIFICATION WatchSpec
CONSTANTS
    main = main
    chap1 = chap1
    chap2 = chap2
    Absent = Absent
    Files <- MCFiles
    Root = main
    Includes <- MCIncludes
    SettleTicks = 2
    MaxSaves = 2
INVARIANTS MissedChangeIsPolled
CHECK_DEADLOCK FALSE
