\* The watch loop and the gateway of external commands.
SPECIFICATION FrontEndSpec
CONSTANTS
  Parts = {"watch", "gateway"}
  main = main
  chap1 = chap1
  chap2 = chap2
  Absent = Absent
  Files <- MCFiles
  Root = main
  Includes <- MCIncludes
  SettleTicks = 2
  MaxSaves = 4
  Callers = {c1, c2}
  MaxProcesses = 1
  MaxBytes = 2
  PipeSize = 2
  MaxWritten = 3
  MaxCalls = 1
  Forks = FALSE
INVARIANTS
  StaleIsNoticed
  ProcessesWithinLimit
  CapturedWithinLimit
PROPERTIES
  SettledStart
  PendingIsCompiled
  ShutdownStops
  EveryCallReturns
CHECK_DEADLOCK FALSE
