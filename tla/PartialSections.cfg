\* Sections that share a page, some of which are rebuilt alone.
SPECIFICATION ParallelSpec
CONSTANTS
  NotYet = NotYet
  Keys = {k}
  MaxUnits = 3
  MaxWorkers = 2
  MaxPages = 2
  MaxFigures = 1
  MaxBroken = 1
  PagesOrKeys = TRUE
  FiguresAnywhere = FALSE
  SectionsShare = TRUE
PROPERTY
  ImplementsSequential
CHECK_DEADLOCK FALSE
