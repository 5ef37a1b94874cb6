\* What an edit leaves behind for the next incremental compile.
SPECIFICATION ReferencesSpec
CONSTANTS
  PageLines = 2
  MaxLength = 4
  MaxCompiles = 2
INVARIANTS
  IncrementalIsRight
CHECK_DEADLOCK FALSE
