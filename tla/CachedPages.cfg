\* Which pages of an earlier compile are written again as they were.
SPECIFICATION CachedPagesSpec
CONSTANTS
  PdfDocuments = {}
  Unwritten = Unwritten
  Chapters = 3
  ChapterTexts <- TwoLengths
  Looks = {1}
  Checkpoints = TRUE
  MaxRuns = 3
  ChangesAtOnce = 2
INVARIANTS
  PdfIsFresh
CHECK_DEADLOCK FALSE
