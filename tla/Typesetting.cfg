\* The language server, the parser, the line breaker, the page builder, the block checkpoints, the passes,
\* the PDF writer, the pages of an earlier compile and the threads.
SPECIFICATION TypesettingSpec
CONSTANTS
  Machines = {"lsp", "parser", "lines", "pages", "blocks", "references", "pdf", "project", "threads"}
  Uris = {"file:a", "file:b", "untitled:c"}
  FileUris = {"file:a", "file:b"}
  Texts = {t1, t2}
  Changes <- MCChanges
  Closed = Closed
  Nobody = Nobody
  MaxMessages = 4
  Names = {count0}
  Values = {0, 1}
  Default = 0
  MaxGroups = 2
  CaseValues = {0, 1}
  MaxIfs = 3
  MaxBranches = 2
  SkipsUserIfs = FALSE
  Height = 3
  DeferLimit = 2
  BoxHeights = {1, 2}
  FloatHeights = {1, 3}
  Kinds = {"box", "float", "clear", "break", "right"}
  MaxItems = 4
  BlockKinds = {"par", "float", "tail"}
  FloatPlace = {"here", "top"}
  BlockHeights = {1, 2}
  MaxBlocks = 5
  MaxRebuilds = 1
  EditsAtOnce = 1
  PageLines = 2
  MaxLength = 4
  MaxCompiles = 4
  NotYet = NotYet
  Keys = {k}
  MaxUnits = 3
  MaxWorkers = 3
  MaxPages = 2
  MaxFigures = 1
  MaxBroken = 1
  PagesOrKeys = TRUE
  FiguresAnywhere = FALSE
  SectionsShare = FALSE
  LineWidth = 16
  CharWidths = {5, 9, 17}
  Space <- MCSpace
  HyphenPenalty = 50
  LinePenalty = 10
  Tolerance = 200
  MaxBadness = 10000
  MaxHList = 6
  PdfDocuments <- MCPdfDocuments
  Unwritten = Unwritten
  Chapters = 3
  ChapterTexts <- MCContents
  Looks = {1, 2}
  Checkpoints = TRUE
  MaxRuns = 3
  ChangesAtOnce = 2
INVARIANTS
  StateIsCurrent
  EditorAndServerAgree
  AnswersAreOfTheirTime
  ReadsAsScoped
  
  LinesHoldEverything
  BreaksAreBest
  EverythingOnce
  OrderIsKept
  NothingOverlaps
  ClearPageHolds
  SnapshotAgrees
  PipelineAgrees
  
  
  
  PagesInOrder
  ReferencesResolve
  OutlineFollowsLevels
  PagesAreCurrent

  
  
CHECK_DEADLOCK FALSE
