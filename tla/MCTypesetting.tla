----------------------------- MODULE MCTypesetting -----------------------------
(* The language server and the machines of the compiler, one of which is   *)
(* chosen initially.  With the others the one thread of a small job goes   *)
(* first.                                                                  *)
EXTENDS LspServer, Parser, BlockReuse, CrossReferences, LineBreaking, ParallelTypeset, MCCachedPages

CONSTANTS Machines

VARIABLE machine

typesettingVars == <<machine, lspVars, parserVars, hlist, pageVars, reuseVars, referenceVars, CachedVariables, parallelVars>>

MCChanges == {texts \in Texts \X Texts : texts[1] # texts[2]}

MCSpace == [width |-> 6, stretch |-> 3, shrink |-> 2]

(* The state of a machine that was not chosen.                             *)
NoBlocks ==
  /\ blocks = << >>
  /\ cached = [blocks |-> << >>, pages |-> << >>]
  /\ edits = 0 /\ rebuilds = 0

NoReferences ==
  /\ source = << >> /\ seed = Nothing /\ pass = 0 /\ parsed = NewParse(Nothing)
  /\ used = [page |-> 0, index |-> << >>] /\ compiles = 0 /\ revised = FALSE /\ since = 0

SmallPlan ==
  [count |-> 2, parallelism |-> 1, kind |-> "section", openright |-> FALSE,
   size |-> [u \in 1 .. MaxUnits |-> 1], figures |-> [u \in 1 .. MaxUnits |-> 0],
   keys |-> [u \in 1 .. MaxUnits |-> {}], broken |-> {}, rebuild |-> {}, joined |-> {}]

NoThreads ==
  /\ job = SmallPlan /\ document = NotYet /\ phase = "sequential"
  /\ finished = [w \in 1 .. MaxWorkers |-> 0] /\ failed = {} /\ reports = << >>

NoProject ==
  /\ project = << >> /\ kept = Unwritten /\ output = Unwritten
  /\ changes = 0 /\ runs = 0

TypesettingInit ==
  /\ machine \in Machines
  /\ LspInit /\ ParserInit /\ PagesInit /\ LinesInit
  /\ IF machine = "blocks" THEN ReuseInit ELSE NoBlocks
  /\ IF machine = "references" THEN ReferencesInit ELSE NoReferences
  /\ IF machine = "pdf" THEN PdfInit ELSE NoFile
  /\ IF machine = "project" THEN ProjectInit ELSE NoProject
  /\ IF machine = "threads" THEN ParallelInit ELSE NoThreads

Ready == document # NotYet

LspMove ==
  /\ machine = "lsp" /\ Ready
  /\ LspNext
  /\ UNCHANGED <<machine, parserVars, hlist, pageVars, reuseVars, referenceVars, CachedVariables, parallelVars>>

ParserMove ==
  /\ machine = "parser" /\ Ready
  /\ ParserNext
  /\ UNCHANGED <<machine, lspVars, hlist, pageVars, reuseVars, referenceVars, CachedVariables, parallelVars>>

PagesMove ==
  /\ machine = "pages" /\ Ready
  /\ PagesNext
  /\ UNCHANGED <<machine, lspVars, parserVars, hlist, reuseVars, referenceVars, CachedVariables, parallelVars>>

BlocksMove ==
  /\ machine = "blocks" /\ Ready
  /\ ReuseNext
  /\ UNCHANGED <<machine, lspVars, parserVars, hlist, pageVars, referenceVars, CachedVariables, parallelVars>>

ReferencesMove ==
  /\ machine = "references" /\ Ready
  /\ ReferencesNext
  /\ UNCHANGED <<machine, lspVars, parserVars, hlist, pageVars, reuseVars, CachedVariables, parallelVars>>

LinesMove ==
  /\ machine = "lines" /\ Ready
  /\ LinesNext
  /\ UNCHANGED <<machine, lspVars, parserVars, pageVars, reuseVars, referenceVars, CachedVariables, parallelVars>>

PdfMove ==
  /\ machine = "pdf" /\ Ready
  /\ PdfNext
  /\ UNCHANGED <<machine, lspVars, parserVars, hlist, pageVars, reuseVars, referenceVars, cachedVars, parallelVars>>

ProjectMove ==
  /\ machine = "project" /\ Ready
  /\ CachedNext
  /\ UNCHANGED <<machine, lspVars, parserVars, hlist, pageVars, reuseVars, referenceVars, pdfVars, parallelVars>>

ThreadsMove ==
  /\ ParallelNext
  /\ UNCHANGED <<machine, lspVars, parserVars, hlist, pageVars, reuseVars, referenceVars, CachedVariables>>

TypesettingNext ==
  \/ LspMove \/ ParserMove \/ LinesMove \/ PagesMove \/ BlocksMove
  \/ ReferencesMove \/ PdfMove \/ ProjectMove \/ ThreadsMove

TypesettingSpec == TypesettingInit /\ [][TypesettingNext]_typesettingVars /\ WF_parallelVars(ParallelNext)
=============================================================================
