------------------------------ MODULE CachedPages ------------------------------
(***************************************************************************)
(* The incremental compile of a document whose chapters are files of their *)
(* own (compile_job_service.rs, compile_with_changed_paths): which         *)
(* chapters are typeset again, which come from the cache, and which pages  *)
(* of the PDF are not even rendered again.                                 *)
(*                                                                         *)
(* Every chapter begins on a new page and nothing comes before the first   *)
(* one; no chapter refers to another one, so one pass is enough; one       *)
(* thread; the cache is the one in memory.  A change of a chapter changes  *)
(* its number of blocks, so that all of it is typeset again (BlockReuse    *)
(* has the rebuild from a checkpoint).                                     *)
(***************************************************************************)
EXTENDS PdfWriter

CONSTANTS
  Chapters,       \* how many there are
  ChapterTexts,       \* what a chapter may hold: [title, text, pages, role, symbol, images]
  Looks,          \* what the preamble may say about the look of a page
  Checkpoints,    \* whether the fragments in the cache have block checkpoints
  MaxRuns,        \* BOUND on the compiles
  ChangesAtOnce   \* BOUND on the changes of files between two compiles

VARIABLES
  project,    \* the files: [look, chapters]; file 0 is the main one
  kept,       \* the record of the last compile
  output,     \* its PDF
  changes,    \* changes of files since then
  runs        \* compiles so far

cachedVars == <<project, kept, output, changes, runs>>

Parts == 1 .. Chapters
PartId(u) == <<u, project.chapters[u].title>>

-----------------------------------------------------------------------------
(* Typesetting.  A page gets its number when the document is put together. *)

ChapterPages(u) ==
  LET chapter == project.chapters[u]
  IN [k \in 1 .. chapter.pages |->
        [text |-> <<u, chapter.text, k>>, number |-> 0, look |-> project.look,
         role |-> chapter.role, symbol |-> chapter.symbol, links |-> 0, states |-> {},
         images |-> chapter.images, forms |-> {}]]

\* One font for every role up to the highest in use.
FontsFor(pages) == [role \in 1 .. Max({page.role + 1 : page \in Range(pages)}) |-> "builtin"]

MergeChapters(fragments) ==
  LET pages == FlattenSeq(fragments)
      First(u) == Len(FlattenSeq(SubSeq(fragments, 1, u - 1))) + 1
      title == [u \in Parts |-> project.chapters[u].title]
  IN [pages |-> [p \in DOMAIN pages |-> [pages[p] EXCEPT !.number = p]],
      outlines |-> [u \in Parts |-> [level |-> 0, title |-> title[u], page |-> First(u)]],
      plan |-> [u \in Parts |-> [level |-> 0, title |-> title[u]]],
      fonts |-> FontsFor(pages), dests |-> << >>, info |-> FALSE, threads |-> 1]

FullDocument == MergeChapters([u \in Parts |-> ChapterPages(u)])

-----------------------------------------------------------------------------
(* What a compile has to do again.  The main file depends on every other.  *)

Changed ==
  {f \in Parts : kept.project.chapters[f] # project.chapters[f]}
  \cup {f \in {0} : kept.project.look # project.look}

RebuildPaths == Changed \cup {0}

LocalRegion == Cardinality(Changed) <= 1 \/ Cardinality(RebuildPaths) < Chapters + 1

\* With checkpoints the scope is BlockLevel, for which the preamble is not looked at.
PreambleChanged == ~ Checkpoints /\ 0 \in Changed

ToRebuild == RebuildPaths \cap Parts

UsableFragment(u) == PartId(u) \in DOMAIN kept.fragments /\ kept.project.chapters[u] = project.chapters[u]

\* A chapter with a new title is one the cache does not know.
IsPartial ==
  /\ kept # Unwritten /\ LocalRegion /\ ~ PreambleChanged
  /\ \A u \in Parts \ ToRebuild : UsableFragment(u)
  /\ ToRebuild # {}
  /\ \A u \in ToRebuild : PartId(u) \in DOMAIN kept.fragments

FromCache(u) == IsPartial /\ u \notin ToRebuild

\* MUTANT: the pages of every chapter the cache knows.
AnyKnown(u) == IsPartial /\ PartId(u) \in DOMAIN kept.fragments

NewDocument ==
  MergeChapters([u \in Parts |-> IF FromCache(u) THEN kept.fragments[PartId(u)] ELSE ChapterPages(u)])

\* The chapters whose rendered pages may be taken.
MayReuse(u) == FromCache(u)

ShowsPictures(doc, range) == \E p \in range.first .. range.last : doc.pages[p].images # {}

\* The rendered pages to take, by their places in the document.
ReusedPages(doc, ranges) ==
  LET Fits(range) ==
        /\ MayReuse(range.part) /\ ~ ShowsPictures(doc, range)
        /\ PartId(range.part) \in DOMAIN kept.payloads
        /\ Len(kept.payloads[PartId(range.part)]) = range.last - range.first + 1
      taken == {range \in Range(ranges) : Fits(range)}
      At(p) == CHOOSE range \in taken : p \in range.first .. range.last
  IN IF (\E range \in Range(ranges) : range.part = 0) \/ ranges[1].last > ranges[1].first
       THEN << >>
       ELSE [p \in UNION {range.first .. range.last : range \in taken} |->
               kept.payloads[PartId(At(p).part)][p - At(p).first + 1]]

\* What belongs to each chapter.
ByPart(ranges, pages) ==
  [id \in {PartId(range.part) : range \in Range(ranges)} |->
     LET range == CHOOSE range \in Range(ranges) : PartId(range.part) = id
     IN SubSeq(pages, range.first, range.last)]

-----------------------------------------------------------------------------
CachedInit ==
  /\ project \in [look : Looks, chapters : [Parts -> ChapterTexts]]
  /\ kept = Unwritten /\ output = Unwritten
  /\ changes = 0 /\ runs = 0

ChangeFiles(new) ==
  /\ changes < ChangesAtOnce /\ kept # Unwritten
  /\ new # project
  /\ project' = new
  /\ changes' = changes + 1
  /\ UNCHANGED <<kept, output, runs>>

ChangeChapter == \E u \in Parts, content \in ChapterTexts : ChangeFiles([project EXCEPT !.chapters[u] = content])

ChangePreamble == \E look \in Looks : ChangeFiles([project EXCEPT !.look = look])

FinishCompile(doc, ranges, pages) ==
  /\ output' = WriteFile(doc, pages)
  /\ kept' = [project |-> project, fragments |-> ByPart(ranges, doc.pages),
              payloads |-> ByPart(ranges, pages), rebuilt |-> {u \in Parts : ~ FromCache(u)}]

RenderAndFinish(doc, ranges) ==
  FinishCompile(doc, ranges, RenderAll(doc, IF IsPartial THEN ReusedPages(doc, ranges) ELSE << >>))

Build(doc) == RenderAndFinish(doc, PageRanges(doc))

\* Without a change the PDF of the last compile is the answer.
CompileProject ==
  /\ runs < MaxRuns
  /\ kept # Unwritten => Changed # {}
  /\ Build(NewDocument)
  /\ changes' = 0 /\ runs' = runs + 1
  /\ UNCHANGED project

CachedNext == ChangeChapter \/ ChangePreamble \/ CompileProject

CachedSpec == CachedInit /\ [][CachedNext]_cachedVars

-----------------------------------------------------------------------------
IsCurrent == kept # Unwritten /\ kept.project = project

FreshOf(doc) == WriteFile(doc, RenderAll(doc, << >>))

FreshFile == FreshOf(FullDocument)

(* The PDF is the one a compile without a cache writes                     *)
(* (docs/design-incremental-100ms-optimization.md, Option C).              *)
PdfIsFresh == IsCurrent => output = FreshFile

Timeless(stream) == [stream EXCEPT !.number = 0, !.look = 0, !.math = 0]

SameButOld(written, fresh) ==
  /\ [written EXCEPT !.streams = << >>] = [fresh EXCEPT !.streams = << >>]
  /\ Len(written.streams) = Len(fresh.streams)
  /\ \A p \in DOMAIN written.streams :
       /\ Timeless(written.streams[p]) = Timeless(fresh.streams[p])
       /\ written.streams[p].text[1] \in kept.rebuilt => written.streams[p] = fresh.streams[p]

(* The PDF shows the text, the roles, the links and the pictures of a      *)
(* compile without a cache, page by page, with the same objects, outline   *)
(* and fonts; what a page that was not rendered again may have from an     *)
(* earlier document is its page number, its look and the number of its     *)
(* symbol font, and a chapter typeset again has nothing from there.        *)
PagesAreCurrent == IsCurrent => SameButOld(output, FreshFile)
=============================================================================
