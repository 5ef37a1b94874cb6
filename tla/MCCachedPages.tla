---------------------------- MODULE MCCachedPages -----------------------------
(* Small documents for the PDF writer and small chapters for the pages of  *)
(* an earlier compile.                                                     *)
EXTENDS CachedPages

APage(text, links, states, symbol, images, forms) ==
  [text |-> text, number |-> text, look |-> 1, role |-> 0, symbol |-> symbol, links |-> links,
   states |-> states, images |-> images, forms |-> forms]

PageKinds(n) ==
  {APage(n, 0, {}, FALSE, {}, {}), APage(n, 2, {2}, FALSE, {}, {}),
   APage(n, 1, {1, 2}, TRUE, {1}, {}), APage(n, 0, {1}, FALSE, {2}, {1})}

Plain(count) == [n \in 1 .. count |-> APage(n, 0, {}, FALSE, {}, {})]

AnEntry(level, title, page) == [level |-> level, title |-> title, page |-> page]

ADocument(pages, outlines, fonts, threads) ==
  [pages |-> pages, outlines |-> outlines, plan |-> << >>, fonts |-> fonts,
   dests |-> << >>, info |-> FALSE, threads |-> threads]

\* Pages with links, opacities, symbols and pictures.
RichPages ==
  {[ADocument(<<a, b>>, o, <<"builtin">>, 1) EXCEPT !.dests = d, !.info = i] :
     a \in PageKinds(1), b \in PageKinds(2), i \in BOOLEAN,
     o \in {<< >>, <<AnEntry(0, "a", 1)>>}, d \in {<< >>, <<1, 2>>}}

\* Outlines of every shape.
RichOutlines ==
  {ADocument(Plain(2), [e \in DOMAIN l |-> AnEntry(l[e], "a", (e + 1) \div 2)], <<"builtin">>, 1) :
     l \in UNION {[1 .. n -> 0 .. 2] : n \in 1 .. 4}}

\* Fonts of every kind, with and without symbols.
RichFonts ==
  {ADocument(<<[APage(1, 0, {}, s, {}, {}) EXCEPT !.role = Len(f) - 1]>>, << >>, f, 1) :
     s \in BOOLEAN, f \in UNION {[1 .. n -> {"builtin", "type1", "truetype", "mapped"}] : n \in 1 .. 2}}

\* Partitions and threads: two units of the same title, of which one may not be found.
RichParts ==
  {[ADocument(Plain(n), [e \in DOMAIN t |-> AnEntry(0, t[e], at[e])], <<"builtin">>, w) EXCEPT
      !.plan = <<AnEntry(0, "a", 0), AnEntry(0, "a", 0), AnEntry(0, "b", 0)>>] :
     n \in {3, 5}, t \in [1 .. 3 -> {"a", "b"}], at \in {<<1, 2, 3>>, <<2, 2, 3>>, <<3, 3, 3>>}, w \in 1 .. 3}

MCPdfDocuments == RichPages \cup RichOutlines \cup RichFonts \cup RichParts

-----------------------------------------------------------------------------
AContent(title, text, count) ==
  [title |-> title, text |-> text, pages |-> count, role |-> 0, symbol |-> FALSE, images |-> {}]

\* A chapter that grows, one with symbols, one renamed with a font of its own, two with pictures.
MCContents ==
  {[AContent("a", "short", 1) EXCEPT !.symbol = TRUE], AContent("a", "long", 2),
   [AContent("b", "sans", 1) EXCEPT !.role = 1],
   [AContent("a", "first picture", 1) EXCEPT !.images = {1}],
   [AContent("a", "second picture", 1) EXCEPT !.images = {2}]}

\* Two contents without a symbol: only the numbers of the pages can be old.
TwoLengths == {AContent("a", "short", 1), AContent("a", "long", 2)}

CachedVariables == <<pdfVars, cachedVars>>

NoFile == typeset = << >> /\ payloads = << >> /\ file = Unwritten

\* The chapters are short at first.
ProjectInit ==
  /\ CachedInit /\ project.look = 1
  /\ \A u \in Parts : project.chapters[u].text = "short"

CachedPagesInit == ProjectInit /\ NoFile

CachedPagesNext == CachedNext /\ UNCHANGED pdfVars

CachedPagesSpec == CachedPagesInit /\ [][CachedPagesNext]_CachedVariables
=============================================================================
