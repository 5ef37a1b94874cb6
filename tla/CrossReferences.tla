---------------------------- MODULE CrossReferences ----------------------------
(***************************************************************************)
(* The passes of a compile (parse_document_with_cross_references): the     *)
(* parser prints numbers and pages it learnt from the pass before, and     *)
(* the first pass of an incremental compile what the last compile learnt.  *)
(***************************************************************************)
EXTENDS Integers, Sequences, Folds, SequencesExt

CONSTANTS
  PageLines,
  MaxLength,       \* BOUND on the document
  MaxCompiles      \* BOUND on the compiles

ASSUME ReferencesAssumption == PageLines \in Nat \ {0} /\ MaxLength \in Nat /\ MaxCompiles \in Nat

VARIABLES
  source,      \* the document, a sequence of items
  seed,        \* what the last compile learnt
  pass,        \* 0: no compile is running
  parsed,      \* what the last pass made
  used,        \* [page, index] the last pass had (current_page_labels, ...)
  compiles,
  revised,     \* the document was edited (history)
  since        \* compiles finished since then (history)

referenceVars == <<source, seed, pass, parsed, used, compiles, revised, since>>

-----------------------------------------------------------------------------
(* Numbers start at 1; 0 is printed as "??".  An item makes a line of the  *)
(* body; labels and index marks make none, lists one per entry.            *)

Nothing == [label |-> 0, sections |-> 0, page |-> 0, index |-> << >>]

NewParse(known) ==
  [known |-> known, label |-> known.label, sections |-> 0, anchor |-> 0, body |-> << >>,
   marks |-> << >>, unresolved |-> FALSE, marker |-> FALSE, unprinted |-> FALSE]

Line(what, number) == [what |-> what, number |-> number]
Lines(what, n) == [i \in 1 .. n |-> Line(what, i)]
Add(p, lines) == [p EXCEPT !.body = @ \o lines]

Section(p) == Add([p EXCEPT !.sections = @ + 1], <<Line("section", p.sections + 1)>>)

\* A label before the first section has no number.
Label(p) == IF p.sections = 0 THEN p ELSE [p EXCEPT !.label = p.sections, !.anchor = p.sections]

Ref(p) == [Add(p, <<Line("ref", p.label)>>) EXCEPT !.unresolved = @ \/ p.label = 0]

PageRef(p) ==
  LET open == p.known.page = 0
  IN [Add(p, <<Line("pageref", p.known.page)>>) EXCEPT !.unresolved = @ \/ open, !.marker = @ \/ open]

\* MUTANT: the sections read so far, when there is nothing from the pass before.
TocSoFar(p) == Add(p, Lines("toc", IF p.known.sections = 0 THEN p.sections ELSE p.known.sections))

Toc(p) ==
  LET open == p.known.sections = 0
  IN [Add(p, Lines("toc", IF open THEN p.sections ELSE p.known.sections)) EXCEPT
        !.unresolved = @ \/ open]

\* A mark is on the page of the line before it.
Mark(p) == [p EXCEPT !.marks = Append(@, Len(p.body))]

PrintIndex(p) ==
  IF p.known.index = << >> THEN [p EXCEPT !.unprinted = TRUE]
  ELSE Add(p, [i \in DOMAIN p.known.index |-> Line("index", p.known.index[i])])

ReadItem(p, item) ==
  CASE item = "section" -> Section(p)
    [] item = "label" -> Label(p)
    [] item = "ref" -> Ref(p)
    [] item = "pageref" -> PageRef(p)
    [] item = "toc" -> Toc(p)
    [] item = "mark" -> Mark(p)
    [] item = "printindex" -> PrintIndex(p)
    [] item = "text" -> Add(p, <<Line("text", 0)>>)

Parse(document, known) == FoldLeft(ReadItem, NewParse(known), document)

-----------------------------------------------------------------------------
(* What the typesetter tells: pages of headings and of marks.              *)

PageAt(line) == IF line = 0 THEN 1 ELSE (line - 1) \div PageLines + 1

LineOf(p, section) ==
  CHOOSE i \in DOMAIN p.body : p.body[i] = Line("section", section)

PageLabel(p) == IF p.anchor = 0 THEN 0 ELSE PageAt(LineOf(p, p.anchor))
IndexPages(p) == [i \in DOMAIN p.marks |-> PageAt(p.marks[i])]

-----------------------------------------------------------------------------
Learnt(p, page, index) == [label |-> p.label, sections |-> p.sections, page |-> page, index |-> index]

FirstPass ==
  /\ pass = 0 /\ compiles < MaxCompiles
  /\ parsed' = Parse(source, seed)
  /\ pass' = 1
  /\ used' = [page |-> seed.page, index |-> seed.index]
  /\ compiles' = compiles + 1
  /\ UNCHANGED <<source, seed, revised, since>>

\* No page numbers: there are no pages yet.
SecondPass ==
  /\ pass = 1 /\ parsed.unresolved
  /\ parsed' = Parse(source, Learnt(parsed, 0, seed.index))
  /\ pass' = 2
  /\ UNCHANGED <<source, seed, used, compiles, revised, since>>

Typeset == pass > 0 /\ ~ (pass = 1 /\ parsed.unresolved /\ parsed.known = seed)

NewPage == IF parsed.marker \/ used.page # 0 THEN PageLabel(parsed) ELSE 0
NeedsPage == NewPage # 0 /\ NewPage # used.page

NeedsIndex == parsed.unprinted /\ parsed.marks # << >> /\ IndexPages(parsed) # used.index

AnotherPass ==
  /\ Typeset /\ pass < 3
  /\ NeedsPage \/ NeedsIndex
  /\ parsed' = Parse(source, Learnt(parsed, NewPage, IndexPages(parsed)))
  /\ used' = [page |-> NewPage, index |-> IndexPages(parsed)]
  /\ pass' = pass + 1
  /\ UNCHANGED <<source, seed, compiles, revised, since>>

Settled == Typeset /\ (pass = 3 \/ ~ (NeedsPage \/ NeedsIndex))

KeepSeed ==
  /\ Settled
  /\ seed' = Learnt(parsed, IF parsed.marker THEN PageLabel(parsed) ELSE 0, IndexPages(parsed))
  /\ since' = since + 1
  /\ pass' = 0
  /\ UNCHANGED <<source, parsed, used, compiles, revised>>

-----------------------------------------------------------------------------
ItemKinds == {"section", "label", "ref", "pageref", "toc", "mark", "printindex", "text"}

AtMostOne(document, kind) == Len(SelectSeq(document, LAMBDA item : item = kind)) <= 1

\* One label, one list of each kind, and the index is at the end.
Documents ==
  {d \in [1 .. MaxLength -> ItemKinds] :
     /\ AtMostOne(d, "label") /\ AtMostOne(d, "toc")
     /\ \A i \in DOMAIN d : d[i] = "printindex" => i = MaxLength}

ReferencesInit ==
  /\ source \in Documents
  /\ seed = Nothing
  /\ pass = 0 /\ parsed = NewParse(Nothing) /\ used = [page |-> 0, index |-> << >>]
  /\ compiles = 0
  /\ revised = FALSE /\ since = 0

Revise ==
  /\ pass = 0 /\ compiles > 0 /\ ~ revised
  /\ \E i \in DOMAIN source, item \in ItemKinds : source' = [source EXCEPT ![i] = item]
  /\ source' \in Documents
  /\ revised' = TRUE /\ since' = 0
  /\ UNCHANGED <<seed, pass, parsed, used, compiles>>

ReferencesNext == FirstPass \/ SecondPass \/ AnotherPass \/ KeepSeed \/ Revise

ReferencesSpec == ReferencesInit /\ [][ReferencesNext]_referenceVars

-----------------------------------------------------------------------------
Numbers(what) == LET of == SelectSeq(parsed.body, LAMBDA line : line.what = what)
                 IN {of[i].number : i \in DOMAIN of}

Defined == parsed.anchor # 0

\* Every reference to the label has its number and its page, the contents list
\* every section, and the index has the pages of the marks: in the document as
\* it was set in the last pass, after all lists have got their length.
Right ==
  /\ Defined => Numbers("ref") \subseteq {parsed.anchor} /\ Numbers("pageref") \subseteq {PageLabel(parsed)}
  /\ Contains(source, "toc") => Len(SelectSeq(parsed.body, LAMBDA line : line.what = "toc")) = parsed.sections
  /\ Contains(source, "printindex") => Numbers("index") = ToSet(IndexPages(parsed))

\* Three passes are enough when nothing is known before, and what an older
\* version of the document left behind wears off: with the third compile after
\* an edit, at the latest, numbers, pages and lists are right again.
ThreePassesSuffice == Settled /\ (revised => since > 1) => Right

\* What docs/requirements.md:696 asks of an incremental compile: after a change
\* that moves pages and numbers, contents and references are right at once.
IncrementalIsRight == Settled => Right
=============================================================================
