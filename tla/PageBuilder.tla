----------------------------- MODULE PageBuilder -----------------------------
(***************************************************************************)
(* The page builder of ferritex-core: a vertical list of boxes, floats and *)
(* breaks is cut into pages, and floats wait in a queue until a region of  *)
(* a page has room for the first of them.  The same list is read by three  *)
(* machines that must agree: the builder itself, the snapshot that is kept *)
(* for a later rebuild of a suffix, and the pipeline that paginates one    *)
(* section after the other.                                                *)
(***************************************************************************)
EXTENDS Integers, Sequences, FiniteSets, Folds, SequencesExt

CONSTANTS
  Height,       \* what fits on a page, in lines
  DeferLimit,   \* page breaks after which a float may go into any region
  BoxHeights, FloatHeights,
  Kinds,        \* the items a document may have
  MaxItems      \* bound: length of a document

ASSUME HeightAssumption ==
  Height \in Nat \ {0} /\ FloatHeights \subseteq Nat \ {0} /\ BoxHeights \subseteq Nat
ASSUME DeferAssumption == DeferLimit \in Nat \ {0}
ASSUME BoundAssumption == MaxItems \in Nat

VARIABLES
  items,        \* the vertical list so far
  builder,      \* the builder after them
  snap,         \* the snapshot machine after them
  pipe          \* [pages, offset, section]: finished sections and the open one

pageVars == <<items, builder, snap, pipe>>

-----------------------------------------------------------------------------
(* Floats wait in order; `place` is the set of regions their specifier     *)
(* allows.  Only the first one is ever tried.                              *)

Total(q) ==
  LET first[n \in 0 .. Len(q)] == IF n = 0 THEN 0 ELSE first[n - 1] + q[n].h
  IN first[Len(q)]

MayGo(f, region) == f.defers >= DeferLimit \/ region \in f.place

\* The floats at the front of the queue that go into the region, one by one.
Taken(s, region) ==
  Max({n \in 0 .. Len(s.queue) :
         \A k \in 1 .. n : /\ MayGo(s.queue[k], region)
                           /\ s.used + Total(SubSeq(s.queue, 1, k)) <= Height})

Deferred(q) == [i \in DOMAIN q |-> [q[i] EXCEPT !.defers = @ + 1]]

\* MUTANT: the smallest float that fits overtakes the ones before it.
PlaceAnyFitting(s, region) ==
  LET fits == {i \in DOMAIN s.queue : /\ MayGo(s.queue[i], region)
                                      /\ s.used + s.queue[i].h <= Height}
  IN IF fits = {} THEN s
     ELSE LET i == CHOOSE j \in fits : \A k \in fits : s.queue[j].h <= s.queue[k].h
          IN [s EXCEPT !.page = Append(@, s.queue[i]), !.used = @ + s.queue[i].h,
                       !.queue = RemoveAt(@, i)]

PlaceFirst(s, n) ==
  [s EXCEPT !.page = @ \o SubSeq(s.queue, 1, n), !.used = @ + Total(SubSeq(s.queue, 1, n)),
            !.queue = SubSeq(@, n + 1, Len(@))]

Place(s, region) == PlaceFirst(s, Taken(s, region))

\* At the end of the list, pending floats are put above the page's text.
PlaceOnTop(s) ==
  LET placed == Place([s EXCEPT !.page = << >>], "top")
  IN [placed EXCEPT !.page = @ \o s.page]

-----------------------------------------------------------------------------
(* A finished page is the set of what is on it and at which height.        *)

Renders(item) == item.kind \in {"box", "float"}
Rendered(page) == \E i \in DOMAIN page : Renders(page[i])

LaidOut(page, start) ==
  {[id |-> page[i].id, h |-> page[i].h, at |-> start + Total(SubSeq(page, 1, i - 1))] :
     i \in {j \in DOMAIN page : Renders(page[j])}}

PushPage(s, page) == [s EXCEPT !.pages = Append(@, page), !.last = s.used]

\* `blank`: an empty first page is wanted.
Emit(s, blank) ==
  IF Rendered(s.page) \/ (blank /\ s.pages = << >> /\ s.start = 0)
    THEN [PushPage(s, LaidOut(s.page, s.start)) EXCEPT
            !.continued = @ \/ (s.start > 0 /\ Rendered(s.page))]
    ELSE s

Fresh(s) == [s EXCEPT !.page = << >>, !.used = 0, !.start = 0]

TurnPage(s, blank) ==
  LET out == Emit(Place(s, "bottom"), blank)
  IN Place(Fresh([out EXCEPT !.queue = Deferred(@)]), "top")

Put(s, item) == [s EXCEPT !.page = Append(@, item), !.used = @ + item.h]

\* MUTANT: the floats that are left over stay in the queue.
FlushNothing(s) == s

ClosePage(s) == IF s.page = << >> THEN s ELSE Fresh(PushPage(s, LaidOut(s.page, 0)))

PutAlone(s, item) ==
  Put(IF s.used + item.h > Height THEN ClosePage(s) ELSE s, item)

\* All pending floats go onto pages of their own.
Flush(s) == ClosePage(FoldLeft(PutAlone, [s EXCEPT !.queue = << >>], s.queue))

\* The page ends here, with the floats that fit and then the others.
EndPage(s) == Flush(Fresh(Emit(s, s.queue = << >>)))

Start(used, queue) ==
  [pages |-> << >>, page |-> << >>, used |-> used, start |-> used, last |-> used,
   queue |-> queue, continued |-> FALSE, explicit |-> FALSE]

-----------------------------------------------------------------------------
(* One item of the list.                                                   *)

TakeFloat(s, item) ==
  IF "here" \in item.place /\ s.used + item.h <= Height
    THEN Put(s, item)
    ELSE [s EXCEPT !.queue = Append(@, item)]

\* MUTANT: \clearpage breaks the page and leaves the floats in the queue.
BreakOnly(s) == [TurnPage(s, TRUE) EXCEPT !.explicit = TRUE]

ClearPage(s) == [EndPage(Place(s, "bottom")) EXCEPT !.explicit = TRUE]

ForcedBreak(s) == [TurnPage(s, TRUE) EXCEPT !.explicit = TRUE]

OpenRight(s) ==
  [(IF Len(s.pages) % 2 = 1 THEN [s EXCEPT !.pages = Append(@, {}), !.last = 0] ELSE s)
     EXCEPT !.explicit = TRUE]

FloatsFirst(s) == IF s.page = << >> /\ s.used = 0 THEN Place(s, "top") ELSE s

TurnFor(s, item, turns) == IF s.used + item.h > Height /\ turns THEN TurnPage(s, FALSE) ELSE s

\* Floats placed on the new page may leave too little room.
TurnAgain(s, item) == TurnFor(s, item, s.page # << >>)
TurnOnce(s, item) == TurnFor(s, item, s.page # << >> \/ s.start > 0)

PutBox(s, item) == Put(TurnAgain(TurnOnce(FloatsFirst(s), item), item), item)

Step(s, item) ==
  CASE item.kind = "float" -> [TakeFloat(s, item) EXCEPT !.explicit = FALSE]
    [] item.kind = "clear" -> ClearPage(s)
    [] item.kind = "break" -> ForcedBreak(s)
    [] item.kind = "right" -> OpenRight(s)
    [] item.kind = "box"   -> [PutBox(s, item) EXCEPT !.explicit = FALSE]

\* The end of the list.
Finish(s) ==
  IF s.page = << >> /\ s.pages # << >> /\ s.queue = << >> THEN s
  ELSE EndPage(Place(IF s.start = 0 THEN PlaceOnTop(s) ELSE s, "bottom"))

Paginate(list, used, queue) ==
  IF list = << >> THEN Start(used, << >>) ELSE Finish(FoldLeft(Step, Start(used, queue), list))

\* MUTANT: a break at the end of a section is forgotten.
LastUsed(s) == s.last

NextUsed(s) == IF s.explicit THEN Height ELSE s.last

-----------------------------------------------------------------------------
(* The snapshot reads the list again with rules of its own.                *)

\* MUTANT: the first box of a page does not wait for the floats on top.
SnapBoxFirst(s, item) == Put(TurnAgain(s, item), item)

SnapBox(s, item) == Put(TurnAgain(FloatsFirst(s), item), item)

\* A forced break is a penalty like any other to it: it is put on the page.
SnapStep(s, item) ==
  CASE item.kind = "float" -> TakeFloat(s, item)
    [] item.kind \in {"clear", "right"} -> ClearPage(s)
    [] item.kind \in {"box", "break"} -> SnapBox(s, item)

Snapshot(list) == FoldLeft(SnapStep, Start(0, << >>), list)

-----------------------------------------------------------------------------
(* Sections are built in parallel and paginated one after the other; the   *)
(* next one starts where the last page of the one before ended.            *)

\* MUTANT: the first page of a section is always put onto the last one.
JoinAlways(pages, s) ==
  IF pages # << >> /\ s.pages # << >>
    THEN [pages EXCEPT ![Len(pages)] = @ \union Head(s.pages)] \o Tail(s.pages)
    ELSE pages \o s.pages

JoinPages(pages, s) ==
  IF s.continued
    THEN [pages EXCEPT ![Len(pages)] = @ \union Head(s.pages)] \o Tail(s.pages)
    ELSE pages \o s.pages

EndSection(p, s) ==
  [pages |-> JoinPages(p.pages, s), offset |-> NextUsed(s), section |-> << >>]

PipeEnd(p) == EndSection(p, Paginate(p.section, p.offset, << >>))

-----------------------------------------------------------------------------
PagesInit ==
  /\ items = << >>
  /\ builder = Start(0, << >>)
  /\ snap = Start(0, << >>)
  /\ pipe = [pages |-> << >>, offset |-> 0, section |-> << >>]

Read(item) ==
  /\ Len(items) < MaxItems
  /\ item.kind \in Kinds
  /\ (pipe.section = << >> /\ items # << >>) => item.kind = "box"  \* a section has a heading
  /\ items' = Append(items, item)
  /\ builder' = Step(builder, item)
  /\ snap' = SnapStep(snap, item)
  /\ pipe' = [pipe EXCEPT !.section = Append(@, item)]

Item(kind, h, place) ==
  [kind |-> kind, id |-> Len(items) + 1, h |-> h, place |-> place, defers |-> 0]

ReadBox == \E h \in BoxHeights : Read(Item("box", h, {}))
ReadFloat ==
  \E h \in FloatHeights, place \in {{"here", "top"}, {"top"}, {"bottom"}, {"page"}} :
    Read(Item("float", h, place))
ReadClear == Read(Item("clear", 0, {}))
ReadBreak == Read(Item("break", 0, {}))
ReadRight == Read(Item("right", 0, {}))

\* A new section: the pipeline starts a partition.
Cut ==
  /\ pipe.section # << >>
  /\ pipe' = PipeEnd(pipe)
  /\ UNCHANGED <<items, builder, snap>>

PagesNext == ReadBox \/ ReadFloat \/ ReadClear \/ ReadBreak \/ ReadRight \/ Cut

PagesSpec == PagesInit /\ [][PagesNext]_pageVars

-----------------------------------------------------------------------------
(* Properties.  Every state is a document: Finish says how it ends.        *)

Pages == IF items = << >> THEN << >> ELSE Finish(builder).pages
Contents(kind) == {i \in DOMAIN items : items[i].kind = kind}

SpotsOf(pages, i) == UNION {{<<p, x>> : x \in {y \in pages[p] : y.id = i}} : p \in DOMAIN pages}
PageOf(pages, i) == CHOOSE p \in DOMAIN pages : \E x \in pages[p] : x.id = i
SpotOf(pages, i) == CHOOSE x \in pages[PageOf(pages, i)] : x.id = i

\* Whatever breaks and floats come together, every box and every float is in
\* exactly one place: nothing is lost when a page is turned or the queue is
\* flushed, and nothing is set twice.
EverythingOnce ==
  LET pages == Pages
  IN \A i \in Contents("box") \union Contents("float") : Cardinality(SpotsOf(pages, i)) = 1

\* The text keeps its order: a box ends above the next one on its page.  So do
\* the floats that went through the queue: a float never overtakes an earlier
\* one that is still waiting (unless it may stay where it is).
OrderIsKept ==
  LET pages == Pages
  IN /\ \A i, j \in Contents("box") : i < j =>
          \/ PageOf(pages, i) < PageOf(pages, j)
          \/ /\ PageOf(pages, i) = PageOf(pages, j)
             /\ SpotOf(pages, i).at + SpotOf(pages, i).h <= SpotOf(pages, j).at
     /\ \A i, j \in Contents("float") :
          (i < j /\ "here" \notin items[j].place) => PageOf(pages, i) <= PageOf(pages, j)

\* No two things on a page cover each other, also on a page where one section
\* ends and the next begins.
NothingOverlaps ==
  \A page \in ToSet(Pages) \union ToSet(pipe.pages) : \A x, y \in page :
    x.id # y.id => (x.at + x.h <= y.at \/ y.at + y.h <= x.at)

\* \clearpage: no float from before it lands behind text from after it.
ClearPageHolds ==
  LET pages == Pages
  IN \A c \in Contents("clear"), f \in Contents("float"), b \in Contents("box") :
       (f < c /\ c < b) => PageOf(pages, f) < PageOf(pages, b)

\* A page is not too full but for one thing that is higher than a page.
Fits(page) == \A x \in page : x.at + x.h <= Height \/ x.at = 0

\* The state the snapshot keeps for a later rebuild is the builder's own, as
\* long as no page was broken by hand or for a right-hand page, and no floats
\* filled a new page so far that the next box does not fit under them.
SnapshotAgrees ==
  /\ Contents("break") \union Contents("right") = {}
  /\ \A page \in ToSet(snap.pages) \union {LaidOut(snap.page, snap.start)} : Fits(page)
  =>
  /\ snap.used = builder.used
  /\ Len(snap.pages) = Len(builder.pages)
  /\ snap.queue = builder.queue
  /\ LaidOut(snap.page, snap.start) = LaidOut(builder.page, builder.start)

\* Paginating section by section gives the pages of the whole, for sections
\* without floats and right-hand breaks.
PipelineAgrees ==
  (Contents("float") \union Contents("right") = {} /\ pipe.section = << >>) =>
    pipe.pages = Pages
=============================================================================
