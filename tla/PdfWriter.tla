------------------------------- MODULE PdfWriter -------------------------------
(***************************************************************************)
(* The PDF file (pdf/api.rs, render_with_partition_plan).  The pages are   *)
(* rendered, by one thread per run of pages of one partition, and every    *)
(* object of the file gets its number by arithmetic before anything is     *)
(* written: how many objects come before it is counted in one place and    *)
(* what is written in another.  0 stands for a reference that is left out. *)
(***************************************************************************)
EXTENDS Naturals, SequencesExt

CONSTANTS
  PdfDocuments,   \* the documents written
  Unwritten       \* no file yet

VARIABLES
  typeset,    \* the document: [pages, outlines, plan, fonts, dests, info, threads]
  payloads,   \* its rendered pages, in the order they are joined
  file        \* what is written

pdfVars == <<typeset, payloads, file>>

Unit(n) == IF n > 0 THEN 1 ELSE 0

-----------------------------------------------------------------------------
(* Which partition a page belongs to; 0: the part before the first one.    *)
(* The units of the plan are looked for in the outline, each behind the    *)
(* one found before.                                                       *)

Markers(doc) ==
  LET Look(found, u) ==
        LET there == {o \in found.next .. Len(doc.outlines) :
                        /\ doc.outlines[o].level = doc.plan[u].level
                        /\ doc.outlines[o].title = doc.plan[u].title}
        IN IF there = {} THEN found
           ELSE [next |-> Min(there) + 1,
                 at |-> Append(found.at, [page |-> doc.outlines[Min(there)].page, part |-> u])]
  IN FoldLeft(Look, [next |-> 1, at |-> << >>], [u \in DOMAIN doc.plan |-> u]).at

\* The partition of every page, by the last marker that is not behind it.
PartitionOf(markers, page) ==
  Max({0} \cup {marker.part : marker \in {m \in Range(markers) : m.page <= page}})

PagePartitions(doc, markers) == [p \in DOMAIN doc.pages |-> PartitionOf(markers, p)]

\* The runs of pages of one partition: [part, first, last].
Runs(parts) ==
  LET Starts(p) == p = 1 \/ parts[p] # parts[p - 1]
      First(p) == Max({q \in 1 .. p : Starts(q)})
      ends == {p \in DOMAIN parts : p = Len(parts) \/ Starts(p + 1)}
  IN SetToSortSeq({[part |-> parts[p], first |-> First(p), last |-> p] : p \in ends},
                  LAMBDA a, b : a.first < b.first)

PageRanges(doc) == Runs(PagePartitions(doc, Markers(doc)))

\* A single run is cut into one piece per thread.
Pieces(ranges, count, threads) ==
  LET chunk == (count + threads - 1) \div threads
  IN IF Len(ranges) = 1 /\ threads > 1
       THEN [c \in 1 .. (count + chunk - 1) \div chunk |->
               [part |-> ranges[1].part, first |-> (c - 1) * chunk + 1,
                last |-> Min({c * chunk, count})]]
       ELSE ranges

Workloads(doc) == Pieces(PageRanges(doc), Len(doc.pages), Min({doc.threads, Len(doc.pages)}))

-----------------------------------------------------------------------------
\* The members of a sequence of sets, in the order of their first use.
InOrderOfUse(sets) ==
  FoldLeft(LAMBDA seen, item : IF Contains(seen, item) THEN seen ELSE Append(seen, item), << >>,
           FlattenSeq([p \in DOMAIN sets |-> SetToSortSeq(sets[p], <)]))

IndexIn(seq, item) == SelectInSeq(seq, LAMBDA other : other = item)

\* The fonts and, in the order of their first use, what else the pages share.
Resources(doc, pages) ==
  [fonts |-> IF (\E page \in Range(doc.pages) : page.symbol) /\ ~ Contains(doc.fonts, "symbol")
               THEN Append(doc.fonts, "symbol") ELSE doc.fonts,
   states |-> InOrderOfUse([p \in DOMAIN pages |-> pages[p].states]),
   images |-> InOrderOfUse([p \in DOMAIN doc.pages |-> doc.pages[p].images]),
   forms |-> InOrderOfUse([p \in DOMAIN doc.pages |-> doc.pages[p].forms])]

\* A page as the file shows it: it names its fonts and pictures by their numbers.
RenderPage(doc, shared, p) ==
  LET page == doc.pages[p]
  IN [page |-> p, text |-> page.text, number |-> page.number, look |-> page.look,
      fonts |-> {page.role + 1},
      math |-> IF page.symbol THEN Max({1, IndexIn(shared.fonts, "symbol")}) ELSE 0,
      pictures |-> {IndexIn(shared.images, i) : i \in page.images},
      links |-> page.links, states |-> page.states]

\* A page that was rendered before is taken as it is, unless it shows pictures.
PayloadOf(doc, shared, rendered, p) ==
  IF doc.pages[p].images = {} /\ doc.pages[p].forms = {} /\ p \in DOMAIN rendered
    THEN [rendered[p] EXCEPT !.page = p]
    ELSE RenderPage(doc, shared, p)

\* MUTANT: in the order in which the threads are joined.
AsJoined(parts) == parts

ByFirstPage(parts) == SortSeq(parts, LAMBDA a, b : a[1].page < b[1].page)

Together(parts) == FlattenSeq(IF Len(parts) <= 1 THEN parts ELSE ByFirstPage(Reverse(parts)))

\* The threads are joined last to first.
RenderWork(doc, shared, rendered, work) ==
  Together([w \in DOMAIN work |->
              [i \in 1 .. work[w].last - work[w].first + 1 |->
                 PayloadOf(doc, shared, rendered, work[w].first + i - 1)]])

RenderAll(doc, rendered) == RenderWork(doc, Resources(doc, doc.pages), rendered, Workloads(doc))

-----------------------------------------------------------------------------
(* The numbers of the objects.                                             *)

LinksBefore(pages, p) == FoldLeft(LAMBDA sum, page : sum + page.links, 0, SubSeq(pages, 1, p - 1))

FontSizes == [builtin |-> 1, symbol |-> 1, type1 |-> 3, truetype |-> 3, mapped |-> 4]

SizeOf(fonts, f) == FoldLeft(LAMBDA sum, font : sum + FontSizes[font], 0, SubSeq(fonts, 1, f - 1))

\* MUTANT: the root of the outline is not counted.
UncountedRoot(doc, shared, pages) ==
  LET links == 3 + 2 * Len(pages)
      states == links + LinksBefore(pages, Len(pages) + 1)
      dests == states + Len(shared.states)
      items == dests + Unit(Len(doc.dests))
      fonts == items + Len(doc.outlines)
      images == fonts + SizeOf(shared.fonts, Len(shared.fonts) + 1)
      forms == images + Len(shared.images)
  IN [page |-> 3, content |-> 3 + Len(pages), links |-> links, states |-> states, dests |-> dests,
      root |-> items, items |-> items, fonts |-> fonts, images |-> images, forms |-> forms,
      info |-> forms + Len(shared.forms)]

\* Where the objects of each kind begin.  Objects 1 and 2 are the catalog and the list of pages.
FirstIds(doc, shared, pages) ==
  LET links == 3 + 2 * Len(pages)
      states == links + LinksBefore(pages, Len(pages) + 1)
      dests == states + Len(shared.states)
      root == dests + Unit(Len(doc.dests))
      items == root + Unit(Len(doc.outlines))
      fonts == items + Len(doc.outlines)
      images == fonts + SizeOf(shared.fonts, Len(shared.fonts) + 1)
      forms == images + Len(shared.images)
  IN [page |-> 3, content |-> 3 + Len(pages), links |-> links, states |-> states, dests |-> dests,
      root |-> root, items |-> items, fonts |-> fonts, images |-> images, forms |-> forms,
      info |-> forms + Len(shared.forms)]

-----------------------------------------------------------------------------
(* The outline: an entry belongs under the last one before it of a smaller *)
(* level; 0 is the root.                                                   *)

\* MUTANT: under the entry before it if that has a smaller level.
ParentIsBefore(outlines, i) ==
  IF i > 1 /\ outlines[i - 1].level < outlines[i].level THEN i - 1 ELSE 0

Parent(outlines, i) ==
  LET above == {j \in 1 .. i - 1 : outlines[j].level < outlines[i].level}
  IN IF above = {} THEN 0 ELSE Max(above)

Children(outlines, parent) == {i \in DOMAIN outlines : Parent(outlines, i) = parent}

OrNone(found) == IF found = {} THEN 0 ELSE Min(found)

\* The entries below each entry, the last entry first.
Counts(outlines) ==
  LET below[i \in DOMAIN outlines] ==
        FoldSet(LAMBDA child, sum : sum + below[child] + 1, 0, Children(outlines, i))
  IN below

EntryUnder(doc, at, i, parent, siblings, below) ==
  LET Id(j) == at.items + j - 1
      Ids(found) == {Id(j) : j \in found}
  IN [parent |-> IF parent = 0 THEN at.root ELSE Id(parent),
      prev |-> IF Min(siblings) = i THEN 0 ELSE Id(Max({j \in siblings : j < i})),
      next |-> OrNone(Ids({j \in siblings : j > i})),
      first |-> OrNone(Ids(below)),
      last |-> IF below = {} THEN 0 ELSE Id(Max(below)),
      page |-> at.page + doc.outlines[i].page - 1]

Entries(doc, at) ==
  LET counts == Counts(doc.outlines)
      parent == [i \in DOMAIN doc.outlines |-> Parent(doc.outlines, i)]
  IN [i \in DOMAIN parent |->
        EntryUnder(doc, at, i, parent[i], Children(doc.outlines, parent[i]), Children(doc.outlines, i))
        @@ [count |-> counts[i]]]

-----------------------------------------------------------------------------
(* What is written: objects with the references they hold, in the order of *)
(* the file.                                                               *)

Object(id, kind, refs) == [id |-> id, kind |-> kind, refs |-> {ref \in refs : ref[2] # 0}]

FontObjects(font, id) ==
  LET mapped == IF font = "mapped" THEN {<<"unicode", id + 3>>} ELSE {}
  IN CASE font \in {"builtin", "symbol"} -> <<Object(id, "font", {})>>
       [] OTHER -> <<Object(id, "font", {<<"descriptor", id + 1>>} \cup mapped),
                     Object(id + 1, "descriptor", {<<"program", id + 2>>}),
                     Object(id + 2, "program", {})>>
                   \o (IF mapped = {} THEN << >> ELSE <<Object(id + 3, "unicode", {})>>)

PageObject(doc, shared, pages, at, p) ==
  Object(at.page + p - 1, "page",
    {<<"pages", 2>>, <<"content", at.content + p - 1>>}
    \cup {<<"link", at.links + LinksBefore(pages, p) + k - 1>> : k \in 1 .. pages[p].links}
    \cup {<<"state", at.states + IndexIn(shared.states, s) - 1>> : s \in pages[p].states}
    \cup {<<"font", at.fonts + SizeOf(shared.fonts, f)>> : f \in DOMAIN shared.fonts}
    \cup {<<"image", at.images + IndexIn(shared.images, i) - 1>> : i \in doc.pages[p].images}
    \cup {<<"form", at.forms + IndexIn(shared.forms, i) - 1>> : i \in doc.pages[p].forms})

EntryObject(at, entries, i) ==
  Object(at.items + i - 1, "entry",
    {<<IF entries[i].parent = at.root THEN "outline" ELSE "entry", entries[i].parent>>,
     <<"entry", entries[i].prev>>, <<"entry", entries[i].next>>,
     <<"entry", entries[i].first>>, <<"entry", entries[i].last>>, <<"page", entries[i].page>>})

Row(first, count, kind) == [k \in 1 .. count |-> Object(first + k - 1, kind, {})]

Objects(doc, shared, pages, at, entries) ==
  LET tops == {at.items + i - 1 : i \in {j \in DOMAIN entries : entries[j].parent = at.root}}
      catalog == Object(1, "catalog",
                   {<<"pages", 2>>, <<"dests", IF doc.dests = << >> THEN 0 ELSE at.dests>>,
                    <<"outline", IF doc.outlines = << >> THEN 0 ELSE at.root>>})
      kids == Object(2, "pages", {<<"page", at.page + p - 1>> : p \in DOMAIN pages})
      dests == Object(at.dests, "dests", {<<"page", at.page + doc.dests[d] - 1>> : d \in DOMAIN doc.dests})
      root == Object(at.root, "outline",
                {<<"entry", OrNone(tops)>>, <<"entry", IF tops = {} THEN 0 ELSE Max(tops)>>})
  IN <<catalog, kids>>
     \o [p \in DOMAIN pages |-> PageObject(doc, shared, pages, at, p)]
     \o Row(at.content, Len(pages), "content")
     \o Row(at.links, LinksBefore(pages, Len(pages) + 1), "link")
     \o Row(at.states, Len(shared.states), "state")
     \o Row(at.images, Len(shared.images), "image")
     \o Row(at.forms, Len(shared.forms), "form")
     \o (IF doc.dests = << >> THEN << >> ELSE <<dests>>)
     \o (IF entries = << >> THEN << >>
         ELSE <<root>> \o [i \in DOMAIN entries |-> EntryObject(at, entries, i)])
     \o FlattenSeq([f \in DOMAIN shared.fonts |->
                      FontObjects(shared.fonts[f], at.fonts + SizeOf(shared.fonts, f))])
     \o (IF doc.info THEN <<Object(at.info, "info", {})>> ELSE << >>)

FileWith(doc, shared, pages, at, entries) ==
  [objects |-> Objects(doc, shared, pages, at, entries), streams |-> pages,
   fonts |-> shared.fonts, entries |-> entries, items |-> at.items, root |-> at.root]

FileAt(doc, shared, pages, at) == FileWith(doc, shared, pages, at, Entries(doc, at))

FileOf(doc, shared, pages) == FileAt(doc, shared, pages, FirstIds(doc, shared, pages))

WriteFile(doc, pages) == FileOf(doc, Resources(doc, pages), pages)

-----------------------------------------------------------------------------
PdfInit ==
  /\ typeset \in PdfDocuments
  /\ payloads = << >>
  /\ file = Unwritten

RenderPages ==
  /\ payloads = << >> /\ file = Unwritten
  /\ payloads' = RenderAll(typeset, << >>)
  /\ UNCHANGED <<typeset, file>>

Write ==
  /\ payloads # << >> /\ file = Unwritten
  /\ file' = WriteFile(typeset, payloads)
  /\ UNCHANGED <<typeset, payloads>>

PdfNext == RenderPages \/ Write

PdfSpec == PdfInit /\ [][PdfNext]_pdfVars

-----------------------------------------------------------------------------
(* Every page is in the file once, at its place, whatever threads rendered *)
(* it (render_page_payloads joins them last to first and sorts).           *)
PagesInOrder ==
  payloads # << >> =>
    /\ Len(payloads) = Len(typeset.pages)
    /\ \A p \in DOMAIN payloads : payloads[p].page = p /\ payloads[p].text = typeset.pages[p].text

(* The objects are numbered from 1 without a gap and without a number used *)
(* twice, every reference leads to an object of the kind it is meant for,  *)
(* no object is left that nothing refers to, and every font a page names   *)
(* is the one it was set in (the debug assertions of record_object_offset  *)
(* and of the cross-reference table).                                      *)
ReferencesResolve ==
  file # Unwritten =>
    LET written == Range(file.objects)
        referred == UNION {object.refs : object \in written}
    IN /\ {object.id : object \in written} = 1 .. Len(file.objects)
       /\ \A ref \in referred : \E object \in written : object.kind = ref[1] /\ object.id = ref[2]
       /\ \A object \in written :
            object.kind \in {"catalog", "info"} \/ <<object.kind, object.id>> \in referred
       /\ \A p \in DOMAIN file.streams :
            /\ file.streams[p].fonts \subseteq DOMAIN file.fonts
            /\ file.streams[p].math # 0 => file.fonts[file.streams[p].math] = "symbol"

(* Following First and Next from the root visits the entries of the        *)
(* outline in their order, Prev and Next, First and Parent agree, an entry *)
(* is below exactly those before it from which on every level is greater   *)
(* than theirs, and the counts are right (build_outline_objects).          *)
OutlineFollowsLevels ==
  file # Unwritten =>
    LET entries == file.entries
        Id(i) == file.items + i - 1
        Index(id) == id - file.items + 1
        Top(i) == entries[i].parent = file.root
        level == [i \in DOMAIN entries |-> typeset.outlines[i].level]
        after[i \in DOMAIN entries] ==
          IF entries[i].next # 0 THEN entries[i].next
          ELSE IF Top(i) THEN 0 ELSE after[Index(entries[i].parent)]
        above[i \in DOMAIN entries] ==
          IF Top(i) THEN {} ELSE {Index(entries[i].parent)} \cup above[Index(entries[i].parent)]
    IN \A i \in DOMAIN entries :
         /\ (IF entries[i].first # 0 THEN entries[i].first ELSE after[i])
              = IF i = Len(entries) THEN 0 ELSE Id(i + 1)
         /\ entries[i].next # 0 => entries[Index(entries[i].next)].prev = Id(i)
         /\ entries[i].next = 0 /\ ~ Top(i) => entries[Index(entries[i].parent)].last = Id(i)
         /\ above[i] = {j \in 1 .. i - 1 : \A k \in j + 1 .. i : level[k] > level[j]}
         /\ entries[i].count = Cardinality({j \in DOMAIN entries : i \in above[j]})
=============================================================================
