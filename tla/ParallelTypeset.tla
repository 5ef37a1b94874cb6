---------------------------- MODULE ParallelTypeset ----------------------------
(***************************************************************************)
(* Typesetting in threads (compile_job_service.rs: try_partial_typeset_    *)
(* document, try_parallel_full_typeset): work items are dealt to workers,  *)
(* the calling thread does the last group itself and joins the others,     *)
(* and the fragments are merged in the order of the plan.  A failure or a  *)
(* key that two fragments claim makes the job start over, more carefully.  *)
(***************************************************************************)
EXTENDS Integers, Sequences, FiniteSets, SequencesExt, Ordered

CONSTANTS
  NotYet, Keys,
  MaxUnits,         \* BOUND on the partitions
  MaxWorkers,       \* BOUND on the parallelism
  MaxPages,         \* BOUND on the pages of a partition
  MaxFigures,       \* BOUND on its figures
  MaxBroken,        \* BOUND on the partitions that cannot be typeset in a thread
  PagesOrKeys,      \* BOUND: more than one page each or keys; a job never looks at both at once
  FiguresAnywhere,  \* figures in any partition, not only where numbering begins
  SectionsShare     \* sections may share a page when some of them are rebuilt

ASSUME ParallelAssumption ==
  /\ {MaxUnits, MaxWorkers, MaxPages, MaxFigures, MaxBroken} \subseteq Nat
  /\ {PagesOrKeys, FiguresAnywhere, SectionsShare} \subseteq BOOLEAN

VARIABLES
  job, document,
  phase,       \* "partial", "full", "sequential" or "done"
  finished,    \* worker -> its finished items
  failed,      \* the workers that gave up
  reports      \* the partitions whose diagnostics were passed on, in order

parallelVars == <<job, document, phase, finished, failed, reports>>

Plan == INSTANCE SequentialTypeset WITH job <- job, document <- document

-----------------------------------------------------------------------------
(* The work.                                                               *)

Smaller(a, b) == IF a <= b THEN a ELSE b

\* Neighbouring partitions in n chunks; the first ones may be one longer.
Chunk(i, n) ==
  LET long == job.count % n
      short == job.count \div n
      before == (i - 1) * short + Smaller(i - 1, long)
  IN <<before + 1, before + short + IF i <= long THEN 1 ELSE 0>>

\* The items are ranges of partitions.
Items ==
  IF phase = "partial"
    THEN LET units == Ascending(job.rebuild) IN [i \in DOMAIN units |-> <<units[i], units[i]>>]
    ELSE LET n == Smaller(job.parallelism, job.count) IN [i \in 1 .. n |-> Chunk(i, n)]

Workers == 1 .. Smaller(job.parallelism, Len(Items))

\* Dealt round robin, each worker does its own in order.
Share(w) ==
  LET n == Cardinality(Workers)
  IN [k \in 1 .. (Len(Items) - w) \div n + 1 |-> w + (k - 1) * n]

Ended(w) == w \in failed \/ finished[w] = Len(Share(w))

CanFail(i) == \E u \in Items[i][1] .. Items[i][2] : u \in job.broken

-----------------------------------------------------------------------------
(* The result.  A worker lays its item out alone: places and the figures   *)
(* of its partitions count from the item's beginning.                      *)

\* Lists of sections are cut into pages one after the other: nothing to compare.
Collision ==
  /\ phase = "partial" \/ job.kind = "chapter"
  /\ \E i, j \in DOMAIN Items :
       /\ i # j
       /\ \E u \in Items[i][1] .. Items[i][2], v \in Items[j][1] .. Items[j][2] :
            job.keys[u] \intersect job.keys[v] # {}

\* What the cache has of a partition: the pages of the last document from the
\* one it begins on to the one before the next partition's, with the text that
\* the rebuilt partitions had then.
CachedFragment(u) ==
  LET at == Plan!Places(1, job.count)
      end == IF u = job.count THEN Plan!Length(1, u) ELSE at[u + 1]
      pages == Plan!PagesOf(1, job.count)
  IN [p \in 1 .. end - at[u] |->
        {<<c[1], c[2], c[1] \notin job.rebuild>> : c \in pages[at[u] + p]}]

Fragments ==
  IF phase = "full"
    THEN [p \in DOMAIN Items |-> Plan!PagesOf(Items[p][1], Items[p][2])]
    ELSE [u \in Plan!Units |-> IF u \in job.rebuild THEN Plan!PagesOf(u, u) ELSE CachedFragment(u)]

Blank(n) == [p \in 1 .. n |-> {}]

\* MUTANT: no blank page between two fragments.
AppendUnpadded(pages, fragment) == pages \o fragment

\* A chapter's fragment begins on a right-hand page.
AppendFragment(pages, fragment) == pages \o Blank(Plan!Right(Len(pages)) - Len(pages)) \o fragment

\* Vertical lists of sections are built in threads, with the number of
\* figures before them, and cut into pages afterwards.
Merged ==
  LET pipelined == phase = "full" /\ job.kind = "section"
      itemOf(u) == CHOOSE i \in DOMAIN Items : u \in Items[i][1] .. Items[i][2]
      figure(u) ==
        IF pipelined \/ (phase = "partial" /\ u \notin job.rebuild)
          THEN Plan!Figures(1, job.count)[u]
          ELSE LET i == Items[itemOf(u)] IN Plan!Figures(i[1], i[2])[u]
  IN [pages |-> IF pipelined THEN Plan!PagesOf(1, job.count) ELSE FoldLeft(AppendFragment, << >>, Fragments),
      figure |-> Plan!Numbered([u \in Plan!Units |-> figure(u)]),
      destination |-> [key \in Keys |-> Plan!FirstWith(key)]]

\* The calling thread's group comes first.
Reported ==
  LET last == Cardinality(Workers)
      order == <<last>> \o [w \in 1 .. last - 1 |-> w]
      of(i) == [k \in 1 .. Items[i][2] - Items[i][1] + 1 |-> Items[i][1] + k - 1]
      by(w) == FlattenSeq([k \in DOMAIN Share(w) |-> of(Share(w)[k])])
  IN FlattenSeq([k \in 1 .. last |-> by(order[k])])

-----------------------------------------------------------------------------
Jobs ==
  {j \in [count : 2 .. MaxUnits, parallelism : 2 .. MaxWorkers, kind : {"chapter", "section"},
          openright : BOOLEAN, size : [1 .. MaxUnits -> 1 .. MaxPages],
          figures : [1 .. MaxUnits -> 0 .. MaxFigures], keys : [1 .. MaxUnits -> SUBSET Keys],
          broken : {b \in SUBSET (1 .. MaxUnits) : Cardinality(b) <= MaxBroken},
          rebuild : {r \in SUBSET (1 .. MaxUnits) : Cardinality(r) # 1}, joined : SUBSET (2 .. MaxUnits)] :
     /\ j.openright => j.kind = "chapter"
     /\ j.joined # {} => j.kind = "section"
     /\ SectionsShare \/ j.rebuild = {} \/ j.joined = {}
     /\ j.broken \union j.rebuild \union j.joined \subseteq 1 .. j.count
     /\ \A u \in j.count + 1 .. MaxUnits : j.size[u] = 1 /\ j.figures[u] = 0 /\ j.keys[u] = {}
     /\ PagesOrKeys => (\A u \in 1 .. MaxUnits : j.size[u] = 1) \/ (\A u \in 1 .. MaxUnits : j.keys[u] = {})
     /\ (FiguresAnywhere \/ (j.kind = "section" /\ j.rebuild = {}) \/ \A u \in 2 .. MaxUnits : j.figures[u] = 0)}

\* One partition is rebuilt in the calling thread (module BlockReuse).
ParallelInit ==
  /\ job \in Jobs
  /\ document = NotYet
  /\ phase = IF job.rebuild = {} THEN "full" ELSE "partial"
  /\ finished = [w \in 1 .. MaxWorkers |-> 0]
  /\ failed = {}
  /\ reports = << >>

Running == phase \in {"partial", "full"}

Work(w) ==
  /\ Running /\ w \in Workers /\ ~ Ended(w)
  /\ ~ CanFail(Share(w)[finished[w] + 1])
  /\ finished' = [finished EXCEPT ![w] = @ + 1]
  /\ UNCHANGED <<job, document, phase, failed, reports>>

GiveUp(w) ==
  /\ Running /\ w \in Workers /\ ~ Ended(w)
  /\ CanFail(Share(w)[finished[w] + 1])
  /\ failed' = failed \union {w}
  /\ UNCHANGED <<job, document, phase, finished, reports>>

AllEnded == Running /\ \A w \in Workers : Ended(w)
Usable == failed = {} /\ ~ Collision

Merge ==
  /\ AllEnded /\ Usable
  /\ document' = Merged
  /\ reports' = reports \o Reported
  /\ phase' = "done"
  /\ UNCHANGED <<job, finished, failed>>

StartOver ==
  /\ phase' = IF phase = "partial" THEN "full" ELSE "sequential"
  /\ finished' = [w \in 1 .. MaxWorkers |-> 0]
  /\ failed' = {}
  /\ UNCHANGED <<job, document>>

\* MUTANT: the diagnostics are passed on before the fragments are compared.
ReportAndFallBack ==
  /\ AllEnded /\ ~ Usable
  /\ reports' = IF failed = {} THEN reports \o Reported ELSE reports
  /\ StartOver

FallBack ==
  /\ AllEnded /\ ~ Usable
  /\ UNCHANGED reports
  /\ StartOver

TypesetAlone ==
  /\ phase = "sequential"
  /\ document' = Plan!SequentialDocument
  /\ reports' = reports \o [u \in 1 .. job.count |-> u]
  /\ phase' = "done"
  /\ UNCHANGED <<job, finished, failed>>

ParallelNext ==
  \/ \E w \in 1 .. MaxWorkers : Work(w) \/ GiveUp(w)
  \/ Merge
  \/ FallBack
  \/ TypesetAlone

ParallelSpec == ParallelInit /\ [][ParallelNext]_parallelVars /\ WF_parallelVars(ParallelNext)

-----------------------------------------------------------------------------
\* However the workers interleave, whichever of them fails and whatever their
\* fragments claim, the job ends with the document a single thread makes.
ImplementsSequential == Plan!SeqSpec

\* Work that is thrown away leaves no trace: the diagnostics of a partition are
\* passed on once, by the attempt whose result is used.
ReportedOnce ==
  /\ IsInjective(reports)
  /\ document # NotYet => ToSet(reports) \in {Plan!Units, job.rebuild}
=============================================================================
