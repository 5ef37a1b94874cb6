--------------------------- MODULE SequentialTypeset ---------------------------
(***************************************************************************)
(* What the typesetting of a document promises, whatever threads and       *)
(* caches take part in it (BR-6 of domain_model.md): one document, in      *)
(* which the partitions follow each other in the order of the plan.        *)
(***************************************************************************)
EXTENDS Integers, FiniteSets

CONSTANTS NotYet, Keys

VARIABLES
  job,         \* the plan; `size`, `figures` and `keys` of its partitions,
               \* and those `joined` to the last page of the one before
  document     \* what is typeset

seqVars == <<job, document>>

Units == 1 .. job.count

\* Chapters of a book begin on a right-hand page.
Right(at) == IF job.openright /\ at % 2 = 1 THEN at + 1 ELSE at

\* Where the partitions from `first` to `last` begin.
Places(first, last) ==
  LET at[u \in first .. last] ==
        CASE u = first -> 0
          [] u # first /\ u \in job.joined -> at[u - 1] + job.size[u - 1] - 1
          [] OTHER -> Right(at[u - 1] + job.size[u - 1])
  IN at

Length(first, last) == Places(first, last)[last] + job.size[last]

\* Their pages: what is on each, a partition's k-th page, of its current text.
PagesOf(first, last) ==
  LET at == Places(first, last)
  IN [page \in 1 .. Length(first, last) |->
        {<<u, page - at[u], TRUE>> : u \in {v \in first .. last : page - at[v] \in 1 .. job.size[v]}}]

\* How many figures of them come before each of them.
Figures(first, last) ==
  LET before[u \in first .. last] == IF u = first THEN 0 ELSE before[u - 1] + job.figures[u - 1]
  IN before

FirstWith(key) ==
  LET with == {u \in Units : key \in job.keys[u]}
  IN IF with = {} THEN 0 ELSE CHOOSE u \in with : \A v \in with : u <= v

\* The numbers of the first figures, where there are any.
Numbered(before) == [u \in DOMAIN before |-> IF job.figures[u] = 0 THEN 0 ELSE before[u] + 1]

SequentialDocument ==
  [pages |-> PagesOf(1, job.count), figure |-> Numbered(Figures(1, job.count)),
   destination |-> [key \in Keys |-> FirstWith(key)]]

SeqInit == document = NotYet

Typeset ==
  /\ document = NotYet
  /\ document' = SequentialDocument
  /\ UNCHANGED job

SeqSpec == SeqInit /\ [][Typeset]_seqVars /\ WF_seqVars(Typeset)
=============================================================================
