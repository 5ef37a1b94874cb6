-------------------------- MODULE CompileCache_proofs --------------------------
(***************************************************************************)
(* Proofs about CompileCache: what the cache gives back is current, for    *)
(* any files, include structure, contents and bounds.                      *)
(*                                                                         *)
(* The invariant follows a text through the places it can be in: the       *)
(* sources, the loaded job, the warm cache, the works of the queue, the    *)
(* files on disk, the record of a lookup and the plan of what to reuse.    *)
(* Two facts carry it.  In one process there is one record the disk can    *)
(* have that the memory has not (Single).  When contents only move         *)
(* forward, whatever is older in time has smaller contents (NoLater), and  *)
(* a partition between an index and sources that agree with the index is   *)
(* the index's own (BetweenIsPart).                                        *)
(***************************************************************************)
EXTENDS CompileCache, FiniteSetTheorems, TLAPS

(***************************************************************************)
(* Texts as trees.                                                         *)

(* t is all of what its files \input, and nothing but what f leads to.     *)
Closed(t) == \A h \in DOMAIN t : Inputs[h][t[h]] \subseteq DOMAIN t
Tree(t, f) == t \in Texts /\ f \in DOMAIN t /\ Closed(t) /\ DOMAIN t \subseteq Reach(t, f)

(* s is a part of t; where both have a file, s has no later version of it. *)
PartOf(s, t) == \A g \in DOMAIN s : g \in DOMAIN t /\ t[g] = s[g]
NoLater(s, t) == \A g \in DOMAIN s \cap DOMAIN t : s[g] <= t[g]

(* A cache record as a compile makes it.                                   *)
Whole(r) == Tree(r.graph, Root) /\ r.pdf = r.graph
Parts(b, t) == \A f \in DOMAIN b : f \in DOMAIN t /\ Tree(b[f], f) /\ PartOf(b[f], t)

(***************************************************************************)
(* The instances of the theorems.                                          *)

OneProcess == MaxRestarts = 0
ForwardOnly == Services = {1} /\ ~AllowRevert

(***************************************************************************)
(* The record of a failed compile is gone, and nobody writes into a        *)
(* directory that is not there.                                            *)

GoneInv ==
    /\ failed => pc = "idle" /\ ~cacheDir
    /\ ~cacheDir =>
         /\ \A k \in Files \cup {Index} : store[k] = None
         /\ \A s \in Services : writer[s].at = "writing" => writer[s].unlinked

(***************************************************************************)
(* The compile.                                                            *)

(* The first compile of a process finds no writer at work, and in the      *)
(* first process no cache.                                                 *)
First == initial \/ (pc # "idle" /\ hint = {})
FirstInv ==
    /\ initial => pc = "idle" /\ warm = None
    /\ First => \A s \in Services : queue[s] = <<>>
    /\ First /\ OneProcess => ~cacheDir
    /\ ~First /\ pc # "idle" => active + 1 \notin Services
    /\ pc \in {"index", "lookup", "load", "built"} => result = None
    /\ warm # None => pc = "idle"

HeldInv ==
    pc # "idle" =>
      \A g \in Files :
        /\ source[g] \in held[g]
        /\ ForwardOnly => \A c \in held[g] : c <= source[g]

(* What is not in text t as it is now was edited since the compile began.  *)
Noticed(t, S) == \A g \in DOMAIN t \ S : source[g] # t[g] => g \in changed
Seen(t, S) == \A g \in DOMAIN t \ S : t[g] \in held[g]

WarmInv ==
    warm # None =>
      Whole(warm) /\ Parts(warm.subtrees, warm.graph) /\ Noticed(warm.graph, {})

(* The only record that was ever stored.                                   *)
Single(I) ==
    /\ I \in IndexRecords /\ Whole(I) /\ Parts(I.hashes, I.graph)
    /\ \A s \in Services : \A i \in 1..Len(queue[s]) :
         queue[s][i].index = I /\ queue[s][i].blobs = I.hashes
    /\ store[Index] \in {None, Torn, I}
    /\ \A k \in Files :
         IsRecord(store[k]) => k \in DOMAIN I.hashes /\ store[k] = I.hashes[k]

(* The warm cache is missing after a failure, which leaves no cache, and   *)
(* in the second service of a process, which finds the record of the first.*)
HandInv ==
    /\ pc = "idle" /\ ~initial /\ warm = None =>
         failed \/ (OneProcess /\ active # 1 /\ result # None)
    /\ OneProcess /\ pc = "idle" /\ ~initial /\ result # None
         /\ (warm = None \/ active + 1 \in Services) =>
         \E I \in IndexRecords : Single(I) /\ Noticed(I.graph, {})

IndexInv ==
    pc = "index" /\ hint # {} =>
      \/ ~cacheDir
      \/ OneProcess /\ active # 1 /\ \E I \in IndexRecords :
           Single(I) /\ Noticed(I.graph, hint) /\ Seen(I.graph, hint)

(* The record of a compile with a hint says what the compile before it     *)
(* read.  The record of one without, from the disk, may have partitions    *)
(* newer than its graph.                                                   *)
HintedRecord ==
    /\ Parts(record.subtrees, record.graph)
    /\ Noticed(record.graph, hint) /\ Seen(record.graph, hint)
    /\ unread # {} =>
         OneProcess /\ active # 1 /\ \E I \in IndexRecords : Single(I) /\ I.graph = record.graph

Between(t, s) == NoLater(t, s) /\ \A g \in DOMAIN s : s[g] <= source[g]

DiskRecord ==
    /\ ForwardOnly
    /\ \A f \in DOMAIN record.subtrees :
         /\ f \in DOMAIN record.graph
         /\ Tree(record.subtrees[f], f)
         /\ Between(record.graph, record.subtrees[f])
    /\ \A f \in unread :
         /\ f \in DOMAIN record.graph
         /\ IsRecord(store[f]) => NoLater(record.graph, store[f])

RecordInv ==
    pc = "lookup" /\ record # None =>
      Whole(record) /\ IF hint = {} THEN DiskRecord ELSE HintedRecord

(* What may be reused is as it was at some time during the compile.        *)
PlanInv ==
    pc = "load" /\ plan # None =>
      \A f \in DOMAIN plan.subtrees \ (plan.rebuild \cup {Root}) :
        /\ Tree(plan.subtrees[f], f)
        /\ PartOf(plan.subtrees[f], plan.graph)
        /\ Noticed(plan.subtrees[f], {}) /\ Seen(plan.subtrees[f], {})

JobInv ==
    job # None =>
      /\ Tree(job.text, Root) /\ job.graph = job.text
      /\ Parts(job.subtrees, job.text)
      /\ Noticed(job.text, {}) /\ Seen(job.text, {})

ResultInv == result # None => Tree(result, Root) /\ Seen(result, {})

CompileInv ==
    /\ HeldInv /\ WarmInv /\ HandInv /\ IndexInv /\ RecordInv
    /\ PlanInv /\ JobInv /\ ResultInv

(***************************************************************************)
(* The disk, when contents only move forward.                              *)

(* A text of an earlier compile.                                           *)
Earlier(t) ==
    \A g \in DOMAIN t :
      t[g] <= source[g] /\ (pc # "idle" => \A c \in held[g] : t[g] <= c)

IndexRecordInv ==
    IsRecord(store[Index]) =>
      LET i == store[Index] IN
      /\ Whole(i) /\ Parts(i.hashes, i.graph) /\ Earlier(i.graph)
      /\ \A k \in DOMAIN i.hashes : IsRecord(store[k]) => NoLater(i.graph, store[k])

BlobsInv ==
    \A k \in Files : IsRecord(store[k]) => Tree(store[k], k) /\ Earlier(store[k])

(* The works of the queue, the oldest first, all later than the disk.      *)
QueueInv ==
    \A i \in 1..Len(queue[1]) :
      LET w == queue[1][i] IN
      /\ Whole(w.index) /\ w.index.hashes = w.blobs
      /\ Parts(w.blobs, w.index.graph) /\ Earlier(w.index.graph)
      /\ \A j \in i..Len(queue[1]) : NoLater(w.index.graph, queue[1][j].index.graph)
      /\ IsRecord(store[Index]) => NoLater(store[Index].graph, w.index.graph)
      /\ \A k \in Files : IsRecord(store[k]) => NoLater(store[k], w.index.graph)

(* What the index said when a work was enqueued is older than what came    *)
(* after, on the disk and in the queue.                                    *)
PreviousInv ==
    \A i \in 1..Len(queue[1]) :
      LET previous == queue[1][i].previous IN
      \A k \in DOMAIN previous :
        /\ \A j \in 1..i : NoLater(previous[k], queue[1][j].index.graph)
        /\ IsRecord(store[k]) => NoLater(previous[k], store[k])

(* The partitions the running work is done with.                           *)
Done == DOMAIN Work(1).blobs \ (writer[1].left \cup
          IF writer[1].at = "writing" THEN {writer[1].file} ELSE {})
DoneInv ==
    writer[1].at # "idle" =>
      /\ \A k \in Done : IsRecord(store[k]) => store[k] = Work(1).blobs[k]
      /\ writer[1].at = "writing" =>
           /\ writer[1].file \notin writer[1].left
           /\ store[writer[1].file] = IF writer[1].unlinked THEN None ELSE Torn
      /\ writer[1].at = "cleanup" => store[Index] \in {None, Work(1).index}
      /\ writer[1].at = "cleanup" \/ (writer[1].at = "writing" /\ writer[1].file = Index)
           => writer[1].left = {}

(* Partitions that are missing, or damaged though nobody was killed.       *)
TornInv ==
    \A k \in Files : store[k] = Torn =>
      AllowCrash \/ (writer[1].at = "writing" /\ writer[1].file = k)

(* The service's record and what the flush will leave.                     *)
StoredAs(r, disk, works) ==
    LET n == Len(works) IN
    IF n = 0
      THEN IsRecord(disk[Index]) =>
             /\ disk[Index].graph = r.graph /\ disk[Index].pdf = r.pdf
             /\ \A f \in DOMAIN r.subtrees : disk[f] # None
             /\ \A f \in DOMAIN r.subtrees : IsRecord(disk[f]) => disk[f] = r.subtrees[f]
      ELSE /\ works[n].index.graph = r.graph /\ works[n].index.pdf = r.pdf
           /\ works[n].blobs = r.subtrees
Stored(r) == StoredAs(r, store, queue[1])

FlushInv ==
    /\ warm # None => Stored(warm)
    /\ pc = "lookup" /\ record # None => Stored(record)
    /\ Len(queue[1]) = 1 /\ cacheDir /\ writer[1].at # "idle" =>
         /\ writer[1].at = "writing" => ~writer[1].unlinked
         /\ \A k \in Done : store[k] # None

DiskInv ==
    /\ IndexRecordInv /\ BlobsInv /\ QueueInv /\ PreviousInv /\ DoneInv
    /\ TornInv /\ FlushInv

IInv ==
    /\ TypeOK /\ GoneInv /\ FirstInv
    /\ ~faulted => CompileInv
    /\ ~faulted /\ ForwardOnly => DiskInv
-----------------------------------------------------------------------------
(* Facts about texts and what they reach.                                  *)

LEMMA TextShape ==
  ASSUME NEW t
  PROVE  t \in Texts <=> t \in [DOMAIN t -> Contents] /\ DOMAIN t \subseteq Files
BY DEF Texts

LEMMA SubtreesShape ==
  ASSUME NEW b
  PROVE  b \in Subtrees <=> b \in [DOMAIN b -> Texts] /\ DOMAIN b \subseteq Files
BY DEF Subtrees

LEMMA InputsAreFiles ==
  ASSUME NEW f \in Files, NEW c \in Contents
  PROVE  Inputs[f][c] \subseteq Files /\ Root \notin Inputs[f][c]
BY InputsAssumption

LEMMA ReachLeast ==
  ASSUME NEW t, NEW f, NEW S, S \subseteq DOMAIN t, f \in S,
         \A h \in S : Inputs[h][t[h]] \cap DOMAIN t \subseteq S
  PROVE  Reach(t, f) \subseteq S
BY DEF Reach

LEMMA ReachClosed ==
  ASSUME NEW t, NEW f \in DOMAIN t
  PROVE  /\ f \in Reach(t, f) /\ Reach(t, f) \subseteq DOMAIN t
         /\ \A h \in Reach(t, f) : Inputs[h][t[h]] \cap DOMAIN t \subseteq Reach(t, f)
BY DEF Reach

(* A tree that says the same as a closed text about the files both reach   *)
(* is a part of it.                                                        *)
LEMMA AgreeingTree ==
  ASSUME NEW t, NEW f \in DOMAIN t, NEW s, Closed(t), Tree(s, f),
         \A h \in DOMAIN s \cap Reach(t, f) : s[h] = t[h]
  PROVE  DOMAIN s \subseteq Reach(t, f) /\ PartOf(s, t)
<1> DEFINE S == DOMAIN s \cap Reach(t, f)
<1>1. f \in S
  BY ReachClosed DEF Tree
<1>2. \A h \in S : Inputs[h][s[h]] \cap DOMAIN s \subseteq S
  BY ReachClosed DEF Closed
<1>3. Reach(s, f) \subseteq S
  BY <1>1, <1>2, ReachLeast
<1>4. QED
  BY <1>3, ReachClosed DEF Tree, PartOf

LEMMA SameTree ==
  ASSUME NEW f, NEW s, NEW t, Tree(s, f), Tree(t, f),
         \A h \in DOMAIN s \cap DOMAIN t : s[h] = t[h]
  PROVE  s = t
<1>1. DOMAIN s \subseteq Reach(t, f)
  BY AgreeingTree, ReachClosed DEF Tree
<1>2. DOMAIN t \subseteq Reach(s, f)
  BY AgreeingTree, ReachClosed DEF Tree
<1>3. DOMAIN s = DOMAIN t
  BY <1>1, <1>2, ReachClosed DEF Tree
<1>4. s \in [DOMAIN s -> Contents] /\ t \in [DOMAIN s -> Contents]
  BY <1>3, TextShape DEF Tree
<1>5. QED
  BY <1>3, <1>4

LEMMA SubtreeIsTree ==
  ASSUME NEW t \in Texts, Closed(t), NEW f \in DOMAIN t
  PROVE  Tree(Restrict(t, Reach(t, f)), f) /\ PartOf(Restrict(t, Reach(t, f)), t)
<1> DEFINE R == Reach(t, f)
           r == Restrict(t, R)
<1>1. DOMAIN r = R /\ \A h \in R : r[h] = t[h]
  BY DEF Restrict
<1>2. f \in R /\ R \subseteq DOMAIN t /\ \A h \in R : Inputs[h][t[h]] \cap DOMAIN t \subseteq R
  BY ReachClosed
<1>3. r \in Texts
  <2>1. t \in [DOMAIN t -> Contents] /\ DOMAIN t \subseteq Files
    BY TextShape
  <2>2. r \in [R -> Contents]
    BY <2>1, <1>2 DEF Restrict
  <2>3. QED
    BY <2>1, <2>2, <1>1, <1>2, TextShape
<1>4. Closed(r)
  BY <1>1, <1>2 DEF Closed
<1>5. R \subseteq Reach(r, f)
  <2>1. SUFFICES ASSUME NEW S \in SUBSET R, f \in S,
                        \A h \in S : Inputs[h][r[h]] \cap R \subseteq S
                 PROVE  R \subseteq S
    BY <1>1 DEF Reach
  <2>2. \A h \in S : Inputs[h][t[h]] \cap DOMAIN t \subseteq S
    BY <1>1, <1>2, <2>1
  <2>3. QED
    BY <1>2, <2>1, <2>2, ReachLeast
<1>6. QED
  BY <1>1, <1>2, <1>3, <1>4, <1>5 DEF Tree, PartOf

(* A partition between an index and sources that the index knows as they   *)
(* are is the index's partition.                                           *)
LEMMA BetweenIsPart ==
  ASSUME TypeOK, NEW t, NEW f \in DOMAIN t, Tree(t, Root), NEW s, Tree(s, f),
         Between(t, s), \A h \in Reach(t, f) : source[h] = t[h]
  PROVE  DOMAIN s \subseteq Reach(t, f) /\ PartOf(s, t)
<1>1. ASSUME NEW h \in DOMAIN s \cap Reach(t, f)
      PROVE  s[h] = t[h]
  <2>1. h \in DOMAIN t /\ h \in DOMAIN s
    BY ReachClosed
  <2>2. t[h] \in Nat /\ s[h] \in Nat
    BY <2>1, TextShape, ContentsAssumption DEF Tree
  <2>3. t[h] <= s[h] /\ s[h] <= t[h]
    BY <2>1 DEF Between, NoLater
  <2>4. QED
    BY <2>2, <2>3
<1>2. QED
  BY <1>1, AgreeingTree DEF Tree

-----------------------------------------------------------------------------
(* The loading of the source tree.                                         *)

LEMMA ReadAnewFacts ==
  ASSUME TypeOK
  PROVE  /\ Root \in ReadAnew /\ ReadAnew \subseteq Files
         /\ \A f \in ReadAnew : \A h \in Inputs[f][source[f]] : Reusable(h) \/ h \in ReadAnew
         /\ \A S \in SUBSET Files :
              Root \in S
              /\ (\A f \in S : \A h \in Inputs[f][source[f]] : Reusable(h) \/ h \in S)
                => ReadAnew \subseteq S
         /\ \A g \in ReadAnew : 
              g # Root => ~Reusable(g) /\ \E f \in ReadAnew : g \in Inputs[f][source[f]]
<1>1. /\ Root \in ReadAnew /\ ReadAnew \subseteq Files
      /\ \A S \in SUBSET Files :
           Root \in S
           /\ (\A f \in S : \A h \in Inputs[f][source[f]] : Reusable(h) \/ h \in S)
             => ReadAnew \subseteq S
  BY FilesAssumption DEF ReadAnew
<1>2. ASSUME NEW f \in ReadAnew, NEW h \in Inputs[f][source[f]], ~Reusable(h)
      PROVE  h \in ReadAnew
  <2>1. h \in Files
    BY <1>1, InputsAreFiles DEF TypeOK, HistoryOK
  <2>2. QED
    BY <1>2, <2>1 DEF ReadAnew
<1>3. ReadAnew \subseteq
        {g \in ReadAnew :
           g # Root => ~Reusable(g) /\ \E f \in ReadAnew : g \in Inputs[f][source[f]]}
  <2> DEFINE S == {g \in ReadAnew :
           g # Root => ~Reusable(g) /\ \E f \in ReadAnew : g \in Inputs[f][source[f]]}
  <2>1. Root \in S /\ S \in SUBSET Files
    BY <1>1
  <2>2. \A f \in S : \A h \in Inputs[f][source[f]] : Reusable(h) \/ h \in S
    BY <1>2
  <2> HIDE DEF S
  <2>3. ReadAnew \subseteq S
    BY <1>1, <2>1, <2>2
  <2>4. QED
    BY <2>3 DEF S
<1>4. QED
  BY <1>1, <1>2, <1>3

(* A reused partition has none of the files that are read anew: each of    *)
(* them has one place from which it is \input, and that is read anew too.  *)
LEMMA ReusedApart ==
  ASSUME TypeOK, NEW r, Reusable(r), NEW s, Tree(s, r)
  PROVE  DOMAIN s \cap ReadAnew = {}
<1> DEFINE S == DOMAIN s \ ReadAnew
<1>1. r \in S
  BY ReadAnewFacts DEF Tree, Reusable
<1>2. ASSUME NEW h \in S, NEW g \in Inputs[h][s[h]] \cap DOMAIN s, g \in ReadAnew
      PROVE  FALSE
  <2>1. h \in Files /\ s[h] \in Contents /\ g \in Files
    BY <1>2, TextShape DEF Tree
  <2>2. g # Root
    BY <1>2, <2>1, InputsAreFiles
  <2>3. PICK p \in ReadAnew : g \in Inputs[p][source[p]]
    BY <1>2, <2>2, ReadAnewFacts
  <2>4. p \in Files /\ source[p] \in Contents
    BY ReadAnewFacts DEF TypeOK, HistoryOK
  <2>5. p = h
    BY <1>2, <2>1, <2>3, <2>4, TreeAssumption
  <2>6. QED
    BY <1>2, <2>3, <2>5
<1>3. Reach(s, r) \subseteq S
  BY <1>1, <1>2, ReachLeast
<1>4. QED
  BY <1>3 DEF Tree

LEMMA LoadType ==
  ASSUME TypeOK, Load
  PROVE  job' \in Jobs
<1> DEFINE s(r) == plan.subtrees[r]
           old == UNION {DOMAIN s(r) : r \in Reused}
           text == [f \in ReadAnew \cup old |->
                      IF f \in ReadAnew THEN source[f]
                      ELSE s(CHOOSE r \in Reused : f \in DOMAIN s(r))[f]]
           graph == [f \in ReadAnew \cup {g \in old : g \in DOMAIN plan.graph} |->
                      IF f \in ReadAnew THEN source[f] ELSE KeptHash(f)]
           parts == [f \in ReadAnew \cup Reused |->
                      IF f \in ReadAnew THEN Restrict(text, Reach(text, f)) ELSE s(f)]
<1>1. job' = [text |-> text, graph |-> graph, subtrees |-> parts]
  BY DEF Load
<1>2. ASSUME NEW r \in Reused
      PROVE  r \in Files /\ s(r) \in Texts /\ plan \in Plans
  <2>1. r \in DOMAIN plan.subtrees /\ plan # None
    BY DEF Reused, Reusable
  <2>2. plan \in Plans
    BY <2>1 DEF TypeOK, CompileOK
  <2>3. QED
    BY <2>1, <2>2, SubtreesShape DEF Plans
<1>3. ASSUME NEW f \in ReadAnew
      PROVE  f \in Files /\ source[f] \in Contents
  BY ReadAnewFacts DEF TypeOK, HistoryOK
<1>4. ASSUME NEW f \in old
      PROVE  /\ f \in Files
             /\ s(CHOOSE r \in Reused : f \in DOMAIN s(r))[f] \in Contents
             /\ f \in DOMAIN plan.graph => KeptHash(f) \in Contents
  <2> DEFINE c == CHOOSE r \in Reused : f \in DOMAIN s(r)
  <2>1. c \in Reused /\ f \in DOMAIN s(c)
    OBVIOUS
  <2>2. s(c) \in [DOMAIN s(c) -> Contents] /\ DOMAIN s(c) \subseteq Files
    BY <1>2, <2>1, TextShape
  <2>3. plan.graph \in [DOMAIN plan.graph -> Contents]
    BY <1>2, <2>1, TextShape DEF Plans
  <2>4. QED
    BY <2>1, <2>2, <2>3 DEF KeptHash
<1>5. text \in Texts
  <2>1. text \in [ReadAnew \cup old -> Contents] /\ ReadAnew \cup old \subseteq Files
    BY <1>3, <1>4
  <2>2. QED
    BY <2>1, TextShape
<1>6. graph \in Texts
  <2> DEFINE D == ReadAnew \cup {g \in old : g \in DOMAIN plan.graph}
  <2>1. graph \in [D -> Contents] /\ D \subseteq Files
    BY <1>3, <1>4
  <2>2. QED
    BY <2>1, TextShape
<1>7. parts \in Subtrees
  <2>1. ASSUME NEW f \in ReadAnew
        PROVE  Restrict(text, Reach(text, f)) \in Texts
    <3>1. Reach(text, f) \subseteq DOMAIN text
      BY DEF Reach
    <3>2. text \in [DOMAIN text -> Contents] /\ DOMAIN text \subseteq Files
      BY <1>5, TextShape
    <3> HIDE DEF text
    <3>3. Restrict(text, Reach(text, f)) \in [Reach(text, f) -> Contents]
      BY <3>1, <3>2 DEF Restrict
    <3>4. QED
      BY <3>1, <3>2, <3>3, TextShape
  <2>2. parts \in [ReadAnew \cup Reused -> Texts] /\ ReadAnew \cup Reused \subseteq Files
    BY <1>2, <1>3, <2>1
  <2>3. QED
    BY <2>2, SubtreesShape
<1> HIDE DEF text, graph, parts
<1>8. QED
  BY <1>1, <1>5, <1>6, <1>7 DEF Jobs

LEMMA Loading ==
  ASSUME TypeOK, HeldInv, PlanInv, Load
  PROVE  /\ Tree(job'.text, Root) /\ job'.graph = job'.text
         /\ Parts(job'.subtrees, job'.text)
         /\ Noticed(job'.text, {}) /\ Seen(job'.text, {})
<1> DEFINE s(r) == plan.subtrees[r]
           old == UNION {DOMAIN s(r) : r \in Reused}
           text == [f \in ReadAnew \cup old |->
                      IF f \in ReadAnew THEN source[f]
                      ELSE s(CHOOSE r \in Reused : f \in DOMAIN s(r))[f]]
           graph == [f \in ReadAnew \cup {g \in old : g \in DOMAIN plan.graph} |->
                      IF f \in ReadAnew THEN source[f] ELSE KeptHash(f)]
           parts == [f \in ReadAnew \cup Reused |->
                      IF f \in ReadAnew THEN Restrict(text, Reach(text, f)) ELSE s(f)]
<1>1. job' = [text |-> text, graph |-> graph, subtrees |-> parts]
  BY DEF Load
<1>2. ASSUME NEW r \in Reused
      PROVE  /\ Reusable(r) /\ plan # None
             /\ \E p \in ReadAnew : r \in Inputs[p][source[p]]
             /\ Tree(s(r), r) /\ PartOf(s(r), plan.graph)
             /\ Noticed(s(r), {}) /\ Seen(s(r), {})
             /\ DOMAIN s(r) \cap ReadAnew = {}
  <2>1. Reusable(r) /\ \E p \in ReadAnew : r \in Inputs[p][source[p]]
    BY DEF Reused
  <2>2. plan # None /\ r \in DOMAIN plan.subtrees \ (plan.rebuild \cup {Root})
    BY <2>1 DEF Reusable
  <2>3. pc = "load"
    BY DEF Load
  <2>4. Tree(s(r), r) /\ PartOf(s(r), plan.graph) /\ Noticed(s(r), {}) /\ Seen(s(r), {})
    BY <2>2, <2>3 DEF PlanInv
  <2>5. QED
    BY <2>1, <2>2, <2>4, ReusedApart
<1>3. ASSUME NEW f \in old
      PROVE  /\ f \notin ReadAnew /\ text[f] = plan.graph[f] /\ f \in DOMAIN plan.graph
             /\ \E r \in Reused : f \in DOMAIN s(r) /\ s(r)[f] = text[f]
  <2>1. \E r \in Reused : f \in DOMAIN s(r)
    OBVIOUS
  <2> DEFINE c == CHOOSE r \in Reused : f \in DOMAIN s(r)
  <2>2. c \in Reused /\ f \in DOMAIN s(c)
    BY <2>1
  <2>3. f \notin ReadAnew
    BY <1>2, <2>2
  <2>4. text[f] = s(c)[f]
    BY <2>3
  <2>5. f \in DOMAIN plan.graph /\ plan.graph[f] = s(c)[f]
    BY <1>2, <2>2 DEF PartOf
  <2>6. QED
    BY <2>2, <2>3, <2>4, <2>5
<1>4. ASSUME NEW f \in ReadAnew
      PROVE  text[f] = source[f] /\ f \in Files
  BY ReadAnewFacts
<1>5. ASSUME NEW r \in Reused
      PROVE  PartOf(s(r), text)
  BY <1>2, <1>3 DEF PartOf
<1>6. DOMAIN text = ReadAnew \cup old
  OBVIOUS
<1>7. text \in Texts
  BY <1>1, LoadType DEF Jobs
<1>8. graph = text
  <2>1. old = {g \in old : g \in DOMAIN plan.graph}
    BY <1>3
  <2>2. ASSUME NEW f \in ReadAnew \cup old
        PROVE  text[f] = IF f \in ReadAnew THEN source[f] ELSE KeptHash(f)
    BY <1>3, <1>4 DEF KeptHash
  <2>3. QED
    BY <2>1, <2>2, Zenon
<1> HIDE DEF text, graph, old
<1>9. Closed(text)
  <2>1. ASSUME NEW h \in ReadAnew, NEW g \in Inputs[h][source[h]]
        PROVE  g \in DOMAIN text
    <3>1. Reusable(g) \/ g \in ReadAnew
      BY ReadAnewFacts
    <3>2. CASE Reusable(g)
      <4>1. g \in Reused
        BY <3>2, ReadAnewFacts, InputsAreFiles DEF Reused, TypeOK, HistoryOK
      <4>2. g \in DOMAIN s(g)
        BY <1>2, <4>1 DEF Tree
      <4>3. QED
        BY <1>5, <4>1, <4>2 DEF PartOf
    <3>3. QED
      BY <1>6, <3>1, <3>2
  <2>2. ASSUME NEW h \in old, NEW g \in Inputs[h][text[h]]
        PROVE  g \in DOMAIN text
    <3>1. PICK r \in Reused : h \in DOMAIN s(r) /\ s(r)[h] = text[h]
      BY <1>3
    <3>2. g \in DOMAIN s(r)
      BY <1>2, <2>2, <3>1 DEF Tree, Closed
    <3>3. QED
      BY <1>5, <3>2 DEF PartOf
  <2>3. QED
    BY <1>4, <1>6, <2>1, <2>2 DEF Closed
<1>10. DOMAIN text \subseteq Reach(text, Root)
  <2>1. SUFFICES ASSUME NEW S \in SUBSET DOMAIN text, Root \in S,
                        \A h \in S : Inputs[h][text[h]] \cap DOMAIN text \subseteq S
                 PROVE  DOMAIN text \subseteq S
    BY DEF Reach
  <2>2. ReadAnew \subseteq S
    <3> DEFINE T == S \cap ReadAnew
    <3>1. Root \in T /\ T \in SUBSET Files
      BY <2>1, ReadAnewFacts
    <3>2. ASSUME NEW f \in T, NEW h \in Inputs[f][source[f]], ~Reusable(h)
          PROVE  h \in T
      <4>1. h \in ReadAnew
        BY <3>2, ReadAnewFacts
      <4>2. h \in DOMAIN text /\ h \in Inputs[f][text[f]]
        BY <1>4, <1>6, <4>1, <3>2
      <4>3. QED
        BY <2>1, <3>2, <4>1, <4>2
    <3> HIDE DEF T
    <3>3. ReadAnew \subseteq T
      BY <3>1, <3>2, ReadAnewFacts
    <3>4. QED
      BY <3>3 DEF T
  <2>3. ASSUME NEW r \in Reused
        PROVE  DOMAIN s(r) \subseteq S
    <3>1. PICK p \in ReadAnew : r \in Inputs[p][source[p]]
      BY <1>2
    <3>2. DOMAIN s(r) \subseteq DOMAIN text /\ r \in DOMAIN s(r)
      BY <1>2, <1>5 DEF PartOf, Tree
    <3>3. r \in S
      BY <1>4, <2>1, <2>2, <3>1, <3>2
    <3> DEFINE T == S \cap DOMAIN s(r)
    <3>4. \A h \in T : Inputs[h][s(r)[h]] \cap DOMAIN s(r) \subseteq T
      BY <1>5, <2>1, <3>2 DEF PartOf
    <3>5. Reach(s(r), r) \subseteq T
      BY <3>2, <3>3, <3>4, ReachLeast
    <3>6. QED
      BY <1>2, <3>5 DEF Tree
  <2>4. old \subseteq S
    BY <2>3 DEF old
  <2>5. QED
    BY <1>6, <2>2, <2>4
<1>11. Tree(text, Root)
  BY <1>6, <1>7, <1>9, <1>10, ReadAnewFacts DEF Tree
<1>12. ASSUME NEW f \in DOMAIN parts
       PROVE  f \in DOMAIN text /\ Tree(parts[f], f) /\ PartOf(parts[f], text)
  <2>1. CASE f \in ReadAnew
    <3>1. parts[f] = Restrict(text, Reach(text, f))
      BY <2>1
    <3>2. f \in DOMAIN text
      BY <1>6, <2>1
    <3>3. Tree(Restrict(text, Reach(text, f)), f) /\ PartOf(Restrict(text, Reach(text, f)), text)
      BY <1>7, <1>9, <3>2, SubtreeIsTree
    <3>4. QED
      BY <3>1, <3>2, <3>3
  <2>2. CASE f \notin ReadAnew
    <3>1. f \in Reused /\ parts[f] = s(f)
      BY <2>2
    <3>2. Tree(s(f), f) /\ PartOf(s(f), text)
      BY <1>2, <1>5, <3>1
    <3>3. f \in DOMAIN text
      BY <3>2 DEF Tree, PartOf
    <3>4. QED
      BY <3>1, <3>2, <3>3
  <2>3. QED
    BY <2>1, <2>2
<1>13. Noticed(text, {}) /\ Seen(text, {})
  <2>1. pc # "idle"
    BY DEF Load
  <2>2. ASSUME NEW f \in ReadAnew
        PROVE  source[f] = text[f] /\ text[f] \in held[f]
    BY <1>4, <2>1 DEF HeldInv
  <2>3. ASSUME NEW f \in old
        PROVE  (source[f] # text[f] => f \in changed) /\ text[f] \in held[f]
    <3>1. PICK r \in Reused : f \in DOMAIN s(r) /\ s(r)[f] = text[f]
      BY <1>3
    <3>2. QED
      BY <1>2, <3>1 DEF Noticed, Seen
  <2>4. QED
    BY <1>6, <2>2, <2>3 DEF Noticed, Seen
<1> HIDE DEF parts
<1>14. job'.text = text /\ job'.graph = text /\ job'.subtrees = parts
  BY <1>1, <1>8
<1>15. QED
  BY <1>11, <1>12, <1>13, <1>14 DEF Parts

-----------------------------------------------------------------------------
(* Types.                                                                  *)

LEMMA Absent ==
  /\ None # Torn /\ Index \notin Files /\ Root \in Files
  /\ \A t \in Texts \cup CacheRecords \cup IndexRecords \cup Jobs : t # None /\ t # Torn
BY AbsentAssumption, FilesAssumption

LEMMA InitType == Init => TypeOK
<1> SUFFICES ASSUME Init
             PROVE  TypeOK
  OBVIOUS
<1>1. DiskOK
  BY DEF Init, DiskOK
<1>2. WriterOK
  BY DEF Init, WriterOK, Writers
<1>3. CompileOK
  BY ServicesAssumption DEF Init, CompileOK
<1>4. HistoryOK
  BY DEF Init, HistoryOK
<1>5. QED
  BY <1>1, <1>2, <1>3, <1>4 DEF TypeOK

LEMMA EmptyTextIsText == EmptyText \in Texts /\ NoSubtrees \in Subtrees
<1>1. EmptyText \in [{} -> Contents] /\ NoSubtrees \in [{} -> Texts]
  BY DEF EmptyText, NoSubtrees
<1>2. QED
  BY <1>1 DEF Texts, Subtrees

LEMMA CompileTypes ==
  ASSUME TypeOK, Compile
  PROVE  TypeOK'
<1> USE DEF TypeOK
<1>1. ASSUME NEW h \in SUBSET Files, Begin(h)
      PROVE  TypeOK'
  <2>1. DiskOK' /\ WriterOK'
    BY <1>1 DEF Begin, DiskOK, WriterOK, diskVars, writerVars, Work
  <2>2. CompileOK'
    BY <1>1 DEF Begin, CompileOK
  <2>3. HistoryOK'
    <3>1. held' \in [Files -> SUBSET Contents]
      BY <1>1 DEF Begin, HistoryOK
    <3>2. result' = None /\ failed' = FALSE /\ faulted' = faulted /\ initial' = FALSE
          /\ changed' = {} /\ compiles' \in Nat /\ UNCHANGED <<source, edits, restarts>>
      BY <1>1 DEF Begin, HistoryOK
    <3>3. QED
      BY <3>1, <3>2 DEF HistoryOK
  <2>4. QED
    BY <2>1, <2>2, <2>3
<1>2. ASSUME ReadIndex
      PROVE  TypeOK'
  <2>1. DiskOK' /\ WriterOK'
    BY <1>2 DEF ReadIndex, DiskOK, WriterOK, diskVars, writerVars, Work
  <2>2. CompileOK'
    <3>1. CASE IsRecord(store[Index])
      <4>1. store[Index] \in IndexRecords
        BY <3>1 DEF DiskOK, IsRecord
      <4>2. DOMAIN store[Index].hashes \subseteq Files
        BY <4>1, SubtreesShape DEF IndexRecords
      <4>3. record' \in CacheRecords
        BY <1>2, <3>1, <4>1, EmptyTextIsText DEF ReadIndex, IndexRecords, CacheRecords
      <4>4. QED
        BY <1>2, <3>1, <4>2, <4>3, Absent DEF ReadIndex, CompileOK
    <3>2. CASE ~IsRecord(store[Index])
      BY <1>2, <3>2 DEF ReadIndex, CompileOK
    <3>3. QED
      BY <3>1, <3>2
  <2>3. HistoryOK'
    BY <1>2 DEF ReadIndex, HistoryOK, outcomeVars, counters
  <2>4. QED
    BY <2>1, <2>2, <2>3
<1>3. ASSUME NEW k \in Files, ReadBlob(k)
      PROVE  TypeOK'
  <2>1. DiskOK' /\ WriterOK'
    BY <1>3 DEF ReadBlob, DiskOK, WriterOK, diskVars, writerVars, Work
  <2>2. CompileOK'
    <3>1. record \in CacheRecords
      BY <1>3 DEF ReadBlob, CompileOK
    <3>2. record' \in CacheRecords
      <4>1. CASE IsRecord(store[k])
        <5>1. store[k] \in Texts
          BY <4>1 DEF DiskOK, IsRecord
        <5> DEFINE b == record.subtrees
                   c == [f \in DOMAIN b \cup {k} |-> IF f = k THEN store[k] ELSE b[f]]
        <5>2. b \in [DOMAIN b -> Texts] /\ DOMAIN b \subseteq Files
          BY <3>1, SubtreesShape DEF CacheRecords
        <5>3. c \in [DOMAIN c -> Texts] /\ DOMAIN c \subseteq Files
          BY <5>1, <5>2
        <5>4. c \in Subtrees
          BY <5>3, SubtreesShape
        <5>5. record' = [graph |-> record.graph, pdf |-> record.pdf, subtrees |-> c]
          BY <1>3, <4>1 DEF ReadBlob, WithPartition
        <5> HIDE DEF c
        <5>6. QED
          BY <3>1, <5>4, <5>5 DEF CacheRecords
      <4>2. CASE ~IsRecord(store[k])
        BY <1>3, <3>1, <4>2 DEF ReadBlob
      <4>3. QED
        BY <4>1, <4>2
    <3>3. QED
      BY <1>3, <3>2, Absent DEF ReadBlob, CompileOK
  <2>3. HistoryOK'
    BY <1>3 DEF ReadBlob, HistoryOK, outcomeVars, counters
  <2>4. QED
    BY <2>1, <2>2, <2>3
<1>4. ASSUME Hit
      PROVE  TypeOK'
  <2>1. DiskOK' /\ WriterOK'
    BY <1>4 DEF Hit, Return, DiskOK, WriterOK, diskVars, writerVars, Work
  <2>2. record \in CacheRecords /\ pdf = record.pdf
    BY <1>4 DEF Hit, PdfIsCurrent, CompileOK
  <2>3. CompileOK'
    BY <1>4, <2>2 DEF Hit, Return, CompileOK
  <2>4. HistoryOK'
    BY <1>4, <2>2 DEF Hit, HistoryOK, outcomeVars, counters, CacheRecords
  <2>5. QED
    BY <2>1, <2>3, <2>4
<1>5. ASSUME Miss
      PROVE  TypeOK'
  <2>1. DiskOK' /\ WriterOK'
    BY <1>5 DEF Miss, DiskOK, WriterOK, diskVars, writerVars, Work
  <2>2. plan' \in Plans \cup {None}
    <3>1. CASE record = None \/ DetectedChanges = {}
      BY <1>5, <3>1 DEF Miss
    <3>2. CASE record # None /\ DetectedChanges # {}
      <4>1. record \in CacheRecords
        BY <3>2 DEF CompileOK
      <4>2. Affected(record.graph, DetectedChanges) \subseteq Files
        BY <4>1, TextShape DEF Affected, CacheRecords
      <4>3. plan' = [rebuild |-> Affected(record.graph, DetectedChanges),
                     graph |-> record.graph, subtrees |-> record.subtrees]
        BY <1>5, <3>2 DEF Miss
      <4>4. QED
        BY <4>1, <4>2, <4>3 DEF CacheRecords, Plans
    <3>3. QED
      BY <3>1, <3>2
  <2>3. CompileOK'
    BY <1>5, <2>2 DEF Miss, CompileOK, LookupReady
  <2>4. HistoryOK'
    BY <1>5 DEF Miss, HistoryOK, outcomeVars, counters
  <2>5. QED
    BY <2>1, <2>3, <2>4
<1>6. ASSUME Load
      PROVE  TypeOK'
  <2>1. DiskOK' /\ WriterOK'
    BY <1>6 DEF Load, DiskOK, WriterOK, diskVars, writerVars, Work
  <2>2. job' \in Jobs
    BY <1>6, LoadType
  <2>3. pc' = "built" /\ plan' = None
        /\ UNCHANGED <<active, warm, hint, record, unread>>
    BY <1>6 DEF Load
  <2>4. CompileOK'
    BY <2>2, <2>3, Absent DEF CompileOK
  <2>5. HistoryOK'
    BY <1>6 DEF Load, HistoryOK, outcomeVars, counters
  <2>6. QED
    BY <2>1, <2>4, <2>5
<1>7. ASSUME Fail
      PROVE  TypeOK'
  <2>1. DiskOK'
    BY <1>7 DEF Fail, RemoveRecord, DiskOK
  <2>2. WriterOK'
    <3>1. ASSUME NEW s \in Services
          PROVE  /\ writer'[s] \in Writers
                 /\ writer[s].at = "idle" => writer'[s] = writer[s]
                 /\ writer[s].at # "idle" => writer'[s].at = writer[s].at /\ writer'[s].left = writer[s].left
                 /\ writer[s].at = "writing" => writer'[s].file = writer[s].file
      BY <1>7 DEF Fail, RemoveRecord, WriterOK, Writers
    <3>2. writer' \in [Services -> Writers] /\ queue' = queue
      BY <1>7, <3>1 DEF Fail, RemoveRecord
    <3>3. QED
      BY <3>1, <3>2 DEF WriterOK, Work
  <2>3. CompileOK'
    BY <1>7 DEF Fail, Return, CompileOK
  <2>4. HistoryOK'
    BY <1>7 DEF Fail, HistoryOK, counters
  <2>5. QED
    BY <2>1, <2>2, <2>3, <2>4
<1>8. ASSUME WritePdf
      PROVE  TypeOK'
  <2>1. job.text \in Texts
    BY <1>8 DEF WritePdf, CompileOK, Jobs
  <2>2. DiskOK' /\ WriterOK'
    BY <1>8, <2>1 DEF WritePdf, DiskOK, WriterOK, writerVars, Work
  <2>3. CompileOK'
    BY <1>8 DEF WritePdf, CompileOK, compileVars
  <2>4. HistoryOK'
    BY <1>8, <2>1 DEF WritePdf, HistoryOK, counters
  <2>5. QED
    BY <2>2, <2>3, <2>4
<1>9. ASSUME Store
      PROVE  TypeOK'
  <2>1. job \in Jobs
    BY <1>9 DEF Store, CompileOK
  <2>2. PreviousHashes \in Subtrees
    BY EmptyTextIsText DEF PreviousHashes, DiskOK, IsRecord, IndexRecords
  <2> DEFINE w == [blobs |-> job.subtrees, previous |-> PreviousHashes,
                   index |-> [graph |-> job.graph, pdf |-> job.text, hashes |-> job.subtrees]]
  <2>3. w \in Works
    BY <2>1, <2>2 DEF Works, Jobs, IndexRecords
  <2>4. queue' = [queue EXCEPT ![active] = Append(@, w)]
    BY <1>9 DEF Store
  <2> HIDE DEF w
  <2>5. DiskOK'
    BY <1>9 DEF Store, DiskOK
  <2>6. WriterOK'
    <3>1. queue' \in [Services -> Seq(Works)]
      BY <2>3, <2>4 DEF WriterOK, CompileOK
    <3>2. \A s \in Services : queue[s] # <<>> => queue'[s] # <<>> /\ Head(queue'[s]) = Head(queue[s])
      BY <2>3, <2>4 DEF WriterOK, CompileOK
    <3>3. QED
      BY <1>9, <3>1, <3>2 DEF Store, WriterOK, Work
  <2>7. warm' \in CacheRecords
    BY <1>9, <2>1 DEF Store, CacheRecords, Jobs
  <2>8. CompileOK'
    BY <1>9, <2>7 DEF Store, Return, CompileOK
  <2>9. HistoryOK'
    BY <1>9 DEF Store, HistoryOK, outcomeVars, counters
  <2>10. QED
    BY <2>5, <2>6, <2>8, <2>9
<1>10. QED
  BY <1>1, <1>2, <1>3, <1>4, <1>5, <1>6, <1>7, <1>8, <1>9 DEF Compile

LEMMA WriterTypes ==
  ASSUME TypeOK, NEW s \in Services, Write(s)
  PROVE  TypeOK'
<1> USE DEF TypeOK
<1>1. UNCHANGED writerUnchanged
  BY DEF Write, Take, Skip, Open, WriteOut, Cleanup
<1>2. CompileOK' /\ HistoryOK' /\ pdf' = pdf
  BY <1>1 DEF writerUnchanged, CompileOK, HistoryOK, compileVars, outcomeVars, counters
<1>3. queue[s] \in Seq(Works) /\ writer[s] \in Writers
  BY DEF WriterOK
<1>4. queue[s] # <<>> => Work(s) \in Works /\ Tail(queue[s]) \in Seq(Works)
  BY <1>3 DEF Work
<1>5. ASSUME writer[s].at # "idle"
      PROVE  /\ Work(s) \in Works /\ DOMAIN Work(s).blobs \subseteq Files
             /\ writer[s].left \subseteq DOMAIN Work(s).blobs
             /\ writer[s].at = "writing" => writer[s].file \in DOMAIN Work(s).blobs \cup {Index}
  BY <1>4, <1>5, SubtreesShape DEF WriterOK, Works
<1>6. ASSUME NEW v \in Writers, writer' = [writer EXCEPT ![s] = v],
             queue' = queue, v.at # "idle" => queue[s] # <<>> /\ v.left \subseteq DOMAIN Work(s).blobs,
             v.at = "writing" => v.file \in DOMAIN Work(s).blobs \cup {Index}
      PROVE  WriterOK'
  BY <1>6 DEF WriterOK, Work
<1>7. ASSUME Drop(s), queue[s] # <<>>
      PROVE  WriterOK'
  BY <1>4, <1>7 DEF Drop, WriterOK, Work, Writers
<1>8. CASE Take(s)
  <2>1. [at |-> "next", left |-> DOMAIN Work(s).blobs] \in Writers
    BY <1>4, <1>8, SubtreesShape DEF Take, Writers, Works
  <2>2. WriterOK'
    BY <1>6, <1>8, <2>1 DEF Take
  <2>3. QED
    BY <1>2, <1>8, <2>2 DEF Take, DiskOK
<1>9. ASSUME NEW k \in Files, Skip(s, k)
      PROVE  TypeOK'
  <2> DEFINE v == [at |-> "next", left |-> writer[s].left \ {k}]
  <2>1. v \in Writers /\ v.at = "next" /\ v.left \subseteq writer[s].left
    BY <1>3, <1>9 DEF Skip, Writers
  <2>2. writer' = [writer EXCEPT ![s] = v] /\ queue' = queue
    BY <1>9 DEF Skip
  <2>3. writer[s].at # "idle" /\ queue[s] # <<>>
    BY <1>9 DEF Skip, WriterOK
  <2> HIDE DEF v
  <2>4. WriterOK'
    BY <1>5, <1>6, <2>1, <2>2, <2>3
  <2>5. QED
    BY <1>2, <1>9, <2>4 DEF Skip, DiskOK
<1>10. ASSUME NEW k \in Files \cup {Index}, Open(s, k)
       PROVE  TypeOK'
  <2>1. writer[s].at = "next" /\ queue[s] # <<>>
    BY <1>10 DEF Open, WriterOK
  <2>2. CASE CanWrite
    <3> DEFINE v == [at |-> "writing", file |-> k, left |-> writer[s].left \ {k}, unlinked |-> FALSE]
    <3>1. /\ v \in Writers /\ v.left \subseteq writer[s].left
          /\ v.file \in DOMAIN Work(s).blobs \cup {Index}
      BY <1>5, <1>10, <2>1 DEF Writers, Open, NextFile
    <3>2. WriterOK'
      BY <1>5, <1>6, <1>10, <2>1, <2>2, <3>1 DEF Open
    <3>3. DiskOK'
      BY <1>2, <1>10, <2>2 DEF Open, DiskOK
    <3>4. QED
      BY <1>2, <3>2, <3>3
  <2>3. CASE ~CanWrite
    BY <1>2, <1>7, <1>10, <2>1, <2>3 DEF Open, DiskOK
  <2>4. QED
    BY <2>2, <2>3
<1>11. CASE WriteOut(s)
  <2>1. writer[s].at = "writing" /\ queue[s] # <<>> /\ writer[s].file \in Files \cup {Index}
    BY <1>3, <1>11 DEF WriteOut, WriterOK, Writers
  <2>2. Work(s).index \in IndexRecords
    BY <1>5, <2>1 DEF Works
  <2> DEFINE v == [at |-> IF writer[s].file = Index THEN "cleanup" ELSE "next", left |-> writer[s].left]
  <2>3. v \in Writers
    BY <1>5, <2>1 DEF Writers
  <2>4. WriterOK'
    BY <1>5, <1>6, <1>11, <2>1, <2>3 DEF WriteOut
  <2> DEFINE k == writer[s].file
  <2>5. DiskOK'
    <3>1. CASE writer[s].unlinked
      BY <1>2, <1>11, <3>1 DEF WriteOut, DiskOK
    <3>2. CASE ~writer[s].unlinked /\ k = Index
      BY <1>2, <1>11, <2>2, <3>2, Absent DEF WriteOut, DiskOK
    <3>3. CASE ~writer[s].unlinked /\ k # Index
      <4>1. Work(s).blobs[k] \in Texts
        BY <1>5, <2>1, <3>3, SubtreesShape DEF Works
      <4>2. QED
        BY <1>2, <1>11, <2>1, <3>3, <4>1, Absent DEF WriteOut, DiskOK
    <3>4. QED
      BY <3>1, <3>2, <3>3
  <2>6. QED
    BY <1>2, <2>4, <2>5
<1>12. CASE Cleanup(s)
  <2>1. queue[s] # <<>>
    BY <1>12 DEF Cleanup, WriterOK
  <2>2. QED
    BY <1>2, <1>7, <1>12, <2>1 DEF Cleanup, DiskOK
<1>13. QED
  BY <1>8, <1>9, <1>10, <1>11, <1>12 DEF Write

LEMMA OtherTypes ==
  ASSUME TypeOK,
         \/ \E f \in Files, c \in Contents : Edit(f, c)
         \/ PdfFault \/ StoreFault \/ Evict \/ Restart \/ Crash \/ Handover
  PROVE  TypeOK'
<1> USE DEF TypeOK
<1>1. ASSUME NEW f \in Files, NEW c \in Contents, Edit(f, c)
      PROVE  TypeOK'
  <2>1. DiskOK' /\ WriterOK' /\ CompileOK'
    BY <1>1 DEF Edit, DiskOK, WriterOK, CompileOK, diskVars, writerVars, compileVars, Work
  <2>2. HistoryOK'
    BY <1>1 DEF Edit, HistoryOK, outcomeVars
  <2>3. QED
    BY <2>1, <2>2
<1>2. ASSUME PdfFault \/ StoreFault
      PROVE  TypeOK'
  <2>1. DiskOK' /\ WriterOK'
    BY <1>2 DEF PdfFault, StoreFault, DiskOK, WriterOK, diskVars, writerVars, Work
  <2>2. CompileOK'
    BY <1>2 DEF PdfFault, StoreFault, Return, CompileOK
  <2>3. HistoryOK'
    BY <1>2 DEF PdfFault, StoreFault, HistoryOK, counters
  <2>4. QED
    BY <2>1, <2>2, <2>3
<1>3. ASSUME Evict
      PROVE  TypeOK'
  <2>1. DiskOK'
    BY <1>3 DEF Evict, RemoveRecord, writerUnchanged, DiskOK
  <2>2. WriterOK'
    <3>1. ASSUME NEW s \in Services
          PROVE  /\ writer'[s] \in Writers
                 /\ writer[s].at = "idle" => writer'[s] = writer[s]
                 /\ writer[s].at # "idle" => writer'[s].at = writer[s].at /\ writer'[s].left = writer[s].left
                 /\ writer[s].at = "writing" => writer'[s].file = writer[s].file
      BY <1>3 DEF Evict, RemoveRecord, WriterOK, Writers
    <3>2. writer' \in [Services -> Writers] /\ queue' = queue
      BY <1>3, <3>1 DEF Evict, RemoveRecord
    <3>3. QED
      BY <3>1, <3>2 DEF WriterOK, Work
  <2>3. CompileOK' /\ HistoryOK'
    BY <1>3 DEF Evict, writerUnchanged, CompileOK, HistoryOK, compileVars, outcomeVars, counters
  <2>4. QED
    BY <2>1, <2>2, <2>3
<1>4. ASSUME Restart
      PROVE  TypeOK'
  <2>1. DiskOK' /\ WriterOK'
    BY <1>4 DEF Restart, NewProcess, DiskOK, WriterOK, writerVars, Work
  <2>2. CompileOK'
    BY <1>4, ServicesAssumption DEF Restart, NewProcess, Return, CompileOK
  <2>3. HistoryOK'
    BY <1>4 DEF Restart, NewProcess, HistoryOK, outcomeVars
  <2>4. QED
    BY <2>1, <2>2, <2>3
<1>5. ASSUME Crash
      PROVE  TypeOK'
  <2>1. DiskOK'
    BY <1>5 DEF Crash, NewProcess, DiskOK
  <2>2. WriterOK'
    BY <1>5 DEF Crash, WriterOK, Writers
  <2>3. CompileOK'
    BY <1>5, ServicesAssumption DEF Crash, NewProcess, Return, CompileOK
  <2>4. HistoryOK'
    BY <1>5 DEF Crash, NewProcess, HistoryOK, outcomeVars
  <2>5. QED
    BY <2>1, <2>2, <2>3, <2>4
<1>6. ASSUME Handover
      PROVE  TypeOK'
  <2>1. DiskOK' /\ WriterOK'
    BY <1>6 DEF Handover, DiskOK, WriterOK, diskVars, writerVars, Work
  <2>2. CompileOK'
    BY <1>6 DEF Handover, CompileOK, compileVars
  <2>3. HistoryOK'
    BY <1>6 DEF Handover, HistoryOK, outcomeVars, counters
  <2>4. QED
    BY <2>1, <2>2, <2>3
<1>7. QED
  BY <1>1, <1>2, <1>3, <1>4, <1>5, <1>6

LEMMA TypeStep == TypeOK /\ [Next]_vars => TypeOK'
<1> SUFFICES ASSUME TypeOK, [Next]_vars
             PROVE  TypeOK'
  OBVIOUS
<1>1. CASE UNCHANGED vars
  BY <1>1 DEF vars, TypeOK, DiskOK, WriterOK, CompileOK, HistoryOK, diskVars, writerVars,
              compileVars, outcomeVars, counters, Work
<1>2. QED
  BY <1>1, CompileTypes, WriterTypes, OtherTypes DEF Next

-----------------------------------------------------------------------------
(* The removed cache, and the first compile of a process.                  *)

LEMMA GoneStep == TypeOK /\ GoneInv /\ [Next]_vars => GoneInv'
<1> SUFFICES ASSUME TypeOK, GoneInv, [Next]_vars
             PROVE  GoneInv'
  OBVIOUS
<1>1. ASSUME NEW f \in Files, NEW c \in Contents, Edit(f, c)
      PROVE  GoneInv'
  BY <1>1 DEF Edit, GoneInv, diskVars, writerVars, outcomeVars
<1>2. CASE Compile
  <2>1. ASSUME NEW h \in SUBSET Files, Begin(h)
        PROVE  GoneInv'
    BY <2>1 DEF Begin, GoneInv, diskVars, writerVars
  <2>2. CASE ReadIndex \/ (\E k \in Files : ReadBlob(k)) \/ Miss \/ Load
    BY <2>2 DEF ReadIndex, ReadBlob, Miss, Load, LookupReady, GoneInv, diskVars, writerVars, outcomeVars
  <2>3. CASE Hit \/ WritePdf
    BY <2>3 DEF Hit, WritePdf, LookupReady, Return, GoneInv, diskVars, writerVars
  <2>4. CASE Fail
    <3>1. \A s \in Services : writer'[s].at = "writing" => writer'[s].unlinked
      BY <2>4 DEF Fail, RemoveRecord
    <3>2. \A k \in Files \cup {Index} : store'[k] = None
      BY <2>4 DEF Fail, RemoveRecord, TypeOK, DiskOK
    <3>3. QED
      BY <2>4, <3>1, <3>2 DEF Fail, RemoveRecord, Return, GoneInv
  <2>5. CASE Store
    BY <2>5 DEF Store, Return, GoneInv, outcomeVars
  <2>6. QED
    BY <1>2, <2>1, <2>2, <2>3, <2>4, <2>5 DEF Compile
<1>3. CASE PdfFault \/ StoreFault
  BY <1>3 DEF PdfFault, StoreFault, Return, GoneInv, diskVars, writerVars
<1>4. ASSUME NEW s \in Services, Write(s)
      PROVE  GoneInv'
  <2>1. cacheDir' = cacheDir /\ failed' = failed /\ pc' = pc
    BY <1>4 DEF Write, Take, Skip, Open, WriteOut, Cleanup, writerUnchanged, outcomeVars
  <2>2. SUFFICES ASSUME ~cacheDir
                 PROVE  /\ \A k \in Files \cup {Index} : store'[k] = None
                        /\ \A r \in Services : writer'[r].at = "writing" => writer'[r].unlinked
    BY <2>1 DEF GoneInv
  <2>3. writer \in [Services -> Writers]
    BY DEF TypeOK, WriterOK
  <2>4. CASE Take(s) \/ \E k \in Files : Skip(s, k)
    BY <2>2, <2>3, <2>4 DEF Take, Skip, GoneInv
  <2>5. CASE \E k \in Files \cup {Index} : Open(s, k)
    BY <2>2, <2>3, <2>5 DEF Open, CanWrite, Drop, GoneInv
  <2>6. CASE WriteOut(s)
    BY <2>2, <2>3, <2>6 DEF WriteOut, GoneInv
  <2>7. CASE Cleanup(s)
    <3>1. \A k \in Files \cup {Index} : store'[k] = None
      BY <2>2, <2>7 DEF Cleanup, GoneInv, TypeOK, DiskOK
    <3>2. QED
      BY <2>2, <2>3, <2>7, <3>1 DEF Cleanup, Drop, GoneInv
  <2>8. QED
    BY <1>4, <2>4, <2>5, <2>6, <2>7 DEF Write
<1>5. CASE Evict
  <2>1. \A s \in Services : writer'[s].at = "writing" => writer'[s].unlinked
    BY <1>5 DEF Evict, RemoveRecord
  <2>2. \A k \in Files \cup {Index} : store'[k] = None
    BY <1>5 DEF Evict, RemoveRecord, TypeOK, DiskOK
  <2>3. QED
    BY <1>5, <2>1, <2>2 DEF Evict, RemoveRecord, writerUnchanged, outcomeVars, GoneInv
<1>6. CASE Restart
  BY <1>6 DEF Restart, NewProcess, Return, GoneInv, writerVars, outcomeVars
<1>7. CASE Crash
  BY <1>7 DEF Crash, NewProcess, Return, GoneInv, outcomeVars
<1>8. CASE Handover
  BY <1>8 DEF Handover, GoneInv, diskVars, writerVars, outcomeVars
<1>9. CASE UNCHANGED vars
  BY <1>9 DEF vars, diskVars, writerVars, outcomeVars, GoneInv
<1>10. QED
  BY <1>1, <1>2, <1>3, <1>4, <1>5, <1>6, <1>7, <1>8, <1>9 DEF Next

LEMMA FirstStep == TypeOK /\ FirstInv /\ [Next]_vars => FirstInv'
<1> SUFFICES ASSUME TypeOK, FirstInv, [Next]_vars
             PROVE  FirstInv'
  OBVIOUS
<1> USE DEF FirstInv, First
<1>1. ASSUME NEW f \in Files, NEW c \in Contents, Edit(f, c)
      PROVE  FirstInv'
  BY <1>1 DEF Edit, diskVars, writerVars, compileVars, outcomeVars
<1>2. CASE Compile
  <2>1. ASSUME NEW h \in SUBSET Files, Begin(h)
        PROVE  FirstInv'
    BY <2>1 DEF Begin, diskVars, writerVars
  <2>2. CASE ReadIndex \/ (\E k \in Files : ReadBlob(k)) \/ Miss \/ Load
    BY <2>2 DEF ReadIndex, ReadBlob, Miss, Load, LookupReady, diskVars, writerVars, outcomeVars
  <2>3. CASE Hit \/ WritePdf \/ Fail \/ Store
    BY <2>3 DEF Hit, WritePdf, Fail, Store, RemoveRecord, LookupReady, Return, diskVars, writerVars,
                compileVars, outcomeVars
  <2>4. QED
    BY <1>2, <2>1, <2>2, <2>3 DEF Compile
<1>3. CASE PdfFault \/ StoreFault
  BY <1>3 DEF PdfFault, StoreFault, Return, diskVars, writerVars
<1>4. ASSUME NEW s \in Services, Write(s)
      PROVE  FirstInv'
  <2>1. UNCHANGED <<cacheDir, active, warm, pc, hint, initial, result>>
    BY <1>4 DEF Write, Take, Skip, Open, WriteOut, Cleanup, writerUnchanged, compileVars, outcomeVars
  <2>2. queue[s] # <<>>
    BY <1>4 DEF Write, Take, Skip, Open, WriteOut, Cleanup, TypeOK, WriterOK
  <2>3. QED
    BY <2>1, <2>2
<1>5. CASE Evict
  BY <1>5 DEF Evict, RemoveRecord, writerUnchanged, compileVars, outcomeVars
<1>6. CASE Restart \/ Crash
  BY <1>6, BoundsAssumption
     DEF Restart, Crash, NewProcess, Return, Drained, writerVars, OneProcess, TypeOK, HistoryOK
<1>7. CASE Handover
  BY <1>7 DEF Handover, diskVars, writerVars, compileVars, outcomeVars
<1>8. CASE UNCHANGED vars
  BY <1>8 DEF vars, diskVars, writerVars, compileVars, outcomeVars
<1>9. QED
  BY <1>1, <1>2, <1>3, <1>4, <1>5, <1>6, <1>7, <1>8 DEF Next

-----------------------------------------------------------------------------
(* The compile.                                                            *)

LEMMA SingleWrite ==
  ASSUME TypeOK, NEW I \in IndexRecords, Single(I), NEW s \in Services, Write(s)
  PROVE  Single(I)'
<1>1. queue[s] # <<>> /\ queue[s] \in Seq(Works) /\ writer \in [Services -> Writers]
  BY DEF TypeOK, WriterOK, Write, Take, Skip, Open, WriteOut, Cleanup
<1>2. Work(s).index = I /\ Work(s).blobs = I.hashes
  BY <1>1 DEF Single, Work
<1>3. \A r \in Services : \A i \in 1..Len(queue'[r]) :
        queue'[r][i].index = I /\ queue'[r][i].blobs = I.hashes
  <2>1. CASE queue' = queue
    BY <2>1 DEF Single
  <2>2. CASE Drop(s)
    <3>1. \A i \in 1..Len(Tail(queue[s])) : Tail(queue[s])[i] = queue[s][i + 1]
                                           /\ i + 1 \in 1..Len(queue[s])
      BY <1>1
    <3>2. \A r \in Services : queue'[r] = IF r = s THEN Tail(queue[s]) ELSE queue[r]
      BY <2>2 DEF Drop, TypeOK, WriterOK
    <3>3. ASSUME NEW r \in Services, NEW i \in 1..Len(queue'[r])
          PROVE  queue'[r][i].index = I /\ queue'[r][i].blobs = I.hashes
      <4>1. CASE r = s
        <5>1. queue'[r] = Tail(queue[s]) /\ i \in 1..Len(Tail(queue[s]))
          BY <3>2, <3>3, <4>1
        <5>2. queue'[r][i] = queue[s][i + 1] /\ i + 1 \in 1..Len(queue[s])
          BY <3>1, <5>1
        <5>3. QED
          BY <5>2 DEF Single
      <4>2. CASE r # s
        BY <3>2, <4>2 DEF Single
      <4>3. QED
        BY <4>1, <4>2
    <3>4. QED
      BY <3>3
  <2>3. QED
    BY <2>1, <2>2 DEF Write, Take, Skip, Open, WriteOut, Cleanup
<1> DEFINE OnDisk ==
      /\ store'[Index] \in {None, Torn, I}
      /\ \A k \in Files : IsRecord(store'[k]) => k \in DOMAIN I.hashes /\ store'[k] = I.hashes[k]
<1>4. OnDisk
  <2>1. CASE store' = store
    BY <2>1 DEF Single
  <2>2. ASSUME NEW k \in Files \cup {Index}, store' = [store EXCEPT ![k] = Torn]
        PROVE  OnDisk
    BY <2>2, Absent DEF Single, IsRecord, TypeOK, DiskOK
  <2>3. CASE WriteOut(s)
    <3> DEFINE k == writer[s].file
    <3>1. k \in DOMAIN I.hashes \cup {Index}
      BY <1>2, <2>3 DEF WriteOut, TypeOK, WriterOK
    <3>2. store' = store \/ store' = [store EXCEPT ![k] = IF k = Index THEN I ELSE I.hashes[k]]
      BY <1>2, <2>3 DEF WriteOut
    <3>3. QED
      BY <2>1, <3>1, <3>2, Absent DEF Single, IsRecord, TypeOK, DiskOK
  <2>4. CASE Cleanup(s)
    BY <2>4, Absent DEF Cleanup, Single, IsRecord, TypeOK, DiskOK
  <2>5. QED
    BY <2>1, <2>2, <2>3, <2>4 DEF Write, Take, Skip, Open
<1>5. QED
  BY <1>3, <1>4 DEF Single, IsRecord

LEMMA EditKeepsCompile ==
  ASSUME TypeOK, CompileInv, NEW f \in Files, NEW c \in Contents, Edit(f, c)
  PROVE  CompileInv'
<1> USE DEF CompileInv, Noticed, Seen
<1>1. /\ \A g \in Files : g # f => source'[g] = source[g] /\ held'[g] = held[g]
      /\ f \in changed' /\ changed \subseteq changed'
      /\ \A g \in Files : held[g] \subseteq held'[g]
      /\ source'[f] = c /\ (pc # "idle" => c \in held'[f] /\ held'[f] \subseteq held[f] \cup {c})
      /\ pc = "idle" => held' = held
  BY DEF Edit, TypeOK, HistoryOK
<1>2. ASSUME ForwardOnly
      PROVE  \A g \in Files : source[g] \in Nat /\ source'[g] \in Nat /\ source[g] <= source'[g]
  <2>1. \A g \in Files : source[g] \in Nat
    BY ContentsAssumption DEF TypeOK, HistoryOK
  <2>2. c \in Nat /\ c > source[f]
    BY <1>2, ContentsAssumption DEF Edit, ForwardOnly
  <2>3. QED
    BY <1>1, <2>1, <2>2
<1>3. UNCHANGED <<store, cacheDir, queue, active, warm, pc, hint, record, unread, plan, job, initial,
                  result, failed>>
  BY DEF Edit, diskVars, writerVars, compileVars, outcomeVars
<1>4. \A t \in Texts : DOMAIN t \subseteq Files
  BY TextShape
<1>5. HeldInv'
  <2>1. SUFFICES ASSUME pc # "idle", NEW g \in Files
                 PROVE  /\ source'[g] \in held'[g]
                        /\ ForwardOnly => \A d \in held'[g] : d <= source'[g]
    BY <1>3 DEF HeldInv, ForwardOnly
  <2>2. source[g] \in held[g] /\ (ForwardOnly => \A d \in held[g] : d <= source[g])
    BY <2>1 DEF HeldInv
  <2>3. \A d \in held[g] \cup {c} : d \in Nat
    BY ContentsAssumption DEF TypeOK, HistoryOK
  <2>4. CASE g # f
    BY <1>1, <2>2, <2>4
  <2>5. CASE g = f
    BY <1>1, <1>2, <2>1, <2>2, <2>3, <2>5
  <2>6. QED
    BY <2>4, <2>5
<1>6. WarmInv'
  BY <1>1, <1>3, <1>4 DEF WarmInv, Whole, Tree
<1>7. HandInv'
  BY <1>1, <1>3, <1>4 DEF HandInv, Single, OneProcess, IsRecord, IndexRecords
<1>8. IndexInv'
  BY <1>1, <1>3, <1>4 DEF IndexInv, Single, OneProcess, IsRecord, IndexRecords
<1>9. RecordInv'
  <2>1. SUFFICES ASSUME pc = "lookup", record # None
                 PROVE  Whole(record) /\ IF hint = {} THEN DiskRecord' ELSE HintedRecord'
    BY <1>3 DEF RecordInv
  <2>2. Whole(record) /\ IF hint = {} THEN DiskRecord ELSE HintedRecord
    BY <2>1 DEF RecordInv
  <2>3. CASE hint = {}
    <3>1. ASSUME NEW g \in DOMAIN record.subtrees
          PROVE  Between(record.graph, record.subtrees[g])'
      <4>1. Between(record.graph, record.subtrees[g]) /\ Tree(record.subtrees[g], g) /\ ForwardOnly
        BY <2>2, <2>3, <3>1 DEF DiskRecord
      <4>2. record.subtrees[g] \in [DOMAIN record.subtrees[g] -> Contents]
            /\ DOMAIN record.subtrees[g] \subseteq Files
        BY <4>1, TextShape DEF Tree
      <4>3. \A h \in DOMAIN record.subtrees[g] :
              record.subtrees[g][h] \in Nat /\ source[h] \in Nat /\ source'[h] \in Nat
        BY <1>1, <4>2, ContentsAssumption DEF TypeOK, HistoryOK
      <4>4. QED
        BY <1>2, <1>3, <4>1, <4>2, <4>3 DEF Between, NoLater
    <3>2. QED
      BY <1>3, <2>2, <2>3, <3>1 DEF DiskRecord, ForwardOnly, IsRecord
  <2>4. CASE hint # {}
    BY <1>1, <1>3, <1>4, <2>2, <2>4
       DEF HintedRecord, Whole, Tree, Single, OneProcess, IsRecord
  <2>5. QED
    BY <2>2, <2>3, <2>4
<1>10. PlanInv'
  BY <1>1, <1>3, <1>4 DEF PlanInv, Tree
<1>11. JobInv'
  BY <1>1, <1>3, <1>4 DEF JobInv, Tree
<1>12. ResultInv'
  BY <1>1, <1>3, <1>4 DEF ResultInv, Tree
<1>13. QED
  BY <1>5, <1>6, <1>7, <1>8, <1>9, <1>10, <1>11, <1>12

LEMMA WriterKeepsCompile ==
  ASSUME TypeOK, FirstInv, CompileInv, NEW s \in Services, Write(s)
  PROVE  CompileInv'
<1> USE DEF CompileInv, Noticed, Seen
<1>1. /\ UNCHANGED <<source, active, warm, pc, hint, record, unread, plan, job, initial, changed,
                     result, failed, held, cacheDir>>
  BY DEF Write, Take, Skip, Open, WriteOut, Cleanup, writerUnchanged, compileVars, outcomeVars
<1>2. ~First
  BY DEF FirstInv, Write, Take, Skip, Open, WriteOut, Cleanup, TypeOK, WriterOK
<1>3. HeldInv' /\ WarmInv' /\ PlanInv' /\ JobInv' /\ ResultInv'
  BY <1>1 DEF HeldInv, WarmInv, PlanInv, JobInv, ResultInv, ForwardOnly
<1>4. HandInv'
  BY <1>1, SingleWrite DEF HandInv, OneProcess
<1>5. IndexInv'
  BY <1>1, SingleWrite DEF IndexInv, OneProcess
<1>6. RecordInv'
  BY <1>1, <1>2, SingleWrite DEF RecordInv, HintedRecord, First, OneProcess
<1>7. QED
  BY <1>3, <1>4, <1>5, <1>6

LEMMA SingleGone ==
  ASSUME TypeOK, NEW I \in IndexRecords, Single(I), RemoveRecord, queue' = queue
  PROVE  Single(I)'
BY FilesAssumption DEF Single, RemoveRecord, IsRecord, TypeOK, DiskOK

LEMMA EvictKeepsCompile ==
  ASSUME TypeOK, CompileInv, Evict
  PROVE  CompileInv'
<1> USE DEF CompileInv, Noticed, Seen
<1>1. /\ UNCHANGED <<source, active, warm, pc, hint, record, unread, plan, job, initial, changed,
                     result, failed, held, queue>>
      /\ RemoveRecord /\ cacheDir' = FALSE
  BY DEF Evict, RemoveRecord, writerUnchanged, compileVars, outcomeVars
<1>2. \A k \in Files : store'[k] = None
  BY <1>1 DEF RemoveRecord, TypeOK, DiskOK
<1>3. HeldInv' /\ WarmInv' /\ PlanInv' /\ JobInv' /\ ResultInv'
  BY <1>1 DEF HeldInv, WarmInv, PlanInv, JobInv, ResultInv, ForwardOnly
<1>4. HandInv' /\ IndexInv'
  BY <1>1, SingleGone DEF HandInv, IndexInv, OneProcess
<1>5. RecordInv'
  <2>1. unread \subseteq Files
    BY DEF TypeOK, CompileOK
  <2>2. QED
    BY <1>1, <1>2, <2>1, SingleGone
       DEF RecordInv, HintedRecord, DiskRecord, Between, OneProcess, ForwardOnly, IsRecord
<1>6. QED
  BY <1>3, <1>4, <1>5

LEMMA ProcessKeepsCompile ==
  ASSUME TypeOK, FirstInv, CompileInv, OneProcess \/ ForwardOnly, Restart \/ Crash \/ Handover
  PROVE  CompileInv'
<1> USE DEF CompileInv, Noticed, Seen
<1>1. CASE Restart \/ Crash
  <2>1. /\ pc' = "idle" /\ warm' = None /\ initial' = TRUE /\ job' = None /\ result' = result
        /\ held' = held
    BY <1>1 DEF Restart, Crash, NewProcess, Return, outcomeVars
  <2>2. ResultInv'
    BY <2>1 DEF ResultInv
  <2>3. QED
    BY <2>1, <2>2 DEF HeldInv, WarmInv, HandInv, IndexInv, RecordInv, PlanInv, JobInv
<1>2. CASE Handover
  <2>1. /\ UNCHANGED <<source, store, cacheDir, queue, pc, job, initial, changed, result, failed,
                       held>>
        /\ pc = "idle" /\ result # None /\ ~initial /\ active + 1 \in Services /\ warm' = None
        /\ job = None
    BY <1>2 DEF Handover, diskVars, writerVars, compileVars, outcomeVars, TypeOK, CompileOK
  <2>2. OneProcess
    <3>1. ForwardOnly => active = 1 /\ active + 1 = 1
      BY <2>1 DEF ForwardOnly, TypeOK, CompileOK
    <3>2. QED
      BY <3>1
  <2>3. HandInv'
    <3>1. active' = active + 1 /\ active \in 1..Cardinality(Services) /\ active' # 1
      BY <1>2, ServicesAssumption, FS_CardinalityType DEF Handover, TypeOK, CompileOK
    <3>2. QED
      BY <2>1, <2>2, <3>1 DEF HandInv, Single, IsRecord, OneProcess
  <2>4. ResultInv'
    BY <2>1 DEF ResultInv
  <2>5. QED
    BY <2>1, <2>3, <2>4 DEF HeldInv, WarmInv, IndexInv, RecordInv, PlanInv, JobInv
<1>3. QED
  BY <1>1, <1>2

LEMMA BeginKeepsCompile ==
  ASSUME TypeOK, GoneInv, FirstInv, CompileInv, NEW h \in SUBSET Files, Begin(h)
  PROVE  CompileInv'
<1> USE DEF CompileInv, Noticed, Seen
<1>1. /\ pc = "idle" /\ hint' = h /\ warm' = None /\ record' = warm /\ unread' = {}
      /\ initial' = FALSE /\ changed' = {} /\ result' = None /\ job' = job /\ job = None
      /\ held' = [f \in Files |-> {source[f]}]
      /\ pc' = IF warm = None THEN "index" ELSE "lookup"
      /\ IF initial THEN h = {} ELSE h # {} /\ changed \subseteq h
      /\ UNCHANGED <<source, store, cacheDir, queue, active>>
  BY DEF Begin, diskVars, writerVars, TypeOK, CompileOK
<1>2. \A t \in Texts : DOMAIN t \subseteq Files
  BY TextShape
<1>3. HeldInv'
  BY <1>1, ContentsAssumption DEF HeldInv, ForwardOnly, TypeOK, HistoryOK
<1>4. WarmInv' /\ PlanInv' /\ JobInv' /\ ResultInv' /\ HandInv'
  BY <1>1 DEF WarmInv, PlanInv, JobInv, ResultInv, HandInv
<1>5. IndexInv'
  <2>1. SUFFICES ASSUME warm = None, h # {}
                 PROVE  \/ ~cacheDir'
                        \/ OneProcess /\ active # 1 /\ \E I \in IndexRecords :
                             Single(I)' /\ Noticed(I.graph, h)' /\ Seen(I.graph, h)'
    BY <1>1 DEF IndexInv, OneProcess
  <2>2. \/ failed
        \/ OneProcess /\ active # 1 /\ \E I \in IndexRecords : Single(I) /\ Noticed(I.graph, {})
    BY <1>1, <2>1 DEF HandInv
  <2>3. CASE failed
    BY <1>1, <2>3 DEF GoneInv
  <2>4. ASSUME OneProcess, active # 1, NEW I \in IndexRecords, Single(I), Noticed(I.graph, {})
        PROVE  Single(I)' /\ Noticed(I.graph, h)' /\ Seen(I.graph, h)'
    <3>1. DOMAIN I.graph \subseteq Files
      BY <1>2 DEF IndexRecords
    <3>2. \A g \in DOMAIN I.graph \ h : source[g] = I.graph[g]
      BY <1>1, <2>1, <2>4
    <3>3. Single(I)'
      BY <1>1, <2>4 DEF Single, IsRecord
    <3>4. QED
      BY <1>1, <3>1, <3>2, <3>3
  <2>5. QED
    BY <2>2, <2>3, <2>4
<1>6. RecordInv'
  <2>1. CASE warm = None
    BY <1>1, <2>1 DEF RecordInv
  <2>2. CASE warm # None
    <3>1. ~initial /\ h # {}
      BY <1>1, <2>2 DEF FirstInv
    <3>2. Whole(warm) /\ Parts(warm.subtrees, warm.graph) /\ Noticed(warm.graph, {})
      BY <2>2 DEF WarmInv
    <3>3. DOMAIN warm.graph \subseteq Files
      BY <1>2, <3>2 DEF Whole, Tree
    <3>4. QED
      BY <1>1, <3>1, <3>2, <3>3 DEF RecordInv, HintedRecord
  <2>3. QED
    BY <2>1, <2>2
<1>7. QED
  BY <1>3, <1>4, <1>5, <1>6

LEMMA ReadIndexKeepsCompile ==
  ASSUME TypeOK, GoneInv, FirstInv, CompileInv, ForwardOnly => DiskInv,
         OneProcess \/ ForwardOnly, ReadIndex
  PROVE  CompileInv'
<1> USE DEF CompileInv, Noticed, Seen
<1>1. /\ UNCHANGED <<source, store, cacheDir, queue, active, warm, hint, plan, job, initial,
                     changed, result, failed, held>>
      /\ pc = "index" /\ pc' = "lookup" /\ job = None
  BY DEF ReadIndex, diskVars, writerVars, outcomeVars, TypeOK, CompileOK
<1>2. HeldInv' /\ WarmInv' /\ PlanInv' /\ JobInv' /\ ResultInv' /\ HandInv' /\ IndexInv'
  BY <1>1 DEF HeldInv, WarmInv, PlanInv, JobInv, ResultInv, HandInv, IndexInv, ForwardOnly
<1>3. CASE ~IsRecord(store[Index])
  BY <1>1, <1>2, <1>3 DEF ReadIndex, RecordInv
<1>4. CASE IsRecord(store[Index])
  <2> DEFINE i == store[Index]
  <2>1. i \in IndexRecords /\ cacheDir
    BY <1>4, Absent DEF IsRecord, GoneInv, TypeOK, DiskOK
  <2>2. record' = [graph |-> i.graph, pdf |-> i.pdf, subtrees |-> NoSubtrees]
        /\ unread' = DOMAIN i.hashes
    BY <1>4 DEF ReadIndex
  <2>3. record'.graph = i.graph /\ record'.pdf = i.pdf /\ DOMAIN record'.subtrees = {}
    BY <2>2 DEF NoSubtrees
  <2>4. CASE hint = {}
    <3>1. ForwardOnly
      BY <1>1, <2>1, <2>4 DEF FirstInv, First
    <3>2. /\ Whole(i) /\ Parts(i.hashes, i.graph)
          /\ \A k \in DOMAIN i.hashes : IsRecord(store[k]) => NoLater(i.graph, store[k])
      BY <1>4, <3>1 DEF DiskInv, IndexRecordInv
    <3>3. DiskRecord'
      BY <1>1, <2>2, <2>3, <3>1, <3>2 DEF DiskRecord, Parts, IsRecord, ForwardOnly
    <3>4. RecordInv'
      BY <1>1, <2>3, <2>4, <3>2, <3>3 DEF RecordInv, Whole
    <3>5. QED
      BY <1>2, <3>4
  <2>5. CASE hint # {}
    <3>1. PICK I \in IndexRecords :
            OneProcess /\ active # 1 /\ Single(I) /\ Noticed(I.graph, hint) /\ Seen(I.graph, hint)
      BY <1>1, <2>1, <2>5 DEF IndexInv
    <3>2. i = I
      BY <1>4, <3>1 DEF Single, IsRecord
    <3>3. Whole(i)
      BY <3>1, <3>2 DEF Single
    <3>4. Single(I)'
      BY <1>1, <3>1 DEF Single, IsRecord
    <3>5. HintedRecord'
      BY <1>1, <2>2, <2>3, <3>1, <3>2, <3>4 DEF HintedRecord, Parts, OneProcess
    <3>6. RecordInv'
      BY <1>1, <2>3, <2>5, <3>3, <3>5 DEF RecordInv, Whole
    <3>7. QED
      BY <1>2, <3>6
  <2>6. QED
    BY <2>4, <2>5
<1>5. QED
  BY <1>3, <1>4

LEMMA ReadBlobKeepsCompile ==
  ASSUME TypeOK, CompileInv, ForwardOnly => DiskInv, NEW k \in Files, ReadBlob(k)
  PROVE  CompileInv'
<1> USE DEF CompileInv, Noticed, Seen
<1>1. /\ UNCHANGED <<source, store, cacheDir, queue, active, warm, pc, hint, plan, job, initial,
                     changed, result, failed, held>>
      /\ pc = "lookup" /\ job = None /\ k \in unread /\ unread' = unread \ {k}
      /\ record # None /\ record \in CacheRecords
  BY DEF ReadBlob, diskVars, writerVars, outcomeVars, TypeOK, CompileOK
<1>2. HeldInv' /\ WarmInv' /\ PlanInv' /\ JobInv' /\ ResultInv' /\ HandInv' /\ IndexInv'
  BY <1>1 DEF HeldInv, WarmInv, PlanInv, JobInv, ResultInv, HandInv, IndexInv, ForwardOnly,
              Single, IsRecord, OneProcess
<1>3. Whole(record) /\ IF hint = {} THEN DiskRecord ELSE HintedRecord
  BY <1>1 DEF RecordInv
<1>4. \A I \in IndexRecords : Single(I) => Single(I)'
  BY <1>1 DEF Single, IsRecord
<1>5. CASE ~IsRecord(store[k])
  <2>1. record' = record
    BY <1>5 DEF ReadBlob
  <2>2. hint = {} => DiskRecord'
    BY <1>1, <1>3, <2>1 DEF DiskRecord, Between, IsRecord, ForwardOnly
  <2>3. hint # {} => HintedRecord'
    BY <1>1, <1>3, <1>4, <2>1 DEF HintedRecord, OneProcess
  <2>4. RecordInv'
    BY <1>1, <1>3, <2>1, <2>2, <2>3 DEF RecordInv
  <2>5. QED
    BY <1>2, <2>4
<1>6. CASE IsRecord(store[k])
  <2>1. record' = WithPartition(record, k, store[k])
    BY <1>6 DEF ReadBlob
  <2>2. /\ record'.graph = record.graph /\ record'.pdf = record.pdf
        /\ DOMAIN record'.subtrees = DOMAIN record.subtrees \cup {k}
        /\ \A f \in DOMAIN record'.subtrees :
             record'.subtrees[f] = IF f = k THEN store[k] ELSE record.subtrees[f]
    BY <2>1 DEF WithPartition
  <2>3. CASE hint = {}
    <3>1. ForwardOnly /\ k \in DOMAIN record.graph /\ NoLater(record.graph, store[k])
      BY <1>1, <1>3, <1>6, <2>3 DEF DiskRecord
    <3>2. Tree(store[k], k) /\ \A g \in DOMAIN store[k] : store[k][g] <= source[g]
      BY <1>6, <3>1 DEF DiskInv, BlobsInv, Earlier
    <3>3. DiskRecord'
      BY <1>1, <1>3, <2>2, <2>3, <3>1, <3>2 DEF DiskRecord, Between, IsRecord, ForwardOnly
    <3>4. RecordInv'
      BY <1>1, <1>3, <2>2, <2>3, <3>3 DEF RecordInv, Whole
    <3>5. QED
      BY <1>2, <3>4
  <2>4. CASE hint # {}
    <3>1. PICK I \in IndexRecords : OneProcess /\ active # 1 /\ Single(I) /\ I.graph = record.graph
      BY <1>1, <1>3, <2>4 DEF HintedRecord
    <3>2. k \in DOMAIN I.hashes /\ store[k] = I.hashes[k] /\ Parts(I.hashes, I.graph)
      BY <1>6, <3>1 DEF Single
    <3>3. Parts(record'.subtrees, record'.graph)
      BY <1>3, <2>2, <2>4, <3>1, <3>2 DEF HintedRecord, Parts
    <3>4. HintedRecord'
      BY <1>1, <1>3, <1>4, <2>2, <2>4, <3>1, <3>3 DEF HintedRecord, OneProcess
    <3>5. RecordInv'
      BY <1>1, <1>3, <2>2, <2>4, <3>4 DEF RecordInv, Whole
    <3>6. QED
      BY <1>2, <3>5
  <2>5. QED
    BY <2>3, <2>4
<1>7. QED
  BY <1>5, <1>6

(* What the record says of a file was so at some time during the compile,  *)
(* unless the lookup finds it changed.                                     *)
LEMMA UndetectedFacts ==
  ASSUME TypeOK, HeldInv, RecordInv, pc = "lookup", record # None,
         NEW g \in DOMAIN record.graph, g \notin DetectedChanges
  PROVE  /\ source[g] # record.graph[g] => g \in changed
         /\ record.graph[g] \in held[g]
         /\ hint = {} => source[g] = record.graph[g]
<1>1. Whole(record) /\ IF hint = {} THEN DiskRecord ELSE HintedRecord
  BY DEF RecordInv
<1>2. g \in Files
  BY <1>1, TextShape DEF Whole, Tree
<1>3. CASE hint = {} \/ g \in hint
  BY <1>2, <1>3 DEF DetectedChanges, HeldInv
<1>4. CASE hint # {} /\ g \notin hint
  BY <1>1, <1>4 DEF HintedRecord, Noticed, Seen
<1>5. QED
  BY <1>3, <1>4

LEMMA HitKeepsCompile ==
  ASSUME TypeOK, FirstInv, CompileInv, OneProcess \/ ForwardOnly, Hit
  PROVE  CompileInv'
<1> USE DEF CompileInv
<1>1. /\ pc = "lookup" /\ record # None /\ record \in CacheRecords /\ DetectedChanges = {}
      /\ pdf = record.pdf /\ result' = pdf /\ warm' = record
      /\ pc' = "idle" /\ record' = None /\ plan' = None /\ job' = None
      /\ UNCHANGED <<source, active, initial, changed, failed, held, store, queue, cacheDir>>
  BY DEF Hit, LookupReady, PdfIsCurrent, Return, TypeOK, CompileOK, diskVars, writerVars
<1>2. Whole(record) /\ IF hint = {} THEN DiskRecord ELSE HintedRecord
  BY <1>1 DEF RecordInv
<1>3. \A g \in DOMAIN record.graph :
        /\ source[g] # record.graph[g] => g \in changed
        /\ record.graph[g] \in held[g]
        /\ hint = {} => source[g] = record.graph[g]
  BY <1>1, UndetectedFacts
<1>4. Parts(record.subtrees, record.graph)
  <2>1. CASE hint = {}
    <3>1. ASSUME NEW f \in DOMAIN record.subtrees
          PROVE  /\ f \in DOMAIN record.graph /\ Tree(record.subtrees[f], f)
                 /\ PartOf(record.subtrees[f], record.graph)
      <4>1. /\ f \in DOMAIN record.graph /\ Tree(record.subtrees[f], f)
            /\ Between(record.graph, record.subtrees[f]) /\ Tree(record.graph, Root)
        BY <1>2, <2>1 DEF DiskRecord, Whole
      <4>2. \A h \in Reach(record.graph, f) : source[h] = record.graph[h]
        BY <1>3, <2>1, <4>1, ReachClosed
      <4>3. QED
        BY <4>1, <4>2, BetweenIsPart
    <3>2. QED
      BY <3>1 DEF Parts
  <2>2. CASE hint # {}
    BY <1>2, <2>2 DEF HintedRecord
  <2>3. QED
    BY <2>1, <2>2
<1>5. WarmInv'
  BY <1>1, <1>2, <1>3, <1>4 DEF WarmInv, Noticed
<1>6. ResultInv'
  BY <1>1, <1>2, <1>3 DEF ResultInv, Whole, Seen
<1>7. HandInv'
  <2>1. CASE ~First
    <3>1. active + 1 \notin Services
      BY <1>1, <2>1 DEF FirstInv
    <3>2. QED
      BY <1>1, <3>1 DEF HandInv
  <2>2. CASE First
    <3>1. hint = {}
      BY <1>1, <2>2 DEF First, FirstInv
    <3>2. active = 1 /\ active + 1 = 2 /\ 2 \notin Services
      BY <1>2, <3>1 DEF DiskRecord, ForwardOnly, TypeOK, CompileOK
    <3>3. QED
      BY <1>1, <3>2 DEF HandInv
  <2>3. QED
    BY <2>1, <2>2
<1>8. QED
  BY <1>1, <1>5, <1>6, <1>7 DEF HeldInv, IndexInv, RecordInv, PlanInv, JobInv

LEMMA MissKeepsCompile ==
  ASSUME TypeOK, CompileInv, Miss
  PROVE  CompileInv'
<1> USE DEF CompileInv
<1>1. /\ pc = "lookup" /\ pc' = "load" /\ record' = None /\ job = None
      /\ UNCHANGED <<source, active, warm, hint, job, initial, changed, result, failed, held,
                     store, queue, cacheDir>>
  BY DEF Miss, LookupReady, TypeOK, CompileOK, diskVars, writerVars, outcomeVars
<1>2. HeldInv' /\ WarmInv' /\ JobInv' /\ ResultInv' /\ HandInv' /\ IndexInv' /\ RecordInv'
  BY <1>1 DEF HeldInv, WarmInv, JobInv, ResultInv, HandInv, IndexInv, RecordInv, ForwardOnly,
              Noticed, Seen
<1>3. PlanInv'
  <2>1. SUFFICES ASSUME plan' # None,
                        NEW f \in DOMAIN plan'.subtrees \ (plan'.rebuild \cup {Root})
                 PROVE  /\ Tree(plan'.subtrees[f], f)
                        /\ PartOf(plan'.subtrees[f], plan'.graph)
                        /\ Noticed(plan'.subtrees[f], {}) /\ Seen(plan'.subtrees[f], {})
    BY <1>1 DEF PlanInv, Noticed, Seen
  <2> DEFINE s == record.subtrees[f]
  <2>2. /\ record # None /\ record \in CacheRecords
        /\ plan' = [rebuild |-> Affected(record.graph, DetectedChanges),
                    graph |-> record.graph, subtrees |-> record.subtrees]
    BY <2>1 DEF Miss, TypeOK, CompileOK
  <2>3. f \in DOMAIN record.subtrees /\ f \notin Affected(record.graph, DetectedChanges)
        /\ plan'.subtrees[f] = s /\ plan'.graph = record.graph
    BY <2>1, <2>2
  <2>4. Whole(record) /\ IF hint = {} THEN DiskRecord ELSE HintedRecord
    BY <1>1, <2>2 DEF RecordInv
  <2>5. f \in DOMAIN record.graph /\ Tree(s, f)
    BY <2>3, <2>4 DEF DiskRecord, HintedRecord, Parts
  <2>6. \A g \in Reach(record.graph, f) :
          /\ source[g] # record.graph[g] => g \in changed
          /\ record.graph[g] \in held[g]
          /\ hint = {} => source[g] = record.graph[g]
    <3>1. \A g \in Reach(record.graph, f) : g \in DOMAIN record.graph /\ g \notin DetectedChanges
      BY <2>3, <2>5, ReachClosed DEF Affected
    <3>2. QED
      BY <1>1, <2>2, <3>1, UndetectedFacts
  <2>7. DOMAIN s \subseteq Reach(record.graph, f) /\ PartOf(s, record.graph)
    <3>1. CASE hint = {}
      <4>1. Between(record.graph, s)
        BY <2>3, <2>4, <3>1 DEF DiskRecord
      <4>2. QED
        BY <2>4, <2>5, <2>6, <3>1, <4>1, BetweenIsPart DEF Whole
    <3>2. CASE hint # {}
      <4>1. PartOf(s, record.graph)
        BY <2>3, <2>4, <3>2 DEF HintedRecord, Parts
      <4>2. QED
        BY <2>4, <2>5, <4>1, AgreeingTree DEF Whole, Tree, PartOf
    <3>3. QED
      BY <3>1, <3>2
  <2>8. QED
    BY <2>3, <2>5, <2>6, <2>7 DEF PartOf, Noticed, Seen
<1>4. QED
  BY <1>2, <1>3

LEMMA BuildKeepsCompile ==
  ASSUME TypeOK, FirstInv, CompileInv, Load \/ WritePdf \/ Fail
  PROVE  CompileInv'
<1> USE DEF CompileInv
<1>1. CASE Load
  <2>1. /\ pc = "load" /\ pc' = "built" /\ job' # None
        /\ UNCHANGED <<source, active, warm, hint, record, initial, changed, result, failed,
                       held, store, queue, cacheDir>>
    BY <1>1, LoadType, Absent DEF Load, diskVars, writerVars, outcomeVars
  <2>2. JobInv'
    BY <1>1, Loading, <2>1 DEF JobInv, Noticed, Seen
  <2>3. QED
    BY <2>1, <2>2 DEF HeldInv, WarmInv, ResultInv, HandInv, IndexInv, RecordInv, PlanInv,
                      ForwardOnly, Noticed, Seen
<1>2. CASE WritePdf
  <2>1. /\ pc = "built" /\ pc' = "written" /\ result' = job.text /\ job # None
        /\ UNCHANGED <<source, active, warm, hint, record, plan, job, initial, changed, failed,
                       held, store, queue, cacheDir>>
    BY <1>2 DEF WritePdf, compileVars, writerVars, TypeOK, CompileOK
  <2>2. ResultInv'
    BY <2>1 DEF ResultInv, JobInv, Seen
  <2>3. QED
    BY <2>1, <2>2 DEF HeldInv, WarmInv, JobInv, HandInv, IndexInv, RecordInv, PlanInv,
                      ForwardOnly, Noticed, Seen
<1>3. CASE Fail
  <2>1. /\ pc = "built" /\ pc' = "idle" /\ result' = result /\ result = None /\ job' = None
        /\ failed' /\ warm' = warm /\ warm = None
    BY <1>3 DEF Fail, Return, FirstInv
  <2>2. QED
    BY <2>1 DEF HeldInv, WarmInv, JobInv, HandInv, IndexInv, RecordInv, PlanInv, ResultInv
<1>4. QED
  BY <1>1, <1>2, <1>3

LEMMA StoreKeepsCompile ==
  ASSUME TypeOK, GoneInv, FirstInv, CompileInv, OneProcess \/ ForwardOnly, Store
  PROVE  CompileInv'
<1> USE DEF CompileInv
<1> DEFINE I == [graph |-> job.graph, pdf |-> job.text, hashes |-> job.subtrees]
           w == [blobs |-> job.subtrees, previous |-> PreviousHashes, index |-> I]
<1>1. /\ pc = "written" /\ pc' = "idle" /\ job # None /\ job \in Jobs /\ job' = None
      /\ warm' = [graph |-> job.graph, pdf |-> job.text, subtrees |-> job.subtrees]
      /\ queue' = [queue EXCEPT ![active] = Append(@, w)]
      /\ UNCHANGED <<source, active, initial, changed, result, failed, held, store>>
  BY DEF Store, Return, TypeOK, CompileOK, outcomeVars
<1>2. /\ Tree(job.text, Root) /\ job.graph = job.text /\ Parts(job.subtrees, job.text)
      /\ Noticed(job.text, {}) /\ Seen(job.text, {})
  BY <1>1 DEF JobInv
<1>3. WarmInv'
  BY <1>1, <1>2 DEF WarmInv, Whole, Noticed
<1>4. ResultInv'
  BY <1>1 DEF ResultInv, Seen
<1>5. warm' # None
  BY <1>1, Absent DEF CacheRecords, Jobs
<1>6. HandInv'
  <2>1. SUFFICES ASSUME OneProcess, active + 1 \in Services
                 PROVE  \E J \in IndexRecords : Single(J)' /\ Noticed(J.graph, {})'
    BY <1>1, <1>5 DEF HandInv, OneProcess
  <2>2. First
    BY <1>1, <2>1 DEF FirstInv
  <2>3. (\A s \in Services : queue[s] = <<>>) /\ ~cacheDir
    BY <2>1, <2>2 DEF FirstInv
  <2>4. I \in IndexRecords
    BY <1>1 DEF IndexRecords, Jobs
  <2>5. \A k \in Files \cup {Index} : store'[k] = None
    BY <1>1, <2>3 DEF GoneInv
  <2>6. Whole(I) /\ Parts(I.hashes, I.graph)
    BY <1>2 DEF Whole
  <2>7. ASSUME NEW s \in Services, NEW i \in 1..Len(queue'[s])
        PROVE  queue'[s][i].index = I /\ queue'[s][i].blobs = I.hashes
    <3> HIDE DEF w
    <3>1. s = active => queue'[s] = Append(<<>>, w)
      BY <1>1, <2>3 DEF TypeOK, WriterOK
    <3>2. s # active => queue'[s] = <<>>
      BY <1>1, <2>3 DEF TypeOK, WriterOK
    <3>3. Len(<<>>) = 0 /\ <<>> \in Seq({w})
      OBVIOUS
    <3>4. Append(<<>>, w)[1] = w /\ Len(Append(<<>>, w)) = 1
      BY <3>3
    <3>5. CASE s = active
      <4>1. Len(queue'[s]) = 1 /\ queue'[s][1] = w
        BY <3>1, <3>4, <3>5
      <4>2. i = 1
        BY <4>1
      <4>3. QED
        BY <4>1, <4>2 DEF w
    <3>6. CASE s # active
      <4>1. Len(queue'[s]) = 0
        BY <3>2, <3>3, <3>6
      <4>2. QED
        BY <2>7, <4>1
    <3>7. QED
      BY <3>5, <3>6
  <2>8. PICK J \in IndexRecords : J = I
    BY <2>4
  <2> HIDE DEF I, w
  <2>9. Whole(J) /\ Parts(J.hashes, J.graph)
    BY <2>6, <2>8
  <2>10. \A s \in Services : \A i \in 1..Len(queue'[s]) :
           queue'[s][i].index = J /\ queue'[s][i].blobs = J.hashes
    BY <2>7, <2>8
  <2>11. Single(J)'
    BY <2>5, <2>9, <2>10 DEF Single, IsRecord
  <2>12. J.graph = job.text
    BY <1>2, <2>8 DEF I
  <2>13. Noticed(J.graph, {})'
    BY <1>1, <1>2, <2>12 DEF Noticed
  <2>14. QED
    BY <2>11, <2>13
<1>7. QED
  BY <1>1, <1>3, <1>4, <1>6 DEF HeldInv, JobInv, IndexInv, RecordInv, PlanInv

LEMMA CompileStep ==
  ASSUME TypeOK, GoneInv, FirstInv, CompileInv, ForwardOnly => DiskInv,
         OneProcess \/ ForwardOnly, Next, ~faulted'
  PROVE  CompileInv'
<1>1. CASE PdfFault \/ StoreFault
  BY <1>1 DEF PdfFault, StoreFault
<1>2. CASE Compile
  BY <1>2, BeginKeepsCompile, ReadIndexKeepsCompile, ReadBlobKeepsCompile, HitKeepsCompile,
     MissKeepsCompile, BuildKeepsCompile, StoreKeepsCompile DEF Compile
<1>3. QED
  BY <1>1, <1>2, EditKeepsCompile, WriterKeepsCompile, EvictKeepsCompile, ProcessKeepsCompile
     DEF Next
-----------------------------------------------------------------------------
(* The disk.                                                               *)

LEMMA TextNumbers ==
  ASSUME NEW t \in Texts, NEW g \in DOMAIN t
  PROVE  g \in Files /\ t[g] \in Nat
BY TextShape, ContentsAssumption

LEMMA QueuedWorks ==
  ASSUME TypeOK, NEW s \in Services, NEW i \in 1..Len(queue[s])
  PROVE  /\ queue[s][i] \in Works /\ queue[s][i].index.graph \in Texts
         /\ DOMAIN queue[s][i].blobs \subseteq Files /\ DOMAIN queue[s][i].previous \subseteq Files
<1>1. queue[s] \in Seq(Works)
  BY DEF TypeOK, WriterOK
<1>2. queue[s][i] \in Works
  BY <1>1
<1>3. /\ queue[s][i].index \in IndexRecords
      /\ queue[s][i].blobs \in Subtrees /\ queue[s][i].previous \in Subtrees
  BY <1>2 DEF Works
<1>4. QED
  BY <1>2, <1>3, SubtreesShape DEF IndexRecords

LEMMA LaterParts ==
  ASSUME NEW p, NEW t, PartOf(p, t)
  PROVE  /\ \A u : NoLater(t, u) => NoLater(p, u)
         /\ \A s : NoLater(s, t) => NoLater(s, p)
         /\ Earlier(t) => Earlier(p)
         /\ t \in Texts => NoLater(p, t) /\ NoLater(t, p)
<1>1. /\ \A u : NoLater(t, u) => NoLater(p, u)
      /\ \A s : NoLater(s, t) => NoLater(s, p)
  BY DEF PartOf, NoLater
<1>2. Earlier(t) => Earlier(p)
  BY DEF PartOf, Earlier
<1>3. t \in Texts => NoLater(p, t) /\ NoLater(t, p)
  BY TextNumbers DEF PartOf, NoLater
<1>4. QED
  BY <1>1, <1>2, <1>3

(* A partition that is neither older nor newer than another is the same.   *)
LEMMA SamePartition ==
  ASSUME NEW f, NEW p, NEW s, NEW t, Tree(p, f), Tree(s, f), PartOf(p, t),
         NoLater(p, s), NoLater(s, t)
  PROVE  s = p
<1>1. ASSUME NEW h \in DOMAIN s \cap DOMAIN p
      PROVE  s[h] = p[h]
  <2>1. s[h] \in Nat /\ p[h] \in Nat
    BY <1>1, TextNumbers DEF Tree
  <2>2. p[h] <= s[h] /\ s[h] <= t[h] /\ t[h] = p[h]
    BY <1>1 DEF NoLater, PartOf
  <2>3. QED
    BY <2>1, <2>2
<1>2. QED
  BY <1>1, SameTree

(* What is earlier stays so.                                               *)
LEMMA EarlierStays ==
  ASSUME TypeOK, TypeOK', HeldInv, ForwardOnly, NEW t \in Texts, Earlier(t),
         \/ \E f \in Files, c \in Contents : Edit(f, c)
         \/ \E h \in SUBSET Files : Begin(h)
         \/ UNCHANGED <<source, held>> /\ (pc' = "idle" \/ (pc # "idle" /\ pc' # "idle"))
  PROVE  Earlier(t)'
<1>1. ASSUME NEW f \in Files, NEW c \in Contents, Edit(f, c)
      PROVE  Earlier(t)'
  <2>1. c > source[f] /\ c \in Nat /\ pc' = pc
        /\ source' = [source EXCEPT ![f] = c]
        /\ (pc # "idle" => held' = [held EXCEPT ![f] = @ \cup {c}])
    BY <1>1, ContentsAssumption DEF Edit, ForwardOnly
  <2>2. SUFFICES ASSUME NEW g \in DOMAIN t
                 PROVE  t[g] <= source'[g] /\ (pc # "idle" => \A d \in held'[g] : t[g] <= d)
    BY <2>1 DEF Earlier
  <2>3. g \in Files /\ t[g] \in Nat /\ source[g] \in Nat
    BY TextNumbers, ContentsAssumption DEF TypeOK, HistoryOK
  <2>4. t[g] <= source[g] /\ (pc # "idle" => \A d \in held[g] : t[g] <= d)
    BY DEF Earlier
  <2>5. CASE g # f
    BY <2>1, <2>3, <2>4, <2>5 DEF TypeOK, HistoryOK
  <2>6. CASE g = f
    <3>1. t[g] <= c
      BY <2>1, <2>3, <2>4, <2>6
    <3>2. source'[g] = c /\ (pc # "idle" => held'[g] = held[g] \cup {c})
      BY <2>1, <2>6 DEF TypeOK, HistoryOK
    <3>3. QED
      BY <2>4, <3>1, <3>2
  <2>7. QED
    BY <2>5, <2>6
<1>2. ASSUME NEW h \in SUBSET Files, Begin(h)
      PROVE  Earlier(t)'
  <2>1. source' = source /\ held' = [f \in Files |-> {source[f]}]
    BY <1>2 DEF Begin
  <2>2. QED
    BY <2>1, TextNumbers DEF Earlier
<1>3. CASE UNCHANGED <<source, held>> /\ (pc' = "idle" \/ (pc # "idle" /\ pc' # "idle"))
  BY <1>3 DEF Earlier
<1>4. QED
  BY <1>1, <1>2, <1>3

(* A step that leaves the disk and the writer alone.                       *)
LEMMA DiskStays ==
  ASSUME TypeOK, DiskInv, UNCHANGED <<store, queue, writer, cacheDir>>,
         \A t \in Texts : Earlier(t) => Earlier(t)',
         warm' # None => Stored(warm'),
         pc' = "lookup" /\ record' # None => Stored(record')
  PROVE  DiskInv'
<1> USE DEF DiskInv, IsRecord
<1>1. IndexRecordInv'
  <2>1. IsRecord(store[Index]) => store[Index] \in IndexRecords
    BY DEF TypeOK, DiskOK
  <2>2. QED
    BY <2>1 DEF IndexRecordInv, IndexRecords
<1>2. BlobsInv'
  BY DEF BlobsInv, TypeOK, DiskOK
<1>3. QueueInv'
  <2>1. \A i \in 1..Len(queue[1]) : queue[1][i].index.graph \in Texts
    BY ServicesAssumption, QueuedWorks
  <2>2. QED
    BY <2>1 DEF QueueInv
<1>4. PreviousInv'
  BY DEF PreviousInv
<1>5. DoneInv' /\ TornInv'
  BY DEF DoneInv, TornInv, Done, Work
<1>6. FlushInv'
  BY DEF FlushInv, Stored, StoredAs, Done, Work
<1>7. QED
  BY <1>1, <1>2, <1>3, <1>4, <1>5, <1>6

(* The cache directory is removed.                                         *)
LEMMA DiskGoes ==
  ASSUME TypeOK, DiskInv, ForwardOnly, RemoveRecord, queue' = queue,
         \A t \in Texts : Earlier(t) => Earlier(t)', warm' = warm,
         pc' = "lookup" => pc = "lookup" /\ record' = record
  PROVE  DiskInv'
<1> USE DEF DiskInv, IsRecord
<1>1. \A k \in Files \cup {Index} : store'[k] = None
  BY DEF RemoveRecord, TypeOK, DiskOK
<1>2. /\ writer'[1].at = writer[1].at
      /\ writer[1].at # "idle" => writer'[1].left = writer[1].left
      /\ writer[1].at = "writing" => writer'[1].file = writer[1].file /\ writer'[1].unlinked
  BY ServicesAssumption DEF RemoveRecord
<1>3. IndexRecordInv' /\ BlobsInv' /\ TornInv'
  BY <1>1, Absent DEF IndexRecordInv, BlobsInv, TornInv
<1>4. QueueInv'
  <2>1. \A i \in 1..Len(queue[1]) : queue[1][i].index.graph \in Texts
    BY ServicesAssumption, QueuedWorks
  <2>2. QED
    BY <1>1, <2>1 DEF QueueInv
<1>5. PreviousInv'
  <2>1. ASSUME NEW i \in 1..Len(queue[1]), NEW k \in DOMAIN queue[1][i].previous
        PROVE  k \in Files
    BY <2>1, ServicesAssumption, QueuedWorks
  <2>2. QED
    BY <1>1, <2>1 DEF PreviousInv
<1>6. writer[1].at # "idle" => Done \subseteq Files /\ (writer[1].at = "writing" => writer[1].file \in Files \cup {Index})
  <2>1. SUFFICES ASSUME writer[1].at # "idle"
                 PROVE  /\ Done \subseteq Files
                        /\ writer[1].at = "writing" => writer[1].file \in Files \cup {Index}
    OBVIOUS
  <2>2. queue[1] # <<>> /\ queue[1] \in Seq(Works)
    BY <2>1, ServicesAssumption DEF TypeOK, WriterOK
  <2>3. Work(1) \in Works
    BY <2>2 DEF Work
  <2>4. DOMAIN Work(1).blobs \subseteq Files
    BY <2>3, SubtreesShape DEF Works
  <2>5. QED
    BY <2>4, ServicesAssumption DEF Done, TypeOK, WriterOK
<1>7. DoneInv'
  BY <1>1, <1>2, <1>6 DEF DoneInv, Done, Work
<1>8. FlushInv'
  BY <1>1 DEF FlushInv, Stored, StoredAs, RemoveRecord
<1>9. QED
  BY <1>3, <1>4, <1>5, <1>7, <1>8

LEMMA CompileKeepsDisk ==
  ASSUME TypeOK, TypeOK', GoneInv, FirstInv, CompileInv, DiskInv, ForwardOnly,
         \/ \E f \in Files, c \in Contents : Edit(f, c)
         \/ \E h \in SUBSET Files : Begin(h)
         \/ ReadIndex \/ (\E k \in Files : ReadBlob(k)) \/ Hit \/ Miss \/ Load \/ WritePdf
  PROVE  DiskInv'
<1>0. HeldInv /\ FlushInv
  BY DEF CompileInv, DiskInv
<1>1. CASE \E f \in Files, c \in Contents : Edit(f, c)
  <2>1. UNCHANGED <<store, queue, writer, cacheDir, warm, pc, record>>
    BY <1>1 DEF Edit, diskVars, writerVars, compileVars
  <2>2. warm # None => Stored(warm)
    BY <1>0 DEF FlushInv
  <2>3. pc = "lookup" /\ record # None => Stored(record)
    BY <1>0 DEF FlushInv
  <2>4. QED
    BY <1>0, <1>1, <2>1, <2>2, <2>3, DiskStays, EarlierStays
<1>2. CASE \E h \in SUBSET Files : Begin(h)
  <2>1. UNCHANGED <<store, queue, writer, cacheDir>> /\ warm' = None /\ record' = warm
    BY <1>2 DEF Begin, diskVars, writerVars
  <2>2. record' # None => Stored(record')
    BY <1>0, <2>1 DEF FlushInv
  <2>3. QED
    BY <1>0, <1>2, <2>1, <2>2, DiskStays, EarlierStays
<1>3. CASE ReadIndex
  <2>1. /\ UNCHANGED <<store, queue, writer, cacheDir, warm, source, held>>
        /\ pc = "index" /\ pc' = "lookup"
    BY <1>3 DEF ReadIndex, diskVars, writerVars
  <2>2. ASSUME record' # None
        PROVE  Stored(record')
    <3>1. IsRecord(store[Index]) /\ cacheDir
      BY <1>3, <2>2 DEF ReadIndex, IsRecord, GoneInv
    <3>2. active = 1
      BY DEF ForwardOnly, TypeOK, CompileOK
    <3>3. hint = {}
      BY <2>1, <3>1, <3>2 DEF CompileInv, IndexInv
    <3>4. queue[1] = <<>>
      BY <2>1, <3>3, ServicesAssumption DEF FirstInv, First
    <3>5. record' = [graph |-> store[Index].graph, pdf |-> store[Index].pdf,
                     subtrees |-> NoSubtrees]
      BY <1>3, <3>1 DEF ReadIndex
    <3>6. DOMAIN record'.subtrees = {}
      BY <3>5 DEF NoSubtrees
    <3>7. QED
      BY <3>4, <3>5, <3>6 DEF Stored, StoredAs
  <2>3. warm' # None => Stored(warm')
    BY <1>0, <2>1 DEF FlushInv
  <2>4. QED
    BY <1>0, <2>1, <2>2, <2>3, DiskStays, EarlierStays
<1>4. ASSUME NEW k \in Files, ReadBlob(k)
      PROVE  DiskInv'
  <2>1. /\ UNCHANGED <<store, queue, writer, cacheDir, warm, pc, source, held>>
        /\ pc = "lookup" /\ unread # {} /\ record # None
    BY <1>4 DEF ReadBlob, diskVars, writerVars, TypeOK, CompileOK
  <2>2. Stored(record) /\ (warm' # None => Stored(warm'))
    BY <1>0, <2>1 DEF FlushInv
  <2>3. Stored(record')
    <3>1. CASE ~IsRecord(store[k])
      BY <1>4, <2>2, <3>1 DEF ReadBlob
    <3>2. CASE IsRecord(store[k])
      <4>1. active = 1
        BY DEF ForwardOnly, TypeOK, CompileOK
      <4>2. hint = {}
        BY <2>1, <4>1 DEF CompileInv, RecordInv, HintedRecord
      <4>3. queue[1] = <<>>
        BY <2>1, <4>2, ServicesAssumption DEF FirstInv, First
      <4>4. record' = WithPartition(record, k, store[k])
        BY <1>4, <3>2 DEF ReadBlob
      <4>5. /\ record'.graph = record.graph /\ record'.pdf = record.pdf
            /\ DOMAIN record'.subtrees = DOMAIN record.subtrees \cup {k}
            /\ \A f \in DOMAIN record'.subtrees :
                 record'.subtrees[f] = IF f = k THEN store[k] ELSE record.subtrees[f]
        BY <4>4 DEF WithPartition
      <4>6. QED
        BY <2>2, <3>2, <4>3, <4>5 DEF Stored, StoredAs, IsRecord
    <3>3. QED
      BY <3>1, <3>2
  <2>4. QED
    BY <1>0, <2>1, <2>2, <2>3, DiskStays, EarlierStays
<1>5. CASE Hit
  <2>1. /\ UNCHANGED <<store, queue, writer, cacheDir, source, held>>
        /\ pc = "lookup" /\ pc' = "idle" /\ warm' = record
    BY <1>5 DEF Hit, LookupReady, Return, diskVars, writerVars
  <2>2. warm' # None => Stored(warm')
    BY <1>0, <2>1 DEF FlushInv
  <2>3. QED
    BY <1>0, <2>1, <2>2, DiskStays, EarlierStays
<1>6. CASE Miss \/ Load \/ WritePdf
  <2>1. /\ UNCHANGED <<store, queue, writer, cacheDir, warm, source, held>>
        /\ pc # "idle" /\ pc' # "idle" /\ pc' # "lookup"
    BY <1>6 DEF Miss, Load, WritePdf, LookupReady, diskVars, writerVars
  <2>2. warm' # None => Stored(warm')
    BY <1>0, <2>1 DEF FlushInv
  <2>3. QED
    BY <1>0, <2>1, <2>2, DiskStays, EarlierStays
<1>7. QED
  BY <1>1, <1>2, <1>3, <1>4, <1>5, <1>6

LEMMA ProcessKeepsDisk ==
  ASSUME TypeOK, TypeOK', FirstInv, CompileInv, DiskInv, ForwardOnly,
         Restart \/ Crash \/ Handover \/ Fail \/ Evict
  PROVE  DiskInv'
<1>0. HeldInv
  BY DEF CompileInv
<1>1. CASE Restart
  <2>1. UNCHANGED <<store, queue, writer, cacheDir, source, held>> /\ pc' = "idle" /\ warm' = None
    BY <1>1 DEF Restart, NewProcess, Return, writerVars
  <2>2. QED
    BY <1>0, <2>1, DiskStays, EarlierStays
<1>2. CASE Crash
  <2>1. /\ UNCHANGED <<store, cacheDir, source, held>> /\ pc' = "idle" /\ warm' = None
        /\ queue'[1] = <<>> /\ writer'[1].at = "idle" /\ AllowCrash
    BY <1>2, ServicesAssumption DEF Crash, NewProcess, Return
  <2>2. \A t \in Texts : Earlier(t) => Earlier(t)'
    BY <1>0, <2>1, EarlierStays
  <2>3. IndexRecordInv'
    <3>1. IsRecord(store[Index]) => store[Index] \in IndexRecords
      BY DEF TypeOK, DiskOK, IsRecord
    <3>2. QED
      BY <2>1, <2>2, <3>1 DEF DiskInv, IndexRecordInv, IndexRecords, IsRecord
  <2>4. BlobsInv'
    BY <2>1, <2>2 DEF DiskInv, BlobsInv, TypeOK, DiskOK, IsRecord
  <2>5. QueueInv' /\ PreviousInv'
    BY <2>1 DEF QueueInv, PreviousInv
  <2>6. DoneInv' /\ TornInv' /\ FlushInv'
    BY <2>1 DEF DoneInv, TornInv, FlushInv
  <2>7. QED
    BY <2>3, <2>4, <2>5, <2>6 DEF DiskInv
<1>3. CASE Handover
  BY <1>3 DEF Handover, ForwardOnly, TypeOK, CompileOK
<1>4. CASE Fail
  <2>1. /\ RemoveRecord /\ UNCHANGED <<queue, warm, source, held>> /\ pc' = "idle"
    BY <1>4 DEF Fail, Return
  <2>2. QED
    BY <1>0, <2>1, DiskGoes, EarlierStays
<1>5. CASE Evict
  <2>1. /\ RemoveRecord /\ UNCHANGED <<queue, warm, record, pc, source, held>>
    BY <1>5 DEF Evict, writerUnchanged, compileVars
  <2>2. QED
    BY <1>0, <2>1, DiskGoes, EarlierStays
<1>6. QED
  BY <1>1, <1>2, <1>3, <1>4, <1>5

LEMMA StoreKeepsDisk ==
  ASSUME TypeOK, TypeOK', CompileInv, DiskInv, ForwardOnly, Store
  PROVE  DiskInv'
<1> DEFINE n == Len(queue[1])
<1>1. PICK w \in Works :
        /\ w.blobs = job.subtrees /\ w.previous = PreviousHashes
        /\ w.index.graph = job.graph /\ w.index.pdf = job.text /\ w.index.hashes = job.subtrees
        /\ queue'[1] = Append(queue[1], w)
  <2> DEFINE u == [blobs |-> job.subtrees, previous |-> PreviousHashes,
                   index |-> [graph |-> job.graph, pdf |-> job.text, hashes |-> job.subtrees]]
  <2>1. active = 1 /\ queue'[1] = Append(queue[1], u)
    BY DEF Store, ForwardOnly, TypeOK, CompileOK, WriterOK
  <2>2. job \in Jobs
    BY DEF Store, TypeOK, CompileOK
  <2>3. PreviousHashes \in Subtrees
    BY EmptyTextIsText DEF PreviousHashes, TypeOK, DiskOK, IsRecord, IndexRecords
  <2>4. u \in Works
    BY <2>2, <2>3 DEF Works, IndexRecords, Jobs
  <2>5. QED
    BY <2>1, <2>4
<1>2. /\ UNCHANGED <<store, writer, source, held>> /\ pc = "written" /\ pc' = "idle" /\ job # None
      /\ warm' = [graph |-> job.graph, pdf |-> job.text, subtrees |-> job.subtrees]
  BY DEF Store, Return, TypeOK, CompileOK
<1>3. /\ Tree(job.text, Root) /\ job.graph = job.text /\ Parts(job.subtrees, job.text)
      /\ \A g \in DOMAIN job.text :
           job.text[g] \in held[g] /\ job.text[g] <= source[g] /\ g \in Files
  <2>1. /\ Tree(job.text, Root) /\ job.graph = job.text /\ Parts(job.subtrees, job.text)
        /\ Seen(job.text, {})
    BY <1>2 DEF CompileInv, JobInv
  <2>2. QED
    BY <1>2, <2>1, TextNumbers DEF CompileInv, HeldInv, Seen, Tree
<1>4. \A t \in Texts : Earlier(t) => Earlier(t)' /\ NoLater(t, w.index.graph)
  <2>1. \A t \in Texts : Earlier(t) => Earlier(t)'
    BY <1>2, EarlierStays DEF CompileInv
  <2>2. \A t \in Texts : Earlier(t) => NoLater(t, w.index.graph)
    BY <1>1, <1>2, <1>3 DEF Earlier, NoLater
  <2>3. QED
    BY <2>1, <2>2
<1>5. /\ n \in Nat /\ Len(queue'[1]) = n + 1 /\ queue'[1][n + 1] = w
      /\ \A i \in 1..n : queue'[1][i] = queue[1][i]
  <2>1. queue[1] \in Seq(Works)
    BY ServicesAssumption DEF TypeOK, WriterOK
  <2>2. QED
    BY <1>1, <2>1
<1>6. \A i \in 1..(n + 1) : i \in 1..n \/ i = n + 1
  BY <1>5
<1>7. \A i \in 1..n : queue[1][i].index.graph \in Texts /\ Earlier(queue[1][i].index.graph)
  BY QueuedWorks, ServicesAssumption DEF DiskInv, QueueInv
<1>8. IsRecord(store[Index]) =>
        store[Index] \in IndexRecords /\ Earlier(store[Index].graph)
        /\ store[Index].graph \in Texts
  BY DEF DiskInv, IndexRecordInv, TypeOK, DiskOK, IsRecord, IndexRecords
<1>9. \A k \in Files : IsRecord(store[k]) => store[k] \in Texts /\ Earlier(store[k])
  BY DEF DiskInv, BlobsInv, TypeOK, DiskOK, IsRecord
<1>10. IndexRecordInv'
  BY <1>2, <1>4, <1>8 DEF DiskInv, IndexRecordInv, IsRecord
<1>11. BlobsInv'
  BY <1>2, <1>4, <1>9 DEF DiskInv, BlobsInv, IsRecord
<1>12. QueueInv'
  <2> DEFINE Good(v) ==
               /\ Whole(v.index) /\ v.index.hashes = v.blobs
               /\ Parts(v.blobs, v.index.graph)
               /\ IsRecord(store[Index]) => NoLater(store[Index].graph, v.index.graph)
               /\ \A k \in Files : IsRecord(store[k]) => NoLater(store[k], v.index.graph)
         Later(t) == \A g \in DOMAIN t : t[g] <= source'[g]
  <2>1. ASSUME NEW i \in 1..(n + 1)
        PROVE  /\ Good(queue'[1][i]) /\ Later(queue'[1][i].index.graph)
               /\ \A j \in i..(n + 1) : NoLater(queue'[1][i].index.graph, queue'[1][j].index.graph)
    <3>1. CASE i \in 1..n
      <4>1. /\ queue'[1][i] = queue[1][i]
            /\ \A j \in i..(n + 1) : j = n + 1 \/ (j \in i..n /\ j \in 1..n)
        BY <1>5, <3>1
      <4>2. \A j \in i..(n + 1) : NoLater(queue[1][i].index.graph, queue'[1][j].index.graph)
        BY <1>4, <1>5, <1>7, <3>1, <4>1 DEF DiskInv, QueueInv
      <4>3. Good(queue[1][i])
        BY <3>1 DEF DiskInv, QueueInv
      <4>4. Later(queue[1][i].index.graph)
        BY <1>2, <1>7, <3>1 DEF Earlier
      <4>5. QED
        BY <4>1, <4>2, <4>3, <4>4
    <3>2. CASE i = n + 1
      <4>1. queue'[1][i] = w /\ \A j \in i..(n + 1) : j = n + 1
        BY <1>5, <3>2
      <4>2. w.index.graph = job.text /\ job.text \in Texts
        BY <1>1, <1>3 DEF Tree
      <4>3. NoLater(w.index.graph, w.index.graph)
        BY <4>2, TextNumbers DEF NoLater
      <4>4. Later(w.index.graph)
        BY <1>2, <1>3, <4>2
      <4>5. Good(w)
        BY <1>1, <1>3, <1>4, <1>8, <1>9 DEF Whole
      <4>6. QED
        BY <1>5, <3>2, <4>1, <4>3, <4>4, <4>5
    <3>3. QED
      BY <1>6, <3>1, <3>2
  <2>2. QED
    BY <1>2, <1>5, <2>1 DEF QueueInv, Earlier, IsRecord
<1>13. PreviousInv'
  <2>1. ASSUME NEW i \in 1..(n + 1), NEW k \in DOMAIN queue'[1][i].previous
        PROVE  /\ \A j \in 1..i : NoLater(queue'[1][i].previous[k], queue'[1][j].index.graph)
               /\ IsRecord(store[k]) => NoLater(queue'[1][i].previous[k], store[k])
    <3>1. CASE i \in 1..n
      <4>1. queue'[1][i] = queue[1][i] /\ \A j \in 1..i : queue'[1][j] = queue[1][j]
        BY <1>5, <3>1
      <4>2. QED
        BY <2>1, <3>1, <4>1 DEF DiskInv, PreviousInv
    <3>2. CASE i = n + 1
      <4>1. queue'[1][i].previous = PreviousHashes
        BY <1>1, <1>5, <3>2
      <4>2. IsRecord(store[Index]) /\ PreviousHashes = store[Index].hashes
        BY <2>1, <4>1 DEF PreviousHashes, NoSubtrees
      <4>3. /\ PartOf(PreviousHashes[k], store[Index].graph)
            /\ IsRecord(store[k]) => NoLater(store[Index].graph, store[k])
        BY <2>1, <4>1, <4>2 DEF DiskInv, IndexRecordInv, Parts
      <4>4. \A j \in 1..i : NoLater(store[Index].graph, queue'[1][j].index.graph)
        <5>1. ASSUME NEW j \in 1..n
              PROVE  NoLater(store[Index].graph, queue'[1][j].index.graph)
          BY <1>5, <4>2, <5>1 DEF DiskInv, QueueInv
        <5>2. NoLater(store[Index].graph, queue'[1][n + 1].index.graph)
          BY <1>4, <1>5, <1>8, <4>2
        <5>3. QED
          BY <1>6, <3>2, <5>1, <5>2
      <4>5. QED
        BY <4>1, <4>3, <4>4, LaterParts
    <3>3. QED
      BY <1>6, <3>1, <3>2
  <2>2. QED
    BY <1>2, <1>5, <2>1 DEF PreviousInv, IsRecord
<1>14. writer[1].at # "idle" => n # 0 /\ Work(1)' = Work(1)
  <2>1. writer[1].at # "idle" => queue[1] # <<>> /\ queue[1] \in Seq(Works)
    BY ServicesAssumption DEF TypeOK, WriterOK
  <2>2. QED
    BY <1>1, <2>1 DEF Work
<1>15. DoneInv' /\ TornInv'
  BY <1>2, <1>14 DEF DiskInv, DoneInv, TornInv, Done
<1>16. FlushInv'
  <2>1. Len(queue'[1]) # 0 /\ (Len(queue'[1]) = 1 => n = 0)
    BY <1>5
  <2>2. warm' # None => Stored(warm)'
    BY <1>1, <1>2, <1>5, <2>1 DEF Stored, StoredAs
  <2>3. QED
    BY <1>2, <1>14, <2>1, <2>2 DEF FlushInv
<1>17. QED
  BY <1>10, <1>11, <1>12, <1>13, <1>15, <1>16 DEF DiskInv

(* The running work is finished or given up, and nothing new is on disk.   *)
LEMMA DropKeepsDisk ==
  ASSUME TypeOK, TypeOK', DiskInv, ForwardOnly, queue[1] # <<>>, Drop(1), writerUnchanged' = writerUnchanged,
         \A k \in Files \cup {Index} : store'[k] = store[k] \/ store'[k] = None,
         writer[1].at # "writing",
         \A r \in CacheRecords :
           Len(queue[1]) = 1 /\ Stored(r) /\ IsRecord(store'[Index]) =>
             /\ store'[Index].graph = r.graph /\ store'[Index].pdf = r.pdf
             /\ \A f \in DOMAIN r.subtrees : store'[f] # None
             /\ \A f \in DOMAIN r.subtrees : IsRecord(store'[f]) => store'[f] = r.subtrees[f]
  PROVE  DiskInv'
<1> USE DEF IsRecord
<1> DEFINE n == Len(queue[1])
<1>1. /\ UNCHANGED <<source, warm, pc, record, held>>
      /\ queue'[1] = Tail(queue[1]) /\ writer'[1].at = "idle"
  BY ServicesAssumption DEF Drop, writerUnchanged, compileVars, TypeOK, WriterOK
<1>2. /\ n \in Nat /\ n # 0 /\ Len(queue'[1]) = n - 1
      /\ \A i \in 1..(n - 1) : i + 1 \in 1..n /\ queue'[1][i] = queue[1][i + 1]
  <2>1. queue[1] \in Seq(Works)
    BY ServicesAssumption DEF TypeOK, WriterOK
  <2>2. QED
    BY <1>1, <2>1
<1>3. IndexRecordInv' /\ BlobsInv'
  <2>1. \A t : Earlier(t) => Earlier(t)'
    BY <1>1 DEF Earlier
  <2>2. store'[Index] = store[Index] \/ ~IsRecord(store'[Index])
    OBVIOUS
  <2>3. IndexRecordInv'
    <3>1. SUFFICES ASSUME store'[Index] = store[Index], IsRecord(store[Index])
                   PROVE  /\ Whole(store[Index])
                          /\ Parts(store[Index].hashes, store[Index].graph)
                          /\ \A g \in DOMAIN store[Index].graph :
                               /\ store[Index].graph[g] <= source[g]
                               /\ pc # "idle" => \A c \in held[g] : store[Index].graph[g] <= c
                          /\ \A k \in DOMAIN store[Index].hashes :
                               IsRecord(store'[k]) => NoLater(store[Index].graph, store'[k])
      BY <1>1, <2>2 DEF IndexRecordInv, Earlier
    <3>2. DOMAIN store[Index].hashes \subseteq Files
      BY <3>1, SubtreesShape DEF TypeOK, DiskOK, IndexRecords
    <3>3. QED
      BY <3>1, <3>2 DEF DiskInv, IndexRecordInv, Earlier
  <2>4. BlobsInv'
    BY <1>1 DEF DiskInv, BlobsInv, Earlier
  <2>5. QED
    BY <2>3, <2>4
<1>4. QueueInv'
  <2>1. ASSUME NEW i \in 1..(n - 1)
        PROVE  /\ queue'[1][i] = queue[1][i + 1] /\ i + 1 \in 1..n
               /\ \A j \in i..(n - 1) : queue'[1][j] = queue[1][j + 1] /\ j + 1 \in (i + 1)..n
    BY <1>2
  <2>2. ASSUME NEW i \in 1..(n - 1)
        PROVE  LET w == queue[1][i + 1] IN
               /\ Whole(w.index) /\ w.index.hashes = w.blobs
               /\ Parts(w.blobs, w.index.graph) /\ Earlier(w.index.graph)
               /\ \A j \in i..(n - 1) : NoLater(w.index.graph, queue'[1][j].index.graph)
               /\ IsRecord(store'[Index]) => NoLater(store'[Index].graph, w.index.graph)
               /\ \A k \in Files : IsRecord(store'[k]) => NoLater(store'[k], w.index.graph)
    BY <2>1 DEF DiskInv, QueueInv
  <2>3. QED
    BY <1>1, <1>2, <2>1, <2>2 DEF QueueInv, Earlier
<1>5. PreviousInv'
  <2>1. ASSUME NEW i \in 1..(n - 1)
        PROVE  /\ queue'[1][i] = queue[1][i + 1] /\ i + 1 \in 1..n
               /\ \A j \in 1..i : queue'[1][j] = queue[1][j + 1] /\ j + 1 \in 1..(i + 1)
               /\ DOMAIN queue[1][i + 1].previous \subseteq Files
    BY <1>2, QueuedWorks, ServicesAssumption
  <2>2. ASSUME NEW i \in 1..(n - 1), NEW k \in DOMAIN queue[1][i + 1].previous
        PROVE  /\ \A j \in 1..i : NoLater(queue[1][i + 1].previous[k], queue'[1][j].index.graph)
               /\ IsRecord(store'[k]) => NoLater(queue[1][i + 1].previous[k], store'[k])
    <3>1. /\ \A j \in 1..(i + 1) : NoLater(queue[1][i + 1].previous[k], queue[1][j].index.graph)
          /\ IsRecord(store[k]) => NoLater(queue[1][i + 1].previous[k], store[k])
      BY <2>1, <2>2 DEF DiskInv, PreviousInv
    <3>2. k \in Files
      BY <2>1, <2>2
    <3>3. ASSUME NEW j \in 1..i
          PROVE  NoLater(queue[1][i + 1].previous[k], queue'[1][j].index.graph)
      <4>1. queue'[1][j] = queue[1][j + 1] /\ j + 1 \in 1..(i + 1)
        BY <2>1
      <4>2. NoLater(queue[1][i + 1].previous[k], queue[1][j + 1].index.graph)
        BY <3>1, <4>1
      <4>3. QED
        BY <4>1, <4>2
    <3>4. IsRecord(store'[k]) => store'[k] = store[k]
      BY <3>2
    <3>5. QED
      BY <3>1, <3>3, <3>4
  <2>3. ASSUME NEW i \in 1..(n - 1), NEW k \in DOMAIN queue'[1][i].previous
        PROVE  /\ \A j \in 1..i : NoLater(queue'[1][i].previous[k], queue'[1][j].index.graph)
               /\ IsRecord(store'[k]) => NoLater(queue'[1][i].previous[k], store'[k])
    BY <2>1, <2>2, <2>3
  <2>4. QED
    BY <1>2, <2>3 DEF PreviousInv
<1>6. DoneInv'
  BY <1>1 DEF DoneInv
<1>7. TornInv'
  BY <1>1, Absent DEF DiskInv, TornInv
<1>8. FlushInv'
  <2>1. ASSUME NEW r \in CacheRecords, Stored(r)
        PROVE  StoredAs(r, store', queue'[1])
    <3>1. CASE n = 1
      BY <1>2, <2>1, <3>1 DEF StoredAs
    <3>2. CASE n # 1
      <4>1. ASSUME NEW m \in Nat, m # 0, m # 1
            PROVE  m - 1 \in 1..(m - 1) /\ (m - 1) + 1 = m /\ m - 1 # 0
        BY <4>1
      <4>2. n - 1 \in 1..(n - 1) /\ (n - 1) + 1 = n /\ n - 1 # 0
        BY <1>2, <3>2, <4>1
      <4>3. queue'[1][n - 1] = queue[1][n]
        BY <1>2, <4>2
      <4>4. QED
        BY <1>2, <2>1, <4>2, <4>3 DEF Stored, StoredAs
    <3>3. QED
      BY <3>1, <3>2
  <2>3. /\ warm # None => Stored(warm) /\ warm \in CacheRecords
        /\ pc = "lookup" /\ record # None => Stored(record) /\ record \in CacheRecords
    BY DEF DiskInv, FlushInv, TypeOK, CompileOK
  <2>4. /\ warm # None => Stored(warm)'
        /\ pc = "lookup" /\ record # None => Stored(record)'
    BY <1>1, <2>1, <2>3 DEF Stored
  <2>5. QED
    BY <1>1, <2>4 DEF FlushInv
<1>9. QED
  BY <1>3, <1>4, <1>5, <1>6, <1>7, <1>8 DEF DiskInv

(* The work of a busy writer is the first of the queue.                    *)
LEMMA RunningWork ==
  ASSUME TypeOK, DiskInv, ForwardOnly, queue[1] # <<>>
  PROVE  /\ Work(1) = queue[1][1] /\ Len(queue[1]) \in Nat /\ 1 \in 1..Len(queue[1])
         /\ Work(1) \in Works /\ Work(1).index.graph \in Texts
         /\ DOMAIN Work(1).blobs \subseteq Files
         /\ Whole(Work(1).index) /\ Work(1).index.hashes = Work(1).blobs
         /\ Parts(Work(1).blobs, Work(1).index.graph) /\ Earlier(Work(1).index.graph)
         /\ \A i \in 1..Len(queue[1]) : NoLater(Work(1).index.graph, queue[1][i].index.graph)
         /\ IsRecord(store[Index]) => NoLater(store[Index].graph, Work(1).index.graph)
         /\ \A k \in Files : IsRecord(store[k]) => NoLater(store[k], Work(1).index.graph)
<1>1. queue[1] \in Seq(Works)
  BY ServicesAssumption DEF TypeOK, WriterOK
<1>2. Work(1) = queue[1][1] /\ Len(queue[1]) \in Nat /\ 1 \in 1..Len(queue[1])
  BY <1>1 DEF Work
<1>3. Work(1) \in Works /\ Work(1).index.graph \in Texts /\ DOMAIN Work(1).blobs \subseteq Files
  BY <1>2, QueuedWorks, ServicesAssumption
<1>4. QED
  BY <1>2, <1>3 DEF DiskInv, QueueInv

LEMMA TakeKeepsDisk ==
  ASSUME TypeOK, DiskInv, ForwardOnly, Take(1)
  PROVE  DiskInv'
<1>1. /\ UNCHANGED <<source, warm, pc, record, held, store, cacheDir, queue>>
      /\ writer[1].at = "idle" /\ queue[1] # <<>>
      /\ writer'[1] = [at |-> "next", left |-> DOMAIN Work(1).blobs]
  BY ServicesAssumption DEF Take, writerUnchanged, compileVars, TypeOK, WriterOK
<1>2. Done' = {}
  BY <1>1 DEF Done, Work
<1>3. IndexRecordInv' /\ BlobsInv' /\ QueueInv' /\ PreviousInv'
  BY <1>1 DEF DiskInv, IndexRecordInv, BlobsInv, QueueInv, PreviousInv, Earlier, IsRecord
<1>4. DoneInv' /\ TornInv'
  BY <1>1, <1>2 DEF DiskInv, DoneInv, TornInv
<1>5. FlushInv'
  BY <1>1, <1>2 DEF DiskInv, FlushInv, Stored
<1>6. QED
  BY <1>3, <1>4, <1>5 DEF DiskInv

LEMMA SkipKeepsDisk ==
  ASSUME TypeOK, DiskInv, ForwardOnly, NEW k \in Files, Skip(1, k)
  PROVE  DiskInv'
<1>1. /\ UNCHANGED <<source, warm, pc, record, held, store, cacheDir, queue>>
      /\ writer[1].at = "next" /\ k \in writer[1].left /\ UpToDate(1, k)
      /\ writer'[1] = [at |-> "next", left |-> writer[1].left \ {k}]
  BY ServicesAssumption DEF Skip, writerUnchanged, compileVars, TypeOK, WriterOK
<1>2. queue[1] # <<>> /\ k \in DOMAIN Work(1).blobs
  BY <1>1, ServicesAssumption DEF TypeOK, WriterOK
<1>3. Work(1)' = Work(1)
  BY <1>1 DEF Work
<1>4. Done' = Done \cup {k}
  BY <1>1, <1>2, <1>3 DEF Done
<1>5. IsRecord(store[k]) => store[k] = Work(1).blobs[k]
  <2>1. SUFFICES ASSUME IsRecord(store[k])
                 PROVE  store[k] = Work(1).blobs[k]
    OBVIOUS
  <2>2. Work(1).previous[k] = Work(1).blobs[k] /\ k \in DOMAIN Work(1).previous
    BY <1>1 DEF UpToDate
  <2>3. NoLater(Work(1).blobs[k], store[k])
    BY <1>2, <2>1, <2>2, RunningWork DEF DiskInv, PreviousInv
  <2>4. /\ Tree(Work(1).blobs[k], k) /\ PartOf(Work(1).blobs[k], Work(1).index.graph)
        /\ NoLater(store[k], Work(1).index.graph)
    BY <1>2, <2>1, RunningWork DEF Parts
  <2>5. Tree(store[k], k)
    BY <2>1 DEF DiskInv, BlobsInv
  <2>6. QED
    BY <2>3, <2>4, <2>5, SamePartition
<1>6. IndexRecordInv' /\ BlobsInv' /\ QueueInv' /\ PreviousInv'
  BY <1>1 DEF DiskInv, IndexRecordInv, BlobsInv, QueueInv, PreviousInv, Earlier, IsRecord
<1>7. DoneInv'
  BY <1>1, <1>3, <1>4, <1>5 DEF DiskInv, DoneInv, IsRecord
<1>8. TornInv'
  BY <1>1 DEF DiskInv, TornInv
<1>9. FlushInv'
  <2>1. store[k] # None
    BY <1>1 DEF UpToDate
  <2>2. QED
    BY <1>1, <1>4, <2>1 DEF DiskInv, FlushInv, Stored
<1>10. QED
  BY <1>6, <1>7, <1>8, <1>9 DEF DiskInv

LEMMA OpenKeepsDisk ==
  ASSUME TypeOK, TypeOK', GoneInv, DiskInv, ForwardOnly, NEW k \in Files \cup {Index}, Open(1, k)
  PROVE  DiskInv'
<1>1. /\ UNCHANGED <<source, warm, pc, record, held, cacheDir>>
      /\ writer[1].at = "next" /\ (k \in writer[1].left \/ (writer[1].left = {} /\ k = Index))
      /\ writerUnchanged' = writerUnchanged
  BY DEF Open, NextFile, writerUnchanged, compileVars
<1>2. queue[1] # <<>> /\ writer[1].left \subseteq DOMAIN Work(1).blobs
  BY <1>1, ServicesAssumption DEF TypeOK, WriterOK
<1>3. CASE cacheDir
  <2>1. /\ UNCHANGED queue /\ store' = [store EXCEPT ![k] = Torn]
        /\ writer'[1] = [at |-> "writing", file |-> k, left |-> writer[1].left \ {k},
                         unlinked |-> FALSE]
    BY <1>3, ServicesAssumption DEF Open, CanWrite, TypeOK, WriterOK
  <2>2. store'[k] = Torn /\ \A f \in Files \cup {Index} : f # k => store'[f] = store[f]
    BY <2>1 DEF TypeOK, DiskOK
  <2>3. Work(1)' = Work(1) /\ DOMAIN Work(1).blobs \subseteq Files
    BY <1>2, <2>1, RunningWork DEF Work
  <2>4. Done' = Done /\ k \notin Done /\ Done \subseteq Files
    BY <1>1, <1>2, <2>1, <2>3, Absent DEF Done
  <2>5. IndexRecordInv'
    <3>1. IsRecord(store[Index]) => DOMAIN store[Index].hashes \subseteq Files
      BY SubtreesShape DEF TypeOK, DiskOK, IndexRecords, IsRecord
    <3>2. QED
      BY <1>1, <2>2, <3>1 DEF DiskInv, IndexRecordInv, Earlier, IsRecord
  <2>6. BlobsInv'
    BY <1>1, <2>2 DEF DiskInv, BlobsInv, Earlier, IsRecord
  <2>7. QueueInv'
    BY <1>1, <2>1, <2>2 DEF DiskInv, QueueInv, Earlier, IsRecord
  <2>8. PreviousInv'
    <3>1. \A i \in 1..Len(queue[1]) : DOMAIN queue[1][i].previous \subseteq Files
      BY QueuedWorks, ServicesAssumption
    <3>2. QED
      BY <2>1, <2>2, <3>1 DEF DiskInv, PreviousInv, IsRecord
  <2>9. DoneInv'
    <3>1. \A f \in Done : IsRecord(store'[f]) => store'[f] = Work(1).blobs[f]
      BY <1>1, <2>2, <2>4 DEF DiskInv, DoneInv
    <3>2. /\ writer'[1].at = "writing" /\ writer'[1].file = k /\ ~writer'[1].unlinked
          /\ k \notin writer'[1].left /\ (k = Index => writer'[1].left = {})
      <4>1. Index \notin writer[1].left
        BY <1>2, <2>3, Absent
      <4>2. QED
        BY <1>1, <2>1, <4>1
    <3>3. QED
      BY <2>2, <2>3, <2>4, <3>1, <3>2 DEF DoneInv, IsRecord
  <2>10. TornInv'
    BY <1>1, <2>1, <2>2 DEF DiskInv, TornInv
  <2>11. FlushInv'
    <3>1. \A r : Stored(r) => StoredAs(r, store', queue'[1])
      BY <1>2, <2>1, RunningWork DEF Stored, StoredAs
    <3>2. /\ warm # None => Stored(warm)
          /\ pc = "lookup" /\ record # None => Stored(record)
          /\ Len(queue[1]) = 1 /\ cacheDir => \A f \in Done : store[f] # None
      BY <1>1 DEF DiskInv, FlushInv
    <3>3. \A f \in Done : store'[f] = store[f]
      BY <2>2, <2>4
    <3>4. writer'[1].at = "writing" /\ ~writer'[1].unlinked
      BY <2>1
    <3>5. QED
      BY <1>1, <2>1, <2>4, <3>1, <3>2, <3>3, <3>4 DEF FlushInv, Stored
  <2>12. QED
    BY <2>5, <2>6, <2>7, <2>8, <2>9, <2>10, <2>11 DEF DiskInv
<1>4. CASE ~cacheDir
  <2>1. Drop(1) /\ store' = store
    BY <1>4 DEF Open, CanWrite
  <2>2. store'[Index] = None
    BY <1>4, <2>1 DEF GoneInv
  <2>3. QED
    BY <1>1, <1>2, <2>1, <2>2, DropKeepsDisk DEF IsRecord
<1>5. QED
  BY <1>3, <1>4 DEF TypeOK, DiskOK

LEMMA WriteOutKeepsDisk ==
  ASSUME TypeOK, DiskInv, ForwardOnly, WriteOut(1)
  PROVE  DiskInv'
<1> DEFINE k == writer[1].file
           new == IF k = Index THEN Work(1).index ELSE Work(1).blobs[k]
<1>1. /\ UNCHANGED <<source, warm, pc, record, held, cacheDir, queue>>
      /\ writer[1].at = "writing" /\ 1 \in Services
      /\ store' = IF writer[1].unlinked THEN store ELSE [store EXCEPT ![k] = new]
      /\ writer'[1] = [at |-> IF k = Index THEN "cleanup" ELSE "next", left |-> writer[1].left]
  BY ServicesAssumption DEF WriteOut, writerUnchanged, compileVars, TypeOK, WriterOK
<1>2. /\ queue[1] # <<>> /\ k \in DOMAIN Work(1).blobs \cup {Index}
      /\ writer[1].left \subseteq DOMAIN Work(1).blobs
  BY <1>1 DEF TypeOK, WriterOK
<1>3. /\ Work(1)' = Work(1) /\ DOMAIN Work(1).blobs \subseteq Files
      /\ k \in Files \cup {Index} /\ Work(1).index.graph \in Texts
  BY <1>1, <1>2, RunningWork DEF Work
<1>4. /\ k \notin writer[1].left /\ store[k] = IF writer[1].unlinked THEN None ELSE Torn
      /\ k = Index => writer[1].left = {}
  BY <1>1 DEF DiskInv, DoneInv
<1>5. /\ k = Index => Done = DOMAIN Work(1).blobs /\ Done' = Done
      /\ k # Index => Done' = Done \cup {k} /\ k \in DOMAIN Work(1).blobs
  <2>1. Index \notin DOMAIN Work(1).blobs
    BY <1>3, Absent
  <2>2. QED
    BY <1>1, <1>2, <1>3, <1>4, <2>1 DEF Done
<1>6. CASE writer[1].unlinked
  <2>1. store' = store /\ store[k] = None
    BY <1>1, <1>4, <1>6
  <2>2. IndexRecordInv' /\ BlobsInv' /\ QueueInv' /\ PreviousInv'
    BY <1>1, <2>1 DEF DiskInv, IndexRecordInv, BlobsInv, QueueInv, PreviousInv, Earlier, IsRecord
  <2>3. DoneInv'
    BY <1>1, <1>3, <1>4, <1>5, <2>1 DEF DiskInv, DoneInv, IsRecord
  <2>4. TornInv'
    BY <1>1, <2>1, Absent DEF DiskInv, TornInv
  <2>5. FlushInv'
    BY <1>1, <1>6, <2>1 DEF DiskInv, FlushInv, Stored
  <2>6. QED
    BY <2>2, <2>3, <2>4, <2>5 DEF DiskInv
<1>7. CASE ~writer[1].unlinked
  <2>1. store'[k] = new /\ \A f \in Files \cup {Index} : f # k => store'[f] = store[f]
    BY <1>1, <1>3, <1>7 DEF TypeOK, DiskOK
  <2>2. k # Index =>
          /\ k \in Files /\ new = Work(1).blobs[k]
          /\ Tree(new, k) /\ PartOf(new, Work(1).index.graph) /\ Earlier(new)
    BY <1>2, <1>3, <1>5, RunningWork, LaterParts DEF Parts
  <2>3. new # None /\ new # Torn
    <3>1. k # Index => new \in Texts
      BY <2>2 DEF Tree
    <3>2. k = Index => new \in IndexRecords
      BY <1>2, RunningWork DEF Works
    <3>3. QED
      BY <3>1, <3>2, Absent
  <2>4. IndexRecordInv'
    <3>1. CASE k = Index
      <4>1. store'[Index] = Work(1).index
        BY <2>1, <3>1
      <4>2. ASSUME NEW f \in DOMAIN Work(1).blobs, IsRecord(store[f])
            PROVE  NoLater(Work(1).index.graph, store[f])
        <5>1. store[f] = Work(1).blobs[f]
          BY <1>1, <1>5, <3>1, <4>2 DEF DiskInv, DoneInv
        <5>2. PartOf(store[f], Work(1).index.graph)
          BY <1>2, <4>2, <5>1, RunningWork DEF Parts
        <5>3. QED
          BY <1>3, <5>2, LaterParts
      <4>3. \A f \in DOMAIN Work(1).blobs : store'[f] = store[f]
        BY <1>3, <2>1, <3>1, Absent
      <4>4. QED
        BY <1>1, <1>2, <4>1, <4>2, <4>3, RunningWork DEF IndexRecordInv, Earlier, IsRecord
    <3>2. CASE k # Index
      <4>1. store'[Index] = store[Index]
        BY <2>1, <3>2
      <4>2. ASSUME IsRecord(store[Index])
            PROVE  NoLater(store[Index].graph, new) /\ DOMAIN store[Index].hashes \subseteq Files
        <5>1. NoLater(store[Index].graph, Work(1).index.graph)
          BY <1>2, <4>2, RunningWork
        <5>2. DOMAIN store[Index].hashes \subseteq Files
          BY <4>2, SubtreesShape DEF TypeOK, DiskOK, IndexRecords, IsRecord
        <5>3. QED
          BY <2>2, <3>2, <5>1, <5>2, LaterParts
      <4>3. ASSUME IsRecord(store[Index]), NEW f \in DOMAIN store[Index].hashes, IsRecord(store'[f])
            PROVE  NoLater(store[Index].graph, store'[f])
        BY <2>1, <4>2, <4>3 DEF DiskInv, IndexRecordInv
      <4>4. QED
        BY <1>1, <4>1, <4>3 DEF DiskInv, IndexRecordInv, Earlier, IsRecord
    <3>3. QED
      BY <3>1, <3>2
  <2>5. BlobsInv'
    <3>1. ASSUME NEW f \in Files, IsRecord(store'[f])
          PROVE  Tree(store'[f], f) /\ Earlier(store'[f])
      BY <2>1, <2>2, <3>1, Absent DEF DiskInv, BlobsInv
    <3>2. QED
      BY <1>1, <3>1 DEF BlobsInv, Earlier, IsRecord
  <2>6. QueueInv'
    <3>1. ASSUME NEW i \in 1..Len(queue[1])
          PROVE  /\ IsRecord(store'[Index]) => NoLater(store'[Index].graph, queue[1][i].index.graph)
                 /\ \A f \in Files :
                      IsRecord(store'[f]) => NoLater(store'[f], queue[1][i].index.graph)
      <4>1. NoLater(Work(1).index.graph, queue[1][i].index.graph)
        BY <1>2, <3>1, RunningWork
      <4>2. k # Index => NoLater(new, queue[1][i].index.graph)
        BY <2>2, <4>1, LaterParts
      <4>3. k = Index => NoLater(new.graph, queue[1][i].index.graph)
        BY <4>1
      <4>4. QED
        BY <2>1, <3>1, <4>2, <4>3, Absent DEF DiskInv, QueueInv
    <3>2. QED
      BY <1>1, <3>1 DEF DiskInv, QueueInv, Earlier, IsRecord
  <2>7. PreviousInv'
    <3>1. ASSUME NEW i \in 1..Len(queue[1]), NEW f \in DOMAIN queue[1][i].previous,
                 IsRecord(store'[f])
          PROVE  NoLater(queue[1][i].previous[f], store'[f])
      <4>1. f \in Files
        BY QueuedWorks, <1>1
      <4>2. CASE f = k
        <5>1. NoLater(queue[1][i].previous[f], Work(1).index.graph)
          <6>1. Work(1) = queue[1][1] /\ 1 \in 1..i
            BY <1>2, RunningWork
          <6>2. QED
            BY <6>1 DEF DiskInv, PreviousInv
        <5>2. QED
          BY <2>1, <2>2, <4>1, <4>2, <5>1, LaterParts, Absent
      <4>3. CASE f # k
        BY <2>1, <3>1, <4>1, <4>3 DEF DiskInv, PreviousInv
      <4>4. QED
        BY <4>2, <4>3
    <3>2. QED
      BY <1>1, <3>1 DEF DiskInv, PreviousInv, IsRecord
  <2>8. DoneInv'
    <3>1. \A f \in Done' : IsRecord(store'[f]) => store'[f] = Work(1).blobs[f]
      <4>1. Done \subseteq Files
        BY <1>3 DEF Done
      <4>2. \A f \in Done : IsRecord(store[f]) => store[f] = Work(1).blobs[f]
        BY <1>1 DEF DiskInv, DoneInv
      <4>3. QED
        BY <1>5, <2>1, <2>2, <4>1, <4>2, Absent
    <3>2. k = Index => store'[Index] = Work(1).index
      BY <2>1
    <3>3. QED
      BY <1>1, <1>3, <1>4, <3>1, <3>2 DEF DoneInv, IsRecord
  <2>9. TornInv'
    BY <1>1, <2>1, <2>3 DEF DiskInv, TornInv
  <2>10. FlushInv'
    <3>1. \A r : Stored(r) => StoredAs(r, store', queue'[1])
      BY <1>1, <1>2, RunningWork DEF Stored, StoredAs
    <3>2. Done \subseteq Files
      BY <1>3 DEF Done
    <3>3. /\ warm # None => Stored(warm)
          /\ pc = "lookup" /\ record # None => Stored(record)
          /\ Len(queue[1]) = 1 /\ cacheDir => \A f \in Done : store[f] # None
      BY <1>1 DEF DiskInv, FlushInv
    <3>4. Len(queue[1]) = 1 /\ cacheDir => \A f \in Done' : store'[f] # None
      BY <1>5, <2>1, <2>3, <3>2, <3>3, Absent
    <3>5. writer'[1].at # "writing"
      BY <1>1
    <3>6. QED
      BY <1>1, <3>1, <3>3, <3>4, <3>5 DEF FlushInv, Stored
  <2>11. QED
    BY <2>4, <2>5, <2>6, <2>7, <2>8, <2>9, <2>10 DEF DiskInv
<1>8. QED
  BY <1>6, <1>7

LEMMA CleanupKeepsDisk ==
  ASSUME TypeOK, TypeOK', GoneInv, DiskInv, ForwardOnly, Cleanup(1)
  PROVE  DiskInv'
<1>1. /\ writer[1].at = "cleanup" /\ Drop(1) /\ writerUnchanged' = writerUnchanged
      /\ store' = [f \in DOMAIN store |->
                     IF f \in DOMAIN Work(1).blobs \cup {Index} THEN store[f] ELSE None]
  BY DEF Cleanup
<1>2. queue[1] # <<>>
  BY <1>1, ServicesAssumption DEF TypeOK, WriterOK
<1>3. /\ \A f \in Files \cup {Index} : store'[f] = store[f] \/ store'[f] = None
      /\ \A f \in DOMAIN Work(1).blobs \cup {Index} : store'[f] = store[f]
  BY <1>1, <1>2, RunningWork DEF TypeOK, DiskOK
<1>4. Done = DOMAIN Work(1).blobs /\ store[Index] \in {None, Work(1).index}
  BY <1>1 DEF DiskInv, DoneInv, Done
<1>5. ASSUME NEW r \in CacheRecords, Len(queue[1]) = 1, Stored(r), IsRecord(store'[Index])
      PROVE  /\ store'[Index].graph = r.graph /\ store'[Index].pdf = r.pdf
             /\ \A f \in DOMAIN r.subtrees : store'[f] # None
             /\ \A f \in DOMAIN r.subtrees : IsRecord(store'[f]) => store'[f] = r.subtrees[f]
  <2>1. store'[Index] = Work(1).index /\ cacheDir
    BY <1>3, <1>4, <1>5, Absent DEF IsRecord, GoneInv, TypeOK, DiskOK
  <2>2. /\ Work(1).index.graph = r.graph /\ Work(1).index.pdf = r.pdf
        /\ Work(1).blobs = r.subtrees
    BY <1>2, <1>5, RunningWork DEF Stored, StoredAs
  <2>3. \A f \in Done : store[f] # None /\ (IsRecord(store[f]) => store[f] = Work(1).blobs[f])
    BY <1>1, <1>5, <2>1 DEF DiskInv, FlushInv, DoneInv
  <2>4. QED
    BY <1>3, <1>4, <2>1, <2>2, <2>3
<1>6. QED
  BY <1>1, <1>2, <1>3, <1>5, DropKeepsDisk

LEMMA DiskStep ==
  ASSUME TypeOK, TypeOK', GoneInv, FirstInv, CompileInv, DiskInv, ForwardOnly, Next, ~faulted'
  PROVE  DiskInv'
<1>1. CASE PdfFault \/ StoreFault
  BY <1>1 DEF PdfFault, StoreFault
<1>2. ASSUME NEW s \in Services, Write(s)
      PROVE  DiskInv'
  <2>1. s = 1
    BY DEF ForwardOnly
  <2>2. QED
    BY <1>2, <2>1, TakeKeepsDisk, SkipKeepsDisk, OpenKeepsDisk, WriteOutKeepsDisk, CleanupKeepsDisk
       DEF Write
<1>3. QED
  BY <1>1, <1>2, CompileKeepsDisk, StoreKeepsDisk, ProcessKeepsDisk DEF Next, Compile

-----------------------------------------------------------------------------
(* The theorems.                                                           *)

LEMMA InitInv == Init => IInv
<1> SUFFICES ASSUME Init
             PROVE  IInv
  OBVIOUS
<1>1. TypeOK
  BY InitType
<1>2. GoneInv
  BY DEF Init, GoneInv
<1>3. FirstInv
  BY DEF Init, FirstInv, First
<1>4. CompileInv
  BY DEF Init, CompileInv, HeldInv, WarmInv, HandInv, IndexInv, RecordInv, PlanInv, JobInv,
         ResultInv
<1>5. ForwardOnly => DiskInv
  <2>1. SUFFICES ASSUME ForwardOnly
                 PROVE  DiskInv
    OBVIOUS
  <2>2. /\ queue[1] = <<>> /\ writer[1].at = "idle" /\ warm = None /\ pc = "idle"
        /\ \A k \in Files \cup {Index} : store[k] = None
    BY ServicesAssumption DEF Init
  <2>3. IndexRecordInv /\ BlobsInv /\ QueueInv /\ PreviousInv
    BY <2>2 DEF IndexRecordInv, BlobsInv, QueueInv, PreviousInv, IsRecord
  <2>4. DoneInv /\ TornInv /\ FlushInv
    BY <2>2, Absent DEF DoneInv, TornInv, FlushInv
  <2>5. QED
    BY <2>3, <2>4 DEF DiskInv
<1>6. QED
  BY <1>1, <1>2, <1>3, <1>4, <1>5 DEF IInv

LEMMA StepInv ==
  ASSUME OneProcess \/ ForwardOnly, IInv, [Next]_vars
  PROVE  IInv'
<1>1. TypeOK' /\ GoneInv' /\ FirstInv'
  BY TypeStep, GoneStep, FirstStep DEF IInv
<1>2. CASE Next
  <2>1. faulted => faulted'
    BY <1>2 DEF Next, Edit, Compile, Begin, ReadIndex, ReadBlob, Hit, Miss, Load, Fail, WritePdf,
                Store, PdfFault, StoreFault, Write, Take, Skip, Open, WriteOut, Cleanup, Evict,
                Restart, Crash, Handover, NewProcess, writerUnchanged, outcomeVars
  <2>2. ~faulted' => CompileInv'
    BY <1>2, <2>1, CompileStep DEF IInv
  <2>3. ~faulted' /\ ForwardOnly => DiskInv'
    BY <1>1, <1>2, <2>1, DiskStep DEF IInv
  <2>4. QED
    BY <1>1, <2>2, <2>3 DEF IInv, ForwardOnly
<1>3. CASE UNCHANGED vars
  <2>1. /\ UNCHANGED <<source, store, cacheDir, queue, writer, active, warm, pc, hint, record,
                       unread, plan, job, initial, changed, result, failed, faulted, held>>
    BY <1>3 DEF vars, diskVars, writerVars, compileVars, outcomeVars
  <2>2. CompileInv => CompileInv'
    BY <2>1 DEF CompileInv, HeldInv, WarmInv, HandInv, IndexInv, RecordInv, PlanInv, JobInv,
                ResultInv, HintedRecord, DiskRecord, Between, Noticed, Seen, Single, IsRecord,
                OneProcess, ForwardOnly
  <2>3. DiskInv => DiskInv'
    BY <2>1 DEF DiskInv, IndexRecordInv, BlobsInv, QueueInv, PreviousInv, DoneInv, TornInv,
                FlushInv, Stored, Earlier, Done, Work, IsRecord
  <2>4. QED
    BY <1>1, <2>1, <2>2, <2>3 DEF IInv, ForwardOnly
<1>4. QED
  BY <1>2, <1>3

(* TypeOK: every variable of the cache, its writer and the compile has its *)
(* type, and a busy writer has a work whose partitions it writes.          *)
THEOREM TypeCorrect == Spec => []TypeOK
<1>1. Init => TypeOK
  BY InitType
<1>2. TypeOK /\ [Next]_vars => TypeOK'
  BY TypeStep
<1>3. QED
  BY <1>1, <1>2, PTL DEF Spec

(* NoCacheAfterFailure: remove_failed_compile_artifacts wins over every    *)
(* writer that still has work of earlier compiles.                         *)
THEOREM FailureLeavesNoCache == Spec => []NoCacheAfterFailure
<1> DEFINE Inv == TypeOK /\ GoneInv
<1>1. Init => Inv
  BY InitType DEF Init, GoneInv
<1>2. Inv /\ [Next]_vars => Inv'
  BY TypeStep, GoneStep
<1>3. Inv => NoCacheAfterFailure
  BY DEF GoneInv, NoCacheAfterFailure, TypeOK, DiskOK
<1>4. QED
  BY <1>1, <1>2, <1>3, PTL DEF Spec

(* The inductive invariant holds of every run of one process, and of every *)
(* run of one service whose files never get an earlier content back.       *)
LEMMA Invariant ==
  ASSUME OneProcess \/ ForwardOnly
  PROVE  Spec => []IInv
<1>1. Init => IInv
  BY InitInv
<1>2. IInv /\ [Next]_vars => IInv'
  BY StepInv
<1>3. QED
  BY <1>1, <1>2, PTL DEF Spec

(* OutputIsCurrent: an incremental compile returns what a full one could   *)
(* have, with the warm cache, the index and the partitions of any age,     *)
(* after crashes, evictions and edits at any time.                         *)
THEOREM OutputCurrent ==
  ASSUME OneProcess \/ ForwardOnly
  PROVE  Spec => []OutputIsCurrent
<1>1. IInv => OutputIsCurrent
  <2>1. SUFFICES ASSUME IInv, result # None, ~faulted
                 PROVE  Current(result)
    BY DEF OutputIsCurrent
  <2>2. Tree(result, Root) /\ Seen(result, {})
    BY <2>1 DEF IInv, CompileInv, ResultInv
  <2>3. QED
    BY <2>2, ReachClosed DEF Current, Tree, Closed, Seen
<1>2. QED
  BY <1>1, Invariant, PTL

(* WarmMatchesGraph: the hashes that will be compared are those of the     *)
(* texts that will be reused.                                              *)
THEOREM WarmMatches ==
  ASSUME OneProcess \/ ForwardOnly
  PROVE  Spec => []WarmMatchesGraph
<1>1. IInv => WarmMatchesGraph
  BY DEF IInv, CompileInv, WarmInv, Parts, PartOf, WarmMatchesGraph
<1>2. QED
  BY <1>1, Invariant, PTL

(* FlushedCacheIsWarm: what the background writer leaves on disk is what   *)
(* the service has in memory, however its works were queued, dropped or    *)
(* interrupted.                                                            *)
THEOREM FlushedIsWarm ==
  ASSUME ForwardOnly
  PROVE  Spec => []FlushedCacheIsWarm
<1>1. IInv => FlushedCacheIsWarm
  <2>1. SUFFICES ASSUME IInv, Drained, warm # None, ~faulted, IsRecord(store[Index])
                 PROVE  /\ store[Index].graph = warm.graph
                        /\ store[Index].pdf = warm.pdf
                        /\ \A f \in DOMAIN warm.subtrees :
                             store[f] = warm.subtrees[f] \/ (AllowCrash /\ store[f] = Torn)
    BY DEF FlushedCacheIsWarm
  <2>2. queue[1] = <<>> /\ writer[1].at = "idle" /\ DOMAIN warm.subtrees \subseteq Files
    <3>1. queue[1] = <<>> /\ writer[1].at = "idle"
      BY <2>1, ServicesAssumption DEF Drained, IInv, TypeOK, WriterOK
    <3>2. DOMAIN warm.subtrees \subseteq Files
      BY <2>1, SubtreesShape DEF IInv, TypeOK, CompileOK, CacheRecords
    <3>3. QED
      BY <3>1, <3>2
  <2>3. Stored(warm) /\ TornInv
    BY <2>1 DEF IInv, DiskInv, FlushInv
  <2>4. QED
    BY <2>1, <2>2, <2>3 DEF Stored, StoredAs, TornInv, IsRecord
<1>2. QED
  BY <1>1, Invariant, PTL
=============================================================================
