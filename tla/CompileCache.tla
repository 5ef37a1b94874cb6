----------------------------- MODULE CompileCache -----------------------------
(***************************************************************************)
(* The incremental compile cache: CompileCache and BackgroundCacheWriter   *)
(* (compile_cache.rs) with the part of CompileJobService that reads,       *)
(* reuses, stores and removes it (compile_job_service.rs).                 *)
(*                                                                         *)
(* A file's content is a number and its hash is the content itself.  The   *)
(* expansion of a file, a "text", says which content every file of its     *)
(* \input subtree had.  The same function over all files of the document   *)
(* is its dependency graph (the edges of a node follow from its content)   *)
(* and its PDF.  The partitions are those of the source subtrees.          *)
(***************************************************************************)
EXTENDS Naturals, Sequences, FiniteSets, Functions

CONSTANTS
    Files,          \* the source files
    Root,           \* the primary input
    Contents,       \* what a file can contain
    BadContents,    \* contents that make a compile fail
    Inputs,         \* Inputs[f][c]: what f \input's when it contains c
    Services,       \* CompileJobService objects of a process, in order: 1..n
    None,           \* no file, no record
    Torn,           \* a file opened for writing, or left so by a crash
    Index,          \* the name of the index among the files of the cache
    AllowRevert,    \* an edit may bring back an earlier content
    AllowCrash,     \* the process may be killed
    AllowFault,     \* writing the PDF or preparing the cache may fail
    AllowEvict,     \* other jobs store records in the same directory
    MaxEdits, MaxCompiles, MaxRestarts  \* BOUNDS

ASSUME FilesAssumption == Root \in Files /\ IsFiniteSet(Files) /\ Index \notin Files
ASSUME ContentsAssumption == Contents \subseteq Nat /\ BadContents \subseteq Contents
ASSUME InputsAssumption == Inputs \in [Files -> [Contents -> SUBSET (Files \ {Root})]]
(* The include structure is a tree: a file is \input from one place.       *)
ASSUME TreeAssumption ==
    \A f, g \in Files, c, d \in Contents :
        Inputs[f][c] \cap Inputs[g][d] # {} => f = g
ASSUME ServicesAssumption == IsFiniteSet(Services) /\ Services = 1..Cardinality(Services) /\ 1 \in Services
ASSUME BoundsAssumption ==
    /\ MaxEdits \in Nat /\ MaxCompiles \in Nat /\ MaxRestarts \in Nat
    /\ AllowRevert \in BOOLEAN /\ AllowCrash \in BOOLEAN /\ AllowFault \in BOOLEAN
    /\ AllowEvict \in BOOLEAN

VARIABLES
    source,         \* the content of every source file
    \* the output directory
    store,          \* the files of the cache: one per partition, and Index
    cacheDir,       \* the cache directory exists
    pdf,            \* the output PDF
    \* BackgroundCacheWriter of every service
    queue,          \* the CacheStoreWork's of the channel, the running one first
    writer,         \* the progress of the running one
    \* CompileJobService
    active,         \* the service that compiles
    warm,           \* warm_partition_cache
    pc,             \* "idle", "index", "lookup", "load", "built" or "written"
    hint,           \* changed_paths_hint
    record,         \* the cache record of the lookup
    unread,         \* the partitions of the record still to be read
    plan,           \* SourceTreeReusePlan
    job,            \* the loaded source tree
    \* the watcher's view, history and counters
    initial,        \* the process has not compiled yet
    changed,        \* the files edited since the latest compile began
    result,         \* the PDF the latest compile returned
    failed,         \* the latest compile failed
    faulted,        \* the PDF or the cache could not be written once
    held,           \* the contents each file had during the latest compile
    edits, compiles, restarts

diskVars == <<store, cacheDir, pdf>>
writerVars == <<queue, writer>>
compileVars == <<hint, record, unread, plan, job>>
outcomeVars == <<result, failed, faulted>>
counters == <<edits, compiles, restarts>>
vars == <<source, diskVars, writerVars, active, warm, pc, compileVars, initial,
          changed, outcomeVars, held, counters>>

-----------------------------------------------------------------------------
(* Texts.                                                                  *)

Texts == UNION {[S -> Contents] : S \in SUBSET Files}
EmptyText == [f \in {} |-> 0]
Subtrees == UNION {[S -> Texts] : S \in SUBSET Files}
NoSubtrees == [f \in {} |-> EmptyText]

(* The files that text t reaches from file f.                              *)
Reach(t, f) ==
    {g \in DOMAIN t :
       \A S \in SUBSET DOMAIN t :
         f \in S /\ (\A h \in S : Inputs[h][t[h]] \cap DOMAIN t \subseteq S)
           => g \in S}

(* MUTANT of Affected: only the changed files themselves.                  *)
AffectedWithoutParents(graph, changes) == DOMAIN graph \cap changes

(* DependencyGraph::affected_paths: the changed files and all that \input  *)
(* them, directly or not.                                                  *)
Affected(graph, changes) ==
    {f \in DOMAIN graph : Reach(graph, f) \cap changes # {}}

IsRecord(file) == file \notin {None, Torn}

-----------------------------------------------------------------------------
Init ==
    /\ source \in {[f \in Files |-> c] : c \in {c \in Contents : \A d \in Contents : c <= d}}
    /\ store = [k \in Files \cup {Index} |-> None] /\ cacheDir = FALSE /\ pdf = None
    /\ queue = [s \in Services |-> <<>>]
    /\ writer = [s \in Services |-> [at |-> "idle"]]
    /\ active = 1 /\ warm = None /\ pc = "idle" /\ hint = {} /\ record = None
    /\ unread = {} /\ plan = None /\ job = None
    /\ initial = TRUE /\ changed = {} /\ result = None /\ failed = FALSE /\ faulted = FALSE
    /\ held = [f \in Files |-> {}]
    /\ edits = 0 /\ compiles = 0 /\ restarts = 0

(* BOUND: nobody sees an edit behind the last compile.                     *)
Edit(f, c) ==
    /\ edits < MaxEdits
    /\ compiles = MaxCompiles => pc # "idle"
    /\ IF AllowRevert THEN c # source[f] ELSE c > source[f]
    /\ source' = [source EXCEPT ![f] = c]
    /\ changed' = changed \cup {f}
    /\ held' = IF pc = "idle" THEN held ELSE [held EXCEPT ![f] = @ \cup {c}]
    /\ edits' = edits + 1
    /\ UNCHANGED <<diskVars, writerVars, active, warm, pc, compileVars, initial,
                   outcomeVars, compiles, restarts>>

-----------------------------------------------------------------------------
(* The compile.                                                            *)

(* compile_with_changed_paths takes the warm cache.  The first compile of  *)
(* a process has an empty hint; every later one is started by the watcher  *)
(* on the last service, and names at least the files edited since the one  *)
(* before began.                                                           *)
Begin(h) ==
    /\ pc = "idle"
    /\ compiles < MaxCompiles
    /\ IF initial THEN h = {} ELSE h # {} /\ changed \subseteq h
    /\ initial \/ active + 1 \notin Services
    /\ hint' = h
    /\ warm' = None
    /\ record' = warm
    /\ unread' = {}
    /\ pc' = IF warm = None THEN "index" ELSE "lookup"
    /\ initial' = FALSE
    /\ changed' = {}
    /\ result' = None /\ failed' = FALSE /\ UNCHANGED faulted
    /\ held' = [f \in Files |-> {source[f]}]
    /\ compiles' = compiles + 1
    /\ UNCHANGED <<source, diskVars, writerVars, active, plan, job, edits, restarts>>

(* load_record: without a warm cache the index is read from disk.          *)
ReadIndex ==
    /\ pc = "index"
    /\ pc' = "lookup"
    /\ IF IsRecord(store[Index])
         THEN /\ record' = [graph |-> store[Index].graph, pdf |-> store[Index].pdf,
                            subtrees |-> NoSubtrees]
              /\ unread' = DOMAIN store[Index].hashes
         ELSE record' = None /\ unread' = {}
    /\ UNCHANGED <<source, diskVars, writerVars, active, warm, hint, plan, job,
                   initial, changed, outcomeVars, held, counters>>

WithPartition(r, k, text) ==
    [graph |-> r.graph, pdf |-> r.pdf,
     subtrees |-> [f \in DOMAIN r.subtrees \cup {k} |-> IF f = k THEN text ELSE r.subtrees[f]]]

(* read_partition_blob: a missing or damaged partition is left out.        *)
ReadBlob(k) ==
    /\ pc = "lookup"
    /\ k \in unread
    /\ unread' = unread \ {k}
    /\ record' = IF IsRecord(store[k]) THEN WithPartition(record, k, store[k]) ELSE record
    /\ UNCHANGED <<source, diskVars, writerVars, active, warm, pc, hint, plan, job,
                   initial, changed, outcomeVars, held, counters>>

(* MUTANT of DetectedChanges: an empty hint means nothing to check.        *)
DetectedInHint ==
    {f \in hint \cap DOMAIN record.graph : source[f] # record.graph[f]}

(* detect_changes: all files of the graph, or only those the hint names.   *)
DetectedChanges ==
    {f \in IF hint = {} THEN DOMAIN record.graph ELSE hint \cap DOMAIN record.graph :
       source[f] # record.graph[f]}

(* The end of the compile: its local variables are gone.                   *)
Return ==
    /\ pc' = "idle"
    /\ record' = None /\ unread' = {} /\ plan' = None /\ job' = None
    /\ UNCHANGED hint

LookupReady == pc = "lookup" /\ unread = {}

PdfIsCurrent ==
    IF record = None THEN FALSE ELSE DetectedChanges = {} /\ pdf = record.pdf

(* Nothing changed and the PDF is the recorded one: it is the result.      *)
Hit ==
    /\ LookupReady
    /\ PdfIsCurrent
    /\ result' = pdf
    /\ warm' = record
    /\ Return
    /\ UNCHANGED <<source, diskVars, writerVars, active, initial, changed, failed,
                   faulted, held, counters>>

(* Otherwise the compile reuses what the changes do not affect, or nothing *)
(* when there is no record or when only the PDF is not the recorded one.   *)
Miss ==
    /\ LookupReady
    /\ ~PdfIsCurrent
    /\ plan' = IF record = None THEN None
               ELSE IF DetectedChanges = {} THEN None
               ELSE [rebuild |-> Affected(record.graph, DetectedChanges),
                     graph |-> record.graph, subtrees |-> record.subtrees]
    /\ pc' = "load"
    /\ record' = None
    /\ UNCHANGED <<source, diskVars, writerVars, active, warm, hint, unread, job,
                   initial, changed, outcomeVars, held, counters>>

(* load_source_file and expand_inputs.  A file \input'ed by a file that is *)
(* read anew is reused from the plan, or read anew too.                    *)
Reusable(f) ==
    IF plan = None THEN FALSE
    ELSE f # Root /\ f \notin plan.rebuild /\ f \in DOMAIN plan.subtrees

ReadAnew ==
    {g \in Files :
       \A S \in SUBSET Files :
         Root \in S /\ (\A f \in S : \A h \in Inputs[f][source[f]] : Reusable(h) \/ h \in S)
           => g \in S}

Reused == {g \in UNION {Inputs[f][source[f]] : f \in ReadAnew} : Reusable(g)}

(* MUTANT of KeptHash: the reused file is hashed again.                    *)
HashNow(f) == source[f]

(* restore_cached_subtree_graph: a file that is not read keeps its node.   *)
KeptHash(f) == plan.graph[f]

(* The subtrees of the new tree: a reused one is kept as it is, without    *)
(* those inside it.                                                        *)
Load ==
    /\ pc = "load"
    /\ pc' = "built"
    /\ LET old == UNION {DOMAIN plan.subtrees[t] : t \in Reused}
           text == [f \in ReadAnew \cup old |->
                      IF f \in ReadAnew THEN source[f]
                      ELSE plan.subtrees[CHOOSE t \in Reused : f \in DOMAIN plan.subtrees[t]][f]]
           graph == [f \in ReadAnew \cup {g \in old : g \in DOMAIN plan.graph} |->
                      IF f \in ReadAnew THEN source[f] ELSE KeptHash(f)]
       IN  job' = [text |-> text, graph |-> graph,
                   subtrees |-> [f \in ReadAnew \cup Reused |->
                      IF f \in ReadAnew THEN Restrict(text, Reach(text, f))
                      ELSE plan.subtrees[f]]]
    /\ plan' = None
    /\ UNCHANGED <<source, diskVars, writerVars, active, warm, hint, record, unread,
                   initial, changed, outcomeVars, held, counters>>

Sound == \A f \in DOMAIN job.text : job.text[f] \notin BadContents

(* The directory of the record goes, also under a writer that has one of   *)
(* its files open.                                                         *)
RemoveRecord ==
    /\ store' = [k \in DOMAIN store |-> None]
    /\ cacheDir' = FALSE
    /\ writer' = [s \in Services |->
                    IF writer[s].at = "writing"
                      THEN [at |-> "writing", file |-> writer[s].file,
                            left |-> writer[s].left, unlinked |-> TRUE]
                      ELSE writer[s]]

(* remove_failed_compile_artifacts: the cache goes, and the PDF unless the *)
(* watcher started the compile.                                            *)
Fail ==
    /\ pc = "built"
    /\ ~Sound
    /\ RemoveRecord
    /\ pdf' = IF hint = {} THEN None ELSE pdf
    /\ failed' = TRUE
    /\ Return
    /\ UNCHANGED <<source, queue, active, warm, initial, changed, result, faulted,
                   held, counters>>

WritePdf ==
    /\ pc = "built"
    /\ Sound
    /\ pdf' = job.text
    /\ result' = job.text
    /\ pc' = "written"
    /\ UNCHANGED <<source, store, cacheDir, writerVars, active, warm, compileVars,
                   initial, changed, failed, faulted, held, counters>>

(* The PDF cannot be written: an early return that leaves the cache alone. *)
PdfFault ==
    /\ AllowFault
    /\ pc = "built"
    /\ Sound
    /\ faulted' = TRUE
    /\ Return
    /\ UNCHANGED <<source, diskVars, writerVars, active, warm, initial, changed,
                   result, failed, held, counters>>

(* store_background: the work goes to the writer with the hashes of the    *)
(* index that is on disk at this moment, and the tree becomes the warm     *)
(* cache.                                                                  *)
PreviousHashes == IF IsRecord(store[Index]) THEN store[Index].hashes ELSE NoSubtrees

Store ==
    /\ pc = "written"
    /\ cacheDir' = TRUE
    /\ queue' = [queue EXCEPT ![active] = Append(@,
                   [blobs |-> job.subtrees, previous |-> PreviousHashes,
                    index |-> [graph |-> job.graph, pdf |-> job.text,
                               hashes |-> job.subtrees]])]
    /\ warm' = [graph |-> job.graph, pdf |-> job.text, subtrees |-> job.subtrees]
    /\ Return
    /\ UNCHANGED <<source, store, pdf, writer, active, initial, changed, outcomeVars,
                   held, counters>>

(* The cache directory cannot be prepared: nothing is stored.              *)
StoreFault ==
    /\ AllowFault
    /\ pc = "written"
    /\ faulted' = TRUE
    /\ Return
    /\ UNCHANGED <<source, diskVars, writerVars, active, warm, initial, changed,
                   result, failed, held, counters>>

-----------------------------------------------------------------------------
(* The background writer of service s: execute_cache_store_work.           *)

Work(s) == Head(queue[s])

writerUnchanged == <<source, pdf, active, warm, pc, compileVars, initial, changed,
                     outcomeVars, held, counters>>

Take(s) ==
    /\ writer[s].at = "idle"
    /\ queue[s] # <<>>
    /\ writer' = [writer EXCEPT ![s] = [at |-> "next", left |-> DOMAIN Work(s).blobs]]
    /\ UNCHANGED <<store, cacheDir, queue>>
    /\ UNCHANGED writerUnchanged

(* The work is finished, or given up.                                      *)
Drop(s) ==
    /\ writer' = [writer EXCEPT ![s] = [at |-> "idle"]]
    /\ queue' = [queue EXCEPT ![s] = Tail(@)]

(* The partition is on disk already, says the index read at enqueue.       *)
UpToDate(s, k) ==
    /\ k \in DOMAIN Work(s).previous
    /\ Work(s).previous[k] = Work(s).blobs[k]
    /\ store[k] # None

(* MUTANT of NextFile: the index does not wait for the partitions.         *)
AnyFile(s, k) == k \in writer[s].left \cup {Index}

(* The partitions come first, in any order, and the index last.            *)
NextFile(s, k) == k \in writer[s].left \/ (writer[s].left = {} /\ k = Index)

Skip(s, k) ==
    /\ writer[s].at = "next"
    /\ k \in writer[s].left
    /\ UpToDate(s, k)
    /\ writer' = [writer EXCEPT ![s] = [at |-> "next", left |-> writer[s].left \ {k}]]
    /\ UNCHANGED <<store, cacheDir, queue>>
    /\ UNCHANGED writerUnchanged

(* MUTANT of CanWrite: the writer makes the directories it needs.          *)
WriteAnyway == TRUE

(* fs::write does not create directories.                                  *)
CanWrite == cacheDir

(* fs::write truncates the file first.  An error ends the work.            *)
Open(s, k) ==
    /\ writer[s].at = "next"
    /\ NextFile(s, k)
    /\ k \in Files => ~UpToDate(s, k)
    /\ IF CanWrite
         THEN /\ store' = [store EXCEPT ![k] = Torn]
              /\ writer' = [writer EXCEPT ![s] = [at |-> "writing", file |-> k,
                              left |-> writer[s].left \ {k}, unlinked |-> FALSE]]
              /\ UNCHANGED queue
         ELSE Drop(s) /\ UNCHANGED store
    /\ UNCHANGED cacheDir
    /\ UNCHANGED writerUnchanged

WriteOut(s) ==
    /\ writer[s].at = "writing"
    /\ LET k == writer[s].file
       IN  /\ store' = IF writer[s].unlinked THEN store
                       ELSE [store EXCEPT ![k] = IF k = Index THEN Work(s).index
                                                 ELSE Work(s).blobs[k]]
           /\ writer' = [writer EXCEPT ![s] =
                 [at |-> IF k = Index THEN "cleanup" ELSE "next", left |-> writer[s].left]]
    /\ UNCHANGED <<cacheDir, queue>>
    /\ UNCHANGED writerUnchanged

(* cleanup_orphaned_partitions_dir.                                        *)
Cleanup(s) ==
    /\ writer[s].at = "cleanup"
    /\ store' = [k \in DOMAIN store |->
                   IF k \in DOMAIN Work(s).blobs \cup {Index} THEN store[k] ELSE None]
    /\ Drop(s)
    /\ UNCHANGED cacheDir
    /\ UNCHANGED writerUnchanged

(* evict_oldest_records, by the writer of another job in the same cache    *)
(* directory: this job's record is now the oldest of too many.  A          *)
(* directory without a readable index is no record and stays.              *)
Evict ==
    /\ AllowEvict
    /\ IsRecord(store[Index])
    /\ RemoveRecord
    /\ UNCHANGED queue
    /\ UNCHANGED writerUnchanged

Write(s) ==
    \/ Take(s)
    \/ \E k \in Files : Skip(s, k)
    \/ \E k \in Files \cup {Index} : Open(s, k)
    \/ WriteOut(s)
    \/ Cleanup(s)

-----------------------------------------------------------------------------
(* The process.                                                            *)

Drained == \A s \in Services : queue[s] = <<>>

NewProcess ==
    /\ restarts < MaxRestarts
    /\ restarts' = restarts + 1
    /\ active' = 1 /\ warm' = None /\ initial' = TRUE
    /\ Return
    /\ UNCHANGED <<source, store, cacheDir, changed, outcomeVars, held, edits, compiles>>

(* The process ends after flush_cache and Drop, and another one starts.    *)
Restart ==
    /\ pc = "idle"
    /\ ~initial
    /\ Drained
    /\ NewProcess
    /\ UNCHANGED <<pdf, writerVars>>

(* The process is killed.  A file it was writing stays as it is, the PDF   *)
(* included.                                                               *)
Crash ==
    /\ AllowCrash
    /\ ~initial
    /\ NewProcess
    /\ pdf' \in IF pc = "built" THEN {pdf, Torn} ELSE {pdf}
    /\ queue' = [s \in Services |-> <<>>]
    /\ writer' = [s \in Services |-> [at |-> "idle"]]

(* `ferritex preview`: after the initial compile succeeds, the watch loop  *)
(* goes on with a service of its own.                                      *)
Handover ==
    /\ pc = "idle"
    /\ ~initial
    /\ result # None
    /\ active + 1 \in Services
    /\ active' = active + 1
    /\ warm' = None
    /\ UNCHANGED <<source, diskVars, writerVars, pc, compileVars, initial, changed,
                   outcomeVars, held, counters>>

Compile ==
    \/ \E h \in SUBSET Files : Begin(h)
    \/ ReadIndex
    \/ \E k \in Files : ReadBlob(k)
    \/ Hit \/ Miss \/ Load \/ Fail \/ WritePdf \/ Store

Next ==
    \/ \E f \in Files, c \in Contents : Edit(f, c)
    \/ Compile
    \/ PdfFault \/ StoreFault
    \/ \E s \in Services : Write(s)
    \/ Evict
    \/ Restart \/ Crash \/ Handover

Spec == Init /\ [][Next]_vars

-----------------------------------------------------------------------------
(* Properties.                                                             *)

CacheRecords == [graph : Texts, pdf : Texts, subtrees : Subtrees]
IndexRecords == [graph : Texts, pdf : Texts, hashes : Subtrees]
Works == [blobs : Subtrees, previous : Subtrees, index : IndexRecords]
Writers ==
    [at : {"idle"}]
      \cup [at : {"next", "cleanup"}, left : SUBSET Files]
      \cup [at : {"writing"}, file : Files \cup {Index}, left : SUBSET Files, unlinked : BOOLEAN]
Plans == [rebuild : SUBSET Files, graph : Texts, subtrees : Subtrees]
Jobs == [text : Texts, graph : Texts, subtrees : Subtrees]

(* What stands for absent files and records is none of them.               *)
ASSUME AbsentAssumption ==
    /\ None # Torn
    /\ {None, Torn} \cap (Texts \cup CacheRecords \cup IndexRecords \cup Jobs) = {}

DiskOK ==
    /\ DOMAIN store = Files \cup {Index}
    /\ \A k \in Files : store[k] \in Texts \cup {None, Torn}
    /\ store[Index] \in IndexRecords \cup {None, Torn}
    /\ cacheDir \in BOOLEAN
    /\ pdf \in Texts \cup {None, Torn}

WriterOK ==
    /\ queue \in [Services -> Seq(Works)]
    /\ writer \in [Services -> Writers]
    /\ \A s \in Services :
         /\ writer[s].at # "idle" =>
              queue[s] # <<>> /\ writer[s].left \subseteq DOMAIN Work(s).blobs
         /\ writer[s].at = "writing" => writer[s].file \in DOMAIN Work(s).blobs \cup {Index}

CompileOK ==
    /\ active \in Services
    /\ warm \in CacheRecords \cup {None}
    /\ pc \in {"idle", "index", "lookup", "load", "built", "written"}
    /\ hint \subseteq Files /\ unread \subseteq Files
    /\ record \in CacheRecords \cup {None}
    /\ unread # {} => record # None
    /\ plan \in Plans \cup {None}
    /\ job \in Jobs \cup {None}
    /\ job # None <=> pc \in {"built", "written"}

HistoryOK ==
    /\ source \in [Files -> Contents]
    /\ initial \in BOOLEAN /\ changed \subseteq Files
    /\ result \in Texts \cup {None}
    /\ failed \in BOOLEAN /\ faulted \in BOOLEAN
    /\ held \in [Files -> SUBSET Contents]
    /\ edits \in Nat /\ compiles \in Nat /\ restarts \in Nat

TypeOK == DiskOK /\ WriterOK /\ CompileOK /\ HistoryOK

(* An incremental compile returns what a full one could have: every file   *)
(* of the document is there with a content it had while the compile ran,   *)
(* and the document is exactly what these contents \input.                 *)
Current(text) ==
    /\ Root \in DOMAIN text
    /\ \A f \in DOMAIN text :
         text[f] \in held[f] /\ Inputs[f][text[f]] \subseteq DOMAIN text
    /\ DOMAIN text = Reach(text, Root)

(* (An error that kept the PDF or the cache from being written leaves an   *)
(* older record, and the next hint names too few files for it.)            *)
OutputIsCurrent == result # None /\ ~faulted => Current(result)

(* The same of the compiles that check every file of the graph, also after *)
(* such an error: without a hint nothing stale could be returned.  This    *)
(* does not hold (README): a kill can leave a partition that a failed      *)
(* write made stale under the index of before.                             *)
CheckedOutputIsCurrent == result # None /\ hint = {} => Current(result)

(* The hashes the warm cache will check for changes are those of the text  *)
(* it will reuse, and every part of that text has one.                     *)
WarmMatchesGraph ==
    warm # None /\ ~faulted =>
      \A f \in DOMAIN warm.subtrees : \A g \in DOMAIN warm.subtrees[f] :
        g \in DOMAIN warm.graph /\ warm.graph[g] = warm.subtrees[f][g]

(* "fatal compile errors must not leave cache artifacts": not even when    *)
(* the writer still had work of earlier compiles to do.                    *)
NoCacheAfterFailure ==
    pc = "idle" /\ failed /\ Drained => \A k \in DOMAIN store : store[k] = None

(* What a flush leaves on disk is what the compiling service has in        *)
(* memory, with no partition missing or stale.  Only a partition that an   *)
(* earlier crash damaged may stay so: the writer asks if the file exists,  *)
(* not what is in it.                                                      *)
FlushedCacheIsWarm ==
    pc = "idle" /\ Drained /\ warm # None /\ ~faulted /\ IsRecord(store[Index]) =>
      /\ store[Index].graph = warm.graph
      /\ store[Index].pdf = warm.pdf
      /\ \A f \in DOMAIN warm.subtrees :
           store[f] = warm.subtrees[f] \/ (AllowCrash /\ store[f] = Torn)

(* "publish the reference only after the blob has been written durably":   *)
(* an index that can be read names partitions that are complete and have   *)
(* the hash it gives for them.                                             *)
PublishedBlobsAreDurable ==
    IsRecord(store[Index]) =>
      \A f \in DOMAIN store[Index].hashes : store[f] = store[Index].hashes[f]
=============================================================================
