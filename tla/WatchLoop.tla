------------------------------ MODULE WatchLoop ------------------------------
(***************************************************************************)
(* `ferritex watch`: the loop of ferritex-cli/src/watch_runner.rs together *)
(* with the two objects it drives, RecompileScheduler (the queue of        *)
(* pending changes with its trailing settle window) and PollingFileWatcher *)
(* (one fingerprint per tracked file), against an editor that saves and    *)
(* deletes files at any moment, also while a compile is reading them.      *)
(*                                                                         *)
(* A file's content and modification time are one number: the number of    *)
(* the save that wrote it, so no two saves look alike to the watcher.  The *)
(* document is a root file and the files its current version \input's.     *)
(* One Tick is one 100 ms period of the loop.                              *)
(***************************************************************************)
EXTENDS Naturals, FiniteSets

CONSTANTS
    Files,          \* the source files the editor can touch
    Root,           \* the primary input
    Includes,       \* Includes[v]: the files version v of the root \input's
    Absent,         \* the content of a file that does not exist
    SettleTicks,    \* settle window (150 ms) in loop periods (100 ms)
    MaxSaves        \* BOUND on the editor: saves and deletions in a behaviour

ASSUME RootAssumption == Root \in Files
ASSUME IncludesAssumption == Includes \in [0..MaxSaves -> SUBSET Files]
ASSUME AbsentAssumption == Absent \notin Nat
ASSUME SettleAssumption == SettleTicks \in Nat
ASSUME MaxSavesAssumption == MaxSaves \in Nat

VARIABLES
    disk,           \* what is in each file now
    saveCount,      \* number of saves so far
    \* RecompileScheduler
    pending,        \* pending_changes
    inFlight,       \* compile_in_flight
    quiet,          \* loop periods since last_enqueue_at, up to SettleTicks
    \* PollingFileWatcher
    tracked,        \* the keys of `tracked`
    fingerprint,    \* the fingerprint of each tracked file
    \* the loop, and the compile it runs
    pc,             \* "compile", "refresh", "sleep" or "exited"
    hint,           \* changed_paths_hint of the compile
    todo,           \* files the compile has still to read
    warm,           \* the cache of the previous compile can be reused
    used,           \* the files the latest compile was made from
    compiled,       \* the version of each used file it was made from
    outcome,        \* what it reported: see CompileDone
    exitCode,
    shutdown,       \* SHUTDOWN_REQUESTED
    \* history
    late            \* files saved after the current compile last read them

editorVars == <<disk, saveCount>>
schedulerVars == <<pending, inFlight, quiet>>
watcherVars == <<tracked, fingerprint>>
compileVars == <<hint, todo, warm, used, compiled>>
watchVars == <<editorVars, schedulerVars, watcherVars, compileVars, pc, outcome,
          exitCode, shutdown, late>>

Version == (0..MaxSaves) \cup {Absent}
Outcome == {"none", "ok", "failed", "failed_with_state"}

WatchTypeOK ==
    /\ disk \in [Files -> Version]
    /\ saveCount \in 0..MaxSaves
    /\ pending \in SUBSET Files
    /\ inFlight \in BOOLEAN
    /\ quiet \in 0..SettleTicks
    /\ tracked \in SUBSET Files
    /\ fingerprint \in [Files -> Version]
    /\ pc \in {"compile", "refresh", "sleep", "exited"}
    /\ hint \in SUBSET Files
    /\ todo \in SUBSET Files
    /\ warm \in BOOLEAN
    /\ used \in SUBSET Files
    /\ compiled \in [Files -> Version]
    /\ outcome \in Outcome
    /\ exitCode \in {0, 2}
    /\ shutdown \in BOOLEAN
    /\ late \in SUBSET Files

(* The initial compile has just been called: nothing has been read, no     *)
(* watcher exists yet and the change hint is empty.                        *)
WatchInit ==
    /\ disk = [f \in Files |-> 0]
    /\ saveCount = 0
    /\ pending = {} /\ inFlight = FALSE /\ quiet = SettleTicks
    /\ tracked = {} /\ fingerprint = [f \in Files |-> 0]
    /\ pc = "compile" /\ hint = {} /\ todo = {Root} /\ warm = FALSE
    /\ used = {} /\ compiled = [f \in Files |-> 0]
    /\ outcome = "none" /\ exitCode = 0 /\ shutdown = FALSE
    /\ late = {}

(* The files a compile, or discover_watched_paths, reaches from a root     *)
(* with content v.                                                         *)
Reached(v) == {Root} \cup (IF v = Absent THEN {} ELSE Includes[v])

-----------------------------------------------------------------------------
(* The editor.                                                             *)

Touch(f, v) ==
    /\ saveCount < MaxSaves
    /\ saveCount' = saveCount + 1
    /\ disk' = [disk EXCEPT ![f] = v]
    /\ late' = IF pc \in {"compile", "refresh"} THEN late \cup {f} ELSE late
    /\ UNCHANGED <<schedulerVars, watcherVars, compileVars, pc, outcome,
                   exitCode, shutdown>>

Save(f) == Touch(f, saveCount + 1)

Delete(f) == disk[f] # Absent /\ Touch(f, Absent)

-----------------------------------------------------------------------------
(* The compile: CompileJobService::compile_with_changed_paths as far as    *)
(* the loop depends on it.  The root is always read again.  A file it      *)
(* \input's is taken from the cache of the previous compile when there is  *)
(* one and the hint does not name the file (detect_changes only looks at   *)
(* hinted paths), and read from disk otherwise.                            *)

Cached(f) == warm /\ f \in used /\ f \notin hint

ReadFile(f) ==
    /\ pc = "compile"
    /\ outcome = "none"
    /\ f \in todo
    /\ compiled' = [compiled EXCEPT ![f] = disk[f]]
    /\ late' = late \ {f}
    /\ IF f = Root
         THEN /\ used' = Reached(disk[f])
              /\ todo' = {g \in Reached(disk[f]) \ {Root} : ~Cached(g)}
         ELSE /\ used' = used
              /\ todo' = todo \ {f}
    /\ outcome' = IF disk[f] = Absent THEN "failed" ELSE "none"
    /\ UNCHANGED <<editorVars, schedulerVars, watcherVars, hint, warm, pc,
                   exitCode, shutdown>>

(* The compile returns.  A file that could not be loaded fails it without  *)
(* a stable compile state; otherwise the content decides: success, a       *)
(* failure with no state, or a parse failure that still carries the state  *)
(* (and so the source files).  Every failure removes the cache.            *)
CompileDone ==
    /\ pc = "compile"
    /\ outcome = "failed" \/ todo = {}
    /\ \E o \in Outcome \ {"none"} :
         /\ outcome = "failed" => o = "failed"
         /\ outcome' = o
         /\ warm' = (o = "ok")
    /\ used' = used \ todo
    /\ todo' = {}
    /\ inFlight' = FALSE
    /\ pc' = "refresh"
    /\ UNCHANGED <<editorVars, pending, quiet, watcherVars, hint, compiled,
                   exitCode, shutdown, late>>

-----------------------------------------------------------------------------
(* The loop.                                                               *)

ExitLoop(code) == pc' = "exited" /\ exitCode' = code

(* watched_paths_for_result: the source files of the compile's state, or   *)
(* what can be discovered on disk when there is no state.                  *)
WatchedPaths ==
    IF outcome = "failed" THEN Reached(disk[Root]) ELSE used

(* PollingFileWatcher::replace_paths, after a compile (and ::new after the *)
(* initial one): every path is fingerprinted anew, and a path that does    *)
(* not exist is an error that ends the loop.                               *)
Refresh ==
    /\ pc = "refresh"
    /\ IF tracked = {} /\ shutdown
         THEN ExitLoop(0) /\ UNCHANGED watcherVars
         ELSE IF \E f \in WatchedPaths : disk[f] = Absent
         THEN ExitLoop(2) /\ UNCHANGED watcherVars
         ELSE /\ tracked' = WatchedPaths
              /\ fingerprint' = [f \in Files |->
                    IF f \in WatchedPaths THEN disk[f] ELSE fingerprint[f]]
              /\ pc' = "sleep"
              /\ UNCHANGED exitCode
    /\ UNCHANGED <<editorVars, schedulerVars, compileVars, outcome, shutdown,
                   late>>

(* PollingFileWatcher::poll_changes with its zero debounce window.         *)
SeenChanges == {f \in tracked : fingerprint[f] # disk[f]}

(* MUTANT of PendingAfterPoll: a new poll replaces the queue.              *)
PendingReplaced == IF SeenChanges # {} THEN SeenChanges ELSE pending

(* MUTANTS of QuietAfterPoll: no restart of the window, and a restart at   *)
(* every poll, as if enqueue took empty ones too.                          *)
QuietNotRestarted == IF quiet < SettleTicks THEN quiet + 1 ELSE quiet
QuietAlwaysRestarted == 0

(* RecompileScheduler::enqueue, called only for a non-empty poll, and the  *)
(* two conditions of start_next_at on the values it leaves.                *)
PendingAfterPoll == pending \cup SeenChanges

QuietAfterPoll ==
    IF SeenChanges # {} THEN 0
    ELSE IF quiet < SettleTicks THEN quiet + 1 ELSE quiet

MayStart ==
    /\ ~inFlight
    /\ PendingAfterPoll # {}
    /\ QuietAfterPoll >= SettleTicks

(* One round of the loop: sleep, poll, enqueue, start_next.                *)
Tick ==
    /\ pc = "sleep"
    /\ ~shutdown
    /\ fingerprint' = [f \in Files |->
          IF f \in tracked THEN disk[f] ELSE fingerprint[f]]
    /\ quiet' = QuietAfterPoll
    /\ IF MayStart
         THEN /\ inFlight' = TRUE
              /\ pending' = {}
              /\ hint' = PendingAfterPoll
              /\ todo' = {Root}
              /\ outcome' = "none"
              /\ pc' = "compile"
         ELSE /\ pending' = PendingAfterPoll
              /\ UNCHANGED <<inFlight, hint, todo, outcome, pc>>
    /\ UNCHANGED <<editorVars, tracked, warm, used, compiled, exitCode,
                   shutdown, late>>

(* MUTANT of Stop: the queue is compiled first.                            *)
StopWhenQueueEmpty ==
    /\ pc = "sleep"
    /\ shutdown
    /\ pending = {}
    /\ ExitLoop(0)
    /\ UNCHANGED <<editorVars, schedulerVars, watcherVars, compileVars,
                   outcome, shutdown, late>>

(* The check of SHUTDOWN_REQUESTED at the top of the loop.                 *)
Stop ==
    /\ pc = "sleep"
    /\ shutdown
    /\ ExitLoop(0)
    /\ UNCHANGED <<editorVars, schedulerVars, watcherVars, compileVars,
                   outcome, shutdown, late>>

(* handle_sigint.                                                          *)
Interrupt ==
    /\ ~shutdown
    /\ shutdown' = TRUE
    /\ UNCHANGED <<editorVars, schedulerVars, watcherVars, compileVars, pc,
                   outcome, exitCode, late>>

-----------------------------------------------------------------------------
Loop == (\E f \in Files : ReadFile(f)) \/ CompileDone \/ Refresh \/ Tick \/ Stop

WatchNext ==
    \/ \E f \in Files : Save(f) \/ Delete(f)
    \/ Interrupt
    \/ Loop

WatchSpec == WatchInit /\ [][WatchNext]_watchVars

(* The loop is one thread that never blocks on anything but its own sleep. *)
WatchFairSpec == WatchSpec /\ WF_watchVars(Loop)

-----------------------------------------------------------------------------
(* Properties.                                                             *)

Fresh(f) == compiled[f] = disk[f]

(* The poller knows that file f has changed.                               *)
Noticed(f) == f \in tracked /\ (f \in pending \/ fingerprint[f] # disk[f])

(* Whenever the loop sleeps, a file whose content on disk is not what the  *)
(* latest compile used is one the next poll or the queue still knows, or   *)
(* it was saved after that compile read it and before the watcher took its *)
(* new fingerprints.  A used file that is no longer watched can only come  *)
(* from such a save of the root.  No other interleaving of saves, polls,   *)
(* settle windows and failed compiles loses a change.                      *)
StaleIsNoticed ==
    pc = "sleep" =>
      \A f \in used : \/ Fresh(f) \/ Noticed(f) \/ f \in late
                      \/ f \notin tracked /\ Root \in late

(* What the comment at detect_changes says: a change that one cycle misses *)
(* is observed by the next poll.  So a sleeping loop with nothing pending  *)
(* and nothing for the next poll to see has compiled what is on disk.      *)
MissedChangeIsPolled ==
    pc = "sleep" /\ pending = {} /\ SeenChanges = {} =>
      \A f \in used : Fresh(f)

(* A compile starts only after the settle window: the poll before it saw   *)
(* no tracked file change, and nothing older than it stays queued.         *)
SettledStart ==
    [][pc = "sleep" /\ pc' = "compile" =>
         SeenChanges = {} /\ pending' = {} /\ pending \subseteq hint']_watchVars

(* A change in the queue is handed to a compile, once saving stops.        *)
PendingIsCompiled ==
    \A f \in Files :
      f \in pending ~> (pc = "exited" \/ (pc = "compile" /\ f \in hint))

(* Ctrl-C ends the loop, whatever it was doing.                            *)
ShutdownStops == shutdown ~> pc = "exited"
=============================================================================
