--------------------------- MODULE WatchLoop_proofs ---------------------------
(***************************************************************************)
(* Proofs about WatchLoop for any set of files, any \input structure, any  *)
(* settle window and any number of saves.                                  *)
(***************************************************************************)
EXTENDS WatchLoop, TLAPS

(* The file's content for the compile is right, or the save that made it   *)
(* wrong came after the compile's last read of the file.                   *)
ReadOrLate(f) == Fresh(f) \/ f \in late

(* No content is newer than the number of saves: the next save is new to   *)
(* every fingerprint.                                                      *)
Aged ==
    \A f \in Files : /\ disk[f] = Absent \/ disk[f] \in 0..saveCount
                     /\ fingerprint[f] = Absent \/ fingerprint[f] \in 0..saveCount

(* While the compile runs.  Before it has read the root, the files of the  *)
(* previous compile that it may take from the cache are as good as read;   *)
(* afterwards every file it no longer has to read is.                      *)
Compiling ==
    pc = "compile" =>
      /\ Root \in todo => todo = {Root}
      /\ Root \in todo /\ warm => \A f \in used \ hint : ReadOrLate(f)
      /\ Root \notin todo => /\ used \subseteq Reached(compiled[Root])
                             /\ Root \in used
                             /\ \A f \in used \ todo : ReadOrLate(f)
      /\ outcome = "failed" => Root \notin todo

(* Between the compile and the refresh of the watcher.                     *)
Refreshing ==
    pc = "refresh" =>
      /\ used \subseteq Reached(compiled[Root])
      /\ ReadOrLate(Root)
      /\ \A f \in used : ReadOrLate(f)
      /\ warm => outcome = "ok"
      /\ outcome # "none"

(* While the loop sleeps: StaleIsNoticed, and what it takes to keep it.    *)
Sleeping ==
    pc = "sleep" =>
      /\ \A f \in used : ReadOrLate(f) \/ Noticed(f) \/ f \notin tracked
      /\ used \subseteq tracked \/ (Root \in late /\ ~warm)
      /\ \A f \in tracked : fingerprint[f] = Absent => f \in pending

IInv == WatchTypeOK /\ Aged /\ Compiling /\ Refreshing /\ Sleeping

-----------------------------------------------------------------------------
LEMMA ReachedType ==
    ASSUME NEW v \in Version PROVE Reached(v) \in SUBSET Files /\ Root \in Reached(v)
BY RootAssumption, IncludesAssumption DEF Reached, Version

LEMMA InitIInv == WatchInit => IInv
<1> SUFFICES ASSUME WatchInit PROVE IInv
  OBVIOUS
<1>1. WatchTypeOK
  <2>1. [f \in Files |-> 0] \in [Files -> Version] /\ 0 \in 0..MaxSaves
    BY MaxSavesAssumption DEF Version
  <2>2. SettleTicks \in 0..SettleTicks
    BY SettleAssumption
  <2>3. {Root} \in SUBSET Files
    BY RootAssumption
  <2> QED BY <2>1, <2>2, <2>3 DEF WatchInit, WatchTypeOK, Outcome
<1>2. Aged
  BY DEF WatchInit, Aged
<1>3. Compiling /\ Refreshing /\ Sleeping
  BY DEF WatchInit, Compiling, Refreshing, Sleeping
<1> QED BY <1>1, <1>2, <1>3 DEF IInv

LEMMA TouchIInv ==
    ASSUME IInv, NEW f \in Files, NEW v \in {saveCount + 1, Absent},
           v = Absent => disk[f] # Absent, Touch(f, v)
    PROVE  IInv'
<1> USE MaxSavesAssumption, AbsentAssumption
<1>1. WatchTypeOK'
  BY DEF IInv, WatchTypeOK, Touch, Version, editorVars, schedulerVars, watcherVars, compileVars
<1>2. Aged'
  BY DEF IInv, WatchTypeOK, Aged, Touch, Version, watcherVars
<1>3. Compiling'
  BY DEF IInv, WatchTypeOK, Compiling, ReadOrLate, Fresh, Touch, compileVars, Reached
<1>4. Refreshing'
  BY DEF IInv, WatchTypeOK, Refreshing, ReadOrLate, Fresh, Touch, compileVars, Reached
<1>5. Sleeping'
  <2> SUFFICES ASSUME pc = "sleep" PROVE Sleeping'
    BY DEF Sleeping, Touch
  <2>1. fingerprint[f] = v /\ f \in tracked => f \in pending
    BY DEF IInv, WatchTypeOK, Aged, Sleeping
  <2>2. disk'[f] = v /\ \A g \in Files : g # f => disk'[g] = disk[g]
    BY DEF IInv, WatchTypeOK, Touch
  <2>3. /\ UNCHANGED <<pc, used, tracked, fingerprint, pending, late, compiled, warm>>
    BY DEF Touch, compileVars, watcherVars, schedulerVars
  <2>4. \A g \in used : g \in Files
    BY DEF IInv, WatchTypeOK
  <2> QED
    BY <2>1, <2>2, <2>3, <2>4 DEF IInv, Sleeping, ReadOrLate, Fresh, Noticed
<1> QED BY <1>1, <1>2, <1>3, <1>4, <1>5 DEF IInv

LEMMA ReadFileIInv ==
    ASSUME IInv, NEW f \in Files, ReadFile(f)
    PROVE  IInv'
<1>0. disk[f] \in Version /\ Reached(disk[f]) \in SUBSET Files /\ Root \in Reached(disk[f])
  BY ReachedType DEF IInv, WatchTypeOK
<1>1. WatchTypeOK'
  BY <1>0 DEF IInv, WatchTypeOK, ReadFile, Outcome, editorVars, schedulerVars, watcherVars
<1>2. Aged'
  BY DEF IInv, Aged, ReadFile, editorVars, watcherVars
<1>3. Compiling'
  <2>0. pc = "compile" /\ pc' = "compile" /\ disk' = disk /\ warm' = warm
        /\ hint' = hint /\ late' = late \ {f} /\ f \in todo /\ outcome = "none"
        /\ compiled' = [compiled EXCEPT ![f] = disk[f]]
    BY DEF ReadFile, editorVars
  <2>1. compiled'[f] = disk[f] /\ \A g \in Files : g # f => compiled'[g] = compiled[g]
    BY <2>0 DEF IInv, WatchTypeOK
  <2>2. CASE f = Root
    <3>1. used' = Reached(disk[Root]) /\ Root \notin todo' /\ compiled'[Root] = disk[Root]
          /\ todo' = {g \in Reached(disk[f]) \ {Root} : ~Cached(g)}
      BY <2>1, <2>2 DEF ReadFile
    <3>2. ASSUME NEW g \in used' \ todo' PROVE ReadOrLate(g)'
      <4>1. CASE g = Root
        BY <2>0, <3>1, <4>1 DEF ReadOrLate, Fresh
      <4>2. CASE g # Root
        <5>1. warm /\ g \in used /\ g \notin hint
          BY <1>0, <2>2, <3>1, <3>2, <4>2 DEF Cached
        <5>2. ReadOrLate(g)
          BY <2>0, <2>2, <5>1 DEF IInv, Compiling
        <5>3. g \in Files
          BY <5>1 DEF IInv, WatchTypeOK
        <5> QED BY <2>0, <2>1, <2>2, <4>2, <5>2, <5>3 DEF ReadOrLate, Fresh
      <4> QED BY <4>1, <4>2
    <3> QED BY <1>0, <2>2, <3>1, <3>2 DEF Compiling
  <2>3. CASE f # Root
    <3>1. used' = used /\ todo' = todo \ {f} /\ Root \notin todo
      BY <2>0, <2>3 DEF ReadFile, IInv, Compiling
    <3>2. compiled'[Root] = compiled[Root]
      BY <2>1, <2>3, RootAssumption
    <3>3. ASSUME NEW g \in used' \ todo' PROVE ReadOrLate(g)'
      <4>1. CASE g = f
        BY <2>0, <2>1, <4>1 DEF ReadOrLate, Fresh
      <4>2. CASE g # f
        <5>1. g \in Files /\ ReadOrLate(g)
          BY <2>0, <3>1, <3>3, <4>2 DEF IInv, WatchTypeOK, Compiling
        <5> QED BY <2>0, <2>1, <4>2, <5>1 DEF ReadOrLate, Fresh
      <4> QED BY <4>1, <4>2
    <3>4. used \subseteq Reached(compiled[Root]) /\ Root \in used
      BY <2>0, <3>1 DEF IInv, Compiling
    <3> QED BY <3>1, <3>2, <3>3, <3>4 DEF Compiling, Reached
  <2> QED BY <2>2, <2>3
<1>4. Refreshing' /\ Sleeping'
  BY DEF ReadFile, Refreshing, Sleeping
<1> QED BY <1>1, <1>2, <1>3, <1>4 DEF IInv

LEMMA CompileDoneIInv ==
    ASSUME IInv, CompileDone PROVE IInv'
<1>1. WatchTypeOK'
  BY DEF IInv, WatchTypeOK, CompileDone, Outcome, editorVars, watcherVars
<1>2. Aged'
  BY DEF IInv, Aged, CompileDone, editorVars, watcherVars
<1>3. Compiling' /\ Sleeping'
  BY DEF CompileDone, Compiling, Sleeping
<1>4. Refreshing'
  <2>1. Root \notin todo /\ Root \in used
    BY DEF IInv, Compiling, CompileDone
  <2>2. used \subseteq Reached(compiled[Root]) /\ \A f \in used \ todo : ReadOrLate(f)
    BY <2>1 DEF IInv, Compiling, CompileDone
  <2>3. UNCHANGED <<disk, compiled, late>> /\ used' = used \ todo
    BY DEF CompileDone, editorVars
  <2>4. (warm' => outcome' = "ok") /\ outcome' # "none"
    BY DEF CompileDone, Outcome
  <2> QED BY <2>1, <2>2, <2>3, <2>4 DEF Refreshing, ReadOrLate, Fresh, Reached
<1> QED BY <1>1, <1>2, <1>3, <1>4 DEF IInv

LEMMA RefreshIInv ==
    ASSUME IInv, Refresh PROVE IInv'
<1>0. WatchedPaths \in SUBSET Files
  BY ReachedType, RootAssumption DEF IInv, WatchTypeOK, WatchedPaths
<1>1. WatchTypeOK'
  BY <1>0 DEF IInv, WatchTypeOK, Refresh, ExitLoop, editorVars, schedulerVars, watcherVars, compileVars
<1>2. Aged'
  BY DEF IInv, WatchTypeOK, Aged, Refresh, editorVars, watcherVars
<1>3. Compiling' /\ Refreshing'
  BY DEF Refresh, ExitLoop, Compiling, Refreshing
<1>4. Sleeping'
  <2> SUFFICES ASSUME pc' = "sleep" PROVE Sleeping'
    BY DEF Sleeping
  <2>1. /\ tracked' = WatchedPaths
        /\ \A f \in WatchedPaths : fingerprint'[f] = disk[f] /\ disk[f] # Absent
        /\ UNCHANGED <<disk, used, compiled, late, warm, pending>>
        /\ pc = "refresh"
    BY <1>0 DEF Refresh, ExitLoop, editorVars, compileVars, schedulerVars
  <2>2. \A f \in used : ReadOrLate(f)'
    BY <2>1 DEF IInv, Refreshing, ReadOrLate, Fresh
  <2>3. used' \subseteq tracked' \/ (Root \in late' /\ ~warm')
    <3>1. CASE outcome # "failed"
      BY <2>1, <3>1 DEF WatchedPaths
    <3>2. CASE outcome = "failed"
      BY <2>1, <3>2 DEF WatchedPaths, IInv, Refreshing, ReadOrLate, Fresh
    <3> QED BY <3>1, <3>2
  <2> QED BY <2>1, <2>2, <2>3 DEF Sleeping
<1> QED BY <1>1, <1>2, <1>3, <1>4 DEF IInv

LEMMA TickIInv ==
    ASSUME IInv, Tick PROVE IInv'
<1>0. SeenChanges \in SUBSET Files /\ QuietAfterPoll \in 0..SettleTicks
  BY SettleAssumption DEF IInv, WatchTypeOK, SeenChanges, QuietAfterPoll
<1>1. WatchTypeOK'
  BY <1>0, RootAssumption
  DEF IInv, WatchTypeOK, Tick, PendingAfterPoll, Outcome, editorVars
<1>2. Aged'
  BY DEF IInv, WatchTypeOK, Aged, Tick, editorVars
<1>3. Refreshing'
  BY DEF Tick, Refreshing
<1>a. /\ pc = "sleep"
      /\ UNCHANGED <<disk, tracked, warm, used, compiled, late>>
      /\ \A f \in tracked : fingerprint'[f] = disk[f]
      /\ used \subseteq Files /\ tracked \subseteq Files
  BY DEF IInv, WatchTypeOK, Tick, editorVars
<1>4. CASE MayStart
  <2>1. pc' = "compile" /\ hint' = PendingAfterPoll /\ todo' = {Root} /\ outcome' = "none"
    BY <1>4 DEF Tick
  <2>2. ASSUME warm, NEW f \in used, f \notin hint' PROVE ReadOrLate(f)'
    <3>1. f \in tracked
      BY <1>a, <2>2 DEF IInv, Sleeping
    <3>2. ~Noticed(f)
      BY <1>a, <2>1, <2>2, <3>1 DEF Noticed, PendingAfterPoll, SeenChanges
    <3>3. ReadOrLate(f)
      BY <1>a, <3>1, <3>2 DEF IInv, Sleeping
    <3> QED BY <1>a, <3>3 DEF ReadOrLate, Fresh
  <2>3. Compiling'
    BY <1>a, <2>1, <2>2 DEF Compiling
  <2>4. Sleeping'
    BY <2>1 DEF Sleeping
  <2> QED BY <1>1, <1>2, <1>3, <2>3, <2>4 DEF IInv
<1>5. CASE ~MayStart
  <2>1. pc' = "sleep" /\ pending' = pending \cup SeenChanges
    BY <1>5, <1>a DEF Tick, PendingAfterPoll
  <2>2. \A f \in used : Noticed(f) => Noticed(f)'
    BY <1>a, <2>1 DEF Noticed, SeenChanges
  <2>3. \A f \in used : ReadOrLate(f) => ReadOrLate(f)'
    BY <1>a DEF ReadOrLate, Fresh
  <2>4. \A f \in tracked : fingerprint'[f] = Absent => f \in pending'
    BY <1>a, <2>1 DEF IInv, Sleeping, SeenChanges
  <2>5. Sleeping'
    BY <1>a, <2>1, <2>2, <2>3, <2>4 DEF IInv, Sleeping
  <2>6. Compiling'
    BY <2>1 DEF Compiling
  <2> QED BY <1>1, <1>2, <1>3, <2>5, <2>6 DEF IInv
<1> QED BY <1>4, <1>5

LEMMA NextIInv == IInv /\ [WatchNext]_watchVars => IInv'
<1> SUFFICES ASSUME IInv, [WatchNext]_watchVars PROVE IInv'
  OBVIOUS
<1>1. ASSUME NEW f \in Files, Save(f) PROVE IInv'
  BY <1>1, TouchIInv, AbsentAssumption DEF Save, IInv, WatchTypeOK
<1>2. ASSUME NEW f \in Files, Delete(f) PROVE IInv'
  BY <1>2, TouchIInv DEF Delete
<1>3. CASE Interrupt
  BY <1>3 DEF IInv, WatchTypeOK, Aged, Compiling, Refreshing, Sleeping, ReadOrLate, Fresh,
              Noticed, Reached, Interrupt, editorVars, schedulerVars, watcherVars, compileVars
<1>4. CASE Stop
  BY <1>4 DEF IInv, WatchTypeOK, Aged, Compiling, Refreshing, Sleeping, Stop, ExitLoop,
              editorVars, schedulerVars, watcherVars, compileVars
<1>5. CASE UNCHANGED watchVars
  BY <1>5 DEF IInv, WatchTypeOK, Aged, Compiling, Refreshing, Sleeping, ReadOrLate, Fresh,
              Noticed, Reached, watchVars, editorVars, schedulerVars, watcherVars, compileVars
<1> QED
  BY <1>1, <1>2, <1>3, <1>4, <1>5, ReadFileIInv, CompileDoneIInv, RefreshIInv, TickIInv
  DEF WatchNext, Loop

LEMMA Invariance == WatchSpec => []IInv
BY InitIInv, NextIInv, PTL DEF WatchSpec

-----------------------------------------------------------------------------
(* Every variable of the loop, the scheduler and the watcher keeps its     *)
(* type, whatever the editor does.                                         *)
THEOREM TypeCorrect == WatchSpec => []WatchTypeOK
<1>1. IInv => WatchTypeOK
  BY DEF IInv
<1> QED BY <1>1, Invariance, PTL

(* A sleeping `ferritex watch` loop has forgotten no change, except those  *)
(* saved between a compile's read of a file and the refresh after it.      *)
THEOREM NoOtherChangeIsLost == WatchSpec => []StaleIsNoticed
<1>1. IInv => StaleIsNoticed
  BY DEF IInv, Sleeping, StaleIsNoticed, ReadOrLate
<1> QED BY <1>1, Invariance, PTL

(* The settle window: a compile starts only at a poll that saw no change,  *)
(* and takes the whole queue.                                              *)
THEOREM CompileStartsSettled == SettleTicks # 0 => (WatchSpec => SettledStart)
<1> SUFFICES ASSUME SettleTicks # 0 PROVE WatchSpec => SettledStart
  OBVIOUS
<1>1. IInv /\ [WatchNext]_watchVars =>
        [pc = "sleep" /\ pc' = "compile" =>
           SeenChanges = {} /\ pending' = {} /\ pending \subseteq hint']_watchVars
  <2> SUFFICES ASSUME IInv, WatchNext, pc = "sleep", pc' = "compile"
               PROVE  SeenChanges = {} /\ pending' = {} /\ pending \subseteq hint'
    BY DEF watchVars
  <2>1. Tick /\ MayStart
    BY DEF WatchNext, Loop, Save, Delete, Touch, Interrupt, ReadFile, CompileDone,
           Refresh, Tick, Stop, ExitLoop
  <2>2. SeenChanges = {}
    BY <2>1, SettleAssumption DEF MayStart, QuietAfterPoll
  <2> QED BY <2>1, <2>2 DEF Tick, PendingAfterPoll
<1> QED BY <1>1, Invariance, PTL DEF WatchSpec, SettledStart
=============================================================================
