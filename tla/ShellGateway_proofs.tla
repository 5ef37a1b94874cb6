-------------------------- MODULE ShellGateway_proofs --------------------------
(***************************************************************************)
(* For any number of threads and any limits, the gateway runs no more      *)
(* commands than it has slots and keeps no more of their output than it    *)
(* may, also when commands leave descendants behind.                       *)
(***************************************************************************)
EXTENDS ShellGateway, FiniteSetTheorems, TLAPS

Outcomes == {"none", "refused", "not allowed", "limit", "io", "overflow", "timeout", "ok"}
Places == {"idle", "load", "take", "spawn", "check", "wait", "join"}
Call ==
  [at : Places, seen : Nat, process : {"none", "running", "gone"},
   heir : BOOLEAN, late : BOOLEAN, written : Nat, pipe : [Streams -> Nat], hand : [Streams -> Nat],
   open : SUBSET Streams, captured : [Streams -> Nat], total_output : Nat,
   output_exceeded : BOOLEAN, status : Outcomes, outcome : Outcomes]

TypeOK == active_processes \in Nat /\ call \in [Callers -> Call]

(* The counter is the number of threads with a slot.                       *)
SlotsAreCounted ==
  active_processes = Cardinality(Inside) /\ active_processes <= MaxProcesses

(* A thread that is about to take a slot saw a free one; a command runs    *)
(* only while its thread has a slot; what is kept is all of the output, up *)
(* to the limit.                                                           *)
CallInv(r) ==
  /\ r.at = "take" => r.seen < MaxProcesses
  /\ r.process = "running" \/ r.heir => r.at \in {"check", "wait", "join"}
  /\ r.captured["stdout"] + r.captured["stderr"] =
       IF r.total_output <= MaxBytes THEN r.total_output ELSE MaxBytes

IInv == TypeOK /\ SlotsAreCounted /\ \A c \in Callers : CallInv(call[c])

LEMMA Bounds == MaxProcesses \in Nat /\ MaxBytes \in Nat /\ PipeSize \in Nat /\ IsFiniteSet(Callers)
  BY GatewayAssumption

-----------------------------------------------------------------------------
LEMMA IdleCall ==
    ASSUME NEW outcome \in Outcomes
    PROVE  Idle(outcome) \in Call /\ CallInv(Idle(outcome)) /\ Idle(outcome).at = "idle"
<1>1. [s \in Streams |-> 0] \in [Streams -> Nat]
  OBVIOUS
<1>2. Idle(outcome) \in Call
  BY <1>1 DEF Idle, Call, Places, Outcomes
<1>3. CallInv(Idle(outcome))
  BY Bounds DEF Idle, CallInv, Streams
<1> QED
  BY <1>2, <1>3 DEF Idle

HasSlot(r) == r.at \in {"spawn", "check", "wait", "join"}

LEMMA InsideIsFinite == IsFiniteSet(Inside)
  BY Bounds, FS_Subset, Inside \subseteq Callers DEF Inside

(* What a step of one thread leaves alone.                                 *)
Step(c) ==
  call' \in [Callers -> Call] /\ \A d \in Callers \ {c} : call'[d] = call[d]

(* A step of one thread that takes no slot and gives none back.            *)
LEMMA SameSlots ==
    ASSUME IInv, NEW c \in Callers, Step(c), UNCHANGED active_processes,
           HasSlot(call'[c]) <=> HasSlot(call[c]), CallInv(call'[c])
    PROVE  IInv'
<1>1. Inside' = Inside
  BY DEF Inside, HasSlot, Step
<1> QED
  BY <1>1 DEF Step, IInv, TypeOK, SlotsAreCounted

LEMMA SlotTaken ==
    ASSUME IInv, NEW c \in Callers, Step(c), active_processes' = active_processes + 1,
           active_processes < MaxProcesses,
           ~ HasSlot(call[c]), HasSlot(call'[c]), CallInv(call'[c])
    PROVE  IInv'
<1>1. Inside' = Inside \union {c} /\ c \notin Inside
  BY DEF Inside, HasSlot, Step
<1>2. Cardinality(Inside') = Cardinality(Inside) + 1
  BY <1>1, InsideIsFinite, FS_AddElement
<1> QED
  BY <1>2, Bounds DEF Step, IInv, TypeOK, SlotsAreCounted

LEMMA SlotDropped ==
    ASSUME IInv, NEW c \in Callers, Step(c), active_processes' = active_processes - 1,
           HasSlot(call[c]), ~ HasSlot(call'[c]), CallInv(call'[c])
    PROVE  IInv'
<1>1. Inside' = Inside \ {c} /\ c \in Inside
  BY DEF Inside, HasSlot, Step
<1>2. Cardinality(Inside') = Cardinality(Inside) - 1
  BY <1>1, InsideIsFinite, FS_RemoveElement
<1>3. Cardinality(Inside') \in Nat
  BY <1>1, InsideIsFinite, FS_RemoveElement, FS_CardinalityType
<1> QED
  BY <1>2, <1>3, Bounds DEF Step, IInv, TypeOK, SlotsAreCounted

-----------------------------------------------------------------------------
LEMMA InitIInv == GatewayInit => IInv
<1> SUFFICES ASSUME GatewayInit PROVE IInv
  OBVIOUS
<1>1. Idle("none") \in Call /\ CallInv(Idle("none")) /\ Idle("none").at = "idle"
  BY IdleCall DEF Outcomes
<1>2. Inside = {}
  BY <1>1 DEF Inside, GatewayInit
<1>3. active_processes = Cardinality(Inside) /\ active_processes <= MaxProcesses
  BY <1>2, FS_EmptySet, Bounds DEF GatewayInit
<1> QED
  BY <1>1, <1>3 DEF GatewayInit, IInv, TypeOK, SlotsAreCounted

-----------------------------------------------------------------------------
(* The calling thread.                                                     *)
LEMMA CallerKeepsIInv ==
    ASSUME IInv, NEW c \in Callers, execute(c) \/ Caller(c) \/ Clock(c) PROVE IInv'
<1>t. call \in [Callers -> Call] /\ call[c] \in Call /\ CallInv(call[c]) /\ active_processes \in Nat
  BY DEF IInv, TypeOK
<1>i. \A o \in Outcomes : Idle(o) \in Call /\ CallInv(Idle(o)) /\ Idle(o).at = "idle"
  BY IdleCall
<1>1. CASE execute(c)
  <2>1. \/ call' = [call EXCEPT ![c] = Idle("refused")]
        \/ call' = [call EXCEPT ![c] = Idle("not allowed")]
        \/ call' = [call EXCEPT ![c] = [Idle("none") EXCEPT !.at = "load"]]
    BY <1>1 DEF execute
  <2>2. ASSUME NEW r, r \in Call, CallInv(r), ~ HasSlot(r), call' = [call EXCEPT ![c] = r]
        PROVE  Step(c) /\ CallInv(call'[c]) /\ ~ HasSlot(call'[c])
    BY <1>t, <2>2 DEF Step
  <2>3. /\ Idle("refused") \in Call /\ CallInv(Idle("refused")) /\ ~ HasSlot(Idle("refused"))
        /\ Idle("not allowed") \in Call /\ CallInv(Idle("not allowed"))
        /\ ~ HasSlot(Idle("not allowed"))
    BY <1>i DEF HasSlot, Outcomes
  <2>4. /\ [Idle("none") EXCEPT !.at = "load"] \in Call
        /\ CallInv([Idle("none") EXCEPT !.at = "load"])
        /\ ~ HasSlot([Idle("none") EXCEPT !.at = "load"])
    <3>1. Idle("none") \in Call
      BY <1>i DEF Outcomes
    <3>2. [Idle("none") EXCEPT !.at = "load"] \in Call
      BY <3>1 DEF Call, Places
    <3>3. ~ HasSlot([Idle("none") EXCEPT !.at = "load"])
      BY <3>1 DEF Call, HasSlot
    <3>4. CallInv([Idle("none") EXCEPT !.at = "load"])
      BY Bounds DEF Idle, CallInv, Streams
    <3> QED
      BY <3>2, <3>3, <3>4
  <2>5. Step(c) /\ CallInv(call'[c]) /\ ~ HasSlot(call'[c])
    BY <2>1, <2>2, <2>3, <2>4, Zenon
  <2> QED
    BY <1>1, <2>5, SameSlots DEF execute, HasSlot
<1>2. CASE Load(c)
  <2>1. CASE active_processes >= MaxProcesses
    <3>1. call' = [call EXCEPT ![c] = Idle("limit")]
      BY <1>2, <2>1 DEF Load
    <3>2. Idle("limit") \in Call /\ CallInv(Idle("limit")) /\ Idle("limit").at = "idle"
      BY <1>i DEF Outcomes
    <3>3. Step(c) /\ call'[c] = Idle("limit")
      BY <1>t, <3>1, <3>2 DEF Step
    <3>4. CallInv(call'[c]) /\ ~ HasSlot(call'[c])
      BY <3>2, <3>3 DEF HasSlot
    <3> QED
      BY <1>2, <3>3, <3>4, SameSlots DEF Load, HasSlot
  <2>2. CASE active_processes < MaxProcesses
    <3>1. /\ Step(c) /\ call'[c] = [call[c] EXCEPT !.at = "take", !.seen = active_processes]
      <4>1. [call[c] EXCEPT !.at = "take", !.seen = active_processes] \in Call
        BY <1>t DEF Call, Places
      <4>2. call' = [call EXCEPT ![c].at = "take", ![c].seen = active_processes]
        BY <1>2, <1>t, <2>2, Bounds DEF Load
      <4> QED
        BY <1>t, <4>1, <4>2 DEF Step, Call
    <3>2. CallInv(call'[c]) /\ ~ HasSlot(call'[c])
      BY <1>2, <1>t, <2>2, <3>1 DEF Load, CallInv, HasSlot, Call
    <3> QED
      BY <1>2, <3>1, <3>2, SameSlots DEF Load, HasSlot
  <2> QED
    BY <2>1, <2>2, <1>t, Bounds
<1>3. CASE Take(c)
  <2>1. CASE active_processes = call[c].seen
    <3>1. Step(c) /\ call'[c] = [call[c] EXCEPT !.at = "spawn"]
      BY <1>3, <1>t, <2>1 DEF Take, Step, Call, Places
    <3>2. CallInv(call'[c]) /\ HasSlot(call'[c])
      BY <1>3, <1>t, <3>1 DEF Take, CallInv, HasSlot, Call
    <3>3. ~ HasSlot(call[c]) /\ active_processes < MaxProcesses
      BY <1>3, <1>t, <2>1 DEF Take, HasSlot, CallInv
    <3> QED
      BY <1>3, <2>1, <3>1, <3>2, <3>3, SlotTaken DEF Take
  <2>2. CASE active_processes # call[c].seen
    <3>1. Step(c) /\ call'[c] = [call[c] EXCEPT !.at = "load"]
      <4>1. [call[c] EXCEPT !.at = "load"] \in Call
        BY <1>t DEF Call, Places
      <4>2. call' = [call EXCEPT ![c] = [call[c] EXCEPT !.at = "load"]]
        BY <1>3, <2>2 DEF Take
      <4> QED
        BY <1>t, <4>1, <4>2 DEF Step
    <3>2. CallInv(call'[c]) /\ ~ HasSlot(call'[c])
      BY <1>3, <1>t, <3>1 DEF Take, CallInv, HasSlot, Call
    <3>3. ~ HasSlot(call[c]) /\ UNCHANGED active_processes
      BY <1>3, <2>2 DEF Take, HasSlot
    <3> QED
      BY <3>1, <3>2, <3>3, SameSlots
  <2> QED
    BY <2>1, <2>2
<1>4. CASE Spawn(c)
  <2>1. CASE Return(c, "io")
    <3>1. Step(c) /\ CallInv(call'[c]) /\ ~ HasSlot(call'[c])
      BY <2>1, <1>t, <1>i DEF Return, Step, HasSlot, Outcomes
    <3> QED
      BY <1>4, <2>1, <3>1, SlotDropped DEF Spawn, Return, HasSlot
  <2>2. CASE /\ call' = [call EXCEPT ![c].at = "check", ![c].process = "running", ![c].open = Streams]
             /\ UNCHANGED active_processes
    <3>1. Step(c) /\ CallInv(call'[c]) /\ HasSlot(call'[c])
      BY <2>2, <1>t DEF Step, HasSlot, Call, CallInv, Places
    <3> QED
      BY <1>4, <2>2, <3>1, SameSlots DEF Spawn, HasSlot
  <2> QED
    BY <1>4, <2>1, <2>2 DEF Spawn
<1>5. CASE CheckLimits(c) \/ TryWait(c) \/ Clock(c)
  <2>1. /\ Step(c) /\ call'[c].at \in {"check", "wait", "join"}
        /\ call'[c].captured = call[c].captured /\ call'[c].total_output = call[c].total_output
        /\ call[c].at \in {"check", "wait"} /\ UNCHANGED active_processes
    <3>1. CASE CheckLimits(c)
      <4>1. /\ call[c].at = "check" /\ UNCHANGED active_processes
            /\ \/ Kill(c, "overflow") \/ Kill(c, "timeout")
               \/ call' = [call EXCEPT ![c].at = "wait"]
        BY <3>1 DEF CheckLimits
      <4>2. CASE call' = [call EXCEPT ![c].at = "wait"]
        BY <1>t, <4>1, <4>2 DEF Step, Call, Places
      <4>3. ASSUME NEW status \in Outcomes, Kill(c, status) PROVE <2>1
        BY <1>t, <4>1, <4>3 DEF Kill, Step, Call, Places
      <4> QED
        BY <4>1, <4>2, <4>3 DEF Outcomes
    <3>2. CASE TryWait(c)
      BY <1>t, <3>2 DEF TryWait, Step, Call, Places, Outcomes
    <3>3. CASE Clock(c)
      BY <1>t, <3>3 DEF Clock, Step, Call, Places, Outcomes
    <3> QED
      BY <1>5, <3>1, <3>2, <3>3
  <2>2. CallInv(call'[c]) /\ HasSlot(call'[c]) /\ HasSlot(call[c])
    BY <1>t, <2>1 DEF CallInv, HasSlot
  <2> QED
    BY <2>1, <2>2, SameSlots
<1>6. CASE Join(c)
  <2>1. Step(c) /\ CallInv(call'[c]) /\ ~ HasSlot(call'[c])
    BY <1>6, <1>t, <1>i DEF Join, Return, Step, HasSlot, Call
  <2> QED
    BY <1>6, <2>1, SlotDropped DEF Join, Return, HasSlot
<1> QED
  BY <1>1, <1>2, <1>3, <1>4, <1>5, <1>6 DEF Caller

(* The reading threads and the command.                                    *)
LEMMA OthersKeepIInv ==
    ASSUME IInv, NEW c \in Callers, Command(c) \/ \E s \in Streams : Reader(c, s) PROVE IInv'
<1>t. call \in [Callers -> Call] /\ call[c] \in Call /\ CallInv(call[c])
  BY DEF IInv, TypeOK
<1>a. call[c].process = "running" \/ call[c].heir => call[c].at \in {"check", "wait", "join"}
  BY <1>t DEF CallInv
<1>1. ASSUME NEW s \in Streams, Read(c, s) \/ EndOfPipe(c, s) \/ Write(c, s) PROVE IInv'
  <2>1. Step(c) /\ CallInv(call'[c]) /\ call'[c].at = call[c].at
    <3>1. CASE Read(c, s)
      <4>1. PICK n \in 1 .. call[c].pipe[s] :
              call' = [call EXCEPT ![c].pipe[s] = @ - n, ![c].hand[s] = n]
        BY <3>1 DEF Read
      <4>2. call[c].pipe \in [Streams -> Nat] /\ call[c].hand \in [Streams -> Nat]
        BY <1>t DEF Call
      <4>3. call[c].pipe[s] - n \in Nat /\ n \in Nat
        BY <4>2
      <4> QED
        BY <1>t, <4>1, <4>2, <4>3 DEF Step, Call, CallInv
    <3>2. CASE EndOfPipe(c, s)
      BY <1>t, <3>2 DEF EndOfPipe, Step, Call, CallInv
    <3>3. CASE Write(c, s)
      <4>1. /\ call[c].pipe \in [Streams -> Nat] /\ call[c].written \in Nat
            /\ call' = [call EXCEPT ![c].pipe[s] = @ + 1, ![c].written = @ + 1]
        BY <1>t, <3>3 DEF Write, Call
      <4>2. call[c].pipe[s] + 1 \in Nat /\ call[c].written + 1 \in Nat
        BY <4>1
      <4> QED
        BY <1>t, <4>1, <4>2 DEF Step, Call, CallInv
    <3> QED
      BY <1>1, <3>1, <3>2, <3>3
  <2> QED
    BY <1>1, <2>1, SameSlots DEF Read, EndOfPipe, Write, HasSlot
<1>2. ASSUME NEW s \in Streams, Store(c, s) PROVE IInv'
  <2> DEFINE n == call[c].hand[s]
             total == call[c].total_output
             kept == call[c].captured
  <2>1. n \in Nat /\ total \in Nat /\ kept \in [Streams -> Nat]
    BY <1>t DEF Call
  <2>2. /\ Stored(c, s) \in Nat
        /\ Stored(c, s) = IF total + n <= MaxBytes THEN n
                          ELSE IF total <= MaxBytes THEN MaxBytes - total ELSE 0
    BY <2>1, Bounds DEF Stored
  <2> DEFINE keeps == Stored(c, s)
             after == [call[c] EXCEPT !.hand = [@ EXCEPT ![s] = 0], !.total_output = total + n,
                                      !.captured = [kept EXCEPT ![s] = kept[s] + keeps],
                                      !.output_exceeded = @ \/ keeps < n]
  <2>a. call' = [call EXCEPT ![c] = after]
    BY <1>t, <1>2 DEF Store, Call
  <2>b. /\ after.at = call[c].at /\ after.total_output = total + n
        /\ after.captured = [kept EXCEPT ![s] = kept[s] + keeps]
        /\ after.seen = call[c].seen /\ after.process = call[c].process
        /\ after.heir = call[c].heir
    BY <1>t DEF Call
  <2>c. after \in Call
    <3>1. [kept EXCEPT ![s] = kept[s] + keeps] \in [Streams -> Nat] /\ total + n \in Nat
      BY <2>1, <2>2
    <3>2. [call[c].hand EXCEPT ![s] = 0] \in [Streams -> Nat]
      BY <1>t DEF Call
    <3>3. (call[c].output_exceeded \/ keeps < n) \in BOOLEAN
      OBVIOUS
    <3> QED
      BY <1>t, <3>1, <3>2, <3>3 DEF Call
  <2>3. /\ Step(c) /\ call'[c].at = call[c].at /\ call'[c].total_output = total + n
        /\ call'[c].captured = [kept EXCEPT ![s] = @ + Stored(c, s)]
        /\ call'[c].seen = call[c].seen /\ call'[c].process = call[c].process
        /\ call'[c].heir = call[c].heir
    <3> HIDE DEF after
    <3> QED
      BY <1>t, <2>a, <2>b, <2>c DEF Step
  <2>4. call'[c].captured["stdout"] + call'[c].captured["stderr"]
          = kept["stdout"] + kept["stderr"] + Stored(c, s)
    BY <2>1, <2>2, <2>3 DEF Streams
  <2>5. CallInv(call'[c])
    BY <1>t, <2>1, <2>2, <2>3, <2>4, Bounds DEF CallInv
  <2> QED
    BY <1>2, <2>3, <2>5, SameSlots DEF Store, HasSlot
<1>3. CASE Fork(c) \/ Exit(c) \/ HeirExits(c)
  <2>1. Step(c) /\ CallInv(call'[c]) /\ call'[c].at = call[c].at
    <3>1. CASE Fork(c)
      BY <1>t, <3>1 DEF Fork, Step, Call, CallInv
    <3>2. CASE Exit(c)
      BY <1>t, <3>2 DEF Exit, Step, Call, CallInv
    <3>3. CASE HeirExits(c)
      BY <1>t, <3>3 DEF HeirExits, Step, Call, CallInv
    <3> QED
      BY <1>3, <3>1, <3>2, <3>3
  <2> QED
    BY <1>3, <2>1, SameSlots DEF Fork, Exit, HeirExits, HasSlot
<1> QED
  BY <1>1, <1>2, <1>3 DEF Command, Reader

LEMMA NextIInv == ASSUME IInv, [GatewayNext]_gatewayVars PROVE IInv'
<1>1. CASE GatewayNext
  BY <1>1, CallerKeepsIInv, OthersKeepIInv DEF GatewayNext
<1>2. CASE UNCHANGED gatewayVars
  BY <1>2 DEF gatewayVars, IInv, TypeOK, SlotsAreCounted, Inside
<1> QED
  BY <1>1, <1>2

LEMMA InvariantHolds == GatewaySpec => []IInv
  BY InitIInv, NextIInv, PTL DEF GatewaySpec

-----------------------------------------------------------------------------
(* No more commands run at a time than the gateway has slots.              *)
THEOREM ProcessLimit == GatewaySpec => []ProcessesWithinLimit
<1>1. ASSUME IInv PROVE ProcessesWithinLimit
  <2>1. {c \in Callers : Alive(c)} \subseteq Inside
    BY <1>1 DEF IInv, CallInv, Alive, Inside
  <2>2. Cardinality({c \in Callers : Alive(c)}) <= Cardinality(Inside)
    BY <2>1, InsideIsFinite, FS_Subset
  <2>3. Cardinality({c \in Callers : Alive(c)}) \in Nat
    BY <2>1, InsideIsFinite, FS_Subset, FS_CardinalityType
  <2> QED
    BY <1>1, <2>2, <2>3, Bounds DEF IInv, TypeOK, SlotsAreCounted, ProcessesWithinLimit
<1> QED
  BY <1>1, InvariantHolds, PTL

(* The two reading threads keep no more of a command's output than they    *)
(* may, in whatever order they count it.                                   *)
THEOREM OutputLimit == GatewaySpec => []CapturedWithinLimit
<1>1. IInv => CapturedWithinLimit
  BY Bounds DEF IInv, TypeOK, Call, CallInv, CapturedWithinLimit
<1> QED
  BY <1>1, InvariantHolds, PTL
=============================================================================
