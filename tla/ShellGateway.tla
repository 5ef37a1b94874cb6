----------------------------- MODULE ShellGateway -----------------------------
(***************************************************************************)
(* Running an external command for \write18 (command_gateway.rs).  The     *)
(* calling thread takes one of the process slots, starts the command, and  *)
(* looks in turn at the output limit, the deadline and the process, while  *)
(* two threads read what the command writes into its two pipes.            *)
(***************************************************************************)
EXTENDS Integers, FiniteSets

CONSTANTS
  Callers,        \* threads that share the gateway
  MaxProcesses, MaxBytes,
  PipeSize,       \* BOUND on the bytes a pipe holds (64 KiB)
  MaxWritten,     \* BOUND on the bytes a command writes
  MaxCalls,       \* BOUND on the commands a thread runs
  Forks           \* a command may leave a descendant that holds its pipes

ASSUME GatewayAssumption ==
  /\ IsFiniteSet(Callers)
  /\ {MaxProcesses, MaxBytes, PipeSize, MaxWritten, MaxCalls} \subseteq Nat
  /\ Forks \in BOOLEAN

Streams == {"stdout", "stderr"}

VARIABLES
  allowed,            \* shell escape is allowed
  active_processes,
  call,               \* thread -> its call and the process of it
  calls               \* thread -> calls so far

gatewayVars == <<allowed, active_processes, call, calls>>

\* "seen" is the number of processes the thread read, "written" what the command
\* wrote, "hand" what a reading thread has read and not yet counted, "captured"
\* what is kept of each stream, "total" what was counted of both.
Idle(outcome) ==
  [at |-> "idle", seen |-> 0, process |-> "none", heir |-> FALSE, late |-> FALSE,
   written |-> 0, pipe |-> [s \in Streams |-> 0], hand |-> [s \in Streams |-> 0],
   open |-> {}, captured |-> [s \in Streams |-> 0], total_output |-> 0,
   output_exceeded |-> FALSE, status |-> "none", outcome |-> outcome]

Inside == {c \in Callers : call[c].at \in {"spawn", "check", "wait", "join"}}
Alive(c) == call[c].process = "running" \/ call[c].heir

GatewayInit ==
  /\ allowed \in BOOLEAN
  /\ active_processes = 0
  /\ call = [c \in Callers |-> Idle("none")]
  /\ calls = [c \in Callers |-> 0]

-----------------------------------------------------------------------------
(* The calling thread.                                                     *)

\* A command with shell syntax, an empty one, and any command when shell escape
\* is not allowed is refused.
execute(c) ==
  /\ call[c].at = "idle" /\ calls[c] < MaxCalls
  /\ calls' = [calls EXCEPT ![c] = @ + 1]
  /\ \/ call' = [call EXCEPT ![c] = Idle("refused")]
     \/ ~ allowed /\ call' = [call EXCEPT ![c] = Idle("not allowed")]
     \/ allowed /\ call' = [call EXCEPT ![c] = [Idle("none") EXCEPT !.at = "load"]]
  /\ UNCHANGED <<allowed, active_processes>>

Load(c) ==
  /\ call[c].at = "load"
  /\ call' = IF active_processes >= MaxProcesses
               THEN [call EXCEPT ![c] = Idle("limit")]
               ELSE [call EXCEPT ![c].at = "take", ![c].seen = active_processes]
  /\ UNCHANGED <<allowed, active_processes, calls>>

\* MUTANT: an addition in the place of the comparison and exchange.
TakeAnyway(c) ==
  /\ call[c].at = "take"
  /\ active_processes' = active_processes + 1
  /\ call' = [call EXCEPT ![c].at = "spawn"]
  /\ UNCHANGED <<allowed, calls>>

Take(c) ==
  /\ call[c].at = "take"
  /\ IF active_processes = call[c].seen
       THEN /\ active_processes' = active_processes + 1
            /\ call' = [call EXCEPT ![c].at = "spawn"]
       ELSE /\ UNCHANGED active_processes
            /\ call' = [call EXCEPT ![c].at = "load"]
  /\ UNCHANGED <<allowed, calls>>

\* The slot is dropped on every way out.
Return(c, outcome) ==
  /\ active_processes' = active_processes - 1
  /\ call' = [call EXCEPT ![c] = Idle(outcome)]

Spawn(c) ==
  /\ call[c].at = "spawn"
  /\ \/ /\ call' = [call EXCEPT ![c].at = "check", ![c].process = "running", ![c].open = Streams]
        /\ UNCHANGED active_processes
     \/ Return(c, "io")
  /\ UNCHANGED <<allowed, calls>>

\* MUTANT: the command is left running.
Leave(c, status) == call' = [call EXCEPT ![c].at = "join", ![c].status = status]

Kill(c, status) ==
  call' = [call EXCEPT ![c].at = "join", ![c].status = status, ![c].process = "gone"]

CheckLimits(c) ==
  /\ call[c].at = "check"
  /\ \/ call[c].output_exceeded /\ Kill(c, "overflow")
     \/ ~ call[c].output_exceeded /\ call[c].late /\ Kill(c, "timeout")
     \/ /\ ~ call[c].output_exceeded /\ ~ call[c].late
        /\ call' = [call EXCEPT ![c].at = "wait"]
  /\ UNCHANGED <<allowed, active_processes, calls>>

TryWait(c) ==
  /\ call[c].at = "wait"
  /\ call' = IF call[c].process = "gone"
               THEN [call EXCEPT ![c].at = "join", ![c].status = "ok"]
               ELSE [call EXCEPT ![c].at = "check"]
  /\ UNCHANGED <<allowed, active_processes, calls>>

\* Waits for the end of both pipes.
Join(c) ==
  /\ call[c].at = "join" /\ call[c].open = {}
  /\ Return(c, call[c].status)
  /\ UNCHANGED <<allowed, calls>>

Caller(c) ==
  Load(c) \/ Take(c) \/ Spawn(c) \/ CheckLimits(c) \/ TryWait(c) \/ Join(c)

Clock(c) ==
  /\ call[c].at \in {"check", "wait"} /\ ~ call[c].late
  /\ call' = [call EXCEPT ![c].late = TRUE]
  /\ UNCHANGED <<allowed, active_processes, calls>>

-----------------------------------------------------------------------------
(* The threads that read.                                                  *)

Read(c, s) ==
  /\ s \in call[c].open /\ call[c].hand[s] = 0
  /\ \E n \in 1 .. call[c].pipe[s] :
       call' = [call EXCEPT ![c].pipe[s] = @ - n, ![c].hand[s] = n]
  /\ UNCHANGED <<allowed, active_processes, calls>>

\* MUTANT: each stream has the limit for itself.
StoredAlone(c, s) ==
  LET remaining == MaxBytes - call[c].captured[s]
  IN IF remaining <= call[c].hand[s] THEN remaining ELSE call[c].hand[s]

Stored(c, s) ==
  LET remaining == IF MaxBytes > call[c].total_output THEN MaxBytes - call[c].total_output ELSE 0
  IN IF remaining <= call[c].hand[s] THEN remaining ELSE call[c].hand[s]

Store(c, s) ==
  /\ call[c].hand[s] > 0
  /\ call' = [call EXCEPT ![c].hand[s] = 0,
                          ![c].total_output = @ + call[c].hand[s],
                          ![c].captured[s] = @ + Stored(c, s),
                          ![c].output_exceeded = @ \/ Stored(c, s) < call[c].hand[s]]
  /\ UNCHANGED <<allowed, active_processes, calls>>

EndOfPipe(c, s) ==
  /\ s \in call[c].open /\ call[c].hand[s] = 0 /\ call[c].pipe[s] = 0 /\ ~ Alive(c)
  /\ call' = [call EXCEPT ![c].open = @ \ {s}]
  /\ UNCHANGED <<allowed, active_processes, calls>>

Reader(c, s) == Read(c, s) \/ Store(c, s) \/ EndOfPipe(c, s)

-----------------------------------------------------------------------------
(* The command.                                                            *)

Write(c, s) ==
  /\ Alive(c) /\ call[c].pipe[s] < PipeSize /\ call[c].written < MaxWritten
  /\ call' = [call EXCEPT ![c].pipe[s] = @ + 1, ![c].written = @ + 1]
  /\ UNCHANGED <<allowed, active_processes, calls>>

Fork(c) ==
  /\ Forks /\ call[c].process = "running" /\ ~ call[c].heir
  /\ call' = [call EXCEPT ![c].heir = TRUE]
  /\ UNCHANGED <<allowed, active_processes, calls>>

Exit(c) ==
  /\ call[c].process = "running"
  /\ call' = [call EXCEPT ![c].process = "gone"]
  /\ UNCHANGED <<allowed, active_processes, calls>>

HeirExits(c) ==
  /\ call[c].heir
  /\ call' = [call EXCEPT ![c].heir = FALSE]
  /\ UNCHANGED <<allowed, active_processes, calls>>

Command(c) == Fork(c) \/ Exit(c) \/ HeirExits(c) \/ \E s \in Streams : Write(c, s)

-----------------------------------------------------------------------------
GatewayNext ==
  \E c \in Callers :
    \/ execute(c) \/ Caller(c) \/ Clock(c) \/ Command(c)
    \/ \E s \in Streams : Reader(c, s)

\* The threads and the clock go on; the command does what it likes.
GatewayFairness ==
  \A c \in Callers :
    /\ WF_gatewayVars(Caller(c)) /\ WF_gatewayVars(Clock(c))
    /\ \A s \in Streams : WF_gatewayVars(Reader(c, s))

GatewaySpec == GatewayInit /\ [][GatewayNext]_gatewayVars /\ GatewayFairness

-----------------------------------------------------------------------------
\* No more commands run at a time than the gateway has slots, however the
\* threads interleave between reading the counter and raising it.
ProcessesWithinLimit == Cardinality({c \in Callers : Alive(c)}) <= MaxProcesses

\* The two reading threads together keep no more than the limit allows.
CapturedWithinLimit ==
  \A c \in Callers : call[c].captured["stdout"] + call[c].captured["stderr"] <= MaxBytes

\* A command that neither ends nor stops writing is stopped, and the call comes
\* back: no thread waits for a pipe that nobody will close.
EveryCallReturns == \A c \in Callers : call[c].at # "idle" ~> call[c].at = "idle"

\* requirements.md:1003: a command that writes more than the limit is stopped
\* and a diagnostic is returned.  It does not hold: a command that ends before
\* its output is read is reported as a success with a part of its output.
OverflowIsReported ==
  [][\A c \in Callers :
       Join(c) /\ call[c].total_output > MaxBytes => call[c].status # "ok"]_gatewayVars
=============================================================================
