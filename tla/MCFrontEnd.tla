------------------------------- MODULE MCFrontEnd -------------------------------
(* What runs beside the compiler: the loop that notices saved files, and   *)
(* the gateway that runs the commands of a document's \write18.  They      *)
(* share no state; one of them is chosen initially.                        *)
EXTENDS MCWatchLoop, ShellGateway

CONSTANTS Parts

VARIABLE part

frontEndVars == <<part, watchVars, gatewayVars>>

FrontEndInit ==
  /\ part \in Parts
  /\ WatchInit /\ GatewayInit
  /\ part # "gateway" => ~ allowed

WatchMove == part = "watch" /\ WatchNext /\ UNCHANGED <<part, gatewayVars>>
GatewayMove == part = "gateway" /\ GatewayNext /\ UNCHANGED <<part, watchVars>>

FrontEndNext == WatchMove \/ GatewayMove

FrontEndSpec ==
  /\ FrontEndInit /\ [][FrontEndNext]_frontEndVars
  /\ GatewayFairness
  /\ WF_watchVars(part = "watch" /\ Loop)
=============================================================================
