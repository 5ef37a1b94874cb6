------------------------------- MODULE ScopedEnv -------------------------------
(***************************************************************************)
(* MacroEngine (macro_engine.rs): a stack of environments, one per open    *)
(* group, each a copy of the one below when it was opened.  It is what     *)
(* TeX's groups mean; RegisterStore keeps the same promise in another way. *)
(* A name without an entry has the value Default.                          *)
(***************************************************************************)
EXTENDS Naturals, Sequences

CONSTANTS
    Names, Values,
    Default,        \* the value of a name that is not in the environment
    MaxGroups       \* BOUND on the nesting of groups

VARIABLE scopes     \* scope_stack

Environment == [Names -> Values]

ScopesOK == scopes \in Seq(Environment) /\ scopes # <<>>

Init == scopes = <<[n \in Names |-> Default]>>

Top == scopes[Len(scopes)]

PushGroup ==
    /\ Len(scopes) <= MaxGroups
    /\ scopes' = Append(scopes, Top)

(* The last scope is never popped.                                         *)
PopGroup ==
    scopes' = IF Len(scopes) > 1 THEN SubSeq(scopes, 1, Len(scopes) - 1) ELSE scopes

(* define_local and let_assign: a \let to an undefined name removes the    *)
(* entry, which is an assignment of Default.                               *)
DefineLocal(n, v) ==
    scopes' = [scopes EXCEPT ![Len(scopes)] = [@ EXCEPT ![n] = v]]

DefineGlobal(n, v) ==
    scopes' = [i \in 1..Len(scopes) |-> [scopes[i] EXCEPT ![n] = v]]
=============================================================================
