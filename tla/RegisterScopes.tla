---------------------------- MODULE RegisterScopes ----------------------------
(***************************************************************************)
(* RegisterStore against the stack of environments of ScopedEnv: the       *)
(* parser opens and closes groups in MacroEngine and RegisterStore         *)
(* together (handle_runtime_group_token, \begingroup, environments), and   *)
(* `scopes` takes every assignment to a register as MacroEngine would take *)
(* it.  The save stack has to give the same answers.                       *)
(***************************************************************************)
EXTENDS RegisterStore

VARIABLE scopes

vars == <<registers, saves, scopes>>

Reference == INSTANCE ScopedEnv

TypeOK ==
    /\ registers \in [Names -> Values]
    /\ saves \in Seq(GroupSave)
    /\ Reference!ScopesOK

Init == StoreInit /\ Reference!Init

PushGroup == Push /\ Reference!PushGroup
PopGroup == Pop /\ Reference!PopGroup
AssignLocal(n, v) == SetLocal(n, v) /\ Reference!DefineLocal(n, v)
AssignGlobal(n, v) == SetGlobal(n, v) /\ Reference!DefineGlobal(n, v)

Next ==
    \/ PushGroup
    \/ PopGroup
    \/ \E n \in Names, v \in Values : AssignLocal(n, v) \/ AssignGlobal(n, v)

Spec == Init /\ [][Next]_vars

-----------------------------------------------------------------------------
(* Properties.                                                             *)

(* Every register reads as in the innermost environment, whatever local    *)
(* and global assignments the open groups, and the closed ones, have made: *)
(* a save kept too long, or dropped too early, shows after some group end. *)
ReadsAsScoped == registers = scopes[Len(scopes)]

(* The store and the engine agree on the number of open groups, so a group *)
(* end never restores another group's values.                              *)
SameDepth == Len(scopes) = Len(saves) + 1

=============================================================================
