----------------------------- MODULE RegisterStore -----------------------------
(***************************************************************************)
(* RegisterStore (registers.rs): one current value per register and, for   *)
(* every open group, the values that registers had when the group first    *)
(* assigned them.  A register without an entry in its map has the value    *)
(* Default, which the maps never hold: set_sparse_register removes it, and *)
(* restoring None removes it too.  The seven maps (counts, dimens, skips,  *)
(* muskips, toks and two for pdfTeX) work alike and never interact: Names  *)
(* is the union of their keys.                                             *)
(***************************************************************************)
EXTENDS Naturals, Sequences

CONSTANTS Names, Values, Default, MaxGroups

ASSUME DefaultAssumption == Default \in Values
ASSUME MaxGroupsAssumption == MaxGroups \in Nat

VARIABLES
    registers,      \* the current values
    saves           \* save_stack: a GroupSave per open group

storeVars == <<registers, saves>>

(* The saved values of a group: a function on some of the registers.       *)
GroupSave == UNION {[S -> Values] : S \in SUBSET Names}
NoSave == [n \in {} |-> Default]

StoreInit ==
    /\ registers = [n \in Names |-> Default]
    /\ saves = <<>>

Push ==
    /\ Len(saves) < MaxGroups
    /\ saves' = Append(saves, NoSave)
    /\ UNCHANGED registers

(* What a group end brings back.                                           *)
Restored(save) ==
    [n \in Names |-> IF n \in DOMAIN save THEN save[n] ELSE registers[n]]

(* Without an open group nothing happens.                                  *)
Pop ==
    IF saves = <<>>
      THEN UNCHANGED storeVars
      ELSE /\ registers' = Restored(saves[Len(saves)])
           /\ saves' = SubSeq(saves, 1, Len(saves) - 1)

(* entry(n).or_insert_with: the first assignment in a group saves.         *)
Saved(save, n) ==
    [m \in DOMAIN save \cup {n} |-> IF m \in DOMAIN save THEN save[m] ELSE registers[n]]

SetLocal(n, v) ==
    /\ saves' = IF saves = <<>> THEN saves
                ELSE [saves EXCEPT ![Len(saves)] = Saved(@, n)]
    /\ registers' = [registers EXCEPT ![n] = v]

Forgotten(save, n) == [m \in DOMAIN save \ {n} |-> save[m]]

(* MUTANT of ForgetEverywhere: only the innermost group forgets.           *)
ForgetInnermost(n) ==
    [i \in 1..Len(saves) |-> IF i = Len(saves) THEN Forgotten(saves[i], n) ELSE saves[i]]

ForgetEverywhere(n) == [i \in 1..Len(saves) |-> Forgotten(saves[i], n)]

(* A global assignment removes what every open group has saved.            *)
SetGlobal(n, v) ==
    /\ saves' = ForgetEverywhere(n)
    /\ registers' = [registers EXCEPT ![n] = v]
=============================================================================
