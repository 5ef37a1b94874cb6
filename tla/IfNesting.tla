------------------------------- MODULE IfNesting -------------------------------
(***************************************************************************)
(* What nested conditionals mean: every \if, executed or skipped, has its  *)
(* own \fi, and text is executed when it is in the selected branch of      *)
(* every conditional around it (REQ-FUNC-003 of docs/requirements.md).     *)
(***************************************************************************)
EXTENDS Integers, Sequences

VARIABLE branches       \* the open conditionals

(* choice is the selected branch, -1 for none but \else; branch counts the *)
(* \or's; elses is 2 behind anything that may not follow an \else.         *)
OpenIf == [kind : {"if", "case"}, choice : Int, branch : Nat, elses : 0..2]

BranchesOK == branches \in Seq(OpenIf)

Init == branches = <<>>

Selected(b) ==
    \/ b.elses = 0 /\ b.branch = b.choice
    \/ b.elses = 1 /\ b.choice \notin 0..b.branch

AllSelected == \A i \in 1..Len(branches) : Selected(branches[i])

Top == branches[Len(branches)]

Open(kind, choice) ==
    branches' = Append(branches, [kind |-> kind, choice |-> choice, branch |-> 0, elses |-> 0])

OpenTruth(c) == Open("if", IF c THEN 0 ELSE -1)

Late(b) == [b EXCEPT !.elses = 2]

ElseOf(b) == IF b.elses = 0 THEN [b EXCEPT !.elses = 1] ELSE Late(b)
OrOf(b) == IF b.elses = 0 THEN [b EXCEPT !.branch = b.branch + 1] ELSE Late(b)

Else ==
    branches' = IF branches = <<>> THEN branches
                ELSE [branches EXCEPT ![Len(branches)] = ElseOf(Top)]

Or ==
    branches' = IF branches = <<>> \/ Top.kind = "if" THEN branches
                ELSE [branches EXCEPT ![Len(branches)] = OrOf(Top)]

Fi == branches' = IF branches = <<>> THEN branches
                  ELSE SubSeq(branches, 1, Len(branches) - 1)
=============================================================================
