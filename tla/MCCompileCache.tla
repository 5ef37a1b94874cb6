---------------------------- MODULE MCCompileCache ----------------------------
(* CompileCache on a root, a chapter it always \input's and a section the  *)
(* chapter \input's in some of its versions.                               *)
EXTENDS CompileCache

CONSTANTS main, chap, sec

MCFiles == {main, chap, sec}

MCInputs ==
    [f \in MCFiles |-> [c \in Contents |->
        CASE f = main -> {chap}
          [] f = chap /\ c # 3 -> {sec}
          [] OTHER -> {}]]

(* Only the root and the chapter.                                          *)
MCTwoFiles == {main, chap}

MCTwoInputs ==
    [f \in MCTwoFiles |-> [c \in Contents |-> IF f = main THEN {chap} ELSE {}]]

=============================================================================
