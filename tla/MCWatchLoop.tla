----------------------------- MODULE MCWatchLoop -----------------------------
(* WatchLoop on three files: a root and two chapters.  Which chapters the  *)
(* root \input's depends on which save wrote it.                           *)
EXTENDS WatchLoop

CONSTANTS main, chap1, chap2

MCFiles == {main, chap1, chap2}

(* Even versions of the root use chapter 1 only, odd ones both chapters.   *)
MCIncludes == [v \in 0..MaxSaves |-> IF v % 2 = 0 THEN {chap1} ELSE {chap1, chap2}]
=============================================================================
