----------------------------- MODULE Conditionals -----------------------------
(***************************************************************************)
(* ConditionalState (conditionals.rs) and the parts of the parser that     *)
(* drive it (handle_common_primitive, skip_current_false_branch).  Only    *)
(* conditionals that are executed get a frame; in a skipped branch the     *)
(* nested ones are counted.                                                *)
(*                                                                         *)
(* One step reads one conditional token.  The tests (\ifnum, \ifx, ...)    *)
(* and a leading \unless are the truth value of an "if".  Abstracted: an   *)
(* \unless without a conditional behind it.                                *)
(***************************************************************************)
EXTENDS Integers, Sequences

VARIABLES
    ifs,        \* stack of ConditionalFrames
    depth       \* nested_depth of skip_false_branch

ifVars == <<ifs, depth>>

(* ConditionalFrame; an "if" does not use target, current and matched.     *)
Frame == [kind : {"if", "case"}, executing : BOOLEAN, elseSeen : BOOLEAN,
          target : Int, current : Nat, matched : BOOLEAN]

IfsOK == ifs \in Seq(Frame) /\ depth \in Nat

IfsInit == ifs = <<>> /\ depth = 0

TopIf == ifs[Len(ifs)]

IsSkipping == ifs # <<>> /\ ~TopIf.executing

NewIf(c) == [kind |-> "if", executing |-> c, elseSeen |-> FALSE,
             target |-> 0, current |-> 0, matched |-> FALSE]

NewCase(v) == [kind |-> "case", executing |-> v = 0, elseSeen |-> FALSE,
               target |-> v, current |-> 0, matched |-> v = 0]

(* process_if_at and process_ifcase_at, or one more nested conditional.    *)
OpenFrame(frame) ==
    IF IsSkipping
      THEN depth' = depth + 1 /\ UNCHANGED ifs
      ELSE ifs' = Append(ifs, frame) /\ UNCHANGED depth

(* A name that \newif has defined is a macro for \iftrue or \iffalse.  It  *)
(* is expanded when it is executed, and no conditional for                 *)
(* is_conditional_start when it is skipped.                                *)
OpenUserIf(c) ==
    IF IsSkipping THEN UNCHANGED ifVars ELSE OpenFrame(NewIf(c))

(* MUTANT of AfterElse: a second \else flips an "if" again.                *)
FlipAtElse(frame) ==
    [frame EXCEPT !.elseSeen = TRUE,
                  !.executing = IF frame.kind = "if" THEN ~@
                                ELSE ~frame.elseSeen /\ ~frame.matched]

AfterElse(frame) ==
    [frame EXCEPT !.elseSeen = TRUE,
                  !.executing = /\ ~frame.elseSeen
                                /\ IF frame.kind = "if" THEN ~@ ELSE ~frame.matched]

(* MUTANT of AfterOr: a case after the matching one is compared as well.   *)
OrForgetsMatch(frame) ==
    [frame EXCEPT !.current = @ + 1, !.matched = @ \/ frame.target = frame.current + 1,
                  !.executing = ~frame.matched \/ frame.target = frame.current + 1]

AfterOr(frame) ==
    IF frame.elseSeen
      THEN [frame EXCEPT !.executing = FALSE]
      ELSE LET hit == ~frame.matched /\ frame.target = frame.current + 1
           IN [frame EXCEPT !.current = @ + 1, !.matched = @ \/ hit, !.executing = hit]

(* Without a frame these are errors that change nothing (process_else) or  *)
(* no primitive at all (\or); in an "if" an \or is ignored; of a nested    *)
(* conditional they are skipped.                                           *)
ReadElse ==
    /\ ifs' = IF ifs # <<>> /\ depth = 0
                THEN [ifs EXCEPT ![Len(ifs)] = AfterElse(@)] ELSE ifs
    /\ UNCHANGED depth

ReadOr ==
    /\ ifs' = IF ifs # <<>> /\ depth = 0 /\ TopIf.kind = "case"
                THEN [ifs EXCEPT ![Len(ifs)] = AfterOr(@)] ELSE ifs
    /\ UNCHANGED depth

ReadFi ==
    IF depth > 0
      THEN depth' = depth - 1 /\ UNCHANGED ifs
      ELSE /\ ifs' = IF ifs # <<>> THEN SubSeq(ifs, 1, Len(ifs) - 1) ELSE ifs
           /\ UNCHANGED depth
=============================================================================
