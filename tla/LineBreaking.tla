----------------------------- MODULE LineBreaking -----------------------------
(***************************************************************************)
(* Breaking a paragraph into lines: the best break points are found by     *)
(* dynamic programming (knuth_plass.rs) and a second pass cuts the         *)
(* horizontal list at them (line_breaker.rs), with its own idea of what a  *)
(* line begins and ends with.                                              *)
(***************************************************************************)
EXTENDS Integers, Sequences, FiniteSets, SequencesExt, FiniteSetsExt, Ordered

CONSTANTS
  LineWidth, CharWidths,
  Space,           \* the width, stretch and shrink of a space
  HyphenPenalty, LinePenalty, Tolerance,
  MaxBadness,      \* BOUND: 1 000 000 in the code
  MaxHList         \* BOUND on the items of a list

ASSUME LineAssumption ==
  /\ CharWidths \subseteq Nat \ {0}
  /\ Space \in [width : Nat, stretch : Nat, shrink : Nat]
  /\ {LineWidth, LinePenalty, HyphenPenalty, Tolerance, MaxBadness, MaxHList} \subseteq Nat

VARIABLE hlist

Char(width) == [kind |-> "char", width |-> width, stretch |-> 0, shrink |-> 0, value |-> 0]
Glue == [kind |-> "glue", width |-> Space.width, stretch |-> Space.stretch,
         shrink |-> Space.shrink, value |-> 0]
Hyphen == [kind |-> "penalty", width |-> 0, stretch |-> 0, shrink |-> 0, value |-> HyphenPenalty]
Forced == [kind |-> "forced", width |-> 0, stretch |-> 0, shrink |-> 0, value |-> 0]

LinesInit == hlist = << >>

\* A letter, the next syllable of a word, a space or a forced break.
LinesNext ==
  /\ Len(hlist) < MaxHList
  /\ \/ \E w \in CharWidths : hlist' = Append(hlist, Char(w))
     \/ \E w \in CharWidths :
          /\ hlist # << >> /\ Last(hlist).kind = "char"
          /\ hlist' = hlist \o <<Hyphen, Char(w)>>
     \/ hlist' = Append(hlist, Glue)
     \/ hlist' = Append(hlist, Forced)

LinesSpec == LinesInit /\ [][LinesNext]_hlist

-----------------------------------------------------------------------------
(* Break points.  Items i .. j - 1 are what lies from i to j.              *)

Kind(i) == IF i \in DOMAIN hlist THEN hlist[i].kind ELSE "none"

\* The first item from i on, or the end of the last before it, not of the kinds.
SkipFrom(i, kinds) == CHOOSE j \in i .. Len(hlist) + 2 :
  Kind(j) \notin kinds /\ \A k \in i .. j - 1 : Kind(k) \in kinds
TrimTo(start, end) ==
  IF end <= start THEN end
  ELSE CHOOSE j \in start .. end :
         /\ \A k \in j .. end - 1 : Kind(k) \in {"glue", "penalty"}
         /\ j = start \/ Kind(j - 1) \notin {"glue", "penalty"}

advance_line_start(i) == SkipFrom(i, {"glue"})

Candidate(i) ==
  [break_index |-> IF Kind(i) = "glue" THEN i - 1 ELSE i,
   measure_end |-> IF Kind(i) = "glue" THEN i ELSE i + 1,
   next_start |-> advance_line_start(i + 1), value |-> hlist[i].value, terminal |-> FALSE]

Terminal(end) ==
  [break_index |-> 0, measure_end |-> end, next_start |-> end, value |-> 0, terminal |-> TRUE]

CanBreak(i, start) ==
  Kind(i) = "penalty" \/ (Kind(i) = "glue" /\ i > start /\ Kind(i - 1) = "char")

collect_candidates(start, end) ==
  LET breaks == Ascending({i \in start .. end - 1 : CanBreak(i, start)})
  IN Append([n \in DOMAIN breaks |-> Candidate(breaks[n])], Terminal(end))

metrics_between(field, start, end) ==
  FoldLeft(LAMBDA sum, item : sum + item[field], 0, SubSeq(hlist, start, end - 1))

Impossible == -1

Badness(distance, adjustment) ==
  Min({MaxBadness, (100 * distance * distance * distance) \div (adjustment * adjustment * adjustment)})

Judged(badness) == [feasible |-> badness <= Tolerance, badness |-> badness]

Adjusted(delta, adjustment) ==
  IF adjustment = 0
    THEN [feasible |-> FALSE, badness |-> IF delta > 0 THEN MaxBadness \div 2 ELSE MaxBadness]
    ELSE Judged(Badness(IF delta < 0 THEN - delta ELSE delta, adjustment))

\* The badness of a line, and whether it is within the tolerance.
adjustment_feasibility(delta, start, candidate) ==
  IF delta = 0 \/ (delta > 0 /\ candidate.terminal)
    THEN [feasible |-> TRUE, badness |-> 0]
    ELSE Adjusted(delta, metrics_between(IF delta > 0 THEN "stretch" ELSE "shrink",
                                         start, candidate.measure_end))

Square(n) == n * n

Demerits(fit, value, overfull) ==
  IF overfull \/ fit.feasible THEN Square(LinePenalty + fit.badness + value) ELSE Impossible

CostOf(width, start, candidate, overfull) ==
  IF start >= candidate.measure_end \/ width = 0 THEN Impossible
  ELSE Demerits(adjustment_feasibility(LineWidth - width, start, candidate), candidate.value, overfull)

edge_cost(start, candidate, overfull) ==
  CostOf(metrics_between("width", start, candidate.measure_end), start, candidate, overfull)

\* Where a line begins that follows candidate p; 0 is the paragraph's start.
LineStart(start, candidates, p) == IF p = 0 THEN start ELSE candidates[p].next_start

Sum(cost, edge) == IF Impossible \in {cost, edge} THEN Impossible ELSE cost + edge

\* best[p] is the way to candidate p.
Ways(start, candidates, c, best, overfull) ==
  LET way(p) ==
        [cost |-> Sum(best[p].cost,
                      edge_cost(LineStart(start, candidates, p), candidates[c], overfull)),
         from |-> best[p].from \o IF p = 0 THEN << >> ELSE <<p>>]
  IN [k \in 1 .. c |-> way(k - 1)]

NoWay == [cost |-> Impossible, from |-> << >>]

\* MUTANT: the last of the possible ways.
LastWay(ways) == FoldLeft(LAMBDA best, w : IF w.cost # Impossible THEN w ELSE best, NoWay, ways)

\* The cheapest of the possible ones, and of equal ones the first.
Cheaper(best, w) ==
  IF w.cost # Impossible /\ (best.cost = Impossible \/ w.cost < best.cost) THEN w ELSE best
BestWay(ways) == FoldLeft(Cheaper, NoWay, ways)

NoWays(n) == [c \in 0 .. n |-> IF c = 0 THEN [cost |-> 0, from |-> << >>] ELSE NoWay]

compute_best_path(start, candidates, overfull) ==
  LET step(best, c) == [best EXCEPT ![c] = BestWay(Ways(start, candidates, c, best, overfull))]
  IN FoldLeft(step, NoWays(Len(candidates)), [c \in DOMAIN candidates |-> c])[Len(candidates)]

\* Lines too wide or too loose only when there is no other way.
Prefer(strict, loose) == IF strict.cost # Impossible THEN strict.from ELSE loose.from

\* The breaks of one paragraph, as candidates.
solve_paragraph(start, candidates) ==
  Prefer(compute_best_path(start, candidates, FALSE), compute_best_path(start, candidates, TRUE))

\* The paragraphs between the forced breaks.
ForcedBreaks == Ascending({i \in DOMAIN hlist : Kind(i) = "forced"})
Paragraphs ==
  LET add(done, end) ==
        [start |-> advance_line_start(end + 1),
         all |-> Append(done.all, <<done.start, TrimTo(done.start, end)>>)]
  IN FoldLeft(add, [start |-> 1, all |-> << >>], Append(ForcedBreaks, Len(hlist) + 1)).all

BreaksAt(candidates, path) == [k \in DOMAIN path |-> candidates[path[k]].break_index]
SolvedWith(start, candidates) == BreaksAt(candidates, solve_paragraph(start, candidates))
Solved(paragraph) ==
  IF paragraph[1] >= paragraph[2] THEN << >>
  ELSE SolvedWith(paragraph[1], collect_candidates(paragraph[1], paragraph[2]))

\* The breaks of every paragraph, with the forced break behind it.
Interleaved(paragraphs, forced) ==
  FlattenSeq([n \in DOMAIN paragraphs |->
    Solved(paragraphs[n]) \o IF n \in DOMAIN forced THEN <<forced[n]>> ELSE << >>])

find_breakpoints == Interleaved(Paragraphs, ForcedBreaks)

-----------------------------------------------------------------------------
(* Cutting the list.                                                       *)

skip_line_start(i) == SkipFrom(i, {"glue", "penalty"})

\* MUTANT: the item at a break is never part of the line before it.
break_end_before(start, break) == TrimTo(start, break)

visible_break_end(start, break) ==
  TrimTo(start, IF Kind(break) \in {"penalty", "forced"} THEN break ELSE break + 1)

WithTail(cut, end) == IF cut.start < end THEN Append(cut.done, <<cut.start, end>>) ELSE cut.done
CutAt(cut, break) ==
  [start |-> skip_line_start(break + 1),
   done |-> Append(cut.done, <<cut.start, visible_break_end(cut.start, break)>>)]
TailOf(cut) == WithTail(cut, TrimTo(cut.start, Len(hlist) + 1))

\* Where each line starts and ends.
Segments ==
  TailOf(FoldLeft(CutAt, [start |-> skip_line_start(1), done |-> << >>], find_breakpoints))

ItemsOf(segment) == [k \in 1 .. segment[2] - segment[1] |-> segment[1] + k - 1]
Letters(items) == Ascending({i \in items : Kind(i) = "char"})

\* A segment without a space that is too wide is cut between letters: before
\* what does not fit, and behind what is too wide alone.
EndLine(state) == [line |-> << >>, width |-> 0, lines |-> Append(state.lines, state.line)]
EndBefore(state, width) ==
  IF state.line # << >> /\ state.width + width > LineWidth THEN EndLine(state) ELSE state
EndWide(state) == IF state.width > LineWidth THEN EndLine(state) ELSE state
AddItem(state, i) ==
  [state EXCEPT !.line = @ \o Letters({i}), !.width = @ + hlist[i].width]
PushItem(state, i) == EndWide(AddItem(EndBefore(state, hlist[i].width), i))
EndList(state) == IF state.line = << >> THEN state.lines ELSE Append(state.lines, state.line)

push_unbreakable_lines(segment) ==
  EndList(FoldLeft(PushItem, [line |-> << >>, width |-> 0, lines |-> << >>], ItemsOf(segment)))

push_segment_lines(segment) ==
  IF \/ \E i \in segment[1] .. segment[2] - 1 : Kind(i) = "glue"
     \/ metrics_between("width", segment[1], segment[2]) <= LineWidth
    THEN <<Letters(segment[1] .. segment[2] - 1)>>
    ELSE push_unbreakable_lines(segment)

break_paragraph == FoldLeft(LAMBDA lines, segment : lines \o push_segment_lines(segment), << >>, Segments)

-----------------------------------------------------------------------------
Holds(lines, segments) ==
  /\ FlattenSeq(lines) = Letters(DOMAIN hlist)
  /\ \A segment \in ToSet(segments) : segment[1] <= segment[2]
  /\ Cardinality({n \in DOMAIN lines : lines[n] = << >>}) <= Len(ForcedBreaks)

\* The two passes agree on the breaks: every letter is on one line, in order, no
\* segment ends before it begins, and only a forced break makes an empty line.
LinesHoldEverything == Holds(break_paragraph, Segments)

\* The demerits of breaking a paragraph at some of its candidates.
CostOfAll(edges) == IF Impossible \in ToSet(edges) THEN Impossible ELSE FoldLeft(+, 0, edges)
PathCost(start, candidates, path, overfull) ==
  CostOfAll([k \in 1 .. Len(path) + 1 |->
           edge_cost(LineStart(start, candidates, IF k = 1 THEN 0 ELSE path[k - 1]),
                     IF k > Len(path) THEN Last(candidates) ELSE candidates[path[k]], overfull)])

Possible(start, candidates, overfull) ==
  {PathCost(start, candidates, Ascending(s), overfull) :
     s \in SUBSET (1 .. Len(candidates) - 1)} \ {Impossible}

IsBest(start, candidates, chosen, strict, loose) ==
  IF strict # {} THEN PathCost(start, candidates, chosen, FALSE) = Min(strict)
  ELSE loose # {} => PathCost(start, candidates, chosen, TRUE) = Min(loose)

SolvedBest(start, candidates) ==
  IsBest(start, candidates, solve_paragraph(start, candidates),
         Possible(start, candidates, FALSE), Possible(start, candidates, TRUE))

\* No other choice of breaks makes a better paragraph; a line that is too wide or
\* too loose is made only when every choice makes one.
BreaksAreBest ==
  \A paragraph \in ToSet(Paragraphs) :
    paragraph[1] < paragraph[2] =>
      SolvedBest(paragraph[1], collect_candidates(paragraph[1], paragraph[2]))
=============================================================================
