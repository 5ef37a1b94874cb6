------------------------------ MODULE BlockReuse ------------------------------
(***************************************************************************)
(* The rebuild of a partition after an edit (compile_job_service.rs:       *)
(* classify_block_reuse_decision, suffix_rebuild).  A checkpoint is kept   *)
(* behind every block; the blocks before the first difference are not      *)
(* typeset again: their finished pages come from the cache.                *)
(***************************************************************************)
EXTENDS PageBuilder

CONSTANTS
  BlockKinds,     \* subset of {"par", "float", "math", "tail"}
  FloatPlace,     \* the regions every float allows
  BlockHeights,   \* lines of a block; its text is known by them
  MaxBlocks,      \* BOUND on the blocks of the partition
  MaxRebuilds,    \* BOUND on the compiles
  EditsAtOnce     \* edits between two compiles

ASSUME ReuseAssumption ==
  /\ FloatPlace \subseteq {"here", "top", "bottom", "page"}
  /\ BlockKinds \subseteq {"par", "float", "math", "tail"}
  /\ MaxBlocks \in Nat /\ MaxRebuilds \in Nat /\ EditsAtOnce \in Nat

VARIABLES
  blocks,     \* the source of the partition now
  cached,     \* [blocks, pages]: source and pages of the last compile
  edits,      \* edits since then
  rebuilds

reuseVars == <<blocks, cached, edits, rebuilds>>

-----------------------------------------------------------------------------
(* A float is one item, any other block is one box per line.  "tail" is    *)
(* the last paragraph when no empty line ends it.                          *)

Block(i, bs) ==
  IF bs[i].kind = "float"
    THEN <<[kind |-> "float", id |-> <<i, bs[i], 1>>, h |-> bs[i].h, place |-> FloatPlace,
            defers |-> 0]>>
    ELSE [k \in 1 .. bs[i].h |-> [kind |-> "box", id |-> <<i, bs[i], k>>, h |-> 1]]

VList(bs, first, last) == FlattenSeq([j \in 1 .. last - first + 1 |-> Block(first + j - 1, bs)])

Full(bs) == Paginate(VList(bs, 1, Len(bs)), 0, << >>).pages

-----------------------------------------------------------------------------
(* What a checkpoint compares.  The node behind an empty line or a float   *)
(* has no place in the source: then it is the block AFTER the checkpoint.  *)

HasSpan(block) == block.kind \in {"math", "tail"}

After(i, bs) == IF i = Len(bs) THEN << >> ELSE <<bs[i + 1]>>

\* MUTANT: the block before the checkpoint is compared in any case.
ComparesOwn(i) == cached.blocks[i] # blocks[i]

Differs(i) ==
  IF HasSpan(blocks[i]) THEN cached.blocks[i] # blocks[i]
                        ELSE After(i, cached.blocks) # After(i, blocks)

\* The node behind a block has a place in the source in one of the two only.
Mixed(i) == HasSpan(cached.blocks[i]) # HasSpan(blocks[i])

FirstDifference == SelectInSeq([i \in DOMAIN blocks |-> i], LAMBDA i : Mixed(i) \/ Differs(i))

\* The checkpoint to go on from; 0: typeset the whole partition.
RestartPoint(first) == IF Len(cached.blocks) # Len(blocks) \/ first = 0 \/ Mixed(first) THEN 0 ELSE first
Affected == RestartPoint(FirstDifference)

-----------------------------------------------------------------------------
FloatsOn(pages) ==
  FoldLeft(LAMBDA n, page : n + Cardinality({x \in page : x.id[2].kind = "float"}), 0, pages)

FloatsIn(bs) == Cardinality({i \in DOMAIN bs : bs[i].kind = "float"})

\* The builder behind block i of the given source, as the checkpoint says.
Behind(i, bs) == Snapshot(VList(bs, 1, i))

\* The pages from checkpoint i on, as the builder left it in the last compile.
RestartFrom(left, i) == Paginate(VList(blocks, i + 1, Len(blocks)), left.used, left.queue)
Restart(i) == RestartFrom(Behind(i, cached.blocks), i)

OpenPage(s) == IF Rendered(s.page) THEN <<LaidOut(s.page, s.start)>> ELSE << >>

Join(finished, open, rest) == JoinPages(finished \o open, [rest EXCEPT !.continued = @ /\ open # << >>])

\* Finished pages from the cache, the open page from the blocks as they are now.
Joined(i) ==
  Join(SubSeq(cached.pages, 1, Len(Behind(i, cached.blocks).pages)), OpenPage(Behind(i, blocks)), Restart(i))

\* No float is lost, or the partition is typeset again.
Complete(pages) == IF FloatsOn(pages) = FloatsIn(blocks) THEN pages ELSE Full(blocks)

RebuiltFrom(i) ==
  IF i = 0 THEN Full(blocks)
  ELSE IF Len(Behind(i, cached.blocks).pages) > Len(cached.pages) THEN Full(blocks)
  ELSE Complete(Joined(i))

Rebuilt == IF cached.blocks = blocks THEN cached.pages ELSE RebuiltFrom(Affected)

-----------------------------------------------------------------------------
BlockOf == [kind : BlockKinds, h : BlockHeights]

Partitions ==
  {bs \in UNION {[1 .. n -> BlockOf] : n \in 1 .. MaxBlocks} :
     /\ bs[1].kind = "par"        \* the heading
     /\ \A i \in DOMAIN bs : bs[i].kind = "tail" => i = Len(bs)}

ReuseInit ==
  /\ blocks \in Partitions
  /\ cached = [blocks |-> blocks, pages |-> Full(blocks)]
  /\ edits = 0
  /\ rebuilds = 0

Edited(bs) ==
  /\ edits < EditsAtOnce
  /\ rebuilds < MaxRebuilds
  /\ bs \in Partitions /\ bs # blocks
  /\ blocks' = bs
  /\ edits' = edits + 1
  /\ UNCHANGED <<cached, rebuilds>>

EditBlock == \E i \in DOMAIN blocks, block \in BlockOf : Edited([blocks EXCEPT ![i] = block])
InsertBlock ==
  \E i \in 1 .. Len(blocks) + 1, block \in BlockOf :
    Len(blocks) < MaxBlocks /\ Edited(InsertAt(blocks, i, block))
RemoveBlock == \E i \in DOMAIN blocks : Len(blocks) > 1 /\ Edited(RemoveAt(blocks, i))

Rebuild ==
  /\ edits > 0
  /\ cached' = [blocks |-> blocks, pages |-> Rebuilt]
  /\ edits' = 0
  /\ rebuilds' = rebuilds + 1
  /\ UNCHANGED blocks

ReuseNext == EditBlock \/ InsertBlock \/ RemoveBlock \/ Rebuild

ReuseSpec == ReuseInit /\ [][ReuseNext]_reuseVars

-----------------------------------------------------------------------------
\* What requirements.md asks of an incremental compile: after any history of
\* edits and rebuilds the pages are those of a compile of the whole partition,
\* although only the blocks behind the first difference were set again.
RebuildIsFull == cached.pages = Full(cached.blocks)
=============================================================================
