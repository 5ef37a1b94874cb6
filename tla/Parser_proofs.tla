----------------------------- MODULE Parser_proofs -----------------------------
(***************************************************************************)
(* For any registers, any values and any nesting of groups, RegisterStore  *)
(* reads as a stack of environments.  And for any numbers and nesting of   *)
(* conditionals: as long as no conditional made by \newif is skipped, the  *)
(* parser executes the text that nested conditionals select, and so        *)
(* implements RegisterScopes.                                              *)
(***************************************************************************)
EXTENDS Parser, SequenceTheorems, TLAPS

-----------------------------------------------------------------------------
(* Registers.                                                              *)

(* A save turns the environment inside its group into the one outside.     *)
Layered ==
    \A i \in 1..Len(saves) : \A n \in Names :
      scopes[i][n] = IF n \in DOMAIN saves[i] THEN saves[i][n] ELSE scopes[i + 1][n]

IInv == TypeOK /\ SameDepth /\ ReadsAsScoped /\ Layered

USE DefaultAssumption, MaxGroupsAssumption

-----------------------------------------------------------------------------
(* The operations on one group's saves keep their type.                    *)
LEMMA AFunctionIsASave ==
    ASSUME NEW S \in SUBSET Names, NEW f \in [S -> Values]
    PROVE  f \in GroupSave
  BY DEF GroupSave

LEMMA SavesTyped ==
    ASSUME NEW save \in GroupSave, NEW n \in Names, registers \in [Names -> Values]
    PROVE  /\ Saved(save, n) \in GroupSave
           /\ Forgotten(save, n) \in GroupSave
           /\ Restored(save) \in [Names -> Values]
<1>1. PICK S \in SUBSET Names : save \in [S -> Values]
  BY DEF GroupSave
<1>2. Saved(save, n) \in GroupSave
  <2>1. Saved(save, n) \in [S \cup {n} -> Values]
    BY <1>1 DEF Saved
  <2>2. S \cup {n} \in SUBSET Names
    OBVIOUS
  <2> QED
    BY <2>1, <2>2, AFunctionIsASave
<1>3. Forgotten(save, n) \in GroupSave
  <2>1. Forgotten(save, n) \in [S \ {n} -> Values]
    BY <1>1 DEF Forgotten
  <2>2. S \ {n} \in SUBSET Names
    OBVIOUS
  <2> QED
    BY <2>1, <2>2, AFunctionIsASave
<1>4. Restored(save) \in [Names -> Values]
  BY <1>1 DEF Restored
<1> QED
  BY <1>2, <1>3, <1>4

LEMMA NoSaveTyped == NoSave \in GroupSave
<1>1. NoSave \in [{} -> Values]
  BY DEF NoSave
<1>2. {} \in SUBSET Names
  OBVIOUS
<1> QED
  BY <1>1, <1>2, AFunctionIsASave

-----------------------------------------------------------------------------
(* In the first state no group is open.                                    *)
LEMMA InitIInv == Init => IInv
<1> SUFFICES ASSUME Init PROVE IInv
  OBVIOUS
<1> USE DEF Init, StoreInit, Reference!Init
<1>1. TypeOK
  BY DEF TypeOK, Reference!ScopesOK, Reference!Environment
<1>2. SameDepth /\ ReadsAsScoped
  BY DEF SameDepth, ReadsAsScoped
<1>3. Layered
  <2>1. Len(saves) = 0
    OBVIOUS
  <2>2. 1..0 = {}
    OBVIOUS
  <2> QED
    BY <2>1, <2>2 DEF Layered
<1> QED
  BY <1>1, <1>2, <1>3 DEF IInv

(* A new group has saved nothing, and its environment is a copy.           *)
LEMMA PushKeepsIInv == IInv /\ PushGroup => IInv'
<1> SUFFICES ASSUME IInv, PushGroup PROVE IInv'
  OBVIOUS
<1> USE DEF IInv, PushGroup, Push, Reference!PushGroup, Reference!Top, SameDepth
<1>1. TypeOK'
  <2>1. saves' \in Seq(GroupSave)
    BY NoSaveTyped DEF TypeOK
  <2>2. scopes' \in Seq(Reference!Environment) /\ scopes' # <<>>
    <3>1. scopes[Len(scopes)] \in Reference!Environment
      BY DEF TypeOK, Reference!ScopesOK
    <3> QED
      BY <3>1 DEF TypeOK, Reference!ScopesOK
  <2> QED
    BY <2>1, <2>2 DEF TypeOK, Reference!ScopesOK
<1>2. SameDepth' /\ ReadsAsScoped'
  BY DEF ReadsAsScoped, TypeOK, Reference!ScopesOK
<1>3. Layered'
  <2> SUFFICES ASSUME NEW i \in 1..Len(saves'), NEW n \in Names
               PROVE scopes'[i][n] = IF n \in DOMAIN saves'[i]
                                       THEN saves'[i][n] ELSE scopes'[i + 1][n]
    BY DEF Layered
  <2>1. CASE i = Len(saves) + 1
    BY <2>1 DEF TypeOK, Reference!ScopesOK, NoSave
  <2>2. CASE i \in 1..Len(saves)
    BY <2>2 DEF Layered, TypeOK, Reference!ScopesOK
  <2> QED
    BY <2>1, <2>2 DEF TypeOK
<1> QED
  BY <1>1, <1>2, <1>3

LEMMA WithoutLast ==
    ASSUME NEW S, NEW q \in Seq(S), NEW j \in Nat, j <= Len(q)
    PROVE  /\ SubSeq(q, 1, j) \in Seq(S)
           /\ Len(SubSeq(q, 1, j)) = j
           /\ \A i \in 1..j : SubSeq(q, 1, j)[i] = q[i]
  OBVIOUS

(* What the group saved gives back the environment outside it.             *)
LEMMA PopKeepsIInv == IInv /\ PopGroup => IInv'
<1> SUFFICES ASSUME IInv, PopGroup PROVE IInv'
  OBVIOUS
<1> USE DEF IInv, PopGroup, Pop, Reference!PopGroup, SameDepth
<1>1. CASE saves = <<>>
  <2>1. UNCHANGED vars
    BY <1>1 DEF vars, storeVars
  <2> QED
    BY <2>1 DEF vars, TypeOK, Reference!ScopesOK, ReadsAsScoped, Layered
<1>2. CASE saves # <<>>
  <2> DEFINE k == Len(saves)
  <2>1. /\ k \in Nat \ {0} /\ Len(scopes) = k + 1
        /\ saves[k] \in GroupSave
        /\ saves' = SubSeq(saves, 1, k - 1)
        /\ scopes' = SubSeq(scopes, 1, k)
        /\ registers' = Restored(saves[k])
    BY <1>2 DEF TypeOK, Reference!ScopesOK
  <2>2. /\ Len(saves') = k - 1 /\ \A i \in 1..(k - 1) : saves'[i] = saves[i]
        /\ Len(scopes') = k /\ \A i \in 1..k : scopes'[i] = scopes[i]
    <3>1. k - 1 \in Nat /\ k - 1 <= Len(saves) /\ k \in Nat /\ k <= Len(scopes)
      BY <2>1
    <3>2. saves \in Seq(GroupSave) /\ scopes \in Seq(Reference!Environment)
      BY DEF TypeOK, Reference!ScopesOK
    <3> HIDE DEF k
    <3> QED
      BY <2>1, <3>1, <3>2, WithoutLast
  <2>3. TypeOK'
    <3>1. registers' \in [Names -> Values]
      BY <2>1 DEF TypeOK, Restored, GroupSave
    <3>2. saves' \in Seq(GroupSave)
      BY <2>1 DEF TypeOK
    <3>3. scopes' \in Seq(Reference!Environment) /\ scopes' # <<>>
      <4>1. scopes' \in Seq(Reference!Environment)
        BY <2>1 DEF TypeOK, Reference!ScopesOK
      <4>2. Len(scopes') # 0
        BY <2>1, <2>2
      <4> QED
        BY <4>1, <4>2, EmptySeq
    <3> QED
      BY <3>1, <3>2, <3>3 DEF TypeOK, Reference!ScopesOK
  <2>4. ReadsAsScoped'
    <3>1. registers = scopes[k + 1] /\ scopes[k] \in [Names -> Values]
      BY <2>1 DEF ReadsAsScoped, TypeOK, Reference!ScopesOK, Reference!Environment
    <3>2. \A n \in Names : Restored(saves[k])[n] = scopes[k][n]
      BY <2>1, <3>1 DEF Layered, Restored
    <3> QED
      BY <2>1, <2>2, <3>1, <3>2 DEF ReadsAsScoped, Restored
  <2>5. Layered'
    <3> SUFFICES ASSUME NEW i \in 1..(k - 1), NEW n \in Names
                 PROVE scopes'[i][n] = IF n \in DOMAIN saves'[i]
                                         THEN saves'[i][n] ELSE scopes'[i + 1][n]
      BY <2>2 DEF Layered
    <3>1. saves'[i] = saves[i] /\ scopes'[i] = scopes[i] /\ scopes'[i + 1] = scopes[i + 1]
      BY <2>1, <2>2
    <3> QED
      BY <2>1, <3>1 DEF Layered
  <2> QED
    BY <2>1, <2>2, <2>3, <2>4, <2>5
<1> QED
  BY <1>1, <1>2

(* The first local assignment saves what the environment outside still     *)
(* has; later ones change neither.                                         *)
LEMMA LocalKeepsIInv ==
    ASSUME IInv, NEW n \in Names, NEW v \in Values, AssignLocal(n, v)
    PROVE  IInv'
<1> USE DEF IInv, AssignLocal, SetLocal, Reference!DefineLocal, SameDepth
<1> DEFINE k == Len(saves)
<1>1. /\ k \in Nat /\ Len(scopes) = k + 1
      /\ \A i \in 1..(k + 1) : scopes[i] \in [Names -> Values]
      /\ registers' = [registers EXCEPT ![n] = v]
      /\ scopes' = [scopes EXCEPT ![k + 1] = [scopes[k + 1] EXCEPT ![n] = v]]
  BY DEF TypeOK, Reference!ScopesOK, Reference!Environment
<1>2. /\ scopes'[k + 1] = [scopes[k + 1] EXCEPT ![n] = v]
      /\ \A i \in 1..k : scopes'[i] = scopes[i]
      /\ Len(scopes') = k + 1
      /\ scopes' \in Seq([Names -> Values])
  BY <1>1 DEF TypeOK, Reference!ScopesOK, Reference!Environment
<1>3. /\ saves' \in Seq(GroupSave) /\ Len(saves') = k
      /\ k > 0 => saves'[k] = Saved(saves[k], n)
      /\ \A i \in 1..(k - 1) : saves'[i] = saves[i]
  <2>1. CASE saves = <<>>
    BY <2>1 DEF TypeOK
  <2>2. CASE saves # <<>>
    <3>1. saves[k] \in GroupSave
      BY <2>2 DEF TypeOK
    <3>2. Saved(saves[k], n) \in GroupSave
      BY <3>1, SavesTyped DEF TypeOK
    <3> QED
      BY <2>2, <3>2 DEF TypeOK
  <2> QED
    BY <2>1, <2>2
<1>4. TypeOK'
  BY <1>1, <1>2, <1>3 DEF TypeOK, Reference!ScopesOK, Reference!Environment
<1>5. SameDepth'
  BY <1>1, <1>2, <1>3
<1>6. ReadsAsScoped'
  BY <1>1, <1>2 DEF ReadsAsScoped
<1>7. Layered'
  <2> SUFFICES ASSUME NEW i \in 1..k, NEW m \in Names
               PROVE scopes'[i][m] = IF m \in DOMAIN saves'[i]
                                       THEN saves'[i][m] ELSE scopes'[i + 1][m]
    BY <1>3 DEF Layered
  <2>1. CASE i < k
    BY <1>1, <1>2, <1>3, <2>1 DEF Layered
  <2>2. CASE i = k
    <3>1. scopes[k][m] = IF m \in DOMAIN saves[k]
                           THEN saves[k][m] ELSE scopes[k + 1][m]
      BY <2>2 DEF Layered
    <3>2. saves'[k] = Saved(saves[k], n)
      BY <1>1, <1>3, <2>2
    <3>3. scopes'[k] = scopes[k] /\ registers = scopes[k + 1]
      BY <1>1, <1>2, <2>2 DEF ReadsAsScoped
    <3>4. CASE m = n
      BY <2>2, <3>1, <3>2, <3>3, <3>4 DEF Saved
    <3>5. CASE m # n
      <4>1. scopes'[k + 1][m] = scopes[k + 1][m]
        BY <1>1, <1>2, <3>5
      <4> QED
        BY <2>2, <3>1, <3>2, <3>3, <3>5, <4>1 DEF Saved
    <3> QED
      BY <3>4, <3>5
  <2>3. k \in Nat
    BY <1>1
  <2>4. i < k \/ i = k
    <3> HIDE DEF k, IInv, AssignLocal
    <3> QED
      BY <2>3
  <2> QED
    BY <2>1, <2>2, <2>4
<1> QED
  BY <1>4, <1>5, <1>6, <1>7

(* After a global assignment all environments agree on the register and no *)
(* group would restore it.                                                 *)
LEMMA GlobalKeepsIInv ==
    ASSUME IInv, NEW n \in Names, NEW v \in Values, AssignGlobal(n, v)
    PROVE  IInv'
<1> USE DEF IInv, AssignGlobal, SetGlobal, Reference!DefineGlobal, SameDepth
<1> DEFINE k == Len(saves)
<1>1. /\ k \in Nat /\ Len(scopes) = k + 1
      /\ \A i \in 1..(k + 1) : scopes[i] \in [Names -> Values]
      /\ \A i \in 1..k : saves[i] \in GroupSave
  BY DEF TypeOK, Reference!ScopesOK, Reference!Environment
<1>2. /\ scopes' = [i \in 1..(k + 1) |-> [scopes[i] EXCEPT ![n] = v]]
      /\ saves' = [i \in 1..k |-> Forgotten(saves[i], n)]
  BY <1>1 DEF ForgetEverywhere
<1>3. \A i \in 1..k : Forgotten(saves[i], n) \in GroupSave
  BY <1>1, SavesTyped DEF TypeOK
<1>4. saves' \in Seq(GroupSave) /\ Len(saves') = k
  <2> DEFINE e == [i \in 1..k |-> Forgotten(saves[i], n)]
  <2>1. e \in [1..k -> GroupSave]
    BY <1>3
  <2>2. e \in Seq(GroupSave) /\ Len(e) = k
    <3> HIDE DEF e, k
    <3> QED
      BY <1>1, <2>1
  <2> QED
    BY <1>2, <2>2
<1>5. scopes' \in Seq([Names -> Values]) /\ Len(scopes') = k + 1
  BY <1>1, <1>2
<1>6. TypeOK'
  BY <1>1, <1>4, <1>5 DEF TypeOK, Reference!ScopesOK, Reference!Environment
<1>7. ReadsAsScoped'
  BY <1>1, <1>2, <1>5 DEF ReadsAsScoped
<1>8. Layered'
  <2> SUFFICES ASSUME NEW i \in 1..k, NEW m \in Names
               PROVE scopes'[i][m] = IF m \in DOMAIN saves'[i]
                                       THEN saves'[i][m] ELSE scopes'[i + 1][m]
    BY <1>4 DEF Layered
  <2>1. /\ scopes'[i] = [scopes[i] EXCEPT ![n] = v]
        /\ scopes'[i + 1] = [scopes[i + 1] EXCEPT ![n] = v]
        /\ saves'[i] = Forgotten(saves[i], n)
    <3>1. i \in 1..(k + 1) /\ i + 1 \in 1..(k + 1)
      BY <1>1
    <3> HIDE DEF k, IInv, AssignGlobal
    <3> QED
      BY <1>2, <3>1
  <2>2. scopes[i][m] = IF m \in DOMAIN saves[i]
                         THEN saves[i][m] ELSE scopes[i + 1][m]
    BY DEF Layered
  <2>3. scopes[i] \in [Names -> Values] /\ scopes[i + 1] \in [Names -> Values]
    BY <1>1
  <2> QED
    BY <2>1, <2>2, <2>3 DEF Forgotten
<1> QED
  BY <1>1, <1>4, <1>5, <1>6, <1>7, <1>8

-----------------------------------------------------------------------------
(* Every state satisfies the inductive invariant.                          *)
THEOREM Inductive == Spec => []IInv
<1>1. IInv /\ [Next]_vars => IInv'
  <2> SUFFICES ASSUME IInv, [Next]_vars PROVE IInv'
    OBVIOUS
  <2>1. CASE PushGroup
    BY <2>1, PushKeepsIInv
  <2>2. CASE PopGroup
    BY <2>2, PopKeepsIInv
  <2>3. ASSUME NEW n \in Names, NEW v \in Values,
               AssignLocal(n, v) \/ AssignGlobal(n, v)
        PROVE IInv'
    BY <2>3, LocalKeepsIInv, GlobalKeepsIInv
  <2>4. CASE UNCHANGED vars
    BY <2>4 DEF vars, IInv, TypeOK, Reference!ScopesOK, SameDepth, ReadsAsScoped, Layered
  <2> QED
    BY <2>1, <2>2, <2>3, <2>4 DEF Next
<1> QED
  BY <1>1, InitIInv, PTL DEF Spec

(* After any sequence of group openings, group ends, local and global      *)
(* assignments, every register has the value TeX's scoping gives it.       *)
THEOREM RegistersAreScoped == Spec => [](TypeOK /\ SameDepth /\ ReadsAsScoped)
<1>1. IInv => TypeOK /\ SameDepth /\ ReadsAsScoped
  BY DEF IInv
<1> QED
  BY <1>1, Inductive, PTL

-----------------------------------------------------------------------------
(* Conditionals.                                                           *)

(* A frame knows of a conditional what is still needed to select.          *)
Matches(f, b) ==
    /\ f.kind = b.kind
    /\ f.executing <=> Nesting!Selected(b)
    /\ f.elseSeen <=> b.elses # 0
    /\ f.kind = "if" => b.branch = 0 /\ b.choice \in {0, -1}
    /\ f.kind = "case" /\ b.elses = 0 =>
         f.target = b.choice /\ f.current = b.branch /\ (f.matched <=> b.choice \in 0..b.branch)

(* The frames are the outer conditionals, all but the last in a selected   *)
(* branch; the counted ones are inside a branch that is not.               *)
Aligned ==
    /\ Len(branches) = Len(ifs) + depth
    /\ \A i \in 1..Len(ifs) : Matches(ifs[i], branches[i])
    /\ \A i \in 1..Len(ifs) : i < Len(ifs) => ifs[i].executing
    /\ depth > 0 => IsSkipping

SkipInv == IfsOK /\ Nesting!BranchesOK /\ Aligned

USE DEF IfsOK, Nesting!BranchesOK

-----------------------------------------------------------------------------
LEMMA SkipInvSelects == SkipInv => SkipsAsNested
<1> SUFFICES ASSUME SkipInv PROVE SkipsAsNested
  OBVIOUS
<1> USE DEF SkipInv, Aligned
<1>1. CASE IsSkipping
  <2>1. Len(ifs) \in 1..Len(branches) /\ ~ifs[Len(ifs)].executing
    BY <1>1 DEF IsSkipping, TopIf
  <2>2. ~Nesting!Selected(branches[Len(ifs)])
    BY <2>1 DEF Matches
  <2> QED
    BY <1>1, <2>1, <2>2 DEF SkipsAsNested, Nesting!AllSelected
<1>2. CASE ~IsSkipping
  <2>1. Len(branches) = Len(ifs)
    BY <1>2
  <2>2. \A i \in 1..Len(ifs) : ifs[i].executing
    BY <1>2 DEF IsSkipping, TopIf
  <2>3. \A i \in 1..Len(branches) : Nesting!Selected(branches[i])
    BY <2>1, <2>2 DEF Matches
  <2> QED
    BY <1>2, <2>3 DEF SkipsAsNested, Nesting!AllSelected
<1> QED
  BY <1>1, <1>2

LEMMA InitSkipInv == ParserInit => SkipInv
<1> SUFFICES ASSUME ParserInit PROVE SkipInv
  OBVIOUS
<1>1. ifs = <<>> /\ depth = 0 /\ branches = <<>>
  BY DEF ParserInit, IfsInit, Nesting!Init
<1>2. Len(ifs) = 0 /\ Len(branches) = 0 /\ 1..0 = {}
  BY <1>1
<1> QED
  BY <1>1, <1>2 DEF SkipInv, Aligned

(* A new conditional gets a frame, or one more is counted.                 *)
LEMMA OpenKeepsSkipInv ==
    ASSUME SkipInv, NEW f \in Frame, NEW b \in Nesting!OpenIf, Matches(f, b),
           OpenFrame(f), branches' = Append(branches, b)
    PROVE  SkipInv'
<1> USE DEF SkipInv, Aligned, OpenFrame
<1>1. CASE IsSkipping
  <2>1. ifs' = ifs /\ depth' = depth + 1 /\ IsSkipping'
    BY <1>1 DEF IsSkipping, TopIf
  <2>2. \A i \in 1..Len(ifs) : branches'[i] = branches[i]
    OBVIOUS
  <2>3. branches' \in Seq(Nesting!OpenIf) /\ Len(branches') = Len(ifs) + depth'
    BY <2>1
  <2>4. \A i \in 1..Len(ifs) : Matches(ifs[i], branches[i]) /\ (i < Len(ifs) => ifs[i].executing)
    OBVIOUS
  <2> HIDE DEF OpenFrame
  <2> QED
    BY <2>1, <2>2, <2>3, <2>4
<1>2. CASE ~IsSkipping
  <2>1. /\ depth' = 0 /\ depth = 0 /\ ifs' = Append(ifs, f)
        /\ Len(ifs') = Len(ifs) + 1 /\ Len(branches') = Len(ifs) + 1
    BY <1>2
  <2>2. \A i \in 1..Len(ifs) : ifs'[i] = ifs[i] /\ branches'[i] = branches[i] /\ ifs[i].executing
    BY <1>2, <2>1 DEF IsSkipping, TopIf
  <2>3. ifs'[Len(ifs) + 1] = f /\ branches'[Len(ifs) + 1] = b
    BY <2>1
  <2>4. \A i \in 1..Len(ifs') : i = Len(ifs) + 1 \/ i \in 1..Len(ifs)
    BY <2>1
  <2> QED
    BY <2>1, <2>2, <2>3, <2>4
<1> QED
  BY <1>1, <1>2

(* A token changes the last conditional: of a frame and of its reference   *)
(* alike, or only of the reference if that is a counted one.               *)
LEMMA ChangeKeepsSkipInv ==
    ASSUME SkipInv, ifs # <<>>, depth = 0,
           NEW f \in Frame, NEW b \in Nesting!OpenIf, Matches(f, b),
           ifs' = [ifs EXCEPT ![Len(ifs)] = f], depth' = depth,
           branches' = [branches EXCEPT ![Len(branches)] = b]
    PROVE  SkipInv'
<1> USE DEF SkipInv, Aligned
<1>1. /\ Len(branches) = Len(ifs) /\ Len(ifs) \in Nat \ {0}
      /\ Len(ifs') = Len(ifs) /\ Len(branches') = Len(ifs)
  OBVIOUS
<1>2. ifs'[Len(ifs)] = f /\ branches'[Len(ifs)] = b
  BY <1>1
<1>3. \A i \in 1..Len(ifs) :
        i < Len(ifs) => ifs'[i] = ifs[i] /\ branches'[i] = branches[i]
  BY <1>1
<1>4. ifs' \in Seq(Frame) /\ branches' \in Seq(Nesting!OpenIf)
  BY <1>1
<1> QED
  BY <1>1, <1>2, <1>3, <1>4

LEMMA CountedKeepsSkipInv ==
    ASSUME SkipInv, depth > 0, UNCHANGED ifVars, NEW b \in Nesting!OpenIf,
           branches' = [branches EXCEPT ![Len(branches)] = b]
    PROVE  SkipInv'
<1> USE DEF SkipInv, Aligned, ifVars
<1>1. Len(branches') = Len(branches) /\ branches' \in Seq(Nesting!OpenIf)
  OBVIOUS
<1>2. \A i \in 1..Len(ifs) : branches'[i] = branches[i]
  OBVIOUS
<1>3. IsSkipping'
  BY DEF IsSkipping, TopIf
<1> QED
  BY <1>1, <1>2, <1>3

-----------------------------------------------------------------------------
(* What \else and \or make of a conditional and of its frame.             *)
LEMMA ChangesTyped ==
    ASSUME NEW b \in Nesting!OpenIf
    PROVE  Nesting!ElseOf(b) \in Nesting!OpenIf /\ Nesting!OrOf(b) \in Nesting!OpenIf
<1>1. [b EXCEPT !.elses = 1] \in Nesting!OpenIf
  BY DEF Nesting!OpenIf
<1>2. [b EXCEPT !.branch = b.branch + 1] \in Nesting!OpenIf
  BY DEF Nesting!OpenIf
<1>3. Nesting!Late(b) \in Nesting!OpenIf
  BY DEF Nesting!OpenIf, Nesting!Late
<1> QED
  BY <1>1, <1>2, <1>3 DEF Nesting!ElseOf, Nesting!OrOf

LEMMA FrameAfterElse ==
    ASSUME NEW f \in Frame
    PROVE  /\ AfterElse(f) \in Frame
           /\ AfterElse(f).kind = f.kind /\ AfterElse(f).elseSeen
           /\ AfterElse(f).executing <=>
                ~f.elseSeen /\ IF f.kind = "if" THEN ~f.executing ELSE ~f.matched
<1> DEFINE e == ~f.elseSeen /\ IF f.kind = "if" THEN ~f.executing ELSE ~f.matched
<1>1. e \in BOOLEAN
  BY DEF Frame
<1>2. AfterElse(f) = [f EXCEPT !.elseSeen = TRUE, !.executing = e]
  BY DEF AfterElse
<1>3. SUFFICES /\ AfterElse(f) \in Frame
               /\ AfterElse(f).kind = f.kind /\ AfterElse(f).elseSeen = TRUE
               /\ AfterElse(f).executing = e
  OBVIOUS
<1> HIDE DEF e
<1> QED
  BY <1>1, <1>2 DEF Frame

LEMMA FrameAfterOr ==
    ASSUME NEW f \in Frame, ~f.elseSeen
    PROVE  LET hit == ~f.matched /\ f.target = f.current + 1
           IN /\ AfterOr(f) \in Frame
              /\ AfterOr(f).kind = f.kind /\ AfterOr(f).elseSeen = f.elseSeen
              /\ AfterOr(f).target = f.target /\ AfterOr(f).current = f.current + 1
              /\ AfterOr(f).matched <=> f.matched \/ hit
              /\ AfterOr(f).executing <=> hit
<1> DEFINE e == ~f.matched /\ f.target = f.current + 1
           m == f.matched \/ e
           c == f.current + 1
<1>1. e \in BOOLEAN /\ m \in BOOLEAN /\ c \in Nat
  BY DEF Frame
<1>2. AfterOr(f) = [f EXCEPT !.current = c, !.matched = m, !.executing = e]
  BY DEF AfterOr
<1>3. SUFFICES /\ AfterOr(f) \in Frame
               /\ AfterOr(f).kind = f.kind /\ AfterOr(f).elseSeen = f.elseSeen
               /\ AfterOr(f).target = f.target /\ AfterOr(f).current = c
               /\ AfterOr(f).matched = m /\ AfterOr(f).executing = e
  OBVIOUS
<1> HIDE DEF e, m, c
<1> QED
  BY <1>1, <1>2 DEF Frame

LEMMA ElseMatches ==
    ASSUME NEW f \in Frame, NEW b \in Nesting!OpenIf, Matches(f, b)
    PROVE  AfterElse(f) \in Frame /\ Matches(AfterElse(f), Nesting!ElseOf(b))
<1>1. b.kind \in {"if", "case"} /\ b.branch \in Nat /\ b.choice \in Int /\ b.elses \in 0..2
  BY DEF Nesting!OpenIf
<1>2. CASE b.elses = 0
  <2>1. /\ Nesting!ElseOf(b).kind = b.kind /\ Nesting!ElseOf(b).choice = b.choice
        /\ Nesting!ElseOf(b).branch = b.branch /\ Nesting!ElseOf(b).elses = 1
    BY <1>2 DEF Nesting!ElseOf, Nesting!OpenIf
  <2>2. /\ ~f.elseSeen
        /\ b.kind = "if" => (f.executing <=> b.choice \in 0..b.branch)
        /\ b.kind = "case" => (f.matched <=> b.choice \in 0..b.branch)
    BY <1>1, <1>2 DEF Matches, Nesting!Selected
  <2>3. f.kind = b.kind /\ (f.kind = "if" => b.branch = 0 /\ b.choice \in {0, -1})
    BY DEF Matches
  <2>4. AfterElse(f).executing <=> b.choice \notin 0..b.branch
    BY <1>1, <2>2, <2>3, FrameAfterElse
  <2> QED
    BY <2>1, <2>3, <2>4, FrameAfterElse DEF Matches, Nesting!Selected
<1>3. CASE b.elses # 0
  <2>1. /\ Nesting!ElseOf(b).kind = b.kind /\ Nesting!ElseOf(b).choice = b.choice
        /\ Nesting!ElseOf(b).branch = b.branch /\ Nesting!ElseOf(b).elses = 2
    BY <1>3 DEF Nesting!ElseOf, Nesting!Late, Nesting!OpenIf
  <2>2. f.elseSeen /\ f.kind = b.kind /\ (f.kind = "if" => b.branch = 0 /\ b.choice \in {0, -1})
    BY <1>3 DEF Matches
  <2> QED
    BY <2>1, <2>2, FrameAfterElse DEF Matches, Nesting!Selected
<1> QED
  BY <1>2, <1>3

LEMMA OrMatches ==
    ASSUME NEW f \in Frame, NEW b \in Nesting!OpenIf, Matches(f, b), f.kind = "case"
    PROVE  AfterOr(f) \in Frame /\ Matches(AfterOr(f), Nesting!OrOf(b))
<1>1. b.kind = "case" /\ b.branch \in Nat /\ b.choice \in Int /\ b.elses \in 0..2
  BY DEF Nesting!OpenIf, Matches
<1>2. CASE b.elses = 0
  <2>1. /\ Nesting!OrOf(b).kind = b.kind /\ Nesting!OrOf(b).elses = 0 /\ Nesting!OrOf(b).choice = b.choice
        /\ Nesting!OrOf(b).branch = b.branch + 1
    BY <1>2 DEF Nesting!OrOf, Nesting!OpenIf
  <2>2. /\ f.target = b.choice /\ f.current = b.branch /\ ~f.elseSeen
        /\ f.matched <=> b.choice \in 0..b.branch
    BY <1>1, <1>2 DEF Matches
  <2>3. /\ AfterOr(f).executing <=> b.choice = b.branch + 1
        /\ AfterOr(f).matched <=> b.choice \in 0..(b.branch + 1)
        /\ AfterOr(f).target = b.choice /\ AfterOr(f).current = b.branch + 1
        /\ AfterOr(f).kind = "case" /\ ~AfterOr(f).elseSeen /\ AfterOr(f) \in Frame
    BY <1>1, <2>2, FrameAfterOr
  <2> QED
    BY <1>1, <2>1, <2>3 DEF Matches, Nesting!Selected
<1>3. CASE b.elses # 0
  <2>1. /\ Nesting!OrOf(b).kind = b.kind /\ Nesting!OrOf(b).elses = 2
    BY <1>3 DEF Nesting!OrOf, Nesting!Late, Nesting!OpenIf
  <2>2. f.elseSeen
    BY <1>3 DEF Matches
  <2>3. AfterOr(f) = [f EXCEPT !.executing = FALSE]
    BY <2>2 DEF AfterOr
  <2>4. /\ AfterOr(f) \in Frame /\ AfterOr(f).executing = FALSE
        /\ AfterOr(f).kind = f.kind /\ AfterOr(f).elseSeen = f.elseSeen
    BY <2>3 DEF Frame
  <2> QED
    BY <1>1, <2>1, <2>2, <2>4 DEF Matches, Nesting!Selected
<1> QED
  BY <1>2, <1>3

-----------------------------------------------------------------------------
(* The tokens, one by one.                                                 *)
LEMMA IfKeepsSkipInv ==
    ASSUME SkipInv, NEW c \in BOOLEAN, OpenFrame(NewIf(c)), Nesting!OpenTruth(c)
    PROVE  SkipInv'
<1> DEFINE b == [kind |-> "if", choice |-> IF c THEN 0 ELSE -1, branch |-> 0, elses |-> 0]
<1>1. NewIf(c) \in Frame /\ b \in Nesting!OpenIf
  BY DEF NewIf, Frame, Nesting!OpenIf
<1>2. Matches(NewIf(c), b)
  BY DEF Matches, NewIf, Nesting!Selected
<1>3. branches' = Append(branches, b)
  BY DEF Nesting!OpenTruth, Nesting!Open
<1> QED
  BY <1>1, <1>2, <1>3, OpenKeepsSkipInv

LEMMA IfCaseKeepsSkipInv ==
    ASSUME SkipInv, NEW v \in CaseValues, IfCase(v)
    PROVE  SkipInv'
<1> DEFINE b == [kind |-> "case", choice |-> v, branch |-> 0, elses |-> 0]
<1>1. v \in Int
  BY CaseValuesAssumption
<1>2. NewCase(v) \in Frame /\ b \in Nesting!OpenIf
  BY <1>1 DEF NewCase, Frame, Nesting!OpenIf
<1>3. Matches(NewCase(v), b)
  <2>1. /\ NewCase(v).kind = "case" /\ NewCase(v).elseSeen = FALSE
        /\ NewCase(v).target = v /\ NewCase(v).current = 0
        /\ NewCase(v).executing = (v = 0) /\ NewCase(v).matched = (v = 0)
    BY Zenon DEF NewCase
  <2>2. CASE v = 0
    <3>1. NewCase(v).executing = TRUE /\ NewCase(v).matched = TRUE
      BY <2>1, <2>2
    <3> QED
      BY <2>1, <2>2, <3>1 DEF Matches, Nesting!Selected
  <2>3. CASE v # 0
    <3>1. NewCase(v).executing = FALSE /\ NewCase(v).matched = FALSE
      BY Zenon, <2>1, <2>3
    <3>2. v \notin 0..0
      BY <1>1, <2>3
    <3> QED
      BY <2>1, <2>3, <3>1, <3>2 DEF Matches, Nesting!Selected
  <2> QED
    BY <2>2, <2>3
<1>4. branches' = Append(branches, b) /\ OpenFrame(NewCase(v))
  BY DEF IfCase, Nesting!Open
<1> QED
  BY <1>2, <1>3, <1>4, OpenKeepsSkipInv

LEMMA ElseKeepsSkipInv == SkipInv /\ Else => SkipInv'
<1> SUFFICES ASSUME SkipInv, Else PROVE SkipInv'
  OBVIOUS
<1> USE DEF SkipInv, Else, ReadElse
<1>1. CASE branches = <<>>
  <2>1. ifs = <<>> /\ depth = 0
    BY <1>1 DEF Aligned
  <2> QED
    BY <1>1, <2>1 DEF Nesting!Else, Aligned, IsSkipping
<1>2. CASE branches # <<>>
  <2>1. branches[Len(branches)] \in Nesting!OpenIf
    BY <1>2
  <2>2. Nesting!ElseOf(branches[Len(branches)]) \in Nesting!OpenIf
    BY <2>1, ChangesTyped
  <2>3. branches' = [branches EXCEPT ![Len(branches)] = Nesting!ElseOf(branches[Len(branches)])]
    BY <1>2 DEF Nesting!Else, Nesting!Top
  <2>6. depth > 0 => UNCHANGED ifVars
    BY DEF ifVars
  <2>4. CASE depth > 0
    BY <2>2, <2>3, <2>4, <2>6, CountedKeepsSkipInv
  <2>5. CASE depth = 0
    <3>1. ifs # <<>> /\ Len(ifs) = Len(branches) /\ Matches(TopIf, branches[Len(branches)])
      BY <1>2, <2>5 DEF Aligned, TopIf
    <3>2. TopIf \in Frame
      BY <3>1 DEF TopIf
    <3>3. AfterElse(TopIf) \in Frame /\ Matches(AfterElse(TopIf), Nesting!ElseOf(branches[Len(branches)]))
      BY <2>1, <3>1, <3>2, ElseMatches
    <3>4. ifs' = [ifs EXCEPT ![Len(ifs)] = AfterElse(TopIf)] /\ depth' = depth
      BY <2>5, <3>1 DEF TopIf
    <3> HIDE DEF Else
    <3> QED
      BY <2>2, <2>3, <2>5, <3>1, <3>3, <3>4, ChangeKeepsSkipInv
  <2> QED
    BY <2>4, <2>5
<1> QED
  BY <1>1, <1>2

LEMMA OrKeepsSkipInv == SkipInv /\ Or => SkipInv'
<1> SUFFICES ASSUME SkipInv, Or PROVE SkipInv'
  OBVIOUS
<1> USE DEF SkipInv, Or, ReadOr
<1>1. CASE branches = <<>>
  <2>1. ifs = <<>> /\ depth = 0
    BY <1>1 DEF Aligned
  <2> QED
    BY <1>1, <2>1 DEF Nesting!Or, Aligned, IsSkipping
<1>2. CASE branches # <<>> /\ Nesting!Top.kind = "if"
  <2>1. UNCHANGED <<ifs, depth, branches>>
    BY <1>2 DEF Nesting!Or, Nesting!Top, Aligned, Matches, TopIf
  <2> QED
    BY <2>1 DEF Aligned, IsSkipping, TopIf
<1>3. CASE branches # <<>> /\ Nesting!Top.kind # "if"
  <2>1. branches[Len(branches)] \in Nesting!OpenIf
    BY <1>3
  <2>2. Nesting!OrOf(branches[Len(branches)]) \in Nesting!OpenIf
    BY <2>1, ChangesTyped
  <2>3. branches' = [branches EXCEPT ![Len(branches)] = Nesting!OrOf(branches[Len(branches)])]
    BY <1>3 DEF Nesting!Or, Nesting!Top
  <2>6. depth > 0 => UNCHANGED ifVars
    BY DEF ifVars
  <2>4. CASE depth > 0
    BY <2>2, <2>3, <2>4, <2>6, CountedKeepsSkipInv
  <2>5. CASE depth = 0
    <3>1. ifs # <<>> /\ Len(ifs) = Len(branches) /\ Matches(TopIf, branches[Len(branches)])
      BY <1>3, <2>5 DEF Aligned, TopIf
    <3>2. TopIf \in Frame /\ TopIf.kind = "case"
      BY <1>3, <2>1, <3>1 DEF TopIf, Matches, Nesting!OpenIf, Nesting!Top
    <3>3. AfterOr(TopIf) \in Frame /\ Matches(AfterOr(TopIf), Nesting!OrOf(branches[Len(branches)]))
      BY <2>1, <3>1, <3>2, OrMatches
    <3>4. ifs' = [ifs EXCEPT ![Len(ifs)] = AfterOr(TopIf)] /\ depth' = depth
      BY <2>5, <3>1, <3>2 DEF TopIf
    <3> HIDE DEF Or
    <3> QED
      BY <2>2, <2>3, <2>5, <3>1, <3>3, <3>4, ChangeKeepsSkipInv
  <2> QED
    BY <2>4, <2>5
<1> QED
  BY <1>1, <1>2, <1>3

LEMMA FiKeepsSkipInv == SkipInv /\ Fi => SkipInv'
<1> SUFFICES ASSUME SkipInv, Fi PROVE SkipInv'
  OBVIOUS
<1> USE DEF SkipInv, Fi, ReadFi
<1>1. CASE branches = <<>>
  <2>1. ifs = <<>> /\ depth = 0
    BY <1>1 DEF Aligned
  <2> QED
    BY <1>1, <2>1 DEF Nesting!Fi, Aligned, IsSkipping
<1>2. CASE branches # <<>>
  <2> DEFINE k == Len(branches) - 1
  <2>1. branches' = SubSeq(branches, 1, k) /\ k \in Nat /\ k <= Len(branches)
    BY <1>2 DEF Nesting!Fi
  <2>2. /\ branches' \in Seq(Nesting!OpenIf) /\ Len(branches') = k
        /\ \A i \in 1..k : branches'[i] = branches[i]
    <3> HIDE DEF k
    <3> QED
      BY <2>1, WithoutLast
  <2>3. CASE depth > 0
    <3>1. ifs' = ifs /\ depth' = depth - 1 /\ IsSkipping'
      BY <2>3 DEF Aligned, IsSkipping, TopIf
    <3>2. \A i \in 1..Len(ifs) : i \in 1..k
      BY <2>3 DEF Aligned
    <3> QED
      BY <2>2, <2>3, <3>1, <3>2 DEF Aligned
  <2>4. CASE depth = 0
    <3>1. ifs' = SubSeq(ifs, 1, k) /\ depth' = 0 /\ k <= Len(ifs)
      BY <1>2, <2>4 DEF Aligned
    <3>2. /\ ifs' \in Seq(Frame) /\ Len(ifs') = k
          /\ \A i \in 1..k : ifs'[i] = ifs[i]
      <4> HIDE DEF k
      <4> QED
        BY <2>1, <3>1, WithoutLast
    <3>3. \A i \in 1..k : i \in 1..Len(ifs) /\ i < Len(ifs)
      BY <2>4 DEF Aligned
    <3> QED
      BY <2>2, <3>1, <3>2, <3>3 DEF Aligned
  <2> QED
    BY <2>3, <2>4
<1> QED
  BY <1>1, <1>2

-----------------------------------------------------------------------------
(* No step disturbs SkipInv unless it skips a conditional made by \newif.  *)
LEMMA NextKeepsSkipInv ==
    ASSUME SkipsUserIfs = FALSE, SkipInv, [ParserNext]_parserVars
    PROVE  SkipInv'
<1>1. ASSUME UNCHANGED conditionalVars PROVE SkipInv'
  BY <1>1 DEF conditionalVars, SkipInv, Aligned, IsSkipping, TopIf
<1>2. ASSUME NEW n \in Names, NEW v \in Values, Assign(n, v) \/ AssignGlobally(n, v)
      PROVE  SkipInv'
  BY <1>1, <1>2 DEF Assign, AssignGlobally, Execute
<1>3. CASE BeginGroup \/ EndGroup
  BY <1>1, <1>3 DEF BeginGroup, EndGroup, Execute
<1>4. ASSUME NEW c \in BOOLEAN, If(c) \/ UserIf(c) PROVE SkipInv'
  <2>1. OpenFrame(NewIf(c)) /\ Nesting!OpenTruth(c)
    BY <1>4 DEF If, UserIf, OpenUserIf
  <2> QED
    BY <2>1, IfKeepsSkipInv
<1>5. ASSUME NEW v \in CaseValues, IfCase(v) PROVE SkipInv'
  BY <1>5, IfCaseKeepsSkipInv
<1>6. CASE Else \/ Or \/ Fi
  BY <1>6, ElseKeepsSkipInv, OrKeepsSkipInv, FiKeepsSkipInv
<1>7. CASE UNCHANGED parserVars
  BY <1>1, <1>7 DEF parserVars, conditionalVars
<1> QED
  BY <1>2, <1>3, <1>4, <1>5, <1>6, <1>7 DEF ParserNext, Conditional

(* Counting nested conditionals selects the text that nesting selects.     *)
THEOREM SkipsCorrectly ==
    ASSUME SkipsUserIfs = FALSE
    PROVE  ParserSpec => [](SkipInv /\ SkipsAsNested)
<1>1. SkipInv /\ [ParserNext]_parserVars => SkipInv'
  BY NextKeepsSkipInv
<1> QED
  BY <1>1, InitSkipInv, SkipInvSelects, PTL DEF ParserSpec

(* The parser implements RegisterScopes: conditionals only choose which    *)
(* groups and assignments are executed.                                    *)
THEOREM Implements ==
    ASSUME SkipsUserIfs = FALSE
    PROVE  ParserSpec => ParserImplementsScopes
<1>1. ParserInit => Init
  BY DEF ParserInit
<1>2. SkipsAsNested /\ [ParserNext]_parserVars => [Next]_vars
  <2> SUFFICES ASSUME SkipsAsNested, [ParserNext]_parserVars PROVE [Next]_vars
    OBVIOUS
  <2>1. CASE BeginGroup \/ EndGroup
    BY <2>1 DEF BeginGroup, EndGroup, Execute, SkipsAsNested, Next, PushGroup, PopGroup,
                vars, storeVars
  <2>2. ASSUME NEW n \in Names, NEW v \in Values, Assign(n, v) \/ AssignGlobally(n, v)
        PROVE  [Next]_vars
    BY <2>2 DEF Assign, AssignGlobally, Execute, SkipsAsNested, Next, AssignLocal,
                AssignGlobal, vars, storeVars
  <2>3. CASE Conditional
    BY <2>3 DEF Conditional, If, UserIf, IfCase, Else, Or, Fi
  <2>4. CASE UNCHANGED parserVars
    BY <2>4 DEF parserVars, vars
  <2> QED
    BY <2>1, <2>2, <2>3, <2>4 DEF ParserNext
<1> QED
  BY <1>1, <1>2, SkipsCorrectly, PTL DEF ParserSpec, ParserImplementsScopes, Spec

(* So every register of the parser reads as TeX's scoping says.            *)
THEOREM ParserReadsAsScoped ==
    ASSUME SkipsUserIfs = FALSE
    PROVE  ParserSpec => []ReadsAsScoped
  BY Implements, RegistersAreScoped, PTL DEF ParserImplementsScopes
=============================================================================
