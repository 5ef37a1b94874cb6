-------------------------------- MODULE Parser --------------------------------
(***************************************************************************)
(* The stacks of the parser (parser/api.rs: run, handle_common_primitive,  *)
(* handle_runtime_group_token): groups, registers and conditionals, driven *)
(* by one token stream.  A token that is no conditional is executed unless *)
(* a branch is skipped; the references, `scopes` and `branches`, execute   *)
(* it when it is in the selected branch of every conditional around it.    *)
(***************************************************************************)
EXTENDS RegisterScopes, Conditionals

CONSTANTS
    CaseValues,     \* the numbers an \ifcase may have
    MaxIfs,         \* BOUND on the nesting of conditionals
    MaxBranches,    \* BOUND on the \or's of an \ifcase
    SkipsUserIfs    \* skipped text may contain conditionals made by \newif

ASSUME CaseValuesAssumption == CaseValues \subseteq Int
ASSUME MaxIfsAssumption == MaxIfs \in Nat
ASSUME MaxBranchesAssumption == MaxBranches \in Nat
ASSUME SkipsUserIfsAssumption == SkipsUserIfs \in BOOLEAN

VARIABLE branches

parserVars == <<registers, saves, scopes, ifs, depth, branches>>
conditionalVars == <<ifs, depth, branches>>

Nesting == INSTANCE IfNesting

ParserTypeOK == TypeOK /\ IfsOK /\ Nesting!BranchesOK

ParserInit == Init /\ IfsInit /\ Nesting!Init

(* MUTANT of Execute: the main loop does not look at is_skipping.          *)
ExecuteSkipped(inStore, inScopes) ==
    /\ inStore
    /\ IF Nesting!AllSelected THEN inScopes ELSE UNCHANGED scopes
    /\ UNCHANGED conditionalVars

(* A token that a skipped branch does not execute.                         *)
Execute(inStore, inScopes) ==
    /\ IF IsSkipping THEN UNCHANGED storeVars ELSE inStore
    /\ IF Nesting!AllSelected THEN inScopes ELSE UNCHANGED scopes
    /\ UNCHANGED conditionalVars

BeginGroup == Execute(Push, Reference!PushGroup)
EndGroup == Execute(Pop, Reference!PopGroup)
Assign(n, v) == Execute(SetLocal(n, v), Reference!DefineLocal(n, v))
AssignGlobally(n, v) == Execute(SetGlobal(n, v), Reference!DefineGlobal(n, v))

(* The conditionals.                                                       *)
MayOpen == Len(branches) < MaxIfs

If(c) ==
    /\ MayOpen
    /\ OpenFrame(NewIf(c)) /\ Nesting!OpenTruth(c) /\ UNCHANGED vars

IfCase(v) ==
    /\ MayOpen
    /\ OpenFrame(NewCase(v)) /\ Nesting!Open("case", v) /\ UNCHANGED vars

UserIf(c) ==
    /\ MayOpen
    /\ IsSkipping => SkipsUserIfs
    /\ OpenUserIf(c) /\ Nesting!OpenTruth(c) /\ UNCHANGED vars

Else == ReadElse /\ Nesting!Else /\ UNCHANGED vars

Or ==
    /\ branches # <<>> => Nesting!Top.branch < MaxBranches
    /\ ReadOr /\ Nesting!Or /\ UNCHANGED vars

Fi == ReadFi /\ Nesting!Fi /\ UNCHANGED vars

Conditional ==
    \/ \E c \in BOOLEAN : If(c) \/ UserIf(c)
    \/ \E v \in CaseValues : IfCase(v)
    \/ Else
    \/ Or
    \/ Fi

ParserNext ==
    \/ BeginGroup
    \/ EndGroup
    \/ \E n \in Names, v \in Values : Assign(n, v) \/ AssignGlobally(n, v)
    \/ Conditional

ParserSpec == ParserInit /\ [][ParserNext]_parserVars

-----------------------------------------------------------------------------
(* Properties.                                                             *)

(* Skipping by counting selects the same text as nesting does: whatever    *)
(* conditionals are nested in executed and skipped branches, a token is    *)
(* executed exactly if all conditionals around it select its branch, so an *)
(* \else, \or or \fi is never taken for one of another conditional.        *)
SkipsAsNested == IsSkipping <=> ~Nesting!AllSelected

(* The registers are those of the executed assignments, under TeX's        *)
(* scoping: the stacks of groups and of conditionals do not disturb each   *)
(* other.                                                                  *)
ParserImplementsScopes == Spec
=============================================================================
