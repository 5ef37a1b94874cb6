--------------------------- MODULE Typesetting_proofs ---------------------------
(***************************************************************************)
(* Proofs about the line breaker and the typesetting in threads.           *)
(*                                                                         *)
(* Lines: the dynamic programming of compute_best_path finds, for every    *)
(* list, every width and all penalties, a cheapest choice of breaks of     *)
(* every paragraph.  The reference is Possible, the cost of each set of    *)
(* breaks; the invariant of the loop is BestTo, what the state of a        *)
(* candidate says of all paths to it.  The second pass cuts the list at    *)
(* these breaks: the segments cover it up to what is trimmed (Covers), so  *)
(* the lines hold every letter once (EveryLetterOnALine, at the end).      *)
(*                                                                         *)
(* Threads: the fragments of any plan of partitions, made by any number of *)
(* workers, are cuts from the document of one thread (OnPage, Excerpt),    *)
(* and the merge puts them together again.                                 *)
(***************************************************************************)
EXTENDS LineBreaking, ParallelTypeset, FiniteSetTheorems, SequenceTheorems, WellFoundedInduction, TLAPS

-----------------------------------------------------------------------------
(* Numbers, and what a fold computes: the lemmas give the function that it *)
(* is defined with as the values of a loop variable.                       *)

(* The order of the numbers, as a relation.                                *)
NatLess == OpToRel(<, Nat)

(* The numbers are well-founded: what every induction below rests on.      *)
LEMMA WellFounded == IsWellFoundedOn(NatLess, Nat)
BY NatLessThanWellFounded DEF NatLess

(* The order of the library's theorem is the order of the numbers.         *)
LEMMA NatLessDef == \A a, b \in Nat : <<a,b>> \in NatLess <=> a < b
BY DEF NatLess, OpToRel

(* A set of numbers has a smallest member.                                 *)
LEMMA Smallest ==
  ASSUME NEW S \in SUBSET Nat, S # {}
  PROVE \E m \in S : \A n \in S : m <= n
<1>1. PICK x \in S : \A y \in S : ~ (<<y, x>> \in NatLess)
  BY WellFounded, WFMin
<1>2. \A y \in S : ~ (y < x)
  BY <1>1, NatLessDef
<1>3. \A y \in S : x <= y
  BY <1>2
<1>4. QED
  BY <1>3

(* Induction over the numbers, with a set for the property.                *)
LEMMA Induct ==
  ASSUME NEW S, 0 \in S, \A n \in Nat : n \in S => n + 1 \in S
  PROVE  \A n \in Nat : n \in S
<1>1. SUFFICES ASSUME Nat \ S # {} PROVE FALSE
  OBVIOUS
<1>2. PICK m \in Nat \ S : \A n \in Nat \ S : m <= n
  BY <1>1, Smallest
<1>3. m # 0 /\ m - 1 \in Nat /\ m - 1 \notin S
  BY <1>2
<1>4. QED
  BY <1>2, <1>3

(* The index a fold takes next is one of those left, and the last of them. *)
LEMMA MaxRange ==
  ASSUME NEW n \in Nat, NEW s \in SUBSET (1 .. n), s # {}
  PROVE  Max(s) \in s /\ \A y \in s : y <= Max(s)
<1> DEFINE T == {k \in Nat : n - k \in s}
<1>1. T \in SUBSET Nat /\ T # {}
  <2>1. PICK y \in s : TRUE
    OBVIOUS
  <2>2. n - y \in Nat /\ n - (n - y) = y
    OBVIOUS
  <2> QED
    BY <2>1, <2>2
<1>2. PICK m \in T : \A k \in T : m <= k
  BY <1>1, Smallest
<1>3. n - m \in s
  OBVIOUS
<1>4. \A y \in s : n - m >= y
  <2>1. SUFFICES ASSUME NEW y \in s PROVE n - m >= y
    OBVIOUS
  <2>2. n - y \in T
    OBVIOUS
  <2>3. m <= n - y
    BY <1>2, <2>2
  <2> QED
    BY <2>3
<1>5. \E x \in s : \A y \in s : x >= y
  BY <1>3, <1>4
<1>6. Max(s) \in s /\ \A y \in s : Max(s) >= y
  BY <1>5 DEF Max
<1>7. QED
  BY <1>6

(* One step of a fold over indices: the last of them is taken off the set. *)
FoldStep(b, g, f, s) == IF s = {} THEN b ELSE g[Max(s)][f[s \ {Max(s)}]]

(* f gives the fold over each set of the indices up to k.                  *)
FoldOn(B, b, g, k, f) ==
  f \in [SUBSET (1 .. k) -> B] /\ \A s \in SUBSET (1 .. k) : f[s] = FoldStep(b, g, f, s)

(* A fold over k indices extends to k + 1.                                 *)
LEMMA FoldExtends ==
  ASSUME NEW B, NEW b \in B, NEW n \in Nat, NEW g \in [1 .. n -> [B -> B]],
         NEW k \in Nat, k + 1 <= n, NEW f, FoldOn(B, b, g, k, f)
  PROVE  \E h : FoldOn(B, b, g, k + 1, h)
<1> USE DEF FoldOn
<1> DEFINE h == [s \in SUBSET (1 .. k + 1) |-> IF k + 1 \in s THEN g[k + 1][f[s \ {k + 1}]] ELSE f[s]]
<1>1. ASSUME NEW s \in SUBSET (1 .. k + 1)
      PROVE  s \ {k + 1} \in SUBSET (1 .. k) /\ (k + 1 \notin s => s \in SUBSET (1 .. k))
  OBVIOUS
<1>2. ASSUME NEW s \in SUBSET (1 .. k + 1), k + 1 \in s PROVE Max(s) = k + 1
  <2>0. k + 1 \in Nat /\ s # {}
    BY <1>2
  <2>1. Max(s) \in s /\ \A y \in s : y <= Max(s)
    BY <2>0, MaxRange
  <2>2. Max(s) \in 1 .. k + 1 /\ k + 1 <= Max(s)
    BY <2>1, <1>2
  <2> QED
    BY <2>2
<1>3. h \in [SUBSET (1 .. k + 1) -> B]
  BY <1>1
<1>4. \A s \in SUBSET (1 .. k) : s \in SUBSET (1 .. k + 1) /\ k + 1 \notin s /\ h[s] = f[s]
  OBVIOUS
<1>5. \A s \in SUBSET (1 .. k + 1) : k + 1 \in s => h[s] = g[k + 1][f[s \ {k + 1}]]
  OBVIOUS
<1> HIDE DEF h
<1>6. ASSUME NEW s \in SUBSET (1 .. k + 1)
      PROVE  h[s] = FoldStep(b, g, h, s)
  <2>1. CASE k + 1 \in s
    <3>1. h[s \ {k + 1}] = f[s \ {k + 1}]
      BY <1>1, <1>4
    <3> QED
      BY <1>2, <1>5, <2>1, <3>1 DEF FoldStep
  <2>2. CASE k + 1 \notin s
    <3>1. s \in SUBSET (1 .. k) /\ h[s] = f[s] /\ f[s] = FoldStep(b, g, f, s)
      BY <1>1, <2>2, <1>4
    <3>2. h[s \ {Max(s)}] = f[s \ {Max(s)}]
      <4>1. s \ {Max(s)} \in SUBSET (1 .. k)
        BY <3>1
      <4> QED
        BY <4>1, <1>4
    <3> QED
      BY <3>1, <3>2 DEF FoldStep
  <2> QED
    BY <2>1, <2>2
<1>7. QED
  BY <1>3, <1>6

(* The function a fold over n indices is defined with exists.              *)
LEMMA FoldFn ==
  ASSUME NEW B, NEW b \in B, NEW n \in Nat, NEW g \in [1 .. n -> [B -> B]]
  PROVE  \E f : FoldOn(B, b, g, n, f)
<1> DEFINE K == {k \in Nat : k <= n => \E f : FoldOn(B, b, g, k, f)}
<1>1. \E f : FoldOn(B, b, g, 0, f)
  <2> DEFINE f == [s \in SUBSET (1 .. 0) |-> b]
  <2>1. f \in [SUBSET (1 .. 0) -> B] /\ \A s \in SUBSET (1 .. 0) : s = {} /\ f[s] = b
    OBVIOUS
  <2>2. \A s \in SUBSET (1 .. 0) : f[s] = FoldStep(b, g, f, s)
    BY <2>1 DEF FoldStep
  <2> QED
    BY <2>1, <2>2 DEF FoldOn
<1>2. ASSUME NEW k \in Nat, k + 1 <= n, \E f : FoldOn(B, b, g, k, f)
      PROVE  \E f : FoldOn(B, b, g, k + 1, f)
  BY <1>2, FoldExtends
<1>3. 0 \in K /\ \A k \in Nat : k \in K => k + 1 \in K
  BY <1>1, <1>2
<1>4. n \in K
  <2> HIDE DEF K
  <2> QED
    BY <1>3, Induct
<1> QED
  BY <1>4

(* The first k of n indices.                                               *)
LEMMA FirstOnes ==
  ASSUME NEW n \in Nat, NEW k \in 1 .. n
  PROVE  1 .. k \in SUBSET (1 .. n) /\ k \in Nat \ {0}
OBVIOUS

(* A fold over 1 .. k takes k and leaves 1 .. k - 1.                       *)
LEMMA MaxOfRange ==
  ASSUME NEW k \in Nat \ {0}
  PROVE  Max(1 .. k) = k /\ 1 .. k # {} /\ (1 .. k) \ {k} = 1 .. (k - 1)
<1>0. k \in Nat /\ 1 .. k \in SUBSET (1 .. k) /\ k \in 1 .. k
  OBVIOUS
<1>1. Max(1 .. k) \in 1 .. k /\ \A y \in 1 .. k : y <= Max(1 .. k)
  BY <1>0, MaxRange
<1>2. (1 .. k) \ {k} = 1 .. (k - 1)
  OBVIOUS
<1> QED
  BY <1>0, <1>1, <1>2

(* The values of a loop variable that starts as b and becomes g[k][h] in step k. *)
History(B, b, n, g, h) ==
  /\ h \in [0 .. n -> B]
  /\ h[0] = b
  /\ \A k \in 1 .. n : h[k] = g[k][h[k - 1]]

(* A function on sets of indices that does so.                             *)
Loops(B, b, n, g, f) ==
  /\ f[{}] = b
  /\ \A k \in 1 .. n : f[1 .. (k - 1)] \in B => f[1 .. k] = g[k][f[1 .. (k - 1)]]

(* f of all indices is the last value.                                     *)
EndsAs(f, n, h) == f[1 .. n] = h[n]

(* A fold over 1 .. n gives the last value of a loop that runs from 1 to   *)
(* n.                                                                      *)
LEMMA FoldSteps ==
  ASSUME NEW B, NEW b \in B, NEW n \in Nat, NEW g \in [1 .. n -> [B -> B]],
         NEW f, Loops(B, b, n, g, f)
  PROVE  \E h : History(B, b, n, g, h) /\ EndsAs(f, n, h)
<1> USE DEF Loops, EndsAs
<1> DEFINE h == [k \in 0 .. n |-> f[1 .. k]]
<1>1. \A k \in 0 .. n : h[k] = f[1 .. k]
  OBVIOUS
<1>2. DOMAIN h = 0 .. n /\ h = [k \in 0 .. n |-> h[k]]
  OBVIOUS
<1> HIDE DEF h
<1>3. h[0] = b
  <2>1. 1 .. 0 = {} /\ 0 \in 0 .. n
    OBVIOUS
  <2> QED
    BY <2>1, <1>1
<1>4. ASSUME NEW k \in 1 .. n, h[k - 1] \in B PROVE h[k] = g[k][h[k - 1]]
  <2>1. k \in 0 .. n /\ k - 1 \in 0 .. n
    OBVIOUS
  <2> QED
    BY <2>1, <1>1, <1>4
<1>5. \A k \in 0 .. n : h[k] \in B
  <2> DEFINE K == {k \in Nat : k <= n => h[k] \in B}
  <2>1. 0 \in K
    BY <1>3
  <2>2. ASSUME NEW k \in Nat, k \in K PROVE k + 1 \in K
    <3>1. SUFFICES ASSUME k + 1 <= n PROVE h[k + 1] \in B
      OBVIOUS
    <3>2. k + 1 \in 1 .. n /\ (k + 1) - 1 = k /\ h[k] \in B
      BY <3>1, <2>2
    <3>3. h[k + 1] = g[k + 1][h[k]]
      BY <3>2, <1>4
    <3> QED
      BY <3>2, <3>3
  <2>3. \A k \in Nat : k \in K
    <3> HIDE DEF K
    <3> QED
      BY <2>1, <2>2, Induct
  <2>4. \A k \in 0 .. n : k \in K
    BY <2>3
  <2> QED
    BY <2>4
<1>6. h \in [0 .. n -> B] /\ f[1 .. n] = h[n]
  <2>1. h \in [0 .. n -> B]
    BY <1>2, <1>5
  <2>2. n \in 0 .. n
    OBVIOUS
  <2> QED
    BY <2>1, <2>2, <1>1
<1>7. \A k \in 1 .. n : h[k] = g[k][h[k - 1]]
  BY <1>4, <1>5
<1> QED
  BY <1>3, <1>6, <1>7 DEF History

(* A loop has a history.                                                   *)
LEMMA Recursion ==
  ASSUME NEW B, NEW b \in B, NEW n \in Nat, NEW g \in [1 .. n -> [B -> B]]
  PROVE  \E h : History(B, b, n, g, h)
<1>1. PICK f : FoldOn(B, b, g, n, f)
  BY FoldFn
<1>2. \A s \in SUBSET (1 .. n) : f[s] = FoldStep(b, g, f, s)
  BY <1>1 DEF FoldOn
<1>3. f[{}] = b
  BY <1>2 DEF FoldStep
<1>4. \A k \in 1 .. n : f[1 .. k] = g[k][f[1 .. (k - 1)]]
  <2>1. SUFFICES ASSUME NEW k \in 1 .. n PROVE f[1 .. k] = g[k][f[1 .. (k - 1)]]
    OBVIOUS
  <2>2. 1 .. k \in SUBSET (1 .. n) /\ k \in Nat \ {0}
    BY FirstOnes
  <2>3. f[1 .. k] = FoldStep(b, g, f, 1 .. k)
    BY <1>2, <2>2
  <2> QED
    BY <2>2, <2>3, MaxOfRange DEF FoldStep
<1>5. \E h : History(B, b, n, g, h) /\ EndsAs(f, n, h)
  <2>1. Loops(B, b, n, g, f)
    BY <1>3, <1>4 DEF Loops
  <2> QED
    BY <2>1, FoldSteps
<1> QED
  BY <1>5

(* An induction along the steps of a loop.                                 *)
LEMMA InductUpTo ==
  ASSUME NEW n \in Nat, NEW S, 0 \in S, \A k \in 1 .. n : k - 1 \in S => k \in S
  PROVE  \A k \in 0 .. n : k \in S
<1> DEFINE K == {k \in Nat : k <= n => k \in S}
<1>1. 0 \in K
  OBVIOUS
<1>2. ASSUME NEW k \in Nat, k \in K PROVE k + 1 \in K
  <2>1. k + 1 <= n => k + 1 \in 1 .. n /\ (k + 1) - 1 = k /\ k \in S
    BY <1>2
  <2> QED
    BY <2>1
<1>3. \A k \in Nat : k \in K
  <2> HIDE DEF K
  <2> QED
    BY <1>1, <1>2, Induct
<1>4. \A k \in 0 .. n : k \in K
  BY <1>3
<1> QED
  BY <1>4

-----------------------------------------------------------------------------
(* Ascending: the members of a set in the order in which a loop meets      *)
(* them.                                                                   *)

(* The numbers of a set in ascending order: a bijection that keeps the order. *)
Increasing(s, n) == \A i, j \in 1 .. n : i < j => s[i] < s[j]

(* A rank is below the number of members.                                  *)
LEMMA RankBounds ==
  ASSUME NEW S \in SUBSET Int, IsFiniteSet(S), NEW x \in S
  PROVE  /\ Rank(S, x) \in 0 .. Cardinality(S) - 1
         /\ IsFiniteSet({y \in S : y < x})
<1> DEFINE T == {y \in S : y < x}
<1>1. T \in SUBSET (S \ {x})
  OBVIOUS
<1>2. IsFiniteSet(S \ {x}) /\ Cardinality(S \ {x}) = Cardinality(S) - 1
  BY FS_RemoveElement
<1>3. IsFiniteSet(T) /\ Cardinality(T) <= Cardinality(S \ {x})
  <2> HIDE DEF T
  <2> QED
    BY <1>1, <1>2, FS_Subset
<1>4. Cardinality(T) \in Nat /\ Cardinality(S) \in Nat
  <2> HIDE DEF T
  <2> QED
    BY <1>3, FS_CardinalityType
<1> QED
  BY <1>2, <1>3, <1>4 DEF Rank

(* A greater member has a greater rank.                                    *)
LEMMA RankLess ==
  ASSUME NEW S \in SUBSET Int, IsFiniteSet(S), NEW x \in S, NEW y \in S, x < y
  PROVE  Rank(S, x) < Rank(S, y)
<1> DEFINE T(z) == {u \in S : u < z}
<1>1. IsFiniteSet(T(x)) /\ IsFiniteSet(T(y))
  BY RankBounds
<1>2. T(x) \cup {x} \in SUBSET T(y) /\ x \notin T(x)
  <2>1. x \in Int /\ y \in Int /\ \A u \in S : u \in Int
    OBVIOUS
  <2>2. \A u \in T(x) : u \in S /\ u < y
    BY <2>1
  <2>3. x \notin T(x)
    BY <2>1
  <2>4. \A u \in T(x) \cup {x} : u \in T(y)
    BY <2>2
  <2> HIDE DEF T
  <2> QED
    BY <2>3, <2>4
<1> HIDE DEF T
<1>3. IsFiniteSet(T(x) \cup {x}) /\ Cardinality(T(x) \cup {x}) = Cardinality(T(x)) + 1
  BY <1>1, <1>2, FS_AddElement
<1>4. Cardinality(T(x) \cup {x}) <= Cardinality(T(y))
  BY <1>1, <1>2, FS_Subset
<1>5. Cardinality(T(x)) \in Nat /\ Cardinality(T(y)) \in Nat
  BY <1>1, FS_CardinalityType
<1> QED
  BY <1>3, <1>4, <1>5 DEF Rank, T

(* Every rank is the rank of a member.                                     *)
LEMMA RankOnto ==
  ASSUME NEW S \in SUBSET Int, IsFiniteSet(S), NEW k \in 0 .. Cardinality(S) - 1
  PROVE  \E x \in S : Rank(S, x) = k
<1> DEFINE N == 0 .. Cardinality(S) - 1
           r == [x \in S |-> Rank(S, x)]
<1>0. Cardinality(S) \in Nat
  BY FS_CardinalityType
<1>1. IsFiniteSet(N) /\ Cardinality(N) = Cardinality(S)
  <2>0. 0 \in Int /\ Cardinality(S) - 1 \in Int
    BY <1>0
  <2>1. IsFiniteSet(N) /\ Cardinality(N) = IF 0 > Cardinality(S) - 1 THEN 0 ELSE Cardinality(S) - 1 - 0 + 1
    BY <2>0, FS_Interval
  <2> QED
    BY <2>1, <1>0
<1>2. r \in [S -> N]
  BY RankBounds
<1>3. \A x, y \in S : r[x] = r[y] => x = y
  <2>1. SUFFICES ASSUME NEW x \in S, NEW y \in S, x # y PROVE r[x] # r[y]
    OBVIOUS
  <2>2. x < y \/ y < x
    BY <2>1
  <2>3. Rank(S, x) < Rank(S, y) \/ Rank(S, y) < Rank(S, x)
    BY <2>2, RankLess
  <2>4. \A z \in S : Rank(S, z) \in Int
    <3>1. \A z \in S : Rank(S, z) \in 0 .. Cardinality(S) - 1
      BY RankBounds
    <3> QED
      BY <3>1, <1>0
  <2> QED
    BY <2>3, <2>4
<1> HIDE DEF r, N
<1>4. r \in Injection(S, N)
  BY <1>2, <1>3 DEF Injection, IsInjective
<1>5. r \in Surjection(S, N)
  BY <1>1, <1>4, FS_Injection
<1> QED
  BY <1>5 DEF Surjection, r, N

(* Ascending(S) has every member of S once, in ascending order.            *)
LEMMA AscendingSorts ==
  ASSUME NEW S \in SUBSET Int, IsFiniteSet(S)
  PROVE  /\ Cardinality(S) \in Nat
         /\ Ascending(S) \in [1 .. Cardinality(S) -> S]
         /\ Ascending(S) \in Seq(S) /\ Len(Ascending(S)) = Cardinality(S)
         /\ Increasing(Ascending(S), Cardinality(S))
         /\ \A x \in S : \E k \in 1 .. Cardinality(S) : Ascending(S)[k] = x
<1> DEFINE n == Cardinality(S)
           a == Ascending(S)
<1>0. n \in Nat
  BY FS_CardinalityType
<1>1. ASSUME NEW k \in 1 .. n PROVE a[k] \in S /\ Rank(S, a[k]) = k - 1
  <2>1. \E x \in S : Rank(S, x) = k - 1
    BY <1>0, RankOnto
  <2>2. a[k] = CHOOSE x \in S : Rank(S, x) = k - 1
    BY DEF Ascending
  <2> HIDE DEF a
  <2> QED
    BY <2>1, <2>2
<1>2. a = [k \in 1 .. n |-> a[k]] /\ DOMAIN a = 1 .. n
  BY DEF Ascending
<1> HIDE DEF a, n
<1>3. a \in [1 .. n -> S]
  BY <1>1, <1>2
<1>4. Increasing(a, n)
  <2>1. SUFFICES ASSUME NEW i \in 1 .. n, NEW j \in 1 .. n, i < j PROVE a[i] < a[j]
    BY DEF Increasing
  <2>2. a[i] \in S /\ a[j] \in S /\ Rank(S, a[i]) = i - 1 /\ Rank(S, a[j]) = j - 1
    BY <1>1
  <2>3. a[j] < a[i] \/ a[j] = a[i] \/ a[i] < a[j]
    <3>1. a[i] \in Int /\ a[j] \in Int
      BY <2>2
    <3> QED
      BY <3>1
  <2>4. a[j] < a[i] => Rank(S, a[j]) < Rank(S, a[i])
    BY <2>2, RankLess
  <2>5. i \in Int /\ j \in Int
    BY <1>0
  <2> QED
    BY <2>1, <2>2, <2>3, <2>4, <2>5
<1>5. ASSUME NEW x \in S PROVE \E k \in 1 .. n : a[k] = x
  <2>1. Rank(S, x) \in 0 .. n - 1
    BY RankBounds DEF n
  <2> DEFINE k == Rank(S, x) + 1
  <2>2. k \in 1 .. n /\ k - 1 = Rank(S, x)
    BY <2>1, <1>0
  <2>3. a[k] \in S /\ Rank(S, a[k]) = Rank(S, x)
    BY <2>2, <1>1
  <2> HIDE DEF k
  <2>4. a[k] < x \/ x < a[k] \/ a[k] = x
    <3>1. a[k] \in Int /\ x \in Int
      BY <2>3
    <3> QED
      BY <3>1
  <2>5. ~ (a[k] < x) /\ ~ (x < a[k])
    <3>1. (a[k] < x => Rank(S, a[k]) < Rank(S, x)) /\ (x < a[k] => Rank(S, x) < Rank(S, a[k]))
      BY <2>3, RankLess
    <3>2. Rank(S, x) \in Int
      BY <2>1, <1>0
    <3> QED
      BY <3>1, <3>2, <2>3
  <2> QED
    BY <2>2, <2>4, <2>5
<1>6. a \in Seq(S) /\ Len(a) = n
  BY <1>0, <1>3
<1> QED
  BY <1>0, <1>3, <1>4, <1>5, <1>6 DEF a, n

(* It is the only sequence that has them once each and in this order.      *)
LEMMA AscendingIsOnly ==
  ASSUME NEW n \in Nat, NEW S \in SUBSET Int, NEW s \in [1 .. n -> S],
         Increasing(s, n), \A x \in S : \E k \in 1 .. n : s[k] = x
  PROVE  IsFiniteSet(S) /\ Cardinality(S) = n /\ s = Ascending(S)
<1>0. IsFiniteSet(1 .. n) /\ Cardinality(1 .. n) = n
  BY FS_Interval
<1>1. \A i, j \in 1 .. n : s[i] = s[j] => i = j
  <2>1. SUFFICES ASSUME NEW i \in 1 .. n, NEW j \in 1 .. n, i < j PROVE s[i] # s[j]
    <3>1. \A i, j \in 1 .. n : i = j \/ i < j \/ j < i
      OBVIOUS
    <3> QED
      BY <3>1, <2>1
  <2>2. s[i] < s[j] /\ s[i] \in Int /\ s[j] \in Int
    BY <2>1 DEF Increasing
  <2> QED
    BY <2>2
<1>2. s \in Bijection(1 .. n, S)
  BY <1>1 DEF Bijection, Injection, IsInjective, Surjection
<1>3. IsFiniteSet(S) /\ Cardinality(S) = n
  BY <1>0, <1>2, FS_Bijection DEF ExistsBijection
<1>4. ASSUME NEW k \in 1 .. n PROVE Rank(S, s[k]) = k - 1
  <2> DEFINE T == {y \in S : y < s[k]}
             t == [i \in 1 .. k - 1 |-> s[i]]
  <2>1. IsFiniteSet(1 .. k - 1) /\ Cardinality(1 .. k - 1) = k - 1
    <3>1. 1 \in Int /\ k - 1 \in Int /\ k - 1 >= 0
      OBVIOUS
    <3>2. IsFiniteSet(1 .. k - 1) /\ Cardinality(1 .. k - 1) = IF 1 > k - 1 THEN 0 ELSE (k - 1) - 1 + 1
      BY <3>1, FS_Interval
    <3> QED
      BY <3>1, <3>2
  <2>2. \A i \in 1 .. k - 1 : i \in 1 .. n /\ i < k
    OBVIOUS
  <2>3. t \in [1 .. k - 1 -> T]
    BY <2>2 DEF Increasing
  <2>4. \A i, j \in 1 .. k - 1 : t[i] = t[j] => i = j
    BY <2>2, <1>1
  <2>5. ASSUME NEW y \in T PROVE \E i \in 1 .. k - 1 : t[i] = y
    <3>1. PICK i \in 1 .. n : s[i] = y
      OBVIOUS
    <3>2. s[i] < s[k] /\ s[i] \in Int /\ s[k] \in Int
      BY <3>1
    <3>3. ~ (k < i) /\ k # i
      <4>1. k < i => s[k] < s[i]
        BY DEF Increasing
      <4> QED
        BY <4>1, <3>2
    <3>4. i \in 1 .. k - 1
      BY <3>3
    <3> QED
      BY <3>1, <3>4
  <2> HIDE DEF t, T
  <2>6. t \in Bijection(1 .. k - 1, T)
    BY <2>3, <2>4, <2>5 DEF Bijection, Injection, IsInjective, Surjection
  <2>7. Cardinality(T) = k - 1
    BY <2>1, <2>6, FS_Bijection DEF ExistsBijection
  <2> QED
    BY <2>7 DEF T, Rank
<1>5. ASSUME NEW k \in 1 .. n PROVE s[k] = CHOOSE x \in S : Rank(S, x) = k - 1
  <2> DEFINE c == CHOOSE x \in S : Rank(S, x) = k - 1
  <2>1. s[k] \in S /\ Rank(S, s[k]) = k - 1
    BY <1>4
  <2>2. c \in S /\ Rank(S, c) = k - 1
    BY <2>1
  <2> HIDE DEF c
  <2>3. c < s[k] \/ s[k] < c \/ c = s[k]
    <3>1. c \in Int /\ s[k] \in Int
      BY <2>1, <2>2
    <3> QED
      BY <3>1
  <2>4. (c < s[k] => Rank(S, c) < Rank(S, s[k])) /\ (s[k] < c => Rank(S, s[k]) < Rank(S, c))
    BY <2>1, <2>2, <1>3, RankLess
  <2>5. c = s[k]
    BY <2>1, <2>2, <2>3, <2>4
  <2> QED
    BY <2>5 DEF c
<1>6. s = [k \in 1 .. n |-> s[k]]
  OBVIOUS
<1>7. s = Ascending(S)
  BY <1>3, <1>5, <1>6 DEF Ascending
<1> QED
  BY <1>3, <1>7

-----------------------------------------------------------------------------
(* Sums and costs.                                                         *)

(* What a fold over a sequence of numbers or of ways computes, step by step. *)
LEMMA SumSteps ==
  ASSUME NEW n \in Nat, NEW s \in [1 .. n -> Nat]
  PROVE  \E h \in [0 .. n -> Nat] :
           /\ h[0] = 0 /\ FoldLeft(+, 0, s) = h[n]
           /\ \A k \in 1 .. n : h[k] = h[k - 1] + s[k]
<1> DEFINE g == [i \in 1 .. n |-> [x \in Nat |-> x + s[i]]]
           F(f) == f = [t \in SUBSET (1 .. n) |-> IF t = {} THEN 0 ELSE f[t \ {Max(t)}] + s[Max(t)]]
           iter == CHOOSE f : F(f)
<1>1. g \in [1 .. n -> [Nat -> Nat]]
  OBVIOUS
<1>2. \E e : FoldOn(Nat, 0, g, n, e)
  <2> HIDE DEF g
  <2> QED
    BY <1>1, FoldFn
<1>3. PICK e : FoldOn(Nat, 0, g, n, e)
  BY <1>2
<1>4. F(e)
  <2>1. ASSUME NEW t \in SUBSET (1 .. n)
        PROVE  e[t] = IF t = {} THEN 0 ELSE e[t \ {Max(t)}] + s[Max(t)]
    <3>1. e[t] = FoldStep(0, g, e, t) /\ e[t \ {Max(t)}] \in Nat
      BY <1>3 DEF FoldOn
    <3>2. t # {} => Max(t) \in 1 .. n
      BY MaxRange
    <3> QED
      BY <3>1, <3>2 DEF FoldStep
  <2>2. e = [t \in SUBSET (1 .. n) |-> e[t]]
    BY <1>3 DEF FoldOn
  <2> QED
    BY <2>1, <2>2
<1>5. F(iter)
  <2> HIDE DEF F
  <2> QED
    BY <1>4
<1>6. FoldLeft(+, 0, s) = iter[1 .. n]
  <2>1. DOMAIN s = 1 .. n
    OBVIOUS
  <2> HIDE DEF g
  <2> QED
    BY <2>1 DEF FoldLeft, MapThenFoldSet
<1>7. \A t \in SUBSET (1 .. n) : iter[t] = IF t = {} THEN 0 ELSE iter[t \ {Max(t)}] + s[Max(t)]
  <2>1. \A f : F(f) => \A t \in SUBSET (1 .. n) : f[t] = IF t = {} THEN 0 ELSE f[t \ {Max(t)}] + s[Max(t)]
    OBVIOUS
  <2> HIDE DEF F, iter
  <2> QED
    BY <1>5, <2>1
<1> HIDE DEF iter, F
<1>8. iter[{}] = 0
  BY <1>7
<1>9. \A k \in 1 .. n : iter[1 .. (k - 1)] \in Nat => iter[1 .. k] = g[k][iter[1 .. (k - 1)]]
  <2>1. SUFFICES ASSUME NEW k \in 1 .. n, iter[1 .. (k - 1)] \in Nat
                 PROVE  iter[1 .. k] = g[k][iter[1 .. (k - 1)]]
    OBVIOUS
  <2>2. 1 .. k \in SUBSET (1 .. n) /\ k \in Nat \ {0}
    BY FirstOnes
  <2>3. iter[1 .. k] = iter[1 .. (k - 1)] + s[k]
    BY <1>7, <2>2, MaxOfRange
  <2> QED
    BY <2>1, <2>3
<1> HIDE DEF g
<1>10. PICK h : History(Nat, 0, n, g, h) /\ EndsAs(iter, n, h)
  <2>1. 0 \in Nat /\ Loops(Nat, 0, n, g, iter)
    BY <1>8, <1>9 DEF Loops
  <2>2. \E h : History(Nat, 0, n, g, h) /\ EndsAs(iter, n, h)
    BY <1>1, <2>1, FoldSteps
  <2> QED
    BY <2>2
<1>11. \A k \in 1 .. n : h[k] = h[k - 1] + s[k]
  <2>1. \A k \in 1 .. n : h[k] = g[k][h[k - 1]] /\ k - 1 \in 0 .. n /\ h[k - 1] \in Nat
    BY <1>10 DEF History
  <2> QED
    BY <2>1 DEF g
<1> QED
  BY <1>6, <1>10, <1>11 DEF History, EndsAs

(* What a line or a path may cost.                                         *)
Costs == Nat \cup {Impossible}

(* A sum of numbers is a number.                                           *)
LEMMA SumOf ==
  ASSUME NEW n \in Nat, NEW s \in [1 .. n -> Nat]
  PROVE  FoldLeft(+, 0, s) \in Nat /\ (n = 0 => FoldLeft(+, 0, s) = 0)
<1>1. PICK h \in [0 .. n -> Nat] : h[0] = 0 /\ FoldLeft(+, 0, s) = h[n]
  BY SumSteps
<1>2. n \in 0 .. n
  OBVIOUS
<1> QED
  BY <1>1, <1>2

(* One more term is added to the sum of the others.                        *)
LEMMA SumAppend ==
  ASSUME NEW n \in Nat, NEW s \in [1 .. n -> Nat], NEW t \in [1 .. n + 1 -> Nat],
         \A k \in 1 .. n : t[k] = s[k]
  PROVE  FoldLeft(+, 0, t) = FoldLeft(+, 0, s) + t[n + 1]
<1>1. PICK h \in [0 .. n -> Nat] :
        h[0] = 0 /\ FoldLeft(+, 0, s) = h[n] /\ \A k \in 1 .. n : h[k] = h[k - 1] + s[k]
  BY SumSteps
<1>2. n + 1 \in Nat
  OBVIOUS
<1>3. PICK i \in [0 .. n + 1 -> Nat] :
        i[0] = 0 /\ FoldLeft(+, 0, t) = i[n + 1] /\ \A k \in 1 .. n + 1 : i[k] = i[k - 1] + t[k]
  BY <1>2, SumSteps
<1> DEFINE S == {k \in 0 .. n : h[k] = i[k]}
<1>4. 0 \in S
  <2>1. 0 \in 0 .. n
    OBVIOUS
  <2> QED
    BY <1>1, <1>3, <2>1
<1>5. \A k \in 1 .. n : k - 1 \in S => k \in S
  <2>1. \A k \in 1 .. n : h[k] = h[k - 1] + s[k] /\ i[k] = i[k - 1] + s[k]
    <3>1. \A k \in 1 .. n : k \in 1 .. n + 1
      OBVIOUS
    <3> QED
      BY <1>1, <1>3, <3>1
  <2> QED
    BY <2>1
<1>6. n \in S
  <2>1. \A k \in 0 .. n : k \in S
    <3> HIDE DEF S
    <3> QED
      BY <1>4, <1>5, InductUpTo
  <2> QED
    BY <2>1
<1>7. i[n + 1] = i[n] + t[n + 1]
  <2>1. n + 1 \in 1 .. n + 1 /\ (n + 1) - 1 = n
    OBVIOUS
  <2> QED
    BY <2>1, <1>3
<1> QED
  BY <1>1, <1>3, <1>6, <1>7

(* Costs and their addition: impossible is no number and absorbs the rest. *)
LEMMA CostsType ==
  /\ Impossible \in Costs /\ Impossible \notin Nat
  /\ \A n \in Nat : n \in Costs /\ n # Impossible
  /\ \A x \in Costs : x # Impossible => x \in Nat
  /\ \A x, y \in Costs : Sum(x, y) \in Costs
  /\ \A x, y \in Costs : x # Impossible /\ y # Impossible <=> Sum(x, y) # Impossible
  /\ \A x, y \in Costs : Sum(x, y) # Impossible => Sum(x, y) = x + y
BY DEF Costs, Impossible, Sum

(* No lines cost nothing.                                                  *)
LEMMA CostOfNone == CostOfAll(<< >>) = 0
<1>1. << >> \in [1 .. 0 -> Nat] /\ ToSet(<< >>) = {}
  BY DEF ToSet
<1>2. FoldLeft(+, 0, << >>) = 0
  BY <1>1, SumOf
<1> QED
  BY <1>1, <1>2 DEF CostOfAll

(* One more line adds its cost to that of the others.                      *)
LEMMA CostOfOneMore ==
  ASSUME NEW n \in Nat, NEW e \in [1 .. n -> Costs], NEW t \in [1 .. n + 1 -> Costs],
         \A k \in 1 .. n : t[k] = e[k]
  PROVE  /\ CostOfAll(e) \in Costs
         /\ CostOfAll(t) = Sum(CostOfAll(e), t[n + 1])
<1>1. ToSet(t) = ToSet(e) \cup {t[n + 1]}
  <2>1. ToSet(t) = {t[k] : k \in 1 .. n + 1} /\ ToSet(e) = {e[k] : k \in 1 .. n}
    BY DEF ToSet
  <2>2. 1 .. n + 1 = (1 .. n) \cup {n + 1}
    OBVIOUS
  <2> QED
    BY <2>1, <2>2
<1>2. Impossible \notin ToSet(e) => e \in [1 .. n -> Nat]
  <2>1. Impossible \notin ToSet(e) => \A k \in 1 .. n : e[k] # Impossible
    BY DEF ToSet
  <2> QED
    BY <2>1, CostsType
<1>3. Impossible \notin ToSet(e) => CostOfAll(e) = FoldLeft(+, 0, e) /\ CostOfAll(e) \in Nat
  BY <1>2, SumOf DEF CostOfAll
<1>4. Impossible \in ToSet(e) => CostOfAll(e) = Impossible
  BY DEF CostOfAll
<1>5. CostOfAll(e) \in Costs
  BY <1>3, <1>4, CostsType
<1>6. t[n + 1] \in Costs
  OBVIOUS
<1>7. CASE Impossible \in ToSet(t)
  <2>1. CostOfAll(t) = Impossible
    BY <1>7 DEF CostOfAll
  <2>2. Impossible \in ToSet(e) \/ t[n + 1] = Impossible
    BY <1>1, <1>7
  <2> QED
    BY <2>1, <2>2, <1>4, <1>5 DEF Sum
<1>8. CASE Impossible \notin ToSet(t)
  <2>1. Impossible \notin ToSet(e) /\ t[n + 1] # Impossible
    BY <1>1, <1>8
  <2>2. t \in [1 .. n + 1 -> Nat]
    <3>1. \A k \in 1 .. n + 1 : t[k] # Impossible
      BY <1>8 DEF ToSet
    <3> QED
      BY <3>1, CostsType
  <2>3. FoldLeft(+, 0, t) = FoldLeft(+, 0, e) + t[n + 1]
    BY <1>2, <2>1, <2>2, SumAppend
  <2>4. CostOfAll(t) = CostOfAll(e) + t[n + 1]
    BY <1>3, <1>8, <2>1, <2>3 DEF CostOfAll
  <2> QED
    BY <2>4, <2>1, <1>3, CostsType DEF Sum
<1> QED
  BY <1>5, <1>7, <1>8

-----------------------------------------------------------------------------
(* The cheapest of some ways.                                              *)

(* A way: its cost and the breaks it goes over (BestPathState,             *)
(* knuth_plass.rs).                                                        *)
WaySet == [cost : Costs, from : Seq(Nat)]

(* BestWay, way by way (the loop over the previous breaks,                 *)
(* knuth_plass.rs).                                                        *)
LEMMA BestWaySteps ==
  ASSUME NEW n \in Nat, NEW ways \in [1 .. n -> WaySet]
  PROVE  \E h \in [0 .. n -> WaySet] :
           /\ h[0] = NoWay /\ BestWay(ways) = h[n]
           /\ \A k \in 1 .. n : h[k] = Cheaper(h[k - 1], ways[k])
<1> DEFINE g == [i \in 1 .. n |-> [x \in WaySet |-> Cheaper(x, ways[i])]]
           F(f) == f = [t \in SUBSET (1 .. n) |->
                         IF t = {} THEN NoWay ELSE Cheaper(f[t \ {Max(t)}], ways[Max(t)])]
           iter == CHOOSE f : F(f)
<1>0. NoWay \in WaySet /\ n \in Nat
  BY CostsType DEF WaySet, NoWay
<1>1. g \in [1 .. n -> [WaySet -> WaySet]]
  BY DEF Cheaper
<1>2. \E e : FoldOn(WaySet, NoWay, g, n, e)
  <2> HIDE DEF g
  <2> QED
    BY <1>0, <1>1, FoldFn
<1>3. PICK e : FoldOn(WaySet, NoWay, g, n, e)
  BY <1>2
<1>4. F(e)
  <2>1. ASSUME NEW t \in SUBSET (1 .. n)
        PROVE  e[t] = IF t = {} THEN NoWay ELSE Cheaper(e[t \ {Max(t)}], ways[Max(t)])
    <3>1. e[t] = FoldStep(NoWay, g, e, t) /\ e[t \ {Max(t)}] \in WaySet
      BY <1>3 DEF FoldOn
    <3>2. t # {} => Max(t) \in 1 .. n
      BY <1>0, MaxRange
    <3> QED
      BY <3>1, <3>2 DEF FoldStep
  <2>2. e = [t \in SUBSET (1 .. n) |-> e[t]]
    BY <1>3 DEF FoldOn
  <2> QED
    BY <2>1, <2>2
<1>5. F(iter)
  <2> HIDE DEF F
  <2> QED
    BY <1>4
<1>6. BestWay(ways) = iter[1 .. n]
  <2>1. DOMAIN (ways) = 1 .. n
    OBVIOUS
  <2> HIDE DEF g
  <2> QED
    BY <2>1 DEF FoldLeft, MapThenFoldSet, BestWay
<1>7. \A t \in SUBSET (1 .. n) :
        iter[t] = IF t = {} THEN NoWay ELSE Cheaper(iter[t \ {Max(t)}], ways[Max(t)])
  <2>1. \A f : F(f) => \A t \in SUBSET (1 .. n) :
          f[t] = IF t = {} THEN NoWay ELSE Cheaper(f[t \ {Max(t)}], ways[Max(t)])
    OBVIOUS
  <2> HIDE DEF F, iter
  <2> QED
    BY <1>5, <2>1
<1> HIDE DEF iter, F
<1>8. iter[{}] = NoWay
  BY <1>7
<1>9. \A k \in 1 .. n : iter[1 .. (k - 1)] \in WaySet => iter[1 .. k] = g[k][iter[1 .. (k - 1)]]
  <2>1. SUFFICES ASSUME NEW k \in 1 .. n, iter[1 .. (k - 1)] \in WaySet
                 PROVE  iter[1 .. k] = g[k][iter[1 .. (k - 1)]]
    OBVIOUS
  <2>2. 1 .. k \in SUBSET (1 .. n) /\ k \in Nat \ {0}
    BY <1>0, FirstOnes
  <2>3. iter[1 .. k] = Cheaper(iter[1 .. (k - 1)], ways[k])
    BY <1>7, <2>2, MaxOfRange
  <2> QED
    BY <2>1, <2>3
<1> HIDE DEF g
<1>10. PICK h : History(WaySet, NoWay, n, g, h) /\ EndsAs(iter, n, h)
  <2>1. Loops(WaySet, NoWay, n, g, iter)
    BY <1>8, <1>9 DEF Loops
  <2>2. \E h : History(WaySet, NoWay, n, g, h) /\ EndsAs(iter, n, h)
    BY <1>0, <1>1, <2>1, FoldSteps
  <2> QED
    BY <2>2
<1>11. \A k \in 1 .. n : h[k] = Cheaper(h[k - 1], ways[k])
  <2>1. \A k \in 1 .. n : h[k] = g[k][h[k - 1]] /\ k - 1 \in 0 .. n /\ h[k - 1] \in WaySet
    BY <1>0, <1>10 DEF History
  <2> QED
    BY <2>1 DEF g
<1> QED
  BY <1>6, <1>10, <1>11 DEF History, EndsAs

(* The best of some ways is one of the cheapest.                           *)
LEMMA BestOfWays ==
  ASSUME NEW n \in Nat, NEW ways \in [1 .. n -> WaySet]
  PROVE  /\ BestWay(ways) \in WaySet
         /\ \A k \in 1 .. n : ways[k].cost # Impossible =>
              BestWay(ways).cost # Impossible /\ BestWay(ways).cost <= ways[k].cost
         /\ BestWay(ways).cost # Impossible => \E k \in 1 .. n : BestWay(ways) = ways[k]
         /\ BestWay(ways).cost = Impossible => BestWay(ways).from = << >>
<1>1. PICK h \in [0 .. n -> WaySet] :
        /\ h[0] = NoWay /\ BestWay(ways) = h[n]
        /\ \A k \in 1 .. n : h[k] = Cheaper(h[k - 1], ways[k])
  BY BestWaySteps
<1> DEFINE Best(k) ==
             /\ \A j \in 1 .. k : ways[j].cost # Impossible =>
                  h[k].cost # Impossible /\ h[k].cost <= ways[j].cost
             /\ h[k].cost # Impossible => \E j \in 1 .. k : h[k] = ways[j]
             /\ h[k].cost = Impossible => h[k].from = << >>
           S == {k \in 0 .. n : Best(k)}
<1>2. 0 \in S
  <2>1. h[0].cost = Impossible /\ h[0].from = << >>
    BY <1>1 DEF NoWay
  <2> QED
    BY <2>1
<1>3. ASSUME NEW k \in 1 .. n, k - 1 \in S PROVE k \in S
  <2>1. Best(k - 1)
    BY <1>3
  <2>2. h[k] = Cheaper(h[k - 1], ways[k]) /\ h[k - 1] \in WaySet /\ ways[k] \in WaySet
    <3>1. k - 1 \in 0 .. n
      OBVIOUS
    <3> QED
      BY <3>1, <1>1
  <2>3. \A j \in 1 .. k : j = k \/ j \in 1 .. k - 1
    OBVIOUS
  <2>3a. \A j \in 1 .. k : j \in 1 .. n /\ ways[j] \in WaySet
    OBVIOUS
  <2>3b. k \in 1 .. k /\ \A j \in 1 .. k - 1 : j \in 1 .. k
    OBVIOUS
  <2>4. \A w \in WaySet : w.cost \in Costs
    BY DEF WaySet
  <2>5. CASE ways[k].cost # Impossible /\ (h[k - 1].cost = Impossible \/ ways[k].cost < h[k - 1].cost)
    <3>1. h[k] = ways[k] /\ ways[k].cost \in Nat
      BY <2>2, <2>4, <2>5, CostsType DEF Cheaper
    <3>2. ASSUME NEW j \in 1 .. k - 1, ways[j].cost # Impossible PROVE ways[k].cost <= ways[j].cost
      <4>1. h[k - 1].cost # Impossible /\ h[k - 1].cost <= ways[j].cost /\ ways[k].cost < h[k - 1].cost
        BY <2>1, <2>5, <3>2
      <4>2. h[k - 1].cost \in Nat /\ ways[j].cost \in Nat
        BY <4>1, <3>2, <2>2, <2>3a, <2>3b, <2>4, CostsType
      <4> QED
        BY <4>1, <4>2, <3>1
    <3>3. Best(k)
      BY <2>5, <3>1, <3>2, <2>3, <2>3b
    <3> QED
      BY <3>3
  <2>6. CASE ~ (ways[k].cost # Impossible /\ (h[k - 1].cost = Impossible \/ ways[k].cost < h[k - 1].cost))
    <3>1. h[k] = h[k - 1]
      BY <2>2, <2>6 DEF Cheaper
    <3>2. ways[k].cost # Impossible => h[k].cost # Impossible /\ h[k].cost <= ways[k].cost
      <4>1. SUFFICES ASSUME ways[k].cost # Impossible
                     PROVE  h[k].cost # Impossible /\ h[k].cost <= ways[k].cost
        OBVIOUS
      <4>2. h[k - 1].cost # Impossible /\ ~ (ways[k].cost < h[k - 1].cost)
        BY <2>6, <4>1
      <4>3. h[k - 1].cost \in Nat /\ ways[k].cost \in Nat
        BY <4>1, <4>2, <2>2, <2>4, CostsType
      <4> QED
        BY <3>1, <4>2, <4>3
    <3>3. Best(k)
      BY <2>1, <3>1, <3>2, <2>3, <2>3b
    <3> QED
      BY <3>3
  <2> QED
    BY <2>5, <2>6
<1>4. n \in S
  <2>1. n \in 0 .. n
    OBVIOUS
  <2> HIDE DEF S
  <2> QED
    BY <1>2, <1>3, <2>1, InductUpTo
<1>5. Best(n) /\ n \in 0 .. n
  BY <1>4
<1> QED
  BY <1>1, <1>5

-----------------------------------------------------------------------------
(* Paths through the candidates.                                           *)

(* Ways through the candidates: E[p][c] is the cost of the line from p to c. *)
Tables(m) == [0 .. m -> [1 .. m -> Costs]]
Path(c) == {q \in Seq(1 .. c - 1) : Increasing(q, Len(q))}
PathEdges(E, q, c) ==
  [k \in 1 .. Len(q) + 1 |-> E[IF k = 1 THEN 0 ELSE q[k - 1]][IF k > Len(q) THEN c ELSE q[k]]]
PathSum(E, q, c) == CostOfAll(PathEdges(E, q, c))

(* A path that is not empty is a path to its last break and that break.    *)
LEMMA PathCases ==
  ASSUME NEW c \in Nat \ {0}, NEW q \in Path(c), q # << >>
  PROVE  \E p \in 1 .. c - 1 : \E r \in Path(p) : q = Append(r, p)
<1> DEFINE n == Len(q)
           p == q[n]
           r == SubSeq(q, 1, n - 1)
<1>1. q \in Seq(1 .. c - 1) /\ n \in Nat /\ n > 0 /\ Increasing(q, n)
  BY DEF Path
<1>2. p \in 1 .. c - 1
  BY <1>1
<1>3. \A k \in 1 .. n - 1 : q[k] \in 1 .. p - 1
  <2>1. SUFFICES ASSUME NEW k \in 1 .. n - 1 PROVE q[k] \in 1 .. p - 1
    OBVIOUS
  <2>2. k \in 1 .. n /\ n \in 1 .. n /\ k < n
    BY <1>1
  <2>3. q[k] < q[n]
    BY <2>2, <1>1 DEF Increasing
  <2>4. q[k] \in 1 .. c - 1
    BY <2>2, <1>1
  <2> QED
    BY <2>3, <2>4, <1>2
<1>4. r \in Seq(1 .. p - 1) /\ Len(r) = n - 1 /\ \A k \in 1 .. n - 1 : r[k] = q[k]
  <2>1. 1 \in Int /\ n - 1 \in Int
    BY <1>1
  <2> HIDE DEF n, p
  <2>2. r \in Seq(1 .. p - 1)
    BY <2>1, <1>3, SubSeqProperties
  <2>3. Len(r) = IF 1 <= n - 1 THEN n - 1 - 1 + 1 ELSE 0
    BY <2>1, <1>3, SubSeqProperties
  <2>4. \A k \in 1 .. n - 1 - 1 + 1 : r[k] = q[1 + k - 1]
    BY <2>1, <1>3, SubSeqProperties
  <2> QED
    BY <1>1, <2>2, <2>3, <2>4
<1>5. Increasing(r, n - 1)
  <2>1. SUFFICES ASSUME NEW i \in 1 .. n - 1, NEW j \in 1 .. n - 1, i < j PROVE r[i] < r[j]
    BY DEF Increasing
  <2>2. i \in 1 .. n /\ j \in 1 .. n
    BY <1>1
  <2>3. r[i] = q[i] /\ r[j] = q[j]
    BY <1>4
  <2> HIDE DEF r, n
  <2> QED
    BY <2>1, <2>2, <2>3, <1>1 DEF Increasing
<1>6. r \in Path(p)
  BY <1>4, <1>5 DEF Path
<1>7. q = Append(r, p)
  <2>1. Append(r, p) \in Seq(1 .. c - 1) /\ Len(Append(r, p)) = n
    BY <1>1, <1>2, <1>4
  <2>2. \A k \in 1 .. n : q[k] = Append(r, p)[k]
    BY <1>1, <1>4
  <2> HIDE DEF r, p
  <2> QED
    BY <1>1, <2>1, <2>2, SeqEqual
<1> QED
  BY <1>2, <1>6, <1>7

(* A break behind a path makes a longer one.                               *)
LEMMA PathExtends ==
  ASSUME NEW c \in Nat \ {0}, NEW p \in 1 .. c - 1, NEW r \in Path(p)
  PROVE  /\ Append(r, p) \in Path(c)
         /\ r \in Seq(1 .. p - 1) /\ Len(r) \in Nat
         /\ Len(Append(r, p)) = Len(r) + 1
         /\ \A k \in 1 .. Len(r) : Append(r, p)[k] = r[k] /\ r[k] \in 1 .. p - 1
         /\ Append(r, p)[Len(r) + 1] = p
<1> DEFINE n == Len(r)
           q == Append(r, p)
<1>1. r \in Seq(1 .. p - 1) /\ n \in Nat /\ Increasing(r, n)
  BY DEF Path
<1>2. \A k \in 1 .. n : r[k] \in 1 .. p - 1
  BY <1>1
<1>3. r \in Seq(1 .. c - 1)
  BY <1>1
<1>4. q \in Seq(1 .. c - 1) /\ Len(q) = n + 1 /\ q[n + 1] = p /\ \A k \in 1 .. n : q[k] = r[k]
  BY <1>3
<1>5. Increasing(q, n + 1)
  <2>1. SUFFICES ASSUME NEW i \in 1 .. n + 1, NEW j \in 1 .. n + 1, i < j PROVE q[i] < q[j]
    BY DEF Increasing
  <2>2. i \in 1 .. n /\ q[i] = r[i] /\ r[i] \in 1 .. p - 1
    BY <2>1, <1>1, <1>2, <1>4
  <2>3. CASE j = n + 1
    BY <2>2, <2>3, <1>4
  <2>4. CASE j # n + 1
    <3>1. j \in 1 .. n /\ q[j] = r[j]
      BY <2>4, <1>1, <1>4
    <3> QED
      BY <2>1, <2>2, <3>1, <1>1 DEF Increasing
  <2> QED
    BY <2>3, <2>4
<1>6. q \in Path(c)
  BY <1>4, <1>5 DEF Path
<1> QED
  BY <1>1, <1>2, <1>4, <1>6

(* Without breaks between, the cost is that of the one line.               *)
LEMMA PathSumOfNone ==
  ASSUME NEW m \in Nat, NEW E \in Tables(m), NEW c \in 1 .. m
  PROVE  PathSum(E, << >>, c) = E[0][c] /\ PathSum(E, << >>, c) \in Costs /\ << >> \in Path(c)
<1> DEFINE t == PathEdges(E, << >>, c)
<1>1. E[0][c] \in Costs
  BY DEF Tables
<1>2. t = [k \in 1 .. 0 + 1 |-> E[0][c]]
  <2>1. t = [k \in 1 .. 0 + 1 |-> E[IF k = 1 THEN 0 ELSE << >>[k - 1]][IF k > 0 THEN c ELSE << >>[k]]]
    BY DEF PathEdges
  <2>2. \A k \in 1 .. 0 + 1 : k = 1 /\ k > 0
    OBVIOUS
  <2> QED
    BY <2>1, <2>2
<1>3. t \in [1 .. 0 + 1 -> Costs] /\ t[0 + 1] = E[0][c]
  BY <1>1, <1>2
<1>4. << >> \in [1 .. 0 -> Costs] /\ \A k \in 1 .. 0 : t[k] = << >>[k]
  OBVIOUS
<1> HIDE DEF t
<1>5. CostOfAll(t) = Sum(CostOfAll(<< >>), t[0 + 1])
  BY <1>3, <1>4, CostOfOneMore
<1>6. CostOfAll(t) = E[0][c]
  <2>1. Sum(0, E[0][c]) = E[0][c]
    BY <1>1 DEF Sum, Costs, Impossible
  <2> QED
    BY <2>1, <1>3, <1>5, CostOfNone
<1>7. << >> \in Path(c)
  BY DEF Path, Increasing
<1> QED
  BY <1>1, <1>6, <1>7 DEF PathSum, t

(* The last line adds its cost to that of the path before.                 *)
LEMMA PathSumAppend ==
  ASSUME NEW m \in Nat, NEW E \in Tables(m), NEW c \in 1 .. m, NEW p \in 1 .. c - 1, NEW r \in Path(p)
  PROVE  /\ PathSum(E, r, p) \in Costs
         /\ PathSum(E, Append(r, p), c) = Sum(PathSum(E, r, p), E[p][c])
<1> DEFINE n == Len(r)
           q == Append(r, p)
           e == PathEdges(E, r, p)
           t == PathEdges(E, q, c)
<1>1. /\ n \in Nat /\ Len(q) = n + 1 /\ q[n + 1] = p
      /\ \A k \in 1 .. n : q[k] = r[k] /\ r[k] \in 1 .. p - 1
  BY PathExtends
<1> HIDE DEF n, q
<1>2. p \in 1 .. m /\ \A i \in 0 .. m : \A j \in 1 .. m : E[i][j] \in Costs
  BY DEF Tables
<1>3. e = [k \in 1 .. n + 1 |-> E[IF k = 1 THEN 0 ELSE r[k - 1]][IF k > n THEN p ELSE r[k]]]
  BY DEF PathEdges, n
<1>4. t = [k \in 1 .. (n + 1) + 1 |-> E[IF k = 1 THEN 0 ELSE q[k - 1]][IF k > n + 1 THEN c ELSE q[k]]]
  BY <1>1 DEF PathEdges
<1> HIDE DEF e, t
<1>5. \A k \in 1 .. n + 1 :
        /\ (IF k = 1 THEN 0 ELSE r[k - 1]) \in 0 .. m
        /\ (IF k > n THEN p ELSE r[k]) \in 1 .. m
        /\ (IF k = 1 THEN 0 ELSE r[k - 1]) = (IF k = 1 THEN 0 ELSE q[k - 1])
        /\ (IF k > n THEN p ELSE r[k]) = (IF k > n + 1 THEN c ELSE q[k])
  <2>1. SUFFICES ASSUME NEW k \in 1 .. n + 1
        PROVE /\ (IF k = 1 THEN 0 ELSE r[k - 1]) \in 0 .. m
              /\ (IF k > n THEN p ELSE r[k]) \in 1 .. m
              /\ (IF k = 1 THEN 0 ELSE r[k - 1]) = (IF k = 1 THEN 0 ELSE q[k - 1])
              /\ (IF k > n THEN p ELSE r[k]) = (IF k > n + 1 THEN c ELSE q[k])
    OBVIOUS
  <2>2. k # 1 => k - 1 \in 1 .. n
    BY <1>1
  <2>3. k > n => k = n + 1
    BY <1>1
  <2>4. ~ (k > n) => k \in 1 .. n
    BY <1>1
  <2> QED
    BY <2>2, <2>3, <2>4, <1>1, <1>2
<1>6. e \in [1 .. n + 1 -> Costs]
  BY <1>2, <1>3, <1>5
<1>7. t[(n + 1) + 1] = E[p][c]
  <2>1. (n + 1) + 1 \in 1 .. (n + 1) + 1 /\ (n + 1) + 1 > n + 1 /\ (n + 1) + 1 # 1 /\ ((n + 1) + 1) - 1 = n + 1
    BY <1>1
  <2> QED
    BY <2>1, <1>1, <1>4
<1>8. \A k \in 1 .. n + 1 : t[k] = e[k]
  <2>1. \A k \in 1 .. n + 1 : k \in 1 .. (n + 1) + 1
    BY <1>1
  <2> QED
    BY <2>1, <1>3, <1>4, <1>5
<1>9. t \in [1 .. (n + 1) + 1 -> Costs]
  <2>1. \A k \in 1 .. (n + 1) + 1 : k \in 1 .. n + 1 \/ k = (n + 1) + 1
    BY <1>1
  <2>2. \A k \in 1 .. (n + 1) + 1 : t[k] \in Costs
    BY <2>1, <1>2, <1>6, <1>7, <1>8
  <2> QED
    BY <2>2, <1>4
<1>10. n + 1 \in Nat
  BY <1>1
<1>11. CostOfAll(e) \in Costs /\ CostOfAll(t) = Sum(CostOfAll(e), t[(n + 1) + 1])
  BY <1>6, <1>8, <1>9, <1>10, CostOfOneMore
<1> QED
  BY <1>7, <1>11 DEF PathSum, e, t, q

(* What a path costs is a cost.                                            *)
LEMMA PathSumType ==
  ASSUME NEW m \in Nat, NEW E \in Tables(m), NEW c \in 1 .. m, NEW q \in Path(c)
  PROVE  PathSum(E, q, c) \in Costs
<1>1. CASE q = << >>
  BY <1>1, PathSumOfNone
<1>2. CASE q # << >>
  <2>1. PICK p \in 1 .. c - 1 : \E r \in Path(p) : q = Append(r, p)
    BY <1>2, PathCases
  <2>2. PICK r \in Path(p) : q = Append(r, p)
    BY <2>1
  <2>3. PathSum(E, r, p) \in Costs /\ PathSum(E, q, c) = Sum(PathSum(E, r, p), E[p][c])
    BY <2>2, PathSumAppend
  <2>4. E[p][c] \in Costs
    BY DEF Tables
  <2> QED
    BY <2>3, <2>4, CostsType
<1> QED
  BY <1>1, <1>2

-----------------------------------------------------------------------------
(* The dynamic programming.                                                *)

(* What the dynamic programming knows of candidate c.                      *)
BestTo(E, c, w) ==
  /\ w \in WaySet
  /\ w.cost # Impossible => w.from \in Path(c) /\ PathSum(E, w.from, c) = w.cost
  /\ w.cost = Impossible => w.from = << >>
  /\ \A q \in Path(c) : PathSum(E, q, c) # Impossible =>
       w.cost # Impossible /\ w.cost <= PathSum(E, q, c)

(* The ways to candidate c, by the table.                                  *)
WaysIn(E, c, best) ==
  [k \in 1 .. c |-> [cost |-> Sum(best[k - 1].cost, E[k - 1][c]),
                     from |-> best[k - 1].from \o IF k - 1 = 0 THEN << >> ELSE <<k - 1>>]]

(* The parts of a way.                                                     *)
LEMMA WayFields ==
  ASSUME NEW w, NEW a, NEW b, w = [cost |-> a, from |-> b]
  PROVE  w.cost = a /\ w.from = b
OBVIOUS

(* The ways to a candidate are ways.                                       *)
LEMMA WaysInType ==
  ASSUME NEW m \in Nat, NEW E \in Tables(m), NEW c \in 1 .. m, NEW best \in [0 .. m -> WaySet]
  PROVE  WaysIn(E, c, best) \in [1 .. c -> WaySet]
<1>1. SUFFICES ASSUME NEW k \in 1 .. c
      PROVE [cost |-> Sum(best[k - 1].cost, E[k - 1][c]),
             from |-> best[k - 1].from \o IF k - 1 = 0 THEN << >> ELSE <<k - 1>>] \in WaySet
  BY DEF WaysIn
<1>2. k - 1 \in 0 .. m /\ k - 1 \in Nat
  OBVIOUS
<1>3. best[k - 1].cost \in Costs /\ best[k - 1].from \in Seq(Nat) /\ E[k - 1][c] \in Costs
  BY <1>2 DEF WaySet, Tables
<1>4. Sum(best[k - 1].cost, E[k - 1][c]) \in Costs
  BY <1>3, CostsType
<1>5. (IF k - 1 = 0 THEN << >> ELSE <<k - 1>>) \in Seq(Nat)
  BY <1>2
<1>6. best[k - 1].from \o (IF k - 1 = 0 THEN << >> ELSE <<k - 1>>) \in Seq(Nat)
  BY <1>3, <1>5, ConcatProperties
<1> QED
  BY <1>4, <1>6 DEF WaySet

(* One step of it.                                                         *)
LEMMA OneMoreCandidate ==
  ASSUME NEW m \in Nat, NEW E \in Tables(m), NEW c \in 1 .. m, NEW best \in [0 .. m -> WaySet],
         best[0] = [cost |-> 0, from |-> << >>],
         \A p \in 1 .. c - 1 : BestTo(E, p, best[p])
  PROVE  BestTo(E, c, BestWay(WaysIn(E, c, best)))
<1> DEFINE ways == WaysIn(E, c, best)
           w == BestWay(ways)
<1>1. /\ w \in WaySet
      /\ \A k \in 1 .. c : ways[k].cost # Impossible => w.cost # Impossible /\ w.cost <= ways[k].cost
      /\ w.cost # Impossible => \E k \in 1 .. c : w = ways[k]
      /\ w.cost = Impossible => w.from = << >>
  <2>1. ways \in [1 .. c -> WaySet] /\ c \in Nat
    BY WaysInType
  <2> HIDE DEF ways
  <2> QED
    BY <2>1, BestOfWays
<1>2. \A k \in 1 .. c :
        ways[k] = [cost |-> Sum(best[k - 1].cost, E[k - 1][c]),
                   from |-> best[k - 1].from \o IF k - 1 = 0 THEN << >> ELSE <<k - 1>>]
  BY DEF WaysIn
<1> HIDE DEF ways, w
<1>3. ways[1] = [cost |-> E[0][c], from |-> << >>]
  <2>1. 1 \in 1 .. c /\ 1 - 1 = 0
    OBVIOUS
  <2>2. E[0][c] \in Costs
    BY DEF Tables
  <2>3. Sum(0, E[0][c]) = E[0][c]
    BY <2>2 DEF Sum, Costs, Impossible
  <2>4. ways[1] = [cost |-> Sum(best[1 - 1].cost, E[1 - 1][c]),
                   from |-> best[1 - 1].from \o IF 1 - 1 = 0 THEN << >> ELSE <<1 - 1>>]
    BY <1>2, <2>1
  <2>5. best[1 - 1].cost = 0 /\ best[1 - 1].from = << >> /\ E[1 - 1][c] = E[0][c]
    BY <2>1
  <2>6. best[1 - 1].from \o (IF 1 - 1 = 0 THEN << >> ELSE <<1 - 1>>) = << >>
    BY <2>1, <2>5
  <2> QED
    BY <2>3, <2>4, <2>5, <2>6
<1>4. ASSUME NEW p \in 1 .. c - 1
      PROVE  ways[p + 1].cost = Sum(best[p].cost, E[p][c]) /\ ways[p + 1].from = best[p].from \o <<p>>
  <2>1. p + 1 \in 1 .. c /\ (p + 1) - 1 = p /\ p # 0
    OBVIOUS
  <2>2. ways[p + 1] = [cost |-> Sum(best[(p + 1) - 1].cost, E[(p + 1) - 1][c]),
                       from |-> best[(p + 1) - 1].from \o IF (p + 1) - 1 = 0 THEN << >> ELSE <<(p + 1) - 1>>]
    BY <1>2, <2>1
  <2>3. /\ ways[p + 1].cost = Sum(best[(p + 1) - 1].cost, E[(p + 1) - 1][c])
        /\ ways[p + 1].from = best[(p + 1) - 1].from \o IF (p + 1) - 1 = 0 THEN << >> ELSE <<(p + 1) - 1>>
    <3> DEFINE a == Sum(best[(p + 1) - 1].cost, E[(p + 1) - 1][c])
               b == best[(p + 1) - 1].from \o IF (p + 1) - 1 = 0 THEN << >> ELSE <<(p + 1) - 1>>
    <3>1. ways[p + 1] = [cost |-> a, from |-> b]
      BY <2>2
    <3> HIDE DEF a, b
    <3>2. ways[p + 1].cost = a /\ ways[p + 1].from = b
      BY <3>1
    <3> QED
      BY <3>2 DEF a, b
  <2> QED
    BY <2>1, <2>3
<1>5. ASSUME w.cost # Impossible
      PROVE  w.from \in Path(c) /\ PathSum(E, w.from, c) = w.cost
  <2>1. PICK k \in 1 .. c : w = ways[k]
    BY <1>1, <1>5
  <2>2. CASE k = 1
    BY <2>1, <2>2, <1>3, PathSumOfNone
  <2>3. CASE k # 1
    <3> DEFINE p == k - 1
    <3>1. p \in 1 .. c - 1 /\ k = p + 1
      BY <2>3
    <3> HIDE DEF p
    <3>2. w.cost = Sum(best[p].cost, E[p][c]) /\ w.from = best[p].from \o <<p>>
      BY <2>1, <3>1, <1>4
    <3>3. BestTo(E, p, best[p])
      BY <3>1
    <3>4. best[p].cost # Impossible
      BY <3>2, <1>5 DEF Sum
    <3>5. best[p].from \in Path(p) /\ PathSum(E, best[p].from, p) = best[p].cost
      BY <3>3, <3>4 DEF BestTo
    <3>6. Append(best[p].from, p) \in Path(c)
          /\ PathSum(E, Append(best[p].from, p), c) = Sum(best[p].cost, E[p][c])
      BY <3>1, <3>5, PathExtends, PathSumAppend
    <3>7. best[p].from \o <<p>> = Append(best[p].from, p)
      <4>1. p \in Nat
        BY <3>1
      <4>2. best[p] \in WaySet
        BY ONLY <3>3 DEF BestTo
      <4>3. best[p].from \in Seq(Nat)
        BY ONLY <4>2 DEF WaySet
      <4> QED
        BY <4>1, <4>3, AppendIsConcat
    <3> QED
      BY <3>2, <3>6, <3>7
  <2> QED
    BY <2>2, <2>3
<1>6. ASSUME NEW q \in Path(c), PathSum(E, q, c) # Impossible
      PROVE  w.cost # Impossible /\ w.cost <= PathSum(E, q, c)
  <2>1. CASE q = << >>
    <3>1. PathSum(E, q, c) = E[0][c] /\ 1 \in 1 .. c /\ ways[1].cost = E[0][c]
      BY <2>1, <1>3, PathSumOfNone
    <3> QED
      BY <3>1, <1>1, <1>6
  <2>2. CASE q # << >>
    <3>1. PICK p \in 1 .. c - 1 : \E r \in Path(p) : q = Append(r, p)
      BY <2>2, PathCases
    <3>2. PICK r \in Path(p) : q = Append(r, p)
      BY <3>1
    <3>3. PathSum(E, r, p) \in Costs /\ PathSum(E, q, c) = Sum(PathSum(E, r, p), E[p][c])
      BY <3>2, PathSumAppend
    <3>4. E[p][c] \in Costs
      BY DEF Tables
    <3>5. PathSum(E, r, p) # Impossible /\ E[p][c] # Impossible
          /\ PathSum(E, q, c) = PathSum(E, r, p) + E[p][c]
      BY <3>3, <3>4, <1>6, CostsType
    <3>6. best[p].cost # Impossible /\ best[p].cost <= PathSum(E, r, p) /\ best[p].cost \in Costs
      BY <3>5 DEF BestTo, WaySet
    <3>7. ways[p + 1].cost = best[p].cost + E[p][c] /\ ways[p + 1].cost # Impossible
      <4>1. ways[p + 1].cost = Sum(best[p].cost, E[p][c])
        BY <1>4
      <4> QED
        BY <4>1, <3>4, <3>5, <3>6, CostsType
    <3>8. p + 1 \in 1 .. c
      OBVIOUS
    <3>9. w.cost # Impossible /\ w.cost <= ways[p + 1].cost
      BY <1>1, <3>7, <3>8
    <3>10. w.cost \in Nat /\ best[p].cost \in Nat /\ E[p][c] \in Nat /\ PathSum(E, r, p) \in Nat
      BY <1>1, <3>3, <3>4, <3>5, <3>6, <3>9, CostsType DEF WaySet
    <3>11. w.cost <= best[p].cost + E[p][c] /\ PathSum(E, q, c) = PathSum(E, r, p) + E[p][c]
      BY <3>5, <3>7, <3>9
    <3>12. w.cost <= PathSum(E, q, c)
      BY <3>6, <3>10, <3>11
    <3> QED
      BY <3>9, <3>12
  <2> QED
    BY <2>1, <2>2
<1> QED
  BY <1>1, <1>5, <1>6 DEF BestTo, w, ways

(* The table of the code: from the paragraph's start or from behind a candidate. *)
EdgeTable(start, candidates, overfull) ==
  [p \in 0 .. Len(candidates) |-> [c \in 1 .. Len(candidates) |->
     edge_cost(LineStart(start, candidates, p), candidates[c], overfull)]]

(* The ways of the model are those of the table.                           *)
LEMMA WaysAreIn ==
  ASSUME NEW start, NEW candidates, NEW overfull, NEW best,
         Len(candidates) \in Nat, NEW c \in 1 .. Len(candidates)
  PROVE  Ways(start, candidates, c, best, overfull) = WaysIn(EdgeTable(start, candidates, overfull), c, best)
<1> DEFINE m == Len(candidates)
           E == EdgeTable(start, candidates, overfull)
<1>1. ASSUME NEW k \in 1 .. c
      PROVE  edge_cost(LineStart(start, candidates, k - 1), candidates[c], overfull) = E[k - 1][c]
  <2>1. k - 1 \in 0 .. m /\ c \in 1 .. m
    OBVIOUS
  <2> QED
    BY <2>1 DEF EdgeTable
<1> HIDE DEF E
<1>2. Ways(start, candidates, c, best, overfull) =
        [k \in 1 .. c |->
           [cost |-> Sum(best[k - 1].cost, edge_cost(LineStart(start, candidates, k - 1), candidates[c], overfull)),
            from |-> best[k - 1].from \o IF k - 1 = 0 THEN << >> ELSE <<k - 1>>]]
  BY DEF Ways
<1> QED
  BY <1>1, <1>2 DEF WaysIn, E

(* One turn of the loop of compute_best_path.                              *)
PathStep(start, candidates, overfull, best, i) ==
  LET c == [c \in DOMAIN candidates |-> c][i]
  IN [best EXCEPT ![c] = BestWay(Ways(start, candidates, c, best, overfull))]

(* The states of all candidates after the loop.                            *)
Best(start, candidates, overfull) ==
  LET step(best, c) == [best EXCEPT ![c] = BestWay(Ways(start, candidates, c, best, overfull))]
  IN FoldLeft(step, NoWays(Len(candidates)), [c \in DOMAIN candidates |-> c])

(* compute_best_path, candidate by candidate.                              *)
LEMMA PathSteps ==
  ASSUME NEW start, NEW candidates, NEW overfull, NEW m, m = Len(candidates), m \in Nat,
         DOMAIN candidates = 1 .. m, EdgeTable(start, candidates, overfull) \in Tables(m)
  PROVE  \E h \in [0 .. m -> [0 .. m -> WaySet]] :
           /\ h[0] = NoWays(m) /\ Best(start, candidates, overfull) = h[m]
           /\ \A k \in 1 .. m : h[k] = PathStep(start, candidates, overfull, h[k - 1], k)
<1> DEFINE g == [i \in 1 .. m |-> [x \in [0 .. m -> WaySet] |-> PathStep(start, candidates, overfull, x, i)]]
           F(f) == f = [t \in SUBSET (1 .. m) |->
                         IF t = {} THEN NoWays(m) ELSE PathStep(start, candidates, overfull, f[t \ {Max(t)}], Max(t))]
           iter == CHOOSE f : F(f)
<1>0. NoWays(m) \in [0 .. m -> WaySet] /\ m \in Nat
  BY CostsType DEF NoWays, NoWay, WaySet
<1>1. g \in [1 .. m -> [[0 .. m -> WaySet] -> [0 .. m -> WaySet]]]
  <2>1. ASSUME NEW c \in 1 .. m, NEW x \in [0 .. m -> WaySet]
        PROVE  PathStep(start, candidates, overfull, x, c) \in [0 .. m -> WaySet]
    <3> DEFINE E == EdgeTable(start, candidates, overfull)
    <3>1. Ways(start, candidates, c, x, overfull) = WaysIn(E, c, x)
      BY WaysAreIn
    <3>2. WaysIn(E, c, x) \in [1 .. c -> WaySet] /\ c \in Nat
      BY WaysInType
    <3>3. BestWay(WaysIn(E, c, x)) \in WaySet
      <4> HIDE DEF E
      <4> QED
        BY <3>2, BestOfWays
    <3>4. PathStep(start, candidates, overfull, x, c) = [x EXCEPT ![c] = BestWay(WaysIn(E, c, x))]
      BY <3>1 DEF PathStep
    <3> HIDE DEF E
    <3> QED
      BY <3>3, <3>4
  <2> QED
    BY <2>1
<1>2. \E e : FoldOn([0 .. m -> WaySet], NoWays(m), g, m, e)
  <2> HIDE DEF g
  <2> QED
    BY <1>0, <1>1, FoldFn
<1>3. PICK e : FoldOn([0 .. m -> WaySet], NoWays(m), g, m, e)
  BY <1>2
<1>4. F(e)
  <2>1. ASSUME NEW t \in SUBSET (1 .. m)
        PROVE  e[t] = IF t = {} THEN NoWays(m) ELSE PathStep(start, candidates, overfull, e[t \ {Max(t)}], Max(t))
    <3>1. e[t] = FoldStep(NoWays(m), g, e, t) /\ e[t \ {Max(t)}] \in [0 .. m -> WaySet]
      BY <1>3 DEF FoldOn
    <3>2. t # {} => Max(t) \in 1 .. m
      BY <1>0, MaxRange
    <3> QED
      BY <3>1, <3>2 DEF FoldStep
  <2>2. e = [t \in SUBSET (1 .. m) |-> e[t]]
    BY <1>3 DEF FoldOn
  <2> QED
    BY <2>1, <2>2
<1>5. F(iter)
  <2> HIDE DEF F
  <2> QED
    BY <1>4
<1>6. Best(start, candidates, overfull) = iter[1 .. m]
  <2>1. DOMAIN ([c \in DOMAIN candidates |-> c]) = 1 .. m
    OBVIOUS
  <2> HIDE DEF g
  <2> QED
    BY <2>1 DEF FoldLeft, MapThenFoldSet, Best, PathStep
<1>7. \A t \in SUBSET (1 .. m) :
        iter[t] = IF t = {} THEN NoWays(m) ELSE PathStep(start, candidates, overfull, iter[t \ {Max(t)}], Max(t))
  <2>1. \A f : F(f) => \A t \in SUBSET (1 .. m) :
          f[t] = IF t = {} THEN NoWays(m) ELSE PathStep(start, candidates, overfull, f[t \ {Max(t)}], Max(t))
    OBVIOUS
  <2> HIDE DEF F, iter
  <2> QED
    BY <1>5, <2>1
<1> HIDE DEF iter, F
<1>8. iter[{}] = NoWays(m)
  BY <1>7
<1>9. \A k \in 1 .. m : iter[1 .. (k - 1)] \in [0 .. m -> WaySet] => iter[1 .. k] = g[k][iter[1 .. (k - 1)]]
  <2>1. SUFFICES ASSUME NEW k \in 1 .. m, iter[1 .. (k - 1)] \in [0 .. m -> WaySet]
                 PROVE  iter[1 .. k] = g[k][iter[1 .. (k - 1)]]
    OBVIOUS
  <2>2. 1 .. k \in SUBSET (1 .. m) /\ k \in Nat \ {0}
    BY <1>0, FirstOnes
  <2>3. iter[1 .. k] = PathStep(start, candidates, overfull, iter[1 .. (k - 1)], k)
    BY <1>7, <2>2, MaxOfRange
  <2> QED
    BY <2>1, <2>3
<1> HIDE DEF g
<1>10. PICK h : History([0 .. m -> WaySet], NoWays(m), m, g, h) /\ EndsAs(iter, m, h)
  <2>1. Loops([0 .. m -> WaySet], NoWays(m), m, g, iter)
    BY <1>8, <1>9 DEF Loops
  <2>2. \E h : History([0 .. m -> WaySet], NoWays(m), m, g, h) /\ EndsAs(iter, m, h)
    BY <1>0, <1>1, <2>1, FoldSteps
  <2> QED
    BY <2>2
<1>11. \A k \in 1 .. m : h[k] = PathStep(start, candidates, overfull, h[k - 1], k)
  <2>1. SUFFICES ASSUME NEW k \in 1 .. m
                 PROVE  h[k] = PathStep(start, candidates, overfull, h[k - 1], k)
    OBVIOUS
  <2>2. h[k] = g[k][h[k - 1]] /\ h \in [0 .. m -> [0 .. m -> WaySet]]
    BY <1>10 DEF History
  <2>3. k - 1 \in 0 .. m
    BY <1>0
  <2>4. h[k - 1] \in [0 .. m -> WaySet]
    BY <2>2, <2>3
  <2> QED
    BY <2>2, <2>4 DEF g
<1> QED
  BY <1>6, <1>10, <1>11 DEF History, EndsAs

(* What is known of the candidates of a paragraph.                         *)
Measured(start, candidates, overfull, m) ==
  /\ m = Len(candidates) /\ m \in Nat \ {0} /\ DOMAIN candidates = 1 .. m
  /\ EdgeTable(start, candidates, overfull) \in Tables(m)

(* The last state is the best way to the end of the paragraph.             *)
LEMMA BestOfAll ==
  ASSUME NEW start, NEW candidates, NEW overfull, NEW m, Measured(start, candidates, overfull, m)
  PROVE  BestTo(EdgeTable(start, candidates, overfull), m, compute_best_path(start, candidates, overfull))
<1> DEFINE E == EdgeTable(start, candidates, overfull)
<1>1. m \in Nat \ {0} /\ m = Len(candidates) /\ E \in Tables(m) /\ DOMAIN candidates = 1 .. m
  BY DEF Measured
<1>2. PICK h \in [0 .. m -> [0 .. m -> WaySet]] :
        /\ h[0] = NoWays(m) /\ Best(start, candidates, overfull) = h[m]
        /\ \A k \in 1 .. m : h[k] = PathStep(start, candidates, overfull, h[k - 1], k)
  BY <1>1, PathSteps
<1>3. ASSUME NEW k \in 1 .. m
      PROVE  h[k - 1] \in [0 .. m -> WaySet]
             /\ h[k] = [h[k - 1] EXCEPT ![k] = BestWay(WaysIn(E, k, h[k - 1]))]
  <2>1. k - 1 \in 0 .. m
    BY <1>1
  <2>2. h[k - 1] \in [0 .. m -> WaySet]
    BY <1>2, <2>1
  <2>3. Ways(start, candidates, k, h[k - 1], overfull) = WaysIn(E, k, h[k - 1])
    BY <1>1, WaysAreIn
  <2>4. h[k] = PathStep(start, candidates, overfull, h[k - 1], k)
    BY <1>2
  <2>5. ([c \in DOMAIN candidates |-> c])[k] = k
    BY <1>1
  <2> HIDE DEF E
  <2> QED
    BY <2>2, <2>3, <2>4, <2>5 DEF PathStep
<1> HIDE DEF E
<1> DEFINE Good(k) == h[k][0] = [cost |-> 0, from |-> << >>] /\ \A p \in 1 .. k : BestTo(E, p, h[k][p])
           S == {k \in 0 .. m : Good(k)}
<1>4. 0 \in S
  <2>1. h[0][0] = [cost |-> 0, from |-> << >>]
    <3>1. 0 \in 0 .. m
      BY <1>1
    <3> QED
      BY <3>1, <1>2 DEF NoWays
  <2> QED
    BY <1>1, <2>1
<1>5. ASSUME NEW k \in 1 .. m, k - 1 \in S PROVE k \in S
  <2>1. Good(k - 1)
    BY <1>5
  <2>2. h[k - 1] \in [0 .. m -> WaySet] /\ h[k] = [h[k - 1] EXCEPT ![k] = BestWay(WaysIn(E, k, h[k - 1]))]
    BY <1>3
  <2>3. BestTo(E, k, BestWay(WaysIn(E, k, h[k - 1])))
    <3> DEFINE best == h[k - 1]
    <3>1. best[0] = [cost |-> 0, from |-> << >>] /\ \A p \in 1 .. k - 1 : BestTo(E, p, best[p])
      BY <2>1
    <3>2. best \in [0 .. m -> WaySet]
      BY <2>2
    <3> HIDE DEF best, Good, S
    <3>3. BestTo(E, k, BestWay(WaysIn(E, k, best)))
      BY <1>1, <3>1, <3>2, OneMoreCandidate
    <3> QED
      BY <3>3 DEF best
  <2>4. k \in 0 .. m /\ k # 0 /\ \A p \in 1 .. k : p \in 0 .. m /\ (p # k => p \in 1 .. k - 1)
    BY <1>1
  <2>5. h[k][k] = BestWay(WaysIn(E, k, h[k - 1])) /\ \A p \in 0 .. m : p # k => h[k][p] = h[k - 1][p]
    BY <2>2, <2>4
  <2>6. h[k][0] = h[k - 1][0]
    <3>1. 0 \in 0 .. m /\ 0 # k
      BY <1>1
    <3> QED
      BY <2>5, <3>1
  <2>7. ASSUME NEW p \in 1 .. k PROVE BestTo(E, p, h[k][p])
    <3>1. CASE p = k
      BY <3>1, <2>3, <2>5
    <3>2. CASE p # k
      <4>1. p \in 1 .. k - 1 /\ h[k][p] = h[k - 1][p]
        BY <2>4, <2>5, <3>2
      <4> QED
        BY <2>1, <4>1
    <3> QED
      BY <3>1, <3>2
  <2> QED
    BY <2>1, <2>4, <2>6, <2>7
<1>6. m \in S
  <2>1. \A k \in 0 .. m : k \in S
    <3> HIDE DEF S
    <3> QED
      BY <1>1, <1>4, <1>5, InductUpTo
  <2> QED
    BY <1>1, <2>1
<1>7. BestTo(E, m, h[m][m])
  <2>1. m \in 1 .. m
    BY <1>1
  <2> QED
    BY <2>1, <1>6
<1>8. compute_best_path(start, candidates, overfull) = Best(start, candidates, overfull)[m]
  BY <1>1 DEF compute_best_path, Best
<1> QED
  BY <1>2, <1>7, <1>8 DEF E

(* The specification's cost of a path is the one of the table.             *)
LEMMA PathCostIsSum ==
  ASSUME NEW start, NEW candidates, NEW overfull, NEW m, Measured(start, candidates, overfull, m),
         NEW q \in Path(m)
  PROVE  PathCost(start, candidates, q, overfull) = PathSum(EdgeTable(start, candidates, overfull), q, m)
<1> DEFINE E == EdgeTable(start, candidates, overfull)
           n == Len(q)
           P(k) == IF k = 1 THEN 0 ELSE q[k - 1]
           C(k) == IF k > n THEN m ELSE q[k]
<1>1. m \in Nat \ {0} /\ m = Len(candidates)
  BY DEF Measured
<1>2. n \in Nat /\ \A k \in 1 .. n : q[k] \in 1 .. m - 1
  <2>1. q \in Seq(1 .. m - 1)
    BY DEF Path
  <2>2. n \in Nat
    BY <2>1
  <2>3. \A k \in 1 .. n : q[k] \in 1 .. m - 1
    BY <2>1, ElementOfSeq
  <2> QED
    BY <2>2, <2>3
<1>3. ASSUME NEW k \in 1 .. n + 1
      PROVE  P(k) \in 0 .. m /\ C(k) \in 1 .. m
  <2>1. k # 1 => k - 1 \in 1 .. n
    BY <1>2
  <2>2. ~ (k > n) => k \in 1 .. n
    BY <1>2
  <2>3. k # 1 => P(k) \in 1 .. m - 1
    BY <1>2, <2>1
  <2>4. ~ (k > n) => C(k) \in 1 .. m - 1
    BY <1>2, <2>2
  <2> QED
    BY <1>1, <2>3, <2>4
<1>4. ASSUME NEW k \in 1 .. n + 1
      PROVE  edge_cost(LineStart(start, candidates, P(k)),
                       IF k > n THEN Last(candidates) ELSE candidates[q[k]], overfull)
             = E[P(k)][C(k)]
  <2>1. (IF k > n THEN Last(candidates) ELSE candidates[q[k]]) = candidates[C(k)]
    BY <1>1 DEF Last
  <2>2. ASSUME NEW p \in 0 .. m, NEW c \in 1 .. m
        PROVE  E[p][c] = edge_cost(LineStart(start, candidates, p), candidates[c], overfull)
    BY <1>1 DEF EdgeTable
  <2> HIDE DEF E, P, C
  <2> QED
    BY <1>3, <2>1, <2>2
<1>5. [k \in 1 .. n + 1 |->
         edge_cost(LineStart(start, candidates, P(k)),
                   IF k > n THEN Last(candidates) ELSE candidates[q[k]], overfull)]
      = [k \in 1 .. n + 1 |-> E[P(k)][C(k)]]
  <2> HIDE DEF E, P, C, n
  <2> QED
    BY <1>4
<1>6. PathCost(start, candidates, q, overfull) = CostOfAll([k \in 1 .. n + 1 |-> E[P(k)][C(k)]])
  BY <1>5 DEF PathCost
<1> QED
  BY <1>6 DEF PathSum, PathEdges

(* The sets of candidates and the paths are the same thing.                *)
LEMMA SetsArePaths ==
  ASSUME NEW m \in Nat \ {0}
  PROVE  /\ \A s \in SUBSET (1 .. m - 1) : Ascending(s) \in Path(m)
         /\ \A q \in Path(m) : \E s \in SUBSET (1 .. m - 1) : q = Ascending(s)
<1>1. ASSUME NEW s \in SUBSET (1 .. m - 1) PROVE Ascending(s) \in Path(m)
  <2>1. s \in SUBSET Int /\ IsFiniteSet(s)
    <3>1. m - 1 \in Int /\ 1 \in Int /\ s \subseteq 1 .. m - 1
      OBVIOUS
    <3>2. IsFiniteSet(1 .. m - 1)
      BY <3>1, FS_Interval
    <3>3. IsFiniteSet(s)
      BY <3>1, <3>2, FS_Subset
    <3> QED
      BY <3>1, <3>3
  <2>2. Ascending(s) \in Seq(s) /\ Increasing(Ascending(s), Len(Ascending(s)))
    BY <2>1, AscendingSorts
  <2>3. Ascending(s) \in Seq(1 .. m - 1)
    BY <2>2, SeqMonotonic
  <2> QED
    BY <2>2, <2>3 DEF Path
<1>2. ASSUME NEW q \in Path(m) PROVE \E s \in SUBSET (1 .. m - 1) : q = Ascending(s)
  <2> DEFINE n == Len(q)
             s == {q[k] : k \in 1 .. n}
  <2>1. n \in Nat /\ q \in Seq(1 .. m - 1) /\ Increasing(q, n)
    BY DEF Path
  <2>2. \A k \in 1 .. n : q[k] \in 1 .. m - 1
    BY <2>1
  <2>3. s \in SUBSET (1 .. m - 1) /\ s \in SUBSET Int
    BY <2>2
  <2>4. q \in [1 .. n -> s] /\ \A x \in s : \E k \in 1 .. n : q[k] = x
    BY <2>1
  <2> HIDE DEF n, s
  <2>5. q = Ascending(s)
    BY <2>1, <2>3, <2>4, AscendingIsOnly
  <2> QED
    BY <2>3, <2>5
<1> QED
  BY <1>1, <1>2

(* What is found is the cheapest of all possible choices, if there is one. *)
LEMMA BestIsMin ==
  ASSUME NEW start, NEW candidates, NEW overfull, NEW m, Measured(start, candidates, overfull, m)
  PROVE  /\ Possible(start, candidates, overfull) # {}
              <=> compute_best_path(start, candidates, overfull).cost # Impossible
         /\ Possible(start, candidates, overfull) # {} =>
              PathCost(start, candidates, compute_best_path(start, candidates, overfull).from, overfull)
                = Min(Possible(start, candidates, overfull))
<1> DEFINE E == EdgeTable(start, candidates, overfull)
           w == compute_best_path(start, candidates, overfull)
           V == Possible(start, candidates, overfull)
<1>1. m \in Nat \ {0} /\ m = Len(candidates) /\ E \in Tables(m) /\ m \in 1 .. m
  BY DEF Measured
<1>2. BestTo(E, m, w)
  BY BestOfAll
<1>3. ASSUME NEW v \in V
      PROVE  \E q \in Path(m) : v = PathSum(E, q, m) /\ v # Impossible
  <2>1. PICK s \in SUBSET (1 .. m - 1) : v = PathCost(start, candidates, Ascending(s), overfull)
    BY <1>1 DEF Possible
  <2>2. v # Impossible
    BY DEF Possible
  <2>3. Ascending(s) \in Path(m)
    BY <1>1, SetsArePaths
  <2>4. v = PathSum(E, Ascending(s), m)
    BY <2>1, <2>3, PathCostIsSum
  <2> QED
    BY <2>2, <2>3, <2>4
<1>4. ASSUME NEW q \in Path(m), PathSum(E, q, m) # Impossible
      PROVE  PathSum(E, q, m) \in V
  <2>1. PICK s \in SUBSET (1 .. m - 1) : q = Ascending(s)
    BY <1>1, SetsArePaths
  <2>2. PathCost(start, candidates, Ascending(s), overfull) = PathSum(E, q, m)
    BY <2>1, PathCostIsSum
  <2> QED
    BY <1>1, <1>4, <2>2 DEF Possible
<1>5. V \subseteq Nat
  <2>1. \A q \in Path(m) : PathSum(E, q, m) \in Costs
    BY <1>1, PathSumType
  <2> HIDE DEF E, V
  <2> QED
    BY <1>3, <2>1, CostsType
<1> HIDE DEF E, w, V
<1>6. \A v \in V : w.cost # Impossible /\ w.cost <= v
  BY <1>2, <1>3 DEF BestTo
<1>7. w.cost # Impossible => w.cost \in V /\ w.from \in Path(m) /\ PathSum(E, w.from, m) = w.cost
  BY <1>2, <1>4 DEF BestTo
<1>8. V # {} <=> w.cost # Impossible
  BY <1>6, <1>7
<1>9. ASSUME V # {} PROVE PathCost(start, candidates, w.from, overfull) = Min(V)
  <2>1. w.cost \in V /\ w.from \in Path(m) /\ PathSum(E, w.from, m) = w.cost /\ \A v \in V : w.cost <= v
    BY <1>6, <1>7, <1>8, <1>9
  <2>2. Min(V) \in V /\ \A v \in V : Min(V) <= v
    BY <2>1 DEF Min
  <2>3. Min(V) = w.cost
    <3>1. Min(V) \in Nat /\ w.cost \in Nat /\ Min(V) <= w.cost /\ w.cost <= Min(V)
      BY <1>5, <2>1, <2>2
    <3> QED
      BY <3>1
  <2> QED
    BY <2>1, <2>3, PathCostIsSum DEF E
<1> QED
  BY <1>8, <1>9 DEF w, V

(* Strict lines if there is a way, and else the best of the others.        *)
LEMMA SolvedIsBest ==
  ASSUME NEW start, NEW candidates, NEW m,
         Measured(start, candidates, FALSE, m), Measured(start, candidates, TRUE, m)
  PROVE  SolvedBest(start, candidates)
<1>1. CASE Possible(start, candidates, FALSE) # {}
  <2>1. solve_paragraph(start, candidates) = compute_best_path(start, candidates, FALSE).from
    BY <1>1, BestIsMin DEF solve_paragraph, Prefer
  <2> QED
    BY <1>1, <2>1, BestIsMin DEF SolvedBest, IsBest
<1>2. CASE Possible(start, candidates, FALSE) = {}
  <2>1. solve_paragraph(start, candidates) = compute_best_path(start, candidates, TRUE).from
    BY <1>2, BestIsMin DEF solve_paragraph, Prefer
  <2> QED
    BY <1>2, <2>1, BestIsMin DEF SolvedBest, IsBest
<1> QED
  BY <1>1, <1>2

-----------------------------------------------------------------------------
(* What the list holds.                                                    *)

(* The metrics of an item.                                                 *)
Metrics == {"width", "stretch", "shrink"}

(* The items of a list.                                                    *)
ListItems == [kind : {"char", "glue", "penalty", "forced"},
          width : Nat, stretch : Nat, shrink : Nat, value : Nat]

(* The type invariant.                                                     *)
LinesOK == hlist \in Seq(ListItems)

(* Widths, stretches and shrinks are numbers.                              *)
LEMMA ItemMetrics == \A item \in ListItems : \A field \in Metrics : item[field] \in Nat
BY DEF ListItems, Metrics

(* The list is empty at first.                                             *)
LEMMA ListInitially == LinesInit => LinesOK
BY DEF LinesInit, LinesOK

(* The parameters and the items made from them have their types.           *)
LEMMA Constants ==
  /\ LineWidth \in Nat /\ LinePenalty \in Nat /\ Tolerance \in Nat /\ MaxBadness \in Nat
  /\ HyphenPenalty \in Nat /\ CharWidths \subseteq Nat
  /\ Glue \in ListItems /\ Hyphen \in ListItems /\ Forced \in ListItems
  /\ \A w \in CharWidths : Char(w) \in ListItems
<1>1. /\ LineWidth \in Nat /\ LinePenalty \in Nat /\ Tolerance \in Nat /\ MaxBadness \in Nat
      /\ HyphenPenalty \in Nat /\ CharWidths \subseteq Nat
      /\ Space \in [width : Nat, stretch : Nat, shrink : Nat]
  BY LineAssumption
<1> QED
  BY <1>1 DEF Glue, Hyphen, Forced, Char, ListItems

(* Every step appends items.                                               *)
LEMMA ListSteps == LinesOK /\ LinesNext => LinesOK'
<1>1. SUFFICES ASSUME LinesOK, LinesNext PROVE LinesOK'
  OBVIOUS
<1>2. hlist \in Seq(ListItems)
  BY <1>1 DEF LinesOK
<1>3. ASSUME NEW w \in CharWidths, hlist' = hlist \o <<Hyphen, Char(w)>> PROVE LinesOK'
  <2>1. <<Hyphen, Char(w)>> \in Seq(ListItems)
    BY Constants
  <2> QED
    BY <1>2, <1>3, <2>1, ConcatProperties DEF LinesOK
<1>4. ASSUME NEW item \in ListItems, hlist' = Append(hlist, item) PROVE LinesOK'
  BY <1>2, <1>4, AppendProperties DEF LinesOK
<1> QED
  BY <1>1, <1>3, <1>4, Constants DEF LinesNext

(* A list holds items.                                                     *)
LEMMA AllItems == LinesSpec => []LinesOK
<1>1. LinesOK /\ [LinesNext]_hlist => LinesOK'
  BY ListSteps DEF LinesOK
<1> QED
  BY ListInitially, <1>1, PTL DEF LinesSpec

(* The cube of a positive number is positive.                              *)
LEMMA Cubes == \A a \in Nat \ {0} : a * a * a \in Nat \ {0}
<1>1. SUFFICES ASSUME NEW a \in Nat \ {0} PROVE a * a * a \in Nat \ {0}
  OBVIOUS
<1>2. ASSUME NEW x \in Nat \ {0}, NEW y \in Nat \ {0} PROVE x * y \in Nat \ {0}
  OBVIOUS
<1>3. a * a \in Nat \ {0}
  BY <1>2
<1> QED
  BY <1>2, <1>3

(* A quotient is a number.                                                 *)
LEMMA Quotients == \A a \in Int : \A b \in Nat \ {0} : a \div b \in Int
OBVIOUS

(* A badness is a number.                                                  *)
LEMMA BadnessType ==
  ASSUME NEW d \in Nat, NEW a \in Nat \ {0}
  PROVE  Badness(d, a) \in Int
<1> DEFINE q == (100 * d * d * d) \div (a * a * a)
<1>1. 100 * d * d * d \in Int
  OBVIOUS
<1>2. q \in Int
  BY <1>1, Cubes, Quotients
<1> HIDE DEF q
<1>3. MaxBadness \in Int
  BY Constants
<1>4. \E x \in {MaxBadness, q} : \A y \in {MaxBadness, q} : x <= y
  BY <1>2, <1>3
<1>5. Min({MaxBadness, q}) \in {MaxBadness, q}
  BY <1>4 DEF Min
<1>6. Min({MaxBadness, q}) \in Int
  BY <1>2, <1>3, <1>5
<1> QED
  BY <1>6 DEF Badness, q

(* A square is not negative.                                               *)
LEMMA SquareType == \A n \in Int : Square(n) \in Nat
BY DEF Square

-----------------------------------------------------------------------------
(* The cost of a line.                                                     *)

(* What metrics_between adds up.                                           *)
Summed(field, s) == FoldLeft(LAMBDA sum, item : sum + item[field], 0, s)

(* The metrics of some items, item by item.                                *)
AddsUp(h, field, s, n) ==
  /\ h[0] = 0 /\ Summed(field, s) = h[n]
  /\ \A k \in 1 .. n : h[k] = h[k - 1] + s[k][field]

(* What is added up has such a history.                                    *)
LEMMA MetricSteps ==
  ASSUME NEW n \in Nat, NEW s \in [1 .. n -> ListItems], NEW field \in Metrics
  PROVE  \E h \in [0 .. n -> Nat] : AddsUp(h, field, s, n)
<1> DEFINE g == [i \in 1 .. n |-> [x \in Nat |-> x + s[i][field]]]
           F(f) == f = [t \in SUBSET (1 .. n) |->
                         IF t = {} THEN 0 ELSE f[t \ {Max(t)}] + s[Max(t)][field]]
           iter == CHOOSE f : F(f)
<1>0. 0 \in Nat /\ n \in Nat
  OBVIOUS
<1>1. g \in [1 .. n -> [Nat -> Nat]]
  BY ItemMetrics
<1>2. \E e : FoldOn(Nat, 0, g, n, e)
  <2> HIDE DEF g
  <2> QED
    BY <1>0, <1>1, FoldFn
<1>3. PICK e : FoldOn(Nat, 0, g, n, e)
  BY <1>2
<1>4. F(e)
  <2>1. ASSUME NEW t \in SUBSET (1 .. n)
        PROVE  e[t] = IF t = {} THEN 0 ELSE e[t \ {Max(t)}] + s[Max(t)][field]
    <3>1. e[t] = FoldStep(0, g, e, t) /\ e[t \ {Max(t)}] \in Nat
      BY <1>3 DEF FoldOn
    <3>2. t # {} => Max(t) \in 1 .. n
      BY <1>0, MaxRange
    <3> QED
      BY <3>1, <3>2 DEF FoldStep
  <2>2. e = [t \in SUBSET (1 .. n) |-> e[t]]
    BY <1>3 DEF FoldOn
  <2> QED
    BY <2>1, <2>2
<1>5. F(iter)
  <2> HIDE DEF F
  <2> QED
    BY <1>4
<1>6. Summed(field, s) = iter[1 .. n]
  <2>1. DOMAIN (s) = 1 .. n
    OBVIOUS
  <2> HIDE DEF g
  <2> QED
    BY <2>1 DEF FoldLeft, MapThenFoldSet, Summed
<1>7. \A t \in SUBSET (1 .. n) :
        iter[t] = IF t = {} THEN 0 ELSE iter[t \ {Max(t)}] + s[Max(t)][field]
  <2>1. \A f : F(f) => \A t \in SUBSET (1 .. n) :
          f[t] = IF t = {} THEN 0 ELSE f[t \ {Max(t)}] + s[Max(t)][field]
    OBVIOUS
  <2> HIDE DEF F, iter
  <2> QED
    BY <1>5, <2>1
<1> HIDE DEF iter, F
<1>8. iter[{}] = 0
  BY <1>7
<1>9. \A k \in 1 .. n : iter[1 .. (k - 1)] \in Nat => iter[1 .. k] = g[k][iter[1 .. (k - 1)]]
  <2>1. SUFFICES ASSUME NEW k \in 1 .. n, iter[1 .. (k - 1)] \in Nat
                 PROVE  iter[1 .. k] = g[k][iter[1 .. (k - 1)]]
    OBVIOUS
  <2>2. 1 .. k \in SUBSET (1 .. n) /\ k \in Nat \ {0}
    BY <1>0, FirstOnes
  <2>3. Max(1 .. k) = k /\ 1 .. k # {} /\ (1 .. k) \ {k} = 1 .. (k - 1)
    BY <2>2, MaxOfRange
  <2>4. iter[1 .. k] = IF 1 .. k = {} THEN 0
                         ELSE iter[(1 .. k) \ {Max(1 .. k)}] + s[Max(1 .. k)][field]
    BY <1>7, <2>2
  <2>5. iter[1 .. k] = iter[1 .. (k - 1)] + s[k][field]
    BY <2>3, <2>4
  <2> QED
    BY <2>1, <2>5
<1> HIDE DEF g
<1>10. PICK h : History(Nat, 0, n, g, h) /\ EndsAs(iter, n, h)
  <2>1. Loops(Nat, 0, n, g, iter)
    BY <1>8, <1>9 DEF Loops
  <2>2. \E h : History(Nat, 0, n, g, h) /\ EndsAs(iter, n, h)
    BY <1>0, <1>1, <2>1, FoldSteps
  <2> QED
    BY <2>2
<1>11. \A k \in 1 .. n : h[k] = h[k - 1] + s[k][field]
  <2>1. \A k \in 1 .. n : h[k] = g[k][h[k - 1]] /\ k - 1 \in 0 .. n /\ h[k - 1] \in Nat
    BY <1>0, <1>10 DEF History
  <2> QED
    BY <2>1 DEF g
<1> QED
  BY <1>6, <1>10, <1>11 DEF History, EndsAs, AddsUp

(* The metrics of a part of the list are numbers (metrics_between).        *)
LEMMA MetricsType ==
  ASSUME LinesOK, NEW field \in Metrics, NEW start \in Nat \ {0}, NEW end \in Int, end <= Len(hlist) + 1
  PROVE  metrics_between(field, start, end) \in Nat
<1> DEFINE s == SubSeq(hlist, start, end - 1)
           n == Len(s)
<1>1. hlist \in Seq(ListItems) /\ Len(hlist) \in Nat
  BY DEF LinesOK
<1>2. \A k \in start .. end - 1 : hlist[k] \in ListItems
  BY <1>1
<1>3. s \in Seq(ListItems)
  BY <1>2, SubSeqProperties
<1>4. n \in Nat /\ s \in [1 .. n -> ListItems] /\ field \in Metrics
  <2> HIDE DEF s
  <2> QED
    BY <1>3, LenProperties
<1> HIDE DEF s, n
<1>5. PICK h \in [0 .. n -> Nat] : AddsUp(h, field, s, n)
  BY <1>4, MetricSteps
<1>6. h[n] \in Nat
  <2>1. n \in 0 .. n
    BY <1>4
  <2> QED
    BY <1>5, <2>1
<1> QED
  BY <1>5, <1>6 DEF AddsUp, metrics_between, Summed, s

(* How a line fits is a number (adjustment_feasibility).                   *)
LEMMA FitType ==
  ASSUME LinesOK, NEW delta \in Int, NEW start \in Nat \ {0}, NEW candidate,
         candidate.measure_end \in Int, candidate.measure_end <= Len(hlist) + 1
  PROVE  adjustment_feasibility(delta, start, candidate).badness \in Int
<1> DEFINE adjustment == metrics_between(IF delta > 0 THEN "stretch" ELSE "shrink", start, candidate.measure_end)
           distance == IF delta < 0 THEN - delta ELSE delta
<1>1. adjustment \in Nat
  BY MetricsType DEF Metrics
<1>2. distance \in Nat
  OBVIOUS
<1> HIDE DEF adjustment, distance
<1>3. MaxBadness \in Int /\ MaxBadness \div 2 \in Int
  BY Constants, Quotients
<1>4. adjustment # 0 => Badness(distance, adjustment) \in Int
  BY <1>1, <1>2, BadnessType
<1>5. Adjusted(delta, adjustment).badness \in Int
  BY <1>3, <1>4 DEF Adjusted, Judged, distance
<1> QED
  BY <1>5 DEF adjustment_feasibility, adjustment

(* The cost of a line is a number or impossible.                           *)
LEMMA EdgeType ==
  ASSUME LinesOK, NEW start \in Nat \ {0}, NEW candidate, NEW overfull,
         candidate.measure_end \in Int, candidate.measure_end <= Len(hlist) + 1,
         candidate.value \in Int
  PROVE  edge_cost(start, candidate, overfull) \in Costs
<1> DEFINE width == metrics_between("width", start, candidate.measure_end)
<1>1. width \in Nat
  BY MetricsType DEF Metrics
<1>2. LineWidth - width \in Int
  BY <1>1, Constants
<1> HIDE DEF width
<1> DEFINE fit == adjustment_feasibility(LineWidth - width, start, candidate)
<1>3. fit.badness \in Int
  BY <1>2, FitType
<1>4. LinePenalty + fit.badness + candidate.value \in Int
  BY <1>3, Constants
<1>5. Square(LinePenalty + fit.badness + candidate.value) \in Nat
  BY <1>4, SquareType
<1>6. Demerits(fit, candidate.value, overfull) \in Costs
  BY <1>5 DEF Demerits, Costs
<1>7. CostOf(width, start, candidate, overfull) \in Costs
  BY <1>6 DEF CostOf, Costs
<1> QED
  BY <1>7 DEF edge_cost, width

-----------------------------------------------------------------------------
(* The candidates.                                                         *)

(* Skipping items ends within the list or just behind it, at the first     *)
(* item of another kind.                                                   *)
LEMMA SkipFromType ==
  ASSUME LinesOK, NEW i \in 1 .. Len(hlist) + 2, NEW kinds, "none" \notin kinds
  PROVE  /\ SkipFrom(i, kinds) \in i .. Len(hlist) + 2
         /\ Kind(SkipFrom(i, kinds)) \notin kinds
         /\ \A k \in i .. SkipFrom(i, kinds) - 1 : Kind(k) \in kinds
<1> DEFINE e == Len(hlist) + 2
           T == {j \in i .. e : Kind(j) \notin kinds}
<1>1. e \in Nat /\ i \in Nat /\ i <= e /\ DOMAIN hlist = 1 .. e - 2
  BY DEF LinesOK
<1>2. Kind(e) \notin kinds
  <2>1. e \notin DOMAIN hlist
    BY <1>1
  <2> QED
    BY <2>1 DEF Kind
<1> HIDE DEF e
<1>3. T \in SUBSET Nat /\ T # {}
  BY <1>1, <1>2
<1>4. PICK j \in T : \A k \in T : j <= k
  BY <1>3, Smallest
<1>5. \A k \in i .. j - 1 : Kind(k) \in kinds
  <2>1. SUFFICES ASSUME NEW k \in i .. j - 1, Kind(k) \notin kinds PROVE FALSE
    OBVIOUS
  <2>2. j \in i .. e
    OBVIOUS
  <2>3. k \in i .. e /\ ~ (j <= k)
    BY <1>1, <2>2
  <2> QED
    BY <1>4, <2>1, <2>3
<1>6. j \in i .. e /\ Kind(j) \notin kinds
  OBVIOUS
<1>7. \E x \in i .. e : Kind(x) \notin kinds /\ \A k \in i .. x - 1 : Kind(k) \in kinds
  BY <1>5, <1>6
<1> QED
  BY <1>7 DEF SkipFrom, e

(* A trimmed end is within the list; what is trimmed is spaces and hyphens, *)
(* and all of those at the end.                                            *)
LEMMA TrimToType ==
  ASSUME LinesOK, NEW start \in Nat \ {0}, NEW end \in 1 .. Len(hlist) + 1
  PROVE  /\ TrimTo(start, end) \in 1 .. Len(hlist) + 1
         /\ end <= start => TrimTo(start, end) = end
         /\ start <= end =>
              /\ TrimTo(start, end) \in start .. end
              /\ \A k \in TrimTo(start, end) .. end - 1 : Kind(k) \in {"glue", "penalty"}
              /\ \/ TrimTo(start, end) = start
                 \/ Kind(TrimTo(start, end) - 1) \notin {"glue", "penalty"}
<1> DEFINE Trim(k) == Kind(k) \in {"glue", "penalty"}
           T == {j \in start .. end : \A k \in j .. end - 1 : Trim(k)}
<1>0. Len(hlist) \in Nat
  BY DEF LinesOK
<1>1. CASE end <= start
  BY <1>1 DEF TrimTo
<1>2. CASE ~ (end <= start)
  <2>1. T \in SUBSET Nat /\ T # {}
    <3>1. end \in start .. end /\ end .. end - 1 = {} /\ start .. end \subseteq Nat
      BY <1>2
    <3> QED
      BY <3>1
  <2>2. PICK j \in T : \A k \in T : j <= k
    BY <2>1, Smallest
  <2>3. j \in start .. end /\ \A k \in j .. end - 1 : Trim(k)
    OBVIOUS
  <2>4. j # start => ~ Trim(j - 1)
    <3>1. SUFFICES ASSUME j # start, Trim(j - 1) PROVE FALSE
      OBVIOUS
    <3>2. j - 1 \in start .. end
      BY <2>3, <3>1
    <3>3. ASSUME NEW k \in j - 1 .. end - 1 PROVE Trim(k)
      <4>1. k = j - 1 \/ k \in j .. end - 1
        BY <2>3
      <4> HIDE DEF Trim
      <4> QED
        BY <3>1, <4>1, <2>3
    <3>4. j - 1 \in T
      BY <3>2, <3>3
    <3>5. j <= j - 1
      BY <2>2, <3>4
    <3> QED
      BY <2>3, <3>5
  <2>5. \E x \in start .. end : (\A k \in x .. end - 1 : Trim(k)) /\ (x = start \/ ~ Trim(x - 1))
    BY <2>3, <2>4
  <2> DEFINE t == TrimTo(start, end)
  <2>6. t \in start .. end /\ (\A k \in t .. end - 1 : Trim(k)) /\ (t = start \/ ~ Trim(t - 1))
    BY <1>2, <2>5 DEF TrimTo
  <2> HIDE DEF t, T
  <2>7. t \in 1 .. Len(hlist) + 1
    BY <1>0, <2>6
  <2> QED
    BY <1>2, <2>6, <2>7 DEF t
<1> QED
  BY <1>1, <1>2

(* A break point of a paragraph that ends before end.                      *)
Candidates(end) ==
  [break_index : Int, measure_end : {e \in Int : e <= end}, next_start : Nat \ {0},
   value : Nat, terminal : BOOLEAN]

(* A break point is measured up to the paragraph's end at most, and the    *)
(* next line begins behind it.                                             *)
LEMMA CandidateType ==
  ASSUME LinesOK, NEW start \in Nat \ {0}, NEW end \in Int, end <= Len(hlist) + 1,
         NEW i \in start .. end - 1
  PROVE  Candidate(i) \in Candidates(end)
<1>1. i \in 1 .. Len(hlist) /\ Len(hlist) \in Nat /\ hlist \in Seq(ListItems)
  BY DEF LinesOK
<1>2. hlist[i].value \in Nat
  <2>1. hlist[i] \in ListItems
    BY <1>1, ElementOfSeq
  <2> QED
    BY <2>1 DEF ListItems
<1>3. advance_line_start(i + 1) \in Nat \ {0}
  <2>1. i + 1 \in 1 .. Len(hlist) + 2
    BY <1>1
  <2>2. SkipFrom(i + 1, {"glue"}) \in i + 1 .. Len(hlist) + 2
    BY <2>1, SkipFromType
  <2> QED
    BY <2>1, <2>2 DEF advance_line_start
<1>4. (IF Kind(i) = "glue" THEN i - 1 ELSE i) \in Int
      /\ (IF Kind(i) = "glue" THEN i ELSE i + 1) \in {e \in Int : e <= end}
  OBVIOUS
<1> QED
  BY <1>2, <1>3, <1>4 DEF Candidate, Candidates

(* The candidates of a paragraph; its end is always one                    *)
(* (collect_candidates).                                                   *)
LEMMA CollectType ==
  ASSUME LinesOK, NEW start \in Nat \ {0}, NEW end \in Nat, start < end, end <= Len(hlist) + 1
  PROVE  /\ collect_candidates(start, end) \in Seq(Candidates(end))
         /\ Len(collect_candidates(start, end)) > 0
<1> DEFINE S == {i \in start .. end - 1 : CanBreak(i, start)}
           breaks == Ascending(S)
           n == Cardinality(S)
           all == [k \in DOMAIN breaks |-> Candidate(breaks[k])]
<1>1. S \in SUBSET Int /\ IsFiniteSet(S)
  <2>1. S \subseteq start .. end - 1 /\ start \in Int /\ end - 1 \in Int /\ start .. end - 1 \subseteq Int
    OBVIOUS
  <2>2. IsFiniteSet(start .. end - 1)
    BY <2>1, FS_Interval
  <2> HIDE DEF S
  <2> QED
    BY <2>1, <2>2, FS_Subset
<1>2. n \in Nat /\ breaks \in [1 .. n -> S]
  <2> HIDE DEF S
  <2> QED
    BY <1>1, AscendingSorts
<1>3. \A k \in 1 .. n : Candidate(breaks[k]) \in Candidates(end)
  <2>1. \A i \in S : Candidate(i) \in Candidates(end)
    BY CandidateType
  <2> HIDE DEF S, breaks
  <2> QED
    BY <1>2, <2>1
<1> HIDE DEF S, breaks, n
<1>4. all = [k \in 1 .. n |-> Candidate(breaks[k])]
  BY <1>2
<1>5. all \in [1 .. n -> Candidates(end)]
  BY <1>3, <1>4
<1>6. all \in Seq(Candidates(end))
  BY <1>2, <1>5
<1>7. Terminal(end) \in Candidates(end)
  BY DEF Terminal, Candidates
<1>8. collect_candidates(start, end) = Append(all, Terminal(end))
  BY DEF collect_candidates, breaks, S
<1> HIDE DEF all
<1> QED
  BY <1>6, <1>7, <1>8, AppendProperties, LenProperties

(* Every line between two candidates has a cost.                           *)
LEMMA CandidatesMeasured ==
  ASSUME LinesOK, NEW start \in Nat \ {0}, NEW end \in Nat, end <= Len(hlist) + 1,
         NEW candidates \in Seq(Candidates(end)), Len(candidates) > 0, NEW overfull
  PROVE  Measured(start, candidates, overfull, Len(candidates))
<1> DEFINE m == Len(candidates)
<1>1. m \in Nat \ {0} /\ DOMAIN candidates = 1 .. m
  BY LenProperties
<1>2. ASSUME NEW p \in 0 .. m, NEW c \in 1 .. m
      PROVE  edge_cost(LineStart(start, candidates, p), candidates[c], overfull) \in Costs
  <2>1. ASSUME NEW k \in 1 .. m PROVE candidates[k] \in Candidates(end)
    BY ElementOfSeq
  <2> HIDE DEF m
  <2>2. LineStart(start, candidates, p) \in Nat \ {0}
    <3>1. CASE p = 0
      BY <3>1 DEF LineStart
    <3>2. CASE p # 0
      <4>1. p \in 1 .. m
        BY <1>1, <3>2
      <4>2. candidates[p].next_start \in Nat \ {0}
        BY <2>1, <4>1 DEF Candidates
      <4> QED
        BY <3>2, <4>2 DEF LineStart
    <3> QED
      BY <3>1, <3>2
  <2>3. candidates[c].measure_end \in Int /\ candidates[c].measure_end <= end /\ candidates[c].value \in Nat
    BY <2>1 DEF Candidates
  <2>4. Len(hlist) \in Nat
    BY DEF LinesOK
  <2>5. candidates[c].measure_end <= Len(hlist) + 1 /\ candidates[c].value \in Int
    BY <2>3, <2>4
  <2> QED
    BY <2>2, <2>3, <2>5, EdgeType
<1>3. EdgeTable(start, candidates, overfull) \in Tables(m)
  <2> HIDE DEF m
  <2>1. EdgeTable(start, candidates, overfull) =
          [p \in 0 .. m |-> [c \in 1 .. m |->
             edge_cost(LineStart(start, candidates, p), candidates[c], overfull)]]
    BY DEF EdgeTable, m
  <2> QED
    BY <1>2, <2>1 DEF Tables
<1> QED
  BY <1>1, <1>3 DEF Measured

-----------------------------------------------------------------------------
(* The paragraphs.                                                         *)

(* The fold over the ends of the paragraphs.                               *)
AddParagraph(done, end) ==
  [start |-> advance_line_start(end + 1),
   all |-> Append(done.all, <<done.start, TrimTo(done.start, end)>>)]
NoParagraphs == [start |-> 1, all |-> << >>]
Done(ends) == FoldLeft(AddParagraph, NoParagraphs, ends)
DoneSet == [start : 1 .. Len(hlist) + 2, all : Seq((1 .. Len(hlist) + 2) \X (1 .. Len(hlist) + 1))]

(* A paragraph starts and ends within the list.                            *)
LEMMA AddType ==
  ASSUME LinesOK, NEW done \in DoneSet, NEW end \in 1 .. Len(hlist) + 1
  PROVE  AddParagraph(done, end) \in DoneSet
<1>1. Len(hlist) \in Nat
  BY DEF LinesOK
<1>2. done.start \in 1 .. Len(hlist) + 2 /\ done.all \in Seq((1 .. Len(hlist) + 2) \X (1 .. Len(hlist) + 1))
  BY DEF DoneSet
<1>3. advance_line_start(end + 1) \in 1 .. Len(hlist) + 2
  <2>1. end + 1 \in 1 .. Len(hlist) + 2
    BY <1>1
  <2>2. SkipFrom(end + 1, {"glue"}) \in end + 1 .. Len(hlist) + 2
    BY <2>1, SkipFromType
  <2> QED
    BY <1>1, <2>1, <2>2 DEF advance_line_start
<1>4. TrimTo(done.start, end) \in 1 .. Len(hlist) + 1
  <2>1. done.start \in Nat \ {0}
    BY <1>1, <1>2
  <2> QED
    BY <2>1, TrimToType
<1>5. <<done.start, TrimTo(done.start, end)>> \in (1 .. Len(hlist) + 2) \X (1 .. Len(hlist) + 1)
  BY <1>2, <1>4
<1>6. Append(done.all, <<done.start, TrimTo(done.start, end)>>)
        \in Seq((1 .. Len(hlist) + 2) \X (1 .. Len(hlist) + 1))
  BY <1>2, <1>5, AppendProperties
<1> QED
  BY <1>3, <1>6 DEF AddParagraph, DoneSet

(* The paragraphs, one by one.                                             *)
LEMMA ParagraphSteps ==
  ASSUME LinesOK, NEW n \in Nat, NEW ends \in [1 .. n -> 1 .. Len(hlist) + 1]
  PROVE  \E h \in [0 .. n -> DoneSet] :
           /\ h[0] = NoParagraphs /\ Done(ends) = h[n]
           /\ \A k \in 1 .. n : h[k] = AddParagraph(h[k - 1], ends[k])
<1> DEFINE g == [i \in 1 .. n |-> [x \in DoneSet |-> AddParagraph(x, ends[i])]]
           F(f) == f = [t \in SUBSET (1 .. n) |->
                         IF t = {} THEN NoParagraphs ELSE AddParagraph(f[t \ {Max(t)}], ends[Max(t)])]
           iter == CHOOSE f : F(f)
<1>0. NoParagraphs \in DoneSet /\ n \in Nat
  <2>1. Len(hlist) \in Nat
    BY DEF LinesOK
  <2>2. 1 \in 1 .. Len(hlist) + 2
    BY <2>1
  <2>3. << >> \in Seq((1 .. Len(hlist) + 2) \X (1 .. Len(hlist) + 1))
    BY EmptySeq
  <2> QED
    BY <2>2, <2>3 DEF NoParagraphs, DoneSet
<1>1. g \in [1 .. n -> [DoneSet -> DoneSet]]
  BY AddType
<1>2. \E e : FoldOn(DoneSet, NoParagraphs, g, n, e)
  <2> HIDE DEF g
  <2> QED
    BY <1>0, <1>1, FoldFn
<1>3. PICK e : FoldOn(DoneSet, NoParagraphs, g, n, e)
  BY <1>2
<1>4. F(e)
  <2>1. ASSUME NEW t \in SUBSET (1 .. n)
        PROVE  e[t] = IF t = {} THEN NoParagraphs ELSE AddParagraph(e[t \ {Max(t)}], ends[Max(t)])
    <3>1. e[t] = FoldStep(NoParagraphs, g, e, t) /\ e[t \ {Max(t)}] \in DoneSet
      BY <1>3 DEF FoldOn
    <3>2. t # {} => Max(t) \in 1 .. n
      BY <1>0, MaxRange
    <3> QED
      BY <3>1, <3>2 DEF FoldStep
  <2>2. e = [t \in SUBSET (1 .. n) |-> e[t]]
    BY <1>3 DEF FoldOn
  <2> QED
    BY <2>1, <2>2
<1>5. F(iter)
  <2> HIDE DEF F
  <2> QED
    BY <1>4
<1>6. Done(ends) = iter[1 .. n]
  <2>1. DOMAIN (ends) = 1 .. n
    OBVIOUS
  <2> HIDE DEF g
  <2> QED
    BY <2>1 DEF FoldLeft, MapThenFoldSet, Done
<1>7. \A t \in SUBSET (1 .. n) :
        iter[t] = IF t = {} THEN NoParagraphs ELSE AddParagraph(iter[t \ {Max(t)}], ends[Max(t)])
  <2>1. \A f : F(f) => \A t \in SUBSET (1 .. n) :
          f[t] = IF t = {} THEN NoParagraphs ELSE AddParagraph(f[t \ {Max(t)}], ends[Max(t)])
    OBVIOUS
  <2> HIDE DEF F, iter
  <2> QED
    BY <1>5, <2>1
<1> HIDE DEF iter, F
<1>8. iter[{}] = NoParagraphs
  BY <1>7
<1>9. \A k \in 1 .. n : iter[1 .. (k - 1)] \in DoneSet => iter[1 .. k] = g[k][iter[1 .. (k - 1)]]
  <2>1. SUFFICES ASSUME NEW k \in 1 .. n, iter[1 .. (k - 1)] \in DoneSet
                 PROVE  iter[1 .. k] = g[k][iter[1 .. (k - 1)]]
    OBVIOUS
  <2>2. 1 .. k \in SUBSET (1 .. n) /\ k \in Nat \ {0}
    BY <1>0, FirstOnes
  <2>3. iter[1 .. k] = AddParagraph(iter[1 .. (k - 1)], ends[k])
    BY <1>7, <2>2, MaxOfRange
  <2> QED
    BY <2>1, <2>3
<1> HIDE DEF g
<1>10. PICK h : History(DoneSet, NoParagraphs, n, g, h) /\ EndsAs(iter, n, h)
  <2>1. Loops(DoneSet, NoParagraphs, n, g, iter)
    BY <1>8, <1>9 DEF Loops
  <2>2. \E h : History(DoneSet, NoParagraphs, n, g, h) /\ EndsAs(iter, n, h)
    BY <1>0, <1>1, <2>1, FoldSteps
  <2> QED
    BY <2>2
<1>11. \A k \in 1 .. n : h[k] = AddParagraph(h[k - 1], ends[k])
  <2>1. \A k \in 1 .. n : h[k] = g[k][h[k - 1]] /\ k - 1 \in 0 .. n /\ h[k - 1] \in DoneSet
    BY <1>0, <1>10 DEF History
  <2> QED
    BY <2>1 DEF g
<1> QED
  BY <1>6, <1>10, <1>11 DEF History, EndsAs

(* The ends of the paragraphs are within the list.                         *)
LEMMA ForcedBreaksType ==
  ASSUME LinesOK
  PROVE  Append(ForcedBreaks, Len(hlist) + 1) \in Seq(1 .. Len(hlist) + 1)
<1> DEFINE S == {i \in DOMAIN hlist : Kind(i) = "forced"}
<1>1. Len(hlist) \in Nat /\ DOMAIN hlist = 1 .. Len(hlist)
  BY DEF LinesOK
<1>2. S \in SUBSET Int /\ IsFiniteSet(S) /\ S \subseteq 1 .. Len(hlist) + 1
  <2>1. S \subseteq 1 .. Len(hlist) /\ 1 \in Int /\ Len(hlist) \in Int /\ 1 .. Len(hlist) \subseteq Int
        /\ 1 .. Len(hlist) \subseteq 1 .. Len(hlist) + 1
    BY <1>1
  <2>2. IsFiniteSet(1 .. Len(hlist))
    BY <2>1, FS_Interval
  <2> HIDE DEF S
  <2>3. IsFiniteSet(S)
    BY <2>1, <2>2, FS_Subset
  <2> QED
    BY <2>1, <2>3
<1>3. ForcedBreaks \in Seq(S)
  <2>1. ForcedBreaks = Ascending(S)
    BY DEF ForcedBreaks
  <2> HIDE DEF S
  <2> QED
    BY <1>2, <2>1, AscendingSorts
<1>4. ForcedBreaks \in Seq(1 .. Len(hlist) + 1)
  BY <1>2, <1>3, SeqMonotonic
<1>5. Len(hlist) + 1 \in 1 .. Len(hlist) + 1
  BY <1>1
<1> QED
  BY <1>4, <1>5, AppendProperties

(* A paragraph lies within the list.                                       *)
LEMMA ParagraphsType ==
  ASSUME LinesOK
  PROVE  Paragraphs \in Seq((1 .. Len(hlist) + 2) \X (1 .. Len(hlist) + 1))
<1> DEFINE ends == Append(ForcedBreaks, Len(hlist) + 1)
           n == Len(ends)
<1>1. ends \in Seq(1 .. Len(hlist) + 1)
  BY ForcedBreaksType
<1>2. Paragraphs = Done(ends).all
  BY DEF Paragraphs, Done, AddParagraph, NoParagraphs
<1> HIDE DEF ends
<1>3. n \in Nat /\ ends \in [1 .. n -> 1 .. Len(hlist) + 1]
  BY <1>1, LenProperties
<1> HIDE DEF n
<1>4. PICK h \in [0 .. n -> DoneSet] : Done(ends) = h[n]
  BY <1>3, ParagraphSteps
<1>5. Done(ends) \in DoneSet
  <2>1. n \in 0 .. n
    BY <1>3
  <2> QED
    BY <1>4, <2>1
<1> QED
  BY <1>2, <1>5 DEF DoneSet

(* The paragraphs of every list are broken as well as they can be.         *)
LEMMA AllBest == LinesOK => BreaksAreBest
<1>1. SUFFICES ASSUME LinesOK, NEW paragraph \in ToSet(Paragraphs), paragraph[1] < paragraph[2]
      PROVE SolvedBest(paragraph[1], collect_candidates(paragraph[1], paragraph[2]))
  BY DEF BreaksAreBest
<1> DEFINE start == paragraph[1]
           end == paragraph[2]
           candidates == collect_candidates(start, end)
<1>2. paragraph \in (1 .. Len(hlist) + 2) \X (1 .. Len(hlist) + 1)
  <2>1. Paragraphs \in Seq((1 .. Len(hlist) + 2) \X (1 .. Len(hlist) + 1))
    BY <1>1, ParagraphsType
  <2>2. PICK k \in DOMAIN Paragraphs : paragraph = Paragraphs[k]
    BY <1>1 DEF ToSet
  <2> QED
    BY <2>1, <2>2, LenProperties, ElementOfSeq
<1>3. start \in Nat \ {0} /\ end \in Nat /\ start < end /\ end <= Len(hlist) + 1
  <2>1. Len(hlist) \in Nat
    BY <1>1 DEF LinesOK
  <2>2. start \in 1 .. Len(hlist) + 2 /\ end \in 1 .. Len(hlist) + 1
    BY <1>2
  <2> QED
    BY <1>1, <2>1, <2>2
<1> HIDE DEF start, end
<1>4. candidates \in Seq(Candidates(end)) /\ Len(candidates) > 0
  BY <1>1, <1>3, CollectType
<1> HIDE DEF candidates
<1>5. Measured(start, candidates, FALSE, Len(candidates)) /\ Measured(start, candidates, TRUE, Len(candidates))
  BY <1>1, <1>3, <1>4, CandidatesMeasured
<1>6. SolvedBest(start, candidates)
  BY <1>5, SolvedIsBest
<1> QED
  BY <1>6 DEF start, end, candidates

(* compute_best_path and solve_paragraph (knuth_plass.rs): however a list  *)
(* is built, for any widths and penalties, the breaks of every paragraph   *)
(* cost as little as any choice of breaks can; and lines that are too wide *)
(* or too loose are made only where every choice makes one.                *)
THEOREM ParagraphsAreBest == LinesSpec => []BreaksAreBest
BY AllItems, AllBest, PTL

-----------------------------------------------------------------------------
(* Division, and sequences put behind each other.                          *)

(* A multiple and what remains.                                            *)
LEMMA Division ==
  ASSUME NEW a \in Nat, NEW n \in Nat \ {0}
  PROVE  /\ a = n * (a \div n) + (a % n)
         /\ a % n \in 0 .. n - 1
         /\ a \div n \in Nat
OBVIOUS

(* Multiples are in the order of their factors.                            *)
LEMMA Multiples ==
  ASSUME NEW a \in Nat, NEW b \in Nat, NEW n \in Nat, a <= b
  PROVE  n * a <= n * b
OBVIOUS

(* The next multiple.                                                      *)
LEMMA OneMore ==
  ASSUME NEW a \in Int, NEW n \in Int
  PROVE  n * (a + 1) = n * a + n /\ n * a \in Int
OBVIOUS

(* FlattenSeq, sequence by sequence.                                       *)
LEMMA FlattenSteps ==
  ASSUME NEW T, NEW n \in Nat, NEW s \in [1 .. n -> Seq(T)]
  PROVE  \E h \in [0 .. n -> Seq(T)] :
           /\ h[0] = << >>
           /\ \A k \in 1 .. n : h[k] = h[k - 1] \o s[k]
           /\ FlattenSeq(s) = h[n]
<1> DEFINE g == [k \in 1 .. n |-> [x \in Seq(T) |-> x \o s[k]]]
           F(f) == f = [i \in 1 .. n |-> IF i = 1 THEN s[i] ELSE f[i - 1] \o s[i]]
           flatten == CHOOSE f : F(f)
<1>0. s \in Seq(Seq(T)) /\ Len(s) = n /\ << >> \in Seq(T)
  OBVIOUS
<1>1. g \in [1 .. n -> [Seq(T) -> Seq(T)]]
  OBVIOUS
<1>2. \A k \in 1 .. n : \A x \in Seq(T) : g[k][x] = x \o s[k]
  OBVIOUS
<1> HIDE DEF g
<1>3. PICK h : History(Seq(T), << >>, n, g, h)
  <2>1. \E h : History(Seq(T), << >>, n, g, h)
    BY <1>0, <1>1, Recursion
  <2> QED
    BY <2>1
<1>4. h \in [0 .. n -> Seq(T)] /\ h[0] = << >> /\ \A k \in 1 .. n : h[k] = h[k - 1] \o s[k]
  <2>1. h \in [0 .. n -> Seq(T)] /\ h[0] = << >> /\ \A k \in 1 .. n : h[k] = g[k][h[k - 1]]
    BY <1>3 DEF History
  <2>2. \A k \in 1 .. n : h[k - 1] \in Seq(T)
    <3>1. \A k \in 1 .. n : k - 1 \in 0 .. n
      OBVIOUS
    <3> QED
      BY <2>1, <3>1
  <2> QED
    BY <2>1, <2>2, <1>2
<1>5. CASE n = 0
  <2>1. FlattenSeq(s) = << >>
    BY <1>0, <1>5 DEF FlattenSeq
  <2> QED
    BY <1>4, <1>5, <2>1
<1>6. CASE n # 0
  <2>1. F(flatten)
    <3> DEFINE e == [i \in 1 .. n |-> h[i]]
    <3>1. \A i \in 1 .. n : e[i] = IF i = 1 THEN s[i] ELSE e[i - 1] \o s[i]
      <4>1. SUFFICES ASSUME NEW i \in 1 .. n
                     PROVE  e[i] = IF i = 1 THEN s[i] ELSE e[i - 1] \o s[i]
        OBVIOUS
      <4>2. e[i] = h[i - 1] \o s[i]
        BY <1>4
      <4>3. CASE i = 1
        <5>1. h[i - 1] = << >> /\ s[i] \in Seq(T)
          BY <1>4, <4>3
        <5>2. e[i] = s[i]
          BY <4>2, <5>1
        <5> QED
          BY <5>2, <4>3
      <4>4. CASE i # 1
        <5>1. i - 1 \in 1 .. n
          BY <4>4
        <5> QED
          BY <4>2, <4>4, <5>1
      <4> QED
        BY <4>3, <4>4
    <3>2. F(e)
      BY <3>1
    <3> HIDE DEF F
    <3> QED
      BY <3>2
  <2>2. \A i \in 1 .. n : flatten[i] = IF i = 1 THEN s[i] ELSE flatten[i - 1] \o s[i]
    <3> HIDE DEF flatten
    <3> QED
      BY <2>1
  <2>3. FlattenSeq(s) = flatten[n]
    BY <1>0, <1>6 DEF FlattenSeq
  <2>4. \A k \in 0 .. n : k # 0 => flatten[k] = h[k]
    <3> HIDE DEF flatten, F
    <3> DEFINE S == {k \in 0 .. n : k # 0 => flatten[k] = h[k]}
    <3>1. 0 \in S
      OBVIOUS
    <3>2. ASSUME NEW k \in 1 .. n, k - 1 \in S PROVE k \in S
      <4>1. CASE k = 1
        <5>1. h[k - 1] = << >> /\ s[k] \in Seq(T)
          BY <1>4, <4>1
        <5>2. flatten[k] = s[k] /\ h[k] = h[k - 1] \o s[k]
          BY <1>4, <2>2, <4>1
        <5> QED
          BY <5>1, <5>2
      <4>2. CASE k # 1
        <5>1. flatten[k] = flatten[k - 1] \o s[k]
          BY <2>2, <4>2
        <5>2. flatten[k - 1] = h[k - 1]
          BY <3>2, <4>2
        <5>3. h[k] = h[k - 1] \o s[k]
          BY <1>4
        <5>4. flatten[k] = h[k]
          BY <5>1, <5>2, <5>3
        <5> QED
          BY <5>4
      <4> QED
        BY <4>1, <4>2
    <3> HIDE DEF S
    <3>3. \A k \in 0 .. n : k \in S
      BY <3>1, <3>2, InductUpTo
    <3> QED
      BY <3>3 DEF S
  <2>5. flatten[n] = h[n]
    <3>1. n \in 0 .. n
      OBVIOUS
    <3> QED
      BY <1>6, <2>4, <3>1
  <2> QED
    BY <1>4, <2>3, <2>5
<1> QED
  BY <1>5, <1>6

(* What a concatenation consists of.                                       *)
LEMMA ConcatItems ==
  ASSUME NEW T, NEW a \in Seq(T), NEW b \in Seq(T)
  PROVE  /\ a \o b \in Seq(T) /\ Len(a) \in Nat /\ Len(b) \in Nat /\ Len(a \o b) = Len(a) + Len(b)
         /\ \A i \in DOMAIN (a \o b) :
              \/ i \in DOMAIN a /\ (a \o b)[i] = a[i]
              \/ i - Len(a) \in DOMAIN b /\ (a \o b)[i] = b[i - Len(a)]
         /\ \A i \in DOMAIN a : i \in DOMAIN (a \o b) /\ (a \o b)[i] = a[i]
         /\ \A i \in DOMAIN b : i + Len(a) \in DOMAIN (a \o b) /\ (a \o b)[i + Len(a)] = b[i]
<1>1. /\ a \o b \in Seq(T) /\ Len(a) \in Nat /\ Len(b) \in Nat /\ Len(a \o b) = Len(a) + Len(b)
      /\ DOMAIN a = 1 .. Len(a) /\ DOMAIN b = 1 .. Len(b)
  OBVIOUS
<1>2. DOMAIN (a \o b) = 1 .. Len(a) + Len(b)
  BY <1>1
<1>3. \A i \in 1 .. Len(a) + Len(b) : (a \o b)[i] = IF i <= Len(a) THEN a[i] ELSE b[i - Len(a)]
  OBVIOUS
<1> QED
  BY <1>1, <1>2, <1>3

(* Sequences flattened one by one.                                         *)
Flattens(h, s, n) ==
  h[0] = << >> /\ (\A k \in 1 .. n : h[k] = h[k - 1] \o s[k]) /\ FlattenSeq(s) = h[n]

(* FlattenSteps, in these words.                                           *)
LEMMA FlattenHistory ==
  ASSUME NEW T, NEW n \in Nat, NEW s \in [1 .. n -> Seq(T)]
  PROVE  \E h \in [0 .. n -> Seq(T)] : Flattens(h, s, n)
<1>1. \E h \in [0 .. n -> Seq(T)] :
        /\ h[0] = << >>
        /\ \A k \in 1 .. n : h[k] = h[k - 1] \o s[k]
        /\ FlattenSeq(s) = h[n]
  BY FlattenSteps
<1> QED
  BY <1>1 DEF Flattens

(* Sequences without repetition that share nothing make one without.       *)
LEMMA FlattenOnce ==
  ASSUME NEW T, NEW n \in Nat, NEW s \in [1 .. n -> Seq(T)],
         \A k \in 1 .. n : IsInjective(s[k]),
         \A k, l \in 1 .. n : k # l => ToSet(s[k]) \cap ToSet(s[l]) = {}
  PROVE  /\ FlattenSeq(s) \in Seq(T) /\ IsInjective(FlattenSeq(s))
         /\ ToSet(FlattenSeq(s)) = UNION {ToSet(s[k]) : k \in 1 .. n}
<1>0. PICK h \in [0 .. n -> Seq(T)] : Flattens(h, s, n)
  BY FlattenHistory
<1>1. /\ h[0] = << >>
      /\ \A k \in 1 .. n : h[k] = h[k - 1] \o s[k]
      /\ FlattenSeq(s) = h[n]
  BY <1>0 DEF Flattens
<1> DEFINE Upto(k) == UNION {ToSet(s[i]) : i \in 1 .. k}
           S == {k \in 0 .. n : IsInjective(h[k]) /\ ToSet(h[k]) = Upto(k)}
<1>2. 0 \in S
  <2>1. IsInjective(<< >>) /\ ToSet(<< >>) = {}
    BY DEF IsInjective, ToSet
  <2>2. Upto(0) = {}
    OBVIOUS
  <2> QED
    BY <1>1, <2>1, <2>2
<1>3. ASSUME NEW k \in 1 .. n, k - 1 \in S PROVE k \in S
  <2> DEFINE a == h[k - 1]
             b == s[k]
  <2>1. k - 1 \in 0 .. n /\ k \in 0 .. n /\ a \in Seq(T) /\ b \in Seq(T) /\ h[k] = a \o b
    <3>1. k - 1 \in 0 .. n /\ k \in 0 .. n
      OBVIOUS
    <3>2. a \in Seq(T)
      BY <1>1, <3>1
    <3>3. b \in Seq(T)
      OBVIOUS
    <3>4. h[k] = a \o b
      BY <1>1
    <3> QED
      BY <3>1, <3>2, <3>3, <3>4
  <2>2. IsInjective(a) /\ ToSet(a) = Upto(k - 1) /\ IsInjective(b)
    BY <1>3
  <2>3. ToSet(a) \cap ToSet(b) = {}
    <3>1. \A i \in 1 .. k - 1 : ToSet(s[i]) \cap ToSet(b) = {}
      OBVIOUS
    <3> QED
      BY <2>2, <3>1
  <2>4. Upto(k) = Upto(k - 1) \cup ToSet(b)
    <3>1. 1 .. k = (1 .. k - 1) \cup {k}
      OBVIOUS
    <3> QED
      BY <3>1
  <2> HIDE DEF a, b, Upto
  <2>5. a \in Seq(T) /\ b \in Seq(T)
    BY <2>1
  <2>6. /\ a \o b \in Seq(T) /\ Len(a) \in Nat /\ Len(b) \in Nat /\ Len(a \o b) = Len(a) + Len(b)
        /\ \A i \in DOMAIN (a \o b) :
             \/ i \in DOMAIN a /\ (a \o b)[i] = a[i]
             \/ i - Len(a) \in DOMAIN b /\ (a \o b)[i] = b[i - Len(a)]
        /\ \A i \in DOMAIN a : i \in DOMAIN (a \o b) /\ (a \o b)[i] = a[i]
        /\ \A i \in DOMAIN b : i + Len(a) \in DOMAIN (a \o b) /\ (a \o b)[i + Len(a)] = b[i]
    BY ONLY <2>5, ConcatItems
  <2>7. ToSet(a \o b) = ToSet(a) \cup ToSet(b)
    <3>1. \A i \in DOMAIN (a \o b) : (a \o b)[i] \in ToSet(a) \cup ToSet(b)
      BY ONLY <2>6 DEF ToSet
    <3>2. \A i \in DOMAIN a : a[i] \in ToSet(a \o b)
      BY ONLY <2>6 DEF ToSet
    <3>3. \A i \in DOMAIN b : b[i] \in ToSet(a \o b)
      <4>1. SUFFICES ASSUME NEW i \in DOMAIN b PROVE b[i] \in ToSet(a \o b)
        OBVIOUS
      <4>2. i + Len(a) \in DOMAIN (a \o b) /\ (a \o b)[i + Len(a)] = b[i]
        BY <2>6
      <4> QED
        BY ONLY <4>2 DEF ToSet
    <3>4. /\ ToSet(a \o b) = {(a \o b)[i] : i \in DOMAIN (a \o b)}
          /\ ToSet(a) = {a[i] : i \in DOMAIN a} /\ ToSet(b) = {b[i] : i \in DOMAIN b}
      BY ONLY DEF ToSet
    <3> QED
      BY ONLY <3>1, <3>2, <3>3, <3>4
  <2>8. IsInjective(a \o b)
    <3>1. SUFFICES ASSUME NEW i \in DOMAIN (a \o b), NEW j \in DOMAIN (a \o b), (a \o b)[i] = (a \o b)[j]
                   PROVE  i = j
      BY DEF IsInjective
    <3>2. \A x \in DOMAIN a, y \in DOMAIN b : a[x] # b[y]
      BY <2>3 DEF ToSet
    <3>3. \/ i \in DOMAIN a /\ j \in DOMAIN a /\ a[i] = a[j]
          \/ i - Len(a) \in DOMAIN b /\ j - Len(a) \in DOMAIN b /\ b[i - Len(a)] = b[j - Len(a)]
      BY <2>6, <3>1, <3>2
    <3>4. i \in Nat /\ j \in Nat
      BY <2>6
    <3> QED
      BY <2>2, <2>6, <3>3, <3>4 DEF IsInjective
  <2>9. IsInjective(h[k]) /\ ToSet(h[k]) = Upto(k)
    BY <2>1, <2>2, <2>4, <2>7, <2>8
  <2> QED
    BY <2>1, <2>9
<1> HIDE DEF S
<1>4. n \in S
  <2>1. \A k \in 0 .. n : k \in S
    BY <1>2, <1>3, InductUpTo
  <2> QED
    BY <2>1
<1>5. FlattenSeq(s) \in Seq(T)
  <2>1. n \in 0 .. n
    OBVIOUS
  <2> QED
    BY <1>1, <2>1
<1> QED
  BY <1>1, <1>4, <1>5 DEF S

(* What remains of a multiple and a smaller number is that number.         *)
LEMMA Remainder ==
  ASSUME NEW n \in Nat \ {0}, NEW a \in Nat, NEW r \in 0 .. n - 1
  PROVE  (n * a + r) % n = r /\ n * a + r \in Nat
<1> DEFINE x == n * a + r
           q == x \div n
<1>1. n * a \in Nat /\ x \in Nat
  OBVIOUS
<1>2. x = n * q + (x % n) /\ x % n \in 0 .. n - 1 /\ q \in Nat
  BY <1>1, Division
<1> HIDE DEF q
<1>3. ~ q < a
  <2>1. SUFFICES ASSUME q + 1 <= a PROVE FALSE
    BY <1>2
  <2>2. n * (q + 1) <= n * a
    BY <1>2, <2>1, Multiples
  <2> QED
    BY <1>1, <1>2, <2>2, OneMore
<1>4. ~ a < q
  <2>1. SUFFICES ASSUME a + 1 <= q PROVE FALSE
    BY <1>2
  <2>2. n * (a + 1) <= n * q
    BY <1>2, <2>1, Multiples
  <2> QED
    BY <1>1, <1>2, <2>2, OneMore
<1>5. q = a
  BY <1>2, <1>3, <1>4
<1> QED
  BY <1>1, <1>2, <1>5

(* What each of n workers is dealt of m items.                             *)
Dealt(m, n, w) == [k \in 1 .. (m - w) \div n + 1 |-> w + (k - 1) * n]

(* Every item is dealt to one worker, once.                                *)
LEMMA DealtOnce ==
  ASSUME NEW m \in Nat, NEW n \in 1 .. m, NEW w \in 1 .. n
  PROVE  /\ Dealt(m, n, w) \in Seq(1 .. m)
         /\ IsInjective(Dealt(m, n, w))
         /\ ToSet(Dealt(m, n, w)) = {i \in 1 .. m : ((i - 1) % n) + 1 = w}
<1> DEFINE q == (m - w) \div n
           d == Dealt(m, n, w)
<1>1. n \in Nat \ {0} /\ m - w \in Nat
  OBVIOUS
<1>2. q \in Nat /\ n * q <= m - w /\ m - w < n * q + n /\ n * q \in Nat
  <2>1. m - w = n * q + ((m - w) % n) /\ (m - w) % n \in 0 .. n - 1 /\ q \in Nat
    BY <1>1, Division
  <2> HIDE DEF q
  <2>2. n * q \in Nat
    BY <1>1, <2>1
  <2> QED
    BY <1>1, <2>1, <2>2
<1> HIDE DEF q
<1>3. \A k \in 1 .. q + 1 : d[k] = w + n * (k - 1)
  BY <1>2 DEF Dealt, q
<1>4. DOMAIN d = 1 .. q + 1 /\ d = [k \in 1 .. q + 1 |-> d[k]]
  BY DEF Dealt, q
<1> HIDE DEF d
<1>5. ASSUME NEW k \in 1 .. q + 1
      PROVE  /\ k - 1 \in Nat /\ n * (k - 1) \in Nat
             /\ d[k] \in 1 .. m /\ ((d[k] - 1) % n) + 1 = w
  <2>1. k - 1 \in Nat /\ k - 1 <= q
    BY <1>2
  <2>2. n * (k - 1) \in Nat /\ n * (k - 1) <= n * q
    BY <1>1, <1>2, <2>1, Multiples
  <2>3. d[k] \in 1 .. m /\ d[k] - 1 = n * (k - 1) + (w - 1) /\ w - 1 \in 0 .. n - 1
    BY <1>2, <1>3, <2>2
  <2>4. (n * (k - 1) + (w - 1)) % n = w - 1
    BY <1>1, <2>1, <2>3, Remainder
  <2> QED
    BY <2>1, <2>2, <2>3, <2>4
<1>6. \A k, l \in 1 .. q + 1 : k < l => d[k] < d[l]
  <2>1. SUFFICES ASSUME NEW k \in 1 .. q + 1, NEW l \in 1 .. q + 1, k < l
                 PROVE  d[k] < d[l]
    OBVIOUS
  <2>2. n * ((k - 1) + 1) <= n * (l - 1)
    BY <1>1, <1>5, <2>1, Multiples
  <2>3. n * ((k - 1) + 1) = n * (k - 1) + n
    BY <1>5, OneMore
  <2> QED
    BY <1>1, <1>3, <1>5, <2>2, <2>3
<1>7. d \in Seq(1 .. m)
  <2>1. d \in [1 .. q + 1 -> 1 .. m] /\ q + 1 \in Nat
    BY <1>2, <1>4, <1>5
  <2> HIDE DEF d, q
  <2> QED
    BY <2>1
<1>8. IsInjective(d)
  <2>1. \A k \in 1 .. q + 1 : d[k] \in Int
    BY <1>5
  <2> QED
    BY <1>2, <1>4, <1>6, <2>1 DEF IsInjective
<1>9. ToSet(d) \subseteq {i \in 1 .. m : ((i - 1) % n) + 1 = w}
  BY <1>4, <1>5 DEF ToSet
<1>10. ASSUME NEW i \in 1 .. m, ((i - 1) % n) + 1 = w
       PROVE  i \in ToSet(d)
  <2> DEFINE k == ((i - 1) \div n) + 1
  <2>1. i - 1 = n * (k - 1) + ((i - 1) % n) /\ k - 1 \in Nat /\ k \in Nat
    <3>1. i - 1 \in Nat
      OBVIOUS
    <3>2. i - 1 = n * ((i - 1) \div n) + ((i - 1) % n) /\ (i - 1) \div n \in Nat
      BY <1>1, <3>1, Division
    <3>3. k - 1 = (i - 1) \div n /\ k \in Nat
      BY <3>2
    <3> QED
      BY <3>2, <3>3
  <2> HIDE DEF k
  <2>2. n * (k - 1) = i - w
    BY <1>10, <2>1, OneMore
  <2>3. ~ q + 1 <= k - 1
    <3>1. SUFFICES ASSUME q + 1 <= k - 1 PROVE FALSE
      OBVIOUS
    <3>2. n * (q + 1) <= n * (k - 1)
      BY <1>1, <1>2, <2>1, <3>1, Multiples
    <3>3. n * (q + 1) = n * q + n
      BY <1>2, OneMore
    <3> QED
      BY <1>2, <2>2, <3>2, <3>3
  <2>4. k \in 1 .. q + 1
    BY <1>2, <2>1, <2>3
  <2>5. d[k] = i
    BY <1>3, <2>2, <2>4
  <2> QED
    BY <1>4, <2>4, <2>5 DEF ToSet
<1>11. ToSet(d) = {i \in 1 .. m : ((i - 1) % n) + 1 = w}
  BY <1>9, <1>10
<1> QED
  BY <1>7, <1>8, <1>11 DEF d

-----------------------------------------------------------------------------
(* The work of the threads: every partition is in one item, and every item *)
(* in one worker's share.                                                  *)

(* Ranges that follow each other from 1 to c are disjoint and leave no gap. *)
Adjoining(lo, hi, n, c) ==
  /\ lo \in [1 .. n -> Int] /\ hi \in [1 .. n -> Int]
  /\ lo[1] = 1 /\ hi[n] = c
  /\ \A i \in 1 .. n : lo[i] <= hi[i]
  /\ \A i \in 2 .. n : lo[i] = hi[i - 1] + 1

LEMMA AdjoiningCover ==
  ASSUME NEW n \in Nat \ {0}, NEW c \in Nat, NEW lo, NEW hi, Adjoining(lo, hi, n, c)
  PROVE  /\ \A i \in 1 .. n : 1 <= lo[i] /\ hi[i] <= c
         /\ \A i, j \in 1 .. n : i < j => hi[i] < lo[j]
         /\ \A u \in 1 .. c : \E i \in 1 .. n : u \in lo[i] .. hi[i]
<1> USE DEF Adjoining
<1> DEFINE To(k) == IF k = 0 THEN 0 ELSE hi[k]
           S == {k \in 0 .. n :
                   /\ \A i \in 1 .. k : 1 <= lo[i] /\ hi[i] <= To(k)
                   /\ \A i, j \in 1 .. k : i < j => hi[i] < lo[j]
                   /\ \A u \in 1 .. To(k) : \E i \in 1 .. k : u \in lo[i] .. hi[i]}
<1>1. 0 \in S
  OBVIOUS
<1>2. ASSUME NEW k \in 1 .. n, k - 1 \in S PROVE k \in S
  <2>1. lo[k] = To(k - 1) + 1 /\ To(k - 1) \in Int /\ lo[k] <= hi[k] /\ To(k) = hi[k] /\ hi[k] \in Int
    OBVIOUS
  <2>2. /\ k - 1 \in 0 .. n
        /\ \A i \in 1 .. k - 1 : 1 <= lo[i] /\ hi[i] <= To(k - 1)
        /\ \A i, j \in 1 .. k - 1 : i < j => hi[i] < lo[j]
        /\ \A u \in 1 .. To(k - 1) : \E i \in 1 .. k - 1 : u \in lo[i] .. hi[i]
    BY <1>2
  <2> HIDE DEF To
  <2>3. 0 <= To(k - 1)
    <3>1. CASE k = 1
      BY <3>1 DEF To
    <3>2. CASE k # 1
      <4>1. k - 1 \in 1 .. k - 1 /\ k - 1 \in 1 .. n
        BY <3>2
      <4>2. 1 <= lo[k - 1] /\ lo[k - 1] <= hi[k - 1] /\ hi[k - 1] <= To(k - 1)
        BY <2>2, <4>1
      <4>3. lo[k - 1] \in Int /\ hi[k - 1] \in Int
        BY <4>1
      <4> QED
        BY <2>1, <4>2, <4>3
    <3> QED
      BY <3>1, <3>2
  <2>4. \A i \in 1 .. k : i = k \/ i \in 1 .. k - 1
    OBVIOUS
  <2>5. \A i \in 1 .. k : 1 <= lo[i] /\ hi[i] <= To(k)
    <3>1. \A i \in 1 .. k - 1 : hi[i] \in Int
      OBVIOUS
    <3> QED
      BY <2>1, <2>2, <2>3, <2>4, <3>1
  <2>6. \A i, j \in 1 .. k : i < j => hi[i] < lo[j]
    <3>1. \A i \in 1 .. k - 1 : hi[i] < lo[k]
      BY <2>1, <2>2
    <3>2. \A i, j \in 1 .. k : i < j => i \in 1 .. k - 1
      OBVIOUS
    <3> QED
      BY <2>2, <2>4, <3>1, <3>2
  <2>7. \A u \in 1 .. To(k) : \E i \in 1 .. k : u \in lo[i] .. hi[i]
    <3>1. \A u \in 1 .. To(k) : u \in 1 .. To(k - 1) \/ u \in lo[k] .. hi[k]
      BY <2>1
    <3>2. \A i \in 1 .. k - 1 : i \in 1 .. k
      OBVIOUS
    <3> QED
      BY <2>2, <3>1, <3>2
  <2> QED
    BY <2>5, <2>6, <2>7
<1> HIDE DEF S
<1>3. n \in S
  <2>1. \A k \in 0 .. n : k \in S
    BY <1>1, <1>2, InductUpTo
  <2> QED
    BY <2>1
<1> QED
  BY <1>3 DEF S

(* A job of the model; what is to be typeset in its current phase.         *)
JobOK == job \in Jobs /\ phase \in {"partial", "full"} /\ (phase = "partial" => job.rebuild # {})
ToTypeset == IF phase = "partial" THEN job.rebuild ELSE 1 .. job.count

(* The parts of a job.                                                     *)
LEMMA JobParts ==
  ASSUME job \in Jobs
  PROVE  /\ MaxUnits \in Nat /\ MaxWorkers \in Nat
         /\ job.count \in 2 .. MaxUnits /\ job.parallelism \in 2 .. MaxWorkers
         /\ job.kind \in {"chapter", "section"} /\ job.openright \in BOOLEAN
         /\ job.size \in [1 .. MaxUnits -> 1 .. MaxPages] /\ job.figures \in [1 .. MaxUnits -> 0 .. MaxFigures]
         /\ job.rebuild \in SUBSET (1 .. job.count) /\ Cardinality(job.rebuild) # 1
         /\ job.joined \in SUBSET (2 .. job.count)
         /\ (job.openright => job.kind = "chapter") /\ (job.joined # {} => job.kind = "section")
         /\ SectionsShare \/ job.rebuild = {} \/ job.joined = {}
         /\ FiguresAnywhere \/ (job.kind = "section" /\ job.rebuild = {})
              \/ \A u \in 2 .. MaxUnits : job.figures[u] = 0
BY ParallelAssumption DEF Jobs

(* The chunks of n workers follow each other.                              *)
LEMMA ChunksAdjoin ==
  ASSUME job \in Jobs, NEW n \in 1 .. job.count
  PROVE  Adjoining([i \in 1 .. n |-> Chunk(i, n)[1]], [i \in 1 .. n |-> Chunk(i, n)[2]], n, job.count)
<1> DEFINE long == job.count % n
           short == job.count \div n
           before(i) == (i - 1) * short + Smaller(i - 1, long)
<1>0. job.count \in Nat /\ n \in Nat \ {0} /\ n <= job.count
  BY JobParts
<1>1. job.count = n * short + long /\ long \in 0 .. n - 1 /\ short \in Nat
  BY <1>0, Division
<1> HIDE DEF long, short
<1>2. short >= 1
  <2>1. SUFFICES ASSUME short = 0 PROVE FALSE
    BY <1>1
  <2>2. n * short = 0
    BY <1>0, <2>1
  <2> QED
    BY <1>0, <1>1, <2>2
<1>3. \A i \in 1 .. n : Chunk(i, n) = <<before(i) + 1, before(i) + short + IF i <= long THEN 1 ELSE 0>>
  BY DEF Chunk, long, short
<1>4. \A i \in 1 .. n : before(i) \in Int
  <2>1. \A i \in 1 .. n : (i - 1) * short \in Int /\ Smaller(i - 1, long) \in Int
    BY <1>1 DEF Smaller
  <2> QED
    BY <2>1
<1>5. before(1) = 0
  BY <1>1 DEF Smaller
<1>6. ASSUME NEW i \in Nat, i \in 1 .. n
      PROVE  before(i + 1) = before(i) + short + IF i <= long THEN 1 ELSE 0
  <2>1. ((i + 1) - 1) * short = (i - 1) * short + short
    <3>1. short * ((i - 1) + 1) = short * (i - 1) + short
      BY <1>1, OneMore
    <3> QED
      BY <1>1, <3>1
  <2>2. Smaller((i + 1) - 1, long) = Smaller(i - 1, long) + IF i <= long THEN 1 ELSE 0
    BY <1>1 DEF Smaller
  <2>3. (i - 1) * short \in Int /\ Smaller(i - 1, long) \in Int
    BY <1>1 DEF Smaller
  <2> QED
    BY <1>1, <2>1, <2>2, <2>3
<1>7. before(n + 1) = job.count
  <2>1. ((n + 1) - 1) * short = n * short /\ Smaller((n + 1) - 1, long) = long
    BY <1>0, <1>1 DEF Smaller
  <2> QED
    BY <1>1, <2>1
<1> HIDE DEF before
<1> DEFINE lo == [i \in 1 .. n |-> Chunk(i, n)[1]]
           hi == [i \in 1 .. n |-> Chunk(i, n)[2]]
<1>8. \A i \in 1 .. n : lo[i] = before(i) + 1 /\ hi[i] = before(i) + short + IF i <= long THEN 1 ELSE 0
  BY <1>3
<1>9. \A i \in 1 .. n : hi[i] = before(i + 1)
  BY <1>6, <1>8
<1>10. DOMAIN lo = 1 .. n /\ DOMAIN hi = 1 .. n /\ lo = [i \in 1 .. n |-> lo[i]] /\ hi = [i \in 1 .. n |-> hi[i]]
  OBVIOUS
<1> HIDE DEF lo, hi
<1>11. lo \in [1 .. n -> Int] /\ hi \in [1 .. n -> Int]
  <2>1. \A i \in 1 .. n : lo[i] \in Int /\ hi[i] \in Int
    BY <1>1, <1>4, <1>8
  <2> QED
    BY <1>10, <2>1
<1>12. lo[1] = 1 /\ hi[n] = job.count
  BY <1>0, <1>5, <1>7, <1>8, <1>9
<1>13. \A i \in 1 .. n : lo[i] <= hi[i]
  BY <1>1, <1>2, <1>4, <1>8
<1>14. \A i \in 2 .. n : lo[i] = hi[i - 1] + 1
  <2>1. \A i \in 2 .. n : i - 1 \in 1 .. n /\ (i - 1) + 1 = i /\ i \in 1 .. n
    OBVIOUS
  <2> QED
    BY <2>1, <1>8, <1>9
<1>15. Adjoining(lo, hi, n, job.count)
  BY <1>11, <1>12, <1>13, <1>14 DEF Adjoining
<1> QED
  BY <1>15 DEF lo, hi

(* The items of a job: ranges of partitions, one for each of the workers   *)
(* or one for each partition to rebuild.                                   *)
LEMMA ItemRanges ==
  ASSUME JobOK
  PROVE  /\ Items \in Seq((1 .. job.count) \X (1 .. job.count)) /\ Len(Items) \in 1 .. job.count
         /\ \A i \in 1 .. Len(Items) : Items[i][1] <= Items[i][2]
         /\ \A i, j \in 1 .. Len(Items) : i < j => Items[i][2] < Items[j][1]
         /\ \A i \in 1 .. Len(Items) : Items[i][1] .. Items[i][2] \subseteq ToTypeset
         /\ \A u \in ToTypeset : \E i \in 1 .. Len(Items) : u \in Items[i][1] .. Items[i][2]
         /\ phase = "partial" => \A i \in 1 .. Len(Items) : Items[i][1] = Items[i][2]
         /\ phase = "full" => Adjoining([i \in 1 .. Len(Items) |-> Items[i][1]],
                                        [i \in 1 .. Len(Items) |-> Items[i][2]], Len(Items), job.count)
<1> DEFINE c == job.count
<1>0. c \in Nat /\ c >= 2 /\ job.parallelism \in Nat /\ job.parallelism >= 2 /\ job.rebuild \in SUBSET (1 .. c)
  BY JobParts DEF JobOK
<1> HIDE DEF c
<1>1. CASE phase = "partial"
  <2> DEFINE S == job.rebuild
             a == Ascending(S)
             n == Cardinality(S)
  <2>1. S \in SUBSET Int /\ IsFiniteSet(S) /\ S # {}
    <3>1. IsFiniteSet(1 .. c)
      BY <1>0, FS_Interval
    <3>2. IsFiniteSet(S)
      BY <1>0, <3>1, FS_Subset
    <3> QED
      BY <1>0, <1>1, <3>2 DEF JobOK
  <2>2. /\ n \in Nat /\ a \in [1 .. n -> S] /\ a \in Seq(S) /\ Len(a) = n
        /\ Increasing(a, n) /\ \A x \in S : \E k \in 1 .. n : a[k] = x
    BY <2>1, AscendingSorts
  <2>3. Items = [i \in 1 .. n |-> <<a[i], a[i]>>]
    BY <1>1, <2>2 DEF Items
  <2>4. n \in 1 .. c
    <3>1. n <= Cardinality(1 .. c) /\ Cardinality(1 .. c) = c
      <4>1. IsFiniteSet(1 .. c) /\ Cardinality(1 .. c) = c
        BY <1>0, FS_Interval
      <4>2. n <= Cardinality(1 .. c)
        BY <1>0, <4>1, FS_Subset
      <4> QED
        BY <4>1, <4>2
    <3>2. n # 0
      BY <2>1, FS_EmptySet
    <3> QED
      BY <2>2, <3>1, <3>2
  <2> HIDE DEF n, a
  <2>5. \A i \in 1 .. n : a[i] \in S /\ a[i] \in 1 .. c
    BY <1>0, <2>2
  <2>6. Items \in [1 .. n -> (1 .. c) \X (1 .. c)]
    BY <2>3, <2>5
  <2>7. Items \in Seq((1 .. c) \X (1 .. c)) /\ Len(Items) = n
    BY <2>2, <2>6
  <2>8. \A i \in 1 .. n : Items[i][1] = a[i] /\ Items[i][2] = a[i]
    BY <2>3
  <2>9. \A i \in 1 .. n : Items[i][1] <= Items[i][2]
    BY <2>5, <2>8
  <2>10. \A i, j \in 1 .. n : i < j => Items[i][2] < Items[j][1]
    BY <2>2, <2>8 DEF Increasing
  <2>11. \A i \in 1 .. n : Items[i][1] .. Items[i][2] \subseteq S
    BY <2>5, <2>8
  <2>12. \A u \in S : \E i \in 1 .. n : u \in Items[i][1] .. Items[i][2]
    <3>1. SUFFICES ASSUME NEW u \in S PROVE \E i \in 1 .. n : u \in Items[i][1] .. Items[i][2]
      OBVIOUS
    <3>2. PICK k \in 1 .. n : a[k] = u
      BY <2>2
    <3>3. u \in Items[k][1] .. Items[k][2]
      BY <2>5, <2>8, <3>2
    <3> QED
      BY <3>3
  <2>13. ToTypeset = S /\ ~ phase = "full"
    BY <1>1 DEF ToTypeset
  <2> QED
    BY <2>4, <2>7, <2>8, <2>9, <2>10, <2>11, <2>12, <2>13 DEF c
<1>2. CASE phase = "full"
  <2> DEFINE n == Smaller(job.parallelism, c)
             lo == [i \in 1 .. n |-> Chunk(i, n)[1]]
             hi == [i \in 1 .. n |-> Chunk(i, n)[2]]
  <2>1. n \in 1 .. c /\ n \in Nat \ {0}
    BY <1>0 DEF Smaller
  <2>2. Items = [i \in 1 .. n |-> Chunk(i, n)]
    BY <1>2 DEF Items, c
  <2> HIDE DEF n
  <2>3. Adjoining(lo, hi, n, c)
    BY <2>1, ChunksAdjoin DEF JobOK, c
  <2>4. \A i \in 1 .. n : Items[i] = <<lo[i], hi[i]>>
    BY <2>2 DEF Chunk
  <2>5. /\ lo \in [1 .. n -> Int] /\ hi \in [1 .. n -> Int]
        /\ \A i \in 1 .. n : lo[i] <= hi[i]
    BY <2>3 DEF Adjoining
  <2>6. /\ \A i \in 1 .. n : 1 <= lo[i] /\ hi[i] <= c
        /\ \A i, j \in 1 .. n : i < j => hi[i] < lo[j]
        /\ \A u \in 1 .. c : \E i \in 1 .. n : u \in lo[i] .. hi[i]
    BY <1>0, <2>1, <2>3, AdjoiningCover
  <2>7. DOMAIN Items = 1 .. n /\ Items = [i \in 1 .. n |-> Items[i]]
    BY <2>2
  <2> HIDE DEF lo, hi
  <2>8. \A i \in 1 .. n : lo[i] \in 1 .. c /\ hi[i] \in 1 .. c
    <3>1. SUFFICES ASSUME NEW i \in 1 .. n PROVE lo[i] \in 1 .. c /\ hi[i] \in 1 .. c
      OBVIOUS
    <3>2. lo[i] \in Int /\ hi[i] \in Int /\ lo[i] <= hi[i] /\ 1 <= lo[i] /\ hi[i] <= c
      BY <2>5, <2>6
    <3> QED
      BY <1>0, <3>2
  <2>9. Items \in [1 .. n -> (1 .. c) \X (1 .. c)]
    <3>1. \A i \in 1 .. n : Items[i] \in (1 .. c) \X (1 .. c)
      BY <2>4, <2>8
    <3> QED
      BY <2>7, <3>1
  <2>10. Items \in Seq((1 .. c) \X (1 .. c)) /\ Len(Items) = n
    BY <2>1, <2>9
  <2>11. \A i \in 1 .. n : Items[i][1] = lo[i] /\ Items[i][2] = hi[i]
    BY <2>4
  <2>12. \A i \in 1 .. n : Items[i][1] .. Items[i][2] \subseteq 1 .. c
    <3>1. \A i \in 1 .. n : lo[i] .. hi[i] \subseteq 1 .. c
      BY <1>0, <2>8
    <3> QED
      BY <2>11, <3>1
  <2>13. ToTypeset = 1 .. c /\ ~ phase = "partial"
    BY <1>2 DEF ToTypeset, c
  <2>14. [i \in 1 .. n |-> Items[i][1]] = lo /\ [i \in 1 .. n |-> Items[i][2]] = hi
    <3>1. DOMAIN lo = 1 .. n /\ lo = [i \in 1 .. n |-> lo[i]]
      BY DEF lo
    <3>2. DOMAIN hi = 1 .. n /\ hi = [i \in 1 .. n |-> hi[i]]
      BY DEF hi
    <3> QED
      BY <2>11, <3>1, <3>2
  <2> QED
    BY <2>1, <2>3, <2>5, <2>6, <2>10, <2>11, <2>12, <2>13, <2>14 DEF c
<1> QED
  BY <1>1, <1>2 DEF JobOK

(* What the job reports: every partition that it typesets, once.           *)
LEMMA ReportsOnce ==
  ASSUME JobOK
  PROVE  Reported \in Seq(Nat) /\ IsInjective(Reported) /\ ToSet(Reported) = ToTypeset
<1> DEFINE m == Len(Items)
           n == Cardinality(Workers)
           of(i) == [k \in 1 .. Items[i][2] - Items[i][1] + 1 |-> Items[i][1] + k - 1]
           units(i) == Items[i][1] .. Items[i][2]
<1>1. /\ m \in Nat /\ n \in 1 .. m /\ Workers = 1 .. n
      /\ \A i \in 1 .. m : Items[i][1] \in Nat /\ Items[i][2] \in Nat /\ Items[i][1] <= Items[i][2]
      /\ \A i, j \in 1 .. m : i < j => Items[i][2] < Items[j][1]
      /\ UNION {units(i) : i \in 1 .. m} = ToTypeset
  <2>1. /\ Items \in Seq((1 .. job.count) \X (1 .. job.count)) /\ m \in 1 .. job.count
        /\ \A i \in 1 .. m : Items[i][1] <= Items[i][2]
        /\ \A i, j \in 1 .. m : i < j => Items[i][2] < Items[j][1]
        /\ \A i \in 1 .. m : units(i) \subseteq ToTypeset
        /\ \A u \in ToTypeset : \E i \in 1 .. m : u \in units(i)
    BY ItemRanges
  <2>2. job.count \in Nat /\ job.parallelism \in Nat /\ job.parallelism >= 1
    BY JobParts DEF JobOK
  <2>3. Smaller(job.parallelism, m) \in 1 .. m
    BY <2>1, <2>2 DEF Smaller
  <2>4. n = Smaller(job.parallelism, m) /\ Workers = 1 .. n
    BY <2>3, FS_Interval DEF Workers
  <2>5. \A i \in 1 .. m : Items[i] \in (1 .. job.count) \X (1 .. job.count)
    BY <2>1
  <2>6. \A i \in 1 .. m : Items[i][1] \in Nat /\ Items[i][2] \in Nat
    BY <2>2, <2>5
  <2>7. UNION {units(i) : i \in 1 .. m} = ToTypeset
    BY <2>1
  <2> QED
    BY <2>1, <2>2, <2>3, <2>4, <2>6, <2>7
<1>2. \A i \in 1 .. m : of(i) \in Seq(Nat) /\ IsInjective(of(i)) /\ ToSet(of(i)) = units(i)
  <2>1. SUFFICES ASSUME NEW i \in 1 .. m
                 PROVE  of(i) \in Seq(Nat) /\ IsInjective(of(i)) /\ ToSet(of(i)) = units(i)
    OBVIOUS
  <2>2. Items[i][1] \in Nat /\ Items[i][2] \in Nat /\ Items[i][1] <= Items[i][2]
    BY <1>1
  <2> DEFINE x == Items[i][1]
             y == Items[i][2]
             s == [k \in 1 .. y - x + 1 |-> x + k - 1]
  <2>3. x \in Nat /\ y \in Nat /\ x <= y
    BY <2>2
  <2> HIDE DEF x, y
  <2>4. s \in [1 .. y - x + 1 -> Nat] /\ y - x + 1 \in Nat
    BY <2>3
  <2>5. s \in Seq(Nat)
    <3> HIDE DEF s
    <3> QED
      BY <2>4
  <2>6. IsInjective(s)
    BY <2>3 DEF IsInjective
  <2>7. ToSet(s) = x .. y
    <3>1. \A v \in x .. y : v - x + 1 \in DOMAIN s /\ s[v - x + 1] = v
      BY <2>3
    <3>2. \A k \in DOMAIN s : s[k] \in x .. y
      BY <2>3
    <3> QED
      BY <3>1, <3>2 DEF ToSet
  <2> QED
    BY <2>5, <2>6, <2>7 DEF x, y
<1>3. \A i, j \in 1 .. m : i # j => units(i) \cap units(j) = {}
  <2>1. SUFFICES ASSUME NEW i \in 1 .. m, NEW j \in 1 .. m, i < j PROVE units(i) \cap units(j) = {}
    OBVIOUS
  <2>2. Items[i][2] < Items[j][1] /\ Items[i][2] \in Nat /\ Items[j][1] \in Nat
    BY <1>1, <2>1
  <2> QED
    BY <2>2
<1> HIDE DEF m, of, units
<1>4. \A w \in 1 .. n : /\ Share(w) \in Seq(1 .. m) /\ IsInjective(Share(w))
                        /\ ToSet(Share(w)) = {i \in 1 .. m : ((i - 1) % n) + 1 = w}
  <2>1. \A w \in 1 .. n : Share(w) = Dealt(m, n, w)
    BY DEF Share, Dealt, m
  <2> HIDE DEF n
  <2>2. SUFFICES ASSUME NEW w \in 1 .. n
                 PROVE  /\ Share(w) \in Seq(1 .. m) /\ IsInjective(Share(w))
                        /\ ToSet(Share(w)) = {i \in 1 .. m : ((i - 1) % n) + 1 = w}
    OBVIOUS
  <2>3. m \in Nat /\ n \in 1 .. m /\ w \in 1 .. n
    BY <1>1
  <2>4. /\ Dealt(m, n, w) \in Seq(1 .. m) /\ IsInjective(Dealt(m, n, w))
        /\ ToSet(Dealt(m, n, w)) = {i \in 1 .. m : ((i - 1) % n) + 1 = w}
    BY <2>3, DealtOnce
  <2>5. Share(w) = Dealt(m, n, w)
    BY <2>1
  <2> QED
    BY <2>4, <2>5
<1> HIDE DEF n
<1> DEFINE list(w) == [k \in DOMAIN Share(w) |-> of(Share(w)[k])]
           by(w) == FlattenSeq(list(w))
           did(w) == UNION {units(i) : i \in {j \in 1 .. m : ((j - 1) % n) + 1 = w}}
<1>5. ASSUME NEW w \in 1 .. n
      PROVE  by(w) \in Seq(Nat) /\ IsInjective(by(w)) /\ ToSet(by(w)) = did(w)
  <2> DEFINE s == Share(w)
             d == Len(s)
  <2>1. /\ s \in Seq(1 .. m) /\ IsInjective(s) /\ d \in Nat /\ DOMAIN s = 1 .. d
        /\ \A k \in 1 .. d : s[k] \in 1 .. m
        /\ ToSet(s) = {i \in 1 .. m : ((i - 1) % n) + 1 = w}
    <3>1. /\ s \in Seq(1 .. m) /\ IsInjective(s)
          /\ ToSet(s) = {i \in 1 .. m : ((i - 1) % n) + 1 = w}
      BY <1>4
    <3>2. s \in Seq(1 .. m)
      BY <3>1
    <3> HIDE DEF s
    <3>3. d \in Nat /\ DOMAIN s = 1 .. d
      BY <3>2
    <3>4. \A k \in 1 .. d : s[k] \in 1 .. m
      BY <3>2, ElementOfSeq
    <3> QED
      BY <3>1, <3>3, <3>4
  <2> HIDE DEF s, d
  <2>2. /\ list(w) \in [1 .. d -> Seq(Nat)]
        /\ \A k \in 1 .. d : list(w)[k] = of(s[k])
    BY <1>2, <2>1 DEF s
  <2> HIDE DEF list
  <2>3. \A k \in 1 .. d : IsInjective(list(w)[k]) /\ ToSet(list(w)[k]) = units(s[k])
    BY <1>2, <2>1, <2>2
  <2>4. \A k, l \in 1 .. d : k # l => ToSet(list(w)[k]) \cap ToSet(list(w)[l]) = {}
    <3>1. \A k, l \in 1 .. d : k # l => s[k] # s[l]
      BY <2>1 DEF IsInjective
    <3> QED
      BY <1>3, <2>1, <2>3, <3>1
  <2>5. /\ by(w) \in Seq(Nat) /\ IsInjective(by(w))
        /\ ToSet(by(w)) = UNION {ToSet(list(w)[k]) : k \in 1 .. d}
    BY <2>1, <2>2, <2>3, <2>4, FlattenOnce
  <2>6. UNION {ToSet(list(w)[k]) : k \in 1 .. d} = UNION {units(i) : i \in ToSet(s)}
    <3>1. ToSet(s) = {s[k] : k \in 1 .. d}
      BY <2>1 DEF ToSet
    <3> QED
      BY <2>3, <3>1
  <2> QED
    BY <2>1, <2>5, <2>6
<1> HIDE DEF by
<1> DEFINE order == <<n>> \o [w \in 1 .. n - 1 |-> w]
           all == [k \in 1 .. n |-> by(order[k])]
<1>6. \A k \in 1 .. n : order[k] = IF k = 1 THEN n ELSE k - 1
  <2>1. <<n>> \in Seq(Nat) /\ [w \in 1 .. n - 1 |-> w] \in Seq(Nat)
        /\ Len(<<n>>) = 1 /\ Len([w \in 1 .. n - 1 |-> w]) = n - 1
    BY <1>1
  <2> QED
    BY <1>1, <2>1
<1>7. Reported = FlattenSeq(all)
  BY DEF Reported, n, by, list, of
<1>8. /\ n \in Nat
      /\ \A k \in 1 .. n : order[k] \in 1 .. n
      /\ \A k, l \in 1 .. n : k # l => order[k] # order[l]
      /\ \A w \in 1 .. n : \E k \in 1 .. n : order[k] = w
  <2>1. n \in Nat /\ n >= 1
    BY <1>1
  <2>2. \A w \in 1 .. n : order[IF w = n THEN 1 ELSE w + 1] = w /\ (IF w = n THEN 1 ELSE w + 1) \in 1 .. n
    BY <1>6, <2>1
  <2> HIDE DEF order
  <2> QED
    BY <1>6, <2>1, <2>2
<1> HIDE DEF order
<1>9. \A v, w \in 1 .. n : v # w => did(v) \cap did(w) = {}
  BY <1>3
<1>10. all \in [1 .. n -> Seq(Nat)] /\ \A k \in 1 .. n : all[k] = by(order[k])
  BY <1>5, <1>8
<1> HIDE DEF all
<1>11. \A k \in 1 .. n : IsInjective(all[k]) /\ ToSet(all[k]) = did(order[k])
  BY <1>5, <1>8, <1>10
<1> HIDE DEF did
<1>12. \A k, l \in 1 .. n : k # l => ToSet(all[k]) \cap ToSet(all[l]) = {}
  BY <1>8, <1>9, <1>11
<1>13. /\ Reported \in Seq(Nat) /\ IsInjective(Reported)
       /\ ToSet(Reported) = UNION {ToSet(all[k]) : k \in 1 .. n}
  <2>1. n \in Nat /\ all \in [1 .. n -> Seq(Nat)] /\ \A k \in 1 .. n : IsInjective(all[k])
    BY <1>8, <1>10, <1>11
  <2>2. /\ FlattenSeq(all) \in Seq(Nat) /\ IsInjective(FlattenSeq(all))
        /\ ToSet(FlattenSeq(all)) = UNION {ToSet(all[k]) : k \in 1 .. n}
    BY <1>12, <2>1, FlattenOnce
  <2> QED
    BY <1>7, <2>2
<1>14. UNION {ToSet(all[k]) : k \in 1 .. n} = UNION {did(w) : w \in 1 .. n}
  BY <1>8, <1>11
<1>15. UNION {did(w) : w \in 1 .. n} = UNION {units(i) : i \in 1 .. m}
  <2>1. \A i \in 1 .. m : ((i - 1) % n) + 1 \in 1 .. n
    <3>1. \A i \in 1 .. m : i - 1 \in Nat
      BY <1>1
    <3>2. n \in Nat \ {0}
      BY <1>1
    <3>3. \A i \in 1 .. m : (i - 1) % n \in 0 .. n - 1
      BY <3>1, <3>2, Division
    <3> QED
      BY <3>2, <3>3
  <2> QED
    BY <2>1 DEF did
<1> QED
  BY <1>1, <1>13, <1>14, <1>15

-----------------------------------------------------------------------------
(* Functions defined from one number to the next, as Places and Figures are. *)

(* A function whose value at each number follows from the one before exists. *)
Counts(B, b, first, last, g, f) ==
  /\ f \in [first .. last -> B]
  /\ f[first] = b
  /\ \A u \in first + 1 .. last : f[u] = g[u][f[u - 1]]

LEMMA CountsExists ==
  ASSUME NEW B, NEW b \in B, NEW first \in Nat, NEW last \in Nat, first <= last,
         NEW g \in [first + 1 .. last -> [B -> B]]
  PROVE  \E f : Counts(B, b, first, last, g, f)
<1> DEFINE n == last - first
           steps == [k \in 1 .. n |-> g[first + k]]
<1>1. n \in Nat /\ steps \in [1 .. n -> [B -> B]] /\ \A k \in 1 .. n : steps[k] = g[first + k]
  OBVIOUS
<1> HIDE DEF steps
<1>2. PICK h : History(B, b, n, steps, h)
  <2>1. \E h : History(B, b, n, steps, h)
    BY <1>1, Recursion
  <2> QED
    BY <2>1
<1>3. h \in [0 .. n -> B] /\ h[0] = b /\ \A k \in 1 .. n : h[k] = steps[k][h[k - 1]]
  BY <1>2 DEF History
<1> DEFINE f == [u \in first .. last |-> h[u - first]]
<1>4. f \in [first .. last -> B]
  <2>1. \A u \in first .. last : u - first \in 0 .. n
    OBVIOUS
  <2> QED
    BY <1>3, <2>1
<1>5. f[first] = b
  BY <1>3
<1>6. ASSUME NEW u \in first + 1 .. last PROVE f[u] = g[u][f[u - 1]]
  <2> DEFINE k == u - first
  <2>1. k \in 1 .. n /\ first + k = u /\ u - 1 \in first .. last /\ u \in first .. last /\ (u - 1) - first = k - 1
    OBVIOUS
  <2>2. f[u] = h[k] /\ f[u - 1] = h[k - 1]
    BY <2>1
  <2>3. h[k] = steps[k][h[k - 1]] /\ steps[k] = g[u]
    BY <1>1, <1>3, <2>1
  <2> QED
    BY <2>2, <2>3
<1> HIDE DEF f
<1> QED
  BY <1>4, <1>5, <1>6 DEF Counts

(* Where a partition begins that is not joined to the last page before it. *)
LEMMA RightType ==
  ASSUME job \in Jobs, NEW x \in Nat
  PROVE  /\ Plan!Right(x) \in Nat /\ x <= Plan!Right(x) /\ Plan!Right(x) <= x + 1
         /\ Plan!Right(Plan!Right(x)) = Plan!Right(x)
         /\ job.openright => Plan!Right(x) % 2 = 0
         /\ ~ job.openright => Plan!Right(x) = x
         /\ (job.openright => x % 2 = 0) => Plan!Right(x) = x
<1>1. x % 2 = 1 => (x + 1) % 2 = 0
  OBVIOUS
<1>2. x % 2 \in {0, 1}
  OBVIOUS
<1> QED
  BY <1>1, <1>2, JobParts DEF Plan!Right

(* Places, partition by partition.                                         *)
LEMMA PlacesSteps ==
  ASSUME job \in Jobs, NEW first \in 1 .. job.count, NEW last \in first .. job.count
  PROVE  /\ Plan!Places(first, last) \in [first .. last -> Nat]
         /\ Plan!Places(first, last)[first] = 0
         /\ \A u \in first + 1 .. last :
              Plan!Places(first, last)[u] =
                IF u \in job.joined THEN Plan!Places(first, last)[u - 1] + job.size[u - 1] - 1
                  ELSE Plan!Right(Plan!Places(first, last)[u - 1] + job.size[u - 1])
<1> DEFINE next(u, x) == IF u \in job.joined THEN x + job.size[u - 1] - 1 ELSE Plan!Right(x + job.size[u - 1])
           g == [u \in first + 1 .. last |-> [x \in Nat |-> next(u, x)]]
           F(f) == f = [u \in first .. last |->
                          CASE u = first -> 0
                            [] u # first /\ u \in job.joined -> f[u - 1] + job.size[u - 1] - 1
                            [] OTHER -> Plan!Right(f[u - 1] + job.size[u - 1])]
           at == CHOOSE f : F(f)
<1>0. first \in Nat /\ last \in Nat /\ first <= last
  BY JobParts
<1>1. \A u \in first + 1 .. last : job.size[u - 1] \in 1 .. MaxPages
  <2>1. job.count <= MaxUnits /\ job.count \in Nat /\ MaxUnits \in Nat
    BY JobParts
  <2>2. \A u \in first + 1 .. last : u - 1 \in 1 .. MaxUnits
    BY <1>0, <2>1
  <2> QED
    BY <2>2, JobParts
<1>2. \A u \in first + 1 .. last : \A x \in Nat : next(u, x) \in Nat
  <2>1. \A u \in first + 1 .. last : \A x \in Nat : x + job.size[u - 1] \in Nat /\ x + job.size[u - 1] - 1 \in Nat
    BY <1>1
  <2>2. \A x \in Nat : Plan!Right(x) \in Nat
    BY RightType
  <2> QED
    BY <2>1, <2>2
<1> HIDE DEF next
<1>3. g \in [first + 1 .. last -> [Nat -> Nat]]
  BY <1>2
<1>4. \A u \in first + 1 .. last : \A x \in Nat : g[u][x] = next(u, x)
  OBVIOUS
<1> HIDE DEF g
<1>5. PICK e : Counts(Nat, 0, first, last, g, e)
  <2>1. \E e : Counts(Nat, 0, first, last, g, e)
    BY <1>0, <1>3, CountsExists
  <2> QED
    BY <2>1
<1>6. e \in [first .. last -> Nat] /\ e[first] = 0 /\ \A u \in first + 1 .. last : e[u] = g[u][e[u - 1]]
  BY <1>5 DEF Counts
<1>7. \A u \in first + 1 .. last : u \in first .. last /\ u - 1 \in first .. last /\ u # first
  BY <1>0
<1>8. \A u \in first + 1 .. last : e[u] = next(u, e[u - 1])
  BY <1>4, <1>6, <1>7
<1>9. F(e)
  <2>1. \A u \in first .. last : u = first \/ u \in first + 1 .. last
    BY <1>0
  <2>2. \A u \in first .. last :
          e[u] = CASE u = first -> 0
                   [] u # first /\ u \in job.joined -> e[u - 1] + job.size[u - 1] - 1
                   [] OTHER -> Plan!Right(e[u - 1] + job.size[u - 1])
    BY <1>6, <1>7, <1>8, <2>1 DEF next
  <2> QED
    BY <1>6, <2>2
<1>10. F(at)
  <2> HIDE DEF F
  <2> QED
    BY <1>9
<1>11. at = Plan!Places(first, last)
  BY DEF Plan!Places
<1>12. DOMAIN at = first .. last /\ at = [u \in first .. last |-> at[u]]
  <2> HIDE DEF at
  <2> QED
    BY <1>10
<1>13. at[first] = 0 /\ \A u \in first + 1 .. last : at[u] = next(u, at[u - 1])
  <2> HIDE DEF at
  <2>1. first \in first .. last
    BY <1>0
  <2>2. at[first] = 0
    BY <1>10, <2>1
  <2>3. \A u \in first + 1 .. last : at[u] = next(u, at[u - 1])
    BY <1>7, <1>10 DEF next
  <2> QED
    BY <2>2, <2>3
<1> HIDE DEF at
<1>14. \A u \in first .. last : at[u] \in Nat
  <2> DEFINE S == {k \in Nat : at[first + k] \in Nat}
  <2>1. 0 \in S
    BY <1>0, <1>13
  <2>2. ASSUME NEW k \in 1 .. last - first, k - 1 \in S PROVE k \in S
    <3>1. first + k \in first + 1 .. last /\ (first + k) - 1 = first + (k - 1) /\ k \in Nat
      BY <1>0
    <3>2. at[first + k] = next(first + k, at[first + (k - 1)])
      BY <1>13, <3>1
    <3> QED
      BY <1>2, <2>2, <3>1, <3>2
  <2>3. \A k \in 0 .. last - first : k \in S
    <3>1. last - first \in Nat
      BY <1>0
    <3> HIDE DEF S
    <3> QED
      BY <2>1, <2>2, <3>1, InductUpTo
  <2>4. \A u \in first .. last : u - first \in 0 .. last - first /\ first + (u - first) = u
    BY <1>0
  <2> QED
    BY <2>3, <2>4
<1> QED
  BY <1>11, <1>12, <1>13, <1>14 DEF next

(* The first of some partitions has no figures before it.                  *)
LEMMA FiguresSteps ==
  ASSUME job \in Jobs, NEW first \in 1 .. job.count, NEW last \in first .. job.count
  PROVE  /\ DOMAIN Plan!Figures(first, last) = first .. last
         /\ Plan!Figures(first, last) = [u \in first .. last |-> Plan!Figures(first, last)[u]]
         /\ Plan!Figures(first, last)[first] = 0
<1> DEFINE g == [u \in first + 1 .. last |-> [x \in Nat |-> x + job.figures[u - 1]]]
           F(f) == f = [u \in first .. last |-> IF u = first THEN 0 ELSE f[u - 1] + job.figures[u - 1]]
           before == CHOOSE f : F(f)
<1>0. first \in Nat /\ last \in Nat /\ first <= last
  BY JobParts
<1>1. \A u \in first + 1 .. last : job.figures[u - 1] \in Nat
  <2>1. job.count <= MaxUnits /\ job.count \in Nat /\ MaxUnits \in Nat
    BY JobParts
  <2>2. \A u \in first + 1 .. last : u - 1 \in 1 .. MaxUnits
    BY <1>0, <2>1
  <2> QED
    BY <2>2, JobParts
<1>2. g \in [first + 1 .. last -> [Nat -> Nat]]
  BY <1>1
<1>3. \A u \in first + 1 .. last : \A x \in Nat : g[u][x] = x + job.figures[u - 1]
  OBVIOUS
<1> HIDE DEF g
<1>4. PICK e : Counts(Nat, 0, first, last, g, e)
  <2>1. \E e : Counts(Nat, 0, first, last, g, e)
    BY <1>0, <1>2, CountsExists
  <2> QED
    BY <2>1
<1>5. e \in [first .. last -> Nat] /\ e[first] = 0 /\ \A u \in first + 1 .. last : e[u] = g[u][e[u - 1]]
  BY <1>4 DEF Counts
<1>6. \A u \in first .. last : u = first \/ (u \in first + 1 .. last /\ u - 1 \in first .. last)
  BY <1>0
<1>7. \A u \in first .. last : e[u] = IF u = first THEN 0 ELSE e[u - 1] + job.figures[u - 1]
  BY <1>3, <1>5, <1>6
<1>8. F(e)
  BY <1>5, <1>7
<1>9. F(before)
  <2> HIDE DEF F
  <2> QED
    BY <1>8
<1>10. before = Plan!Figures(first, last)
  BY DEF Plan!Figures
<1> HIDE DEF before
<1>11. DOMAIN before = first .. last /\ before = [u \in first .. last |-> before[u]] /\ before[first] = 0
  BY <1>0, <1>9
<1> QED
  BY <1>10, <1>11

-----------------------------------------------------------------------------
(* Pages: the fragments are cuts from the document of one thread.          *)

(* What can be on a page, and on which page a partition begins when none   *)
(* shares one: the pages of the whole document, and cuts from them.        *)
PageContents == SUBSET ((1 .. job.count) \X Int \X BOOLEAN)
Begin(u) == Plan!Places(1, job.count)[u]
End(u) == Begin(u) + job.size[u]
OnPage(p) == {<<u, p - Begin(u), TRUE>> : u \in {v \in 1 .. job.count : p - Begin(v) \in 1 .. job.size[v]}}
Excerpt(at, len) == [p \in 1 .. len |-> OnPage(at + p)]

(* A cut is a sequence of pages.                                           *)
LEMMA CutType ==
  ASSUME job \in Jobs, NEW at \in Nat, NEW len \in Nat
  PROVE  /\ Excerpt(at, len) \in Seq(PageContents) /\ Len(Excerpt(at, len)) = len
         /\ \A p \in 1 .. len : Excerpt(at, len)[p] = OnPage(at + p)
<1>1. \A u \in 1 .. job.count : Begin(u) \in Nat
  <2>1. 1 \in 1 .. job.count /\ job.count \in 1 .. job.count
    BY JobParts
  <2> DEFINE f == Plan!Places(1, job.count)
  <2>2. f \in [1 .. job.count -> Nat]
    BY <2>1, PlacesSteps
  <2>3. \A u : Begin(u) = f[u]
    BY DEF Begin
  <2> HIDE DEF f
  <2> QED
    BY <2>2, <2>3
<1>2. \A p \in 1 .. len : OnPage(at + p) \in PageContents
  <2>1. SUFFICES ASSUME NEW p \in 1 .. len PROVE OnPage(at + p) \in PageContents
    OBVIOUS
  <2>2. \A u \in 1 .. job.count : (at + p) - Begin(u) \in Int
    BY <1>1
  <2>3. \A u \in 1 .. job.count : <<u, (at + p) - Begin(u), TRUE>> \in (1 .. job.count) \X Int \X BOOLEAN
    BY <2>2
  <2> QED
    BY <2>3 DEF OnPage, PageContents
<1> DEFINE s == Excerpt(at, len)
<1>3. s \in [1 .. len -> PageContents] /\ \A p \in 1 .. len : s[p] = OnPage(at + p)
  BY <1>2 DEF Excerpt
<1> HIDE DEF s
<1>4. s \in Seq(PageContents) /\ Len(s) = len
  BY <1>3
<1> QED
  BY <1>3, <1>4 DEF s

(* A fragment is appended behind the blank page it needs.                  *)
LEMMA AppendType ==
  ASSUME job \in Jobs, NEW x \in Seq(PageContents), NEW y \in Seq(PageContents)
  PROVE  AppendFragment(x, y) \in Seq(PageContents)
<1>1. Plan!Right(Len(x)) - Len(x) \in Nat
  <2>1. Len(x) \in Nat
    OBVIOUS
  <2>2. Plan!Right(Len(x)) \in Nat /\ Len(x) <= Plan!Right(Len(x))
    BY <2>1, RightType
  <2> QED
    BY <2>1, <2>2
<1> DEFINE n == Plan!Right(Len(x)) - Len(x)
<1>2. Blank(n) \in Seq(PageContents)
  <2> HIDE DEF n
  <2>1. {} \in PageContents
    BY DEF PageContents
  <2>2. [p \in 1 .. n |-> {}] \in [1 .. n -> PageContents]
    BY <2>1
  <2>3. [p \in 1 .. n |-> {}] \in Seq(PageContents)
    <3>1. n \in Nat
      BY <1>1 DEF n
    <3> QED
      BY <2>2, <3>1
  <2> QED
    BY <2>3 DEF Blank
<1> HIDE DEF n
<1>3. x \o Blank(n) \in Seq(PageContents)
  BY <1>2
<1>4. (x \o Blank(n)) \o y \in Seq(PageContents)
  BY <1>3
<1> QED
  BY <1>4 DEF AppendFragment, n

(* A cut is appended to one that ends before it, with nothing but blank    *)
(* pages between the two.                                                  *)
LEMMA AppendCut ==
  ASSUME job \in Jobs, NEW q \in Nat, NEW len \in Nat,
         \A p \in q + 1 .. Plan!Right(q) : OnPage(p) = {}
  PROVE  AppendFragment(Excerpt(0, q), Excerpt(Plan!Right(q), len)) = Excerpt(0, Plan!Right(q) + len)
<1> DEFINE r == Plan!Right(q)
           a == Excerpt(0, q)
           b == Blank(r - q)
           d == Excerpt(r, len)
           e == Excerpt(0, r + len)
<1>1. r \in Nat /\ q <= r
  BY RightType
<1>2. a \in Seq(PageContents) /\ Len(a) = q /\ \A p \in 1 .. q : a[p] = OnPage(p)
  <2>1. a \in Seq(PageContents) /\ Len(a) = q /\ \A p \in 1 .. q : a[p] = OnPage(0 + p)
    BY CutType
  <2>2. \A p \in 1 .. q : 0 + p = p
    OBVIOUS
  <2> QED
    BY <2>1, <2>2
<1>3. d \in Seq(PageContents) /\ Len(d) = len /\ \A p \in 1 .. len : d[p] = OnPage(r + p)
  BY <1>1, CutType
<1>4. e \in Seq(PageContents) /\ Len(e) = r + len /\ \A p \in 1 .. r + len : e[p] = OnPage(p)
  <2>1. r + len \in Nat
    BY <1>1
  <2>2. e \in Seq(PageContents) /\ Len(e) = r + len /\ \A p \in 1 .. r + len : e[p] = OnPage(0 + p)
    BY <2>1, CutType
  <2>3. \A p \in 1 .. r + len : 0 + p = p
    BY <1>1
  <2> QED
    BY <2>2, <2>3
<1>5. b \in Seq(PageContents) /\ Len(b) = r - q /\ \A p \in 1 .. r - q : b[p] = {}
  <2>1. r - q \in Nat
    BY <1>1
  <2> DEFINE n == r - q
  <2> HIDE DEF n
  <2>2. {} \in PageContents
    BY DEF PageContents
  <2>3. Blank(n) \in [1 .. n -> PageContents] /\ \A p \in 1 .. n : Blank(n)[p] = {}
    BY <2>2 DEF Blank
  <2>4. n \in Nat
    BY <2>1 DEF n
  <2>5. Blank(n) \in Seq(PageContents) /\ Len(Blank(n)) = n
    BY <2>3, <2>4
  <2> QED
    BY <2>3, <2>5 DEF n
<1>6. AppendFragment(a, d) = (a \o b) \o d
  BY <1>2 DEF AppendFragment
<1>7. \A p \in q + 1 .. r : OnPage(p) = {}
  OBVIOUS
<1> HIDE DEF a, b, d, e, r
<1>8. /\ a \o b \in Seq(PageContents) /\ Len(a \o b) = r
      /\ \A p \in 1 .. r : (a \o b)[p] = OnPage(p)
  <2>1. a \o b \in Seq(PageContents)
    BY <1>2, <1>5
  <2>2. Len(a \o b) = r
    BY <1>1, <1>2, <1>5
  <2>3. \A p \in 1 .. r : (a \o b)[p] = IF p <= q THEN a[p] ELSE b[p - q]
    BY <1>1, <1>2, <1>5
  <2>4. \A p \in 1 .. r : p <= q => (a \o b)[p] = OnPage(p)
    BY <1>1, <1>2, <2>3
  <2>5. \A p \in 1 .. r : ~ p <= q => (a \o b)[p] = OnPage(p)
    <3>1. \A p \in 1 .. r : ~ p <= q => p \in q + 1 .. r /\ p - q \in 1 .. r - q
      BY <1>1
    <3> QED
      BY <1>5, <1>7, <2>3, <3>1
  <2> QED
    BY <2>1, <2>2, <2>4, <2>5
<1> DEFINE ab == a \o b
<1> HIDE DEF ab
<1>9. ab \in Seq(PageContents) /\ Len(ab) = r /\ \A p \in 1 .. r : ab[p] = OnPage(p)
  BY <1>8 DEF ab
<1>10. /\ ab \o d \in Seq(PageContents) /\ Len(ab \o d) = r + len
       /\ \A p \in 1 .. r + len : (ab \o d)[p] = OnPage(p)
  <2>1. ab \o d \in Seq(PageContents)
    BY <1>3, <1>9
  <2>2. Len(ab \o d) = r + len
    BY <1>1, <1>3, <1>9
  <2>3. \A p \in 1 .. r + len : (ab \o d)[p] = IF p <= r THEN ab[p] ELSE d[p - r]
    BY <1>1, <1>3, <1>9
  <2>4. \A p \in 1 .. r + len : p <= r => (ab \o d)[p] = OnPage(p)
    BY <1>1, <1>9, <2>3
  <2>5. \A p \in 1 .. r + len : ~ p <= r => (ab \o d)[p] = OnPage(p)
    <3>1. \A p \in 1 .. r + len : ~ p <= r => p - r \in 1 .. len /\ r + (p - r) = p
      BY <1>1
    <3> QED
      BY <1>3, <2>3, <3>1
  <2> QED
    BY <2>1, <2>2, <2>4, <2>5
<1>11. ab \o d = e
  <2> DEFINE f == ab \o d
  <2>1. /\ f \in Seq(PageContents) /\ e \in Seq(PageContents) /\ Len(f) = Len(e)
        /\ \A p \in 1 .. Len(f) : f[p] = e[p]
    BY <1>4, <1>10
  <2> HIDE DEF f
  <2>2. f = e
    BY <2>1, SeqEqual
  <2> QED
    BY <2>2 DEF f
<1> QED
  BY <1>6, <1>11 DEF a, b, d, e, r, ab

(* The fragments are merged one by one.                                    *)
Together(fragments) == FoldLeft(AppendFragment, << >>, fragments)

LEMMA MergeSteps ==
  ASSUME job \in Jobs, NEW n \in Nat, NEW fragments \in [1 .. n -> Seq(PageContents)]
  PROVE  \E h \in [0 .. n -> Seq(PageContents)] :
           /\ h[0] = << >> /\ Together(fragments) = h[n]
           /\ \A k \in 1 .. n : h[k] = AppendFragment(h[k - 1], fragments[k])
<1> DEFINE B == Seq(PageContents)
           g == [i \in 1 .. n |-> [x \in B |-> AppendFragment(x, fragments[i])]]
           F(f) == f = [t \in SUBSET (1 .. n) |->
                         IF t = {} THEN << >> ELSE AppendFragment(f[t \ {Max(t)}], fragments[Max(t)])]
           iter == CHOOSE f : F(f)
<1>0. << >> \in B /\ n \in Nat
  BY EmptySeq
<1>1. g \in [1 .. n -> [B -> B]]
  BY AppendType
<1>2. PICK e : FoldOn(B, << >>, g, n, e)
  <2>1. \E e : FoldOn(B, << >>, g, n, e)
    <3> HIDE DEF g, B
    <3> QED
      BY <1>0, <1>1, FoldFn
  <2> QED
    BY <2>1
<1>3. \A i \in 1 .. n : \A x \in B : g[i][x] = AppendFragment(x, fragments[i])
  OBVIOUS
<1> HIDE DEF g, B
<1>4. F(e)
  <2>1. ASSUME NEW t \in SUBSET (1 .. n)
        PROVE  e[t] = IF t = {} THEN << >> ELSE AppendFragment(e[t \ {Max(t)}], fragments[Max(t)])
    <3>1. e[t] = FoldStep(<< >>, g, e, t) /\ e[t \ {Max(t)}] \in B
      BY <1>2 DEF FoldOn
    <3>2. t # {} => Max(t) \in 1 .. n
      BY <1>0, MaxRange
    <3> QED
      BY <1>3, <3>1, <3>2 DEF FoldStep
  <2>2. e = [t \in SUBSET (1 .. n) |-> e[t]]
    BY <1>2 DEF FoldOn
  <2> QED
    BY <2>1, <2>2
<1>5. F(iter)
  <2> HIDE DEF F
  <2> QED
    BY <1>4
<1>6. Together(fragments) = iter[1 .. n]
  <2>1. DOMAIN fragments = 1 .. n
    OBVIOUS
  <2> QED
    BY <2>1 DEF FoldLeft, MapThenFoldSet, Together
<1>7. \A t \in SUBSET (1 .. n) :
        iter[t] = IF t = {} THEN << >> ELSE AppendFragment(iter[t \ {Max(t)}], fragments[Max(t)])
  <2>1. \A f : F(f) => \A t \in SUBSET (1 .. n) :
          f[t] = IF t = {} THEN << >> ELSE AppendFragment(f[t \ {Max(t)}], fragments[Max(t)])
    OBVIOUS
  <2> HIDE DEF F, iter
  <2> QED
    BY <1>5, <2>1
<1> HIDE DEF iter, F
<1>8. iter[{}] = << >>
  BY <1>7
<1>9. \A k \in 1 .. n : iter[1 .. (k - 1)] \in B => iter[1 .. k] = g[k][iter[1 .. (k - 1)]]
  <2>1. SUFFICES ASSUME NEW k \in 1 .. n, iter[1 .. (k - 1)] \in B
                 PROVE  iter[1 .. k] = g[k][iter[1 .. (k - 1)]]
    OBVIOUS
  <2>2. 1 .. k \in SUBSET (1 .. n) /\ k \in Nat \ {0}
    BY <1>0, FirstOnes
  <2>3. Max(1 .. k) = k /\ 1 .. k # {} /\ (1 .. k) \ {k} = 1 .. (k - 1)
    BY <2>2, MaxOfRange
  <2>4. iter[1 .. k] = AppendFragment(iter[1 .. (k - 1)], fragments[k])
    BY <1>7, <2>2, <2>3
  <2> QED
    BY <1>3, <2>1, <2>4
<1>10. PICK h : History(B, << >>, n, g, h) /\ EndsAs(iter, n, h)
  <2>1. Loops(B, << >>, n, g, iter)
    BY <1>8, <1>9 DEF Loops
  <2>2. \E h : History(B, << >>, n, g, h) /\ EndsAs(iter, n, h)
    BY <1>0, <1>1, <2>1, FoldSteps
  <2> QED
    BY <2>2
<1>11. \A k \in 1 .. n : h[k] = AppendFragment(h[k - 1], fragments[k])
  <2>1. \A k \in 1 .. n : h[k] = g[k][h[k - 1]] /\ k - 1 \in 0 .. n /\ h[k - 1] \in B
    BY <1>0, <1>10 DEF History
  <2> QED
    BY <1>3, <2>1
<1> QED
  BY <1>6, <1>10, <1>11 DEF History, EndsAs, B

(* A fragment that is appended at page `before` and ends at page `now`.     *)
FitsOn(before, now, fragment) ==
  /\ Plan!Right(before) <= now
  /\ fragment = Excerpt(Plan!Right(before), now - Plan!Right(before))
  /\ \A p \in before + 1 .. Plan!Right(before) : OnPage(p) = {}

(* Fragments that are cuts behind each other make one cut.                 *)
LEMMA CutsTogether ==
  ASSUME job \in Jobs, NEW n \in Nat, NEW fragments, DOMAIN fragments = 1 .. n,
         fragments = [i \in 1 .. n |-> fragments[i]],
         NEW to \in [0 .. n -> Nat], to[0] = 0,
         \A i \in 1 .. n : FitsOn(to[i - 1], to[i], fragments[i])
  PROVE  Together(fragments) = Excerpt(0, to[n])
<1>0. \A i \in 1 .. n : /\ Plan!Right(to[i - 1]) <= to[i]
                        /\ fragments[i] = Excerpt(Plan!Right(to[i - 1]), to[i] - Plan!Right(to[i - 1]))
                        /\ \A p \in to[i - 1] + 1 .. Plan!Right(to[i - 1]) : OnPage(p) = {}
  BY DEF FitsOn
<1>1. \A i \in 1 .. n : /\ i - 1 \in 0 .. n /\ i \in 0 .. n /\ to[i - 1] \in Nat /\ to[i] \in Nat
                        /\ Plan!Right(to[i - 1]) \in Nat
                        /\ to[i] - Plan!Right(to[i - 1]) \in Nat
  <2>1. SUFFICES ASSUME NEW i \in 1 .. n
                 PROVE  /\ i - 1 \in 0 .. n /\ i \in 0 .. n /\ to[i - 1] \in Nat /\ to[i] \in Nat
                        /\ Plan!Right(to[i - 1]) \in Nat
                        /\ to[i] - Plan!Right(to[i - 1]) \in Nat
    OBVIOUS
  <2>2. i - 1 \in 0 .. n /\ i \in 0 .. n
    OBVIOUS
  <2>3. to[i - 1] \in Nat /\ to[i] \in Nat
    BY <2>2
  <2>4. Plan!Right(to[i - 1]) \in Nat /\ Plan!Right(to[i - 1]) <= to[i]
    BY <1>0, <2>3, RightType
  <2> QED
    BY <2>2, <2>3, <2>4
<1>2. fragments \in [1 .. n -> Seq(PageContents)]
  <2>1. \A i \in 1 .. n : fragments[i] \in Seq(PageContents)
    BY <1>0, <1>1, CutType
  <2> QED
    BY <2>1
<1>3. PICK h \in [0 .. n -> Seq(PageContents)] :
        /\ h[0] = << >> /\ Together(fragments) = h[n]
        /\ \A k \in 1 .. n : h[k] = AppendFragment(h[k - 1], fragments[k])
  BY <1>2, MergeSteps
<1> DEFINE S == {k \in 0 .. n : h[k] = Excerpt(0, to[k])}
<1>4. 0 \in S
  <2>1. Excerpt(0, 0) = << >>
    BY DEF Excerpt
  <2> QED
    BY <1>3, <2>1
<1>5. ASSUME NEW k \in 1 .. n, k - 1 \in S PROVE k \in S
  <2> DEFINE q == to[k - 1]
             len == to[k] - Plan!Right(q)
  <2>1. h[k] = AppendFragment(Excerpt(0, q), Excerpt(Plan!Right(q), len))
    BY <1>0, <1>3, <1>5
  <2>2. AppendFragment(Excerpt(0, q), Excerpt(Plan!Right(q), len)) = Excerpt(0, Plan!Right(q) + len)
    <3>1. \A p \in q + 1 .. Plan!Right(q) : OnPage(p) = {}
      BY <1>0
    <3>2. q \in Nat /\ len \in Nat
      BY <1>1
    <3> QED
      BY <3>1, <3>2, AppendCut
  <2>3. Plan!Right(q) + len = to[k]
    BY <1>1
  <2> QED
    BY <2>1, <2>2, <2>3
<1> HIDE DEF S
<1>6. n \in S
  <2>1. \A k \in 0 .. n : k \in S
    BY <1>4, <1>5, InductUpTo
  <2> QED
    BY <2>1
<1> QED
  BY <1>3, <1>6 DEF S

(* No partition shares a page with the one before.                         *)
Apart == job \in Jobs /\ job.joined = {}

(* The partitions follow each other.                                       *)
LEMMA Layout ==
  ASSUME Apart
  PROVE  /\ job.count \in Nat /\ job.count >= 2 /\ Begin(1) = 0
         /\ \A u \in 1 .. job.count : Begin(u) \in Nat /\ job.size[u] \in 1 .. MaxPages
         /\ \A u \in 1 .. job.count : job.openright => Begin(u) % 2 = 0
         /\ \A u \in 2 .. job.count : Begin(u) = Plan!Right(End(u - 1))
         /\ \A u, v \in 1 .. job.count : u < v => End(u) <= Begin(v)
<1> DEFINE c == job.count
<1>0. c \in Nat /\ c >= 2 /\ c <= MaxUnits /\ MaxUnits \in Nat
  BY JobParts DEF Apart
<1>1. \A u \in 1 .. c : job.size[u] \in 1 .. MaxPages
  <2>1. \A u \in 1 .. c : u \in 1 .. MaxUnits
    BY <1>0
  <2> QED
    BY <2>1, JobParts DEF Apart
<1>2. /\ Plan!Places(1, c) \in [1 .. c -> Nat] /\ Begin(1) = 0
      /\ \A u \in 2 .. c : Begin(u) = Plan!Right(Begin(u - 1) + job.size[u - 1])
  <2>1. 1 \in 1 .. c /\ c \in 1 .. c
    BY <1>0
  <2>2. /\ Plan!Places(1, c) \in [1 .. c -> Nat]
        /\ Plan!Places(1, c)[1] = 0
        /\ \A u \in 1 + 1 .. c :
              Plan!Places(1, c)[u] =
                IF u \in job.joined THEN Plan!Places(1, c)[u - 1] + job.size[u - 1] - 1
                  ELSE Plan!Right(Plan!Places(1, c)[u - 1] + job.size[u - 1])
    BY <2>1, PlacesSteps DEF Apart
  <2>3. \A u : u \notin job.joined
    BY DEF Apart
  <2> QED
    BY <2>2, <2>3 DEF Begin
<1>3. \A u \in 1 .. c : Begin(u) \in Nat /\ End(u) \in Nat /\ Begin(u) < End(u)
  <2>1. \A u \in 1 .. c : Begin(u) \in Nat
    BY <1>2 DEF Begin
  <2> QED
    BY <1>1, <2>1 DEF End
<1>4. \A u \in 2 .. c : Begin(u) = Plan!Right(End(u - 1)) /\ u - 1 \in 1 .. c
  <2>1. \A u \in 2 .. c : u - 1 \in 1 .. c
    BY <1>0
  <2> QED
    BY <1>2, <2>1 DEF End
<1>5. \A u \in 1 .. c : job.openright => Begin(u) % 2 = 0
  <2>1. 0 % 2 = 0
    OBVIOUS
  <2>2. \A u \in 2 .. c : job.openright => Begin(u) % 2 = 0
    BY <1>3, <1>4, RightType DEF Apart
  <2>3. \A u \in 1 .. c : u = 1 \/ u \in 2 .. c
    BY <1>0
  <2> QED
    BY <1>2, <2>1, <2>2, <2>3
<1>6. \A u \in 2 .. c : End(u - 1) <= Begin(u)
  BY <1>3, <1>4, RightType DEF Apart
<1>7. \A u, v \in 1 .. c : u < v => End(u) <= Begin(v)
  <2>1. SUFFICES ASSUME NEW u \in 1 .. c PROVE \A v \in 1 .. c : u < v => End(u) <= Begin(v)
    OBVIOUS
  <2> DEFINE S == {k \in 0 .. c : u < k => End(u) <= Begin(k)}
  <2>2. 0 \in S
    BY <1>0
  <2>3. ASSUME NEW k \in 1 .. c, k - 1 \in S PROVE k \in S
    <3>1. CASE k <= u
      BY <3>1, <1>0
    <3>2. CASE k = u + 1
      <4>1. k \in 2 .. c /\ k - 1 = u
        BY <3>2
      <4>2. End(u) <= Begin(k)
        BY <4>1, <1>6
      <4> QED
        BY <4>2
    <3>3. CASE k > u + 1
      <4>1. k \in 2 .. c /\ k - 1 \in 1 .. c /\ u < k - 1
        BY <1>0, <3>3
      <4>2. End(u) <= Begin(k - 1)
        BY <2>3, <4>1
      <4>3. Begin(k - 1) < End(k - 1) /\ End(k - 1) <= Begin(k)
        BY <1>3, <1>6, <4>1
      <4>4. End(u) <= Begin(k)
        <5>1. End(u) \in Nat /\ Begin(k - 1) \in Nat /\ End(k - 1) \in Nat /\ Begin(k) \in Nat
          BY <1>3, <4>1
        <5> QED
          BY <4>2, <4>3, <5>1
      <4> QED
        BY <4>4
    <3> QED
      BY <3>1, <3>2, <3>3
  <2> HIDE DEF S
  <2>4. \A k \in 0 .. c : k \in S
    BY <1>0, <2>2, <2>3, InductUpTo
  <2> QED
    BY <2>4 DEF S
<1> QED
  BY <1>0, <1>1, <1>2, <1>3, <1>4, <1>5, <1>7

(* Partitions laid out alone begin where they do in the whole, less the    *)
(* beginning of the first: it is a right-hand page in both.                *)
LEMMA PlacesShift ==
  ASSUME Apart, NEW first \in 1 .. job.count, NEW last \in first .. job.count
  PROVE  \A u \in first .. last : Plan!Places(first, last)[u] = Begin(u) - Begin(first)
<1> DEFINE c == job.count
           at == Plan!Places(first, last)
           S == {k \in 0 .. last - first : at[first + k] = Begin(first + k) - Begin(first)}
<1>0. first \in Nat /\ last \in Nat /\ first <= last /\ last <= c /\ c \in Nat /\ 1 <= first
  BY Layout
<1>1. /\ at[first] = 0 /\ at \in [first .. last -> Nat]
      /\ \A u \in first + 1 .. last : at[u] = Plan!Right(at[u - 1] + job.size[u - 1])
  <2>1. /\ at \in [first .. last -> Nat]
        /\ at[first] = 0
        /\ \A u \in first + 1 .. last :
              at[u] = IF u \in job.joined THEN at[u - 1] + job.size[u - 1] - 1
                        ELSE Plan!Right(at[u - 1] + job.size[u - 1])
    BY PlacesSteps DEF Apart
  <2>2. \A u : u \notin job.joined
    BY DEF Apart
  <2> QED
    BY <2>1, <2>2
<1> HIDE DEF at
<1>2. /\ \A u \in 1 .. c : Begin(u) \in Nat /\ job.size[u] \in 1 .. MaxPages
      /\ \A u \in 1 .. c : job.openright => Begin(u) % 2 = 0
      /\ \A u \in 2 .. c : Begin(u) = Plan!Right(Begin(u - 1) + job.size[u - 1])
  BY Layout DEF End
<1>3. \A x, e \in Nat : (job.openright => e % 2 = 0) => Plan!Right(x + e) = Plan!Right(x) + e
  <2>1. SUFFICES ASSUME NEW x \in Nat, NEW e \in Nat, job.openright => e % 2 = 0
                 PROVE  Plan!Right(x + e) = Plan!Right(x) + e
    OBVIOUS
  <2>2. e % 2 = 0 => (x + e) % 2 = x % 2
    OBVIOUS
  <2> QED
    BY <2>1, <2>2 DEF Plan!Right
<1>4. 0 \in S
  BY <1>0, <1>1, <1>2
<1>5. ASSUME NEW k \in 1 .. last - first, k - 1 \in S PROVE k \in S
  <2> DEFINE u == first + k
  <2>1. u \in first + 1 .. last /\ u \in 2 .. c /\ u - 1 = first + (k - 1) /\ u - 1 \in 1 .. c /\ u \in 1 .. c /\ first \in 1 .. c
        /\ u - 1 \in first .. last
    BY <1>0
  <2>2. at[u - 1] = Begin(u - 1) - Begin(first) /\ at[u - 1] \in Nat
    BY <1>1, <1>5, <2>1
  <2> HIDE DEF u
  <2>3. at[u] = Plan!Right(at[u - 1] + job.size[u - 1])
    BY <1>1, <2>1
  <2>4. Begin(u) = Plan!Right(Begin(u - 1) + job.size[u - 1])
    BY <1>2, <2>1
  <2>5. /\ Begin(first) \in Nat
        /\ job.openright => Begin(first) % 2 = 0
        /\ at[u - 1] + job.size[u - 1] \in Nat
        /\ Begin(u - 1) + job.size[u - 1] = (at[u - 1] + job.size[u - 1]) + Begin(first)
    <3>1. Begin(first) \in Nat /\ Begin(u - 1) \in Nat /\ job.size[u - 1] \in 1 .. MaxPages
      BY <1>2, <2>1
    <3>2. job.openright => Begin(first) % 2 = 0
      BY <1>2, <2>1
    <3> QED
      BY <2>2, <3>1, <3>2
  <2>6. Begin(u) = at[u] + Begin(first)
    BY <1>3, <2>3, <2>4, <2>5
  <2>7. at[u] \in Nat
    <3>1. u \in first .. last
      BY <1>0, <2>1
    <3> QED
      BY <1>1, <3>1
  <2>8. at[u] = Begin(u) - Begin(first)
    BY <2>5, <2>6, <2>7
  <2> QED
    BY <2>8 DEF u
<1> HIDE DEF S
<1>6. \A k \in 0 .. last - first : k \in S
  BY <1>0, <1>4, <1>5, InductUpTo
<1>7. \A u \in first .. last : u - first \in 0 .. last - first /\ first + (u - first) = u
  BY <1>0
<1> QED
  BY <1>6, <1>7 DEF S, at

(* Only the partitions from `first` to `last` are on their pages.          *)
LEMMA PagesAreCuts ==
  ASSUME Apart, NEW first \in 1 .. job.count, NEW last \in first .. job.count
  PROVE  /\ Plan!Length(first, last) = End(last) - Begin(first)
         /\ Plan!PagesOf(first, last) = Excerpt(Begin(first), End(last) - Begin(first))
         /\ End(last) - Begin(first) \in Nat
<1> DEFINE c == job.count
           len == End(last) - Begin(first)
           at == Plan!Places(first, last)
<1>0. first \in Nat /\ last \in Nat /\ first <= last /\ last <= c /\ c \in Nat /\ 1 <= first
      /\ first \in 1 .. c /\ last \in 1 .. c
  BY Layout
<1>1. \A u \in 1 .. c : Begin(u) \in Nat /\ End(u) \in Nat /\ Begin(u) < End(u) /\ job.size[u] \in 1 .. MaxPages
                        /\ End(u) = Begin(u) + job.size[u]
  <2>1. \A u \in 1 .. c : Begin(u) \in Nat /\ job.size[u] \in 1 .. MaxPages
    BY Layout
  <2> QED
    BY <2>1 DEF End
<1>2. \A u, v \in 1 .. c : u < v => End(u) <= Begin(v)
  BY Layout
<1>3. \A u \in first .. last : at[u] = Begin(u) - Begin(first)
  BY PlacesShift
<1>4. Plan!Length(first, last) = len /\ len \in Nat
  <2>1. last \in first .. last /\ at[last] = Begin(last) - Begin(first)
    BY <1>0, <1>3
  <2>2. Plan!Length(first, last) = at[last] + job.size[last]
    BY DEF Plan!Length
  <2>3. Begin(first) < End(last)
    <3>1. CASE first = last
      BY <1>0, <1>1, <3>1
    <3>2. CASE first < last
      BY <1>0, <1>1, <1>2, <3>2
    <3> QED
      BY <1>0, <3>1, <3>2
  <2> HIDE DEF at
  <2> QED
    BY <1>0, <1>1, <2>1, <2>2, <2>3
<1> HIDE DEF len
<1> DEFINE Page(page) == {<<u, page - at[u], TRUE>> : u \in {v \in first .. last : page - at[v] \in 1 .. job.size[v]}}
<1>5. Plan!PagesOf(first, last) = [page \in 1 .. len |-> Page(page)]
  BY <1>4 DEF Plan!PagesOf
<1>6. \A page \in 1 .. len : Page(page) = OnPage(Begin(first) + page)
  <2>1. SUFFICES ASSUME NEW page \in 1 .. len PROVE Page(page) = OnPage(Begin(first) + page)
    OBVIOUS
  <2> DEFINE p == Begin(first) + page
  <2>2. page \in Int /\ p \in Int /\ Begin(first) < p /\ p <= End(last)
    <3>1. Begin(first) \in Nat /\ End(last) \in Nat
      BY <1>0, <1>1
    <3> QED
      BY <3>1, <1>4 DEF len
  <2>3. \A u \in first .. last : page - at[u] = p - Begin(u) /\ u \in 1 .. c
    <3>1. Begin(first) \in Nat
      BY <1>0, <1>1
    <3>2. \A u \in first .. last : u \in 1 .. c
      BY <1>0
    <3> QED
      BY <1>1, <1>3, <2>2, <3>1, <3>2
  <2> HIDE DEF p, at
  <2>4. ASSUME NEW v \in 1 .. c, p - Begin(v) \in 1 .. job.size[v] PROVE v \in first .. last
    <3>1. Begin(v) \in Nat /\ End(v) \in Nat /\ End(v) = Begin(v) + job.size[v] /\ job.size[v] \in 1 .. MaxPages
      BY <1>1
    <3>2. Begin(v) < p /\ p <= End(v)
      BY <2>2, <2>4, <3>1
    <3>3. ~ v < first
      <4>1. SUFFICES ASSUME v < first PROVE FALSE
        OBVIOUS
      <4>2. End(v) <= Begin(first) /\ Begin(first) \in Nat
        BY <1>0, <1>1, <1>2, <4>1
      <4> QED
        BY <2>2, <3>1, <3>2, <4>2
    <3>4. ~ last < v
      <4>1. SUFFICES ASSUME last < v PROVE FALSE
        OBVIOUS
      <4>2. End(last) <= Begin(v) /\ End(last) \in Nat
        BY <1>0, <1>1, <1>2, <4>1
      <4> QED
        BY <2>2, <3>1, <3>2, <4>2
    <3> QED
      BY <1>0, <3>3, <3>4
  <2>5. {v \in first .. last : page - at[v] \in 1 .. job.size[v]} = {v \in 1 .. c : p - Begin(v) \in 1 .. job.size[v]}
    BY <2>3, <2>4
  <2>6. Page(page) = {<<u, p - Begin(u), TRUE>> : u \in {v \in 1 .. c : p - Begin(v) \in 1 .. job.size[v]}}
    <3> DEFINE A == {v \in first .. last : page - at[v] \in 1 .. job.size[v]}
    <3>1. \A u \in A : <<u, page - at[u], TRUE>> = <<u, p - Begin(u), TRUE>>
      BY <2>3
    <3>2. {<<u, page - at[u], TRUE>> : u \in A} = {<<u, p - Begin(u), TRUE>> : u \in A}
      BY <3>1
    <3> QED
      BY <2>5, <3>2
  <2> QED
    BY <2>6 DEF OnPage, p
<1> HIDE DEF Page
<1>7. Plan!PagesOf(first, last) = Excerpt(Begin(first), len)
  BY <1>5, <1>6 DEF Excerpt
<1> QED
  BY <1>4, <1>7 DEF len

(* Nothing is on the pages between two partitions.                         *)
LEMMA BlankBetween ==
  ASSUME Apart, NEW u \in 2 .. job.count, NEW p \in End(u - 1) + 1 .. Begin(u)
  PROVE  OnPage(p) = {}
<1> DEFINE c == job.count
<1>1. \A v \in 1 .. c : Begin(v) \in Nat /\ End(v) \in Nat /\ job.size[v] \in 1 .. MaxPages
                        /\ End(v) = Begin(v) + job.size[v] /\ Begin(v) < End(v)
  <2>1. \A v \in 1 .. c : Begin(v) \in Nat /\ job.size[v] \in 1 .. MaxPages
    BY Layout
  <2> QED
    BY <2>1 DEF End
<1>2. \A v, w \in 1 .. c : v < w => End(v) <= Begin(w)
  BY Layout
<1>3. u \in 1 .. c /\ u - 1 \in 1 .. c /\ c \in Nat
  BY Layout
<1>4. p \in Int /\ End(u - 1) < p /\ p <= Begin(u)
  BY <1>1, <1>3
<1>5. ASSUME NEW v \in 1 .. c, p - Begin(v) \in 1 .. job.size[v] PROVE FALSE
  <2>1. Begin(v) < p /\ p <= End(v)
    BY <1>1, <1>4, <1>5
  <2>2. CASE v < u
    <3>1. End(v) <= End(u - 1)
      <4>1. CASE v = u - 1
        BY <4>1, <1>1
      <4>2. CASE v < u - 1
        <5>1. End(v) <= Begin(u - 1) /\ Begin(u - 1) < End(u - 1)
          BY <1>1, <1>2, <1>3, <4>2
        <5> QED
          BY <1>1, <1>3, <5>1
      <4> QED
        BY <2>2, <1>3, <4>1, <4>2
    <3>2. End(v) \in Nat /\ End(u - 1) \in Nat
      BY <1>1, <1>3
    <3> QED
      BY <1>4, <2>1, <3>1, <3>2
  <2>3. CASE u <= v
    <3>1. Begin(u) <= Begin(v)
      <4>1. CASE u = v
        BY <4>1, <1>1
      <4>2. CASE u < v
        <5>1. Begin(u) < End(u) /\ End(u) <= Begin(v)
          BY <1>1, <1>2, <1>3, <4>2
        <5> QED
          BY <1>1, <1>3, <5>1
      <4> QED
        BY <2>3, <1>3, <4>1, <4>2
    <3>2. Begin(u) \in Nat /\ Begin(v) \in Nat
      BY <1>1, <1>3
    <3> QED
      BY <1>4, <2>1, <3>1, <3>2
  <2> QED
    BY <1>3, <2>2, <2>3
<1>6. {v \in 1 .. c : p - Begin(v) \in 1 .. job.size[v]} = {}
  BY <1>5
<1> QED
  BY <1>6 DEF OnPage

(* The fragments of the workers make the pages of the whole document.      *)
LEMMA FullPages ==
  ASSUME JobOK, Apart, phase = "full"
  PROVE  Together([i \in DOMAIN Items |-> Plan!PagesOf(Items[i][1], Items[i][2])]) = Plan!PagesOf(1, job.count)
<1> DEFINE c == job.count
           n == Len(Items)
           lo == [i \in 1 .. n |-> Items[i][1]]
           hi == [i \in 1 .. n |-> Items[i][2]]
           fragments == [i \in DOMAIN Items |-> Plan!PagesOf(Items[i][1], Items[i][2])]
           to == [k \in 0 .. n |-> IF k = 0 THEN 0 ELSE End(hi[k])]
<1>0. c \in Nat /\ c >= 2 /\ job \in Jobs
  BY Layout DEF Apart
<1>1. /\ Items \in Seq((1 .. c) \X (1 .. c)) /\ n \in 1 .. c
      /\ Adjoining(lo, hi, n, c)
  BY ItemRanges
<1>2. n \in Nat /\ n >= 1 /\ DOMAIN Items = 1 .. n /\ \A i \in 1 .. n : Items[i] \in (1 .. c) \X (1 .. c)
  BY <1>0, <1>1
<1>3. \A i \in 1 .. n : lo[i] = Items[i][1] /\ hi[i] = Items[i][2] /\ lo[i] \in 1 .. c /\ hi[i] \in 1 .. c
  BY <1>2
<1>4. /\ lo[1] = 1 /\ hi[n] = c
      /\ \A i \in 1 .. n : lo[i] <= hi[i]
      /\ \A i \in 2 .. n : lo[i] = hi[i - 1] + 1
  BY <1>1 DEF Adjoining
<1>5. /\ DOMAIN fragments = 1 .. n /\ fragments = [i \in 1 .. n |-> fragments[i]]
      /\ \A i \in 1 .. n : fragments[i] = Plan!PagesOf(lo[i], hi[i])
  BY <1>2, <1>3
<1> HIDE DEF n, lo, hi, fragments
<1>6. \A u \in 1 .. c : Begin(u) \in Nat /\ End(u) \in Nat
  <2>1. \A u \in 1 .. c : Begin(u) \in Nat /\ job.size[u] \in 1 .. MaxPages
    BY Layout
  <2> QED
    BY <2>1 DEF End
<1>7. to \in [0 .. n -> Nat] /\ to[0] = 0 /\ \A i \in 1 .. n : to[i] = End(hi[i])
  <2>1. \A k \in 0 .. n : k = 0 \/ k \in 1 .. n
    BY <1>2
  <2>2. to \in [0 .. n -> Nat]
    BY <1>3, <1>6, <2>1
  <2> QED
    BY <1>2, <2>2
<1> HIDE DEF to
<1>8. \A i \in 1 .. n : /\ fragments[i] = Excerpt(Begin(lo[i]), End(hi[i]) - Begin(lo[i]))
                        /\ End(hi[i]) - Begin(lo[i]) \in Nat
  <2>1. \A i \in 1 .. n : hi[i] \in lo[i] .. c
    BY <1>3, <1>4
  <2> QED
    BY <1>3, <1>5, <2>1, PagesAreCuts
<1>9. \A i \in 1 .. n : /\ Plan!Right(to[i - 1]) = Begin(lo[i])
                        /\ \A p \in to[i - 1] + 1 .. Begin(lo[i]) : OnPage(p) = {}
  <2>1. SUFFICES ASSUME NEW i \in 1 .. n
                 PROVE  /\ Plan!Right(to[i - 1]) = Begin(lo[i])
                        /\ \A p \in to[i - 1] + 1 .. Begin(lo[i]) : OnPage(p) = {}
    OBVIOUS
  <2>2. CASE i = 1
    <3>1. to[i - 1] = 0 /\ Begin(lo[i]) = 0
      BY <1>4, <1>7, <2>2, Layout
    <3>2. Plan!Right(0) = 0
      BY DEF Plan!Right
    <3>3. 0 + 1 .. 0 = {}
      OBVIOUS
    <3> QED
      BY <3>1, <3>2, <3>3
  <2>3. CASE i # 1
    <3> DEFINE u == lo[i]
    <3>1. i \in 2 .. n /\ i - 1 \in 1 .. n
      BY <1>2, <2>3
    <3>2. u = hi[i - 1] + 1 /\ hi[i - 1] \in 1 .. c /\ u \in 1 .. c
      BY <1>3, <1>4, <3>1
    <3>3. u \in 2 .. c /\ u - 1 = hi[i - 1]
      BY <1>0, <3>2
    <3>4. to[i - 1] = End(u - 1)
      BY <1>7, <3>1, <3>3
    <3> HIDE DEF u
    <3>5. Plan!Right(End(u - 1)) = Begin(u)
      BY <3>3, Layout
    <3>6. \A p \in End(u - 1) + 1 .. Begin(u) : OnPage(p) = {}
      BY <3>3, BlankBetween
    <3> QED
      BY <3>4, <3>5, <3>6 DEF u
  <2> QED
    BY <2>2, <2>3
<1>10. \A i \in 1 .. n : FitsOn(to[i - 1], to[i], fragments[i])
  <2>1. SUFFICES ASSUME NEW i \in 1 .. n
                 PROVE  FitsOn(to[i - 1], to[i], fragments[i])
    OBVIOUS
  <2>2. Plan!Right(to[i - 1]) = Begin(lo[i]) /\ to[i] = End(hi[i])
    BY <1>7, <1>9
  <2>3. Begin(lo[i]) <= End(hi[i])
    BY <1>3, <1>6, <1>8
  <2>4. fragments[i] = Excerpt(Plan!Right(to[i - 1]), to[i] - Plan!Right(to[i - 1]))
    BY <1>8, <2>2
  <2>5. \A p \in to[i - 1] + 1 .. Plan!Right(to[i - 1]) : OnPage(p) = {}
    BY <1>9
  <2> QED
    BY <2>2, <2>3, <2>4, <2>5 DEF FitsOn
<1>11. Together(fragments) = Excerpt(0, to[n])
  BY <1>0, <1>2, <1>5, <1>7, <1>10, CutsTogether
<1>12. Plan!PagesOf(1, c) = Excerpt(0, to[n])
  <2>1. to[n] = End(c) /\ Begin(1) = 0 /\ End(c) \in Nat /\ 1 \in 1 .. c /\ c \in 1 .. c
    <3>1. 1 \in 1 .. c /\ c \in 1 .. c /\ n \in 1 .. n
      BY <1>0, <1>2
    <3>2. to[n] = End(c)
      BY <1>4, <1>7, <3>1
    <3>3. Begin(1) = 0
      BY Layout
    <3> QED
      BY <1>6, <3>1, <3>2, <3>3
  <2>2. Plan!PagesOf(1, c) = Excerpt(Begin(1), End(c) - Begin(1))
    BY <2>1, PagesAreCuts
  <2>3. End(c) - 0 = End(c)
    BY <2>1
  <2> QED
    BY <2>1, <2>2, <2>3
<1> QED
  BY <1>11, <1>12 DEF fragments

(* What the cache has of a partition is a cut of the document.             *)
LEMMA CachedIsCut ==
  ASSUME Apart, NEW u \in 1 .. job.count, u \notin job.rebuild
  PROVE  LET to == IF u = job.count THEN End(u) ELSE Begin(u + 1)
         IN to - Begin(u) \in Nat /\ CachedFragment(u) = Excerpt(Begin(u), to - Begin(u))
<1> DEFINE c == job.count
           to == IF u = c THEN End(u) ELSE Begin(u + 1)
           at == Plan!Places(1, c)
           pages == Plan!PagesOf(1, c)
<1>0. c \in Nat /\ c >= 2 /\ 1 \in 1 .. c /\ c \in 1 .. c /\ Begin(1) = 0
  BY Layout
<1>1. \A v \in 1 .. c : Begin(v) \in Nat /\ End(v) \in Nat /\ job.size[v] \in 1 .. MaxPages
                        /\ End(v) = Begin(v) + job.size[v] /\ Begin(v) < End(v)
  <2>1. \A v \in 1 .. c : Begin(v) \in Nat /\ job.size[v] \in 1 .. MaxPages
    BY Layout
  <2> QED
    BY <2>1 DEF End
<1>2. \A v, w \in 1 .. c : v < w => End(v) <= Begin(w)
  BY Layout
<1>3. Plan!Length(1, c) = End(c) /\ pages = Excerpt(0, End(c))
  <2>1. /\ Plan!Length(1, c) = End(c) - Begin(1)
        /\ pages = Excerpt(Begin(1), End(c) - Begin(1))
    BY <1>0, PagesAreCuts
  <2>2. End(c) - 0 = End(c)
    BY <1>0, <1>1
  <2> QED
    BY <1>0, <2>1, <2>2
<1>4. u # c => u + 1 \in 1 .. c
  BY <1>0
<1>5. to \in Nat /\ End(u) <= to /\ to <= End(c) /\ \A v \in 1 .. c : u < v => to <= Begin(v)
  <2>1. CASE u = c
    <3>1. \A v \in 1 .. c : ~ u < v
      BY <1>0, <2>1
    <3> QED
      BY <1>1, <2>1, <3>1
  <2>2. CASE u # c
    <3>1. to = Begin(u + 1) /\ u + 1 \in 1 .. c
      BY <1>4, <2>2
    <3>2. End(u) <= Begin(u + 1)
      BY <1>2, <3>1
    <3>3. \A v \in 1 .. c : u < v => Begin(u + 1) <= Begin(v)
      <4>1. SUFFICES ASSUME NEW v \in 1 .. c, u < v PROVE Begin(u + 1) <= Begin(v)
        OBVIOUS
      <4>2. CASE v = u + 1
        BY <1>1, <4>2
      <4>3. CASE v # u + 1
        <5>1. u + 1 < v
          BY <4>1, <4>3
        <5>2. Begin(u + 1) < End(u + 1) /\ End(u + 1) <= Begin(v)
          BY <1>1, <1>2, <3>1, <5>1
        <5> QED
          BY <1>1, <3>1, <5>2
      <4> QED
        BY <4>2, <4>3
    <3>4. Begin(u + 1) <= End(c)
      <4>1. Begin(u + 1) <= Begin(c) /\ Begin(c) < End(c)
        BY <1>0, <1>1, <2>2, <3>3
      <4> QED
        BY <1>0, <1>1, <3>1, <4>1
    <3> HIDE DEF to
    <3> QED
      BY <1>1, <3>1, <3>2, <3>3, <3>4
  <2> QED
    BY <2>1, <2>2
<1>6. to = IF u = c THEN Plan!Length(1, u) ELSE at[u + 1]
  BY <1>3 DEF Begin
<1> HIDE DEF to
<1>7. CachedFragment(u) = [p \in 1 .. to - Begin(u) |->
                             {<<x[1], x[2], x[1] \notin job.rebuild>> : x \in pages[Begin(u) + p]}]
  BY <1>6 DEF CachedFragment, Begin
<1>8. Begin(u) \in Nat /\ Begin(u) <= to
  BY <1>1, <1>5
<1> HIDE DEF pages, at
<1>9. ASSUME NEW p \in 1 .. to - Begin(u)
      PROVE  {<<x[1], x[2], x[1] \notin job.rebuild>> : x \in pages[Begin(u) + p]} = OnPage(Begin(u) + p)
  <2> DEFINE q == Begin(u) + p
  <2>1. q \in 1 .. End(c) /\ Begin(u) < q /\ q <= to /\ q \in Int
    BY <1>0, <1>1, <1>5, <1>8
  <2> HIDE DEF q
  <2>2. pages[q] = OnPage(q)
    <3>1. pages[q] = OnPage(0 + q)
      BY <1>3, <2>1 DEF Excerpt
    <3>2. 0 + q = q
      BY <2>1
    <3> QED
      BY <3>1, <3>2
  <2>3. ASSUME NEW v \in 1 .. c, q - Begin(v) \in 1 .. job.size[v] PROVE v = u
    <3>1. Begin(v) \in Nat /\ End(v) \in Nat /\ Begin(v) < q /\ q <= End(v)
      BY <1>1, <2>1, <2>3
    <3>2. ~ u < v
      BY <1>5, <2>1, <3>1
    <3>3. ~ v < u
      BY <1>2, <1>8, <2>1, <3>1
    <3> QED
      BY <1>0, <3>2, <3>3
  <2>4. \A x \in OnPage(q) : x = <<x[1], x[2], x[1] \notin job.rebuild>>
    <3>1. SUFFICES ASSUME NEW x \in OnPage(q) PROVE x = <<x[1], x[2], x[1] \notin job.rebuild>>
      OBVIOUS
    <3>2. PICK v \in 1 .. c : q - Begin(v) \in 1 .. job.size[v] /\ x = <<v, q - Begin(v), TRUE>>
      BY DEF OnPage
    <3>3. v = u /\ x[1] = v /\ x[2] = q - Begin(v)
      BY <2>3, <3>2
    <3>4. (x[1] \notin job.rebuild) = TRUE
      BY <3>3
    <3> QED
      BY <3>2, <3>3, <3>4
  <2>5. {<<x[1], x[2], x[1] \notin job.rebuild>> : x \in OnPage(q)} = OnPage(q)
    BY <2>4
  <2> QED
    BY <2>2, <2>5 DEF q
<1>10. CachedFragment(u) = Excerpt(Begin(u), to - Begin(u))
  BY <1>7, <1>9 DEF Excerpt
<1> QED
  BY <1>5, <1>8, <1>10 DEF to

(* Rebuilt partitions and cached ones make the pages of the whole document. *)
LEMMA PartialPages ==
  ASSUME JobOK, Apart, phase = "partial"
  PROVE  Together([u \in Plan!Units |-> IF u \in job.rebuild THEN Plan!PagesOf(u, u) ELSE CachedFragment(u)])
           = Plan!PagesOf(1, job.count)
<1> DEFINE c == job.count
           fragments == [u \in Plan!Units |-> IF u \in job.rebuild THEN Plan!PagesOf(u, u) ELSE CachedFragment(u)]
           to == [k \in 0 .. c |-> IF k = 0 THEN 0 ELSE IF k \in job.rebuild \/ k = c THEN End(k) ELSE Begin(k + 1)]
<1>0. c \in Nat /\ c >= 2 /\ job \in Jobs /\ Begin(1) = 0 /\ 1 \in 1 .. c /\ c \in 1 .. c
  BY Layout DEF Apart
<1>1. /\ DOMAIN fragments = 1 .. c /\ fragments = [u \in 1 .. c |-> fragments[u]]
      /\ \A u \in 1 .. c : fragments[u] = IF u \in job.rebuild THEN Plan!PagesOf(u, u) ELSE CachedFragment(u)
  BY DEF Plan!Units
<1> HIDE DEF fragments
<1>2. \A u \in 1 .. c : Begin(u) \in Nat /\ End(u) \in Nat
  <2>1. \A u \in 1 .. c : Begin(u) \in Nat /\ job.size[u] \in 1 .. MaxPages
    BY Layout
  <2> QED
    BY <2>1 DEF End
<1>3. /\ to \in [0 .. c -> Nat] /\ to[0] = 0
      /\ \A u \in 1 .. c : to[u] = IF u \in job.rebuild \/ u = c THEN End(u) ELSE Begin(u + 1)
  <2>1. \A k \in 0 .. c : k = 0 \/ (k \in 1 .. c /\ (k # c => k + 1 \in 1 .. c))
    BY <1>0
  <2>2. to \in [0 .. c -> Nat]
    BY <1>2, <2>1
  <2> QED
    BY <1>0, <2>2
<1> HIDE DEF to
<1>4. \A u \in 1 .. c : to[u] - Begin(u) \in Nat /\ fragments[u] = Excerpt(Begin(u), to[u] - Begin(u))
  <2>1. SUFFICES ASSUME NEW u \in 1 .. c
                 PROVE  to[u] - Begin(u) \in Nat /\ fragments[u] = Excerpt(Begin(u), to[u] - Begin(u))
    OBVIOUS
  <2>2. CASE u \in job.rebuild
    <3>1. to[u] = End(u) /\ fragments[u] = Plan!PagesOf(u, u) /\ u \in u .. c
      <4>1. to[u] = End(u)
        BY <1>3, <2>2
      <4>2. fragments[u] = Plan!PagesOf(u, u)
        BY <1>1, <2>2
      <4>3. u \in u .. c
        BY <1>0
      <4> QED
        BY <4>1, <4>2, <4>3
    <3> QED
      BY <3>1, PagesAreCuts
  <2>3. CASE u \notin job.rebuild
    <3>1. to[u] = (IF u = c THEN End(u) ELSE Begin(u + 1)) /\ fragments[u] = CachedFragment(u)
      BY <1>1, <1>3, <2>3
    <3> QED
      BY <2>3, <3>1, CachedIsCut
  <2> QED
    BY <2>2, <2>3
<1>5. \A u \in 1 .. c : /\ Plan!Right(to[u - 1]) = Begin(u)
                        /\ \A p \in to[u - 1] + 1 .. Begin(u) : OnPage(p) = {}
  <2>1. SUFFICES ASSUME NEW u \in 1 .. c
                 PROVE  /\ Plan!Right(to[u - 1]) = Begin(u)
                        /\ \A p \in to[u - 1] + 1 .. Begin(u) : OnPage(p) = {}
    OBVIOUS
  <2>2. CASE u = 1
    <3>1. to[u - 1] = 0 /\ Begin(u) = 0
      BY <1>0, <1>3, <2>2
    <3>2. Plan!Right(0) = 0
      BY DEF Plan!Right
    <3>3. 0 + 1 .. 0 = {}
      OBVIOUS
    <3> QED
      BY <3>1, <3>2, <3>3
  <2>3. CASE u # 1
    <3>1. u \in 2 .. c /\ u - 1 \in 1 .. c /\ u - 1 # c /\ (u - 1) + 1 = u
      BY <1>0, <2>3
    <3>2. Plan!Right(End(u - 1)) = Begin(u) /\ \A p \in End(u - 1) + 1 .. Begin(u) : OnPage(p) = {}
      BY <3>1, Layout, BlankBetween
    <3>3. Plan!Right(Begin(u)) = Begin(u)
      <4>1. Begin(u) \in Nat /\ (job.openright => Begin(u) % 2 = 0)
        BY Layout
      <4> QED
        BY <1>0, <4>1, RightType
    <3>4. \A p \in Begin(u) + 1 .. Begin(u) : OnPage(p) = {}
      <4>1. Begin(u) + 1 .. Begin(u) = {}
        BY <1>2
      <4> QED
        BY <4>1
    <3>5. to[u - 1] = End(u - 1) \/ to[u - 1] = Begin(u)
      BY <1>3, <3>1
    <3> QED
      BY <3>2, <3>3, <3>4, <3>5
  <2> QED
    BY <2>2, <2>3
<1>6. \A u \in 1 .. c : FitsOn(to[u - 1], to[u], fragments[u])
  <2>1. \A u \in 1 .. c : Begin(u) <= to[u]
    <3>1. \A u \in 1 .. c : to[u] \in Nat /\ Begin(u) \in Nat /\ to[u] - Begin(u) \in Nat
      BY <1>2, <1>3, <1>4
    <3> QED
      BY <3>1
  <2>2. SUFFICES ASSUME NEW u \in 1 .. c PROVE FitsOn(to[u - 1], to[u], fragments[u])
    OBVIOUS
  <2>3. Plan!Right(to[u - 1]) = Begin(u) /\ Begin(u) <= to[u]
    BY <1>5, <2>1
  <2>4. fragments[u] = Excerpt(Begin(u), to[u] - Begin(u))
    BY <1>4
  <2>5. \A p \in to[u - 1] + 1 .. Begin(u) : OnPage(p) = {}
    BY <1>5
  <2> QED
    BY <2>3, <2>4, <2>5 DEF FitsOn
<1>7. Together(fragments) = Excerpt(0, to[c])
  BY <1>0, <1>1, <1>3, <1>6, CutsTogether
<1>8. Plan!PagesOf(1, c) = Excerpt(0, to[c])
  <2>1. to[c] = End(c) /\ End(c) \in Nat
    BY <1>0, <1>2, <1>3
  <2>2. Plan!PagesOf(1, c) = Excerpt(Begin(1), End(c) - Begin(1))
    BY <1>0, PagesAreCuts
  <2>3. End(c) - 0 = End(c)
    BY <2>1
  <2> QED
    BY <1>0, <2>1, <2>2, <2>3
<1> QED
  BY <1>7, <1>8 DEF fragments

(* The merged document is the one that a single thread makes.              *)
LEMMA MergedIsWhole ==
  ASSUME JobOK, ~ FiguresAnywhere, ~ SectionsShare
  PROVE  Merged = Plan!SequentialDocument
<1> DEFINE c == job.count
           pipelined == phase = "full" /\ job.kind = "section"
           itemOf(u) == CHOOSE i \in DOMAIN Items : u \in Items[i][1] .. Items[i][2]
           figure(u) ==
             IF pipelined \/ (phase = "partial" /\ u \notin job.rebuild)
               THEN Plan!Figures(1, job.count)[u]
               ELSE LET i == Items[itemOf(u)] IN Plan!Figures(i[1], i[2])[u]
           pages == IF pipelined THEN Plan!PagesOf(1, job.count) ELSE FoldLeft(AppendFragment, << >>, Fragments)
           figures == Plan!Numbered([u \in Plan!Units |-> figure(u)])
<1>0. job \in Jobs /\ phase \in {"partial", "full"} /\ c \in Nat /\ c >= 2 /\ c <= MaxUnits /\ MaxUnits \in Nat
  BY JobParts DEF JobOK
<1>1. ~ pipelined => Apart
  <2>1. SUFFICES ASSUME ~ pipelined PROVE job.joined = {}
    BY <1>0 DEF Apart
  <2>2. CASE phase = "partial"
    <3>1. job.rebuild # {}
      BY <2>2 DEF JobOK
    <3> QED
      BY <1>0, <3>1, JobParts
  <2>3. CASE phase = "full"
    <3>1. job.kind # "section"
      BY <2>1, <2>3
    <3> QED
      BY <1>0, <3>1, JobParts
  <2> QED
    BY <1>0, <2>2, <2>3
<1>2. pages = Plan!PagesOf(1, c)
  <2>1. CASE pipelined
    BY <2>1
  <2>2. CASE ~ pipelined /\ phase = "full"
    <3>1. Fragments = [i \in DOMAIN Items |-> Plan!PagesOf(Items[i][1], Items[i][2])]
      BY <2>2 DEF Fragments
    <3>2. Together(Fragments) = Plan!PagesOf(1, c)
      BY <1>1, <2>2, <3>1, FullPages
    <3> QED
      BY <2>2, <3>2 DEF Together
  <2>3. CASE ~ pipelined /\ phase = "partial"
    <3>1. Fragments = [u \in Plan!Units |-> IF u \in job.rebuild THEN Plan!PagesOf(u, u) ELSE CachedFragment(u)]
      BY <2>3 DEF Fragments
    <3>2. Together(Fragments) = Plan!PagesOf(1, c)
      BY <1>1, <2>3, <3>1, PartialPages
    <3> QED
      BY <2>3, <3>2 DEF Together
  <2> QED
    BY <1>0, <2>1, <2>2, <2>3
<1>3. figures = Plan!Numbered(Plan!Figures(1, c))
  <2> DEFINE all == Plan!Figures(1, c)
             some == [u \in Plan!Units |-> figure(u)]
  <2>1. DOMAIN all = 1 .. c /\ all = [u \in 1 .. c |-> all[u]] /\ all[1] = 0
    <3>1. 1 \in 1 .. c /\ c \in 1 .. c
      BY <1>0
    <3> QED
      BY <1>0, <3>1, FiguresSteps
  <2>2. DOMAIN some = 1 .. c /\ \A u \in 1 .. c : some[u] = figure(u)
    BY DEF Plan!Units
  <2>3. CASE pipelined
    <3>1. \A u \in 1 .. c : some[u] = all[u]
      BY <2>2, <2>3
    <3> HIDE DEF all, some
    <3>2. \A u \in 1 .. c : (IF job.figures[u] = 0 THEN 0 ELSE some[u] + 1) = (IF job.figures[u] = 0 THEN 0 ELSE all[u] + 1)
      BY <3>1
    <3>3. Plan!Numbered(some) = Plan!Numbered(all)
      BY <2>1, <2>2, <3>2 DEF Plan!Numbered
    <3> QED
      BY <3>3 DEF some, all
  <2>4. CASE ~ pipelined
    <3>1. \A u \in 2 .. c : job.figures[u] = 0
      <4>1. ~ (job.kind = "section" /\ job.rebuild = {})
        BY <1>0, <2>4 DEF JobOK
      <4>2. \A u \in 2 .. MaxUnits : job.figures[u] = 0
        BY <1>0, <4>1, JobParts
      <4>3. \A u \in 2 .. c : u \in 2 .. MaxUnits
        BY <1>0
      <4> QED
        BY <4>2, <4>3
    <3>2. some[1] = 0
      <4>1. 1 \in 1 .. c
        BY <1>0
      <4>2. CASE phase = "partial" /\ 1 \notin job.rebuild
        <5>1. figure(1) = all[1]
          BY <4>2
        <5> QED
          BY <2>1, <2>2, <4>1, <5>1
      <4>3. CASE ~ (phase = "partial" /\ 1 \notin job.rebuild)
        <5> DEFINE n == Len(Items)
                   k == itemOf(1)
        <5>1. /\ Items \in Seq((1 .. c) \X (1 .. c)) /\ n \in 1 .. c
              /\ \A i \in 1 .. n : Items[i][1] <= Items[i][2]
              /\ \A u \in ToTypeset : \E i \in 1 .. n : u \in Items[i][1] .. Items[i][2]
          BY ItemRanges
        <5>2. 1 \in ToTypeset
          BY <1>0, <4>1, <4>3 DEF ToTypeset
        <5>3. DOMAIN Items = 1 .. n
          BY <5>1
        <5>4. k \in 1 .. n /\ 1 \in Items[k][1] .. Items[k][2]
          <6>1. \E i \in DOMAIN Items : 1 \in Items[i][1] .. Items[i][2]
            BY <5>1, <5>2, <5>3
          <6>2. k \in DOMAIN Items /\ 1 \in Items[k][1] .. Items[k][2]
            BY <6>1
          <6> QED
            BY <5>3, <6>2
        <5>5. figure(1) = Plan!Figures(Items[k][1], Items[k][2])[1]
          BY <2>4, <4>3
        <5> HIDE DEF k
        <5>6. Items[k] \in (1 .. c) \X (1 .. c)
          BY <5>1, <5>4, ElementOfSeq
        <5>7. Items[k][1] = 1 /\ Items[k][2] \in 1 .. c
          BY <5>4, <5>6
        <5>8. Plan!Figures(1, Items[k][2])[1] = 0
          BY <1>0, <4>1, <5>7, FiguresSteps
        <5> QED
          BY <2>2, <4>1, <5>5, <5>7, <5>8
      <4> QED
        BY <4>2, <4>3
    <3> HIDE DEF all, some
    <3>3. \A u \in 1 .. c : u = 1 \/ u \in 2 .. c
      BY <1>0
    <3>4. \A u \in 1 .. c : (IF job.figures[u] = 0 THEN 0 ELSE some[u] + 1) = (IF job.figures[u] = 0 THEN 0 ELSE all[u] + 1)
      BY <2>1, <3>1, <3>2, <3>3
    <3>5. Plan!Numbered(some) = Plan!Numbered(all)
      BY <2>1, <2>2, <3>4 DEF Plan!Numbered
    <3> QED
      BY <3>5 DEF some, all
  <2> QED
    BY <2>3, <2>4
<1>4. Merged = [pages |-> pages, figure |-> figures, destination |-> [key \in Keys |-> Plan!FirstWith(key)]]
  BY DEF Merged
<1> QED
  BY <1>2, <1>3, <1>4 DEF Plan!SequentialDocument

-----------------------------------------------------------------------------
(* The invariant and the theorems.                                         *)

(* What is reported, and when: nothing before the document is there, then  *)
(* every partition that was typeset for it, once.                          *)
Unreported == document = NotYet /\ reports = << >>
ReportedAll ==
  /\ reports \in Seq(Nat) /\ IsInjective(reports)
  /\ ToSet(reports) \in {1 .. job.count, job.rebuild}

ParallelOK ==
  /\ job \in Jobs
  /\ phase \in {"partial", "full", "sequential", "done"}
  /\ phase = "partial" => job.rebuild # {}
  /\ phase # "done" => Unreported
  /\ phase = "done" => ReportedAll

(* A job begins without a report.                                          *)
LEMMA JobBegins == ParallelInit => ParallelOK
BY DEF ParallelInit, ParallelOK, Unreported

(* Sequential typesetting reports every partition in order.                *)
LEMMA AloneReportsAll ==
  ASSUME job \in Jobs
  PROVE  LET s == [u \in 1 .. job.count |-> u]
         IN s \in Seq(Nat) /\ IsInjective(s) /\ ToSet(s) = 1 .. job.count /\ << >> \o s = s
<1> DEFINE c == job.count
           s == [u \in 1 .. c |-> u]
<1>1. c \in Nat
  BY JobParts
<1> HIDE DEF c
<1>2. s \in [1 .. c -> Nat] /\ DOMAIN s = 1 .. c /\ \A u \in 1 .. c : s[u] = u
  BY <1>1
<1> HIDE DEF s
<1>3. s \in Seq(Nat)
  BY <1>1, <1>2
<1>4. IsInjective(s) /\ ToSet(s) = 1 .. c
  BY <1>2 DEF IsInjective, ToSet
<1>5. << >> \o s = s
  BY <1>3
<1> QED
  BY <1>3, <1>4, <1>5 DEF s, c

(* Every step keeps this: a fallback throws away the results before        *)
(* anything was reported of them.                                          *)
LEMMA ParallelSteps == ParallelOK /\ [ParallelNext]_parallelVars => ParallelOK'
<1>1. SUFFICES ASSUME ParallelOK, [ParallelNext]_parallelVars PROVE ParallelOK'
  OBVIOUS
<1>2. CASE UNCHANGED parallelVars
  BY <1>1, <1>2 DEF parallelVars, ParallelOK, Unreported, ReportedAll, Jobs
<1>3. ASSUME NEW w \in 1 .. MaxWorkers, Work(w) \/ GiveUp(w)
      PROVE  ParallelOK'
  BY <1>1, <1>3 DEF Work, GiveUp, ParallelOK, Unreported, ReportedAll, Jobs
<1>4. CASE Merge
  <2>1. JobOK
    BY <1>1, <1>4 DEF Merge, AllEnded, Running, ParallelOK, JobOK
  <2>2. Reported \in Seq(Nat) /\ IsInjective(Reported) /\ ToSet(Reported) = ToTypeset
    BY <2>1, ReportsOnce
  <2>3. reports = << >> /\ reports' = reports \o Reported
    BY <2>1, <1>1, <1>4 DEF Merge, JobOK, ParallelOK, Unreported
  <2>4. reports' = Reported
    BY <2>2, <2>3
  <2>5. job' = job /\ phase' = "done"
    BY <1>4 DEF Merge
  <2>6. ToTypeset \in {1 .. job.count, job.rebuild}
    BY DEF ToTypeset
  <2>7. ReportedAll'
    BY <2>2, <2>4, <2>5, <2>6 DEF ReportedAll
  <2> QED
    BY <1>1, <2>5, <2>7 DEF ParallelOK, Jobs
<1>5. CASE FallBack
  <2>1. phase \in {"partial", "full"} /\ phase' \in {"full", "sequential"}
    BY <1>1, <1>5 DEF FallBack, StartOver, AllEnded, Running
  <2>2. UNCHANGED <<job, document, reports>>
    BY <1>5 DEF FallBack, StartOver
  <2>3. Unreported'
    BY <1>1, <2>1, <2>2 DEF ParallelOK, Unreported
  <2> QED
    BY <1>1, <2>1, <2>2, <2>3 DEF ParallelOK, Jobs
<1>6. CASE TypesetAlone
  <2> DEFINE s == [u \in 1 .. job.count |-> u]
  <2>1. s \in Seq(Nat) /\ IsInjective(s) /\ ToSet(s) = 1 .. job.count /\ << >> \o s = s
    BY <1>1, AloneReportsAll DEF ParallelOK
  <2>2. reports = << >> /\ reports' = reports \o s
    BY <1>1, <1>6 DEF TypesetAlone, ParallelOK, Unreported
  <2> HIDE DEF s
  <2>3. reports' = s
    BY <2>1, <2>2
  <2>4. job' = job /\ phase' = "done"
    BY <1>6 DEF TypesetAlone
  <2>5. ReportedAll'
    BY <2>1, <2>3, <2>4 DEF ReportedAll
  <2> QED
    BY <1>1, <2>4, <2>5 DEF ParallelOK, Jobs
<1> QED
  BY <1>1, <1>2, <1>3, <1>4, <1>5, <1>6 DEF ParallelNext

(* In every state of a job.                                                *)
LEMMA ParallelAlways == ParallelSpec => []ParallelOK
<1>1. ParallelInit => ParallelOK
  BY JobBegins
<1>2. ParallelOK /\ [ParallelNext]_parallelVars => ParallelOK'
  BY ParallelSteps
<1> QED
  BY <1>1, <1>2, PTL DEF ParallelSpec

(* Whatever the threads do, whichever of them fails and how often the job  *)
(* starts over, the diagnostics of a partition are passed on once, and     *)
(* those of all partitions that were typeset are (compile_job_service.rs). *)
THEOREM DiagnosticsOnce == ParallelSpec => []ReportedOnce
<1>1. ParallelOK => ReportedOnce
  <2>1. SUFFICES ASSUME ParallelOK PROVE ReportedOnce
    OBVIOUS
  <2>2. CASE phase = "done"
    BY <2>1, <2>2 DEF ParallelOK, ReportedAll, ReportedOnce, Plan!Units
  <2>3. CASE phase # "done"
    <3>1. IsInjective(<< >>)
      BY DEF IsInjective
    <3> QED
      BY <2>1, <2>3, <3>1 DEF ParallelOK, Unreported, ReportedOnce
  <2> QED
    BY <2>2, <2>3
<1> QED
  BY <1>1, ParallelAlways, PTL

(* Figures only where their numbering begins, and no rebuilt sections that *)
(* share a page: then every plan of partitions, for any number of them and *)
(* of workers and for all failures and fallbacks, ends in the document of  *)
(* one thread, and nothing else is ever handed out (BR-6).                 *)
THEOREM ThreadsMakeOneDocument ==
  ASSUME ~ FiguresAnywhere, ~ SectionsShare
  PROVE  ParallelSpec => Plan!SeqInit /\ [][Plan!Typeset]_(Plan!seqVars)
<1>1. ParallelInit => Plan!SeqInit
  BY DEF ParallelInit, Plan!SeqInit
<1>2. ParallelOK /\ [ParallelNext]_parallelVars => [Plan!Typeset]_(Plan!seqVars)
  <2>1. SUFFICES ASSUME ParallelOK, [ParallelNext]_parallelVars PROVE [Plan!Typeset]_(Plan!seqVars)
    OBVIOUS
  <2>2. CASE UNCHANGED <<job, document>>
    BY <2>2 DEF Plan!seqVars
  <2>3. CASE Merge
    <3>1. JobOK
      BY <2>1, <2>3 DEF Merge, AllEnded, Running, ParallelOK, JobOK
    <3>2. Merged = Plan!SequentialDocument
      BY <3>1, MergedIsWhole
    <3>3. document = NotYet
      BY <2>1, <3>1 DEF JobOK, ParallelOK, Unreported
    <3>4. document' = Plan!SequentialDocument /\ UNCHANGED job
      BY <2>3, <3>2 DEF Merge
    <3> QED
      BY <3>3, <3>4 DEF Plan!Typeset
  <2>4. CASE TypesetAlone
    <3>1. document = NotYet
      BY <2>1, <2>4 DEF TypesetAlone, ParallelOK, Unreported
    <3>2. document' = Plan!SequentialDocument /\ UNCHANGED job
      BY <2>4 DEF TypesetAlone
    <3> QED
      BY <3>1, <3>2 DEF Plan!Typeset
  <2>5. ASSUME NEW w \in 1 .. MaxWorkers, Work(w) \/ GiveUp(w) PROVE UNCHANGED <<job, document>>
    BY <2>5 DEF Work, GiveUp
  <2>6. CASE FallBack
    <3>1. UNCHANGED <<job, document>>
      BY <2>6 DEF FallBack, StartOver
    <3> QED
      BY <2>2, <3>1
  <2>7. CASE UNCHANGED parallelVars
    <3>1. UNCHANGED <<job, document>>
      BY <2>7 DEF parallelVars
    <3> QED
      BY <2>2, <3>1
  <2> QED
    BY <2>1, <2>2, <2>3, <2>4, <2>5, <2>6, <2>7 DEF ParallelNext
<1> QED
  BY <1>1, <1>2, ParallelAlways, PTL DEF ParallelSpec

-----------------------------------------------------------------------------
(* Every letter on one line: lists put behind each other.                  *)

(* A list behind one that goes on where it ended.                          *)
LEMMA IncreasingJoin ==
  ASSUME NEW S \in SUBSET Int, NEW a \in Seq(S), NEW b \in Seq(S),
         Increasing(a, Len(a)), Increasing(b, Len(b)),
         \A i \in 1 .. Len(a) : \A j \in 1 .. Len(b) : a[i] < b[j]
  PROVE  /\ a \o b \in Seq(S) /\ Increasing(a \o b, Len(a \o b))
         /\ Len(a \o b) = Len(a) + Len(b)
         /\ \A i \in 1 .. Len(a \o b) :
              (a \o b)[i] = IF i <= Len(a) THEN a[i] ELSE b[i - Len(a)]
<1>1. /\ a \o b \in Seq(S) /\ Len(a) \in Nat /\ Len(b) \in Nat /\ Len(a \o b) = Len(a) + Len(b)
      /\ \A i \in 1 .. Len(a \o b) :
           (a \o b)[i] = IF i <= Len(a) THEN a[i] ELSE b[i - Len(a)]
  BY ConcatProperties, LenProperties
<1> DEFINE n == Len(a)
           m == Len(b)
           c == a \o b
<1>2. SUFFICES ASSUME NEW i \in 1 .. n + m, NEW j \in 1 .. n + m, i < j PROVE c[i] < c[j]
  BY <1>1 DEF Increasing
<1> HIDE DEF n, m, c
<1>3. n \in Nat /\ m \in Nat
  BY <1>1 DEF n, m
<1>4. CASE j <= n
  <2>1. c[i] = a[i] /\ c[j] = a[j] /\ i \in 1 .. n /\ j \in 1 .. n
    BY <1>1, <1>2, <1>3, <1>4 DEF n, m, c
  <2> QED
    BY <2>1, <1>2 DEF Increasing, n
<1>5. CASE i <= n /\ ~ (j <= n)
  <2>1. c[i] = a[i] /\ c[j] = b[j - n] /\ i \in 1 .. n /\ j - n \in 1 .. m
    BY <1>1, <1>2, <1>3, <1>5 DEF n, m, c
  <2> QED
    BY <2>1 DEF n, m
<1>6. CASE ~ (i <= n)
  <2>1. c[i] = b[i - n] /\ c[j] = b[j - n] /\ i - n \in 1 .. m /\ j - n \in 1 .. m /\ i - n < j - n
    BY <1>1, <1>2, <1>3, <1>6 DEF n, m, c
  <2> QED
    BY <2>1 DEF Increasing, m
<1> QED
  BY <1>2, <1>3, <1>4, <1>5, <1>6

(* Numbers and greater ones in ascending order.                            *)
LEMMA AscendingJoin ==
  ASSUME NEW S \in SUBSET Int, IsFiniteSet(S), NEW T \in SUBSET Int, IsFiniteSet(T),
         \A x \in S, y \in T : x < y
  PROVE  Ascending(S \cup T) = Ascending(S) \o Ascending(T)
<1> DEFINE a == Ascending(S)
           b == Ascending(T)
           c == a \o b
           n == Cardinality(S)
           m == Cardinality(T)
           U == S \cup T
<1>1. /\ n \in Nat /\ a \in [1 .. n -> S] /\ a \in Seq(S) /\ Len(a) = n /\ Increasing(a, n)
      /\ \A x \in S : \E k \in 1 .. n : a[k] = x
  BY AscendingSorts
<1>2. /\ m \in Nat /\ b \in [1 .. m -> T] /\ b \in Seq(T) /\ Len(b) = m /\ Increasing(b, m)
      /\ \A x \in T : \E k \in 1 .. m : b[k] = x
  BY AscendingSorts
<1>3. U \in SUBSET Int /\ S \in SUBSET U /\ T \in SUBSET U
  OBVIOUS
<1> HIDE DEF a, b, n, m, U
<1>4. a \in Seq(U) /\ b \in Seq(U)
  BY <1>1, <1>2, <1>3, SeqMonotonic
<1>5. \A i \in 1 .. n : \A j \in 1 .. m : a[i] < b[j]
  BY <1>1, <1>2
<1>6. /\ c \in Seq(U) /\ Increasing(c, n + m) /\ Len(c) = n + m
      /\ \A i \in 1 .. n + m : c[i] = IF i <= n THEN a[i] ELSE b[i - n]
  <2>0. /\ U \in SUBSET Int /\ a \in Seq(U) /\ b \in Seq(U)
        /\ Increasing(a, Len(a)) /\ Increasing(b, Len(b))
        /\ \A i \in 1 .. Len(a) : \A j \in 1 .. Len(b) : a[i] < b[j]
    BY <1>1, <1>2, <1>3, <1>4, <1>5
  <2>1. /\ c \in Seq(U) /\ Increasing(c, Len(c)) /\ Len(c) = Len(a) + Len(b)
        /\ \A i \in 1 .. Len(c) : c[i] = IF i <= Len(a) THEN a[i] ELSE b[i - Len(a)]
    BY ONLY <2>0, IncreasingJoin
  <2> HIDE DEF c
  <2> QED
    BY <2>1, <1>1, <1>2
<1> HIDE DEF c
<1>7. n + m \in Nat /\ c \in [1 .. n + m -> U]
  BY <1>1, <1>2, <1>6, LenProperties
<1>8. ASSUME NEW x \in U PROVE \E k \in 1 .. n + m : c[k] = x
  <2>1. CASE x \in S
    <3>1. PICK k \in 1 .. n : a[k] = x
      BY <2>1, <1>1
    <3>2. k \in 1 .. n + m /\ c[k] = a[k]
      BY <3>1, <1>1, <1>2, <1>6
    <3> QED
      BY <3>1, <3>2
  <2>2. CASE x \in T
    <3>1. PICK k \in 1 .. m : b[k] = x
      BY <2>2, <1>2
    <3>2. n + k \in 1 .. n + m /\ c[n + k] = b[k]
      <4>1. n + k \in 1 .. n + m /\ ~ (n + k <= n) /\ (n + k) - n = k
        BY <1>1, <1>2
      <4> QED
        BY <4>1, <1>6
    <3> QED
      BY <3>1, <3>2
  <2> QED
    BY <2>1, <2>2 DEF U
<1>9. c = Ascending(U)
  BY <1>3, <1>6, <1>7, <1>8, AscendingIsOnly
<1> QED
  BY <1>9 DEF a, b, c, U

(* The same sequences flattened in two parts.                              *)
LEMMA FlattenJoin ==
  ASSUME NEW T, NEW a \in Seq(Seq(T)), NEW b \in Seq(Seq(T))
  PROVE  /\ FlattenSeq(a \o b) = FlattenSeq(a) \o FlattenSeq(b)
         /\ FlattenSeq(a) \in Seq(T) /\ FlattenSeq(b) \in Seq(T)
<1> DEFINE n == Len(a)
           m == Len(b)
           c == a \o b
<1>1. /\ n \in Nat /\ m \in Nat /\ c \in Seq(Seq(T)) /\ Len(c) = n + m
      /\ \A i \in 1 .. n + m : c[i] = IF i <= n THEN a[i] ELSE b[i - n]
  BY ConcatProperties, LenProperties
<1>2. a \in [1 .. n -> Seq(T)] /\ b \in [1 .. m -> Seq(T)]
  BY LenProperties
<1> HIDE DEF n, m, c
<1>3. c \in [1 .. n + m -> Seq(T)] /\ n + m \in Nat
  BY <1>1, LenProperties
<1>4. PICK f \in [0 .. n -> Seq(T)] : Flattens(f, a, n)
  BY <1>1, <1>2, FlattenHistory
<1>5. PICK g \in [0 .. m -> Seq(T)] : Flattens(g, b, m)
  BY <1>1, <1>2, FlattenHistory
<1>6. PICK h \in [0 .. n + m -> Seq(T)] : Flattens(h, c, n + m)
  BY <1>3, FlattenHistory
<1>7. \A k \in 0 .. n : h[k] = f[k]
  <2> DEFINE S == {k \in 0 .. n : h[k] = f[k]}
  <2>1. 0 \in S
    BY <1>1, <1>4, <1>6 DEF Flattens
  <2>2. ASSUME NEW k \in 1 .. n, k - 1 \in S PROVE k \in S
    <3>1. k \in 1 .. n + m /\ k \in 0 .. n /\ c[k] = a[k]
      <4>1. k \in 1 .. n + m /\ k \in 0 .. n /\ k <= n
        BY <1>1
      <4> QED
        BY <4>1, <1>1
    <3>2. h[k] = h[k - 1] \o c[k] /\ f[k] = f[k - 1] \o a[k] /\ h[k - 1] = f[k - 1]
      BY <3>1, <2>2, <1>4, <1>6 DEF Flattens
    <3> QED
      BY <3>1, <3>2
  <2> HIDE DEF S
  <2>3. \A k \in 0 .. n : k \in S
    BY <1>1, <2>1, <2>2, InductUpTo
  <2> QED
    BY <2>3 DEF S
<1>8. FlattenSeq(a) \in Seq(T) /\ FlattenSeq(b) \in Seq(T)
  <2>1. n \in 0 .. n /\ m \in 0 .. m
    BY <1>1
  <2> QED
    BY <2>1, <1>4, <1>5 DEF Flattens
<1>9. \A k \in 0 .. m : h[n + k] = f[n] \o g[k]
  <2> DEFINE S == {k \in 0 .. m : h[n + k] = f[n] \o g[k]}
  <2>1. 0 \in S
    <3>1. n + 0 = n /\ n \in 0 .. n /\ 0 \in 0 .. m
      BY <1>1
    <3>2. f[n] \in Seq(T)
      BY <3>1
    <3>3. f[n] \o << >> = f[n]
      BY <3>2, ConcatEmptySeq
    <3> QED
      BY <3>1, <3>3, <1>5, <1>7 DEF Flattens
  <2>2. ASSUME NEW k \in 1 .. m, k - 1 \in S PROVE k \in S
    <3>1. n + k \in 1 .. n + m /\ k \in 0 .. m /\ k - 1 \in 0 .. m /\ n \in 0 .. n
          /\ (n + k) - 1 = n + (k - 1) /\ ~ (n + k <= n) /\ (n + k) - n = k
      BY <1>1
    <3>2. h[n + k] = h[n + (k - 1)] \o b[k]
      BY <3>1, <1>1, <1>6 DEF Flattens
    <3>3. h[n + (k - 1)] = f[n] \o g[k - 1] /\ g[k] = g[k - 1] \o b[k]
      BY <2>2, <1>5 DEF Flattens
    <3>4. f[n] \in Seq(T) /\ g[k - 1] \in Seq(T) /\ b[k] \in Seq(T)
      BY <3>1, <1>2
    <3>5. (f[n] \o g[k - 1]) \o b[k] = f[n] \o (g[k - 1] \o b[k])
      <4> DEFINE x == f[n]
                 y == g[k - 1]
                 z == b[k]
      <4>1. x \in Seq(T) /\ y \in Seq(T) /\ z \in Seq(T)
        BY <3>4
      <4> HIDE DEF x, y, z
      <4>2. (x \o y) \o z = x \o (y \o z)
        BY ONLY <4>1, ConcatAssociative, SMTT(30)
      <4> QED
        BY <4>2 DEF x, y, z
    <3>6. h[n + k] = f[n] \o g[k]
      BY <3>2, <3>3, <3>5
    <3> QED
      BY <3>1, <3>6
  <2> HIDE DEF S
  <2>3. \A k \in 0 .. m : k \in S
    BY <1>1, <2>1, <2>2, InductUpTo
  <2> QED
    BY <2>3 DEF S
<1>10. h[n + m] = f[n] \o g[m]
  <2>1. m \in 0 .. m
    BY <1>1
  <2> QED
    BY <2>1, <1>9
<1> QED
  BY <1>4, <1>5, <1>6, <1>8, <1>10 DEF c, Flattens

(* One sequence and none, flattened.                                       *)
LEMMA FlattenOne ==
  ASSUME NEW T, NEW s \in Seq(T)
  PROVE  FlattenSeq(<<s>>) = s /\ FlattenSeq(<< >>) = << >> /\ <<s>> \in Seq(Seq(T))
<1>1. <<s>> \in [1 .. 1 -> Seq(T)] /\ <<s>>[1] = s /\ <<s>> \in Seq(Seq(T))
  OBVIOUS
<1>2. PICK h \in [0 .. 1 -> Seq(T)] : Flattens(h, <<s>>, 1)
  <2> DEFINE t == <<s>>
  <2>1. t \in [1 .. 1 -> Seq(T)] /\ 1 \in Nat
    BY <1>1
  <2> HIDE DEF t
  <2>2. \E h \in [0 .. 1 -> Seq(T)] : Flattens(h, t, 1)
    BY <2>1, FlattenHistory
  <2> QED
    BY <2>2 DEF t
<1>3. h[1] = << >> \o s
  <2>1. 1 \in 1 .. 1 /\ 1 - 1 = 0
    OBVIOUS
  <2> QED
    BY <2>1, <1>1, <1>2 DEF Flattens
<1>4. << >> \o s = s
  BY ConcatEmptySeq
<1>5. FlattenSeq(<< >>) = << >>
  BY DEF FlattenSeq
<1> QED
  BY <1>1, <1>2, <1>3, <1>4, <1>5 DEF Flattens

(* A sequence of sequences and one more, flattened.                        *)
LEMMA FlattenAppend ==
  ASSUME NEW T, NEW a \in Seq(Seq(T)), NEW s \in Seq(T)
  PROVE  FlattenSeq(Append(a, s)) = FlattenSeq(a) \o s
<1>1. Append(a, s) = a \o <<s>>
  BY AppendIsConcat
<1>2. <<s>> \in Seq(Seq(T)) /\ FlattenSeq(<<s>>) = s
  BY FlattenOne
<1>3. FlattenSeq(a \o <<s>>) = FlattenSeq(a) \o FlattenSeq(<<s>>)
  BY <1>2, FlattenJoin
<1> QED
  BY <1>1, <1>2, <1>3

-----------------------------------------------------------------------------
(* The letters of a part of the list.                                      *)

(* What LinesNext makes: a hyphen follows a letter, and neither a hyphen   *)
(* nor a forced break is wide.                                             *)
ListShape ==
  /\ LinesOK
  /\ \A i \in DOMAIN hlist :
       /\ hlist[i].kind = "penalty" => i > 1 /\ hlist[i - 1].kind = "char"
       /\ hlist[i].kind \in {"penalty", "forced"} => hlist[i].width = 0

(* The empty list has this shape.                                          *)
LEMMA ShapeInitially == LinesInit => ListShape
BY ListInitially DEF LinesInit, ListShape

(* An item that is no hyphen, or a hyphen behind a letter, keeps the shape. *)
LEMMA ShapeAppends ==
  ASSUME NEW s \in Seq(ListItems), NEW item \in ListItems,
         \A i \in DOMAIN s :
           /\ s[i].kind = "penalty" => i > 1 /\ s[i - 1].kind = "char"
           /\ s[i].kind \in {"penalty", "forced"} => s[i].width = 0,
         item.kind = "penalty" => s # << >> /\ s[Len(s)].kind = "char",
         item.kind \in {"penalty", "forced"} => item.width = 0
  PROVE  /\ Append(s, item) \in Seq(ListItems)
         /\ \A i \in DOMAIN Append(s, item) :
              /\ Append(s, item)[i].kind = "penalty" => i > 1 /\ Append(s, item)[i - 1].kind = "char"
              /\ Append(s, item)[i].kind \in {"penalty", "forced"} => Append(s, item)[i].width = 0
<1> DEFINE t == Append(s, item)
           n == Len(s)
<1>1. /\ t \in Seq(ListItems) /\ Len(t) = n + 1 /\ n \in Nat /\ DOMAIN s = 1 .. n /\ DOMAIN t = 1 .. n + 1
      /\ (\A i \in 1 .. n : t[i] = s[i]) /\ t[n + 1] = item /\ (s # << >> => n > 0)
  OBVIOUS
<1> HIDE DEF t
<1>2. SUFFICES ASSUME NEW i \in 1 .. n + 1
      PROVE /\ t[i].kind = "penalty" => i > 1 /\ t[i - 1].kind = "char"
            /\ t[i].kind \in {"penalty", "forced"} => t[i].width = 0
  BY <1>1 DEF t
<1> HIDE DEF n
<1>3. CASE i \in 1 .. n
  <2>1. t[i] = s[i]
    BY <1>1, <1>3
  <2>2. i > 1 => i - 1 \in 1 .. n /\ t[i - 1] = s[i - 1]
    BY <1>1, <1>3
  <2> QED
    BY <2>1, <2>2, <1>1, <1>3
<1>4. CASE i = n + 1
  <2>1. t[i] = item
    BY <1>1, <1>4
  <2>2. s # << >> => i > 1 /\ i - 1 = n /\ n \in 1 .. n /\ t[n] = s[n]
    BY <1>1, <1>4
  <2> QED
    BY <2>1, <2>2 DEF n
<1> QED
  BY <1>1, <1>2, <1>3, <1>4

(* Every step appends such items.                                          *)
LEMMA ShapeSteps == ListShape /\ LinesNext => ListShape'
<1>1. SUFFICES ASSUME ListShape, LinesNext PROVE ListShape'
  OBVIOUS
<1> DEFINE Shaped(s) ==
             /\ s \in Seq(ListItems)
             /\ \A i \in DOMAIN s :
                  /\ s[i].kind = "penalty" => i > 1 /\ s[i - 1].kind = "char"
                  /\ s[i].kind \in {"penalty", "forced"} => s[i].width = 0
<1>2. Shaped(hlist) /\ (Shaped(hlist') => ListShape')
  BY <1>1 DEF ListShape, LinesOK
<1>3. ASSUME NEW s, Shaped(s), NEW item \in ListItems,
             item.kind = "penalty" => s # << >> /\ s[Len(s)].kind = "char",
             item.kind \in {"penalty", "forced"} => item.width = 0
      PROVE  Shaped(Append(s, item))
  BY <1>3, ShapeAppends
<1>4. /\ Glue.kind = "glue" /\ Hyphen.kind = "penalty" /\ Hyphen.width = 0
      /\ Forced.kind = "forced" /\ Forced.width = 0 /\ \A w \in CharWidths : Char(w).kind = "char"
  BY DEF Glue, Hyphen, Forced, Char
<1> HIDE DEF Shaped
<1>5. ASSUME NEW w \in CharWidths, hlist # << >>, Last(hlist).kind = "char",
             hlist' = hlist \o <<Hyphen, Char(w)>>
      PROVE  ListShape'
  <2>1. hlist[Len(hlist)].kind = "char"
    BY <1>5 DEF Last
  <2>2. Shaped(Append(hlist, Hyphen))
    BY <1>2, <1>3, <1>4, <1>5, <2>1, Constants
  <2>3. Shaped(Append(Append(hlist, Hyphen), Char(w)))
    <3> DEFINE s == Append(hlist, Hyphen)
               item == Char(w)
    <3>1. Shaped(s) /\ item \in ListItems /\ item.kind = "char"
      BY <2>2, <1>4, Constants
    <3> HIDE DEF s, item
    <3>2. Shaped(Append(s, item))
      BY <3>1, <1>3
    <3> QED
      BY <3>2 DEF s, item
  <2>4. hlist' = Append(Append(hlist, Hyphen), Char(w))
    <3>1. hlist \in Seq(ListItems) /\ Hyphen \in ListItems /\ Char(w) \in ListItems
      BY <1>1, Constants DEF ListShape, LinesOK
    <3> HIDE DEF Shaped
    <3> QED
      BY ONLY <1>5, <3>1
  <2> QED
    BY <1>2, <2>3, <2>4
<1>6. ASSUME NEW item \in ListItems, item.kind # "penalty",
             item.kind = "forced" => item.width = 0, hlist' = Append(hlist, item)
      PROVE  ListShape'
  BY <1>2, <1>3, <1>6
<1> QED
  BY <1>1, <1>4, <1>5, <1>6, Constants DEF LinesNext

(* A list always has this shape.                                           *)
LEMMA AlwaysShaped == LinesSpec => []ListShape
<1>1. ListShape /\ [LinesNext]_hlist => ListShape'
  BY ShapeSteps DEF ListShape, LinesOK
<1> QED
  BY ShapeInitially, <1>1, PTL DEF LinesSpec

(* The items within the list have their kinds, and nothing beyond it has.  *)
LEMMA KindIs ==
  ASSUME LinesOK, NEW i \in Int
  PROVE  /\ Len(hlist) \in Nat /\ DOMAIN hlist = 1 .. Len(hlist)
         /\ Kind(i) = IF i \in 1 .. Len(hlist) THEN hlist[i].kind ELSE "none"
         /\ Kind(i) \in {"char", "glue", "penalty", "forced", "none"}
         /\ Kind(i) # "none" => i \in 1 .. Len(hlist)
<1>1. Len(hlist) \in Nat /\ DOMAIN hlist = 1 .. Len(hlist)
  BY DEF LinesOK
<1>2. \A k \in 1 .. Len(hlist) : hlist[k].kind \in {"char", "glue", "penalty", "forced"}
  <2>1. SUFFICES ASSUME NEW k \in 1 .. Len(hlist)
        PROVE  hlist[k].kind \in {"char", "glue", "penalty", "forced"}
    OBVIOUS
  <2>2. hlist[k] \in ListItems
    BY <1>1 DEF LinesOK
  <2> QED
    BY <2>2 DEF ListItems
<1> QED
  BY <1>1, <1>2 DEF Kind

(* A letter stands before a hyphen.                                        *)
LEMMA LetterBefore ==
  ASSUME ListShape, NEW i \in Int, Kind(i) = "penalty"
  PROVE  i > 1 /\ Kind(i - 1) = "char"
<1>1. LinesOK /\ i - 1 \in Int
  BY DEF ListShape
<1>2. /\ Len(hlist) \in Nat /\ DOMAIN hlist = 1 .. Len(hlist) /\ i \in 1 .. Len(hlist)
      /\ Kind(i) = hlist[i].kind
  BY <1>1, KindIs
<1>3. i > 1 /\ hlist[i - 1].kind = "char"
  BY <1>2 DEF ListShape
<1>4. i - 1 \in 1 .. Len(hlist)
  BY <1>2, <1>3
<1> QED
  BY <1>1, <1>3, <1>4, KindIs

(* Some items of the list.                                                 *)
CharsIn(items) == {i \in items : Kind(i) = "char"}

(* The letters among them, in order.                                       *)
LEMMA LettersIs ==
  ASSUME LinesOK, NEW items \in SUBSET (1 .. Len(hlist))
  PROVE  /\ CharsIn(items) \in SUBSET Int /\ IsFiniteSet(CharsIn(items))
         /\ Letters(items) = Ascending(CharsIn(items))
         /\ Letters(items) \in Seq(1 .. Len(hlist))
         /\ Letters(items) = << >> <=> CharsIn(items) = {}
<1> DEFINE S == CharsIn(items)
           a == Ascending(S)
<1>1. Len(hlist) \in Nat
  BY DEF LinesOK
<1>2. S \in SUBSET (1 .. Len(hlist)) /\ 1 .. Len(hlist) \subseteq Int
  <2>1. S \subseteq items
    BY DEF CharsIn
  <2> HIDE DEF S
  <2> QED
    BY <1>1, <2>1
<1>3. IsFiniteSet(1 .. Len(hlist))
  BY <1>1, FS_Interval
<1>4. Letters(items) = a
  BY DEF Letters, CharsIn
<1> HIDE DEF S
<1>5. S \in SUBSET Int /\ IsFiniteSet(S)
  BY <1>2, <1>3, FS_Subset
<1>6. /\ Cardinality(S) \in Nat /\ a \in [1 .. Cardinality(S) -> S] /\ a \in Seq(S) /\ Len(a) = Cardinality(S)
      /\ \A x \in S : \E k \in 1 .. Cardinality(S) : a[k] = x
  BY <1>5, AscendingSorts
<1> HIDE DEF a
<1>7. a \in Seq(1 .. Len(hlist))
  BY <1>2, <1>6, SeqMonotonic
<1>8. a = << >> <=> S = {}
  <2>1. ASSUME a = << >> PROVE S = {}
    <3>1. Cardinality(S) = 0
      BY <1>6, <2>1
    <3> QED
      BY <1>6, <3>1
  <2>2. ASSUME a # << >> PROVE S # {}
    <3>1. 1 \in 1 .. Cardinality(S)
      BY <1>6, <2>2
    <3> QED
      BY <1>6, <3>1
  <2> QED
    BY <2>1, <2>2
<1>9. /\ S \in SUBSET Int /\ IsFiniteSet(S) /\ Letters(items) = a
      /\ Letters(items) \in Seq(1 .. Len(hlist)) /\ (Letters(items) = << >> <=> S = {})
  BY <1>4, <1>5, <1>7, <1>8
<1> QED
  BY <1>9 DEF S, a

(* Letters before others, in order.                                        *)
LEMMA LettersJoin ==
  ASSUME LinesOK, NEW A \in SUBSET (1 .. Len(hlist)), NEW B \in SUBSET (1 .. Len(hlist)),
         \A x \in A, y \in B : x < y
  PROVE  Letters(A \cup B) = Letters(A) \o Letters(B)
<1> DEFINE S == CharsIn(A)
           T == CharsIn(B)
<1>1. /\ S \in SUBSET Int /\ IsFiniteSet(S) /\ Letters(A) = Ascending(S)
      /\ T \in SUBSET Int /\ IsFiniteSet(T) /\ Letters(B) = Ascending(T)
  BY LettersIs
<1>2. Letters(A \cup B) = Ascending(S \cup T)
  <2>1. A \cup B \in SUBSET (1 .. Len(hlist)) /\ CharsIn(A \cup B) = S \cup T
    BY DEF CharsIn
  <2> QED
    BY <2>1, LettersIs
<1>3. \A x \in S, y \in T : x < y
  BY DEF CharsIn
<1> HIDE DEF S, T
<1>4. Ascending(S \cup T) = Ascending(S) \o Ascending(T)
  BY <1>1, <1>3, AscendingJoin
<1> QED
  BY <1>1, <1>2, <1>4

(* The letters of a range, cut in two.                                     *)
LEMMA LettersCut ==
  ASSUME LinesOK, NEW a \in Nat \ {0}, NEW b \in Nat, NEW c \in Nat,
         a <= b, b <= c, c <= Len(hlist) + 1
  PROVE  /\ Letters(a .. c - 1) = Letters(a .. b - 1) \o Letters(b .. c - 1)
         /\ Letters(a .. b - 1) \in Seq(1 .. Len(hlist)) /\ Letters(b .. c - 1) \in Seq(1 .. Len(hlist))
<1>1. Len(hlist) \in Nat
  BY DEF LinesOK
<1>2. /\ a .. c - 1 = (a .. b - 1) \cup (b .. c - 1)
      /\ a .. b - 1 \in SUBSET (1 .. Len(hlist)) /\ b .. c - 1 \in SUBSET (1 .. Len(hlist))
      /\ \A x \in a .. b - 1, y \in b .. c - 1 : x < y
  BY <1>1
<1> DEFINE A == a .. b - 1
           B == b .. c - 1
<1>3. /\ A \in SUBSET (1 .. Len(hlist)) /\ B \in SUBSET (1 .. Len(hlist))
      /\ \A x \in A, y \in B : x < y
  BY <1>2
<1> HIDE DEF A, B
<1>4. Letters(A \cup B) = Letters(A) \o Letters(B)
  BY <1>3, LettersJoin
<1>5. Letters(A) \in Seq(1 .. Len(hlist)) /\ Letters(B) \in Seq(1 .. Len(hlist))
  BY <1>3, LettersIs
<1> QED
  BY <1>2, <1>4, <1>5 DEF A, B

(* Nothing is added by items that are no letters.                          *)
LEMMA LettersWithout ==
  ASSUME LinesOK, NEW a \in Nat \ {0}, NEW b \in Nat, NEW c \in Nat,
         a <= b, b <= c, c <= Len(hlist) + 1, \A i \in b .. c - 1 : Kind(i) # "char"
  PROVE  Letters(a .. c - 1) = Letters(a .. b - 1)
<1>1. /\ Letters(a .. c - 1) = Letters(a .. b - 1) \o Letters(b .. c - 1)
      /\ Letters(a .. b - 1) \in Seq(1 .. Len(hlist)) /\ Letters(b .. c - 1) \in Seq(1 .. Len(hlist))
  BY LettersCut
<1>2. Letters(b .. c - 1) = << >>
  <2>1. b .. c - 1 \in SUBSET (1 .. Len(hlist)) /\ CharsIn(b .. c - 1) = {}
    <3>1. Len(hlist) \in Nat
      BY DEF LinesOK
    <3> QED
      BY <3>1 DEF CharsIn
  <2> QED
    BY <2>1, LettersIs
<1> QED
  BY <1>1, <1>2, ConcatEmptySeq

-----------------------------------------------------------------------------
(* A segment cut between letters.                                          *)

(* The letters of the lines.                                               *)
Line == Seq(1 .. Len(hlist))

(* The loop of push_unbreakable_lines (line_breaker.rs).                   *)
PushSet == [line : Line, width : Nat, lines : Seq(Line)]
PushBegin == [line |-> << >>, width |-> 0, lines |-> << >>]
Pushed(items) == FoldLeft(PushItem, PushBegin, items)

(* The parts of a line that was ended, and of one with an item more.       *)
LEMMA LineParts ==
  ASSUME NEW state \in PushSet, NEW i
  PROVE  /\ state.line \in Line /\ state.width \in Nat /\ state.lines \in Seq(Line)
         /\ EndLine(state).line = << >> /\ EndLine(state).width = 0
         /\ EndLine(state).lines = Append(state.lines, state.line)
         /\ AddItem(state, i).line = state.line \o Letters({i})
         /\ AddItem(state, i).width = state.width + hlist[i].width
         /\ AddItem(state, i).lines = state.lines
         /\ state.line \o Letters({i}) \in Line /\ state.width + hlist[i].width \in Nat =>
              AddItem(state, i) \in PushSet
<1> DEFINE more == Letters({i})
           wide == hlist[i].width
<1>1. state.line \in Line /\ state.width \in Nat /\ state.lines \in Seq(Line)
  BY DEF PushSet
<1>2. /\ EndLine(state).line = << >> /\ EndLine(state).width = 0
      /\ EndLine(state).lines = Append(state.lines, state.line)
  BY DEF EndLine
<1>3. AddItem(state, i) = [state EXCEPT !.line = @ \o more, !.width = @ + wide]
  BY DEF AddItem
<1> HIDE DEF more, wide
<1>4. /\ AddItem(state, i).line = state.line \o more /\ AddItem(state, i).width = state.width + wide
      /\ AddItem(state, i).lines = state.lines
  BY <1>3 DEF PushSet
<1>5. state.line \o more \in Line /\ state.width + wide \in Nat => AddItem(state, i) \in PushSet
  BY <1>3 DEF PushSet
<1> QED
  BY <1>1, <1>2, <1>4, <1>5 DEF more, wide

(* The lines so far hold the text; none is empty, and a line without       *)
(* letters has no width.                                                   *)
PushOK(state, text) ==
  /\ state \in PushSet
  /\ FlattenSeq(state.lines) \o state.line = text
  /\ state.line = << >> => state.width = 0
  /\ \A l \in 1 .. Len(state.lines) : state.lines[l] # << >>

(* A line that has letters may end.                                        *)
LEMMA EndKeeps ==
  ASSUME NEW text, NEW state, PushOK(state, text), state.line # << >>
  PROVE  PushOK(EndLine(state), text)
<1> DEFINE new == EndLine(state)
<1>1. state \in PushSet
  BY DEF PushOK
<1>2. /\ state.line \in Line /\ state.width \in Nat /\ state.lines \in Seq(Line)
      /\ new.line = << >> /\ new.width = 0 /\ new.lines = Append(state.lines, state.line)
  BY <1>1, LineParts
<1>3. new = [line |-> << >>, width |-> 0, lines |-> Append(state.lines, state.line)]
  BY DEF EndLine
<1> HIDE DEF new
<1>4. /\ Append(state.lines, state.line) \in Seq(Line)
      /\ Len(Append(state.lines, state.line)) = Len(state.lines) + 1 /\ Len(state.lines) \in Nat
      /\ \A l \in 1 .. Len(state.lines) : Append(state.lines, state.line)[l] = state.lines[l]
      /\ Append(state.lines, state.line)[Len(state.lines) + 1] = state.line
  BY <1>2, AppendProperties, LenProperties
<1>5. new \in PushSet
  <2>1. << >> \in Line
    BY DEF Line
  <2> QED
    BY <1>3, <1>4, <2>1 DEF PushSet
<1>6. FlattenSeq(new.lines) \o new.line = text
  <2>1. FlattenSeq(Append(state.lines, state.line)) = FlattenSeq(state.lines) \o state.line
    BY <1>2, FlattenAppend DEF Line
  <2>2. FlattenSeq(state.lines) \o state.line \in Line
    <3>1. FlattenSeq(state.lines) \in Line
      <4>1. state.lines \in Seq(Seq(1 .. Len(hlist))) /\ << >> \in Seq(Seq(1 .. Len(hlist)))
        BY <1>2 DEF Line
      <4> QED
        BY <4>1, FlattenJoin DEF Line
    <3> QED
      BY <1>2, <3>1, ConcatProperties DEF Line
  <2>3. (FlattenSeq(state.lines) \o state.line) \o << >> = FlattenSeq(state.lines) \o state.line
    BY <2>2, ConcatEmptySeq DEF Line
  <2>4. FlattenSeq(state.lines) \o state.line = text
    BY DEF PushOK
  <2> QED
    BY <1>2, <2>1, <2>3, <2>4
<1>7. \A l \in 1 .. Len(new.lines) : new.lines[l] # << >>
  <2>1. \A l \in 1 .. Len(state.lines) : state.lines[l] # << >>
    BY DEF PushOK
  <2>2. \A l \in 1 .. Len(state.lines) + 1 : l \in 1 .. Len(state.lines) \/ l = Len(state.lines) + 1
    BY <1>4
  <2> QED
    BY <1>2, <1>4, <2>1, <2>2
<1>8. PushOK(new, text)
  BY <1>2, <1>5, <1>6, <1>7 DEF PushOK
<1> QED
  BY <1>8 DEF new

(* An item that is no space is added to the line; without a letter it has  *)
(* no width.                                                               *)
LEMMA AddKeeps ==
  ASSUME ListShape, NEW text, NEW state, PushOK(state, text),
         NEW i \in 1 .. Len(hlist), Kind(i) # "glue"
  PROVE  PushOK(AddItem(state, i), text \o Letters({i}))
<1> DEFINE new == AddItem(state, i)
           item == Letters({i})
<1>1. state \in PushSet /\ LinesOK
  BY DEF PushOK, ListShape
<1>2. item \in Line /\ (item = << >> <=> Kind(i) # "char")
  <2>1. {i} \in SUBSET (1 .. Len(hlist))
    OBVIOUS
  <2>2. Letters({i}) \in Seq(1 .. Len(hlist)) /\ (Letters({i}) = << >> <=> CharsIn({i}) = {})
    BY <1>1, <2>1, LettersIs
  <2> QED
    BY <2>2 DEF CharsIn, Line
<1>3. /\ state.line \in Line /\ state.width \in Nat /\ state.lines \in Seq(Line)
      /\ new.line = state.line \o item /\ new.width = state.width + hlist[i].width
      /\ new.lines = state.lines
      /\ state.line \o item \in Line /\ state.width + hlist[i].width \in Nat => new \in PushSet
  BY <1>1, LineParts
<1> HIDE DEF new, item
<1>4. hlist[i].width \in Nat /\ (Kind(i) # "char" => hlist[i].width = 0)
  <2>1. hlist[i] \in ListItems /\ Kind(i) = hlist[i].kind /\ i \in DOMAIN hlist
    <3>1. Kind(i) = hlist[i].kind /\ i \in DOMAIN hlist
      BY <1>1, KindIs
    <3> QED
      BY <1>1, <3>1 DEF LinesOK
  <2>2. hlist[i].width \in Nat /\ hlist[i].kind \in {"char", "glue", "penalty", "forced"}
    BY <2>1 DEF ListItems
  <2> QED
    BY <2>1, <2>2 DEF ListShape
<1>5. state.line \o item \in Line /\ (state.line \o item = << >> => state.line = << >> /\ item = << >>)
  <2>1. state.line \o item \in Line
    BY <1>2, <1>3, ConcatProperties DEF Line
  <2>2. state.line \o item = << >> => state.line = << >> /\ item = << >>
    BY <1>2, <1>3, ConcatEqualIffEmpty DEF Line
  <2> QED
    BY <2>1, <2>2
<1>6. new \in PushSet
  <2>1. state.width + hlist[i].width \in Nat
    BY <1>3, <1>4
  <2> QED
    BY <1>3, <1>5, <2>1
<1>7. FlattenSeq(new.lines) \o new.line = text \o item
  <2> DEFINE x == FlattenSeq(state.lines)
             y == state.line
  <2>1. x \o y = text
    BY DEF PushOK
  <2>2. x \in Seq(1 .. Len(hlist)) /\ y \in Seq(1 .. Len(hlist)) /\ item \in Seq(1 .. Len(hlist))
    <3>1. state.lines \in Seq(Seq(1 .. Len(hlist))) /\ << >> \in Seq(Seq(1 .. Len(hlist)))
      BY <1>3 DEF Line
    <3> QED
      BY <1>2, <1>3, <3>1, FlattenJoin DEF Line
  <2> HIDE DEF x, y
  <2>3. (x \o y) \o item = x \o (y \o item)
    BY ONLY <2>2, ConcatAssociative, SMTT(30)
  <2>4. FlattenSeq(new.lines) \o new.line = x \o (y \o item)
    BY <1>3 DEF x, y
  <2> QED
    BY <2>1, <2>3, <2>4
<1>8. new.line = << >> => new.width = 0
  <2>1. state.line = << >> => state.width = 0
    BY DEF PushOK
  <2> QED
    BY <1>2, <1>3, <1>4, <1>5, <2>1
<1>9. \A l \in 1 .. Len(new.lines) : new.lines[l] # << >>
  BY <1>3 DEF PushOK
<1>10. PushOK(new, text \o item)
  BY <1>6, <1>7, <1>8, <1>9 DEF PushOK
<1> QED
  BY <1>10 DEF new, item

(* One turn of the loop.                                                   *)
LEMMA PushKeeps ==
  ASSUME ListShape, NEW text, NEW state, PushOK(state, text),
         NEW i \in 1 .. Len(hlist), Kind(i) # "glue"
  PROVE  PushOK(PushItem(state, i), text \o Letters({i}))
<1> DEFINE a == EndBefore(state, hlist[i].width)
           b == AddItem(a, i)
<1>1. PushOK(a, text)
  BY EndKeeps DEF EndBefore
<1> HIDE DEF a
<1>2. PushOK(b, text \o Letters({i}))
  BY <1>1, AddKeeps
<1>3. b.width > LineWidth => b.line # << >>
  <2>1. b.line = << >> => b.width = 0
    BY <1>2 DEF PushOK
  <2> QED
    BY <2>1, Constants
<1> HIDE DEF b
<1>4. PushOK(EndWide(b), text \o Letters({i}))
  BY <1>2, <1>3, EndKeeps DEF EndWide
<1> QED
  BY <1>4 DEF PushItem, a, b

(* A state of the loop stays one.                                          *)
LEMMA PushType ==
  ASSUME LinesOK, NEW state \in PushSet, NEW i \in 1 .. Len(hlist)
  PROVE  PushItem(state, i) \in PushSet
<1>1. ASSUME NEW s \in PushSet PROVE EndLine(s) \in PushSet
  <2>1. s.line \in Line /\ s.lines \in Seq(Line) /\ << >> \in Line
    BY <1>1 DEF PushSet, Line
  <2>2. Append(s.lines, s.line) \in Seq(Line)
    BY <2>1, AppendProperties
  <2> QED
    BY <2>1, <2>2 DEF EndLine, PushSet
<1>2. ASSUME NEW s \in PushSet PROVE AddItem(s, i) \in PushSet
  <2>1. s.line \in Line /\ s.width \in Nat
    BY <1>2 DEF PushSet
  <2>2. Letters({i}) \in Line
    <3>1. {i} \in SUBSET (1 .. Len(hlist))
      OBVIOUS
    <3> QED
      BY <3>1, LettersIs DEF Line
  <2>3. hlist[i].width \in Nat
    <3>1. hlist[i] \in ListItems
      BY DEF LinesOK
    <3> QED
      BY <3>1 DEF ListItems
  <2>4. s.line \o Letters({i}) \in Line
    BY <2>1, <2>2, ConcatProperties DEF Line
  <2>5. s.width + hlist[i].width \in Nat
    BY <2>1, <2>3
  <2> QED
    BY <2>4, <2>5, LineParts
<1> DEFINE a == EndBefore(state, hlist[i].width)
           b == AddItem(a, i)
<1>3. a \in PushSet
  BY <1>1 DEF EndBefore
<1> HIDE DEF a
<1>4. b \in PushSet
  BY <1>2, <1>3
<1> HIDE DEF b
<1>5. EndWide(b) \in PushSet
  BY <1>1, <1>4 DEF EndWide
<1> QED
  BY <1>5 DEF PushItem, a, b

(* The loop of push_unbreakable_lines, item by item.                       *)
LEMMA PushSteps ==
  ASSUME LinesOK, NEW n \in Nat, NEW items \in [1 .. n -> 1 .. Len(hlist)]
  PROVE  \E h \in [0 .. n -> PushSet] :
           /\ h[0] = PushBegin /\ Pushed(items) = h[n]
           /\ \A k \in 1 .. n : h[k] = PushItem(h[k - 1], items[k])
<1> DEFINE g == [i \in 1 .. n |-> [x \in PushSet |-> PushItem(x, items[i])]]
           F(f) == f = [t \in SUBSET (1 .. n) |->
                         IF t = {} THEN PushBegin ELSE PushItem(f[t \ {Max(t)}], items[Max(t)])]
           iter == CHOOSE f : F(f)
<1>0. PushBegin \in PushSet /\ n \in Nat
  BY EmptySeq DEF PushBegin, PushSet, Line
<1>1. g \in [1 .. n -> [PushSet -> PushSet]]
  BY PushType
<1>2. \E e : FoldOn(PushSet, PushBegin, g, n, e)
  <2> HIDE DEF g
  <2> QED
    BY <1>0, <1>1, FoldFn
<1>3. PICK e : FoldOn(PushSet, PushBegin, g, n, e)
  BY <1>2
<1>4. F(e)
  <2>1. ASSUME NEW t \in SUBSET (1 .. n)
        PROVE  e[t] = IF t = {} THEN PushBegin ELSE PushItem(e[t \ {Max(t)}], items[Max(t)])
    <3>1. e[t] = FoldStep(PushBegin, g, e, t) /\ e[t \ {Max(t)}] \in PushSet
      BY <1>3 DEF FoldOn
    <3>2. t # {} => Max(t) \in 1 .. n
      BY <1>0, MaxRange
    <3> QED
      BY <3>1, <3>2 DEF FoldStep
  <2>2. e = [t \in SUBSET (1 .. n) |-> e[t]]
    BY <1>3 DEF FoldOn
  <2> QED
    BY <2>1, <2>2
<1>5. F(iter)
  <2> HIDE DEF F
  <2> QED
    BY <1>4
<1>6. Pushed(items) = iter[1 .. n]
  <2>1. DOMAIN (items) = 1 .. n
    OBVIOUS
  <2> HIDE DEF g
  <2> QED
    BY <2>1 DEF FoldLeft, MapThenFoldSet, Pushed
<1>7. \A t \in SUBSET (1 .. n) :
        iter[t] = IF t = {} THEN PushBegin ELSE PushItem(iter[t \ {Max(t)}], items[Max(t)])
  <2>1. \A f : F(f) => \A t \in SUBSET (1 .. n) :
          f[t] = IF t = {} THEN PushBegin ELSE PushItem(f[t \ {Max(t)}], items[Max(t)])
    OBVIOUS
  <2> HIDE DEF F, iter
  <2> QED
    BY <1>5, <2>1
<1> HIDE DEF iter, F
<1>8. iter[{}] = PushBegin
  BY <1>7
<1>9. \A k \in 1 .. n : iter[1 .. (k - 1)] \in PushSet => iter[1 .. k] = g[k][iter[1 .. (k - 1)]]
  <2>1. SUFFICES ASSUME NEW k \in 1 .. n, iter[1 .. (k - 1)] \in PushSet
                 PROVE  iter[1 .. k] = g[k][iter[1 .. (k - 1)]]
    OBVIOUS
  <2>2. 1 .. k \in SUBSET (1 .. n) /\ k \in Nat \ {0}
    BY <1>0, FirstOnes
  <2>3. iter[1 .. k] = PushItem(iter[1 .. (k - 1)], items[k])
    BY <1>7, <2>2, MaxOfRange
  <2> QED
    BY <2>1, <2>3
<1> HIDE DEF g
<1>10. PICK h : History(PushSet, PushBegin, n, g, h) /\ EndsAs(iter, n, h)
  <2>1. Loops(PushSet, PushBegin, n, g, iter)
    BY <1>8, <1>9 DEF Loops
  <2>2. \E h : History(PushSet, PushBegin, n, g, h) /\ EndsAs(iter, n, h)
    BY <1>0, <1>1, <2>1, FoldSteps
  <2> QED
    BY <2>2
<1>11. \A k \in 1 .. n : h[k] = PushItem(h[k - 1], items[k])
  <2>1. \A k \in 1 .. n : h[k] = g[k][h[k - 1]] /\ k - 1 \in 0 .. n /\ h[k - 1] \in PushSet
    BY <1>0, <1>10 DEF History
  <2> QED
    BY <2>1 DEF g
<1> QED
  BY <1>6, <1>10, <1>11 DEF History, EndsAs

(* A segment without a space, cut between letters: its letters, in order,  *)
(* on lines that are not empty (push_unbreakable_lines).                   *)
LEMMA UnbreakableLines ==
  ASSUME ListShape, NEW a \in Nat \ {0}, NEW c \in Nat, a <= c, c <= Len(hlist) + 1,
         \A i \in a .. c - 1 : Kind(i) # "glue"
  PROVE  /\ push_unbreakable_lines(<<a, c>>) \in Seq(Line)
         /\ FlattenSeq(push_unbreakable_lines(<<a, c>>)) = Letters(a .. c - 1)
         /\ \A l \in 1 .. Len(push_unbreakable_lines(<<a, c>>)) : push_unbreakable_lines(<<a, c>>)[l] # << >>
<1> DEFINE n == c - a
           items == ItemsOf(<<a, c>>)
           text(k) == Letters(a .. (a + k) - 1)
<1>1. LinesOK /\ Len(hlist) \in Nat
  BY DEF ListShape, LinesOK
<1>2. /\ n \in Nat /\ a + n = c
      /\ items \in [1 .. n -> 1 .. Len(hlist)] /\ \A k \in 1 .. n : items[k] = (a + k) - 1
  BY <1>1 DEF ItemsOf
<1>3. \A k \in 1 .. n : Kind(items[k]) # "glue"
  BY <1>2
<1>4. push_unbreakable_lines(<<a, c>>) = EndList(Pushed(items))
  BY DEF push_unbreakable_lines, Pushed, PushBegin
<1> HIDE DEF items, n
<1>5. PICK h \in [0 .. n -> PushSet] :
        /\ h[0] = PushBegin /\ Pushed(items) = h[n]
        /\ \A k \in 1 .. n : h[k] = PushItem(h[k - 1], items[k])
  BY <1>1, <1>2, PushSteps
<1> DEFINE S == {k \in 0 .. n : PushOK(h[k], text(k))}
<1>6. 0 \in S
  <2>1. PushBegin \in PushSet /\ 0 \in 0 .. n
    BY <1>2, <1>5
  <2>2. text(0) = << >>
    <3>1. a .. (a + 0) - 1 = {} /\ {} \in SUBSET (1 .. Len(hlist)) /\ CharsIn({}) = {}
      BY DEF CharsIn
    <3>2. Letters({}) = << >>
      BY <3>1, <1>1, LettersIs
    <3> QED
      BY <3>1, <3>2
  <2>3. FlattenSeq(<< >>) \o << >> = << >>
    <3>1. FlattenSeq(<< >>) = << >>
      BY DEF FlattenSeq
    <3>2. << >> \in Seq(Nat)
      OBVIOUS
    <3> QED
      BY <3>1, <3>2, ConcatEmptySeq
  <2>4. /\ PushBegin.lines = << >> /\ PushBegin.line = << >> /\ PushBegin.width = 0
        /\ 1 .. Len(PushBegin.lines) = {}
    BY DEF PushBegin
  <2>5. PushOK(PushBegin, << >>)
    BY <2>1, <2>3, <2>4 DEF PushOK
  <2> HIDE DEF text
  <2> QED
    BY <2>1, <2>2, <2>5, <1>5
<1>7. ASSUME NEW k \in 1 .. n, k - 1 \in S PROVE k \in S
  <2> DEFINE b == (a + k) - 1
  <2>1. /\ k \in 0 .. n /\ b \in Nat /\ b \in 1 .. Len(hlist) /\ a <= b /\ b <= b + 1 /\ b + 1 <= Len(hlist) + 1
        /\ b + 1 = a + k /\ b = a + (k - 1) /\ b .. (b + 1) - 1 = {b}
    BY <1>1, <1>2
  <2>2. items[k] = b /\ Kind(b) # "glue"
    BY <1>2, <1>3
  <2> HIDE DEF b
  <2>3. Letters(a .. (b + 1) - 1) = Letters(a .. b - 1) \o Letters(b .. (b + 1) - 1)
    <3> DEFINE e == b + 1
    <3>1. /\ a \in Nat \ {0} /\ b \in Nat /\ e \in Nat
          /\ a <= b /\ b <= e /\ e <= Len(hlist) + 1
      BY <2>1
    <3> HIDE DEF e
    <3>2. /\ Letters(a .. e - 1) = Letters(a .. b - 1) \o Letters(b .. e - 1)
          /\ Letters(a .. b - 1) \in Seq(1 .. Len(hlist)) /\ Letters(b .. e - 1) \in Seq(1 .. Len(hlist))
      BY ONLY <1>1, <3>1, LettersCut
    <3> QED
      BY <3>2 DEF e
  <2>4. PushOK(h[k - 1], Letters(a .. b - 1))
    BY <1>7, <2>1
  <2>5. PushOK(PushItem(h[k - 1], b), Letters(a .. b - 1) \o Letters({b}))
    BY <2>1, <2>2, <2>4, PushKeeps
  <2>6. PushOK(h[k], text(k))
    BY <1>5, <2>1, <2>2, <2>3, <2>5
  <2> QED
    BY <2>1, <2>6
<1> HIDE DEF S
<1>8. n \in S
  <2>1. \A k \in 0 .. n : k \in S
    BY <1>2, <1>6, <1>7, InductUpTo
  <2>2. n \in 0 .. n
    BY <1>2
  <2> QED
    BY <2>1, <2>2
<1> DEFINE state == Pushed(items)
<1>9. PushOK(state, Letters(a .. c - 1))
  BY <1>2, <1>5, <1>8 DEF S
<1> HIDE DEF state
<1>10. CASE state.line = << >>
  <2>1. EndList(state) = state.lines
    BY <1>10 DEF EndList
  <2>2. state.lines \in Seq(Line)
    BY <1>9 DEF PushOK, PushSet
  <2>3. FlattenSeq(state.lines) \o << >> = FlattenSeq(state.lines)
    <3>1. FlattenSeq(state.lines) \in Seq(1 .. Len(hlist))
      <4>1. state.lines \in Seq(Seq(1 .. Len(hlist)))
        BY <2>2 DEF Line
      <4> QED
        BY <4>1, FlattenJoin
    <3> QED
      BY <3>1, ConcatEmptySeq
  <2> QED
    BY <1>4, <1>9, <1>10, <2>1, <2>2, <2>3 DEF PushOK, state
<1>11. CASE state.line # << >>
  <2> DEFINE new == EndLine(state)
  <2>1. PushOK(new, Letters(a .. c - 1))
    BY <1>9, <1>11, EndKeeps
  <2>2. EndList(state) = new.lines /\ new.line = << >>
    BY <1>11 DEF EndList, EndLine
  <2> HIDE DEF new
  <2>3. new.lines \in Seq(Line)
    BY <2>1 DEF PushOK, PushSet
  <2>4. FlattenSeq(new.lines) \o << >> = FlattenSeq(new.lines)
    <3>1. FlattenSeq(new.lines) \in Seq(1 .. Len(hlist))
      <4>1. new.lines \in Seq(Seq(1 .. Len(hlist)))
        BY <2>3 DEF Line
      <4> QED
        BY <4>1, FlattenJoin
    <3> QED
      BY <3>1, ConcatEmptySeq
  <2> QED
    BY <1>4, <2>1, <2>2, <2>3, <2>4 DEF PushOK, state
<1> QED
  BY <1>10, <1>11

(* The segments of the list.                                               *)
SegmentSet == {p \in (1 .. Len(hlist) + 1) \X (1 .. Len(hlist) + 1) : p[1] <= p[2]}
TextOf(p) == Letters(p[1] .. p[2] - 1)

(* The lines of a segment hold its letters, and one of them is empty only  *)
(* when it is the only one and the segment has no letters.                 *)
LEMMA SegmentLines ==
  ASSUME ListShape, NEW p \in SegmentSet
  PROVE  /\ push_segment_lines(p) \in Seq(Line)
         /\ FlattenSeq(push_segment_lines(p)) = TextOf(p)
         /\ \/ push_segment_lines(p) = <<TextOf(p)>> /\ TextOf(p) \in Line
            \/ \A l \in 1 .. Len(push_segment_lines(p)) : push_segment_lines(p)[l] # << >>
<1> DEFINE a == p[1]
           c == p[2]
<1>1. LinesOK /\ Len(hlist) \in Nat
  BY DEF ListShape, LinesOK
<1>2. a \in Nat \ {0} /\ c \in Nat /\ a <= c /\ c <= Len(hlist) + 1 /\ p = <<a, c>>
  BY <1>1 DEF SegmentSet
<1>3. TextOf(p) \in Line
  <2>1. a .. c - 1 \in SUBSET (1 .. Len(hlist))
    BY <1>1, <1>2
  <2> QED
    BY <2>1, <1>1, LettersIs DEF TextOf, Line
<1> HIDE DEF a, c
<1>4. CASE push_segment_lines(p) = <<TextOf(p)>>
  <2>1. TextOf(p) \in Seq(1 .. Len(hlist))
    BY <1>3 DEF Line
  <2>2. FlattenSeq(<<TextOf(p)>>) = TextOf(p) /\ <<TextOf(p)>> \in Seq(Seq(1 .. Len(hlist)))
    BY <2>1, FlattenOne
  <2> QED
    BY <1>3, <1>4, <2>2 DEF Line
<1>5. CASE push_segment_lines(p) # <<TextOf(p)>>
  <2>1. push_segment_lines(p) = push_unbreakable_lines(p) /\ \A i \in a .. c - 1 : Kind(i) # "glue"
    BY <1>5 DEF push_segment_lines, TextOf, a, c
  <2>2. /\ push_unbreakable_lines(<<a, c>>) \in Seq(Line)
        /\ FlattenSeq(push_unbreakable_lines(<<a, c>>)) = Letters(a .. c - 1)
        /\ \A l \in 1 .. Len(push_unbreakable_lines(<<a, c>>)) : push_unbreakable_lines(<<a, c>>)[l] # << >>
    BY <1>2, <2>1, UnbreakableLines
  <2>3. TextOf(p) = Letters(a .. c - 1)
    BY DEF TextOf, a, c
  <2> QED
    BY <1>2, <2>1, <2>2, <2>3
<1> QED
  BY <1>4, <1>5

(* The loop over the segments (break_paragraph).                           *)
AddLines(lines, segment) == lines \o push_segment_lines(segment)
Broken(segments) == FoldLeft(AddLines, << >>, segments)

(* The lines of the segments, segment by segment.                          *)
LEMMA BrokenSteps ==
  ASSUME ListShape, NEW n \in Nat, NEW segments \in [1 .. n -> SegmentSet]
  PROVE  \E h \in [0 .. n -> Seq(Line)] :
           /\ h[0] = << >> /\ Broken(segments) = h[n]
           /\ \A k \in 1 .. n : h[k] = AddLines(h[k - 1], segments[k])
<1> DEFINE g == [i \in 1 .. n |-> [x \in Seq(Line) |-> AddLines(x, segments[i])]]
           F(f) == f = [t \in SUBSET (1 .. n) |->
                         IF t = {} THEN << >> ELSE AddLines(f[t \ {Max(t)}], segments[Max(t)])]
           iter == CHOOSE f : F(f)
<1>0. << >> \in Seq(Line) /\ n \in Nat
  OBVIOUS
<1>1. g \in [1 .. n -> [Seq(Line) -> Seq(Line)]]
  <2>1. ASSUME NEW i \in 1 .. n, NEW x \in Seq(Line) PROVE AddLines(x, segments[i]) \in Seq(Line)
    <3>1. push_segment_lines(segments[i]) \in Seq(Line)
      BY SegmentLines
    <3> QED
      BY <3>1, ConcatProperties DEF AddLines
  <2> QED
    BY <2>1
<1>2. \E e : FoldOn(Seq(Line), << >>, g, n, e)
  <2> HIDE DEF g
  <2> QED
    BY <1>0, <1>1, FoldFn
<1>3. PICK e : FoldOn(Seq(Line), << >>, g, n, e)
  BY <1>2
<1>4. F(e)
  <2>1. ASSUME NEW t \in SUBSET (1 .. n)
        PROVE  e[t] = IF t = {} THEN << >> ELSE AddLines(e[t \ {Max(t)}], segments[Max(t)])
    <3>1. e[t] = FoldStep(<< >>, g, e, t) /\ e[t \ {Max(t)}] \in Seq(Line)
      BY <1>3 DEF FoldOn
    <3>2. t # {} => Max(t) \in 1 .. n
      BY <1>0, MaxRange
    <3> QED
      BY <3>1, <3>2 DEF FoldStep
  <2>2. e = [t \in SUBSET (1 .. n) |-> e[t]]
    BY <1>3 DEF FoldOn
  <2> QED
    BY <2>1, <2>2
<1>5. F(iter)
  <2> HIDE DEF F
  <2> QED
    BY <1>4
<1>6. Broken(segments) = iter[1 .. n]
  <2>1. DOMAIN (segments) = 1 .. n
    OBVIOUS
  <2> HIDE DEF g
  <2> QED
    BY <2>1 DEF FoldLeft, MapThenFoldSet, Broken
<1>7. \A t \in SUBSET (1 .. n) :
        iter[t] = IF t = {} THEN << >> ELSE AddLines(iter[t \ {Max(t)}], segments[Max(t)])
  <2>1. \A f : F(f) => \A t \in SUBSET (1 .. n) :
          f[t] = IF t = {} THEN << >> ELSE AddLines(f[t \ {Max(t)}], segments[Max(t)])
    OBVIOUS
  <2> HIDE DEF F, iter
  <2> QED
    BY <1>5, <2>1
<1> HIDE DEF iter, F
<1>8. iter[{}] = << >>
  BY <1>7
<1>9. \A k \in 1 .. n : iter[1 .. (k - 1)] \in Seq(Line) => iter[1 .. k] = g[k][iter[1 .. (k - 1)]]
  <2>1. SUFFICES ASSUME NEW k \in 1 .. n, iter[1 .. (k - 1)] \in Seq(Line)
                 PROVE  iter[1 .. k] = g[k][iter[1 .. (k - 1)]]
    OBVIOUS
  <2>2. 1 .. k \in SUBSET (1 .. n) /\ k \in Nat \ {0}
    BY <1>0, FirstOnes
  <2>3. iter[1 .. k] = AddLines(iter[1 .. (k - 1)], segments[k])
    BY <1>7, <2>2, MaxOfRange
  <2> QED
    BY <2>1, <2>3
<1> HIDE DEF g
<1>10. PICK h : History(Seq(Line), << >>, n, g, h) /\ EndsAs(iter, n, h)
  <2>1. Loops(Seq(Line), << >>, n, g, iter)
    BY <1>8, <1>9 DEF Loops
  <2>2. \E h : History(Seq(Line), << >>, n, g, h) /\ EndsAs(iter, n, h)
    BY <1>0, <1>1, <2>1, FoldSteps
  <2> QED
    BY <2>2
<1>11. \A k \in 1 .. n : h[k] = AddLines(h[k - 1], segments[k])
  <2>1. \A k \in 1 .. n : h[k] = g[k][h[k - 1]] /\ k - 1 \in 0 .. n /\ h[k - 1] \in Seq(Line)
    BY <1>0, <1>10 DEF History
  <2> QED
    BY <2>1 DEF g
<1> QED
  BY <1>6, <1>10, <1>11 DEF History, EndsAs

(* The empty lines.                                                        *)
EmptyLines(lines) == {l \in 1 .. Len(lines) : lines[l] = << >>}

(* Lines that are not empty add no empty line.                             *)
LEMMA NoEmptyLine ==
  ASSUME NEW a \in Seq(Line), NEW b \in Seq(Line), \A l \in 1 .. Len(b) : b[l] # << >>
  PROVE  EmptyLines(a \o b) = EmptyLines(a)
<1>1. /\ Len(a) \in Nat /\ Len(b) \in Nat /\ Len(a \o b) = Len(a) + Len(b)
      /\ \A i \in 1 .. Len(a) + Len(b) : (a \o b)[i] = IF i <= Len(a) THEN a[i] ELSE b[i - Len(a)]
  BY ConcatProperties, LenProperties
<1>2. \A i \in 1 .. Len(a) + Len(b) : (a \o b)[i] = << >> <=> i \in 1 .. Len(a) /\ a[i] = << >>
  <2>1. SUFFICES ASSUME NEW i \in 1 .. Len(a) + Len(b)
        PROVE (a \o b)[i] = << >> <=> i \in 1 .. Len(a) /\ a[i] = << >>
    OBVIOUS
  <2>2. CASE i <= Len(a)
    BY <2>2, <1>1
  <2>3. CASE ~ (i <= Len(a))
    <3>1. i - Len(a) \in 1 .. Len(b) /\ (a \o b)[i] = b[i - Len(a)] /\ i \notin 1 .. Len(a)
      BY <2>3, <1>1
    <3> QED
      BY <3>1
  <2> QED
    BY <2>2, <2>3
<1>3. \A i \in 1 .. Len(a) : i \in 1 .. Len(a) + Len(b)
  BY <1>1
<1> QED
  BY <1>1, <1>2, <1>3 DEF EmptyLines

(* An empty line is one more.                                              *)
LEMMA OneEmptyLine ==
  ASSUME NEW a \in Seq(Line)
  PROVE  EmptyLines(a \o <<<< >>>>) = EmptyLines(a) \cup {Len(a) + 1}
<1> DEFINE b == <<<< >>>>
<1>1. b \in Seq(Line) /\ Len(b) = 1 /\ b[1] = << >>
  BY DEF Line
<1> HIDE DEF b
<1>2. /\ Len(a) \in Nat /\ Len(a \o b) = Len(a) + 1
      /\ \A i \in 1 .. Len(a) + 1 : (a \o b)[i] = IF i <= Len(a) THEN a[i] ELSE b[i - Len(a)]
  BY <1>1, ConcatProperties, LenProperties
<1>3. /\ \A i \in 1 .. Len(a) : i \in 1 .. Len(a) + 1 /\ (a \o b)[i] = a[i]
      /\ \A i \in 1 .. Len(a) + 1 : i \in 1 .. Len(a) \/ i = Len(a) + 1
  BY <1>2
<1>4. Len(a) + 1 \in 1 .. Len(a) + 1 /\ (a \o b)[Len(a) + 1] = << >>
  <2>1. Len(a) + 1 \in 1 .. Len(a) + 1 /\ ~ (Len(a) + 1 <= Len(a)) /\ (Len(a) + 1) - Len(a) = 1
    BY <1>2
  <2> QED
    BY <2>1, <1>1, <1>2
<1>5. EmptyLines(a \o b) = EmptyLines(a) \cup {Len(a) + 1}
  BY <1>2, <1>3, <1>4 DEF EmptyLines
<1> QED
  BY <1>5 DEF b

(* The segments and what lies between them make the list: a segment begins *)
(* where the one before it was left, and what it leaves out are no letters. *)
Covers(n, segments, f) ==
  /\ f \in [0 .. n -> 1 .. Len(hlist) + 1]
  /\ \A i \in 1 .. f[0] - 1 : Kind(i) # "char"
  /\ \A i \in f[n] .. Len(hlist) : Kind(i) # "char"
  /\ \A j \in 1 .. n :
       /\ segments[j][1] = f[j - 1] /\ f[j - 1] <= segments[j][2] /\ segments[j][2] <= f[j]
       /\ \A i \in segments[j][2] .. f[j] - 1 : Kind(i) # "char"

(* The segments without letters.                                           *)
Wordless(segments, n) == {j \in 1 .. n : TextOf(segments[j]) = << >>}

(* One segment more or not.                                                *)
LEMMA WordlessSteps ==
  ASSUME NEW segments, NEW n \in Nat \ {0}
  PROVE  /\ IsFiniteSet(Wordless(segments, n - 1)) /\ n \notin Wordless(segments, n - 1)
         /\ TextOf(segments[n]) = << >> => Wordless(segments, n) = Wordless(segments, n - 1) \cup {n}
         /\ TextOf(segments[n]) # << >> => Wordless(segments, n) = Wordless(segments, n - 1)
<1>1. 1 .. n = (1 .. n - 1) \cup {n} /\ n \notin 1 .. n - 1
  OBVIOUS
<1>2. IsFiniteSet(1 .. n - 1)
  BY FS_Interval
<1>3. Wordless(segments, n - 1) \in SUBSET (1 .. n - 1)
  BY DEF Wordless
<1>4. IsFiniteSet(Wordless(segments, n - 1))
  BY <1>2, <1>3, FS_Subset
<1> QED
  BY <1>1, <1>4 DEF Wordless

(* What the lines hold goes on with the segment's letters to where the     *)
(* next segment begins.                                                    *)
LEMMA TextGrows ==
  ASSUME ListShape, NEW n \in Nat, NEW segments \in [1 .. n -> SegmentSet], NEW f, Covers(n, segments, f)
  PROVE  \A k \in 1 .. n : Letters(1 .. f[k] - 1) = Letters(1 .. f[k - 1] - 1) \o TextOf(segments[k])
<1>0. SUFFICES ASSUME NEW k \in 1 .. n
      PROVE Letters(1 .. f[k] - 1) = Letters(1 .. f[k - 1] - 1) \o TextOf(segments[k])
  OBVIOUS
<1> DEFINE a == f[k - 1]
           e == segments[k][2]
           b == f[k]
<1>1. LinesOK /\ Len(hlist) \in Nat /\ k - 1 \in 0 .. n /\ k \in 0 .. n
  BY DEF ListShape, LinesOK
<1>2. a \in 1 .. Len(hlist) + 1 /\ b \in 1 .. Len(hlist) + 1
  BY <1>1 DEF Covers
<1>3. /\ segments[k][1] = a /\ a <= e /\ e <= b /\ \A i \in e .. b - 1 : Kind(i) # "char"
  BY DEF Covers
<1>4. e \in 1 .. Len(hlist) + 1
  BY <1>1 DEF SegmentSet
<1>5. TextOf(segments[k]) = Letters(a .. e - 1)
  BY <1>3 DEF TextOf
<1> HIDE DEF a, b, e
<1>6. /\ 1 \in Nat \ {0} /\ a \in Nat /\ b \in Nat /\ e \in Nat /\ 1 <= a /\ a <= e /\ 1 <= e /\ e <= b
      /\ b <= Len(hlist) + 1 /\ e <= Len(hlist) + 1
  BY <1>1, <1>2, <1>3, <1>4
<1>7. /\ Letters(1 .. e - 1) = Letters(1 .. a - 1) \o Letters(a .. e - 1)
      /\ Letters(1 .. a - 1) \in Seq(1 .. Len(hlist)) /\ Letters(a .. e - 1) \in Seq(1 .. Len(hlist))
  BY ONLY <1>1, <1>6, LettersCut
<1>8. Letters(1 .. b - 1) = Letters(1 .. e - 1)
  BY ONLY <1>1, <1>3, <1>6, LettersWithout
<1> QED
  BY <1>5, <1>7, <1>8 DEF a, b

(* As many empty lines as segments without letters, at most.               *)
Spare(lines, segments, k) ==
  IsFiniteSet(EmptyLines(lines)) /\ Cardinality(EmptyLines(lines)) <= Cardinality(Wordless(segments, k))

(* A segment with letters adds no empty line, one without at most one.     *)
LEMMA SpareSteps ==
  ASSUME ListShape, NEW segments, NEW k \in Nat \ {0}, segments[k] \in SegmentSet,
         NEW lines \in Seq(Line), Spare(lines, segments, k - 1)
  PROVE  Spare(AddLines(lines, segments[k]), segments, k)
<1> DEFINE p == segments[k]
           more == push_segment_lines(p)
           W == Wordless(segments, k - 1)
           V == Wordless(segments, k)
<1>1. /\ more \in Seq(Line)
      /\ more = <<TextOf(p)>> \/ \A l \in 1 .. Len(more) : more[l] # << >>
  BY SegmentLines
<1>2. /\ IsFiniteSet(W) /\ k \notin W /\ (TextOf(p) = << >> => V = W \cup {k})
      /\ (TextOf(p) # << >> => V = W)
  BY WordlessSteps
<1>3. IsFiniteSet(EmptyLines(lines)) /\ Cardinality(EmptyLines(lines)) <= Cardinality(W)
  BY DEF Spare
<1>4. AddLines(lines, p) = lines \o more
  BY DEF AddLines
<1> HIDE DEF W, V, p, more
<1>5. /\ Cardinality(W) \in Nat /\ Cardinality(EmptyLines(lines)) \in Nat
      /\ IsFiniteSet(W \cup {k}) /\ Cardinality(W \cup {k}) = Cardinality(W) + 1
  BY <1>2, <1>3, FS_CardinalityType, FS_AddElement
<1>6. Cardinality(V) \in Nat /\ Cardinality(W) <= Cardinality(V)
  <2>1. V = W \cup {k} \/ V = W
    BY <1>2
  <2>2. CASE V = W
    BY <2>2, <1>5
  <2>3. CASE V = W \cup {k}
    BY <2>3, <1>5
  <2> QED
    BY <2>1, <2>2, <2>3
<1>7. CASE \A l \in 1 .. Len(more) : more[l] # << >>
  <2>1. EmptyLines(lines \o more) = EmptyLines(lines)
    BY <1>1, <1>7, NoEmptyLine
  <2>2. Cardinality(EmptyLines(lines \o more)) <= Cardinality(V)
    BY <2>1, <1>3, <1>5, <1>6
  <2> QED
    BY <2>1, <2>2, <1>3, <1>4 DEF Spare, V, p
<1>8. CASE more = <<TextOf(p)>> /\ TextOf(p) = << >>
  <2>1. EmptyLines(lines \o more) = EmptyLines(lines) \cup {Len(lines) + 1}
    <3>1. more = <<<< >>>>
      BY <1>8
    <3> QED
      BY <3>1, OneEmptyLine
  <2>2. Len(lines) + 1 \notin EmptyLines(lines)
    BY LenProperties DEF EmptyLines
  <2>3. /\ IsFiniteSet(EmptyLines(lines \o more))
        /\ Cardinality(EmptyLines(lines \o more)) = Cardinality(EmptyLines(lines)) + 1
    BY <2>1, <2>2, <1>3, FS_AddElement
  <2>4. Cardinality(V) = Cardinality(W) + 1
    BY <1>2, <1>5, <1>8
  <2>5. Cardinality(EmptyLines(lines \o more)) <= Cardinality(V)
    BY <2>3, <2>4, <1>3, <1>5
  <2> QED
    BY <2>3, <2>5, <1>4 DEF Spare, V, p
<1>9. CASE more = <<TextOf(p)>> /\ TextOf(p) # << >>
  <2>1. \A l \in 1 .. Len(more) : more[l] # << >>
    BY <1>9
  <2> QED
    BY <2>1, <1>7
<1> QED
  BY <1>1, <1>7, <1>8, <1>9

(* Segments that cover the list are cut into lines that hold its letters,  *)
(* and no more of those are empty than segments have no letters.           *)
LEMMA LinesOfSegments ==
  ASSUME ListShape, NEW n \in Nat, NEW segments \in [1 .. n -> SegmentSet], NEW f, Covers(n, segments, f)
  PROVE  /\ Broken(segments) \in Seq(Line)
         /\ FlattenSeq(Broken(segments)) = Letters(1 .. Len(hlist))
         /\ Spare(Broken(segments), segments, n)
<1>0. LinesOK /\ Len(hlist) \in Nat /\ n \in 0 .. n /\ 0 \in 0 .. n
  BY DEF ListShape, LinesOK
<1>a. \A k \in 1 .. n : Letters(1 .. f[k] - 1) = Letters(1 .. f[k - 1] - 1) \o TextOf(segments[k])
  BY TextGrows
<1>1. PICK h \in [0 .. n -> Seq(Line)] :
        /\ h[0] = << >> /\ Broken(segments) = h[n]
        /\ \A k \in 1 .. n : h[k] = AddLines(h[k - 1], segments[k])
  BY BrokenSteps
<1>2. /\ f[0] \in 1 .. Len(hlist) + 1 /\ f[n] \in 1 .. Len(hlist) + 1
      /\ (\A i \in 1 .. f[0] - 1 : Kind(i) # "char") /\ (\A i \in f[n] .. Len(hlist) : Kind(i) # "char")
  BY <1>0 DEF Covers
<1> DEFINE Good(k) == FlattenSeq(h[k]) = Letters(1 .. f[k] - 1) /\ Spare(h[k], segments, k)
           S == {k \in 0 .. n : Good(k)}
<1>3. 0 \in S
  <2>1. Letters(1 .. f[0] - 1) = << >>
    <3>1. 1 .. f[0] - 1 \in SUBSET (1 .. Len(hlist)) /\ CharsIn(1 .. f[0] - 1) = {}
      BY <1>0, <1>2 DEF CharsIn
    <3> QED
      BY <3>1, <1>0, LettersIs
  <2>2. FlattenSeq(<< >>) = << >>
    BY DEF FlattenSeq
  <2>3. Spare(<< >>, segments, 0)
    <3>1. EmptyLines(<< >>) = {} /\ Wordless(segments, 0) = {}
      BY DEF EmptyLines, Wordless
    <3>2. IsFiniteSet({}) /\ Cardinality({}) <= Cardinality({})
      <4>1. IsFiniteSet({}) /\ Cardinality({}) = 0 /\ 0 <= 0
        BY FS_EmptySet
      <4> QED
        BY <4>1
    <3>3. IsFiniteSet(EmptyLines(<< >>)) /\ Cardinality(EmptyLines(<< >>)) <= Cardinality(Wordless(segments, 0))
      BY ONLY <3>1, <3>2
    <3> QED
      BY <3>3 DEF Spare
  <2> QED
    BY <1>0, <1>1, <2>1, <2>2, <2>3
<1>4. ASSUME NEW k \in 1 .. n, k - 1 \in S PROVE k \in S
  <2>1. k \in 0 .. n /\ k - 1 \in 0 .. n /\ k \in Nat \ {0}
    OBVIOUS
  <2>2. h[k] = AddLines(h[k - 1], segments[k]) /\ h[k - 1] \in Seq(Line) /\ segments[k] \in SegmentSet
    BY <1>1, <2>1
  <2>3. FlattenSeq(h[k - 1]) = Letters(1 .. f[k - 1] - 1) /\ Spare(h[k - 1], segments, k - 1)
    BY <1>4
  <2>4. Spare(h[k], segments, k)
    <3> DEFINE before == h[k - 1]
    <3>1. ListShape /\ k \in Nat \ {0} /\ segments[k] \in SegmentSet /\ before \in Seq(Line)
          /\ Spare(before, segments, k - 1)
      BY <2>1, <2>2, <2>3
    <3> HIDE DEF before
    <3>2. Spare(AddLines(before, segments[k]), segments, k)
      BY ONLY <3>1, SpareSteps
    <3> QED
      BY <2>2, <3>2 DEF before
  <2>5. FlattenSeq(h[k]) = FlattenSeq(h[k - 1]) \o TextOf(segments[k])
    <3> DEFINE more == push_segment_lines(segments[k])
               before == h[k - 1]
    <3>1. more \in Seq(Line) /\ FlattenSeq(more) = TextOf(segments[k])
      BY <2>2, SegmentLines
    <3>2. before \in Seq(Seq(1 .. Len(hlist))) /\ more \in Seq(Seq(1 .. Len(hlist)))
      BY <2>2, <3>1 DEF Line
    <3> HIDE DEF before, more
    <3>3. FlattenSeq(before \o more) = FlattenSeq(before) \o FlattenSeq(more)
      BY ONLY <3>2, FlattenJoin
    <3>4. h[k] = before \o more
      BY <2>2 DEF AddLines, before, more
    <3> QED
      BY <3>1, <3>3, <3>4 DEF before
  <2>6. Letters(1 .. f[k] - 1) = Letters(1 .. f[k - 1] - 1) \o TextOf(segments[k])
    BY <1>a
  <2> QED
    BY <2>1, <2>3, <2>4, <2>5, <2>6
<1> HIDE DEF S
<1>5. n \in S
  <2>1. \A k \in 0 .. n : k \in S
    BY <1>3, <1>4, InductUpTo
  <2> QED
    BY <1>0, <2>1
<1>6. Good(n) /\ Broken(segments) = h[n] /\ h[n] \in Seq(Line)
  BY <1>0, <1>1, <1>5 DEF S
<1>7. Letters(1 .. Len(hlist)) = Letters(1 .. f[n] - 1)
  <2> DEFINE b == f[n]
             c == Len(hlist) + 1
  <2>1. /\ 1 \in Nat \ {0} /\ b \in Nat /\ c \in Nat /\ 1 <= b /\ b <= c /\ c <= Len(hlist) + 1
        /\ c - 1 = Len(hlist) /\ \A i \in b .. c - 1 : Kind(i) # "char"
    BY <1>0, <1>2
  <2> HIDE DEF b, c
  <2>2. Letters(1 .. c - 1) = Letters(1 .. b - 1)
    BY ONLY <1>0, <2>1, LettersWithout
  <2> QED
    BY <2>1, <2>2 DEF b
<1> QED
  BY <1>6, <1>7

-----------------------------------------------------------------------------
(* The list cut at the breaks.                                             *)

(* Skipping from within the list ends at the item behind it at the latest. *)
LEMMA SkipWithin ==
  ASSUME LinesOK, NEW i \in 1 .. Len(hlist) + 1, NEW kinds, "none" \notin kinds
  PROVE  /\ SkipFrom(i, kinds) \in i .. Len(hlist) + 1
         /\ Kind(SkipFrom(i, kinds)) \notin kinds
         /\ \A k \in i .. SkipFrom(i, kinds) - 1 : Kind(k) \in kinds
<1> DEFINE j == SkipFrom(i, kinds)
<1>1. Len(hlist) \in Nat /\ Kind(Len(hlist) + 1) = "none"
  <2>1. Len(hlist) \in Nat
    BY DEF LinesOK
  <2>2. Len(hlist) + 1 \in Int /\ Len(hlist) + 1 \notin 1 .. Len(hlist)
    BY <2>1
  <2> QED
    BY <2>1, <2>2, KindIs
<1>2. j \in i .. Len(hlist) + 2 /\ Kind(j) \notin kinds /\ \A k \in i .. j - 1 : Kind(k) \in kinds
  <2>1. i \in 1 .. Len(hlist) + 2
    BY <1>1
  <2> QED
    BY <2>1, SkipFromType
<1> HIDE DEF j
<1>3. j # Len(hlist) + 2
  <2>1. SUFFICES ASSUME j = Len(hlist) + 2 PROVE FALSE
    OBVIOUS
  <2>2. Len(hlist) + 1 \in i .. j - 1
    BY <1>1, <2>1
  <2> QED
    BY <1>1, <1>2, <2>2
<1>4. j \in i .. Len(hlist) + 1
  BY <1>1, <1>2, <1>3
<1> QED
  BY <1>2, <1>4 DEF j

(* A line begins with neither a space nor a hyphen.                        *)
LEMMA LineBegins ==
  ASSUME LinesOK, NEW i \in 1 .. Len(hlist) + 1
  PROVE  /\ skip_line_start(i) \in i .. Len(hlist) + 1
         /\ Kind(skip_line_start(i)) \notin {"glue", "penalty"}
         /\ \A k \in i .. skip_line_start(i) - 1 : Kind(k) \in {"glue", "penalty"}
BY SkipWithin DEF skip_line_start

(* What is trimmed from an end that is not before the start.               *)
LEMMA Trims ==
  ASSUME LinesOK, NEW start \in Nat \ {0}, NEW end \in 1 .. Len(hlist) + 1, start <= end
  PROVE  /\ TrimTo(start, end) \in start .. end
         /\ \A k \in TrimTo(start, end) .. end - 1 : Kind(k) \in {"glue", "penalty"}
         /\ TrimTo(start, end) = start \/ Kind(TrimTo(start, end) - 1) \notin {"glue", "penalty"}
BY TrimToType

(* Where a line may be broken: at a hyphen, a forced break, or a letter    *)
(* before a space.                                                         *)
BreakKind(b) == Kind(b) \in {"penalty", "forced"} \/ (Kind(b) = "char" /\ Kind(b + 1) = "glue")

(* A line begins at its break at the latest, and a hyphen it is broken at  *)
(* follows a letter of the line.                                           *)
LEMMA BeginsBefore ==
  ASSUME ListShape, NEW b \in 0 .. Len(hlist), b = 0 \/ BreakKind(b),
         NEW c \in b + 1 .. Len(hlist), BreakKind(c)
  PROVE  /\ skip_line_start(b + 1) <= c
         /\ Kind(c) = "penalty" => skip_line_start(b + 1) <= c - 1 /\ Kind(c - 1) = "char"
<1> DEFINE s == skip_line_start(b + 1)
<1>1. LinesOK /\ Len(hlist) \in Nat
  BY DEF ListShape, LinesOK
<1>2. s \in b + 1 .. Len(hlist) + 1 /\ \A k \in b + 1 .. s - 1 : Kind(k) \in {"glue", "penalty"}
  <2>1. b + 1 \in 1 .. Len(hlist) + 1
    BY <1>1
  <2> QED
    BY <1>1, <2>1, LineBegins
<1> HIDE DEF s
<1>3. ASSUME Kind(c) = "penalty" PROVE s <= c - 1 /\ Kind(c - 1) = "char"
  <2>1. c > 1 /\ Kind(c - 1) = "char"
    BY <1>1, <1>3, LetterBefore
  <2>2. c - 1 # b
    <3>1. SUFFICES ASSUME c - 1 = b PROVE FALSE
      OBVIOUS
    <3>2. b # 0 /\ b + 1 = c
      BY <1>1, <2>1, <3>1
    <3>3. Kind(b) = "char" /\ Kind(b + 1) = "penalty"
      BY <1>3, <2>1, <3>1, <3>2
    <3> QED
      BY <3>2, <3>3 DEF BreakKind
  <2>3. c - 1 \in b + 1 .. Len(hlist)
    BY <1>1, <2>2
  <2>4. ~ (c - 1 <= s - 1)
    BY <1>1, <1>2, <2>1, <2>3
  <2> QED
    BY <1>1, <1>2, <2>1, <2>4
<1>4. s <= c
  <2>1. SUFFICES ASSUME ~ (s <= c) PROVE FALSE
    OBVIOUS
  <2>2. c \in b + 1 .. s - 1
    BY <1>1, <1>2, <2>1
  <2>3. Kind(c) = "penalty"
    BY <1>2, <2>2 DEF BreakKind
  <2> QED
    BY <1>1, <1>2, <1>3, <2>1, <2>3
<1> QED
  BY <1>3, <1>4 DEF s

(* From one break to the next: a segment ends where it begins at the       *)
(* earliest and the next one begins there at the earliest; what lies       *)
(* between them are no letters; and it has letters, unless it ends at a    *)
(* forced break.                                                           *)
LEMMA CutIs ==
  ASSUME ListShape, NEW b \in 0 .. Len(hlist), b = 0 \/ BreakKind(b),
         NEW c \in b + 1 .. Len(hlist), BreakKind(c),
         NEW s, s = skip_line_start(b + 1), NEW t, t = skip_line_start(c + 1)
  PROVE  /\ s \in 1 .. Len(hlist) + 1 /\ t \in 1 .. Len(hlist) + 1
         /\ s <= visible_break_end(s, c) /\ visible_break_end(s, c) <= t
         /\ \A i \in visible_break_end(s, c) .. t - 1 : Kind(i) # "char"
         /\ TextOf(<<s, visible_break_end(s, c)>>) = << >> => Kind(c) = "forced"
<1> DEFINE e == visible_break_end(s, c)
<1>1. LinesOK /\ Len(hlist) \in Nat /\ b \in Nat /\ c \in Nat /\ b + 1 \in 1 .. Len(hlist) + 1
      /\ c + 1 \in 1 .. Len(hlist) + 1 /\ c \in 1 .. Len(hlist) + 1 /\ c <= Len(hlist)
  BY DEF ListShape, LinesOK
<1>2. s \in 1 .. Len(hlist) + 1
  <2>1. s \in b + 1 .. Len(hlist) + 1
    BY <1>1, LineBegins
  <2> QED
    BY <1>1, <2>1
<1>3. t \in c + 1 .. Len(hlist) + 1 /\ \A k \in c + 1 .. t - 1 : Kind(k) \in {"glue", "penalty"}
  BY <1>1, LineBegins
<1>4. s <= c /\ (Kind(c) = "penalty" => s <= c - 1 /\ Kind(c - 1) = "char")
  BY BeginsBefore
<1>5. t \in 1 .. Len(hlist) + 1
  BY <1>1, <1>3
<1>6. CASE Kind(c) \in {"penalty", "forced"}
  <2>1. e = TrimTo(s, c)
    BY <1>6 DEF visible_break_end
  <2>2. e \in s .. c /\ \A k \in e .. c - 1 : Kind(k) \in {"glue", "penalty"}
    <3>1. LinesOK /\ s \in Nat \ {0} /\ c \in 1 .. Len(hlist) + 1 /\ s <= c
      BY <1>1, <1>2, <1>4
    <3>2. /\ TrimTo(s, c) \in s .. c
          /\ \A k \in TrimTo(s, c) .. c - 1 : Kind(k) \in {"glue", "penalty"}
          /\ TrimTo(s, c) = s \/ Kind(TrimTo(s, c) - 1) \notin {"glue", "penalty"}
      BY ONLY <3>1, Trims
    <3> QED
      BY <2>1, <3>2
  <2> HIDE DEF e
  <2>3. s <= e /\ e <= t
    BY <1>1, <1>2, <1>3, <2>2
  <2>4. ASSUME NEW i \in e .. t - 1 PROVE Kind(i) # "char"
    <3>1. i \in e .. c - 1 \/ i = c \/ i \in c + 1 .. t - 1
      BY <1>1, <1>2, <1>3, <2>2
    <3> QED
      BY <3>1, <1>3, <1>6, <2>2
  <2>5. TextOf(<<s, e>>) = << >> => Kind(c) = "forced"
    <3>1. SUFFICES ASSUME TextOf(<<s, e>>) = << >>, Kind(c) = "penalty" PROVE FALSE
      BY <1>6
    <3>2. s <= c - 1 /\ Kind(c - 1) = "char"
      BY <1>4, <3>1
    <3>3. c - 1 \in s .. e - 1
      <4>1. ~ (e <= c - 1)
        <5>1. SUFFICES ASSUME e <= c - 1 PROVE FALSE
          OBVIOUS
        <5>2. c - 1 \in e .. c - 1
          BY <1>1, <1>2, <2>2, <5>1
        <5> QED
          BY <2>2, <3>2, <5>2
      <4> QED
        BY <1>1, <1>2, <2>2, <3>2, <4>1
    <3>4. s .. e - 1 \in SUBSET (1 .. Len(hlist))
      BY <1>1, <1>2, <2>2
    <3>5. CharsIn(s .. e - 1) = {}
      BY <1>1, <3>1, <3>4, LettersIs DEF TextOf
    <3> QED
      BY <3>2, <3>3, <3>5 DEF CharsIn
  <2> QED
    BY <1>2, <1>5, <2>3, <2>4, <2>5 DEF e
<1>7. CASE Kind(c) = "char"
  <2>1. e = TrimTo(s, c + 1)
    BY <1>7 DEF visible_break_end
  <2>2. e \in s .. c + 1 /\ \A k \in e .. (c + 1) - 1 : Kind(k) \in {"glue", "penalty"}
    <3> DEFINE d == c + 1
    <3>1. LinesOK /\ s \in Nat \ {0} /\ d \in 1 .. Len(hlist) + 1 /\ s <= d
      BY <1>1, <1>2, <1>4
    <3> HIDE DEF d
    <3>2. /\ TrimTo(s, d) \in s .. d
          /\ \A k \in TrimTo(s, d) .. d - 1 : Kind(k) \in {"glue", "penalty"}
          /\ TrimTo(s, d) = s \/ Kind(TrimTo(s, d) - 1) \notin {"glue", "penalty"}
      BY ONLY <3>1, Trims
    <3> QED
      BY <2>1, <3>2 DEF d
  <2> HIDE DEF e
  <2>3. e = c + 1
    <3>1. SUFFICES ASSUME e # c + 1 PROVE FALSE
      OBVIOUS
    <3>2. c \in e .. (c + 1) - 1
      BY <1>1, <1>2, <2>2, <3>1
    <3> QED
      BY <1>7, <2>2, <3>2
  <2>4. s <= e /\ e <= t /\ \A i \in e .. t - 1 : Kind(i) # "char"
    BY <1>1, <1>2, <1>3, <1>4, <2>3
  <2>5. TextOf(<<s, e>>) # << >>
    <3>1. SUFFICES ASSUME TextOf(<<s, e>>) = << >> PROVE FALSE
      OBVIOUS
    <3>2. s .. e - 1 \in SUBSET (1 .. Len(hlist)) /\ c \in s .. e - 1
      BY <1>1, <1>2, <1>4, <2>3
    <3>3. CharsIn(s .. e - 1) = {}
      BY <1>1, <3>1, <3>2, LettersIs DEF TextOf
    <3> QED
      BY <1>7, <3>2, <3>3 DEF CharsIn
  <2> QED
    BY <1>2, <1>5, <2>4, <2>5 DEF e
<1> QED
  BY <1>6, <1>7 DEF BreakKind

(* Behind the last break: what is left is a line with letters, or nothing. *)
LEMMA TailIs ==
  ASSUME ListShape, NEW b \in 0 .. Len(hlist), \A i \in b + 1 .. Len(hlist) : Kind(i) # "forced",
         NEW s, s = skip_line_start(b + 1), NEW e, e = TrimTo(s, Len(hlist) + 1)
  PROVE  /\ s \in 1 .. Len(hlist) + 1 /\ e \in s .. Len(hlist) + 1
         /\ \A i \in e .. Len(hlist) : Kind(i) # "char"
         /\ s < e => TextOf(<<s, e>>) # << >>
<1>1. LinesOK /\ Len(hlist) \in Nat /\ b \in Nat /\ b + 1 \in 1 .. Len(hlist) + 1
  BY DEF ListShape, LinesOK
<1>2. s \in b + 1 .. Len(hlist) + 1
  BY <1>1, LineBegins
<1> DEFINE d == Len(hlist) + 1
<1>3. /\ s \in Nat \ {0} /\ d \in 1 .. Len(hlist) + 1 /\ s <= d /\ d \in Nat /\ s \in 1 .. d
      /\ d - 1 = Len(hlist)
  BY <1>1, <1>2
<1> HIDE DEF d
<1>4. /\ TrimTo(s, d) \in s .. d
      /\ \A k \in TrimTo(s, d) .. d - 1 : Kind(k) \in {"glue", "penalty"}
      /\ TrimTo(s, d) = s \/ Kind(TrimTo(s, d) - 1) \notin {"glue", "penalty"}
  BY ONLY <1>1, <1>3, Trims
<1>5. /\ e \in s .. d /\ (\A k \in e .. Len(hlist) : Kind(k) \in {"glue", "penalty"})
      /\ (e = s \/ Kind(e - 1) \notin {"glue", "penalty"})
  BY <1>3, <1>4 DEF d
<1>6. ASSUME s < e PROVE TextOf(<<s, e>>) # << >>
  <2>1. e - 1 \in s .. e - 1 /\ e - 1 \in b + 1 .. Len(hlist) /\ e - 1 \in 1 .. Len(hlist) /\ e # s
    BY <1>1, <1>2, <1>3, <1>5, <1>6
  <2>2. Kind(e - 1) \in {"char", "glue", "penalty", "forced"}
    <3>1. hlist[e - 1].kind \in {"char", "glue", "penalty", "forced"}
      <4>1. hlist[e - 1] \in ListItems
        BY <1>1, <2>1 DEF LinesOK
      <4> QED
        BY <4>1 DEF ListItems
    <3> QED
      BY <1>1, <2>1, <3>1, KindIs
  <2>3. Kind(e - 1) = "char"
    BY <1>5, <2>1, <2>2
  <2>4. s .. e - 1 \in SUBSET (1 .. Len(hlist))
    BY <1>1, <1>3, <1>5
  <2>5. CharsIn(s .. e - 1) # {}
    BY <2>1, <2>3 DEF CharsIn
  <2> QED
    BY <1>1, <2>4, <2>5, LettersIs DEF TextOf
<1>7. s \in 1 .. Len(hlist) + 1 /\ e \in s .. Len(hlist) + 1
  BY <1>3, <1>5 DEF d
<1> QED
  BY <1>5, <1>6, <1>7

(* The loop that cuts the list (line_breaker.rs).                          *)
CutSet == [start : 1 .. Len(hlist) + 1, done : Seq((1 .. Len(hlist) + 1) \X (1 .. Len(hlist) + 1))]
CutBegin == [start |-> skip_line_start(1), done |-> << >>]
CutAll(breaks) == FoldLeft(CutAt, CutBegin, breaks)

(* A state of the loop stays one.                                          *)
LEMMA CutAtType ==
  ASSUME LinesOK, NEW cut \in CutSet, NEW break \in 1 .. Len(hlist)
  PROVE  CutAt(cut, break) \in CutSet
<1>1. Len(hlist) \in Nat
  BY DEF LinesOK
<1>2. cut.start \in 1 .. Len(hlist) + 1 /\ cut.done \in Seq((1 .. Len(hlist) + 1) \X (1 .. Len(hlist) + 1))
  BY DEF CutSet
<1>3. skip_line_start(break + 1) \in 1 .. Len(hlist) + 1
  <2>1. break + 1 \in 1 .. Len(hlist) + 1
    BY <1>1
  <2>2. skip_line_start(break + 1) \in break + 1 .. Len(hlist) + 1
    BY <2>1, LineBegins
  <2> QED
    BY <1>1, <2>1, <2>2
<1>4. visible_break_end(cut.start, break) \in 1 .. Len(hlist) + 1
  <2> DEFINE d == IF Kind(break) \in {"penalty", "forced"} THEN break ELSE break + 1
  <2>1. d \in 1 .. Len(hlist) + 1 /\ cut.start \in Nat \ {0}
    BY <1>1, <1>2
  <2> HIDE DEF d
  <2>2. TrimTo(cut.start, d) \in 1 .. Len(hlist) + 1
    BY <2>1, TrimToType
  <2> QED
    BY <2>2 DEF visible_break_end, d
<1>5. Append(cut.done, <<cut.start, visible_break_end(cut.start, break)>>)
        \in Seq((1 .. Len(hlist) + 1) \X (1 .. Len(hlist) + 1))
  <2>1. <<cut.start, visible_break_end(cut.start, break)>> \in (1 .. Len(hlist) + 1) \X (1 .. Len(hlist) + 1)
    BY <1>2, <1>4
  <2> QED
    BY <1>2, <2>1, AppendProperties
<1> QED
  BY <1>3, <1>5 DEF CutAt, CutSet

(* The cuts, break by break.                                               *)
LEMMA CutSteps ==
  ASSUME LinesOK, NEW n \in Nat, NEW breaks \in [1 .. n -> 1 .. Len(hlist)]
  PROVE  \E h \in [0 .. n -> CutSet] :
           /\ h[0] = CutBegin /\ CutAll(breaks) = h[n]
           /\ \A k \in 1 .. n : h[k] = CutAt(h[k - 1], breaks[k])
<1> DEFINE g == [i \in 1 .. n |-> [x \in CutSet |-> CutAt(x, breaks[i])]]
           F(f) == f = [t \in SUBSET (1 .. n) |->
                         IF t = {} THEN CutBegin ELSE CutAt(f[t \ {Max(t)}], breaks[Max(t)])]
           iter == CHOOSE f : F(f)
<1>0. CutBegin \in CutSet /\ n \in Nat
  <2>1. 1 \in 1 .. Len(hlist) + 1
    BY DEF LinesOK
  <2>2. skip_line_start(1) \in 1 .. Len(hlist) + 1
    BY <2>1, LineBegins
  <2> QED
    BY <2>2, EmptySeq DEF CutBegin, CutSet
<1>1. g \in [1 .. n -> [CutSet -> CutSet]]
  BY CutAtType
<1>2. \E e : FoldOn(CutSet, CutBegin, g, n, e)
  <2> HIDE DEF g
  <2> QED
    BY <1>0, <1>1, FoldFn
<1>3. PICK e : FoldOn(CutSet, CutBegin, g, n, e)
  BY <1>2
<1>4. F(e)
  <2>1. ASSUME NEW t \in SUBSET (1 .. n)
        PROVE  e[t] = IF t = {} THEN CutBegin ELSE CutAt(e[t \ {Max(t)}], breaks[Max(t)])
    <3>1. e[t] = FoldStep(CutBegin, g, e, t) /\ e[t \ {Max(t)}] \in CutSet
      BY <1>3 DEF FoldOn
    <3>2. t # {} => Max(t) \in 1 .. n
      BY <1>0, MaxRange
    <3> QED
      BY <3>1, <3>2 DEF FoldStep
  <2>2. e = [t \in SUBSET (1 .. n) |-> e[t]]
    BY <1>3 DEF FoldOn
  <2> QED
    BY <2>1, <2>2
<1>5. F(iter)
  <2> HIDE DEF F
  <2> QED
    BY <1>4
<1>6. CutAll(breaks) = iter[1 .. n]
  <2>1. DOMAIN (breaks) = 1 .. n
    OBVIOUS
  <2> HIDE DEF g
  <2> QED
    BY <2>1 DEF FoldLeft, MapThenFoldSet, CutAll
<1>7. \A t \in SUBSET (1 .. n) :
        iter[t] = IF t = {} THEN CutBegin ELSE CutAt(iter[t \ {Max(t)}], breaks[Max(t)])
  <2>1. \A f : F(f) => \A t \in SUBSET (1 .. n) :
          f[t] = IF t = {} THEN CutBegin ELSE CutAt(f[t \ {Max(t)}], breaks[Max(t)])
    OBVIOUS
  <2> HIDE DEF F, iter
  <2> QED
    BY <1>5, <2>1
<1> HIDE DEF iter, F
<1>8. iter[{}] = CutBegin
  BY <1>7
<1>9. \A k \in 1 .. n : iter[1 .. (k - 1)] \in CutSet => iter[1 .. k] = g[k][iter[1 .. (k - 1)]]
  <2>1. SUFFICES ASSUME NEW k \in 1 .. n, iter[1 .. (k - 1)] \in CutSet
                 PROVE  iter[1 .. k] = g[k][iter[1 .. (k - 1)]]
    OBVIOUS
  <2>2. 1 .. k \in SUBSET (1 .. n) /\ k \in Nat \ {0}
    BY <1>0, FirstOnes
  <2>3. iter[1 .. k] = CutAt(iter[1 .. (k - 1)], breaks[k])
    BY <1>7, <2>2, MaxOfRange
  <2> QED
    BY <2>1, <2>3
<1> HIDE DEF g
<1>10. PICK h : History(CutSet, CutBegin, n, g, h) /\ EndsAs(iter, n, h)
  <2>1. Loops(CutSet, CutBegin, n, g, iter)
    BY <1>8, <1>9 DEF Loops
  <2>2. \E h : History(CutSet, CutBegin, n, g, h) /\ EndsAs(iter, n, h)
    BY <1>0, <1>1, <2>1, FoldSteps
  <2> QED
    BY <2>2
<1>11. \A k \in 1 .. n : h[k] = CutAt(h[k - 1], breaks[k])
  <2>1. \A k \in 1 .. n : h[k] = g[k][h[k - 1]] /\ k - 1 \in 0 .. n /\ h[k - 1] \in CutSet
    BY <1>0, <1>10 DEF History
  <2> QED
    BY <2>1 DEF g
<1> QED
  BY <1>6, <1>10, <1>11 DEF History, EndsAs

(* The list is cut at breaks in their order; every forced break is one.    *)
BreaksOK(breaks, n) ==
  /\ breaks \in [1 .. n -> 1 .. Len(hlist)] /\ Increasing(breaks, n)
  /\ \A k \in 1 .. n : BreakKind(breaks[k])
  /\ \A i \in 1 .. Len(hlist) : Kind(i) = "forced" => \E k \in 1 .. n : breaks[k] = i

(* The break a line begins behind, where it begins and what it is.         *)
Behind(breaks, k) == IF k = 0 THEN 0 ELSE breaks[k]
LineBegin(breaks, k) == skip_line_start(Behind(breaks, k) + 1)
Segment(breaks, k) ==
  <<LineBegin(breaks, k - 1), visible_break_end(LineBegin(breaks, k - 1), breaks[k])>>

(* The segments that end at a break.                                       *)
LEMMA CutsAre ==
  ASSUME ListShape, NEW n \in Nat, NEW breaks, BreaksOK(breaks, n)
  PROVE  /\ CutAll(breaks) \in CutSet
         /\ CutAll(breaks).start = LineBegin(breaks, n) /\ Len(CutAll(breaks).done) = n
         /\ \A j \in 1 .. n : CutAll(breaks).done[j] = Segment(breaks, j)
<1>1. LinesOK /\ n \in Nat /\ breaks \in [1 .. n -> 1 .. Len(hlist)]
  BY DEF ListShape, BreaksOK
<1>2. PICK h \in [0 .. n -> CutSet] :
        /\ h[0] = CutBegin /\ CutAll(breaks) = h[n]
        /\ \A k \in 1 .. n : h[k] = CutAt(h[k - 1], breaks[k])
  BY <1>1, CutSteps
<1> DEFINE Good(k) ==
             /\ h[k].start = LineBegin(breaks, k) /\ Len(h[k].done) = k
             /\ \A j \in 1 .. k : h[k].done[j] = Segment(breaks, j)
           S == {k \in 0 .. n : Good(k)}
<1>3. 0 \in S
  <2>1. h[0].start = skip_line_start(1) /\ h[0].done = << >> /\ Len(<< >>) = 0
    BY <1>2 DEF CutBegin
  <2>2. Behind(breaks, 0) + 1 = 1
    BY DEF Behind
  <2> QED
    BY <2>1, <2>2 DEF LineBegin
<1>4. ASSUME NEW k \in 1 .. n, k - 1 \in S PROVE k \in S
  <2> DEFINE old == h[k - 1]
             seg == <<old.start, visible_break_end(old.start, breaks[k])>>
  <2>1. k \in 0 .. n /\ k - 1 \in 0 .. n /\ k # 0
    OBVIOUS
  <2>2. old \in CutSet /\ Good(k - 1) /\ h[k] \in CutSet
    BY <1>2, <1>4, <2>1
  <2>3. h[k] = CutAt(old, breaks[k])
    BY <1>2
  <2>4. h[k].start = skip_line_start(breaks[k] + 1) /\ h[k].done = Append(old.done, seg)
    BY <2>3 DEF CutAt
  <2>5. seg = Segment(breaks, k) /\ skip_line_start(breaks[k] + 1) = LineBegin(breaks, k)
    BY <2>1, <2>2 DEF Segment, LineBegin, Behind
  <2>6. old.done \in Seq((1 .. Len(hlist) + 1) \X (1 .. Len(hlist) + 1)) /\ Len(old.done) = k - 1
        /\ \A j \in 1 .. k - 1 : old.done[j] = Segment(breaks, j)
    BY <2>2 DEF CutSet
  <2> HIDE DEF old, seg
  <2>7. /\ Len(Append(old.done, seg)) = k
        /\ \A j \in 1 .. k : Append(old.done, seg)[j] = IF j = k THEN seg ELSE old.done[j]
    BY <2>6
  <2>8. Good(k)
    BY <2>4, <2>5, <2>6, <2>7
  <2> QED
    BY <2>1, <2>8
<1> HIDE DEF S
<1>5. n \in S
  <2>1. \A k \in 0 .. n : k \in S
    BY <1>3, <1>4, InductUpTo
  <2>2. n \in 0 .. n
    OBVIOUS
  <2> QED
    BY <2>1, <2>2
<1>6. Good(n) /\ h[n] \in CutSet /\ CutAll(breaks) = h[n]
  <2>1. n \in 0 .. n
    OBVIOUS
  <2> QED
    BY <2>1, <1>2, <1>5 DEF S
<1> QED
  BY <1>6

(* CutIs, for a segment that ends at a break.                              *)
LEMMA SegmentIs ==
  ASSUME ListShape, NEW n \in Nat, NEW breaks, BreaksOK(breaks, n), NEW k \in 1 .. n
  PROVE  /\ LineBegin(breaks, k - 1) \in 1 .. Len(hlist) + 1 /\ LineBegin(breaks, k) \in 1 .. Len(hlist) + 1
         /\ Segment(breaks, k)[1] = LineBegin(breaks, k - 1)
         /\ LineBegin(breaks, k - 1) <= Segment(breaks, k)[2] /\ Segment(breaks, k)[2] <= LineBegin(breaks, k)
         /\ \A i \in Segment(breaks, k)[2] .. LineBegin(breaks, k) - 1 : Kind(i) # "char"
         /\ TextOf(Segment(breaks, k)) = << >> => Kind(breaks[k]) = "forced"
<1> DEFINE b == Behind(breaks, k - 1)
           c == breaks[k]
           s == LineBegin(breaks, k - 1)
           t == LineBegin(breaks, k)
<1>1. Len(hlist) \in Nat /\ breaks \in [1 .. n -> 1 .. Len(hlist)] /\ Increasing(breaks, n)
      /\ \A j \in 1 .. n : BreakKind(breaks[j])
  BY DEF ListShape, LinesOK, BreaksOK
<1>2. c \in 1 .. Len(hlist) /\ BreakKind(c)
  BY <1>1
<1>3. b \in 0 .. Len(hlist) /\ (b = 0 \/ BreakKind(b)) /\ b < c
  <2>1. CASE k = 1
    BY <1>1, <1>2, <2>1 DEF Behind
  <2>2. CASE k # 1
    <3>1. k - 1 \in 1 .. n /\ k - 1 < k /\ k - 1 # 0
      BY <2>2
    <3>2. b = breaks[k - 1]
      BY <3>1 DEF Behind
    <3>3. breaks[k - 1] \in 1 .. Len(hlist) /\ BreakKind(breaks[k - 1]) /\ breaks[k - 1] < breaks[k]
      BY <1>1, <3>1 DEF Increasing
    <3> QED
      BY <1>1, <3>2, <3>3
  <2> QED
    BY <2>1, <2>2
<1>4. s = skip_line_start(b + 1) /\ t = skip_line_start(c + 1)
  <2>1. k # 0
    OBVIOUS
  <2> QED
    BY <2>1 DEF LineBegin, Behind
<1>5. Segment(breaks, k) = <<s, visible_break_end(s, c)>>
  BY DEF Segment
<1> HIDE DEF b, c, s, t
<1>6. ListShape /\ b \in 0 .. Len(hlist) /\ (b = 0 \/ BreakKind(b)) /\ c \in b + 1 .. Len(hlist) /\ BreakKind(c)
  BY <1>1, <1>2, <1>3
<1>7. /\ s \in 1 .. Len(hlist) + 1 /\ t \in 1 .. Len(hlist) + 1
      /\ s <= visible_break_end(s, c) /\ visible_break_end(s, c) <= t
      /\ \A i \in visible_break_end(s, c) .. t - 1 : Kind(i) # "char"
      /\ TextOf(<<s, visible_break_end(s, c)>>) = << >> => Kind(c) = "forced"
  BY ONLY <1>4, <1>6, CutIs
<1>8. Segment(breaks, k)[1] = s /\ Segment(breaks, k)[2] = visible_break_end(s, c)
  BY <1>5
<1> QED
  BY <1>5, <1>7, <1>8 DEF c, s, t

(* The segments of a list, and the places where they begin.                *)
Cuts(breaks, n, segments, m, f) ==
  /\ segments \in [1 .. m -> SegmentSet] /\ Covers(m, segments, f)
  /\ \A j \in Wordless(segments, m) : j \in 1 .. n /\ Kind(breaks[j]) = "forced"

(* The segments that end at a break, as a function.                        *)
LEMMA DoneCovers ==
  ASSUME ListShape, NEW n \in Nat, NEW breaks, BreaksOK(breaks, n)
  PROVE  LET segments == CutAll(breaks).done
             f == [k \in 0 .. n |-> LineBegin(breaks, k)]
         IN /\ segments \in Seq((1 .. Len(hlist) + 1) \X (1 .. Len(hlist) + 1)) /\ Len(segments) = n
            /\ segments \in [1 .. n -> SegmentSet] /\ f \in [0 .. n -> 1 .. Len(hlist) + 1]
            /\ \A i \in 1 .. f[0] - 1 : Kind(i) # "char"
            /\ \A j \in 1 .. n :
                 /\ segments[j][1] = f[j - 1] /\ f[j - 1] <= segments[j][2] /\ segments[j][2] <= f[j]
                 /\ \A i \in segments[j][2] .. f[j] - 1 : Kind(i) # "char"
                 /\ TextOf(segments[j]) = << >> => Kind(breaks[j]) = "forced"
<1> DEFINE segments == CutAll(breaks).done
           f == [k \in 0 .. n |-> LineBegin(breaks, k)]
           Pairs == (1 .. Len(hlist) + 1) \X (1 .. Len(hlist) + 1)
<1>0. LinesOK /\ Len(hlist) \in Nat /\ n \in 0 .. n /\ 0 \in 0 .. n
  BY DEF ListShape, LinesOK
<1>1. /\ segments \in Seq(Pairs) /\ Len(segments) = n
      /\ \A j \in 1 .. n : segments[j] = Segment(breaks, j)
  BY CutsAre DEF CutSet
<1>2. \A j \in 1 .. n :
        /\ LineBegin(breaks, j - 1) \in 1 .. Len(hlist) + 1 /\ LineBegin(breaks, j) \in 1 .. Len(hlist) + 1
        /\ Segment(breaks, j)[1] = LineBegin(breaks, j - 1)
        /\ LineBegin(breaks, j - 1) <= Segment(breaks, j)[2] /\ Segment(breaks, j)[2] <= LineBegin(breaks, j)
        /\ \A i \in Segment(breaks, j)[2] .. LineBegin(breaks, j) - 1 : Kind(i) # "char"
        /\ TextOf(Segment(breaks, j)) = << >> => Kind(breaks[j]) = "forced"
  BY SegmentIs
<1>3. /\ LineBegin(breaks, 0) \in 1 .. Len(hlist) + 1
      /\ \A i \in 1 .. LineBegin(breaks, 0) - 1 : Kind(i) # "char"
  <2>1. 1 \in 1 .. Len(hlist) + 1 /\ LineBegin(breaks, 0) = skip_line_start(1)
    <3>1. Behind(breaks, 0) + 1 = 1
      BY DEF Behind
    <3> QED
      BY <3>1, <1>0 DEF LineBegin
  <2>2. /\ skip_line_start(1) \in 1 .. Len(hlist) + 1
        /\ \A k \in 1 .. skip_line_start(1) - 1 : Kind(k) \in {"glue", "penalty"}
    BY <1>0, <2>1, LineBegins
  <2> QED
    BY <2>1, <2>2
<1>4. f \in [0 .. n -> 1 .. Len(hlist) + 1] /\ \A k \in 0 .. n : f[k] = LineBegin(breaks, k)
  <2>1. \A k \in 0 .. n : LineBegin(breaks, k) \in 1 .. Len(hlist) + 1
    <3>1. \A k \in 0 .. n : k = 0 \/ k \in 1 .. n
      OBVIOUS
    <3> QED
      BY <3>1, <1>2, <1>3
  <2> QED
    BY <2>1
<1> HIDE DEF segments, f
<1>5. \A j \in 1 .. n : j \in 0 .. n /\ j - 1 \in 0 .. n
  OBVIOUS
<1>6. \A j \in 1 .. n :
        /\ segments[j][1] = f[j - 1] /\ f[j - 1] <= segments[j][2] /\ segments[j][2] <= f[j]
        /\ \A i \in segments[j][2] .. f[j] - 1 : Kind(i) # "char"
        /\ TextOf(segments[j]) = << >> => Kind(breaks[j]) = "forced"
  BY <1>1, <1>2, <1>4, <1>5
<1>7. segments \in [1 .. n -> SegmentSet]
  <2>1. \A j \in 1 .. n : segments[j] \in Pairs /\ segments[j][1] <= segments[j][2]
    BY <1>1, <1>6
  <2> QED
    BY <1>1, <2>1, LenProperties DEF SegmentSet
<1>8. \A i \in 1 .. f[0] - 1 : Kind(i) # "char"
  BY <1>0, <1>3, <1>4
<1> QED
  BY <1>1, <1>4, <1>6, <1>7, <1>8 DEF segments, f

(* The segments cover the list, and one without letters ends at a forced   *)
(* break.                                                                  *)
LEMMA TailCovers ==
  ASSUME ListShape, NEW n \in Nat, NEW breaks, BreaksOK(breaks, n)
  PROVE  \E m \in Nat : \E f : Cuts(breaks, n, TailOf(CutAll(breaks)), m, f)
<1> DEFINE segments == CutAll(breaks).done
           f == [k \in 0 .. n |-> LineBegin(breaks, k)]
           Pairs == (1 .. Len(hlist) + 1) \X (1 .. Len(hlist) + 1)
           s == LineBegin(breaks, n)
           e == TrimTo(s, Len(hlist) + 1)
           b == Behind(breaks, n)
<1>0. LinesOK /\ Len(hlist) \in Nat /\ n \in 0 .. n /\ 0 \in 0 .. n
  BY DEF ListShape, LinesOK
<1>1. /\ segments \in Seq(Pairs) /\ Len(segments) = n
      /\ segments \in [1 .. n -> SegmentSet] /\ f \in [0 .. n -> 1 .. Len(hlist) + 1]
      /\ \A i \in 1 .. f[0] - 1 : Kind(i) # "char"
      /\ \A j \in 1 .. n :
           /\ segments[j][1] = f[j - 1] /\ f[j - 1] <= segments[j][2] /\ segments[j][2] <= f[j]
           /\ \A i \in segments[j][2] .. f[j] - 1 : Kind(i) # "char"
           /\ TextOf(segments[j]) = << >> => Kind(breaks[j]) = "forced"
  BY DoneCovers
<1>2. b \in 0 .. Len(hlist) /\ \A i \in b + 1 .. Len(hlist) : Kind(i) # "forced"
  <2>1. /\ breaks \in [1 .. n -> 1 .. Len(hlist)] /\ Increasing(breaks, n)
        /\ \A i \in 1 .. Len(hlist) : Kind(i) = "forced" => \E k \in 1 .. n : breaks[k] = i
    BY DEF BreaksOK
  <2>2. CASE n = 0
    BY <2>1, <2>2, <1>0 DEF Behind
  <2>3. CASE n # 0
    <3>1. n \in 1 .. n /\ b = breaks[n]
      BY <2>3 DEF Behind
    <3>2. b \in 1 .. Len(hlist)
      BY <2>1, <3>1
    <3> HIDE DEF b
    <3>3. ASSUME NEW i \in b + 1 .. Len(hlist), Kind(i) = "forced" PROVE FALSE
      <4>1. i \in 1 .. Len(hlist) /\ b < i
        BY <1>0, <3>2
      <4>2. PICK k \in 1 .. n : breaks[k] = i
        BY <2>1, <3>3, <4>1
      <4>3. k = n \/ k < n
        OBVIOUS
      <4>4. breaks[k] <= b
        <5>1. CASE k = n
          BY <5>1, <3>1, <3>2
        <5>2. CASE k < n
          <6>1. breaks[k] < breaks[n]
            BY <5>2, <2>1, <3>1 DEF Increasing
          <6> QED
            BY <6>1, <3>1, <3>2, <4>2
        <5> QED
          BY <4>3, <5>1, <5>2
      <4> QED
        BY <3>2, <4>1, <4>2, <4>4
    <3> QED
      BY <1>0, <3>2, <3>3
  <2> QED
    BY <2>2, <2>3
<1>3. s = skip_line_start(b + 1) /\ f[n] = s
  BY <1>0 DEF LineBegin
<1>4. CutAll(breaks).start = s
  BY CutsAre
<1> HIDE DEF b
<1>5. /\ s \in 1 .. Len(hlist) + 1 /\ e \in s .. Len(hlist) + 1
      /\ \A i \in e .. Len(hlist) : Kind(i) # "char"
      /\ s < e => TextOf(<<s, e>>) # << >>
  BY <1>2, <1>3, TailIs
<1>6. TailOf(CutAll(breaks)) = IF s < e THEN Append(segments, <<s, e>>) ELSE segments
  BY <1>4 DEF TailOf, WithTail
<1> HIDE DEF segments, f, s, e
<1>7. CASE ~ (s < e)
  <2>1. e = s
    BY <1>0, <1>5, <1>7
  <2>2. Covers(n, segments, f)
    BY <1>1, <1>3, <1>5, <2>1 DEF Covers
  <2>3. \A j \in Wordless(segments, n) : j \in 1 .. n /\ Kind(breaks[j]) = "forced"
    BY <1>1 DEF Wordless
  <2>4. Cuts(breaks, n, segments, n, f)
    BY <1>1, <2>2, <2>3 DEF Cuts
  <2> QED
    BY <1>6, <1>7, <2>4
<1>8. CASE s < e
  <2> DEFINE all == Append(segments, <<s, e>>)
             g == [k \in 0 .. n + 1 |-> IF k <= n THEN f[k] ELSE e]
  <2>1. n + 1 \in Nat /\ <<s, e>> \in SegmentSet /\ <<s, e>> \in Pairs /\ e \in 1 .. Len(hlist) + 1
    BY <1>0, <1>5, <1>8 DEF SegmentSet
  <2>2. /\ all \in Seq(Pairs) /\ Len(all) = n + 1 /\ all[n + 1] = <<s, e>>
        /\ \A j \in 1 .. n : all[j] = segments[j]
    BY <1>1, <2>1, AppendProperties
  <2>3. \A j \in 1 .. n + 1 : j = n + 1 \/ j \in 1 .. n
    OBVIOUS
  <2>4. /\ g \in [0 .. n + 1 -> 1 .. Len(hlist) + 1] /\ (\A k \in 0 .. n : g[k] = f[k]) /\ g[n + 1] = e
    BY <1>1, <2>1
  <2> HIDE DEF all, g
  <2>5. all \in [1 .. n + 1 -> SegmentSet]
    <3>1. \A j \in 1 .. n + 1 : all[j] \in SegmentSet
      BY <1>1, <2>1, <2>2, <2>3
    <3>2. all \in [1 .. n + 1 -> Pairs]
      BY <2>2, LenProperties
    <3> QED
      BY <3>1, <3>2
  <2>6. ASSUME NEW j \in 1 .. n + 1
        PROVE  /\ all[j][1] = g[j - 1] /\ g[j - 1] <= all[j][2] /\ all[j][2] <= g[j]
               /\ \A i \in all[j][2] .. g[j] - 1 : Kind(i) # "char"
    <3>1. CASE j \in 1 .. n
      <4>1. g[j - 1] = f[j - 1] /\ g[j] = f[j] /\ all[j] = segments[j]
        <5>1. j \in 0 .. n /\ j - 1 \in 0 .. n
          BY <3>1
        <5> QED
          BY <5>1, <3>1, <2>2, <2>4
      <4> QED
        BY <1>1, <3>1, <4>1
    <3>2. CASE j = n + 1
      <4>1. g[j - 1] = s /\ g[j] = e /\ all[j][1] = s /\ all[j][2] = e
        <5>1. j - 1 = n
          BY <3>2
        <5> QED
          BY <5>1, <3>2, <1>0, <1>3, <2>2, <2>4
      <4>2. e .. e - 1 = {} /\ s <= e /\ e <= e
        BY <1>0, <1>5, <1>8
      <4> QED
        BY <4>1, <4>2
    <3> QED
      BY <2>3, <3>1, <3>2
  <2>7. Covers(n + 1, all, g)
    <3>1. \A i \in 1 .. g[0] - 1 : Kind(i) # "char"
      BY <1>0, <1>1, <2>4
    <3> QED
      BY <1>5, <2>4, <2>6, <3>1 DEF Covers
  <2>8. \A j \in Wordless(all, n + 1) : j \in 1 .. n /\ Kind(breaks[j]) = "forced"
    <3>1. SUFFICES ASSUME NEW j \in 1 .. n + 1, TextOf(all[j]) = << >>
          PROVE  j \in 1 .. n /\ Kind(breaks[j]) = "forced"
      BY DEF Wordless
    <3>2. j # n + 1
      BY <1>5, <1>8, <2>2, <3>1
    <3>3. j \in 1 .. n /\ all[j] = segments[j]
      BY <2>2, <2>3, <3>2
    <3> QED
      BY <1>1, <3>1, <3>3
  <2>9. Cuts(breaks, n, all, n + 1, g)
    BY <2>5, <2>7, <2>8 DEF Cuts
  <2> QED
    BY <1>6, <1>8, <2>1, <2>9 DEF all
<1> QED
  BY <1>7, <1>8

-----------------------------------------------------------------------------
(* The breaks of a paragraph.                                              *)

(* What is chosen are candidates in their order.                           *)
LEMMA SolvedPath ==
  ASSUME NEW start, NEW candidates, NEW m,
         Measured(start, candidates, FALSE, m), Measured(start, candidates, TRUE, m)
  PROVE  m \in Nat \ {0} /\ solve_paragraph(start, candidates) \in Path(m)
<1>1. m \in Nat \ {0} /\ << >> \in Path(m)
  <2>1. m \in Nat \ {0}
    BY DEF Measured
  <2>2. << >> \in Seq(1 .. m - 1) /\ Len(<< >>) = 0 /\ Increasing(<< >>, 0)
    BY DEF Increasing
  <2> QED
    BY <2>1, <2>2 DEF Path
<1>2. ASSUME NEW overfull, Measured(start, candidates, overfull, m)
      PROVE  compute_best_path(start, candidates, overfull).from \in Path(m)
  <2> DEFINE w == compute_best_path(start, candidates, overfull)
  <2>1. BestTo(EdgeTable(start, candidates, overfull), m, w)
    BY <1>2, BestOfAll
  <2> HIDE DEF w
  <2>2. w.from \in Path(m)
    BY <1>1, <2>1 DEF BestTo
  <2> QED
    BY <2>2 DEF w
<1> QED
  BY <1>1, <1>2 DEF solve_paragraph, Prefer

(* Where a line is broken that is broken at an item.                       *)
BreakOf(i) == IF Kind(i) = "glue" THEN i - 1 ELSE i
BreakSpots(start, end) == {i \in start .. end - 1 : CanBreak(i, start)}

(* The candidates but the last break at the items where a line may be      *)
(* broken, in order.                                                       *)
LEMMA CollectIs ==
  ASSUME LinesOK, NEW start \in Nat \ {0}, NEW end \in Nat, start < end, end <= Len(hlist) + 1
  PROVE  \E n \in Nat : \E at \in [1 .. n -> BreakSpots(start, end)] :
           /\ Increasing(at, n) /\ Len(collect_candidates(start, end)) = n + 1
           /\ \A k \in 1 .. n : collect_candidates(start, end)[k].break_index = BreakOf(at[k])
<1> DEFINE S == {i \in start .. end - 1 : CanBreak(i, start)}
           breaks == Ascending(S)
           n == Cardinality(S)
           all == [k \in DOMAIN breaks |-> Candidate(breaks[k])]
<1>1. S \in SUBSET Int /\ IsFiniteSet(S)
  <2>1. S \subseteq start .. end - 1 /\ start \in Int /\ end - 1 \in Int /\ start .. end - 1 \subseteq Int
    OBVIOUS
  <2>2. IsFiniteSet(start .. end - 1)
    BY <2>1, FS_Interval
  <2> HIDE DEF S
  <2> QED
    BY <2>1, <2>2, FS_Subset
<1>2. n \in Nat /\ breaks \in [1 .. n -> S] /\ Increasing(breaks, n)
  <2> HIDE DEF S
  <2> QED
    BY <1>1, AscendingSorts
<1>3. collect_candidates(start, end) = Append(all, Terminal(end)) /\ BreakSpots(start, end) = S
  BY DEF collect_candidates, BreakSpots
<1>4. \A i \in S : Candidate(i).break_index = BreakOf(i)
  BY DEF Candidate, BreakOf
<1> HIDE DEF S, breaks, n
<1>5. all = [k \in 1 .. n |-> Candidate(breaks[k])]
  BY <1>2
<1> DEFINE T == {Candidate(i) : i \in S} \cup {Terminal(end)}
<1>6. all \in Seq(T) /\ Len(all) = n /\ \A k \in 1 .. n : all[k] = Candidate(breaks[k])
  <2>1. all \in [1 .. n -> T]
    BY <1>2, <1>5
  <2> QED
    BY <1>2, <1>5, <2>1
<1> HIDE DEF all
<1>7. Terminal(end) \in T
  OBVIOUS
<1> HIDE DEF T
<1>8. Len(Append(all, Terminal(end))) = n + 1 /\ \A k \in 1 .. n : Append(all, Terminal(end))[k] = all[k]
  BY <1>6, <1>7, AppendProperties
<1>9. \A k \in 1 .. n : collect_candidates(start, end)[k].break_index = BreakOf(breaks[k])
  BY <1>2, <1>3, <1>4, <1>6, <1>8
<1> QED
  BY <1>2, <1>3, <1>8, <1>9

(* Breaks at items are in the order of the items, within the paragraph.    *)
LEMMA BreakOfIs ==
  ASSUME LinesOK, NEW start \in Nat \ {0}, NEW end \in Nat, end <= Len(hlist) + 1
  PROVE  /\ \A i \in BreakSpots(start, end) : BreakOf(i) \in start .. end - 1 /\ BreakKind(BreakOf(i))
         /\ \A i, j \in BreakSpots(start, end) : i < j => BreakOf(i) < BreakOf(j)
<1>1. ASSUME NEW i \in BreakSpots(start, end)
      PROVE  /\ i \in start .. end - 1 /\ i \in Nat
             /\ \/ Kind(i) = "penalty" /\ BreakOf(i) = i
                \/ Kind(i) = "glue" /\ i > start /\ Kind(i - 1) = "char" /\ BreakOf(i) = i - 1
  BY DEF BreakSpots, CanBreak, BreakOf
<1>2. ASSUME NEW i \in BreakSpots(start, end)
      PROVE  BreakOf(i) \in start .. end - 1 /\ BreakKind(BreakOf(i))
  <2>1. CASE Kind(i) = "penalty" /\ BreakOf(i) = i
    BY <2>1, <1>1 DEF BreakKind
  <2>2. CASE Kind(i) = "glue" /\ i > start /\ Kind(i - 1) = "char" /\ BreakOf(i) = i - 1
    <3>1. (i - 1) + 1 = i /\ i - 1 \in start .. end - 1
      BY <2>2, <1>1
    <3> QED
      BY <2>2, <3>1 DEF BreakKind
  <2> QED
    BY <1>1, <2>1, <2>2
<1>3. ASSUME NEW i \in BreakSpots(start, end), NEW j \in BreakSpots(start, end), i < j
      PROVE  BreakOf(i) < BreakOf(j)
  <2>1. i \in Nat /\ j \in Nat /\ (BreakOf(i) = i \/ BreakOf(i) = i - 1)
    BY <1>1
  <2>2. CASE Kind(j) = "penalty" /\ BreakOf(j) = j
    BY <2>1, <2>2, <1>3
  <2>3. CASE Kind(j) = "glue" /\ j > start /\ Kind(j - 1) = "char" /\ BreakOf(j) = j - 1
    <3>1. CASE Kind(i) = "penalty" /\ BreakOf(i) = i
      <4>1. j - 1 # i
        BY <2>3, <3>1
      <4> QED
        BY <2>1, <2>3, <3>1, <4>1, <1>3
    <3>2. CASE BreakOf(i) = i - 1
      BY <2>1, <2>3, <3>2, <1>3
    <3> QED
      BY <1>1, <3>1, <3>2
  <2> QED
    BY <1>1, <2>2, <2>3
<1> QED
  BY <1>2, <1>3

(* The breaks of a paragraph are within it, in order, and where a line may *)
(* be broken.                                                              *)
LEMMA SolvedIs ==
  ASSUME LinesOK, NEW start \in Nat \ {0}, NEW end \in Nat, end <= Len(hlist) + 1
  PROVE  /\ Solved(<<start, end>>) \in Seq(start .. end - 1)
         /\ Increasing(Solved(<<start, end>>), Len(Solved(<<start, end>>)))
         /\ \A k \in 1 .. Len(Solved(<<start, end>>)) : BreakKind(Solved(<<start, end>>)[k])
<1>1. CASE start >= end
  <2>1. Solved(<<start, end>>) = << >>
    BY <1>1 DEF Solved
  <2>2. << >> \in Seq(start .. end - 1) /\ Len(<< >>) = 0 /\ 1 .. 0 = {} /\ Increasing(<< >>, 0)
    BY DEF Increasing
  <2> QED
    BY <2>1, <2>2
<1>2. CASE ~ (start >= end)
  <2> DEFINE candidates == collect_candidates(start, end)
             q == solve_paragraph(start, candidates)
             s == Solved(<<start, end>>)
             m == Len(q)
  <2>1. start < end
    BY <1>2
  <2>2. candidates \in Seq(Candidates(end)) /\ Len(candidates) > 0
    BY <2>1, CollectType
  <2>3. Measured(start, candidates, FALSE, Len(candidates)) /\ Measured(start, candidates, TRUE, Len(candidates))
    <3> HIDE DEF candidates
    <3> QED
      BY <2>2, CandidatesMeasured
  <2>4. q \in Path(Len(candidates))
    <3> HIDE DEF candidates
    <3> QED
      BY <2>3, SolvedPath
  <2>5. PICK n \in Nat : \E at \in [1 .. n -> BreakSpots(start, end)] :
          /\ Increasing(at, n) /\ Len(candidates) = n + 1
          /\ \A k \in 1 .. n : candidates[k].break_index = BreakOf(at[k])
    BY <2>1, CollectIs
  <2>6. PICK at \in [1 .. n -> BreakSpots(start, end)] :
          /\ Increasing(at, n) /\ Len(candidates) = n + 1
          /\ \A k \in 1 .. n : candidates[k].break_index = BreakOf(at[k])
    BY <2>5
  <2>7. s = [k \in DOMAIN q |-> candidates[q[k]].break_index]
    BY <1>2 DEF Solved, SolvedWith, BreaksAt
  <2> HIDE DEF candidates, q, s
  <2>8. q \in Seq(1 .. n) /\ Increasing(q, m) /\ m \in Nat /\ DOMAIN q = 1 .. m
    <3>1. q \in Seq(1 .. Len(candidates) - 1) /\ Increasing(q, Len(q))
      BY <2>4 DEF Path
    <3>2. 1 .. Len(candidates) - 1 = 1 .. n
      BY <2>6
    <3> QED
      BY <3>1, <3>2, LenProperties
  <2>9. \A k \in 1 .. m : q[k] \in 1 .. n /\ at[q[k]] \in BreakSpots(start, end)
    BY <2>8
  <2> HIDE DEF m
  <2>10. s = [k \in 1 .. m |-> BreakOf(at[q[k]])]
    <3>1. \A k \in 1 .. m : candidates[q[k]].break_index = BreakOf(at[q[k]])
      BY <2>6, <2>9
    <3> QED
      BY <2>7, <2>8, <3>1
  <2>11. /\ \A i \in BreakSpots(start, end) : BreakOf(i) \in start .. end - 1 /\ BreakKind(BreakOf(i))
         /\ \A i, j \in BreakSpots(start, end) : i < j => BreakOf(i) < BreakOf(j)
    BY BreakOfIs
  <2>12. s \in [1 .. m -> start .. end - 1] /\ \A k \in 1 .. m : BreakKind(s[k])
    BY <2>9, <2>10, <2>11
  <2>13. s \in Seq(start .. end - 1) /\ Len(s) = m
    BY <2>8, <2>12
  <2>14. ASSUME NEW i \in 1 .. m, NEW j \in 1 .. m, i < j PROVE s[i] < s[j]
    <3>1. q[i] < q[j] /\ q[i] \in 1 .. n /\ q[j] \in 1 .. n
      BY <2>8, <2>9, <2>14 DEF Increasing
    <3>2. at[q[i]] < at[q[j]]
      BY <2>6, <3>1 DEF Increasing
    <3> QED
      BY <2>9, <2>10, <2>11, <3>2
  <2>15. Increasing(s, m)
    BY <2>14 DEF Increasing
  <2> QED
    BY <2>12, <2>13, <2>15 DEF s
<1> QED
  BY <1>1, <1>2

-----------------------------------------------------------------------------
(* The breaks of all paragraphs.                                           *)

(* Every paragraph ends at a forced break, and the last behind the list.   *)
EndsOK(ends, n) ==
  /\ n \in Nat \ {0} /\ ends \in [1 .. n -> 1 .. Len(hlist) + 1] /\ Increasing(ends, n)
  /\ DOMAIN ForcedBreaks = 1 .. n - 1
  /\ \A j \in 1 .. n - 1 :
       ends[j] \in 1 .. Len(hlist) /\ Kind(ends[j]) = "forced" /\ ForcedBreaks[j] = ends[j]
  /\ ends[n] = Len(hlist) + 1
  /\ \A i \in 1 .. Len(hlist) : Kind(i) = "forced" => \E j \in 1 .. n - 1 : ends[j] = i

(* Where the paragraph behind the k-th of them begins.                     *)
First(ends, k) == IF k = 0 THEN 1 ELSE advance_line_start(ends[k] + 1)

(* The forced breaks and the end of the list are such ends.                *)
LEMMA EndsAre ==
  ASSUME LinesOK
  PROVE  /\ EndsOK(Append(ForcedBreaks, Len(hlist) + 1), Len(ForcedBreaks) + 1)
         /\ Len(ForcedBreaks) = Cardinality({i \in DOMAIN hlist : Kind(i) = "forced"})
         /\ IsFiniteSet({i \in DOMAIN hlist : Kind(i) = "forced"})
<1> DEFINE S == {i \in DOMAIN hlist : Kind(i) = "forced"}
           m == Cardinality(S)
           a == ForcedBreaks
           ends == Append(a, Len(hlist) + 1)
<1>1. Len(hlist) \in Nat /\ DOMAIN hlist = 1 .. Len(hlist)
  BY DEF LinesOK
<1>2. S \in SUBSET Int /\ IsFiniteSet(S) /\ S \subseteq 1 .. Len(hlist)
  <2>1. S \subseteq 1 .. Len(hlist) /\ 1 \in Int /\ Len(hlist) \in Int /\ 1 .. Len(hlist) \subseteq Int
    BY <1>1
  <2>2. IsFiniteSet(1 .. Len(hlist))
    BY <2>1, FS_Interval
  <2> HIDE DEF S
  <2> QED
    BY <2>1, <2>2, FS_Subset
<1>3. a = Ascending(S)
  BY DEF ForcedBreaks
<1>4. /\ \A i \in S : Kind(i) = "forced"
      /\ \A i \in 1 .. Len(hlist) : Kind(i) = "forced" => i \in S
  BY <1>1
<1> HIDE DEF S, a
<1>5. /\ m \in Nat /\ a \in [1 .. m -> S] /\ a \in Seq(S) /\ Len(a) = m /\ Increasing(a, m)
      /\ \A x \in S : \E k \in 1 .. m : a[k] = x
  BY <1>2, <1>3, AscendingSorts
<1> HIDE DEF m
<1>6. a \in Seq(1 .. Len(hlist) + 1) /\ Len(hlist) + 1 \in 1 .. Len(hlist) + 1
  <2>1. S \subseteq 1 .. Len(hlist) + 1 /\ Len(hlist) + 1 \in 1 .. Len(hlist) + 1
    BY <1>1, <1>2
  <2> QED
    BY <2>1, <1>5, SeqMonotonic
<1>7. /\ ends \in Seq(1 .. Len(hlist) + 1) /\ Len(ends) = m + 1 /\ ends[m + 1] = Len(hlist) + 1
      /\ \A j \in 1 .. m : ends[j] = a[j]
  BY <1>5, <1>6, AppendProperties
<1> HIDE DEF ends
<1>8. ends \in [1 .. m + 1 -> 1 .. Len(hlist) + 1]
  BY <1>7, LenProperties
<1>9. /\ \A j \in 1 .. m : ends[j] \in 1 .. Len(hlist) /\ Kind(ends[j]) = "forced" /\ a[j] = ends[j]
      /\ \A i \in 1 .. Len(hlist) : Kind(i) = "forced" => \E j \in 1 .. m : ends[j] = i
  BY <1>2, <1>4, <1>5, <1>7
<1>10. Increasing(ends, m + 1)
  <2>1. SUFFICES ASSUME NEW i \in 1 .. m + 1, NEW j \in 1 .. m + 1, i < j PROVE ends[i] < ends[j]
    BY DEF Increasing
  <2>2. i \in 1 .. m /\ (j \in 1 .. m \/ j = m + 1)
    BY <1>5, <2>1
  <2>3. CASE j \in 1 .. m
    BY <1>5, <1>7, <2>1, <2>2, <2>3 DEF Increasing
  <2>4. CASE j = m + 1
    <3>1. ends[i] \in 1 .. Len(hlist) /\ ends[j] = Len(hlist) + 1
      BY <1>7, <1>9, <2>2, <2>4
    <3> QED
      BY <1>1, <3>1
  <2> QED
    BY <2>2, <2>3, <2>4
<1>11. m + 1 \in Nat \ {0} /\ (m + 1) - 1 = m /\ DOMAIN a = 1 .. m
  BY <1>5
<1>12. EndsOK(ends, m + 1)
  BY <1>7, <1>8, <1>9, <1>10, <1>11 DEF EndsOK, a
<1> QED
  BY <1>2, <1>5, <1>12 DEF S, a, m, ends

(* The paragraphs between these ends.                                      *)
LEMMA ParagraphsAre ==
  ASSUME LinesOK, NEW n, NEW ends, EndsOK(ends, n), ends = Append(ForcedBreaks, Len(hlist) + 1)
  PROVE  /\ DOMAIN Paragraphs = 1 .. n
         /\ \A j \in 1 .. n : Paragraphs[j] = <<First(ends, j - 1), TrimTo(First(ends, j - 1), ends[j])>>
<1>1. n \in Nat /\ ends \in [1 .. n -> 1 .. Len(hlist) + 1]
  BY DEF EndsOK
<1>2. PICK h \in [0 .. n -> DoneSet] :
        /\ h[0] = NoParagraphs /\ Done(ends) = h[n]
        /\ \A k \in 1 .. n : h[k] = AddParagraph(h[k - 1], ends[k])
  BY <1>1, ParagraphSteps
<1> DEFINE Good(k) ==
             /\ h[k].start = First(ends, k) /\ Len(h[k].all) = k
             /\ \A j \in 1 .. k :
                  h[k].all[j] = <<First(ends, j - 1), TrimTo(First(ends, j - 1), ends[j])>>
           S == {k \in 0 .. n : Good(k)}
<1>3. 0 \in S
  <2>1. h[0].start = 1 /\ h[0].all = << >> /\ Len(<< >>) = 0 /\ 0 \in 0 .. n
    BY <1>1, <1>2 DEF NoParagraphs
  <2> QED
    BY <2>1 DEF First
<1>4. ASSUME NEW k \in 1 .. n, k - 1 \in S PROVE k \in S
  <2> DEFINE old == h[k - 1]
             p == <<old.start, TrimTo(old.start, ends[k])>>
  <2>1. k \in 0 .. n /\ k - 1 \in 0 .. n /\ k # 0 /\ k \in Nat
    BY <1>1
  <2>2. old \in DoneSet /\ Good(k - 1)
    BY <1>2, <1>4, <2>1
  <2>3. h[k] = AddParagraph(old, ends[k])
    BY <1>2
  <2>4. h[k].start = advance_line_start(ends[k] + 1) /\ h[k].all = Append(old.all, p)
    <3>1. \A d, e : /\ AddParagraph(d, e).start = advance_line_start(e + 1)
                   /\ AddParagraph(d, e).all = Append(d.all, <<d.start, TrimTo(d.start, e)>>)
      BY DEF AddParagraph
    <3> HIDE DEF old
    <3>2. /\ AddParagraph(old, ends[k]).start = advance_line_start(ends[k] + 1)
          /\ AddParagraph(old, ends[k]).all = Append(old.all, p)
      BY ONLY <3>1
    <3> QED
      BY ONLY <2>3, <3>2
  <2>5. p = <<First(ends, k - 1), TrimTo(First(ends, k - 1), ends[k])>>
        /\ advance_line_start(ends[k] + 1) = First(ends, k)
    BY <2>1, <2>2 DEF First
  <2>6. /\ old.all \in Seq((1 .. Len(hlist) + 2) \X (1 .. Len(hlist) + 1)) /\ Len(old.all) = k - 1
        /\ \A j \in 1 .. k - 1 :
             old.all[j] = <<First(ends, j - 1), TrimTo(First(ends, j - 1), ends[j])>>
    BY <2>2 DEF DoneSet
  <2> HIDE DEF old, p
  <2>7. /\ Len(Append(old.all, p)) = k
        /\ \A j \in 1 .. k : Append(old.all, p)[j] = IF j = k THEN p ELSE old.all[j]
    BY <2>6
  <2>8. Good(k)
    <3>1. h[k].start = First(ends, k) /\ Len(h[k].all) = k
      BY <2>4, <2>5, <2>7
    <3>2. \A j \in 1 .. k : h[k].all[j] = <<First(ends, j - 1), TrimTo(First(ends, j - 1), ends[j])>>
      <4>1. SUFFICES ASSUME NEW j \in 1 .. k
            PROVE h[k].all[j] = <<First(ends, j - 1), TrimTo(First(ends, j - 1), ends[j])>>
        OBVIOUS
      <4>2. j = k \/ j \in 1 .. k - 1
        BY <2>1
      <4> QED
        BY <2>4, <2>5, <2>6, <2>7, <4>2
    <3> QED
      BY <3>1, <3>2
  <2> QED
    BY <2>1, <2>8
<1> HIDE DEF S
<1>5. n \in S
  <2>1. \A k \in 0 .. n : k \in S
    BY <1>1, <1>3, <1>4, InductUpTo
  <2>2. n \in 0 .. n
    BY <1>1
  <2> QED
    BY <2>1, <2>2
<1>6. Good(n) /\ h[n] \in DoneSet /\ Done(ends) = h[n]
  <2>1. n \in 0 .. n
    BY <1>1
  <2> QED
    BY <2>1, <1>2, <1>5 DEF S
<1>7. Paragraphs = h[n].all
  BY <1>2 DEF Paragraphs, Done, AddParagraph, NoParagraphs
<1>8. DOMAIN Paragraphs = 1 .. n
  <2>1. h[n].all \in Seq((1 .. Len(hlist) + 2) \X (1 .. Len(hlist) + 1)) /\ Len(h[n].all) = n
    BY <1>6 DEF DoneSet
  <2> QED
    BY <2>1, <1>7, LenProperties
<1> QED
  BY <1>6, <1>7, <1>8

(* A paragraph begins behind the one before it and ends at its end at the  *)
(* latest, so its breaks lie between the two.                              *)
LEMMA ParagraphIs ==
  ASSUME LinesOK, NEW n, NEW ends, EndsOK(ends, n), NEW j \in 1 .. n,
         NEW start, start = First(ends, j - 1), NEW end, end = TrimTo(start, ends[j])
  PROVE  /\ start \in Nat \ {0} /\ end \in Nat /\ end <= Len(hlist) + 1
         /\ Behind(ends, j - 1) < start /\ end <= ends[j]
<1>1. /\ n \in Nat \ {0} /\ ends \in [1 .. n -> 1 .. Len(hlist) + 1] /\ Increasing(ends, n)
      /\ \A k \in 1 .. n - 1 : ends[k] \in 1 .. Len(hlist) /\ Kind(ends[k]) = "forced"
      /\ ends[n] = Len(hlist) + 1
  BY DEF EndsOK
<1>2. Len(hlist) \in Nat /\ ends[j] \in 1 .. Len(hlist) + 1
  BY <1>1 DEF LinesOK
<1>3. Kind(ends[j]) # "glue"
  <2>1. CASE j = n
    <3>1. Len(hlist) + 1 \in Int /\ Len(hlist) + 1 \notin 1 .. Len(hlist)
      BY <1>2
    <3> QED
      BY <1>1, <2>1, <3>1, KindIs
  <2>2. CASE j # n
    <3>1. j \in 1 .. n - 1
      BY <1>1, <2>2
    <3> QED
      BY <1>1, <3>1
  <2> QED
    BY <2>1, <2>2
<1>4. start \in Nat \ {0} /\ Behind(ends, j - 1) < start /\ start <= ends[j]
  <2>1. CASE j = 1
    <3>1. j - 1 = 0 /\ Behind(ends, 0) = 0 /\ First(ends, 0) = 1
      BY <2>1 DEF Behind, First
    <3> QED
      BY <1>2, <3>1
  <2>2. CASE j # 1
    <3> DEFINE b == ends[j - 1]
    <3>1. j - 1 \in 1 .. n - 1 /\ j - 1 \in 1 .. n /\ j - 1 # 0 /\ j - 1 < j
      BY <1>1, <2>2
    <3>2. Behind(ends, j - 1) = b /\ start = SkipFrom(b + 1, {"glue"})
      BY <3>1 DEF Behind, First, advance_line_start
    <3>3. b \in 1 .. Len(hlist) /\ b < ends[j]
      BY <1>1, <3>1 DEF Increasing
    <3> HIDE DEF b
    <3>4. b + 1 \in 1 .. Len(hlist) + 1
      BY <1>2, <3>3
    <3>5. start \in b + 1 .. Len(hlist) + 1 /\ \A k \in b + 1 .. start - 1 : Kind(k) \in {"glue"}
      <4>1. "none" \notin {"glue"}
        OBVIOUS
      <4> QED
        BY <3>2, <3>4, <4>1, SkipWithin
    <3>6. start <= ends[j]
      <4>1. SUFFICES ASSUME ~ (start <= ends[j]) PROVE FALSE
        OBVIOUS
      <4>2. ends[j] \in b + 1 .. start - 1
        BY <1>2, <3>3, <3>5, <4>1
      <4> QED
        BY <1>3, <3>5, <4>2
    <3> QED
      BY <1>2, <3>2, <3>3, <3>5, <3>6
  <2> QED
    BY <2>1, <2>2
<1>5. end \in start .. ends[j]
  <2> DEFINE e == ends[j]
  <2>1. LinesOK /\ start \in Nat \ {0} /\ e \in 1 .. Len(hlist) + 1 /\ start <= e
    BY <1>2, <1>4
  <2> HIDE DEF e
  <2>2. TrimTo(start, e) \in start .. e
    BY <2>1, Trims
  <2> QED
    BY <2>2 DEF e
<1> QED
  BY <1>2, <1>4, <1>5

(* The breaks of a paragraph and the forced break behind it.               *)
Part(j) == Solved(Paragraphs[j]) \o IF j \in DOMAIN ForcedBreaks THEN <<ForcedBreaks[j]>> ELSE << >>

(* Breaks in their order, up to a place.                                   *)
InOrder(breaks, end) ==
  /\ breaks \in Seq(1 .. Len(hlist)) /\ Increasing(breaks, Len(breaks))
  /\ \A k \in 1 .. Len(breaks) : BreakKind(breaks[k]) /\ breaks[k] <= end

(* One part is in order, behind the paragraph before it.                   *)
LEMMA PartIs ==
  ASSUME LinesOK, NEW n, NEW ends, EndsOK(ends, n), ends = Append(ForcedBreaks, Len(hlist) + 1),
         NEW j \in 1 .. n
  PROVE  /\ InOrder(Part(j), ends[j])
         /\ \A k \in 1 .. Len(Part(j)) : Behind(ends, j - 1) < Part(j)[k]
         /\ j # n => \E k \in 1 .. Len(Part(j)) : Part(j)[k] = ends[j]
<1> DEFINE S == 1 .. Len(hlist)
           start == First(ends, j - 1)
           end == TrimTo(start, ends[j])
           s == Solved(<<start, end>>)
           b == Behind(ends, j - 1)
           e == ends[j]
<1>1. /\ n \in Nat \ {0} /\ ends \in [1 .. n -> 1 .. Len(hlist) + 1] /\ Len(hlist) \in Nat
      /\ \A k \in 1 .. n - 1 : ends[k] \in 1 .. Len(hlist) /\ Kind(ends[k]) = "forced" /\ ForcedBreaks[k] = ends[k]
      /\ DOMAIN ForcedBreaks = 1 .. n - 1
  <2>1. Len(hlist) \in Nat
    BY DEF LinesOK
  <2> QED
    BY <2>1 DEF EndsOK
<1>2. Paragraphs[j] = <<start, end>>
  BY ParagraphsAre
<1>3. /\ start \in Nat \ {0} /\ end \in Nat /\ end <= Len(hlist) + 1
      /\ b < start /\ end <= e
  BY ParagraphIs
<1>4. e \in 1 .. Len(hlist) + 1 /\ S \in SUBSET Int
  BY <1>1
<1>5. Part(j) = s \o IF j \in 1 .. n - 1 THEN <<e>> ELSE << >>
  <2>1. j \in 1 .. n - 1 => ForcedBreaks[j] = e
    BY <1>1
  <2> QED
    BY <1>1, <1>2, <2>1 DEF Part
<1>6. b \in Nat /\ b < e
  <2>1. CASE j - 1 = 0
    BY <1>4, <2>1 DEF Behind
  <2>2. CASE j - 1 # 0
    <3>1. j - 1 \in 1 .. n /\ j - 1 < j
      BY <1>1, <2>2
    <3>2. ends[j - 1] < ends[j]
      BY <3>1 DEF EndsOK, Increasing
    <3>3. b = ends[j - 1] /\ ends[j - 1] \in 1 .. Len(hlist) + 1
      BY <1>1, <2>2, <3>1 DEF Behind
    <3> DEFINE x == ends[j - 1]
    <3>4. b = x /\ x < e /\ x \in 1 .. Len(hlist) + 1 /\ Len(hlist) \in Nat
      BY <1>1, <3>2, <3>3
    <3> HIDE DEF b, x
    <3> QED
      BY ONLY <3>4
  <2> QED
    BY <2>1, <2>2
<1> HIDE DEF start, end, b
<1>7. s \in Seq(start .. end - 1) /\ Increasing(s, Len(s)) /\ \A k \in 1 .. Len(s) : BreakKind(s[k])
  BY <1>3, SolvedIs
<1> HIDE DEF s
<1>8. start .. end - 1 \subseteq S /\ \A x \in start .. end - 1 : b < x /\ x < e
  <2>1. start .. end - 1 \subseteq S
    BY <1>1, <1>3
  <2>2. ASSUME NEW x \in start .. end - 1 PROVE b < x /\ x < e
    <3> HIDE DEF e
    <3> QED
      BY <1>1, <1>3, <1>4, <1>6, <2>2
  <2> QED
    BY <2>1, <2>2
<1>9. s \in Seq(S) /\ Len(s) \in Nat /\ \A k \in 1 .. Len(s) : s[k] \in start .. end - 1
  <2>1. s \in Seq(S)
    BY <1>7, <1>8, SeqMonotonic
  <2> QED
    BY <2>1, <1>7, LenProperties, ElementOfSeq
<1> HIDE DEF S, e
<1>10. \A k \in 1 .. Len(s) : b < s[k] /\ s[k] < e /\ BreakKind(s[k])
  BY <1>7, <1>8, <1>9
<1>11. CASE j \notin 1 .. n - 1
  <2>1. Part(j) = s /\ j = n
    <3>1. s \o << >> = s /\ j = n
      BY <1>1, <1>9, <1>11, ConcatEmptySeq
    <3>2. Part(j) = s \o << >>
      BY <1>5, <1>11
    <3> QED
      BY <3>1, <3>2
  <2>2. \A k \in 1 .. Len(s) : BreakKind(s[k]) /\ s[k] <= e
    <3>1. \A k \in 1 .. Len(s) : s[k] \in Int
      BY <1>3, <1>9
    <3> QED
      BY <1>4, <1>10, <3>1
  <2>3. InOrder(s, e)
    BY <1>7, <1>9, <2>2 DEF InOrder, S
  <2> QED
    BY <1>10, <2>1, <2>3 DEF b, e
<1>12. CASE j \in 1 .. n - 1
  <2> DEFINE f == <<e>>
             p == s \o f
  <2>1. e \in S /\ Kind(e) = "forced"
    BY <1>1, <1>12 DEF e, S
  <2>2. f \in Seq(S) /\ Len(f) = 1 /\ f[1] = e
    BY <2>1
  <2> HIDE DEF f
  <2>3. Increasing(f, Len(f)) /\ \A i \in 1 .. Len(s) : \A k \in 1 .. Len(f) : s[i] < f[k]
    BY <1>10, <2>2 DEF Increasing
  <2>4. /\ p \in Seq(S) /\ Increasing(p, Len(p)) /\ Len(p) = Len(s) + Len(f)
        /\ \A i \in 1 .. Len(p) : p[i] = IF i <= Len(s) THEN s[i] ELSE f[i - Len(s)]
    BY <1>4, <1>7, <1>9, <2>2, <2>3, IncreasingJoin
  <2>5. Part(j) = p
    BY <1>5, <1>12 DEF f
  <2> HIDE DEF p
  <2>6. Len(p) = Len(s) + 1 /\ Len(s) + 1 \in 1 .. Len(p) /\ p[Len(s) + 1] = e
    <3>1. Len(p) = Len(s) + 1 /\ Len(s) + 1 \in 1 .. Len(p) /\ ~ (Len(s) + 1 <= Len(s))
          /\ (Len(s) + 1) - Len(s) = 1
      BY <1>9, <2>2, <2>4
    <3> QED
      BY <2>2, <2>4, <3>1
  <2>7. \A k \in 1 .. Len(p) : BreakKind(p[k]) /\ p[k] <= e /\ b < p[k]
    <3>1. SUFFICES ASSUME NEW k \in 1 .. Len(p) PROVE BreakKind(p[k]) /\ p[k] <= e /\ b < p[k]
      OBVIOUS
    <3>2. k \in 1 .. Len(s) \/ k = Len(s) + 1
      BY <1>9, <2>6
    <3>3. CASE k \in 1 .. Len(s)
      <4>1. p[k] = s[k] /\ s[k] \in Int
        <5>1. k <= Len(s) /\ s[k] \in Int
          BY <1>3, <1>9, <3>3
        <5> QED
          BY <2>4, <5>1
      <4> QED
        BY <1>4, <1>10, <3>3, <4>1
    <3>4. CASE k = Len(s) + 1
      <4>1. p[k] = e /\ BreakKind(e) /\ e <= e
        BY <1>4, <2>1, <2>6, <3>4 DEF BreakKind
      <4>2. b < e
        BY <1>6
      <4> QED
        BY <4>1, <4>2
    <3> QED
      BY <3>2, <3>3, <3>4
  <2>8. InOrder(p, e)
    BY <2>4, <2>7 DEF InOrder, S
  <2> QED
    BY <2>5, <2>6, <2>7, <2>8 DEF b, e
<1> QED
  BY <1>11, <1>12

(* What is behind a place, and what has every break of another list.       *)
After(breaks, place) == \A k \in 1 .. Len(breaks) : place < breaks[k]
HasAll(breaks, more) == \A k \in 1 .. Len(breaks) : \E i \in 1 .. Len(more) : more[i] = breaks[k]

(* The breaks of the first paragraphs and one more.                        *)
LEMMA OrderJoin ==
  ASSUME LinesOK, NEW a, NEW p, NEW b \in 0 .. Len(hlist) + 1, NEW e \in 1 .. Len(hlist) + 1,
         InOrder(a, b), InOrder(p, e), b < e, After(p, b)
  PROVE  InOrder(a \o p, e) /\ HasAll(a, a \o p) /\ HasAll(p, a \o p)
<1> DEFINE S == 1 .. Len(hlist)
           c == a \o p
           n == Len(a)
           m == Len(p)
<1>1. Len(hlist) \in Nat /\ S \in SUBSET Int /\ b \in Int /\ e \in Int
  BY DEF LinesOK
<1>2. /\ a \in Seq(S) /\ Increasing(a, n) /\ n \in Nat
      /\ \A k \in 1 .. n : BreakKind(a[k]) /\ a[k] <= b /\ a[k] \in Int
  <2>1. a \in Seq(S) /\ Increasing(a, n) /\ \A k \in 1 .. n : BreakKind(a[k]) /\ a[k] <= b
    BY DEF InOrder
  <2>2. n \in Nat /\ \A k \in 1 .. n : a[k] \in S
    BY <2>1, LenProperties, ElementOfSeq
  <2> QED
    BY <1>1, <2>1, <2>2
<1>3. /\ p \in Seq(S) /\ Increasing(p, m) /\ m \in Nat
      /\ \A k \in 1 .. m : BreakKind(p[k]) /\ p[k] <= e /\ b < p[k] /\ p[k] \in Int
  <2>1. p \in Seq(S) /\ Increasing(p, m) /\ \A k \in 1 .. m : BreakKind(p[k]) /\ p[k] <= e
    BY DEF InOrder
  <2>3. \A k \in 1 .. m : b < p[k]
    BY DEF After
  <2>2. m \in Nat /\ \A k \in 1 .. m : p[k] \in S
    BY <2>1, LenProperties, ElementOfSeq
  <2> QED
    BY <1>1, <2>1, <2>2, <2>3
<1>4. \A i \in 1 .. n : \A j \in 1 .. m : a[i] < p[j]
  BY <1>1, <1>2, <1>3
<1> HIDE DEF S
<1>5. /\ c \in Seq(S) /\ Increasing(c, Len(c)) /\ Len(c) = n + m
      /\ \A i \in 1 .. Len(c) : c[i] = IF i <= n THEN a[i] ELSE p[i - n]
  BY <1>1, <1>2, <1>3, <1>4, IncreasingJoin
<1> HIDE DEF c, n, m
<1>6. \A i \in 1 .. n : i \in 1 .. Len(c) /\ c[i] = a[i]
  BY <1>2, <1>3, <1>5
<1>7. \A i \in 1 .. m : n + i \in 1 .. Len(c) /\ c[n + i] = p[i]
  <2>1. \A i \in 1 .. m : n + i \in 1 .. n + m /\ ~ (n + i <= n) /\ (n + i) - n = i
    BY <1>2, <1>3
  <2> QED
    BY <1>5, <2>1
<1>8. ASSUME NEW k \in 1 .. Len(c) PROVE BreakKind(c[k]) /\ c[k] <= e
  <2>1. CASE k <= n
    <3>1. k \in 1 .. n
      BY <1>2, <1>3, <1>5, <1>8, <2>1
    <3>2. c[k] = a[k]
      BY <1>6, <3>1
    <3> QED
      BY <1>1, <1>2, <3>1, <3>2
  <2>2. CASE ~ (k <= n)
    <3>1. k - n \in 1 .. m /\ c[k] = p[k - n]
      BY <1>2, <1>3, <1>5, <1>8, <2>2
    <3> QED
      BY <1>3, <3>1
  <2> QED
    BY <2>1, <2>2
<1>9. InOrder(c, e)
  BY <1>5, <1>8 DEF InOrder, S
<1>10. HasAll(a, c) /\ HasAll(p, c)
  BY <1>6, <1>7 DEF HasAll, n, m
<1> QED
  BY <1>9, <1>10 DEF c

(* find_breakpoints (knuth_plass.rs): where lines may be broken, in their  *)
(* order, with every forced break.                                         *)
LEMMA BreakpointsAre ==
  ASSUME LinesOK
  PROVE  BreaksOK(find_breakpoints, Len(find_breakpoints)) /\ Len(find_breakpoints) \in Nat
<1> DEFINE n == Len(ForcedBreaks) + 1
           ends == Append(ForcedBreaks, Len(hlist) + 1)
           T == 1 .. Len(hlist)
           parts == [j \in 1 .. n |-> Part(j)]
<1>1. EndsOK(ends, n)
  BY EndsAre
<1>2. /\ \A j \in 1 .. n : InOrder(Part(j), ends[j]) /\ After(Part(j), Behind(ends, j - 1))
      /\ \A j \in 1 .. n : j # n => \E k \in 1 .. Len(Part(j)) : Part(j)[k] = ends[j]
  <2>1. LinesOK /\ EndsOK(ends, n) /\ ends = Append(ForcedBreaks, Len(hlist) + 1)
    BY <1>1
  <2> HIDE DEF n, ends
  <2>2. ASSUME NEW j \in 1 .. n
        PROVE  /\ InOrder(Part(j), ends[j])
               /\ \A k \in 1 .. Len(Part(j)) : Behind(ends, j - 1) < Part(j)[k]
               /\ j # n => \E k \in 1 .. Len(Part(j)) : Part(j)[k] = ends[j]
    BY ONLY <2>1, <2>2, PartIs
  <2> QED
    BY <2>2 DEF After
<1>3. find_breakpoints = FlattenSeq(parts)
  <2>1. DOMAIN Paragraphs = 1 .. n
    <3> HIDE DEF n
    <3> QED
      BY <1>1, ParagraphsAre
  <2> QED
    BY <2>1 DEF find_breakpoints, Interleaved, Part
<1> HIDE DEF n, ends
<1>4. /\ n \in Nat \ {0} /\ ends \in [1 .. n -> 1 .. Len(hlist) + 1] /\ Increasing(ends, n)
      /\ ends[n] = Len(hlist) + 1
      /\ \A i \in 1 .. Len(hlist) : Kind(i) = "forced" => \E j \in 1 .. n - 1 : ends[j] = i
  BY <1>1 DEF EndsOK
<1>5. parts \in [1 .. n -> Seq(T)] /\ \A j \in 1 .. n : parts[j] = Part(j)
  BY <1>2 DEF InOrder
<1> HIDE DEF parts
<1>6. PICK h \in [0 .. n -> Seq(T)] : Flattens(h, parts, n)
  BY <1>4, <1>5, FlattenHistory
<1> DEFINE Good(k) ==
             /\ InOrder(h[k], Behind(ends, k))
             /\ \A j \in 1 .. k : j # n => \E i \in 1 .. Len(h[k]) : h[k][i] = ends[j]
           S == {k \in 0 .. n : Good(k)}
<1>7. 0 \in S
  <2>1. h[0] = << >> /\ Len(<< >>) = 0 /\ 0 \in 0 .. n
    BY <1>4, <1>6 DEF Flattens
  <2>2. InOrder(<< >>, Behind(ends, 0))
    BY <2>1 DEF InOrder, Increasing
  <2> QED
    BY <2>1, <2>2
<1>8. ASSUME NEW k \in 1 .. n, k - 1 \in S PROVE k \in S
  <2> DEFINE a == h[k - 1]
             p == Part(k)
             b == Behind(ends, k - 1)
             e == ends[k]
  <2>1. k \in 0 .. n /\ k # 0 /\ k \in Nat
    BY <1>4
  <2>2. Good(k - 1)
    BY <1>8
  <2>3. h[k] = a \o p /\ Behind(ends, k) = e
    BY <1>5, <1>6, <2>1 DEF Flattens, Behind
  <2>4. e \in 1 .. Len(hlist) + 1 /\ b \in 0 .. Len(hlist) + 1 /\ b < e
    <3>1. e \in 1 .. Len(hlist) + 1 /\ Len(hlist) \in Nat
      BY <1>4 DEF LinesOK
    <3>2. CASE k - 1 = 0
      <4>1. b = 0
        BY <3>2 DEF Behind
      <4> HIDE DEF b, e
      <4> QED
        BY <3>1, <4>1
    <3>3. CASE k - 1 # 0
      <4>1. k - 1 \in 1 .. n /\ k - 1 < k
        BY <1>4, <3>3
      <4>2. b = ends[k - 1] /\ ends[k - 1] < e /\ ends[k - 1] \in 1 .. Len(hlist) + 1
        BY <1>4, <3>3, <4>1 DEF Behind, Increasing
      <4> HIDE DEF b, e
      <4> QED
        BY <3>1, <4>2
    <3> QED
      BY <3>2, <3>3
  <2>5. InOrder(a, b) /\ InOrder(p, e) /\ After(p, b)
        /\ (k # n => \E i \in 1 .. Len(p) : p[i] = e)
    BY <1>2, <2>2
  <2>6. \A j \in 1 .. k - 1 : j # n => \E i \in 1 .. Len(a) : a[i] = ends[j]
    BY <2>2
  <2> HIDE DEF a, p, b
  <2>7. InOrder(a \o p, e) /\ HasAll(a, a \o p) /\ HasAll(p, a \o p)
    <3> HIDE DEF e
    <3>1. /\ LinesOK /\ b \in 0 .. Len(hlist) + 1 /\ e \in 1 .. Len(hlist) + 1
          /\ InOrder(a, b) /\ InOrder(p, e) /\ b < e /\ After(p, b)
      BY <2>4, <2>5
    <3> QED
      BY ONLY <3>1, OrderJoin
  <2>8. \A j \in 1 .. k : j # n => \E i \in 1 .. Len(a \o p) : (a \o p)[i] = ends[j]
    <3>1. SUFFICES ASSUME NEW j \in 1 .. k, j # n
          PROVE \E i \in 1 .. Len(a \o p) : (a \o p)[i] = ends[j]
      OBVIOUS
    <3>2. j \in 1 .. k - 1 \/ j = k
      BY <2>1
    <3>3. CASE j \in 1 .. k - 1
      BY <2>6, <2>7, <3>1, <3>3 DEF HasAll
    <3>4. CASE j = k
      BY <2>5, <2>7, <3>1, <3>4 DEF HasAll
    <3> QED
      BY <3>2, <3>3, <3>4
  <2>9. Good(k)
    BY <2>3, <2>7, <2>8
  <2> QED
    BY <2>1, <2>9
<1> HIDE DEF S
<1>9. n \in 0 .. n /\ n # 0 /\ n \in S
  <2>1. n \in Nat /\ n \in 0 .. n /\ n # 0
    BY <1>4
  <2>2. \A k \in 0 .. n : k \in S
    BY <1>7, <1>8, <2>1, InductUpTo
  <2> QED
    BY <2>1, <2>2
<1>10. Good(n) /\ h[n] = find_breakpoints
  BY <1>3, <1>6, <1>9 DEF S, Flattens
<1> DEFINE breaks == find_breakpoints
<1>11. /\ InOrder(breaks, ends[n])
       /\ \A j \in 1 .. n - 1 : \E i \in 1 .. Len(breaks) : breaks[i] = ends[j]
  <2>1. \A j \in 1 .. n - 1 : j \in 1 .. n /\ j # n
    BY <1>4
  <2> QED
    BY <1>9, <1>10, <2>1 DEF Behind
<1> HIDE DEF breaks
<1>12. /\ breaks \in Seq(T) /\ Increasing(breaks, Len(breaks))
       /\ \A k \in 1 .. Len(breaks) : BreakKind(breaks[k])
  BY <1>11 DEF InOrder
<1>13. breaks \in [1 .. Len(breaks) -> 1 .. Len(hlist)] /\ Len(breaks) \in Nat
  BY <1>12, LenProperties
<1>14. \A i \in 1 .. Len(hlist) : Kind(i) = "forced" => \E k \in 1 .. Len(breaks) : breaks[k] = i
  BY <1>4, <1>11
<1>15. BreaksOK(breaks, Len(breaks)) /\ Len(breaks) \in Nat
  BY <1>12, <1>13, <1>14 DEF BreaksOK
<1> QED
  BY <1>15 DEF breaks

(* Segments (line_breaker.rs): they cover the list, and those without      *)
(* letters end at forced breaks.                                           *)
LEMMA SegmentsCover ==
  ASSUME ListShape
  PROVE  \E m \in Nat : \E f :
           /\ Segments \in [1 .. m -> SegmentSet] /\ Covers(m, Segments, f)
           /\ Cardinality(Wordless(Segments, m)) <= Len(ForcedBreaks)
<1> DEFINE breaks == find_breakpoints
           n == Len(breaks)
           all == Segments
           S == {i \in DOMAIN hlist : Kind(i) = "forced"}
<1>1. LinesOK /\ DOMAIN hlist = 1 .. Len(hlist)
  BY DEF ListShape, LinesOK
<1>2. BreaksOK(breaks, n) /\ n \in Nat
  BY <1>1, BreakpointsAre
<1>3. all = TailOf(CutAll(breaks))
  BY DEF Segments, CutAll, CutBegin
<1>4. Len(ForcedBreaks) = Cardinality(S) /\ IsFiniteSet(S)
  BY <1>1, EndsAre
<1>5. breaks \in [1 .. n -> 1 .. Len(hlist)] /\ Increasing(breaks, n)
  BY <1>2 DEF BreaksOK
<1>6. \A i \in 1 .. Len(hlist) : Kind(i) = "forced" => i \in S
  BY <1>1
<1> HIDE DEF breaks, n, all, S
<1>7. \E m \in Nat : \E f : Cuts(breaks, n, all, m, f)
  BY <1>2, <1>3, TailCovers
<1>8. PICK m \in Nat : \E f : Cuts(breaks, n, all, m, f)
  BY <1>7
<1>9. PICK f : Cuts(breaks, n, all, m, f)
  BY <1>8
<1> DEFINE W == Wordless(all, m)
           g == [j \in W |-> breaks[j]]
<1>10. /\ all \in [1 .. m -> SegmentSet] /\ Covers(m, all, f)
       /\ \A j \in W : j \in 1 .. n /\ Kind(breaks[j]) = "forced"
  BY <1>9 DEF Cuts
<1> HIDE DEF W
<1>11. g \in [W -> S] /\ \A j \in W : g[j] = breaks[j]
  BY <1>5, <1>6, <1>10
<1> HIDE DEF g
<1>12. ASSUME NEW i \in W, NEW j \in W, g[i] = g[j] PROVE i = j
  <2>1. i \in 1 .. n /\ j \in 1 .. n /\ breaks[i] = breaks[j] /\ breaks[i] \in Int
    BY <1>5, <1>10, <1>11, <1>12
  <2>2. i < j \/ j < i \/ i = j
    BY <1>2, <2>1
  <2>3. (i < j => breaks[i] < breaks[j]) /\ (j < i => breaks[j] < breaks[i])
    BY <1>5, <2>1 DEF Increasing
  <2> QED
    BY <2>1, <2>2, <2>3
<1>13. Cardinality(W) <= Cardinality(S)
  <2>1. g \in Injection(W, S)
    BY <1>11, <1>12 DEF Injection, IsInjective
  <2> QED
    BY <1>4, <2>1, FS_Injection
<1> QED
  BY <1>4, <1>10, <1>13 DEF all, W

(* What the lines of every list hold.                                      *)
LEMMA AllHeld == ListShape => LinesHoldEverything
<1>1. SUFFICES ASSUME ListShape PROVE Holds(break_paragraph, Segments)
  BY DEF LinesHoldEverything
<1> DEFINE all == Segments
           lines == break_paragraph
<1>2. Len(hlist) \in Nat /\ DOMAIN hlist = 1 .. Len(hlist)
  BY <1>1 DEF ListShape, LinesOK
<1>3. PICK m \in Nat : \E f :
        /\ all \in [1 .. m -> SegmentSet] /\ Covers(m, all, f)
        /\ Cardinality(Wordless(all, m)) <= Len(ForcedBreaks)
  BY <1>1, SegmentsCover
<1>4. PICK f :
        /\ all \in [1 .. m -> SegmentSet] /\ Covers(m, all, f)
        /\ Cardinality(Wordless(all, m)) <= Len(ForcedBreaks)
  BY <1>3
<1>5. lines = Broken(all)
  BY DEF break_paragraph, Broken, AddLines
<1> HIDE DEF all, lines
<1>6. /\ lines \in Seq(Line) /\ FlattenSeq(lines) = Letters(1 .. Len(hlist))
      /\ Spare(lines, all, m)
  BY <1>1, <1>4, <1>5, LinesOfSegments
<1>7. \A segment \in ToSet(all) : segment[1] <= segment[2]
  <2>1. \A j \in 1 .. m : all[j][1] <= all[j][2]
    BY <1>4 DEF SegmentSet
  <2> QED
    BY <1>4, <2>1 DEF ToSet
<1>8. Cardinality({n \in DOMAIN lines : lines[n] = << >>}) <= Len(ForcedBreaks)
  <2>1. {n \in DOMAIN lines : lines[n] = << >>} = EmptyLines(lines)
    BY <1>6, LenProperties DEF EmptyLines
  <2>2. Cardinality(EmptyLines(lines)) <= Cardinality(Wordless(all, m)) /\ IsFiniteSet(EmptyLines(lines))
    BY <1>6 DEF Spare
  <2>3. Cardinality(EmptyLines(lines)) \in Nat
    BY <2>2, FS_CardinalityType
  <2>4. Cardinality(Wordless(all, m)) \in Nat
    <3>1. Wordless(all, m) \subseteq 1 .. m /\ IsFiniteSet(1 .. m)
      BY <1>3, FS_Interval DEF Wordless
    <3> QED
      BY <3>1, FS_Subset, FS_CardinalityType
  <2>5. Len(ForcedBreaks) \in Nat
    <3>1. LinesOK
      BY <1>1 DEF ListShape
    <3> QED
      BY <3>1, EndsAre, FS_CardinalityType
  <2>6. Cardinality(EmptyLines(lines)) <= Len(ForcedBreaks)
    <3> DEFINE x == Cardinality(EmptyLines(lines))
               y == Cardinality(Wordless(all, m))
               z == Len(ForcedBreaks)
    <3>1. x \in Nat /\ y \in Nat /\ z \in Nat /\ x <= y /\ y <= z
      BY <1>4, <2>2, <2>3, <2>4, <2>5
    <3> HIDE DEF x, y, z
    <3>2. x <= z
      BY ONLY <3>1
    <3> QED
      BY <3>2 DEF x, z
  <2> QED
    BY <2>1, <2>6
<1> QED
  BY <1>2, <1>6, <1>7, <1>8 DEF Holds, all, lines

(* find_breakpoints, break_paragraph (knuth_plass.rs, line_breaker.rs):    *)
(* however a list is built, for any widths and penalties, every letter is  *)
(* on one line and in order, no segment ends before it begins, and no more *)
(* lines are empty than there are forced breaks.                           *)
THEOREM EveryLetterOnALine == LinesSpec => []LinesHoldEverything
BY AlwaysShaped, AllHeld, PTL
=============================================================================
