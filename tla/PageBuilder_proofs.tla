------------------------- MODULE PageBuilder_proofs ----------------------------
(***************************************************************************)
(* Proofs about the page builder, for every height of the page, every      *)
(* limit of deferrals and every list of boxes, floats and breaks.          *)
(*                                                                         *)
(* The builder's state is seen as levels: W gives each thing its page, the *)
(* finished ones 1 .. n, the open page n + 1 and the queue n + 2.  Levels  *)
(* rise along the text and along the floats that wait, and a \clearpage    *)
(* separates them (LevelsRise); every operation is a move between levels.  *)
(* Keeps says what an operation leaves true that reads nothing, Reads what *)
(* one does that reads an item.                                            *)
(*                                                                         *)
(* The other two machines are compared with it: the snapshot's state is    *)
(* the builder's up to the mark of a page's end (Marked, Follows), and the *)
(* open section of the pipeline goes on with what the builder has on its   *)
(* page (OnOwnPage, OnLastPage, BeforePage).                               *)
(***************************************************************************)
EXTENDS Typesetting_proofs, PageBuilder

-----------------------------------------------------------------------------
(* What the machines work on.  A piece is a box or a float that was read,  *)
(* a spot what is printed of it.                                           *)
Regions == {"here", "top", "bottom", "page"}
Pieces == [kind : {"box", "float"}, id : Nat, h : Nat, place : SUBSET Regions, defers : Nat]
Spots == [id : Nat, h : Nat, at : Nat]
States ==
  [pages : Seq(SUBSET Spots), page : Seq(Pieces), used : Nat, start : Nat, last : Nat,
   queue : Seq(Pieces), continued : BOOLEAN, explicit : BOOLEAN]

(* The heights of the first pieces of a sequence, one piece after the      *)
(* other.                                                                  *)
Sums(q, t) ==
  /\ t \in [0 .. Len(q) -> Nat]
  /\ t[0] = 0
  /\ \A k \in 1 .. Len(q) : t[k] = t[k - 1] + q[k].h

(* The parts of a piece.                                                   *)
LEMMA PieceParts ==
  ASSUME NEW q \in Seq(Pieces), NEW k \in 1 .. Len(q)
  PROVE  /\ q[k] \in Pieces /\ q[k].h \in Nat /\ q[k].id \in Nat /\ q[k].kind \in {"box", "float"}
         /\ q[k].defers \in Nat /\ Renders(q[k])
<1>1. q[k] \in Pieces
  OBVIOUS
<1> QED
  BY <1>1 DEF Pieces, Renders

(* There are such sums.                                                    *)
LEMMA SumsExist ==
  ASSUME NEW q \in Seq(Pieces)
  PROVE  Len(q) \in Nat /\ \E t : Sums(q, t)
<1> DEFINE n == Len(q)
           g == [u \in 0 + 1 .. n |-> [x \in Nat |-> x + q[u].h]]
<1>1. n \in Nat
  OBVIOUS
<1>2. \A u \in 0 + 1 .. n : q[u].h \in Nat
  BY PieceParts
<1>3. g \in [0 + 1 .. n -> [Nat -> Nat]] /\ \A u \in 0 + 1 .. n : \A x \in Nat : g[u][x] = x + q[u].h
  BY <1>2
<1> HIDE DEF g
<1>4. PICK t : Counts(Nat, 0, 0, n, g, t)
  <2>1. 0 \in Nat /\ 0 <= n
    BY <1>1
  <2>2. \E t : Counts(Nat, 0, 0, n, g, t)
    BY <1>1, <1>3, <2>1, CountsExists
  <2> QED
    BY <2>2
<1>5. t \in [0 .. n -> Nat] /\ t[0] = 0 /\ \A u \in 1 .. n : t[u] = g[u][t[u - 1]]
  BY <1>4 DEF Counts
<1>6. \A u \in 1 .. n : t[u - 1] \in Nat
  BY <1>1, <1>5
<1>7. \A k \in 1 .. n : t[k] = t[k - 1] + q[k].h
  <2>1. SUFFICES ASSUME NEW k \in 1 .. n PROVE t[k] = t[k - 1] + q[k].h
    OBVIOUS
  <2>2. k \in 0 + 1 .. n /\ t[k] = g[k][t[k - 1]] /\ t[k - 1] \in Nat
    BY <1>1, <1>5, <1>6
  <2> QED
    BY <1>3, <2>2
<1>8. Sums(q, t)
  BY <1>5, <1>7 DEF Sums
<1> QED
  BY <1>1, <1>8

(* Two such sums are the same.                                             *)
LEMMA SumsSame ==
  ASSUME NEW n \in Nat, NEW a \in [0 .. n -> Nat], NEW b, NEW h \in [1 .. n -> Nat],
         a[0] = b[0],
         \A k \in 1 .. n : a[k] = a[k - 1] + h[k] /\ b[k] = b[k - 1] + h[k]
  PROVE  \A k \in 0 .. n : a[k] = b[k]
<1> DEFINE S == {k \in 0 .. n : a[k] = b[k]}
<1>1. 0 \in S
  OBVIOUS
<1>2. \A k \in 1 .. n : k - 1 \in S => k \in S
  OBVIOUS
<1> HIDE DEF S
<1>3. \A k \in 0 .. n : k \in S
  BY <1>1, <1>2, InductUpTo
<1> QED
  BY <1>3 DEF S

(* The height of a sequence is the last of its sums.                       *)
LEMMA TotalIs ==
  ASSUME NEW q \in Seq(Pieces), NEW t, Sums(q, t)
  PROVE  Total(q) = t[Len(q)]
<1> DEFINE n == Len(q)
           F(f) == f = [k \in 0 .. n |-> IF k = 0 THEN 0 ELSE f[k - 1] + q[k].h]
           first == CHOOSE f : F(f)
<1>1. n \in Nat /\ t \in [0 .. n -> Nat] /\ t[0] = 0 /\ \A k \in 1 .. n : t[k] = t[k - 1] + q[k].h
  BY SumsExist DEF Sums
<1>2. F(t)
  <2>1. \A k \in 0 .. n : t[k] = IF k = 0 THEN 0 ELSE t[k - 1] + q[k].h
    BY <1>1
  <2> QED
    BY <1>1, <2>1
<1>3. F(first)
  <2> HIDE DEF F
  <2> QED
    BY <1>2
<1>4. Total(q) = first[n]
  BY DEF Total
<1>5. first[0] = 0 /\ \A k \in 1 .. n : first[k] = first[k - 1] + q[k].h
  <2>1. \A f : F(f) => f[0] = 0 /\ \A k \in 1 .. n : f[k] = f[k - 1] + q[k].h
    BY <1>1
  <2> HIDE DEF F, first
  <2> QED
    BY <1>3, <2>1
<1> HIDE DEF first
<1> DEFINE h == [k \in 1 .. n |-> q[k].h]
<1>6. h \in [1 .. n -> Nat] /\ \A k \in 1 .. n : h[k] = q[k].h
  BY PieceParts
<1> HIDE DEF h
<1>7. \A k \in 0 .. n : t[k] = first[k]
  <2>1. \A k \in 1 .. n : t[k] = t[k - 1] + h[k] /\ first[k] = first[k - 1] + h[k]
    BY <1>1, <1>5, <1>6
  <2>2. t[0] = first[0] /\ t \in [0 .. n -> Nat] /\ n \in Nat
    BY <1>1, <1>5
  <2> HIDE DEF n, F
  <2> QED
    BY <1>6, <2>1, <2>2, SumsSame
<1> QED
  BY <1>1, <1>4, <1>7

(* Every sum is the height of the pieces up to there.                      *)
LEMMA TotalOfFirst ==
  ASSUME NEW q \in Seq(Pieces), NEW t, Sums(q, t), NEW m \in 0 .. Len(q)
  PROVE  SubSeq(q, 1, m) \in Seq(Pieces) /\ Len(SubSeq(q, 1, m)) = m /\ Total(SubSeq(q, 1, m)) = t[m]
<1> DEFINE p == SubSeq(q, 1, m)
           u == [k \in 0 .. m |-> t[k]]
<1>1. Len(q) \in Nat /\ m \in Nat /\ m <= Len(q)
  BY SumsExist
<1>2. p \in Seq(Pieces) /\ Len(p) = m /\ \A i \in 1 .. m : p[i] = q[i]
  <2>1. \A i \in 1 .. m : q[i] \in Pieces
    BY <1>1, PieceParts
  <2>2. /\ p \in Seq(Pieces) /\ Len(p) = IF 1 <= m THEN m - 1 + 1 ELSE 0
        /\ \A i \in 1 .. m - 1 + 1 : p[i] = q[1 + i - 1]
    BY <1>1, <2>1, SubSeqProperties
  <2> QED
    BY <1>1, <2>2
<1> HIDE DEF p
<1>3. Sums(p, u)
  <2>1. t \in [0 .. Len(q) -> Nat] /\ t[0] = 0 /\ \A k \in 1 .. Len(q) : t[k] = t[k - 1] + q[k].h
    BY DEF Sums
  <2>2. u \in [0 .. m -> Nat] /\ u[0] = 0
    BY <1>1, <2>1
  <2>3. \A k \in 1 .. m : u[k] = u[k - 1] + p[k].h
    <3>1. \A k \in 1 .. m : k \in 0 .. m /\ k - 1 \in 0 .. m /\ k \in 1 .. Len(q)
      BY <1>1
    <3>2. \A k \in 1 .. m : u[k] = t[k] /\ u[k - 1] = t[k - 1]
      BY <3>1
    <3> HIDE DEF u
    <3> QED
      BY <1>2, <2>1, <3>1, <3>2
  <2> HIDE DEF u
  <2> QED
    BY <1>2, <2>2, <2>3 DEF Sums
<1>4. Total(p) = u[m]
  BY <1>2, <1>3, TotalIs
<1> QED
  BY <1>1, <1>2, <1>4 DEF p

(* v are the sums of b below a, t those of a and u those of b.             *)
Below(a, b, t, u, v) ==
  /\ Sums(a \o b, v)
  /\ \A k \in 0 .. Len(a) : v[k] = t[k]
  /\ \A k \in 0 .. Len(b) : v[Len(a) + k] = t[Len(a)] + u[k]

(* The heights of two rows of pieces, one below the other.                 *)
LEMMA SumsJoined ==
  ASSUME NEW a \in Seq(Pieces), NEW b \in Seq(Pieces), NEW t, NEW u, Sums(a, t), Sums(b, u)
  PROVE  \E v : Below(a, b, t, u, v)
<1>1. Len(a) \in Nat /\ Len(b) \in Nat
  BY SumsExist
<1> DEFINE m == Len(a)
           n == Len(b)
           v == [k \in 0 .. m + n |-> IF k <= m THEN t[k] ELSE t[m] + u[k - m]]
<1>5. /\ t \in [0 .. m -> Nat] /\ t[0] = 0 /\ \A k \in 1 .. m : t[k] = t[k - 1] + a[k].h
      /\ u \in [0 .. n -> Nat] /\ u[0] = 0 /\ \A k \in 1 .. n : u[k] = u[k - 1] + b[k].h
  BY DEF Sums
<1>6. /\ a \o b \in Seq(Pieces) /\ Len(a \o b) = m + n
      /\ \A k \in 1 .. m : (a \o b)[k] = a[k]
      /\ \A k \in m + 1 .. m + n : (a \o b)[k] = b[k - m]
  BY <1>1
<1> HIDE DEF m, n
<1>7. m \in Nat /\ n \in Nat
  BY <1>1 DEF m, n
<1>8. v \in [0 .. m + n -> Nat] /\ v[0] = 0
  <2>1. \A k \in 0 .. m + n : k <= m \/ k - m \in 0 .. n
    BY <1>7
  <2>2. v \in [0 .. m + n -> Nat]
    BY <1>5, <1>7, <2>1
  <2> QED
    BY <1>5, <1>7, <2>2
<1>9. ASSUME NEW k \in 1 .. m + n PROVE v[k] = v[k - 1] + (a \o b)[k].h
  <2>1. k \in 0 .. m + n /\ k - 1 \in 0 .. m + n
    BY <1>7
  <2>2. CASE k <= m
    <3>1. k \in 1 .. m /\ v[k] = t[k] /\ v[k - 1] = t[k - 1]
      BY <1>7, <2>1, <2>2
    <3> QED
      BY <1>5, <1>6, <3>1
  <2>3. CASE ~ k <= m
    <3>1. k \in m + 1 .. m + n /\ k - m \in 1 .. n /\ (k - 1) - m = (k - m) - 1
      BY <1>7, <2>3
    <3>2. v[k] = t[m] + u[k - m]
      BY <2>1, <2>3
    <3>3. v[k - 1] = t[m] + u[(k - m) - 1]
      <4>1. CASE k = m + 1
        BY <1>5, <1>7, <2>1, <4>1
      <4>2. CASE k # m + 1
        BY <1>7, <2>1, <3>1, <4>2
      <4> QED
        BY <4>1, <4>2
    <3>4. u[k - m] = u[(k - m) - 1] + b[k - m].h /\ (a \o b)[k] = b[k - m]
      BY <1>5, <1>6, <3>1
    <3>5. t[m] \in Nat /\ u[(k - m) - 1] \in Nat /\ b[k - m].h \in Nat
      <4>1. (k - m) - 1 \in 0 .. n /\ m \in 0 .. m
        BY <1>7, <3>1
      <4>2. b[k - m].h \in Nat
        BY <3>1, PieceParts DEF n
      <4> QED
        BY <1>5, <4>1, <4>2
    <3> QED
      BY <3>2, <3>3, <3>4, <3>5
  <2> QED
    BY <2>2, <2>3
<1>10. \A k \in 0 .. m : v[k] = t[k]
  BY <1>7
<1>11. \A k \in 0 .. n : v[m + k] = t[m] + u[k]
  <2>1. SUFFICES ASSUME NEW k \in 0 .. n PROVE v[m + k] = t[m] + u[k]
    OBVIOUS
  <2>2. m + k \in 0 .. m + n /\ (m + k) - m = k /\ m \in 0 .. m
    BY <1>7
  <2>3. CASE k = 0
    <3>1. m + k = m /\ m + k <= m
      BY <1>7, <2>3
    <3>2. v[m + k] = t[m]
      BY <2>2, <3>1
    <3>3. t[m] \in Nat /\ u[k] = 0
      BY <1>5, <2>2, <2>3
    <3> QED
      BY <3>2, <3>3
  <2>4. CASE k # 0
    <3>1. ~ m + k <= m
      BY <1>7, <2>4
    <3> QED
      BY <2>2, <3>1
  <2> QED
    BY <2>3, <2>4
<1> HIDE DEF v
<1>12. Sums(a \o b, v)
  BY <1>6, <1>8, <1>9 DEF Sums
<1> QED
  <2>1. Below(a, b, t, u, v)
    BY <1>10, <1>11, <1>12 DEF Below, m, n
  <2> QED
    BY <2>1

(* Heights add up.                                                         *)
LEMMA TotalConcat ==
  ASSUME NEW a \in Seq(Pieces), NEW b \in Seq(Pieces)
  PROVE  Total(a) \in Nat /\ Total(b) \in Nat /\ Total(a \o b) = Total(a) + Total(b)
<1> DEFINE m == Len(a)
           n == Len(b)
<1>1. m \in Nat /\ n \in Nat /\ a \o b \in Seq(Pieces) /\ Len(a \o b) = m + n
  BY SumsExist
<1>2. PICK t : Sums(a, t)
  BY SumsExist
<1>3. PICK u : Sums(b, u)
  BY SumsExist
<1>4. PICK v : Below(a, b, t, u, v)
  BY <1>2, <1>3, SumsJoined
<1>5. /\ Sums(a \o b, v)
      /\ \A k \in 0 .. m : v[k] = t[k]
      /\ \A k \in 0 .. n : v[m + k] = t[m] + u[k]
  BY <1>4 DEF Below
<1>6. Total(a) = t[m] /\ Total(b) = u[n]
  BY <1>2, <1>3, TotalIs
<1>7. Total(a \o b) = v[m + n]
  BY <1>1, <1>5, TotalIs
<1> HIDE DEF m, n
<1>8. n \in 0 .. n /\ m \in 0 .. m
  BY <1>1
<1>9. t[m] \in Nat /\ u[n] \in Nat
  BY <1>2, <1>3, <1>8 DEF Sums, m, n
<1> QED
  BY <1>5, <1>6, <1>7, <1>8, <1>9

(* The next piece begins where the last one ends.                          *)
LEMMA TotalAppend ==
  ASSUME NEW a \in Seq(Pieces), NEW x \in Pieces
  PROVE  Append(a, x) \in Seq(Pieces) /\ Total(Append(a, x)) = Total(a) + x.h
<1>1. <<x>> \in Seq(Pieces) /\ Append(a, x) = a \o <<x>> /\ Append(a, x) \in Seq(Pieces)
  BY AppendIsConcat
<1> DEFINE t == [k \in 0 .. 1 |-> IF k = 0 THEN 0 ELSE x.h]
<1>2. x.h \in Nat
  BY DEF Pieces
<1>3. Sums(<<x>>, t)
  BY <1>2 DEF Sums
<1>4. Total(<<x>>) = x.h
  <2>1. Total(<<x>>) = t[Len(<<x>>)]
    BY <1>1, <1>3, TotalIs
  <2>2. Len(<<x>>) = 1 /\ t[1] = x.h
    OBVIOUS
  <2> QED
    BY <2>1, <2>2
<1> QED
  BY <1>1, <1>4, TotalConcat

(* Nothing has no height.                                                  *)
LEMMA TotalNone == Total(<< >>) = 0
<1> DEFINE t == [k \in 0 .. 0 |-> 0]
<1>1. << >> \in Seq(Pieces) /\ Len(<< >>) = 0
  OBVIOUS
<1>2. Sums(<< >>, t)
  BY <1>1 DEF Sums
<1>3. Total(<< >>) = t[Len(<< >>)]
  BY <1>1, <1>2, TotalIs
<1>4. t[Len(<< >>)] = 0
  BY <1>1
<1> QED
  BY <1>3, <1>4

(* Later pieces are further down.                                          *)
LEMMA SumsGrow ==
  ASSUME NEW q \in Seq(Pieces), NEW t, Sums(q, t), NEW k \in 0 .. Len(q), NEW l \in k .. Len(q)
  PROVE  t[k] \in Nat /\ t[l] \in Nat /\ t[k] <= t[l]
<1> DEFINE n == Len(q)
           S == {m \in 0 .. n : k <= m => t[k] <= t[m]}
<1>1. n \in Nat /\ t \in [0 .. n -> Nat] /\ \A m \in 1 .. n : t[m] = t[m - 1] + q[m].h /\ q[m].h \in Nat
  BY SumsExist, PieceParts DEF Sums
<1> HIDE DEF n
<1>2. k \in 0 .. n /\ l \in 0 .. n /\ k <= l
  BY <1>1 DEF n
<1>3. 0 \in S
  BY <1>1, <1>2
<1>4. ASSUME NEW m \in 1 .. n, m - 1 \in S PROVE m \in S
  <2>1. m - 1 \in 0 .. n /\ m \in 0 .. n /\ t[m - 1] \in Nat /\ t[m] \in Nat /\ t[k] \in Nat
    BY <1>1, <1>2
  <2>2. t[m - 1] <= t[m]
    <3>1. t[m] = t[m - 1] + q[m].h /\ q[m].h \in Nat
      BY <1>1
    <3> QED
      BY <2>1, <3>1
  <2>3. k <= m => k = m \/ k <= m - 1
    BY <1>2, <2>1
  <2> QED
    BY <1>4, <2>1, <2>2, <2>3
<1>5. \A m \in 0 .. n : m \in S
  <2> HIDE DEF S
  <2> QED
    BY <1>1, <1>3, <1>4, InductUpTo
<1> QED
  BY <1>1, <1>2, <1>5

(* A piece on a page, `t` being the sums of the page.                      *)
Row(page, start, t, k) == [id |-> page[k].id, h |-> page[k].h, at |-> start + t[k - 1]]

(* What is laid out of a page are its rows.                                *)
LEMMA RowsAre ==
  ASSUME NEW page \in Seq(Pieces), NEW start \in Nat, NEW t, Sums(page, t)
  PROVE  /\ LaidOut(page, start) = {Row(page, start, t, k) : k \in 1 .. Len(page)}
         /\ \A k \in 1 .. Len(page) : Row(page, start, t, k) \in Spots
<1>1. Len(page) \in Nat /\ DOMAIN page = 1 .. Len(page)
  BY SumsExist
<1>2. {j \in DOMAIN page : Renders(page[j])} = 1 .. Len(page)
  BY <1>1, PieceParts
<1>3. \A k \in 1 .. Len(page) : Total(SubSeq(page, 1, k - 1)) = t[k - 1] /\ t[k - 1] \in Nat
  <2>1. \A k \in 1 .. Len(page) : k - 1 \in 0 .. Len(page)
    BY <1>1
  <2>2. t \in [0 .. Len(page) -> Nat]
    BY DEF Sums
  <2> QED
    BY <2>1, <2>2, TotalOfFirst
<1>4. LaidOut(page, start) = {Row(page, start, t, k) : k \in 1 .. Len(page)}
  <2> DEFINE D == {j \in DOMAIN page : Renders(page[j])}
  <2>1. LaidOut(page, start) = {[id |-> page[i].id, h |-> page[i].h, at |-> start + Total(SubSeq(page, 1, i - 1))] : i \in D}
    BY DEF LaidOut
  <2>2. D = 1 .. Len(page)
    BY <1>2
  <2> HIDE DEF D
  <2> QED
    BY <1>3, <2>1, <2>2 DEF Row
<1>5. \A k \in 1 .. Len(page) : Row(page, start, t, k) \in Spots
  <2>1. \A k \in 1 .. Len(page) : page[k].id \in Nat /\ page[k].h \in Nat /\ start + t[k - 1] \in Nat
    BY <1>3, PieceParts
  <2> QED
    BY <2>1 DEF Row, Spots
<1> QED
  BY <1>4, <1>5

(* x and y are pieces k and l of the page.                                 *)
Stand(page, x, y, k, l) ==
  /\ x.id = page[k].id /\ y.id = page[l].id
  /\ k < l => x.at + x.h <= y.at
  /\ l < k => y.at + y.h <= x.at
  /\ k = l => x = y

(* What is printed of a page: each piece in its place, the later ones      *)
(* below the earlier ones.                                                 *)
LEMMA RowsStand ==
  ASSUME NEW page \in Seq(Pieces), NEW start \in Nat
  PROVE  /\ LaidOut(page, start) \in SUBSET Spots
         /\ \A x \in LaidOut(page, start) : start <= x.at /\ x.at + x.h <= start + Total(page)
         /\ \A x, y \in LaidOut(page, start) : \E k, l \in 1 .. Len(page) : Stand(page, x, y, k, l)
         /\ \A k \in 1 .. Len(page) : \E x \in LaidOut(page, start) : x.id = page[k].id
<1> DEFINE n == Len(page)
           L == LaidOut(page, start)
<1>0. n \in Nat
  BY SumsExist
<1>1. PICK t : Sums(page, t)
  BY SumsExist
<1>2. L = {Row(page, start, t, k) : k \in 1 .. n} /\ \A k \in 1 .. n : Row(page, start, t, k) \in Spots
  BY <1>1, RowsAre
<1>3. Total(page) = t[n] /\ t \in [0 .. n -> Nat] /\ \A k \in 1 .. n : t[k] = t[k - 1] + page[k].h
  BY <1>1, TotalIs DEF Sums
<1>4. \A k \in 1 .. n : \A l \in 1 .. n : k < l => t[k] <= t[l - 1]
  <2>1. SUFFICES ASSUME NEW k \in 1 .. n, NEW l \in 1 .. n, k < l PROVE t[k] <= t[l - 1]
    OBVIOUS
  <2>2. k \in 0 .. Len(page) /\ l - 1 \in k .. Len(page)
    BY <1>0, <2>1
  <2> QED
    BY <1>1, <2>2, SumsGrow
<1>5. \A k \in 1 .. n : t[k - 1] \in Nat /\ page[k].h \in Nat /\ page[k].id \in Nat /\ t[k] \in Nat /\ t[k] <= t[n]
  <2>1. SUFFICES ASSUME NEW k \in 1 .. n
                 PROVE  t[k - 1] \in Nat /\ page[k].h \in Nat /\ page[k].id \in Nat /\ t[k] \in Nat /\ t[k] <= t[n]
    OBVIOUS
  <2>2. k - 1 \in 0 .. n /\ k \in 0 .. Len(page) /\ Len(page) \in k .. Len(page)
    BY <1>0
  <2>3. t[k] <= t[n]
    BY <1>1, <2>2, SumsGrow
  <2>4. page[k].h \in Nat /\ page[k].id \in Nat
    BY PieceParts
  <2> QED
    BY <1>3, <2>2, <2>3, <2>4
<1> HIDE DEF n, L
<1>6. \A k \in 1 .. n : LET x == Row(page, start, t, k)
                        IN x.id = page[k].id /\ x.at = start + t[k - 1] /\ x.at + x.h = start + t[k]
  <2>1. SUFFICES ASSUME NEW k \in 1 .. n, NEW x, x = Row(page, start, t, k)
                 PROVE  x.id = page[k].id /\ x.at = start + t[k - 1] /\ x.at + x.h = start + t[k]
    OBVIOUS
  <2>2. x.id = page[k].id /\ x.h = page[k].h /\ x.at = start + t[k - 1]
    BY <2>1 DEF Row
  <2>3. t[k] = t[k - 1] + page[k].h
    BY <1>3
  <2> QED
    BY <1>5, <2>2, <2>3
<1>7. \A x \in L : start <= x.at /\ x.at + x.h <= start + Total(page)
  <2>1. SUFFICES ASSUME NEW k \in 1 .. n, NEW x, x = Row(page, start, t, k)
                 PROVE  start <= x.at /\ x.at + x.h <= start + Total(page)
    BY <1>2
  <2>2. x.at = start + t[k - 1] /\ x.at + x.h = start + t[k]
    BY <1>6, <2>1
  <2>3. t[k - 1] \in Nat /\ t[k] \in Nat /\ t[k] <= t[n] /\ t[n] \in Nat
    <3>1. n \in 1 .. n
      BY <1>0
    <3> QED
      BY <1>5, <3>1
  <2> QED
    BY <1>3, <2>2, <2>3
<1>8. \A x, y \in L : \E k, l \in 1 .. n : Stand(page, x, y, k, l)
  <2>1. SUFFICES ASSUME NEW k \in 1 .. n, NEW l \in 1 .. n, NEW x, NEW y,
                        x = Row(page, start, t, k), y = Row(page, start, t, l)
                 PROVE  Stand(page, x, y, k, l)
    BY <1>2
  <2>2. /\ x.id = page[k].id /\ x.at = start + t[k - 1] /\ x.at + x.h = start + t[k]
        /\ y.id = page[l].id /\ y.at = start + t[l - 1] /\ y.at + y.h = start + t[l]
    BY <1>6, <2>1
  <2>3. k < l => t[k] <= t[l - 1]
    BY <1>4
  <2>4. l < k => t[l] <= t[k - 1]
    BY <1>4
  <2>5. t[k] \in Nat /\ t[l] \in Nat /\ t[k - 1] \in Nat /\ t[l - 1] \in Nat
    BY <1>5
  <2>6. k < l => x.at + x.h <= y.at
    BY <2>2, <2>3, <2>5
  <2>7. l < k => y.at + y.h <= x.at
    BY <2>2, <2>4, <2>5
  <2>8. k = l => x = y
    BY <2>1
  <2> QED
    BY <2>2, <2>6, <2>7, <2>8 DEF Stand
<1>9. \A k \in 1 .. n : \E x \in L : x.id = page[k].id
  BY <1>2, <1>6
<1>10. L \in SUBSET Spots
  BY <1>2
<1> QED
  BY <1>7, <1>8, <1>9, <1>10 DEF L, n

(* A number that was looked for up to n, and 0 would do.                   *)
LEMMA MaxUpTo ==
  ASSUME NEW n \in Nat, NEW s \in SUBSET (0 .. n), 0 \in s
  PROVE  Max(s) \in 0 .. n
<1> DEFINE T == {k \in Nat : n - k \in s}
<1>1. T \in SUBSET Nat /\ T # {}
  <2>1. n - n = 0
    OBVIOUS
  <2> QED
    BY <2>1
<1>2. PICK m \in T : \A k \in T : m <= k
  BY <1>1, Smallest
<1>3. n - m \in s
  OBVIOUS
<1>4. \A y \in s : n - m >= y
  <2>1. SUFFICES ASSUME NEW y \in s PROVE n - m >= y
    OBVIOUS
  <2>2. n - y \in Nat /\ n - (n - y) = y
    OBVIOUS
  <2>3. n - y \in T
    BY <2>2
  <2>4. m <= n - y
    BY <1>2, <2>3
  <2> QED
    BY <2>4
<1>5. \E x \in s : \A y \in s : x >= y
  BY <1>3, <1>4
<1>6. Max(s) \in s
  BY <1>5 DEF Max
<1> QED
  BY <1>6

(* The floats that go into a region are the first ones waiting.            *)
LEMMA TakenFirst ==
  ASSUME NEW s, Len(s.queue) \in Nat, NEW region
  PROVE  Taken(s, region) \in 0 .. Len(s.queue)
<1> DEFINE n == Len(s.queue)
           T == {m \in 0 .. n : \A k \in 1 .. m : /\ MayGo(s.queue[k], region)
                                                  /\ s.used + Total(SubSeq(s.queue, 1, k)) <= Height}
<1>1. T \in SUBSET (0 .. n) /\ 0 \in T
  <2>1. 1 .. 0 = {}
    OBVIOUS
  <2> QED
    BY <2>1
<1>2. Taken(s, region) = Max(T)
  BY DEF Taken
<1> HIDE DEF T
<1> QED
  BY <1>1, <1>2, MaxUpTo

-----------------------------------------------------------------------------
(* Where the items are.  `d` is the list that was read, a function from    *)
(* the number of an item to the item; `W` is the level of every box and    *)
(* float: a finished page, then the open one, then the queue.              *)
Printed(d) == {i \in DOMAIN d : Renders(d[i])}
Where(d, W, p) == {i \in Printed(d) : W[i] = p}
Names(q) == {q[k].id : k \in 1 .. Len(q)}
Ids(out) == {x.id : x \in out}
FirstNames(q, m) == {q[k].id : k \in 1 .. m}
LastNames(q, m) == {q[k].id : k \in m + 1 .. Len(q)}

Laid(pages, page, queue, d, W) ==
  /\ W \in [Printed(d) -> 1 .. Len(pages) + 2]
  /\ \A p \in 1 .. Len(pages) : Ids(pages[p]) = Where(d, W, p)
  /\ Names(page) = Where(d, W, Len(pages) + 1)
  /\ Names(queue) = Where(d, W, Len(pages) + 2)

TextRises(d, W) ==
  \A i, j \in Printed(d) : d[i].kind = "box" /\ d[j].kind = "box" /\ i < j => W[i] <= W[j]
FloatsRise(d, W) ==
  \A i, j \in Printed(d) :
    d[i].kind = "float" /\ d[j].kind = "float" /\ "here" \notin d[j].place /\ i < j => W[i] <= W[j]
ClearsHold(d, W, n) ==
  \A c \in DOMAIN d : d[c].kind = "clear" =>
    \A i \in Printed(d) : i < c => W[i] <= n /\ \A j \in Printed(d) : c < j => W[i] < W[j]
OnlyFloats(d, W, n) == \A i \in Printed(d) : W[i] = n + 2 => d[i].kind = "float"

LevelsRise(d, W, n) == TextRises(d, W) /\ FloatsRise(d, W) /\ ClearsHold(d, W, n) /\ OnlyFloats(d, W, n)

Distinct(q) == \A k, l \in 1 .. Len(q) : q[k].id = q[l].id => k = l
Rising(q) == \A k, l \in 1 .. Len(q) : k < l => q[k].id < q[l].id
InText(q, d) ==
  \A k, l \in 1 .. Len(q) :
    d[q[k].id].kind = "box" /\ d[q[l].id].kind = "box" /\ q[k].id < q[l].id => k < l

Single(out) == \A x, y \in out : x.id = y.id => x = y
TextDown(out, d) ==
  \A x, y \in out :
    d[x.id].kind = "box" /\ d[y.id].kind = "box" /\ x.id < y.id => x.at + x.h <= y.at

Fine(pages, page, queue, d) ==
  /\ DOMAIN d \in SUBSET Nat
  /\ \E W : Laid(pages, page, queue, d, W) /\ LevelsRise(d, W, Len(pages))
  /\ Distinct(page) /\ Rising(queue) /\ InText(page, d)
  /\ \A p \in 1 .. Len(pages) : Single(pages[p]) /\ TextDown(pages[p], d)

(* The first m waiting floats move to the open page.                       *)
LEMMA FloatsMove ==
  ASSUME NEW pages \in Seq(SUBSET Spots), NEW page, NEW queue, NEW d, Fine(pages, page, queue, d),
         NEW page2, NEW queue2, NEW m \in 0 .. Len(queue), Len(queue) \in Nat,
         Names(page2) = Names(page) \cup FirstNames(queue, m), Names(queue2) = LastNames(queue, m),
         Distinct(page2), InText(page2, d), Rising(queue2)
  PROVE  Fine(pages, page2, queue2, d)
<1> DEFINE n == Len(pages)
           F == FirstNames(queue, m)
           R == LastNames(queue, m)
<1>1. n \in Nat /\ DOMAIN d \in SUBSET Nat /\ Printed(d) \in SUBSET Nat
  BY DEF Fine, Printed
<1>2. PICK W : Laid(pages, page, queue, d, W) /\ LevelsRise(d, W, n)
  BY DEF Fine
<1> DEFINE V == [i \in Printed(d) |-> IF i \in F THEN n + 1 ELSE W[i]]
<1>3. W \in [Printed(d) -> 1 .. n + 2]
  BY <1>2 DEF Laid
<1>4. F \cup R = Names(queue)
  <2>1. 1 .. Len(queue) = (1 .. m) \cup (m + 1 .. Len(queue))
    OBVIOUS
  <2> QED
    BY <2>1 DEF Names, FirstNames, LastNames
<1>5. \A i \in F, j \in R : i < j /\ i # j
  <2>1. SUFFICES ASSUME NEW k \in 1 .. m, NEW l \in m + 1 .. Len(queue)
                 PROVE  queue[k].id < queue[l].id /\ queue[k].id # queue[l].id
    BY DEF FirstNames, LastNames
  <2>2. k \in 1 .. Len(queue) /\ l \in 1 .. Len(queue) /\ k < l
    OBVIOUS
  <2>3. queue[k].id < queue[l].id
    BY <2>2 DEF Fine, Rising
  <2>4. queue[k].id \in Nat /\ queue[l].id \in Nat
    <3>1. queue[k].id \in Names(queue) /\ queue[l].id \in Names(queue)
      BY <2>2 DEF Names
    <3>2. Names(queue) \in SUBSET Printed(d)
      BY <1>2 DEF Laid, Where
    <3> QED
      BY <1>1, <3>1, <3>2
  <2> QED
    BY <2>3, <2>4
<1>6. \A i \in Printed(d) : (i \in F \/ i \in R) <=> W[i] = n + 2
  <2>1. Names(queue) = {i \in Printed(d) : W[i] = n + 2}
    BY <1>2 DEF Laid, Where
  <2> QED
    BY <1>4, <2>1
<1>7. F \in SUBSET Printed(d) /\ R \in SUBSET Printed(d)
  BY <1>2, <1>4 DEF Laid, Where
<1> HIDE DEF F, R, n
<1>8. \A i \in Printed(d) : W[i] \in 1 .. n + 2 /\ V[i] = IF i \in F THEN n + 1 ELSE W[i]
  BY <1>3
<1>9. V \in [Printed(d) -> 1 .. n + 2]
  BY <1>1, <1>3
<1> HIDE DEF V
<1>10. Laid(pages, page2, queue2, d, V)
  <2>1. \A p \in 1 .. n : Where(d, V, p) = Where(d, W, p)
    BY <1>1, <1>6, <1>8 DEF Where
  <2>2. Where(d, V, n + 1) = Where(d, W, n + 1) \cup F
    BY <1>1, <1>7, <1>8 DEF Where
  <2>3. Where(d, V, n + 2) = R
    <3>1. \A i \in Printed(d) : V[i] = n + 2 <=> i \in R
      BY <1>1, <1>5, <1>6, <1>8
    <3> QED
      BY <1>7, <3>1 DEF Where
  <2>4. /\ \A p \in 1 .. n : Ids(pages[p]) = Where(d, W, p)
        /\ Names(page) = Where(d, W, n + 1)
    BY <1>2 DEF Laid, n
  <2>5. Names(page2) = Names(page) \cup F /\ Names(queue2) = R
    BY DEF F, R
  <2> QED
    BY <1>9, <2>1, <2>2, <2>3, <2>4, <2>5 DEF Laid, n
<1>11. LevelsRise(d, V, n)
  <2>1. TextRises(d, V)
    <3>1. \A i \in Printed(d) : d[i].kind = "box" => V[i] = W[i]
      BY <1>2, <1>6, <1>8 DEF LevelsRise, OnlyFloats
    <3> QED
      BY <1>2, <3>1 DEF LevelsRise, TextRises
  <2>2. FloatsRise(d, V)
    <3>1. SUFFICES ASSUME NEW i \in Printed(d), NEW j \in Printed(d), W[i] <= W[j], i < j
                   PROVE  V[i] <= V[j]
      BY <1>2 DEF LevelsRise, FloatsRise
    <3>2. i \in F => j \in F \/ W[j] = n + 2
      BY <1>1, <1>6, <1>8, <3>1
    <3>3. j \in F /\ i \notin F => W[i] # n + 2
      BY <1>1, <1>5, <1>6, <3>1
    <3>4. W[i] \in 1 .. n + 2 /\ W[j] \in 1 .. n + 2 /\ n \in Nat
      BY <1>1, <1>8
    <3> QED
      BY <1>8, <3>1, <3>2, <3>3, <3>4
  <2>3. ClearsHold(d, V, n)
    <3>1. SUFFICES ASSUME NEW c \in DOMAIN d, d[c].kind = "clear", NEW i \in Printed(d), i < c
                   PROVE  V[i] <= n /\ \A j \in Printed(d) : c < j => V[i] < V[j]
      BY DEF ClearsHold
    <3>2. W[i] <= n /\ \A j \in Printed(d) : c < j => W[i] < W[j]
      BY <1>2, <3>1 DEF LevelsRise, ClearsHold
    <3>3. V[i] = W[i] /\ W[i] \in 1 .. n + 2 /\ n \in Nat
      BY <1>1, <1>6, <1>8, <3>2
    <3>4. \A j \in Printed(d) : V[j] = n + 1 \/ V[j] = W[j]
      BY <1>8
    <3> QED
      BY <3>2, <3>3, <3>4
  <2>4. OnlyFloats(d, V, n)
    BY <1>1, <1>2, <1>8 DEF LevelsRise, OnlyFloats
  <2> QED
    BY <2>1, <2>2, <2>3, <2>4 DEF LevelsRise
<1> QED
  BY <1>10, <1>11 DEF Fine, n

(* The pages that are there stay, and the others come after them: an       *)
(* order is kept when the levels are spread out.                           *)
Spreads(d, W, n, V, m) ==
  \A i \in Printed(d) :
    /\ W[i] \in 1 .. n + 2 /\ V[i] \in 1 .. m + 2
    /\ W[i] <= n => V[i] <= m
    /\ V[i] = m + 2 => W[i] = n + 2
    /\ \A j \in Printed(d) : (W[i] <= W[j] => V[i] <= V[j]) /\ (W[i] < W[j] => V[i] < V[j])

(* Spreading the levels keeps their order.                                 *)
LEMMA SpreadOrdered ==
  ASSUME NEW d, NEW W, NEW V, NEW n \in Nat, NEW m \in Nat, LevelsRise(d, W, n), Spreads(d, W, n, V, m)
  PROVE  LevelsRise(d, V, m)
<1>1. TextRises(d, V)
  BY DEF LevelsRise, TextRises, Spreads
<1>2. FloatsRise(d, V)
  BY DEF LevelsRise, FloatsRise, Spreads
<1>3. ClearsHold(d, V, m)
  BY DEF LevelsRise, ClearsHold, Spreads
<1>4. OnlyFloats(d, V, m)
  BY DEF LevelsRise, OnlyFloats, Spreads
<1> QED
  BY <1>1, <1>2, <1>3, <1>4 DEF LevelsRise

(* A page more.                                                            *)
LEMMA OneMorePage ==
  ASSUME NEW pages \in Seq(SUBSET Spots), NEW out \in SUBSET Spots
  PROVE  /\ Append(pages, out) \in Seq(SUBSET Spots)
         /\ Len(pages) \in Nat /\ Len(Append(pages, out)) = Len(pages) + 1
         /\ \A p \in 1 .. Len(pages) : Append(pages, out)[p] = pages[p]
         /\ Append(pages, out)[Len(pages) + 1] = out
OBVIOUS

(* The open page is finished.                                              *)
LEMMA PageTurned ==
  ASSUME NEW pages \in Seq(SUBSET Spots), NEW page \in Seq(Pieces), NEW queue, NEW d, NEW start \in Nat,
         Fine(pages, page, queue, d)
  PROVE  /\ Append(pages, LaidOut(page, start)) \in Seq(SUBSET Spots)
         /\ Fine(Append(pages, LaidOut(page, start)), << >>, queue, d)
<1> DEFINE n == Len(pages)
           out == LaidOut(page, start)
           pages2 == Append(pages, out)
<1>1. /\ out \in SUBSET Spots
      /\ \A x, y \in out : \E k, l \in 1 .. Len(page) : Stand(page, x, y, k, l)
      /\ \A k \in 1 .. Len(page) : \E x \in out : x.id = page[k].id
  BY RowsStand
<1> HIDE DEF out
<1>2. /\ pages2 \in Seq(SUBSET Spots) /\ n \in Nat /\ Len(pages2) = n + 1
      /\ \A p \in 1 .. n : pages2[p] = pages[p]
      /\ pages2[n + 1] = out
  BY <1>1, OneMorePage
<1> HIDE DEF n, pages2
<1>3. PICK W : Laid(pages, page, queue, d, W) /\ LevelsRise(d, W, n)
  BY DEF Fine, n
<1> DEFINE V == [i \in Printed(d) |-> IF W[i] = n + 2 THEN n + 3 ELSE W[i]]
<1>4. W \in [Printed(d) -> 1 .. n + 2]
  BY <1>3 DEF Laid, n
<1>5. \A i \in Printed(d) : /\ W[i] \in 1 .. n + 2
                            /\ V[i] = IF W[i] = n + 2 THEN n + 3 ELSE W[i]
                            /\ V[i] \in 1 .. (n + 1) + 2
  BY <1>2, <1>4
<1>6. V \in [Printed(d) -> 1 .. (n + 1) + 2]
  BY <1>5
<1> HIDE DEF V
<1>7. Ids(out) = Names(page)
  <2>1. \A x \in out : \E k \in 1 .. Len(page) : x.id = page[k].id
    BY <1>1 DEF Stand
  <2>2. \A i : i \in Ids(out) <=> \E x \in out : i = x.id
    BY DEF Ids
  <2>3. \A i : i \in Names(page) <=> \E k \in 1 .. Len(page) : i = page[k].id
    BY DEF Names
  <2>4. ASSUME NEW i \in Ids(out) PROVE i \in Names(page)
    <3>1. PICK x \in out : i = x.id
      BY <2>2
    <3>2. PICK k \in 1 .. Len(page) : x.id = page[k].id
      BY <2>1
    <3> QED
      BY <2>3, <3>1, <3>2
  <2>5. ASSUME NEW i \in Names(page) PROVE i \in Ids(out)
    <3>1. PICK k \in 1 .. Len(page) : i = page[k].id
      BY <2>3
    <3>2. PICK x \in out : x.id = page[k].id
      BY <1>1
    <3> QED
      BY <2>2, <3>1, <3>2
  <2> QED
    BY <2>4, <2>5
<1>8. Laid(pages2, << >>, queue, d, V)
  <2>1. \A p \in 1 .. n + 1 : Where(d, V, p) = Where(d, W, p)
    BY <1>2, <1>5 DEF Where
  <2>2. Where(d, V, n + 3) = Where(d, W, n + 2) /\ Where(d, V, n + 2) = {}
    BY <1>2, <1>5 DEF Where
  <2>3. /\ \A p \in 1 .. n : Ids(pages[p]) = Where(d, W, p)
        /\ Names(page) = Where(d, W, n + 1) /\ Names(queue) = Where(d, W, n + 2)
    BY <1>3 DEF Laid, n
  <2>4. \A p \in 1 .. n + 1 : Ids(pages2[p]) = Where(d, V, p)
    <3>1. SUFFICES ASSUME NEW p \in 1 .. n + 1 PROVE Ids(pages2[p]) = Where(d, W, p)
      BY <2>1
    <3>2. p \in 1 .. n \/ p = n + 1
      BY <1>2
    <3> QED
      BY <1>2, <1>7, <2>3, <3>2
  <2>5. Names(<< >>) = {}
    BY DEF Names
  <2>6. (n + 1) + 1 = n + 2 /\ (n + 1) + 2 = n + 3
    BY <1>2
  <2> QED
    BY <1>2, <1>6, <2>2, <2>3, <2>4, <2>5, <2>6 DEF Laid
<1>9. LevelsRise(d, V, n + 1)
  <2>1. Spreads(d, W, n, V, n + 1)
    BY <1>2, <1>5 DEF Spreads
  <2> QED
    BY <1>2, <1>3, <2>1, SpreadOrdered
<1>10. Single(out) /\ TextDown(out, d)
  <2>1. SUFFICES ASSUME NEW x \in out, NEW y \in out
                 PROVE  /\ x.id = y.id => x = y
                        /\ d[x.id].kind = "box" /\ d[y.id].kind = "box" /\ x.id < y.id => x.at + x.h <= y.at
    BY DEF Single, TextDown
  <2>2. PICK k \in 1 .. Len(page), l \in 1 .. Len(page) : Stand(page, x, y, k, l)
    BY <1>1
  <2>3. page[k].id = page[l].id => k = l
    BY DEF Fine, Distinct
  <2>4. d[page[k].id].kind = "box" /\ d[page[l].id].kind = "box" /\ page[k].id < page[l].id => k < l
    BY DEF Fine, InText
  <2> QED
    BY <2>2, <2>3, <2>4 DEF Stand
<1>11. \A p \in 1 .. n + 1 : Single(pages2[p]) /\ TextDown(pages2[p], d)
  <2>1. SUFFICES ASSUME NEW p \in 1 .. n + 1 PROVE Single(pages2[p]) /\ TextDown(pages2[p], d)
    OBVIOUS
  <2>2. p \in 1 .. n \/ p = n + 1
    BY <1>2
  <2>3. \A r \in 1 .. n : Single(pages[r]) /\ TextDown(pages[r], d)
    BY DEF Fine, n
  <2> QED
    BY <1>2, <1>10, <2>2, <2>3
<1>12. Distinct(<< >>) /\ InText(<< >>, d)
  BY DEF Distinct, InText
<1>13. Fine(pages2, << >>, queue, d)
  <2>1. DOMAIN d \in SUBSET Nat /\ Rising(queue)
    BY DEF Fine
  <2> QED
    BY <1>2, <1>8, <1>9, <1>11, <1>12, <2>1 DEF Fine
<1> QED
  BY <1>2, <1>13 DEF pages2, out

(* An empty page is put before the open one.                               *)
LEMMA BlankPage ==
  ASSUME NEW pages \in Seq(SUBSET Spots), NEW page, NEW queue, NEW d, Fine(pages, page, queue, d)
  PROVE  Append(pages, {}) \in Seq(SUBSET Spots) /\ Fine(Append(pages, {}), page, queue, d)
<1> DEFINE n == Len(pages)
           pages2 == Append(pages, {})
<1>1. {} \in SUBSET Spots
  OBVIOUS
<1>2. /\ pages2 \in Seq(SUBSET Spots) /\ n \in Nat /\ Len(pages2) = n + 1
      /\ \A p \in 1 .. n : pages2[p] = pages[p]
      /\ pages2[n + 1] = {}
  BY <1>1, OneMorePage
<1> HIDE DEF n, pages2
<1>3. PICK W : Laid(pages, page, queue, d, W) /\ LevelsRise(d, W, n)
  BY DEF Fine, n
<1> DEFINE V == [i \in Printed(d) |-> IF W[i] > n THEN W[i] + 1 ELSE W[i]]
<1>4. W \in [Printed(d) -> 1 .. n + 2]
  BY <1>3 DEF Laid, n
<1>5. \A i \in Printed(d) : /\ W[i] \in 1 .. n + 2
                            /\ V[i] = IF W[i] > n THEN W[i] + 1 ELSE W[i]
                            /\ V[i] \in 1 .. (n + 1) + 2
  BY <1>2, <1>4
<1>6. V \in [Printed(d) -> 1 .. (n + 1) + 2]
  BY <1>5
<1> HIDE DEF V
<1>7. Laid(pages2, page, queue, d, V)
  <2>1. \A p \in 1 .. n : Where(d, V, p) = Where(d, W, p)
    BY <1>2, <1>5 DEF Where
  <2>2. Where(d, V, n + 1) = {}
    BY <1>2, <1>5 DEF Where
  <2>3. Where(d, V, (n + 1) + 1) = Where(d, W, n + 1) /\ Where(d, V, (n + 1) + 2) = Where(d, W, n + 2)
    BY <1>2, <1>5 DEF Where
  <2>4. /\ \A p \in 1 .. n : Ids(pages[p]) = Where(d, W, p)
        /\ Names(page) = Where(d, W, n + 1) /\ Names(queue) = Where(d, W, n + 2)
    BY <1>3 DEF Laid, n
  <2>5. \A p \in 1 .. n + 1 : Ids(pages2[p]) = Where(d, V, p)
    <3>1. SUFFICES ASSUME NEW p \in 1 .. n + 1 PROVE Ids(pages2[p]) = Where(d, V, p)
      OBVIOUS
    <3>2. p \in 1 .. n \/ p = n + 1
      BY <1>2
    <3>3. Ids({}) = {}
      BY DEF Ids
    <3> QED
      BY <1>2, <2>1, <2>2, <2>4, <3>2, <3>3
  <2> QED
    BY <1>2, <1>6, <2>3, <2>4, <2>5 DEF Laid
<1>8. LevelsRise(d, V, n + 1)
  <2>1. Spreads(d, W, n, V, n + 1)
    BY <1>2, <1>5 DEF Spreads
  <2> QED
    BY <1>2, <1>3, <2>1, SpreadOrdered
<1>9. \A p \in 1 .. n + 1 : Single(pages2[p]) /\ TextDown(pages2[p], d)
  <2>1. SUFFICES ASSUME NEW p \in 1 .. n + 1 PROVE Single(pages2[p]) /\ TextDown(pages2[p], d)
    OBVIOUS
  <2>2. p \in 1 .. n \/ p = n + 1
    BY <1>2
  <2>3. \A r \in 1 .. n : Single(pages[r]) /\ TextDown(pages[r], d)
    BY DEF Fine, n
  <2>4. Single({}) /\ TextDown({}, d)
    BY DEF Single, TextDown
  <2> QED
    BY <1>2, <2>2, <2>3, <2>4
<1>10. Fine(pages2, page, queue, d)
  <2>1. DOMAIN d \in SUBSET Nat /\ Distinct(page) /\ InText(page, d) /\ Rising(queue)
    BY DEF Fine
  <2> QED
    BY <1>2, <1>7, <1>8, <1>9, <2>1 DEF Fine
<1> QED
  BY <1>2, <1>10 DEF pages2

(* One more item was read.                                                 *)
Grows(d, d2, item) ==
  /\ item.id \in Nat /\ \A i \in DOMAIN d : i < item.id
  /\ DOMAIN d2 = DOMAIN d \cup {item.id}
  /\ d2[item.id] = item
  /\ \A i \in DOMAIN d : d2[i] = d[i]

(* The text on a finished page is what it was.                             *)
LEMMA PagesStand ==
  ASSUME NEW pages, NEW page, NEW queue, NEW d, NEW d2, NEW item, Grows(d, d2, item),
         Fine(pages, page, queue, d)
  PROVE  \A p \in 1 .. Len(pages) : Single(pages[p]) /\ TextDown(pages[p], d2)
<1>1. SUFFICES ASSUME NEW p \in 1 .. Len(pages) PROVE Single(pages[p]) /\ TextDown(pages[p], d2)
  OBVIOUS
<1>2. PICK W : Laid(pages, page, queue, d, W)
  BY DEF Fine
<1>3. \A x \in pages[p] : x.id \in Printed(d)
  <2>1. Ids(pages[p]) = Where(d, W, p)
    BY <1>2 DEF Laid
  <2> QED
    BY <2>1 DEF Ids, Where
<1>4. \A x \in pages[p] : d2[x.id] = d[x.id]
  BY <1>3 DEF Grows, Printed
<1>5. Single(pages[p]) /\ TextDown(pages[p], d)
  BY DEF Fine
<1> QED
  BY <1>4, <1>5 DEF TextDown

(* A box or a float goes to the open page or into the queue.               *)
LEMMA PieceRead ==
  ASSUME NEW pages \in Seq(SUBSET Spots), NEW page, NEW queue, NEW d, NEW d2, NEW item, NEW lev \in Nat,
         Grows(d, d2, item), Fine(pages, page, queue, d), Renders(item),
         NEW page2, NEW queue2,
         \/ /\ lev = Len(pages) + 1
            /\ item.kind = "box" \/ "here" \in item.place
            /\ Names(page2) = Names(page) \cup {item.id}
            /\ Names(queue2) = Names(queue)
         \/ /\ lev = Len(pages) + 2
            /\ item.kind = "float"
            /\ Names(page2) = Names(page)
            /\ Names(queue2) = Names(queue) \cup {item.id},
         Distinct(page2), InText(page2, d2), Rising(queue2)
  PROVE  Fine(pages, page2, queue2, d2)
<1> DEFINE n == Len(pages)
           new == item.id
<1>1. n \in Nat /\ new \in Nat /\ new \notin DOMAIN d /\ DOMAIN d \in SUBSET Nat /\ DOMAIN d2 \in SUBSET Nat
  <2>1. DOMAIN d \in SUBSET Nat /\ n \in Nat
    BY DEF Fine
  <2>2. new \in Nat /\ \A i \in DOMAIN d : i < new
    BY DEF Grows
  <2>3. new \notin DOMAIN d
    BY <2>2
  <2>4. DOMAIN d2 \in SUBSET Nat
    BY <2>1, <2>2 DEF Grows
  <2> QED
    BY <2>1, <2>2, <2>3, <2>4
<1>2. Printed(d2) = Printed(d) \cup {new} /\ Printed(d) \in SUBSET DOMAIN d
  BY DEF Grows, Printed
<1>3. /\ \A i \in Printed(d) : i \in Nat /\ i < new /\ i # new /\ d2[i] = d[i]
      /\ \A i \in DOMAIN d : d2[i] = d[i]
      /\ d2[new] = item
  BY <1>1, <1>2 DEF Grows
<1>4. PICK W : Laid(pages, page, queue, d, W) /\ LevelsRise(d, W, n)
  BY DEF Fine
<1> DEFINE V == [i \in Printed(d2) |-> IF i = new THEN lev ELSE W[i]]
<1>5. W \in [Printed(d) -> 1 .. n + 2]
  BY <1>4 DEF Laid
<1>6. lev = n + 1 \/ lev = n + 2
  OBVIOUS
<1>7. V \in [Printed(d2) -> 1 .. n + 2]
  BY <1>1, <1>2, <1>5, <1>6
<1>8. V[new] = lev /\ \A i \in Printed(d) : V[i] = W[i] /\ W[i] \in 1 .. n + 2
  BY <1>2, <1>3, <1>5
<1> HIDE DEF V
<1>9. \A p : Where(d2, V, p) = IF p = lev THEN Where(d, W, p) \cup {new} ELSE Where(d, W, p)
  BY <1>2, <1>3, <1>8 DEF Where
<1>10. Laid(pages, page2, queue2, d2, V)
  <2>1. /\ \A p \in 1 .. n : Ids(pages[p]) = Where(d, W, p)
        /\ Names(page) = Where(d, W, n + 1) /\ Names(queue) = Where(d, W, n + 2)
    BY <1>4 DEF Laid
  <2>2. \A p \in 1 .. n : p # lev
    BY <1>1, <1>6
  <2>3. n + 1 # n + 2
    BY <1>1
  <2>4. Names(page2) = Where(d2, V, n + 1) /\ Names(queue2) = Where(d2, V, n + 2)
    <3>1. CASE lev = n + 1
      <4>1. Names(page2) = Names(page) \cup {new} /\ Names(queue2) = Names(queue)
        BY <2>3, <3>1
      <4> QED
        BY <1>9, <2>1, <2>3, <3>1, <4>1
    <3>2. CASE lev = n + 2
      <4>1. Names(page2) = Names(page) /\ Names(queue2) = Names(queue) \cup {new}
        BY <2>3, <3>2
      <4> QED
        BY <1>9, <2>1, <2>3, <3>2, <4>1
    <3> QED
      BY <1>6, <3>1, <3>2
  <2>5. \A p \in 1 .. n : Ids(pages[p]) = Where(d2, V, p)
    BY <1>9, <2>1, <2>2
  <2> QED
    BY <1>7, <2>4, <2>5 DEF Laid
<1>11. LevelsRise(d2, V, n)
  <2>0. \A i \in Printed(d) : W[i] = n + 2 => d[i].kind = "float"
    BY <1>4 DEF LevelsRise, OnlyFloats
  <2>1. TextRises(d2, V)
    <3>1. SUFFICES ASSUME NEW i \in Printed(d2), NEW j \in Printed(d2), i < j,
                          d2[i].kind = "box", d2[j].kind = "box"
                   PROVE  V[i] <= V[j]
      BY DEF TextRises
    <3>2. i \in Printed(d)
      BY <1>1, <1>2, <1>3, <3>1
    <3>3. CASE j \in Printed(d)
      BY <1>3, <1>4, <1>8, <3>1, <3>2, <3>3 DEF LevelsRise, TextRises
    <3>4. CASE j = new
      <4>1. W[i] # n + 2
        BY <1>3, <2>0, <3>1, <3>2
      <4> QED
        BY <1>1, <1>6, <1>8, <3>2, <3>4, <4>1
    <3> QED
      BY <1>2, <3>3, <3>4
  <2>2. FloatsRise(d2, V)
    <3>1. SUFFICES ASSUME NEW i \in Printed(d2), NEW j \in Printed(d2), i < j,
                          d2[i].kind = "float", d2[j].kind = "float", "here" \notin d2[j].place
                   PROVE  V[i] <= V[j]
      BY DEF FloatsRise
    <3>2. i \in Printed(d)
      BY <1>1, <1>2, <1>3, <3>1
    <3>3. CASE j \in Printed(d)
      BY <1>3, <1>4, <1>8, <3>1, <3>2, <3>3 DEF LevelsRise, FloatsRise
    <3>4. CASE j = new
      <4>1. lev = n + 2
        BY <1>3, <3>1, <3>4
      <4> QED
        BY <1>1, <1>8, <3>2, <3>4, <4>1
    <3> QED
      BY <1>2, <3>3, <3>4
  <2>3. ClearsHold(d2, V, n)
    <3>1. SUFFICES ASSUME NEW c \in DOMAIN d2, d2[c].kind = "clear", NEW i \in Printed(d2), i < c
                   PROVE  V[i] <= n /\ \A j \in Printed(d2) : c < j => V[i] < V[j]
      BY DEF ClearsHold
    <3>2. c \in DOMAIN d
      <4>1. c # new
        BY <1>3, <3>1 DEF Renders
      <4> QED
        BY <4>1 DEF Grows
    <3>3. i \in Printed(d)
      <4>1. c < new
        BY <3>2 DEF Grows
      <4>2. c \in Nat
        BY <1>1, <3>2
      <4>3. i # new
        BY <1>1, <3>1, <4>1, <4>2
      <4> QED
        BY <1>2, <4>3
    <3>4. W[i] <= n /\ \A j \in Printed(d) : c < j => W[i] < W[j]
      BY <1>3, <1>4, <3>1, <3>2, <3>3 DEF LevelsRise, ClearsHold
    <3>5. V[i] = W[i] /\ W[i] \in 1 .. n + 2
      BY <1>8, <3>3
    <3>6. \A j \in Printed(d2) : j \in Printed(d) \/ V[j] = lev
      BY <1>2, <1>8
    <3>7. W[i] < lev
      BY <1>1, <1>6, <3>4, <3>5
    <3> QED
      BY <1>8, <3>4, <3>5, <3>6, <3>7
  <2>4. OnlyFloats(d2, V, n)
    <3>1. SUFFICES ASSUME NEW i \in Printed(d2), V[i] = n + 2 PROVE d2[i].kind = "float"
      BY DEF OnlyFloats
    <3>2. CASE i \in Printed(d)
      BY <1>3, <1>8, <2>0, <3>1, <3>2
    <3>3. CASE i = new
      <4>1. lev # n + 1
        BY <1>1, <1>8, <3>1, <3>3
      <4> QED
        BY <1>3, <3>3, <4>1
    <3> QED
      BY <1>2, <3>2, <3>3
  <2> QED
    BY <2>1, <2>2, <2>3, <2>4 DEF LevelsRise
<1>12. \A p \in 1 .. n : Single(pages[p]) /\ TextDown(pages[p], d2)
  BY PagesStand
<1> QED
  BY <1>1, <1>10, <1>11, <1>12 DEF Fine

(* A break is not printed.  Nothing waits and no page is open at a         *)
(* \clearpage.                                                             *)
LEMMA MarkRead ==
  ASSUME NEW pages \in Seq(SUBSET Spots), NEW page, NEW queue, NEW d, NEW d2, NEW item,
         Grows(d, d2, item), Fine(pages, page, queue, d), ~ Renders(item),
         item.kind = "clear" => Names(page) = {} /\ Names(queue) = {}
  PROVE  Fine(pages, page, queue, d2)
<1> DEFINE n == Len(pages)
           new == item.id
<1>1. n \in Nat /\ new \in Nat /\ DOMAIN d \in SUBSET Nat /\ DOMAIN d2 \in SUBSET Nat
  BY DEF Fine, Grows
<1>2. PICK W : Laid(pages, page, queue, d, W) /\ LevelsRise(d, W, n)
  BY DEF Fine
<1>3. /\ Printed(d2) = Printed(d)
      /\ \A i \in Printed(d) : d2[i] = d[i] /\ i \in Nat /\ i < new
      /\ \A i \in DOMAIN d : d2[i] = d[i]
      /\ d2[new] = item
      /\ DOMAIN d2 = DOMAIN d \cup {new}
  BY <1>1 DEF Grows, Printed
<1>4. Laid(pages, page, queue, d2, W)
  BY <1>2, <1>3 DEF Laid, Where
<1>5. LevelsRise(d2, W, n)
  <2>1. TextRises(d2, W)
    BY <1>2, <1>3 DEF LevelsRise, TextRises
  <2>2. FloatsRise(d2, W)
    BY <1>2, <1>3 DEF LevelsRise, FloatsRise
  <2>3. OnlyFloats(d2, W, n)
    BY <1>2, <1>3 DEF LevelsRise, OnlyFloats
  <2>4. ClearsHold(d2, W, n)
    <3>1. SUFFICES ASSUME NEW c \in DOMAIN d2, d2[c].kind = "clear", NEW i \in Printed(d), i < c
                   PROVE  W[i] <= n /\ \A j \in Printed(d) : c < j => W[i] < W[j]
      BY <1>3 DEF ClearsHold
    <3>2. CASE c \in DOMAIN d
      BY <1>2, <1>3, <3>1, <3>2 DEF LevelsRise, ClearsHold
    <3>3. CASE c = new
      <4>1. Where(d, W, n + 1) = {} /\ Where(d, W, n + 2) = {}
        BY <1>2, <1>3, <3>1, <3>3 DEF Laid
      <4>2. W[i] # n + 1 /\ W[i] # n + 2
        BY <4>1 DEF Where
      <4>3. W[i] \in 1 .. n + 2
        BY <1>2 DEF Laid
      <4>4. W[i] <= n
        BY <1>1, <4>2, <4>3
      <4>5. \A j \in Printed(d) : j \in Nat /\ j < new
        BY <1>3
      <4>6. \A j \in Printed(d) : ~ c < j
        BY <1>1, <3>3, <4>5
      <4> QED
        BY <4>4, <4>6
    <3> QED
      BY <1>3, <3>2, <3>3
  <2> QED
    BY <2>1, <2>2, <2>3, <2>4 DEF LevelsRise
<1>6. InText(page, d2)
  <2>1. \A k \in 1 .. Len(page) : page[k].id \in Printed(d)
    <3>1. Names(page) = Where(d, W, n + 1)
      BY <1>2 DEF Laid
    <3> QED
      BY <3>1 DEF Names, Where
  <2>2. \A k \in 1 .. Len(page) : d2[page[k].id] = d[page[k].id]
    BY <1>3, <2>1
  <2>3. InText(page, d)
    BY DEF Fine
  <2> QED
    BY <2>2, <2>3 DEF InText
<1>7. \A p \in 1 .. n : Single(pages[p]) /\ TextDown(pages[p], d2)
  BY PagesStand
<1>8. Distinct(page) /\ Rising(queue)
  BY DEF Fine
<1> QED
  BY <1>1, <1>4, <1>5, <1>6, <1>7, <1>8 DEF Fine

(* Two rows of pieces become one.                                          *)
LEMMA JoinedElements ==
  ASSUME NEW a \in Seq(Pieces), NEW b \in Seq(Pieces)
  PROVE  /\ a \o b \in Seq(Pieces) /\ Len(a) \in Nat /\ Len(b) \in Nat /\ Len(a \o b) = Len(a) + Len(b)
         /\ \A k \in 1 .. Len(a) : (a \o b)[k] = a[k]
         /\ \A k \in Len(a) + 1 .. Len(a) + Len(b) : (a \o b)[k] = b[k - Len(a)] /\ k - Len(a) \in 1 .. Len(b)
         /\ \A k \in 1 .. Len(b) : (a \o b)[k + Len(a)] = b[k] /\ k + Len(a) \in 1 .. Len(a) + Len(b)
         /\ \A k \in 1 .. Len(a) + Len(b) : k \in 1 .. Len(a) \/ k \in Len(a) + 1 .. Len(a) + Len(b)
<1>1. /\ a \o b \in Seq(Pieces) /\ Len(a) \in Nat /\ Len(b) \in Nat /\ Len(a \o b) = Len(a) + Len(b)
      /\ \A k \in 1 .. Len(a) : (a \o b)[k] = a[k]
      /\ \A k \in Len(a) + 1 .. Len(a) + Len(b) : (a \o b)[k] = b[k - Len(a)]
  OBVIOUS
<1> DEFINE m == Len(a)
           n == Len(b)
           c == a \o b
<1> HIDE DEF m, n, c
<1>2. m \in Nat /\ n \in Nat /\ \A k \in m + 1 .. m + n : c[k] = b[k - m]
  BY <1>1 DEF m, n, c
<1>3. \A k \in m + 1 .. m + n : k - m \in 1 .. n
  BY <1>2
<1>4. \A k \in 1 .. n : c[k + m] = b[k] /\ k + m \in 1 .. m + n
  <2>1. SUFFICES ASSUME NEW k \in 1 .. n PROVE c[k + m] = b[k] /\ k + m \in 1 .. m + n
    OBVIOUS
  <2>2. k + m \in m + 1 .. m + n /\ k + m \in 1 .. m + n /\ (k + m) - m = k
    BY <1>2
  <2> QED
    BY <1>2, <2>2
<1>5. \A k \in 1 .. m + n : k \in 1 .. m \/ k \in m + 1 .. m + n
  BY <1>2
<1> QED
  BY <1>1, <1>3, <1>4, <1>5 DEF m, n, c

(* Two rows of pieces one below the other are laid out as they are.        *)
LEMMA LaidJoined ==
  ASSUME NEW a \in Seq(Pieces), NEW b \in Seq(Pieces), NEW start \in Nat
  PROVE  LaidOut(a \o b, start) = LaidOut(a, start) \cup LaidOut(b, start + Total(a))
<1> DEFINE m == Len(a)
           n == Len(b)
           c == a \o b
           at == start + Total(a)
<1>1. m \in Nat /\ n \in Nat /\ c \in Seq(Pieces) /\ Len(c) = m + n /\ at \in Nat
  BY SumsExist, TotalConcat
<1>2. PICK t : Sums(a, t)
  BY SumsExist
<1>3. PICK u : Sums(b, u)
  BY SumsExist
<1>4. PICK v : Below(a, b, t, u, v)
  BY <1>2, <1>3, SumsJoined
<1>5. /\ Sums(c, v)
      /\ \A k \in 0 .. m : v[k] = t[k]
      /\ \A k \in 0 .. n : v[m + k] = t[m] + u[k]
  BY <1>4 DEF Below
<1>6. /\ LaidOut(c, start) = {Row(c, start, v, k) : k \in 1 .. m + n}
      /\ LaidOut(a, start) = {Row(a, start, t, k) : k \in 1 .. m}
      /\ LaidOut(b, at) = {Row(b, at, u, k) : k \in 1 .. n}
  <2> HIDE DEF at, c
  <2>1. LaidOut(c, start) = {Row(c, start, v, k) : k \in 1 .. Len(c)}
    BY <1>1, <1>5, RowsAre
  <2>2. LaidOut(a, start) = {Row(a, start, t, k) : k \in 1 .. m}
    BY <1>2, RowsAre
  <2>3. LaidOut(b, at) = {Row(b, at, u, k) : k \in 1 .. n}
    BY <1>1, <1>3, RowsAre
  <2> QED
    BY <1>1, <2>1, <2>2, <2>3
<1>7. /\ \A k \in 1 .. m : c[k] = a[k]
      /\ \A k \in 1 .. n : c[k + m] = b[k] /\ k + m \in 1 .. m + n
      /\ \A k \in 1 .. m + n : k \in 1 .. m \/ k \in m + 1 .. m + n
  BY JoinedElements
<1>8. t[m] = Total(a) /\ t[m] \in Nat /\ \A k \in 0 .. n : u[k] \in Nat
  <2>1. m \in 0 .. m
    BY <1>1
  <2> QED
    BY <1>2, <1>3, <2>1, TotalIs DEF Sums
<1> HIDE DEF m, n, c
<1>9. ASSUME NEW k \in 1 .. m PROVE Row(c, start, v, k) = Row(a, start, t, k) /\ k \in 1 .. m + n
  <2>1. k - 1 \in 0 .. m /\ k \in 1 .. m + n
    BY <1>1
  <2> QED
    BY <1>5, <1>7, <2>1 DEF Row
<1>10. ASSUME NEW k \in 1 .. n PROVE Row(c, start, v, k + m) = Row(b, at, u, k) /\ k + m \in 1 .. m + n
  <2>1. k - 1 \in 0 .. n /\ (k + m) - 1 = m + (k - 1)
    BY <1>1
  <2>2. v[(k + m) - 1] = t[m] + u[k - 1]
    BY <1>5, <2>1
  <2>3. start + v[(k + m) - 1] = at + u[k - 1]
    <3>1. t[m] \in Nat /\ u[k - 1] \in Nat /\ Total(a) = t[m]
      BY <1>8, <2>1
    <3> QED
      BY <2>2, <3>1
  <2> HIDE DEF at
  <2> QED
    BY <1>7, <2>3 DEF Row
<1>11. ASSUME NEW k \in m + 1 .. m + n PROVE k - m \in 1 .. n /\ (k - m) + m = k
  BY <1>1
<1> HIDE DEF at
<1>12. LaidOut(a, start) \cup LaidOut(b, at) \subseteq LaidOut(c, start)
  <2>1. LaidOut(a, start) \subseteq LaidOut(c, start)
    BY <1>6, <1>9
  <2>2. LaidOut(b, at) \subseteq LaidOut(c, start)
    BY <1>6, <1>10
  <2> QED
    BY <2>1, <2>2
<1>13. LaidOut(c, start) \subseteq LaidOut(a, start) \cup LaidOut(b, at)
  <2>1. SUFFICES ASSUME NEW k \in 1 .. m + n
                 PROVE  Row(c, start, v, k) \in LaidOut(a, start) \cup LaidOut(b, at)
    BY <1>6
  <2>2. CASE k \in 1 .. m
    BY <1>6, <1>9, <2>2
  <2>3. CASE k \in m + 1 .. m + n
    <3>1. Row(c, start, v, k) = Row(b, at, u, k - m) /\ k - m \in 1 .. n
      BY <1>10, <1>11, <2>3
    <3> QED
      BY <1>6, <3>1
  <2> QED
    BY <1>7, <2>2, <2>3
<1> QED
  BY <1>12, <1>13 DEF at, c

(* Two lists of pieces, one behind the other.                              *)
LEMMA Joined ==
  ASSUME NEW a \in Seq(Pieces), NEW b \in Seq(Pieces)
  PROVE  /\ a \o b \in Seq(Pieces)
         /\ Names(a \o b) = Names(a) \cup Names(b)
         /\ Distinct(a) /\ Distinct(b) /\ Names(a) \cap Names(b) = {} => Distinct(a \o b)
<1> DEFINE m == Len(a)
           n == Len(b)
           c == a \o b
<1>1. /\ c \in Seq(Pieces) /\ m \in Nat /\ n \in Nat /\ Len(c) = m + n
      /\ \A k \in 1 .. m : c[k] = a[k]
      /\ \A k \in m + 1 .. m + n : c[k] = b[k - m] /\ k - m \in 1 .. n
      /\ \A k \in 1 .. n : c[k + m] = b[k] /\ k + m \in 1 .. m + n
      /\ \A k \in 1 .. m + n : k \in 1 .. m \/ k \in m + 1 .. m + n
  BY JoinedElements
<1>2. Names(a) = {a[k].id : k \in 1 .. m} /\ Names(b) = {b[k].id : k \in 1 .. n}
      /\ Names(c) = {c[k].id : k \in 1 .. m + n}
  BY <1>1 DEF Names
<1> HIDE DEF m, n, c
<1>3. Names(c) = Names(a) \cup Names(b)
  <2>1. \A k \in 1 .. m + n : c[k].id \in Names(a) \cup Names(b)
    BY <1>1, <1>2
  <2>2. \A k \in 1 .. m : a[k].id \in Names(c)
    <3>1. \A k \in 1 .. m : k \in 1 .. m + n /\ c[k].id = a[k].id
      BY <1>1
    <3> QED
      BY <1>2, <3>1
  <2>3. \A k \in 1 .. n : b[k].id \in Names(c)
    <3>1. \A k \in 1 .. n : k + m \in 1 .. m + n /\ c[k + m].id = b[k].id
      BY <1>1
    <3> QED
      BY <1>2, <3>1
  <2> QED
    BY <1>2, <2>1, <2>2, <2>3
<1>4. ASSUME Distinct(a), Distinct(b), Names(a) \cap Names(b) = {} PROVE Distinct(c)
  <2>1. SUFFICES ASSUME NEW k \in 1 .. m + n, NEW l \in 1 .. m + n, c[k].id = c[l].id PROVE k = l
    BY <1>1 DEF Distinct
  <2>2. \A i \in 1 .. m, j \in 1 .. n : a[i].id # b[j].id
    BY <1>2, <1>4
  <2>3. CASE k \in 1 .. m /\ l \in 1 .. m
    BY <1>1, <1>4, <2>1, <2>3 DEF Distinct, m
  <2>4. CASE k \in m + 1 .. m + n /\ l \in m + 1 .. m + n
    <3>0. /\ k - m \in 1 .. n /\ l - m \in 1 .. n
          /\ b[k - m].id = b[l - m].id
      BY <1>1, <2>1, <2>4
    <3>1. k - m = l - m
      BY <1>4, <3>0 DEF Distinct, n
    <3> QED
      BY <1>1, <3>1
  <2>5. CASE k \in 1 .. m /\ l \in m + 1 .. m + n
    <3>1. c[k] = a[k] /\ c[l] = b[l - m] /\ l - m \in 1 .. n
      BY <1>1, <2>5
    <3>2. a[k].id # b[l - m].id
      BY <2>2, <2>5, <3>1
    <3> QED
      BY <2>1, <3>1, <3>2
  <2>6. CASE k \in m + 1 .. m + n /\ l \in 1 .. m
    <3>1. c[k] = b[k - m] /\ k - m \in 1 .. n /\ c[l] = a[l]
      BY <1>1, <2>6
    <3>2. a[l].id # b[k - m].id
      BY <2>2, <2>6, <3>1
    <3> QED
      BY <2>1, <3>1, <3>2
  <2> QED
    BY <1>1, <2>3, <2>4, <2>5, <2>6
<1> QED
  BY <1>1, <1>3, <1>4 DEF c

(* The text stays in order when no box of the second row is before one of  *)
(* the first.                                                              *)
LEMMA JoinedText ==
  ASSUME NEW a \in Seq(Pieces), NEW b \in Seq(Pieces), NEW d, InText(a, d), InText(b, d),
         \A k \in 1 .. Len(a), l \in 1 .. Len(b) :
           d[a[k].id].kind = "box" /\ d[b[l].id].kind = "box" => a[k].id < b[l].id
  PROVE  InText(a \o b, d)
<1> DEFINE m == Len(a)
           n == Len(b)
           c == a \o b
<1>1. /\ c \in Seq(Pieces) /\ m \in Nat /\ n \in Nat /\ Len(c) = m + n
      /\ \A k \in 1 .. m : c[k] = a[k]
      /\ \A k \in m + 1 .. m + n : c[k] = b[k - m] /\ k - m \in 1 .. n
      /\ \A k \in 1 .. m + n : k \in 1 .. m \/ k \in m + 1 .. m + n
  BY JoinedElements
<1>2. \A k \in 1 .. m : a[k].id \in Nat
  BY PieceParts
<1>3. \A k \in 1 .. n : b[k].id \in Nat
  BY PieceParts
<1> HIDE DEF c
<1>4. SUFFICES ASSUME NEW k \in 1 .. m + n, NEW l \in 1 .. m + n,
                      d[c[k].id].kind = "box", d[c[l].id].kind = "box", c[k].id < c[l].id
               PROVE  k < l
  BY <1>1 DEF InText, c
<1>5. CASE k \in 1 .. m /\ l \in 1 .. m
  BY <1>1, <1>4, <1>5 DEF InText
<1>6. CASE k \in m + 1 .. m + n /\ l \in m + 1 .. m + n
  <2>1. k - m < l - m
    <3>1. c[k] = b[k - m] /\ k - m \in 1 .. n /\ c[l] = b[l - m] /\ l - m \in 1 .. n
      BY <1>1, <1>6
    <3>2. \A i, j \in 1 .. n : d[b[i].id].kind = "box" /\ d[b[j].id].kind = "box" /\ b[i].id < b[j].id => i < j
      BY DEF InText
    <3> QED
      BY <1>4, <3>1, <3>2
  <2> QED
    BY <1>1, <1>6, <2>1
<1>7. CASE k \in 1 .. m /\ l \in m + 1 .. m + n
  BY <1>1, <1>7
<1>8. CASE k \in m + 1 .. m + n /\ l \in 1 .. m
  <2>1. c[k] = b[k - m] /\ k - m \in 1 .. n /\ c[l] = a[l]
    BY <1>1, <1>8
  <2>2. a[l].id < b[k - m].id
    BY <1>4, <1>8, <2>1
  <2>3. a[l].id \in Nat /\ b[k - m].id \in Nat
    BY <1>2, <1>3, <1>8, <2>1
  <2> QED
    BY <1>4, <2>1, <2>2, <2>3
<1> QED
  BY <1>1, <1>5, <1>6, <1>7, <1>8

(* The queue is cut.                                                       *)
LEMMA QueueCut ==
  ASSUME NEW q \in Seq(Pieces), NEW m \in 0 .. Len(q)
  PROVE  /\ Len(q) \in Nat
         /\ SubSeq(q, 1, m) \in Seq(Pieces) /\ SubSeq(q, m + 1, Len(q)) \in Seq(Pieces)
         /\ Len(SubSeq(q, 1, m)) = m /\ \A k \in 1 .. m : SubSeq(q, 1, m)[k] = q[k]
         /\ Names(SubSeq(q, 1, m)) = FirstNames(q, m)
         /\ Names(SubSeq(q, m + 1, Len(q))) = LastNames(q, m)
         /\ Rising(q) => Distinct(SubSeq(q, 1, m)) /\ Rising(SubSeq(q, m + 1, Len(q)))
         /\ m = Len(q) => SubSeq(q, m + 1, Len(q)) = << >>
<1> DEFINE n == Len(q)
           a == SubSeq(q, 1, m)
           b == SubSeq(q, m + 1, n)
<1>1. n \in Nat /\ m \in Nat /\ m <= n
  BY SumsExist
<1>2. \A k \in 1 .. n : q[k] \in Pieces /\ q[k].id \in Nat
  BY PieceParts
<1>3. a \in Seq(Pieces) /\ Len(a) = m /\ \A k \in 1 .. m : a[k] = q[k]
  <2>1. \A k \in 1 .. m : q[k] \in Pieces
    BY <1>1, <1>2
  <2>2. /\ a \in Seq(Pieces) /\ Len(a) = IF 1 <= m THEN m - 1 + 1 ELSE 0
        /\ \A k \in 1 .. m - 1 + 1 : a[k] = q[1 + k - 1]
    BY <1>1, <2>1, SubSeqProperties
  <2> QED
    BY <1>1, <2>2
<1>4. b \in Seq(Pieces) /\ Len(b) = n - m /\ \A k \in 1 .. n - m : b[k] = q[m + k]
  <2>1. \A k \in m + 1 .. n : q[k] \in Pieces
    BY <1>1, <1>2
  <2>2. /\ b \in Seq(Pieces) /\ Len(b) = IF m + 1 <= n THEN n - (m + 1) + 1 ELSE 0
        /\ \A k \in 1 .. n - (m + 1) + 1 : b[k] = q[m + 1 + k - 1]
    BY <1>1, <2>1, SubSeqProperties
  <2>3. Len(b) = n - m
    BY <1>1, <2>2
  <2>4. ASSUME NEW k \in 1 .. n - m PROVE b[k] = q[m + k]
    <3>1. k \in 1 .. n - (m + 1) + 1 /\ m + 1 + k - 1 = m + k
      BY <1>1
    <3> QED
      BY <2>2, <3>1
  <2> QED
    BY <2>2, <2>3, <2>4
<1> HIDE DEF a, b
<1>5. Names(a) = FirstNames(q, m)
  BY <1>3 DEF Names, FirstNames
<1>6. Names(b) = LastNames(q, m)
  <2>1. Names(b) = {b[k].id : k \in 1 .. n - m}
    BY <1>4 DEF Names
  <2>2. \A k \in 1 .. n - m : m + k \in m + 1 .. n
    BY <1>1
  <2>3. ASSUME NEW k \in m + 1 .. n PROVE k - m \in 1 .. n - m /\ b[k - m] = q[k]
    <3>1. k - m \in 1 .. n - m /\ m + (k - m) = k
      BY <1>1
    <3> QED
      BY <1>4, <3>1
  <2>4. \A k \in 1 .. n - m : b[k].id \in {q[l].id : l \in m + 1 .. n}
    BY <1>4, <2>2
  <2>5. \A k \in m + 1 .. n : q[k].id \in {b[l].id : l \in 1 .. n - m}
    BY <2>3
  <2> QED
    BY <2>1, <2>4, <2>5 DEF LastNames
<1>7. ASSUME Rising(q) PROVE Distinct(a) /\ Rising(b)
  <2>1. \A k, l \in 1 .. n : k < l => q[k].id < q[l].id
    BY <1>7 DEF Rising
  <2>2. \A k, l \in 1 .. n : q[k].id = q[l].id => k = l
    BY <1>1, <1>2, <2>1
  <2>3. Distinct(a)
    <3>1. \A k \in 1 .. m : k \in 1 .. n
      BY <1>1
    <3> QED
      BY <1>3, <2>2, <3>1 DEF Distinct
  <2>4. Rising(b)
    <3>1. SUFFICES ASSUME NEW k \in 1 .. n - m, NEW l \in 1 .. n - m, k < l PROVE b[k].id < b[l].id
      BY <1>4 DEF Rising
    <3>2. m + k \in 1 .. n /\ m + l \in 1 .. n /\ m + k < m + l
      BY <1>1, <3>1
    <3> QED
      BY <1>4, <2>1, <3>2
  <2> QED
    BY <2>3, <2>4
<1>8. m = n => b = << >>
  BY <1>1, <1>4
<1> QED
  BY <1>1, <1>3, <1>4, <1>5, <1>6, <1>7, <1>8 DEF a, b

-----------------------------------------------------------------------------
(* What a machine keeps true: its pages, its open page and its queue hold  *)
(* what was read, and what is on its pages is below each other.            *)
Held(s, d) == Fine(s.pages, s.page, s.queue, d)

Uncovered(out) == \A x, y \in out : x.id # y.id => (x.at + x.h <= y.at \/ y.at + y.h <= x.at)

Tidy(s, at) ==
  /\ s.used = s.start + Total(s.page)
  /\ s.start \in {0, at} /\ (s.start > 0 => s.pages = << >>)
  /\ \A p \in 1 .. Len(s.pages) : Uncovered(s.pages[p])
  /\ s.pages # << >> => \A x \in s.pages[Len(s.pages)] : x.at + x.h <= s.last
  /\ s.pages = << >> => s.last >= at
  /\ s.continued => /\ at > 0 /\ s.pages # << >>
                    /\ \A x \in s.pages[1] : x.at >= at
                    /\ Len(s.pages) = 1 => s.last >= at

Keeps(s, t, d, at) ==
  /\ t \in States
  /\ Held(s, d) => Held(t, d)
  /\ Tidy(s, at) => Tidy(t, at)

(* The parts of a state of the builder.                                    *)
LEMMA StateParts ==
  ASSUME NEW s \in States
  PROVE  /\ s.pages \in Seq(SUBSET Spots) /\ s.page \in Seq(Pieces) /\ s.queue \in Seq(Pieces)
         /\ s.used \in Nat /\ s.start \in Nat /\ s.last \in Nat
         /\ s.continued \in BOOLEAN /\ s.explicit \in BOOLEAN
         /\ Len(s.pages) \in Nat /\ Len(s.page) \in Nat /\ Len(s.queue) \in Nat
         /\ Total(s.page) \in Nat /\ Total(s.queue) \in Nat
<1>1. /\ s.pages \in Seq(SUBSET Spots) /\ s.page \in Seq(Pieces) /\ s.queue \in Seq(Pieces)
      /\ s.used \in Nat /\ s.start \in Nat /\ s.last \in Nat
      /\ s.continued \in BOOLEAN /\ s.explicit \in BOOLEAN
  BY DEF States
<1>2. Len(s.pages) \in Nat /\ Len(s.page) \in Nat /\ Len(s.queue) \in Nat
  BY <1>1
<1>3. Total(s.page) \in Nat /\ Total(s.queue) \in Nat
  BY <1>1, TotalConcat
<1> QED
  BY <1>1, <1>2, <1>3

(* Leaving a state as it is keeps it.                                      *)
LEMMA KeepsSame ==
  ASSUME NEW s \in States, NEW d, NEW at
  PROVE  Keeps(s, s, d, at)
BY DEF Keeps

(* Operations that keep a state can follow each other.                     *)
LEMMA KeepsChain ==
  ASSUME NEW s, NEW t, NEW u, NEW d, NEW at, Keeps(s, t, d, at), Keeps(t, u, d, at)
  PROVE  Keeps(s, u, d, at)
BY DEF Keeps

(* What waits are floats, and it is not on the open page.                  *)
LEMMA QueueIsFloats ==
  ASSUME NEW pages, NEW page, NEW queue, NEW d, Fine(pages, page, queue, d), Len(pages) \in Nat
  PROVE  /\ Names(page) \cap Names(queue) = {}
         /\ \A i \in Names(queue) : d[i].kind = "float"
         /\ \A i \in Names(page) \cup Names(queue) : i \in Printed(d)
<1>1. PICK W : Laid(pages, page, queue, d, W) /\ LevelsRise(d, W, Len(pages))
  BY DEF Fine
<1>2. /\ Names(page) = {i \in Printed(d) : W[i] = Len(pages) + 1}
      /\ Names(queue) = {i \in Printed(d) : W[i] = Len(pages) + 2}
  BY <1>1 DEF Laid, Where
<1>3. Len(pages) + 1 # Len(pages) + 2
  OBVIOUS
<1> QED
  BY <1>1, <1>2, <1>3 DEF LevelsRise, OnlyFloats

(* The first m waiting floats are put under what is on the page, or above  *)
(* it.                                                                     *)
LEMMA FloatsPlaced ==
  ASSUME NEW pages \in Seq(SUBSET Spots), NEW page \in Seq(Pieces), NEW queue \in Seq(Pieces),
         NEW d, NEW m \in 0 .. Len(queue), NEW page2,
         page2 = page \o SubSeq(queue, 1, m) \/ page2 = SubSeq(queue, 1, m) \o page
  PROVE  /\ page2 \in Seq(Pieces) /\ SubSeq(queue, m + 1, Len(queue)) \in Seq(Pieces)
         /\ Total(page2) = Total(page) + Total(SubSeq(queue, 1, m)) /\ Total(SubSeq(queue, 1, m)) \in Nat
         /\ Fine(pages, page, queue, d) => Fine(pages, page2, SubSeq(queue, m + 1, Len(queue)), d)
<1> DEFINE a == SubSeq(queue, 1, m)
           b == SubSeq(queue, m + 1, Len(queue))
<1>1. /\ a \in Seq(Pieces) /\ b \in Seq(Pieces) /\ Len(queue) \in Nat
      /\ Len(a) = m /\ \A k \in 1 .. m : a[k] = queue[k]
      /\ Names(a) = FirstNames(queue, m) /\ Names(b) = LastNames(queue, m)
      /\ Rising(queue) => Distinct(a) /\ Rising(b)
  BY QueueCut
<1> HIDE DEF a, b
<1>2. page2 = page \o a \/ page2 = a \o page
  BY DEF a
<1>3. page2 \in Seq(Pieces)
  BY <1>1, <1>2, JoinedElements
<1>4. Total(page2) = Total(page) + Total(a) /\ Total(a) \in Nat
  <2>1. /\ Total(page) \in Nat /\ Total(a) \in Nat
        /\ Total(page \o a) = Total(page) + Total(a) /\ Total(a \o page) = Total(a) + Total(page)
    BY <1>1, TotalConcat
  <2>2. Total(a) + Total(page) = Total(page) + Total(a)
    BY <2>1
  <2> QED
    BY <1>2, <2>1, <2>2
<1>5. ASSUME Fine(pages, page, queue, d) PROVE Fine(pages, page2, b, d)
  <2>0. Len(pages) \in Nat
    OBVIOUS
  <2>1. /\ Names(page) \cap Names(queue) = {}
        /\ \A i \in Names(queue) : d[i].kind = "float"
    BY <1>5, <2>0, QueueIsFloats
  <2>2. Names(a) \in SUBSET Names(queue)
    <3>1. \A k \in 1 .. m : k \in 1 .. Len(queue)
      BY <1>1
    <3> QED
      BY <1>1, <3>1 DEF Names, FirstNames
  <2>3. Distinct(page) /\ InText(page, d) /\ Rising(queue)
    BY <1>5 DEF Fine
  <2>4. Distinct(a) /\ Rising(b)
    BY <1>1, <2>3
  <2>5. Distinct(page2) /\ Names(page2) = Names(page) \cup Names(a)
    <3>1. Names(page) \cap Names(a) = {} /\ Names(a) \cap Names(page) = {}
      BY <2>1, <2>2
    <3>2. Distinct(page \o a) /\ Names(page \o a) = Names(page) \cup Names(a)
      BY <1>1, <2>3, <2>4, <3>1, Joined
    <3>3. Distinct(a \o page) /\ Names(a \o page) = Names(a) \cup Names(page)
      BY <1>1, <2>3, <2>4, <3>1, Joined
    <3>4. Names(a) \cup Names(page) = Names(page) \cup Names(a)
      OBVIOUS
    <3> QED
      BY <1>2, <3>2, <3>3, <3>4
  <2>6. InText(page2, d)
    <3>1. \A k \in 1 .. Len(a) : d[a[k].id].kind = "float"
      <4>1. \A k \in 1 .. Len(a) : a[k].id \in Names(a)
        BY DEF Names
      <4> QED
        BY <2>1, <2>2, <4>1
    <3>2. \A k \in 1 .. Len(a) : d[a[k].id].kind # "box"
      BY <3>1
    <3>3. InText(a, d)
      BY <3>2 DEF InText
    <3>4. InText(page \o a, d)
      BY <1>1, <2>3, <3>2, <3>3, JoinedText
    <3>5. InText(a \o page, d)
      BY <1>1, <2>3, <3>2, <3>3, JoinedText
    <3> QED
      BY <1>2, <3>4, <3>5
  <2>7. Names(page2) = Names(page) \cup FirstNames(queue, m)
    BY <1>1, <2>5
  <2> QED
    BY <1>1, <1>5, <2>4, <2>5, <2>6, <2>7, FloatsMove
<1> QED
  BY <1>1, <1>3, <1>4, <1>5 DEF a, b

(* Putting the first floats of the queue on the page keeps the state.      *)
LEMMA PlaceFirstKeeps ==
  ASSUME NEW s \in States, NEW d, NEW at, NEW m \in 0 .. Len(s.queue)
  PROVE  Keeps(s, PlaceFirst(s, m), d, at)
<1> DEFINE t == PlaceFirst(s, m)
           a == SubSeq(s.queue, 1, m)
           b == SubSeq(s.queue, m + 1, Len(s.queue))
<1>0. /\ s.pages \in Seq(SUBSET Spots) /\ s.page \in Seq(Pieces) /\ s.queue \in Seq(Pieces)
      /\ s.used \in Nat /\ s.start \in Nat /\ Total(s.page) \in Nat
  BY StateParts
<1>1. /\ s.page \o a \in Seq(Pieces) /\ b \in Seq(Pieces)
      /\ Total(s.page \o a) = Total(s.page) + Total(a) /\ Total(a) \in Nat
      /\ Fine(s.pages, s.page, s.queue, d) => Fine(s.pages, s.page \o a, b, d)
  BY <1>0, FloatsPlaced
<1>2. t = [s EXCEPT !.page = s.page \o a, !.used = s.used + Total(a), !.queue = b]
  BY DEF PlaceFirst
<1> HIDE DEF t, a, b
<1>3. /\ t \in States
      /\ t.pages = s.pages /\ t.page = s.page \o a /\ t.used = s.used + Total(a) /\ t.queue = b
      /\ t.start = s.start /\ t.last = s.last /\ t.continued = s.continued
  <2>1. s.used + Total(a) \in Nat
    BY <1>0, <1>1
  <2> QED
    BY <1>1, <1>2, <2>1 DEF States
<1>4. Held(s, d) => Held(t, d)
  BY <1>1, <1>3 DEF Held
<1>5. Tidy(s, at) => Tidy(t, at)
  <2>1. s.used = s.start + Total(s.page) => t.used = t.start + Total(t.page)
    BY <1>0, <1>1, <1>3
  <2> QED
    BY <1>3, <2>1 DEF Tidy
<1> QED
  BY <1>3, <1>4, <1>5 DEF Keeps, t

(* So does filling a region.                                               *)
LEMMA PlaceKeeps ==
  ASSUME NEW s \in States, NEW d, NEW at, NEW region
  PROVE  Keeps(s, Place(s, region), d, at)
<1>1. Len(s.queue) \in Nat
  BY StateParts
<1>2. Taken(s, region) \in 0 .. Len(s.queue)
  BY <1>1, TakenFirst
<1> QED
  BY <1>2, PlaceFirstKeeps DEF Place

(* So does putting them above the text of the page.                        *)
LEMMA PlaceOnTopKeeps ==
  ASSUME NEW s \in States, NEW d, NEW at
  PROVE  Keeps(s, PlaceOnTop(s), d, at)
<1> DEFINE e == [s EXCEPT !.page = << >>]
           m == Taken(e, "top")
           t == PlaceOnTop(s)
           a == SubSeq(s.queue, 1, m)
           b == SubSeq(s.queue, m + 1, Len(s.queue))
<1>0. /\ s.pages \in Seq(SUBSET Spots) /\ s.page \in Seq(Pieces) /\ s.queue \in Seq(Pieces)
      /\ s.used \in Nat /\ s.start \in Nat /\ Total(s.page) \in Nat /\ Len(s.queue) \in Nat
  BY StateParts
<1>1. e.queue = s.queue
  BY DEF States
<1>2. m \in 0 .. Len(s.queue)
  <2>1. Len(e.queue) \in Nat
    BY <1>0, <1>1
  <2>2. m \in 0 .. Len(e.queue)
    BY <2>1, TakenFirst
  <2> QED
    BY <1>1, <2>2
<1>3. PlaceFirst(e, m) = [s EXCEPT !.page = << >> \o a, !.used = s.used + Total(a), !.queue = b]
  BY DEF PlaceFirst, States
<1>4. << >> \o a = a /\ a \in Seq(Pieces)
  <2>1. a \in Seq(Pieces)
    BY <1>0, <1>2, QueueCut
  <2> QED
    BY <2>1
<1>5. t = [s EXCEPT !.page = a \o s.page, !.used = s.used + Total(a), !.queue = b]
  BY <1>3, <1>4 DEF PlaceOnTop, Place, States
<1> HIDE DEF t, e, m
<1>6. /\ a \o s.page \in Seq(Pieces) /\ b \in Seq(Pieces)
      /\ Total(a \o s.page) = Total(s.page) + Total(a) /\ Total(a) \in Nat
      /\ Fine(s.pages, s.page, s.queue, d) => Fine(s.pages, a \o s.page, b, d)
  BY <1>0, <1>2, FloatsPlaced
<1> HIDE DEF a, b
<1>7. /\ t \in States
      /\ t.pages = s.pages /\ t.page = a \o s.page /\ t.used = s.used + Total(a) /\ t.queue = b
      /\ t.start = s.start /\ t.last = s.last /\ t.continued = s.continued
  <2>1. s.used + Total(a) \in Nat
    BY <1>0, <1>6
  <2> QED
    BY <1>5, <1>6, <2>1 DEF States
<1>8. Held(s, d) => Held(t, d)
  BY <1>6, <1>7 DEF Held
<1>9. Tidy(s, at) => Tidy(t, at)
  <2>1. s.used = s.start + Total(s.page) => t.used = t.start + Total(t.page)
    BY <1>0, <1>6, <1>7
  <2> QED
    BY <1>7, <2>1 DEF Tidy
<1> QED
  BY <1>7, <1>8, <1>9 DEF Keeps, t

(* There is something to print on a page that is not empty.                *)
LEMMA RenderedPage ==
  ASSUME NEW page \in Seq(Pieces)
  PROVE  Rendered(page) <=> page # << >>
<1>1. DOMAIN page = 1 .. Len(page) /\ Len(page) \in Nat
  OBVIOUS
<1>2. \A i \in 1 .. Len(page) : Renders(page[i])
  BY PieceParts
<1>3. page # << >> <=> 1 .. Len(page) # {}
  <2>1. page = << >> <=> Len(page) = 0
    OBVIOUS
  <2>2. Len(page) # 0 <=> 1 .. Len(page) # {}
    <3>1. Len(page) # 0 => 1 \in 1 .. Len(page)
      BY <1>1
    <3>2. Len(page) = 0 => 1 .. Len(page) = {}
      OBVIOUS
    <3> QED
      BY <3>1, <3>2
  <2> QED
    BY <2>1, <2>2
<1> QED
  BY <1>1, <1>2, <1>3 DEF Rendered

(* A page is finished and a new one is opened.                             *)
Turned(s) ==
  [s EXCEPT !.pages = Append(s.pages, LaidOut(s.page, s.start)), !.last = s.used,
            !.continued = s.continued \/ (s.start > 0 /\ s.page # << >>),
            !.page = << >>, !.used = 0, !.start = 0]

(* So does finishing a page.                                               *)
LEMMA TurnedKeeps ==
  ASSUME NEW s \in States, NEW d, NEW at \in Nat
  PROVE  Keeps(s, Turned(s), d, at)
<1> DEFINE t == Turned(s)
           out == LaidOut(s.page, s.start)
           n == Len(s.pages)
           pages2 == Append(s.pages, out)
<1>0. /\ s.pages \in Seq(SUBSET Spots) /\ s.page \in Seq(Pieces) /\ n \in Nat
      /\ s.used \in Nat /\ s.start \in Nat /\ Total(s.page) \in Nat /\ s.continued \in BOOLEAN /\ s.last \in Nat
  BY StateParts
<1>1. /\ out \in SUBSET Spots
      /\ \A x \in out : s.start <= x.at /\ x.at + x.h <= s.start + Total(s.page)
      /\ \A x, y \in out : \E k, l \in 1 .. Len(s.page) : Stand(s.page, x, y, k, l)
  BY <1>0, RowsStand
<1>2. t = [s EXCEPT !.pages = pages2, !.last = s.used,
                    !.continued = s.continued \/ (s.start > 0 /\ s.page # << >>),
                    !.page = << >>, !.used = 0, !.start = 0]
  BY DEF Turned
<1> HIDE DEF out, t
<1>3. /\ pages2 \in Seq(SUBSET Spots) /\ Len(pages2) = n + 1
      /\ \A p \in 1 .. n : pages2[p] = s.pages[p]
      /\ pages2[n + 1] = out
  BY <1>0, <1>1, OneMorePage
<1>4. Fine(s.pages, s.page, s.queue, d) => Fine(pages2, << >>, s.queue, d)
  BY <1>0, PageTurned DEF out
<1> HIDE DEF pages2
<1>5. /\ t \in States
      /\ t.pages = pages2 /\ t.page = << >> /\ t.used = 0 /\ t.start = 0 /\ t.last = s.used
      /\ t.continued = (s.continued \/ (s.start > 0 /\ s.page # << >>)) /\ t.queue = s.queue
  <2> DEFINE c == s.continued \/ (s.start > 0 /\ s.page # << >>)
  <2>1. c \in BOOLEAN
    OBVIOUS
  <2>2. t = [s EXCEPT !.pages = pages2, !.last = s.used, !.continued = c, !.page = << >>, !.used = 0, !.start = 0]
    BY <1>2
  <2> HIDE DEF c
  <2>3. << >> \in Seq(Pieces) /\ 0 \in Nat
    OBVIOUS
  <2>4. /\ t \in States
        /\ t.pages = pages2 /\ t.page = << >> /\ t.used = 0 /\ t.start = 0 /\ t.last = s.used
        /\ t.continued = c /\ t.queue = s.queue
    BY <1>0, <1>3, <2>1, <2>2, <2>3 DEF States
  <2> QED
    BY <2>4 DEF c
<1>6. Held(s, d) => Held(t, d)
  BY <1>4, <1>5 DEF Held
<1>7. ASSUME Tidy(s, at) PROVE Tidy(t, at)
  <2> HIDE DEF n
  <2>1. /\ s.used = s.start + Total(s.page)
        /\ s.start \in {0, at} /\ (s.start > 0 => s.pages = << >>)
        /\ \A p \in 1 .. n : Uncovered(s.pages[p])
    BY <1>7 DEF Tidy, n
  <2>2. t.used = t.start + Total(t.page)
    BY <1>5, TotalNone
  <2>3. Uncovered(out)
    <3>1. SUFFICES ASSUME NEW x \in out, NEW y \in out, x.id # y.id
                   PROVE  x.at + x.h <= y.at \/ y.at + y.h <= x.at
      BY DEF Uncovered
    <3>2. PICK k \in 1 .. Len(s.page), l \in 1 .. Len(s.page) : Stand(s.page, x, y, k, l)
      BY <1>1
    <3>3. k < l \/ l < k \/ k = l
      BY <1>0
    <3> QED
      BY <3>1, <3>2, <3>3 DEF Stand
  <2>4. \A p \in 1 .. Len(t.pages) : Uncovered(t.pages[p])
    <3>1. SUFFICES ASSUME NEW p \in 1 .. n + 1 PROVE Uncovered(pages2[p])
      BY <1>3, <1>5
    <3>2. p \in 1 .. n \/ p = n + 1
      BY <1>0 DEF n
    <3> QED
      BY <1>3, <2>1, <2>3, <3>2
  <2>5. \A x \in t.pages[Len(t.pages)] : x.at + x.h <= t.last
    BY <1>1, <1>3, <1>5, <2>1
  <2>6. t.pages # << >>
    <3>1. Len(pages2) # 0
      BY <1>0, <1>3 DEF n
    <3> QED
      BY <1>5, <3>1
  <2>7. ASSUME t.continued
        PROVE  at > 0 /\ (\A x \in t.pages[1] : x.at >= at) /\ (Len(t.pages) = 1 => t.last >= at)
    <3>1. CASE s.continued
      <4>1. at > 0 /\ s.pages # << >> /\ \A x \in s.pages[1] : x.at >= at
        BY <1>7, <3>1 DEF Tidy
      <4>2. n # 0
        BY <1>0, <4>1 DEF n
      <4>3. 1 \in 1 .. n /\ n + 1 # 1
        BY <1>0, <4>2 DEF n
      <4> QED
        BY <1>3, <1>5, <4>1, <4>3
    <3>2. CASE s.start > 0
      <4>1. s.pages = << >> /\ s.start = at /\ n = 0
        BY <1>0, <2>1, <3>2 DEF n
      <4>2. pages2[1] = out
        BY <1>3, <4>1
      <4>3. \A x \in out : x.at >= at
        <5>1. \A x \in out : x.at \in Nat
          BY <1>1 DEF Spots
        <5> QED
          BY <1>1, <4>1, <5>1
      <4>4. s.used >= at
        BY <1>0, <2>1, <4>1
      <4> QED
        BY <1>5, <3>2, <4>1, <4>2, <4>3, <4>4
    <3> QED
      BY <1>5, <2>7, <3>1, <3>2
  <2> QED
    BY <1>5, <2>2, <2>4, <2>5, <2>6, <2>7 DEF Tidy
<1> QED
  BY <1>5, <1>6, <1>7 DEF Keeps, t

(* No page is put out: the machine is as before, or it forgets that it     *)
(* began below the top.                                                    *)
LEMMA FreshKeeps ==
  ASSUME NEW s \in States, NEW d, NEW at \in Nat, s.page = << >>
  PROVE  Keeps(s, Fresh(s), d, at)
<1>1. /\ Fresh(s) \in States
      /\ Fresh(s).pages = s.pages /\ Fresh(s).page = s.page /\ Fresh(s).queue = s.queue
      /\ Fresh(s).used = 0 /\ Fresh(s).start = 0 /\ Fresh(s).last = s.last
      /\ Fresh(s).continued = s.continued
  BY DEF Fresh, States
<1>2. Held(s, d) => Held(Fresh(s), d)
  BY <1>1 DEF Held
<1>3. Tidy(s, at) => Tidy(Fresh(s), at)
  <2>1. Fresh(s).used = Fresh(s).start + Total(Fresh(s).page)
    BY <1>1, TotalNone
  <2> QED
    BY <1>1, <2>1 DEF Tidy
<1> QED
  BY <1>1, <1>2, <1>3 DEF Keeps

(* So does emitting a page, also a blank one, and opening the next.        *)
LEMMA PageOutKeeps ==
  ASSUME NEW s \in States, NEW d, NEW at \in Nat, NEW blank
  PROVE  /\ Keeps(s, Fresh(Emit(s, blank)), d, at)
         /\ Emit(s, blank) \in States /\ Emit(s, blank).queue = s.queue
         /\ Fresh(Emit(s, blank)).page = << >> /\ Fresh(Emit(s, blank)).start = 0
         /\ Fresh(Emit(s, blank)).queue = s.queue
         /\ blank /\ s.start = 0 => Fresh(Emit(s, blank)).pages # << >>
<1> DEFINE e == Emit(s, blank)
           out == LaidOut(s.page, s.start)
<1>0. /\ s.pages \in Seq(SUBSET Spots) /\ s.page \in Seq(Pieces) /\ s.start \in Nat /\ s.used \in Nat
      /\ s.continued \in BOOLEAN
  BY StateParts
<1>1. Rendered(s.page) <=> s.page # << >>
  BY <1>0, RenderedPage
<1>2. out \in SUBSET Spots
  BY <1>0, RowsStand
<1> HIDE DEF out
<1>3. Append(s.pages, out) \in Seq(SUBSET Spots) /\ Append(s.pages, out) # << >>
  <2>1. Len(s.pages) \in Nat /\ Len(Append(s.pages, out)) = Len(s.pages) + 1
        /\ Append(s.pages, out) \in Seq(SUBSET Spots)
    BY <1>0, <1>2, OneMorePage
  <2> QED
    BY <2>1
<1>4. CASE Rendered(s.page) \/ (blank /\ s.pages = << >> /\ s.start = 0)
  <2>1. e = [s EXCEPT !.pages = Append(s.pages, out), !.last = s.used,
                      !.continued = s.continued \/ (s.start > 0 /\ s.page # << >>)]
    BY <1>1, <1>4 DEF Emit, PushPage, out, States
  <2>2. e \in States /\ e.queue = s.queue
    BY <1>0, <1>3, <2>1 DEF States
  <2>3. Fresh(e) = Turned(s)
    BY <2>1 DEF Fresh, Turned, out, States
  <2>4. Keeps(s, Turned(s), d, at)
    BY TurnedKeeps
  <2>5. Turned(s).page = << >> /\ Turned(s).start = 0 /\ Turned(s).queue = s.queue
        /\ Turned(s).pages = Append(s.pages, out)
    BY DEF Turned, States, out
  <2> HIDE DEF e
  <2> QED
    BY <1>3, <2>2, <2>3, <2>4, <2>5 DEF e
<1>5. CASE ~ (Rendered(s.page) \/ (blank /\ s.pages = << >> /\ s.start = 0))
  <2>1. e = s
    BY <1>5 DEF Emit
  <2>2. s.page = << >>
    BY <1>1, <1>5
  <2>3. Keeps(s, Fresh(s), d, at)
    BY <2>2, FreshKeeps
  <2>4. Fresh(s).page = << >> /\ Fresh(s).start = 0 /\ Fresh(s).queue = s.queue /\ Fresh(s).pages = s.pages
    BY DEF Fresh, States
  <2> HIDE DEF e
  <2> QED
    BY <1>5, <2>1, <2>3, <2>4 DEF e
<1> QED
  BY <1>4, <1>5

(* The floats that wait have waited for one page more.                     *)
LEMMA DeferredKeeps ==
  ASSUME NEW s \in States, NEW d, NEW at
  PROVE  Keeps(s, [s EXCEPT !.queue = Deferred(@)], d, at)
<1> DEFINE q == s.queue
           r == Deferred(q)
           t == [s EXCEPT !.queue = r]
           n == Len(q)
<1>0. /\ s.pages \in Seq(SUBSET Spots) /\ s.page \in Seq(Pieces) /\ q \in Seq(Pieces) /\ n \in Nat
  BY StateParts
<1>1. /\ r \in Seq(Pieces) /\ Len(r) = n /\ \A k \in 1 .. n : r[k].id = q[k].id
  <2>1. DOMAIN q = 1 .. n
    BY <1>0
  <2>2. r = [k \in 1 .. n |-> [q[k] EXCEPT !.defers = @ + 1]]
    BY <2>1 DEF Deferred
  <2>3. \A k \in 1 .. n : [q[k] EXCEPT !.defers = @ + 1] \in Pieces /\ [q[k] EXCEPT !.defers = @ + 1].id = q[k].id
    <3>1. \A k \in 1 .. n : q[k] \in Pieces
      BY <1>0, PieceParts
    <3> QED
      BY <3>1 DEF Pieces
  <2>4. r \in [1 .. n -> Pieces]
    BY <2>2, <2>3
  <2>5. r \in Seq(Pieces) /\ Len(r) = n
    BY <1>0, <2>4
  <2> QED
    BY <2>2, <2>3, <2>5
<1> HIDE DEF r
<1>2. ASSUME Fine(s.pages, s.page, q, d) PROVE Fine(s.pages, s.page, r, d)
  <2>1. Names(r) = Names(q)
    BY <1>1 DEF Names
  <2>2. Rising(r)
    BY <1>1, <1>2 DEF Fine, Rising
  <2>3. FirstNames(q, 0) = {} /\ LastNames(q, 0) = Names(q)
    BY <1>0 DEF Names, FirstNames, LastNames
  <2>4. Distinct(s.page) /\ InText(s.page, d)
    BY <1>2 DEF Fine
  <2>5. Names(s.page) = Names(s.page) \cup FirstNames(q, 0) /\ Names(r) = LastNames(q, 0)
    BY <2>1, <2>3
  <2>6. 0 \in 0 .. n
    BY <1>0
  <2> QED
    BY <1>0, <1>2, <2>2, <2>4, <2>5, <2>6, FloatsMove
<1>3. /\ t \in States
      /\ t.pages = s.pages /\ t.page = s.page /\ t.queue = r /\ t.used = s.used /\ t.start = s.start
      /\ t.last = s.last /\ t.continued = s.continued
  BY <1>1 DEF States
<1>4. Held(s, d) => Held(t, d)
  BY <1>2, <1>3 DEF Held
<1>5. Tidy(s, at) => Tidy(t, at)
  BY <1>3 DEF Tidy
<1> QED
  BY <1>3, <1>4, <1>5 DEF Keeps, r

(* So does turning the page with its two regions.                          *)
LEMMA TurnPageKeeps ==
  ASSUME NEW s \in States, NEW d, NEW at \in Nat, NEW blank
  PROVE  Keeps(s, TurnPage(s, blank), d, at)
<1> DEFINE p == Place(s, "bottom")
           e == Emit(p, blank)
           w == [e EXCEPT !.queue = Deferred(@)]
           f == Fresh(e)
           g == [f EXCEPT !.queue = Deferred(@)]
<1>1. Keeps(s, p, d, at)
  BY PlaceKeeps
<1>2. p \in States
  BY <1>1 DEF Keeps
<1> HIDE DEF p
<1>3. Keeps(p, f, d, at) /\ e \in States
  BY <1>2, PageOutKeeps
<1>4. f \in States
  BY <1>3 DEF Keeps
<1> HIDE DEF e
<1>5. Fresh(w) = g
  BY <1>3 DEF Fresh, States
<1> HIDE DEF f, w
<1>6. Keeps(f, g, d, at)
  BY <1>4, DeferredKeeps
<1>7. g \in States
  BY <1>6 DEF Keeps
<1> HIDE DEF g
<1>8. Keeps(g, Place(g, "top"), d, at)
  BY <1>7, PlaceKeeps
<1>9. TurnPage(s, blank) = Place(g, "top")
  BY <1>5 DEF TurnPage, p, e, w
<1> QED
  BY <1>1, <1>3, <1>6, <1>8, <1>9, KeepsChain

(* The machines that print from the top of a page.                         *)
Tops == {s \in States : s.start = 0}

(* Closing a page that is not empty is turning it.                         *)
LEMMA CloseIsTurn ==
  ASSUME NEW s \in Tops, s.page # << >>
  PROVE  ClosePage(s) = Turned(s)
<1> DEFINE c == ClosePage(s)
           out == LaidOut(s.page, s.start)
<1>0. /\ s \in States /\ s.start = 0 /\ s.pages \in Seq(SUBSET Spots) /\ s.page \in Seq(Pieces)
      /\ s.continued \in BOOLEAN
  BY StateParts DEF Tops
<1>1. (s.continued \/ (s.start > 0 /\ s.page # << >>)) = s.continued
  BY <1>0
<1>2. c = [s EXCEPT !.pages = Append(s.pages, out), !.last = s.used,
                    !.page = << >>, !.used = 0, !.start = 0]
  BY <1>0 DEF ClosePage, Fresh, PushPage, States
<1>3. Turned(s) = [s EXCEPT !.pages = Append(s.pages, out), !.last = s.used, !.continued = s.continued,
                            !.page = << >>, !.used = 0, !.start = 0]
  BY <1>1 DEF Turned
<1> HIDE DEF out
<1>4. c = [pages |-> Append(s.pages, out), page |-> << >>, used |-> 0, start |-> 0, last |-> s.used,
           queue |-> s.queue, continued |-> s.continued, explicit |-> s.explicit]
  BY <1>0, <1>2 DEF States
<1>5. Turned(s) = [pages |-> Append(s.pages, out), page |-> << >>, used |-> 0, start |-> 0,
                   last |-> s.used, queue |-> s.queue, continued |-> s.continued,
                   explicit |-> s.explicit]
  BY <1>0, <1>3 DEF States
<1> QED
  BY <1>4, <1>5

(* So does closing a page of floats, whatever still waits.                 *)
LEMMA ClosePageKeeps ==
  ASSUME NEW s \in Tops, NEW d, NEW at \in Nat
  PROVE  /\ Keeps(s, ClosePage(s), d, at)
         /\ ClosePage(s) \in Tops /\ ClosePage(s).page = << >> /\ ClosePage(s).queue = s.queue
         /\ s.pages # << >> \/ s.page # << >> => ClosePage(s).pages # << >>
         /\ \A q : Fine(s.pages, s.page, q, d) => Fine(ClosePage(s).pages, ClosePage(s).page, q, d)
<1> DEFINE c == ClosePage(s)
           out == LaidOut(s.page, s.start)
<1>0. /\ s \in States /\ s.start = 0 /\ s.pages \in Seq(SUBSET Spots) /\ s.page \in Seq(Pieces)
      /\ s.continued \in BOOLEAN
  BY StateParts DEF Tops
<1>1. CASE s.page = << >>
  <2>1. c = s
    BY <1>1 DEF ClosePage
  <2> QED
    BY <1>0, <1>1, <2>1, KeepsSame
<1>2. CASE s.page # << >>
  <2>1. c = Turned(s)
    BY <1>2, CloseIsTurn
  <2>2. Keeps(s, Turned(s), d, at)
    BY <1>0, TurnedKeeps
  <2>3. /\ Turned(s).pages = Append(s.pages, out) /\ Turned(s).page = << >> /\ Turned(s).queue = s.queue
        /\ Turned(s).start = 0
    BY <1>0 DEF Turned, States
  <2>4. Append(s.pages, out) # << >>
    <3>1. out \in SUBSET Spots
      BY <1>0, RowsStand
    <3> HIDE DEF out
    <3>2. Len(s.pages) \in Nat /\ Len(Append(s.pages, out)) = Len(s.pages) + 1
      BY <1>0, <3>1, OneMorePage
    <3>3. Len(<< >>) = 0
      OBVIOUS
    <3>4. Len(Append(s.pages, out)) # 0
      BY <3>2
    <3> QED
      BY <3>3, <3>4
  <2>5. \A q : Fine(s.pages, s.page, q, d) => Fine(Append(s.pages, out), << >>, q, d)
    BY <1>0, PageTurned
  <2>6. Turned(s) \in Tops
    BY <2>2, <2>3 DEF Keeps, Tops
  <2> HIDE DEF out, c
  <2> QED
    BY <2>1, <2>2, <2>3, <2>4, <2>5, <2>6 DEF c
<1> QED
  BY <1>1, <1>2

(* A piece is put under what is on the page.                               *)
LEMMA PutParts ==
  ASSUME NEW s \in States, NEW x \in Pieces
  PROVE  /\ Put(s, x) \in States
         /\ Put(s, x).pages = s.pages /\ Put(s, x).page = Append(s.page, x) /\ Put(s, x).queue = s.queue
         /\ Put(s, x).start = s.start /\ Put(s, x).last = s.last /\ Put(s, x).continued = s.continued
         /\ \A at : Tidy(s, at) => Tidy(Put(s, x), at)
<1>0. /\ s.page \in Seq(Pieces) /\ s.used \in Nat /\ s.start \in Nat /\ Total(s.page) \in Nat
  BY StateParts
<1>1. Append(s.page, x) \in Seq(Pieces) /\ Total(Append(s.page, x)) = Total(s.page) + x.h
  BY <1>0, TotalAppend
<1>2. x.h \in Nat /\ s.used + x.h \in Nat
  BY <1>0 DEF Pieces
<1>3. /\ Put(s, x) \in States
      /\ Put(s, x).pages = s.pages /\ Put(s, x).page = Append(s.page, x) /\ Put(s, x).queue = s.queue
      /\ Put(s, x).start = s.start /\ Put(s, x).last = s.last /\ Put(s, x).continued = s.continued
      /\ Put(s, x).used = s.used + x.h
  BY <1>1, <1>2 DEF Put, States
<1> HIDE DEF Put
<1>4. s.used = s.start + Total(s.page) => Put(s, x).used = Put(s, x).start + Total(Put(s, x).page)
  BY <1>0, <1>1, <1>2, <1>3
<1>5. \A at : Tidy(s, at) => Tidy(Put(s, x), at)
  BY <1>3, <1>4 DEF Tidy
<1> QED
  BY <1>3, <1>5

(* Pieces in a row are a sequence of pieces.                               *)
LEMMA PiecesInARow ==
  ASSUME NEW n \in Nat, NEW r \in [1 .. n -> Pieces]
  PROVE  r \in Seq(Pieces) /\ Len(r) = n
OBVIOUS

(* What is left of the queue behind its first k floats.                    *)
Rest(q, k) == [j \in 1 .. Len(q) - k |-> q[k + j]]

(* What is left of a queue of pieces is one.                               *)
LEMMA RestParts ==
  ASSUME NEW q \in Seq(Pieces), NEW k \in 0 .. Len(q)
  PROVE  /\ Rest(q, k) \in Seq(Pieces) /\ Len(Rest(q, k)) = Len(q) - k
         /\ Names(Rest(q, k)) = LastNames(q, k)
         /\ Rising(q) => Rising(Rest(q, k))
<1> DEFINE n == Len(q)
           r == Rest(q, k)
<1>1. n \in Nat /\ k \in Nat /\ k <= n /\ n - k \in Nat
  BY SumsExist
<1>2. \A j \in 1 .. n - k : k + j \in 1 .. n /\ q[k + j] \in Pieces
  <2>1. \A j \in 1 .. n - k : k + j \in 1 .. n
    BY <1>1
  <2>2. \A j \in 1 .. n : q[j] \in Pieces
    BY PieceParts
  <2> QED
    BY <2>1, <2>2
<1>3. r \in [1 .. n - k -> Pieces] /\ \A j \in 1 .. n - k : r[j] = q[k + j]
  BY <1>2 DEF Rest
<1> HIDE DEF r
<1>4. r \in Seq(Pieces) /\ Len(r) = n - k
  BY <1>1, <1>3, PiecesInARow
<1>5. Names(r) = LastNames(q, k)
  <2>1. Names(r) = {r[j].id : j \in 1 .. n - k}
    BY <1>4 DEF Names
  <2>2. \A j \in 1 .. n - k : k + j \in k + 1 .. n
    BY <1>1
  <2>3. ASSUME NEW j \in k + 1 .. n PROVE j - k \in 1 .. n - k /\ r[j - k] = q[j]
    <3>1. j - k \in 1 .. n - k /\ k + (j - k) = j
      BY <1>1
    <3> QED
      BY <1>3, <3>1
  <2>4. \A j \in 1 .. n - k : r[j].id \in {q[l].id : l \in k + 1 .. n}
    BY <1>3, <2>2
  <2>5. \A j \in k + 1 .. n : q[j].id \in {r[l].id : l \in 1 .. n - k}
    BY <2>3
  <2> QED
    BY <2>1, <2>4, <2>5 DEF LastNames
<1>6. ASSUME Rising(q) PROVE Rising(r)
  <2>1. SUFFICES ASSUME NEW i \in 1 .. n - k, NEW j \in 1 .. n - k, i < j PROVE r[i].id < r[j].id
    BY <1>4 DEF Rising
  <2>2. k + i \in 1 .. n /\ k + j \in 1 .. n /\ k + i < k + j
    BY <1>1, <2>1
  <2> QED
    BY <1>3, <1>6, <2>2 DEF Rising
<1> QED
  BY <1>4, <1>5, <1>6 DEF r

(* The float that waits first is put on a page of its own, or under the    *)
(* floats that are there.                                                  *)
LEMMA PutAloneKeeps ==
  ASSUME NEW s \in Tops, NEW d, NEW at \in Nat, NEW q \in Seq(Pieces), NEW k \in 1 .. Len(q)
  PROVE  /\ PutAlone(s, q[k]) \in Tops /\ PutAlone(s, q[k]).queue = s.queue
         /\ PutAlone(s, q[k]).page # << >>
         /\ s.pages # << >> => PutAlone(s, q[k]).pages # << >>
         /\ Tidy(s, at) => Tidy(PutAlone(s, q[k]), at)
         /\ Rising(q) /\ Fine(s.pages, s.page, Rest(q, k - 1), d) =>
              Fine(PutAlone(s, q[k]).pages, PutAlone(s, q[k]).page, Rest(q, k), d)
<1> DEFINE x == q[k]
           c == IF s.used + x.h > Height THEN ClosePage(s) ELSE s
           t == Put(c, x)
<1>0. x \in Pieces /\ Len(q) \in Nat /\ k \in Nat
  BY PieceParts, SumsExist
<1>1. /\ c \in Tops /\ c.queue = s.queue /\ (s.pages # << >> => c.pages # << >>)
      /\ Tidy(s, at) => Tidy(c, at)
      /\ \A r : Fine(s.pages, s.page, r, d) => Fine(c.pages, c.page, r, d)
  BY ClosePageKeeps DEF Keeps
<1> HIDE DEF c
<1>2. c \in States /\ c.start = 0 /\ c.page \in Seq(Pieces) /\ c.pages \in Seq(SUBSET Spots)
  BY <1>1, StateParts DEF Tops
<1>3. /\ t \in States /\ t.pages = c.pages /\ t.page = Append(c.page, x) /\ t.queue = c.queue /\ t.start = c.start
      /\ Tidy(c, at) => Tidy(t, at)
  BY <1>0, <1>2, PutParts
<1> HIDE DEF t
<1>4. ASSUME Rising(q), Fine(c.pages, c.page, Rest(q, k - 1), d)
      PROVE  Fine(c.pages, Append(c.page, x), Rest(q, k), d)
  <2> DEFINE r == Rest(q, k - 1)
             one == <<x>>
  <2>1. k - 1 \in 0 .. Len(q) /\ k \in 0 .. Len(q) /\ (k - 1) + 1 = k
    BY <1>0
  <2>2. /\ r \in Seq(Pieces) /\ Len(r) = Len(q) - (k - 1)
    BY <2>1, RestParts
  <2>3. Names(Rest(q, k)) = LastNames(q, k) /\ Rising(Rest(q, k))
    BY <1>4, <2>1, RestParts
  <2>4. 1 \in 0 .. Len(r) /\ Len(r) \in Nat
    BY <1>0, <2>2
  <2>5. \A j \in 1 .. Len(r) : r[j] = q[(k - 1) + j]
    BY <2>2 DEF Rest
  <2> HIDE DEF r
  <2>6. r[1] = x
    BY <1>0, <2>2, <2>4, <2>5
  <2>7. FirstNames(r, 1) = {x.id}
    <3>1. 1 .. 1 = {1}
      OBVIOUS
    <3> QED
      BY <2>6, <3>1 DEF FirstNames
  <2>8. LastNames(r, 1) = LastNames(q, k)
    <3>1. ASSUME NEW j \in 1 + 1 .. Len(r) PROVE (k - 1) + j \in k + 1 .. Len(q) /\ r[j] = q[(k - 1) + j]
      <4>1. j \in 1 .. Len(r)
        OBVIOUS
      <4> QED
        BY <1>0, <2>2, <2>5, <4>1
    <3>2. ASSUME NEW j \in k + 1 .. Len(q) PROVE j - (k - 1) \in 1 + 1 .. Len(r) /\ r[j - (k - 1)] = q[j]
      <4>1. j - (k - 1) \in 1 + 1 .. Len(r) /\ j - (k - 1) \in 1 .. Len(r) /\ (k - 1) + (j - (k - 1)) = j
        BY <1>0, <2>2
      <4> QED
        BY <2>5, <4>1
    <3>3. \A j \in 1 + 1 .. Len(r) : r[j].id \in {q[l].id : l \in k + 1 .. Len(q)}
      BY <3>1
    <3>4. \A j \in k + 1 .. Len(q) : q[j].id \in {r[l].id : l \in 1 + 1 .. Len(r)}
      BY <3>2
    <3> QED
      BY <3>3, <3>4 DEF LastNames
  <2>9. one \in Seq(Pieces) /\ Append(c.page, x) = c.page \o one /\ Len(one) = 1 /\ one[1] = x
    BY <1>0, <1>2, AppendIsConcat
  <2> HIDE DEF one
  <2>10. Names(one) = {x.id} /\ Distinct(one)
    BY <2>9 DEF Names, Distinct
  <2>11. Len(c.pages) \in Nat
    BY <1>2
  <2>12. /\ Names(c.page) \cap Names(r) = {}
         /\ \A i \in Names(r) : d[i].kind = "float"
    BY <1>4, <2>11, QueueIsFloats DEF r
  <2>13. x.id \in Names(r)
    BY <2>4, <2>6 DEF Names
  <2>14. Distinct(c.page) /\ InText(c.page, d)
    BY <1>4 DEF Fine
  <2>15. Distinct(c.page \o one) /\ Names(c.page \o one) = Names(c.page) \cup {x.id}
    <3>1. Names(c.page) \cap Names(one) = {}
      BY <2>10, <2>12, <2>13
    <3> QED
      BY <1>2, <2>9, <2>10, <2>14, <3>1, Joined
  <2>16. InText(c.page \o one, d)
    <3>1. \A l \in 1 .. Len(one) : one[l] = x /\ l = 1
      BY <2>9
    <3>2. \A l \in 1 .. Len(one) : d[one[l].id].kind # "box"
      BY <2>12, <2>13, <3>1
    <3>3. InText(one, d)
      BY <3>2 DEF InText
    <3> QED
      BY <1>2, <2>9, <2>14, <3>2, <3>3, JoinedText
  <2>19. Fine(c.pages, c.page, r, d)
    BY <1>4 DEF r
  <2>17. /\ Names(Append(c.page, x)) = Names(c.page) \cup FirstNames(r, 1)
         /\ Distinct(Append(c.page, x)) /\ InText(Append(c.page, x), d)
    BY <2>7, <2>9, <2>15, <2>16
  <2>18. Names(Rest(q, k)) = LastNames(r, 1)
    BY <2>3, <2>8
  <2> QED
    BY <1>2, <2>3, <2>4, <2>17, <2>18, <2>19, FloatsMove
<1>5. t \in Tops /\ t.page # << >>
  <2>1. Append(c.page, x) \in Seq(Pieces) /\ Len(Append(c.page, x)) = Len(c.page) + 1 /\ Len(c.page) \in Nat
    BY <1>0, <1>2
  <2> DEFINE p == Append(c.page, x)
  <2> HIDE DEF p
  <2>2. p # << >>
    <3>1. p \in Seq(Pieces) /\ Len(p) # 0
      BY <2>1 DEF p
    <3> QED
      BY <3>1
  <2>3. Append(c.page, x) # << >>
    BY <2>2 DEF p
  <2> QED
    BY <1>2, <1>3, <2>3 DEF Tops
<1>6. PutAlone(s, x) = t
  BY DEF PutAlone, c, t
<1> QED
  BY <1>1, <1>3, <1>4, <1>5, <1>6

(* A float on a page of its own leaves a state.                            *)
LEMMA PutAloneTyped ==
  ASSUME NEW s \in Tops, NEW q \in Seq(Pieces), NEW k \in 1 .. Len(q)
  PROVE  PutAlone(s, q[k]) \in Tops
<1>1. 0 \in Nat
  OBVIOUS
<1> QED
  BY <1>1, PutAloneKeeps

(* The floats are put on their pages one by one.                           *)
LEMMA FlushSteps ==
  ASSUME NEW b \in Tops, NEW q \in Seq(Pieces)
  PROVE  \E h \in [0 .. Len(q) -> Tops] :
           /\ h[0] = b /\ FoldLeft(PutAlone, b, q) = h[Len(q)]
           /\ \A k \in 1 .. Len(q) : h[k] = PutAlone(h[k - 1], q[k])
<1> DEFINE n == Len(q)
           B == Tops
           g == [i \in 1 .. n |-> [x \in B |-> PutAlone(x, q[i])]]
           F(f) == f = [t \in SUBSET (1 .. n) |->
                         IF t = {} THEN b ELSE PutAlone(f[t \ {Max(t)}], q[Max(t)])]
           iter == CHOOSE f : F(f)
<1>0. b \in B /\ n \in Nat
  OBVIOUS
<1>1. g \in [1 .. n -> [B -> B]]
  <2>1. \A i \in 1 .. n : \A x \in B : PutAlone(x, q[i]) \in B
    BY PutAloneTyped
  <2> QED
    BY <2>1
<1>2. PICK e : FoldOn(B, b, g, n, e)
  <2>1. \E e : FoldOn(B, b, g, n, e)
    <3> HIDE DEF g, B, n
    <3> QED
      BY <1>0, <1>1, FoldFn
  <2> QED
    BY <2>1
<1>3. \A i \in 1 .. n : \A x \in B : g[i][x] = PutAlone(x, q[i])
  OBVIOUS
<1> HIDE DEF g, B
<1>4. F(e)
  <2>1. ASSUME NEW t \in SUBSET (1 .. n)
        PROVE  e[t] = IF t = {} THEN b ELSE PutAlone(e[t \ {Max(t)}], q[Max(t)])
    <3>1. e[t] = FoldStep(b, g, e, t) /\ e[t \ {Max(t)}] \in B
      BY <1>2 DEF FoldOn
    <3>2. t # {} => Max(t) \in 1 .. n
      BY <1>0, MaxRange
    <3> QED
      BY <1>3, <3>1, <3>2 DEF FoldStep
  <2>2. e = [t \in SUBSET (1 .. n) |-> e[t]]
    BY <1>2 DEF FoldOn
  <2> QED
    BY <2>1, <2>2
<1>5. F(iter)
  <2> HIDE DEF F
  <2> QED
    BY <1>4
<1>6. FoldLeft(PutAlone, b, q) = iter[1 .. n]
  <2>1. DOMAIN q = 1 .. n
    OBVIOUS
  <2> QED
    BY <2>1 DEF FoldLeft, MapThenFoldSet
<1>7. \A t \in SUBSET (1 .. n) :
        iter[t] = IF t = {} THEN b ELSE PutAlone(iter[t \ {Max(t)}], q[Max(t)])
  <2>1. \A f : F(f) => \A t \in SUBSET (1 .. n) :
          f[t] = IF t = {} THEN b ELSE PutAlone(f[t \ {Max(t)}], q[Max(t)])
    OBVIOUS
  <2> HIDE DEF F, iter
  <2> QED
    BY <1>5, <2>1
<1> HIDE DEF iter, F
<1>8. iter[{}] = b
  BY <1>7
<1>9. \A k \in 1 .. n : iter[1 .. (k - 1)] \in B => iter[1 .. k] = g[k][iter[1 .. (k - 1)]]
  <2>1. SUFFICES ASSUME NEW k \in 1 .. n, iter[1 .. (k - 1)] \in B
                 PROVE  iter[1 .. k] = g[k][iter[1 .. (k - 1)]]
    OBVIOUS
  <2>2. 1 .. k \in SUBSET (1 .. n) /\ k \in Nat \ {0}
    BY <1>0, FirstOnes
  <2>3. Max(1 .. k) = k /\ 1 .. k # {} /\ (1 .. k) \ {k} = 1 .. (k - 1)
    BY <2>2, MaxOfRange
  <2>4. iter[1 .. k] = PutAlone(iter[1 .. (k - 1)], q[k])
    BY <1>7, <2>2, <2>3
  <2> QED
    BY <1>3, <2>1, <2>4
<1>10. PICK h : History(B, b, n, g, h) /\ EndsAs(iter, n, h)
  <2>1. Loops(B, b, n, g, iter)
    BY <1>8, <1>9 DEF Loops
  <2> HIDE DEF n
  <2> QED
    BY <1>0, <1>1, <2>1, FoldSteps
<1>11. h \in [0 .. n -> B] /\ h[0] = b /\ \A k \in 1 .. n : h[k] = g[k][h[k - 1]]
  BY <1>10 DEF History
<1>12. \A k \in 1 .. n : h[k - 1] \in B
  BY <1>0, <1>11
<1>13. \A k \in 1 .. n : h[k] = PutAlone(h[k - 1], q[k])
  BY <1>3, <1>11, <1>12
<1> QED
  BY <1>6, <1>10, <1>11, <1>13 DEF EndsAs, B

(* When the queue is flushed, nothing waits and no page is open.           *)
LEMMA FlushKeeps ==
  ASSUME NEW s \in Tops, NEW d, NEW at \in Nat
  PROVE  /\ Keeps(s, Flush(s), d, at)
         /\ Flush(s).page = << >> /\ Flush(s).queue = << >> /\ Flush(s).start = 0
         /\ s.pages # << >> \/ s.queue # << >> => Flush(s).pages # << >>
<1> DEFINE q == s.queue
           n == Len(q)
           b == [s EXCEPT !.queue = << >>]
<1>0. s \in States /\ q \in Seq(Pieces) /\ n \in Nat /\ s.start = 0 /\ Len(s.pages) \in Nat
      /\ s.pages \in Seq(SUBSET Spots)
  BY StateParts DEF Tops
<1>1. /\ b \in Tops /\ b.pages = s.pages /\ b.page = s.page /\ b.queue = << >> /\ (Tidy(s, at) => Tidy(b, at))
  <2>1. << >> \in Seq(Pieces)
    OBVIOUS
  <2>2. b \in States /\ b.pages = s.pages /\ b.page = s.page /\ b.queue = << >> /\ b.start = s.start
        /\ b.used = s.used /\ b.last = s.last /\ b.continued = s.continued
    BY <1>0, <2>1 DEF States
  <2>3. Tidy(s, at) => Tidy(b, at)
    BY <2>2 DEF Tidy
  <2> QED
    BY <1>0, <2>2, <2>3 DEF Tops
<1> HIDE DEF b
<1>2. PICK h \in [0 .. n -> Tops] :
        /\ h[0] = b /\ FoldLeft(PutAlone, b, q) = h[n]
        /\ \A k \in 1 .. n : h[k] = PutAlone(h[k - 1], q[k])
  BY <1>0, <1>1, FlushSteps
<1> DEFINE Good(k) == /\ h[k].queue = << >> /\ (s.pages # << >> => h[k].pages # << >>) /\ (k # 0 => h[k].page # << >>)
                      /\ Tidy(s, at) => Tidy(h[k], at)
                      /\ Held(s, d) => Fine(h[k].pages, h[k].page, Rest(q, k), d)
           S == {k \in 0 .. n : Good(k)}
<1>3. Held(s, d) => Rising(q)
  BY DEF Held, Fine
<1>4. 0 \in S
  <2>1. ASSUME Held(s, d) PROVE Fine(s.pages, s.page, Rest(q, 0), d)
    <3>1. 0 \in 0 .. n
      BY <1>0
    <3>2. Names(Rest(q, 0)) = LastNames(q, 0) /\ Rising(Rest(q, 0))
      BY <1>0, <1>3, <2>1, <3>1, RestParts
    <3>3. FirstNames(q, 0) = {}
      BY DEF FirstNames
    <3>4. Names(s.page) = Names(s.page) \cup FirstNames(q, 0)
      BY <3>3
    <3>5. Distinct(s.page) /\ InText(s.page, d) /\ Fine(s.pages, s.page, q, d)
      BY <2>1 DEF Held, Fine
    <3> QED
      BY <1>0, <3>1, <3>2, <3>4, <3>5, FloatsMove
  <2>2. Good(0)
    BY <1>1, <1>2, <2>1
  <2> QED
    BY <1>0, <2>2
<1>5. ASSUME NEW k \in 1 .. n, k - 1 \in S PROVE k \in S
  <2> DEFINE t == h[k - 1]
  <2>1. t \in Tops /\ k \in 0 .. n
    BY <1>0, <1>2
  <2>2. /\ PutAlone(t, q[k]).queue = t.queue
        /\ (t.pages # << >> => PutAlone(t, q[k]).pages # << >>) /\ PutAlone(t, q[k]).page # << >>
        /\ Tidy(t, at) => Tidy(PutAlone(t, q[k]), at)
        /\ Rising(q) /\ Fine(t.pages, t.page, Rest(q, k - 1), d) =>
             Fine(PutAlone(t, q[k]).pages, PutAlone(t, q[k]).page, Rest(q, k), d)
    <3>1. k \in 1 .. Len(q) /\ q \in Seq(Pieces)
      BY <1>0
    <3> HIDE DEF t, q, n
    <3> QED
      BY <2>1, <3>1, PutAloneKeeps
  <2>3. Good(k - 1) /\ h[k] = PutAlone(t, q[k])
    BY <1>2, <1>5
  <2>4. Good(k)
    BY <1>3, <2>2, <2>3
  <2> QED
    BY <2>1, <2>4
<1>6. Good(n)
  <2> HIDE DEF S
  <2>1. \A k \in 0 .. n : k \in S
    BY <1>0, <1>4, <1>5, InductUpTo
  <2>2. n \in S
    BY <1>0, <2>1
  <2> QED
    BY <2>2 DEF S
<1>7. h[n] \in Tops
  BY <1>0, <1>2
<1> DEFINE f == h[n]
           c == ClosePage(f)
<1>8. Flush(s) = c
  BY <1>2 DEF Flush, b
<1>9. /\ Keeps(f, c, d, at) /\ c \in Tops /\ c.page = << >> /\ c.queue = f.queue
      /\ f.pages # << >> \/ f.page # << >> => c.pages # << >>
      /\ \A r : Fine(f.pages, f.page, r, d) => Fine(c.pages, c.page, r, d)
  <2> HIDE DEF f
  <2> QED
    BY <1>7, ClosePageKeeps DEF f
<1>10. Held(s, d) => Held(c, d)
  <2>1. SUFFICES ASSUME Held(s, d) PROVE Held(c, d)
    OBVIOUS
  <2>2. Fine(f.pages, f.page, Rest(q, n), d)
    BY <1>6, <2>1
  <2>3. Rest(q, n) = << >>
    <3>1. n \in 0 .. Len(q)
      BY <1>0
    <3>2. Rest(q, n) \in Seq(Pieces) /\ Len(Rest(q, n)) = n - n
      BY <1>0, <3>1, RestParts
    <3>3. n - n = 0
      BY <1>0
    <3> QED
      BY <3>2, <3>3
  <2>4. c.queue = << >>
    BY <1>6, <1>9
  <2> QED
    BY <1>9, <2>2, <2>3, <2>4 DEF Held
<1>11. Tidy(s, at) => Tidy(c, at)
  BY <1>6, <1>9 DEF Keeps
<1>12. ASSUME s.pages # << >> \/ s.queue # << >> PROVE c.pages # << >>
  <2>1. q # << >> => n # 0
    BY <1>0
  <2> QED
    BY <1>6, <1>9, <1>12, <2>1
<1>13. c.queue = << >>
  BY <1>6, <1>9
<1> HIDE DEF c
<1>14. Keeps(s, c, d, at) /\ c.page = << >> /\ c.start = 0
  BY <1>9, <1>10, <1>11 DEF Keeps, Tops
<1> QED
  BY <1>8, <1>12, <1>13, <1>14

(* At the end of a page everything that was read is on a finished page.    *)
Emptied(s) == s.page = << >> /\ s.queue = << >>

(* The end of a page keeps the state and empties it.                       *)
LEMMA EndPageKeeps ==
  ASSUME NEW s \in States, NEW d, NEW at \in Nat
  PROVE  /\ Keeps(s, EndPage(s), d, at)
         /\ Emptied(EndPage(s)) /\ EndPage(s).start = 0
         /\ s.start = 0 => EndPage(s).pages # << >>
<1> DEFINE blank == s.queue = << >>
           f == Fresh(Emit(s, blank))
<1>1. /\ Keeps(s, f, d, at) /\ f.start = 0 /\ f.queue = s.queue
      /\ blank /\ s.start = 0 => f.pages # << >>
  BY PageOutKeeps
<1>2. EndPage(s) = Flush(f)
  BY DEF EndPage
<1> HIDE DEF f
<1>3. f \in Tops
  BY <1>1 DEF Keeps, Tops
<1>4. /\ Keeps(f, Flush(f), d, at)
      /\ Flush(f).page = << >> /\ Flush(f).queue = << >> /\ Flush(f).start = 0
      /\ f.pages # << >> \/ f.queue # << >> => Flush(f).pages # << >>
  BY <1>3, FlushKeeps
<1>5. Keeps(s, Flush(f), d, at)
  BY <1>1, <1>4, KeepsChain
<1> QED
  BY <1>1, <1>2, <1>4, <1>5 DEF Emptied

-----------------------------------------------------------------------------
(* Items.                                                                  *)
ItemSet ==
  [kind : {"box", "float", "clear", "break", "right"}, id : Nat, h : Nat, place : SUBSET Regions, defers : Nat]

(* The parts of an item, and which items are pieces.                       *)
LEMMA ItemParts ==
  ASSUME NEW x \in ItemSet
  PROVE  /\ x.kind \in {"box", "float", "clear", "break", "right"} /\ x.id \in Nat /\ x.h \in Nat
         /\ Renders(x) => x \in Pieces
BY DEF ItemSet, Pieces, Renders

(* What is on the page or waits was read before the new item.              *)
LEMMA PlacesKnown ==
  ASSUME NEW pages, NEW page, NEW queue, NEW d, NEW d2, NEW x,
         Len(pages) \in Nat, Grows(d, d2, x), Fine(pages, page, queue, d)
  PROVE  /\ \A i \in Names(page) \cup Names(queue) : i \in Nat /\ i < x.id /\ i # x.id /\ d2[i] = d[i]
         /\ InText(page, d2) /\ Distinct(page) /\ Rising(queue)
         /\ \A k \in 1 .. Len(page) : page[k].id \in Nat /\ page[k].id < x.id
         /\ \A k \in 1 .. Len(queue) : queue[k].id \in Nat /\ queue[k].id < x.id
<1>1. \A i \in Names(page) \cup Names(queue) : i \in Printed(d)
  BY QueueIsFloats
<1>2. /\ DOMAIN d \in SUBSET Nat /\ x.id \in Nat
      /\ \A i \in DOMAIN d : i < x.id /\ d2[i] = d[i]
  BY DEF Fine, Grows
<1>3. \A i \in Names(page) \cup Names(queue) : i \in Nat /\ i < x.id /\ i # x.id /\ d2[i] = d[i]
  <2>1. \A i \in Names(page) \cup Names(queue) : i \in DOMAIN d
    BY <1>1 DEF Printed
  <2> QED
    BY <1>2, <2>1
<1>4. /\ \A k \in 1 .. Len(page) : page[k].id \in Names(page)
      /\ \A k \in 1 .. Len(queue) : queue[k].id \in Names(queue)
  BY DEF Names
<1>5. InText(page, d) /\ Distinct(page) /\ Rising(queue)
  BY DEF Fine
<1>6. InText(page, d2)
  <2>1. \A k \in 1 .. Len(page) : d2[page[k].id] = d[page[k].id]
    BY <1>3, <1>4
  <2> QED
    BY <1>5, <2>1 DEF InText
<1> QED
  BY <1>3, <1>4, <1>5, <1>6

(* The piece that was read last is put under what is on the page.          *)
LEMMA PutReads ==
  ASSUME NEW s \in States, NEW x \in Pieces, NEW d, NEW d2, Grows(d, d2, x), Held(s, d),
         x.kind = "box" \/ "here" \in x.place
  PROVE  Held(Put(s, x), d2)
<1> DEFINE page == s.page
           one == <<x>>
<1>0. s.pages \in Seq(SUBSET Spots) /\ page \in Seq(Pieces) /\ Len(s.pages) \in Nat
  BY StateParts
<1>1. Fine(s.pages, page, s.queue, d)
  BY DEF Held
<1>2. /\ \A i \in Names(page) \cup Names(s.queue) : i \in Nat /\ i < x.id /\ i # x.id /\ d2[i] = d[i]
      /\ InText(page, d2) /\ Distinct(page) /\ Rising(s.queue)
      /\ \A k \in 1 .. Len(page) : page[k].id \in Nat /\ page[k].id < x.id
  BY <1>0, <1>1, PlacesKnown
<1>3. one \in Seq(Pieces) /\ Append(page, x) = page \o one /\ Len(one) = 1 /\ one[1] = x
  BY <1>0, AppendIsConcat
<1> HIDE DEF one, page
<1>4. \A l \in 1 .. Len(one) : one[l] = x /\ l = 1
  BY <1>3
<1>5. Names(one) = {x.id} /\ Distinct(one)
  BY <1>3 DEF Names, Distinct
<1>6. InText(one, d2)
  <2>1. x.id \in Nat
    BY DEF Pieces
  <2>2. \A k, l \in 1 .. Len(one) : ~ one[k].id < one[l].id
    BY <1>4, <2>1
  <2> QED
    BY <2>2 DEF InText
<1>7. Distinct(page \o one) /\ Names(page \o one) = Names(page) \cup {x.id}
  <2>1. Names(page) \cap Names(one) = {}
    BY <1>2, <1>5
  <2> QED
    BY <1>0, <1>2, <1>3, <1>5, <2>1, Joined
<1>8. InText(page \o one, d2)
  <2>1. \A k \in 1 .. Len(page), l \in 1 .. Len(one) : page[k].id < one[l].id
    BY <1>2, <1>4
  <2> QED
    BY <1>0, <1>2, <1>3, <1>6, <2>1, JoinedText
<1>9. Renders(x)
  BY DEF Renders, Pieces
<1>10. Fine(s.pages, Append(page, x), s.queue, d2)
  <2>1. /\ Names(Append(page, x)) = Names(page) \cup {x.id}
        /\ Distinct(Append(page, x)) /\ InText(Append(page, x), d2)
    BY <1>3, <1>7, <1>8
  <2> QED
    <3> DEFINE page2 == Append(page, x)
    <3>1. Names(page2) = Names(page) \cup {x.id} /\ Distinct(page2) /\ InText(page2, d2)
      BY <2>1
    <3> HIDE DEF page2
    <3>2. Len(s.pages) + 1 \in Nat
      BY <1>0
    <3>5. Fine(s.pages, page2, s.queue, d2)
      BY <1>0, <1>1, <1>2, <1>9, <3>1, <3>2, PieceRead
    <3> QED
      BY <3>5 DEF page2
<1>11. Put(s, x).pages = s.pages /\ Put(s, x).page = Append(page, x) /\ Put(s, x).queue = s.queue
  BY PutParts DEF page
<1> QED
  BY <1>10, <1>11 DEF Held

(* Nothing but the mark of a forced break changes.                         *)
LEMMA MarkKeeps ==
  ASSUME NEW s \in States, NEW b \in BOOLEAN
  PROVE  /\ [s EXCEPT !.explicit = b] \in States
         /\ \A d : Held([s EXCEPT !.explicit = b], d) <=> Held(s, d)
         /\ \A at : Tidy([s EXCEPT !.explicit = b], at) <=> Tidy(s, at)
<1> DEFINE t == [s EXCEPT !.explicit = b]
<1>1. /\ t \in States
      /\ t.pages = s.pages /\ t.page = s.page /\ t.queue = s.queue /\ t.used = s.used /\ t.start = s.start
      /\ t.last = s.last /\ t.continued = s.continued
  BY DEF States
<1> HIDE DEF t
<1>2. \A d : Held(t, d) <=> Held(s, d)
  BY <1>1 DEF Held
<1>3. \A at : Tidy(t, at) <=> Tidy(s, at)
  BY <1>1 DEF Tidy
<1> QED
  BY <1>1, <1>2, <1>3 DEF t

(* A machine reads an item.                                                *)
Reads(s, t, item, d, d2, at) ==
  /\ t \in States
  /\ Grows(d, d2, item) /\ Held(s, d) => Held(t, d2)
  /\ Tidy(s, at) => Tidy(t, at)

(* A float is read onto the page or into the queue.                        *)
LEMMA TakeFloatReads ==
  ASSUME NEW s \in States, NEW x \in ItemSet, x.kind = "float", NEW d, NEW d2, NEW at
  PROVE  Reads(s, TakeFloat(s, x), x, d, d2, at)
<1>0. x \in Pieces /\ Renders(x)
  BY ItemParts DEF Renders
<1>1. CASE "here" \in x.place /\ s.used + x.h <= Height
  <2>1. TakeFloat(s, x) = Put(s, x)
    BY <1>1 DEF TakeFloat
  <2>2. Put(s, x) \in States /\ (Tidy(s, at) => Tidy(Put(s, x), at))
    BY <1>0, PutParts
  <2>3. Grows(d, d2, x) /\ Held(s, d) => Held(Put(s, x), d2)
    BY <1>0, <1>1, PutReads
  <2> QED
    BY <2>1, <2>2, <2>3 DEF Reads
<1>2. CASE ~ ("here" \in x.place /\ s.used + x.h <= Height)
  <2> DEFINE q == Append(s.queue, x)
             t == [s EXCEPT !.queue = q]
             one == <<x>>
  <2>0. /\ s.pages \in Seq(SUBSET Spots) /\ s.queue \in Seq(Pieces) /\ Len(s.pages) \in Nat
        /\ Len(s.queue) \in Nat
    BY StateParts
  <2>1. TakeFloat(s, x) = t
    BY <1>2 DEF TakeFloat
  <2>2. one \in Seq(Pieces) /\ q = s.queue \o one /\ q \in Seq(Pieces) /\ Len(one) = 1 /\ one[1] = x
        /\ Len(q) = Len(s.queue) + 1 /\ q[Len(s.queue) + 1] = x /\ \A k \in 1 .. Len(s.queue) : q[k] = s.queue[k]
    <3>1. x \in Pieces
      BY <1>0
    <3>2. one \in Seq(Pieces) /\ q = s.queue \o one
      BY <2>0, <3>1, AppendIsConcat
    <3>3. Len(one) = 1 /\ one[1] = x
      OBVIOUS
    <3>4. q \in Seq(Pieces) /\ Len(q) = Len(s.queue) + 1 /\ q[Len(s.queue) + 1] = x
          /\ \A k \in 1 .. Len(s.queue) : q[k] = s.queue[k]
      BY <2>0, <3>1
    <3> QED
      BY <3>2, <3>3, <3>4
  <2> HIDE DEF q, one
  <2>3. /\ t \in States
        /\ t.pages = s.pages /\ t.page = s.page /\ t.queue = q /\ t.used = s.used /\ t.start = s.start
        /\ t.last = s.last /\ t.continued = s.continued
    BY <2>2 DEF States
  <2> HIDE DEF t
  <2>4. Tidy(s, at) => Tidy(t, at)
    BY <2>3 DEF Tidy
  <2>5. ASSUME Grows(d, d2, x), Held(s, d) PROVE Fine(s.pages, s.page, q, d2)
    <3>1. Fine(s.pages, s.page, s.queue, d)
      BY <2>5 DEF Held
    <3>2. /\ InText(s.page, d2) /\ Distinct(s.page) /\ Rising(s.queue)
          /\ \A k \in 1 .. Len(s.queue) : s.queue[k].id \in Nat /\ s.queue[k].id < x.id
      BY <2>0, <2>5, <3>1, PlacesKnown
    <3>3. Names(one) = {x.id}
      BY <2>2 DEF Names
    <3>4. Names(q) = Names(s.queue) \cup {x.id}
      BY <2>0, <2>2, <3>3, Joined
    <3>5. Rising(q)
      <4>1. SUFFICES ASSUME NEW k \in 1 .. Len(s.queue) + 1, NEW l \in 1 .. Len(s.queue) + 1, k < l
                     PROVE  q[k].id < q[l].id
        BY <2>2 DEF Rising
      <4>2. k \in 1 .. Len(s.queue)
        BY <2>0, <4>1
      <4>3. CASE l \in 1 .. Len(s.queue)
        BY <2>2, <3>2, <4>1, <4>2, <4>3 DEF Rising
      <4>4. CASE l = Len(s.queue) + 1
        BY <2>2, <3>2, <4>2, <4>4
      <4> QED
        BY <2>0, <4>3, <4>4
    <3>6. Len(s.pages) + 2 \in Nat
      BY <2>0
    <3> QED
      BY <1>0, <2>0, <2>5, <3>1, <3>2, <3>4, <3>5, <3>6, PieceRead
  <2>6. Grows(d, d2, x) /\ Held(s, d) => Held(t, d2)
    BY <2>3, <2>5 DEF Held
  <2> QED
    BY <2>1, <2>3, <2>4, <2>6 DEF Reads
<1> QED
  BY <1>1, <1>2

(* Turning the page for an item keeps the state.                           *)
LEMMA TurnForKeeps ==
  ASSUME NEW s \in States, NEW item, NEW turns, NEW d, NEW at \in Nat
  PROVE  Keeps(s, TurnFor(s, item, turns), d, at)
BY TurnPageKeeps, KeepsSame DEF TurnFor

(* So does putting floats on top of a new page.                            *)
LEMMA FloatsFirstKeeps ==
  ASSUME NEW s \in States, NEW d, NEW at
  PROVE  Keeps(s, FloatsFirst(s), d, at)
BY PlaceKeeps, KeepsSame DEF FloatsFirst

(* A box is read onto the page.                                            *)
LEMMA PutBoxReads ==
  ASSUME NEW s \in States, NEW x \in ItemSet, x.kind = "box", NEW d, NEW d2, NEW at \in Nat
  PROVE  Reads(s, PutBox(s, x), x, d, d2, at)
<1> DEFINE a == FloatsFirst(s)
           b == TurnOnce(a, x)
           c == TurnAgain(b, x)
<1>0. x \in Pieces
  BY ItemParts DEF Renders
<1>1. Keeps(s, a, d, at) /\ a \in States
  BY FloatsFirstKeeps DEF Keeps
<1> HIDE DEF a
<1>2. Keeps(a, b, d, at) /\ b \in States
  BY <1>1, TurnForKeeps DEF TurnOnce, Keeps
<1> HIDE DEF b
<1>3. Keeps(b, c, d, at) /\ c \in States
  BY <1>2, TurnForKeeps DEF TurnAgain, Keeps
<1> HIDE DEF c
<1>4. Keeps(s, c, d, at)
  BY <1>1, <1>2, <1>3, KeepsChain
<1>5. PutBox(s, x) = Put(c, x)
  BY DEF PutBox, a, b, c
<1>6. Put(c, x) \in States /\ (Tidy(c, at) => Tidy(Put(c, x), at))
  BY <1>0, <1>3, PutParts
<1>7. Grows(d, d2, x) /\ Held(c, d) => Held(Put(c, x), d2)
  BY <1>0, <1>3, PutReads
<1> QED
  BY <1>4, <1>5, <1>6, <1>7 DEF Keeps, Reads

(* A mark is read when the machine has done what it asks for.              *)
LEMMA MarkReads ==
  ASSUME NEW s \in States, NEW t \in States, NEW x \in ItemSet, ~ Renders(x), NEW d, NEW d2, NEW at,
         Keeps(s, t, d, at), x.kind = "clear" => Emptied(t)
  PROVE  Reads(s, [t EXCEPT !.explicit = TRUE], x, d, d2, at)
<1> DEFINE u == [t EXCEPT !.explicit = TRUE]
<1>1. u \in States /\ (Held(u, d2) <=> Held(t, d2)) /\ (Tidy(u, at) <=> Tidy(t, at))
  BY MarkKeeps
<1> HIDE DEF u
<1>2. ASSUME Grows(d, d2, x), Held(s, d) PROVE Held(t, d2)
  <2>1. t.pages \in Seq(SUBSET Spots)
    BY StateParts
  <2>2. Fine(t.pages, t.page, t.queue, d)
    BY <1>2 DEF Keeps, Held
  <2>3. x.kind = "clear" => Names(t.page) = {} /\ Names(t.queue) = {}
    BY DEF Emptied, Names
  <2> QED
    BY <1>2, <2>1, <2>2, <2>3, MarkRead DEF Held
<1> QED
  BY <1>1, <1>2 DEF Keeps, Reads, u

(* \clearpage is read: everything before it is on a finished page.         *)
LEMMA ClearPageReads ==
  ASSUME NEW s \in States, NEW x \in ItemSet, x.kind = "clear", NEW d, NEW d2, NEW at \in Nat
  PROVE  Reads(s, ClearPage(s), x, d, d2, at)
<1> DEFINE p == Place(s, "bottom")
           e == EndPage(p)
<1>1. Keeps(s, p, d, at) /\ p \in States
  BY PlaceKeeps DEF Keeps
<1> HIDE DEF p
<1>2. Keeps(p, e, d, at) /\ e \in States /\ Emptied(e)
  BY <1>1, EndPageKeeps DEF Keeps
<1> HIDE DEF e
<1>3. Keeps(s, e, d, at)
  BY <1>1, <1>2, KeepsChain
<1>4. ClearPage(s) = [e EXCEPT !.explicit = TRUE]
  BY DEF ClearPage, e, p
<1> QED
  BY <1>2, <1>3, <1>4, MarkReads DEF Renders

(* A forced break is read.                                                 *)
LEMMA ForcedBreakReads ==
  ASSUME NEW s \in States, NEW x \in ItemSet, x.kind = "break", NEW d, NEW d2, NEW at \in Nat
  PROVE  Reads(s, ForcedBreak(s), x, d, d2, at)
<1> DEFINE t == TurnPage(s, TRUE)
<1>1. Keeps(s, t, d, at) /\ t \in States
  BY TurnPageKeeps DEF Keeps
<1>2. ForcedBreak(s) = [t EXCEPT !.explicit = TRUE]
  BY DEF ForcedBreak
<1> HIDE DEF t
<1> QED
  BY <1>1, <1>2, MarkReads DEF Renders

(* A break to a right-hand page is read.                                   *)
LEMMA OpenRightReads ==
  ASSUME NEW s \in States, NEW x \in ItemSet, x.kind = "right", NEW d, NEW d2, NEW at \in Nat
  PROVE  Reads(s, OpenRight(s), x, d, d2, at)
<1> DEFINE pages2 == Append(s.pages, {})
           n == Len(s.pages)
           t == IF n % 2 = 1 THEN [s EXCEPT !.pages = pages2, !.last = 0] ELSE s
<1>0. s.pages \in Seq(SUBSET Spots) /\ n \in Nat /\ s.last \in Nat /\ s.start \in Nat
  BY StateParts
<1>1. OpenRight(s) = [t EXCEPT !.explicit = TRUE]
  BY DEF OpenRight, States
<1>2. Keeps(s, t, d, at)
  <2>1. CASE n % 2 # 1
    <3>1. t = s
      BY <2>1
    <3> QED
      BY <3>1, KeepsSame
  <2>2. CASE n % 2 = 1
    <3>1. /\ pages2 \in Seq(SUBSET Spots) /\ Len(pages2) = n + 1
          /\ \A p \in 1 .. n : pages2[p] = s.pages[p]
          /\ pages2[n + 1] = {}
      BY <1>0, OneMorePage
    <3>2. Fine(s.pages, s.page, s.queue, d) => Fine(pages2, s.page, s.queue, d)
      BY <1>0, BlankPage
    <3>3. n # 0
      <4>1. 0 % 2 # 1
        OBVIOUS
      <4> QED
        BY <2>2, <4>1
    <3> HIDE DEF pages2
    <3>4. /\ t \in States
          /\ t.pages = pages2 /\ t.page = s.page /\ t.queue = s.queue /\ t.used = s.used /\ t.start = s.start
          /\ t.last = 0 /\ t.continued = s.continued
      <4>1. t = [s EXCEPT !.pages = pages2, !.last = 0]
        BY <2>2
      <4> HIDE DEF t
      <4> QED
        BY <3>1, <4>1 DEF States
    <3> HIDE DEF t
    <3>5. Held(s, d) => Held(t, d)
      BY <3>2, <3>4 DEF Held
    <3>6. ASSUME Tidy(s, at) PROVE Tidy(t, at)
      <4>1. s.pages # << >>
        BY <1>0, <3>3
      <4>2. s.start = 0
        BY <1>0, <3>6, <4>1 DEF Tidy
      <4>3. pages2 # << >> /\ Len(pages2) # 1 /\ 1 \in 1 .. n
        BY <1>0, <3>1, <3>3
      <4>4. Uncovered({})
        BY DEF Uncovered
      <4>5. \A p \in 1 .. n + 1 : Uncovered(pages2[p])
        <5>1. SUFFICES ASSUME NEW p \in 1 .. n + 1 PROVE Uncovered(pages2[p])
          OBVIOUS
        <5>2. p \in 1 .. n \/ p = n + 1
          BY <1>0
        <5>3. \A r \in 1 .. n : Uncovered(s.pages[r])
          BY <3>6 DEF Tidy
        <5> QED
          BY <3>1, <4>4, <5>2, <5>3
      <4>6. pages2[1] = s.pages[1] /\ pages2[Len(pages2)] = {}
        BY <3>1, <4>3
      <4>7. s.used = s.start + Total(s.page) /\ s.start \in {0, at}
            /\ (s.continued => at > 0 /\ \A y \in s.pages[1] : y.at >= at)
        BY <3>6 DEF Tidy
      <4> QED
        BY <3>1, <3>4, <4>2, <4>3, <4>5, <4>6, <4>7 DEF Tidy
    <3> QED
      BY <3>4, <3>5, <3>6 DEF Keeps
  <2> QED
    BY <2>1, <2>2
<1>3. t \in States
  BY <1>2 DEF Keeps
<1> HIDE DEF t
<1> QED
  BY <1>1, <1>2, <1>3, MarkReads DEF Renders

(* One item of the list.                                                   *)
LEMMA StepReads ==
  ASSUME NEW s \in States, NEW x \in ItemSet, NEW d, NEW d2, NEW at \in Nat
  PROVE  Reads(s, Step(s, x), x, d, d2, at)
<1>1. ASSUME NEW t, Reads(s, t, x, d, d2, at) PROVE Reads(s, [t EXCEPT !.explicit = FALSE], x, d, d2, at)
  <2>1. t \in States /\ FALSE \in BOOLEAN
    BY <1>1 DEF Reads
  <2> DEFINE u == [t EXCEPT !.explicit = FALSE]
  <2>2. u \in States /\ (Held(u, d2) <=> Held(t, d2)) /\ (Tidy(u, at) <=> Tidy(t, at))
    BY <2>1, MarkKeeps
  <2> HIDE DEF u
  <2> QED
    BY <1>1, <2>2 DEF Reads, u
<1>2. CASE x.kind = "float"
  <2>1. Step(s, x) = [TakeFloat(s, x) EXCEPT !.explicit = FALSE]
    BY <1>2 DEF Step
  <2> QED
    BY <1>1, <1>2, <2>1, TakeFloatReads
<1>3. CASE x.kind = "clear"
  <2>1. Step(s, x) = ClearPage(s)
    BY <1>3 DEF Step
  <2> QED
    BY <1>3, <2>1, ClearPageReads
<1>4. CASE x.kind = "break"
  <2>1. Step(s, x) = ForcedBreak(s)
    BY <1>4 DEF Step
  <2> QED
    BY <1>4, <2>1, ForcedBreakReads
<1>5. CASE x.kind = "right"
  <2>1. Step(s, x) = OpenRight(s)
    BY <1>5 DEF Step
  <2> QED
    BY <1>5, <2>1, OpenRightReads
<1>6. CASE x.kind = "box"
  <2>1. Step(s, x) = [PutBox(s, x) EXCEPT !.explicit = FALSE]
    BY <1>6 DEF Step
  <2> QED
    BY <1>1, <1>6, <2>1, PutBoxReads
<1> QED
  BY <1>2, <1>3, <1>4, <1>5, <1>6, ItemParts

(* An item takes a state to a state.                                       *)
LEMMA StepTyped ==
  ASSUME NEW s \in States, NEW x \in ItemSet
  PROVE  Step(s, x) \in States
<1>1. 0 \in Nat
  OBVIOUS
<1>2. \A d, d2 : Reads(s, Step(s, x), x, d, d2, 0)
  BY <1>1, StepReads
<1> QED
  BY <1>2 DEF Reads

(* A list is read item by item.                                           *)
LEMMA ReadSteps ==
  ASSUME NEW b \in States, NEW q \in Seq(ItemSet)
  PROVE  \E h \in [0 .. Len(q) -> States] :
           /\ h[0] = b /\ FoldLeft(Step, b, q) = h[Len(q)]
           /\ \A k \in 1 .. Len(q) : h[k] = Step(h[k - 1], q[k])
<1> DEFINE n == Len(q)
           B == States
           g == [i \in 1 .. n |-> [x \in B |-> Step(x, q[i])]]
           F(f) == f = [t \in SUBSET (1 .. n) |->
                         IF t = {} THEN b ELSE Step(f[t \ {Max(t)}], q[Max(t)])]
           iter == CHOOSE f : F(f)
<1>0. b \in B /\ n \in Nat
  OBVIOUS
<1>1. g \in [1 .. n -> [B -> B]]
  <2>1. \A i \in 1 .. n : \A x \in B : Step(x, q[i]) \in B
    <3>1. SUFFICES ASSUME NEW i \in 1 .. n, NEW x \in B PROVE Step(x, q[i]) \in B
      OBVIOUS
    <3>2. q[i] \in ItemSet
      OBVIOUS
    <3> QED
      BY <3>1, <3>2, StepTyped
  <2> QED
    BY <2>1
<1>2. PICK e : FoldOn(B, b, g, n, e)
  <2>1. \E e : FoldOn(B, b, g, n, e)
    <3> HIDE DEF g, B, n
    <3> QED
      BY <1>0, <1>1, FoldFn
  <2> QED
    BY <2>1
<1>3. \A i \in 1 .. n : \A x \in B : g[i][x] = Step(x, q[i])
  OBVIOUS
<1> HIDE DEF g, B
<1>4. F(e)
  <2>1. ASSUME NEW t \in SUBSET (1 .. n)
        PROVE  e[t] = IF t = {} THEN b ELSE Step(e[t \ {Max(t)}], q[Max(t)])
    <3>1. e[t] = FoldStep(b, g, e, t) /\ e[t \ {Max(t)}] \in B
      BY <1>2 DEF FoldOn
    <3>2. t # {} => Max(t) \in 1 .. n
      BY <1>0, MaxRange
    <3> QED
      BY <1>3, <3>1, <3>2 DEF FoldStep
  <2>2. e = [t \in SUBSET (1 .. n) |-> e[t]]
    BY <1>2 DEF FoldOn
  <2> QED
    BY <2>1, <2>2
<1>5. F(iter)
  <2> HIDE DEF F
  <2> QED
    BY <1>4
<1>6. FoldLeft(Step, b, q) = iter[1 .. n]
  <2>1. DOMAIN q = 1 .. n
    OBVIOUS
  <2> QED
    BY <2>1 DEF FoldLeft, MapThenFoldSet
<1>7. \A t \in SUBSET (1 .. n) :
        iter[t] = IF t = {} THEN b ELSE Step(iter[t \ {Max(t)}], q[Max(t)])
  <2>1. \A f : F(f) => \A t \in SUBSET (1 .. n) :
          f[t] = IF t = {} THEN b ELSE Step(f[t \ {Max(t)}], q[Max(t)])
    OBVIOUS
  <2> HIDE DEF F, iter
  <2> QED
    BY <1>5, <2>1
<1> HIDE DEF iter, F
<1>8. iter[{}] = b
  BY <1>7
<1>9. \A k \in 1 .. n : iter[1 .. (k - 1)] \in B => iter[1 .. k] = g[k][iter[1 .. (k - 1)]]
  <2>1. SUFFICES ASSUME NEW k \in 1 .. n, iter[1 .. (k - 1)] \in B
                 PROVE  iter[1 .. k] = g[k][iter[1 .. (k - 1)]]
    OBVIOUS
  <2>2. 1 .. k \in SUBSET (1 .. n) /\ k \in Nat \ {0}
    BY <1>0, FirstOnes
  <2>3. Max(1 .. k) = k /\ 1 .. k # {} /\ (1 .. k) \ {k} = 1 .. (k - 1)
    BY <2>2, MaxOfRange
  <2>4. iter[1 .. k] = Step(iter[1 .. (k - 1)], q[k])
    BY <1>7, <2>2, <2>3
  <2> QED
    BY <1>3, <2>1, <2>4
<1>10. PICK h : History(B, b, n, g, h) /\ EndsAs(iter, n, h)
  <2>1. Loops(B, b, n, g, iter)
    BY <1>8, <1>9 DEF Loops
  <2> HIDE DEF n
  <2> QED
    BY <1>0, <1>1, <2>1, FoldSteps
<1>11. h \in [0 .. n -> B] /\ h[0] = b /\ \A k \in 1 .. n : h[k] = g[k][h[k - 1]]
  BY <1>10 DEF History
<1>12. \A k \in 1 .. n : h[k - 1] \in B
  BY <1>0, <1>11
<1>13. \A k \in 1 .. n : h[k] = Step(h[k - 1], q[k])
  BY <1>3, <1>11, <1>12
<1> QED
  BY <1>6, <1>10, <1>11, <1>13 DEF EndsAs, B


(* A place in the queue that holds nothing.                                *)
LEMMA PlaceParts ==
  ASSUME NEW s \in States, NEW region
  PROVE  /\ Place(s, region).start = s.start
         /\ s.queue = << >> => /\ Place(s, region).pages = s.pages /\ Place(s, region).page = s.page
                               /\ Place(s, region).last = s.last /\ Place(s, region).continued = s.continued
<1> DEFINE m == Taken(s, region)
           a == SubSeq(s.queue, 1, m)
           b == SubSeq(s.queue, m + 1, Len(s.queue))
<1>0. s.queue \in Seq(Pieces) /\ Len(s.queue) \in Nat /\ s.page \in Seq(Pieces)
  BY StateParts
<1>1. Place(s, region) = [s EXCEPT !.page = s.page \o a, !.used = s.used + Total(a), !.queue = b]
  BY DEF Place, PlaceFirst
<1>2. m \in 0 .. Len(s.queue)
  BY <1>0, TakenFirst
<1> HIDE DEF m
<1>3. a \in Seq(Pieces) /\ Len(a) = m
  BY <1>0, <1>2, QueueCut
<1> HIDE DEF a, b
<1>4. s.queue = << >> => s.page \o a = s.page
  <2>1. SUFFICES ASSUME s.queue = << >> PROVE s.page \o a = s.page
    OBVIOUS
  <2>2. m = 0
    BY <1>0, <1>2, <2>1
  <2>3. a = << >>
    BY <1>3, <2>2
  <2> QED
    BY <1>0, <2>3
<1> QED
  BY <1>1, <1>4 DEF States

(* The end of the list.                                                    *)
LEMMA FinishKeeps ==
  ASSUME NEW s \in States, NEW d, NEW at \in Nat
  PROVE  /\ Keeps(s, Finish(s), d, at) /\ Emptied(Finish(s))
         /\ s.start = 0 => Finish(s).pages # << >>
<1>1. CASE s.page = << >> /\ s.pages # << >> /\ s.queue = << >>
  <2>1. Finish(s) = s
    BY <1>1 DEF Finish
  <2> QED
    BY <1>1, <2>1, KeepsSame DEF Emptied
<1>2. CASE ~ (s.page = << >> /\ s.pages # << >> /\ s.queue = << >>)
  <2> DEFINE p == IF s.start = 0 THEN PlaceOnTop(s) ELSE s
             r == Place(p, "bottom")
  <2>1. Finish(s) = EndPage(r)
    BY <1>2 DEF Finish
  <2>2. Keeps(s, p, d, at)
    BY PlaceOnTopKeeps, KeepsSame
  <2>3. p \in States
    BY <2>2 DEF Keeps
  <2>4. s.start = 0 => p.start = 0
    <3>1. ASSUME s.start = 0 PROVE PlaceOnTop(s).start = 0
      <4> DEFINE e == [s EXCEPT !.page = << >>]
                 f == Place(e, "top")
      <4>1. e \in States /\ e.start = 0
        <5>1. << >> \in Seq(Pieces)
          OBVIOUS
        <5> QED
          BY <3>1, <5>1 DEF States
      <4> HIDE DEF e
      <4>2. f.start = 0 /\ f \in States
        <5>1. f.start = 0
          BY <4>1, PlaceParts
        <5>2. \A x : Keeps(e, f, x, x)
          BY <4>1, PlaceKeeps
        <5> QED
          BY <5>1, <5>2 DEF Keeps
      <4> HIDE DEF f
      <4>3. PlaceOnTop(s) = [f EXCEPT !.page = @ \o s.page]
        BY DEF PlaceOnTop, f, e
      <4> QED
        BY <4>2, <4>3 DEF States
    <3> QED
      BY <3>1
  <2> HIDE DEF p
  <2>5. Keeps(p, r, d, at) /\ r.start = p.start
    BY <2>3, PlaceKeeps, PlaceParts
  <2>6. r \in States
    BY <2>5 DEF Keeps
  <2> HIDE DEF r
  <2>7. /\ Keeps(r, EndPage(r), d, at) /\ Emptied(EndPage(r))
        /\ r.start = 0 => EndPage(r).pages # << >>
    BY <2>6, EndPageKeeps
  <2>8. Keeps(s, EndPage(r), d, at)
    BY <2>2, <2>5, <2>7, KeepsChain
  <2> QED
    BY <2>1, <2>4, <2>5, <2>7, <2>8
<1> QED
  BY <1>1, <1>2

-----------------------------------------------------------------------------
(* The invariant of the builder.                                           *)
ItemsOK == items \in Seq(ItemSet) /\ \A i \in 1 .. Len(items) : items[i].id = i

BuilderInv == ItemsOK /\ builder \in States /\ Held(builder, items) /\ Tidy(builder, 0)

(* A list grows at its end.                                                *)
LEMMA ListGrows ==
  ASSUME ItemsOK, NEW x \in ItemSet, x.id = Len(items) + 1
  PROVE  /\ Append(items, x) \in Seq(ItemSet) /\ Grows(items, Append(items, x), x)
         /\ \A i \in 1 .. Len(Append(items, x)) : Append(items, x)[i].id = i
<1> DEFINE n == Len(items)
           q == Append(items, x)
<1>1. items \in Seq(ItemSet) /\ n \in Nat /\ \A i \in 1 .. n : items[i].id = i
  BY DEF ItemsOK
<1>2. /\ q \in Seq(ItemSet) /\ Len(q) = n + 1 /\ q[n + 1] = x /\ \A i \in 1 .. n : q[i] = items[i]
      /\ DOMAIN q = 1 .. n + 1 /\ DOMAIN items = 1 .. n
  BY <1>1
<1> HIDE DEF q, n
<1>3. 1 .. n + 1 = (1 .. n) \cup {n + 1} /\ n + 1 \in Nat /\ \A i \in 1 .. n : i < n + 1
  BY <1>1
<1>4. x.id = n + 1
  BY DEF n
<1>5. Grows(items, q, x)
  BY <1>2, <1>3, <1>4 DEF Grows
<1>6. \A i \in 1 .. n + 1 : q[i].id = i
  BY <1>1, <1>2, <1>3, <1>4
<1> QED
  BY <1>2, <1>5, <1>6 DEF q

(* The machine starts in a tidy state.                                     *)
LEMMA StartParts ==
  ASSUME NEW used \in Nat
  PROVE  Start(used, << >>) \in States /\ Tidy(Start(used, << >>), used)
<1> DEFINE s == Start(used, << >>)
<1>1. << >> \in Seq(SUBSET Spots) /\ << >> \in Seq(Pieces) /\ Len(<< >>) = 0
  OBVIOUS
<1>2. /\ s \in States /\ s.pages = << >> /\ s.page = << >> /\ s.used = used /\ s.start = used /\ s.last = used
      /\ s.continued = FALSE
  BY <1>1 DEF Start, States
<1> HIDE DEF s
<1>3. s.used = s.start + Total(s.page)
  BY <1>2, TotalNone
<1>4. Tidy(s, used)
  BY <1>1, <1>2, <1>3 DEF Tidy
<1> QED
  BY <1>2, <1>4 DEF s

(* The invariant holds of the empty document.                              *)
LEMMA BuilderInit == PagesInit => BuilderInv
<1> SUFFICES ASSUME PagesInit PROVE BuilderInv
  OBVIOUS
<1>1. items = << >> /\ builder = Start(0, << >>) /\ 0 \in Nat
  BY DEF PagesInit
<1>2. builder \in States /\ Tidy(builder, 0)
  BY <1>1, StartParts
<1>3. builder.pages = << >> /\ builder.page = << >> /\ builder.queue = << >>
  BY <1>1 DEF Start
<1>4. Held(builder, items)
  <2> DEFINE W == [i \in {} |-> 1]
             e == << >>
  <2>1. DOMAIN e = {} /\ Len(e) = 0
    OBVIOUS
  <2> HIDE DEF e
  <2>2. Printed(e) = {}
    BY <2>1 DEF Printed
  <2>3. Names(e) = {} /\ \A p : Where(e, W, p) = {}
    BY <2>1, <2>2 DEF Names, Where
  <2>4. W \in [Printed(e) -> 1 .. Len(e) + 2]
    BY <2>2
  <2> HIDE DEF W
  <2>5. Laid(e, e, e, e, W)
    BY <2>1, <2>3, <2>4 DEF Laid
  <2>6. LevelsRise(e, W, Len(e))
    BY <2>1, <2>2 DEF LevelsRise, TextRises, FloatsRise, ClearsHold, OnlyFloats
  <2>7. Distinct(e) /\ Rising(e) /\ InText(e, e)
    BY <2>1 DEF Distinct, Rising, InText
  <2>8. Fine(e, e, e, e)
    BY <2>1, <2>5, <2>6, <2>7 DEF Fine
  <2> QED
    BY <1>1, <1>3, <2>8 DEF Held, e
<1>5. ItemsOK
  <2>1. << >> \in Seq(ItemSet) /\ Len(<< >>) = 0
    OBVIOUS
  <2> QED
    BY <1>1, <2>1 DEF ItemsOK
<1> QED
  BY <1>2, <1>4, <1>5 DEF BuilderInv

(* What is read is an item.                                                *)
LEMMA ItemsRead ==
  ASSUME ItemsOK, PagesNext
  PROVE  \/ \E x \in ItemSet : /\ Read(x) /\ x.id = Len(items) + 1
                               /\ x.kind = "box" => x.h \in BoxHeights
                               /\ x.kind = "float" => x.h \in FloatHeights
         \/ Cut
<1>1. Len(items) + 1 \in Nat /\ 0 \in Nat /\ {} \in SUBSET Regions
  BY DEF ItemsOK
<1>2. ASSUME NEW kind \in {"box", "float", "clear", "break", "right"}, NEW h \in Nat, NEW place \in SUBSET Regions
      PROVE  /\ Item(kind, h, place) \in ItemSet /\ Item(kind, h, place).id = Len(items) + 1
             /\ Item(kind, h, place).kind = kind /\ Item(kind, h, place).h = h
  BY <1>1, <1>2 DEF Item, ItemSet
<1>3. CASE ReadBox
  <2>1. PICK h \in BoxHeights : Read(Item("box", h, {}))
    BY <1>3 DEF ReadBox
  <2>2. h \in Nat
    BY HeightAssumption
  <2> QED
    BY <1>1, <1>2, <2>1, <2>2
<1>4. CASE ReadFloat
  <2>1. PICK h \in FloatHeights, place \in {{"here", "top"}, {"top"}, {"bottom"}, {"page"}} :
          Read(Item("float", h, place))
    BY <1>4 DEF ReadFloat
  <2>2. h \in Nat
    BY HeightAssumption
  <2>3. place \in SUBSET Regions
    BY DEF Regions
  <2> QED
    BY <1>2, <2>1, <2>2, <2>3
<1>5. CASE ReadClear
  BY <1>1, <1>2, <1>5 DEF ReadClear
<1>6. CASE ReadBreak
  BY <1>1, <1>2, <1>6 DEF ReadBreak
<1>7. CASE ReadRight
  BY <1>1, <1>2, <1>7 DEF ReadRight
<1> QED
  BY <1>3, <1>4, <1>5, <1>6, <1>7 DEF PagesNext

(* Reading an item and cutting the pipeline keep it.                       *)
LEMMA BuilderStep == BuilderInv /\ [PagesNext]_pageVars => BuilderInv'
<1> SUFFICES ASSUME BuilderInv, [PagesNext]_pageVars PROVE BuilderInv'
  OBVIOUS
<1>0. ItemsOK /\ builder \in States /\ Held(builder, items) /\ Tidy(builder, 0)
  BY DEF BuilderInv
<1>1. CASE UNCHANGED <<items, builder>>
  BY <1>1 DEF BuilderInv, ItemsOK
<1>2. ASSUME NEW x \in ItemSet, Read(x), x.id = Len(items) + 1 PROVE BuilderInv'
  <2>1. items' = Append(items, x) /\ builder' = Step(builder, x)
    BY <1>2 DEF Read
  <2>2. /\ Append(items, x) \in Seq(ItemSet) /\ Grows(items, Append(items, x), x)
        /\ \A i \in 1 .. Len(Append(items, x)) : Append(items, x)[i].id = i
    BY <1>0, <1>2, ListGrows
  <2>3. Reads(builder, Step(builder, x), x, items, Append(items, x), 0)
    <3>1. 0 \in Nat
      OBVIOUS
    <3> QED
      BY <1>0, <3>1, StepReads
  <2>4. ItemsOK'
    BY <2>1, <2>2 DEF ItemsOK
  <2> QED
    BY <1>0, <2>1, <2>2, <2>3, <2>4 DEF BuilderInv, Reads
<1> QED
  <2>1. CASE PagesNext
    <3>1. CASE Cut
      BY <1>1, <3>1 DEF Cut
    <3> QED
      BY <1>0, <1>2, <2>1, <3>1, ItemsRead
  <2>2. CASE UNCHANGED pageVars
    BY <1>1, <2>2 DEF pageVars
  <2> QED
    BY <2>1, <2>2

(* The inductive invariant: the builder's state is a tidy part of the items *)
(* read so far, whatever their order, heights and places.                  *)
THEOREM BuilderInvariant == PagesSpec => []BuilderInv
<1>1. PagesInit => BuilderInv
  BY BuilderInit
<1>2. BuilderInv /\ [PagesNext]_pageVars => BuilderInv'
  BY BuilderStep
<1> QED
  BY <1>1, <1>2, PTL DEF PagesSpec

(* When the list ends, everything that was read has a page.                *)
Settled(pages, d, W) ==
  /\ \A i \in Printed(d) : W[i] \in 1 .. Len(pages)
  /\ \A p \in 1 .. Len(pages) : Ids(pages[p]) = Where(d, W, p)
  /\ TextRises(d, W) /\ FloatsRise(d, W) /\ ClearsHold(d, W, Len(pages))
  /\ \A p \in 1 .. Len(pages) : Single(pages[p]) /\ TextDown(pages[p], d)

(* The document that Finish makes of such a state has everything in its place. *)
LEMMA PagesSettle ==
  ASSUME BuilderInv, items # << >>
  PROVE  /\ Pages \in Seq(SUBSET Spots)
         /\ \E W : Settled(Pages, items, W)
         /\ \A p \in 1 .. Len(Pages) : Uncovered(Pages[p])
<1> DEFINE f == Finish(builder)
<1>1. Keeps(builder, f, items, 0) /\ Emptied(f)
  <2>1. 0 \in Nat /\ builder \in States
    BY DEF BuilderInv
  <2> QED
    BY <2>1, FinishKeeps
<1>2. Pages = f.pages
  BY DEF Pages
<1> HIDE DEF f
<1>3. f \in States /\ Held(f, items) /\ Tidy(f, 0)
  BY <1>1 DEF BuilderInv, Keeps
<1>4. f.pages \in Seq(SUBSET Spots) /\ Len(f.pages) \in Nat
  BY <1>3, StateParts
<1> DEFINE n == Len(f.pages)
<1>5. /\ Fine(f.pages, f.page, f.queue, items)
      /\ f.page = << >> /\ f.queue = << >>
  BY <1>1, <1>3 DEF Held, Emptied
<1>6. PICK W : Laid(f.pages, f.page, f.queue, items, W) /\ LevelsRise(items, W, n)
  BY <1>5 DEF Fine
<1>7. /\ W \in [Printed(items) -> 1 .. n + 2]
      /\ \A p \in 1 .. n : Ids(f.pages[p]) = Where(items, W, p)
      /\ Where(items, W, n + 1) = {} /\ Where(items, W, n + 2) = {}
  BY <1>5, <1>6 DEF Laid, Names
<1>8. \A i \in Printed(items) : W[i] \in 1 .. n
  <2>1. \A i \in Printed(items) : W[i] # n + 1 /\ W[i] # n + 2
    BY <1>7 DEF Where
  <2> QED
    BY <1>4, <1>7, <2>1
<1>9. \A p \in 1 .. n : Single(f.pages[p]) /\ TextDown(f.pages[p], items)
  BY <1>5 DEF Fine
<1>10. Settled(f.pages, items, W)
  BY <1>6, <1>7, <1>8, <1>9 DEF Settled, LevelsRise
<1>11. \A p \in 1 .. n : Uncovered(f.pages[p])
  BY <1>3 DEF Tidy
<1> QED
  BY <1>2, <1>4, <1>10, <1>11

(* Where an item is.                                                       *)
LEMMA PlaceOfItem ==
  ASSUME NEW pages \in Seq(SUBSET Spots), NEW d, NEW W, Settled(pages, d, W), NEW i \in Printed(d)
  PROVE  /\ PageOf(pages, i) = W[i] /\ SpotOf(pages, i) \in pages[W[i]] /\ SpotOf(pages, i).id = i
         /\ W[i] \in 1 .. Len(pages)
         /\ \A p \in 1 .. Len(pages) : \A x \in pages[p] : x.id = i => p = W[i] /\ x = SpotOf(pages, i)
<1> DEFINE w == W[i]
<1>1. w \in 1 .. Len(pages) /\ DOMAIN pages = 1 .. Len(pages)
  BY DEF Settled
<1>2. \A p \in 1 .. Len(pages) : \A x \in pages[p] : x.id = i => p = w
  <2>1. SUFFICES ASSUME NEW p \in 1 .. Len(pages), NEW x \in pages[p], x.id = i PROVE p = w
    OBVIOUS
  <2>2. i \in Ids(pages[p])
    BY <2>1 DEF Ids
  <2> QED
    BY <2>2 DEF Settled, Where
<1>3. \E x \in pages[w] : x.id = i
  <2>1. i \in Where(d, W, w)
    BY DEF Where
  <2>2. i \in Ids(pages[w])
    BY <1>1, <2>1 DEF Settled
  <2> QED
    BY <2>2 DEF Ids
<1>4. PageOf(pages, i) = w
  <2>1. \A p \in DOMAIN pages : (\E x \in pages[p] : x.id = i) => p = w
    BY <1>1, <1>2
  <2> QED
    BY <1>1, <1>3, <2>1 DEF PageOf
<1>5. SpotOf(pages, i) \in pages[w] /\ SpotOf(pages, i).id = i
  BY <1>3, <1>4 DEF SpotOf
<1>6. \A x \in pages[w] : x.id = i => x = SpotOf(pages, i)
  BY <1>1, <1>5 DEF Settled, Single
<1> QED
  BY <1>1, <1>2, <1>4, <1>5, <1>6

(* The boxes and floats of a document are what is printed of it.           *)
LEMMA ContentsAre ==
  ASSUME ItemsOK
  PROVE  /\ Contents("box") \cup Contents("float") = Printed(items)
         /\ Contents("box") \in SUBSET Printed(items) /\ Contents("float") \in SUBSET Printed(items)
BY DEF Contents, Printed, Renders

(* For every height of the page and every list of boxes, floats and breaks: *)
(* whatever place_pending_floats, emit_page and the flushes at \clearpage and *)
(* at the end take out of the queue, every box and every float is in exactly *)
(* one place of the finished pages.                                        *)
THEOREM NothingLost == PagesSpec => []EverythingOnce
<1>1. BuilderInv => EverythingOnce
  <2>1. SUFFICES ASSUME BuilderInv, NEW i \in Contents("box") \cup Contents("float")
                 PROVE  Cardinality(SpotsOf(Pages, i)) = 1
    BY DEF EverythingOnce
  <2>2. i \in Printed(items)
    BY <2>1, ContentsAre DEF BuilderInv
  <2>3. items # << >>
    <3>1. i \in DOMAIN items
      BY <2>2 DEF Printed
    <3> QED
      BY <3>1
  <2>4. PICK W : Pages \in Seq(SUBSET Spots) /\ Settled(Pages, items, W)
    BY <2>1, <2>3, PagesSettle
  <2> DEFINE x == SpotOf(Pages, i)
             w == W[i]
  <2> HIDE DEF Pages
  <2>5. /\ x \in Pages[w] /\ x.id = i /\ w \in 1 .. Len(Pages)
        /\ \A p \in 1 .. Len(Pages) : \A y \in Pages[p] : y.id = i => p = w /\ y = x
    BY <2>2, <2>4, PlaceOfItem
  <2>6. DOMAIN Pages = 1 .. Len(Pages)
    BY <2>4
  <2> HIDE DEF x, w
  <2>7. SpotsOf(Pages, i) = {<<w, x>>}
    <3>1. ASSUME NEW z \in SpotsOf(Pages, i) PROVE z = <<w, x>>
      <4>1. PICK p \in DOMAIN Pages : z \in {<<p, y>> : y \in {u \in Pages[p] : u.id = i}}
        BY <3>1 DEF SpotsOf
      <4>2. PICK y \in Pages[p] : y.id = i /\ z = <<p, y>>
        BY <4>1
      <4> QED
        BY <2>5, <2>6, <4>2
    <3>2. <<w, x>> \in SpotsOf(Pages, i)
      <4>1. <<w, x>> \in {<<w, y>> : y \in {u \in Pages[w] : u.id = i}}
        BY <2>5
      <4> QED
        BY <2>5, <2>6, <4>1 DEF SpotsOf
    <3> QED
      BY <3>1, <3>2
  <2> QED
    BY <2>7, FS_Singleton
<1> QED
  BY <1>1, BuilderInvariant, PTL

(* For every such list boxes stay in order, also down a page, and a float  *)
(* never comes out of the queue before an earlier one that waits in it.    *)
THEOREM OrderKept == PagesSpec => []OrderIsKept
<1>1. BuilderInv => OrderIsKept
  <2> SUFFICES ASSUME BuilderInv PROVE OrderIsKept
    OBVIOUS
  <2>0. ItemsOK /\ \A i \in Printed(items) : i \in DOMAIN items
    BY DEF BuilderInv, Printed
  <2>1. CASE items = << >>
    <3>1. Contents("box") = {} /\ Contents("float") = {}
      BY <2>1 DEF Contents
    <3> QED
      BY <3>1 DEF OrderIsKept
  <2>2. CASE items # << >>
    <3>1. PICK W : Pages \in Seq(SUBSET Spots) /\ Settled(Pages, items, W)
      BY <2>2, PagesSettle
    <3> HIDE DEF Pages
    <3>2. \A i \in Printed(items) :
            /\ PageOf(Pages, i) = W[i] /\ SpotOf(Pages, i) \in Pages[W[i]] /\ SpotOf(Pages, i).id = i
            /\ W[i] \in 1 .. Len(Pages)
      BY <3>1, PlaceOfItem
    <3>3. ASSUME NEW i \in Contents("box"), NEW j \in Contents("box"), i < j
          PROVE  \/ PageOf(Pages, i) < PageOf(Pages, j)
                 \/ /\ PageOf(Pages, i) = PageOf(Pages, j)
                    /\ SpotOf(Pages, i).at + SpotOf(Pages, i).h <= SpotOf(Pages, j).at
      <4>1. i \in Printed(items) /\ j \in Printed(items) /\ items[i].kind = "box" /\ items[j].kind = "box"
        BY <2>0, <3>3, ContentsAre DEF Contents
      <4>2. W[i] <= W[j]
        BY <3>1, <3>3, <4>1 DEF Settled, TextRises
      <4>3. CASE W[i] = W[j]
        <5>1. TextDown(Pages[W[i]], items)
          BY <3>1, <3>2, <4>1 DEF Settled
        <5>2. SpotOf(Pages, i).at + SpotOf(Pages, i).h <= SpotOf(Pages, j).at
          BY <3>2, <3>3, <4>1, <4>3, <5>1 DEF TextDown
        <5> QED
          BY <3>2, <4>1, <4>3, <5>2
      <4>4. CASE W[i] # W[j]
        <5>1. W[i] < W[j]
          BY <3>2, <4>1, <4>2, <4>4
        <5> QED
          BY <3>2, <4>1, <5>1
      <4> QED
        BY <4>3, <4>4
    <3>4. ASSUME NEW i \in Contents("float"), NEW j \in Contents("float"), i < j, "here" \notin items[j].place
          PROVE  PageOf(Pages, i) <= PageOf(Pages, j)
      <4>1. i \in Printed(items) /\ j \in Printed(items) /\ items[i].kind = "float" /\ items[j].kind = "float"
        BY <2>0, <3>4, ContentsAre DEF Contents
      <4>2. W[i] <= W[j]
        BY <3>1, <3>4, <4>1 DEF Settled, FloatsRise
      <4> QED
        BY <3>2, <4>1, <4>2
    <3> QED
      BY <3>3, <3>4 DEF OrderIsKept
  <2> QED
    BY <2>1, <2>2
<1> QED
  BY <1>1, BuilderInvariant, PTL

(* For every such list a float from before a \clearpage is on an earlier page *)
(* than any box behind it.                                                 *)
THEOREM ClearHolds == PagesSpec => []ClearPageHolds
<1>1. BuilderInv => ClearPageHolds
  <2>1. SUFFICES ASSUME BuilderInv, NEW c \in Contents("clear"), NEW f \in Contents("float"),
                        NEW b \in Contents("box"), f < c, c < b
                 PROVE  PageOf(Pages, f) < PageOf(Pages, b)
    BY DEF ClearPageHolds
  <2>2. f \in Printed(items) /\ b \in Printed(items)
    BY <2>1, ContentsAre DEF BuilderInv
  <2>3. c \in DOMAIN items /\ items[c].kind = "clear"
    BY DEF Contents
  <2>4. items # << >>
    BY <2>3
  <2>5. PICK W : Pages \in Seq(SUBSET Spots) /\ Settled(Pages, items, W)
    BY <2>1, <2>4, PagesSettle
  <2> HIDE DEF Pages
  <2>6. PageOf(Pages, f) = W[f] /\ PageOf(Pages, b) = W[b]
    BY <2>2, <2>5, PlaceOfItem
  <2>7. W[f] < W[b]
    BY <2>1, <2>2, <2>3, <2>5 DEF Settled, ClearsHold
  <2> QED
    BY <2>6, <2>7
<1> QED
  BY <1>1, BuilderInvariant, PTL

-----------------------------------------------------------------------------
(* Sections.                                                               *)

(* A list leaves a machine in order.                                       *)
LEMMA ListTidy ==
  ASSUME NEW s \in States, NEW q \in Seq(ItemSet), NEW at \in Nat, Tidy(s, at)
  PROVE  FoldLeft(Step, s, q) \in States /\ Tidy(FoldLeft(Step, s, q), at)
<1> DEFINE n == Len(q)
<1>0. n \in Nat
  OBVIOUS
<1>1. PICK h \in [0 .. n -> States] :
        /\ h[0] = s /\ FoldLeft(Step, s, q) = h[n]
        /\ \A k \in 1 .. n : h[k] = Step(h[k - 1], q[k])
  BY ReadSteps
<1> DEFINE S == {k \in 0 .. n : Tidy(h[k], at)}
<1>2. 0 \in S
  BY <1>0, <1>1
<1>3. ASSUME NEW k \in 1 .. n, k - 1 \in S PROVE k \in S
  <2>1. h[k - 1] \in States /\ q[k] \in ItemSet /\ k \in 0 .. n
    BY <1>0, <1>1
  <2>2. Reads(h[k - 1], Step(h[k - 1], q[k]), q[k], at, at, at)
    BY <2>1, StepReads
  <2> QED
    BY <1>1, <1>3, <2>1, <2>2 DEF Reads
<1> HIDE DEF S
<1>4. n \in S
  <2>1. \A k \in 0 .. n : k \in S
    BY <1>0, <1>2, <1>3, InductUpTo
  <2> QED
    BY <1>0, <2>1
<1> QED
  BY <1>0, <1>1, <1>4 DEF S

(* The same list without its first item.                                   *)
LEMMA ListTidyAfter ==
  ASSUME NEW s \in States, NEW q \in Seq(ItemSet), q # << >>, NEW at \in Nat, Tidy(Step(s, q[1]), at)
  PROVE  FoldLeft(Step, s, q) \in States /\ Tidy(FoldLeft(Step, s, q), at)
<1> DEFINE n == Len(q)
<1>0. n \in Nat /\ n # 0 /\ 1 \in 1 .. n
  BY EmptySeq
<1>1. PICK h \in [0 .. n -> States] :
        /\ h[0] = s /\ FoldLeft(Step, s, q) = h[n]
        /\ \A k \in 1 .. n : h[k] = Step(h[k - 1], q[k])
  BY ReadSteps
<1> DEFINE S == {k \in 0 .. n : k # 0 => Tidy(h[k], at)}
<1>2. 0 \in S
  BY <1>0
<1>3. ASSUME NEW k \in 1 .. n, k - 1 \in S PROVE k \in S
  <2>1. h[k - 1] \in States /\ q[k] \in ItemSet /\ k \in 0 .. n
    BY <1>0, <1>1
  <2>2. CASE k = 1
    <3>1. h[1] = Step(h[0], q[1])
      <4>1. h[1] = Step(h[1 - 1], q[1]) /\ 1 - 1 = 0
        BY <1>0, <1>1
      <4> QED
        BY <4>1
    <3> QED
      BY <1>1, <2>1, <2>2, <3>1
  <2>3. CASE k # 1
    <3>1. Reads(h[k - 1], Step(h[k - 1], q[k]), q[k], at, at, at)
      BY <2>1, StepReads
    <3>2. k - 1 # 0
      BY <2>3
    <3>3. Tidy(h[k - 1], at)
      BY <1>3, <3>2
    <3> QED
      BY <1>1, <2>1, <3>1, <3>3 DEF Reads
  <2> QED
    BY <2>2, <2>3
<1> HIDE DEF S
<1>4. n \in S
  <2>1. \A k \in 0 .. n : k \in S
    BY <1>0, <1>2, <1>3, InductUpTo
  <2> QED
    BY <1>0, <2>1
<1> QED
  BY <1>0, <1>1, <1>4 DEF S

(* The heading of a section does not fit under a full page: the section    *)
(* begins on a page of its own.                                            *)
LEMMA HeadingTurns ==
  ASSUME NEW used \in Nat, used >= Height, NEW x \in ItemSet, x.kind = "box", x.h # 0
  PROVE  Tidy(Step(Start(used, << >>), x), 0)
<1> DEFINE s == Start(used, << >>)
           p == Place(s, "bottom")
           w == [p EXCEPT !.queue = Deferred(@)]
           f == Fresh(w)
           g == Place(f, "top")
           c == TurnAgain(g, x)
<1>0. Height \in Nat /\ Height # 0 /\ x.h \in Nat /\ x \in Pieces
  BY HeightAssumption, ItemParts DEF Renders
<1>1. /\ s \in States /\ s.pages = << >> /\ s.page = << >> /\ s.used = used /\ s.start = used /\ s.last = used
      /\ s.continued = FALSE /\ s.queue = << >>
  BY StartParts DEF Start
<1> HIDE DEF s
<1>2. FloatsFirst(s) = s
  <2>1. s.used # 0
    BY <1>0, <1>1
  <2> QED
    BY <2>1 DEF FloatsFirst
<1>3. TurnOnce(s, x) = TurnPage(s, FALSE)
  <2>1. s.used + x.h > Height /\ s.start > 0
    BY <1>0, <1>1
  <2> QED
    BY <2>1 DEF TurnOnce, TurnFor
<1>4. p \in States
  <2>1. Keeps(s, p, 0, 0)
    BY <1>1, PlaceKeeps
  <2> QED
    BY <2>1 DEF Keeps
<1>5. p.pages = << >> /\ p.page = << >> /\ p.last = used /\ p.continued = FALSE
  BY <1>1, PlaceParts
<1> HIDE DEF p
<1>6. Emit(p, FALSE) = p
  <2>1. ~ Rendered(<< >>)
    BY DEF Rendered
  <2> QED
    BY <1>5, <2>1 DEF Emit
<1>7. TurnPage(s, FALSE) = g
  BY <1>6 DEF TurnPage, g, f, w, p
<1>8. w \in States /\ w.pages = << >> /\ w.page = << >> /\ w.last = used /\ w.continued = FALSE
  <2>1. Keeps(p, w, 0, 0)
    BY <1>4, DeferredKeeps
  <2>2. w.pages = p.pages /\ w.page = p.page /\ w.last = p.last /\ w.continued = p.continued
    BY <1>4 DEF States
  <2> QED
    BY <1>5, <2>1, <2>2 DEF Keeps
<1> HIDE DEF w
<1>9. f \in States /\ Tidy(f, 0)
  <2>1. f \in States /\ f.pages = << >> /\ f.page = << >> /\ f.used = 0 /\ f.start = 0 /\ f.last = used
        /\ f.continued = FALSE
    BY <1>8 DEF Fresh, States
  <2> HIDE DEF f
  <2>2. f.used = f.start + Total(f.page)
    BY <2>1, TotalNone
  <2>3. Len(<< >>) = 0
    OBVIOUS
  <2> QED
    BY <2>1, <2>2, <2>3 DEF Tidy
<1> HIDE DEF f
<1>10. g \in States /\ Tidy(g, 0)
  BY <1>9, PlaceKeeps DEF Keeps
<1> HIDE DEF g
<1>11. c \in States /\ Tidy(c, 0)
  <2>1. 0 \in Nat
    OBVIOUS
  <2>2. Keeps(g, c, 0, 0)
    BY <1>10, <2>1, TurnForKeeps DEF TurnAgain
  <2> QED
    BY <1>10, <2>2 DEF Keeps
<1>12. PutBox(s, x) = Put(c, x)
  BY <1>2, <1>3, <1>7 DEF PutBox, c
<1> HIDE DEF c
<1>13. Put(c, x) \in States /\ Tidy(Put(c, x), 0)
  BY <1>0, <1>11, PutParts
<1>14. Step(s, x) = [PutBox(s, x) EXCEPT !.explicit = FALSE]
  BY DEF Step
<1>15. Tidy([Put(c, x) EXCEPT !.explicit = FALSE], 0)
  BY <1>13, MarkKeeps
<1> QED
  BY <1>12, <1>14, <1>15 DEF s

(* A section that was built.                                               *)
LEMMA SectionTidy ==
  ASSUME NEW q \in Seq(ItemSet), q # << >>, NEW used \in Nat,
         used > 0 => q[1].kind = "box" /\ q[1].h # 0
  PROVE  LET s == Paginate(q, used, << >>)
         IN /\ s \in States /\ Tidy(s, used)
            /\ used = 0 => s.pages # << >>
            /\ used >= Height => ~ s.continued
<1> DEFINE b == Start(used, << >>)
           t == FoldLeft(Step, b, q)
           s == Finish(t)
<1>1. Paginate(q, used, << >>) = s
  BY DEF Paginate
<1>2. b \in States /\ Tidy(b, used)
  BY StartParts
<1> HIDE DEF b
<1>3. t \in States /\ Tidy(t, used)
  BY <1>2, ListTidy
<1>4. ASSUME used >= Height PROVE Tidy(t, 0)
  <2>1. Height \in Nat \ {0}
    BY HeightAssumption
  <2>2. q[1] \in ItemSet /\ q[1].kind = "box" /\ q[1].h # 0
    <3>1. 1 \in 1 .. Len(q)
      BY EmptySeq
    <3>2. used > 0
      BY <1>4, <2>1
    <3> QED
      BY <3>1, <3>2
  <2>3. Tidy(Step(b, q[1]), 0)
    BY <1>4, <2>2, HeadingTurns DEF b
  <2>4. 0 \in Nat
    OBVIOUS
  <2> QED
    BY <1>2, <2>3, <2>4, ListTidyAfter
<1> HIDE DEF t
<1>5. \A at \in Nat : Keeps(t, s, at, at)
  BY <1>3, FinishKeeps
<1>6. t.start = 0 => s.pages # << >>
  <2>1. 0 \in Nat
    OBVIOUS
  <2> QED
    BY <1>3, <2>1, FinishKeeps
<1> HIDE DEF s
<1>7. s \in States /\ Tidy(s, used)
  BY <1>3, <1>5 DEF Keeps
<1>8. ASSUME used = 0 PROVE s.pages # << >>
  BY <1>3, <1>6, <1>8 DEF Tidy
<1>9. ASSUME used >= Height PROVE ~ s.continued
  <2>1. 0 \in Nat
    OBVIOUS
  <2>2. Tidy(s, 0)
    BY <1>4, <1>5, <1>9, <2>1 DEF Keeps
  <2> QED
    BY <2>2 DEF Tidy
<1> QED
  BY <1>1, <1>7, <1>8, <1>9

(* Two rows of pages become one.                                           *)
LEMMA PagesJoin ==
  ASSUME NEW a \in Seq(SUBSET Spots), NEW b \in Seq(SUBSET Spots),
         \A p \in 1 .. Len(a) : Uncovered(a[p]), \A p \in 1 .. Len(b) : Uncovered(b[p])
  PROVE  /\ a \o b \in Seq(SUBSET Spots)
         /\ \A p \in 1 .. Len(a \o b) : Uncovered((a \o b)[p])
         /\ a # << >> \/ b # << >> => a \o b # << >>
         /\ b # << >> => (a \o b)[Len(a \o b)] = b[Len(b)]
         /\ b = << >> => a \o b = a
<1> DEFINE m == Len(a)
           n == Len(b)
           c == a \o b
<1>1. /\ c \in Seq(SUBSET Spots) /\ m \in Nat /\ n \in Nat /\ Len(c) = m + n
      /\ \A k \in 1 .. m : c[k] = a[k]
      /\ \A k \in m + 1 .. m + n : c[k] = b[k - m]
  OBVIOUS
<1>2. /\ a = << >> <=> m = 0
      /\ b = << >> <=> n = 0
  OBVIOUS
<1>3. b = << >> => c = a
  OBVIOUS
<1> HIDE DEF c
<1>4. c = << >> <=> m + n = 0
  BY <1>1
<1>5. \A p \in 1 .. m + n : Uncovered(c[p])
  <2>1. SUFFICES ASSUME NEW p \in 1 .. m + n PROVE Uncovered(c[p])
    OBVIOUS
  <2>2. CASE p \in 1 .. m
    BY <1>1, <2>2
  <2>3. CASE p \in m + 1 .. m + n
    <3>1. c[p] = b[p - m] /\ p - m \in 1 .. n
      BY <1>1, <2>3
    <3> QED
      BY <3>1
  <2> QED
    BY <1>1, <2>2, <2>3
<1>6. n # 0 => c[m + n] = b[n]
  <2>1. SUFFICES ASSUME n # 0 PROVE c[m + n] = b[n]
    OBVIOUS
  <2>2. m + n \in m + 1 .. m + n /\ (m + n) - m = n
    BY <1>1, <2>1
  <2> QED
    BY <1>1, <2>2
<1>7. a # << >> \/ b # << >> => c # << >>
  BY <1>1, <1>2, <1>4
<1> QED
  BY <1>1, <1>2, <1>3, <1>5, <1>6, <1>7 DEF c

(* The last of finished pages ends above the next section, or the next     *)
(* section has a page of its own.                                          *)
Ends(pages, offset) ==
  pages # << >> => offset >= Height \/ \A x \in pages[Len(pages)] : x.at + x.h <= offset

(* The pages of a section join those of the sections before it.            *)
LEMMA SectionJoins ==
  ASSUME NEW pages \in Seq(SUBSET Spots), NEW offset \in Nat, NEW s \in States, Tidy(s, offset),
         \A p \in 1 .. Len(pages) : Uncovered(pages[p]),
         offset > 0 => pages # << >>, Ends(pages, offset),
         offset = 0 => s.pages # << >>, offset >= Height => ~ s.continued
  PROVE  LET joined == JoinPages(pages, s)
         IN /\ joined \in Seq(SUBSET Spots) /\ joined # << >>
            /\ \A p \in 1 .. Len(joined) : Uncovered(joined[p])
            /\ Ends(joined, s.last)
<1> DEFINE n == Len(pages)
           m == Len(s.pages)
<1>0. /\ s.pages \in Seq(SUBSET Spots) /\ s.last \in Nat /\ s.continued \in BOOLEAN
      /\ n \in Nat /\ m \in Nat /\ (n = 0 <=> pages = << >>) /\ (m = 0 <=> s.pages = << >>)
  BY StateParts, EmptySeq
<1>1. /\ \A p \in 1 .. m : Uncovered(s.pages[p])
      /\ s.pages # << >> => \A x \in s.pages[m] : x.at + x.h <= s.last
      /\ s.pages = << >> => s.last >= offset
      /\ s.continued => /\ offset > 0 /\ s.pages # << >>
                        /\ \A x \in s.pages[1] : x.at >= offset
                        /\ m = 1 => s.last >= offset
  BY DEF Tidy
<1>2. Height \in Nat
  BY HeightAssumption
<1>3. CASE ~ s.continued
  <2> DEFINE joined == pages \o s.pages
  <2>1. JoinPages(pages, s) = joined
    BY <1>3 DEF JoinPages
  <2>2. /\ joined \in Seq(SUBSET Spots)
        /\ \A p \in 1 .. Len(joined) : Uncovered(joined[p])
        /\ pages # << >> \/ s.pages # << >> => joined # << >>
        /\ s.pages # << >> => joined[Len(joined)] = s.pages[m]
        /\ s.pages = << >> => joined = pages
    BY <1>0, <1>1, PagesJoin
  <2> HIDE DEF joined
  <2>3. joined # << >>
    BY <2>2
  <2>4. Ends(joined, s.last)
    <3>1. CASE s.pages # << >>
      BY <1>1, <2>2, <3>1 DEF Ends
    <3>2. CASE s.pages = << >>
      <4>1. joined = pages /\ s.last >= offset /\ pages # << >>
        BY <1>1, <2>2, <2>3, <3>2
      <4>2. CASE offset >= Height
        BY <1>0, <1>2, <4>1, <4>2 DEF Ends
      <4>3. CASE ~ offset >= Height
        <5>1. \A x \in pages[n] : x.at + x.h <= offset
          BY <4>1, <4>3 DEF Ends
        <5>2. \A x \in pages[n] : x.at + x.h \in Nat
          <6>1. n \in 1 .. n
            BY <1>0, <4>1
          <6>2. pages[n] \in SUBSET Spots
            BY <6>1
          <6> QED
            BY <6>2 DEF Spots
        <5> QED
          BY <1>0, <4>1, <5>1, <5>2 DEF Ends
      <4> QED
        BY <4>2, <4>3
    <3> QED
      BY <3>1, <3>2
  <2> QED
    BY <2>1, <2>2, <2>3, <2>4
<1>4. CASE s.continued
  <2> DEFINE head == Head(s.pages)
             tail == Tail(s.pages)
             both == pages[n] \cup head
             a == [pages EXCEPT ![n] = both]
  <2>0. ~ offset >= Height /\ offset > 0 /\ s.pages # << >> /\ pages # << >>
    BY <1>1, <1>4
  <2>1. JoinPages(pages, s) = a \o tail
    BY <1>4 DEF JoinPages
  <2>2. /\ head = s.pages[1] /\ tail \in Seq(SUBSET Spots) /\ Len(tail) = m - 1
        /\ \A p \in 1 .. m - 1 : tail[p] = s.pages[p + 1]
    BY <1>0, <2>0
  <2>3. n \in 1 .. n /\ 1 \in 1 .. m /\ m # 0
    BY <1>0, <2>0
  <2>4. pages[n] \in SUBSET Spots /\ head \in SUBSET Spots
    BY <1>0, <2>2, <2>3
  <2>5. /\ a \in Seq(SUBSET Spots) /\ Len(a) = n /\ a[n] = both /\ \A p \in 1 .. n : p # n => a[p] = pages[p]
    BY <1>0, <2>3, <2>4
  <2> HIDE DEF head, tail
  <2>6. /\ \A x \in pages[n] : x.at + x.h <= offset /\ x.at \in Nat /\ x.h \in Nat
        /\ \A y \in head : offset <= y.at /\ y.at \in Nat /\ y.h \in Nat
    <3>1. \A x \in pages[n] : x.at + x.h <= offset
      BY <2>0 DEF Ends
    <3>2. \A y \in head : y.at >= offset
      BY <1>1, <1>4, <2>2
    <3>3. \A x \in Spots : x.at \in Nat /\ x.h \in Nat
      BY DEF Spots
    <3> QED
      BY <2>4, <3>1, <3>2, <3>3
  <2>7. Uncovered(both)
    <3>1. Uncovered(pages[n]) /\ Uncovered(head)
      BY <1>1, <2>2, <2>3
    <3>2. \A x \in pages[n], y \in head : x.at + x.h <= y.at
      BY <2>6
    <3> QED
      BY <3>1, <3>2 DEF Uncovered
  <2> HIDE DEF both, a
  <2>8. \A p \in 1 .. n : Uncovered(a[p])
    BY <2>5, <2>7
  <2>9. \A p \in 1 .. Len(tail) : Uncovered(tail[p])
    <3>1. \A p \in 1 .. m - 1 : p + 1 \in 1 .. m
      BY <1>0
    <3> QED
      BY <1>1, <2>2, <3>1
  <2>10. a # << >>
    BY <1>0, <2>0, <2>5
  <2> DEFINE joined == a \o tail
  <2>11. /\ joined \in Seq(SUBSET Spots)
         /\ \A p \in 1 .. Len(joined) : Uncovered(joined[p])
         /\ joined # << >>
         /\ tail # << >> => joined[Len(joined)] = tail[Len(tail)]
         /\ tail = << >> => joined = a
    BY <2>2, <2>5, <2>8, <2>9, <2>10, PagesJoin
  <2> HIDE DEF joined
  <2>12. Ends(joined, s.last)
    <3>1. CASE tail # << >>
      <4>1. m - 1 # 0 /\ m - 1 \in 1 .. m - 1 /\ (m - 1) + 1 = m
        BY <1>0, <2>2, <2>3, <3>1, EmptySeq
      <4>2. joined[Len(joined)] = s.pages[m]
        BY <2>2, <2>11, <3>1, <4>1
      <4> QED
        BY <1>1, <2>0, <4>2 DEF Ends
    <3>2. CASE tail = << >>
      <4>1. m = 1
        <5>1. m - 1 = 0
          BY <2>2, <3>2
        <5> QED
          BY <1>0, <5>1
      <4>2. joined[Len(joined)] = both /\ s.last >= offset
        BY <1>1, <1>4, <2>5, <2>11, <3>2, <4>1
      <4>3. \A y \in head : y.at + y.h <= s.last
        BY <1>1, <2>0, <2>2, <4>1
      <4>4. \A x \in pages[n] : x.at + x.h <= s.last
        BY <1>0, <2>6, <4>2
      <4> QED
        BY <4>2, <4>3, <4>4 DEF Ends, both
    <3> QED
      BY <3>1, <3>2
  <2> QED
    BY <2>1, <2>11, <2>12 DEF joined
<1> QED
  BY <1>0, <1>3, <1>4

(* The invariant of the pipeline.                                          *)
Heading(x) == x.kind = "box" /\ x.h \in BoxHeights

PipeInv ==
  /\ ItemsOK
  /\ pipe \in [pages : Seq(SUBSET Spots), offset : Nat, section : Seq(ItemSet)]
  /\ \A p \in 1 .. Len(pipe.pages) : Uncovered(pipe.pages[p])
  /\ pipe.offset > 0 => pipe.pages # << >>
  /\ Ends(pipe.pages, pipe.offset)
  /\ items = << >> => pipe.pages = << >> /\ pipe.section = << >>
  /\ pipe.pages # << >> /\ pipe.section # << >> => Heading(pipe.section[1])

(* The invariant of the pipeline holds of the empty document.              *)
LEMMA PipeInit == PagesInit => PipeInv
<1> SUFFICES ASSUME PagesInit PROVE PipeInv
  OBVIOUS
<1>1. items = << >> /\ pipe = [pages |-> << >>, offset |-> 0, section |-> << >>]
  BY DEF PagesInit
<1>2. /\ << >> \in Seq(SUBSET Spots) /\ << >> \in Seq(ItemSet) /\ Len(<< >>) = 0
  OBVIOUS
<1> QED
  BY <1>1, <1>2 DEF PipeInv, ItemsOK, Ends

(* Reading an item keeps it.                                               *)
LEMMA PipeReads ==
  ASSUME PipeInv, NEW x \in ItemSet, Read(x), x.id = Len(items) + 1, x.kind = "box" => x.h \in BoxHeights
  PROVE  PipeInv'
<1>0. ItemsOK /\ pipe \in [pages : Seq(SUBSET Spots), offset : Nat, section : Seq(ItemSet)]
  BY DEF PipeInv
<1>1. /\ items' = Append(items, x) /\ pipe' = [pipe EXCEPT !.section = Append(@, x)]
      /\ (pipe.section = << >> /\ items # << >>) => x.kind = "box"
  BY DEF Read
<1> DEFINE q == pipe.section
           r == Append(q, x)
<1>2. q \in Seq(ItemSet) /\ r \in Seq(ItemSet) /\ Len(q) \in Nat
      /\ (q # << >> => r[1] = q[1]) /\ (q = << >> => r[1] = x)
  <2>1. q \in Seq(ItemSet) /\ Len(q) \in Nat
    BY <1>0
  <2>2. /\ r \in Seq(ItemSet) /\ r[Len(q) + 1] = x /\ \A k \in 1 .. Len(q) : r[k] = q[k]
    BY <2>1
  <2>3. q # << >> => 1 \in 1 .. Len(q)
    BY <2>1, EmptySeq
  <2>4. q = << >> => Len(q) + 1 = 1
    BY <2>1
  <2> HIDE DEF q, r
  <2> QED
    BY <2>1, <2>2, <2>3, <2>4
<1>3. /\ pipe'.pages = pipe.pages /\ pipe'.offset = pipe.offset /\ pipe'.section = r
      /\ pipe' \in [pages : Seq(SUBSET Spots), offset : Nat, section : Seq(ItemSet)]
  <2> HIDE DEF r
  <2>1. pipe' = [pipe EXCEPT !.section = r]
    BY <1>1 DEF r
  <2> QED
    BY <1>0, <1>2, <2>1
<1>4. ItemsOK'
  BY <1>0, <1>1, ListGrows DEF ItemsOK
<1>5. items' # << >>
  <2>1. Len(items) \in Nat /\ Len(Append(items, x)) = Len(items) + 1 /\ Append(items, x) \in Seq(ItemSet)
    BY <1>0 DEF ItemsOK
  <2>2. Len(items') # 0 /\ items' \in Seq(ItemSet)
    BY <1>1, <2>1
  <2> QED
    BY <2>2
<1>6. pipe.pages # << >> => Heading(r[1])
  <2>1. SUFFICES ASSUME pipe.pages # << >> PROVE Heading(r[1])
    OBVIOUS
  <2>2. items # << >>
    BY <2>1 DEF PipeInv
  <2>3. CASE q = << >>
    BY <1>1, <1>2, <2>2, <2>3 DEF Heading
  <2>4. CASE q # << >>
    BY <1>2, <2>1, <2>4 DEF PipeInv
  <2> QED
    BY <2>3, <2>4
<1> HIDE DEF q, r
<1> QED
  BY <1>3, <1>4, <1>5, <1>6 DEF PipeInv

(* So does paginating a section, if every box has some height.             *)
LEMMA PipeCuts ==
  ASSUME PipeInv, Cut, 0 \notin BoxHeights
  PROVE  PipeInv'
<1> DEFINE q == pipe.section
           s == Paginate(q, pipe.offset, << >>)
           joined == JoinPages(pipe.pages, s)
<1>0. /\ ItemsOK /\ pipe.pages \in Seq(SUBSET Spots) /\ pipe.offset \in Nat /\ q \in Seq(ItemSet)
      /\ q # << >> /\ items # << >>
  BY DEF PipeInv, Cut
<1>1. pipe' = [pages |-> joined, offset |-> NextUsed(s), section |-> << >>] /\ items' = items
  BY DEF Cut, PipeEnd, EndSection
<1>2. pipe.offset > 0 => q[1].kind = "box" /\ q[1].h # 0
  BY <1>0 DEF PipeInv, Heading
<1>3. /\ s \in States /\ Tidy(s, pipe.offset)
      /\ pipe.offset = 0 => s.pages # << >>
      /\ pipe.offset >= Height => ~ s.continued
  BY <1>0, <1>2, SectionTidy
<1> HIDE DEF q, s
<1>4. /\ joined \in Seq(SUBSET Spots) /\ joined # << >>
      /\ \A p \in 1 .. Len(joined) : Uncovered(joined[p])
      /\ Ends(joined, s.last)
  BY <1>0, <1>3, SectionJoins DEF PipeInv
<1> HIDE DEF joined
<1>5. NextUsed(s) \in Nat /\ Ends(joined, NextUsed(s))
  <2>1. Height \in Nat /\ s.last \in Nat
    BY <1>3, HeightAssumption, StateParts
  <2>2. CASE s.explicit
    <3>1. NextUsed(s) = Height
      BY <2>2 DEF NextUsed
    <3> QED
      BY <2>1, <3>1 DEF Ends
  <2>3. CASE ~ s.explicit
    <3>1. NextUsed(s) = s.last
      BY <2>3 DEF NextUsed
    <3> QED
      BY <1>4, <2>1, <3>1
  <2> QED
    BY <2>2, <2>3
<1>6. << >> \in Seq(ItemSet)
  OBVIOUS
<1>7. /\ pipe' \in [pages : Seq(SUBSET Spots), offset : Nat, section : Seq(ItemSet)]
      /\ pipe'.pages = joined /\ pipe'.offset = NextUsed(s) /\ pipe'.section = << >>
  BY <1>1, <1>4, <1>5, <1>6
<1>8. ItemsOK'
  BY <1>0, <1>1 DEF ItemsOK
<1> QED
  BY <1>0, <1>1, <1>4, <1>5, <1>7, <1>8 DEF PipeInv

(* The inductive invariant of the pipeline.  A box of no height would fit  *)
(* under a page that is too full already, right where the box that is higher *)
(* than the page goes on: the hypothesis excludes it.                      *)
THEOREM PipeInvariant ==
  ASSUME 0 \notin BoxHeights
  PROVE  PagesSpec => []PipeInv
<1>1. PagesInit => PipeInv
  BY PipeInit
<1>2. PipeInv /\ [PagesNext]_pageVars => PipeInv'
  <2> SUFFICES ASSUME PipeInv, [PagesNext]_pageVars PROVE PipeInv'
    OBVIOUS
  <2>1. ItemsOK
    BY DEF PipeInv
  <2>2. CASE PagesNext
    <3>1. CASE Cut
      BY <3>1, PipeCuts
    <3>2. ASSUME NEW x \in ItemSet, Read(x), x.id = Len(items) + 1, x.kind = "box" => x.h \in BoxHeights
          PROVE  PipeInv'
      BY <3>2, PipeReads
    <3> QED
      BY <2>1, <2>2, <3>1, <3>2, ItemsRead
  <2>3. CASE UNCHANGED pageVars
    <3>1. items' = items /\ pipe' = pipe
      BY <2>3 DEF pageVars
    <3> QED
      BY <3>1 DEF PipeInv, ItemsOK
  <2> QED
    BY <2>2, <2>3
<1> QED
  BY <1>1, <1>2, PTL DEF PagesSpec

(* For every height and every list, if every box has some height: no two   *)
(* things on a page of the document or of the pipeline cover each other, also *)
(* on a page where one section ends and the next begins.                   *)
THEOREM NothingCovered ==
  ASSUME 0 \notin BoxHeights
  PROVE  PagesSpec => []NothingOverlaps
<1>1. BuilderInv /\ PipeInv => NothingOverlaps
  <2>1. SUFFICES ASSUME BuilderInv, PipeInv, NEW page \in ToSet(Pages) \cup ToSet(pipe.pages)
                 PROVE  Uncovered(page)
    BY DEF NothingOverlaps, Uncovered
  <2>2. CASE page \in ToSet(Pages)
    <3>1. CASE items = << >>
      <4>1. Pages = << >>
        BY <3>1 DEF Pages
      <4>2. ToSet(<< >>) = {}
        BY DEF ToSet
      <4> QED
        BY <2>2, <4>1, <4>2
    <3>2. CASE items # << >>
      <4>1. Pages \in Seq(SUBSET Spots) /\ \A p \in 1 .. Len(Pages) : Uncovered(Pages[p])
        BY <2>1, <3>2, PagesSettle
      <4> HIDE DEF Pages
      <4>2. DOMAIN Pages = 1 .. Len(Pages)
        BY <4>1
      <4> QED
        BY <2>2, <4>1, <4>2 DEF ToSet
    <3> QED
      BY <3>1, <3>2
  <2>3. CASE page \in ToSet(pipe.pages)
    <3>1. pipe.pages \in Seq(SUBSET Spots) /\ \A p \in 1 .. Len(pipe.pages) : Uncovered(pipe.pages[p])
      BY <2>1 DEF PipeInv
    <3>2. DOMAIN pipe.pages = 1 .. Len(pipe.pages)
      BY <3>1
    <3> QED
      BY <2>3, <3>1, <3>2 DEF ToSet
  <2> QED
    BY <2>1, <2>2, <2>3
<1> QED
  BY <1>1, BuilderInvariant, PipeInvariant, PTL

-----------------------------------------------------------------------------
(* The same state with another mark for the end of the page.               *)
Marked(s, e) == [s EXCEPT !.explicit = e]

(* The mark is the only thing that is changed.                             *)
LEMMA MarkedParts ==
  ASSUME NEW s \in States, NEW e \in BOOLEAN
  PROVE  /\ Marked(s, e) \in States
         /\ Marked(s, e).pages = s.pages /\ Marked(s, e).page = s.page /\ Marked(s, e).queue = s.queue
         /\ Marked(s, e).used = s.used /\ Marked(s, e).start = s.start /\ Marked(s, e).last = s.last
         /\ Marked(s, e).continued = s.continued /\ Marked(s, e).explicit = e
         /\ s \in Tops => Marked(s, e) \in Tops
         /\ \A f : Marked(Marked(s, e), f) = Marked(s, f)
BY DEF Marked, States, Tops

(* No operation but an item reads the mark: filling a region does not, *)
LEMMA MarkedPlace ==
  ASSUME NEW s \in States, NEW e \in BOOLEAN, NEW region
  PROVE  Place(Marked(s, e), region) = Marked(Place(s, region), e)
<1> DEFINE m == Taken(s, region)
<1>1. Taken(Marked(s, e), region) = m
  <2>1. Marked(s, e).queue = s.queue /\ Marked(s, e).used = s.used
    BY MarkedParts
  <2> QED
    BY <2>1 DEF Taken
<1> HIDE DEF m
<1>2. PlaceFirst(Marked(s, e), m) = Marked(PlaceFirst(s, m), e)
  BY DEF PlaceFirst, Marked, States
<1> QED
  BY <1>1, <1>2 DEF Place, m

(* putting floats first does not, *)
LEMMA MarkedFirst ==
  ASSUME NEW s \in States, NEW e \in BOOLEAN
  PROVE  FloatsFirst(Marked(s, e)) = Marked(FloatsFirst(s), e)
BY MarkedParts, MarkedPlace DEF FloatsFirst

(* finishing a page does not, *)
LEMMA MarkedOut ==
  ASSUME NEW s \in States, NEW e \in BOOLEAN, NEW blank
  PROVE  /\ Emit(Marked(s, e), blank) = Marked(Emit(s, blank), e)
         /\ Fresh(Marked(s, e)) = Marked(Fresh(s), e)
<1>1. Fresh(Marked(s, e)) = Marked(Fresh(s), e)
  BY DEF Fresh, Marked, States
<1>2. CASE Rendered(s.page) \/ (blank /\ s.pages = << >> /\ s.start = 0)
  BY <1>1, <1>2, MarkedParts DEF Emit, PushPage, Marked, States
<1>3. CASE ~ (Rendered(s.page) \/ (blank /\ s.pages = << >> /\ s.start = 0))
  <2>1. Emit(s, blank) = s /\ Emit(Marked(s, e), blank) = Marked(s, e)
    BY <1>3, MarkedParts DEF Emit
  <2> QED
    BY <1>1, <2>1
<1> QED
  BY <1>2, <1>3

(* turning the page does not, *)
LEMMA MarkedTurn ==
  ASSUME NEW s \in States, NEW e \in BOOLEAN, NEW blank
  PROVE  TurnPage(Marked(s, e), blank) = Marked(TurnPage(s, blank), e)
<1> DEFINE p == Place(s, "bottom")
           o == Emit(p, blank)
           w == [o EXCEPT !.queue = Deferred(@)]
           f == Fresh(w)
<1>1. p \in States /\ 0 \in Nat
  BY PlaceKeeps DEF Keeps
<1> HIDE DEF p
<1>2. o \in States
  BY <1>1, PageOutKeeps
<1> HIDE DEF o
<1>3. w \in States
  <2>1. \A d, at : Keeps(o, w, d, at)
    BY <1>2, DeferredKeeps
  <2> QED
    BY <2>1 DEF Keeps
<1>4. [Marked(o, e) EXCEPT !.queue = Deferred(@)] = Marked(w, e)
  BY <1>2 DEF Marked, States
<1> HIDE DEF w
<1>5. f \in States
  <2>1. << >> \in Seq(Pieces) /\ 0 \in Nat
    OBVIOUS
  <2> QED
    BY <1>3, <2>1 DEF Fresh, States
<1>6. Fresh(Marked(w, e)) = Marked(f, e)
  BY <1>3, MarkedOut
<1> HIDE DEF f
<1>7. Place(Marked(f, e), "top") = Marked(Place(f, "top"), e)
  BY <1>5, MarkedPlace
<1>8. Place(Marked(s, e), "bottom") = Marked(p, e) /\ Emit(Marked(p, e), blank) = Marked(o, e)
  BY <1>1, MarkedPlace, MarkedOut DEF p, o
<1> QED
  BY <1>4, <1>6, <1>7, <1>8 DEF TurnPage, p, o, w, f

(* putting a piece under the others does not, *)
LEMMA MarkedPut ==
  ASSUME NEW s \in States, NEW e \in BOOLEAN, NEW x
  PROVE  Put(Marked(s, e), x) = Marked(Put(s, x), e)
BY DEF Put, Marked, States

(* closing a page of floats does not, *)
LEMMA MarkedClose ==
  ASSUME NEW s \in States, NEW e \in BOOLEAN
  PROVE  ClosePage(Marked(s, e)) = Marked(ClosePage(s), e)
<1>1. CASE s.page = << >>
  BY <1>1, MarkedParts DEF ClosePage
<1>2. CASE s.page # << >>
  BY <1>2, MarkedParts DEF ClosePage, Fresh, PushPage, Marked, States
<1> QED
  BY <1>1, <1>2

(* putting a float on a page of its own does not, *)
LEMMA MarkedAlone ==
  ASSUME NEW s \in Tops, NEW e \in BOOLEAN, NEW x
  PROVE  PutAlone(Marked(s, e), x) = Marked(PutAlone(s, x), e)
<1>1. s \in States /\ ClosePage(s) \in States
  BY ClosePageKeeps DEF Tops
<1>2. Marked(s, e).used = s.used
  BY <1>1, MarkedParts
<1>3. Put(ClosePage(Marked(s, e)), x) = Marked(Put(ClosePage(s), x), e)
  BY <1>1, MarkedClose, MarkedPut
<1>4. Put(Marked(s, e), x) = Marked(Put(s, x), e)
  BY <1>1, MarkedPut
<1> QED
  BY <1>2, <1>3, <1>4 DEF PutAlone

(* flushing the queue does not, *)
LEMMA MarkedFlush ==
  ASSUME NEW s \in Tops, NEW e \in BOOLEAN
  PROVE  Flush(Marked(s, e)) = Marked(Flush(s), e)
<1> DEFINE q == s.queue
           n == Len(q)
           b == [s EXCEPT !.queue = << >>]
           c == Marked(b, e)
<1>0. s \in States /\ q \in Seq(Pieces) /\ n \in Nat
  BY StateParts DEF Tops
<1>1. b \in Tops /\ b \in States
  <2>1. << >> \in Seq(Pieces)
    OBVIOUS
  <2> QED
    BY <1>0, <2>1 DEF States, Tops
<1>2. [Marked(s, e) EXCEPT !.queue = << >>] = c /\ Marked(s, e).queue = q
  BY <1>0 DEF Marked, States
<1> HIDE DEF b
<1>3. c \in Tops
  BY <1>1, MarkedParts
<1> HIDE DEF c
<1>4. PICK g \in [0 .. n -> Tops] :
        /\ g[0] = b /\ FoldLeft(PutAlone, b, q) = g[n]
        /\ \A k \in 1 .. n : g[k] = PutAlone(g[k - 1], q[k])
  BY <1>0, <1>1, FlushSteps
<1>5. PICK h \in [0 .. n -> Tops] :
        /\ h[0] = c /\ FoldLeft(PutAlone, c, q) = h[n]
        /\ \A k \in 1 .. n : h[k] = PutAlone(h[k - 1], q[k])
  BY <1>0, <1>3, FlushSteps
<1> DEFINE S == {k \in 0 .. n : h[k] = Marked(g[k], e)}
<1>6. 0 \in S
  BY <1>0, <1>4, <1>5 DEF c
<1>7. ASSUME NEW k \in 1 .. n, k - 1 \in S PROVE k \in S
  <2>1. g[k - 1] \in Tops /\ h[k - 1] = Marked(g[k - 1], e) /\ k \in 0 .. n
    BY <1>0, <1>7
  <2>2. PutAlone(h[k - 1], q[k]) = Marked(PutAlone(g[k - 1], q[k]), e)
    BY <2>1, MarkedAlone
  <2> QED
    BY <1>4, <1>5, <2>1, <2>2
<1>8. h[n] = Marked(g[n], e)
  <2> HIDE DEF S
  <2>1. \A k \in 0 .. n : k \in S
    BY <1>0, <1>6, <1>7, InductUpTo
  <2>2. n \in S
    BY <1>0, <2>1
  <2> QED
    BY <2>2 DEF S
<1>9. g[n] \in States
  BY <1>0, <1>4 DEF Tops
<1>10. ClosePage(h[n]) = Marked(ClosePage(g[n]), e)
  BY <1>8, <1>9, MarkedClose
<1> QED
  BY <1>2, <1>4, <1>5, <1>10 DEF Flush, b

(* ending the page and \clearpage do not. *)
LEMMA MarkedEnd ==
  ASSUME NEW s \in States, NEW e \in BOOLEAN
  PROVE  /\ EndPage(Marked(s, e)) = Marked(EndPage(s), e)
         /\ ClearPage(Marked(s, e)) = ClearPage(s)
<1>1. ASSUME NEW t \in States PROVE EndPage(Marked(t, e)) = Marked(EndPage(t), e)
  <2> DEFINE blank == t.queue = << >>
             o == Emit(t, blank)
             f == Fresh(o)
  <2>1. o \in States /\ Keeps(t, f, items, 0) /\ f.start = 0
    BY <1>1, PageOutKeeps
  <2>2. Emit(Marked(t, e), blank) = Marked(o, e) /\ Marked(t, e).queue = t.queue
    BY <1>1, MarkedOut, MarkedParts
  <2>3. f \in Tops
    BY <2>1 DEF Keeps, Tops
  <2> HIDE DEF o
  <2>4. Fresh(Marked(o, e)) = Marked(f, e)
    BY <2>1, MarkedOut
  <2> HIDE DEF f
  <2>5. Flush(Marked(f, e)) = Marked(Flush(f), e)
    BY <2>3, MarkedFlush
  <2> QED
    BY <2>2, <2>4, <2>5 DEF EndPage, o, f
<1> DEFINE p == Place(s, "bottom")
<1>2. p \in States /\ Place(Marked(s, e), "bottom") = Marked(p, e)
  BY PlaceKeeps, MarkedPlace DEF Keeps
<1> HIDE DEF p
<1>3. EndPage(Marked(p, e)) = Marked(EndPage(p), e) /\ EndPage(p) \in States
  <2>1. Keeps(p, EndPage(p), items, 0)
    BY <1>2, EndPageKeeps
  <2> QED
    BY <1>1, <1>2, <2>1 DEF Keeps
<1>4. [Marked(EndPage(p), e) EXCEPT !.explicit = TRUE] = [EndPage(p) EXCEPT !.explicit = TRUE]
  BY <1>3 DEF Marked, States
<1> QED
  BY <1>1, <1>2, <1>3, <1>4 DEF ClearPage, p

(* Nothing on a page, finished or open, reaches below the page but a piece *)
(* that stands at its top.                                                 *)
AllFit(s) == \A page \in ToSet(s.pages) \cup {LaidOut(s.page, s.start)} : Fits(page)

High(q) == \A k \in 1 .. Len(q) : q[k].h > 0

\* What stays as it is from s to t: what does not fit in s does not in t, and
\* the floats that wait have a height.
Lasts(s, t) ==
  /\ t \in Tops
  /\ AllFit(t) => AllFit(s)
  /\ High(s.queue) => High(t.queue)

(* Operations that let it stand can follow each other.                     *)
LEMMA LastsChain ==
  ASSUME NEW s, NEW t, NEW u, Lasts(s, t), Lasts(t, u)
  PROVE  Lasts(s, u)
BY DEF Lasts

(* Nothing fits everywhere.                                                *)
LEMMA NothingFits == \A at \in Nat : Fits(LaidOut(<< >>, at)) /\ LaidOut(<< >>, at) = {}
<1>1. SUFFICES ASSUME NEW at \in Nat PROVE Fits(LaidOut(<< >>, at)) /\ LaidOut(<< >>, at) = {}
  OBVIOUS
<1>2. LaidOut(<< >>, at) = {}
  BY DEF LaidOut
<1> QED
  BY <1>2 DEF Fits

(* The finished pages after one more.                                      *)
LEMMA PagesAfter ==
  ASSUME NEW pages \in Seq(SUBSET Spots), NEW out \in SUBSET Spots
  PROVE  ToSet(Append(pages, out)) = ToSet(pages) \cup {out}
<1> DEFINE n == Len(pages)
           q == Append(pages, out)
<1>1. /\ q \in Seq(SUBSET Spots) /\ n \in Nat /\ Len(q) = n + 1
      /\ \A p \in 1 .. n : q[p] = pages[p]
      /\ q[n + 1] = out
  BY OneMorePage
<1>2. DOMAIN pages = 1 .. n /\ DOMAIN q = 1 .. Len(q)
  BY <1>1
<1> HIDE DEF n, q
<1>3. 1 .. n + 1 = (1 .. n) \cup {n + 1}
  BY <1>1
<1>4. ToSet(q) = {q[p] : p \in 1 .. n + 1} /\ ToSet(pages) = {pages[p] : p \in 1 .. n}
  BY <1>1, <1>2 DEF ToSet
<1> QED
  BY <1>1, <1>3, <1>4 DEF q

(* Floats that are put onto the page leave what is on it where it is.      *)
LEMMA PlaceLasts ==
  ASSUME NEW s \in Tops, NEW region
  PROVE  Lasts(s, Place(s, region))
<1> DEFINE m == Taken(s, region)
           a == SubSeq(s.queue, 1, m)
           b == SubSeq(s.queue, m + 1, Len(s.queue))
           t == Place(s, region)
<1>0. /\ s \in States /\ s.queue \in Seq(Pieces) /\ Len(s.queue) \in Nat /\ s.page \in Seq(Pieces)
      /\ s.start = 0
  BY StateParts DEF Tops
<1>1. t = [s EXCEPT !.page = s.page \o a, !.used = s.used + Total(a), !.queue = b]
  BY DEF Place, PlaceFirst
<1>2. m \in 0 .. Len(s.queue)
  BY <1>0, TakenFirst
<1>3. t \in States
  <2>1. Keeps(s, t, items, 0)
    BY <1>0, PlaceKeeps
  <2> QED
    BY <2>1 DEF Keeps
<1>4. a \in Seq(Pieces) /\ b \in Seq(Pieces)
  BY <1>0, <1>2, QueueCut
<1>5. \A k \in 1 .. Len(b) : b[k] = s.queue[m + k] /\ m + k \in 1 .. Len(s.queue)
  <2> DEFINE q == s.queue
             n == Len(q)
  <2>1. m \in 0 .. n /\ n \in Nat /\ q \in Seq(Pieces)
    BY <1>0, <1>2
  <2> HIDE DEF m, q
  <2>2. Len(b) = n - m /\ \A k \in 1 .. n - m : b[k] = q[m + k] /\ m + k \in 1 .. n
    BY <2>1 DEF q
  <2> HIDE DEF b, n
  <2> QED
    BY <2>2 DEF q, n
<1> HIDE DEF m, a, b
<1>6. /\ t.pages = s.pages /\ t.page = s.page \o a /\ t.queue = b /\ t.start = 0
  BY <1>0, <1>1 DEF States
<1> HIDE DEF t
<1>7. LaidOut(s.page, 0) \subseteq LaidOut(t.page, 0)
  BY <1>0, <1>4, <1>6, LaidJoined
<1>8. AllFit(t) => AllFit(s)
  BY <1>0, <1>6, <1>7 DEF AllFit, Fits
<1>9. High(s.queue) => High(b)
  BY <1>5 DEF High
<1> QED
  BY <1>3, <1>6, <1>8, <1>9 DEF Lasts, Tops, t

(* A page that is finished is the page that was open.                      *)
LEMMA TurnedLasts ==
  ASSUME NEW s \in Tops
  PROVE  Lasts(s, Turned(s))
<1> DEFINE out == LaidOut(s.page, 0)
<1>0. s \in States /\ s.start = 0 /\ s.pages \in Seq(SUBSET Spots) /\ s.page \in Seq(Pieces)
  BY StateParts DEF Tops
<1>1. Turned(s) \in States
  <2>1. Keeps(s, Turned(s), items, 0)
    BY <1>0, TurnedKeeps
  <2> QED
    BY <2>1 DEF Keeps
<1>2. out \in SUBSET Spots
  BY <1>0, RowsStand
<1>3. /\ Turned(s).pages = Append(s.pages, out) /\ Turned(s).page = << >> /\ Turned(s).start = 0
      /\ Turned(s).queue = s.queue
  BY <1>0 DEF Turned, States
<1>4. ToSet(Append(s.pages, out)) = ToSet(s.pages) \cup {out}
  BY <1>0, <1>2, PagesAfter
<1>5. AllFit(Turned(s)) => AllFit(s)
  <2> HIDE DEF Turned
  <2> QED
    BY <1>0, <1>3, <1>4 DEF AllFit
<1> HIDE DEF Turned
<1> QED
  BY <1>1, <1>3, <1>5 DEF Lasts, Tops

(* A page with nothing on it that is opened again.                         *)
LEMMA FreshLasts ==
  ASSUME NEW s \in Tops, s.page = << >>
  PROVE  Lasts(s, Fresh(s))
<1>0. s \in States /\ s.start = 0
  BY DEF Tops
<1>1. Fresh(s) \in States
  <2>1. Keeps(s, Fresh(s), items, 0)
    BY <1>0, FreshKeeps
  <2> QED
    BY <2>1 DEF Keeps
<1>2. /\ Fresh(s).pages = s.pages /\ Fresh(s).page = s.page /\ Fresh(s).start = s.start
      /\ Fresh(s).queue = s.queue
  BY <1>0 DEF Fresh, States
<1> HIDE DEF Fresh
<1> QED
  BY <1>0, <1>1, <1>2 DEF Lasts, Tops, AllFit

(* So it is when the page is put out.                                      *)
LEMMA PageOutLasts ==
  ASSUME NEW s \in Tops, NEW blank
  PROVE  Lasts(s, Fresh(Emit(s, blank)))
<1>0. s \in States /\ s.start = 0 /\ s.page \in Seq(Pieces)
  BY StateParts DEF Tops
<1>1. Rendered(s.page) <=> s.page # << >>
  BY <1>0, RenderedPage
<1>2. CASE Rendered(s.page) \/ (blank /\ s.pages = << >> /\ s.start = 0)
  <2>1. Fresh(Emit(s, blank)) = Turned(s)
    BY <1>1, <1>2 DEF Emit, PushPage, Fresh, Turned, States
  <2> QED
    BY <2>1, TurnedLasts
<1>3. CASE ~ (Rendered(s.page) \/ (blank /\ s.pages = << >> /\ s.start = 0))
  <2>1. Emit(s, blank) = s /\ s.page = << >>
    BY <1>1, <1>3 DEF Emit
  <2> QED
    BY <2>1, FreshLasts
<1> QED
  BY <1>2, <1>3

(* Floats that wait longer keep their height.                              *)
LEMMA DeferredLasts ==
  ASSUME NEW s \in Tops
  PROVE  Lasts(s, [s EXCEPT !.queue = Deferred(@)])
<1> DEFINE q == s.queue
           r == Deferred(q)
           t == [s EXCEPT !.queue = r]
<1>0. s \in States /\ q \in Seq(Pieces) /\ Len(q) \in Nat
  BY StateParts DEF Tops
<1>1. t \in States
  <2>1. \A d, at : Keeps(s, [s EXCEPT !.queue = Deferred(@)], d, at)
    BY <1>0, DeferredKeeps
  <2> QED
    BY <2>1 DEF Keeps
<1>2. Len(r) = Len(q) /\ \A k \in 1 .. Len(q) : r[k].h = q[k].h
  <2>1. DOMAIN q = 1 .. Len(q) /\ \A k \in 1 .. Len(q) : q[k] \in Pieces
    BY <1>0, PieceParts
  <2>2. r = [k \in 1 .. Len(q) |-> [q[k] EXCEPT !.defers = @ + 1]]
    BY <2>1 DEF Deferred
  <2>3. \A k \in 1 .. Len(q) : [q[k] EXCEPT !.defers = @ + 1] \in Pieces /\ [q[k] EXCEPT !.defers = @ + 1].h = q[k].h
    BY <2>1 DEF Pieces
  <2>4. r \in [1 .. Len(q) -> Pieces]
    BY <2>2, <2>3
  <2>5. Len(r) = Len(q)
    BY <1>0, <2>4, PiecesInARow
  <2> QED
    BY <2>2, <2>3, <2>5
<1> HIDE DEF r
<1>3. t.pages = s.pages /\ t.page = s.page /\ t.start = s.start /\ t.queue = r
  BY <1>0 DEF States
<1> HIDE DEF t
<1>4. High(q) => High(r)
  BY <1>2 DEF High
<1>5. t.start = 0
  BY <1>3 DEF Tops
<1> QED
  BY <1>1, <1>3, <1>4, <1>5 DEF Lasts, Tops, AllFit, t, r

(* Turning the page lets it stand, and only floats are on the new page.    *)
LEMMA TurnPageLasts ==
  ASSUME NEW s \in Tops, NEW blank
  PROVE  /\ Lasts(s, TurnPage(s, blank))
         /\ High(s.queue) => High(TurnPage(s, blank).page)
<1> DEFINE p == Place(s, "bottom")
           e == Emit(p, blank)
           w == [e EXCEPT !.queue = Deferred(@)]
           f == Fresh(e)
           g == [f EXCEPT !.queue = Deferred(@)]
           m == Taken(g, "top")
           t == Place(g, "top")
<1>1. Lasts(s, p) /\ p \in Tops /\ p \in States
  BY PlaceLasts DEF Lasts, Tops
<1> HIDE DEF p
<1>2. Lasts(p, f) /\ f \in Tops /\ e \in States /\ f.page = << >>
  BY <1>1, PageOutLasts, PageOutKeeps DEF Lasts
<1> HIDE DEF e
<1>3. Fresh(w) = g
  BY <1>2 DEF Fresh, States
<1> HIDE DEF f, w
<1>4. Lasts(f, g) /\ g \in Tops /\ g \in States
  BY <1>2, DeferredLasts DEF Lasts, Tops
<1>5. g.page = << >>
  BY <1>2 DEF Tops, States
<1> HIDE DEF g
<1>6. Lasts(g, t)
  BY <1>4, PlaceLasts
<1>7. TurnPage(s, blank) = t
  BY <1>3 DEF TurnPage, p, e, w
<1>8. Lasts(s, g) /\ Lasts(s, t)
  BY <1>1, <1>2, <1>4, <1>6, LastsChain
<1>9. High(g.queue) => High(t.page)
  <2> DEFINE a == SubSeq(g.queue, 1, m)
  <2>1. g.queue \in Seq(Pieces) /\ Len(g.queue) \in Nat
    BY <1>4, StateParts
  <2>2. m \in 0 .. Len(g.queue)
    BY <2>1, TakenFirst
  <2>3. t.page = << >> \o a
    BY <1>4, <1>5 DEF Place, PlaceFirst, States
  <2> HIDE DEF m, t
  <2>4. a \in Seq(Pieces) /\ Len(a) = m /\ \A k \in 1 .. m : a[k] = g.queue[k]
    BY <2>1, <2>2, QueueCut
  <2> HIDE DEF a
  <2>5. t.page = a
    BY <2>3, <2>4
  <2>6. \A k \in 1 .. m : k \in 1 .. Len(g.queue)
    BY <2>1, <2>2
  <2> QED
    BY <2>4, <2>5, <2>6 DEF High
<1> QED
  BY <1>7, <1>8, <1>9 DEF Lasts

(* A page of floats that is closed is the page that was open.              *)
LEMMA ClosePageLasts ==
  ASSUME NEW s \in Tops
  PROVE  Lasts(s, ClosePage(s))
<1>1. CASE s.page = << >>
  <2>1. ClosePage(s) = s
    BY <1>1 DEF ClosePage
  <2> QED
    BY <2>1 DEF Lasts
<1>2. CASE s.page # << >>
  BY <1>2, CloseIsTurn, TurnedLasts
<1> QED
  BY <1>1, <1>2

(* What is put under a piece leaves it where it is.                        *)
LEMMA PutLasts ==
  ASSUME NEW s \in Tops, NEW x \in Pieces
  PROVE  Lasts(s, Put(s, x))
<1> DEFINE t == Put(s, x)
           one == <<x>>
<1>0. s \in States /\ s.start = 0 /\ s.page \in Seq(Pieces)
  BY StateParts DEF Tops
<1>1. /\ t \in States /\ t.pages = s.pages /\ t.page = Append(s.page, x) /\ t.queue = s.queue
      /\ t.start = s.start
  BY <1>0, PutParts
<1> HIDE DEF t
<1>2. one \in Seq(Pieces) /\ Append(s.page, x) = s.page \o one
  BY <1>0, AppendIsConcat
<1> HIDE DEF one
<1>3. LaidOut(s.page, 0) \subseteq LaidOut(t.page, 0)
  BY <1>0, <1>1, <1>2, LaidJoined
<1>4. AllFit(t) => AllFit(s)
  BY <1>0, <1>1, <1>3 DEF AllFit, Fits
<1> QED
  BY <1>0, <1>1, <1>4 DEF Lasts, Tops, t

(* So does a float on a page of its own, *)
LEMMA PutAloneLasts ==
  ASSUME NEW s \in Tops, NEW x \in Pieces
  PROVE  Lasts(s, PutAlone(s, x))
<1>1. Lasts(s, ClosePage(s)) /\ ClosePage(s) \in Tops
  BY ClosePageLasts DEF Lasts
<1>2. Lasts(ClosePage(s), Put(ClosePage(s), x)) /\ Lasts(s, Put(s, x))
  BY <1>1, PutLasts
<1>3. Lasts(s, Put(ClosePage(s), x))
  BY <1>1, <1>2, LastsChain
<1> QED
  BY <1>2, <1>3 DEF PutAlone

(* the whole queue on pages of its own *)
LEMMA FlushLasts ==
  ASSUME NEW s \in Tops
  PROVE  Lasts(s, Flush(s))
<1> DEFINE q == s.queue
           n == Len(q)
           b == [s EXCEPT !.queue = << >>]
<1>0. s \in States /\ q \in Seq(Pieces) /\ n \in Nat
  BY StateParts DEF Tops
<1>1. b \in Tops /\ b.pages = s.pages /\ b.page = s.page /\ b.start = s.start
  <2>1. << >> \in Seq(Pieces)
    OBVIOUS
  <2> QED
    BY <1>0, <2>1 DEF States, Tops
<1> HIDE DEF b
<1>2. PICK h \in [0 .. n -> Tops] :
        /\ h[0] = b /\ FoldLeft(PutAlone, b, q) = h[n]
        /\ \A k \in 1 .. n : h[k] = PutAlone(h[k - 1], q[k])
  BY <1>0, <1>1, FlushSteps
<1> DEFINE S == {k \in 0 .. n : Lasts(b, h[k])}
<1>3. 0 \in S
  BY <1>0, <1>1, <1>2 DEF Lasts
<1>4. ASSUME NEW k \in 1 .. n, k - 1 \in S PROVE k \in S
  <2>1. h[k - 1] \in Tops /\ Lasts(b, h[k - 1]) /\ k \in 0 .. n
    BY <1>0, <1>4
  <2>2. q[k] \in Pieces
    BY <1>0, PieceParts
  <2>3. Lasts(h[k - 1], h[k])
    BY <1>2, <2>1, <2>2, PutAloneLasts
  <2> QED
    BY <2>1, <2>3, LastsChain
<1>5. Lasts(b, h[n]) /\ h[n] \in Tops
  <2> HIDE DEF S
  <2>1. \A k \in 0 .. n : k \in S
    BY <1>0, <1>3, <1>4, InductUpTo
  <2>2. n \in S
    BY <1>0, <2>1
  <2>3. Lasts(b, h[n])
    BY <2>2 DEF S
  <2> QED
    BY <2>3 DEF Lasts
<1>6. Lasts(h[n], ClosePage(h[n]))
  BY <1>5, ClosePageLasts
<1>7. Flush(s) = ClosePage(h[n])
  BY <1>2 DEF Flush, b
<1>8. Lasts(b, Flush(s))
  BY <1>5, <1>6, <1>7, LastsChain
<1>9. Flush(s).queue = << >>
  <2>1. 0 \in Nat
    OBVIOUS
  <2> QED
    BY <2>1, FlushKeeps
<1> QED
  BY <1>1, <1>8, <1>9 DEF Lasts, AllFit, High

(* and the end of a page with them. *)
LEMMA EndPageLasts ==
  ASSUME NEW s \in Tops
  PROVE  Lasts(s, EndPage(s)) /\ Emptied(EndPage(s))
<1> DEFINE f == Fresh(Emit(s, s.queue = << >>))
<1>1. Lasts(s, f) /\ f \in Tops
  BY PageOutLasts DEF Lasts
<1>2. EndPage(s) = Flush(f)
  BY DEF EndPage
<1> HIDE DEF f
<1>3. Lasts(f, Flush(f))
  BY <1>1, FlushLasts
<1>4. Emptied(EndPage(s))
  <2>1. 0 \in Nat /\ s \in States
    BY DEF Tops
  <2> QED
    BY <2>1, EndPageKeeps
<1> QED
  BY <1>1, <1>2, <1>3, <1>4, LastsChain

(* Turning the page if there is need lets what is on it stand.             *)
LEMMA TurnForLasts ==
  ASSUME NEW s \in Tops, NEW x, NEW turns
  PROVE  Lasts(s, TurnFor(s, x, turns))
<1>1. Lasts(s, s)
  BY DEF Lasts
<1> QED
  BY <1>1, TurnPageLasts DEF TurnFor

(* The piece that is put onto a page last stands below all the others.     *)
LEMMA LastRow ==
  ASSUME NEW page \in Seq(Pieces), NEW x \in Pieces
  PROVE  [id |-> x.id, h |-> x.h, at |-> Total(page)] \in LaidOut(Append(page, x), 0)
<1> DEFINE one == <<x>>
           at == Total(page)
<1>1. one \in Seq(Pieces) /\ Append(page, x) = page \o one /\ Len(one) = 1 /\ one[1] = x
  BY AppendIsConcat
<1>2. at \in Nat /\ 0 + at = at
  BY TotalConcat
<1>3. LaidOut(one, at) \subseteq LaidOut(Append(page, x), 0)
  <2> HIDE DEF one
  <2>1. 0 \in Nat
    OBVIOUS
  <2>2. LaidOut(page \o one, 0) = LaidOut(page, 0) \cup LaidOut(one, 0 + at)
    BY <1>1, <2>1, LaidJoined
  <2> HIDE DEF at
  <2> QED
    BY <1>1, <1>2, <2>2
<1>4. PICK t : Sums(one, t)
  BY <1>1, SumsExist
<1> HIDE DEF one, at
<1>5. Row(one, at, t, 1) \in LaidOut(one, at)
  BY <1>1, <1>2, <1>4, RowsAre
<1>6. t[1 - 1] = 0
  BY <1>4 DEF Sums
<1>7. Row(one, at, t, 1) = [id |-> x.id, h |-> x.h, at |-> at]
  BY <1>1, <1>2, <1>6 DEF Row
<1> QED
  BY <1>3, <1>5, <1>7 DEF at

(* Floats on a page take room.                                             *)
LEMMA HighTotal ==
  ASSUME NEW page \in Seq(Pieces), High(page), page # << >>
  PROVE  Total(page) > 0
<1> DEFINE n == Len(page)
<1>1. n \in Nat /\ n # 0
  BY SumsExist
<1>2. PICK t : Sums(page, t)
  BY SumsExist
<1>3. Total(page) = t[n]
  BY <1>2, TotalIs
<1>4. 1 \in 0 .. n /\ n \in 1 .. n /\ 1 \in 1 .. n
  BY <1>1
<1>5. t[1] \in Nat /\ t[n] \in Nat /\ t[1] <= t[n]
  BY <1>2, <1>4, SumsGrow
<1>6. t[1] = page[1].h
  <2>1. t[1] = t[1 - 1] + page[1].h /\ t[0] = 0
    BY <1>2, <1>4 DEF Sums
  <2>2. page[1].h \in Nat
    BY <1>4, PieceParts
  <2> QED
    BY <2>1, <2>2
<1>7. page[1].h > 0
  BY <1>4 DEF High
<1> QED
  BY <1>3, <1>5, <1>6, <1>7

(* A box that does not fit under the floats of a new page is put there all *)
(* the same by the snapshot, and does not fit.                             *)
LEMMA BoxUnderFloats ==
  ASSUME NEW s \in Tops, Tidy(s, 0), High(s.queue), NEW x \in Pieces,
         TurnAgain(TurnAgain(s, x), x) # TurnAgain(s, x)
  PROVE  ~ AllFit(Put(TurnAgain(s, x), x))
<1> DEFINE b == TurnAgain(s, x)
           t == Put(b, x)
<1>0. s \in States /\ 0 \in Nat /\ x.h \in Nat
  BY DEF Tops, Pieces
<1>1. b \in Tops /\ b \in States /\ Tidy(b, 0)
  <2>1. Lasts(s, b)
    BY TurnForLasts DEF TurnAgain
  <2>2. Keeps(s, b, items, 0)
    BY <1>0, TurnForKeeps DEF TurnAgain
  <2> QED
    BY <2>1, <2>2 DEF Lasts, Keeps
<1>2. b.used + x.h > Height /\ b.page # << >>
  <2> HIDE DEF b
  <2> QED
    BY DEF TurnAgain, TurnFor, b
<1>3. b # s
  BY DEF TurnAgain, TurnFor
<1>4. b = TurnPage(s, FALSE)
  BY <1>3 DEF TurnAgain, TurnFor
<1>5. High(b.page)
  BY <1>4, TurnPageLasts
<1> HIDE DEF b
<1>6. b.page \in Seq(Pieces) /\ b.used \in Nat /\ b.used = Total(b.page)
  <2>1. b.page \in Seq(Pieces) /\ b.used \in Nat /\ Total(b.page) \in Nat
    BY <1>1, StateParts
  <2>2. b.used = b.start + Total(b.page) /\ b.start = 0
    BY <1>1 DEF Tidy, Tops
  <2> QED
    BY <2>1, <2>2
<1>7. b.used > 0
  BY <1>2, <1>5, <1>6, HighTotal
<1>8. t.page = Append(b.page, x) /\ t.start = 0
  BY <1>1, PutParts DEF Tops
<1> HIDE DEF t
<1>9. [id |-> x.id, h |-> x.h, at |-> b.used] \in LaidOut(t.page, t.start)
  BY <1>6, <1>8, LastRow
<1>10. ~ Fits(LaidOut(t.page, t.start))
  <2> DEFINE r == [id |-> x.id, h |-> x.h, at |-> b.used]
  <2>1. r \in LaidOut(t.page, t.start) /\ r.at = b.used /\ r.h = x.h
    BY <1>9
  <2>2. ~ (b.used + x.h <= Height) /\ b.used # 0
    BY <1>0, <1>2, <1>6, <1>7, HeightAssumption
  <2> QED
    BY <2>1, <2>2 DEF Fits
<1> QED
  BY <1>10 DEF AllFit, t, b

(* An item is read in the same way whatever the mark is, and the box is    *)
(* put onto the same page.                                                 *)
LEMMA MarkedStep ==
  ASSUME NEW s \in States, NEW e \in BOOLEAN, NEW x \in ItemSet, x.kind \in {"box", "float", "clear"}
  PROVE  Step(Marked(s, e), x) = Step(s, x)
<1>0. 0 \in Nat
  OBVIOUS
<1>1. ASSUME NEW t \in States PROVE [Marked(t, e) EXCEPT !.explicit = FALSE] = [t EXCEPT !.explicit = FALSE]
  BY <1>1 DEF Marked, States
<1>2. CASE x.kind = "clear"
  BY <1>2, MarkedEnd DEF Step
<1>3. CASE x.kind = "float"
  <2>1. CASE "here" \in x.place /\ s.used + x.h <= Height
    <3>1. TakeFloat(s, x) = Put(s, x) /\ TakeFloat(Marked(s, e), x) = Marked(Put(s, x), e)
      BY <2>1, MarkedParts, MarkedPut DEF TakeFloat
    <3>2. Put(s, x) \in States
      BY <1>3, ItemParts, PutParts DEF Renders
    <3> QED
      BY <1>1, <1>3, <3>1, <3>2 DEF Step
  <2>2. CASE ~ ("here" \in x.place /\ s.used + x.h <= Height)
    <3> DEFINE t == [s EXCEPT !.queue = Append(@, x)]
    <3>1. TakeFloat(s, x) = t /\ TakeFloat(Marked(s, e), x) = [Marked(s, e) EXCEPT !.queue = Append(@, x)]
      BY <2>2, MarkedParts DEF TakeFloat
    <3>2. [Marked(s, e) EXCEPT !.queue = Append(@, x)] = Marked(t, e)
      BY DEF Marked, States
    <3>3. t \in States
      <4>1. \A d, d2, at : Reads(s, TakeFloat(s, x), x, d, d2, at)
        BY <1>3, TakeFloatReads
      <4> QED
        BY <3>1, <4>1 DEF Reads
    <3> HIDE DEF t
    <3> QED
      BY <1>1, <1>3, <3>1, <3>2, <3>3 DEF Step
  <2> QED
    BY <2>1, <2>2
<1>4. CASE x.kind = "box"
  <2> DEFINE a == FloatsFirst(s)
             b == TurnOnce(a, x)
             c == TurnAgain(b, x)
  <2>1. a \in States /\ FloatsFirst(Marked(s, e)) = Marked(a, e)
    <3>1. \A d, at : Keeps(s, a, d, at)
      BY FloatsFirstKeeps
    <3> QED
      BY <3>1, MarkedFirst DEF Keeps
  <2> HIDE DEF a
  <2>2. ASSUME NEW t \in States, NEW turns
        PROVE  TurnFor(t, x, turns) \in States /\ TurnFor(Marked(t, e), x, turns) = Marked(TurnFor(t, x, turns), e)
    <3>1. Keeps(t, TurnFor(t, x, turns), items, 0)
      BY <1>0, <2>2, TurnForKeeps
    <3>2. Marked(t, e).used = t.used
      BY <2>2, MarkedParts
    <3>3. \A blank : TurnPage(Marked(t, e), blank) = Marked(TurnPage(t, blank), e)
      BY <2>2, MarkedTurn
    <3> QED
      BY <3>1, <3>2, <3>3 DEF Keeps, TurnFor
  <2>3. b \in States /\ TurnOnce(Marked(a, e), x) = Marked(b, e)
    BY <2>1, <2>2, MarkedParts DEF TurnOnce
  <2> HIDE DEF b
  <2>4. c \in States /\ TurnAgain(Marked(b, e), x) = Marked(c, e)
    BY <2>2, <2>3, MarkedParts DEF TurnAgain
  <2> HIDE DEF c
  <2>5. Put(Marked(c, e), x) = Marked(Put(c, x), e) /\ Put(c, x) \in States
    BY <1>4, <2>4, MarkedPut, ItemParts, PutParts DEF Renders
  <2>6. PutBox(Marked(s, e), x) = Marked(Put(c, x), e) /\ PutBox(s, x) = Put(c, x)
    BY <2>1, <2>3, <2>4, <2>5 DEF PutBox, a, b, c
  <2> QED
    BY <1>1, <1>4, <2>5, <2>6 DEF Step
<1> QED
  BY <1>2, <1>3, <1>4

(* The state of the snapshot after an item: tidy, with what did not fit,   *)
(* and the builder's own if everything fits.                               *)
Follows(s, t, u) ==
  /\ Lasts(s, t) /\ Tidy(t, 0) /\ High(t.queue)
  /\ AllFit(t) => \E e \in BOOLEAN : t = Marked(u, e)

(* A state has its own mark, and the same marks as its marked copies.      *)
LEMMA OwnMark ==
  ASSUME NEW t \in States, NEW e \in BOOLEAN
  PROVE  t.explicit \in BOOLEAN /\ t = Marked(Marked(t, e), t.explicit)
BY DEF Marked, States

(* The snapshot takes a float as the builder does.                         *)
LEMMA FloatFollows ==
  ASSUME NEW s \in Tops, Tidy(s, 0), High(s.queue), NEW x \in ItemSet, x.kind = "float", x.h > 0
  PROVE  Follows(s, SnapStep(s, x), Step(s, x))
<1> DEFINE t == TakeFloat(s, x)
<1>0. s \in States /\ s.start = 0 /\ s.queue \in Seq(Pieces) /\ x \in Pieces
  BY StateParts, ItemParts DEF Tops, Renders
<1>1. SnapStep(s, x) = t /\ Step(s, x) = Marked(t, FALSE)
  BY DEF SnapStep, Step, Marked
<1>2. t \in States /\ Tidy(t, 0)
  <2>1. \A d, d2, at : Reads(s, t, x, d, d2, at)
    BY <1>0, TakeFloatReads
  <2> QED
    BY <2>1 DEF Reads
<1>3. t \in Tops
  BY <1>2 DEF Tidy, Tops
<1>4. t.explicit \in BOOLEAN /\ t = Marked(Marked(t, FALSE), t.explicit)
  <2>1. FALSE \in BOOLEAN
    OBVIOUS
  <2> HIDE DEF t
  <2> QED
    BY <1>2, <2>1, OwnMark
<1>5. CASE "here" \in x.place /\ s.used + x.h <= Height
  <2>1. t = Put(s, x)
    BY <1>5 DEF TakeFloat
  <2>2. Lasts(s, t)
    BY <1>0, <2>1, PutLasts
  <2> HIDE DEF t
  <2> QED
    BY <1>1, <1>2, <1>4, <2>2 DEF Follows, Lasts
<1>6. CASE ~ ("here" \in x.place /\ s.used + x.h <= Height)
  <2> DEFINE q == Append(s.queue, x)
  <2>1. t = [s EXCEPT !.queue = q]
    BY <1>6 DEF TakeFloat
  <2>2. t.pages = s.pages /\ t.page = s.page /\ t.start = s.start /\ t.queue = q
    BY <1>0, <2>1 DEF States
  <2> HIDE DEF t
  <2>3. High(q)
    <3> DEFINE n == Len(s.queue)
    <3>1. n \in Nat /\ Len(q) = n + 1 /\ q[n + 1] = x /\ \A k \in 1 .. n : q[k] = s.queue[k]
      BY <1>0
    <3> HIDE DEF q
    <3>2. \A k \in 1 .. n : s.queue[k].h > 0
      BY DEF High
    <3> HIDE DEF n
    <3>3. \A k \in 1 .. n + 1 : k \in 1 .. n \/ k = n + 1
      BY <3>1
    <3> QED
      BY <3>1, <3>2, <3>3 DEF High
  <2>4. Lasts(s, t)
    BY <1>3, <2>2, <2>3 DEF Lasts, AllFit
  <2> QED
    BY <1>1, <1>2, <1>4, <2>2, <2>3, <2>4 DEF Follows
<1> QED
  BY <1>5, <1>6

(* It clears a page as the builder does.                                   *)
LEMMA ClearFollows ==
  ASSUME NEW s \in Tops, Tidy(s, 0), NEW x \in ItemSet, x.kind = "clear"
  PROVE  Follows(s, SnapStep(s, x), Step(s, x))
<1> DEFINE p == Place(s, "bottom")
           e == EndPage(p)
           t == ClearPage(s)
<1>0. s \in States /\ 0 \in Nat
  BY DEF Tops
<1>1. SnapStep(s, x) = t /\ Step(s, x) = t
  BY DEF SnapStep, Step
<1>2. t \in States /\ Tidy(t, 0)
  <2>1. Reads(s, t, x, items, items, 0)
    BY <1>0, ClearPageReads
  <2> QED
    BY <2>1 DEF Reads
<1>3. t = [e EXCEPT !.explicit = TRUE]
  BY DEF ClearPage
<1> HIDE DEF t
<1>4. Lasts(s, p) /\ p \in Tops
  BY PlaceLasts DEF Lasts
<1> HIDE DEF p
<1>5. Lasts(p, e) /\ Emptied(e) /\ e \in Tops
  BY <1>4, EndPageLasts DEF Lasts
<1> HIDE DEF e
<1>6. Lasts(s, e)
  BY <1>4, <1>5, LastsChain
<1>7. t.pages = e.pages /\ t.page = e.page /\ t.start = e.start /\ t.queue = e.queue
  BY <1>3, <1>5 DEF Tops, States
<1>8. High(t.queue)
  BY <1>5, <1>7 DEF Emptied, High
<1>9. Lasts(s, t)
  BY <1>2, <1>5, <1>6, <1>7, <1>8 DEF Lasts, Tops, AllFit
<1>10. t.explicit \in BOOLEAN /\ t = Marked(t, t.explicit)
  BY <1>2 DEF Marked, States
<1> QED
  BY <1>1, <1>2, <1>8, <1>9, <1>10 DEF Follows

(* It puts a box where the builder does, unless floats leave no room.      *)
LEMMA BoxFollows ==
  ASSUME NEW s \in Tops, Tidy(s, 0), High(s.queue), NEW x \in ItemSet, x.kind = "box"
  PROVE  Follows(s, SnapStep(s, x), Step(s, x))
<1> DEFINE a == FloatsFirst(s)
           b == TurnAgain(a, x)
           t == Put(b, x)
<1>0. s \in States /\ 0 \in Nat /\ x \in Pieces
  BY ItemParts DEF Tops, Renders
<1>1. Lasts(s, a) /\ a \in Tops /\ a \in States /\ Tidy(a, 0) /\ High(a.queue)
  <2>1. Lasts(s, a)
    BY PlaceLasts DEF FloatsFirst, Lasts
  <2>2. \A d, at : Keeps(s, a, d, at)
    BY <1>0, FloatsFirstKeeps
  <2> QED
    BY <2>1, <2>2 DEF Lasts, Keeps
<1>2. SnapStep(s, x) = t
  BY DEF SnapStep, SnapBox
<1> HIDE DEF a
<1>3. TurnOnce(a, x) = b
  BY <1>1 DEF TurnOnce, TurnAgain, Tops
<1>4. Lasts(a, b) /\ b \in Tops /\ b \in States /\ Tidy(b, 0)
  <2>1. Lasts(a, b)
    BY <1>1, TurnForLasts DEF TurnAgain
  <2>2. Keeps(a, b, items, 0)
    BY <1>0, <1>1, TurnForKeeps DEF TurnAgain
  <2> QED
    BY <1>1, <2>1, <2>2 DEF Lasts, Keeps
<1>5. AllFit(t) => TurnAgain(b, x) = b
  BY <1>0, <1>1, BoxUnderFloats
<1>6. Step(s, x) = Marked(Put(TurnAgain(b, x), x), FALSE)
  BY <1>3 DEF Step, PutBox, Marked, a
<1> HIDE DEF b
<1>7. Lasts(b, t) /\ t \in States /\ Tidy(t, 0)
  BY <1>0, <1>4, PutLasts, PutParts
<1>8. AllFit(t) => Step(s, x) = Marked(t, FALSE)
  BY <1>5, <1>6
<1> HIDE DEF t
<1>9. Lasts(s, t)
  BY <1>1, <1>4, <1>7, LastsChain
<1>10. t.explicit \in BOOLEAN /\ t = Marked(Marked(t, FALSE), t.explicit)
  <2>1. FALSE \in BOOLEAN
    OBVIOUS
  <2> QED
    BY <1>7, <2>1, OwnMark
<1> QED
  BY <1>2, <1>7, <1>8, <1>9, <1>10 DEF Follows, Lasts

(* The inductive invariant: as long as nothing was broken by hand, the     *)
(* snapshot is a tidy state, and while everything on its pages fits it is  *)
(* the builder's own but for the mark of the last boundary.                *)
NoHand == \A i \in DOMAIN items : items[i].kind \notin {"break", "right"}

SnapInv ==
  /\ ItemsOK /\ builder \in States
  /\ NoHand => /\ snap \in Tops /\ Tidy(snap, 0) /\ High(snap.queue)
               /\ AllFit(snap) => \E e \in BOOLEAN : snap = Marked(builder, e)

(* It holds of the empty document, *)
LEMMA SnapInit == PagesInit => SnapInv
<1> SUFFICES ASSUME PagesInit PROVE SnapInv
  OBVIOUS
<1>1. ItemsOK /\ builder \in States /\ Tidy(builder, 0)
  BY BuilderInit DEF BuilderInv
<1>2. snap = builder /\ snap = Start(0, << >>)
  BY DEF PagesInit
<1>3. snap.queue = << >> /\ snap.start = 0
  BY <1>2 DEF Start
<1>4. High(snap.queue)
  <2>1. Len(<< >>) = 0
    OBVIOUS
  <2> QED
    BY <1>3, <2>1 DEF High
<1>5. snap.explicit \in BOOLEAN /\ snap = Marked(builder, snap.explicit)
  BY <1>1, <1>2 DEF Marked, States
<1> QED
  BY <1>1, <1>2, <1>3, <1>4, <1>5 DEF SnapInv, Tops

(* and reading an item keeps it. *)
LEMMA SnapReads ==
  ASSUME SnapInv, NEW x \in ItemSet, Read(x), x.id = Len(items) + 1, x.kind = "float" => x.h > 0
  PROVE  SnapInv'
<1>0. items \in Seq(ItemSet) /\ ItemsOK /\ builder \in States
  BY DEF SnapInv, ItemsOK
<1>1. items' = Append(items, x) /\ builder' = Step(builder, x) /\ snap' = SnapStep(snap, x)
  BY DEF Read
<1>2. ItemsOK' /\ builder' \in States
  BY <1>0, <1>1, ListGrows, StepTyped DEF ItemsOK
<1>3. NoHand' => NoHand /\ x.kind \in {"box", "float", "clear"}
  <2> DEFINE n == Len(items)
             q == Append(items, x)
  <2>1. /\ n \in Nat /\ DOMAIN items = 1 .. n /\ DOMAIN q = 1 .. n + 1
        /\ q[n + 1] = x /\ \A k \in 1 .. n : q[k] = items[k]
    BY <1>0
  <2> HIDE DEF n, q
  <2>2. n + 1 \in 1 .. n + 1 /\ \A k \in 1 .. n : k \in 1 .. n + 1
    BY <2>1
  <2>3. x.kind \in {"box", "float", "clear", "break", "right"}
    BY ItemParts
  <2>4. items' = q
    BY <1>1 DEF q
  <2> QED
    BY <2>1, <2>2, <2>3, <2>4 DEF NoHand
<1>4. ASSUME NoHand'
      PROVE  /\ snap' \in Tops /\ Tidy(snap', 0) /\ High(snap'.queue)
             /\ AllFit(snap') => \E e \in BOOLEAN : snap' = Marked(builder', e)
  <2>1. /\ snap \in Tops /\ snap \in States /\ Tidy(snap, 0) /\ High(snap.queue)
        /\ AllFit(snap) => \E e \in BOOLEAN : snap = Marked(builder, e)
    BY <1>3, <1>4 DEF SnapInv, Tops
  <2>2. Follows(snap, SnapStep(snap, x), Step(snap, x))
    BY <1>3, <1>4, <2>1, FloatFollows, ClearFollows, BoxFollows
  <2>3. /\ snap' \in Tops /\ Tidy(snap', 0) /\ High(snap'.queue)
        /\ AllFit(snap') => AllFit(snap) /\ \E e \in BOOLEAN : snap' = Marked(Step(snap, x), e)
    BY <1>1, <2>2 DEF Follows, Lasts
  <2>4. AllFit(snap) => Step(snap, x) = Step(builder, x)
    <3>1. SUFFICES ASSUME AllFit(snap) PROVE Step(snap, x) = Step(builder, x)
      OBVIOUS
    <3>2. PICK e \in BOOLEAN : snap = Marked(builder, e)
      BY <2>1, <3>1
    <3> QED
      BY <1>0, <1>3, <1>4, <3>2, MarkedStep
  <2> QED
    BY <1>1, <2>3, <2>4
<1> QED
  BY <1>2, <1>4 DEF SnapInv

(* The state kept for a later rebuild is the builder's, whatever the       *)
(* heights: an invariant of every document.                                *)
THEOREM SnapInvariant == PagesSpec => []SnapInv
<1>1. SnapInv /\ [PagesNext]_pageVars => SnapInv'
  <2> SUFFICES ASSUME SnapInv, [PagesNext]_pageVars PROVE SnapInv'
    OBVIOUS
  <2>1. CASE UNCHANGED <<items, builder, snap>>
    BY <2>1 DEF SnapInv, ItemsOK, NoHand
  <2>2. CASE PagesNext
    <3>1. CASE Cut
      BY <2>1, <3>1 DEF Cut
    <3>2. ASSUME NEW x \in ItemSet, Read(x), x.id = Len(items) + 1, x.kind = "float" => x.h \in FloatHeights
          PROVE  SnapInv'
      <4>1. x.kind = "float" => x.h > 0
        <5>1. \A h \in FloatHeights : h > 0
          <6>1. \A h \in Nat \ {0} : h > 0
            OBVIOUS
          <6> QED
            BY <6>1, HeightAssumption
        <5> QED
          BY <3>2, <5>1
      <4> QED
        BY <3>2, <4>1, SnapReads
    <3>3. ItemsOK
      BY DEF SnapInv
    <3> QED
      BY <2>2, <3>1, <3>2, <3>3, ItemsRead
  <2>3. CASE UNCHANGED pageVars
    BY <2>1, <2>3 DEF pageVars
  <2> QED
    BY <2>2, <2>3
<1> QED
  BY <1>1, SnapInit, PTL DEF PagesSpec

(* SnapshotAgrees: what is kept for the rebuild of a suffix is what the    *)
(* builder had, in every document without breaks by hand whose floats      *)
(* leave room for the text.                                                *)
THEOREM SnapshotKept == PagesSpec => []SnapshotAgrees
<1>1. SnapInv => SnapshotAgrees
  <2> SUFFICES ASSUME SnapInv,
                      Contents("break") \cup Contents("right") = {},
                      AllFit(snap)
               PROVE  /\ snap.used = builder.used
                      /\ Len(snap.pages) = Len(builder.pages)
                      /\ snap.queue = builder.queue
                      /\ LaidOut(snap.page, snap.start) = LaidOut(builder.page, builder.start)
    BY DEF SnapshotAgrees, AllFit
  <2>1. NoHand
    BY DEF NoHand, Contents
  <2>2. PICK e \in BOOLEAN : snap = Marked(builder, e)
    BY <2>1 DEF SnapInv
  <2>3. builder \in States
    BY DEF SnapInv
  <2> QED
    BY <2>2, <2>3, MarkedParts
<1> QED
  BY <1>1, SnapInvariant, PTL

-----------------------------------------------------------------------------
(* Where no float is read, no region has anything to do.                   *)
Bare == {s \in States : s.queue = << >>}

Out(s, blank) == Fresh(Emit(s, blank))

(* The parts of such a state.                                              *)
LEMMA BareParts ==
  ASSUME NEW s \in Bare
  PROVE  /\ s \in States /\ s.queue = << >> /\ Len(s.queue) = 0
         /\ s.pages \in Seq(SUBSET Spots) /\ s.page \in Seq(Pieces)
         /\ s.used \in Nat /\ s.start \in Nat /\ s.last \in Nat
         /\ s.continued \in BOOLEAN /\ s.explicit \in BOOLEAN
<1>1. s \in States /\ s.queue = << >>
  BY DEF Bare
<1>2. Len(<< >>) = 0
  OBVIOUS
<1> QED
  BY <1>1, <1>2, StateParts

(* Nothing is put onto the page from an empty queue.                       *)
LEMMA BarePlace ==
  ASSUME NEW s \in Bare
  PROVE  /\ \A region : Place(s, region) = s
         /\ FloatsFirst(s) = s /\ [s EXCEPT !.queue = Deferred(@)] = s
<1>0. s \in States /\ s.queue = << >> /\ Len(s.queue) = 0 /\ s.page \in Seq(Pieces) /\ s.used \in Nat
  BY BareParts
<1>1. ASSUME NEW region PROVE Place(s, region) = s
  <2> DEFINE a == SubSeq(s.queue, 1, 0)
             b == SubSeq(s.queue, 0 + 1, Len(s.queue))
  <2>1. Len(s.queue) \in Nat
    BY <1>0
  <2>2. Taken(s, region) = 0
    <3>1. Taken(s, region) \in 0 .. Len(s.queue)
      BY <2>1, TakenFirst
    <3> QED
      BY <1>0, <3>1
  <2>3. Place(s, region) = [s EXCEPT !.page = s.page \o a, !.used = s.used + Total(a), !.queue = b]
    BY <2>2 DEF Place, PlaceFirst
  <2>4. a = << >> /\ b = << >>
    <3>1. SubSeq(<< >>, 1, 0) = << >>
      OBVIOUS
    <3> QED
      BY <1>0, <3>1
  <2> HIDE DEF a, b
  <2>5. s.page \o << >> = s.page /\ s.used + 0 = s.used
    BY <1>0
  <2>6. Place(s, region) = [s EXCEPT !.page = s.page, !.used = s.used, !.queue = s.queue]
    BY <1>0, <2>3, <2>4, <2>5, TotalNone
  <2> QED
    BY <1>0, <2>6 DEF States
<1>2. Deferred(<< >>) = << >>
  BY DEF Deferred
<1>3. [s EXCEPT !.queue = Deferred(@)] = s
  BY <1>0, <1>2 DEF States
<1> QED
  BY <1>1, <1>3 DEF FloatsFirst

(* A page that is put out is finished, or opened again.                    *)
LEMMA BareOut ==
  ASSUME NEW s \in Bare, NEW blank \in BOOLEAN
  PROVE  /\ Out(s, blank) \in Bare /\ Out(s, blank).start = 0
         /\ s.page # << >> \/ (blank /\ s.pages = << >> /\ s.start = 0) => Out(s, blank) = Turned(s)
         /\ s.page = << >> /\ ~ (blank /\ s.pages = << >> /\ s.start = 0) => Out(s, blank) = Fresh(s)
<1>0. s \in States /\ s.queue = << >> /\ s.page \in Seq(Pieces) /\ 0 \in Nat
  BY BareParts
<1>1. Rendered(s.page) <=> s.page # << >>
  BY <1>0, RenderedPage
<1>2. Out(s, blank) \in States /\ Out(s, blank).queue = << >> /\ Out(s, blank).start = 0
  <2>1. \A at \in Nat : Keeps(s, Out(s, blank), items, at) /\ Out(s, blank).queue = s.queue /\ Out(s, blank).start = 0
    BY <1>0, PageOutKeeps DEF Out
  <2> QED
    BY <1>0, <2>1 DEF Keeps
<1>3. s.page # << >> \/ (blank /\ s.pages = << >> /\ s.start = 0) => Out(s, blank) = Turned(s)
  BY <1>0, <1>1 DEF Out, Emit, PushPage, Fresh, Turned, States
<1>4. s.page = << >> /\ ~ (blank /\ s.pages = << >> /\ s.start = 0) => Out(s, blank) = Fresh(s)
  BY <1>1 DEF Out, Emit
<1> QED
  BY <1>2, <1>3, <1>4 DEF Bare

(* To turn the page or to end it is to put it out.                         *)
LEMMA BareTurn ==
  ASSUME NEW s \in Bare
  PROVE  /\ \A blank \in BOOLEAN : TurnPage(s, blank) = Out(s, blank)
         /\ EndPage(s) = Out(s, TRUE)
<1>0. s \in States /\ s.queue = << >>
  BY BareParts
<1>1. ASSUME NEW blank \in BOOLEAN PROVE TurnPage(s, blank) = Out(s, blank)
  <2> DEFINE e == Emit(s, blank)
             w == [e EXCEPT !.queue = Deferred(@)]
  <2>1. Place(s, "bottom") = s
    BY BarePlace
  <2>2. e \in Bare
    <3>1. 0 \in Nat
      OBVIOUS
    <3>2. e \in States /\ e.queue = s.queue
      BY <1>0, <3>1, PageOutKeeps
    <3> QED
      BY <1>0, <3>2 DEF Bare
  <2> HIDE DEF e
  <2>3. w = e
    BY <2>2, BarePlace
  <2>4. Out(s, blank) = Fresh(e)
    BY DEF Out, e
  <2> HIDE DEF w
  <2>5. Place(Fresh(e), "top") = Fresh(e)
    BY <2>4, BareOut, BarePlace
  <2> QED
    BY <2>1, <2>3, <2>4, <2>5 DEF TurnPage, w, e
<1>2. EndPage(s) = Out(s, TRUE)
  <2> DEFINE f == Out(s, TRUE)
             b == [f EXCEPT !.queue = << >>]
  <2>1. EndPage(s) = Flush(f)
    BY <1>0 DEF EndPage, Out
  <2>2. f \in Bare /\ f.start = 0 /\ f.page = << >>
    <3>1. TRUE \in BOOLEAN
      OBVIOUS
    <3>2. f \in Bare /\ f.start = 0
      BY <3>1, BareOut
    <3>3. f.page = << >>
      <4>1. 0 \in Nat
        OBVIOUS
      <4> QED
        BY <1>0, <4>1, PageOutKeeps DEF Out
    <3> QED
      BY <3>2, <3>3
  <2> HIDE DEF f
  <2>3. b = f /\ f.queue = << >> /\ f \in Tops
    BY <2>2 DEF Bare, Tops, States
  <2>4. FoldLeft(PutAlone, b, f.queue) = b
    <3> DEFINE q == f.queue
    <3>1. b \in Tops /\ q \in Seq(Pieces) /\ Len(q) = 0
      BY <2>3
    <3> HIDE DEF b, q
    <3>2. PICK h \in [0 .. Len(q) -> Tops] :
            /\ h[0] = b /\ FoldLeft(PutAlone, b, q) = h[Len(q)]
            /\ \A k \in 1 .. Len(q) : h[k] = PutAlone(h[k - 1], q[k])
      BY <3>1, FlushSteps
    <3> QED
      BY <3>1, <3>2 DEF q
  <2>5. ClosePage(f) = f
    BY <2>2 DEF ClosePage
  <2>6. Flush(f) = ClosePage(b)
    <3>1. Flush(f) = ClosePage(FoldLeft(PutAlone, b, f.queue))
      BY DEF Flush
    <3> HIDE DEF b
    <3> QED
      BY <2>4, <3>1
  <2> HIDE DEF b
  <2> QED
    BY <2>1, <2>3, <2>5, <2>6 DEF f
<1> QED
  BY <1>1, <1>2

(* Turned and opened states, part by part.                                 *)
LEMMA OutParts ==
  ASSUME NEW s \in Bare
  PROVE  LET out == LaidOut(s.page, s.start)
             t == Turned(s)
             f == Fresh(s)
         IN /\ t.pages = Append(s.pages, out) /\ t.page = << >> /\ t.used = 0 /\ t.start = 0
            /\ t.last = s.used /\ t.continued = (s.continued \/ (s.start > 0 /\ s.page # << >>))
            /\ t.explicit = s.explicit
            /\ f.pages = s.pages /\ f.page = << >> /\ f.used = 0 /\ f.start = 0
            /\ f.last = s.last /\ f.continued = s.continued /\ f.explicit = s.explicit
<1>1. s \in States
  BY BareParts
<1> QED
  BY <1>1 DEF Turned, Fresh, States

(* A box turns the page if it does not fit under what is there.            *)
Turns(s, x) == s.used + x.h > Height /\ (s.page # << >> \/ s.start > 0)

(* What a box does.                                                        *)
LEMMA BoxRead ==
  ASSUME NEW s \in Bare, NEW x \in ItemSet, x.kind = "box"
  PROVE  LET t == Step(s, x)
             out == LaidOut(s.page, s.start)
         IN /\ t \in Bare /\ ~ t.explicit
            /\ ~ Turns(s, x) => /\ t.pages = s.pages /\ t.page = Append(s.page, x) /\ t.used = s.used + x.h
                                /\ t.start = s.start /\ t.continued = s.continued
            /\ Turns(s, x) => /\ t.page = Append(<< >>, x) /\ t.used = 0 + x.h /\ t.start = 0
                              /\ (s.page # << >> => /\ t.pages = Append(s.pages, out)
                                                    /\ t.continued = (s.continued \/ s.start > 0))
                              /\ (s.page = << >> => t.pages = s.pages /\ t.continued = s.continued)
<1> DEFINE o == Out(s, FALSE)
           c == IF Turns(s, x) THEN o ELSE s
           t == Step(s, x)
<1>0. /\ s \in States /\ s.queue = << >> /\ x \in Pieces /\ FALSE \in BOOLEAN /\ x.h \in Nat
      /\ s.page \in Seq(Pieces) /\ s.used \in Nat /\ s.start \in Nat
  BY BareParts, ItemParts DEF Renders
<1>1. /\ o \in Bare /\ o.page = << >> /\ o.used = 0 /\ o.start = 0
      /\ s.page # << >> => /\ o.pages = Append(s.pages, LaidOut(s.page, s.start))
                           /\ o.continued = (s.continued \/ s.start > 0)
      /\ s.page = << >> => o.pages = s.pages /\ o.continued = s.continued
  <2>1. o \in Bare
    BY <1>0, BareOut
  <2>2. CASE s.page # << >>
    <3>1. o = Turned(s)
      BY <1>0, <2>2, BareOut
    <3> QED
      BY <2>1, <2>2, <3>1, OutParts
  <2>3. CASE s.page = << >>
    <3>1. o = Fresh(s)
      BY <1>0, <2>3, BareOut
    <3> QED
      BY <2>1, <2>3, <3>1, OutParts
  <2> QED
    BY <2>2, <2>3
<1>2. TurnPage(s, FALSE) = o
  BY <1>0, BareTurn
<1> HIDE DEF o
<1>3. TurnOnce(s, x) = c
  BY <1>2 DEF TurnOnce, TurnFor, Turns
<1>4. (Turns(s, x) => c = o) /\ (~ Turns(s, x) => c = s)
  OBVIOUS
<1> HIDE DEF c, t
<1>5. TurnAgain(c, x) = c
  <2>1. CASE Turns(s, x)
    <3>1. c.page = << >>
      BY <1>1, <1>4, <2>1
    <3> QED
      BY <3>1 DEF TurnAgain, TurnFor
  <2>2. CASE ~ Turns(s, x)
    <3>1. c = s
      BY <1>4, <2>2
    <3> QED
      BY <2>2, <3>1 DEF TurnAgain, TurnFor, Turns
  <2> QED
    BY <2>1, <2>2
<1>6. t = [Put(c, x) EXCEPT !.explicit = FALSE]
  <2>1. FloatsFirst(s) = s
    BY BarePlace
  <2>2. PutBox(s, x) = Put(c, x)
    BY <1>3, <1>5, <2>1 DEF PutBox
  <2> QED
    BY <2>2 DEF Step, t
<1>7. c \in Bare
  BY <1>1, <1>4
<1>8. t \in Bare
  <2>1. c \in States /\ c.queue = << >>
    BY <1>7, BareParts
  <2>2. Put(c, x) \in States /\ Put(c, x).queue = << >>
    BY <1>0, <2>1, PutParts
  <2> HIDE DEF Put
  <2> QED
    BY <1>6, <2>2 DEF Bare, States
<1>9. t.pages = c.pages /\ t.page = Append(c.page, x) /\ t.used = c.used + x.h /\ t.start = c.start
      /\ t.continued = c.continued /\ ~ t.explicit
  BY <1>6, <1>7 DEF Put, Bare, States
<1>10. CASE Turns(s, x)
  <2>1. c = o
    BY <1>4, <1>10
  <2> HIDE DEF Turns
  <2> QED
    BY <1>1, <1>8, <1>9, <1>10, <2>1 DEF t
<1>11. CASE ~ Turns(s, x)
  <2>1. c = s
    BY <1>4, <1>11
  <2> HIDE DEF Turns
  <2> QED
    BY <1>8, <1>9, <1>11, <2>1 DEF t
<1> QED
  BY <1>10, <1>11

(* What \clearpage and a break by hand do: the same, where nothing floats. *)
LEMMA MarkDone ==
  ASSUME NEW s \in Bare, NEW x \in ItemSet, x.kind \in {"clear", "break"}
  PROVE  LET t == Step(s, x)
             out == LaidOut(s.page, s.start)
         IN /\ t \in Bare /\ t.explicit /\ t.page = << >> /\ t.used = 0 /\ t.start = 0
            /\ s.page # << >> \/ (s.pages = << >> /\ s.start = 0) =>
                 /\ t.pages = Append(s.pages, out)
                 /\ t.continued = (s.continued \/ (s.start > 0 /\ s.page # << >>))
            /\ ~ (s.page # << >> \/ (s.pages = << >> /\ s.start = 0)) =>
                 t.pages = s.pages /\ t.continued = s.continued
<1> DEFINE o == Out(s, TRUE)
           t == Step(s, x)
<1>0. s \in States /\ TRUE \in BOOLEAN
  BY BareParts
<1>1. t = [o EXCEPT !.explicit = TRUE]
  <2>1. CASE x.kind = "clear"
    <3>1. Place(s, "bottom") = s /\ EndPage(s) = o
      BY BarePlace, BareTurn
    <3> QED
      BY <2>1, <3>1 DEF Step, ClearPage
  <2>2. CASE x.kind = "break"
    <3>1. TurnPage(s, TRUE) = o
      BY <1>0, BareTurn
    <3> QED
      BY <2>2, <3>1 DEF Step, ForcedBreak
  <2> QED
    BY <2>1, <2>2
<1>2. o \in Bare
  BY <1>0, BareOut
<1>3. s.page # << >> \/ (s.pages = << >> /\ s.start = 0) => o = Turned(s)
  BY <1>0, BareOut
<1>4. ~ (s.page # << >> \/ (s.pages = << >> /\ s.start = 0)) => o = Fresh(s)
  BY <1>0, BareOut
<1> HIDE DEF o, t
<1>5. t \in Bare /\ t.explicit /\ t.pages = o.pages /\ t.page = o.page /\ t.used = o.used /\ t.start = o.start
      /\ t.continued = o.continued
  BY <1>1, <1>2 DEF Bare, States
<1> QED
  BY <1>3, <1>4, <1>5, OutParts DEF t

(* What the end of the list does.                                          *)
LEMMA BareFinish ==
  ASSUME NEW s \in Bare
  PROVE  /\ s.page = << >> /\ s.pages # << >> => Finish(s) = s
         /\ s.page # << >> \/ (s.pages = << >> /\ s.start = 0) => Finish(s) = Turned(s)
<1>0. s \in States /\ s.queue = << >> /\ TRUE \in BOOLEAN /\ s.page \in Seq(Pieces)
  BY BareParts
<1>1. s.page = << >> /\ s.pages # << >> => Finish(s) = s
  BY <1>0 DEF Finish
<1>2. ASSUME s.page # << >> \/ (s.pages = << >> /\ s.start = 0) PROVE Finish(s) = Turned(s)
  <2>1. ~ (s.page = << >> /\ s.pages # << >> /\ s.queue = << >>)
    BY <1>2
  <2>2. PlaceOnTop(s) = s
    <3> DEFINE e == [s EXCEPT !.page = << >>]
    <3>1. e \in Bare
      <4>1. << >> \in Seq(Pieces)
        OBVIOUS
      <4> QED
        BY <1>0, <4>1 DEF Bare, States
    <3>2. e.page \o s.page = s.page
      BY <1>0 DEF States
    <3>3. [e EXCEPT !.page = s.page] = s
      BY <1>0 DEF States
    <3> HIDE DEF e
    <3>4. Place(e, "top") = e
      BY <3>1, BarePlace
    <3> QED
      BY <3>2, <3>3, <3>4 DEF PlaceOnTop, e
  <2>3. Place(s, "bottom") = s /\ EndPage(s) = Out(s, TRUE)
    BY BarePlace, BareTurn
  <2>4. Finish(s) = Out(s, TRUE)
    BY <2>1, <2>2, <2>3 DEF Finish
  <2> QED
    BY <1>0, <1>2, <2>4, BareOut
<1> QED
  BY <1>1, <1>2

(* The section is read by a machine of its own, s; b is the builder and    *)
(* `pages` what is finished of the sections before.  Either the open page  *)
(* is the section's own: it is the builder's, *)
OnOwnPage(b, pages, s) ==
  /\ s.start = 0 /\ s.page = b.page /\ s.used = b.used /\ b.pages = JoinPages(pages, s)
  /\ s.continued => s.pages # << >> /\ pages # << >>
  /\ s.page = << >> => (s.pages = << >> <=> b.pages = << >>)

(* or it goes on below `above`, what the sections before left on their last *)
(* page: the builder has both on its page, *)
GoesOn(b, pages, s, above) ==
  /\ above # << >> /\ Total(above) = s.start /\ s.start > 0 /\ s.used = b.used
  /\ s.pages = << >> /\ ~ s.continued
  /\ b.page = above \o s.page /\ pages = Append(b.pages, LaidOut(above, 0))

OnLastPage(b, pages, s) == \E above \in Seq(Pieces) : GoesOn(b, pages, s, above)

(* or it has not begun and the page before it is over.                     *)
BeforePage(b, pages, s) ==
  /\ s.start > 0 /\ s.used >= Height /\ s.page = << >> /\ s.pages = << >> /\ ~ s.continued
  /\ b.page = << >> /\ b.used = 0 /\ b.pages = pages

(* Once the section has an item the open page has something of it, if it   *)
(* goes on.                                                                *)
Alongside(b, pages, s) ==
  OnOwnPage(b, pages, s) \/ (OnLastPage(b, pages, s) /\ s.page # << >>)

(* After the first item the mark is set where no page is open.             *)
Begun(b) ==
  /\ b.explicit <=> b.page = << >>
  /\ b.page = << >> => b.pages # << >>
  /\ b.page # << >> => b.used > 0

(* A page is put behind other pages.                                       *)
LEMMA PageBehind ==
  ASSUME NEW a \in Seq(SUBSET Spots), NEW b \in Seq(SUBSET Spots), NEW out \in SUBSET Spots
  PROVE  a \o Append(b, out) = Append(a \o b, out) /\ a \o b \in Seq(SUBSET Spots)
<1> DEFINE P == SUBSET Spots
           one == <<out>>
           c == a \o b
<1>1. one \in Seq(P) /\ c \in Seq(P) /\ a \in Seq(P) /\ b \in Seq(P)
  OBVIOUS
<1> HIDE DEF P
<1>2. Append(b, out) = b \o one
  BY AppendIsConcat DEF P
<1>3. Append(c, out) = c \o one
  <2> HIDE DEF c
  <2> QED
    BY <1>1, AppendIsConcat DEF P
<1> HIDE DEF one
<1>4. (a \o b) \o one = a \o (b \o one)
  BY <1>1, ConcatAssociative
<1> QED
  BY <1>1, <1>2, <1>3, <1>4 DEF P

(* The first page of a section that is finished stays the first.           *)
LEMMA FirstStays ==
  ASSUME NEW b \in Seq(SUBSET Spots), NEW out \in SUBSET Spots, b # << >>
  PROVE  /\ Head(Append(b, out)) = Head(b) /\ Tail(Append(b, out)) = Append(Tail(b), out)
         /\ Head(b) \in SUBSET Spots /\ Tail(b) \in Seq(SUBSET Spots)
BY HeadTailAppend, HeadTailProperties

(* The first page of a section and the page it goes on.                    *)
LEMMA LastGrown ==
  ASSUME NEW a \in Seq(SUBSET Spots), a # << >>, NEW out \in SUBSET Spots
  PROVE  [a EXCEPT ![Len(a)] = @ \cup out] \in Seq(SUBSET Spots)
<1> DEFINE n == Len(a)
<1>1. a \in [1 .. n -> SUBSET Spots] /\ n \in Nat /\ n # 0
  BY EmptySeq
<1> HIDE DEF n
<1>2. n \in 1 .. n
  BY <1>1
<1> DEFINE c == [a EXCEPT ![n] = @ \cup out]
<1>3. c \in [1 .. n -> SUBSET Spots]
  BY <1>1, <1>2
<1> HIDE DEF c
<1>4. c \in Seq(SUBSET Spots)
  BY <1>1, <1>3
<1> QED
  BY <1>4 DEF c, n

(* Finishing one more page of a section is finishing one more page.        *)
LEMMA JoinAppend ==
  ASSUME NEW a \in Seq(SUBSET Spots), NEW s, s.pages \in Seq(SUBSET Spots), s.continued \in BOOLEAN,
         s.continued => s.pages # << >> /\ a # << >>,
         NEW out \in SUBSET Spots, NEW t, t.pages = Append(s.pages, out), t.continued = s.continued
  PROVE  JoinPages(a, t) = Append(JoinPages(a, s), out)
<1>1. CASE s.continued
  <2> DEFINE c == [a EXCEPT ![Len(a)] = @ \cup Head(s.pages)]
  <2>1. /\ Head(t.pages) = Head(s.pages) /\ Tail(t.pages) = Append(Tail(s.pages), out)
        /\ Head(s.pages) \in SUBSET Spots /\ Tail(s.pages) \in Seq(SUBSET Spots)
    BY <1>1, FirstStays
  <2>2. c \in Seq(SUBSET Spots)
    BY <1>1, <2>1, LastGrown
  <2>3. JoinPages(a, s) = c \o Tail(s.pages) /\ JoinPages(a, t) = c \o Append(Tail(s.pages), out)
    BY <1>1, <2>1 DEF JoinPages
  <2> DEFINE d == Tail(s.pages)
  <2>4. d \in Seq(SUBSET Spots)
    BY <2>1
  <2> HIDE DEF c, d
  <2>5. c \o Append(d, out) = Append(c \o d, out)
    BY <2>2, <2>4, PageBehind
  <2> QED
    BY <2>3, <2>5 DEF d
<1>2. CASE ~ s.continued
  <2>1. JoinPages(a, s) = a \o s.pages /\ JoinPages(a, t) = a \o Append(s.pages, out)
    BY <1>2 DEF JoinPages
  <2> DEFINE d == s.pages
  <2> HIDE DEF d
  <2>2. a \o Append(d, out) = Append(a \o d, out)
    BY PageBehind DEF d
  <2> QED
    BY <2>1, <2>2 DEF d
<1> QED
  BY <1>1, <1>2

(* Finishing the first one is going on with the page before.               *)
Grown(pages, more) == [pages EXCEPT ![Len(pages)] = @ \cup more]

LEMMA GrownLast ==
  ASSUME NEW a \in Seq(SUBSET Spots), NEW above \in SUBSET Spots, NEW out \in SUBSET Spots
  PROVE  Grown(Append(a, above), out) = Append(a, above \cup out)
<1> DEFINE n == Len(a)
           q == Append(a, above)
           c == [q EXCEPT ![n + 1] = @ \cup out]
           r == Append(a, above \cup out)
<1>1. /\ q \in Seq(SUBSET Spots) /\ n \in Nat /\ Len(q) = n + 1
      /\ \A k \in 1 .. n : q[k] = a[k]
      /\ q[n + 1] = above
  BY OneMorePage
<1>2. above \cup out \in SUBSET Spots
  OBVIOUS
<1>3. /\ r \in Seq(SUBSET Spots) /\ Len(r) = n + 1
      /\ \A k \in 1 .. n : r[k] = a[k]
      /\ r[n + 1] = above \cup out
  BY <1>2, OneMorePage
<1>4. q # << >>
  <2> HIDE DEF q
  <2> QED
    BY <1>1, EmptySeq
<1>5. c \in Seq(SUBSET Spots)
  <2> HIDE DEF q
  <2>1. [q EXCEPT ![Len(q)] = @ \cup out] \in Seq(SUBSET Spots)
    BY <1>1, <1>4, LastGrown
  <2> QED
    BY <1>1, <2>1
<1> HIDE DEF n, q, r
<1>6. DOMAIN q = 1 .. n + 1 /\ n + 1 \in 1 .. n + 1
  BY <1>1
<1>7. /\ DOMAIN c = 1 .. n + 1
      /\ c[n + 1] = above \cup out
      /\ \A k \in 1 .. n + 1 : k # n + 1 => c[k] = q[k]
  BY <1>1, <1>6
<1>8. c = [q EXCEPT ![Len(q)] = @ \cup out]
  BY <1>1
<1> HIDE DEF c
<1>9. Len(c) = n + 1
  BY <1>1, <1>5, <1>7
<1>10. ASSUME NEW k \in 1 .. n + 1 PROVE c[k] = r[k]
  <2>1. CASE k = n + 1
    BY <1>3, <1>7, <2>1
  <2>2. CASE k # n + 1
    <3>1. k \in 1 .. n
      BY <1>1, <2>2
    <3> QED
      BY <1>1, <1>3, <1>7, <2>2, <3>1
  <2> QED
    BY <2>1, <2>2
<1>11. c = r
  BY <1>3, <1>5, <1>9, <1>10, SeqEqual
<1>12. Grown(q, out) = c
  BY <1>8 DEF Grown
<1> QED
  BY <1>11, <1>12 DEF q, r

(* Where nothing is finished of a section, nothing is joined.              *)
LEMMA JoinNothing ==
  ASSUME NEW a \in Seq(SUBSET Spots), NEW s, s.pages = << >>, ~ s.continued
  PROVE  JoinPages(a, s) = a
BY ConcatEmptySeq DEF JoinPages

(* What is joined depends on the pages only.                               *)
LEMMA JoinSame ==
  ASSUME NEW a, NEW s, NEW t, t.pages = s.pages, t.continued = s.continued
  PROVE  JoinPages(a, t) = JoinPages(a, s)
BY DEF JoinPages

(* What is put behind something is there.                                  *)
LEMMA NotNone ==
  /\ \A q \in Seq(Pieces) : \A x \in Pieces : Append(q, x) # << >>
  /\ << >> \in Seq(Pieces) /\ << >> \in Seq(SUBSET Spots)
<1>1. ASSUME NEW q \in Seq(Pieces), NEW x \in Pieces PROVE Append(q, x) # << >>
  <2>1. Len(Append(q, x)) = Len(q) + 1 /\ Len(q) \in Nat
    OBVIOUS
  <2>2. Len(<< >>) = 0
    OBVIOUS
  <2> QED
    BY <2>1, <2>2
<1> QED
  BY <1>1

(* So is a page.                                                           *)
LEMMA PageMore ==
  ASSUME NEW q \in Seq(SUBSET Spots), NEW out \in SUBSET Spots
  PROVE  Append(q, out) # << >>
<1>1. Len(Append(q, out)) = Len(q) + 1 /\ Len(q) \in Nat
  BY OneMorePage
<1>2. Len(<< >>) = 0
  OBVIOUS
<1> QED
  BY <1>1, <1>2

(* What is read of a list that grows is what was read, and the new item.   *)
LEMMA ReadOne ==
  ASSUME NEW b \in States, NEW q \in Seq(ItemSet), NEW x \in ItemSet
  PROVE  /\ FoldLeft(Step, b, << >>) = b
         /\ FoldLeft(Step, b, q) \in States
         /\ FoldLeft(Step, b, Append(q, x)) = Step(FoldLeft(Step, b, q), x)
<1> DEFINE none == << >>
           r == Append(q, x)
           n == Len(q)
<1>1. none \in Seq(ItemSet) /\ Len(none) = 0
  OBVIOUS
<1>2. /\ r \in Seq(ItemSet) /\ n \in Nat /\ Len(r) = n + 1 /\ r[n + 1] = x
      /\ \A k \in 1 .. n : r[k] = q[k]
  OBVIOUS
<1> HIDE DEF none, r
<1>3. FoldLeft(Step, b, none) = b
  <2>1. \E h \in [0 .. Len(none) -> States] :
          /\ h[0] = b /\ FoldLeft(Step, b, none) = h[Len(none)]
          /\ \A k \in 1 .. Len(none) : h[k] = Step(h[k - 1], none[k])
    BY <1>1, ReadSteps
  <2> QED
    BY <1>1, <2>1
<1>4. PICK h \in [0 .. Len(q) -> States] :
        /\ h[0] = b /\ FoldLeft(Step, b, q) = h[Len(q)]
        /\ \A k \in 1 .. Len(q) : h[k] = Step(h[k - 1], q[k])
  BY ReadSteps
<1>5. PICK g \in [0 .. Len(r) -> States] :
        /\ g[0] = b /\ FoldLeft(Step, b, r) = g[Len(r)]
        /\ \A k \in 1 .. Len(r) : g[k] = Step(g[k - 1], r[k])
  BY <1>2, ReadSteps
<1> HIDE DEF n
<1>6. /\ h \in [0 .. n -> States] /\ h[0] = b /\ FoldLeft(Step, b, q) = h[n]
      /\ \A k \in 1 .. n : h[k] = Step(h[k - 1], q[k])
  BY <1>4 DEF n
<1>7. /\ g[0] = b /\ FoldLeft(Step, b, r) = g[n + 1]
      /\ \A k \in 1 .. n + 1 : g[k] = Step(g[k - 1], r[k])
  BY <1>2, <1>5
<1> DEFINE S == {k \in 0 .. n : g[k] = h[k]}
<1>8. 0 \in S
  BY <1>2, <1>6, <1>7
<1>9. ASSUME NEW k \in 1 .. n, k - 1 \in S PROVE k \in S
  <2>1. k \in 1 .. n + 1 /\ k \in 0 .. n /\ g[k - 1] = h[k - 1] /\ r[k] = q[k]
    BY <1>2, <1>9
  <2>2. g[k] = h[k]
    BY <1>6, <1>7, <2>1
  <2> QED
    BY <2>1, <2>2
<1> HIDE DEF S
<1>10. \A k \in 0 .. n : k \in S
  BY <1>2, <1>8, <1>9, InductUpTo
<1>11. n \in 0 .. n /\ n + 1 \in 1 .. n + 1 /\ (n + 1) - 1 = n
  BY <1>2
<1>12. g[n] = h[n]
  BY <1>10, <1>11 DEF S
<1>13. g[n + 1] = Step(h[n], x)
  BY <1>2, <1>7, <1>11, <1>12
<1>14. h[n] \in States
  BY <1>6, <1>11
<1>15. FoldLeft(Step, b, r) = Step(FoldLeft(Step, b, q), x)
  BY <1>6, <1>7, <1>13
<1> QED
  BY <1>3, <1>6, <1>14, <1>15 DEF none, r

(* Every item begins a document, *)
LEMMA BegunAfter ==
  ASSUME NEW b \in Bare, b.start = 0, NEW x \in ItemSet, x.kind \in {"box", "clear", "break"},
         x.kind = "box" => x.h > 0
  PROVE  Begun(Step(b, x)) /\ Step(b, x) \in Bare
<1> DEFINE t == Step(b, x)
           out == LaidOut(b.page, b.start)
<1>0. /\ b.pages \in Seq(SUBSET Spots) /\ b.page \in Seq(Pieces) /\ b.used \in Nat /\ x.h \in Nat
      /\ out \in SUBSET Spots /\ (Renders(x) => x \in Pieces)
  BY BareParts, ItemParts, RowsStand
<1>1. CASE x.kind = "box"
  <2>1. x \in Pieces
    BY <1>0, <1>1 DEF Renders
  <2>2. Append(b.page, x) # << >> /\ Append(<< >>, x) # << >>
    BY <1>0, <2>1, NotNone
  <2>3. b.used + x.h > 0 /\ 0 + x.h > 0
    BY <1>0, <1>1
  <2>4. t \in Bare /\ ~ t.explicit /\ t.page # << >> /\ t.used > 0
    BY <1>1, <2>2, <2>3, BoxRead
  <2> QED
    BY <2>4 DEF Begun
<1>2. CASE x.kind # "box"
  <2>1. Append(b.pages, out) # << >>
    BY <1>0, PageMore
  <2>2. t \in Bare /\ t.explicit /\ t.page = << >> /\ t.pages # << >>
    BY <1>2, <2>1, MarkDone
  <2> QED
    BY <2>2 DEF Begun
<1> QED
  BY <1>1, <1>2

(* A box is put where the builder puts it, on the section's own page, *)
LEMMA OwnBox ==
  ASSUME NEW b \in Bare, b.start = 0, NEW s \in Bare, NEW pages \in Seq(SUBSET Spots),
         OnOwnPage(b, pages, s), NEW x \in ItemSet, x.kind = "box"
  PROVE  OnOwnPage(Step(b, x), pages, Step(s, x))
<1> DEFINE t == Step(b, x)
           u == Step(s, x)
           out == LaidOut(s.page, 0)
<1>0. /\ b.page = s.page /\ b.used = s.used /\ s.start = 0 /\ b.start = 0
      /\ b.pages = JoinPages(pages, s)
      /\ s.pages \in Seq(SUBSET Spots) /\ s.page \in Seq(Pieces) /\ s.continued \in BOOLEAN
      /\ s.continued => s.pages # << >> /\ pages # << >>
      /\ x \in Pieces
  BY BareParts, ItemParts DEF OnOwnPage, Renders
<1>1. out \in SUBSET Spots
  BY <1>0, RowsStand
<1>2. Append(s.page, x) # << >> /\ Append(<< >>, x) # << >>
  BY <1>0, NotNone
<1>3. Turns(b, x) <=> Turns(s, x)
  BY <1>0 DEF Turns
<1>4. CASE ~ Turns(s, x)
  <2>1. /\ t.pages = b.pages /\ t.page = Append(b.page, x) /\ t.used = b.used + x.h
        /\ u.pages = s.pages /\ u.page = Append(s.page, x) /\ u.used = s.used + x.h
        /\ u.start = 0 /\ u.continued = s.continued
    BY <1>0, <1>3, <1>4, BoxRead
  <2> HIDE DEF t, u
  <2>2. JoinPages(pages, u) = JoinPages(pages, s)
    BY <2>1, JoinSame
  <2> QED
    BY <1>0, <1>2, <2>1, <2>2 DEF OnOwnPage, t, u
<1>5. CASE Turns(s, x)
  <2>1. s.page # << >>
    BY <1>0, <1>5 DEF Turns
  <2>2. /\ t.pages = Append(b.pages, out) /\ t.page = Append(<< >>, x) /\ t.used = 0 + x.h
        /\ u.pages = Append(s.pages, out) /\ u.page = Append(<< >>, x) /\ u.used = 0 + x.h
        /\ u.start = 0 /\ u.continued = (s.continued \/ s.start > 0)
    <3>1. /\ t.pages = Append(b.pages, LaidOut(b.page, b.start)) /\ t.page = Append(<< >>, x)
          /\ t.used = 0 + x.h
      <4>1. Turns(b, x) /\ b.page # << >>
        BY <1>0, <1>3, <1>5, <2>1
      <4> QED
        BY <4>1, BoxRead
    <3>2. /\ u.pages = Append(s.pages, LaidOut(s.page, s.start)) /\ u.page = Append(<< >>, x)
          /\ u.used = 0 + x.h /\ u.start = 0 /\ u.continued = (s.continued \/ s.start > 0)
      BY <1>5, <2>1, BoxRead
    <3> HIDE DEF t, u
    <3> QED
      BY <1>0, <3>1, <3>2
  <2>3. u.continued = s.continued
    BY <1>0, <2>2
  <2> HIDE DEF t, u, out
  <2>4. JoinPages(pages, u) = Append(JoinPages(pages, s), out)
    BY <1>0, <1>1, <2>2, <2>3, JoinAppend
  <2>5. u.pages # << >>
    BY <1>0, <1>1, <2>2, PageMore
  <2> QED
    BY <1>0, <1>2, <2>2, <2>3, <2>4, <2>5 DEF OnOwnPage, t, u
<1> QED
  BY <1>4, <1>5

(* and so is what ends a page.                                             *)
LEMMA OwnEnd ==
  ASSUME NEW b \in Bare, b.start = 0, NEW s \in Bare, NEW pages \in Seq(SUBSET Spots),
         OnOwnPage(b, pages, s), NEW x \in ItemSet, x.kind \in {"clear", "break"}
  PROVE  OnOwnPage(Step(b, x), pages, Step(s, x))
<1> DEFINE t == Step(b, x)
           u == Step(s, x)
           out == LaidOut(s.page, 0)
           turns == s.page # << >> \/ s.pages = << >>
<1>0. /\ b.page = s.page /\ b.used = s.used /\ s.start = 0 /\ b.start = 0
      /\ b.pages = JoinPages(pages, s) /\ b.pages \in Seq(SUBSET Spots)
      /\ s.pages \in Seq(SUBSET Spots) /\ s.page \in Seq(Pieces) /\ s.continued \in BOOLEAN
      /\ s.continued => s.pages # << >> /\ pages # << >>
      /\ s.page = << >> => (s.pages = << >> <=> b.pages = << >>)
  BY BareParts DEF OnOwnPage
<1>1. out \in SUBSET Spots
  BY <1>0, RowsStand
<1>2. t.page = << >> /\ t.used = 0 /\ u.page = << >> /\ u.used = 0 /\ u.start = 0
  BY MarkDone
<1>3. CASE turns
  <2>1. /\ t.pages = Append(b.pages, out) /\ u.pages = Append(s.pages, out)
        /\ u.continued = (s.continued \/ (s.start > 0 /\ s.page # << >>))
    BY <1>0, <1>3, MarkDone
  <2>2. u.continued = s.continued
    BY <1>0, <2>1
  <2> HIDE DEF t, u, out
  <2>3. JoinPages(pages, u) = Append(JoinPages(pages, s), out)
    BY <1>0, <1>1, <2>1, <2>2, JoinAppend
  <2>4. u.pages # << >> /\ t.pages # << >>
    BY <1>0, <1>1, <2>1, PageMore
  <2> QED
    BY <1>0, <1>2, <2>1, <2>2, <2>3, <2>4 DEF OnOwnPage, t, u
<1>4. CASE ~ turns
  <2>1. t.pages = b.pages /\ u.pages = s.pages /\ u.continued = s.continued
    BY <1>0, <1>4, MarkDone
  <2> HIDE DEF t, u
  <2>2. JoinPages(pages, u) = JoinPages(pages, s)
    BY <2>1, JoinSame
  <2> QED
    BY <1>0, <1>2, <1>4, <2>1, <2>2 DEF OnOwnPage, t, u
<1> QED
  BY <1>3, <1>4

(* The page before is over: the first box opens the next one.              *)
LEMMA BeforeBox ==
  ASSUME NEW b \in Bare, b.start = 0, NEW s \in Bare, NEW pages \in Seq(SUBSET Spots),
         BeforePage(b, pages, s), NEW x \in ItemSet, x.kind = "box", x.h > 0
  PROVE  OnOwnPage(Step(b, x), pages, Step(s, x))
<1> DEFINE t == Step(b, x)
           u == Step(s, x)
<1>0. /\ s.start > 0 /\ s.used >= Height /\ s.page = << >> /\ s.pages = << >> /\ ~ s.continued
      /\ b.page = << >> /\ b.used = 0 /\ b.pages = pages
      /\ x \in Pieces /\ x.h \in Nat /\ s.used \in Nat /\ Height \in Nat
  BY BareParts, ItemParts, HeightAssumption DEF BeforePage, Renders
<1>1. Append(<< >>, x) # << >>
  BY <1>0, NotNone
<1>2. ~ Turns(b, x) /\ Turns(s, x)
  BY <1>0 DEF Turns
<1>3. /\ t.pages = pages /\ t.page = Append(<< >>, x) /\ t.used = 0 + x.h
      /\ u.pages = << >> /\ u.page = Append(<< >>, x) /\ u.used = 0 + x.h
      /\ u.start = 0 /\ ~ u.continued
  BY <1>0, <1>2, BoxRead
<1> HIDE DEF t, u
<1>4. JoinPages(pages, u) = pages
  BY <1>3, JoinNothing
<1> QED
  BY <1>1, <1>3, <1>4 DEF OnOwnPage, t, u

(* The first page a section finishes completes the last one before it.     *)
LEMMA LastEnds ==
  ASSUME NEW b \in Bare, b.start = 0, NEW s \in Bare, NEW above \in Seq(Pieces),
         NEW pages, GoesOn(b, pages, s, above), s.page # << >>,
         NEW u, u.pages = Append(<< >>, LaidOut(s.page, s.start)), u.continued
  PROVE  /\ JoinPages(pages, u) = Append(b.pages, LaidOut(b.page, 0))
         /\ u.pages # << >> /\ pages # << >>
<1> DEFINE top == LaidOut(above, 0)
           out == LaidOut(s.page, s.start)
<1>0. /\ b.page = above \o s.page /\ pages = Append(b.pages, top) /\ Total(above) = s.start
      /\ b.pages \in Seq(SUBSET Spots) /\ s.page \in Seq(Pieces) /\ s.start \in Nat /\ 0 \in Nat
  BY BareParts DEF GoesOn
<1>1. top \in SUBSET Spots /\ out \in SUBSET Spots
  BY <1>0, RowsStand
<1>2. LaidOut(b.page, 0) = top \cup out
  <2>1. 0 + Total(above) = s.start
    BY <1>0
  <2>2. LaidOut(above \o s.page, 0) = LaidOut(above, 0) \cup LaidOut(s.page, 0 + Total(above))
    BY <1>0, LaidJoined
  <2> QED
    BY <1>0, <2>1, <2>2
<1> HIDE DEF top, out
<1>3. JoinPages(pages, u) = Append(b.pages, top \cup out)
  <2>1. Head(u.pages) = out /\ Tail(u.pages) = << >>
    <3>1. u.pages = Append(<< >>, out) /\ << >> \in Seq(SUBSET Spots)
      BY NotNone DEF out
    <3> QED
      BY <3>1, HeadTailAppend
  <2>2. JoinPages(pages, u) = Grown(pages, out) \o << >>
    BY <2>1 DEF JoinPages, Grown
  <2> DEFINE a == b.pages
             r == Append(a, top \cup out)
  <2>3. a \in Seq(SUBSET Spots) /\ top \cup out \in SUBSET Spots
    BY <1>0, <1>1
  <2> HIDE DEF a
  <2>4. Grown(Append(a, top), out) = r
    BY <1>1, <2>3, GrownLast
  <2>5. r \in Seq(SUBSET Spots)
    BY <2>3, OneMorePage
  <2> HIDE DEF r
  <2>6. r \o << >> = r
    BY <2>5, ConcatEmptySeq
  <2> QED
    BY <1>0, <2>2, <2>4, <2>6 DEF a, r
<1>4. pages # << >>
  BY <1>0, <1>1, PageMore
<1>5. Append(<< >>, out) # << >>
  BY <1>1, NotNone, PageMore
<1> QED
  BY <1>0, <1>2, <1>3, <1>4, <1>5 DEF out

(* A piece is put behind other pieces.                                     *)
LEMMA PieceBehind ==
  ASSUME NEW a \in Seq(Pieces), NEW b \in Seq(Pieces), NEW x \in Pieces
  PROVE  a \o Append(b, x) = Append(a \o b, x)
<1> DEFINE P == Pieces
           one == <<x>>
           c == a \o b
<1>1. one \in Seq(P) /\ c \in Seq(P) /\ a \in Seq(P) /\ b \in Seq(P) /\ x \in P
  OBVIOUS
<1> HIDE DEF P
<1>2. Append(b, x) = b \o one
  BY <1>1, AppendIsConcat
<1>3. Append(c, x) = c \o one
  <2> HIDE DEF c
  <2> QED
    BY <1>1, AppendIsConcat
<1> HIDE DEF one
<1>4. (a \o b) \o one = a \o (b \o one)
  BY <1>1, ConcatAssociative
<1> QED
  BY <1>2, <1>3, <1>4

(* What both have on the last page of the sections before.                 *)
LEMMA Shared ==
  ASSUME NEW b \in Bare, NEW s \in Bare, NEW above \in Seq(Pieces), NEW pages, GoesOn(b, pages, s, above)
  PROVE  /\ b.page # << >> /\ (s.page = << >> => b.page = above)
         /\ \A x \in Pieces : above \o Append(s.page, x) = Append(b.page, x)
         /\ LaidOut(above, 0) \in SUBSET Spots /\ pages \in Seq(SUBSET Spots) /\ pages # << >>
<1>0. /\ above # << >> /\ b.page = above \o s.page /\ s.page \in Seq(Pieces) /\ 0 \in Nat
      /\ b.pages \in Seq(SUBSET Spots) /\ pages = Append(b.pages, LaidOut(above, 0))
  BY BareParts DEF GoesOn
<1>1. above \o s.page # << >>
  <2>1. Len(above \o s.page) = Len(above) + Len(s.page) /\ Len(above) \in Nat /\ Len(s.page) \in Nat
    BY <1>0
  <2>2. Len(above) # 0
    BY <1>0, EmptySeq
  <2>3. Len(above \o s.page) # 0
    BY <2>1, <2>2
  <2>4. Len(<< >>) = 0
    OBVIOUS
  <2> QED
    BY <2>3, <2>4
<1>2. above \o << >> = above
  BY ConcatEmptySeq
<1>3. \A x \in Pieces : above \o Append(s.page, x) = Append(b.page, x)
  BY <1>0, PieceBehind
<1>4. LaidOut(above, 0) \in SUBSET Spots
  BY <1>0, RowsStand
<1>5. pages \in Seq(SUBSET Spots) /\ pages # << >>
  BY <1>0, <1>4, OneMorePage, PageMore
<1> QED
  BY <1>0, <1>1, <1>2, <1>3, <1>4, <1>5

(* A box goes below what the sections before left, or opens a page.        *)
LEMMA LastBox ==
  ASSUME NEW b \in Bare, b.start = 0, NEW s \in Bare, NEW pages, OnLastPage(b, pages, s),
         NEW x \in ItemSet, x.kind = "box"
  PROVE  Alongside(Step(b, x), pages, Step(s, x))
<1> DEFINE t == Step(b, x)
           u == Step(s, x)
           out == LaidOut(s.page, s.start)
<1>1. PICK above \in Seq(Pieces) : GoesOn(b, pages, s, above)
  BY DEF OnLastPage
<1>2. /\ Total(above) = s.start /\ s.start > 0 /\ s.used = b.used /\ above # << >>
      /\ s.pages = << >> /\ ~ s.continued /\ pages = Append(b.pages, LaidOut(above, 0))
  BY <1>1 DEF GoesOn
<1>3. /\ b.page # << >> /\ (s.page = << >> => b.page = above)
      /\ above \o Append(s.page, x) = Append(b.page, x)
      /\ pages \in Seq(SUBSET Spots) /\ pages # << >>
      /\ x \in Pieces /\ s.page \in Seq(Pieces)
  <2>1. x \in Pieces /\ s.page \in Seq(Pieces)
    BY ItemParts, BareParts DEF Renders
  <2> QED
    BY <1>1, <2>1, Shared
<1>4. Append(s.page, x) # << >> /\ Append(<< >>, x) # << >>
  BY <1>3, NotNone
<1>5. Turns(b, x) <=> Turns(s, x)
  BY <1>2, <1>3 DEF Turns
<1>6. CASE ~ Turns(s, x)
  <2>1. /\ t.pages = b.pages /\ t.page = Append(b.page, x) /\ t.used = b.used + x.h
        /\ u.pages = s.pages /\ u.page = Append(s.page, x) /\ u.used = s.used + x.h
        /\ u.start = s.start /\ u.continued = s.continued
    BY <1>5, <1>6, BoxRead
  <2> HIDE DEF t, u
  <2>2. GoesOn(t, pages, u, above)
    BY <1>2, <1>3, <2>1 DEF GoesOn
  <2> QED
    BY <1>4, <2>1, <2>2 DEF Alongside, OnLastPage, t, u
<1>7. CASE Turns(s, x)
  <2>1. /\ t.pages = Append(b.pages, LaidOut(b.page, 0)) /\ t.page = Append(<< >>, x) /\ t.used = 0 + x.h
        /\ u.page = Append(<< >>, x) /\ u.used = 0 + x.h /\ u.start = 0
    BY <1>3, <1>5, <1>7, BoxRead
  <2>2. CASE s.page # << >>
    <3>1. u.pages = Append(<< >>, out) /\ u.continued
      <4>1. u.pages = Append(s.pages, out) /\ u.continued = (s.continued \/ s.start > 0)
        BY <1>7, <2>2, BoxRead
      <4> HIDE DEF u, out
      <4> QED
        BY <1>2, <4>1
    <3> HIDE DEF t, u
    <3>2. /\ JoinPages(pages, u) = Append(b.pages, LaidOut(b.page, 0))
          /\ u.pages # << >> /\ pages # << >>
      BY <1>1, <2>2, <3>1, LastEnds
    <3>3. OnOwnPage(t, pages, u)
      BY <1>4, <2>1, <3>2 DEF OnOwnPage
    <3> QED
      BY <3>3 DEF Alongside, t, u
  <2>3. CASE s.page = << >>
    <3>1. u.pages = << >> /\ ~ u.continued
      BY <1>2, <1>7, <2>3, BoxRead
    <3> HIDE DEF t, u
    <3>2. JoinPages(pages, u) = pages
      BY <1>3, <3>1, JoinNothing
    <3>3. t.pages = pages
      BY <1>2, <1>3, <2>1, <2>3
    <3>4. OnOwnPage(t, pages, u)
      BY <1>4, <2>1, <3>1, <3>2, <3>3 DEF OnOwnPage
    <3> QED
      BY <3>4 DEF Alongside, t, u
  <2> QED
    BY <2>2, <2>3
<1> QED
  BY <1>6, <1>7

(* What ends the page ends it for both.                                    *)
LEMMA LastMark ==
  ASSUME NEW b \in Bare, b.start = 0, NEW s \in Bare, NEW pages, OnLastPage(b, pages, s), s.page # << >>,
         NEW x \in ItemSet, x.kind \in {"clear", "break"}
  PROVE  OnOwnPage(Step(b, x), pages, Step(s, x))
<1> DEFINE t == Step(b, x)
           u == Step(s, x)
           out == LaidOut(s.page, s.start)
<1>1. PICK above \in Seq(Pieces) : GoesOn(b, pages, s, above)
  BY DEF OnLastPage
<1>2. s.start > 0 /\ s.pages = << >> /\ b.page # << >> /\ b.pages \in Seq(SUBSET Spots)
  BY <1>1, Shared, BareParts DEF GoesOn
<1>3. /\ t.pages = Append(b.pages, LaidOut(b.page, 0)) /\ t.page = << >> /\ t.used = 0
      /\ u.pages = Append(<< >>, out) /\ u.continued
      /\ u.page = << >> /\ u.used = 0 /\ u.start = 0
  <2>1. t.pages = Append(b.pages, LaidOut(b.page, b.start)) /\ t.page = << >> /\ t.used = 0
    BY <1>2, MarkDone
  <2>2. /\ u.pages = Append(s.pages, out) /\ u.continued = (s.continued \/ (s.start > 0 /\ s.page # << >>))
        /\ u.page = << >> /\ u.used = 0 /\ u.start = 0
    BY MarkDone
  <2> HIDE DEF t, u, out
  <2> QED
    BY <1>2, <2>1, <2>2
<1> HIDE DEF t, u
<1>4. /\ JoinPages(pages, u) = Append(b.pages, LaidOut(b.page, 0))
      /\ u.pages # << >> /\ pages # << >>
  BY <1>1, <1>3, LastEnds
<1>5. Append(b.pages, LaidOut(b.page, 0)) # << >>
  <2>1. LaidOut(b.page, 0) \in SUBSET Spots
    BY BareParts, RowsStand
  <2> QED
    BY <1>2, <2>1, PageMore
<1> QED
  BY <1>3, <1>4, <1>5 DEF OnOwnPage, t, u

(* The next item of a section keeps the two together.                      *)
LEMMA AlongsideReads ==
  ASSUME NEW b \in Bare, b.start = 0, NEW s \in Bare, NEW pages \in Seq(SUBSET Spots),
         NEW x \in ItemSet, x.kind \in {"box", "clear", "break"},
         \/ Alongside(b, pages, s)
         \/ x.kind = "box" /\ x.h > 0 /\ (OnLastPage(b, pages, s) \/ BeforePage(b, pages, s))
  PROVE  Alongside(Step(b, x), pages, Step(s, x))
<1>1. CASE x.kind = "box"
  <2>1. CASE OnOwnPage(b, pages, s)
    BY <1>1, <2>1, OwnBox DEF Alongside
  <2>2. CASE OnLastPage(b, pages, s)
    BY <1>1, <2>2, LastBox
  <2>3. CASE x.h > 0 /\ BeforePage(b, pages, s)
    BY <1>1, <2>3, BeforeBox DEF Alongside
  <2> QED
    BY <2>1, <2>2, <2>3 DEF Alongside
<1>2. CASE x.kind \in {"clear", "break"}
  <2>1. Alongside(b, pages, s)
    BY <1>2
  <2>2. CASE OnOwnPage(b, pages, s)
    BY <1>2, <2>2, OwnEnd DEF Alongside
  <2>3. CASE OnLastPage(b, pages, s) /\ s.page # << >>
    BY <1>2, <2>3, LastMark DEF Alongside
  <2> QED
    BY <2>1, <2>2, <2>3 DEF Alongside
<1> QED
  BY <1>1, <1>2

(* Where one section ends the next one can begin: the pages are the        *)
(* builder's, its open page included.                                      *)
LEMMA SectionOver ==
  ASSUME NEW b \in Bare, b.start = 0, Begun(b), Total(b.page) = b.used,
         NEW s \in Bare, NEW pages \in Seq(SUBSET Spots), Alongside(b, pages, s), s.explicit = b.explicit
  PROVE  LET f == Finish(s)
             joined == JoinPages(pages, f)
             new == Start(NextUsed(f), << >>)
         IN OnLastPage(b, joined, new) \/ BeforePage(b, joined, new)
<1> DEFINE f == Finish(s)
           joined == JoinPages(pages, f)
           new == Start(NextUsed(f), << >>)
           laid == LaidOut(b.page, 0)
<1>0. /\ b.page \in Seq(Pieces) /\ b.used \in Nat /\ b.pages \in Seq(SUBSET Spots)
      /\ s.page \in Seq(Pieces) /\ s.pages \in Seq(SUBSET Spots) /\ s.continued \in BOOLEAN
      /\ s.explicit \in BOOLEAN /\ b.explicit \in BOOLEAN /\ s.start \in Nat
      /\ Height \in Nat /\ Height > 0
  BY BareParts, HeightAssumption
<1>1. /\ b.explicit <=> b.page = << >>
      /\ b.page = << >> => b.pages # << >>
      /\ b.page # << >> => b.used > 0
  BY DEF Begun
<1>2. /\ new.start = NextUsed(f) /\ new.used = NextUsed(f) /\ new.page = << >> /\ new.pages = << >>
      /\ ~ new.continued
  <2> DEFINE n == NextUsed(f)
  <2> HIDE DEF n
  <2> QED
    BY DEF Start, n
<1> HIDE DEF new
<1>3. CASE b.page = << >>
  <2>1. OnOwnPage(b, pages, s)
    BY <1>3, Shared DEF Alongside, OnLastPage
  <2>2. s.page = << >> /\ s.pages # << >> /\ b.pages = JoinPages(pages, s)
    BY <1>1, <1>3, <2>1 DEF OnOwnPage
  <2>3. f = s
    BY <2>2, BareFinish
  <2>4. NextUsed(f) = Height /\ joined = b.pages
    BY <1>0, <1>1, <1>3, <2>2, <2>3 DEF NextUsed
  <2>5. b.used = 0
    BY <1>3, TotalNone
  <2> HIDE DEF joined, f
  <2>6. BeforePage(b, joined, new)
    BY <1>0, <1>2, <1>3, <2>4, <2>5 DEF BeforePage
  <2> QED
    BY <2>6 DEF joined, f, new
<1>4. CASE b.page # << >>
  <2>1. s.used = b.used /\ s.page # << >>
    BY <1>4 DEF Alongside, OnLastPage, OnOwnPage, GoesOn
  <2>2. f = Turned(s)
    BY <2>1, BareFinish
  <2>3. /\ f.pages = Append(s.pages, LaidOut(s.page, s.start)) /\ f.last = b.used
        /\ f.continued = (s.continued \/ (s.start > 0 /\ s.page # << >>)) /\ f.explicit = s.explicit
    BY <2>1, <2>2, OutParts
  <2> HIDE DEF f, laid
  <2>4. NextUsed(f) = b.used
    BY <1>1, <1>4, <2>3 DEF NextUsed
  <2>5. joined = Append(b.pages, laid)
    <3>1. CASE OnOwnPage(b, pages, s)
      <4>1. /\ s.start = 0 /\ s.page = b.page /\ b.pages = JoinPages(pages, s)
            /\ s.continued => s.pages # << >> /\ pages # << >>
        BY <3>1 DEF OnOwnPage
      <4>2. f.pages = Append(s.pages, laid) /\ f.continued = s.continued
        BY <1>0, <2>3, <4>1 DEF laid
      <4>3. laid \in SUBSET Spots
        BY <1>0, RowsStand DEF laid
      <4>4. s.pages \in Seq(SUBSET Spots) /\ s.continued \in BOOLEAN
        BY <1>0
      <4>5. JoinPages(pages, f) = Append(JoinPages(pages, s), laid)
        BY <4>1, <4>2, <4>3, <4>4, JoinAppend
      <4> QED
        BY <4>1, <4>5
    <3>2. CASE OnLastPage(b, pages, s)
      <4>1. PICK above \in Seq(Pieces) : GoesOn(b, pages, s, above)
        BY <3>2 DEF OnLastPage
      <4>2. s.pages = << >> /\ s.start > 0
        BY <4>1 DEF GoesOn
      <4>3. f.pages = Append(<< >>, LaidOut(s.page, s.start)) /\ f.continued
        BY <2>1, <2>3, <4>2
      <4> QED
        BY <2>1, <4>1, <4>3, LastEnds DEF laid
    <3> QED
      BY <3>1, <3>2 DEF Alongside
  <2> HIDE DEF joined
  <2>6. b.page = b.page \o new.page
    BY <1>0, <1>2, ConcatEmptySeq
  <2>7. GoesOn(b, joined, new, b.page)
    BY <1>1, <1>2, <1>4, <2>4, <2>5, <2>6 DEF GoesOn, laid
  <2> QED
    BY <1>0, <2>7 DEF OnLastPage, joined, f, new
<1> QED
  BY <1>3, <1>4

(* There the document ends, too.                                           *)
LEMMA DocumentOver ==
  ASSUME NEW b \in Bare, b.start = 0, Begun(b), NEW s \in Bare, s.page = << >>, NEW pages,
         OnLastPage(b, pages, s) \/ BeforePage(b, pages, s)
  PROVE  Finish(b).pages = pages
<1>1. CASE OnLastPage(b, pages, s)
  <2>1. PICK above \in Seq(Pieces) : GoesOn(b, pages, s, above)
    BY <1>1 DEF OnLastPage
  <2>2. b.page # << >> /\ b.page = above /\ pages = Append(b.pages, LaidOut(above, 0))
    BY <2>1, Shared DEF GoesOn
  <2>3. Finish(b) = Turned(b)
    BY <2>2, BareFinish
  <2> QED
    BY <2>2, <2>3, OutParts
<1>2. CASE BeforePage(b, pages, s)
  <2>1. b.page = << >> /\ b.pages # << >> /\ b.pages = pages
    BY <1>2 DEF BeforePage, Begun
  <2> QED
    BY <2>1, BareFinish
<1> QED
  BY <1>1, <1>2

(* The machine of the open section.                                        *)
SectionOf(list, used) == FoldLeft(Step, Start(used, << >>), list)

(* What it has read.                                                       *)
LEMMA SectionReads ==
  ASSUME NEW used \in Nat, NEW q \in Seq(ItemSet), NEW x \in ItemSet
  PROVE  /\ SectionOf(<< >>, used) = Start(used, << >>)
         /\ SectionOf(q, used) \in States
         /\ SectionOf(Append(q, x), used) = Step(SectionOf(q, used), x)
<1> DEFINE b == Start(used, << >>)
<1>1. b \in States
  BY StartParts
<1> HIDE DEF b
<1>2. /\ FoldLeft(Step, b, << >>) = b
      /\ FoldLeft(Step, b, q) \in States
      /\ FoldLeft(Step, b, Append(q, x)) = Step(FoldLeft(Step, b, q), x)
  BY <1>1, ReadOne
<1> QED
  BY <1>2 DEF SectionOf, b

(* The inductive invariant: while nothing floats, the builder and the      *)
(* pipeline with its open section are two views of the same pages.         *)
NoFloat == \A i \in DOMAIN items : items[i].kind \notin {"float", "right"}

SameSoFar(b, p, s) ==
  /\ b.queue = << >> /\ s.queue = << >>
  /\ items = << >> => p.offset = 0 /\ b = Start(0, << >>)
  /\ items # << >> => Begun(b)
  /\ items # << >> /\ p.section = << >> => OnLastPage(b, p.pages, s) \/ BeforePage(b, p.pages, s)
  /\ p.section # << >> => s.explicit = b.explicit /\ Alongside(b, p.pages, s)

AgreeInv ==
  /\ BuilderInv /\ PipeInv
  /\ NoFloat => SameSoFar(builder, pipe, SectionOf(pipe.section, pipe.offset))

(* The parts of the states it is about.                                    *)
LEMMA AgreeParts ==
  ASSUME BuilderInv, PipeInv
  PROVE  /\ items \in Seq(ItemSet)
         /\ builder \in States /\ builder.start = 0 /\ Total(builder.page) = builder.used
         /\ pipe.pages \in Seq(SUBSET Spots) /\ pipe.offset \in Nat /\ pipe.section \in Seq(ItemSet)
         /\ SectionOf(pipe.section, pipe.offset) \in States
<1>1. builder \in States /\ builder.start = 0 /\ Total(builder.page) = builder.used
  <2>1. /\ builder \in States /\ builder.used = builder.start + Total(builder.page)
        /\ builder.start \in {0, 0}
    BY DEF BuilderInv, Tidy
  <2>2. Total(builder.page) \in Nat
    BY <2>1, StateParts
  <2> QED
    BY <2>1, <2>2
<1>2. /\ pipe.pages \in Seq(SUBSET Spots) /\ pipe.offset \in Nat /\ pipe.section \in Seq(ItemSet)
      /\ items \in Seq(ItemSet)
  BY DEF PipeInv, ItemsOK
<1>3. PICK x : x \in ItemSet
  <2>1. [kind |-> "box", id |-> 0, h |-> 0, place |-> {}, defers |-> 0] \in ItemSet
    BY DEF ItemSet
  <2> QED
    BY <2>1
<1>4. SectionOf(pipe.section, pipe.offset) \in States
  BY <1>2, <1>3, SectionReads
<1> QED
  BY <1>1, <1>2, <1>4

(* The section that begins.                                                *)
LEMMA SectionStarts ==
  ASSUME NEW used \in Nat
  PROVE  /\ SectionOf(<< >>, used) = Start(used, << >>) /\ Start(used, << >>) \in Bare
         /\ Start(used, << >>).page = << >> /\ Start(used, << >>).pages = << >>
         /\ Start(used, << >>).start = used /\ Start(used, << >>).used = used
         /\ ~ Start(used, << >>).continued
<1> DEFINE none == << >>
           x == [kind |-> "box", id |-> 0, h |-> 0, place |-> {}, defers |-> 0]
<1>1. none \in Seq(ItemSet)
  OBVIOUS
<1>2. x \in ItemSet
  BY DEF ItemSet
<1> HIDE DEF x, none
<1>3. SectionOf(<< >>, used) = Start(used, << >>)
  BY <1>1, <1>2, SectionReads
<1>4. Start(used, << >>) \in States
  BY StartParts
<1> QED
  BY <1>3, <1>4 DEF Bare, Start

(* The two begin as one.                                                   *)
LEMMA AgreeInit == PagesInit => AgreeInv
<1> SUFFICES ASSUME PagesInit PROVE AgreeInv
  OBVIOUS
<1>1. BuilderInv /\ PipeInv
  BY BuilderInit, PipeInit
<1>2. /\ items = << >> /\ builder = Start(0, << >>)
      /\ pipe = [pages |-> << >>, offset |-> 0, section |-> << >>]
  BY DEF PagesInit
<1>3. 0 \in Nat /\ pipe.offset = 0 /\ pipe.section = << >>
  BY <1>2
<1>4. SectionOf(pipe.section, pipe.offset) = Start(0, << >>)
  BY <1>3, SectionStarts
<1>5. Start(0, << >>).queue = << >>
  BY DEF Start
<1> QED
  BY <1>1, <1>2, <1>3, <1>4, <1>5 DEF AgreeInv, SameSoFar

(* An item keeps them so.                                                  *)
LEMMA AgreeReads ==
  ASSUME AgreeInv, BuilderInv', PipeInv', NEW x \in ItemSet, Read(x),
         x.kind = "box" => x.h \in BoxHeights, 0 \notin BoxHeights
  PROVE  AgreeInv'
<1> DEFINE b == builder
           q == pipe.section
           used == pipe.offset
           s == SectionOf(q, used)
           t == Step(b, x)
           u == Step(s, x)
<1>0. BuilderInv /\ PipeInv
  BY DEF AgreeInv
<1>1. /\ items \in Seq(ItemSet) /\ b \in States /\ b.start = 0
      /\ pipe.pages \in Seq(SUBSET Spots) /\ used \in Nat /\ q \in Seq(ItemSet) /\ s \in States
      /\ pipe \in [pages : Seq(SUBSET Spots), offset : Nat, section : Seq(ItemSet)]
  BY <1>0, AgreeParts DEF PipeInv
<1>2. /\ items' = Append(items, x) /\ builder' = t /\ pipe' = [pipe EXCEPT !.section = Append(@, x)]
      /\ (q = << >> /\ items # << >>) => x.kind = "box"
  BY DEF Read
<1>3. pipe'.pages = pipe.pages /\ pipe'.offset = used /\ pipe'.section = Append(q, x)
  BY <1>1, <1>2
<1>4. SectionOf(pipe'.section, pipe'.offset) = u
  BY <1>1, <1>3, SectionReads
<1>5. /\ Len(items) \in Nat /\ Len(items') = Len(items) + 1 /\ items'[Len(items) + 1] = x
      /\ \A i \in 1 .. Len(items) : items'[i] = items[i]
      /\ DOMAIN items' = 1 .. Len(items) + 1 /\ DOMAIN items = 1 .. Len(items)
  BY <1>1, <1>2
<1>6. items' # << >> /\ Append(q, x) # << >>
  <2>1. Len(Append(q, x)) = Len(q) + 1 /\ Len(q) \in Nat
    BY <1>1
  <2>2. Len(items') # 0 /\ Len(Append(q, x)) # 0
    BY <1>5, <2>1
  <2>3. Len(<< >>) = 0
    OBVIOUS
  <2> QED
    BY <2>2, <2>3
<1>7. ASSUME NoFloat' PROVE SameSoFar(builder, pipe, SectionOf(pipe.section, pipe.offset))'
  <2>1. NoFloat /\ x.kind \in {"box", "clear", "break"}
    <3>1. \A i \in 1 .. Len(items) + 1 : items'[i].kind \notin {"float", "right"}
      BY <1>5, <1>7 DEF NoFloat
    <3>2. x.kind \notin {"float", "right"}
      <4>1. Len(items) + 1 \in 1 .. Len(items) + 1
        BY <1>5
      <4> QED
        BY <1>5, <3>1, <4>1
    <3>3. \A i \in 1 .. Len(items) : i \in 1 .. Len(items) + 1
      BY <1>5
    <3>4. NoFloat
      BY <1>5, <3>1, <3>3 DEF NoFloat
    <3>5. x.kind \in {"box", "float", "clear", "break", "right"}
      BY ItemParts
    <3> QED
      BY <3>2, <3>4, <3>5
  <2>2. SameSoFar(b, pipe, s)
    BY <2>1 DEF AgreeInv
  <2> HIDE DEF b, s, used, q
  <2>3. b \in Bare /\ s \in Bare /\ b.queue = << >>
    BY <1>1, <2>2 DEF SameSoFar, Bare
  <2>4. x.kind = "box" => x.h > 0
    <3>1. x.h \in Nat
      BY ItemParts
    <3>2. x.kind = "box" => x.h # 0
      OBVIOUS
    <3> QED
      BY <3>1, <3>2
  <2>5. Begun(t) /\ t \in Bare
    BY <1>1, <2>1, <2>3, <2>4, BegunAfter
  <2>6. Alongside(t, pipe.pages, u)
    <3>1. \/ Alongside(b, pipe.pages, s)
          \/ x.kind = "box" /\ x.h > 0 /\ (OnLastPage(b, pipe.pages, s) \/ BeforePage(b, pipe.pages, s))
      <4>1. CASE items = << >>
        <5>1. b = Start(0, << >>) /\ s = Start(0, << >>) /\ pipe.pages = << >>
          <6>1. b = Start(0, << >>) /\ used = 0 /\ q = << >> /\ pipe.pages = << >>
            BY <1>0, <2>2, <4>1 DEF SameSoFar, PipeInv, used, q
          <6>2. s = SectionOf(<< >>, 0) /\ 0 \in Nat
            BY <6>1 DEF s
          <6> QED
            BY <6>1, <6>2, SectionStarts
        <5>2. /\ b.page = << >> /\ b.pages = << >> /\ b.start = 0 /\ b.used = 0 /\ ~ b.continued /\ b = s
          <6>1. 0 \in Nat
            OBVIOUS
          <6> QED
            BY <5>1, <6>1, SectionStarts
        <5>3. JoinPages(pipe.pages, s) = pipe.pages
          BY <1>1, <5>2, JoinNothing
        <5> QED
          BY <5>1, <5>2, <5>3 DEF Alongside, OnOwnPage
      <4>2. CASE items # << >> /\ q = << >>
        BY <1>2, <2>2, <2>4, <4>2 DEF SameSoFar, q
      <4>3. CASE q # << >>
        BY <2>2, <4>3 DEF SameSoFar, q
      <4> QED
        BY <4>1, <4>2, <4>3
    <3> QED
      BY <1>1, <2>1, <2>3, <3>1, AlongsideReads
  <2>7. u \in Bare /\ u.explicit = t.explicit
    <3>1. x.kind = "box" => u \in Bare /\ ~ u.explicit /\ ~ t.explicit
      BY <2>3, BoxRead
    <3>2. x.kind \in {"clear", "break"} => u \in Bare /\ u.explicit /\ t.explicit
      BY <2>3, MarkDone
    <3> HIDE DEF t, u
    <3>3. u \in Bare /\ (u.explicit <=> t.explicit)
      BY <2>1, <3>1, <3>2
    <3>4. u.explicit \in BOOLEAN /\ t.explicit \in BOOLEAN
      BY <2>5, <3>3, BareParts
    <3> QED
      BY <3>3, <3>4
  <2>8. t.queue = << >> /\ u.queue = << >>
    BY <2>5, <2>7 DEF Bare
  <2> HIDE DEF t, u
  <2> QED
    BY <1>2, <1>3, <1>4, <1>6, <2>5, <2>6, <2>7, <2>8 DEF SameSoFar
<1> QED
  BY <1>7 DEF AgreeInv

(* Paginating a section keeps them so, and the next one begins where the   *)
(* builder is.                                                             *)
LEMMA AgreeCuts ==
  ASSUME AgreeInv, BuilderInv', PipeInv', Cut
  PROVE  AgreeInv'
<1> DEFINE b == builder
           s == SectionOf(pipe.section, pipe.offset)
           f == Finish(s)
           joined == JoinPages(pipe.pages, f)
           new == Start(NextUsed(f), << >>)
<1>0. BuilderInv /\ PipeInv
  BY DEF AgreeInv
<1>1. /\ b \in States /\ b.start = 0 /\ Total(b.page) = b.used
      /\ pipe.pages \in Seq(SUBSET Spots) /\ s \in States
  BY <1>0, AgreeParts
<1>2. /\ pipe.section # << >> /\ items' = items /\ builder' = builder
      /\ pipe' = [pages |-> joined, offset |-> NextUsed(f), section |-> << >>]
  <2>1. Paginate(pipe.section, pipe.offset, << >>) = f
    BY DEF Cut, Paginate, SectionOf
  <2> QED
    BY <2>1 DEF Cut, PipeEnd, EndSection
<1>3. items # << >>
  BY <1>0, <1>2 DEF PipeInv
<1>4. NextUsed(f) \in Nat
  <2>1. pipe'.offset = NextUsed(f)
    BY <1>2
  <2> QED
    BY <2>1 DEF PipeInv
<1>5. SectionOf(<< >>, NextUsed(f)) = new
  BY <1>4, SectionStarts
<1>6. new.queue = << >>
  BY DEF Start
<1>7. ASSUME NoFloat' PROVE SameSoFar(builder, pipe, SectionOf(pipe.section, pipe.offset))'
  <2>1. SameSoFar(b, pipe, s)
    BY <1>2, <1>7 DEF AgreeInv, NoFloat
  <2> HIDE DEF b, s, f, joined, new
  <2>2. /\ b \in Bare /\ s \in Bare /\ b.queue = << >> /\ Begun(b)
        /\ s.explicit = b.explicit /\ Alongside(b, pipe.pages, s)
    BY <1>1, <1>2, <1>3, <2>1 DEF SameSoFar, Bare
  <2>3. OnLastPage(b, joined, new) \/ BeforePage(b, joined, new)
    BY <1>1, <2>2, SectionOver DEF joined, new, f
  <2>4. /\ pipe'.pages = joined /\ pipe'.section = << >> /\ pipe'.offset = NextUsed(f) /\ builder' = b
        /\ SectionOf(pipe'.section, pipe'.offset) = new
    BY <1>2, <1>5 DEF b
  <2> QED
    BY <1>2, <1>3, <1>6, <2>2, <2>3, <2>4 DEF SameSoFar
<1> QED
  BY <1>7 DEF AgreeInv

(* The builder and the pipeline agree, in every document whose boxes have  *)
(* some height; behind a page that was ended by hand the pipeline would put a *)
(* heading of no height onto that page: the hypothesis excludes it.        *)
THEOREM AgreeInvariant ==
  ASSUME 0 \notin BoxHeights
  PROVE  PagesSpec => []AgreeInv
<1>1. AgreeInv /\ BuilderInv' /\ PipeInv' /\ [PagesNext]_pageVars => AgreeInv'
  <2> SUFFICES ASSUME AgreeInv, BuilderInv', PipeInv', [PagesNext]_pageVars PROVE AgreeInv'
    OBVIOUS
  <2>1. CASE PagesNext
    <3>1. CASE Cut
      BY <3>1, AgreeCuts
    <3>2. ASSUME NEW x \in ItemSet, Read(x), x.kind = "box" => x.h \in BoxHeights
          PROVE  AgreeInv'
      BY <3>2, AgreeReads
    <3>3. ItemsOK
      BY DEF AgreeInv, PipeInv
    <3> QED
      BY <2>1, <3>1, <3>2, <3>3, ItemsRead
  <2>2. CASE UNCHANGED pageVars
    <3>1. items' = items /\ builder' = builder /\ pipe' = pipe
      BY <2>2 DEF pageVars
    <3> QED
      BY <3>1 DEF AgreeInv, NoFloat, SameSoFar
  <2> QED
    BY <2>1, <2>2
<1> QED
  BY <1>1, AgreeInit, BuilderInvariant, PipeInvariant, PTL DEF PagesSpec

(* PipelineAgrees: paginating section by section gives the pages of the    *)
(* whole, for all heights and all ways to cut a document without floats    *)
(* and right-hand breaks, if every box has some height.                    *)
THEOREM SectionsMakeTheWhole ==
  ASSUME 0 \notin BoxHeights
  PROVE  PagesSpec => []PipelineAgrees
<1>1. AgreeInv => PipelineAgrees
  <2>1. SUFFICES ASSUME AgreeInv, Contents("float") \cup Contents("right") = {}, pipe.section = << >>
                 PROVE  pipe.pages = Pages
    BY DEF PipelineAgrees
  <2>2. NoFloat
    BY <2>1 DEF NoFloat, Contents
  <2>3. BuilderInv /\ PipeInv
    BY <2>1 DEF AgreeInv
  <2>4. CASE items = << >>
    BY <2>3, <2>4 DEF PipeInv, Pages
  <2>5. CASE items # << >>
    <3> DEFINE s == SectionOf(pipe.section, pipe.offset)
               b == builder
    <3>1. SameSoFar(b, pipe, s)
      BY <2>1, <2>2 DEF AgreeInv
    <3>2. b \in States /\ b.start = 0 /\ s \in States /\ pipe.offset \in Nat
      BY <2>3, AgreeParts
    <3>3. s.page = << >>
      BY <2>1, <3>2, SectionStarts
    <3> HIDE DEF b, s
    <3>4. /\ b \in Bare /\ s \in Bare /\ Begun(b)
          /\ OnLastPage(b, pipe.pages, s) \/ BeforePage(b, pipe.pages, s)
      BY <2>1, <2>5, <3>1, <3>2 DEF SameSoFar, Bare
    <3>5. Finish(b).pages = pipe.pages
      BY <3>2, <3>3, <3>4, DocumentOver
    <3> QED
      BY <2>5, <3>5 DEF Pages, b
  <2> QED
    BY <2>4, <2>5
<1> QED
  BY <1>1, AgreeInvariant, PTL

=============================================================================
