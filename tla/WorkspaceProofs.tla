--------------------------- MODULE WorkspaceProofs ---------------------------
(***************************************************************************)
(* Safety of the workspace, for all files, letters and sizes of the window *)
(* and all bounds on keys, characters and editors: what documents, views,  *)
(* panes and the tree are through every operation (WorkspaceIsOk), that a  *)
(* cursor follows its text through the edits of others (CursorsFollow),    *)
(* and that the windows are sound (WindowsSound): the panes tile the area, *)
(* a session restores what it was written from, and the cursor is drawn on *)
(* its character.                                                          *)
(*                                                                         *)
(* Sequences of letters come first, then edits and places, lines, views    *)
(* and documents, commands; then the tree and its rectangles; then the     *)
(* actions one by one; then sessions, drawing and the three theorems.      *)
(***************************************************************************)
EXTENDS Workspace, FiniteSetTheorems, SequenceTheorems, WellFoundedInduction, TLAPS

-----------------------------------------------------------------------------
(* Numbers.                                                                *)

\* A set of numbers has a least one.
LEMMA LeastIndex ==
  ASSUME NEW S \in SUBSET Nat, S # {}
  PROVE  \E i \in S : \A j \in S : i <= j
<1>1. PICK x \in S : \A y \in S : ~(<<y, x>> \in OpToRel(<, Nat))
  BY NatLessThanWellFounded, WFMin, Zenon
<1>2. ASSUME NEW y \in S
      PROVE  x <= y
  <2>1. ~(<<y, x>> \in OpToRel(<, Nat))
    BY <1>1
  <2>2. ~(y < x)
    <3>1. SUFFICES ASSUME y < x
                   PROVE  <<y, x>> \in OpToRel(<, Nat)
      BY <2>1
    <3> QED
      BY <3>1 DEF OpToRel
  <2> QED
    BY <2>2
<1> QED
  BY <1>2

\* A set of numbers up to n has a greatest one.
LEMMA GreatestIndex ==
  ASSUME NEW n \in Nat, NEW S \in SUBSET (0 .. n), S # {}
  PROVE  \E i \in S : \A j \in S : i >= j
<1> DEFINE T == {n - i : i \in S}
<1>1. T \in SUBSET Nat
  OBVIOUS
<1>a. T # {}
  OBVIOUS
<1>2. PICK t \in T : \A u \in T : t <= u
  BY <1>1, <1>a, LeastIndex
<1>3. PICK i \in S : t = n - i
  OBVIOUS
<1>4. ASSUME NEW j \in S
      PROVE  i >= j
  <2>1. n - j \in T /\ n - i <= n - j
    BY <1>2, <1>3
  <2> QED
    BY <2>1
<1> QED
  BY <1>4

\* A set of numbers with 0 that has the successor of each is all of them: induction, as
\* a statement about sets, which the provers can instantiate.
LEMMA Counting ==
  ASSUME NEW S, 0 \in S, \A n \in Nat : n \in S => n + 1 \in S
  PROVE  \A n \in Nat : n \in S
<1> SUFFICES ASSUME NEW m \in Nat, m \notin S
             PROVE  FALSE
  OBVIOUS
<1> DEFINE T == {n \in Nat : n \notin S}
<1>1. PICK n \in T : \A j \in T : n <= j
  BY LeastIndex
<1>2. n # 0 /\ n - 1 \in Nat
  BY <1>1
<1>3. n - 1 \in S
  BY <1>1, <1>2
<1>4. (n - 1) + 1 \in S
  BY <1>2, <1>3
<1> QED
  BY <1>1, <1>4

\* What Min gives is in the set and below the others.
LEMMA MinIs ==
  ASSUME NEW S \in SUBSET Nat, S # {}
  PROVE  Min(S) \in S /\ \A y \in S : Min(S) <= y
<1>1. \E x \in S : \A y \in S : x <= y
  BY LeastIndex
<1> QED
  BY <1>1, Zenon DEF Min

\* What Max gives is in the set, which must have a bound, and above the others.
LEMMA MaxIs ==
  ASSUME NEW n \in Nat, NEW S \in SUBSET (0 .. n), S # {}
  PROVE  Max(S) \in S /\ \A y \in S : Max(S) >= y
<1>1. \E x \in S : \A y \in S : x >= y
  BY GreatestIndex
<1> QED
  BY <1>1, Zenon DEF Max

\* The members of a sequence of numbers have a bound.
LEMMA SequencesAreBounded ==
  ASSUME NEW n \in Nat, NEW f \in [1 .. n -> Nat]
  PROVE  \E b \in Nat : \A i \in 1 .. n : f[i] <= b
<1> DEFINE S == {k \in Nat : \E b \in Nat : \A i \in 1 .. k : i <= n => f[i] <= b}
<1>1. 0 \in S
  OBVIOUS
<1>2. ASSUME NEW k \in Nat, k \in S
      PROVE  k + 1 \in S
  <2>1. PICK b \in Nat : \A i \in 1 .. k : i <= n => f[i] <= b
    BY <1>2
  <2>2. CASE k + 1 <= n
    <3>1. f[k + 1] \in Nat /\ Larger(b, f[k + 1]) \in Nat /\ b <= Larger(b, f[k + 1]) /\ f[k + 1] <= Larger(b, f[k + 1])
      BY <2>2 DEF Larger
    <3>2. ASSUME NEW i \in 1 .. k + 1, i <= n
          PROVE  f[i] <= Larger(b, f[k + 1])
      <4>1. f[i] \in Nat
        BY <3>2
      <4>2. CASE i = k + 1
        BY <3>1, <4>2
      <4>3. CASE i \in 1 .. k
        BY <2>1, <3>1, <3>2, <4>1, <4>3
      <4> QED
        BY <4>2, <4>3
    <3> QED
      BY <3>1, <3>2
  <2>3. CASE ~(k + 1 <= n)
    <3>1. ASSUME NEW i \in 1 .. k + 1, i <= n
          PROVE  f[i] <= b
      <4>1. i \in 1 .. k
        BY <2>3, <3>1
      <4> QED
        BY <2>1, <3>1, <4>1
    <3>2. k + 1 \in Nat
      OBVIOUS
    <3> QED
      BY <3>1, <3>2
  <2> QED
    BY <2>2, <2>3
<1>3. n \in S
  <2> HIDE DEF S
  <2>1. \A k \in Nat : k \in S
    BY <1>1, <1>2, Counting
  <2> QED
    BY <2>1
<1> QED
  BY <1>3

\* So have finite sets of numbers.
LEMMA FiniteSetsAreBounded ==
  ASSUME NEW S \in SUBSET Nat, IsFiniteSet(S)
  PROVE  \E b \in Nat : S \in SUBSET (0 .. b)
<1>1. PICK n \in Nat : ExistsBijection(1 .. n, S)
  BY FS_NatBijection
<1>2. PICK f \in Bijection(1 .. n, S) : TRUE
  BY <1>1 DEF ExistsBijection
<1>3. f \in [1 .. n -> S] /\ \A x \in S : \E i \in 1 .. n : f[i] = x
  BY <1>2 DEF Bijection, Surjection
<1>4. f \in [1 .. n -> Nat]
  BY <1>3
<1>5. PICK b \in Nat : \A i \in 1 .. n : f[i] <= b
  BY <1>4, SequencesAreBounded
<1>6. ASSUME NEW x \in S
      PROVE  x \in 0 .. b
  <2>1. PICK i \in 1 .. n : f[i] = x
    BY <1>3
  <2> QED
    BY <1>5, <2>1
<1> QED
  BY <1>6

-----------------------------------------------------------------------------
(* Characters and the bytes they begin at.                                 *)

\* Of the first i characters, those that are c.
CountOf(t, i, c) == Cardinality({j \in 1 .. i : t[j] = c})

\* The first i characters one by one.
LEMMA CountStep ==
  ASSUME NEW t, NEW c, NEW i \in Nat
  PROVE  /\ CountOf(t, 0, c) = 0 /\ CountOf(t, i, c) \in Nat
         /\ CountOf(t, i + 1, c) = CountOf(t, i, c) + (IF t[i + 1] = c THEN 1 ELSE 0)
<1> DEFINE A(n) == {j \in 1 .. n : t[j] = c}
<1>1. \A n \in Nat : IsFiniteSet(A(n))
  <2> SUFFICES ASSUME NEW n \in Nat
               PROVE  IsFiniteSet(A(n))
    OBVIOUS
  <2>1. IsFiniteSet(1 .. n) /\ A(n) \subseteq 1 .. n
    BY FS_Interval
  <2> QED
    BY <2>1, FS_Subset
<1>2. A(0) = {}
  OBVIOUS
<1>3. CountOf(t, 0, c) = 0
  BY <1>2, FS_EmptySet DEF CountOf
<1>4. CountOf(t, i, c) \in Nat
  BY <1>1, FS_CardinalityType DEF CountOf
<1>5. CASE t[i + 1] = c
  <2>1. A(i + 1) = A(i) \cup {i + 1}
    BY <1>5
  <2>2. i + 1 \notin A(i)
    OBVIOUS
  <2>3. Cardinality(A(i + 1)) = Cardinality(A(i)) + 1
    <3> HIDE DEF A
    <3> QED
      BY <1>1, <2>1, <2>2, FS_AddElement
  <2>4. CountOf(t, i + 1, c) = Cardinality(A(i + 1)) /\ CountOf(t, i, c) = Cardinality(A(i))
    BY DEF CountOf
  <2> QED
    BY <1>3, <1>4, <1>5, <2>3, <2>4
<1>6. CASE t[i + 1] # c
  <2>1. A(i + 1) = A(i)
    BY <1>6
  <2>2. CountOf(t, i + 1, c) = Cardinality(A(i + 1)) /\ CountOf(t, i, c) = Cardinality(A(i))
    BY DEF CountOf
  <2>3. CountOf(t, i + 1, c) = CountOf(t, i, c)
    <3> HIDE DEF A
    <3> QED
      BY <2>1, <2>2
  <2> QED
    BY <1>3, <1>4, <1>6, <2>3
<1> QED
  BY <1>5, <1>6

\* The same, as what the numbers count.
LEMMA BytesAreCounted ==
  ASSUME NEW t, NEW i
  PROVE  ByteOf(t, i) = i + 2 * CountOf(t, i, "w") /\ LineOf(t, i) = CountOf(t, i, NL)
  BY DEF ByteOf, LineOf, CountOf

\* Bytes character by character.
LEMMA ByteStep ==
  ASSUME NEW t, NEW i \in Nat
  PROVE  /\ ByteOf(t, 0) = 0 /\ ByteOf(t, i) \in Nat
         /\ ByteOf(t, i + 1) = ByteOf(t, i) + (IF t[i + 1] = "w" THEN 3 ELSE 1)
<1>1. /\ CountOf(t, 0, "w") = 0 /\ CountOf(t, i, "w") \in Nat
      /\ CountOf(t, i + 1, "w") = CountOf(t, i, "w") + (IF t[i + 1] = "w" THEN 1 ELSE 0)
  BY CountStep
<1>2. ByteOf(t, 0) = 0 + 2 * CountOf(t, 0, "w") /\ ByteOf(t, i) = i + 2 * CountOf(t, i, "w")
      /\ ByteOf(t, i + 1) = i + 1 + 2 * CountOf(t, i + 1, "w")
  BY BytesAreCounted
<1> QED
  BY <1>1, <1>2

\* Lines character by character.
LEMMA LineStep ==
  ASSUME NEW t, NEW i \in Nat
  PROVE  /\ LineOf(t, 0) = 0 /\ LineOf(t, i) \in Nat
         /\ LineOf(t, i + 1) = LineOf(t, i) + (IF t[i + 1] = NL THEN 1 ELSE 0)
  BY CountStep, BytesAreCounted

\* More characters have more bytes, and no fewer lines.
LEMMA BytesIncrease ==
  ASSUME NEW t
  PROVE  \A i, j \in Nat : i <= j => ByteOf(t, j) >= ByteOf(t, i) + (j - i) /\ LineOf(t, j) >= LineOf(t, i)
<1> SUFFICES ASSUME NEW i \in Nat, NEW j \in Nat, i <= j
             PROVE  ByteOf(t, j) >= ByteOf(t, i) + (j - i) /\ LineOf(t, j) >= LineOf(t, i)
  OBVIOUS
<1> DEFINE S == {k \in Nat : ByteOf(t, i + k) >= ByteOf(t, i) + k /\ LineOf(t, i + k) >= LineOf(t, i)}
<1>1. 0 \in S
  BY ByteStep, LineStep
<1>2. ASSUME NEW k \in Nat, k \in S
      PROVE  k + 1 \in S
  <2>1. i + k \in Nat /\ i + (k + 1) = (i + k) + 1
    OBVIOUS
  <2>2. ByteOf(t, i + k) \in Nat /\ ByteOf(t, (i + k) + 1) = ByteOf(t, i + k) + (IF t[(i + k) + 1] = "w" THEN 3 ELSE 1)
        /\ ByteOf(t, i) \in Nat
    BY <2>1, ByteStep
  <2>3. LineOf(t, i + k) \in Nat /\ LineOf(t, (i + k) + 1) = LineOf(t, i + k) + (IF t[(i + k) + 1] = NL THEN 1 ELSE 0)
        /\ LineOf(t, i) \in Nat
    BY <2>1, LineStep
  <2> QED
    BY <1>2, <2>1, <2>2, <2>3
<1>3. \A k \in Nat : k \in S
  <2> HIDE DEF S
  <2> QED
    BY <1>1, <1>2, Counting
<1>4. j - i \in Nat /\ i + (j - i) = j
  OBVIOUS
<1> QED
  BY <1>3, <1>4

\* Texts that agree have the same bytes and lines.
LEMMA SamePrefix ==
  ASSUME NEW t, NEW u, NEW i \in Nat, \A j \in 1 .. i : t[j] = u[j]
  PROVE  ByteOf(t, i) = ByteOf(u, i) /\ LineOf(t, i) = LineOf(u, i)
<1>1. \A c : {j \in 1 .. i : t[j] = c} = {j \in 1 .. i : u[j] = c}
  OBVIOUS
<1> QED
  BY <1>1 DEF ByteOf, LineOf

\* The n characters behind the first a of one text and the first b of another are the same.
Agree(t, a, u, b, n) == \A k \in 1 .. n : t[a + k] = u[b + k]

\* And so have parts that agree.
LEMMA SamePart ==
  ASSUME NEW t, NEW u, NEW a \in Nat, NEW b \in Nat, NEW n \in Nat, Agree(t, a, u, b, n)
  PROVE  ByteOf(t, a + n) - ByteOf(t, a) = ByteOf(u, b + n) - ByteOf(u, b)
<1> DEFINE S == {k \in Nat : k <= n => ByteOf(t, a + k) - ByteOf(t, a) = ByteOf(u, b + k) - ByteOf(u, b)}
<1>1. 0 \in S
  BY ByteStep
<1>2. ASSUME NEW k \in Nat, k \in S
      PROVE  k + 1 \in S
  <2>1. /\ a + k \in Nat /\ a + (k + 1) = (a + k) + 1
        /\ b + k \in Nat /\ b + (k + 1) = (b + k) + 1
    OBVIOUS
  <2>2. /\ ByteOf(t, a + k) \in Nat /\ ByteOf(t, a) \in Nat
        /\ ByteOf(t, (a + k) + 1) = ByteOf(t, a + k) + (IF t[(a + k) + 1] = "w" THEN 3 ELSE 1)
    BY <2>1, ByteStep
  <2>3. /\ ByteOf(u, b + k) \in Nat /\ ByteOf(u, b) \in Nat
        /\ ByteOf(u, (b + k) + 1) = ByteOf(u, b + k) + (IF u[(b + k) + 1] = "w" THEN 3 ELSE 1)
    BY <2>1, ByteStep
  <2>4. CASE k + 1 <= n
    <3>1. t[(a + k) + 1] = u[(b + k) + 1]
      <4>1. k + 1 \in 1 .. n
        BY <2>4
      <4>2. t[a + (k + 1)] = u[b + (k + 1)]
        BY <4>1 DEF Agree
      <4> QED
        BY <2>1, <4>2
    <3>2. ByteOf(t, a + k) - ByteOf(t, a) = ByteOf(u, b + k) - ByteOf(u, b)
      BY <1>2, <2>4
    <3>3. ByteOf(t, a + (k + 1)) - ByteOf(t, a) = ByteOf(u, b + (k + 1)) - ByteOf(u, b)
      BY <2>1, <2>2, <2>3, <3>1, <3>2
    <3> QED
      BY <3>3
  <2> QED
    BY <2>4
<1>3. \A k \in Nat : k \in S
  <2> HIDE DEF S
  <2> QED
    BY <1>1, <1>2, Counting
<1> QED
  BY <1>3

\* The whole text.
LEMMA BytesOfAll ==
  ASSUME NEW S, NEW t \in Seq(S)
  PROVE  Bytes(t) = ByteOf(t, Len(t)) /\ Bytes(t) \in Nat /\ Len(t) \in Nat
<1>1. DOMAIN t = 1 .. Len(t) /\ Len(t) \in Nat
  BY LenProperties
<1> QED
  BY <1>1, ByteStep DEF Bytes, ByteOf

-----------------------------------------------------------------------------

\* The character offset n of the place at or before byte b.
IsCharOf(t, b, n) ==
  /\ n \in 0 .. Len(t) /\ ByteOf(t, n) <= b
  /\ \A i \in 0 .. Len(t) : ByteOf(t, i) <= b => i <= n

\* CharOf finds it.
LEMMA CharOfIs ==
  ASSUME NEW S, NEW t \in Seq(S), NEW b \in Nat
  PROVE  IsCharOf(t, b, CharOf(t, b)) /\ CharOf(t, b) \in Nat
<1> DEFINE P == {i \in 0 .. Len(t) : ByteOf(t, i) <= b}
<1>1. Len(t) \in Nat
  BY LenProperties
<1>2. 0 \in P
  BY <1>1, ByteStep
<1>3. P \in SUBSET (0 .. Len(t)) /\ P # {}
  BY <1>2
<1>4. Max(P) \in P /\ \A y \in P : Max(P) >= y
  <2> HIDE DEF P
  <2> QED
    BY <1>1, <1>3, MaxIs
<1>5. CharOf(t, b) = Max(P)
  BY DEF CharOf
<1> HIDE <1>5
<1>6. \A m : m \in P /\ (\A y \in P : m >= y) => IsCharOf(t, b, m) /\ m \in Nat
  BY <1>1 DEF IsCharOf
<1> QED
  <2> HIDE DEF P
  <2> QED
    BY <1>4, <1>5, <1>6

\* There is one.
LEMMA CharOfUnique ==
  ASSUME NEW S, NEW t \in Seq(S), NEW b \in Nat, NEW n, IsCharOf(t, b, n)
  PROVE  CharOf(t, b) = n
<1>1. Len(t) \in Nat
  BY LenProperties
<1>2. IsCharOf(t, b, CharOf(t, b))
  BY CharOfIs
<1>3. \A m \in 0 .. Len(t) : IsCharOf(t, b, m) => m = n
  BY <1>1 DEF IsCharOf
<1> QED
  BY <1>2, <1>3 DEF IsCharOf

\* The bytes between two characters.
LEMMA CharBetween ==
  ASSUME NEW S, NEW t \in Seq(S), NEW b \in Nat, NEW n \in 0 .. Len(t),
         ByteOf(t, n) <= b, n = Len(t) \/ b < ByteOf(t, n + 1)
  PROVE  CharOf(t, b) = n
<1>1. Len(t) \in Nat
  BY LenProperties
<1>2. ASSUME NEW i \in 0 .. Len(t), ByteOf(t, i) <= b, i > n
      PROVE  FALSE
  <2>1. i \in Nat /\ n + 1 \in Nat /\ n + 1 <= i /\ n # Len(t)
    BY <1>1, <1>2
  <2>2. ByteOf(t, i) >= ByteOf(t, n + 1) + (i - (n + 1))
    BY <2>1, BytesIncrease
  <2>3. ByteOf(t, i) \in Nat /\ ByteOf(t, n + 1) \in Nat
    BY <2>1, ByteStep
  <2> QED
    BY <1>2, <2>1, <2>2, <2>3
<1>3. \A i \in 0 .. Len(t) : ByteOf(t, i) <= b => i <= n
  BY <1>1, <1>2
<1>4. IsCharOf(t, b, n)
  BY <1>3 DEF IsCharOf
<1> QED
  BY <1>4, CharOfUnique

\* The byte at which a character ends names it.
LEMMA CharOfByte ==
  ASSUME NEW S, NEW t \in Seq(S), NEW n \in 0 .. Len(t)
  PROVE  CharOf(t, ByteOf(t, n)) = n /\ FloorBoundary(t, ByteOf(t, n)) = ByteOf(t, n)
<1>1. Len(t) \in Nat /\ n \in Nat
  BY LenProperties
<1>2. ByteOf(t, n) \in Nat /\ (ByteOf(t, n + 1) = ByteOf(t, n) + (IF t[n + 1] = "w" THEN 3 ELSE 1))
  BY <1>1, ByteStep
<1>3. ByteOf(t, n) < ByteOf(t, n + 1)
  BY <1>2
<1>4. CharOf(t, ByteOf(t, n)) = n
  BY <1>2, <1>3, CharBetween
<1> QED
  BY <1>4 DEF FloorBoundary

\* Where a byte is between characters.
LEMMA FloorIs ==
  ASSUME NEW S, NEW t \in Seq(S), NEW b \in Nat
  PROVE  /\ FloorBoundary(t, b) \in Nat /\ FloorBoundary(t, b) <= b /\ FloorBoundary(t, b) \in Boundaries(t)
         /\ FloorBoundary(t, b) = ByteOf(t, CharOf(t, b)) /\ CharOf(t, b) \in 0 .. Len(t) /\ CharOf(t, b) \in Nat
         /\ FloorBoundary(t, FloorBoundary(t, b)) = FloorBoundary(t, b)
         /\ CharOf(t, FloorBoundary(t, b)) = CharOf(t, b)
<1>1. CharOf(t, b) \in 0 .. Len(t) /\ ByteOf(t, CharOf(t, b)) <= b /\ CharOf(t, b) \in Nat
  BY CharOfIs DEF IsCharOf
<1>2. FloorBoundary(t, b) = ByteOf(t, CharOf(t, b))
  BY DEF FloorBoundary
<1>3. ByteOf(t, CharOf(t, b)) \in Nat
  BY <1>1, ByteStep
<1>4. ByteOf(t, CharOf(t, b)) \in Boundaries(t)
  BY <1>1 DEF Boundaries
<1>5. CharOf(t, ByteOf(t, CharOf(t, b))) = CharOf(t, b) /\ FloorBoundary(t, ByteOf(t, CharOf(t, b))) = ByteOf(t, CharOf(t, b))
  BY <1>1, CharOfByte
<1> QED
  BY <1>1, <1>2, <1>3, <1>4, <1>5

-----------------------------------------------------------------------------
(* A text in which a part is replaced.                                     *)

\* The n characters behind the first a.
Cut(t, a, n) == SubSeq(t, a + 1, a + n)

\* A part that two texts have in common.
IsPiece(S, t, a, u, b, n) ==
  /\ t \in Seq(S) /\ u \in Seq(S) /\ a \in Nat /\ b \in Nat /\ n \in Nat
  /\ a + n <= Len(t) /\ b + n <= Len(u) /\ Agree(t, a, u, b, n)

\* Cut out of either, it is the same.
LEMMA SamePiece ==
  ASSUME NEW S, NEW t, NEW u, NEW a, NEW b, NEW n, IsPiece(S, t, a, u, b, n)
  PROVE  Cut(t, a, n) = Cut(u, b, n)
<1>0. /\ t \in Seq(S) /\ u \in Seq(S) /\ a \in Nat /\ b \in Nat /\ n \in Nat
      /\ a + n <= Len(t) /\ b + n <= Len(u) /\ Agree(t, a, u, b, n)
  BY DEF IsPiece
<1> DEFINE p == SubSeq(t, a + 1, a + n)
<1> DEFINE q == SubSeq(u, b + 1, b + n)
<1>1. Len(t) \in Nat /\ Len(u) \in Nat /\ DOMAIN t = 1 .. Len(t) /\ DOMAIN u = 1 .. Len(u)
  BY <1>0, LenProperties
<1>2. \A i \in a + 1 .. a + n : t[i] \in S
  <2>1. \A i \in a + 1 .. a + n : i \in 1 .. Len(t)
    BY <1>0, <1>1
  <2> QED
    BY <1>0, <2>1, ElementOfSeq
<1>3. \A i \in b + 1 .. b + n : u[i] \in S
  <2>1. \A i \in b + 1 .. b + n : i \in 1 .. Len(u)
    BY <1>0, <1>1
  <2> QED
    BY <1>0, <2>1, ElementOfSeq
<1>4. /\ p \in Seq(S) /\ Len(p) = (IF a + 1 <= a + n THEN a + n - (a + 1) + 1 ELSE 0)
      /\ \A i \in 1 .. a + n - (a + 1) + 1 : p[i] = t[a + 1 + i - 1]
  BY <1>0, <1>1, <1>2, SubSeqProperties
<1>5. /\ q \in Seq(S) /\ Len(q) = (IF b + 1 <= b + n THEN b + n - (b + 1) + 1 ELSE 0)
      /\ \A i \in 1 .. b + n - (b + 1) + 1 : q[i] = u[b + 1 + i - 1]
  BY <1>0, <1>1, <1>3, SubSeqProperties
<1> HIDE DEF p, q
<1>6. Len(p) = n /\ Len(q) = n
  <2>1. Len(p) = (IF a + 1 <= a + n THEN a + n - (a + 1) + 1 ELSE 0)
    BY <1>4
  <2>2. Len(q) = (IF b + 1 <= b + n THEN b + n - (b + 1) + 1 ELSE 0)
    BY <1>5
  <2>3. (IF a + 1 <= a + n THEN a + n - (a + 1) + 1 ELSE 0) = n /\ (IF b + 1 <= b + n THEN b + n - (b + 1) + 1 ELSE 0) = n
    BY <1>0
  <2> QED
    BY <2>1, <2>2, <2>3
<1>7. ASSUME NEW i \in 1 .. n
      PROVE  p[i] = q[i]
  <2>1. p[i] = t[a + 1 + i - 1]
    <3>1. i \in 1 .. a + n - (a + 1) + 1
      BY <1>0
    <3> QED
      BY <1>4, <3>1
  <2>2. q[i] = u[b + 1 + i - 1]
    <3>1. i \in 1 .. b + n - (b + 1) + 1
      BY <1>0
    <3> QED
      BY <1>5, <3>1
  <2>3. a + 1 + i - 1 = a + i /\ b + 1 + i - 1 = b + i
    BY <1>0
  <2>4. t[a + i] = u[b + i]
    BY <1>0 DEF Agree
  <2> QED
    BY <2>1, <2>2, <2>3, <2>4
<1>8. p = q
  BY <1>0, <1>4, <1>5, <1>6, <1>7, SeqEqual
<1>9. Cut(t, a, n) = p /\ Cut(u, b, n) = q
  BY DEF Cut, p, q
<1> QED
  BY <1>8, <1>9

\* What Splice puts together, character by character.
IsSpliced(u, S, t, i, j, new) ==
  /\ u \in Seq(S) /\ Len(u) = i + Len(new) + (Len(t) - j)
  /\ \A k \in 1 .. i : u[k] = t[k]
  /\ \A k \in 1 .. Len(new) : u[i + k] = new[k]
  /\ \A k \in 1 .. Len(t) - j : u[(i + Len(new)) + k] = t[j + k]

\* Splicing gives the characters before, the new ones, and those after.
LEMMA SpliceIs ==
  ASSUME NEW S, NEW t \in Seq(S), NEW new \in Seq(S), NEW i \in 0 .. Len(t), NEW j \in 0 .. Len(t), i <= j
  PROVE  IsSpliced(Splice(t, ByteOf(t, i), ByteOf(t, j), new), S, t, i, j, new)
<1>1. Len(t) \in Nat /\ DOMAIN t = 1 .. Len(t) /\ Len(new) \in Nat
  BY LenProperties
<1> DEFINE p == SubSeq(t, 1, i)
<1> DEFINE q == SubSeq(t, j + 1, Len(t))
<1>2. Splice(t, ByteOf(t, i), ByteOf(t, j), new) = p \o new \o q
  BY CharOfByte DEF Splice
<1>3. /\ p \in Seq(S) /\ Len(p) = (IF 1 <= i THEN i - 1 + 1 ELSE 0)
      /\ \A k \in 1 .. i - 1 + 1 : p[k] = t[1 + k - 1]
  <2>1. \A k \in 1 .. i : t[k] \in S
    BY <1>1, ElementOfSeq
  <2> QED
    BY <1>1, <2>1, SubSeqProperties
<1>4. /\ q \in Seq(S) /\ Len(q) = (IF j + 1 <= Len(t) THEN Len(t) - (j + 1) + 1 ELSE 0)
      /\ \A k \in 1 .. Len(t) - (j + 1) + 1 : q[k] = t[j + 1 + k - 1]
  <2>1. \A k \in j + 1 .. Len(t) : t[k] \in S
    BY <1>1, ElementOfSeq
  <2> QED
    BY <1>1, <2>1, SubSeqProperties
<1> HIDE DEF p, q
<1>5. Len(p) = i /\ Len(q) = Len(t) - j
  <2>1. i \in Nat /\ j \in Nat /\ j <= Len(t)
    BY <1>1
  <2>2. Len(p) = i
    BY <1>1, <1>3, <2>1
  <2>3. Len(q) = (IF j + 1 <= Len(t) THEN Len(t) - (j + 1) + 1 ELSE 0)
    BY <1>4
  <2>4. Len(q) = Len(t) - j
    <3>1. PICK m \in Nat : m = Len(t)
      BY <1>1
    <3>2. PICK n \in Nat : n = j
      BY <2>1
    <3>3. (IF n + 1 <= m THEN m - (n + 1) + 1 ELSE 0) = m - n
      BY <2>1, <3>1, <3>2
    <3> QED
      BY <2>3, <3>1, <3>2, <3>3
  <2> QED
    BY <2>2, <2>4
<1>6. \A k \in 1 .. i : p[k] = t[k]
  <2>1. \A k \in 1 .. i : k \in 1 .. i - 1 + 1 /\ 1 + k - 1 = k
    BY <1>1
  <2> QED
    BY <1>3, <2>1
<1>7. \A k \in 1 .. Len(t) - j : q[k] = t[j + k]
  <2>1. \A k \in 1 .. Len(t) - j : k \in 1 .. Len(t) - (j + 1) + 1 /\ j + 1 + k - 1 = j + k
    BY <1>1
  <2> QED
    BY <1>4, <2>1
<1>8. /\ p \o new \in Seq(S) /\ Len(p \o new) = Len(p) + Len(new)
      /\ \A k \in 1 .. Len(p) + Len(new) : (p \o new)[k] = IF k <= Len(p) THEN p[k] ELSE new[k - Len(p)]
  BY <1>3, ConcatProperties
<1> DEFINE r == p \o new
<1>8a. /\ r \in Seq(S) /\ Len(r) = i + Len(new)
       /\ \A k \in 1 .. i + Len(new) : r[k] = IF k <= i THEN p[k] ELSE new[k - i]
  BY <1>5, <1>8
<1>8b. Splice(t, ByteOf(t, i), ByteOf(t, j), new) = r \o q
  BY <1>2
<1> HIDE DEF r
<1>9. /\ r \o q \in Seq(S) /\ Len(r \o q) = Len(r) + Len(q)
      /\ \A k \in 1 .. Len(r) + Len(q) : (r \o q)[k] = IF k <= Len(r) THEN r[k] ELSE q[k - Len(r)]
  BY <1>4, <1>8a, ConcatProperties
<1> DEFINE u == r \o q
<1>10. Len(r) = i + Len(new) /\ Len(u) = i + Len(new) + (Len(t) - j) /\ u \in Seq(S)
  BY <1>5, <1>8a, <1>9
<1>11. /\ \A k \in 1 .. i + Len(new) : r[k] = IF k <= i THEN p[k] ELSE new[k - i]
       /\ \A k \in 1 .. i + Len(new) + (Len(t) - j) : u[k] = IF k <= i + Len(new) THEN r[k] ELSE q[k - (i + Len(new))]
  BY <1>5, <1>8a, <1>9, <1>10
<1> HIDE DEF u
<1>12. ASSUME NEW k \in 1 .. i
       PROVE  u[k] = t[k]
  <2>1. k \in 1 .. i + Len(new) /\ k \in 1 .. i + Len(new) + (Len(t) - j) /\ k <= i /\ k <= i + Len(new)
    BY <1>1
  <2>2. u[k] = r[k] /\ r[k] = p[k]
    BY <1>11, <2>1
  <2> QED
    BY <1>6, <2>2
<1>13. ASSUME NEW k \in 1 .. Len(new)
       PROVE  u[i + k] = new[k]
  <2>1. i + k \in 1 .. i + Len(new) /\ i + k \in 1 .. i + Len(new) + (Len(t) - j) /\ ~(i + k <= i) /\ i + k <= i + Len(new)
        /\ (i + k) - i = k
    BY <1>1
  <2>2. u[i + k] = r[i + k] /\ r[i + k] = new[(i + k) - i]
    BY <1>11, <2>1
  <2> QED
    BY <2>1, <2>2
<1>14. ASSUME NEW k \in 1 .. Len(t) - j
       PROVE  u[(i + Len(new)) + k] = t[j + k]
  <2>1. (i + Len(new)) + k \in 1 .. i + Len(new) + (Len(t) - j) /\ ~((i + Len(new)) + k <= i + Len(new))
        /\ ((i + Len(new)) + k) - (i + Len(new)) = k
    BY <1>1
  <2>2. u[(i + Len(new)) + k] = q[((i + Len(new)) + k) - (i + Len(new))]
    BY <1>11, <2>1
  <2>3. u[(i + Len(new)) + k] = q[k]
    BY <2>1, <2>2
  <2> QED
    BY <1>7, <2>3
<1>15. Splice(t, ByteOf(t, i), ByteOf(t, j), new) = u
  BY <1>8b DEF u
<1> QED
  BY <1>10, <1>12, <1>13, <1>14, <1>15 DEF IsSpliced

\* Where the bytes are afterwards.
BytesSpliced(u, t, i, j, new) ==
  /\ \A k \in 0 .. i : ByteOf(u, k) = ByteOf(t, k)
  /\ ByteOf(u, i + Len(new)) = ByteOf(t, i) + Bytes(new)
  /\ \A k \in 0 .. Len(t) - j : ByteOf(u, (i + Len(new)) + k) = ByteOf(t, i) + Bytes(new) + (ByteOf(t, j + k) - ByteOf(t, j))

\* Where the places of a spliced text are.
LEMMA SpliceBytes ==
  ASSUME NEW S, NEW t \in Seq(S), NEW new \in Seq(S), NEW i \in 0 .. Len(t), NEW j \in 0 .. Len(t), i <= j,
         NEW u, IsSpliced(u, S, t, i, j, new)
  PROVE  BytesSpliced(u, t, i, j, new)
<1>1. Len(t) \in Nat /\ Len(new) \in Nat /\ i \in Nat /\ j \in Nat
  BY LenProperties
<1>2. ASSUME NEW k \in 0 .. i
      PROVE  ByteOf(u, k) = ByteOf(t, k)
  <2>1. k \in Nat /\ \A m \in 1 .. k : m \in 1 .. i
    BY <1>1
  <2>2. \A m \in 1 .. k : u[m] = t[m]
    BY <2>1 DEF IsSpliced
  <2> QED
    BY <2>1, <2>2, SamePrefix
<1>3. ByteOf(u, i + Len(new)) - ByteOf(u, i) = ByteOf(new, 0 + Len(new)) - ByteOf(new, 0)
  <2>1. PICK n \in Nat : n = Len(new)
    BY <1>1
  <2>2. \A k \in 1 .. n : u[i + k] = new[0 + k]
    <3>1. \A k \in 1 .. n : 0 + k = k
      BY <2>1
    <3>2. \A k \in 1 .. n : u[i + k] = new[k]
      BY <2>1 DEF IsSpliced
    <3> QED
      BY <3>1, <3>2
  <2>3. 0 \in Nat /\ Agree(u, i, new, 0, n)
    BY <2>2 DEF Agree
  <2>4. ByteOf(u, i + n) - ByteOf(u, i) = ByteOf(new, 0 + n) - ByteOf(new, 0)
    BY <1>1, <2>1, <2>2, <2>3, SamePart
  <2> QED
    BY <2>1, <2>4
<1>4. ByteOf(new, 0 + Len(new)) = Bytes(new) /\ ByteOf(new, 0) = 0 /\ Bytes(new) \in Nat
  <2>1. 0 + Len(new) = Len(new)
    BY <1>1
  <2> QED
    BY <1>1, <2>1, BytesOfAll, ByteStep
<1>5. ByteOf(u, i + Len(new)) = ByteOf(t, i) + Bytes(new)
  <2>1. ByteOf(u, i) = ByteOf(t, i)
    <3>1. i \in 0 .. i
      BY <1>1
    <3> QED
      BY <1>2, <3>1
  <2>2. ByteOf(u, i) \in Nat /\ ByteOf(u, i + Len(new)) \in Nat
    <3>1. i + Len(new) \in Nat
      BY <1>1
    <3> QED
      BY <1>1, <3>1, ByteStep
  <2> QED
    BY <1>3, <1>4, <2>1, <2>2
<1>6. ASSUME NEW k \in 0 .. Len(t) - j
      PROVE  ByteOf(u, (i + Len(new)) + k) = ByteOf(t, i) + Bytes(new) + (ByteOf(t, j + k) - ByteOf(t, j))
  <2>1. k \in Nat /\ (\A m \in 1 .. k : m \in 1 .. Len(t) - j) /\ i + Len(new) \in Nat
    BY <1>1
  <2>2. \A m \in 1 .. k : u[(i + Len(new)) + m] = t[j + m]
    BY <2>1 DEF IsSpliced
  <2>3. ByteOf(u, (i + Len(new)) + k) - ByteOf(u, i + Len(new)) = ByteOf(t, j + k) - ByteOf(t, j)
    <3>1. PICK a \in Nat : a = i + Len(new)
      BY <2>1
    <3>2. Agree(u, a, t, j, k)
      BY <2>2, <3>1 DEF Agree
    <3>3. ByteOf(u, a + k) - ByteOf(u, a) = ByteOf(t, j + k) - ByteOf(t, j)
      BY <1>1, <2>1, <3>2, SamePart
    <3> QED
      BY <3>1, <3>3
  <2>4. ByteOf(u, (i + Len(new)) + k) \in Nat /\ ByteOf(u, i + Len(new)) \in Nat /\ ByteOf(t, j + k) \in Nat /\ ByteOf(t, j) \in Nat
        /\ ByteOf(t, i) \in Nat
    <3>1. (i + Len(new)) + k \in Nat /\ j + k \in Nat
      BY <1>1, <2>1
    <3> QED
      BY <1>1, <2>1, <3>1, ByteStep
  <2> QED
    BY <1>4, <1>5, <2>3, <2>4
<1> QED
  BY <1>2, <1>5, <1>6 DEF BytesSpliced

\* Slices between characters.
LEMMA SliceIs ==
  ASSUME NEW S, NEW t \in Seq(S), NEW i \in 0 .. Len(t), NEW n \in Nat, i + n <= Len(t)
  PROVE  Slice(t, ByteOf(t, i), ByteOf(t, i + n)) = Cut(t, i, n)
<1>1. Len(t) \in Nat
  BY LenProperties
<1>2. i + n \in 0 .. Len(t)
  BY <1>1
<1>3. CharOf(t, ByteOf(t, i)) = i /\ CharOf(t, ByteOf(t, i + n)) = i + n
  BY <1>2, CharOfByte
<1> QED
  BY <1>3 DEF Slice, Cut

-----------------------------------------------------------------------------
(* Edits, and where they leave the places of a text.                       *)

\* Where a place c of a text goes when the text becomes another in which an edit ends at
\* end: what followed it still follows, or what preceded it still precedes.
Follows(t, u, c, cc, end) ==
  IF Bytes(t) - c <= Bytes(u) - end THEN Slice(t, c, Bytes(t)) = Slice(u, cc, Bytes(u))
  ELSE cc = end \/ Slice(t, 0, c) = Slice(u, 0, cc)

\* What is said about a text t with the characters from i to j replaced.
IsEdited(u, S, t, i, j, new) ==
  /\ IsSpliced(u, S, t, i, j, new) /\ BytesSpliced(u, t, i, j, new)
  /\ u \in Seq(S) /\ Len(u) \in Nat /\ Len(t) \in Nat /\ Len(new) \in Nat /\ Bytes(new) \in Nat
  /\ Len(u) = i + Len(new) + (Len(t) - j)
  /\ Bytes(t) = ByteOf(t, Len(t)) /\ Bytes(u) = ByteOf(u, Len(u))
  /\ Bytes(u) = ByteOf(t, i) + Bytes(new) + (Bytes(t) - ByteOf(t, j))

\* A replacement between two places of a text is an edit of it.
LEMMA EditedIs ==
  ASSUME NEW S, NEW t \in Seq(S), NEW new \in Seq(S), NEW i \in 0 .. Len(t), NEW j \in 0 .. Len(t), i <= j
  PROVE  IsEdited(Splice(t, ByteOf(t, i), ByteOf(t, j), new), S, t, i, j, new)
<1> DEFINE u == Splice(t, ByteOf(t, i), ByteOf(t, j), new)
<1>1. IsSpliced(u, S, t, i, j, new)
  BY SpliceIs
<1> HIDE DEF u
<1>2. u \in Seq(S) /\ Len(u) = i + Len(new) + (Len(t) - j)
  BY <1>1 DEF IsSpliced
<1>3. BytesSpliced(u, t, i, j, new)
  BY <1>1, SpliceBytes
<1>4. Len(u) \in Nat /\ Len(t) \in Nat /\ Len(new) \in Nat /\ Bytes(new) \in Nat
      /\ Bytes(t) = ByteOf(t, Len(t)) /\ Bytes(u) = ByteOf(u, Len(u))
  BY <1>2, BytesOfAll
<1>5. Len(t) - j \in 0 .. Len(t) - j /\ j + (Len(t) - j) = Len(t) /\ (i + Len(new)) + (Len(t) - j) = Len(u)
  BY <1>2, <1>4
<1>6. ByteOf(u, (i + Len(new)) + (Len(t) - j)) = ByteOf(t, i) + Bytes(new) + (ByteOf(t, j + (Len(t) - j)) - ByteOf(t, j))
  BY <1>3, <1>5 DEF BytesSpliced
<1>7. Bytes(u) = ByteOf(t, i) + Bytes(new) + (Bytes(t) - ByteOf(t, j))
  BY <1>4, <1>5, <1>6
<1>8. IsEdited(u, S, t, i, j, new)
  BY <1>1, <1>2, <1>3, <1>4, <1>7 DEF IsEdited
<1> QED
  BY <1>8 DEF u

\* Slices from a place to the end, and from the start.
LEMMA SlicesAt ==
  ASSUME NEW S, NEW t \in Seq(S), NEW n \in 0 .. Len(t), NEW z \in Nat, z = Len(t) - n
  PROVE  /\ Slice(t, ByteOf(t, n), Bytes(t)) = Cut(t, n, z)
         /\ Slice(t, 0, ByteOf(t, n)) = Cut(t, 0, n)
<1>1. Len(t) \in Nat /\ Bytes(t) = ByteOf(t, Len(t))
  BY BytesOfAll
<1>2. ByteOf(t, 0) = 0
  BY ByteStep
<1>3. n \in Nat /\ 0 \in 0 .. Len(t) /\ 0 + n = n /\ 0 + n <= Len(t) /\ n + z = Len(t) /\ n + z <= Len(t)
  BY <1>1
<1>4. Slice(t, ByteOf(t, n), ByteOf(t, n + z)) = Cut(t, n, z)
  BY <1>3, SliceIs
<1>5. Slice(t, ByteOf(t, 0), ByteOf(t, 0 + n)) = Cut(t, 0, n)
  <2>1. PICK o \in 0 .. Len(t) : o = 0
    BY <1>3
  <2>2. o + n <= Len(t)
    BY <1>3, <2>1
  <2>3. Slice(t, ByteOf(t, o), ByteOf(t, o + n)) = Cut(t, o, n)
    BY <1>3, <2>2, SliceIs
  <2> QED
    BY <2>1, <2>3
<1> QED
  BY <1>1, <1>2, <1>3, <1>4, <1>5

\* What follows a place of one text is what follows one of another.
SameEnd(t, a, u, b) == Slice(t, ByteOf(t, a), Bytes(t)) = Slice(u, ByteOf(u, b), Bytes(u))

\* A text after place j, and the edited one behind the new text.
LEMMA SuffixStays ==
  ASSUME NEW S, NEW t \in Seq(S), NEW new \in Seq(S), NEW i \in 0 .. Len(t), NEW j \in 0 .. Len(t), i <= j,
         NEW u, IsEdited(u, S, t, i, j, new), NEW n \in 0 .. Len(t) - j
  PROVE  SameEnd(t, j + n, u, (i + Len(new)) + n)
<1>1. u \in Seq(S) /\ Len(u) \in Nat /\ Len(t) \in Nat /\ Len(new) \in Nat /\ Len(u) = i + Len(new) + (Len(t) - j)
  BY DEF IsEdited
<1>2. PICK a \in Nat : a = j + n
  BY <1>1
<1>3. PICK b \in Nat : b = (i + Len(new)) + n
  BY <1>1
<1>4. PICK z \in Nat : z = Len(t) - (j + n)
  <2>1. j \in Nat /\ n \in Nat /\ n <= Len(t) - j
    BY <1>1
  <2>2. j + n <= Len(t) /\ Len(t) - (j + n) \in Nat
    BY <1>1, <2>1
  <2> QED
    BY <2>2
<1>5. a \in 0 .. Len(t) /\ b \in 0 .. Len(u) /\ a + z = Len(t) /\ b + z = Len(u) /\ a + z <= Len(t) /\ b + z <= Len(u)
  BY <1>1, <1>2, <1>3, <1>4
<1>6. ASSUME NEW k \in 1 .. z
      PROVE  t[a + k] = u[b + k]
  <2>1. n + k \in 1 .. Len(t) - j /\ (i + Len(new)) + (n + k) = b + k /\ j + (n + k) = a + k
    BY <1>1, <1>2, <1>3, <1>4
  <2>2. u[(i + Len(new)) + (n + k)] = t[j + (n + k)]
    BY <2>1 DEF IsEdited, IsSpliced
  <2> QED
    BY <2>1, <2>2
<1>7. Agree(t, a, u, b, z)
  BY <1>6 DEF Agree
<1>8. Cut(t, a, z) = Cut(u, b, z)
  <2>1. IsPiece(S, t, a, u, b, z)
    BY <1>1, <1>5, <1>7 DEF IsPiece
  <2> QED
    BY <2>1, SamePiece
<1>9. Slice(t, ByteOf(t, a), Bytes(t)) = Cut(t, a, z) /\ Slice(u, ByteOf(u, b), Bytes(u)) = Cut(u, b, z)
  <2>1. z = Len(t) - a /\ z = Len(u) - b
    BY <1>1, <1>5
  <2> QED
    BY <1>1, <1>5, <2>1, SlicesAt
<1> QED
  BY <1>2, <1>3, <1>5, <1>8, <1>9 DEF SameEnd

\* A text before place i, and the edited one before it.
LEMMA PrefixStays ==
  ASSUME NEW S, NEW t \in Seq(S), NEW new \in Seq(S), NEW i \in 0 .. Len(t), NEW j \in 0 .. Len(t), i <= j,
         NEW u, IsEdited(u, S, t, i, j, new), NEW n \in 0 .. i
  PROVE  ByteOf(u, n) = ByteOf(t, n) /\ Slice(t, 0, ByteOf(t, n)) = Slice(u, 0, ByteOf(u, n))
<1>1. u \in Seq(S) /\ Len(u) \in Nat /\ Len(t) \in Nat /\ Len(new) \in Nat /\ Len(u) = i + Len(new) + (Len(t) - j)
  BY DEF IsEdited
<1>2. n \in Nat /\ n \in 0 .. Len(t) /\ n \in 0 .. Len(u) /\ 0 \in Nat /\ 0 + n = n /\ 0 + 1 = 1 /\ 0 + n <= Len(t) /\ 0 + n <= Len(u)
  BY <1>1
<1>3. ASSUME NEW k \in 1 .. n
      PROVE  t[0 + k] = u[0 + k]
  <2>1. k \in 1 .. i /\ 0 + k = k
    BY <1>1
  <2> QED
    BY <2>1 DEF IsEdited, IsSpliced
<1>4. Agree(t, 0, u, 0, n)
  BY <1>3 DEF Agree
<1>5. Cut(t, 0, n) = Cut(u, 0, n)
  <2>1. IsPiece(S, t, 0, u, 0, n)
    BY <1>1, <1>2, <1>4 DEF IsPiece
  <2> QED
    BY <2>1, SamePiece
<1>6. Slice(t, 0, ByteOf(t, n)) = Cut(t, 0, n) /\ Slice(u, 0, ByteOf(u, n)) = Cut(u, 0, n)
  <2>0. Len(t) - n \in Nat /\ Len(u) - n \in Nat
    BY <1>1, <1>2
  <2>1. PICK y \in Nat : y = Len(t) - n
    BY <2>0
  <2>2. PICK z \in Nat : z = Len(u) - n
    BY <2>0
  <2> QED
    BY <1>1, <1>2, <2>1, <2>2, SlicesAt
<1>7. ByteOf(u, n) = ByteOf(t, n)
  BY DEF IsEdited, BytesSpliced
<1> QED
  BY <1>2, <1>5, <1>6, <1>7

\* A place that a view keeps, inside a text or behind its end, follows an edit of it.
LEMMA PlaceFollows ==
  ASSUME NEW S, NEW t \in Seq(S), NEW new \in Seq(S), NEW i \in 0 .. Len(t), NEW j \in 0 .. Len(t), i <= j,
         NEW r \in Nat, NEW u, u = Splice(t, ByteOf(t, i), ByteOf(t, j), new),
         NEW rr, rr = Rebase(r, "right", Edit(ByteOf(t, i), ByteOf(t, j) - ByteOf(t, i), Bytes(new)))
  PROVE  rr \in Nat /\ Follows(t, u, FloorBoundary(t, r), FloorBoundary(u, rr), ByteOf(t, i) + Bytes(new))
<1> DEFINE lo == ByteOf(t, i)
<1> DEFINE hi == ByteOf(t, j)
<1> DEFINE size == Bytes(new)
<1> DEFINE n == CharOf(t, r)
<1>1. IsEdited(u, S, t, i, j, new)
  BY EditedIs
<1>2. /\ u \in Seq(S) /\ Len(u) \in Nat /\ Len(t) \in Nat /\ Len(new) \in Nat /\ size \in Nat
      /\ Len(u) = i + Len(new) + (Len(t) - j) /\ Bytes(t) = ByteOf(t, Len(t)) /\ Bytes(u) = lo + size + (Bytes(t) - hi)
  BY <1>1 DEF IsEdited
<1>3. i \in Nat /\ j \in Nat /\ lo \in Nat /\ hi \in Nat /\ lo <= hi /\ Bytes(t) \in Nat /\ hi <= Bytes(t)
  <2>1. i \in Nat /\ j \in Nat /\ j <= Len(t)
    BY <1>2
  <2>2. lo \in Nat /\ hi \in Nat /\ ByteOf(t, Len(t)) \in Nat
    BY <1>2, <2>1, ByteStep
  <2>3. hi >= lo + (j - i) /\ ByteOf(t, Len(t)) >= hi + (Len(t) - j)
    BY <1>2, <2>1, BytesIncrease
  <2>4. lo <= hi
    BY <2>1, <2>2, <2>3
  <2>5. hi <= Bytes(t) /\ Bytes(t) \in Nat
    <3>1. PICK x : x = ByteOf(t, Len(t))
      OBVIOUS
    <3>2. PICK y \in Nat : y = Len(t)
      BY <1>2
    <3>3. hi <= x /\ x \in Nat
      BY <2>1, <2>2, <2>3, <3>1, <3>2
    <3> QED
      BY <1>2, <3>1, <3>3
  <2> QED
    BY <2>1, <2>2, <2>4, <2>5
<1>4. /\ n \in 0 .. Len(t) /\ n \in Nat /\ ByteOf(t, n) <= r /\ (\A k \in 0 .. Len(t) : ByteOf(t, k) <= r => k <= n)
      /\ FloorBoundary(t, r) = ByteOf(t, n) /\ ByteOf(t, n) \in Nat
  <2>1. IsCharOf(t, r, n) /\ n \in Nat
    BY CharOfIs
  <2> QED
    BY <2>1, ByteStep DEF IsCharOf, FloorBoundary
<1>5. rr = IF r < lo THEN r ELSE IF r > lo + (hi - lo) THEN r - (hi - lo) + size ELSE lo + size
  BY DEF Rebase, Edit
<1> HIDE DEF n
<1>9. PICK a, b, p, l, h, g : /\ a = Bytes(t) /\ b = Bytes(u) /\ p = ByteOf(t, n) /\ l = lo /\ h = hi /\ g = size
                             /\ a \in Nat /\ p \in Nat /\ l \in Nat /\ h \in Nat /\ g \in Nat
  BY <1>2, <1>3, <1>4
<1>10. /\ b = l + g + (a - h) /\ l <= h /\ h <= a /\ p <= r
       /\ rr = IF r < l THEN r ELSE IF r > l + (h - l) THEN r - (h - l) + g ELSE l + g
       /\ a \in Nat /\ p \in Nat /\ l \in Nat /\ h \in Nat /\ g \in Nat
  BY <1>2, <1>3, <1>4, <1>5, <1>9
<1>6. CASE r < lo
  <2>1. rr = r /\ ~(Bytes(t) - ByteOf(t, n) <= Bytes(u) - (lo + size))
    <3>1. r < l
      BY <1>6, <1>9
    <3>2. rr = r /\ ~(a - p <= b - (l + g))
      BY <1>10, <3>1
    <3> QED
      BY <1>9, <3>2
  <2>2. n < i
    <3>1. SUFFICES ASSUME n >= i PROVE FALSE
      BY <1>3, <1>4
    <3>2. ByteOf(t, n) >= ByteOf(t, i) + (n - i)
      BY <1>3, <1>4, <3>1, BytesIncrease
    <3> QED
      BY <1>3, <1>4, <1>6, <3>1, <3>2
  <2>3. n \in 0 .. i /\ n + 1 \in 0 .. i /\ n \in 0 .. Len(u) /\ n + 1 \in 0 .. Len(t)
    BY <1>2, <1>3, <1>4, <2>2
  <2>4. ByteOf(u, n) = ByteOf(t, n) /\ ByteOf(u, n + 1) = ByteOf(t, n + 1) /\ Slice(t, 0, ByteOf(t, n)) = Slice(u, 0, ByteOf(u, n))
    BY <1>1, <2>3, PrefixStays
  <2>5. r < ByteOf(u, n + 1)
    <3>1. n + 1 \in Nat /\ ~(n + 1 <= n)
      BY <1>4
    <3>2. ByteOf(t, n + 1) \in Nat /\ ~(ByteOf(t, n + 1) <= r)
      BY <1>4, <2>3, <3>1, ByteStep
    <3> QED
      BY <2>4, <3>2
  <2>6. ByteOf(u, n) <= r
    BY <1>4, <2>4
  <2>7. CharOf(u, r) = n
    BY <1>2, <2>3, <2>5, <2>6, CharBetween
  <2>8. FloorBoundary(u, rr) = ByteOf(u, n)
    BY <2>1, <2>7 DEF FloorBoundary
  <2> QED
    BY <1>4, <2>1, <2>4, <2>8 DEF Follows
<1>7. CASE r > hi
  <2>1. rr = r - (hi - lo) + size /\ rr \in Nat
    <3>1. r > h
      BY <1>7, <1>9
    <3>2. rr = r - (h - l) + g /\ rr \in Nat
      BY <1>10, <3>1
    <3> QED
      BY <1>9, <3>2
  <2>2. n >= j
    <3>1. j \in 0 .. Len(t) /\ ByteOf(t, j) <= r
      BY <1>3, <1>7
    <3> QED
      BY <1>4, <3>1
  <2>3. ByteOf(t, n) >= hi
    <3>1. ByteOf(t, n) >= ByteOf(t, j) + (n - j)
      BY <1>3, <1>4, <2>2, BytesIncrease
    <3> QED
      BY <1>3, <1>4, <2>2, <3>1
  <2>4. PICK x \in Nat : x = n - j
    BY <1>3, <1>4, <2>2
  <2>5. PICK m \in Nat : m = (i + Len(new)) + x
    BY <1>2, <1>3, <2>4
  <2>6. j + x = n /\ x \in 0 .. Len(t) - j /\ m \in 0 .. Len(u)
    BY <1>2, <1>3, <1>4, <2>4, <2>5
  <2>7. ByteOf(u, m) = lo + size + (ByteOf(t, n) - hi)
    BY <1>1, <2>5, <2>6 DEF IsEdited, BytesSpliced
  <2>8. ByteOf(u, m) <= rr
    <3>1. PICK y \in Nat : y = ByteOf(t, n)
      BY <1>4
    <3>2. PICK s \in Nat : s = size
      BY <1>2
    <3>3. y <= r /\ ByteOf(u, m) = lo + s + (y - hi) /\ rr = r - (hi - lo) + s
      BY <1>4, <2>1, <2>7, <3>1, <3>2
    <3> QED
      BY <1>3, <3>3
  <2>9. m = Len(u) \/ rr < ByteOf(u, m + 1)
    <3>1. CASE n = Len(t)
      BY <1>2, <1>3, <2>4, <2>5, <3>1
    <3>2. CASE n # Len(t)
      <4>1. x + 1 \in 0 .. Len(t) - j /\ (i + Len(new)) + (x + 1) = m + 1 /\ j + (x + 1) = n + 1 /\ n + 1 \in 0 .. Len(t) /\ n + 1 \in Nat
            /\ ~(n + 1 <= n)
        BY <1>2, <1>3, <1>4, <2>4, <2>5, <3>2
      <4>2. ByteOf(u, (i + Len(new)) + (x + 1)) = lo + size + (ByteOf(t, j + (x + 1)) - hi)
        BY <1>1, <4>1 DEF IsEdited, BytesSpliced
      <4>3. ByteOf(t, n + 1) \in Nat /\ ~(ByteOf(t, n + 1) <= r)
        BY <1>4, <4>1, ByteStep
      <4>4. PICK y \in Nat : y = ByteOf(t, n + 1)
        BY <4>3
      <4>5. PICK s \in Nat : s = size
        BY <1>2
      <4>6. ~(y <= r) /\ ByteOf(u, m + 1) = lo + s + (y - hi) /\ rr = r - (hi - lo) + s
        BY <2>1, <4>1, <4>2, <4>3, <4>4, <4>5
      <4>7. rr < ByteOf(u, m + 1)
        BY <1>3, <4>6
      <4> QED
        BY <4>7
    <3> QED
      BY <3>1, <3>2
  <2>10. CharOf(u, rr) = m
    BY <1>2, <2>1, <2>6, <2>8, <2>9, CharBetween
  <2>11. FloorBoundary(u, rr) = ByteOf(u, m)
    BY <2>10 DEF FloorBoundary
  <2>12. SameEnd(t, j + x, u, (i + Len(new)) + x)
    BY <1>1, <2>6, SuffixStays
  <2>13. Slice(t, ByteOf(t, n), Bytes(t)) = Slice(u, ByteOf(u, m), Bytes(u))
    BY <2>5, <2>6, <2>12 DEF SameEnd
  <2>14. Bytes(t) - ByteOf(t, n) <= Bytes(u) - (lo + size)
    <3>1. p >= h
      BY <1>9, <2>3
    <3>2. a - p <= b - (l + g)
      BY <1>10, <3>1
    <3> QED
      BY <1>9, <3>2
  <2> QED
    BY <1>4, <2>1, <2>11, <2>13, <2>14 DEF Follows
<1>8. CASE ~(r < lo) /\ ~(r > hi)
  <2>1. rr = lo + size /\ rr \in Nat
    <3>1. ~(r < l) /\ ~(r > h)
      BY <1>8, <1>9
    <3>2. rr = l + g /\ rr \in Nat
      BY <1>10, <3>1
    <3> QED
      BY <1>9, <3>2
  <2>2. PICK m \in Nat : m = i + Len(new)
    BY <1>2, <1>3
  <2>3. m \in 0 .. Len(u)
    BY <1>2, <1>3, <2>2
  <2>4. ByteOf(u, m) = lo + size
    BY <1>1, <2>2 DEF IsEdited, BytesSpliced
  <2>5. FloorBoundary(u, rr) = lo + size
    BY <1>2, <2>1, <2>3, <2>4, CharOfByte
  <2>6. ASSUME Bytes(t) - ByteOf(t, n) <= Bytes(u) - (lo + size)
        PROVE  Slice(t, ByteOf(t, n), Bytes(t)) = Slice(u, lo + size, Bytes(u))
    <3>1. ByteOf(t, n) = hi
      <4>1. ~(r > h) /\ a - p <= b - (l + g)
        BY <1>8, <1>9, <2>6
      <4>2. p = h
        BY <1>10, <4>1
      <4> QED
        BY <1>9, <4>2
    <3>2. 0 \in 0 .. Len(t) - j /\ j + 0 = j /\ (i + Len(new)) + 0 = m
      BY <1>2, <1>3, <2>2
    <3>3. Slice(t, ByteOf(t, j + 0), Bytes(t)) = Slice(u, ByteOf(u, (i + Len(new)) + 0), Bytes(u))
      <4>1. PICK z \in 0 .. Len(t) - j : z = 0
        BY <3>2
      <4>2. SameEnd(t, j + z, u, (i + Len(new)) + z)
        BY <1>1, <4>1, SuffixStays
      <4> QED
        BY <4>1, <4>2 DEF SameEnd
    <3> QED
      BY <2>4, <3>1, <3>2, <3>3
  <2> QED
    BY <1>4, <2>1, <2>5, <2>6 DEF Follows
<1> QED
  BY <1>3, <1>6, <1>7, <1>8

-----------------------------------------------------------------------------
(* Lines.                                                                  *)

\* Some place has each number of lines before it that the whole text has.
LEMMA EveryLineStarts ==
  ASSUME NEW t, NEW n \in Nat
  PROVE  \A row \in 0 .. LineOf(t, n) : \E i \in 0 .. n : LineOf(t, i) = row
<1> DEFINE S == {m \in Nat : \A row \in 0 .. LineOf(t, m) : \E i \in 0 .. m : LineOf(t, i) = row}
<1>1. 0 \in S
  BY LineStep
<1>2. ASSUME NEW m \in Nat, m \in S
      PROVE  m + 1 \in S
  <2>1. LineOf(t, m) \in Nat /\ LineOf(t, m + 1) = LineOf(t, m) + (IF t[m + 1] = NL THEN 1 ELSE 0)
    BY LineStep
  <2>2. ASSUME NEW row \in 0 .. LineOf(t, m + 1)
        PROVE  \E i \in 0 .. m + 1 : LineOf(t, i) = row
    <3>1. CASE row = LineOf(t, m + 1)
      BY <3>1
    <3>2. CASE row # LineOf(t, m + 1)
      <4>1. row \in 0 .. LineOf(t, m)
        BY <2>1, <3>2
      <4>2. PICK i \in 0 .. m : LineOf(t, i) = row
        BY <1>2, <4>1
      <4> QED
        BY <4>2
    <3> QED
      BY <3>1, <3>2
  <2> QED
    BY <2>2
<1>3. \A m \in Nat : m \in S
  <2> HIDE DEF S
  <2> QED
    BY <1>1, <1>2, Counting
<1> QED
  BY <1>3

\* The start s of a line: the first place with so many lines before it.
IsLineStart(t, row, s) ==
  /\ s \in 0 .. Len(t) /\ s \in Nat /\ LineOf(t, s) = row
  /\ \A i \in 0 .. Len(t) : LineOf(t, i) = row => s <= i

\* Lines start where LineStarts says.
LEMMA LineStartsAre ==
  ASSUME NEW S, NEW t \in Seq(S)
  PROVE  /\ Len(t) \in Nat /\ LineOf(t, Len(t)) \in Nat /\ Len(LineStarts(t)) = LineOf(t, Len(t)) + 1
         /\ \A row \in 0 .. LineOf(t, Len(t)) : IsLineStart(t, row, LineStarts(t)[row + 1])
<1>1. Len(t) \in Nat
  BY LenProperties
<1>2. LineOf(t, Len(t)) \in Nat
  BY <1>1, LineStep
<1> DEFINE P(row) == {i \in 0 .. Len(t) : LineOf(t, i) = row}
<1> DEFINE f == [row \in 1 .. LineOf(t, Len(t)) + 1 |-> Min(P(row - 1))]
<1>3. LineStarts(t) = f
  BY DEF LineStarts
<1>4. ASSUME NEW row \in 0 .. LineOf(t, Len(t))
      PROVE  IsLineStart(t, row, LineStarts(t)[row + 1])
  <2>1. PICK i \in 0 .. Len(t) : LineOf(t, i) = row
    BY <1>1, EveryLineStarts
  <2>2. P(row) # {} /\ P(row) \in SUBSET Nat
    BY <1>1, <2>1
  <2>3. LineStarts(t)[row + 1] = Min(P(row))
    <3>1. row + 1 \in 1 .. LineOf(t, Len(t)) + 1 /\ (row + 1) - 1 = row
      BY <1>2
    <3>2. f[row + 1] = Min(P((row + 1) - 1))
      BY <3>1
    <3> QED
      BY <1>3, <3>1, <3>2
  <2>4. Min(P(row)) \in P(row) /\ \A y \in P(row) : Min(P(row)) <= y
    <3> HIDE DEF P
    <3> QED
      BY <2>2, MinIs
  <2>5. \A m : m \in P(row) /\ (\A y \in P(row) : m <= y) => IsLineStart(t, row, m)
    BY <1>1 DEF IsLineStart
  <2> HIDE DEF P
  <2> QED
    BY <2>3, <2>4, <2>5
<1>5. Len(f) = LineOf(t, Len(t)) + 1
  <2>1. DOMAIN f = 1 .. LineOf(t, Len(t)) + 1 /\ LineOf(t, Len(t)) + 1 \in Nat
    BY <1>2
  <2> HIDE DEF f
  <2> QED
    BY <1>3, <2>1 DEF LineStarts
<1> QED
  BY <1>1, <1>2, <1>3, <1>4, <1>5

\* The end e of the line that starts at s.
IsLineEnd(t, s, e) ==
  /\ e \in s .. Len(t) /\ e \in Nat
  /\ e = Len(t) \/ t[e + 1] = NL

\* Lines end where LineEnd says.
LEMMA LineEndIs ==
  ASSUME NEW S, NEW t \in Seq(S), NEW s \in 0 .. Len(t)
  PROVE  IsLineEnd(t, s, LineEnd(t, s))
<1> DEFINE P == {i - 1 : i \in {j \in s + 1 .. Len(t) : t[j] = NL}} \cup {Len(t)}
<1>1. Len(t) \in Nat /\ s \in Nat
  BY LenProperties
<1>2. P \in SUBSET Nat /\ P # {}
  BY <1>1
<1>3. LineEnd(t, s) = Min(P)
  BY DEF LineEnd
<1>4. \A m : m \in P => IsLineEnd(t, s, m)
  <2>1. ASSUME NEW j \in s + 1 .. Len(t), t[j] = NL
        PROVE  IsLineEnd(t, s, j - 1)
    <3>1. j - 1 \in s .. Len(t) /\ j - 1 \in Nat /\ (j - 1) + 1 = j
      BY <1>1
    <3> QED
      BY <2>1, <3>1 DEF IsLineEnd
  <2>2. IsLineEnd(t, s, Len(t))
    BY <1>1 DEF IsLineEnd
  <2> QED
    BY <2>1, <2>2
<1>5. Min(P) \in P
  <2> HIDE DEF P
  <2> QED
    BY <1>2, MinIs
<1> HIDE DEF P
<1> QED
  BY <1>3, <1>4, <1>5

\* The place n is in the line that its line number names.
LEMMA PlaceInItsLine ==
  ASSUME NEW S, NEW t \in Seq(S), NEW n \in 0 .. Len(t), NEW s, IsLineStart(t, LineOf(t, n), s)
  PROVE  s <= n /\ n <= LineEnd(t, s) /\ LineOf(t, n) \in 0 .. LineOf(t, Len(t))
<1>1. Len(t) \in Nat /\ n \in Nat /\ s \in Nat /\ s \in 0 .. Len(t) /\ LineOf(t, s) = LineOf(t, n) /\ s <= n
  BY LenProperties DEF IsLineStart
<1>2. IsLineEnd(t, s, LineEnd(t, s))
  BY <1>1, LineEndIs
<1>3. PICK e : e = LineEnd(t, s)
  OBVIOUS
<1>4. e \in s .. Len(t) /\ e \in Nat /\ (e = Len(t) \/ t[e + 1] = NL)
  BY <1>2, <1>3 DEF IsLineEnd
<1>5. n <= e
  <2>1. SUFFICES ASSUME ~(n <= e) PROVE FALSE
    OBVIOUS
  <2>2. t[e + 1] = NL /\ e + 1 <= n /\ e + 1 \in Nat /\ s <= e
    BY <1>1, <1>4, <2>1
  <2>3. LineOf(t, e) \in Nat /\ LineOf(t, e + 1) = LineOf(t, e) + 1 /\ LineOf(t, n) \in Nat
    BY <1>1, <1>4, <2>2, LineStep
  <2>4. LineOf(t, e) >= LineOf(t, s) /\ LineOf(t, n) >= LineOf(t, e + 1)
    BY <1>1, <1>4, <2>2, BytesIncrease
  <2> QED
    BY <1>1, <2>3, <2>4
<1>6. LineOf(t, n) \in Nat /\ LineOf(t, Len(t)) \in Nat /\ LineOf(t, Len(t)) >= LineOf(t, n)
  <2>1. n <= Len(t)
    BY <1>1
  <2> QED
    BY <1>1, <2>1, LineStep, BytesIncrease
<1> QED
  BY <1>1, <1>3, <1>5, <1>6

-----------------------------------------------------------------------------
(* Views of a document, and the edits of their cursor.                     *)

\* The records of documents with glyphs of S and paths of P, and of views.
EditRecords == [start : Nat, oldLen : Nat, newLen : Nat]
LastEdits == {<<>>} \cup {<<e>> : e \in EditRecords}
ViewRecords == [cursor : Nat, anchor : Nat \cup {Off}, goal : Nat \cup {Off}, lastEdit : LastEdits]
DocsOf(S, P) ==
  [path : P, text : Seq(S), past : Seq(Seq(S)), future : Seq(Seq(S)), dirty : BOOLEAN, rev : Nat]

\* A byte between two characters.
IsPlace(t, b) == \E n \in 0 .. Len(t) : b = ByteOf(t, n)

\* What an edit of a document leads to.
Edited(S, d, s) ==
  \E i \in 0 .. Len(d.text), j \in 0 .. Len(d.text), new \in Seq(S) :
     i <= j /\ s = ApplyEdit(d, NewView, ByteOf(d.text, i), ByteOf(d.text, j), new)

\* What any operation on a view leads to: the past of the document grows by an edit only,
\* or by the redo of the text that was undone last.
LeadsTo(S, P, d, s) ==
  /\ s.doc \in DocsOf(S, P) /\ s.view \in ViewRecords /\ s.doc.path = d.path
  /\ s.doc.past = d.past \/ Edited(S, d, s) \/ Len(s.doc.past) = Len(d.past) - 1
     \/ (d.future # <<>> /\ s.doc.text = Last(d.future))

\* Places are numbers, and floors of places.
LEMMA PlaceIs ==
  ASSUME NEW S, NEW t \in Seq(S), NEW b, IsPlace(t, b)
  PROVE  b \in Nat /\ FloorBoundary(t, b) = b
<1>1. PICK n \in 0 .. Len(t) : b = ByteOf(t, n)
  BY DEF IsPlace
<1>2. n \in Nat
  BY LenProperties
<1> QED
  BY <1>1, <1>2, ByteStep, CharOfByte

\* What FloorBoundary, PrevBoundary and NextBoundary give is a place; and so are the ends of
\* the text.
LEMMA PlacesAre ==
  ASSUME NEW S, NEW t \in Seq(S), NEW b \in Nat
  PROVE  /\ IsPlace(t, FloorBoundary(t, b)) /\ IsPlace(t, PrevBoundary(t, b)) /\ IsPlace(t, NextBoundary(t, b))
         /\ IsPlace(t, 0) /\ IsPlace(t, Bytes(t))
         /\ PrevBoundary(t, b) <= FloorBoundary(t, b) /\ FloorBoundary(t, b) <= NextBoundary(t, b)
<1>1. Len(t) \in Nat
  BY LenProperties
<1>2. PICK n \in Nat : n = CharOf(t, b) /\ n \in 0 .. Len(t) /\ FloorBoundary(t, b) = ByteOf(t, n)
  BY FloorIs
<1>3. PICK p \in Nat : p = Larger(n - 1, 0) /\ p \in 0 .. Len(t) /\ p <= n
  BY <1>1, <1>2 DEF Larger
<1>4. PICK q \in Nat : q = Smaller(n + 1, Len(t)) /\ q \in 0 .. Len(t) /\ n <= q
  BY <1>1, <1>2 DEF Smaller
<1>5. PrevBoundary(t, b) = ByteOf(t, p) /\ NextBoundary(t, b) = ByteOf(t, q)
  BY <1>2, <1>3, <1>4 DEF PrevBoundary, NextBoundary
<1>6. ByteOf(t, n) >= ByteOf(t, p) + (n - p) /\ ByteOf(t, q) >= ByteOf(t, n) + (q - n)
  BY <1>2, <1>3, <1>4, BytesIncrease
<1>7. ByteOf(t, n) \in Nat /\ ByteOf(t, p) \in Nat /\ ByteOf(t, q) \in Nat
  BY <1>2, <1>3, <1>4, ByteStep
<1>8. ByteOf(t, p) <= ByteOf(t, n) /\ ByteOf(t, n) <= ByteOf(t, q)
  <2>1. PICK x \in Nat, y \in Nat, z \in Nat : x = ByteOf(t, p) /\ y = ByteOf(t, n) /\ z = ByteOf(t, q)
    BY <1>7
  <2>2. y >= x + (n - p) /\ z >= y + (q - n)
    BY <1>6, <2>1
  <2>3. x <= y /\ y <= z
    <3>1. p <= n /\ n <= q
      BY <1>3, <1>4
    <3> QED
      BY <2>2, <3>1
  <2> QED
    BY <2>1, <2>3
<1>9. IsPlace(t, ByteOf(t, n)) /\ IsPlace(t, ByteOf(t, p)) /\ IsPlace(t, ByteOf(t, q))
  BY <1>2, <1>3, <1>4 DEF IsPlace
<1>10. IsPlace(t, 0)
  <2>1. 0 \in 0 .. Len(t) /\ ByteOf(t, 0) = 0
    BY <1>1, ByteStep
  <2> QED
    BY <2>1 DEF IsPlace
<1>11. IsPlace(t, Bytes(t))
  <2>1. Len(t) \in 0 .. Len(t) /\ ByteOf(t, Len(t)) = Bytes(t)
    BY <1>1, BytesOfAll
  <2> QED
    BY <2>1 DEF IsPlace
<1> QED
  BY <1>2, <1>5, <1>8, <1>9, <1>10, <1>11

\* Where lines start and end are places.
LEMMA LinePlaces ==
  ASSUME NEW S, NEW t \in Seq(S), NEW row \in 0 .. LineOf(t, Len(t)), NEW s, s = LineStarts(t)[row + 1]
  PROVE  /\ s \in Nat /\ s \in 0 .. Len(t) /\ LineEnd(t, s) \in Nat /\ LineEnd(t, s) \in 0 .. Len(t) /\ s <= LineEnd(t, s)
         /\ IsPlace(t, ByteOf(t, s)) /\ IsPlace(t, ByteOf(t, LineEnd(t, s)))
<1>1. IsLineStart(t, row, s) /\ Len(t) \in Nat
  BY LineStartsAre
<1>2. s \in 0 .. Len(t) /\ s \in Nat
  BY <1>1 DEF IsLineStart
<1>3. IsLineEnd(t, s, LineEnd(t, s))
  BY <1>2, LineEndIs
<1>4. PICK e : e = LineEnd(t, s)
  OBVIOUS
<1>5. e \in Nat /\ e \in 0 .. Len(t) /\ s <= e
  BY <1>1, <1>2, <1>3, <1>4 DEF IsLineEnd
<1> QED
  BY <1>2, <1>4, <1>5 DEF IsPlace

\* What is known of a view that is brought into the text.
IsClamped(t, c) ==
  /\ c \in ViewRecords /\ IsPlace(t, c.cursor) /\ (c.anchor = Off \/ IsPlace(t, c.anchor))

\* Clamping a view puts its cursor on the place at or before it.
LEMMA ClampIs ==
  ASSUME NEW S, NEW P, NEW d \in DocsOf(S, P), NEW v \in ViewRecords
  PROVE  IsClamped(d.text, Clamp(d, v)) /\ Clamp(d, v).cursor = FloorBoundary(d.text, v.cursor)
         /\ Clamp(d, v).lastEdit = v.lastEdit /\ d.text \in Seq(S)
<1>1. d.text \in Seq(S)
  BY DEF DocsOf
<1>2. v.cursor \in Nat /\ v.anchor \in Nat \cup {Off}
  BY DEF ViewRecords
<1>3. IsPlace(d.text, FloorBoundary(d.text, v.cursor)) /\ FloorBoundary(d.text, v.cursor) \in Nat
  BY <1>1, <1>2, PlacesAre, PlaceIs
<1>4. v.anchor # Off => IsPlace(d.text, FloorBoundary(d.text, v.anchor)) /\ FloorBoundary(d.text, v.anchor) \in Nat
  BY <1>1, <1>2, PlacesAre, PlaceIs
<1>5. Clamp(d, v) = [v EXCEPT !.cursor = FloorBoundary(d.text, v.cursor),
                              !.anchor = IF v.anchor = Off THEN Off ELSE FloorBoundary(d.text, v.anchor)]
  BY DEF Clamp
<1> QED
  BY <1>1, <1>2, <1>3, <1>4, <1>5 DEF IsClamped, ViewRecords

\* An edit at places.
LEMMA ApplyIsEdit ==
  ASSUME NEW S, NEW P, NEW d \in DocsOf(S, P), NEW v, NEW lo, NEW hi, NEW new \in Seq(S),
         IsPlace(d.text, lo), IsPlace(d.text, hi), lo <= hi
  PROVE  Edited(S, d, ApplyEdit(d, v, lo, hi, new))
<1>1. PICK i \in 0 .. Len(d.text) : lo = ByteOf(d.text, i)
  BY DEF IsPlace
<1>2. PICK j \in 0 .. Len(d.text) : hi = ByteOf(d.text, j)
  BY DEF IsPlace
<1>3. d.text \in Seq(S)
  BY DEF DocsOf
<1>4. i \in Nat /\ j \in Nat
  BY <1>3, LenProperties
<1>5. i <= j
  <2>1. SUFFICES ASSUME ~(i <= j) PROVE FALSE
    OBVIOUS
  <2>2. ByteOf(d.text, i) >= ByteOf(d.text, j) + (i - j) /\ ByteOf(d.text, i) \in Nat /\ ByteOf(d.text, j) \in Nat
    BY <1>4, <2>1, BytesIncrease, ByteStep
  <2> QED
    BY <1>1, <1>2, <1>4, <2>1, <2>2
<1>6. ApplyEdit(d, v, lo, hi, new) = ApplyEdit(d, NewView, ByteOf(d.text, i), ByteOf(d.text, j), new)
  BY <1>1, <1>2 DEF ApplyEdit
<1> QED
  BY <1>5, <1>6 DEF Edited

\* A document with another text and history.
Rewritten(d, u, past, future, n) ==
  [d EXCEPT !.text = u, !.past = past, !.future = future, !.dirty = TRUE, !.rev = n]

\* A document with another text and history is a document.
LEMMA RewrittenIs ==
  ASSUME NEW S, NEW P, NEW d \in DocsOf(S, P), NEW u \in Seq(S), NEW past \in Seq(Seq(S)), NEW future \in Seq(Seq(S)),
         NEW n \in Nat
  PROVE  /\ Rewritten(d, u, past, future, n) \in DocsOf(S, P) /\ Rewritten(d, u, past, future, n).path = d.path
         /\ Rewritten(d, u, past, future, n).text = u /\ Rewritten(d, u, past, future, n).past = past
  BY DEF DocsOf, Rewritten

\* What an edit from lo to hi leads to, that makes of the text u.
EditState(d, u, lo, hi, size) ==
  State([d EXCEPT !.text = u, !.past = Append(@, d.text), !.future = <<>>, !.dirty = TRUE, !.rev = @ + 1],
        [cursor |-> lo + size, anchor |-> Off, goal |-> Off, lastEdit |-> <<Edit(lo, hi - lo, size)>>])

IsEditState(s, S, P, d, u, lo, hi, size) ==
  /\ s.doc \in DocsOf(S, P) /\ s.doc.path = d.path /\ s.doc.text = u /\ s.view \in ViewRecords
  /\ s.view.lastEdit = <<Edit(lo, hi - lo, size)>> /\ s.view.cursor = lo + size

\* What an edit leads to is a document and a view in it.
LEMMA EditStateIs ==
  ASSUME NEW S, NEW P, NEW d \in DocsOf(S, P), NEW u \in Seq(S), NEW lo \in Nat, NEW hi \in Nat, lo <= hi, NEW size \in Nat
  PROVE  IsEditState(EditState(d, u, lo, hi, size), S, P, d, u, lo, hi, size)
<1>1. d.text \in Seq(S) /\ d.past \in Seq(Seq(S)) /\ d.rev \in Nat
  BY DEF DocsOf
<1>2. PICK h \in Seq(Seq(S)) : h = Append(d.past, d.text)
  BY <1>1, AppendProperties
<1>3. PICK f \in Seq(Seq(S)) : f = <<>>
  BY EmptySeq
<1>4. PICK n \in Nat : n = d.rev + 1
  BY <1>1
<1> DEFINE v == [cursor |-> lo + size, anchor |-> Off, goal |-> Off, lastEdit |-> <<Edit(lo, hi - lo, size)>>]
<1>5. EditState(d, u, lo, hi, size).doc = Rewritten(d, u, h, f, n) /\ EditState(d, u, lo, hi, size).view = v
  BY <1>2, <1>3, <1>4 DEF EditState, State, Rewritten
<1>6. Rewritten(d, u, h, f, n) \in DocsOf(S, P) /\ Rewritten(d, u, h, f, n).path = d.path /\ Rewritten(d, u, h, f, n).text = u
  BY RewrittenIs
<1>7. hi - lo \in Nat
  OBVIOUS
<1>8. Edit(lo, hi - lo, size) \in EditRecords
  BY <1>7 DEF Edit, EditRecords
<1>9. v \in ViewRecords /\ v.lastEdit = <<Edit(lo, hi - lo, size)>> /\ v.cursor = lo + size
  BY <1>8 DEF ViewRecords, LastEdits
<1> HIDE DEF v
<1> QED
  BY <1>5, <1>6, <1>9 DEF IsEditState

\* What an edit leads to is a document and a view.
LEMMA EditedIsTyped ==
  ASSUME NEW S, NEW P, NEW d \in DocsOf(S, P), NEW s, Edited(S, d, s)
  PROVE  LeadsTo(S, P, d, s)
<1>1. PICK i \in 0 .. Len(d.text), j \in 0 .. Len(d.text), new \in Seq(S) :
         i <= j /\ s = ApplyEdit(d, NewView, ByteOf(d.text, i), ByteOf(d.text, j), new)
  BY DEF Edited
<1>2. d.text \in Seq(S)
  BY DEF DocsOf
<1>3. PICK u \in Seq(S) : u = Splice(d.text, ByteOf(d.text, i), ByteOf(d.text, j), new)
  BY <1>1, <1>2, SpliceIs DEF IsSpliced
<1>4. i \in Nat /\ j \in Nat
  BY <1>2, LenProperties
<1>5. PICK lo \in Nat, hi \in Nat, size \in Nat : lo = ByteOf(d.text, i) /\ hi = ByteOf(d.text, j) /\ size = Bytes(new)
  BY <1>4, ByteStep, BytesOfAll
<1>6. lo <= hi
  <2>1. hi >= lo + (j - i)
    BY <1>1, <1>4, <1>5, BytesIncrease
  <2> QED
    BY <1>1, <1>4, <2>1
<1>7. s = EditState(d, u, lo, hi, size)
  BY <1>1, <1>3, <1>5 DEF ApplyEdit, EditState
<1>8. IsEditState(s, S, P, d, u, lo, hi, size)
  BY <1>6, <1>7, EditStateIs
<1> QED
  BY <1>8 DEF LeadsTo, IsEditState

\* The selection of a view in the text.
LEMMA SpanIs ==
  ASSUME NEW S, NEW t \in Seq(S), NEW c, IsClamped(t, c)
  PROVE  \/ SpanOf(c) = <<>>
         \/ \E lo, hi : SpanOf(c) = <<lo, hi>> /\ IsPlace(t, lo) /\ IsPlace(t, hi) /\ lo <= hi /\ lo < hi
<1>1. c.cursor \in Nat /\ IsPlace(t, c.cursor) /\ (c.anchor # Off => c.anchor \in Nat /\ IsPlace(t, c.anchor))
  BY PlaceIs DEF IsClamped
<1>2. SUFFICES ASSUME c.anchor \notin {Off, c.cursor}
               PROVE  \E lo, hi : SpanOf(c) = <<lo, hi>> /\ IsPlace(t, lo) /\ IsPlace(t, hi) /\ lo <= hi /\ lo < hi
  BY DEF SpanOf
<1>3. SpanOf(c) = <<Smaller(c.anchor, c.cursor), Larger(c.anchor, c.cursor)>>
  BY <1>2 DEF SpanOf
<1>4. CASE c.anchor <= c.cursor
  <2>1. Smaller(c.anchor, c.cursor) = c.anchor /\ Larger(c.anchor, c.cursor) = c.cursor /\ c.anchor < c.cursor
    BY <1>1, <1>2, <1>4 DEF Smaller, Larger
  <2> QED
    BY <1>1, <1>2, <1>3, <1>4, <2>1
<1>5. CASE ~(c.anchor <= c.cursor)
  <2>1. Smaller(c.anchor, c.cursor) = c.cursor /\ Larger(c.anchor, c.cursor) = c.anchor /\ c.cursor < c.anchor /\ c.cursor <= c.anchor
    BY <1>1, <1>2, <1>5 DEF Smaller, Larger
  <2> QED
    BY <1>1, <1>2, <1>3, <2>1
<1> QED
  BY <1>4, <1>5

-----------------------------------------------------------------------------
(* Insertion, deletion and killing.                                        *)

\* Part of a text is a text.
LEMMA SliceIsText ==
  ASSUME NEW S, NEW t \in Seq(S), NEW lo \in Nat, NEW hi \in Nat
  PROVE  Slice(t, lo, hi) \in Seq(S)
<1>1. PICK a \in Nat, b \in Nat : a = CharOf(t, lo) /\ b = CharOf(t, hi) /\ a <= Len(t) /\ b <= Len(t)
  <2>1. CharOf(t, lo) \in Nat /\ CharOf(t, hi) \in Nat /\ CharOf(t, lo) \in 0 .. Len(t) /\ CharOf(t, hi) \in 0 .. Len(t)
    BY FloorIs
  <2>2. Len(t) \in Nat
    BY LenProperties
  <2> QED
    BY <2>1, <2>2
<1>2. \A i \in a + 1 .. b : t[i] \in S
  <2>1. \A i \in a + 1 .. b : i \in 1 .. Len(t)
    BY <1>1, LenProperties
  <2> QED
    BY <2>1, ElementOfSeq
<1>3. a + 1 \in Int /\ b \in Int
  OBVIOUS
<1>4. SubSeq(t, a + 1, b) \in Seq(S)
  BY <1>2, <1>3, SubSeqProperties
<1> QED
  BY <1>1, <1>4 DEF Slice

\* An operation may change nothing but the view.
LEMMA StayLeads ==
  ASSUME NEW S, NEW P, NEW d \in DocsOf(S, P), NEW v \in ViewRecords
  PROVE  LeadsTo(S, P, d, State(d, v))
  BY DEF LeadsTo, State

\* Or edit at a span.
LEMMA ApplyAtLeads ==
  ASSUME NEW S, NEW P, NEW d \in DocsOf(S, P), NEW c, NEW s, NEW new \in Seq(S), NEW lo, NEW hi,
         s = <<lo, hi>>, IsPlace(d.text, lo), IsPlace(d.text, hi), lo <= hi
  PROVE  LeadsTo(S, P, d, ApplyAt(d, c, s, new))
<1>1. ApplyAt(d, c, s, new) = ApplyEdit(d, c, lo, hi, new)
  BY DEF ApplyAt
<1>2. Edited(S, d, ApplyEdit(d, c, lo, hi, new))
  BY ApplyIsEdit
<1> QED
  BY <1>1, <1>2, EditedIsTyped

\* Deleting between two places is an edit.
LEMMA DeleteAtLeads ==
  ASSUME NEW S, NEW P, NEW d \in DocsOf(S, P), NEW c \in ViewRecords, NEW s, NEW lo, NEW hi,
         s = <<lo, hi>>, IsPlace(d.text, lo), IsPlace(d.text, hi), lo <= hi
  PROVE  LeadsTo(S, P, d, DeleteAt(d, c, s))
<1>1. <<>> \in Seq(S)
  BY EmptySeq
<1>2. LeadsTo(S, P, d, ApplyAt(d, c, s, <<>>))
  BY <1>1, ApplyAtLeads
<1>3. LeadsTo(S, P, d, State(d, c))
  BY StayLeads
<1> QED
  BY <1>2, <1>3 DEF DeleteAt

\* The selection, or else a span.
IsSpan(t, s) == \E lo, hi : s = <<lo, hi>> /\ IsPlace(t, lo) /\ IsPlace(t, hi) /\ lo <= hi

\* The selection of a view, or a span in its place, is a span of the text.
LEMMA SpanOrIs ==
  ASSUME NEW S, NEW P, NEW d \in DocsOf(S, P), NEW v \in ViewRecords, NEW s, IsSpan(d.text, s)
  PROVE  IsSpan(d.text, SpanOr(SpanOf(Clamp(d, v)), s))
<1>1. d.text \in Seq(S) /\ IsClamped(d.text, Clamp(d, v))
  BY ClampIs
<1>2. SpanOf(Clamp(d, v)) = <<>> \/ IsSpan(d.text, SpanOf(Clamp(d, v)))
  BY <1>1, SpanIs DEF IsSpan
<1> QED
  BY <1>2 DEF SpanOr

\* Keys that insert.
LEMMA InsertLeads ==
  ASSUME NEW S, NEW P, NEW d \in DocsOf(S, P), NEW v \in ViewRecords, NEW new \in Seq(S)
  PROVE  LeadsTo(S, P, d, Insert(d, v, new))
<1> DEFINE c == Clamp(d, v)
<1>1. IsPlace(d.text, c.cursor) /\ c.cursor \in Nat
  BY ClampIs, PlaceIs DEF IsClamped
<1>2. IsSpan(d.text, <<c.cursor, c.cursor>>)
  BY <1>1 DEF IsSpan
<1>3. IsSpan(d.text, SpanOr(SpanOf(c), <<c.cursor, c.cursor>>))
  BY <1>2, SpanOrIs
<1>4. Insert(d, v, new) = ApplyAt(d, c, SpanOr(SpanOf(c), <<c.cursor, c.cursor>>), new)
  BY DEF Insert
<1> HIDE DEF c
<1> QED
  BY <1>3, <1>4, ApplyAtLeads DEF IsSpan

\* A range of bytes that is replaced.
LEMMA ReplaceLeads ==
  ASSUME NEW S, NEW P, NEW d \in DocsOf(S, P), NEW v \in ViewRecords, NEW lo \in Nat, NEW hi \in Nat, NEW new \in Seq(S)
  PROVE  LeadsTo(S, P, d, ReplaceRange(d, v, lo, hi, new))
<1>1. d.text \in Seq(S)
  BY DEF DocsOf
<1>2. PICK a \in Nat : a = FloorBoundary(d.text, lo) /\ IsPlace(d.text, a)
  BY <1>1, PlacesAre, PlaceIs
<1>3. PICK b \in Nat : b = FloorBoundary(d.text, hi) /\ IsPlace(d.text, b)
  BY <1>1, PlacesAre, PlaceIs
<1>4. PICK z \in Nat : z = Larger(b, a) /\ IsPlace(d.text, z) /\ a <= z
  BY <1>2, <1>3 DEF Larger
<1>5. ReplaceRange(d, v, lo, hi, new) = ApplyEdit(d, Clamp(d, v), a, z, new)
  BY <1>2, <1>3, <1>4 DEF ReplaceRange
<1>6. Edited(S, d, ApplyEdit(d, Clamp(d, v), a, z, new))
  BY <1>2, <1>4, ApplyIsEdit
<1> QED
  BY <1>5, <1>6, EditedIsTyped

\* Keys that delete.
LEMMA DeleteLeads ==
  ASSUME NEW S, NEW P, NEW d \in DocsOf(S, P), NEW v \in ViewRecords, NEW target, IsPlace(d.text, target)
  PROVE  LeadsTo(S, P, d, Delete(d, v, target))
<1> DEFINE c == Clamp(d, v)
<1>1. IsPlace(d.text, c.cursor) /\ c.cursor \in Nat /\ c \in ViewRecords /\ target \in Nat
  BY ClampIs, PlaceIs DEF IsClamped
<1> HIDE DEF c
<1>2. IsSpan(d.text, <<Smaller(c.cursor, target), Larger(c.cursor, target)>>)
  <2>1. CASE c.cursor <= target
    <3>1. Smaller(c.cursor, target) = c.cursor /\ Larger(c.cursor, target) = target
      BY <2>1 DEF Smaller, Larger
    <3> QED
      BY <1>1, <2>1, <3>1 DEF IsSpan
  <2>2. CASE ~(c.cursor <= target)
    <3>1. Smaller(c.cursor, target) = target /\ Larger(c.cursor, target) = c.cursor /\ target <= c.cursor
      BY <1>1, <2>2 DEF Smaller, Larger
    <3> QED
      BY <1>1, <3>1 DEF IsSpan
  <2> QED
    BY <2>1, <2>2
<1>3. IsSpan(d.text, SpanOr(SpanOf(c), <<Smaller(c.cursor, target), Larger(c.cursor, target)>>))
  BY <1>2, SpanOrIs DEF c
<1>4. Delete(d, v, target) = DeleteAt(d, c, SpanOr(SpanOf(c), <<Smaller(c.cursor, target), Larger(c.cursor, target)>>))
  BY DEF Delete, c
<1> QED
  BY <1>1, <1>3, <1>4, DeleteAtLeads DEF IsSpan

\* Deleting backward, forward and what is selected are edits.
LEMMA DeletionsLead ==
  ASSUME NEW S, NEW P, NEW d \in DocsOf(S, P), NEW v \in ViewRecords
  PROVE  /\ LeadsTo(S, P, d, Backspace(d, v)) /\ LeadsTo(S, P, d, DeleteForward(d, v))
         /\ LeadsTo(S, P, d, DeleteSelection(d, v))
<1>1. d.text \in Seq(S) /\ v.cursor \in Nat
  BY DEF DocsOf, ViewRecords
<1>2. Cursor(d, v) \in Nat
  BY <1>1, PlacesAre, PlaceIs DEF Cursor
<1>3. IsPlace(d.text, PrevBoundary(d.text, Cursor(d, v))) /\ IsPlace(d.text, NextBoundary(d.text, Cursor(d, v)))
  BY <1>1, <1>2, PlacesAre
<1>4. LeadsTo(S, P, d, Backspace(d, v)) /\ LeadsTo(S, P, d, DeleteForward(d, v))
  BY <1>3, DeleteLeads DEF Backspace, DeleteForward
<1>5. Selection(d, v) = <<>> \/ IsSpan(d.text, Selection(d, v))
  BY <1>1, ClampIs, SpanIs DEF Selection, IsSpan
<1>6. <<>> \in Seq(S)
  BY EmptySeq
<1>7. Selection(d, v) # <<>> => LeadsTo(S, P, d, ApplyAt(d, v, Selection(d, v), <<>>))
  BY <1>5, <1>6, ApplyAtLeads DEF IsSpan
<1>8. LeadsTo(S, P, d, State(d, v))
  BY StayLeads
<1> QED
  BY <1>4, <1>7, <1>8 DEF DeleteSelection

\* The row of a view.
LEMMA RowIs ==
  ASSUME NEW S, NEW P, NEW d \in DocsOf(S, P), NEW v \in ViewRecords
  PROVE  /\ Row(d, v) \in 0 .. LineOf(d.text, Len(d.text)) /\ LastRow(d) = LineOf(d.text, Len(d.text)) /\ LastRow(d) \in Nat
         /\ Row(d, v) \in Nat /\ Column(d, v) \in Nat
<1>1. d.text \in Seq(S) /\ v.cursor \in Nat
  BY DEF DocsOf, ViewRecords
<1>2. PICK n \in Nat : n = CharOf(d.text, v.cursor) /\ n \in 0 .. Len(d.text)
  BY <1>1, FloorIs
<1>3. PICK row : row = LineOf(d.text, n)
  OBVIOUS
<1>4. /\ Len(d.text) \in Nat /\ LineOf(d.text, Len(d.text)) \in Nat /\ Len(LineStarts(d.text)) = LineOf(d.text, Len(d.text)) + 1
      /\ \A r \in 0 .. LineOf(d.text, Len(d.text)) : IsLineStart(d.text, r, LineStarts(d.text)[r + 1])
  BY <1>1, LineStartsAre
<1>5. row \in Nat /\ row \in 0 .. LineOf(d.text, Len(d.text))
  <2>1. row \in Nat
    BY <1>2, <1>3, LineStep
  <2>2. LineOf(d.text, Len(d.text)) >= LineOf(d.text, n)
    BY <1>2, <1>4, BytesIncrease
  <2> QED
    BY <1>3, <1>4, <2>1, <2>2
<1>6. PICK s : s = LineStarts(d.text)[row + 1]
  OBVIOUS
<1>7. IsLineStart(d.text, LineOf(d.text, n), s)
  BY <1>3, <1>4, <1>5, <1>6
<1>8. s <= n /\ s \in Nat
  BY <1>1, <1>2, <1>7, PlaceInItsLine DEF IsLineStart
<1>9. Row(d, v) = row
  BY <1>2, <1>3 DEF Row
<1>10. Column(d, v) = n - s
  BY <1>2, <1>6, <1>9 DEF Column, LineStart
<1>11. LastRow(d) = LineOf(d.text, Len(d.text))
  BY <1>4 DEF LastRow
<1> QED
  BY <1>2, <1>4, <1>5, <1>8, <1>9, <1>10, <1>11

\* What is killed.
LEMMA KillLeads ==
  ASSUME NEW S, NEW P, NEW d \in DocsOf(S, P), NEW v \in ViewRecords
  PROVE  LeadsTo(S, P, d, KillLine(d, v)) /\ KilledText(d, v) \in Seq(S)
<1> DEFINE c == Clamp(d, v)
<1>1. d.text \in Seq(S) /\ IsPlace(d.text, c.cursor) /\ c.cursor \in Nat /\ c \in ViewRecords /\ FloorBoundary(d.text, c.cursor) = c.cursor
  BY ClampIs, PlaceIs DEF IsClamped
<1> HIDE DEF c
<1>2. Row(d, c) \in 0 .. LineOf(d.text, Len(d.text))
  BY <1>1, RowIs
<1>3. PICK end \in Nat : end = ByteOf(d.text, LineEnd(d.text, LineStart(d, Row(d, c)))) /\ IsPlace(d.text, end)
  BY <1>1, <1>2, LinePlaces, PlaceIs DEF LineStart
<1>4. PICK next \in Nat : next = NextBoundary(d.text, c.cursor) /\ IsPlace(d.text, next) /\ c.cursor <= next
  BY <1>1, PlacesAre, PlaceIs
<1>5. KillRange(d, c) = <<c.cursor, IF c.cursor < end THEN end ELSE next>>
  BY <1>3, <1>4 DEF KillRange
<1>6. PICK hi \in Nat : KillRange(d, c) = <<c.cursor, hi>> /\ IsPlace(d.text, hi) /\ c.cursor <= hi
  <2>1. CASE c.cursor < end
    BY <1>1, <1>3, <1>5, <2>1
  <2>2. CASE ~(c.cursor < end)
    BY <1>1, <1>4, <1>5, <2>2
  <2> QED
    BY <2>1, <2>2
<1>7. LeadsTo(S, P, d, DeleteAt(d, c, KillRange(d, c)))
  BY <1>1, <1>6, DeleteAtLeads
<1>8. Slice(d.text, c.cursor, hi) \in Seq(S)
  BY <1>1, SliceIsText
<1>9. KilledText(d, v) = Slice(d.text, c.cursor, hi)
  BY <1>6 DEF KilledText, c
<1> QED
  BY <1>7, <1>8, <1>9 DEF KillLine, c

\* What is selected is text.
LEMMA SelectedIsText ==
  ASSUME NEW S, NEW P, NEW d \in DocsOf(S, P), NEW v \in ViewRecords
  PROVE  SelectedText(d, v) \in Seq(S)
<1>1. d.text \in Seq(S) /\ IsClamped(d.text, Clamp(d, v))
  BY ClampIs
<1>2. CASE Selection(d, v) = <<>>
  BY <1>2, EmptySeq DEF SelectedText
<1>3. CASE Selection(d, v) # <<>>
  <2>1. PICK lo, hi : Selection(d, v) = <<lo, hi>> /\ IsPlace(d.text, lo) /\ IsPlace(d.text, hi)
    BY <1>1, <1>3, SpanIs DEF Selection
  <2>2. lo \in Nat /\ hi \in Nat
    BY <1>1, <2>1, PlaceIs
  <2>3. Slice(d.text, lo, hi) \in Seq(S)
    BY <1>1, <2>2, SliceIsText
  <2> QED
    BY <1>3, <2>1, <2>3 DEF SelectedText
<1> QED
  BY <1>2, <1>3

-----------------------------------------------------------------------------
(* History, motions and commands.                                          *)

\* The last of a history, and what is before it.
LEMMA LastAndFront ==
  ASSUME NEW S, NEW h \in Seq(S), h # <<>>
  PROVE  Last(h) \in S /\ Front(h) \in Seq(S) /\ Len(Front(h)) = Len(h) - 1
<1>1. PICK n \in Nat : Len(h) = n /\ n # 0
  BY LenProperties, EmptySeq
<1>2. n \in 1 .. Len(h) /\ 1 \in Int /\ n - 1 \in Int
  BY <1>1
<1>3. Last(h) \in S
  BY <1>1, <1>2, ElementOfSeq DEF Last
<1>4. \A i \in 1 .. n - 1 : h[i] \in S
  <2>1. \A i \in 1 .. n - 1 : i \in 1 .. Len(h)
    BY <1>1
  <2> QED
    BY <2>1, ElementOfSeq
<1>5. SubSeq(h, 1, n - 1) \in Seq(S) /\ Len(SubSeq(h, 1, n - 1)) = (IF 1 <= n - 1 THEN n - 1 - 1 + 1 ELSE 0)
  BY <1>2, <1>4, SubSeqProperties
<1>6. (IF 1 <= n - 1 THEN n - 1 - 1 + 1 ELSE 0) = n - 1
  BY <1>1
<1>7. Front(h) = SubSeq(h, 1, n - 1)
  BY <1>1 DEF Front
<1> QED
  BY <1>1, <1>3, <1>5, <1>6, <1>7

\* A view after undo or redo.
LEMMA HistoryView ==
  ASSUME NEW S, NEW P, NEW d \in DocsOf(S, P), NEW v \in ViewRecords
  PROVE  AfterHistoryMove(d, v) \in ViewRecords
<1>1. d.text \in Seq(S) /\ v.cursor \in Nat
  BY DEF DocsOf, ViewRecords
<1>2. PICK c \in Nat : c = FloorBoundary(d.text, v.cursor)
  BY <1>1, PlacesAre, PlaceIs
<1>3. AfterHistoryMove(d, v) = [v EXCEPT !.cursor = c, !.anchor = Off, !.goal = Off]
  BY <1>2 DEF AfterHistoryMove
<1> QED
  BY <1>3 DEF ViewRecords

\* Undo takes from the past, redo has something to take from.
LEMMA UndoLeads ==
  ASSUME NEW S, NEW P, NEW d \in DocsOf(S, P), NEW v \in ViewRecords
  PROVE  LeadsTo(S, P, d, UndoEdit(d, v))
<1>1. d.text \in Seq(S) /\ d.past \in Seq(Seq(S)) /\ d.future \in Seq(Seq(S)) /\ d.rev \in Nat
  BY DEF DocsOf
<1>2. LeadsTo(S, P, d, State(d, v))
  BY StayLeads
<1>3. CASE d.past # <<>>
  <2>1. PICK u \in Seq(S), h \in Seq(Seq(S)) : u = Last(d.past) /\ h = Front(d.past) /\ Len(h) = Len(d.past) - 1
    BY <1>1, <1>3, LastAndFront
  <2>2. PICK f \in Seq(Seq(S)), n \in Nat : f = Append(d.future, d.text) /\ n = d.rev + 1
    <3>1. Append(d.future, d.text) \in Seq(Seq(S)) /\ d.rev + 1 \in Nat
      BY <1>1, AppendProperties
    <3> QED
      BY <3>1
  <2>3. PICK e : e = Rewritten(d, u, h, f, n)
    OBVIOUS
  <2>4. UndoEdit(d, v) = State(e, AfterHistoryMove(e, v))
    BY <1>3, <2>1, <2>2, <2>3 DEF UndoEdit, Rewritten
  <2>5. e \in DocsOf(S, P) /\ e.path = d.path /\ e.past = h
    BY <2>3, RewrittenIs
  <2>6. AfterHistoryMove(e, v) \in ViewRecords
    BY <2>5, HistoryView
  <2> QED
    BY <2>1, <2>4, <2>5, <2>6 DEF LeadsTo, State
<1> QED
  BY <1>2, <1>3 DEF UndoEdit

\* Redoing leads to a later text of the history.
LEMMA RedoLeads ==
  ASSUME NEW S, NEW P, NEW d \in DocsOf(S, P), NEW v \in ViewRecords
  PROVE  LeadsTo(S, P, d, RedoEdit(d, v))
<1>1. d.text \in Seq(S) /\ d.past \in Seq(Seq(S)) /\ d.future \in Seq(Seq(S)) /\ d.rev \in Nat
  BY DEF DocsOf
<1>2. LeadsTo(S, P, d, State(d, v))
  BY StayLeads
<1>3. CASE d.future # <<>>
  <2>1. PICK u \in Seq(S), f \in Seq(Seq(S)) : u = Last(d.future) /\ f = Front(d.future)
    BY <1>1, <1>3, LastAndFront
  <2>2. PICK h \in Seq(Seq(S)), n \in Nat : h = Append(d.past, d.text) /\ n = d.rev + 1
    <3>1. Append(d.past, d.text) \in Seq(Seq(S)) /\ d.rev + 1 \in Nat
      BY <1>1, AppendProperties
    <3> QED
      BY <3>1
  <2>3. PICK e : e = Rewritten(d, u, h, f, n)
    OBVIOUS
  <2>4. RedoEdit(d, v) = State(e, AfterHistoryMove(e, v))
    BY <1>3, <2>1, <2>2, <2>3 DEF RedoEdit, Rewritten
  <2>5. e \in DocsOf(S, P) /\ e.path = d.path /\ e.text = Last(d.future)
    BY <2>1, <2>3, RewrittenIs
  <2>6. AfterHistoryMove(e, v) \in ViewRecords
    BY <2>5, HistoryView
  <2> QED
    BY <1>3, <2>4, <2>5, <2>6 DEF LeadsTo, State
<1> QED
  BY <1>2, <1>3 DEF RedoEdit

-----------------------------------------------------------------------------
\* Motions lead to views.
LEMMA StartMotionIs ==
  ASSUME NEW S, NEW P, NEW d \in DocsOf(S, P), NEW v \in ViewRecords, NEW extend
  PROVE  StartMotion(d, v, extend) \in ViewRecords
<1>1. PICK c \in ViewRecords : c = Clamp(d, v)
  BY ClampIs DEF IsClamped
<1>2. StartMotion(d, v, extend) = [c EXCEPT !.anchor = IF ~extend THEN Off ELSE IF c.anchor = Off THEN c.cursor ELSE c.anchor]
  BY <1>1 DEF StartMotion
<1> QED
  BY <1>2 DEF ViewRecords

\* A view that moves is a view.
LEMMA MoveToIs ==
  ASSUME NEW S, NEW P, NEW d \in DocsOf(S, P), NEW v \in ViewRecords, NEW extend, NEW offset \in Nat
  PROVE  MoveTo(d, v, extend, offset) \in ViewRecords
<1>1. PICK m \in ViewRecords : m = StartMotion(d, v, extend)
  BY StartMotionIs
<1>2. MoveTo(d, v, extend, offset) = [m EXCEPT !.cursor = offset, !.goal = Off]
  BY <1>1 DEF MoveTo
<1> QED
  BY <1>2 DEF ViewRecords

\* A cursor that is set is on the place at or before where it is set.
LEMMA SetCursorIs ==
  ASSUME NEW S, NEW P, NEW d \in DocsOf(S, P), NEW v \in ViewRecords, NEW offset \in Nat
  PROVE  SetCursor(d, v, offset) \in ViewRecords /\ SetCursor(d, v, offset).cursor = FloorBoundary(d.text, offset)
<1>1. d.text \in Seq(S)
  BY DEF DocsOf
<1>2. PICK c \in Nat : c = FloorBoundary(d.text, offset)
  BY <1>1, PlacesAre, PlaceIs
<1>3. SetCursor(d, v, offset) = [v EXCEPT !.cursor = c, !.anchor = Off, !.goal = Off]
  BY <1>2 DEF SetCursor
<1> QED
  BY <1>2, <1>3 DEF ViewRecords

\* A view that moves to a row is a view.
LEMMA MoveToRowIs ==
  ASSUME NEW S, NEW P, NEW d \in DocsOf(S, P), NEW v \in ViewRecords, NEW extend, NEW row \in 0 .. LineOf(d.text, Len(d.text))
  PROVE  MoveToRow(d, v, extend, row) \in ViewRecords
<1>1. PICK m \in ViewRecords : m = StartMotion(d, v, extend)
  BY StartMotionIs
<1>2. PICK goal \in Nat : goal = IF m.goal = Off THEN Column(d, m) ELSE m.goal
  <2>1. Column(d, m) \in Nat
    BY RowIs
  <2> QED
    BY <2>1 DEF ViewRecords
<1>3. d.text \in Seq(S)
  BY DEF DocsOf
<1>4. PICK start \in Nat, end \in Nat : start = LineStart(d, row) /\ end = LineEnd(d.text, start) /\ start <= end
  BY <1>3, LinePlaces DEF LineStart
<1>5. start + Smaller(goal, end - start) \in Nat
  BY <1>4 DEF Smaller
<1>6. PICK c \in Nat : c = ByteOf(d.text, start + Smaller(goal, end - start))
  BY <1>5, ByteStep
<1>7. MoveToRow(d, v, extend, row) = [m EXCEPT !.cursor = c, !.goal = goal]
  BY <1>1, <1>2, <1>4, <1>6 DEF MoveToRow
<1> QED
  BY <1>7 DEF ViewRecords

\* Every motion leads to a view.
LEMMA MotionIs ==
  ASSUME NEW S, NEW P, NEW d \in DocsOf(S, P), NEW v \in ViewRecords, NEW rows \in Nat, NEW c \in MotionCommands
  PROVE  MotionOf(d, v, rows, c) \in ViewRecords
<1>1. d.text \in Seq(S) /\ v.cursor \in Nat
  BY DEF DocsOf, ViewRecords
<1>2. PICK at \in Nat : at = Cursor(d, v)
  BY <1>1, PlacesAre, PlaceIs DEF Cursor
<1>3. PICK prev \in Nat, next \in Nat : prev = PrevBoundary(d.text, at) /\ next = NextBoundary(d.text, at)
  BY <1>1, PlacesAre, PlaceIs
<1>4. PICK row \in Nat, last \in Nat : row = Row(d, v) /\ last = LastRow(d) /\ row <= last /\ last = LineOf(d.text, Len(d.text))
  <2>1. /\ Row(d, v) \in 0 .. LineOf(d.text, Len(d.text)) /\ LastRow(d) = LineOf(d.text, Len(d.text)) /\ LastRow(d) \in Nat
        /\ Row(d, v) \in Nat
    BY RowIs
  <2> QED
    BY <2>1
<1>5. PICK start \in Nat, end \in Nat :
         start = ByteOf(d.text, LineStart(d, row)) /\ end = ByteOf(d.text, LineEnd(d.text, LineStart(d, row)))
  <2>1. row \in 0 .. LineOf(d.text, Len(d.text))
    BY <1>4
  <2> QED
    BY <1>1, <2>1, LinePlaces, PlaceIs DEF LineStart
<1>6. \A extend : MoveLeft(d, v, extend) \in ViewRecords /\ MoveRight(d, v, extend) \in ViewRecords
  BY <1>2, <1>3, MoveToIs DEF MoveLeft, MoveRight
<1>7. \A extend : MoveLineStart(d, v, extend) \in ViewRecords /\ MoveLineEnd(d, v, extend) \in ViewRecords
  BY <1>4, <1>5, MoveToIs DEF MoveLineStart, MoveLineEnd
<1>8. \A extend : MoveUp(d, v, extend) \in ViewRecords
  <2>1. row > 0 => row - 1 \in 0 .. LineOf(d.text, Len(d.text))
    BY <1>4
  <2> QED
    BY <1>4, <2>1, MoveToRowIs, StartMotionIs DEF MoveUp
<1>9. \A extend : MoveDown(d, v, extend) \in ViewRecords
  <2>1. row < last => row + 1 \in 0 .. LineOf(d.text, Len(d.text))
    BY <1>4
  <2> QED
    BY <1>4, <2>1, MoveToRowIs, StartMotionIs DEF MoveDown
<1>10. MovePageUp(d, v, rows) \in ViewRecords
  <2>1. PICK r \in 0 .. LineOf(d.text, Len(d.text)) : r = Larger(row - Larger(rows, 1), 0)
    BY <1>4 DEF Larger
  <2> QED
    BY <1>4, <2>1, MoveToRowIs DEF MovePageUp
<1>11. MovePageDown(d, v, rows) \in ViewRecords
  <2>1. PICK r \in 0 .. LineOf(d.text, Len(d.text)) : r = Smaller(row + Larger(rows, 1), last)
    BY <1>4 DEF Larger, Smaller
  <2> QED
    BY <1>4, <2>1, MoveToRowIs DEF MovePageDown
<1>12. SelectAll(d, v) \in ViewRecords
  <2>1. PICK b \in Nat : b = Bytes(d.text)
    BY <1>1, BytesOfAll
  <2>2. PICK z \in Nat : z = 0
    OBVIOUS
  <2>3. SelectAll(d, v) = [v EXCEPT !.anchor = z, !.cursor = b, !.goal = Off]
    BY <2>1, <2>2 DEF SelectAll
  <2> QED
    BY <2>3 DEF ViewRecords
<1> QED
  BY <1>6, <1>7, <1>8, <1>9, <1>10, <1>11, <1>12, Zenon DEF MotionOf, MotionCommands

-----------------------------------------------------------------------------
\* The records of editors.
Modes == {"insert", "normal", "visual"}
Folds == {fs \in SUBSET (Nat \X Nat) : IsFiniteSet(fs)}
Panes(S) ==
  [doc : Nat, view : ViewRecords, mode : Modes, profile : Profiles, clipboard : Seq(S),
   top : Nat, left : Nat, rows : Nat, folds : Folds, folded : SUBSET Nat, hints : SUBSET Nat,
   search : BOOLEAN, quit : BOOLEAN]

\* What a command of an editor leads to.
DoesLead(S, P, d, e, did) ==
  LeadsTo(S, P, d, State(did.doc, did.pane.view)) /\ did.pane \in Panes(S) /\ did.pane.doc = e.doc

\* An edit leaves the pane on its document.
LEMMA EditsLead ==
  ASSUME NEW S, NEW P, NEW d, NEW e \in Panes(S), NEW s, LeadsTo(S, P, d, s)
  PROVE  DoesLead(S, P, d, e, Edits(e, s))
<1>1. s.view \in ViewRecords
  BY DEF LeadsTo
<1>2. Edits(e, s).doc = s.doc /\ Edits(e, s).pane = [e EXCEPT !.view = s.view]
  BY DEF Edits, Did
<1>3. [e EXCEPT !.view = s.view] \in Panes(S) /\ [e EXCEPT !.view = s.view].view = s.view /\ [e EXCEPT !.view = s.view].doc = e.doc
  BY <1>1 DEF Panes
<1>4. LeadsTo(S, P, d, State(s.doc, s.view))
  <2>1. State(s.doc, s.view).doc = s.doc /\ State(s.doc, s.view).view = s.view
    BY DEF State
  <2>2. Edited(S, d, s) => Edited(S, d, State(s.doc, s.view))
    BY DEF Edited, ApplyEdit, State
  <2> QED
    BY <2>1, <2>2 DEF LeadsTo
<1> QED
  BY <1>2, <1>3, <1>4 DEF DoesLead

\* A command that changes the pane alone leaves the document as it is.
LEMMA PaneLeads ==
  ASSUME NEW S, NEW P, NEW d \in DocsOf(S, P), NEW e, NEW ee \in Panes(S), ee.doc = e.doc
  PROVE  DoesLead(S, P, d, e, Did(d, ee))
<1>1. ee.view \in ViewRecords
  BY DEF Panes
<1> QED
  BY <1>1, StayLeads DEF DoesLead, Did

\* A pane under another profile is a pane.
LEMMA ProfileIs ==
  ASSUME NEW S, NEW e \in Panes(S), NEW prof \in Profiles
  PROVE  SetProfile(e, prof) \in Panes(S) /\ SetProfile(e, prof).doc = e.doc /\ SetProfile(e, prof).view = e.view
<1>1. PICK mode \in Modes : mode = IF prof \in {"vim", "spacemacs"} THEN "normal" ELSE "insert"
  BY DEF Modes
<1>2. SetProfile(e, prof) = [e EXCEPT !.profile = prof, !.mode = mode]
  BY <1>1 DEF SetProfile
<1> QED
  BY <1>2 DEF Panes

\* A pane in another mode is a pane.
LEMMA ModeIs ==
  ASSUME NEW S, NEW e \in Panes(S), NEW mode \in Modes
  PROVE  SetMode(e, mode) \in Panes(S) /\ SetMode(e, mode).doc = e.doc
  BY DEF SetMode, Panes

\* A pane with what was copied or killed is a pane with the same view.
LEMMA ClipIs ==
  ASSUME NEW S, NEW P, NEW d \in DocsOf(S, P), NEW e \in Panes(S)
  PROVE  /\ Copy(d, e) \in Panes(S) /\ Copy(d, e).doc = e.doc /\ Copy(d, e).view = e.view
         /\ Kill(d, e) \in Panes(S) /\ Kill(d, e).doc = e.doc /\ Kill(d, e).view = e.view
<1>1. e.view \in ViewRecords
  BY DEF Panes
<1>2. PICK x \in Seq(S) : x = SelectedText(d, e.view)
  BY <1>1, SelectedIsText
<1>3. PICK y \in Seq(S) : y = KilledText(d, e.view)
  BY <1>1, KillLeads
<1>4. ASSUME NEW z \in Seq(S), NEW ee, ee = [e EXCEPT !.clipboard = z]
      PROVE  ee \in Panes(S) /\ ee.doc = e.doc /\ ee.view = e.view
  BY <1>4 DEF Panes
<1>5. Copy(d, e) \in Panes(S) /\ Copy(d, e).doc = e.doc /\ Copy(d, e).view = e.view
  <2>1. Selection(d, e.view) = <<>> => Copy(d, e) = e
    BY DEF Copy
  <2>2. Selection(d, e.view) # <<>> => Copy(d, e) = [e EXCEPT !.clipboard = x]
    BY <1>2 DEF Copy
  <2> QED
    BY <1>4, <2>1, <2>2
<1>6. Kill(d, e) \in Panes(S) /\ Kill(d, e).doc = e.doc /\ Kill(d, e).view = e.view
  <2>1. KilledText(d, e.view) = <<>> => Kill(d, e) = e
    BY DEF Kill
  <2>2. KilledText(d, e.view) # <<>> => Kill(d, e) = [e EXCEPT !.clipboard = y]
    BY <1>3 DEF Kill
  <2> QED
    BY <1>4, <2>1, <2>2
<1> QED
  BY <1>5, <1>6

\* The commands.
LEMMA EditCommandLeads ==
  ASSUME NEW S, {NL, "space"} \subseteq S, NEW P, "none" \in P, NEW d \in DocsOf(S, P), NEW e \in Panes(S), NEW c \in EditCommands
  PROVE  DoesLead(S, P, d, e, EditOf(d, e, c))
<1>1. e.view \in ViewRecords /\ e.clipboard \in Seq(S)
  BY DEF Panes
<1>2. <<NL>> \in Seq(S) /\ [i \in 1 .. TabWidth |-> "space"] \in Seq(S)
  <2>1. NL \in S /\ "space" \in S
    OBVIOUS
  <2>2. <<NL>> \in Seq(S)
    BY <2>1
  <2>3. [i \in 1 .. 2 |-> "space"] \in Seq(S)
    BY <2>1, IsASeq
  <2> QED
    BY <2>2, <2>3 DEF TabWidth
<1>3. DoesLead(S, P, d, e, Edits(e, Backspace(d, e.view))) /\ DoesLead(S, P, d, e, Edits(e, DeleteForward(d, e.view)))
  BY <1>1, DeletionsLead, EditsLead
<1>4. DoesLead(S, P, d, e, Edits(e, Insert(d, e.view, <<NL>>)))
  BY <1>1, <1>2, InsertLeads, EditsLead
<1>5. DoesLead(S, P, d, e, Edits(e, Insert(d, e.view, [i \in 1 .. TabWidth |-> "space"])))
  <2>1. PICK x \in Seq(S) : x = [i \in 1 .. TabWidth |-> "space"]
    BY <1>2
  <2> QED
    BY <1>1, <2>1, InsertLeads, EditsLead
<1>6. DoesLead(S, P, d, e, Edits(e, UndoEdit(d, e.view))) /\ DoesLead(S, P, d, e, Edits(e, RedoEdit(d, e.view)))
  BY <1>1, UndoLeads, RedoLeads, EditsLead
<1>7. DoesLead(S, P, d, e, Edits(Copy(d, e), DeleteSelection(d, e.view)))
  <2>1. DoesLead(S, P, d, Copy(d, e), Edits(Copy(d, e), DeleteSelection(d, e.view)))
    BY <1>1, ClipIs, DeletionsLead, EditsLead
  <2> QED
    BY <2>1, ClipIs DEF DoesLead
<1>8. DoesLead(S, P, d, e, Edits(Kill(d, e), KillLine(d, e.view)))
  <2>1. DoesLead(S, P, d, Kill(d, e), Edits(Kill(d, e), KillLine(d, e.view)))
    BY <1>1, ClipIs, KillLeads, EditsLead
  <2> QED
    BY <2>1, ClipIs DEF DoesLead
<1>9. DoesLead(S, P, d, e, Did([d EXCEPT !.dirty = d.dirty /\ d.path = "none"], e))
  <2> DEFINE dd == [d EXCEPT !.dirty = d.dirty /\ d.path = "none"]
  <2>1. (d.dirty /\ d.path = "none") \in BOOLEAN
    BY Zenon
  <2>2. dd \in DocsOf(S, P) /\ dd.path = d.path /\ dd.past = d.past
    BY <2>1 DEF DocsOf
  <2> HIDE DEF dd
  <2>3. LeadsTo(S, P, d, State(dd, e.view))
    BY <1>1, <2>2 DEF LeadsTo, State
  <2>4. DoesLead(S, P, d, e, Did(dd, e))
    BY <2>3 DEF DoesLead, Did
  <2> QED
    BY <2>4 DEF dd
<1>10. DoesLead(S, P, d, e, Edits(e, Insert(d, e.view, e.clipboard)))
  BY <1>1, InsertLeads, EditsLead
<1> QED
  BY <1>3, <1>4, <1>5, <1>6, <1>7, <1>8, <1>9, <1>10, Zenon DEF EditOf, EditCommands

\* A command that changes the pane alone leads to a pane.
LEMMA PaneCommandIs ==
  ASSUME NEW S, NEW P, NEW d \in DocsOf(S, P), NEW e \in Panes(S), NEW c \in PaneCommands
  PROVE  PaneOf(d, e, c) \in Panes(S) /\ PaneOf(d, e, c).doc = e.doc
<1>1. Copy(d, e) \in Panes(S) /\ Copy(d, e).doc = e.doc
  BY ClipIs
<1>2. \A m \in Modes : SetMode(e, m) \in Panes(S) /\ SetMode(e, m).doc = e.doc
  BY ModeIs
<1>3. \A p \in Profiles : SetProfile(e, p) \in Panes(S) /\ SetProfile(e, p).doc = e.doc
  BY ProfileIs
<1>4. [e EXCEPT !.search = TRUE] \in Panes(S) /\ [e EXCEPT !.search = TRUE].doc = e.doc
  BY DEF Panes
<1>5. [e EXCEPT !.quit = TRUE] \in Panes(S) /\ [e EXCEPT !.quit = TRUE].doc = e.doc
  BY DEF Panes
<1>6. "insert" \in Modes /\ "normal" \in Modes /\ "visual" \in Modes /\ "cua" \in Profiles /\ "emacs" \in Profiles /\ "vim" \in Profiles
  BY DEF Modes, Profiles
<1> QED
  BY <1>1, <1>2, <1>3, <1>4, <1>5, <1>6, Zenon DEF PaneOf, PaneCommands

\* Every command leads to a document and a pane on it.
LEMMA CommandLeads ==
  ASSUME NEW S, {NL, "space"} \subseteq S, NEW P, "none" \in P, NEW d \in DocsOf(S, P), NEW e \in Panes(S), NEW c \in Commands
  PROVE  DoesLead(S, P, d, e, ExecuteIn(d, e, c))
<1>1. e.view \in ViewRecords /\ e.rows \in Nat
  BY DEF Panes
<1>2. CASE c \in MotionCommands
  <2>1. PICK v \in ViewRecords : v = MotionOf(d, e.view, e.rows, c)
    BY <1>1, <1>2, MotionIs
  <2>2. LeadsTo(S, P, d, State(d, v))
    BY StayLeads
  <2>3. ExecuteIn(d, e, c) = Edits(e, State(d, v))
    BY <1>2, <2>1 DEF ExecuteIn, Moves, Edits, State, Did
  <2> QED
    BY <2>2, <2>3, EditsLead
<1>3. CASE c \notin MotionCommands /\ c \in EditCommands
  BY <1>3, EditCommandLeads DEF ExecuteIn
<1>4. CASE c \notin MotionCommands /\ c \notin EditCommands
  <2>1. c \in PaneCommands
    BY <1>4 DEF Commands
  <2>2. PaneOf(d, e, c) \in Panes(S) /\ PaneOf(d, e, c).doc = e.doc
    BY <2>1, PaneCommandIs
  <2>3. DoesLead(S, P, d, e, Did(d, PaneOf(d, e, c)))
    BY <2>2, PaneLeads
  <2> QED
    BY <1>4, <2>3 DEF ExecuteIn
<1> QED
  BY <1>2, <1>3, <1>4

-----------------------------------------------------------------------------
(* Trees of panes: ways that meet.                                         *)

\* The sequence t without its member i.
IsRemoved(u, S, t, i) ==
  /\ u \in Seq(S) /\ Len(u) = Len(t) - 1 /\ Len(u) \in Nat
  /\ \A k \in 1 .. Len(t) - 1 : u[k] = IF k < i THEN t[k] ELSE t[k + 1]

\* What a sequence is without one of its elements.
LEMMA RemoveAtIs ==
  ASSUME NEW S, NEW t \in Seq(S), NEW i \in 1 .. Len(t)
  PROVE  IsRemoved(RemoveAt(t, i), S, t, i)
<1>1. Len(t) \in Nat /\ i \in Nat /\ i <= Len(t) /\ 1 <= i
  BY LenProperties
<1> DEFINE p == SubSeq(t, 1, i - 1)
<1> DEFINE q == SubSeq(t, i + 1, Len(t))
<1>2. RemoveAt(t, i) = p \o q
  BY DEF RemoveAt
<1>3. /\ p \in Seq(S) /\ Len(p) = (IF 1 <= i - 1 THEN i - 1 - 1 + 1 ELSE 0)
      /\ \A k \in 1 .. i - 1 - 1 + 1 : p[k] = t[1 + k - 1]
  <2>1. \A k \in 1 .. i - 1 : k \in 1 .. Len(t)
    BY <1>1
  <2>2. \A k \in 1 .. i - 1 : t[k] \in S
    BY <2>1, ElementOfSeq
  <2>3. 1 \in Int /\ i - 1 \in Int
    BY <1>1
  <2> QED
    BY <2>2, <2>3, SubSeqProperties
<1>4. /\ q \in Seq(S) /\ Len(q) = (IF i + 1 <= Len(t) THEN Len(t) - (i + 1) + 1 ELSE 0)
      /\ \A k \in 1 .. Len(t) - (i + 1) + 1 : q[k] = t[i + 1 + k - 1]
  <2>1. \A k \in i + 1 .. Len(t) : k \in 1 .. Len(t)
    BY <1>1
  <2>2. \A k \in i + 1 .. Len(t) : t[k] \in S
    BY <2>1, ElementOfSeq
  <2>3. i + 1 \in Int /\ Len(t) \in Int
    BY <1>1
  <2> QED
    BY <2>2, <2>3, SubSeqProperties
<1> HIDE DEF p, q
<1>5. PICK n \in Nat : n = Len(t) /\ i <= n
  BY <1>1
<1>6. Len(p) = i - 1 /\ Len(q) = n - i
  <2>1. Len(p) = (IF 1 <= i - 1 THEN i - 1 - 1 + 1 ELSE 0)
    BY <1>3
  <2>2. Len(q) = (IF i + 1 <= n THEN n - (i + 1) + 1 ELSE 0)
    BY <1>4, <1>5
  <2>3. (IF 1 <= i - 1 THEN i - 1 - 1 + 1 ELSE 0) = i - 1 /\ (IF i + 1 <= n THEN n - (i + 1) + 1 ELSE 0) = n - i
    BY <1>1, <1>5
  <2> QED
    BY <2>1, <2>2, <2>3
<1>7. \A k \in 1 .. i - 1 : p[k] = t[k]
  <2>1. \A k \in 1 .. i - 1 : k \in 1 .. i - 1 - 1 + 1 /\ 1 + k - 1 = k
    BY <1>1
  <2> QED
    BY <1>3, <2>1
<1>8. \A k \in 1 .. n - i : q[k] = t[i + k]
  <2>1. \A k \in 1 .. n - i : k \in 1 .. Len(t) - (i + 1) + 1 /\ i + 1 + k - 1 = i + k
    BY <1>1, <1>5
  <2> QED
    BY <1>4, <2>1
<1>9. /\ p \o q \in Seq(S) /\ Len(p \o q) = Len(p) + Len(q)
      /\ \A k \in 1 .. Len(p) + Len(q) : (p \o q)[k] = IF k <= Len(p) THEN p[k] ELSE q[k - Len(p)]
  BY <1>3, <1>4, ConcatProperties
<1> DEFINE u == p \o q
<1>10. u \in Seq(S) /\ Len(u) = n - 1 /\ n - 1 \in Nat
  <2>1. Len(u) = (i - 1) + (n - i)
    BY <1>6, <1>9
  <2>2. (i - 1) + (n - i) = n - 1 /\ n - 1 \in Nat
    BY <1>1, <1>5
  <2> QED
    BY <1>9, <2>1, <2>2
<1>11. \A k \in 1 .. n - 1 : u[k] = IF k <= i - 1 THEN p[k] ELSE q[k - (i - 1)]
  <2>1. \A k \in 1 .. n - 1 : k \in 1 .. (i - 1) + (n - i)
    BY <1>1, <1>5
  <2> QED
    BY <1>6, <1>9, <2>1
<1> HIDE DEF u
<1>12. ASSUME NEW k \in 1 .. n - 1
       PROVE  u[k] = IF k < i THEN t[k] ELSE t[k + 1]
  <2>1. CASE k < i
    <3>1. k \in 1 .. i - 1 /\ k <= i - 1
      BY <1>1, <2>1
    <3> QED
      BY <1>7, <1>11, <2>1, <3>1
  <2>2. CASE ~(k < i)
    <3>1. k - (i - 1) \in 1 .. n - i /\ ~(k <= i - 1) /\ i + (k - (i - 1)) = k + 1
      BY <1>1, <1>5, <2>2
    <3>2. u[k] = q[k - (i - 1)] /\ q[k - (i - 1)] = t[i + (k - (i - 1))]
      BY <1>8, <1>11, <3>1
    <3> QED
      BY <2>2, <3>1, <3>2
  <2> QED
    BY <2>1, <2>2
<1>13. IsRemoved(u, S, t, i)
  BY <1>5, <1>10, <1>12 DEF IsRemoved
<1> QED
  BY <1>2, <1>13 DEF u

\* A member put at the end.
IsAppended(u, S, t, e) ==
  /\ u \in Seq(S) /\ Len(u) = Len(t) + 1 /\ u[Len(t) + 1] = e
  /\ \A k \in 1 .. Len(t) : u[k] = t[k]

\* What a sequence is with one more element.
LEMMA AppendIs ==
  ASSUME NEW S, NEW t \in Seq(S), NEW e \in S
  PROVE  IsAppended(Append(t, e), S, t, e) /\ Append(t, e) \in Seq(S)
  BY AppendProperties DEF IsAppended

-----------------------------------------------------------------------------
\* The records of turns and of leaves.
Turns == [dir : {"columns", "rows"}, ratio : Nat, side : {"first", "second"}]
Leaves == [editor : Nat, way : Seq(Turns)]

\* Two ways go to the two sides of one split, the k-th on either.
Meet(a, b, k) ==
  /\ k \in 1 .. Len(a) /\ k \in 1 .. Len(b)
  /\ \A i \in 1 .. k - 1 : a[i] = b[i]
  /\ a[k].dir = b[k].dir /\ a[k].ratio = b[k].ratio /\ a[k].side # b[k].side

\* The leaves of a tree: any two part at a split, and every split on the way to one has a
\* leaf on its other side.
Parted(tree) == \A m, n \in DOMAIN tree : m # n => \E k \in Nat : Meet(tree[m].way, tree[n].way, k)
Paired(tree) == \A n \in DOMAIN tree : \A k \in 1 .. Len(tree[n].way) :
                   \E m \in DOMAIN tree : Meet(tree[n].way, tree[m].way, k)
IsTree(tree) == tree \in Seq(Leaves) /\ Len(tree) > 0 /\ Parted(tree) /\ Paired(tree)

\* Two ways meet wherever they are counted from.
LEMMA MeetSymmetric ==
  ASSUME NEW a, NEW b, NEW k, Meet(a, b, k)
  PROVE  Meet(b, a, k)
  BY DEF Meet

\* Ways decide whether leaves make a tree.
LEMMA SameWays ==
  ASSUME NEW tree, IsTree(tree), NEW u \in Seq(Leaves), Len(u) = Len(tree),
         \A n \in 1 .. Len(tree) : u[n].way = tree[n].way
  PROVE  IsTree(u)
<1>1. DOMAIN tree = 1 .. Len(tree) /\ DOMAIN u = 1 .. Len(tree)
  BY LenProperties DEF IsTree
<1>2. Parted(u)
  BY <1>1 DEF IsTree, Parted
<1>3. Paired(u)
  BY <1>1 DEF IsTree, Paired
<1> QED
  BY <1>2, <1>3 DEF IsTree

\* One pane is a tree.
LEMMA OnePaneIsTree ==
  ASSUME NEW editor \in Nat
  PROVE  IsTree(OnePane(editor)) /\ Len(OnePane(editor)) = 1 /\ OnePane(editor)[1].editor = editor
<1>1. <<>> \in Seq(Turns) /\ Len(<<>>) = 0
  BY EmptySeq
<1>2. Leaf(editor, <<>>) \in Leaves /\ Leaf(editor, <<>>).way = <<>> /\ Leaf(editor, <<>>).editor = editor
  BY <1>1 DEF Leaf, Leaves
<1>3. PICK x : x = Leaf(editor, <<>>)
  OBVIOUS
<1>4. <<x>> \in Seq(Leaves) /\ Len(<<x>>) = 1 /\ DOMAIN <<x>> = 1 .. 1 /\ <<x>>[1] = x
  BY <1>2, <1>3
<1>5. PICK u : u = <<x>>
  OBVIOUS
<1>6. u \in Seq(Leaves) /\ Len(u) = 1 /\ DOMAIN u = 1 .. 1 /\ u[1] = x
  BY <1>4, <1>5
<1>7. Parted(u)
  <2>1. \A m, n \in DOMAIN u : m = n
    BY <1>6
  <2> QED
    BY <2>1 DEF Parted
<1>8. Paired(u)
  <2>1. ASSUME NEW n \in DOMAIN u, NEW k \in 1 .. Len(u[n].way) PROVE FALSE
    <3>1. u[n].way = <<>>
      BY <1>2, <1>3, <1>6
    <3>2. Len(u[n].way) = 0
      BY <1>1, <3>1
    <3> QED
      BY <3>2
  <2> QED
    BY <2>1 DEF Paired
<1> QED
  BY <1>2, <1>3, <1>5, <1>6, <1>7, <1>8 DEF IsTree, OnePane

-----------------------------------------------------------------------------
(* Splitting a pane.                                                       *)

\* A leaf split: the leaves before it, its two halves, the leaves behind it.
IsSplit(u, tree, n, x, y) ==
  /\ u \in Seq(Leaves) /\ Len(u) = Len(tree) + 1
  /\ \A k \in 1 .. n : u[k] = tree[k]
  /\ u[n + 1] = x /\ u[n + 2] = y
  /\ \A k \in n + 2 .. Len(tree) : u[k + 1] = tree[k]

\* The two halves.
Halves(x, y, leaf, new, dir) ==
  /\ x \in Leaves /\ y \in Leaves /\ x.editor = leaf.editor /\ y.editor = new
  /\ x.way = Append(leaf.way, Turn(dir, 50, "first")) /\ y.way = Append(leaf.way, Turn(dir, 50, "second"))

\* Splitting a leaf puts two halves in its place.
LEMMA SplitLeafIs ==
  ASSUME NEW tree \in Seq(Leaves), NEW n \in 0 .. Len(tree) - 1, NEW dir \in {"columns", "rows"}, NEW new \in Nat
  PROVE  \E x, y : Halves(x, y, tree[n + 1], new, dir) /\ IsSplit(SplitLeaf(tree, n, dir, new), tree, n, x, y)
<1>1. PICK size \in Nat : size = Len(tree)
  BY LenProperties
<1>2. n \in Nat /\ n < size /\ n + 1 \in 1 .. Len(tree) /\ n + 1 \in 1 .. size
  BY <1>1
<1>3. PICK leaf \in Leaves : leaf = tree[n + 1]
  BY <1>2, ElementOfSeq
<1>4. Turn(dir, 50, "first") \in Turns /\ Turn(dir, 50, "second") \in Turns /\ leaf.way \in Seq(Turns) /\ leaf.editor \in Nat
  BY DEF Turn, Turns, Leaves
<1>5. PICK a \in Seq(Turns), b \in Seq(Turns) : a = Append(leaf.way, Turn(dir, 50, "first")) /\ b = Append(leaf.way, Turn(dir, 50, "second"))
  BY <1>4, AppendProperties
<1>6. PICK x, y : x = Leaf(leaf.editor, a) /\ y = Leaf(new, b)
  OBVIOUS
<1>7. Halves(x, y, leaf, new, dir) /\ x \in Leaves /\ y \in Leaves
  BY <1>4, <1>5, <1>6 DEF Halves, Leaf, Leaves
<1> DEFINE p == SubSeq(tree, 1, n)
<1> DEFINE q == SubSeq(tree, n + 2, Len(tree))
<1>8. SplitLeaf(tree, n, dir, new) = p \o <<x, y>> \o q
  BY <1>3, <1>5, <1>6 DEF SplitLeaf, NthEditor
<1>9. p \in Seq(Leaves) /\ Len(p) = (IF 1 <= n THEN n - 1 + 1 ELSE 0) /\ \A i \in 1 .. n - 1 + 1 : p[i] = tree[1 + i - 1]
  <2>1. \A i \in 1 .. n : i \in 1 .. Len(tree)
    BY <1>1, <1>2
  <2>2. \A i \in 1 .. n : tree[i] \in Leaves
    BY <2>1, ElementOfSeq
  <2>3. 1 \in Int /\ n \in Int
    BY <1>2
  <2> QED
    BY <2>2, <2>3, SubSeqProperties
<1>10. q \in Seq(Leaves) /\ Len(q) = (IF n + 2 <= size THEN size - (n + 2) + 1 ELSE 0)
       /\ \A i \in 1 .. size - (n + 2) + 1 : q[i] = tree[n + 2 + i - 1]
  <2>1. \A i \in n + 2 .. Len(tree) : i \in 1 .. Len(tree)
    BY <1>1, <1>2
  <2>2. \A i \in n + 2 .. Len(tree) : tree[i] \in Leaves
    BY <2>1, ElementOfSeq
  <2>3. n + 2 \in Int /\ Len(tree) \in Int
    BY <1>1, <1>2
  <2>4. q \in Seq(Leaves) /\ Len(q) = (IF n + 2 <= Len(tree) THEN Len(tree) - (n + 2) + 1 ELSE 0)
        /\ \A i \in 1 .. Len(tree) - (n + 2) + 1 : q[i] = tree[n + 2 + i - 1]
    BY <2>2, <2>3, SubSeqProperties
  <2> HIDE DEF q
  <2> QED
    BY <1>1, <2>4
<1> HIDE DEF p, q
<1>11. Len(p) = n /\ Len(q) = size - (n + 1)
  <2>1. (IF 1 <= n THEN n - 1 + 1 ELSE 0) = n /\ (IF n + 2 <= size THEN size - (n + 2) + 1 ELSE 0) = size - (n + 1)
    BY <1>2
  <2> QED
    BY <1>9, <1>10, <2>1
<1>12. PICK mid : mid = <<x, y>>
  OBVIOUS
<1>13. mid \in Seq(Leaves) /\ Len(mid) = 2 /\ mid[1] = x /\ mid[2] = y
  BY <1>7, <1>12
<1> DEFINE r == p \o mid
<1>14. /\ r \in Seq(Leaves) /\ Len(r) = Len(p) + Len(mid)
       /\ \A k \in 1 .. Len(p) + Len(mid) : r[k] = IF k <= Len(p) THEN p[k] ELSE mid[k - Len(p)]
  BY <1>9, <1>13, ConcatProperties
<1>15. SplitLeaf(tree, n, dir, new) = r \o q
  BY <1>8, <1>12
<1> HIDE DEF r
<1>16. r \in Seq(Leaves) /\ Len(r) = n + 2 /\ \A k \in 1 .. n + 2 : r[k] = IF k <= n THEN p[k] ELSE mid[k - n]
  BY <1>11, <1>13, <1>14
<1> DEFINE u == r \o q
<1>17. /\ u \in Seq(Leaves) /\ Len(u) = Len(r) + Len(q)
       /\ \A k \in 1 .. Len(r) + Len(q) : u[k] = IF k <= Len(r) THEN r[k] ELSE q[k - Len(r)]
  BY <1>10, <1>16, ConcatProperties
<1> HIDE DEF u
<1>18. u \in Seq(Leaves) /\ Len(u) = size + 1
  <2>1. (n + 2) + (size - (n + 1)) = size + 1
    BY <1>2
  <2> QED
    BY <1>11, <1>16, <1>17, <2>1
<1>19. \A k \in 1 .. size + 1 : u[k] = IF k <= n + 2 THEN r[k] ELSE q[k - (n + 2)]
  <2>1. \A k \in 1 .. size + 1 : k \in 1 .. (n + 2) + (size - (n + 1))
    BY <1>2
  <2> QED
    BY <1>11, <1>16, <1>17, <2>1
<1>20. ASSUME NEW k \in 1 .. n
       PROVE  u[k] = tree[k]
  <2>1. k \in 1 .. size + 1 /\ k <= n + 2 /\ k \in 1 .. n + 2 /\ k <= n /\ k \in 1 .. n - 1 + 1 /\ 1 + k - 1 = k
    BY <1>2
  <2>2. u[k] = r[k] /\ r[k] = p[k] /\ p[k] = tree[1 + k - 1]
    BY <1>9, <1>16, <1>19, <2>1
  <2> QED
    BY <2>1, <2>2
<1>21. u[n + 1] = x /\ u[n + 2] = y
  <2>1. /\ n + 1 \in 1 .. size + 1 /\ n + 1 <= n + 2 /\ n + 1 \in 1 .. n + 2 /\ ~(n + 1 <= n) /\ (n + 1) - n = 1
        /\ n + 2 \in 1 .. size + 1 /\ n + 2 <= n + 2 /\ n + 2 \in 1 .. n + 2 /\ ~(n + 2 <= n) /\ (n + 2) - n = 2
    BY <1>2
  <2>2. u[n + 1] = r[n + 1] /\ r[n + 1] = mid[(n + 1) - n] /\ u[n + 2] = r[n + 2] /\ r[n + 2] = mid[(n + 2) - n]
    BY <1>16, <1>19, <2>1
  <2> QED
    BY <1>13, <2>1, <2>2
<1>22. ASSUME NEW k \in n + 2 .. Len(tree)
       PROVE  u[k + 1] = tree[k]
  <2>1. k + 1 \in 1 .. size + 1 /\ ~(k + 1 <= n + 2) /\ (k + 1) - (n + 2) \in 1 .. size - (n + 2) + 1
        /\ n + 2 + ((k + 1) - (n + 2)) - 1 = k
    BY <1>1, <1>2
  <2>2. u[k + 1] = q[(k + 1) - (n + 2)] /\ q[(k + 1) - (n + 2)] = tree[n + 2 + ((k + 1) - (n + 2)) - 1]
    BY <1>10, <1>19, <2>1
  <2> QED
    BY <2>1, <2>2
<1>23. IsSplit(u, tree, n, x, y)
  BY <1>1, <1>18, <1>20, <1>21, <1>22 DEF IsSplit
<1> QED
  BY <1>3, <1>7, <1>15, <1>23 DEF u

\* Longer ways part where they did.
LEMMA MeetLonger ==
  ASSUME NEW a \in Seq(Turns), NEW b \in Seq(Turns), NEW k, Meet(a, b, k), NEW t \in Turns
  PROVE  Meet(a, Append(b, t), k) /\ Meet(Append(a, t), b, k)
<1>1. PICK x \in Seq(Turns) : x = Append(a, t) /\ IsAppended(x, Turns, a, t)
  BY AppendIs
<1>2. PICK y \in Seq(Turns) : y = Append(b, t) /\ IsAppended(y, Turns, b, t)
  BY AppendIs
<1>3. Len(a) \in Nat /\ Len(b) \in Nat
  BY LenProperties
<1>4. /\ k \in 1 .. Len(a) /\ k \in 1 .. Len(b) /\ (\A i \in 1 .. k - 1 : a[i] = b[i])
      /\ a[k].dir = b[k].dir /\ a[k].ratio = b[k].ratio /\ a[k].side # b[k].side
  BY DEF Meet
<1>5. k \in 1 .. Len(x) /\ k \in 1 .. Len(y) /\ (\A i \in 1 .. k : x[i] = a[i]) /\ (\A i \in 1 .. k : y[i] = b[i])
  <2>1. \A i \in 1 .. k : i \in 1 .. Len(a) /\ i \in 1 .. Len(b)
    BY <1>3, <1>4
  <2>2. k \in 1 .. Len(a) + 1 /\ k \in 1 .. Len(b) + 1
    BY <1>3, <1>4
  <2> QED
    BY <1>1, <1>2, <2>1, <2>2 DEF IsAppended
<1>6. k \in 1 .. k /\ \A i \in 1 .. k - 1 : i \in 1 .. k
  BY <1>3, <1>4
<1>7. Meet(a, y, k)
  BY <1>4, <1>5, <1>6 DEF Meet
<1>8. Meet(x, b, k)
  BY <1>4, <1>5, <1>6 DEF Meet
<1> QED
  BY <1>1, <1>2, <1>7, <1>8

\* Two ways that end at the two sides of one new split.
LEMMA MeetAtEnd ==
  ASSUME NEW a \in Seq(Turns), NEW s \in Turns, NEW t \in Turns, s.dir = t.dir, s.ratio = t.ratio, s.side # t.side
  PROVE  Meet(Append(a, s), Append(a, t), Len(a) + 1)
<1>1. PICK x \in Seq(Turns) : x = Append(a, s) /\ IsAppended(x, Turns, a, s)
  BY AppendIs
<1>2. PICK y \in Seq(Turns) : y = Append(a, t) /\ IsAppended(y, Turns, a, t)
  BY AppendIs
<1>3. PICK n \in Nat : n = Len(a)
  BY LenProperties
<1>4. n + 1 \in 1 .. Len(x) /\ n + 1 \in 1 .. Len(y) /\ x[n + 1] = s /\ y[n + 1] = t
  BY <1>1, <1>2, <1>3 DEF IsAppended
<1>5. \A i \in 1 .. (n + 1) - 1 : x[i] = y[i]
  BY <1>1, <1>2, <1>3 DEF IsAppended
<1>6. Meet(x, y, n + 1)
  BY <1>4, <1>5 DEF Meet
<1> QED
  BY <1>1, <1>2, <1>3, <1>6

\* A way, or one turn more.
Grown(v, w) == v = w \/ \E t \in Turns : v = Append(w, t)

\* Ways that grow at their ends meet where they did.
LEMMA MeetGrown ==
  ASSUME NEW a \in Seq(Turns), NEW b \in Seq(Turns), NEW k, Meet(a, b, k), NEW c, NEW e, Grown(c, a), Grown(e, b)
  PROVE  Meet(c, e, k)
<1>1. Meet(c, b, k) /\ c \in Seq(Turns)
  <2>1. CASE c = a
    BY <2>1
  <2>2. ASSUME NEW t \in Turns, c = Append(a, t)
        PROVE  Meet(c, b, k) /\ c \in Seq(Turns)
    BY <2>2, MeetLonger, AppendIs
  <2> QED
    BY <2>1, <2>2 DEF Grown
<1>2. CASE e = b
  BY <1>1, <1>2
<1>3. ASSUME NEW t \in Turns, e = Append(b, t)
      PROVE  Meet(c, e, k)
  BY <1>1, <1>3, MeetLonger
<1> QED
  BY <1>2, <1>3 DEF Grown

\* A tree with a leaf split is a tree.
LEMMA SplitTree ==
  ASSUME NEW tree, IsTree(tree), NEW n \in 0 .. Len(tree) - 1, NEW dir \in {"columns", "rows"}, NEW new \in Nat
  PROVE  /\ IsTree(SplitLeaf(tree, n, dir, new)) /\ Len(SplitLeaf(tree, n, dir, new)) = Len(tree) + 1
         /\ \A k \in DOMAIN SplitLeaf(tree, n, dir, new) :
               SplitLeaf(tree, n, dir, new)[k].editor \in {tree[m].editor : m \in DOMAIN tree} \cup {new}
<1>1. tree \in Seq(Leaves) /\ Parted(tree) /\ Paired(tree)
  BY DEF IsTree
<1>2. PICK size \in Nat : size = Len(tree)
  BY <1>1, LenProperties
<1>3. DOMAIN tree = 1 .. size /\ n \in Nat /\ n < size /\ n + 1 \in 1 .. size
  BY <1>1, <1>2, LenProperties
<1>4. PICK x, y : Halves(x, y, tree[n + 1], new, dir) /\ IsSplit(SplitLeaf(tree, n, dir, new), tree, n, x, y)
  BY <1>1, SplitLeafIs
<1>5. PICK u : u = SplitLeaf(tree, n, dir, new)
  OBVIOUS
<1>6. /\ u \in Seq(Leaves) /\ Len(u) = size + 1 /\ DOMAIN u = 1 .. size + 1 /\ (\A k \in 1 .. n : u[k] = tree[k])
      /\ u[n + 1] = x /\ u[n + 2] = y /\ \A k \in n + 2 .. size : u[k + 1] = tree[k]
  <2>1. /\ u \in Seq(Leaves) /\ Len(u) = size + 1 /\ (\A k \in 1 .. n : u[k] = tree[k])
        /\ u[n + 1] = x /\ u[n + 2] = y /\ \A k \in n + 2 .. size : u[k + 1] = tree[k]
    BY <1>2, <1>4, <1>5 DEF IsSplit
  <2> QED
    BY <2>1, LenProperties
<1> DEFINE w == tree[n + 1].way
<1> DEFINE s == Turn(dir, 50, "first")
<1> DEFINE t == Turn(dir, 50, "second")
<1>7. x.way = Append(w, s) /\ y.way = Append(w, t) /\ x.editor = tree[n + 1].editor /\ y.editor = new
  BY <1>4 DEF Halves
<1>8. \A k \in 1 .. size : tree[k] \in Leaves /\ tree[k].way \in Seq(Turns)
  <2>1. \A k \in 1 .. Len(tree) : tree[k] \in Leaves
    BY <1>1, ElementOfSeq
  <2>2. \A leaf \in Leaves : leaf.way \in Seq(Turns)
    BY DEF Leaves
  <2> QED
    BY <1>2, <2>1, <2>2
<1>9. s \in Turns /\ t \in Turns /\ s.dir = t.dir /\ s.ratio = t.ratio /\ s.side # t.side /\ w \in Seq(Turns)
  BY <1>3, <1>8 DEF Turn, Turns
<1> HIDE DEF w, s, t
<1> DEFINE o == [k \in 1 .. size + 1 |-> IF k <= n THEN k ELSE IF k <= n + 2 THEN n + 1 ELSE k - 1]
<1>10. \A k \in 1 .. size + 1 : o[k] = IF k <= n THEN k ELSE IF k <= n + 2 THEN n + 1 ELSE k - 1
  OBVIOUS
<1> HIDE DEF o
<1>11. ASSUME NEW k \in 1 .. size + 1
       PROVE  /\ o[k] \in 1 .. size /\ Grown(u[k].way, tree[o[k]].way)
              /\ u[k].editor \in {tree[m].editor : m \in DOMAIN tree} \cup {new}
              /\ (k \notin {n + 1, n + 2} => u[k] = tree[o[k]])
  <2>1. CASE k <= n
    <3>1. k \in 1 .. n /\ o[k] = k /\ k \in 1 .. size
      BY <1>3, <1>10, <2>1
    <3>2. u[k] = tree[k]
      BY <1>6, <3>1
    <3> QED
      BY <1>3, <3>1, <3>2 DEF Grown
  <2>2. CASE k = n + 1
    <3>1. o[k] = n + 1
      BY <1>3, <1>10, <2>2
    <3> QED
      BY <1>3, <1>6, <1>7, <1>9, <2>2, <3>1 DEF Grown, w
  <2>3. CASE k = n + 2
    <3>1. o[k] = n + 1
      BY <1>3, <1>10, <2>3
    <3> QED
      BY <1>3, <1>6, <1>7, <1>9, <2>3, <3>1 DEF Grown, w
  <2>4. CASE k > n + 2
    <3>1. o[k] = k - 1 /\ k - 1 \in n + 2 .. size /\ (k - 1) + 1 = k /\ k - 1 \in 1 .. size
      BY <1>3, <1>10, <2>4
    <3>2. u[k] = tree[k - 1]
      BY <1>6, <3>1
    <3> QED
      BY <1>3, <3>1, <3>2 DEF Grown
  <2> QED
    BY <1>3, <2>1, <2>2, <2>3, <2>4
<1>12. ASSUME NEW m \in 1 .. size
       PROVE  \E k \in 1 .. size + 1 : o[k] = m
  <2>1. CASE m <= n + 1
    <3>1. m \in 1 .. size + 1 /\ o[m] = m
      BY <1>3, <1>10, <2>1
    <3> QED
      BY <3>1
  <2>2. CASE m > n + 1
    <3>1. m + 1 \in 1 .. size + 1 /\ o[m + 1] = m
      BY <1>3, <1>10, <2>2
    <3> QED
      BY <3>1
  <2> QED
    BY <1>3, <2>1, <2>2
<1>13. \A k, l \in 1 .. size + 1 : k # l /\ o[k] = o[l] => {k, l} = {n + 1, n + 2}
  <2> SUFFICES ASSUME NEW k \in 1 .. size + 1, NEW l \in 1 .. size + 1, k # l, o[k] = o[l]
               PROVE  (k = n + 1 /\ l = n + 2) \/ (k = n + 2 /\ l = n + 1)
    OBVIOUS
  <2> QED
    BY <1>3, <1>10
<1>14. Meet(x.way, y.way, Len(w) + 1) /\ Meet(y.way, x.way, Len(w) + 1) /\ Len(w) + 1 \in Nat
  <2>1. Meet(Append(w, s), Append(w, t), Len(w) + 1)
    BY <1>9, MeetAtEnd
  <2>2. Len(w) \in Nat
    BY <1>9, LenProperties
  <2> QED
    BY <1>7, <2>1, <2>2, MeetSymmetric
<1>15. Parted(u)
  <2>1. ASSUME NEW k \in 1 .. size + 1, NEW l \in 1 .. size + 1, k # l
        PROVE  \E j \in Nat : Meet(u[k].way, u[l].way, j)
    <3>1. CASE o[k] = o[l]
      <4>1. {k, l} = {n + 1, n + 2}
        BY <1>13, <2>1, <3>1
      <4>2. (k = n + 1 /\ l = n + 2) \/ (k = n + 2 /\ l = n + 1)
        BY <2>1, <4>1
      <4> QED
        BY <1>6, <1>14, <4>2
    <3>2. CASE o[k] # o[l]
      <4>1. o[k] \in DOMAIN tree /\ o[l] \in DOMAIN tree
        BY <1>3, <1>11
      <4>2. PICK j \in Nat : Meet(tree[o[k]].way, tree[o[l]].way, j)
        BY <1>1, <3>2, <4>1 DEF Parted
      <4>3. tree[o[k]].way \in Seq(Turns) /\ tree[o[l]].way \in Seq(Turns) /\ Grown(u[k].way, tree[o[k]].way) /\ Grown(u[l].way, tree[o[l]].way)
        BY <1>8, <1>11
      <4>4. Meet(u[k].way, u[l].way, j)
        BY <4>2, <4>3, MeetGrown
      <4> QED
        BY <4>4
    <3> QED
      BY <3>1, <3>2
  <2> QED
    BY <1>6, <2>1 DEF Parted
<1>16. Paired(u)
  <2>1. ASSUME NEW l \in 1 .. size + 1, NEW j \in 1 .. Len(u[l].way)
        PROVE  \E k \in 1 .. size + 1 : Meet(u[l].way, u[k].way, j)
    <3>0. o[l] \in 1 .. size /\ tree[o[l]].way \in Seq(Turns) /\ Grown(u[l].way, tree[o[l]].way)
      BY <1>8, <1>11
    <3>1. CASE j \in 1 .. Len(tree[o[l]].way)
      <4>1. PICK m \in 1 .. size : Meet(tree[o[l]].way, tree[m].way, j)
        BY <1>1, <1>3, <3>0, <3>1 DEF Paired
      <4>2. PICK k \in 1 .. size + 1 : o[k] = m
        BY <1>12
      <4>3. tree[m].way \in Seq(Turns) /\ Grown(u[k].way, tree[m].way)
        BY <1>8, <1>11, <4>2
      <4>4. Meet(u[l].way, u[k].way, j)
        BY <3>0, <4>1, <4>3, MeetGrown
      <4> QED
        BY <4>4
    <3>2. CASE j \notin 1 .. Len(tree[o[l]].way)
      <4>1. l \in {n + 1, n + 2}
        BY <1>11, <3>2
      <4>2. u[l].way = x.way \/ u[l].way = y.way
        BY <1>6, <4>1
      <4>3. o[l] = n + 1
        BY <1>3, <1>10, <4>1
      <4>4. Len(x.way) = Len(w) + 1 /\ Len(y.way) = Len(w) + 1 /\ Len(w) \in Nat
        BY <1>7, <1>9, AppendIs, LenProperties DEF IsAppended
      <4>5. j = Len(w) + 1
        <5>1. j \in 1 .. Len(w) + 1
          BY <4>2, <4>4
        <5>2. j \notin 1 .. Len(w)
          BY <3>2, <4>3 DEF w
        <5> QED
          BY <4>4, <5>1, <5>2
      <4>6. n + 1 \in 1 .. size + 1 /\ n + 2 \in 1 .. size + 1
        BY <1>3
      <4>7. CASE l = n + 1
        BY <1>6, <1>14, <4>5, <4>6, <4>7
      <4>8. CASE l = n + 2
        BY <1>6, <1>14, <4>5, <4>6, <4>8
      <4> QED
        BY <4>1, <4>7, <4>8
    <3> QED
      BY <3>1, <3>2
  <2> QED
    BY <1>6, <2>1 DEF Paired
<1>17. IsTree(u)
  BY <1>2, <1>6, <1>15, <1>16 DEF IsTree
<1> QED
  BY <1>2, <1>5, <1>6, <1>11, <1>17

-----------------------------------------------------------------------------
\* A tree resized, or with a leaf less: the ways that go through the split right above a
\* leaf are those that agree with its way up to there.
LEMMA ThroughIs ==
  ASSUME NEW to \in Seq(Turns), Len(to) > 0, NEW way \in Seq(Turns)
  PROVE  Through(way, to) <=> Len(way) >= Len(to) /\ \A i \in 1 .. Len(to) - 1 : way[i] = to[i]
<1>1. PICK size \in Nat : size = Len(to) /\ size > 0
  BY LenProperties
<1>2. Len(way) \in Nat
  BY LenProperties
<1>3. SUFFICES ASSUME Len(way) >= size
               PROVE  Front(SubSeq(way, 1, size)) = Front(to) <=> \A i \in 1 .. size - 1 : way[i] = to[i]
  BY <1>1 DEF Through
<1> DEFINE p == SubSeq(way, 1, size)
<1> DEFINE q == SubSeq(p, 1, size - 1)
<1> DEFINE r == SubSeq(to, 1, size - 1)
<1>4. p \in Seq(Turns) /\ Len(p) = size /\ \A i \in 1 .. size : p[i] = way[i]
  <2>1. \A i \in 1 .. size : i \in 1 .. Len(way)
    BY <1>1, <1>2, <1>3
  <2>2. \A i \in 1 .. size : way[i] \in Turns
    BY <2>1, ElementOfSeq
  <2>3. 1 \in Int /\ size \in Int
    BY <1>1
  <2>4. /\ p \in Seq(Turns) /\ Len(p) = (IF 1 <= size THEN size - 1 + 1 ELSE 0)
        /\ \A i \in 1 .. size - 1 + 1 : p[i] = way[1 + i - 1]
    BY <2>2, <2>3, SubSeqProperties
  <2> HIDE DEF p
  <2>5. (IF 1 <= size THEN size - 1 + 1 ELSE 0) = size /\ \A i \in 1 .. size : i \in 1 .. size - 1 + 1 /\ 1 + i - 1 = i
    BY <1>1
  <2> QED
    BY <2>4, <2>5
<1> HIDE DEF p
<1>5. q \in Seq(Turns) /\ Len(q) = size - 1 /\ \A i \in 1 .. size - 1 : q[i] = p[i]
  <2>1. \A i \in 1 .. size - 1 : i \in 1 .. Len(p)
    BY <1>1, <1>4
  <2>2. \A i \in 1 .. size - 1 : p[i] \in Turns
    BY <1>4, <2>1, ElementOfSeq
  <2>3. 1 \in Int /\ size - 1 \in Int
    BY <1>1
  <2>4. /\ q \in Seq(Turns) /\ Len(q) = (IF 1 <= size - 1 THEN size - 1 - 1 + 1 ELSE 0)
        /\ \A i \in 1 .. size - 1 - 1 + 1 : q[i] = p[1 + i - 1]
    BY <2>2, <2>3, SubSeqProperties
  <2> HIDE DEF q
  <2>5. (IF 1 <= size - 1 THEN size - 1 - 1 + 1 ELSE 0) = size - 1 /\ \A i \in 1 .. size - 1 : i \in 1 .. size - 1 - 1 + 1 /\ 1 + i - 1 = i
    BY <1>1
  <2> QED
    BY <2>4, <2>5
<1>6. r \in Seq(Turns) /\ Len(r) = size - 1 /\ \A i \in 1 .. size - 1 : r[i] = to[i]
  <2>1. \A i \in 1 .. size - 1 : i \in 1 .. Len(to)
    BY <1>1
  <2>2. \A i \in 1 .. size - 1 : to[i] \in Turns
    BY <2>1, ElementOfSeq
  <2>3. 1 \in Int /\ size - 1 \in Int
    BY <1>1
  <2>4. /\ r \in Seq(Turns) /\ Len(r) = (IF 1 <= size - 1 THEN size - 1 - 1 + 1 ELSE 0)
        /\ \A i \in 1 .. size - 1 - 1 + 1 : r[i] = to[1 + i - 1]
    BY <2>2, <2>3, SubSeqProperties
  <2> HIDE DEF r
  <2>5. (IF 1 <= size - 1 THEN size - 1 - 1 + 1 ELSE 0) = size - 1 /\ \A i \in 1 .. size - 1 : i \in 1 .. size - 1 - 1 + 1 /\ 1 + i - 1 = i
    BY <1>1
  <2> QED
    BY <2>4, <2>5
<1>7. Front(SubSeq(way, 1, size)) = q /\ Front(to) = r
  BY <1>1, <1>4 DEF Front, p
<1> HIDE DEF q, r
<1>8. \A i \in 1 .. size - 1 : i \in 1 .. size /\ q[i] = way[i] /\ r[i] = to[i]
  BY <1>1, <1>4, <1>5, <1>6
<1>9. ASSUME \A i \in 1 .. size - 1 : way[i] = to[i]
      PROVE  q = r
  BY <1>5, <1>6, <1>8, <1>9, SeqEqual
<1>10. ASSUME q = r
       PROVE  \A i \in 1 .. size - 1 : way[i] = to[i]
  BY <1>8, <1>10
<1> QED
  BY <1>7, <1>9, <1>10

-----------------------------------------------------------------------------
(* Resizing a pane.                                                        *)

\* Turns that agree in all they say are one turn.
LEMMA SameTurn ==
  ASSUME NEW x \in Turns, NEW y \in Turns, x.dir = y.dir, x.side = y.side, x.ratio = y.ratio
  PROVE  x = y
<1>1. x = [dir |-> x.dir, ratio |-> x.ratio, side |-> x.side]
  BY DEF Turns
<1>2. y = [dir |-> y.dir, ratio |-> y.ratio, side |-> y.side]
  BY DEF Turns
<1> QED
  BY <1>1, <1>2

\* A way with the split right above a leaf resized.
Bent(way, to, b) == IF Through(way, to) THEN [way EXCEPT ![Len(to)].ratio = Adjust(@, b)] ELSE way

IsBent(v, way, to, b) ==
  /\ v \in Seq(Turns) /\ Len(v) = Len(way) /\ \A i \in 1 .. Len(way) : i # Len(to) => v[i] = way[i]
  /\ IF Through(way, to)
     THEN /\ v[Len(to)].dir = way[Len(to)].dir /\ v[Len(to)].side = way[Len(to)].side
          /\ v[Len(to)].ratio = Adjust(way[Len(to)].ratio, b)
     ELSE v = way

\* A bent way has another ratio at one split.
LEMMA BentIs ==
  ASSUME NEW to \in Seq(Turns), Len(to) > 0, NEW way \in Seq(Turns), NEW b
  PROVE  IsBent(Bent(way, to, b), way, to, b)
<1>1. CASE ~Through(way, to)
  BY <1>1 DEF Bent, IsBent
<1>2. CASE Through(way, to)
  <2>1. PICK size \in Nat : size = Len(to) /\ size > 0
    BY LenProperties
  <2>2. Len(way) \in Nat /\ Len(way) >= Len(to)
    BY <1>2, LenProperties, ThroughIs
  <2>3. size \in 1 .. Len(way)
    BY <2>1, <2>2
  <2>4. PICK turn \in Turns : turn = way[size]
    BY <2>3, ElementOfSeq
  <2>5. turn.ratio \in Nat
    BY DEF Turns
  <2>6. Adjust(turn.ratio, b) \in Nat
    BY <2>5 DEF Adjust, Smaller, Larger
  <2>7. PICK e : e = [turn EXCEPT !.ratio = Adjust(turn.ratio, b)]
    OBVIOUS
  <2>8. e \in Turns /\ e.dir = turn.dir /\ e.side = turn.side /\ e.ratio = Adjust(turn.ratio, b)
    BY <2>6, <2>7 DEF Turns
  <2>9. [way EXCEPT ![size] = e] \in Seq(Turns) /\ Len([way EXCEPT ![size] = e]) = Len(way)
        /\ \A j \in 1 .. Len(way) : [way EXCEPT ![size] = e][j] = IF j = size THEN e ELSE way[j]
    BY <2>3, <2>8, ExceptSeq
  <2>10. PICK v : v = [way EXCEPT ![size] = e]
    OBVIOUS
  <2>11. Bent(way, to, b) = v
    BY <1>2, <2>1, <2>4, <2>7, <2>10 DEF Bent
  <2>12. v \in Seq(Turns) /\ Len(v) = Len(way) /\ \A j \in 1 .. Len(way) : v[j] = IF j = size THEN e ELSE way[j]
    BY <2>9, <2>10
  <2>13. v[size] = e
    BY <2>3, <2>12
  <2> QED
    BY <1>2, <2>1, <2>4, <2>8, <2>11, <2>12, <2>13 DEF IsBent
<1> QED
  BY <1>1, <1>2

\* Ways that part go on doing so, at the same split.
LEMMA MeetBent ==
  ASSUME NEW to \in Seq(Turns), Len(to) > 0, NEW a \in Seq(Turns), NEW c \in Seq(Turns), NEW k, Meet(a, c, k), NEW b
  PROVE  Meet(Bent(a, to, b), Bent(c, to, b), k)
<1>1. PICK size \in Nat : size = Len(to) /\ size > 0
  BY LenProperties
<1>2. /\ k \in 1 .. Len(a) /\ k \in 1 .. Len(c) /\ (\A i \in 1 .. k - 1 : a[i] = c[i])
      /\ a[k].dir = c[k].dir /\ a[k].ratio = c[k].ratio /\ a[k].side # c[k].side
  BY DEF Meet
<1>3. Len(a) \in Nat /\ Len(c) \in Nat /\ k \in Nat
  BY <1>2, LenProperties
<1>4. PICK v : v = Bent(a, to, b)
  OBVIOUS
<1>5. PICK w : w = Bent(c, to, b)
  OBVIOUS
<1>6. IsBent(v, a, to, b) /\ IsBent(w, c, to, b)
  BY <1>4, <1>5, BentIs
<1>7. k \in 1 .. Len(v) /\ k \in 1 .. Len(w)
  BY <1>2, <1>6 DEF IsBent
<1>8. CASE k < size
  <2>1. \A i \in 1 .. k : i \in 1 .. Len(a) /\ i \in 1 .. Len(c) /\ i # Len(to)
    BY <1>1, <1>2, <1>3, <1>8
  <2>2. \A i \in 1 .. k : v[i] = a[i] /\ w[i] = c[i]
    BY <1>6, <2>1 DEF IsBent
  <2>3. k \in 1 .. k /\ \A i \in 1 .. k - 1 : i \in 1 .. k
    BY <1>2, <1>3
  <2>4. v[k] = a[k] /\ w[k] = c[k] /\ \A i \in 1 .. k - 1 : v[i] = w[i]
    BY <1>2, <2>2, <2>3
  <2> QED
    BY <1>2, <1>4, <1>5, <1>7, <2>4 DEF Meet
<1>9. CASE k >= size
  <2>7. Len(a) >= Len(to) /\ Len(c) >= Len(to)
    BY <1>1, <1>2, <1>3, <1>9
  <2>1. Through(a, to) <=> \A i \in 1 .. size - 1 : a[i] = to[i]
    <3>1. Through(a, to) <=> Len(a) >= Len(to) /\ \A i \in 1 .. Len(to) - 1 : a[i] = to[i]
      BY ThroughIs
    <3> QED
      BY <1>1, <2>7, <3>1
  <2>2. Through(c, to) <=> \A i \in 1 .. size - 1 : c[i] = to[i]
    <3>1. Through(c, to) <=> Len(c) >= Len(to) /\ \A i \in 1 .. Len(to) - 1 : c[i] = to[i]
      BY ThroughIs
    <3> QED
      BY <1>1, <2>7, <3>1
  <2>3. \A i \in 1 .. size - 1 : i \in 1 .. k - 1
    BY <1>1, <1>3, <1>9
  <2>4. Through(a, to) <=> Through(c, to)
    BY <1>2, <2>1, <2>2, <2>3
  <2>5. CASE ~Through(a, to)
    BY <1>2, <1>4, <1>5, <2>4, <2>5 DEF Bent
  <2>6. CASE Through(a, to)
    <3>1. /\ v[size].dir = a[size].dir /\ v[size].side = a[size].side /\ v[size].ratio = Adjust(a[size].ratio, b)
          /\ w[size].dir = c[size].dir /\ w[size].side = c[size].side /\ w[size].ratio = Adjust(c[size].ratio, b)
      BY <1>1, <1>6, <2>4, <2>6 DEF IsBent
    <3>2. \A i \in 1 .. k : i # size => v[i] = a[i] /\ w[i] = c[i]
      <4>1. \A i \in 1 .. k : i \in 1 .. Len(a) /\ i \in 1 .. Len(c)
        BY <1>2, <1>3
      <4> QED
        BY <1>1, <1>6, <4>1 DEF IsBent
    <3>3. v \in Seq(Turns) /\ w \in Seq(Turns) /\ Len(v) = Len(a) /\ Len(w) = Len(c)
      BY <1>6 DEF IsBent
    <3>4. ASSUME NEW i \in 1 .. k - 1
          PROVE  v[i] = w[i]
      <4>1. i \in 1 .. k /\ a[i] = c[i]
        BY <1>2, <1>3
      <4>2. CASE i # size
        BY <3>2, <4>1, <4>2
      <4>3. CASE i = size
        <5>1. i \in 1 .. Len(v) /\ i \in 1 .. Len(w)
          BY <1>2, <1>3, <3>3, <4>1
        <5>2. v[i] \in Turns /\ w[i] \in Turns
          BY <3>3, <5>1, ElementOfSeq
        <5>3. v[i].dir = w[i].dir /\ v[i].side = w[i].side /\ v[i].ratio = w[i].ratio
          BY <3>1, <4>1, <4>3
        <5>4. PICK x \in Turns, y \in Turns : x = v[i] /\ y = w[i]
          BY <5>2
        <5>5. x.dir = y.dir /\ x.side = y.side /\ x.ratio = y.ratio
          BY <5>3, <5>4
        <5> QED
          BY <5>4, <5>5, SameTurn
      <4> QED
        BY <4>2, <4>3
    <3>5. v[k].dir = w[k].dir /\ v[k].ratio = w[k].ratio /\ v[k].side # w[k].side
      <4>1. k \in 1 .. k
        BY <1>2, <1>3
      <4>2. CASE k = size
        BY <1>2, <3>1, <4>2
      <4>3. CASE k # size
        BY <1>2, <3>2, <4>1, <4>3
      <4> QED
        BY <4>2, <4>3
    <3>6. Meet(v, w, k)
      BY <1>7, <3>4, <3>5 DEF Meet
    <3> QED
      BY <1>4, <1>5, <3>6
  <2> QED
    BY <2>5, <2>6
<1> QED
  BY <1>1, <1>3, <1>8, <1>9

\* A resized tree is a tree, of the same leaves.
LEMMA ResizedTree ==
  ASSUME NEW tree, IsTree(tree), NEW n \in 0 .. Len(tree) - 1, NEW grow
  PROVE  /\ IsTree(ResizeLeaf(tree, n, grow)) /\ Len(ResizeLeaf(tree, n, grow)) = Len(tree)
         /\ \A m \in 1 .. Len(tree) : ResizeLeaf(tree, n, grow)[m].editor = tree[m].editor
<1>1. tree \in Seq(Leaves) /\ Parted(tree) /\ Paired(tree) /\ Len(tree) > 0
  BY DEF IsTree
<1>2. PICK size \in Nat : size = Len(tree)
  BY <1>1, LenProperties
<1>3. DOMAIN tree = 1 .. size /\ n + 1 \in 1 .. Len(tree)
  BY <1>1, <1>2, LenProperties
<1>4. \A m \in 1 .. size : tree[m] \in Leaves /\ tree[m].way \in Seq(Turns)
  <2>1. \A k \in 1 .. Len(tree) : tree[k] \in Leaves
    BY <1>1, ElementOfSeq
  <2>2. \A leaf \in Leaves : leaf.way \in Seq(Turns)
    BY DEF Leaves
  <2> QED
    BY <1>2, <2>1, <2>2
<1>5. PICK to \in Seq(Turns) : to = tree[n + 1].way
  BY <1>2, <1>3, <1>4
<1>6. CASE to = <<>>
  BY <1>5, <1>6 DEF ResizeLeaf
<1>7. CASE to # <<>>
  <2>1. Len(to) > 0
    BY <1>7, EmptySeq
  <2>2. PICK b : b = (grow = (Last(to).side = "first"))
    OBVIOUS
  <2> DEFINE u == [m \in 1 .. size |-> [editor |-> tree[m].editor, way |-> Bent(tree[m].way, to, b)]]
  <2>3. \A m \in 1 .. size : [editor |-> tree[m].editor, way |-> Bent(tree[m].way, to, b)] \in Leaves
    <3>1. ASSUME NEW m \in 1 .. size
          PROVE  [editor |-> tree[m].editor, way |-> Bent(tree[m].way, to, b)] \in Leaves
      <4>1. IsBent(Bent(tree[m].way, to, b), tree[m].way, to, b)
        BY <1>4, <2>1, BentIs
      <4>2. Bent(tree[m].way, to, b) \in Seq(Turns)
        BY <4>1 DEF IsBent
      <4>3. tree[m].editor \in Nat
        BY <1>4 DEF Leaves
      <4> QED
        BY <4>2, <4>3 DEF Leaves
    <3> QED
      BY <3>1
  <2>4. ResizeLeaf(tree, n, grow) = u
    <3>1. ResizeLeaf(tree, n, grow) =
            [m \in 1 .. size |-> IF Through(tree[m].way, to) THEN [tree[m] EXCEPT !.way[Len(to)].ratio = Adjust(@, b)] ELSE tree[m]]
      BY <1>3, <1>5, <1>7, <2>2 DEF ResizeLeaf
    <3>2. \A m \in 1 .. size : (IF Through(tree[m].way, to) THEN [tree[m] EXCEPT !.way[Len(to)].ratio = Adjust(@, b)] ELSE tree[m])
                               = [editor |-> tree[m].editor, way |-> Bent(tree[m].way, to, b)]
      <4>1. \A m \in 1 .. size : tree[m] = [editor |-> tree[m].editor, way |-> tree[m].way]
        BY <1>4 DEF Leaves
      <4>2. ASSUME NEW m \in 1 .. size
            PROVE  (IF Through(tree[m].way, to) THEN [tree[m] EXCEPT !.way[Len(to)].ratio = Adjust(@, b)] ELSE tree[m])
                               = [editor |-> tree[m].editor, way |-> Bent(tree[m].way, to, b)]
        <5>1. CASE ~Through(tree[m].way, to)
          BY <4>1, <5>1 DEF Bent
        <5>2. CASE Through(tree[m].way, to)
          <6>1. PICK leaf \in Leaves : leaf = tree[m]
            BY <1>4
          <6>0. leaf = [editor |-> leaf.editor, way |-> leaf.way]
            BY DEF Leaves
          <6>3. PICK ed, v : ed = leaf.editor /\ v = leaf.way
            OBVIOUS
          <6>4. leaf = [editor |-> ed, way |-> v]
            BY <6>0, <6>3
          <6>5. [leaf EXCEPT !.way[Len(to)].ratio = Adjust(@, b)] = [editor |-> ed, way |-> [v EXCEPT ![Len(to)].ratio = Adjust(@, b)]]
            BY <6>4
          <6>2. [leaf EXCEPT !.way[Len(to)].ratio = Adjust(@, b)] = [editor |-> leaf.editor, way |-> [leaf.way EXCEPT ![Len(to)].ratio = Adjust(@, b)]]
            BY <6>3, <6>5
          <6> QED
            BY <5>2, <6>1, <6>2 DEF Bent
        <5> QED
          BY <5>1, <5>2
      <4> QED
        BY <4>2
    <3> QED
      BY <3>1, <3>2
  <2>5. u \in Seq(Leaves) /\ Len(u) = size /\ DOMAIN u = 1 .. size
    <3>1. u \in Seq(Leaves)
      BY <2>3
    <3>2. DOMAIN u = 1 .. size
      OBVIOUS
    <3> HIDE DEF u
    <3> QED
      BY <3>1, <3>2, LenProperties
  <2>6. \A m \in 1 .. size : u[m].way = Bent(tree[m].way, to, b) /\ u[m].editor = tree[m].editor
    OBVIOUS
  <2> HIDE DEF u
  <2>7. Parted(u)
    <3>1. ASSUME NEW k \in 1 .. size, NEW l \in 1 .. size, k # l
          PROVE  \E j \in Nat : Meet(u[k].way, u[l].way, j)
      <4>1. PICK j \in Nat : Meet(tree[k].way, tree[l].way, j)
        BY <1>1, <1>3, <3>1 DEF Parted
      <4>2. Meet(Bent(tree[k].way, to, b), Bent(tree[l].way, to, b), j)
        BY <1>4, <2>1, <4>1, MeetBent
      <4> QED
        BY <2>6, <4>2
    <3> QED
      BY <2>5, <3>1 DEF Parted
  <2>8. Paired(u)
    <3>1. ASSUME NEW l \in 1 .. size, NEW j \in 1 .. Len(u[l].way)
          PROVE  \E k \in 1 .. size : Meet(u[l].way, u[k].way, j)
      <4>1. IsBent(u[l].way, tree[l].way, to, b)
        BY <1>4, <2>1, <2>6, BentIs
      <4>2. j \in 1 .. Len(tree[l].way)
        BY <4>1 DEF IsBent
      <4>3. PICK m \in 1 .. size : Meet(tree[l].way, tree[m].way, j)
        BY <1>1, <1>3, <4>2 DEF Paired
      <4>4. Meet(Bent(tree[l].way, to, b), Bent(tree[m].way, to, b), j)
        BY <1>4, <2>1, <4>3, MeetBent
      <4> QED
        BY <2>6, <4>4
    <3> QED
      BY <2>5, <3>1 DEF Paired
  <2> QED
    BY <1>1, <1>2, <2>4, <2>5, <2>6, <2>7, <2>8 DEF IsTree
<1> QED
  BY <1>6, <1>7

-----------------------------------------------------------------------------
(* Removing a pane.                                                        *)

\* A way without the split right above a leaf.
Lifted(way, to) == IF Through(way, to) THEN RemoveAt(way, Len(to)) ELSE way

IsLifted(v, way, to) ==
  /\ v \in Seq(Turns)
  /\ IF Through(way, to)
     THEN Len(v) = Len(way) - 1 /\ \A k \in 1 .. Len(way) - 1 : v[k] = IF k < Len(to) THEN way[k] ELSE way[k + 1]
     ELSE v = way

\* It is one turn shorter, or the same.
LEMMA LiftedIs ==
  ASSUME NEW to \in Seq(Turns), Len(to) > 0, NEW way \in Seq(Turns)
  PROVE  IsLifted(Lifted(way, to), way, to)
<1>1. CASE ~Through(way, to)
  BY <1>1 DEF Lifted, IsLifted
<1>2. CASE Through(way, to)
  <2>1. Len(to) \in Nat /\ Len(way) \in Nat /\ Len(way) >= Len(to)
    BY <1>2, LenProperties, ThroughIs
  <2>2. Len(to) \in 1 .. Len(way)
    BY <2>1
  <2>3. IsRemoved(RemoveAt(way, Len(to)), Turns, way, Len(to))
    BY <2>2, RemoveAtIs
  <2> QED
    BY <1>2, <2>3 DEF Lifted, IsLifted, IsRemoved
<1> QED
  BY <1>1, <1>2

\* Ways that part elsewhere than at the split that goes still part.
LEMMA MeetLifted ==
  ASSUME NEW to \in Seq(Turns), Len(to) > 0, NEW a \in Seq(Turns), NEW c \in Seq(Turns), NEW k, Meet(a, c, k),
         k = Len(to) => ~Through(a, to)
  PROVE  Meet(Lifted(a, to), Lifted(c, to), IF Through(a, to) /\ k > Len(to) THEN k - 1 ELSE k)
<1>1. PICK size \in Nat : size = Len(to) /\ size > 0
  BY LenProperties
<1>2. /\ k \in 1 .. Len(a) /\ k \in 1 .. Len(c) /\ (\A i \in 1 .. k - 1 : a[i] = c[i])
      /\ a[k].dir = c[k].dir /\ a[k].ratio = c[k].ratio /\ a[k].side # c[k].side
  BY DEF Meet
<1>3. Len(a) \in Nat /\ Len(c) \in Nat /\ k \in Nat
  BY <1>2, LenProperties
<1>4. PICK v : v = Lifted(a, to)
  OBVIOUS
<1>5. PICK w : w = Lifted(c, to)
  OBVIOUS
<1>6. IsLifted(v, a, to) /\ IsLifted(w, c, to)
  BY <1>4, <1>5, LiftedIs
<1>7. v \in Seq(Turns) /\ w \in Seq(Turns)
  BY <1>6 DEF IsLifted
<1>8. CASE k < size
  <2>1. \A i \in 1 .. k : i < size /\ i \in 1 .. Len(a) /\ i \in 1 .. Len(c)
    BY <1>1, <1>2, <1>3, <1>8
  <2>2. k \in 1 .. Len(v) /\ \A i \in 1 .. k : v[i] = a[i]
    <3>1. CASE ~Through(a, to)
      BY <1>2, <1>6, <3>1 DEF IsLifted
    <3>2. CASE Through(a, to)
      <4>1. Len(a) >= size
        BY <1>1, <3>2, ThroughIs
      <4>2. k \in 1 .. Len(a) - 1 /\ \A i \in 1 .. k : i \in 1 .. Len(a) - 1
        BY <1>1, <1>2, <1>3, <1>8, <4>1
      <4> QED
        BY <1>1, <1>6, <2>1, <3>2, <4>2 DEF IsLifted
    <3> QED
      BY <3>1, <3>2
  <2>3. k \in 1 .. Len(w) /\ \A i \in 1 .. k : w[i] = c[i]
    <3>1. CASE ~Through(c, to)
      BY <1>2, <1>6, <3>1 DEF IsLifted
    <3>2. CASE Through(c, to)
      <4>1. Len(c) >= size
        BY <1>1, <3>2, ThroughIs
      <4>2. k \in 1 .. Len(c) - 1 /\ \A i \in 1 .. k : i \in 1 .. Len(c) - 1
        BY <1>1, <1>2, <1>3, <1>8, <4>1
      <4> QED
        BY <1>1, <1>6, <2>1, <3>2, <4>2 DEF IsLifted
    <3> QED
      BY <3>1, <3>2
  <2>4. k \in 1 .. k /\ \A i \in 1 .. k - 1 : i \in 1 .. k
    BY <1>2, <1>3
  <2>5. Meet(v, w, k)
    BY <1>2, <2>2, <2>3, <2>4 DEF Meet
  <2>6. ~(k > Len(to))
    BY <1>1, <1>3, <1>8
  <2> QED
    BY <1>4, <1>5, <2>5, <2>6
<1>9. CASE k >= size
  <2>1. \A i \in 1 .. size - 1 : i \in 1 .. k - 1
    BY <1>1, <1>3, <1>9
  <2>2. Len(a) >= size /\ Len(c) >= size
    BY <1>1, <1>2, <1>3, <1>9
  <2>3. Through(a, to) <=> \A i \in 1 .. size - 1 : a[i] = to[i]
    BY <1>1, <2>2, ThroughIs
  <2>4. Through(c, to) <=> \A i \in 1 .. size - 1 : c[i] = to[i]
    BY <1>1, <2>2, ThroughIs
  <2>5. Through(a, to) <=> Through(c, to)
    BY <1>2, <2>1, <2>3, <2>4
  <2>6. CASE ~Through(a, to)
    BY <1>2, <2>5, <2>6 DEF Lifted
  <2>7. CASE Through(a, to)
    <3>1. k > size
      BY <1>1, <1>3, <1>9, <2>7
    <3>2. Len(v) = Len(a) - 1 /\ \A i \in 1 .. Len(a) - 1 : v[i] = IF i < size THEN a[i] ELSE a[i + 1]
      BY <1>1, <1>6, <2>7 DEF IsLifted
    <3>3. Len(w) = Len(c) - 1 /\ \A i \in 1 .. Len(c) - 1 : w[i] = IF i < size THEN c[i] ELSE c[i + 1]
      BY <1>1, <1>6, <2>5, <2>7 DEF IsLifted
    <3>4. PICK j \in Nat : j = k - 1
      BY <1>1, <1>3, <3>1
    <3>5. j \in 1 .. Len(a) - 1 /\ j \in 1 .. Len(c) - 1 /\ j + 1 = k /\ ~(j < size)
      BY <1>1, <1>2, <1>3, <3>1, <3>4
    <3>6. v[j] = a[k] /\ w[j] = c[k]
      BY <3>2, <3>3, <3>5
    <3>7. ASSUME NEW i \in 1 .. j - 1
          PROVE  v[i] = w[i]
      <4>1. i \in 1 .. Len(a) - 1 /\ i \in 1 .. Len(c) - 1 /\ i \in 1 .. k - 1 /\ i + 1 \in 1 .. k - 1
        BY <1>2, <1>3, <3>5
      <4> QED
        BY <1>2, <3>2, <3>3, <4>1
    <3>8. j \in 1 .. Len(v) /\ j \in 1 .. Len(w)
      BY <3>2, <3>3, <3>5
    <3>9. Meet(v, w, j)
      BY <1>2, <3>6, <3>7, <3>8 DEF Meet
    <3> QED
      BY <1>1, <1>4, <1>5, <2>7, <3>1, <3>4, <3>9
  <2> QED
    BY <2>6, <2>7
<1> QED
  BY <1>1, <1>3, <1>8, <1>9

\* Of a tree's leaves, those that go through the split right above one, and are not that one,
\* part from it there.
LEMMA ThroughMeets ==
  ASSUME NEW to \in Seq(Turns), NEW a \in Seq(Turns), NEW j, Meet(a, to, j), Through(a, to), Len(to) > 0
  PROVE  j = Len(to)
<1>1. PICK size \in Nat : size = Len(to) /\ size > 0
  BY LenProperties
<1>2. j \in 1 .. size /\ a[j].side # to[j].side
  BY <1>1 DEF Meet
<1>3. \A i \in 1 .. size - 1 : a[i] = to[i]
  BY <1>1, ThroughIs
<1>4. j \notin 1 .. size - 1
  BY <1>2, <1>3
<1> QED
  BY <1>1, <1>2, <1>4

\* A tree without one of its leaves is a tree.
LEMMA RemovedTree ==
  ASSUME NEW tree, IsTree(tree), NEW n \in 0 .. Len(tree) - 1, Len(tree) > 1
  PROVE  /\ IsTree(RemoveLeaf(tree, n)) /\ Len(RemoveLeaf(tree, n)) = Len(tree) - 1
         /\ \A k \in DOMAIN RemoveLeaf(tree, n) : RemoveLeaf(tree, n)[k].editor \in {tree[m].editor : m \in DOMAIN tree}
<1>1. tree \in Seq(Leaves) /\ Parted(tree) /\ Paired(tree)
  BY DEF IsTree
<1>2. PICK size \in Nat : size = Len(tree) /\ size > 1
  BY <1>1, LenProperties
<1>3. DOMAIN tree = 1 .. size /\ n \in Nat /\ n + 1 \in 1 .. Len(tree) /\ n + 1 \in 1 .. size
  BY <1>1, <1>2, LenProperties
<1>4. \A m \in 1 .. size : tree[m] \in Leaves /\ tree[m].way \in Seq(Turns) /\ tree[m].editor \in Nat
  <2>1. \A k \in 1 .. Len(tree) : tree[k] \in Leaves
    BY <1>1, ElementOfSeq
  <2>2. \A leaf \in Leaves : leaf.way \in Seq(Turns) /\ leaf.editor \in Nat
    BY DEF Leaves
  <2> QED
    BY <1>2, <2>1, <2>2
<1>5. PICK to \in Seq(Turns) : to = tree[n + 1].way
  BY <1>3, <1>4
<1>6. \A m \in 1 .. size : m # n + 1 => \E j \in Nat : Meet(tree[m].way, to, j)
  BY <1>1, <1>3, <1>5 DEF Parted
<1>7. PICK len \in Nat : len = Len(to) /\ len > 0
  <2>1. \E m \in 1 .. size : m # n + 1
    BY <1>2
  <2>2. PICK m \in 1 .. size, j \in Nat : Meet(tree[m].way, to, j)
    BY <1>6, <2>1
  <2>3. j \in 1 .. Len(to)
    BY <2>2 DEF Meet
  <2>4. Len(to) \in Nat
    BY LenProperties
  <2> QED
    BY <2>3, <2>4
<1>8. to # <<>>
  BY <1>7, EmptySeq
<1>9. PICK rest : rest = RemoveAt(tree, n + 1)
  OBVIOUS
<1>10. IsRemoved(rest, Leaves, tree, n + 1)
  BY <1>1, <1>3, <1>9, RemoveAtIs
<1>11. /\ rest \in Seq(Leaves) /\ Len(rest) = size - 1 /\ DOMAIN rest = 1 .. size - 1
       /\ \A k \in 1 .. size - 1 : rest[k] = IF k < n + 1 THEN tree[k] ELSE tree[k + 1]
  BY <1>2, <1>10, LenProperties DEF IsRemoved
<1> DEFINE o == [k \in 1 .. size - 1 |-> IF k < n + 1 THEN k ELSE k + 1]
<1>12. /\ \A k \in 1 .. size - 1 : o[k] \in 1 .. size /\ o[k] # n + 1 /\ rest[k] = tree[o[k]]
       /\ \A k, l \in 1 .. size - 1 : k # l => o[k] # o[l]
       /\ \A m \in 1 .. size : m # n + 1 => \E k \in 1 .. size - 1 : o[k] = m
  <2>1. \A k \in 1 .. size - 1 : o[k] = IF k < n + 1 THEN k ELSE k + 1
    OBVIOUS
  <2> HIDE DEF o
  <2>2. ASSUME NEW m \in 1 .. size, m # n + 1
        PROVE  \E k \in 1 .. size - 1 : o[k] = m
    <3>1. CASE m < n + 1
      <4>1. m \in 1 .. size - 1 /\ o[m] = m
        BY <1>3, <2>1, <3>1
      <4> QED
        BY <4>1
    <3>2. CASE m > n + 1
      <4>1. m - 1 \in 1 .. size - 1 /\ ~(m - 1 < n + 1) /\ (m - 1) + 1 = m
        BY <1>3, <3>2
      <4>2. o[m - 1] = m
        BY <2>1, <4>1
      <4> QED
        BY <4>1, <4>2
    <3> QED
      BY <1>3, <2>2, <3>1, <3>2
  <2>3. ASSUME NEW k \in 1 .. size - 1
        PROVE  o[k] \in 1 .. size /\ o[k] # n + 1 /\ rest[k] = tree[o[k]]
    BY <1>3, <1>11, <2>1
  <2>4. ASSUME NEW k \in 1 .. size - 1, NEW l \in 1 .. size - 1, k # l
        PROVE  o[k] # o[l]
    BY <1>3, <2>1, <2>4
  <2> QED
    BY <2>2, <2>3, <2>4
<1> HIDE DEF o
<1> DEFINE u == [m \in 1 .. size - 1 |-> [editor |-> tree[o[m]].editor, way |-> Lifted(tree[o[m]].way, to)]]
<1>13. \A m \in 1 .. size : IsLifted(Lifted(tree[m].way, to), tree[m].way, to)
  BY <1>4, <1>7, LiftedIs
<1>14. \A m \in 1 .. size - 1 : [editor |-> tree[o[m]].editor, way |-> Lifted(tree[o[m]].way, to)] \in Leaves
  BY <1>4, <1>12, <1>13 DEF IsLifted, Leaves
<1>15. RemoveLeaf(tree, n) = u
  <2>1. RemoveLeaf(tree, n) =
           [m \in 1 .. size - 1 |-> IF Through(rest[m].way, to) THEN [rest[m] EXCEPT !.way = RemoveAt(@, Len(to))] ELSE rest[m]]
    BY <1>5, <1>8, <1>9, <1>11 DEF RemoveLeaf
  <2>2. ASSUME NEW m \in 1 .. size - 1
        PROVE  (IF Through(rest[m].way, to) THEN [rest[m] EXCEPT !.way = RemoveAt(@, Len(to))] ELSE rest[m])
                 = [editor |-> tree[o[m]].editor, way |-> Lifted(tree[o[m]].way, to)]
    <3>1. rest[m] = tree[o[m]] /\ tree[o[m]] \in Leaves
      BY <1>4, <1>12
    <3>2. PICK ed, v : ed = rest[m].editor /\ v = rest[m].way
      OBVIOUS
    <3>3. rest[m] = [editor |-> ed, way |-> v]
      BY <3>1, <3>2 DEF Leaves
    <3>4. [rest[m] EXCEPT !.way = RemoveAt(@, Len(to))] = [editor |-> ed, way |-> RemoveAt(v, Len(to))]
      BY <3>3
    <3>5. tree[o[m]].editor = ed /\ tree[o[m]].way = v
      BY <3>1, <3>2
    <3> QED
      BY <3>2, <3>3, <3>4, <3>5 DEF Lifted
  <2> QED
    BY <2>1, <2>2
<1>16. u \in Seq(Leaves) /\ Len(u) = size - 1 /\ DOMAIN u = 1 .. size - 1
  <2>1. size - 1 \in Nat
    BY <1>2
  <2>2. u \in Seq(Leaves)
    BY <1>14, <2>1
  <2>3. DOMAIN u = 1 .. size - 1
    OBVIOUS
  <2> HIDE DEF u
  <2> QED
    BY <2>1, <2>2, <2>3, LenProperties
<1>17. \A m \in 1 .. size - 1 : u[m].way = Lifted(tree[o[m]].way, to) /\ u[m].editor = tree[o[m]].editor
  OBVIOUS
<1> HIDE DEF u
<1>18. Parted(u)
  <2>1. ASSUME NEW k \in 1 .. size - 1, NEW l \in 1 .. size - 1, k # l
        PROVE  \E j \in Nat : Meet(u[k].way, u[l].way, j)
    <3>1. PICK a \in Seq(Turns), c \in Seq(Turns) : a = tree[o[k]].way /\ c = tree[o[l]].way
      BY <1>4, <1>12
    <3>2. PICK j \in Nat : Meet(a, c, j)
      <4>1. o[k] \in DOMAIN tree /\ o[l] \in DOMAIN tree /\ o[k] # o[l]
        BY <1>3, <1>12, <2>1
      <4> QED
        BY <1>1, <3>1, <4>1 DEF Parted
    <3>3. ASSUME j = Len(to), Through(a, to)
          PROVE  FALSE
      <4>1. j \in 1 .. Len(a) /\ j \in 1 .. Len(c) /\ (\A i \in 1 .. j - 1 : a[i] = c[i]) /\ a[j].side # c[j].side
        BY <3>2 DEF Meet
      <4>2. Len(c) \in Nat
        BY LenProperties
      <4>3. Through(c, to)
        <5>1. Len(c) >= Len(to)
          BY <3>3, <4>1, <4>2
        <5>2. \A i \in 1 .. Len(to) - 1 : a[i] = to[i]
          BY <1>7, <3>3, ThroughIs
        <5>3. \A i \in 1 .. Len(to) - 1 : c[i] = to[i]
          BY <3>3, <4>1, <5>2
        <5> QED
          BY <1>7, <5>1, <5>3, ThroughIs
      <4>4. PICK p \in Nat : Meet(a, to, p)
        BY <1>6, <1>12, <3>1
      <4>5. PICK q \in Nat : Meet(c, to, q)
        BY <1>6, <1>12, <3>1
      <4>6. p = Len(to) /\ q = Len(to)
        BY <1>7, <3>3, <4>3, <4>4, <4>5, ThroughMeets
      <4>7. a[j].side # to[j].side /\ c[j].side # to[j].side /\ j \in 1 .. Len(to)
        BY <3>3, <4>4, <4>5, <4>6 DEF Meet
      <4>8. a[j] \in Turns /\ c[j] \in Turns /\ to[j] \in Turns
        BY <4>1, <4>7, ElementOfSeq
      <4>9. a[j].side \in {"first", "second"} /\ c[j].side \in {"first", "second"} /\ to[j].side \in {"first", "second"}
        BY <4>8 DEF Turns
      <4> QED
        BY <4>1, <4>7, <4>9
    <3>4. PICK i : i = IF Through(a, to) /\ j > Len(to) THEN j - 1 ELSE j
      OBVIOUS
    <3>5. Meet(Lifted(a, to), Lifted(c, to), i)
      BY <1>7, <3>2, <3>3, <3>4, MeetLifted
    <3>6. i \in Nat
      BY <1>7, <3>4
    <3> QED
      BY <1>17, <3>1, <3>5, <3>6
  <2> QED
    BY <1>16, <2>1 DEF Parted
<1>19. Paired(u)
  <2>1. ASSUME NEW l \in 1 .. size - 1, NEW j \in 1 .. Len(u[l].way)
        PROVE  \E k \in 1 .. size - 1 : Meet(u[l].way, u[k].way, j)
    <3>1. PICK a \in Seq(Turns) : a = tree[o[l]].way
      BY <1>4, <1>12
    <3>2. u[l].way = Lifted(a, to) /\ IsLifted(u[l].way, a, to)
      BY <1>12, <1>13, <1>17, <3>1
    <3>3. Len(a) \in Nat /\ Len(u[l].way) \in Nat
      BY <3>2, LenProperties DEF IsLifted
    <3>4. PICK i \in Nat : i = IF Through(a, to) /\ j >= len THEN j + 1 ELSE j
      BY <3>3
    <3>5. i \in 1 .. Len(a) /\ (i = len => ~Through(a, to)) /\ (IF Through(a, to) /\ i > Len(to) THEN i - 1 ELSE i) = j
      <4>1. CASE ~Through(a, to)
        <5>1. u[l].way = a
          BY <3>2, <4>1 DEF IsLifted
        <5> QED
          BY <3>4, <4>1, <5>1
      <4>2. CASE Through(a, to)
        <5>1. Len(u[l].way) = Len(a) - 1
          BY <3>2, <4>2 DEF IsLifted
        <5>2. j \in 1 .. Len(a) - 1
          BY <5>1
        <5> QED
          BY <1>7, <3>3, <3>4, <4>2, <5>2
      <4> QED
        BY <4>1, <4>2
    <3>6. ASSUME NEW m \in 1 .. size, m # n + 1, Meet(a, tree[m].way, i)
          PROVE  \E k \in 1 .. size - 1 : Meet(u[l].way, u[k].way, j)
      <4>1. PICK k \in 1 .. size - 1 : o[k] = m
        BY <1>12, <3>6
      <4>2. PICK c \in Seq(Turns) : c = tree[m].way
        BY <1>4
      <4>3. Meet(Lifted(a, to), Lifted(c, to), IF Through(a, to) /\ i > Len(to) THEN i - 1 ELSE i)
        BY <1>7, <3>5, <3>6, <4>2, MeetLifted
      <4> QED
        BY <1>17, <3>2, <3>5, <4>1, <4>2, <4>3
    <3>7. PICK m \in 1 .. size : Meet(a, tree[m].way, i)
      <4>1. o[l] \in DOMAIN tree
        BY <1>3, <1>12
      <4> QED
        BY <1>1, <1>3, <3>1, <3>5, <4>1 DEF Paired
    <3>8. CASE m # n + 1
      BY <3>6, <3>7, <3>8
    <3>9. CASE m = n + 1
      <4>1. Meet(a, to, i)
        BY <1>5, <3>7, <3>9
      <4>2. /\ i \in 1 .. Len(a) /\ i \in 1 .. len /\ (\A p \in 1 .. i - 1 : a[p] = to[p])
            /\ a[i].dir = to[i].dir /\ a[i].ratio = to[i].ratio /\ a[i].side # to[i].side
        BY <1>7, <4>1 DEF Meet
      <4>3. i < len
        <5>1. ASSUME i = len
              PROVE  FALSE
          <6>1. Len(a) >= Len(to) /\ \A p \in 1 .. Len(to) - 1 : a[p] = to[p]
            BY <1>7, <3>3, <4>2, <5>1
          <6> QED
            BY <1>7, <3>5, <5>1, <6>1, ThroughIs
        <5> QED
          BY <4>2, <5>1
      <4>4. len \in 1 .. Len(tree[n + 1].way)
        BY <1>5, <1>7
      <4>5. PICK q \in 1 .. size : Meet(to, tree[q].way, len)
        BY <1>1, <1>3, <1>5, <4>4 DEF Paired
      <4>6. PICK c \in Seq(Turns) : c = tree[q].way
        BY <1>4
      <4>7. len \in 1 .. Len(c) /\ (\A p \in 1 .. len - 1 : to[p] = c[p]) /\ to[len].side # c[len].side
        BY <4>5, <4>6 DEF Meet
      <4>8. q # n + 1
        BY <1>5, <4>6, <4>7
      <4>9. Len(c) \in Nat
        BY LenProperties
      <4>10. i \in 1 .. Len(c) /\ i \in 1 .. len - 1 /\ \A p \in 1 .. i - 1 : p \in 1 .. len - 1
        BY <4>2, <4>3, <4>7, <4>9
      <4>11. Meet(a, c, i)
        BY <4>2, <4>7, <4>10 DEF Meet
      <4> QED
        BY <3>6, <4>6, <4>8, <4>11
    <3> QED
      BY <3>8, <3>9
  <2> QED
    BY <1>16, <2>1 DEF Paired
<1>20. IsTree(u)
  BY <1>2, <1>16, <1>18, <1>19 DEF IsTree
<1>21. \A k \in 1 .. size - 1 : u[k].editor \in {tree[m].editor : m \in DOMAIN tree}
  <2>1. ASSUME NEW k \in 1 .. size - 1
        PROVE  u[k].editor \in {tree[m].editor : m \in DOMAIN tree}
    <3>1. PICK m \in DOMAIN tree : m = o[k]
      BY <1>3, <1>12
    <3>2. u[k].editor = tree[m].editor
      BY <1>17, <3>1
    <3> QED
      BY <3>2
  <2> QED
    BY <2>1
<1> QED
  BY <1>2, <1>15, <1>16, <1>20, <1>21

-----------------------------------------------------------------------------
(* Other trees.                                                            *)

\* What a tree's leaves are.
LEMMA LeavesOfTree ==
  ASSUME NEW tree, IsTree(tree)
  PROVE  /\ tree \in Seq(Leaves) /\ Len(tree) \in Nat /\ Len(tree) > 0 /\ DOMAIN tree = 1 .. Len(tree)
         /\ \A m \in 1 .. Len(tree) : /\ tree[m] \in Leaves /\ tree[m].way \in Seq(Turns) /\ tree[m].editor \in Nat
                                      /\ tree[m] = [editor |-> tree[m].editor, way |-> tree[m].way]
<1>1. tree \in Seq(Leaves) /\ Len(tree) \in Nat /\ Len(tree) > 0 /\ DOMAIN tree = 1 .. Len(tree)
  BY LenProperties DEF IsTree
<1>2. \A m \in 1 .. Len(tree) : tree[m] \in Leaves
  BY <1>1, ElementOfSeq
<1>3. \A leaf \in Leaves : leaf.way \in Seq(Turns) /\ leaf.editor \in Nat /\ leaf = [editor |-> leaf.editor, way |-> leaf.way]
  BY DEF Leaves
<1> QED
  BY <1>1, <1>2, <1>3

\* Another editor in one of the panes.
LEMMA SetTree ==
  ASSUME NEW tree, IsTree(tree), NEW n \in 0 .. Len(tree) - 1, NEW editor \in Nat
  PROVE  /\ IsTree(SetNthEditor(tree, n, editor)) /\ Len(SetNthEditor(tree, n, editor)) = Len(tree)
         /\ \A m \in 1 .. Len(tree) : SetNthEditor(tree, n, editor)[m].editor = IF m = n + 1 THEN editor ELSE tree[m].editor
<1>1. /\ tree \in Seq(Leaves) /\ Len(tree) \in Nat /\ DOMAIN tree = 1 .. Len(tree)
      /\ \A m \in 1 .. Len(tree) : /\ tree[m] \in Leaves /\ tree[m].way \in Seq(Turns) /\ tree[m].editor \in Nat
                                   /\ tree[m] = [editor |-> tree[m].editor, way |-> tree[m].way]
  BY LeavesOfTree
<1>2. n + 1 \in 1 .. Len(tree)
  BY <1>1
<1>3. PICK leaf \in Leaves : leaf = tree[n + 1]
  BY <1>1, <1>2
<1>4. [leaf EXCEPT !.editor = editor] \in Leaves /\ [leaf EXCEPT !.editor = editor].way = leaf.way /\ [leaf EXCEPT !.editor = editor].editor = editor
  BY DEF Leaves
<1>5. PICK e : e = [leaf EXCEPT !.editor = editor]
  OBVIOUS
<1>6. SetNthEditor(tree, n, editor) = [tree EXCEPT ![n + 1] = e]
  BY <1>3, <1>5 DEF SetNthEditor
<1>7. [tree EXCEPT ![n + 1] = e] \in Seq(Leaves) /\ Len([tree EXCEPT ![n + 1] = e]) = Len(tree)
      /\ \A j \in 1 .. Len(tree) : [tree EXCEPT ![n + 1] = e][j] = IF j = n + 1 THEN e ELSE tree[j]
  BY <1>1, <1>2, <1>4, <1>5, ExceptSeq
<1>8. PICK u : u = [tree EXCEPT ![n + 1] = e]
  OBVIOUS
<1>9. u \in Seq(Leaves) /\ Len(u) = Len(tree) /\ \A j \in 1 .. Len(tree) : u[j] = IF j = n + 1 THEN e ELSE tree[j]
  BY <1>7, <1>8
<1>10. \A m \in 1 .. Len(tree) : u[m].way = tree[m].way
  BY <1>3, <1>4, <1>5, <1>9
<1>11. IsTree(u)
  BY <1>9, <1>10, SameWays
<1> QED
  BY <1>4, <1>5, <1>6, <1>8, <1>9, <1>11

\* The panes of a removed editor show another, and those behind it have moved up.
LEMMA RemappedTree ==
  ASSUME NEW tree, IsTree(tree), NEW removed \in Nat, NEW replacement \in Nat
  PROVE  /\ IsTree(RemapEditors(tree, removed, replacement)) /\ Len(RemapEditors(tree, removed, replacement)) = Len(tree)
         /\ \A m \in 1 .. Len(tree) : RemapEditors(tree, removed, replacement)[m].editor =
               IF tree[m].editor = removed THEN replacement
               ELSE IF tree[m].editor > removed THEN tree[m].editor - 1 ELSE tree[m].editor
<1>1. /\ tree \in Seq(Leaves) /\ Len(tree) \in Nat /\ DOMAIN tree = 1 .. Len(tree)
      /\ \A m \in 1 .. Len(tree) : /\ tree[m] \in Leaves /\ tree[m].way \in Seq(Turns) /\ tree[m].editor \in Nat
                                   /\ tree[m] = [editor |-> tree[m].editor, way |-> tree[m].way]
  BY LeavesOfTree
<1> DEFINE to(x) == IF x = removed THEN replacement ELSE IF x > removed THEN x - 1 ELSE x
<1>2. \A x \in Nat : to(x) \in Nat
  OBVIOUS
<1>3. \A m \in 1 .. Len(tree) : [tree[m] EXCEPT !.editor = IF @ = removed THEN replacement ELSE IF @ > removed THEN @ - 1 ELSE @]
                                = [editor |-> to(tree[m].editor), way |-> tree[m].way]
  <2>1. ASSUME NEW m \in 1 .. Len(tree)
        PROVE  [tree[m] EXCEPT !.editor = IF @ = removed THEN replacement ELSE IF @ > removed THEN @ - 1 ELSE @]
                                = [editor |-> to(tree[m].editor), way |-> tree[m].way]
    <3>1. PICK ed, v : ed = tree[m].editor /\ v = tree[m].way
      OBVIOUS
    <3>2. tree[m] = [editor |-> ed, way |-> v]
      BY <1>1, <3>1
    <3>3. [tree[m] EXCEPT !.editor = IF @ = removed THEN replacement ELSE IF @ > removed THEN @ - 1 ELSE @]
             = [editor |-> IF ed = removed THEN replacement ELSE IF ed > removed THEN ed - 1 ELSE ed, way |-> v]
      BY <3>2
    <3> QED
      BY <3>1, <3>3
  <2> QED
    BY <2>1
<1>4. RemapEditors(tree, removed, replacement) = [m \in 1 .. Len(tree) |-> [editor |-> to(tree[m].editor), way |-> tree[m].way]]
  BY <1>1, <1>3 DEF RemapEditors
<1>5. \A m \in 1 .. Len(tree) : to(tree[m].editor) \in Nat
  BY <1>1, <1>2
<1> DEFINE u == [m \in 1 .. Len(tree) |-> [editor |-> to(tree[m].editor), way |-> tree[m].way]]
<1>6. \A m \in 1 .. Len(tree) : [editor |-> to(tree[m].editor), way |-> tree[m].way] \in Leaves
  BY <1>1, <1>5 DEF Leaves
<1>7. \A m \in 1 .. Len(tree) : u[m].editor = to(tree[m].editor)
  OBVIOUS
<1>8. u \in Seq(Leaves) /\ DOMAIN u = 1 .. Len(tree) /\ \A m \in 1 .. Len(tree) : u[m].way = tree[m].way
  BY <1>1, <1>6
<1> HIDE DEF u
<1>9. Len(u) = Len(tree)
  BY <1>1, <1>8, LenProperties
<1>10. IsTree(u)
  BY <1>8, <1>9, SameWays
<1> QED
  BY <1>4, <1>7, <1>9, <1>10 DEF u

\* The layout of a session has the ways of the tree, and its panes in their order.
LEMMA LayoutTree ==
  ASSUME NEW tree, IsTree(tree)
  PROVE  /\ IsTree(NodeToLayout(tree)) /\ Len(NodeToLayout(tree)) = Len(tree)
         /\ \A m \in 1 .. Len(tree) : NodeToLayout(tree)[m].editor = m /\ NodeToLayout(tree)[m].way = tree[m].way
<1>1. /\ tree \in Seq(Leaves) /\ Len(tree) \in Nat /\ DOMAIN tree = 1 .. Len(tree)
      /\ \A m \in 1 .. Len(tree) : tree[m].way \in Seq(Turns)
  BY LeavesOfTree
<1> DEFINE u == [m \in 1 .. Len(tree) |-> [editor |-> m, way |-> tree[m].way]]
<1>2. NodeToLayout(tree) = u
  BY <1>1 DEF NodeToLayout, Leaf
<1>3. \A m \in 1 .. Len(tree) : [editor |-> m, way |-> tree[m].way] \in Leaves
  BY <1>1 DEF Leaves
<1>4. u \in Seq(Leaves) /\ DOMAIN u = 1 .. Len(tree) /\ \A m \in 1 .. Len(tree) : u[m].way = tree[m].way /\ u[m].editor = m
  BY <1>1, <1>3
<1> HIDE DEF u
<1>5. Len(u) = Len(tree)
  BY <1>1, <1>4, LenProperties
<1>6. IsTree(u)
  BY <1>4, <1>5, SameWays
<1> QED
  BY <1>2, <1>4, <1>5, <1>6

-----------------------------------------------------------------------------
(* Rectangles.                                                             *)

\* Rectangles, and the cells in one.
Rects == [x : Nat, y : Nat, w : Nat, h : Nat]
Holds(r, x, y) == r.x <= x /\ x < r.x + r.w /\ r.y <= y /\ y < r.y + r.h

\* The cells of a rectangle by their coordinates.
LEMMA InsideIs ==
  ASSUME NEW r \in Rects
  PROVE  \A c : c \in Inside(r) <=> \E x, y \in Nat : c = <<x, y>> /\ Holds(r, x, y)
<1>1. r.x \in Nat /\ r.y \in Nat /\ r.w \in Nat /\ r.h \in Nat
  BY DEF Rects
<1>2. \A x : x \in r.x .. r.x + r.w - 1 <=> x \in Nat /\ r.x <= x /\ x < r.x + r.w
  BY <1>1
<1>3. \A y : y \in r.y .. r.y + r.h - 1 <=> y \in Nat /\ r.y <= y /\ y < r.y + r.h
  BY <1>1
<1>4. \A c : c \in Inside(r) <=> \E x \in r.x .. r.x + r.w - 1, y \in r.y .. r.y + r.h - 1 : c = <<x, y>>
  BY DEF Inside
<1> QED
  BY <1>2, <1>3, <1>4 DEF Holds

\* Two rectangles share the cells of a third between them.
IsHalved(p, r) ==
  /\ p[1] \in Rects /\ p[2] \in Rects
  /\ \A x, y \in Nat : Holds(r, x, y) <=> Holds(p[1], x, y) \/ Holds(p[2], x, y)
  /\ \A x, y \in Nat : ~(Holds(p[1], x, y) /\ Holds(p[2], x, y))

\* Columns, or rows, cut off a rectangle and what is left.
LEMMA SplitLeftIs ==
  ASSUME NEW r \in Rects, NEW n \in Nat
  PROVE  IsHalved(SplitLeft(r, n), r)
<1>1. r.x \in Nat /\ r.y \in Nat /\ r.w \in Nat /\ r.h \in Nat
  BY DEF Rects
<1>2. PICK k \in Nat : k = Smaller(n, r.w) /\ k <= r.w
  BY <1>1 DEF Smaller
<1>3. PICK a, b : a = Rect(r.x, r.y, k, r.h) /\ b = Rect(r.x + k, r.y, r.w - k, r.h)
  OBVIOUS
<1>4. SplitLeft(r, n) = <<a, b>>
  BY <1>2, <1>3 DEF SplitLeft
<1>5. /\ a \in Rects /\ b \in Rects /\ a.x = r.x /\ a.y = r.y /\ a.w = k /\ a.h = r.h
      /\ b.x = r.x + k /\ b.y = r.y /\ b.w = r.w - k /\ b.h = r.h
  BY <1>1, <1>2, <1>3 DEF Rect, Rects
<1>6. ASSUME NEW x \in Nat, NEW y \in Nat
      PROVE  /\ Holds(r, x, y) <=> Holds(a, x, y) \/ Holds(b, x, y)
             /\ ~(Holds(a, x, y) /\ Holds(b, x, y))
  BY <1>1, <1>2, <1>5 DEF Holds
<1> QED
  BY <1>4, <1>5, <1>6 DEF IsHalved

\* A rectangle without its first rows, and those rows, divide it.
LEMMA SplitTopIs ==
  ASSUME NEW r \in Rects, NEW n \in Nat
  PROVE  IsHalved(SplitTop(r, n), r)
<1>1. r.x \in Nat /\ r.y \in Nat /\ r.w \in Nat /\ r.h \in Nat
  BY DEF Rects
<1>2. PICK k \in Nat : k = Smaller(n, r.h) /\ k <= r.h
  BY <1>1 DEF Smaller
<1>3. PICK a, b : a = Rect(r.x, r.y, r.w, k) /\ b = Rect(r.x, r.y + k, r.w, r.h - k)
  OBVIOUS
<1>4. SplitTop(r, n) = <<a, b>>
  BY <1>2, <1>3 DEF SplitTop
<1>5. /\ a \in Rects /\ b \in Rects /\ a.x = r.x /\ a.y = r.y /\ a.h = k /\ a.w = r.w
      /\ b.y = r.y + k /\ b.x = r.x /\ b.h = r.h - k /\ b.w = r.w
  BY <1>1, <1>2, <1>3 DEF Rect, Rects
<1>6. ASSUME NEW x \in Nat, NEW y \in Nat
      PROVE  /\ Holds(r, x, y) <=> Holds(a, x, y) \/ Holds(b, x, y)
             /\ ~(Holds(a, x, y) /\ Holds(b, x, y))
  BY <1>1, <1>2, <1>5 DEF Holds
<1> QED
  BY <1>4, <1>5, <1>6 DEF IsHalved

\* A split shares the cells of its rectangle among its two sides and the rule between them.
Shared(s, r) ==
  /\ s["first"] \in Rects /\ s["second"] \in Rects /\ s.rule \in Rects
  /\ Inside(r) = Inside(s["first"]) \cup Inside(s.rule) \cup Inside(s["second"])
  /\ Inside(s["first"]) \cap Inside(s["second"]) = {}
  /\ Inside(s["first"]) \cap Inside(s.rule) = {} /\ Inside(s["second"]) \cap Inside(s.rule) = {}

\* The two sides of a split and the rule between them share its area.
LEMMA SplitAreaIs ==
  ASSUME NEW r \in Rects, NEW dir \in {"columns", "rows"}, NEW ratio \in Nat
  PROVE  Shared(SplitArea(r, dir, ratio), r)
<1>1. r.x \in Nat /\ r.y \in Nat /\ r.w \in Nat /\ r.h \in Nat
  BY DEF Rects
<1>2. PICK size \in Nat : size = IF dir = "columns" THEN r.w ELSE r.h
  BY <1>1
<1>3. PICK rule \in Nat : rule = (IF size >= 3 THEN 1 ELSE 0) /\ size - rule \in Int
  OBVIOUS
<1>4. PICK first \in Nat : first = IF size < 2 THEN size ELSE FirstSize(size - rule, ratio)
  <2>1. CASE size < 2
    BY <2>1
  <2>2. CASE ~(size < 2)
    <3>1. PICK span \in Nat : span = size - rule /\ span >= 1
      BY <1>3, <2>2
    <3>2. span * ratio \in Nat
      OBVIOUS
    <3>3. PICK product \in Nat : product = span * ratio
      BY <3>2
    <3>4. product \div 100 \in Nat
      OBVIOUS
    <3>5. FirstSize(span, ratio) \in Nat
      BY <3>1, <3>3, <3>4 DEF FirstSize, Larger, Smaller
    <3> QED
      BY <2>2, <3>1, <3>5
  <2> QED
    BY <2>1, <2>2
<1>5. PICK k \in Nat : k = IF size < 2 THEN 0 ELSE rule
  BY <1>3
<1>6. PICK p, q : /\ p = (IF dir = "columns" THEN SplitLeft(r, first) ELSE SplitTop(r, first))
                  /\ q = (IF dir = "columns" THEN SplitLeft(p[2], k) ELSE SplitTop(p[2], k))
  OBVIOUS
<1>7. SplitArea(r, dir, ratio) = [first |-> p[1], rule |-> q[1], second |-> q[2]]
  BY <1>2, <1>3, <1>4, <1>5, <1>6 DEF SplitArea
<1>8. IsHalved(p, r)
  BY <1>6, SplitLeftIs, SplitTopIs
<1>9. p[1] \in Rects /\ p[2] \in Rects
  BY <1>8 DEF IsHalved
<1>10. IsHalved(q, p[2])
  BY <1>6, <1>9, SplitLeftIs, SplitTopIs
<1>11. PICK s : s = SplitArea(r, dir, ratio)
  OBVIOUS
<1>12. s["first"] = p[1] /\ s["second"] = q[2] /\ s.rule = q[1]
  BY <1>7, <1>11
<1>13. PICK a \in Rects, b \in Rects, c \in Rects, d \in Rects : a = p[1] /\ b = q[2] /\ c = q[1] /\ d = p[2]
  BY <1>9, <1>10 DEF IsHalved
<1>14. \A x, y \in Nat : /\ Holds(r, x, y) <=> Holds(a, x, y) \/ Holds(d, x, y)
                         /\ ~(Holds(a, x, y) /\ Holds(d, x, y))
                         /\ Holds(d, x, y) <=> Holds(c, x, y) \/ Holds(b, x, y)
                         /\ ~(Holds(c, x, y) /\ Holds(b, x, y))
  BY <1>8, <1>10, <1>13 DEF IsHalved
<1>15. Inside(r) = Inside(a) \cup Inside(c) \cup Inside(b)
  <2>1. ASSUME NEW e
        PROVE  e \in Inside(r) <=> e \in Inside(a) \/ e \in Inside(c) \/ e \in Inside(b)
    <3>1. /\ e \in Inside(r) <=> \E x, y \in Nat : e = <<x, y>> /\ Holds(r, x, y)
          /\ e \in Inside(a) <=> \E x, y \in Nat : e = <<x, y>> /\ Holds(a, x, y)
          /\ e \in Inside(b) <=> \E x, y \in Nat : e = <<x, y>> /\ Holds(b, x, y)
          /\ e \in Inside(c) <=> \E x, y \in Nat : e = <<x, y>> /\ Holds(c, x, y)
      BY InsideIs
    <3> QED
      BY <1>14, <3>1
  <2> QED
    BY <2>1
<1>16. ASSUME NEW t \in Rects, NEW u \in Rects, \A x, y \in Nat : ~(Holds(t, x, y) /\ Holds(u, x, y))
       PROVE  Inside(t) \cap Inside(u) = {}
  <2>1. ASSUME NEW e, e \in Inside(t), e \in Inside(u)
        PROVE  FALSE
    <3>1. PICK x \in Nat, y \in Nat : e = <<x, y>> /\ Holds(t, x, y)
      BY <2>1, InsideIs
    <3>2. PICK v \in Nat, w \in Nat : e = <<v, w>> /\ Holds(u, v, w)
      BY <2>1, InsideIs
    <3>3. x = v /\ y = w
      BY <3>1, <3>2
    <3> QED
      BY <1>16, <3>1, <3>2, <3>3
  <2> QED
    BY <2>1
<1>17. Inside(a) \cap Inside(b) = {}
  BY <1>14, <1>16
<1>18. Inside(a) \cap Inside(c) = {}
  BY <1>14, <1>16
<1>19. Inside(b) \cap Inside(c) = {}
  BY <1>14, <1>16
<1>20. Shared(s, r)
  BY <1>12, <1>13, <1>15, <1>17, <1>18, <1>19 DEF Shared
<1> QED
  BY <1>11, <1>20

-----------------------------------------------------------------------------
(* The rectangles on the way to a pane.                                    *)

\* The rectangles along a way, from the area on.
NextRect(r, t) == SplitArea(r, t.dir, t.ratio)[t.side]
IsPath(f, area, way) ==
  /\ f \in [0 .. Len(way) -> Rects] /\ f[0] = area
  /\ \A k \in 1 .. Len(way) : f[k] = NextRect(f[k - 1], way[k])

\* A turn leads to a rectangle inside the one it is taken in.
LEMMA NextRectIs ==
  ASSUME NEW r \in Rects, NEW t \in Turns
  PROVE  NextRect(r, t) \in Rects /\ Inside(NextRect(r, t)) \subseteq Inside(r)
<1>1. t.dir \in {"columns", "rows"} /\ t.ratio \in Nat /\ t.side \in {"first", "second"}
  BY DEF Turns
<1>2. Shared(SplitArea(r, t.dir, t.ratio), r)
  BY <1>1, SplitAreaIs
<1> QED
  BY <1>1, <1>2 DEF Shared, NextRect

\* Every way has its rectangles.
LEMMA PathExists ==
  ASSUME NEW area \in Rects, NEW way \in Seq(Turns)
  PROVE  \E f : IsPath(f, area, way)
<1>1. PICK size \in Nat : size = Len(way)
  BY LenProperties
<1> DEFINE P(m, f) == /\ f \in [0 .. m -> Rects] /\ f[0] = area
                      /\ \A k \in 1 .. m : f[k] = NextRect(f[k - 1], way[k])
<1> DEFINE S == {m \in Nat : m <= size => \E f : P(m, f)}
<1>2. 0 \in S
  <2>1. P(0, [k \in 0 .. 0 |-> area])
    OBVIOUS
  <2> QED
    BY <2>1
<1>3. ASSUME NEW m \in Nat, m \in S
      PROVE  m + 1 \in S
  <2>1. SUFFICES ASSUME m + 1 <= size
                 PROVE  \E f : P(m + 1, f)
    OBVIOUS
  <2>2. PICK f : P(m, f)
    BY <1>3, <2>1
  <2>3. m + 1 \in 1 .. Len(way) /\ m \in 0 .. m
    BY <1>1, <2>1
  <2>4. way[m + 1] \in Turns /\ f[m] \in Rects
    BY <2>2, <2>3, ElementOfSeq
  <2>5. PICK r \in Rects : r = NextRect(f[m], way[m + 1])
    BY <2>4, NextRectIs
  <2> DEFINE g == [k \in 0 .. m + 1 |-> IF k = m + 1 THEN r ELSE f[k]]
  <2>6. \A k \in 0 .. m + 1 : g[k] = IF k = m + 1 THEN r ELSE f[k]
    OBVIOUS
  <2>7. g \in [0 .. m + 1 -> Rects]
    <3>1. \A k \in 0 .. m + 1 : (IF k = m + 1 THEN r ELSE f[k]) \in Rects
      <4>1. \A k \in 0 .. m + 1 : k # m + 1 => k \in 0 .. m
        OBVIOUS
      <4> QED
        BY <2>2, <4>1
    <3> QED
      BY <3>1
  <2> HIDE DEF g
  <2>8. g[0] = area
    BY <2>2, <2>6
  <2>9. ASSUME NEW k \in 1 .. m + 1
        PROVE  g[k] = NextRect(g[k - 1], way[k])
    <3>1. k \in 0 .. m + 1 /\ k - 1 \in 0 .. m + 1 /\ k - 1 # m + 1
      OBVIOUS
    <3>2. g[k - 1] = f[k - 1]
      BY <2>6, <3>1
    <3>3. CASE k = m + 1
      <4>1. k - 1 = m
        BY <3>3
      <4> QED
        BY <2>5, <2>6, <3>1, <3>2, <3>3, <4>1
    <3>4. CASE k # m + 1
      <4>1. k \in 1 .. m
        BY <3>4
      <4> QED
        BY <2>2, <2>6, <3>1, <3>2, <3>4, <4>1
    <3> QED
      BY <3>3, <3>4
  <2>10. P(m + 1, g)
    BY <2>7, <2>8, <2>9
  <2> QED
    BY <2>10
<1>4. \A m \in Nat : m \in S
  <2> HIDE DEF S
  <2> QED
    BY <1>2, <1>3, Counting
<1>5. \E f : P(size, f)
  <2>1. size \in S
    <3> HIDE DEF S
    <3> QED
      BY <1>4
  <2>2. size <= size
    OBVIOUS
  <2> HIDE DEF P
  <2> QED
    BY <2>1, <2>2
<1>7. PICK f : P(size, f)
  <2> HIDE DEF P
  <2> QED
    BY <1>5
<1>6. IsPath(f, area, way)
  BY <1>1, <1>7 DEF IsPath
<1> QED
  BY <1>6

\* Where a way leads is where its rectangles end.
LEMMA PathIs ==
  ASSUME NEW area \in Rects, NEW way \in Seq(Turns), NEW f, IsPath(f, area, way)
  PROVE  RectAt(area, way) = f[Len(way)]
<1>1. PICK size \in Nat : size = Len(way)
  BY LenProperties
<1> DEFINE F(rect) == [k \in 0 .. Len(way) |-> IF k = 0 THEN area ELSE SplitArea(rect[k - 1], way[k].dir, way[k].ratio)[way[k].side]]
<1>2. f = F(f)
  <2>1. f = [k \in 0 .. Len(way) |-> f[k]]
    BY DEF IsPath
  <2>2. \A k \in 0 .. Len(way) : f[k] = IF k = 0 THEN area ELSE SplitArea(f[k - 1], way[k].dir, way[k].ratio)[way[k].side]
    <3>1. \A k \in 0 .. Len(way) : k # 0 => k \in 1 .. Len(way)
      BY <1>1
    <3> QED
      BY <3>1 DEF IsPath, NextRect
  <2> QED
    BY <2>1, <2>2
<1> DEFINE rect == CHOOSE rect : rect = F(rect)
<1>3. rect = F(rect)
  <2> HIDE DEF F
  <2> QED
    BY <1>2, Zenon
<1>4. RectAt(area, way) = rect[Len(way)]
  BY Zenon DEF RectAt
<1>5. \A k \in 0 .. Len(way) : rect[k] = IF k = 0 THEN area ELSE SplitArea(rect[k - 1], way[k].dir, way[k].ratio)[way[k].side]
  <2> HIDE DEF rect
  <2>1. \A k \in 0 .. Len(way) : F(rect)[k] = IF k = 0 THEN area ELSE SplitArea(rect[k - 1], way[k].dir, way[k].ratio)[way[k].side]
    OBVIOUS
  <2> HIDE DEF F
  <2> QED
    BY <1>3, <2>1
<1> HIDE DEF rect
<1> DEFINE S == {m \in Nat : m <= size => rect[m] = f[m]}
<1>6. 0 \in S
  <2>1. 0 \in 0 .. Len(way)
    BY <1>1
  <2>2. rect[0] = area
    BY <1>5, <2>1
  <2> QED
    BY <2>2 DEF IsPath
<1>7. ASSUME NEW m \in Nat, m \in S
      PROVE  m + 1 \in S
  <2>1. SUFFICES ASSUME m + 1 <= size
                 PROVE  rect[m + 1] = f[m + 1]
    OBVIOUS
  <2>2. m + 1 \in 0 .. Len(way) /\ m + 1 \in 1 .. Len(way) /\ m + 1 # 0 /\ (m + 1) - 1 = m
    BY <1>1, <2>1
  <2>3. rect[m] = f[m]
    BY <1>7, <2>1
  <2>4. rect[m + 1] = SplitArea(rect[m], way[m + 1].dir, way[m + 1].ratio)[way[m + 1].side]
    BY <1>5, <2>2
  <2>5. f[m + 1] = NextRect(f[m], way[m + 1])
    <3>1. f[m + 1] = NextRect(f[(m + 1) - 1], way[m + 1])
      BY <2>2 DEF IsPath
    <3> QED
      BY <2>2, <3>1
  <2> QED
    BY <2>3, <2>4, <2>5 DEF NextRect
<1>8. \A m \in Nat : m \in S
  <2> HIDE DEF S
  <2> QED
    BY <1>6, <1>7, Counting
<1> QED
  BY <1>1, <1>4, <1>8

\* Ways that agree up to a turn share the rectangles up to there.
LEMMA PathsAgree ==
  ASSUME NEW area, NEW a, NEW b, NEW f, NEW g, IsPath(f, area, a), IsPath(g, area, b),
         NEW n \in Nat, n <= Len(a), n <= Len(b), Len(a) \in Nat, Len(b) \in Nat, \A i \in 1 .. n : a[i] = b[i]
  PROVE  \A i \in 0 .. n : f[i] = g[i]
<1> DEFINE S == {m \in Nat : m <= n => f[m] = g[m]}
<1>1. 0 \in S
  BY DEF IsPath
<1>2. ASSUME NEW m \in Nat, m \in S
      PROVE  m + 1 \in S
  <2>1. SUFFICES ASSUME m + 1 <= n
                 PROVE  f[m + 1] = g[m + 1]
    OBVIOUS
  <2>2. m + 1 \in 1 .. Len(a) /\ m + 1 \in 1 .. Len(b) /\ m + 1 \in 1 .. n /\ (m + 1) - 1 = m
    BY <2>1
  <2>3. f[m] = g[m]
    BY <1>2, <2>1
  <2>4. f[m + 1] = NextRect(f[(m + 1) - 1], a[m + 1]) /\ g[m + 1] = NextRect(g[(m + 1) - 1], b[m + 1])
    BY <2>2 DEF IsPath
  <2> QED
    BY <2>2, <2>3, <2>4
<1>3. \A m \in Nat : m \in S
  <2> HIDE DEF S
  <2> QED
    BY <1>1, <1>2, Counting
<1> QED
  BY <1>3

\* Each rectangle along a way is inside those before it.
LEMMA PathsNarrow ==
  ASSUME NEW area, NEW way \in Seq(Turns), NEW f, IsPath(f, area, way), NEW i \in 0 .. Len(way), NEW j \in 0 .. Len(way), i <= j
  PROVE  Inside(f[j]) \subseteq Inside(f[i])
<1>1. Len(way) \in Nat
  BY LenProperties
<1> DEFINE S == {m \in Nat : i + m <= Len(way) => Inside(f[i + m]) \subseteq Inside(f[i])}
<1>2. 0 \in S
  OBVIOUS
<1>3. ASSUME NEW m \in Nat, m \in S
      PROVE  m + 1 \in S
  <2>1. SUFFICES ASSUME i + (m + 1) <= Len(way)
                 PROVE  Inside(f[i + (m + 1)]) \subseteq Inside(f[i])
    OBVIOUS
  <2>2. PICK k \in Nat : k = i + (m + 1)
    BY <1>1
  <2>3. k \in 1 .. Len(way) /\ k - 1 = i + m /\ k - 1 \in 0 .. Len(way) /\ i + m <= Len(way)
    BY <1>1, <2>1, <2>2
  <2>4. f[k] = NextRect(f[k - 1], way[k]) /\ f[k - 1] \in Rects /\ way[k] \in Turns
    BY <2>3, ElementOfSeq DEF IsPath
  <2>5. Inside(f[k]) \subseteq Inside(f[k - 1])
    BY <2>4, NextRectIs
  <2>6. Inside(f[k - 1]) \subseteq Inside(f[i])
    BY <1>3, <2>3
  <2> QED
    BY <2>2, <2>5, <2>6
<1>4. \A m \in Nat : m \in S
  <2> HIDE DEF S
  <2> QED
    BY <1>2, <1>3, Counting
<1>5. j - i \in Nat /\ i + (j - i) = j /\ j <= Len(way)
  BY <1>1
<1>6. j - i \in S
  BY <1>4, <1>5
<1> QED
  BY <1>5, <1>6

\* The way to a split, and the split at a turn of a leaf's way.
Above(way, k) == SubSeq(way, 1, k - 1)
SplitOf(tree, n, k) == [to |-> Above(tree[n].way, k), dir |-> tree[n].way[k].dir, ratio |-> tree[n].way[k].ratio]

\* The turns of a way before one of them.
LEMMA AboveIs ==
  ASSUME NEW way \in Seq(Turns), NEW k \in 1 .. Len(way)
  PROVE  Above(way, k) \in Seq(Turns) /\ Len(Above(way, k)) = k - 1 /\ \A i \in 1 .. k - 1 : Above(way, k)[i] = way[i]
<1>1. Len(way) \in Nat
  BY LenProperties
<1>2. \A i \in 1 .. k - 1 : i \in 1 .. Len(way)
  BY <1>1
<1>3. \A i \in 1 .. k - 1 : way[i] \in Turns
  BY <1>2, ElementOfSeq
<1>4. 1 \in Int /\ k - 1 \in Int
  BY <1>1
<1> DEFINE p == SubSeq(way, 1, k - 1)
<1>5. /\ p \in Seq(Turns) /\ Len(p) = (IF 1 <= k - 1 THEN k - 1 - 1 + 1 ELSE 0)
      /\ \A i \in 1 .. k - 1 - 1 + 1 : p[i] = way[1 + i - 1]
  BY <1>3, <1>4, SubSeqProperties
<1>6. Above(way, k) = p
  BY DEF Above
<1> HIDE DEF p
<1>7. (IF 1 <= k - 1 THEN k - 1 - 1 + 1 ELSE 0) = k - 1 /\ \A i \in 1 .. k - 1 : i \in 1 .. k - 1 - 1 + 1 /\ 1 + i - 1 = i
  BY <1>1
<1> QED
  BY <1>5, <1>6, <1>7

\* Two ways that agree up to a turn have the same way to it.
LEMMA SameAbove ==
  ASSUME NEW a \in Seq(Turns), NEW b \in Seq(Turns), NEW k, k \in 1 .. Len(a), k \in 1 .. Len(b), \A i \in 1 .. k - 1 : a[i] = b[i]
  PROVE  Above(a, k) = Above(b, k)
<1>1. PICK p, q : p = Above(a, k) /\ q = Above(b, k)
  OBVIOUS
<1>2. p \in Seq(Turns) /\ Len(p) = k - 1 /\ \A i \in 1 .. k - 1 : p[i] = a[i]
  BY <1>1, AboveIs
<1>3. q \in Seq(Turns) /\ Len(q) = k - 1 /\ \A i \in 1 .. k - 1 : q[i] = b[i]
  BY <1>1, AboveIs
<1>4. \A i \in 1 .. Len(p) : p[i] = q[i]
  BY <1>2, <1>3
<1>5. p = q
  BY <1>2, <1>3, <1>4, SeqEqual
<1> QED
  BY <1>1, <1>5

-----------------------------------------------------------------------------
\* The rectangles along the ways to all leaves, and the rule at a turn of one.
Paths(F, tree, area) == \A n \in 1 .. Len(tree) : IsPath(F[n], area, tree[n].way)
RuleAt(F, tree, n, k) == SplitArea(F[n][k - 1], tree[n].way[k].dir, tree[n].way[k].ratio).rule
Places(tree) == {p \in (1 .. Len(tree)) \X Nat : p[2] \in 1 .. Len(tree[p[1]].way)}

\* Every leaf of a tree has its rectangles on the way to it.
LEMMA PathsExist ==
  ASSUME NEW tree, IsTree(tree), NEW area \in Rects
  PROVE  \E F : Paths(F, tree, area)
<1> DEFINE F == [n \in 1 .. Len(tree) |-> CHOOSE f : IsPath(f, area, tree[n].way)]
<1>1. \A n \in 1 .. Len(tree) : tree[n].way \in Seq(Turns)
  BY LeavesOfTree
<1>2. \A n \in 1 .. Len(tree) : \E f : IsPath(f, area, tree[n].way)
  BY <1>1, PathExists
<1>3. \A n \in 1 .. Len(tree) : F[n] = CHOOSE f : IsPath(f, area, tree[n].way)
  OBVIOUS
<1>4. ASSUME NEW n \in 1 .. Len(tree)
      PROVE  IsPath(F[n], area, tree[n].way)
  <2> HIDE DEF F
  <2>1. \E f : IsPath(f, area, tree[n].way)
    BY <1>2
  <2>2. IsPath(CHOOSE f : IsPath(f, area, tree[n].way), area, tree[n].way)
    BY <2>1, Zenon
  <2> QED
    BY <1>3, <2>2
<1> QED
  BY <1>4 DEF Paths

\* What is at a turn of a leaf's way: the sides of the split and its rule share what was there.
LEMMA TurnIs ==
  ASSUME NEW tree, IsTree(tree), NEW area \in Rects, NEW F, Paths(F, tree, area),
         NEW n \in 1 .. Len(tree), NEW way \in Seq(Turns), way = tree[n].way, NEW k \in 1 .. Len(way),
         NEW s, s = SplitArea(F[n][k - 1], way[k].dir, way[k].ratio)
  PROVE  /\ Shared(s, F[n][k - 1]) /\ F[n][k] = s[way[k].side] /\ s.rule = RuleAt(F, tree, n, k)
         /\ way[k].side \in {"first", "second"}
<1>1. IsPath(F[n], area, way)
  BY DEF Paths
<1>2. PICK f : f = F[n] /\ IsPath(f, area, way)
  BY <1>1
<1>3. k - 1 \in 0 .. Len(way) /\ k \in 1 .. Len(way)
  BY <1>2, LenProperties
<1>4. way[k] \in Turns /\ f[k - 1] \in Rects /\ f[k] = NextRect(f[k - 1], way[k])
  BY <1>2, <1>3, ElementOfSeq DEF IsPath
<1>5. way[k].dir \in {"columns", "rows"} /\ way[k].ratio \in Nat /\ way[k].side \in {"first", "second"}
  BY <1>4 DEF Turns
<1>6. Shared(SplitArea(f[k - 1], way[k].dir, way[k].ratio), f[k - 1])
  BY <1>4, <1>5, SplitAreaIs
<1> QED
  BY <1>2, <1>4, <1>5, <1>6 DEF NextRect, RuleAt

\* Two leaves are on the two sides of the j-th split on their ways.
Sides(F, tree, m, n, j) ==
  /\ \A i \in 0 .. j - 1 : F[m][i] = F[n][i]
  /\ Inside(F[m][j]) \cap Inside(F[n][j]) = {}
  /\ Inside(F[m][j - 1]) = Inside(F[m][j]) \cup Inside(F[n][j]) \cup Inside(RuleAt(F, tree, m, j))

\* So they are at the split where they part.
LEMMA SidesOfMeet ==
  ASSUME NEW tree, IsTree(tree), NEW area \in Rects, NEW F, Paths(F, tree, area),
         NEW m \in 1 .. Len(tree), NEW n \in 1 .. Len(tree), NEW j, Meet(tree[m].way, tree[n].way, j)
  PROVE  Sides(F, tree, m, n, j)
<1>1. PICK a \in Seq(Turns), b \in Seq(Turns) : a = tree[m].way /\ b = tree[n].way
  BY LeavesOfTree
<1>2. /\ j \in 1 .. Len(a) /\ j \in 1 .. Len(b) /\ (\A i \in 1 .. j - 1 : a[i] = b[i])
      /\ a[j].dir = b[j].dir /\ a[j].ratio = b[j].ratio /\ a[j].side # b[j].side
  BY <1>1 DEF Meet
<1>3. Len(a) \in Nat /\ Len(b) \in Nat
  BY LenProperties
<1>4. IsPath(F[m], area, a) /\ IsPath(F[n], area, b)
  BY <1>1 DEF Paths
<1>5. PICK i \in Nat : i = j - 1 /\ i <= Len(a) /\ i <= Len(b) /\ i \in 0 .. i
  BY <1>2, <1>3
<1>0. \A p \in 1 .. i : a[p] = b[p]
  BY <1>2, <1>5
<1>6. \A p \in 0 .. i : F[m][p] = F[n][p]
  BY <1>0, <1>3, <1>4, <1>5, PathsAgree
<1>7. PICK s : s = SplitArea(F[m][j - 1], a[j].dir, a[j].ratio)
  OBVIOUS
<1>8. s = SplitArea(F[n][j - 1], b[j].dir, b[j].ratio)
  BY <1>2, <1>5, <1>6, <1>7
<1>9. Shared(s, F[m][j - 1]) /\ F[m][j] = s[a[j].side] /\ s.rule = RuleAt(F, tree, m, j) /\ a[j].side \in {"first", "second"}
  BY <1>1, <1>2, <1>7, TurnIs
<1>10. F[n][j] = s[b[j].side] /\ b[j].side \in {"first", "second"}
  BY <1>1, <1>2, <1>8, TurnIs
<1>11. (a[j].side = "first" /\ b[j].side = "second") \/ (a[j].side = "second" /\ b[j].side = "first")
  BY <1>2, <1>9, <1>10
<1> QED
  BY <1>5, <1>6, <1>9, <1>10, <1>11 DEF Shared, Sides

\* The places of the layout are where the ways lead, its rules those at the turns.
LEMMA LayoutIs ==
  ASSUME NEW tree, IsTree(tree), NEW area \in Rects, NEW F, Paths(F, tree, area)
  PROVE  /\ DOMAIN Layout(tree, area).panes = 1 .. Len(tree)
         /\ \A n \in 1 .. Len(tree) : Layout(tree, area).panes[n] = F[n][Len(tree[n].way)]
         /\ DOMAIN Layout(tree, area).rules = {SplitOf(tree, p[1], p[2]) : p \in Places(tree)}
         /\ \A p \in Places(tree) : Layout(tree, area).rules[SplitOf(tree, p[1], p[2])] = RuleAt(F, tree, p[1], p[2])
<1>1. DOMAIN tree = 1 .. Len(tree) /\ \A n \in 1 .. Len(tree) : tree[n].way \in Seq(Turns) /\ IsPath(F[n], area, tree[n].way)
  BY LeavesOfTree DEF Paths
<1>2. \A n \in 1 .. Len(tree) : DOMAIN tree[n].way = 1 .. Len(tree[n].way) /\ Len(tree[n].way) \in Nat
  BY <1>1, LenProperties
<1> DEFINE l == Layout(tree, area)
<1>3. DOMAIN l.panes = 1 .. Len(tree) /\ \A n \in 1 .. Len(tree) : l.panes[n] = RectAt(area, tree[n].way)
  BY <1>1 DEF Layout
<1>4. \A n \in 1 .. Len(tree) : RectAt(area, tree[n].way) = F[n][Len(tree[n].way)]
  BY <1>1, PathIs
<1>5. DOMAIN l.rules = Splits(tree) /\ \A s \in Splits(tree) : l.rules[s] = SplitArea(RectAt(area, s.to), s.dir, s.ratio).rule
  BY DEF Layout
<1> HIDE DEF l
<1>6. Splits(tree) = {SplitOf(tree, p[1], p[2]) : p \in Places(tree)}
  <2>1. ASSUME NEW s \in Splits(tree)
        PROVE  s \in {SplitOf(tree, p[1], p[2]) : p \in Places(tree)}
    <3>0. PICK n \in DOMAIN tree : \E k \in DOMAIN tree[n].way : s = [to |-> SubSeq(tree[n].way, 1, k - 1), dir |-> tree[n].way[k].dir, ratio |-> tree[n].way[k].ratio]
      BY DEF Splits
    <3>1. PICK k \in DOMAIN tree[n].way : s = [to |-> SubSeq(tree[n].way, 1, k - 1), dir |-> tree[n].way[k].dir, ratio |-> tree[n].way[k].ratio]
      BY <3>0
    <3>2. n \in 1 .. Len(tree) /\ k \in 1 .. Len(tree[n].way) /\ k \in Nat
      BY <1>1, <1>2, <3>1
    <3>3. s = SplitOf(tree, n, k)
      BY <3>1 DEF SplitOf, Above
    <3>4. PICK p \in Places(tree) : p = <<n, k>>
      BY <3>2 DEF Places
    <3>5. s = SplitOf(tree, p[1], p[2])
      BY <3>3, <3>4
    <3> QED
      BY <3>5
  <2>2. ASSUME NEW p \in Places(tree)
        PROVE  SplitOf(tree, p[1], p[2]) \in Splits(tree)
    <3>1. PICK n, k : n \in DOMAIN tree /\ n = p[1] /\ k = p[2] /\ k \in DOMAIN tree[n].way
      BY <1>1, <1>2 DEF Places
    <3>2. SplitOf(tree, n, k) \in {[to |-> SubSeq(tree[n].way, 1, i - 1), dir |-> tree[n].way[i].dir, ratio |-> tree[n].way[i].ratio] :
               i \in DOMAIN tree[n].way}
      BY <3>1 DEF SplitOf, Above
    <3> DEFINE B(m) == {[to |-> SubSeq(tree[m].way, 1, i - 1), dir |-> tree[m].way[i].dir, ratio |-> tree[m].way[i].ratio] :
               i \in DOMAIN tree[m].way}
    <3>3. Splits(tree) = UNION {B(m) : m \in DOMAIN tree}
      BY DEF Splits
    <3>4. SplitOf(tree, n, k) \in B(n)
      BY <3>2
    <3> HIDE DEF B
    <3>5. B(n) \in {B(m) : m \in DOMAIN tree}
      BY <3>1
    <3>6. SplitOf(tree, n, k) \in UNION {B(m) : m \in DOMAIN tree}
      BY <3>4, <3>5
    <3> QED
      BY <3>1, <3>3, <3>6
  <2> QED
    BY <2>1, <2>2
<1>7. ASSUME NEW p \in Places(tree)
      PROVE  l.rules[SplitOf(tree, p[1], p[2])] = RuleAt(F, tree, p[1], p[2])
  <2>1. PICK n \in 1 .. Len(tree), k \in Nat : p[1] = n /\ p[2] = k /\ k \in 1 .. Len(tree[n].way)
    BY DEF Places
  <2>2. PICK s : s = SplitOf(tree, n, k)
    OBVIOUS
  <2>3. s \in Splits(tree)
    BY <1>6, <2>1, <2>2
  <2>4. s.to = Above(tree[n].way, k) /\ s.dir = tree[n].way[k].dir /\ s.ratio = tree[n].way[k].ratio
    BY <2>2 DEF SplitOf
  <2>13. PICK b \in Seq(Turns) : b = tree[n].way
    BY <1>1
  <2>14. Above(b, k) \in Seq(Turns) /\ Len(Above(b, k)) = k - 1 /\ \A i \in 1 .. k - 1 : Above(b, k)[i] = b[i]
    BY <2>1, <2>13, AboveIs
  <2>5. PICK a \in Seq(Turns) : a = Above(tree[n].way, k) /\ b = tree[n].way /\ Len(a) = k - 1 /\ \A i \in 1 .. k - 1 : a[i] = b[i]
    BY <2>13, <2>14
  <2>6. PICK f : IsPath(f, area, a)
    BY PathExists
  <2>15. k - 1 \in Nat /\ k - 1 <= Len(tree[n].way)
    BY <1>2, <2>1
  <2>7. PICK i \in Nat : i = k - 1
    BY <2>15
  <2>8. i <= Len(a) /\ i <= Len(b) /\ Len(a) \in Nat /\ Len(b) \in Nat /\ i \in 0 .. i
    BY <1>2, <2>5, <2>7, <2>15
  <2>9. IsPath(F[n], area, b)
    BY <1>1, <2>5
  <2>10. \A q \in 0 .. i : f[q] = F[n][q]
    BY <2>5, <2>6, <2>7, <2>8, <2>9, PathsAgree
  <2>11. RectAt(area, a) = f[Len(a)]
    BY <2>6, PathIs
  <2>12. RectAt(area, s.to) = F[n][k - 1]
    BY <2>4, <2>5, <2>7, <2>8, <2>10, <2>11
  <2> QED
    BY <1>5, <2>1, <2>2, <2>3, <2>4, <2>12 DEF RuleAt
<1> QED
  BY <1>3, <1>4, <1>5, <1>6, <1>7 DEF l

-----------------------------------------------------------------------------
(* The panes and the rules tile the area.                                  *)

\* The last rectangle of a way in the tree that has a cell is a pane, or the cell is on a rule.
LEMMA CellsAreCovered ==
  ASSUME NEW tree, IsTree(tree), NEW area \in Rects, NEW F, Paths(F, tree, area), NEW c \in Inside(area)
  PROVE  \/ \E n \in 1 .. Len(tree) : c \in Inside(F[n][Len(tree[n].way)])
         \/ \E p \in Places(tree) : c \in Inside(RuleAt(F, tree, p[1], p[2]))
<1>1. PICK size \in Nat : size = Len(tree) /\ size > 0 /\ DOMAIN tree = 1 .. size
  BY LeavesOfTree
<1>2. \A n \in 1 .. size : tree[n].way \in Seq(Turns) /\ Len(tree[n].way) \in Nat /\ IsPath(F[n], area, tree[n].way)
  BY <1>1, LeavesOfTree, LenProperties DEF Paths
<1> DEFINE lens == [n \in 1 .. size |-> Len(tree[n].way)]
<1>3. lens \in [1 .. size -> Nat]
  BY <1>2
<1>4. \A n \in 1 .. size : lens[n] = Len(tree[n].way)
  OBVIOUS
<1> HIDE DEF lens
<1>5. PICK b \in Nat : \A n \in 1 .. size : lens[n] <= b
  BY <1>3, SequencesAreBounded
<1> DEFINE S == {k \in 0 .. b : \E n \in 1 .. size : k <= Len(tree[n].way) /\ c \in Inside(F[n][k])}
<1>6. S \in SUBSET (0 .. b)
  OBVIOUS
<1>7. S # {}
  <2>1. 1 \in 1 .. size /\ 0 \in 0 .. b
    BY <1>1
  <2>2. F[1][0] = area /\ 0 <= Len(tree[1].way)
    BY <1>2, <2>1 DEF IsPath
  <2>3. 0 \in S
    BY <2>1, <2>2
  <2> QED
    BY <2>3
<1>8. \A k \in S : k \in Nat /\ \E n \in 1 .. size : k <= Len(tree[n].way) /\ c \in Inside(F[n][k])
  OBVIOUS
<1>9. ASSUME NEW n \in 1 .. size, NEW k \in Nat, k <= Len(tree[n].way), c \in Inside(F[n][k])
      PROVE  k \in S
  <2>1. k \in 0 .. b
    BY <1>2, <1>4, <1>5, <1>9
  <2> QED
    BY <1>9, <2>1
<1> HIDE DEF S
<1>10. PICK k \in S : \A j \in S : k >= j
  BY <1>6, <1>7, GreatestIndex
<1>11. PICK n \in 1 .. size : k <= Len(tree[n].way) /\ c \in Inside(F[n][k])
  BY <1>8
<1>12. k \in Nat
  BY <1>8
<1>13. CASE k = Len(tree[n].way)
  BY <1>1, <1>11, <1>13
<1>14. CASE k # Len(tree[n].way)
  <2>1. PICK way \in Seq(Turns) : way = tree[n].way
    BY <1>2
  <2>2. PICK i \in Nat : i = k + 1 /\ i \in 1 .. Len(way) /\ i - 1 = k /\ i <= Len(way)
    BY <1>2, <1>11, <1>12, <1>14, <2>1
  <2>3. i \notin S
    BY <1>10, <1>12, <2>2
  <2>4. PICK m \in 1 .. size : Meet(tree[n].way, tree[m].way, i)
    BY <1>1, <2>1, <2>2 DEF IsTree, Paired
  <2>10. n \in 1 .. Len(tree) /\ m \in 1 .. Len(tree)
    BY <1>1
  <2>5. /\ Inside(F[n][i - 1]) = Inside(F[n][i]) \cup Inside(F[m][i]) \cup Inside(RuleAt(F, tree, n, i))
    <3>1. Sides(F, tree, n, m, i)
      BY <2>4, <2>10, SidesOfMeet
    <3> QED
      BY <3>1 DEF Sides
  <2>6. i <= Len(tree[m].way)
    BY <1>2, <2>4 DEF Meet
  <2>7. c \notin Inside(F[n][i]) /\ c \notin Inside(F[m][i])
    BY <1>9, <2>1, <2>2, <2>3, <2>6
  <2>8. c \in Inside(RuleAt(F, tree, n, i))
    BY <1>11, <2>2, <2>5, <2>7
  <2>9. PICK p \in Places(tree) : p[1] = n /\ p[2] = i
    <3>1. <<n, i>> \in Places(tree)
      BY <1>1, <2>1, <2>2 DEF Places
    <3> QED
      BY <3>1
  <2> QED
    BY <2>8, <2>9
<1> QED
  BY <1>13, <1>14

\* A pane lies on the leaf's side of every split on its way, and beside the rule there.
LEMMA PaneBesideRule ==
  ASSUME NEW tree, IsTree(tree), NEW area \in Rects, NEW F, Paths(F, tree, area),
         NEW n \in 1 .. Len(tree), NEW k \in 1 .. Len(tree[n].way), NEW j \in k .. Len(tree[n].way)
  PROVE  /\ Inside(F[n][j]) \cap Inside(RuleAt(F, tree, n, k)) = {}
         /\ Inside(RuleAt(F, tree, n, k)) \subseteq Inside(F[n][k - 1])
<1>1. PICK way \in Seq(Turns) : way = tree[n].way
  BY LeavesOfTree
<1>2. PICK s : s = SplitArea(F[n][k - 1], way[k].dir, way[k].ratio)
  OBVIOUS
<1>3. Shared(s, F[n][k - 1]) /\ F[n][k] = s[way[k].side] /\ s.rule = RuleAt(F, tree, n, k) /\ way[k].side \in {"first", "second"}
  BY <1>1, <1>2, TurnIs
<1>4. Inside(F[n][k]) \cap Inside(RuleAt(F, tree, n, k)) = {} /\ Inside(RuleAt(F, tree, n, k)) \subseteq Inside(F[n][k - 1])
  BY <1>3 DEF Shared
<1>5. Len(way) \in Nat
  BY LenProperties
<1>6. k \in 0 .. Len(way) /\ j \in 0 .. Len(way) /\ k <= j
  BY <1>1, <1>5
<1>7. IsPath(F[n], area, way)
  BY <1>1 DEF Paths
<1>8. Inside(F[n][j]) \subseteq Inside(F[n][k])
  BY <1>6, <1>7, PathsNarrow
<1> QED
  BY <1>4, <1>8

\* The k-th split on two ways is one.
OnBoth(F, tree, m, n, k) ==
  /\ k \in 1 .. Len(tree[m].way) /\ k \in 1 .. Len(tree[n].way)
  /\ SplitOf(tree, m, k) = SplitOf(tree, n, k) /\ RuleAt(F, tree, m, k) = RuleAt(F, tree, n, k)

\* A split above the one where two leaves part, or that one, is on the way to both.
LEMMA SplitOfBoth ==
  ASSUME NEW tree, IsTree(tree), NEW area \in Rects, NEW F, Paths(F, tree, area),
         NEW m \in 1 .. Len(tree), NEW n \in 1 .. Len(tree), NEW j, Meet(tree[m].way, tree[n].way, j), NEW k \in 1 .. j
  PROVE  OnBoth(F, tree, m, n, k)
<1>1. PICK a \in Seq(Turns), b \in Seq(Turns) : a = tree[m].way /\ b = tree[n].way
  BY LeavesOfTree
<1>2. /\ j \in 1 .. Len(a) /\ j \in 1 .. Len(b) /\ (\A i \in 1 .. j - 1 : a[i] = b[i])
      /\ a[j].dir = b[j].dir /\ a[j].ratio = b[j].ratio
  BY <1>1 DEF Meet
<1>3. Len(a) \in Nat /\ Len(b) \in Nat
  BY LenProperties
<1>4. k \in 1 .. Len(a) /\ k \in 1 .. Len(b) /\ k - 1 \in 0 .. j - 1 /\ \A i \in 1 .. k - 1 : i \in 1 .. j - 1
  BY <1>2, <1>3
<1>5. Above(a, k) = Above(b, k)
  BY <1>2, <1>4, SameAbove
<1>6. a[k].dir = b[k].dir /\ a[k].ratio = b[k].ratio
  <2>1. CASE k = j
    BY <1>2, <2>1
  <2>2. CASE k # j
    <3>1. k \in 1 .. j - 1
      BY <1>2, <1>3, <2>2
    <3> QED
      BY <1>2, <3>1
  <2> QED
    BY <2>1, <2>2
<1>7. \A i \in 0 .. j - 1 : F[m][i] = F[n][i]
  BY SidesOfMeet DEF Sides
<1>8. F[m][k - 1] = F[n][k - 1]
  BY <1>4, <1>7
<1> QED
  BY <1>1, <1>4, <1>5, <1>6, <1>8 DEF SplitOf, RuleAt, OnBoth

\* Leaves that part before a turn of either have nothing in common there.
LEMMA ApartBelow ==
  ASSUME NEW tree, IsTree(tree), NEW area \in Rects, NEW F, Paths(F, tree, area),
         NEW m \in 1 .. Len(tree), NEW n \in 1 .. Len(tree), NEW j, Meet(tree[m].way, tree[n].way, j),
         NEW k \in j .. Len(tree[m].way), NEW l \in j .. Len(tree[n].way)
  PROVE  Inside(F[m][k]) \cap Inside(F[n][l]) = {}
<1>1. PICK a \in Seq(Turns), b \in Seq(Turns) : a = tree[m].way /\ b = tree[n].way
  BY LeavesOfTree
<1>2. Len(a) \in Nat /\ Len(b) \in Nat /\ j \in 1 .. Len(a) /\ j \in 1 .. Len(b)
  BY <1>1, LenProperties DEF Meet
<1>3. IsPath(F[m], area, a) /\ IsPath(F[n], area, b)
  BY <1>1 DEF Paths
<1>4. j \in 0 .. Len(a) /\ k \in 0 .. Len(a) /\ j <= k
  BY <1>1, <1>2
<1>5. j \in 0 .. Len(b) /\ l \in 0 .. Len(b) /\ j <= l
  BY <1>1, <1>2
<1>6. Inside(F[m][k]) \subseteq Inside(F[m][j]) /\ Inside(F[n][l]) \subseteq Inside(F[n][j])
  BY <1>3, <1>4, <1>5, PathsNarrow
<1>7. Inside(F[m][j]) \cap Inside(F[n][j]) = {}
  BY SidesOfMeet DEF Sides
<1> QED
  BY <1>6, <1>7

\* Different splits have rules apart.
LEMMA RulesApart ==
  ASSUME NEW tree, IsTree(tree), NEW area \in Rects, NEW F, Paths(F, tree, area),
         NEW m \in 1 .. Len(tree), NEW k \in 1 .. Len(tree[m].way), NEW n \in 1 .. Len(tree), NEW l \in 1 .. Len(tree[n].way),
         SplitOf(tree, m, k) # SplitOf(tree, n, l)
  PROVE  Inside(RuleAt(F, tree, m, k)) \cap Inside(RuleAt(F, tree, n, l)) = {}
<1>1. \A p \in 1 .. Len(tree) : tree[p].way \in Seq(Turns) /\ Len(tree[p].way) \in Nat
  BY LeavesOfTree, LenProperties
<1>2. ASSUME NEW p \in 1 .. Len(tree), NEW i \in 1 .. Len(tree[p].way), NEW q \in 1 .. Len(tree[p].way), i < q
      PROVE  Inside(RuleAt(F, tree, p, i)) \cap Inside(RuleAt(F, tree, p, q)) = {}
  <2>1. q - 1 \in i .. Len(tree[p].way) /\ q \in q .. Len(tree[p].way)
    BY <1>1, <1>2
  <2>2. Inside(F[p][q - 1]) \cap Inside(RuleAt(F, tree, p, i)) = {}
    BY <2>1, PaneBesideRule
  <2>3. Inside(RuleAt(F, tree, p, q)) \subseteq Inside(F[p][q - 1])
    BY <2>1, PaneBesideRule
  <2> QED
    BY <2>2, <2>3
<1>3. ASSUME NEW p \in 1 .. Len(tree), NEW i \in 1 .. Len(tree[p].way), NEW q \in 1 .. Len(tree[p].way), i # q
      PROVE  Inside(RuleAt(F, tree, p, i)) \cap Inside(RuleAt(F, tree, p, q)) = {}
  <2>1. i \in Nat /\ q \in Nat
    BY <1>1
  <2>2. i < q \/ q < i
    BY <1>3, <2>1
  <2> QED
    BY <1>2, <2>2
<1>4. CASE m = n
  BY <1>3, <1>4
<1>5. CASE m # n
  <2>1. PICK j \in Nat : Meet(tree[m].way, tree[n].way, j)
    BY <1>5, LeavesOfTree DEF IsTree, Parted
  <2>2. CASE k <= j
    <3>1. k \in 1 .. j
      BY <1>1, <2>1, <2>2
    <3>2. k \in 1 .. Len(tree[n].way) /\ SplitOf(tree, m, k) = SplitOf(tree, n, k) /\ RuleAt(F, tree, m, k) = RuleAt(F, tree, n, k)
      <4>1. OnBoth(F, tree, m, n, k)
        BY <2>1, <3>1, SplitOfBoth
      <4> QED
        BY <4>1 DEF OnBoth
    <3>3. k # l
      BY <3>2
    <3> QED
      BY <1>3, <3>2, <3>3
  <2>3. CASE l <= j
    <3>1. l \in 1 .. j
      BY <1>1, <2>1, <2>3
    <3>2. l \in 1 .. Len(tree[m].way) /\ SplitOf(tree, m, l) = SplitOf(tree, n, l) /\ RuleAt(F, tree, m, l) = RuleAt(F, tree, n, l)
      <4>1. OnBoth(F, tree, m, n, l)
        BY <2>1, <3>1, SplitOfBoth
      <4> QED
        BY <4>1 DEF OnBoth
    <3>3. k # l
      BY <3>2
    <3> QED
      BY <1>3, <3>2, <3>3
  <2>4. CASE k > j /\ l > j
    <3>1. k - 1 \in j .. Len(tree[m].way) /\ l - 1 \in j .. Len(tree[n].way)
      BY <1>1, <2>1, <2>4
    <3>2. Inside(F[m][k - 1]) \cap Inside(F[n][l - 1]) = {}
      BY <2>1, <3>1, ApartBelow
    <3>3. k \in k .. Len(tree[m].way) /\ l \in l .. Len(tree[n].way)
      BY <1>1
    <3>4. Inside(RuleAt(F, tree, m, k)) \subseteq Inside(F[m][k - 1]) /\ Inside(RuleAt(F, tree, n, l)) \subseteq Inside(F[n][l - 1])
      BY <3>3, PaneBesideRule
    <3> QED
      BY <3>2, <3>4
  <2>5. k \in Nat /\ l \in Nat
    BY <1>1
  <2> QED
    BY <2>1, <2>2, <2>3, <2>4, <2>5
<1> QED
  BY <1>4, <1>5

\* A rule lies on no pane.
LEMMA RulesBesidePanes ==
  ASSUME NEW tree, IsTree(tree), NEW area \in Rects, NEW F, Paths(F, tree, area),
         NEW m \in 1 .. Len(tree), NEW k \in 1 .. Len(tree[m].way), NEW n \in 1 .. Len(tree)
  PROVE  Inside(RuleAt(F, tree, m, k)) \cap Inside(F[n][Len(tree[n].way)]) = {}
<1>1. \A p \in 1 .. Len(tree) : tree[p].way \in Seq(Turns) /\ Len(tree[p].way) \in Nat
  BY LeavesOfTree, LenProperties
<1>2. ASSUME NEW i \in 1 .. Len(tree[n].way)
      PROVE  Inside(RuleAt(F, tree, n, i)) \cap Inside(F[n][Len(tree[n].way)]) = {}
  <2>1. Len(tree[n].way) \in i .. Len(tree[n].way)
    BY <1>1
  <2> QED
    BY <2>1, PaneBesideRule
<1>3. CASE m = n
  BY <1>2, <1>3
<1>4. CASE m # n
  <2>1. PICK j \in Nat : Meet(tree[m].way, tree[n].way, j)
    BY <1>4, LeavesOfTree DEF IsTree, Parted
  <2>2. CASE k <= j
    <3>1. k \in 1 .. j
      BY <1>1, <2>1, <2>2
    <3>2. k \in 1 .. Len(tree[n].way) /\ RuleAt(F, tree, m, k) = RuleAt(F, tree, n, k)
      <4>1. OnBoth(F, tree, m, n, k)
        BY <2>1, <3>1, SplitOfBoth
      <4> QED
        BY <4>1 DEF OnBoth
    <3> QED
      BY <1>2, <3>2
  <2>3. CASE k > j
    <3>0. j \in 1 .. Len(tree[n].way)
      BY <2>1 DEF Meet
    <3>1. k - 1 \in j .. Len(tree[m].way) /\ Len(tree[n].way) \in j .. Len(tree[n].way)
      BY <1>1, <2>1, <2>3, <3>0
    <3>2. Inside(F[m][k - 1]) \cap Inside(F[n][Len(tree[n].way)]) = {}
      BY <2>1, <3>1, ApartBelow
    <3>3. k \in k .. Len(tree[m].way)
      BY <1>1
    <3>4. Inside(RuleAt(F, tree, m, k)) \subseteq Inside(F[m][k - 1])
      BY <3>3, PaneBesideRule
    <3> QED
      BY <3>2, <3>4
  <2>4. k \in Nat
    BY <1>1
  <2> QED
    BY <2>1, <2>2, <2>3, <2>4
<1> QED
  BY <1>3, <1>4

\* The panes of a tree and the rules between them tile the area.
LEMMA TreeTiles ==
  ASSUME NEW tree, IsTree(tree), NEW area \in Rects
  PROVE  Tiles(Layout(tree, area), Inside(area))
<1>1. PICK F : Paths(F, tree, area)
  BY PathsExist
<1>2. PICK l : l = Layout(tree, area)
  OBVIOUS
<1>3. /\ DOMAIN l.panes = 1 .. Len(tree)
      /\ \A n \in 1 .. Len(tree) : l.panes[n] = F[n][Len(tree[n].way)]
      /\ DOMAIN l.rules = {SplitOf(tree, p[1], p[2]) : p \in Places(tree)}
      /\ \A p \in Places(tree) : l.rules[SplitOf(tree, p[1], p[2])] = RuleAt(F, tree, p[1], p[2])
  BY <1>1, <1>2, LayoutIs
<1>4. \A p \in 1 .. Len(tree) : tree[p].way \in Seq(Turns) /\ Len(tree[p].way) \in Nat /\ IsPath(F[p], area, tree[p].way)
  BY <1>1, LeavesOfTree, LenProperties DEF Paths
<1>5. \A p \in Places(tree) : p[1] \in 1 .. Len(tree) /\ p[2] \in 1 .. Len(tree[p[1]].way)
  BY DEF Places
<1> DEFINE panes == [n \in DOMAIN l.panes |-> Inside(l.panes[n])]
<1> DEFINE rules == [s \in DOMAIN l.rules |-> Inside(l.rules[s])]
<1>6. DOMAIN panes = 1 .. Len(tree) /\ \A n \in 1 .. Len(tree) : panes[n] = Inside(F[n][Len(tree[n].way)])
  BY <1>3
<1>7. DOMAIN rules = {SplitOf(tree, p[1], p[2]) : p \in Places(tree)}
      /\ \A p \in Places(tree) : rules[SplitOf(tree, p[1], p[2])] = Inside(RuleAt(F, tree, p[1], p[2]))
  BY <1>3
<1> HIDE DEF panes, rules
<1>8. \A s \in DOMAIN rules : \E p \in Places(tree) : s = SplitOf(tree, p[1], p[2]) /\ rules[s] = Inside(RuleAt(F, tree, p[1], p[2]))
  BY <1>7
<1>9. Apart(panes)
  <2>1. ASSUME NEW m \in 1 .. Len(tree), NEW n \in 1 .. Len(tree), m # n
        PROVE  panes[m] \cap panes[n] = {}
    <3>1. PICK j \in Nat : Meet(tree[m].way, tree[n].way, j)
      BY <2>1, LeavesOfTree DEF IsTree, Parted
    <3>2. Len(tree[m].way) \in j .. Len(tree[m].way) /\ Len(tree[n].way) \in j .. Len(tree[n].way)
      BY <1>4, <3>1 DEF Meet
    <3>3. Inside(F[m][Len(tree[m].way)]) \cap Inside(F[n][Len(tree[n].way)]) = {}
      BY <1>1, <3>1, <3>2, ApartBelow
    <3> QED
      BY <1>6, <3>3
  <2> QED
    BY <1>6, <2>1 DEF Apart
<1>10. Apart(rules)
  <2>1. ASSUME NEW s \in DOMAIN rules, NEW t \in DOMAIN rules, s # t
        PROVE  rules[s] \cap rules[t] = {}
    <3>1. PICK p \in Places(tree) : s = SplitOf(tree, p[1], p[2]) /\ rules[s] = Inside(RuleAt(F, tree, p[1], p[2]))
      BY <1>8
    <3>2. PICK q \in Places(tree) : t = SplitOf(tree, q[1], q[2]) /\ rules[t] = Inside(RuleAt(F, tree, q[1], q[2]))
      BY <1>8
    <3> QED
      BY <1>1, <1>5, <2>1, <3>1, <3>2, RulesApart
  <2> QED
    BY <2>1 DEF Apart
<1> DEFINE paned == UNION {panes[n] : n \in DOMAIN panes}
<1> DEFINE ruled == UNION {rules[s] : s \in DOMAIN rules}
<1>11. paned \cap ruled = {}
  <2>1. ASSUME NEW n \in DOMAIN panes, NEW s \in DOMAIN rules
        PROVE  panes[n] \cap rules[s] = {}
    <3>1. PICK p \in Places(tree) : rules[s] = Inside(RuleAt(F, tree, p[1], p[2]))
      BY <1>8
    <3> QED
      BY <1>1, <1>5, <1>6, <3>1, RulesBesidePanes
  <2> QED
    BY <2>1
<1>12. paned \subseteq Inside(area)
  <2>1. ASSUME NEW n \in DOMAIN panes
        PROVE  panes[n] \subseteq Inside(area)
    <3>1. F[n][0] = area /\ 0 \in 0 .. Len(tree[n].way) /\ Len(tree[n].way) \in 0 .. Len(tree[n].way) /\ 0 <= Len(tree[n].way)
      BY <1>4, <1>6 DEF IsPath
    <3>3. PICK way \in Seq(Turns) : way = tree[n].way /\ IsPath(F[n], area, way)
      BY <1>4, <1>6
    <3>4. PICK k \in Nat : k = Len(way) /\ k \in 0 .. Len(way) /\ 0 \in 0 .. Len(way) /\ 0 <= k
      BY <3>3, LenProperties
    <3>5. Inside(F[n][k]) \subseteq Inside(F[n][0])
      BY <3>3, <3>4, PathsNarrow
    <3>2. Inside(F[n][Len(tree[n].way)]) \subseteq Inside(F[n][0])
      BY <3>3, <3>4, <3>5
    <3> QED
      BY <1>6, <3>1, <3>2
  <2> QED
    BY <2>1
<1>13. ruled \subseteq Inside(area)
  <2>1. ASSUME NEW s \in DOMAIN rules
        PROVE  rules[s] \subseteq Inside(area)
    <3>1. PICK p \in Places(tree) : rules[s] = Inside(RuleAt(F, tree, p[1], p[2]))
      BY <1>8
    <3>2. PICK n, k : n \in 1 .. Len(tree) /\ n = p[1] /\ k = p[2] /\ k \in 1 .. Len(tree[n].way)
      BY <1>5
    <3>3. k \in k .. Len(tree[n].way) /\ F[n][0] = area /\ 0 \in 0 .. Len(tree[n].way) /\ k - 1 \in 0 .. Len(tree[n].way) /\ 0 <= k - 1
      BY <1>4, <3>2 DEF IsPath
    <3>4. Inside(RuleAt(F, tree, n, k)) \subseteq Inside(F[n][k - 1])
      BY <1>1, <3>2, <3>3, PaneBesideRule
    <3>5. Inside(F[n][k - 1]) \subseteq Inside(F[n][0])
      BY <1>4, <3>2, <3>3, PathsNarrow
    <3> QED
      BY <3>1, <3>2, <3>3, <3>4, <3>5
  <2> QED
    BY <2>1
<1>14. Inside(area) \subseteq paned \cup ruled
  <2>1. ASSUME NEW c \in Inside(area)
        PROVE  c \in paned \cup ruled
    <3>1. CASE \E n \in 1 .. Len(tree) : c \in Inside(F[n][Len(tree[n].way)])
      BY <1>6, <3>1
    <3>2. ASSUME NEW p \in Places(tree), c \in Inside(RuleAt(F, tree, p[1], p[2]))
          PROVE  c \in ruled
      <4>1. PICK s \in DOMAIN rules : s = SplitOf(tree, p[1], p[2])
        BY <1>7
      <4>2. c \in rules[s]
        BY <1>7, <3>2, <4>1
      <4> QED
        BY <4>2
    <3> QED
      BY <1>1, <3>1, <3>2, CellsAreCovered
  <2> QED
    BY <2>1
<1>15. paned \cup ruled = Inside(area)
  BY <1>12, <1>13, <1>14
<1>16. Tiles(l, Inside(area))
  BY <1>9, <1>10, <1>11, <1>15 DEF Tiles, panes, rules
<1> QED
  BY <1>2, <1>16

-----------------------------------------------------------------------------
(* The invariant.                                                          *)

\* What texts are made of, the paths of documents, and what there is.
Glyphs == Letters \cup {NL, "x", "a", "space"} \cup UNION {ToSet(Files[p]) : p \in DOMAIN Files}
FilePaths == DOMAIN Files \cup {Scratch}
EditorsOn(es, ds) == es \in Seq(Panes(Glyphs)) /\ \A i \in 1 .. Len(es) : es[i].doc \in 1 .. Len(ds)
RootOn(tree, es) == IsTree(tree) /\ \A n \in 1 .. Len(tree) : tree[n].editor \in 1 .. Len(es)
StateOk(ds, es, tree, at) ==
  /\ ds \in Seq(DocsOf(Glyphs, FilePaths)) /\ EditorsOn(es, ds) /\ RootOn(tree, es)
  /\ at \in 0 .. Len(tree) - 1

\* The invariant: documents, views and panes are what they should be; the panes make a tree
\* and show editors there are, and the focus is on one of them.
WorkspaceOk ==
  /\ StateOk(docs, editors, root, focused)
  /\ clipboard \in Seq(Glyphs) /\ profile \in Profiles /\ quit \in BOOLEAN /\ keys \in Nat

\* The glyphs and paths there are.
LEMMA GlyphsAre ==
  /\ Letters \subseteq Glyphs /\ {NL, "space"} \subseteq Glyphs /\ "x" \in Glyphs /\ "a" \in Glyphs
  /\ \A p \in DOMAIN Files : Files[p] \in Seq(Glyphs) /\ p \in FilePaths
  /\ "none" \in FilePaths /\ Scratch = "none" /\ <<>> \in Seq(Glyphs)
<1>1. Letters \subseteq Glyphs /\ {NL, "space"} \subseteq Glyphs /\ "x" \in Glyphs /\ "a" \in Glyphs
  BY DEF Glyphs
<1>2. ASSUME NEW p \in DOMAIN Files
      PROVE  Files[p] \in Seq(Glyphs) /\ p \in FilePaths
  <2>1. Files[p] \in Seq(ToSet(Files[p]))
    BY WorkspaceAssumption
  <2>2. ToSet(Files[p]) \subseteq Glyphs
    BY DEF Glyphs
  <2>3. PICK t, A : t = Files[p] /\ A = ToSet(Files[p])
    OBVIOUS
  <2>4. t \in Seq(A) /\ A \subseteq Glyphs
    BY <2>1, <2>2, <2>3
  <2>5. \A i \in 1 .. Len(t) : t[i] \in Glyphs
    BY <2>4, ElementOfSeq
  <2>6. Len(t) \in Nat /\ DOMAIN t = 1 .. Len(t) /\ t = [i \in 1 .. Len(t) |-> t[i]]
    BY <2>4, LenProperties
  <2>7. t \in Seq(Glyphs)
    BY <2>5, <2>6, IsASeq
  <2> QED
    BY <2>3, <2>7 DEF FilePaths
<1> QED
  BY <1>1, <1>2 DEF FilePaths, Scratch

\* New documents and editors.
LEMMA NewDocIs ==
  ASSUME NEW p \in FilePaths, NEW t \in Seq(Glyphs)
  PROVE  NewDoc(p, t) \in DocsOf(Glyphs, FilePaths)
<1>1. <<>> \in Seq(Seq(Glyphs))
  BY EmptySeq
<1> QED
  BY <1>1 DEF NewDoc, DocsOf

\* A new editor is a pane on its document.
LEMMA NewEditorIs ==
  ASSUME NEW doc \in Nat
  PROVE  NewEditor(doc) \in Panes(Glyphs) /\ NewEditor(doc).doc = doc
<1>1. {} \in Folds
  BY FS_EmptySet DEF Folds
<1>2. NewView \in ViewRecords
  BY DEF NewView, ViewRecords, LastEdits, Off
<1>3. PICK fs, v, none : fs = {} /\ fs \in Folds /\ v = NewView /\ v \in ViewRecords /\ none = {} /\ none \in SUBSET Nat
  BY <1>1, <1>2
<1>4. <<>> \in Seq(Glyphs) /\ "insert" \in Modes /\ "cua" \in Profiles
  BY EmptySeq DEF Modes, Profiles
<1>5. NewEditor(doc) = [doc |-> doc, view |-> v, mode |-> "insert", profile |-> "cua", clipboard |-> <<>>,
          top |-> 0, left |-> 0, rows |-> 1, folds |-> fs, folded |-> none, hints |-> none,
          search |-> FALSE, quit |-> FALSE]
  BY <1>3 DEF NewEditor
<1>6. [doc |-> doc, view |-> v, mode |-> "insert", profile |-> "cua", clipboard |-> <<>>,
          top |-> 0, left |-> 0, rows |-> 1, folds |-> fs, folded |-> none, hints |-> none,
          search |-> FALSE, quit |-> FALSE] \in Panes(Glyphs)
  BY <1>3, <1>4 DEF Panes
<1> QED
  BY <1>5, <1>6

\* A new editor under a profile.
LEMMA NewPaneIs ==
  ASSUME NEW doc \in Nat, NEW prof \in Profiles
  PROVE  SetProfile(NewEditor(doc), prof) \in Panes(Glyphs) /\ SetProfile(NewEditor(doc), prof).doc = doc
  BY NewEditorIs, ProfileIs

\* A typed letter.
LEMMA SelfInsertLeads ==
  ASSUME NEW d \in DocsOf(Glyphs, FilePaths), NEW e \in Panes(Glyphs), NEW ch \in Glyphs
  PROVE  DoesLead(Glyphs, FilePaths, d, e, SelfInsert(d, e, ch))
<1>1. e.view \in ViewRecords /\ <<ch>> \in Seq(Glyphs)
  BY DEF Panes
<1>2. PICK t \in Seq(Glyphs) : t = <<ch>>
  BY <1>1
<1>3. DoesLead(Glyphs, FilePaths, d, e, Edits(e, Insert(d, e.view, t)))
  BY <1>1, InsertLeads, EditsLead
<1>4. DoesLead(Glyphs, FilePaths, d, e, Did(d, e))
  BY PaneLeads
<1> QED
  BY <1>2, <1>3, <1>4 DEF SelfInsert

\* A view that follows an edit.
LEMMA ShiftedIs ==
  ASSUME NEW v \in ViewRecords, NEW e \in EditRecords
  PROVE  /\ ShiftCursor(v, e) \in ViewRecords /\ ShiftCursor(v, e).cursor = Rebase(v.cursor, "right", e)
         /\ ShiftCursor(v, e).lastEdit = v.lastEdit
<1>1. e.start \in Nat /\ e.oldLen \in Nat /\ e.newLen \in Nat
  BY DEF EditRecords
<1>2. \A r \in Nat : Rebase(r, "right", e) \in Nat /\ Rebase(r, "left", e) \in Nat
  BY <1>1 DEF Rebase
<1>3. v.cursor \in Nat /\ (v.anchor # Off => v.anchor \in Nat)
  BY DEF ViewRecords
<1>4. PICK c \in Nat : c = Rebase(v.cursor, "right", e)
  BY <1>2, <1>3
<1>5. PICK a \in Nat \cup {Off} : a = IF v.anchor = Off THEN Off ELSE Rebase(v.anchor, "left", e)
  BY <1>2, <1>3
<1>6. ShiftCursor(v, e) = [v EXCEPT !.cursor = c, !.anchor = a]
  BY <1>4, <1>5 DEF ShiftCursor
<1> QED
  BY <1>4, <1>6 DEF ViewRecords

-----------------------------------------------------------------------------
(* Edits that are handed on.                                               *)

\* A step that leads from one value of a set to another can be taken any number of times.
Steps(f, G, first, n) == f[0] = first /\ \A k \in 1 .. n : f[k] = G[<<k, f[k - 1]>>]

\* There is a function that makes a number of steps.
LEMMA StepsExist ==
  ASSUME NEW X, NEW first \in X, NEW n \in Nat, NEW G \in [(1 .. n) \X X -> X]
  PROVE  \E f \in [0 .. n -> X] : Steps(f, G, first, n)
<1> DEFINE P(m, f) == f \in [0 .. m -> X] /\ f[0] = first /\ \A k \in 1 .. m : f[k] = G[<<k, f[k - 1]>>]
<1> DEFINE S == {m \in Nat : m <= n => \E f : P(m, f)}
<1>2. 0 \in S
  <2>1. P(0, [k \in 0 .. 0 |-> first])
    OBVIOUS
  <2> QED
    BY <2>1
<1>3. ASSUME NEW m \in Nat, m \in S
      PROVE  m + 1 \in S
  <2>1. SUFFICES ASSUME m + 1 <= n
                 PROVE  \E f : P(m + 1, f)
    OBVIOUS
  <2>2. PICK f : P(m, f)
    BY <1>3, <2>1
  <2>3. m + 1 \in 1 .. n /\ m \in 0 .. m
    BY <2>1
  <2>4. f[m] \in X
    BY <2>2, <2>3
  <2>5. PICK r \in X : r = G[<<m + 1, f[m]>>]
    BY <2>3, <2>4
  <2> DEFINE g == [k \in 0 .. m + 1 |-> IF k = m + 1 THEN r ELSE f[k]]
  <2>6. \A k \in 0 .. m + 1 : g[k] = IF k = m + 1 THEN r ELSE f[k]
    OBVIOUS
  <2>7. g \in [0 .. m + 1 -> X]
    <3>1. \A k \in 0 .. m + 1 : (IF k = m + 1 THEN r ELSE f[k]) \in X
      <4>1. \A k \in 0 .. m + 1 : k # m + 1 => k \in 0 .. m
        OBVIOUS
      <4> QED
        BY <2>2, <4>1
    <3> QED
      BY <3>1
  <2> HIDE DEF g
  <2>8. g[0] = first
    BY <2>2, <2>6
  <2>9. ASSUME NEW k \in 1 .. m + 1
        PROVE  g[k] = G[<<k, g[k - 1]>>]
    <3>1. k \in 0 .. m + 1 /\ k - 1 \in 0 .. m + 1 /\ k - 1 # m + 1
      OBVIOUS
    <3>2. g[k - 1] = f[k - 1]
      BY <2>6, <3>1
    <3>3. CASE k = m + 1
      <4>1. k - 1 = m
        BY <3>3
      <4> QED
        BY <2>5, <2>6, <3>1, <3>2, <3>3, <4>1
    <3>4. CASE k # m + 1
      <4>1. k \in 1 .. m
        BY <3>4
      <4> QED
        BY <2>2, <2>6, <3>1, <3>2, <3>4, <4>1
    <3> QED
      BY <3>3, <3>4
  <2>10. P(m + 1, g)
    BY <2>7, <2>8, <2>9
  <2> QED
    BY <2>10
<1>4. \A m \in Nat : m \in S
  <2> HIDE DEF S
  <2> QED
    BY <1>2, <1>3, Counting
<1>5. \E f : P(n, f)
  <2>1. n \in S
    <3> HIDE DEF S
    <3> QED
      BY <1>4
  <2>2. n <= n
    OBVIOUS
  <2> HIDE DEF P
  <2> QED
    BY <2>1, <2>2
<1>7. PICK f : P(n, f)
  <2> HIDE DEF P
  <2> QED
    BY <1>5
<1> QED
  BY <1>7 DEF Steps

-----------------------------------------------------------------------------
\* The editors after one edit has been handed on: the others follow, and nothing else of them
\* changes.
IsHanded(u, source, es) ==
  /\ u \in Seq(Panes(Glyphs)) /\ Len(u) = Len(es) /\ \A i \in 1 .. Len(es) : u[i].doc = es[i].doc
  /\ u[source].view = [es[source].view EXCEPT !.lastEdit = <<>>]
  /\ \A i \in 1 .. Len(es) : i # source =>
        u[i].view = IF es[i].doc = es[source].doc /\ es[source].view.lastEdit # <<>>
                    THEN ShiftCursor(es[i].view, es[source].view.lastEdit[1]) ELSE es[i].view

\* What is handed to the sibling views changes nothing else.
LEMMA HandedIs ==
  ASSUME NEW es \in Seq(Panes(Glyphs)), NEW source \in 1 .. Len(es)
  PROVE  IsHanded(HandOn(source, es), source, es)
<1>1. DOMAIN es = 1 .. Len(es) /\ Len(es) \in Nat /\ \A i \in 1 .. Len(es) : es[i] \in Panes(Glyphs)
  BY LenProperties, ElementOfSeq
<1>2. \A e \in Panes(Glyphs), v \in ViewRecords : /\ [e EXCEPT !.view = v] \in Panes(Glyphs) /\ [e EXCEPT !.view = v].doc = e.doc
                                                  /\ [e EXCEPT !.view = v].view = v
  BY DEF Panes
<1>3. \A e \in Panes(Glyphs) : e.view \in ViewRecords
  BY DEF Panes
<1>4. \A v \in ViewRecords : [v EXCEPT !.lastEdit = <<>>] \in ViewRecords /\ [v EXCEPT !.lastEdit = <<>>].cursor = v.cursor
  BY DEF ViewRecords, LastEdits
<1> DEFINE last == es[source].view.lastEdit
<1>5. last # <<>> => last[1] \in EditRecords
  <2>1. last \in LastEdits
    BY <1>1, <1>3 DEF ViewRecords
  <2> QED
    BY <2>1 DEF LastEdits
<1> HIDE DEF last
<1>6. PICK home : home = [es[source].view EXCEPT !.lastEdit = <<>>] /\ home \in ViewRecords /\ home.cursor = es[source].view.cursor
  BY <1>1, <1>3, <1>4
<1> DEFINE v == [i \in 1 .. Len(es) |-> IF i = source THEN home
                                        ELSE IF es[i].doc = es[source].doc /\ last # <<>> THEN ShiftCursor(es[i].view, last[1])
                                        ELSE es[i].view]
<1>7. \A i \in 1 .. Len(es) : v[i] = IF i = source THEN home
                                        ELSE IF es[i].doc = es[source].doc /\ last # <<>> THEN ShiftCursor(es[i].view, last[1])
                                        ELSE es[i].view
  OBVIOUS
<1> HIDE DEF v
<1>8. \A i \in 1 .. Len(es) : v[i] \in ViewRecords
  BY <1>1, <1>3, <1>5, <1>6, <1>7, ShiftedIs
<1> DEFINE u == [i \in 1 .. Len(es) |-> [es[i] EXCEPT !.view = v[i]]]
<1>9. HandOn(source, es) = u
  <2>1. \A e \in Panes(Glyphs) : [e EXCEPT !.view = e.view] = e
    BY DEF Panes
  <2>2. ASSUME NEW i \in 1 .. Len(es)
        PROVE  (IF i = source THEN [es[i] EXCEPT !.view.lastEdit = <<>>]
                ELSE IF es[i].doc = es[source].doc /\ es[source].view.lastEdit # <<>>
                     THEN [es[i] EXCEPT !.view = ShiftCursor(@, es[source].view.lastEdit[1])]
                     ELSE es[i]) = [es[i] EXCEPT !.view = v[i]]
    <3>1. [es[i] EXCEPT !.view.lastEdit = <<>>] = [es[i] EXCEPT !.view = [es[i].view EXCEPT !.lastEdit = <<>>]]
      OBVIOUS
    <3>2. CASE i = source
      BY <1>6, <1>7, <3>1, <3>2
    <3>3. CASE i # source
      BY <1>1, <1>7, <2>1, <3>3 DEF last
    <3> QED
      BY <3>2, <3>3
  <2> QED
    BY <1>1, <2>2 DEF HandOn
<1>10. \A i \in 1 .. Len(es) : u[i] \in Panes(Glyphs) /\ u[i].doc = es[i].doc /\ u[i].view = v[i]
  BY <1>1, <1>2, <1>8
<1>11. u \in Seq(Panes(Glyphs)) /\ DOMAIN u = 1 .. Len(es)
  BY <1>1, <1>10, IsASeq
<1> HIDE DEF u
<1>12. Len(u) = Len(es)
  BY <1>1, <1>11, LenProperties
<1>13. u[source].view = [es[source].view EXCEPT !.lastEdit = <<>>]
  BY <1>6, <1>7, <1>10
<1>14. IsHanded(u, source, es)
  BY <1>7, <1>10, <1>11, <1>12, <1>13 DEF IsHanded, last
<1> QED
  BY <1>9, <1>14

\* The editors as their edits are handed on, from the first tab to the last.
Rows(es) == {u \in Seq(Panes(Glyphs)) : Len(u) = Len(es)}
IsHanding(f, es) ==
  /\ f \in [0 .. Len(es) -> Rows(es)] /\ f[0] = es
  /\ \A n \in 1 .. Len(es) : f[n] = HandOn(n, f[n - 1])

\* What an edit is handed on to are as many editors.
LEMMA HandedRow ==
  ASSUME NEW es \in Seq(Panes(Glyphs)), NEW n \in 1 .. Len(es), NEW u \in Rows(es)
  PROVE  HandOn(n, u) \in Rows(es) /\ IsHanded(HandOn(n, u), n, u)
<1>1. u \in Seq(Panes(Glyphs)) /\ Len(u) = Len(es) /\ n \in 1 .. Len(u)
  BY DEF Rows
<1>2. IsHanded(HandOn(n, u), n, u)
  BY <1>1, HandedIs
<1> QED
  BY <1>1, <1>2 DEF IsHanded, Rows

\* Edits are handed on step by step, and the last step is what is propagated.
LEMMA HandingIs ==
  ASSUME NEW es \in Seq(Panes(Glyphs))
  PROVE  \E f : IsHanding(f, es) /\ PropagateEdits(es) = f[Len(es)]
<1>1. PICK N \in Nat : N = Len(es)
  BY LenProperties
<1>2. es \in Rows(es)
  BY DEF Rows
<1> DEFINE G == [p \in (1 .. N) \X Rows(es) |-> HandOn(p[1], p[2])]
<1>3. G \in [(1 .. N) \X Rows(es) -> Rows(es)]
  <2>1. \A n \in 1 .. N, u \in Rows(es) : HandOn(n, u) \in Rows(es)
    BY <1>1, HandedRow
  <2> QED
    BY <2>1
<1>4. \A n \in 1 .. N, u \in Rows(es) : G[<<n, u>>] = HandOn(n, u)
  OBVIOUS
<1> HIDE DEF G
<1>5. PICK f \in [0 .. N -> Rows(es)] : Steps(f, G, es, N)
  BY <1>2, <1>3, StepsExist
<1>6. f[0] = es /\ \A n \in 1 .. N : f[n] = HandOn(n, f[n - 1])
  <2>1. \A n \in 1 .. N : n - 1 \in 0 .. N
    BY <1>1
  <2>2. \A n \in 1 .. N : f[n - 1] \in Rows(es)
    BY <1>5, <2>1
  <2> QED
    BY <1>4, <1>5, <2>2 DEF Steps
<1> DEFINE F(handed) == [n \in 0 .. Len(es) |-> IF n = 0 THEN es ELSE HandOn(n, handed[n - 1])]
<1>7. f = F(f)
  <2>1. f = [n \in 0 .. N |-> f[n]]
    BY <1>5
  <2>2. \A n \in 0 .. N : f[n] = IF n = 0 THEN es ELSE HandOn(n, f[n - 1])
    <3>1. \A n \in 0 .. N : n # 0 => n \in 1 .. N
      BY <1>1
    <3> QED
      BY <1>6, <3>1
  <2> QED
    BY <1>1, <2>1, <2>2
<1> DEFINE g == CHOOSE handed : handed = F(handed)
<1>8. g = F(g)
  <2> HIDE DEF F
  <2> QED
    BY <1>7, Zenon
<1>9. PropagateEdits(es) = g[Len(es)]
  BY Zenon DEF PropagateEdits
<1>10. g = [n \in 0 .. N |-> IF n = 0 THEN es ELSE HandOn(n, g[n - 1])]
  <2> HIDE DEF g
  <2> QED
    BY <1>1, <1>8
<1> HIDE DEF g, F
<1>11. g[0] = es /\ \A n \in 1 .. N : g[n] = HandOn(n, g[n - 1])
  <2>1. \A n \in 0 .. N : g[n] = IF n = 0 THEN es ELSE HandOn(n, g[n - 1])
    BY <1>10
  <2>2. 0 \in 0 .. N /\ \A n \in 1 .. N : n \in 0 .. N /\ n # 0
    BY <1>1
  <2> QED
    BY <2>1, <2>2
<1> DEFINE S == {n \in Nat : n <= N => g[n] \in Rows(es)}
<1>12. 0 \in S
  BY <1>2, <1>11
<1>13. ASSUME NEW n \in Nat, n \in S
       PROVE  n + 1 \in S
  <2>1. SUFFICES ASSUME n + 1 <= N
                 PROVE  g[n + 1] \in Rows(es)
    OBVIOUS
  <2>2. PICK m : m = n + 1 /\ m \in 1 .. N /\ m - 1 = n
    BY <1>1, <2>1
  <2>3. g[n] \in Rows(es)
    BY <1>13, <2>1
  <2>4. HandOn(m, g[n]) \in Rows(es)
    BY <1>1, <2>2, <2>3, HandedRow
  <2> QED
    BY <1>11, <2>2, <2>4
<1>14. \A n \in Nat : n \in S
  <2> HIDE DEF S
  <2> QED
    BY <1>12, <1>13, Counting
<1>15. \A n \in 0 .. N : g[n] \in Rows(es)
  BY <1>1, <1>14
<1>16. g \in [0 .. N -> Rows(es)]
  BY <1>10, <1>15
<1>17. IsHanding(g, es)
  BY <1>1, <1>11, <1>16 DEF IsHanding
<1> QED
  BY <1>9, <1>17

\* What is known of one step of it.
LEMMA HandingStep ==
  ASSUME NEW es \in Seq(Panes(Glyphs)), NEW f, IsHanding(f, es), NEW n \in Nat, n + 1 <= Len(es)
  PROVE  f[n] \in Rows(es) /\ f[n + 1] \in Rows(es) /\ IsHanded(f[n + 1], n + 1, f[n])
<1>1. Len(es) \in Nat
  BY LenProperties
<1>2. PICK m : m = n + 1 /\ m \in 1 .. Len(es) /\ m - 1 = n /\ n \in 0 .. Len(es) /\ m \in 0 .. Len(es)
  BY <1>1
<1>3. f[n] \in Rows(es) /\ f[m] = HandOn(m, f[n])
  BY <1>2 DEF IsHanding
<1> QED
  BY <1>2, <1>3, HandedRow

\* Handing edits on leaves the editors of the documents they are of.
LEMMA PropagatedRow ==
  ASSUME NEW es \in Seq(Panes(Glyphs)), NEW f, IsHanding(f, es)
  PROVE  \A n \in 0 .. Len(es) : f[n] \in Rows(es) /\ \A i \in 1 .. Len(es) : f[n][i].doc = es[i].doc
<1>1. PICK N \in Nat : N = Len(es)
  BY LenProperties
<1> DEFINE S == {n \in Nat : n <= N => \A i \in 1 .. N : f[n][i].doc = es[i].doc}
<1>2. 0 \in S
  BY DEF IsHanding
<1>3. ASSUME NEW n \in Nat, n \in S
      PROVE  n + 1 \in S
  <2>1. SUFFICES ASSUME n + 1 <= N
                 PROVE  \A i \in 1 .. N : f[n + 1][i].doc = es[i].doc
    OBVIOUS
  <2>2. \A i \in 1 .. N : f[n][i].doc = es[i].doc
    BY <1>3, <2>1
  <2>3. f[n] \in Rows(es) /\ IsHanded(f[n + 1], n + 1, f[n])
    BY <1>1, <2>1, HandingStep
  <2>4. Len(f[n]) = N
    BY <1>1, <2>3 DEF Rows
  <2> QED
    BY <2>2, <2>3, <2>4 DEF IsHanded
<1>4. \A n \in Nat : n \in S
  <2> HIDE DEF S
  <2> QED
    BY <1>2, <1>3, Counting
<1>5. \A n \in 0 .. N : f[n] \in Rows(es)
  BY <1>1 DEF IsHanding
<1> QED
  BY <1>1, <1>4, <1>5

\* The views of one document when the edit of one of them, a, has been handed on, and no other
\* of them has one.
OnlyEdit(es, a) ==
  /\ es[a].view.lastEdit # <<>>
  /\ \A i \in 1 .. Len(es) : i # a /\ es[i].doc = es[a].doc => es[i].view.lastEdit = <<>>
CursorAfter(es, a, i) ==
  IF i = a THEN es[a].view.cursor ELSE ShiftCursor(es[i].view, es[a].view.lastEdit[1]).cursor
HaveFollowed(u, es, a) ==
  \A i \in 1 .. Len(es) : es[i].doc = es[a].doc =>
     u[i].view.cursor = CursorAfter(es, a, i) /\ u[i].view.lastEdit = <<>>
AreAsBefore(u, es, a) ==
  \A i \in 1 .. Len(es) : es[i].doc = es[a].doc => u[i].view = es[i].view

\* A view that keeps no edit stays, and so do the others.
LEMMA NothingHanded ==
  ASSUME NEW u \in Seq(Panes(Glyphs)), NEW m \in 1 .. Len(u), NEW w, IsHanded(w, m, u), NEW k,
         u[m].doc = k => u[m].view.lastEdit = <<>>
  PROVE  \A i \in 1 .. Len(u) : u[i].doc = k => w[i].view = u[i].view
<1>1. u[m].view \in ViewRecords
  <2>1. u[m] \in Panes(Glyphs)
    BY ElementOfSeq
  <2> QED
    BY <2>1 DEF Panes
<1>2. PICK v \in ViewRecords : v = u[m].view
  BY <1>1
<1>3. v.lastEdit = <<>> => [v EXCEPT !.lastEdit = <<>>] = v
  BY DEF ViewRecords
<1>4. ASSUME NEW i \in 1 .. Len(u), u[i].doc = k
      PROVE  w[i].view = u[i].view
  <2>1. CASE i = m
    <3>1. w[m].view = [v EXCEPT !.lastEdit = <<>>]
      BY <1>2 DEF IsHanded
    <3> QED
      BY <1>2, <1>3, <1>4, <2>1, <3>1
  <2>2. CASE i # m
    <3>1. ~(u[i].doc = u[m].doc /\ u[m].view.lastEdit # <<>>)
      BY <1>4
    <3> QED
      BY <2>2, <3>1 DEF IsHanded
  <2> QED
    BY <2>1, <2>2
<1> QED
  BY <1>4

\* The one edit of a document reaches all the other views of it.
LEMMA EditReaches ==
  ASSUME NEW u \in Seq(Panes(Glyphs)), NEW a \in 1 .. Len(u), NEW w, IsHanded(w, a, u), OnlyEdit(u, a)
  PROVE  HaveFollowed(w, u, a)
<1>1. \A i \in 1 .. Len(u) : u[i] \in Panes(Glyphs)
  BY ElementOfSeq
<1>2. \A i \in 1 .. Len(u) : u[i].view \in ViewRecords
  BY <1>1 DEF Panes
<1>3. PICK e : e = u[a].view.lastEdit[1]
  OBVIOUS
<1>4. e \in EditRecords
  <2>1. u[a].view.lastEdit \in LastEdits
    BY <1>2 DEF ViewRecords
  <2> QED
    BY <1>3, <2>1 DEF LastEdits, OnlyEdit
<1>5. ASSUME NEW i \in 1 .. Len(u), u[i].doc = u[a].doc
      PROVE  w[i].view.cursor = CursorAfter(u, a, i) /\ w[i].view.lastEdit = <<>>
  <2>1. CASE i = a
    <3>1. \A v \in ViewRecords : [v EXCEPT !.lastEdit = <<>>].cursor = v.cursor /\ [v EXCEPT !.lastEdit = <<>>].lastEdit = <<>>
      BY DEF ViewRecords
    <3>2. w[a].view = [u[a].view EXCEPT !.lastEdit = <<>>]
      BY DEF IsHanded
    <3> QED
      BY <1>2, <2>1, <3>1, <3>2 DEF CursorAfter
  <2>2. CASE i # a
    <3>1. w[i].view = ShiftCursor(u[i].view, e)
      BY <1>3, <1>5, <2>2 DEF IsHanded, OnlyEdit
    <3>2. u[i].view.lastEdit = <<>>
      BY <1>5, <2>2 DEF OnlyEdit
    <3>3. PICK v \in ViewRecords : v = u[i].view
      BY <1>2
    <3>4. ShiftCursor(v, e).lastEdit = v.lastEdit
      BY <1>4, ShiftedIs
    <3> QED
      BY <1>3, <2>2, <3>1, <3>2, <3>3, <3>4 DEF CursorAfter
  <2> QED
    BY <2>1, <2>2
<1> QED
  BY <1>5 DEF HaveFollowed

\* Up to the editor that made the edit the views are as they were, from it on they have followed.
LEMMA HandingReaches ==
  ASSUME NEW es \in Seq(Panes(Glyphs)), NEW a \in 1 .. Len(es), OnlyEdit(es, a), NEW f, IsHanding(f, es)
  PROVE  HaveFollowed(f[Len(es)], es, a)
<1>1. PICK N \in Nat : N = Len(es) /\ a \in 1 .. N /\ a \in Nat
  BY LenProperties
<1> DEFINE S == {n \in Nat : n <= N => /\ n < a => AreAsBefore(f[n], es, a)
                                       /\ n >= a => HaveFollowed(f[n], es, a)}
<1>2. 0 \in S
  <2>1. AreAsBefore(f[0], es, a)
    BY DEF IsHanding, AreAsBefore
  <2> QED
    BY <1>1, <2>1
<1>3. ASSUME NEW n \in Nat, n \in S
      PROVE  n + 1 \in S
  <2>1. SUFFICES ASSUME n + 1 <= N
                 PROVE  /\ n + 1 < a => AreAsBefore(f[n + 1], es, a)
                        /\ n + 1 >= a => HaveFollowed(f[n + 1], es, a)
    OBVIOUS
  <2>2. PICK u : u = f[n]
    OBVIOUS
  <2>3. PICK w, m : w = f[n + 1] /\ m = n + 1 /\ m \in 1 .. N
    BY <1>1, <2>1
  <2>4. u \in Rows(es) /\ IsHanded(w, m, u)
    BY <1>1, <2>1, <2>2, <2>3, HandingStep
  <2>5. u \in Seq(Panes(Glyphs)) /\ Len(u) = N /\ m \in 1 .. Len(u) /\ a \in 1 .. Len(u)
    BY <1>1, <2>3, <2>4 DEF Rows
  <2>6. \A i \in 1 .. N : u[i].doc = es[i].doc
    <3>1. n \in 0 .. N
      BY <2>1
    <3> QED
      BY <1>1, <2>2, <3>1, PropagatedRow
  <2>7. CASE n + 1 < a
    <3>1. AreAsBefore(u, es, a)
      BY <1>1, <1>3, <2>1, <2>2, <2>7
    <3>2. m # a
      BY <2>3, <2>7
    <3>3. u[m].doc = es[a].doc => u[m].view.lastEdit = <<>>
      BY <1>1, <2>3, <2>6, <3>1, <3>2 DEF AreAsBefore, OnlyEdit
    <3>4. \A i \in 1 .. Len(u) : u[i].doc = es[a].doc => w[i].view = u[i].view
      BY <2>4, <2>5, <3>3, NothingHanded
    <3>5. AreAsBefore(w, es, a)
      BY <1>1, <2>5, <2>6, <3>1, <3>4 DEF AreAsBefore
    <3> QED
      BY <1>1, <2>3, <2>7, <3>5
  <2>8. CASE n + 1 = a
    <3>1. AreAsBefore(u, es, a)
      BY <1>1, <1>3, <2>1, <2>2, <2>8
    <3>2. OnlyEdit(u, a)
      BY <1>1, <2>5, <2>6, <3>1 DEF OnlyEdit, AreAsBefore
    <3>3. HaveFollowed(w, u, a)
      BY <2>3, <2>4, <2>5, <2>8, <3>2, EditReaches
    <3>4. \A i \in 1 .. N : es[i].doc = es[a].doc => CursorAfter(u, a, i) = CursorAfter(es, a, i)
      BY <1>1, <3>1 DEF AreAsBefore, CursorAfter
    <3>5. HaveFollowed(w, es, a)
      BY <1>1, <2>5, <2>6, <3>3, <3>4 DEF HaveFollowed
    <3> QED
      BY <1>1, <2>3, <2>8, <3>5
  <2>9. CASE n + 1 > a
    <3>1. HaveFollowed(u, es, a)
      BY <1>1, <1>3, <2>1, <2>2, <2>9
    <3>2. u[m].doc = es[a].doc => u[m].view.lastEdit = <<>>
      BY <1>1, <2>3, <2>6, <3>1 DEF HaveFollowed
    <3>3. \A i \in 1 .. Len(u) : u[i].doc = es[a].doc => w[i].view = u[i].view
      BY <2>4, <2>5, <3>2, NothingHanded
    <3>4. HaveFollowed(w, es, a)
      BY <1>1, <2>5, <2>6, <3>1, <3>3 DEF HaveFollowed
    <3> QED
      BY <1>1, <2>3, <2>9, <3>4
  <2> QED
    BY <1>1, <2>7, <2>8, <2>9
<1>4. \A n \in Nat : n \in S
  <2> HIDE DEF S
  <2> QED
    BY <1>2, <1>3, Counting
<1>5. N \in S /\ N <= N /\ N >= a
  BY <1>1, <1>4
<1> QED
  BY <1>1, <1>5

\* The editors when edits have been handed on.
LEMMA PropagatedIs ==
  ASSUME NEW es \in Seq(Panes(Glyphs))
  PROVE  /\ PropagateEdits(es) \in Seq(Panes(Glyphs)) /\ Len(PropagateEdits(es)) = Len(es)
         /\ \A i \in 1 .. Len(es) : PropagateEdits(es)[i].doc = es[i].doc
         /\ \A a \in 1 .. Len(es) : OnlyEdit(es, a) => HaveFollowed(PropagateEdits(es), es, a)
<1>1. PICK f : IsHanding(f, es) /\ PropagateEdits(es) = f[Len(es)]
  BY HandingIs
<1>2. Len(es) \in 0 .. Len(es)
  BY LenProperties
<1>3. f[Len(es)] \in Rows(es) /\ \A i \in 1 .. Len(es) : f[Len(es)][i].doc = es[i].doc
  BY <1>1, <1>2, PropagatedRow
<1>4. \A a \in 1 .. Len(es) : OnlyEdit(es, a) => HaveFollowed(f[Len(es)], es, a)
  BY <1>1, HandingReaches
<1> QED
  BY <1>1, <1>3, <1>4 DEF Rows

-----------------------------------------------------------------------------
(* Keys that an editor takes.                                              *)

\* What is known of the active editor and its document.
LEMMA ActiveIs ==
  ASSUME WorkspaceOk
  PROVE  /\ ActiveIndex \in 1 .. Len(editors) /\ Active \in Panes(Glyphs) /\ Active.doc \in 1 .. Len(docs)
         /\ ActiveDoc \in DocsOf(Glyphs, FilePaths) /\ ActiveIndex \in Nat /\ Active.view \in ViewRecords
         /\ Len(editors) \in Nat /\ DOMAIN editors = 1 .. Len(editors) /\ editors \in Seq(Panes(Glyphs))
         /\ Len(docs) \in Nat /\ DOMAIN docs = 1 .. Len(docs) /\ docs \in Seq(DocsOf(Glyphs, FilePaths))
         /\ Len(root) \in Nat /\ DOMAIN root = 1 .. Len(root) /\ focused + 1 \in 1 .. Len(root) /\ IsTree(root)
         /\ \A i \in 1 .. Len(editors) : editors[i] \in Panes(Glyphs) /\ editors[i].doc \in 1 .. Len(docs)
         /\ \A n \in 1 .. Len(root) : root[n].editor \in 1 .. Len(editors)
         /\ focused \in 0 .. Len(root) - 1 /\ LeafCount(root) = Len(root) /\ Active = editors[ActiveIndex] /\ ActiveDoc = docs[Active.doc]
         /\ \A k \in 1 .. Len(docs) : docs[k] \in DocsOf(Glyphs, FilePaths)
<1>1. /\ editors \in Seq(Panes(Glyphs)) /\ docs \in Seq(DocsOf(Glyphs, FilePaths)) /\ IsTree(root) /\ focused \in 0 .. Len(root) - 1
      /\ (\A i \in 1 .. Len(editors) : editors[i].doc \in 1 .. Len(docs))
      /\ (\A n \in 1 .. Len(root) : root[n].editor \in 1 .. Len(editors))
  BY DEF WorkspaceOk, StateOk, EditorsOn, RootOn
<1>2. Len(root) \in Nat /\ DOMAIN root = 1 .. Len(root)
  BY <1>1, LeavesOfTree
<1>3. focused + 1 \in 1 .. Len(root)
  BY <1>1, <1>2
<1>4. Len(editors) \in Nat /\ DOMAIN editors = 1 .. Len(editors) /\ Len(docs) \in Nat /\ DOMAIN docs = 1 .. Len(docs)
  BY <1>1, LenProperties
<1>5. \A i \in 1 .. Len(editors) : editors[i] \in Panes(Glyphs)
  BY <1>1, ElementOfSeq
<1>6. \A k \in 1 .. Len(docs) : docs[k] \in DocsOf(Glyphs, FilePaths)
  BY <1>1, ElementOfSeq
<1>7. ActiveIndex \in 1 .. Len(editors)
  BY <1>1, <1>3 DEF ActiveIndex, NthEditor
<1>8. Active \in Panes(Glyphs) /\ Active.doc \in 1 .. Len(docs)
  BY <1>1, <1>5, <1>7 DEF Active
<1>9. ActiveDoc \in DocsOf(Glyphs, FilePaths)
  BY <1>6, <1>8 DEF ActiveDoc
<1>10. Active.view \in ViewRecords
  BY <1>8 DEF Panes
<1>11. ActiveIndex \in Nat
  BY <1>4, <1>7
<1>12. LeafCount(root) = Len(root) /\ Active = editors[ActiveIndex] /\ ActiveDoc = docs[Active.doc]
  BY DEF LeafCount, Active, ActiveDoc
<1> QED
  BY <1>1, <1>2, <1>3, <1>4, <1>5, <1>6, <1>7, <1>8, <1>9, <1>10, <1>11, <1>12

\* The editors when one of them has run a command: its view is what that led to, the others'
\* are what they were.
Acted(es, eds, a, pane) ==
  /\ es \in Seq(Panes(Glyphs)) /\ Len(es) = Len(eds)
  /\ \A i \in 1 .. Len(eds) : es[i].doc = eds[i].doc /\ es[i].view = IF i = a THEN pane.view ELSE eds[i].view

EditStep(did) ==
  /\ docs' = [docs EXCEPT ![Active.doc] = did.doc]
  /\ \E es : Acted(es, editors, ActiveIndex, did.pane) /\ editors' = PropagateEdits(es)

\* One editor replaced by what a command of it led to.
LEMMA PaneSet ==
  ASSUME NEW es \in Seq(Panes(Glyphs)), NEW a \in 1 .. Len(es), NEW pane \in Panes(Glyphs), pane.doc = es[a].doc
  PROVE  Acted([es EXCEPT ![a] = pane], es, a, pane)
<1>1. /\ [es EXCEPT ![a] = pane] \in Seq(Panes(Glyphs)) /\ Len([es EXCEPT ![a] = pane]) = Len(es)
      /\ \A j \in 1 .. Len(es) : [es EXCEPT ![a] = pane][j] = IF j = a THEN pane ELSE es[j]
  BY ExceptSeq
<1>2. PICK u : u = [es EXCEPT ![a] = pane]
  OBVIOUS
<1>3. /\ u \in Seq(Panes(Glyphs)) /\ Len(u) = Len(es) /\ \A j \in 1 .. Len(es) : u[j] = IF j = a THEN pane ELSE es[j]
  BY <1>1, <1>2
<1>4. Acted(u, es, a, pane)
  BY <1>3 DEF Acted
<1> QED
  BY <1>2, <1>4

\* Editors with another clipboard each.
LEMMA ClipboardsSet ==
  ASSUME NEW es \in Seq(Panes(Glyphs)), NEW c \in Seq(Glyphs)
  PROVE  LET u == [i \in DOMAIN es |-> [es[i] EXCEPT !.clipboard = c]]
         IN  u \in Seq(Panes(Glyphs)) /\ Len(u) = Len(es) /\ \A i \in 1 .. Len(es) : u[i].doc = es[i].doc /\ u[i].view = es[i].view
<1>1. DOMAIN es = 1 .. Len(es) /\ Len(es) \in Nat /\ \A i \in 1 .. Len(es) : es[i] \in Panes(Glyphs)
  BY LenProperties, ElementOfSeq
<1>2. \A e \in Panes(Glyphs) : /\ [e EXCEPT !.clipboard = c] \in Panes(Glyphs) /\ [e EXCEPT !.clipboard = c].doc = e.doc
                               /\ [e EXCEPT !.clipboard = c].view = e.view
  BY DEF Panes
<1> DEFINE u == [i \in DOMAIN es |-> [es[i] EXCEPT !.clipboard = c]]
<1>3. \A i \in 1 .. Len(es) : u[i] \in Panes(Glyphs) /\ u[i].doc = es[i].doc /\ u[i].view = es[i].view
  BY <1>1, <1>2
<1>4. u \in Seq(Panes(Glyphs)) /\ DOMAIN u = 1 .. Len(es)
  BY <1>1, <1>3, IsASeq
<1> HIDE DEF u
<1>5. Len(u) = Len(es)
  BY <1>1, <1>4, LenProperties
<1> QED
  BY <1>3, <1>4, <1>5 DEF u

\* Both ways in which an operation of the active editor becomes the state are such a step.
LEMMA BecomeIsEdit ==
  ASSUME WorkspaceOk, NEW did, DoesLead(Glyphs, FilePaths, ActiveDoc, Active, did), Become(did)
  PROVE  EditStep(did)
<1>1. did.pane \in Panes(Glyphs) /\ did.pane.doc = editors[ActiveIndex].doc
  BY ActiveIs DEF DoesLead
<1>2. editors \in Seq(Panes(Glyphs)) /\ ActiveIndex \in 1 .. Len(editors)
  BY ActiveIs
<1>3. Acted([editors EXCEPT ![ActiveIndex] = did.pane], editors, ActiveIndex, did.pane)
  BY <1>1, <1>2, PaneSet
<1> QED
  BY <1>3 DEF Become, EditStep

\* A key that an editor takes is a step of its document and its views.
LEMMA HandleKeyIsEdit ==
  ASSUME WorkspaceOk, NEW did, DoesLead(Glyphs, FilePaths, ActiveDoc, Active, did), HandleKey(did)
  PROVE  EditStep(did)
<1>1. did.pane \in Panes(Glyphs) /\ did.pane.doc = editors[ActiveIndex].doc
  BY ActiveIs DEF DoesLead
<1>2. editors \in Seq(Panes(Glyphs)) /\ ActiveIndex \in 1 .. Len(editors)
  BY ActiveIs
<1>3. PICK es : es = [editors EXCEPT ![ActiveIndex] = did.pane]
  OBVIOUS
<1>4. Acted(es, editors, ActiveIndex, did.pane)
  BY <1>1, <1>2, <1>3, PaneSet
<1>5. es \in Seq(Panes(Glyphs)) /\ Len(es) = Len(editors)
  BY <1>4 DEF Acted
<1>6. es[ActiveIndex] \in Panes(Glyphs)
  BY <1>2, <1>5, ElementOfSeq
<1>7. PICK c \in Seq(Glyphs) : c = es[ActiveIndex].clipboard
  BY <1>6 DEF Panes
<1>8. PICK u : u = SyncClipboard(es)
  OBVIOUS
<1>9. u = [i \in DOMAIN es |-> [es[i] EXCEPT !.clipboard = c]]
  BY <1>7, <1>8 DEF SyncClipboard
<1>10. u \in Seq(Panes(Glyphs)) /\ Len(u) = Len(es) /\ \A i \in 1 .. Len(es) : u[i].doc = es[i].doc /\ u[i].view = es[i].view
  BY <1>5, <1>9, ClipboardsSet
<1>11. Acted(u, editors, ActiveIndex, did.pane)
  BY <1>4, <1>5, <1>10 DEF Acted
<1>12. editors' = PropagateEdits(es) \/ editors' = PropagateEdits(u)
  BY <1>3, <1>8 DEF HandleKey
<1>13. docs' = [docs EXCEPT ![Active.doc] = did.doc]
  BY DEF HandleKey
<1> QED
  BY <1>4, <1>11, <1>12, <1>13 DEF EditStep

\* Such a step leaves documents and editors what they should be.
LEMMA EditStepOk ==
  ASSUME WorkspaceOk, NEW did, DoesLead(Glyphs, FilePaths, ActiveDoc, Active, did), EditStep(did)
  PROVE  StateOk(docs', editors', root, focused)
<1>1. PICK es : Acted(es, editors, ActiveIndex, did.pane) /\ editors' = PropagateEdits(es)
  BY DEF EditStep
<1>2. es \in Seq(Panes(Glyphs)) /\ Len(es) = Len(editors) /\ \A i \in 1 .. Len(editors) : es[i].doc = editors[i].doc
  BY <1>1 DEF Acted
<1>5. editors' \in Seq(Panes(Glyphs)) /\ Len(editors') = Len(editors) /\ \A i \in 1 .. Len(editors) : editors'[i].doc = editors[i].doc
  BY <1>1, <1>2, PropagatedIs
<1>6. did.doc \in DocsOf(Glyphs, FilePaths)
  BY DEF DoesLead, LeadsTo, State
<1>7. docs \in Seq(DocsOf(Glyphs, FilePaths)) /\ Active.doc \in 1 .. Len(docs)
  BY ActiveIs
<1>8. [docs EXCEPT ![Active.doc] = did.doc] \in Seq(DocsOf(Glyphs, FilePaths)) /\ Len([docs EXCEPT ![Active.doc] = did.doc]) = Len(docs)
  BY <1>6, <1>7, ExceptSeq
<1>9. docs' \in Seq(DocsOf(Glyphs, FilePaths)) /\ Len(docs') = Len(docs)
  BY <1>8 DEF EditStep
<1>10. EditorsOn(editors', docs')
  BY <1>5, <1>9, ActiveIs DEF EditorsOn
<1>11. RootOn(root, editors')
  BY <1>5, ActiveIs DEF RootOn
<1>12. focused \in 0 .. Len(root) - 1
  BY ActiveIs
<1> QED
  BY <1>9, <1>10, <1>11, <1>12 DEF StateOk

-----------------------------------------------------------------------------
(* Actions: keys and commands.                                             *)

\* Editors with others in their places, of the same documents.
LEMMA EditorsBecome ==
  ASSUME WorkspaceOk, NEW u, u = [i \in 1 .. Len(editors) |-> u[i]],
         \A i \in 1 .. Len(editors) : u[i] \in Panes(Glyphs) /\ u[i].doc = editors[i].doc
  PROVE  StateOk(docs, u, root, focused) /\ Len(u) = Len(editors)
<1>1. Len(editors) \in Nat
  BY ActiveIs
<1>2. u \in Seq(Panes(Glyphs)) /\ DOMAIN u = 1 .. Len(editors)
  BY <1>1, IsASeq
<1>3. Len(u) = Len(editors)
  BY <1>1, <1>2, LenProperties
<1>4. EditorsOn(u, docs)
  BY <1>2, <1>3, ActiveIs DEF EditorsOn
<1>5. RootOn(root, u)
  BY <1>3, ActiveIs DEF RootOn
<1>6. docs \in Seq(DocsOf(Glyphs, FilePaths)) /\ focused \in 0 .. Len(root) - 1
  BY ActiveIs
<1> QED
  BY <1>3, <1>4, <1>5, <1>6 DEF StateOk

\* The active editor alone changes.
LEMMA PaneBecomes ==
  ASSUME WorkspaceOk, NEW pane \in Panes(Glyphs), pane.doc = Active.doc
  PROVE  StateOk(docs, [editors EXCEPT ![ActiveIndex] = pane], root, focused)
<1>1. DOMAIN editors = 1 .. Len(editors) /\ ActiveIndex \in 1 .. Len(editors) /\ Active = editors[ActiveIndex]
      /\ \A i \in 1 .. Len(editors) : editors[i] \in Panes(Glyphs)
  BY ActiveIs
<1>2. PICK u : u = [editors EXCEPT ![ActiveIndex] = pane]
  OBVIOUS
<1>3. u = [i \in 1 .. Len(editors) |-> u[i]] /\ \A i \in 1 .. Len(editors) : u[i] = IF i = ActiveIndex THEN pane ELSE editors[i]
  BY <1>1, <1>2
<1>4. \A i \in 1 .. Len(editors) : u[i] \in Panes(Glyphs) /\ u[i].doc = editors[i].doc
  BY <1>1, <1>3
<1>5. StateOk(docs, u, root, focused)
  BY <1>3, <1>4, EditorsBecome
<1> QED
  BY <1>2, <1>5

\* The view of the active editor alone changes.
LEMMA ViewBecomes ==
  ASSUME WorkspaceOk, NEW v \in ViewRecords
  PROVE  StateOk(docs, [editors EXCEPT ![ActiveIndex].view = v], root, focused)
<1>1. editors[ActiveIndex] = Active /\ Active \in Panes(Glyphs)
  BY ActiveIs
<1>2. PICK pane : pane = [Active EXCEPT !.view = v] /\ pane \in Panes(Glyphs) /\ pane.doc = Active.doc
  <2>1. \A e \in Panes(Glyphs) : [e EXCEPT !.view = v] \in Panes(Glyphs) /\ [e EXCEPT !.view = v].doc = e.doc
    BY DEF Panes
  <2> QED
    BY <1>1, <2>1
<1>3. [editors EXCEPT ![ActiveIndex].view = v] = [editors EXCEPT ![ActiveIndex] = pane]
  BY <1>1, <1>2
<1>4. StateOk(docs, [editors EXCEPT ![ActiveIndex] = pane], root, focused)
  BY <1>2, PaneBecomes
<1> QED
  BY <1>3, <1>4

-----------------------------------------------------------------------------
\* What the actions share.
OthersSame == clipboard' \in Seq(Glyphs) /\ profile' \in Profiles /\ quit' \in BOOLEAN /\ keys' \in Nat
Stays == StateOk(docs', editors', root', focused') /\ OthersSame

\* What belongs to no pane stays what it is.
LEMMA OthersStay ==
  ASSUME WorkspaceOk, Operation
  PROVE  /\ keys' \in Nat /\ (clipboard' = clipboard => clipboard' \in Seq(Glyphs))
         /\ (profile' = profile => profile' \in Profiles) /\ (quit' = quit => quit' \in BOOLEAN)
  BY DEF WorkspaceOk, Operation

\* The keys of an editor.
LEMMA KeyStays ==
  ASSUME WorkspaceOk, NEW did, DoesLead(Glyphs, FilePaths, ActiveDoc, Active, did), HandleKey(did)
  PROVE  Stays
<1>1. StateOk(docs', editors', root, focused)
  BY HandleKeyIsEdit, EditStepOk
<1>2. root' = root /\ focused' = focused /\ profile' = profile /\ Operation /\ clipboard' = did.pane.clipboard /\ quit' = did.pane.quit
  BY DEF HandleKey
<1>3. did.pane \in Panes(Glyphs)
  BY DEF DoesLead
<1>4. clipboard' \in Seq(Glyphs) /\ quit' \in BOOLEAN
  BY <1>2, <1>3 DEF Panes
<1>5. OthersSame
  BY <1>2, <1>4, OthersStay DEF OthersSame
<1> QED
  BY <1>1, <1>2, <1>5 DEF Stays

\* A letter leads to a document and a pane on it.
LEMMA LettersLead ==
  ASSUME WorkspaceOk, NEW ch \in Letters
  PROVE  DoesLead(Glyphs, FilePaths, ActiveDoc, Active, SelfInsert(ActiveDoc, Active, ch))
<1>1. ch \in Glyphs
  BY GlyphsAre
<1>2. ActiveDoc \in DocsOf(Glyphs, FilePaths) /\ Active \in Panes(Glyphs)
  BY ActiveIs
<1> QED
  BY <1>1, <1>2, SelfInsertLeads

\* A command leads to a document and a pane on it.
LEMMA CommandsLead ==
  ASSUME WorkspaceOk, NEW c \in Commands
  PROVE  DoesLead(Glyphs, FilePaths, ActiveDoc, Active, ExecuteIn(ActiveDoc, Active, c))
<1>1. {NL, "space"} \subseteq Glyphs /\ "none" \in FilePaths
  BY GlyphsAre
<1>2. ActiveDoc \in DocsOf(Glyphs, FilePaths) /\ Active \in Panes(Glyphs)
  BY ActiveIs
<1> QED
  BY <1>1, <1>2, CommandLeads

\* Typing keeps the invariant.
LEMMA TypeLetterStays ==
  ASSUME WorkspaceOk, TypeLetter
  PROVE  Stays
  BY LettersLead, KeyStays DEF TypeLetter

\* The keys bound to commands keep the invariant.
LEMMA CommandKeyStays ==
  ASSUME WorkspaceOk, CommandKey \/ PageKey
  PROVE  Stays
<1>1. PICK c \in Commands : HandleKey(ExecuteIn(ActiveDoc, Active, c))
  BY DEF CommandKey, PageKey, Commands, MotionCommands
<1> QED
  BY <1>1, CommandsLead, KeyStays

\* Operations of the front-end that edit.
LEMMA BecomeStays ==
  ASSUME WorkspaceOk, NEW did, DoesLead(Glyphs, FilePaths, ActiveDoc, Active, did), Become(did),
         Operation, UNCHANGED <<root, focused, clipboard, profile, quit>>
  PROVE  Stays
<1>1. StateOk(docs', editors', root, focused)
  BY BecomeIsEdit, EditStepOk
<1>2. OthersSame
  BY OthersStay DEF OthersSame
<1> QED
  BY <1>1, <1>2 DEF Stays

\* Text that is inserted leads to a document and a pane on it.
LEMMA InsertedLeads ==
  ASSUME WorkspaceOk, NEW ch \in Letters
  PROVE  DoesLead(Glyphs, FilePaths, ActiveDoc, Active, Edits(Active, Insert(ActiveDoc, Active.view, <<ch, ch>>)))
<1>1. ch \in Glyphs
  BY GlyphsAre
<1>2. <<ch, ch>> \in Seq(Glyphs)
  BY <1>1
<1>3. PICK t \in Seq(Glyphs) : t = <<ch, ch>>
  BY <1>2
<1>4. ActiveDoc \in DocsOf(Glyphs, FilePaths) /\ Active \in Panes(Glyphs) /\ Active.view \in ViewRecords
  BY ActiveIs
<1>5. DoesLead(Glyphs, FilePaths, ActiveDoc, Active, Edits(Active, Insert(ActiveDoc, Active.view, t)))
  BY <1>4, InsertLeads, EditsLead
<1> QED
  BY <1>3, <1>5

\* A range that is replaced leads to a document and a pane on it.
LEMMA ReplacedLeads ==
  ASSUME WorkspaceOk, NEW lo \in Nat, NEW hi \in Nat
  PROVE  DoesLead(Glyphs, FilePaths, ActiveDoc, Active, Edits(Active, ReplaceRange(ActiveDoc, Active.view, lo, hi, <<"x">>)))
<1>1. "x" \in Glyphs
  BY GlyphsAre
<1>2. <<"x">> \in Seq(Glyphs)
  BY <1>1
<1>3. PICK t \in Seq(Glyphs) : t = <<"x">>
  BY <1>2
<1>4. ActiveDoc \in DocsOf(Glyphs, FilePaths) /\ Active \in Panes(Glyphs) /\ Active.view \in ViewRecords
  BY ActiveIs
<1>5. DoesLead(Glyphs, FilePaths, ActiveDoc, Active, Edits(Active, ReplaceRange(ActiveDoc, Active.view, lo, hi, t)))
  BY <1>4, ReplaceLeads, EditsLead
<1> QED
  BY <1>3, <1>5

\* The text of the active document has as many bytes as a number says.
LEMMA ActiveText ==
  ASSUME WorkspaceOk
  PROVE  ActiveDoc.text \in Seq(Glyphs) /\ Bytes(ActiveDoc.text) \in Nat
<1>1. ActiveDoc.text \in Seq(Glyphs)
  BY ActiveIs DEF DocsOf
<1> QED
  BY <1>1, BytesOfAll

\* Inserting text keeps the invariant.
LEMMA InsertTextStays ==
  ASSUME WorkspaceOk, InsertText
  PROVE  Stays
<1>1. PICK ch \in Letters : Become(Edits(Active, Insert(ActiveDoc, Active.view, <<ch, ch>>)))
  BY DEF InsertText
<1>2. Operation /\ UNCHANGED <<root, focused, clipboard, profile, quit>>
  BY DEF InsertText
<1> QED
  BY <1>1, <1>2, InsertedLeads, BecomeStays

\* Replacing a range keeps the invariant.
LEMMA ReplaceActiveStays ==
  ASSUME WorkspaceOk, ReplaceActive
  PROVE  Stays
<1>1. PICK lo, hi \in 0..Bytes(ActiveDoc.text) : Become(Edits(Active, ReplaceRange(ActiveDoc, Active.view, lo, hi, <<"x">>)))
  BY DEF ReplaceActive
<1>2. Operation /\ UNCHANGED <<root, focused, clipboard, profile, quit>>
  BY DEF ReplaceActive
<1>3. lo \in Nat /\ hi \in Nat
  BY <1>1, ActiveText
<1> QED
  BY <1>1, <1>2, <1>3, ReplacedLeads, BecomeStays

\* A command of the palette keeps the invariant.
LEMMA CommandStays ==
  ASSUME WorkspaceOk, ExecuteCommand, ~CloseActiveBuffer
  PROVE  Stays
<1>1. PICK c \in {"copy", "cut", "undo"} : Become(ExecuteIn(ActiveDoc, Active, c))
  BY DEF ExecuteCommand
<1>2. Operation /\ UNCHANGED <<root, focused, clipboard, profile, quit>>
  BY DEF ExecuteCommand
<1>3. c \in Commands
  BY <1>1 DEF Commands, EditCommands, PaneCommands
<1> QED
  BY <1>1, <1>2, <1>3, CommandsLead, BecomeStays

\* The range of an edit that names a line, and its text.
LEMMA ResolveIs ==
  ASSUME NEW S, NEW t \in Seq(S), NEW row \in 0 .. LineOf(t, Len(t)), NEW kind \in {"replace", "insert", "delete"},
         NEW new \in Seq(S), NL \in S, NEW e, e = Resolve(t, [line |-> row, kind |-> kind, text |-> new])
  PROVE  e.lo \in Nat /\ e.hi \in Nat /\ e.new \in Seq(S)
<1>1. /\ Len(t) \in Nat /\ LineOf(t, Len(t)) \in Nat /\ Len(LineStarts(t)) = LineOf(t, Len(t)) + 1
      /\ \A r \in 0 .. LineOf(t, Len(t)) : IsLineStart(t, r, LineStarts(t)[r + 1])
  BY LineStartsAre
<1>2. PICK n \in Nat : n = Len(LineStarts(t)) /\ row \in 0 .. n - 1 /\ row \in Nat /\ row + 1 \in 1 .. n
  BY <1>1
<1>3. PICK s \in Nat : s = LineStarts(t)[row + 1] /\ IsLineStart(t, row, s) /\ LineEnd(t, s) \in 0 .. Len(t)
  BY <1>1, LinePlaces DEF IsLineStart
<1>4. PICK start \in Nat : start = ByteOf(t, s)
  BY ByteStep
<1>5. LinesOf(t)[row + 1] = SubSeq(t, s + 1, LineEnd(t, s))
  BY <1>2, <1>3 DEF LinesOf
<1>6. PICK line \in Seq(S) : line = LinesOf(t)[row + 1]
  <2>1. SubSeq(t, s + 1, LineEnd(t, s)) \in Seq(S)
    BY <1>1, <1>3, SubSeqProperties
  <2> QED
    BY <1>5, <2>1
<1>7. PICK end \in Nat : end = start + Bytes(line)
  BY <1>6, BytesOfAll
<1>8. Bytes(t) \in Nat
  BY BytesOfAll
<1>9. PICK next \in Nat : next = IF row + 1 >= n THEN Bytes(t) ELSE end + 1
  BY <1>8
<1>10. PICK grown \in Seq(S) : grown = IF row + 1 >= n THEN <<NL>> \o new ELSE new \o <<NL>>
  <2>1. <<NL>> \in Seq(S)
    OBVIOUS
  <2>2. <<NL>> \o new \in Seq(S) /\ new \o <<NL>> \in Seq(S)
    BY <2>1, ConcatProperties
  <2> QED
    BY <2>2
<1>11. ASSUME n # 1, row + 1 >= n
       PROVE  start >= 1
  <2>1. row >= 1
    BY <1>2, <1>11
  <2>2. LineOf(t, 0) = 0
    BY LineStep
  <2>3. s >= 1
    BY <1>3, <2>1, <2>2 DEF IsLineStart
  <2>4. ByteOf(t, s) >= ByteOf(t, 0) + (s - 0) /\ ByteOf(t, 0) = 0
    BY <2>3, BytesIncrease, ByteStep
  <2> QED
    BY <1>4, <2>3, <2>4
<1>12. PICK first \in Nat : first = IF n = 1 THEN 0 ELSE IF row + 1 >= n THEN start - 1 ELSE start
  BY <1>11
<1>13. PICK none \in Seq(S) : none = <<>>
  BY EmptySeq
<1>14. e = CASE kind = "replace" -> [lo |-> start, hi |-> end, new |-> new]
             [] kind = "insert" -> [lo |-> next, hi |-> next, new |-> grown]
             [] kind = "delete" -> [lo |-> first, hi |-> next, new |-> none]
  BY <1>2, <1>3, <1>4, <1>6, <1>7, <1>9, <1>10, <1>12, <1>13 DEF Resolve
<1>15. CASE kind = "replace"
  BY <1>14, <1>15
<1>16. CASE kind = "insert"
  BY <1>14, <1>16
<1>17. CASE kind = "delete"
  BY <1>14, <1>17
<1> QED
  BY <1>15, <1>16, <1>17

\* What the agent's edits lead to: a document and a view that keeps its edit.
IsAgents(did) ==
  did.doc \in DocsOf(Glyphs, FilePaths) /\ did.view \in ViewRecords /\ did.view.lastEdit # <<>>

\* One edit of a line leads to such.
LEMMA EditLineIs ==
  ASSUME WorkspaceOk, NEW s, s.doc \in DocsOf(Glyphs, FilePaths), s.view \in ViewRecords,
         NEW row \in 0 .. LastRow(ActiveDoc), NEW kind \in {"replace", "insert", "delete"}
  PROVE  IsAgents(EditLine(s, row, kind))
<1>1. PICK t \in Seq(Glyphs) : t = ActiveDoc.text
  BY ActiveText
<1>2. LastRow(ActiveDoc) = LineOf(t, Len(t))
  <2>1. Len(LineStarts(t)) = LineOf(t, Len(t)) + 1 /\ LineOf(t, Len(t)) \in Nat
    BY LineStartsAre
  <2> QED
    BY <1>1, <2>1 DEF LastRow
<1>3. "x" \in Glyphs /\ NL \in Glyphs
  BY GlyphsAre
<1>4. PICK new \in Seq(Glyphs) : new = <<"x">>
  <2>1. <<"x">> \in Seq(Glyphs)
    BY <1>3
  <2> QED
    BY <2>1
<1>5. PICK e : e = Resolve(t, [line |-> row, kind |-> kind, text |-> new])
  OBVIOUS
<1>6. e.lo \in Nat /\ e.hi \in Nat /\ e.new \in Seq(Glyphs)
  BY <1>2, <1>3, <1>5, ResolveIs
<1>7. EditLine(s, row, kind) = ReplaceRange(s.doc, s.view, e.lo, e.hi, e.new)
  BY <1>1, <1>4, <1>5 DEF EditLine
<1>8. LeadsTo(Glyphs, FilePaths, s.doc, ReplaceRange(s.doc, s.view, e.lo, e.hi, e.new))
  BY <1>6, ReplaceLeads
<1>9. ReplaceRange(s.doc, s.view, e.lo, e.hi, e.new).view.lastEdit # <<>>
  <2>1. PICK a, z : ReplaceRange(s.doc, s.view, e.lo, e.hi, e.new) = ApplyEdit(s.doc, Clamp(s.doc, s.view), a, z, e.new)
    BY DEF ReplaceRange
  <2>2. PICK x : x = Edit(a, z - a, Bytes(e.new))
    OBVIOUS
  <2>3. ApplyEdit(s.doc, Clamp(s.doc, s.view), a, z, e.new).view.lastEdit = <<x>>
    BY <2>2 DEF ApplyEdit, State
  <2> QED
    BY <2>1, <2>3
<1> QED
  BY <1>7, <1>8, <1>9 DEF IsAgents, LeadsTo

\* The active document has a first line.
LEMMA ActiveRows ==
  ASSUME WorkspaceOk
  PROVE  0 \in 0 .. LastRow(ActiveDoc)
<1>1. PICK t \in Seq(Glyphs) : t = ActiveDoc.text
  BY ActiveText
<1>2. Len(LineStarts(t)) = LineOf(t, Len(t)) + 1 /\ LineOf(t, Len(t)) \in Nat
  BY LineStartsAre
<1> QED
  BY <1>1, <1>2 DEF LastRow

\* The agent's edits of lines are a step of one document and one view.
LEMMA AgentEditIs ==
  ASSUME WorkspaceOk, AgentEdit
  PROVE  \E did : /\ IsAgents(did)
                  /\ docs' = [docs EXCEPT ![Active.doc] = did.doc]
                  /\ editors' = [editors EXCEPT ![ActiveIndex].view = did.view]
<1>1. PICK row \in 0 .. LastRow(ActiveDoc), kind \in {"replace", "insert", "delete"}, both \in BOOLEAN :
         \E one \in {EditLine(State(ActiveDoc, Active.view), row, kind)} :
         \E did \in {IF both /\ row > 0 THEN EditLine(one, 0, "replace") ELSE one} :
            /\ docs' = [docs EXCEPT ![Active.doc] = did.doc]
            /\ editors' = [editors EXCEPT ![ActiveIndex].view = did.view]
            /\ Len(did.doc.text) <= MaxChars
  BY Zenon DEF AgentEdit
<1>2. PICK one, did : /\ one = EditLine(State(ActiveDoc, Active.view), row, kind)
                      /\ did = IF both /\ row > 0 THEN EditLine(one, 0, "replace") ELSE one
                      /\ docs' = [docs EXCEPT ![Active.doc] = did.doc]
                      /\ editors' = [editors EXCEPT ![ActiveIndex].view = did.view]
  BY <1>1
<1>3. PICK s : s = State(ActiveDoc, Active.view)
  OBVIOUS
<1>4. s.doc \in DocsOf(Glyphs, FilePaths) /\ s.view \in ViewRecords
  <2>1. s.doc = ActiveDoc /\ s.view = Active.view
    BY <1>3 DEF State
  <2> QED
    BY <2>1, ActiveIs
<1>5. IsAgents(one)
  BY <1>2, <1>3, <1>4, EditLineIs
<1>6. 0 \in 0 .. LastRow(ActiveDoc)
  BY ActiveRows
<1>7. IsAgents(EditLine(one, 0, "replace"))
  BY <1>5, <1>6, EditLineIs DEF IsAgents
<1> QED
  BY <1>2, <1>5, <1>7

\* The agent's edits keep the invariant.
LEMMA AgentEditStays ==
  ASSUME WorkspaceOk, AgentEdit
  PROVE  Stays
<1>1. PICK did : /\ IsAgents(did)
                 /\ docs' = [docs EXCEPT ![Active.doc] = did.doc]
                 /\ editors' = [editors EXCEPT ![ActiveIndex].view = did.view]
  BY AgentEditIs
<1>2. PICK v \in ViewRecords : v = did.view
  BY <1>1 DEF IsAgents
<1>3. StateOk(docs, editors', root, focused)
  BY <1>1, <1>2, ViewBecomes
<1>4. docs \in Seq(DocsOf(Glyphs, FilePaths)) /\ Active.doc \in 1 .. Len(docs)
  BY ActiveIs
<1>5. docs' \in Seq(DocsOf(Glyphs, FilePaths)) /\ Len(docs') = Len(docs)
  BY <1>1, <1>4, ExceptSeq DEF IsAgents
<1>6. StateOk(docs', editors', root, focused)
  BY <1>3, <1>5 DEF StateOk, EditorsOn
<1>7. Operation /\ UNCHANGED <<root, focused, clipboard, profile, quit>>
  BY DEF AgentEdit
<1>8. OthersSame
  BY <1>7, OthersStay DEF OthersSame
<1> QED
  BY <1>6, <1>7, <1>8 DEF Stays

-----------------------------------------------------------------------------
(* Actions: cursors, profiles, folds and hints.                            *)

\* The active editor's view is set to a place.
LEMMA SetActiveCursorStays ==
  ASSUME WorkspaceOk, SetActiveCursor
  PROVE  Stays
<1>1. PICK b \in 0..Bytes(ActiveDoc.text) + 1 : editors' = [editors EXCEPT ![ActiveIndex].view = SetCursor(ActiveDoc, @, b)]
  BY DEF SetActiveCursor
<1>2. Operation /\ UNCHANGED <<docs, root, focused, clipboard, profile, quit>>
  BY DEF SetActiveCursor
<1>3. b \in Nat
  BY <1>1, ActiveText
<1>4. SetCursor(ActiveDoc, Active.view, b) \in ViewRecords
  BY <1>3, ActiveIs, SetCursorIs
<1>5. PICK v \in ViewRecords : v = SetCursor(ActiveDoc, Active.view, b)
  BY <1>4
<1>6. editors' = [editors EXCEPT ![ActiveIndex].view = v]
  BY <1>1, <1>5, ActiveIs
<1>7. StateOk(docs, editors', root, focused)
  BY <1>6, ViewBecomes
<1> QED
  BY <1>2, <1>7, OthersStay DEF Stays, OthersSame

\* One of some places, the next or the previous around the end, is one of them.
LEMMA AroundIs ==
  ASSUME NEW n \in Nat, NEW places \in SUBSET (0 .. n), places # {}, NEW b \in Nat
  PROVE  NextAround(places, b) \in places /\ PrevAround(places, b) \in places
<1>1. Min(places) \in places /\ Max(places) \in places
  BY MinIs, MaxIs
<1>2. (\E s \in places : s > b) => Min({s \in places : s > b}) \in places
  <2> DEFINE S == {s \in places : s > b}
  <2>1. S \in SUBSET Nat /\ S \subseteq places
    <3>1. places \subseteq Nat
      OBVIOUS
    <3>2. S \subseteq places
      OBVIOUS
    <3> QED
      BY <3>1, <3>2
  <2>2. (\E s \in places : s > b) => S # {}
    OBVIOUS
  <2> HIDE DEF S
  <2>3. S # {} => Min(S) \in S
    BY <2>1, MinIs
  <2> QED
    BY <2>1, <2>2, <2>3 DEF S
<1>3. (\E s \in places : s < b) => Max({s \in places : s < b}) \in places
  <2> DEFINE S == {s \in places : s < b}
  <2>1. S \in SUBSET (0 .. n) /\ S \subseteq places
    OBVIOUS
  <2>2. (\E s \in places : s < b) => S # {}
    OBVIOUS
  <2> HIDE DEF S
  <2>3. S # {} => Max(S) \in S
    BY <2>1, MaxIs
  <2> QED
    BY <2>1, <2>2, <2>3 DEF S
<1>4. NextAround(places, b) \in places
  BY <1>1, <1>2 DEF NextAround
<1>5. PrevAround(places, b) \in places
  BY <1>1, <1>3 DEF PrevAround
<1> QED
  BY <1>4, <1>5

\* Every boundary of a text is a number up to its size.
LEMMA BoundariesAre ==
  ASSUME NEW S, NEW t \in Seq(S), NEW b \in Boundaries(t)
  PROVE  b \in 0 .. Bytes(t)
<1>1. PICK i \in 0 .. Len(t) : b = ByteOf(t, i)
  BY DEF Boundaries
<1>2. Bytes(t) = ByteOf(t, Len(t)) /\ Bytes(t) \in Nat /\ Len(t) \in Nat
  BY BytesOfAll
<1>3. i \in Nat /\ i <= Len(t)
  BY <1>1, <1>2
<1>4. ByteOf(t, i) \in Nat /\ ByteOf(t, Len(t)) >= ByteOf(t, i) + (Len(t) - i)
  BY <1>2, <1>3, ByteStep, BytesIncrease
<1> QED
  BY <1>1, <1>2, <1>3, <1>4

\* Going to a diagnostic keeps the invariant.
LEMMA GotoDiagnosticStays ==
  ASSUME WorkspaceOk, GotoDiagnosticKey
  PROVE  Stays
<1>1. PICK a, b \in Boundaries(ActiveDoc.text), forward \in BOOLEAN :
        editors' = [editors EXCEPT ![ActiveIndex] = GotoDiagnostic(ActiveDoc, @, {a, b}, forward)]
  BY DEF GotoDiagnosticKey
<1>2. Operation /\ UNCHANGED <<docs, root, focused, clipboard, profile, quit>>
  BY DEF GotoDiagnosticKey
<1>3. ActiveDoc.text \in Seq(Glyphs) /\ Bytes(ActiveDoc.text) \in Nat
  BY ActiveText
<1>4. PICK n, places : n \in Nat /\ places = {a, b} /\ places \in SUBSET (0 .. n) /\ places # {}
  <2>1. PICK n \in Nat : n = Bytes(ActiveDoc.text)
    BY <1>3
  <2>2. a \in 0 .. n /\ b \in 0 .. n
    BY <1>1, <1>3, <2>1, BoundariesAre
  <2>3. {a, b} \in SUBSET (0 .. n)
    BY <2>2
  <2> QED
    BY <2>1, <2>3
<1>5. Cursor(ActiveDoc, Active.view) \in Nat
  <2>1. Active.view.cursor \in Nat
    BY ActiveIs DEF ViewRecords
  <2> QED
    BY <1>3, <2>1, FloorIs DEF Cursor
<1>6. PICK from \in Nat : from = Cursor(ActiveDoc, Active.view)
  BY <1>5
<1>7. NextAround(places, from) \in Nat /\ PrevAround(places, from) \in Nat
  <2>1. NextAround(places, from) \in places /\ PrevAround(places, from) \in places
    BY <1>4, AroundIs
  <2> QED
    BY <1>4, <2>1
<1>8. PICK at \in Nat : at = IF forward THEN NextAround(places, from) ELSE PrevAround(places, from)
  BY <1>7
<1>9. SetCursor(ActiveDoc, Active.view, at) \in ViewRecords
  BY ActiveIs, SetCursorIs
<1>10. PICK v \in ViewRecords : v = SetCursor(ActiveDoc, Active.view, at)
  BY <1>9
<1>11. GotoDiagnostic(ActiveDoc, Active, {a, b}, forward) = [Active EXCEPT !.view = v]
  BY <1>4, <1>6, <1>8, <1>10 DEF GotoDiagnostic
<1>12. editors' = [editors EXCEPT ![ActiveIndex].view = v]
  BY <1>1, <1>11, ActiveIs
<1>13. StateOk(docs, editors', root, focused)
  BY <1>12, ViewBecomes
<1> QED
  BY <1>2, <1>13, OthersStay DEF Stays, OthersSame

\* The clipboard, the profile, folds and hints that come to all editors or to those of a file.
LEMMA SetClipboardStays ==
  ASSUME WorkspaceOk, SetClipboard
  PROVE  Stays
<1>1. "a" \in Glyphs
  BY GlyphsAre
<1>2. PICK c \in Seq(Glyphs) : c = <<"a">>
  <2>1. <<"a">> \in Seq(Glyphs)
    BY <1>1
  <2> QED
    BY <2>1
<1>3. clipboard' = c /\ Operation /\ UNCHANGED <<docs, root, focused, profile, quit>>
  BY <1>2 DEF SetClipboard
<1> DEFINE u == [i \in DOMAIN editors |-> [editors[i] EXCEPT !.clipboard = c]]
<1>4. editors' = editors \/ editors' = u
  BY <1>2 DEF SetClipboard
<1>5. editors \in Seq(Panes(Glyphs)) /\ DOMAIN editors = 1 .. Len(editors)
  BY ActiveIs
<1>6. \A i \in 1 .. Len(editors) : u[i] \in Panes(Glyphs) /\ u[i].doc = editors[i].doc
  <2>1. \A e \in Panes(Glyphs) : [e EXCEPT !.clipboard = c] \in Panes(Glyphs) /\ [e EXCEPT !.clipboard = c].doc = e.doc
    BY DEF Panes
  <2> QED
    BY <1>5, <2>1, ActiveIs
<1>7. u = [i \in 1 .. Len(editors) |-> u[i]]
  BY <1>5
<1> HIDE DEF u
<1>8. StateOk(docs, u, root, focused)
  BY <1>6, <1>7, EditorsBecome
<1>9. StateOk(docs, editors, root, focused)
  BY DEF WorkspaceOk
<1> QED
  BY <1>3, <1>4, <1>8, <1>9, OthersStay DEF Stays, OthersSame

\* Changing the profile of all editors keeps the invariant.
LEMMA SetProfilesStays ==
  ASSUME WorkspaceOk, SetProfiles
  PROVE  Stays
<1>1. profile' \in Profiles /\ Operation /\ UNCHANGED <<docs, root, focused, clipboard, quit>>
  BY DEF SetProfiles
<1>2. PICK prof \in Profiles : prof = profile'
  BY <1>1
<1> DEFINE u == [i \in DOMAIN editors |-> SetProfile(editors[i], prof)]
<1>3. editors' = u
  BY <1>2 DEF SetProfiles
<1>4. DOMAIN editors = 1 .. Len(editors) /\ \A i \in 1 .. Len(editors) : editors[i] \in Panes(Glyphs)
  BY ActiveIs
<1>5. \A i \in 1 .. Len(editors) : u[i] \in Panes(Glyphs) /\ u[i].doc = editors[i].doc
  BY <1>4, ProfileIs
<1>6. u = [i \in 1 .. Len(editors) |-> u[i]]
  BY <1>4
<1> HIDE DEF u
<1>7. StateOk(docs, u, root, focused)
  BY <1>5, <1>6, EditorsBecome
<1> QED
  BY <1>1, <1>3, <1>7, OthersStay DEF Stays, OthersSame

\* Folds from the server keep the invariant.
LEMMA ApplyFoldsStays ==
  ASSUME WorkspaceOk, ApplyFolds
  PROVE  Stays
<1>1. PICK fold \in {<<0, 1>>, <<0, 2>>} :
        editors' = [i \in DOMAIN editors |->
              IF PathOf(i) = PathOf(ActiveIndex) THEN SetFolds(editors[i], {fold}) ELSE editors[i]]
  BY DEF ApplyFolds
<1>2. Operation /\ UNCHANGED <<docs, root, focused, clipboard, profile, quit>>
  BY DEF ApplyFolds
<1> DEFINE kept == {f \in {fold} : f[2] > f[1]}
<1>3. kept \in Folds
  <2>1. fold \in Nat \X Nat /\ IsFiniteSet({fold})
    BY <1>1, FS_Singleton
  <2>2. kept \subseteq {fold} /\ kept \in SUBSET (Nat \X Nat)
    BY <2>1
  <2>3. IsFiniteSet(kept)
    BY <2>1, <2>2, FS_Subset
  <2> QED
    BY <2>2, <2>3 DEF Folds
<1>4. PICK ks : ks = kept /\ ks \in Folds
  BY <1>3
<1> HIDE DEF kept
<1>5. \A e \in Panes(Glyphs) : SetFolds(e, {fold}) \in Panes(Glyphs) /\ SetFolds(e, {fold}).doc = e.doc
  <2> SUFFICES ASSUME NEW e \in Panes(Glyphs)
               PROVE  SetFolds(e, {fold}) \in Panes(Glyphs) /\ SetFolds(e, {fold}).doc = e.doc
    OBVIOUS
  <2>1. SetFolds(e, {fold}) = [e EXCEPT !.folds = ks, !.folded = e.folded \cap {f[1] : f \in ks}]
    BY <1>4 DEF SetFolds, kept
  <2>2. e.folded \in SUBSET Nat
    BY DEF Panes
  <2>3. PICK fd : fd = e.folded \cap {f[1] : f \in ks} /\ fd \in SUBSET Nat
    BY <2>2
  <2>4. [e EXCEPT !.folds = ks, !.folded = fd] \in Panes(Glyphs) /\ [e EXCEPT !.folds = ks, !.folded = fd].doc = e.doc
    BY <1>4, <2>3 DEF Panes
  <2> QED
    BY <2>1, <2>3, <2>4
<1> DEFINE u == [i \in DOMAIN editors |-> IF PathOf(i) = PathOf(ActiveIndex) THEN SetFolds(editors[i], {fold}) ELSE editors[i]]
<1>6. editors' = u
  BY <1>1
<1>7. DOMAIN editors = 1 .. Len(editors) /\ \A i \in 1 .. Len(editors) : editors[i] \in Panes(Glyphs)
  BY ActiveIs
<1>8. \A i \in 1 .. Len(editors) : u[i] \in Panes(Glyphs) /\ u[i].doc = editors[i].doc
  BY <1>5, <1>7
<1>9. u = [i \in 1 .. Len(editors) |-> u[i]]
  BY <1>7
<1> HIDE DEF u
<1>10. StateOk(docs, u, root, focused)
  BY <1>8, <1>9, EditorsBecome
<1> QED
  BY <1>2, <1>6, <1>10, OthersStay DEF Stays, OthersSame

\* Hints from the server keep the invariant.
LEMMA ApplyInlayHintsStays ==
  ASSUME WorkspaceOk, ApplyInlayHints
  PROVE  Stays
<1>1. PICK b \in Boundaries(ActiveDoc.text) :
        editors' = [i \in DOMAIN editors |->
              IF PathOf(i) = PathOf(ActiveIndex) THEN [editors[i] EXCEPT !.hints = {b}] ELSE editors[i]]
  BY DEF ApplyInlayHints
<1>2. Operation /\ UNCHANGED <<docs, root, focused, clipboard, profile, quit>>
  BY DEF ApplyInlayHints
<1>3. b \in Nat
  BY <1>1, ActiveText, BoundariesAre
<1>4. \A e \in Panes(Glyphs) : [e EXCEPT !.hints = {b}] \in Panes(Glyphs) /\ [e EXCEPT !.hints = {b}].doc = e.doc
  BY <1>3 DEF Panes
<1> DEFINE u == [i \in DOMAIN editors |-> IF PathOf(i) = PathOf(ActiveIndex) THEN [editors[i] EXCEPT !.hints = {b}] ELSE editors[i]]
<1>5. editors' = u
  BY <1>1
<1>6. DOMAIN editors = 1 .. Len(editors) /\ \A i \in 1 .. Len(editors) : editors[i] \in Panes(Glyphs)
  BY ActiveIs
<1>7. \A i \in 1 .. Len(editors) : u[i] \in Panes(Glyphs) /\ u[i].doc = editors[i].doc
  BY <1>4, <1>6
<1>8. u = [i \in 1 .. Len(editors) |-> u[i]]
  BY <1>6
<1> HIDE DEF u
<1>9. StateOk(docs, u, root, focused)
  BY <1>7, <1>8, EditorsBecome
<1> QED
  BY <1>2, <1>5, <1>9, OthersStay DEF Stays, OthersSame

\* A fold is toggled.
LEMMA ToggledIs ==
  ASSUME NEW S, NEW P, NEW d \in DocsOf(S, P), NEW e \in Panes(S)
  PROVE  ToggleFold(d, e) \in Panes(S) /\ ToggleFold(d, e).doc = e.doc
<1>1. e.view \in ViewRecords /\ e.folded \in SUBSET Nat /\ e.folds \in SUBSET (Nat \X Nat)
  BY DEF Panes, Folds
<1>2. PICK line \in Nat : line = Row(d, e.view) /\ line \in 0 .. LineOf(d.text, Len(d.text))
  BY <1>1, RowIs
<1> DEFINE around == {f \in e.folds : f[1] <= line /\ line <= f[2]}
           firsts == {f[1] : f \in around}
<1>3. firsts \in SUBSET (0 .. line) /\ (around # {} => firsts # {})
  BY <1>1
<1>4. PICK start : start = Max(firsts)
  OBVIOUS
<1> HIDE DEF firsts
<1>5. around # {} => start \in 0 .. line
  BY <1>3, <1>4, MaxIs
<1>6. CASE around = {}
  BY <1>2, <1>6 DEF ToggleFold
<1>7. CASE around # {} /\ start \in e.folded
  <2>1. ToggleFold(d, e) = [e EXCEPT !.folded = e.folded \ {start}]
    BY <1>2, <1>4, <1>7 DEF ToggleFold, firsts
  <2>2. PICK fd : fd = e.folded \ {start} /\ fd \in SUBSET Nat
    BY <1>1
  <2>3. [e EXCEPT !.folded = fd] \in Panes(S) /\ [e EXCEPT !.folded = fd].doc = e.doc
    BY <2>2 DEF Panes
  <2> QED
    BY <2>1, <2>2, <2>3
<1>8. CASE around # {} /\ start \notin e.folded
  <2>1. LineStart(d, start) \in Nat
    <3>1. d.text \in Seq(S)
      BY DEF DocsOf
    <3>2. start \in 0 .. LineOf(d.text, Len(d.text))
      <4>1. PICK last \in Nat : last = LineOf(d.text, Len(d.text))
        BY <1>1, RowIs
      <4>2. start \in 0 .. line
        BY <1>5, <1>8
      <4>3. line \in 0 .. last
        BY <1>2, <4>1
      <4>4. start \in 0 .. last
        BY <4>2, <4>3
      <4> QED
        BY <4>1, <4>4
    <3> QED
      BY <3>1, <3>2, LinePlaces DEF LineStart
  <2>2. PICK at \in Nat : at = ByteOf(d.text, LineStart(d, start))
    BY <2>1, ByteStep
  <2>3. SetCursor(d, e.view, at) \in ViewRecords
    BY <1>1, SetCursorIs
  <2>4. PICK v \in ViewRecords : v = IF line > start THEN SetCursor(d, e.view, at) ELSE e.view
    BY <1>1, <2>3
  <2>5. PICK fd : fd = e.folded \cup {start} /\ fd \in SUBSET Nat
    <3>1. start \in 0 .. line
      BY <1>5, <1>8
    <3>2. start \in Nat
      BY <3>1
    <3> QED
      BY <1>1, <3>2
  <2>6. ToggleFold(d, e) = [e EXCEPT !.folded = fd, !.view = v]
    BY <1>2, <1>4, <1>8, <2>2, <2>4, <2>5 DEF ToggleFold, firsts
  <2>7. [e EXCEPT !.folded = fd, !.view = v] \in Panes(S) /\ [e EXCEPT !.folded = fd, !.view = v].doc = e.doc
    BY <2>5 DEF Panes
  <2> QED
    BY <2>6, <2>7
<1> QED
  BY <1>6, <1>7, <1>8

\* Opening or closing a fold keeps the invariant.
LEMMA ToggleStays ==
  ASSUME WorkspaceOk, ToggleActiveFold
  PROVE  Stays
<1>1. Operation /\ UNCHANGED <<docs, root, focused, clipboard, profile, quit>>
  BY DEF ToggleActiveFold
<1>2. ToggleFold(ActiveDoc, Active) \in Panes(Glyphs) /\ ToggleFold(ActiveDoc, Active).doc = Active.doc
  BY ActiveIs, ToggledIs
<1>3. PICK pane \in Panes(Glyphs) : pane = ToggleFold(ActiveDoc, Active) /\ pane.doc = Active.doc
  BY <1>2
<1>4. editors' = [editors EXCEPT ![ActiveIndex] = pane]
  BY <1>3, ActiveIs DEF ToggleActiveFold
<1>5. StateOk(docs, editors', root, focused)
  BY <1>3, <1>4, PaneBecomes
<1> QED
  BY <1>1, <1>5, OthersStay DEF Stays, OthersSame

-----------------------------------------------------------------------------
(* Actions: panes and editors.                                             *)

\* Another tree of panes that show editors there are, and a focus on one of them.
LEMMA TreeBecomes ==
  ASSUME WorkspaceOk, NEW tree, IsTree(tree), \A n \in 1 .. Len(tree) : tree[n].editor \in 1 .. Len(editors),
         NEW at, at \in 0 .. Len(tree) - 1
  PROVE  StateOk(docs, editors, tree, at)
<1>1. RootOn(tree, editors)
  BY DEF RootOn
<1>2. docs \in Seq(DocsOf(Glyphs, FilePaths)) /\ EditorsOn(editors, docs)
  BY DEF WorkspaceOk, StateOk
<1> QED
  BY <1>1, <1>2 DEF StateOk

\* One more editor, of a document there is.
LEMMA EditorAdded ==
  ASSUME NEW ds, NEW es, EditorsOn(es, ds), NEW e \in Panes(Glyphs), e.doc \in 1 .. Len(ds)
  PROVE  EditorsOn(Append(es, e), ds) /\ Len(Append(es, e)) = Len(es) + 1
<1>1. es \in Seq(Panes(Glyphs)) /\ \A i \in 1 .. Len(es) : es[i].doc \in 1 .. Len(ds)
  BY DEF EditorsOn
<1>2. PICK u : u = Append(es, e)
  OBVIOUS
<1>3. IsAppended(u, Panes(Glyphs), es, e)
  BY <1>1, <1>2, AppendIs
<1>4. u \in Seq(Panes(Glyphs)) /\ Len(u) = Len(es) + 1 /\ u[Len(es) + 1] = e /\ \A k \in 1 .. Len(es) : u[k] = es[k]
  BY <1>3 DEF IsAppended
<1>5. Len(es) \in Nat
  BY <1>1, LenProperties
<1>6. \A i \in 1 .. Len(u) : i \in 1 .. Len(es) \/ i = Len(es) + 1
  BY <1>4, <1>5
<1>7. \A i \in 1 .. Len(u) : u[i].doc \in 1 .. Len(ds)
  BY <1>1, <1>4, <1>6
<1>8. EditorsOn(u, ds)
  BY <1>4, <1>7 DEF EditorsOn
<1> QED
  BY <1>2, <1>4, <1>8

\* One more document.
LEMMA DocumentAdded ==
  ASSUME NEW ds \in Seq(DocsOf(Glyphs, FilePaths)), NEW es, EditorsOn(es, ds), NEW d \in DocsOf(Glyphs, FilePaths)
  PROVE  /\ Append(ds, d) \in Seq(DocsOf(Glyphs, FilePaths)) /\ Len(Append(ds, d)) = Len(ds) + 1
         /\ EditorsOn(es, Append(ds, d)) /\ \A k \in 1 .. Len(ds) : Append(ds, d)[k] = ds[k]
<1>1. PICK u : u = Append(ds, d)
  OBVIOUS
<1>2. IsAppended(u, DocsOf(Glyphs, FilePaths), ds, d)
  BY <1>1, AppendIs
<1>3. u \in Seq(DocsOf(Glyphs, FilePaths)) /\ Len(u) = Len(ds) + 1 /\ \A k \in 1 .. Len(ds) : u[k] = ds[k]
  BY <1>2 DEF IsAppended
<1>4. Len(ds) \in Nat
  BY LenProperties
<1>5. 1 .. Len(ds) \subseteq 1 .. Len(u)
  BY <1>3, <1>4
<1>6. EditorsOn(es, u)
  BY <1>5 DEF EditorsOn
<1> QED
  BY <1>1, <1>3, <1>6

\* Splitting a pane keeps the invariant.
LEMMA SplitStays ==
  ASSUME WorkspaceOk, SplitFocused
  PROVE  Stays
<1>1. PICK dir \in {"columns", "rows"} : root' = SplitLeaf(root, focused, dir, Len(editors) + 1)
  BY DEF SplitFocused
<1>2. /\ Operation /\ editors' = Append(editors, [ViewOf(Active) EXCEPT !.clipboard = clipboard])
      /\ focused' = focused + 1 /\ UNCHANGED <<docs, clipboard, profile, quit>>
  BY DEF SplitFocused
<1>3. NewEditor(Active.doc) \in Panes(Glyphs) /\ NewEditor(Active.doc).doc = Active.doc
  <2>1. Active.doc \in Nat
    BY ActiveIs
  <2> QED
    BY <2>1, NewEditorIs
<1>4. clipboard \in Seq(Glyphs)
  BY DEF WorkspaceOk
<1>5. \A e \in Panes(Glyphs) : [e EXCEPT !.clipboard = clipboard] \in Panes(Glyphs) /\ [e EXCEPT !.clipboard = clipboard].doc = e.doc
  BY <1>4 DEF Panes
<1>6. PICK e \in Panes(Glyphs) : e = [ViewOf(Active) EXCEPT !.clipboard = clipboard] /\ e.doc = Active.doc
  BY <1>3, <1>5 DEF ViewOf
<1>7. EditorsOn(editors, docs) /\ e.doc \in 1 .. Len(docs)
  BY <1>6, ActiveIs DEF EditorsOn
<1>8. EditorsOn(Append(editors, e), docs) /\ Len(Append(editors, e)) = Len(editors) + 1
  BY <1>7, EditorAdded
<1>9. EditorsOn(editors', docs) /\ Len(editors') = Len(editors) + 1
  BY <1>2, <1>6, <1>8
<1>10. PICK new \in Nat : new = Len(editors) + 1
  BY ActiveIs
<1>11. focused \in 0 .. Len(root) - 1 /\ IsTree(root) /\ Len(root) \in Nat /\ Len(editors) \in Nat /\ DOMAIN root = 1 .. Len(root)
       /\ \A n \in 1 .. Len(root) : root[n].editor \in 1 .. Len(editors)
  BY ActiveIs
<1>12. PICK tree : tree = SplitLeaf(root, focused, dir, new)
  OBVIOUS
<1>13. /\ IsTree(tree) /\ Len(tree) = Len(root) + 1
       /\ \A k \in DOMAIN tree : tree[k].editor \in {root[m].editor : m \in DOMAIN root} \cup {new}
  BY <1>11, <1>12, SplitTree
<1>14. DOMAIN tree = 1 .. Len(tree)
  BY <1>13, LeavesOfTree
<1>15. \A k \in 1 .. Len(tree) : tree[k].editor \in 1 .. Len(editors')
  BY <1>9, <1>10, <1>11, <1>13, <1>14
<1>16. RootOn(tree, editors')
  BY <1>13, <1>15 DEF RootOn
<1>17. focused + 1 \in 0 .. Len(tree) - 1
  BY <1>11, <1>13
<1>18. docs \in Seq(DocsOf(Glyphs, FilePaths))
  BY ActiveIs
<1>19. StateOk(docs, editors', tree, focused + 1)
  BY <1>9, <1>16, <1>17, <1>18 DEF StateOk
<1> QED
  BY <1>1, <1>2, <1>10, <1>12, <1>19, OthersStay DEF Stays, OthersSame

\* Going to the next pane keeps the invariant.
LEMMA FocusStays ==
  ASSUME WorkspaceOk, FocusNext
  PROVE  Stays
<1>1. Operation /\ focused' = (focused + 1) % LeafCount(root) /\ UNCHANGED <<docs, editors, root, clipboard, profile, quit>>
  BY DEF FocusNext
<1>2. PICK n, at : n = Len(root) /\ at = focused + 1 /\ n \in Nat /\ at \in 1 .. n /\ LeafCount(root) = n
  BY ActiveIs
<1>3. at % n \in 0 .. n - 1
  BY <1>2
<1>4. focused' \in 0 .. Len(root) - 1
  BY <1>1, <1>2, <1>3
<1>5. StateOk(docs, editors, root, focused')
  BY <1>4, ActiveIs, TreeBecomes
<1> QED
  BY <1>1, <1>5, OthersStay DEF Stays, OthersSame

\* Resizing a pane keeps the invariant.
LEMMA ResizeStays ==
  ASSUME WorkspaceOk, Resize
  PROVE  Stays
<1>1. PICK grow \in BOOLEAN : root' = ResizeLeaf(root, focused, grow)
  BY DEF Resize
<1>2. Operation /\ UNCHANGED <<docs, editors, focused, clipboard, profile, quit>>
  BY DEF Resize
<1>3. /\ IsTree(ResizeLeaf(root, focused, grow)) /\ Len(ResizeLeaf(root, focused, grow)) = Len(root)
      /\ \A m \in 1 .. Len(root) : ResizeLeaf(root, focused, grow)[m].editor = root[m].editor
  BY ActiveIs, ResizedTree
<1>4. IsTree(root') /\ Len(root') = Len(root) /\ \A m \in 1 .. Len(root) : root'[m].editor = root[m].editor
  BY <1>1, <1>3
<1>5. StateOk(docs, editors, root', focused)
  BY <1>4, ActiveIs, TreeBecomes
<1> QED
  BY <1>2, <1>5, OthersStay DEF Stays, OthersSame

\* The focused pane shows another editor.
LEMMA ShowsAnother ==
  ASSUME WorkspaceOk, NEW es, Len(editors) <= Len(es), Len(es) \in Nat, NEW editor \in 1 .. Len(es)
  PROVE  RootOn(SetNthEditor(root, focused, editor), es) /\ focused \in 0 .. Len(SetNthEditor(root, focused, editor)) - 1
<1>1. PICK tree : tree = SetNthEditor(root, focused, editor)
  OBVIOUS
<1>2. editor \in Nat /\ IsTree(root) /\ focused \in 0 .. Len(root) - 1 /\ Len(editors) \in Nat
      /\ \A n \in 1 .. Len(root) : root[n].editor \in 1 .. Len(editors)
  BY ActiveIs
<1>3. /\ IsTree(tree) /\ Len(tree) = Len(root)
      /\ \A m \in 1 .. Len(root) : tree[m].editor = IF m = focused + 1 THEN editor ELSE root[m].editor
  BY <1>1, <1>2, SetTree
<1>4. \A m \in 1 .. Len(tree) : tree[m].editor \in 1 .. Len(es)
  BY <1>2, <1>3
<1>5. RootOn(tree, es)
  BY <1>3, <1>4 DEF RootOn
<1> QED
  BY <1>1, <1>2, <1>3, <1>5

\* Showing another editor keeps the invariant.
LEMMA CycleStays ==
  ASSUME WorkspaceOk, NEW forward \in BOOLEAN, CycleBuffer(forward)
  PROVE  Stays
<1> DEFINE candidates == {i \in DOMAIN editors : i = ActiveIndex \/ ~ShownElsewhere(i)}
<1>1. root' = SetNthEditor(root, focused, IF forward THEN NextAround(candidates, ActiveIndex) ELSE PrevAround(candidates, ActiveIndex))
  BY DEF CycleBuffer
<1>2. Operation /\ UNCHANGED <<docs, editors, focused, clipboard, profile, quit>>
  BY DEF CycleBuffer
<1>3. PICK n \in Nat : n = Len(editors)
  BY ActiveIs
<1>4. candidates \subseteq 1 .. n /\ ActiveIndex \in candidates
  BY <1>3, ActiveIs
<1>5. PICK c : c = candidates /\ c \subseteq 1 .. n /\ c # {}
  BY <1>4
<1>6. c \in SUBSET (0 .. n)
  BY <1>5
<1>7. NextAround(c, ActiveIndex) \in c /\ PrevAround(c, ActiveIndex) \in c
  BY <1>5, <1>6, ActiveIs, AroundIs
<1> HIDE DEF candidates
<1>8. PICK i \in 1 .. n : i = IF forward THEN NextAround(candidates, ActiveIndex) ELSE PrevAround(candidates, ActiveIndex)
  BY <1>5, <1>7
<1>9. root' = SetNthEditor(root, focused, i)
  BY <1>1, <1>8
<1>10. RootOn(root', editors) /\ focused \in 0 .. Len(root') - 1
  BY <1>3, <1>9, ShowsAnother
<1>11. StateOk(docs, editors, root', focused)
  BY <1>10, TreeBecomes DEF RootOn
<1> QED
  BY <1>2, <1>11, OthersStay DEF Stays, OthersSame

\* Closing a pane keeps the invariant.
LEMMA ClosePaneStays ==
  ASSUME WorkspaceOk, ClosePane
  PROVE  Stays
<1>1. /\ Operation /\ LeafCount(root) > 1 /\ root' = RemoveLeaf(root, focused)
      /\ focused' = Smaller(focused, LeafCount(root) - 2) /\ UNCHANGED <<docs, editors, clipboard, profile, quit>>
  BY DEF ClosePane
<1>2. /\ IsTree(root) /\ focused \in 0 .. Len(root) - 1 /\ LeafCount(root) = Len(root) /\ Len(root) \in Nat
      /\ DOMAIN root = 1 .. Len(root) /\ \A n \in 1 .. Len(root) : root[n].editor \in 1 .. Len(editors)
  BY ActiveIs
<1>3. PICK tree : tree = RemoveLeaf(root, focused)
  OBVIOUS
<1>4. /\ IsTree(tree) /\ Len(tree) = Len(root) - 1
      /\ \A k \in DOMAIN tree : tree[k].editor \in {root[m].editor : m \in DOMAIN root}
  BY <1>1, <1>2, <1>3, RemovedTree
<1>5. DOMAIN tree = 1 .. Len(tree)
  BY <1>4, LeavesOfTree
<1>6. \A k \in 1 .. Len(tree) : tree[k].editor \in 1 .. Len(editors)
  BY <1>2, <1>4, <1>5
<1>7. focused' \in 0 .. Len(tree) - 1
  BY <1>1, <1>2, <1>4 DEF Smaller
<1>8. StateOk(docs, editors, tree, focused')
  BY <1>4, <1>6, <1>7, TreeBecomes
<1> QED
  BY <1>1, <1>3, <1>8, OthersStay DEF Stays, OthersSame

\* Closing an editor keeps the invariant, whichever panes showed it.
LEMMA CloseBufferStays ==
  ASSUME WorkspaceOk, CloseActiveBuffer
  PROVE  Stays
<1>1. Operation /\ UNCHANGED <<focused, clipboard, profile, quit>>
  BY DEF CloseActiveBuffer
<1>2. /\ Len(editors) \in Nat /\ Len(docs) \in Nat /\ docs \in Seq(DocsOf(Glyphs, FilePaths)) /\ EditorsOn(editors, docs)
      /\ ActiveIndex \in 1 .. Len(editors) /\ editors \in Seq(Panes(Glyphs)) /\ IsTree(root) /\ Len(root) \in Nat
      /\ focused \in 0 .. Len(root) - 1 /\ \A n \in 1 .. Len(root) : root[n].editor \in 1 .. Len(editors)
  BY ActiveIs DEF WorkspaceOk, StateOk
<1>3. CASE Len(editors) = 1
  <2>1. docs' = Append(docs, NewDoc(Scratch, <<>>)) /\ editors' = <<SetProfile(NewEditor(Len(docs) + 1), profile)>> /\ root' = root
    BY <1>3 DEF CloseActiveBuffer
  <2>2. NewDoc(Scratch, <<>>) \in DocsOf(Glyphs, FilePaths)
    BY GlyphsAre, NewDocIs
  <2>3. docs' \in Seq(DocsOf(Glyphs, FilePaths)) /\ Len(docs') = Len(docs) + 1
    BY <1>2, <2>1, <2>2, DocumentAdded
  <2>4. PICK doc \in Nat : doc = Len(docs) + 1
    BY <1>2
  <2>5. profile \in Profiles
    BY DEF WorkspaceOk
  <2>6. PICK e \in Panes(Glyphs) : e = SetProfile(NewEditor(doc), profile) /\ e.doc = doc
    BY <2>5, NewPaneIs
  <2>7. editors' = <<e>>
    BY <2>1, <2>4, <2>6
  <2>8. <<e>> \in Seq(Panes(Glyphs)) /\ Len(<<e>>) = 1 /\ <<e>>[1] = e
    OBVIOUS
  <2>9. EditorsOn(editors', docs') /\ Len(editors') = 1
    BY <1>2, <2>3, <2>4, <2>6, <2>7, <2>8 DEF EditorsOn
  <2>10. RootOn(root', editors')
    BY <1>2, <1>3, <2>1, <2>9 DEF RootOn
  <2>11. StateOk(docs', editors', root', focused)
    BY <1>2, <2>1, <2>3, <2>9, <2>10 DEF StateOk
  <2> QED
    BY <1>1, <2>11, OthersStay DEF Stays, OthersSame
<1>4. CASE Len(editors) # 1
  <2>1. /\ editors' = RemoveAt(editors, ActiveIndex) /\ docs' = docs
        /\ root' = RemapEditors(root, ActiveIndex, Smaller(ActiveIndex, Len(editors) - 1))
    BY <1>4 DEF CloseActiveBuffer
  <2>2. IsRemoved(editors', Panes(Glyphs), editors, ActiveIndex)
    BY <1>2, <2>1, RemoveAtIs
  <2>3. /\ editors' \in Seq(Panes(Glyphs)) /\ Len(editors') = Len(editors) - 1
        /\ \A k \in 1 .. Len(editors) - 1 : editors'[k] = IF k < ActiveIndex THEN editors[k] ELSE editors[k + 1]
    BY <2>2 DEF IsRemoved
  <2> DEFINE n == Len(editors)
             a == ActiveIndex
  <2>20. n \in Nat /\ a \in 1 .. n /\ n # 1
    BY <1>2, <1>4
  <2> HIDE DEF n, a
  <2>4. \A k \in 1 .. Len(editors') : editors'[k].doc \in 1 .. Len(docs)
    <3>1. ASSUME NEW k \in 1 .. n - 1
          PROVE  editors'[k].doc \in 1 .. Len(docs)
      <4>1. k \in 1 .. n /\ k + 1 \in 1 .. n
        BY <2>20
      <4>2. editors'[k] = editors[k] \/ editors'[k] = editors[k + 1]
        BY <2>3 DEF n
      <4>3. editors[k].doc \in 1 .. Len(docs) /\ editors[k + 1].doc \in 1 .. Len(docs)
        BY <1>2, <4>1 DEF EditorsOn, n
      <4> QED
        BY <4>2, <4>3
    <3> QED
      BY <2>3, <3>1 DEF n
  <2>5. EditorsOn(editors', docs)
    BY <2>3, <2>4 DEF EditorsOn
  <2>6. PICK to \in Nat : to = Smaller(ActiveIndex, Len(editors) - 1) /\ to \in 1 .. Len(editors) - 1
    <3>1. Smaller(a, n - 1) \in 1 .. n - 1
      BY <2>20 DEF Smaller
    <3>2. \A x \in 1 .. n - 1 : x \in Nat
      BY <2>20
    <3> QED
      BY <3>1, <3>2 DEF n, a
  <2>7. ActiveIndex \in Nat
    BY ActiveIs
  <2>8. PICK tree : tree = RemapEditors(root, ActiveIndex, to)
    OBVIOUS
  <2>9. /\ IsTree(tree) /\ Len(tree) = Len(root)
        /\ \A m \in 1 .. Len(root) : tree[m].editor =
               IF root[m].editor = ActiveIndex THEN to
               ELSE IF root[m].editor > ActiveIndex THEN root[m].editor - 1 ELSE root[m].editor
    BY <1>2, <2>7, <2>8, RemappedTree
  <2>10. \A m \in 1 .. Len(tree) : tree[m].editor \in 1 .. Len(editors')
    <3>1. ASSUME NEW m \in 1 .. Len(root)
          PROVE  tree[m].editor \in 1 .. n - 1
      <4>1. PICK x : x = root[m].editor /\ x \in 1 .. n
        BY <1>2 DEF n
      <4>2. tree[m].editor = IF x = a THEN to ELSE IF x > a THEN x - 1 ELSE x
        BY <2>9, <4>1 DEF a
      <4>3. to \in 1 .. n - 1
        BY <2>6 DEF n
      <4> QED
        BY <2>20, <4>1, <4>2, <4>3
    <3>2. Len(editors') = n - 1
      BY <2>3 DEF n
    <3> QED
      BY <2>9, <3>1, <3>2
  <2>11. RootOn(tree, editors') /\ focused \in 0 .. Len(tree) - 1
    BY <1>2, <2>9, <2>10 DEF RootOn
  <2>12. StateOk(docs, editors', tree, focused)
    BY <1>2, <2>5, <2>11 DEF StateOk
  <2> QED
    BY <1>1, <2>1, <2>6, <2>8, <2>12, OthersStay DEF Stays, OthersSame
<1> QED
  BY <1>3, <1>4

\* A file is opened in a new editor.
LEMMA OpenedIs ==
  ASSUME WorkspaceOk, NEW p \in DOMAIN Files, OpenFile(p)
  PROVE  StateOk(docs', editors', root', focused)
<1>1. /\ docs' = Append(docs, NewDoc(p, Files[p]))
      /\ editors' = Append(editors, SetProfile(NewEditor(Len(docs) + 1), profile))
      /\ root' = SetNthEditor(root, focused, Len(editors) + 1)
  BY DEF OpenFile
<1>2. NewDoc(p, Files[p]) \in DocsOf(Glyphs, FilePaths)
  BY GlyphsAre, NewDocIs
<1>3. docs \in Seq(DocsOf(Glyphs, FilePaths)) /\ EditorsOn(editors, docs) /\ Len(docs) \in Nat /\ Len(editors) \in Nat
  BY ActiveIs DEF WorkspaceOk, StateOk
<1>4. docs' \in Seq(DocsOf(Glyphs, FilePaths)) /\ Len(docs') = Len(docs) + 1 /\ EditorsOn(editors, docs')
  BY <1>1, <1>2, <1>3, DocumentAdded
<1>5. PICK doc \in Nat : doc = Len(docs) + 1
  BY <1>3
<1>6. profile \in Profiles
  BY DEF WorkspaceOk
<1>7. PICK e \in Panes(Glyphs) : e = SetProfile(NewEditor(doc), profile) /\ e.doc = doc
  BY <1>6, NewPaneIs
<1>8. e.doc \in 1 .. Len(docs')
  BY <1>3, <1>4, <1>5, <1>7
<1>9. EditorsOn(Append(editors, e), docs') /\ Len(Append(editors, e)) = Len(editors) + 1
  BY <1>4, <1>8, EditorAdded
<1>10. EditorsOn(editors', docs') /\ Len(editors') = Len(editors) + 1
  BY <1>1, <1>5, <1>7, <1>9
<1>11. PICK new : new = Len(editors) + 1 /\ new \in 1 .. Len(editors')
  BY <1>3, <1>10
<1>12. Len(editors) <= Len(editors') /\ Len(editors') \in Nat
  BY <1>3, <1>10
<1>13. RootOn(SetNthEditor(root, focused, new), editors') /\ focused \in 0 .. Len(SetNthEditor(root, focused, new)) - 1
  BY <1>11, <1>12, ShowsAnother
<1>14. RootOn(root', editors') /\ focused \in 0 .. Len(root') - 1
  BY <1>1, <1>11, <1>13
<1> QED
  BY <1>4, <1>10, <1>14 DEF StateOk

\* Opening a file keeps the invariant.
LEMMA OpenStays ==
  ASSUME WorkspaceOk, Open
  PROVE  Stays
<1>1. PICK p \in DOMAIN Files : OpenFile(p)
  BY DEF Open
<1>2. Operation /\ UNCHANGED <<focused, clipboard, profile, quit>>
  BY DEF Open
<1>3. StateOk(docs', editors', root', focused)
  BY <1>1, OpenedIs
<1> QED
  BY <1>2, <1>3, OthersStay DEF Stays, OthersSame

\* Revealing a path keeps the invariant.
LEMMA RevealStays ==
  ASSUME WorkspaceOk, RevealPath
  PROVE  Stays
<1>1. Operation /\ UNCHANGED <<focused, clipboard, profile, quit>>
  BY DEF RevealPath
<1>2. PICK p \in DOMAIN Files :
          LET open == {i \in DOMAIN editors : PathOf(i) = p}
          IN  IF open # {} THEN root' = SetNthEditor(root, focused, Min(open)) /\ UNCHANGED <<docs, editors>>
              ELSE Len(editors) < MaxEditors /\ OpenFile(p)
  BY DEF RevealPath
<1> DEFINE open == {i \in DOMAIN editors : PathOf(i) = p}
<1>3. CASE open = {}
  <2>1. StateOk(docs', editors', root', focused)
    BY <1>2, <1>3, OpenedIs
  <2> QED
    BY <1>1, <2>1, OthersStay DEF Stays, OthersSame
<1>4. CASE open # {}
  <2>1. root' = SetNthEditor(root, focused, Min(open)) /\ UNCHANGED <<docs, editors>>
    BY <1>2, <1>4
  <2>2. DOMAIN editors = 1 .. Len(editors) /\ Len(editors) \in Nat
    BY ActiveIs
  <2>3. PICK s : s = open /\ s \subseteq 1 .. Len(editors) /\ s # {}
    BY <1>4, <2>2
  <2>4. s \in SUBSET Nat
    BY <2>2, <2>3
  <2>5. Min(s) \in s
    BY <2>3, <2>4, MinIs
  <2>6. PICK i \in 1 .. Len(editors) : i = Min(open)
    BY <2>3, <2>5
  <2>7. RootOn(SetNthEditor(root, focused, i), editors) /\ focused \in 0 .. Len(SetNthEditor(root, focused, i)) - 1
    BY <2>2, <2>6, ShowsAnother
  <2>8. RootOn(root', editors) /\ focused \in 0 .. Len(root') - 1
    BY <2>1, <2>6, <2>7
  <2>9. StateOk(docs, editors, root', focused)
    BY <2>8, TreeBecomes DEF RootOn
  <2> QED
    BY <1>1, <2>1, <2>9, OthersStay DEF Stays, OthersSame
<1> QED
  BY <1>3, <1>4

-----------------------------------------------------------------------------
(* Sessions.                                                               *)

\* The editor that pane n shows, counted from 1, and what it shows.
Shown(n) == editors[root[n].editor]
ShownDoc(n) == docs[Shown(n).doc]

\* What a pane shows is an editor of a document.
LEMMA ShownIs ==
  ASSUME WorkspaceOk, NEW n \in 1 .. Len(root)
  PROVE  /\ Shown(n) \in Panes(Glyphs) /\ ShownDoc(n) \in DocsOf(Glyphs, FilePaths) /\ Shown(n).view \in ViewRecords
         /\ Shown(n).doc \in 1 .. Len(docs) /\ root[n].editor \in 1 .. Len(editors) /\ Shown(n).view.cursor \in Nat
         /\ ShownDoc(n).text \in Seq(Glyphs) /\ ShownDoc(n).path \in FilePaths
<1>1. root[n].editor \in 1 .. Len(editors)
  BY ActiveIs
<1>2. Shown(n) \in Panes(Glyphs) /\ Shown(n).doc \in 1 .. Len(docs)
  BY <1>1, ActiveIs DEF Shown
<1>3. ShownDoc(n) \in DocsOf(Glyphs, FilePaths)
  BY <1>2, ActiveIs DEF ShownDoc
<1>4. Shown(n).view \in ViewRecords
  BY <1>2 DEF Panes
<1>5. Shown(n).view.cursor \in Nat
  BY <1>4 DEF ViewRecords
<1>6. ShownDoc(n).text \in Seq(Glyphs) /\ ShownDoc(n).path \in FilePaths
  BY <1>3 DEF DocsOf
<1> QED
  BY <1>1, <1>2, <1>3, <1>4, <1>5, <1>6

\* A session restored: as many documents and editors as panes, each with the path of what
\* the pane showed and the cursor where it was, in the same tree with the same focus.
IsRestored(r) ==
  /\ r.docs \in Seq(DocsOf(Glyphs, FilePaths)) /\ Len(r.docs) = Len(root)
  /\ r.editors \in Seq(Panes(Glyphs)) /\ Len(r.editors) = Len(root)
  /\ \A n \in 1 .. Len(root) :
        /\ r.editors[n].doc = n /\ r.docs[n].path = ShownDoc(n).path /\ r.docs[n].past = <<>>
        /\ r.editors[n].view.cursor = FloorBoundary(r.docs[n].text, Cursor(ShownDoc(n), Shown(n).view))
  /\ r.root = NodeToLayout(root) /\ r.focused = focused

FileText(p) == IF p = Scratch THEN <<>> ELSE Files[p]

\* The text of a path that a session names.
LEMMA FileTextIs ==
  ASSUME NEW p \in FilePaths
  PROVE  FileText(p) \in Seq(Glyphs)
<1>1. p = Scratch \/ p \in DOMAIN Files
  BY DEF FilePaths
<1> QED
  BY <1>1, GlyphsAre DEF FileText

\* An editor that a session brings back.
IsRestoredEditor(e, d, n, cursor) == e \in Panes(Glyphs) /\ e.doc = n /\ e.view.cursor = FloorBoundary(d.text, cursor)

\* An editor whose cursor is set as a session says.
LEMMA RestoredIs ==
  ASSUME NEW d \in DocsOf(Glyphs, FilePaths), NEW n \in Nat, NEW cursor \in Nat, NEW top \in Nat, NEW left \in Nat,
         NEW res, res = RestorePosition(d, NewEditor(n), cursor, top, left)
  PROVE  IsRestoredEditor(res, d, n, cursor)
<1>1. NewEditor(n) \in Panes(Glyphs) /\ NewEditor(n).doc = n
  BY NewEditorIs
<1>2. PICK e \in Panes(Glyphs) : e = NewEditor(n) /\ e.doc = n
  BY <1>1
<1>3. e.view \in ViewRecords
  BY DEF Panes
<1>4. SetCursor(d, e.view, cursor) \in ViewRecords /\ SetCursor(d, e.view, cursor).cursor = FloorBoundary(d.text, cursor)
  BY <1>3, SetCursorIs
<1>5. PICK v \in ViewRecords : v = SetCursor(d, e.view, cursor) /\ v.cursor = FloorBoundary(d.text, cursor)
  BY <1>4
<1>6. RestorePosition(d, e, cursor, top, left) = [e EXCEPT !.view = v, !.top = top, !.left = left]
  BY <1>5 DEF RestorePosition
<1>7. [e EXCEPT !.view = v, !.top = top, !.left = left] \in Panes(Glyphs)
  BY DEF Panes
<1>8. [e EXCEPT !.view = v, !.top = top, !.left = left].doc = n /\ [e EXCEPT !.view = v, !.top = top, !.left = left].view = v
  BY <1>2 DEF Panes
<1> QED
  BY <1>2, <1>5, <1>6, <1>7, <1>8 DEF IsRestoredEditor

\* A session of a sound workspace leads to one with its panes.
LEMMA SessionIs ==
  ASSUME WorkspaceOk
  PROVE  IsRestored(FromSession(ToSession))
<1> DEFINE N == Len(root)
           P == [n \in 1 .. N |-> [path |-> ShownDoc(n).path, cursor |-> Cursor(ShownDoc(n), Shown(n).view),
                                   top |-> Shown(n).top, left |-> Shown(n).left]]
           L == NodeToLayout(root)
<1>1. N \in Nat /\ N > 0 /\ IsTree(root) /\ focused \in 0 .. N - 1 /\ LeafCount(root) = N
  BY ActiveIs
<1>2. ToSession = [panes |-> P, layout |-> L, focused |-> focused]
  <2>1. \A n \in 1 .. N : NthEditor(root, n - 1) = root[n].editor
    BY <1>1 DEF NthEditor
  <2>2. [n \in 1 .. LeafCount(root) |->
                   LET e == editors[NthEditor(root, n - 1)]
                   IN  [path |-> docs[e.doc].path, cursor |-> Cursor(docs[e.doc], e.view),
                        top |-> e.top, left |-> e.left]] = P
    BY <1>1, <2>1 DEF Shown, ShownDoc
  <2> QED
    BY <2>2 DEF ToSession
<1>3. DOMAIN P = 1 .. N
  OBVIOUS
<1>4. \A n \in 1 .. N : /\ P[n].path = ShownDoc(n).path /\ P[n].cursor = Cursor(ShownDoc(n), Shown(n).view)
                        /\ P[n].top = Shown(n).top /\ P[n].left = Shown(n).left
  OBVIOUS
<1>5. ASSUME NEW n \in 1 .. N
      PROVE  P[n].path \in FilePaths /\ P[n].cursor \in Nat /\ P[n].top \in Nat /\ P[n].left \in Nat
  <2>1. Shown(n) \in Panes(Glyphs) /\ Shown(n).view.cursor \in Nat /\ ShownDoc(n).text \in Seq(Glyphs) /\ ShownDoc(n).path \in FilePaths
    BY ShownIs
  <2>2. Cursor(ShownDoc(n), Shown(n).view) \in Nat
    BY <2>1, FloorIs DEF Cursor
  <2>3. Shown(n).top \in Nat /\ Shown(n).left \in Nat
    BY <2>1 DEF Panes
  <2> QED
    BY <1>4, <2>1, <2>2, <2>3
<1> HIDE DEF P, L
<1> DEFINE ds == [n \in 1 .. N |-> NewDoc(P[n].path, FileText(P[n].path))]
           es == [n \in 1 .. N |-> RestorePosition(ds[n], NewEditor(n), P[n].cursor, P[n].top, P[n].left)]
           sound == ToSet(CollectEditors(L)) \subseteq DOMAIN es
<1>6. FromSession(ToSession) =
        [docs |-> ds, editors |-> es, root |-> IF sound THEN L ELSE OnePane(1),
         focused |-> IF sound THEN Smaller(focused, LeafCount(L) - 1) ELSE 0]
  <2>1. PICK s : s = ToSession /\ s.panes = P /\ s.layout = L /\ s.focused = focused
    BY <1>2
  <2>2. DOMAIN s.panes = 1 .. N
    BY <1>3, <2>1
  <2>3. FromSession(s) =
        [docs |-> ds, editors |-> es, root |-> IF sound THEN L ELSE OnePane(1),
         focused |-> IF sound THEN Smaller(focused, LeafCount(L) - 1) ELSE 0]
    BY <2>1, <2>2 DEF FromSession, FileText
  <2> QED
    BY <2>1, <2>3
<1>7. \A n \in 1 .. N : ds[n] \in DocsOf(Glyphs, FilePaths) /\ ds[n].path = P[n].path /\ ds[n].past = <<>>
  <2>1. ASSUME NEW n \in 1 .. N
        PROVE  ds[n] \in DocsOf(Glyphs, FilePaths)
    BY <1>5, FileTextIs, NewDocIs
  <2>2. \A n \in 1 .. N : ds[n].path = P[n].path /\ ds[n].past = <<>>
    BY DEF NewDoc
  <2> QED
    BY <2>1, <2>2
<1>8. ds \in Seq(DocsOf(Glyphs, FilePaths)) /\ DOMAIN ds = 1 .. N
  BY <1>1, <1>7, IsASeq
<1>9. DOMAIN es = 1 .. N /\ \A n \in 1 .. N : es[n] = RestorePosition(ds[n], NewEditor(n), P[n].cursor, P[n].top, P[n].left)
  OBVIOUS
<1>19. es = [n \in 1 .. N |-> es[n]]
  OBVIOUS
<1> HIDE DEF ds, es
<1>10. ASSUME NEW n \in 1 .. N
       PROVE  es[n] \in Panes(Glyphs) /\ es[n].doc = n /\ es[n].view.cursor = FloorBoundary(ds[n].text, P[n].cursor)
  <2>1. PICK m \in Nat : m = n
    BY <1>1
  <2>2. ds[n] \in DocsOf(Glyphs, FilePaths) /\ P[n].cursor \in Nat /\ P[n].top \in Nat /\ P[n].left \in Nat
    BY <1>5, <1>7
  <2>3. PICK e : e = RestorePosition(ds[n], NewEditor(m), P[n].cursor, P[n].top, P[n].left)
    OBVIOUS
  <2>4. e \in Panes(Glyphs) /\ e.doc = m /\ e.view.cursor = FloorBoundary(ds[n].text, P[n].cursor)
    <3>1. PICK d, c, top, left : d = ds[n] /\ c = P[n].cursor /\ top = P[n].top /\ left = P[n].left
      OBVIOUS
    <3>2. d \in DocsOf(Glyphs, FilePaths) /\ c \in Nat /\ top \in Nat /\ left \in Nat
      BY <2>2, <3>1
    <3>3. e = RestorePosition(d, NewEditor(m), c, top, left)
      BY <2>3, <3>1
    <3>4. IsRestoredEditor(e, d, m, c)
      BY <2>1, <3>2, <3>3, RestoredIs
    <3>5. e \in Panes(Glyphs) /\ e.doc = m /\ e.view.cursor = FloorBoundary(d.text, c)
      BY <3>4 DEF IsRestoredEditor
    <3> QED
      BY <3>1, <3>5
  <2> QED
    BY <1>9, <2>1, <2>3, <2>4
<1>11. es \in Seq(Panes(Glyphs))
  BY <1>1, <1>9, <1>10, <1>19, IsASeq
<1>12. Len(ds) = N /\ Len(es) = N
  BY <1>1, <1>8, <1>9, <1>11, LenProperties
<1>13. IsTree(L) /\ Len(L) = N /\ \A m \in 1 .. N : L[m].editor = m
  BY <1>1, LayoutTree DEF L
<1>14. DOMAIN L = 1 .. N
  BY <1>13, LeavesOfTree
<1>15. sound
  <2>1. DOMAIN CollectEditors(L) = 1 .. N /\ \A m \in 1 .. N : CollectEditors(L)[m] = m
    BY <1>13, <1>14 DEF CollectEditors
  <2>2. ToSet(CollectEditors(L)) \subseteq 1 .. N
    BY <2>1 DEF ToSet
  <2> QED
    BY <1>9, <2>2
<1>16. Smaller(focused, LeafCount(L) - 1) = focused
  BY <1>1, <1>13 DEF LeafCount, Smaller
<1> HIDE DEF sound
<1>17. PICK r : r = FromSession(ToSession) /\ r.docs = ds /\ r.editors = es /\ r.root = L /\ r.focused = focused
  BY <1>6, <1>15, <1>16
<1>18. IsRestored(r)
  BY <1>4, <1>7, <1>8, <1>10, <1>11, <1>12, <1>17 DEF IsRestored, L
<1> QED
  BY <1>17, <1>18

\* A restart keeps the invariant and begins without history.
LEMMA RestartStays ==
  ASSUME WorkspaceOk, Restart
  PROVE  Stays /\ \A k \in DOMAIN docs' : docs'[k].past = <<>>
<1>1. PICK r : r = FromSession(ToSession) /\ docs' = r.docs /\ editors' = r.editors /\ root' = r.root /\ focused' = r.focused
  BY DEF Restart
<1>2. Operation /\ clipboard' = <<>> /\ profile' = "cua" /\ quit' = quit
  BY DEF Restart
<1>3. IsRestored(r)
  BY <1>1, SessionIs
<1>4. /\ docs' \in Seq(DocsOf(Glyphs, FilePaths)) /\ Len(docs') = Len(root) /\ editors' \in Seq(Panes(Glyphs)) /\ Len(editors') = Len(root)
      /\ root' = NodeToLayout(root) /\ focused' = focused
      /\ \A n \in 1 .. Len(root) : editors'[n].doc = n /\ docs'[n].past = <<>>
  BY <1>1, <1>3 DEF IsRestored
<1>5. EditorsOn(editors', docs')
  BY <1>4 DEF EditorsOn
<1>6. IsTree(root) /\ Len(root) \in Nat /\ focused \in 0 .. Len(root) - 1
  BY ActiveIs
<1>7. IsTree(root') /\ Len(root') = Len(root) /\ \A m \in 1 .. Len(root) : root'[m].editor = m
  BY <1>4, <1>6, LayoutTree
<1>8. RootOn(root', editors')
  BY <1>4, <1>7 DEF RootOn
<1>9. StateOk(docs', editors', root', focused')
  BY <1>4, <1>5, <1>6, <1>7, <1>8 DEF StateOk
<1>10. clipboard' \in Seq(Glyphs) /\ profile' \in Profiles
  BY <1>2, GlyphsAre DEF Profiles
<1>11. DOMAIN docs' = 1 .. Len(docs')
  BY <1>4, LenProperties
<1> QED
  BY <1>2, <1>4, <1>9, <1>10, <1>11, OthersStay DEF Stays, OthersSame

\* What SessionRestoresPanes says follows.
LEMMA SessionRestores ==
  ASSUME WorkspaceOk
  PROVE  SessionRestoresPanes
<1>1. PICK r : r = FromSession(ToSession)
  OBVIOUS
<1>2. IsRestored(r)
  BY <1>1, SessionIs
<1>3. IsTree(root) /\ Len(root) \in Nat
  BY ActiveIs
<1>4. r.root = NodeToLayout(root) /\ r.focused = focused
  BY <1>2 DEF IsRestored
<1>5. Len(r.root) = Len(root) /\ \A m \in 1 .. Len(root) : r.root[m].editor = m
  BY <1>3, <1>4, LayoutTree
<1>6. ASSUME NEW n \in 0..LeafCount(root) - 1
      PROVE  LET was == editors[NthEditor(root, n)]
                 is == r.editors[NthEditor(r.root, n)]
             IN  /\ r.docs[is.doc].path = docs[was.doc].path
                 /\ r.docs[is.doc].text = docs[was.doc].text =>
                        is.view.cursor = Cursor(docs[was.doc], was.view)
  <2>1. PICK m \in 1 .. Len(root) : m = n + 1
    BY <1>3 DEF LeafCount
  <2>2. NthEditor(root, n) = root[m].editor /\ NthEditor(r.root, n) = m
    BY <1>5, <2>1 DEF NthEditor
  <2>3. PICK was : was = Shown(m) /\ was = editors[NthEditor(root, n)]
    BY <2>2 DEF Shown
  <2>4. PICK d : d = ShownDoc(m) /\ d = docs[was.doc]
    BY <2>3 DEF ShownDoc
  <2>5. PICK is : is = r.editors[m] /\ is = r.editors[NthEditor(r.root, n)]
    BY <2>2
  <2>6. is.doc = m /\ r.docs[m].path = d.path /\ is.view.cursor = FloorBoundary(r.docs[m].text, Cursor(d, was.view))
    BY <1>2, <2>3, <2>4, <2>5 DEF IsRestored
  <2>7. d.text \in Seq(Glyphs) /\ was.view.cursor \in Nat
    BY <2>3, <2>4, ShownIs
  <2>8. FloorBoundary(d.text, Cursor(d, was.view)) = Cursor(d, was.view)
    BY <2>7, FloorIs DEF Cursor
  <2> QED
    BY <2>3, <2>4, <2>5, <2>6, <2>8
<1>7. LeafCount(r.root) = LeafCount(root) /\ r.focused = focused
  BY <1>4, <1>5 DEF LeafCount
<1> QED
  BY <1>1, <1>6, <1>7 DEF SessionRestoresPanes

-----------------------------------------------------------------------------
(* The lines that are visible.                                             *)

\* The greatest of a number from -1 on and finitely many natural numbers.
LEMMA GreatestIs ==
  ASSUME NEW x \in Int, x >= -1, NEW F \in SUBSET Nat, IsFiniteSet(F)
  PROVE  /\ Max({x} \cup F) \in Int /\ Max({x} \cup F) >= x
         /\ \A y \in F : Max({x} \cup F) >= y
<1>1. PICK b \in Nat : F \in SUBSET (0 .. b)
  BY FiniteSetsAreBounded
<1>2. \E m \in {x} \cup F : \A y \in {x} \cup F : m >= y
  <2>1. CASE F = {}
    BY <2>1
  <2>2. CASE F # {}
    <3>1. PICK i \in F : \A j \in F : i >= j
      BY <1>1, <2>2, GreatestIndex
    <3>2. i \in Int
      OBVIOUS
    <3>3. CASE x <= i
      BY <3>1, <3>2, <3>3
    <3>4. CASE ~(x <= i)
      <4>1. \A j \in F : x >= j
        BY <3>1, <3>2, <3>4
      <4>2. \A y \in {x} \cup F : x >= y
        BY <4>1
      <4> QED
        BY <4>2
    <3> QED
      BY <3>3, <3>4
  <2> QED
    BY <2>1, <2>2
<1> DEFINE S == {x} \cup F
<1> HIDE DEF S
<1>3. \E m \in S : \A y \in S : m >= y
  BY <1>2 DEF S
<1>4. Max(S) \in S /\ \A y \in S : Max(S) >= y
  BY <1>3, Zenon DEF Max
<1>5. x \in S /\ F \subseteq S /\ S \subseteq Int
  BY DEF S
<1> QED
  BY <1>4, <1>5 DEF S

\* The next line that no fold hides.
IsNextVisible(y, e, x) == y \in Nat /\ y > x /\ ~Hidden(e, y) /\ \A n \in Nat : (n > x /\ ~Hidden(e, n)) => y <= n

\* The next visible line is the first line behind one that no fold hides.
LEMMA NextVisibleIs ==
  ASSUME NEW S, NEW e \in Panes(S), NEW x \in Int, x >= -1
  PROVE  IsNextVisible(NextVisible(e, x), e, x)
<1> DEFINE F == {f[2] : f \in e.folds}
<1>1. e.folds \in SUBSET (Nat \X Nat) /\ IsFiniteSet(e.folds)
  BY DEF Panes, Folds
<1>2. F \in SUBSET Nat /\ IsFiniteSet(F)
  <2>1. F \in SUBSET Nat
    BY <1>1
  <2>2. IsFiniteSet(F)
    <3> DEFINE h == [f \in e.folds |-> f[2]]
    <3>1. h \in Surjection(e.folds, F)
      BY DEF Surjection
    <3> QED
      BY <1>1, <3>1, FS_Surjection
  <2> QED
    BY <2>1, <2>2
<1>3. PICK M \in Int : M = Max({x} \cup F) /\ M >= x /\ \A y \in F : M >= y
  <2> HIDE DEF F
  <2> QED
    BY <1>2, GreatestIs
<1> DEFINE V == {n \in x + 1..M + 1 : ~Hidden(e, n)}
<1>4. \A n \in Int : n > M => ~Hidden(e, n)
  <2> SUFFICES ASSUME NEW n \in Int, n > M, Hidden(e, n)
               PROVE  FALSE
    OBVIOUS
  <2>1. PICK f \in e.folds : f[1] < n /\ n <= f[2]
    BY DEF Hidden, Hides
  <2>2. f[2] \in F /\ f[2] \in Nat
    BY <1>1
  <2> HIDE DEF F
  <2> QED
    BY <1>3, <2>1, <2>2
<1>5. M + 1 \in V
  BY <1>3, <1>4
<1>6. V \in SUBSET Nat
  <2>1. \A n \in x + 1 .. M + 1 : n \in Nat
    OBVIOUS
  <2> QED
    BY <2>1
<1>7. NextVisible(e, x) = Min(V)
  BY <1>3 DEF NextVisible
<1>8. PICK y : y = Min(V)
  OBVIOUS
<1>9. y \in V /\ \A n \in V : y <= n
  <2> HIDE DEF V
  <2> QED
    BY <1>5, <1>6, <1>8, MinIs
<1>10. y \in Nat /\ y > x /\ ~Hidden(e, y) /\ y <= M + 1
  BY <1>6, <1>9
<1>11. ASSUME NEW n \in Nat, n > x, ~Hidden(e, n)
       PROVE  y <= n
  <2>1. CASE n <= M + 1
    <3>1. n \in V
      BY <1>11, <2>1
    <3> QED
      BY <1>9, <3>1
  <2>2. CASE n > M + 1
    BY <1>10, <2>2
  <2> QED
    BY <2>1, <2>2
<1> QED
  BY <1>7, <1>8, <1>10, <1>11 DEF IsNextVisible

\* The rows of lines from one to another are finitely many; none from a line to itself.
LEMMA RowsAre ==
  ASSUME NEW e, NEW from \in Nat, NEW line \in Nat
  PROVE  /\ VisibleFrom(e, from, line) \in Nat /\ (from >= line => VisibleFrom(e, from, line) = 0)
         /\ IsFiniteSet({n \in from..line - 1 : n = from \/ ~Hidden(e, n)})
<1> DEFINE R == {n \in from..line - 1 : n = from \/ ~Hidden(e, n)}
<1>1. R \subseteq from .. line - 1 /\ IsFiniteSet(from .. line - 1)
  BY FS_Interval
<1>2. IsFiniteSet(R)
  BY <1>1, FS_Subset
<1>3. from >= line => R = {}
  OBVIOUS
<1> HIDE DEF R
<1>4. Cardinality(R) \in Nat /\ (R = {} => Cardinality(R) = 0)
  BY <1>2, FS_CardinalityType, FS_EmptySet
<1> QED
  BY <1>2, <1>3, <1>4 DEF R, VisibleFrom

\* Scrolling down ends at a line that is the top or visible, and from which the line is in the pane.
LEMMA ScrollIs ==
  ASSUME NEW S, NEW e \in Panes(S), NEW line \in Nat, e.top <= line, NEW rows \in Nat, rows > 0
  PROVE  /\ ScrollDown(e, line, rows) \in Nat
         /\ ScrollDown(e, line, rows) = e.top \/ ~Hidden(e, ScrollDown(e, line, rows))
         /\ VisibleFrom(e, ScrollDown(e, line, rows), line) < rows
         /\ ~Hidden(e, line) => ScrollDown(e, line, rows) <= line
<1>1. e.top \in Nat
  BY DEF Panes
<1>2. PICK y : y = NextVisible(e, line - 1) /\ IsNextVisible(y, e, line - 1)
  <2>1. PICK x \in Int : x = line - 1 /\ x >= -1
    OBVIOUS
  <2> QED
    BY <2>1, NextVisibleIs
<1>3. y \in Nat /\ y >= line /\ ~Hidden(e, y) /\ (~Hidden(e, line) => y <= line)
  BY <1>2 DEF IsNextVisible
<1> DEFINE T == {n \in e.top..y : (n = e.top \/ ~Hidden(e, n)) /\ VisibleFrom(e, n, line) < rows}
<1>4. y \in T
  <2>1. VisibleFrom(e, y, line) = 0
    BY <1>3, RowsAre
  <2>2. y \in e.top .. y
    BY <1>1, <1>3
  <2> QED
    BY <1>3, <2>1, <2>2
<1>5. T \in SUBSET Nat
  <2>1. \A n \in e.top .. y : n \in Nat
    BY <1>1
  <2> QED
    BY <2>1
<1>6. PICK z : z = Min(T)
  OBVIOUS
<1>7. z \in T
  <2> HIDE DEF T
  <2> QED
    BY <1>4, <1>5, <1>6, MinIs
<1>8. z \in Nat /\ z <= y /\ (z = e.top \/ ~Hidden(e, z)) /\ VisibleFrom(e, z, line) < rows
  BY <1>1, <1>3, <1>5, <1>7
<1>9. ScrollDown(e, line, rows) = z
  BY <1>2, <1>6 DEF ScrollDown
<1>10. ~Hidden(e, line) => z <= line
  BY <1>3, <1>8
<1> QED
  BY <1>8, <1>9, <1>10

-----------------------------------------------------------------------------
(* Scrolling to the cursor.                                                *)

\* Views with the same folds hide the same lines.
LEMMA SameFolds ==
  ASSUME NEW e, NEW r, r.folds = e.folds, r.folded = e.folded
  PROVE  /\ \A n : Hidden(r, n) <=> Hidden(e, n)
         /\ \A from, line : VisibleFrom(r, from, line) = VisibleFrom(e, from, line)
<1>1. \A n : Hidden(r, n) <=> Hidden(e, n)
  BY DEF Hidden
<1>2. \A from, line : VisibleFrom(r, from, line) = VisibleFrom(e, from, line)
  BY <1>1 DEF VisibleFrom
<1> QED
  BY <1>1, <1>2

\* The hints between two places are finitely many.
LEMMA HintsAre ==
  ASSUME NEW e, NEW lo \in Nat, NEW hi \in Nat, e.hints \subseteq Nat
  PROVE  HintWidth(e, lo, hi) \in Nat /\ IsFiniteSet({h \in e.hints : lo <= h /\ h <= hi})
<1> DEFINE H == {h \in e.hints : lo <= h /\ h <= hi}
<1>1. H \subseteq lo .. hi /\ IsFiniteSet(lo .. hi)
  BY FS_Interval
<1>2. IsFiniteSet(H)
  BY <1>1, FS_Subset
<1> HIDE DEF H
<1>3. Cardinality(H) \in Nat
  BY <1>2, FS_CardinalityType
<1> QED
  BY <1>2, <1>3 DEF H, HintWidth

\* The cells of a beginning of a text.
LEMMA CellsAre ==
  ASSUME NEW S, NEW t \in Seq(S), NEW n \in 0 .. Len(t)
  PROVE  CellsOf(SubSeq(t, 1, n)) = n + CountOf(t, n, "w") /\ CellsOf(SubSeq(t, 1, n)) \in Nat
<1>1. Len(t) \in Nat /\ n \in Nat
  BY LenProperties
<1>2. PICK u : u = SubSeq(t, 1, n)
  OBVIOUS
<1>3. u \in Seq(S) /\ Len(u) = n /\ \A i \in 1 .. n : u[i] = t[i]
  <2>1. 1 \in 1 .. Len(t) + 1 /\ n \in 1 - 1 .. Len(t)
    BY <1>1
  <2>2. SubSeq(t, 1, n) \in Seq(S) /\ Len(SubSeq(t, 1, n)) = (IF 1 <= n THEN n - 1 + 1 ELSE 0)
    BY <1>1, SubSeqProperties
  <2>3. \A i \in 1 .. n : SubSeq(t, 1, n)[i] = t[i]
    BY <1>1, SubSeqProperties
  <2> QED
    BY <1>1, <1>2, <2>2, <2>3
<1>4. DOMAIN u = 1 .. n
  BY <1>3, LenProperties
<1>5. {i \in DOMAIN u : u[i] = "w"} = {j \in 1 .. n : t[j] = "w"}
  BY <1>3, <1>4
<1>6. CountOf(t, n, "w") \in Nat
  BY <1>1, CountStep
<1>7. CellsOf(u) = Len(u) + CountOf(t, n, "w")
  <2>1. Cardinality({i \in DOMAIN u : u[i] = "w"}) = CountOf(t, n, "w")
    BY <1>5 DEF CountOf
  <2> QED
    BY <2>1 DEF CellsOf
<1> QED
  BY <1>1, <1>2, <1>3, <1>6, <1>7

\* The line of a view's cursor, and the cursor in it.
AtCursor(d, v, s, n) ==
  /\ s = LineStart(d, Row(d, v)) /\ s \in Nat /\ n = CharOf(d.text, v.cursor) /\ n \in Nat
  /\ s <= n /\ n <= LineEnd(d.text, s) /\ LineEnd(d.text, s) \in 0 .. Len(d.text) /\ Len(d.text) \in Nat
  /\ Cursor(d, v) = ByteOf(d.text, n) /\ Cursor(d, v) \in Nat /\ Column(d, v) = n - s /\ n - s \in Nat

\* The cursor of a view is at a place of a line.
LEMMA CursorIsAt ==
  ASSUME NEW S, NEW P, NEW d \in DocsOf(S, P), NEW v \in ViewRecords
  PROVE  \E s, n : AtCursor(d, v, s, n)
<1>1. d.text \in Seq(S) /\ v.cursor \in Nat
  BY DEF DocsOf, ViewRecords
<1>2. PICK t \in Seq(S) : t = d.text
  BY <1>1
<1>3. PICK n : n = CharOf(t, v.cursor)
  OBVIOUS
<1>4. n \in 0 .. Len(t) /\ n \in Nat /\ FloorBoundary(t, v.cursor) = ByteOf(t, n) /\ FloorBoundary(t, v.cursor) \in Nat
  BY <1>1, <1>3, FloorIs
<1>5. PICK row : row = Row(d, v) /\ row = LineOf(t, n) /\ row \in 0 .. LineOf(t, Len(t))
  BY <1>2, <1>3, RowIs DEF Row
<1>6. IsLineStart(t, row, LineStarts(t)[row + 1])
  BY <1>5, LineStartsAre
<1>7. PICK s : s = LineStarts(t)[row + 1] /\ IsLineStart(t, LineOf(t, n), s)
  BY <1>5, <1>6
<1>8. s <= n /\ n <= LineEnd(t, s)
  BY <1>4, <1>7, PlaceInItsLine
<1>9. s \in Nat /\ LineEnd(t, s) \in 0 .. Len(t)
  BY <1>5, <1>7, LinePlaces
<1>10. Len(t) \in Nat
  BY LenProperties
<1>11. s = LineStart(d, Row(d, v))
  BY <1>2, <1>5, <1>7 DEF LineStart
<1>12. Cursor(d, v) = FloorBoundary(t, v.cursor) /\ Column(d, v) = n - s
  BY <1>2, <1>3, <1>11 DEF Cursor, Column
<1>13. n - s \in Nat
  BY <1>4, <1>8, <1>9
<1>14. AtCursor(d, v, s, n)
  BY <1>2, <1>3, <1>4, <1>8, <1>9, <1>10, <1>11, <1>12, <1>13 DEF AtCursor
<1> QED
  BY <1>14

\* The text of the line a view's cursor is in.
LEMMA LineTextIs ==
  ASSUME NEW S, NEW P, NEW d \in DocsOf(S, P), NEW v \in ViewRecords, NEW s, NEW n, AtCursor(d, v, s, n),
         NEW l, l = LineText(d, Row(d, v))
  PROVE  l \in Seq(S) /\ Len(l) = LineEnd(d.text, s) - s /\ \A i \in 1 .. Len(l) : l[i] = d.text[s + i]
<1>1. PICK t \in Seq(S) : t = d.text
  BY DEF DocsOf
<1>2. PICK e : e = LineEnd(t, s) /\ s \in Nat /\ e \in Nat /\ s <= e /\ e <= Len(t) /\ Len(t) \in Nat
  BY <1>1 DEF AtCursor
<1>3. l = SubSeq(t, s + 1, e)
  BY <1>1, <1>2 DEF AtCursor, LineText
<1>4. PICK a \in Nat : a = s + 1
  BY <1>2
<1>5. a \in 1 .. Len(t) + 1 /\ e \in a - 1 .. Len(t)
  BY <1>2, <1>4
<1>6. SubSeq(t, a, e) \in Seq(S) /\ Len(SubSeq(t, a, e)) = (IF a <= e THEN e - a + 1 ELSE 0)
  BY <1>2, <1>5, SubSeqProperties
<1>7. \A i \in 1 .. e - a + 1 : SubSeq(t, a, e)[i] = t[a + i - 1]
  BY <1>2, <1>4, <1>5, SubSeqProperties
<1>8. l \in Seq(S) /\ Len(l) = e - s
  BY <1>2, <1>3, <1>4, <1>6
<1>9. \A i \in 1 .. e - s : l[i] = t[s + i]
  BY <1>2, <1>3, <1>4, <1>7
<1> QED
  BY <1>1, <1>2, <1>8, <1>9

\* The column of the cursor, as a number of cells.
ColumnAt(d, e, s, n) ==
  (n - s) + CountOf(LineText(d, Row(d, e.view)), n - s, "w") + HintWidth(e, ByteOf(d.text, s), ByteOf(d.text, n))

\* The column of the cursor counts the cells and the hints before it.
LEMMA ColumnIs ==
  ASSUME NEW S, NEW P, NEW d \in DocsOf(S, P), NEW e \in Panes(S), NEW s, NEW n, AtCursor(d, e.view, s, n)
  PROVE  CursorColumn(d, e) = ColumnAt(d, e, s, n) /\ CursorColumn(d, e) \in Nat
<1>1. e.view \in ViewRecords /\ e.hints \subseteq Nat
  BY DEF Panes
<1>2. PICK l : l = LineText(d, Row(d, e.view)) /\ l \in Seq(S) /\ Len(l) = LineEnd(d.text, s) - s
  BY <1>1, LineTextIs
<1>3. PICK m \in Nat : m = n - s /\ m <= Len(l)
  BY <1>2 DEF AtCursor
<1>4. Len(l) \in Nat
  BY <1>2, LenProperties
<1>5. CellsOf(SubSeq(l, 1, m)) = m + CountOf(l, m, "w") /\ CellsOf(SubSeq(l, 1, m)) \in Nat
  BY <1>2, <1>3, <1>4, CellsAre
<1>6. ByteOf(d.text, s) \in Nat /\ ByteOf(d.text, n) \in Nat
  BY ByteStep DEF AtCursor
<1>7. PICK w \in Nat : w = HintWidth(e, ByteOf(d.text, s), ByteOf(d.text, n))
  BY <1>1, <1>6, HintsAre
<1>8. CursorColumn(d, e) = CellsOf(SubSeq(l, 1, m)) + w
  BY <1>2, <1>3, <1>7 DEF CursorColumn, AtCursor
<1> QED
  BY <1>2, <1>3, <1>5, <1>7, <1>8 DEF ColumnAt

-----------------------------------------------------------------------------
\* A view scrolled to its cursor: nothing but where it begins is another, and the cursor is
\* in what is shown.
Unmoved(r, e) ==
  r.doc = e.doc /\ r.view = e.view /\ r.folds = e.folds /\ r.folded = e.folded /\ r.hints = e.hints
InView(r, d, e, rows, cols) ==
  /\ ~Hidden(e, Row(d, e.view)) => r.top <= Row(d, e.view) /\ VisibleFrom(e, r.top, Row(d, e.view)) < rows
  /\ cols > 0 => r.left <= CursorColumn(d, e) /\ CursorColumn(d, e) - r.left < cols

\* Scrolling to the cursor brings it into view and does nothing else.
LEMMA EnsuredIs ==
  ASSUME NEW S, NEW P, NEW d \in DocsOf(S, P), NEW e \in Panes(S), NEW rows \in Nat, rows > 0, NEW cols \in Nat,
         NEW r, r = EnsureCursorVisible(d, e, rows, cols)
  PROVE  r \in Panes(S) /\ Unmoved(r, e) /\ InView(r, d, e, rows, cols)
<1>1. e.view \in ViewRecords /\ e.top \in Nat /\ e.left \in Nat
  BY DEF Panes
<1>2. PICK row \in Nat : row = Row(d, e.view)
  BY <1>1, RowIs
<1>3. PICK s, n : AtCursor(d, e.view, s, n)
  BY <1>1, CursorIsAt
<1>4. PICK col \in Nat : col = CursorColumn(d, e)
  BY <1>3, ColumnIs
<1>5. PICK top \in Nat : /\ top = IF row < e.top THEN row ELSE ScrollDown(e, row, rows)
                         /\ ~Hidden(e, row) => top <= row /\ VisibleFrom(e, top, row) < rows
  <2>1. CASE row < e.top
    <3>1. VisibleFrom(e, row, row) = 0
      <4>1. row >= row
        OBVIOUS
      <4>2. \A from, line \in Nat : from >= line => VisibleFrom(e, from, line) = 0
        BY RowsAre
      <4> QED
        BY <4>1, <4>2
    <3> QED
      BY <2>1, <3>1
  <2>2. CASE ~(row < e.top)
    <3>1. e.top <= row
      BY <1>1, <2>2
    <3>2. /\ ScrollDown(e, row, rows) \in Nat /\ VisibleFrom(e, ScrollDown(e, row, rows), row) < rows
          /\ ~Hidden(e, row) => ScrollDown(e, row, rows) <= row
      BY <3>1, ScrollIs
    <3> QED
      BY <2>2, <3>2
  <2> QED
    BY <2>1, <2>2
<1>6. PICK left \in Nat : /\ left = IF cols = 0 THEN e.left ELSE IF col < e.left THEN col
                                    ELSE IF col >= e.left + cols THEN col + 1 - cols ELSE e.left
                          /\ cols > 0 => left <= col /\ col - left < cols
  <2>1. PICK was \in Nat : was = e.left
    BY <1>1
  <2>2. CASE cols = 0
    BY <2>1, <2>2
  <2>3. CASE cols # 0 /\ col < was
    BY <2>1, <2>3
  <2>4. CASE cols # 0 /\ ~(col < was) /\ col >= was + cols
    <3>1. PICK left \in Nat : left = col + 1 - cols
      BY <2>1, <2>4
    <3>2. left <= col /\ col - left < cols
      BY <2>4, <3>1
    <3> QED
      BY <2>1, <2>4, <3>1, <3>2
  <2>5. CASE cols # 0 /\ ~(col < was) /\ ~(col >= was + cols)
    BY <2>1, <2>5
  <2> QED
    BY <2>2, <2>3, <2>4, <2>5
<1>7. r = [e EXCEPT !.top = top, !.left = left]
  <2>1. r = [e EXCEPT !.top = IF rows = 0 THEN @ ELSE IF row < @ THEN row ELSE ScrollDown(e, row, rows),
                      !.left = IF cols = 0 THEN @ ELSE IF col < @ THEN col
                               ELSE IF col >= @ + cols THEN col + 1 - cols ELSE @]
    BY <1>2, <1>4, ZenonT(30) DEF EnsureCursorVisible
  <2>2. r = [e EXCEPT !.top = IF rows = 0 THEN e.top ELSE IF row < e.top THEN row ELSE ScrollDown(e, row, rows),
                      !.left = IF cols = 0 THEN e.left ELSE IF col < e.left THEN col
                               ELSE IF col >= e.left + cols THEN col + 1 - cols ELSE e.left]
    BY <2>1
  <2>3. rows # 0
    OBVIOUS
  <2> QED
    BY <1>5, <1>6, <2>2, <2>3
<1>8. r \in Panes(S) /\ Unmoved(r, e) /\ r.top = top /\ r.left = left
  BY <1>7 DEF Panes, Unmoved
<1>9. InView(r, d, e, rows, cols)
  BY <1>2, <1>4, <1>5, <1>6, <1>8 DEF InView
<1> QED
  BY <1>8, <1>9

\* A pane that is drawn.
LEMMA RenderedIs ==
  ASSUME NEW S, NEW P, NEW d \in DocsOf(S, P), NEW e \in Panes(S), NEW width \in Nat, NEW height \in Nat,
         NEW r, r = RenderIn(d, e, width, height)
  PROVE  /\ r \in Panes(S) /\ Unmoved(r, e)
         /\ (width > Gutter(d) /\ height > 0) => InView(r, d, e, height, width - Gutter(d))
<1>1. Gutter(d) \in Nat /\ Gutter(d) > 0
  BY DEF Gutter
<1>2. CASE width = 0 \/ height = 0
  <2>1. r = e
    BY <1>2 DEF RenderIn
  <2> QED
    BY <1>1, <1>2, <2>1 DEF Unmoved
<1>3. CASE ~(width = 0 \/ height = 0)
  <2>1. PICK e1 : e1 = [e EXCEPT !.rows = height]
    OBVIOUS
  <2>2. e1 \in Panes(S) /\ Unmoved(e1, e)
    BY <2>1 DEF Panes, Unmoved
  <2>3. PICK cols \in Nat : cols = Larger(width - Gutter(d), 0)
    BY <1>1 DEF Larger
  <2>4. r = EnsureCursorVisible(d, e1, height, cols)
    BY <1>3, <2>1, <2>3 DEF RenderIn
  <2>5. r \in Panes(S) /\ Unmoved(r, e1) /\ InView(r, d, e1, height, cols)
    BY <1>3, <2>2, <2>4, EnsuredIs
  <2>6. Unmoved(r, e)
    BY <2>2, <2>5 DEF Unmoved
  <2>7. CursorColumn(d, e1) = CursorColumn(d, e)
    <3>1. \A lo, hi : HintWidth(e1, lo, hi) = HintWidth(e, lo, hi)
      BY <2>2 DEF HintWidth, Unmoved
    <3> QED
      BY <2>2, <3>1 DEF CursorColumn, Unmoved
  <2>8. /\ \A n : Hidden(e1, n) <=> Hidden(e, n)
        /\ \A from, line : VisibleFrom(e1, from, line) = VisibleFrom(e, from, line)
    BY <2>2, SameFolds DEF Unmoved
  <2>9. InView(r, d, e, height, cols)
    BY <2>2, <2>5, <2>7, <2>8 DEF InView, Unmoved
  <2>10. width > Gutter(d) => cols = width - Gutter(d)
    BY <1>1, <2>3 DEF Larger
  <2> QED
    BY <2>5, <2>6, <2>9, <2>10
<1> QED
  BY <1>2, <1>3

-----------------------------------------------------------------------------
(* Drawing the panes.                                                      *)

\* The rectangles that panes are drawn in.
LEMMA PaneRectsAre ==
  ASSUME WorkspaceOk, NEW n \in 1 .. Len(root)
  PROVE  PaneRects[n] \in Rects /\ PaneRects[n].w \in Nat /\ PaneRects[n].h \in Nat
<1>1. Body[1] \in Nat /\ Body[2] \in Nat
  BY WorkspaceAssumption
<1>2. PICK w, h : w = Body[1] /\ h = Body[2] + 1 /\ w \in Nat /\ h \in Nat
  BY <1>1
<1>3. PICK r : r = Rect(0, 0, w, h) /\ r \in Rects
  <2>1. [x |-> 0, y |-> 0, w |-> w, h |-> h] \in Rects
    BY <1>2 DEF Rects
  <2> QED
    BY <2>1 DEF Rect
<1>4. PICK p : p = SplitTop(r, 1)
  OBVIOUS
<1>5. IsHalved(p, r)
  BY <1>3, <1>4, SplitTopIs
<1>6. PICK area \in Rects : area = p[2]
  BY <1>5 DEF IsHalved
<1>7. PaneRects = Layout(root, area).panes
  BY <1>2, <1>3, <1>4, <1>6 DEF PaneRects
<1>8. IsTree(root)
  BY ActiveIs
<1>9. PICK F : Paths(F, root, area)
  BY <1>8, PathsExist
<1>10. PaneRects[n] = F[n][Len(root[n].way)]
  BY <1>7, <1>8, <1>9, LayoutIs
<1>11. IsPath(F[n], area, root[n].way)
  BY <1>9 DEF Paths
<1>12. Len(root[n].way) \in Nat
  BY <1>8, LeavesOfTree, LenProperties
<1>13. Len(root[n].way) \in 0 .. Len(root[n].way)
  BY <1>12
<1>14. F[n][Len(root[n].way)] \in Rects
  BY <1>11, <1>13 DEF IsPath
<1> QED
  BY <1>10, <1>14 DEF Rects

\* The editors while their panes are drawn one after the other.
Drawings == {es \in Seq(Panes(Glyphs)) : Len(es) = Len(editors) /\ \A i \in 1 .. Len(editors) : es[i].doc = editors[i].doc}
Drawn(n, es) ==
  [es EXCEPT ![NthEditor(root, n - 1)] = RenderIn(docs[@.doc], @, PaneRects[n].w, PaneRects[n].h)]
IsDrawn(u, n, es) ==
  /\ u \in Drawings
  /\ \A i \in 1 .. Len(editors) :
        u[i] = IF i = root[n].editor THEN RenderIn(docs[es[i].doc], es[i], PaneRects[n].w, PaneRects[n].h) ELSE es[i]

\* Drawing a pane changes the editor it shows.
LEMMA DrawnIs ==
  ASSUME WorkspaceOk, NEW n \in 1 .. Len(root), NEW es \in Drawings
  PROVE  IsDrawn(Drawn(n, es), n, es)
<1>1. PICK i : i = root[n].editor /\ i \in 1 .. Len(editors) /\ NthEditor(root, n - 1) = i
  <2>1. (n - 1) + 1 = n
    BY ActiveIs
  <2> QED
    BY <2>1, ActiveIs DEF NthEditor
<1>2. es \in Seq(Panes(Glyphs)) /\ Len(es) = Len(editors) /\ \A k \in 1 .. Len(editors) : es[k].doc = editors[k].doc
  BY DEF Drawings
<1>3. es[i] \in Panes(Glyphs) /\ es[i].doc \in 1 .. Len(docs)
  <2>1. i \in 1 .. Len(es)
    BY <1>1, <1>2
  <2> QED
    BY <1>1, <1>2, <2>1, ElementOfSeq, ActiveIs
<1>4. PICK e : e = es[i] /\ e \in Panes(Glyphs)
  BY <1>3
<1>5. PICK d : d = docs[e.doc] /\ d \in DocsOf(Glyphs, FilePaths)
  BY <1>3, <1>4, ActiveIs
<1>6. PICK w, h : w = PaneRects[n].w /\ h = PaneRects[n].h /\ w \in Nat /\ h \in Nat
  BY PaneRectsAre
<1>7. PICK r : r = RenderIn(d, e, w, h)
  OBVIOUS
<1>8. r \in Panes(Glyphs) /\ Unmoved(r, e)
  BY <1>4, <1>5, <1>6, <1>7, RenderedIs
<1>9. PICK u : u = [es EXCEPT ![i] = r]
  OBVIOUS
<1>10. Drawn(n, es) = u
  BY <1>1, <1>4, <1>5, <1>6, <1>7, <1>9 DEF Drawn
<1>11. i \in 1 .. Len(es)
  BY <1>1, <1>2
<1>12. /\ [es EXCEPT ![i] = r] \in Seq(Panes(Glyphs)) /\ Len([es EXCEPT ![i] = r]) = Len(es)
       /\ \A j \in 1 .. Len(es) : [es EXCEPT ![i] = r][j] = IF j = i THEN r ELSE es[j]
  BY <1>2, <1>8, <1>11, ExceptSeq
<1>13. u \in Seq(Panes(Glyphs)) /\ Len(u) = Len(editors) /\ \A j \in 1 .. Len(editors) : u[j] = IF j = i THEN r ELSE es[j]
  BY <1>2, <1>9, <1>12
<1>14. \A j \in 1 .. Len(editors) : u[j].doc = editors[j].doc
  BY <1>2, <1>4, <1>8, <1>13 DEF Unmoved
<1>15. u \in Drawings
  BY <1>13, <1>14 DEF Drawings
<1>16. IsDrawn(u, n, es)
  BY <1>1, <1>4, <1>5, <1>6, <1>7, <1>13, <1>15 DEF IsDrawn
<1> QED
  BY <1>10, <1>16

\* Drawing the panes of a workspace from the first to the last.
IsDrawing(f) ==
  /\ f \in [0 .. Len(root) -> Drawings] /\ f[0] = editors
  /\ \A n \in 1 .. Len(root) : f[n] = Drawn(n, f[n - 1])

\* There is a drawing, and it ends in what is rendered.
LEMMA DrawingIs ==
  ASSUME WorkspaceOk
  PROVE  \E f : IsDrawing(f) /\ Rendered = f[Len(root)]
<1>1. PICK N \in Nat : N = Len(root) /\ N = LeafCount(root)
  BY ActiveIs
<1>2. editors \in Drawings
  BY ActiveIs DEF Drawings
<1> DEFINE G == [p \in (1 .. N) \X Drawings |-> Drawn(p[1], p[2])]
<1>3. G \in [(1 .. N) \X Drawings -> Drawings]
  <2>1. \A n \in 1 .. N, es \in Drawings : Drawn(n, es) \in Drawings
    BY <1>1, DrawnIs DEF IsDrawn
  <2> QED
    BY <2>1
<1>4. \A n \in 1 .. N, es \in Drawings : G[<<n, es>>] = Drawn(n, es)
  OBVIOUS
<1> HIDE DEF G
<1>5. PICK f \in [0 .. N -> Drawings] : Steps(f, G, editors, N)
  BY <1>2, <1>3, StepsExist
<1>6. f[0] = editors /\ \A n \in 1 .. N : f[n] = Drawn(n, f[n - 1])
  <2>1. \A n \in 1 .. N : n - 1 \in 0 .. N
    BY <1>1
  <2>2. \A n \in 1 .. N : f[n - 1] \in Drawings
    BY <1>5, <2>1
  <2> QED
    BY <1>4, <1>5, <2>2 DEF Steps
<1> DEFINE F(drawn) == [n \in 0 .. LeafCount(root) |->
              IF n = 0 THEN editors
              ELSE [drawn[n - 1] EXCEPT ![NthEditor(root, n - 1)] =
                     RenderIn(docs[@.doc], @, PaneRects[n].w, PaneRects[n].h)]]
<1>7. \A g : F(g) = [n \in 0 .. N |-> IF n = 0 THEN editors ELSE Drawn(n, g[n - 1])]
  BY <1>1 DEF Drawn
<1>8. f = F(f)
  <2>1. f = [n \in 0 .. N |-> f[n]]
    BY <1>5
  <2>2. \A n \in 0 .. N : f[n] = IF n = 0 THEN editors ELSE Drawn(n, f[n - 1])
    <3>1. \A n \in 0 .. N : n # 0 => n \in 1 .. N
      BY <1>1
    <3> QED
      BY <1>6, <3>1
  <2>3. f = [n \in 0 .. N |-> IF n = 0 THEN editors ELSE Drawn(n, f[n - 1])]
    BY <2>1, <2>2
  <2> HIDE DEF F
  <2> QED
    BY <1>7, <2>3
<1> DEFINE g == CHOOSE drawn : drawn = F(drawn)
<1>9. g = F(g)
  <2> HIDE DEF F
  <2> QED
    BY <1>8, Zenon
<1>10. Rendered = g[LeafCount(root)]
  BY Zenon DEF Rendered
<1>11. g = [n \in 0 .. N |-> IF n = 0 THEN editors ELSE Drawn(n, g[n - 1])]
  <2> HIDE DEF F, g
  <2> QED
    BY <1>7, <1>9
<1> HIDE DEF g, F
<1>12. g[0] = editors /\ \A n \in 1 .. N : g[n] = Drawn(n, g[n - 1])
  <2>1. \A n \in 0 .. N : g[n] = IF n = 0 THEN editors ELSE Drawn(n, g[n - 1])
    BY <1>11
  <2>2. 0 \in 0 .. N /\ \A n \in 1 .. N : n \in 0 .. N /\ n # 0
    BY <1>1
  <2> QED
    BY <2>1, <2>2
<1> DEFINE S == {n \in Nat : n <= N => g[n] \in Drawings}
<1>13. 0 \in S
  BY <1>2, <1>12
<1>14. ASSUME NEW n \in Nat, n \in S
       PROVE  n + 1 \in S
  <2>1. SUFFICES ASSUME n + 1 <= N
                 PROVE  g[n + 1] \in Drawings
    OBVIOUS
  <2>2. n + 1 \in 1 .. N /\ (n + 1) - 1 = n
    BY <1>1, <2>1
  <2>3. g[n] \in Drawings
    BY <1>14, <2>1
  <2>4. g[n + 1] = Drawn(n + 1, g[n])
    BY <1>12, <2>2
  <2>5. PICK m : m = n + 1 /\ m \in 1 .. N
    BY <2>2
  <2>6. Drawn(m, g[n]) \in Drawings
    BY <1>1, <2>3, <2>5, DrawnIs DEF IsDrawn
  <2> QED
    BY <2>4, <2>5, <2>6
<1>15. \A n \in Nat : n \in S
  <2> HIDE DEF S
  <2> QED
    BY <1>13, <1>14, Counting
<1>16. \A n \in 0 .. N : g[n] \in Drawings
  BY <1>1, <1>15
<1>17. g \in [0 .. N -> Drawings]
  BY <1>11, <1>16
<1>18. IsDrawing(g)
  BY <1>1, <1>12, <1>17 DEF IsDrawing
<1> QED
  BY <1>1, <1>10, <1>18

\* Drawing keeps the invariant.
LEMMA RenderStays ==
  ASSUME WorkspaceOk, Render
  PROVE  Stays
<1>1. Operation /\ editors' = Rendered /\ UNCHANGED <<docs, root, focused, clipboard, profile, quit>>
  BY DEF Render
<1>2. PICK f : IsDrawing(f) /\ Rendered = f[Len(root)]
  BY DrawingIs
<1>3. Len(root) \in 0 .. Len(root)
  BY ActiveIs
<1>4. PICK u : u = Rendered /\ u \in Drawings
  BY <1>2, <1>3 DEF IsDrawing
<1>5. u \in Seq(Panes(Glyphs)) /\ Len(u) = Len(editors) /\ \A i \in 1 .. Len(editors) : u[i].doc = editors[i].doc
  BY <1>4 DEF Drawings
<1>6. EditorsOn(u, docs)
  BY <1>5, ActiveIs DEF EditorsOn
<1>7. RootOn(root, u)
  BY <1>5, ActiveIs DEF RootOn
<1>8. docs \in Seq(DocsOf(Glyphs, FilePaths)) /\ focused \in 0 .. Len(root) - 1
  BY ActiveIs
<1>9. StateOk(docs, u, root, focused)
  BY <1>6, <1>7, <1>8 DEF StateOk
<1> QED
  BY <1>1, <1>4, <1>9, OthersStay DEF Stays, OthersSame

-----------------------------------------------------------------------------
(* The invariant holds, and the panes are sound.                           *)

\* The invariant holds of the first workspace.
LEMMA InitOk == WorkspaceInit => WorkspaceOk
<1> SUFFICES ASSUME WorkspaceInit
             PROVE  WorkspaceOk
  OBVIOUS
<1>1. PICK p \in DOMAIN Files : docs = <<NewDoc(p, Files[p])>>
  BY DEF WorkspaceInit
<1>2. /\ editors = <<NewEditor(1)>> /\ root = OnePane(1) /\ focused = 0
      /\ clipboard = <<>> /\ profile = "cua" /\ quit = FALSE /\ keys = 0
  BY DEF WorkspaceInit
<1>3. PICK d \in DocsOf(Glyphs, FilePaths) : docs = <<d>>
  BY <1>1, GlyphsAre, NewDocIs
<1>4. docs \in Seq(DocsOf(Glyphs, FilePaths)) /\ Len(docs) = 1
  BY <1>3
<1>5. PICK one \in Nat : one = 1
  OBVIOUS
<1>6. PICK e \in Panes(Glyphs) : e = NewEditor(one) /\ e.doc = one
  BY NewEditorIs
<1>7. editors = <<e>>
  BY <1>2, <1>5, <1>6
<1>8. <<e>> \in Seq(Panes(Glyphs)) /\ Len(<<e>>) = 1 /\ <<e>>[1] = e
  OBVIOUS
<1>9. EditorsOn(editors, docs) /\ Len(editors) = 1
  BY <1>4, <1>5, <1>6, <1>7, <1>8 DEF EditorsOn
<1>10. IsTree(OnePane(one)) /\ Len(OnePane(one)) = 1 /\ OnePane(one)[1].editor = one
  BY OnePaneIsTree
<1>11. RootOn(root, editors) /\ Len(root) = 1
  BY <1>2, <1>5, <1>9, <1>10 DEF RootOn
<1>12. StateOk(docs, editors, root, focused)
  BY <1>2, <1>4, <1>9, <1>11 DEF StateOk
<1>13. clipboard \in Seq(Glyphs) /\ profile \in Profiles /\ quit \in BOOLEAN /\ keys \in Nat
  BY <1>2, GlyphsAre DEF Profiles
<1> QED
  BY <1>12, <1>13 DEF WorkspaceOk

\* Every action keeps the invariant.
LEMMA ActionStays ==
  ASSUME WorkspaceOk, WorkspaceNext
  PROVE  Stays
<1>1. CASE TypeLetter
  BY <1>1, TypeLetterStays
<1>2. CASE CommandKey \/ PageKey
  BY <1>2, CommandKeyStays
<1>3. CASE WindowCommand
  <2>1. CASE SplitFocused
    BY <2>1, SplitStays
  <2>2. CASE FocusNext
    BY <2>2, FocusStays
  <2>3. CASE Resize
    BY <2>3, ResizeStays
  <2>4. CASE CycleBuffer(TRUE)
    BY <2>4, CycleStays
  <2>5. CASE CycleBuffer(FALSE)
    BY <2>5, CycleStays
  <2>6. CASE ClosePane
    BY <2>6, ClosePaneStays
  <2>7. CASE CloseActiveBuffer
    BY <2>7, CloseBufferStays
  <2> QED
    BY <1>3, <2>1, <2>2, <2>3, <2>4, <2>5, <2>6, <2>7 DEF WindowCommand
<1>4. CASE Open
  BY <1>4, OpenStays
<1>5. CASE RevealPath
  BY <1>5, RevealStays
<1>6. CASE SetActiveCursor
  BY <1>6, SetActiveCursorStays
<1>7. CASE GotoDiagnosticKey
  BY <1>7, GotoDiagnosticStays
<1>8. CASE InsertText
  BY <1>8, InsertTextStays
<1>9. CASE ReplaceActive
  BY <1>9, ReplaceActiveStays
<1>10. CASE ExecuteCommand
  BY <1>10, CloseBufferStays, CommandStays
<1>11. CASE SetClipboard
  BY <1>11, SetClipboardStays
<1>12. CASE SetProfiles
  BY <1>12, SetProfilesStays
<1>13. CASE ApplyFolds
  BY <1>13, ApplyFoldsStays
<1>14. CASE ApplyInlayHints
  BY <1>14, ApplyInlayHintsStays
<1>15. CASE ToggleActiveFold
  BY <1>15, ToggleStays
<1>16. CASE Render
  BY <1>16, RenderStays
<1>17. CASE Restart
  BY <1>17, RestartStays
<1>18. CASE AgentEdit
  BY <1>18, AgentEditStays
<1> QED
  BY <1>1, <1>2, <1>3, <1>4, <1>5, <1>6, <1>7, <1>8, <1>9, <1>10, <1>11, <1>12, <1>13, <1>14, <1>15, <1>16, <1>17, <1>18 DEF WorkspaceNext

\* The invariant is inductive.
LEMMA StepOk == WorkspaceOk /\ [WorkspaceNext]_wsVars => WorkspaceOk'
<1> SUFFICES ASSUME WorkspaceOk, [WorkspaceNext]_wsVars
             PROVE  WorkspaceOk'
  OBVIOUS
<1>1. CASE WorkspaceNext
  <2>1. Stays
    BY <1>1, ActionStays
  <2>2. StateOk(docs', editors', root', focused')
    BY <2>1 DEF Stays
  <2>3. StateOk(docs, editors, root, focused)'
    BY <2>2
  <2> QED
    BY <2>1, <2>3 DEF Stays, OthersSame, WorkspaceOk
<1>2. CASE UNCHANGED wsVars
  <2>1. /\ docs' = docs /\ editors' = editors /\ root' = root /\ focused' = focused
        /\ clipboard' = clipboard /\ profile' = profile /\ quit' = quit /\ keys' = keys
    BY <1>2 DEF wsVars
  <2>2. StateOk(docs', editors', root', focused')
    BY <2>1 DEF WorkspaceOk
  <2>3. StateOk(docs, editors, root, focused)'
    BY <2>2
  <2> QED
    BY <2>1, <2>3 DEF WorkspaceOk
<1> QED
  BY <1>1, <1>2

\* What an editor, a document, a pane and the focus are, through everything that is done in
\* a workspace.
THEOREM WorkspaceIsOk == WorkspaceSpec => []WorkspaceOk
  BY InitOk, StepOk, PTL DEF WorkspaceSpec

\* The panes are sound: each shows an editor there is, the focus is on one, and they and the
\* rules between them tile the area.
LEMMA PanesSound ==
  ASSUME WorkspaceOk
  PROVE  PanesAreSound
<1>1. Body[1] \in Nat /\ Body[2] \in Nat
  BY WorkspaceAssumption
<1>2. [x |-> 0, y |-> 0, w |-> Body[1], h |-> Body[2]] \in Rects
  BY <1>1 DEF Rects
<1>3. PICK area \in Rects : area = Rect(0, 0, Body[1], Body[2])
  BY <1>2 DEF Rect
<1>4. IsTree(root) /\ DOMAIN root = 1 .. Len(root) /\ focused \in 0 .. LeafCount(root) - 1
      /\ DOMAIN editors = 1 .. Len(editors) /\ \A n \in 1 .. Len(root) : root[n].editor \in 1 .. Len(editors)
  BY ActiveIs
<1>5. Tiles(Layout(root, area), Inside(area))
  BY <1>4, TreeTiles
<1>6. ToSet(CollectEditors(root)) \subseteq DOMAIN editors
  BY <1>4 DEF CollectEditors, ToSet
<1> QED
  BY <1>3, <1>4, <1>5, <1>6 DEF PanesAreSound

-----------------------------------------------------------------------------
(* Cursors follow their text.                                              *)

\* What CursorsFollowTheirText says of one editor, of one document, and of a step.
Followed(k, i) ==
  Follows(docs[k].text, docs'[k].text, Cursor(docs[k], editors[i].view), Cursor(docs'[k], editors'[i].view),
          editors'[ActiveIndex].view.cursor)
WasEdited(k) ==
  /\ docs'[k].path = docs[k].path
  /\ Len(docs'[k].past) = Len(docs[k].past) + 1
  /\ docs[k].future = <<>> \/ docs'[k].text # Last(docs[k].future)
  /\ \A i \in DOMAIN editors : i # ActiveIndex /\ editors[i].doc = k => editors[i].view.lastEdit = <<>>
  /\ editors'[ActiveIndex].view.lastEdit = <<>>
FollowStep ==
  \A k \in DOMAIN docs \cap DOMAIN docs' :
     WasEdited(k) => \A i \in DOMAIN editors : (i # ActiveIndex /\ editors[i].doc = k) => Followed(k, i)

\* The past of a document is a sequence.
LEMMA PastIs ==
  ASSUME WorkspaceOk, NEW k \in DOMAIN docs
  PROVE  Len(docs[k].past) \in Nat /\ docs[k] \in DocsOf(Glyphs, FilePaths)
<1>1. docs[k] \in DocsOf(Glyphs, FilePaths)
  BY ActiveIs
<1>2. docs[k].past \in Seq(Seq(Glyphs))
  BY <1>1 DEF DocsOf
<1> QED
  BY <1>1, <1>2, LenProperties

\* A document that has not one past more was not edited.
LEMMA KeptFollows ==
  ASSUME WorkspaceOk, \A k \in DOMAIN docs \cap DOMAIN docs' : docs'[k] = docs[k] \/ docs'[k].past = <<>>
  PROVE  FollowStep
<1>1. ASSUME NEW k \in DOMAIN docs \cap DOMAIN docs', WasEdited(k)
      PROVE  FALSE
  <2>1. PICK n \in Nat : n = Len(docs[k].past) /\ Len(docs'[k].past) = n + 1
    BY <1>1, PastIs DEF WasEdited
  <2>2. CASE docs'[k] = docs[k]
    BY <2>1, <2>2
  <2>3. CASE docs'[k].past = <<>>
    <3>1. Len(<<>>) = 0
      OBVIOUS
    <3> QED
      BY <2>1, <2>3, <3>1
  <2> QED
    BY <2>2, <2>3
<1> QED
  BY <1>1 DEF FollowStep

\* What an edit makes of a document, and of the view it was made in.
IsEditOf(doc, view, t, i, j, new) ==
  /\ i \in 0 .. Len(t) /\ j \in 0 .. Len(t) /\ i <= j /\ new \in Seq(Glyphs)
  /\ doc.text = Splice(t, ByteOf(t, i), ByteOf(t, j), new)
  /\ view.lastEdit = <<Edit(ByteOf(t, i), ByteOf(t, j) - ByteOf(t, i), Bytes(new))>>
  /\ view.cursor = ByteOf(t, i) + Bytes(new)

\* An edit replaces one range of the text.
LEMMA EditedHas ==
  ASSUME NEW d \in DocsOf(Glyphs, FilePaths), NEW s, Edited(Glyphs, d, s)
  PROVE  \E i, j, new : IsEditOf(s.doc, s.view, d.text, i, j, new)
<1>1. PICK i \in 0 .. Len(d.text), j \in 0 .. Len(d.text), new \in Seq(Glyphs) :
         i <= j /\ s = ApplyEdit(d, NewView, ByteOf(d.text, i), ByteOf(d.text, j), new)
  BY DEF Edited
<1>2. PICK t : t = d.text
  OBVIOUS
<1>3. PICK lo, hi, size, u : lo = ByteOf(t, i) /\ hi = ByteOf(t, j) /\ size = Bytes(new) /\ u = Splice(t, lo, hi, new)
  OBVIOUS
<1>4. s = EditState(d, u, lo, hi, size)
  BY <1>1, <1>2, <1>3 DEF ApplyEdit, EditState
<1>5. s.view.lastEdit = <<Edit(lo, hi - lo, size)>> /\ s.view.cursor = lo + size
  BY <1>4 DEF EditState, State
<1>6. s.doc = [d EXCEPT !.text = u, !.past = Append(@, d.text), !.future = <<>>, !.dirty = TRUE, !.rev = @ + 1]
  BY <1>4 DEF EditState, State
<1> QED
  BY <1>1, <1>2, <1>3, <1>5, <1>6 DEF IsEditOf

\* The others' cursors after an edit follow their text.
LEMMA EditFollows ==
  ASSUME WorkspaceOk, NEW did, DoesLead(Glyphs, FilePaths, ActiveDoc, Active, did), EditStep(did),
         WasEdited(Active.doc), NEW n \in 1 .. Len(editors), n # ActiveIndex, editors[n].doc = Active.doc
  PROVE  Followed(Active.doc, n)
<1>1. PICK d \in DocsOf(Glyphs, FilePaths) : d = ActiveDoc /\ d = docs[Active.doc]
  BY ActiveIs
<1>2. PICK s : s = State(did.doc, did.pane.view) /\ s.doc = did.doc /\ s.view = did.pane.view
  <2>1. PICK doc, view : doc = did.doc /\ view = did.pane.view
    OBVIOUS
  <2>2. State(doc, view).doc = doc /\ State(doc, view).view = view
    BY DEF State
  <2> QED
    BY <2>1, <2>2
<1>3. LeadsTo(Glyphs, FilePaths, d, s)
  BY <1>1, <1>2 DEF DoesLead
<1>4. docs'[Active.doc] = did.doc
  BY ActiveIs DEF EditStep
<1>5. Len(did.doc.past) = Len(d.past) + 1 /\ (d.future = <<>> \/ did.doc.text # Last(d.future))
  BY <1>1, <1>4 DEF WasEdited
<1>6. Len(d.past) \in Nat
  BY <1>1, PastIs, ActiveIs
<1>7. Edited(Glyphs, d, s)
  <2>1. s.doc.past = d.past \/ Edited(Glyphs, d, s) \/ Len(s.doc.past) = Len(d.past) - 1
        \/ (d.future # <<>> /\ s.doc.text = Last(d.future))
    BY <1>3 DEF LeadsTo
  <2>2. PICK size \in Nat : size = Len(d.past)
    BY <1>6
  <2>3. Len(s.doc.past) = size + 1
    BY <1>2, <1>5, <2>2
  <2>4. s.doc.past # d.past /\ Len(s.doc.past) # size - 1
    BY <2>2, <2>3
  <2> QED
    BY <1>2, <1>5, <2>1, <2>2, <2>4
<1>8. PICK i, j, new : IsEditOf(s.doc, s.view, d.text, i, j, new)
  BY <1>1, <1>7, EditedHas
<1>9. PICK t \in Seq(Glyphs) : t = d.text
  BY <1>1 DEF DocsOf
<1>10. PICK lo, hi, size : lo = ByteOf(t, i) /\ hi = ByteOf(t, j) /\ size = Bytes(new)
  OBVIOUS
<1>11. /\ i \in 0 .. Len(t) /\ j \in 0 .. Len(t) /\ i <= j /\ new \in Seq(Glyphs)
       /\ s.doc.text = Splice(t, ByteOf(t, i), ByteOf(t, j), new)
  BY <1>8, <1>9 DEF IsEditOf
<1>12. s.view.lastEdit = <<Edit(lo, hi - lo, size)>> /\ s.view.cursor = lo + size
  BY <1>8, <1>9, <1>10 DEF IsEditOf
<1>13. PICK e : e = Edit(lo, hi - lo, size)
  OBVIOUS
<1>14. s.view.lastEdit = <<e>> /\ s.view.lastEdit # <<>> /\ s.view.lastEdit[1] = e
  BY <1>12, <1>13
<1>15. e \in EditRecords
  <2>1. s.view \in ViewRecords
    BY <1>3 DEF LeadsTo
  <2>2. s.view.lastEdit \in LastEdits
    BY <2>1 DEF ViewRecords
  <2>3. \E x \in EditRecords : <<x>> = <<e>>
    BY <1>14, <2>2 DEF LastEdits
  <2> QED
    BY <2>3
<1>16. PICK es : Acted(es, editors, ActiveIndex, did.pane) /\ editors' = PropagateEdits(es)
  BY DEF EditStep
<1>17. /\ es \in Seq(Panes(Glyphs)) /\ Len(es) = Len(editors) /\ \A m \in 1 .. Len(editors) : es[m].doc = editors[m].doc
       /\ es[n].view = editors[n].view /\ es[ActiveIndex].view = s.view
  BY <1>2, <1>16, ActiveIs DEF Acted
<1>18. ActiveIndex \in 1 .. Len(es)
  BY <1>17, ActiveIs
<1>19. OnlyEdit(es, ActiveIndex)
  <2>1. DOMAIN editors = 1 .. Len(editors)
    BY ActiveIs
  <2>2. \A m \in 1 .. Len(editors) : m # ActiveIndex => es[m].view = editors[m].view
    BY <1>16 DEF Acted
  <2>3. es[ActiveIndex].doc = Active.doc
    BY <1>17, ActiveIs
  <2> QED
    BY <1>14, <1>17, <2>1, <2>2, <2>3 DEF OnlyEdit, WasEdited
<1>20. HaveFollowed(editors', es, ActiveIndex)
  BY <1>16, <1>17, <1>18, <1>19, PropagatedIs
<1>21. editors'[n].view.cursor = ShiftCursor(editors[n].view, e).cursor /\ editors'[ActiveIndex].view.cursor = lo + size
  <2>1. es[n].doc = es[ActiveIndex].doc
    BY <1>17, ActiveIs
  <2>2. editors'[n].view.cursor = CursorAfter(es, ActiveIndex, n)
    BY <1>17, <1>20, <2>1 DEF HaveFollowed
  <2>3. editors'[ActiveIndex].view.cursor = CursorAfter(es, ActiveIndex, ActiveIndex)
    BY <1>18, <1>20 DEF HaveFollowed
  <2> QED
    BY <1>12, <1>14, <1>17, <2>2, <2>3 DEF CursorAfter
<1>22. editors[n].view \in ViewRecords
  BY ActiveIs DEF Panes
<1>23. PICK v \in ViewRecords : v = editors[n].view
  BY <1>22
<1>24. PICK r \in Nat : r = v.cursor
  BY DEF ViewRecords
<1>25. PICK rr : rr = Rebase(r, "right", e)
  OBVIOUS
<1>26. editors'[n].view.cursor = rr
  <2>1. ShiftCursor(v, e).cursor = Rebase(v.cursor, "right", e)
    BY <1>15, ShiftedIs
  <2> QED
    BY <1>21, <1>23, <1>24, <1>25, <2>1
<1>27. PICK u : u = Splice(t, ByteOf(t, i), ByteOf(t, j), new)
  OBVIOUS
<1>28. rr = Rebase(r, "right", Edit(ByteOf(t, i), ByteOf(t, j) - ByteOf(t, i), Bytes(new)))
  BY <1>10, <1>13, <1>25
<1>29. Follows(t, u, FloorBoundary(t, r), FloorBoundary(u, rr), ByteOf(t, i) + Bytes(new))
  BY <1>11, <1>27, <1>28, PlaceFollows
<1>30. Cursor(docs[Active.doc], editors[n].view) = FloorBoundary(t, r)
  BY <1>1, <1>9, <1>23, <1>24 DEF Cursor
<1>31. docs'[Active.doc].text = u /\ docs[Active.doc].text = t
  BY <1>1, <1>2, <1>4, <1>9, <1>11, <1>27
<1>32. Cursor(docs'[Active.doc], editors'[n].view) = FloorBoundary(u, rr)
  BY <1>26, <1>31 DEF Cursor
<1>33. editors'[ActiveIndex].view.cursor = ByteOf(t, i) + Bytes(new)
  BY <1>10, <1>21
<1> QED
  BY <1>29, <1>30, <1>31, <1>32, <1>33 DEF Followed

\* A key that an editor takes moves the cursors of the others with their text.
LEMMA EditStepFollows ==
  ASSUME WorkspaceOk, NEW did, DoesLead(Glyphs, FilePaths, ActiveDoc, Active, did), EditStep(did)
  PROVE  FollowStep
<1>1. ASSUME NEW k \in DOMAIN docs \cap DOMAIN docs', WasEdited(k)
      PROVE  k = Active.doc
  <2>1. SUFFICES ASSUME k # Active.doc
                 PROVE  FALSE
    OBVIOUS
  <2>2. docs'[k] = docs[k]
    BY <2>1 DEF EditStep
  <2>3. Len(docs[k].past) = Len(docs[k].past) + 1
    BY <1>1, <2>2 DEF WasEdited
  <2>4. PICK n \in Nat : n = Len(docs[k].past)
    BY PastIs
  <2> QED
    BY <2>3, <2>4
<1>2. ASSUME WasEdited(Active.doc), NEW n \in 1 .. Len(editors), n # ActiveIndex, editors[n].doc = Active.doc
      PROVE  Followed(Active.doc, n)
  BY <1>2, EditFollows
<1>3. DOMAIN editors = 1 .. Len(editors)
  BY ActiveIs
<1> QED
  BY <1>1, <1>2, <1>3 DEF FollowStep

-----------------------------------------------------------------------------
\* The actions of a workspace.
LEMMA OpenKeeps ==
  ASSUME WorkspaceOk, NEW d \in DocsOf(Glyphs, FilePaths), docs' = Append(docs, d)
  PROVE  FollowStep
<1>1. docs \in Seq(DocsOf(Glyphs, FilePaths)) /\ EditorsOn(editors, docs) /\ DOMAIN docs = 1 .. Len(docs)
  BY ActiveIs DEF WorkspaceOk, StateOk
<1>2. \A k \in 1 .. Len(docs) : docs'[k] = docs[k]
  BY <1>1, DocumentAdded
<1> QED
  BY <1>1, <1>2, KeptFollows

\* Everything that is done moves the cursors with their text.
LEMMA ActionFollows ==
  ASSUME WorkspaceOk, WorkspaceNext
  PROVE  FollowStep
<1>1. CASE TypeLetter
  <2>1. PICK ch \in Letters : HandleKey(SelfInsert(ActiveDoc, Active, ch))
    BY <1>1 DEF TypeLetter
  <2> QED
    BY <2>1, LettersLead, HandleKeyIsEdit, EditStepFollows
<1>2. CASE CommandKey \/ PageKey
  <2>1. PICK c \in Commands : HandleKey(ExecuteIn(ActiveDoc, Active, c))
    BY <1>2 DEF CommandKey, PageKey, Commands, MotionCommands
  <2> QED
    BY <2>1, CommandsLead, HandleKeyIsEdit, EditStepFollows
<1>3. CASE InsertText
  <2>1. PICK ch \in Letters : Become(Edits(Active, Insert(ActiveDoc, Active.view, <<ch, ch>>)))
    BY <1>3 DEF InsertText
  <2> QED
    BY <2>1, InsertedLeads, BecomeIsEdit, EditStepFollows
<1>4. CASE ReplaceActive
  <2>1. PICK lo, hi \in 0..Bytes(ActiveDoc.text) : Become(Edits(Active, ReplaceRange(ActiveDoc, Active.view, lo, hi, <<"x">>)))
    BY <1>4 DEF ReplaceActive
  <2>2. lo \in Nat /\ hi \in Nat
    BY <2>1, ActiveText
  <2> QED
    BY <2>1, <2>2, ReplacedLeads, BecomeIsEdit, EditStepFollows
<1>5. CASE ExecuteCommand /\ ~CloseActiveBuffer
  <2>1. PICK c \in {"copy", "cut", "undo"} : Become(ExecuteIn(ActiveDoc, Active, c))
    BY <1>5 DEF ExecuteCommand
  <2>2. c \in Commands
    BY <2>1 DEF Commands, EditCommands, PaneCommands
  <2> QED
    BY <2>1, <2>2, CommandsLead, BecomeIsEdit, EditStepFollows
<1>6. CASE CloseActiveBuffer
  <2>1. NewDoc(Scratch, <<>>) \in DocsOf(Glyphs, FilePaths)
    BY GlyphsAre, NewDocIs
  <2>2. docs' = Append(docs, NewDoc(Scratch, <<>>)) \/ docs' = docs
    BY <1>6 DEF CloseActiveBuffer
  <2> QED
    BY <2>1, <2>2, OpenKeeps, KeptFollows
<1>7. CASE Open \/ RevealPath
  <2>1. docs' = docs \/ \E p \in DOMAIN Files : docs' = Append(docs, NewDoc(p, Files[p]))
    BY <1>7 DEF Open, RevealPath, OpenFile
  <2>2. \A p \in DOMAIN Files : NewDoc(p, Files[p]) \in DocsOf(Glyphs, FilePaths)
    BY GlyphsAre, NewDocIs
  <2> QED
    BY <2>1, <2>2, OpenKeeps, KeptFollows
<1>8. CASE Restart
  BY <1>8, RestartStays, KeptFollows
<1>9. CASE WindowCommand /\ ~CloseActiveBuffer
  <2>1. docs' = docs
    BY <1>9 DEF WindowCommand, SplitFocused, FocusNext, Resize, CycleBuffer, ClosePane
  <2> QED
    BY <2>1, KeptFollows
<1>10. CASE \/ SetActiveCursor \/ GotoDiagnosticKey \/ SetClipboard \/ SetProfiles
            \/ ApplyFolds \/ ApplyInlayHints \/ ToggleActiveFold \/ Render
  <2>1. docs' = docs
    BY <1>10 DEF SetActiveCursor, GotoDiagnosticKey, SetClipboard, SetProfiles, ApplyFolds, ApplyInlayHints, ToggleActiveFold, Render
  <2> QED
    BY <2>1, KeptFollows
<1>11. CASE AgentEdit
  <2>1. PICK did : IsAgents(did) /\ editors' = [editors EXCEPT ![ActiveIndex].view = did.view]
    BY <1>11, AgentEditIs
  <2>2. PICK v \in ViewRecords : v = did.view /\ v.lastEdit # <<>>
    BY <2>1 DEF IsAgents
  <2>3. PICK e \in Panes(Glyphs) : e = editors[ActiveIndex] /\ ActiveIndex \in DOMAIN editors
    BY ActiveIs
  <2>4. editors'[ActiveIndex] = [e EXCEPT !.view = v]
    BY <2>1, <2>2, <2>3
  <2>5. [e EXCEPT !.view = v].view = v
    BY DEF Panes
  <2>6. editors'[ActiveIndex].view.lastEdit # <<>>
    BY <2>2, <2>4, <2>5
  <2> QED
    BY <2>6 DEF FollowStep, WasEdited
<1> QED
  BY <1>1, <1>2, <1>3, <1>4, <1>5, <1>6, <1>7, <1>8, <1>9, <1>10, <1>11 DEF WorkspaceNext

\* When one view of a document edits it and hands the edit on, the cursors of all its other
\* views follow the text.
THEOREM CursorsFollow == WorkspaceSpec => CursorsFollowTheirText
<1>1. WorkspaceOk /\ [WorkspaceNext]_wsVars =>
        (\A k \in DOMAIN docs \cap DOMAIN docs' :
          (/\ docs'[k].path = docs[k].path
           /\ Len(docs'[k].past) = Len(docs[k].past) + 1
           /\ docs[k].future = <<>> \/ docs'[k].text # Last(docs[k].future)
           /\ \A i \in DOMAIN editors :
                 i # ActiveIndex /\ editors[i].doc = k => editors[i].view.lastEdit = <<>>
           /\ editors'[ActiveIndex].view.lastEdit = <<>>) =>
              \A i \in DOMAIN editors :
                  (i # ActiveIndex /\ editors[i].doc = k) =>
                      LET old == docs[k].text
                          new == docs'[k].text
                          c == Cursor(docs[k], editors[i].view)
                          cc == Cursor(docs'[k], editors'[i].view)
                          end == editors'[ActiveIndex].view.cursor
                      IN  IF Bytes(old) - c <= Bytes(new) - end
                          THEN Slice(old, c, Bytes(old)) = Slice(new, cc, Bytes(new))
                          ELSE cc = end \/ Slice(old, 0, c) = Slice(new, 0, cc))
  <2> SUFFICES ASSUME WorkspaceOk, [WorkspaceNext]_wsVars
               PROVE  FollowStep
    BY DEF FollowStep, WasEdited, Followed, Follows
  <2>1. CASE WorkspaceNext
    BY <2>1, ActionFollows
  <2>2. CASE UNCHANGED wsVars
    <3>1. docs' = docs
      BY <2>2 DEF wsVars
    <3> QED
      BY <3>1, KeptFollows
  <2> QED
    BY <2>1, <2>2
<1> QED
  BY <1>1, WorkspaceIsOk, PTL DEF WorkspaceSpec, CursorsFollowTheirText

-----------------------------------------------------------------------------
(* The rows of a pane.                                                     *)

\* From a line to the next visible one is one row.
LEMMA VisibleStep ==
  ASSUME NEW S, NEW e \in Panes(S), NEW x \in Nat, NEW row \in Nat, x < row, ~Hidden(e, row)
  PROVE  /\ NextVisible(e, x) \in Nat /\ NextVisible(e, x) <= row
         /\ VisibleFrom(e, x, row) = 1 + VisibleFrom(e, NextVisible(e, x), row)
<1>1. PICK y : y = NextVisible(e, x) /\ IsNextVisible(y, e, x)
  <2>1. x \in Int /\ x >= -1
    OBVIOUS
  <2> QED
    BY <2>1, NextVisibleIs
<1>2. y \in Nat /\ y > x /\ ~Hidden(e, y) /\ y <= row /\ \A n \in Nat : (n > x /\ ~Hidden(e, n)) => y <= n
  BY <1>1 DEF IsNextVisible
<1> DEFINE A == {n \in x..row - 1 : n = x \/ ~Hidden(e, n)}
           B == {n \in y..row - 1 : n = y \/ ~Hidden(e, n)}
<1>3. A = B \cup {x}
  <2>1. ASSUME NEW n \in A
        PROVE  n \in B \cup {x}
    <3>1. n \in Nat /\ x <= n /\ n <= row - 1 /\ (n = x \/ ~Hidden(e, n))
      OBVIOUS
    <3>2. CASE n = x
      BY <3>2
    <3>3. CASE n # x
      <4>1. y <= n
        BY <1>2, <3>1, <3>3
      <4>2. n \in y .. row - 1
        BY <1>2, <3>1, <4>1
      <4> QED
        BY <3>1, <3>3, <4>2
    <3> QED
      BY <3>2, <3>3
  <2>2. x \in A
    OBVIOUS
  <2>3. ASSUME NEW n \in B
        PROVE  n \in A
    <3>1. n \in x .. row - 1 /\ ~Hidden(e, n)
      BY <1>2
    <3> QED
      BY <3>1
  <2> HIDE DEF A, B
  <2> QED
    BY <2>1, <2>2, <2>3
<1>4. x \notin B
  BY <1>2
<1>5. IsFiniteSet(B)
  BY <1>2, RowsAre
<1> HIDE DEF A, B
<1>6. Cardinality(B \cup {x}) = Cardinality(B) + 1
  BY <1>4, <1>5, FS_AddElement
<1>7. Cardinality(A) = Cardinality(B) + 1 /\ Cardinality(B) \in Nat
  BY <1>3, <1>5, <1>6, FS_CardinalityType
<1>8. VisibleFrom(e, x, row) = Cardinality(A) /\ VisibleFrom(e, y, row) = Cardinality(B)
  BY DEF VisibleFrom, A, B
<1> QED
  BY <1>1, <1>2, <1>7, <1>8

\* A line before another takes a row of its own.
LEMMA RowsToGo ==
  ASSUME NEW S, NEW e \in Panes(S), NEW x \in Nat, NEW row \in Nat, x <= row, ~Hidden(e, row), VisibleFrom(e, x, row) = 0
  PROVE  x = row
<1>1. SUFFICES ASSUME x < row
               PROVE  FALSE
  OBVIOUS
<1>2. PICK y : y = NextVisible(e, x)
  OBVIOUS
<1>3. y \in Nat /\ VisibleFrom(e, x, row) = 1 + VisibleFrom(e, y, row)
  BY <1>1, <1>2, VisibleStep
<1>4. VisibleFrom(e, y, row) \in Nat
  BY <1>3, RowsAre
<1> QED
  BY <1>3, <1>4

\* The lines of a pane, from its top.
Lined(f, e, height) ==
  /\ f \in [1 .. height -> Nat]
  /\ \A k \in 1 .. height : f[k] = IF k = 1 THEN e.top ELSE NextVisible(e, f[k - 1])

\* The lines of the rows, from the top, each the next visible one.
LEMMA LinesAre ==
  ASSUME NEW S, NEW e \in Panes(S), NEW height \in Nat
  PROVE  Lined(LinesFrom(e, height), e, height)
<1> DEFINE G == [p \in (1 .. height) \X Nat |-> IF p[1] = 1 THEN e.top ELSE NextVisible(e, p[2])]
<1>1. e.top \in Nat
  BY DEF Panes
<1>2. G \in [(1 .. height) \X Nat -> Nat]
  <2>1. \A n \in Nat : NextVisible(e, n) \in Nat
    <3>1. ASSUME NEW n \in Nat
          PROVE  NextVisible(e, n) \in Nat
      <4>1. n \in Int /\ n >= -1
        OBVIOUS
      <4> QED
        BY <4>1, NextVisibleIs DEF IsNextVisible
    <3> QED
      BY <3>1
  <2> QED
    BY <1>1, <2>1
<1>3. \A k \in 1 .. height, n \in Nat : G[<<k, n>>] = IF k = 1 THEN e.top ELSE NextVisible(e, n)
  OBVIOUS
<1> HIDE DEF G
<1>4. 0 \in Nat
  OBVIOUS
<1>5. PICK zero : zero = 0
  OBVIOUS
<1>6. PICK f \in [0 .. height -> Nat] : Steps(f, G, zero, height)
  BY <1>2, <1>4, <1>5, StepsExist
<1>7. \A k \in 1 .. height : f[k - 1] \in Nat /\ f[k] \in Nat
  BY <1>6
<1>8. \A k \in 1 .. height : f[k] = IF k = 1 THEN e.top ELSE NextVisible(e, f[k - 1])
  BY <1>3, <1>6, <1>7 DEF Steps
<1> DEFINE F(line) == [k \in 1 .. height |-> IF k = 1 THEN e.top ELSE NextVisible(e, line[k - 1])]
<1> DEFINE g == [k \in 1 .. height |-> f[k]]
<1>9. g = F(g)
  <2>1. \A k \in 1 .. height : g[k] = f[k]
    OBVIOUS
  <2>2. \A k \in 1 .. height : g[k] = IF k = 1 THEN e.top ELSE NextVisible(e, g[k - 1])
    <3>1. ASSUME NEW k \in 1 .. height, k # 1
          PROVE  k - 1 \in 1 .. height
      BY <3>1
    <3> HIDE DEF g
    <3> QED
      BY <1>8, <2>1, <3>1
  <2>3. g = [k \in 1 .. height |-> g[k]]
    OBVIOUS
  <2> HIDE DEF g
  <2> QED
    BY <2>2, <2>3
<1> HIDE DEF g
<1> DEFINE h == CHOOSE line : line = F(line)
<1>10. h = F(h)
  <2> HIDE DEF F
  <2> QED
    BY <1>9, Zenon
<1>11. LinesFrom(e, height) = h
  BY Zenon DEF LinesFrom
<1>12. h = [k \in 1 .. height |-> h[k]] /\ \A k \in 1 .. height : h[k] = IF k = 1 THEN e.top ELSE NextVisible(e, h[k - 1])
  <2> HIDE DEF h
  <2>1. h = [k \in 1 .. height |-> IF k = 1 THEN e.top ELSE NextVisible(e, h[k - 1])]
    BY <1>10
  <2> QED
    BY <2>1
<1> HIDE DEF h, F
<1> DEFINE T == {n \in Nat : n + 1 <= height => h[n + 1] \in Nat}
<1>13. 0 \in T
  <2>1. SUFFICES ASSUME 1 <= height
                 PROVE  h[1] \in Nat
    OBVIOUS
  <2>2. 1 \in 1 .. height
    BY <2>1
  <2> QED
    BY <1>1, <1>12, <2>2
<1>14. ASSUME NEW n \in Nat, n \in T
       PROVE  n + 1 \in T
  <2>1. SUFFICES ASSUME (n + 1) + 1 <= height
                 PROVE  h[(n + 1) + 1] \in Nat
    OBVIOUS
  <2>2. h[n + 1] \in Nat
    BY <1>14, <2>1
  <2>3. PICK k : k = (n + 1) + 1 /\ k \in 1 .. height /\ k # 1 /\ k - 1 = n + 1
    BY <2>1
  <2>4. PICK x \in Nat : x = h[n + 1]
    BY <2>2
  <2>5. h[k] = NextVisible(e, x)
    BY <1>12, <2>3, <2>4
  <2>6. x \in Int /\ x >= -1
    OBVIOUS
  <2>7. NextVisible(e, x) \in Nat
    BY <2>6, NextVisibleIs DEF IsNextVisible
  <2> QED
    BY <2>3, <2>5, <2>7
<1>15. \A n \in Nat : n \in T
  <2> HIDE DEF T
  <2> QED
    BY <1>13, <1>14, Counting
<1>16. \A k \in 1 .. height : h[k] \in Nat
  <2>1. ASSUME NEW k \in 1 .. height
        PROVE  h[k] \in Nat
    <3>1. PICK n \in Nat : n = k - 1 /\ n + 1 = k /\ n + 1 <= height
      OBVIOUS
    <3> QED
      BY <1>15, <3>1
  <2> QED
    BY <2>1
<1>17. h \in [1 .. height -> Nat]
  BY <1>12, <1>16
<1> QED
  BY <1>11, <1>12, <1>17 DEF Lined

\* A visible line that is in a pane is drawn in the row where the lines above it end.
LEMMA LinesReach ==
  ASSUME NEW S, NEW e \in Panes(S), NEW height \in Nat, NEW row \in Nat, e.top <= row, ~Hidden(e, row),
         VisibleFrom(e, e.top, row) < height
  PROVE  VisibleFrom(e, e.top, row) + 1 \in 1 .. height /\ LinesFrom(e, height)[VisibleFrom(e, e.top, row) + 1] = row
<1>1. PICK top \in Nat : top = e.top
  BY DEF Panes
<1>2. PICK v \in Nat : v = VisibleFrom(e, top, row)
  BY RowsAre
<1>3. PICK f : f = LinesFrom(e, height) /\ Lined(f, e, height)
  BY LinesAre
<1> DEFINE T == {n \in Nat : n <= v => /\ f[n + 1] \in Nat /\ f[n + 1] <= row
                                       /\ VisibleFrom(e, f[n + 1], row) = v - n}
<1>4. 0 \in T
  <2>1. 1 \in 1 .. height
    BY <1>1, <1>2
  <2>2. f[1] = top
    BY <1>1, <1>3, <2>1 DEF Lined
  <2> QED
    BY <1>1, <1>2, <2>2
<1>5. ASSUME NEW n \in Nat, n \in T
      PROVE  n + 1 \in T
  <2>1. SUFFICES ASSUME n + 1 <= v
                 PROVE  /\ f[(n + 1) + 1] \in Nat /\ f[(n + 1) + 1] <= row
                        /\ VisibleFrom(e, f[(n + 1) + 1], row) = v - (n + 1)
    OBVIOUS
  <2>2. PICK x \in Nat : x = f[n + 1] /\ x <= row /\ VisibleFrom(e, x, row) = v - n
    BY <1>5, <2>1
  <2>3. x # row
    <3>1. \A y \in Nat : VisibleFrom(e, y, y) = 0
      <4>1. \A a, b \in Nat : a >= b => VisibleFrom(e, a, b) = 0
        BY RowsAre
      <4>2. \A y \in Nat : y >= y
        OBVIOUS
      <4> QED
        BY <4>1, <4>2
    <3> QED
      BY <2>1, <2>2, <3>1
  <2>4. x < row
    BY <2>2, <2>3
  <2>5. PICK y : y = NextVisible(e, x)
    OBVIOUS
  <2>6. y \in Nat /\ y <= row /\ VisibleFrom(e, x, row) = 1 + VisibleFrom(e, y, row)
    BY <2>4, <2>5, VisibleStep
  <2>7. PICK k : k = (n + 1) + 1 /\ k \in 1 .. height /\ k # 1 /\ k - 1 = n + 1
    BY <1>1, <1>2, <2>1
  <2>8. f[k] = y
    BY <1>3, <2>2, <2>5, <2>7 DEF Lined
  <2>9. VisibleFrom(e, y, row) \in Nat
    BY <2>6, RowsAre
  <2>10. VisibleFrom(e, y, row) = v - (n + 1)
    BY <2>2, <2>6, <2>9
  <2> QED
    BY <2>6, <2>7, <2>8, <2>10
<1>6. \A n \in Nat : n \in T
  <2> HIDE DEF T
  <2> QED
    BY <1>4, <1>5, Counting
<1>7. PICK x \in Nat : x = f[v + 1] /\ x <= row /\ VisibleFrom(e, x, row) = 0
  <2>1. v \in T /\ v <= v
    BY <1>6
  <2>2. f[v + 1] \in Nat /\ f[v + 1] <= row /\ VisibleFrom(e, f[v + 1], row) = v - v
    BY <2>1
  <2> QED
    BY <2>2
<1>8. x = row
  BY <1>7, RowsToGo
<1>9. v + 1 \in 1 .. height
  BY <1>1, <1>2
<1> QED
  BY <1>1, <1>2, <1>3, <1>7, <1>8, <1>9

-----------------------------------------------------------------------------
(* The columns of a line.                                                  *)

\* The hints at a byte.
HintsAt(e, b) == Cardinality({h \in e.hints : h = b})

\* They are finitely many, and those between a byte and itself.
LEMMA HintsAtAre ==
  ASSUME NEW e, NEW b \in Nat, e.hints \subseteq Nat
  PROVE  HintsAt(e, b) \in Nat /\ IsFiniteSet({h \in e.hints : h = b}) /\ HintWidth(e, b, b) = HintsAt(e, b)
<1> DEFINE H == {h \in e.hints : h = b}
<1>1. H \subseteq {b} /\ IsFiniteSet({b})
  BY FS_Singleton
<1>2. IsFiniteSet(H)
  BY <1>1, FS_Subset
<1>3. {h \in e.hints : b <= h /\ h <= b} = H
  OBVIOUS
<1> HIDE DEF H
<1>4. Cardinality(H) \in Nat
  BY <1>2, FS_CardinalityType
<1> QED
  BY <1>2, <1>3, <1>4 DEF H, HintsAt, HintWidth

\* Hints stand before characters: from one character to the next come those at the next.
LEMMA HintStep ==
  ASSUME NEW S, NEW t \in Seq(S), NEW e, e.hints \subseteq Boundaries(t), NEW lo \in Nat, NEW k \in Nat, k + 1 <= Len(t),
         lo <= ByteOf(t, k)
  PROVE  HintWidth(e, lo, ByteOf(t, k + 1)) = HintWidth(e, lo, ByteOf(t, k)) + HintsAt(e, ByteOf(t, k + 1))
<1>1. PICK a, b : a = ByteOf(t, k) /\ b = ByteOf(t, k + 1) /\ a \in Nat /\ b \in Nat /\ a < b
  <2>1. ByteOf(t, k) \in Nat /\ ByteOf(t, k + 1) = ByteOf(t, k) + (IF t[k + 1] = "w" THEN 3 ELSE 1)
    BY ByteStep
  <2> QED
    BY <2>1
<1>2. Len(t) \in Nat
  BY LenProperties
<1>3. ASSUME NEW h \in e.hints
      PROVE  h \in Nat /\ (h <= a \/ h >= b)
  <2>1. PICK i \in 0 .. Len(t) : h = ByteOf(t, i)
    BY DEF Boundaries
  <2>2. i \in Nat
    BY <1>2
  <2>3. h \in Nat
    BY <2>1, <2>2, ByteStep
  <2>4. CASE i <= k
    <3>1. ByteOf(t, k) >= ByteOf(t, i) + (k - i)
      BY <2>2, <2>4, BytesIncrease
    <3>2. PICK x \in Nat : x = ByteOf(t, i)
      BY <2>1, <2>3
    <3> QED
      BY <1>1, <2>1, <2>2, <2>4, <3>1, <3>2
  <2>5. CASE ~(i <= k)
    <3>1. PICK m \in Nat : m = k + 1 /\ m <= i
      BY <2>2, <2>5
    <3>2. ByteOf(t, i) >= ByteOf(t, m) + (i - m)
      BY <2>2, <3>1, BytesIncrease
    <3>3. b = ByteOf(t, m)
      BY <1>1, <3>1
    <3> QED
      BY <1>1, <2>1, <2>2, <2>3, <3>1, <3>2, <3>3
  <2> QED
    BY <2>3, <2>4, <2>5
<1>4. e.hints \subseteq Nat
  BY <1>3
<1> DEFINE A == {h \in e.hints : lo <= h /\ h <= a}
           B == {h \in e.hints : h = b}
           C == {h \in e.hints : lo <= h /\ h <= b}
<1>5. C = A \cup B
  <2>1. ASSUME NEW h \in C
        PROVE  h \in A \cup B
    BY <1>1, <1>3
  <2>2. ASSUME NEW h \in A \cup B
        PROVE  h \in C
    <3>1. CASE h \in A
      BY <1>1, <1>3, <3>1
    <3>2. CASE h \in B
      BY <1>1, <1>3, <3>2
    <3> QED
      BY <3>1, <3>2
  <2> HIDE DEF A, B, C
  <2> QED
    BY <2>1, <2>2
<1>6. A \cap B = {}
  BY <1>1, <1>3
<1>7. IsFiniteSet(A) /\ IsFiniteSet(B)
  BY <1>1, <1>4, HintsAre, HintsAtAre
<1> HIDE DEF A, B, C
<1>8. Cardinality(A \cup B) = Cardinality(A) + Cardinality(B) - Cardinality(A \cap B)
  BY <1>7, FS_Union
<1>9. Cardinality(A \cap B) = 0 /\ Cardinality(A) \in Nat /\ Cardinality(B) \in Nat
  BY <1>6, <1>7, FS_EmptySet, FS_CardinalityType
<1>10. Cardinality(C) = Cardinality(A) + Cardinality(B)
  BY <1>5, <1>8, <1>9
<1>11. HintWidth(e, lo, b) = Cardinality(C) /\ HintWidth(e, lo, a) = Cardinality(A) /\ HintsAt(e, b) = Cardinality(B)
  BY DEF HintWidth, HintsAt, A, B, C
<1> QED
  BY <1>1, <1>10, <1>11

\* What stands before each character of a line: the characters before it, and the hints up to it.
Columned(f, t, e, s, len) ==
  /\ f[0] = HintsAt(e, ByteOf(t, s))
  /\ \A k \in 1 .. len : f[k] = f[k - 1] + Cells(t[s + k]) + HintsAt(e, ByteOf(t, s + k))

\* The columns of a line are what stands before its characters.
LEMMA ColumnsAre ==
  ASSUME NEW S, NEW P, NEW d \in DocsOf(S, P), NEW e \in Panes(S), NEW s, NEW n, AtCursor(d, e.view, s, n),
         NEW len \in Nat, len = Len(LineText(d, Row(d, e.view)))
  PROVE  Columned(ColumnsOf(d, e, Row(d, e.view)), d.text, e, s, len)
<1>1. PICK t, row, l : t = d.text /\ row = Row(d, e.view) /\ l = LineText(d, row) /\ len = Len(l)
  OBVIOUS
<1>2. s \in Nat /\ s = LineStart(d, row)
  BY <1>1 DEF AtCursor
<1>3. e.hints \subseteq Nat
  BY DEF Panes
<1>4. \A k \in Nat : HintsAt(e, ByteOf(t, s + k)) \in Nat /\ HintsAt(e, ByteOf(t, s)) \in Nat
  <2>1. \A b \in Nat : HintsAt(e, b) \in Nat
    BY <1>3, HintsAtAre
  <2>2. \A k \in Nat : s + k \in Nat
    BY <1>2
  <2> QED
    BY <1>2, <2>1, <2>2, ByteStep
<1>5. \A c : Cells(c) \in Nat
  BY DEF Cells
<1> DEFINE hint(i) == Cardinality({h \in e.hints : h = ByteOf(d.text, i)})
           start == LineStart(d, row)
           G == [p \in (1 .. len) \X Nat |-> p[2] + Cells(t[s + p[1]]) + HintsAt(e, ByteOf(t, s + p[1]))]
<1>6. G \in [(1 .. len) \X Nat -> Nat]
  <2>1. \A k \in 1 .. len, x \in Nat : x + Cells(t[s + k]) + HintsAt(e, ByteOf(t, s + k)) \in Nat
    <3>1. ASSUME NEW k \in 1 .. len, NEW x \in Nat
          PROVE  x + Cells(t[s + k]) + HintsAt(e, ByteOf(t, s + k)) \in Nat
      <4>1. PICK a \in Nat : a = Cells(t[s + k])
        BY <1>5
      <4>2. PICK b \in Nat : b = HintsAt(e, ByteOf(t, s + k))
        BY <1>4
      <4> QED
        BY <4>1, <4>2
    <3> QED
      BY <3>1
  <2> QED
    BY <2>1
<1>7. \A k \in 1 .. len, x \in Nat : G[<<k, x>>] = x + Cells(t[s + k]) + HintsAt(e, ByteOf(t, s + k))
  OBVIOUS
<1> HIDE DEF G
<1>8. PICK first \in Nat : first = HintsAt(e, ByteOf(t, s))
  BY <1>4
<1>9. PICK f \in [0 .. len -> Nat] : Steps(f, G, first, len)
  BY <1>6, StepsExist
<1>10. f[0] = first /\ \A k \in 1 .. len : f[k] = f[k - 1] + Cells(t[s + k]) + HintsAt(e, ByteOf(t, s + k))
  <2>1. \A k \in 1 .. len : f[k - 1] \in Nat
    BY <1>9
  <2> QED
    BY <1>7, <1>9, <2>1 DEF Steps
<1> DEFINE F(col) == [m \in 0..Len(LineText(d, row)) |->
              IF m = 0 THEN hint(start) ELSE col[m - 1] + Cells(d.text[start + m]) + hint(start + m)]
<1>11. start = s /\ \A i : hint(i) = HintsAt(e, ByteOf(t, i))
  BY <1>1, <1>2 DEF HintsAt
<1>12. \A col : F(col) = [m \in 0 .. len |->
              IF m = 0 THEN first ELSE col[m - 1] + Cells(t[s + m]) + HintsAt(e, ByteOf(t, s + m))]
  <2> HIDE DEF hint, start
  <2> QED
    BY <1>1, <1>8, <1>11
<1>13. f = F(f)
  <2>1. f = [m \in 0 .. len |-> f[m]]
    BY <1>9
  <2>2. \A m \in 0 .. len : f[m] = IF m = 0 THEN first ELSE f[m - 1] + Cells(t[s + m]) + HintsAt(e, ByteOf(t, s + m))
    <3>1. \A m \in 0 .. len : m # 0 => m \in 1 .. len
      OBVIOUS
    <3> QED
      BY <1>10, <3>1
  <2>3. f = [m \in 0 .. len |-> IF m = 0 THEN first ELSE f[m - 1] + Cells(t[s + m]) + HintsAt(e, ByteOf(t, s + m))]
    BY <2>1, <2>2
  <2> HIDE DEF F
  <2> QED
    BY <1>12, <2>3
<1> DEFINE g == CHOOSE col : col = F(col)
<1>14. g = F(g)
  <2> HIDE DEF F
  <2> QED
    BY <1>13, Zenon
<1>15. ColumnsOf(d, e, row) = g
  BY Zenon DEF ColumnsOf
<1>16. g = [m \in 0 .. len |-> IF m = 0 THEN first ELSE g[m - 1] + Cells(t[s + m]) + HintsAt(e, ByteOf(t, s + m))]
  <2> HIDE DEF F, g
  <2> QED
    BY <1>12, <1>14
<1> HIDE DEF g, F
<1>17. \A m \in 0 .. len : g[m] = IF m = 0 THEN first ELSE g[m - 1] + Cells(t[s + m]) + HintsAt(e, ByteOf(t, s + m))
  BY <1>16
<1>18. Columned(g, t, e, s, len)
  <2>1. 0 \in 0 .. len /\ \A m \in 1 .. len : m \in 0 .. len /\ m # 0
    OBVIOUS
  <2> QED
    BY <1>8, <1>17, <2>1 DEF Columned
<1> QED
  BY <1>1, <1>15, <1>18

\* The column of the cursor is where the character under it is drawn.
LEMMA ColumnsReach ==
  ASSUME NEW S, NEW P, NEW d \in DocsOf(S, P), NEW e \in Panes(S), e.hints \subseteq Boundaries(d.text)
  PROVE  ColumnsOf(d, e, Row(d, e.view))[Column(d, e.view)] = CursorColumn(d, e)
<1>1. e.view \in ViewRecords /\ e.hints \subseteq Nat
  BY DEF Panes
<1>2. PICK s, n : AtCursor(d, e.view, s, n)
  BY <1>1, CursorIsAt
<1>3. PICK t \in Seq(S) : t = d.text
  BY DEF DocsOf
<1>4. PICK l : /\ l = LineText(d, Row(d, e.view)) /\ l \in Seq(S) /\ Len(l) = LineEnd(t, s) - s
               /\ \A i \in 1 .. Len(l) : l[i] = t[s + i]
  BY <1>1, <1>2, <1>3, LineTextIs
<1>5. PICK len \in Nat : len = Len(l)
  BY <1>4, LenProperties
<1>6. PICK m \in Nat : m = n - s /\ m = Column(d, e.view) /\ m <= len /\ n = s + m
  BY <1>2, <1>3, <1>4, <1>5 DEF AtCursor
<1>7. s \in Nat /\ Len(t) \in Nat /\ s + len <= Len(t)
  BY <1>2, <1>3, <1>4, <1>5 DEF AtCursor
<1>8. PICK col : col = ColumnsOf(d, e, Row(d, e.view)) /\ Columned(col, t, e, s, len)
  BY <1>2, <1>3, <1>4, <1>5, ColumnsAre
<1>9. PICK lo \in Nat : lo = ByteOf(t, s)
  BY <1>7, ByteStep
<1> DEFINE T == {k \in Nat : k <= len => col[k] = k + CountOf(l, k, "w") + HintWidth(e, lo, ByteOf(t, s + k))}
<1>10. 0 \in T
  <2>1. CountOf(l, 0, "w") = 0
    BY CountStep
  <2>2. HintWidth(e, lo, ByteOf(t, s + 0)) = HintsAt(e, lo) /\ HintsAt(e, lo) \in Nat
    <3>1. s + 0 = s
      BY <1>7
    <3> QED
      BY <1>1, <1>9, <3>1, HintsAtAre
  <2>3. col[0] = HintsAt(e, lo)
    BY <1>8, <1>9 DEF Columned
  <2> QED
    BY <2>1, <2>2, <2>3
<1>11. ASSUME NEW k \in Nat, k \in T
       PROVE  k + 1 \in T
  <2>1. SUFFICES ASSUME k + 1 <= len
                 PROVE  col[k + 1] = (k + 1) + CountOf(l, k + 1, "w") + HintWidth(e, lo, ByteOf(t, s + (k + 1)))
    OBVIOUS
  <2>2. col[k] = k + CountOf(l, k, "w") + HintWidth(e, lo, ByteOf(t, s + k))
    BY <1>11, <2>1
  <2>3. PICK a \in Nat : a = s + k /\ a + 1 = s + (k + 1) /\ a + 1 <= Len(t)
    BY <1>5, <1>7, <2>1
  <2>4. PICK c \in Nat : c = CountOf(l, k, "w")
    BY CountStep
  <2>5. PICK w, x : /\ w = HintWidth(e, lo, ByteOf(t, a)) /\ x = HintsAt(e, ByteOf(t, a + 1)) /\ w \in Nat /\ x \in Nat
    <3>1. ByteOf(t, a) \in Nat /\ ByteOf(t, a + 1) \in Nat
      BY <2>3, ByteStep
    <3> QED
      BY <1>1, <3>1, HintsAre, HintsAtAre
  <2>6. HintWidth(e, lo, ByteOf(t, a + 1)) = w + x
    <3>1. lo <= ByteOf(t, a)
      <4>1. s <= a
        BY <1>7, <2>3
      <4>2. ByteOf(t, a) >= ByteOf(t, s) + (a - s) /\ ByteOf(t, a) \in Nat
        BY <1>7, <2>3, <4>1, BytesIncrease, ByteStep
      <4> QED
        BY <1>7, <1>9, <2>3, <4>1, <4>2
    <3>2. e.hints \subseteq Boundaries(t)
      BY <1>3
    <3> QED
      BY <2>3, <2>5, <3>1, <3>2, HintStep
  <2>7. PICK i : i = k + 1 /\ i \in 1 .. len /\ i - 1 = k
    BY <2>1
  <2>8. col[i] = col[k] + Cells(t[s + i]) + x
    BY <1>8, <2>3, <2>5, <2>7 DEF Columned
  <2>9. t[s + i] = l[i]
    BY <1>4, <1>5, <2>7
  <2>10. PICK v \in Nat : v = IF l[i] = "w" THEN 1 ELSE 0
    OBVIOUS
  <2>15. CountOf(l, i, "w") = c + v
    <3>1. CountOf(l, k + 1, "w") = CountOf(l, k, "w") + (IF l[k + 1] = "w" THEN 1 ELSE 0)
      BY CountStep
    <3> QED
      BY <2>4, <2>7, <2>10, <3>1
  <2>11. Cells(l[i]) = 1 + v
    BY <2>10 DEF Cells
  <2>12. col[k] = k + c + w
    BY <2>2, <2>3, <2>4, <2>5
  <2>13. col[i] = (k + c + w) + (1 + v) + x
    BY <2>8, <2>9, <2>11, <2>12
  <2>14. col[i] = (k + 1) + CountOf(l, i, "w") + (w + x)
    <3>1. (k + c + w) + (1 + v) + x = (k + 1) + (c + v) + (w + x)
      <4>1. k \in Nat /\ c \in Nat /\ w \in Nat /\ v \in Nat /\ x \in Nat
        BY <1>11, <2>4, <2>5, <2>10
      <4> HIDE DEF T
      <4> QED
        BY <4>1
    <3> QED
      BY <2>13, <2>15, <3>1
  <2> QED
    BY <2>3, <2>6, <2>7, <2>14
<1>12. \A k \in Nat : k \in T
  <2> HIDE DEF T
  <2> QED
    BY <1>10, <1>11, Counting
<1>13. col[m] = m + CountOf(l, m, "w") + HintWidth(e, lo, ByteOf(t, s + m))
  BY <1>6, <1>12
<1>14. CursorColumn(d, e) = ColumnAt(d, e, s, n)
  BY <1>2, ColumnIs
<1>15. ColumnAt(d, e, s, n) = m + CountOf(l, m, "w") + HintWidth(e, lo, ByteOf(t, s + m))
  BY <1>3, <1>4, <1>6, <1>9 DEF ColumnAt
<1> QED
  BY <1>6, <1>8, <1>13, <1>14, <1>15

-----------------------------------------------------------------------------
(* The cursor is drawn on its character.                                   *)

\* An editor that one pane alone shows is drawn once, in the rectangle of that pane.
LEMMA DrawnOnce ==
  ASSUME WorkspaceOk, NEW r, r = PaneRects[focused + 1],
         \A m \in 0 .. LeafCount(root) - 1 : m # focused => NthEditor(root, m) # ActiveIndex
  PROVE  Rendered[ActiveIndex] = RenderIn(ActiveDoc, Active, r.w, r.h)
<1>1. PICK i : i = ActiveIndex /\ i \in 1 .. Len(editors) /\ root[focused + 1].editor = i
  BY ActiveIs DEF ActiveIndex, NthEditor
<1>2. PICK f : IsDrawing(f) /\ Rendered = f[Len(root)]
  BY DrawingIs
<1>3. PICK N, at : /\ N = Len(root) /\ N = LeafCount(root) /\ at = focused + 1 /\ N \in Nat /\ at \in Nat
                   /\ 1 <= at /\ at <= N /\ focused = at - 1 /\ focused \in Nat
  BY ActiveIs
<1>4. \A n \in 1 .. N : n # at => root[n].editor # i
  <2>1. ASSUME NEW n \in 1 .. N, n # at
        PROVE  root[n].editor # i
    <3>1. PICK m : m = n - 1 /\ m \in 0 .. LeafCount(root) - 1 /\ m # focused /\ m + 1 = n
      BY <1>3, <2>1
    <3>2. NthEditor(root, m) # ActiveIndex
      BY <3>1
    <3>3. NthEditor(root, m) = root[m + 1].editor
      BY DEF NthEditor
    <3> QED
      BY <1>1, <3>1, <3>2, <3>3
  <2> QED
    BY <2>1
<1>5. \A n \in 1 .. N : IsDrawn(f[n], n, f[n - 1])
  <2>1. ASSUME NEW n \in 1 .. N
        PROVE  IsDrawn(f[n], n, f[n - 1])
    <3>1. n - 1 \in 0 .. Len(root) /\ n \in 1 .. Len(root)
      BY <1>3
    <3>2. f[n - 1] \in Drawings
      BY <1>2, <3>1 DEF IsDrawing
    <3>3. f[n] = Drawn(n, f[n - 1])
      BY <1>2, <3>1 DEF IsDrawing
    <3>4. IsDrawn(Drawn(n, f[n - 1]), n, f[n - 1])
      BY <3>1, <3>2, DrawnIs
    <3> QED
      BY <3>3, <3>4
  <2> QED
    BY <2>1
<1>6. PICK a : a = RenderIn(ActiveDoc, Active, r.w, r.h)
  OBVIOUS
<1>7. \A n \in 1 .. N : f[n][i] = IF n = at THEN RenderIn(docs[f[n - 1][i].doc], f[n - 1][i], r.w, r.h) ELSE f[n - 1][i]
  <2>1. ASSUME NEW n \in 1 .. N
        PROVE  f[n][i] = IF n = at THEN RenderIn(docs[f[n - 1][i].doc], f[n - 1][i], r.w, r.h) ELSE f[n - 1][i]
    <3>1. f[n][i] = IF i = root[n].editor THEN RenderIn(docs[f[n - 1][i].doc], f[n - 1][i], PaneRects[n].w, PaneRects[n].h)
                                          ELSE f[n - 1][i]
      BY <1>1, <1>5 DEF IsDrawn
    <3>2. CASE n = at
      BY <1>1, <1>3, <3>1, <3>2
    <3>3. CASE n # at
      BY <1>4, <3>1, <3>3
    <3> QED
      BY <3>2, <3>3
  <2> QED
    BY <2>1
<1> DEFINE T == {n \in Nat : n <= N => f[n][i] = IF n < at THEN Active ELSE a}
<1>8. 0 \in T
  BY <1>1, <1>2, <1>3, ActiveIs DEF IsDrawing
<1>9. ASSUME NEW n \in Nat, n \in T
      PROVE  n + 1 \in T
  <2>1. SUFFICES ASSUME n + 1 <= N
                 PROVE  f[n + 1][i] = IF n + 1 < at THEN Active ELSE a
    OBVIOUS
  <2>2. f[n][i] = IF n < at THEN Active ELSE a
    BY <1>3, <1>9, <2>1
  <2>3. PICK k : k = n + 1 /\ k \in 1 .. N /\ k - 1 = n
    BY <1>3, <2>1
  <2>4. f[k][i] = IF k = at THEN RenderIn(docs[f[n][i].doc], f[n][i], r.w, r.h) ELSE f[n][i]
    BY <1>7, <2>3
  <2>5. CASE k = at
    <3>1. n < at /\ ~(k < at)
      BY <1>3, <2>3, <2>5
    <3>2. f[n][i] = Active
      BY <2>2, <3>1
    <3>3. f[k][i] = RenderIn(docs[Active.doc], Active, r.w, r.h)
      BY <2>4, <2>5, <3>2
    <3> QED
      BY <1>6, <2>3, <3>1, <3>3, ActiveIs
  <2>6. CASE k # at
    <3>1. (n < at) <=> (k < at)
      BY <1>3, <2>3, <2>6
    <3> QED
      BY <2>2, <2>3, <2>4, <2>6, <3>1
  <2> QED
    BY <2>5, <2>6
<1>10. \A n \in Nat : n \in T
  <2> HIDE DEF T
  <2> QED
    BY <1>8, <1>9, Counting
<1>11. f[N][i] = a
  BY <1>3, <1>10
<1> QED
  BY <1>1, <1>2, <1>3, <1>6, <1>11

\* A cursor that is in view is drawn where it is.
LEMMA CursorIsShown ==
  ASSUME NEW S, NEW P, NEW d \in DocsOf(S, P), NEW e \in Panes(S), NEW w \in Nat, NEW h \in Nat,
         w > Gutter(d), InView(e, d, e, h, w - Gutter(d)), ~Hidden(e, Row(d, e.view)),
         NEW at, at = CursorScreenPosition(d, e, w, h)
  PROVE  /\ at = <<CursorColumn(d, e) - e.left, VisibleFrom(e, e.top, Row(d, e.view))>>
         /\ e.top <= Row(d, e.view) /\ VisibleFrom(e, e.top, Row(d, e.view)) < h
<1>1. e.view \in ViewRecords /\ e.top \in Nat /\ e.left \in Nat
  BY DEF Panes
<1>2. PICK row \in Nat : row = Row(d, e.view)
  BY <1>1, RowIs
<1>3. PICK g \in Nat : g = Gutter(d)
  BY DEF Gutter
<1>4. PICK cols \in Nat : cols = w - g /\ cols > 0
  BY <1>3
<1>5. Larger(w - Gutter(d), 0) = cols
  BY <1>3, <1>4 DEF Larger
<1>6. PICK col \in Nat : col = CursorColumn(d, e)
  <2>1. PICK s, n : AtCursor(d, e.view, s, n)
    BY <1>1, CursorIsAt
  <2> QED
    BY <2>1, ColumnIs
<1>7. InView(e, d, e, h, cols)
  BY <1>3, <1>4
<1>8. e.top <= row /\ VisibleFrom(e, e.top, row) < h
  BY <1>2, <1>7 DEF InView
<1>9. e.left <= col /\ col - e.left < cols
  BY <1>4, <1>6, <1>7 DEF InView
<1>10. PICK v \in Nat : v = VisibleFrom(e, e.top, row) /\ v = VisibleRowsTo(e, row)
  BY <1>1, RowsAre DEF VisibleRowsTo
<1>11. PICK x \in Nat : x = col - e.left /\ x < cols
  BY <1>1, <1>9
<1>12. ~(row < e.top \/ VisibleRowsTo(e, row) >= h \/ x < 0 \/ x >= Larger(w - Gutter(d), 0))
  BY <1>1, <1>5, <1>8, <1>10, <1>11
<1>13. at = IF row < e.top \/ VisibleRowsTo(e, row) >= h \/ x < 0 \/ x >= Larger(w - Gutter(d), 0) THEN <<>>
            ELSE <<x, VisibleRowsTo(e, row)>>
  BY <1>2, <1>6, <1>11 DEF CursorScreenPosition
<1>14. at = <<x, v>>
  BY <1>10, <1>12, <1>13
<1> QED
  BY <1>2, <1>6, <1>8, <1>10, <1>11, <1>14

\* The row a pane shows a line in.
LEMMA RowIsShown ==
  ASSUME NEW d, NEW e, NEW h \in Nat, NEW k \in 1 .. h, LinesFrom(e, h)[k] <= LastRow(d)
  PROVE  RenderLines(d, e, h)[k] = LinesFrom(e, h)[k]
  BY DEF RenderLines

\* A cursor is drawn on the cell where the character under it is drawn.
LEMMA CursorSits ==
  ASSUME WorkspaceOk
  PROVE  CursorSitsOnItsCharacter
<1>1. SUFFICES ASSUME NEW e, e = Rendered[ActiveIndex], NEW r, r = PaneRects[focused + 1],
                      NEW at, at = CursorScreenPosition(ActiveDoc, e, r.w, r.h),
                      r.w > Gutter(ActiveDoc), r.h > 0, ~Hidden(e, Row(ActiveDoc, e.view)),
                      e.hints \subseteq Boundaries(ActiveDoc.text),
                      \A m \in 0..LeafCount(root) - 1 : m # focused => NthEditor(root, m) # ActiveIndex
               PROVE  /\ at # <<>>
                      /\ RenderLines(ActiveDoc, e, r.h)[at[2] + 1] = Row(ActiveDoc, e.view)
                      /\ ColumnsOf(ActiveDoc, e, Row(ActiveDoc, e.view))[Column(ActiveDoc, e.view)] = at[1] + e.left
  BY DEF CursorSitsOnItsCharacter
<1>2. PICK d : d = ActiveDoc /\ d \in DocsOf(Glyphs, FilePaths)
  BY ActiveIs
<1>3. PICK w, h : w = r.w /\ h = r.h /\ w \in Nat /\ h \in Nat
  <2>1. focused + 1 \in 1 .. Len(root)
    BY ActiveIs
  <2>2. PaneRects[focused + 1].w \in Nat /\ PaneRects[focused + 1].h \in Nat
    BY <2>1, PaneRectsAre
  <2> QED
    BY <1>1, <2>2
<1>4. e = RenderIn(d, Active, w, h)
  BY <1>1, <1>2, <1>3, DrawnOnce
<1>5. /\ e \in Panes(Glyphs) /\ Unmoved(e, Active)
      /\ (w > Gutter(d) /\ h > 0) => InView(e, d, Active, h, w - Gutter(d))
  <2>1. Active \in Panes(Glyphs)
    BY ActiveIs
  <2> QED
    BY <1>2, <1>3, <1>4, <2>1, RenderedIs
<1>6. InView(e, d, e, h, w - Gutter(d))
  <2>1. InView(e, d, Active, h, w - Gutter(d))
    BY <1>1, <1>2, <1>3, <1>5
  <2>2. e.view = Active.view /\ e.hints = Active.hints /\ e.folds = Active.folds /\ e.folded = Active.folded
    BY <1>5 DEF Unmoved
  <2>3. (\A n : Hidden(e, n) <=> Hidden(Active, n)) /\ \A from, line : VisibleFrom(e, from, line) = VisibleFrom(Active, from, line)
    BY <2>2, SameFolds
  <2>4. CursorColumn(d, e) = CursorColumn(d, Active)
    BY <2>2 DEF CursorColumn, HintWidth
  <2> QED
    BY <2>1, <2>2, <2>3, <2>4 DEF InView
<1>7. PICK row \in Nat : row = Row(d, e.view) /\ row <= LastRow(d)
  <2>1. e.view \in ViewRecords
    BY <1>5 DEF Panes
  <2>2. Row(d, e.view) \in 0 .. LastRow(d) /\ LastRow(d) \in Nat
    BY <1>2, <2>1, RowIs
  <2> QED
    BY <2>2
<1>8. PICK v, x : /\ v = VisibleFrom(e, e.top, row) /\ x = CursorColumn(d, e) - e.left
                  /\ at = <<x, v>> /\ e.top <= row /\ v < h
  <2>1. w > Gutter(d) /\ ~Hidden(e, Row(d, e.view)) /\ at = CursorScreenPosition(d, e, w, h)
    BY <1>1, <1>2, <1>3
  <2> QED
    BY <1>2, <1>3, <1>5, <1>6, <1>7, <2>1, CursorIsShown
<1>9. at # <<>> /\ at[1] = x /\ at[2] = v
  BY <1>8
<1>10. v + 1 \in 1 .. h /\ LinesFrom(e, h)[v + 1] = row
  <2>1. ~Hidden(e, row)
    BY <1>1, <1>2, <1>7
  <2> QED
    BY <1>3, <1>5, <1>7, <1>8, <2>1, LinesReach
<1>11. RenderLines(d, e, h)[v + 1] = row
  BY <1>3, <1>7, <1>10, RowIsShown
<1>12. ColumnsOf(d, e, Row(d, e.view))[Column(d, e.view)] = CursorColumn(d, e)
  <2>1. e.hints \subseteq Boundaries(d.text)
    BY <1>1, <1>2
  <2> QED
    BY <1>2, <1>5, <2>1, ColumnsReach
<1>13. x + e.left = CursorColumn(d, e)
  <2>1. e.view \in ViewRecords /\ e.left \in Nat
    BY <1>5 DEF Panes
  <2>2. PICK s, n : AtCursor(d, e.view, s, n)
    BY <1>2, <2>1, CursorIsAt
  <2>3. PICK col \in Nat : col = CursorColumn(d, e)
    BY <1>2, <1>5, <2>2, ColumnIs
  <2> QED
    BY <1>8, <2>1, <2>3
<1> QED
  BY <1>2, <1>3, <1>7, <1>9, <1>11, <1>12, <1>13

\* The windows are sound in everything that is done in a workspace.
THEOREM WindowsSound == WorkspaceSpec => []WindowsAreSound
<1>1. WorkspaceOk => WindowsAreSound
  BY PanesSound, SessionRestores, CursorSits DEF WindowsAreSound
<1> QED
  BY <1>1, WorkspaceIsOk, PTL

-----------------------------------------------------------------------------
(* Spans.                                                                  *)

\* One number is one, and two are two.
LEMMA OneAndTwo ==
  /\ Cardinality({1}) = 1 /\ Cardinality({2}) = 1 /\ Cardinality({1, 2}) = 2
<1>1. Cardinality({1}) = 1 /\ Cardinality({2}) = 1 /\ IsFiniteSet({1}) /\ IsFiniteSet({2})
  BY FS_Singleton
<1>2. Cardinality({1} \cup {2}) = Cardinality({1}) + Cardinality({2}) - Cardinality({1} \cap {2})
  BY <1>1, FS_Union
<1>3. {1} \cup {2} = {1, 2} /\ {1} \cap {2} = {}
  OBVIOUS
<1>4. Cardinality({1} \cap {2}) = 0
  BY <1>3, FS_EmptySet
<1> QED
  BY <1>1, <1>2, <1>3, <1>4

\* A layer of one span, sorted, is that layer.
LEMMA OneSorted ==
  ASSUME NEW s, s.start \in Int
  PROVE  SortedByStart(<<s>>) = <<s>>
<1>1. PICK m : m = <<s>>
  OBVIOUS
<1>2. DOMAIN m = {1} /\ m[1] = s /\ m = [n \in {1} |-> s]
  BY <1>1
<1> DEFINE C(j) == {i \in DOMAIN m : Precedes(m, i, j)}
           at(n) == CHOOSE j \in DOMAIN m : Cardinality(C(j)) = n
<1>3. SortedByStart(m) = [n \in DOMAIN m |-> m[at(n)]]
  BY DEF SortedByStart
<1>4. C(1) = {1}
  BY <1>2 DEF Precedes
<1>5. Cardinality(C(1)) = 1
  BY <1>4, OneAndTwo
<1> HIDE DEF C
<1>6. at(1) = 1
  BY <1>2, <1>5
<1> HIDE DEF at
<1>7. SortedByStart(m) = [n \in {1} |-> s]
  BY <1>2, <1>3, <1>6
<1> QED
  BY <1>1, <1>2, <1>7

\* Two spans in order of their starts.
InOrder(l, m) ==
  /\ DOMAIN l = 1 .. 2 /\ l[1].start <= l[2].start
  /\ l[1] \in {m[1], m[2]} /\ l[2] \in {m[1], m[2]}

\* A layer of two, sorted, is in order.
LEMMA TwoSorted ==
  ASSUME NEW m, DOMAIN m = 1 .. 2, m[1].start \in Int, m[2].start \in Int
  PROVE  InOrder(SortedByStart(m), m)
<1>1. DOMAIN m = {1, 2} /\ 1 .. 2 = {1, 2}
  OBVIOUS
<1> DEFINE C(j) == {i \in DOMAIN m : Precedes(m, i, j)}
           at(n) == CHOOSE j \in DOMAIN m : Cardinality(C(j)) = n
<1>2. \A n \in 1 .. 2 : SortedByStart(m)[n] = m[at(n)]
  BY DEF SortedByStart
<1>3. DOMAIN SortedByStart(m) = 1 .. 2
  BY DEF SortedByStart
<1>4. CASE m[1].start <= m[2].start
  <2>1. Precedes(m, 1, 1) /\ Precedes(m, 1, 2) /\ Precedes(m, 2, 2) /\ ~Precedes(m, 2, 1)
    BY <1>4 DEF Precedes
  <2>2. C(1) = {1} /\ C(2) = {1, 2}
    BY <1>1, <2>1
  <2>3. Cardinality(C(1)) = 1 /\ Cardinality(C(2)) = 2
    BY <2>2, OneAndTwo
  <2> HIDE DEF C
  <2>4. at(1) = 1 /\ at(2) = 2
    BY <1>1, <2>3
  <2> HIDE DEF at
  <2>5. SortedByStart(m)[1] = m[1] /\ SortedByStart(m)[2] = m[2]
    BY <1>2, <2>4
  <2> QED
    BY <1>3, <1>4, <2>5 DEF InOrder
<1>5. CASE ~(m[1].start <= m[2].start)
  <2>1. Precedes(m, 1, 1) /\ ~Precedes(m, 1, 2) /\ Precedes(m, 2, 2) /\ Precedes(m, 2, 1)
    BY <1>5 DEF Precedes
  <2>2. C(1) = {1, 2} /\ C(2) = {2}
    BY <1>1, <2>1
  <2>3. Cardinality(C(1)) = 2 /\ Cardinality(C(2)) = 1
    BY <2>2, OneAndTwo
  <2> HIDE DEF C
  <2>4. at(1) = 2 /\ at(2) = 1
    BY <1>1, <2>3
  <2> HIDE DEF at
  <2>5. SortedByStart(m)[1] = m[2] /\ SortedByStart(m)[2] = m[1]
    BY <1>2, <2>4
  <2> QED
    BY <1>3, <1>5, <2>5 DEF InOrder
<1> QED
  BY <1>4, <1>5

\* The spans of a text.
SpansOf(t) == {s \in [start : Boundaries(t), end : Boundaries(t), value : {"v"}] : s.start < s.end}

\* A layer of two spans stays sorted.
LEMMA LayerStays ==
  ASSUME NEW s, NEW r, s.start \in Nat, r.start \in Nat,
         NEW e, e.start \in Nat, e.oldLen \in Nat, e.newLen \in Nat,
         NEW l, l = RebaseLayer(InsertSpan(InsertSpan(<<>>, s), r), e)
  PROVE  l[1].start <= l[2].start
<1>1. InsertSpan(<<>>, s) = <<s>>
  <2>1. Append(<<>>, s) = <<s>>
    OBVIOUS
  <2> QED
    BY <2>1, OneSorted DEF InsertSpan
<1>2. PICK k : k = InsertSpan(<<s>>, r)
  OBVIOUS
<1>3. PICK two : two = Append(<<s>>, r) /\ DOMAIN two = 1 .. 2 /\ two[1] = s /\ two[2] = r
  <2>1. <<s>> \in Seq({s, r}) /\ Len(<<s>>) = 1 /\ <<s>>[1] = s
    OBVIOUS
  <2>2. PICK one, X : one = <<s>> /\ X = {s, r}
    OBVIOUS
  <2>3. one \in Seq(X) /\ Len(one) = 1 /\ one[1] = s /\ r \in X
    BY <2>1, <2>2
  <2>4. IsAppended(Append(one, r), X, one, r)
    BY <2>3, AppendIs
  <2>5. PICK u : u = Append(one, r)
    OBVIOUS
  <2>6. u \in Seq(X) /\ Len(u) = 2 /\ u[1] = s /\ u[2] = r
    BY <2>3, <2>4, <2>5 DEF IsAppended
  <2>7. DOMAIN u = 1 .. 2
    BY <2>6, LenProperties
  <2>8. u = Append(<<s>>, r)
    BY <2>2, <2>5
  <2> QED
    BY <2>6, <2>7, <2>8
<1>4. DOMAIN k = 1 .. 2 /\ k[1].start \in Nat /\ k[2].start \in Nat
  <2>1. k = SortedByStart(two)
    BY <1>2, <1>3 DEF InsertSpan
  <2>2. two[1].start \in Int /\ two[2].start \in Int
    BY <1>3
  <2>3. InOrder(k, two)
    BY <1>3, <2>1, <2>2, TwoSorted
  <2>4. DOMAIN k = 1 .. 2 /\ k[1] \in {s, r} /\ k[2] \in {s, r}
    BY <1>3, <2>3 DEF InOrder
  <2> QED
    BY <2>4
<1>5. \A o \in Nat : Rebase(o, "right", e) \in Nat
  BY DEF Rebase
<1>6. PICK m : m = [i \in DOMAIN k |-> RebaseSpan(k[i], e)]
  OBVIOUS
<1>7. DOMAIN m = 1 .. 2 /\ m[1] = RebaseSpan(k[1], e) /\ m[2] = RebaseSpan(k[2], e)
  BY <1>4, <1>6
<1>8. m[1].start \in Int /\ m[2].start \in Int
  BY <1>4, <1>5, <1>7 DEF RebaseSpan
<1>9. l = SortedByStart(m)
  BY <1>1, <1>2, <1>6 DEF RebaseLayer
<1>10. InOrder(l, m)
  BY <1>7, <1>8, <1>9, TwoSorted
<1> QED
  BY <1>10 DEF InOrder

\* Where a span goes that an edit does not touch, and what it covers there.
LEMMA SpanStays ==
  ASSUME NEW S, NEW t \in Seq(S), NEW new \in Seq(S), NEW i \in 0 .. Len(t), NEW j \in 0 .. Len(t), i <= j,
         NEW u, u = Splice(t, ByteOf(t, i), ByteOf(t, j), new),
         NEW a \in 0 .. Len(t), NEW b \in 0 .. Len(t), a < b, b <= i \/ j <= a,
         NEW e, e = Edit(ByteOf(t, i), ByteOf(t, j) - ByteOf(t, i), Bytes(new))
  PROVE  Slice(u, Rebase(ByteOf(t, a), "right", e), Rebase(ByteOf(t, b), "left", e)) = Slice(t, ByteOf(t, a), ByteOf(t, b))
<1>1. IsEdited(u, S, t, i, j, new)
  BY EditedIs
<1>2. /\ u \in Seq(S) /\ Len(t) \in Nat /\ Len(new) \in Nat /\ Len(u) = i + Len(new) + (Len(t) - j)
      /\ a \in Nat /\ b \in Nat /\ i \in Nat /\ j \in Nat
  BY <1>1 DEF IsEdited
<1>3. PICK n \in Nat : n = b - a /\ b = a + n /\ n > 0
  BY <1>2
<1>4. Slice(t, ByteOf(t, a), ByteOf(t, b)) = Cut(t, a, n)
  <2>1. a + n <= Len(t)
    BY <1>2, <1>3
  <2> QED
    BY <1>3, <2>1, SliceIs
<1>5. PICK lo, hi, x, y, g : /\ lo = ByteOf(t, i) /\ hi = ByteOf(t, j) /\ x = ByteOf(t, a) /\ y = ByteOf(t, b) /\ g = Bytes(new)
                            /\ lo \in Nat /\ hi \in Nat /\ x \in Nat /\ y \in Nat /\ g \in Nat
  BY <1>1, <1>2, ByteStep DEF IsEdited
<1>10. /\ lo \in Nat /\ hi \in Nat /\ x \in Nat /\ y \in Nat /\ g \in Nat
       /\ a \in Nat /\ b \in Nat /\ i \in Nat /\ j \in Nat /\ a < b /\ i <= j
  BY <1>2, <1>5
<1>6. lo <= hi /\ x < y
  <2>1. hi >= lo + (j - i)
    BY <1>2, <1>5, BytesIncrease
  <2>2. a <= b
    BY <1>2
  <2>3. y >= x + (b - a)
    BY <1>2, <1>5, <2>2, BytesIncrease
  <2> QED
    BY <1>10, <2>1, <2>3
<1>7. \A o \in Nat : /\ Rebase(o, "right", e) = IF o < lo THEN o ELSE IF o > lo + (hi - lo) THEN o - (hi - lo) + g ELSE lo + g
                    /\ Rebase(o, "left", e) = IF o < lo THEN o ELSE IF o > lo + (hi - lo) THEN o - (hi - lo) + g ELSE lo
  BY <1>5 DEF Rebase, Edit
<1>8. CASE b <= i
  <2>1. y <= lo
    <3>1. lo >= y + (i - b)
      BY <1>2, <1>5, <1>8, BytesIncrease
    <3> QED
      BY <1>8, <1>10, <3>1
  <2>2. Rebase(x, "right", e) = x /\ Rebase(y, "left", e) = y
    BY <1>5, <1>6, <1>7, <2>1
  <2>3. a \in 0 .. i /\ b \in 0 .. i /\ a \in 0 .. Len(u) /\ a + n <= Len(u) /\ a + n <= Len(t)
    BY <1>2, <1>3, <1>8
  <2>4. ByteOf(u, a) = x /\ ByteOf(u, b) = y
    BY <1>1, <1>5, <2>3 DEF IsEdited, BytesSpliced
  <2>5. Slice(u, ByteOf(u, a), ByteOf(u, a + n)) = Cut(u, a, n)
    BY <1>2, <2>3, SliceIs
  <2>6. Agree(t, a, u, a, n)
    <3>1. ASSUME NEW k \in 1 .. n
          PROVE  t[a + k] = u[a + k]
      <4>1. a + k \in 1 .. i
        BY <1>2, <1>3, <1>8
      <4> QED
        BY <1>1, <4>1 DEF IsEdited, IsSpliced
    <3> QED
      BY <3>1 DEF Agree
  <2>7. IsPiece(S, t, a, u, a, n)
    BY <1>2, <2>3, <2>6 DEF IsPiece
  <2>8. Cut(t, a, n) = Cut(u, a, n)
    BY <2>7, SamePiece
  <2> QED
    BY <1>3, <1>4, <1>5, <2>2, <2>4, <2>5, <2>8
<1>9. CASE j <= a
  <2>1. hi <= x
    <3>1. x >= hi + (a - j)
      BY <1>2, <1>5, <1>9, BytesIncrease
    <3> QED
      BY <1>9, <1>10, <3>1
  <2>2. Rebase(x, "right", e) = lo + g + (x - hi) /\ Rebase(y, "left", e) = lo + g + (y - hi)
    <3>1. ~(x < lo) /\ ~(y < lo) /\ y > lo + (hi - lo) /\ (x > lo + (hi - lo) \/ x = hi)
      BY <1>6, <1>10, <2>1
    <3>2. Rebase(y, "left", e) = y - (hi - lo) + g
      BY <1>5, <1>7, <3>1
    <3>3. Rebase(x, "right", e) = IF x > lo + (hi - lo) THEN x - (hi - lo) + g ELSE lo + g
      BY <1>5, <1>7, <3>1
    <3> QED
      BY <1>10, <3>1, <3>2, <3>3
  <2>3. PICK p, q \in Nat : p = a - j /\ q = b - j /\ q = p + n /\ j + p = a /\ j + q = b
    BY <1>2, <1>3, <1>9
  <2>4. PICK m \in Nat : m = (i + Len(new)) + p /\ m + n = (i + Len(new)) + q
    <3>1. PICK len \in Nat : len = Len(new)
      BY <1>2
    <3>2. (i + len) + p \in Nat /\ ((i + len) + p) + n = (i + len) + q
      BY <1>3, <1>10, <2>3, <3>1
    <3> QED
      BY <3>1, <3>2
  <2>5. p \in 0 .. Len(t) - j /\ q \in 0 .. Len(t) - j /\ m \in 0 .. Len(u) /\ m + n <= Len(u) /\ a + n <= Len(t)
    BY <1>2, <1>3, <2>3, <2>4
  <2>6. ByteOf(u, m) = lo + g + (x - hi) /\ ByteOf(u, m + n) = lo + g + (y - hi)
    <3>1. /\ ByteOf(u, (i + Len(new)) + p) = ByteOf(t, i) + Bytes(new) + (ByteOf(t, j + p) - ByteOf(t, j))
          /\ ByteOf(u, (i + Len(new)) + q) = ByteOf(t, i) + Bytes(new) + (ByteOf(t, j + q) - ByteOf(t, j))
      BY <1>1, <2>5 DEF IsEdited, BytesSpliced
    <3> QED
      BY <1>5, <2>3, <2>4, <3>1
  <2>7. Slice(u, ByteOf(u, m), ByteOf(u, m + n)) = Cut(u, m, n)
    BY <1>2, <2>5, SliceIs
  <2>8. Agree(t, a, u, m, n)
    <3>1. ASSUME NEW k \in 1 .. n
          PROVE  t[a + k] = u[m + k]
      <4>1. p + k \in 1 .. Len(t) - j /\ (i + Len(new)) + (p + k) = m + k /\ j + (p + k) = a + k
        BY <1>2, <1>3, <2>3, <2>4
      <4>2. u[(i + Len(new)) + (p + k)] = t[j + (p + k)]
        BY <1>1, <4>1 DEF IsEdited, IsSpliced
      <4> QED
        BY <4>1, <4>2
    <3> QED
      BY <3>1 DEF Agree
  <2>9. IsPiece(S, t, a, u, m, n)
    BY <1>2, <2>5, <2>8 DEF IsPiece
  <2>10. Cut(t, a, n) = Cut(u, m, n)
    BY <2>9, SamePiece
  <2> QED
    BY <1>4, <1>5, <2>2, <2>6, <2>7, <2>10
<1> QED
  BY <1>8, <1>9

\* What the bytes of two characters say about their order.
LEMMA BytesOrder ==
  ASSUME NEW t, NEW i \in Nat, NEW j \in Nat
  PROVE  (ByteOf(t, i) <= ByteOf(t, j) <=> i <= j) /\ (ByteOf(t, i) < ByteOf(t, j) <=> i < j)
<1>1. PICK x, y \in Nat : x = ByteOf(t, i) /\ y = ByteOf(t, j)
  BY ByteStep
<1>2. i <= j => y >= x + (j - i)
  BY <1>1, BytesIncrease
<1>3. j <= i => x >= y + (i - j)
  BY <1>1, BytesIncrease
<1>4. (x <= y <=> i <= j) /\ (x < y <=> i < j)
  BY <1>2, <1>3
<1> QED
  BY <1>1, <1>4

\* Spans keep their text: a layer stays sorted under every edit, and a span that the edit
\* does not touch covers afterwards what it covered before (part of ResultsAreExact).
THEOREM SpansKeepTheirText ==
  ASSUME NEW S, NEW t \in Seq(S), NEW news \in SUBSET Seq(S)
  PROVE  SpansAgree(t, news)
<1> DEFINE edits == {e \in [lo : Boundaries(t), hi : Boundaries(t), new : news] : e.lo <= e.hi}
<1>1. ASSUME NEW e \in edits, NEW s \in SpansOf(t), NEW r \in SpansOf(t),
             NEW l, l = RebaseLayer(InsertSpan(InsertSpan(<<>>, s), r), Edit(e.lo, e.hi - e.lo, Bytes(e.new))),
             NEW u, u = Splice(t, e.lo, e.hi, e.new),
             NEW mv, mv = RebaseSpan(s, Edit(e.lo, e.hi - e.lo, Bytes(e.new)))
      PROVE  /\ l[1].start <= l[2].start
             /\ (e.hi <= s.start \/ s.end <= e.lo) => Slice(u, mv.start, mv.end) = Slice(t, s.start, s.end)
  <2>1. PICK new \in Seq(S) : new = e.new
    OBVIOUS
  <2>2. Len(t) \in Nat
    BY LenProperties
  <2>3. PICK i, j \in 0 .. Len(t) : e.lo = ByteOf(t, i) /\ e.hi = ByteOf(t, j)
    BY DEF Boundaries
  <2>4. PICK a, b \in 0 .. Len(t) : s.start = ByteOf(t, a) /\ s.end = ByteOf(t, b)
    BY DEF SpansOf, Boundaries
  <2>5. PICK c \in 0 .. Len(t) : r.start = ByteOf(t, c)
    BY DEF SpansOf, Boundaries
  <2>6. i \in Nat /\ j \in Nat /\ a \in Nat /\ b \in Nat /\ c \in Nat
    BY <2>2
  <2>7. e.lo \in Nat /\ e.hi \in Nat /\ s.start \in Nat /\ s.end \in Nat /\ r.start \in Nat
    <3>1. \A k \in Nat : ByteOf(t, k) \in Nat
      BY ByteStep
    <3> QED
      BY <2>3, <2>4, <2>5, <2>6, <3>1
  <2>8. e.lo <= e.hi /\ s.start < s.end
    BY DEF SpansOf
  <2>9. i <= j /\ a < b
    BY <2>3, <2>4, <2>6, <2>8, BytesOrder
  <2>10. Bytes(new) \in Nat
    BY BytesOfAll
  <2>11. PICK ed : ed = Edit(e.lo, e.hi - e.lo, Bytes(new))
    OBVIOUS
  <2>12. ed.start \in Nat /\ ed.oldLen \in Nat /\ ed.newLen \in Nat
    BY <2>7, <2>8, <2>10, <2>11 DEF Edit
  <2>13. l = RebaseLayer(InsertSpan(InsertSpan(<<>>, s), r), ed)
    BY <1>1, <2>1, <2>11
  <2>14. l[1].start <= l[2].start
    BY <2>7, <2>12, <2>13, LayerStays
  <2>15. mv.start = Rebase(s.start, "right", ed) /\ mv.end = Rebase(s.end, "left", ed)
    <3>1. s \in [start : Boundaries(t), end : Boundaries(t), value : {"v"}]
      BY DEF SpansOf
    <3> QED
      BY <1>1, <2>1, <2>11, <3>1 DEF RebaseSpan
  <2>16. ASSUME e.hi <= s.start \/ s.end <= e.lo
         PROVE  Slice(u, mv.start, mv.end) = Slice(t, s.start, s.end)
    <3>1. b <= i \/ j <= a
      BY <2>3, <2>4, <2>6, <2>16, BytesOrder
    <3>2. u = Splice(t, ByteOf(t, i), ByteOf(t, j), new)
      BY <1>1, <2>1, <2>3
    <3>3. ed = Edit(ByteOf(t, i), ByteOf(t, j) - ByteOf(t, i), Bytes(new))
      BY <2>3, <2>11
    <3>4. Slice(u, Rebase(ByteOf(t, a), "right", ed), Rebase(ByteOf(t, b), "left", ed)) = Slice(t, ByteOf(t, a), ByteOf(t, b))
      BY <2>9, <3>1, <3>2, <3>3, SpanStays
    <3> QED
      BY <2>4, <2>15, <3>4
  <2> QED
    BY <2>14, <2>16
<1>2. ASSUME NEW e \in edits, NEW s \in SpansOf(t), NEW r \in SpansOf(t)
      PROVE  /\ RebaseLayer(InsertSpan(InsertSpan(<<>>, s), r), Edit(e.lo, e.hi - e.lo, Bytes(e.new)))[1].start
                   <= RebaseLayer(InsertSpan(InsertSpan(<<>>, s), r), Edit(e.lo, e.hi - e.lo, Bytes(e.new)))[2].start
             /\ (e.hi <= s.start \/ s.end <= e.lo) =>
                   Slice(Splice(t, e.lo, e.hi, e.new), RebaseSpan(s, Edit(e.lo, e.hi - e.lo, Bytes(e.new))).start,
                         RebaseSpan(s, Edit(e.lo, e.hi - e.lo, Bytes(e.new))).end) = Slice(t, s.start, s.end)
  <2> HIDE DEF edits
  <2>1. PICK l, u, mv : /\ l = RebaseLayer(InsertSpan(InsertSpan(<<>>, s), r), Edit(e.lo, e.hi - e.lo, Bytes(e.new)))
                        /\ u = Splice(t, e.lo, e.hi, e.new)
                        /\ mv = RebaseSpan(s, Edit(e.lo, e.hi - e.lo, Bytes(e.new)))
    OBVIOUS
  <2> QED
    BY <1>1, <2>1
<1> QED
  BY <1>2, Zenon DEF SpansAgree, SpansOf
=============================================================================
