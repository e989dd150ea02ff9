----------------------------- MODULE DeskProofs -----------------------------
(***************************************************************************)
(* The parts of the desk keep what they promise, for all repositories,     *)
(* manuals, panes, transcripts, commands and buffers, and for every        *)
(* interleaving of the helper threads with the editor's.                   *)
(***************************************************************************)
EXTENDS Desk, LineEditorProofs

-----------------------------------------------------------------------------
(* Recursive functions, concatenations.                                    *)

\* A function given by its first value and by a step from each value to the next.
Iterated(f, b, N, G) == f = [n \in 0 .. N |-> IF n = 0 THEN b ELSE G[<<f[n - 1], n>>]]

\* There is such a function, of values that the step keeps in a set.
LEMMA Iterates ==
  ASSUME NEW S, NEW b \in S, NEW N \in Nat, NEW G \in [S \X (1 .. N) -> S]
  PROVE  \E f \in [0 .. N -> S] : Iterated(f, b, N, G)
<1> DEFINE Good(f, m) == f[0] = b /\ \A i \in 1 .. m : f[i] = G[<<f[i - 1], i>>]
           Q == {m \in Nat : m <= N => \E f \in [0 .. m -> S] : Good(f, m)}
<1>1. 0 \in Q
  <2>1. [i \in 0 .. 0 |-> b] \in [0 .. 0 -> S] /\ Good([i \in 0 .. 0 |-> b], 0)
    OBVIOUS
  <2> QED
    BY <2>1
<1>2. ASSUME NEW m \in Nat, m \in Q
      PROVE  m + 1 \in Q
  <2> SUFFICES ASSUME m + 1 <= N
               PROVE  \E f \in [0 .. m + 1 -> S] : Good(f, m + 1)
    OBVIOUS
  <2>1. PICK f \in [0 .. m -> S] : Good(f, m)
    BY <1>2
  <2> DEFINE v == G[<<f[m], m + 1>>]
             g == [i \in 0 .. m + 1 |-> IF i = m + 1 THEN v ELSE f[i]]
  <2>2. v \in S
    BY <2>1
  <2>3. g \in [0 .. m + 1 -> S]
    BY <2>1, <2>2
  <2>4. g[0] = b
    BY <2>1
  <2>5. ASSUME NEW i \in 1 .. m + 1
        PROVE  g[i] = G[<<g[i - 1], i>>]
    <3>1. g[i - 1] = f[i - 1]
      OBVIOUS
    <3>2. CASE i = m + 1
      <4>1. g[i] = v /\ g[i - 1] = f[m]
        BY <3>1, <3>2
      <4> QED
        BY <3>2, <4>1
    <3>3. CASE i \in 1 .. m
      BY <2>1, <3>1, <3>3
    <3> QED
      BY <3>2, <3>3
  <2> QED
    BY <2>3, <2>4, <2>5
<1> HIDE DEF Q
<1>3. N \in Q
  BY <1>1, <1>2, Counting
<1>4. PICK f \in [0 .. N -> S] : Good(f, N)
  BY <1>3 DEF Q
<1>5. \A n \in 0 .. N : f[n] = IF n = 0 THEN b ELSE G[<<f[n - 1], n>>]
  BY <1>4
<1>6. f = [n \in 0 .. N |-> IF n = 0 THEN b ELSE G[<<f[n - 1], n>>]]
  BY <1>4, <1>5
<1> QED
  BY <1>4, <1>6 DEF Iterated

\* The prefixes of a concatenation, one after the other: the function that FlattenSeq chooses.
Runs(f, ss, n) == f = [i \in 1 .. n |-> IF i = 1 THEN ss[i] ELSE f[i - 1] \o ss[i]]

\* Each prefix is the one before with one more sequence.
LEMMA PrefixSteps ==
  ASSUME NEW f, NEW ss, NEW n \in Nat, Runs(f, ss, n), NEW i \in 1 .. n
  PROVE  f[i] = IF i = 1 THEN ss[i] ELSE f[i - 1] \o ss[i]
<1> DEFINE h == [j \in 1 .. n |-> IF j = 1 THEN ss[j] ELSE f[j - 1] \o ss[j]]
<1>1. f = h
  BY DEF Runs
<1>2. h[i] = IF i = 1 THEN ss[i] ELSE f[i - 1] \o ss[i]
  OBVIOUS
<1> QED
  BY <1>1, <1>2, Zenon

\* There is such a function, so that what FlattenSeq chooses is one.
LEMMA PrefixesExist == \A ss : \A n \in Nat : \E f : Runs(f, ss, n)
<1> SUFFICES ASSUME NEW ss
             PROVE  \A n \in Nat : \E f : Runs(f, ss, n)
  OBVIOUS
<1> DEFINE S == {n \in Nat : \E f : Runs(f, ss, n)}
<1>1. 0 \in S
  <2>1. Runs([i \in 1 .. 0 |-> ss], ss, 0)
    BY DEF Runs
  <2> QED
    BY <2>1
<1>2. ASSUME NEW n \in Nat, n \in S
      PROVE  n + 1 \in S
  <2>1. PICK f : Runs(f, ss, n)
    BY <1>2
  <2> DEFINE g == [i \in 1 .. n + 1 |-> IF i <= n THEN f[i] ELSE IF i = 1 THEN ss[i] ELSE f[i - 1] \o ss[i]]
  <2>2. \A i \in 1 .. n + 1 : g[i] = IF i = 1 THEN ss[i] ELSE g[i - 1] \o ss[i]
    <3> TAKE i \in 1 .. n + 1
    <3>1. CASE i <= n
      <4>1. i \in 1 .. n /\ (i # 1 => i - 1 <= n /\ i - 1 \in 1 .. n + 1)
        BY <3>1
      <4>2. f[i] = IF i = 1 THEN ss[i] ELSE f[i - 1] \o ss[i]
        BY <2>1, <4>1, PrefixSteps
      <4>3. g[i] = f[i] /\ (i # 1 => g[i - 1] = f[i - 1])
        BY <3>1, <4>1
      <4> QED
        BY <4>2, <4>3
    <3>2. CASE i = n + 1
      BY <3>2
    <3> QED
      BY <3>1, <3>2
  <2>3. Runs(g, ss, n + 1)
    BY <2>2 DEF Runs
  <2> QED
    BY <2>3
<1> HIDE DEF S
<1>3. \A n \in Nat : n \in S
  BY <1>1, <1>2, Counting
<1> QED
  BY <1>3 DEF S

\* And only one, for sequences that begin alike.
LEMMA PrefixesAgree ==
  \A f, g, ss, tt : \A n, m \in Nat :
    n <= m /\ Runs(f, ss, n) /\ Runs(g, tt, m) /\ (\A i \in 1 .. n : ss[i] = tt[i])
      => \A i \in 1 .. n : f[i] = g[i]
<1> SUFFICES ASSUME NEW f, NEW g, NEW ss, NEW tt, NEW n \in Nat, NEW m \in Nat, n <= m,
                    Runs(f, ss, n), Runs(g, tt, m), \A i \in 1 .. n : ss[i] = tt[i]
             PROVE  \A i \in 1 .. n : f[i] = g[i]
  OBVIOUS
<1> DEFINE S == {i \in Nat : i \in 1 .. n => f[i] = g[i]}
<1>1. 0 \in S
  OBVIOUS
<1>2. ASSUME NEW i \in Nat, i \in S
      PROVE  i + 1 \in S
  <2> SUFFICES ASSUME i + 1 \in 1 .. n
               PROVE  f[i + 1] = g[i + 1]
    OBVIOUS
  <2>1. /\ f[i + 1] = IF i + 1 = 1 THEN ss[i + 1] ELSE f[i + 1 - 1] \o ss[i + 1]
        /\ g[i + 1] = IF i + 1 = 1 THEN tt[i + 1] ELSE g[i + 1 - 1] \o tt[i + 1]
    BY PrefixSteps
  <2>2. i + 1 - 1 = i /\ (i + 1 # 1 => i \in 1 .. n)
    OBVIOUS
  <2> QED
    BY <1>2, <2>1, <2>2
<1> HIDE DEF S
<1>3. \A i \in Nat : i \in S
  BY <1>1, <1>2, Counting
<1> QED
  BY <1>3 DEF S

\* The concatenation is the last prefix.
LEMMA FlattenIsPrefix ==
  ASSUME NEW ss, Len(ss) \in Nat, Len(ss) # 0
  PROVE  \E f : Runs(f, ss, Len(ss)) /\ FlattenSeq(ss) = f[Len(ss)]
<1> DEFINE f == CHOOSE flatten : flatten = [i \in 1 .. Len(ss) |-> IF i = 1 THEN ss[i] ELSE flatten[i - 1] \o ss[i]]
<1>1. Runs(f, ss, Len(ss))
  BY PrefixesExist, Zenon DEF Runs
<1>2. FlattenSeq(ss) = f[Len(ss)]
  BY Zenon DEF FlattenSeq
<1> QED
  BY <1>1, <1>2

\* Every prefix is a sequence of the elements of the parts.
LEMMA PrefixType ==
  ASSUME NEW S, NEW ss \in Seq(Seq(S)), NEW f, Runs(f, ss, Len(ss))
  PROVE  \A i \in 1 .. Len(ss) : f[i] \in Seq(S)
<1> DEFINE T == {i \in Nat : i \in 1 .. Len(ss) => f[i] \in Seq(S)}
<1>1. 0 \in T
  OBVIOUS
<1>2. ASSUME NEW i \in Nat, i \in T
      PROVE  i + 1 \in T
  <2> SUFFICES ASSUME i + 1 \in 1 .. Len(ss)
               PROVE  f[i + 1] \in Seq(S)
    OBVIOUS
  <2>1. f[i + 1] = IF i + 1 = 1 THEN ss[i + 1] ELSE f[i + 1 - 1] \o ss[i + 1]
    BY PrefixSteps, LenProperties
  <2>2. i + 1 - 1 = i /\ (i + 1 # 1 => i \in 1 .. Len(ss)) /\ ss[i + 1] \in Seq(S)
    OBVIOUS
  <2>3. CASE i + 1 = 1
    BY <2>1, <2>2, <2>3
  <2>4. CASE i + 1 # 1
    <3>1. f[i] \in Seq(S) /\ f[i + 1] = f[i] \o ss[i + 1]
      BY <1>2, <2>1, <2>2, <2>4
    <3> QED
      BY <2>2, <3>1, ConcatProperties
  <2> QED
    BY <2>3, <2>4
<1> HIDE DEF T
<1>3. \A i \in Nat : i \in T
  BY <1>1, <1>2, Counting
<1> QED
  BY <1>3 DEF T

\* So is the concatenation, and nothing concatenated is nothing.
LEMMA FlattenType ==
  ASSUME NEW S, NEW ss \in Seq(Seq(S))
  PROVE  FlattenSeq(ss) \in Seq(S) /\ (ss = <<>> => FlattenSeq(ss) = <<>>)
<1>1. CASE ss = <<>>
  BY <1>1, Zenon, EmptySeq DEF FlattenSeq
<1>2. CASE ss # <<>>
  <2>1. Len(ss) \in Nat /\ Len(ss) # 0 /\ Len(ss) \in 1 .. Len(ss)
    BY <1>2, EmptySeq
  <2>2. PICK f : Runs(f, ss, Len(ss)) /\ FlattenSeq(ss) = f[Len(ss)]
    BY <2>1, FlattenIsPrefix
  <2> QED
    BY <1>2, <2>1, <2>2, PrefixType
<1> QED
  BY <1>1, <1>2

\* One more part is appended to the concatenation.
LEMMA FlattenAppend ==
  ASSUME NEW S, NEW ss \in Seq(Seq(S)), NEW s \in Seq(S)
  PROVE  FlattenSeq(Append(ss, s)) = FlattenSeq(ss) \o s
<1> DEFINE longer == Append(ss, s)
<1>0. PICK n \in Nat : n = Len(ss)
  BY LenProperties
<1>1. /\ n \in Nat /\ longer \in Seq(Seq(S)) /\ Len(longer) = n + 1 /\ longer[n + 1] = s
      /\ \A i \in 1 .. n : longer[i] = ss[i]
  BY <1>0, AppendProperties
<1> HIDE DEF longer
<1>2. PICK after : Runs(after, longer, n + 1) /\ FlattenSeq(longer) = after[n + 1]
  BY <1>0, <1>1, FlattenIsPrefix
<1>3. after[n + 1] = IF n + 1 = 1 THEN longer[n + 1] ELSE after[n + 1 - 1] \o longer[n + 1]
  BY <1>1, <1>2, PrefixSteps
<1>4. CASE ss = <<>>
  <2>1. FlattenSeq(ss) = <<>> /\ n = 0
    BY <1>0, <1>4, FlattenType, EmptySeq
  <2>2. FlattenSeq(longer) = s
    BY <1>1, <1>2, <1>3, <2>1
  <2> QED
    BY <2>1, <2>2, ConcatEmptySeq DEF longer
<1>5. CASE ss # <<>>
  <2>1. n # 0 /\ n \in 1 .. n /\ n + 1 # 1 /\ n + 1 - 1 = n
    BY <1>0, <1>5, EmptySeq
  <2>2. PICK before : Runs(before, ss, n) /\ FlattenSeq(ss) = before[n]
    BY <1>0, <2>1, FlattenIsPrefix
  <2>4. n + 1 \in Nat /\ n <= n + 1 /\ \A i \in 1 .. n : ss[i] = longer[i]
    BY <1>1
  <2>3. \A i \in 1 .. n : before[i] = after[i]
    <3>1. Runs(before, ss, n) 
      BY <2>2
    <3>2. Runs(after, longer, n + 1)
      BY <1>2
    <3>3. \A i \in 1 .. n : ss[i] = longer[i]
      BY <2>4
    <3>4. n + 1 \in Nat /\ n <= n + 1
      BY <2>4
    <3> QED
      BY <3>1, <3>2, <3>3, <3>4, PrefixesAgree
  <2> QED
    BY <1>1, <1>2, <1>3, <2>1, <2>2, <2>3 DEF longer
<1> QED
  BY <1>4, <1>5

\* The concatenation is that of the first parts, then that of the others.
LEMMA FlattenSplits ==
  ASSUME NEW S
  PROVE  \A ss \in Seq(Seq(S)) : \A m \in 0 .. Len(ss) :
            FlattenSeq(ss) = FlattenSeq(SubSeq(ss, 1, m)) \o FlattenSeq(SubSeq(ss, m + 1, Len(ss)))
<1>a. \A x, y, z \in Seq(S) : (x \o y) \o z = x \o (y \o z)
  BY ConcatAssociative
<1> SUFFICES ASSUME NEW ss \in Seq(Seq(S)), NEW m \in 0 .. Len(ss)
             PROVE  FlattenSeq(ss) = FlattenSeq(SubSeq(ss, 1, m)) \o FlattenSeq(SubSeq(ss, m + 1, Len(ss)))
  OBVIOUS
<1> DEFINE F(k) == FlattenSeq(SubSeq(ss, 1, m)) \o FlattenSeq(SubSeq(ss, m + 1, m + k))
           T == {k \in Nat : m + k <= Len(ss) => FlattenSeq(SubSeq(ss, 1, m + k)) = F(k)}
<1>0. Len(ss) \in Nat /\ m \in Nat
  BY LenProperties
<1>1. \A i, j \in Nat : 1 <= i /\ j <= Len(ss) => SubSeq(ss, i, j) \in Seq(Seq(S)) /\ FlattenSeq(SubSeq(ss, i, j)) \in Seq(S)
  <2> SUFFICES ASSUME NEW i \in Nat, NEW j \in Nat, 1 <= i, j <= Len(ss)
               PROVE  SubSeq(ss, i, j) \in Seq(Seq(S)) /\ FlattenSeq(SubSeq(ss, i, j)) \in Seq(S)
    OBVIOUS
  <2>1. \A l \in i .. j : ss[l] \in Seq(S)
    BY <1>0
  <2>2. SubSeq(ss, i, j) \in Seq(Seq(S))
    BY <2>1, SubSeqProperties
  <2> QED
    BY <2>2, FlattenType
<1>2. 0 \in T
  <2>1. SubSeq(ss, m + 1, m + 0) = <<>> /\ FlattenSeq(<<>>) = <<>>
    <3>1. SubSeq(ss, m + 1, m + 0) = <<>>
      BY <1>0, SubSeqEmpty
    <3>2. <<>> \in Seq(Seq(S))
      OBVIOUS
    <3> QED
      BY <3>1, <3>2, FlattenType
  <2>2. FlattenSeq(SubSeq(ss, 1, m)) \in Seq(S) /\ m + 0 = m
    BY <1>0, <1>1
  <2>3. F(0) = FlattenSeq(SubSeq(ss, 1, m))
    BY <2>1, <2>2, ConcatEmptySeq
  <2> QED
    BY <2>2, <2>3
<1>3. ASSUME NEW k \in Nat, k \in T
      PROVE  k + 1 \in T
  <2> SUFFICES ASSUME m + (k + 1) <= Len(ss)
               PROVE  FlattenSeq(SubSeq(ss, 1, m + (k + 1))) = F(k + 1)
    OBVIOUS
  <2> DEFINE n == m + (k + 1)
  <2>1. n \in 1 .. Len(ss) /\ n - 1 = m + k /\ n \in Nat /\ n \in m + 1 .. Len(ss) /\ m + 1 \in 1 .. Len(ss) /\ m + k <= Len(ss)
    BY <1>0
  <2>2. ss[n] \in Seq(S)
    BY <2>1
  <2> HIDE DEF n
  <2>3. SubSeq(ss, 1, n) = Append(SubSeq(ss, 1, m + k), ss[n])
    <3>1. 1 \in 1 .. Len(ss) /\ n \in 1 .. Len(ss)
      BY <2>1
    <3>2. SubSeq(ss, 1, n) = SubSeq(ss, 1, n - 1) \o <<ss[n]>>
      BY <3>1, SubSeqRecursiveSecond
    <3>3. SubSeq(ss, 1, m + k) \in Seq(Seq(S))
      BY <1>0, <1>1, <2>1
    <3> QED
      BY <2>1, <2>2, <3>2, <3>3, AppendIsConcat
  <2>4. SubSeq(ss, m + 1, n) = Append(SubSeq(ss, m + 1, m + k), ss[n])
    <3>1. SubSeq(ss, m + 1, n) = SubSeq(ss, m + 1, n - 1) \o <<ss[n]>>
      BY <2>1, SubSeqRecursiveSecond
    <3>2. SubSeq(ss, m + 1, m + k) \in Seq(Seq(S))
      BY <1>0, <1>1, <2>1
    <3> QED
      BY <2>1, <2>2, <3>1, <3>2, AppendIsConcat
  <2>5. PICK x \in Seq(S), y \in Seq(S), z \in Seq(S) :
          x = FlattenSeq(SubSeq(ss, 1, m)) /\ y = FlattenSeq(SubSeq(ss, m + 1, m + k)) /\ z = ss[n]
    <3>1. FlattenSeq(SubSeq(ss, 1, m)) \in Seq(S)
      BY <1>0, <1>1, <2>1
    <3>2. FlattenSeq(SubSeq(ss, m + 1, m + k)) \in Seq(S)
      BY <1>0, <1>1, <2>1
    <3> QED
      BY <2>2, <3>1, <3>2, Zenon
  <2>6. FlattenSeq(SubSeq(ss, 1, n)) = FlattenSeq(SubSeq(ss, 1, m + k)) \o z
    <3>1. SubSeq(ss, 1, m + k) \in Seq(Seq(S))
      BY <1>0, <1>1, <2>1
    <3> QED
      BY <2>3, <2>5, <3>1, FlattenAppend
  <2>7. FlattenSeq(SubSeq(ss, m + 1, n)) = y \o z
    <3>1. SubSeq(ss, m + 1, m + k) \in Seq(Seq(S))
      BY <1>0, <1>1, <2>1
    <3> QED
      BY <2>4, <2>5, <3>1, FlattenAppend
  <2>8. FlattenSeq(SubSeq(ss, 1, m + k)) = x \o y
    BY <1>3, <2>1, <2>5
  <2>9. (x \o y) \o z = x \o (y \o z)
    BY <1>a
  <2> QED
    BY <2>5, <2>6, <2>7, <2>8, <2>9 DEF n
<1> HIDE DEF T
<1>4. \A k \in Nat : k \in T
  BY <1>2, <1>3, Counting
<1>5. Len(ss) - m \in T /\ m + (Len(ss) - m) = Len(ss)
  BY <1>0, <1>4
<1>6. FlattenSeq(SubSeq(ss, 1, Len(ss))) = FlattenSeq(SubSeq(ss, 1, m)) \o FlattenSeq(SubSeq(ss, m + 1, Len(ss)))
  BY <1>0, <1>5 DEF T
<1>7. SubSeq(ss, 1, Len(ss)) = ss
  BY SubSeqFull
<1> QED
  BY <1>6, <1>7

\* The elements of a finite set of numbers can be counted up: for each n there is one
\* with n elements up to it.
LEMMA Ranked ==
  ASSUME NEW S \in SUBSET Nat, IsFiniteSet(S), NEW n \in 1 .. Cardinality(S)
  PROVE  \E i \in S : Cardinality({j \in S : j <= i}) = n
<1> DEFINE UpTo(i) == {j \in S : j <= i}
           T == {k \in Nat : k + 1 <= Cardinality(S) => \E i \in S : Cardinality(UpTo(i)) = k + 1}
<1>0. \A j \in S : j \in Nat
  OBVIOUS
<1>1. Cardinality(S) \in Nat /\ \A i : IsFiniteSet(UpTo(i)) /\ Cardinality(UpTo(i)) \in Nat
  BY FS_CardinalityType, FS_Subset
<1>2. 0 \in T
  <2> SUFFICES ASSUME 1 <= Cardinality(S)
               PROVE  \E i \in S : Cardinality(UpTo(i)) = 1
    OBVIOUS
  <2>1. S # {}
    BY FS_EmptySet
  <2>2. PICK i \in S : \A j \in S : i <= j
    BY <2>1, LeastIndex
  <2>3. \A j \in S : j <= i <=> j = i
    BY <1>0, <2>2
  <2>4. UpTo(i) = {i}
    BY <2>3
  <2> QED
    BY <2>4, FS_Singleton
<1>3. ASSUME NEW k \in Nat, k \in T
      PROVE  k + 1 \in T
  <2> SUFFICES ASSUME k + 1 + 1 <= Cardinality(S)
               PROVE  \E i \in S : Cardinality(UpTo(i)) = k + 1 + 1
    OBVIOUS
  <2>1. PICK i \in S : Cardinality(UpTo(i)) = k + 1
    BY <1>1, <1>3
  <2> DEFINE above == {j \in S : j > i}
  <2>2. above # {}
    <3>1. ASSUME above = {}
          PROVE  UpTo(i) = S
      <4>1. \A j \in S : j <= i
        BY <1>0, <3>1
      <4> QED
        BY <4>1
    <3> QED
      BY <1>1, <2>1, <3>1
  <2>3. PICK m \in above : \A j \in above : m <= j
    BY <2>2, LeastIndex
  <2>4. UpTo(m) = UpTo(i) \cup {m} /\ m \notin UpTo(i)
    <3>1. \A j \in S : j <= m <=> j <= i \/ j = m
      BY <1>0, <2>3
    <3>2. m \in S /\ ~(m <= i)
      BY <1>0, <2>3
    <3> QED
      BY <3>1, <3>2
  <2>5. Cardinality(UpTo(i) \cup {m}) = Cardinality(UpTo(i)) + 1
    BY <1>1, <2>4, FS_AddElement
  <2> QED
    BY <2>1, <2>3, <2>4, <2>5
<1> HIDE DEF T
<1>4. \A k \in Nat : k \in T
  BY <1>2, <1>3, Counting
<1>5. n - 1 \in Nat /\ n - 1 + 1 = n
  BY <1>1
<1>6. n - 1 \in T
  BY <1>4, <1>5
<1> QED
  BY <1>1, <1>5, <1>6 DEF T

-----------------------------------------------------------------------------
(* The application: keys reach what is shown.                              *)

\* The routing of keys: its property is inductive with the one fact that a focused
\* sidebar has the tree in it.
ShellInv == KeysReachWhatIsShown /\ (sidebar => explorer)

\* It holds when the editor starts.
LEMMA ShellStarts == ShellInit => ShellInv
<1> SUFFICES ASSUME ShellInit
             PROVE  ShellInv
  OBVIOUS
<1>1. FocusHasItsSurface /\ PromptHasItsAction /\ (sidebar => explorer)
  BY DEF ShellInit, FocusHasItsSurface, PromptHasItsAction
<1>2. open \in {{}, {"selector", "info"}, {"selector"}, {"info"}}
  BY DEF ShellInit
<1>3. ModalsDoNotStack
  BY <1>2 DEF ShellInit, ModalsDoNotStack, Searching, Modals
<1> QED
  BY <1>1, <1>3 DEF ShellInv, KeysReachWhatIsShown

\* Every key, command and answer keeps it.
LEMMA ShellStep == ShellInv /\ [ShellNext]_shellVars => ShellInv'
<1> SUFFICES ASSUME ShellInv, [ShellNext]_shellVars
             PROVE  ShellInv'
  OBVIOUS
<1> USE DEF ShellInv, KeysReachWhatIsShown, FocusHasItsSurface, ModalsDoNotStack, PromptHasItsAction, Searching, Modals
<1>1. CASE UNCHANGED shellVars
  BY <1>1 DEF shellVars, agentVars, termVars, sideVars, modalVars, textVars
<1>2. CASE SelectorKey
  BY <1>2 DEF SelectorKey, Captor, NoPromptOpened, agentVars, termVars, sideVars, textVars
<1>3. CASE ReaderKey
  BY <1>3 DEF ReaderKey, Captor, NoPromptOpened, agentVars, termVars, sideVars, textVars
<1>4. CASE FinderCancel
  BY <1>4 DEF FinderCancel, Captor, NoPromptOpened, agentVars, termVars, sideVars, textVars
<1>5. CASE FinderOpensFile
  BY <1>5 DEF FinderOpensFile, Captor, NoPromptOpened, OpenPath, agentVars, termVars, sideVars, textVars
<1>6. CASE FinderRunsCommand
  BY <1>6 DEF FinderRunsCommand, Captor, OpenPrompt, NoPromptOpened, OpenSearch, Recompute, agentVars, termVars, sideVars
<1>7. CASE GitCommitKey
  BY <1>7 DEF GitCommitKey, Captor, OpenPrompt, agentVars, termVars, sideVars, textVars
<1>8. CASE GitClose
  BY <1>8 DEF GitClose, Captor, NoPromptOpened, agentVars, termVars, sideVars, textVars
<1>9. CASE PromptEdit
  BY <1>9 DEF PromptEdit, Captor, agentVars, termVars, sideVars, textVars
<1>10. CASE PromptCancel
  BY <1>10 DEF PromptCancel, Captor, agentVars, termVars, sideVars, textVars
<1>11. CASE PromptConfirm
  BY <1>11 DEF PromptConfirm, Captor, OpenPrompt, AskAgent, termVars, sideVars
<1>12. CASE SearchClose
  BY <1>12 DEF SearchClose, SearchOn, Captor, CloseSearch, agentVars, termVars, sideVars, modalVars
<1>13. CASE SearchEdit
  BY <1>13 DEF SearchEdit, SearchOn, Captor, Recompute, agentVars, termVars, sideVars, modalVars
<1>14. CASE SearchStep
  BY <1>14 DEF SearchStep, SearchOn, Captor, agentVars, termVars, sideVars, modalVars
<1>15. CASE OpenModalKey
  BY <1>15 DEF OpenModalKey, Routed, Captor, NoPromptOpened, agentVars, termVars, sideVars, textVars
<1>16. CASE RenameKey
  BY <1>16 DEF RenameKey, Routed, Captor, OpenPrompt, agentVars, termVars, sideVars, textVars
<1>17. CASE ToggleTerminal
  BY <1>17 DEF ToggleTerminal, Routed, Captor, agentVars, sideVars, modalVars, textVars
<1>18. CASE ToggleDropDown
  BY <1>18 DEF ToggleDropDown, Routed, Captor, agentVars, sideVars, modalVars, textVars
<1>19. CASE ToggleSidebar
  <2>1. /\ focus' \in {"Explorer", "Editor"} /\ (focus' = "Explorer" => sidebar' /\ explorer')
        /\ sidebar' => explorer'
    <3>1. CASE ~sidebar
      BY <1>19, <3>1, Zenon DEF ToggleSidebar
    <3>2. CASE sidebar /\ focus = "Explorer"
      BY <1>19, <3>2 DEF ToggleSidebar
    <3>3. CASE sidebar /\ focus # "Explorer"
      BY <1>19, <3>3, Zenon DEF ToggleSidebar
    <3> QED
      BY <3>1, <3>2, <3>3
  <2> QED
    BY <1>19, <2>1 DEF ToggleSidebar, Routed, Captor, agentVars, termVars, modalVars, textVars
<1>20. CASE ToggleAgent
  BY <1>20 DEF ToggleAgent, Routed, Captor, termVars, sideVars, modalVars, textVars
<1>21. CASE StopAgent
  BY <1>21 DEF StopAgent, Routed, Captor, termVars, sideVars, modalVars, textVars
<1>22. CASE AskKey
  BY <1>22 DEF AskKey, Routed, Captor, OpenPrompt, agentVars, termVars, sideVars, textVars
<1>23. CASE ApprovalKey
  BY <1>23 DEF ApprovalKey, Routed, Captor, OpenPrompt, NoPromptOpened, termVars, sideVars, textVars
<1>24. CASE SidebarKey
  BY <1>24 DEF SidebarKey, Routed, Captor, termVars, sideVars, modalVars, textVars
<1>25. CASE DropDownKey
  BY <1>25 DEF DropDownKey, Routed, Captor, AskAgent, agentVars, sideVars, modalVars, textVars
<1>26. CASE ExplorerKey
  BY <1>26 DEF ExplorerKey, Routed, Captor, NoPromptOpened, OpenPath, agentVars, termVars, sideVars, textVars
<1>27. CASE EditorKey
  BY <1>27 DEF EditorKey, Captor, OpenSearch, Recompute, agentVars, termVars, sideVars, modalVars
<1>28. CASE Paste
  BY <1>28 DEF Paste, agentVars, termVars, sideVars, modalVars
<1>29. CASE ShellExits
  BY <1>29 DEF ShellExits, agentVars, sideVars, modalVars, textVars
<1>30. CASE Tick
  BY <1>30 DEF Tick, sideVars, modalVars, textVars
<1> QED
  BY <1>1, <1>2, <1>3, <1>4, <1>5, <1>6, <1>7, <1>8, <1>9, <1>10, <1>11, <1>12, <1>13, <1>14, <1>15, <1>16, <1>17, <1>18, <1>19, <1>20, <1>21, <1>22, <1>23, <1>24, <1>25, <1>26, <1>27, <1>28, <1>29, <1>30 DEF ShellNext

-----------------------------------------------------------------------------
(* The helper threads: highlighting, terminal panes, commands.             *)

\* The numbers of a queue, in the order of the revisions.
Ascends(s) == \A i, j \in DOMAIN s : i <= j => s[i] <= s[j]

\* They are from lo to hi.
Within(s, lo, hi) == \A i \in DOMAIN s : lo <= s[i] /\ s[i] <= hi

\* Revisions on their way from the editor to the worker and back: what is highlighted,
\* then what is delivered, what is worked on, and what is asked for, never out of order.
HlInv ==
  /\ revision \in Nat /\ requested \in Int /\ highlighted \in Int /\ taken \in Int
  /\ requests \in Seq(Int) /\ results \in Seq(Int)
  /\ highlighted <= requested /\ requested <= revision
  /\ Ascends(results) /\ Within(results, highlighted, requested)
  /\ Ascends(requests) /\ Within(requests, highlighted, requested)
  /\ \A i \in DOMAIN results, j \in DOMAIN requests : results[i] <= requests[j]
  /\ worker = "working" =>
        /\ highlighted <= taken /\ taken <= requested
        /\ Within(results, highlighted, taken) /\ Within(requests, taken, requested)

\* It holds with nothing asked for.
LEMMA HlStarts == HlInit => HlInv
  BY HighlighterAssumption DEF HlInit, HlInv, Ascends, Within, Absent

\* Asking for the current revision appends the newest of all, or nothing.
LEMMA Asking ==
  ASSUME HlInv, RequestCurrent
  PROVE  /\ requested' = revision /\ requests' \in Seq(Int) /\ Ascends(requests')
         /\ \A j \in DOMAIN requests' : requests'[j] = revision \/ (j \in DOMAIN requests /\ requests'[j] = requests[j])
<1>1. requests' = requests \/ requests' = Append(requests, revision)
  BY DEF RequestCurrent
<1>2. revision \in Int /\ requests \in Seq(Int) /\ requested \in Int /\ requested <= revision
  BY DEF HlInv
<1>3. \A i \in DOMAIN requests : requests[i] \in Int /\ requests[i] <= revision
  BY <1>2 DEF HlInv, Within
<1>4. CASE requests' = requests
  BY <1>2, <1>3, <1>4 DEF RequestCurrent, HlInv, Within
<1>5. CASE requests' = Append(requests, revision)
  <2>1. requests' \in Seq(Int) /\ Len(requests') = Len(requests) + 1 /\ requests'[Len(requests) + 1] = revision
    BY <1>2, <1>5
  <2>2. \A j \in 1 .. Len(requests) : requests'[j] = requests[j]
    BY <1>2, <1>5
  <2>3. \A j \in DOMAIN requests' : j \in DOMAIN requests \/ j = Len(requests) + 1
    BY <1>2, <2>1
  <2>4. Ascends(requests')
    <3> SUFFICES ASSUME NEW i \in DOMAIN requests', NEW j \in DOMAIN requests', i <= j
                 PROVE  requests'[i] <= requests'[j]
      BY DEF Ascends
    <3>1. CASE j = Len(requests) + 1
      <4>1. requests'[j] = revision
        BY <3>1, <2>1
      <4>2. CASE i = Len(requests) + 1
        BY <1>2, <2>1, <4>1, <4>2
      <4>3. CASE i \in DOMAIN requests
        <5>1. i \in 1 .. Len(requests)
          BY <1>2, <4>3
        <5>2. requests'[i] = requests[i] /\ requests[i] <= revision
          BY <1>3, <2>2, <4>3, <5>1
        <5> QED
          BY <4>1, <5>2
      <4> QED
        BY <2>3, <4>2, <4>3
    <3>2. CASE j \in DOMAIN requests
      <4>1. i \in 1 .. Len(requests) /\ j \in 1 .. Len(requests)
        BY <3>2, <1>2, <2>1
      <4>2. requests[i] <= requests[j]
        BY <4>1, <1>2 DEF Ascends, HlInv
      <4> QED
        BY <4>1, <4>2, <2>2
    <3> QED
      BY <3>1, <3>2, <2>3
  <2> QED
    BY <1>2, <1>3, <2>1, <2>2, <2>3, <2>4 DEF RequestCurrent, Within
<1> QED
  BY <1>1, <1>4, <1>5

\* It is kept, and no step goes back to older highlights.
LEMMA HlStep == HlInv /\ [HlNext]_hlVars => HlInv' /\ highlighted' >= highlighted
<1> SUFFICES ASSUME HlInv, [HlNext]_hlVars
             PROVE  HlInv' /\ highlighted' >= highlighted
  OBVIOUS
<1>1. CASE UNCHANGED hlVars
  BY <1>1 DEF HlInv, Ascends, Within, hlVars
<1>2. CASE HlEdit
  BY <1>2 DEF HlInv, Ascends, Within, HlEdit
<1>3. CASE Refresh
  <2>1. RequestCurrent /\ UNCHANGED <<revision, worker, taken>>
    BY <1>3 DEF Refresh
  <2>2. results' = <<>> /\ results' \in Seq(Int) /\ DOMAIN results' = {}
    BY <1>3 DEF Refresh
  <2>3. /\ highlighted' \in Int /\ highlighted <= highlighted' /\ highlighted' <= requested
        /\ Within(requests, highlighted', requested)
        /\ worker = "working" => highlighted' <= taken
    <3>1. CASE results = <<>>
      BY <1>3, <3>1 DEF Refresh, HlInv
    <3>2. CASE results # <<>>
      <4>1. Len(results) \in DOMAIN results /\ highlighted' = results[Len(results)]
        BY <1>3, <3>2 DEF Refresh, HlInv, Newest
      <4> QED
        BY <4>1 DEF HlInv, Within
    <3> QED
      BY <3>1, <3>2
  <2>4. /\ requested' = revision /\ requests' \in Seq(Int) /\ Ascends(requests')
        /\ \A j \in DOMAIN requests' : requests'[j] = revision \/ (j \in DOMAIN requests /\ requests'[j] = requests[j])
    BY <2>1, Asking
  <2>5. revision' = revision /\ worker' = worker /\ taken' = taken
    BY <2>1
  <2>6. revision \in Nat /\ requested \in Int /\ requested <= revision /\ taken \in Int
    BY DEF HlInv
  <2>7. \A j \in DOMAIN requests : requests[j] \in Int /\ requests[j] <= requested
    BY DEF HlInv, Within
  <2>8. Within(requests', highlighted', requested')
    BY <2>3, <2>4, <2>6, <2>7 DEF Within
  <2>9. ASSUME worker' = "working"
        PROVE  Within(requests', taken', requested') /\ highlighted' <= taken' /\ taken' <= requested'
    <3>1. Within(requests, taken, requested) /\ taken <= requested
      BY <2>9, <2>5 DEF HlInv
    <3> QED
      BY <3>1, <2>3, <2>4, <2>5, <2>6, <2>7, <2>9 DEF Within
  <2>10. Ascends(results') /\ \A lo, hi : Within(results', lo, hi)
    BY <2>2 DEF Ascends, Within
  <2>11. \A i \in DOMAIN results', j \in DOMAIN requests' : results'[i] <= requests'[j]
    BY <2>2
  <2>12. HlInv'
    BY <2>2, <2>3, <2>4, <2>5, <2>6, <2>8, <2>9, <2>10, <2>11 DEF HlInv
  <2> QED
    BY <2>3, <2>12
<1>4. CASE Flush
  <2>1. RequestCurrent /\ UNCHANGED <<revision, highlighted, results, worker, taken>>
    BY <1>4 DEF Flush
  <2>2. /\ requested' = revision /\ requests' \in Seq(Int) /\ Ascends(requests')
        /\ \A j \in DOMAIN requests' : requests'[j] = revision \/ (j \in DOMAIN requests /\ requests'[j] = requests[j])
    BY <2>1, Asking
  <2>3. /\ revision \in Nat /\ requested \in Int /\ requested <= revision
        /\ highlighted \in Int /\ highlighted <= requested /\ taken \in Int /\ results \in Seq(Int)
    BY DEF HlInv
  <2>4. \A j \in DOMAIN requests : requests[j] \in Int /\ highlighted <= requests[j] /\ requests[j] <= requested
    BY DEF HlInv, Within
  <2>5. \A i \in DOMAIN results : results[i] \in Int /\ highlighted <= results[i] /\ results[i] <= requested
    BY DEF HlInv, Within
  <2>6. Within(results', highlighted', requested') /\ Within(requests', highlighted', requested')
    BY <2>1, <2>2, <2>3, <2>4, <2>5 DEF Within
  <2>7. \A i \in DOMAIN results', j \in DOMAIN requests' : results'[i] <= requests'[j]
    <3> SUFFICES ASSUME NEW i \in DOMAIN results, NEW j \in DOMAIN requests'
                 PROVE  results[i] <= requests'[j]
      BY <2>1
    <3>1. CASE requests'[j] = revision
      BY <3>1, <2>3, <2>5
    <3>2. CASE j \in DOMAIN requests /\ requests'[j] = requests[j]
      BY <3>2 DEF HlInv
    <3> QED
      BY <3>1, <3>2, <2>2
  <2>8. ASSUME worker' = "working"
        PROVE  /\ highlighted' <= taken' /\ taken' <= requested'
               /\ Within(results', highlighted', taken') /\ Within(requests', taken', requested')
    <3>1. /\ highlighted <= taken /\ taken <= requested
          /\ Within(results, highlighted, taken) /\ Within(requests, taken, requested)
      BY <2>1, <2>8 DEF HlInv
    <3> QED
      BY <3>1, <2>1, <2>2, <2>3, <2>4 DEF Within
  <2>9. Ascends(results') /\ results' \in Seq(Int)
    BY <2>1 DEF HlInv
  <2>10. HlInv'
    BY <2>1, <2>2, <2>3, <2>6, <2>7, <2>8, <2>9 DEF HlInv
  <2> QED
    BY <2>1, <2>3, <2>10
<1>5. CASE FlushReceives
  <2>1. UNCHANGED <<revision, requested, requests, worker, taken>>
    BY <1>5 DEF FlushReceives
  <2>2. CASE results = <<>>
    BY <1>5, <2>1, <2>2 DEF HlInv, FlushReceives
  <2>3. CASE results # <<>>
    <3>1. results' = Tail(results) /\ (highlighted' = Head(results) \/ highlighted' = highlighted)
      BY <1>5, <2>3 DEF FlushReceives
    <3>2. /\ Head(results) = results[1] /\ 1 \in DOMAIN results /\ results' \in Seq(Int)
          /\ \A i \in DOMAIN results' : i + 1 \in DOMAIN results /\ results'[i] = results[i + 1] /\ i \in Nat
      BY <2>3, <3>1 DEF HlInv
    <3>3. /\ highlighted' \in Int /\ highlighted <= highlighted' /\ highlighted' <= results[1]
          /\ \A i \in DOMAIN results : results[1] <= results[i]
      BY <3>1, <3>2 DEF HlInv, Within, Ascends
    <3>4. \A i, j \in DOMAIN results' : i <= j => i + 1 <= j + 1
      BY <3>2
    <3>5. Ascends(results')
      BY <3>2, <3>4 DEF HlInv, Ascends
    <3>6. ASSUME NEW hi \in Int, Within(results, highlighted, hi)
          PROVE  Within(results', highlighted', hi) /\ highlighted' <= hi
      <4>1. results[1] <= hi /\ \A i \in DOMAIN results' : results'[i] <= hi
        BY <3>2, <3>6 DEF Within
      <4>2. \A i \in DOMAIN results : results[i] \in Int
        BY DEF HlInv
      <4>3. \A i \in DOMAIN results' : highlighted' <= results'[i]
        BY <3>2, <3>3, <4>2
      <4>4. highlighted' <= hi
        BY <3>3, <4>1, <4>2, <3>2
      <4> QED
        BY <4>1, <4>3, <4>4 DEF Within
    <3>7. Within(results', highlighted', requested) /\ highlighted' <= requested
      BY <3>6 DEF HlInv
    <3>8. Within(requests, highlighted', requested)
      BY <3>2, <3>3 DEF HlInv, Within
    <3>9. \A i \in DOMAIN results', j \in DOMAIN requests : results'[i] <= requests[j]
      BY <3>2 DEF HlInv
    <3>10. worker = "working" => /\ highlighted' <= taken /\ taken <= requested
                                /\ Within(results', highlighted', taken)
                                /\ Within(requests, taken, requested)
      BY <3>6 DEF HlInv
    <3> QED
      BY <2>1, <3>2, <3>3, <3>5, <3>7, <3>8, <3>9, <3>10 DEF HlInv
  <2> QED
    BY <2>2, <2>3
<1>6. CASE HlDrop
  BY <1>6 DEF HlInv, Ascends, Within, HlDrop
<1>7. CASE HlJoin
  BY <1>7 DEF HlInv, Ascends, Within, HlJoin
<1>8. CASE WorkerStarts
  BY <1>8 DEF HlInv, Ascends, Within, WorkerStarts
<1>9. CASE WorkerTakes
  BY <1>9 DEF HlInv, Ascends, Within, WorkerTakes, Newest
<1>10. CASE WorkerDelivers
  <2>1. /\ UNCHANGED <<revision, requested, highlighted, requests, taken>>
        /\ worker = "working" /\ worker' = "waiting" /\ results' = Append(results, taken)
    BY <1>10 DEF WorkerDelivers
  <2>2. /\ results \in Seq(Int) /\ taken \in Int /\ highlighted <= taken /\ taken <= requested
        /\ Within(results, highlighted, taken) /\ Within(requests, taken, requested)
        /\ Ascends(results) /\ highlighted \in Int /\ requested \in Int
    BY <2>1 DEF HlInv
  <2>3. /\ results' \in Seq(Int) /\ DOMAIN results' = 1 .. Len(results) + 1
        /\ Len(results) \in Nat /\ DOMAIN results = 1 .. Len(results)
        /\ results'[Len(results) + 1] = taken
        /\ \A i \in DOMAIN results : results'[i] = results[i]
    BY <2>1, <2>2
  <2>4. /\ \A i \in DOMAIN results : highlighted <= results[i] /\ results[i] <= taken
        /\ \A i \in DOMAIN results : results[i] \in Int
    BY <2>2 DEF Within
  <2>5. \A i \in DOMAIN results' : i \in DOMAIN results \/ i = Len(results) + 1
    BY <2>3
  <2>6. Ascends(results')
    <3> SUFFICES ASSUME NEW i \in DOMAIN results', NEW j \in DOMAIN results', i <= j
                 PROVE  results'[i] <= results'[j]
      BY DEF Ascends
    <3>1. CASE j = Len(results) + 1
      <4>1. results'[j] = taken
        BY <2>3, <3>1
      <4>2. results'[i] <= taken
        <5>1. CASE i \in DOMAIN results
          BY <2>3, <2>4, <5>1
        <5>2. CASE i = Len(results) + 1
          BY <2>2, <2>3, <5>2
        <5> QED
          BY <2>5, <5>1, <5>2
      <4> QED
        BY <4>1, <4>2
    <3>2. CASE j \in DOMAIN results
      <4>1. i \in DOMAIN results
        BY <2>3, <3>2
      <4> QED
        BY <2>2, <2>3, <3>2, <4>1 DEF Ascends
    <3> QED
      BY <2>5, <3>1, <3>2
  <2>7. Within(results', highlighted, requested)
    BY <2>2, <2>3, <2>4, <2>5 DEF Within
  <2>8. \A i \in DOMAIN results', j \in DOMAIN requests : results'[i] <= requests[j]
    <3>1. \A j \in DOMAIN requests : taken <= requests[j] /\ requests[j] \in Int
      BY <2>2 DEF Within, HlInv
    <3> QED
      BY <2>2, <2>3, <2>4, <2>5, <3>1
  <2>9. /\ revision \in Nat /\ requests \in Seq(Int) /\ highlighted <= requested /\ requested <= revision
        /\ Ascends(requests) /\ Within(requests, highlighted, requested)
    BY DEF HlInv
  <2>10. HlInv'
    <3>1. worker' # "working"
      BY <2>1
    <3> QED
      BY <2>1, <2>2, <2>3, <2>6, <2>7, <2>8, <2>9, <3>1 DEF HlInv
  <2>11. highlighted' >= highlighted
    BY <2>1, <2>2
  <2> QED
    BY <2>10, <2>11
<1>11. CASE WorkerEnds
  BY <1>11 DEF HlInv, Ascends, Within, WorkerEnds
<1> QED
  BY <1>1, <1>2, <1>3, <1>4, <1>5, <1>6, <1>7, <1>8, <1>9, <1>10, <1>11 DEF HlNext, WorkerStep

\* A pane starts without a question from its child.
LEMMA PaneStarts == PaneInit => NoQueryForgotten
  BY DEF PaneInit, NoPane, NoQueryForgotten

\* A query that was read is answered before the reader polls again.
LEMMA PaneKeeps == NoQueryForgotten /\ [PaneNext]_paneVars => NoQueryForgotten'
  BY DEF NoQueryForgotten, PaneNext, paneVars, SpawnPane, HangUpPane, DropPane, ClearPane, PaneStep,
         ChildWrites, ChildExits, ReaderStep, ReaderWakes, ReaderReads, ReaderEnds, ReaderDrained, ReaderReplies

\* The states of a run of a command, and the shape of its numbers.
Cells ==
  [cage : Cages, at : {"idle", "failed", "polling", "joining", "done"},
   drain : {"none", "reading", "ended"}, lead : {"none", "running", "exited", "killed"},
   kin : {"none", "group", "away", "ended"}, pipe : Nat, put : Nat, kept : Nat,
   late : BOOLEAN, timedOut : BOOLEAN, code : {"none", "status"}]

\* What the reader has kept is all that left the pipe, up to the cap; the pipe ends only
\* when every process that holds it is gone; and only a time-out has no status.
CellInv ==
  /\ cell \in Cells
  /\ cell.pipe <= cell.put /\ cell.kept = Kept(cell.put - cell.pipe, 0)
  /\ cell.at \in {"idle", "failed"} => cell.drain = "none" /\ ~PipeHeld(cell) /\ cell.put = 0
  /\ cell.drain = "ended" => cell.pipe = 0 /\ ~PipeHeld(cell)
  /\ cell.at = "done" => cell.drain = "ended"
  /\ cell.at \in {"idle", "failed", "polling"} => ~cell.timedOut /\ cell.code = "none"
  /\ cell.at \in {"joining", "done"} => (cell.timedOut <=> cell.code = "none")

\* It holds before a command.
LEMMA CellStarts == CellInit => CellInv
  BY SandboxAssumption DEF CellInit, CellInv, Cells, Kept, PipeHeld, Alive

\* The processes, the clock, the thread that drains the pipe and the one that waits keep it.
LEMMA CellStep == CellInv /\ [CellNext]_cellVars => CellInv'
<1> SUFFICES ASSUME CellInv, [CellNext]_cellVars
             PROVE  CellInv'
  OBVIOUS
<1> USE SandboxAssumption DEF CellInv, Cells, PipeHeld, Alive
<1>1. CASE UNCHANGED cellVars
  BY <1>1 DEF cellVars, Kept
<1>2. CASE Forks
  BY <1>2 DEF Forks
<1>3. CASE Writes
  <2>1. /\ PipeHeld(cell) /\ cell.pipe \in Nat /\ cell.put \in Nat
        /\ cell' = [cell EXCEPT !.pipe = cell.pipe + 1, !.put = cell.put + 1]
    BY <1>3 DEF Writes
  <2>2. cell'.put - cell'.pipe = cell.put - cell.pipe /\ cell'.kept = cell.kept
    BY <2>1
  <2>3. cell'.pipe = cell.pipe + 1 /\ cell'.put = cell.put + 1 /\ cell'.pipe <= cell'.put
    BY <2>1
  <2>8. cell.pipe + 1 \in Nat /\ cell.put + 1 \in Nat
    BY <2>1
  <2>4. cell' \in Cells
    BY <2>1, <2>8
  <2>6. cell'.kept = Kept(cell'.put - cell'.pipe, 0)
    BY <2>2
  <2>5. /\ cell'.at = cell.at /\ cell'.drain = cell.drain /\ cell'.timedOut = cell.timedOut
        /\ cell'.code = cell.code /\ cell'.lead = cell.lead /\ cell'.kin = cell.kin
    BY <2>1
  <2>7. cell.at \notin {"idle", "failed"} /\ cell.drain # "ended"
    BY <2>1
  <2> QED
    BY <2>1, <2>3, <2>4, <2>5, <2>6, <2>7
<1>4. CASE Exits
  BY <1>4 DEF Exits
<1>5. CASE KinEnds
  BY <1>5 DEF KinEnds
<1>6. ASSUME NEW text \in Lines, RunCommand(text)
      PROVE  CellInv'
  BY <1>6 DEF RunCommand, Lines
<1>7. CASE DeadlinePasses
  BY <1>7 DEF DeadlinePasses
<1>8. CASE Poll
  <2>1. CASE cell.lead = "exited" /\ cell' = [cell EXCEPT !.at = "joining", !.code = "status"]
    BY <1>8, <2>1 DEF Poll
  <2>2. CASE /\ cell.lead = "running" /\ cell.late
             /\ cell' = [KillGroup(cell) EXCEPT !.at = "joining", !.timedOut = TRUE]
    BY <1>8, <2>2 DEF Poll, KillGroup
  <2> QED
    BY <1>8, <2>1, <2>2 DEF Poll
<1>9. CASE Read
  <2>1. PICK n \in 1 .. cell.pipe :
          cell' = [cell EXCEPT !.pipe = cell.pipe - n, !.kept = Kept(cell.kept, n)]
    BY <1>9 DEF Read
  <2>2. Kept(cell.kept, n) = Kept(cell.put - (cell.pipe - n), 0) /\ Kept(cell.kept, n) \in Nat
    BY DEF Kept
  <2>3. cell'.pipe <= cell'.put /\ cell'.pipe = cell.pipe - n /\ cell'.put = cell.put
    BY <2>1
  <2>6. cell.pipe - n \in Nat
    OBVIOUS
  <2>7. cell' \in Cells
    BY <2>1, <2>2, <2>6
  <2>4. cell'.kept = Kept(cell'.put - cell'.pipe, 0)
    BY <2>1, <2>2, <2>3
  <2>5. /\ cell'.at = cell.at /\ cell'.drain = cell.drain /\ cell'.timedOut = cell.timedOut
        /\ cell'.code = cell.code /\ cell'.lead = cell.lead /\ cell'.kin = cell.kin
        /\ cell.drain = "reading"
    BY <1>9, <2>1 DEF Read
  <2> QED
    BY <2>1, <2>3, <2>4, <2>5, <2>7
<1>10. CASE EndOfOutput
  BY <1>10 DEF EndOfOutput
<1>11. CASE JoinDrain
  BY <1>11 DEF JoinDrain
<1> QED
  BY <1>1, <1>2, <1>3, <1>4, <1>5, <1>6, <1>7, <1>8, <1>9, <1>10, <1>11 DEF CellNext

\* It implies that the output is complete.
LEMMA CellSound == CellInv => OutputIsComplete
  BY SandboxAssumption DEF CellInv, Cells, OutputIsComplete, Kept

-----------------------------------------------------------------------------
(* The git panel.                                                          *)

\* Rows of the status: none, or a header and a file first.
RowsSound(rs) == \E S : rs \in Seq(S) /\ (rs = <<>> \/ IsFileRow(rs, 1))

\* The panel shows a status of this repository, with a file selected if there is one.
GitInv ==
  /\ DOMAIN repo = ToSet(GitFiles)
  /\ RowsSound(gitRows) /\ gitSelected \in Nat
  /\ GitSelectionIsAFile

\* A section is empty, or has its header and then a file.
LEMMA SectionIsSound ==
  ASSUME NEW name \in {"staged", "unstaged", "untracked"}, NEW files \in SUBSET ToSet(GitFiles)
  PROVE  RowsSound(Section(name, files))
<1>1. CASE files = {}
  <2>1. Section(name, files) = <<>>
    BY <1>1 DEF Section
  <2>2. <<>> \in Seq({})
    OBVIOUS
  <2> QED
    BY <2>1, <2>2 DEF RowsSound
<1>2. CASE files # {}
  <2> DEFINE n == Cardinality(files)
             body == [i \in 1 .. n |-> [section |-> name, file |-> NthFile(files, i)]]
             S == {Header} \cup {body[i] : i \in 1 .. n}
  <2>1. IsFiniteSet(files)
    BY GitAssumption, FS_Subset
  <2>2. n \in Nat /\ n # 0
    BY <1>2, <2>1, FS_CardinalityType, FS_EmptySet
  <2>3. body \in Seq(S) /\ Len(body) = n
    <3>1. body \in [1 .. n -> S]
      OBVIOUS
    <3> HIDE DEF S, body
    <3> QED
      BY <3>1, <2>2
  <2>4. <<Header>> \in Seq(S) /\ Len(<<Header>>) = 1
    OBVIOUS
  <2>5. body[1].section = name
    BY <2>2
  <2>6. Section(name, files) = <<Header>> \o body
    BY <1>2 DEF Section
  <2> HIDE DEF S, body, n
  <2>7. /\ <<Header>> \o body \in Seq(S) /\ Len(<<Header>> \o body) = 1 + n
        /\ (<<Header>> \o body)[2] = body[1]
    BY <2>2, <2>3, <2>4, ConcatProperties
  <2>8. IsFileRow(<<Header>> \o body, 1)
    BY <2>2, <2>5, <2>7 DEF IsFileRow
  <2> QED
    BY <2>6, <2>7, <2>8 DEF RowsSound
<1> QED
  BY <1>1, <1>2

\* Sections one after the other are sound rows.
LEMMA SectionsJoin ==
  ASSUME NEW s, NEW t, RowsSound(s), RowsSound(t)
  PROVE  RowsSound(s \o t)
<1>1. PICK A : s \in Seq(A) /\ (s = <<>> \/ IsFileRow(s, 1))
  BY DEF RowsSound
<1>2. PICK B : t \in Seq(B) /\ (t = <<>> \/ IsFileRow(t, 1))
  BY DEF RowsSound
<1>3. s \in Seq(A \cup B) /\ t \in Seq(A \cup B)
  BY <1>1, <1>2
<1>4. /\ s \o t \in Seq(A \cup B) /\ Len(s \o t) = Len(s) + Len(t)
      /\ \A i \in 1 .. Len(s) + Len(t) : (s \o t)[i] = IF i <= Len(s) THEN s[i] ELSE t[i - Len(s)]
  BY <1>3, ConcatProperties
<1>5. CASE s = <<>>
  <2>1. s \o t = t
    BY <1>3, <1>5, ConcatEmptySeq
  <2> QED
    BY <2>1
<1>6. CASE IsFileRow(s, 1)
  <2>1. 2 <= Len(s) /\ Len(s) \in Nat /\ Len(t) \in Nat /\ s[2].section # "header"
    BY <1>3, <1>6 DEF IsFileRow
  <2>2. (s \o t)[2] = s[2] /\ 2 \in DOMAIN (s \o t)
    BY <1>4, <2>1
  <2> QED
    BY <1>4, <2>1, <2>2 DEF RowsSound, IsFileRow
<1> QED
  BY <1>1, <1>5, <1>6

\* So the rows of any status are.
LEMMA StatusIsSound ==
  ASSUME NEW r, DOMAIN r = ToSet(GitFiles)
  PROVE  RowsSound(StatusRows(r))
<1> DEFINE staged == Section("staged", {f \in DOMAIN r : IsStaged(r, f)})
           unstaged == Section("unstaged", {f \in DOMAIN r : IsUnstaged(r, f)})
           untracked == Section("untracked", {f \in DOMAIN r : IsUntracked(r, f)})
<1>1. RowsSound(staged) /\ RowsSound(unstaged) /\ RowsSound(untracked)
  BY SectionIsSound
<1>2. StatusRows(r) = staged \o unstaged \o untracked
  BY DEF StatusRows
<1> HIDE DEF staged, unstaged, untracked
<1> QED
  BY <1>1, <1>2, SectionsJoin

\* Reselecting and selecting the first file both land on a file.
LEMMA SelectionLands ==
  ASSUME NEW rs, RowsSound(rs), NEW sel \in Nat
  PROVE  /\ Reselect(rs, sel) \in Nat
         /\ IF rs = <<>> THEN Reselect(rs, sel) = 0 ELSE IsFileRow(rs, Reselect(rs, sel))
         /\ IF rs = <<>> THEN FirstFile(rs) = 0 ELSE IsFileRow(rs, FirstFile(rs))
  BY DEF RowsSound, Reselect, FirstFile, IsFileRow

\* It holds on the first status.
LEMMA GitStarts == GitInit => GitInv
<1> SUFFICES ASSUME GitInit
             PROVE  GitInv
  OBVIOUS
<1>1. DOMAIN repo = ToSet(GitFiles)
  BY DEF GitInit
<1>2. RowsSound(gitRows)
  BY <1>1, StatusIsSound DEF GitInit
<1> QED
  BY <1>1, <1>2, SelectionLands DEF GitInit, GitInv, FirstFile, GitSelectionIsAFile, OnFile

\* A refresh of any status of these files restores it.
LEMMA RefreshedIsSound ==
  ASSUME DOMAIN repo' = ToSet(GitFiles), gitSelected \in Nat, Refreshed(repo')
  PROVE  GitInv'
<1>1. RowsSound(StatusRows(repo'))
  BY StatusIsSound
<1> QED
  BY <1>1, SelectionLands DEF Refreshed, GitInv, GitSelectionIsAFile, OnFile

\* So does an action on a file, which refreshes.
LEMMA ActionIsSound ==
  ASSUME GitInv, NEW possible, NEW result, DOMAIN result = ToSet(GitFiles), RunAction(possible, result)
  PROVE  GitInv'
<1>1. DOMAIN repo' = ToSet(GitFiles) /\ Refreshed(repo')
  BY DEF RunAction, GitInv
<1> QED
  BY <1>1, RefreshedIsSound DEF GitInv

\* Every key and every change behind the panel keeps it.
LEMMA GitStep == GitInv /\ [GitNext]_gitVars => GitInv'
<1> SUFFICES ASSUME GitInv, [GitNext]_gitVars
             PROVE  GitInv'
  OBVIOUS
<1>1. DOMAIN repo = ToSet(GitFiles)
  BY DEF GitInv
<1>2. CASE Stage
  BY <1>1, <1>2, ActionIsSound DEF Stage, GitAdd
<1>3. CASE StageAll
  BY <1>1, <1>3, ActionIsSound DEF StageAll, GitAddAll
<1>4. CASE Unstage
  BY <1>1, <1>4, ActionIsSound DEF Unstage, GitReset
<1>5. CASE UnstageAll
  BY <1>1, <1>5, ActionIsSound DEF UnstageAll, GitReset
<1>6. CASE Commit
  BY <1>1, <1>6, ActionIsSound DEF Commit, GitCommit
<1>7. CASE GitRefresh
  <2>1. repo' = repo /\ Refreshed(repo') /\ gitSelected \in Nat
    BY <1>7 DEF GitRefresh, GitInv
  <2> QED
    BY <1>1, <2>1, RefreshedIsSound
<1>8. CASE SelectRow
  <2>1. PICK forward \in BOOLEAN :
          LET on == {i \in 0..Len(gitRows) - 1 :
                       IsFileRow(gitRows, i) /\ IF forward THEN i > gitSelected ELSE i < gitSelected}
              next == CHOOSE i \in on : \A j \in on : IF forward THEN i <= j ELSE i >= j
          IN  gitSelected' = IF on = {} THEN gitSelected ELSE next
    BY <1>8 DEF SelectRow
  <2> DEFINE on == {i \in 0..Len(gitRows) - 1 :
                       IsFileRow(gitRows, i) /\ IF forward THEN i > gitSelected ELSE i < gitSelected}
  <2>2. Len(gitRows) \in Nat /\ on \in SUBSET Nat /\ on \in SUBSET (0 .. Len(gitRows))
    BY DEF GitInv, RowsSound
  <2>3. UNCHANGED <<repo, gitRows>>
    BY <1>8 DEF SelectRow
  <2>4. CASE on = {}
    BY <2>1, <2>3, <2>4 DEF GitInv, GitSelectionIsAFile, OnFile
  <2>5. CASE on # {}
    <3>1. \E i \in on : \A j \in on : IF forward THEN i <= j ELSE i >= j
      <4>1. CASE forward
        <5>1. \E i \in on : \A j \in on : i <= j
          BY <2>2, <2>5, LeastIndex
        <5> QED
          BY <4>1, <5>1
      <4>2. CASE ~forward
        <5>1. \E i \in on : \A j \in on : i >= j
          BY <2>2, <2>5, GreatestIndex
        <5> QED
          BY <4>2, <5>1
      <4> QED
        BY <4>1, <4>2
    <3>2. gitSelected' \in on
      BY <2>1, <2>5, <3>1
    <3>3. gitSelected' \in Nat /\ IsFileRow(gitRows, gitSelected')
      BY <2>2, <3>2
    <3>4. gitRows # <<>>
      BY <3>3 DEF IsFileRow
    <3> QED
      BY <2>3, <3>3, <3>4 DEF GitInv, GitSelectionIsAFile, OnFile
  <2> QED
    BY <2>4, <2>5
<1>9. CASE ShowDiff \/ ScrollDiff \/ CloseDiff \/ GitDraw \/ UNCHANGED gitVars
  <2>1. UNCHANGED <<repo, gitRows, gitSelected>>
    BY <1>9 DEF ShowDiff, ScrollDiff, CloseDiff, GitDraw, gitVars
  <2> QED
    BY <2>1 DEF GitInv, GitSelectionIsAFile, OnFile
<1>10. CASE WorkTreeChanges
  BY <1>1, <1>10 DEF WorkTreeChanges, GitInv, GitSelectionIsAFile, OnFile
<1> QED
  BY <1>2, <1>3, <1>4, <1>5, <1>6, <1>7, <1>8, <1>9, <1>10 DEF GitNext

-----------------------------------------------------------------------------
(* The manual reader.                                                      *)

\* The states of a reader.
Readers ==
  [loaded : SUBSET DOMAIN InfoFiles, file : DOMAIN InfoFiles, current : Nat,
   history : Seq((DOMAIN InfoFiles) \X Nat), scroll : Nat, selected : Nat, viewport : Nat]

\* Where the reader was, and where it is.
Trail(r) == Append(r.history, <<r.file, r.current>>)

\* A place that is a node, or the top of a file that has none.
IsThere(place) == place[2] \in DOMAIN Nodes(place[1]) \/ Nodes(place[1]) = <<>>

\* The inductive invariant of the reader: every place of the trail is loaded and there,
\* no step of it stays, and the selection is a reference of the node.
ReaderIsSound(r) ==
  /\ r \in Readers
  /\ \A i \in DOMAIN Trail(r) : Trail(r)[i][1] \in r.loaded /\ IsThere(Trail(r)[i])
  /\ \A i \in 1 .. Len(Trail(r)) - 1 : Trail(r)[i] # Trail(r)[i + 1]
  /\ r.selected = 0 \/ r.selected < Len(RefsOf(r))

\* The nodes of a file are its chunks that are nodes, and the count of them is right.
LEMMA NodesAreChunks ==
  ASSUME NEW file \in DOMAIN InfoFiles
  PROVE  \E n \in Nat : /\ DOMAIN Nodes(file) = 1 .. n /\ (n = 0 => Nodes(file) = <<>>)
                        /\ \A i \in 1 .. n : \E c \in DOMAIN InfoFiles[file] : Nodes(file)[i] = InfoFiles[file][c]
<1>1. DOMAIN InfoFiles[file] = 1 .. Len(InfoFiles[file]) /\ Len(InfoFiles[file]) \in Nat
  BY InfoAssumption, LenProperties DEF IsListing
<1>2. IsFiniteSet(NodeChunks(file)) /\ NodeChunks(file) \in SUBSET Nat /\ NodeChunks(file) \in SUBSET DOMAIN InfoFiles[file]
  <2>1. NodeChunks(file) \in SUBSET (1 .. Len(InfoFiles[file]))
    BY <1>1 DEF NodeChunks
  <2>2. PICK n \in Nat : n = Len(InfoFiles[file])
    BY <1>1
  <2>3. IsFiniteSet(1 .. n)
    BY 1 \in Int, FS_Interval
  <2> QED
    BY <1>1, <2>1, <2>2, <2>3, FS_Subset
<1> DEFINE n == Cardinality(NodeChunks(file))
<1>3. n \in Nat
  BY <1>2, FS_CardinalityType
<1>4. DOMAIN Nodes(file) = 1 .. n
  BY DEF Nodes
<1>5. n = 0 => Nodes(file) = <<>>
  BY DEF Nodes
<1>6. ASSUME NEW i \in 1 .. n
      PROVE  \E c \in DOMAIN InfoFiles[file] : Nodes(file)[i] = InfoFiles[file][c]
  <2> DEFINE c == CHOOSE k \in NodeChunks(file) : Cardinality({j \in NodeChunks(file) : j <= k}) = i
  <2>1. \E k \in NodeChunks(file) : Cardinality({j \in NodeChunks(file) : j <= k}) = i
    BY <1>2, Ranked
  <2>2. c \in NodeChunks(file)
    BY <2>1
  <2>3. Nodes(file)[i] = InfoFiles[file][c]
    BY DEF Nodes
  <2> QED
    BY <1>2, <2>2, <2>3
<1> QED
  BY <1>3, <1>4, <1>5, <1>6

\* A name is looked up among the nodes of the file.
LEMMA PositionIsANode ==
  ASSUME NEW file \in DOMAIN InfoFiles, NEW name
  PROVE  Position(file, name) \in Nat /\ (Position(file, name) # 0 => Position(file, name) \in DOMAIN Nodes(file))
<1> DEFINE named == {i \in DOMAIN Nodes(file) : Nodes(file)[i].name = name}
<1>1. named \in SUBSET Nat /\ named \in SUBSET DOMAIN Nodes(file)
  BY NodesAreChunks
<1>2. CASE named = {}
  BY <1>2 DEF Position
<1>3. CASE named # {}
  <2>1. \E i \in named : \A j \in named : i <= j
    BY <1>1, <1>3, LeastIndex
  <2>2. Position(file, name) \in named
    BY <1>3, <2>1 DEF Position
  <2> QED
    BY <1>1, <2>2
<1> QED
  BY <1>2, <1>3

\* The references of a node: a line and one of its targets.
RefSet(node) ==
  [line : Nat, target : {x.target : x \in ToSet(node.lines)} \cup UNION {ToSet(x.notes) : x \in ToSet(node.lines)}]

\* What a node refers to is a finite list of these.
LEMMA RefsAreListed ==
  ASSUME NEW node, IsListing(node.lines), \A n \in DOMAIN node.lines : IsListing(node.lines[n].notes)
  PROVE  Refs(node) \in Seq(RefSet(node)) /\ Len(node.lines) \in Nat
<1> DEFINE all == [n \in DOMAIN node.lines |-> LineRefs(node.lines, n)]
<1>1. node.lines \in Seq(ToSet(node.lines)) /\ Len(node.lines) \in Nat /\ DOMAIN node.lines = 1 .. Len(node.lines)
  BY LenProperties DEF IsListing
<1>2. ASSUME NEW n \in DOMAIN node.lines
      PROVE  LineRefs(node.lines, n) \in Seq(RefSet(node))
  <2> DEFINE x == node.lines[n]
  <2>9. x \in ToSet(node.lines) /\ x.notes \in Seq(ToSet(x.notes))
    BY DEF IsListing, ToSet
  <2>10. n - 1 \in Nat
    BY <1>1
  <2>1. x \in ToSet(node.lines) /\ n - 1 \in Nat /\ x.notes \in Seq(ToSet(x.notes))
    BY <2>9, <2>10
  <2>2. [line |-> n - 1, target |-> x.target] \in RefSet(node)
    BY <2>1 DEF RefSet
  <2>3. MenuItem(x, n - 1) \in Seq(RefSet(node))
    BY <2>2 DEF MenuItem
  <2>4. \A i \in DOMAIN x.notes : [line |-> n - 1, target |-> x.notes[i]] \in RefSet(node)
    BY <2>1 DEF RefSet, ToSet
  <2>5. DOMAIN x.notes = 1 .. Len(x.notes) /\ Len(x.notes) \in Nat
    BY <2>1, LenProperties
  <2>6. Notes(x, n - 1) \in Seq(RefSet(node))
    <3>1. Notes(x, n - 1) \in [1 .. Len(x.notes) -> RefSet(node)]
      BY <2>4, <2>5 DEF Notes
    <3> QED
      BY <2>5, <3>1
  <2>7. LineRefs(node.lines, n) = (IF InMenu(node.lines, n) THEN MenuItem(x, n - 1) ELSE <<>>) \o Notes(x, n - 1)
    BY DEF LineRefs
  <2>8. (IF InMenu(node.lines, n) THEN MenuItem(x, n - 1) ELSE <<>>) \in Seq(RefSet(node))
    BY <2>3
  <2> QED
    BY <2>6, <2>7, <2>8, ConcatProperties
<1>3. all \in [1 .. Len(node.lines) -> Seq(RefSet(node))]
  BY <1>1, <1>2
<1>4. all \in Seq(Seq(RefSet(node)))
  BY <1>1, <1>3
<1>5. Refs(node) = FlattenSeq(all)
  BY DEF Refs
<1> HIDE DEF all
<1> QED
  BY <1>1, <1>4, <1>5, FlattenType

\* What is shown is a chunk of the file.
LEMMA ShownIsAChunk ==
  ASSUME NEW r, r.file \in DOMAIN InfoFiles, NEW node \in Shown(r)
  PROVE  \E c \in DOMAIN InfoFiles[r.file] : node = InfoFiles[r.file][c]
<1>1. r.current \in DOMAIN Nodes(r.file) /\ node = Nodes(r.file)[r.current]
  BY DEF Shown
<1> QED
  BY <1>1, NodesAreChunks

\* So the references on the screen are listed.
LEMMA ReferencesAreListed ==
  ASSUME NEW r, r.file \in DOMAIN InfoFiles
  PROVE  \E T : RefsOf(r) \in Seq([line : Nat, target : T])
<1>1. CASE Shown(r) = {}
  <2>1. <<>> \in Seq([line : Nat, target : {}])
    OBVIOUS
  <2> QED
    BY <1>1, <2>1 DEF RefsOf
<1>2. CASE Shown(r) # {}
  <2> DEFINE node == CHOOSE n \in Shown(r) : TRUE
  <2>1. node \in Shown(r)
    BY <1>2
  <2>2. RefsOf(r) = Refs(node)
    BY <1>2 DEF RefsOf
  <2>3. PICK c \in DOMAIN InfoFiles[r.file] : node = InfoFiles[r.file][c]
    BY <2>1, ShownIsAChunk
  <2> HIDE DEF node
  <2>4. IsListing(node.lines) /\ \A n \in DOMAIN node.lines : IsListing(node.lines[n].notes)
    BY <2>3, InfoAssumption
  <2>5. Refs(node) \in Seq(RefSet(node))
    BY <2>4, RefsAreListed
  <2> QED
    BY <2>2, <2>5 DEF RefSet
<1> QED
  BY <1>1, <1>2

\* They depend on the place only.
LEMMA SameReferences ==
  ASSUME NEW r, NEW s, s.file = r.file, s.current = r.current
  PROVE  RefsOf(s) = RefsOf(r)
  BY DEF RefsOf, Shown

\* The trail is the history with the place at its end.
LEMMA TrailIsListed ==
  ASSUME NEW r \in Readers
  PROVE  /\ Trail(r) \in Seq((DOMAIN InfoFiles) \X Nat) /\ Len(Trail(r)) = Len(r.history) + 1
         /\ \A i \in 1 .. Len(r.history) : Trail(r)[i] = r.history[i]
         /\ Trail(r)[Len(r.history) + 1] = <<r.file, r.current>>
         /\ Len(r.history) \in Nat /\ DOMAIN Trail(r) = 1 .. Len(r.history) + 1
<1>1. r.history \in Seq((DOMAIN InfoFiles) \X Nat) /\ <<r.file, r.current>> \in (DOMAIN InfoFiles) \X Nat
  BY DEF Readers
<1> QED
  BY <1>1, AppendProperties, LenProperties DEF Trail

\* Only the view or the selection changes.
LEMMA LookingAround ==
  ASSUME NEW r, ReaderIsSound(r), NEW s \in Readers,
         s.loaded = r.loaded, s.file = r.file, s.current = r.current, s.history = r.history,
         s.selected = 0 \/ s.selected < Len(RefsOf(r))
  PROVE  ReaderIsSound(s)
<1>1. RefsOf(s) = RefsOf(r)
  BY SameReferences
<1>2. Trail(s) = Trail(r)
  BY DEF Trail
<1> QED
  BY <1>1, <1>2 DEF ReaderIsSound

\* Going to a node that is there.
LEMMA GoingThere ==
  ASSUME NEW r, ReaderIsSound(r), NEW file \in r.loaded, NEW index \in DOMAIN Nodes(file)
  PROVE  ReaderIsSound(GoTo(r, file, index))
<1>1. r \in Readers /\ file \in DOMAIN InfoFiles
  BY DEF ReaderIsSound, Readers
<1>2. index \in Nat
  BY <1>1, NodesAreChunks
<1>3. CASE file = r.file /\ index = r.current
  BY <1>3 DEF GoTo
<1>4. CASE ~(file = r.file /\ index = r.current)
  <2> DEFINE s == [r EXCEPT !.history = Trail(r), !.file = file, !.current = index, !.scroll = 0, !.selected = 0]
  <2>1. GoTo(r, file, index) = s
    BY <1>4 DEF GoTo, Trail
  <2>2. Trail(r) \in Seq((DOMAIN InfoFiles) \X Nat) /\ Len(Trail(r)) \in Nat
    BY <1>1, TrailIsListed
  <2>3. s \in Readers
    BY <1>1, <1>2, <2>2 DEF Readers
  <2>4. s.history = Trail(r) /\ s.file = file /\ s.current = index /\ s.selected = 0 /\ s.loaded = r.loaded
    BY <1>1 DEF Readers
  <2> HIDE DEF s
  <2>5. /\ Len(Trail(s)) = Len(Trail(r)) + 1 /\ Trail(s) \in Seq((DOMAIN InfoFiles) \X Nat)
        /\ \A i \in 1 .. Len(Trail(r)) : Trail(s)[i] = Trail(r)[i]
        /\ Trail(s)[Len(Trail(r)) + 1] = <<file, index>>
    BY <2>3, <2>4, TrailIsListed
  <2>6. Trail(r)[Len(Trail(r))] = <<r.file, r.current>> /\ Len(Trail(r)) # 0
    BY <1>1, TrailIsListed
  <2>10. DOMAIN Trail(s) = 1 .. Len(Trail(r)) + 1 /\ DOMAIN Trail(r) = 1 .. Len(Trail(r))
    BY <1>1, <2>3, <2>5, TrailIsListed
  <2>11. /\ \A i \in DOMAIN Trail(r) : Trail(r)[i][1] \in r.loaded /\ IsThere(Trail(r)[i])
         /\ \A i \in 1 .. Len(Trail(r)) - 1 : Trail(r)[i] # Trail(r)[i + 1]
    BY DEF ReaderIsSound
  <2>7. IsThere(<<file, index>>)
    BY DEF IsThere
  <2>8. \A i \in DOMAIN Trail(s) : Trail(s)[i][1] \in s.loaded /\ IsThere(Trail(s)[i])
    <3> TAKE i \in DOMAIN Trail(s)
    <3>1. CASE i \in 1 .. Len(Trail(r))
      BY <2>4, <2>5, <2>10, <2>11, <3>1
    <3>2. CASE i = Len(Trail(r)) + 1
      <4>1. Trail(s)[i] = <<file, index>> /\ <<file, index>>[1] = file
        BY <2>5, <3>2
      <4> QED
        BY <2>4, <2>7, <4>1
    <3> QED
      BY <2>2, <2>10, <3>1, <3>2
  <2>9. \A i \in 1 .. Len(Trail(s)) - 1 : Trail(s)[i] # Trail(s)[i + 1]
    <3> TAKE i \in 1 .. Len(Trail(s)) - 1
    <3>1. CASE i < Len(Trail(r))
      <4>0. PICK m \in Nat : m = Len(Trail(r))
        BY <2>2
      <4>1. i \in 1 .. Len(Trail(r)) - 1 /\ i \in 1 .. Len(Trail(r)) /\ i + 1 \in 1 .. Len(Trail(r))
        <5>1. i \in Nat /\ i >= 1 /\ i < m
          BY <2>5, <3>1, <4>0
        <5> QED
          BY <4>0, <5>1
      <4>2. Trail(r)[i] # Trail(r)[i + 1]
        BY <2>11, <4>1
      <4> QED
        BY <2>5, <4>1, <4>2
    <3>2. CASE i = Len(Trail(r))
      BY <1>4, <2>2, <2>5, <2>6, <3>2
    <3> QED
      BY <2>2, <2>5, <3>1, <3>2
  <2> QED
    BY <2>1, <2>3, <2>4, <2>8, <2>9 DEF ReaderIsSound
<1> QED
  BY <1>3, <1>4

\* Going to a file, which is loaded first, or not found.
LEMMA GoingToAFile ==
  ASSUME NEW r, ReaderIsSound(r), NEW named, NEW node
  PROVE  ReaderIsSound(GotoFile(r, named, node))
<1> DEFINE file == IF named = "" THEN r.file ELSE named
           index == Position(file, IF node = "" THEN "Top" ELSE node)
           loaded == [r EXCEPT !.loaded = @ \cup {file}]
<1>1. GotoFile(r, named, node) = IF file \notin DOMAIN InfoFiles THEN r
                                ELSE IF index = 0 THEN loaded ELSE GoTo(loaded, file, index)
  BY DEF GotoFile
<1>2. r \in Readers
  BY DEF ReaderIsSound
<1> SUFFICES ASSUME file \in DOMAIN InfoFiles
             PROVE  ReaderIsSound(loaded) /\ (index # 0 => ReaderIsSound(GoTo(loaded, file, index)))
  BY <1>1
<1>3. index # 0 => index \in DOMAIN Nodes(file)
  BY PositionIsANode
<1> HIDE DEF file, index
<1>4. /\ loaded \in Readers /\ loaded.loaded = r.loaded \cup {file} /\ loaded.file = r.file
      /\ loaded.current = r.current /\ loaded.history = r.history /\ loaded.selected = r.selected
  BY <1>2 DEF Readers
<1> HIDE DEF loaded
<1>5. Trail(loaded) = Trail(r) /\ RefsOf(loaded) = RefsOf(r)
  BY <1>4, SameReferences DEF Trail
<1>6. ReaderIsSound(loaded)
  BY <1>4, <1>5 DEF ReaderIsSound
<1> QED
  BY <1>3, <1>4, <1>6, GoingThere

\* Following a target, wherever it leads.
LEMMA Going ==
  ASSUME NEW r, ReaderIsSound(r), NEW target
  PROVE  ReaderIsSound(Goto(r, target))
<1>1. r.file \in DOMAIN InfoFiles /\ r.file \in r.loaded
  <2>1. r \in Readers /\ \A i \in DOMAIN Trail(r) : Trail(r)[i][1] \in r.loaded
    BY DEF ReaderIsSound
  <2>2. Len(r.history) + 1 \in DOMAIN Trail(r) /\ Trail(r)[Len(r.history) + 1] = <<r.file, r.current>>
    BY <2>1, TrailIsListed
  <2> HIDE DEF Trail
  <2>3. Trail(r)[Len(r.history) + 1][1] \in r.loaded
    BY <2>1, <2>2
  <2>4. <<r.file, r.current>>[1] = r.file
    OBVIOUS
  <2> QED
    BY <2>1, <2>2, <2>3, <2>4 DEF Readers
<1>2. Position(r.file, target[1]) # 0 => Position(r.file, target[1]) \in DOMAIN Nodes(r.file)
  BY <1>1, PositionIsANode
<1> QED
  BY <1>1, <1>2, GoingToAFile, GoingThere DEF Goto

\* Scrolling to the selected reference moves the view only, and shows it.
LEMMA ScrollingTo ==
  ASSUME NEW r \in Readers
  PROVE  /\ ScrollToSelected(r) \in Readers
         /\ ScrollToSelected(r).loaded = r.loaded /\ ScrollToSelected(r).file = r.file
         /\ ScrollToSelected(r).current = r.current /\ ScrollToSelected(r).history = r.history
         /\ ScrollToSelected(r).selected = r.selected /\ ScrollToSelected(r).viewport = r.viewport
         /\ r.selected < Len(RefsOf(r)) /\ r.viewport > 0 =>
              RefsOf(r)[r.selected + 1].line
                \in ScrollToSelected(r).scroll .. ScrollToSelected(r).scroll + r.viewport - 1
<1> DEFINE at == RefsOf(r)[r.selected + 1].line
<1>1. r.file \in DOMAIN InfoFiles /\ r.selected \in Nat /\ r.viewport \in Nat /\ r.scroll \in Nat
  BY DEF Readers
<1>2. PICK T : RefsOf(r) \in Seq([line : Nat, target : T])
  BY <1>1, ReferencesAreListed
<1>3. Len(RefsOf(r)) \in Nat /\ (r.selected < Len(RefsOf(r)) => at \in Nat)
  <2>1. Len(RefsOf(r)) \in Nat
    BY <1>2, LenProperties
  <2>2. ASSUME r.selected < Len(RefsOf(r))
        PROVE  at \in Nat
    <3>1. r.selected + 1 \in 1 .. Len(RefsOf(r))
      BY <1>1, <2>1, <2>2
    <3>2. RefsOf(r)[r.selected + 1] \in [line : Nat, target : T]
      BY <1>2, <3>1, ElementOfSeq
    <3> QED
      BY <3>2
  <2> QED
    BY <2>1, <2>2
<1>9. at = RefsOf(r)[r.selected + 1].line
  OBVIOUS
<1> HIDE DEF at
<1>10. \A v \in Nat : LET s == [r EXCEPT !.scroll = v]
                     IN  /\ s \in Readers /\ s.scroll = v /\ s.loaded = r.loaded /\ s.file = r.file
                         /\ s.current = r.current /\ s.history = r.history /\ s.selected = r.selected
                         /\ s.viewport = r.viewport
  BY DEF Readers
<1>4. ScrollToSelected(r) = IF r.selected >= Len(RefsOf(r)) THEN r
                           ELSE IF at < r.scroll THEN [r EXCEPT !.scroll = at]
                           ELSE IF r.viewport > 0 /\ at >= r.scroll + r.viewport
                           THEN [r EXCEPT !.scroll = at + 1 - r.viewport] ELSE r
  BY DEF ScrollToSelected, at
<1>5. CASE r.selected >= Len(RefsOf(r))
  BY <1>1, <1>3, <1>4, <1>5
<1>6. CASE r.selected < Len(RefsOf(r)) /\ at < r.scroll
  <2>1. ScrollToSelected(r) = [r EXCEPT !.scroll = at]
    BY <1>1, <1>3, <1>4, <1>6
  <2> QED
    BY <1>1, <1>3, <1>6, <1>9, <1>10, <2>1
<1>7. CASE r.selected < Len(RefsOf(r)) /\ ~(at < r.scroll) /\ r.viewport > 0 /\ at >= r.scroll + r.viewport
  <2>1. ScrollToSelected(r) = [r EXCEPT !.scroll = at + 1 - r.viewport] /\ at + 1 - r.viewport \in Nat
    BY <1>1, <1>3, <1>4, <1>7
  <2> QED
    BY <1>1, <1>3, <1>7, <1>9, <1>10, <2>1
<1>8. CASE r.selected < Len(RefsOf(r)) /\ ~(at < r.scroll) /\ ~(r.viewport > 0 /\ at >= r.scroll + r.viewport)
  <2>1. ScrollToSelected(r) = r
    BY <1>1, <1>3, <1>4, <1>8
  <2> QED
    BY <1>1, <1>3, <1>8, <2>1 DEF at
<1> QED
  BY <1>1, <1>3, <1>5, <1>6, <1>7, <1>8

\* It holds when a file is opened.
LEMMA InfoStarts == InfoInit => ReaderIsSound(info)
<1> SUFFICES ASSUME InfoInit
             PROVE  ReaderIsSound(info)
  OBVIOUS
<1>1. PICK file \in DOMAIN InfoFiles :
        info = [loaded |-> {file}, file |-> file,
                  current |-> IF Position(file, "Top") = 0 THEN 1 ELSE Position(file, "Top"),
                  history |-> <<>>, scroll |-> 0, selected |-> 0, viewport |-> 0]
  BY DEF InfoInit
<1>2. info \in Readers
  BY <1>1, PositionIsANode DEF Readers
<1>3. Len(info.history) = 0 /\ Len(Trail(info)) = 1 /\ Trail(info)[1] = <<info.file, info.current>>
  <2>1. info.history = <<>> /\ Len(<<>>) = 0 /\ 0 + 1 = 1
    BY <1>1
  <2> QED
    BY <1>2, <2>1, TrailIsListed
<1>4. IsThere(<<info.file, info.current>>)
  <2>1. CASE Position(file, "Top") # 0
    BY <1>1, <2>1, PositionIsANode DEF IsThere
  <2>2. CASE Position(file, "Top") = 0
    BY <1>1, <2>2, NodesAreChunks DEF IsThere
  <2> QED
    BY <2>1, <2>2
<1>5. DOMAIN Trail(info) = {1}
  BY <1>2, <1>3, TrailIsListed
<1> QED
  <2>1. info.loaded = {info.file} /\ info.selected = 0 /\ <<info.file, info.current>>[1] = info.file
    BY <1>1
  <2> QED
    BY <1>2, <1>3, <1>4, <1>5, <2>1 DEF ReaderIsSound

\* Every key keeps it, and one that moves the selection has it on the screen.
LEMMA InfoStep ==
  ReaderIsSound(info) /\ [InfoNext]_infoVars => ReaderIsSound(info') /\ (SelectionIsSeen \/ UNCHANGED infoVars)
<1> SUFFICES ASSUME ReaderIsSound(info), [InfoNext]_infoVars
             PROVE  ReaderIsSound(info') /\ (SelectionIsSeen \/ UNCHANGED infoVars)
  OBVIOUS
<1>1. info \in Readers
  BY DEF ReaderIsSound
<1>2. CASE UNCHANGED infoVars
  BY <1>2 DEF infoVars
<1>3. ASSUME NEW target, info' = Goto(info, target)
      PROVE  ReaderIsSound(info') /\ SelectionIsSeen
  <2>1. info'.selected = info.selected \/ info'.history # info.history
    <3>1. ASSUME NEW r \in Readers, NEW file, NEW index
          PROVE  GoTo(r, file, index).selected = r.selected \/ GoTo(r, file, index).history = Append(r.history, <<r.file, r.current>>)
      BY <3>1 DEF GoTo, Readers
    <3>2. Append(info.history, <<info.file, info.current>>) # info.history
      BY <1>1 DEF Readers
    <3>3. ASSUME NEW named, NEW node
          PROVE  LET s == GotoFile(info, named, node)
                 IN  s.selected = info.selected \/ s.history = Append(info.history, <<info.file, info.current>>)
      <4> DEFINE file == IF named = "" THEN info.file ELSE named
                 loaded == [info EXCEPT !.loaded = @ \cup {file}]
      <4>1. CASE file \notin DOMAIN InfoFiles
        BY <4>1 DEF GotoFile
      <4>2. CASE file \in DOMAIN InfoFiles
        <5>1. /\ loaded \in Readers /\ loaded.selected = info.selected /\ loaded.history = info.history
              /\ loaded.file = info.file /\ loaded.current = info.current
          BY <1>1, <4>2 DEF Readers
        <5>2. GotoFile(info, named, node) = loaded
              \/ \E index : GotoFile(info, named, node) = GoTo(loaded, file, index)
          BY <4>2 DEF GotoFile
        <5> HIDE DEF loaded, file
        <5> QED
          BY <3>1, <5>1, <5>2
      <4> QED
        BY <4>1, <4>2
    <3> QED
      BY <1>1, <1>3, <3>1, <3>2, <3>3 DEF Goto
  <2> QED
    BY <1>3, <2>1, Going DEF SelectionIsSeen
<1>4. CASE FollowLink
  BY <1>3, <1>4 DEF FollowLink
<1>5. CASE Enter
  BY <1>3, <1>5 DEF Enter
<1>6. ASSUME NEW s \in Readers, info' = ScrollToSelected(s), s.selected < Len(RefsOf(info)) \/ (s.selected = 0 /\ info.selected = 0),
             s.loaded = info.loaded, s.file = info.file, s.current = info.current, s.history = info.history
      PROVE  ReaderIsSound(info') /\ SelectionIsSeen
  <2>1. RefsOf(s) = RefsOf(info) /\ RefsOf(info') = RefsOf(info)
    BY <1>6, SameReferences, ScrollingTo
  <2>2. ReaderIsSound(info')
    BY <1>6, ScrollingTo, LookingAround
  <2>3. SelectionIsSeen
    BY <1>6, <2>1, ScrollingTo DEF SelectionIsSeen
  <2> QED
    BY <2>2, <2>3
<1>7. PICK T : RefsOf(info) \in Seq([line : Nat, target : T])
  BY <1>1, ReferencesAreListed DEF Readers
<1>8. Len(RefsOf(info)) \in Nat
  BY <1>7, LenProperties
<1>9. CASE SelectUp
  <2> DEFINE s == [info EXCEPT !.selected = IF @ = 0 THEN 0 ELSE @ - 1]
  <2>1. /\ s \in Readers /\ s.selected = (IF info.selected = 0 THEN 0 ELSE info.selected - 1)
        /\ s.loaded = info.loaded /\ s.file = info.file /\ s.current = info.current /\ s.history = info.history
    BY <1>1 DEF Readers
  <2>2. info' = ScrollToSelected(s)
    BY <1>9 DEF SelectUp
  <2> HIDE DEF s
  <2>3. s.selected < Len(RefsOf(info)) \/ (s.selected = 0 /\ info.selected = 0)
    <3>1. info.selected \in Nat /\ (info.selected = 0 \/ info.selected < Len(RefsOf(info)))
      BY <1>1 DEF ReaderIsSound, Readers
    <3>2. CASE info.selected = 0
      BY <2>1, <3>2
    <3>3. CASE info.selected # 0
      <4>1. s.selected = info.selected - 1 /\ info.selected < Len(RefsOf(info))
        BY <2>1, <3>1, <3>3
      <4> QED
        BY <1>8, <3>1, <4>1
    <3> QED
      BY <3>2, <3>3
  <2> QED
    BY <1>6, <2>1, <2>2, <2>3
<1>10. CASE SelectDown
  <2> DEFINE s == [info EXCEPT !.selected = @ + 1]
  <2>1. /\ s \in Readers /\ s.selected = info.selected + 1
        /\ s.loaded = info.loaded /\ s.file = info.file /\ s.current = info.current /\ s.history = info.history
    BY <1>1 DEF Readers
  <2>2. info' = ScrollToSelected(s) /\ info.selected + 1 < Len(RefsOf(info))
    BY <1>10 DEF SelectDown
  <2> HIDE DEF s
  <2>3. s.selected < Len(RefsOf(info)) \/ (s.selected = 0 /\ info.selected = 0)
    BY <2>1, <2>2
  <2> QED
    BY <1>6, <2>1, <2>2, <2>3
<1>11. ASSUME NEW scroll \in Nat, NEW viewport \in Nat, info' = [info EXCEPT !.scroll = scroll, !.viewport = viewport]
      PROVE  ReaderIsSound(info') /\ SelectionIsSeen
  <2>1. /\ info' \in Readers /\ info'.selected = info.selected
        /\ info'.loaded = info.loaded /\ info'.file = info.file /\ info'.current = info.current /\ info'.history = info.history
    BY <1>1, <1>11 DEF Readers
  <2>2. info.selected = 0 \/ info.selected < Len(RefsOf(info))
    BY DEF ReaderIsSound
  <2> QED
    BY <2>1, <2>2, LookingAround DEF SelectionIsSeen
<1>12. info = [info EXCEPT !.scroll = info.scroll, !.viewport = info.viewport] /\ info.scroll \in Nat /\ info.viewport \in Nat
  BY <1>1 DEF Readers
<1>17. \A v : [info EXCEPT !.scroll = v] = [info EXCEPT !.scroll = v, !.viewport = info.viewport]
  BY <1>1 DEF Readers
<1>13. CASE PageDown
  <2> DEFINE node == CHOOSE n \in Shown(info) : TRUE
             lines == IF Shown(info) = {} THEN 0 ELSE Len(node.lines)
             last == IF lines = 0 THEN 0 ELSE lines - 1
  <2>1. lines \in Nat
    <3>1. ASSUME Shown(info) # {}
          PROVE  Len(node.lines) \in Nat
      <4>1. node \in Shown(info)
        BY <3>1
      <4>2. PICK c \in DOMAIN InfoFiles[info.file] : node = InfoFiles[info.file][c]
        BY <1>1, <4>1, ShownIsAChunk DEF Readers
      <4> HIDE DEF node
      <4>3. IsListing(node.lines)
        BY <1>1, <4>2, InfoAssumption DEF Readers
      <4> QED
        BY <4>3, LenProperties DEF IsListing
    <3> QED
      BY <3>1
  <2>2. info' = [info EXCEPT !.scroll = IF @ + 10 < last THEN @ + 10 ELSE last]
    BY <1>13 DEF PageDown
  <2> HIDE DEF lines
  <2>3. last \in Nat
    BY <2>1
  <2> HIDE DEF last
  <2> DEFINE scroll == IF info.scroll + 10 < last THEN info.scroll + 10 ELSE last
  <2>4. scroll \in Nat /\ info' = [info EXCEPT !.scroll = scroll, !.viewport = info.viewport]
    <3>1. scroll \in Nat
      BY <1>12, <2>3
    <3>2. info' = [info EXCEPT !.scroll = scroll]
      BY <2>2
    <3> QED
      BY <1>17, <3>1, <3>2
  <2> QED
    BY <1>11, <1>12, <2>4
<1>14. CASE PageUp
  <2> DEFINE scroll == IF info.scroll < 10 THEN 0 ELSE info.scroll - 10
  <2>1. scroll \in Nat /\ info' = [info EXCEPT !.scroll = scroll, !.viewport = info.viewport]
    <3>1. scroll \in Nat
      BY <1>12
    <3>2. info' = [info EXCEPT !.scroll = scroll]
      BY <1>14 DEF PageUp
    <3> QED
      BY <1>17, <3>1, <3>2
  <2> QED
    BY <1>11, <1>12, <2>1
<1>15. CASE DrawInfo
  <2>1. PICK high \in InfoHeights : info' = [info EXCEPT !.viewport = high]
    BY <1>15 DEF DrawInfo
  <2>2. high \in Nat /\ info' = [info EXCEPT !.scroll = info.scroll, !.viewport = high]
    BY <1>1, <2>1, InfoAssumption DEF Readers
  <2> QED
    BY <1>11, <1>12, <2>2
<1>16. CASE Back
  <2> DEFINE h == info.history
             n == Len(info.history)
  <2>1. h \in Seq((DOMAIN InfoFiles) \X Nat) /\ n \in Nat /\ n # 0 /\ DOMAIN h = 1 .. n
    BY <1>1, <1>16, EmptySeq, LenProperties DEF Back, Readers
  <2>2. h[n] \in (DOMAIN InfoFiles) \X Nat
    BY <2>1, ElementOfSeq
  <2>3. /\ Front(h) \in Seq((DOMAIN InfoFiles) \X Nat) /\ Len(Front(h)) = n - 1
        /\ \A i \in 1 .. n - 1 : Front(h)[i] = h[i]
    BY <2>1, SubSeqProperties DEF Front
  <2>4. info' = [info EXCEPT !.file = h[n][1], !.current = h[n][2], !.history = Front(h), !.scroll = 0, !.selected = 0]
    BY <1>16 DEF Back, Last
  <2>5. /\ info' \in Readers /\ info'.selected = 0 /\ info'.file = h[n][1] /\ info'.current = h[n][2]
        /\ info'.history = Front(h) /\ info'.loaded = info.loaded
    BY <1>1, <2>2, <2>3, <2>4 DEF Readers
  <2>6. /\ Trail(info') \in Seq((DOMAIN InfoFiles) \X Nat) /\ Len(Trail(info')) = n
        /\ \A i \in 1 .. n - 1 : Trail(info')[i] = h[i]
        /\ Trail(info')[n] = h[n]
    <3>1. <<h[n][1], h[n][2]>> = h[n]
      BY <2>2
    <3>2. n - 1 + 1 = n
      BY <2>1
    <3>3. /\ Trail(info') \in Seq((DOMAIN InfoFiles) \X Nat) /\ Len(Trail(info')) = Len(info'.history) + 1
          /\ \A i \in 1 .. Len(info'.history) : Trail(info')[i] = info'.history[i]
          /\ Trail(info')[Len(info'.history) + 1] = <<info'.file, info'.current>>
      BY <2>5, TrailIsListed
    <3>4. Len(info'.history) = n - 1 /\ \A i \in 1 .. n - 1 : info'.history[i] = h[i]
      BY <2>3, <2>5
    <3> HIDE DEF n, h
    <3> QED
      BY <2>1, <2>5, <3>1, <3>2, <3>3, <3>4
  <2>7. Len(Trail(info)) = n + 1 /\ \A i \in 1 .. n : Trail(info)[i] = h[i]
    BY <1>1, TrailIsListed
  <2>8. DOMAIN Trail(info) = 1 .. n + 1 /\ DOMAIN Trail(info') = 1 .. n
    BY <1>1, <2>6, <2>7, TrailIsListed, LenProperties
  <2> HIDE DEF h, n
  <2>9. \A i \in 1 .. n : Trail(info')[i] = Trail(info)[i]
    BY <2>1, <2>6, <2>7
  <2>10. \A i \in DOMAIN Trail(info') : Trail(info')[i][1] \in info'.loaded /\ IsThere(Trail(info')[i])
    BY <2>1, <2>5, <2>8, <2>9 DEF ReaderIsSound
  <2>11. \A i \in 1 .. Len(Trail(info')) - 1 : Trail(info')[i] # Trail(info')[i + 1]
    <3> TAKE i \in 1 .. Len(Trail(info')) - 1
    <3>1. i \in 1 .. n /\ i + 1 \in 1 .. n /\ i \in 1 .. Len(Trail(info)) - 1
      BY <2>1, <2>6, <2>7
    <3>2. Trail(info)[i] # Trail(info)[i + 1]
      BY <3>1 DEF ReaderIsSound
    <3> QED
      BY <2>9, <3>1, <3>2
  <2>12. info'.history # info.history
    BY <2>1, <2>3, <2>5 DEF n, h
  <2> QED
    BY <2>5, <2>10, <2>11, <2>12 DEF ReaderIsSound, SelectionIsSeen
<1> QED
  BY <1>2, <1>4, <1>5, <1>9, <1>10, <1>13, <1>14, <1>15, <1>16 DEF InfoNext

\* It implies that every place of the trail exists.
LEMMA SoundReader == ReaderIsSound(info) => InfoPlacesExist
  BY DEF ReaderIsSound, InfoPlacesExist, Trail, IsThere

-----------------------------------------------------------------------------
(* The boxes at the cursor.                                                *)

\* The boxes at the cursor.
Boxes == [kind : DOMAIN Limits, rows : Nat, wide : Nat, at : Nat]

\* The selection of a box is one of its rows; help on a signature has none.
BoxIsSound == box \in Boxes /\ (box.at = 0 \/ box.at < box.rows) /\ (box.kind = "signature" => box.at = 0)

\* How many rows and columns each kind may have.
LEMMA LimitsAreKnown ==
  /\ DOMAIN Limits = {"completion", "references", "symbols", "actions", "hover", "signature"}
  /\ \A k \in DOMAIN Limits : /\ Limits[k].rows \in 8 .. 14 /\ Limits[k].low \in 14 .. 20
                              /\ Limits[k].high \in 48 .. 72
  BY DEF Limits, Completion, References, Symbols, CodeActions, Hover, Signature

\* It holds when a box opens.
LEMMA PopupStarts == PopupInit => BoxIsSound
  BY PopupAssumption DEF PopupInit, BoxIsSound, Boxes

\* Up and down keep it.
LEMMA PopupStep == BoxIsSound /\ [PopupNext]_popupVars => BoxIsSound'
<1> SUFFICES ASSUME BoxIsSound, [PopupNext]_popupVars
             PROVE  BoxIsSound'
  OBVIOUS
<1>1. CASE PopupUp
  BY <1>1 DEF PopupUp, BoxIsSound, Boxes
<1>2. CASE PopupDown
  BY <1>2 DEF PopupDown, BoxIsSound, Boxes
<1>3. CASE UNCHANGED popupVars
  BY <1>3 DEF popupVars, BoxIsSound
<1> QED
  BY <1>1, <1>2, <1>3 DEF PopupNext

\* The size of a box that opens: no wider than its pane, with a row at least.
LEMMA BoxFits ==
  ASSUME NEW b \in Boxes, NEW pane \in PopupPanes, Opens(b, pane)
  PROVE  /\ BoxWidth(b, pane) \in Nat /\ BoxWidth(b, pane) >= 14 /\ BoxWidth(b, pane) <= pane.width
         /\ BoxRows(b, pane) \in Nat /\ BoxRows(b, pane) >= 1
         /\ b.kind = "signature" => WrappedRows(b, pane) \in Nat /\ WrappedRows(b, pane) >= 1
         /\ b.kind # "signature" => BoxRows(b, pane) <= b.rows
<1>1. /\ pane.width \in Nat /\ pane.height \in Nat /\ b.rows \in Nat /\ b.wide \in Nat /\ b.rows > 0
      /\ b.kind \in DOMAIN Limits /\ pane.width >= Limits[b.kind].low /\ (b.kind = "signature" => b.wide > 0)
  BY PopupAssumption DEF Boxes, Opens
<1> DEFINE most == Limits[b.kind].rows
           low == Limits[b.kind].low
           high == Limits[b.kind].high
<1>2. most \in 8 .. 14 /\ low \in 14 .. 20 /\ high \in 48 .. 72
  BY <1>1, LimitsAreKnown
<1>3. BoxWidth(b, pane) = Smaller(Smaller(Larger(b.wide + 2, low), high), pane.width)
  BY DEF BoxWidth
<1>4. BoxRows(b, pane) = Smaller(most, IF b.kind = "signature" THEN Larger(WrappedRows(b, pane), 1) ELSE b.rows)
  BY DEF BoxRows
<1>5. pane.width >= low
  BY <1>1
<1> HIDE DEF most, low, high
<1>6. BoxWidth(b, pane) \in Nat /\ BoxWidth(b, pane) >= 14 /\ BoxWidth(b, pane) <= pane.width
  BY <1>1, <1>2, <1>3, <1>5 DEF Smaller, Larger
<1>7. ASSUME b.kind = "signature"
      PROVE  WrappedRows(b, pane) \in Nat /\ WrappedRows(b, pane) >= 1
  <2> DEFINE inner == BoxWidth(b, pane) - 2
             total == b.wide + inner - 1
  <2>1. WrappedRows(b, pane) = total \div inner
    BY DEF WrappedRows
  <2>2. inner \in Nat /\ inner >= 1 /\ total \in Nat /\ total >= inner
    BY <1>1, <1>6, <1>7
  <2> HIDE DEF inner, total
  <2>3. total \div inner \in Nat /\ total \div inner >= 1
    BY <2>2
  <2> QED
    BY <2>1, <2>3
<1> QED
  BY <1>1, <1>2, <1>4, <1>6, <1>7 DEF Smaller, Larger

\* Where a box is drawn, its selection is inside its frame, and the frame inside the pane.
LEMMA BoxShowsTheSelection ==
  ASSUME BoxIsSound, NEW pane \in PopupPanes, Opens(box, pane),
         NEW cx \in pane.x .. pane.x + pane.width - 1, NEW cy \in pane.y .. pane.y + pane.height - 1
  PROVE  LET p == Placed(box, pane, cx, cy)
             drawn == DrawnAt(box, pane, cx, cy)
             fits == cy + 1 + p.height <= pane.y + pane.height \/ cy - p.height >= pane.y
         IN  /\ p.x >= pane.x /\ p.x + p.width <= pane.x + pane.width
             /\ p.height <= pane.height =>
                   /\ p.y >= pane.y /\ p.y + p.height <= pane.y + pane.height
                   /\ box.at \in DOMAIN drawn
                   /\ \A i \in DOMAIN drawn : drawn[i] \in p.y + 1 .. p.y + p.height - 2
                   /\ box.kind \notin {"hover", "signature"} => Cardinality(DOMAIN drawn) = p.height - 2
             /\ fits => cy \notin p.y .. p.y + p.height - 1
<1> DEFINE inside == BoxRows(box, pane)
           height == inside + 2
           width == BoxWidth(box, pane)
           y == IF box.kind = "signature" THEN AboveFirst(cy, height, pane) ELSE BelowFirst(cy, height, pane)
           x == Smaller(cx, pane.x + pane.width - width)
           p == Placed(box, pane, cx, cy)
           drawn == DrawnAt(box, pane, cx, cy)
           start == PopupStart(box, inside)
           count == IF box.kind = "signature" THEN WrappedRows(box, pane) ELSE box.rows
<1>1. /\ pane.x \in Nat /\ pane.y \in Nat /\ pane.width \in Nat /\ pane.height \in Nat
      /\ cx \in Int /\ cy \in Int /\ cx >= pane.x /\ cy >= pane.y /\ cy <= pane.y + pane.height - 1
      /\ cx <= pane.x + pane.width - 1
  BY PopupAssumption
<1>2. /\ width \in Nat /\ width >= 14 /\ width <= pane.width /\ inside \in Nat /\ inside >= 1
      /\ (box.kind = "signature" => WrappedRows(box, pane) \in Nat /\ WrappedRows(box, pane) >= 1)
      /\ (box.kind # "signature" => inside <= box.rows)
  BY BoxFits DEF BoxIsSound
<1>3. /\ box.at \in Nat /\ box.rows \in Nat /\ (box.at = 0 \/ box.at < box.rows) /\ (box.kind = "signature" => box.at = 0)
      /\ box.rows > 0
  BY DEF BoxIsSound, Boxes, Opens
<1>4. p = [x |-> x, y |-> y, width |-> width, height |-> height]
  BY DEF Placed
<1>5. p.x = x /\ p.y = y /\ p.width = width /\ p.height = height /\ p.height - 2 = inside
  BY <1>2, <1>4
<1>6. drawn = [i \in {k \in start .. start + height - 3 : k < count} |-> y + 1 + i - start]
  BY <1>5 DEF DrawnAt
<1>7. x >= pane.x /\ x + width <= pane.x + pane.width
  BY <1>1, <1>2 DEF Smaller
<1> HIDE DEF inside, width
<1>8. y \in Int /\ (height <= pane.height => y >= pane.y /\ y + height <= pane.y + pane.height)
  BY <1>1, <1>2 DEF AboveFirst, BelowFirst, Larger
<1>9. cy + 1 + height <= pane.y + pane.height \/ cy - height >= pane.y => cy \notin y .. y + height - 1
  BY <1>1, <1>2 DEF AboveFirst, BelowFirst, Larger
<1>10. /\ start \in Nat /\ start <= box.at /\ box.at <= start + height - 3 /\ box.at < count /\ count \in Nat
       /\ (box.kind \notin {"hover", "signature"} => start + height - 3 < count)
  <2>1. CASE box.kind = "hover"
    BY <1>2, <1>3, <2>1 DEF PopupStart, Smaller, Larger
  <2>2. CASE box.kind = "signature"
    BY <1>2, <1>3, <2>2 DEF PopupStart
  <2>3. CASE box.kind \notin {"hover", "signature"}
    BY <1>2, <1>3, <2>3 DEF PopupStart
  <2> QED
    BY <2>1, <2>2, <2>3
<1> HIDE DEF y, start, count
<1>11. DOMAIN drawn = {k \in start .. start + height - 3 : k < count}
  BY <1>6
<1>12. \A i \in DOMAIN drawn : drawn[i] \in y + 1 .. y + height - 2
  BY <1>2, <1>6, <1>8, <1>10, <1>11
<1>13. box.at \in DOMAIN drawn
  BY <1>2, <1>3, <1>10, <1>11
<1>14. ASSUME box.kind \notin {"hover", "signature"}
       PROVE  Cardinality(DOMAIN drawn) = inside
  <2>1. DOMAIN drawn = start .. start + height - 3
    BY <1>2, <1>10, <1>11, <1>14
  <2>2. PICK first \in Int, last \in Int : first = start /\ last = start + height - 3
    BY <1>2, <1>10
  <2>3. Cardinality(first .. last) = IF first > last THEN 0 ELSE last - first + 1
    BY <2>2, FS_Interval
  <2> HIDE DEF drawn
  <2> QED
    BY <1>2, <1>10, <2>1, <2>2, <2>3
<1> HIDE DEF p, drawn, height, x
<1>15. inside = p.height - 2 /\ p.y = y /\ p.height = height
  BY <1>5
<1> QED
  BY <1>5, <1>7, <1>8, <1>9, <1>12, <1>13, <1>14, <1>15 DEF p, drawn

\* So the box on the screen shows its selection.
LEMMA BoxesAreSound == BoxIsSound => PopupShowsTheSelection
  BY BoxShowsTheSelection DEF PopupShowsTheSelection

-----------------------------------------------------------------------------
(* The agent's transcript.                                                 *)

\* Who a line of the transcript is by.
Speakers == {"user", "agent", "system", "removed", "added"}

\* The tokens that are streamed.
Marks == Nat \ {0}

\* What a line says: a note, or tokens.
ChatTexts == {Note} \cup Seq(Marks)

\* The lines of a transcript.
ChatLines == [by : Speakers, text : ChatTexts]

\* A panel that says this of the agent, on lines of the agent; while it streams, the last
\* line is the agent's.
PanelSays(c, said) ==
    /\ c \in [lines : Seq(ChatLines), streaming : BOOLEAN]
    /\ FlattenSeq(Talk(c.lines)) = said
    /\ \A n \in DOMAIN c.lines : Said(c.lines[n].text) # <<>> => c.lines[n].by = "agent"
    /\ c.streaming =>
          c.lines # <<>> /\ c.lines[Len(c.lines)].by = "agent" /\ c.lines[Len(c.lines)].text \in Seq(Marks)

\* The panel says what the agent said, and a question is about a line that is there.
ChatInv ==
    /\ PanelSays(chat, host.said)
    /\ host \in [running : BOOLEAN, pending : Questions \cup {"none"}, asked : Nat, streamed : BOOLEAN, said : Seq(Marks)]
    /\ host.asked <= Len(chat.lines)

\* A line of tokens says them; a note says nothing.
LEMMA SaidIsMarks == \A text \in ChatTexts : Said(text) \in Seq(Marks) /\ (text \in Seq(Marks) => Said(text) = text)
<1>1. <<0>> \notin Seq(Marks)
  <2> SUFFICES ASSUME NEW s \in Seq(Marks), s = << 0 >>
               PROVE  FALSE
    OBVIOUS
  <2>1. Len(s) = 1 /\ s[1] = 0
    OBVIOUS
  <2>2. s[1] \in Marks
    BY <2>1
  <2> QED
    BY <2>1, <2>2 DEF Marks
<1>2. <<>> \in Seq(Marks)
  OBVIOUS
<1> QED
  BY <1>1, <1>2 DEF Said, ChatTexts, Note

\* The talk has the words of each line.
LEMMA TalkIsMarks ==
  ASSUME NEW lines \in Seq(ChatLines)
  PROVE  Talk(lines) \in Seq(Seq(Marks)) /\ Len(Talk(lines)) = Len(lines)
<1>1. \A n \in 1 .. Len(lines) : Said(lines[n].text) \in Seq(Marks)
  <2> TAKE n \in 1 .. Len(lines)
  <2>1. lines[n] \in ChatLines
    OBVIOUS
  <2>2. lines[n].text \in ChatTexts
    BY <2>1 DEF ChatLines
  <2> QED
    BY <2>2, SaidIsMarks
<1>2. Talk(lines) = [n \in 1 .. Len(lines) |-> Said(lines[n].text)]
  BY DEF Talk
<1> QED
  BY <1>1, <1>2

\* One more line is said last.
LEMMA TalkGrows ==
  ASSUME NEW lines \in Seq(ChatLines), NEW entry \in ChatLines
  PROVE  FlattenSeq(Talk(Append(lines, entry))) = FlattenSeq(Talk(lines)) \o Said(entry.text)
<1>1. /\ Talk(lines) \in Seq(Seq(Marks)) /\ Len(Talk(lines)) = Len(lines)
      /\ Talk(Append(lines, entry)) \in Seq(Seq(Marks)) /\ Len(Talk(Append(lines, entry))) = Len(lines) + 1
  BY TalkIsMarks, AppendProperties
<1>2. Said(entry.text) \in Seq(Marks)
  BY SaidIsMarks DEF ChatLines
<1>3. Talk(Append(lines, entry)) = Append(Talk(lines), Said(entry.text))
  <2> DEFINE n == Len(lines)
  <2>1. /\ Append(Talk(lines), Said(entry.text)) \in Seq(Seq(Marks))
        /\ Len(Append(Talk(lines), Said(entry.text))) = n + 1
        /\ \A i \in 1 .. n : Append(Talk(lines), Said(entry.text))[i] = Talk(lines)[i]
        /\ Append(Talk(lines), Said(entry.text))[n + 1] = Said(entry.text)
    BY <1>1, <1>2, AppendProperties
  <2>2. /\ Append(lines, entry) \in Seq(ChatLines) /\ Len(Append(lines, entry)) = n + 1
        /\ \A i \in 1 .. n : Append(lines, entry)[i] = lines[i]
        /\ Append(lines, entry)[n + 1] = entry
    BY AppendProperties
  <2>3. \A i \in 1 .. n + 1 : Talk(Append(lines, entry))[i] = Said(Append(lines, entry)[i].text)
    BY <2>2 DEF Talk
  <2>4. \A i \in 1 .. n : Talk(lines)[i] = Said(lines[i].text)
    BY DEF Talk
  <2>5. \A i \in 1 .. n + 1 : Talk(Append(lines, entry))[i] = Append(Talk(lines), Said(entry.text))[i]
    <3> TAKE i \in 1 .. n + 1
    <3>1. CASE i \in 1 .. n
      BY <2>1, <2>2, <2>3, <2>4, <3>1
    <3>2. CASE i = n + 1
      BY <2>1, <2>2, <2>3, <3>2
    <3>3. n \in Nat
      BY LenProperties
    <3> HIDE DEF n
    <3>4. i \in 1 .. n \/ i = n + 1
      BY <3>3
    <3> QED
      BY <3>1, <3>2, <3>4
  <2> QED
    BY <1>1, <2>1, <2>5, SeqEqual
<1> QED
  BY <1>1, <1>2, <1>3, FlattenAppend

\* A note that is pushed ends the streaming and says nothing.
LEMMA PushSays ==
  ASSUME NEW c, NEW said \in Seq(Marks), PanelSays(c, said), NEW by \in Speakers
  PROVE  /\ PanelSays(ChatPush(c, by, Note), said)
         /\ Len(ChatPush(c, by, Note).lines) = Len(c.lines) + 1
<1> DEFINE entry == [by |-> by, text |-> Note]
           d == ChatPush(c, by, Note)
<1>1. entry \in ChatLines /\ Said(entry.text) = <<>>
  BY DEF ChatLines, ChatTexts, Said
<1>2. c \in [lines : Seq(ChatLines), streaming : BOOLEAN]
  BY DEF PanelSays
<1>3. d.lines = Append(c.lines, entry) /\ d.streaming = FALSE
  BY <1>2 DEF ChatPush
<1>4. d \in [lines : Seq(ChatLines), streaming : BOOLEAN]
  <2>1. Append(c.lines, entry) \in Seq(ChatLines)
    BY <1>1, <1>2
  <2>2. ASSUME NEW L, c \in [lines : L, streaming : BOOLEAN], NEW l \in L
        PROVE  [c EXCEPT !.streaming = FALSE, !.lines = l] \in [lines : L, streaming : BOOLEAN]
    BY <2>2
  <2>3. d = [c EXCEPT !.streaming = FALSE, !.lines = Append(c.lines, entry)]
    BY DEF ChatPush
  <2> HIDE DEF d, entry
  <2> QED
    BY <1>2, <2>1, <2>2, <2>3
<1> HIDE DEF entry, d
<1>5. /\ Len(d.lines) = Len(c.lines) + 1 /\ d.lines[Len(c.lines) + 1] = entry
      /\ \A i \in 1 .. Len(c.lines) : d.lines[i] = c.lines[i]
  BY <1>1, <1>2, <1>3, AppendProperties
<1>6. FlattenSeq(Talk(d.lines)) = said
  <2>1. FlattenSeq(Talk(d.lines)) = FlattenSeq(Talk(c.lines)) \o Said(entry.text)
    BY <1>1, <1>2, <1>3, TalkGrows
  <2>2. FlattenSeq(Talk(c.lines)) = said
    BY DEF PanelSays
  <2> QED
    BY <1>1, <2>1, <2>2, ConcatEmptySeq
<1>7. \A n \in DOMAIN d.lines : Said(d.lines[n].text) # <<>> => d.lines[n].by = "agent"
  <2>1. \A n \in DOMAIN c.lines : Said(c.lines[n].text) # <<>> => c.lines[n].by = "agent"
    BY DEF PanelSays
  <2>2. DOMAIN d.lines = 1 .. Len(c.lines) + 1 /\ DOMAIN c.lines = 1 .. Len(c.lines) /\ Len(c.lines) \in Nat
    BY <1>2, <1>4, <1>5
  <2> QED
    BY <1>1, <1>5, <2>1, <2>2
<1> QED
  BY <1>3, <1>4, <1>5, <1>6, <1>7 DEF PanelSays, d

\* A line with one more token.
LEMMA LineGrows ==
  ASSUME NEW B, NEW T, NEW l \in [by : B, text : T], NEW token
  PROVE  [l EXCEPT !.text = Append(@, token)] = [by |-> l.by, text |-> Append(l.text, token)]
  OBVIOUS

\* A token is added to what is said, on a line of the agent's.
LEMMA TokenSays ==
  ASSUME NEW c, NEW said \in Seq(Marks), PanelSays(c, said), NEW token \in Marks
  PROVE  /\ PanelSays(StreamToken(c, token), Append(said, token))
         /\ Len(StreamToken(c, token).lines) >= Len(c.lines)
<1> DEFINE d == StreamToken(c, token)
           n == Len(c.lines)
<1>1. c \in [lines : Seq(ChatLines), streaming : BOOLEAN] /\ n \in Nat
  BY DEF PanelSays
<1>2. \A i \in 1 .. n : Said(c.lines[i].text) # <<>> => c.lines[i].by = "agent"
  BY <1>1 DEF PanelSays
<1>3. FlattenSeq(Talk(c.lines)) = said
  BY DEF PanelSays
<1>4. CASE ~c.streaming
  <2> DEFINE entry == [by |-> "agent", text |-> <<token>>]
  <2>1. /\ entry \in ChatLines /\ <<token>> \in Seq(Marks) /\ entry.text = <<token>> /\ entry.by = "agent"
        /\ Said(entry.text) = <<token>>
    <3>1. <<token>> \in Seq(Marks) /\ <<token>> \in ChatTexts
      BY DEF ChatTexts
    <3>2. Said(<<token>>) = <<token>>
      BY <3>1, SaidIsMarks
    <3> QED
      BY <3>1, <3>2 DEF ChatLines, Speakers
  <2>2. d = [lines |-> Append(c.lines, entry), streaming |-> TRUE]
    BY <1>1, <1>4 DEF StreamToken, ChatPush
  <2> HIDE DEF entry, d, n
  <2>3. /\ Append(c.lines, entry) \in Seq(ChatLines) /\ Len(Append(c.lines, entry)) = n + 1
        /\ Append(c.lines, entry)[n + 1] = entry
        /\ \A i \in 1 .. n : Append(c.lines, entry)[i] = c.lines[i]
    BY <1>1, <2>1, AppendProperties DEF n
  <2>4. FlattenSeq(Talk(Append(c.lines, entry))) = Append(said, token)
    <3>1. FlattenSeq(Talk(Append(c.lines, entry))) = said \o <<token>>
      BY <1>1, <1>3, <2>1, TalkGrows
    <3> QED
      BY <3>1, AppendIsConcat
  <2>5. /\ d.lines = Append(c.lines, entry) /\ d.streaming /\ d \in [lines : Seq(ChatLines), streaming : BOOLEAN]
    BY <2>2, <2>3
  <2>6. d.lines # <<>>
    BY <1>1, <2>3, <2>5
  <2>7. \A i \in DOMAIN d.lines : Said(d.lines[i].text) # <<>> => d.lines[i].by = "agent"
    BY <1>1, <1>2, <2>1, <2>3, <2>5
  <2>8. d.lines[Len(d.lines)] = entry /\ Len(d.lines) >= n
    BY <1>1, <2>3, <2>5
  <2> QED
    BY <2>1, <2>4, <2>5, <2>6, <2>7, <2>8 DEF PanelSays, d, n
<1>5. CASE c.streaming
  <2>1. n # 0 /\ n \in 1 .. n /\ c.lines[n].by = "agent" /\ c.lines[n].text \in Seq(Marks) /\ c.lines[n] \in ChatLines
    BY <1>1, <1>5 DEF PanelSays
  <2> DEFINE earlier == SubSeq(c.lines, 1, n - 1)
             last == c.lines[n]
             entry == [last EXCEPT !.text = Append(@, token)]
  <2>2. /\ entry \in ChatLines /\ entry.text \in Seq(Marks) /\ entry.by = "agent" /\ entry.text = Append(last.text, token)
        /\ Said(entry.text) = Append(last.text, token) /\ Said(last.text) = last.text
    <3>1. Append(last.text, token) \in Seq(Marks) /\ last.text \in ChatTexts /\ Append(last.text, token) \in ChatTexts
      BY <2>1 DEF ChatTexts
    <3>2. entry = [by |-> "agent", text |-> Append(last.text, token)]
      <4>1. last \in ChatLines /\ last.by = "agent"
        BY <2>1
      <4>2. \A B, T : \A l \in [by : B, text : T] :
               [l EXCEPT !.text = Append(@, token)] = [by |-> l.by, text |-> Append(l.text, token)]
        BY LineGrows
      <4>3. entry = [by |-> last.by, text |-> Append(last.text, token)]
        <5>1. last \in [by : Speakers, text : ChatTexts]
          BY <4>1 DEF ChatLines
        <5> HIDE DEF last
        <5> QED
          BY <5>1, <4>2, Zenon
      <4> QED
        BY <4>1, <4>3
    <3>3. Said(Append(last.text, token)) = Append(last.text, token) /\ Said(last.text) = last.text
      BY <2>1, <3>1, SaidIsMarks
    <3> QED
      BY <2>1, <3>1, <3>2, <3>3 DEF ChatLines, Speakers
  <2>3. d = [lines |-> [c.lines EXCEPT ![n] = entry], streaming |-> c.streaming]
    BY <1>1, <1>5 DEF StreamToken
  <2> HIDE DEF entry, d, last
  <2>4. /\ earlier \in Seq(ChatLines) /\ Len(earlier) = n - 1 /\ \A i \in 1 .. n - 1 : earlier[i] = c.lines[i]
    <3>1. \A i \in 1 .. n - 1 : c.lines[i] \in ChatLines
      BY <1>1
    <3>2. \A i \in 1 .. (n - 1) - 1 + 1 : earlier[i] = c.lines[1 + i - 1]
      BY <1>1, <3>1, SubSeqProperties
    <3>3. earlier \in Seq(ChatLines) /\ Len(earlier) = IF 1 <= n - 1 THEN (n - 1) - 1 + 1 ELSE 0
      BY <1>1, <3>1, SubSeqProperties
    <3>4. n - 1 \in Nat /\ (n - 1) - 1 + 1 = n - 1
      BY <1>1, <2>1
    <3>5. Len(earlier) = n - 1
      BY <3>3, <3>4
    <3>6. \A i \in 1 .. n - 1 : earlier[i] = c.lines[1 + i - 1] /\ 1 + i - 1 = i
      BY <3>2, <3>4
    <3> QED
      BY <3>3, <3>5, <3>6
  <2> HIDE DEF earlier, n
  <2>5. Append(earlier, last) = c.lines
    <3>1. /\ Append(earlier, last) \in Seq(ChatLines) /\ Len(Append(earlier, last)) = n
          /\ Append(earlier, last)[n] = c.lines[n] /\ \A i \in 1 .. n - 1 : Append(earlier, last)[i] = c.lines[i]
      BY <1>1, <2>1, <2>4, AppendProperties DEF last
    <3>2. \A i \in 1 .. n : Append(earlier, last)[i] = c.lines[i]
      BY <1>1, <3>1
    <3> QED
      BY <1>1, <3>1, <3>2, SeqEqual DEF n
  <2>6. /\ [c.lines EXCEPT ![n] = entry] \in Seq(ChatLines) /\ Len([c.lines EXCEPT ![n] = entry]) = n
        /\ [c.lines EXCEPT ![n] = entry][n] = entry
        /\ \A i \in 1 .. n - 1 : [c.lines EXCEPT ![n] = entry][i] = c.lines[i]
    BY <1>1, <2>1, <2>2, ExceptSeq DEF n
  <2>7. Append(earlier, entry) = [c.lines EXCEPT ![n] = entry]
    <3>1. /\ Append(earlier, entry) \in Seq(ChatLines) /\ Len(Append(earlier, entry)) = n
          /\ Append(earlier, entry)[n] = entry /\ \A i \in 1 .. n - 1 : Append(earlier, entry)[i] = c.lines[i]
      BY <1>1, <2>1, <2>2, <2>4, AppendProperties
    <3>2. \A i \in 1 .. n : Append(earlier, entry)[i] = [c.lines EXCEPT ![n] = entry][i]
      BY <1>1, <2>6, <3>1
    <3> QED
      BY <1>1, <2>6, <3>1, <3>2, SeqEqual
  <2>8. FlattenSeq(Talk([c.lines EXCEPT ![n] = entry])) = Append(said, token)
    <3>1. FlattenSeq(Talk(earlier)) \o last.text = said
      <4>1. FlattenSeq(Talk(Append(earlier, last))) = FlattenSeq(Talk(earlier)) \o Said(last.text)
        BY <2>1, <2>4, TalkGrows DEF last
      <4> QED
        BY <1>3, <2>2, <2>5, <4>1
    <3>2. FlattenSeq(Talk([c.lines EXCEPT ![n] = entry])) = FlattenSeq(Talk(earlier)) \o Append(last.text, token)
      <4>1. FlattenSeq(Talk(Append(earlier, entry))) = FlattenSeq(Talk(earlier)) \o Said(entry.text)
        BY <2>2, <2>4, TalkGrows
      <4> QED
        BY <2>2, <2>7, <4>1
    <3>3. FlattenSeq(Talk(earlier)) \in Seq(Marks)
      BY <2>4, TalkIsMarks, FlattenType
    <3>4. last.text \in Seq(Marks) /\ <<token>> \in Seq(Marks)
      BY <2>1 DEF last
    <3>5. Append(last.text, token) = last.text \o <<token>> /\ Append(said, token) = said \o <<token>>
      BY <3>4, AppendIsConcat
    <3>6. (FlattenSeq(Talk(earlier)) \o last.text) \o <<token>> = FlattenSeq(Talk(earlier)) \o (last.text \o <<token>>)
      <4>1. \A a, b, t \in Seq(Marks) : (a \o b) \o t = a \o (b \o t)
        BY ConcatAssociative
      <4> QED
        BY <3>3, <3>4, <4>1
    <3> QED
      BY <3>1, <3>2, <3>5, <3>6
  <2>9. /\ d.lines = [c.lines EXCEPT ![n] = entry] /\ d \in [lines : Seq(ChatLines), streaming : BOOLEAN]
    BY <1>1, <2>3, <2>6
  <2>10. d.lines # <<>>
    BY <1>1, <2>1, <2>6, <2>9
  <2>11. \A i \in DOMAIN d.lines : Said(d.lines[i].text) # <<>> => d.lines[i].by = "agent"
    BY <1>1, <1>2, <2>1, <2>2, <2>6, <2>9
  <2>12. d.lines[Len(d.lines)] = entry /\ Len(d.lines) >= n
    BY <1>1, <2>1, <2>6, <2>9
  <2> QED
    BY <2>2, <2>8, <2>9, <2>10, <2>11, <2>12 DEF PanelSays, d, n
<1> QED
  BY <1>1, <1>4, <1>5

\* It holds with an empty transcript.
LEMMA ChatStarts == ChatInit => ChatInv
<1> SUFFICES ASSUME ChatInit
             PROVE  ChatInv
  OBVIOUS
<1>1. Talk(<<>>) = <<>> /\ FlattenSeq(Talk(<<>>)) = <<>>
  <2>1. Talk(<<>>) \in Seq(Seq(Marks)) /\ Len(Talk(<<>>)) = 0
    BY TalkIsMarks, EmptySeq
  <2>2. Talk(<<>>) = <<>>
    BY <2>1, EmptySeq
  <2> QED
    BY <2>1, <2>2, FlattenType
<1>2. chat \in [lines : Seq(ChatLines), streaming : BOOLEAN] /\ chat.lines = <<>> /\ ~chat.streaming
  BY DEF ChatInit
<1>3. /\ host \in [running : BOOLEAN, pending : Questions \cup {"none"}, asked : Nat, streamed : BOOLEAN, said : Seq(Marks)]
      /\ host.said = <<>> /\ host.asked = 0
  BY DEF ChatInit
<1>4. PanelSays(chat, host.said)
  BY <1>1, <1>2, <1>3, EmptySeq DEF PanelSays
<1> QED
  BY <1>2, <1>3, <1>4, EmptySeq DEF ChatInv

\* Every line, token and answer keeps it.
LEMMA ChatStep == ChatInv /\ [ChatNext]_chatVars => ChatInv'
<1> SUFFICES ASSUME ChatInv, [ChatNext]_chatVars
             PROVE  ChatInv'
  OBVIOUS
<1> DEFINE Hosts == [running : BOOLEAN, pending : Questions \cup {"none"}, asked : Nat, streamed : BOOLEAN, said : Seq(Marks)]
<1>1. /\ PanelSays(chat, host.said) /\ host \in Hosts /\ host.said \in Seq(Marks)
      /\ host.asked \in Nat /\ host.asked <= Len(chat.lines) /\ Len(chat.lines) \in Nat
  BY DEF ChatInv, PanelSays
<1>2. ASSUME NEW c, PanelSays(c, host.said), NEW by \in Speakers, Len(c.lines) \in Nat, host.asked <= Len(c.lines)
      PROVE  /\ PanelSays(ChatPush(c, by, Note), host.said)
             /\ Len(ChatPush(c, by, Note).lines) \in Nat
             /\ host.asked <= Len(ChatPush(c, by, Note).lines) /\ Len(c.lines) <= Len(ChatPush(c, by, Note).lines)
  <2>1. PanelSays(ChatPush(c, by, Note), host.said) /\ Len(ChatPush(c, by, Note).lines) = Len(c.lines) + 1
    BY <1>1, <1>2, PushSays
  <2> QED
    BY <1>1, <1>2, <2>1
<1>3. ASSUME PanelSays(chat', host.said), host' \in Hosts, host'.said = host.said, host'.asked = host.asked, host.asked <= Len(chat'.lines)
      PROVE  ChatInv'
  BY <1>3 DEF ChatInv
<1>4. CASE \/ SubmitInput \/ AskPrompt
  <2>1. StartTurn(Note)
    BY <1>4 DEF SubmitInput, AskPrompt
  <2> DEFINE asked == ChatPush(chat, "user", Note)
  <2>2. /\ PanelSays(asked, host.said) /\ Len(asked.lines) \in Nat /\ host.asked <= Len(asked.lines)
    BY <1>1, <1>2 DEF Speakers
  <2> HIDE DEF asked
  <2>3. /\ PanelSays(ChatPush(asked, "system", Note), host.said)
        /\ host.asked <= Len(ChatPush(asked, "system", Note).lines)
    BY <1>2, <2>2 DEF Speakers
  <2>4. PanelSays(chat', host.said) /\ host.asked <= Len(chat'.lines)
    BY <2>1, <2>2, <2>3 DEF StartTurn, asked
  <2>5. host' \in Hosts /\ host'.said = host.said /\ host'.asked = host.asked
    BY <1>1, <2>1 DEF StartTurn
  <2> QED
    BY <1>3, <2>4, <2>5
<1>5. CASE AnswerApproval \/ StopTurn
  <2>1. chat' = ChatPush(chat, "system", Note) /\ host' = [host EXCEPT !.pending = "none"]
    BY <1>5 DEF AnswerApproval, StopTurn
  <2>2. PanelSays(chat', host.said) /\ host.asked <= Len(chat'.lines)
    BY <1>1, <1>2, <2>1 DEF Speakers
  <2>3. host' \in Hosts /\ host'.said = host.said /\ host'.asked = host.asked
    BY <1>1, <2>1
  <2> QED
    BY <1>3, <2>2, <2>3
<1>6. CASE TokenCame
  <2> DEFINE token == Len(host.said) + 1
  <2>1. chat' = StreamToken(chat, token) /\ host' = [host EXCEPT !.streamed = TRUE, !.said = Append(@, token)]
    BY <1>6 DEF TokenCame
  <2>2. token \in Marks
    BY <1>1 DEF Marks
  <2> HIDE DEF token
  <2>3. PanelSays(chat', Append(host.said, token)) /\ Len(chat'.lines) >= Len(chat.lines)
    BY <1>1, <2>1, <2>2, TokenSays
  <2>4. Append(host.said, token) \in Seq(Marks)
    BY <1>1, <2>2
  <2>5. host' \in Hosts /\ host'.said = Append(host.said, token) /\ host'.asked = host.asked
    BY <1>1, <2>1, <2>4
  <2>6. Len(chat'.lines) \in Nat
    BY <2>3 DEF PanelSays
  <2>7. host'.asked <= Len(chat'.lines)
    BY <1>1, <2>3, <2>5, <2>6
  <2> QED
    BY <2>3, <2>5, <2>7 DEF ChatInv
<1>7. CASE Finished
  <2>1. host' \in Hosts /\ host'.said = host.said /\ host'.asked = host.asked
    BY <1>1, <1>7 DEF Finished
  <2>2. CASE chat' = [chat EXCEPT !.streaming = FALSE]
    <3>1. chat'.lines = chat.lines /\ ~chat'.streaming /\ chat' \in [lines : Seq(ChatLines), streaming : BOOLEAN]
      BY <1>1, <2>2 DEF PanelSays
    <3>2. PanelSays(chat', host.said)
      BY <1>1, <3>1 DEF PanelSays
    <3> QED
      BY <1>1, <1>3, <2>1, <3>1, <3>2
  <2>3. CASE chat' = ChatPush(chat, "agent", Note)
    <3>1. PanelSays(chat', host.said) /\ host.asked <= Len(chat'.lines)
      BY <1>1, <1>2, <2>3 DEF Speakers
    <3> QED
      BY <1>3, <2>1, <3>1
  <2> QED
    BY <1>7, <2>2, <2>3 DEF Finished
<1>8. ASSUME NEW kind \in Questions, ApprovalCame(kind)
      PROVE  ChatInv'
  <2>1. chat' = Question(chat, kind) /\ host' = [host EXCEPT !.pending = kind, !.asked = Len(chat.lines)]
    BY <1>8 DEF ApprovalCame
  <2> DEFINE told == ChatPush(chat, "system", Note)
             second == ChatPush(told, "system", Note)
             third == ChatPush(second, "removed", Note)
             fourth == ChatPush(third, "added", Note)
  <2>2. PanelSays(told, host.said) /\ Len(told.lines) \in Nat /\ host.asked <= Len(told.lines) /\ Len(chat.lines) <= Len(told.lines)
    BY <1>1, <1>2 DEF Speakers
  <2>3. /\ chat' = (CASE kind = "shell" -> second [] kind = "edit" -> fourth [] kind = "other" -> told)
    BY <2>1 DEF Question
  <2> HIDE DEF told
  <2>4. PanelSays(second, host.said) /\ Len(second.lines) \in Nat /\ host.asked <= Len(second.lines) /\ Len(told.lines) <= Len(second.lines)
    BY <1>2, <2>2 DEF Speakers
  <2> HIDE DEF second
  <2>5. PanelSays(third, host.said) /\ Len(third.lines) \in Nat /\ host.asked <= Len(third.lines) /\ Len(second.lines) <= Len(third.lines)
    BY <1>2, <2>4 DEF Speakers
  <2> HIDE DEF third
  <2>6. PanelSays(fourth, host.said) /\ Len(fourth.lines) \in Nat /\ Len(third.lines) <= Len(fourth.lines)
    BY <1>2, <2>5 DEF Speakers
  <2> HIDE DEF fourth
  <2>7. PanelSays(chat', host.said) /\ Len(chat.lines) <= Len(chat'.lines)
    <3>1. CASE kind = "shell"
      BY <1>1, <2>2, <2>3, <2>4, <3>1
    <3>2. CASE kind = "edit"
      <4>1. chat' = fourth
        BY <2>3, <3>2
      <4>2. /\ Len(chat.lines) \in Nat /\ Len(told.lines) \in Nat /\ Len(second.lines) \in Nat
            /\ Len(third.lines) \in Nat /\ Len(fourth.lines) \in Nat
        BY <1>1, <2>2, <2>4, <2>5, <2>6 DEF PanelSays
      <4>3. Len(chat.lines) <= Len(fourth.lines)
        BY <2>2, <2>4, <2>5, <2>6, <4>2
      <4> QED
        BY <2>6, <4>1, <4>3
    <3>3. CASE kind = "other"
      BY <2>2, <2>3, <3>3
    <3> QED
      BY <1>8, <3>1, <3>2, <3>3 DEF Questions
  <2>8. host' \in Hosts /\ host'.said = host.said /\ host'.asked = Len(chat.lines)
    BY <1>1, <1>8, <2>1
  <2> QED
    BY <2>7, <2>8 DEF ChatInv
<1>9. CASE UNCHANGED chatVars
  BY <1>9 DEF chatVars, ChatInv
<1> QED
  BY <1>4, <1>5, <1>6, <1>7, <1>8, <1>9 DEF ChatNext

\* It implies that the transcript is the talk.
LEMMA TalkIsTheTranscript == ChatInv => TranscriptIsTheTalk
  BY DEF ChatInv, PanelSays, TranscriptIsTheTalk

\* The rows of a line are rows.
LEMMA RowsAreRows ==
  ASSUME NEW lines \in Seq(ChatLines), NEW n \in 1 .. Len(lines), NEW width \in Nat, width # 0
  PROVE  LineRows(lines, n, width) \in Seq(Nat \X Nat)
<1>1. lines[n].text \in ChatTexts /\ lines[n] \in ChatLines
  <2>1. lines[n] \in ChatLines
    OBVIOUS
  <2> QED
    BY <2>1 DEF ChatLines
<1>2. Len(lines[n].text) \in Nat
  <2>1. CASE lines[n].text = Note
    <3>1. Len(Note) = 1
      BY DEF Note
    <3> QED
      BY <2>1, <3>1
  <2>2. CASE lines[n].text \in Seq(Marks)
    BY <2>2, LenProperties
  <2> QED
    BY <1>1, <2>1, <2>2 DEF ChatTexts
<1>3. Marker(lines[n].by) \in Nat
  BY DEF Marker
<1> DEFINE cells == Marker(lines[n].by) + Len(lines[n].text) + width - 1
<1>4. cells \in Nat
  BY <1>2, <1>3
<1>5. LineRows(lines, n, width) = [k \in 1 .. cells \div width |-> <<n, k>>]
  BY DEF LineRows
<1> HIDE DEF cells
<1>6. cells \div width \in Nat
  BY <1>4
<1>7. \A k \in 1 .. cells \div width : <<n, k>> \in Nat \X Nat
  BY <1>6
<1> QED
  BY <1>5, <1>6, <1>7

\* The end of the transcript is what is shown, so a question that fits is on the screen.
LEMMA TheQuestionIsSeen == ChatInv => QuestionIsSeen
<1> SUFFICES ASSUME ChatInv, NEW width \in ChatWidths, NEW height \in ChatHeights
             PROVE  LET since == FlattenSeq([i \in 1 .. Len(chat.lines) - host.asked |->
                                                LineRows(chat.lines, host.asked + i, width)])
                    IN  Len(since) + 3 <= height =>
                            ToSet(since) \subseteq ToSet(ShownRows(chat.lines, width, height))
  BY DEF QuestionIsSeen
<1> DEFINE lines == chat.lines
           asked == host.asked
           S == Nat \X Nat
           ss == [n \in DOMAIN lines |-> LineRows(lines, n, width)]
           tt == [i \in 1 .. Len(lines) - asked |-> LineRows(lines, asked + i, width)]
           since == FlattenSeq(tt)
           drawn == DisplayRows(lines, width)
<1>1. /\ lines \in Seq(ChatLines) /\ asked \in Nat /\ asked <= Len(lines) /\ Len(lines) \in Nat
      /\ DOMAIN lines = 1 .. Len(lines)
  BY DEF ChatInv, PanelSays
<1>2. width \in Nat /\ width # 0 /\ height \in Nat
  BY ChatAssumption
<1> HIDE DEF lines, asked
<1>3. ss \in Seq(Seq(S)) /\ Len(ss) = Len(lines) /\ \A n \in 1 .. Len(lines) : ss[n] = LineRows(lines, n, width)
  <2>1. \A n \in 1 .. Len(lines) : LineRows(lines, n, width) \in Seq(S)
    BY <1>1, <1>2, RowsAreRows
  <2> HIDE DEF S
  <2> QED
    BY <1>1, <2>1
<1>4. tt \in Seq(Seq(S)) /\ Len(tt) = Len(lines) - asked
      /\ \A i \in 1 .. Len(lines) - asked : tt[i] = LineRows(lines, asked + i, width)
  <2>1. \A i \in 1 .. Len(lines) - asked : LineRows(lines, asked + i, width) \in Seq(S)
    BY <1>1, <1>2, RowsAreRows
  <2> HIDE DEF S
  <2> QED
    BY <1>1, <2>1
<1> HIDE DEF ss, tt, S
<1>5. tt = SubSeq(ss, asked + 1, Len(ss))
  <2>1. \A i \in asked + 1 .. Len(ss) : ss[i] \in Seq(S)
    BY <1>1, <1>3
  <2>2. asked + 1 \in Int /\ Len(ss) \in Int
    BY <1>1, <1>3
  <2>3. /\ SubSeq(ss, asked + 1, Len(ss)) \in Seq(Seq(S))
        /\ Len(SubSeq(ss, asked + 1, Len(ss))) = IF asked + 1 <= Len(ss) THEN Len(ss) - (asked + 1) + 1 ELSE 0
        /\ \A i \in 1 .. Len(ss) - (asked + 1) + 1 : SubSeq(ss, asked + 1, Len(ss))[i] = ss[asked + 1 + i - 1]
    BY <2>1, <2>2, SubSeqProperties
  <2>4. Len(SubSeq(ss, asked + 1, Len(ss))) = Len(tt)
    <3>1. Len(ss) \in Nat /\ Len(ss) = Len(lines) /\ Len(tt) = Len(lines) - asked
      BY <1>1, <1>3, <1>4
    <3>2. Len(SubSeq(ss, asked + 1, Len(ss))) = IF asked + 1 <= Len(ss) THEN Len(ss) - (asked + 1) + 1 ELSE 0
      BY <2>3
    <3>3. PICK n \in Nat, m \in Nat : n = Len(ss) /\ m = asked /\ m <= n
      BY <1>1, <3>1
    <3>4. Len(tt) = n - m
      BY <3>1, <3>3
    <3>5. Len(SubSeq(ss, asked + 1, Len(ss))) = IF m + 1 <= n THEN n - (m + 1) + 1 ELSE 0
      BY <3>2, <3>3
    <3> QED
      BY <3>3, <3>4, <3>5
  <2>5. \A i \in 1 .. Len(tt) : tt[i] = SubSeq(ss, asked + 1, Len(ss))[i]
    <3> TAKE i \in 1 .. Len(tt)
    <3>1. i \in 1 .. Len(ss) - (asked + 1) + 1 /\ asked + 1 + i - 1 = asked + i /\ asked + i \in 1 .. Len(lines)
      BY <1>1, <1>3, <1>4
    <3> QED
      BY <1>1, <1>3, <1>4, <2>3, <3>1
  <2> QED
    BY <1>4, <2>3, <2>4, <2>5, SeqEqual
<1>6. PICK before \in Seq(S) : drawn = before \o since
  <2>1. asked \in 0 .. Len(ss)
    BY <1>1, <1>3
  <2>2. FlattenSeq(ss) = FlattenSeq(SubSeq(ss, 1, asked)) \o FlattenSeq(SubSeq(ss, asked + 1, Len(ss)))
    BY <1>3, <2>1, FlattenSplits
  <2>3. drawn = FlattenSeq(ss)
    BY DEF DisplayRows, ss
  <2>4. FlattenSeq(SubSeq(ss, 1, asked)) \in Seq(S)
    <3>1. \A i \in 1 .. asked : ss[i] \in Seq(S)
      BY <1>1, <1>3
    <3>2. SubSeq(ss, 1, asked) \in Seq(Seq(S))
      BY <1>1, <3>1, SubSeqProperties
    <3> QED
      BY <3>2, FlattenType
  <2> QED
    BY <1>5, <2>2, <2>3, <2>4
<1>7. since \in Seq(S)
  BY <1>4, FlattenType
<1>8. ASSUME Len(since) + 3 <= height
      PROVE  ToSet(since) \subseteq ToSet(ShownRows(lines, width, height))
  <2> DEFINE room == IF height > 3 THEN height - 3 ELSE 0
             seen == ShownRows(lines, width, height)
  <2> HIDE DEF since
  <2>1. seen = IF room >= Len(drawn) THEN drawn ELSE SubSeq(drawn, Len(drawn) - room + 1, Len(drawn))
    BY DEF ShownRows
  <2>2. Len(since) \in Nat /\ Len(before) \in Nat
    BY <1>6, <1>7, LenProperties
  <2>3. room \in Nat /\ Len(since) <= room
    BY <1>2, <1>8, <2>2
  <2> HIDE DEF room, drawn
  <2>4. /\ drawn \in Seq(S) /\ Len(drawn) = Len(before) + Len(since)
        /\ \A i \in 1 .. Len(since) : drawn[Len(before) + i] = since[i]
    <3>1. /\ before \o since \in Seq(S) /\ Len(before \o since) = Len(before) + Len(since)
          /\ \A i \in 1 .. Len(before) + Len(since) : (before \o since)[i] = IF i <= Len(before) THEN before[i] ELSE since[i - Len(before)]
      BY <1>6, <1>7, ConcatProperties
    <3>2. \A i \in 1 .. Len(since) : drawn[Len(before) + i] = since[i]
      <4> TAKE i \in 1 .. Len(since)
      <4>1. Len(before) + i \in 1 .. Len(before) + Len(since) /\ ~(Len(before) + i <= Len(before)) /\ (Len(before) + i) - Len(before) = i
        BY <2>2
      <4> QED
        BY <1>6, <3>1, <4>1
    <3> QED
      BY <1>6, <3>1, <3>2
  <2>5. \A i \in 1 .. Len(since) : \E j \in DOMAIN seen : seen[j] = since[i]
    <3> TAKE i \in 1 .. Len(since)
    <3> DEFINE at == Len(before) + i
    <3>1. at \in 1 .. Len(drawn) /\ drawn[at] = since[i] /\ at \in Nat /\ at > Len(drawn) - room
      BY <2>2, <2>3, <2>4
    <3> HIDE DEF at
    <3>2. CASE room >= Len(drawn)
      BY <2>1, <2>4, <3>1, <3>2
    <3>3. CASE ~(room >= Len(drawn))
      <4> DEFINE first == Len(drawn) - room + 1
                 j == at - first + 1
      <4>1. seen = SubSeq(drawn, first, Len(drawn))
        BY <2>1, <3>3
      <4>2. /\ first \in Int /\ Len(drawn) \in Int /\ first >= 1 /\ first <= Len(drawn) + 1 /\ first <= at
            /\ j \in 1 .. Len(drawn) - first + 1 /\ first + j - 1 = at
        BY <2>2, <2>3, <2>4, <3>1, <3>3
      <4>3. \A k \in first .. Len(drawn) : drawn[k] \in S
        BY <2>4, <4>2
      <4> HIDE DEF first, j
      <4>4. \A k \in 1 .. Len(drawn) - first + 1 : SubSeq(drawn, first, Len(drawn))[k] = drawn[first + k - 1]
        BY <4>2, <4>3, SubSeqProperties
      <4>5. SubSeq(drawn, first, Len(drawn)) \in Seq(S)
        BY <4>2, <4>3, SubSeqProperties
      <4>6. Len(SubSeq(drawn, first, Len(drawn))) = IF first <= Len(drawn) THEN Len(drawn) - first + 1 ELSE 0
        BY <4>2, <4>3, SubSeqProperties
      <4>7. DOMAIN seen = 1 .. Len(drawn) - first + 1
        BY <3>1, <4>1, <4>2, <4>5, <4>6
      <4> QED
        BY <3>1, <4>1, <4>2, <4>4, <4>7
    <3> QED
      BY <3>2, <3>3
  <2>6. DOMAIN since = 1 .. Len(since)
    BY <1>7
  <2> HIDE DEF seen
  <2>7. ToSet(since) \subseteq ToSet(seen)
    BY <2>5, <2>6 DEF ToSet
  <2> QED
    BY <2>7 DEF seen
<1> QED
  BY <1>8 DEF lines, asked, tt

-----------------------------------------------------------------------------
(* A reply from a stream.                                                  *)

\* What a stream is made of.
EventsOf(Pieces) == [kind : {"token"}, part : Pieces]
                    \cup [kind : {"call"}, index : Nat, part : Pieces]
                    \cup [kind : {"noise", "end"}]

\* What is put together from it.
RepliesOf(Pieces) == [content : Seq(Pieces), calls : Seq(Seq(Pieces))]

\* The call at a place, counted from 1; nothing where there is none yet.
CallAt(reply, n) == IF n <= Len(reply.calls) THEN reply.calls[n] ELSE <<>>

\* What comes before the end is a stream.
LEMMA HeardIsAStream ==
  ASSUME NEW S, NEW events \in Seq(S)
  PROVE  BeforeEnd(events) \in Seq(S)
<1> DEFINE ends == {i \in DOMAIN events : events[i].kind = "end"}
           least == CHOOSE i \in ends : \A j \in ends : i <= j
<1>1. Len(events) \in Nat /\ DOMAIN events = 1 .. Len(events)
  OBVIOUS
<1>2. CASE ends = {}
  BY <1>2 DEF BeforeEnd
<1>3. CASE ends # {}
  <2>1. ends \in SUBSET Nat
    BY <1>1
  <2>2. \E i \in ends : \A j \in ends : i <= j
    <3> HIDE DEF ends
    <3> QED
      BY <1>3, <2>1, LeastIndex
  <2>3. least \in ends
    BY <2>2
  <2>4. least \in 1 .. Len(events)
    BY <1>1, <2>3
  <2>5. BeforeEnd(events) = SubSeq(events, 1, least - 1)
    BY <1>3 DEF BeforeEnd
  <2> HIDE DEF least
  <2>6. least - 1 \in 0 .. Len(events)
    BY <1>1, <2>4
  <2>7. SubSeq(events, 1, least - 1) \in Seq(S)
    BY <1>1, <2>6, SubSeqProperties
  <2> QED
    BY <2>5, <2>7
<1> QED
  BY <1>2, <1>3

\* What calls are after a piece.
HasPiece(new, calls, event, Pieces) ==
  /\ new \in Seq(Seq(Pieces))
  /\ Len(new) = (IF event.index < Len(calls) THEN Len(calls) ELSE event.index + 1)
  /\ \A n \in 1 .. Len(new) :
        new[n] = (IF n <= Len(calls) THEN calls[n] ELSE <<>>)
                 \o (IF n = event.index + 1 THEN <<event.part>> ELSE <<>>)

\* A piece is put at the end of its call, and of no other.
LEMMA PieceAdded ==
  ASSUME NEW Pieces, NEW calls \in Seq(Seq(Pieces)),
         NEW event \in [kind : {"call"}, index : Nat, part : Pieces]
  PROVE  HasPiece(AddPiece(calls, event), calls, event, Pieces)
<1> DEFINE k == event.index
           p == event.part
           N == IF k < Len(calls) THEN Len(calls) ELSE k + 1
           grown == [i \in 1 .. N |-> IF i \in DOMAIN calls THEN calls[i] ELSE <<>>]
           new == [grown EXCEPT ![k + 1] = Append(@, p)]
<1>0. k \in Nat /\ p \in Pieces
  OBVIOUS
<1>1. Len(calls) \in Nat /\ N \in Nat /\ k + 1 \in 1 .. N /\ Len(calls) <= N
      /\ DOMAIN calls = 1 .. Len(calls)
  BY <1>0
<1>2. AddPiece(calls, event) = new
  BY DEF AddPiece
<1> HIDE DEF N, k, p
<1>3. \A i \in 1 .. N : grown[i] \in Seq(Pieces) /\ grown[i] = IF i <= Len(calls) THEN calls[i] ELSE <<>>
  BY <1>1
<1>4. DOMAIN grown = 1 .. N
  OBVIOUS
<1> HIDE DEF grown
<1>5. DOMAIN new = 1 .. N /\ new[k + 1] = Append(grown[k + 1], p)
      /\ \A i \in 1 .. N : i # k + 1 => new[i] = grown[i]
  BY <1>1, <1>4
<1>6. \A s \in Seq(Pieces) : Append(s, p) = s \o <<p>> /\ s \o <<>> = s /\ Append(s, p) \in Seq(Pieces)
  BY <1>0, AppendIsConcat, ConcatEmptySeq, AppendProperties
<1>7. new = [i \in 1 .. N |-> new[i]]
  BY <1>4
<1> HIDE DEF new
<1>8. \A i \in 1 .. N : new[i] \in Seq(Pieces)
  BY <1>1, <1>3, <1>5, <1>6
<1>9. new \in Seq(Seq(Pieces)) /\ Len(new) = N
  <2>1. new \in [1 .. N -> Seq(Pieces)]
    BY <1>7, <1>8, Zenon
  <2> QED
    BY <1>1, <2>1
<1>10. ASSUME NEW n \in 1 .. N
       PROVE  new[n] = (IF n <= Len(calls) THEN calls[n] ELSE <<>>) \o (IF n = k + 1 THEN <<p>> ELSE <<>>)
  <2>1. CASE n = k + 1
    BY <1>3, <1>5, <1>6, <2>1
  <2>2. CASE n # k + 1
    BY <1>3, <1>5, <1>6, <2>2
  <2> QED
    BY <2>1, <2>2
<1> QED
  BY <1>2, <1>9, <1>10 DEF HasPiece, N, k, p

\* What an event adds to a reply is what it holds.
LEMMA EventAdded ==
  ASSUME NEW Pieces, NEW reply \in RepliesOf(Pieces), NEW event \in EventsOf(Pieces)
  PROVE  /\ AddEvent(reply, event) \in RepliesOf(Pieces)
         /\ AddEvent(reply, event).content = reply.content \o TokenIn(event)
         /\ \A n \in Nat \ {0} :
               CallAt(AddEvent(reply, event), n) = CallAt(reply, n) \o PieceIn(event, n - 1)
         /\ event.kind = "call" => event.index < Len(AddEvent(reply, event).calls)
         /\ Len(reply.calls) <= Len(AddEvent(reply, event).calls)
<1> DEFINE new == AddEvent(reply, event)
<1>0. /\ reply.content \in Seq(Pieces) /\ reply.calls \in Seq(Seq(Pieces))
      /\ Len(reply.calls) \in Nat
      /\ reply.content \o <<>> = reply.content
  BY DEF RepliesOf
<1>1. ASSUME NEW n \in Nat \ {0} PROVE CallAt(reply, n) \in Seq(Pieces) /\ CallAt(reply, n) \o <<>> = CallAt(reply, n)
  <2>1. CallAt(reply, n) \in Seq(Pieces)
    BY <1>0 DEF CallAt
  <2> QED
    BY <2>1
<1>2. CASE event \in [kind : {"token"}, part : Pieces]
  <2>1. event.kind = "token" /\ event.part \in Pieces
    BY <1>2
  <2>2. new = [reply EXCEPT !.content = Append(@, event.part)]
    BY <2>1 DEF AddEvent
  <2>3. /\ new \in RepliesOf(Pieces) /\ new.calls = reply.calls
        /\ new.content = Append(reply.content, event.part)
    <3>1. Append(reply.content, event.part) \in Seq(Pieces)
      BY <1>0, <2>1, AppendProperties
    <3> QED
      BY <1>0, <2>2, <3>1 DEF RepliesOf
  <2>4. TokenIn(event) = <<event.part>> /\ \A n \in Nat \ {0} : PieceIn(event, n - 1) = <<>>
    BY <2>1 DEF TokenIn, PieceIn
  <2>5. Append(reply.content, event.part) = reply.content \o <<event.part>>
    BY <1>0, <2>1, AppendIsConcat
  <2> HIDE DEF new
  <2>6. \A n \in Nat \ {0} : CallAt(new, n) = CallAt(reply, n)
    BY <2>3 DEF CallAt
  <2> QED
    BY <1>0, <1>1, <2>1, <2>3, <2>4, <2>5, <2>6 DEF new
<1>3. CASE event \in [kind : {"call"}, index : Nat, part : Pieces]
  <2>1. event.kind = "call" /\ event.part \in Pieces /\ event.index \in Nat
    BY <1>3
  <2>2. new = [reply EXCEPT !.calls = AddPiece(@, event)]
    BY <2>1 DEF AddEvent
  <2> DEFINE calls == AddPiece(reply.calls, event)
             k == event.index
  <2>3. /\ calls \in Seq(Seq(Pieces))
        /\ Len(calls) = (IF k < Len(reply.calls) THEN Len(reply.calls) ELSE k + 1)
        /\ \A n \in 1 .. Len(calls) :
              calls[n] = (IF n <= Len(reply.calls) THEN reply.calls[n] ELSE <<>>)
                         \o (IF n = k + 1 THEN <<event.part>> ELSE <<>>)
    <3>1. HasPiece(AddPiece(reply.calls, event), reply.calls, event, Pieces)
      <4>1. reply.calls \in Seq(Seq(Pieces))
        BY <1>0
      <4> QED
        BY <1>3, <4>1, PieceAdded
    <3> QED
      BY <3>1 DEF HasPiece
  <2>4. new.calls = calls /\ new.content = reply.content
    BY <2>2 DEF RepliesOf
  <2> HIDE DEF calls
  <2>5. new \in RepliesOf(Pieces)
    BY <1>0, <2>2, <2>3 DEF RepliesOf, calls
  <2> HIDE DEF new
  <2>6. TokenIn(event) = <<>> /\ \A n \in Nat \ {0} : PieceIn(event, n - 1) = IF n = k + 1 THEN <<event.part>> ELSE <<>>
    BY <2>1 DEF TokenIn, PieceIn
  <2>7. k < Len(calls) /\ Len(reply.calls) <= Len(calls)
    BY <1>0, <2>1, <2>3
  <2>8. ASSUME NEW n \in Nat \ {0}
        PROVE  CallAt(new, n) = CallAt(reply, n) \o PieceIn(event, n - 1)
    <3>1. CASE n <= Len(calls)
      <4>1. n \in 1 .. Len(calls)
        BY <2>3, <3>1
      <4>2. CallAt(new, n) = calls[n]
        BY <2>4, <3>1 DEF CallAt
      <4> QED
        BY <2>3, <2>6, <4>1, <4>2 DEF CallAt
    <3>2. CASE ~(n <= Len(calls))
      <4>1. n # k + 1 /\ ~(n <= Len(reply.calls))
        BY <1>0, <2>1, <2>3, <3>2
      <4>2. CallAt(new, n) = <<>> /\ CallAt(reply, n) = <<>>
        BY <2>4, <3>2, <4>1 DEF CallAt
      <4> QED
        BY <1>1, <2>6, <4>1, <4>2
    <3> QED
      BY <3>1, <3>2
  <2> QED
    BY <1>0, <2>4, <2>5, <2>6, <2>7, <2>8 DEF new
<1>4. CASE event \in [kind : {"noise", "end"}]
  <2>1. event.kind # "token" /\ event.kind # "call"
    BY <1>4
  <2>2. new = reply
    BY <2>1 DEF AddEvent
  <2>3. TokenIn(event) = <<>> /\ \A n \in Nat \ {0} : PieceIn(event, n - 1) = <<>>
    BY <2>1 DEF TokenIn, PieceIn
  <2> HIDE DEF new
  <2> QED
    BY <1>0, <1>1, <2>1, <2>2, <2>3 DEF new
<1> QED
  BY <1>2, <1>3, <1>4 DEF EventsOf

\* The first so many elements, each replaced by what a function gives for it: one more of
\* them is one more part of the concatenation.
LEMMA OneMorePart ==
  ASSUME NEW S, NEW g \in Seq(Seq(S)), NEW m \in 1 .. Len(g)
  PROVE  FlattenSeq([i \in 1 .. m |-> g[i]]) = FlattenSeq([i \in 1 .. m - 1 |-> g[i]]) \o g[m]
<1> DEFINE before == [i \in 1 .. m - 1 |-> g[i]]
           up == [i \in 1 .. m |-> g[i]]
<1>1. m \in Nat /\ m - 1 \in Nat /\ Len(g) \in Nat /\ \A i \in 1 .. m : g[i] \in Seq(S)
  OBVIOUS
<1>2. before \in Seq(Seq(S)) /\ Len(before) = m - 1 /\ DOMAIN before = 1 .. m - 1
  <2>1. before \in [1 .. m - 1 -> Seq(S)]
    BY <1>1
  <2> QED
    BY <1>1, <2>1
<1>3. up = Append(before, g[m])
  <2>1. /\ Append(before, g[m]) \in Seq(Seq(S)) /\ Len(Append(before, g[m])) = m
        /\ \A i \in 1 .. m - 1 : Append(before, g[m])[i] = before[i]
        /\ Append(before, g[m])[m] = g[m]
    <3>1. g[m] \in Seq(S)
      BY <1>1
    <3> HIDE DEF before
    <3> QED
      BY <1>1, <1>2, <3>1, AppendProperties
  <2>2. up \in Seq(Seq(S)) /\ Len(up) = m /\ \A i \in 1 .. m : up[i] = g[i]
    <3>1. up \in [1 .. m -> Seq(S)]
      BY <1>1
    <3> QED
      BY <1>1, <3>1
  <2>3. \A i \in 1 .. m : up[i] = Append(before, g[m])[i]
    <3>1. \A i \in 1 .. m - 1 : before[i] = g[i]
      BY <1>1
    <3> HIDE DEF before, up
    <3>2. ASSUME NEW i \in 1 .. m
          PROVE  up[i] = Append(before, g[m])[i]
      <4>1. CASE i = m
        BY <2>1, <2>2, <4>1
      <4>2. CASE i # m
        <5>1. i \in 1 .. m - 1
          BY <1>1, <4>2
        <5> QED
          BY <2>1, <2>2, <3>1, <5>1
      <4> QED
        BY <4>1, <4>2
    <3> QED
      BY <3>2
  <2> HIDE DEF before, up
  <2> QED
    BY <2>1, <2>2, <2>3, SeqEqual
<1> HIDE DEF before, up
<1> QED
  <2>1. FlattenSeq(Append(before, g[m])) = FlattenSeq(before) \o g[m]
    <3>1. g[m] \in Seq(S)
      BY <1>1
    <3> QED
      BY <1>2, <3>1, FlattenAppend
  <2> QED
    BY <1>3, <2>1 DEF before, up

\* What was put together from the first m events.
Together(reply, heard, m) ==
    /\ reply.content = FlattenSeq([i \in 1 .. m |-> TokenIn(heard[i])])
    /\ \A n \in Nat \ {0} : CallAt(reply, n) = FlattenSeq([i \in 1 .. m |-> PieceIn(heard[i], n - 1)])
    /\ \A i \in 1 .. m : heard[i].kind = "call" => heard[i].index < Len(reply.calls)

\* It is still that with one event more.
LEMMA TogetherGrows ==
  ASSUME NEW Pieces, NEW heard \in Seq(EventsOf(Pieces)), NEW m \in 1 .. Len(heard),
         NEW reply \in RepliesOf(Pieces), Together(reply, heard, m - 1)
  PROVE  /\ AddEvent(reply, heard[m]) \in RepliesOf(Pieces)
         /\ Together(AddEvent(reply, heard[m]), heard, m)
<1> DEFINE new == AddEvent(reply, heard[m])
           tokens == [i \in 1 .. Len(heard) |-> TokenIn(heard[i])]
           pieces(n) == [i \in 1 .. Len(heard) |-> PieceIn(heard[i], n - 1)]
<1>0. m \in Nat /\ Len(heard) \in Nat /\ \A i \in 1 .. Len(heard) : heard[i] \in EventsOf(Pieces)
  OBVIOUS
<1>1. /\ new \in RepliesOf(Pieces)
      /\ new.content = reply.content \o TokenIn(heard[m])
      /\ \A n \in Nat \ {0} : CallAt(new, n) = CallAt(reply, n) \o PieceIn(heard[m], n - 1)
      /\ heard[m].kind = "call" => heard[m].index < Len(new.calls)
      /\ Len(reply.calls) <= Len(new.calls)
  BY <1>0, EventAdded
<1> HIDE DEF new
<1>2. \A e \in EventsOf(Pieces) : TokenIn(e) \in Seq(Pieces) /\ \A n \in Nat : PieceIn(e, n) \in Seq(Pieces)
  <2> SUFFICES ASSUME NEW e \in EventsOf(Pieces)
               PROVE  TokenIn(e) \in Seq(Pieces) /\ \A n \in Nat : PieceIn(e, n) \in Seq(Pieces)
    OBVIOUS
  <2>1. e.kind \in {"token", "call"} => e.part \in Pieces
    BY DEF EventsOf
  <2> QED
    BY <2>1 DEF TokenIn, PieceIn
<1>3. new.content = FlattenSeq([i \in 1 .. m |-> TokenIn(heard[i])])
  <2>1. tokens \in Seq(Seq(Pieces)) /\ Len(tokens) = Len(heard)
    <3>1. tokens \in [1 .. Len(heard) -> Seq(Pieces)]
      BY <1>0, <1>2
    <3> QED
      BY <1>0, <3>1
  <2>2. /\ [i \in 1 .. m |-> tokens[i]] = [i \in 1 .. m |-> TokenIn(heard[i])]
        /\ [i \in 1 .. m - 1 |-> tokens[i]] = [i \in 1 .. m - 1 |-> TokenIn(heard[i])]
        /\ tokens[m] = TokenIn(heard[m])
    BY <1>0
  <2> HIDE DEF tokens
  <2>3. FlattenSeq([i \in 1 .. m |-> tokens[i]]) = FlattenSeq([i \in 1 .. m - 1 |-> tokens[i]]) \o tokens[m]
    BY <2>1, OneMorePart
  <2> QED
    BY <1>1, <2>2, <2>3 DEF Together
<1>4. ASSUME NEW n \in Nat \ {0}
      PROVE  CallAt(new, n) = FlattenSeq([i \in 1 .. m |-> PieceIn(heard[i], n - 1)])
  <2> DEFINE g == [i \in 1 .. Len(heard) |-> PieceIn(heard[i], n - 1)]
  <2>1. g \in Seq(Seq(Pieces)) /\ Len(g) = Len(heard)
    <3>0. n - 1 \in Nat
      OBVIOUS
    <3>1. g \in [1 .. Len(heard) -> Seq(Pieces)]
      BY <1>0, <1>2, <3>0
    <3> QED
      BY <1>0, <3>1
  <2>2. /\ [i \in 1 .. m |-> g[i]] = [i \in 1 .. m |-> PieceIn(heard[i], n - 1)]
        /\ [i \in 1 .. m - 1 |-> g[i]] = [i \in 1 .. m - 1 |-> PieceIn(heard[i], n - 1)]
        /\ g[m] = PieceIn(heard[m], n - 1)
    BY <1>0
  <2> HIDE DEF g
  <2>3. FlattenSeq([i \in 1 .. m |-> g[i]]) = FlattenSeq([i \in 1 .. m - 1 |-> g[i]]) \o g[m]
    BY <2>1, OneMorePart
  <2> QED
    BY <1>1, <2>2, <2>3 DEF Together
<1>5. \A i \in 1 .. m : heard[i].kind = "call" => heard[i].index < Len(new.calls)
  <2> SUFFICES ASSUME NEW i \in 1 .. m, heard[i].kind = "call"
               PROVE  heard[i].index < Len(new.calls)
    OBVIOUS
  <2>1. heard[i].index \in Nat /\ Len(reply.calls) \in Nat /\ Len(new.calls) \in Nat
    <3>1. heard[i] \in EventsOf(Pieces)
      BY <1>0
    <3>2. heard[i].index \in Nat
      BY <3>1 DEF EventsOf
    <3>3. reply.calls \in Seq(Seq(Pieces)) /\ new.calls \in Seq(Seq(Pieces))
      BY <1>1 DEF RepliesOf
    <3> QED
      BY <3>2, <3>3
  <2>2. CASE i = m
    BY <1>1, <2>2
  <2>3. CASE i # m
    <3>1. heard[i].index < Len(reply.calls)
      BY <1>0, <2>3 DEF Together
    <3>2. Len(reply.calls) <= Len(new.calls)
      BY <1>1
    <3> QED
      BY <2>1, <3>1, <3>2
  <2> QED
    BY <2>2, <2>3
<1> QED
  BY <1>1, <1>3, <1>4, <1>5 DEF Together, new

\* The reply after each event.
Reading(f, heard) == f = [i \in 0 .. Len(heard) |-> IF i = 0 THEN NoReply ELSE AddEvent(f[i - 1], heard[i])]

\* There is such a function, of replies, and its last value is what was read.
LEMMA ReadingExists ==
  ASSUME NEW Pieces, NEW events, NEW heard \in Seq(EventsOf(Pieces)), heard = BeforeEnd(events)
  PROVE  \E f : Reading(f, heard) /\ ReadStream(events) = f[Len(heard)]
<1> DEFINE N == Len(heard)
           S == RepliesOf(Pieces)
           G == [p \in S \X (1 .. N) |-> AddEvent(p[1], heard[p[2]])]
           reply == CHOOSE f : f = [i \in 0 .. N |-> IF i = 0 THEN NoReply ELSE AddEvent(f[i - 1], heard[i])]
<1>1. NoReply \in S /\ N \in Nat
  BY DEF NoReply, RepliesOf
<1>2. ASSUME NEW p \in S, NEW i \in 1 .. N
      PROVE  AddEvent(p, heard[i]) \in S
  BY EventAdded
<1>3. G \in [S \X (1 .. N) -> S]
  BY <1>2
<1>4. PICK f \in [0 .. N -> S] : Iterated(f, NoReply, N, G)
  <2> HIDE DEF G, N, S
  <2> QED
    BY <1>1, <1>3, Iterates
<1>5. Reading(f, heard)
  <2>1. ASSUME NEW i \in 0 .. N, i # 0
        PROVE  G[<<f[i - 1], i>>] = AddEvent(f[i - 1], heard[i])
    <3>1. f[i - 1] \in S /\ i \in 1 .. N
      <4> HIDE DEF N, S
      <4> QED
        BY <1>1, <2>1
    <3> HIDE DEF N, S
    <3> QED
      BY <3>1
  <2>2. f = [i \in 0 .. N |-> IF i = 0 THEN NoReply ELSE AddEvent(f[i - 1], heard[i])]
    <3> HIDE DEF N, G, S
    <3> QED
      BY <1>4, <2>1 DEF Iterated
  <2> QED
    BY <2>2, Zenon DEF Reading
<1>6. Reading(reply, heard)
  <2>1. \E g : g = [i \in 0 .. N |-> IF i = 0 THEN NoReply ELSE AddEvent(g[i - 1], heard[i])]
    BY <1>5, Zenon DEF Reading
  <2> QED
    BY <2>1, Zenon DEF Reading
<1>7. ReadStream(events) = reply[N]
  BY Zenon DEF ReadStream
<1> QED
  BY <1>6, <1>7, Zenon

-----------------------------------------------------------------------------
(* The frame on the terminal.                                              *)

\* The sizes of a window.
Sizes == [width : Nat, height : Nat]

\* What a cell holds.
Glyphs == STRING \cup {"blank", "unknown", Continuation}

\* And its style.
Styles == STRING \cup {"base", "unknown"}

\* Cells.
ScreenCells == [symbol : Glyphs, style : Styles]

\* The two cells of a wide glyph are in one style, and every cell has a style.
Matched(cells) ==
  /\ \A p \in DOMAIN cells : cells[p].style # "none"
  /\ \A x, y \in Int :
       <<x, y>> \in DOMAIN cells /\ <<x + 1, y>> \in DOMAIN cells
         /\ cells[<<x, y>>].symbol = "W" /\ cells[<<x + 1, y>>].symbol = Continuation
       => cells[<<x, y>>].style = cells[<<x + 1, y>>].style

\* The frames of a size.
Frames(extent) == {b \in [size : {extent}, cells : [Places2(extent) -> ScreenCells]] : Matched(b.cells)}

\* A blank buffer is a frame.
LEMMA BlankIsAFrame ==
  ASSUME NEW extent \in Sizes
  PROVE  BlankBuffer(extent) \in Frames(extent)
<1>1. BlankBuffer(extent) \in [size : {extent}, cells : [Places2(extent) -> ScreenCells]]
  <2>1. BaseCell \in ScreenCells
    BY DEF BaseCell, Cell, ScreenCells, Glyphs, Styles
  <2> QED
    BY <2>1 DEF BlankBuffer
<1>2. \A p \in DOMAIN BlankBuffer(extent).cells :
         BlankBuffer(extent).cells[p].style = "base" /\ BlankBuffer(extent).cells[p].symbol = "blank"
  BY DEF BlankBuffer, BaseCell, Cell
<1>3. Matched(BlankBuffer(extent).cells)
  BY <1>2 DEF Matched, Continuation
<1> QED
  BY <1>1, <1>3 DEF Frames

\* Setting a cell changes that one only, if it is there.
LEMMA CellSet ==
  ASSUME NEW extent \in Sizes, NEW b \in [size : {extent}, cells : [Places2(extent) -> ScreenCells]],
         NEW x \in Int, NEW y \in Int, NEW glyph \in ScreenCells
  PROVE  /\ SetCell(b, x, y, glyph) \in [size : {extent}, cells : [Places2(extent) -> ScreenCells]]
         /\ \A p \in Places2(extent) : SetCell(b, x, y, glyph).cells[p] = IF p = <<x, y>> THEN glyph ELSE b.cells[p]
<1>1. DOMAIN b.cells = Places2(extent)
  OBVIOUS
<1>2. CASE <<x, y>> \in Places2(extent)
  <2>1. SetCell(b, x, y, glyph) = [b EXCEPT !.cells[<<x, y>>] = glyph]
    BY <1>1, <1>2 DEF SetCell
  <2>2. [b EXCEPT !.cells[<<x, y>>] = glyph] = [b EXCEPT !.cells = [b.cells EXCEPT ![<<x, y>>] = glyph]]
    OBVIOUS
  <2> QED
    BY <1>1, <1>2, <2>1, <2>2
<1>3. CASE <<x, y>> \notin Places2(extent)
  BY <1>1, <1>3 DEF SetCell
<1> QED
  BY <1>2, <1>3

\* A character leaves a frame, though it may draw over half of a wide glyph.
LEMMA CharSet ==
  ASSUME NEW extent \in Sizes, NEW b \in Frames(extent), NEW x \in Nat, NEW y \in Nat,
         NEW c \in STRING, NEW style \in STRING, c # Continuation, style # "none"
  PROVE  SetChar(b, x, y, c, style) \in Frames(extent)
<1> DEFINE Buffers == [size : {extent}, cells : [Places2(extent) -> ScreenCells]]
           one == SetCell(b, x, y, Cell(c, style))
           rest == Cell(Continuation, style)
           both == SetCell(one, x + 1, y, rest)
           r == SetChar(b, x, y, c, style)
<1>1. b \in Buffers /\ Matched(b.cells) /\ Cell(c, style) \in ScreenCells /\ rest \in ScreenCells
      /\ DOMAIN b.cells = Places2(extent)
  <2>1. b \in Buffers /\ Matched(b.cells)
    BY DEF Frames
  <2>2. Cell(c, style) \in ScreenCells /\ rest \in ScreenCells
    BY DEF Cell, ScreenCells, Glyphs, Styles
  <2> QED
    BY <2>1, <2>2
<1>2. /\ one \in Buffers
      /\ \A p \in Places2(extent) : one.cells[p] = IF p = <<x, y>> THEN Cell(c, style) ELSE b.cells[p]
  BY <1>1, CellSet
<1>3. /\ both \in Buffers
      /\ \A p \in Places2(extent) : both.cells[p] = IF p = <<x + 1, y>> THEN rest ELSE one.cells[p]
  <2> HIDE DEF one, rest
  <2> QED
    BY <1>1, <1>2, CellSet
<1>4. r = IF c = "W" THEN both ELSE one
  BY DEF SetChar, GlyphWidth
<1>5. r \in Buffers /\ DOMAIN r.cells = Places2(extent)
  BY <1>2, <1>3, <1>4
<1>6. \A p \in Places2(extent) :
         r.cells[p] = IF c = "W" /\ p = <<x + 1, y>> THEN rest
                      ELSE IF p = <<x, y>> THEN Cell(c, style) ELSE b.cells[p]
  BY <1>2, <1>3, <1>4
<1> HIDE DEF r, one, both
<1>7. ASSUME NEW p \in Places2(extent)
      PROVE  r.cells[p].style # "none"
  BY <1>1, <1>6, <1>7 DEF Matched, Cell
<1>8. ASSUME NEW u \in Int, NEW v \in Int, <<u, v>> \in Places2(extent), <<u + 1, v>> \in Places2(extent),
             r.cells[<<u, v>>].symbol = "W", r.cells[<<u + 1, v>>].symbol = Continuation
      PROVE  r.cells[<<u, v>>].style = r.cells[<<u + 1, v>>].style
  <2>1. CASE <<u, v>> = <<x, y>>
    <3>1. u + 1 # u /\ <<u + 1, v>> # <<x, y>>
      BY <2>1
    <3>2. r.cells[<<u, v>>] = Cell(c, style)
      <4>1. <<u, v>> # <<x + 1, y>>
        BY <2>1
      <4> QED
        BY <1>6, <1>8, <2>1, <4>1
    <3>3. c = "W"
      BY <1>8, <3>2 DEF Cell
    <3>4. r.cells[<<u + 1, v>>] = rest
      BY <1>6, <1>8, <2>1, <3>3
    <3> QED
      BY <3>2, <3>4 DEF Cell
  <2>2. CASE <<u, v>> # <<x, y>>
    <3>1. <<u + 1, v>> # <<x + 1, y>>
      BY <2>2
    <3>2. <<u + 1, v>> # <<x, y>>
      <4>1. SUFFICES ASSUME <<u + 1, v>> = <<x, y>>
                     PROVE  FALSE
        OBVIOUS
      <4>2. r.cells[<<u + 1, v>>] = Cell(c, style)
        BY <1>6, <1>8, <3>1, <4>1
      <4> QED
        BY <1>8, <4>2 DEF Cell
    <3>3. r.cells[<<u + 1, v>>] = b.cells[<<u + 1, v>>]
      BY <1>6, <1>8, <3>1, <3>2
    <3>4. ~(c = "W" /\ <<u, v>> = <<x + 1, y>>)
      BY <1>6, <1>8 DEF Cell, Continuation
    <3>5. r.cells[<<u, v>>] = b.cells[<<u, v>>]
      BY <1>6, <1>8, <2>2, <3>4
    <3> QED
      BY <1>1, <1>8, <3>3, <3>5 DEF Matched
  <2> QED
    BY <2>1, <2>2
<1>9. Matched(r.cells)
  BY <1>5, <1>7, <1>8 DEF Matched
<1> QED
  BY <1>5, <1>9 DEF Frames, r

\* So does a text, character by character (buffer.rs set_str).
LEMMA TextSet ==
  ASSUME NEW extent \in Sizes, NEW b \in Frames(extent),
         NEW d \in [x : Nat, y : Nat, text : Seq(STRING), style : STRING],
         d.style # "none", \A i \in DOMAIN d.text : d.text[i] # Continuation
  PROVE  SetStr(b, d) \in Frames(extent)
<1> DEFINE S == [buffer : Frames(extent), x : Nat]
           start == [buffer |-> b, x |-> d.x]
           N == Len(d.text)
           G == [pn \in S \X (1 .. N) |-> NextChar(d, pn[1], pn[2])]
           put == CHOOSE f : f = [n \in 0 .. N |-> IF n = 0 THEN start ELSE NextChar(d, f[n - 1], n)]
<1>1. start \in S /\ N \in Nat
  OBVIOUS
<1>2. ASSUME NEW p \in S, NEW n \in 1 .. N
      PROVE  NextChar(d, p, n) \in S
  <2>1. d.text[n] \in STRING /\ d.text[n] # Continuation
    OBVIOUS
  <2>2. SetChar(p.buffer, p.x, d.y, d.text[n], d.style) \in Frames(extent)
    BY <2>1, CharSet
  <2>3. p.x + GlyphWidth(d.text[n]) \in Nat
    BY DEF GlyphWidth
  <2> QED
    BY <2>2, <2>3 DEF NextChar
<1>3. G \in [S \X (1 .. N) -> S]
  <2> HIDE DEF S
  <2> QED
    BY <1>2
<1>4. PICK f \in [0 .. N -> S] : Iterated(f, start, N, G)
  <2> HIDE DEF G, S, start, N
  <2> QED
    BY <1>1, <1>3, Iterates
<1>5. f = [n \in 0 .. N |-> IF n = 0 THEN start ELSE NextChar(d, f[n - 1], n)]
  <2>1. ASSUME NEW n \in 0 .. N, n # 0
        PROVE  G[<<f[n - 1], n>>] = NextChar(d, f[n - 1], n)
    <3>1. f[n - 1] \in S /\ n \in 1 .. N
      <4> HIDE DEF S, N
      <4> QED
        BY <1>1, <2>1
    <3> HIDE DEF S, N
    <3> QED
      BY <3>1
  <2> HIDE DEF S, N, G, start
  <2> QED
    BY <1>4, <2>1 DEF Iterated
<1>6. put = [n \in 0 .. N |-> IF n = 0 THEN start ELSE NextChar(d, put[n - 1], n)]
  <2> HIDE DEF S, N, start
  <2> QED
    BY <1>5, Zenon
<1>7. ASSUME NEW n \in Nat, n <= N
      PROVE  put[n] \in S
  <2> DEFINE Q == {m \in Nat : m <= N => put[m] \in S}
  <2> HIDE DEF S, N, start, put
  <2>1. \A m \in 0 .. N : put[m] = IF m = 0 THEN start ELSE NextChar(d, put[m - 1], m)
    BY <1>6, Zenon
  <2>2. 0 \in Q
    BY <1>1, <2>1
  <2>3. ASSUME NEW m \in Nat, m \in Q
        PROVE  m + 1 \in Q
    <3>1. CASE m + 1 <= N
      <4>1. put[m + 1] = NextChar(d, put[m], m + 1) /\ put[m] \in S /\ m + 1 \in 1 .. N
        BY <1>1, <2>1, <2>3, <3>1
      <4> QED
        BY <1>2, <4>1
    <3>2. CASE ~(m + 1 <= N)
      BY <3>2
    <3> QED
      BY <3>1, <3>2
  <2> HIDE DEF Q
  <2>4. n \in Q
    BY <2>2, <2>3, Counting
  <2> QED
    BY <1>7, <2>4 DEF Q
<1>8. SetStr(b, d) = put[N].buffer
  BY Zenon DEF SetStr
<1> QED
  <2> HIDE DEF put
  <2> QED
    BY <1>1, <1>7, <1>8

\* So what is drawn is a frame.
LEMMA DrawnIsAFrame ==
  ASSUME NEW extent \in Sizes, NEW drawing \in Drawings
  PROVE  Drawn(extent, drawing) \in Frames(extent)
<1> DEFINE S == Frames(extent)
           start == BlankBuffer(extent)
           N == Len(drawing)
           Drafts == [x : Nat, y : Nat, text : Seq(STRING), style : STRING]
           G == [pn \in S \X (1 .. N) |-> SetStr(pn[1], drawing[pn[2]])]
           put == CHOOSE f : f = [n \in 0 .. N |-> IF n = 0 THEN start ELSE SetStr(f[n - 1], drawing[n])]
<1>1. start \in S /\ N \in Nat /\ drawing \in Seq(Drafts)
  BY BlankIsAFrame, ScreenAssumption
<1>2. ASSUME NEW p \in S, NEW n \in 1 .. N
      PROVE  SetStr(p, drawing[n]) \in S
  <2>1. drawing[n] \in Drafts /\ n \in DOMAIN drawing
    <3> HIDE DEF Drafts
    <3> QED
      BY <1>1
  <2>2. drawing[n].style # "none" /\ \A i \in DOMAIN drawing[n].text : drawing[n].text[i] # Continuation
    BY <2>1, ScreenAssumption DEF Continuation
  <2> QED
    BY <2>1, <2>2, TextSet
<1>3. G \in [S \X (1 .. N) -> S]
  <2> HIDE DEF S, N
  <2> QED
    BY <1>2
<1>4. PICK f \in [0 .. N -> S] : Iterated(f, start, N, G)
  <2> HIDE DEF G, S, start, N
  <2> QED
    BY <1>1, <1>3, Iterates
<1>5. f = [n \in 0 .. N |-> IF n = 0 THEN start ELSE SetStr(f[n - 1], drawing[n])]
  <2>1. ASSUME NEW n \in 0 .. N, n # 0
        PROVE  G[<<f[n - 1], n>>] = SetStr(f[n - 1], drawing[n])
    <3>1. f[n - 1] \in S /\ n \in 1 .. N
      <4> HIDE DEF S, N
      <4> QED
        BY <1>1, <2>1
    <3> HIDE DEF S, N
    <3> QED
      BY <3>1
  <2> HIDE DEF S, N, G, start
  <2> QED
    BY <1>4, <2>1 DEF Iterated
<1>6. put = [n \in 0 .. N |-> IF n = 0 THEN start ELSE SetStr(put[n - 1], drawing[n])]
  <2> HIDE DEF S, N, start
  <2> QED
    BY <1>5, Zenon
<1>7. ASSUME NEW n \in Nat, n <= N
      PROVE  put[n] \in S
  <2> DEFINE Q == {m \in Nat : m <= N => put[m] \in S}
  <2> HIDE DEF S, N, start, put
  <2>1. \A m \in 0 .. N : put[m] = IF m = 0 THEN start ELSE SetStr(put[m - 1], drawing[m])
    BY <1>6, Zenon
  <2>2. 0 \in Q
    BY <1>1, <2>1
  <2>3. ASSUME NEW m \in Nat, m \in Q
        PROVE  m + 1 \in Q
    <3>1. CASE m + 1 <= N
      <4>1. put[m + 1] = SetStr(put[m], drawing[m + 1]) /\ put[m] \in S /\ m + 1 \in 1 .. N
        BY <1>1, <2>1, <2>3, <3>1
      <4> QED
        BY <1>2, <4>1
    <3>2. CASE ~(m + 1 <= N)
      BY <3>2
    <3> QED
      BY <3>1, <3>2
  <2> HIDE DEF Q
  <2>4. n \in Q
    BY <2>2, <2>3, Counting
  <2> QED
    BY <1>7, <2>4 DEF Q
<1>8. Drawn(extent, drawing) = put[N]
  BY Zenon DEF Drawn
<1> QED
  <2> HIDE DEF put
  <2> QED
    BY <1>1, <1>7, <1>8

\* Every continuation on the terminal belongs to the wide glyph before it.
Whole(cells) ==
  \A x, y \in Int : <<x, y>> \in DOMAIN cells /\ cells[<<x, y>>].symbol = Continuation
    => <<x - 1, y>> \in DOMAIN cells /\ cells[<<x - 1, y>>].symbol = "W"

\* A terminal: its cells, its cursor and its style.
Terminals(extent) ==
  {t \in [cells : [Places2(extent) -> ScreenCells], at : Int \X Int, style : Styles] : Whole(t.cells)}

\* What a glyph does to the cells: it takes its own, the next one if it is wide, and
\* spoils the other half of a wide glyph that was there before.
Puts(extent, T, U, x, y, c, style) ==
  /\ U[<<x, y>>] = Cell(c, style)
  /\ c = "W" /\ <<x + 1, y>> \in Places2(extent) => U[<<x + 1, y>>] = Cell(Continuation, style)
  /\ <<x + GlyphWidth(c), y>> \in Places2(extent) /\ T[<<x + GlyphWidth(c), y>>].symbol = Continuation
       => U[<<x + GlyphWidth(c), y>>] = Unknown
  /\ \A u, v \in Int : <<u, v>> \in Places2(extent) =>
       \/ u = x /\ v = y
       \/ u = x + 1 /\ v = y /\ c = "W"
       \/ U[<<u, v>>] = T[<<u, v>>]
       \/ U[<<u, v>>] = Unknown /\ u = x - 1 /\ v = y /\ T[<<x, y>>].symbol = Continuation
       \/ U[<<u, v>>] = Unknown /\ u = x + GlyphWidth(c) /\ v = y /\ T[<<u, v>>].symbol = Continuation

\* That is what PutGlyph does.
LEMMA GlyphPut ==
  ASSUME NEW extent \in Sizes, NEW t \in [cells : [Places2(extent) -> ScreenCells], at : Int \X Int, style : Styles],
         NEW x \in Int, NEW y \in Int, t.at = <<x, y>>, <<x, y>> \in Places2(extent), NEW c \in Glyphs
  PROVE  /\ PutGlyph(t, c) \in [cells : [Places2(extent) -> ScreenCells], at : Int \X Int, style : Styles]
         /\ PutGlyph(t, c).at = <<x + GlyphWidth(c), y>> /\ PutGlyph(t, c).style = t.style
         /\ Puts(extent, t.cells, PutGlyph(t, c).cells, x, y, c, t.style)
<1> DEFINE T == t.cells
           after == x + GlyphWidth(c)
           isRest(p) == p \in DOMAIN T /\ T[p].symbol = Continuation
           cut == (IF isRest(<<x, y>>) THEN {<<x - 1, y>>} ELSE {})
                  \cup (IF isRest(<<after, y>>) THEN {<<after, y>>} ELSE {})
           rest == IF after = x + 2 THEN {<<x + 1, y>>} ELSE {}
           U == [p \in DOMAIN T |->
                   IF p = <<x, y>> THEN Cell(c, t.style)
                   ELSE IF p \in rest THEN Cell(Continuation, t.style)
                   ELSE IF p \in cut THEN Unknown ELSE T[p]]
<1>1. t.at[1] = x /\ t.at[2] = y /\ DOMAIN T = Places2(extent) /\ T \in [Places2(extent) -> ScreenCells]
  OBVIOUS
<1>2. PutGlyph(t, c) = [t EXCEPT !.at = <<after, y>>, !.cells = U]
  BY <1>1 DEF PutGlyph
<1>3. after \in Int /\ after = (IF c = "W" THEN x + 2 ELSE x + 1)
  BY DEF GlyphWidth
<1>4. Cell(c, t.style) \in ScreenCells /\ Cell(Continuation, t.style) \in ScreenCells /\ Unknown \in ScreenCells
  BY DEF ScreenCells, Cell, Unknown, Glyphs, Styles
<1>5. U \in [Places2(extent) -> ScreenCells]
  BY <1>1, <1>4
<1>6. \A u, v \in Int : <<u, v>> \in Places2(extent) =>
         U[<<u, v>>] = IF u = x /\ v = y THEN Cell(c, t.style)
                       ELSE IF c = "W" /\ u = x + 1 /\ v = y THEN Cell(Continuation, t.style)
                       ELSE IF (u = x - 1 /\ v = y /\ isRest(<<x, y>>)) \/ (u = after /\ v = y /\ isRest(<<after, y>>))
                       THEN Unknown ELSE T[<<u, v>>]
  <2> TAKE u, v \in Int
  <2> HAVE <<u, v>> \in Places2(extent)
  <2>1. <<u, v>> \in rest <=> c = "W" /\ u = x + 1 /\ v = y
    BY <1>3
  <2>2. <<u, v>> \in cut <=> (u = x - 1 /\ v = y /\ isRest(<<x, y>>)) \/ (u = after /\ v = y /\ isRest(<<after, y>>))
    <3>1. <<u, v>> = <<x - 1, y>> <=> u = x - 1 /\ v = y
      OBVIOUS
    <3>2. <<u, v>> = <<after, y>> <=> u = after /\ v = y
      OBVIOUS
    <3> DEFINE one == IF isRest(<<x, y>>) THEN {<<x - 1, y>>} ELSE {}
               two == IF isRest(<<after, y>>) THEN {<<after, y>>} ELSE {}
    <3>3. <<u, v>> \in one <=> u = x - 1 /\ v = y /\ isRest(<<x, y>>)
      <4> HIDE DEF T
      <4> QED
        BY <3>1
    <3>4. <<u, v>> \in two <=> u = after /\ v = y /\ isRest(<<after, y>>)
      <4> HIDE DEF T, after
      <4> QED
        BY <3>2
    <3>5. <<u, v>> \in cut <=> <<u, v>> \in one \/ <<u, v>> \in two
      <4> HIDE DEF isRest, after
      <4> QED
        OBVIOUS
    <3> HIDE DEF one, two, isRest, after, cut
    <3> QED
      BY <3>3, <3>4, <3>5, Zenon
  <2>3. <<u, v>> = <<x, y>> <=> u = x /\ v = y
    OBVIOUS
  <2> HIDE DEF rest, cut, T
  <2>4. U[<<u, v>>] = IF <<u, v>> = <<x, y>> THEN Cell(c, t.style)
                      ELSE IF <<u, v>> \in rest THEN Cell(Continuation, t.style)
                      ELSE IF <<u, v>> \in cut THEN Unknown ELSE T[<<u, v>>]
    BY <1>1
  <2> HIDE DEF U, after
  <2> QED
    BY <2>1, <2>2, <2>3, <2>4
<1>7. PutGlyph(t, c).cells = U /\ PutGlyph(t, c).at = <<after, y>> /\ PutGlyph(t, c).style = t.style
      /\ PutGlyph(t, c) \in [cells : [Places2(extent) -> ScreenCells], at : Int \X Int, style : Styles]
  <2> HIDE DEF U, after
  <2>1. <<after, y>> \in Int \X Int
    BY <1>3
  <2>2. /\ PutGlyph(t, c).cells = U /\ PutGlyph(t, c).at = <<after, y>> /\ PutGlyph(t, c).style = t.style
        /\ PutGlyph(t, c) = [cells |-> U, at |-> <<after, y>>, style |-> t.style]
    BY <1>2
  <2> QED
    BY <1>5, <2>1, <2>2
<1> HIDE DEF U, T, after
<1>8. U[<<x, y>>] = Cell(c, t.style)
  BY <1>6
<1>9. c = "W" /\ <<x + 1, y>> \in Places2(extent) => U[<<x + 1, y>>] = Cell(Continuation, t.style)
  BY <1>6
<1>10. <<after, y>> \in Places2(extent) /\ T[<<after, y>>].symbol = Continuation => U[<<after, y>>] = Unknown
  BY <1>1, <1>3, <1>6
<1>11. ASSUME NEW u \in Int, NEW v \in Int, <<u, v>> \in Places2(extent)
       PROVE  \/ u = x /\ v = y
              \/ u = x + 1 /\ v = y /\ c = "W"
              \/ U[<<u, v>>] = T[<<u, v>>]
              \/ U[<<u, v>>] = Unknown /\ u = x - 1 /\ v = y /\ T[<<x, y>>].symbol = Continuation
              \/ U[<<u, v>>] = Unknown /\ u = after /\ v = y /\ T[<<u, v>>].symbol = Continuation
  BY <1>6, <1>11
<1>12. Puts(extent, T, U, x, y, c, t.style)
  BY <1>8, <1>9, <1>10, <1>11 DEF Puts, after
<1> QED
  BY <1>7, <1>12 DEF T, after

\* It leaves no continuation alone.
LEMMA GlyphKeepsWhole ==
  ASSUME NEW extent \in Sizes, NEW T \in [Places2(extent) -> ScreenCells], NEW U \in [Places2(extent) -> ScreenCells],
         NEW x \in Int, NEW y \in Int, <<x, y>> \in Places2(extent), NEW c, NEW style, c # Continuation,
         Whole(T), Puts(extent, T, U, x, y, c, style)
  PROVE  Whole(U)
<1> SUFFICES ASSUME NEW u \in Int, NEW v \in Int, <<u, v>> \in Places2(extent), U[<<u, v>>].symbol = Continuation
             PROVE  <<u - 1, v>> \in Places2(extent) /\ U[<<u - 1, v>>].symbol = "W"
  BY DEF Whole
<1>0. Unknown.symbol # Continuation /\ Cell(c, style).symbol = c
  BY DEF Unknown, Cell, Continuation
<1>1. ~(u = x /\ v = y)
  BY <1>0 DEF Puts
<1>2. CASE u = x + 1 /\ v = y /\ c = "W"
  <2>1. u - 1 = x
    BY <1>2
  <2> QED
    BY <1>0, <1>2, <2>1 DEF Puts
<1>3. CASE ~(u = x + 1 /\ v = y /\ c = "W")
  <2>1. U[<<u, v>>] = T[<<u, v>>]
    BY <1>0, <1>1, <1>3 DEF Puts
  <2>2. <<u - 1, v>> \in Places2(extent) /\ T[<<u - 1, v>>].symbol = "W" /\ u - 1 \in Int
    BY <2>1 DEF Whole
  <2>3. ~(u = x + GlyphWidth(c) /\ v = y)
    BY <1>0, <2>1 DEF Puts
  <2>4. ~(u - 1 = x /\ v = y)
    BY <1>3, <2>3 DEF GlyphWidth
  <2>5. ~(u - 1 = x + 1 /\ v = y /\ c = "W")
    BY <2>3 DEF GlyphWidth
  <2>6. ~(u - 1 = x - 1 /\ v = y)
    BY <1>1
  <2>7. ~(T[<<u - 1, v>>].symbol = Continuation)
    BY <2>2 DEF Continuation
  <2>8. U[<<u - 1, v>>] = T[<<u - 1, v>>]
    BY <2>2, <2>4, <2>5, <2>6, <2>7 DEF Puts
  <2> QED
    BY <2>2, <2>8
<1> QED
  BY <1>2, <1>3

\* What the renderer believes of the terminal is true: where its cursor is, and the style
\* that is set.
Renders(extent) ==
  {r \in [terminal : Terminals(extent), current : Styles \cup {"none"}, cursor : (Int \X Int) \cup {<<>>}] :
     /\ r.cursor # <<>> => r.terminal.at = r.cursor
     /\ r.current # "none" => r.terminal.style = r.current}

\* The cells that are not written.
Skipped(prev, next, q) == next.cells[q].symbol = Continuation \/ prev.cells[q] = next.cells[q]

\* Emitting a cell keeps that, and writes the glyph unless the cell is skipped.
LEMMA CellEmitted ==
  ASSUME NEW extent \in Sizes, NEW prev \in Frames(extent), NEW next \in Frames(extent), NEW r \in Renders(extent),
         NEW x \in Int, NEW y \in Int, <<x, y>> \in Places2(extent)
  PROVE  LET q == <<x, y>>
             e == EmitCell(prev, next, r, q)
         IN  /\ e \in Renders(extent)
             /\ Skipped(prev, next, q) => e = r
             /\ ~Skipped(prev, next, q) =>
                  Puts(extent, r.terminal.cells, e.terminal.cells, x, y, next.cells[q].symbol, next.cells[q].style)
<1> DEFINE q == <<x, y>>
           glyph == next.cells[q]
           moved == IF r.cursor = q THEN r.terminal ELSE [r.terminal EXCEPT !.at = q]
           styled == IF r.current = glyph.style THEN moved ELSE [moved EXCEPT !.style = glyph.style]
           nextX == x + GlyphWidth(glyph.symbol)
           put == PutGlyph(styled, glyph.symbol)
           e == EmitCell(prev, next, r, q)
           Plain == [cells : [Places2(extent) -> ScreenCells], at : Int \X Int, style : Styles]
<1>1. /\ prev.size = extent /\ next.size = extent /\ glyph \in ScreenCells /\ glyph.style # "none"
      /\ glyph.symbol \in Glyphs /\ glyph.style \in Styles
  BY DEF Frames, Matched, ScreenCells
<1>2. /\ r.terminal \in Plain /\ Whole(r.terminal.cells)
      /\ r.current \in Styles \cup {"none"} /\ r.cursor \in (Int \X Int) \cup {<<>>}
      /\ r.cursor # <<>> => r.terminal.at = r.cursor
      /\ r.current # "none" => r.terminal.style = r.current
  BY DEF Renders, Terminals
<1>3. q # <<>> /\ q \in Int \X Int
  OBVIOUS
<1> HIDE DEF glyph
<1>4. moved \in Plain /\ moved.at = q /\ moved.cells = r.terminal.cells /\ moved.style = r.terminal.style
  <2> HIDE DEF q
  <2> QED
    BY <1>2, <1>3
<1> HIDE DEF moved
<1>5. styled \in Plain /\ styled.at = q /\ styled.cells = r.terminal.cells /\ styled.style = glyph.style
  <2> HIDE DEF q
  <2> QED
    BY <1>1, <1>2, <1>4
<1> HIDE DEF styled
<1>6. /\ put \in Plain /\ put.at = <<nextX, y>> /\ put.style = glyph.style
      /\ Puts(extent, r.terminal.cells, put.cells, x, y, glyph.symbol, glyph.style)
  BY <1>1, <1>5, GlyphPut
<1>7. nextX \in Int
  BY DEF GlyphWidth
<1> HIDE DEF put, nextX
<1>8. CASE Skipped(prev, next, q)
  <2>1. e = r
    BY <1>1, <1>8 DEF Skipped, EmitCell, glyph
  <2> QED
    BY <1>8, <2>1
<1>9. CASE ~Skipped(prev, next, q)
  <2>1. glyph.symbol # Continuation
    BY <1>9 DEF Skipped, glyph
  <2>2. e = [terminal |-> put, current |-> glyph.style,
             cursor |-> IF nextX < extent.width THEN <<nextX, y>> ELSE <<>>]
    BY <1>1, <1>9 DEF Skipped, EmitCell, glyph, put, styled, moved, nextX
  <2>3. Whole(put.cells)
    BY <1>2, <1>6, <2>1, GlyphKeepsWhole
  <2>4. put \in Terminals(extent)
    BY <1>6, <2>3 DEF Terminals
  <2>5. <<nextX, y>> \in Int \X Int
    BY <1>7
  <2>6. e \in [terminal : Terminals(extent), current : Styles \cup {"none"}, cursor : (Int \X Int) \cup {<<>>}]
    BY <1>1, <2>2, <2>4, <2>5
  <2>7. e \in Renders(extent)
    BY <1>6, <2>2, <2>6 DEF Renders
  <2> QED
    BY <1>6, <1>9, <2>2, <2>7 DEF glyph
<1> QED
  BY <1>8, <1>9

\* The number of a cell, row by row.
Index(extent, x, y) == y * extent.width + x + 1

\* The renderer visits every cell, and each once.
LEMMA OrderOfCells ==
  ASSUME NEW extent \in Sizes
  PROVE  /\ extent.width * extent.height \in Nat
         /\ \A n \in 1 .. extent.width * extent.height :
              \E a, b \in Int : /\ NthPlace(extent, n) = <<a, b>> /\ <<a, b>> \in Places2(extent)
                                /\ Index(extent, a, b) = n
         /\ \A a, b \in Int : <<a, b>> \in Places2(extent) => Index(extent, a, b) \in 1 .. extent.width * extent.height
         /\ \A a, b, x, y \in Int :
              <<a, b>> \in Places2(extent) /\ <<x, y>> \in Places2(extent) /\ Index(extent, a, b) = Index(extent, x, y)
                => a = x /\ b = y
<1>0. PICK w \in Nat, h \in Nat : w = extent.width /\ h = extent.height
  BY DEF Sizes
<1>1. w * h \in Nat
  OBVIOUS
<1>2. ASSUME NEW n \in 1 .. w * h
      PROVE  \E a, b \in Int : /\ NthPlace(extent, n) = <<a, b>> /\ <<a, b>> \in Places2(extent)
                               /\ Index(extent, a, b) = n
  <2> DEFINE a == (n - 1) % w
             b == (n - 1) \div w
  <2>1. w > 0 /\ n - 1 \in Nat /\ n - 1 < w * h
    <3>1. w # 0
      <4>1. SUFFICES ASSUME w = 0
                     PROVE  FALSE
        OBVIOUS
      <4>2. w * h = 0
        BY <4>1
      <4> QED
        BY <4>2
    <3> QED
      BY <1>1, <3>1
  <2>2. a \in 0 .. w - 1 /\ b \in Int /\ n - 1 = b * w + a
    BY <2>1
  <2> HIDE DEF a, b
  <2>3. b >= 0
    <3>1. SUFFICES ASSUME b <= -1
                   PROVE  FALSE
      BY <2>2
    <3>2. b * w <= -w
      BY <2>1, <2>2, <3>1
    <3> QED
      BY <2>1, <2>2, <3>2
  <2>4. b < h
    <3>1. SUFFICES ASSUME b >= h
                   PROVE  FALSE
      BY <2>2
    <3>2. b * w >= w * h
      BY <2>1, <2>2, <3>1
    <3> QED
      BY <2>1, <2>2, <3>2
  <2>5. NthPlace(extent, n) = <<a, b>>
    BY <1>0 DEF NthPlace, a, b
  <2>6. <<a, b>> \in Places2(extent)
    BY <1>0, <2>2, <2>3, <2>4 DEF Places2
  <2>7. Index(extent, a, b) = n
    BY <1>0, <2>2 DEF Index
  <2> QED
    BY <2>2, <2>5, <2>6, <2>7
<1>3. ASSUME NEW a \in Int, NEW b \in Int, <<a, b>> \in Places2(extent)
      PROVE  /\ a \in 0 .. w - 1 /\ b \in 0 .. h - 1 /\ b * w \in Nat /\ b * w + w <= w * h
             /\ Index(extent, a, b) = b * w + a + 1
  <2>1. a \in 0 .. w - 1 /\ b \in 0 .. h - 1
    BY <1>0, <1>3 DEF Places2
  <2>2. (b + 1) * w <= h * w
    BY <2>1
  <2>3. (b + 1) * w = b * w + w /\ h * w = w * h /\ b * w \in Nat
    BY <2>1
  <2> QED
    BY <1>0, <2>1, <2>2, <2>3 DEF Index
<1>4. ASSUME NEW a \in Int, NEW b \in Int, <<a, b>> \in Places2(extent)
      PROVE  Index(extent, a, b) \in 1 .. w * h
  BY <1>1, <1>3, <1>4
<1>5. ASSUME NEW a \in Int, NEW b \in Int, NEW x \in Int, NEW y \in Int,
             <<a, b>> \in Places2(extent), <<x, y>> \in Places2(extent), Index(extent, a, b) = Index(extent, x, y)
      PROVE  a = x /\ b = y
  <2>1. a \in 0 .. w - 1 /\ x \in 0 .. w - 1 /\ b \in Nat /\ y \in Nat /\ b * w + a = y * w + x
    BY <1>3, <1>5
  <2>2. ~(b > y)
    <3>1. SUFFICES ASSUME b >= y + 1
                   PROVE  FALSE
      BY <2>1
    <3>2. b * w >= (y + 1) * w /\ (y + 1) * w = y * w + w
      BY <2>1, <3>1
    <3> QED
      BY <2>1, <3>2
  <2>3. ~(y > b)
    <3>1. SUFFICES ASSUME y >= b + 1
                   PROVE  FALSE
      BY <2>1
    <3>2. y * w >= (b + 1) * w /\ (b + 1) * w = b * w + w
      BY <2>1, <3>1
    <3> QED
      BY <2>1, <3>2
  <2>4. b = y
    BY <2>1, <2>2, <2>3
  <2> QED
    BY <2>1, <2>4
<1> QED
  BY <1>0, <1>1, <1>2, <1>4, <1>5

\* No wide glyph is cut at a cell or at the two before it.
Intact(frame, x, y) == \A d \in 0 .. 2 : ~Cut(frame.cells, x - d, y)

\* What an intact cell is: its own glyph, or the second half of the one before it; and a
\* wide glyph has its second half.
Around(extent, cells, x, y) ==
  /\ cells[<<x, y>>].symbol = Continuation =>
       /\ <<x - 1, y>> \in Places2(extent) /\ cells[<<x - 1, y>>].symbol = "W"
       /\ cells[<<x, y>>] = Cell(Continuation, cells[<<x - 1, y>>].style)
  /\ cells[<<x, y>>].symbol = "W" =>
       <<x + 1, y>> \in Places2(extent) /\ cells[<<x + 1, y>>].symbol = Continuation
  /\ <<x - 1, y>> \in Places2(extent) /\ cells[<<x - 1, y>>].symbol = "W" =>
       cells[<<x, y>>] = Cell(Continuation, cells[<<x - 1, y>>].style)
  /\ <<x - 2, y>> \in Places2(extent) /\ cells[<<x - 2, y>>].symbol = "W" =>
       <<x - 1, y>> \in Places2(extent) /\ cells[<<x - 1, y>>].symbol = Continuation

\* So it is, in a frame.
LEMMA IntactCells ==
  ASSUME NEW extent \in Sizes, NEW b \in Frames(extent), NEW x \in Int, NEW y \in Int, <<x, y>> \in Places2(extent),
         Intact(b, x, y)
  PROVE  Around(extent, b.cells, x, y)
<1>1. DOMAIN b.cells = Places2(extent) /\ Matched(b.cells) /\ b.cells[<<x, y>>] \in ScreenCells
  BY DEF Frames
<1>2. ~Cut(b.cells, x, y) /\ ~Cut(b.cells, x - 1, y) /\ ~Cut(b.cells, x - 2, y)
  <2>1. ~Cut(b.cells, x - 0, y) /\ ~Cut(b.cells, x - 1, y) /\ ~Cut(b.cells, x - 2, y)
    BY DEF Intact
  <2>2. x - 0 = x
    OBVIOUS
  <2> QED
    BY <2>1, <2>2
<1>3. BaseCell.symbol # "W" /\ BaseCell.symbol # Continuation
  BY DEF BaseCell, Cell, Continuation
<1>4. x - 1 + 1 = x /\ x - 2 + 1 = x - 1
  OBVIOUS
<1>5. ASSUME <<x - 1, y>> \in Places2(extent), b.cells[<<x - 1, y>>].symbol = "W",
             b.cells[<<x, y>>].symbol = Continuation
      PROVE  b.cells[<<x, y>>] = Cell(Continuation, b.cells[<<x - 1, y>>].style)
  <2>1. b.cells[<<x - 1, y>>].style = b.cells[<<x, y>>].style
    BY <1>1, <1>4, <1>5 DEF Matched
  <2>2. b.cells[<<x, y>>] = [symbol |-> b.cells[<<x, y>>].symbol, style |-> b.cells[<<x, y>>].style]
    BY <1>1 DEF ScreenCells
  <2> QED
    BY <1>5, <2>1, <2>2 DEF Cell
<1>6. b.cells[<<x, y>>].symbol = Continuation =>
         <<x - 1, y>> \in Places2(extent) /\ b.cells[<<x - 1, y>>].symbol = "W"
  BY <1>1, <1>2, <1>3 DEF Cut, CellAt
<1>7. b.cells[<<x, y>>].symbol = "W" =>
         <<x + 1, y>> \in Places2(extent) /\ b.cells[<<x + 1, y>>].symbol = Continuation
  BY <1>1, <1>2, <1>3 DEF Cut, CellAt
<1>8. <<x - 1, y>> \in Places2(extent) /\ b.cells[<<x - 1, y>>].symbol = "W" => b.cells[<<x, y>>].symbol = Continuation
  BY <1>1, <1>2, <1>3, <1>4 DEF Cut, CellAt
<1>9. <<x - 2, y>> \in Places2(extent) /\ b.cells[<<x - 2, y>>].symbol = "W" =>
         <<x - 1, y>> \in Places2(extent) /\ b.cells[<<x - 1, y>>].symbol = Continuation
  BY <1>1, <1>2, <1>3, <1>4 DEF Cut, CellAt
<1> QED
  BY <1>5, <1>6, <1>7, <1>8, <1>9 DEF Around

\* The column of the glyph that covers a cell.
Owner(next, x, y) == IF next.cells[<<x, y>>].symbol = Continuation THEN x - 1 ELSE x

\* A cell shows the frame once the glyph that covers it was due, and from the start where
\* that glyph has not changed.
Due(extent, prev, next, T, n, x, y) ==
  \/ prev.cells[<<Owner(next, x, y), y>>] = next.cells[<<Owner(next, x, y), y>>]
  \/ n >= Index(extent, Owner(next, x, y), y)
  => T[<<x, y>>] = next.cells[<<x, y>>]

\* Each cell that is emitted, next to an intact one or not, keeps that.
LEMMA WritingKeeps ==
  ASSUME NEW extent \in Sizes, NEW prev \in Frames(extent), NEW next \in Frames(extent),
         NEW x \in Int, NEW y \in Int, <<x, y>> \in Places2(extent), Intact(prev, x, y), Intact(next, x, y),
         NEW n \in 1 .. extent.width * extent.height, NEW r \in Renders(extent),
         Due(extent, prev, next, r.terminal.cells, n - 1, x, y)
  PROVE  Due(extent, prev, next, EmitCell(prev, next, r, NthPlace(extent, n)).terminal.cells, n, x, y)
<1> DEFINE T == r.terminal.cells
           e == EmitCell(prev, next, r, NthPlace(extent, n))
           U == e.terminal.cells
           N == extent.width * extent.height
           o == Owner(next, x, y)
           own == <<o, y>>
           due == Index(extent, o, y)
<1>1. PICK a \in Int, b \in Int : /\ NthPlace(extent, n) = <<a, b>> /\ <<a, b>> \in Places2(extent)
                                  /\ Index(extent, a, b) = n
  BY OrderOfCells
<1>0. Around(extent, next.cells, x, y)
  BY IntactCells
<1>2. o \in Int /\ own \in Places2(extent) /\ next.cells[own].symbol # Continuation
      /\ (o = x \/ (o = x - 1 /\ next.cells[<<x, y>>].symbol = Continuation))
  BY <1>0 DEF Around, Owner, Continuation
<1>3. due \in 1 .. N /\ N \in Nat
  BY <1>2, OrderOfCells
<1>4. n = due => a = o /\ b = y
  BY <1>1, <1>2, OrderOfCells
<1>5. a = o /\ b = y => n = due
  BY <1>1
<1> DEFINE q == <<a, b>>
           glyph == next.cells[q]
<1>6. /\ Skipped(prev, next, q) => U = T
      /\ ~Skipped(prev, next, q) => Puts(extent, T, U, a, b, glyph.symbol, glyph.style)
  BY <1>1, CellEmitted
<1>7. glyph = Cell(glyph.symbol, glyph.style)
  <2>1. glyph \in ScreenCells
    BY <1>1 DEF Frames
  <2> QED
    BY <2>1 DEF ScreenCells, Cell
<1>8. Whole(T)
  BY DEF Renders, Terminals
<1> SUFFICES ASSUME prev.cells[own] = next.cells[own] \/ n >= due
             PROVE  U[<<x, y>>] = next.cells[<<x, y>>]
  BY DEF Due
<1> HIDE DEF e, U, due, N
<1>9. n # due => T[<<x, y>>] = next.cells[<<x, y>>]
  BY <1>3 DEF Due, due
<1>10. prev.cells[own] = next.cells[own] => T[<<x, y>>] = next.cells[<<x, y>>]
  BY DEF Due
<1> HIDE DEF T, glyph, own
<1>11. CASE Skipped(prev, next, q)
  <2>1. CASE n = due
    <3>1. q = own
      BY <1>4, <2>1 DEF own
    <3>2. prev.cells[own] = next.cells[own]
      BY <1>2, <1>11, <3>1 DEF Skipped
    <3> QED
      BY <1>6, <1>10, <1>11, <3>2
  <2> QED
    BY <1>6, <1>9, <1>11, <2>1
<1>12. CASE ~Skipped(prev, next, q)
  <2>0. Puts(extent, T, U, a, b, glyph.symbol, glyph.style) /\ glyph.symbol # Continuation
    BY <1>6, <1>12 DEF Skipped, glyph
  <2>1. CASE a = o /\ b = y
    <3>1. CASE o = x
      BY <1>7, <2>0, <2>1, <3>1 DEF Puts, glyph
    <3>2. CASE o = x - 1 /\ next.cells[<<x, y>>].symbol = Continuation
      <4>1. a + 1 = x
        BY <2>1, <3>2
      <4>2. glyph.symbol = "W" /\ next.cells[<<x, y>>] = Cell(Continuation, glyph.style)
        BY <2>1, <3>2, <1>0 DEF Around, glyph
      <4> QED
        BY <2>0, <2>1, <4>1, <4>2 DEF Puts
    <3> QED
      BY <1>2, <3>1, <3>2
  <2>2. CASE ~(a = o /\ b = y)
    <3>1. T[<<x, y>>] = next.cells[<<x, y>>]
      BY <1>4, <1>9, <2>2
    <3>2. ~(x = a /\ y = b)
      BY <1>2, <2>0, <2>2 DEF glyph
    <3>3. ~(x = a + 1 /\ y = b /\ glyph.symbol = "W")
      <4>1. SUFFICES ASSUME x = a + 1, y = b, glyph.symbol = "W"
                     PROVE  FALSE
        OBVIOUS
      <4>2. a = x - 1
        BY <4>1
      <4>3. next.cells[<<x, y>>].symbol = Continuation
        BY <1>1, <4>1, <4>2, <1>0 DEF Around, glyph, Cell
      <4> QED
        BY <2>2, <4>1, <4>2, <4>3 DEF Owner
    <3>4. ~(x = a - 1 /\ y = b /\ T[<<a, b>>].symbol = Continuation)
      <4>1. SUFFICES ASSUME x = a - 1, y = b, T[<<a, b>>].symbol = Continuation
                     PROVE  FALSE
        OBVIOUS
      <4>2. a = x + 1 /\ DOMAIN T = Places2(extent)
        BY <4>1 DEF T, Renders, Terminals
      <4>3. T[<<x, y>>].symbol = "W"
        BY <1>1, <1>8, <4>1, <4>2 DEF Whole
      <4>4. next.cells[<<x + 1, y>>].symbol = Continuation
        BY <3>1, <4>3, <1>0 DEF Around
      <4> QED
        BY <2>0, <4>1, <4>2, <4>4 DEF glyph
    <3>5. ~(x = a + GlyphWidth(glyph.symbol) /\ y = b /\ T[<<x, y>>].symbol = Continuation)
      <4>1. SUFFICES ASSUME x = a + GlyphWidth(glyph.symbol), y = b, T[<<x, y>>].symbol = Continuation
                     PROVE  FALSE
        OBVIOUS
      <4>2. next.cells[<<x, y>>].symbol = Continuation
        BY <3>1, <4>1
      <4>3. o = x - 1 /\ next.cells[<<x - 1, y>>].symbol = "W"
        BY <4>2, <1>0 DEF Around, Owner
      <4>4. CASE glyph.symbol = "W"
        <5>1. a = x - 2
          BY <4>1, <4>4 DEF GlyphWidth
        <5>2. next.cells[<<x - 1, y>>].symbol = Continuation
          BY <1>1, <4>1, <4>4, <5>1, <1>0 DEF Around, glyph
        <5> QED
          BY <4>3, <5>2 DEF Continuation
      <4>5. CASE glyph.symbol # "W"
        <5>1. a = x - 1
          BY <4>1, <4>5 DEF GlyphWidth
        <5> QED
          BY <2>2, <4>1, <4>3, <5>1
      <4> QED
        BY <4>4, <4>5
    <3>6. U[<<x, y>>] = T[<<x, y>>]
      BY <2>0, <3>2, <3>3, <3>4, <3>5 DEF Puts
    <3> QED
      BY <3>1, <3>6
  <2> QED
    BY <2>1, <2>2
<1> QED
  BY <1>11, <1>12

\* So at the end every intact cell shows the frame that showed the last one before.
LEMMA FrameWritten ==
  ASSUME NEW extent \in Sizes, NEW prev \in Frames(extent), NEW next \in Frames(extent),
         NEW cells \in [Places2(extent) -> ScreenCells], Whole(cells)
  PROVE  /\ Emitted(prev, next, cells) \in [Places2(extent) -> ScreenCells]
         /\ Whole(Emitted(prev, next, cells))
         /\ \A x, y \in Int :
              /\ <<x, y>> \in Places2(extent) /\ Intact(prev, x, y) /\ Intact(next, x, y)
              /\ cells[<<x, y>>] = prev.cells[<<x, y>>]
              => Emitted(prev, next, cells)[<<x, y>>] = next.cells[<<x, y>>]
<1> DEFINE S == Renders(extent)
           start == Beginning(prev, next, cells)
           N == extent.width * extent.height
           G == [pn \in S \X (1 .. N) |-> EmitCell(prev, next, pn[1], NthPlace(extent, pn[2]))]
           run == CHOOSE f : f = [n \in 0 .. N |-> IF n = 0 THEN start ELSE EmitCell(prev, next, f[n - 1], NthPlace(extent, n))]
<1>0. prev.size = extent /\ next.size = extent /\ N \in Nat
  BY OrderOfCells DEF Frames
<1>1. start \in S /\ start.terminal.cells = cells
  <2>1. start = [terminal |-> [cells |-> cells, at |-> <<0, 0>>, style |-> "unknown"],
                 cursor |-> <<>>, current |-> "none"]
    BY <1>0 DEF Beginning
  <2>2. <<0, 0>> \in Int \X Int
    OBVIOUS
  <2>3. [cells |-> cells, at |-> <<0, 0>>, style |-> "unknown"] \in Terminals(extent)
    BY <2>2 DEF Terminals, Styles
  <2> QED
    BY <2>1, <2>3 DEF Renders
<1>2. ASSUME NEW r \in S, NEW n \in 1 .. N
      PROVE  EmitCell(prev, next, r, NthPlace(extent, n)) \in S
  <2>1. PICK a \in Int, b \in Int : NthPlace(extent, n) = <<a, b>> /\ <<a, b>> \in Places2(extent)
    BY OrderOfCells
  <2> QED
    BY <2>1, CellEmitted
<1>3. G \in [S \X (1 .. N) -> S]
  <2> HIDE DEF S, N
  <2> QED
    BY <1>2
<1>4. PICK f \in [0 .. N -> S] : Iterated(f, start, N, G)
  <2> HIDE DEF G, S, start, N
  <2> QED
    BY <1>0, <1>1, <1>3, Iterates
<1>5. f = [n \in 0 .. N |-> IF n = 0 THEN start ELSE EmitCell(prev, next, f[n - 1], NthPlace(extent, n))]
  <2>1. ASSUME NEW n \in 0 .. N, n # 0
        PROVE  G[<<f[n - 1], n>>] = EmitCell(prev, next, f[n - 1], NthPlace(extent, n))
    <3>1. f[n - 1] \in S /\ n \in 1 .. N
      <4> HIDE DEF S, N
      <4> QED
        BY <1>0, <2>1
    <3> HIDE DEF S, N
    <3> QED
      BY <3>1
  <2> HIDE DEF S, N, G, start
  <2> QED
    BY <1>4, <2>1 DEF Iterated
<1>6. run = [n \in 0 .. N |-> IF n = 0 THEN start ELSE EmitCell(prev, next, run[n - 1], NthPlace(extent, n))]
  <2> HIDE DEF S, N, start
  <2> QED
    BY <1>5, Zenon
<1>7. /\ run[0] = start
      /\ \A n \in 1 .. N : run[n] = EmitCell(prev, next, run[n - 1], NthPlace(extent, n))
  <2> HIDE DEF S, N, start, run
  <2>1. \A n \in 0 .. N : run[n] = IF n = 0 THEN start ELSE EmitCell(prev, next, run[n - 1], NthPlace(extent, n))
    BY <1>6, Zenon
  <2> QED
    BY <1>0, <2>1
<1>8. Emitted(prev, next, cells) = run[N].terminal.cells
  <2>1. Emitted(prev, next, cells) =
          LET F[n \in 0 .. extent.width * extent.height] ==
                  IF n = 0 THEN start ELSE EmitCell(prev, next, F[n - 1], NthPlace(extent, n))
          IN  F[extent.width * extent.height].terminal.cells
    BY <1>0, Zenon DEF Emitted
  <2> QED
    BY <2>1, Zenon
<1> HIDE DEF S, N, start, run, G
<1>9. \A n \in Nat : n \in {m \in Nat : m <= N => run[m] \in S}
  <2> DEFINE Q == {m \in Nat : m <= N => run[m] \in S}
  <2>1. 0 \in Q
    BY <1>1, <1>7
  <2>2. ASSUME NEW m \in Nat, m \in Q
        PROVE  m + 1 \in Q
    <3>1. CASE m + 1 <= N
      <4>1. m + 1 \in 1 .. N /\ m + 1 - 1 = m /\ run[m] \in S
        BY <1>0, <2>2, <3>1
      <4> QED
        BY <1>2, <1>7, <4>1
    <3>2. CASE ~(m + 1 <= N)
      BY <3>2
    <3> QED
      BY <3>1, <3>2
  <2> HIDE DEF Q
  <2>3. \A n \in Nat : n \in Q
    BY <2>1, <2>2, Counting
  <2> QED
    BY <2>3 DEF Q
<1>10. run[N] \in S
  BY <1>0, <1>9
<1>11. /\ run[N].terminal.cells \in [Places2(extent) -> ScreenCells]
       /\ Whole(run[N].terminal.cells)
  BY <1>10 DEF S, Renders, Terminals
<1>12. ASSUME NEW x \in Int, NEW y \in Int, <<x, y>> \in Places2(extent), Intact(prev, x, y), Intact(next, x, y),
              cells[<<x, y>>] = prev.cells[<<x, y>>]
       PROVE  run[N].terminal.cells[<<x, y>>] = next.cells[<<x, y>>]
  <2> DEFINE o == Owner(next, x, y)
             due == Index(extent, o, y)
             Q == {m \in Nat : m <= N => Due(extent, prev, next, run[m].terminal.cells, m, x, y)}
  <2>0. Around(extent, next.cells, x, y) /\ Around(extent, prev.cells, x, y)
    BY <1>12, IntactCells
  <2>1. o \in Int /\ <<o, y>> \in Places2(extent)
        /\ (o = x \/ (o = x - 1 /\ next.cells[<<x, y>>].symbol = Continuation))
    BY <1>12, <2>0 DEF Around, Owner
  <2>2. due \in 1 .. N
    BY <2>1, OrderOfCells DEF N
  <2>3. 0 \in Q
    <3>1. SUFFICES ASSUME prev.cells[<<o, y>>] = next.cells[<<o, y>>] \/ 0 >= due
                   PROVE  cells[<<x, y>>] = next.cells[<<x, y>>]
      <4> HIDE DEF o, due
      <4> QED
        BY <1>1, <1>7 DEF Due, o, due
    <3>2. prev.cells[<<o, y>>] = next.cells[<<o, y>>]
      BY <1>0, <2>2, <3>1
    <3>3. CASE o = x
      BY <1>12, <3>2, <3>3
    <3>4. CASE o = x - 1 /\ next.cells[<<x, y>>].symbol = Continuation
      <4>1. /\ next.cells[<<x - 1, y>>].symbol = "W" /\ <<x - 1, y>> \in Places2(extent)
            /\ next.cells[<<x, y>>] = Cell(Continuation, next.cells[<<x - 1, y>>].style)
        BY <2>0, <3>4 DEF Around
      <4>2. prev.cells[<<x - 1, y>>] = next.cells[<<x - 1, y>>]
        BY <3>2, <3>4
      <4>3. prev.cells[<<x, y>>] = Cell(Continuation, prev.cells[<<x - 1, y>>].style)
        BY <2>0, <4>1, <4>2 DEF Around
      <4> QED
        BY <1>12, <4>1, <4>2, <4>3
    <3> QED
      BY <2>1, <3>3, <3>4
  <2>4. ASSUME NEW m \in Nat, m \in Q
        PROVE  m + 1 \in Q
    <3>1. CASE m + 1 <= N
      <4>1. m + 1 \in 1 .. N /\ m + 1 - 1 = m /\ m <= N
        BY <1>0, <3>1
      <4>2. run[m] \in Renders(extent) /\ Due(extent, prev, next, run[m].terminal.cells, m, x, y)
        BY <1>9, <2>4, <4>1 DEF S
      <4>3. run[m + 1] = EmitCell(prev, next, run[m], NthPlace(extent, m + 1))
        BY <1>7, <4>1
      <4>4. Due(extent, prev, next, run[m + 1].terminal.cells, m + 1, x, y)
        <5>1. Due(extent, prev, next, run[m].terminal.cells, (m + 1) - 1, x, y)
          BY <4>1, <4>2
        <5>2. m + 1 \in 1 .. extent.width * extent.height
          BY <4>1 DEF N
        <5> QED
          BY <1>12, <4>2, <4>3, <5>1, <5>2, WritingKeeps
      <4> QED
        BY <4>4
    <3>2. CASE ~(m + 1 <= N)
      BY <3>2
    <3> QED
      BY <3>1, <3>2
  <2> HIDE DEF Q
  <2>5. N \in Q
    BY <1>0, <2>3, <2>4, Counting
  <2>6. Due(extent, prev, next, run[N].terminal.cells, N, x, y)
    BY <1>0, <2>5 DEF Q
  <2>7. N >= Index(extent, Owner(next, x, y), y)
    BY <1>0, <2>2
  <2> QED
    BY <2>6, <2>7 DEF Due
<1> QED
  BY <1>8, <1>11, <1>12

\* The frame is one, and what the terminal shows of wide glyphs is whole.
ScreenInv ==
  /\ front.size \in Sizes /\ front \in Frames(front.size)
  /\ shown \in [Places2(front.size) -> ScreenCells] /\ Whole(shown)

\* It holds on an empty screen.
LEMMA ScreenStarts == ScreenInit => ScreenInv
<1> SUFFICES ASSUME NEW extent \in ScreenSizes, front = BlankBuffer(extent), shown = BlankBuffer(extent).cells
             PROVE  ScreenInv
  BY DEF ScreenInit
<1>1. extent \in Sizes
  BY ScreenAssumption DEF Sizes
<1>2. front \in Frames(extent) /\ front.size = extent
  BY <1>1, BlankIsAFrame DEF Frames
<1>3. shown \in [Places2(extent) -> ScreenCells]
  BY <1>2 DEF Frames
<1>4. \A p \in Places2(extent) : shown[p].symbol # Continuation
  BY DEF BlankBuffer, BaseCell, Cell, Continuation
<1> QED
  BY <1>1, <1>2, <1>3, <1>4 DEF ScreenInv, Whole

\* A frame and a new size keep it; and the frame is what is shown.
LEMMA ScreenStep == ScreenInv /\ [ScreenNext]_screenVars => ScreenInv' /\ FrameIsShown
<1> SUFFICES ASSUME ScreenInv, [ScreenNext]_screenVars
             PROVE  ScreenInv' /\ FrameIsShown
  OBVIOUS
<1> DEFINE extent == front.size
<1>1. extent \in Sizes /\ front \in Frames(extent) /\ shown \in [Places2(extent) -> ScreenCells] /\ Whole(shown)
  BY DEF ScreenInv
<1>2. ASSUME NEW drawing \in Drawings, front' = Drawn(extent, drawing), shown' = Emitted(front, front', shown)
      PROVE  ScreenInv' /\ FrameIsShown
  <2>1. front' \in Frames(extent) /\ front'.size = extent
    BY <1>1, <1>2, DrawnIsAFrame DEF Frames
  <2>2. shown' \in [Places2(extent) -> ScreenCells] /\ Whole(shown')
    BY <1>1, <1>2, <2>1, FrameWritten
  <2>3. ScreenInv'
    BY <1>1, <2>1, <2>2 DEF ScreenInv
  <2>4. ASSUME NEW p \in Places2(extent), shown'[p] # front'.cells[p], p \notin NearCut(front), p \notin NearCut(front'),
               shown[p] = front.cells[p]
        PROVE  FALSE
    <3>1. PICK x \in Int, y \in Int : p = <<x, y>>
      BY <1>1 DEF Places2, Sizes
    <3>2. DOMAIN front.cells = Places2(extent) /\ DOMAIN front'.cells = Places2(extent)
      BY <1>1, <2>1 DEF Frames
    <3>3. p[1] = x /\ p[2] = y
      BY <3>1
    <3>4. Intact(front, x, y) /\ Intact(front', x, y)
      BY <2>4, <3>2, <3>3 DEF NearCut, Intact
    <3> QED
      BY <1>1, <1>2, <2>1, <2>4, <3>1, <3>4, FrameWritten
  <2>5. DOMAIN shown = Places2(extent) /\ DOMAIN shown' = Places2(extent)
    BY <1>1, <2>2
  <2>6. FrameIsShown
    BY <2>4, <2>5 DEF FrameIsShown, Wrong
  <2> QED
    BY <2>3, <2>6
<1>3. ASSUME NEW new \in ScreenSizes \ {extent}, front' = BlankBuffer(new),
             shown' = [p \in Places2(new) |-> IF p \in DOMAIN shown THEN shown[p] ELSE BaseCell]
      PROVE  ScreenInv' /\ FrameIsShown
  <2>1. new \in Sizes
    BY ScreenAssumption DEF Sizes
  <2>2. front' \in Frames(new) /\ front'.size = new
    BY <1>3, <2>1, BlankIsAFrame DEF Frames
  <2>3. BaseCell \in ScreenCells /\ BaseCell.symbol # Continuation
    BY DEF BaseCell, Cell, ScreenCells, Glyphs, Styles, Continuation
  <2>4. shown' \in [Places2(new) -> ScreenCells]
    BY <1>1, <1>3, <2>3
  <2>5. ASSUME NEW x \in Int, NEW y \in Int, <<x, y>> \in Places2(new), shown'[<<x, y>>].symbol = Continuation
        PROVE  <<x - 1, y>> \in Places2(new) /\ shown'[<<x - 1, y>>].symbol = "W"
    <3>1. <<x, y>> \in DOMAIN shown /\ shown'[<<x, y>>] = shown[<<x, y>>]
      BY <1>3, <2>3, <2>5
    <3>2. <<x - 1, y>> \in Places2(extent) /\ <<x - 1, y>> \in DOMAIN shown /\ shown[<<x - 1, y>>].symbol = "W"
      BY <1>1, <2>5, <3>1 DEF Whole
    <3>3. <<x - 1, y>> \in Places2(new)
      BY <1>1, <2>1, <2>5, <3>2 DEF Places2, Sizes
    <3> QED
      BY <1>3, <3>2, <3>3
  <2>6. Whole(shown')
    BY <2>4, <2>5 DEF Whole
  <2>7. FrameIsShown
    BY <1>3, <2>2 DEF FrameIsShown
  <2> QED
    BY <2>1, <2>2, <2>4, <2>6, <2>7 DEF ScreenInv
<1>4. CASE UNCHANGED screenVars
  <2>1. front' = front /\ shown' = shown
    BY <1>4 DEF screenVars
  <2> QED
    BY <2>1 DEF ScreenInv, FrameIsShown, Wrong
<1>5. CASE ScreenNext
  BY <1>2, <1>3, <1>5 DEF ScreenNext, Present, ResizeScreen
<1> QED
  BY <1>4, <1>5

-----------------------------------------------------------------------------
(* The explorer.                                                           *)

\* The rows of a tree.
TreeRows == [path : STRING, depth : Int]

\* The rows below the directories, when this many levels are read.
LevelsOf(f, opened) ==
  f = [levels \in 0 .. Deepest |->
          IF levels = 0 THEN [d \in Directories |-> <<>>]
          ELSE LevelRows(opened, Deepest - levels, f[levels - 1])]

\* One more level, of rows again.
LEMMA LevelsAreRows ==
  ASSUME NEW opened, NEW below \in [Directories -> Seq(TreeRows)], NEW depth \in Int
  PROVE  LevelRows(opened, depth, below) \in [Directories -> Seq(TreeRows)]
<1>1. ASSUME NEW d \in Directories, NEW i \in DOMAIN Listing[d]
      PROVE  EntryRows(Listing[d][i], depth, opened, below) \in Seq(TreeRows)
  <2> DEFINE e == Listing[d][i]
             row == [path |-> e, depth |-> depth]
  <2>1. e \in STRING
    BY TreeAssumption DEF Directories
  <2>2. row \in TreeRows
    BY <2>1 DEF TreeRows
  <2> HIDE DEF row, e
  <2>3. <<row>> \in Seq(TreeRows) /\ <<>> \in Seq(TreeRows)
    BY <2>2
  <2>4. (IF e \in Directories \cap opened THEN below[e] ELSE <<>>) \in Seq(TreeRows)
    BY <2>3
  <2>5. <<row>> \o (IF e \in Directories \cap opened THEN below[e] ELSE <<>>) \in Seq(TreeRows)
    BY <2>3, <2>4, ConcatProperties
  <2> QED
    BY <2>3, <2>5 DEF EntryRows, e, row
<1>2. ASSUME NEW d \in Directories
      PROVE  FlattenSeq([i \in DOMAIN Listing[d] |-> EntryRows(Listing[d][i], depth, opened, below)]) \in Seq(TreeRows)
  <2> DEFINE parts == [i \in DOMAIN Listing[d] |-> EntryRows(Listing[d][i], depth, opened, below)]
  <2>1. DOMAIN Listing[d] = 1 .. Len(Listing[d]) /\ Len(Listing[d]) \in Nat
    BY TreeAssumption DEF Directories
  <2>2. \A i \in 1 .. Len(Listing[d]) : parts[i] \in Seq(TreeRows)
    BY <1>1, <2>1
  <2>3. parts = [i \in 1 .. Len(Listing[d]) |-> parts[i]]
    BY <2>1
  <2> HIDE DEF parts
  <2>4. parts \in Seq(Seq(TreeRows))
    <3>1. PICK n \in Nat : n = Len(Listing[d])
      BY <2>1
    <3>2. parts = [i \in 1 .. n |-> parts[i]] /\ \A i \in 1 .. n : parts[i] \in Seq(TreeRows)
      BY <2>2, <2>3, <3>1
    <3>3. parts \in [1 .. n -> Seq(TreeRows)]
      BY <3>2
    <3> HIDE DEF TreeRows
    <3> QED
      BY <3>3, SeqDef
  <2>5. FlattenSeq(parts) \in Seq(TreeRows)
    BY <2>4, FlattenType
  <2> QED
    BY <2>5 DEF parts
<1> QED
  BY <1>2 DEF LevelRows

\* What is below the root is a sequence of rows.
LEMMA RowsAreListed ==
  ASSUME NEW opened
  PROVE  RowsUnder(opened) \in Seq(TreeRows)
<1> DEFINE Levels == [Directories -> Seq(TreeRows)]
           none == [d \in Directories |-> <<>>]
           Next1(below, n) == LevelRows(opened, Deepest - n, below)
           G == [p \in Levels \X (1 .. Deepest) |-> Next1(p[1], p[2])]
           append == CHOOSE f : f = [levels \in 0 .. Deepest |->
                        IF levels = 0 THEN [d \in Directories |-> <<>>]
                        ELSE LevelRows(opened, Deepest - levels, f[levels - 1])]
<1>1. Deepest \in Nat
  BY TreeAssumption, FS_CardinalityType DEF Deepest, Directories
<1>2. none \in Levels
  BY EmptySeq
<1>3. ASSUME NEW below \in Levels, NEW n \in 1 .. Deepest
      PROVE  Next1(below, n) \in Levels
  <2>1. Deepest - n \in Int
    BY <1>1
  <2> QED
    BY <2>1, LevelsAreRows
<1>4. G \in [Levels \X (1 .. Deepest) -> Levels]
  <2> HIDE DEF Levels, Next1
  <2> QED
    BY <1>3
<1>5. PICK f \in [0 .. Deepest -> Levels] : Iterated(f, none, Deepest, G)
  <2> HIDE DEF G, Levels, none
  <2> QED
    BY <1>1, <1>2, <1>4, Iterates
<1>6. f = [levels \in 0 .. Deepest |-> IF levels = 0 THEN none ELSE Next1(f[levels - 1], levels)]
  <2>1. ASSUME NEW n \in 0 .. Deepest, n # 0
        PROVE  G[<<f[n - 1], n>>] = Next1(f[n - 1], n)
    <3>1. f[n - 1] \in Levels /\ n \in 1 .. Deepest
      <4> HIDE DEF Levels
      <4> QED
        BY <1>1, <2>1
    <3> HIDE DEF Levels, Next1
    <3> QED
      BY <3>1
  <2> HIDE DEF G, Levels, none, Next1
  <2> QED
    BY <1>5, <2>1 DEF Iterated
<1>7. LevelsOf(append, opened)
  <2>1. LevelsOf(f, opened)
    BY <1>6, Zenon DEF LevelsOf
  <2> QED
    BY <2>1, Zenon DEF LevelsOf
<1>8. RowsUnder(opened) = append[Deepest][Root]
  BY Zenon DEF RowsUnder
<1> HIDE DEF append
<1>9. \A n \in 0 .. Deepest : append[n] = IF n = 0 THEN none ELSE Next1(append[n - 1], n)
  <2> DEFINE h == [levels \in 0 .. Deepest |-> IF levels = 0 THEN none ELSE Next1(append[levels - 1], levels)]
  <2>1. append = h
    BY <1>7, Zenon DEF LevelsOf
  <2>2. \A n \in 0 .. Deepest : h[n] = IF n = 0 THEN none ELSE Next1(append[n - 1], n)
    <3> HIDE DEF none, Next1
    <3> QED
      OBVIOUS
  <2> HIDE DEF h, none, Next1
  <2> QED
    BY <2>1, <2>2
<1> DEFINE Q == {m \in Nat : m <= Deepest => append[m] \in Levels}
<1> HIDE DEF Levels, none, Next1
<1>10. 0 \in Q
  BY <1>1, <1>2, <1>9
<1>11. ASSUME NEW m \in Nat, m \in Q
       PROVE  m + 1 \in Q
  <2>1. CASE m + 1 <= Deepest
    <3>1. append[m + 1] = Next1(append[m], m + 1) /\ append[m] \in Levels /\ m + 1 \in 1 .. Deepest
      BY <1>1, <1>9, <1>11, <2>1
    <3> QED
      BY <1>3, <3>1
  <2>2. CASE ~(m + 1 <= Deepest)
    BY <2>2
  <2> QED
    BY <2>1, <2>2
<1> HIDE DEF Q
<1>12. append[Deepest] \in Levels
  <2>1. Deepest \in Q
    BY <1>1, <1>10, <1>11, Counting
  <2> QED
    BY <1>1, <2>1 DEF Q
<1> QED
  BY <1>8, <1>12, TreeAssumption DEF Levels, Directories

\* The inductive invariant of the explorer: where there are rows, one of them is selected.
TreeInv ==
  /\ rows \in Seq(TreeRows) /\ selected \in Nat
  /\ rows # <<>> => selected < Len(rows)

\* It holds on what is read first.
LEMMA TreeStarts == TreeInit => TreeInv
<1> SUFFICES ASSUME TreeInit
             PROVE  TreeInv
  OBVIOUS
<1>1. rows \in Seq(TreeRows) /\ selected = 0
  BY RowsAreListed DEF TreeInit
<1>2. rows # <<>> => 0 < Len(rows)
  BY <1>1, EmptySeq
<1> QED
  BY <1>1, <1>2 DEF TreeInv

\* Rebuilt rows have a selected one, which is the one to be kept if it is still listed.
LEMMA RebuiltRows ==
  ASSUME TreeInv, NEW opened, NEW keep, Rebuild(opened, keep)
  PROVE  /\ TreeInv'
         /\ (\E i \in DOMAIN rows' : rows'[i].path \in keep) => rows'[selected' + 1].path \in keep
<1>1. rows' \in Seq(TreeRows) /\ selected \in Nat
  BY RowsAreListed DEF Rebuild, TreeInv
<1>2. Len(rows') \in Nat /\ DOMAIN rows' = 1 .. Len(rows') /\ (rows' # <<>> => Len(rows') # 0)
  BY <1>1, EmptySeq
<1>3. CASE \E i \in DOMAIN rows' : rows'[i].path \in keep
  <2> DEFINE at == CHOOSE i \in DOMAIN rows' : rows'[i].path \in keep
  <2>1. at \in DOMAIN rows' /\ rows'[at].path \in keep
    BY <1>3
  <2>2. selected' = at - 1
    BY <1>3 DEF Rebuild
  <2> HIDE DEF at
  <2>3. at \in 1 .. Len(rows') /\ selected' + 1 = at
    BY <1>2, <2>1, <2>2
  <2> QED
    BY <1>1, <1>2, <2>1, <2>2, <2>3 DEF TreeInv
<1>4. CASE ~\E i \in DOMAIN rows' : rows'[i].path \in keep
  <2>1. selected' = KeepOnRows(selected, Len(rows'))
    BY <1>4 DEF Rebuild
  <2> QED
    BY <1>1, <1>2, <1>4, <2>1 DEF TreeInv, KeepOnRows
<1> QED
  BY <1>3, <1>4

\* Every key, refresh and change of the disk keeps it, and the selected entry.
LEMMA TreeStep == TreeInv /\ [TreeNext]_treeVars => TreeInv' /\ TreeKeepsItsPlace
<1> SUFFICES ASSUME TreeInv, [TreeNext]_treeVars
             PROVE  TreeInv' /\ TreeKeepsItsPlace
  OBVIOUS
<1>1. TreeInv' => (rows' # <<>> => selected' < Len(rows'))
  BY DEF TreeInv
<1>2. TreeInv' /\ rows' = rows => TreeKeepsItsPlace
  BY <1>1 DEF TreeKeepsItsPlace
<1>3. Len(rows) \in Nat /\ (rows = <<>> => Len(rows) = 0)
  BY EmptySeq DEF TreeInv
<1>4. CASE TreeUp
  BY <1>2, <1>4 DEF TreeUp, TreeInv
<1>5. CASE TreeDown
  BY <1>2, <1>3, <1>5 DEF TreeDown, TreeInv
<1>6. CASE TreeDraw
  BY <1>2, <1>6 DEF TreeDraw, TreeInv
<1>7. CASE DiskChanges
  BY <1>2, <1>7 DEF DiskChanges, TreeInv
<1>8. CASE UNCHANGED treeVars
  BY <1>2, <1>8 DEF treeVars, TreeInv
<1>9. CASE TreeToggle
  <2>1. PICK opened : Rebuild(opened, {Here})
    BY <1>9 DEF TreeToggle
  <2> QED
    BY <1>1, <2>1, RebuiltRows DEF TreeKeepsItsPlace
<1>10. CASE TreeRefresh
  <2>1. Rebuild(expanded, IF OnRow THEN {Here} ELSE {})
    BY <1>10 DEF TreeRefresh
  <2> QED
    BY <1>1, <2>1, RebuiltRows DEF TreeKeepsItsPlace
<1> QED
  BY <1>4, <1>5, <1>6, <1>7, <1>8, <1>9, <1>10 DEF TreeNext

-----------------------------------------------------------------------------
(* The finder.                                                             *)

\* The states of a scan of a label.
Scans == [matched : Nat, score : Nat, run : BOOLEAN]

\* A scan of the label for the query.
ScanOf(f, q, label) ==
  f = [i \in 0 .. Len(label) |-> IF i = 0 THEN NothingScanned ELSE ScanChar(q, label, f[i - 1], i)]

\* A character leads from one to the next.
LEMMA ScanStep ==
  ASSUME NEW q, NEW label, NEW scan \in Scans, NEW i
  PROVE  /\ ScanChar(q, label, scan, i) \in Scans
         /\ ScanChar(q, label, scan, i).matched =
               IF IsHit(q, label, scan, i) THEN scan.matched + 1 ELSE scan.matched
<1>1. CASE IsHit(q, label, scan, i)
  <2> DEFINE stepped == [matched |-> scan.matched + 1,
                       score |-> scan.score + 1 + (IF scan.run THEN 10 ELSE 0)
                                 + (IF i = 1 \/ label[i - 1] = "/" THEN 5 ELSE 0),
                       run |-> TRUE]
  <2>1. ScanChar(q, label, scan, i) = stepped
    BY <1>1 DEF ScanChar
  <2>2. scan.matched \in Nat /\ scan.score \in Nat
    BY DEF Scans
  <2>3. (IF scan.run THEN 10 ELSE 0) \in Nat /\ (IF i = 1 \/ label[i - 1] = "/" THEN 5 ELSE 0) \in Nat
    OBVIOUS
  <2>4. stepped.matched \in Nat /\ stepped.score \in Nat /\ stepped.run \in BOOLEAN
    BY <2>2, <2>3
  <2> QED
    BY <1>1, <2>1, <2>4 DEF Scans
<1>2. CASE ~IsHit(q, label, scan, i)
  BY <1>2 DEF ScanChar, Scans
<1> QED
  BY <1>1, <1>2

\* There is such a scan, and a label matches if all of the query is taken in it.
LEMMA ScanExists ==
  ASSUME NEW q \in Seq(STRING), NEW label \in Seq(STRING)
  PROVE  \E f : /\ ScanOf(f, q, label)
                /\ \A i \in 0 .. Len(label) : f[i] \in Scans
                /\ FuzzyMatch(q, label) = IF f[Len(label)].matched = Len(q) THEN f[Len(label)].score ELSE NoMatch
<1> DEFINE N == Len(label)
           G == [p \in Scans \X (1 .. N) |-> ScanChar(q, label, p[1], p[2])]
           scan == CHOOSE f : f = [i \in 0 .. N |-> IF i = 0 THEN NothingScanned ELSE ScanChar(q, label, f[i - 1], i)]
<1>1. NothingScanned \in Scans /\ N \in Nat
  BY DEF NothingScanned, Scans
<1>2. ASSUME NEW p \in Scans, NEW i \in 1 .. N
      PROVE  ScanChar(q, label, p, i) \in Scans
  BY ScanStep
<1>3. G \in [Scans \X (1 .. N) -> Scans]
  BY <1>2
<1>4. PICK f \in [0 .. N -> Scans] : Iterated(f, NothingScanned, N, G)
  <2> HIDE DEF G, N
  <2> QED
    BY <1>1, <1>3, Iterates
<1>5. f = [i \in 0 .. N |-> IF i = 0 THEN NothingScanned ELSE ScanChar(q, label, f[i - 1], i)]
  <2>1. ASSUME NEW i \in 0 .. N, i # 0
        PROVE  G[<<f[i - 1], i>>] = ScanChar(q, label, f[i - 1], i)
    <3>1. f[i - 1] \in Scans /\ i \in 1 .. N
      <4> HIDE DEF N
      <4> QED
        BY <1>1, <2>1
    <3> HIDE DEF N
    <3> QED
      BY <3>1
  <2> HIDE DEF N, G
  <2> QED
    BY <1>4, <2>1 DEF Iterated
<1>6. ScanOf(scan, q, label)
  <2>1. \E g : g = [i \in 0 .. N |-> IF i = 0 THEN NothingScanned ELSE ScanChar(q, label, g[i - 1], i)]
    BY <1>5, Zenon
  <2> QED
    BY <2>1, Zenon DEF ScanOf
<1>7. FuzzyMatch(q, label) = IF scan[N].matched = Len(q) THEN scan[N].score ELSE NoMatch
  BY Zenon DEF FuzzyMatch
<1> HIDE DEF scan, N
<1> DEFINE Q == {m \in Nat : m <= N => scan[m] \in Scans}
<1>8. \A m \in 0 .. N : scan[m] = IF m = 0 THEN NothingScanned ELSE ScanChar(q, label, scan[m - 1], m)
  <2>1. scan = [i \in 0 .. N |-> IF i = 0 THEN NothingScanned ELSE ScanChar(q, label, scan[i - 1], i)]
    BY <1>6, Zenon DEF ScanOf, N
  <2> QED
    BY <2>1, Zenon
<1>9. 0 \in Q
  BY <1>1, <1>8
<1>10. ASSUME NEW m \in Nat, m \in Q
       PROVE  m + 1 \in Q
  <2>1. CASE m + 1 <= N
    <3>1. scan[m + 1] = ScanChar(q, label, scan[m], m + 1) /\ scan[m] \in Scans /\ m + 1 \in 1 .. N
      BY <1>1, <1>8, <1>10, <2>1
    <3> QED
      BY <1>2, <3>1
  <2>2. CASE ~(m + 1 <= N)
    BY <2>2
  <2> QED
    BY <2>1, <2>2
<1> HIDE DEF Q
<1>11. \A m \in Nat : m \in Q
  BY <1>9, <1>10, Counting
<1>12. \A i \in 0 .. N : scan[i] \in Scans
  BY <1>1, <1>11 DEF Q
<1> QED
  BY <1>6, <1>7, <1>12 DEF N

\* One more number is counted when it is in the set.
LEMMA UpToNext ==
  ASSUME NEW n \in Nat, NEW P \in SUBSET (1 .. n), NEW i \in 0 .. n - 1
  PROVE  Cardinality({r \in P : r <= i + 1}) =
            Cardinality({r \in P : r <= i}) + (IF i + 1 \in P THEN 1 ELSE 0)
<1>1. \A j : IsFiniteSet({r \in P : r <= j}) /\ Cardinality({r \in P : r <= j}) \in Nat
  <2>1. IsFiniteSet(1 .. n)
    BY FS_Interval
  <2> QED
    BY <2>1, FS_Subset, FS_CardinalityType
<1>2. \A r \in P : r \in Nat /\ (r <= i + 1 <=> r <= i \/ r = i + 1) /\ ~(i + 1 <= i)
  OBVIOUS
<1>3. CASE i + 1 \in P
  <2>1. {r \in P : r <= i + 1} = {r \in P : r <= i} \cup {i + 1} /\ i + 1 \notin {r \in P : r <= i}
    BY <1>2, <1>3
  <2> QED
    BY <1>1, <1>3, <2>1, FS_AddElement
<1>4. CASE i + 1 \notin P
  <2>1. \A r \in P : r <= i + 1 <=> r <= i
    BY <1>2, <1>4
  <2>2. {r \in P : r <= i + 1} = {r \in P : r <= i}
    BY <2>1
  <2> QED
    BY <1>1, <1>4, <2>2
<1> QED
  BY <1>3, <1>4

\* Nothing is counted up to 0.
LEMMA UpToNone ==
  ASSUME NEW n \in Nat, NEW P \in SUBSET (1 .. n)
  PROVE  Cardinality({r \in P : r <= 0}) = 0 /\ {r \in P : r <= n} = P
<1>1. \A r \in P : ~(r <= 0) /\ r <= n
  OBVIOUS
<1>2. {r \in P : r <= 0} = {} /\ {r \in P : r <= n} = P
  BY <1>1
<1> QED
  BY <1>2, FS_EmptySet

\* The characters that a scan takes.
Hits(q, label, f) == {p \in 1 .. Len(label) : IsHit(q, label, f[p - 1], p)}

\* The scan counts the characters that it takes, no more than the query has.
LEMMA ScanCounts ==
  ASSUME NEW q \in Seq(STRING), NEW label \in Seq(STRING), NEW f, ScanOf(f, q, label),
         \A i \in 0 .. Len(label) : f[i] \in Scans
  PROVE  \A i \in 0 .. Len(label) :
            /\ f[i].matched <= Len(q)
            /\ f[i].matched = Cardinality({r \in Hits(q, label, f) : r <= i})
<1> DEFINE N == Len(label)
           hits == Hits(q, label, f)
           Q == {i \in Nat : i <= N => f[i].matched <= Len(q) /\ f[i].matched = Cardinality({r \in hits : r <= i})}
<1>1. N \in Nat /\ Len(q) \in Nat
  OBVIOUS
<1>2. hits \in SUBSET (1 .. N)
  BY DEF Hits
<1>3. \A m \in 0 .. N : f[m] = IF m = 0 THEN NothingScanned ELSE ScanChar(q, label, f[m - 1], m)
  BY Zenon DEF ScanOf
<1>4. \A p \in 1 .. N : p \in hits <=> IsHit(q, label, f[p - 1], p)
  BY DEF Hits
<1> HIDE DEF hits
<1>5. 0 \in Q
  <2>1. f[0].matched = 0
    BY <1>1, <1>3 DEF NothingScanned
  <2> QED
    BY <1>1, <1>2, <2>1, UpToNone
<1>6. ASSUME NEW i \in Nat, i \in Q
      PROVE  i + 1 \in Q
  <2> SUFFICES ASSUME i + 1 <= N
               PROVE  f[i + 1].matched <= Len(q) /\ f[i + 1].matched = Cardinality({r \in hits : r <= i + 1})
    OBVIOUS
  <2>1. i + 1 \in 1 .. N /\ i + 1 - 1 = i /\ i \in 0 .. N /\ i \in 0 .. N - 1
    BY <1>1
  <2>2. f[i].matched <= Len(q) /\ f[i].matched = Cardinality({r \in hits : r <= i}) /\ f[i] \in Scans
    BY <1>6, <2>1
  <2>3. f[i + 1] = ScanChar(q, label, f[i], i + 1)
    BY <1>1, <1>3, <2>1
  <2>4. f[i + 1].matched = IF IsHit(q, label, f[i], i + 1) THEN f[i].matched + 1 ELSE f[i].matched
    BY <2>2, <2>3, ScanStep
  <2>5. i + 1 \in hits <=> IsHit(q, label, f[i], i + 1)
    BY <1>4, <2>1
  <2>6. Cardinality({r \in hits : r <= i + 1}) =
           Cardinality({r \in hits : r <= i}) + (IF i + 1 \in hits THEN 1 ELSE 0)
    BY <1>1, <1>2, <2>1, UpToNext
  <2>7. IsHit(q, label, f[i], i + 1) => f[i].matched + 1 <= Len(q)
    BY <1>1, <2>2 DEF IsHit, Scans
  <2>8. f[i].matched \in Nat
    BY <2>2 DEF Scans
  <2> QED
    BY <2>2, <2>4, <2>5, <2>6, <2>7, <2>8
<1> HIDE DEF Q
<1>7. \A i \in Nat : i \in Q
  BY <1>5, <1>6, Counting
<1> QED
  <2>1. \A i \in 0 .. N : i \in Q /\ i <= N
    BY <1>1, <1>7
  <2> QED
    BY <2>1 DEF Q, hits

\* Greedy is enough: however the query is found in the label, the scan is never behind.
LEMMA GreedyIsAhead ==
  ASSUME NEW q \in Seq(STRING), NEW label \in Seq(STRING), NEW f, ScanOf(f, q, label),
         \A i \in 0 .. Len(label) : f[i] \in Scans /\ f[i].matched <= Len(q),
         NEW places \in SUBSET DOMAIN label, Cardinality(places) = Len(q),
         \A p \in places : label[p] = q[Cardinality({r \in places : r <= p})]
  PROVE  f[Len(label)].matched = Len(q)
<1> DEFINE N == Len(label)
           Count(i) == Cardinality({r \in places : r <= i})
           Q == {i \in Nat : i <= N => Count(i) <= f[i].matched}
<1>1. N \in Nat /\ Len(q) \in Nat /\ places \in SUBSET (1 .. N)
  OBVIOUS
<1>2. \A m \in 0 .. N : f[m] = IF m = 0 THEN NothingScanned ELSE ScanChar(q, label, f[m - 1], m)
  BY Zenon DEF ScanOf
<1>3. \A i \in 0 .. N : Count(i) \in Nat /\ Count(i) <= Len(q)
  <2>1. IsFiniteSet(places)
    BY <1>1, FS_Interval, FS_Subset
  <2> QED
    BY <2>1, FS_Subset, FS_CardinalityType
<1>4. 0 \in Q
  <2>1. f[0].matched = 0
    BY <1>1, <1>2 DEF NothingScanned
  <2> QED
    BY <1>1, <2>1, UpToNone
<1>5. ASSUME NEW i \in Nat, i \in Q
      PROVE  i + 1 \in Q
  <2> SUFFICES ASSUME i + 1 <= N
               PROVE  Count(i + 1) <= f[i + 1].matched
    OBVIOUS
  <2>1. i + 1 \in 1 .. N /\ i + 1 - 1 = i /\ i \in 0 .. N /\ i + 1 \in 0 .. N /\ i \in 0 .. N - 1
    BY <1>1
  <2>2. Count(i) <= f[i].matched /\ f[i] \in Scans /\ f[i].matched <= Len(q)
    BY <1>5, <2>1
  <2>3. f[i + 1] = ScanChar(q, label, f[i], i + 1)
    BY <1>1, <1>2, <2>1
  <2>4. f[i + 1].matched = IF IsHit(q, label, f[i], i + 1) THEN f[i].matched + 1 ELSE f[i].matched
    BY <2>2, <2>3, ScanStep
  <2>5. Count(i + 1) = Count(i) + (IF i + 1 \in places THEN 1 ELSE 0)
    <3> HIDE DEF N
    <3> QED
      BY <1>1, <2>1, UpToNext
  <2>6. i + 1 \in places => label[i + 1] = q[Count(i + 1)]
    OBVIOUS
  <2>7. Count(i) \in Nat /\ Count(i + 1) \in Nat /\ Count(i + 1) <= Len(q) /\ f[i].matched \in Nat
    BY <1>3, <2>1, <2>2 DEF Scans
  <2> HIDE DEF Count
  <2>8. i + 1 \in places /\ Count(i) = f[i].matched => IsHit(q, label, f[i], i + 1)
    BY <1>1, <2>5, <2>6, <2>7 DEF IsHit
  <2> QED
    BY <2>2, <2>4, <2>5, <2>7, <2>8
<1> HIDE DEF Q, Count
<1>6. \A i \in Nat : i \in Q
  BY <1>4, <1>5, Counting
<1>7. Count(N) <= f[N].matched
  BY <1>1, <1>6 DEF Q
<1>8. Count(N) = Len(q)
  BY <1>1, UpToNone DEF Count
<1>9. f[N] \in Scans /\ f[N].matched <= Len(q) /\ f[N].matched \in Nat
  BY <1>1 DEF Scans
<1> QED
  BY <1>1, <1>7, <1>8, <1>9

\* So a label matches exactly if the query is within it.
LEMMA MatchIsWithin ==
  ASSUME NEW q \in Seq(STRING), NEW label \in Seq(STRING)
  PROVE  /\ FuzzyMatch(q, label) \in Int
         /\ FuzzyMatch(q, label) # NoMatch <=> IsWithin(q, label)
<1> DEFINE N == Len(label)
<1>1. PICK f : /\ ScanOf(f, q, label)
               /\ \A i \in 0 .. Len(label) : f[i] \in Scans
               /\ FuzzyMatch(q, label) = IF f[Len(label)].matched = Len(q) THEN f[Len(label)].score ELSE NoMatch
  BY ScanExists
<1> DEFINE hits == Hits(q, label, f)
<1>2. \A i \in 0 .. N : f[i].matched <= Len(q) /\ f[i].matched = Cardinality({r \in hits : r <= i})
  BY <1>1, ScanCounts
<1>3. N \in Nat /\ DOMAIN label = 1 .. N /\ N \in 0 .. N /\ f[N] \in Scans /\ f[N].score \in Nat
  <2>1. N \in Nat /\ DOMAIN label = 1 .. N /\ N \in 0 .. N
    OBVIOUS
  <2> QED
    BY <1>1, <2>1 DEF Scans
<1>4. FuzzyMatch(q, label) \in Int /\ (FuzzyMatch(q, label) # NoMatch <=> f[N].matched = Len(q))
  BY <1>1, <1>3 DEF NoMatch
<1>5. ASSUME f[N].matched = Len(q)
      PROVE  IsWithin(q, label)
  <2>1. hits \in SUBSET DOMAIN label /\ hits \in SUBSET (1 .. N)
    BY <1>3 DEF Hits
  <2>2. Cardinality(hits) = Len(q)
    <3>1. {r \in hits : r <= N} = hits
      BY <1>3, <2>1, UpToNone
    <3> QED
      BY <1>2, <1>3, <1>5, <3>1
  <2>3. ASSUME NEW p \in hits
        PROVE  label[p] = q[Cardinality({r \in hits : r <= p})]
    <3>0. p \in 1 .. N /\ IsHit(q, label, f[p - 1], p)
      BY DEF Hits
    <3>1. p \in 1 .. N /\ p - 1 \in 0 .. N /\ p - 1 \in 0 .. N - 1 /\ p - 1 + 1 = p
          /\ IsHit(q, label, f[p - 1], p)
      BY <1>3, <3>0
    <3>2. label[p] = q[f[p - 1].matched + 1]
      BY <3>1 DEF IsHit
    <3>3. f[p - 1].matched = Cardinality({r \in hits : r <= p - 1})
      BY <1>2, <3>1
    <3>4. Cardinality({r \in hits : r <= p}) = Cardinality({r \in hits : r <= p - 1}) + 1
      <4> HIDE DEF hits
      <4>1. Cardinality({r \in hits : r <= p - 1 + 1}) =
               Cardinality({r \in hits : r <= p - 1}) + (IF p - 1 + 1 \in hits THEN 1 ELSE 0)
        BY <1>3, <2>1, <3>1, UpToNext
      <4> QED
        BY <2>3, <3>1, <4>1
    <3> QED
      BY <3>2, <3>3, <3>4
  <2> QED
    BY <2>1, <2>2, <2>3 DEF IsWithin
<1>6. ASSUME IsWithin(q, label)
      PROVE  f[N].matched = Len(q)
  <2>1. PICK places \in SUBSET DOMAIN label :
           /\ Cardinality(places) = Len(q)
           /\ \A p \in places : label[p] = q[Cardinality({r \in places : r <= p})]
    BY <1>6 DEF IsWithin
  <2>2. \A i \in 0 .. Len(label) : f[i] \in Scans /\ f[i].matched <= Len(q)
    BY <1>1, <1>2
  <2> QED
    BY <1>1, <2>1, <2>2, GreedyIsAhead
<1> QED
  BY <1>4, <1>5, <1>6

\* The ranking lists the items that match, each once and no worse one before a better one.
LEMMA RankingIsSound ==
  ASSUME NEW q \in Seq(STRING)
  PROVE  LET matching == {i \in DOMAIN Labels : IsWithin(q, Labels[i])}
             ranked == FuzzyRank(q)
         IN  /\ ranked \in Seq(matching)
             /\ {ranked[k] : k \in DOMAIN ranked} = matching
             /\ \A j, k \in DOMAIN ranked : j < k =>
                   ranked[j] # ranked[k] /\ Score(q, ranked[j]) >= Score(q, ranked[k])
<1> DEFINE matching == {i \in DOMAIN Labels : Score(q, i) # NoMatch}
           Before(i) == {j \in matching : RanksBefore(q, j, i)}
           place(i) == 1 + Cardinality(Before(i))
           n == Cardinality(matching)
           ranked == [k \in 1 .. n |-> CHOOSE i \in matching : place(i) = k]
<1>1. \A i \in DOMAIN Labels : Labels[i] \in Seq(STRING) /\ i \in Nat
  BY FinderAssumption
<1>2. \A i \in DOMAIN Labels : Score(q, i) \in Int /\ (Score(q, i) # NoMatch <=> IsWithin(q, Labels[i]))
  BY <1>1, MatchIsWithin DEF Score
<1>3. matching = {i \in DOMAIN Labels : IsWithin(q, Labels[i])}
  BY <1>2
<1>4. FuzzyRank(q) = ranked
  BY Zenon DEF FuzzyRank
<1>5. IsFiniteSet(matching) /\ n \in Nat
  <2>1. IsFiniteSet(DOMAIN Labels)
    <3>1. DOMAIN Labels = 1 .. Len(Labels) /\ Len(Labels) \in Nat
      BY FinderAssumption
    <3> QED
      BY <3>1, FS_Interval
  <2> QED
    BY <2>1, FS_Subset, FS_CardinalityType
<1>6. \A i \in matching : Score(q, i) \in Int /\ i \in Nat
  BY <1>1, <1>2
<1>7. \A i \in matching : IsFiniteSet(Before(i)) /\ Cardinality(Before(i)) \in Nat /\ i \notin Before(i)
  <2> SUFFICES ASSUME NEW i \in matching
               PROVE  IsFiniteSet(Before(i)) /\ Cardinality(Before(i)) \in Nat /\ i \notin Before(i)
    OBVIOUS
  <2>1. ~RanksBefore(q, i, i)
    BY <1>6 DEF RanksBefore
  <2>2. Before(i) \in SUBSET matching
    OBVIOUS
  <2> HIDE DEF matching
  <2> QED
    BY <1>5, <2>1, <2>2, FS_Subset, FS_CardinalityType
<1>8. \A i \in matching : place(i) \in 1 .. n
  <2> SUFFICES ASSUME NEW i \in matching
               PROVE  place(i) \in 1 .. n
    OBVIOUS
  <2>1. Before(i) \in SUBSET matching /\ Before(i) # matching
    BY <1>7
  <2>2. Cardinality(Before(i)) <= n /\ Cardinality(Before(i)) # n
    <3> HIDE DEF Before, matching
    <3> QED
      BY <1>5, <2>1, FS_Subset
  <2> HIDE DEF Before, matching
  <2> QED
    BY <1>5, <1>7, <2>2
<1>9. \A i, j \in matching : RanksBefore(q, i, j) => place(i) < place(j)
  <2> SUFFICES ASSUME NEW i \in matching, NEW j \in matching, RanksBefore(q, i, j)
               PROVE  place(i) < place(j)
    OBVIOUS
  <2>1. \A k \in matching : RanksBefore(q, k, i) => RanksBefore(q, k, j)
    BY <1>6 DEF RanksBefore
  <2>2. Before(i) \in SUBSET Before(j) /\ Before(i) # Before(j)
    BY <1>7, <2>1
  <2>3. Cardinality(Before(i)) <= Cardinality(Before(j)) /\ Cardinality(Before(i)) # Cardinality(Before(j))
    <3>1. IsFiniteSet(Before(j))
      BY <1>7
    <3> HIDE DEF Before
    <3> QED
      BY <2>2, <3>1, FS_Subset
  <2> HIDE DEF Before
  <2> QED
    BY <1>7, <2>3
<1>10. \A i, j \in matching : i = j \/ RanksBefore(q, i, j) \/ RanksBefore(q, j, i)
  BY <1>6 DEF RanksBefore
<1>11. \A i, j \in matching : place(i) < place(j) => RanksBefore(q, i, j)
  <2> SUFFICES ASSUME NEW i \in matching, NEW j \in matching, place(i) < place(j), ~RanksBefore(q, i, j)
               PROVE  FALSE
    OBVIOUS
  <2>1. i = j \/ place(j) < place(i)
    BY <1>9, <1>10
  <2>2. place(i) \in 1 .. n /\ place(j) \in 1 .. n
    BY <1>8
  <2> HIDE DEF place
  <2> QED
    BY <2>1, <2>2
<1> HIDE DEF Before
<1>12. \A k \in 1 .. n : \E i \in matching : place(i) = k
  <2> DEFINE F == [i \in matching |-> place(i)]
  <2>1. F \in [matching -> 1 .. n]
    BY <1>8
  <2>2. F \in Injection(matching, 1 .. n)
    <3>1. ASSUME NEW i \in matching, NEW j \in matching, F[i] = F[j]
          PROVE  i = j
      <4>1. place(i) = place(j) /\ place(i) \in 1 .. n
        BY <1>8, <3>1
      <4>2. ~(place(i) < place(j)) /\ ~(place(j) < place(i))
        <5> HIDE DEF place
        <5> QED
          BY <4>1
      <4> QED
        BY <1>9, <1>10, <4>2
    <3> HIDE DEF F
    <3> QED
      BY <2>1, <3>1 DEF Injection, IsInjective
  <2>3. IsFiniteSet(1 .. n) /\ Cardinality(1 .. n) = n
    BY <1>5, FS_Interval
  <2>4. F \in Surjection(matching, 1 .. n)
    <3> HIDE DEF F, matching
    <3> QED
      BY <2>2, <2>3, FS_Injection DEF n
  <2>5. \A k \in 1 .. n : \E i \in matching : F[i] = k
    <3> HIDE DEF F
    <3> QED
      BY <2>4 DEF Surjection
  <2> QED
    BY <2>5
<1> HIDE DEF place
<1>13. \A k \in 1 .. n : ranked[k] \in matching /\ place(ranked[k]) = k
  BY <1>12
<1>14. ranked \in Seq(matching) /\ DOMAIN ranked = 1 .. n
  <2>1. ranked = [k \in 1 .. n |-> ranked[k]]
    OBVIOUS
  <2> HIDE DEF ranked, matching
  <2> QED
    BY <1>5, <1>13, <2>1
<1> HIDE DEF ranked
<1>15. {ranked[k] : k \in DOMAIN ranked} = matching
  <2>1. ASSUME NEW i \in matching
        PROVE  \E k \in 1 .. n : ranked[k] = i
    <3>1. place(i) \in 1 .. n
      BY <1>8
    <3>2. place(ranked[place(i)]) = place(i) /\ ranked[place(i)] \in matching
      BY <1>13, <3>1
    <3>3. ~(place(i) < place(ranked[place(i)])) /\ ~(place(ranked[place(i)]) < place(i))
      BY <3>1, <3>2
    <3> QED
      BY <1>9, <1>10, <3>1, <3>2, <3>3
  <2> QED
    BY <1>13, <1>14, <2>1
<1>16. ASSUME NEW j \in DOMAIN ranked, NEW k \in DOMAIN ranked, j < k
       PROVE  ranked[j] # ranked[k] /\ Score(q, ranked[j]) >= Score(q, ranked[k])
  <2>1. ranked[j] \in matching /\ ranked[k] \in matching /\ place(ranked[j]) = j /\ place(ranked[k]) = k
    BY <1>13, <1>14
  <2>2. RanksBefore(q, ranked[j], ranked[k])
    BY <1>11, <1>16, <2>1
  <2> QED
    BY <1>6, <1>14, <1>16, <2>1, <2>2 DEF RanksBefore
<1> QED
  BY <1>3, <1>4, <1>14, <1>15, <1>16

\* The inductive invariant of the finder: the list is the ranking of the query, with one
\* of its rows selected if there is one.
FinderInv ==
  /\ query \in Seq(STRING) /\ filtered = FuzzyRank(query) /\ chosen \in Nat
  /\ IF filtered = <<>> THEN chosen = 0 ELSE chosen < Len(filtered)

\* The first row of a list is one of its rows, if there is one.
LEMMA Refiltered ==
  ASSUME NEW q \in Seq(STRING)
  PROVE  IF FuzzyRank(q) = <<>> THEN TRUE ELSE 0 < Len(FuzzyRank(q))
<1>1. \E S : FuzzyRank(q) \in Seq(S)
  BY RankingIsSound
<1>2. PICK S : FuzzyRank(q) \in Seq(S)
  BY <1>1
<1> QED
  BY <1>2, EmptySeq

\* It holds with nothing typed.
LEMMA FinderStarts == FinderInit => FinderInv
<1>1. <<>> \in Seq(STRING)
  OBVIOUS
<1> QED
  BY <1>1, Refiltered DEF FinderInit, FinderInv

\* Every key keeps it.
LEMMA FinderStep == FinderInv /\ [FinderNext]_finderVars => FinderInv'
<1> SUFFICES ASSUME FinderInv, [FinderNext]_finderVars
             PROVE  FinderInv'
  OBVIOUS
<1>1. ASSUME NEW q \in Seq(STRING), Refilter(q)
      PROVE  FinderInv'
  BY <1>1, Refiltered DEF Refilter, FinderInv
<1>2. CASE FinderPush
  <2>1. PICK c \in QueryChars : Refilter(Append(query, c))
    BY <1>2 DEF FinderPush
  <2>2. Append(query, c) \in Seq(STRING)
    <3>1. c \in STRING /\ query \in Seq(STRING)
      BY FinderAssumption DEF FinderInv
    <3> QED
      BY <3>1, AppendProperties
  <2> QED
    BY <1>1, <2>1, <2>2
<1>3. CASE FinderBackspace
  <2>1. (IF query = <<>> THEN query ELSE SubSeq(query, 1, Len(query) - 1)) \in Seq(STRING)
    <3>1. query \in Seq(STRING)
      BY DEF FinderInv
    <3>2. query # <<>> => Len(query) \in Nat /\ Len(query) # 0
      BY <3>1, EmptySeq
    <3>3. query # <<>> => SubSeq(query, 1, Len(query) - 1) \in Seq(STRING)
      BY <3>1, <3>2, SubSeqProperties
    <3> QED
      BY <3>1, <3>3
  <2> QED
    BY <1>1, <1>3, <2>1 DEF FinderBackspace
<1>4. CASE FinderUp
  BY <1>4 DEF FinderUp, FinderInv
<1>5. CASE FinderDown
  <2>1. filtered # <<>> => Len(filtered) \in Nat
    BY RankingIsSound DEF FinderInv
  <2>2. filtered = <<>> => Len(filtered) = 0
    BY EmptySeq
  <2> QED
    BY <1>5, <2>1, <2>2 DEF FinderDown, FinderInv
<1>6. CASE UNCHANGED finderVars
  BY <1>6 DEF finderVars, FinderInv
<1> QED
  BY <1>2, <1>3, <1>4, <1>5, <1>6 DEF FinderNext

\* It implies that the list is the items that match, best first, and that Enter takes a
\* row that is drawn.
LEMMA TheMatchesAreListed == FinderInv => FinderListsTheMatches
<1> SUFFICES ASSUME FinderInv
             PROVE  FinderListsTheMatches
  OBVIOUS
<1>1. query \in Seq(STRING) /\ filtered = FuzzyRank(query)
  BY DEF FinderInv
<1>2. /\ {filtered[k] : k \in DOMAIN filtered} = {i \in DOMAIN Labels : IsWithin(query, Labels[i])}
      /\ \A j, k \in DOMAIN filtered : j < k =>
            filtered[j] # filtered[k] /\ Score(query, filtered[j]) >= Score(query, filtered[k])
  BY <1>1, RankingIsSound
<1>3. \A height \in 1..3 : chosen \in ScrollStart(height)..ScrollStart(height) + height - 1
  BY DEF FinderInv, ScrollStart
<1> QED
  BY <1>2, <1>3 DEF FinderListsTheMatches, FinderInv

-----------------------------------------------------------------------------
(* The regions of a frame.                                                 *)

\* The rectangles.
Rects == [x : Nat, y : Nat, w : Nat, h : Nat]

\* One rectangle inside another.
IsPartOf(r, s) == r.x >= s.x /\ r.x + r.w <= s.x + s.w /\ r.y >= s.y /\ r.y + r.h <= s.y + s.h

\* Two rectangles of which no cell is shared.
Apart(r, s) == \/ r.w * r.h = 0 \/ s.w * s.h = 0
               \/ r.x + r.w <= s.x \/ s.x + s.w <= r.x
               \/ r.y + r.h <= s.y \/ s.y + s.h <= r.y

\* Regions that divide a rectangle among them.
Tiles(f, r) ==
  /\ \A i \in DOMAIN f : f[i] \in Rects /\ IsPartOf(f[i], r)
  /\ \A i, j \in DOMAIN f : i # j => Apart(f[i], f[j])
  /\ UNION {Inside(f[i]) : i \in DOMAIN f} = Inside(r)

\* Nothing is in an empty one.
LEMMA NoArea ==
  ASSUME NEW m \in Nat, NEW n \in Nat
  PROVE  m * n = 0 <=> m = 0 \/ n = 0
<1>1. ASSUME m # 0, n # 0 PROVE m * n # 0
  <2>1. m >= 1 /\ n >= 1
    BY <1>1
  <2> QED
    BY <2>1
<1>2. m = 0 \/ n = 0 => m * n = 0
  OBVIOUS
<1> QED
  BY <1>1, <1>2

\* Parts of rectangles that are apart are.
LEMMA PartsApart ==
  ASSUME NEW r \in Rects, NEW s \in Rects, NEW p \in Rects, NEW q \in Rects,
         Apart(r, s), IsPartOf(p, r), IsPartOf(q, s)
  PROVE  Apart(p, q) /\ Apart(q, p)
<1>1. /\ r.x \in Nat /\ r.y \in Nat /\ r.w \in Nat /\ r.h \in Nat
      /\ s.x \in Nat /\ s.y \in Nat /\ s.w \in Nat /\ s.h \in Nat
      /\ p.x \in Nat /\ p.y \in Nat /\ p.w \in Nat /\ p.h \in Nat
      /\ q.x \in Nat /\ q.y \in Nat /\ q.w \in Nat /\ q.h \in Nat
  BY DEF Rects
<1>2. \A a \in Rects : a.w * a.h = 0 <=> a.w = 0 \/ a.h = 0
  BY NoArea DEF Rects
<1>3. \/ r.w = 0 \/ r.h = 0 \/ s.w = 0 \/ s.h = 0
      \/ r.x + r.w <= s.x \/ s.x + s.w <= r.x
      \/ r.y + r.h <= s.y \/ s.y + s.h <= r.y
  BY <1>2 DEF Apart
<1>4. \/ p.w = 0 \/ p.h = 0 \/ q.w = 0 \/ q.h = 0
      \/ p.x + p.w <= q.x \/ q.x + q.w <= p.x
      \/ p.y + p.h <= q.y \/ q.y + q.h <= p.y
  BY <1>1, <1>3 DEF IsPartOf
<1> QED
  BY <1>2, <1>4 DEF Apart

\* A part of a part is one.
LEMMA PartOfPart ==
  ASSUME NEW r \in Rects, NEW s \in Rects, NEW p \in Rects, IsPartOf(p, r), IsPartOf(r, s)
  PROVE  IsPartOf(p, s)
<1> QED
  BY DEF Rects, IsPartOf

\* The two parts that a rectangle is split into.
Halves(t, r) ==
  /\ t[1] \in Rects /\ t[2] \in Rects /\ IsPartOf(t[1], r) /\ IsPartOf(t[2], r)
  /\ Apart(t[1], t[2]) /\ Apart(t[2], t[1])
  /\ Inside(t[1]) \cup Inside(t[2]) = Inside(r)

\* Splitting rows off divides a rectangle.
LEMMA TopSplits ==
  ASSUME NEW r \in Rects, NEW n \in Nat
  PROVE  /\ Halves(SplitTop(r, n), r)
         /\ SplitTop(r, n)[1].w = r.w /\ SplitTop(r, n)[2].w = r.w
         /\ SplitTop(r, n)[1].h = Smaller(n, r.h) /\ SplitTop(r, n)[2].h = r.h - Smaller(n, r.h)
<1> DEFINE m == Smaller(n, r.h)
           upper == Rect(r.x, r.y, r.w, m)
           rest == Rect(r.x, r.y + m, r.w, r.h - m)
<1>1. m \in Nat /\ m <= r.h /\ r.h \in Nat /\ r.x \in Nat /\ r.y \in Nat /\ r.w \in Nat
  BY DEF Rects, Smaller
<1> HIDE DEF m
<1>2. /\ upper.x = r.x /\ upper.y = r.y /\ upper.w = r.w /\ upper.h = m
      /\ rest.x = r.x /\ rest.y = r.y + m /\ rest.w = r.w /\ rest.h = r.h - m
  BY DEF Rect
<1>3. upper \in Rects /\ rest \in Rects
  BY <1>1 DEF Rect, Rects
<1> HIDE DEF upper, rest
<1>4. IsPartOf(upper, r) /\ IsPartOf(rest, r)
  BY <1>1, <1>2 DEF IsPartOf
<1>5. Apart(upper, rest) /\ Apart(rest, upper)
  BY <1>1, <1>2 DEF Apart
<1>6. r.y .. r.y + r.h - 1 = (r.y .. r.y + m - 1) \cup (r.y + m .. r.y + m + (r.h - m) - 1)
  BY <1>1
<1>7. Inside(upper) \cup Inside(rest) = Inside(r)
  BY <1>2, <1>6 DEF Inside
<1>8. SplitTop(r, n) = <<upper, rest>>
  BY DEF SplitTop, upper, rest, m
<1>9. SplitTop(r, n)[1] = upper /\ SplitTop(r, n)[2] = rest
  BY <1>8
<1> QED
  BY <1>2, <1>3, <1>4, <1>5, <1>7, <1>9 DEF Halves, m

\* And so does splitting columns off.
LEMMA LeftSplits ==
  ASSUME NEW r \in Rects, NEW n \in Nat
  PROVE  /\ Halves(SplitLeft(r, n), r)
         /\ SplitLeft(r, n)[1].h = r.h /\ SplitLeft(r, n)[2].h = r.h
         /\ SplitLeft(r, n)[1].w = Smaller(n, r.w) /\ SplitLeft(r, n)[2].w = r.w - Smaller(n, r.w)
<1> DEFINE m == Smaller(n, r.w)
           left == Rect(r.x, r.y, m, r.h)
           rest == Rect(r.x + m, r.y, r.w - m, r.h)
<1>1. m \in Nat /\ m <= r.w /\ r.h \in Nat /\ r.x \in Nat /\ r.y \in Nat /\ r.w \in Nat
  BY DEF Rects, Smaller
<1> HIDE DEF m
<1>2. /\ left.x = r.x /\ left.y = r.y /\ left.h = r.h /\ left.w = m
      /\ rest.y = r.y /\ rest.x = r.x + m /\ rest.h = r.h /\ rest.w = r.w - m
  BY DEF Rect
<1>3. left \in Rects /\ rest \in Rects
  BY <1>1 DEF Rect, Rects
<1> HIDE DEF left, rest
<1>4. IsPartOf(left, r) /\ IsPartOf(rest, r)
  BY <1>1, <1>2 DEF IsPartOf
<1>5. Apart(left, rest) /\ Apart(rest, left)
  BY <1>1, <1>2 DEF Apart
<1>6. r.x .. r.x + r.w - 1 = (r.x .. r.x + m - 1) \cup (r.x + m .. r.x + m + (r.w - m) - 1)
  BY <1>1
<1>7. Inside(left) \cup Inside(rest) = Inside(r)
  BY <1>2, <1>6 DEF Inside
<1>8. SplitLeft(r, n) = <<left, rest>>
  BY DEF SplitLeft, left, rest, m
<1>9. SplitLeft(r, n)[1] = left /\ SplitLeft(r, n)[2] = rest
  BY <1>8
<1> QED
  BY <1>2, <1>3, <1>4, <1>5, <1>7, <1>9 DEF Halves, m

\* And rows split off below.
LEMMA BottomSplits ==
  ASSUME NEW r \in Rects, NEW n \in Nat
  PROVE  /\ Halves(SplitBottom(r, n), r)
         /\ SplitBottom(r, n)[1].w = r.w /\ SplitBottom(r, n)[2].w = r.w
         /\ SplitBottom(r, n)[1].h = r.h - Smaller(n, r.h) /\ SplitBottom(r, n)[2].h = Smaller(n, r.h)
<1> DEFINE k == r.h - Smaller(n, r.h)
<1>1. k \in Nat /\ Smaller(k, r.h) = k /\ r.h - k = Smaller(n, r.h)
  BY DEF Rects, Smaller
<1> HIDE DEF k
<1>2. SplitBottom(r, n) = SplitTop(r, k)
  BY DEF SplitBottom, k
<1> QED
  BY <1>1, <1>2, TopSplits DEF k

\* A rectangle is the only region of itself.
LEMMA OneTiles ==
  ASSUME NEW r \in Rects, NEW f, NEW a, DOMAIN f = {a}, f[a] = r
  PROVE  Tiles(f, r)
<1>1. IsPartOf(r, r)
  BY DEF IsPartOf, Rects
<1> QED
  BY <1>1 DEF Tiles

\* Two regions divide what was split into them.
LEMMA TwoTile ==
  ASSUME NEW r \in Rects, NEW t, Halves(t, r), NEW f, NEW a, NEW b, a # b,
         DOMAIN f = {a, b}, f[a] = t[1], f[b] = t[2]
  PROVE  Tiles(f, r)
<1>1. UNION {Inside(f[i]) : i \in DOMAIN f} = Inside(f[a]) \cup Inside(f[b])
  OBVIOUS
<1> QED
  BY <1>1 DEF Tiles, Halves

\* Regions with those that one of them is divided into in its place.
Nested(f, m, g) == [i \in (DOMAIN f \ {m}) \cup DOMAIN g |-> IF i \in DOMAIN g THEN g[i] ELSE f[i]]

\* They divide what they divided before.
LEMMA NestedTile ==
  ASSUME NEW r \in Rects, NEW f, NEW g, NEW m \in DOMAIN f, Tiles(f, r), Tiles(g, f[m]),
         (DOMAIN f \ {m}) \cap DOMAIN g = {}
  PROVE  Tiles(Nested(f, m, g), r)
<1> DEFINE h == Nested(f, m, g)
<1>1. DOMAIN h = (DOMAIN f \ {m}) \cup DOMAIN g
  BY DEF Nested
<1>2. \A i \in DOMAIN g : h[i] = g[i]
  BY DEF Nested
<1>3. \A i \in DOMAIN f \ {m} : h[i] = f[i]
  BY DEF Nested
<1> HIDE DEF h
<1>4. /\ \A i \in DOMAIN f : f[i] \in Rects /\ IsPartOf(f[i], r)
      /\ \A i, j \in DOMAIN f : i # j => Apart(f[i], f[j])
      /\ UNION {Inside(f[i]) : i \in DOMAIN f} = Inside(r)
  BY DEF Tiles
<1>5. /\ \A i \in DOMAIN g : g[i] \in Rects /\ IsPartOf(g[i], f[m])
      /\ \A i, j \in DOMAIN g : i # j => Apart(g[i], g[j])
      /\ UNION {Inside(g[i]) : i \in DOMAIN g} = Inside(f[m])
  BY DEF Tiles
<1>6. ASSUME NEW i \in DOMAIN h PROVE h[i] \in Rects /\ IsPartOf(h[i], r)
  <2>1. CASE i \in DOMAIN g
    <3>1. h[i] \in Rects /\ IsPartOf(h[i], f[m]) /\ f[m] \in Rects /\ IsPartOf(f[m], r)
      BY <1>2, <1>4, <1>5, <2>1
    <3> QED
      BY <3>1, PartOfPart
  <2> QED
    BY <1>1, <1>3, <1>4, <2>1
<1>7. ASSUME NEW i \in DOMAIN f \ {m}, NEW j \in DOMAIN g PROVE Apart(h[i], h[j]) /\ Apart(h[j], h[i])
  <2>1. /\ f[i] \in Rects /\ f[m] \in Rects /\ g[j] \in Rects /\ Apart(f[i], f[m])
        /\ IsPartOf(g[j], f[m])
    BY <1>4, <1>5
  <2>2. IsPartOf(f[i], f[i])
    BY <2>1 DEF IsPartOf, Rects
  <2>3. Apart(f[i], g[j]) /\ Apart(g[j], f[i])
    BY <2>1, <2>2, PartsApart
  <2> QED
    BY <1>2, <1>3, <2>3
<1>8. ASSUME NEW i \in DOMAIN h, NEW j \in DOMAIN h, i # j PROVE Apart(h[i], h[j])
  <2>1. CASE i \in DOMAIN g /\ j \in DOMAIN g
    BY <1>2, <1>5, <1>8, <2>1
  <2>2. CASE i \in DOMAIN f \ {m} /\ j \in DOMAIN f \ {m}
    BY <1>3, <1>4, <1>8, <2>2
  <2> QED
    BY <1>1, <1>7, <2>1, <2>2
<1>9. UNION {Inside(h[i]) : i \in DOMAIN h} = Inside(r)
  <2>1. \A c : c \in UNION {Inside(h[i]) : i \in DOMAIN h} <=> \E i \in DOMAIN h : c \in Inside(h[i])
    OBVIOUS
  <2>2. \A c : c \in Inside(r) <=> \E i \in DOMAIN f : c \in Inside(f[i])
    BY <1>4
  <2>3. \A c : c \in Inside(f[m]) <=> \E i \in DOMAIN g : c \in Inside(g[i])
    BY <1>5
  <2>4. ASSUME NEW c
        PROVE  (\E i \in DOMAIN h : c \in Inside(h[i])) <=> (\E i \in DOMAIN f : c \in Inside(f[i]))
    <3>1. ASSUME NEW i \in DOMAIN h, c \in Inside(h[i]) PROVE \E j \in DOMAIN f : c \in Inside(f[j])
      BY <1>1, <1>2, <1>3, <2>3, <3>1
    <3>2. ASSUME NEW i \in DOMAIN f, c \in Inside(f[i]) PROVE \E j \in DOMAIN h : c \in Inside(h[j])
      <4>1. CASE i = m
        BY <1>1, <1>2, <2>3, <3>2, <4>1
      <4> QED
        BY <1>1, <1>3, <3>2, <4>1
    <3> QED
      BY <3>1, <3>2
  <2> QED
    BY <2>1, <2>2, <2>4
<1> QED
  BY <1>6, <1>8, <1>9 DEF Tiles, h

\* A side panel leaves the main area its columns.
LEMMA SideIsNarrow ==
  ASSUME NEW body \in Rects, NEW wanted \in Nat
  PROVE  /\ SideCols(wanted, body) \in Nat
         /\ SideCols(wanted, body) # 0 => SideCols(wanted, body) + MinMainCols + 1 <= body.w
<1> QED
  BY DEF SideCols, Smaller, MinMainCols, Rects

\* A body with the sidebar, where it has room.
LEMMA SidebarTiles ==
  ASSUME NEW view \in Views, NEW body \in Rects
  PROVE  /\ Tiles(Sidebar(view, body), body)
         /\ "main" \in DOMAIN Sidebar(view, body)
         /\ DOMAIN Sidebar(view, body) \subseteq {"sidebar", "rule", "main"}
         /\ "sidebar" \in DOMAIN Sidebar(view, body) =>
               Sidebar(view, body)["main"].w >= MinMainCols
<1> DEFINE cols == IF view.sidebar THEN SideCols(SidebarCols, body) ELSE 0
           f == Sidebar(view, body)
           split == SplitLeft(body, cols)
           rest == SplitLeft(split[2], 1)
<1>1. cols \in Nat /\ (cols # 0 => cols + MinMainCols + 1 <= body.w)
  BY SideIsNarrow DEF SidebarCols
<1>2. f = IF cols = 0 THEN [main |-> body] ELSE [sidebar |-> split[1], rule |-> rest[1], main |-> rest[2]]
  BY DEF Sidebar
<1> HIDE DEF cols, f
<1>3. CASE cols = 0
  <2>1. DOMAIN f = {"main"} /\ f["main"] = body
    BY <1>2, <1>3
  <2> QED
    BY <2>1, OneTiles DEF f
<1>4. CASE cols # 0
  <2>1. /\ Halves(split, body) /\ split[2].w = body.w - Smaller(cols, body.w)
    BY <1>1, LeftSplits
  <2>2. split[2] \in Rects
    BY <2>1 DEF Halves
  <2> HIDE DEF split
  <2>3. Halves(rest, split[2]) /\ rest[2].w = split[2].w - Smaller(1, split[2].w)
    BY <2>2, LeftSplits
  <2> HIDE DEF rest
  <2> DEFINE a == [i \in {"sidebar", "main"} |-> IF i = "sidebar" THEN split[1] ELSE split[2]]
             b == [i \in {"rule", "main"} |-> IF i = "rule" THEN rest[1] ELSE rest[2]]
  <2>4. Tiles(a, body)
    BY <2>1, TwoTile
  <2>5. Tiles(b, a["main"])
    BY <2>2, <2>3, TwoTile
  <2>6. (DOMAIN a \ {"main"}) \cap DOMAIN b = {} /\ "main" \in DOMAIN a
    OBVIOUS
  <2>7. Tiles(Nested(a, "main", b), body)
    <3> HIDE DEF a, b
    <3> QED
      BY <2>4, <2>5, <2>6, NestedTile
  <2>8. f = [sidebar |-> split[1], rule |-> rest[1], main |-> rest[2]]
    BY <1>2, <1>4
  <2>9. DOMAIN f = {"sidebar", "rule", "main"} /\ f["sidebar"] = split[1] /\ f["rule"] = rest[1]
        /\ f["main"] = rest[2]
    BY <2>8
  <2>10. Nested(a, "main", b) = f
    <3>1. DOMAIN Nested(a, "main", b) = {"sidebar", "rule", "main"}
      BY DEF Nested
    <3>2. Nested(a, "main", b)["sidebar"] = split[1]
      BY DEF Nested
    <3>3. Nested(a, "main", b)["rule"] = rest[1]
      BY DEF Nested
    <3>4. Nested(a, "main", b)["main"] = rest[2]
      BY DEF Nested
    <3>5. Nested(a, "main", b) = [i \in DOMAIN Nested(a, "main", b) |-> Nested(a, "main", b)[i]]
      BY DEF Nested
    <3>6. f = [i \in DOMAIN f |-> f[i]]
      BY <2>8
    <3> HIDE DEF a, b
    <3> QED
      BY <2>9, <3>1, <3>2, <3>3, <3>4, <3>5, <3>6
  <2>11. rest[2].w >= MinMainCols
    BY <1>1, <1>4, <2>1, <2>3 DEF Smaller, Rects, MinMainCols
  <2> QED
    BY <2>7, <2>9, <2>10, <2>11 DEF f
<1> QED
  BY <1>3, <1>4

\* What regions divide depends on where they are only.
LEMMA SameTiles ==
  ASSUME NEW r, NEW f, NEW g, Tiles(f, r), DOMAIN g = DOMAIN f, \A i \in DOMAIN f : g[i] = f[i]
  PROVE  Tiles(g, r)
<1>1. UNION {Inside(g[i]) : i \in DOMAIN g} = UNION {Inside(f[i]) : i \in DOMAIN f}
  OBVIOUS
<1> QED
  BY <1>1 DEF Tiles

\* Regions beside others.
LEMMA SideBySide ==
  ASSUME NEW f, NEW g
  PROVE  /\ DOMAIN Beside(f, g) = DOMAIN f \cup DOMAIN g
         /\ \A i \in DOMAIN f : Beside(f, g)[i] = f[i]
         /\ \A i \in DOMAIN g \ DOMAIN f : Beside(f, g)[i] = g[i]
<1> QED
  BY DEF Beside

\* A body with the agent's panel, where it has room.
LEMMA AgentPanelTiles ==
  ASSUME NEW view \in Views, NEW body \in Rects
  PROVE  /\ Tiles(AgentPanel(view, body), body)
         /\ "main" \in DOMAIN AgentPanel(view, body)
         /\ DOMAIN AgentPanel(view, body) \subseteq {"agent", "agentRule", "main"}
         /\ \/ "agent" \notin DOMAIN AgentPanel(view, body) /\ AgentPanel(view, body)["main"] = body
            \/ AgentPanel(view, body)["main"].w >= MinMainCols
<1> DEFINE cols == IF view.agent THEN SideCols(AgentCols, body) ELSE 0
           f == AgentPanel(view, body)
           split == SplitLeft(body, body.w - cols - 1)
           block == SplitLeft(split[2], 1)
<1>1. cols \in Nat /\ (cols # 0 => cols + MinMainCols + 1 <= body.w)
  BY SideIsNarrow DEF AgentCols
<1>2. f = IF cols = 0 THEN [main |-> body] ELSE [main |-> split[1], agentRule |-> block[1], agent |-> block[2]]
  BY DEF AgentPanel
<1> HIDE DEF cols, f
<1>3. CASE cols = 0
  <2>1. DOMAIN f = {"main"} /\ f["main"] = body
    BY <1>2, <1>3
  <2> QED
    BY <2>1, OneTiles DEF f
<1>4. CASE cols # 0
  <2>0. body.w - cols - 1 \in Nat /\ body.w - cols - 1 >= MinMainCols /\ body.w \in Nat
    BY <1>1, <1>4 DEF Rects, MinMainCols
  <2>1. /\ Halves(split, body) /\ split[1].w = Smaller(body.w - cols - 1, body.w)
    BY <2>0, LeftSplits
  <2>2. split[2] \in Rects
    BY <2>1 DEF Halves
  <2> HIDE DEF split
  <2>3. Halves(block, split[2])
    BY <2>2, LeftSplits
  <2> HIDE DEF block
  <2> DEFINE a == [i \in {"block", "main"} |-> IF i = "block" THEN split[2] ELSE split[1]]
             b == [i \in {"agentRule", "agent"} |-> IF i = "agentRule" THEN block[1] ELSE block[2]]
  <2>4. Tiles(a, body)
    BY <2>1, TwoTile
  <2>5. Tiles(b, a["block"])
    BY <2>2, <2>3, TwoTile
  <2>6. (DOMAIN a \ {"block"}) \cap DOMAIN b = {} /\ "block" \in DOMAIN a
    OBVIOUS
  <2>7. Tiles(Nested(a, "block", b), body)
    <3> HIDE DEF a, b
    <3> QED
      BY <2>4, <2>5, <2>6, NestedTile
  <2>8. f = [main |-> split[1], agentRule |-> block[1], agent |-> block[2]]
    BY <1>2, <1>4
  <2>9. DOMAIN f = {"main", "agentRule", "agent"} /\ f["main"] = split[1] /\ f["agentRule"] = block[1]
        /\ f["agent"] = block[2]
    BY <2>8
  <2>10. /\ DOMAIN f = DOMAIN Nested(a, "block", b)
         /\ \A i \in DOMAIN Nested(a, "block", b) : f[i] = Nested(a, "block", b)[i]
    <3>1. DOMAIN Nested(a, "block", b) = {"main", "agentRule", "agent"}
      BY DEF Nested
    <3>2. Nested(a, "block", b)["main"] = split[1]
      BY DEF Nested
    <3>3. Nested(a, "block", b)["agentRule"] = block[1]
      BY DEF Nested
    <3>4. Nested(a, "block", b)["agent"] = block[2]
      BY DEF Nested
    <3> HIDE DEF a, b
    <3> QED
      BY <2>9, <3>1, <3>2, <3>3, <3>4
  <2>11. split[1].w >= MinMainCols
    BY <1>1, <2>0, <2>1 DEF Smaller, MinMainCols
  <2>12. Tiles(f, body)
    BY <2>7, <2>10, SameTiles
  <2> QED
    BY <2>9, <2>11, <2>12 DEF f
<1> QED
  BY <1>3, <1>4

\* The panel below the editor has a row at least and leaves the editor its three.
LEMMA BottomPanelTiles ==
  ASSUME NEW main \in Rects, main.h > MinEditorRows + 1
  PROVE  /\ Tiles(BottomPanel(main), main)
         /\ DOMAIN BottomPanel(main) = {"editor", "tab", "shell"}
         /\ BottomPanel(main)["shell"].h >= 1
         /\ BottomPanel(main)["editor"].h >= MinEditorRows
         /\ BottomPanel(main)["editor"].w = main.w
<1> DEFINE cut == Smaller(PanelRows, main.h - (MinEditorRows + 1)) + 1
           split == SplitBottom(main, cut)
           lower == SplitTop(split[2], 1)
           f == BottomPanel(main)
<1>1. cut \in Nat /\ cut >= 2 /\ cut + MinEditorRows <= main.h
  BY DEF Smaller, PanelRows, MinEditorRows, Rects
<1>2. f = [editor |-> split[1], tab |-> lower[1], shell |-> lower[2]]
  BY DEF BottomPanel
<1> HIDE DEF cut, f
<1>3. /\ Halves(split, main) /\ split[1].w = main.w
      /\ split[1].h = main.h - Smaller(cut, main.h) /\ split[2].h = Smaller(cut, main.h)
  BY <1>1, BottomSplits
<1>4. split[2] \in Rects
  BY <1>3 DEF Halves
<1> HIDE DEF split
<1>5. Halves(lower, split[2]) /\ lower[2].h = split[2].h - Smaller(1, split[2].h)
  BY <1>4, TopSplits
<1> HIDE DEF lower
<1> DEFINE a == [i \in {"panel", "editor"} |-> IF i = "panel" THEN split[2] ELSE split[1]]
           b == [i \in {"tab", "shell"} |-> IF i = "tab" THEN lower[1] ELSE lower[2]]
<1>6. Tiles(a, main)
  BY <1>3, TwoTile
<1>7. Tiles(b, a["panel"])
  BY <1>4, <1>5, TwoTile
<1>8. (DOMAIN a \ {"panel"}) \cap DOMAIN b = {} /\ "panel" \in DOMAIN a
  OBVIOUS
<1>9. Tiles(Nested(a, "panel", b), main)
  <2> HIDE DEF a, b
  <2> QED
    BY <1>6, <1>7, <1>8, NestedTile
<1>10. /\ DOMAIN f = {"editor", "tab", "shell"} /\ f["editor"] = split[1] /\ f["tab"] = lower[1]
       /\ f["shell"] = lower[2]
  BY <1>2
<1>11. /\ DOMAIN f = DOMAIN Nested(a, "panel", b)
       /\ \A i \in DOMAIN Nested(a, "panel", b) : f[i] = Nested(a, "panel", b)[i]
  <2>1. DOMAIN Nested(a, "panel", b) = {"editor", "tab", "shell"}
    BY DEF Nested
  <2>2. Nested(a, "panel", b)["editor"] = split[1]
    BY DEF Nested
  <2>3. Nested(a, "panel", b)["tab"] = lower[1]
    BY DEF Nested
  <2>4. Nested(a, "panel", b)["shell"] = lower[2]
    BY DEF Nested
  <2> HIDE DEF a, b
  <2> QED
    BY <1>10, <2>1, <2>2, <2>3, <2>4
<1>12. Tiles(f, main)
  BY <1>9, <1>11, SameTiles
<1>13. lower[2].h >= 1 /\ split[1].h >= MinEditorRows
  BY <1>1, <1>3, <1>5 DEF Smaller, Rects, MinEditorRows
<1> QED
  BY <1>3, <1>10, <1>12, <1>13 DEF f

\* So does the pane above it, with its header and the row that a request is typed in.
LEMMA DropDownTiles ==
  ASSUME NEW view \in Views, NEW main \in Rects, main.h > MinEditorRows + 3
  PROVE  /\ Tiles(DropDown(view, main), main)
         /\ {"editor", "shell"} \subseteq DOMAIN DropDown(view, main)
         /\ DOMAIN DropDown(view, main) \subseteq {"editor", "header", "shell", "prompt"}
         /\ DropDown(view, main)["shell"].h >= 1
         /\ DropDown(view, main)["editor"].h >= MinEditorRows
         /\ DropDown(view, main)["editor"].w = main.w
<1> DEFINE cut == Smaller(DropDownRows, main.h - (MinEditorRows + 1))
           split == SplitTop(main, cut)
           pane == SplitTop(split[1], 1)
           input == SplitBottom(pane[2], 1)
           f == DropDown(view, main)
<1>1. cut \in Nat /\ cut >= 3 /\ cut + MinEditorRows <= main.h
  BY DEF Smaller, DropDownRows, MinEditorRows, Rects
<1>2. f = Beside([editor |-> split[2], header |-> pane[1]],
          IF view.prompt THEN [shell |-> input[1], prompt |-> input[2]] ELSE [shell |-> pane[2]])
  BY DEF DropDown
<1> HIDE DEF cut, f
<1>3. /\ Halves(split, main) /\ split[2].w = main.w
      /\ split[2].h = main.h - Smaller(cut, main.h) /\ split[1].h = Smaller(cut, main.h)
  BY <1>1, TopSplits
<1>4. split[1] \in Rects
  BY <1>3 DEF Halves
<1> HIDE DEF split
<1>5. Halves(pane, split[1]) /\ pane[2].h = split[1].h - Smaller(1, split[1].h)
  BY <1>4, TopSplits
<1>6. pane[2] \in Rects
  BY <1>5 DEF Halves
<1> HIDE DEF pane
<1>7. Halves(input, pane[2]) /\ input[1].h = pane[2].h - Smaller(1, pane[2].h)
  BY <1>6, BottomSplits
<1> HIDE DEF input
<1>8. pane[2].h >= 2 /\ input[1].h >= 1 /\ split[2].h >= MinEditorRows
  BY <1>1, <1>3, <1>5, <1>7 DEF Smaller, Rects, MinEditorRows
<1> DEFINE a == [i \in {"pane", "editor"} |-> IF i = "pane" THEN split[1] ELSE split[2]]
           b == [i \in {"header", "shell"} |-> IF i = "header" THEN pane[1] ELSE pane[2]]
           c == [i \in {"shell", "prompt"} |-> IF i = "shell" THEN input[1] ELSE input[2]]
           ab == Nested(a, "pane", b)
           abc == Nested(ab, "shell", c)
<1>9. Tiles(ab, main)
  <2>1. Tiles(a, main)
    BY <1>3, TwoTile
  <2>2. Tiles(b, a["pane"])
    BY <1>4, <1>5, TwoTile
  <2>3. (DOMAIN a \ {"pane"}) \cap DOMAIN b = {} /\ "pane" \in DOMAIN a
    OBVIOUS
  <2> HIDE DEF a, b
  <2> QED
    BY <2>1, <2>2, <2>3, NestedTile
<1>10. /\ DOMAIN ab = {"editor", "header", "shell"} /\ ab["editor"] = split[2]
       /\ ab["header"] = pane[1] /\ ab["shell"] = pane[2]
  BY DEF Nested
<1> HIDE DEF a, b, ab
<1>11. Tiles(abc, main)
  <2>1. Tiles(c, ab["shell"])
    BY <1>6, <1>7, <1>10, TwoTile
  <2>2. (DOMAIN ab \ {"shell"}) \cap DOMAIN c = {} /\ "shell" \in DOMAIN ab
    BY <1>10
  <2> HIDE DEF c
  <2> QED
    BY <1>9, <2>1, <2>2, NestedTile
<1>12. /\ DOMAIN abc = {"editor", "header", "shell", "prompt"} /\ abc["editor"] = split[2]
       /\ abc["header"] = pane[1] /\ abc["shell"] = input[1] /\ abc["prompt"] = input[2]
  BY <1>10 DEF Nested
<1> HIDE DEF c, abc
<1>13. CASE view.prompt
  <2>1. f = Beside([editor |-> split[2], header |-> pane[1]], [shell |-> input[1], prompt |-> input[2]])
    BY <1>2, <1>13
  <2>2. /\ DOMAIN f = {"editor", "header", "shell", "prompt"} /\ f["editor"] = split[2]
        /\ f["header"] = pane[1] /\ f["shell"] = input[1] /\ f["prompt"] = input[2]
    <3> DEFINE p == [editor |-> split[2], header |-> pane[1]]
               q == [shell |-> input[1], prompt |-> input[2]]
    <3>1. DOMAIN p = {"editor", "header"} /\ p["editor"] = split[2] /\ p["header"] = pane[1]
      OBVIOUS
    <3>2. DOMAIN q = {"shell", "prompt"} /\ q["shell"] = input[1] /\ q["prompt"] = input[2]
      OBVIOUS
    <3>3. f = Beside(p, q)
      BY <2>1
    <3> HIDE DEF p, q
    <3>4. /\ DOMAIN Beside(p, q) = DOMAIN p \cup DOMAIN q
          /\ \A i \in DOMAIN p : Beside(p, q)[i] = p[i]
          /\ \A i \in DOMAIN q \ DOMAIN p : Beside(p, q)[i] = q[i]
      BY SideBySide, Zenon
    <3> QED
      BY <3>1, <3>2, <3>3, <3>4
  <2>3. Tiles(f, main)
    BY <1>11, <1>12, <2>2, SameTiles
  <2> QED
    BY <1>3, <1>8, <2>2, <2>3 DEF f
<1>14. CASE ~view.prompt
  <2>1. f = Beside([editor |-> split[2], header |-> pane[1]], [shell |-> pane[2]])
    BY <1>2, <1>14
  <2>2. /\ DOMAIN f = {"editor", "header", "shell"} /\ f["editor"] = split[2]
        /\ f["header"] = pane[1] /\ f["shell"] = pane[2]
    <3> DEFINE p == [editor |-> split[2], header |-> pane[1]]
               q == [shell |-> pane[2]]
    <3>1. DOMAIN p = {"editor", "header"} /\ p["editor"] = split[2] /\ p["header"] = pane[1]
      OBVIOUS
    <3>2. DOMAIN q = {"shell"} /\ q["shell"] = pane[2]
      OBVIOUS
    <3>3. f = Beside(p, q)
      BY <2>1
    <3> HIDE DEF p, q
    <3>4. /\ DOMAIN Beside(p, q) = DOMAIN p \cup DOMAIN q
          /\ \A i \in DOMAIN p : Beside(p, q)[i] = p[i]
          /\ \A i \in DOMAIN q \ DOMAIN p : Beside(p, q)[i] = q[i]
      BY SideBySide, Zenon
    <3> QED
      BY <3>1, <3>2, <3>3, <3>4
  <2>3. Tiles(f, main)
    BY <1>9, <1>10, <2>2, SameTiles
  <2>4. pane[2].h >= 1
    BY <1>6, <1>8 DEF Rects
  <2> QED
    BY <1>3, <1>8, <2>2, <2>3, <2>4 DEF f
<1> QED
  BY <1>13, <1>14

\* The main area is a reader, or an editor as wide as it with or without a shell.
LEMMA MainAreaTiles ==
  ASSUME NEW view \in Views, NEW main \in Rects
  PROVE  /\ Tiles(MainArea(view, main), main)
         /\ DOMAIN MainArea(view, main) \subseteq {"reader", "editor", "header", "tab", "shell", "prompt"}
         /\ view.reader => "reader" \in DOMAIN MainArea(view, main) /\ MainArea(view, main)["reader"].w = main.w
         /\ ~view.reader => "editor" \in DOMAIN MainArea(view, main) /\ MainArea(view, main)["editor"].w = main.w
         /\ "shell" \in DOMAIN MainArea(view, main) =>
               /\ ~view.reader
               /\ MainArea(view, main)["shell"].h >= 1
               /\ MainArea(view, main)["editor"].h >= MinEditorRows
<1> DEFINE f == MainArea(view, main)
<1>1. CASE view.reader
  <2>1. f = [reader |-> main]
    BY <1>1 DEF MainArea
  <2>2. DOMAIN f = {"reader"} /\ f["reader"] = main
    BY <2>1
  <2> HIDE DEF f
  <2>3. Tiles(f, main)
    BY <2>2, OneTiles
  <2> QED
    BY <1>1, <2>2, <2>3 DEF f
<1>2. CASE ~view.reader /\ view.dropDown /\ view.shell /\ main.h > MinEditorRows + 3
  <2>1. f = DropDown(view, main)
    BY <1>2 DEF MainArea
  <2> HIDE DEF f
  <2> QED
    BY <1>2, <2>1, DropDownTiles DEF f
<1>3. CASE /\ ~view.reader /\ ~(view.dropDown /\ view.shell /\ main.h > MinEditorRows + 3)
           /\ view.shell /\ main.h > MinEditorRows + 1
  <2>1. f = BottomPanel(main)
    BY <1>3 DEF MainArea
  <2> HIDE DEF f
  <2> QED
    BY <1>3, <2>1, BottomPanelTiles DEF f
<1>4. CASE /\ ~view.reader /\ ~(view.dropDown /\ view.shell /\ main.h > MinEditorRows + 3)
           /\ ~(view.shell /\ main.h > MinEditorRows + 1)
  <2>1. f = [editor |-> main]
    BY <1>4 DEF MainArea
  <2>2. DOMAIN f = {"editor"} /\ f["editor"] = main
    BY <2>1
  <2> HIDE DEF f
  <2>3. Tiles(f, main)
    BY <2>2, OneTiles
  <2> QED
    BY <1>4, <2>2, <2>3 DEF f
<1> QED
  BY <1>1, <1>2, <1>3, <1>4

\* The regions of a frame divide the window.
LEMMA FrameTiles ==
  ASSUME NEW view \in Views, NEW width \in Nat, NEW height \in Nat
  PROVE  /\ Tiles(Frame(view, width, height), Rect(0, 0, width, height))
         /\ view.reader => "reader" \in DOMAIN Frame(view, width, height)
         /\ "shell" \in DOMAIN Frame(view, width, height) =>
               /\ ~view.reader
               /\ Frame(view, width, height)["shell"].h >= 1
               /\ Frame(view, width, height)["editor"].h >= MinEditorRows
         /\ {"sidebar", "agent"} \cap DOMAIN Frame(view, width, height) # {} =>
               /\ view.reader => Frame(view, width, height)["reader"].w >= MinMainCols
               /\ ~view.reader => Frame(view, width, height)["editor"].w >= MinMainCols
<1> DEFINE all == Rect(0, 0, width, height)
           cut == SplitBottom(all, 1)
           left == Sidebar(view, cut[1])
           right == AgentPanel(view, left["main"])
           area == MainArea(view, right["main"])
           f == Frame(view, width, height)
<1>1. f = Beside(Beside(Beside([status |-> cut[2]], Others(left)), Others(right)), area)
  BY DEF Frame
<1>2. all \in Rects
  BY DEF Rect, Rects
<1> HIDE DEF f, all
<1>3. Halves(cut, all)
  BY <1>2, BottomSplits
<1>4. cut[1] \in Rects
  BY <1>3 DEF Halves
<1> HIDE DEF cut
<1>5. /\ Tiles(left, cut[1]) /\ "main" \in DOMAIN left
      /\ DOMAIN left \subseteq {"sidebar", "rule", "main"}
      /\ "sidebar" \in DOMAIN left => left["main"].w >= MinMainCols
  BY <1>4, SidebarTiles
<1>6. left["main"] \in Rects
  BY <1>5 DEF Tiles
<1> HIDE DEF left
<1>7. /\ Tiles(right, left["main"]) /\ "main" \in DOMAIN right
      /\ DOMAIN right \subseteq {"agent", "agentRule", "main"}
      /\ \/ "agent" \notin DOMAIN right /\ right["main"] = left["main"]
         \/ right["main"].w >= MinMainCols
  BY <1>6, AgentPanelTiles
<1>8. right["main"] \in Rects
  BY <1>7 DEF Tiles
<1> HIDE DEF right
<1>9. /\ Tiles(area, right["main"])
      /\ DOMAIN area \subseteq {"reader", "editor", "header", "tab", "shell", "prompt"}
      /\ view.reader => "reader" \in DOMAIN area /\ area["reader"].w = right["main"].w
      /\ ~view.reader => "editor" \in DOMAIN area /\ area["editor"].w = right["main"].w
      /\ "shell" \in DOMAIN area =>
            ~view.reader /\ area["shell"].h >= 1 /\ area["editor"].h >= MinEditorRows
  BY <1>8, MainAreaTiles
<1> HIDE DEF area
<1> DEFINE body == [i \in {"status", "main"} |-> IF i = "status" THEN cut[2] ELSE cut[1]]
           one == Nested(body, "main", left)
           two == Nested(one, "main", right)
           three == Nested(two, "main", area)
<1>10. Tiles(body, all) /\ DOMAIN body = {"status", "main"} /\ body["main"] = cut[1] /\ body["status"] = cut[2]
  BY <1>2, <1>3, TwoTile
<1> HIDE DEF body
<1>11. /\ DOMAIN one = {"status"} \cup DOMAIN left /\ one["status"] = cut[2]
       /\ \A i \in DOMAIN left : one[i] = left[i]
  BY <1>5, <1>10 DEF Nested
<1>12. Tiles(one, all)
  BY <1>2, <1>5, <1>10, NestedTile
<1> HIDE DEF one
<1>13. /\ DOMAIN two = {"status"} \cup (DOMAIN left \ {"main"}) \cup DOMAIN right
       /\ two["status"] = cut[2]
       /\ \A i \in DOMAIN right : two[i] = right[i]
       /\ \A i \in DOMAIN left \ {"main"} : two[i] = left[i]
  BY <1>5, <1>7, <1>11 DEF Nested
<1>14. Tiles(two, all)
  <2>1. (DOMAIN one \ {"main"}) \cap DOMAIN right = {} /\ "main" \in DOMAIN one /\ one["main"] = left["main"]
    BY <1>5, <1>7, <1>11
  <2> QED
    BY <1>2, <1>7, <1>12, <2>1, NestedTile
<1> HIDE DEF two
<1>15. /\ DOMAIN three = {"status"} \cup (DOMAIN left \ {"main"}) \cup (DOMAIN right \ {"main"}) \cup DOMAIN area
       /\ three["status"] = cut[2]
       /\ \A i \in DOMAIN area : three[i] = area[i]
       /\ \A i \in DOMAIN right \ {"main"} : three[i] = right[i]
       /\ \A i \in DOMAIN left \ {"main"} : three[i] = left[i]
  BY <1>5, <1>7, <1>9, <1>13 DEF Nested
<1>16. Tiles(three, all)
  <2>1. (DOMAIN two \ {"main"}) \cap DOMAIN area = {} /\ "main" \in DOMAIN two /\ two["main"] = right["main"]
    BY <1>5, <1>7, <1>9, <1>13
  <2> QED
    BY <1>2, <1>9, <1>14, <2>1, NestedTile
<1> HIDE DEF three
<1>17. DOMAIN f = DOMAIN three /\ \A i \in DOMAIN three : f[i] = three[i]
  <2> DEFINE s == [status |-> cut[2]]
             a == Beside(s, Others(left))
             b == Beside(a, Others(right))
  <2>1. DOMAIN s = {"status"} /\ s["status"] = cut[2]
    OBVIOUS
  <2> HIDE DEF s
  <2>2. /\ DOMAIN Others(left) = DOMAIN left \ {"main"}
        /\ \A i \in DOMAIN left \ {"main"} : Others(left)[i] = left[i]
    BY DEF Others
  <2>3. /\ DOMAIN Others(right) = DOMAIN right \ {"main"}
        /\ \A i \in DOMAIN right \ {"main"} : Others(right)[i] = right[i]
    BY DEF Others
  <2>4. /\ DOMAIN a = {"status"} \cup (DOMAIN left \ {"main"}) /\ a["status"] = cut[2]
        /\ \A i \in DOMAIN left \ {"main"} : a[i] = left[i]
    <3>1. /\ DOMAIN a = DOMAIN s \cup DOMAIN Others(left)
          /\ \A i \in DOMAIN s : a[i] = s[i]
          /\ \A i \in DOMAIN Others(left) \ DOMAIN s : a[i] = Others(left)[i]
      BY SideBySide, Zenon
    <3> QED
      BY <1>5, <2>1, <2>2, <3>1
  <2> HIDE DEF a
  <2>5. /\ DOMAIN b = {"status"} \cup (DOMAIN left \ {"main"}) \cup (DOMAIN right \ {"main"})
        /\ b["status"] = cut[2]
        /\ \A i \in DOMAIN left \ {"main"} : b[i] = left[i]
        /\ \A i \in DOMAIN right \ {"main"} : b[i] = right[i]
    <3>1. /\ DOMAIN b = DOMAIN a \cup DOMAIN Others(right)
          /\ \A i \in DOMAIN a : b[i] = a[i]
          /\ \A i \in DOMAIN Others(right) \ DOMAIN a : b[i] = Others(right)[i]
      BY SideBySide, Zenon
    <3> QED
      BY <1>5, <1>7, <2>3, <2>4, <3>1
  <2> HIDE DEF b
  <2>6. f = Beside(b, area)
    BY <1>1 DEF b, a, s
  <2>7. /\ DOMAIN f = DOMAIN three /\ f["status"] = cut[2]
        /\ \A i \in DOMAIN left \ {"main"} : f[i] = left[i]
        /\ \A i \in DOMAIN right \ {"main"} : f[i] = right[i]
        /\ \A i \in DOMAIN area : f[i] = area[i]
    <3>1. /\ DOMAIN Beside(b, area) = DOMAIN b \cup DOMAIN area
          /\ \A i \in DOMAIN b : Beside(b, area)[i] = b[i]
          /\ \A i \in DOMAIN area \ DOMAIN b : Beside(b, area)[i] = area[i]
      BY SideBySide, Zenon
    <3> QED
      BY <1>5, <1>7, <1>9, <1>15, <2>5, <2>6, <3>1
  <2> QED
    BY <1>15, <2>7
<1>18. Tiles(f, all)
  BY <1>16, <1>17, SameTiles
<1>19. /\ view.reader => "reader" \in DOMAIN f /\ f["reader"] = area["reader"]
       /\ ~view.reader => "editor" \in DOMAIN f /\ f["editor"] = area["editor"]
       /\ "shell" \in DOMAIN f => "shell" \in DOMAIN area /\ f["shell"] = area["shell"]
       /\ "sidebar" \in DOMAIN f => "sidebar" \in DOMAIN left
       /\ "agent" \in DOMAIN f => "agent" \in DOMAIN right
  BY <1>5, <1>7, <1>9, <1>15, <1>17
<1>20. {"sidebar", "agent"} \cap DOMAIN f # {} => right["main"].w >= MinMainCols
  BY <1>5, <1>7, <1>19
<1>21. "shell" \in DOMAIN f => ~view.reader /\ f["shell"].h >= 1 /\ f["editor"].h >= MinEditorRows
  BY <1>9, <1>19
<1>22. {"sidebar", "agent"} \cap DOMAIN f # {} =>
          /\ view.reader => f["reader"].w >= MinMainCols
          /\ ~view.reader => f["editor"].w >= MinMainCols
  BY <1>9, <1>19, <1>20
<1> QED
  BY <1>18, <1>19, <1>21, <1>22 DEF f, all

-----------------------------------------------------------------------------
(* The desk.                                                               *)

\* What every part keeps.
DeskInv ==
    /\ ShellInv /\ GitInv /\ ReaderIsSound(info) /\ BoxIsSound /\ ChatInv
    /\ HlInv /\ NoQueryForgotten /\ CellInv
    /\ ScreenInv /\ TreeInv /\ FinderInv

\* It holds when the editor starts.
LEMMA DeskStarts == DeskInit => DeskInv
  BY ShellStarts, GitStarts, InfoStarts, PopupStarts, ChatStarts, HlStarts, PaneStarts,
     CellStarts, ScreenStarts, TreeStarts, FinderStarts
  DEF DeskInit, DeskInv

\* A step of the desk is one of each part, or leaves it alone.
LEMMA DeskSteps ==
  ASSUME [DeskNext]_deskVars
  PROVE  /\ [ShellNext]_shellVars /\ [GitNext]_gitVars /\ [InfoNext]_infoVars
         /\ [PopupNext]_popupVars /\ [ChatNext]_chatVars /\ [HlNext]_hlVars
         /\ [PaneNext]_paneVars /\ [CellNext]_cellVars
         /\ [ScreenNext]_screenVars /\ [TreeNext]_treeVars /\ [FinderNext]_finderVars
<1>1. CASE UNCHANGED deskVars
  BY <1>1 DEF deskVars
<1>2. CASE OnlyPart("keys") /\ ShellNext
  BY <1>2 DEF OnlyPart
<1>3. CASE OnlyPart("tree") /\ TreeNext
  BY <1>3 DEF OnlyPart
<1>4. CASE OnlyPart("git") /\ GitNext
  BY <1>4 DEF OnlyPart
<1>5. CASE OnlyPart("finder") /\ FinderNext
  BY <1>5 DEF OnlyPart
<1>7. CASE OnlyPart("pane") /\ PaneNext
  BY <1>7 DEF OnlyPart
<1>8. CASE OnlyPart("colours") /\ HlNext
  BY <1>8 DEF OnlyPart
<1>9. CASE OnlyPart("info") /\ InfoNext
  BY <1>9 DEF OnlyPart
<1>10. CASE OnlyPart("popups") /\ PopupNext
  BY <1>10 DEF OnlyPart
<1>11. CASE OnlyPart("screen") /\ ScreenNext
  BY <1>11 DEF OnlyPart
<1>12. CASE OnlyPart("sandbox") /\ CellNext
  BY <1>12 DEF OnlyPart
<1>13. CASE OnlyPart("chat") /\ ChatNext
  BY <1>13 DEF OnlyPart
<1> QED
  BY <1>1, <1>2, <1>3, <1>4, <1>5, <1>7, <1>8, <1>9, <1>10, <1>11, <1>12, <1>13 DEF DeskNext

\* Every step keeps it; highlights never go back, a reference that is selected is seen, the
\* tree keeps its place, and the terminal shows the frame.
LEMMA DeskStep ==
  DeskInv /\ [DeskNext]_deskVars =>
      DeskInv' /\ highlighted' >= highlighted /\ SelectionIsSeen /\ TreeKeepsItsPlace /\ FrameIsShown
<1> SUFFICES ASSUME DeskInv, [DeskNext]_deskVars
             PROVE  DeskInv' /\ highlighted' >= highlighted /\ SelectionIsSeen /\ TreeKeepsItsPlace /\ FrameIsShown
  OBVIOUS
<1>1. /\ [ShellNext]_shellVars /\ [GitNext]_gitVars /\ [InfoNext]_infoVars
      /\ [PopupNext]_popupVars /\ [ChatNext]_chatVars /\ [HlNext]_hlVars
      /\ [PaneNext]_paneVars /\ [CellNext]_cellVars
      /\ [ScreenNext]_screenVars /\ [TreeNext]_treeVars /\ [FinderNext]_finderVars
  BY DeskSteps
<1>2. /\ ShellInv /\ GitInv /\ ReaderIsSound(info) /\ BoxIsSound /\ ChatInv
      /\ HlInv /\ NoQueryForgotten /\ CellInv /\ ScreenInv /\ TreeInv /\ FinderInv
  BY DEF DeskInv
<1>3. ShellInv' /\ GitInv' /\ BoxIsSound' /\ ChatInv'
  BY <1>1, <1>2, ShellStep, GitStep, PopupStep, ChatStep
<1>4. HlInv' /\ highlighted' >= highlighted /\ NoQueryForgotten' /\ CellInv'
  BY <1>1, <1>2, HlStep, PaneKeeps, CellStep
<1>5. ReaderIsSound(info') /\ (SelectionIsSeen \/ UNCHANGED infoVars)
  BY <1>1, <1>2, InfoStep
<1>6. UNCHANGED infoVars => SelectionIsSeen
  BY DEF infoVars, SelectionIsSeen
<1>7. ScreenInv' /\ FrameIsShown
  BY <1>1, <1>2, ScreenStep
<1>8. TreeInv' /\ TreeKeepsItsPlace /\ FinderInv'
  BY <1>1, <1>2, TreeStep, FinderStep
<1> QED
  BY <1>3, <1>4, <1>5, <1>6, <1>7, <1>8 DEF DeskInv

\* The inductive invariant holds in every behaviour.
THEOREM DeskIsSound == Desk => []DeskInv
<1>1. DeskInv /\ [DeskNext]_deskVars => DeskInv'
  BY DeskStep
<1> QED
  BY <1>1, DeskStarts, PTL DEF Desk

\* Keys land on what the user sees (tui.rs handle_key and its boxes at the cursor,
\* git_panel.rs, finder.rs, info.rs and the questions of agent_panel.rs): whatever part is exercised,
\* with any files, manuals, labels, panes and sizes of windows.
THEOREM DeskKeysActOnWhatIsShown == Desk => []KeysActOnWhatIsShown
<1>1. DeskInv => KeysActOnWhatIsShown
  <2> SUFFICES ASSUME DeskInv
               PROVE  KeysActOnWhatIsShown
    OBVIOUS
  <2>1. ShellInv /\ GitInv /\ ReaderIsSound(info) /\ BoxIsSound /\ ChatInv /\ FinderInv
    BY DEF DeskInv
  <2>2. KeysReachWhatIsShown /\ GitSelectionIsAFile
    BY <2>1 DEF ShellInv, GitInv
  <2>3. InfoPlacesExist /\ PopupShowsTheSelection /\ QuestionIsSeen /\ FinderListsTheMatches
    BY <2>1, SoundReader, BoxesAreSound, TheQuestionIsSeen, TheMatchesAreListed
  <2> QED
    BY <2>2, <2>3 DEF KeysActOnWhatIsShown
<1> QED
  BY <1>1, DeskIsSound, PTL

\* What the helper threads hand over is what came of their work, whatever the order of
\* their steps (syntax.rs, pty.rs, sandbox.rs, agent_panel.rs), the explorer keeps its
\* selection (files.rs), and the frame is what is on the terminal (render.rs).
THEOREM DeskOutcomesAreTrue == Desk => OutcomesAreTrue
<1>1. DeskInv /\ [DeskNext]_deskVars =>
        /\ highlighted' >= highlighted /\ highlighted' <= requested'
        /\ NoQueryForgotten'
        /\ part = "sandbox" => OutputIsComplete'
        /\ part = "chat" => TranscriptIsTheTalk'
        /\ part = "info" => SelectionIsSeen
        /\ part = "tree" => TreeKeepsItsPlace
        /\ part = "screen" => FrameIsShown
  <2> SUFFICES ASSUME DeskInv, [DeskNext]_deskVars
               PROVE  /\ highlighted' >= highlighted /\ highlighted' <= requested'
                      /\ NoQueryForgotten' /\ OutputIsComplete' /\ TranscriptIsTheTalk'
                      /\ SelectionIsSeen /\ TreeKeepsItsPlace /\ FrameIsShown
    OBVIOUS
  <2>1. DeskInv' /\ highlighted' >= highlighted /\ SelectionIsSeen /\ TreeKeepsItsPlace /\ FrameIsShown
    BY DeskStep
  <2>2. HlInv' /\ NoQueryForgotten' /\ CellInv' /\ ChatInv'
    BY <2>1 DEF DeskInv
  <2>3. highlighted' <= requested'
    BY <2>2 DEF HlInv
  <2>4. OutputIsComplete'
    BY <2>2, CellSound, PTL
  <2>5. TranscriptIsTheTalk'
    BY <2>2, TalkIsTheTranscript, PTL
  <2> QED
    BY <2>1, <2>2, <2>3, <2>4, <2>5
<1> QED
  BY <1>1, DeskIsSound, PTL DEF Desk, OutcomesAreTrue

\* The pieces of a reply's text and of each of its calls are put together in the order they
\* came, however many events there are and however the calls are interleaved
\* (http.rs read_sse_stream).
THEOREM RepliesArePutTogether ==
  ASSUME NEW Pieces, NEW events \in Seq(EventsOf(Pieces))
  PROVE  RepliesAreWhole(events)
<1> DEFINE heard == BeforeEnd(events)
           N == Len(heard)
<1>1. heard \in Seq(EventsOf(Pieces))
  BY HeardIsAStream
<1> HIDE DEF heard
<1>2. N \in Nat /\ DOMAIN heard = 1 .. N
  BY <1>1
<1>3. PICK f : Reading(f, heard) /\ ReadStream(events) = f[N]
  BY <1>1, ReadingExists DEF heard
<1> HIDE DEF N
<1> DEFINE Q == {m \in Nat : m <= N => f[m] \in RepliesOf(Pieces) /\ Together(f[m], heard, m)}
<1>4. \A m \in 0 .. N : f[m] = IF m = 0 THEN NoReply ELSE AddEvent(f[m - 1], heard[m])
  <2>1. f = [i \in 0 .. N |-> IF i = 0 THEN NoReply ELSE AddEvent(f[i - 1], heard[i])]
    BY <1>3, Zenon DEF Reading, N
  <2> QED
    BY <2>1, Zenon
<1>5. 0 \in Q
  <2>1. f[0] = NoReply
    BY <1>2, <1>4
  <2>2. NoReply \in RepliesOf(Pieces) /\ NoReply.content = <<>> /\ NoReply.calls = <<>>
    BY DEF NoReply, RepliesOf
  <2>3. FlattenSeq(<<>>) = <<>>
    <3>1. <<>> \in Seq(Seq(Pieces))
      OBVIOUS
    <3> QED
      BY <3>1, FlattenType
  <2>4. /\ [i \in 1 .. 0 |-> TokenIn(heard[i])] = <<>>
        /\ \A n \in Nat \ {0} : [i \in 1 .. 0 |-> PieceIn(heard[i], n - 1)] = <<>>
    OBVIOUS
  <2>5. \A n \in Nat \ {0} : CallAt(NoReply, n) = <<>>
    BY <2>2 DEF CallAt
  <2>6. Together(NoReply, heard, 0)
    BY <2>2, <2>3, <2>4, <2>5 DEF Together
  <2> QED
    BY <2>1, <2>2, <2>6
<1>6. ASSUME NEW m \in Nat, m \in Q
      PROVE  m + 1 \in Q
  <2> SUFFICES ASSUME m + 1 <= N
               PROVE  f[m + 1] \in RepliesOf(Pieces) /\ Together(f[m + 1], heard, m + 1)
    OBVIOUS
  <2>1. m <= N /\ m + 1 \in 1 .. N /\ m + 1 \in 0 .. N /\ m + 1 # 0 /\ (m + 1) - 1 = m
    BY <1>2
  <2>2. f[m] \in RepliesOf(Pieces) /\ Together(f[m], heard, m)
    BY <1>6, <2>1
  <2>3. f[m + 1] = AddEvent(f[m], heard[m + 1])
    BY <1>4, <2>1
  <2>4. Together(f[m], heard, (m + 1) - 1) /\ m + 1 \in 1 .. Len(heard)
    BY <2>1, <2>2 DEF N
  <2> QED
    BY <1>1, <2>2, <2>3, <2>4, TogetherGrows
<1>7. f[N] \in RepliesOf(Pieces) /\ Together(f[N], heard, N)
  <2>1. \A m \in Nat : m \in Q
    <3> HIDE DEF Q
    <3> QED
      BY <1>5, <1>6, Counting
  <2> QED
    BY <1>2, <2>1
<1> DEFINE read == f[N]
<1> HIDE DEF read
<1>8. /\ read.content = FlattenSeq([i \in DOMAIN heard |-> TokenIn(heard[i])])
      /\ \A n \in Nat \ {0} : CallAt(read, n) = FlattenSeq([i \in DOMAIN heard |-> PieceIn(heard[i], n - 1)])
      /\ \A i \in DOMAIN heard : heard[i].kind = "call" => heard[i].index < Len(read.calls)
  BY <1>2, <1>7 DEF Together, read
<1>9. \A n \in DOMAIN read.calls : n \in Nat \ {0} /\ CallAt(read, n) = read.calls[n]
  <2>1. read.calls \in Seq(Seq(Pieces))
    BY <1>7 DEF RepliesOf, read
  <2> QED
    BY <2>1 DEF CallAt
<1>10. \A n \in DOMAIN read.calls :
         read.calls[n] = FlattenSeq([i \in DOMAIN heard |-> PieceIn(heard[i], n - 1)])
  BY <1>8, <1>9
<1> QED
  BY <1>3, <1>8, <1>10 DEF RepliesAreWhole, heard, read

\* The regions of a frame tile the window, however small it is and whatever is switched on; a
\* shell has a row, the editor its three above or below it, and side panels leave the rest its
\* columns (tui.rs render_frame and what it calls, penumbra/layout.rs).
THEOREM FramesTile == FramesFit
<1> SUFFICES ASSUME NEW view \in Views, NEW width \in Nat, NEW height \in Nat,
                    NEW f \in {Frame(view, width, height)}
             PROVE  LET main == IF view.reader THEN f.reader ELSE f.editor
                    IN  /\ \A r, s \in DOMAIN f :
                             r # s => f[r].w * f[r].h = 0 \/ f[s].w * f[s].h = 0
                                      \/ f[r].x + f[r].w <= f[s].x \/ f[s].x + f[s].w <= f[r].x
                                      \/ f[r].y + f[r].h <= f[s].y \/ f[s].y + f[s].h <= f[r].y
                        /\ UNION {Inside(f[r]) : r \in DOMAIN f} = Inside(Rect(0, 0, width, height))
                        /\ "shell" \in DOMAIN f => f.shell.h >= 1 /\ main.h >= MinEditorRows
                        /\ {"sidebar", "agent"} \cap DOMAIN f # {} => main.w >= MinMainCols
  BY FrameAssumption DEF FramesFit
<1>1. /\ \A r, s \in DOMAIN f :
            r # s => f[r].w * f[r].h = 0 \/ f[s].w * f[s].h = 0
                     \/ f[r].x + f[r].w <= f[s].x \/ f[s].x + f[s].w <= f[r].x
                     \/ f[r].y + f[r].h <= f[s].y \/ f[s].y + f[s].h <= f[r].y
      /\ UNION {Inside(f[r]) : r \in DOMAIN f} = Inside(Rect(0, 0, width, height))
  BY FrameTiles DEF Tiles, Apart
<1>2. "shell" \in DOMAIN f => ~view.reader /\ f["shell"].h >= 1 /\ f["editor"].h >= MinEditorRows
  BY FrameTiles
<1>3. {"sidebar", "agent"} \cap DOMAIN f # {} =>
         /\ view.reader => f["reader"].w >= MinMainCols
         /\ ~view.reader => f["editor"].w >= MinMainCols
  BY FrameTiles
<1> QED
  BY <1>1, <1>2, <1>3

\* What a sandbox says of its confinement is so, for every set of programs that are
\* installed and every request; where it says too little, it is the network, which bwrap
\* cuts with the files (sandbox.rs wrap, report).
THEOREM CagesReportWhatTheyDo == ReportsAreTrue
<1> SUFFICES ASSUME NEW installed \in SUBSET Programs, NEW namespaces \in BOOLEAN,
                    NEW asked \in SUBSET Wishes
             PROVE  LET cage == [asked |-> asked, tools |-> Detect(installed, namespaces)]
                    IN  /\ Reported(cage) \subseteq Cuts(cage)
                        /\ Cuts(cage) # Reported(cage) =>
                              /\ Cuts(cage) \ Reported(cage) = {"network"}
                              /\ "unshare" \notin cage.tools /\ asked = Wishes
  BY DEF ReportsAreTrue
<1> DEFINE cage == [asked |-> asked, tools |-> Detect(installed, namespaces)]
           limits == IF "prlimit" \in cage.tools THEN {"limits"} ELSE {}
           files == "files" \in asked /\ "bwrap" \in cage.tools
           net == "network" \in asked /\ "unshare" \in cage.tools
<1>1. Reported(cage) = limits \cup (IF files THEN {"files"} ELSE {}) \cup (IF net THEN {"network"} ELSE {})
  BY DEF Reported
<1>2. Cuts(cage) = limits \cup (IF files THEN {"files"} \cup (asked \cap {"network"})
                                ELSE IF net THEN {"network"} ELSE {})
  BY DEF Cuts, Wrappers, Bwrap
<1> HIDE DEF cage
<1> QED
  BY <1>1, <1>2 DEF Wishes, cage
=============================================================================
