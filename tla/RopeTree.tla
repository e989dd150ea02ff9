------------------------------ MODULE RopeTree ------------------------------
(***************************************************************************)
(* The rope (stratum/rope.rs, summary.rs): a height-balanced binary tree   *)
(* of chunks of text.  An edit splits it twice and joins the pieces; what  *)
(* is asked about places is found by descending along the sums of the      *)
(* subtrees.  A node never changes, so the sums and the height it was      *)
(* built with are those of its leaves.                                     *)
(***************************************************************************)
EXTENDS TextBytes

CONSTANTS
    MaxChunk,       \* bytes of a chunk
    RopeTexts,      \* texts a rope is made from
    RopeInserts,    \* texts an edit puts in
    MaxRopeEdits    \* bound: edits

ASSUME RopeAssumption == MaxChunk \in Nat /\ MaxChunk >= 3 /\ MaxRopeEdits \in Nat

VARIABLES
    rope,           \* the tree
    ropeText,       \* the text it should hold
    ropeEdits       \* edits so far (bounds the run)

ropeVars == <<rope, ropeText, ropeEdits>>

Chunk(t) == [kind |-> "chunk", text |-> t]
IsChunk(n) == n.kind = "chunk"
EmptyChunk == Chunk(<<>>)

RECURSIVE Flatten(_)
Flatten(n) == IF IsChunk(n) THEN n.text ELSE Flatten(n.left) \o Flatten(n.right)

Newlines(t) == Cardinality({i \in DOMAIN t : t[i] = NL})
SummaryOf(t) == [bytes |-> Bytes(t), chars |-> Len(t), newlines |-> Newlines(t)]
Sum2(a, b) == [bytes |-> a.bytes + b.bytes, chars |-> a.chars + b.chars, newlines |-> a.newlines + b.newlines]
Summary(n) == IF IsChunk(n) THEN SummaryOf(n.text) ELSE n.summary
Height(n) == IF IsChunk(n) THEN 1 ELSE n.height

InnerRaw(l, r) ==
    [kind |-> "inner", left |-> l, right |-> r, summary |-> Sum2(Summary(l), Summary(r)),
     height |-> 1 + Larger(Height(l), Height(r))]

-----------------------------------------------------------------------------
(* Joining.                                                                *)

\* Mutant of Balance: never a double rotation.
BalanceSingle(l, r) ==
    IF l = EmptyChunk THEN r
    ELSE IF r = EmptyChunk THEN l
    ELSE IF IsChunk(l) /\ IsChunk(r) /\ Bytes(l.text) + Bytes(r.text) <= MaxChunk THEN Chunk(l.text \o r.text)
    ELSE IF Height(l) > Height(r) + 1 THEN InnerRaw(l.left, InnerRaw(l.right, r))
    ELSE IF Height(r) > Height(l) + 1 THEN InnerRaw(InnerRaw(l, r.left), r.right)
    ELSE InnerRaw(l, r)

\* Two trees whose heights differ by two at most; small chunks become one.
Balance(l, r) ==
    IF l = EmptyChunk THEN r
    ELSE IF r = EmptyChunk THEN l
    ELSE IF IsChunk(l) /\ IsChunk(r) /\ Bytes(l.text) + Bytes(r.text) <= MaxChunk THEN Chunk(l.text \o r.text)
    ELSE IF Height(l) > Height(r) + 1
    THEN IF Height(l.left) >= Height(l.right) THEN InnerRaw(l.left, InnerRaw(l.right, r))
         ELSE InnerRaw(InnerRaw(l.left, l.right.left), InnerRaw(l.right.right, r))
    ELSE IF Height(r) > Height(l) + 1
    THEN IF Height(r.right) >= Height(r.left) THEN InnerRaw(InnerRaw(l, r.left), r.right)
         ELSE InnerRaw(InnerRaw(l, r.left.left), InnerRaw(r.left.right, r.right))
    ELSE InnerRaw(l, r)

RECURSIVE Join(_, _)
Join(l, r) ==
    IF l = EmptyChunk THEN r
    ELSE IF r = EmptyChunk THEN l
    ELSE IF Height(l) > Height(r) + 1 THEN Balance(l.left, Join(l.right, r))
    ELSE IF Height(r) > Height(l) + 1 THEN Balance(Join(l, r.left), r.right)
    ELSE Balance(l, r)

\* What is before byte b and what is behind it.
RECURSIVE Split(_, _)
Split(n, b) ==
    IF IsChunk(n) THEN <<Chunk(Slice(n.text, 0, b)), Chunk(Slice(n.text, b, Bytes(n.text)))>>
    ELSE LET lb == Summary(n.left).bytes
             s == IF b < lb THEN Split(n.left, b) ELSE Split(n.right, b - lb)
         IN  IF b < lb THEN <<s[1], Join(s[2], n.right)>>
             ELSE IF b > lb THEN <<Join(n.left, s[1]), s[2]>>
             ELSE <<n.left, n.right>>

\* Chunks as long as MaxChunk allows without cutting a character.
RECURSIVE Chunks(_)
Chunks(t) ==
    IF t = <<>> THEN <<>>
    ELSE LET n == CharOf(t, MaxChunk)
         IN  <<Chunk(SubSeq(t, 1, n))>> \o Chunks(SubSeq(t, n + 1, Len(t)))

RECURSIVE BuildBalanced(_)
BuildBalanced(nodes) ==
    IF Len(nodes) = 0 THEN EmptyChunk
    ELSE IF Len(nodes) = 1 THEN nodes[1]
    ELSE LET mid == Len(nodes) \div 2
         IN  InnerRaw(BuildBalanced(SubSeq(nodes, 1, mid)), BuildBalanced(SubSeq(nodes, mid + 1, Len(nodes))))

NodeFromText(t) == BuildBalanced(Chunks(t))

ReplaceAfter(s, count, t) == Join(Join(s[1], NodeFromText(t)), Split(s[2], count)[2])
ReplaceIn(n, lo, hi, t) == ReplaceAfter(Split(n, lo), hi - lo, t)

-----------------------------------------------------------------------------
(* Questions about places.                                                 *)

RECURSIVE NewlinesBefore(_, _)
NewlinesBefore(n, b) ==
    IF IsChunk(n) THEN Newlines(Slice(n.text, 0, b))
    ELSE LET s == Summary(n.left)
         IN  IF b <= s.bytes THEN NewlinesBefore(n.left, b)
             ELSE s.newlines + NewlinesBefore(n.right, b - s.bytes)

\* The byte of the k-th newline, from 0.
RECURSIVE NewlineOffset(_, _)
NewlineOffset(n, k) ==
    IF IsChunk(n) THEN ByteOf(n.text, LineStarts(n.text)[k + 2] - 1)
    ELSE LET s == Summary(n.left)
         IN  IF k < s.newlines THEN NewlineOffset(n.left, k)
             ELSE s.bytes + NewlineOffset(n.right, k - s.newlines)

RECURSIVE CharsBefore(_, _)
CharsBefore(n, b) ==
    IF IsChunk(n) THEN CharOf(n.text, b)
    ELSE LET s == Summary(n.left)
         IN  IF b <= s.bytes THEN CharsBefore(n.left, b) ELSE s.chars + CharsBefore(n.right, b - s.bytes)

RECURSIVE ByteOfChar(_, _)
ByteOfChar(n, i) ==
    IF IsChunk(n) THEN ByteOf(n.text, i)
    ELSE LET s == Summary(n.left)
         IN  IF i < s.chars THEN ByteOfChar(n.left, i) ELSE s.bytes + ByteOfChar(n.right, i - s.chars)

RECURSIVE IsCharBoundary(_, _)
IsCharBoundary(n, b) ==
    IF IsChunk(n) THEN b \in Boundaries(n.text)
    ELSE LET lb == Summary(n.left).bytes
         IN  IF b < lb THEN IsCharBoundary(n.left, b) ELSE b = lb \/ IsCharBoundary(n.right, b - lb)

RopeLineStart(n, row) == IF row = 0 THEN 0 ELSE NewlineOffset(n, row - 1) + 1
RopeLineEnd(n, row) == IF row < Summary(n).newlines THEN NewlineOffset(n, row) ELSE Summary(n).bytes
ByteToPoint(n, b) == <<NewlinesBefore(n, b), b - RopeLineStart(n, NewlinesBefore(n, b))>>
PointToByte(n, p) == RopeLineStart(n, p[1]) + p[2]

\* The chunks from the left, and the part of each that lies in a range.
RECURSIVE ChunksOf(_)
ChunksOf(n) == IF IsChunk(n) THEN (IF n = EmptyChunk THEN <<>> ELSE <<n.text>>) ELSE ChunksOf(n.left) \o ChunksOf(n.right)
RopeSlice(n, lo, hi) ==
    LET take(acc, c) == [at |-> acc.at + Bytes(c),
                         out |-> IF acc.at + Bytes(c) <= lo \/ acc.at >= hi THEN acc.out
                                 ELSE acc.out \o Slice(c, Larger(lo - acc.at, 0), Smaller(hi - acc.at, Bytes(c)))]
    IN  FoldLeft(take, [at |-> 0, out |-> <<>>], ChunksOf(n)).out

-----------------------------------------------------------------------------
RopeInit == ropeText \in RopeTexts /\ rope = NodeFromText(ropeText) /\ ropeEdits = 0

EditRope ==
    /\ ropeEdits < MaxRopeEdits /\ ropeEdits' = ropeEdits + 1
    /\ \E lo, hi \in Boundaries(ropeText), t \in RopeInserts :
          /\ lo <= hi
          /\ rope' = ReplaceIn(rope, lo, hi, t)
          /\ ropeText' = Splice(ropeText, lo, hi, t)

RopeNext == EditRope

-----------------------------------------------------------------------------
RECURSIVE Balanced(_)
Balanced(n) ==
    IF IsChunk(n) THEN Bytes(n.text) <= MaxChunk
    ELSE /\ Balanced(n.left) /\ Balanced(n.right) /\ n.left # EmptyChunk /\ n.right # EmptyChunk
         /\ Height(n.left) - Height(n.right) \in -1..1

\* After any edits the tree holds the text that plain splicing gives, is height-balanced
\* with chunks that are neither empty nor too long, and answers every question about places
\* as a walk over the text would: bytes to lines, columns and characters and back.
RopeIsItsText ==
    /\ Flatten(rope) = ropeText /\ Balanced(rope) /\ Summary(rope) = SummaryOf(ropeText)
    /\ \A b \in 0..Bytes(ropeText) : IsCharBoundary(rope, b) <=> b \in Boundaries(ropeText)
    /\ \A b \in Boundaries(ropeText) :
          /\ ByteToPoint(rope, b)[1] = LineOf(ropeText, CharOf(ropeText, b))
          /\ PointToByte(rope, ByteToPoint(rope, b)) = b
          /\ CharsBefore(rope, b) = CharOf(ropeText, b) /\ ByteOfChar(rope, CharOf(ropeText, b)) = b
    /\ \A row \in 0..Newlines(ropeText) :
          LET start == LineStarts(ropeText)[row + 1]
              lo == RopeLineStart(rope, row)
              hi == RopeLineEnd(rope, row)
          IN  lo = ByteOf(ropeText, start) /\ RopeSlice(rope, lo, hi) = SubSeq(ropeText, start + 1, LineEnd(ropeText, start))
=============================================================================
