----------------------------- MODULE TextBytes -----------------------------
(* Texts as sequences of characters, with the byte offsets at which the    *)
(* code names places in them.  "nl" is the newline, "w" a wide letter    *)
(* (three bytes, two cells), every other character has one of each.        *)
EXTENDS Integers, FiniteSets, SequencesExt

NL == "nl"
Bytes(t) == Len(t) + 2 * Cardinality({i \in DOMAIN t : t[i] = "w"})

\* The byte at which the first i characters end, and the places between characters.
ByteOf(t, i) == i + 2 * Cardinality({j \in 1..i : t[j] = "w"})
Boundaries(t) == {ByteOf(t, i) : i \in 0..Len(t)}

\* How many characters end at or before byte b.
CharOf(t, b) == Max({i \in 0..Len(t) : ByteOf(t, i) <= b})
FloorBoundary(t, b) == ByteOf(t, CharOf(t, b))

Smaller(a, b) == IF a <= b THEN a ELSE b
Larger(a, b) == IF a <= b THEN b ELSE a

\* The bytes from lo to hi (boundaries) replaced by another text.
Splice(t, lo, hi, new) ==
    SubSeq(t, 1, CharOf(t, lo)) \o new \o SubSeq(t, CharOf(t, hi) + 1, Len(t))
Slice(t, lo, hi) == SubSeq(t, CharOf(t, lo) + 1, CharOf(t, hi))

\* Lines, counted from 0, by the character offsets at which they start; where the content
\* of a line ends.
LineOf(t, i) == Cardinality({j \in 1..i : t[j] = NL})
LineStarts(t) ==
    [row \in 1..LineOf(t, Len(t)) + 1 |-> Min({i \in 0..Len(t) : LineOf(t, i) = row - 1})]
LineEnd(t, s) == Min({i - 1 : i \in {j \in s + 1..Len(t) : t[j] = NL}} \cup {Len(t)})

LinesOf(t) == [r \in 1..Len(LineStarts(t)) |-> SubSeq(t, LineStarts(t)[r] + 1, LineEnd(t, LineStarts(t)[r]))]

\* The bytes that an edit replaces which names a line (replace, insert after or delete),
\* and what with.
Resolve(t, edit) ==
    LET n == Len(LineStarts(t))
        start == ByteOf(t, LineStarts(t)[edit.line + 1])
        end == start + Bytes(LinesOf(t)[edit.line + 1])
        last == edit.line + 1 >= n
        next == IF last THEN Bytes(t) ELSE end + 1
    IN  CASE edit.kind = "replace" -> [lo |-> start, hi |-> end, new |-> edit.text]
          [] edit.kind = "insert" -> [lo |-> next, hi |-> next,
                                      new |-> IF last THEN <<NL>> \o edit.text ELSE edit.text \o <<NL>>]
          [] edit.kind = "delete" ->
                [lo |-> IF n = 1 THEN 0 ELSE IF last THEN start - 1 ELSE start, hi |-> next, new |-> <<>>]

Texts(Chars, n) == UNION {[1..k -> Chars] : k \in 0..n}
=============================================================================
