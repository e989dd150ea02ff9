------------------------------ MODULE Anchors ------------------------------
(***************************************************************************)
(* Places that follow a text through its edits (stratum/anchor.rs), and    *)
(* layers of spans made of them (stratum/spans.rs).  An edit is where it   *)
(* starts, the bytes it removes and the bytes it puts there.               *)
(***************************************************************************)
EXTENDS TextBytes

Edit(start, oldLen, newLen) == [start |-> start, oldLen |-> oldLen, newLen |-> newLen]

\* Before the edit a place stays, behind it it moves along, and one that the edit touches
\* goes to an end of the new text.
Rebase(offset, bias, e) ==
    IF offset < e.start THEN offset
    ELSE IF offset > e.start + e.oldLen THEN offset - e.oldLen + e.newLen
    ELSE IF bias = "left" THEN e.start ELSE e.start + e.newLen

\* A span holds on to its text: its start leans right, its end left.
Span(start, end, value) == [start |-> start, end |-> end, value |-> value]
RebaseSpan(s, e) ==
    [s EXCEPT !.start = Rebase(s.start, "right", e), !.end = Rebase(s.end, "left", e)]

\* A layer is sorted by start, those of one start as they were; a new span goes behind those
\* of its start.
Precedes(spans, i, j) == spans[i].start < spans[j].start \/ (spans[i].start = spans[j].start /\ i <= j)
SortedByStart(spans) ==
    [n \in DOMAIN spans |->
        spans[CHOOSE j \in DOMAIN spans : Cardinality({i \in DOMAIN spans : Precedes(spans, i, j)}) = n]]
InsertSpan(layer, s) == SortedByStart(Append(layer, s))

RebaseLayer(layer, e) == SortedByStart([i \in DOMAIN layer |-> RebaseSpan(layer[i], e)])

SpansIn(layer, lo, hi) == SelectSeq(layer, LAMBDA s : s.end > lo /\ s.start < hi)

-----------------------------------------------------------------------------
\* A layer stays sorted, and a span that an edit does not touch covers, after it, the
\* text it covered before.  (One whose whole text is replaced ends before it starts.)
SpansAgree(t, news) ==
    LET spans == {s \in [start : Boundaries(t), end : Boundaries(t), value : {"v"}] : s.start < s.end}
        edits == {e \in [lo : Boundaries(t), hi : Boundaries(t), new : news] : e.lo <= e.hi}
    IN  \A e \in edits :
            LET edit == Edit(e.lo, e.hi - e.lo, Bytes(e.new))
                after == Splice(t, e.lo, e.hi, e.new)
            IN  \A s, r \in spans :
                    LET layer == RebaseLayer(InsertSpan(InsertSpan(<<>>, s), r), edit)
                        moved == RebaseSpan(s, edit)
                    IN  /\ layer[1].start <= layer[2].start
                        /\ (e.hi <= s.start \/ s.end <= e.lo) =>
                               Slice(after, moved.start, moved.end) = Slice(t, s.start, s.end)
=============================================================================
