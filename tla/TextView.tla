------------------------------ MODULE TextView ------------------------------
(***************************************************************************)
(* A document shared by views, and a view of it: cursor, selection, goal   *)
(* column (majestic-core/buffer.rs).  Operators on records: a document is  *)
(* its text, what undo and redo lead to, and whether it is dirty; a view   *)
(* is byte offsets into the text, with Off where the code has None.        *)
(*                                                                         *)
(* A line of undo stands for the tree (UndoTree has that): redo follows    *)
(* the branch left last, so as a view sees it there is one.                *)
(***************************************************************************)
EXTENDS Anchors

Off == -1

NewDoc(path, text) == [path |-> path, text |-> text, past |-> <<>>, future |-> <<>>, dirty |-> FALSE,
                       rev |-> 0]
NewView == [cursor |-> 0, anchor |-> Off, goal |-> Off, lastEdit |-> <<>>]

\* What an operation leads to.
State(d, v) == [doc |-> d, view |-> v]

Cursor(d, v) == FloorBoundary(d.text, v.cursor)
SetCursor(d, v, offset) == [v EXCEPT !.cursor = FloorBoundary(d.text, offset), !.anchor = Off, !.goal = Off]

\* A view is brought back into a text that another view has shortened.
Clamp(d, v) ==
    [v EXCEPT !.cursor = FloorBoundary(d.text, @),
              !.anchor = IF @ = Off THEN Off ELSE FloorBoundary(d.text, @)]

Row(d, v) == LineOf(d.text, CharOf(d.text, v.cursor))
LineStart(d, row) == LineStarts(d.text)[row + 1]
Column(d, v) == CharOf(d.text, v.cursor) - LineStart(d, Row(d, v))
LastRow(d) == Len(LineStarts(d.text)) - 1

\* The selection from its lower to its upper end, or nothing.
SpanOf(c) ==
    IF c.anchor \in {Off, c.cursor} THEN <<>>
    ELSE <<Smaller(c.anchor, c.cursor), Larger(c.anchor, c.cursor)>>
Selection(d, v) == SpanOf(Clamp(d, v))
SpanOr(s, default) == IF s = <<>> THEN default ELSE s
SelectedText(d, v) ==
    IF Selection(d, v) = <<>> THEN <<>> ELSE Slice(d.text, Selection(d, v)[1], Selection(d, v)[2])

-----------------------------------------------------------------------------
(* Edits.  The edit that was made is kept for the sibling views.           *)

ApplyEdit(d, v, lo, hi, new) ==
    State([d EXCEPT !.text = Splice(d.text, lo, hi, new), !.past = Append(@, d.text), !.future = <<>>,
                    !.dirty = TRUE, !.rev = @ + 1],
          [cursor |-> lo + Bytes(new), anchor |-> Off, goal |-> Off,
           lastEdit |-> <<Edit(lo, hi - lo, Bytes(new))>>])

ApplyAt(d, c, s, new) == ApplyEdit(d, c, s[1], s[2], new)
Insert(d, v, new) ==
    LET c == Clamp(d, v)
    IN  ApplyAt(d, c, SpanOr(SpanOf(c), <<c.cursor, c.cursor>>), new)

ReplaceRange(d, v, lo, hi, new) ==
    LET start == FloorBoundary(d.text, lo)
    IN  ApplyEdit(d, Clamp(d, v), start, Larger(FloorBoundary(d.text, hi), start), new)

PrevBoundary(t, b) == ByteOf(t, Larger(CharOf(t, b) - 1, 0))
NextBoundary(t, b) == ByteOf(t, Smaller(CharOf(t, b) + 1, Len(t)))

\* The selection, or what lies between the cursor and the next place in one direction.
DeleteAt(d, c, s) == IF s[1] = s[2] THEN State(d, c) ELSE ApplyAt(d, c, s, <<>>)
Delete(d, v, target) ==
    LET c == Clamp(d, v)
    IN  DeleteAt(d, c, SpanOr(SpanOf(c), <<Smaller(c.cursor, target), Larger(c.cursor, target)>>))

Backspace(d, v) == Delete(d, v, PrevBoundary(d.text, Cursor(d, v)))
DeleteForward(d, v) == Delete(d, v, NextBoundary(d.text, Cursor(d, v)))
DeleteSelection(d, v) ==
    IF Selection(d, v) = <<>> THEN State(d, v)
    ELSE ApplyAt(d, v, Selection(d, v), <<>>)

\* To the end of the line, or the newline when the cursor is there; whatever is selected.
KillRange(d, c) ==
    LET end == ByteOf(d.text, LineEnd(d.text, LineStart(d, Row(d, c))))
    IN  <<c.cursor, IF c.cursor < end THEN end ELSE NextBoundary(d.text, c.cursor)>>
KilledText(d, v) ==
    LET r == KillRange(d, Clamp(d, v)) IN Slice(d.text, r[1], r[2])
KillLine(d, v) == DeleteAt(d, Clamp(d, v), KillRange(d, Clamp(d, v)))

AfterHistoryMove(d, v) == [v EXCEPT !.cursor = FloorBoundary(d.text, @), !.anchor = Off, !.goal = Off]
UndoEdit(d, v) ==
    IF d.past = <<>> THEN State(d, v)
    ELSE LET e == [d EXCEPT !.text = Last(d.past), !.past = Front(@), !.future = Append(@, d.text),
                            !.dirty = TRUE, !.rev = @ + 1]
         IN  State(e, AfterHistoryMove(e, v))
RedoEdit(d, v) ==
    IF d.future = <<>> THEN State(d, v)
    ELSE LET e == [d EXCEPT !.text = Last(d.future), !.future = Front(@), !.past = Append(@, d.text),
                            !.dirty = TRUE, !.rev = @ + 1]
         IN  State(e, AfterHistoryMove(e, v))

-----------------------------------------------------------------------------
(* Motions.                                                                *)

\* A motion clamps; it keeps or sets the anchor when it extends, and drops it otherwise.
StartMotion(d, v, extend) ==
    LET c == Clamp(d, v)
    IN  [c EXCEPT !.anchor = IF ~extend THEN Off ELSE IF @ = Off THEN c.cursor ELSE @]

MoveTo(d, v, extend, offset) == [StartMotion(d, v, extend) EXCEPT !.cursor = offset, !.goal = Off]

MoveLeft(d, v, extend) == MoveTo(d, v, extend, PrevBoundary(d.text, Cursor(d, v)))
MoveRight(d, v, extend) == MoveTo(d, v, extend, NextBoundary(d.text, Cursor(d, v)))
MoveLineStart(d, v, extend) == MoveTo(d, v, extend, ByteOf(d.text, LineStart(d, Row(d, v))))
MoveLineEnd(d, v, extend) ==
    MoveTo(d, v, extend, ByteOf(d.text, LineEnd(d.text, LineStart(d, Row(d, v)))))
SelectAll(d, v) == [v EXCEPT !.anchor = 0, !.cursor = Bytes(d.text), !.goal = Off]

\* Up and down aim at the column where the motion began.
MoveToRow(d, v, extend, row) ==
    LET m == StartMotion(d, v, extend)
        goal == IF m.goal = Off THEN Column(d, m) ELSE m.goal
        start == LineStart(d, row)
    IN  [m EXCEPT !.cursor = ByteOf(d.text, start + Smaller(goal, LineEnd(d.text, start) - start)),
                  !.goal = goal]

MoveUp(d, v, extend) ==
    IF Row(d, v) > 0 THEN MoveToRow(d, v, extend, Row(d, v) - 1) ELSE StartMotion(d, v, extend)
MoveDown(d, v, extend) ==
    IF Row(d, v) < LastRow(d) THEN MoveToRow(d, v, extend, Row(d, v) + 1) ELSE StartMotion(d, v, extend)
MovePageUp(d, v, rows) == MoveToRow(d, v, FALSE, Larger(Row(d, v) - Larger(rows, 1), 0))
MovePageDown(d, v, rows) == MoveToRow(d, v, FALSE, Smaller(Row(d, v) + Larger(rows, 1), LastRow(d)))

\* A sibling's edit carries the view along.
ShiftCursor(v, e) ==
    [v EXCEPT !.cursor = Rebase(@, "right", e), !.anchor = IF @ = Off THEN Off ELSE Rebase(@, "left", e)]
=============================================================================
