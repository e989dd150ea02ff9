----------------------------- MODULE EditorPane -----------------------------
(***************************************************************************)
(* An editor: a view of a document with its mode, its profile of keys, its *)
(* clipboard, its folds and hints, and the part of the text its pane shows *)
(* (majestic-core/editor.rs).  Operators on records; what an operation     *)
(* leads to is the document and the pane.                                  *)
(***************************************************************************)
EXTENDS TextView

Profiles == {"cua", "emacs", "vim", "spacemacs"}
Modal(e) == e.profile \in {"vim", "spacemacs"}
TabWidth == 2

NewEditor(doc) ==
    [doc |-> doc, view |-> NewView, mode |-> "insert", profile |-> "cua", clipboard |-> <<>>,
     top |-> 0, left |-> 0, rows |-> 1, folds |-> {}, folded |-> {}, hints |-> {},
     search |-> FALSE, quit |-> FALSE]

\* A second view of the same document: its own cursor, and the keys of a new editor.
ViewOf(e) == NewEditor(e.doc)

SetProfile(e, profile) ==
    [e EXCEPT !.profile = profile, !.mode = IF profile \in {"vim", "spacemacs"} THEN "normal" ELSE "insert"]
SetMode(e, mode) == IF Modal(e) THEN [e EXCEPT !.mode = mode] ELSE e
RestorePosition(d, e, cursor, top, left) ==
    [e EXCEPT !.view = SetCursor(d, @, cursor), !.top = top, !.left = left]

-----------------------------------------------------------------------------
(* Commands.                                                               *)

Did(d, e) == [doc |-> d, pane |-> e]
Edits(e, s) == Did(s.doc, [e EXCEPT !.view = s.view])
Moves(d, e, v) == Did(d, [e EXCEPT !.view = v])

Copy(d, e) ==
    IF Selection(d, e.view) = <<>> THEN e ELSE [e EXCEPT !.clipboard = SelectedText(d, e.view)]
Kill(d, e) ==
    IF KilledText(d, e.view) = <<>> THEN e ELSE [e EXCEPT !.clipboard = KilledText(d, e.view)]

MotionCommands == {"move-left", "move-right", "move-up", "move-down", "move-line-start", "move-line-end",
                   "page-up", "page-down", "select-left", "select-right", "select-up", "select-down",
                   "select-all"}
EditCommands == {"delete-backward", "delete-forward", "insert-newline", "indent", "undo", "redo", "cut",
                 "kill-line", "paste", "save"}
PaneCommands == {"copy", "enter-insert-mode", "enter-normal-mode", "enter-visual-mode", "profile-cua",
                 "profile-emacs", "profile-vim", "find", "quit"}
Commands == MotionCommands \cup EditCommands \cup PaneCommands

MotionOf(d, v, rows, c) ==
    CASE c = "move-left" -> MoveLeft(d, v, FALSE)
      [] c = "move-right" -> MoveRight(d, v, FALSE)
      [] c = "move-up" -> MoveUp(d, v, FALSE)
      [] c = "move-down" -> MoveDown(d, v, FALSE)
      [] c = "move-line-start" -> MoveLineStart(d, v, FALSE)
      [] c = "move-line-end" -> MoveLineEnd(d, v, FALSE)
      [] c = "page-up" -> MovePageUp(d, v, rows)
      [] c = "page-down" -> MovePageDown(d, v, rows)
      [] c = "select-left" -> MoveLeft(d, v, TRUE)
      [] c = "select-right" -> MoveRight(d, v, TRUE)
      [] c = "select-up" -> MoveUp(d, v, TRUE)
      [] c = "select-down" -> MoveDown(d, v, TRUE)
      [] c = "select-all" -> SelectAll(d, v)

EditOf(d, e, c) ==
    CASE c = "delete-backward" -> Edits(e, Backspace(d, e.view))
      [] c = "delete-forward" -> Edits(e, DeleteForward(d, e.view))
      [] c = "insert-newline" -> Edits(e, Insert(d, e.view, <<NL>>))
      [] c = "indent" -> Edits(e, Insert(d, e.view, [i \in 1..TabWidth |-> "space"]))
      [] c = "undo" -> Edits(e, UndoEdit(d, e.view))
      [] c = "redo" -> Edits(e, RedoEdit(d, e.view))
      [] c = "cut" -> Edits(Copy(d, e), DeleteSelection(d, e.view))
      [] c = "kill-line" -> Edits(Kill(d, e), KillLine(d, e.view))
      [] c = "save" -> Did([d EXCEPT !.dirty = @ /\ d.path = "none"], e)
      [] c = "paste" -> Edits(e, Insert(d, e.view, e.clipboard))

PaneOf(d, e, c) ==
    CASE c = "copy" -> Copy(d, e)
      [] c = "enter-insert-mode" -> SetMode(e, "insert")
      [] c = "enter-normal-mode" -> SetMode(e, "normal")
      [] c = "enter-visual-mode" -> SetMode(e, "visual")
      [] c = "profile-cua" -> SetProfile(e, "cua")
      [] c = "profile-emacs" -> SetProfile(e, "emacs")
      [] c = "profile-vim" -> SetProfile(e, "vim")
      [] c = "find" -> [e EXCEPT !.search = TRUE]
      [] c = "quit" -> [e EXCEPT !.quit = TRUE]

ExecuteIn(d, e, c) ==
    IF c \in MotionCommands THEN Moves(d, e, MotionOf(d, e.view, e.rows, c))
    ELSE IF c \in EditCommands THEN EditOf(d, e, c)
    ELSE Did(d, PaneOf(d, e, c))

\* A letter that no binding takes inserts itself where the mode says so.
SelfInsert(d, e, ch) == IF e.mode = "insert" THEN Edits(e, Insert(d, e.view, <<ch>>)) ELSE Did(d, e)

-----------------------------------------------------------------------------
(* Diagnostics and folds.                                                  *)

\* The next (previous) of some places behind (before) one, around the end.
NextAround(places, b) ==
    IF \E s \in places : s > b THEN Min({s \in places : s > b}) ELSE Min(places)
PrevAround(places, b) ==
    IF \E s \in places : s < b THEN Max({s \in places : s < b}) ELSE Max(places)

\* The cursor goes to a diagnostic.
GotoDiagnostic(d, e, starts, forward) ==
    LET from == Cursor(d, e.view)
    IN  [e EXCEPT !.view = SetCursor(d, @, IF forward THEN NextAround(starts, from) ELSE PrevAround(starts, from))]

Covers(range, b) == IF range[1] = range[2] THEN b = range[1] ELSE range[1] <= b /\ b < range[2]

\* A fold hides the lines behind its first.
Hides(fold, line) == fold[1] < line /\ line <= fold[2]
SetFolds(e, folds) ==
    LET kept == {f \in folds : f[2] > f[1]}
    IN  [e EXCEPT !.folds = kept, !.folded = @ \cap {f[1] : f \in kept}]

\* The innermost fold around the cursor; a cursor that would be hidden goes to its first line.
ToggleFold(d, e) ==
    LET line == Row(d, e.view)
        around == {f \in e.folds : f[1] <= line /\ line <= f[2]}
        start == Max({f[1] : f \in around})
    IN  IF around = {} THEN e
        ELSE IF start \in e.folded THEN [e EXCEPT !.folded = @ \ {start}]
        ELSE [e EXCEPT !.folded = @ \cup {start},
                       !.view = IF line > start THEN SetCursor(d, @, ByteOf(d.text, LineStart(d, start))) ELSE @]

Hidden(e, line) == \E f \in e.folds : f[1] \in e.folded /\ Hides(f, line)
NextVisible(e, line) ==
    Min({n \in line + 1..Max({line} \cup {f[2] : f \in e.folds}) + 1 : ~Hidden(e, n)})

\* The rows that lines take from one on (shown, hidden or not) up to another.
VisibleFrom(e, from, line) == Cardinality({n \in from..line - 1 : n = from \/ ~Hidden(e, n)})
VisibleRowsTo(e, line) == VisibleFrom(e, e.top, line)

-----------------------------------------------------------------------------
(* What is drawn: rows and columns of the text area.                       *)

Cells(c) == IF c = "w" THEN 2 ELSE 1
CellsOf(t) == Len(t) + Cardinality({i \in DOMAIN t : t[i] = "w"})
LineText(d, row) ==
    SubSeq(d.text, LineStart(d, row) + 1, LineEnd(d.text, LineStart(d, row)))

HintWidth(e, lo, hi) == Cardinality({h \in e.hints : lo <= h /\ h <= hi})

\* The column of the cursor: the characters before it, and the hints up to it.
CursorColumn(d, e) ==
    LET before == SubSeq(LineText(d, Row(d, e.view)), 1, Column(d, e.view))
        start == ByteOf(d.text, LineStart(d, Row(d, e.view)))
    IN  CellsOf(before) + HintWidth(e, start, Cursor(d, e.view))

\* From one visible line to the next, until the line is in the pane.
ScrollDown(e, line, rows) ==
    Min({n \in e.top..NextVisible(e, line - 1) : (n = e.top \/ ~Hidden(e, n)) /\ VisibleFrom(e, n, line) < rows})

EnsureCursorVisible(d, e, rows, cols) ==
    LET row == Row(d, e.view)
        col == CursorColumn(d, e)
    IN  [e EXCEPT !.top = IF rows = 0 THEN @ ELSE IF row < @ THEN row ELSE ScrollDown(e, row, rows),
                  !.left = IF cols = 0 THEN @ ELSE IF col < @ THEN col
                           ELSE IF col >= @ + cols THEN col + 1 - cols ELSE @]

\* Lines are numbered in a gutter of at least two digits and a space.
Gutter(d) == IF LastRow(d) + 1 < 100 THEN 3 ELSE 4

\* A pane of width x height is drawn: it scrolls to its cursor.
RenderIn(d, e, width, height) ==
    IF width = 0 \/ height = 0 THEN e
    ELSE EnsureCursorVisible(d, [e EXCEPT !.rows = height], height, Larger(width - Gutter(d), 0))

\* Where the cursor is drawn, or nothing.
CursorScreenPosition(d, e, width, height) ==
    LET row == Row(d, e.view)
        col == CursorColumn(d, e) - e.left
    IN  IF \/ row < e.top \/ VisibleRowsTo(e, row) >= height
           \/ col < 0 \/ col >= Larger(width - Gutter(d), 0) THEN <<>>
        ELSE <<col, VisibleRowsTo(e, row)>>

\* What stands before each character of a line, and where the line ends: a hint stands
\* before the character at its byte.
ColumnsOf(d, e, row) ==
    LET start == LineStart(d, row)
        hint(i) == Cardinality({h \in e.hints : h = ByteOf(d.text, i)})
        col[n \in 0..Len(LineText(d, row))] ==
            IF n = 0 THEN hint(start) ELSE col[n - 1] + Cells(d.text[start + n]) + hint(start + n)
    IN  col

\* The lines of the rows of the pane, from the top, as far as there are lines.
LinesFrom(e, height) ==
    LET line[k \in 1..height] == IF k = 1 THEN e.top ELSE NextVisible(e, line[k - 1]) IN line
RenderLines(d, e, height) ==
    [k \in {k \in 1..height : LinesFrom(e, height)[k] <= LastRow(d)} |-> LinesFrom(e, height)[k]]
=============================================================================
