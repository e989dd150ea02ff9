----------------------------- MODULE ScreenDiff -----------------------------
(***************************************************************************)
(* The screen is drawn whole into a back buffer, compared with the frame   *)
(* that was shown last, and only the cells that differ are written to the  *)
(* terminal.  A wide glyph takes two cells: its own and a continuation     *)
(* that is never written.  The terminal is the world: it puts a glyph at   *)
(* its cursor, and what is left of a wide glyph it has overwritten by half *)
(* is anything.                                                            *)
(***************************************************************************)
EXTENDS Integers, Sequences, FiniteSets

CONSTANTS
    ScreenSizes,    \* bound: the sizes [width, height] of the terminal's window
    Drawings        \* bound: what a frame draws, as sequences of [x, y, text, style]

\* A text holds no continuation (a NUL is written as a space), and "none" is no style.
ASSUME ScreenAssumption ==
    /\ ScreenSizes \subseteq [width : Nat, height : Nat]
    /\ Drawings \subseteq Seq([x : Nat, y : Nat, text : Seq(STRING), style : STRING])
    /\ \A d \in Drawings : \A n \in DOMAIN d :
          d[n].style # "none" /\ \A i \in DOMAIN d[n].text : d[n].text[i] # "continuation"

VARIABLES
    front,          \* the frame that was shown last
    shown           \* what the terminal shows

screenVars == <<front, shown>>

Continuation == "continuation"
GlyphWidth(c) == IF c = "W" THEN 2 ELSE 1
Cell(c, style) == [symbol |-> c, style |-> style]
BaseCell == Cell("blank", "base")
Unknown == Cell("unknown", "unknown")

\* A buffer is a size and its cells.
Places2(size) == (0 .. size.width - 1) \X (0 .. size.height - 1)
BlankBuffer(size) == [size |-> size, cells |-> [p \in Places2(size) |-> BaseCell]]

SetCell(buffer, x, y, cell) ==
    IF <<x, y>> \in DOMAIN buffer.cells THEN [buffer EXCEPT !.cells[<<x, y>>] = cell]
    ELSE buffer

SetChar(buffer, x, y, c, style) ==
    LET set == SetCell(buffer, x, y, Cell(c, style))
    IN  IF GlyphWidth(c) = 2 THEN SetCell(set, x + 1, y, Cell(Continuation, style)) ELSE set

\* Writing a text stops at the end of the row.
NextChar(d, p, n) ==
    IF p.x >= p.buffer.size.width THEN p
    ELSE [buffer |-> SetChar(p.buffer, p.x, d.y, d.text[n], d.style),
          x |-> p.x + GlyphWidth(d.text[n])]

SetStr(buffer, d) ==
    LET put[n \in 0 .. Len(d.text)] ==
            IF n = 0 THEN [buffer |-> buffer, x |-> d.x] ELSE NextChar(d, put[n - 1], n)
    IN  put[Len(d.text)].buffer

Drawn(size, drawing) ==
    LET f[n \in 0 .. Len(drawing)] ==
            IF n = 0 THEN BlankBuffer(size) ELSE SetStr(f[n - 1], drawing[n])
    IN  f[Len(drawing)]

\* The terminal puts a glyph at its cursor, in its style.  Half of a wide glyph that
\* stays behind is not a glyph any more.
PutGlyph(t, c) ==
    LET x == t.at[1]  y == t.at[2]
        after == x + GlyphWidth(c)
        isRest(p) == p \in DOMAIN t.cells /\ t.cells[p].symbol = Continuation
        cut == (IF isRest(<<x, y>>) THEN {<<x - 1, y>>} ELSE {})
               \cup (IF isRest(<<after, y>>) THEN {<<after, y>>} ELSE {})
        rest == IF after = x + 2 THEN {<<x + 1, y>>} ELSE {}
    IN  [t EXCEPT !.at = <<after, y>>,
             !.cells = [p \in DOMAIN @ |->
                 IF p = <<x, y>> THEN Cell(c, t.style)
                 ELSE IF p \in rest THEN Cell(Continuation, t.style)
                 ELSE IF p \in cut THEN Unknown ELSE @[p]]]

\* Mutant of EmitCell: believes that every glyph moves the cursor by one column.
EmitNarrow(prev, next, r, p) ==
    LET cell == next.cells[p]
        moved == IF r.cursor = p THEN r.terminal ELSE [r.terminal EXCEPT !.at = p]
        changed == prev.size # next.size \/ prev.cells[p] # cell
    IN  IF cell.symbol = Continuation \/ ~changed THEN r
        ELSE [terminal |-> PutGlyph([moved EXCEPT !.style = cell.style], cell.symbol),
              current |-> cell.style, cursor |-> <<p[1] + 1, p[2]>>]

\* One cell of the frame: skipped if it is a continuation or has not changed; else the
\* cursor is moved unless it is there, the style set unless it is on, the glyph written.
\* r holds the terminal and what the renderer believes of its cursor and style.
EmitCell(prev, next, r, p) ==
    LET cell == next.cells[p]
        moved == IF r.cursor = p THEN r.terminal ELSE [r.terminal EXCEPT !.at = p]
        styled == IF r.current = cell.style THEN moved
                  ELSE [moved EXCEPT !.style = cell.style]
        nextX == p[1] + GlyphWidth(cell.symbol)
        changed == prev.size # next.size \/ prev.cells[p] # cell
    IN  IF cell.symbol = Continuation \/ ~changed THEN r
        ELSE [terminal |-> PutGlyph(styled, cell.symbol), current |-> cell.style,
              cursor |-> IF nextX < next.size.width THEN <<nextX, p[2]>> ELSE <<>>]

\* The renderer begins without a belief, on a screen that it clears when the size is new.
Beginning(prev, next, cells) ==
    LET cleared == IF prev.size # next.size THEN BlankBuffer(next.size).cells ELSE cells
    IN  [terminal |-> [cells |-> cleared, at |-> <<0, 0>>, style |-> "unknown"],
         cursor |-> <<>>, current |-> "none"]

\* The n-th cell, row by row.
NthPlace(size, n) == <<(n - 1) % size.width, (n - 1) \div size.width>>

Emitted(prev, next, cells) ==
    LET f[n \in 0 .. next.size.width * next.size.height] ==
            IF n = 0 THEN Beginning(prev, next, cells)
            ELSE EmitCell(prev, next, f[n - 1], NthPlace(next.size, n))
    IN  f[next.size.width * next.size.height].terminal.cells

-----------------------------------------------------------------------------
ScreenInit ==
    \E size \in ScreenSizes :
        front = BlankBuffer(size) /\ shown = BlankBuffer(size).cells

\* A frame is drawn, and what differs from the last one is written.
Present ==
    \E drawing \in Drawings :
        LET frame == Drawn(front.size, drawing)
        IN  front' = frame /\ shown' = Emitted(front, frame, shown)

\* The window changes: both buffers are emptied, the terminal keeps what it shows.
ResizeScreen ==
    \E size \in ScreenSizes \ {front.size} :
        /\ front' = BlankBuffer(size)
        /\ shown' = [p \in Places2(size) |-> IF p \in DOMAIN shown THEN shown[p] ELSE BaseCell]

ScreenNext == Present \/ ResizeScreen

-----------------------------------------------------------------------------
Wrong == {p \in DOMAIN shown : shown[p] # front.cells[p]}

\* Half of a wide glyph, the other half of which was drawn over.
CellAt(cells, x, y) == IF <<x, y>> \in DOMAIN cells THEN cells[<<x, y>>] ELSE BaseCell
Cut(cells, x, y) ==
    \/ CellAt(cells, x, y).symbol = Continuation /\ CellAt(cells, x - 1, y).symbol # "W"
    \/ CellAt(cells, x, y).symbol = "W" /\ CellAt(cells, x + 1, y).symbol # Continuation

\* Such halves, and the two cells to the right of one: a wide glyph that was cut covers the
\* next one, which may be wide itself and lose its own half.
NearCut(frame) ==
    {p \in DOMAIN frame.cells : \E d \in 0 .. 2 : Cut(frame.cells, p[1] - d, p[2])}

\* Writing only what changed shows the frame: a cell comes out wrong only if it was wrong
\* before, or if one of the two frames draws over half of a wide glyph there or just to the
\* left.
FrameIsShown ==
    front'.size = front.size =>
       Wrong' \subseteq Wrong \cup NearCut(front) \cup NearCut(front')
=============================================================================
