---------------------------- MODULE FrameLayout ----------------------------
(***************************************************************************)
(* How a frame of the terminal front-end is divided: the status row, the   *)
(* file sidebar on the left, the agent's panel on the right, and in the    *)
(* rest either a reader, or the editor with the shell below it or in the   *)
(* drop-down pane above it.  Each has a least size under which it is left  *)
(* out.  And how the boxes that open at the cursor of the active pane are  *)
(* placed: the four lists (completions, references, symbols, code          *)
(* actions), the hover text and the signature of the call being typed.     *)
(* Only what a box covers and which of its rows are drawn is modelled, not *)
(* colours and titles.                                                     *)
(***************************************************************************)
EXTENDS TextBytes

CONSTANTS
    FrameWidths, FrameHeights,  \* bound: the sizes of the window
    PopupRows,      \* bound: how many items, or lines, a box is opened with
    PopupWidths,    \* bound: how wide the widest of them is
    PopupPanes      \* bound: the panes [x, y, width, height] a box opens in

ASSUME FrameAssumption == FrameWidths \cup FrameHeights \subseteq Nat

ASSUME PopupAssumption ==
    /\ PopupRows \cup PopupWidths \subseteq Nat
    /\ PopupPanes \subseteq [x : Nat, y : Nat, width : Nat, height : Nat]

VARIABLES
    box             \* the open box: kind, rows, the widest row, and the row selected (a
                    \* list), scrolled to (hover) or 0 (signature)

popupVars == <<box>>

-----------------------------------------------------------------------------
(* Rectangles (penumbra/layout.rs): x, y, width, height.                   *)

Rect(x, y, w, h) == [x |-> x, y |-> y, w |-> w, h |-> h]
SplitTop(r, n) == <<Rect(r.x, r.y, r.w, Smaller(n, r.h)),
                    Rect(r.x, r.y + Smaller(n, r.h), r.w, r.h - Smaller(n, r.h))>>
SplitBottom(r, n) == SplitTop(r, r.h - Smaller(n, r.h))
SplitLeft(r, n) == <<Rect(r.x, r.y, Smaller(n, r.w), r.h),
                     Rect(r.x + Smaller(n, r.w), r.y, r.w - Smaller(n, r.w), r.h)>>
Inside(r) == {<<x, y>> : x \in r.x..r.x + r.w - 1, y \in r.y..r.y + r.h - 1}

-----------------------------------------------------------------------------
(* The regions of a frame.                                                 *)

SidebarCols == 28
AgentCols == 36
MinMainCols == 24
PanelRows == 10
DropDownRows == 12
MinEditorRows == 3

\* What the application shows: the sidebar, the agent, a reader over the editor (the
\* preview, Git or Info), a shell, the shell in the drop-down pane, its prompt.
Views == [sidebar : BOOLEAN, agent : BOOLEAN, reader : BOOLEAN, shell : BOOLEAN,
          dropDown : BOOLEAN, prompt : BOOLEAN]

\* The columns a side panel gets beside the main area and the rule between them.
SideCols(wanted, body) == Smaller(wanted, IF body.w > MinMainCols + 1 THEN body.w - (MinMainCols + 1) ELSE 0)

\* Regions with others beside them (an operator of its own: the provers do not expand @@).
Beside(f, g) == [r \in DOMAIN f \cup DOMAIN g |-> IF r \in DOMAIN f THEN f[r] ELSE g[r]]

\* The regions of a frame by name.  The sidebar takes its columns first.
Sidebar(view, body) ==
    LET cols == IF view.sidebar THEN SideCols(SidebarCols, body) ELSE 0
        split == SplitLeft(body, cols)
        rest == SplitLeft(split[2], 1)
    IN  IF cols = 0 THEN [main |-> body]
        ELSE [sidebar |-> split[1], rule |-> rest[1], main |-> rest[2]]

AgentPanel(view, body) ==
    LET cols == IF view.agent THEN SideCols(AgentCols, body) ELSE 0
        split == SplitLeft(body, body.w - cols - 1)
        block == SplitLeft(split[2], 1)
    IN  IF cols = 0 THEN [main |-> body]
        ELSE [main |-> split[1], agentRule |-> block[1], agent |-> block[2]]

\* The drop-down pane: a header, the shell and, while a request is typed, its row.
DropDown(view, main) ==
    LET split == SplitTop(main, Smaller(DropDownRows, main.h - (MinEditorRows + 1)))
        pane == SplitTop(split[1], 1)
        input == SplitBottom(pane[2], 1)
    IN  Beside([editor |-> split[2], header |-> pane[1]],
               IF view.prompt THEN [shell |-> input[1], prompt |-> input[2]] ELSE [shell |-> pane[2]])

\* Mutant of BottomPanel: does not count the row of the tab.
BottomPanelTight(main) ==
    LET split == SplitBottom(main, Smaller(PanelRows, main.h - MinEditorRows) + 1)
        panel == SplitTop(split[2], 1)
    IN  [editor |-> split[1], tab |-> panel[1], shell |-> panel[2]]

\* The panel below the editor, under its tab.
BottomPanel(main) ==
    LET split == SplitBottom(main, Smaller(PanelRows, main.h - (MinEditorRows + 1)) + 1)
        panel == SplitTop(split[2], 1)
    IN  [editor |-> split[1], tab |-> panel[1], shell |-> panel[2]]

MainArea(view, main) ==
    IF view.reader THEN [reader |-> main]
    ELSE IF view.dropDown /\ view.shell /\ main.h > MinEditorRows + 3 THEN DropDown(view, main)
    ELSE IF view.shell /\ main.h > MinEditorRows + 1 THEN BottomPanel(main)
    ELSE [editor |-> main]

Others(regions) == [r \in DOMAIN regions \ {"main"} |-> regions[r]]

Frame(view, width, height) ==
    LET rows == SplitBottom(Rect(0, 0, width, height), 1)
        left == Sidebar(view, rows[1])
        right == AgentPanel(view, left.main)
    IN  Beside(Beside(Beside([status |-> rows[2]], Others(left)), Others(right)), MainArea(view, right.main))

-----------------------------------------------------------------------------
\* Whatever is switched on and however small the window, the regions of a frame do not
\* overlap and leave no cell out; a shell has a grid of at least one row and leaves the
\* editor its three, and side panels leave the rest its columns.
FramesFit ==
    \A view \in Views, width \in FrameWidths, height \in FrameHeights :
        \A f \in {Frame(view, width, height)} :
        LET main == IF view.reader THEN f.reader ELSE f.editor
        IN  /\ \A r, s \in DOMAIN f :
                  r # s => f[r].w * f[r].h = 0 \/ f[s].w * f[s].h = 0
                           \/ f[r].x + f[r].w <= f[s].x \/ f[s].x + f[s].w <= f[r].x
                           \/ f[r].y + f[r].h <= f[s].y \/ f[s].y + f[s].h <= f[r].y
            /\ UNION {Inside(f[r]) : r \in DOMAIN f} = Inside(Rect(0, 0, width, height))
            /\ "shell" \in DOMAIN f => f.shell.h >= 1 /\ main.h >= MinEditorRows
            /\ {"sidebar", "agent"} \cap DOMAIN f # {} => main.w >= MinMainCols

-----------------------------------------------------------------------------
(* The boxes at the cursor.                                                *)

\* The least and the most columns of a box of each kind, and its most rows.
Completion == [rows |-> 10, low |-> 14, high |-> 48]
References == [rows |-> 12, low |-> 20, high |-> 64]
Symbols == [rows |-> 14, low |-> 18, high |-> 56]
CodeActions == [rows |-> 10, low |-> 20, high |-> 60]
Hover == [rows |-> 12, low |-> 14, high |-> 72]
Signature == [rows |-> 8, low |-> 14, high |-> 72]
Limits == [completion |-> Completion, references |-> References, symbols |-> Symbols,
           actions |-> CodeActions, hover |-> Hover, signature |-> Signature]

BoxWidth(b, pane) ==
    Smaller(Smaller(Larger(b.wide + 2, Limits[b.kind].low), Limits[b.kind].high), pane.width)

\* A signature is one label, wrapped to the width of its box.
WrappedRows(b, pane) == LET inner == BoxWidth(b, pane) - 2 IN (b.wide + inner - 1) \div inner
BoxRows(b, pane) ==
    Smaller(Limits[b.kind].rows,
          IF b.kind = "signature" THEN Larger(WrappedRows(b, pane), 1) ELSE b.rows)

\* A list without an item and a blank label do not open, and neither does a box for which
\* the pane is too small.
Opens(b, pane) ==
    /\ b.rows > 0 /\ (b.kind = "signature" => b.wide > 0)
    /\ pane.width >= Limits[b.kind].low /\ pane.height >= 3

\* Mutant of BelowFirst: does not count the border when it looks for room.
BelowTight(cy, height, pane) ==
    IF cy + height - 1 <= pane.y + pane.height THEN cy + 1
    ELSE Larger(Larger(cy - height, 0), pane.y)

\* A list and a hover open below the cursor, above it where the pane ends too soon; a
\* signature opens above, below where there is no room, else at the top of the pane.
BelowFirst(cy, height, pane) ==
    IF cy + 1 + height <= pane.y + pane.height THEN cy + 1
    ELSE Larger(Larger(cy - height, 0), pane.y)
AboveFirst(cy, height, pane) ==
    IF cy >= pane.y + height THEN cy - height
    ELSE IF cy + 1 + height <= pane.y + pane.height THEN cy + 1
    ELSE pane.y

Placed(b, pane, cx, cy) ==
    LET height == BoxRows(b, pane) + 2
        width == BoxWidth(b, pane)
    IN  [x |-> Smaller(cx, pane.x + pane.width - width),
         y |-> IF b.kind = "signature" THEN AboveFirst(cy, height, pane)
               ELSE BelowFirst(cy, height, pane),
         width |-> width, height |-> height]

\* The first row a box shows.
PopupStart(b, inner) ==
    IF b.kind = "hover" THEN Smaller(b.at, Larger(b.rows - 1, 0))
    ELSE IF b.kind = "signature" \/ inner = 0 \/ b.at < inner THEN 0
    ELSE b.at + 1 - inner

\* The screen rows on which the rows of a box are drawn.
DrawnAt(b, pane, cx, cy) ==
    LET p == Placed(b, pane, cx, cy)
        start == PopupStart(b, p.height - 2)
        count == IF b.kind = "signature" THEN WrappedRows(b, pane) ELSE b.rows
    IN  [i \in {k \in start .. start + p.height - 3 : k < count} |-> p.y + 1 + i - start]

PopupInit == box \in {[kind |-> k, rows |-> n, wide |-> w, at |-> 0] :
                         k \in DOMAIN Limits, n \in PopupRows, w \in PopupWidths}

PopupUp ==
    /\ box.kind # "signature" /\ box.at > 0
    /\ box' = [box EXCEPT !.at = @ - 1]

PopupDown ==
    /\ box.kind # "signature" /\ box.at + 1 < box.rows
    /\ box' = [box EXCEPT !.at = @ + 1]

PopupNext == PopupUp \/ PopupDown

-----------------------------------------------------------------------------
\* In a pane that is tall enough for it, wherever the cursor stands, a box stays inside
\* the pane, shows the row that Enter would take, leaves no list row blank that a row
\* could fill, and covers the cursor only if it fits neither below it nor above it.
PopupShowsTheSelection ==
    \A pane \in PopupPanes : Opens(box, pane) =>
       \A cx \in pane.x .. pane.x + pane.width - 1, cy \in pane.y .. pane.y + pane.height - 1 :
       \A p \in {Placed(box, pane, cx, cy)}, drawn \in {DrawnAt(box, pane, cx, cy)} :
          LET fits == \/ cy + 1 + p.height <= pane.y + pane.height
                      \/ cy - p.height >= pane.y
          IN  /\ p.x >= pane.x /\ p.x + p.width <= pane.x + pane.width
              /\ p.height <= pane.height =>
                    /\ p.y >= pane.y /\ p.y + p.height <= pane.y + pane.height
                    /\ box.at \in DOMAIN drawn
                    /\ \A i \in DOMAIN drawn : drawn[i] \in p.y + 1 .. p.y + p.height - 2
                    /\ box.kind \notin {"hover", "signature"} =>
                          Cardinality(DOMAIN drawn) = p.height - 2
              /\ fits => cy \notin p.y .. p.y + p.height - 1
=============================================================================
