------------------------------ MODULE Windows ------------------------------
(***************************************************************************)
(* The tree of panes of a workspace (majestic-core/workspace.rs: Node),    *)
(* the rectangles it is laid out in, and the form in which a session keeps *)
(* it (majestic-core/session.rs).                                          *)
(*                                                                         *)
(* The tree is written as its leaves from left to right, each with the way *)
(* to it from the root: at every split on the way how it divides, and on   *)
(* which side of it the leaf is.  Leaves name editors and are counted from *)
(* 0; those under one split agree on the way to it.                        *)
(***************************************************************************)
EXTENDS FrameLayout

Leaf(editor, way) == [editor |-> editor, way |-> way]
Turn(dir, ratio, side) == [dir |-> dir, ratio |-> ratio, side |-> side]
OnePane(editor) == <<Leaf(editor, <<>>)>>

CollectEditors(tree) == [n \in DOMAIN tree |-> tree[n].editor]
LeafCount(tree) == Len(tree)
NthEditor(tree, n) == tree[n + 1].editor
SetNthEditor(tree, n, editor) == [tree EXCEPT ![n + 1].editor = editor]

\* A leaf becomes a split of itself and a new leaf.
SplitLeaf(tree, n, dir, new) ==
    LET under(side) == Append(tree[n + 1].way, Turn(dir, 50, side))
    IN  SubSeq(tree, 1, n)
        \o <<Leaf(NthEditor(tree, n), under("first")), Leaf(new, under("second"))>>
        \o SubSeq(tree, n + 2, Len(tree))

\* Mutant of RemapEditors: the editors behind the removed one keep their numbers.
RemapOnlyRemoved(tree, removed, replacement) ==
    [n \in DOMAIN tree |->
        [tree[n] EXCEPT !.editor = IF @ = removed THEN replacement ELSE @]]

\* An editor was removed from the list: those behind it move up, its own panes show another.
RemapEditors(tree, removed, replacement) ==
    [n \in DOMAIN tree |->
        [tree[n] EXCEPT !.editor = IF @ = removed THEN replacement ELSE IF @ > removed THEN @ - 1 ELSE @]]

\* A way that goes through the split right above the leaf at another.
Through(way, to) == Len(way) >= Len(to) /\ Front(SubSeq(way, 1, Len(to))) = Front(to)

\* The sibling of a removed leaf takes its parent's place.
RemoveLeaf(tree, n) ==
    LET to == tree[n + 1].way
        rest == RemoveAt(tree, n + 1)
    IN  IF to = <<>> THEN tree
        ELSE [m \in DOMAIN rest |->
                 IF Through(rest[m].way, to) THEN [rest[m] EXCEPT !.way = RemoveAt(@, Len(to))] ELSE rest[m]]

Adjust(ratio, increase) == IF increase THEN Smaller(ratio + 6, 90) ELSE Larger(ratio - 6, 10)

\* The split right above a leaf gives it more room, or less.
ResizeLeaf(tree, n, grow) ==
    LET to == tree[n + 1].way
        adjusted(ratio) == Adjust(ratio, grow = (Last(to).side = "first"))
    IN  IF to = <<>> THEN tree
        ELSE [m \in DOMAIN tree |->
                 IF Through(tree[m].way, to) THEN [tree[m] EXCEPT !.way[Len(to)].ratio = adjusted(@)]
                 ELSE tree[m]]

-----------------------------------------------------------------------------
(* The rectangles of the panes in the area they share.                     *)

\* A share of what is there, but for one at least and one left to the other.
FirstSize(span, ratio) == Larger(Smaller((span * ratio) \div 100, span - 1), 1)

\* First pane, rule and second pane; a rule needs three cells, two panes need two.
SplitArea(r, dir, ratio) ==
    LET size == IF dir = "columns" THEN r.w ELSE r.h
        rule == IF size >= 3 THEN 1 ELSE 0
        first == IF size < 2 THEN size ELSE FirstSize(size - rule, ratio)
        cut(rect, n) == IF dir = "columns" THEN SplitLeft(rect, n) ELSE SplitTop(rect, n)
        rest == cut(r, first)[2]
    IN  [first |-> cut(r, first)[1], rule |-> cut(rest, IF size < 2 THEN 0 ELSE rule)[1],
         second |-> cut(rest, IF size < 2 THEN 0 ELSE rule)[2]]

\* Where a way through an area leads.
RectAt(area, way) ==
    LET rect[k \in 0..Len(way)] ==
            IF k = 0 THEN area ELSE SplitArea(rect[k - 1], way[k].dir, way[k].ratio)[way[k].side]
    IN  rect[Len(way)]

\* The splits of a tree: the way to each, and how it divides.
Splits(tree) ==
    UNION {{[to |-> SubSeq(tree[n].way, 1, k - 1), dir |-> tree[n].way[k].dir, ratio |-> tree[n].way[k].ratio] :
               k \in DOMAIN tree[n].way} : n \in DOMAIN tree}

\* The rectangles of the leaves, and the rules between them.
Layout(tree, area) ==
    [panes |-> [n \in DOMAIN tree |-> RectAt(area, tree[n].way)],
     rules |-> [s \in Splits(tree) |-> SplitArea(RectAt(area, s.to), s.dir, s.ratio).rule]]

-----------------------------------------------------------------------------
(* Sessions.  The leaves of a session's layout are the places of its list  *)
(* of panes.                                                               *)

NodeToLayout(tree) == [n \in DOMAIN tree |-> Leaf(n, tree[n].way)]
=============================================================================
