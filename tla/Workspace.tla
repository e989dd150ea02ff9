----------------------------- MODULE Workspace -----------------------------
(***************************************************************************)
(* The workspace (majestic-core/workspace.rs): open editors, the tree of   *)
(* panes that show some of them, the focused pane, the shared clipboard.   *)
(* A key is a window command, or goes to the editor in the focused pane;   *)
(* edits are then handed to the sibling views of the document.             *)
(*                                                                         *)
(* Simplifications: a key stands for the command it is bound to (KeyMaps   *)
(* has the way there); files have one fixed content, and saving leaves it  *)
(* as it is in the session that is restored.                               *)
(***************************************************************************)
EXTENDS EditorPane, Windows

CONSTANTS
    Files,          \* the texts of the files that can be opened, by path
    Letters,        \* letters that are typed
    MaxKeys,        \* bound: operations
    MaxChars,       \* bound: characters of a document
    MaxEditors,     \* bound: editors
    Body            \* width and height of the area of the panes

ASSUME WorkspaceAssumption ==
    /\ MaxKeys \in Nat /\ MaxChars \in Nat /\ MaxEditors \in Nat /\ Body \in Nat \X Nat
    /\ \A p \in DOMAIN Files : Files[p] \in Seq(ToSet(Files[p]))

VARIABLES
    docs,           \* documents, shared by the views of them
    editors,        \* the open editors, in the order of the tabs
    root,           \* the tree of panes
    focused,        \* the pane with the focus, from 0
    clipboard, profile, quit,
    keys            \* operations so far (bounds the run)

wsVars == <<docs, editors, root, focused, clipboard, profile, quit, keys>>

Scratch == "none"
ActiveIndex == NthEditor(root, focused)
Active == editors[ActiveIndex]
ActiveDoc == docs[Active.doc]
PathOf(i) == docs[editors[i].doc].path

WorkspaceInit ==
    /\ \E p \in DOMAIN Files : docs = <<NewDoc(p, Files[p])>>
    /\ editors = <<NewEditor(1)>> /\ root = OnePane(1) /\ focused = 0
    /\ clipboard = <<>> /\ profile = "cua" /\ quit = FALSE /\ keys = 0

Operation == keys < MaxKeys /\ ~quit /\ keys' = keys + 1

-----------------------------------------------------------------------------
(* Keys of an editor.                                                      *)

\* Mutant of HandOn: views that no pane shows are left out.
HandToShown(source, es) ==
    [i \in DOMAIN es |->
        IF i = source THEN [es[i] EXCEPT !.view.lastEdit = <<>>]
        ELSE IF /\ es[i].doc = es[source].doc /\ es[source].view.lastEdit # <<>>
                /\ i \in ToSet(CollectEditors(root))
             THEN [es[i] EXCEPT !.view = ShiftCursor(@, es[source].view.lastEdit[1])]
             ELSE es[i]]

\* The other views of the document follow the edit that one of them made and keeps.
HandOn(source, es) ==
    [i \in DOMAIN es |->
        IF i = source THEN [es[i] EXCEPT !.view.lastEdit = <<>>]
        ELSE IF es[i].doc = es[source].doc /\ es[source].view.lastEdit # <<>>
             THEN [es[i] EXCEPT !.view = ShiftCursor(@, es[source].view.lastEdit[1])]
             ELSE es[i]]

\* Every view's edit is handed on, in the order of the tabs.
PropagateEdits(es) ==
    LET handed[n \in 0..Len(es)] == IF n = 0 THEN es ELSE HandOn(n, handed[n - 1])
    IN  handed[Len(es)]

\* What an operation of the active editor leads to becomes the state.
Become(did) ==
    /\ docs' = [docs EXCEPT ![Active.doc] = did.doc]
    /\ editors' = PropagateEdits([editors EXCEPT ![ActiveIndex] = did.pane])
    /\ Len(did.doc.text) <= MaxChars

\* A clipboard that differs from the shared one is shared.
SyncClipboard(es) == [i \in DOMAIN es |-> [es[i] EXCEPT !.clipboard = es[ActiveIndex].clipboard]]

HandleKey(did) ==
    /\ Operation
    /\ docs' = [docs EXCEPT ![Active.doc] = did.doc]
    /\ Len(did.doc.text) <= MaxChars
    /\ LET es == [editors EXCEPT ![ActiveIndex] = did.pane]
           shared == IF did.pane.clipboard = clipboard THEN es ELSE SyncClipboard(es)
       IN  editors' = PropagateEdits(shared)
    /\ clipboard' = did.pane.clipboard
    /\ quit' = did.pane.quit
    /\ UNCHANGED <<root, focused, profile>>

TypeLetter == \E ch \in Letters : HandleKey(SelfInsert(ActiveDoc, Active, ch))
CommandKey == \E c \in Commands \ {"page-up", "page-down"} : HandleKey(ExecuteIn(ActiveDoc, Active, c))
PageKey == \E c \in {"page-up", "page-down"} : HandleKey(ExecuteIn(ActiveDoc, Active, c))

-----------------------------------------------------------------------------
(* Window commands.                                                        *)

SplitFocused ==
    /\ Operation /\ Len(editors) < MaxEditors
    /\ editors' = Append(editors, [ViewOf(Active) EXCEPT !.clipboard = clipboard])
    /\ \E dir \in {"columns", "rows"} : root' = SplitLeaf(root, focused, dir, Len(editors) + 1)
    /\ focused' = focused + 1
    /\ UNCHANGED <<docs, clipboard, profile, quit>>

FocusNext ==
    /\ Operation /\ focused' = (focused + 1) % LeafCount(root)
    /\ UNCHANGED <<docs, editors, root, clipboard, profile, quit>>

Resize ==
    /\ Operation
    /\ \E grow \in BOOLEAN : root' = ResizeLeaf(root, focused, grow)
    /\ UNCHANGED <<docs, editors, focused, clipboard, profile, quit>>

ShownElsewhere(i) == \E n \in 0..LeafCount(root) - 1 : n # focused /\ NthEditor(root, n) = i

\* Round the editors that no other pane shows.
CycleBuffer(forward) ==
    /\ Operation
    /\ LET candidates == {i \in DOMAIN editors : i = ActiveIndex \/ ~ShownElsewhere(i)}
           next == IF forward THEN NextAround(candidates, ActiveIndex) ELSE PrevAround(candidates, ActiveIndex)
       IN  root' = SetNthEditor(root, focused, next)
    /\ UNCHANGED <<docs, editors, focused, clipboard, profile, quit>>

\* The last editor is replaced by an empty one; another is removed from all panes.
CloseActiveBuffer ==
    /\ Operation
    /\ IF Len(editors) = 1
       THEN /\ docs' = Append(docs, NewDoc(Scratch, <<>>))
            /\ editors' = <<SetProfile(NewEditor(Len(docs) + 1), profile)>>
            /\ UNCHANGED root
       ELSE /\ editors' = RemoveAt(editors, ActiveIndex)
            /\ root' = RemapEditors(root, ActiveIndex, Smaller(ActiveIndex, Len(editors) - 1))
            /\ UNCHANGED docs
    /\ UNCHANGED <<focused, clipboard, profile, quit>>

ClosePane ==
    /\ Operation /\ LeafCount(root) > 1
    /\ root' = RemoveLeaf(root, focused)
    /\ focused' = Smaller(focused, LeafCount(root) - 2)
    /\ UNCHANGED <<docs, editors, clipboard, profile, quit>>

WindowCommand ==
    \/ SplitFocused \/ FocusNext \/ Resize \/ CycleBuffer(TRUE) \/ CycleBuffer(FALSE)
    \/ ClosePane \/ (LeafCount(root) = 1 /\ CloseActiveBuffer)

-----------------------------------------------------------------------------
(* What the front-end does with the workspace.                             *)

\* A file in a new editor, which the focused pane shows.
OpenFile(p) ==
    /\ docs' = Append(docs, NewDoc(p, Files[p]))
    /\ editors' = Append(editors, SetProfile(NewEditor(Len(docs) + 1), profile))
    /\ root' = SetNthEditor(root, focused, Len(editors) + 1)

Open ==
    /\ Operation /\ Len(editors) < MaxEditors
    /\ \E p \in DOMAIN Files : OpenFile(p)
    /\ UNCHANGED <<focused, clipboard, profile, quit>>

\* The first editor of a file, or a new one.
RevealPath ==
    /\ Operation
    /\ \E p \in DOMAIN Files :
          LET open == {i \in DOMAIN editors : PathOf(i) = p}
          IN  IF open # {} THEN root' = SetNthEditor(root, focused, Min(open)) /\ UNCHANGED <<docs, editors>>
              ELSE Len(editors) < MaxEditors /\ OpenFile(p)
    /\ UNCHANGED <<focused, clipboard, profile, quit>>

SetActiveCursor ==
    /\ Operation
    /\ \E b \in 0..Bytes(ActiveDoc.text) + 1 :
          editors' = [editors EXCEPT ![ActiveIndex].view = SetCursor(ActiveDoc, @, b)]
    /\ UNCHANGED <<docs, root, focused, clipboard, profile, quit>>

GotoDiagnosticKey ==
    /\ Operation
    /\ \E a, b \in Boundaries(ActiveDoc.text), forward \in BOOLEAN :
          editors' = [editors EXCEPT ![ActiveIndex] = GotoDiagnostic(ActiveDoc, @, {a, b}, forward)]
    /\ UNCHANGED <<docs, root, focused, clipboard, profile, quit>>

InsertText ==
    /\ Operation
    /\ \E ch \in Letters : Become(Edits(Active, Insert(ActiveDoc, Active.view, <<ch, ch>>)))
    /\ UNCHANGED <<root, focused, clipboard, profile, quit>>

ReplaceActive ==
    /\ Operation
    /\ \E lo, hi \in 0..Bytes(ActiveDoc.text) :
          Become(Edits(Active, ReplaceRange(ActiveDoc, Active.view, lo, hi, <<"x">>)))
    /\ UNCHANGED <<root, focused, clipboard, profile, quit>>

\* One edit of the agent's, which names a line of the text that is there.
EditLine(s, row, kind) ==
    LET e == Resolve(ActiveDoc.text, [line |-> row, kind |-> kind, text |-> <<"x">>])
    IN  ReplaceRange(s.doc, s.view, e.lo, e.hi, e.new)

\* The agent edits a line, or it and the first, from the back: in the active buffer, past the
\* workspace, so that the last edit stays with the view until a later operation hands it on.
AgentEdit ==
    /\ Operation
    /\ \E row \in 0..LastRow(ActiveDoc), kind \in {"replace", "insert", "delete"}, both \in BOOLEAN :
       \E one \in {EditLine(State(ActiveDoc, Active.view), row, kind)} :
       \E did \in {IF both /\ row > 0 THEN EditLine(one, 0, "replace") ELSE one} :
          /\ docs' = [docs EXCEPT ![Active.doc] = did.doc]
          /\ editors' = [editors EXCEPT ![ActiveIndex].view = did.view]
          /\ Len(did.doc.text) <= MaxChars
    /\ UNCHANGED <<root, focused, clipboard, profile, quit>>

\* A command of the palette: it shares no clipboard and quits nothing.
ExecuteCommand ==
    \/ CloseActiveBuffer
    \/ /\ Operation
       /\ \E c \in {"copy", "cut", "undo"} : Become(ExecuteIn(ActiveDoc, Active, c))
       /\ UNCHANGED <<root, focused, clipboard, profile, quit>>

SetClipboard ==
    /\ Operation
    /\ clipboard' = <<"a">>
    /\ editors' = IF clipboard = <<"a">> THEN editors
                  ELSE [i \in DOMAIN editors |-> [editors[i] EXCEPT !.clipboard = <<"a">>]]
    /\ UNCHANGED <<docs, root, focused, profile, quit>>

SetProfiles ==
    /\ Operation
    /\ profile' \in Profiles
    /\ editors' = [i \in DOMAIN editors |-> SetProfile(editors[i], profile')]
    /\ UNCHANGED <<docs, root, focused, clipboard, quit>>

ApplyFolds ==
    /\ Operation
    /\ \E fold \in {<<0, 1>>, <<0, 2>>} :
          editors' = [i \in DOMAIN editors |->
              IF PathOf(i) = PathOf(ActiveIndex) THEN SetFolds(editors[i], {fold}) ELSE editors[i]]
    /\ UNCHANGED <<docs, root, focused, clipboard, profile, quit>>

ApplyInlayHints ==
    /\ Operation
    /\ \E b \in Boundaries(ActiveDoc.text) :
          editors' = [i \in DOMAIN editors |->
              IF PathOf(i) = PathOf(ActiveIndex) THEN [editors[i] EXCEPT !.hints = {b}] ELSE editors[i]]
    /\ UNCHANGED <<docs, root, focused, clipboard, profile, quit>>

ToggleActiveFold ==
    /\ Operation
    /\ editors' = [editors EXCEPT ![ActiveIndex] = ToggleFold(ActiveDoc, @)]
    /\ UNCHANGED <<docs, root, focused, clipboard, profile, quit>>

\* The tab bar takes a row; each pane is drawn in its rectangle, one after the other.
PaneRects == Layout(root, SplitTop(Rect(0, 0, Body[1], Body[2] + 1), 1)[2]).panes
Rendered ==
    LET drawn[n \in 0..LeafCount(root)] ==
            IF n = 0 THEN editors
            ELSE [drawn[n - 1] EXCEPT ![NthEditor(root, n - 1)] =
                     RenderIn(docs[@.doc], @, PaneRects[n].w, PaneRects[n].h)]
    IN  drawn[LeafCount(root)]
Render ==
    /\ Operation /\ editors' = Rendered
    /\ UNCHANGED <<docs, root, focused, clipboard, profile, quit>>

-----------------------------------------------------------------------------
(* Sessions.                                                               *)

ToSession ==
    [panes |-> [n \in 1..LeafCount(root) |->
                   LET e == editors[NthEditor(root, n - 1)]
                   IN  [path |-> docs[e.doc].path, cursor |-> Cursor(docs[e.doc], e.view),
                        top |-> e.top, left |-> e.left]],
     layout |-> NodeToLayout(root), focused |-> focused]

\* Each pane opens its file for itself; a layout that names no pane is dropped.
FromSession(s) ==
    LET text(p) == IF p = Scratch THEN <<>> ELSE Files[p]
        ds == [n \in DOMAIN s.panes |-> NewDoc(s.panes[n].path, text(s.panes[n].path))]
        es == [n \in DOMAIN s.panes |->
                  RestorePosition(ds[n], NewEditor(n), s.panes[n].cursor, s.panes[n].top, s.panes[n].left)]
        sound == ToSet(CollectEditors(s.layout)) \subseteq DOMAIN es
    IN  [docs |-> ds, editors |-> es,
         root |-> IF sound THEN s.layout ELSE OnePane(1),
         focused |-> IF sound THEN Smaller(s.focused, LeafCount(s.layout) - 1) ELSE 0]

Restart ==
    /\ Operation
    /\ \E r \in {FromSession(ToSession)} :
           docs' = r.docs /\ editors' = r.editors /\ root' = r.root /\ focused' = r.focused
    /\ clipboard' = <<>> /\ profile' = "cua" /\ UNCHANGED quit

WorkspaceNext ==
    \/ TypeLetter \/ CommandKey \/ PageKey \/ WindowCommand
    \/ Open \/ RevealPath \/ SetActiveCursor \/ GotoDiagnosticKey \/ InsertText \/ ReplaceActive
    \/ AgentEdit \/ ExecuteCommand \/ SetClipboard \/ SetProfiles
    \/ ApplyFolds \/ ApplyInlayHints \/ ToggleActiveFold \/ Render \/ Restart

WorkspaceSpec == WorkspaceInit /\ [][WorkspaceNext]_wsVars

-----------------------------------------------------------------------------
(* Properties.                                                             *)

\* Panes and rules cover an area, and none of them another.
Apart(f) == \A i, j \in DOMAIN f : i # j => f[i] \cap f[j] = {}
Tiles(l, area) ==
    LET panes == [n \in DOMAIN l.panes |-> Inside(l.panes[n])]
        rules == [s \in DOMAIN l.rules |-> Inside(l.rules[s])]
        paned == UNION {panes[n] : n \in DOMAIN panes}
        ruled == UNION {rules[s] : s \in DOMAIN rules}
    IN  paned \cup ruled = area /\ paned \cap ruled = {} /\ Apart(panes) /\ Apart(rules)

\* However panes are split, closed, cycled and restored and buffers removed: every pane
\* shows an editor there is, the focus is on a pane, and the panes and the rules between
\* them fill the area without overlap.
PanesAreSound ==
    /\ ToSet(CollectEditors(root)) \subseteq DOMAIN editors
    /\ focused \in 0..LeafCount(root) - 1
    /\ Tiles(Layout(root, Rect(0, 0, Body[1], Body[2])), Inside(Rect(0, 0, Body[1], Body[2])))

\* A session brings back each pane with its file and, where the text is the file's, its
\* cursor, in the same places and with the same focus.
SessionRestoresPanes ==
    \A r \in {FromSession(ToSession)} :
        /\ LeafCount(r.root) = LeafCount(root) /\ r.focused = focused
        /\ \A n \in 0..LeafCount(root) - 1 :
              LET was == editors[NthEditor(root, n)]
                  is == r.editors[NthEditor(r.root, n)]
              IN  /\ r.docs[is.doc].path = docs[was.doc].path
                  /\ r.docs[is.doc].text = docs[was.doc].text =>
                        is.view.cursor = Cursor(docs[was.doc], was.view)

\* When one view edits and hands the edit on, the cursor of every other view of the document,
\* shown or not, stays with the text around it: what followed it still follows, or what
\* preceded it still precedes, or it was in what was replaced and stands behind the new text.
\* Excepted are undo and redo, which hand nothing on, the agent's edits, which are handed on
\* late or never, and an edit while another view's is still to be handed on.
CursorsFollowTheirText ==
    [][\A k \in DOMAIN docs \cap DOMAIN docs' :
          (/\ docs'[k].path = docs[k].path
           /\ Len(docs'[k].past) = Len(docs[k].past) + 1
           /\ docs[k].future = <<>> \/ docs'[k].text # Last(docs[k].future)
           /\ \A i \in DOMAIN editors :
                 i # ActiveIndex /\ editors[i].doc = k => editors[i].view.lastEdit = <<>>
           /\ editors'[ActiveIndex].view.lastEdit = <<>>) =>
              \A i \in DOMAIN editors :
                  (i # ActiveIndex /\ editors[i].doc = k) =>
                      LET old == docs[k].text
                          new == docs'[k].text
                          c == Cursor(docs[k], editors[i].view)
                          cc == Cursor(docs'[k], editors'[i].view)
                          end == editors'[ActiveIndex].view.cursor
                      IN  IF Bytes(old) - c <= Bytes(new) - end
                          THEN Slice(old, c, Bytes(old)) = Slice(new, cc, Bytes(new))
                          ELSE cc = end \/ Slice(old, 0, c) = Slice(new, 0, cc)]_wsVars

\* A pane that is drawn shows its cursor, and on the cell where the character under it is
\* drawn, with wide letters, hints and folds before it (a hint between the bytes of a letter
\* and a cursor in a folded line are excepted).
CursorSitsOnItsCharacter ==
    \A e \in {Rendered[ActiveIndex]}, r \in {PaneRects[focused + 1]} :
    \A at \in {CursorScreenPosition(ActiveDoc, e, r.w, r.h)} :
        (/\ r.w > Gutter(ActiveDoc) /\ r.h > 0 /\ ~Hidden(e, Row(ActiveDoc, e.view))
         /\ e.hints \subseteq Boundaries(ActiveDoc.text)
         /\ \A m \in 0..LeafCount(root) - 1 : m # focused => NthEditor(root, m) # ActiveIndex) =>
            /\ at # <<>>
            /\ RenderLines(ActiveDoc, e, r.h)[at[2] + 1] = Row(ActiveDoc, e.view)
            /\ ColumnsOf(ActiveDoc, e, Row(ActiveDoc, e.view))[Column(ActiveDoc, e.view)] = at[1] + e.left

\* The windows of a workspace, through all splitting, cycling, editing and restarting.
WindowsAreSound == PanesAreSound /\ SessionRestoresPanes /\ CursorSitsOnItsCharacter
=============================================================================
