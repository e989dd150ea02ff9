------------------------------ MODULE KeyMaps ------------------------------
(***************************************************************************)
(* Key maps and what a key does in an editor: a tree of bindings that is   *)
(* rebuilt along the path of a new one, a dispatcher that gathers keys     *)
(* until a binding is reached, the profiles with their modes, and the hint *)
(* that lists the keys which may follow.                                   *)
(***************************************************************************)
EXTENDS Integers, Sequences, FiniteSets

VARIABLES
    keysOf          \* the focused editor's profile, mode and pending keys, the last key, and
                    \* what it did: a command, "pending", "unbound" or "inserted"

keyVars == <<keysOf>>

\* A node holds the command bound there, if any, and the nodes one key further.
NoCommand == "none"
EmptyNode == [command |-> NoCommand, children |-> <<>>]
WithChild(children, k, node) ==
    [j \in DOMAIN children \cup {k} |-> IF j = k THEN node ELSE children[j]]

\* Mutant of BindNode: a binding that ends at a node forgets the longer ones through it.
RECURSIVE BindLeaf(_, _, _)
BindLeaf(node, sequence, command) ==
    IF sequence = <<>> THEN [EmptyNode EXCEPT !.command = command]
    ELSE LET k == Head(sequence)
             existing == IF k \in DOMAIN node.children THEN node.children[k] ELSE EmptyNode
         IN  [node EXCEPT !.children =
                 WithChild(@, k, BindLeaf(existing, Tail(sequence), command))]

RECURSIVE BindNode(_, _, _)
BindNode(node, sequence, command) ==
    IF sequence = <<>> THEN [node EXCEPT !.command = command]
    ELSE LET k == Head(sequence)
             existing == IF k \in DOMAIN node.children THEN node.children[k] ELSE EmptyNode
         IN  [node EXCEPT !.children =
                 WithChild(@, k, BindNode(existing, Tail(sequence), command))]

RECURSIVE BindEach(_, _)
BindEach(keymap, bindings) ==
    IF bindings = <<>> THEN keymap
    ELSE BindEach(BindNode(keymap, Head(bindings)[1], Head(bindings)[2]), Tail(bindings))
BindAll(chords) ==
    BindEach(EmptyNode, [i \in DOMAIN chords |-> <<<<chords[i][1]>>, chords[i][2]>>])

\* The node that a sequence of keys leads to, if there is one.
RECURSIVE NodeAt(_, _)
NodeAt(node, sequence) ==
    IF sequence = <<>> THEN {node}
    ELSE IF Head(sequence) \in DOMAIN node.children
    THEN NodeAt(node.children[Head(sequence)], Tail(sequence)) ELSE {}

Unbound == [kind |-> "unbound"]
Prefix == [kind |-> "prefix"]
BoundTo(c) == [kind |-> "bound", command |-> c]

Lookup(keymap, sequence) ==
    LET at == NodeAt(keymap, sequence)
    IN  IF at = {} THEN Unbound
        ELSE LET node == CHOOSE n \in at : TRUE
             IN  IF node.command # NoCommand THEN BoundTo(node.command)
                 ELSE IF DOMAIN node.children = {} THEN Unbound ELSE Prefix

\* The keys that may follow, with what each does.
Continuations(keymap, sequence) ==
    LET at == NodeAt(keymap, sequence)
    IN  IF at = {} THEN <<>>
        ELSE LET children == (CHOOSE n \in at : TRUE).children
             IN  [k \in DOMAIN children |->
                     IF children[k].command # NoCommand THEN BoundTo(children[k].command)
                     ELSE Prefix]

RECURSIVE Bindings(_)
Bindings(node) ==
    (IF node.command = NoCommand THEN {} ELSE {<<<<>>, node.command>>})
    \cup UNION {{<<<<k>> \o b[1], b[2]>> : b \in Bindings(node.children[k])} :
                   k \in DOMAIN node.children}

-----------------------------------------------------------------------------
\* The profiles.
Cua == BindAll(<<
    <<"C-c", "copy">>, <<"C-x", "cut">>, <<"C-v", "paste">>, <<"C-z", "undo">>,
    <<"C-y", "redo">>, <<"C-s", "save">>, <<"C-a", "select-all">>, <<"C-f", "find">>,
    <<"C-q", "quit">>, <<"C-w", "close-buffer">>, <<"RET", "insert-newline">>,
    <<"TAB", "indent">>, <<"DEL", "delete-backward">>, <<"Del", "delete-forward">>,
    <<"Left", "move-left">>, <<"Right", "move-right">>, <<"Up", "move-up">>,
    <<"Down", "move-down">>, <<"Home", "move-line-start">>, <<"End", "move-line-end">>,
    <<"PgUp", "page-up">>, <<"PgDn", "page-down">>, <<"S-Left", "select-left">>,
    <<"S-Right", "select-right">>, <<"S-Up", "select-up">>, <<"S-Down", "select-down">> >>)

Emacs == BindEach(BindAll(<<
    <<"C-f", "move-right">>, <<"C-b", "move-left">>, <<"C-n", "move-down">>,
    <<"C-p", "move-up">>, <<"C-a", "move-line-start">>, <<"C-e", "move-line-end">>,
    <<"C-v", "page-down">>, <<"M-v", "page-up">>, <<"RET", "insert-newline">>,
    <<"TAB", "indent">>, <<"DEL", "delete-backward">>, <<"C-d", "delete-forward">>,
    <<"C-/", "undo">>, <<"C-k", "kill-line">>, <<"C-w", "cut">>, <<"M-w", "copy">>,
    <<"C-y", "paste">>, <<"C-s", "find">> >>),
    << <<<<"C-x", "C-s">>, "save">>, <<<<"C-x", "C-c">>, "quit">>,
       <<<<"C-x", "k">>, "close-buffer">>, <<<<"C-x", "h">>, "select-all">> >>)

VimNormal == BindAll(<<
    <<"h", "move-left">>, <<"j", "move-down">>, <<"k", "move-up">>, <<"l", "move-right">>,
    <<"0", "move-line-start">>, <<"$", "move-line-end">>, <<"i", "enter-insert-mode">>,
    <<"v", "enter-visual-mode">>, <<"x", "delete-forward">>, <<"u", "undo">>,
    <<"p", "paste">> >>)

VimInsert == BindAll(<<
    <<"Esc", "enter-normal-mode">>, <<"RET", "insert-newline">>, <<"TAB", "indent">>,
    <<"DEL", "delete-backward">>, <<"Left", "move-left">>, <<"Right", "move-right">>,
    <<"Up", "move-up">>, <<"Down", "move-down">> >>)

VimVisual == BindAll(<<
    <<"h", "select-left">>, <<"j", "select-down">>, <<"k", "select-up">>,
    <<"l", "select-right">>, <<"y", "copy">>, <<"x", "cut">>,
    <<"Esc", "enter-normal-mode">>, <<"v", "enter-normal-mode">> >>)

SpacemacsNormal == BindEach(VimNormal,
    << <<<<"SPC", "f", "s">>, "save">>, <<<<"SPC", "f", "f">>, "find">>,
       <<<<"SPC", "b", "d">>, "close-buffer">>, <<<<"SPC", "q", "q">>, "quit">> >>)

\* An editor's dispatcher has one layer: the map of its profile, in a modal one the map
\* of its mode.
KeymapOf(profile, mode) ==
    CASE profile = "cua" -> Cua
      [] profile = "emacs" -> Emacs
      [] mode = "insert" -> VimInsert
      [] mode = "visual" -> VimVisual
      [] profile = "vim" -> VimNormal
      [] OTHER -> SpacemacsNormal

\* Mutant of Feed: looks the key up without the keys before it.
FeedKeyAlone(layers, pending, k) == Lookup(layers[1], <<k>>)

\* A key is looked up in every layer from the highest down: the first that binds it wins,
\* and a layer in which it is a prefix asks for more unless another binds it.
Feed(layers, pending, k) ==
    LET found(i) == Lookup(layers[i], Append(pending, k))
        bound == {i \in DOMAIN layers : found(i).kind = "bound"}
    IN  IF bound # {} THEN found(CHOOSE i \in bound : \A j \in bound : i <= j)
        ELSE IF \E i \in DOMAIN layers : found(i) = Prefix THEN Prefix ELSE Unbound

\* What may follow in any layer; the highest that knows a key says what it does.
Merged(layers, pending) ==
    LET next(i) == Continuations(layers[i], pending)
        knows(k) == {i \in DOMAIN layers : k \in DOMAIN next(i)}
        known == UNION {DOMAIN next(i) : i \in DOMAIN layers}
    IN  IF pending = <<>> THEN <<>>
        ELSE [k \in known |-> next(CHOOSE i \in knows(k) : \A j \in knows(k) : i <= j)[k]]

Layers == <<KeymapOf(keysOf.profile, keysOf.mode)>>
WhichKey == Merged(Layers, keysOf.pending)

-----------------------------------------------------------------------------
ModalProfiles == {"vim", "spacemacs"}
WithProfile(e, p) ==
    [e EXCEPT !.profile = p, !.pending = <<>>,
              !.mode = IF p \in ModalProfiles THEN "normal" ELSE "insert"]
WithMode(e, mode) ==
    IF e.profile \in ModalProfiles THEN [e EXCEPT !.mode = mode, !.pending = <<>>] ELSE e

\* What a command does to the mode; its effect on the text is the editor pane's.
Executed(e, c) ==
    CASE c = "enter-insert-mode" -> WithMode(e, "insert")
      [] c = "enter-normal-mode" -> WithMode(e, "normal")
      [] c = "enter-visual-mode" -> WithMode(e, "visual")
      [] OTHER -> e

KeyLetters == {"h", "j", "k", "l", "0", "$", "i", "v", "x", "u", "p", "y", "f", "s", "b", "d",
             "q", "SPC"}
KeyPresses == KeyLetters \cup
    UNION {{b[1][n] : n \in DOMAIN b[1]} : b \in Bindings(Cua) \cup Bindings(Emacs)
                                               \cup Bindings(VimInsert)}

KeysInit == keysOf = [profile |-> "cua", mode |-> "insert", pending |-> <<>>,
                      key |-> "none", did |-> "none"]

HandleKeyPress ==
    \E k \in KeyPresses :
        LET r == Feed(Layers, keysOf.pending, k)
            pressed == [keysOf EXCEPT !.key = k]
            cleared == [pressed EXCEPT !.pending = <<>>]
            alone == keysOf.pending = <<>> /\ k \in KeyLetters
        IN  keysOf' =
              CASE r.kind = "bound" -> [Executed(cleared, r.command) EXCEPT !.did = r.command]
                [] r = Prefix -> [pressed EXCEPT !.pending = Append(@, k), !.did = "pending"]
                [] alone /\ keysOf.mode = "insert" -> [cleared EXCEPT !.did = "inserted"]
                [] OTHER -> [cleared EXCEPT !.did = "unbound"]

SwitchProfile ==
    \E p \in {"cua", "emacs", "vim", "spacemacs"} :
        keysOf' = [WithProfile(keysOf, p) EXCEPT !.did = "none", !.key = "none"]

KeysNext == HandleKeyPress \/ SwitchProfile

-----------------------------------------------------------------------------
\* While a chord is being typed, the hint lists exactly the keys that lead on and says
\* what each of them then does; any other key ends the chord, typing and changing nothing.
HintIsTrue ==
    keysOf.pending # <<>> /\ keysOf'.did # "none" =>
       LET k == keysOf'.key
           hint == WhichKey[k]
       IN  IF k \notin DOMAIN WhichKey
           THEN keysOf'.did = "unbound" /\ keysOf'.pending = <<>> /\ keysOf'.mode = keysOf.mode
           ELSE IF hint = Prefix
           THEN keysOf'.did = "pending" /\ keysOf'.pending = Append(keysOf.pending, k)
           ELSE keysOf'.did = hint.command /\ keysOf'.pending = <<>>

\* A key map is the set of its bindings: binding a sequence replaces what it was bound to
\* and nothing else, and a lookup finds a binding, the start of one, or nothing.
KeymapsAgree(s, t, alphabet) ==
    LET base == BindNode(BindNode(EmptyNode, t, "old"), s \o t, "long")
        new == BindNode(base, s, "new")
        kept == {b \in Bindings(base) : b[1] # s}
        queries == {t, s, s \o t, t \o s} \cup {SubSeq(s, 1, n) : n \in 0 .. Len(s)}
                   \cup {Append(s, k) : k \in alphabet}
        leads(q) == \E b \in Bindings(new) : Len(b[1]) > Len(q) /\ SubSeq(b[1], 1, Len(q)) = q
    IN  /\ Bindings(new) = kept \cup {<<s, "new">>}
        /\ \A q \in queries :
              Lookup(new, q) =
                 IF \E b \in Bindings(new) : b[1] = q
                 THEN BoundTo((CHOOSE b \in Bindings(new) : b[1] = q)[2])
                 ELSE IF leads(q) THEN Prefix ELSE Unbound
=============================================================================
