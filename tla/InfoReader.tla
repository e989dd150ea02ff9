----------------------------- MODULE InfoReader -----------------------------
(***************************************************************************)
(* The reader of Info manuals: nodes parsed from a file, the node shown,   *)
(* its references (menu entries and notes) with one selected, a scroll     *)
(* position, and the history of nodes that `back' returns through, across  *)
(* the files of a directory that are loaded as links lead to them.         *)
(*                                                                         *)
(* A file is the sequence of its chunks.  A chunk that is a node has a     *)
(* name, three links and lines; a line is the heading of the menu, starts  *)
(* as an item with a target, or is text, and holds notes with targets.     *)
(* A target is <<node>>, or <<file, node>> where either may be empty.      *)
(***************************************************************************)
EXTENDS Integers, FiniteSets, SequencesExt

CONSTANTS
    InfoFiles,      \* bound: the files of the directory, by name
    InfoHeights,    \* bound: the rows there may be for a node's body
    MaxHistory      \* bound: how many jumps are made

IsListing(s) == s \in Seq(ToSet(s))

ASSUME InfoAssumption ==
    /\ InfoHeights \subseteq Nat
    /\ \A file \in DOMAIN InfoFiles : IsListing(InfoFiles[file]) /\ \A i \in DOMAIN InfoFiles[file] :
          LET lines == InfoFiles[file][i].lines
          IN  IsListing(lines) /\ \A n \in DOMAIN lines : IsListing(lines[n].notes)

VARIABLES
    info          \* loaded files, file, index of the node, history, scroll, selected
                    \* reference, rows of the body at the last drawing

infoVars == <<info>>

NoLink == <<>>

\* Chunks without a node header and a name are skipped.
NodeChunks(file) == {i \in DOMAIN InfoFiles[file] : InfoFiles[file][i].name # ""}
Nodes(file) ==
    [n \in 1 .. Cardinality(NodeChunks(file)) |->
        InfoFiles[file][CHOOSE i \in NodeChunks(file) :
                            Cardinality({j \in NodeChunks(file) : j <= i}) = n]]

\* The first node of a name is the one that is found by it; 0 if there is none.
Position(file, name) ==
    LET named == {i \in DOMAIN Nodes(file) : Nodes(file)[i].name = name}
    IN  IF named = {} THEN 0 ELSE CHOOSE i \in named : \A j \in named : i <= j

\* The references of a node in reading order, each with its line, numbered from 0.  Items
\* count below the menu's heading only, and if they name a node; an item precedes the notes
\* on its line.
InMenu(lines, n) == \E m \in 1 .. n - 1 : lines[m].start = "heading"
MenuItem(line, at) ==
    IF line.start # "item" \/ line.target = NoLink THEN <<>> ELSE <<[line |-> at, target |-> line.target]>>
Notes(line, at) == [i \in DOMAIN line.notes |-> [line |-> at, target |-> line.notes[i]]]
LineRefs(lines, n) ==
    (IF InMenu(lines, n) THEN MenuItem(lines[n], n - 1) ELSE <<>>) \o Notes(lines[n], n - 1)
Refs(node) == FlattenSeq([n \in DOMAIN node.lines |-> LineRefs(node.lines, n)])

\* The node that is shown, if the file has any.
Shown(r) == {Nodes(r.file)[i] : i \in {r.current} \cap DOMAIN Nodes(r.file)}
RefsOf(r) == IF Shown(r) = {} THEN <<>> ELSE Refs(CHOOSE n \in Shown(r) : TRUE)

GoTo(r, file, index) ==
    IF file = r.file /\ index = r.current THEN r
    ELSE [r EXCEPT !.history = Append(@, <<r.file, r.current>>), !.file = file,
                   !.current = index, !.scroll = 0, !.selected = 0]

\* A file that cannot be read is no place to go to, and neither is a node that the file
\* does not have; a file that was read stays loaded.
GotoFile(r, named, node) ==
    LET file == IF named = "" THEN r.file ELSE named
        index == Position(file, IF node = "" THEN "Top" ELSE node)
        loaded == [r EXCEPT !.loaded = @ \cup {file}]
    IN  IF file \notin DOMAIN InfoFiles THEN r
        ELSE IF index = 0 THEN loaded ELSE GoTo(loaded, file, index)

Goto(r, target) ==
    IF target = NoLink THEN r
    ELSE IF Len(target) = 2 THEN GotoFile(r, target[1], target[2])
    ELSE IF Position(r.file, target[1]) = 0 THEN r
    ELSE GoTo(r, r.file, Position(r.file, target[1]))

\* Mutant of ScrollToSelected: one line short of the selection at the bottom.
ScrollShort(r) ==
    LET at == RefsOf(r)[r.selected + 1].line
    IN  IF r.selected >= Len(RefsOf(r)) THEN r
        ELSE IF at < r.scroll THEN [r EXCEPT !.scroll = at]
        ELSE IF r.viewport > 0 /\ at > r.scroll + r.viewport
        THEN [r EXCEPT !.scroll = at - r.viewport] ELSE r

\* Moves the view so that the selected reference is on it.
ScrollToSelected(r) ==
    LET at == RefsOf(r)[r.selected + 1].line
    IN  IF r.selected >= Len(RefsOf(r)) THEN r
        ELSE IF at < r.scroll THEN [r EXCEPT !.scroll = at]
        ELSE IF r.viewport > 0 /\ at >= r.scroll + r.viewport
        THEN [r EXCEPT !.scroll = at + 1 - r.viewport] ELSE r

-----------------------------------------------------------------------------
InfoInit ==
    \E file \in DOMAIN InfoFiles :
        info = [loaded |-> {file}, file |-> file,
                  current |-> IF Position(file, "Top") = 0 THEN 1 ELSE Position(file, "Top"),
                  history |-> <<>>, scroll |-> 0, selected |-> 0, viewport |-> 0]

\* n, p and u follow the links of the node; Enter the selected reference.
FollowLink ==
    \E node \in Shown(info) : \E link \in {node.next, node.prev, node.up} :
        /\ Len(info.history) < MaxHistory
        /\ info' = Goto(info, link)

Enter ==
    /\ info.selected < Len(RefsOf(info)) /\ Len(info.history) < MaxHistory
    /\ info' = Goto(info, RefsOf(info)[info.selected + 1].target)

Back ==
    /\ info.history # <<>>
    /\ info' = [info EXCEPT !.file = Last(info.history)[1],
                     !.current = Last(info.history)[2], !.history = Front(@),
                     !.scroll = 0, !.selected = 0]

SelectUp ==
    info' = ScrollToSelected([info EXCEPT !.selected = IF @ = 0 THEN 0 ELSE @ - 1])

SelectDown ==
    /\ info.selected + 1 < Len(RefsOf(info))
    /\ info' = ScrollToSelected([info EXCEPT !.selected = @ + 1])

PageDown ==
    LET lines == IF Shown(info) = {} THEN 0 ELSE Len((CHOOSE n \in Shown(info) : TRUE).lines)
        last == IF lines = 0 THEN 0 ELSE lines - 1
    IN  info' = [info EXCEPT !.scroll = IF @ + 10 < last THEN @ + 10 ELSE last]

PageUp == info' = [info EXCEPT !.scroll = IF @ < 10 THEN 0 ELSE @ - 10]

DrawInfo == \E rows \in InfoHeights : info' = [info EXCEPT !.viewport = rows]

InfoNext ==
    FollowLink \/ Enter \/ Back \/ SelectUp \/ SelectDown \/ PageDown \/ PageUp \/ DrawInfo

-----------------------------------------------------------------------------
\* Wherever links lead, back and across files, the reader and all of its history stand on
\* nodes that are there (or on nothing of a file that has none), no jump leads to where
\* one is, and the selection is a reference of the node that is shown.
InfoPlacesExist ==
    LET here == <<info.file, info.current>>
        trail == Append(info.history, here)
    IN  /\ \A i \in DOMAIN trail :
              /\ trail[i][1] \in info.loaded
              /\ trail[i][2] \in DOMAIN Nodes(trail[i][1]) \/ Nodes(trail[i][1]) = <<>>
        /\ \A i \in 1 .. Len(trail) - 1 : trail[i] # trail[i + 1]
        /\ info.selected = 0 \/ info.selected < Len(RefsOf(info))

\* The reference that was just selected, which Enter will follow, is on the screen.
SelectionIsSeen ==
    info'.selected # info.selected /\ info'.history = info.history
       /\ info'.viewport > 0 =>
       RefsOf(info')[info'.selected + 1].line
          \in info'.scroll .. info'.scroll + info'.viewport - 1
=============================================================================
