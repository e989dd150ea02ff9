----------------------------- MODULE FileTree -----------------------------
(***************************************************************************)
(* The file explorer (majestic-core/files.rs): the visible rows of a tree  *)
(* of directories, the expanded ones among them, the selected row and the  *)
(* first row drawn.  The disk changes under it; only a refresh or a toggle *)
(* reads it again.  Listing gives the entries of each directory in the     *)
(* order of read_sorted, without the dot-entries; a directory is an entry  *)
(* that has a listing.                                                     *)
(***************************************************************************)
EXTENDS Integers, Sequences, SequencesExt

CONSTANTS
    Root,           \* the directory at the root of the tree
    Listing,        \* directory -> all the entries it may ever have, sorted
    TreeHeights     \* bound: the heights the tree is drawn at

ASSUME TreeAssumption ==
    /\ IsFiniteSet(DOMAIN Listing) /\ Root \in DOMAIN Listing
    /\ \A d \in DOMAIN Listing : Listing[d] \in Seq(STRING \ {Root})

VARIABLES
    disk,           \* the entries that exist
    expanded,       \* the expanded directories
    rows,           \* the rows, each an entry and its depth
    selected, top   \* the selected row and the first one drawn, from 0

treeVars == <<disk, expanded, rows, selected, top>>

Directories == DOMAIN Listing

Entries == UNION {ToSet(Listing[d]) : d \in Directories}

\* The deletion of a directory takes what is in it.
Below[d \in Entries] ==
    {d} \cup IF d \in Directories THEN UNION {Below[e] : e \in ToSet(Listing[d])} ELSE {}

\* An entry appears in a directory that is there.
ParentExists(e, d) == \E p \in Directories : e \in ToSet(Listing[p]) /\ p \in d \cup {Root}

\* A chain of directories, each in the one before, is no longer than there are directories.
Deepest == Cardinality(Directories)

\* What an entry adds to the rows: its own and, for an expanded directory, those below it.
EntryRows(e, depth, open, below) ==
    IF e \notin disk THEN <<>>
    ELSE <<[path |-> e, depth |-> depth]>> \o IF e \in Directories \cap open THEN below[e] ELSE <<>>

\* The rows below each directory, given those below the directories in it.
LevelRows(open, depth, below) ==
    [d \in Directories |->
        FlattenSeq([i \in DOMAIN Listing[d] |-> EntryRows(Listing[d][i], depth, open, below)])]

\* The rows below the root; append has as many levels of directories still to come.
RowsUnder(open) ==
    LET append[levels \in 0..Deepest] ==
            IF levels = 0 THEN [d \in Directories |-> <<>>]
            ELSE LevelRows(open, Deepest - levels, append[levels - 1])
    IN  append[Deepest][Root]

\* The index the rows are rebuilt with: the selection is clamped to them.
KeepOnRows(sel, n) == IF sel < n THEN sel ELSE IF n = 0 THEN 0 ELSE n - 1

\* Mutant of Rebuild: the index is kept and not the entry.
RebuildByIndex(open, keep) ==
    /\ rows' = RowsUnder(open)
    /\ selected' = KeepOnRows(selected, Len(rows'))
    /\ expanded' = open

\* Rows are rebuilt, then the selection goes back to the entry it was on, if that
\* is still listed.
Rebuild(open, keep) ==
    /\ rows' = RowsUnder(open)
    /\ selected' = IF \E i \in DOMAIN rows' : rows'[i].path \in keep
                   THEN (CHOOSE i \in DOMAIN rows' : rows'[i].path \in keep) - 1
                   ELSE KeepOnRows(selected, Len(rows'))
    /\ expanded' = open

OnRow == selected < Len(rows)

Here == rows[selected + 1].path

-----------------------------------------------------------------------------
\* The tree is built over what the disk holds.
TreeInit ==
    /\ disk = Entries /\ expanded = {Root}
    /\ rows = RowsUnder(expanded)
    /\ selected = 0 /\ top = 0

TreeUp ==
    /\ selected' = IF selected = 0 THEN 0 ELSE selected - 1
    /\ UNCHANGED <<disk, expanded, rows, top>>

TreeDown ==
    /\ selected' = IF selected + 1 < Len(rows) THEN selected + 1 ELSE selected
    /\ UNCHANGED <<disk, expanded, rows, top>>

\* Enter on a directory: it is folded or unfolded and stays selected.
TreeToggle ==
    /\ OnRow /\ Here \in Directories
    /\ Rebuild(IF Here \in expanded THEN expanded \ {Here} ELSE expanded \cup {Here}, {Here})
    /\ UNCHANGED <<disk, top>>

\* The sidebar is opened again.
TreeRefresh ==
    /\ Rebuild(expanded, IF OnRow THEN {Here} ELSE {})
    /\ UNCHANGED <<disk, top>>

\* A frame draws the tree: it is scrolled until the selection is on it.
TreeDraw ==
    /\ \E h \in TreeHeights :
           top' = IF h = 0 THEN top
                  ELSE IF selected < top THEN selected
                  ELSE IF selected >= top + h THEN selected + 1 - h
                  ELSE top
    /\ UNCHANGED <<disk, expanded, rows, selected>>

\* Other programs add and delete files.
DiskChanges ==
    /\ \E e \in Entries :
           disk' = IF e \in disk THEN disk \ Below[e]
                   ELSE IF ParentExists(e, disk) THEN disk \cup {e} ELSE disk
    /\ UNCHANGED <<expanded, rows, selected, top>>

TreeNext == TreeUp \/ TreeDown \/ TreeToggle \/ TreeRefresh \/ TreeDraw \/ DiskChanges

-----------------------------------------------------------------------------
\* Whatever happens to the rows around it, the selected entry stays selected while
\* it is listed, so that Enter opens what the user sees marked; and a selection
\* there always is.
TreeKeepsItsPlace ==
    /\ rows' # rows /\ OnRow /\ (\E i \in DOMAIN rows' : rows'[i].path = Here)
          => rows'[selected' + 1].path = Here
    /\ rows' # <<>> => selected' < Len(rows')
=============================================================================
