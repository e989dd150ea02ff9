----------------------------- MODULE GitPanel -----------------------------
(***************************************************************************)
(* The Git panel (majestic-core/git_panel.rs) over a repository that other *)
(* programs use too.  Of a file the repository knows the content in HEAD,  *)
(* in the index and in the work tree ("none" where it is absent); git      *)
(* itself is external: status, add, reset and commit as the panel calls    *)
(* them.  The panel's rows are those of the status it read last.           *)
(***************************************************************************)
EXTENDS Integers, FiniteSets, SequencesExt

CONSTANTS
    GitFiles,       \* the files, in the order git lists them
    Contents,       \* what a file may contain
    GitHeights,     \* bound: the heights the panel is drawn at
    DiffLines       \* the lines of a diff

ASSUME GitAssumption == IsFiniteSet(ToSet(GitFiles))

VARIABLES
    repo,           \* file -> its content in HEAD, index and work tree
    gitRows,        \* section headers and files; <<>> for a clean tree
    gitSelected, gitScroll,
    diff            \* the scroll of the diff that is open, or Shut

gitVars == <<repo, gitRows, gitSelected, gitScroll, diff>>

Shut == -1

Stored == Contents \cup {"none"}

-----------------------------------------------------------------------------
(* What git does.                                                          *)

IsUntracked(r, f) == r[f].index = "none" /\ r[f].work # "none"

IsStaged(r, f) == r[f].index # r[f].head

IsUnstaged(r, f) == r[f].index # "none" /\ r[f].work # r[f].index

\* A path that is neither in the index nor in the work tree matches nothing: git
\* refuses it.
GitAdd(r, f) == [r EXCEPT ![f].index = r[f].work]

Known(r, f) == r[f].index # "none" \/ r[f].work # "none"

GitReset(r, fs) == [f \in DOMAIN r |-> IF f \in fs THEN [r[f] EXCEPT !.index = r[f].head]
                                       ELSE r[f]]

GitAddAll(r) == [f \in DOMAIN r |-> [r[f] EXCEPT !.index = r[f].work]]

GitCommit(r) == [f \in DOMAIN r |-> [r[f] EXCEPT !.head = r[f].index]]

-----------------------------------------------------------------------------
(* The rows, and the selection on them.                                    *)

Header == [section |-> "header", file |-> "none"]

\* The files in the order git lists them: the n-th of some.
Place(f) == CHOOSE i \in DOMAIN GitFiles : GitFiles[i] = f
NthFile(files, n) ==
    CHOOSE f \in files : Cardinality({g \in files : Place(g) <= Place(f)}) = n

\* A section with no file has no header either.
Section(name, files) ==
    IF files = {} THEN <<>>
    ELSE <<Header>> \o [n \in 1 .. Cardinality(files) |-> [section |-> name, file |-> NthFile(files, n)]]

\* parse_status sorts a line of the porcelain output into the sections; a file may
\* be both staged and unstaged.
StatusRows(r) ==
    Section("staged", {f \in DOMAIN r : IsStaged(r, f)})
        \o Section("unstaged", {f \in DOMAIN r : IsUnstaged(r, f)})
        \o Section("untracked", {f \in DOMAIN r : IsUntracked(r, f)})

IsFileRow(rs, i) == i + 1 \in DOMAIN rs /\ rs[i + 1].section # "header"

\* The first file is the row under the first header.
FirstFile(rs) == IF rs = <<>> THEN 0 ELSE 1

\* Mutant of Reselect: only a selection that is past the end is moved.
ReselectPastTheEnd(rs, sel) == IF sel < Len(rs) THEN sel ELSE FirstFile(rs)

\* A rebuild keeps the index when a file is there, or goes to the first file.
Reselect(rs, sel) == IF IsFileRow(rs, sel) THEN sel ELSE FirstFile(rs)

\* Every action of the panel reads the status again, also when git failed.
Refreshed(r) ==
    /\ gitRows' = StatusRows(r)
    /\ gitSelected' = Reselect(StatusRows(r), gitSelected)

-----------------------------------------------------------------------------
\* The panel is opened over some state of the repository.
GitInit ==
    /\ repo \in [ToSet(GitFiles) -> [head : {"none"}, index : {"none"}, work : Contents]]
    /\ gitRows = StatusRows(repo)
    /\ gitSelected = FirstFile(gitRows) /\ gitScroll = 0 /\ diff = Shut

Listed == diff = Shut

\* Runs a git command: it does what it does, or fails; then refresh.
RunAction(possible, result) ==
    /\ \/ possible /\ repo' = result
       \/ repo' = repo
    /\ Refreshed(repo')
    /\ UNCHANGED <<gitScroll, diff>>

SelectedFile == gitRows[gitSelected + 1].file

OnFile == IsFileRow(gitRows, gitSelected)

Stage == Listed /\ OnFile /\ RunAction(Known(repo, SelectedFile), GitAdd(repo, SelectedFile))

StageAll == Listed /\ RunAction(TRUE, GitAddAll(repo))

Unstage == Listed /\ OnFile /\ RunAction(TRUE, GitReset(repo, {SelectedFile}))

UnstageAll == Listed /\ RunAction(TRUE, GitReset(repo, DOMAIN repo))

\* commit with a message: it is refused when the rows show nothing staged, but what
\* it commits is the index of now.
Commit ==
    /\ Listed
    /\ \E row \in ToSet(gitRows) : row.section = "staged"
    /\ RunAction(\E f \in DOMAIN repo : IsStaged(repo, f), GitCommit(repo))

GitRefresh == Listed /\ Refreshed(repo) /\ UNCHANGED <<repo, gitScroll, diff>>

\* The next file row above or below, over the headers; at the ends it stays.
SelectRow ==
    /\ Listed
    /\ \E forward \in BOOLEAN :
           LET on == {i \in 0..Len(gitRows) - 1 :
                        IsFileRow(gitRows, i) /\ IF forward THEN i > gitSelected ELSE i < gitSelected}
               next == CHOOSE i \in on : \A j \in on : IF forward THEN i <= j ELSE i >= j
           IN  gitSelected' = IF on = {} THEN gitSelected ELSE next
    /\ UNCHANGED <<repo, gitRows, gitScroll, diff>>

\* A diff opens when git has one to show; an untracked file has none.
ShowDiff ==
    /\ Listed /\ OnFile
    /\ LET row == gitRows[gitSelected + 1]
       IN  \/ row.section = "staged" /\ IsStaged(repo, row.file)
           \/ row.section = "unstaged" /\ IsUnstaged(repo, row.file)
    /\ diff' = 0
    /\ UNCHANGED <<repo, gitRows, gitSelected, gitScroll>>

\* The keys move the scroll without a limit below; a frame clamps it.
ScrollDiff ==
    /\ ~Listed /\ diff <= DiffLines
    /\ \E d \in {-10, -1, 1, 10} : diff' = IF diff + d < 0 THEN 0 ELSE diff + d
    /\ UNCHANGED <<repo, gitRows, gitSelected, gitScroll>>

CloseDiff == ~Listed /\ diff' = Shut /\ UNCHANGED <<repo, gitRows, gitSelected, gitScroll>>

\* A frame scrolls the list to the selection, or clamps the scroll of the diff.
GitDraw ==
    /\ \E h \in GitHeights :
           IF Listed
           THEN /\ gitScroll' = IF gitSelected < gitScroll THEN gitSelected
                                ELSE IF gitSelected >= gitScroll + h THEN gitSelected + 1 - h
                                ELSE gitScroll
                /\ UNCHANGED diff
           ELSE /\ diff' = IF DiffLines <= h THEN 0
                           ELSE IF diff > DiffLines - h THEN DiffLines - h ELSE diff
                /\ UNCHANGED gitScroll
    /\ UNCHANGED <<repo, gitRows, gitSelected>>

\* Somebody edits, creates or deletes a file, outside the panel.
WorkTreeChanges ==
    /\ \E f \in DOMAIN repo, c \in Stored : repo' = [repo EXCEPT ![f].work = c]
    /\ UNCHANGED <<gitRows, gitSelected, gitScroll, diff>>

GitNext == \/ Stage \/ StageAll \/ Unstage \/ UnstageAll \/ Commit \/ GitRefresh
           \/ SelectRow \/ ShowDiff \/ ScrollDiff \/ CloseDiff \/ GitDraw \/ WorkTreeChanges

-----------------------------------------------------------------------------
\* The selection is a file whenever the panel lists one (git_panel.rs:62), so that
\* stage, unstage and diff act on the row that is marked; with none there is nothing
\* to act on.
GitSelectionIsAFile ==
    IF gitRows = <<>> THEN gitSelected = 0 ELSE OnFile
=============================================================================
