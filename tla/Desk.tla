-------------------------------- MODULE Desk --------------------------------
(***************************************************************************)
(* The parts of the editor's process around its text: "keys" is the        *)
(* application that routes keys, "tree", "git" and "finder" are its        *)
(* panels, "pane" and "colours" are the two helpers with a thread of their *)
(* own, "info" is the manual reader,                                       *)
(* "popups" the boxes at the cursor, "screen" the frame that is written to *)
(* the terminal, "sandbox" the run of a command and "chat" the agent's     *)
(* transcript.  They keep state of their own and are called by one thread, *)
(* side by side: a behaviour exercises one of them.  Workbench adds the    *)
(* parts that work on trees and on the text itself.                        *)
(***************************************************************************)
EXTENDS AppShell, FileTree, GitPanel, Finder, TerminalPane, Highlighter,
        InfoReader, FrameLayout, ScreenDiff, Sandbox, ChatPanel

VARIABLE
    part            \* the part that this behaviour exercises

deskVars == <<part, shellVars, treeVars, gitVars, finderVars, paneVars, hlVars,
              infoVars, popupVars, screenVars, cellVars, chatVars>>

DeskParts == {"keys", "tree", "git", "finder", "pane", "colours", "info", "popups",
              "screen", "sandbox", "chat"}

\* The starts of a part are told apart only where that part is exercised.
DeskInit ==
    /\ ShellInit /\ (part # "keys" => open = {})
    /\ TreeInit
    /\ GitInit /\ (part # "git" => \A f \in DOMAIN repo : repo[f] = repo[GitFiles[1]])
    /\ FinderInit
    /\ PaneInit
    /\ HlInit
    /\ InfoInit /\ (part # "info" => info.file = CHOOSE f \in DOMAIN InfoFiles : TRUE)
    /\ PopupInit /\ (part # "popups" =>
          box.kind = "hover" /\ \A n \in PopupRows, w \in PopupWidths : box.rows <= n /\ box.wide <= w)
    /\ ScreenInit /\ (part # "screen" => front.size = CHOOSE s \in ScreenSizes : TRUE)
    /\ CellInit /\ (part # "sandbox" => cell.cage = CHOOSE c \in Cages : TRUE)
    /\ ChatInit

\* A step of one part leaves the others alone.
OnlyPart(p) ==
    /\ part = p /\ UNCHANGED part
    /\ IF p = "keys" THEN TRUE ELSE UNCHANGED shellVars
    /\ IF p = "tree" THEN TRUE ELSE UNCHANGED treeVars
    /\ IF p = "git" THEN TRUE ELSE UNCHANGED gitVars
    /\ IF p = "finder" THEN TRUE ELSE UNCHANGED finderVars
    /\ IF p = "pane" THEN TRUE ELSE UNCHANGED paneVars
    /\ IF p = "colours" THEN TRUE ELSE UNCHANGED hlVars
    /\ IF p = "info" THEN TRUE ELSE UNCHANGED infoVars
    /\ IF p = "popups" THEN TRUE ELSE UNCHANGED popupVars
    /\ IF p = "screen" THEN TRUE ELSE UNCHANGED screenVars
    /\ IF p = "sandbox" THEN TRUE ELSE UNCHANGED cellVars
    /\ IF p = "chat" THEN TRUE ELSE UNCHANGED chatVars

DeskNext ==
    \/ OnlyPart("keys") /\ ShellNext
    \/ OnlyPart("tree") /\ TreeNext
    \/ OnlyPart("git") /\ GitNext
    \/ OnlyPart("finder") /\ FinderNext
    \/ OnlyPart("pane") /\ PaneNext
    \/ OnlyPart("colours") /\ HlNext
    \/ OnlyPart("info") /\ InfoNext
    \/ OnlyPart("popups") /\ PopupNext
    \/ OnlyPart("screen") /\ ScreenNext
    \/ OnlyPart("sandbox") /\ CellNext
    \/ OnlyPart("chat") /\ ChatNext

\* The helper threads go on, and so does the thread that waits for them or, as long as the
\* editor is open, draws frames (the event loop wakes up every 200 ms, tui.rs:2702).
HelperSteps ==
    \/ OnlyPart("pane") /\ ReaderStep
    \/ OnlyPart("colours") /\ WorkerStep
    \/ OnlyPart("sandbox") /\ (Read \/ EndOfOutput)
CallerSteps ==
    \/ OnlyPart("pane") /\ stop /\ PaneExists /\ DropPane
    \/ OnlyPart("colours") /\ (FlushReceives \/ HlJoin \/ Refresh)
    \/ OnlyPart("sandbox") /\ (DeadlinePasses \/ Poll \/ JoinDrain)

Fairness == WF_deskVars(HelperSteps) /\ WF_deskVars(CallerSteps)

Desk == DeskInit /\ [][DeskNext]_deskVars

-----------------------------------------------------------------------------
\* Keys land on what the user sees: on a surface, a modal, a file, a node, a row of a box,
\* an item that matches or a question that is there, and shown as the one they act on.
KeysActOnWhatIsShown ==
    /\ part = "keys" => KeysReachWhatIsShown
    /\ part = "git" => GitSelectionIsAFile
    /\ part = "finder" => FinderListsTheMatches
    /\ part = "info" => InfoPlacesExist
    /\ part = "popups" => PopupShowsTheSelection
    /\ part = "chat" => QuestionIsSeen

\* What is handed over is what came of the work, however the threads take turns:
\* highlights only move forward, no query of a child is left without its answer, a command's
\* output is there from its start, the transcript is the talk, a reference of a manual that
\* was just selected is on the screen, an entry of the tree stays selected when the rows
\* are read again, and the terminal shows the frame: writing only what changed makes no
\* cell wrong.
OutcomesAreTrue ==
    [][/\ highlighted' >= highlighted /\ highlighted' <= requested'
       /\ NoQueryForgotten'
       /\ part = "sandbox" => OutputIsComplete'
       /\ part = "chat" => TranscriptIsTheTalk'
       /\ part = "info" => SelectionIsSeen
       /\ part = "tree" => TreeKeepsItsPlace
       /\ part = "screen" => FrameIsShown]_deskVars

\* The helper threads never keep anyone waiting for good: highlights reach the text,
\* joins return, and so does the run of a command.
HelpersKeepUp ==
    /\ part = "colours" => HighlightsCatchUp
    /\ DropReachesTheReader /\ RunsComeBack
=============================================================================
