----------------------------- MODULE AppShell -----------------------------
(***************************************************************************)
(* The application around the editor (mj/tui.rs, App): which surface has   *)
(* the focus, which modals, prompts and search are open, the shell's panel *)
(* and drop-down pane, the agent's sidebar, and the route a key takes to   *)
(* one of them.  The popups of the language client are LanguageFrontEnd's; *)
(* the text is its length and the cursor; what a search matches is any set *)
(* of places.                                                              *)
(***************************************************************************)
EXTENDS Integers, FiniteSets

CONSTANT MaxSize        \* bound: the length of the text

VARIABLES
    focus,          \* the surface that keys go to
    sidebar,        \* the explorer is shown
    explorer,       \* the explorer exists
    shell,          \* "none", "alive" or "dead"
    dropDown,       \* architect_terminal_visible
    nl,             \* the drop-down pane takes a line for the agent
    line,           \* that line has text
    panel,          \* the agent's sidebar is shown
    turn,           \* "idle", "running", "asking" (an approval), "askingEdit"
    open,           \* the modals that are open
    prompt,         \* "none", "blank" or "typed"
    promptAction,   \* what the prompt is for, or "none"
    search,         \* NoSearch, or its origin, query, matches and active match
    cursor, size

agentVars == <<panel, turn>>
termVars == <<shell, dropDown, nl, line>>
sideVars == <<sidebar, explorer>>
modalVars == <<open, prompt, promptAction>>
textVars == <<cursor, size>>
shellVars == <<focus, sideVars, termVars, agentVars, modalVars, search, textVars>>

NoSearch == [origin |-> -1, typed |-> FALSE, matches |-> {}, active |-> -1]

Searching == search # NoSearch

Modals == {"selector", "help", "finder", "palette", "preview", "info", "git"}

\* A first run asks for the key bindings, a path may ask for the Info reader.
ShellInit ==
    /\ focus = "Editor" /\ sidebar = FALSE /\ explorer = FALSE
    /\ shell = "none" /\ dropDown = FALSE /\ nl = FALSE /\ line = FALSE
    /\ panel = FALSE /\ turn = "idle"
    /\ open \in SUBSET {"selector", "info"} /\ prompt = "none" /\ promptAction = "none"
    /\ search = NoSearch /\ cursor = 0 /\ size = MaxSize

-----------------------------------------------------------------------------
(* What the handlers share.                                                *)

\* The first modal that is open takes every key (try_modal_key).
Captor ==
    IF "selector" \in open THEN "selector"
    ELSE IF "help" \in open THEN "help"
    ELSE IF open \cap {"finder", "palette"} # {} THEN "finder"
    ELSE IF "preview" \in open THEN "preview"
    ELSE IF "info" \in open THEN "info"
    ELSE IF prompt # "none" THEN "prompt"
    ELSE IF "git" \in open THEN "git"
    ELSE "none"

OpenPrompt(action, text) ==
    prompt' = (IF text THEN "typed" ELSE "blank") /\ promptAction' = action

NoPromptOpened == UNCHANGED <<prompt, promptAction>>

\* set_active_cursor
Clamped(at) == IF at > size THEN size ELSE at

\* A query has any matches; the first one at or after the origin becomes active,
\* else the first one, and the cursor goes there.
Recompute(typed, origin) ==
    /\ \E ms \in (IF typed THEN SUBSET (0..size) ELSE {{}}) :
           LET from == IF \E m \in ms : m >= origin THEN {m \in ms : m >= origin} ELSE ms
           IN  search' = [origin |-> origin, typed |-> typed, matches |-> ms,
                          active |-> IF ms = {} THEN -1
                                     ELSE CHOOSE m \in from : \A n \in from : m <= n]
    /\ cursor' = IF search'.active = -1 THEN cursor ELSE Clamped(search'.active)

OpenSearch == Recompute(FALSE, cursor)

\* Closing with Esc goes back to where the search began.
CloseSearch(cancel) ==
    /\ search' = NoSearch
    /\ cursor' = IF cancel THEN Clamped(search.origin) ELSE cursor

\* open_path: an Info document opens in its reader, anything else (or one that does
\* not parse) as a buffer at its begin; what cannot be opened changes nothing.
OpenPath ==
    \/ open' = (open \ {"finder", "palette"}) \cup {"info"} /\ focus' = "Editor"
       /\ UNCHANGED textVars
    \/ open' = open \ {"finder", "palette"} /\ focus' = "Editor"
       /\ cursor' = 0 /\ size' \in 0..MaxSize
    \/ open' = open \ {"finder", "palette"} /\ UNCHANGED <<focus, textVars>>

\* ask_agent; a turn that is running is not started again.
AskAgent ==
    /\ panel' = TRUE /\ focus' = "Architect"
    /\ turn' = IF turn = "idle" THEN "running" ELSE turn

-----------------------------------------------------------------------------
(* Keys that a modal takes.                                                *)

\* A letter of a profile, or Esc for the default one.
SelectorKey ==
    /\ Captor = "selector" /\ open' = open \ {"selector"}
    /\ NoPromptOpened
    /\ UNCHANGED <<focus, sideVars, termVars, agentVars, search, textVars>>

\* Esc, q and the key that opened it close a reader; the others scroll in it.
ReaderKey ==
    /\ Captor \in {"help", "preview", "info"} /\ open' = open \ {Captor}
    /\ NoPromptOpened
    /\ UNCHANGED <<focus, sideVars, termVars, agentVars, search, textVars>>

\* Esc, or Enter on no match.
FinderCancel ==
    /\ Captor = "finder" /\ open' = open \ {"finder", "palette"}
    /\ NoPromptOpened
    /\ UNCHANGED <<focus, sideVars, termVars, agentVars, search, textVars>>

FinderOpensFile ==
    /\ Captor = "finder" /\ "finder" \in open
    /\ OpenPath
    /\ NoPromptOpened
    /\ UNCHANGED <<sideVars, termVars, agentVars, search>>

\* A command of the palette: the ones of the application that prompt, and only with
\* the focus on the editor; find; and what the workspace executes.
FinderRunsCommand ==
    /\ Captor = "finder" /\ "palette" \in open
    /\ open' = open \ {"palette"}
    /\ \/ /\ \E action \in {"replaceSearch", "gotoLine", "symbol"} :
                 IF focus = "Editor" THEN OpenPrompt(action, FALSE) ELSE NoPromptOpened
          /\ UNCHANGED <<search, cursor>>
       \/ OpenSearch /\ NoPromptOpened
       \/ cursor' \in 0..size /\ UNCHANGED search /\ NoPromptOpened
    /\ UNCHANGED <<focus, sideVars, termVars, agentVars, size>>

\* c asks for the message; the prompt comes before the panel.
GitCommitKey ==
    /\ Captor = "git" /\ OpenPrompt("commit", FALSE)
    /\ UNCHANGED <<focus, open, sideVars, termVars, agentVars, search, textVars>>

GitClose ==
    /\ Captor = "git" /\ open' = open \ {"git"} /\ NoPromptOpened
    /\ UNCHANGED <<focus, sideVars, termVars, agentVars, search, textVars>>

PromptEdit ==
    /\ Captor = "prompt" /\ prompt' \in {"blank", "typed"}
    /\ UNCHANGED <<focus, open, promptAction, sideVars, termVars, agentVars, search, textVars>>

PromptCancel ==
    /\ Captor = "prompt" /\ prompt' = "none" /\ promptAction' = "none"
    /\ UNCHANGED <<focus, open, sideVars, termVars, agentVars, search, textVars>>

\* Enter: both fields are taken, then the action is done.  A search text opens the
\* second stage; the replacement changes the text; a line number moves the cursor;
\* the edited call answers an approval that still waits.  The rest is sent away.
PromptConfirm ==
    /\ Captor = "prompt"
    /\ IF promptAction = "replaceSearch" /\ prompt = "typed"
       THEN OpenPrompt("replaceWith", FALSE)
       ELSE prompt' = "none" /\ promptAction' = "none"
    /\ IF promptAction = "ask" /\ prompt = "typed"
       THEN AskAgent
       ELSE /\ UNCHANGED <<focus, panel>>
            /\ turn' = IF promptAction = "editApproval" /\ turn \in {"asking", "askingEdit"}
                       THEN "running" ELSE turn
    /\ size' \in IF promptAction = "replaceWith" THEN 0..MaxSize ELSE {size}
    /\ cursor' \in IF promptAction \in {"replaceWith", "gotoLine"} THEN 0..size' ELSE {cursor}
    /\ UNCHANGED <<open, sideVars, termVars, search>>

-----------------------------------------------------------------------------
(* Keys that the search line takes.                                        *)

SearchOn == Captor = "none" /\ Searching

SearchClose ==
    /\ SearchOn /\ \E cancel \in BOOLEAN : CloseSearch(cancel)
    /\ UNCHANGED <<focus, sideVars, termVars, agentVars, modalVars, size>>

SearchEdit ==
    /\ SearchOn /\ \E typed \in BOOLEAN : Recompute(typed, search.origin)
    /\ UNCHANGED <<focus, sideVars, termVars, agentVars, modalVars, size>>

\* The next or the previous match, around the ends.
SearchStep ==
    /\ SearchOn /\ search.matches # {}
    /\ \E forward \in BOOLEAN :
           LET ms == search.matches
               beyond == {m \in ms : IF forward THEN m > search.active ELSE m < search.active}
               on == IF beyond = {} THEN ms ELSE beyond
               to == CHOOSE m \in on : \A n \in on : IF forward THEN m <= n ELSE m >= n
           IN  search' = [search EXCEPT !.active = to] /\ cursor' = Clamped(to)
    /\ UNCHANGED <<focus, sideVars, termVars, agentVars, modalVars, size>>

-----------------------------------------------------------------------------
(* The keys of the application.  A search that is open accepts where it is. *)

Routed == Captor = "none" /\ search' = NoSearch

OpenModalKey ==
    /\ Routed
    /\ \E modal \in Modals \ {"selector", "info"} : open' = open \cup {modal}
    /\ NoPromptOpened
    /\ UNCHANGED <<focus, sideVars, termVars, agentVars, textVars>>

\* Rename, from the editor where a server handles the file: the prompt has the name.
RenameKey ==
    /\ Routed /\ focus = "Editor" /\ \E named \in BOOLEAN : OpenPrompt("rename", named)
    /\ UNCHANGED <<focus, open, sideVars, termVars, agentVars, textVars>>

\* F12: a shell that does not live is spawned, which may fail; one that lives gets or
\* gives up the focus.
ToggleTerminal ==
    /\ Routed
    /\ IF shell = "alive"
       THEN /\ focus' = IF focus = "Terminal" THEN "Editor" ELSE "Terminal"
            /\ UNCHANGED shell
       ELSE /\ shell' \in {"alive", "none"}
            /\ focus' = IF shell' = "alive" THEN "Terminal" ELSE "Editor"
    /\ UNCHANGED <<dropDown, nl, line, sideVars, agentVars, modalVars, textVars>>

\* The drop-down pane is hidden, or shown over a shell that may have to be spawned;
\* one that is dead is shown until a frame reaps it.
ToggleDropDown ==
    /\ Routed
    /\ IF dropDown
       THEN /\ dropDown' = FALSE
            /\ focus' = IF focus = "DropDown" THEN "Editor" ELSE focus
            /\ UNCHANGED <<shell, nl>>
       ELSE /\ shell' \in IF shell = "none" THEN {"alive", "none"} ELSE {shell}
            /\ IF shell' = "none" THEN UNCHANGED <<dropDown, nl, focus>>
               ELSE dropDown' = TRUE /\ nl' = FALSE /\ focus' = "DropDown"
    /\ UNCHANGED <<line, sideVars, agentVars, modalVars, textVars>>

\* Mutant of ToggleSidebar: the explorer is hidden and keeps the focus.
ToggleSidebarKeepsFocus ==
    /\ Routed
    /\ sidebar' = (IF ~sidebar THEN TRUE ELSE focus # "Explorer")
    /\ explorer' = TRUE /\ focus' = "Explorer"
    /\ UNCHANGED <<termVars, agentVars, modalVars, textVars>>

\* Ctrl+B: shown and focused, focused, or hidden when it has the focus.
ToggleSidebar ==
    /\ Routed
    /\ IF ~sidebar
       THEN sidebar' = TRUE /\ explorer' = TRUE /\ focus' = "Explorer"
       ELSE /\ sidebar' = (focus # "Explorer")
            /\ focus' = IF focus = "Explorer" THEN "Editor" ELSE "Explorer"
            /\ UNCHANGED explorer
    /\ UNCHANGED <<termVars, agentVars, modalVars, textVars>>

ToggleAgent ==
    /\ Routed
    /\ IF ~panel
       THEN panel' = TRUE /\ focus' = "Architect"
       ELSE /\ panel' = (focus # "Architect")
            /\ focus' = IF focus = "Architect" THEN "Editor" ELSE "Architect"
    /\ UNCHANGED <<turn, sideVars, termVars, modalVars, textVars>>

\* The kill switch: an approval that waits is rejected.
StopAgent ==
    /\ Routed /\ turn' = IF turn = "idle" THEN "idle" ELSE "running"
    /\ UNCHANGED <<focus, panel, sideVars, termVars, modalVars, textVars>>

AskKey ==
    /\ Routed /\ OpenPrompt("ask", FALSE)
    /\ UNCHANGED <<focus, open, sideVars, termVars, agentVars, textVars>>

-----------------------------------------------------------------------------
(* Keys of the surface with the focus.                                     *)

\* An approval takes every key of the sidebar: yes, no, or edit when it can be.
ApprovalKey ==
    /\ Routed /\ focus = "Architect" /\ turn \in {"asking", "askingEdit"}
    /\ \/ turn' = "running" /\ NoPromptOpened
       \/ turn = "askingEdit" /\ OpenPrompt("editApproval", TRUE) /\ UNCHANGED turn
    /\ UNCHANGED <<focus, open, panel, sideVars, termVars, textVars>>

\* Esc leaves; Enter submits the line.
SidebarKey ==
    /\ Routed /\ focus = "Architect" /\ turn \in {"idle", "running"}
    /\ \/ focus' = "Editor" /\ UNCHANGED turn
       \/ turn' = "running" /\ UNCHANGED focus
    /\ UNCHANGED <<panel, sideVars, termVars, modalVars, textVars>>

\* Tab turns the pane between the shell and a line for the agent; in the line Enter
\* asks, Esc gives it up.  In shell mode a key goes to the shell and changes nothing
\* here.
DropDownKey ==
    /\ Routed /\ focus = "DropDown"
    /\ \/ ~nl /\ nl' = TRUE /\ line' = FALSE /\ UNCHANGED <<focus, agentVars>>
       \/ nl /\ nl' = FALSE /\ line' = FALSE /\ UNCHANGED <<focus, agentVars>>
       \/ nl /\ line' \in BOOLEAN /\ UNCHANGED <<nl, focus, agentVars>>
       \/ nl /\ line /\ nl' = FALSE /\ line' = FALSE /\ AskAgent
    /\ UNCHANGED <<shell, dropDown, sideVars, modalVars, textVars>>

\* Esc leaves, Enter opens a file; the rest is FileTree's.
ExplorerKey ==
    /\ Routed /\ focus = "Explorer"
    /\ \/ focus' = "Editor" /\ UNCHANGED <<open, textVars>>
       \/ OpenPath
    /\ NoPromptOpened
    /\ UNCHANGED <<sideVars, termVars, agentVars>>

\* A key of the editor moves or edits; find opens the search line.
EditorKey ==
    /\ Captor = "none" /\ focus = "Editor"
    /\ \/ /\ search' = NoSearch
          /\ size' \in {n \in 0..MaxSize : n - size \in -1..1} /\ cursor' \in 0..size'
       \/ OpenSearch /\ UNCHANGED size
    /\ UNCHANGED <<focus, sideVars, termVars, agentVars, modalVars>>

\* A paste goes to the shell of the bottom panel, else into the text: no modal, no
\* prompt, no search line and no other surface is asked.
Paste ==
    /\ ~(focus = "Terminal" /\ shell # "none")
    /\ size < MaxSize /\ size' = size + 1 /\ cursor' = cursor + 1
    /\ UNCHANGED <<focus, sideVars, termVars, agentVars, modalVars, search>>

-----------------------------------------------------------------------------
(* What happens without a key.                                             *)

ShellExits ==
    /\ shell = "alive" /\ shell' = "dead"
    /\ UNCHANGED <<focus, dropDown, nl, line, sideVars, agentVars, modalVars, search, textVars>>

\* tick: a dead shell is reaped and the focus goes to the editor, wherever it was;
\* then the agent's events are taken, unless an approval waits.
Tick ==
    /\ IF shell = "dead"
       THEN shell' = "none" /\ dropDown' = FALSE /\ focus' = "Editor"
       ELSE UNCHANGED <<shell, dropDown, focus>>
    /\ turn' \in IF turn = "running" THEN {"idle", "running", "asking", "askingEdit"} ELSE {turn}
    /\ UNCHANGED <<nl, line, panel, sideVars, modalVars, search, textVars>>

ShellNext ==
    \/ SelectorKey \/ ReaderKey \/ FinderCancel \/ FinderOpensFile \/ FinderRunsCommand
    \/ GitCommitKey \/ GitClose \/ PromptEdit \/ PromptCancel \/ PromptConfirm
    \/ SearchClose \/ SearchEdit \/ SearchStep
    \/ OpenModalKey \/ RenameKey \/ ToggleTerminal \/ ToggleDropDown \/ ToggleSidebar
    \/ ToggleAgent \/ StopAgent \/ AskKey
    \/ ApprovalKey \/ SidebarKey \/ DropDownKey \/ ExplorerKey \/ EditorKey \/ Paste
    \/ ShellExits \/ Tick

-----------------------------------------------------------------------------
\* The surface with the focus is there to be seen.  (The panel at the bottom has the
\* shell that the drop-down pane shows too.)
FocusHasItsSurface ==
    /\ focus = "Explorer" => sidebar /\ explorer
    /\ focus = "Architect" => panel
    /\ focus = "Terminal" => shell # "none"
    /\ focus = "DropDown" => dropDown /\ shell # "none"

\* Modals do not stack, but for the two that are there at the start and the commit
\* prompt over the Git panel; nothing captures keys under a search line but a modal
\* that closes it first.
ModalsDoNotStack ==
    /\ open \in {{}, {"selector", "info"}} \cup {{m} : m \in Modals}
    /\ prompt # "none" => open \subseteq {"git"}
    /\ Searching => open = {} /\ prompt = "none"

\* prompt_action is "Some exactly when prompt is" (tui.rs:270), a prompt over the Git
\* panel is its commit message, and an approval is edited only while it waits.
PromptHasItsAction ==
    /\ (prompt = "none") = (promptAction = "none")
    /\ prompt # "none" => (promptAction = "commit") = ("git" \in open)
    /\ promptAction = "editApproval" => turn = "askingEdit"

KeysReachWhatIsShown == FocusHasItsSurface /\ ModalsDoNotStack /\ PromptHasItsAction
=============================================================================
