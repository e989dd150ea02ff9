-------------------------- MODULE LanguageFrontEnd --------------------------
(***************************************************************************)
(* The front-end's use of the language client (App of mj/tui.rs): document *)
(* sync, requests by key, popups, edits that come back.                    *)
(*                                                                         *)
(* The loop draws a frame, then takes one event.  A frame syncs the active *)
(* buffer, polls, applies the outcomes one after the other, then looks at  *)
(* the debounced requests; an event is a key or nothing.                   *)
(*                                                                         *)
(* Simplifications: the text of a buffer is named by its place among the   *)
(* buffers and its revision; a cursor is on a name or not, and where a     *)
(* revealed buffer's cursor is, is open; a deadline of the debounce is     *)
(* past or not at any frame; of the surfaces that take the keyboard away   *)
(* from the editor there is one; movement inside a popup changes nothing.  *)
(***************************************************************************)
EXTENDS LanguageClient

CONSTANTS MaxKeys   \* bound: keys

VARIABLES
    pc,             \* "frame", "apply" (outcomes) or "event"
    batch,          \* the outcomes of this frame that are not applied
    buffers,        \* path and revision of each open buffer
    active,         \* the one in the focused pane
    onName,         \* its cursor is on an identifier
    focus,          \* the editor has the keyboard
    popups,         \* what is shown at the cursor
    finder, search, \* the file finder and the search line are open
    prompt,         \* what the prompt asks, of which path, or None
    synced,         \* lsp_synced: revision last sent, of each path
    anchor,         \* highlight_anchor: the path whose name is tinted, or None
    pendingLsp,     \* the debounced highlight or signature request, or None
    pendingInlay,   \* the path whose hints are to be asked for, or None
    formatRequest,  \* path and revision of the last format request, or None
    keys            \* keys so far (bounds the run)

syncVars == <<synced, pendingInlay>>
bufferVars == <<buffers, active, onName>>
modalVars == <<focus, popups, finder, search, prompt>>
hintVars == <<anchor, pendingLsp>>
appVars == <<pc, batch, bufferVars, modalVars, syncVars, hintVars, formatRequest, keys>>
vars == <<clientVars, appVars>>

ActivePath == buffers[active].path
TextOf(i) == <<i, buffers[i].rev>>
Edited(bs, i) == [bs EXCEPT ![i].rev = @ + 1]

\* Handled by a server, and the keyboard in the editor.
Target == IF focus /\ Handles(ActivePath) THEN ActivePath ELSE None

Init ==
    /\ ClientInit
    /\ pc = "frame" /\ batch = <<>>
    /\ \E p \in Paths : buffers = <<[path |-> p, rev |-> 0]>>
    /\ active = 1 /\ onName = FALSE
    /\ focus = TRUE /\ popups = {} /\ finder = FALSE /\ search = FALSE /\ prompt = None
    /\ synced = <<>> /\ pendingInlay = None
    /\ anchor = None /\ pendingLsp = None /\ formatRequest = None /\ keys = 0

-----------------------------------------------------------------------------
(* A frame.                                                                *)

News(os) == [i \in DOMAIN os |-> [kind |-> os[i].kind, path |-> os[i].path, what |-> os[i].what]]

\* The active buffer is opened in its server the first time, sent whole when its revision
\* is not the one last sent; then the server is polled.  What there is to write has to go
\* into the pipe: a frame waits for a server that does not read.
SyncLsp ==
    /\ pc = "frame"
    /\ LET p == ActivePath
           due == Handles(p) /\ ~(p \in DOMAIN synced /\ synced[p] = buffers[active].rev)
           m == IF ~due THEN lsp
                ELSE IF p \in DOMAIN synced THEN Change(lsp, p, TextOf(active))
                ELSE Open(lsp, p, TextOf(active))
       IN  /\ full => ~(due /\ m.slot = "ready") /\ ~PollWrites(m)
           /\ lsp' = Poll(m)
           /\ startup' = IF lsp.slot = "none" /\ m.slot = "starting" THEN "spawning" ELSE startup
           /\ IF due /\ Sent(m) THEN synced' = With(synced, p, buffers[active].rev) /\ pendingInlay' = p
              ELSE UNCHANGED syncVars
           /\ IF lsp'.slot = "ready"
              THEN batch' = News(outcomes) \o CommandEdits(bus.edits) /\ bus' = Silence
              ELSE batch' = News(outcomes) /\ UNCHANGED bus
    /\ outcomes' = <<>> /\ pc' = "apply"
    /\ UNCHANGED <<server, full, work, asked, pending, questions, bufferVars, modalVars, hintVars,
                   formatRequest, keys>>

Take(kinds) == pc = "apply" /\ batch # <<>> /\ Head(batch).kind \in kinds /\ batch' = Tail(batch)

\* An outcome counts only for the buffer that has the focus.
Focused == focus /\ Head(batch).path = ActivePath

\* Hints and folds go to their buffer whatever the focus; other outcomes are dropped.
ApplyStale ==
    /\ Take(Kinds) /\ (~Focused \/ Head(batch).kind \in {"inlay", "folds"})
    /\ UNCHANGED <<clientVars, pc, bufferVars, modalVars, syncVars, hintVars, formatRequest, keys>>

\* The popups at the cursor exclude one another.
\* Mutant of ShowPopup: the others stay.
ShowPopupToo ==
    /\ Take(Popups) /\ Focused
    /\ popups' = IF Head(batch).what # None THEN popups \cup {Head(batch).kind}
                 ELSE IF Head(batch).kind = "signature" THEN popups \ {"signature"} ELSE popups
    /\ UNCHANGED <<clientVars, pc, bufferVars, focus, finder, search, prompt, syncVars, hintVars,
                   formatRequest, keys>>

ShowPopup ==
    /\ Take(Popups) /\ Focused
    /\ popups' = IF Head(batch).what # None THEN {Head(batch).kind}
                 ELSE IF Head(batch).kind = "signature" THEN popups \ {"signature"} ELSE popups
    /\ UNCHANGED <<clientVars, pc, bufferVars, focus, finder, search, prompt, syncVars, hintVars,
                   formatRequest, keys>>

\* The first buffer of a path, or a new one (a file that cannot be opened is left).
RevealIn(bs, p) ==
    LET open == {i \in DOMAIN bs : bs[i].path = p}
    IN  IF open # {} THEN [buffers |-> bs, active |-> Min(open)]
        ELSE [buffers |-> Append(bs, [path |-> p, rev |-> 0]), active |-> Len(bs) + 1]
Reveal(p) == RevealIn(buffers, p)

ApplyGoto ==
    /\ Take({"goto"}) /\ Focused
    /\ \/ UNCHANGED <<bufferVars, popups>>
       \/ /\ Head(batch).what # None
          /\ LET r == Reveal(Head(batch).what) IN buffers' = r.buffers /\ active' = r.active
          /\ onName' \in BOOLEAN /\ popups' = {}
    /\ UNCHANGED <<clientVars, pc, focus, finder, search, prompt, syncVars, hintVars, formatRequest, keys>>

\* Edits of a rename or a command: the file is revealed, edited, and the buffer from which it
\* was started revealed again, by its path.
ApplyWorkspaceEdits(p) ==
    IF p = None THEN UNCHANGED bufferVars
    ELSE LET r == Reveal(p)
             back == RevealIn(Edited(r.buffers, r.active), ActivePath)
         IN  buffers' = back.buffers /\ active' = back.active /\ onName' \in BOOLEAN

ApplyRename ==
    /\ Take({"rename"}) /\ Focused
    /\ ApplyWorkspaceEdits(Head(batch).what)
    /\ UNCHANGED <<clientVars, pc, modalVars, syncVars, hintVars, formatRequest, keys>>

ApplyEdit ==
    /\ Take({"edits"})
    /\ ApplyWorkspaceEdits(Head(batch).what)
    /\ UNCHANGED <<clientVars, pc, modalVars, syncVars, hintVars, formatRequest, keys>>

\* Which occurrences are tinted is not kept.
ApplyHighlight ==
    /\ Take({"highlight"}) /\ Focused
    /\ UNCHANGED <<clientVars, pc, bufferVars, modalVars, syncVars, hintVars, formatRequest, keys>>

\* The whole text is replaced, if the buffer is on the revision of the last request.
ApplyFormatting ==
    /\ Take({"format"}) /\ Focused
    /\ formatRequest' = None
    /\ IF /\ formatRequest # None /\ Head(batch).what # None
          /\ formatRequest = [path |-> ActivePath, rev |-> buffers[active].rev]
          /\ Head(batch).path = ActivePath
       THEN /\ buffers' = Edited(buffers, active) /\ onName' \in BOOLEAN
            /\ popups' = popups \ {"completion", "hover"}
       ELSE UNCHANGED <<buffers, onName, popups>>
    /\ UNCHANGED <<clientVars, pc, active, focus, finder, search, prompt, syncVars, hintVars, keys>>

\* The cursor came to another name or left it: what is tinted is dropped and asked for anew.
RefreshDocumentHighlight ==
    LET target == IF onName THEN Target ELSE None
    IN  IF search \/ anchor = target THEN [anchor |-> anchor, pending |-> pendingLsp]
        ELSE [anchor |-> target,
              pending |-> IF target # None THEN [kind |-> "highlight", path |-> target]
                          ELSE IF pendingLsp # None /\ pendingLsp.kind = "highlight" THEN None
                          ELSE pendingLsp]

\* The debounced requests whose deadline has passed are made.
FireDueLsp ==
    /\ pc = "apply" /\ batch = <<>> /\ pc' = "event"
    /\ LET r == RefreshDocumentHighlight
       IN  /\ anchor' = r.anchor
           /\ \/ pendingLsp' = r.pending /\ UNCHANGED <<pendingInlay, work, asked>>
              \/ /\ r.pending # None /\ asked < MaxAsked
                 /\ IF r.pending.kind = "highlight" THEN RequestDocumentHighlight(r.pending.path)
                    ELSE RequestSignatureHelp(r.pending.path)
                 /\ pendingLsp' = None /\ UNCHANGED pendingInlay
              \/ /\ pendingInlay # None /\ asked + 1 < MaxAsked
                 /\ IF CanAsk(pendingInlay)
                    THEN /\ work' = work \cup {RequestInlayHints(pendingInlay), RequestFoldingRanges(pendingInlay)}
                         /\ asked' = asked + 2
                    ELSE UNCHANGED <<work, asked>>
                 /\ pendingInlay' = None /\ pendingLsp' = r.pending
    /\ UNCHANGED <<pipeVars, pending, questions, outcomes, batch, bufferVars, modalVars, synced,
                   formatRequest, keys>>

-----------------------------------------------------------------------------
(* Events.  A key that no popup takes dismisses it, but for the signature; *)
(* the search line takes letters and is closed by other keys.              *)

AtEvent == pc = "event" /\ pc' = "frame" /\ UNCHANGED batch
Press == AtEvent /\ keys < MaxKeys /\ keys' = keys + 1
Dismissed == popups \cap {"signature"}

NoEvent == AtEvent /\ UNCHANGED <<clientVars, bufferVars, modalVars, syncVars, hintVars, formatRequest, keys>>

\* A key that reaches the editor.
EditorKey ==
    /\ Press /\ ~finder /\ prompt = None
    /\ popups' = Dismissed /\ search' = FALSE /\ UNCHANGED <<finder, prompt>>

Type ==
    /\ EditorKey /\ focus /\ ~search
    /\ buffers' = Edited(buffers, active) /\ onName' \in BOOLEAN
    /\ UNCHANGED <<clientVars, active, focus, syncVars, hintVars, formatRequest>>

\* A bracket or comma is typed: the signature is asked for once typing settles.
TriggerSignatureHelp ==
    /\ EditorKey /\ focus /\ ~search
    /\ buffers' = Edited(buffers, active) /\ onName' = FALSE
    /\ pendingLsp' = IF Target = None THEN pendingLsp ELSE [kind |-> "signature", path |-> Target]
    /\ UNCHANGED <<clientVars, active, focus, syncVars, anchor, formatRequest>>

Move ==
    /\ EditorKey /\ focus
    /\ onName' \in BOOLEAN
    /\ UNCHANGED <<clientVars, buffers, active, focus, syncVars, hintVars, formatRequest>>

\* Another pane, tab or surface is focused.
SwitchBuffer ==
    /\ EditorKey /\ focus
    /\ active' \in DOMAIN buffers /\ onName' \in BOOLEAN
    /\ UNCHANGED <<clientVars, buffers, focus, syncVars, hintVars, formatRequest>>

SwitchFocus ==
    /\ EditorKey /\ focus' = ~focus
    /\ UNCHANGED <<clientVars, bufferVars, syncVars, hintVars, formatRequest>>

\* A key that asks the server about the active buffer.
TriggerOf(Request(_)) ==
    /\ EditorKey /\ Target # None /\ asked < MaxAsked
    /\ Request(Target)
    /\ UNCHANGED <<pipeVars, pending, questions, outcomes, bufferVars, focus, syncVars, hintVars>>

TriggerCompletion == TriggerOf(RequestCompletion) /\ UNCHANGED formatRequest
TriggerHover == TriggerOf(RequestHover) /\ UNCHANGED formatRequest
TriggerGotoDefinition == TriggerOf(RequestGoto) /\ UNCHANGED formatRequest
TriggerTypeDefinition == TriggerOf(RequestGoto) /\ UNCHANGED formatRequest
TriggerImplementation == TriggerOf(RequestGoto) /\ UNCHANGED formatRequest
TriggerReferences == TriggerOf(RequestReferences) /\ UNCHANGED formatRequest
TriggerDocumentSymbols == TriggerOf(RequestDocumentSymbols) /\ UNCHANGED formatRequest
TriggerCodeActions == TriggerOf(RequestCodeAction) /\ UNCHANGED formatRequest
TriggerFormatting ==
    /\ TriggerOf(RequestFormatting)
    /\ formatRequest' = [path |-> ActivePath, rev |-> buffers[active].rev]

TryLspTrigger ==
    \/ TriggerCompletion \/ TriggerHover \/ TriggerGotoDefinition
    \/ TriggerTypeDefinition \/ TriggerImplementation \/ TriggerReferences
    \/ TriggerDocumentSymbols \/ TriggerCodeActions \/ TriggerFormatting

\* The prompts: a new name, a symbol of the project.
OpenPrompt(kind) ==
    /\ Press /\ ~finder /\ prompt = None /\ Target # None
    /\ prompt' = [kind |-> kind, path |-> Target]
    /\ popups' = Dismissed /\ search' = FALSE
    /\ UNCHANGED <<clientVars, bufferVars, focus, finder, syncVars, hintVars, formatRequest>>

TriggerRename == OpenPrompt("rename")
TriggerWorkspaceSymbols == OpenPrompt("symbol")

\* A rename goes where it was opened, a symbol to the buffer of now; an empty entry or Esc
\* closes only.
ConfirmPrompt ==
    /\ Press /\ prompt # None /\ prompt' = None
    /\ \/ UNCHANGED <<work, asked>>
       \/ asked < MaxAsked /\ prompt.kind = "rename" /\ RequestRename(prompt.path)
       \/ asked < MaxAsked /\ prompt.kind = "symbol" /\ RequestWorkspaceSymbols(ActivePath)
    /\ UNCHANGED <<pipeVars, pending, questions, outcomes, bufferVars, focus, popups, finder, search,
                   syncVars, hintVars, formatRequest>>

\* The popups' own keys: Esc; Enter, which inserts, jumps or runs the action.
PopupKey(kind) == Press /\ ~finder /\ prompt = None /\ kind \in popups /\ popups' = popups \ {kind}

DismissPopup ==
    /\ \E kind \in popups : PopupKey(kind)
    /\ UNCHANGED <<clientVars, bufferVars, focus, finder, search, prompt, syncVars, hintVars, formatRequest>>

AcceptCompletion ==
    /\ PopupKey("completion")
    /\ buffers' = Edited(buffers, active) /\ onName' \in BOOLEAN
    /\ UNCHANGED <<clientVars, active, focus, finder, search, prompt, syncVars, hintVars, formatRequest>>

JumpToSelectedReference ==
    /\ PopupKey("references")
    /\ \E p \in Paths : LET r == Reveal(p) IN buffers' = r.buffers /\ active' = r.active
    /\ onName' \in BOOLEAN
    /\ UNCHANGED <<clientVars, focus, finder, search, prompt, syncVars, hintVars, formatRequest>>

JumpToSelectedSymbol ==
    /\ PopupKey("symbols")
    /\ onName' \in BOOLEAN
    /\ UNCHANGED <<clientVars, buffers, active, focus, finder, search, prompt, syncVars, hintVars, formatRequest>>

\* An action with edits applies them, one without runs its command.
ApplySelectedCodeAction ==
    /\ PopupKey("actions")
    /\ \/ /\ \E p \in Paths : ApplyWorkspaceEdits(p)
          /\ UNCHANGED <<work, asked>>
       \/ /\ asked < MaxAsked /\ RequestExecuteCommand(ActivePath)
          /\ UNCHANGED bufferVars
    /\ UNCHANGED <<pipeVars, pending, questions, outcomes, focus, finder, search, prompt, syncVars,
                   hintVars, formatRequest>>

OpenSearch ==
    /\ Press /\ ~finder /\ prompt = None /\ focus /\ ~search /\ search' = TRUE
    /\ popups' = Dismissed
    /\ UNCHANGED <<clientVars, bufferVars, focus, finder, prompt, syncVars, hintVars, formatRequest>>

OpenFinder ==
    /\ Press /\ ~finder /\ prompt = None /\ finder' = TRUE
    /\ popups' = Dismissed /\ search' = FALSE
    /\ UNCHANGED <<clientVars, bufferVars, focus, prompt, syncVars, hintVars, formatRequest>>

\* A file is opened in a buffer of its own, whether or not it is open.
FinderAccept ==
    /\ Press /\ finder /\ finder' = FALSE
    /\ \/ UNCHANGED <<bufferVars, focus>>
       \/ \E p \in Paths : /\ buffers' = Append(buffers, [path |-> p, rev |-> 0])
                           /\ active' = Len(buffers) + 1 /\ onName' = FALSE /\ focus' = TRUE
    /\ UNCHANGED <<clientVars, popups, search, prompt, syncVars, hintVars, formatRequest>>

-----------------------------------------------------------------------------

Frame ==
    \/ SyncLsp \/ FireDueLsp
    \/ ApplyStale \/ ShowPopup \/ ApplyGoto \/ ApplyRename \/ ApplyEdit \/ ApplyHighlight
    \/ ApplyFormatting

Event ==
    \/ NoEvent \/ Type \/ Move \/ SwitchBuffer \/ SwitchFocus
    \/ TryLspTrigger \/ TriggerSignatureHelp \/ TriggerRename \/ TriggerWorkspaceSymbols
    \/ ConfirmPrompt \/ DismissPopup \/ AcceptCompletion \/ JumpToSelectedReference
    \/ JumpToSelectedSymbol \/ ApplySelectedCodeAction
    \/ OpenSearch \/ OpenFinder \/ FinderAccept

\* Whether the server reads matters when something is to be written, by a worker or by the
\* next frame: only then the pipe is looked at.
WriteIsDue ==
    LET p == ActivePath
    IN  \/ \E w \in work : w.at = "spawned"
        \/ /\ pc = "frame"
           /\ \/ lsp.slot = "starting" \/ bus.edits # <<>>
              \/ Handles(p) /\ ~(p \in DOMAIN synced /\ synced[p] = buffers[active].rev)

Next ==
    \/ Frame \/ Event
    \/ /\ \/ StartupStep \/ ServerDies
          \/ PipeStep /\ (full' => WriteIsDue)
          \/ \E w \in work : WorkerStep(w)
          \/ \E q \in questions : ServerAnswers(q)
          \/ \E p \in Paths : ServerPublishes(p) \/ ServerEdits(p)
       /\ UNCHANGED appVars

\* A worker runs on, its timeout passes, and it gets the writer's mutex in the end if the pipe
\* takes writes again and again; nothing is assumed of the server or the user.
Fairness ==
    \A i \in 1..MaxAsked :
        SF_vars((\E w \in work : w.id = i /\ WorkerStep(w)) /\ UNCHANGED appVars)

Spec == Init /\ [][Next]_vars
FairSpec == Spec /\ Fairness

-----------------------------------------------------------------------------
(* Properties.                                                             *)

\* Each variable has its type.
LanguageTypeOK ==
    /\ pc \in {"frame", "apply", "event"}
    /\ lsp.slot \in {"none", "starting", "ready", "failed"}
    /\ DOMAIN lsp.held \subseteq DOMAIN lsp.docs /\ DOMAIN lsp.docs \subseteq Handled
    /\ startup \in {"idle", "spawning", "waiting", "ok", "failed"}
    /\ server \in {"none", "alive", "dead"} /\ full \in BOOLEAN
    /\ active \in DOMAIN buffers /\ popups \subseteq Popups
    /\ DOMAIN synced \subseteq Handled /\ asked \in 0..MaxAsked
    /\ \A w \in work : w.id \in 1..asked /\ w.kind \in Kinds /\ w.at \in {"spawned", "waiting"}

OpenedTwice(i) == \E j \in DOMAIN buffers \ {i} : buffers[j].path = buffers[i].path
Synced(i) ==
    LET p == buffers[i].path
    IN  p \in DOMAIN synced /\ synced[p] = buffers[i].rev /\ ~OpenedTwice(i)

\* A live server that is ready holds of every document the text that the manager converts
\* positions against, and of a buffer that counts as synced the text of its revision,
\* however long it took to start and whatever was typed and opened meanwhile (a path that
\* is open twice is excepted: what is synced is remembered by path).
ServerIsUpToDate ==
    (lsp.slot = "ready" /\ server = "alive") =>
        /\ \A p \in DOMAIN lsp.docs : /\ p \in DOMAIN lsp.held
                                      /\ lsp.held[p].text = lsp.docs[p].text
        /\ \A i \in DOMAIN buffers : Synced(i) => lsp.docs[buffers[i].path].text = TextOf(i)

\* Of each document the server is sent versions that strictly increase (up to the one from
\* which they are not told apart), and it is opened there once (the contract of did_change).
VersionsIncrease ==
    [][\A p \in DOMAIN lsp.held :
          /\ p \in DOMAIN lsp'.held
          /\ (lsp'.held[p] # lsp.held[p] /\ lsp.held[p].version < MaxVersion) =>
                lsp'.held[p].version > lsp.held[p].version]_vars

\* At most one popup is shown at the cursor, however late answers come.
OnePopup == Cardinality(popups) <= 1

\* A worker that waits is registered, and an outcome with something in it comes from the
\* answer to its own request, whatever else was asked, answered late or given up meanwhile.
EachItsOwnAnswer ==
    /\ \A w \in work : w.at = "waiting" => w.id \in pending
    /\ \A o \in ToSet(outcomes) : o.what # None => o.answer = o.id

\* Every request ends with a result, if only an empty one, whether the server is slow, stuck
\* or gone, unless it cannot be written because the server stops reading for ever:
\* request_timeout bounds the wait for the answer and not the write (connection.rs:127), though
\* "a slow or stuck server must not pin the thread forever" (connection.rs:112).
Ended(i) == \A w \in work : w.id # i
Blocked(i) == full /\ \E w \in work : w.id = i /\ w.at = "spawned"

EveryRequestEnds ==
    \A i \in 1..MaxAsked : <>[](asked >= i /\ ~Ended(i)) => <>[]Blocked(i)
=============================================================================
