--------------------------- MODULE LanguageClient ---------------------------
(***************************************************************************)
(* The client of a language server (majestic-lsp: LspManager, Connection,  *)
(* LanguageServer) with the server as its environment.                     *)
(*                                                                         *)
(* Threads: the editor's, which opens and changes documents, asks and      *)
(* polls; one that starts the server; one worker per request, which waits  *)
(* with a timeout; the connection's reader, which hands an answer to the   *)
(* worker that waits for it or puts a push on the incoming bus.  The pipe  *)
(* is first in, first out: what the server holds is what was written last, *)
(* and a request finds the text that was written before it.  A server that *)
(* does not read lets the pipe fill up; from then on every write blocks,   *)
(* with no timeout and holding the writer's mutex, so that whoever has     *)
(* something to write (a worker, the editor) waits until it reads on.      *)
(*                                                                         *)
(* Simplifications: one language, so one server; texts are values; an      *)
(* answer travels in no time once it is given; the id of a request is      *)
(* taken when its worker is spawned and not when it runs; what an answer   *)
(* says is reduced to what the editor tells apart (LspAnswers has the      *)
(* conversions).                                                           *)
(***************************************************************************)
EXTENDS Naturals, FiniteSets, SequencesExt

CONSTANTS
    Paths,          \* files
    Handled,        \* those with a configured extension
    MaxAsked,       \* bound: requests
    MaxVersion,     \* versions from here on are not told apart
    Some, None      \* an answer with something to show, and nothing

ASSUME ClientAssumption ==
    /\ Handled \subseteq Paths /\ MaxAsked \in Nat /\ MaxVersion \in Nat /\ None \notin Paths

VARIABLES
    lsp,        \* LspManager: slot of the server, docs, and what the server was sent of them
    startup,    \* the thread of ensure_server_starting: "idle", "spawning",
                \* "waiting", "ok" or "failed"
    server,     \* the process: "none", "alive" or "dead"
    full,       \* the server does not read, and nothing more fits into its pipe
    work,       \* the workers of requests
    asked,      \* requests so far (their ids, and the bound of the run)
    pending,    \* ids whose answer a worker waits for
    questions,  \* what the server has not answered: id and kind
    bus,        \* what the server said unasked, until the next poll: the paths it
                \* published diagnostics about, and the edits of commands
    outcomes    \* results on their way to the editor

clientVars == <<lsp, startup, server, full, work, asked, pending, questions, bus, outcomes>>
pipeVars == <<lsp, startup, server, full, bus>>
workVars == <<work, asked, pending, questions, outcomes>>

Popups == {"completion", "hover", "references", "symbols", "signature", "actions"}
Kinds == Popups \cup {"goto", "highlight", "inlay", "folds", "rename", "format", "command"}

Silence == [about |-> {}, edits |-> <<>>]

Handles(p) == p \in Handled

\* What the status line says of the server of a path.
ServerHealth(p) ==
    IF ~Handles(p) THEN None ELSE IF lsp.slot = "none" THEN "starting" ELSE lsp.slot

ClientInit ==
    /\ lsp = [slot |-> "none", docs |-> <<>>, held |-> <<>>]
    /\ startup = "idle" /\ server = "none" /\ full = FALSE
    /\ work = {} /\ asked = 0 /\ pending = {} /\ questions = {} /\ bus = Silence /\ outcomes = <<>>

-----------------------------------------------------------------------------
(* Document sync: operators on the manager's record.                       *)

Delivers(m) == m.slot = "ready" /\ server = "alive"

\* A notification fails only when the server is ready and gone.
Sent(m) == m.slot # "ready" \/ server = "alive"

With(f, p, v) == [x \in DOMAIN f \cup {p} |-> IF x = p THEN v ELSE f[x]]
Content(doc) == [version |-> doc.version, text |-> doc.text]

\* The server takes the text of p over from the manager.
Notify(m, p) ==
    IF Delivers(m) THEN [m EXCEPT !.held = With(@, p, Content(m.docs[p]))] ELSE m

EnsureServerStarting(m) == IF m.slot = "none" THEN [m EXCEPT !.slot = "starting"] ELSE m

Open(m, p, text) ==
    LET opened == [EnsureServerStarting(m) EXCEPT
                       !.docs = With(@, p, [version |-> 1, text |-> text, diagnosed |-> FALSE])]
    IN  Notify(opened, p)

\* Mutant of Change: the version stays.
ChangeSameVersion(m, p, text) == Notify([m EXCEPT !.docs[p].text = text], p)

Change(m, p, text) ==
    Notify([m EXCEPT !.docs[p].text = text,
                     !.docs[p].version = IF @ < MaxVersion THEN @ + 1 ELSE @], p)

\* A startup that has ended: the server is sent every document that is open.
\* Mutant of AdvanceStartups: nothing is sent.
AdvanceStartupsSilently(m) ==
    IF m.slot # "starting" \/ startup \notin {"ok", "failed"} THEN m
    ELSE IF startup = "failed" THEN [m EXCEPT !.slot = "failed"] ELSE [m EXCEPT !.slot = "ready"]

AdvanceStartups(m) ==
    IF m.slot # "starting" \/ startup \notin {"ok", "failed"} THEN m
    ELSE IF startup = "failed" THEN [m EXCEPT !.slot = "failed"]
    ELSE IF server # "alive" THEN [m EXCEPT !.slot = "ready"]
    ELSE [m EXCEPT !.slot = "ready", !.held = [p \in DOMAIN m.docs |-> Content(m.docs[p])]]

\* Published diagnostics are kept with the document they are about.
Publish(m, about) ==
    [m EXCEPT !.docs = [p \in DOMAIN @ |->
        IF p \in about THEN [@[p] EXCEPT !.diagnosed = TRUE] ELSE @[p]]]

\* A poll: the bus is drained, edits that a command made become outcomes.
CommandEdits(edits) == [i \in DOMAIN edits |-> [kind |-> "edits", path |-> None, what |-> edits[i]]]

\* A poll writes: the documents that are open when the server has started, and the answer to
\* edits it asked for.
PollWrites(m) ==
    LET n == AdvanceStartups(m)
    IN  n.slot = "ready" /\ ((m.slot = "starting" /\ DOMAIN m.docs # {}) \/ bus.edits # <<>>)

Poll(m) ==
    LET n == AdvanceStartups(m) IN IF n.slot = "ready" THEN Publish(n, bus.about) ELSE n

-----------------------------------------------------------------------------
(* Requests.                                                               *)

\* A worker is spawned when the document is open and the server is ready.
CanAsk(p) == p \in DOMAIN lsp.docs /\ lsp.slot = "ready"
Worker(kind, p) ==
    [id |-> asked + 1, kind |-> kind, path |-> p, at |-> "spawned"]

\* Mutant of Ask: the next request gets the same id.
AskSameId(kind, p) ==
    IF CanAsk(p) THEN work' = work \cup {Worker(kind, p)} /\ UNCHANGED asked
    ELSE UNCHANGED <<work, asked>>

Ask(kind, p) ==
    IF CanAsk(p) THEN work' = work \cup {Worker(kind, p)} /\ asked' = asked + 1
    ELSE UNCHANGED <<work, asked>>

RequestCompletion(p) == Ask("completion", p)
RequestHover(p) == Ask("hover", p)
RequestSignatureHelp(p) == Ask("signature", p)
RequestGoto(p) == Ask("goto", p)
RequestReferences(p) == Ask("references", p)
RequestWorkspaceSymbols(p) == Ask("references", p)
RequestDocumentHighlight(p) == Ask("highlight", p)
RequestCodeAction(p) == Ask("actions", p)
RequestExecuteCommand(p) == Ask("command", p)
RequestDocumentSymbols(p) == Ask("symbols", p)
RequestRename(p) == Ask("rename", p)
RequestFormatting(p) == Ask("format", p)

\* Two requests at once: hints and folds of the whole document.
RequestInlayHints(p) == Worker("inlay", p)
RequestFoldingRanges(p) == [Worker("folds", p) EXCEPT !.id = asked + 2]

\* What an answer can say of each kind, reduced.
Answers(w) ==
    CASE w.kind \in {"goto", "rename"} -> Paths \cup {None}
      [] w.kind \in {"command", "inlay", "folds"} -> {None}
      [] OTHER -> {None, Some}

Wait(w) == work' = (work \ {w}) \cup {[w EXCEPT !.at = "waiting"]}

\* A worker ends with its outcome, an executed command without one; `answer` is the request
\* that was answered.
End(w, answer, what) ==
    /\ work' = work \ {w}
    /\ outcomes' = IF w.kind = "command" THEN outcomes
                   ELSE Append(outcomes, [kind |-> w.kind, path |-> w.path, id |-> w.id,
                                          answer |-> answer, what |-> what])

\* The worker registers its id and writes the request, once the pipe takes it; a write that
\* fails leaves the id registered, and the result is empty.
WorkerSends(w) ==
    /\ w.at = "spawned" /\ ~full
    /\ pending' = pending \cup {w.id}
    /\ IF server = "alive"
       THEN questions' = questions \cup {[id |-> w.id, kind |-> w.kind, edited |-> FALSE]} /\ Wait(w)
            /\ UNCHANGED outcomes
       ELSE UNCHANGED questions /\ End(w, 0, None)
    /\ UNCHANGED <<pipeVars, asked>>

\* Mutant of WorkerTimesOut: it waits on.
WorkerWaitsOn(w) == w.at = "waiting" /\ UNCHANGED clientVars

WorkerTimesOut(w) ==
    /\ w.at = "waiting"
    /\ pending' = pending \ {w.id}
    /\ End(w, 0, None)
    /\ UNCHANGED <<pipeVars, asked, questions>>

\* The server answers in any order, with a result or an error; the reader routes the answer
\* to who waits for its id, and drops what nobody waits for.
\* Mutant of ServerAnswers: an answer goes to whoever waits.
ServerAnswersAnyone(q) ==
    /\ server = "alive"
    /\ questions' = questions \ {q}
    /\ \E w \in work : /\ w.at = "waiting" /\ pending' = pending \ {w.id}
                       /\ \E what \in Answers(q) : End(w, q.id, what)
    /\ UNCHANGED <<pipeVars, asked>>

ServerAnswers(q) ==
    /\ server = "alive"
    /\ questions' = questions \ {q}
    /\ pending' = pending \ {q.id}
    /\ IF q.id \in pending
       THEN \E w \in work : w.id = q.id /\ \E what \in Answers(q) : End(w, q.id, what)
       ELSE UNCHANGED <<work, outcomes>>
    /\ UNCHANGED <<pipeVars, asked>>

-----------------------------------------------------------------------------
(* The startup thread and the server.                                      *)

\* The process is started and `initialize` written, unless it cannot be or is gone at once.
StartupSpawns ==
    /\ startup = "spawning"
    /\ \/ startup' = "failed" /\ server' \in {"none", "dead"}
       \/ startup' = "waiting" /\ server' = "alive"
    /\ UNCHANGED <<lsp, full, bus, workVars>>

\* The answer to `initialize` is waited for without a timeout; a startup that fails drops the
\* server, which is killed.
StartupAnswered ==
    /\ startup = "waiting" /\ server = "alive"
    /\ \/ startup' = "ok" /\ UNCHANGED server
       \/ startup' = "failed" /\ server' = "dead"
    /\ UNCHANGED <<lsp, full, bus, workVars>>

\* The server is busy or stuck while the pipe fills up, and may read on (until it has started
\* it is sent too little for that).
ServerStopsReading ==
    /\ server = "alive" /\ startup = "ok" /\ ~full /\ full' = TRUE
    /\ UNCHANGED <<lsp, startup, server, bus, workVars>>

ServerReadsOn ==
    /\ full /\ full' = FALSE
    /\ UNCHANGED <<lsp, startup, server, bus, workVars>>

\* A write to a server that is gone fails at once.
ServerDies ==
    /\ server = "alive" /\ server' = "dead" /\ full' = FALSE
    /\ questions' = {}
    /\ UNCHANGED <<lsp, startup, bus, work, asked, pending, outcomes>>

\* Unasked: diagnostics of a document it holds (those that come again change nothing;
\* bound: one thing unasked before the next poll).
ServerPublishes(p) ==
    /\ server = "alive" /\ startup = "ok" /\ bus = Silence
    /\ p \in DOMAIN lsp.held /\ ~lsp.docs[p].diagnosed
    /\ bus' = [bus EXCEPT !.about = @ \cup {p}]
    /\ UNCHANGED <<lsp, startup, server, full, workVars>>

\* Edits of any file while it runs a command (bounds: once per command, and one
\* thing unasked before the next poll).
ServerEdits(p) ==
    /\ server = "alive" /\ bus = Silence
    /\ \E q \in questions :
          /\ q.kind = "command" /\ ~q.edited
          /\ questions' = (questions \ {q}) \cup {[q EXCEPT !.edited = TRUE]}
    /\ bus' = [bus EXCEPT !.edits = Append(@, p)]
    /\ UNCHANGED <<lsp, startup, server, full, work, asked, pending, outcomes>>

WorkerStep(w) == WorkerSends(w) \/ WorkerTimesOut(w)
StartupStep == StartupSpawns \/ StartupAnswered
PipeStep == ServerStopsReading \/ ServerReadsOn
=============================================================================
