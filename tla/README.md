# A verification project for Majestic

Majestic is a text editor in Rust: a persistent rope with a crash-safe edit
journal, a terminal and a GPU front-end, a daemon that keeps sessions alive, an
LSP client, and an agent that edits the buffer under a capability policy. This
directory models the parts of it whose correctness depends on orders of events
that a test hardly reaches, checks them with TLC, and proves the central results
with TLAPS for every value of the parameters.

## 1. The system

| Component | State it keeps | Operations | Hard behaviour | Modules |
|---|---|---|---|---|
| Document, journal (`majestic-core/buffer.rs`, `stratum/journal.rs`) | text, flags, the file, the journal file, the count of unsynced records | open (with recovery), edit, undo, redo, save | a crash or a power loss between any two writes; a write that fails half-way | `Document`, `CrashSafeText` |
| Undo history (`stratum/undo.rs`) | an arena of nodes, the current one | record, undo, redo | branches | `UndoTree` |
| Rope, anchors, spans, line tags (`stratum`) | immutable trees; tags of lines | edit, place lookups, rebase, tagged edits | balance; sums that must agree with the text; several edits at one place | `RopeTree`, `Anchors`, `Hashline`, `TextBytes` |
| Views and workspace (`buffer.rs`, `editor.rs`, `workspace.rs`, `session.rs`, `penumbra/layout.rs`) | panes, tabs, several views of one document, cursors, folds, hints | split, close, focus, edit, undo, propagate, save and restore a session | cursors of sibling views across edits and undo; indices after a close | `TextView`, `EditorPane`, `Windows`, `Workspace` |
| Application shell (`mj/tui.rs`) | focus, modals, prompt, search, shell panel and drop-down pane | dispatch a key | a key that lands on something that is no longer shown | `AppShell`, `FrameLayout`, `FindReplace` |
| Panels (`files.rs`, `git_panel.rs`, `finder.rs`, `info.rs`) | rows, a selection, a scroll position | move, toggle, filter, follow, act | the selection when the rows change under it | `FileTree`, `GitPanel`, `Finder`, `InfoReader` |
| Key maps (`keymaker`) | a tree of bindings, a pending chord, a mode | bind, feed a key | prefixes of chords, layers | `KeyMaps` |
| Drawing (`penumbra`) | the frame shown and the next one | draw, diff | wide glyphs that are half overwritten | `ScreenDiff` |
| Line editor (`mj/ed.rs`) | lines, current line, marks, one undo | commands with addresses | off-by-one at 0 and at the end | `LineEditor` |
| Background pool (`morpheus`) | queue, workers, shutdown flag, tasks | spawn, poll, join, drop | threads, condition variable, a job that panics, shutdown | `BackgroundExecutor` |
| Highlight worker (`majestic-core/syntax.rs`) | two channels, last result | request, receive, drop | old results, a drop while busy | `Highlighter` |
| Terminal panes (`majestic-term`) | a PTY, a reader thread, a screen | spawn, write, poll, drop | a reader that sleeps in `poll(2)`, a child that ends | `TerminalPane` |
| Agent turn (`architect`, `majestic-agent`, `mj/agent_host.rs`) | a turn on a worker thread, its requests to the host, approvals | send, service, approve, stop | two threads and four channels; a stop that races an edit | `AgentTurn`, `GatedAgent`, `ChatPanel` |
| Capability gate (`seraph/policy.rs`) | policy, audit log, kill switch | check, record, stop | a decision that is stale when it is used | `AgentTurn` |
| Sandbox (`seraph/sandbox.rs`) | a command, its group, the drained output | run, time out, kill | a process left behind that holds the pipe | `Sandbox` |
| Daemon (`majestic-daemon`, `mj/daemon_host.rs`) | clients, negotiated size, live session, saved session | attach, detach, input, resize, save, shutdown | clients that vanish; several writers to one session | `DaemonHost` |
| Language client (`majestic-lsp`, `mj/tui.rs`) | servers, pending requests, document versions, diagnostics | start, open, change, request, answer, crash | answers out of order and for older revisions | `LanguageClient`, `LanguageFrontEnd`, `LspAnswers` |
| Event bus, executor queue, configuration, scripting, benchmarks | parsed data, queues | load, evaluate | see "Not modelled" | |

How they interact. A front-end owns the workspace; a view holds a shared
reference to its document and every edit of any view goes through
`Document::apply_edit`, which records an undo node and appends to the journal
before it returns; after a key or a command the workspace rebases the cursors of the
other views of that document, and after an edit of the agent, which goes past it, only
with the next one that is propagated. The agent's turn runs on its own thread and reaches the
buffers only through requests that the front-end services once per frame; each
of its actions passes the gate first, and its commands run in the sandbox. The LSP
manager talks to server processes through reader threads and an event bus; the
front-end polls it once per frame and applies answers to the buffer that is active
then. The daemon serialises its clients through one broker thread. A key of the
terminal front-end passes the modals, the prompt, the surface with the focus and
the key map, in this order, before it becomes a command of the workspace.

What makes each correct, in a sentence: a document comes back after a crash as
the user saw it last; an undo is undone by a redo; a view's cursor stays on its
text; the rope is the text that splicing gives; a key acts on what is shown; the
pool runs each job once and shuts down; no helper thread keeps the editor waiting;
nothing the agent does happens without a grant or after a stop; every attached
client sees the same frame and a session survives its clients; an answer of a
language server is that of its request, and the server holds the text it is asked
about.

## 2. The layout of the project

Constants have named assumptions; there is one action per operation; what the
proofs need uses no recursive operator. The map leaves out tuples of variables, pure
disjunctions of actions and names for values.

1. `UndoTree`, `Document`, `CrashSafeText`: run `document`, three runs that expect a
   violation, proofs.
2. `BackgroundExecutor`: the worker pool, with liveness and the panic that takes a
   worker away; runs `pool` and `pool_panic`, proofs.
3. `AgentTurn`, `GatedAgent`: worker, host, approvals and kill switch; the abstract
   specification is a gate that lets an effect through only under a grant; run
   `agent`, two runs that expect a violation, proofs.
4. `DaemonHost`: broker, clients, live and saved session; run `daemon`, proofs.
5. `LanguageClient` (manager, workers, server) and `LanguageFrontEnd` (its use by
   the editor), with the conversions of answers in `LspAnswers`; run `language`, proofs.
6. `Desk`: composes the parts of the editor's own process that keep state of their own
   around the text, three of them with a helper thread; proofs in `DeskProofs`.
   `LineEditor` is a program of its own; proofs in `LineEditorProofs`.
7. `Workspace`: views, panes, their tree and sessions; proofs in `WorkspaceProofs`.
   `Workbench` extends `Desk` by the workspace, by the line editor and by the parts that
   need recursive operators; run `workbench`.

A part keeps its state in variables of its own, so that it can be composed or
used alone: `EXTENDS` collects the parts, and `Desk` and `Workbench` have one disjunct
for each. The `Mutant of X` operators beside a definition are faults that the checks
are known to find: each breaks a property of the run its module belongs to.

## 3. The document (`UndoTree`, `Document`, `CrashSafeText`)

### What the modules say

`UndoTree` is `stratum/undo.rs`: the arena is the sequence `nodes`, `current` an
index into it, 0 is `None`. The vector of children is derived from the parents.

`Document` is `Document` of `buffer.rs` with `journal.rs` and the two files it
writes. The process is single-threaded, so an edit, an undo or a redo is one
action with everything it does: the new node, the record, the sync that the
flush policy asks for, the flags. Where the code touches the disk more than once
there is one action per write, since that is where it can be interrupted:

| Code | Actions |
|---|---|
| `Document::open`, a journal left over | `OpenWithRecovery`, `ReplayRecord` per record, `Recovered` (`open_append`) |
| `Document::open`, otherwise | `OpenFresh` (truncates the journal), `WriteHeader` |
| `apply_edit` | `Edit`; `EditAppendFails`, `EditSyncFails` when `append` returns an error; `EditUnlogged` without a journal |
| `undo`, `redo` | `Undo`, `Redo` |
| `save` | `SaveTruncatesFile`, `SaveWritesPart`*, `SaveWritesRest`, `SaveTruncatesJournal`, `WriteHeader`; `SaveFails` for the `?` after each |
| SIGKILL, panic, leaving | `Kill`, `KillMidAppend` |
| power | `PowerLoss` |
| the kernel | `Writeback` |

Of the disk, `file` and `jfile` are what the kernel serves and survive a kill;
`fileOnDisk` and `synced` are what a power loss leaves (`save` never syncs the
file; the journal is synced per policy). A journal is its readable records and
whether something unreadable follows them; a file cut inside a character is not
in `Utf8` and cannot be opened, as a journal without a header cannot.

`seen` and `gap` only remember: `seen[i+1]` is the last text shown while the log
held `i` records, and `gap` the latest thing that the log does not cover.

`CrashSafeText` is the promise, without file or log: a kill loses nothing, a
power loss only what is younger than the last flush, until a *breach* (an undo,
an unlogged edit, a save under way, a torn journal) suspends the promise, which
the next checkpoint restores.

### What the runs check

* `document` (passes): the log explains the text on the screen
  (`LogExplainsDocument`); a recovery passes only through texts the user saw and
  reaches the last (`RecoveryRetraces`); a clean document is in its file
  (`CleanMeansSaved`; the state after a save that failed half-way is
  excepted); a power loss takes fewer than `max_ops` edits
  (`HardCrashWindow`); redo undoes undo across branches (`TreeShape`,
  `RedoUndoesUndo`); and `Document` implements `CrashSafeText`
  (`KeepsThePromise`).
* `document_undo`, `document_save`, `document_torn` (violated): the three
  situations in which the promise of `journal.rs` is not kept by the code. The
  first needs no failure but the kill: undo and redo are not journaled. The
  second is a kill inside `save`, which rewrites the file in place. The third is
  a record cut short by one kill and left in the journal that is appended to.

Bounds: texts of at most 2 bytes over a one-byte character and a two-byte one,
four operations (two insertions, two deletions, of which some do not apply inside
the two-byte character), `max_ops` 2, two records, three history nodes, three
faults. Two records and `max_ops` 2 let a record be synced and the next one not;
three nodes are the fewest with two branches; three faults allow a failure
followed by two crashes, which the third violation needs. There is no liveness
property: a user need not do anything.

Left out: `max_interval` is a choice of each append, because time is not
modelled; a journal that was truncated does not come back after a power loss that
precedes the sync of its header; a file that is missing is an empty one; two
documents on one path.

### What is proved

For all sets of bytes, operations and initial files and all bounds
(`DocumentAssumption`, `MaxNodesAssumption`), in `DocumentProofs`: the inductive
invariant `IInv`, and from it each invariant of the run; `RedoReturns`; and
`DocumentKeepsThePromise`, that every step of `Document` is a step or a stutter of
`CrashSafeText`.

`LogExplainsDocument` alone is not inductive. It needs that the text on the screen
is the one owed (`ShownIsOwed`), that a replay stands where its next record was
made (`ReplayPlace`), and what the process knows at each place (`Memory`): the
journal's base is the file's length as long as nothing bypassed the log, and the
file holds the text when the header is written. `HardCrashWindow` is not
inductive either: the unsynced records are among those counted (`Window`), which
holds because a session that did not begin with a recovery began with an empty
journal. The refinement follows action by action; a power loss maps to the entry
of `recent` that the surviving records lead to.

## 4. The background pool (`BackgroundExecutor`)

### What the module says

`morpheus/background.rs` with the handles of `morpheus/task.rs`: a queue and a
shutdown flag under a mutex, a condition variable, workers that run jobs, an
owner that spawns, joins and finally drops the pool. (`mj` itself only uses the
event bus of the crate; the pool is library code that the repository documents
and tests.) `Condvar::wait` releases the lock and parks in one step, and a woken
worker has to take the lock again, so a worker's turn is several actions:

| Code | Actions |
|---|---|
| `spawn` | `SpawnLocks`, then the push and the notification of at most one parked worker as separate steps |
| `worker_loop` | `Lock`, then one of: take a job, park, leave; `Reacquire` after a wake-up; running a job and its end, also by a panic, which ends the worker since nothing catches it |
| `Condvar` | `notify_one`, `notify_all`, and spurious wake-ups, at most `MaxSpurious` |
| `Drop` | sets the flag under the lock, notifies all, joins each worker |
| `Task` | `join`, `cancel`, dropping the handle |

A job is *plain*, *panicky*, or *patient*: it runs until its handle asks it to
stop.

### What the runs check

* `pool` (passes): a job that was spawned is queued, running, finished or lost in
  a panic, and exactly one of them (`NeitherLostNorDoubled`); while there is work
  somebody who can still notice it is awake or about to be woken (`QueueIsServed`,
  the lost wake-up); after shutdown nobody sleeps for good (`ShutdownReaches`); a
  pool that was dropped has run what was queued (`DropDrains`); a `join` returns a
  value only of a job that finished (`JoinTellsTheTruth`); and, with fairness, a
  queued job is taken (`QueuedJobsAreTaken`) and a drop ends (`DropReturns`).
* `pool_panic` (violated): the module's doc says that one panicking job cannot
  wedge the pool. It takes a worker with it, and a pool of one worker never runs
  the next job.

Bounds: two workers are the fewest with a lost wake-up (one busy, one parked);
one job of each kind; one spurious wake-up.

Fairness: the system runs a thread that can run, so each step of a worker, of a
notification under way and of a drop under way is weakly fair. Nothing makes the
owner spawn, cancel or drop. Wake-ups without a cause are bounded, so that a
worker that is woken gets the lock in the end under weak fairness.

### What is proved

In `BackgroundExecutorProofs`, for any finite set of workers, any jobs and any
bound: `PoolTypes`, `NoJobIsLost`, `NoWakeupIsLost`, `ShutdownReachesAll`,
`DropRunsTheQueue`, `JoinIsTruthful`. The inductive invariant adds to the
properties that the lock has one holder (`Mutex`), that queue and workers hold
exactly the jobs whose status says so, and what shutdown and drop have reached
(`Closing`); `QueueIsServed` alone does not survive the step in which the only
awake worker parks unless it is known that the queue was empty when the lock was
taken. The liveness properties are only model-checked.

Left out: a job that drops the last reference to the pool it runs on.

## 5. The agent's turn (`AgentTurn`, `GatedAgent`)

### What the modules say

A turn runs `run_turn_streaming` of `architect/agent.rs` on a worker thread. What
it needs from the editor it asks for over a channel, with a channel for the
answer, and blocks; the host (`mj/agent_host.rs`) polls once per frame. So at most
one request is under way, and `inbox` is one slot, as is `reply`.

| Code | Actions |
|---|---|
| `run_turn_streaming` | `BeginRound`, `ModelAnswers`, `NextCall`, `LeaveCalls`, `EndTurn` |
| `ChannelTools::action`, `Policy::decide` | `HearClass`, `Decide` |
| `ChannelApprover::approve` | `HearApproval` |
| `ChannelTools::run` | `RunShell` (on the worker), `RunInHost`, `HearResult` |
| `AgentHost::poll` | `PollClassify`, `PollExecute`, `PollApprove`, `PollFinished` |
| `start_turn`, `answer_approval`, `answer_modified`, `stop` | `StartTurn`, `AnswerApproval`, `AnswerModified`, `Stop` |
| `Drop` of the runner | `Quit` |
| the editor's other keys | `SwitchBuffer`, `UserEdits` |

`poll` drains the channel in a loop; the model takes one event at a time, since a
frame may end after any of them. Which calls the model makes is chosen when the
worker comes to each. Dropping the receiver makes the next send fail or, when the
request is already in the channel, drops the sender of its answer; the code treats
both alike, and so does `Unanswered`. `ran`, `late`, `promptCut` and `shownOn` only
remember: the commands run, the effects since a stop, whether the stop found a
prompt, and the buffer whose diff the prompt showed.

`GatedAgent` is what `agent.rs` and `seraph` promise: each effect spends a *ticket*,
which the policy gives or a user who was asked and is there, and an edit changes
only a line that is still the one it cites.

### What the runs check

* `agent` (passes): the request under way is in the channel, on the screen or
  answered, exactly one of them, and no turn meets the worker of another
  (`HostAndWorkerAgree`); after a stop at most the call under way has its effect,
  none if the stop found the prompt (`StopIsFinal`); the turn implements
  `GatedAgent` (`GateHolds`), in particular when the host goes at any point; and a
  turn ends (`TurnEnds`) provided that the model always answers and no prompt is
  left for good.
* `agent_stop` (violated): `stop` rejects an approval only when the prompt is already
  up. One that is still in the channel comes up after the stop and blocks the worker.
* `agent_seen` (violated): the diff is shown for the buffer that was active then, and
  the edit is applied to the one that is active when it is executed.

Bounds: two buffers and two contents of a line, so that a tag can match in one
buffer, in both or in none; one program, on the allow-list or not; two rounds of up
to two calls, the fewest in which a stop can let the first call through and must
hold back the second, and in which a round must be counted; one command per turn.
Turns and the user's edits are not bounded.

Fairness: the worker runs when it can, and the terminal and GPU front-ends poll in
every frame. The provider sets no timeout and the user answers at will, so
neither is fair: `TurnEnds` assumes what it needs of them. A worker that is stopped
during a model call ends only when that call returns.

Left out: streamed tokens (the kill switch is not read between them), the
transcript, the audit log, the sandbox, batches of edits and the arithmetic of
lines; two contents with the same short tag; a panic on the worker.

### What is proved

`AgentTurnProofs`, for all sets and limits: `AgentTypes`, `AgentHandshake`,
`StopHolds`, and the refinement `AgentIsGated`. `IInv` adds to the properties that
prompt and channel go with the runner (`WithRunner`), that the class the worker
heard is the true one as long as there is a host (`Classified`: without a host
every call passes for a read, which is harmless only because nothing is left to
execute an edit), that an approval is about the call that was asked about
(`Approved`), and where the worker can be after a stop (`Stopping`). In the
refinement most steps of the worker are stutters, and a ticket for an edit lapses
with the host. `TurnEnds` is only model-checked.

## 6. The daemon (`DaemonHost`)

### What the module says

`mj daemon start` keeps one session for any number of attached terminals. Its accept
loop, a reader thread per client and the broker share nothing but channels; the
clients (`mj attach`, `mj daemon save | stop`) are processes of their own.

| Code | Actions |
|---|---|
| `attach`: the client's input loop | `Connect`, `AskToAttach`, `ForwardKey`, `ForwardResize`, `ForwardDetach`, `StopForwarding`; `LoseClient` when it is killed |
| `attach`: the painter | `Paint` |
| a control request and its answer | `SendRequest`, `RequestFails` |
| the accept loop | `AcceptAttach`, `AcceptHungUp`, `AnswerControl` |
| the broker's events | `HandleAttach`, `HandleKey`, `HandleQuit`, `HandleResize`, `HandleLeave`, `HandleControl`, `Tick` |
| `broadcast` | `Mirror` computes the frame, `MirrorTo` writes to one client at a time, since a socket that is full blocks it |
| the session that ends | `HandleQuit`, `EndTo` per client, `EndDone` |
| shell, agent, language server | `Background` |
| `save_to` | `Save`: it works, fails before it writes, or fails in the middle |
| the process | `Exit`, `Kill`, `KillWhileSaving` (the session file is truncated, then written), `Bootstrap` |

The broker's channel is a merge of the sockets: the broker takes the next input of any
client, and each socket keeps its order. A session is a number that each key raises;
what is drawn is the session, one bit for what happens in the background, and the
negotiated size. `front` is the broker's copy of what a client's terminal shows, and a
frame that is sent is the pair of what it was computed from and what it leads to.

`Save` has the outcomes of `save_to`, which creates the directory and writes the file in
place: the session is in the file; the file is as before; or a part of it is there (`cut`),
which the next daemon takes for no session. `forget_client` drops the error and `mj daemon
save` reports it; `failed` remembers it until a save works or the daemon starts anew.

### What the run checks

`daemon` (passes; 97,711 states), with two clients of different sizes, one control process, sockets that
hold one frame (`Capacity`, so that the broker blocks), and two keys, resizes, losses or
kills in any order (`MaxSpent`): two are needed for a key that is followed by a kill, or
for two clients that resize against each other. `Capacity` 1 lets a frame wait in the
socket while the next is computed.

* `MirrorIsExact`: no update is computed from something else than what is on that
  terminal when it is painted, over attaches, resizes, ends and losses.
* `FitsEveryClient`: the session is never larger than a terminal in the mirror set,
  although a client dropped by a failed write is not negotiated away.
* `UnwatchedIsSaved`: an unwatched session is stored, and in the file unless the last save
  of this daemon failed; or a reader is still to report the loss, which saves it. A failed
  save is an exception because the code drops its error and does not try again by itself:
  a request to save does, a kill loses the session.
* `DiskNeverGoesBack`: the file never returns to an earlier session, over failed saves too,
  unless the write itself was cut short, by a kill or by an error such as a full disk.
* `EveryoneIsServed` (liveness): whoever attaches is shown the session or learns that
  there is none, and a request is answered or refused.

Fairness: the threads run when they can (weak fairness of the accept loop, of each
write of a broadcast, of the painter and of a request's client). The broker's handling of
one client's input is strongly fair, because the channel is first in, first out and
other inputs may come in between. Nobody needs to press a key, to detach or to kill.

### What is proved

`DaemonProofs` proves the four safety properties and the type invariant (`DaemonTypes`,
`MirrorsAreExact`, `SessionFits`, `UnwatchedSessionIsSaved`, `DiskGoesForward`) for any
clients, sizes, capacity and bound, from `DaemonAssumption`: finitely many clients,
distinct from the control processes, and terminals that are not empty. They share one
inductive invariant, `IInv`, because none of them is inductive alone:

* `Station` says where a client is: at home, in the backlog, offered to the broker or
  read, once and in this order, with nothing painted before it is read and its size first
  in its socket. `MirrorIsExact` needs it, since an attach that came twice would reset the
  front buffer behind frames on their way.
* `EndIsLast` says that nothing follows the end of a session in a socket, so that the last
  update of a socket, where it is not the end, leads to the front buffer.
* `Broker` keeps those that the broadcast still has to write to inside the mirror set, and
  says that an ending session is no longer live.
* `Stored` says that the stored session is the one in the file while the daemon runs, or
  it is newer and the last save failed, and that the live one is not older. This is why answering `save` from the stored session
  (`daemon_host.rs:293`) does not take the file back, and `DiskNeverGoesBack` rests on it.
* `FitsEveryClient` and `UnwatchedIsSaved` are conjuncts themselves; the first rests on the
  fact that a finite set of sizes has a least one (`LeastNumber`).

`NextIInv` joins one lemma for each conjunct, each with one step per action.
`EveryoneIsServed` is liveness and only model-checked.

Left out: the status request (writes nothing), the JSON of frames, frames refused for
their size, the permissions of the socket's directory, a session file that cannot be read
for another reason than that it was cut.

## 7. The language client (`LanguageClient`, `LanguageFrontEnd`, `LspAnswers`)

### What the modules say

`LanguageClient` is `majestic-lsp` with the server as its environment: the manager's
slot, documents and versions (`lsp`, where `held` is what the server was sent), the
thread that starts a server, a worker per request, the reader that routes an answer to
the worker registered under its id, the bus of unasked messages. `LanguageFrontEnd` is
its use by `App`: a frame syncs the active buffer and polls (`SyncLsp`), applies the
outcomes one by one (`ApplyStale`, `ShowPopup`, `ApplyGoto`, `ApplyRename`, `ApplyEdit`,
`ApplyHighlight`, `ApplyFormatting`), and makes the debounced requests whose time has
come (`FireDueLsp`); then one key or nothing (`Event`). `LspAnswers` has the conversions
(positions, edits, outlines), as pure operators; the run of the workbench checks them.

| Code | Actions, operators |
|---|---|
| `open`, `change`, `poll` of the manager | `Open`, `Change`, `Poll`, `AdvanceStartups`, `Publish` |
| the thread of `ensure_server_starting` | `StartupSpawns`, `StartupAnswered` |
| the thirteen `request_*` | `Ask` with the kind; `RequestInlayHints` and `RequestFoldingRanges` come together |
| the thread of a request, `Requester::request_timeout` | `WorkerSends`, `WorkerTimesOut`, `End` |
| the connection's reader, the server | `ServerAnswers`, `ServerPublishes`, `ServerEdits`, `ServerDies` |
| the pipe to the server's standard input | `full`; `ServerStopsReading`, `ServerReadsOn` |

`Requester::send` writes under the mutex `writer`, and the write blocks while the pipe is
full: neither has a timeout, and the one of a request begins when it is written. So no
worker sends while the pipe is `full`, nor does the editor's thread take a frame in which
it would write (a change, an opening, what `PollWrites` says). A pipe may be found full
whenever something is to be written after the start (`WriteIsDue`); before that too little is
written for it. A server that dies breaks the
pipe, and the write fails.

### What the runs check

`language` (passes; 773,967 states), with a file that has a server and one that has none,
two requests (the fewest that can be answered in the wrong order), two keys, six versions
(more than two keys and two answers produce). The server says at most one thing unasked before it is
polled (`bus`), once for each document and command: a poll takes all of it, in order, and
the next can come right after.

* `ServerIsUpToDate`: a live server that is ready holds of every document what positions
  are converted against, and of every buffer that counts as synced the text of its
  revision, however long it took to start. A path that is open twice is excepted, since
  what is synced is remembered by path.
* `OnePopup`: at most one popup is at the cursor, however late answers come.
* `EachItsOwnAnswer`: a result comes from the answer to its own request, whatever was
  asked, answered late or given up meanwhile.
* `VersionsIncrease`: of a document the server holds, what is sent next has a higher
  version, so that it is not opened a second time. From `MaxVersion` on versions are not told apart,
  which the bounds of the run never reach.

* `EveryRequestEnds`: a request ends, with a server that is slow, gone, or does not answer,
  unless from some time on it cannot be written because the server reads no more
  (`Blocked`); a pipe that is full for a while is not excepted. Without the exception, as
  the documentation of `request_timeout` has it, the property fails: a server that stops
  reading for good pins the worker, and the editor's own thread with the next change.

Fairness: a worker runs on, its timeout passes, and a pipe that takes writes again and again
takes that of each worker in the end (strong fairness: the mutex is not kept from one worker
for ever, although the pipe may be full in between). Nothing is assumed of the server and of
the user.

### What is proved

`LanguageProofs` proves the type invariant and the four safety properties (`LanguageTypes`,
`ServerStaysUpToDate`, `PopupsExcludeOneAnother`, `AnswersReachTheirRequest`,
`VersionsGoUp`) for any files and bounds, from `ClientAssumption`: the handled files are
among the files. The inductive invariant is `IInv`:

* `Serving` says that what the server holds is part of the manager's documents with no
  higher version, and all of them with their content while it is ready and alive; and that
  it is not started twice, so that a second start cannot forget what was sent.
* `Syncing` relates the front-end to the manager: the revision last synced of a buffer is
  not above its own, and if it is its own, the manager has its text. A document can be
  unsynced only if its server was ready and dead when it was to be opened, because
  `sync_lsp` gives up at the error before it notes the revision. `ServerIsUpToDate` follows
  from these two.
* `Working` and `Asking` say that an id is given to one worker and that a question has the
  kind of the request with its id. Without it `Answered`, from which `EachItsOwnAnswer`
  follows, is not inductive.
* `Shown` and `AtMostOne` say that the active buffer exists and that popups exclude one
  another.

`VersionsIncrease` is proved along the manager's operators: each of `Open`, `Change`,
`AdvanceStartups` and `Publish` leads to a record that `Follows` the one before, and this
relation composes. `EveryRequestEnds` is liveness and only model-checked.

Left out: JSON envelopes, server capabilities, file URIs, several servers at once; a pipe
that takes a part of a message (the write goes on when the server reads on, and the message
reaches it whole or not at all).

## 8. The editor's process (`Workbench` and its parts), the line editor

`Workbench` puts the parts of the editor's process side by side. They are called by one
thread and keep separate state, so a behaviour exercises one of them: `part` is chosen at
the start and only that part steps. The properties of the run `workbench` are
conjunctions of the parts' properties, each under its part; a part's own properties are
named in its module. `cases` takes the pure functions through every text of a bounded
set. The line editor is a program of its own (`mj ed`), so `LineEditor` has its own
specification, `EdSpec`, which every behaviour of `Workbench` follows.

| Part | Module | Code | State and actions |
|---|---|---|---|
| `windows` | `Workspace` over `EditorPane`, `Windows`, `TextView`, `Anchors` | `workspace.rs`, `editor.rs`, `buffer.rs` (views), `session.rs`, `penumbra/layout.rs` | editors, the tree of panes, the focus; typing, commands, paging, window commands, opening, edits by path, the agent's edits, diagnostics, folds, hints, a restart from the saved session |
| `keys` | `AppShell` | `mj/tui.rs` `App` | focus, modals, prompt, search, sidebar, shell panel, drop-down pane; one action for each handler a key can reach |
| `tree` | `FileTree` | `files.rs` | rows, the expanded ones, selection, first row drawn; the disk changes under it |
| `git` | `GitPanel` | `git_panel.rs` | rows of the last status; stage, unstage, commit, diff; other programs change the work tree; git itself is external |
| `finder` | `Finder` | `finder.rs`, `fuzzy.rs` | query, matches, selection |
| `rope` | `RopeTree` | `rope.rs`, `summary.rs` | a balanced tree; one edit: two splits and two joins |
| `pane` | `TerminalPane` | `majestic-term/pty.rs` | reader thread and editor thread; spawn, write, hang up, drop |
| `colours` | `Highlighter` | `syntax.rs`, `editor.rs` | worker and frame; request, coalescing, flush, drop |
| `chords` | `KeyMaps` | `keymaker`, `majestic-core/keymap` | a trie, pending keys, mode and layer |
| `info` | `InfoReader` | `info.rs` | files loaded, node, selection, scroll, history |
| `popups` | `FrameLayout` | `mj/tui.rs` drawing | the box of a list or a text at the cursor |
| `screen` | `ScreenDiff` | `penumbra/buffer.rs`, `render.rs` | what the terminal shows, the last frame; a frame is drawn and the difference written |
| `sandbox` | `Sandbox` | `seraph/sandbox.rs` | a command, a process it leaves behind, the pipe, the drain thread, the deadline |
| `chat` | `ChatPanel` | `agent_panel.rs`, `agent_host.rs`, `architect/http.rs` | transcript, partial reply, approval, input |
| `ed` | `LineEditor` | `mj/ed.rs` | lines, current line, marks, undo, what the user was warned about, the files; the commands with every address, writes that fail |
| `cases` | `Hashline`, `LspAnswers`, `Anchors`, `FindReplace`, `FrameLayout`, `KeyMaps`, `Sandbox` | `hashline.rs`, `manager.rs`, `anchor.rs`, `spans.rs`, `search.rs`, `tui.rs`, `keymap.rs`, `dispatch.rs` | pure operators |

The tree of panes, a `Node` of leaves and splits in the code, is written as the sequence
of its leaves from left to right. A leaf has its editor and its *way*: for each split
above it the direction, the ratio and the side the leaf is on. That is the same tree as
long as any two ways agree up to a split at which they take different sides (`Meet`),
which is proved of every operation. A split lengthens one way into two, a resize gives
the ways through a split another ratio, and the removal of a leaf shortens the ways
through the split above it; leaves are counted as `collect_editors` does. `Layout` follows
each way through the rectangles that `split_rect` makes.

`HandOn` is what `propagate_edits` does with the edit that one view has kept, and
`PropagateEdits` goes through all views. `AgentEdit` is an edit that does not do so:
`poll_agent` hands the buffer itself to the agent's host, one line or several are edited,
and the view keeps the last of these edits until another operation hands it on; a window
command (split, focus, resize, close) is none.

In `TerminalPane` a hang-up is a request: the child may go on and write for as long as it
likes, and the reader's inner loop reads what there is without a look at `stop`. In
`Highlighter` a flush waits whether or not a result is outstanding. In `LineEditor`,
`edSaved`, `edSpoiled` and `edWarned` only remember: what was last read or written as a
whole, whether a part or a failed write has gone over that file since, and which lines the
last warning was about.

### What the runs check

* `WindowsAreSound`: after any splits, closes, cycles and restarts each pane shows an
  editor there is and the panes tile their area (`PanesAreSound`); a session brings back
  each pane with file, cursor and focus (`SessionRestoresPanes`); the cursor is drawn on the
  cell of its character, with wide letters, hints and folds before it
  (`CursorSitsOnItsCharacter`).
* `CursorsFollowTheirText`: when one view edits, the cursor of every other view of that
  document stays with the text around it. Excepted are undo and redo, an edit that repeats
  what redo would bring back (the two look alike to the property), the agent's edits, which are
  handed on late or never, and an edit while another view still keeps one of the agent's,
  which is handed on in the same step.
* `ResultsAreExact`: the rope is what splicing gives, balanced, and answers every question
  about places as a walk over the text does (`RopeIsItsText`); tags tell lines apart and a
  batch of tagged edits gives the same in any order (`TagsAndEditsAgree`); answers of a
  server, spans and searches mean places of the text (`AnswersAgree`, `SpansAgree`,
  `SearchesAgree`); a key map is the set of its bindings (`KeymapsAgree`); a reply is what
  was streamed (`RepliesAreWhole`); the regions of a frame tile the window (`FramesFit`);
  what the sandbox says of itself is what it does (`ReportsAreTrue`).
* `KeysActOnWhatIsShown`: the focus is on a surface that is shown, modals do not stack
  (`KeysReachWhatIsShown`); the Git panel's selection is a file, if not always the one that was selected before the
  rows changed (`GitSelectionIsAFile`); the
  manual reader and its history stand on nodes that exist (`InfoPlacesExist`); the finder
  lists what matches, and Enter takes a row that is drawn (`FinderListsTheMatches`); a box
  at the cursor shows the row that Enter takes (`PopupShowsTheSelection`); a question to
  the user is on the panel (`QuestionIsSeen`).
* `LinesAreKept`: nobody loses lines unawares. In the line editor a buffer is not called unmodified
  unless its lines are those last read or written as a whole, in a file that still holds them
  if no part or failed write went over it since; a warning is about the lines that are there;
  u twice is nothing (`EdLosesNothing`); and moves and copies keep all lines
  (`MovesKeepLines`). When lines leave the editor for good (it is left, or
  they are neither in the buffer any more nor what u brings back), they are in a file, or the
  user was warned about just these lines, or said so with `Q` (`NothingIsGivenUp`). Two exceptions are cases in
  which the code loses lines unwarned: `wq` of a part leaves without the rest, and lines
  called unmodified may be in no file any more because a part of the buffer, or a write that
  failed half-way, went over the file that held them.
* `OutcomesAreTrue`: highlights only advance; a query of a child is answered before the
  reader sleeps (`NoQueryForgotten`); a command's output is complete up to the cap
  (`OutputIsComplete`); the transcript holds what the agent said, once and in order
  (`TranscriptIsTheTalk`); a reference that was just selected is on the screen
  (`SelectionIsSeen`); the explorer's selection stays on its entry when the disk is read
  again (`TreeKeepsItsPlace`); and writing only the cells that differ shows the frame, except next
  to half a wide glyph (`FrameIsShown`).
* `HelpersAndHintsKeepUp`: highlights catch up with the text, and a drop of their worker
  returns, and a flush of a revision that is not highlighted yet (`HighlightsCatchUp`);
  dropping a pane returns, unless a child that ignores the hang-up writes for ever
  (`DropReachesTheReader`); and so does a run in the sandbox (`RunsComeBack`), which is
  liveness; and a chord does what its hint says (`HintIsTrue`).

Fairness: the helper threads run on (`HelperSteps`), and the thread that waits for them,
or draws frames while the editor is open, does too (`CallerSteps`): the event loop wakes
up every 200 ms without input (`tui.rs:2702`). A child on a terminal and a command in the sandbox need not do anything:
a child that was hung up may write for ever or never end.

The exceptions that a property names ("is excepted") are situations in which the code
does otherwise; they are listed under "Observations".

### Bounds

The run `workbench` has 245,122 states.

* `windows`: two files of three and four characters, one of which takes three bytes and
  two cells; at most three editors and five characters; three keys. Three editors and
  three keys are the fewest for a split, a close of the middle editor and a step in
  another pane. The body has two rows, so that a view must scroll.
* `keys`, `popups`, `info`, `cases` (frames): sizes on both sides of each threshold in the
  code (a sidebar needs 54 columns, a list box shows ten rows, and so on).
* `ed`: a file of two lines and an empty one, none or one line typed, addresses
  that are left out or a search; three commands, as many as a change, a warning and the
  way out, or a change, a write of a part or one that fails, and the way out.
  `MovesKeepLines` looks at every range. Longer ways (changed, warned, changed again, warned
  again, left) are covered by the proof.
* `rope`: chunks of at most three bytes and a text of eleven, so that the tree is three
  levels high, one insertion longer than it, two edits: rotations on both sides happen.
* `pane`, `colours`: two chunks, two shells, three revisions: one worked on, one
  dropped, one newest.
* `sandbox`: a pipe of two units, a cap of one, four writes: a pipe that is full, a cap
  that is passed.
* `chat`: five lines, two tokens of a step, panels narrow and wide; replies of up to four
  stream events.
* `cases`: texts of up to three characters over a letter, a wide one, both line endings
  and a capital; edits that insert nothing or two characters.
* `tree`, `git`, `finder`, `screen`: a tree three deep, two files, four labels and queries
  of three characters, eight drawings on two sizes, some of which draw over half of a wide
  glyph and, next to it, another.

### What is proved

`DeskProofs` proves of `Desk`, which every behaviour of `Workbench` follows
(`Spec` conjoins `Desk`'s steps with those of the other parts), the properties
`KeysActOnWhatIsShown` and `OutcomesAreTrue`
(`DeskKeysActOnWhatIsShown`, `DeskOutcomesAreTrue`), for all files,
manuals, repositories, directories, labels, commands, transcripts, drawings, sizes and
bounds, and every interleaving of the helper threads with the editor's. `LineEditorProofs` proves of `EdSpec`
`LinesAreKept` (`EditorKeepsItsLines`), for any number of commands. `FramesTile` and `CagesReportWhatTheyDo` are
what `ResultsAreExact` says of frames and of the sandbox's reports, for every size of the
window and every set of installed programs. A frame is split again and again, so
`FramesTile` needs one fact about nesting (`NestedTile`: regions stay a tiling when one of
them is replaced by a tiling of it) and one about each split. `RepliesArePutTogether`
is what `ResultsAreExact` says of a reply, for every stream of events: event by event, what
is read is what came so far (`Together`, `TogetherGrows`).

The assumptions on the constants say what kind of thing each is: sequences of lines for
files, chunks and references for manuals (`EdAssumption`, `InfoAssumption`), natural
numbers for sizes and bounds (`FrameAssumption`, `PopupAssumption`, `ChatAssumption`,
`HighlighterAssumption`, `PaneAssumption`, `SandboxAssumption`), finitely many files
(`GitAssumption`), and drawings without the sign for the second half of a wide glyph,
which `set_char` turns into a space (`ScreenAssumption`), labels and queries that are
texts (`FinderAssumption`), and finitely many directories, none of which holds the root
(`TreeAssumption`).

The inductive invariant, `DeskInv`, has a conjunct for each part. Hardly any of the
properties is inductive alone:

* `ShellInv`: a sidebar that is shown has the explorer to show; otherwise the focus could
  reach a surface that is not there.
* `GitInv`: the rows of a status are none, or a header followed by a file, so that moving
  by one row always has a file to stop at. A refresh of any status restores it
  (`RefreshedIsSound`).
* `ReaderIsSound`: every place of the trail is in a file that is loaded and is a node of it,
  or the top of a file without nodes, and the selection is a reference of the node;
  going back would otherwise lead to a place that was never read.
* `BoxIsSound`: the selected row is one of the rows. That it is inside the frame of the box
  is arithmetic about the box's size and scroll (`BoxShowsTheSelection`).
* `ChatInv`: what the panel says the agent said is what was streamed, and while it streams
  the last line is the agent's (`PanelSays`); else a token would go to a note. The
  transcript is a concatenation, so the proof needs `FlattenAppend`.
* `HlInv`: the revisions in the two channels ascend and stand between what is highlighted
  and what was asked for last; this is why a late result never goes back.
* `CellInv`: what is kept is what left the pipe, up to the cap, and the pipe ends only when
  no process holds it.
* `TreeInv`: the rows are a sequence, whatever the disk holds, with one of them selected
  if there is one; the rows are a recursive function of the levels of directories, so
  this too needs that the function exists (`RowsAreListed`).
* `FinderInv`: the list is the ranking of the query. That it is exactly the items the query
  is within is an argument about `fuzzy_match`: taking the first character that fits is
  never behind any other way to find the query (`GreedyIsAhead`, `MatchIsWithin`), and
  scores with the item's number as tie break put each item at a place of its own
  (`RankingIsSound`).
* `ScreenInv`: in the last frame the two cells of a wide glyph have one style, and every
  continuation on the terminal belongs to the wide glyph before it. While a frame is
  written, what the renderer believes of cursor and style is true (`Renders`), and a cell
  shows the frame from the moment the glyph that covers it was due (`Due`,
  `WritingKeeps`). The proof showed that an earlier form of `FrameIsShown`, which
  excepted only the cell next to a wide glyph that was cut, was too strong: the exception
  reaches two cells to the right (section 10). The drawing that shows it is now among
  those of the run.

The line editor has its own, `EdInv`: unless the buffer is called modified it is what was
read or written last, the file that was read or written holds it unless it was spoiled, and a
warning stands for the lines that are there, since every line that is obeyed forgets it
first. Each command `Keeps` the lines or leaves them to be undone, one lemma per command, and
they compose. `NothingIsGivenUp` (`EditorGivesNothingUp`) follows for a step of any command: lines that are given up
are unmodified, hence in a file that is not spoiled, or were warned about. `MovesKeepLines`
follows from what splicing does to each index (`SpliceIsSpliced`, `PutInAndTakenOut`).

The provers cannot instantiate the library's induction theorems. `Counting` states
induction about a set instead, and follows from the least number that is not in it; with
it, that a recursive *function* has values at all, and which, is proved where it is needed
(`PrefixesExist` for `FlattenSeq`, `Iterates` for the levels of a tree, the scan of a
label, the reading of a stream, and the drawing and the writing of a frame).

`WorkspaceProofs` proves of `Workspace`, which every behaviour of `Workbench` follows as
well, `WindowsAreSound` (`WindowsSound`) and `CursorsFollowTheirText` (`CursorsFollow`),
for all files, letters, window sizes and bounds; `WorkspaceAssumption` says that files are
texts and that bounds and sizes are natural numbers. The inductive invariant is
`WorkspaceOk` (`WorkspaceIsOk`): documents, views and panes are what they should be
(`DocsOf`, `ViewRecords`, `Panes`), every editor has a document, every pane an editor, the
leaves make a tree, and the focus is on one of them. There is one lemma per action, and
the three parts of `WindowsAreSound` follow from it:

* The panes tile the area (`TreeTiles`) because the rectangles on the way to a leaf only
  narrow (`PathsNarrow`), because two leaves part at the split where their ways meet, whose
  sides are apart (`ApartBelow`), and because every cell is in a pane or a rule: if it were
  in none, the longest way whose rectangle holds it would have another split below it
  (`CellsAreCovered`). `SplitTree`, `ResizedTree`, `RemovedTree` and `RemappedTree` say that
  the operations leave a tree a tree.
* A session is read back pane by pane (`RestoredIs`): each opens its file as a document of
  its own and puts the cursor where it was, which is a place of the text if that is the
  file's.
* The cursor is drawn on its character (`CursorSits`): drawing scrolls the view until the
  cursor is in the pane (`ScrollIs`, `EnsuredIs`), the row it is drawn in is that of its
  line among those that no fold hides (`LinesReach`), and its column is what the
  characters and hints before it take (`ColumnsReach`).

`CursorsFollow` is about every edit that the workspace hands on, also between edits of the
agent (`AgentEdit` is a step of the specification, and excepted itself). It needs that going
through all views hands an edit to each view of the document once, and no other edit with it
(`PropagatedIs`, `OnlyEdit`). It rests on an argument about one edit: what is behind the replaced range keeps
its distance from the end and what is before it keeps its place (`PlaceFollows`), in bytes,
with characters of one byte and of three. That each operation is one edit of the text
between two places is shown for every command (`EditedIs`, `CommandLeads`).

`SpansKeepTheirText` rests on the same lemmas: a span before the edit keeps its bytes, one
behind it moves by what the edit adds, and both begin and end at the same characters as
before (`SpanStays`); that the layer stays sorted is shown for two spans, as many as the
property speaks of (`LayerStays`).

Of section 8, only model-checked remain the liveness in `HelpersAndHintsKeepUp`, and what
is about recursive operators: rope, tags, answers, searches and key maps (in
`ResultsAreExact`) and `HintIsTrue`.

## 9. Only model-checked, not modelled

Only model-checked: all liveness properties; the runs that expect a violation; of section
8, `ResultsAreExact` (but for spans, replies, frames and reports) and `HintIsTrue`.

Not modelled:

* The VT100 emulator (`majestic-term/terminal.rs`, 600 lines of a fixed grammar), the
  converters of Texinfo and Markdown, configuration, scripting, help index and
  translations: they turn one input into one value and keep no state that others see.
* JSON, HTTP and URIs of providers and language servers; digests and CRCs (a constant
  function or a flag stands for them).
* Colours, themes, titles and messages, the drawing of the GPU front-end.
* A file of a saved session that cannot be opened any more (`workspace.rs:357` then shows
  an empty buffer), a file that the line editor cannot read when it starts, and output it
  cannot write; a `poll(2)` of a pane's reader that fails.
* The event bus, the executor queue and the seeded executor of `morpheus`: a drain of a
  channel, which is modelled where the language client uses it.
* The synchronous `AgentSession` and the audit chain.
* Benchmarks.

## 10. Observations

What the code does that a maintainer may want to know; the models do the same. Each is
either an exception that a property names or a choice the model keeps.

Files and sessions

* `reap` after a shell ended takes the focus, and a `toggle_terminal` whose spawn failed
  leaves its panel marked visible; the terminal may keep the focus while the agent's
  panel is drawn in its place.
* A path that is open twice has two `Document`s and two journals on one file; a restored
  session opens each pane on its own, and forgets tabs that no pane shows.
* The session file is rewritten in place, so that a kill or a full disk in the middle of a
  save takes the older session with it (excepted in `DiskNeverGoesBack`); when the last client
  leaves and the save fails, nobody hears of it (excepted in `UnwatchedIsSaved`).
* A command that edits twice has only its last edit propagated to the other views, and
  undo is not propagated. The agent's edits are propagated with the next key or command that
  is not a window command, of a batch only the last; until then the cursors of the other
  views are stale, and what is typed there goes to the wrong place. The documentation of
  `propagate_edits` has the "views of one buffer track each other's forward edits"
  (`workspace.rs:642-643`): a split, an edit of the agent and `C-x o` are enough that they
  do not. A view that is opened after an
  edit of the agent, and sees it already, is shifted by it later. Closing and cycling can bring one editor into two panes.
* The cursor in a folded line is drawn on the next row.

Language client

* Formatting replaces the whole text if the revision is that of the last request, and
  edits of a rename or a command are applied without a look at the revision.
* `initialize` is awaited without a timeout; a write that fails leaves its id pending;
  a server that died is written to again in every frame.
* A request is written under the writer's mutex, by a write that blocks, before its timeout
  begins (`connection.rs:127`, `155-158`). A server that reads no more keeps the workers of
  requests, and with the next change the editor's thread, for as long as it lives (excepted in
  `EveryRequestEnds`). The documentation says that "a slow or stuck server must not pin the
  thread forever" (`connection.rs:112-113`) and calls `poll` "Non-blocking" (`manager.rs:354`).
* Columns are counted in characters, not in UTF-16 units; two edits that start at the same
  place are applied in reverse.
* The debounced request is a single slot, so a signature request can displace a
  highlight request; a workspace symbol and a command go to the buffer that is active
  when they are confirmed; symbols can pop up over the finder.

Text

* Two tagged edits, an insertion after line k and a change of line k+1, start at the same
  byte and clobber each other. Deleting the last two lines leaves an empty one.
* A span whose whole text is replaced ends before it starts.
* `mj ed`: a bare address only prints, though the comment above it says it moves; `1c` with
  no input leaves the current line 0 (`ed.rs:459`), from which a backward search underflows,
  though the comment at the field says "`0` only when the buffer is empty" (`ed.rs:95`); `wq` of a
  part quits although the rest is modified; a write of a part, or one that fails half-way,
  over the whole file leaves the file short and the buffer unmodified (both excepted in
  `NothingIsGivenUp`); marks do not move with their lines.
* The module comment of `search.rs` says "case-sensitive"; a query in small letters is not.

Panels, keys, drawing

* `Event::Paste` goes to the text under modals, prompts and the search line.
* A search keeps its origin and tint when another buffer becomes active.
* A split view gets the default key profile; the palette's cut and copy do not reach the
  system clipboard; closing the last buffer by its key ends the editor.
* A `C-x` that waits for its second key survives keys that the application takes first;
  a dispatcher with layers fires a binding of the lower layer although the upper one has a
  longer chord.
* The Git panel draws its notice over its last row, commits the index as it is then, and
  takes an untracked `a -> b` for a rename.
* The manual reader pages past the selection, which Enter then follows.
* After a resize both buffers are blank, and what the terminal still shows may stay; half
  a wide glyph that is drawn over leaves its other half. Such a half spoils up to two cells
  to its right: a frame that draws a wide glyph at column 0 and another at column 1, after
  a frame with one at column 1, finds the second unchanged and does not write it, but
  writing the first has covered it.

Threads and processes

* `flush_highlights` waits for ever if a frame has taken the result already
  (`editor.rs:849`, `syntax.rs:413`; excepted in `HighlightsCatchUp`), though it "blocks until
  highlights reflect the current buffer revision" (`editor.rs:835`), which they do; its
  callers, a test and a benchmark, flush before any frame. A language
  that is supported but has no grammar ends the worker.
* Dropping a terminal pane sends `SIGHUP` and joins the reader, on the editor's thread: a
  child that ignores it and writes without end keeps the editor waiting (excepted in
  `DropReachesTheReader`). What else the library does when a `Pty` is dropped is external.
* The sandbox's time limit is not looked at once the command itself has ended: a process
  it left behind that keeps the pipe open keeps the run waiting.
* A message that is typed during a turn is shown but not sent. Text of two steps is
  joined if the tool between them needed no approval. A stream that ends without its end
  mark counts as complete, and a skipped index of a call becomes an empty call.
