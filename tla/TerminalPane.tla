---------------------------- MODULE TerminalPane ----------------------------
(***************************************************************************)
(* The integrated terminal: a child on a pseudo-terminal and the reader    *)
(* thread that pumps its output into the screen (majestic-term/pty.rs).    *)
(* The editor's thread spawns the pane, writes keys to it, asks whether it *)
(* is running and drops it; a drop stops and wakes the reader, sends the   *)
(* child a hang-up, which it need not follow, and waits for the reader.  A *)
(* chunk of output is plain text or a query, to which the emulator owes    *)
(* the child an answer; the screen is one bit that each chunk flips.  The  *)
(* child stands for every program that has the pseudo-terminal open.       *)
(***************************************************************************)
EXTENDS Naturals, Sequences

CONSTANTS
    MaxOutput,      \* bound: chunks that the PTY holds
    MaxShells       \* bound: panes that are spawned

ASSUME PaneAssumption == MaxOutput \in Nat /\ MaxShells \in Nat

VARIABLES
    child,      \* "none", "alive" or "exited"
    output,     \* the chunks in the PTY that nobody has read
    reader,     \* where the reader thread is
    stop,       \* the flag that Drop sets
    woken,      \* the waker of the poll has fired
    owed,       \* a query was read whose answer is not written yet
    screen,     \* what the emulator shows
    shells      \* panes spawned so far (bounds the run)

paneVars == <<child, output, reader, stop, woken, owed, screen, shells>>

OutputChunks == {"text", "query"}

NoPane ==
    /\ child = "none" /\ output = <<>> /\ reader = "none"
    /\ stop = FALSE /\ woken = FALSE /\ owed = FALSE /\ screen = 0 /\ shells = 0

-----------------------------------------------------------------------------
(* The editor's thread.                                                    *)

PaneExists == reader # "none"

PaneRunning == reader \notin {"none", "ended"}

\* A pane that is spawned over one that ended drops that one: its reader is
\* gone, so the join returns at once.
SpawnPane ==
    /\ shells < MaxShells
    /\ child' = "alive" /\ output' = <<>> /\ reader' = "polling"
    /\ stop' = FALSE /\ woken' = FALSE /\ owed' = FALSE /\ screen' = 0
    /\ shells' = shells + 1

\* The join of a drop returns when the reader is gone.
ClearPane ==
    /\ child' = "none" /\ output' = <<>> /\ reader' = "none"
    /\ stop' = FALSE /\ woken' = FALSE /\ owed' = FALSE /\ screen' = 0
    /\ UNCHANGED shells

DropPane == ~PaneRunning /\ ClearPane

\* What a drop does before it joins.  SIGHUP is a request: the child exits when it will
\* (ChildExits), and may write until then.
HangUpPane ==
    /\ stop' = PaneExists /\ woken' = PaneExists
    /\ UNCHANGED <<child, output, reader, owed, screen, shells>>

-----------------------------------------------------------------------------
(* The child and the reader thread.                                        *)

\* However much it has written before.
ChildWrites ==
    /\ child = "alive" /\ Len(output) < MaxOutput
    /\ \E chunk \in OutputChunks : output' = Append(output, chunk)
    /\ UNCHANGED <<child, reader, stop, woken, owed, screen, shells>>

ChildExits ==
    /\ child = "alive" /\ child' = "exited"
    /\ UNCHANGED <<output, reader, stop, woken, owed, screen, shells>>

\* The poll returns when there is something to read, the child is gone or the
\* waker has fired.
ReaderWakes ==
    /\ reader = "polling"
    /\ woken \/ output # <<>> \/ child = "exited"
    /\ reader' = IF stop THEN "ended" ELSE "draining"
    /\ woken' = FALSE
    /\ UNCHANGED <<child, output, stop, owed, screen, shells>>

\* The inner loop looks at nothing but the output: not at stop.
ReaderReads ==
    /\ reader = "draining" /\ output # <<>>
    /\ output' = Tail(output)
    /\ owed' = (owed \/ Head(output) = "query")
    /\ screen' = 1 - screen
    /\ UNCHANGED <<child, reader, stop, woken, shells>>

\* End of file: the loop ends here, before the answers are written.
ReaderEnds ==
    /\ reader = "draining" /\ output = <<>> /\ child = "exited"
    /\ reader' = "ended"
    /\ UNCHANGED <<child, output, stop, woken, owed, screen, shells>>

ReaderDrained ==
    /\ reader = "draining" /\ output = <<>> /\ child = "alive"
    /\ reader' = "replying"
    /\ UNCHANGED <<child, output, stop, woken, owed, screen, shells>>

\* All answers are taken and written; a write that fails loses them.
ReaderReplies ==
    /\ reader = "replying"
    /\ owed' = FALSE /\ reader' = "polling"
    /\ UNCHANGED <<child, output, stop, woken, screen, shells>>

ReaderStep == ReaderWakes \/ ReaderReads \/ ReaderEnds \/ ReaderDrained \/ ReaderReplies

PaneStep == ChildWrites \/ ChildExits \/ ReaderStep

PaneInit == NoPane

\* The application spawns a pane when none runs, and drops one that ended or that it
\* does not want any more.
PaneNext ==
    \/ ~PaneRunning /\ ~stop /\ SpawnPane
    \/ PaneExists /\ ~stop /\ HangUpPane
    \/ PaneExists /\ DropPane
    \/ PaneStep

\* A query that was read is answered before the reader sleeps again.
NoQueryForgotten == reader = "polling" => ~owed

\* A drop comes back: the reader ends, whatever it was doing, and whether or not the child
\* follows the hang-up, as long as one that was hung up writes no more from some time on.
\* (A child that ignores SIGHUP and writes for ever may keep the reader in its inner loop,
\* which does not look at stop, and with it the thread that drops the pane.)
DropReachesTheReader == <>[][~(stop /\ ChildWrites)]_paneVars => []<>(stop => ~PaneExists)
=============================================================================
