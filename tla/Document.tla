------------------------------ MODULE Document ------------------------------
(***************************************************************************)
(* A document with a path, its file, and its edit journal                  *)
(* (crates/majestic-core/src/buffer.rs, crates/stratum/src/journal.rs).    *)
(*                                                                         *)
(* The process is single-threaded, so an operation is one action -- except *)
(* where it touches the disk more than once: a save and the creation of a  *)
(* journal are one action per write, because the process may be killed, or *)
(* the machine lose power, between any two of them; and the replay of a    *)
(* journal is one action per record.                                       *)
(*                                                                         *)
(* Abstractions: a record that was cut short makes everything after it     *)
(* unreadable (its CRC does not match), so a journal is its readable       *)
(* records and a flag `torn`; a file that does not start with a complete   *)
(* header is "headless".  Memory is reset when the process goes.           *)
(*                                                                         *)
(* `seen` and `gap` are history variables, read by no guard.              *)
(***************************************************************************)
EXTENDS UndoTree, FiniteSets

CONSTANTS
  Byte,           \* the bytes texts are made of
  Continuation,   \* those that are not the first byte of a character
  Utf8,           \* the sequences of bytes that are text
  Ops,            \* the edit operations a user may make
  InitialFiles,   \* the contents the file may have at first
  MaxOps,         \* FlushPolicy.max_ops
  MaxLen,         \* bound on the length of the text
  MaxRecords,     \* bound on the records of a journal
  MaxFaults       \* bound on the failures and ends of the process

VARIABLES
  file,         \* the file, as the kernel serves it
  fileOnDisk,   \* the content of the file that power loss cannot take away
  jfile,        \* the journal file: [state, base, recs, torn]
  synced,       \* how many of jfile.recs power loss cannot take away
  pc,           \* where the process is
  pos,          \* records replayed so far, while opening
  journal,      \* Document.journal is Some
  sinceSync,    \* Journal.ops_since_sync
  dirty, recovered, journalError,
  faults,       \* failures and ends of the process so far (bounded)
  seen,         \* seen[i+1]: the last text shown while the log held i records
  gap           \* the latest thing since the checkpoint that the log does not
                \* cover (but see Breach)

disk == <<file, fileOnDisk, jfile, synced>>
handle == <<journal, sinceSync>>
flags == <<dirty, recovered, journalError>>
history == <<seen, gap>>
vars == <<nodes, current, disk, pc, pos, handle, flags, faults, history>>

Content == Seq(Byte)
EditOp == [start : Nat, oldLen : Nat, text : Content]
Gap == {"none", "undo", "unlogged", "checkpoint", "torn", "power"}

ASSUME DocumentAssumption ==
  /\ Continuation \subseteq Byte
  /\ Ops \subseteq EditOp
  /\ Utf8 \subseteq Content
  /\ InitialFiles \subseteq Utf8
  /\ MaxOps \in Nat \ {0}
  /\ MaxLen \in Nat
  /\ MaxRecords \in Nat
  /\ MaxFaults \in Nat

-----------------------------------------------------------------------------
\* Edit operations, over bytes.

IsBoundary(rope, at) ==
  at = Len(rope) \/ (at < Len(rope) /\ rope[at + 1] \notin Continuation)

\* The guard of `replay`, and what a cursor and a selection satisfy.
Applies(op, rope) ==
  /\ op.start + op.oldLen <= Len(rope)
  /\ IsBoundary(rope, op.start)
  /\ IsBoundary(rope, op.start + op.oldLen)

Replace(op, rope) ==
  SubSeq(rope, 1, op.start) \o op.text \o
  SubSeq(rope, op.start + op.oldLen + 1, Len(rope))

\* The edits a user can make to the live text.
UserOps == {op \in Ops : Applies(op, Rope) /\ Len(Replace(op, Rope)) <= MaxLen}

-----------------------------------------------------------------------------
\* The journal file.

Absent == [state |-> "absent", base |-> 0, recs |-> << >>, torn |-> FALSE]
Headless == [state |-> "headless", base |-> 0, recs |-> << >>, torn |-> FALSE]
FreshLog(base) == [state |-> "ok", base |-> base, recs |-> << >>, torn |-> FALSE]

\* A record written now will be read back.
Appendable == jfile.state = "ok" /\ ~jfile.torn

\* The last text shown, which the next opening owes to the user.
Owed == seen[Len(seen)]

\* The log accounts for all that happened since the checkpoint.
Covered == gap = "none"

\* Something the log does not cover left the user with `rope`.  An unfinished
\* checkpoint outranks edits that were not logged, and these the rest.
Breach(cause, rope) ==
  /\ gap' = IF gap \in {"unlogged", "checkpoint"} /\ cause # "checkpoint" THEN gap ELSE cause
  /\ seen' = <<rope>>

\* A record was written that leads to `rope`.
LogCovers(rope) ==
  /\ seen' = IF Covered THEN Append(seen, rope) ELSE <<rope>>
  /\ UNCHANGED gap

\* Something goes wrong: an error is returned, or the process or the machine
\* stops.
Fault ==
  /\ faults < MaxFaults
  /\ faults' = faults + 1

ForgetProcess ==
  /\ Fault
  /\ pc' = "down"
  /\ Reset(<< >>)
  /\ pos' = 0
  /\ journal' = FALSE
  /\ sinceSync' = 0
  /\ dirty' = FALSE
  /\ recovered' = FALSE
  /\ journalError' = FALSE

Init ==
  /\ nodes = Rooted(<< >>)
  /\ current = 1
  /\ file \in InitialFiles
  /\ fileOnDisk = file
  /\ jfile = Absent
  /\ synced = 0
  /\ pc = "down"
  /\ pos = 0
  /\ journal = FALSE
  /\ sinceSync = 0
  /\ dirty = FALSE
  /\ recovered = FALSE
  /\ journalError = FALSE
  /\ seen = <<file>>
  /\ gap = "none"
  /\ faults = 0

-----------------------------------------------------------------------------
\* Document::open

\* Mutant of LogIsLeftOver: the journal of an earlier session is ignored.
NoLogIsLeftOver == FALSE

\* A previous session left unsaved edits.
LogIsLeftOver ==
  jfile.state = "ok" /\ jfile.base = Len(file) /\ jfile.recs # << >>

\* The opening fails, and changes nothing, on a file that was cut inside a
\* character (fs::read_to_string) and on a headless journal (Journal::recover).
Openable == file \in Utf8 /\ jfile.state # "headless"

OpenWithRecovery ==
  /\ pc = "down"
  /\ Openable
  /\ LogIsLeftOver
  /\ pc' = "replay"
  /\ Reset(file)
  /\ UNCHANGED <<disk, pos, handle, flags, faults, history>>

\* Stale, empty or no journal: start fresh from the file.  Truncates it.
OpenFresh ==
  /\ pc = "down"
  /\ Openable
  /\ ~LogIsLeftOver
  /\ pc' = "header_open"
  /\ Reset(file)
  /\ jfile' = Headless
  /\ synced' = 0
  /\ Breach("checkpoint", file)
  /\ UNCHANGED <<file, fileOnDisk, pos, handle, flags, faults>>

Replayable == pos < Len(jfile.recs) /\ Applies(jfile.recs[pos + 1], Rope)

\* Mutant of ReplayRecord: each record is applied to the base.
ReplayOnBase ==
  /\ pc = "replay"
  /\ Replayable
  /\ Reset(Replace(jfile.recs[pos + 1], file))
  /\ pos' = pos + 1
  /\ UNCHANGED <<disk, pc, handle, flags, faults, history>>

ReplayRecord ==
  /\ pc = "replay"
  /\ Replayable
  /\ Reset(Replace(jfile.recs[pos + 1], Rope))
  /\ pos' = pos + 1
  /\ UNCHANGED <<disk, pc, handle, flags, faults, history>>

\* The replay is over; the journal is opened to append to.
Recovered ==
  /\ pc = "replay"
  /\ ~Replayable
  /\ pc' = "running"
  /\ pos' = 0
  /\ journal' = TRUE
  /\ dirty' = TRUE
  /\ recovered' = TRUE
  /\ seen' = IF Covered THEN seen ELSE <<Rope>>
  /\ UNCHANGED <<nodes, current, disk, sinceSync, journalError, faults, gap>>

-----------------------------------------------------------------------------
\* Document::apply_edit, undo, redo

\* Whether max_interval has passed since the last sync is a choice.
SyncDue(elapsed) == sinceSync + 1 >= MaxOps \/ elapsed

\* Mutant of AppendRecord: the policy is consulted before the record counts.
LateSyncAppendRecord(op) ==
  /\ IF Appendable
     THEN /\ Len(jfile.recs) < MaxRecords
          /\ jfile' = [jfile EXCEPT !.recs = Append(@, op)]
          /\ LogCovers(Replace(op, Rope))
     ELSE /\ Breach("torn", Replace(op, Rope))
          /\ UNCHANGED jfile
  /\ \E elapsed \in BOOLEAN :
       IF sinceSync >= MaxOps \/ elapsed
       THEN sinceSync' = 0 /\ synced' = Len(jfile'.recs)
       ELSE sinceSync' = sinceSync + 1 /\ UNCHANGED synced

\* Journal::append.  Behind a torn record, or without a header, the record
\* reaches the file but no reader.
AppendRecord(op) ==
  /\ IF Appendable
     THEN /\ Len(jfile.recs) < MaxRecords
          /\ jfile' = [jfile EXCEPT !.recs = Append(@, op)]
          /\ LogCovers(Replace(op, Rope))
     ELSE /\ Breach("torn", Replace(op, Rope))
          /\ UNCHANGED jfile
  /\ \E elapsed \in BOOLEAN :
       IF SyncDue(elapsed)
       THEN sinceSync' = 0 /\ synced' = Len(jfile'.recs)
       ELSE sinceSync' = sinceSync + 1 /\ UNCHANGED synced

Edit(op) ==
  /\ pc = "running" /\ journal
  /\ Record(Replace(op, Rope))
  /\ AppendRecord(op)
  /\ dirty' = TRUE
  /\ UNCHANGED <<file, fileOnDisk, pc, pos, journal, recovered, journalError, faults>>

\* The write fails, part of the record may be in the file: journaling stops
\* and the error is kept to be shown.
EditAppendFails(op) ==
  /\ pc = "running" /\ journal
  /\ Fault
  /\ Record(Replace(op, Rope))
  /\ \E torn \in {jfile.torn, jfile.state = "ok"} : jfile' = [jfile EXCEPT !.torn = torn]
  /\ journal' = FALSE
  /\ journalError' = TRUE
  /\ dirty' = TRUE
  /\ Breach("unlogged", Replace(op, Rope))
  /\ UNCHANGED <<file, fileOnDisk, synced, pc, pos, sinceSync, recovered>>

\* The record is written but the sync it made due fails.
EditSyncFails(op) ==
  /\ pc = "running" /\ journal
  /\ Fault
  /\ Appendable
  /\ Len(jfile.recs) < MaxRecords
  /\ Record(Replace(op, Rope))
  /\ jfile' = [jfile EXCEPT !.recs = Append(@, op)]
  /\ LogCovers(Replace(op, Rope))
  /\ journal' = FALSE
  /\ journalError' = TRUE
  /\ dirty' = TRUE
  /\ UNCHANGED <<file, fileOnDisk, synced, pc, pos, sinceSync, recovered>>

\* journal is None: the edit lives in memory only.
EditUnlogged(op) ==
  /\ pc = "running" /\ ~journal
  /\ Record(Replace(op, Rope))
  /\ dirty' = TRUE
  /\ Breach("unlogged", Replace(op, Rope))
  /\ UNCHANGED <<disk, pc, pos, handle, recovered, journalError, faults>>

\* Mutant of HistoryMove: moving through the history does not set the flag.
HistoryMoveStaysClean(Step) ==
  /\ pc = "running"
  /\ Step
  /\ Breach("undo", Rope')
  /\ UNCHANGED <<disk, pc, pos, handle, flags, faults>>

\* Neither move through the history is journaled.
HistoryMove(Step) ==
  /\ pc = "running"
  /\ Step
  /\ dirty' = TRUE
  /\ Breach("undo", Rope')
  /\ UNCHANGED <<disk, pc, pos, handle, recovered, journalError, faults>>

Undo == HistoryMove(StepBack)
Redo == HistoryMove(StepForward)

-----------------------------------------------------------------------------
\* Document::save: fs::write, then Journal::create

\* fs::write truncates the file it opens ...
SaveTruncatesFile ==
  /\ pc = "running"
  /\ pc' = "write"
  /\ file' = << >>
  /\ Breach("checkpoint", Rope)
  /\ UNCHANGED <<nodes, current, fileOnDisk, jfile, synced, pos, handle, flags, faults>>

\* ... and writes the text to it, in as many pieces as the kernel takes.
SaveWritesPart ==
  /\ pc = "write"
  /\ \E n \in Len(file) + 1 .. Len(Rope) - 1 : file' = SubSeq(Rope, 1, n)
  /\ UNCHANGED <<nodes, current, fileOnDisk, jfile, synced, pc, pos, handle, flags, faults, history>>

SaveWritesRest ==
  /\ pc = "write"
  /\ pc' = "written"
  /\ file' = Rope
  /\ UNCHANGED <<nodes, current, fileOnDisk, jfile, synced, pos, handle, flags, faults, history>>

\* Journal::create truncates the journal it opens ...
SaveTruncatesJournal ==
  /\ pc = "written"
  /\ pc' = "header_save"
  /\ jfile' = Headless
  /\ synced' = 0
  /\ UNCHANGED <<nodes, current, file, fileOnDisk, pos, handle, flags, faults, history>>

\* Mutant of WriteHeader: the header is written before the base length is known.
WriteHeaderBaseZero ==
  /\ pc \in {"header_open", "header_save"}
  /\ pc' = "running"
  /\ jfile' = FreshLog(0)
  /\ synced' = 0
  /\ journal' = TRUE
  /\ sinceSync' = 0
  /\ dirty' = FALSE
  /\ recovered' = FALSE
  /\ journalError' = FALSE
  /\ seen' = <<Rope>>
  /\ gap' = "none"
  /\ UNCHANGED <<nodes, current, file, fileOnDisk, pos, faults>>

\* ... and writes and syncs its header: the checkpoint is taken, the document
\* is open or saved.
WriteHeader ==
  /\ pc \in {"header_open", "header_save"}
  /\ pc' = "running"
  /\ jfile' = FreshLog(Len(Rope))
  /\ synced' = 0
  /\ journal' = TRUE
  /\ sinceSync' = 0
  /\ dirty' = FALSE
  /\ recovered' = FALSE
  /\ journalError' = FALSE
  /\ seen' = <<Rope>>
  /\ gap' = "none"
  /\ UNCHANGED <<nodes, current, file, fileOnDisk, pos, faults>>

\* `?` after any of the writes: the save returns the error and nothing else
\* in the document changes, the old journal handle included.
SaveFails ==
  /\ pc \in {"write", "written", "header_save"}
  /\ pc' = "running"
  /\ Fault
  /\ UNCHANGED <<nodes, current, disk, pos, handle, flags, history>>

-----------------------------------------------------------------------------
\* The environment

\* SIGKILL, a panic, a failed opening, or the user leaving: the file and the
\* journal keep what was written to them.
Kill ==
  /\ pc # "down"
  /\ ForgetProcess
  /\ UNCHANGED <<disk, history>>

\* Killed inside Journal::append, with part of the record written.
KillMidAppend ==
  /\ pc = "running" /\ journal /\ Appendable
  /\ ForgetProcess
  /\ jfile' = [jfile EXCEPT !.torn = TRUE]
  /\ UNCHANGED <<file, fileOnDisk, synced, history>>

\* The machine loses power: of the journal the synced records survive, and any
\* number of the next ones; the file, which save does not sync, may be the old
\* one.
PowerLoss ==
  /\ ForgetProcess
  /\ file' \in {file, fileOnDisk}
  /\ fileOnDisk' = file'
  /\ \E k \in synced .. Len(jfile.recs), torn \in BOOLEAN :
       /\ torn => jfile.torn \/ k < Len(jfile.recs)
       /\ jfile' = [jfile EXCEPT !.recs = SubSeq(@, 1, k), !.torn = torn]
       /\ synced' = k
       /\ IF Covered /\ file' = file
          THEN seen' = SubSeq(seen, 1, k + 1) /\ UNCHANGED gap
          ELSE seen' = <<Owed>> /\ gap' = "power"

\* The kernel writes its dirty pages back, in its own time.
Writeback ==
  /\ fileOnDisk' = file
  /\ synced' = Len(jfile.recs)
  /\ UNCHANGED <<nodes, current, file, jfile, pc, pos, handle, flags, faults, history>>

Next ==
  \/ OpenWithRecovery \/ OpenFresh \/ ReplayRecord \/ Recovered
  \/ \E op \in UserOps :
       \/ Edit(op)
       \/ EditAppendFails(op)
       \/ EditSyncFails(op)
       \/ EditUnlogged(op)
  \/ Undo \/ Redo
  \/ SaveTruncatesFile \/ SaveWritesPart \/ SaveWritesRest
  \/ SaveTruncatesJournal \/ WriteHeader \/ SaveFails
  \/ Kill \/ KillMidAppend \/ PowerLoss \/ Writeback

Spec == Init /\ [][Next]_vars

-----------------------------------------------------------------------------
\* Properties

\* A process shows the document.
Up == pc \notin {"down", "replay"}

Node == [rope : Content, parent : Nat, lastChild : Nat]
Log == [state : {"absent", "headless", "ok"}, base : Nat, recs : Seq(EditOp), torn : BOOLEAN]

\* The type of every variable.
TypeOK ==
  /\ nodes \in Seq(Node)
  /\ current \in NodeIds
  /\ file \in Content /\ fileOnDisk \in Content
  /\ jfile \in Log
  /\ synced \in 0 .. Len(jfile.recs)
  /\ pc \in {"down", "replay", "header_open", "running", "write", "written", "header_save"}
  /\ pos \in 0 .. Len(jfile.recs)
  /\ journal \in BOOLEAN
  /\ sinceSync \in 0 .. MaxOps - 1
  /\ dirty \in BOOLEAN /\ recovered \in BOOLEAN /\ journalError \in BOOLEAN
  /\ seen \in Seq(Content) \ {<< >>}
  /\ faults \in 0 .. MaxFaults
  /\ gap \in Gap

\* The log explains the document: from the file on, each record leads from one
\* text the user saw to the next (journal.rs: "replay applies them onto the
\* last saved content, reconstructing the in-memory document").
LogExplainsDocument ==
  Covered =>
    /\ Len(seen) = Len(jfile.recs) + 1
    /\ seen[1] = file
    /\ \A i \in DOMAIN jfile.recs :
         /\ Applies(jfile.recs[i], seen[i])
         /\ Replace(jfile.recs[i], seen[i]) = seen[i + 1]
    /\ jfile.recs # << >> => LogIsLeftOver
    /\ pc = "running" => Owed = Rope

\* A recovery passes only through texts the user saw, in their order, and does
\* not stop before the last of them.
RecoveryRetraces ==
  Covered /\ pc = "replay" =>
    /\ Rope = seen[pos + 1]
    /\ pos < Len(jfile.recs) => Replayable

\* The document reports unsaved changes unless the file holds its text, except
\* while a save that failed half-way is not made good (is_dirty).
CleanMeansSaved ==
  pc = "running" /\ ~dirty /\ gap # "checkpoint" => file = Rope

\* A power loss costs fewer than max_ops edits of a session that did not begin
\* with a recovery (open_append starts to count anew, over records an earlier
\* process left unsynced).
HardCrashWindow ==
  pc = "running" /\ journal /\ ~recovered => Len(jfile.recs) - synced < MaxOps

\* redo after undo returns to where undo left, with whatever branches.
RedoUndoesUndo ==
  [][nodes[current].parent # 0 /\ current' = nodes[current].parent /\ pc' = "running"
       => RedoTarget(current)' = current]_vars

\* What the sources say of recovery, and the code does not do: the text a
\* restart shows is the one the user saw last, whatever happened since the
\* checkpoint.

\* ... even if there was an undo or a redo (journal.rs:6-9).
RestartShowsUndone ==
  [][~Up /\ Up' /\ gap \in {"none", "undo"} => Rope' = Owed]_vars

\* ... even if the process died, or an error came, in a save (MAJESTIC.md:108).
RestartShowsSaved ==
  [][~Up /\ Up' /\ gap \in {"none", "checkpoint"} => Rope' = Owed]_vars

\* ... even if a record was once cut short (journal.rs:21-23).
RestartShowsAfterTorn ==
  [][~Up /\ Up' /\ gap \in {"none", "torn"} => Rope' = Owed]_vars

-----------------------------------------------------------------------------
\* What the document implements.

\* The texts the user saw since the journal was last synced.
Unflushed == IF Covered THEN SubSeq(seen, synced + 1, Len(seen)) ELSE << >>

Promise == INSTANCE CrashSafeText WITH
  Contents <- Content,
  text <- Owed,
  recent <- Unflushed,
  up <- Up,
  sound <- Covered

\* The journaled document keeps the promise of CrashSafeText: while nothing
\* happened that the log does not cover, a kill costs nothing and a power loss
\* only the edits since the last flush.
KeepsThePromise == Promise!Spec
=============================================================================
