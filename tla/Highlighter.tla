---------------------------- MODULE Highlighter ----------------------------
(***************************************************************************)
(* The highlight worker of one editor (majestic-core/syntax.rs) and the    *)
(* frame that talks to it (editor.rs refresh_highlights).  A frame takes   *)
(* the newest finished result and asks for the current revision once; the  *)
(* worker drops every request but the newest; a drop closes the channel    *)
(* and joins.  A snapshot is its revision, a result the revision it was    *)
(* computed from.                                                          *)
(***************************************************************************)
EXTENDS Integers, Sequences

CONSTANT MaxRevision        \* bound: edits of the buffer

ASSUME HighlighterAssumption == MaxRevision \in Nat

VARIABLES
    revision,       \* of the buffer
    requested,      \* requested_revision, -1 for None
    highlighted,    \* highlighted_revision, -1 for None
    requests,       \* the channel to the worker
    results,        \* the channel from it
    worker,         \* "starting", "waiting", "working" or "ended"
    taken,          \* the revision it highlights, while working
    editorState     \* "open", "flushing", "dropping" or "gone"

hlVars == <<revision, requested, highlighted, requests, results, worker, taken,
           editorState>>

Absent == -1

HlInit ==
    /\ revision = 0 /\ requested = Absent /\ highlighted = Absent
    /\ requests = <<>> /\ results = <<>>
    /\ worker = "starting" /\ taken = Absent /\ editorState = "open"

-----------------------------------------------------------------------------
(* The editor's thread.                                                    *)

HlEdit ==
    /\ editorState = "open" /\ revision < MaxRevision
    /\ revision' = revision + 1
    /\ UNCHANGED <<requested, highlighted, requests, results, worker, editorState, taken>>

\* The newest result, the older ones are discarded.
Newest(channel) == channel[Len(channel)]

\* Sending to a worker that ended fails; the request counts as made.
RequestCurrent ==
    /\ requests' = IF requested = revision \/ worker = "ended" THEN requests
                   ELSE Append(requests, revision)
    /\ requested' = revision

Refresh ==
    /\ editorState = "open"
    /\ results' = <<>>
    /\ highlighted' = IF results = <<>> THEN highlighted ELSE Newest(results)
    /\ RequestCurrent
    /\ UNCHANGED <<revision, worker, editorState, taken>>

\* Tests and the benchmark flush.  Whether a frame has taken the result of this revision
\* already is not asked.
Flush ==
    /\ editorState = "open"
    /\ RequestCurrent
    /\ editorState' = "flushing"
    /\ UNCHANGED <<revision, highlighted, results, worker, taken>>

\* wait_for takes results until one is recent enough, or the worker is gone; it waits as
\* long as there is neither.
FlushReceives ==
    /\ editorState = "flushing"
    /\ IF results # <<>>
       THEN /\ results' = Tail(results)
            /\ IF Head(results) >= revision
               THEN highlighted' = Head(results) /\ editorState' = "open"
               ELSE UNCHANGED <<highlighted, editorState>>
       ELSE /\ worker = "ended" /\ editorState' = "open"
            /\ UNCHANGED <<highlighted, results>>
    /\ UNCHANGED <<revision, requested, requests, worker, taken>>

HlDrop ==
    /\ editorState = "open" /\ editorState' = "dropping"
    /\ UNCHANGED <<revision, requested, highlighted, requests, results, worker, taken>>

HlJoin ==
    /\ editorState = "dropping" /\ worker = "ended"
    /\ editorState' = "gone"
    /\ UNCHANGED <<revision, requested, highlighted, requests, results, worker, taken>>

-----------------------------------------------------------------------------
(* The worker's thread.                                                    *)

\* A grammar that does not load ends the thread although supports said yes.
WorkerStarts ==
    /\ worker = "starting"
    /\ worker' \in {"waiting", "ended"}
    /\ requests' = IF worker' = "ended" THEN <<>> ELSE requests
    /\ UNCHANGED <<revision, requested, highlighted, results, editorState, taken>>

WorkerTakes ==
    /\ worker = "waiting" /\ requests # <<>>
    /\ worker' = "working" /\ taken' = Newest(requests) /\ requests' = <<>>
    /\ UNCHANGED <<revision, requested, highlighted, results, editorState>>

WorkerDelivers ==
    /\ worker = "working"
    /\ results' = Append(results, taken)
    /\ worker' = "waiting"
    /\ UNCHANGED <<revision, requested, highlighted, requests, editorState, taken>>

\* recv fails when the channel is empty and its sender dropped.
WorkerEnds ==
    /\ worker = "waiting" /\ requests = <<>> /\ editorState = "dropping"
    /\ worker' = "ended"
    /\ UNCHANGED <<revision, requested, highlighted, requests, results, editorState, taken>>

WorkerStep == WorkerStarts \/ WorkerTakes \/ WorkerDelivers \/ WorkerEnds

HlNext == \/ HlEdit \/ Refresh \/ Flush \/ FlushReceives \/ HlDrop \/ HlJoin
          \/ WorkerStep

-----------------------------------------------------------------------------
\* What is drawn comes from a revision that was asked for, and frames never go
\* back to an older one.
HighlightsAdvance ==
    [][highlighted' >= highlighted /\ highlighted' <= requested']_hlVars

\* When the editing stops, a later frame shows the current revision, whatever was
\* coalesced; a drop comes back, and so does a flush that has something to wait for.  Excepted
\* is a flush of a revision that a frame has already highlighted: no result is to come, and
\* the code waits for one as long as the worker lives, although "Blocks until highlights
\* reflect the current buffer revision" (editor.rs:835) promises to be back at once.
HighlightsCatchUp ==
    /\ []<>(editorState = "open" /\ worker # "ended" => highlighted = revision)
    /\ []<>(editorState = "flushing" => highlighted = revision)
    /\ []<>(editorState # "dropping")
=============================================================================
