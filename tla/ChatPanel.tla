----------------------------- MODULE ChatPanel -----------------------------
(***************************************************************************)
(* What the user sees of the agent: the transcript in the sidebar          *)
(* (mj/agent_panel.rs), the host that writes a turn's events into it       *)
(* (mj/agent_host.rs), and the reply that is put together from a stream    *)
(* (architect/http.rs).  The worker is any source of events that keeps     *)
(* their order; module AgentTurn has its loop.  A text is a sequence of    *)
(* marks of a cell each, numbered in the order they are made.              *)
(***************************************************************************)
EXTENDS Naturals, Sequences, SequencesExt

CONSTANTS
    ChatWidths,     \* bound: the columns of the sidebar
    ChatHeights,    \* bound: its rows
    MaxLines,       \* bound: lines of the transcript
    MaxTokens       \* bound: pieces of text of one reply

ASSUME ChatAssumption == ChatWidths \cup ChatHeights \subseteq Nat /\ 0 \notin ChatWidths

VARIABLES
    chat,           \* the panel: its lines, and whether the last one grows
    host            \* the host: its turn, the question that waits, what was streamed

chatVars == <<chat, host>>

\* The host's own words.
Note == <<0>>

-----------------------------------------------------------------------------
(* A reply from a stream of events: a token, a piece of the tool call at   *)
(* an index from 0, a line that is no event, the end mark.                 *)

NoReply == [content |-> <<>>, calls |-> <<>>]

\* Calls below the index that were not heard of yet are there, empty.
AddPiece(calls, event) ==
    LET grown == [i \in 1 .. (IF event.index < Len(calls) THEN Len(calls) ELSE event.index + 1) |->
                    IF i \in DOMAIN calls THEN calls[i] ELSE <<>>]
    IN  [grown EXCEPT ![event.index + 1] = Append(@, event.part)]

AddEvent(reply, event) ==
    CASE event.kind = "token" -> [reply EXCEPT !.content = Append(@, event.part)]
      [] event.kind = "call" -> [reply EXCEPT !.calls = AddPiece(@, event)]
      [] OTHER -> reply

\* What follows the end mark is not read; a stream may end without one.
BeforeEnd(events) ==
    LET ends == {i \in DOMAIN events : events[i].kind = "end"}
    IN  IF ends = {} THEN events
        ELSE SubSeq(events, 1, (CHOOSE i \in ends : \A j \in ends : i <= j) - 1)

ReadStream(events) ==
    LET heard == BeforeEnd(events)
        reply[i \in 0 .. Len(heard)] == IF i = 0 THEN NoReply ELSE AddEvent(reply[i - 1], heard[i])
    IN  reply[Len(heard)]

-----------------------------------------------------------------------------
(* The panel.                                                              *)

\* Mutant of ChatPush: the line before goes on growing where the next token comes.
ChatPushKeepsStream(c, by, text) ==
    [c EXCEPT !.lines = Append(@, [by |-> by, text |-> text])]

ChatPush(c, by, text) ==
    [c EXCEPT !.streaming = FALSE, !.lines = Append(@, [by |-> by, text |-> text])]

\* Only a push of something else begins a new line: the text of two steps runs together
\* where the tool between them needed no approval.
StreamToken(c, token) ==
    IF c.streaming THEN [c EXCEPT !.lines[Len(c.lines)].text = Append(@, token)]
    ELSE [ChatPush(c, "agent", <<token>>) EXCEPT !.streaming = TRUE]

\* The column that the text of a line starts at.
Marker(by) == IF by \in {"removed", "added"} THEN 2 ELSE 4

\* The rows of a line: each is the line and which chunk of it.
LineRows(lines, n, width) ==
    [k \in 1 .. (Marker(lines[n].by) + Len(lines[n].text) + width - 1) \div width |-> <<n, k>>]

DisplayRows(lines, width) == FlattenSeq([n \in DOMAIN lines |-> LineRows(lines, n, width)])

\* Below the header and above the divider and the input stands the end of the transcript.
ShownRows(lines, width, height) ==
    LET drawn == DisplayRows(lines, width)
        room == IF height > 3 THEN height - 3 ELSE 0
    IN  IF room >= Len(drawn) THEN drawn ELSE SubSeq(drawn, Len(drawn) - room + 1, Len(drawn))

-----------------------------------------------------------------------------
(* The user.                                                               *)

\* A message for a turn that is running is shown and not sent.
StartTurn(text) ==
    LET asked == ChatPush(chat, "user", text)
    IN  IF host.running
        THEN chat' = ChatPush(asked, "system", Note) /\ UNCHANGED host
        ELSE /\ chat' = asked
             /\ host' = [host EXCEPT !.running = TRUE, !.streamed = FALSE]

\* The line of the sidebar, which takes no keys but the answer while a question waits.
SubmitInput == host.pending = "none" /\ StartTurn(Note)

\* The prompt takes a message at any time.
AskPrompt == StartTurn(Note)

AnswerApproval ==
    /\ host.pending # "none"
    /\ chat' = ChatPush(chat, "system", Note)
    /\ host' = [host EXCEPT !.pending = "none"]

\* The question that waits is answered; the turn ends with its worker.
StopTurn ==
    /\ host.running
    /\ chat' = ChatPush(chat, "system", Note)
    /\ host' = [host EXCEPT !.pending = "none"]

-----------------------------------------------------------------------------
(* The events of a turn.  Nothing is taken while a question waits.         *)

Polled == host.running /\ host.pending = "none"

TokenCame ==
    /\ Polled /\ Len(host.said) < MaxTokens
    /\ LET token == Len(host.said) + 1
       IN  /\ chat' = StreamToken(chat, token)
           /\ host' = [host EXCEPT !.streamed = TRUE, !.said = Append(@, token)]

Questions == {"shell", "edit", "other"}

\* The panel with the question: what is to be done, and the answers there are; an edit
\* has a line that goes and one that comes between them.
Question(c, kind) ==
    LET told == ChatPush(c, "system", Note)
    IN  CASE kind = "shell" -> ChatPush(told, "system", Note)
          [] kind = "edit" ->
                ChatPush(ChatPush(ChatPush(told, "system", Note), "removed", Note), "added", Note)
          [] kind = "other" -> told

ApprovalCame(kind) ==
    /\ Polled
    /\ chat' = Question(chat, kind)
    /\ host' = [host EXCEPT !.pending = kind, !.asked = Len(chat.lines)]

\* Every provider hands its text over in tokens, one that does not stream in a single one.
\* What came so is not printed again; every other outcome has a line of its own.
Finished ==
    /\ Polled
    /\ \E outcome \in {"done", "stopped", "exhausted", "failed"} :
          chat' = IF host.streamed /\ outcome = "done" THEN [chat EXCEPT !.streaming = FALSE]
                  ELSE ChatPush(chat, "agent", Note)
    /\ host' = [host EXCEPT !.running = FALSE]

ChatInit ==
    /\ chat = [lines |-> <<>>, streaming |-> FALSE]
    /\ host = [running |-> FALSE, pending |-> "none", asked |-> 0, streamed |-> FALSE,
               said |-> <<>>]

ChatNext ==
    /\ Len(chat.lines) < MaxLines
    /\ \/ SubmitInput \/ AskPrompt \/ AnswerApproval \/ StopTurn
       \/ TokenCame \/ Finished
       \/ \E kind \in Questions : ApprovalCame(kind)

-----------------------------------------------------------------------------
\* What a line holds of the agent's words.
Said(text) == IF text = Note THEN <<>> ELSE text
Talk(lines) == [n \in DOMAIN lines |-> Said(lines[n].text)]

\* The agent's lines are what it said, once and in order, whatever the user and the host
\* write between two tokens; nobody else's line holds a word of it.
TranscriptIsTheTalk ==
    /\ FlattenSeq(Talk(chat.lines)) = host.said
    /\ \A n \in DOMAIN chat.lines : Said(chat.lines[n].text) # <<>> => chat.lines[n].by = "agent"

\* The question that y and n answer is on the panel, all of it, if there is room for it
\* and what was said to the agent since.
QuestionIsSeen ==
    host.pending # "none" =>
        \A width \in ChatWidths, height \in ChatHeights :
            LET since == FlattenSeq([i \in 1 .. Len(chat.lines) - host.asked |->
                                        LineRows(chat.lines, host.asked + i, width)])
            IN  Len(since) + 3 <= height =>
                    ToSet(since) \subseteq ToSet(ShownRows(chat.lines, width, height))

\* What an event holds of the text, and of the call at an index.
TokenIn(event) == IF event.kind = "token" THEN <<event.part>> ELSE <<>>
PieceIn(event, index) == IF event.kind = "call" /\ event.index = index THEN <<event.part>> ELSE <<>>

\* The pieces of a reply's text and of each of its calls are put together in the order
\* they came, however the calls are interleaved; an index that was jumped over is a call.
RepliesAreWhole(events) ==
    LET read == ReadStream(events)
        heard == BeforeEnd(events)
    IN  /\ read.content = FlattenSeq([i \in DOMAIN heard |-> TokenIn(heard[i])])
        /\ \A n \in DOMAIN read.calls :
              read.calls[n] = FlattenSeq([i \in DOMAIN heard |-> PieceIn(heard[i], n - 1)])
        /\ \A i \in DOMAIN heard : heard[i].kind = "call" => heard[i].index < Len(read.calls)
=============================================================================
