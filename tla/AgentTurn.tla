----------------------------- MODULE AgentTurn ------------------------------
(***************************************************************************)
(* One turn of the agent: the loop of architect/src/agent.rs on a worker   *)
(* thread, the channels of majestic-agent/src/runner.rs, and the host in   *)
(* mj/src/agent_host.rs that services the worker once per frame against    *)
(* the buffer that is active then, shows the approval prompt and stops the *)
(* turn.  Every request carries a channel for its answer and the worker    *)
(* blocks on it, so that one request at most is under way.                 *)
(*                                                                         *)
(* One action is what a thread does between two points at which it waits   *)
(* or reads shared state.  A buffer is one line, whose tag is its text, a  *)
(* batch of edits changes that line or is refused, and an unknown tool is  *)
(* a read: it is classified as one and has no effect.  What the host sends *)
(* back to the model and the tokens it streams are left out.               *)
(***************************************************************************)
EXTENDS Integers

CONSTANTS
    Buffers,   \* the open buffers
    Texts,     \* the contents of the line that an edit may cite
    Programs,  \* programs of shell commands
    MaxShell,  \* MAX_SHELL_CALLS_PER_TURN
    MaxSteps,  \* AGENT_MAX_STEPS
    MaxCalls   \* bound: tool calls in one reply of the model

ASSUME AgentAssumption ==
    /\ Buffers # {} /\ Texts # {}
    /\ {MaxShell, MaxSteps, MaxCalls} \subseteq Nat

VARIABLES
    policy,    \* the Seraph policy, fixed when the host is built
    open,      \* the front-end is there
    running,   \* AgentHost.runner is there, and with it the receiver
    pending,   \* AgentHost.pending_approval, or NoCall
    shownOn,   \* the buffer on which the last prompt showed its diff
    kill,      \* the kill switch of the last turn
    inbox,     \* the request in the event channel
    reply,     \* the answer in the channel of the request under way
    wpc,       \* where the worker is
    call,      \* the tool call it is at
    action,    \* the AgentAction that call was classified as
    left,      \* the calls of this reply still to come
    rounds,    \* rounds of the model so far
    shells,    \* ChannelTools.shell_calls
    active,    \* the active buffer
    text,      \* the line in each buffer
    ran,       \* commands run in this turn
    late,      \* effects since the kill switch was engaged
    promptCut  \* whether it was engaged while the prompt was up

host == <<policy, open, running, pending, shownOn>>
worker == <<call, action, left, rounds, shells>>
editor == <<active, text>>
ghost == <<ran, late, promptCut>>
vars == <<host, kill, inbox, reply, wpc, worker, editor, ghost>>

-----------------------------------------------------------------------------

NoCall == [tool |-> "none"]
Read == [tool |-> "read"]
Edits == [tool : {"edit"}, tag : Texts, text : Texts]
Shells == [tool : {"shell"}, program : Programs]
Calls == {Read} \cup Edits \cup Shells

Policies == [edits_need_approval : BOOLEAN, shell_allowlist : SUBSET Programs]

Nothing == [is |-> "none", call |-> NoCall]
Requests == [is : {"classify", "approve", "execute"}, call : Calls]
Finished == [is |-> "finished", call |-> NoCall]
Answers == [is : {"edit", "read", "run", "reject", "ran"}, call : Calls]

Waiting == {"classify", "approve", "execute"}
WorkerStates == Waiting \cup {"idle", "round", "model", "calls", "decide", "run", "over"}

Init ==
    /\ policy \in Policies
    /\ open = TRUE
    /\ running = FALSE
    /\ pending = NoCall
    /\ shownOn \in Buffers
    /\ kill = FALSE
    /\ inbox = Nothing
    /\ reply = Nothing
    /\ wpc = "idle"
    /\ call = Read
    /\ action = "read"
    /\ left = 0
    /\ rounds = 0
    /\ shells = 0
    /\ active = shownOn
    /\ text \in [Buffers -> Texts]
    /\ ran = 0
    /\ late = 0
    /\ promptCut = FALSE

-----------------------------------------------------------------------------
(* The worker: run_turn_streaming and gate_and_run.                        *)

\* Mutant of BeginRound: one round too many.
BeginRoundLate ==
    /\ wpc = "round"
    /\ IF kill \/ rounds > MaxSteps
       THEN wpc' = "over" /\ UNCHANGED rounds
       ELSE wpc' = "model" /\ rounds' = rounds + 1
    /\ UNCHANGED <<host, kill, inbox, reply, call, action, left, shells, editor, ghost>>

\* Mutant of BeginRound: the rounds are not counted.
BeginRoundUncounted ==
    /\ wpc = "round"
    /\ wpc' = IF kill THEN "over" ELSE "model"
    /\ UNCHANGED <<host, kill, inbox, reply, worker, editor, ghost>>

BeginRound ==
    /\ wpc = "round"
    /\ IF kill \/ rounds = MaxSteps
       THEN wpc' = "over" /\ UNCHANGED rounds
       ELSE wpc' = "model" /\ rounds' = rounds + 1
    /\ UNCHANGED <<host, kill, inbox, reply, call, action, left, shells, editor, ghost>>

(* The provider fails, answers with a text, or calls tools.                *)
ModelAnswers ==
    /\ wpc = "model"
    /\ \E n \in 0..MaxCalls :
          /\ left' = n
          /\ wpc' = IF n = 0 THEN "over" ELSE "calls"
    /\ UNCHANGED <<host, kill, inbox, reply, call, action, rounds, shells, editor, ghost>>

(* A request is sent while the host holds the receiver.  The worker treats *)
(* a failed send as an answer that does not come.                          *)
Request(is, c) == inbox' = IF running THEN [is |-> is, call |-> c] ELSE inbox
Unanswered == reply = Nothing /\ ~running

\* Mutant of NextCall: the kill switch is only read between rounds.
NextCallUnchecked ==
    /\ wpc = "calls" /\ left > 0
    /\ left' = left - 1
    /\ \E c \in Calls :
          /\ call' = c
          /\ IF c \in Shells
             THEN action' = "shell" /\ wpc' = "decide" /\ UNCHANGED inbox
             ELSE Request("classify", c) /\ wpc' = "classify" /\ UNCHANGED action
    /\ UNCHANGED <<host, kill, reply, rounds, shells, editor, ghost>>

NextCall ==
    /\ wpc = "calls" /\ left > 0 /\ ~kill
    /\ left' = left - 1
    /\ \E c \in Calls :
          /\ call' = c
          /\ IF c \in Shells
             THEN action' = "shell" /\ wpc' = "decide" /\ UNCHANGED inbox
             ELSE Request("classify", c) /\ wpc' = "classify" /\ UNCHANGED action
    /\ UNCHANGED <<host, kill, reply, rounds, shells, editor, ghost>>

LeaveCalls ==
    /\ wpc = "calls"
    /\ left = 0 \/ kill
    /\ wpc' = IF left = 0 THEN "round" ELSE "over"
    /\ UNCHANGED <<host, kill, inbox, reply, worker, editor, ghost>>

(* Without a host any call is classified as a read.                        *)
HearClass ==
    /\ wpc = "classify"
    /\ \/ reply # Nothing /\ action' = reply.is
       \/ Unanswered /\ action' = "read"
    /\ reply' = Nothing
    /\ wpc' = "decide"
    /\ UNCHANGED <<host, kill, inbox, call, left, rounds, shells, editor, ghost>>

(* Policy::decide.                                                         *)
Decision ==
    CASE action = "edit" -> IF policy.edits_need_approval THEN "ask" ELSE "allow"
      [] action = "shell" -> IF call.program \in policy.shell_allowlist THEN "ask" ELSE "deny"
      [] OTHER -> "allow"

Decide ==
    /\ wpc = "decide"
    /\ \/ Decision = "deny" /\ wpc' = "calls" /\ UNCHANGED inbox
       \/ Decision = "allow" /\ wpc' = "run" /\ UNCHANGED inbox
       \/ Decision = "ask" /\ wpc' = "approve" /\ Request("approve", call)
    /\ UNCHANGED <<host, kill, reply, worker, editor, ghost>>

\* Mutant of HearApproval: without a host the call is let through.
HearApprovalFailsOpen ==
    /\ wpc = "approve"
    /\ \/ reply.is = "run" /\ call' = reply.call /\ wpc' = "run"
       \/ reply.is = "reject" /\ wpc' = "calls" /\ UNCHANGED call
       \/ Unanswered /\ wpc' = "run" /\ UNCHANGED call
    /\ reply' = Nothing
    /\ UNCHANGED <<host, kill, inbox, action, left, rounds, shells, editor, ghost>>

HearApproval ==
    /\ wpc = "approve"
    /\ \/ reply.is = "run" /\ call' = reply.call /\ wpc' = "run"
       \/ (reply.is = "reject" \/ Unanswered) /\ wpc' = "calls" /\ UNCHANGED call
    /\ reply' = Nothing
    /\ UNCHANGED <<host, kill, inbox, action, left, rounds, shells, editor, ghost>>

(* ChannelTools::run: a command runs here, in the sandbox, unless the      *)
(* limit is reached or the sandbox fails, anything else runs in the host.  *)
RunShell ==
    /\ wpc = "run" /\ call \in Shells
    /\ shells' = shells + 1
    /\ \/ /\ shells' <= MaxShell
          /\ ran' = ran + 1
          /\ late' = IF kill THEN late + 1 ELSE late
       \/ UNCHANGED <<ran, late>>
    /\ wpc' = "calls"
    /\ UNCHANGED <<host, kill, inbox, reply, call, action, left, rounds, editor, promptCut>>

RunInHost ==
    /\ wpc = "run" /\ call \notin Shells
    /\ Request("execute", call)
    /\ wpc' = "execute"
    /\ UNCHANGED <<host, kill, reply, worker, editor, ghost>>

HearResult ==
    /\ wpc = "execute"
    /\ reply # Nothing \/ ~running
    /\ reply' = Nothing
    /\ wpc' = "calls"
    /\ UNCHANGED <<host, kill, inbox, worker, editor, ghost>>

EndTurn ==
    /\ wpc = "over"
    /\ inbox' = IF running THEN Finished ELSE inbox
    /\ wpc' = "idle"
    /\ UNCHANGED <<host, kill, reply, worker, editor, ghost>>

-----------------------------------------------------------------------------
(* The host: AgentHost.                                                    *)

(* A second turn is refused while the first has its runner.                *)
StartTurn ==
    /\ open /\ ~running
    /\ running' = TRUE
    /\ kill' = FALSE
    /\ inbox' = Nothing /\ reply' = Nothing
    /\ wpc' = "round"
    /\ left' = 0 /\ rounds' = 0 /\ shells' = 0
    /\ ran' = 0 /\ late' = 0 /\ promptCut' = FALSE
    /\ UNCHANGED <<policy, open, pending, shownOn, call, action, editor>>

(* `poll` takes nothing from the channel while an approval is pending.     *)
Takes(is) == open /\ running /\ pending = NoCall /\ inbox.is = is

PollClassify ==
    /\ Takes("classify")
    /\ reply' = [is |-> IF inbox.call \in Edits THEN "edit" ELSE "read", call |-> inbox.call]
    /\ inbox' = Nothing
    /\ UNCHANGED <<host, kill, wpc, worker, editor, ghost>>

(* BufferTools::run and hashline's apply: a stale tag changes nothing.     *)
Fresh(c) == c \in Edits /\ text[active] = c.tag

PollExecute ==
    /\ Takes("execute")
    /\ IF Fresh(inbox.call)
       THEN /\ text' = [text EXCEPT ![active] = inbox.call.text]
            /\ late' = IF kill THEN late + 1 ELSE late
       ELSE UNCHANGED <<text, late>>
    /\ reply' = [is |-> "ran", call |-> inbox.call]
    /\ inbox' = Nothing
    /\ UNCHANGED <<host, kill, wpc, worker, active, ran, promptCut>>

PollApprove ==
    /\ Takes("approve")
    /\ pending' = inbox.call
    /\ shownOn' = active
    /\ inbox' = Nothing
    /\ UNCHANGED <<policy, open, running, kill, reply, wpc, worker, editor, ghost>>

PollFinished ==
    /\ Takes("finished")
    /\ running' = FALSE
    /\ inbox' = Nothing
    /\ UNCHANGED <<policy, open, pending, shownOn, kill, reply, wpc, worker, editor, ghost>>

\* Mutant of AnswerApproval: the prompt stays after it was answered.
AnswerApprovalTwice(is) ==
    /\ open /\ pending # NoCall
    /\ reply' = [is |-> is, call |-> pending]
    /\ UNCHANGED <<host, kill, inbox, wpc, worker, editor, ghost>>

AnswerApproval(is) ==
    /\ open /\ pending # NoCall
    /\ reply' = [is |-> is, call |-> pending]
    /\ pending' = NoCall
    /\ UNCHANGED <<policy, open, running, shownOn, kill, inbox, wpc, worker, editor, ghost>>

AnswerModified(t) ==
    /\ open /\ pending \in Edits
    /\ reply' = [is |-> "run", call |-> [pending EXCEPT !.text = t]]
    /\ pending' = NoCall
    /\ UNCHANGED <<policy, open, running, shownOn, kill, inbox, wpc, worker, editor, ghost>>

(* agent-stop-all.                                                         *)
Stop ==
    /\ open /\ running
    /\ kill' = TRUE
    /\ promptCut' = IF kill THEN promptCut ELSE pending # NoCall
    /\ IF pending = NoCall
       THEN UNCHANGED <<pending, reply>>
       ELSE pending' = NoCall /\ reply' = [is |-> "reject", call |-> pending]
    /\ UNCHANGED <<policy, open, running, shownOn, inbox, wpc, worker, editor, ran, late>>

(* The front-end goes and drops the runner: the switch is engaged, and the *)
(* receiver goes with whatever it holds, while the worker is left alone.   *)
Quit ==
    /\ open
    /\ open' = FALSE
    /\ running' = FALSE
    /\ pending' = NoCall
    /\ inbox' = Nothing
    /\ kill' = IF running THEN TRUE ELSE kill
    /\ promptCut' = IF kill THEN promptCut ELSE pending # NoCall
    /\ UNCHANGED <<policy, shownOn, reply, wpc, worker, editor, ran, late>>

(* Between two frames the user may do anything else, prompt or not.        *)
SwitchBuffer ==
    /\ open
    /\ active' \in Buffers
    /\ UNCHANGED <<host, kill, inbox, reply, wpc, worker, text, ghost>>

UserEdits(t) ==
    /\ open
    /\ text' = [text EXCEPT ![active] = t]
    /\ UNCHANGED <<host, kill, inbox, reply, wpc, worker, active, ghost>>

-----------------------------------------------------------------------------

WorkerStep ==
    \/ BeginRound \/ NextCall \/ LeaveCalls \/ HearClass \/ Decide
    \/ HearApproval \/ RunShell \/ RunInHost \/ HearResult \/ EndTurn

Poll == PollClassify \/ PollExecute \/ PollApprove \/ PollFinished

UserStep ==
    \/ StartTurn \/ Stop \/ Quit \/ SwitchBuffer
    \/ \E is \in {"run", "reject"} : AnswerApproval(is)
    \/ \E t \in Texts : AnswerModified(t) \/ UserEdits(t)

Next == WorkerStep \/ ModelAnswers \/ Poll \/ UserStep

(* The worker thread runs when it can, and a frame polls.  The provider    *)
(* sets no time limit and the user answers at will, so neither is fair.    *)
Spec == Init /\ [][Next]_vars
FairSpec == Spec /\ WF_vars(WorkerStep) /\ WF_vars(Poll)

-----------------------------------------------------------------------------
(* Properties.                                                             *)

TypeOK ==
    /\ policy \in Policies
    /\ open \in BOOLEAN
    /\ running \in BOOLEAN
    /\ pending \in Calls \cup {NoCall}
    /\ shownOn \in Buffers
    /\ kill \in BOOLEAN
    /\ inbox \in Requests \cup {Nothing, Finished}
    /\ reply \in Answers \cup {Nothing}
    /\ wpc \in WorkerStates
    /\ call \in Calls
    /\ action \in {"edit", "read", "shell"}
    /\ left \in 0..MaxCalls
    /\ rounds \in 0..MaxSteps
    /\ shells \in Nat
    /\ active \in Buffers
    /\ text \in [Buffers -> Texts]
    /\ ran \in 0..MaxShell
    /\ late \in Nat
    /\ promptCut \in BOOLEAN

(* Host and worker agree where the turn is: the one request under way is   *)
(* in exactly one place - in the channel, on the screen as a prompt, or    *)
(* answered - and is the one the worker waits for; and a runner is let go  *)
(* only after its worker ended, so that no turn meets the worker of the    *)
(* one before.                                                             *)
HostAndWorkerAgree ==
    /\ wpc \in Waiting /\ running =>
          \/ inbox = [is |-> wpc, call |-> call] /\ pending = NoCall /\ reply = Nothing
          \/ inbox = Nothing /\ wpc = "approve" /\ pending = call /\ reply = Nothing
          \/ inbox = Nothing /\ pending = NoCall /\ reply # Nothing
    /\ wpc \notin Waiting => pending = NoCall /\ reply = Nothing
    /\ wpc \notin Waiting \cup {"idle"} => inbox = Nothing
    /\ open => (running <=> wpc # "idle" \/ inbox = Finished)

(* A stop is final: a call that had passed the check of the switch may     *)
(* still have its effect, but no second one, and none if the stop found    *)
(* the prompt on the screen.                                               *)
StopIsFinal == kill => late <= IF promptCut THEN 0 ELSE 1

(* No effect without the gate: the turn implements GatedAgent.  A ticket   *)
(* for an edit is worth something only as long as there is a host.         *)
Usable(c) == c \in Shells \/ (c \in Edits /\ running)
IfUsable(c) == IF Usable(c) THEN c ELSE NoCall

Asked == IF wpc = "approve" /\ reply = Nothing /\ running THEN call ELSE NoCall
Ticket ==
    CASE wpc = "approve" /\ reply.is = "run" -> IfUsable(reply.call)
      [] wpc = "run" \/ (wpc = "execute" /\ inbox # Nothing) -> IfUsable(call)
      [] OTHER -> NoCall

Gate == INSTANCE GatedAgent WITH present <- open, asked <- Asked, ticket <- Ticket
GateHolds == Gate!Spec

(* A turn ends, however many tools the model calls, if the model always    *)
(* answers and the user never leaves a prompt unanswered for good.         *)
TurnEnds ==
    []<>(wpc # "model") /\ []<>(pending = NoCall) => (running ~> ~running)

(* agent_host.rs of `stop`: it answers any pending approval as a rejection *)
(* so that a blocked worker unblocks and stops promptly.                   *)
StopEndsTheTurn ==
    []<>(wpc # "model") => (kill /\ running ~> ~running)

(* policy.rs of edits_need_approval: the agent can never apply an edit the *)
(* user did not see.                                                       *)
ApprovedAsSeen ==
    [][PollExecute /\ text' # text /\ policy.edits_need_approval => active = shownOn]_vars

=============================================================================
