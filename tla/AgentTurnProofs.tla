-------------------------- MODULE AgentTurnProofs ---------------------------
(***************************************************************************)
(* Safety of the agent turn for all sets of buffers, texts and programs    *)
(* and all limits, and that it implements GatedAgent.                      *)
(***************************************************************************)
EXTENDS AgentTurn, TLAPS

-----------------------------------------------------------------------------
(* The inductive invariant.                                                *)

(* What goes with the runner.                                              *)
WithRunner ==
    /\ running => open
    /\ ~running => inbox = Nothing /\ pending = NoCall

(* The worker's classification is the host's, unless the host has gone.    *)
Classified ==
    /\ wpc = "classify" => call \notin Shells
    /\ wpc = "classify" /\ reply # Nothing =>
          reply.is = IF call \in Edits THEN "edit" ELSE "read"
    /\ wpc \in {"decide", "approve", "run", "execute"} /\ running =>
          (action = "edit" <=> call \in Edits)
    /\ wpc = "decide" => /\ action = "shell" <=> call \in Shells
                         /\ action = "edit" => call \in Edits

(* An approval is about the call that was asked about.                     *)
Approved ==
    /\ wpc = "approve" => call \in Edits \cup Shells
    /\ wpc = "approve" /\ reply # Nothing =>
          /\ reply.is \in {"run", "reject"}
          /\ \/ reply.call = call
             \/ call \in Edits /\ reply.call \in Edits /\ reply.call.tag = call.tag
    /\ wpc = "execute" => call \notin Shells
    /\ wpc = "execute" /\ reply # Nothing => reply.is = "ran"

Counted == ran <= shells

(* Until its effect, a call that was under way at a stop is the first one. *)
UnderWay ==
    \/ wpc \in {"classify", "decide", "approve", "run"}
    \/ wpc = "execute" /\ reply = Nothing
Refused == wpc = "approve" /\ (reply.is = "reject" \/ Unanswered)

Stopping ==
    /\ ~kill => late = 0 /\ ~promptCut
    /\ kill /\ promptCut => late = 0 /\ (Refused \/ wpc \in {"calls", "round", "over", "idle"})
    /\ kill /\ ~promptCut => late <= 1 /\ (UnderWay => late = 0)

IInv ==
    /\ TypeOK
    /\ HostAndWorkerAgree
    /\ WithRunner
    /\ Classified
    /\ Approved
    /\ Counted
    /\ Stopping

-----------------------------------------------------------------------------
(* Calls, requests and answers.                                            *)

LEMMA Limits == MaxShell \in Nat /\ MaxSteps \in Nat /\ MaxCalls \in Nat
  BY AgentAssumption

LEMMA CallFacts ==
    /\ NoCall \notin Calls
    /\ Read \in Calls /\ Read \notin Edits /\ Read \notin Shells
    /\ Edits \subseteq Calls /\ Shells \subseteq Calls
    /\ \A c \in Edits : c \notin Shells /\ c.tag \in Texts /\ c.text \in Texts
    /\ \A c \in Edits, t \in Texts : [c EXCEPT !.text = t] \in Edits /\ [c EXCEPT !.text = t].tag = c.tag
    /\ \A c \in Calls : c \notin Shells => c = Read \/ c \in Edits
    /\ \A is \in Waiting, c \in Calls : [is |-> is, call |-> c] \in Requests
    /\ \A is \in {"edit", "read", "run", "reject", "ran"}, c \in Calls : [is |-> is, call |-> c] \in Answers
    /\ \A r \in Requests : r.is \in Waiting /\ r.call \in Calls /\ r = [is |-> r.is, call |-> r.call]
    /\ \A a \in Answers : a # Nothing /\ a.is # "none" /\ a.call \in Calls
    /\ Nothing.is = "none" /\ Finished.is = "finished" /\ Nothing # Finished
    /\ Nothing \notin Requests /\ Finished \notin Requests
  BY DEF NoCall, Read, Edits, Shells, Calls, Requests, Answers, Nothing, Finished, Waiting

(* Types: the limits, and that the answers are what the worker waits for.  *)
LEMMA TypesStep == IInv /\ [Next]_vars => TypeOK'
<1> SUFFICES ASSUME IInv, [Next]_vars PROVE TypeOK'
  OBVIOUS
<1> USE CallFacts, Limits DEF IInv, TypeOK, HostAndWorkerAgree, Waiting,
      WorkerStates, Classified, Counted, host, worker, editor, ghost
<1>1. CASE BeginRound
  BY <1>1 DEF BeginRound
<1>2. CASE NextCall
  BY <1>2 DEF NextCall, Request
<1>3. CASE LeaveCalls
  BY <1>3 DEF LeaveCalls
<1>4. CASE HearClass
  BY <1>4 DEF HearClass, Unanswered
<1>5. CASE Decide
  BY <1>5 DEF Decide, Request, Decision
<1>6. CASE HearApproval
  BY <1>6 DEF HearApproval, Unanswered
<1>7. CASE RunShell
  BY <1>7 DEF RunShell
<1>8. CASE RunInHost
  BY <1>8 DEF RunInHost, Request
<1>9. CASE HearResult
  BY <1>9 DEF HearResult
<1>10. CASE EndTurn
  BY <1>10 DEF EndTurn
<1>11. CASE ModelAnswers
  BY <1>11 DEF ModelAnswers
<1>12. CASE PollClassify
  BY <1>12 DEF PollClassify, Takes
<1>13. CASE PollExecute
  BY <1>13 DEF PollExecute, Takes, Fresh
<1>14. CASE PollApprove
  BY <1>14 DEF PollApprove, Takes
<1>15. CASE PollFinished
  BY <1>15 DEF PollFinished, Takes
<1>16. CASE StartTurn
  <2>1. /\ running' \in BOOLEAN /\ kill' \in BOOLEAN /\ promptCut' \in BOOLEAN
        /\ inbox' = Nothing /\ reply' = Nothing /\ wpc' \in WorkerStates
        /\ UNCHANGED <<policy, open, pending, shownOn, call, action, editor>>
    BY <1>16 DEF StartTurn
  <2>2. /\ left' \in 0..MaxCalls /\ rounds' \in 0..MaxSteps /\ shells' \in Nat
        /\ ran' \in 0..MaxShell /\ late' \in Nat
    BY <1>16 DEF StartTurn
  <2> QED
    BY <2>1, <2>2
<1>17. CASE Stop
  <2>1. /\ kill' \in BOOLEAN /\ promptCut' \in BOOLEAN
        /\ UNCHANGED <<policy, open, running, shownOn, inbox, wpc, worker, editor, ran, late>>
    BY <1>17 DEF Stop
  <2>2. pending' \in Calls \cup {NoCall} /\ reply' \in Answers \cup {Nothing}
    BY <1>17 DEF Stop
  <2> QED
    BY <2>1, <2>2
<1>18. CASE Quit
  BY <1>18 DEF Quit
<1>19. CASE SwitchBuffer
  BY <1>19 DEF SwitchBuffer
<1>20. ASSUME NEW is \in {"run", "reject"}, AnswerApproval(is) PROVE TypeOK'
  BY <1>20 DEF AnswerApproval
<1>21. ASSUME NEW t \in Texts, AnswerModified(t) PROVE TypeOK'
  BY <1>21 DEF AnswerModified
<1>22. ASSUME NEW t \in Texts, UserEdits(t) PROVE TypeOK'
  BY <1>22 DEF UserEdits
<1>23. CASE UNCHANGED vars
  BY <1>23 DEF vars
<1> QED
  BY <1>1, <1>2, <1>3, <1>4, <1>5, <1>6, <1>7, <1>8, <1>9, <1>10, <1>11, <1>12,
     <1>13, <1>14, <1>15, <1>16, <1>17, <1>18, <1>19, <1>20, <1>21, <1>22, <1>23 DEF
     Next, WorkerStep, Poll, UserStep

(* The request under way has one place.                                    *)
LEMMA AgreeStep == IInv /\ [Next]_vars => HostAndWorkerAgree'
<1> SUFFICES ASSUME IInv, [Next]_vars PROVE HostAndWorkerAgree'
  OBVIOUS
<1> USE CallFacts, Limits DEF IInv, TypeOK, HostAndWorkerAgree, Waiting,
      WorkerStates, WithRunner, host, worker, editor, ghost
<1>1. CASE BeginRound
  BY <1>1 DEF BeginRound
<1>2. CASE NextCall
  BY <1>2 DEF NextCall, Request
<1>3. CASE LeaveCalls
  BY <1>3 DEF LeaveCalls
<1>4. CASE HearClass
  BY <1>4 DEF HearClass, Unanswered
<1>5. CASE Decide
  BY <1>5 DEF Decide, Request, Decision
<1>6. CASE HearApproval
  BY <1>6 DEF HearApproval, Unanswered
<1>7. CASE RunShell
  BY <1>7 DEF RunShell
<1>8. CASE RunInHost
  BY <1>8 DEF RunInHost, Request
<1>9. CASE HearResult
  BY <1>9 DEF HearResult
<1>10. CASE EndTurn
  BY <1>10 DEF EndTurn
<1>11. CASE ModelAnswers
  BY <1>11 DEF ModelAnswers
<1>12. CASE PollClassify
  BY <1>12 DEF PollClassify, Takes
<1>13. CASE PollExecute
  BY <1>13 DEF PollExecute, Takes, Fresh
<1>14. CASE PollApprove
  BY <1>14 DEF PollApprove, Takes
<1>15. CASE PollFinished
  BY <1>15 DEF PollFinished, Takes
<1>16. CASE StartTurn
  BY <1>16 DEF StartTurn
<1>17. CASE Stop
  BY <1>17 DEF Stop
<1>18. CASE Quit
  BY <1>18 DEF Quit
<1>19. CASE SwitchBuffer
  BY <1>19 DEF SwitchBuffer
<1>20. ASSUME NEW is \in {"run", "reject"}, AnswerApproval(is) PROVE HostAndWorkerAgree'
  BY <1>20 DEF AnswerApproval
<1>21. ASSUME NEW t \in Texts, AnswerModified(t) PROVE HostAndWorkerAgree'
  BY <1>21 DEF AnswerModified
<1>22. ASSUME NEW t \in Texts, UserEdits(t) PROVE HostAndWorkerAgree'
  BY <1>22 DEF UserEdits
<1>23. CASE UNCHANGED vars
  BY <1>23 DEF vars
<1> QED
  BY <1>1, <1>2, <1>3, <1>4, <1>5, <1>6, <1>7, <1>8, <1>9, <1>10, <1>11, <1>12,
     <1>13, <1>14, <1>15, <1>16, <1>17, <1>18, <1>19, <1>20, <1>21, <1>22, <1>23 DEF
     Next, WorkerStep, Poll, UserStep

(* The runner goes with its receiver and the prompt.                       *)
LEMMA RunnerStep == IInv /\ [Next]_vars => WithRunner'
<1> SUFFICES ASSUME IInv, [Next]_vars PROVE WithRunner'
  OBVIOUS
<1> USE CallFacts, Limits DEF IInv, WithRunner, TypeOK, HostAndWorkerAgree,
      host, worker, editor, ghost
<1>1. CASE BeginRound
  BY <1>1 DEF BeginRound
<1>2. CASE NextCall
  BY <1>2 DEF NextCall, Request
<1>3. CASE LeaveCalls
  BY <1>3 DEF LeaveCalls
<1>4. CASE HearClass
  BY <1>4 DEF HearClass, Unanswered
<1>5. CASE Decide
  BY <1>5 DEF Decide, Request, Decision
<1>6. CASE HearApproval
  BY <1>6 DEF HearApproval, Unanswered
<1>7. CASE RunShell
  BY <1>7 DEF RunShell
<1>8. CASE RunInHost
  BY <1>8 DEF RunInHost, Request
<1>9. CASE HearResult
  BY <1>9 DEF HearResult
<1>10. CASE EndTurn
  BY <1>10 DEF EndTurn
<1>11. CASE ModelAnswers
  BY <1>11 DEF ModelAnswers
<1>12. CASE PollClassify
  BY <1>12 DEF PollClassify, Takes
<1>13. CASE PollExecute
  BY <1>13 DEF PollExecute, Takes, Fresh
<1>14. CASE PollApprove
  BY <1>14 DEF PollApprove, Takes
<1>15. CASE PollFinished
  BY <1>15 DEF PollFinished, Takes
<1>16. CASE StartTurn
  BY <1>16 DEF StartTurn
<1>17. CASE Stop
  BY <1>17 DEF Stop
<1>18. CASE Quit
  BY <1>18 DEF Quit
<1>19. CASE SwitchBuffer
  BY <1>19 DEF SwitchBuffer
<1>20. ASSUME NEW is \in {"run", "reject"}, AnswerApproval(is) PROVE WithRunner'
  BY <1>20 DEF AnswerApproval
<1>21. ASSUME NEW t \in Texts, AnswerModified(t) PROVE WithRunner'
  BY <1>21 DEF AnswerModified
<1>22. ASSUME NEW t \in Texts, UserEdits(t) PROVE WithRunner'
  BY <1>22 DEF UserEdits
<1>23. CASE UNCHANGED vars
  BY <1>23 DEF vars
<1> QED
  BY <1>1, <1>2, <1>3, <1>4, <1>5, <1>6, <1>7, <1>8, <1>9, <1>10, <1>11, <1>12,
     <1>13, <1>14, <1>15, <1>16, <1>17, <1>18, <1>19, <1>20, <1>21, <1>22, <1>23 DEF
     Next, WorkerStep, Poll, UserStep

(* The classification is the host's.                                       *)
LEMMA ClassifiedStep == IInv /\ [Next]_vars => Classified'
<1> SUFFICES ASSUME IInv, [Next]_vars PROVE Classified'
  OBVIOUS
<1> USE CallFacts, Limits DEF IInv, TypeOK, HostAndWorkerAgree, Waiting,
      WithRunner, Classified, Approved, host, worker, editor, ghost
<1>1. CASE BeginRound
  BY <1>1 DEF BeginRound
<1>2. CASE NextCall
  BY <1>2 DEF NextCall, Request
<1>3. CASE LeaveCalls
  BY <1>3 DEF LeaveCalls
<1>4. CASE HearClass
  BY <1>4 DEF HearClass, Unanswered
<1>5. CASE Decide
  BY <1>5 DEF Decide, Request, Decision
<1>6. CASE HearApproval
  BY <1>6 DEF HearApproval, Unanswered
<1>7. CASE RunShell
  BY <1>7 DEF RunShell
<1>8. CASE RunInHost
  BY <1>8 DEF RunInHost, Request
<1>9. CASE HearResult
  BY <1>9 DEF HearResult
<1>10. CASE EndTurn
  BY <1>10 DEF EndTurn
<1>11. CASE ModelAnswers
  BY <1>11 DEF ModelAnswers
<1>12. CASE PollClassify
  BY <1>12 DEF PollClassify, Takes
<1>13. CASE PollExecute
  BY <1>13 DEF PollExecute, Takes, Fresh
<1>14. CASE PollApprove
  BY <1>14 DEF PollApprove, Takes
<1>15. CASE PollFinished
  BY <1>15 DEF PollFinished, Takes
<1>16. CASE StartTurn
  BY <1>16 DEF StartTurn
<1>17. CASE Stop
  BY <1>17 DEF Stop
<1>18. CASE Quit
  BY <1>18 DEF Quit
<1>19. CASE SwitchBuffer
  BY <1>19 DEF SwitchBuffer
<1>20. ASSUME NEW is \in {"run", "reject"}, AnswerApproval(is) PROVE Classified'
  BY <1>20 DEF AnswerApproval
<1>21. ASSUME NEW t \in Texts, AnswerModified(t) PROVE Classified'
  BY <1>21 DEF AnswerModified
<1>22. ASSUME NEW t \in Texts, UserEdits(t) PROVE Classified'
  BY <1>22 DEF UserEdits
<1>23. CASE UNCHANGED vars
  BY <1>23 DEF vars
<1> QED
  BY <1>1, <1>2, <1>3, <1>4, <1>5, <1>6, <1>7, <1>8, <1>9, <1>10, <1>11, <1>12,
     <1>13, <1>14, <1>15, <1>16, <1>17, <1>18, <1>19, <1>20, <1>21, <1>22, <1>23 DEF
     Next, WorkerStep, Poll, UserStep

(* The approval is about the call that was asked about.                    *)
LEMMA ApprovedStep == IInv /\ [Next]_vars => Approved'
<1> SUFFICES ASSUME IInv, [Next]_vars PROVE Approved'
  OBVIOUS
<1> USE CallFacts, Limits DEF IInv, TypeOK, HostAndWorkerAgree, Waiting,
      WithRunner, Classified, Approved, host, worker, editor, ghost
<1>1. CASE BeginRound
  BY <1>1 DEF BeginRound
<1>2. CASE NextCall
  BY <1>2 DEF NextCall, Request
<1>3. CASE LeaveCalls
  BY <1>3 DEF LeaveCalls
<1>4. CASE HearClass
  BY <1>4 DEF HearClass, Unanswered
<1>5. CASE Decide
  BY <1>5 DEF Decide, Request, Decision
<1>6. CASE HearApproval
  BY <1>6 DEF HearApproval, Unanswered
<1>7. CASE RunShell
  BY <1>7 DEF RunShell
<1>8. CASE RunInHost
  BY <1>8 DEF RunInHost, Request
<1>9. CASE HearResult
  BY <1>9 DEF HearResult
<1>10. CASE EndTurn
  BY <1>10 DEF EndTurn
<1>11. CASE ModelAnswers
  BY <1>11 DEF ModelAnswers
<1>12. CASE PollClassify
  BY <1>12 DEF PollClassify, Takes
<1>13. CASE PollExecute
  BY <1>13 DEF PollExecute, Takes, Fresh
<1>14. CASE PollApprove
  BY <1>14 DEF PollApprove, Takes
<1>15. CASE PollFinished
  BY <1>15 DEF PollFinished, Takes
<1>16. CASE StartTurn
  BY <1>16 DEF StartTurn
<1>17. CASE Stop
  BY <1>17 DEF Stop
<1>18. CASE Quit
  BY <1>18 DEF Quit
<1>19. CASE SwitchBuffer
  BY <1>19 DEF SwitchBuffer
<1>20. ASSUME NEW is \in {"run", "reject"}, AnswerApproval(is) PROVE Approved'
  BY <1>20 DEF AnswerApproval
<1>21. ASSUME NEW t \in Texts, AnswerModified(t) PROVE Approved'
  BY <1>21 DEF AnswerModified
<1>22. ASSUME NEW t \in Texts, UserEdits(t) PROVE Approved'
  BY <1>22 DEF UserEdits
<1>23. CASE UNCHANGED vars
  BY <1>23 DEF vars
<1> QED
  BY <1>1, <1>2, <1>3, <1>4, <1>5, <1>6, <1>7, <1>8, <1>9, <1>10, <1>11, <1>12,
     <1>13, <1>14, <1>15, <1>16, <1>17, <1>18, <1>19, <1>20, <1>21, <1>22, <1>23 DEF
     Next, WorkerStep, Poll, UserStep

(* A command that runs was counted.                                        *)
LEMMA CountedStep == IInv /\ [Next]_vars => Counted'
<1> SUFFICES ASSUME IInv, [Next]_vars PROVE Counted'
  OBVIOUS
<1> USE CallFacts, Limits DEF IInv, TypeOK, Counted, host, worker, editor, ghost
<1>1. CASE BeginRound
  BY <1>1 DEF BeginRound
<1>2. CASE NextCall
  BY <1>2 DEF NextCall, Request
<1>3. CASE LeaveCalls
  BY <1>3 DEF LeaveCalls
<1>4. CASE HearClass
  BY <1>4 DEF HearClass, Unanswered
<1>5. CASE Decide
  BY <1>5 DEF Decide, Request, Decision
<1>6. CASE HearApproval
  BY <1>6 DEF HearApproval, Unanswered
<1>7. CASE RunShell
  BY <1>7 DEF RunShell
<1>8. CASE RunInHost
  BY <1>8 DEF RunInHost, Request
<1>9. CASE HearResult
  BY <1>9 DEF HearResult
<1>10. CASE EndTurn
  BY <1>10 DEF EndTurn
<1>11. CASE ModelAnswers
  BY <1>11 DEF ModelAnswers
<1>12. CASE PollClassify
  BY <1>12 DEF PollClassify, Takes
<1>13. CASE PollExecute
  BY <1>13 DEF PollExecute, Takes, Fresh
<1>14. CASE PollApprove
  BY <1>14 DEF PollApprove, Takes
<1>15. CASE PollFinished
  BY <1>15 DEF PollFinished, Takes
<1>16. CASE StartTurn
  BY <1>16 DEF StartTurn
<1>17. CASE Stop
  BY <1>17 DEF Stop
<1>18. CASE Quit
  BY <1>18 DEF Quit
<1>19. CASE SwitchBuffer
  BY <1>19 DEF SwitchBuffer
<1>20. ASSUME NEW is \in {"run", "reject"}, AnswerApproval(is) PROVE Counted'
  BY <1>20 DEF AnswerApproval
<1>21. ASSUME NEW t \in Texts, AnswerModified(t) PROVE Counted'
  BY <1>21 DEF AnswerModified
<1>22. ASSUME NEW t \in Texts, UserEdits(t) PROVE Counted'
  BY <1>22 DEF UserEdits
<1>23. CASE UNCHANGED vars
  BY <1>23 DEF vars
<1> QED
  BY <1>1, <1>2, <1>3, <1>4, <1>5, <1>6, <1>7, <1>8, <1>9, <1>10, <1>11, <1>12,
     <1>13, <1>14, <1>15, <1>16, <1>17, <1>18, <1>19, <1>20, <1>21, <1>22, <1>23 DEF
     Next, WorkerStep, Poll, UserStep

(* After a stop only the call under way may have its effect.               *)
LEMMA StoppingStep == IInv /\ [Next]_vars => Stopping'
<1> SUFFICES ASSUME IInv, [Next]_vars PROVE Stopping'
  OBVIOUS
<1> USE CallFacts, Limits DEF IInv, TypeOK, HostAndWorkerAgree, Waiting,
      WithRunner, Approved, Stopping, UnderWay, Refused, Unanswered, host,
      worker, editor, ghost
<1>1. CASE BeginRound
  BY <1>1 DEF BeginRound
<1>2. CASE NextCall
  BY <1>2 DEF NextCall, Request
<1>3. CASE LeaveCalls
  BY <1>3 DEF LeaveCalls
<1>4. CASE HearClass
  BY <1>4 DEF HearClass
<1>5. CASE Decide
  BY <1>5 DEF Decide, Request, Decision
<1>6. CASE HearApproval
  BY <1>6 DEF HearApproval
<1>7. CASE RunShell
  BY <1>7 DEF RunShell
<1>8. CASE RunInHost
  BY <1>8 DEF RunInHost, Request
<1>9. CASE HearResult
  BY <1>9 DEF HearResult
<1>10. CASE EndTurn
  BY <1>10 DEF EndTurn
<1>11. CASE ModelAnswers
  BY <1>11 DEF ModelAnswers
<1>12. CASE PollClassify
  BY <1>12 DEF PollClassify, Takes
<1>13. CASE PollExecute
  BY <1>13 DEF PollExecute, Takes, Fresh
<1>14. CASE PollApprove
  BY <1>14 DEF PollApprove, Takes
<1>15. CASE PollFinished
  BY <1>15 DEF PollFinished, Takes
<1>16. CASE StartTurn
  BY <1>16 DEF StartTurn
<1>17. CASE Stop
  BY <1>17 DEF Stop
<1>18. CASE Quit
  BY <1>18 DEF Quit
<1>19. CASE SwitchBuffer
  BY <1>19 DEF SwitchBuffer
<1>20. ASSUME NEW is \in {"run", "reject"}, AnswerApproval(is) PROVE Stopping'
  BY <1>20 DEF AnswerApproval
<1>21. ASSUME NEW t \in Texts, AnswerModified(t) PROVE Stopping'
  BY <1>21 DEF AnswerModified
<1>22. ASSUME NEW t \in Texts, UserEdits(t) PROVE Stopping'
  BY <1>22 DEF UserEdits
<1>23. CASE UNCHANGED vars
  BY <1>23 DEF vars
<1> QED
  BY <1>1, <1>2, <1>3, <1>4, <1>5, <1>6, <1>7, <1>8, <1>9, <1>10, <1>11, <1>12,
     <1>13, <1>14, <1>15, <1>16, <1>17, <1>18, <1>19, <1>20, <1>21, <1>22, <1>23 DEF
     Next, WorkerStep, Poll, UserStep

-----------------------------------------------------------------------------
(* The invariant and what follows from it.                                 *)

LEMMA Initially == Init => IInv
<1> SUFFICES ASSUME Init PROVE IInv
  OBVIOUS
<1>1. TypeOK
  <2>1. /\ left \in 0..MaxCalls /\ rounds \in 0..MaxSteps /\ shells \in Nat
        /\ ran \in 0..MaxShell /\ late \in Nat
    BY Limits DEF Init
  <2>2. /\ policy \in Policies /\ open \in BOOLEAN /\ running \in BOOLEAN
        /\ kill \in BOOLEAN /\ promptCut \in BOOLEAN
        /\ pending = NoCall /\ inbox = Nothing /\ reply = Nothing /\ wpc \in WorkerStates
        /\ call \in Calls /\ action \in {"edit", "read", "shell"}
        /\ shownOn \in Buffers /\ active \in Buffers /\ text \in [Buffers -> Texts]
    BY CallFacts DEF Init, WorkerStates
  <2> QED
    BY <2>1, <2>2 DEF TypeOK
<1>2. HostAndWorkerAgree /\ WithRunner /\ Classified /\ Approved
  BY CallFacts DEF Init, HostAndWorkerAgree, WithRunner, Classified, Approved, Waiting, Nothing, Finished
<1>3. Counted /\ Stopping
  BY DEF Init, Counted, Stopping
<1> QED
  BY <1>1, <1>2, <1>3 DEF IInv

LEMMA Inductive == IInv /\ [Next]_vars => IInv'
  BY TypesStep, AgreeStep, RunnerStep, ClassifiedStep, ApprovedStep, CountedStep, StoppingStep DEF IInv

THEOREM AgentInvariant == Spec => []IInv
  BY Initially, Inductive, PTL DEF Spec

(* Every state has the right types, and within its limits: rounds of the   *)
(* model, calls, commands run in one turn (run_turn_streaming, run_shell). *)
THEOREM AgentTypes == Spec => []TypeOK
<1>1. IInv => TypeOK
  BY DEF IInv
<1> QED
  BY <1>1, AgentInvariant, PTL

(* The host of agent_host.rs and the worker of runner.rs always agree on   *)
(* where the turn is.                                                      *)
THEOREM AgentHandshake == Spec => []HostAndWorkerAgree
<1>1. IInv => HostAndWorkerAgree
  BY DEF IInv
<1> QED
  BY <1>1, AgentInvariant, PTL

(* After `stop` or after the runner was dropped, at most the call under    *)
(* way has its effect.                                                     *)
THEOREM StopHolds == Spec => []StopIsFinal
<1>1. IInv => StopIsFinal
  BY DEF IInv, TypeOK, Stopping, StopIsFinal
<1> QED
  BY <1>1, AgentInvariant, PTL

-----------------------------------------------------------------------------
(* The turn implements the gate.                                           *)

GateState == <<policy, open, Asked, Ticket, text, ran>>

LEMMA GateInit == Init => Gate!Init
  BY DEF Init, Gate!Init, Gate!Policies, Policies, Asked, Ticket, Gate!NoCall, NoCall, Nothing

LEMMA GateStep == IInv /\ IInv' /\ [Next]_vars => [Gate!Next]_GateState
<1> SUFFICES ASSUME IInv, IInv', [Next]_vars PROVE [Gate!Next]_GateState
  OBVIOUS
<1> USE CallFacts, Limits DEF host, worker, editor, ghost, GateState, Asked,
      Ticket, IfUsable, Usable
<1> USE DEF IInv, TypeOK, HostAndWorkerAgree, Waiting, WorkerStates, WithRunner,
      Classified, Approved
<1>0. Gate!NoCall = NoCall /\ Gate!Edits = Edits /\ Gate!Shells = Shells
  BY DEF Gate!NoCall, Gate!Edits, Gate!Shells, NoCall, Edits, Shells
<1>1. CASE BeginRound
  <2>1. UNCHANGED GateState
    BY <1>1 DEF BeginRound
  <2> QED
    BY <2>1
<1>2. CASE NextCall
  <2>1. UNCHANGED GateState
    BY <1>2 DEF NextCall, Request
  <2> QED
    BY <2>1
<1>3. CASE LeaveCalls
  <2>1. UNCHANGED GateState
    BY <1>3 DEF LeaveCalls
  <2> QED
    BY <2>1
<1>4. CASE HearClass
  <2>1. UNCHANGED GateState
    BY <1>4 DEF HearClass, Unanswered
  <2> QED
    BY <2>1
<1>5. CASE HearApproval
  <2>1. UNCHANGED GateState
    BY <1>5 DEF HearApproval, Unanswered
  <2> QED
    BY <2>1
<1>6. CASE HearResult
  <2>1. UNCHANGED GateState
    BY <1>6 DEF HearResult
  <2> QED
    BY <2>1
<1>7. CASE EndTurn
  <2>1. UNCHANGED GateState
    BY <1>7 DEF EndTurn
  <2> QED
    BY <2>1
<1>8. CASE ModelAnswers
  <2>1. UNCHANGED GateState
    BY <1>8 DEF ModelAnswers
  <2> QED
    BY <2>1
<1>9. CASE PollClassify
  <2>1. UNCHANGED GateState
    BY <1>9 DEF PollClassify, Takes
  <2> QED
    BY <2>1
<1>10. CASE PollApprove
  <2>1. UNCHANGED GateState
    BY <1>10 DEF PollApprove, Takes
  <2> QED
    BY <2>1
<1>11. CASE PollFinished
  <2>1. UNCHANGED GateState
    BY <1>11 DEF PollFinished, Takes
  <2> QED
    BY <2>1
<1>12. CASE SwitchBuffer
  <2>1. UNCHANGED GateState
    BY <1>12 DEF SwitchBuffer
  <2> QED
    BY <2>1
<1>13. CASE Decide
  <2>1. CASE Decision = "deny"
    <3>1. UNCHANGED GateState
      BY <1>13, <2>1 DEF Decide
    <3> QED
      BY <3>1
  <2>2. CASE Decision = "allow" /\ call \in Edits /\ running
    <3>1. Gate!Waive(call)
      BY <1>13, <2>2, <1>0 DEF Decide, Decision, Gate!Waive
    <3> QED
      BY <2>2, <3>1, <1>0 DEF Gate!Next, Gate!Effectful
  <2>3. CASE Decision = "allow" /\ ~(call \in Edits /\ running)
    <3>1. call \notin Shells
      BY <1>13, <2>3 DEF Decide, Decision
    <3>2. UNCHANGED GateState
      BY <1>13, <2>3, <3>1 DEF Decide
    <3> QED
      BY <3>2
  <2>4. CASE Decision = "ask" /\ running
    <3>1. Gate!Ask(call)
      BY <1>13, <2>4, <1>0 DEF Decide, Decision, Request, Gate!Ask
    <3>2. call \in Edits \cup Shells
      BY <1>13, <2>4 DEF Decide, Decision
    <3> QED
      BY <3>1, <3>2, <1>0 DEF Gate!Next, Gate!Effectful
  <2>5. CASE Decision = "ask" /\ ~running
    <3>1. UNCHANGED GateState
      BY <1>13, <2>5 DEF Decide, Request
    <3> QED
      BY <3>1
  <2> QED
    BY <1>13, <2>1, <2>2, <2>3, <2>4, <2>5 DEF Decide
<1>14. CASE RunShell
  <2>1. CASE UNCHANGED <<ran, late>>
    <3>1. Gate!Lapse
      BY <1>14, <2>1, <1>0 DEF RunShell, Gate!Lapse
    <3> QED
      BY <3>1 DEF Gate!Next
  <2>2. CASE shells' <= MaxShell /\ ran' = ran + 1
    <3>1. Gate!UseShell
      BY <1>14, <2>2, <1>0 DEF RunShell, Gate!UseShell, Counted
    <3> QED
      BY <3>1 DEF Gate!Next
  <2> QED
    BY <1>14, <2>1, <2>2 DEF RunShell
<1>15. CASE RunInHost
  <2>1. UNCHANGED GateState
    BY <1>15 DEF RunInHost, Request
  <2> QED
    BY <2>1
<1>16. CASE PollExecute
  <2>1. wpc = "execute" /\ inbox.call = call /\ inbox # Nothing
    BY <1>16 DEF PollExecute, Takes
  <2>2. CASE Fresh(call)
    <3>1. Gate!UseEdit(active)
      BY <1>16, <2>1, <2>2, <1>0 DEF PollExecute, Takes, Fresh, Gate!UseEdit
    <3> QED
      BY <3>1 DEF Gate!Next
  <2>3. CASE ~Fresh(call)
    <3>1. Gate!Lapse
      BY <1>16, <2>1, <2>3, <1>0 DEF PollExecute, Takes, Gate!Lapse
    <3> QED
      BY <3>1 DEF Gate!Next
  <2> QED
    BY <2>2, <2>3
<1>17. CASE StartTurn
  <2>1. Gate!NewTurn
    BY <1>17, <1>0 DEF StartTurn, Gate!NewTurn
  <2> QED
    BY <2>1 DEF Gate!Next
<1>18. CASE Stop
  <2>1. CASE pending = NoCall
    <3>1. UNCHANGED GateState
      BY <1>18, <2>1 DEF Stop
    <3> QED
      BY <3>1
  <2>2. CASE pending # NoCall
    <3>1. Gate!Refuse
      BY <1>18, <2>2, <1>0 DEF Stop, Gate!Refuse
    <3> QED
      BY <3>1 DEF Gate!Next
  <2> QED
    BY <2>1, <2>2
<1>19. CASE Quit
  <2>1. Gate!Leave
    BY <1>19, <1>0 DEF Quit, Gate!Leave
  <2> QED
    BY <2>1 DEF Gate!Next
<1>20. ASSUME NEW is \in {"run", "reject"}, AnswerApproval(is) PROVE Gate!Next
  <2>1. CASE is = "run"
    <3>1. Gate!Grant(call)
      BY <1>20, <2>1, <1>0 DEF AnswerApproval, Gate!Grant
    <3> QED
      BY <1>20, <3>1, <1>0 DEF AnswerApproval, Gate!Next, Gate!Effectful
  <2>2. CASE is = "reject"
    <3>1. Gate!Refuse
      BY <1>20, <2>2, <1>0 DEF AnswerApproval, Gate!Refuse
    <3> QED
      BY <3>1 DEF Gate!Next
  <2> QED
    BY <2>1, <2>2
<1>21. ASSUME NEW t \in Texts, AnswerModified(t) PROVE Gate!Next
  <2> DEFINE modified == [call EXCEPT !.text = t]
  <2>1. pending = call /\ call \in Edits /\ modified \in Edits /\ modified.tag = call.tag
    BY <1>21 DEF AnswerModified
  <2> HIDE DEF modified
  <2>2. reply' = [is |-> "run", call |-> modified]
    BY <1>21, <2>1 DEF AnswerModified, modified
  <2>3. Gate!Grant(modified)
    BY <1>21, <2>1, <2>2, <1>0 DEF AnswerModified, Gate!Grant
  <2> QED
    BY <2>1, <2>3, <1>0 DEF Gate!Next, Gate!Effectful
<1>22. ASSUME NEW t \in Texts, UserEdits(t) PROVE Gate!Next
  <2>1. Gate!UserEdits(active, t)
    BY <1>22 DEF UserEdits, Gate!UserEdits
  <2> QED
    BY <2>1 DEF Gate!Next
<1>23. CASE UNCHANGED vars
  BY <1>23 DEF vars
<1> QED
  BY <1>1, <1>2, <1>3, <1>4, <1>5, <1>6, <1>7, <1>8, <1>9, <1>10, <1>11, <1>12,
     <1>13, <1>14, <1>15, <1>16, <1>17, <1>18, <1>19, <1>20, <1>21, <1>22, <1>23 DEF
     Next, WorkerStep, Poll, UserStep

(* No side effect reaches a buffer or the world except through the gate,   *)
(* whatever the order of the worker's steps, the frames and the user's     *)
(* keys: the turn implements GatedAgent.                                   *)
THEOREM AgentIsGated == Spec => GateHolds
<1>1. [Gate!Next]_GateState <=> [Gate!Next]_Gate!gateVars
  BY DEF GateState, Gate!gateVars
<1> QED
  BY <1>1, AgentInvariant, GateInit, GateStep, PTL DEF Spec, GateHolds, Gate!Spec

=============================================================================
