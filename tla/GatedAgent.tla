----------------------------- MODULE GatedAgent -----------------------------
(***************************************************************************)
(* What agent.rs of architect and the seraph crate promise of the agent,   *)
(* without threads or channels: no side effect reaches a buffer or the     *)
(* world except through the gate.  A call with an effect needs a ticket.   *)
(* The policy gives one, or the user does who was asked, and who can only  *)
(* be asked while present.  A ticket is good for one effect, and what it   *)
(* does to a buffer it does to the line that the call cites.               *)
(***************************************************************************)
EXTENDS Integers

CONSTANTS
    Buffers,   \* the open buffers
    Texts,     \* the contents of the line that an edit may cite
    Programs,  \* programs of shell commands
    MaxShell   \* MAX_SHELL_CALLS_PER_TURN

VARIABLES
    policy,    \* the Seraph policy
    present,   \* whether there is a user to ask
    asked,     \* the call the user is asked about
    ticket,    \* the call that may have its effect
    text,      \* the line in each buffer
    ran        \* the commands run in this turn

gateVars == <<policy, present, asked, ticket, text, ran>>

-----------------------------------------------------------------------------

NoCall == [tool |-> "none"]
Edits == [tool : {"edit"}, tag : Texts, text : Texts]
Shells == [tool : {"shell"}, program : Programs]
Effectful == Edits \cup Shells

Policies == [edits_need_approval : BOOLEAN, shell_allowlist : SUBSET Programs]

Init ==
    /\ policy \in Policies
    /\ present = TRUE
    /\ asked = NoCall
    /\ ticket = NoCall
    /\ text \in [Buffers -> Texts]
    /\ ran = 0

(* Nobody is asked about a command that is not on the allow-list.          *)
Ask(c) ==
    /\ asked = NoCall /\ ticket = NoCall
    /\ present
    /\ IF c \in Shells
       THEN c.program \in policy.shell_allowlist
       ELSE policy.edits_need_approval
    /\ asked' = c
    /\ UNCHANGED <<policy, present, ticket, text, ran>>

(* Apply, or for an edit Apply with another text.                          *)
Grant(c) ==
    /\ present
    /\ asked # NoCall
    /\ c = asked \/ (asked \in Edits /\ c \in Edits /\ c.tag = asked.tag)
    /\ asked' = NoCall
    /\ ticket' = c
    /\ UNCHANGED <<policy, present, text, ran>>

Refuse ==
    /\ asked' = NoCall
    /\ UNCHANGED <<policy, present, ticket, text, ran>>

Waive(c) ==
    /\ asked = NoCall /\ ticket = NoCall
    /\ c \in Edits
    /\ ~policy.edits_need_approval
    /\ ticket' = c
    /\ UNCHANGED <<policy, present, asked, text, ran>>

UseEdit(b) ==
    /\ ticket \in Edits
    /\ text[b] = ticket.tag
    /\ text' = [text EXCEPT ![b] = ticket.text]
    /\ ticket' = NoCall
    /\ UNCHANGED <<policy, present, asked, ran>>

UseShell ==
    /\ ticket \in Shells
    /\ ran < MaxShell
    /\ ran' = ran + 1
    /\ ticket' = NoCall
    /\ UNCHANGED <<policy, present, asked, text>>

Lapse ==
    /\ ticket' = NoCall
    /\ UNCHANGED <<policy, present, asked, text, ran>>

UserEdits(b, t) ==
    /\ present
    /\ text' = [text EXCEPT ![b] = t]
    /\ UNCHANGED <<policy, present, asked, ticket, ran>>

NewTurn ==
    /\ present
    /\ asked = NoCall /\ ticket = NoCall
    /\ ran' = 0
    /\ UNCHANGED <<policy, present, asked, ticket, text>>

(* What the user had granted for a buffer goes with the buffers, a command *)
(* may still run.                                                          *)
Leave ==
    /\ present' = FALSE
    /\ asked' = NoCall
    /\ ticket' = IF ticket \in Shells THEN ticket ELSE NoCall
    /\ UNCHANGED <<policy, text, ran>>

Next ==
    \/ \E c \in Effectful : Ask(c) \/ Grant(c) \/ Waive(c)
    \/ \E b \in Buffers : UseEdit(b)
    \/ \E b \in Buffers, t \in Texts : UserEdits(b, t)
    \/ UseShell \/ Refuse \/ Lapse \/ NewTurn \/ Leave

Spec == Init /\ [][Next]_gateVars

=============================================================================
