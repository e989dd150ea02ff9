---------------------------- MODULE CrashSafeText ----------------------------
(***************************************************************************)
(* What a journaled document promises, with neither file nor log: a        *)
(* process that dies loses nothing, a machine that loses power loses only  *)
(* edits younger than the last flush -- as long as the promise is kept up. *)
(* A breach (something the log does not cover) suspends the promise until  *)
(* the next checkpoint.                                                    *)
(***************************************************************************)
EXTENDS Integers, Sequences

CONSTANT Contents

VARIABLES
  text,     \* what the user saw last, and is owed by the next opening
  recent,   \* the texts since the last flush, the flushed one first
  up,       \* a process shows the document
  sound     \* the promise is in force

vars == <<text, recent, up, sound>>

Init ==
  /\ text \in Contents
  /\ recent = <<text>>
  /\ up = FALSE
  /\ sound = TRUE

Edit ==
  /\ up = TRUE /\ sound = TRUE
  /\ text' \in Contents
  /\ recent' \in {Append(recent, text'), <<text'>>}
  /\ UNCHANGED <<up, sound>>

Flush ==
  /\ sound = TRUE
  /\ recent' = <<text>>
  /\ UNCHANGED <<text, up, sound>>

\* An edit, an undo or a rewrite of the files the log does not cover.
Breach ==
  /\ up = TRUE
  /\ text' \in Contents
  /\ sound' = FALSE
  /\ recent' = <<>>
  /\ UNCHANGED up

Checkpoint ==
  /\ up = TRUE
  /\ sound' = TRUE
  /\ recent' = <<text>>
  /\ UNCHANGED <<text, up>>

Kill ==
  /\ up = TRUE /\ up' = FALSE
  /\ UNCHANGED <<text, recent, sound>>

\* The opened text is the owed one; opening may itself begin a checkpoint.
Restart ==
  /\ sound = TRUE /\ up = FALSE /\ up' = TRUE
  /\ text' = text
  /\ \/ sound' = TRUE /\ recent' = recent
     \/ sound' = FALSE /\ recent' = <<>>

HardCrash ==
  /\ sound = TRUE /\ up' = FALSE
  /\ \E i \in 1 .. Len(recent) :
       /\ text' = recent[i]
       /\ recent' = <<text'>>
  /\ sound' = TRUE

\* The power goes before the kernel has written a saved file back.
HardCrashAfterSave ==
  /\ sound = TRUE /\ up' = FALSE /\ sound' = FALSE
  /\ text' \in Contents
  /\ recent' = <<>>

\* With the promise suspended a document may come back as anything.
Unprotected ==
  /\ sound = FALSE /\ sound' = FALSE
  /\ text' \in Contents
  /\ up' \in BOOLEAN
  /\ UNCHANGED recent

Next ==
  \/ Edit \/ Flush \/ Breach \/ Checkpoint \/ Kill \/ Restart
  \/ HardCrash \/ HardCrashAfterSave \/ Unprotected

Spec == Init /\ [][Next]_vars
=============================================================================
