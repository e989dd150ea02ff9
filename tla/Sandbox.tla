------------------------------ MODULE Sandbox ------------------------------
(***************************************************************************)
(* The command sandbox (seraph/sandbox.rs): the wrappers a command of the  *)
(* agent is started under, the thread that drains its output, and the loop *)
(* that waits for it until its time is up.  Standard output and standard   *)
(* error are piped and drained alike: one pipe stands for both.  The       *)
(* command is one process, "lead", and a process it may leave behind,      *)
(* "kin", in its process group or away from it.                            *)
(***************************************************************************)
EXTENDS Naturals, Sequences

CONSTANTS
    Cages,          \* bound: the sandboxes a command is run in
    PipeSize,       \* bound: what a pipe holds before its writer waits
    OutputCap,      \* what is kept of the output
    MaxPut          \* bound: what the processes write in all

ASSUME SandboxAssumption ==
    PipeSize \in Nat \ {0} /\ OutputCap \in Nat /\ MaxPut \in Nat

VARIABLES
    cell            \* the run of one command

cellVars == <<cell>>

Wishes == {"network", "files"}
Programs == {"prlimit", "unshare", "bwrap"}

\* The tools that are installed and, those that need user namespaces, work.
Detect(installed, namespaces) ==
    {t \in installed : t = "prlimit" \/ namespaces}

\* What the sandbox says of its commands.
Reported(cage) ==
    {r \in {"limits", "network", "files"} :
        CASE r = "limits" -> "prlimit" \in cage.tools
          [] r = "network" -> "network" \in cage.asked /\ "unshare" \in cage.tools
          [] r = "files" -> "files" \in cage.asked /\ "bwrap" \in cage.tools}

\* Mutant of Bwrap: the network is left to unshare, which is not run under bwrap.
BwrapFilesOnly(cage) == [tool |-> "bwrap", cuts |-> {"files"}]

Bwrap(cage) == [tool |-> "bwrap", cuts |-> {"files"} \cup (cage.asked \cap {"network"})]

\* The wrappers in front of the program, outermost first: each runs the next.
Wrappers(cage) ==
    LET inner == IF "prlimit" \in cage.tools
                 THEN <<[tool |-> "prlimit", cuts |-> {"limits"}]>> ELSE <<>>
    IN  IF "files" \in cage.asked /\ "bwrap" \in cage.tools THEN <<Bwrap(cage)>> \o inner
        ELSE IF "network" \in cage.asked /\ "unshare" \in cage.tools
             THEN <<[tool |-> "unshare", cuts |-> {"network"}]>> \o inner
        ELSE inner

Cuts(cage) == UNION {Wrappers(cage)[i].cuts : i \in DOMAIN Wrappers(cage)}

\* A process tree under bwrap has a namespace of its own and ends with its first process.
Sealed(c) == \E i \in DOMAIN Wrappers(c.cage) : Wrappers(c.cage)[i].tool = "bwrap"

Alive == {"group", "away"}
PipeHeld(c) == c.lead = "running" \/ c.kin \in Alive
-----------------------------------------------------------------------------
(* The command.                                                            *)

Forks ==
    /\ cell.lead = "running" /\ cell.kin = "none"
    /\ \E k \in Alive : cell' = [cell EXCEPT !.kin = k]

Writes ==
    /\ PipeHeld(cell) /\ cell.pipe < PipeSize /\ cell.put < MaxPut
    /\ cell' = [cell EXCEPT !.pipe = @ + 1, !.put = @ + 1]

Exits ==
    /\ cell.lead = "running"
    /\ cell' = [cell EXCEPT !.lead = "exited",
                            !.kin = IF Sealed(cell) /\ @ \in Alive THEN "ended" ELSE @]

KinEnds == cell.kin \in Alive /\ cell' = [cell EXCEPT !.kin = "ended"]

-----------------------------------------------------------------------------
(* The thread that runs it and the one that reads its output.              *)

Lines == {"empty", "missing", "tool"}

\* A line without a program is refused.  A program that is not there fails to start only
\* where nothing wraps it: a wrapper starts, and ends with a status of its own.
RunCommand(text) ==
    /\ cell.at = "idle"
    /\ cell' =
        IF text = "empty" \/ (text = "missing" /\ Wrappers(cell.cage) = <<>>)
        THEN [cell EXCEPT !.at = "failed"]
        ELSE [cell EXCEPT !.at = "polling", !.drain = "reading",
                          !.lead = IF text = "tool" THEN "running" ELSE "exited"]

DeadlinePasses == cell.at = "polling" /\ ~cell.late /\ cell' = [cell EXCEPT !.late = TRUE]

\* Mutant of KillGroup: only the command is killed.
KillLeader(c) == [c EXCEPT !.lead = "killed", !.kin = IF Sealed(c) /\ @ \in Alive THEN "ended" ELSE @]

\* The group of the command is killed: a process that left the group lives on.
KillGroup(c) ==
    [c EXCEPT !.lead = "killed",
              !.kin = IF @ = "group" \/ (Sealed(c) /\ @ = "away") THEN "ended" ELSE @]

\* A command that has ended is found so even after the deadline.
Poll ==
    /\ cell.at = "polling"
    /\ \/ /\ cell.lead = "exited"
          /\ cell' = [cell EXCEPT !.at = "joining", !.code = "status"]
       \/ /\ cell.lead = "running" /\ cell.late
          /\ cell' = [KillGroup(cell) EXCEPT !.at = "joining", !.timedOut = TRUE]

\* Mutant of Kept: a read that does not fit is dropped as a whole.
KeptIfItFits(kept, read) == IF kept + read <= OutputCap THEN kept + read ELSE kept

\* Past the cap the output is read and dropped.
Kept(kept, read) == IF kept + read < OutputCap THEN kept + read ELSE OutputCap

Read ==
    /\ cell.drain = "reading" /\ cell.pipe > 0
    /\ \E n \in 1 .. cell.pipe :
          cell' = [cell EXCEPT !.pipe = @ - n, !.kept = Kept(@, n)]

EndOfOutput ==
    /\ cell.drain = "reading" /\ cell.pipe = 0 /\ ~PipeHeld(cell)
    /\ cell' = [cell EXCEPT !.drain = "ended"]

\* The output is joined without a deadline.
JoinDrain ==
    /\ cell.at = "joining" /\ cell.drain = "ended"
    /\ cell' = [cell EXCEPT !.at = "done"]

CellInit ==
    \E cage \in Cages :
        cell = [cage |-> cage, at |-> "idle", drain |-> "none", lead |-> "none", kin |-> "none",
                pipe |-> 0, put |-> 0, kept |-> 0, late |-> FALSE, timedOut |-> FALSE,
                code |-> "none"]

CellNext ==
    \/ Forks \/ Writes \/ Exits \/ KinEnds
    \/ \E text \in Lines : RunCommand(text)
    \/ DeadlinePasses \/ Poll \/ Read \/ EndOfOutput \/ JoinDrain

-----------------------------------------------------------------------------
\* What the sandbox says of its confinement is so.  It may say too little in one case:
\* the network is cut by bwrap where unshare was not found.
ReportsAreTrue ==
    \A installed \in SUBSET Programs, namespaces \in BOOLEAN, asked \in SUBSET Wishes :
        LET cage == [asked |-> asked, tools |-> Detect(installed, namespaces)]
        IN  /\ Reported(cage) \subseteq Cuts(cage)
            /\ Cuts(cage) # Reported(cage) =>
                  /\ Cuts(cage) \ Reported(cage) = {"network"}
                  /\ "unshare" \notin cage.tools /\ asked = Wishes

\* What is returned is the start of all that was written, to the last byte before the
\* cap; a command whose time was up has no status.
OutputIsComplete ==
    cell.at = "done" =>
        /\ cell.kept = Kept(cell.put, 0)
        /\ cell.timedOut <=> cell.code = "none"

\* A run comes back, in time or a little later, unless a process holds the pipe that the
\* command left behind: away from the group, or in the group of a command that ended by
\* itself, for which nothing is killed.  A full pipe is emptied, past the cap too.
RunsComeBack ==
    /\ []<>(\/ cell.at \notin {"polling", "joining"}
            \/ cell.kin = "away"
            \/ cell.kin = "group" /\ cell.lead = "exited")
    /\ []<>(cell.pipe < PipeSize)
=============================================================================
