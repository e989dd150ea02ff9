------------------------- MODULE BackgroundExecutor -------------------------
(***************************************************************************)
(* The worker pool of morpheus/src/background.rs and the Task handles of   *)
(* task.rs.  Workers share a queue under a mutex and park on a condition   *)
(* variable; `spawn` pushes under the mutex and notifies after releasing   *)
(* it; dropping the executor raises the shutdown flag under the mutex,     *)
(* notifies every worker and joins them all.                               *)
(*                                                                         *)
(* One action is what a thread does between two points at which another    *)
(* one may come in.  Short critical sections (a push, the store of the     *)
(* flag) are one action, enabled while no worker holds the mutex.          *)
(***************************************************************************)
EXTENDS Integers, Sequences, FiniteSets

CONSTANTS
    Workers,      \* the threads of the pool
    Jobs,         \* the closures given to `spawn`, each at most once
    CanPanic,     \* those that may panic
    Patient,      \* those that end only when they see their Cancel raised
    NoJob,        \* what a worker holds that has no job
    MaxSpurious   \* bound: wake-ups of the condition variable without a notify

ASSUME PoolAssumption ==
    /\ IsFiniteSet(Workers) /\ Workers # {}
    /\ CanPanic \subseteq Jobs
    /\ Patient \subseteq Jobs
    /\ NoJob \notin Jobs
    /\ MaxSpurious \in Nat

VARIABLES
    queue,        \* Pool.queue
    unannounced,  \* jobs pushed by a `push` that has not called notify_one yet
    owner,        \* the thread that drops the executor
    wpc,          \* where each worker is in `worker_loop`
    job,          \* the job each worker has taken
    place,        \* how far each job has come
    handle,       \* what became of each job's Task
    spurious      \* wake-ups without a notify so far

vars == <<queue, unannounced, owner, wpc, job, place, handle, spurious>>

-----------------------------------------------------------------------------

OwnerStates == {"live", "set", "join", "dropped"}
WorkerStates == {"lock", "pop", "test", "park", "parked", "run", "send", "gone", "dead"}
Places == {"new", "queued", "running", "finished", "sent", "panicked", "discarded"}
Handles == {"none", "held", "joining", "some", "nothing", "dropped", "detached"}

(* The mutex is held from the lock at the top of the loop until the job is *)
(* taken, the worker returns, or `wait` has parked it.                     *)
\* Mutant of Critical: the mutex is released before the worker is parked.
CriticalUntilTested == {"pop", "test"}
Critical == {"pop", "test", "park"}
Locked == \E w \in Workers : wpc[w] \in Critical

Shutdown == owner # "live"
Parked == {w \in Workers : wpc[w] = "parked"}
Cancelled(j) == handle[j] = "dropped"
Endless(j) == j \in Patient /\ ~Cancelled(j)

Init ==
    /\ queue = <<>>
    /\ unannounced = {}
    /\ owner = "live"
    /\ wpc = [w \in Workers |-> "lock"]
    /\ job = [w \in Workers |-> NoJob]
    /\ place = [j \in Jobs |-> "new"]
    /\ handle = [j \in Jobs |-> "none"]
    /\ spurious = 0

-----------------------------------------------------------------------------
(* BackgroundExecutor::spawn, on any thread that can reach the executor.   *)

Push(j) ==
    /\ owner = "live"
    /\ place[j] = "new"
    /\ ~Locked
    /\ queue' = Append(queue, j)
    /\ place' = [place EXCEPT ![j] = "queued"]
    /\ unannounced' = unannounced \cup {j}
    /\ UNCHANGED <<owner, wpc, job, handle, spurious>>

(* notify_one wakes some parked worker, or nobody when none is parked.     *)
WakeOne ==
    IF Parked = {}
    THEN UNCHANGED wpc
    ELSE \E w \in Parked : wpc' = [wpc EXCEPT ![w] = "lock"]

\* Mutant of Announce: only a push to an empty queue notifies.
AnnounceFirst(j) ==
    /\ j \in unannounced
    /\ unannounced' = unannounced \ {j}
    /\ IF Len(queue) > 1 THEN UNCHANGED wpc ELSE WakeOne
    /\ handle' = [handle EXCEPT ![j] = "held"]
    /\ UNCHANGED <<queue, owner, job, place, spurious>>

Announce(j) ==
    /\ j \in unannounced
    /\ unannounced' = unannounced \ {j}
    /\ WakeOne
    /\ handle' = [handle EXCEPT ![j] = "held"]
    /\ UNCHANGED <<queue, owner, job, place, spurious>>

-----------------------------------------------------------------------------
(* Pool::worker_loop.                                                      *)

Lock(w) ==
    /\ wpc[w] = "lock"
    /\ ~Locked
    /\ wpc' = [wpc EXCEPT ![w] = "pop"]
    /\ UNCHANGED <<queue, unannounced, owner, job, place, handle, spurious>>

\* Mutant of Take: the job is looked at but not removed.
TakeByPeeking(w) ==
    /\ wpc[w] = "pop"
    /\ queue # <<>>
    /\ job' = [job EXCEPT ![w] = Head(queue)]
    /\ place' = [place EXCEPT ![Head(queue)] = "running"]
    /\ wpc' = [wpc EXCEPT ![w] = "run"]
    /\ UNCHANGED <<queue, unannounced, owner, handle, spurious>>

\* Mutant of Take: the flag is tested before the queue.
TakeUnlessShutdown(w) ==
    /\ wpc[w] = "pop"
    /\ queue # <<>>
    /\ IF Shutdown
       THEN /\ wpc' = [wpc EXCEPT ![w] = "gone"]
            /\ UNCHANGED <<queue, job, place>>
       ELSE /\ queue' = Tail(queue)
            /\ job' = [job EXCEPT ![w] = Head(queue)]
            /\ place' = [place EXCEPT ![Head(queue)] = "running"]
            /\ wpc' = [wpc EXCEPT ![w] = "run"]
    /\ UNCHANGED <<unannounced, owner, handle, spurious>>

Take(w) ==
    /\ wpc[w] = "pop"
    /\ queue # <<>>
    /\ queue' = Tail(queue)
    /\ job' = [job EXCEPT ![w] = Head(queue)]
    /\ place' = [place EXCEPT ![Head(queue)] = "running"]
    /\ wpc' = [wpc EXCEPT ![w] = "run"]
    /\ UNCHANGED <<unannounced, owner, handle, spurious>>

FindEmpty(w) ==
    /\ wpc[w] = "pop"
    /\ queue = <<>>
    /\ wpc' = [wpc EXCEPT ![w] = "test"]
    /\ UNCHANGED <<queue, unannounced, owner, job, place, handle, spurious>>

TestShutdown(w) ==
    /\ wpc[w] = "test"
    /\ wpc' = [wpc EXCEPT ![w] = IF Shutdown THEN "gone" ELSE "park"]
    /\ UNCHANGED <<queue, unannounced, owner, job, place, handle, spurious>>

(* Condvar::wait releases the mutex and parks in one step.                 *)
Park(w) ==
    /\ wpc[w] = "park"
    /\ wpc' = [wpc EXCEPT ![w] = "parked"]
    /\ UNCHANGED <<queue, unannounced, owner, job, place, handle, spurious>>

SpuriousWake(w) ==
    /\ wpc[w] = "parked"
    /\ spurious < MaxSpurious
    /\ spurious' = spurious + 1
    /\ wpc' = [wpc EXCEPT ![w] = "lock"]
    /\ UNCHANGED <<queue, unannounced, owner, job, place, handle>>

(* The closure returns and `done` is raised ...                            *)
Finish(w) ==
    /\ wpc[w] = "run"
    /\ ~Endless(job[w])
    /\ place' = [place EXCEPT ![job[w]] = "finished"]
    /\ wpc' = [wpc EXCEPT ![w] = "send"]
    /\ UNCHANGED <<queue, unannounced, owner, job, handle, spurious>>

(* ... before its result is sent, which succeeds as long as anybody could  *)
(* receive it.                                                             *)
Send(w) ==
    /\ wpc[w] = "send"
    /\ place' = [place EXCEPT ![job[w]] = "sent"]
    /\ job' = [job EXCEPT ![w] = NoJob]
    /\ wpc' = [wpc EXCEPT ![w] = "lock"]
    /\ UNCHANGED <<queue, unannounced, owner, handle, spurious>>

(* Nothing catches a panic: the unwinding drops the sender and ends the    *)
(* thread, and nobody starts another.                                      *)
\* Mutant of Panic: the panic is caught and the worker keeps the job.
PanicRetries(w) ==
    /\ wpc[w] = "run"
    /\ job[w] \in CanPanic
    /\ wpc' = [wpc EXCEPT ![w] = "lock"]
    /\ UNCHANGED <<queue, unannounced, owner, job, place, handle, spurious>>

Panic(w) ==
    /\ wpc[w] = "run"
    /\ job[w] \in CanPanic
    /\ place' = [place EXCEPT ![job[w]] = "panicked"]
    /\ job' = [job EXCEPT ![w] = NoJob]
    /\ wpc' = [wpc EXCEPT ![w] = "dead"]
    /\ UNCHANGED <<queue, unannounced, owner, handle, spurious>>

-----------------------------------------------------------------------------
(* Drop for BackgroundExecutor.  It takes the executor by unique           *)
(* reference, so no `spawn` is under way.                                  *)

\* Mutant of SetShutdown: the flag is set without the mutex.
SetShutdownUnlocked ==
    /\ owner = "live"
    /\ unannounced = {}
    /\ owner' = "set"
    /\ UNCHANGED <<queue, unannounced, wpc, job, place, handle, spurious>>

SetShutdown ==
    /\ owner = "live"
    /\ unannounced = {}
    /\ ~Locked
    /\ owner' = "set"
    /\ UNCHANGED <<queue, unannounced, wpc, job, place, handle, spurious>>

NotifyAll ==
    /\ owner = "set"
    /\ owner' = "join"
    /\ wpc' = [w \in Workers |-> IF wpc[w] = "parked" THEN "lock" ELSE wpc[w]]
    /\ UNCHANGED <<queue, unannounced, job, place, handle, spurious>>

(* Once the last worker has ended, the last reference to the pool goes and *)
(* with it whatever is still queued.                                       *)
JoinWorkers ==
    /\ owner = "join"
    /\ \A w \in Workers : wpc[w] \in {"gone", "dead"}
    /\ owner' = "dropped"
    /\ queue' = <<>>
    /\ place' = [j \in Jobs |-> IF place[j] = "queued" THEN "discarded" ELSE place[j]]
    /\ UNCHANGED <<unannounced, wpc, job, handle, spurious>>

-----------------------------------------------------------------------------
(* Task: join, detach, drop.                                               *)

Join(j) ==
    /\ handle[j] = "held"
    /\ handle' = [handle EXCEPT ![j] = "joining"]
    /\ UNCHANGED <<queue, unannounced, owner, wpc, job, place, spurious>>

(* recv ends with the result, or with an error once the sender is gone.    *)
\* Mutant of JoinReturns: the channel is polled once.
JoinDoesNotWait(j) ==
    /\ handle[j] = "joining"
    /\ handle' = [handle EXCEPT ![j] = IF place[j] = "sent" THEN "some" ELSE "nothing"]
    /\ UNCHANGED <<queue, unannounced, owner, wpc, job, place, spurious>>

JoinReturns(j) ==
    /\ handle[j] = "joining"
    /\ \/ place[j] = "sent" /\ handle' = [handle EXCEPT ![j] = "some"]
       \/ place[j] \in {"panicked", "discarded"} /\ handle' = [handle EXCEPT ![j] = "nothing"]
    /\ UNCHANGED <<queue, unannounced, owner, wpc, job, place, spurious>>

Detach(j) ==
    /\ handle[j] = "held"
    /\ handle' = [handle EXCEPT ![j] = "detached"]
    /\ UNCHANGED <<queue, unannounced, owner, wpc, job, place, spurious>>

(* Raises the Cancel: a queued job stays queued and runs all the same.     *)
DropTask(j) ==
    /\ handle[j] = "held"
    /\ handle' = [handle EXCEPT ![j] = "dropped"]
    /\ UNCHANGED <<queue, unannounced, owner, wpc, job, place, spurious>>

-----------------------------------------------------------------------------

WorkerLoop(w) ==
    \/ Lock(w) \/ Take(w) \/ FindEmpty(w) \/ TestShutdown(w) \/ Park(w)
    \/ Finish(w) \/ Send(w) \/ Panic(w)

Next ==
    \/ \E j \in Jobs : \/ Push(j) \/ Announce(j)
                       \/ Join(j) \/ JoinReturns(j) \/ Detach(j) \/ DropTask(j)
    \/ \E w \in Workers : WorkerLoop(w) \/ SpuriousWake(w)
    \/ SetShutdown \/ NotifyAll \/ JoinWorkers

(* The operating system runs every thread that can run.  Spawning, joining, *)
(* dropping a task and dropping the executor are up to the program.         *)
Fairness ==
    /\ \A w \in Workers : WF_vars(WorkerLoop(w))
    /\ \A j \in Jobs : WF_vars(Announce(j)) /\ WF_vars(JoinReturns(j))
    /\ WF_vars(NotifyAll) /\ WF_vars(JoinWorkers)

Spec == Init /\ [][Next]_vars
FairSpec == Spec /\ Fairness

-----------------------------------------------------------------------------
(* Properties.                                                             *)

TypeOK ==
    /\ queue \in Seq(Jobs)
    /\ unannounced \in SUBSET Jobs
    /\ owner \in OwnerStates
    /\ wpc \in [Workers -> WorkerStates]
    /\ job \in [Workers -> Jobs \cup {NoJob}]
    /\ \A w \in Workers : job[w] = NoJob <=> wpc[w] \notin {"run", "send"}
    /\ place \in [Jobs -> Places]
    /\ handle \in [Jobs -> Handles]
    /\ spurious \in 0..MaxSpurious

(* A job that was spawned and is not over is in the queue, once, or in the *)
(* hands of one worker: no interleaving of workers loses or doubles it.    *)
Holders(j) == {w \in Workers : job[w] = j}
Positions(j) == {i \in DOMAIN queue : queue[i] = j}

NeitherLostNorDoubled ==
    \A j \in Jobs :
        /\ place[j] = "queued" => \E i \in DOMAIN queue : Positions(j) = {i}
        /\ place[j] \in {"running", "finished"} => \E w \in Workers : Holders(j) = {w}
        /\ place[j] # "queued" => Positions(j) = {}
        /\ place[j] \notin {"running", "finished"} => Holders(j) = {}

(* No lost wake-up: while a worker sleeps, each queued job has a worker    *)
(* that is awake and on its way to the queue, or a notify still to come.   *)
OnTheWay == {w \in Workers : wpc[w] \in {"lock", "pop"}}

QueueIsServed ==
    Parked # {} => Len(queue) <= Cardinality(unannounced) + Cardinality(OnTheWay)

(* What the comment in `drop` argues: once it has notified, no worker      *)
(* sleeps, nor will one that read the flag before it was set.              *)
ShutdownReaches ==
    owner \in {"join", "dropped"} => \A w \in Workers : wpc[w] \notin {"park", "parked"}

(* Dropping the executor drains the queue: no worker returns before the    *)
(* queue is empty for good, and a job is discarded only when panics left   *)
(* nobody to run it.                                                       *)
AllDead == \A w \in Workers : wpc[w] = "dead"

DropDrains ==
    /\ (\E w \in Workers : wpc[w] = "gone") => queue = <<>>
    /\ \A j \in Jobs : place[j] = "discarded" => AllDead

(* `join` gives the result of a job that finished, and None only for one   *)
(* that panicked, or when panics left nobody to run it; a task that said   *)
(* `is_finished` never gives None.                                         *)
JoinTellsTheTruth ==
    \A j \in Jobs :
        /\ handle[j] = "some" => place[j] = "sent"
        /\ handle[j] = "nothing" => place[j] = "panicked" \/ AllDead

(* A queued job is taken, unless every worker has died or waits for a      *)
(* cancellation that does not come.                                        *)
Stuck(w) == wpc[w] = "dead" \/ (wpc[w] = "run" /\ Endless(job[w]))

QueuedJobsAreTaken ==
    \A j \in Jobs :
        place[j] = "queued" ~> (place[j] # "queued" \/ \A w \in Workers : Stuck(w))

(* Dropping the executor ends, unless a job waits for a cancellation that  *)
(* does not come: no worker sleeps through the shutdown.                   *)
DropReturns ==
    owner = "set" ~> (owner = "dropped" \/ \E w \in Workers : wpc[w] = "run" /\ Endless(job[w]))

(* The comment on `lock_queue`: recovering from poisoning, one panicked    *)
(* job cannot wedge the pool, so the jobs queued behind it are taken.      *)
OnePanicCannotWedge ==
    \A j \in Jobs : place[j] = "queued" ~> place[j] # "queued"

=============================================================================
