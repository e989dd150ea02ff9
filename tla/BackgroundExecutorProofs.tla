---------------------- MODULE BackgroundExecutorProofs ----------------------
(***************************************************************************)
(* The safety of the worker pool, for every finite set of workers, every   *)
(* set of jobs, whichever of them panic or wait, and every number of       *)
(* spurious wake-ups.                                                      *)
(***************************************************************************)
EXTENDS BackgroundExecutor, FiniteSetTheorems, SequenceTheorems, TLAPS

USE PoolAssumption

-----------------------------------------------------------------------------
\* The inductive invariant, in parts.

\* The queue holds the queued jobs, each once.
QueueHoldsQueued ==
    /\ \A i, k \in DOMAIN queue : queue[i] = queue[k] => i = k
    /\ \A i \in DOMAIN queue : place[queue[i]] = "queued"
    /\ \A j \in Jobs : place[j] = "queued" => \E i \in DOMAIN queue : queue[i] = j

\* The workers hold the jobs that run or have just ended, one each.
WorkersHoldRunning ==
    /\ \A w \in Workers : wpc[w] = "run" => place[job[w]] = "running"
    /\ \A w \in Workers : wpc[w] = "send" => place[job[w]] = "finished"
    /\ \A v, w \in Workers : job[v] = job[w] => job[v] = NoJob \/ v = w
    /\ \A j \in Jobs : place[j] \in {"running", "finished"} => \E w \in Workers : job[w] = j

\* What holding the mutex means: nobody else does, and a queue that was
\* found empty still is.
Mutex ==
    /\ \A v, w \in Workers : wpc[v] \in Critical /\ wpc[w] \in Critical => v = w
    /\ \A w \in Workers : wpc[w] \in {"test", "park"} => queue = <<>>

\* Each push that is still to notify is counted, once.
Served ==
    /\ IsFiniteSet(unannounced)
    /\ \A j \in unannounced : place[j] # "new"
    /\ QueueIsServed

\* Since the flag is stored under the mutex, no worker has passed the test
\* before it and parks after it; a worker returns only after it.
Closing ==
    /\ Shutdown => unannounced = {} /\ \A w \in Workers : wpc[w] # "park"
    /\ owner \in {"join", "dropped"} => \A w \in Workers : wpc[w] # "parked"
    /\ \A w \in Workers : wpc[w] = "gone" => Shutdown

IInv ==
    /\ TypeOK
    /\ QueueHoldsQueued
    /\ WorkersHoldRunning
    /\ Mutex
    /\ Served
    /\ Closing
    /\ DropDrains
    /\ JoinTellsTheTruth

-----------------------------------------------------------------------------
\* What the operators on the queue do.

\* A queue that is not empty begins with its first job.
LEMMA FirstJob ==
  ASSUME queue \in Seq(Jobs), queue # <<>>
  PROVE  /\ Head(queue) \in Jobs
         /\ Head(queue) = queue[1]
         /\ 1 \in DOMAIN queue
         /\ Len(queue) \in Nat \ {0}
<1>1. Len(queue) \in Nat \ {0} /\ DOMAIN queue = 1 .. Len(queue)
  BY EmptySeq, LenProperties
<1> QED
  BY <1>1, HeadTailProperties

\* Waking one worker changes the place of at most one, from parked to lock.
LEMMA WakeOneChanges ==
  ASSUME TypeOK, WakeOne
  PROVE  \/ Parked = {} /\ wpc' = wpc
         \/ \E w \in Workers : wpc[w] = "parked" /\ wpc' = [wpc EXCEPT ![w] = "lock"]
BY DEF WakeOne, Parked

-----------------------------------------------------------------------------
\* Types.

LEMMA TypeInit ==
  Init => TypeOK
<1> SUFFICES ASSUME Init PROVE TypeOK
  OBVIOUS
<1>1. queue \in Seq(Jobs) /\ unannounced \in SUBSET Jobs /\ spurious \in 0 .. MaxSpurious
  BY DEF Init
<1>2. job \in [Workers -> Jobs \cup {NoJob}] /\ \A w \in Workers : job[w] = NoJob /\ wpc[w] = "lock"
  BY DEF Init
<1>3. /\ owner \in OwnerStates
      /\ wpc \in [Workers -> WorkerStates]
      /\ place \in [Jobs -> Places]
      /\ handle \in [Jobs -> Handles]
  BY DEF Init, OwnerStates, WorkerStates, Places, Handles
<1> QED
  BY <1>1, <1>2, <1>3 DEF TypeOK

\* The type invariant is preserved by every step.
LEMMA TypeStep ==
  ASSUME TypeOK, [Next]_vars
  PROVE  TypeOK'
<1> USE DEF TypeOK
<1>1. ASSUME NEW j \in Jobs, Push(j) PROVE TypeOK'
  <2>1. queue' \in Seq(Jobs)
    BY <1>1, AppendProperties DEF Push
  <2> QED
    BY <1>1, <2>1 DEF Push, Places
<1>2. ASSUME NEW j \in Jobs, Announce(j) PROVE TypeOK'
  <2>1. handle' \in [Jobs -> Handles] /\ unannounced' \in SUBSET Jobs
    BY <1>2 DEF Announce, Handles
  <2>2. CASE wpc' = wpc
    BY <1>2, <2>1, <2>2 DEF Announce
  <2>3. CASE \E w \in Workers : wpc[w] = "parked" /\ wpc' = [wpc EXCEPT ![w] = "lock"]
    BY <1>2, <2>1, <2>3 DEF Announce, WorkerStates
  <2> QED
    BY <1>2, <2>2, <2>3, WakeOneChanges DEF Announce
<1>3. ASSUME NEW j \in Jobs, Join(j) \/ JoinReturns(j) \/ Detach(j) \/ DropTask(j) PROVE TypeOK'
  BY <1>3 DEF Join, JoinReturns, Detach, DropTask, Handles
<1>4. ASSUME NEW w \in Workers, Take(w) PROVE TypeOK'
  <2>1. Head(queue) \in Jobs /\ queue' \in Seq(Jobs)
    BY <1>4, HeadTailProperties DEF Take
  <2>2. Head(queue) # NoJob
    BY <2>1
  <2> QED
    BY <1>4, <2>1, <2>2 DEF Take, WorkerStates, Places
<1>5. ASSUME NEW w \in Workers, Lock(w) \/ FindEmpty(w) \/ TestShutdown(w) \/ Park(w) PROVE TypeOK'
  BY <1>5 DEF Lock, FindEmpty, TestShutdown, Park, WorkerStates
<1>6. ASSUME NEW w \in Workers, SpuriousWake(w) PROVE TypeOK'
  BY <1>6 DEF SpuriousWake, WorkerStates
<1>7. ASSUME NEW w \in Workers, Finish(w) PROVE TypeOK'
  BY <1>7 DEF Finish, WorkerStates, Places
<1>8. ASSUME NEW w \in Workers, Send(w) PROVE TypeOK'
  BY <1>8 DEF Send, WorkerStates, Places
<1>9. ASSUME NEW w \in Workers, Panic(w) PROVE TypeOK'
  BY <1>9 DEF Panic, WorkerStates, Places
<1>10. CASE SetShutdown
  BY <1>10 DEF SetShutdown, OwnerStates
<1>11. CASE NotifyAll
  BY <1>11 DEF NotifyAll, OwnerStates, WorkerStates
<1>12. CASE JoinWorkers
  BY <1>12 DEF JoinWorkers, OwnerStates, Places
<1>13. CASE UNCHANGED vars
  BY <1>13 DEF vars
<1> QED
  BY <1>1, <1>2, <1>3, <1>4, <1>5, <1>6, <1>7, <1>8, <1>9, <1>10, <1>11, <1>12, <1>13
  DEF Next, WorkerLoop

-----------------------------------------------------------------------------
\* No job is lost or doubled.

\* A push puts a new job behind the others, taking the first leaves the rest.
LEMMA QueueStep ==
  ASSUME TypeOK, QueueHoldsQueued, WorkersHoldRunning, [Next]_vars
  PROVE  QueueHoldsQueued'
<1> USE DEF QueueHoldsQueued, TypeOK
<1>1. ASSUME NEW j \in Jobs, Push(j) PROVE QueueHoldsQueued'
  <2>1. /\ Len(queue) \in Nat
        /\ DOMAIN queue = 1 .. Len(queue)
        /\ DOMAIN queue' = 1 .. Len(queue) + 1
        /\ \A i \in DOMAIN queue : queue'[i] = queue[i]
        /\ queue'[Len(queue) + 1] = j
    BY <1>1, AppendProperties, LenProperties DEF Push
  <2>2. \A i \in DOMAIN queue : queue[i] # j /\ place'[queue[i]] = "queued"
    BY <1>1 DEF Push
  <2>3. \A i \in DOMAIN queue' : i \in DOMAIN queue \/ i = Len(queue) + 1
    BY <2>1
  <2>4. \A i, k \in DOMAIN queue' : queue'[i] = queue'[k] => i = k
    BY <2>1, <2>2, <2>3
  <2>5. \A i \in DOMAIN queue' : place'[queue'[i]] = "queued"
    BY <1>1, <2>1, <2>2, <2>3 DEF Push
  <2>6. \A k \in Jobs : place'[k] = "queued" => \E i \in DOMAIN queue' : queue'[i] = k
    <3> SUFFICES ASSUME NEW k \in Jobs, place'[k] = "queued" PROVE \E i \in DOMAIN queue' : queue'[i] = k
      OBVIOUS
    <3>1. CASE k = j
      BY <2>1, <3>1
    <3>2. CASE k # j
      <4>1. PICK i \in DOMAIN queue : queue[i] = k
        BY <1>1, <3>2 DEF Push
      <4> QED
        BY <2>1, <4>1
    <3> QED
      BY <3>1, <3>2
  <2> QED
    BY <2>4, <2>5, <2>6
<1>2. ASSUME NEW w \in Workers, Take(w) PROVE QueueHoldsQueued'
  <2>1. /\ Head(queue) = queue[1]
        /\ Head(queue) \in Jobs
        /\ 1 \in DOMAIN queue
    BY <1>2, FirstJob DEF Take
  <2>2. /\ Len(queue) \in Nat \ {0}
        /\ DOMAIN queue = 1 .. Len(queue)
        /\ DOMAIN queue' = 1 .. Len(queue) - 1
        /\ \A i \in DOMAIN queue' : i + 1 \in DOMAIN queue /\ queue'[i] = queue[i + 1]
    BY <1>2, HeadTailProperties, LenProperties, FirstJob DEF Take
  <2>3. \A i, k \in DOMAIN queue' : queue'[i] = queue'[k] => i = k
    <3> SUFFICES ASSUME NEW i \in DOMAIN queue', NEW k \in DOMAIN queue', queue'[i] = queue'[k]
                 PROVE  i = k
      OBVIOUS
    <3>1. i + 1 = k + 1
      BY <2>2
    <3> QED
      BY <2>2, <3>1
  <2>4. \A i \in DOMAIN queue' : place'[queue'[i]] = "queued"
    <3> SUFFICES ASSUME NEW i \in DOMAIN queue' PROVE place'[queue'[i]] = "queued"
      OBVIOUS
    <3>1. queue[i + 1] # queue[1]
      BY <2>1, <2>2
    <3>2. queue[i + 1] \in Jobs /\ place[queue[i + 1]] = "queued"
      BY <2>2
    <3> QED
      BY <1>2, <2>1, <2>2, <3>1, <3>2 DEF Take
  <2>5. \A k \in Jobs : place'[k] = "queued" => \E i \in DOMAIN queue' : queue'[i] = k
    <3> SUFFICES ASSUME NEW k \in Jobs, place'[k] = "queued" PROVE \E i \in DOMAIN queue' : queue'[i] = k
      OBVIOUS
    <3>1. k # queue[1] /\ place[k] = "queued"
      BY <1>2, <2>1 DEF Take
    <3>2. PICK i \in DOMAIN queue : queue[i] = k
      BY <3>1
    <3>3. i # 1 /\ i \in 1 .. Len(queue)
      BY <2>2, <3>1, <3>2
    <3>4. i - 1 \in DOMAIN queue' /\ queue'[i - 1] = queue[(i - 1) + 1] /\ (i - 1) + 1 = i
      BY <2>2, <3>3
    <3> QED
      BY <3>2, <3>4
  <2> QED
    BY <2>3, <2>4, <2>5
<1>3. CASE JoinWorkers
  <2>1. queue' = <<>> /\ \A j \in Jobs : place'[j] # "queued"
    BY <1>3 DEF JoinWorkers
  <2>2. DOMAIN queue' = {}
    BY <2>1
  <2> QED
    BY <2>1, <2>2
<1>4. ASSUME NEW w \in Workers, Finish(w) \/ Send(w) \/ Panic(w) PROVE QueueHoldsQueued'
  <2>1. /\ queue' = queue
        /\ job[w] \in Jobs
        /\ place[job[w]] # "queued"
        /\ \E x \in {"finished", "sent", "panicked"} : place' = [place EXCEPT ![job[w]] = x]
    BY <1>4 DEF Finish, Send, Panic, WorkersHoldRunning
  <2>2. \A j \in Jobs : place'[j] = "queued" <=> place[j] = "queued"
    BY <2>1
  <2>3. \A i \in DOMAIN queue : queue[i] \in Jobs
    OBVIOUS
  <2> QED
    BY <2>1, <2>2, <2>3
<1>5. ASSUME queue' = queue, place' = place PROVE QueueHoldsQueued'
  BY <1>5
<1> QED
  BY <1>1, <1>2, <1>3, <1>4, <1>5
  DEF Next, WorkerLoop, Announce, Join, JoinReturns, Detach, DropTask, Lock, FindEmpty,
      TestShutdown, Park, SpuriousWake, SetShutdown, NotifyAll, vars

\* A worker takes a queued job, which nobody else holds, and lets go of it
\* when it is over.
LEMMA HandsStep ==
  ASSUME TypeOK, QueueHoldsQueued, WorkersHoldRunning, [Next]_vars
  PROVE  WorkersHoldRunning'
<1> USE DEF WorkersHoldRunning, TypeOK
<1>1. ASSUME NEW j \in Jobs, Push(j) PROVE WorkersHoldRunning'
  BY <1>1 DEF Push
<1>2. ASSUME NEW w \in Workers, Take(w) PROVE WorkersHoldRunning'
  <2> DEFINE first == Head(queue)
  <2>1. first \in Jobs /\ place[first] = "queued" /\ first # NoJob
    BY <1>2, FirstJob DEF Take, QueueHoldsQueued
  <2>2. \A v \in Workers : job[v] # first
    BY <2>1
  <2>3. /\ job' = [job EXCEPT ![w] = first]
        /\ place' = [place EXCEPT ![first] = "running"]
        /\ wpc' = [wpc EXCEPT ![w] = "run"]
        /\ job[w] = NoJob
    BY <1>2 DEF Take
  <2> HIDE DEF first
  <2>4. \A v \in Workers : wpc'[v] = "run" => place'[job'[v]] = "running"
    BY <2>1, <2>2, <2>3
  <2>5. \A v \in Workers : wpc'[v] = "send" => place'[job'[v]] = "finished"
    BY <2>1, <2>2, <2>3
  <2>6. \A v, u \in Workers : job'[v] = job'[u] => job'[v] = NoJob \/ v = u
    BY <2>1, <2>2, <2>3
  <2>7. \A j \in Jobs : place'[j] \in {"running", "finished"} => \E v \in Workers : job'[v] = j
    <3> SUFFICES ASSUME NEW j \in Jobs, place'[j] \in {"running", "finished"}
                 PROVE  \E v \in Workers : job'[v] = j
      OBVIOUS
    <3>1. CASE j = first
      BY <2>3, <3>1
    <3>2. CASE j # first
      <4>1. PICK v \in Workers : job[v] = j
        BY <2>1, <2>3, <3>2
      <4>2. v # w
        BY <2>3, <4>1
      <4> QED
        BY <2>3, <4>1, <4>2
    <3> QED
      BY <3>1, <3>2
  <2> QED
    BY <2>4, <2>5, <2>6, <2>7
<1>3. ASSUME NEW w \in Workers, Finish(w) PROVE WorkersHoldRunning'
  <2>1. job[w] \in Jobs /\ \A v \in Workers : v # w => job[v] # job[w]
    BY <1>3 DEF Finish
  <2> QED
    BY <1>3, <2>1 DEF Finish
<1>4. ASSUME NEW w \in Workers, Send(w) \/ Panic(w) PROVE WorkersHoldRunning'
  <2>1. job[w] \in Jobs /\ \A v \in Workers : v # w => job[v] # job[w]
    BY <1>4 DEF Send, Panic
  <2>2. /\ job' = [job EXCEPT ![w] = NoJob]
        /\ \E x \in {"sent", "panicked"} : place' = [place EXCEPT ![job[w]] = x]
        /\ \E x \in {"lock", "dead"} : wpc' = [wpc EXCEPT ![w] = x]
    BY <1>4 DEF Send, Panic
  <2>3. \A j \in Jobs : place'[j] \in {"running", "finished"} => \E v \in Workers : job'[v] = j
    <3> SUFFICES ASSUME NEW j \in Jobs, place'[j] \in {"running", "finished"}
                 PROVE  \E v \in Workers : job'[v] = j
      OBVIOUS
    <3>1. j # job[w] /\ place[j] \in {"running", "finished"}
      BY <2>1, <2>2
    <3>2. PICK v \in Workers : job[v] = j
      BY <3>1
    <3> QED
      BY <2>2, <3>1, <3>2
  <2>4. \A v, u \in Workers : job'[v] = job'[u] => job'[v] = NoJob \/ v = u
    BY <2>2
  <2>5. \A v \in Workers : v # w => job'[v] = job[v] /\ wpc'[v] = wpc[v] /\ place'[job[v]] = place[job[v]]
    BY <2>1, <2>2
  <2>6. wpc'[w] \notin {"run", "send"}
    BY <2>2
  <2> QED
    BY <2>3, <2>4, <2>5, <2>6
<1>5. CASE JoinWorkers
  BY <1>5 DEF JoinWorkers
<1>6. CASE NotifyAll
  BY <1>6 DEF NotifyAll
<1>7. ASSUME NEW w \in Workers, Lock(w) \/ FindEmpty(w) \/ TestShutdown(w) \/ Park(w) \/ SpuriousWake(w)
      PROVE  WorkersHoldRunning'
  BY <1>7 DEF Lock, FindEmpty, TestShutdown, Park, SpuriousWake
<1>8. ASSUME NEW j \in Jobs, Announce(j) PROVE WorkersHoldRunning'
  BY <1>8, WakeOneChanges DEF Announce
<1>9. ASSUME job' = job, place' = place, wpc' = wpc PROVE WorkersHoldRunning'
  BY <1>9
<1> QED
  BY <1>1, <1>2, <1>3, <1>4, <1>5, <1>6, <1>7, <1>8, <1>9
  DEF Next, WorkerLoop, Join, JoinReturns, Detach, DropTask, SetShutdown, vars

\* The two together say where each job is.
LEMMA JobsAreSomewhere ==
  ASSUME TypeOK, QueueHoldsQueued, WorkersHoldRunning
  PROVE  NeitherLostNorDoubled
<1> SUFFICES ASSUME NEW j \in Jobs
             PROVE  /\ place[j] = "queued" => \E i \in DOMAIN queue : Positions(j) = {i}
                    /\ place[j] \in {"running", "finished"} => \E w \in Workers : Holders(j) = {w}
                    /\ place[j] # "queued" => Positions(j) = {}
                    /\ place[j] \notin {"running", "finished"} => Holders(j) = {}
  BY DEF NeitherLostNorDoubled
<1>1. ASSUME place[j] = "queued" PROVE \E i \in DOMAIN queue : Positions(j) = {i}
  <2>1. PICK i \in DOMAIN queue : queue[i] = j
    BY <1>1 DEF QueueHoldsQueued
  <2>2. Positions(j) = {i}
    BY <2>1 DEF Positions, QueueHoldsQueued
  <2> QED
    BY <2>2
<1>2. ASSUME place[j] \in {"running", "finished"} PROVE \E w \in Workers : Holders(j) = {w}
  <2>1. PICK w \in Workers : job[w] = j
    BY <1>2 DEF WorkersHoldRunning
  <2>2. Holders(j) = {w}
    BY <2>1 DEF Holders, WorkersHoldRunning
  <2> QED
    BY <2>2
<1>3. place[j] # "queued" => Positions(j) = {}
  BY DEF Positions, QueueHoldsQueued
<1>4. place[j] \notin {"running", "finished"} => Holders(j) = {}
  BY DEF Holders, WorkersHoldRunning, TypeOK
<1> QED
  BY <1>1, <1>2, <1>3, <1>4

-----------------------------------------------------------------------------
\* The mutex.

\* Only one worker is between the lock and the wait, and nothing is pushed
\* behind its back.
LEMMA MutexStep ==
  ASSUME TypeOK, Mutex, [Next]_vars
  PROVE  Mutex'
<1> USE DEF Mutex, TypeOK, Critical, Locked
<1>1. ASSUME NEW j \in Jobs, Push(j) PROVE Mutex'
  BY <1>1 DEF Push
<1>2. ASSUME NEW j \in Jobs, Announce(j) PROVE Mutex'
  BY <1>2, WakeOneChanges DEF Announce
<1>3. ASSUME NEW w \in Workers, Take(w) PROVE Mutex'
  BY <1>3 DEF Take
<1>4. ASSUME NEW w \in Workers, Lock(w) PROVE Mutex'
  BY <1>4 DEF Lock
<1>5. ASSUME NEW w \in Workers, FindEmpty(w) \/ TestShutdown(w) \/ Park(w) PROVE Mutex'
  BY <1>5 DEF FindEmpty, TestShutdown, Park
<1>6. ASSUME NEW w \in Workers, SpuriousWake(w) \/ Finish(w) \/ Send(w) \/ Panic(w) PROVE Mutex'
  BY <1>6 DEF SpuriousWake, Finish, Send, Panic
<1>7. CASE NotifyAll
  BY <1>7 DEF NotifyAll
<1>8. CASE JoinWorkers
  BY <1>8 DEF JoinWorkers
<1>9. ASSUME queue' = queue, wpc' = wpc PROVE Mutex'
  BY <1>9
<1> QED
  BY <1>1, <1>2, <1>3, <1>4, <1>5, <1>6, <1>7, <1>8, <1>9
  DEF Next, WorkerLoop, Join, JoinReturns, Detach, DropTask, SetShutdown, vars

-----------------------------------------------------------------------------
\* No wake-up is lost.

\* The sets whose sizes are compared are finite.
LEMMA Countable ==
  ASSUME Served
  PROVE  /\ Cardinality(unannounced) \in Nat
         /\ IsFiniteSet(OnTheWay)
         /\ Cardinality(OnTheWay) \in Nat
<1>1. OnTheWay \in SUBSET Workers
  BY DEF OnTheWay
<1>2. IsFiniteSet(OnTheWay)
  BY <1>1, FS_Subset
<1> QED
  BY <1>2, FS_CardinalityType DEF Served

LEMMA CountableNext ==
  ASSUME IsFiniteSet(unannounced')
  PROVE  Cardinality(unannounced') \in Nat /\ Cardinality(OnTheWay') \in Nat
<1>1. OnTheWay' \in SUBSET Workers
  BY DEF OnTheWay
<1>2. IsFiniteSet(OnTheWay')
  BY <1>1, FS_Subset
<1> QED
  BY <1>2, FS_CardinalityType

\* An empty queue is served whoever sleeps.
LEMMA EmptyIsServed ==
  ASSUME IsFiniteSet(unannounced'), queue' = <<>>
  PROVE  QueueIsServed'
<1>1. Len(queue') = 0
  BY EmptySeq
<1> QED
  BY <1>1, CountableNext DEF QueueIsServed

\* The pushes that are still to notify remain those of jobs that were pushed.
LEMMA UnannouncedStep ==
  ASSUME TypeOK, Served, [Next]_vars
  PROVE  IsFiniteSet(unannounced') /\ \A j \in unannounced' : place'[j] # "new"
<1> USE DEF TypeOK, Served
<1>1. ASSUME NEW j \in Jobs, Push(j)
      PROVE  IsFiniteSet(unannounced') /\ \A k \in unannounced' : place'[k] # "new"
  BY <1>1, FS_AddElement DEF Push
<1>2. ASSUME NEW j \in Jobs, Announce(j)
      PROVE  IsFiniteSet(unannounced') /\ \A k \in unannounced' : place'[k] # "new"
  BY <1>2, FS_RemoveElement DEF Announce
<1>3. ASSUME unannounced' = unannounced, \A j \in Jobs : place[j] # "new" => place'[j] # "new"
      PROVE  IsFiniteSet(unannounced') /\ \A k \in unannounced' : place'[k] # "new"
  BY <1>3
<1>4. ASSUME NEW w \in Workers, Take(w) \/ Finish(w) \/ Send(w) \/ Panic(w)
      PROVE  unannounced' = unannounced /\ \A j \in Jobs : place[j] # "new" => place'[j] # "new"
  BY <1>4 DEF Take, Finish, Send, Panic
<1>5. CASE JoinWorkers
  BY <1>3, <1>5 DEF JoinWorkers
<1>6. ASSUME unannounced' = unannounced, place' = place
      PROVE  IsFiniteSet(unannounced') /\ \A k \in unannounced' : place'[k] # "new"
  BY <1>6
<1> QED
  BY <1>1, <1>2, <1>3, <1>4, <1>5, <1>6
  DEF Next, WorkerLoop, Join, JoinReturns, Detach, DropTask, Lock, FindEmpty, TestShutdown,
      Park, SpuriousWake, SetShutdown, NotifyAll, vars

\* The balance of queued jobs, notifies to come and workers on their way is
\* kept by every step.
LEMMA ServedStep ==
  ASSUME TypeOK, Mutex, Served, [Next]_vars
  PROVE  Served'
<1> SUFFICES QueueIsServed'
  BY UnannouncedStep DEF Served
<1> DEFINE pushes == Cardinality(unannounced)
           coming == Cardinality(OnTheWay)
<1>1. /\ IsFiniteSet(unannounced) /\ IsFiniteSet(OnTheWay)
      /\ pushes \in Nat /\ coming \in Nat /\ Len(queue) \in Nat
      /\ Parked # {} => Len(queue) <= pushes + coming
  BY Countable, LenProperties DEF Served, QueueIsServed, TypeOK
<1>2. IsFiniteSet(unannounced')
  BY UnannouncedStep
\* A worker joins those on their way while another thing stays as it is.
<1>3. ASSUME NEW w \in Workers, wpc[w] \notin {"lock", "pop"}, wpc' = [wpc EXCEPT ![w] = "lock"]
      PROVE  Cardinality(OnTheWay') = coming + 1
  <2>1. OnTheWay' = OnTheWay \cup {w} /\ w \notin OnTheWay
    BY <1>3 DEF OnTheWay, TypeOK
  <2> QED
    BY <1>1, <2>1, FS_AddElement
<1> HIDE DEF pushes, coming
<1>4. ASSUME NEW j \in Jobs, Push(j) PROVE QueueIsServed'
  <2>1. Len(queue') = Len(queue) + 1
    BY <1>4, AppendProperties DEF Push, TypeOK
  <2>2. j \notin unannounced /\ unannounced' = unannounced \cup {j}
    BY <1>4 DEF Push, Served
  <2>3. Cardinality(unannounced') = pushes + 1
    BY <1>1, <2>2, FS_AddElement DEF pushes
  <2>4. Parked' = Parked /\ Cardinality(OnTheWay') = coming
    BY <1>4 DEF Push, Parked, OnTheWay, coming
  <2> QED
    BY <1>1, <2>1, <2>3, <2>4 DEF QueueIsServed
<1>5. ASSUME NEW j \in Jobs, Announce(j) PROVE QueueIsServed'
  <2>1. CASE Parked = {} /\ wpc' = wpc
    BY <2>1 DEF Parked, QueueIsServed
  <2>2. ASSUME NEW w \in Workers, wpc[w] = "parked", wpc' = [wpc EXCEPT ![w] = "lock"]
        PROVE  QueueIsServed'
    <3>1. Cardinality(unannounced') = pushes - 1
      BY <1>1, <1>5, FS_RemoveElement DEF Announce, pushes
    <3>2. Cardinality(OnTheWay') = coming + 1
      BY <1>3, <2>2
    <3>3. Parked # {} /\ Len(queue') = Len(queue)
      BY <1>5, <2>2 DEF Announce, Parked
    <3> QED
      BY <1>1, <3>1, <3>2, <3>3 DEF QueueIsServed
  <2> QED
    BY <1>5, <2>1, <2>2, WakeOneChanges DEF Announce
<1>6. ASSUME NEW w \in Workers, Take(w) PROVE QueueIsServed'
  <2>1. Len(queue') = Len(queue) - 1
    BY <1>6, HeadTailProperties DEF Take, TypeOK
  <2>2. OnTheWay' = OnTheWay \ {w} /\ w \in OnTheWay /\ Parked' = Parked
    BY <1>6 DEF Take, OnTheWay, Parked, TypeOK
  <2>3. Cardinality(OnTheWay') = coming - 1
    BY <1>1, <2>2, FS_RemoveElement DEF coming
  <2>4. Cardinality(unannounced') = pushes
    BY <1>6 DEF Take, pushes
  <2> QED
    BY <1>1, <2>1, <2>2, <2>3, <2>4 DEF QueueIsServed
<1>7. ASSUME NEW w \in Workers, SpuriousWake(w) \/ Send(w) PROVE QueueIsServed'
  <2>1. Cardinality(OnTheWay') = coming + 1
    BY <1>3, <1>7 DEF SpuriousWake, Send
  <2>2. Cardinality(unannounced') = pushes /\ Len(queue') = Len(queue)
    BY <1>7 DEF SpuriousWake, Send, pushes
  <2>3. Parked' # {} => Parked # {}
    BY <1>7 DEF SpuriousWake, Send, Parked, TypeOK
  <2> QED
    BY <1>1, <2>1, <2>2, <2>3 DEF QueueIsServed
<1>8. ASSUME NEW w \in Workers, FindEmpty(w) \/ TestShutdown(w) \/ Park(w) PROVE QueueIsServed'
  <2>1. queue' = <<>>
    BY <1>8 DEF FindEmpty, TestShutdown, Park, Mutex
  <2> QED
    BY <1>2, <2>1, EmptyIsServed
<1>9. ASSUME NEW w \in Workers, Lock(w) \/ Finish(w) \/ Panic(w) PROVE QueueIsServed'
  <2>1. OnTheWay' = OnTheWay /\ Parked' = Parked
    BY <1>9 DEF Lock, Finish, Panic, OnTheWay, Parked, TypeOK
  <2>2. unannounced' = unannounced /\ queue' = queue
    BY <1>9 DEF Lock, Finish, Panic
  <2> QED
    BY <2>1, <2>2 DEF QueueIsServed, Served
<1>10. CASE NotifyAll
  <2>1. Parked' = {}
    BY <1>10 DEF NotifyAll, Parked, TypeOK
  <2> QED
    BY <2>1 DEF QueueIsServed
<1>11. CASE JoinWorkers
  BY <1>2, <1>11, EmptyIsServed DEF JoinWorkers
<1>12. ASSUME wpc' = wpc, queue' = queue, unannounced' = unannounced PROVE QueueIsServed'
  BY <1>12 DEF QueueIsServed, Served, Parked, OnTheWay
<1> QED
  BY <1>4, <1>5, <1>6, <1>7, <1>8, <1>9, <1>10, <1>11, <1>12
  DEF Next, WorkerLoop, Join, JoinReturns, Detach, DropTask, SetShutdown, vars

-----------------------------------------------------------------------------
\* The shutdown.

\* Storing the flag under the mutex leaves no worker between test and wait.
LEMMA ClosingStep ==
  ASSUME TypeOK, Closing, [Next]_vars
  PROVE  Closing'
<1> USE DEF TypeOK, Closing, Shutdown
<1>1. ASSUME NEW j \in Jobs, Push(j) PROVE Closing'
  BY <1>1 DEF Push
<1>2. ASSUME NEW j \in Jobs, Announce(j) PROVE Closing'
  BY <1>2, WakeOneChanges DEF Announce
<1>3. ASSUME NEW w \in Workers, Lock(w) \/ Take(w) \/ FindEmpty(w) \/ Finish(w) \/ Send(w) \/ Panic(w)
      PROVE  Closing'
  BY <1>3 DEF Lock, Take, FindEmpty, Finish, Send, Panic
<1>4. ASSUME NEW w \in Workers, TestShutdown(w) PROVE Closing'
  BY <1>4 DEF TestShutdown
<1>5. ASSUME NEW w \in Workers, Park(w) PROVE Closing'
  BY <1>5 DEF Park, OwnerStates
<1>6. ASSUME NEW w \in Workers, SpuriousWake(w) PROVE Closing'
  BY <1>6 DEF SpuriousWake
<1>7. CASE SetShutdown
  BY <1>7 DEF SetShutdown, Locked, Critical
<1>8. CASE NotifyAll
  BY <1>8 DEF NotifyAll
<1>9. CASE JoinWorkers
  BY <1>9 DEF JoinWorkers
<1>10. ASSUME wpc' = wpc, owner' = owner, unannounced' = unannounced PROVE Closing'
  BY <1>10
<1> QED
  BY <1>1, <1>2, <1>3, <1>4, <1>5, <1>6, <1>7, <1>8, <1>9, <1>10
  DEF Next, WorkerLoop, Join, JoinReturns, Detach, DropTask, vars

\* A dead worker stays dead.
LEMMA DeadForGood ==
  ASSUME TypeOK, [Next]_vars, AllDead
  PROVE  AllDead'
<1> USE DEF TypeOK, AllDead
<1>1. ASSUME NEW j \in Jobs, Announce(j) PROVE AllDead'
  BY <1>1, WakeOneChanges DEF Announce
<1>2. CASE NotifyAll
  BY <1>2 DEF NotifyAll
<1> QED
  BY <1>1, <1>2
  DEF Next, WorkerLoop, Push, Join, JoinReturns, Detach, DropTask, Lock, Take, FindEmpty,
      TestShutdown, Park, SpuriousWake, Finish, Send, Panic, SetShutdown, JoinWorkers, vars

\* A worker leaves only an empty queue behind, to which nobody adds.
LEMMA DrainsStep ==
  ASSUME TypeOK, QueueHoldsQueued, WorkersHoldRunning, Mutex, Closing, DropDrains, [Next]_vars
  PROVE  DropDrains'
<1> USE DEF TypeOK
<1>1. (\E w \in Workers : wpc'[w] = "gone") => queue' = <<>>
  <2> SUFFICES ASSUME NEW w \in Workers, wpc'[w] = "gone" PROVE queue' = <<>>
    OBVIOUS
  <2>1. CASE wpc[w] = "gone"
    <3>1. queue = <<>> /\ owner # "live"
      BY <2>1 DEF DropDrains, Closing, Shutdown
    <3> QED
      BY <3>1
      DEF Next, WorkerLoop, Push, Announce, Join, JoinReturns, Detach, DropTask, Lock, Take,
          FindEmpty, TestShutdown, Park, SpuriousWake, Finish, Send, Panic, SetShutdown,
          NotifyAll, JoinWorkers, vars
  <2>2. CASE wpc[w] # "gone"
    <3>1. ASSUME NEW j \in Jobs, Announce(j) PROVE wpc'[w] # "gone"
      BY <2>2, <3>1, WakeOneChanges DEF Announce
    <3>2. ASSUME NotifyAll PROVE wpc'[w] # "gone"
      BY <2>2, <3>2 DEF NotifyAll
    <3>3. ASSUME NEW v \in Workers,
                 \/ Lock(v) \/ Take(v) \/ FindEmpty(v) \/ Park(v)
                 \/ Finish(v) \/ Send(v) \/ Panic(v) \/ SpuriousWake(v)
          PROVE  wpc'[w] # "gone"
      BY <2>2, <3>3 DEF Lock, Take, FindEmpty, Park, Finish, Send, Panic, SpuriousWake
    <3>4. wpc' # wpc
      BY <2>2
    <3>5. \/ \E j \in Jobs : Announce(j)
          \/ NotifyAll
          \/ \E v \in Workers : WorkerLoop(v) \/ SpuriousWake(v)
      BY <3>4
      DEF Next, Push, Join, JoinReturns, Detach, DropTask, SetShutdown, JoinWorkers, vars
    <3>6. PICK v \in Workers : WorkerLoop(v) \/ SpuriousWake(v)
      BY <3>1, <3>2, <3>5
    <3>7. TestShutdown(v)
      BY <3>3, <3>6 DEF WorkerLoop
    <3> QED
      BY <2>2, <3>7 DEF TestShutdown, Mutex
  <2> QED
    BY <2>1, <2>2
<1>2. ASSUME NEW j \in Jobs, place'[j] = "discarded" PROVE AllDead'
  <2>1. CASE place[j] = "discarded"
    BY <2>1, DeadForGood DEF DropDrains
  <2>2. CASE place[j] # "discarded"
    <3>1. JoinWorkers /\ place[j] = "queued"
      BY <1>2, <2>2
      DEF Next, WorkerLoop, Push, Announce, Join, JoinReturns, Detach, DropTask, Lock, Take,
          FindEmpty, TestShutdown, Park, SpuriousWake, Finish, Send, Panic, SetShutdown,
          NotifyAll, JoinWorkers, vars
    <3>2. queue # <<>>
      <4>1. PICK i \in DOMAIN queue : queue[i] = j
        BY <3>1 DEF QueueHoldsQueued
      <4> QED
        BY <4>1
    <3> QED
      BY <3>1, <3>2 DEF JoinWorkers, DropDrains, AllDead
  <2> QED
    BY <2>1, <2>2
<1> QED
  BY <1>1, <1>2 DEF DropDrains

\* A job that is over stays as it is.
LEMMA OverForGood ==
  ASSUME TypeOK, QueueHoldsQueued, WorkersHoldRunning, [Next]_vars,
         NEW j \in Jobs, place[j] \in {"sent", "panicked", "discarded"}
  PROVE  place'[j] = place[j]
<1> USE DEF TypeOK
<1>1. ASSUME NEW w \in Workers, Take(w) PROVE place'[j] = place[j]
  <2>1. Head(queue) # j
    BY <1>1, FirstJob DEF Take, QueueHoldsQueued
  <2> QED
    BY <1>1, <2>1, FirstJob DEF Take
<1>2. ASSUME NEW w \in Workers, Finish(w) \/ Send(w) \/ Panic(w) PROVE place'[j] = place[j]
  <2>1. job[w] # j
    BY <1>2 DEF Finish, Send, Panic, WorkersHoldRunning
  <2> QED
    BY <1>2, <2>1 DEF Finish, Send, Panic
<1>3. ASSUME NEW k \in Jobs, Push(k) PROVE place'[j] = place[j]
  BY <1>3 DEF Push
<1>4. CASE JoinWorkers
  BY <1>4 DEF JoinWorkers
<1> QED
  BY <1>1, <1>2, <1>3, <1>4
  DEF Next, WorkerLoop, Announce, Join, JoinReturns, Detach, DropTask, Lock, FindEmpty,
      TestShutdown, Park, SpuriousWake, SetShutdown, NotifyAll, vars

\* What a join has said was true and stays true.
LEMMA TellsStep ==
  ASSUME TypeOK, QueueHoldsQueued, WorkersHoldRunning, DropDrains, JoinTellsTheTruth, [Next]_vars
  PROVE  JoinTellsTheTruth'
<1> SUFFICES ASSUME NEW j \in Jobs
             PROVE  /\ handle'[j] = "some" => place'[j] = "sent"
                    /\ handle'[j] = "nothing" => place'[j] = "panicked" \/ AllDead'
  BY DEF JoinTellsTheTruth
<1>1. CASE handle'[j] = handle[j]
  BY <1>1, OverForGood, DeadForGood DEF JoinTellsTheTruth
<1>2. CASE handle'[j] # handle[j]
  <2>1. CASE JoinReturns(j)
    BY <2>1, DeadForGood DEF JoinReturns, TypeOK, DropDrains
  <2>2. ASSUME NEW k \in Jobs, k # j, JoinReturns(k) PROVE FALSE
    BY <1>2, <2>2 DEF JoinReturns, TypeOK
  <2>3. ASSUME NEW k \in Jobs, Announce(k) \/ Join(k) \/ Detach(k) \/ DropTask(k)
        PROVE  handle'[j] \in {"held", "joining", "detached", "dropped"}
    BY <1>2, <2>3 DEF Announce, Join, Detach, DropTask, TypeOK
  <2> QED
    BY <1>2, <2>1, <2>2, <2>3
    DEF Next, WorkerLoop, Push, Lock, Take, FindEmpty, TestShutdown, Park, SpuriousWake,
        Finish, Send, Panic, SetShutdown, NotifyAll, JoinWorkers, vars
<1> QED
  BY <1>1, <1>2

-----------------------------------------------------------------------------
\* The theorems.

LEMMA InitIInv ==
  Init => IInv
<1> SUFFICES ASSUME Init PROVE IInv
  OBVIOUS
<1>1. TypeOK
  BY TypeInit
<1>2. DOMAIN queue = {} /\ \A j \in Jobs : place[j] = "new" /\ handle[j] = "none"
  BY DEF Init
<1>3. owner = "live" /\ \A w \in Workers : wpc[w] = "lock" /\ job[w] = NoJob
  BY DEF Init
<1>4. QueueHoldsQueued
  BY <1>2 DEF QueueHoldsQueued
<1>5. WorkersHoldRunning
  BY <1>2, <1>3 DEF WorkersHoldRunning
<1>6. Mutex
  BY <1>3 DEF Mutex, Critical
<1>7. Served
  BY <1>3, FS_EmptySet DEF Init, Served, QueueIsServed, Parked
<1>8. Closing
  BY <1>3 DEF Closing, Shutdown
<1>9. DropDrains /\ JoinTellsTheTruth
  BY <1>2, <1>3 DEF DropDrains, JoinTellsTheTruth
<1> QED
  BY <1>1, <1>4, <1>5, <1>6, <1>7, <1>8, <1>9 DEF IInv

LEMMA NextIInv ==
  ASSUME IInv, [Next]_vars
  PROVE  IInv'
BY TypeStep, QueueStep, HandsStep, MutexStep, ServedStep, ClosingStep, DrainsStep, TellsStep
DEF IInv

LEMMA Invariance ==
  Spec => []IInv
BY InitIInv, NextIInv, PTL DEF Spec

\* Every variable of the pool has its type, and a worker holds a job just
\* while it runs one or sends its result.
THEOREM PoolTypes ==
  Spec => []TypeOK
<1>1. IInv => TypeOK
  BY DEF IInv
<1> QED
  BY <1>1, Invariance, PTL

\* Whatever the threads do, each job that `spawn` accepted and that is not
\* over is in the queue once or with one worker.
THEOREM NoJobIsLost ==
  Spec => []NeitherLostNorDoubled
<1>1. IInv => NeitherLostNorDoubled
  BY JobsAreSomewhere DEF IInv
<1> QED
  BY <1>1, Invariance, PTL

\* `push` may notify after it released the mutex: no wake-up is lost.
THEOREM NoWakeupIsLost ==
  Spec => []QueueIsServed
<1>1. IInv => QueueIsServed
  BY DEF IInv, Served
<1> QED
  BY <1>1, Invariance, PTL

\* The argument in the comment of `drop`: a flag stored under the mutex and
\* one notify_all reach every worker.
THEOREM ShutdownReachesAll ==
  Spec => []ShutdownReaches
<1>1. IInv => ShutdownReaches
  BY DEF IInv, Closing, Shutdown, ShutdownReaches
<1> QED
  BY <1>1, Invariance, PTL

\* Dropping the executor runs what was queued, unless panics left no worker.
THEOREM DropRunsTheQueue ==
  Spec => []DropDrains
<1>1. IInv => DropDrains
  BY DEF IInv
<1> QED
  BY <1>1, Invariance, PTL

\* `join` gives None only for a job that panicked or that nobody was left
\* to run.
THEOREM JoinIsTruthful ==
  Spec => []JoinTellsTheTruth
<1>1. IInv => JoinTellsTheTruth
  BY DEF IInv
<1> QED
  BY <1>1, Invariance, PTL

=============================================================================
