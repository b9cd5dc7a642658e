-------------------------- MODULE ThreadPoolProofs --------------------------
(***************************************************************************)
(* Proofs about ThreadPool, for any number of threads, producers, tasks and *)
(* starts and any bound of the queue: the type invariant, the bound of the  *)
(* queue, that nobody sleeps on work or on room, and that nobody sleeps     *)
(* when Stop joins.                                                         *)
(***************************************************************************)
EXTENDS ThreadPool, SequenceTheorems, FiniteSetTheorems, TLAPS

-----------------------------------------------------------------------------
(* Counting the threads at a location *)

\* The threads on their way to the mutex.
LockingWorkers   == {w \in Workers : worker[w] = "lock"}
LockingProducers == {p \in Producers : producer[p] = "lock"}

\* There are finitely many threads: those of the pool and those that call Run.
LEMMA FiniteThreads ==
    /\ IsFiniteSet(LockingWorkers) /\ Cardinality(LockingWorkers) \in Nat
    /\ IsFiniteSet(LockingProducers) /\ Cardinality(LockingProducers) \in Nat
<1>1. NumThreads * MaxStarts \in Nat
  BY CountAssumption
<1>2. IsFiniteSet(Workers)
  BY <1>1, FS_Interval DEF Workers
<1>3. LockingWorkers \in SUBSET Workers /\ LockingProducers \in SUBSET Producers
  BY DEF LockingWorkers, LockingProducers
<1> QED BY <1>2, <1>3, FS_Subset, FS_CardinalityType, CountAssumption

\* A thread that comes for the mutex is one more of those that do.
LEMMA OneMore ==
    ASSUME NEW S, NEW x, x \notin S, IsFiniteSet(S)
    PROVE  Cardinality(S \cup {x}) = Cardinality(S) + 1
BY FS_AddElement

\* A thread that goes elsewhere is one less.
LEMMA OneLess ==
    ASSUME NEW S, NEW x \in S, IsFiniteSet(S)
    PROVE  Cardinality(S \ {x}) = Cardinality(S) - 1
BY FS_RemoveElement

-----------------------------------------------------------------------------
(* Type correctness *)

\* The thread vectors of all calls of Start fit their bound: each call appends
\* NumThreads threads, those it has still to append included.
ThreadsFit ==
    threads + (IF owner = "starting" THEN NumThreads + 1 - index ELSE 0)
        <= NumThreads * starts

\* The owner's loop variable: from 1, in Start to at most NumThreads + 1.
IndexInLoop ==
    /\ index >= 1
    /\ owner = "starting" => index <= NumThreads + 1 /\ starts >= 1
    /\ owner = "joining" => index <= threads

\* A producer in Run holds the task it was called with.
ArgumentHeld == \A p \in Producers : producer[p] # "idle" => argument[p] \in Tasks

TypeInv == TypeOK /\ ThreadsFit /\ IndexInLoop /\ ArgumentHeld

\* Products of naturals, for the bound of threads_.
LEMMA Products ==
    /\ NumThreads * MaxStarts \in Nat
    /\ \A n \in 0 .. MaxStarts : /\ NumThreads * n \in Nat
                                 /\ NumThreads * n <= NumThreads * MaxStarts
                                 /\ NumThreads * (n + 1) = NumThreads * n + NumThreads
                                 /\ n >= 1 => NumThreads <= NumThreads * n
<1>1. ASSUME NEW a \in Nat, NEW n \in Nat, NEW m \in Nat, n <= m PROVE a * n <= a * m
  <2>1. PICK d \in Nat : m = n + d
    <3>1. m - n \in Nat /\ m = n + (m - n)
      BY <1>1
    <3> QED BY <3>1
  <2>2. a * m = a * n + a * d /\ a * d \in Nat /\ a * n \in Nat
    BY <2>1
  <2> QED BY <2>2
<1>2. ASSUME NEW n \in 0 .. MaxStarts
      PROVE  /\ NumThreads * n \in Nat
             /\ NumThreads * n <= NumThreads * MaxStarts
             /\ NumThreads * (n + 1) = NumThreads * n + NumThreads
             /\ n >= 1 => NumThreads <= NumThreads * n
  <2>1. n \in Nat /\ n <= MaxStarts
    BY CountAssumption
  <2>2. NumThreads * n <= NumThreads * MaxStarts
    BY <1>1, <2>1, CountAssumption
  <2>3. n >= 1 => NumThreads * 1 <= NumThreads * n
    BY <1>1, <2>1, CountAssumption
  <2>4. NumThreads * n \in Nat /\ NumThreads * (n + 1) = NumThreads * n + NumThreads
    BY <2>1, CountAssumption
  <2> QED BY <2>2, <2>3, <2>4, CountAssumption
<1> QED BY <1>2, CountAssumption

\* The typing invariant is inductive: in particular threads_ never holds more
\* than the threads of all calls of Start, and Run queues nothing but its argument.
LEMMA TypeInvariant == Spec => []TypeInv
<1>1. Init => TypeInv
  <2> SUFFICES ASSUME Init PROVE TypeInv
    OBVIOUS
  <2>1. <<>> \in Seq(Entries)
    OBVIOUS
  <2>2. NumThreads * 0 = 0 /\ 0 \in 0 .. MaxStarts /\ 0 \in 0 .. NumThreads * MaxStarts
    BY CountAssumption, Products
  <2>3. TypeOK
    BY <2>1, <2>2 DEF Init, TypeOK
  <2>4. ThreadsFit /\ IndexInLoop /\ ArgumentHeld
    BY <2>2 DEF Init, ThreadsFit, IndexInLoop, ArgumentHeld
  <2> QED BY <2>3, <2>4 DEF TypeInv
<1>2. TypeInv /\ [Next]_vars => TypeInv'
  <2> SUFFICES ASSUME TypeInv, [Next]_vars PROVE TypeInv'
    OBVIOUS
  <2> USE DEF TypeInv, TypeOK, ThreadsFit, IndexInLoop, ArgumentHeld, ownerVars,
              workerVars, producerVars
  <2>0. NumThreads \in Nat /\ MaxStarts \in Nat /\ NumThreads * MaxStarts \in Nat
    BY CountAssumption, Products
  <2>1. CASE Start
    <3>1. NumThreads * (starts + 1) = NumThreads * starts + NumThreads
          /\ NumThreads * starts \in Nat
      BY Products
    <3>2. threads <= NumThreads * starts
      BY <2>1, <3>1 DEF Start
    <3> QED BY <2>0, <2>1, <3>1, <3>2 DEF Start
  <2>2. CASE StartThread
    <3>1. NumThreads * starts <= NumThreads * MaxStarts /\ NumThreads <= NumThreads * starts
          /\ NumThreads * starts \in Nat
      BY <2>2, Products DEF StartThread
    <3>2. index \in Workers
      BY <2>0, <2>2, <3>1 DEF StartThread, Workers
    <3>3. threads + 1 \in 0 .. NumThreads * MaxStarts
      BY <2>0, <2>2, <3>1 DEF StartThread
    <3>4. worker' \in [Workers -> {"none", "test", "lock", "wait", "blocked", "run", "exit"}]
      BY <2>2, <3>2 DEF StartThread
    <3>5. ThreadsFit' /\ IndexInLoop'
      BY <2>0, <2>2, <3>1 DEF StartThread
    <3> QED BY <2>0, <2>2, <3>2, <3>3, <3>4, <3>5 DEF StartThread
  <2>3. CASE EndStart
    <3>1. index = NumThreads + 1 /\ NumThreads * starts \in Nat
      BY <2>0, <2>3, Products DEF EndStart
    <3> QED BY <2>0, <2>3, <3>1 DEF EndStart
  <2>4. CASE Stop
    BY <2>0, <2>4 DEF Stop
  <2>5. CASE NotifyAll
    BY <2>0, <2>5 DEF NotifyAll
  <2>6. CASE Join
    <3>1. index \in Workers
      BY <2>0, <2>6 DEF Join, Workers
    <3> QED BY <2>0, <2>6, <3>1 DEF Join
  <2>7. CASE Joined
    BY <2>0, <2>7 DEF Joined
  <2>8. CASE EndStop
    BY <2>0, <2>8 DEF EndStop
  <2>9. ASSUME NEW p \in Producers, NEW t \in Tasks, RunInline(p, t) PROVE TypeInv'
    BY <2>9 DEF RunInline
  <2>10. ASSUME NEW p \in Producers, NEW t \in Tasks, Run(p, t) PROVE TypeInv'
    BY <2>10 DEF Run
  <2>11. ASSUME NEW p \in Producers, WaitNotFull(p) PROVE TypeInv'
    BY <2>11 DEF WaitNotFull
  <2>12. ASSUME NEW p \in Producers, Push(p) PROVE TypeInv'
    <3>1. [context |-> p, task |-> argument[p]] \in Entries
      BY <2>12 DEF Push, Entries
    <3>2. queue' \in Seq(Entries)
      BY <2>12, <3>1 DEF Push
    <3>3. worker' \in [Workers -> {"none", "test", "lock", "wait", "blocked", "run", "exit"}]
      BY <2>12 DEF Push, Notified, WaitingWorkers
    <3> QED BY <2>12, <3>2, <3>3 DEF Push
  <2>13. ASSUME NEW w \in Workers, TestRunning(w) PROVE TypeInv'
    BY <2>13 DEF TestRunning
  <2>14. ASSUME NEW w \in Workers, DecideToWait(w) PROVE TypeInv'
    BY <2>14 DEF DecideToWait
  <2>15. ASSUME NEW w \in Workers, WaitNotEmpty(w) PROVE TypeInv'
    BY <2>15 DEF WaitNotEmpty
  <2>16. ASSUME NEW w \in Workers, TakeNothing(w) PROVE TypeInv'
    BY <2>16 DEF TakeNothing
  <2>17. ASSUME NEW w \in Workers, Take(w) PROVE TypeInv'
    <3>1. Head(queue) \in Entries /\ Tail(queue) \in Seq(Entries)
      BY <2>17 DEF Take
    <3>2. Head(queue).task \in Tasks
      BY <3>1 DEF Entries
    <3> DEFINE Waiting == IF MaxQueueSize > 0 THEN WaitingProducers ELSE {}
    <3>3. Waiting \in SUBSET Producers /\ producer' \in Notified(producer, Waiting)
      BY <2>17 DEF Take, WaitingProducers
    <3>4. \A p \in Waiting : producer[p] = "blocked"
      BY DEF WaitingProducers
    <3> HIDE DEF Waiting
    <3>5. /\ producer' \in [Producers -> {"idle", "lock", "blocked"}]
          /\ producer' = producer \/ \E x \in Waiting : producer' = [producer EXCEPT ![x] = "lock"]
      BY <3>3 DEF Notified
    <3>6. ArgumentHeld'
      BY <2>17, <3>3, <3>4, <3>5 DEF Take
    <3> QED BY <2>17, <3>1, <3>2, <3>5, <3>6 DEF Take
  <2>18. ASSUME NEW w \in Workers, EndTask(w) PROVE TypeInv'
    BY <2>18 DEF EndTask
  <2>19. CASE SpuriousWakeup
    BY <2>19 DEF SpuriousWakeup, WaitingWorkers, WaitingProducers
  <2>20. CASE UNCHANGED vars
    BY <2>20 DEF vars
  <2> QED
    BY <2>1, <2>2, <2>3, <2>4, <2>5, <2>6, <2>7, <2>8, <2>9, <2>10, <2>11, <2>12, <2>13,
       <2>14, <2>15, <2>16, <2>17, <2>18, <2>19, <2>20
    DEF Next, OwnerStep, ProducerStep, WorkerStep
<1> QED BY <1>1, <1>2, PTL DEF Spec

\* Every variable keeps its type: Start, Stop, Run and Take put nothing into the
\* pool's state but known threads, locations and entries.
THEOREM TypeCorrect == Spec => []TypeOK
BY TypeInvariant, PTL DEF TypeInv

-----------------------------------------------------------------------------
(* The queue *)

\* The queue never grows past max_queue_size_: Run looks for room under the
\* mutex, again after every wait.
THEOREM QueueStaysBounded == Spec => []QueueBounded
<1>1. Init => QueueBounded
  BY CountAssumption DEF Init, QueueBounded
<1>2. TypeInv /\ QueueBounded /\ [Next]_vars => QueueBounded'
  <2> SUFFICES ASSUME TypeInv, QueueBounded, [Next]_vars PROVE QueueBounded'
    OBVIOUS
  <2>0. queue \in Seq(Entries) /\ MaxQueueSize \in Nat
    BY CountAssumption DEF TypeInv, TypeOK
  <2>1. ASSUME NEW p \in Producers, Push(p) PROVE QueueBounded'
    <3>1. Len(queue') = Len(queue) + 1
      BY <2>0, <2>1, AppendProperties DEF Push
    <3>2. ~ IsFull
      BY <2>1 DEF Push
    <3> QED BY <2>0, <3>1, <3>2 DEF IsFull, QueueBounded
  <2>2. ASSUME NEW w \in Workers, Take(w) PROVE QueueBounded'
    <3>1. Len(queue') = Len(queue) - 1
      BY <2>0, <2>2, HeadTailProperties DEF Take
    <3> QED BY <2>0, <3>1 DEF QueueBounded
  <2>3. CASE UNCHANGED queue
    BY <2>3 DEF QueueBounded
  <2> QED
    BY <2>1, <2>2, <2>3
    DEF Next, OwnerStep, ProducerStep, WorkerStep, vars, Start, StartThread, EndStart, Stop,
        NotifyAll, Join, Joined, EndStop, RunInline, Run, WaitNotFull, TestRunning,
        DecideToWait, WaitNotEmpty, TakeNothing, EndTask, SpuriousWakeup
<1> QED BY <1>1, <1>2, TypeInvariant, PTL DEF Spec

-----------------------------------------------------------------------------
(* Nobody sleeps when Stop joins, and no worker sleeps on work *)

\* A worker that has read running_ and is about to wait holds the mutex, and
\* has seen the queue empty under it.
WaiterHolds == \A w \in Workers : worker[w] = "wait" => mutex = w /\ queue = <<>>

\* From the moment Stop clears running_ until it returns the pool is stopped.
StoppingStopped == owner \in {"notify", "join", "joining"} => ~running

\* A thread that was not started runs no code.
UnstartedIdle == \A w \in Workers : w \notin started => worker[w] = "none"

StopInv == WaiterHolds /\ StoppingStopped /\ UnstartedIdle /\ NoSleeperAtJoin

\* The mutex is Free or a worker's: the two are told apart.
LEMMA FreeIsNobody == \A w \in Workers : w # Free
BY FreeAssumption DEF Workers

\* StopInv is inductive.  NotifyAll needs the mutex, which a worker about to wait
\* holds: it finds every worker asleep or before its next look at running_.
LEMMA StopInvariant == Spec => []StopInv
<1>1. Init => StopInv
  BY DEF Init, StopInv, WaiterHolds, StoppingStopped, UnstartedIdle, NoSleeperAtJoin
<1>2. TypeInv /\ StopInv /\ [Next]_vars => StopInv'
  <2> SUFFICES ASSUME TypeInv, StopInv, [Next]_vars PROVE StopInv'
    OBVIOUS
  <2>0. /\ queue \in Seq(Entries)
        /\ worker \in [Workers -> {"none", "test", "lock", "wait", "blocked", "run", "exit"}]
    BY DEF TypeInv, TypeOK
  <2> USE DEF StopInv, WaiterHolds, StoppingStopped, UnstartedIdle, NoSleeperAtJoin,
              ownerVars, workerVars, producerVars
  <2>1. CASE Start
    BY <2>0, <2>1 DEF Start
  <2>2. CASE StartThread
    <3>1. worker' = worker \/ (index \notin started /\ worker' = [worker EXCEPT ![index] = "test"])
      BY <2>2 DEF StartThread
    <3> QED BY <2>0, <2>2, <3>1 DEF StartThread
  <2>3. CASE EndStart
    BY <2>0, <2>3 DEF EndStart
  <2>4. CASE Stop
    BY <2>0, <2>4 DEF Stop
  <2>5. CASE NotifyAll
    <3>1. \A w \in Workers : worker[w] # "wait"
      BY <2>5, FreeIsNobody DEF NotifyAll
    <3>2. \A w \in Workers : worker'[w] = IF worker[w] = "blocked" THEN "lock" ELSE worker[w]
      BY <2>5 DEF NotifyAll
    <3> QED BY <2>0, <2>5, <3>1, <3>2 DEF NotifyAll
  <2>6. CASE Join
    BY <2>0, <2>6 DEF Join
  <2>7. CASE Joined
    BY <2>0, <2>7 DEF Joined
  <2>8. CASE EndStop
    BY <2>0, <2>8 DEF EndStop
  <2>9. ASSUME NEW p \in Producers, NEW t \in Tasks, RunInline(p, t) \/ Run(p, t) PROVE StopInv'
    BY <2>0, <2>9 DEF RunInline, Run
  <2>10. ASSUME NEW p \in Producers, WaitNotFull(p) PROVE StopInv'
    BY <2>0, <2>10 DEF WaitNotFull
  <2>11. ASSUME NEW p \in Producers, Push(p) PROVE StopInv'
    <3>1. \A w \in Workers : worker[w] # "wait"
      BY <2>11, FreeIsNobody DEF Push
    <3>2. worker' = worker \/ \E x \in WaitingWorkers : worker' = [worker EXCEPT ![x] = "lock"]
      BY <2>11 DEF Push, Notified
    <3>3. \A w \in Workers : worker'[w] = worker[w] \/ (worker[w] = "blocked" /\ worker'[w] = "lock")
      BY <2>0, <3>2 DEF WaitingWorkers
    <3> QED BY <2>11, <3>1, <3>3 DEF Push
  <2>12. ASSUME NEW w \in Workers, TestRunning(w) PROVE StopInv'
    BY <2>0, <2>12 DEF TestRunning
  <2>13. ASSUME NEW w \in Workers, DecideToWait(w) PROVE StopInv'
    <3>1. \A v \in Workers : worker[v] # "wait"
      BY <2>13, FreeIsNobody DEF DecideToWait
    <3> QED BY <2>0, <2>13, <3>1 DEF DecideToWait
  <2>14. ASSUME NEW w \in Workers, WaitNotEmpty(w) PROVE StopInv'
    <3>1. \A v \in Workers : worker[v] = "wait" => v = w
      BY <2>14 DEF WaitNotEmpty
    <3> QED BY <2>0, <2>14, <3>1 DEF WaitNotEmpty
  <2>15. ASSUME NEW w \in Workers, TakeNothing(w) PROVE StopInv'
    BY <2>0, <2>15 DEF TakeNothing
  <2>16. ASSUME NEW w \in Workers, Take(w) PROVE StopInv'
    <3>1. \A v \in Workers : worker[v] # "wait"
      BY <2>16, FreeIsNobody DEF Take
    <3> QED BY <2>0, <2>16, <3>1 DEF Take
  <2>17. ASSUME NEW w \in Workers, EndTask(w) PROVE StopInv'
    BY <2>0, <2>17 DEF EndTask
  <2>18. CASE SpuriousWakeup
    <3>1. \A w \in Workers : worker'[w] = worker[w] \/ (worker[w] = "blocked" /\ worker'[w] = "lock")
      BY <2>0, <2>18 DEF SpuriousWakeup, WaitingWorkers
    <3> QED BY <2>18, <3>1 DEF SpuriousWakeup
  <2>19. CASE UNCHANGED vars
    BY <2>19 DEF vars
  <2> QED
    BY <2>1, <2>2, <2>3, <2>4, <2>5, <2>6, <2>7, <2>8, <2>9, <2>10, <2>11, <2>12, <2>13,
       <2>14, <2>15, <2>16, <2>17, <2>18, <2>19
    DEF Next, OwnerStep, ProducerStep, WorkerStep
<1> QED BY <1>1, <1>2, TypeInvariant, PTL DEF Spec

\* When Stop joins no worker sleeps or will sleep, although running_ is cleared
\* without the lock.
THEOREM NobodySleepsAtJoin == Spec => []NoSleeperAtJoin
BY StopInvariant, PTL DEF StopInv

-----------------------------------------------------------------------------
(* No worker sleeps on work *)

\* While a worker waits, every queued task has another worker on its way to the
\* mutex: Push queues one task and wakes one worker, Take takes one task and one
\* worker, and who begins to wait saw the queue empty under the mutex it still
\* holds (WaiterHolds).
THEOREM WorkersStayAwake == Spec => []NoWorkerSleepsOnWork
<1>1. Init => NoWorkerSleepsOnWork
  BY DEF Init, NoWorkerSleepsOnWork, WaitingWorkers
<1>2. TypeInv /\ StopInv /\ NoWorkerSleepsOnWork /\ [Next]_vars => NoWorkerSleepsOnWork'
  <2> SUFFICES ASSUME TypeInv, StopInv, NoWorkerSleepsOnWork, [Next]_vars
               PROVE  NoWorkerSleepsOnWork'
    OBVIOUS
  <2>0. /\ queue \in Seq(Entries) /\ Len(queue) \in Nat
        /\ worker \in [Workers -> {"none", "test", "lock", "wait", "blocked", "run", "exit"}]
    BY DEF TypeInv, TypeOK
  <2>1. /\ IsFiniteSet(LockingWorkers) /\ Cardinality(LockingWorkers) \in Nat
        /\ IsFiniteSet(LockingWorkers') /\ Cardinality(LockingWorkers') \in Nat
    <3>1. (IsFiniteSet(LockingWorkers) /\ Cardinality(LockingWorkers) \in Nat)'
      BY FiniteThreads, PTL
    <3> QED BY <3>1, FiniteThreads
  <2>2. WaitingWorkers # {} => Len(queue) <= Cardinality(LockingWorkers)
    BY DEF NoWorkerSleepsOnWork, LockingWorkers
  <2> SUFFICES ASSUME WaitingWorkers' # {}
               PROVE  Len(queue') <= Cardinality(LockingWorkers')
    BY DEF NoWorkerSleepsOnWork, LockingWorkers
  \* A worker comes to wait for the mutex, or stays where it was: one waited before.
  <2>3. ASSUME WaitingWorkers # {}, queue' = queue, LockingWorkers' = LockingWorkers
        PROVE  Len(queue') <= Cardinality(LockingWorkers')
    BY <2>2, <2>3
  <2>4. ASSUME WaitingWorkers # {}, queue' = queue, NEW w \in Workers \ LockingWorkers,
               LockingWorkers' = LockingWorkers \cup {w}
        PROVE  Len(queue') <= Cardinality(LockingWorkers')
    <3>1. Cardinality(LockingWorkers') = Cardinality(LockingWorkers) + 1
      BY <2>1, <2>4, OneMore
    <3> QED BY <2>0, <2>1, <2>2, <2>4, <3>1
  \* The queue is empty.
  <2>5. ASSUME queue' = <<>>
        PROVE  Len(queue') <= Cardinality(LockingWorkers')
    BY <2>1, <2>5
  <2>6. CASE UNCHANGED <<queue, worker>>
    BY <2>3, <2>6 DEF WaitingWorkers, LockingWorkers
  <2>7. CASE StartThread
    <3>1. worker' = worker \/ (index \notin started /\ worker' = [worker EXCEPT ![index] = "test"])
      BY <2>7 DEF StartThread
    <3>2. \A w \in Workers : worker'[w] = worker[w] \/ (worker[w] = "none" /\ worker'[w] = "test")
      BY <2>0, <3>1 DEF StopInv, UnstartedIdle
    <3>3. WaitingWorkers' = WaitingWorkers /\ LockingWorkers' = LockingWorkers
      BY <3>2 DEF WaitingWorkers, LockingWorkers
    <3> QED BY <2>3, <2>7, <3>3 DEF StartThread
  <2>8. CASE NotifyAll
    <3>1. WaitingWorkers' = {}
      BY <2>8 DEF NotifyAll, WaitingWorkers
    <3> QED BY <3>1
  <2>9. ASSUME NEW p \in Producers, Push(p)
        PROVE  Len(queue') <= Cardinality(LockingWorkers')
    <3>1. WaitingWorkers # {}
      BY <2>9 DEF Push, Notified, WaitingWorkers
    <3>2. PICK x \in WaitingWorkers : worker' = [worker EXCEPT ![x] = "lock"]
      BY <2>9, <3>1 DEF Push, Notified
    <3>3. x \notin LockingWorkers /\ LockingWorkers' = LockingWorkers \cup {x}
      BY <2>0, <3>2 DEF LockingWorkers, WaitingWorkers
    <3>4. Cardinality(LockingWorkers') = Cardinality(LockingWorkers) + 1
      BY <2>1, <3>3, OneMore
    <3>5. Len(queue') = Len(queue) + 1
      BY <2>0, <2>9, AppendProperties DEF Push
    <3> QED BY <2>0, <2>1, <2>2, <3>1, <3>4, <3>5
  <2>10. ASSUME NEW w \in Workers, TestRunning(w)
         PROVE  Len(queue') <= Cardinality(LockingWorkers')
    <3>1. WaitingWorkers' = WaitingWorkers
      BY <2>0, <2>10 DEF TestRunning, WaitingWorkers
    <3>2. \/ LockingWorkers' = LockingWorkers
          \/ w \notin LockingWorkers /\ LockingWorkers' = LockingWorkers \cup {w}
      BY <2>0, <2>10 DEF TestRunning, LockingWorkers
    <3> QED BY <2>3, <2>4, <2>10, <3>1, <3>2 DEF TestRunning
  <2>11. ASSUME NEW w \in Workers, DecideToWait(w) \/ TakeNothing(w)
         PROVE  Len(queue') <= Cardinality(LockingWorkers')
    BY <2>5, <2>11 DEF DecideToWait, TakeNothing
  <2>12. ASSUME NEW w \in Workers, WaitNotEmpty(w)
         PROVE  Len(queue') <= Cardinality(LockingWorkers')
    BY <2>5, <2>12 DEF WaitNotEmpty, StopInv, WaiterHolds
  <2>13. ASSUME NEW w \in Workers, Take(w)
         PROVE  Len(queue') <= Cardinality(LockingWorkers')
    <3>1. WaitingWorkers' = WaitingWorkers
      BY <2>0, <2>13 DEF Take, WaitingWorkers
    <3>2. w \in LockingWorkers /\ LockingWorkers' = LockingWorkers \ {w}
      BY <2>0, <2>13 DEF Take, LockingWorkers
    <3>3. Cardinality(LockingWorkers') = Cardinality(LockingWorkers) - 1
      BY <2>1, <3>2, OneLess
    <3>4. Len(queue') = Len(queue) - 1
      BY <2>0, <2>13, HeadTailProperties DEF Take
    <3> QED BY <2>0, <2>1, <2>2, <3>1, <3>3, <3>4
  <2>14. ASSUME NEW w \in Workers, EndTask(w)
         PROVE  Len(queue') <= Cardinality(LockingWorkers')
    <3>1. WaitingWorkers' = WaitingWorkers /\ LockingWorkers' = LockingWorkers
      BY <2>0, <2>14 DEF EndTask, WaitingWorkers, LockingWorkers
    <3> QED BY <2>3, <2>14, <3>1 DEF EndTask
  <2>15. CASE SpuriousWakeup
    <3>1. CASE UNCHANGED worker
      BY <2>6, <2>15, <3>1 DEF SpuriousWakeup
    <3>2. CASE worker' \in {[worker EXCEPT ![w] = "lock"] : w \in WaitingWorkers}
      <4>1. PICK x \in WaitingWorkers : worker' = [worker EXCEPT ![x] = "lock"]
        BY <3>2
      <4>2. x \in Workers \ LockingWorkers /\ LockingWorkers' = LockingWorkers \cup {x}
        BY <2>0, <4>1 DEF LockingWorkers, WaitingWorkers
      <4> QED BY <2>4, <2>15, <4>1, <4>2 DEF SpuriousWakeup
    <3> QED BY <2>15, <3>1, <3>2 DEF SpuriousWakeup
  <2> QED
    BY <2>6, <2>7, <2>8, <2>9, <2>10, <2>11, <2>12, <2>13, <2>14, <2>15
    DEF Next, OwnerStep, ProducerStep, WorkerStep, vars, workerVars, Start, EndStart, Stop,
        Join, Joined, EndStop, RunInline, Run, WaitNotFull
<1> QED BY <1>1, <1>2, TypeInvariant, StopInvariant, PTL DEF Spec

-----------------------------------------------------------------------------
(* No producer sleeps on room *)

\* While a producer waits for room, every free place of the queue has another
\* producer on its way to the mutex: a producer waits only when it has seen the
\* queue full, and Take wakes one producer for the place it frees.
THEOREM ProducersStayAwake == Spec => []NoProducerSleepsOnRoom
<1>1. Init => NoProducerSleepsOnRoom
  BY DEF Init, NoProducerSleepsOnRoom, WaitingProducers
<1>2. TypeInv /\ NoProducerSleepsOnRoom /\ [Next]_vars => NoProducerSleepsOnRoom'
  <2> SUFFICES ASSUME TypeInv, NoProducerSleepsOnRoom, [Next]_vars
               PROVE  NoProducerSleepsOnRoom'
    OBVIOUS
  <2> DEFINE Room == MaxQueueSize - Len(queue)
  <2>0. /\ queue \in Seq(Entries) /\ Len(queue) \in Nat /\ MaxQueueSize \in Nat
        /\ producer \in [Producers -> {"idle", "lock", "blocked"}]
    BY CountAssumption DEF TypeInv, TypeOK
  <2>1. /\ IsFiniteSet(LockingProducers) /\ Cardinality(LockingProducers) \in Nat
        /\ IsFiniteSet(LockingProducers') /\ Cardinality(LockingProducers') \in Nat
    <3>1. (IsFiniteSet(LockingProducers) /\ Cardinality(LockingProducers) \in Nat)'
      BY FiniteThreads, PTL
    <3> QED BY <3>1, FiniteThreads
  <2>2. WaitingProducers # {} => Room <= Cardinality(LockingProducers)
    BY DEF NoProducerSleepsOnRoom, LockingProducers
  <2> SUFFICES ASSUME WaitingProducers' # {}
               PROVE  Room' <= Cardinality(LockingProducers')
    BY DEF NoProducerSleepsOnRoom, LockingProducers
  \* A producer comes to wait for the mutex: one waited for room before.
  <2>3. ASSUME WaitingProducers # {}, queue' = queue, NEW p \in Producers \ LockingProducers,
               LockingProducers' = LockingProducers \cup {p}
        PROVE  Room' <= Cardinality(LockingProducers')
    <3>1. Cardinality(LockingProducers') = Cardinality(LockingProducers) + 1
      BY <2>1, <2>3, OneMore
    <3> QED BY <2>0, <2>1, <2>2, <2>3, <3>1
  <2>4. CASE UNCHANGED <<queue, producer>>
    <3>1. WaitingProducers' = WaitingProducers /\ LockingProducers' = LockingProducers
      BY <2>4 DEF WaitingProducers, LockingProducers
    <3> QED BY <2>2, <2>4, <3>1
  <2>5. ASSUME NEW p \in Producers, NEW t \in Tasks, Run(p, t)
        PROVE  Room' <= Cardinality(LockingProducers')
    <3>1. WaitingProducers' = WaitingProducers
      BY <2>0, <2>5 DEF Run, WaitingProducers
    <3>2. p \in Producers \ LockingProducers /\ LockingProducers' = LockingProducers \cup {p}
      BY <2>0, <2>5 DEF Run, LockingProducers
    <3> QED BY <2>3, <2>5, <3>1, <3>2 DEF Run
  <2>6. ASSUME NEW p \in Producers, WaitNotFull(p)
        PROVE  Room' <= Cardinality(LockingProducers')
    <3>1. Len(queue') >= MaxQueueSize /\ Len(queue') = Len(queue)
      BY <2>6 DEF WaitNotFull, IsFull
    <3> QED BY <2>0, <2>1, <3>1
  <2>7. ASSUME NEW p \in Producers, Push(p)
        PROVE  Room' <= Cardinality(LockingProducers')
    <3>1. WaitingProducers' = WaitingProducers
      BY <2>0, <2>7 DEF Push, WaitingProducers
    <3>2. p \in LockingProducers /\ LockingProducers' = LockingProducers \ {p}
      BY <2>0, <2>7 DEF Push, LockingProducers
    <3>3. Cardinality(LockingProducers') = Cardinality(LockingProducers) - 1
      BY <2>1, <3>2, OneLess
    <3>4. Len(queue') = Len(queue) + 1
      BY <2>0, <2>7, AppendProperties DEF Push
    <3> QED BY <2>0, <2>1, <2>2, <3>1, <3>3, <3>4
  <2>8. ASSUME NEW w \in Workers, Take(w)
        PROVE  Room' <= Cardinality(LockingProducers')
    <3>1. Len(queue') = Len(queue) - 1 /\ Len(queue') \in Nat
      BY <2>0, <2>8, HeadTailProperties DEF Take
    <3>2. CASE MaxQueueSize = 0
      BY <2>0, <2>1, <3>1, <3>2
    <3>3. CASE MaxQueueSize > 0
      <4>1. producer' \in Notified(producer, WaitingProducers)
        BY <2>8, <3>3 DEF Take
      <4>2. WaitingProducers # {}
        BY <4>1 DEF Notified, WaitingProducers
      <4>3. PICK x \in WaitingProducers : producer' = [producer EXCEPT ![x] = "lock"]
        BY <4>1, <4>2 DEF Notified
      <4>4. x \notin LockingProducers /\ LockingProducers' = LockingProducers \cup {x}
        BY <2>0, <4>3 DEF LockingProducers, WaitingProducers
      <4>5. Cardinality(LockingProducers') = Cardinality(LockingProducers) + 1
        BY <2>1, <4>4, OneMore
      <4> QED BY <2>0, <2>1, <2>2, <3>1, <4>2, <4>5
    <3> QED BY <2>0, <3>2, <3>3
  <2>9. CASE SpuriousWakeup
    <3>1. CASE UNCHANGED producer
      BY <2>4, <2>9, <3>1 DEF SpuriousWakeup
    <3>2. CASE producer' \in {[producer EXCEPT ![p] = "lock"] : p \in WaitingProducers}
      <4>1. PICK x \in WaitingProducers : producer' = [producer EXCEPT ![x] = "lock"]
        BY <3>2
      <4>2. x \in Producers \ LockingProducers /\ LockingProducers' = LockingProducers \cup {x}
        BY <2>0, <4>1 DEF LockingProducers, WaitingProducers
      <4> QED BY <2>3, <2>9, <4>1, <4>2 DEF SpuriousWakeup
    <3> QED BY <2>9, <3>1, <3>2 DEF SpuriousWakeup
  <2> HIDE DEF Room
  <2> QED
    BY <2>4, <2>5, <2>6, <2>7, <2>8, <2>9
    DEF Next, OwnerStep, ProducerStep, WorkerStep, vars, producerVars, Start, StartThread,
        EndStart, Stop, NotifyAll, Join, Joined, EndStop, RunInline, TestRunning,
        DecideToWait, WaitNotEmpty, TakeNothing, EndTask
<1> QED BY <1>1, <1>2, TypeInvariant, PTL DEF Spec

=============================================================================
