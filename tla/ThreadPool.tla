----------------------------- MODULE ThreadPool -----------------------------
(***************************************************************************)
(* The fixed pool of worker threads with a bounded queue: producers call    *)
(* Run, workers loop in RunInThread, and one owner calls Start and Stop.    *)
(*                                                                          *)
(* A critical section is one step, except where a worker has read running_  *)
(* and not begun to wait: Stop clears running_ without the lock, so that    *)
(* window is a state of its own, in which the worker holds the mutex.       *)
(* A thread that waits on a condition is one whose location says so; Notify *)
(* moves one such thread on, to reacquire the mutex and look again.         *)
(***************************************************************************)
EXTENDS Naturals, Sequences, FiniteSets

CONSTANTS Producers,     \* threads that call Run
          Tasks,         \* tasks; each is handed to Run at most once
          NumThreads,    \* Start's argument
          MaxStarts,     \* bound: calls of Start that are not ignored
          MaxQueueSize,  \* max_queue_size_; 0 is no limit
          Free,          \* the mutex is not held
          NoEntry        \* a worker has no task

ASSUME CountAssumption == /\ NumThreads \in Nat /\ MaxStarts \in Nat
                          /\ MaxQueueSize \in Nat
                          /\ IsFiniteSet(Producers)
ASSUME FreeAssumption == Free \notin 1 .. NumThreads * MaxStarts

\* The threads of all the calls of Start, by their index in threads_.
Workers == 1 .. NumThreads * MaxStarts

Entries == [context : Producers, task : Tasks]

VARIABLES
    running,    \* running_
    threads,    \* threads_.size()
    started,    \* the threads that Thread::Start has started
    joined,     \* the threads that Thread::Join has been called on
    mutex,      \* the worker that holds mutex_ between its test and its wait
    queue,      \* queue_
    worker,     \* where each worker is
    entry,      \* the entry each worker executes, its trace context included
    producer,   \* where each producer is
    argument,   \* the task each producer has handed to Run
    owner,      \* where the thread that starts and stops the pool is
    index,      \* its loop variable in Start and in Stop
    starts,     \* history: calls of Start that were not ignored
    submitted,  \* history: tasks handed to Run
    begun       \* history: tasks begun

vars == <<running, threads, started, joined, mutex, queue, worker, entry,
          producer, argument, owner, index, starts, submitted, begun>>

workerVars   == <<worker, entry>>
producerVars == <<producer, argument, submitted>>
ownerVars    == <<running, threads, started, joined, owner, index, starts>>

TypeOK ==
    /\ running \in BOOLEAN
    /\ threads \in 0 .. NumThreads * MaxStarts
    /\ started \subseteq Workers
    /\ joined \subseteq Workers
    /\ mutex \in Workers \cup {Free}
    /\ queue \in Seq(Entries)
    /\ worker \in [Workers -> {"none", "test", "lock", "wait", "blocked", "run", "exit"}]
    /\ entry \in [Workers -> Entries \cup {NoEntry}]
    /\ producer \in [Producers -> {"idle", "lock", "blocked"}]
    /\ argument \in [Producers -> Tasks \cup {NoEntry}]
    /\ owner \in {"idle", "starting", "notify", "join", "joining"}
    /\ index \in Nat
    /\ starts \in 0 .. MaxStarts
    /\ submitted \subseteq Tasks
    /\ begun \subseteq Tasks

Init ==
    /\ running = FALSE
    /\ threads = 0
    /\ started = {}
    /\ joined = {}
    /\ mutex = Free
    /\ queue = <<>>
    /\ worker = [w \in Workers |-> "none"]
    /\ entry = [w \in Workers |-> NoEntry]
    /\ producer = [p \in Producers |-> "idle"]
    /\ argument = [p \in Producers |-> NoEntry]
    /\ owner = "idle"
    /\ index = 1
    /\ starts = 0
    /\ submitted = {}
    /\ begun = {}

WaitingWorkers   == {w \in Workers : worker[w] = "blocked"}
WaitingProducers == {p \in Producers : producer[p] = "blocked"}

\* The locations after pthread_cond_signal: one waiter, if there is any, goes on
\* to reacquire the mutex.
Notified(loc, waiting) ==
    IF waiting = {} THEN {loc} ELSE {[loc EXCEPT ![x] = "lock"] : x \in waiting}

\* Mutant of IsFull: one too many.
IsFull_OffByOne == MaxQueueSize > 0 /\ Len(queue) > MaxQueueSize

IsFull == MaxQueueSize > 0 /\ Len(queue) >= MaxQueueSize

-----------------------------------------------------------------------------
(* Start and Stop, called by the owner *)

\* Start, unless the pool is running: running_ is set before any thread is made.
Start ==
    /\ owner = "idle"
    /\ ~running
    /\ starts < MaxStarts
    /\ running' = TRUE
    /\ owner' = "starting"
    /\ index' = 1
    /\ starts' = starts + 1
    /\ UNCHANGED <<threads, started, joined, mutex, queue, workerVars, producerVars, begun>>

\* One turn of Start's loop: a thread is appended to threads_, and the thread at
\* the loop's index is started, which does nothing if it was started before.
StartThread ==
    /\ owner = "starting"
    /\ index <= NumThreads
    /\ threads' = threads + 1
    /\ started' = started \cup {index}
    /\ worker' = IF index \in started THEN worker ELSE [worker EXCEPT ![index] = "test"]
    /\ index' = index + 1
    /\ UNCHANGED <<running, joined, mutex, queue, entry, producerVars, owner, starts, begun>>

EndStart ==
    /\ owner = "starting"
    /\ index > NumThreads
    /\ owner' = "idle"
    /\ UNCHANGED <<running, threads, started, joined, index, starts, mutex, queue,
                   workerVars, producerVars, begun>>

\* Stop (and the destructor), unless the pool is stopped: first running_, ...
Stop ==
    /\ owner = "idle"
    /\ running
    /\ running' = FALSE
    /\ owner' = "notify"
    /\ UNCHANGED <<threads, started, joined, index, starts, mutex, queue,
                   workerVars, producerVars, begun>>

\* Mutants of NotifyAll: without the lock; only one worker is notified.
NotifyAll_NoLock ==
    /\ owner = "notify"
    /\ worker' = [w \in Workers |-> IF worker[w] = "blocked" THEN "lock" ELSE worker[w]]
    /\ owner' = "join"
    /\ index' = 1
    /\ UNCHANGED <<running, threads, started, joined, starts, mutex, queue, entry,
                   producerVars, begun>>

NotifyAll_One ==
    /\ owner = "notify"
    /\ mutex = Free
    /\ worker' \in Notified(worker, WaitingWorkers)
    /\ owner' = "join"
    /\ index' = 1
    /\ UNCHANGED <<running, threads, started, joined, starts, mutex, queue, entry,
                   producerVars, begun>>

\* ... then not_empty_.NotifyAll() under the lock, ...
NotifyAll ==
    /\ owner = "notify"
    /\ mutex = Free
    /\ worker' = [w \in Workers |-> IF worker[w] = "blocked" THEN "lock" ELSE worker[w]]
    /\ owner' = "join"
    /\ index' = 1
    /\ UNCHANGED <<running, threads, started, joined, starts, mutex, queue, entry,
                   producerVars, begun>>

\* ... then Thread::Join of every thread: joined_ is set, ...
Join ==
    /\ owner = "join"
    /\ index <= threads
    /\ joined' = joined \cup {index}
    /\ owner' = "joining"
    /\ UNCHANGED <<running, threads, started, index, starts, mutex, queue,
                   workerVars, producerVars, begun>>

\* ... and pthread_join waits for the thread to end.
Joined ==
    /\ owner = "joining"
    /\ worker[index] = "exit"
    /\ index' = index + 1
    /\ owner' = "join"
    /\ UNCHANGED <<running, threads, started, joined, starts, mutex, queue,
                   workerVars, producerVars, begun>>

EndStop ==
    /\ owner = "join"
    /\ index > threads
    /\ owner' = "idle"
    /\ UNCHANGED <<running, threads, started, joined, index, starts, mutex, queue,
                   workerVars, producerVars, begun>>

-----------------------------------------------------------------------------
(* Run, called by the producers *)

\* Without threads the task is executed by the caller.
RunInline(p, t) ==
    /\ producer[p] = "idle"
    /\ t \notin submitted
    /\ threads = 0
    /\ submitted' = submitted \cup {t}
    /\ begun' = begun \cup {t}
    /\ UNCHANGED <<ownerVars, mutex, queue, workerVars, producer, argument>>

\* Otherwise the caller goes for the mutex.
Run(p, t) ==
    /\ producer[p] = "idle"
    /\ t \notin submitted
    /\ threads > 0
    /\ submitted' = submitted \cup {t}
    /\ argument' = [argument EXCEPT ![p] = t]
    /\ producer' = [producer EXCEPT ![p] = "lock"]
    /\ UNCHANGED <<ownerVars, mutex, queue, workerVars, begun>>

\* With the mutex, and the queue full: not_full_.Wait().
WaitNotFull(p) ==
    /\ producer[p] = "lock"
    /\ mutex = Free
    /\ IsFull
    /\ producer' = [producer EXCEPT ![p] = "blocked"]
    /\ UNCHANGED <<ownerVars, mutex, queue, workerVars, argument, submitted, begun>>

\* Mutant of Push: no worker is notified.
Push_NoNotify(p) ==
    /\ producer[p] = "lock"
    /\ mutex = Free
    /\ ~IsFull
    /\ queue' = Append(queue, [context |-> p, task |-> argument[p]])
    /\ producer' = [producer EXCEPT ![p] = "idle"]
    /\ argument' = [argument EXCEPT ![p] = NoEntry]
    /\ UNCHANGED <<ownerVars, mutex, workerVars, submitted, begun>>

\* With the mutex, and room in the queue: the task goes to its end, with the
\* caller's trace context, and a waiting worker is notified.
Push(p) ==
    /\ producer[p] = "lock"
    /\ mutex = Free
    /\ ~IsFull
    /\ queue' = Append(queue, [context |-> p, task |-> argument[p]])
    /\ worker' \in Notified(worker, WaitingWorkers)
    /\ producer' = [producer EXCEPT ![p] = "idle"]
    /\ argument' = [argument EXCEPT ![p] = NoEntry]
    /\ UNCHANGED <<ownerVars, mutex, entry, submitted, begun>>

-----------------------------------------------------------------------------
(* RunInThread and Take *)

\* while (running_)
TestRunning(w) ==
    /\ worker[w] = "test"
    /\ worker' = [worker EXCEPT ![w] = IF running THEN "lock" ELSE "exit"]
    /\ UNCHANGED <<ownerVars, mutex, queue, entry, producerVars, begun>>

\* Take, with the mutex and the queue empty: the worker has read running_ and
\* is about to wait ...
DecideToWait(w) ==
    /\ worker[w] = "lock"
    /\ mutex = Free
    /\ queue = <<>>
    /\ running
    /\ mutex' = w
    /\ worker' = [worker EXCEPT ![w] = "wait"]
    /\ UNCHANGED <<ownerVars, queue, entry, producerVars, begun>>

\* ... not_empty_.Wait() releases the mutex.
WaitNotEmpty(w) ==
    /\ worker[w] = "wait"
    /\ mutex' = Free
    /\ worker' = [worker EXCEPT ![w] = "blocked"]
    /\ UNCHANGED <<ownerVars, queue, entry, producerVars, begun>>

\* Take returns no entry, the pool being stopped.
TakeNothing(w) ==
    /\ worker[w] = "lock"
    /\ mutex = Free
    /\ queue = <<>>
    /\ ~running
    /\ worker' = [worker EXCEPT ![w] = "test"]
    /\ UNCHANGED <<ownerVars, mutex, queue, entry, producerVars, begun>>

\* Mutant of Take: no producer is notified.
Take_NoNotify(w) ==
    /\ worker[w] = "lock"
    /\ mutex = Free
    /\ queue # <<>>
    /\ queue' = Tail(queue)
    /\ entry' = [entry EXCEPT ![w] = Head(queue)]
    /\ worker' = [worker EXCEPT ![w] = "run"]
    /\ begun' = begun \cup {Head(queue).task}
    /\ UNCHANGED <<ownerVars, mutex, producerVars>>

\* Take returns the first entry, running_ or not, and notifies a waiting
\* producer; the worker begins the task under its trace context.
Take(w) ==
    /\ worker[w] = "lock"
    /\ mutex = Free
    /\ queue # <<>>
    /\ queue' = Tail(queue)
    /\ entry' = [entry EXCEPT ![w] = Head(queue)]
    /\ worker' = [worker EXCEPT ![w] = "run"]
    /\ producer' \in Notified(producer, IF MaxQueueSize > 0 THEN WaitingProducers ELSE {})
    /\ begun' = begun \cup {Head(queue).task}
    /\ UNCHANGED <<ownerVars, mutex, argument, submitted>>

\* The task returns and the trace context is reset.
EndTask(w) ==
    /\ worker[w] = "run"
    /\ worker' = [worker EXCEPT ![w] = "test"]
    /\ entry' = [entry EXCEPT ![w] = NoEntry]
    /\ UNCHANGED <<ownerVars, mutex, queue, producerVars, begun>>

\* pthread_cond_wait may return although nobody notified.
SpuriousWakeup ==
    /\ \/ /\ worker' \in {[worker EXCEPT ![w] = "lock"] : w \in WaitingWorkers}
          /\ UNCHANGED producer
       \/ /\ producer' \in {[producer EXCEPT ![p] = "lock"] : p \in WaitingProducers}
          /\ UNCHANGED worker
    /\ UNCHANGED <<ownerVars, mutex, queue, entry, argument, submitted, begun>>

-----------------------------------------------------------------------------

OwnerStep == StartThread \/ EndStart \/ NotifyAll \/ Join \/ Joined \/ EndStop

ProducerStep(p) == WaitNotFull(p) \/ Push(p)

WorkerStep(w) == \/ TestRunning(w) \/ DecideToWait(w) \/ WaitNotEmpty(w)
                 \/ TakeNothing(w) \/ Take(w) \/ EndTask(w)

Next ==
    \/ Start
    \/ Stop
    \/ OwnerStep
    \/ \E p \in Producers, t \in Tasks : RunInline(p, t) \/ Run(p, t)
    \/ \E p \in Producers : ProducerStep(p)
    \/ \E w \in Workers : WorkerStep(w)
    \/ SpuriousWakeup

Spec == Init /\ [][Next]_vars

(***************************************************************************)
(* Threads are scheduled, tasks return, and a thread that tries for the     *)
(* mutex again and again gets it.  Nobody has to call Start, Stop or Run,   *)
(* and nothing depends on a spurious wakeup.                                *)
(***************************************************************************)
FairSpec ==
    /\ Spec
    /\ SF_vars(OwnerStep)
    /\ \A p \in Producers : SF_vars(ProducerStep(p))
    /\ \A w \in Workers : SF_vars(WorkerStep(w))

-----------------------------------------------------------------------------
(* Properties *)

\* The queue never grows past max_queue_size_, however many producers were
\* waiting when room appeared.
QueueBounded == MaxQueueSize > 0 => Len(queue) <= MaxQueueSize

\* No worker sleeps on work: while one waits, every queued task has another
\* worker on its way to the mutex.  Run notifies only one worker per task.
NoWorkerSleepsOnWork ==
    WaitingWorkers # {} => Len(queue) <= Cardinality({w \in Workers : worker[w] = "lock"})

\* No producer sleeps on room: while one waits, every free place of the queue
\* has another producer on its way.  Take notifies one producer per task.
NoProducerSleepsOnRoom ==
    WaitingProducers # {} =>
        MaxQueueSize - Len(queue) <= Cardinality({p \in Producers : producer[p] = "lock"})

\* When Stop joins, no worker sleeps or will sleep: running_ is cleared without
\* the lock, but a worker that read it before holds the mutex until it waits.
NoSleeperAtJoin ==
    owner \in {"join", "joining"} => \A w \in Workers : worker[w] \notin {"wait", "blocked"}

\* Every task handed to Run begins, unless the pool is stopped.
TasksRun == \A t \in Tasks : t \in submitted ~> (t \in begun \/ ~running)

\* A producer that waits for room gets on, unless the pool is stopped: Stop
\* notifies not_empty_ only.
ProducersGetOn ==
    \A p \in Producers : producer[p] = "blocked" ~> (producer[p] # "blocked" \/ ~running)

\* Stop returns, whatever the workers were doing.
StopReturns == owner = "notify" ~> owner = "idle"

\* Thread::Join: "DCHECK(started_)" and "DCHECK(!joined_)", for every thread Stop
\* is about to join.
JoinAssertion ==
    owner = "join" /\ index <= threads => index \in started /\ index \notin joined

=============================================================================
