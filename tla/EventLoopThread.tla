-------------------------- MODULE EventLoopThread --------------------------
(***************************************************************************)
(* EventLoopThreadPool and its EventLoopThreads.  Every thread keeps its   *)
(* EventLoop on its own stack and publishes a pointer to it; the pool's    *)
(* owner waits for the pointer, hands the loops out in turn, and in the    *)
(* destructor quits and joins every thread.  The client's thread-init      *)
(* callback reports to a thread of the client through a latch and a        *)
(* blocking queue.                                                         *)
(***************************************************************************)
EXTENDS Sync, FiniteSets

CONSTANTS MaxThreads, MaxHandOut   \* bounds: num_threads_, calls of NextLoop

ASSUME ThreadsAssumption == MaxThreads \in Nat

Base == 0   \* base_loop_, which the owner's own thread runs
Client == 0
Threads == 1 .. MaxThreads

VARIABLES
    numThreads, \* num_threads_
    owner,      \* where the owner is
    at,         \* the thread the owner starts or ends
    state,      \* where each thread is
    loopPtr,    \* loop_ of each EventLoopThread is set
    quit,       \* quit_ of each loop
    wakeup,     \* the eventfd of each loop is readable
    next,       \* next_
    served,     \* history: how often each loop was handed out (0: base loop)
    client,     \* where the client thread that awaits the callbacks is
    reported    \* history: whose callback it has heard of

poolVars == <<numThreads, owner, at, next, served>>
clientVars == <<client, reported>>
loopVars == <<state, loopPtr, quit, wakeup>>
vars == <<poolVars, clientVars, loopVars, syncVars>>

Init ==
    /\ numThreads \in 0 .. MaxThreads
    /\ owner = "new" /\ at = 0 /\ next = 0
    /\ state = [t \in Threads |-> "none"]
    /\ loopPtr = [t \in Threads |-> FALSE]
    /\ quit = [t \in Threads |-> FALSE]
    /\ wakeup = [t \in Threads |-> FALSE]
    /\ served = [t \in 0 .. MaxThreads |-> 0]
    /\ client = "waiting" /\ reported = {}
    /\ InitSync(IF numThreads = 0 THEN 1 ELSE numThreads)

\* The client's callback counts the latch down and then puts its loop (from 1) into
\* the queue.
CallbackCounts == CountDown /\ UNCHANGED <<queue, takeWaiters>>
CallbackPuts(t) == Put(t + 1) /\ UNCHANGED <<count, latchWaiters>>

\* EventLoopThreadPool::Start.  Without threads the callback gets base_loop_.
PoolStart ==
    /\ owner = "new"
    /\ owner' = IF numThreads = 0 THEN "callback" ELSE "starting"
    /\ IF numThreads = 0 THEN CallbackCounts ELSE UNCHANGED syncVars
    /\ UNCHANGED <<numThreads, at, next, served, clientVars, loopVars>>

BaseCallbackPuts ==
    /\ owner = "callback" /\ owner' = "running"
    /\ CallbackPuts(Base)
    /\ UNCHANGED <<numThreads, at, next, served, clientVars, loopVars>>

\* The loop of Start: a new EventLoopThread, and StartLoop up to its lock.
SpawnThread ==
    /\ owner = "starting" /\ at < numThreads
    /\ at' = at + 1 /\ owner' = "test"
    /\ state' = [state EXCEPT ![at + 1] = "spawned"]
    /\ UNCHANGED <<numThreads, next, served, clientVars, loopPtr, quit, wakeup, syncVars>>

\* StartLoop without the loop around the wait.
StartLoopTest_NoWait ==
    /\ owner = "test"
    /\ owner' = IF at < numThreads THEN "starting" ELSE "running"
    /\ UNCHANGED <<numThreads, at, next, served, clientVars, loopVars, syncVars>>

\* while (!loop_) condition_.Wait(); the pointer then goes into loops_.
StartLoopTest ==
    /\ owner = "test"
    /\ owner' = IF ~loopPtr[at] THEN "waiting"
                ELSE IF at < numThreads THEN "starting" ELSE "running"
    /\ UNCHANGED <<numThreads, at, next, served, clientVars, loopVars, syncVars>>

SpuriousStart ==
    /\ owner = "waiting" /\ owner' = "test"
    /\ UNCHANGED <<numThreads, at, next, served, clientVars, loopVars, syncVars>>

\* ThreadMain: the loop is made on the stack and the callback called, ...
ThreadCallback(t) ==
    /\ state[t] = "spawned"
    /\ CallbackCounts
    /\ state' = [state EXCEPT ![t] = "called"]
    /\ UNCHANGED <<poolVars, clientVars, loopPtr, quit, wakeup>>

ThreadCallbackPuts(t) ==
    /\ state[t] = "called"
    /\ CallbackPuts(t)
    /\ state' = [state EXCEPT ![t] = "ready"]
    /\ UNCHANGED <<poolVars, clientVars, loopPtr, quit, wakeup>>

\* ... and the pointer published under the mutex.
ThreadPublish(t) ==
    /\ state[t] = "ready"
    /\ loopPtr' = [loopPtr EXCEPT ![t] = TRUE]
    /\ owner' = IF owner = "waiting" /\ at = t THEN "test" ELSE owner
    /\ state' = [state EXCEPT ![t] = "looping"]
    /\ UNCHANGED <<numThreads, at, next, served, clientVars, quit, wakeup, syncVars>>

\* EventLoop::loop: the test of quit_, and the poll, which ends by the eventfd,
\* by its timeout or for another event.
LoopTest(t) ==
    /\ state[t] = "looping"
    /\ state' = [state EXCEPT ![t] = IF quit[t] THEN "destroyed" ELSE "polling"]
    /\ UNCHANGED <<poolVars, clientVars, loopPtr, quit, wakeup, syncVars>>

PollWakeup(t) ==
    /\ state[t] = "polling" /\ wakeup[t]
    /\ wakeup' = [wakeup EXCEPT ![t] = FALSE]
    /\ state' = [state EXCEPT ![t] = "looping"]
    /\ UNCHANGED <<poolVars, clientVars, loopPtr, quit, syncVars>>

PollTimeout(t) ==
    /\ state[t] = "polling"
    /\ state' = [state EXCEPT ![t] = "looping"]
    /\ UNCHANGED <<poolVars, clientVars, loopPtr, quit, wakeup, syncVars>>

\* A callback of the loop calls quit() on its own loop.
SelfQuit(t) ==
    /\ state[t] = "looping" /\ ~quit[t]
    /\ quit' = [quit EXCEPT ![t] = TRUE]
    /\ UNCHANGED <<poolVars, clientVars, state, loopPtr, wakeup, syncVars>>

\* The client waits until all callbacks have been called, ...
WaitCallbacks ==
    /\ client = "waiting"
    /\ \E goes \in BOOLEAN :
          LatchWait(Client, goes) /\ client' = IF goes THEN "hearing" ELSE client
    /\ UNCHANGED <<poolVars, reported, loopVars>>

\* ... and takes their reports.
HearCallback ==
    /\ client = "hearing"
    /\ \E got \in 0 .. MaxThreads + 1 :
          /\ Take(Client, got)
          /\ reported' = IF got = 0 THEN reported ELSE reported \cup {got - 1}
    /\ client' = IF Cardinality(reported') = (IF numThreads = 0 THEN 1 ELSE numThreads)
                 THEN "heard" ELSE client
    /\ UNCHANGED <<poolVars, loopVars>>

\* NextLoop: round robin, or the base loop when there is no other.
NextLoop ==
    LET loop == IF numThreads = 0 THEN 0 ELSE next + 1
    IN  /\ owner = "running" /\ served[loop] < MaxHandOut
        /\ served' = [served EXCEPT ![loop] = @ + 1]
        /\ next' = IF numThreads = 0 THEN next
                   ELSE IF next + 1 >= numThreads THEN 0 ELSE next + 1
        /\ UNCHANGED <<numThreads, owner, at, clientVars, loopVars, syncVars>>

\* The destructors of the threads, one after the other: quit_ is set, ...
DestroyNext(k) == IF k <= numThreads THEN "quit" ELSE "gone"

Destroy ==
    /\ owner = "running"
    /\ at' = 1 /\ owner' = DestroyNext(1)
    /\ UNCHANGED <<numThreads, next, served, clientVars, loopVars, syncVars>>

QuitFlag ==
    /\ owner = "quit"
    /\ quit' = [quit EXCEPT ![at] = TRUE]
    /\ owner' = "wakeup"
    /\ UNCHANGED <<numThreads, at, next, served, clientVars, state, loopPtr, wakeup, syncVars>>

\* quit() that leaves the wakeup out.
QuitWakeup_Quiet ==
    /\ owner = "wakeup" /\ owner' = "join"
    /\ UNCHANGED <<numThreads, at, next, served, clientVars, loopVars, syncVars>>

\* ... the eventfd written, which is that of a destroyed loop when the thread saw
\* quit_ first: the number may by then be the eventfd of another loop.
QuitWakeup ==
    /\ owner = "wakeup" /\ owner' = "join"
    /\ \E hit \in (IF state[at] # "destroyed" THEN {at}
                   ELSE {t \in Threads : state[t] \in {"looping", "polling"}} \cup {0}) :
          wakeup' = [t \in Threads |-> wakeup[t] \/ t = hit]
    /\ UNCHANGED <<numThreads, at, next, served, clientVars, state, loopPtr, quit, syncVars>>

\* ... and the thread joined.
Join ==
    /\ owner = "join" /\ state[at] = "destroyed"
    /\ at' = at + 1 /\ owner' = DestroyNext(at + 1)
    /\ UNCHANGED <<numThreads, next, served, clientVars, loopVars, syncVars>>

SpuriousClient ==
    Spurious(Client) /\ UNCHANGED <<poolVars, clientVars, loopVars>>

OwnerStep == PoolStart \/ BaseCallbackPuts \/ SpawnThread \/ StartLoopTest
             \/ QuitFlag \/ QuitWakeup \/ Join
ClientStep == WaitCallbacks \/ HearCallback
ThreadStep(t) == ThreadCallback(t) \/ ThreadCallbackPuts(t) \/ ThreadPublish(t) \/ LoopTest(t) \/ PollWakeup(t)

Done == owner = "gone" /\ client = "heard" /\ UNCHANGED vars

Next == \/ OwnerStep \/ ClientStep \/ SpuriousStart \/ SpuriousClient \/ NextLoop \/ Destroy \/ Done
        \/ \E t \in Threads : ThreadStep(t) \/ PollTimeout(t) \/ SelfQuit(t)

Spec == /\ Init /\ [][Next]_vars
        /\ WF_vars(OwnerStep) /\ WF_vars(ClientStep)
        /\ \A t \in Threads : WF_vars(ThreadStep(t))

----------------------------------------------------------------------------
Ending == {"quit", "wakeup", "join", "gone"}

(***************************************************************************)
(* A loop the pool has taken into loops_, or that NextLoop has returned,   *)
(* had its callback called and is looping; it is destroyed only after      *)
(* quit() was called on it.  NextLoop returns the loops evenly.            *)
(***************************************************************************)
LoopsHandedOutLive ==
    /\ \A t \in Threads :
          (\/ t <= numThreads /\ owner \in {"running"} \cup Ending
           \/ owner \in {"starting", "test", "waiting"} /\ t < at
           \/ served[t] > 0)
          => /\ state[t] \in {"looping", "polling", "destroyed"}
             /\ (state[t] = "destroyed" => quit[t])
    /\ \A s, t \in 1 .. numThreads : served[s] <= served[t] + 1

(***************************************************************************)
(* The handshakes lose no notification: Start returns; the client gets     *)
(* past the latch and hears every callback; and the destructor, once       *)
(* begun, quits and joins every thread, without the help of the poll's     *)
(* timeout, even when a loop has quit by itself or has gone before its     *)
(* wakeup is written.                                                      *)
(***************************************************************************)
PoolStartsAndEnds ==
    /\ (owner = "starting") ~> (owner = "running")
    /\ (owner # "new") ~> (client = "heard")
    /\ (owner = "quit") ~> (owner = "gone")
=============================================================================
