----------------------- MODULE EventLoopThreadProofs -----------------------
(***************************************************************************)
(* Proofs about EventLoopThreadPool for any number of threads: a loop that *)
(* the pool hands out is alive until quit() was called on it, and the      *)
(* loops are handed out evenly.                                            *)
(***************************************************************************)
EXTENDS EventLoopThread, TLAPS

Published == {"looping", "polling", "destroyed"}
Serving == {"running"} \cup Ending

PoolTypeOK ==
    /\ numThreads \in 0 .. MaxThreads
    /\ owner \in {"new", "callback", "starting", "test", "waiting"} \cup Serving
    /\ at \in Nat /\ next \in Nat
    /\ served \in [0 .. MaxThreads -> Nat]
    /\ state \in [Threads -> {"none", "spawned", "called", "ready"} \cup Published]
    /\ loopPtr \in [Threads -> BOOLEAN]
    /\ quit \in [Threads -> BOOLEAN]

\* loop_ is set only while the loop is on its thread's stack, or was, and has
\* then been told to quit.
PointerMeansLoop ==
    \A t \in Threads :
       /\ loopPtr[t] => state[t] \in Published
       /\ state[t] = "destroyed" => quit[t]

\* How far Start has come, and which pointers it has read by then.
PointersRead ==
    /\ owner = "new" => at = 0
    /\ owner = "callback" => numThreads = 0
    /\ owner = "starting" => at < numThreads /\ \A t \in Threads : t <= at => loopPtr[t]
    /\ owner \in {"test", "waiting"} =>
          at >= 1 /\ at <= numThreads /\ \A t \in Threads : t < at => loopPtr[t]
    /\ owner \in Serving => \A t \in Threads : t <= numThreads => loopPtr[t]

\* During Start the threads after the current one do not exist yet.
NotYetSpawned ==
    owner \notin Serving => \A t \in Threads : t > at => state[t] = "none"

\* Nothing is handed out before Start has returned.
ServedLater ==
    \A t \in Threads : served[t] > 0 => owner \in Serving /\ t <= numThreads

\* next_ divides the loops into those that have had their turn in this round
\* and those that have not.
RoundRobin ==
    /\ numThreads > 0 => next < numThreads
    /\ \A s, t \in 1 .. numThreads :
          /\ (s <= next <=> t <= next) => served[s] = served[t]
          /\ s <= next /\ t > next => served[s] = served[t] + 1

PoolInv == /\ PoolTypeOK /\ PointerMeansLoop /\ PointersRead
           /\ NotYetSpawned /\ ServedLater /\ RoundRobin

-----------------------------------------------------------------------------
\* A step that leaves the pool's owner and its bookkeeping alone, and the
\* pointers already published, keeps the invariant if it keeps what a pointer
\* means.
LEMMA ThreadSide ==
    ASSUME PoolInv,
           UNCHANGED <<numThreads, at, next, served>>,
           owner' = owner \/ (owner = "waiting" /\ owner' = "test"),
           state' \in [Threads -> {"none", "spawned", "called", "ready"} \cup Published],
           loopPtr' \in [Threads -> BOOLEAN], quit' \in [Threads -> BOOLEAN],
           \A t \in Threads : loopPtr[t] => loopPtr'[t],
           \A t \in Threads : state[t] = "none" => state'[t] = "none",
           PointerMeansLoop'
    PROVE  PoolInv'
<1>1. PoolTypeOK'
  BY DEF PoolInv, PoolTypeOK, Serving, Ending
<1>2. PointersRead'
  BY DEF PoolInv, PointersRead, Serving, Ending
<1>3. NotYetSpawned' /\ ServedLater' /\ RoundRobin'
  BY DEF PoolInv, NotYetSpawned, ServedLater, RoundRobin, Serving, Ending
<1> QED BY <1>1, <1>2, <1>3 DEF PoolInv

\* A step of the owner that changes no loop and hands none out keeps the
\* invariant if the owner's place is right for the pointers it has read.
LEMMA OwnerSide ==
    ASSUME PoolInv,
           UNCHANGED <<numThreads, next, served, loopPtr>>,
           at' \in Nat,
           owner' \in {"new", "callback", "starting", "test", "waiting"} \cup Serving,
           owner \in Serving => owner' \in Serving,
           state' \in [Threads -> {"none", "spawned", "called", "ready"} \cup Published],
           quit' \in [Threads -> BOOLEAN],
           PointerMeansLoop', PointersRead', NotYetSpawned'
    PROVE  PoolInv'
<1>1. PoolTypeOK'
  BY DEF PoolInv, PoolTypeOK
<1>2. ServedLater' /\ RoundRobin'
  BY DEF PoolInv, ServedLater, RoundRobin
<1> QED BY <1>1, <1>2 DEF PoolInv

\* Every step keeps the invariant.
LEMMA PoolInvStep == PoolInv /\ [Next]_vars => PoolInv'
<1> SUFFICES ASSUME PoolInv, [Next]_vars PROVE PoolInv'
  OBVIOUS
<1> USE ThreadsAssumption
<1>t. PoolTypeOK /\ PointerMeansLoop /\ PointersRead /\ NotYetSpawned
  BY DEF PoolInv
<1>1. CASE PoolStart
  <2>1. PointersRead' /\ NotYetSpawned'
    BY <1>1, <1>t DEF PoolStart, PoolTypeOK, PointersRead, NotYetSpawned, loopVars, Serving, Ending, Threads
  <2>2. owner' \in {"callback", "starting"} /\ owner \notin Serving
    BY <1>1 DEF PoolStart, Serving, Ending
  <2>3. UNCHANGED <<numThreads, next, served, at, state, quit, loopPtr>>
    BY <1>1 DEF PoolStart, loopVars
  <2> QED BY <2>1, <2>2, <2>3, <1>t, OwnerSide DEF PoolTypeOK, PointerMeansLoop
<1>2. CASE BaseCallbackPuts
  <2>1. PointersRead' /\ NotYetSpawned'
    BY <1>2, <1>t DEF BaseCallbackPuts, PoolTypeOK, PointersRead, NotYetSpawned, loopVars, Serving, Ending, Threads
  <2>2. owner' \in Serving
    BY <1>2 DEF BaseCallbackPuts, Serving, Ending
  <2>3. UNCHANGED <<numThreads, next, served, at, state, quit, loopPtr>>
    BY <1>2 DEF BaseCallbackPuts, loopVars
  <2> QED BY <2>1, <2>2, <2>3, <1>t, OwnerSide DEF PoolTypeOK, PointerMeansLoop
<1>3. CASE SpawnThread
  <2>1. at + 1 \in Threads /\ at' = at + 1 /\ at' \in Nat
    BY <1>3, <1>t DEF SpawnThread, PoolTypeOK, Threads
  <2>2. UNCHANGED <<numThreads, next, served, quit, loopPtr>> /\ owner' = "test" /\ owner = "starting"
    BY <1>3 DEF SpawnThread
  <2>3. state' \in [Threads -> {"none", "spawned", "called", "ready"} \cup Published]
    BY <1>3, <1>t DEF SpawnThread, PoolTypeOK
  <2>4. PointersRead' /\ NotYetSpawned'
    BY <1>3, <1>t, <2>1, <2>2
    DEF SpawnThread, PoolTypeOK, PointersRead, NotYetSpawned, Serving, Ending, Threads
  <2>5. PointerMeansLoop'
    <3>1. ~loopPtr[at + 1]   \* its thread was not spawned before
      BY <1>t, <2>1, <2>2 DEF NotYetSpawned, PointerMeansLoop, PoolTypeOK, Serving, Ending, Published
    <3> QED BY <1>3, <1>t, <2>1, <2>2, <3>1 DEF SpawnThread, PointerMeansLoop, PoolTypeOK, Published
  <2> QED BY <2>1, <2>2, <2>3, <2>4, <2>5, <1>t, OwnerSide DEF PoolTypeOK, Serving, Ending
<1>4. CASE StartLoopTest
  <2>1. UNCHANGED <<numThreads, next, served, at, state, quit, loopPtr>> /\ owner = "test"
    BY <1>4 DEF StartLoopTest, loopVars
  <2>2. owner' \in {"waiting", "starting", "running"}
    BY <1>4 DEF StartLoopTest
  <2>3. PointersRead'
    BY <1>4, <1>t, <2>1 DEF StartLoopTest, PoolTypeOK, PointersRead, Serving, Ending, Threads
  <2>4. NotYetSpawned'
    BY <1>4, <1>t, <2>1, <2>2 DEF NotYetSpawned, Serving, Ending
  <2> QED BY <2>1, <2>2, <2>3, <2>4, <1>t, OwnerSide DEF PoolTypeOK, PointerMeansLoop, Serving, Ending
<1>5. CASE SpuriousStart
  <2>1. /\ UNCHANGED <<numThreads, next, served, at, state, quit, loopPtr>>
        /\ owner = "waiting" /\ owner' = "test"
    BY <1>5 DEF SpuriousStart, loopVars
  <2> QED BY <2>1, <1>t, ThreadSide DEF PoolTypeOK, PointerMeansLoop
<1>6. CASE NextLoop
  <2> DEFINE loop == IF numThreads = 0 THEN 0 ELSE next + 1
  <2>1. /\ UNCHANGED <<numThreads, owner, at, state, quit, loopPtr>> /\ owner = "running"
        /\ served' = [served EXCEPT ![loop] = @ + 1]
        /\ next' = IF numThreads = 0 THEN next
                   ELSE IF next + 1 >= numThreads THEN 0 ELSE next + 1
    BY <1>6 DEF NextLoop, loopVars
  <2>2. RoundRobin /\ ServedLater
    BY DEF PoolInv
  <2>3. loop \in 0 .. MaxThreads /\ loop <= numThreads
    BY <1>t, <2>2 DEF PoolTypeOK, RoundRobin
  <2>4. /\ served' \in [0 .. MaxThreads -> Nat]
        /\ served'[loop] = served[loop] + 1
        /\ \A t \in 0 .. MaxThreads : t # loop => served'[t] = served[t]
    BY <2>1, <2>3, <1>t DEF PoolTypeOK
  <2>5. PoolTypeOK'
    BY <2>1, <2>4, <1>t DEF PoolTypeOK
  <2>6. ServedLater'
    BY <2>1, <2>2, <2>3, <2>4, <1>t DEF PoolTypeOK, ServedLater, Serving, Ending, Threads
  <2>7. RoundRobin'
    <3>1. CASE numThreads = 0
      BY <3>1, <2>1 DEF RoundRobin
    <3>2. CASE numThreads # 0
      <4>1. loop = next + 1 /\ next < numThreads
        BY <3>2, <2>2, <1>t DEF RoundRobin, PoolTypeOK
      <4> HIDE DEF loop
      <4>2. /\ \A t \in 1 .. numThreads : served[t] \in Nat
            /\ \A t \in 1 .. numThreads :
                  served'[t] = IF t = next + 1 THEN served[t] + 1 ELSE served[t]
        BY <4>1, <2>4, <1>t DEF PoolTypeOK
      <4>3. CASE next + 1 < numThreads
        <5>1. next' = next + 1 /\ numThreads' = numThreads
          BY <4>3, <2>1, <1>t, <3>2 DEF PoolTypeOK
        <5>2. next + 1 \in 1 .. numThreads /\ next \in Nat
          BY <4>3, <1>t DEF PoolTypeOK
        <5>3. \A t \in 1 .. numThreads : t <= next' <=> t <= next \/ t = next + 1
          BY <5>1, <5>2, <1>t DEF PoolTypeOK
        <5>4. ASSUME NEW s \in 1 .. numThreads
              PROVE  IF s <= next' THEN served'[s] = served[next + 1] + 1
                     ELSE served'[s] = served[next + 1]
          <6>1. s <= next => served[s] = served[next + 1] + 1
            BY <5>2, <2>2 DEF RoundRobin
          <6>2. ~(s <= next) => served[s] = served[next + 1]
            BY <5>2, <2>2 DEF RoundRobin
          <6> QED BY <5>2, <5>3, <6>1, <6>2, <4>2
        <5>5. \A s \in 1 .. numThreads : s > next' => ~(s <= next')
          BY <5>1, <5>2
        <5> QED BY <5>1, <5>2, <5>4, <5>5, <4>3, <4>2 DEF RoundRobin
      <4>4. CASE next + 1 = numThreads
        <5>1. next' = 0 /\ numThreads' = numThreads
          BY <4>4, <2>1, <1>t, <3>2 DEF PoolTypeOK
        <5> QED BY <5>1, <4>1, <4>2, <4>4, <2>2, <1>t DEF RoundRobin, PoolTypeOK
      <4> QED BY <4>1, <4>3, <4>4, <1>t DEF PoolTypeOK
    <3> QED BY <3>1, <3>2
  <2>8. PointerMeansLoop' /\ PointersRead' /\ NotYetSpawned'
    BY <2>1, <1>t DEF PointerMeansLoop, PointersRead, NotYetSpawned
  <2> QED BY <2>5, <2>6, <2>7, <2>8 DEF PoolInv
<1>7. CASE Destroy
  <2>1. /\ UNCHANGED <<numThreads, next, served, state, quit, loopPtr>> /\ owner = "running"
        /\ at' = 1 /\ owner' \in {"quit", "gone"}
    BY <1>7 DEF Destroy, DestroyNext, loopVars
  <2>2. PointersRead' /\ NotYetSpawned'
    BY <2>1, <1>t DEF PointersRead, NotYetSpawned, Serving, Ending
  <2> QED BY <2>1, <2>2, <1>t, OwnerSide DEF PoolTypeOK, PointerMeansLoop, Serving, Ending
<1>8. CASE QuitFlag
  <2>1. /\ UNCHANGED <<numThreads, at, next, served, state, loopPtr>> /\ owner = "quit"
        /\ quit' = [quit EXCEPT ![at] = TRUE] /\ owner' = "wakeup"
    BY <1>8 DEF QuitFlag
  <2>2. PointersRead' /\ NotYetSpawned'
    BY <2>1, <1>t DEF PointersRead, NotYetSpawned, Serving, Ending
  <2>3. PointerMeansLoop' /\ quit' \in [Threads -> BOOLEAN]
    BY <2>1, <1>t DEF PoolTypeOK, PointerMeansLoop
  <2> QED BY <2>1, <2>2, <2>3, <1>t, OwnerSide DEF PoolTypeOK, Serving, Ending
<1>9. CASE QuitWakeup
  <2>1. /\ UNCHANGED <<numThreads, at, next, served, state, quit, loopPtr>> /\ owner = "wakeup"
        /\ owner' = "join"
    BY <1>9 DEF QuitWakeup
  <2>2. PointersRead' /\ NotYetSpawned'
    BY <2>1, <1>t DEF PointersRead, NotYetSpawned, Serving, Ending
  <2> QED BY <2>1, <2>2, <1>t, OwnerSide DEF PoolTypeOK, PointerMeansLoop, Serving, Ending
<1>10. CASE Join
  <2>1. /\ UNCHANGED <<numThreads, next, served, state, quit, loopPtr>> /\ owner = "join"
        /\ at' = at + 1 /\ owner' \in {"quit", "gone"}
    BY <1>10 DEF Join, DestroyNext, loopVars
  <2>2. PointersRead' /\ NotYetSpawned'
    BY <2>1, <1>t DEF PointersRead, NotYetSpawned, Serving, Ending
  <2> QED BY <2>1, <2>2, <1>t, OwnerSide DEF PoolTypeOK, PointerMeansLoop, Serving, Ending
<1>11. CASE ClientStep \/ SpuriousClient \/ Done \/ UNCHANGED vars
  <2>1. UNCHANGED <<numThreads, owner, at, next, served, state, quit, loopPtr>>
    BY <1>11 DEF ClientStep, WaitCallbacks, HearCallback, SpuriousClient, Done, vars, poolVars, loopVars
  <2> QED BY <2>1, <1>t, ThreadSide DEF PoolTypeOK, PointerMeansLoop
<1>12. ASSUME NEW t \in Threads, ThreadCallback(t) \/ ThreadCallbackPuts(t)
       PROVE  PoolInv'
  <2>1. UNCHANGED <<numThreads, owner, at, next, served, quit, loopPtr>>
    BY <1>12 DEF ThreadCallback, ThreadCallbackPuts, poolVars
  <2>2. \E next_place \in {"called", "ready"} : state' = [state EXCEPT ![t] = next_place]
    BY <1>12 DEF ThreadCallback, ThreadCallbackPuts
  <2>3. state[t] \in {"spawned", "called"}
    BY <1>12 DEF ThreadCallback, ThreadCallbackPuts
  <2>4. ~loopPtr[t]
    BY <2>3, <1>t DEF PointerMeansLoop, Published
  <2>5. /\ state' \in [Threads -> {"none", "spawned", "called", "ready"} \cup Published]
        /\ PointerMeansLoop' /\ \A s \in Threads : state[s] = "none" => state'[s] = "none"
    BY <2>1, <2>2, <2>3, <2>4, <1>t DEF PoolTypeOK, PointerMeansLoop, Published
  <2> QED BY <2>1, <2>5, <1>t, ThreadSide DEF PoolTypeOK
<1>13. ASSUME NEW t \in Threads, ThreadPublish(t)
       PROVE  PoolInv'
  <2>1. /\ UNCHANGED <<numThreads, at, next, served, quit>>
        /\ owner' = owner \/ (owner = "waiting" /\ owner' = "test")
        /\ state[t] = "ready"
        /\ state' = [state EXCEPT ![t] = "looping"]
        /\ loopPtr' = [loopPtr EXCEPT ![t] = TRUE]
    BY <1>13 DEF ThreadPublish
  <2>2. /\ state' \in [Threads -> {"none", "spawned", "called", "ready"} \cup Published]
        /\ loopPtr' \in [Threads -> BOOLEAN]
        /\ PointerMeansLoop'
        /\ \A s \in Threads : state[s] = "none" => state'[s] = "none"
        /\ \A s \in Threads : loopPtr[s] => loopPtr'[s]
    BY <2>1, <1>t DEF PoolTypeOK, PointerMeansLoop, Published
  <2> QED BY <2>1, <2>2, <1>t, ThreadSide DEF PoolTypeOK
<1>14. ASSUME NEW t \in Threads, LoopTest(t) \/ PollWakeup(t) \/ PollTimeout(t)
       PROVE  PoolInv'
  <2>1. /\ UNCHANGED <<numThreads, owner, at, next, served, quit, loopPtr>>
        /\ state[t] \in {"looping", "polling"}
    BY <1>14 DEF LoopTest, PollWakeup, PollTimeout, poolVars
  <2>2. \E place \in Published : /\ state' = [state EXCEPT ![t] = place]
                                 /\ place = "destroyed" => quit[t]
    BY <1>14 DEF LoopTest, PollWakeup, PollTimeout, Published
  <2>3. /\ state' \in [Threads -> {"none", "spawned", "called", "ready"} \cup Published]
        /\ PointerMeansLoop' /\ \A s \in Threads : state[s] = "none" => state'[s] = "none"
    BY <2>1, <2>2, <1>t DEF PoolTypeOK, PointerMeansLoop, Published
  <2> QED BY <2>1, <2>3, <1>t, ThreadSide DEF PoolTypeOK
<1>15. ASSUME NEW t \in Threads, SelfQuit(t)
       PROVE  PoolInv'
  <2>1. /\ UNCHANGED <<numThreads, owner, at, next, served, state, loopPtr>>
        /\ quit' = [quit EXCEPT ![t] = TRUE]
    BY <1>15 DEF SelfQuit, poolVars
  <2>2. PointerMeansLoop' /\ quit' \in [Threads -> BOOLEAN]
    BY <2>1, <1>t DEF PoolTypeOK, PointerMeansLoop
  <2> QED BY <2>1, <2>2, <1>t, ThreadSide DEF PoolTypeOK
<1> QED
  BY <1>1, <1>2, <1>3, <1>4, <1>5, <1>6, <1>7, <1>8, <1>9, <1>10, <1>11, <1>12, <1>13, <1>14, <1>15
  DEF Next, OwnerStep, ThreadStep

\* A loop that the pool has taken into loops_ or that NextLoop has returned is
\* looping or has been told to quit, and NextLoop favours no loop by more than
\* one turn, whatever the number of threads.
THEOREM LoopsStayLive == Spec => []LoopsHandedOutLive
<1>1. Init => PoolInv
  <2> SUFFICES ASSUME Init PROVE PoolInv
    OBVIOUS
  <2>1. PoolTypeOK /\ PointerMeansLoop
    BY ThreadsAssumption DEF Init, PoolTypeOK, PointerMeansLoop, Serving, Ending, Published
  <2>2. PointersRead /\ NotYetSpawned /\ ServedLater
    BY ThreadsAssumption DEF Init, PointersRead, NotYetSpawned, ServedLater, Serving, Ending, Threads
  <2>3. RoundRobin
    BY ThreadsAssumption DEF Init, RoundRobin
  <2> QED BY <2>1, <2>2, <2>3 DEF PoolInv
<1>2. PoolInv => LoopsHandedOutLive
  <2> SUFFICES ASSUME PoolInv PROVE LoopsHandedOutLive
    OBVIOUS
  <2>1. ASSUME NEW t \in Threads,
               \/ t <= numThreads /\ owner \in {"running"} \cup Ending
               \/ owner \in {"starting", "test", "waiting"} /\ t < at
               \/ served[t] > 0
        PROVE  loopPtr[t]
    BY <2>1, ThreadsAssumption
    DEF PoolInv, PoolTypeOK, PointersRead, ServedLater, Serving, Ending, Threads
  <2>2. \A s, t \in 1 .. numThreads : served[s] <= served[t] + 1
    <3> TAKE s, t \in 1 .. numThreads
    <3>1. served[s] \in Nat /\ served[t] \in Nat
      BY ThreadsAssumption DEF PoolInv, PoolTypeOK
    <3>2. \/ served[s] = served[t] \/ served[s] = served[t] + 1 \/ served[t] = served[s] + 1
      BY ThreadsAssumption DEF PoolInv, PoolTypeOK, RoundRobin
    <3> QED BY <3>1, <3>2
  <2> QED BY <2>1, <2>2 DEF LoopsHandedOutLive, PoolInv, PointerMeansLoop, Published
<1> QED BY <1>1, <1>2, PoolInvStep, PTL DEF Spec
=============================================================================
