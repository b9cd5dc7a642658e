------------------------- MODULE TimeoutQueueProofs -------------------------
(***************************************************************************)
(* Proofs about TimeoutQueue, for any number of threads and timers and any  *)
(* times: no timer is slept through, a one-shot timer fires at most once,   *)
(* an erased one does not come back, a Cancel that follows its Add works,   *)
(* and, as long as no delay overflows an int, no callback comes early.      *)
(***************************************************************************)
EXTENDS TimeoutQueue, TLAPS

Ints == -IntLimit .. IntLimit - 1

\* Every delay in microseconds fits an int.
NoOverflow == \A d \in Delays : d * UsPerMs < IntLimit

-----------------------------------------------------------------------------
(* Type correctness *)

LEMMA AsIntType ==
  ASSUME NEW x \in Nat
  PROVE  AsInt(x) \in Ints
<1>1. IntLimit \in Nat \ {0}
  BY TimeAssumption
<1>2. CASE x < IntLimit
  BY <1>1, <1>2 DEF AsInt, Ints
<1>3. CASE ~(x < IntLimit)
  <2>1. x + IntLimit \in Int /\ 2 * IntLimit \in Nat /\ 2 * IntLimit > 0
    BY <1>1
  <2>2. ASSUME NEW a \in Int, NEW n \in Nat, n > 0 PROVE a % n \in 0 .. n - 1
    BY <2>2
  <2>3. (x + IntLimit) % (2 * IntLimit) \in 0 .. 2 * IntLimit - 1
    BY <2>1, <2>2
  <2> HIDE <2>2
  <2>4. AsInt(x) = ((x + IntLimit) % (2 * IntLimit)) - IntLimit
    BY <1>3 DEF AsInt
  <2> DEFINE m == (x + IntLimit) % (2 * IntLimit)
  <2>5. m \in 0 .. 2 * IntLimit - 1 /\ AsInt(x) = m - IntLimit
    BY <2>3, <2>4
  <2> HIDE DEF m
  <2> QED BY <1>1, <2>5 DEF Ints
<1> QED BY <1>2, <1>3

LEMMA DelayType ==
  ASSUME NEW d \in Delays
  PROVE  d * UsPerMs \in Nat /\ AsInt(d * UsPerMs) \in Ints
<1>1. d \in Nat /\ UsPerMs \in Nat
  BY TimeAssumption
<1>2. d * UsPerMs \in Nat
  BY <1>1
<1> QED BY <1>2, AsIntType

\* A step that adds a timer is an Add with well-typed arguments, and with the
\* expiration its caller asked for if nothing overflows.
LEMMA AddArguments ==
  ASSUME TypeOK, NEW p \in AllThreads,
         \/ \E x \in Times : RunAt(p, x)
         \/ \E d \in Delays : RunAfter(p, d)
         \/ \E d \in Delays : RunEvery(p, d)
  PROVE  \E x \in Moments, i \in Ints, w \in Int : Add(p, x, i, w) /\ (NoOverflow => w = x)
<1>0. now \in 0 .. MaxTime /\ MaxTime \in Nat /\ IntLimit \in Nat \ {0} /\ Far \in Nat
      /\ MaxTime + IntLimit < Far /\ Once \in Ints
  BY TimeAssumption DEF TypeOK, Once, Ints
<1>1. ASSUME NEW x \in Times, RunAt(p, x)
      PROVE  x \in Moments /\ x \in Int /\ Add(p, x, Once, x)
  BY <1>1, TimeAssumption DEF RunAt, Moments
<1>2. ASSUME NEW d \in Delays, NEW i \in Ints
      PROVE  now + i \in Moments
  BY <1>0 DEF Ints, Moments
<1>3. ASSUME NEW d \in Delays, RunAfter(p, d)
      PROVE  \E x \in Moments, i \in Ints, w \in Int : Add(p, x, i, w) /\ (NoOverflow => w = x)
  <2>1. /\ AsInt(d * UsPerMs) \in Ints /\ now + d * UsPerMs \in Int
        /\ NoOverflow => AsInt(d * UsPerMs) = d * UsPerMs
    BY <1>0, DelayType DEF NoOverflow, AsInt
  <2>2. Add(p, now + AsInt(d * UsPerMs), Once, now + d * UsPerMs)
    BY <1>3 DEF RunAfter
  <2> QED BY <1>0, <1>2, <2>1, <2>2
<1>4. ASSUME NEW d \in Delays, RunEvery(p, d)
      PROVE  \E x \in Moments, i \in Ints, w \in Int : Add(p, x, i, w) /\ (NoOverflow => w = x)
  <2>1. /\ AsInt(d * UsPerMs) \in Ints /\ now + d * UsPerMs \in Int
        /\ NoOverflow => AsInt(d * UsPerMs) = d * UsPerMs
    BY <1>0, DelayType DEF NoOverflow, AsInt
  <2>2. Add(p, now + AsInt(d * UsPerMs), AsInt(d * UsPerMs), now + d * UsPerMs)
    BY <1>4 DEF RunEvery
  <2> QED BY <1>2, <2>1, <2>2
<1> QED BY <1>0, <1>1, <1>3, <1>4

LEMMA ReinsertedType ==
  ASSUME TypeOK, NEW E \in SUBSET timeouts
  PROVE  Reinserted(E) \subseteq Events
<1>1. now \in 0 .. MaxTime /\ MaxTime \in Nat /\ IntLimit \in Nat \ {0} /\ Far \in Nat
      /\ MaxTime + IntLimit < Far
  BY TimeAssumption DEF TypeOK
<1>2. ASSUME NEW e \in Events, e.repeat_interval >= 0
      PROVE  [e EXCEPT !.expiration = now + e.repeat_interval] \in Events
  BY <1>1, <1>2 DEF Events, Moments
<1> QED BY <1>2 DEF Reinserted, TypeOK

\* Every variable keeps its type: whatever RunAfter makes of a delay, and however
\* often Run puts a repeating event back, expirations stay below the numeric
\* limit that stands for an empty queue.
THEOREM TypeCorrect == Spec => []TypeOK
<1>1. Init => TypeOK
  <2> SUFFICES ASSUME Init PROVE TypeOK
    OBVIOUS
  <2>1. pending \in Seq(PendingTasks)
    BY DEF Init
  <2>2. now \in 0 .. MaxTime /\ next \in 1 .. MaxTimers + 1 /\ deadline \in Int
    BY TimeAssumption DEF Init
  <2>3. due \in [Ids -> Int] /\ adder \in [Ids -> AllThreads]
    BY DEF Init, AllThreads
  <2> QED BY <2>1, <2>2, <2>3 DEF Init, TypeOK
<1>2. TypeOK /\ [Next]_vars => TypeOK'
  <2> SUFFICES ASSUME TypeOK, [Next]_vars PROVE TypeOK'
    OBVIOUS
  <2>0. /\ now \in 0 .. MaxTime /\ MaxTime \in Nat /\ MaxTimers \in Nat /\ MinDelta \in Nat
        /\ Far \in Nat
    BY TimeAssumption DEF TypeOK
  <2>1. ASSUME NEW p \in AllThreads, NEW x \in Moments, NEW i \in Ints, NEW w \in Int,
               Add(p, x, i, w)
        PROVE  TypeOK'
    <3> DEFINE e == [id |-> next, expiration |-> x, repeat_interval |-> i]
    <3>1. next \in Ids /\ next' \in 1 .. MaxTimers + 1
      BY <2>0, <2>1 DEF Add, TypeOK, Ids
    <3>2. e \in Events
      BY <3>1 DEF Events, Ints
    <3>3. AddTask(e) \in PendingTasks
      BY <3>2 DEF AddTask, PendingTasks
    <3>4. pending' \in Seq(PendingTasks)
      <4>1. pending' = pending \/ pending' = Append(pending, AddTask(e))
        BY <2>1 DEF Add, Post
      <4> QED BY <3>3, <4>1 DEF TypeOK
    <3>5. timeouts' \subseteq Events /\ deadline' \in Int
      BY <2>0, <2>1, <3>2 DEF Add, AddInLoop, ResetTimerfd, TypeOK, Moments
    <3>6. due' \in [Ids -> Int] /\ adder' \in [Ids -> AllThreads]
      BY <2>1, <3>1 DEF Add, TypeOK
    <3> QED BY <2>1, <3>1, <3>4, <3>5, <3>6 DEF Add, TypeOK
  <2>2. ASSUME NEW p \in AllThreads, NEW i \in Ids, Cancel(p, i) PROVE TypeOK'
    <3>1. CancelTask(i) \in PendingTasks
      BY DEF CancelTask, PendingTasks
    <3>2. pending' \in Seq(PendingTasks)
      <4>1. pending' = pending \/ pending' = Append(pending, CancelTask(i))
        BY <2>2 DEF Cancel, Post
      <4> QED BY <3>1, <4>1 DEF TypeOK
    <3>3. timeouts' \subseteq Events /\ erased' \subseteq Ids /\ cancelled' \subseteq Ids \X AllThreads
      BY <2>2 DEF Cancel, CancelInLoop, TypeOK
    <3> QED BY <2>2, <3>2, <3>3 DEF Cancel, TypeOK
  <2>3. CASE RunPendingTask
    <3>1. Head(pending) \in PendingTasks /\ pending' \in Seq(PendingTasks)
      BY <2>3 DEF RunPendingTask, TypeOK
    <3>2. CASE Head(pending).kind = "AddInLoop" /\ AddInLoop(Head(pending).event) /\ UNCHANGED erased
      <4>1. Head(pending).event \in Events
        BY <3>1, <3>2 DEF PendingTasks
      <4>2. timeouts' \subseteq Events /\ deadline' \in Int
        BY <2>0, <3>2, <4>1 DEF AddInLoop, ResetTimerfd, TypeOK, Events, Moments
      <4> QED BY <2>3, <3>1, <3>2, <4>2 DEF RunPendingTask, TypeOK
    <3>3. CASE Head(pending).kind = "CancelInLoop" /\ CancelInLoop(Head(pending).id)
               /\ UNCHANGED deadline
      <4>1. Head(pending).id \in Ids
        BY <3>1, <3>3 DEF PendingTasks
      <4>2. timeouts' \subseteq Events /\ erased' \subseteq Ids
        BY <3>3, <4>1 DEF CancelInLoop, TypeOK
      <4> QED BY <2>3, <3>1, <3>3, <4>2 DEF RunPendingTask, TypeOK
    <3> QED BY <2>3, <3>2, <3>3 DEF RunPendingTask
  <2>4. CASE BeginUserCode \/ EndUserCode \/ PollTimer \/ EndCallback
    BY <2>4 DEF BeginUserCode, EndUserCode, PollTimer, EndCallback, TypeOK
  <2>5. CASE OnTimer
    <3>1. Reinserted({e \in timeouts : IsDue(e)}) \subseteq Events
      BY ReinsertedType
    <3>2. deadline' \in Int
      BY <2>0, <2>5 DEF OnTimer, ReadTimerfd, TypeOK
    <3> QED BY <2>5, <3>1, <3>2 DEF OnTimer, TypeOK
  <2>6. ASSUME NEW e \in expired, BeginCallback(e) PROVE TypeOK'
    <3>1. e.id \in Ids
      BY DEF TypeOK, Events
    <3> QED BY <2>6, <3>1 DEF BeginCallback, TypeOK
  <2>7. CASE EndTimer
    <3>1. PICK x \in {e.expiration : e \in timeouts} \cup {Far} : ResetTimerfd(x)
      BY <2>7 DEF EndTimer
    <3>2. x \in Int
      BY <2>0 DEF TypeOK, Events, Moments
    <3>3. deadline' \in Int
      BY <2>0, <3>1, <3>2 DEF ResetTimerfd
    <3> QED BY <2>7, <3>3 DEF EndTimer, TypeOK
  <2>8. CASE Tick
    BY <2>0, <2>8 DEF Tick, TypeOK
  <2>9. CASE UNCHANGED vars
    BY <2>9 DEF vars, TypeOK
  <2> QED BY <2>1, <2>2, <2>3, <2>4, <2>5, <2>6, <2>7, <2>8, <2>9, AddArguments DEF Next
<1> QED BY <1>1, <1>2, PTL DEF Spec

-----------------------------------------------------------------------------
(* No timer is slept through *)

\* What AddInLoop does to the timerfd covers the new event as well as the old.
LEMMA AddCovers ==
  ASSUME TypeOK, NEW e \in Events, AddInLoop(e), UNCHANGED <<now, reported>>,
         \A f \in timeouts : \/ reported
                             \/ deadline <= f.expiration
                             \/ deadline <= now + MinDelta
  PROVE  \A f \in timeouts' : \/ reported
                              \/ deadline' <= f.expiration
                              \/ deadline' <= now + MinDelta
<1>1. now \in Int /\ MinDelta \in Int /\ e.expiration \in Int /\ deadline \in Int
      /\ e.expiration < Far
  BY TimeAssumption DEF TypeOK, Events, Moments
<1>2. \A f \in timeouts : f.expiration \in Int
  BY DEF TypeOK, Events, Moments
<1>3. CASE \A f \in timeouts : e.expiration < f.expiration
  BY <1>1, <1>2, <1>3 DEF AddInLoop, ResetTimerfd
<1>4. CASE ~(\A f \in timeouts : e.expiration < f.expiration)
  <2>1. PICK f \in timeouts : f.expiration <= e.expiration
    BY <1>1, <1>2, <1>4
  <2>2. reported \/ deadline <= e.expiration \/ deadline <= now + MinDelta
    BY <1>1, <1>2, <2>1
  <2>3. deadline' = deadline /\ timeouts' = timeouts \cup {e}
    BY <1>1, <1>4 DEF AddInLoop
  <2> QED BY <2>2, <2>3
<1> QED BY <1>3, <1>4

\* The timerfd never lets the loop sleep past the earliest event: it is inductive
\* as it stands, because outside OnTimer AddInLoop re-arms whenever the earliest
\* event changes, and OnTimer does not end without re-arming.
THEOREM TimerfdAlwaysCovers == Spec => []TimerfdCoversEvents
<1>1. Init => TimerfdCoversEvents
  BY DEF Init, TimerfdCoversEvents
<1>2. TypeOK /\ TypeOK' /\ TimerfdCoversEvents /\ [Next]_vars => TimerfdCoversEvents'
  <2> SUFFICES ASSUME TypeOK, TypeOK', TimerfdCoversEvents, [Next]_vars,
                      pc' \in {"idle", "user"}
               PROVE  \A e \in timeouts' : \/ reported'
                                           \/ deadline' <= e.expiration
                                           \/ deadline' <= now' + MinDelta
    BY DEF TimerfdCoversEvents
  <2> DEFINE Covered == \A e \in timeouts' : \/ reported'
                                             \/ deadline' <= e.expiration
                                             \/ deadline' <= now' + MinDelta
  <2>0. now \in Int /\ MinDelta \in Int /\ deadline \in Int
    BY TimeAssumption DEF TypeOK
  <2>1. ASSUME NEW p \in AllThreads, NEW x \in Moments, NEW i \in Ints, NEW w \in Int,
               Add(p, x, i, w)
        PROVE  Covered
    <3> DEFINE e == [id |-> next, expiration |-> x, repeat_interval |-> i]
    <3>1. next \in Ids
      BY <2>1 DEF Add, TypeOK, Ids
    <3>2. e \in Events
      BY <3>1 DEF Events, Ints
    <3>3. pc \in {"idle", "user"} /\ UNCHANGED <<now, reported>>
      BY <2>1 DEF Add
    <3>4. AddInLoop(e) \/ UNCHANGED <<timeouts, deadline>>
      BY <2>1 DEF Add
    <3> HIDE DEF e
    <3>5. CASE AddInLoop(e)
      BY <3>2, <3>3, <3>5, AddCovers DEF TimerfdCoversEvents
    <3>6. CASE UNCHANGED <<timeouts, deadline>>
      BY <3>3, <3>6 DEF TimerfdCoversEvents
    <3> QED BY <3>4, <3>5, <3>6
  <2>2. ASSUME NEW p \in AllThreads, NEW i \in Ids, Cancel(p, i) PROVE Covered
    BY <2>2 DEF Cancel, CancelInLoop, TimerfdCoversEvents
  <2>3. CASE RunPendingTask
    <3>1. Head(pending) \in PendingTasks
      BY <2>3 DEF RunPendingTask, TypeOK
    <3>2. pc \in {"idle", "user"} /\ UNCHANGED <<now, reported>>
      BY <2>3 DEF RunPendingTask
    <3>3. CASE Head(pending).kind = "AddInLoop" /\ AddInLoop(Head(pending).event)
      <4>1. Head(pending).event \in Events
        BY <3>1, <3>3 DEF PendingTasks
      <4> QED BY <3>2, <3>3, <4>1, AddCovers DEF TimerfdCoversEvents
    <3>4. CASE CancelInLoop(Head(pending).id) /\ UNCHANGED deadline
      BY <3>2, <3>4 DEF CancelInLoop, TimerfdCoversEvents
    <3> QED BY <2>3, <3>3, <3>4 DEF RunPendingTask
  <2>4. CASE BeginUserCode \/ EndUserCode \/ PollTimer
    BY <2>4 DEF BeginUserCode, EndUserCode, PollTimer, TimerfdCoversEvents
  <2>5. CASE OnTimer
    BY <2>5 DEF OnTimer
  <2>6. CASE (\E e \in expired : BeginCallback(e)) \/ EndCallback
    BY <2>6 DEF BeginCallback, EndCallback
  <2>7. CASE EndTimer
    <3>1. PICK x \in {e.expiration : e \in timeouts} \cup {Far} :
             IsNextExpiration(timeouts, x) /\ ResetTimerfd(x)
      BY <2>7 DEF EndTimer
    <3>2. x \in Int /\ \A e \in timeouts : x <= e.expiration
      <4>1. Far \in Int /\ \A e \in timeouts : e.expiration \in Int
        BY TimeAssumption DEF TypeOK, Events, Moments
      <4> QED BY <3>1, <4>1 DEF IsNextExpiration
    <3>3. deadline' = x \/ deadline' <= now + MinDelta
      BY <2>0, <3>1, <3>2 DEF ResetTimerfd
    <3> QED BY <2>7, <3>2, <3>3 DEF EndTimer
  <2>8. CASE Tick
    BY <2>0, <2>8 DEF Tick, TimerfdCoversEvents
  <2>9. CASE UNCHANGED vars
    BY <2>9 DEF vars, TimerfdCoversEvents
  <2> QED BY <2>1, <2>2, <2>3, <2>4, <2>5, <2>6, <2>7, <2>8, <2>9, AddArguments DEF Next
<1> QED BY <1>1, <1>2, TypeCorrect, PTL DEF Spec

-----------------------------------------------------------------------------
(* The places of a timer *)

IsAdd(j) == pending[j].kind = "AddInLoop"

\* Every id in use has been handed out, and each posted AddInLoop has its own.
PendingInv ==
    /\ \A j \in DOMAIN pending : IF IsAdd(j) THEN pending[j].event.id < next ELSE pending[j].id < next
    /\ \A j, k \in DOMAIN pending :
          IsAdd(j) /\ IsAdd(k) /\ pending[j].event.id = pending[k].event.id => j = k

\* Where an id can be: OneShotOnce and EraseIsFinal, with what makes them
\* inductive: an id that was not handed out is nowhere, and each of the queue
\* and the expired events holds an id once.
PlaceInv ==
    /\ pc \in {"idle", "user"} => expired = {}
    /\ \A e \in timeouts : e.id < next
    /\ \A e \in expired : e.id < next
    /\ \A i \in fired \cup erased : i < next
    /\ \A e, f \in timeouts : e.id = f.id => e = f
    /\ \A e, f \in expired : e.id = f.id => e = f
    /\ \A e \in expired, f \in timeouts : e.repeat_interval < 0 => e.id # f.id
    /\ \A e \in timeouts \cup expired : e.id \notin PendingIds
    /\ fired \cap (IdsOf(timeouts) \cup IdsOf(expired) \cup PendingIds) = {}
    /\ EraseIsFinal

\* Posting an operation.
LEMMA PendingAppend ==
  ASSUME TypeOK, NEW task \in PendingTasks, pending' = Append(pending, task)
  PROVE  /\ DOMAIN pending' = DOMAIN pending \cup {Len(pending) + 1}
         /\ Len(pending) + 1 \notin DOMAIN pending
         /\ \A j \in DOMAIN pending : j < Len(pending) + 1 /\ pending'[j] = pending[j]
         /\ pending'[Len(pending) + 1] = task
         /\ PendingIds' = PendingIds \cup (IF task.kind = "AddInLoop" THEN {task.event.id} ELSE {})
<1>1. /\ DOMAIN pending = 1 .. Len(pending) /\ Len(pending) \in Nat
      /\ DOMAIN pending' = 1 .. Len(pending) + 1
      /\ \A j \in 1 .. Len(pending) : pending'[j] = pending[j]
      /\ pending'[Len(pending) + 1] = task
  BY DEF TypeOK
<1>2. /\ DOMAIN pending' = DOMAIN pending \cup {Len(pending) + 1}
      /\ Len(pending) + 1 \notin DOMAIN pending
      /\ \A j \in DOMAIN pending : j < Len(pending) + 1
  BY <1>1
<1> QED BY <1>1, <1>2 DEF PendingIds

\* Executing the oldest operation: position j of what is left was j + 1.
LEMMA PendingTail ==
  ASSUME TypeOK, PendingInv, pending # <<>>, pending' = Tail(pending)
  PROVE  /\ Head(pending) = pending[1] /\ pending[1] \in PendingTasks /\ 1 \in DOMAIN pending
         /\ \A j \in DOMAIN pending' : j + 1 \in DOMAIN pending /\ j + 1 # 1 /\ pending'[j] = pending[j + 1]
         /\ \A j \in DOMAIN pending : j # 1 => j - 1 \in DOMAIN pending' /\ pending'[j - 1] = pending[j]
         /\ PendingIds' = PendingIds \ (IF IsAdd(1) THEN {pending[1].event.id} ELSE {})
<1>1. /\ DOMAIN pending = 1 .. Len(pending) /\ Len(pending) \in Nat /\ Len(pending) > 0
      /\ DOMAIN pending' = 1 .. Len(pending) - 1
      /\ \A j \in 1 .. Len(pending) - 1 : pending'[j] = pending[j + 1]
      /\ Head(pending) = pending[1]
      /\ pending[1] \in PendingTasks
  BY DEF TypeOK
<1>2. /\ 1 \in DOMAIN pending
      /\ \A j \in DOMAIN pending' : j + 1 \in DOMAIN pending /\ j + 1 # 1 /\ pending'[j] = pending[j + 1]
      /\ \A j \in DOMAIN pending : j # 1 => j - 1 \in DOMAIN pending' /\ pending'[j - 1] = pending[j]
  BY <1>1
<1>3. \A i : i \in PendingIds' <=> \E j \in DOMAIN pending' :
                pending'[j].kind = "AddInLoop" /\ pending'[j].event.id = i
  BY DEF PendingIds
<1>4. \A i : i \in PendingIds <=> \E j \in DOMAIN pending :
                pending[j].kind = "AddInLoop" /\ pending[j].event.id = i
  BY DEF PendingIds
<1>5. ASSUME NEW i \in PendingIds' PROVE i \in PendingIds /\ (IsAdd(1) => i # pending[1].event.id)
  <2>1. PICK j \in DOMAIN pending' : pending'[j].kind = "AddInLoop" /\ pending'[j].event.id = i
    BY <1>3
  <2>2. j + 1 \in DOMAIN pending /\ j + 1 # 1 /\ IsAdd(j + 1) /\ pending[j + 1].event.id = i
    BY <1>2, <2>1 DEF IsAdd
  <2> QED BY <1>2, <1>4, <2>2 DEF IsAdd, PendingInv
<1>6. ASSUME NEW i \in PendingIds, IsAdd(1) => i # pending[1].event.id PROVE i \in PendingIds'
  <2>1. PICK j \in DOMAIN pending : pending[j].kind = "AddInLoop" /\ pending[j].event.id = i
    BY <1>4
  <2>2. j # 1
    BY <1>6, <2>1 DEF IsAdd
  <2>3. j - 1 \in DOMAIN pending' /\ pending'[j - 1] = pending[j]
    BY <1>2, <2>2
  <2>4. \E k \in DOMAIN pending' : pending'[k].kind = "AddInLoop" /\ pending'[k].event.id = i
    BY <2>1, <2>3
  <2> QED BY <1>3, <2>4
<1>7. PendingIds' = PendingIds \ (IF IsAdd(1) THEN {pending[1].event.id} ELSE {})
  BY <1>5, <1>6
<1> QED BY <1>1, <1>2, <1>7

LEMMA PendingStep ==
  ASSUME TypeOK, PendingInv, [Next]_vars
  PROVE  PendingInv'
<1>0. next \in Nat
  BY TimeAssumption DEF TypeOK
<1>1. CASE UNCHANGED <<pending, next>>
  BY <1>1 DEF PendingInv, IsAdd
<1>2. ASSUME NEW p \in AllThreads, NEW x \in Moments, NEW i \in Ints, NEW w \in Int, Add(p, x, i, w)
      PROVE  PendingInv'
  <2> DEFINE e == [id |-> next, expiration |-> x, repeat_interval |-> i]
  <2>1. next \in Ids /\ next' = next + 1
    BY <1>2 DEF Add, TypeOK, Ids
  <2>2. AddTask(e) \in PendingTasks /\ AddTask(e).kind = "AddInLoop" /\ AddTask(e).event.id = next
    <3>1. e \in Events
      BY <2>1 DEF Events, Ints
    <3> QED BY <3>1 DEF AddTask, PendingTasks
  <2>3. CASE pending' = Append(pending, AddTask(e))
    <3> DEFINE n == Len(pending) + 1
    <3>1. /\ DOMAIN pending' = DOMAIN pending \cup {n} /\ pending'[n] = AddTask(e)
          /\ \A j \in DOMAIN pending : pending'[j] = pending[j]
      BY <2>2, <2>3, PendingAppend
    <3> HIDE DEF e, n
    <3>2. \A j \in DOMAIN pending : /\ pending[j].kind = "AddInLoop" => pending[j].event.id \in Int
                                    /\ pending[j].kind # "AddInLoop" => pending[j].id \in Int
      <4>1. \A j \in DOMAIN pending : pending[j] \in PendingTasks
        BY DEF TypeOK
      <4>2. \A t \in PendingTasks : /\ t.kind = "AddInLoop" => t.event.id \in Int
                                    /\ t.kind # "AddInLoop" => t.id \in Int
        BY DEF PendingTasks, Events, Ids
      <4> QED BY <4>1, <4>2
    <3> QED BY <1>0, <2>1, <2>2, <3>1, <3>2 DEF PendingInv, IsAdd
  <2>4. CASE UNCHANGED pending
    <3>1. \A j \in DOMAIN pending : pending[j] \in PendingTasks
      BY DEF TypeOK
    <3>2. \A t \in PendingTasks : /\ t.kind = "AddInLoop" => t.event.id \in Int
                                  /\ t.kind # "AddInLoop" => t.id \in Int
      BY DEF PendingTasks, Events, Ids
    <3> QED BY <1>0, <2>1, <2>4, <3>1, <3>2 DEF PendingInv, IsAdd
  <2> QED BY <1>2, <2>3, <2>4 DEF Add, Post
<1>3. ASSUME NEW p \in AllThreads, NEW i \in Ids, Cancel(p, i) PROVE PendingInv'
  <2>1. CancelTask(i) \in PendingTasks /\ CancelTask(i).kind = "CancelInLoop" /\ CancelTask(i).id = i
    BY DEF CancelTask, PendingTasks
  <2>2. CASE pending' = Append(pending, CancelTask(i))
    <3> DEFINE n == Len(pending) + 1
    <3>1. /\ DOMAIN pending' = DOMAIN pending \cup {n} /\ pending'[n] = CancelTask(i)
          /\ \A j \in DOMAIN pending : pending'[j] = pending[j]
      BY <2>1, <2>2, PendingAppend
    <3>2. i < next /\ next' = next
      BY <1>3 DEF Cancel
    <3> HIDE DEF n
    <3> QED BY <2>1, <3>1, <3>2 DEF PendingInv, IsAdd
  <2>3. CASE UNCHANGED pending
    BY <1>1, <1>3, <2>3 DEF Cancel
  <2> QED BY <1>3, <2>2, <2>3 DEF Cancel, Post
<1>4. CASE RunPendingTask
  <2>1. next' = next /\ pending # <<>> /\ pending' = Tail(pending)
    BY <1>4 DEF RunPendingTask
  <2>2. /\ \A j \in DOMAIN pending' : j \in Int /\ j + 1 \in DOMAIN pending /\ pending'[j] = pending[j + 1]
    BY <2>1, PendingTail DEF TypeOK
  <2>3. \A j, k \in DOMAIN pending' : j + 1 = k + 1 => j = k
    BY <2>2
  <2> QED BY <2>1, <2>2, <2>3 DEF PendingInv, IsAdd
<1>5. CASE BeginUserCode \/ EndUserCode \/ PollTimer \/ OnTimer \/ (\E e \in expired : BeginCallback(e))
           \/ EndCallback \/ EndTimer \/ Tick \/ UNCHANGED vars
  BY <1>1, <1>5 DEF BeginUserCode, EndUserCode, PollTimer, OnTimer, BeginCallback, EndCallback,
     EndTimer, Tick, vars
<1> QED BY <1>2, <1>3, <1>4, <1>5, AddArguments DEF Next

\* The next event to be added has a new id, and joins the queue or the posted
\* operations.
LEMMA PlaceAdd ==
  ASSUME TypeOK, PendingInv, PlaceInv, NEW p \in AllThreads, NEW x \in Moments, NEW i \in Ints,
         NEW w \in Int, Add(p, x, i, w)
  PROVE  PlaceInv'
<1> DEFINE e == [id |-> next, expiration |-> x, repeat_interval |-> i]
<1>0. next \in Ids /\ next \in Nat /\ next' = next + 1 /\ e.id = next
  BY TimeAssumption DEF Add, TypeOK, Ids
<1>1. /\ \A f \in timeouts : f.id \in Int /\ f.id < next
      /\ \A f \in expired : f.id \in Int /\ f.id < next
      /\ \A k \in fired \cup erased : k \in Int /\ k < next
  BY DEF TypeOK, PlaceInv, Events, Ids
<1>2. \A k \in PendingIds : k \in Int /\ k < next
  <2>1. ASSUME NEW j \in DOMAIN pending, IsAdd(j) PROVE pending[j].event.id \in Int
    <3>1. pending[j] \in PendingTasks
      BY DEF TypeOK
    <3> QED BY <2>1, <3>1 DEF IsAdd, PendingTasks, Events, Ids
  <2> QED BY <2>1 DEF PendingIds, PendingInv, IsAdd
<1>3. UNCHANGED <<pc, expired, fired, erased>>
  BY DEF Add
<1>4. CASE timeouts' = timeouts \cup {e} /\ UNCHANGED pending
  <2>1. PendingIds' = PendingIds
    BY <1>4 DEF PendingIds
  <2> HIDE DEF e
  <2> QED BY <1>0, <1>1, <1>2, <1>3, <1>4, <2>1 DEF PlaceInv, EraseIsFinal, IdsOf
<1>5. CASE timeouts' = timeouts /\ pending' = Append(pending, AddTask(e))
  <2>1. AddTask(e) \in PendingTasks /\ AddTask(e).kind = "AddInLoop" /\ AddTask(e).event.id = next
    <3>1. e \in Events
      BY <1>0 DEF Events, Ints
    <3> QED BY <3>1 DEF AddTask, PendingTasks
  <2>2. PendingIds' = PendingIds \cup {next}
    BY <1>5, <2>1, PendingAppend
  <2> HIDE DEF e
  <2> QED BY <1>0, <1>1, <1>2, <1>3, <1>5, <2>2 DEF PlaceInv, EraseIsFinal, IdsOf
<1> QED BY <1>4, <1>5 DEF Add, AddInLoop, Post

\* A CancelInLoop takes its id out of the queue.
LEMMA PlaceErase ==
  ASSUME TypeOK, PlaceInv, NEW i \in Ids, i < next, CancelInLoop(i),
         PendingIds' = PendingIds, UNCHANGED <<pc, next, expired, fired>>
  PROVE  PlaceInv'
<1>1. timeouts' \subseteq timeouts /\ \A e \in timeouts' : e.id # i
  BY DEF CancelInLoop
<1>2. erased' = IF i \in PendingIds THEN erased ELSE erased \cup {i}
  BY DEF CancelInLoop
<1> QED BY <1>1, <1>2 DEF PlaceInv, EraseIsFinal, IdsOf

\* The events that Run puts back are not new.
LEMMA OnTimerIds ==
  ASSUME TypeOK, OnTimer
  PROVE  /\ expired' = {e \in timeouts : IsDue(e)}
         /\ IdsOf(timeouts') \subseteq IdsOf(timeouts)
<1>1. ASSUME NEW e \in Events PROVE [e EXCEPT !.expiration = now + e.repeat_interval].id = e.id
  BY DEF Events
<1>2. \A f \in timeouts' : \E e \in timeouts : f.id = e.id
  BY <1>1 DEF OnTimer, Reinserted, TypeOK
<1> QED BY <1>2 DEF OnTimer, IdsOf

LEMMA PlaceOnTimer ==
  ASSUME TypeOK, PlaceInv, OnTimer
  PROVE  PlaceInv'
<1> DEFINE gone == {e \in timeouts : IsDue(e)}
<1> DEFINE again == Reinserted(gone)
<1>1. /\ expired' = gone /\ timeouts' = (timeouts \ gone) \cup again
      /\ UNCHANGED <<next, pending, erased, fired>> /\ pc' = "timer"
  BY DEF OnTimer
<1>2. PendingIds' = PendingIds
  BY <1>1 DEF PendingIds
<1>3. \A f \in again : \E e \in gone :
        /\ f = [e EXCEPT !.expiration = now + e.repeat_interval]
        /\ e.repeat_interval >= 0 /\ f.id = e.id
  <2>1. ASSUME NEW e \in Events PROVE [e EXCEPT !.expiration = now + e.repeat_interval].id = e.id
    BY DEF Events
  <2> QED BY <2>1 DEF Reinserted, TypeOK
<1>4. gone \subseteq timeouts
  OBVIOUS
<1>5. \A e \in timeouts : e.repeat_interval \in Int
  BY TimeAssumption DEF TypeOK, Events
<1> HIDE DEF gone, again
<1>6. \A f \in timeouts' : \E e \in timeouts : f.id = e.id /\ (f = e \/ f \in again)
  BY <1>1, <1>3, <1>4
<1>7. \A e, f \in timeouts' : e.id = f.id => e = f
  <2> SUFFICES ASSUME NEW e \in timeouts', NEW f \in timeouts', e.id = f.id PROVE e = f
    OBVIOUS
  <2>1. CASE e \in timeouts \ gone /\ f \in timeouts \ gone
    BY <2>1 DEF PlaceInv
  <2>2. CASE e \in again /\ f \in again
    BY <1>3, <1>4, <2>2 DEF PlaceInv
  <2>3. CASE e \in timeouts \ gone /\ f \in again
    BY <1>3, <1>4, <2>3 DEF PlaceInv
  <2>4. CASE e \in again /\ f \in timeouts \ gone
    BY <1>3, <1>4, <2>4 DEF PlaceInv
  <2> QED BY <1>1, <2>1, <2>2, <2>3, <2>4
<1>8. \A e \in expired', f \in timeouts' : e.repeat_interval < 0 => e.id # f.id
  <2> SUFFICES ASSUME NEW e \in gone, NEW f \in timeouts', e.repeat_interval < 0, e.id = f.id
               PROVE  FALSE
    BY <1>1
  <2>1. CASE f \in timeouts \ gone
    BY <1>4, <2>1 DEF PlaceInv
  <2>2. CASE f \in again
    <3>1. PICK g \in gone : g.repeat_interval >= 0 /\ f.id = g.id
      BY <1>3, <2>2
    <3>2. g = e
      BY <1>4, <3>1 DEF PlaceInv
    <3> QED BY <1>4, <1>5, <3>1, <3>2
  <2> QED BY <1>1, <2>1, <2>2
<1>9. IdsOf(timeouts') \subseteq IdsOf(timeouts) /\ IdsOf(expired') \subseteq IdsOf(timeouts)
  BY <1>1, <1>4, <1>6 DEF IdsOf
<1>10. \A e \in timeouts' \cup expired' : e.id < next /\ e.id \notin PendingIds
  BY <1>1, <1>4, <1>6 DEF PlaceInv
<1>11. \A e, f \in expired' : e.id = f.id => e = f
  BY <1>1, <1>4 DEF PlaceInv
<1> QED BY <1>1, <1>2, <1>7, <1>8, <1>9, <1>10, <1>11 DEF PlaceInv, EraseIsFinal

LEMMA PlaceStep ==
  ASSUME TypeOK, PendingInv, PlaceInv, [Next]_vars
  PROVE  PlaceInv'
<1>1. ASSUME NEW p \in AllThreads, NEW i \in Ids, Cancel(p, i) PROVE PlaceInv'
  <2>1. UNCHANGED <<pc, next, expired, fired>> /\ i < next
    BY <1>1 DEF Cancel
  <2>2. CASE CancelInLoop(i) /\ UNCHANGED pending
    <3>1. PendingIds' = PendingIds
      BY <2>2 DEF PendingIds
    <3> QED BY <2>1, <2>2, <3>1, PlaceErase
  <2>3. CASE Post(CancelTask(i)) /\ UNCHANGED <<timeouts, erased>>
    <3>1. CancelTask(i) \in PendingTasks /\ CancelTask(i).kind # "AddInLoop"
      BY DEF CancelTask, PendingTasks
    <3>2. PendingIds' = PendingIds
      BY <2>3, <3>1, PendingAppend DEF Post
    <3> QED BY <2>1, <2>3, <3>2 DEF PlaceInv, EraseIsFinal
  <2> QED BY <1>1, <2>2, <2>3 DEF Cancel
<1>2. CASE RunPendingTask
  <2>1. /\ UNCHANGED <<pc, next, expired, fired>> /\ expired = {}
        /\ pending # <<>> /\ pending' = Tail(pending)
    BY <1>2 DEF RunPendingTask, PlaceInv
  <2>2. /\ Head(pending) = pending[1] /\ pending[1] \in PendingTasks /\ 1 \in DOMAIN pending
        /\ PendingIds' = PendingIds \ (IF IsAdd(1) THEN {pending[1].event.id} ELSE {})
    BY <2>1, PendingTail
  <2>3. CASE Head(pending).kind = "AddInLoop" /\ AddInLoop(Head(pending).event) /\ UNCHANGED erased
    <3> DEFINE e == pending[1].event
    <3>1. IsAdd(1) /\ e.id \in PendingIds /\ e.id < next
      BY <2>2, <2>3 DEF IsAdd, PendingIds, PendingInv
    <3>2. timeouts' = timeouts \cup {e} /\ PendingIds' = PendingIds \ {e.id} /\ UNCHANGED erased
      BY <2>2, <2>3, <3>1 DEF AddInLoop
    <3> HIDE DEF e
    <3> QED BY <2>1, <3>1, <3>2 DEF PlaceInv, EraseIsFinal, IdsOf
  <2>4. CASE Head(pending).kind = "CancelInLoop" /\ CancelInLoop(Head(pending).id)
    <3>1. ~IsAdd(1) /\ pending[1].id \in Ids /\ pending[1].id < next
      BY <2>2, <2>4 DEF IsAdd, PendingInv, PendingTasks
    <3> QED BY <2>1, <2>2, <2>4, <3>1, PlaceErase
  <2> QED BY <1>2, <2>3, <2>4 DEF RunPendingTask
<1>3. ASSUME NEW e \in expired, BeginCallback(e) PROVE PlaceInv'
  <2>1. PendingIds' = PendingIds
    BY <1>3 DEF BeginCallback, PendingIds
  <2>2. e.repeat_interval < 0 =>
          e.id \notin IdsOf(timeouts) \cup IdsOf(expired \ {e}) \cup PendingIds
    BY DEF PlaceInv, IdsOf
  <2> QED BY <1>3, <2>1, <2>2 DEF BeginCallback, PlaceInv, EraseIsFinal, IdsOf
<1>4. CASE BeginUserCode \/ EndUserCode \/ PollTimer \/ EndCallback \/ EndTimer \/ Tick
           \/ UNCHANGED vars
  <2>1. PendingIds' = PendingIds
    BY <1>4 DEF BeginUserCode, EndUserCode, PollTimer, EndCallback, EndTimer, Tick, vars, PendingIds
  <2>2. UNCHANGED <<next, timeouts, expired, fired, erased>>
    BY <1>4 DEF BeginUserCode, EndUserCode, PollTimer, EndCallback, EndTimer, Tick, vars
  <2>3. pc' \in {"idle", "user"} => expired' = {}
    BY <1>4 DEF BeginUserCode, EndUserCode, PollTimer, EndCallback, EndTimer, Tick, vars, PlaceInv
  <2> QED BY <2>1, <2>2, <2>3 DEF PlaceInv, EraseIsFinal
<1> QED BY <1>1, <1>2, <1>3, <1>4, AddArguments, PlaceAdd, PlaceOnTimer DEF Next

LEMMA PlacesInvariant == Spec => [](PendingInv /\ PlaceInv)
<1>1. Init => PendingInv /\ PlaceInv
  <2> SUFFICES ASSUME Init PROVE PendingInv /\ PlaceInv
    OBVIOUS
  <2>1. DOMAIN pending = {}
    BY DEF Init
  <2>2. PendingIds = {}
    BY <2>1 DEF PendingIds
  <2> QED BY <2>1, <2>2 DEF Init, PendingInv, PlaceInv, EraseIsFinal
<1>2. TypeOK /\ PendingInv /\ PlaceInv /\ [Next]_vars => PendingInv' /\ PlaceInv'
  BY PendingStep, PlaceStep
<1> QED BY <1>1, <1>2, TypeCorrect, PTL DEF Spec

\* A one-shot timer is called back at most once: it is in at most one of the
\* posted operations, the queue, the expired events and those called back.
THEOREM OneShotFiresOnce == Spec => []OneShotOnce
<1>1. PlaceInv => OneShotOnce
  BY DEF PlaceInv, OneShotOnce, IdsOf
<1> QED BY <1>1, PlacesInvariant, PTL

\* A timer whose CancelInLoop came after its AddInLoop is never queued again.
THEOREM ErasedStaysErased == Spec => []EraseIsFinal
<1>1. PlaceInv => EraseIsFinal
  BY DEF PlaceInv
<1> QED BY <1>1, PlacesInvariant, PTL

-----------------------------------------------------------------------------
(* Cancelling *)

\* The id has left the queue and the posted operations.
Gone(i) == i \notin IdsOf(timeouts) \cup PendingIds

\* A CancelInLoop of the id is posted, and no AddInLoop of it comes after.
CancelComes(i) ==
    \E k \in DOMAIN pending :
        /\ ~IsAdd(k) /\ pending[k].id = i
        /\ \A j \in DOMAIN pending : j > k /\ IsAdd(j) => pending[j].event.id # i

\* Cancelled from outside the loop thread, or added and cancelled on it.
CancelledInOrder(i) ==
    \E p \in AllThreads : <<i, p>> \in cancelled /\ (p # Loop \/ adder[i] = Loop)

\* A cancel in order has worked or will; what the loop thread adds is not posted.
CancelInv ==
    /\ \A i \in PendingIds : adder[i] # Loop
    /\ \A i \in Ids, p \in AllThreads : <<i, p>> \in cancelled => i < next
    /\ \A i \in Ids : CancelledInOrder(i) => Gone(i) \/ CancelComes(i)

\* A step that posts no more than a CancelInLoop, or nothing, keeps what is to come.
LEMMA CancelAppend ==
  ASSUME TypeOK, NEW i \in Ids, NEW task \in PendingTasks, pending' = Append(pending, task),
         task.kind = "AddInLoop" => task.event.id # i, CancelComes(i)
  PROVE  CancelComes(i)'
<1> DEFINE n == Len(pending) + 1
<1>1. /\ DOMAIN pending' = DOMAIN pending \cup {n} /\ pending'[n] = task
      /\ \A j \in DOMAIN pending : j < n /\ pending'[j] = pending[j]
  BY PendingAppend
<1> HIDE DEF n
<1> QED BY <1>1 DEF CancelComes, IsAdd

LEMMA CancelTail ==
  ASSUME TypeOK, PendingInv, NEW i \in Ids, pending # <<>>, pending' = Tail(pending),
         NEW k \in DOMAIN pending, k # 1, ~IsAdd(k), pending[k].id = i,
         \A j \in DOMAIN pending : j > k /\ IsAdd(j) => pending[j].event.id # i
  PROVE  CancelComes(i)'
<1>1. /\ \A j \in DOMAIN pending' : j + 1 \in DOMAIN pending /\ pending'[j] = pending[j + 1]
      /\ k - 1 \in DOMAIN pending' /\ pending'[k - 1] = pending[k]
  BY PendingTail
<1>2. k \in Int /\ \A j \in DOMAIN pending' : j \in Int
  BY DEF TypeOK
<1>3. ASSUME NEW j \in DOMAIN pending', j > k - 1, pending'[j].kind = "AddInLoop"
      PROVE  pending'[j].event.id # i
  <2>1. j + 1 \in DOMAIN pending /\ j + 1 > k /\ IsAdd(j + 1) /\ pending'[j] = pending[j + 1]
    BY <1>1, <1>2, <1>3 DEF IsAdd
  <2> QED BY <2>1
<1> QED BY <1>1, <1>3 DEF CancelComes, IsAdd

LEMMA CancelStep ==
  ASSUME TypeOK, PendingInv, PlaceInv, CancelInv, [Next]_vars
  PROVE  CancelInv'
<1>0. /\ next \in Nat /\ \A i \in Ids : i \in Nat
  BY TimeAssumption DEF TypeOK, Ids
<1>1. ASSUME NEW p \in AllThreads, NEW x \in Moments, NEW v \in Ints, NEW w \in Int, Add(p, x, v, w)
      PROVE  CancelInv'
  <2> DEFINE e == [id |-> next, expiration |-> x, repeat_interval |-> v]
  <2>1. /\ next \in Ids /\ next' = next + 1 /\ e.id = next /\ cancelled' = cancelled
        /\ adder' = [adder EXCEPT ![next] = p]
    BY <1>1 DEF Add, TypeOK, Ids
  <2>2. AddTask(e) \in PendingTasks /\ AddTask(e).kind = "AddInLoop" /\ AddTask(e).event.id = next
    <3>1. e \in Events
      BY <2>1 DEF Events, Ints
    <3> QED BY <3>1 DEF AddTask, PendingTasks
  <2>3. \/ p = Loop /\ timeouts' = timeouts \cup {e} /\ UNCHANGED pending
        \/ p # Loop /\ timeouts' = timeouts /\ pending' = Append(pending, AddTask(e))
    BY <1>1 DEF Add, AddInLoop, Post
  <2>4. \A i \in Ids : CancelledInOrder(i)' => CancelledInOrder(i) /\ i # next
    <3> SUFFICES ASSUME NEW i \in Ids, NEW q \in AllThreads, <<i, q>> \in cancelled,
                        q # Loop \/ adder'[i] = Loop
                 PROVE  CancelledInOrder(i) /\ i # next
      BY <2>1 DEF CancelledInOrder
    <3>1. i # next
      BY <1>0 DEF CancelInv
    <3>2. adder'[i] = adder[i]
      BY <2>1, <3>1 DEF TypeOK
    <3> QED BY <3>1, <3>2 DEF CancelledInOrder
  <2>5. PendingIds' = PendingIds \/ (p # Loop /\ PendingIds' = PendingIds \cup {next})
    <3>1. CASE UNCHANGED pending
      BY <3>1 DEF PendingIds
    <3>2. CASE p # Loop /\ pending' = Append(pending, AddTask(e))
      BY <2>2, <3>2, PendingAppend
    <3> QED BY <2>3, <3>1, <3>2
  <2>6. \A i \in PendingIds : i \in Ids
    <3>1. ASSUME NEW j \in DOMAIN pending, IsAdd(j) PROVE pending[j].event.id \in Ids
      <4>1. pending[j] \in PendingTasks
        BY DEF TypeOK
      <4> QED BY <3>1, <4>1 DEF IsAdd, PendingTasks, Events
    <3> QED BY <3>1 DEF PendingIds, IsAdd
  <2>7. \A i \in PendingIds' : adder'[i] # Loop
    <3>1. \A i \in PendingIds : i # next
      BY <1>0 DEF PendingIds, PendingInv, IsAdd
    <3> QED BY <2>1, <2>5, <2>6, <3>1 DEF CancelInv, TypeOK
  <2>8. ASSUME NEW i \in Ids, CancelledInOrder(i)' PROVE Gone(i)' \/ CancelComes(i)'
    <3>1. i # next /\ (Gone(i) \/ CancelComes(i))
      BY <2>4, <2>8 DEF CancelInv
    <3>2. CASE Gone(i)
      BY <2>1, <2>3, <2>5, <3>1, <3>2 DEF Gone, IdsOf
    <3>3. CASE CancelComes(i) /\ UNCHANGED pending
      BY <3>3 DEF CancelComes, IsAdd
    <3>4. CASE CancelComes(i) /\ pending' = Append(pending, AddTask(e))
      BY <2>2, <3>1, <3>4, CancelAppend
    <3> QED BY <2>3, <3>1, <3>2, <3>3, <3>4
  <2>9. \A i \in Ids, q \in AllThreads : <<i, q>> \in cancelled' => i < next'
    BY <1>0, <2>1 DEF CancelInv
  <2> QED BY <2>7, <2>8, <2>9 DEF CancelInv
<1>2. ASSUME NEW p \in AllThreads, NEW c \in Ids, Cancel(p, c) PROVE CancelInv'
  <2>1. c < next /\ UNCHANGED <<next, adder>> /\ cancelled' = cancelled \cup {<<c, p>>}
    BY <1>2 DEF Cancel
  <2>2. CancelTask(c) \in PendingTasks /\ CancelTask(c).kind = "CancelInLoop" /\ CancelTask(c).id = c
    BY DEF CancelTask, PendingTasks
  <2>3. \/ p = Loop /\ timeouts' = {e \in timeouts : e.id # c} /\ UNCHANGED pending
        \/ p # Loop /\ timeouts' = timeouts /\ pending' = Append(pending, CancelTask(c))
    BY <1>2 DEF Cancel, CancelInLoop, Post
  <2>4. PendingIds' = PendingIds
    <3>1. CASE UNCHANGED pending
      BY <3>1 DEF PendingIds
    <3>2. CASE pending' = Append(pending, CancelTask(c))
      BY <2>2, <3>2, PendingAppend
    <3> QED BY <2>3, <3>1, <3>2
  <2>5. ASSUME NEW i \in Ids, CancelledInOrder(i)' PROVE Gone(i)' \/ CancelComes(i)'
    <3>1. CASE CancelledInOrder(i) /\ Gone(i)
      BY <2>3, <2>4, <3>1 DEF Gone, IdsOf
    <3>2. CASE CancelledInOrder(i) /\ CancelComes(i)
      <4>1. CASE UNCHANGED pending
        BY <3>2, <4>1 DEF CancelComes, IsAdd
      <4>2. CASE pending' = Append(pending, CancelTask(c))
        BY <2>2, <3>2, <4>2, CancelAppend
      <4> QED BY <2>3, <4>1, <4>2
    <3>3. CASE ~CancelledInOrder(i)
      <4>1. i = c /\ (p # Loop \/ adder[c] = Loop)
        BY <2>1, <2>5, <3>3 DEF CancelledInOrder
      <4>2. CASE p = Loop
        BY <2>3, <2>4, <4>1, <4>2 DEF CancelInv, Gone, IdsOf
      <4>3. CASE p # Loop
        <5> DEFINE n == Len(pending) + 1
        <5>1. /\ DOMAIN pending' = DOMAIN pending \cup {n} /\ pending'[n] = CancelTask(c)
              /\ \A j \in DOMAIN pending : j < n
          BY <2>2, <2>3, <4>3, PendingAppend
        <5>2. n \in Int /\ \A j \in DOMAIN pending : j \in Int
          BY DEF TypeOK
        <5> HIDE DEF n
        <5>3. \A j \in DOMAIN pending' : ~(j > n)
          BY <5>1, <5>2
        <5> QED BY <2>2, <4>1, <5>1, <5>3 DEF CancelComes, IsAdd
      <4> QED BY <4>2, <4>3
    <3> QED BY <3>1, <3>2, <3>3 DEF CancelInv
  <2>6. \A i \in Ids, q \in AllThreads : <<i, q>> \in cancelled' => i < next'
    BY <2>1 DEF CancelInv
  <2>7. \A i \in PendingIds' : adder'[i] # Loop
    BY <2>1, <2>4 DEF CancelInv
  <2> QED BY <2>5, <2>6, <2>7 DEF CancelInv
<1>3. CASE RunPendingTask
  <2>1. UNCHANGED <<next, adder, cancelled>> /\ pending # <<>> /\ pending' = Tail(pending)
    BY <1>3 DEF RunPendingTask
  <2>2. /\ Head(pending) = pending[1] /\ pending[1] \in PendingTasks /\ 1 \in DOMAIN pending
        /\ PendingIds' = PendingIds \ (IF IsAdd(1) THEN {pending[1].event.id} ELSE {})
    BY <2>1, PendingTail
  <2>3. \/ IsAdd(1) /\ timeouts' = timeouts \cup {pending[1].event}
        \/ ~IsAdd(1) /\ timeouts' = {e \in timeouts : e.id # pending[1].id}
    BY <1>3, <2>2 DEF RunPendingTask, AddInLoop, CancelInLoop, IsAdd
  <2>4. ASSUME NEW i \in Ids, CancelledInOrder(i) PROVE Gone(i)' \/ CancelComes(i)'
    <3>1. CASE Gone(i)
      <4>1. IsAdd(1) => pending[1].event.id # i
        BY <2>2, <3>1 DEF Gone, PendingIds, IsAdd
      <4> QED BY <2>2, <2>3, <3>1, <4>1 DEF Gone, IdsOf
    <3>2. CASE CancelComes(i)
      <4>1. PICK k \in DOMAIN pending :
              /\ ~IsAdd(k) /\ pending[k].id = i
              /\ \A j \in DOMAIN pending : j > k /\ IsAdd(j) => pending[j].event.id # i
        BY <3>2 DEF CancelComes
      <4>2. CASE k # 1
        BY <2>1, <4>1, <4>2, CancelTail
      \* The cancel is the one that is executed.
      <4>3. CASE k = 1
        <5>1. \A j \in DOMAIN pending : j = 1 \/ j > 1
          BY DEF TypeOK
        <5>2. i \notin PendingIds
          BY <4>1, <4>3, <5>1 DEF PendingIds, IsAdd
        <5> QED BY <2>2, <2>3, <4>1, <4>3, <5>2 DEF Gone, IdsOf
      <4> QED BY <4>2, <4>3
    <3> QED BY <2>4, <3>1, <3>2 DEF CancelInv
  <2>5. \A i \in Ids : CancelledInOrder(i)' => CancelledInOrder(i)
    BY <2>1 DEF CancelledInOrder
  <2> QED BY <2>1, <2>2, <2>4, <2>5 DEF CancelInv
<1>4. CASE OnTimer
  <2>1. UNCHANGED <<next, adder, cancelled, pending>>
    BY <1>4 DEF OnTimer
  <2>2. IdsOf(timeouts)' \subseteq IdsOf(timeouts)
    BY <1>4, OnTimerIds DEF IdsOf
  <2> QED BY <2>1, <2>2 DEF CancelInv, CancelledInOrder, Gone, CancelComes, PendingIds, IsAdd
<1>5. CASE BeginUserCode \/ EndUserCode \/ PollTimer \/ (\E e \in expired : BeginCallback(e))
           \/ EndCallback \/ EndTimer \/ Tick \/ UNCHANGED vars
  <2>1. UNCHANGED <<next, adder, cancelled, pending, timeouts>>
    BY <1>5 DEF BeginUserCode, EndUserCode, PollTimer, BeginCallback, EndCallback, EndTimer, Tick, vars
  <2> QED BY <2>1 DEF CancelInv, CancelledInOrder, Gone, CancelComes, PendingIds, IsAdd
<1> QED BY <1>1, <1>2, <1>3, <1>4, <1>5, AddArguments DEF Next

\* A Cancel from outside the loop thread, or on it for a timer that was added on
\* it, has removed the timer once the posted operations are executed.
THEOREM CancelInOrderWorks == Spec => []CancelInOrderHonoured
<1>1. Init => CancelInv
  <2> SUFFICES ASSUME Init PROVE CancelInv
    OBVIOUS
  <2>1. PendingIds = {}
    BY DEF Init, PendingIds
  <2> QED BY <2>1 DEF Init, CancelInv, CancelledInOrder
<1>2. TypeOK /\ PendingInv /\ PlaceInv /\ CancelInv /\ [Next]_vars => CancelInv'
  BY CancelStep
<1>3. CancelInv => CancelInOrderHonoured
  <2> SUFFICES ASSUME CancelInv, Settled, NEW i \in Ids, CancelledInOrder(i)
               PROVE  i \notin IdsOf(timeouts)
    BY DEF CancelInOrderHonoured, CancelledInOrder
  <2>1. ~CancelComes(i)
    BY DEF Settled, CancelComes
  <2> QED BY <2>1 DEF CancelInv, Gone
<1> QED BY <1>1, <1>2, <1>3, TypeCorrect, PlacesInvariant, PTL DEF Spec

-----------------------------------------------------------------------------
(* No callback comes early *)

\* Every event expires no earlier than its caller asked for, and what Run calls
\* back has expired.
DueInv ==
    /\ \A e \in timeouts \cup expired : due[e.id] <= e.expiration
    /\ \A j \in DOMAIN pending : IsAdd(j) => due[pending[j].event.id] <= pending[j].event.expiration
    /\ \A e \in expired : e.expiration <= now

LEMMA DueStep ==
  ASSUME NoOverflow, TypeOK, PendingInv, PlaceInv, DueInv, [Next]_vars
  PROVE  DueInv'
<1>0. /\ now \in Int /\ next \in Nat
      /\ \A e \in timeouts \cup expired : e.id \in Ids /\ e.id \in Int /\ e.expiration \in Int
                                          /\ e.repeat_interval \in Int
      /\ \A i \in Ids : due[i] \in Int
  BY TimeAssumption DEF TypeOK, Events, Moments, Ids
<1>1. ASSUME NEW p \in AllThreads, NEW x \in Moments, NEW v \in Ints, Add(p, x, v, x)
      PROVE  DueInv'
  <2> DEFINE e == [id |-> next, expiration |-> x, repeat_interval |-> v]
  <2>1. /\ next \in Ids /\ e.id = next /\ e.expiration = x /\ x \in Int
        /\ due' = [due EXCEPT ![next] = x] /\ due'[next] = x /\ UNCHANGED <<now, expired>>
    BY <1>1 DEF Add, TypeOK, Ids, Moments
  <2>2. AddTask(e) \in PendingTasks /\ AddTask(e).kind = "AddInLoop" /\ AddTask(e).event = e
    <3>1. e \in Events
      BY <2>1 DEF Events, Ints
    <3> QED BY <3>1 DEF AddTask, PendingTasks
  <2>3. \A i \in Ids : i < next => due'[i] = due[i]
    BY <1>0, <2>1 DEF TypeOK
  <2>4. \A f \in timeouts \cup expired : due'[f.id] <= f.expiration
    BY <1>0, <2>3 DEF DueInv, PlaceInv
  <2>5. \A j \in DOMAIN pending : IsAdd(j) => due'[pending[j].event.id] <= pending[j].event.expiration
    <3> SUFFICES ASSUME NEW j \in DOMAIN pending, IsAdd(j)
                 PROVE  due'[pending[j].event.id] <= pending[j].event.expiration
      OBVIOUS
    <3>1. pending[j] \in PendingTasks
      BY DEF TypeOK
    <3>2. pending[j].event.id \in Ids /\ pending[j].event.id < next
      BY <3>1 DEF IsAdd, PendingTasks, Events, PendingInv
    <3> QED BY <2>3, <3>2 DEF DueInv
  <2>6. CASE timeouts' = timeouts \cup {e} /\ UNCHANGED pending
    <3>1. \A f \in timeouts' \cup expired' : due'[f.id] <= f.expiration
      BY <2>1, <2>4, <2>6
    <3> QED BY <2>1, <2>5, <2>6, <3>1 DEF DueInv, IsAdd
  <2>7. CASE timeouts' = timeouts /\ pending' = Append(pending, AddTask(e))
    <3> DEFINE n == Len(pending) + 1
    <3>1. /\ DOMAIN pending' = DOMAIN pending \cup {n} /\ pending'[n] = AddTask(e)
          /\ \A j \in DOMAIN pending : pending'[j] = pending[j]
      BY <2>2, <2>7, PendingAppend
    <3> HIDE DEF n, e
    <3>2. due'[pending'[n].event.id] <= pending'[n].event.expiration
      BY <2>1, <2>2, <3>1
    <3>3. \A j \in DOMAIN pending' :
             IsAdd(j)' => due'[pending'[j].event.id] <= pending'[j].event.expiration
      BY <2>5, <3>1, <3>2 DEF IsAdd
    <3> QED BY <2>1, <2>4, <2>7, <3>3 DEF DueInv, IsAdd
  <2> QED BY <1>1, <2>6, <2>7 DEF Add, AddInLoop, Post
<1>2. ASSUME NEW p \in AllThreads, NEW i \in Ids, Cancel(p, i) PROVE DueInv'
  <2>1. UNCHANGED <<now, expired, due>> /\ timeouts' \subseteq timeouts
    BY <1>2 DEF Cancel, CancelInLoop
  <2>2. CASE UNCHANGED pending
    BY <2>1, <2>2 DEF DueInv, IsAdd
  <2>3. CASE pending' = Append(pending, CancelTask(i))
    <3> DEFINE n == Len(pending) + 1
    <3>1. CancelTask(i) \in PendingTasks /\ CancelTask(i).kind # "AddInLoop"
      BY DEF CancelTask, PendingTasks
    <3>2. /\ DOMAIN pending' = DOMAIN pending \cup {n} /\ pending'[n] = CancelTask(i)
          /\ \A j \in DOMAIN pending : pending'[j] = pending[j]
      BY <2>3, <3>1, PendingAppend
    <3> HIDE DEF n
    <3> QED BY <2>1, <3>1, <3>2 DEF DueInv, IsAdd
  <2> QED BY <1>2, <2>2, <2>3 DEF Cancel, Post
<1>3. CASE RunPendingTask
  <2>1. UNCHANGED <<now, expired, due>> /\ pending # <<>> /\ pending' = Tail(pending)
    BY <1>3 DEF RunPendingTask
  <2>2. /\ Head(pending) = pending[1] /\ 1 \in DOMAIN pending
        /\ \A j \in DOMAIN pending' : j + 1 \in DOMAIN pending /\ pending'[j] = pending[j + 1]
    BY <2>1, PendingTail
  <2>3. \/ IsAdd(1) /\ timeouts' = timeouts \cup {pending[1].event}
        \/ timeouts' \subseteq timeouts
    BY <1>3, <2>2 DEF RunPendingTask, AddInLoop, CancelInLoop, IsAdd
  <2>4. \A e \in timeouts' : due[e.id] <= e.expiration
    BY <2>2, <2>3 DEF DueInv
  <2>5. \A j \in DOMAIN pending' :
           IsAdd(j)' => due[pending'[j].event.id] <= pending'[j].event.expiration
    BY <2>2 DEF DueInv, IsAdd
  <2> QED BY <2>1, <2>4, <2>5 DEF DueInv, IsAdd
<1>4. CASE OnTimer
  <2> DEFINE gone == {e \in timeouts : IsDue(e)}
  <2>1. /\ expired' = gone /\ timeouts' = (timeouts \ gone) \cup Reinserted(gone)
        /\ UNCHANGED <<now, pending, due>>
    BY <1>4 DEF OnTimer
  <2>2. \A e \in gone : e \in timeouts /\ e.expiration <= now
    BY DEF IsDue
  <2>3. ASSUME NEW f \in Reinserted(gone) PROVE due[f.id] <= f.expiration
    <3>1. PICK e \in gone : e.repeat_interval >= 0
                            /\ f = [e EXCEPT !.expiration = now + e.repeat_interval]
      BY DEF Reinserted
    <3>2. e \in Events
      BY DEF TypeOK
    <3>3. f.id = e.id /\ f.expiration = now + e.repeat_interval
      BY <3>1, <3>2 DEF Events
    <3>4. due[e.id] <= e.expiration /\ e.expiration <= now
      BY <2>2 DEF DueInv
    <3> HIDE DEF gone
    <3> QED BY <1>0, <2>2, <3>1, <3>3, <3>4
  <2> HIDE DEF gone
  <2>4. \A e \in timeouts' \cup expired' : due[e.id] <= e.expiration
    BY <2>1, <2>2, <2>3 DEF DueInv
  <2> QED BY <2>1, <2>2, <2>4 DEF DueInv, IsAdd
<1>5. CASE Tick
  <2>1. now' = now + 1 /\ UNCHANGED <<timeouts, expired, pending, due>>
    BY <1>5 DEF Tick
  <2>2. \A e \in expired : e.expiration <= now'
    BY <1>0, <2>1 DEF DueInv
  <2> QED BY <2>1, <2>2 DEF DueInv, IsAdd
<1>6. CASE BeginUserCode \/ EndUserCode \/ PollTimer \/ (\E e \in expired : BeginCallback(e))
           \/ EndCallback \/ EndTimer \/ UNCHANGED vars
  <2>1. UNCHANGED <<now, timeouts, pending, due>> /\ expired' \subseteq expired
    BY <1>6 DEF BeginUserCode, EndUserCode, PollTimer, BeginCallback, EndCallback, EndTimer, vars
  <2> QED BY <2>1 DEF DueInv, IsAdd
<1>7. ASSUME NEW p \in AllThreads,
             \/ \E x \in Times : RunAt(p, x)
             \/ \E d \in Delays : RunAfter(p, d)
             \/ \E d \in Delays : RunEvery(p, d)
      PROVE  DueInv'
  BY <1>1, <1>7, AddArguments
<1> QED BY <1>2, <1>3, <1>4, <1>5, <1>6, <1>7 DEF Next

\* As long as no delay overflows an int, no callback comes before the time its
\* caller asked for, and none of a repeating timer before its next time.
THEOREM NeverEarlyHolds == NoOverflow => (Spec => NeverEarly)
<1> SUFFICES ASSUME NoOverflow PROVE Spec => NeverEarly
  OBVIOUS
<1> DEFINE A == \A e \in expired : e \notin expired' => due[e.id] <= now /\ e.expiration <= now
<1>1. Init => DueInv
  BY DEF Init, DueInv
<1>2. TypeOK /\ PendingInv /\ PlaceInv /\ DueInv /\ [Next]_vars => DueInv'
  BY DueStep
<1>3. TypeOK /\ PlaceInv /\ DueInv /\ [Next]_vars => [A]_vars
  <2> SUFFICES ASSUME TypeOK, PlaceInv, DueInv, Next, NEW e \in expired, e \notin expired'
               PROVE  due[e.id] <= now /\ e.expiration <= now
    BY DEF vars
  <2>1. now \in Int /\ e.expiration \in Int /\ due[e.id] \in Int
    BY TimeAssumption DEF TypeOK, Events, Moments
  <2> QED BY <2>1 DEF DueInv
<1>4. Spec => [][A]_vars
  <2> HIDE DEF A
  <2> QED BY <1>1, <1>2, <1>3, TypeCorrect, PlacesInvariant, PTL DEF Spec
<1> QED BY <1>4 DEF NeverEarly

=============================================================================
