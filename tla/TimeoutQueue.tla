---------------------------- MODULE TimeoutQueue ----------------------------
(***************************************************************************)
(* The timers of an event loop: EventLoop::RunAt, RunAfter, RunEvery and    *)
(* Cancel, the TimeoutQueue behind them and its one-shot timerfd.           *)
(*                                                                          *)
(* Add and Cancel hand a task to EventLoop::Run.  Called on the loop thread *)
(* it takes effect at once; called elsewhere it is posted, and the loop,    *)
(* being a serial FIFO executor (EventLoopProofs!LoopImplementsExecutor),   *)
(* executes it when it is between callbacks.  The clock moves on between    *)
(* any two steps; times are those of Timestamp::Now, in its unit.           *)
(***************************************************************************)
EXTENDS Integers, Sequences, FiniteSets

CONSTANTS Threads,    \* threads other than the loop's own
          Loop,       \* the thread that owns the loop
          MaxTimers,  \* bound: ids handed out
          MaxTime,    \* bound: the clock
          MaxPending, \* bound: posted operations the loop has yet to execute
          Times,      \* arguments of RunAt
          Delays,     \* arguments of RunAfter and RunEvery, in milliseconds
          UsPerMs,    \* microseconds per millisecond (1000)
          IntLimit,   \* an int holds -IntLimit .. IntLimit - 1 (2^31)
          MinDelta,   \* the shortest time the timerfd is armed for (100 us)
          Far         \* numeric_limits<int64_t>::max()

ASSUME LoopAssumption == Loop \notin Threads
ASSUME TimeAssumption ==
    /\ MaxTimers \in Nat /\ MaxTime \in Nat /\ MaxPending \in Nat
    /\ MinDelta \in Nat \ {0} /\ UsPerMs \in Nat \ {0} /\ IntLimit \in Nat \ {0}
    /\ Far \in Nat /\ Far > MaxTime + MinDelta
    /\ Times \subseteq Int /\ Delays \subseteq Nat
    /\ \A x \in Times : x < Far
    /\ MaxTime + IntLimit < Far

AllThreads == Threads \cup {Loop}
Ids == 1 .. MaxTimers

\* repeat_interval of a timer that does not repeat
Once == -1

\* Points in time before the numeric limit
Moments == {x \in Int : x < Far}

Events == [id : Ids, expiration : Moments, repeat_interval : -IntLimit .. IntLimit - 1]

VARIABLES
    now,       \* Timestamp::Now()
    next,      \* next_
    timeouts,  \* timeouts_: the events of the queue
    deadline,  \* when the timerfd expires; Far when it will not
    reported,  \* epoll reported the timerfd and OnTimer has yet to run
    pc,        \* where the loop thread is
    expired,   \* Run's local vector, from the iterator on
    pending,   \* posted AddInLoop and CancelInLoop calls
    due,       \* history: when the caller of each id may first be called back
    adder,     \* history: the thread that added each id
    cancelled, \* history: <<id, thread>> of the calls of Cancel
    erased,    \* history: ids whose CancelInLoop came after their AddInLoop
    fired      \* history: ids of one-shot timers called back

vars == <<now, next, timeouts, deadline, reported, pc, expired, pending,
          due, adder, cancelled, erased, fired>>

AddTask(e) == [kind |-> "AddInLoop", event |-> e]
CancelTask(i) == [kind |-> "CancelInLoop", id |-> i]

PendingTasks ==
    [kind : {"AddInLoop"}, event : Events] \cup [kind : {"CancelInLoop"}, id : Ids]

TypeOK ==
    /\ now \in 0 .. MaxTime
    /\ next \in 1 .. MaxTimers + 1
    /\ timeouts \subseteq Events
    /\ deadline \in Int
    /\ reported \in BOOLEAN
    /\ pc \in {"idle", "user", "timer", "callback"}
    /\ expired \subseteq Events
    /\ pending \in Seq(PendingTasks)
    /\ due \in [Ids -> Int]
    /\ adder \in [Ids -> AllThreads]
    /\ cancelled \subseteq Ids \X AllThreads
    /\ erased \subseteq Ids
    /\ fired \subseteq Ids

Init ==
    /\ now = 0
    /\ next = 1
    /\ timeouts = {}
    /\ deadline = Far
    /\ reported = FALSE
    /\ pc = "idle"
    /\ expired = {}
    /\ pending = <<>>
    /\ due = [i \in Ids |-> 0]
    /\ adder = [i \in Ids |-> Loop]
    /\ cancelled = {}
    /\ erased = {}
    /\ fired = {}

IdsOf(E) == {e.id : e \in E}

\* The ids whose AddInLoop is posted and not executed.
PendingIds == {pending[i].event.id : i \in {j \in DOMAIN pending : pending[j].kind = "AddInLoop"}}

-----------------------------------------------------------------------------
(* The timerfd *)

\* HowMuchTimeFromNow and ResetTimerfd: never armed for less than MinDelta.
ResetTimerfd(expiration) ==
    deadline' = IF expiration - now < MinDelta THEN now + MinDelta ELSE expiration

Readable == deadline <= now

\* ReadTimerfd: a timer that was re-armed since epoll_wait is not readable any
\* more, and the read fails.
ReadTimerfd == IF Readable THEN Far ELSE deadline

\* NextExpiration
IsNextExpiration(E, x) ==
    \/ E = {} /\ x = Far
    \/ (\E e \in E : e.expiration = x) /\ (\A e \in E : x <= e.expiration)

-----------------------------------------------------------------------------
(* Adding and cancelling *)

\* AddInLoop: the timerfd is set only if the new event is the earliest.
AddInLoop(e) ==
    /\ timeouts' = timeouts \cup {e}
    /\ IF e.expiration < Far /\ \A f \in timeouts : e.expiration < f.expiration
       THEN ResetTimerfd(e.expiration)
       ELSE UNCHANGED deadline

\* CancelInLoop: the timerfd keeps its deadline.
CancelInLoop(i) ==
    /\ timeouts' = {e \in timeouts : e.id # i}
    /\ erased' = IF i \in PendingIds THEN erased ELSE erased \cup {i}

\* The loop thread is in user code: a callback of a channel, of a timer, or a task.
MayCall(p) == p = Loop => pc \in {"user", "callback"}

\* Mutant of Post: the operation is put before those posted earlier.
Post_Front(task) == Len(pending) < MaxPending /\ pending' = <<task>> \o pending

\* EventLoop::Run of an AddInLoop or a CancelInLoop.
Post(task) == Len(pending) < MaxPending /\ pending' = Append(pending, task)

\* TimeoutQueue::Add and AddRepeating
Add(p, expiration, interval, wanted) ==
    LET e == [id |-> next, expiration |-> expiration, repeat_interval |-> interval]
    IN  /\ MayCall(p)
        /\ next <= MaxTimers
        /\ next' = next + 1
        /\ due' = [due EXCEPT ![next] = wanted]
        /\ adder' = [adder EXCEPT ![next] = p]
        /\ IF p = Loop
           THEN AddInLoop(e) /\ UNCHANGED pending
           ELSE Post(AddTask(e)) /\ UNCHANGED <<timeouts, deadline>>
        /\ UNCHANGED <<now, reported, pc, expired, cancelled, erased, fired>>

\* The product delay_in_milliseconds*1000 is computed in an int, which wraps
\* around in the code the compilers make of it.
AsInt(x) == IF x < IntLimit THEN x ELSE ((x + IntLimit) % (2 * IntLimit)) - IntLimit

\* EventLoop::RunAt
RunAt(p, time) == Add(p, time, Once, time)

\* EventLoop::RunAfter
RunAfter(p, delay) ==
    Add(p, now + AsInt(delay * UsPerMs), Once, now + delay * UsPerMs)

\* EventLoop::RunEvery and AddRepeating: first after one interval.
RunEvery(p, delay) ==
    LET interval == AsInt(delay * UsPerMs)
    IN  Add(p, now + interval, interval, now + delay * UsPerMs)

\* EventLoop::Cancel, of an id whose Add has returned, by whoever was told it.
Cancel(p, i) ==
    /\ MayCall(p)
    /\ i < next
    /\ <<i, p>> \notin cancelled
    /\ cancelled' = cancelled \cup {<<i, p>>}
    /\ IF p = Loop
       THEN CancelInLoop(i) /\ UNCHANGED pending
       ELSE Post(CancelTask(i)) /\ UNCHANGED <<timeouts, erased>>
    /\ UNCHANGED <<now, next, deadline, reported, pc, expired, due, adder, fired>>

-----------------------------------------------------------------------------
(* The loop thread *)

\* The loop executes the oldest posted operation, its channels being dispatched.
RunPendingTask ==
    /\ pc = "idle"
    /\ ~reported
    /\ pending # <<>>
    /\ pending' = Tail(pending)
    /\ \/ /\ Head(pending).kind = "AddInLoop"
          /\ AddInLoop(Head(pending).event)
          /\ UNCHANGED erased
       \/ /\ Head(pending).kind = "CancelInLoop"
          /\ CancelInLoop(Head(pending).id)
          /\ UNCHANGED deadline
    /\ UNCHANGED <<now, next, reported, pc, expired, due, adder, cancelled, fired>>

\* A callback of another channel, or a task of the user, begins.
BeginUserCode ==
    /\ pc = "idle"
    /\ pc' = "user"
    /\ UNCHANGED <<now, next, timeouts, deadline, reported, expired, pending,
                   due, adder, cancelled, erased, fired>>

EndUserCode ==
    /\ pc = "user"
    /\ pc' = "idle"
    /\ UNCHANGED <<now, next, timeouts, deadline, reported, expired, pending,
                   due, adder, cancelled, erased, fired>>

\* epoll_wait puts the timer's channel on the active list.  Other channels of
\* its priority may be dispatched before it.
PollTimer ==
    /\ pc = "idle"
    /\ Readable
    /\ ~reported
    /\ reported' = TRUE
    /\ UNCHANGED <<now, next, timeouts, deadline, pc, expired, pending,
                   due, adder, cancelled, erased, fired>>

\* Mutant of IsDue: one unit too early.
IsDue_OffByOne(e) == e.expiration <= now + 1

\* upper_bound(now)
IsDue(e) == e.expiration <= now

\* Mutants of Reinserted: every expired event goes back; the next expiration
\* is counted from the numeric limit that stands for an empty queue.
Reinserted_All(E) == {[e EXCEPT !.expiration = now + 1] : e \in E}

Reinserted_FromFar(E) ==
    {[e EXCEPT !.expiration = Far + e.repeat_interval] : e \in {f \in E : f.repeat_interval >= 0}}

\* What Run puts back: the expired events that repeat, one interval from now.
Reinserted(E) ==
    {[e EXCEPT !.expiration = now + e.repeat_interval] : e \in {f \in E : f.repeat_interval >= 0}}

\* OnTimer, up to the first callback of Run: the expired events leave the
\* queue, those that repeat go back into it before any callback is called.
OnTimer ==
    LET gone == {e \in timeouts : IsDue(e)}
    IN  /\ pc = "idle"
        /\ reported
        /\ reported' = FALSE
        /\ deadline' = ReadTimerfd
        /\ expired' = gone
        /\ timeouts' = (timeouts \ gone) \cup Reinserted(gone)
        /\ pc' = "timer"
        /\ UNCHANGED <<now, next, pending, due, adder, cancelled, erased, fired>>

\* Mutant of BeginCallback: what repeats goes back as its callback is called.
BeginCallback_Reinsert(e) ==
    /\ pc = "timer"
    /\ e \in expired
    /\ \A f \in expired : e.expiration <= f.expiration
    /\ expired' = expired \ {e}
    /\ timeouts' = {f \in timeouts : f.id # e.id} \cup Reinserted({e})
    /\ fired' = IF e.repeat_interval < 0 THEN fired \cup {e.id} ELSE fired
    /\ pc' = "callback"
    /\ UNCHANGED <<now, next, deadline, reported, pending, due, adder, cancelled, erased>>

\* Run calls back the next expired event, in the order of their expirations.
BeginCallback(e) ==
    /\ pc = "timer"
    /\ e \in expired
    /\ \A f \in expired : e.expiration <= f.expiration
    /\ expired' = expired \ {e}
    /\ fired' = IF e.repeat_interval < 0 THEN fired \cup {e.id} ELSE fired
    /\ pc' = "callback"
    /\ UNCHANGED <<now, next, timeouts, deadline, reported, pending,
                   due, adder, cancelled, erased>>

EndCallback ==
    /\ pc = "callback"
    /\ pc' = "timer"
    /\ UNCHANGED <<now, next, timeouts, deadline, reported, expired, pending,
                   due, adder, cancelled, erased, fired>>

\* Mutant of EndTimer: the timerfd is not armed again.
EndTimer_NoReset ==
    /\ pc = "timer"
    /\ expired = {}
    /\ pc' = "idle"
    /\ UNCHANGED <<now, next, timeouts, deadline, reported, expired, pending,
                   due, adder, cancelled, erased, fired>>

\* The end of OnTimer: the timerfd is set to what Run returned.
EndTimer ==
    /\ pc = "timer"
    /\ expired = {}
    /\ \E x \in {e.expiration : e \in timeouts} \cup {Far} :
          IsNextExpiration(timeouts, x) /\ ResetTimerfd(x)
    /\ pc' = "idle"
    /\ UNCHANGED <<now, next, timeouts, reported, expired, pending,
                   due, adder, cancelled, erased, fired>>

\* Time passes.
Tick ==
    /\ now < MaxTime
    /\ now' = now + 1
    /\ UNCHANGED <<next, timeouts, deadline, reported, pc, expired, pending,
                   due, adder, cancelled, erased, fired>>

Next ==
    \/ \E p \in AllThreads, x \in Times : RunAt(p, x)
    \/ \E p \in AllThreads, d \in Delays : RunAfter(p, d)
    \/ \E p \in AllThreads, d \in Delays : RunEvery(p, d)
    \/ \E p \in AllThreads, i \in Ids : Cancel(p, i)
    \/ RunPendingTask
    \/ BeginUserCode
    \/ EndUserCode
    \/ PollTimer
    \/ OnTimer
    \/ \E e \in expired : BeginCallback(e)
    \/ EndCallback
    \/ EndTimer
    \/ Tick

Spec == Init /\ [][Next]_vars

-----------------------------------------------------------------------------
(* Properties *)

\* No timer is slept through: whenever the loop thread is not inside OnTimer,
\* the timerfd goes off no later than the earliest event is due (or after the
\* shortest delay, if that has passed), or has gone off and OnTimer is coming.
\* AddInLoop, CancelInLoop and Run each re-arm only in some cases.
TimerfdCoversEvents ==
    pc \in {"idle", "user"} =>
        \A e \in timeouts : \/ reported
                            \/ deadline <= e.expiration
                            \/ deadline <= now + MinDelta

\* A callback never comes before the time its caller asked for, whether by an
\* absolute time, a delay or an interval ("Runs callback at 'time'", "after"),
\* nor, when it repeats, before its next time.
NeverEarly ==
    [][\A e \in expired : e \notin expired' => due[e.id] <= now /\ e.expiration <= now]_vars

\* A one-shot timer has one place: posted, queued, about to be called back, or
\* called back; so it is called back at most once.
OneShotOnce ==
    LET once(E) == {e \in E : e.repeat_interval < 0}
    IN  /\ IdsOf(once(timeouts)) \cap IdsOf(once(expired)) = {}
        /\ (IdsOf(timeouts) \cup IdsOf(once(expired))) \cap PendingIds = {}
        /\ fired \cap (IdsOf(timeouts) \cup IdsOf(expired) \cup PendingIds) = {}
        /\ \A e, f \in timeouts : e.id = f.id => e = f

\* A timer that was erased never comes back to the queue, not even a repeating
\* one that is erased while the callbacks of its round run; Run: "do this before
\* executing callbacks so the callbacks have a chance to call erase".
EraseIsFinal == erased \cap (IdsOf(timeouts) \cup PendingIds) = {}

\* Nothing posted is outstanding and the loop thread is between callbacks.
Settled == pending = <<>> /\ pc = "idle"

\* Cancel works when the loop executes it after the Add it undoes: called from
\* outside the loop thread, or for a timer the loop thread added itself.
CancelInOrderHonoured ==
    Settled => \A i \in Ids, p \in AllThreads :
                  <<i, p>> \in cancelled /\ (p # Loop \/ adder[i] = Loop) => i \notin IdsOf(timeouts)

\* EventLoop.h on Cancel: "Cancels the timer. Safe to call from other threads."
CancelHonoured ==
    Settled => \A i \in Ids, p \in AllThreads : <<i, p>> \in cancelled => i \notin IdsOf(timeouts)

=============================================================================
