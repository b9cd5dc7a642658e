------------------------------ MODULE EventLoop ------------------------------
(***************************************************************************)
(* The reactor of claire/common/events: one thread polls, dispatches the    *)
(* ready channels by priority, then runs the tasks other threads (or its    *)
(* own callbacks) have posted.  A thread that posts or quits from outside   *)
(* writes the wakeup eventfd AFTER it has published the task or the flag,   *)
(* in a step of its own; that window is what this module is about.          *)
(*                                                                          *)
(* Tasks and callbacks are the user's code: while one runs on the loop      *)
(* thread it may Post, Run and quit any number of times.  The trace context *)
(* of an outside thread is represented by the thread itself.                *)
(***************************************************************************)
EXTENDS Naturals, Sequences, FiniteSets

CONSTANTS Threads,      \* threads other than the loop's own
          Loop,         \* the thread that owns the loop
          Channels,     \* the user's channels, any of which may become ready
          WakeupChannel,\* wakeup_channel_
          Priority,     \* priority of every channel, the wakeup channel's too
          EventSlots,   \* initial size of the poller's event array (64)
          Tasks,        \* tasks; each is handed over at most once
          NoChannel,    \* a NULL current_active_channel_
          NoContext     \* the empty trace context

AllThreads  == Threads \cup {Loop}
AllChannels == Channels \cup {WakeupChannel}
Contexts    == Threads \cup {NoContext}

ASSUME LoopAssumption == Loop \notin Threads
ASSUME ChannelAssumption == /\ WakeupChannel \notin Channels
                            /\ NoChannel \notin AllChannels
                            /\ IsFiniteSet(Channels)
ASSUME PriorityAssumption == Priority \in [AllChannels -> 0..2]
ASSUME SlotsAssumption == EventSlots \in Nat \ {0}
ASSUME ContextAssumption == NoContext \notin Threads

VARIABLES
    pc,             \* where the loop thread is
    quit,           \* quit_
    wakeup_fd,      \* the eventfd's counter: 0, or 1 for any positive value
    events,         \* size of the poller's event array
    active_channels,\* channels of this round that are not dispatched yet
    current_active_channel,
    pending_tasks,  \* queue of [context, task], guarded by mutex_
    batch,          \* RunPendingTasks' local vector, from the iterator on
    context,        \* the loop thread's trace context
    op,             \* "wake": the thread published and has yet to Wakeup()
    submitted,      \* history: tasks handed to Run or Post
    ran             \* history: [context, task] of the tasks begun, in order

vars == <<pc, quit, wakeup_fd, events, active_channels, current_active_channel,
          pending_tasks, batch, context, op, submitted, ran>>

\* The variables that only the loop thread touches.
loopVars == <<pc, events, active_channels, current_active_channel, batch, context>>

Entries == [context : Contexts, task : Tasks]

TypeOK ==
    /\ pc \in {"created", "test", "poll", "dispatch", "callback", "swap",
               "tasks", "running", "stopped"}
    /\ quit \in BOOLEAN
    /\ wakeup_fd \in {0, 1}
    /\ events \in Nat \ {0}
    /\ active_channels \subseteq AllChannels
    /\ current_active_channel \in AllChannels \cup {NoChannel}
    /\ pending_tasks \in Seq(Entries)
    /\ batch \in Seq(Entries)
    /\ context \in Contexts
    /\ op \in [AllThreads -> {"idle", "wake"}]
    /\ submitted \subseteq Tasks
    /\ ran \in Seq(Entries)

\* The constructor: nothing pending, the wakeup channel registered.
Init ==
    /\ pc = "created"
    /\ quit = FALSE
    /\ wakeup_fd = 0
    /\ events = EventSlots
    /\ active_channels = {}
    /\ current_active_channel = NoChannel
    /\ pending_tasks = <<>>
    /\ batch = <<>>
    /\ context = NoContext
    /\ op = [p \in AllThreads |-> "idle"]
    /\ submitted = {}
    /\ ran = <<>>

-----------------------------------------------------------------------------
(* Operations that any thread may call. *)

\* The loop thread executes user code: before or after loop(), in a channel's
\* callback or in a task.
InUserCode == pc \in {"created", "callback", "running", "stopped"}

\* Thread p is between two calls into the loop.
MayCall(p) == op[p] = "idle" /\ (p = Loop => InUserCode)

\* ThisThread::GetTraceContext
ContextOf(p) == IF p = Loop THEN context ELSE p

\* Mutant of NeedsWakeup: a task that posts on the loop thread does not wake it.
NeedsWakeup_OutsideOnly(p) == p # Loop

\* Only a loop thread inside a channel's callback need not be woken: the loop
\* runs the pending tasks when it has dispatched the active channels.
NeedsWakeup(p) == p # Loop \/ current_active_channel = NoChannel

\* Post, up to the unlock and the test; the Wakeup is a step of its own.
Post(p, t) ==
    /\ MayCall(p)
    /\ t \notin submitted
    /\ submitted' = submitted \cup {t}
    /\ pending_tasks' = Append(pending_tasks, [context |-> ContextOf(p), task |-> t])
    /\ op' = [op EXCEPT ![p] = IF NeedsWakeup(p) THEN "wake" ELSE "idle"]
    /\ UNCHANGED <<loopVars, quit, wakeup_fd, ran>>

\* Run, called on the loop thread: the task is executed within the call.
\* What its body does is what the enclosing user code may do.
RunInline(t) ==
    /\ MayCall(Loop)
    /\ t \notin submitted
    /\ submitted' = submitted \cup {t}
    /\ ran' = Append(ran, [context |-> context, task |-> t])
    /\ UNCHANGED <<loopVars, quit, wakeup_fd, pending_tasks, op>>

\* Run
Run(p, t) == IF p = Loop THEN RunInline(t) ELSE Post(p, t)

\* Mutant of Quit: no Wakeup follows.
Quit_NoWakeup(p) ==
    /\ MayCall(p)
    /\ quit' = TRUE
    /\ UNCHANGED <<loopVars, op, wakeup_fd, pending_tasks, submitted, ran>>

\* quit, up to the Wakeup.
Quit(p) ==
    /\ MayCall(p)
    /\ quit' = TRUE
    /\ op' = [op EXCEPT ![p] = IF p = Loop THEN "idle" ELSE "wake"]
    /\ UNCHANGED <<loopVars, wakeup_fd, pending_tasks, submitted, ran>>

\* Wakeup
Wakeup(p) ==
    /\ op[p] = "wake"
    /\ wakeup_fd' = 1
    /\ op' = [op EXCEPT ![p] = "idle"]
    /\ UNCHANGED <<loopVars, quit, pending_tasks, submitted, ran>>

-----------------------------------------------------------------------------
(* The loop thread.  It takes no step while it is inside a call of its own. *)

LoopAt(l) == pc = l /\ op[Loop] = "idle"

\* Mutant of EnterLoop: loop() clears the flag it is about to test.
EnterLoop_ResetQuit ==
    /\ LoopAt("created") \/ LoopAt("stopped")
    /\ pc' = "test"
    /\ quit' = FALSE
    /\ UNCHANGED <<wakeup_fd, events, active_channels, current_active_channel,
                   pending_tasks, batch, context, op, submitted, ran>>

\* loop() is entered; after a quit it may be entered again, to no effect.
EnterLoop ==
    /\ LoopAt("created") \/ LoopAt("stopped")
    /\ pc' = "test"
    /\ UNCHANGED <<quit, wakeup_fd, events, active_channels, current_active_channel,
                   pending_tasks, batch, context, op, submitted, ran>>

\* while (!quit_), and active_channels_.clear()
TestQuit ==
    /\ LoopAt("test")
    /\ pc' = IF quit THEN "stopped" ELSE "poll"
    /\ active_channels' = IF quit THEN active_channels ELSE {}
    /\ UNCHANGED <<quit, wakeup_fd, events, current_active_channel,
                   pending_tasks, batch, context, op, submitted, ran>>

\* epoll_wait reports the ready channels, at most as many as fit the event
\* array, so the wakeup channel may have to wait for another round.  A full
\* array is doubled.
Poll(ready) ==
    /\ LoopAt("poll")
    /\ ready # {}
    /\ Cardinality(ready) <= events
    /\ WakeupChannel \in ready => wakeup_fd = 1
    /\ wakeup_fd = 1 => WakeupChannel \in ready \/ Cardinality(ready) = events
    /\ active_channels' = ready
    /\ events' = IF Cardinality(ready) = events THEN 2 * events ELSE events
    /\ pc' = "dispatch"
    /\ UNCHANGED <<quit, wakeup_fd, current_active_channel, pending_tasks, batch,
                   context, op, submitted, ran>>

\* epoll_wait times out, or a signal interrupts it, with nothing ready.
PollNothing ==
    /\ LoopAt("poll")
    /\ wakeup_fd = 0
    /\ pc' = "dispatch"
    /\ UNCHANGED <<quit, wakeup_fd, events, active_channels, current_active_channel,
                   pending_tasks, batch, context, op, submitted, ran>>

\* std::sort by Cmp: the next channel is one of the highest priority left.
NextActive(c) == c \in active_channels /\ \A d \in active_channels : Priority[d] <= Priority[c]

\* OnWakeup: the read resets the eventfd's counter.
OnWakeup ==
    /\ LoopAt("dispatch")
    /\ NextActive(WakeupChannel)
    /\ active_channels' = active_channels \ {WakeupChannel}
    /\ current_active_channel' = WakeupChannel
    /\ wakeup_fd' = 0
    /\ UNCHANGED <<pc, quit, events, pending_tasks, batch, context, op, submitted, ran>>

\* OnEvent of a user's channel: its callback begins ...
BeginCallback(c) ==
    /\ LoopAt("dispatch")
    /\ NextActive(c)
    /\ active_channels' = active_channels \ {c}
    /\ current_active_channel' = c
    /\ pc' = "callback"
    /\ UNCHANGED <<quit, wakeup_fd, events, pending_tasks, batch, context, op,
                   submitted, ran>>

\* ... and returns.
EndCallback ==
    /\ LoopAt("callback")
    /\ pc' = "dispatch"
    /\ UNCHANGED <<quit, wakeup_fd, events, active_channels, current_active_channel,
                   pending_tasks, batch, context, op, submitted, ran>>

\* Mutant of EndDispatch: quit_ is tested before the pending tasks are run.
EndDispatch_QuitFirst ==
    /\ LoopAt("dispatch")
    /\ active_channels = {}
    /\ current_active_channel' = NoChannel
    /\ pc' = IF quit THEN "stopped" ELSE "swap"
    /\ UNCHANGED <<quit, wakeup_fd, events, active_channels, pending_tasks, batch,
                   context, op, submitted, ran>>

\* All active channels are dispatched: current_active_channel_ = NULL.
EndDispatch ==
    /\ LoopAt("dispatch")
    /\ active_channels = {}
    /\ current_active_channel' = NoChannel
    /\ pc' = "swap"
    /\ UNCHANGED <<quit, wakeup_fd, events, active_channels, pending_tasks, batch,
                   context, op, submitted, ran>>

\* Mutant of SwapTasks: the queue is copied and not emptied.
SwapTasks_Copy ==
    /\ LoopAt("swap")
    /\ batch' = pending_tasks
    /\ pc' = "tasks"
    /\ UNCHANGED <<quit, wakeup_fd, events, active_channels, current_active_channel,
                   pending_tasks, context, op, submitted, ran>>

\* RunPendingTasks takes the whole queue under the lock.
SwapTasks ==
    /\ LoopAt("swap")
    /\ batch' = pending_tasks
    /\ pending_tasks' = <<>>
    /\ pc' = "tasks"
    /\ UNCHANGED <<quit, wakeup_fd, events, active_channels, current_active_channel,
                   context, op, submitted, ran>>

\* The next task of the batch begins under its poster's trace context ...
BeginTask ==
    /\ LoopAt("tasks")
    /\ batch # <<>>
    /\ batch' = Tail(batch)
    /\ context' = Head(batch).context
    /\ ran' = Append(ran, Head(batch))
    /\ pc' = "running"
    /\ UNCHANGED <<quit, wakeup_fd, events, active_channels, current_active_channel,
                   pending_tasks, op, submitted>>

\* Mutant of EndTask: the trace context is left behind.
EndTask_KeepContext ==
    /\ LoopAt("running")
    /\ pc' = "tasks"
    /\ UNCHANGED <<quit, wakeup_fd, events, active_channels, current_active_channel,
                   pending_tasks, batch, context, op, submitted, ran>>

\* ... and returns: ResetTraceContext.
EndTask ==
    /\ LoopAt("running")
    /\ context' = NoContext
    /\ pc' = "tasks"
    /\ UNCHANGED <<quit, wakeup_fd, events, active_channels, current_active_channel,
                   pending_tasks, batch, op, submitted, ran>>

\* The batch is exhausted: back to the loop's condition.
EndTasks ==
    /\ LoopAt("tasks")
    /\ batch = <<>>
    /\ pc' = "test"
    /\ UNCHANGED <<quit, wakeup_fd, events, active_channels, current_active_channel,
                   pending_tasks, batch, context, op, submitted, ran>>

\* Steps the loop thread takes by itself, once it is in loop().
LoopStep ==
    \/ TestQuit
    \/ OnWakeup
    \/ \E c \in Channels : BeginCallback(c)
    \/ EndCallback
    \/ EndDispatch
    \/ SwapTasks
    \/ BeginTask
    \/ EndTask
    \/ EndTasks

Next ==
    \/ \E p \in AllThreads, t \in Tasks : Post(p, t)
    \/ \E p \in AllThreads, t \in Tasks : Run(p, t)
    \/ \E p \in AllThreads : Quit(p)
    \/ \E p \in AllThreads : Wakeup(p)
    \/ EnterLoop
    \/ \E ready \in SUBSET AllChannels : Poll(ready)
    \/ PollNothing
    \/ LoopStep

Spec == Init /\ [][Next]_vars

(***************************************************************************)
(* The loop thread is scheduled, and callbacks and tasks return.  A thread  *)
(* inside a call finishes it.  Poll is fair only when the eventfd is        *)
(* readable: neither the channels' traffic nor the 10 ms timeout of         *)
(* epoll_wait may be what gets a task run.                                  *)
(***************************************************************************)
PollWoken == wakeup_fd = 1 /\ \E ready \in SUBSET AllChannels : Poll(ready)

FairSpec ==
    /\ Spec
    /\ WF_vars(LoopStep)
    /\ WF_vars(PollWoken)
    /\ \A p \in AllThreads : WF_vars(Wakeup(p))

-----------------------------------------------------------------------------
(* Properties *)

\* A wakeup is under way: the eventfd is readable or an outside thread is
\* about to write it.
WakeupComing == wakeup_fd = 1 \/ \E p \in Threads : op[p] = "wake"

\* The loop never sleeps on work: whenever the loop thread is in epoll_wait
\* with tasks pending or quit_ set, a wakeup is under way.  Post tests
\* current_active_channel_ outside the lock and the loop clears the eventfd
\* before it swaps the queue, so this depends on the order of several steps
\* of two threads.
NoLostWakeup ==
    pc = "poll" /\ (pending_tasks # <<>> \/ quit) => WakeupComing

\* The tasks of the entries of a queue.
TasksOf(q) == {q[i].task : i \in DOMAIN q}

\* Everything handed over has exactly one place: it has begun, is in the batch
\* being run, or is pending.  Swapping the queue neither loses a task that is
\* posted concurrently nor runs one twice.
ExactlyOnePlace ==
    LET all == ran \o batch \o pending_tasks
    IN  TasksOf(all) = submitted /\ Len(all) = Cardinality(submitted)

\* What the loop does is what a serial FIFO executor does (RunPendingTasks
\* runs the batch before anything posted later, one task at a time, each under
\* its poster's trace context, and leaves none behind).
Executor == INSTANCE SerialExecutor WITH
    waiting <- batch \o pending_tasks,
    busy <- pc = "running"

ImplementsExecutor == Executor!Spec

\* Every posted task begins, unless somebody quits or loop() is never entered;
\* EventLoop.h: "It wakes up the loop, and run the task."
PostedTasksRun ==
    \A t \in Tasks : t \in submitted ~> (t \in TasksOf(ran) \/ quit \/ pc = "created")

\* The round that sees quit_ only at its end still runs what it found posted: a
\* task that is pending anywhere between the test of quit_ and the swap of the
\* queue is run, also when a quit is what woke the loop or comes in the middle
\* of the round.  (What is posted after the swap of the last round is not.)
LastRoundRunsTasks ==
    \A t \in Tasks :
        (t \in TasksOf(pending_tasks) /\ pc \in {"poll", "dispatch", "callback", "swap"})
            ~> t \in TasksOf(ran)

\* A quit from any thread ends loop(), also one that arrives while the loop
\* thread is about to sleep in epoll_wait.
QuitStopsLoop == (quit /\ pc # "created") ~> pc = "stopped"

\* A quit is final: once it is set, the poll under way is the last one, even
\* if quit() came before loop() or loop() is entered again.
QuitIsFinal == [](quit /\ pc # "poll" => [](pc # "poll"))

=============================================================================
