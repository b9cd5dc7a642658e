--------------------------- MODULE EventLoopProofs ---------------------------
(***************************************************************************)
(* Proofs about EventLoop, for any number of threads, channels and tasks:   *)
(* the type invariant, that no wakeup is lost, that the loop implements a   *)
(* serial FIFO executor, that every task handed over has exactly one place, *)
(* and that a quit is final.                                                *)
(***************************************************************************)
EXTENDS EventLoop, SequenceTheorems, FiniteSetTheorems, TLAPS

-----------------------------------------------------------------------------
(* Type correctness *)

\* Every variable keeps its type: Post, RunPendingTasks and the callbacks put
\* nothing but entries of known tasks and contexts into the queues.
THEOREM TypeCorrect == Spec => []TypeOK
<1>1. Init => TypeOK
  <2> SUFFICES ASSUME Init PROVE TypeOK
    OBVIOUS
  <2>1. <<>> \in Seq(Entries)
    OBVIOUS
  <2>2. op \in [AllThreads -> {"idle", "wake"}]
    BY DEF Init
  <2> QED BY <2>1, <2>2, SlotsAssumption DEF Init, TypeOK, Contexts
<1>2. TypeOK /\ [Next]_vars => TypeOK'
  <2> SUFFICES ASSUME TypeOK, [Next]_vars PROVE TypeOK'
    OBVIOUS
  <2> USE DEF TypeOK
  <2>1. ASSUME NEW p \in AllThreads, NEW t \in Tasks, Post(p, t) PROVE TypeOK'
    <3>1. ContextOf(p) \in Contexts
      BY DEF ContextOf, AllThreads, Contexts
    <3>2. [context |-> ContextOf(p), task |-> t] \in Entries
      BY <3>1 DEF Entries
    <3>3. pending_tasks' \in Seq(Entries)
      BY <2>1, <3>2 DEF Post
    <3> QED BY <2>1, <3>3 DEF Post, loopVars
  <2>2. ASSUME NEW t \in Tasks, RunInline(t) PROVE TypeOK'
    <3>1. [context |-> context, task |-> t] \in Entries
      BY DEF Entries
    <3> QED BY <2>2, <3>1 DEF RunInline, loopVars
  <2>3. ASSUME NEW p \in AllThreads, NEW t \in Tasks, Run(p, t) PROVE TypeOK'
    BY <2>1, <2>2, <2>3 DEF Run
  <2>4. ASSUME NEW p \in AllThreads, Quit(p) PROVE TypeOK'
    BY <2>4 DEF Quit, loopVars
  <2>5. ASSUME NEW p \in AllThreads, Wakeup(p) PROVE TypeOK'
    BY <2>5 DEF Wakeup, loopVars
  <2>6. CASE EnterLoop
    BY <2>6 DEF EnterLoop
  <2>7. ASSUME NEW ready \in SUBSET AllChannels, Poll(ready) PROVE TypeOK'
    BY <2>7 DEF Poll
  <2>8. CASE PollNothing
    BY <2>8 DEF PollNothing
  <2>9. CASE TestQuit
    BY <2>9 DEF TestQuit
  <2>10. CASE OnWakeup
    BY <2>10 DEF OnWakeup, AllChannels
  <2>11. ASSUME NEW c \in Channels, BeginCallback(c) PROVE TypeOK'
    BY <2>11 DEF BeginCallback, AllChannels
  <2>12. CASE EndCallback
    BY <2>12 DEF EndCallback
  <2>13. CASE EndDispatch
    BY <2>13 DEF EndDispatch
  <2>14. CASE SwapTasks
    BY <2>14 DEF SwapTasks
  <2>15. CASE BeginTask
    <3>1. Head(batch) \in Entries /\ Tail(batch) \in Seq(Entries)
      BY <2>15 DEF BeginTask
    <3>2. Head(batch).context \in Contexts
      BY <3>1 DEF Entries
    <3> QED BY <2>15, <3>1, <3>2 DEF BeginTask
  <2>16. CASE EndTask
    BY <2>16 DEF EndTask, Contexts
  <2>17. CASE EndTasks
    BY <2>17 DEF EndTasks
  <2>18. CASE UNCHANGED vars
    BY <2>18 DEF vars
  <2> QED
    BY <2>1, <2>3, <2>4, <2>5, <2>6, <2>7, <2>8, <2>9, <2>10, <2>11, <2>12,
       <2>13, <2>14, <2>15, <2>16, <2>17, <2>18 DEF Next, LoopStep
<1> QED BY <1>1, <1>2, PTL DEF Spec

-----------------------------------------------------------------------------
(* No lost wakeup *)

\* A wakeup is coming, possibly from a call of the loop thread itself.
SomeWakeup == WakeupComing \/ op[Loop] = "wake"

\* The strengthening.  Outside a round of dispatching no channel is current, so
\* every Post decides to wake; the loop thread is inside a call only in user
\* code; and from the swap of the queue until the next poll returns, a task
\* that is pending has a wakeup coming.  Only while channels are dispatched may
\* the eventfd be read with tasks pending: the swap comes before the next poll.
WakeupInv ==
    /\ current_active_channel # NoChannel => pc \in {"dispatch", "callback"}
    /\ op[Loop] = "wake" => InUserCode
    /\ pc \notin {"dispatch", "callback", "swap"} /\ pending_tasks # <<>> => SomeWakeup
    /\ pc = "poll" /\ quit => WakeupComing

\* The invariant holds initially, every action of every thread preserves it, and
\* it implies NoLostWakeup.
LEMMA WakeupInvInit == Init => WakeupInv
  BY DEF Init, WakeupInv, AllThreads

LEMMA WakeupInvStep ==
  ASSUME TypeOK, WakeupInv, [Next]_vars
  PROVE  WakeupInv'
<1> USE DEF WakeupInv, SomeWakeup, WakeupComing, InUserCode
<1>0. Loop \notin Threads /\ AllThreads = Threads \cup {Loop} /\ op \in [AllThreads -> {"idle", "wake"}]
  BY LoopAssumption DEF AllThreads, TypeOK
<1>1. ASSUME NEW p \in AllThreads, NEW t \in Tasks, Post(p, t) PROVE WakeupInv'
  <2>1. CASE p = Loop
    BY <1>0, <1>1, <2>1 DEF Post, MayCall, NeedsWakeup, loopVars
  <2>2. CASE p # Loop
    <3>1. p \in Threads /\ op'[p] = "wake" /\ op'[Loop] = op[Loop]
      BY <1>0, <1>1, <2>2 DEF Post, NeedsWakeup
    <3>2. UNCHANGED <<pc, quit, wakeup_fd, current_active_channel>>
      BY <1>1 DEF Post, loopVars
    <3> QED BY <3>1, <3>2
  <2> QED BY <2>1, <2>2
<1>2. ASSUME NEW t \in Tasks, RunInline(t) PROVE WakeupInv'
  BY <1>2 DEF RunInline, loopVars
<1>3. ASSUME NEW p \in AllThreads, NEW t \in Tasks, Run(p, t) PROVE WakeupInv'
  BY <1>1, <1>2, <1>3 DEF Run
<1>4. ASSUME NEW p \in AllThreads, Quit(p) PROVE WakeupInv'
  <2>1. CASE p = Loop
    BY <1>0, <1>4, <2>1 DEF Quit, MayCall, loopVars
  <2>2. CASE p # Loop
    <3>1. p \in Threads /\ op'[p] = "wake" /\ op'[Loop] = op[Loop]
      BY <1>0, <1>4, <2>2 DEF Quit
    <3>2. UNCHANGED <<pc, pending_tasks, wakeup_fd, current_active_channel>>
      BY <1>4 DEF Quit, loopVars
    <3> QED BY <3>1, <3>2
  <2> QED BY <2>1, <2>2
<1>5. ASSUME NEW p \in AllThreads, Wakeup(p) PROVE WakeupInv'
  BY <1>0, <1>5 DEF Wakeup, loopVars
<1>6. CASE EnterLoop
  BY <1>6 DEF EnterLoop, LoopAt
<1>7. ASSUME NEW ready \in SUBSET AllChannels, Poll(ready) PROVE WakeupInv'
  BY <1>7 DEF Poll, LoopAt
<1>8. CASE PollNothing
  BY <1>8 DEF PollNothing, LoopAt
<1>9. CASE TestQuit
  BY <1>9 DEF TestQuit, LoopAt
<1>10. CASE OnWakeup
  BY <1>10 DEF OnWakeup, LoopAt
<1>11. ASSUME NEW c \in Channels, BeginCallback(c) PROVE WakeupInv'
  BY <1>11 DEF BeginCallback, LoopAt
<1>12. CASE EndCallback
  BY <1>12 DEF EndCallback, LoopAt
<1>13. CASE EndDispatch
  BY <1>13 DEF EndDispatch, LoopAt
<1>14. CASE SwapTasks
  BY <1>14 DEF SwapTasks, LoopAt
<1>15. CASE BeginTask
  BY <1>15 DEF BeginTask, LoopAt
<1>16. CASE EndTask
  BY <1>16 DEF EndTask, LoopAt
<1>17. CASE EndTasks
  BY <1>17 DEF EndTasks, LoopAt
<1>18. CASE UNCHANGED vars
  BY <1>18 DEF vars
<1> QED
  BY <1>1, <1>3, <1>4, <1>5, <1>6, <1>7, <1>8, <1>9, <1>10, <1>11, <1>12,
     <1>13, <1>14, <1>15, <1>16, <1>17, <1>18 DEF Next, LoopStep

\* The loop never sleeps in epoll_wait on a pending task or a quit without a
\* wakeup under way (Post, quit, OnWakeup and RunPendingTasks, in any
\* interleaving of any number of threads).
THEOREM NoLostWakeupHolds == Spec => []NoLostWakeup
<1>1. TypeOK /\ WakeupInv /\ [Next]_vars => WakeupInv'
  BY WakeupInvStep
<1>2. WakeupInv => NoLostWakeup
  BY DEF WakeupInv, NoLostWakeup, SomeWakeup, InUserCode
<1> QED BY WakeupInvInit, TypeCorrect, <1>1, <1>2, PTL DEF Spec

-----------------------------------------------------------------------------
(* The loop implements a serial executor *)

\* Facts about the queue that the executor sees, batch followed by
\* pending_tasks: posting appends to it and the iterator takes its head.
LEMMA QueueAppend ==
  ASSUME NEW S, NEW b \in Seq(S), NEW q \in Seq(S), NEW e \in S
  PROVE  b \o Append(q, e) = Append(b \o q, e)
<1>1. b \o Append(q, e) \in Seq(S) /\ Append(b \o q, e) \in Seq(S)
  OBVIOUS
<1>2. Len(b \o Append(q, e)) = Len(Append(b \o q, e))
  OBVIOUS
<1>3. ASSUME NEW i \in 1 .. Len(b \o Append(q, e))
      PROVE  (b \o Append(q, e))[i] = Append(b \o q, e)[i]
  BY <1>3
<1> QED BY <1>1, <1>2, <1>3, SeqEqual

LEMMA QueueHead ==
  ASSUME NEW S, NEW b \in Seq(S), NEW q \in Seq(S), b # <<>>
  PROVE  /\ b \o q # <<>>
         /\ Head(b \o q) = Head(b)
         /\ Tail(b \o q) = Tail(b) \o q
<1>1. Len(b) > 0
  OBVIOUS
<1>2. b \o q # <<>> /\ Head(b \o q) = Head(b)
  BY <1>1
<1>3. Tail(b \o q) \in Seq(S) /\ Tail(b) \o q \in Seq(S)
  BY <1>1, <1>2
<1>4. Len(Tail(b \o q)) = Len(Tail(b) \o q)
  BY <1>1, <1>2
<1>5. ASSUME NEW i \in 1 .. Len(Tail(b \o q))
      PROVE  Tail(b \o q)[i] = (Tail(b) \o q)[i]
  BY <1>1, <1>2, <1>5
<1> QED BY <1>2, <1>3, <1>4, <1>5, SeqEqual

\* The batch is empty outside RunPendingTasks.
BatchInv == pc \notin {"tasks", "running"} => batch = <<>>

LEMMA BatchInvStep ==
  ASSUME TypeOK, BatchInv, [Next]_vars
  PROVE  BatchInv'
<1> USE DEF BatchInv
<1>1. ASSUME NEW p \in AllThreads, NEW t \in Tasks, Post(p, t) \/ Run(p, t) PROVE BatchInv'
  BY <1>1 DEF Post, Run, RunInline, loopVars
<1>2. ASSUME NEW p \in AllThreads, Quit(p) \/ Wakeup(p) PROVE BatchInv'
  BY <1>2 DEF Quit, Wakeup, loopVars
<1>3. ASSUME NEW ready \in SUBSET AllChannels, Poll(ready) PROVE BatchInv'
  BY <1>3 DEF Poll, LoopAt
<1>4. CASE EnterLoop \/ PollNothing \/ TestQuit
  BY <1>4 DEF EnterLoop, PollNothing, TestQuit, LoopAt
<1>5. ASSUME NEW c \in Channels, BeginCallback(c) PROVE BatchInv'
  BY <1>5 DEF BeginCallback, LoopAt
<1>6. CASE OnWakeup \/ EndCallback \/ EndDispatch
  BY <1>6 DEF OnWakeup, EndCallback, EndDispatch, LoopAt
<1>7. CASE SwapTasks \/ BeginTask \/ EndTask \/ EndTasks
  BY <1>7 DEF SwapTasks, BeginTask, EndTask, EndTasks, LoopAt
<1>8. CASE UNCHANGED vars
  BY <1>8 DEF vars
<1> QED
  BY <1>1, <1>2, <1>3, <1>4, <1>5, <1>6, <1>7, <1>8 DEF Next, LoopStep

\* Every step of the loop is a step of the executor, or leaves it unchanged:
\* Post submits, Run on the loop thread runs now, an iteration of
\* RunPendingTasks begins and ends the head of the queue, all else stutters.
LEMMA ExecutorStep ==
  ASSUME TypeOK, BatchInv, [Next]_vars
  PROVE  [Executor!Next]_(Executor!vars)
<1> DEFINE Stutter == UNCHANGED <<submitted, batch, pending_tasks, context, ran>>
<1>0. batch \in Seq(Entries) /\ pending_tasks \in Seq(Entries)
  BY DEF TypeOK
<1>1. ASSUME Stutter, (pc' = "running") = (pc = "running") PROVE UNCHANGED Executor!vars
  BY <1>1 DEF Executor!vars
<1>2. ASSUME NEW p \in AllThreads, NEW t \in Tasks, Post(p, t) PROVE Executor!Next
  <2>1. ContextOf(p) \in Contexts
    BY DEF ContextOf, AllThreads, Contexts, TypeOK
  <2>2. [context |-> ContextOf(p), task |-> t] \in Entries
    BY <2>1 DEF Entries
  <2>3. (batch \o pending_tasks)'
          = Append(batch \o pending_tasks, [context |-> ContextOf(p), task |-> t])
    BY <1>0, <1>2, <2>2, QueueAppend DEF Post, loopVars
  <2>4. Executor!Submit(ContextOf(p), t)
    BY <1>2, <2>3 DEF Post, loopVars, Executor!Submit
  <2> QED BY <2>1, <2>4 DEF Executor!Next
<1>3. ASSUME NEW t \in Tasks, RunInline(t) PROVE Executor!Next
  <2>1. Executor!RunNow(t)
    BY <1>3 DEF RunInline, loopVars, Executor!RunNow
  <2> QED BY <2>1 DEF Executor!Next
<1>4. ASSUME NEW p \in AllThreads, NEW t \in Tasks, Run(p, t) PROVE Executor!Next
  BY <1>2, <1>3, <1>4 DEF Run
<1>5. ASSUME NEW p \in AllThreads, Quit(p) \/ Wakeup(p) PROVE UNCHANGED Executor!vars
  BY <1>1, <1>5 DEF Quit, Wakeup, loopVars
<1>6. ASSUME NEW ready \in SUBSET AllChannels, Poll(ready) PROVE UNCHANGED Executor!vars
  BY <1>1, <1>6 DEF Poll, LoopAt
<1>7. CASE EnterLoop \/ PollNothing \/ TestQuit \/ OnWakeup \/ EndCallback \/ EndDispatch \/ EndTasks
  <2>1. Stutter /\ (pc' = "running") = (pc = "running")
    BY <1>7 DEF EnterLoop, PollNothing, TestQuit, OnWakeup, EndCallback, EndDispatch,
                EndTasks, LoopAt
  <2> QED BY <1>1, <2>1
<1>8. ASSUME NEW c \in Channels, BeginCallback(c) PROVE UNCHANGED Executor!vars
  BY <1>1, <1>8 DEF BeginCallback, LoopAt
<1>9. CASE SwapTasks
  <2>1. batch = <<>> /\ batch' = pending_tasks /\ pending_tasks' = <<>>
    BY <1>9 DEF SwapTasks, LoopAt, BatchInv
  <2>2. (batch \o pending_tasks)' = batch \o pending_tasks
    BY <1>0, <2>1, ConcatEmptySeq
  <2> QED BY <1>9, <2>2 DEF SwapTasks, LoopAt, Executor!vars
<1>10. CASE BeginTask
  <2>1. /\ batch \o pending_tasks # <<>>
        /\ Head(batch \o pending_tasks) = Head(batch)
        /\ Tail(batch \o pending_tasks) = Tail(batch) \o pending_tasks
    BY <1>0, <1>10, QueueHead DEF BeginTask
  <2>2. Executor!Begin
    BY <1>10, <2>1 DEF BeginTask, LoopAt, Executor!Begin
  <2> QED BY <2>2 DEF Executor!Next
<1>11. CASE EndTask
  <2>1. Executor!End
    BY <1>11 DEF EndTask, LoopAt, Executor!End
  <2> QED BY <2>1 DEF Executor!Next
<1>12. CASE UNCHANGED vars
  BY <1>12, <1>1 DEF vars
<1> QED
  BY <1>2, <1>4, <1>5, <1>6, <1>7, <1>8, <1>9, <1>10, <1>11, <1>12 DEF Next, LoopStep

\* The loop, whatever the threads do, implements the serial FIFO executor: tasks
\* run one at a time, in posting order, under their posters' trace contexts.
THEOREM LoopImplementsExecutor == Spec => ImplementsExecutor
<1>1. Init => Executor!Init
  BY ConcatEmptySeq DEF Init, Executor!Init
<1>2. Init => BatchInv
  BY DEF Init, BatchInv
<1>3. TypeOK /\ BatchInv /\ [Next]_vars => BatchInv'
  BY BatchInvStep
<1>4. TypeOK /\ BatchInv /\ [Next]_vars => [Executor!Next]_(Executor!vars)
  BY ExecutorStep
<1> QED
  BY <1>1, <1>2, <1>3, <1>4, TypeCorrect, PTL DEF Spec, ImplementsExecutor, Executor!Spec

-----------------------------------------------------------------------------
(* Every task has exactly one place *)

\* The tasks of two queues joined are those of either.
LEMMA TasksOfConcat ==
  ASSUME NEW S, NEW b \in Seq(S), NEW q \in Seq(S)
  PROVE  TasksOf(b \o q) = TasksOf(b) \cup TasksOf(q)
<1>1. /\ b \o q \in Seq(S) /\ Len(b \o q) = Len(b) + Len(q)
      /\ Len(b) \in Nat /\ Len(q) \in Nat
      /\ DOMAIN b = 1 .. Len(b) /\ DOMAIN q = 1 .. Len(q)
      /\ DOMAIN (b \o q) = 1 .. Len(b) + Len(q)
  OBVIOUS
<1>2. ASSUME NEW i \in DOMAIN (b \o q)
      PROVE  \/ i \in DOMAIN b /\ (b \o q)[i] = b[i]
             \/ i - Len(b) \in DOMAIN q /\ (b \o q)[i] = q[i - Len(b)]
  BY <1>1, <1>2
<1>3. ASSUME NEW i \in DOMAIN b PROVE i \in DOMAIN (b \o q) /\ (b \o q)[i] = b[i]
  BY <1>1, <1>3
<1>4. ASSUME NEW i \in DOMAIN q
      PROVE  i + Len(b) \in DOMAIN (b \o q) /\ (b \o q)[i + Len(b)] = q[i]
  BY <1>1, <1>4
<1>5. TasksOf(b \o q) \subseteq TasksOf(b) \cup TasksOf(q)
  <2> SUFFICES ASSUME NEW i \in DOMAIN (b \o q)
               PROVE  (b \o q)[i].task \in TasksOf(b) \cup TasksOf(q)
    BY DEF TasksOf
  <2> QED BY <1>2 DEF TasksOf
<1>6. TasksOf(b) \subseteq TasksOf(b \o q)
  BY <1>3, Zenon DEF TasksOf
<1>7. TasksOf(q) \subseteq TasksOf(b \o q)
  <2> SUFFICES ASSUME NEW i \in DOMAIN q PROVE q[i].task \in TasksOf(b \o q)
    BY DEF TasksOf
  <2> QED BY <1>4 DEF TasksOf
<1> QED BY <1>5, <1>6, <1>7

\* A post adds its task to those of the queue.
LEMMA TasksOfAppend ==
  ASSUME NEW S, NEW q \in Seq(S), NEW e \in S
  PROVE  TasksOf(Append(q, e)) = TasksOf(q) \cup {e.task}
<1>1. Append(q, e) = q \o <<e>> /\ <<e>> \in Seq(S)
  OBVIOUS
<1>2. TasksOf(<<e>>) = {e.task}
  BY DEF TasksOf
<1>3. TasksOf(q \o <<e>>) = TasksOf(q) \cup TasksOf(<<e>>)
  BY <1>1, TasksOfConcat
<1> QED BY <1>1, <1>2, <1>3

\* The tasks of a batch are its first one and those of the rest.
LEMMA TasksOfTail ==
  ASSUME NEW S, NEW b \in Seq(S), b # <<>>
  PROVE  TasksOf(b) = {Head(b).task} \cup TasksOf(Tail(b))
<1>1. b = <<Head(b)>> \o Tail(b) /\ Tail(b) \in Seq(S) /\ <<Head(b)>> \in Seq(S)
  OBVIOUS
<1>2. TasksOf(<<Head(b)>>) = {Head(b).task}
  BY DEF TasksOf
<1>3. TasksOf(<<Head(b)>> \o Tail(b)) = TasksOf(<<Head(b)>>) \cup TasksOf(Tail(b))
  BY <1>1, TasksOfConcat
<1> QED BY <1>1, <1>2, <1>3

\* Everything handed over is in one of the three queues, and there are as many
\* entries as tasks: so no task is in two places or twice in one.
PlacesInv ==
    /\ IsFiniteSet(submitted)
    /\ TasksOf(ran) \cup TasksOf(batch) \cup TasksOf(pending_tasks) = submitted
    /\ Len(ran) + Len(batch) + Len(pending_tasks) = Cardinality(submitted)

\* Post and Run add one task to one queue, the swap moves a whole queue into the
\* empty batch, an iteration moves one task from the batch to those begun.
LEMMA PlacesInvStep ==
  ASSUME TypeOK, BatchInv, PlacesInv, [Next]_vars
  PROVE  PlacesInv'
<1>0. ran \in Seq(Entries) /\ batch \in Seq(Entries) /\ pending_tasks \in Seq(Entries)
  BY DEF TypeOK
<1>1. /\ Len(ran) \in Nat /\ Len(batch) \in Nat /\ Len(pending_tasks) \in Nat
      /\ Cardinality(submitted) \in Nat
  BY <1>0, FS_CardinalityType DEF PlacesInv
<1>2. ASSUME NEW t \in Tasks, t \notin submitted, submitted' = submitted \cup {t}
      PROVE  IsFiniteSet(submitted') /\ Cardinality(submitted') = Cardinality(submitted) + 1
  BY <1>2, FS_AddElement DEF PlacesInv
<1>3. ASSUME NEW p \in AllThreads, NEW t \in Tasks, Post(p, t) PROVE PlacesInv'
  <2> DEFINE e == [context |-> ContextOf(p), task |-> t]
  <2>1. ContextOf(p) \in Contexts
    BY DEF ContextOf, AllThreads, Contexts, TypeOK
  <2>2. e \in Entries /\ e.task = t
    BY <2>1 DEF Entries
  <2>3. pending_tasks' = Append(pending_tasks, e) /\ UNCHANGED <<ran, batch>>
    BY <1>3 DEF Post, loopVars
  <2> HIDE DEF e
  <2>4. TasksOf(pending_tasks') = TasksOf(pending_tasks) \cup {t}
    BY <1>0, <2>2, <2>3, TasksOfAppend
  <2>5. Len(pending_tasks') = Len(pending_tasks) + 1
    BY <1>0, <2>2, <2>3, AppendProperties
  <2>6. submitted' = submitted \cup {t} /\ IsFiniteSet(submitted')
        /\ Cardinality(submitted') = Cardinality(submitted) + 1
    BY <1>2, <1>3 DEF Post
  <2> QED BY <1>1, <2>3, <2>4, <2>5, <2>6 DEF PlacesInv
<1>4. ASSUME NEW t \in Tasks, RunInline(t) PROVE PlacesInv'
  <2> DEFINE e == [context |-> context, task |-> t]
  <2>1. e \in Entries /\ e.task = t
    BY DEF Entries, TypeOK
  <2>2. ran' = Append(ran, e) /\ UNCHANGED <<pending_tasks, batch>>
    BY <1>4 DEF RunInline, loopVars
  <2> HIDE DEF e
  <2>3. TasksOf(ran') = TasksOf(ran) \cup {t}
    BY <1>0, <2>1, <2>2, TasksOfAppend
  <2>4. Len(ran') = Len(ran) + 1
    BY <1>0, <2>1, <2>2, AppendProperties
  <2>5. submitted' = submitted \cup {t} /\ IsFiniteSet(submitted')
        /\ Cardinality(submitted') = Cardinality(submitted) + 1
    BY <1>2, <1>4 DEF RunInline
  <2> QED BY <1>1, <2>2, <2>3, <2>4, <2>5 DEF PlacesInv
<1>5. ASSUME NEW p \in AllThreads, NEW t \in Tasks, Run(p, t) PROVE PlacesInv'
  BY <1>3, <1>4, <1>5 DEF Run
<1>6. CASE SwapTasks
  <2>1. /\ batch = <<>> /\ batch' = pending_tasks /\ pending_tasks' = <<>>
        /\ UNCHANGED <<submitted, ran>>
    BY <1>6 DEF SwapTasks, LoopAt, BatchInv
  <2>2. TasksOf(<<>>) = {}
    BY DEF TasksOf
  <2> QED BY <1>1, <2>1, <2>2 DEF PlacesInv
<1>7. CASE BeginTask
  <2>1. /\ batch # <<>> /\ batch' = Tail(batch) /\ ran' = Append(ran, Head(batch))
        /\ UNCHANGED <<submitted, pending_tasks>>
    BY <1>7 DEF BeginTask
  <2>2. Head(batch) \in Entries /\ Len(batch') = Len(batch) - 1
    BY <1>0, <2>1, HeadTailProperties
  <2>3. TasksOf(ran') = TasksOf(ran) \cup {Head(batch).task} /\ Len(ran') = Len(ran) + 1
    BY <1>0, <2>1, <2>2, TasksOfAppend, AppendProperties
  <2>4. TasksOf(batch) = {Head(batch).task} \cup TasksOf(batch')
    BY <1>0, <2>1, TasksOfTail
  <2> QED BY <1>1, <2>1, <2>2, <2>3, <2>4 DEF PlacesInv
<1>8. CASE UNCHANGED <<submitted, ran, batch, pending_tasks>>
  BY <1>8 DEF PlacesInv
<1> QED
  BY <1>3, <1>5, <1>6, <1>7, <1>8
  DEF Next, LoopStep, vars, loopVars, Quit, Wakeup, EnterLoop, Poll, PollNothing, TestQuit,
      OnWakeup, BeginCallback, EndCallback, EndDispatch, EndTask, EndTasks

\* Every task handed over by Post or Run has begun, is in the batch or is pending,
\* and is so once: the swap of the queue loses and doubles none.
THEOREM TasksHaveOnePlace == Spec => []ExactlyOnePlace
<1>1. Init => BatchInv /\ PlacesInv
  <2> SUFFICES ASSUME Init PROVE BatchInv /\ PlacesInv
    OBVIOUS
  <2>1. TasksOf(<<>>) = {}
    BY DEF TasksOf
  <2> QED BY <2>1, FS_EmptySet DEF Init, BatchInv, PlacesInv
<1>2. TypeOK /\ BatchInv /\ PlacesInv /\ [Next]_vars => (BatchInv /\ PlacesInv)'
  BY BatchInvStep, PlacesInvStep
<1>3. TypeOK /\ PlacesInv => ExactlyOnePlace
  <2> SUFFICES ASSUME TypeOK, PlacesInv PROVE ExactlyOnePlace
    OBVIOUS
  <2>1. ran \in Seq(Entries) /\ batch \in Seq(Entries) /\ pending_tasks \in Seq(Entries)
        /\ ran \o batch \in Seq(Entries)
    BY DEF TypeOK
  <2>2. TasksOf(ran \o batch \o pending_tasks)
          = TasksOf(ran) \cup TasksOf(batch) \cup TasksOf(pending_tasks)
    <3>1. TasksOf(ran \o batch) = TasksOf(ran) \cup TasksOf(batch)
      BY <2>1, TasksOfConcat
    <3>2. TasksOf(ran \o batch \o pending_tasks) = TasksOf(ran \o batch) \cup TasksOf(pending_tasks)
      BY <2>1, TasksOfConcat
    <3> QED BY <3>1, <3>2
  <2>3. Len(ran \o batch \o pending_tasks) = Len(ran) + Len(batch) + Len(pending_tasks)
    BY <2>1
  <2> QED BY <2>2, <2>3 DEF PlacesInv, ExactlyOnePlace
<1> QED BY <1>1, <1>2, <1>3, TypeCorrect, PTL DEF Spec

-----------------------------------------------------------------------------
(* A quit is final *)

\* Once quit_ is set and no poll is under way there never is one again: nothing
\* clears the flag, and loop() tests it before every poll.
THEOREM QuitStaysFinal == Spec => QuitIsFinal
<1> DEFINE Over == quit /\ pc # "poll"
<1>1. Over /\ [Next]_vars => Over'
  <2> SUFFICES ASSUME Over, [Next]_vars PROVE Over'
    OBVIOUS
  <2>1. CASE TestQuit
    BY <2>1 DEF TestQuit
  <2> QED
    BY <2>1
    DEF Next, LoopStep, vars, loopVars, Post, Run, RunInline, Quit, Wakeup, EnterLoop, Poll,
        PollNothing, OnWakeup, BeginCallback, EndCallback, EndDispatch, SwapTasks,
        BeginTask, EndTask, EndTasks
<1>2. Over => pc # "poll"
  OBVIOUS
<1> QED BY <1>1, <1>2, PTL DEF Spec, QuitIsFinal

=============================================================================
