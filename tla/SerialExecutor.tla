--------------------------- MODULE SerialExecutor ---------------------------
(***************************************************************************)
(* What an EventLoop promises to the code that hands it tasks: tasks that   *)
(* were posted run one at a time, in the order they were posted, each under *)
(* the trace context its poster had.  A task that is run from the           *)
(* executor's own thread runs at once, inside whatever is running there.    *)
(* There is no promise that a posted task ever runs: the loop may quit.     *)
(***************************************************************************)
EXTENDS Sequences

CONSTANTS Tasks,      \* the tasks; each is handed over at most once
          Contexts,   \* the trace contexts
          NoContext   \* the empty trace context

VARIABLES submitted,  \* the tasks handed over so far
          waiting,    \* posted and not begun: a queue of [context, task]
          busy,       \* a posted task is executing
          context,    \* the trace context of the executor's thread
          ran         \* [context, task] of every task begun, in order

vars == <<submitted, waiting, busy, context, ran>>

Entries == [context : Contexts, task : Tasks]

Init == /\ submitted = {}
        /\ waiting = <<>>
        /\ busy = FALSE
        /\ context = NoContext
        /\ ran = <<>>

\* A thread posts a task under its trace context.
Submit(c, t) ==
    /\ t \notin submitted
    /\ submitted' = submitted \cup {t}
    /\ waiting' = Append(waiting, [context |-> c, task |-> t])
    /\ UNCHANGED <<busy, context, ran>>

\* The executor's thread runs a task inline.
RunNow(t) ==
    /\ t \notin submitted
    /\ submitted' = submitted \cup {t}
    /\ ran' = Append(ran, [context |-> context, task |-> t])
    /\ UNCHANGED <<waiting, busy, context>>

\* The oldest waiting task begins, under the context it was posted with.
Begin ==
    /\ ~busy
    /\ waiting # <<>>
    /\ waiting' = Tail(waiting)
    /\ busy' = TRUE
    /\ context' = Head(waiting).context
    /\ ran' = Append(ran, Head(waiting))
    /\ UNCHANGED submitted

\* The executing task returns and leaves no trace context behind.
End ==
    /\ busy
    /\ busy' = FALSE
    /\ context' = NoContext
    /\ UNCHANGED <<submitted, waiting, ran>>

Next == \/ \E t \in Tasks : \/ \E c \in Contexts : Submit(c, t)
                            \/ RunNow(t)
        \/ Begin
        \/ End

Spec == Init /\ [][Next]_vars
=============================================================================
