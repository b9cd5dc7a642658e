-------------------------------- MODULE Sync --------------------------------
(***************************************************************************)
(* CountDownLatch and BlockingQueue with the Mutex and the Condition they  *)
(* are made of.  A critical section is one step; a thread that waits is in *)
(* latchWaiters or takeWaiters, is taken out by a notification or by a     *)
(* spurious wakeup, and then tests its condition again.                    *)
(***************************************************************************)
EXTENDS Integers, Sequences

VARIABLES count, latchWaiters,     \* CountDownLatch
          queue, takeWaiters       \* BlockingQueue

syncVars == <<count, latchWaiters, queue, takeWaiters>>

InitSync(c) ==
    /\ count = c /\ latchWaiters = {}
    /\ queue = <<>> /\ takeWaiters = {}

\* Condition::Notify wakes one waiting thread, if there is one.
Notified(waiters) ==
    IF waiters = {} THEN {waiters} ELSE {waiters \ {t} : t \in waiters}

\* CountDownLatch::Wait, one turn of its loop: the thread goes on or waits.
LatchWait(t, goes) ==
    /\ t \notin latchWaiters
    /\ goes = (count <= 0)
    /\ latchWaiters' = IF goes THEN latchWaiters ELSE latchWaiters \cup {t}
    /\ UNCHANGED <<count, queue, takeWaiters>>

CountDown ==
    /\ count' = count - 1
    /\ latchWaiters' = IF count' = 0 THEN {} ELSE latchWaiters

\* BlockingQueue::Put
Put(x) ==
    /\ queue' = Append(queue, x)
    /\ takeWaiters' \in Notified(takeWaiters)

\* BlockingQueue::Take, one turn of its loop.
Take(t, got) ==
    /\ t \notin takeWaiters
    /\ IF queue = <<>>
       THEN got = 0 /\ takeWaiters' = takeWaiters \cup {t} /\ queue' = queue
       ELSE got = Head(queue) /\ queue' = Tail(queue) /\ takeWaiters' = takeWaiters
    /\ UNCHANGED <<count, latchWaiters>>

Spurious(t) ==
    /\ t \in latchWaiters \cup takeWaiters
    /\ latchWaiters' = latchWaiters \ {t} /\ takeWaiters' = takeWaiters \ {t}
    /\ UNCHANGED <<count, queue>>
=============================================================================
