----------------------------- MODULE MCEventLoop -----------------------------
(* An EventLoop of one thread, with two user channels of different priority. *)
EXTENDS EventLoop, TLC

CONSTANTS p1, p2, low, high

\* The wakeup channel keeps the constructor's kNormal; one user channel is
\* served before it, the other after it.
MCPriority == low :> 0 @@ WakeupChannel :> 1 @@ high :> 2

=============================================================================
