--------------------------- MODULE MCTimeoutQueue ---------------------------
(* A TimeoutQueue, its loop thread and outside threads that add and cancel. *)
EXTENDS TimeoutQueue

CONSTANTS p1

=============================================================================
