---------------------------- MODULE MCThreadPool ----------------------------
(* A ThreadPool with a short queue. *)
EXTENDS ThreadPool

CONSTANTS p1, p2

=============================================================================
