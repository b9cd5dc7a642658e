------------------------------ MODULE MCPoller ------------------------------
(* A Poller with a short table and three channels, two of which have the same *)
(* fd one after the other.                                                    *)
EXTENDS Poller, TLC

CONSTANTS c1, c2, c3

\* The fds of the three channels, within twice the table's size and beyond it.
NearFds == c1 :> 0 @@ c2 :> 1 @@ c3 :> 1
FarFds  == c1 :> 0 @@ c2 :> 2 @@ c3 :> 1

\* The two channels of one fd may be exchanged.
NearSymmetry == Permutations({c2, c3})

=============================================================================
