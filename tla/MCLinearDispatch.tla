--------------------------- MODULE MCLinearDispatch ---------------------------
(* Instances of LinearDispatch for TLC.                                    *)
EXTENDS LinearDispatch, TLC

CONSTANTS a, b, c

Symmetry == Permutations(Hosts)

(* One host at a time; run_once makes the throttle of a task moot.          *)
OneAtATime == [t \in Tasks |-> 1]
NoThrottle == [t \in Tasks |-> 0]

=============================================================================
