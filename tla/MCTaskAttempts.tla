---------------------------- MODULE MCTaskAttempts ----------------------------
(* Instances of TaskAttempts for TLC.                                      *)
EXTENDS TaskAttempts

CONSTANTS u, v, w3, l1, l2

(* The module is called stat by all, or distronode.legacy.stat by one.     *)
OneName  == [w \in Workers |-> l1]
TwoNames == [w \in Workers |-> IF w = u THEN l2 ELSE l1]

Kind(given, retries, until, timeout) ==
  [given |-> given, retries |-> retries, until |-> until, timeout |-> timeout]
SomeTasks == {Kind(FALSE, 0, FALSE, FALSE), Kind(FALSE, 0, TRUE, FALSE),
              Kind(TRUE, -1, TRUE, FALSE), Kind(TRUE, 1, FALSE, TRUE), Kind(TRUE, 1, TRUE, FALSE)}
Once      == {Kind(FALSE, 0, FALSE, FALSE)}
=============================================================================
