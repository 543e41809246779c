------------------------------- MODULE Lockstep -------------------------------
(***************************************************************************)
(* What the linear strategy promises, as TaskQueueManager.run puts it: all *)
(* hosts are kept in lock-step with a given task, and no host moves on to  *)
(* the next task until all hosts are done with the current one.  A host is *)
(* given each task at most once.                                           *)
(***************************************************************************)
EXTENDS Integers

CONSTANTS Hosts

VARIABLES
  task,    (* the task the hosts are in lock-step with                      *)
  served,  (* the hosts that were given it                                  *)
  busy     (* those of them that are not done with it                       *)

vars == <<task, served, busy>>

Init == task = 0 /\ served = {} /\ busy = {}

(* The strategy moves on: nobody is still busy with the current task.      *)
NextTask ==
  /\ busy = {}
  /\ task' = task + 1
  /\ served' = {}
  /\ UNCHANGED busy

Give(h) ==
  /\ h \notin served
  /\ served' = served \cup {h}
  /\ busy' = busy \cup {h}
  /\ UNCHANGED task

(* A task a host was given, but that was never started, is not waited for. *)
Skip(h) ==
  /\ h \notin served
  /\ served' = served \cup {h}
  /\ UNCHANGED <<task, busy>>

Done(h) ==
  /\ h \in busy
  /\ busy' = busy \ {h}
  /\ UNCHANGED <<task, served>>

Next == NextTask \/ \E h \in Hosts : Give(h) \/ Skip(h) \/ Done(h)

Spec == Init /\ [][Next]_vars

=============================================================================
