----------------------------- MODULE FreeDispatch -----------------------------
(***************************************************************************)
(* The free strategy's main loop, and host_pinned's, over the machinery of *)
(* StrategyBase: pass after pass over the hosts left, giving the next task *)
(* of its own to every host that is not executing one.                     *)
(*                                                                         *)
(*   lib/distronode/plugins/strategy/free.py          StrategyModule       *)
(*   lib/distronode/plugins/strategy/host_pinned.py   StrategyModule       *)
(*                                                                         *)
(* The strategy throttles tasks itself, so Throttle of StrategyBase is 0   *)
(* for every task.  Every host runs the tasks of the same list in order,   *)
(* until the list or the host's play is over.                              *)
(***************************************************************************)
EXTENDS StrategyBase

CONSTANTS
  HostOrder,  (* _hosts_cache: the hosts of the batch, in order             *)
  Settings,   (* plays: [pinned, throttle, metas, roles]                    *)
  Failing     (* bound: the hosts on which a task may fail                  *)

ASSUME HostOrderAssumption ==
  /\ HostOrder \in Seq(Hosts) /\ Len(HostOrder) = Cardinality(Hosts)
  /\ \A h \in Hosts : \E i \in DOMAIN HostOrder : HostOrder[i] = h
ASSUME SettingsAssumption ==
  Settings \subseteq [pinned : BOOLEAN, throttle : Nat,
                      metas : SUBSET Tasks, roles : SUBSET Tasks]
ASSUME FailingAssumption == Failing \subseteq Hosts
ASSUME BaseThrottleAssumption == \A t \in Tasks : Throttle[t] = 0

VARIABLES
  setting,       (* the play: never changes                                 *)
  pc,            (* where the main loop is                                  *)
  hostsLeft,     (* hosts_left                                              *)
  lastHost,      (* last_host: an index from 0                              *)
  startingHost,  (* starting_host                                           *)
  workToDo,      (* work_to_do                                              *)
  workersFree,   (* workers_free                                            *)
  taken,         (* how many tasks of the list each host was given          *)
  over           (* hosts whose play the iterator has ended: failed, ended  *)

loopVars == <<setting, pc, hostsLeft, lastHost, startingHost, workToDo,
              workersFree, taken, over>>
vars     == <<baseVars, loopVars>>

PCs == {"pass", "host", "scan", "next", "drain", "wait", "done", "crashed"}

Init ==
  /\ BaseInit
  /\ setting \in Settings
  /\ pc = "pass" /\ hostsLeft = <<>>
  /\ lastHost = 0 /\ startingHost = 0
  /\ workToDo = TRUE /\ workersFree = Forks
  /\ taken = [h \in Hosts |-> 0] /\ over = {}

Goto(l) == pc' = l

-----------------------------------------------------------------------------
(* A pass: get_hosts_left, then from last_host round to last_host.  No     *)
(* host becomes unreachable during a pass, so the tests for it in the loop *)
(* repeat the one of get_hosts_left.                                       *)

(* Of the first n hosts in order, those that can be reached.               *)
Reachable[n \in 0..Len(HostOrder)] ==
  IF n = 0 THEN <<>>
  ELSE IF HostOrder[n] \in unreachable THEN Reachable[n - 1]
       ELSE Append(Reachable[n - 1], HostOrder[n])

HostsLeft == Reachable[Len(HostOrder)]

StartPass ==
  /\ pc = "pass" /\ workToDo /\ HostsLeft # <<>>
  /\ hostsLeft' = HostsLeft
  /\ startingHost' = lastHost
  /\ workToDo' = FALSE
  /\ Goto("host")
  /\ UNCHANGED <<baseVars, setting, lastHost, workersFree, taken, over>>

EndPasses ==
  /\ pc = "pass" /\ (~workToDo \/ HostsLeft = <<>>)
  /\ Goto("wait")
  /\ UNCHANGED <<baseVars, setting, hostsLeft, lastHost, startingHost, workToDo,
                 workersFree, taken, over>>

(* hosts_left[last_host] raises an IndexError.                             *)
OutOfRange ==
  /\ pc = "host" /\ lastHost >= Len(hostsLeft)
  /\ Goto("crashed")
  /\ UNCHANGED <<baseVars, setting, hostsLeft, lastHost, startingHost, workToDo,
                 workersFree, taken, over>>

-----------------------------------------------------------------------------
(* The turn of a host.                                                     *)

Host       == hostsLeft[lastHost + 1]
NextTask   == taken[Host] + 1
HasTask(h) == taken[h] < NumTasks /\ h \notin over

WorkWithoutBlocked(h) == HasTask(h)
WorkAfterTheEnd(h)    == taken[h] < NumTasks \/ h \in blocked
(* The host has a task, or may still be given some by its running one.     *)
Work(h) == HasTask(h) \/ h \in blocked

TaskStillRunning(h) == FALSE
(* The test that keeps a host at one task at a time.                       *)
IsBlocked(h) == h \in blocked

(* Workers alive with the same task, whatever their host.                  *)
SameTasks(t) == {s \in Slots : IsAlive(s) /\ TaskOf(workers[s]) = t}

ThrottleExceeded == /\ setting.throttle > 0
                    /\ Cardinality(SameTasks(NextTask)) > setting.throttle
ThrottledOut == /\ setting.throttle > 0
                /\ Cardinality(SameTasks(NextTask)) >= setting.throttle

Turn == /\ pc = "host" /\ lastHost < Len(hostsLeft)
        /\ workToDo' = (workToDo \/ Work(Host))
        /\ UNCHANGED <<setting, hostsLeft, lastHost, startingHost, workersFree>>

CanTake == HasTask(Host) /\ ~IsBlocked(Host)

PassOver ==
  /\ Turn /\ ~CanTake
  /\ Goto("next")
  /\ UNCHANGED <<baseVars, taken, over>>

(* The pass stops at a throttled host, where the next one will start.      *)
Throttled ==
  /\ Turn /\ CanTake /\ ThrottledOut
  /\ Goto("drain")
  /\ UNCHANGED <<baseVars, taken, over>>

TakeTask == /\ Turn /\ CanTake /\ ~ThrottledOut
            /\ taken' = [taken EXCEPT ![Host] = NextTask]

(* The task's role has already run on the host: its turn starts again.     *)
SkipRole ==
  /\ TakeTask /\ NextTask \in setting.roles
  /\ UNCHANGED <<baseVars, pc, over>>

(* A meta task is executed on the spot, without a worker; it may end the   *)
(* host's play.                                                            *)
Meta ==
  /\ TakeTask /\ NextTask \in setting.metas
  /\ over' \in {over, over \cup {Host}}
  /\ Goto("next")
  /\ UNCHANGED baseVars

Give ==
  /\ TakeTask /\ NextTask \notin setting.metas
  /\ blocked' = blocked \cup {Host}
  /\ Goto("scan")
  /\ UNCHANGED <<poolVars, finalQ, rthread, results, cache, pending, unreachable, over>>

FreeAfterQueueing == workersFree - 1

Job == <<Host, taken[Host]>>

SlotIsBusy ==
  /\ pc = "scan" /\ SlotBusy(TaskOf(Job))
  /\ UNCHANGED loopVars

QueueTask ==
  /\ pc = "scan"
  /\ StartWorker(Job) \/ ForkFails(Job)
  /\ workersFree' = FreeAfterQueueing
  /\ Goto("next")
  /\ UNCHANGED <<setting, hostsLeft, lastHost, startingHost, workToDo, taken, over>>

-----------------------------------------------------------------------------
(* After a host's turn.                                                    *)

(* host_pinned: every worker has a task, so no other host may start.       *)
AllPinned == setting.pinned /\ workersFree = 0 /\ workToDo

NextIndexPastEnd == lastHost + 1
NextIndex == IF lastHost + 1 > Len(hostsLeft) - 1 THEN 0 ELSE lastHost + 1

StopPinned ==
  /\ pc = "next" /\ AllPinned
  /\ lastHost' = startingHost
  /\ Goto("drain")
  /\ UNCHANGED <<baseVars, setting, hostsLeft, startingHost, workToDo, workersFree,
                 taken, over>>

NextHost ==
  /\ pc = "next" /\ ~AllPinned
  /\ lastHost' = NextIndex
  /\ Goto(IF NextIndex = startingHost THEN "drain" ELSE "host")
  /\ UNCHANGED <<baseVars, setting, hostsLeft, startingHost, workToDo, workersFree,
                 taken, over>>

(* _process_pending_results: a task that failed ends its host's play.      *)
DrainOne ==
  /\ pc = "drain"
  /\ ProcessResult
  /\ workersFree' = workersFree + 1
  /\ over' \in {over, over \cup ({HostOf(Head(results).job)} \cap Failing)}
  /\ UNCHANGED <<setting, pc, hostsLeft, lastHost, startingHost, workToDo, taken>>

DrainStops ==
  /\ pc = "drain" /\ results = <<>>
  /\ Goto("pass")
  /\ UNCHANGED <<baseVars, setting, hostsLeft, lastHost, startingHost, workToDo,
                 workersFree, taken, over>>

(* _wait_on_pending_results: nothing is pending (AllServed), so it returns *)
(* without looking at the workers.                                         *)
Finish ==
  /\ pc = "wait" /\ pending <= 0
  /\ Goto("done")
  /\ UNCHANGED <<baseVars, setting, hostsLeft, lastHost, startingHost, workToDo,
                 workersFree, taken, over>>

-----------------------------------------------------------------------------
Main ==
  \/ StartPass \/ EndPasses \/ OutOfRange
  \/ PassOver \/ Throttled \/ SkipRole \/ Meta \/ Give
  \/ SlotIsBusy \/ QueueTask
  \/ StopPinned \/ NextHost \/ DrainOne \/ DrainStops \/ Finish

Workers == \E job \in Jobs : Worker(job) /\ UNCHANGED loopVars

Thread == ResultsThread /\ UNCHANGED loopVars

(* The loop has ended, or its exception has ended the run.                 *)
Terminated == pc \in {"done", "crashed"} /\ UNCHANGED vars

Next == Main \/ Workers \/ Thread \/ Terminated

Spec == Init /\ [][Next]_vars

(* As for the linear strategy: the loop, the results thread and the        *)
(* workers keep running, and a task ends.                                  *)
WorkerAdvances(job) == (WorkerSends(job) \/ WorkerExits(job)) /\ UNCHANGED loopVars

Fairness == /\ WF_vars(Main) /\ WF_vars(Thread)
            /\ \A job \in Jobs : WF_vars(WorkerAdvances(job))

FairSpec == Spec /\ Fairness

-----------------------------------------------------------------------------
(* Properties.                                                             *)

(* Every variable has the values the code can give it; workers_free may    *)
(* drop below zero: a task takes a slot as soon as the last worker in it   *)
(* has left, before that one's result is processed.                        *)
FreeTypeOK ==
  /\ BaseTypeOK
  /\ setting \in Settings /\ pc \in PCs
  /\ hostsLeft \in Seq(Hosts) /\ lastHost \in Nat /\ startingHost \in Nat
  /\ workToDo \in BOOLEAN /\ workersFree \in Int
  /\ taken \in [Hosts -> 0..NumTasks] /\ over \subseteq Hosts

(* A host executes one task at a time: it is blocked exactly while one of  *)
(* its tasks is under way, so a result always comes to unblock it.         *)
OneTaskPerHost ==
  /\ \A j, k \in cache : HostOf(j) = HostOf(k) => j = k
  /\ blocked = {HostOf(j) : j \in cache} \cup (IF pc = "scan" THEN {Host} ELSE {})
  /\ \A j, k \in Jobs : proc[j] \in Working /\ proc[k] \in Working /\ HostOf(j) = HostOf(k)
                          => j = k

(* No task runs on more hosts at once than its throttle, which this        *)
(* strategy counts itself on the workers that are alive.                   *)
FreeThrottle ==
  setting.throttle > 0 =>
    \A t \in Tasks : Cardinality(Alive(t)) <= setting.throttle

(* When the loop ends by itself, no result is pending, and every host was  *)
(* given every task, or is unreachable, or its play is over.               *)
AllServed ==
  pc \in {"wait", "done"} =>
    /\ pending = 0 /\ results = <<>>
    /\ \A h \in Hosts : taken[h] = NumTasks \/ h \in unreachable \/ h \in over

(* The hosts with an active play.                                          *)
Active == {h \in Hosts : taken[h] > 0 /\ h \notin unreachable
                          /\ (HasTask(h) \/ h \in blocked)}

(* host_pinned, as its documentation says: the number of hosts with an     *)
(* active play does not exceed the number of forks.                        *)
PinnedToForks == setting.pinned => Cardinality(Active) <= Forks

(* The loop does not go past the end of its hosts list (free.py:211-212).  *)
LastHostInList == pc # "crashed"

(* Every run of the loop comes to an end.                                  *)
FreeEnds == <>(pc \in {"done", "crashed"})

-----------------------------------------------------------------------------
(* The inductive invariant of the proofs.                                  *)

InPass == pc \in {"host", "scan", "next"}

(* A pass goes over the reachable hosts, and over each of them once: from  *)
(* starting_host up, round the end of the list, to last_host.              *)
PassOK ==
  /\ InPass => \A h \in Hosts :
       h \notin unreachable <=> \E i \in 1..Len(hostsLeft) : hostsLeft[i] = h
  /\ pc = "host" /\ lastHost # startingHost
       => lastHost < Len(hostsLeft) /\ startingHost < Len(hostsLeft)
  /\ pc \in {"scan", "next"} => lastHost < Len(hostsLeft) /\ startingHost < Len(hostsLeft)

(* A host is given one task after the other: it is blocked while one of    *)
(* its tasks is cached, or about to be, and then it can be reached.        *)
HostsOK ==
  /\ \A j \in Jobs : proc[j] # "none" => TaskOf(j) <= taken[HostOf(j)]
  /\ \A j, k \in cache : HostOf(j) = HostOf(k) => j = k
  /\ \A h \in Hosts : h \in blocked <=>
       (\E j \in cache : HostOf(j) = h) \/ (pc = "scan" /\ h = Host)
  /\ \A j \in cache : HostOf(j) \notin unreachable
  /\ pc = "scan" => /\ Job \in Jobs /\ proc[Job] = "none"
                    /\ \A j \in cache : HostOf(j) # Host

(* The task that a slot is searched for was below its throttle when it was *)
(* taken, and has only lost workers since.                                 *)
ThrottleOK ==
  setting.throttle > 0 =>
    /\ \A t \in Tasks : Cardinality(Alive(t)) <= setting.throttle
    /\ pc = "scan" => Cardinality(Alive(TaskOf(Job))) < setting.throttle

(* work_to_do is found false only by a pass that went over all the hosts   *)
(* left, and nothing gives them work after that.                           *)
Passed(i) ==
  \/ startingHost <= i /\ i < lastHost
  \/ lastHost < startingHost /\ (i < lastHost \/ startingHost <= i)
  \/ pc # "host" /\ i = lastHost
Idle == \A h \in Hosts : h \notin unreachable => ~Work(h)
WorkOK ==
  /\ InPass /\ ~workToDo => \A i \in 1..Len(hostsLeft) : Passed(i - 1) => ~Work(hostsLeft[i])
  /\ pc = "scan" => workToDo
  /\ pc \in {"pass", "drain"} /\ ~workToDo => Idle
  /\ pc \in {"wait", "done"} => Idle

(* workers_free counts the forks without the tasks in the cache.           *)
FreeCounts == workersFree = Forks - Cardinality(cache)

Inductive ==
  /\ FreeTypeOK /\ ThreadNeverCrashes /\ ReportsOK /\ CacheOK /\ SlotsOK
  /\ PassOK /\ HostsOK /\ ThrottleOK /\ WorkOK /\ FreeCounts

=============================================================================
