---------------------------- MODULE LinearDispatch ----------------------------
(***************************************************************************)
(* The linear strategy's main loop over the machinery of StrategyBase: a   *)
(* round hands one task to every host left, one host after the other, and  *)
(* waits for all the results before the next round.                        *)
(*                                                                         *)
(*   lib/distronode/plugins/strategy/linear.py     StrategyModule.run      *)
(*   lib/distronode/plugins/strategy/__init__.py   waiting, cleanup        *)
(*   lib/distronode/executor/task_queue_manager.py run, _cleanup_processes *)
(*                                                                         *)
(* Which task a round is about, and which hosts only get a noop, is the    *)
(* play iterator's choice and is left open here.                           *)
(***************************************************************************)
EXTENDS StrategyBase

VARIABLES
  pc,       (* where the main loop is                                       *)
  round,    (* the task the current round hands out; 0 before the first     *)
  todo,     (* the hosts of host_tasks the loop has not reached             *)
  current,  (* the host whose task is being queued                          *)
  passes,   (* cur_pass of _process_pending_results                         *)
  error     (* a worker was found in a dead state                           *)

controlVars == <<pc, round, todo, current, passes, error>>
vars        == <<baseVars, controlVars>>

PCs == {"round", "queue", "scan", "drain", "wait", "collect",
        "cleanup", "join", "reap", "done"}

Init ==
  /\ BaseInit
  /\ pc = "round" /\ round = 0 /\ todo = {}
  /\ current \in Hosts
  /\ passes = 0 /\ error = FALSE

Goto(l) == pc' = l

-----------------------------------------------------------------------------
(* A round: get_hosts_left, then the loop over host_tasks.                 *)

HostsLeft == Hosts \ unreachable

(* Bound: NumTasks rounds.                                                 *)
StartRound ==
  /\ pc = "round" /\ round < NumTasks /\ HostsLeft # {}
  /\ round' = round + 1
  /\ todo' = HostsLeft
  /\ Goto("queue")
  /\ UNCHANGED <<baseVars, current, passes, error>>

(* No host has a task left, or too many failed: run returns.               *)
FinishRounds ==
  /\ pc = "round"
  /\ Goto("cleanup")
  /\ UNCHANGED <<baseVars, round, todo, current, passes, error>>

RemainingWithHost(h) == IF round \in RunOnce THEN {} ELSE todo
(* The hosts the loop still goes to after a host was given the task.       *)
Remaining(h) == IF round \in RunOnce THEN {} ELSE todo \ {h}

BlockHost(h) ==
  /\ pc = "queue" /\ h \in todo
  /\ blocked' = blocked \cup {h}
  /\ current' = h
  /\ todo' = Remaining(h)
  /\ Goto("scan")
  /\ UNCHANGED <<poolVars, finalQ, rthread, results, cache, pending, unreachable,
                 round, passes, error>>

(* The host is out of step with the others: its turn is a noop.            *)
NoopHost(h) ==
  /\ pc = "queue" /\ h \in todo
  /\ todo' = todo \ {h}
  /\ passes' = 0
  /\ Goto("drain")
  /\ UNCHANGED <<baseVars, round, current, error>>

(* The task belongs to a role this host has already run.                   *)
SkipHost(h) ==
  /\ pc = "queue" /\ h \in todo
  /\ todo' = todo \ {h}
  /\ UNCHANGED <<baseVars, pc, round, current, passes, error>>

EndOfHosts ==
  /\ pc = "queue" /\ todo = {}
  /\ Goto("wait")
  /\ UNCHANGED <<baseVars, round, todo, current, passes, error>>

QueueTask ==
  /\ pc = "scan"
  /\ UNCHANGED <<round, todo, current, error>>
  /\ \/ SlotBusy(round) /\ UNCHANGED <<pc, passes>>
     \/ /\ StartWorker(<<current, round>>) \/ ForkFails(<<current, round>>)
        /\ passes' = 0
        /\ Goto(IF round \in RunOnce THEN "wait" ELSE "drain")

(* max_passes of the call between two hosts.                               *)
MaxPasses == IF Forks \div 10 > 1 THEN Forks \div 10 ELSE 1

DrainOne ==
  /\ pc = "drain" /\ passes < MaxPasses
  /\ ProcessResult
  /\ passes' = passes + 1
  /\ UNCHANGED <<pc, round, todo, current, error>>

DrainStops ==
  /\ pc = "drain" /\ (passes = MaxPasses \/ results = <<>>)
  /\ Goto("queue")
  /\ UNCHANGED <<baseVars, round, todo, current, passes, error>>

-----------------------------------------------------------------------------
(* _wait_on_pending_results.                                               *)

NothingToProcess == results = <<>>
NoPendingResults == pending <= 0

WaitChecks ==
  /\ pc = "wait"
  /\ error' = (~NoPendingResults /\ HasDeadWorkers)
  /\ Goto(IF NoPendingResults THEN "round"
          ELSE IF HasDeadWorkers THEN "cleanup" ELSE "collect")
  /\ UNCHANGED <<baseVars, round, todo, current, passes>>

CollectOne ==
  /\ pc = "collect"
  /\ ProcessResult
  /\ UNCHANGED controlVars

CollectStops ==
  /\ pc = "collect" /\ results = <<>>
  /\ Goto("wait")
  /\ UNCHANGED <<baseVars, round, todo, current, passes, error>>

-----------------------------------------------------------------------------
(* The end of TaskQueueManager.run: strategy.cleanup, _cleanup_processes.  *)

PutSentinel ==
  /\ pc = "cleanup"
  /\ Send(Sentinel)
  /\ Goto("join")
  /\ UNCHANGED <<poolVars, rthread, results, strategyVars,
                 round, todo, current, passes, error>>

Joined    == rthread # "running"

JoinThread ==
  /\ pc = "join" /\ Joined
  /\ Goto("reap")
  /\ UNCHANGED <<baseVars, round, todo, current, passes, error>>

(* After some polls, what is still alive in the slots is terminated.       *)
ReapWorkers ==
  /\ pc = "reap"
  /\ proc' = [j \in Jobs |->
                IF \E s \in Slots : workers[s] = j /\ IsAlive(s) THEN "died" ELSE proc[j]]
  /\ Goto("done")
  /\ UNCHANGED <<workers, curWorker, inbox, finalQ, rthread, results, strategyVars,
                 round, todo, current, passes, error>>

-----------------------------------------------------------------------------
Main ==
  \/ StartRound \/ FinishRounds
  \/ \E h \in Hosts : BlockHost(h) \/ NoopHost(h) \/ SkipHost(h)
  \/ EndOfHosts \/ QueueTask \/ DrainOne \/ DrainStops
  \/ WaitChecks \/ CollectOne \/ CollectStops
  \/ PutSentinel \/ JoinThread \/ ReapWorkers

Workers == \E job \in Jobs : Worker(job) /\ UNCHANGED controlVars

Thread == ResultsThread /\ UNCHANGED controlVars

(* The program has ended.                                                  *)
Terminated == pc = "done" /\ UNCHANGED vars

Next == Main \/ Workers \/ Thread \/ Terminated

Spec == Init /\ [][Next]_vars

(* The main loop, the results thread and every live worker keep running: a *)
(* task ends, and a worker whose result is on the queue exits.             *)
WorkerAdvances(job) ==
  (WorkerGetsAnswer(job) \/ WorkerSends(job) \/ WorkerExits(job)) /\ UNCHANGED controlVars

Fairness == /\ WF_vars(Main) /\ WF_vars(Thread)
            /\ \A job \in Jobs : WF_vars(WorkerAdvances(job))

FairSpec == Spec /\ Fairness

-----------------------------------------------------------------------------
(* Properties.                                                             *)

(* Every variable has the values the code can give it.                     *)
TypeOK ==
  /\ BaseTypeOK
  /\ pc \in PCs /\ round \in 0..NumTasks /\ todo \subseteq Hosts
  /\ current \in Hosts /\ passes \in 0..MaxPasses /\ error \in BOOLEAN

(* A job's result is reported at most once, counting the queue and the     *)
(* deque together, and a worker that has left without being reported was   *)
(* killed or has swallowed its error.                                      *)
OneReport ==
  \A j \in Jobs :
    LET sent == {i \in DOMAIN finalQ : ReportOf(finalQ[i], j)}
        here == {i \in DOMAIN results : results[i].job = j}
    IN /\ Cardinality(sent) + Cardinality(here) <= 1
       /\ sent \cup here # {} => j \in cache
       /\ (j \in cache /\ proc[j] = "sent" /\ rthread = "running") => sent \cup here # {}

(* A live worker keeps its slot: nobody takes it before the process is     *)
(* dead.  With it go the limits on parallelism: no more live workers than  *)
(* forks, and no more on a throttled task than its throttle.               *)
SlotsAndThrottle ==
  /\ \A j \in Jobs : proc[j] \in Living => \E s \in Slots : workers[s] = j
  /\ \A t \in Tasks :
       /\ Cardinality(Alive(t)) <= Forks
       /\ Throttle[t] > 0 /\ t \notin RunOnce => Cardinality(Alive(t)) <= Throttle[t]

(* A worker that waits for the user is never forgotten: its question is on *)
(* the queue with the slot that is still its own, or its answer has come.  *)
(* The results thread answers whoever has the slot by then; that is        *)
(* somebody else only when the worker that asked has left.                 *)
IsPrompt(m) == m.kind = "prompt"
Waits(j)    == \E i \in 1..Len(finalQ) :
                 IsPrompt(finalQ[i]) /\ finalQ[i].job = j /\ workers[finalQ[i].slot] = j
HasAnswer(j) == \E i \in 1..Len(inbox[j]) : inbox[j][i] = j
HasLeft(j)   == proc[j] \in {"exited", "died"}
AnswerForAsker ==
  \A j \in Jobs :
    /\ proc[j] = "asking" => Waits(j) \/ HasAnswer(j)
    /\ \A i \in 1..Len(inbox[j]) : inbox[j][i] = j \/ HasLeft(inbox[j][i])

(* A worker goes on with the answer to its own question.                   *)
OwnAnswer ==
  [][\A j \in Jobs :
       proc[j] = "asking" /\ inbox'[j] # inbox[j] /\ proc'[j] = "resumed" => Head(inbox[j]) = j]_vars

(* When the last host of a round has been waited for, no worker still has  *)
(* a result to give: the next round starts with nothing in flight, whether *)
(* hosts are unreachable, killed or were never forked.                     *)
RoundsDoNotOverlap ==
  pc = "round" => /\ InFlight = {} /\ results = <<>>
                  /\ \A j \in Jobs : proc[j] \notin Working

(* At the end no worker process is left running, and on the way there      *)
(* without an error every result was processed: the sentinel was the last  *)
(* message the results thread needed.                                      *)
CleanEnd ==
  pc = "done" => /\ \A j \in Jobs : proc[j] \notin Living
                 /\ ~error => finalQ = <<>> /\ results = <<>> /\ pending = 0

(* The abstract specification: hosts in lock-step.                         *)
Busy   == {HostOf(j) : j \in InFlight}
Served == {h \in Hosts : \E j \in Jobs : j = <<h, round>> /\ proc[j] # "none"}
Abstract == INSTANCE Lockstep WITH task <- round, served <- Served, busy <- Busy

(* The linear strategy keeps the hosts in lock-step with the task, as      *)
(* TaskQueueManager.run says.                                              *)
ImplementsLockstep == Abstract!Spec

(* The wait for the counter to drop to zero comes to an end: with all the  *)
(* results, or with the error raised for a dead worker.                    *)
WaitEnds == (pc = "wait") ~> (pc = "round" \/ error)

(* Every run comes to an end.                                              *)
RunEnds == <>(pc = "done")

(* Every task the loop has queued for a host is run on it, or is at least  *)
(* still on its way, when the loop goes on to the next round.              *)
QueuedMeansStarted == pc = "round" => \A j \in Jobs : proc[j] # "unstarted"

-----------------------------------------------------------------------------
(* The inductive invariant of the proofs.                                  *)

(* Only tasks of the current round are in flight, none between rounds, and *)
(* the hosts the loop has not reached were not given the task.             *)
RoundOK ==
  /\ pc = "round" => pending = 0
  /\ \A j \in Jobs : proc[j] # "none" => TaskOf(j) <= round
  /\ \A j \in InFlight : TaskOf(j) = round
  /\ pc \in {"queue", "scan", "drain"} => round > 0
  /\ pc \in {"queue", "scan", "drain"} =>
       \A j \in Jobs : HostOf(j) \in todo /\ TaskOf(j) = round => proc[j] = "none"
  /\ pc = "scan" => current \notin todo /\ proc[<<current, round>>] = "none"

Inductive == TypeOK /\ ThreadNeverCrashes /\ ReportsOK /\ CacheOK /\ RoundOK

(* The result of a worker that has sent it is on its way until processed.  *)
SentOK ==
  rthread = "running" => \A j \in cache : proc[j] = "sent" =>
    \/ \E i \in 1..Len(finalQ) : ReportOf(finalQ[i], j)
    \/ \E i \in 1..Len(results) : results[i].job = j

(* A run without an error ends with nothing in flight, and its sentinel is *)
(* the last message on the queue.                                          *)
IsSentinel(m) == m.kind = "sentinel"
EndOK ==
  /\ pc \in {"cleanup", "join", "reap", "done"} /\ ~error => pending = 0
  /\ pc \notin {"join", "reap", "done"} =>
       /\ rthread # "ended"
       /\ \A i \in 1..Len(finalQ) : ~IsSentinel(finalQ[i])
  /\ pc \in {"join", "reap", "done"} /\ ~error =>
       IF rthread = "running"
         THEN \E n \in 1..Len(finalQ) :
                n = Len(finalQ) /\ \A i \in 1..n : IsSentinel(finalQ[i]) <=> i = n
         ELSE finalQ = <<>>
  /\ pc \in {"reap", "done"} => rthread # "running"
  /\ pc = "done" => \A j \in Jobs : proc[j] \notin Living

(* A prompt on the queue names the slot of the worker that asked, until    *)
(* that has left.                                                          *)
PromptsOK ==
  /\ \A i \in 1..Len(finalQ) : IsPrompt(finalQ[i]) =>
       \/ HasLeft(finalQ[i].job)
       \/ proc[finalQ[i].job] \in Living /\ workers[finalQ[i].slot] = finalQ[i].job
  /\ AnswerForAsker

WorkersOK == SlotsOK /\ SentOK /\ EndOK /\ PromptsOK

=============================================================================
