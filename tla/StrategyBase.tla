----------------------------- MODULE StrategyBase -----------------------------
(***************************************************************************)
(* The machinery every strategy plugin shares: the slots of worker         *)
(* processes, the final queue on which workers report, the results thread  *)
(* that moves reports from the queue to the results deque, and the         *)
(* bookkeeping of the strategy (pending counter, blocked hosts, cache of   *)
(* queued tasks).  The strategy's own loop is in the modules that extend   *)
(* this one.                                                               *)
(*                                                                         *)
(*   lib/distronode/plugins/strategy/__init__.py   StrategyBase            *)
(*   lib/distronode/executor/task_queue_manager.py FinalQueue, the pool    *)
(*   lib/distronode/executor/process/worker.py     WorkerProcess           *)
(*                                                                         *)
(* A job is the execution of one task on one host; while it lasts, the     *)
(* strategy's cache holds its key (host.name, task._uuid).                 *)
(***************************************************************************)
EXTENDS Integers, Sequences, FiniteSets

CONSTANTS
  Hosts,      (* the hosts of the batch                                     *)
  NumTasks,   (* bound: rounds of tasks handed out                          *)
  Forks,      (* len(_workers): min(forks, batch size)                      *)
  Throttle,   (* the throttle keyword of each task, 0 when unset            *)
  RunOnce,    (* tasks with run_once                                        *)
  Loops,      (* tasks that report per item before their result             *)
  Pauses,     (* tasks that prompt the user once through the controller     *)
  Faults,     (* faults the environment may inject                          *)
  NoJob       (* an empty slot                                              *)

Tasks == 1..NumTasks
Jobs  == Hosts \X Tasks
Slots == 0..(Forks - 1)

ASSUME HostsAssumption == IsFiniteSet(Hosts)
ASSUME SizesAssumption == NumTasks \in Nat /\ Forks \in Nat \ {0}
ASSUME TasksAssumption ==
  /\ Throttle \in [Tasks -> Nat]
  /\ RunOnce \subseteq Tasks /\ Loops \subseteq Tasks /\ Pauses \subseteq Tasks
ASSUME FaultsAssumption == Faults \subseteq {"kill", "swallow", "fork", "timeout"}
ASSUME NoJobAssumption  == NoJob \notin Jobs

VARIABLES
  workers,     (* _workers: the handle in each slot                         *)
  curWorker,   (* _cur_worker                                               *)
  proc,        (* the life of each job's worker process                     *)
  inbox,       (* worker_queue of each worker: the jobs whose answers wait  *)
  finalQ,      (* _final_q                                                  *)
  rthread,     (* the results thread                                        *)
  results,     (* _results                                                  *)
  cache,       (* keys of _queued_task_cache                                *)
  pending,     (* _pending_results                                          *)
  blocked,     (* keys of _blocked_hosts                                    *)
  unreachable  (* keys of _tqm._unreachable_hosts                           *)

poolVars     == <<workers, curWorker, proc, inbox>>
strategyVars == <<cache, pending, blocked, unreachable>>
baseVars     == <<poolVars, finalQ, rthread, results, strategyVars>>

HostOf(job) == job[1]
TaskOf(job) == job[2]

(* What a worker process can be doing.  "running" has not prompted yet,    *)
(* "resumed" is past its prompt; "sent" has put its result on the queue    *)
(* and is exiting; "exited" left with code 0, "died" with any other;       *)
(* "unstarted" is a handle whose fork failed.                              *)
Working    == {"running", "asking", "resumed"}
Living     == Working \cup {"sent"}
ProcStates == {"none", "unstarted", "exited", "died"} \cup Living
Outcomes   == {"ok", "unreachable"}

Sentinel == [kind |-> "sentinel"]
Callback(job)        == [kind |-> "callback", job |-> job]
PromptNextSlot(job, slot) ==
  [kind |-> "prompt", job |-> job, slot |-> IF slot + 1 = Forks THEN 0 ELSE slot + 1]
Prompt(job, slot)    == [kind |-> "prompt", job |-> job, slot |-> slot]
Result(job, outcome) == [kind |-> "result", job |-> job, outcome |-> outcome]
Reports  == {Result(j, o) : j \in Jobs, o \in Outcomes}
Messages == {Sentinel} \cup {Callback(j) : j \in Jobs}
            \cup {Prompt(j, s) : j \in Jobs, s \in Slots} \cup Reports

BaseInit ==
  /\ workers = [s \in Slots |-> NoJob]
  /\ curWorker = 0
  /\ proc = [j \in Jobs |-> "none"]
  /\ inbox = [j \in Jobs |-> <<>>]
  /\ finalQ = <<>>
  /\ rthread = "running"
  /\ results = <<>>
  /\ cache = {} /\ pending = 0 /\ blocked = {} /\ unreachable = {}

-----------------------------------------------------------------------------
(* Queueing a task (_queue_task).                                          *)

IsAliveWhileWorking(slot) == workers[slot] # NoJob /\ proc[workers[slot]] \in Working
IsTaken(slot)             == workers[slot] # NoJob
IsAlive(slot) == workers[slot] # NoJob /\ proc[workers[slot]] \in Living

RewindPointUnthrottled(t) == Forks
(* The number of slots the search for a worker may use: all of them, or    *)
(* the throttle of the task when that is smaller and run_once is not set.  *)
RewindPoint(t) ==
  IF Throttle[t] > 0 /\ t \notin RunOnce /\ Throttle[t] <= Forks
    THEN Throttle[t] ELSE Forks

(* The slot the search looks at, and the one it moves on to.               *)
ScanSlot(t) == IF curWorker >= RewindPoint(t) THEN 0 ELSE curWorker
NextSlot(t, s) == IF s + 1 >= RewindPoint(t) THEN 0 ELSE s + 1

SlotBusy(t) ==
  /\ IsAlive(ScanSlot(t))
  /\ curWorker' = NextSlot(t, ScanSlot(t))
  /\ UNCHANGED <<workers, proc, inbox, finalQ, rthread, results, strategyVars>>

(* A free slot takes the job: its key is cached and its handle, a process  *)
(* in the given state, replaces whatever is in the slot.                   *)
Occupy(job, s, state) ==
  /\ ~IsAlive(s)
  /\ cache' = cache \cup {job}
  /\ workers' = [workers EXCEPT ![s] = job]
  /\ proc' = [proc EXCEPT ![job] = state]
  /\ UNCHANGED <<inbox, finalQ, rthread, results, blocked, unreachable>>

StartWorker(job) ==
  LET s == ScanSlot(TaskOf(job)) IN
  /\ Occupy(job, s, "running")
  /\ curWorker' = NextSlot(TaskOf(job), s)
  /\ pending' = pending + 1

(* start() raises an OSError, which _queue_task takes for an abort: it     *)
(* returns with the handle in the slot and the job in the cache, but       *)
(* without advancing _cur_worker or counting the job as pending.           *)
ForkFails(job) ==
  LET s == ScanSlot(TaskOf(job)) IN
  /\ "fork" \in Faults
  /\ Occupy(job, s, "unstarted")
  /\ curWorker' = s
  /\ UNCHANGED pending

(* What a processed result leaves of the cache, and of the counter.        *)
NotPopped(r)    == cache
Popped(r)       == cache \ {r.job}
PendingAfter(r) == pending - 1

(* One pass of _process_pending_results over the head of the deque, with   *)
(* the removal of the cache entry by debug_closure.                        *)
ProcessResult ==
  LET r == Head(results) IN
  /\ results # <<>>
  /\ results' = Tail(results)
  /\ unreachable' = IF r.outcome = "unreachable"
                      THEN unreachable \cup {HostOf(r.job)} ELSE unreachable
  /\ pending' = PendingAfter(r)
  /\ blocked' = blocked \ {HostOf(r.job)}
  /\ cache' = Popped(r)
  /\ UNCHANGED <<poolVars, finalQ, rthread>>

(* has_dead_workers: only the handles still in a slot are looked at.       *)
HasDeadWorkers == \E s \in Slots : workers[s] # NoJob /\ proc[workers[s]] = "died"

-----------------------------------------------------------------------------
(* A worker process (WorkerProcess._run and TaskExecutor above it).        *)

Send(m) == finalQ' = Append(finalQ, m)

MayReportLate(job) == proc[job] \in {"running", "resumed", "sent"}
(* The task executor is at work, and not waiting for the user.             *)
MayReport(job) == proc[job] \in {"running", "resumed"}

(* A loop reports an item.  Bound: one report per job waits in the queue.  *)
WorkerCallback(job) ==
  /\ TaskOf(job) \in Loops
  /\ MayReport(job)
  /\ \A i \in DOMAIN finalQ : finalQ[i] # Callback(job)
  /\ Send(Callback(job))
  /\ UNCHANGED <<poolVars, rthread, results, strategyVars>>

(* The worker asks the controller to prompt, naming its slot, and waits.   *)
WorkerAsks(job) ==
  /\ TaskOf(job) \in Pauses
  /\ proc[job] = "running"
  /\ \E s \in Slots : workers[s] = job /\ Send(Prompt(job, s))
  /\ proc' = [proc EXCEPT ![job] = "asking"]
  /\ UNCHANGED <<workers, curWorker, inbox, rthread, results, strategyVars>>

WorkerGetsAnswer(job) ==
  /\ proc[job] = "asking"
  /\ inbox[job] # <<>>
  /\ inbox' = [inbox EXCEPT ![job] = Tail(@)]
  /\ proc' = [proc EXCEPT ![job] = "resumed"]
  /\ UNCHANGED <<workers, curWorker, finalQ, rthread, results, strategyVars>>

(* The alarm of the task's timeout goes off while the worker waits: the    *)
(* attempt has failed, and its prompt stays where it is.                   *)
WorkerTimesOut(job) ==
  /\ "timeout" \in Faults
  /\ proc[job] = "asking"
  /\ proc' = [proc EXCEPT ![job] = "resumed"]
  /\ UNCHANGED <<workers, curWorker, inbox, finalQ, rthread, results, strategyVars>>

(* send_task_result: the result, or the surrogate when it cannot be        *)
(* pickled, or the report of a connection failure.                         *)
WorkerSends(job) ==
  /\ MayReport(job)
  /\ \E o \in Outcomes : Send(Result(job, o))
  /\ proc' = [proc EXCEPT ![job] = "sent"]
  /\ UNCHANGED <<workers, curWorker, inbox, rthread, results, strategyVars>>

WorkerExits(job) ==
  /\ proc[job] = "sent"
  /\ proc' = [proc EXCEPT ![job] = "exited"]
  /\ UNCHANGED <<workers, curWorker, inbox, finalQ, rthread, results, strategyVars>>

(* A signal, or _hard_exit: the process ends with a non-zero code.         *)
WorkerDies(job) ==
  /\ "kill" \in Faults
  /\ proc[job] \in Living
  /\ proc' = [proc EXCEPT ![job] = "died"]
  /\ UNCHANGED <<workers, curWorker, inbox, finalQ, rthread, results, strategyVars>>

(* _run swallows an IOError or EOFError raised while reporting: the        *)
(* process leaves with code 0 and no result.                               *)
WorkerSwallows(job) ==
  /\ "swallow" \in Faults
  /\ MayReport(job)
  /\ proc' = [proc EXCEPT ![job] = "exited"]
  /\ UNCHANGED <<workers, curWorker, inbox, finalQ, rthread, results, strategyVars>>

Worker(job) ==
  \/ WorkerCallback(job) \/ WorkerAsks(job) \/ WorkerGetsAnswer(job)
  \/ WorkerTimesOut(job) \/ WorkerSends(job) \/ WorkerExits(job)
  \/ WorkerDies(job) \/ WorkerSwallows(job)

-----------------------------------------------------------------------------
(* The results thread (results_thread_main).                               *)

Take == /\ rthread = "running" /\ finalQ # <<>>
        /\ finalQ' = Tail(finalQ)
        /\ UNCHANGED <<workers, curWorker, proc, strategyVars>>

(* normalize_task_result finds the task of a report in the cache; when it  *)
(* is not there the KeyError ends the thread.                              *)
ThreadNormalizes(job) == rthread' = IF job \in cache THEN rthread ELSE "crashed"

ThreadCallback ==
  /\ Take
  /\ Head(finalQ).kind = "callback"
  /\ ThreadNormalizes(Head(finalQ).job)
  /\ UNCHANGED <<inbox, results>>

ThreadResult ==
  /\ Take
  /\ Head(finalQ).kind = "result"
  /\ ThreadNormalizes(Head(finalQ).job)
  /\ results' = IF Head(finalQ).job \in cache
                  THEN Append(results, Head(finalQ)) ELSE results
  /\ UNCHANGED inbox

(* The answer goes to whichever worker is in the slot by then.             *)
ThreadPrompt ==
  /\ Take
  /\ Head(finalQ).kind = "prompt"
  /\ inbox' = [inbox EXCEPT ![workers[Head(finalQ).slot]] = Append(@, Head(finalQ).job)]
  /\ UNCHANGED <<rthread, results>>

ThreadStops ==
  /\ Take
  /\ Head(finalQ).kind = "sentinel"
  /\ rthread' = "ended"
  /\ UNCHANGED <<inbox, results>>

ResultsThread == ThreadCallback \/ ThreadResult \/ ThreadPrompt \/ ThreadStops

-----------------------------------------------------------------------------
(* What every strategy keeps true of the machinery.                        *)

(* The variables have the values the code can give them.                   *)
BaseTypeOK ==
  /\ workers \in [Slots -> Jobs \cup {NoJob}]
  /\ curWorker \in Slots
  /\ proc \in [Jobs -> ProcStates]
  /\ inbox \in [Jobs -> Seq(Jobs)]
  /\ finalQ \in Seq(Messages)
  /\ rthread \in {"running", "ended", "crashed"}
  /\ results \in Seq(Reports)
  /\ cache \subseteq Jobs /\ pending \in Int
  /\ blocked \subseteq Hosts /\ unreachable \subseteq Hosts

(* The jobs that were started and whose result is not processed.           *)
InFlight == {j \in cache : proc[j] # "unstarted"}

(* The counter the loop waits on is the number of tasks that were started  *)
(* and whose result was not processed, however queueing, processing and a  *)
(* failed fork interleave (_queue_task, _process_pending_results).         *)
PendingCounts == pending = Cardinality(InFlight)

(* While a result is on its way its cache entry is there, so the results   *)
(* thread never dies of the KeyError in normalize_task_result, and neither *)
(* does the removal of the entry in debug_closure: a loop's item reports   *)
(* all come before its result, and each result comes once.                 *)
ThreadNeverCrashes == rthread # "crashed"

ReportOf(m, j) == m.kind = "result" /\ m.job = j

(* The live workers of a task.                                              *)
Alive(t) == {j \in Jobs : TaskOf(j) = t /\ proc[j] \in Living}

AboutJob(m) == m.kind \in {"result", "callback"}
Over        == {"sent", "exited", "died"}

(* Reports are about jobs that are still cached and have been started; a   *)
(* result is the last thing its job reports, and is reported once.         *)
ReportsOK ==
  /\ \A i \in 1..Len(finalQ) : AboutJob(finalQ[i]) =>
       /\ finalQ[i].job \in cache
       /\ proc[finalQ[i].job] \notin {"none", "unstarted"}
       /\ finalQ[i].kind = "result" => proc[finalQ[i].job] \in Over
  /\ \A i \in 1..Len(results) : results[i].job \in cache /\ proc[results[i].job] \in Over
  /\ \A i, k \in 1..Len(finalQ) :
       i < k /\ finalQ[i].kind = "result" /\ AboutJob(finalQ[k])
         => finalQ[i].job # finalQ[k].job
  /\ \A i \in 1..Len(results), k \in 1..Len(finalQ) :
       AboutJob(finalQ[k]) => results[i].job # finalQ[k].job
  /\ \A i, k \in 1..Len(results) : i < k => results[i].job # results[k].job

(* A job is cached from before its worker works until its result is        *)
(* processed, and the counter counts the started ones.                     *)
CacheOK ==
  /\ \A j \in Jobs : proc[j] \in Working => j \in cache
  /\ \A j \in cache : proc[j] # "none"
  /\ IsFiniteSet(cache)
  /\ PendingCounts

(* A live worker has one of the slots that the search for its task looks   *)
(* at.                                                                     *)
SlotsOK ==
  \A j \in Jobs : proc[j] \in Living =>
    \E s \in 0..(RewindPoint(TaskOf(j)) - 1) : workers[s] = j

=============================================================================
