# Distronode in TLA+

Models of the controller of Distronode (`src/lib/distronode`): how a playbook's tasks are handed
to worker processes, how their results come back and move each host through the blocks of its
play, how a worker makes a module ready, sends it and tries again, how an asynchronous task is run
and polled, how a connection process is shared, and how the inventory answers while tasks add to
it. TLC checks the models on small instances; TLAPS proves the core of the dispatch, of the task
attempts, of asynchronous jobs, of the shared connection and of the inventory for every instance.

Source paths below are relative to `src/lib/distronode/`.

## 1. The system

A playbook run is a controller process that forks a worker process per task and host.

| part | state | operations | talks to |
|---|---|---|---|
| playbook executor `executor/playbook_executor.py` | plays, batches, failed and unreachable counts | `run`, `_get_serialized_batches` | queue manager, inventory |
| task queue manager `executor/task_queue_manager.py` | `_workers`, `_final_q`, `_failed_hosts`, `_unreachable_hosts` | `run`, `has_dead_workers`, `_cleanup_processes`, callbacks | strategy |
| strategies `linear.py`, `free.py`, `host_pinned.py`, `debug.py` | the loop over hosts | `run` | strategy base, iterator |
| strategy base `plugins/strategy/__init__.py` | `_pending_results`, `_blocked_hosts`, `_queued_task_cache`, `_results` deque, `_cur_worker` | `_queue_task`, `_process_pending_results`, `_wait_on_pending_results`, `_execute_meta`, `cleanup`; the results thread | queue manager (pool, final queue), iterator, inventory |
| play iterator `executor/play_iterator.py` | a `HostState` per host: cursors, run state, failures, nested states; the flat list of tasks and a pointer into it | `get_next_task_for_host`, `mark_host_failed`, `clear_host_errors`, `add_tasks`, start-at-task | strategy, blocks, handlers |
| playbook objects `playbook/*.py` | blocks, roles, handlers, includes | compile, load, notify | iterator, strategy |
| worker `executor/process/worker.py` | a process, its `worker_queue` | `run`, `_hard_exit`, prompts | final queue, task executor |
| task executor `executor/task_executor.py` | loop items, attempts, polls | `_run_loop`, `_execute`, `_poll_async_result` | connection, action plugins |
| module packaging `executor/module_common.py`, `action_write_locks.py` | an archive per module, its `-part` file, a lock per name | `_find_module_utils` | file system, other workers |
| ssh `plugins/connection/ssh.py` | tries of a command | `_ssh_retry` | the host |
| persistent connections `cli/scripts/distronode_connection_cli_stub.py`, `module_utils/connection.py` | lock file, socket, the process behind it | the stub's `main`, `start`, `run`, `shutdown`, requests | task executors of several workers |
| async tasks `modules/async_wrapper.py`, `async_status.py` | the job file and its `.tmp` | `jwrite`, watching, timeout, status, cleanup | task executor, file system |
| inventory `inventory/{manager,data,group,host}.py` | groups, hosts, edges, depths, ancestors of a host, cached host lists, two pattern caches, restriction, limit, what tasks added | `add_host`, `group_by`, refresh, `reconcile_inventory`, `get_hosts`, `restrict_to_hosts` | sources, strategy, executor |
| variables, fact cache | facts, variables of hosts | merge, get | all |
| action, become and shell plugins, modules, templating, galaxy, CLI | - | input and output | outside world |

Hard behaviour: worker processes, the results thread and the main loop interleave freely; a
worker can die, or leave without a result, at any step; slots are reused; results arrive in any
order and while the loop is in the middle of a round; the state of a host is a stack of nested
blocks into which failures, includes, handler flushes and other hosts' failures cut; all hosts of
a batch share one pointer into the tasks; workers share an archive, and others a connection
process, through files and locks that any of them may leave behind; an async job has three
processes and one file, with timeouts that race the answer; cached lists of hosts hang on groups
that several operations rewire. `PROJECT.json` lists each hazard at its line.

What makes each part correct, in a sentence:

* dispatch: the pending counter is what is really in flight; a report always finds its cached task;
  a slot is not taken from a live worker; rounds of the linear strategy do not overlap; every loop
  ends;
* iterator: a host runs the tasks its blocks call for, in order, and is failed exactly when they
  say; a notified handler runs;
* playbook: hosts in lock step still each do what their blocks say; a lost host stays out of later
  batches; an unhandled fatal error ends the play; the exit code tells whether hosts were lost;
* task: every worker sends the whole module; the attempts made, told and reported are those that
  `retries` and `until` ask for; a task ends;
* async job: a job file is never seen half-written and in the end holds a response; a job with a
  time limit is stopped;
* persistent connection: one process for one device; nothing is left behind; nobody waits for ever;
* inventory: no cached list, and no cached answer, outlives a change of what it was computed from; a
  host knows exactly the groups above it; a refresh brings back what tasks had added.

## 2. Modules

| module | what it is |
|---|---|
| `StrategyBase` | workers, slots, final queue, results thread, bookkeeping; no loop of its own |
| `LinearDispatch` | EXTENDS it with the linear strategy's loop, the wait and the end of a run |
| `FreeDispatch` | EXTENDS it with the loop of free and host_pinned |
| `Lockstep` | abstract specification: all hosts on one task before any is on the next |
| `HostState` | pure operators on a `HostState`: next task, failing, clearing, inserting |
| `BlockSemantics` | reference definition of what blocks mean, as a recursion over the play |
| `PlayIterator` | one host driven through a play by its strategy, checked against the reference |
| `LinearLockstep` | several hosts of a batch in their iterator states: rounds, results, what they do to other hosts |
| `Playbook` | EXTENDS it with plays, batches and the result of the run |
| `ModuleCache` | the archive of a module, built by the first worker and read by the others |
| `TaskAttempts` | EXTENDS it with the attempts of a task and the tries of its connection |
| `AsyncJob` | wrapper, watcher, child and polling controller over inodes |
| `PersistentConnection` | stubs, lock file, socket and connection processes |
| `InventoryData` | pure operators on groups and hosts, with their caches and depths |
| `Inventory` | the manager: what tasks add, refresh, patterns, batches |
| `SmallPlays` | building plays for TLC |
| `MC...` | instances for TLC |
| `StrategyBase_proofs` | lemmas about the worker slots, the queue and the results thread, for both strategies |
| `..._proofs` | the theorems about `LinearDispatch` (two modules: `LinearWorkers_proofs` builds on `LinearDispatch_proofs`), `FreeDispatch`, `TaskAttempts`, `AsyncJob`, `PersistentConnection` and `Inventory` (with `InventoryData`) |

### StrategyBase and LinearDispatch

A *job* is a task on a host, `<<host, task>>`, and stands for the cache key `(host.name, task._uuid)`.

* `SlotBusy`, `StartWorker`, `ForkFails` are one step of the search in `_queue_task`; `RewindPoint`,
  `ScanSlot` and `NextSlot` its arithmetic on `_cur_worker` with `throttle`.
* `ProcessResult` is one pass of `_process_pending_results` over the head of the deque: counter,
  blocked host, unreachable host, cache entry.
* `WorkerCallback`, `WorkerAsks`, `WorkerGetsAnswer`, `WorkerSends`, `WorkerExits` are what a worker
  does, `WorkerDies`, `WorkerSwallows` and `WorkerTimesOut` what may happen to it (`Faults`). The last is
  the alarm of a task's `timeout` in `WorkerQueue.get`: the worker goes on to report while its prompt is
  still open. Each `inbox` is a worker's queue of answers; an answer is the job that asked for it, so
  that the model can tell whose question a worker was given the answer to.
* `ThreadCallback`, `ThreadResult`, `ThreadPrompt`, `ThreadStops` are the branches of
  `results_thread_main`; a missing cache entry "crashes" the thread, as its `KeyError` does.
* The `pc` of `LinearDispatch` follows `linear.run`: `round`, `queue`, `scan`, `drain`,
  `wait`/`collect` (`_wait_on_pending_results`), `cleanup`, `join`, `reap`, `done`.

A round may go to any subset of the hosts left: which of them get a noop (`NoopHost`) or have run
the task's role before (`SkipHost`) is the iterator's choice, and open here.

### FreeDispatch

The `pc` follows `free.run`: `pass` (the outer loop), `host` (the turn of `hosts_left[last_host]`),
`scan` (`_queue_task`), `next` (lines 205-219), `drain`, `wait`. Each host has its own position
`taken` in one list of tasks; a play (`Settings`) says whether it is pinned, throttled, which tasks
are meta tasks and which belong to a role that may have run. The base throttle is off
(`ALLOW_BASE_THROTTLING`), as an assumption on the constant.

### HostState, BlockSemantics, PlayIterator

A task is a place in the play; a block a record of three sections; a state is the record the code
has, nested states as sequences of at most one. `NextFrom` is the loop of
`_get_next_task_from_state`, one named operator per branch. `PlayIterator` drives one host: take
the next task, it succeeds (including blocks, notifying handlers) or fails, a flush is executed,
and, `outside` times, another host fails it, ends it or has its errors cleared. `BlockSemantics` does not use the
iterator: given which places fail it computes, by recursion on blocks, the sequence of tasks run
and whether the play failed. A task whose errors are ignored is `TaskOk`; an unreachable host
stops being asked.

### LinearLockstep and Playbook

Here a task that was queued is answered in any order, ok, failed or unreachable; the workers and
the waiting between are `LinearDispatch`'s. The states of the hosts are `HostState` records.

* `Round` is `_get_next_task_lockstep` with the search of `all_tasks` from `cur_task` on (`PointAt`)
  and the phase of handlers (`AtLowestHandler`); when the pointer finds no task the assertion of
  the code fails (`crashed`).
* The queueing of a host executes its meta task at once or gives its task to a worker, with
  `run_once` cutting the round short.
* A result marks hosts failed or unreachable, all of them for a failed `run_once` task, notifies
  handlers, or asks for an include; the end of a round loads includes, and decides on
  `any_errors_fatal` and `max_fail_percentage`.
* `NextPlay`, `NextBatch`, `BatchOver`, `PlayOver` are the loops of `PlaybookExecutor.run`; a batch
  gets a new iterator in which hosts that failed before are failed from the start.

The history variables `ran` and `bad` record what a host went through and which of it failed, and
`calm` whether anything but its own tasks has moved it: such a host is compared with
`BlockSemantics`, as the single host of `PlayIterator` is.

### ModuleCache and TaskAttempts

`ModuleCache` has a step for each access to the lock, the archive and the `-part` file in
`_find_module_utils`, with a worker interrupted (`Interrupt`: the `timeout` alarm, which leaves
through the `finally`) or killed (`Killed`: the lock stays taken) between any two.
`TaskAttempts` is the loop over attempts in `_execute` around it, and the retries of `_ssh_retry`
inside: a command may be answered, lose its connection, or meet a broken control pipe once. The
connection, the alarm and an exception of the action may each take the answer before the module ran or
after it (`MayHaveRun`); `ActionSkips` is the exception that ends a task as skipped. `task` is what
the playbook asked for: `retries` given or not, `until`, `timeout`.

### PersistentConnection

Each worker runs the stub once and then one command. `OpenLock`, `UseSocket`, `Fork`, `ReadStart`
are the stub under its lock file; `Bind`, `StartFails`, `Listen`, `Accept`, `Respond`,
`CommandFails`, `CloseSocket`, `RemoveSocket`, `RemoveLock` the process; `Connect`, `ConnectFails`,
`ConnectionLost` a request. The lock file is a directory entry: unlinking it while a worker has it
open lets the next worker lock another file of the same name. `calm`, chosen at the start, says that
nothing times out and nothing fails to start.

### InventoryData and Inventory

An inventory is a record: groups, hosts, edges, members, what each host takes to be its groups,
depths, the list of hosts each group has cached, the cached `groups` dictionary. Each operator is a
method of `Group`, `Host` or `InventoryData` with the calls it makes; a loop of groups raises and
ends the run, hence no deadlock check. `Inventory` adds what the manager keeps: the list of what tasks
added, replayed by a refresh, first all hosts and then all groups; the cache of names and the cache
of whole patterns with its key (`PatternHash`); limit and restriction. `Sources` are what a refresh
may find. Loops of the code are `ForEach`, where the order does not matter, and `InOrder`: recursive
functions over the sets still to be gone through, with the body of the loop as a function from one
inventory to the next. `Walk` and `Deepen` run a round for each group, which is as many as the code's
loops can need in a graph without a loop.

### AsyncJob

Files are inodes, so that two writers can hold one file open while it is renamed; `jwrite` is
three steps (open, write, rename) that either process may be in. The time limit and the faults of a
behaviour are chosen at the start: "net" (a poll raises), "full" (a write fails), "slow" (the
child's first write outlasts the waits of 2.5 and 10 seconds that the code has for it). Time is
otherwise counted in naps of the watcher and polls of the controller, which interleave freely.

## 3. Runs

Passing:

| run | instance | shows |
|---|---|---|
| `linear` | 3 hosts, 2 forks, 2 tasks: a loop with run_once, then one with throttle 1 and a prompt that may outlast the task's timeout | `SlotsAndThrottle`, `AnswerForAsker`; runs end (`RunEnds`) |
| `linear_faults` | 3 hosts, 2 forks, 2 tasks, the first a loop with item reports, the second run_once; kills, lost results and failed forks | `ThreadNeverCrashes`, `PendingCounts`, `OneReport`, `RoundsDoNotOverlap`, `CleanEnd`; the loop implements `Lockstep` |
| `iter` | plays of blocks nested up to three deep in every section, includes, facts, start-at-task, other hosts' interference; plays with flushes and two handlers notifying each other | `RunsAsBlocksSay`, `StartsAtTask`, `NotifiedHandlersRun`, `HostEnds` |
| `playbook` | 2 and 3 hosts; 52 playbooks: nested blocks with each task run_once in turn, fatal errors and failure limits, every meta task, handlers, also flushed in a block with a rescue section, includes, six kinds of `serial` over three plays; any task fails | `HostsDoAsBlocksSay`, `LostStayOut`, `RescuedIsBack`, `FatalEndsPlay`, `ResultTells`, `RunOnceIsOnce`, `PlaybookEnds` |
| `free` | 3 hosts, 2 forks, 2 tasks: a play with a meta task and a role, one throttled, one pinned | `OneTaskPerHost`, `FreeThrottle`, `AllServed`, `FreeEnds` |
| `task` | 2 workers, 5 kinds of task, 2 tries of the connection; kills, actions that raise that they failed or have nothing to do | `WholeModule`, `RetriesAsAsked`, `TaskEnds` |
| `async` | with and without a limit; every combination of faults | `NeverHalfWritten`, `LeavesResponse`, `ModuleStopped`, `StartedIsFound`, `JobEnds` |
| `connection` | 3 workers, calm or not | `OneProcess`, `NoStaleSocket`, `AllComeToEnd` |
| `inventory` | 3 hosts, 3 groups of the user, two sources, two limits, three patterns; two additions by tasks of six kinds | `CachesFresh`, `KnowsItsGroups`, `ChildrenAreDeeper`, `AnswersAreTrue`, `RefreshRestores` |

`MCPlaybook` also has TLC evaluate `BatchesOfSmallPlays`: the batches of a play are its hosts in
order and as large as `serial` says, for up to six hosts and every `serial` of two entries from ten.

Violations (findings in `PROJECT.json` quote the sentence the code contradicts):

| run | what happens |
|---|---|
| `linear_killed` | a killed worker's slot is taken by the next host, `has_dead_workers` no longer sees it, and the wait never ends |
| `free_index` | a throttled pass leaves `last_host` at the end of a list that then shrinks: `IndexError` |
| `inventory_restricted` | the key of the pattern cache does not tell a pattern `web, h1` from `web` while the batch is `h1`: the play is given hosts outside its batch, or too few |

The `IndexError`, the nested flush and the interleaving of pinned hosts below were also seen by
driving the real `PlayIterator` and the real `free.run` with stubs around them.

To check the inductive invariant of a proof on reachable states, name it (`Inductive`, `WorkersOK`,
`TaskInductive`, `ConnectionInv`) under INVARIANT in the configuration of one of the component's runs.

Further configurations, outside the listed runs (`tlc -config X.cfg M`). Each violates its one
property; `AsyncRace` has two and `PlaybookRescued` two causes, which `tlc -continue` shows together:

| configuration | module | property | what happens |
|---|---|---|---|
| `LinearTimeout` | `MCLinearDispatch` | `OwnAnswer` (`plugins/strategy/__init__.py:411`) | the timeout of a task ends a worker that waits for the user; the next host gets its slot, asks too, and goes on with the answer to the first one's question |
| `LinearForkFails` | `MCLinearDispatch` | `QueuedMeansStarted` | a fork that fails is taken for an abort, and the host silently misses the task |
| `IterFlush` | `MCPlayIterator` | `AlwaysSectionsRun` | a handler that fails in a flush inside a nested block sends the host to the outer block: the inner always section never runs |
| `IterFlushAlways` | `MCPlayIterator` | `AlwaysErrorsComplete` (`play_iterator.py:391-394`) | a handler that fails in a flush of an always section sends the host to the rescue section, after which it is no longer failed. In the same way a flush that fails in a rescue section goes back to the start of that section |
| `IterStartFirst` | `MCPlayIterator` | `GathersOnlyIfAsked` (`play_iterator.py:287-290`) | `--start-at-task` naming the first task of a play with `gather_facts: False` gathers facts |
| `AsyncRace` | `AsyncJob` | `ResponseLeft` | at the timeout the child truncates the shared `.tmp` that the watcher then renames; the job file stays empty |
| `AsyncRace` | `AsyncJob` | `KeptResult` (`keyword_desc.yml:8`) | the watcher sleeps a last time and writes the timeout over the result of a module that ended meanwhile |
| `AsyncDiskFull` | `AsyncJob` | `StopsModule` (`async_wrapper.py:309`) | writing the timeout response fails, and the kill after it is not reached |
| `AsyncRace`, with `SaysStarted = TRUE` | `AsyncJob` | `FinishedIsReported` instead (`async_status.py:87`) | a module that returns a key `started` is never seen to have finished |
| `FreePinned` | `MCFreeDispatch` | `PinnedToForks` | a meta task takes no worker, so a further host starts its play: more active plays than forks |
| `PlaybookFatalAlways` | `MCPlaybook` | `FatalEndsPlay` (`keyword_desc.yml:7`) | a fatal error in a block with only an always section lets the other hosts go on with the play |
| `PlaybookRescued` | `MCPlaybook` | `AllRescuedAreBack` | a failed `run_once` task takes every host out of the play; a rescue brings back only the one that ran it. And a host whose handler fails in a flush is rescued (`play_iterator.py:490-494`) but stays out: `is_any_block_rescuing` is asked about the state before, in which handlers run |
| `PlaybookOnceTwice` | `MCPlaybook` | `RunOnceIsOnce` (`keyword_desc.yml:59`) | in the phase of handlers hosts are matched by their handler cursor, which is 0 for those not flushing: a `run_once` task is run by two hosts, at two times |
| `PlaybookIncludeRescued` | `MCPlaybook` | `ResultTells` | an include that cannot be loaded counts its hosts as failed, also when their block rescues them |
| `PlaybookLostBatch` | `MCPlaybook` | `LostBatchEndsPlay` | a batch whose hosts were lost in an earlier play is not seen to be lost, as hosts lost before the play are subtracted from the count |
| `TaskTwoNames` | `MCTaskAttempts` | `WholeModule` (`module_common.py:1192-1194`) | the lock goes by the name a module is called by, the archive by its full name: two workers write one `-part` file |
| `InventoryUngrouped` | `MCInventory` | `KnowsItsGroups` (`inventory/data.py:39`) | a group of the user over `ungrouped`: taking a host out of `ungrouped` also takes from it a group that it is directly in |
| `ConnectionRace` | `PersistentConnection` | `KeepsItsSocket` | a process whose start failed removes the socket that another has bound by then |

### Bounds, and why they suffice

* Dispatch: two tasks give one boundary between rounds, and two hosts at different tasks for free.
  Three hosts on two forks: a slot is contended for, a throttle of 1 is below the forks and none of
  it at them, and a run_once task leaves `_cur_worker` beyond the throttle of the next. One
  callback of a job waits in the final queue at a time
  (`WorkerCallback`), and a task prompts at most once. `free`: one host may fail a task (`Failing`);
  any may become unreachable.
* Iterator: every combination of sections for leaf blocks, nested in every section, to depth three;
  the code treats deeper nesting by the same recursion. Two interferences from outside. Two
  handlers, so that one may notify an earlier and a later one.
* Playbook: two hosts, so that one may be ahead, behind, failed or lost for the other, in plays of at
  most two blocks; three hosts where batches of several sizes matter. `NumHandlers` is one.
* Task: two workers contend for one lock; two tries of a connection have a first and a last, and
  `retries` of 1 or 3 a first, a middle and a last attempt.
* Async: no limit, or one of two naps, of which the first does not count; three polls. Each `jwrite`
  opens at most one new inode, and there are four of them.
* Connection: three workers: one that starts, one that waits for the lock file it opened, one that
  comes after that file was removed and makes a new one. A worker starts at most one process.
* Inventory: `MaxDynamic` two additions, so that one comes before or after another or a refresh;
  `MaxAsked` two questions kept in the cache between changes.

### Fairness, and why the code justifies it

* Dispatch: the main loop, the results thread and every live worker are scheduled; a task is
  assumed to end (the code bounds its time only when the `timeout` keyword is set) and a worker that
  has put its result exits. No fairness on the faults, on loop callbacks or on asking for a prompt.
* Iterator and playbook: the strategy keeps asking for tasks and a task ends one way or the other:
  `[]<>(at the end) \/ []<><<Next>>_vars`, weak fairness of a step that is enabled until the end.
* Task: workers are scheduled, a command that was sent returns, and an alarm that was set goes off.
  Nothing obliges a killed worker's lock to be freed; `TaskEnds` says for whom it is then that a
  task still ends.
* Async: the processes are scheduled and `jwrite` goes on; the module may run for ever and the
  connection need not raise.
* Connection: stubs and processes are scheduled, a device that does not answer runs into
  `command_timeout`, and an idle process is ended by its alarm; no fairness on failing.

## 4. Proofs

`LinearDispatch_proofs`, for any finite set of hosts, any number of tasks and forks, any
throttles, run_once tasks, loops, prompts and any set of faults, a timeout during a prompt among them:

| theorem | states |
|---|---|
| `Invariance` | `Spec => []Inductive` |
| `TypeCorrect` | `Spec => []TypeOK` |
| `CounterCorrect` | the pending counter is the number of jobs in flight |
| `ThreadSurvives` | a report always finds its job in the cache |
| `RoundsApart` | between rounds nothing is in flight, and no worker works |
| `LinearImplementsLockstep` | the loop implements `Lockstep` under the mapping in `LinearDispatch` |

Assumptions: only the named ASSUMEs of `StrategyBase` (hosts finite, `Forks` positive, `throttle`
natural, `NoJob` not a job). `Inductive` is `TypeOK /\ ThreadNeverCrashes /\ ReportsOK /\ CacheOK /\
RoundOK`. That the thread does not crash is not inductive: it needs `ReportsOK`, that every report on
the queue or the deque is about a cached job, that a result is the last report of its job, and that no
job has two results, so that removing the entry at the result cannot orphan a callback. `CacheOK` keeps
the counter equal to the cached jobs that were started, and `RoundOK` ties the tasks in flight to the
current round, which is what lets `pending = 0` separate the rounds and makes each step a step of
`Lockstep` or a stutter.

`LinearWorkers_proofs`, from the same assumptions, with `Inductive` at hand:

| theorem | states |
|---|---|
| `WorkersInvariance` | `Spec => []WorkersOK` |
| `SlotsKept` | live workers keep their slots, within forks and throttle (`SlotsAndThrottle`) |
| `ReportedOnce` | a result is reported once and is never lost on its way (`OneReport`) |
| `EndsClean` | no live worker at the end, and without an error nothing unprocessed (`CleanEnd`) |
| `AnswersReachAskers` | who waits for the user is not forgotten, and an answer goes astray only when its asker has left (`AnswerForAsker`) |

`WorkersOK` has four parts. `SlotsOK` sharpens the first half of `SlotsAndThrottle`: a live worker has
a slot below the rewind point of its task. Picking that slot is an injection from the live workers of a
task into as many slots as it may use, which bounds their number. `SentOK` is the lossless half of
`OneReport`; that there is one at most is in `ReportsOK`. `EndOK` says that only the end puts a sentinel
on the queue, that there it is the last message, and that without an error nothing is pending by then;
with nothing pending no worker has anything to send behind it. `PromptsOK` says that the worker named in a
prompt has left, killed or ended by its timeout, or still has the slot named in it. In the first case the
answer goes to whichever worker has the slot by then, also when that one waits for an answer of its own:
`LinearTimeout` shows it.

`FreeDispatch_proofs`, for any finite set of hosts, any number of tasks and forks, any settings
(throttle, pinning, which tasks are meta tasks or belong to roles) and any faults:

| theorem | states |
|---|---|
| `FreeInvariance` | `Spec => []Inductive` |
| `OneTaskAtATime` | a host has one task in flight at most, and is blocked exactly as long (`OneTaskPerHost`) |
| `ThrottleHolds` | live workers of a task are within its throttle (`FreeThrottle`) |
| `EveryHostServed` | at the end nobody was forgotten and nothing is pending (`AllServed`) |

What both strategies have in common is in `StrategyBase`, as `BaseTypeOK`, `PendingCounts`, `ReportsOK`,
`CacheOK` and `SlotsOK`; `StrategyBase_proofs` shows once, operation by operation, that the search for a
slot, the workers, the results thread and the processing of a result keep them, and both proofs cite it.
`Inductive` of `FreeDispatch` adds what the passes rely on. `PassOK`: the list of a pass has
exactly the reachable hosts, and `last_host` and `starting_host` are places in it (no host becomes
unreachable while a pass goes on: results are processed between passes). `HostsOK`: a host is blocked
exactly while a task of it is cached or being queued, and can be reached then. `ThrottleOK`: the task a
slot is searched for has at least one worker less than its throttle. `WorkOK` is behind `AllServed`: while
`work_to_do` is false, no host the pass went by since `starting_host` (`Passed`) has a task left or is
blocked, so that after a full round nobody has.
That `get_hosts_left` lists the reachable hosts is shown by induction over its recursion
(`HostsLeftLists`): the library's induction theorems take a predicate and cannot be used, but a least
counterexample in a set of numbers can be (`NumbersInSet`).

`TaskAttempts_proofs`, for any workers, locks, tasks, number of tries and faults:

| theorem | states |
|---|---|
| `TaskInvariant` | `Spec => []TaskInductive` |
| `TaskTypeCorrect` | no attempt beyond those given, no try beyond those configured |
| `BooksKept` | runs, answers, told retries and reported attempts agree (`RetriesAsAsked`) |
| `ModuleWhole` | if all workers take the same lock, each sends the whole module (`WholeModule`) |

Assumptions: the named ASSUMEs of `ModuleCache` and `TaskAttempts`, and for `ModuleWhole` that all
workers call the module by one name (`SameLock`), without which it is false (`TaskTwoNames`).
`RetriesAsAsked` speaks only of a task that is over; `AttemptsOK` has the books at every step.
`ArchiveOK` says that the holder of the lock alone has the `-part` file, which is whole when it is
renamed, so that the archive is never partial. `PhasesOK` keeps the two loops in step.

`AsyncJob_proofs`, for any number of polls, time limits and faults:

| theorem | states |
|---|---|
| `AsyncInvariance` | `Spec => []Inductive` |
| `JobFileWhole` | without a limit and with room on the disk the job file is whole (`NeverHalfWritten`) |
| `ResponseIsLeft` | a job that ends by itself leaves its response (`LeavesResponse`) |
| `ModuleIsStopped` | the watcher does not end before the module (`ModuleStopped`) |
| `JobIsFound` | no poll misses the file of a job that is there (`StartedIsFound`) |

Assumption: `AsyncAssumption`. `InodesOK` counts how often each process has opened a file at its stage, so
that there is always an unused inode of the four; the rest would be hollow without it. `AtomicOK` follows
the temporary file of a single writer from empty to complete to renamed. `FoundOK`: from the first
notification to the cleanup there is a file at the poll location. `ResponseOK`: the job that ends by itself
has a response there exactly when its child has written its last, and the controller removes nothing else.
`WatchOK`: the watcher's own write cannot fail while the module runs, because the child, having written its
first, leaves the temporary file alone until the module ends. Each of these needs its premise about limits
and faults; without them TLC finds the violations listed in section 3 (`AsyncRace`, `AsyncDiskFull`).

`PersistentConnection_proofs`, for any finite set of workers:

| theorem | states |
|---|---|
| `ConnectionInvariant` | `Spec => []ConnectionInv` |
| `ConnectionTypeCorrect` | `Spec => []ConnectionTypeOK` |
| `OneProcessStarted` | one process, and no failed task, when nothing times out (`OneProcess`) |
| `SocketsRemoved` | no socket is left without a process (`NoStaleSocket`) |

Assumption: `ClientsAssumption`. `OneProcess` needs that two workers are inside the lock only with
different files (`LocksOK`), which requests are under way (`RequestsOK`), and, while all is calm, that
there is one lock file until all tasks are over, because only a process that shuts down removes it, and
it does so only once all workers are done (`CalmOK`). `NoStaleSocket` needs `SocketOwned`: a socket's
process is between binding and removing it. That a new lock file differs from those still open
(`NewFileExists`) is a pigeonhole argument over `Files`, which has one more element than there are workers.

`Inventory_proofs`, for any finite sets of hosts and groups, any sources, any additions by tasks and any
patterns:

| theorem | states |
|---|---|
| `InventoryInvariance` | `Spec => []Inductive` |
| `InventoryTypeInvariance` | `Spec => []InventoryTypeOK` |
| `CachesStayFresh` | no cached list of hosts outlives a change (`CachesFresh`) |
| `DepthsAreRight` | a group is deeper than the groups above it (`ChildrenAreDeeper`) |
| `HostsKnowTheirGroups` | hosts know the groups they are in and those above (`KnowsItsGroups`) |
| `AnswersStayTrue` | a pattern is answered by what it means now (`AnswersAreTrue`) |
| `BatchUnlessKeysMeet` | a host outside the batch is given out only by the true answer to another question with the same key (`OutsidersAnswerAnother`) |
| `InventoryIsAsAsked` | the inventory has what was asked for and nothing else (`AsAsked`) |
| `RefreshRestored` | a refresh brings back what tasks have added (`RefreshRestores`) |

Assumptions: `NamesAssumption`, `PatternsAssumption` and `InputsAssumption`, of which `WellFormed` says
that the plugins leave no loop among the groups of a source, which `add_child_group` refuses, and put
no group over `all`, which it refuses once reconciling puts that group under `all`. The last five have premises: that nobody links `ungrouped` to another group (`UngroupedApart`; `InventoryUngrouped` shows what
happens otherwise); for the two about answers also that no host has the name of a group (`NamesApart`;
`reconcile_inventory` warns of one); and for `AnswersStayTrue` that different questions have different keys
(`HashesTellApart`). The run `inventory_restricted` is without the last, and violates `OnlyTheBatch`;
`BatchUnlessKeysMeet` does without it too and says that this is the only way: neither a stale answer nor
one from a key of its own can bring another host in. The instance of the run `inventory` has all three.

The argument has five layers. (1) `Below(edges, g)` is the least set of groups with `g` that is closed
under children. `WalkFinds` shows that the rounds of `_walk_relationship` find it, hence
`DescendantsFound` and `AncestorsFound`; `DeepenDeepens` that the rounds of `_check_children_depth`
leave every child deeper than its parents, provided no other edge was wrong before. Depths that grow
along every edge are also why there is no loop (`DeeperNoLoops`). (2) One lemma for each method of
`Group`, `Host` and `InventoryData` keeps `Sound`, that groups, hosts and edges fit together, depths
grow, and a group's cached hosts are those below it, which holds in the middle of every change; and
`Told`, that hosts know their groups. The interesting ones are `AdoptSound` (a child brings hosts, depths
and ancestors with it, and caches above must go) and `RemoveFromGroupSound` (an ancestor may only go
if no other group has it). (3) `ReconcileSound` adds `Rooted` and `Settled`: all is above everything, and
ungrouped is for hosts in no group. (4) `ParseSourcesGood`, `DynamicHostGood`, `DynamicGroupGood`,
`HostsReplayed` and `GroupsReplayed` put these together for the operations of the manager, and
`PatternsOK` and `AnswersOK` say that both caches of patterns hold what would be found anew: what
changes the inventory clears them, and what does not clear them leaves the groups their hosts
(`CachesKeptStep`). An answer is kept with its key only, so `AnswersOK` says that some question with that
key has it; that it is the one asked is where `HashesTellApart` comes in. Loops are covered by one lemma
each, `ForEachInduction` and `InOrderInduction`, from a least counterexample among the sets that are
still to be gone through. (5) A refresh replays the additions in another order than they came, and on
another inventory, so that no step of the one history has its counterpart in the other. Both are
compared with what was asked for instead. `MadeOf(i, requests)`: `i` has the groups, hosts and edges that
sources and tasks asked for, each of their hosts below the group it was asked for, and no other edge but
from `all` and no other member of a group of the user. Every operation either adds its request (`MadeGrows`)
or asks for nothing (`MadeKept`), hence `AsAsked`, in which only some of the groupings need have been
applied: a refresh skips those whose host is not there. Two inventories made of the same requests look the
same (`SameRequestsSameView`): below a group of the user the edges are those asked for (`SameBelow`), and
depths are right from below as well (`Measured`, kept by `DeepenMeasures`), so each is the length of a
longest way from `all`, of which both have all (`SameDepth`). What is not determined is which group has
a host itself: `add_dynamic_group` leaves out a host that is below the group already (`manager.py:743`), and
whether it is depends on what came before. `SameView` therefore compares the hosts below each group.

Only model-checked: liveness; and the iterator and the playbook (`RunsAsBlocksSay`, `StartsAtTask`,
`NotifiedHandlersRun`, `HostsDoAsBlocksSay`, `LostStayOut`, `RescuedIsBack`, `FatalEndsPlay`, `ResultTells`,
`RunOnceIsOnce`). Their operators are `RECURSIVE`, over host states nested in host states and over lists of
tasks with blocks in them. TLAPS has no SMT backend in such modules, and a recursive function would need
the set of all nested states as its domain.

## 5. Simplifications

* The final queue is one atomic step per message; the pipe and lock inside
  `multiprocessing.SimpleQueue` are not modelled.
* `debug_closure` removes the cache entries of a batch of results when the batch is over; the model
  removes each with its result. Nothing reads the cache of these jobs in between.
* `LinearDispatch`: outcomes are those the dispatch distinguishes, ok or unreachable; failures matter
  to the iterator, where they are modelled, and end a host's play in `FreeDispatch`. There the final
  wait finds nothing pending (`AllServed`), so its loop is left out.
* Iterator: handlers that a handler includes during a flush, `--step`, and the debugger are left out;
  a task whose errors are ignored is one that is ok.
* `Playbook`: the hosts of an include load the same file, in the round of its results;
  no `force_handlers`, roles, or start-at-task (`PlayIterator` has the last). The percentage of `serial`
  is divided as integers; the code goes through a float, and truncates 29 % of 100 hosts to 28.
* `TaskAttempts`: one command stands for those an action sends; polling of async tasks is in `AsyncJob`.
* `PersistentConnection`: looking for the socket and removing it are one step, as the two calls of
  each of the two are; signals, the content of requests and the network plugins are left out.
* `Inventory`: names in patterns are whole (no globs, regular expressions or subscripts); no implicit
  localhost, no values of variables, no order of hosts, no source that cannot be read, and no
  `group_by` for a host that is not in the inventory, which raises.

## 6. Not modelled

* Variables and fact cache: the precedence of variables is one merge of dictionaries after another, and
  cached facts expire by the clock of the file system: without values there is nothing to tell apart.
* Templating and parsing (Jinja, YAML, arguments, module arguments): sequential functions over text. A
  model would repeat the code and have no behaviour to explore.
* Action, become and shell plugins, and most of connection plugins: the wording of commands for a
  remote shell, and the parsing of their output.
* Galaxy and the command line: dependency resolution is delegated to an external solver
  (`resolvelib`); the rest is downloads, archives, options and output.
* Modules and module utilities: programs that run on the managed nodes, each one a conversation with
  an operating system (`user`, `yum`, `service`, `apt`, facts). They are most of the lines of the
  repository; their state is the node's, so that a model would be of the operating system and not of
  this code. The asynchronous wrapper and the client of a persistent connection are the exceptions,
  and are modelled.
* Callback plugins format and print.

Of the parts that are modelled, `PROJECT.json` says under "components" what each leaves out.
