------------------------ MODULE LinearDispatch_proofs ------------------------
(***************************************************************************)
(* Proofs about LinearDispatch for every set of hosts, every number of     *)
(* tasks and forks, every throttle, and every fault: type correctness, the *)
(* inductive invariant and what follows from it (the pending counter, the  *)
(* results thread, rounds that do not overlap), and the refinement of      *)
(* Lockstep.                                                               *)
(***************************************************************************)
EXTENDS LinearDispatch, StrategyBase_proofs

-----------------------------------------------------------------------------
(* Type correctness.                                                       *)

LEMMA TypeInit == Init => TypeOK
<1> SUFFICES ASSUME Init PROVE TypeOK
  OBVIOUS
<1>1. MaxPasses \in Nat
  BY SizesAssumption DEF MaxPasses
<1>2. BaseTypeOK
  BY BaseTypeInit DEF Init
<1>3. pc \in PCs /\ round \in 0..NumTasks /\ todo \subseteq Hosts
  BY SizesAssumption DEF Init, PCs
<1>4. passes \in 0..MaxPasses
  BY <1>1 DEF Init
<1>5. current \in Hosts /\ error \in BOOLEAN
  BY DEF Init
<1> QED
  BY <1>2, <1>3, <1>4, <1>5 DEF TypeOK

(* Every step of the main loop.                                            *)
LEMMA MainTypes ==
  ASSUME TypeOK, RoundOK, Main
  PROVE  TypeOK'
<1> USE DEF Goto, PCs
<1>1. MaxPasses \in Nat \ {0}
  BY SizesAssumption DEF MaxPasses
<1>2. CASE StartRound \/ FinishRounds \/ EndOfHosts \/ DrainStops \/ CollectStops \/ JoinThread
  BY <1>2, SizesAssumption
  DEF TypeOK, BaseTypeOK, baseVars, poolVars, strategyVars, StartRound, FinishRounds, EndOfHosts,
      DrainStops, CollectStops, JoinThread, HostsLeft
<1>3. ASSUME NEW h \in Hosts, BlockHost(h) \/ NoopHost(h) \/ SkipHost(h)
      PROVE  TypeOK'
  BY <1>1, <1>3
  DEF TypeOK, BaseTypeOK, baseVars, poolVars, strategyVars, BlockHost, NoopHost, SkipHost, Remaining
<1>4. CASE QueueTask
  <2>1. round \in Tasks /\ <<current, round>> \in Jobs
    BY <1>4, SizesAssumption DEF TypeOK, BaseTypeOK, RoundOK, QueueTask, Tasks, Jobs
  <2>2. TaskOf(<<current, round>>) = round
    BY DEF TaskOf
  <2>3. BaseTypeOK'
    BY <1>4, <2>1, <2>2, QueueTypes DEF QueueTask, TypeOK
  <2>4. /\ UNCHANGED <<round, todo, current, error>>
        /\ pc' \in PCs /\ passes' \in 0..MaxPasses
    BY <1>1, <1>4 DEF QueueTask, TypeOK
  <2> QED
    BY <2>3, <2>4 DEF TypeOK
<1>5. CASE DrainOne \/ CollectOne
  BY <1>1, <1>5, ProcessResultTypes DEF TypeOK, BaseTypeOK, DrainOne, CollectOne, controlVars
<1>6. CASE WaitChecks
  BY <1>6 DEF TypeOK, BaseTypeOK, WaitChecks, baseVars, poolVars, strategyVars
<1>7. CASE PutSentinel
  <2>1. Sentinel \in Messages
    BY DEF Messages
  <2> QED
    BY <1>7, <2>1, AppendPositions DEF TypeOK, BaseTypeOK, PutSentinel, Send, poolVars, strategyVars
<1>8. CASE ReapWorkers
  BY <1>8 DEF TypeOK, BaseTypeOK, ReapWorkers, strategyVars, ProcStates
<1> QED
  BY <1>2, <1>3, <1>4, <1>5, <1>6, <1>7, <1>8 DEF Main

-----------------------------------------------------------------------------
(* The reports on the queue and in the deque.                              *)

-----------------------------------------------------------------------------
(* The cache, the counter and the rounds.                                  *)

LEMMA RoundFrame ==
  ASSUME RoundOK, InFlight' = InFlight, UNCHANGED <<pending, controlVars>>,
         \A j \in Jobs : proc'[j] = "none" <=> proc[j] = "none",
         round \in Nat, pc = "scan" => <<current, round>> \in Jobs
  PROVE  RoundOK'
BY DEF RoundOK, controlVars

LEMMA InductiveInit == Init => Inductive
<1> SUFFICES ASSUME Init PROVE Inductive
  OBVIOUS
<1>1. TypeOK
  BY TypeInit
<1>2. InFlight = {} /\ IsFiniteSet(cache) /\ PendingCounts
  BY FS_EmptySet DEF Init, BaseInit, InFlight, PendingCounts
<1>3. Len(finalQ) = 0 /\ Len(results) = 0
  BY DEF Init, BaseInit
<1> QED
  BY <1>1, <1>2, <1>3
  DEF Init, BaseInit, Inductive, ThreadNeverCrashes, ReportsOK, CacheOK, RoundOK, Working

(* In a round, the host being served and its task make a job.              *)
LEMMA CurrentJob ==
  ASSUME TypeOK, RoundOK, pc \in {"queue", "scan", "drain"}
  PROVE  round \in Tasks /\ \A h \in Hosts : <<h, round>> \in Jobs
BY SizesAssumption DEF TypeOK, BaseTypeOK, RoundOK, Tasks, Jobs

(* What the steps that only move the main loop leave alone.                *)
LEMMA ControlFrame ==
  ASSUME Inductive, UNCHANGED <<finalQ, results, cache, proc, pending, rthread>>
  PROVE  /\ ThreadNeverCrashes' /\ ReportsOK' /\ CacheOK' /\ InFlight' = InFlight
<1>1. InFlight' = InFlight
  BY DEF InFlight
<1>2. ReportsOK'
  BY DEF Inductive, ReportsOK, AboutJob
<1> QED
  BY <1>1, <1>2 DEF Inductive, ThreadNeverCrashes, CacheOK, PendingCounts

LEMMA MainInductive ==
  ASSUME Inductive, Main
  PROVE  Inductive'
<1> USE DEF Goto
<1>1. TypeOK /\ BaseTypeOK /\ RoundOK /\ CacheOK /\ ReportsOK /\ ThreadNeverCrashes
  BY DEF Inductive, TypeOK
<1>2. TypeOK'
  BY <1>1, MainTypes
<1>3. round \in Nat /\ \A j \in cache : j \in Jobs
  BY <1>1, SizesAssumption DEF TypeOK, BaseTypeOK
<1>4. pending \in Nat /\ (pending = 0 <=> InFlight = {})
  BY <1>1, CountTypes
<1>5. ASSUME StartRound \/ FinishRounds \/ EndOfHosts \/ DrainStops \/ CollectStops
             \/ JoinThread \/ WaitChecks
             \/ \E h \in Hosts : BlockHost(h) \/ NoopHost(h) \/ SkipHost(h)
      PROVE  Inductive'
  <2>1. UNCHANGED <<finalQ, results, cache, proc, pending, rthread>>
    BY <1>5 DEF StartRound, FinishRounds, EndOfHosts, DrainStops, CollectStops, JoinThread,
                WaitChecks, BlockHost, NoopHost, SkipHost, baseVars, poolVars, strategyVars
  <2>2. ThreadNeverCrashes' /\ ReportsOK' /\ CacheOK' /\ InFlight' = InFlight
    BY <2>1, ControlFrame
  <2>3. CASE StartRound
    <3>1. InFlight = {} /\ round' = round + 1 /\ pc' = "queue"
      BY <1>1, <1>4, <2>3 DEF StartRound, RoundOK
    <3>2. \A j \in Jobs : TaskOf(j) = round + 1 => proc[j] = "none"
      BY <1>1, <1>3, JobParts DEF RoundOK
    <3>3. \A j \in Jobs : proc[j] # "none" => TaskOf(j) <= round + 1
      BY <1>1, <1>3, JobParts DEF RoundOK
    <3> QED
      BY <1>2, <1>3, <2>1, <2>2, <3>1, <3>2, <3>3 DEF RoundOK, Inductive
  <2>4. CASE FinishRounds \/ EndOfHosts \/ DrainStops \/ CollectStops \/ JoinThread
    BY <1>1, <1>2, <2>1, <2>2, <2>4
    DEF RoundOK, Inductive, FinishRounds, EndOfHosts, DrainStops, CollectStops, JoinThread
  <2>5. CASE WaitChecks
    BY <1>1, <1>2, <1>4, <2>1, <2>2, <2>5 DEF RoundOK, Inductive, WaitChecks, NoPendingResults
  <2>6. ASSUME NEW h \in Hosts, BlockHost(h)
        PROVE  RoundOK'
    <3>1. <<h, round>> \in Jobs /\ HostOf(<<h, round>>) = h /\ TaskOf(<<h, round>>) = round
      BY <1>1, <2>6, CurrentJob DEF BlockHost, HostOf, TaskOf
    <3>2. h \in todo /\ current' = h /\ h \notin todo' /\ todo' \subseteq todo
      BY <2>6 DEF BlockHost, Remaining
    <3> QED
      BY <1>1, <2>1, <2>2, <2>6, <3>1, <3>2 DEF RoundOK, BlockHost
  <2>7. ASSUME NEW h \in Hosts, NoopHost(h) \/ SkipHost(h)
        PROVE  RoundOK'
    BY <1>1, <2>1, <2>2, <2>7 DEF RoundOK, NoopHost, SkipHost
  <2> QED
    BY <1>2, <1>5, <2>2, <2>3, <2>4, <2>5, <2>6, <2>7 DEF Inductive
<1>6. CASE QueueTask
  <2> DEFINE job == <<current, round>>
  <2>1. /\ job \in Jobs /\ HostOf(job) = current /\ TaskOf(job) = round /\ pc = "scan"
    BY <1>1, <1>6, CurrentJob DEF QueueTask, HostOf, TaskOf, TypeOK, BaseTypeOK
  <2>2. proc[job] = "none" /\ current \notin todo
    BY <1>1, <2>1 DEF RoundOK
  <2> HIDE DEF job
  <2>3. CASE SlotBusy(round) /\ UNCHANGED <<pc, passes>>
    <3>1. UNCHANGED <<finalQ, results, cache, proc, pending, rthread>>
      BY <2>3 DEF SlotBusy, strategyVars
    <3>2. ThreadNeverCrashes' /\ ReportsOK' /\ CacheOK' /\ InFlight' = InFlight
      BY <3>1, ControlFrame
    <3> QED
      BY <1>1, <1>2, <1>6, <2>3, <3>1, <3>2 DEF RoundOK, Inductive, QueueTask
  <2>4. CASE (StartWorker(job) \/ ForkFails(job)) /\ pc' \in {"wait", "drain"}
    <3>1. \E s, st : Occupy(job, s, st)
      BY <2>4 DEF StartWorker, ForkFails
    <3>2. ReportsOK'
      BY <1>1, <2>1, <2>2, <3>1, OccupyReports
    <3>3. ThreadNeverCrashes'
      BY <1>1, <3>1 DEF Occupy, ThreadNeverCrashes
    <3>4. CacheOK' /\ (InFlight' = InFlight \cup {job} \/ InFlight' = InFlight)
      BY <1>1, <2>1, <2>2, <2>4, StartCounts, ForkFailsCounts
    <3>5. \A j \in Jobs : j # job => proc'[j] = proc[j]
      BY <1>1, <3>1 DEF Occupy, TypeOK, BaseTypeOK
    <3>6. RoundOK'
      BY <1>1, <1>3, <1>6, <2>1, <2>2, <2>4, <3>4, <3>5 DEF RoundOK, QueueTask
    <3> QED
      BY <1>2, <3>2, <3>3, <3>4, <3>6 DEF Inductive
  <2> QED
    BY <1>6, <2>3, <2>4 DEF QueueTask, job
<1>7. CASE DrainOne \/ CollectOne
  <2>1. ProcessResult /\ UNCHANGED <<pc, round, todo, current>>
    BY <1>7 DEF DrainOne, CollectOne, controlVars
  <2>2. CacheOK' /\ proc' = proc /\ InFlight' \subseteq InFlight
    BY <1>1, <2>1, ProcessCounts
  <2>3. ReportsOK' /\ ThreadNeverCrashes'
    BY <1>1, <2>1, ProcessReports DEF ThreadNeverCrashes, ProcessResult
  <2>4. pc # "round"
    BY <1>7 DEF DrainOne, CollectOne
  <2>5. RoundOK'
    BY <1>1, <2>1, <2>2, <2>4 DEF RoundOK
  <2> QED
    BY <1>2, <2>2, <2>3, <2>5 DEF Inductive
<1>8. CASE PutSentinel
  <2>1. /\ finalQ' = Append(finalQ, Sentinel) /\ pc' = "join"
        /\ UNCHANGED <<proc, results, cache, pending, rthread, round>>
    BY <1>8 DEF PutSentinel, Send, poolVars, strategyVars
  <2>2. Sentinel \in Messages /\ ~AboutJob(Sentinel)
    BY DEF Messages, AboutJob, Sentinel
  <2>3. \A j \in Jobs : Advances(j)
    BY <2>1 DEF Advances
  <2>4. ReportsOK'
    BY <1>1, <2>1, <2>2, <2>3, AppendReport
  <2>5. CacheOK' /\ InFlight' = InFlight
    BY <1>1, <2>1, <2>3, ProgressFrame
  <2>6. RoundOK' /\ ThreadNeverCrashes'
    BY <1>1, <2>1, <2>5 DEF RoundOK, ThreadNeverCrashes
  <2> QED
    BY <1>2, <2>4, <2>5, <2>6 DEF Inductive
<1>9. CASE ReapWorkers
  <2>1. /\ UNCHANGED <<finalQ, results, cache, pending, rthread, round>> /\ pc' = "done"
    BY <1>9 DEF ReapWorkers, strategyVars
  <2>2. \A j \in Jobs : Advances(j)
    BY <1>9 DEF ReapWorkers, IsAlive, Advances, Living, Working, Over
  <2>3. ReportsOK'
    BY <1>1, <2>1, <2>2, ReportsFrame
  <2>4. /\ CacheOK' /\ InFlight' = InFlight
        /\ \A j \in Jobs : proc'[j] = "none" <=> proc[j] = "none"
    BY <1>1, <2>1, <2>2, ProgressFrame
  <2>5. RoundOK' /\ ThreadNeverCrashes'
    BY <1>1, <2>1, <2>4 DEF RoundOK, ThreadNeverCrashes
  <2> QED
    BY <1>2, <2>3, <2>4, <2>5 DEF Inductive
<1> QED
  BY <1>5, <1>6, <1>7, <1>8, <1>9 DEF Main

LEMMA InductiveStep == Inductive /\ [Next]_vars => Inductive'
<1> SUFFICES ASSUME Inductive, [Next]_vars PROVE Inductive'
  OBVIOUS
<1>1. TypeOK /\ BaseTypeOK /\ RoundOK /\ CacheOK /\ ReportsOK /\ ThreadNeverCrashes
  BY DEF Inductive, TypeOK
<1>2. round \in Nat /\ (pc = "scan" => <<current, round>> \in Jobs)
  BY <1>1, CurrentJob, SizesAssumption DEF TypeOK, BaseTypeOK
<1>3. CASE Main
  BY <1>3, MainInductive
<1>4. ASSUME NEW job \in Jobs, Worker(job), UNCHANGED controlVars
      PROVE  Inductive'
  <2>1. TypeOK'
    BY <1>1, <1>4, WorkerTypes DEF TypeOK, controlVars
  <2>2. ReportsOK' /\ ThreadNeverCrashes' /\ UNCHANGED <<cache, pending>>
    BY <1>1, <1>4, WorkerReports DEF ThreadNeverCrashes
  <2>3. /\ CacheOK' /\ InFlight' = InFlight
        /\ \A j \in Jobs : proc'[j] = "none" <=> proc[j] = "none"
    BY <1>1, <1>4, <2>2, WorkerAdvancesProc, ProgressFrame
  <2>4. RoundOK'
    BY <1>1, <1>2, <1>4, <2>2, <2>3, RoundFrame
  <2> QED
    BY <2>1, <2>2, <2>3, <2>4 DEF Inductive
<1>5. CASE Thread
  <2>1. ResultsThread /\ UNCHANGED controlVars
    BY <1>5 DEF Thread
  <2>2. TypeOK'
    BY <1>1, <2>1, ThreadTypes DEF TypeOK, controlVars
  <2>3. ReportsOK' /\ ThreadNeverCrashes' /\ UNCHANGED <<proc, cache, pending>>
    BY <1>1, <2>1, ThreadReports
  <2>4. CacheOK' /\ InFlight' = InFlight
    BY <1>1, <2>3, ProgressFrame DEF Advances
  <2>5. RoundOK'
    BY <1>1, <1>2, <2>1, <2>3, <2>4, RoundFrame
  <2> QED
    BY <2>2, <2>3, <2>4, <2>5 DEF Inductive
<1>6. CASE UNCHANGED vars
  <2>1. UNCHANGED <<finalQ, results, cache, proc, pending, rthread, pc, round, todo, current>>
    BY <1>6 DEF vars, baseVars, poolVars, strategyVars, controlVars
  <2>2. ThreadNeverCrashes' /\ ReportsOK' /\ CacheOK' /\ InFlight' = InFlight
    BY <2>1, ControlFrame
  <2>3. TypeOK'
    BY <1>1, <1>6 DEF TypeOK, BaseTypeOK, vars, baseVars, poolVars, strategyVars, controlVars
  <2>4. RoundOK'
    BY <1>1, <2>1, <2>2 DEF RoundOK
  <2> QED
    BY <2>2, <2>3, <2>4 DEF Inductive
<1> QED
  BY <1>3, <1>4, <1>5, <1>6 DEF Next, Workers, Terminated

(* In every reachable state, whatever the number of hosts, forks and tasks *)
(* and whatever faults occur, the inductive invariant holds.               *)
THEOREM Invariance == Spec => []Inductive
<1>1. Init => Inductive
  BY InductiveInit
<1>2. Inductive /\ [Next]_vars => Inductive'
  BY InductiveStep
<1> QED
  BY <1>1, <1>2, PTL DEF Spec

(* Every variable keeps the values the code can give it.                   *)
THEOREM TypeCorrect == Spec => []TypeOK
<1>1. Inductive => TypeOK
  BY DEF Inductive
<1> QED
  BY <1>1, Invariance, PTL

(* The counter _pending_results always is the number of tasks that were    *)
(* started and whose result was not processed, although a failed fork is   *)
(* not counted and workers may die at any point.                           *)
THEOREM CounterCorrect == Spec => []PendingCounts
<1>1. Inductive => PendingCounts
  BY DEF Inductive, CacheOK
<1> QED
  BY <1>1, Invariance, PTL

(* normalize_task_result always finds the task of a report in the cache,   *)
(* so the results thread does not die of a KeyError.                       *)
THEOREM ThreadSurvives == Spec => []ThreadNeverCrashes
<1>1. Inductive => ThreadNeverCrashes
  BY DEF Inductive
<1> QED
  BY <1>1, Invariance, PTL

(* When the loop comes to a new round nothing is in flight: no result      *)
(* waits to be processed and no worker is at work.                         *)
THEOREM RoundsApart == Spec => []RoundsDoNotOverlap
<1>1. ASSUME Inductive, pc = "round"
      PROVE  /\ InFlight = {} /\ results = <<>>
             /\ \A j \in Jobs : proc[j] \notin Working
  <2>1. InFlight = {}
    BY <1>1, CountTypes DEF Inductive, RoundOK
  <2>2. \A j \in cache : proc[j] = "unstarted"
    BY <2>1 DEF InFlight
  <2>3. \A j \in Jobs : proc[j] \notin Working
    BY <1>1, <2>2 DEF Inductive, CacheOK, Working
  <2>4. Len(results) = 0
    <3>1. Len(results) \in Nat
      BY <1>1 DEF Inductive, TypeOK, BaseTypeOK
    <3>2. 1 \notin 1..Len(results)
      BY <1>1, <2>2 DEF Inductive, ReportsOK, Over
    <3> QED
      BY <3>1, <3>2
  <2> QED
    BY <1>1, <2>1, <2>3, <2>4, EmptySeq DEF Inductive, TypeOK, BaseTypeOK
<1>2. Inductive => RoundsDoNotOverlap
  BY <1>1 DEF RoundsDoNotOverlap
<1> QED
  BY <1>2, Invariance, PTL

-----------------------------------------------------------------------------
(* The refinement of Lockstep.                                             *)

LEMMA AbstractInit == Init => Abstract!Init
<1> SUFFICES ASSUME Init PROVE Abstract!Init
  OBVIOUS
<1>1. \A j \in Jobs : proc[j] = "none"
  BY DEF Init, BaseInit
<1>2. InFlight = {} /\ round = 0
  BY DEF Init, BaseInit, InFlight
<1> QED
  BY <1>1, <1>2 DEF Abstract!Init, Served, Busy

(* A step that starts nothing, processes nothing and stays in the round is *)
(* invisible.                                                              *)
LEMMA AbstractStutter ==
  ASSUME InFlight' = InFlight, round' = round,
         \A j \in Jobs : proc'[j] = "none" <=> proc[j] = "none"
  PROVE  UNCHANGED Abstract!vars
BY DEF Abstract!vars, Served, Busy

(* A round hands out a new task once nobody is busy.                       *)
LEMMA StartRoundIsNextTask ==
  ASSUME Inductive, StartRound
  PROVE  Abstract!NextTask
<1>1. /\ UNCHANGED <<proc, cache, pending>> /\ pc = "round" /\ round' = round + 1
  BY DEF StartRound, baseVars, poolVars, strategyVars
<1>2. InFlight = {} /\ InFlight' = {}
  BY <1>1, CountTypes DEF Inductive, RoundOK, InFlight
<1>3. \A j \in Jobs : TaskOf(j) = round + 1 => proc[j] = "none"
  BY JobParts, SizesAssumption DEF Inductive, RoundOK, TypeOK, BaseTypeOK
<1>4. Served' = {}
  BY <1>1, <1>3 DEF Served, TaskOf
<1> QED
  BY <1>1, <1>2, <1>4 DEF Abstract!NextTask, Busy

(* A started worker is a task given to a host that had not been given it,  *)
(* and a failed fork is a task skipped.                                    *)
LEMMA QueueTaskIsGive ==
  ASSUME Inductive, QueueTask
  PROVE  \/ UNCHANGED Abstract!vars
         \/ Abstract!Give(current) \/ Abstract!Skip(current)
<1> DEFINE job == <<current, round>>
<1>1. TypeOK /\ BaseTypeOK /\ CacheOK /\ RoundOK /\ round' = round /\ pc = "scan"
  BY DEF Inductive, TypeOK, QueueTask
<1>2. /\ job \in Jobs /\ HostOf(job) = current /\ current \in Hosts
      /\ proc[job] = "none"
  BY <1>1, CurrentJob DEF HostOf, TypeOK, BaseTypeOK, RoundOK
<1>3. CASE SlotBusy(round)
  <2>1. UNCHANGED <<proc, cache>>
    BY <1>3 DEF SlotBusy, strategyVars
  <2> QED
    BY <1>1, <2>1, AbstractStutter DEF InFlight
<1>4. ASSUME StartWorker(job) \/ ForkFails(job)
      PROVE  current \notin Served /\ Served' = Served \cup {current}
  <2>1. /\ \A j \in Jobs : j # job => proc'[j] = proc[j]
        /\ proc'[job] \in {"running", "unstarted"}
    BY <1>1, <1>2, <1>4 DEF StartWorker, ForkFails, Occupy, TypeOK, BaseTypeOK
  <2> QED
    BY <1>1, <1>2, <2>1 DEF Served
<1> HIDE DEF job
<1>5. CASE StartWorker(job)
  <2>1. InFlight' = InFlight \cup {job}
    BY <1>1, <1>2, <1>5, StartCounts
  <2>2. Busy' = Busy \cup {current}
    BY <1>2, <2>1 DEF Busy
  <2> QED
    BY <1>1, <1>4, <1>5, <2>2 DEF Abstract!Give
<1>6. CASE ForkFails(job)
  <2>1. InFlight' = InFlight
    BY <1>1, <1>2, <1>6, ForkFailsCounts
  <2>2. Busy' = Busy
    BY <2>1 DEF Busy
  <2> QED
    BY <1>1, <1>4, <1>6, <2>2 DEF Abstract!Skip
<1> QED
  BY <1>3, <1>5, <1>6 DEF QueueTask, job

(* A processed result makes its host, busy with this one task, done.       *)
LEMMA ProcessResultIsDone ==
  ASSUME Inductive, ProcessResult, round' = round
  PROVE  \E h \in Hosts : Abstract!Done(h)
<1> DEFINE j == Head(results).job
<1>1. proc' = proc /\ j \in InFlight /\ InFlight' = InFlight \ {j}
  BY ProcessCounts DEF Inductive, TypeOK
<1> HIDE DEF j
<1>2. InFlight \subseteq Jobs /\ \A k \in InFlight : TaskOf(k) = round
  BY DEF Inductive, TypeOK, BaseTypeOK, RoundOK, InFlight
<1>3. \A k \in InFlight : HostOf(k) = HostOf(j) => k = j
  BY <1>1, <1>2, JobParts
<1>4. HostOf(j) \in Hosts /\ HostOf(j) \in Busy /\ Busy' = Busy \ {HostOf(j)}
  BY <1>1, <1>2, <1>3, JobParts DEF Busy
<1>5. Served' = Served
  BY <1>1 DEF Served
<1> QED
  BY <1>4, <1>5 DEF Abstract!Done

LEMMA AbstractStep == Inductive /\ [Next]_vars => [Abstract!Next]_(Abstract!vars)
<1> SUFFICES ASSUME Inductive, [Next]_vars PROVE [Abstract!Next]_(Abstract!vars)
  OBVIOUS
<1>1. TypeOK /\ BaseTypeOK /\ CacheOK /\ ReportsOK
  BY DEF Inductive, TypeOK
<1>2. CASE StartRound
  BY <1>2, StartRoundIsNextTask DEF Abstract!Next
<1>3. CASE QueueTask
  BY <1>1, <1>3, QueueTaskIsGive DEF Abstract!Next, TypeOK, BaseTypeOK
<1>4. CASE DrainOne \/ CollectOne
  BY <1>4, ProcessResultIsDone DEF DrainOne, CollectOne, controlVars, Abstract!Next
<1>5. ASSUME FinishRounds \/ EndOfHosts \/ DrainStops \/ CollectStops
             \/ JoinThread \/ WaitChecks \/ PutSentinel
             \/ (\E h \in Hosts : BlockHost(h) \/ NoopHost(h) \/ SkipHost(h))
             \/ Thread \/ UNCHANGED vars
      PROVE  UNCHANGED Abstract!vars
  <2>1. UNCHANGED <<cache, proc, round>>
    BY <1>5 DEF FinishRounds, EndOfHosts, DrainStops, CollectStops, JoinThread,
                WaitChecks, PutSentinel, BlockHost, NoopHost, SkipHost, Thread, ResultsThread,
                ThreadCallback, ThreadResult, ThreadPrompt, ThreadStops, Take,
                vars, baseVars, poolVars, strategyVars, controlVars
  <2> QED
    BY <2>1, AbstractStutter DEF InFlight
<1>6. ASSUME ReapWorkers \/ (\E job \in Jobs : Worker(job) /\ UNCHANGED controlVars)
      PROVE  UNCHANGED Abstract!vars
  <2>1. \A j \in Jobs : Advances(j)
    <3>1. CASE ReapWorkers
      BY <3>1 DEF ReapWorkers, IsAlive, Advances, Living, Working, Over
    <3> QED
      BY <1>1, <1>6, <3>1, WorkerAdvancesProc
  <2>2. UNCHANGED <<cache, pending, round>>
    BY <1>1, <1>6, WorkerReports DEF ReapWorkers, strategyVars, controlVars
  <2> QED
    BY <1>1, <2>1, <2>2, ProgressFrame, AbstractStutter
<1> QED
  BY <1>2, <1>3, <1>4, <1>5, <1>6 DEF Next, Main, Workers, Terminated

(* The linear strategy keeps all the hosts in lock-step with a given task, *)
(* as TaskQueueManager.run promises, and gives a host each task at most    *)
(* once, for any hosts, forks, throttles and faults.                       *)
THEOREM LinearImplementsLockstep == Spec => ImplementsLockstep
<1>1. Init => Abstract!Init
  BY AbstractInit
<1>2. Inductive /\ [Next]_vars => [Abstract!Next]_(Abstract!vars)
  BY AbstractStep
<1> QED
  BY <1>1, <1>2, Invariance, PTL DEF Spec, Abstract!Spec, ImplementsLockstep

=============================================================================
