-------------------------- MODULE StrategyBase_proofs --------------------------
(***************************************************************************)
(* Lemmas about the steps of StrategyBase, for every set of hosts, every   *)
(* number of tasks and forks, every throttle and every fault: what they do *)
(* to the types, to the reports on their way, to the cache, the counter    *)
(* and the slots.  The proofs about the strategies rest on them.           *)
(***************************************************************************)
EXTENDS StrategyBase, FiniteSetTheorems, SequenceTheorems, TLAPS

(* What the head, the tail and an append do to the positions of a queue.   *)
LEMMA TailPositions ==
  ASSUME NEW S, NEW s \in Seq(S), s # <<>>
  PROVE  /\ Head(s) \in S /\ Head(s) = s[1] /\ 1 \in 1..Len(s)
         /\ Tail(s) \in Seq(S) /\ Len(Tail(s)) = Len(s) - 1
         /\ \A i \in 1..Len(Tail(s)) : i + 1 \in 1..Len(s) /\ Tail(s)[i] = s[i + 1]
<1>1. Len(s) \in Nat /\ Len(s) # 0
  BY EmptySeq
<1>2. Head(s) \in S /\ Tail(s) \in Seq(S) /\ Len(Tail(s)) = Len(s) - 1
  BY HeadTailProperties
<1>3. Head(s) = s[1] /\ \A i \in 1..Len(Tail(s)) : Tail(s)[i] = s[i + 1]
  BY <1>1, <1>2
<1> QED
  BY <1>1, <1>2, <1>3

LEMMA AppendPositions ==
  ASSUME NEW S, NEW s \in Seq(S), NEW e \in S
  PROVE  /\ Append(s, e) \in Seq(S) /\ Len(Append(s, e)) = Len(s) + 1
         /\ \A i \in 1..Len(s) : Append(s, e)[i] = s[i]
         /\ Append(s, e)[Len(s) + 1] = e
BY AppendProperties

-----------------------------------------------------------------------------
(* Type correctness.                                                       *)

LEMMA JobParts ==
  ASSUME NEW j \in Jobs
  PROVE  HostOf(j) \in Hosts /\ TaskOf(j) \in Tasks /\ TaskOf(j) \in Nat
         /\ j = <<HostOf(j), TaskOf(j)>>
BY SizesAssumption DEF Jobs, Tasks, HostOf, TaskOf

LEMMA MessageTypes ==
  ASSUME NEW j \in Jobs
  PROVE  /\ Callback(j) \in Messages /\ Callback(j).kind = "callback" /\ Callback(j).job = j
         /\ \A s \in Slots : Prompt(j, s) \in Messages /\ Prompt(j, s).kind = "prompt"
         /\ \A o \in Outcomes : /\ Result(j, o) \in Messages /\ Result(j, o) \in Reports
                                /\ Result(j, o).kind = "result" /\ Result(j, o).job = j
BY DEF Messages, Reports, Callback, Prompt, Result

LEMMA MessageCases ==
  ASSUME NEW m \in Messages
  PROVE  /\ m.kind \in {"sentinel", "callback", "prompt", "result"}
         /\ m.kind = "result" => m \in Reports /\ m.job \in Jobs /\ m.outcome \in Outcomes
         /\ m.kind \in {"callback", "prompt"} => m.job \in Jobs
BY DEF Messages, Reports, Callback, Prompt, Result, Sentinel

LEMMA ReportCases ==
  ASSUME NEW m \in Reports
  PROVE  m.kind = "result" /\ m.job \in Jobs /\ HostOf(m.job) \in Hosts
BY DEF Reports, Result, Jobs, HostOf

(* The slot the search looks at, and the next, are slots.                  *)
LEMMA ScanTypes ==
  ASSUME curWorker \in Slots, NEW t \in Tasks
  PROVE  /\ ScanSlot(t) \in Slots
         /\ \A s \in Slots : NextSlot(t, s) \in Slots
BY SizesAssumption, TasksAssumption DEF ScanSlot, NextSlot, Slots, RewindPoint

LEMMA BaseTypeInit == BaseInit => BaseTypeOK
<1> SUFFICES ASSUME BaseInit PROVE BaseTypeOK
  OBVIOUS
<1>1. 0 \in Slots /\ \A S : <<>> \in Seq(S)
  BY SizesAssumption DEF Slots
<1> QED
  BY <1>1 DEF BaseInit, BaseTypeOK, ProcStates, Living, Working

LEMMA OccupyTypes ==
  ASSUME BaseTypeOK, NEW j \in Jobs, NEW s \in Slots, NEW st \in ProcStates, Occupy(j, s, st)
  PROVE  /\ cache' \subseteq Jobs
         /\ workers' \in [Slots -> Jobs \cup {NoJob}]
         /\ proc' \in [Jobs -> ProcStates]
BY DEF BaseTypeOK, Occupy

(* Every step that queues a task.                                          *)
LEMMA QueueTypes ==
  ASSUME BaseTypeOK, NEW j \in Jobs,
         SlotBusy(TaskOf(j)) \/ StartWorker(j) \/ ForkFails(j)
  PROVE  BaseTypeOK'
<1>1. ScanSlot(TaskOf(j)) \in Slots /\ NextSlot(TaskOf(j), ScanSlot(TaskOf(j))) \in Slots
  BY JobParts, ScanTypes DEF BaseTypeOK
<1>2. CASE SlotBusy(TaskOf(j))
  BY <1>1, <1>2 DEF BaseTypeOK, SlotBusy, strategyVars
<1>3. CASE StartWorker(j) \/ ForkFails(j)
  <2>1. /\ \E st \in ProcStates : Occupy(j, ScanSlot(TaskOf(j)), st)
        /\ curWorker' \in Slots /\ pending' \in Int
    BY <1>1, <1>3 DEF StartWorker, ForkFails, BaseTypeOK, ProcStates, Living, Working
  <2>2. /\ cache' \subseteq Jobs
        /\ workers' \in [Slots -> Jobs \cup {NoJob}]
        /\ proc' \in [Jobs -> ProcStates]
        /\ UNCHANGED <<inbox, finalQ, rthread, results, blocked, unreachable>>
    BY <1>1, <2>1, OccupyTypes DEF Occupy
  <2> QED
    BY <2>1, <2>2 DEF BaseTypeOK
<1> QED
  BY <1>2, <1>3

(* Every step that processes a result.                                     *)
LEMMA ProcessResultTypes ==
  ASSUME BaseTypeOK, ProcessResult
  PROVE  BaseTypeOK'
<1>1. Head(results) \in Reports /\ Tail(results) \in Seq(Reports)
  BY TailPositions DEF BaseTypeOK, ProcessResult
<1>2. HostOf(Head(results).job) \in Hosts
  BY <1>1, ReportCases
<1> QED
  BY <1>1, <1>2 DEF BaseTypeOK, ProcessResult, PendingAfter, Popped, poolVars

(* Every step of a worker process.                                         *)
LEMMA WorkerTypes ==
  ASSUME BaseTypeOK, NEW j \in Jobs, Worker(j)
  PROVE  BaseTypeOK'
<1> USE DEF BaseTypeOK, poolVars, strategyVars, ProcStates, Living, Working
<1>1. CASE WorkerCallback(j)
  BY <1>1, MessageTypes, AppendPositions DEF WorkerCallback, Send
<1>2. CASE WorkerAsks(j)
  BY <1>2, MessageTypes, AppendPositions DEF WorkerAsks, Send
<1>3. CASE WorkerGetsAnswer(j)
  <2>1. Tail(inbox[j]) \in Seq(Jobs)
    BY <1>3, TailPositions DEF WorkerGetsAnswer
  <2> QED
    BY <1>3, <2>1 DEF WorkerGetsAnswer
<1>4. CASE WorkerSends(j)
  BY <1>4, MessageTypes, AppendPositions DEF WorkerSends, Send
<1>5. CASE WorkerTimesOut(j) \/ WorkerExits(j) \/ WorkerDies(j) \/ WorkerSwallows(j)
  BY <1>5 DEF WorkerTimesOut, WorkerExits, WorkerDies, WorkerSwallows
<1> QED
  BY <1>1, <1>2, <1>3, <1>4, <1>5 DEF Worker

(* Every step of the results thread.                                       *)
LEMMA ThreadTypes ==
  ASSUME BaseTypeOK, ResultsThread
  PROVE  BaseTypeOK'
<1>1. finalQ # <<>> /\ finalQ' = Tail(finalQ) /\ finalQ' \in Seq(Messages)
  BY TailPositions DEF ResultsThread, ThreadCallback, ThreadResult, ThreadPrompt,
                       ThreadStops, Take, BaseTypeOK
<1>2. Head(finalQ) \in Messages
  BY <1>1, TailPositions DEF BaseTypeOK
<1> USE DEF BaseTypeOK, strategyVars, Take, ThreadNormalizes
<1>3. CASE ThreadCallback
  BY <1>1, <1>3 DEF ThreadCallback
<1>4. CASE ThreadResult
  <2>1. Head(finalQ) \in Reports
    BY <1>2, <1>4, MessageCases DEF ThreadResult
  <2>2. results' \in Seq(Reports)
    BY <1>4, <2>1, AppendPositions DEF ThreadResult
  <2> QED
    BY <1>1, <1>4, <2>2 DEF ThreadResult
<1>5. CASE ThreadPrompt
  <2> DEFINE x == workers[Head(finalQ).slot]
             y == Head(finalQ).job
  <2>1. inbox' = [inbox EXCEPT ![x] = Append(inbox[x], y)] /\ y \in Jobs
    BY <1>2, <1>5, MessageCases DEF ThreadPrompt
  <2> HIDE DEF x, y
  <2>2. \A k \in Jobs : Append(inbox[k], y) \in Seq(Jobs)
    BY <2>1, AppendPositions
  <2>3. inbox' \in [Jobs -> Seq(Jobs)]
    BY <2>1, <2>2
  <2> QED
    BY <1>1, <1>5, <2>3 DEF ThreadPrompt
<1>6. CASE ThreadStops
  BY <1>1, <1>6 DEF ThreadStops
<1> QED
  BY <1>3, <1>4, <1>5, <1>6 DEF ResultsThread

-----------------------------------------------------------------------------
(* The reports on the queue and in the deque.                              *)

(* The life of a worker goes forward: what was started stays started, and  *)
(* what is over stays over.                                                *)
Advances(j) ==
  /\ proc'[j] # proc[j] => proc[j] \in Living /\ proc'[j] \in Living \cup Over
  /\ proc[j] \in Over => proc'[j] \in Over
  /\ proc'[j] \in Working => proc[j] \in Working

LEMMA WorkerAdvancesProc ==
  ASSUME BaseTypeOK, NEW k \in Jobs, Worker(k)
  PROVE  \A j \in Jobs : Advances(j)
BY DEF BaseTypeOK, Advances, Worker, WorkerCallback, WorkerAsks, WorkerGetsAnswer,
       WorkerTimesOut, WorkerSends, WorkerExits, WorkerDies, WorkerSwallows, MayReport, poolVars,
       Over, Living, Working

(* Positions are jobs, so ReportsOK survives any progress of the workers.  *)
LEMMA ReportsFrame ==
  ASSUME BaseTypeOK, ReportsOK, \A j \in Jobs : Advances(j),
         UNCHANGED <<finalQ, results, cache>>
  PROVE  ReportsOK'
<1>1. \A j \in cache : j \in Jobs
  BY DEF BaseTypeOK
<1> QED
  BY <1>1 DEF ReportsOK, Advances, Living, Working, Over, AboutJob

(* A report about a job that still works may join the queue.               *)
LEMMA AppendReport ==
  ASSUME BaseTypeOK, ReportsOK, \A j \in Jobs : Advances(j), UNCHANGED <<results, cache>>,
         NEW m \in Messages, finalQ' = Append(finalQ, m),
         AboutJob(m) => /\ m.job \in cache /\ proc[m.job] \in Working
                        /\ m.kind = "result" => proc'[m.job] \in Over
  PROVE  ReportsOK'
<1>1. /\ Len(finalQ) \in Nat /\ Len(finalQ') = Len(finalQ) + 1
      /\ \A i \in 1..Len(finalQ) : finalQ'[i] = finalQ[i]
      /\ finalQ'[Len(finalQ')] = m
  BY AppendPositions DEF BaseTypeOK
<1>2. \A i \in 1..Len(finalQ') : i \in 1..Len(finalQ) \/ i = Len(finalQ')
  BY <1>1
<1>3. \A j \in cache : j \in Jobs
  BY DEF BaseTypeOK
<1>4. \A i \in 1..Len(finalQ) : finalQ[i].kind = "result" /\ AboutJob(m) => finalQ[i].job # m.job
  BY DEF ReportsOK, Over, Working, AboutJob
<1>5. \A i \in 1..Len(results) : AboutJob(m) => results[i].job # m.job
  BY DEF ReportsOK, Over, Working
<1>6. \A i \in 1..Len(finalQ') : AboutJob(finalQ'[i]) =>
        /\ finalQ'[i].job \in cache'
        /\ proc'[finalQ'[i].job] \notin {"none", "unstarted"}
        /\ finalQ'[i].kind = "result" => proc'[finalQ'[i].job] \in Over
  BY <1>1, <1>2, <1>3 DEF ReportsOK, Advances, Living, Working, Over
<1>7. \A i \in 1..Len(results') : results'[i].job \in cache' /\ proc'[results'[i].job] \in Over
  BY <1>3 DEF ReportsOK, Advances
<1>8. \A i, k \in 1..Len(finalQ') :
        i < k /\ finalQ'[i].kind = "result" /\ AboutJob(finalQ'[k])
          => finalQ'[i].job # finalQ'[k].job
  BY <1>1, <1>2, <1>4 DEF ReportsOK
<1>9. \A i \in 1..Len(results'), k \in 1..Len(finalQ') :
        AboutJob(finalQ'[k]) => results'[i].job # finalQ'[k].job
  BY <1>1, <1>2, <1>5 DEF ReportsOK
<1> QED
  BY <1>6, <1>7, <1>8, <1>9 DEF ReportsOK, AboutJob

LEMMA WorkerReports ==
  ASSUME BaseTypeOK, ReportsOK, CacheOK, NEW j \in Jobs, Worker(j)
  PROVE  ReportsOK' /\ UNCHANGED <<results, cache, pending, rthread>>
<1>1. \A k \in Jobs : Advances(k)
  BY WorkerAdvancesProc
<1>2. UNCHANGED <<results, cache, pending, rthread>>
  BY DEF Worker, WorkerCallback, WorkerAsks, WorkerGetsAnswer, WorkerTimesOut, WorkerSends,
         WorkerExits, WorkerDies, WorkerSwallows, strategyVars
<1>3. CASE WorkerCallback(j)
  <2>1. j \in cache /\ proc[j] \in Working
    BY <1>3 DEF WorkerCallback, MayReport, Working, CacheOK
  <2> QED
    BY <1>1, <1>2, <1>3, <2>1, AppendReport, MessageTypes DEF WorkerCallback, Send, AboutJob
<1>4. CASE WorkerAsks(j)
  <2>1. PICK s \in Slots : finalQ' = Append(finalQ, Prompt(j, s))
    BY <1>4 DEF WorkerAsks, Send
  <2>2. Prompt(j, s) \in Messages /\ ~AboutJob(Prompt(j, s))
    BY MessageTypes DEF AboutJob
  <2> QED
    BY <1>1, <1>2, <2>1, <2>2, AppendReport
<1>5. CASE WorkerSends(j)
  <2>1. PICK o \in Outcomes : finalQ' = Append(finalQ, Result(j, o))
    BY <1>5 DEF WorkerSends, Send
  <2>2. j \in cache /\ proc[j] \in Working /\ proc'[j] \in Over
    BY <1>5 DEF WorkerSends, MayReport, Working, Over, CacheOK, BaseTypeOK
  <2>3. Result(j, o) \in Messages /\ Result(j, o).job = j
    BY MessageTypes
  <2> QED
    BY <1>1, <1>2, <2>1, <2>2, <2>3, AppendReport
<1>6. CASE \/ WorkerGetsAnswer(j) \/ WorkerTimesOut(j) \/ WorkerExits(j)
          \/ WorkerDies(j) \/ WorkerSwallows(j)
  BY <1>1, <1>2, <1>6, ReportsFrame
  DEF WorkerGetsAnswer, WorkerTimesOut, WorkerExits, WorkerDies, WorkerSwallows
<1> QED
  BY <1>2, <1>3, <1>4, <1>5, <1>6 DEF Worker

(* The results thread moves a result to the deque, and always finds its    *)
(* task in the cache.                                                      *)
LEMMA ThreadReports ==
  ASSUME BaseTypeOK, ReportsOK, ThreadNeverCrashes, ResultsThread
  PROVE  ReportsOK' /\ ThreadNeverCrashes' /\ UNCHANGED <<proc, cache, pending>>
<1>1. finalQ # <<>> /\ finalQ' = Tail(finalQ) /\ UNCHANGED <<proc, cache, pending>>
  BY DEF ResultsThread, ThreadCallback, ThreadResult, ThreadPrompt, ThreadStops, Take,
         strategyVars
<1>2. /\ Head(finalQ) \in Messages /\ Head(finalQ) = finalQ[1] /\ 1 \in 1..Len(finalQ)
      /\ Len(finalQ) \in Nat /\ Len(finalQ') = Len(finalQ) - 1
      /\ \A i \in 1..Len(finalQ') : i + 1 \in 1..Len(finalQ) /\ finalQ'[i] = finalQ[i + 1]
  BY <1>1, TailPositions DEF BaseTypeOK
<1>3. AboutJob(Head(finalQ)) => Head(finalQ).job \in cache
  BY <1>2 DEF ReportsOK
<1>4. ThreadNeverCrashes'
  BY <1>3 DEF ResultsThread, ThreadCallback, ThreadResult, ThreadPrompt, ThreadStops, Take,
              ThreadNormalizes, ThreadNeverCrashes, AboutJob
<1>5. \/ results' = results
      \/ Head(finalQ).kind = "result" /\ results' = Append(results, Head(finalQ))
  BY DEF ResultsThread, ThreadCallback, ThreadResult, ThreadPrompt, ThreadStops
<1>6. \A i \in 1..Len(finalQ') : AboutJob(finalQ'[i]) =>
        /\ finalQ'[i].job \in cache'
        /\ proc'[finalQ'[i].job] \notin {"none", "unstarted"}
        /\ finalQ'[i].kind = "result" => proc'[finalQ'[i].job] \in Over
  BY <1>1, <1>2 DEF ReportsOK
<1>7. ASSUME NEW i \in 1..Len(finalQ'), NEW k \in 1..Len(finalQ'),
             i < k, finalQ'[i].kind = "result", AboutJob(finalQ'[k])
      PROVE  finalQ'[i].job # finalQ'[k].job
  <2>1. /\ i + 1 \in 1..Len(finalQ) /\ k + 1 \in 1..Len(finalQ) /\ i + 1 < k + 1
        /\ finalQ'[i] = finalQ[i + 1] /\ finalQ'[k] = finalQ[k + 1]
    BY <1>2, <1>7
  <2> QED
    BY <1>7, <2>1 DEF ReportsOK
<1>8. CASE results' = results
  <2>1. ASSUME NEW i \in 1..Len(results), NEW k \in 1..Len(finalQ'), AboutJob(finalQ'[k])
        PROVE  results[i].job # finalQ'[k].job
    BY <1>2, <2>1 DEF ReportsOK
  <2> QED
    BY <1>1, <1>4, <1>6, <1>7, <1>8, <2>1 DEF ReportsOK, AboutJob
<1>9. CASE Head(finalQ).kind = "result" /\ results' = Append(results, Head(finalQ))
  <2>1. Head(finalQ) \in Reports
    BY <1>2, <1>9, MessageCases
  <2>2. /\ Len(results) \in Nat /\ Len(results') = Len(results) + 1
        /\ \A i \in 1..Len(results) : results'[i] = results[i]
        /\ results'[Len(results')] = finalQ[1]
    BY <1>2, <1>9, <2>1, AppendPositions DEF BaseTypeOK
  <2>3. \A i \in 1..Len(results') : i \in 1..Len(results) \/ i = Len(results')
    BY <2>2
  <2>4. AboutJob(finalQ[1]) /\ finalQ[1].kind = "result"
    BY <1>2, <1>9 DEF AboutJob
  <2>5. \A i \in 1..Len(results') : results'[i].job \in cache' /\ proc'[results'[i].job] \in Over
    BY <1>1, <1>2, <2>2, <2>3, <2>4 DEF ReportsOK
  <2>6. ASSUME NEW i \in 1..Len(results'), NEW k \in 1..Len(finalQ'), AboutJob(finalQ'[k])
        PROVE  results'[i].job # finalQ'[k].job
    <3>1. /\ k + 1 \in 1..Len(finalQ) /\ 1 < k + 1 /\ finalQ'[k] = finalQ[k + 1]
          /\ AboutJob(finalQ[k + 1])
      BY <1>2, <2>6
    <3>2. CASE i \in 1..Len(results)
      BY <2>2, <3>1, <3>2 DEF ReportsOK
    <3>3. CASE i = Len(results')
      BY <1>2, <2>2, <2>4, <3>1, <3>3 DEF ReportsOK
    <3> QED
      BY <2>3, <3>2, <3>3
  <2>7. ASSUME NEW i \in 1..Len(results'), NEW k \in 1..Len(results'), i < k
        PROVE  results'[i].job # results'[k].job
    <3>1. i \in 1..Len(results)
      BY <2>2, <2>7
    <3>2. CASE k \in 1..Len(results)
      BY <2>2, <2>7, <3>1, <3>2 DEF ReportsOK
    <3>3. CASE k = Len(results')
      BY <1>2, <2>2, <2>4, <3>1, <3>3 DEF ReportsOK
    <3> QED
      BY <2>3, <3>2, <3>3
  <2> QED
    BY <1>1, <1>4, <1>6, <1>7, <2>5, <2>6, <2>7 DEF ReportsOK, AboutJob
<1> QED
  BY <1>1, <1>4, <1>5, <1>8, <1>9

(* A processed result leaves the deque together with its cache entry.      *)
LEMMA ProcessReports ==
  ASSUME BaseTypeOK, ReportsOK, ProcessResult
  PROVE  ReportsOK'
<1>1. /\ Head(results) = results[1] /\ 1 \in 1..Len(results)
      /\ Len(results) \in Nat /\ Len(results') = Len(results) - 1
      /\ \A i \in 1..Len(results') : i + 1 \in 1..Len(results) /\ results'[i] = results[i + 1]
  BY TailPositions DEF BaseTypeOK, ProcessResult
<1>2. cache' = cache \ {results[1].job} /\ UNCHANGED <<proc, finalQ>>
  BY <1>1 DEF ProcessResult, Popped, poolVars
<1>3. \A i \in 1..Len(results') : 1 < i + 1
  BY <1>1
<1>4. ASSUME NEW i \in 1..Len(results')
      PROVE  results'[i].job \in cache' /\ proc'[results'[i].job] \in Over
  <2>1. /\ i + 1 \in 1..Len(results) /\ results'[i] = results[i + 1] /\ 1 < i + 1
    BY <1>1, <1>3
  <2>2. /\ results[i + 1].job \in cache /\ proc[results[i + 1].job] \in Over
        /\ results[1].job # results[i + 1].job
    BY <1>1, <2>1 DEF ReportsOK
  <2> QED
    BY <1>2, <2>1, <2>2
<1>5. ASSUME NEW i \in 1..Len(results'), NEW k \in 1..Len(results'), i < k
      PROVE  results'[i].job # results'[k].job
  <2>1. /\ i + 1 \in 1..Len(results) /\ k + 1 \in 1..Len(results) /\ i + 1 < k + 1
        /\ results'[i] = results[i + 1] /\ results'[k] = results[k + 1]
    BY <1>1, <1>5
  <2> QED
    BY <2>1 DEF ReportsOK
<1>6. ASSUME NEW i \in 1..Len(results'), NEW k \in 1..Len(finalQ'), AboutJob(finalQ'[k])
      PROVE  results'[i].job # finalQ'[k].job
  <2>1. i + 1 \in 1..Len(results) /\ results'[i] = results[i + 1] /\ finalQ' = finalQ
    BY <1>1, <1>2
  <2> QED
    BY <1>6, <2>1 DEF ReportsOK
<1>7. \A i \in 1..Len(finalQ') : AboutJob(finalQ'[i]) => finalQ'[i].job \in cache'
  BY <1>1, <1>2 DEF ReportsOK
<1> QED
  BY <1>2, <1>4, <1>5, <1>6, <1>7 DEF ReportsOK, AboutJob

(* No report is about a job that was not started before.                   *)
LEMMA OccupyReports ==
  ASSUME BaseTypeOK, ReportsOK, NEW j \in Jobs, NEW s, NEW st, proc[j] = "none", Occupy(j, s, st)
  PROVE  ReportsOK'
<1>1. /\ UNCHANGED <<finalQ, results>> /\ cache' = cache \cup {j}
      /\ \A k \in Jobs : k # j => proc'[k] = proc[k]
  BY DEF Occupy, BaseTypeOK
<1>2. \A k \in cache : k \in Jobs
  BY DEF BaseTypeOK
<1>3. \A i \in 1..Len(finalQ) : AboutJob(finalQ[i]) => finalQ[i].job # j
  BY DEF ReportsOK
<1>4. \A i \in 1..Len(results) : results[i].job # j
  BY DEF ReportsOK, Over
<1> QED
  BY <1>1, <1>2, <1>3, <1>4 DEF ReportsOK, AboutJob

-----------------------------------------------------------------------------
(* The cache and the counter.                                              *)

LEMMA CountTypes ==
  ASSUME CacheOK
  PROVE  IsFiniteSet(InFlight) /\ pending \in Nat /\ (pending = 0 <=> InFlight = {})
BY FS_Subset, FS_CardinalityType, FS_EmptySet DEF CacheOK, PendingCounts, InFlight

(* The progress of workers changes neither what is in flight nor what was  *)
(* started.                                                                *)
LEMMA ProgressFrame ==
  ASSUME BaseTypeOK, CacheOK, \A j \in Jobs : Advances(j), UNCHANGED <<cache, pending>>
  PROVE  /\ CacheOK' /\ InFlight' = InFlight
         /\ \A j \in Jobs : proc'[j] = "none" <=> proc[j] = "none"
<1>1. \A j \in cache : j \in Jobs
  BY DEF BaseTypeOK
<1>2. /\ \A j \in Jobs : proc'[j] = "none" <=> proc[j] = "none"
      /\ \A j \in Jobs : proc'[j] = "unstarted" <=> proc[j] = "unstarted"
  BY DEF Advances, Living, Working, Over
<1>3. InFlight' = InFlight
  BY <1>1, <1>2 DEF InFlight
<1> QED
  BY <1>1, <1>2, <1>3 DEF CacheOK, PendingCounts, Advances

(* Starting a worker adds its job to what is in flight and counts it; a    *)
(* failed fork does neither.                                               *)
LEMMA StartCounts ==
  ASSUME BaseTypeOK, CacheOK, NEW j \in Jobs, proc[j] = "none", StartWorker(j)
  PROVE  CacheOK' /\ InFlight' = InFlight \cup {j}
<1>1. /\ cache' = cache \cup {j} /\ pending' = pending + 1
      /\ proc' = [proc EXCEPT ![j] = "running"]
  BY DEF StartWorker, Occupy
<1>2. j \notin cache /\ \A k \in cache : k \in Jobs
  BY DEF CacheOK, BaseTypeOK
<1>3. InFlight' = InFlight \cup {j} /\ j \notin InFlight
  BY <1>1, <1>2 DEF InFlight, BaseTypeOK
<1>4. IsFiniteSet(InFlight) /\ Cardinality(InFlight) \in Nat
  BY CountTypes, FS_CardinalityType
<1>5. pending' = Cardinality(InFlight')
  BY <1>1, <1>3, <1>4, FS_AddElement DEF CacheOK, PendingCounts
<1>6. IsFiniteSet(cache')
  BY <1>1, FS_AddElement DEF CacheOK
<1> QED
  BY <1>1, <1>2, <1>3, <1>5, <1>6 DEF CacheOK, PendingCounts, BaseTypeOK

LEMMA ForkFailsCounts ==
  ASSUME BaseTypeOK, CacheOK, NEW j \in Jobs, proc[j] = "none", ForkFails(j)
  PROVE  CacheOK' /\ InFlight' = InFlight
<1>1. /\ cache' = cache \cup {j} /\ pending' = pending
      /\ proc' = [proc EXCEPT ![j] = "unstarted"]
  BY DEF ForkFails, Occupy
<1>2. j \notin cache /\ \A k \in cache : k \in Jobs
  BY DEF CacheOK, BaseTypeOK
<1>3. InFlight' = InFlight
  BY <1>1, <1>2 DEF InFlight, BaseTypeOK
<1>4. IsFiniteSet(cache')
  BY <1>1, FS_AddElement DEF CacheOK
<1> QED
  BY <1>1, <1>2, <1>3, <1>4 DEF CacheOK, PendingCounts, BaseTypeOK, Working

(* Processing a result takes its job out of what is in flight and of the   *)
(* count.                                                                  *)
LEMMA ProcessCounts ==
  ASSUME BaseTypeOK, ReportsOK, CacheOK, ProcessResult
  PROVE  /\ CacheOK' /\ proc' = proc
         /\ Head(results).job \in InFlight /\ InFlight' = InFlight \ {Head(results).job}
<1> DEFINE j == Head(results).job
<1>1. /\ cache' = cache \ {j} /\ pending' = pending - 1 /\ proc' = proc
  BY DEF ProcessResult, Popped, PendingAfter, poolVars
<1>2. Head(results) = results[1] /\ 1 \in 1..Len(results)
  BY TailPositions DEF BaseTypeOK, ProcessResult
<1>3. j \in cache /\ proc[j] \in Over
  BY <1>2 DEF ReportsOK
<1> HIDE DEF j
<1>4. j \in InFlight /\ InFlight' = InFlight \ {j}
  BY <1>1, <1>3 DEF InFlight, Over
<1>5. IsFiniteSet(InFlight) /\ Cardinality(InFlight) \in Nat
  BY CountTypes, FS_CardinalityType
<1>6. pending' = Cardinality(InFlight')
  BY <1>1, <1>4, <1>5, FS_RemoveElement DEF CacheOK, PendingCounts
<1>7. IsFiniteSet(cache')
  BY <1>1, FS_RemoveElement DEF CacheOK
<1>8. \A k \in Jobs : proc'[k] \in Working => k \in cache'
  BY <1>1, <1>3 DEF CacheOK, Working, Over
<1> QED
  BY <1>1, <1>4, <1>6, <1>7, <1>8 DEF CacheOK, PendingCounts, j

-----------------------------------------------------------------------------
(* Slots.                                                                  *)

LEMMA RewindTypes ==
  ASSUME NEW t \in Tasks
  PROVE  /\ RewindPoint(t) \in Nat \ {0} /\ RewindPoint(t) <= Forks
         /\ Throttle[t] > 0 /\ t \notin RunOnce => RewindPoint(t) <= Throttle[t]
         /\ 0..(RewindPoint(t) - 1) \subseteq Slots
BY SizesAssumption, TasksAssumption DEF RewindPoint, Slots

(* What a step of a worker or the end of a run does to the processes.      *)
LEMMA SlotsFrame ==
  ASSUME SlotsOK, workers' = workers,
         \A j \in Jobs : proc'[j] \in Living => proc[j] \in Living
  PROVE  SlotsOK'
BY DEF SlotsOK, RewindPoint

(* A job takes a slot that its task may use, and from nobody who lives.    *)
LEMMA OccupySlots ==
  ASSUME BaseTypeOK, SlotsOK, NEW j \in Jobs, NEW st,
         Occupy(j, ScanSlot(TaskOf(j)), st)
  PROVE  SlotsOK'
<1> DEFINE t == TaskOf(j)
           s == ScanSlot(t)
<1>1. t \in Tasks
  BY JobParts
<1>2. s \in 0..(RewindPoint(t) - 1) /\ s \in Slots
  <2>1. curWorker \in Slots
    BY DEF BaseTypeOK
  <2> QED
    BY <1>1, <2>1, RewindTypes DEF ScanSlot, Slots
<1>3. /\ ~IsAlive(s) /\ workers' = [workers EXCEPT ![s] = j]
      /\ proc' = [proc EXCEPT ![j] = st]
  BY DEF Occupy
<1> HIDE DEF s, t
<1>4. ASSUME NEW k \in Jobs, proc'[k] \in Living, k # j
      PROVE  \E r \in 0..(RewindPoint(TaskOf(k)) - 1) : workers'[r] = k
  <2>1. proc[k] \in Living
    BY <1>3, <1>4 DEF BaseTypeOK
  <2>2. PICK r \in 0..(RewindPoint(TaskOf(k)) - 1) : workers[r] = k
    BY <2>1 DEF SlotsOK
  <2>3. k # NoJob
    BY NoJobAssumption
  <2>4. r # s
    BY <1>3, <2>1, <2>2, <2>3 DEF IsAlive
  <2>5. workers'[r] = k
    BY <1>3, <2>2, <2>4, JobParts, RewindTypes DEF BaseTypeOK
  <2> QED
    BY <2>5
<1>5. workers'[s] = j
  BY <1>2, <1>3 DEF BaseTypeOK
<1> QED
  BY <1>2, <1>4, <1>5 DEF SlotsOK, RewindPoint, t

(* As many workers of a task live as there are slots for it, at most.      *)
LEMMA AliveBound ==
  ASSUME BaseTypeOK, SlotsOK, NEW t \in Tasks
  PROVE  /\ IsFiniteSet(Alive(t)) /\ Cardinality(Alive(t)) \in Nat
         /\ Cardinality(Alive(t)) <= RewindPoint(t)
<1> DEFINE R == 0..(RewindPoint(t) - 1)
           f == [j \in Alive(t) |-> CHOOSE s \in R : workers[s] = j]
<1>1. IsFiniteSet(R) /\ Cardinality(R) = RewindPoint(t)
  <2>1. RewindPoint(t) \in Nat \ {0}
    BY RewindTypes
  <2>2. 0 \in Int /\ RewindPoint(t) - 1 \in Int /\ ~(0 > RewindPoint(t) - 1)
    BY <2>1
  <2> QED
    BY <2>1, <2>2, FS_Interval
<1>2. \A j \in Alive(t) : \E s \in R : workers[s] = j
  BY DEF Alive, SlotsOK
<1>3. \A j \in Alive(t) : f[j] \in R /\ workers[f[j]] = j
  BY <1>2
<1>4. f \in Injection(Alive(t), R)
  BY <1>3 DEF Injection, IsInjective
<1> HIDE DEF R, f
<1>5. IsFiniteSet(Alive(t)) /\ Cardinality(Alive(t)) <= Cardinality(R)
  BY <1>1, <1>4, FS_Injection
<1> QED
  BY <1>1, <1>5, FS_CardinalityType

-----------------------------------------------------------------------------
(* All of it, step by step.                                                *)

BaseOK == BaseTypeOK /\ ThreadNeverCrashes /\ ReportsOK /\ CacheOK /\ SlotsOK

LEMMA BaseOKInit == BaseInit => BaseOK
<1> SUFFICES ASSUME BaseInit PROVE BaseOK
  OBVIOUS
<1>1. InFlight = {} /\ IsFiniteSet(cache) /\ PendingCounts
  BY FS_EmptySet DEF BaseInit, InFlight, PendingCounts
<1>2. Len(finalQ) = 0 /\ Len(results) = 0
  BY DEF BaseInit
<1>3. ThreadNeverCrashes /\ ReportsOK /\ CacheOK /\ SlotsOK
  BY <1>1, <1>2
  DEF BaseInit, ThreadNeverCrashes, ReportsOK, CacheOK, SlotsOK, Living, Working
<1> QED
  BY <1>3, BaseTypeInit DEF BaseOK

(* Blocking hosts does not matter to the rest.                             *)
LEMMA BaseFrame ==
  ASSUME BaseOK, UNCHANGED <<poolVars, finalQ, rthread, results, cache, pending>>,
         blocked' \subseteq Hosts, unreachable' \subseteq Hosts
  PROVE  BaseOK'
<1>1. BaseTypeOK' /\ ThreadNeverCrashes'
  BY DEF BaseOK, BaseTypeOK, ThreadNeverCrashes, poolVars
<1>2. ReportsOK' /\ SlotsOK'
  BY DEF BaseOK, ReportsOK, AboutJob, SlotsOK, RewindPoint, poolVars
<1>3. InFlight' = InFlight
  BY DEF InFlight, poolVars
<1>4. CacheOK'
  BY <1>3 DEF BaseOK, CacheOK, PendingCounts, poolVars
<1> QED
  BY <1>1, <1>2, <1>4 DEF BaseOK

LEMMA BaseWorker ==
  ASSUME BaseOK, NEW j \in Jobs, Worker(j)
  PROVE  /\ BaseOK' /\ \A k \in Jobs : Advances(k)
         /\ UNCHANGED <<workers, cache, blocked, unreachable>>
<1>1. \A k \in Jobs : Advances(k)
  BY WorkerAdvancesProc DEF BaseOK
<1>2. BaseTypeOK' /\ ReportsOK' /\ UNCHANGED <<cache, pending, rthread>>
  BY WorkerTypes, WorkerReports DEF BaseOK
<1>3. UNCHANGED <<workers, blocked, unreachable>>
  BY DEF Worker, WorkerCallback, WorkerAsks, WorkerGetsAnswer, WorkerTimesOut, WorkerSends,
         WorkerExits, WorkerDies, WorkerSwallows, poolVars, strategyVars
<1>4. CacheOK'
  BY <1>1, <1>2, ProgressFrame DEF BaseOK
<1>5. SlotsOK'
  BY <1>1, <1>3, SlotsFrame DEF BaseOK, Advances
<1> QED
  BY <1>1, <1>2, <1>3, <1>4, <1>5 DEF BaseOK, ThreadNeverCrashes

LEMMA BaseThread ==
  ASSUME BaseOK, ResultsThread
  PROVE  /\ BaseOK' /\ \A k \in Jobs : Advances(k)
         /\ UNCHANGED <<workers, proc, cache, blocked, unreachable>>
<1>1. UNCHANGED <<workers, proc, cache, pending, blocked, unreachable>>
  BY DEF ResultsThread, ThreadCallback, ThreadResult, ThreadPrompt, ThreadStops, Take,
         strategyVars
<1>2. \A k \in Jobs : Advances(k)
  BY <1>1 DEF Advances
<1>3. BaseTypeOK' /\ ReportsOK' /\ ThreadNeverCrashes'
  BY ThreadTypes, ThreadReports DEF BaseOK
<1>4. CacheOK'
  BY <1>1, <1>2, ProgressFrame DEF BaseOK
<1>5. SlotsOK'
  BY <1>1, SlotsFrame DEF BaseOK
<1> QED
  BY <1>1, <1>2, <1>3, <1>4, <1>5 DEF BaseOK

LEMMA BaseSlotBusy ==
  ASSUME BaseOK, NEW j \in Jobs, SlotBusy(TaskOf(j))
  PROVE  BaseOK' /\ UNCHANGED <<workers, proc, cache, blocked, unreachable>>
<1>1. /\ BaseTypeOK'
      /\ UNCHANGED <<workers, proc, finalQ, rthread, results, cache, pending, blocked, unreachable>>
  BY QueueTypes DEF BaseOK, SlotBusy, strategyVars
<1>2. CacheOK'
  BY <1>1, ProgressFrame DEF BaseOK, Advances
<1>3. ReportsOK'
  BY <1>1, ReportsFrame DEF BaseOK, Advances
<1>4. SlotsOK'
  BY <1>1, SlotsFrame DEF BaseOK
<1> QED
  BY <1>1, <1>2, <1>3, <1>4 DEF BaseOK, ThreadNeverCrashes

LEMMA BaseQueue ==
  ASSUME BaseOK, NEW j \in Jobs, proc[j] = "none", StartWorker(j) \/ ForkFails(j)
  PROVE  /\ BaseOK' /\ cache' = cache \cup {j} /\ j \notin cache
         /\ \A k \in Jobs : k # j => proc'[k] = proc[k]
         /\ proc'[j] # "none" /\ UNCHANGED <<blocked, unreachable>>
<1>1. PICK st : Occupy(j, ScanSlot(TaskOf(j)), st) /\ st # "none"
  BY DEF StartWorker, ForkFails
<1>2. /\ cache' = cache \cup {j} /\ proc' = [proc EXCEPT ![j] = st]
      /\ UNCHANGED <<rthread, blocked, unreachable>>
  BY <1>1 DEF Occupy
<1>3. BaseTypeOK'
  BY QueueTypes DEF BaseOK
<1>4. ReportsOK'
  BY <1>1, OccupyReports DEF BaseOK
<1>5. CacheOK'
  BY StartCounts, ForkFailsCounts DEF BaseOK
<1>6. SlotsOK'
  BY <1>1, OccupySlots DEF BaseOK
<1>7. ThreadNeverCrashes'
  BY <1>2 DEF BaseOK, ThreadNeverCrashes
<1>8. j \notin cache
  BY DEF BaseOK, CacheOK
<1> QED
  BY <1>1, <1>2, <1>3, <1>4, <1>5, <1>6, <1>7, <1>8 DEF BaseOK, BaseTypeOK

LEMMA BaseProcess ==
  ASSUME BaseOK, ProcessResult
  PROVE  LET j == Head(results).job
         IN  /\ BaseOK' /\ proc' = proc
             /\ j \in cache /\ cache' = cache \ {j} /\ blocked' = blocked \ {HostOf(j)}
             /\ unreachable' \in {unreachable, unreachable \cup {HostOf(j)}}
<1>1. /\ UNCHANGED <<workers, rthread>>
      /\ cache' = cache \ {Head(results).job} /\ blocked' = blocked \ {HostOf(Head(results).job)}
      /\ unreachable' \in {unreachable, unreachable \cup {HostOf(Head(results).job)}}
  BY DEF ProcessResult, Popped, poolVars
<1>2. CacheOK' /\ proc' = proc /\ Head(results).job \in cache
  BY ProcessCounts DEF BaseOK, InFlight
<1>3. BaseTypeOK' /\ ReportsOK'
  BY ProcessResultTypes, ProcessReports DEF BaseOK
<1>4. SlotsOK'
  BY <1>1, <1>2, SlotsFrame DEF BaseOK
<1> QED
  BY <1>1, <1>2, <1>3, <1>4 DEF BaseOK, ThreadNeverCrashes

(* With nothing in the cache, nothing is pending and no result waits.      *)
LEMMA BaseIdle ==
  ASSUME BaseOK, cache = {}
  PROVE  pending = 0 /\ results = <<>>
<1>1. InFlight = {}
  BY DEF InFlight
<1>2. pending = 0
  BY <1>1, CountTypes DEF BaseOK
<1>3. Len(results) \in Nat /\ 1 \notin 1..Len(results)
  BY DEF BaseOK, BaseTypeOK, ReportsOK
<1> QED
  BY <1>2, <1>3, EmptySeq DEF BaseOK, BaseTypeOK

=============================================================================
