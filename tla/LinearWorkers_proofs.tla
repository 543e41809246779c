------------------------- MODULE LinearWorkers_proofs -------------------------
(***************************************************************************)
(* More about LinearDispatch, on top of the invariant of                   *)
(* LinearDispatch_proofs: live workers keep their slots, with the bounds   *)
(* on parallel tasks that follow; every result is reported once; an answer *)
(* reaches the worker that asked; and a run ends clean.                    *)
(***************************************************************************)
EXTENDS LinearDispatch_proofs

-----------------------------------------------------------------------------
(* Slots.                                                                  *)

LEMMA SlotsStep ==
  ASSUME Inductive, SlotsOK, [Next]_vars
  PROVE  SlotsOK'
<1>1. TypeOK /\ BaseTypeOK /\ RoundOK
  BY DEF Inductive, TypeOK
<1>2. CASE QueueTask
  <2> DEFINE job == <<current, round>>
  <2>1. job \in Jobs /\ TaskOf(job) = round
    BY <1>1, <1>2, CurrentJob DEF QueueTask, TypeOK, BaseTypeOK, TaskOf
  <2>2. CASE SlotBusy(round)
    BY <2>2, SlotsFrame DEF SlotBusy
  <2>3. CASE StartWorker(job) \/ ForkFails(job)
    <3>1. \E st : Occupy(job, ScanSlot(TaskOf(job)), st)
      BY <2>3 DEF StartWorker, ForkFails
    <3> QED
      BY <1>1, <2>1, <3>1, OccupySlots
  <2> QED
    BY <1>2, <2>2, <2>3 DEF QueueTask
<1>3. CASE ReapWorkers
  BY <1>3, SlotsFrame DEF ReapWorkers, Living, Working
<1>4. ASSUME NEW j \in Jobs, Worker(j)
      PROVE  SlotsOK'
  <2>1. workers' = workers
    BY <1>4 DEF Worker, WorkerCallback, WorkerAsks, WorkerGetsAnswer, WorkerTimesOut,
                WorkerSends, WorkerExits, WorkerDies, WorkerSwallows, poolVars
  <2>2. \A k \in Jobs : proc'[k] \in Living => proc[k] \in Living
    BY <1>1, <1>4, WorkerAdvancesProc DEF Advances
  <2> QED
    BY <2>1, <2>2, SlotsFrame
<1>5. ASSUME \/ StartRound \/ FinishRounds \/ EndOfHosts \/ DrainOne \/ DrainStops
             \/ WaitChecks \/ CollectOne \/ CollectStops \/ PutSentinel \/ JoinThread
             \/ \E h \in Hosts : BlockHost(h) \/ NoopHost(h) \/ SkipHost(h)
             \/ Thread \/ UNCHANGED vars
      PROVE  SlotsOK'
  <2>1. workers' = workers /\ proc' = proc
    BY <1>5 DEF StartRound, FinishRounds, EndOfHosts, DrainOne, DrainStops, WaitChecks,
                CollectOne, CollectStops, PutSentinel, JoinThread, BlockHost, NoopHost, SkipHost,
                ProcessResult, Thread, ResultsThread, ThreadCallback, ThreadResult, ThreadPrompt,
                ThreadStops, Take, vars, baseVars, poolVars
  <2> QED
    BY <2>1, SlotsFrame
<1> QED
  BY <1>2, <1>3, <1>4, <1>5 DEF Next, Main, Workers, Terminated

(* Nobody takes the slot of a live worker, and no more workers live than   *)
(* there are forks, or than the throttle of their task allows.             *)
LEMMA SlotsSuffice == TypeOK /\ SlotsOK => SlotsAndThrottle
<1> SUFFICES ASSUME TypeOK, SlotsOK PROVE SlotsAndThrottle
  OBVIOUS
<1>1. \A j \in Jobs : proc[j] \in Living => \E s \in Slots : workers[s] = j
  BY JobParts, RewindTypes DEF SlotsOK
<1>2. ASSUME NEW t \in Tasks
      PROVE  /\ Cardinality(Alive(t)) <= Forks
             /\ Throttle[t] > 0 /\ t \notin RunOnce => Cardinality(Alive(t)) <= Throttle[t]
  <2>1. /\ Cardinality(Alive(t)) \in Nat /\ Cardinality(Alive(t)) <= RewindPoint(t)
        /\ RewindPoint(t) \in Nat /\ RewindPoint(t) <= Forks
        /\ Throttle[t] > 0 /\ t \notin RunOnce => RewindPoint(t) <= Throttle[t]
        /\ Throttle[t] \in Nat
    BY AliveBound, RewindTypes, TasksAssumption DEF TypeOK
  <2> QED
    BY <2>1, SizesAssumption
<1> QED
  BY <1>1, <1>2 DEF SlotsAndThrottle

-----------------------------------------------------------------------------
(* Reports.                                                                *)

(* The result of j is on its way.                                          *)
OnItsWay(j) ==
  \/ \E i \in 1..Len(finalQ) : ReportOf(finalQ[i], j)
  \/ \E i \in 1..Len(results) : results[i].job = j

LEMMA SentIsOnItsWay ==
  ASSUME SentOK, rthread = "running", NEW j \in cache, proc[j] = "sent"
  PROVE  OnItsWay(j)
BY DEF SentOK, OnItsWay

(* Messages that join the queue keep those that are there.                 *)
LEMMA AppendKeepsOnItsWay ==
  ASSUME TypeOK, NEW j, OnItsWay(j), results' = results,
         finalQ' = finalQ \/ \E m \in Messages : finalQ' = Append(finalQ, m)
  PROVE  OnItsWay(j)'
<1>1. CASE finalQ' = finalQ
  BY <1>1 DEF OnItsWay, ReportOf
<1>2. CASE \E m \in Messages : finalQ' = Append(finalQ, m)
  <2>1. PICK m \in Messages : finalQ' = Append(finalQ, m)
    BY <1>2
  <2>2. /\ Len(finalQ) \in Nat /\ Len(finalQ') = Len(finalQ) + 1
        /\ \A i \in 1..Len(finalQ) : finalQ'[i] = finalQ[i]
    BY <2>1, AppendPositions DEF TypeOK, BaseTypeOK
  <2>3. \A i \in 1..Len(finalQ) : i \in 1..Len(finalQ')
    BY <2>2
  <2> QED
    BY <2>2, <2>3 DEF OnItsWay, ReportOf
<1> QED
  BY <1>1, <1>2

LEMMA SentFrame ==
  ASSUME TypeOK, SentOK, rthread' = rthread, results' = results,
         finalQ' = finalQ \/ \E m \in Messages : finalQ' = Append(finalQ, m),
         \A j \in cache' : proc'[j] = "sent" => j \in cache /\ proc[j] = "sent"
  PROVE  SentOK'
<1>1. ASSUME NEW j \in cache', proc'[j] = "sent", rthread' = "running"
      PROVE  OnItsWay(j)'
  BY <1>1, SentIsOnItsWay, AppendKeepsOnItsWay
<1> QED
  BY <1>1 DEF SentOK, OnItsWay

LEMMA WorkerSent ==
  ASSUME Inductive, SentOK, NEW j \in Jobs, Worker(j)
  PROVE  SentOK'
<1>1. /\ TypeOK /\ BaseTypeOK /\ UNCHANGED <<results, cache, rthread>> /\ \A k \in cache : k \in Jobs
  BY WorkerReports DEF Inductive, TypeOK, BaseTypeOK
<1>2. CASE WorkerSends(j)
  <2>1. PICK o \in Outcomes : finalQ' = Append(finalQ, Result(j, o))
    BY <1>2 DEF WorkerSends, Send
  <2>2. Result(j, o) \in Messages /\ ReportOf(Result(j, o), j)
    BY MessageTypes DEF ReportOf
  <2>3. Len(finalQ') \in 1..Len(finalQ') /\ finalQ'[Len(finalQ')] = Result(j, o)
    BY <1>1, <2>1, <2>2, AppendPositions DEF TypeOK, BaseTypeOK
  <2>4. OnItsWay(j)'
    BY <2>2, <2>3 DEF OnItsWay, ReportOf
  <2>5. ASSUME NEW k \in cache, proc'[k] = "sent", rthread = "running", k # j
        PROVE  OnItsWay(k)'
    <3>1. proc[k] = "sent"
      BY <1>1, <1>2, <2>5 DEF WorkerSends, TypeOK, BaseTypeOK
    <3>2. OnItsWay(k)
      BY <2>5, <3>1, SentIsOnItsWay
    <3> QED
      BY <1>1, <2>1, <2>2, <3>2, AppendKeepsOnItsWay
  <2> QED
    BY <1>1, <2>4, <2>5 DEF SentOK, OnItsWay
<1>3. CASE ~WorkerSends(j)
  <2>1. finalQ' = finalQ \/ \E m \in Messages : finalQ' = Append(finalQ, m)
    BY <1>3, MessageTypes
    DEF Worker, WorkerCallback, WorkerAsks, WorkerGetsAnswer, WorkerTimesOut, WorkerExits,
                              WorkerDies, WorkerSwallows, Send
  <2>2. \A k \in Jobs : proc'[k] = "sent" => proc[k] = "sent"
    BY <1>1, <1>3
    DEF Worker, WorkerCallback, WorkerAsks, WorkerGetsAnswer, WorkerTimesOut, WorkerExits,
                      WorkerDies, WorkerSwallows, TypeOK, BaseTypeOK, poolVars
  <2> QED
    BY <1>1, <2>1, <2>2, SentFrame
<1> QED
  BY <1>2, <1>3

(* The results thread moves a result from the queue to the deque.          *)
LEMMA ThreadSent ==
  ASSUME Inductive, SentOK, ResultsThread
  PROVE  SentOK'
<1>1. /\ TypeOK /\ BaseTypeOK /\ ReportsOK /\ UNCHANGED <<proc, cache>> /\ rthread' # "crashed"
  BY ThreadReports DEF Inductive, TypeOK, ThreadNeverCrashes
<1>2. finalQ # <<>> /\ finalQ' = Tail(finalQ) /\ rthread = "running"
  BY DEF ResultsThread, ThreadCallback, ThreadResult, ThreadPrompt, ThreadStops, Take
<1>3. /\ Head(finalQ) \in Messages /\ Head(finalQ) = finalQ[1] /\ 1 \in 1..Len(finalQ)
      /\ Len(finalQ) \in Nat /\ Len(finalQ') = Len(finalQ) - 1
      /\ \A i \in 1..Len(finalQ') : i + 1 \in 1..Len(finalQ) /\ finalQ'[i] = finalQ[i + 1]
  BY <1>1, <1>2, TailPositions DEF TypeOK, BaseTypeOK
<1>4. \A i \in 1..Len(finalQ) : i = 1 \/ (i - 1 \in 1..Len(finalQ') /\ finalQ'[i - 1] = finalQ[i])
  BY <1>3
<1>5. ASSUME NEW j \in cache', proc'[j] = "sent", rthread' = "running"
      PROVE  OnItsWay(j)'
  <2>1. j \in cache /\ OnItsWay(j)
    BY <1>1, <1>2, <1>5, SentIsOnItsWay
  <2>2. CASE ReportOf(finalQ[1], j)
    <3>1. /\ finalQ[1].kind = "result" /\ finalQ[1].job \in cache
      BY <2>1, <2>2 DEF ReportOf
    <3>2. results' = Append(results, finalQ[1])
      BY <1>3, <3>1 DEF ResultsThread, ThreadCallback, ThreadResult, ThreadPrompt, ThreadStops
    <3>3. finalQ[1] \in Reports
      BY <1>3, <3>1, MessageCases
    <3>4. Len(results') \in 1..Len(results') /\ results'[Len(results')] = finalQ[1]
      BY <1>1, <3>2, <3>3, AppendPositions DEF TypeOK, BaseTypeOK
    <3> QED
      BY <2>2, <3>4 DEF OnItsWay, ReportOf
  <2>3. CASE \E i \in 1..Len(finalQ) : i # 1 /\ ReportOf(finalQ[i], j)
    BY <1>4, <2>3 DEF OnItsWay, ReportOf
  <2>4. CASE \E i \in 1..Len(results) : results[i].job = j
    <3>1. PICK i \in 1..Len(results) : results[i].job = j
      BY <2>4
    <3>2. CASE results' = results
      BY <3>1, <3>2 DEF OnItsWay
    <3>3. CASE Head(finalQ).kind = "result" /\ results' = Append(results, Head(finalQ))
      <4>1. Head(finalQ) \in Reports
        BY <1>3, <3>3, MessageCases
      <4>2. i \in 1..Len(results') /\ results'[i] = results[i]
        BY <1>1, <3>3, <4>1, AppendPositions DEF TypeOK, BaseTypeOK
      <4> QED
        BY <3>1, <4>2 DEF OnItsWay
    <3> QED
      BY <3>2, <3>3 DEF ResultsThread, ThreadCallback, ThreadResult, ThreadPrompt, ThreadStops
  <2> QED
    BY <2>1, <2>2, <2>3, <2>4 DEF OnItsWay
<1> QED
  BY <1>5 DEF SentOK, OnItsWay

(* A processed result leaves the deque with its cache entry.               *)
LEMMA ProcessSent ==
  ASSUME Inductive, SentOK, ProcessResult
  PROVE  SentOK'
<1>1. /\ TypeOK /\ BaseTypeOK /\ UNCHANGED <<proc, finalQ, rthread>> /\ cache' = cache \ {Head(results).job}
  BY DEF Inductive, TypeOK, ProcessResult, Popped, poolVars
<1>2. /\ Head(results) = results[1] /\ Len(results) \in Nat
      /\ Len(results') = Len(results) - 1
      /\ \A i \in 1..Len(results') : results'[i] = results[i + 1]
  BY <1>1, TailPositions DEF TypeOK, BaseTypeOK, ProcessResult
<1>3. \A i \in 1..Len(results) :
        i = 1 \/ (i - 1 \in 1..Len(results') /\ results'[i - 1] = results[i])
  BY <1>2
<1>4. ASSUME NEW j \in cache', proc'[j] = "sent", rthread' = "running"
      PROVE  OnItsWay(j)'
  <2>1. OnItsWay(j) /\ j # results[1].job
    BY <1>1, <1>2, <1>4, SentIsOnItsWay
  <2>2. CASE \E i \in 1..Len(finalQ) : ReportOf(finalQ[i], j)
    BY <1>1, <2>2 DEF OnItsWay, ReportOf
  <2>3. CASE \E i \in 1..Len(results) : results[i].job = j
    BY <1>3, <2>1, <2>3 DEF OnItsWay
  <2> QED
    BY <2>1, <2>2, <2>3 DEF OnItsWay
<1> QED
  BY <1>4 DEF SentOK, OnItsWay

LEMMA SentStep ==
  ASSUME Inductive, SentOK, [Next]_vars
  PROVE  SentOK'
<1>1. TypeOK /\ BaseTypeOK /\ RoundOK /\ \A j \in cache : j \in Jobs
  BY DEF Inductive, TypeOK, BaseTypeOK
<1>2. CASE QueueTask
  <2> DEFINE job == <<current, round>>
  <2>1. job \in Jobs
    BY <1>1, <1>2, CurrentJob DEF QueueTask, TypeOK, BaseTypeOK
  <2> HIDE DEF job
  <2>2. CASE SlotBusy(round)
    BY <1>1, <2>2, SentFrame DEF SlotBusy, strategyVars
  <2>3. CASE StartWorker(job) \/ ForkFails(job)
    <3>1. PICK s, st : st # "sent" /\ Occupy(job, s, st)
      BY <2>3 DEF StartWorker, ForkFails
    <3>2. \A j \in cache' : proc'[j] = "sent" => j \in cache /\ proc[j] = "sent"
      BY <1>1, <2>1, <3>1 DEF Occupy, TypeOK, BaseTypeOK
    <3> QED
      BY <1>1, <3>1, <3>2, SentFrame DEF Occupy
  <2> QED
    BY <1>2, <2>2, <2>3 DEF QueueTask, job
<1>3. CASE DrainOne \/ CollectOne
  BY <1>3, ProcessSent DEF DrainOne, CollectOne
<1>4. CASE PutSentinel
  <2>1. Sentinel \in Messages
    BY DEF Messages
  <2> QED
    BY <1>1, <1>4, <2>1, SentFrame DEF PutSentinel, Send, poolVars, strategyVars
<1>5. CASE ReapWorkers
  <2>1. \A j \in Jobs : proc'[j] = "sent" => proc[j] = "sent"
    BY <1>5 DEF ReapWorkers
  <2> QED
    BY <1>1, <1>5, <2>1, SentFrame DEF ReapWorkers, strategyVars
<1>6. ASSUME NEW j \in Jobs, Worker(j)
      PROVE  SentOK'
  BY <1>6, WorkerSent
<1>7. CASE Thread
  BY <1>7, ThreadSent DEF Thread
<1>8. ASSUME \/ StartRound \/ FinishRounds \/ EndOfHosts \/ DrainStops
             \/ WaitChecks \/ CollectStops \/ JoinThread
             \/ \E h \in Hosts : BlockHost(h) \/ NoopHost(h) \/ SkipHost(h)
             \/ UNCHANGED vars
      PROVE  SentOK'
  <2>1. UNCHANGED <<finalQ, results, cache, proc, rthread>>
    BY <1>8 DEF StartRound, FinishRounds, EndOfHosts, DrainStops, WaitChecks,
                CollectStops, JoinThread, BlockHost, NoopHost, SkipHost,
                vars, baseVars, poolVars, strategyVars
  <2> QED
    BY <1>1, <2>1, SentFrame
<1> QED
  BY <1>2, <1>3, <1>4, <1>5, <1>6, <1>7, <1>8 DEF Next, Main, Workers, Terminated

(* A set whose elements are all equal has one element at most.             *)
LEMMA AtMostOne ==
  ASSUME NEW S, \A x, y \in S : x = y
  PROVE  Cardinality(S) \in {0, 1} /\ (S = {} <=> Cardinality(S) = 0)
<1>1. CASE S = {}
  BY <1>1, FS_EmptySet
<1>2. CASE S # {}
  <2>1. PICK x : S = {x}
    BY <1>2
  <2> QED
    BY <2>1, FS_Singleton
<1> QED
  BY <1>1, <1>2

LEMMA ReportsSuffice == Inductive /\ SentOK => OneReport
<1> SUFFICES ASSUME Inductive, SentOK, NEW j \in Jobs
             PROVE  LET sent == {i \in DOMAIN finalQ : ReportOf(finalQ[i], j)}
                        here == {i \in DOMAIN results : results[i].job = j}
                    IN /\ Cardinality(sent) + Cardinality(here) <= 1
                       /\ sent \cup here # {} => j \in cache
                       /\ (j \in cache /\ proc[j] = "sent" /\ rthread = "running")
                            => sent \cup here # {}
  BY DEF OneReport
<1> DEFINE sent == {i \in DOMAIN finalQ : ReportOf(finalQ[i], j)}
           here == {i \in DOMAIN results : results[i].job = j}
<1>1. /\ DOMAIN finalQ = 1..Len(finalQ) /\ DOMAIN results = 1..Len(results)
      /\ Len(finalQ) \in Nat /\ Len(results) \in Nat
  BY DEF Inductive, TypeOK, BaseTypeOK
<1>2. \A i, k \in sent : i = k
  <2>1. SUFFICES ASSUME NEW i \in sent, NEW k \in sent, i < k PROVE FALSE
    BY <1>1
  <2>2. /\ i \in 1..Len(finalQ) /\ k \in 1..Len(finalQ)
        /\ finalQ[i].kind = "result" /\ finalQ[i].job = j
        /\ AboutJob(finalQ[k]) /\ finalQ[k].job = j
    BY <1>1 DEF ReportOf, AboutJob
  <2> QED
    BY <2>1, <2>2 DEF Inductive, ReportsOK
<1>3. \A i, k \in here : i = k
  <2>1. SUFFICES ASSUME NEW i \in here, NEW k \in here, i < k PROVE FALSE
    BY <1>1
  <2> QED
    BY <1>1, <2>1 DEF Inductive, ReportsOK
<1>4. sent = {} \/ here = {}
  <2>1. SUFFICES ASSUME NEW i \in here, NEW k \in sent PROVE FALSE
    OBVIOUS
  <2> QED
    BY <1>1, <2>1 DEF Inductive, ReportsOK, ReportOf, AboutJob
<1>5. sent \cup here # {} => j \in cache
  BY <1>1 DEF Inductive, ReportsOK, ReportOf, AboutJob
<1>6. j \in cache /\ proc[j] = "sent" /\ rthread = "running" => sent \cup here # {}
  BY <1>1, SentIsOnItsWay DEF OnItsWay
<1> HIDE DEF sent, here
<1>7. Cardinality(sent) + Cardinality(here) <= 1
  BY <1>2, <1>3, <1>4, AtMostOne
<1> QED
  BY <1>5, <1>6, <1>7 DEF sent, here

-----------------------------------------------------------------------------
(* The end of a run.                                                       *)

LateIn == {"join", "reap", "done"}

(* With nothing in flight no worker is at work, and nothing but prompts    *)
(* and the sentinel is on the queue.                                       *)
LEMMA NothingInFlight ==
  ASSUME Inductive, pending = 0
  PROVE  /\ \A j \in Jobs : proc[j] \notin Working
         /\ \A i \in 1..Len(finalQ) : ~AboutJob(finalQ[i])
         /\ results = <<>>
<1>1. InFlight = {}
  BY CountTypes DEF Inductive
<1>2. \A j \in cache : proc[j] = "unstarted"
  BY <1>1 DEF InFlight
<1>3. \A j \in Jobs : proc[j] \notin Working
  BY <1>2 DEF Inductive, CacheOK, Working
<1>4. \A i \in 1..Len(finalQ) : ~AboutJob(finalQ[i])
  BY <1>2 DEF Inductive, ReportsOK
<1>5. Len(results) = 0
  <2>1. Len(results) \in Nat
    BY DEF Inductive, TypeOK, BaseTypeOK
  <2>2. 1 \notin 1..Len(results)
    BY <1>2 DEF Inductive, ReportsOK, Over
  <2> QED
    BY <2>1, <2>2
<1> QED
  BY <1>3, <1>4, <1>5, EmptySeq DEF Inductive, TypeOK, BaseTypeOK

(* Before its end the main loop leaves the queue to others.                *)
LEMMA EndFrame ==
  ASSUME EndOK, UNCHANGED <<finalQ, rthread>>, pc \notin LateIn, pc' \notin LateIn,
         pc' = "cleanup" /\ ~error' => pending' = 0
  PROVE  EndOK'
BY DEF EndOK, LateIn, IsSentinel

LEMMA EndStarts ==
  ASSUME Inductive, EndOK, PutSentinel
  PROVE  EndOK'
<1>1. /\ pc = "cleanup" /\ pc' = "join" /\ finalQ' = Append(finalQ, Sentinel)
      /\ UNCHANGED <<rthread, pending, error>>
  BY DEF PutSentinel, Goto, Send, strategyVars
<1>2. rthread = "running"
  BY <1>1 DEF EndOK, Inductive, TypeOK, BaseTypeOK, ThreadNeverCrashes
<1>3. Sentinel \in Messages /\ IsSentinel(Sentinel)
  BY DEF Messages, Sentinel, IsSentinel
<1>4. /\ Len(finalQ) \in Nat /\ Len(finalQ') = Len(finalQ) + 1
      /\ \A i \in 1..Len(finalQ) : finalQ'[i] = finalQ[i]
      /\ finalQ'[Len(finalQ')] = Sentinel
  BY <1>1, <1>3, AppendPositions DEF Inductive, TypeOK, BaseTypeOK
<1>5. \A i \in 1..Len(finalQ) : ~IsSentinel(finalQ[i])
  BY <1>1 DEF EndOK
<1>6. Len(finalQ') \in 1..Len(finalQ')
  BY <1>4
<1>7. \A i \in 1..Len(finalQ') : (i \in 1..Len(finalQ) /\ i # Len(finalQ')) \/ i = Len(finalQ')
  BY <1>4
<1>8. \A i \in 1..Len(finalQ') : IsSentinel(finalQ'[i]) <=> i = Len(finalQ')
  BY <1>3, <1>4, <1>5, <1>7 DEF IsSentinel
<1> QED
  BY <1>1, <1>2, <1>6, <1>8 DEF EndOK, IsSentinel

LEMMA WorkerEnd ==
  ASSUME Inductive, EndOK, NEW j \in Jobs, Worker(j), UNCHANGED controlVars
  PROVE  EndOK'
<1>1. TypeOK /\ BaseTypeOK /\ UNCHANGED <<pc, error, rthread, pending>>
  BY WorkerReports DEF Inductive, TypeOK, controlVars
<1>2. \A k \in Jobs : Advances(k)
  BY <1>1, WorkerAdvancesProc
<1>3. \/ finalQ' = finalQ
      \/ /\ proc[j] \in Working
         /\ \E m \in Messages : finalQ' = Append(finalQ, m) /\ ~IsSentinel(m)
  BY MessageTypes DEF Worker, WorkerCallback, WorkerAsks, WorkerGetsAnswer, WorkerTimesOut,
     WorkerSends, WorkerExits, WorkerDies, WorkerSwallows, Send, MayReport, IsSentinel, Working
<1>4. CASE pc \in LateIn
  <2>1. ~error => finalQ' = finalQ
    BY <1>3, <1>4, NothingInFlight DEF EndOK, LateIn
  <2>2. pc = "done" => \A k \in Jobs : proc'[k] \notin Living
    BY <1>2 DEF EndOK, Advances
  <2> QED
    BY <1>1, <1>4, <2>1, <2>2 DEF EndOK, LateIn, IsSentinel
<1>5. CASE pc \notin LateIn
  <2>1. CASE finalQ' = finalQ
    BY <1>1, <1>5, <2>1, EndFrame DEF EndOK
  <2>2. CASE \E m \in Messages : finalQ' = Append(finalQ, m) /\ ~IsSentinel(m)
    <3>1. PICK m \in Messages : finalQ' = Append(finalQ, m) /\ ~IsSentinel(m)
      BY <2>2
    <3>2. /\ Len(finalQ) \in Nat /\ Len(finalQ') = Len(finalQ) + 1
          /\ \A i \in 1..Len(finalQ) : finalQ'[i] = finalQ[i]
          /\ finalQ'[Len(finalQ')] = m
      BY <1>1, <3>1, AppendPositions DEF TypeOK, BaseTypeOK
    <3>3. \A i \in 1..Len(finalQ') : i \in 1..Len(finalQ) \/ i = Len(finalQ')
      BY <3>2
    <3>4. \A i \in 1..Len(finalQ') : ~IsSentinel(finalQ'[i])
      BY <1>5, <3>1, <3>2, <3>3 DEF EndOK, LateIn
    <3> QED
      BY <1>1, <1>5, <3>4 DEF EndOK, LateIn, IsSentinel
  <2> QED
    BY <1>3, <2>1, <2>2
<1> QED
  BY <1>4, <1>5

LEMMA ThreadEnd ==
  ASSUME Inductive, EndOK, ResultsThread, UNCHANGED controlVars
  PROVE  EndOK'
<1>1. /\ TypeOK /\ BaseTypeOK /\ UNCHANGED <<pc, error, proc, pending>> /\ rthread' # "crashed"
  BY ThreadReports DEF Inductive, TypeOK, controlVars, ThreadNeverCrashes
<1>2. finalQ # <<>> /\ finalQ' = Tail(finalQ) /\ rthread = "running"
  BY DEF ResultsThread, ThreadCallback, ThreadResult, ThreadPrompt, ThreadStops, Take
<1>3. /\ Head(finalQ) \in Messages /\ Head(finalQ) = finalQ[1] /\ 1 \in 1..Len(finalQ)
      /\ Len(finalQ) \in Nat /\ Len(finalQ') = Len(finalQ) - 1 /\ finalQ' \in Seq(Messages)
      /\ \A i \in 1..Len(finalQ') : i + 1 \in 1..Len(finalQ) /\ finalQ'[i] = finalQ[i + 1]
  BY <1>1, <1>2, TailPositions DEF TypeOK, BaseTypeOK
<1>4. rthread' = IF IsSentinel(finalQ[1]) THEN "ended" ELSE "running"
  BY <1>1, <1>2, <1>3 DEF ResultsThread, ThreadCallback, ThreadResult, ThreadPrompt, ThreadStops,
     ThreadNormalizes, IsSentinel
<1>5. CASE pc \notin LateIn
  <2>1. rthread' = "running"
    BY <1>3, <1>4, <1>5 DEF EndOK, LateIn
  <2>2. \A i \in 1..Len(finalQ') : ~IsSentinel(finalQ'[i])
    BY <1>3, <1>5 DEF EndOK, LateIn
  <2> QED
    BY <1>1, <1>5, <2>1, <2>2 DEF EndOK, LateIn, IsSentinel
<1>6. CASE pc \in LateIn
  <2>1. pc = "join"
    BY <1>2, <1>6 DEF EndOK, LateIn
  <2>2. ASSUME ~error
        PROVE  IF rthread' = "running"
                 THEN /\ Len(finalQ') \in 1..Len(finalQ')
                      /\ \A i \in 1..Len(finalQ') : IsSentinel(finalQ'[i]) <=> i = Len(finalQ')
                 ELSE finalQ' = <<>>
    <3>1. \A i \in 1..Len(finalQ) : IsSentinel(finalQ[i]) <=> i = Len(finalQ)
      BY <1>2, <2>1, <2>2 DEF EndOK
    <3>2. CASE IsSentinel(finalQ[1])
      <4>1. Len(finalQ') = 0
        BY <1>3, <3>1, <3>2
      <4>2. finalQ' = <<>>
        BY <1>3, <4>1, EmptySeq
      <4> QED
        BY <1>4, <3>2, <4>2
    <3>3. CASE ~IsSentinel(finalQ[1])
      <4>1. Len(finalQ) # 1
        BY <1>3, <3>1, <3>3
      <4>2. Len(finalQ') \in 1..Len(finalQ')
        BY <1>3, <4>1
      <4>3. \A i \in 1..Len(finalQ') : i + 1 = Len(finalQ) <=> i = Len(finalQ')
        BY <1>3
      <4>4. \A i \in 1..Len(finalQ') : IsSentinel(finalQ'[i]) <=> i = Len(finalQ')
        BY <1>3, <3>1, <4>3
      <4> QED
        BY <1>4, <3>3, <4>2, <4>4
    <3> QED
      BY <3>2, <3>3
  <2> QED
    BY <1>1, <2>1, <2>2 DEF EndOK, IsSentinel
<1> QED
  BY <1>5, <1>6

LEMMA EndStep ==
  ASSUME Inductive, SlotsOK, EndOK, [Next]_vars
  PROVE  EndOK'
<1>1. TypeOK
  BY DEF Inductive
<1>2. CASE FinishRounds
  BY <1>2, EndFrame DEF FinishRounds, Goto, LateIn, Inductive, RoundOK, baseVars, strategyVars
<1>3. CASE WaitChecks
  <2>1. pc = "wait" /\ UNCHANGED <<finalQ, rthread>>
    BY <1>3 DEF WaitChecks, baseVars
  <2>2. pc' \in {"round", "cleanup", "collect"} /\ (pc' = "cleanup" => error')
    BY <1>3, Zenon DEF WaitChecks, Goto
  <2> QED
    BY <2>1, <2>2, EndFrame DEF LateIn
<1>4. ASSUME StartRound \/ EndOfHosts \/ DrainOne \/ DrainStops \/ CollectOne \/ CollectStops
             \/ QueueTask \/ \E h \in Hosts : BlockHost(h) \/ NoopHost(h) \/ SkipHost(h)
      PROVE  EndOK'
  <2>1. UNCHANGED <<finalQ, rthread>>
    BY <1>4 DEF StartRound, EndOfHosts, DrainOne, DrainStops, CollectOne, CollectStops,
                QueueTask, BlockHost, NoopHost, SkipHost, SlotBusy, StartWorker, ForkFails,
                Occupy, ProcessResult, baseVars
  <2>2. pc \notin LateIn /\ pc' \notin LateIn /\ pc' # "cleanup"
    BY <1>4 DEF StartRound, EndOfHosts, DrainOne, DrainStops, CollectOne, CollectStops,
                QueueTask, BlockHost, NoopHost, SkipHost, Goto, controlVars, LateIn
  <2> QED
    BY <2>1, <2>2, EndFrame
<1>5. CASE PutSentinel
  BY <1>5, EndStarts
<1>6. CASE JoinThread
  BY <1>6 DEF JoinThread, Joined, Goto, EndOK, baseVars, strategyVars, IsSentinel
<1>7. CASE ReapWorkers
  <2>1. /\ pc = "reap" /\ pc' = "done"
        /\ UNCHANGED <<finalQ, rthread, pending, error>>
    BY <1>7 DEF ReapWorkers, Goto, strategyVars
  <2>2. ASSUME NEW j \in Jobs PROVE proc'[j] \notin Living
    <3>1. CASE proc[j] \in Living
      <4>1. \E s \in Slots : workers[s] = j
        BY <3>1, JobParts, RewindTypes DEF SlotsOK
      <4>2. \E s \in Slots : workers[s] = j /\ IsAlive(s)
        BY <3>1, <4>1, NoJobAssumption DEF IsAlive
      <4> QED
        BY <1>7, <4>2 DEF ReapWorkers, Living, Working
    <3>2. CASE proc[j] \notin Living
      BY <1>7, <3>2 DEF ReapWorkers, Living, Working
    <3> QED
      BY <3>1, <3>2
  <2> QED
    BY <2>1, <2>2 DEF EndOK, IsSentinel
<1>8. ASSUME NEW j \in Jobs, Worker(j), UNCHANGED controlVars
      PROVE  EndOK'
  BY <1>8, WorkerEnd
<1>9. CASE Thread
  BY <1>9, ThreadEnd DEF Thread
<1>10. CASE UNCHANGED vars
  BY <1>10 DEF EndOK, IsSentinel, vars, baseVars, poolVars, strategyVars, controlVars
<1> QED
  BY <1>2, <1>3, <1>4, <1>5, <1>6, <1>7, <1>8, <1>9, <1>10 DEF Next, Main, Workers, Terminated

LEMMA EndSuffices == Inductive /\ EndOK => CleanEnd
<1> SUFFICES ASSUME Inductive, EndOK, pc = "done"
             PROVE  /\ \A j \in Jobs : proc[j] \notin Living
                    /\ ~error => finalQ = <<>> /\ results = <<>> /\ pending = 0
  BY DEF CleanEnd
<1> QED
  BY NothingInFlight DEF EndOK

-----------------------------------------------------------------------------
(* Prompts and answers.                                                    *)

LEMMA PromptCases ==
  ASSUME NEW m \in Messages, IsPrompt(m)
  PROVE  m.job \in Jobs /\ m.slot \in Slots
BY DEF Messages, IsPrompt, Sentinel, Callback, Prompt, Result, Reports

LEMMA PromptParts ==
  ASSUME TypeOK, NEW i \in 1..Len(finalQ), IsPrompt(finalQ[i])
  PROVE  finalQ[i].job \in Jobs /\ finalQ[i].slot \in Slots
BY PromptCases DEF TypeOK, BaseTypeOK

(* The worker of a job has left, or lives in slot s.                       *)
LeftOrIn(k, s) == HasLeft(k) \/ (proc[k] \in Living /\ workers[s] = k)

(* What a step must do for the prompts to stay right when it takes none    *)
(* off the queue: no worker that lives loses its slot, a new prompt is of  *)
(* the worker in its slot, and an answer is taken by one that asked.       *)
LEMMA PromptsKept ==
  ASSUME TypeOK, PromptsOK,
         \A k \in Jobs : HasLeft(k) => HasLeft(k)',
         \A k \in Jobs, s \in Slots : LeftOrIn(k, s) => LeftOrIn(k, s)',
         \A i \in 1..Len(finalQ) : i \in 1..Len(finalQ') /\ finalQ'[i] = finalQ[i],
         \A i \in 1..Len(finalQ') : IsPrompt(finalQ'[i]) =>
           i \in 1..Len(finalQ) \/ LeftOrIn(finalQ[i].job, finalQ[i].slot)',
         \A k \in Jobs : proc'[k] = "asking" => proc[k] = "asking" \/ Waits(k)',
         \A k \in Jobs :
           \/ inbox'[k] = inbox[k]
           \/ inbox[k] # <<>> /\ inbox'[k] = Tail(inbox[k]) /\ proc'[k] # "asking"
  PROVE  PromptsOK'
<1>1. \A i \in 1..Len(finalQ) : IsPrompt(finalQ[i]) =>
        /\ finalQ[i].job \in Jobs /\ finalQ[i].slot \in Slots
        /\ LeftOrIn(finalQ[i].job, finalQ[i].slot)
  BY PromptParts DEF PromptsOK, LeftOrIn
<1>2. ASSUME NEW i \in 1..Len(finalQ'), IsPrompt(finalQ'[i])
      PROVE  LeftOrIn(finalQ[i].job, finalQ[i].slot)'
  <2>1. CASE i \in 1..Len(finalQ)
    <3>1. PICK k \in Jobs, s \in Slots : finalQ[i].job = k /\ finalQ[i].slot = s
      BY <1>1, <1>2, <2>1 DEF IsPrompt
    <3>2. LeftOrIn(k, s)'
      BY <1>1, <1>2, <2>1, <3>1
    <3>3. finalQ'[i].job = k /\ finalQ'[i].slot = s
      BY <2>1, <3>1
    <3> QED
      BY <3>2, <3>3 DEF LeftOrIn, HasLeft
  <2> QED
    BY <1>2, <2>1
<1>3. ASSUME NEW k \in Jobs, proc'[k] = "asking"
      PROVE  Waits(k)' \/ HasAnswer(k)'
  <2>1. SUFFICES ASSUME proc[k] = "asking" PROVE Waits(k)' \/ HasAnswer(k)'
    BY <1>3
  <2>2. CASE HasAnswer(k)
    BY <1>3, <2>2 DEF HasAnswer
  <2>3. CASE Waits(k)
    <3>1. PICK i \in 1..Len(finalQ) :
            IsPrompt(finalQ[i]) /\ finalQ[i].job = k /\ workers[finalQ[i].slot] = k
      BY <2>3 DEF Waits
    <3>2. LeftOrIn(k, finalQ[i].slot) /\ finalQ[i].slot \in Slots
      BY <1>1, <3>1
    <3>3. workers'[finalQ[i].slot] = k
      <4>1. PICK s \in Slots : s = finalQ[i].slot /\ LeftOrIn(k, s)
        BY <3>2
      <4>2. LeftOrIn(k, s)'
        BY <4>1
      <4> QED
        BY <1>3, <4>1, <4>2 DEF LeftOrIn, HasLeft
    <3>4. i \in 1..Len(finalQ') /\ finalQ'[i] = finalQ[i]
      OBVIOUS
    <3> QED
      BY <3>1, <3>3, <3>4 DEF Waits, IsPrompt
  <2> QED
    BY <2>1, <2>2, <2>3 DEF PromptsOK, AnswerForAsker
<1>4. ASSUME NEW k \in Jobs, NEW i \in 1..Len(inbox'[k])
      PROVE  inbox'[k][i] = k \/ HasLeft(inbox[k][i])'
  <2>1. inbox[k] \in Seq(Jobs)
    BY DEF TypeOK, BaseTypeOK
  <2>2. \E n \in 1..Len(inbox[k]) : inbox'[k][i] = inbox[k][n]
    <3>1. CASE inbox'[k] = inbox[k]
      BY <1>4, <3>1
    <3>2. CASE inbox[k] # <<>> /\ inbox'[k] = Tail(inbox[k])
      BY <1>4, <2>1, <3>2, TailPositions
    <3> QED
      BY <3>1, <3>2
  <2>3. PICK x \in Jobs : x = inbox'[k][i] /\ \E n \in 1..Len(inbox[k]) : x = inbox[k][n]
    BY <2>1, <2>2
  <2>4. x = k \/ HasLeft(x)
    BY <2>3 DEF PromptsOK, AnswerForAsker
  <2>5. HasLeft(x) => HasLeft(x)'
    OBVIOUS
  <2> QED
    BY <2>3, <2>4, <2>5 DEF HasLeft
<1>5. AnswerForAsker'
  BY <1>3, <1>4 DEF AnswerForAsker
<1>6. \A i \in 1..Len(finalQ') : IsPrompt(finalQ'[i]) =>
        \/ HasLeft(finalQ[i].job)'
        \/ proc'[finalQ'[i].job] \in Living /\ workers'[finalQ'[i].slot] = finalQ'[i].job
  BY <1>2 DEF LeftOrIn
<1> QED
  BY <1>5, <1>6 DEF PromptsOK, IsPrompt

(* A step that leaves the workers, their answers and the queue alone.      *)
LEMMA PromptFrame ==
  ASSUME PromptsOK, UNCHANGED <<workers, proc, inbox, finalQ>>
  PROVE  PromptsOK'
BY DEF PromptsOK, AnswerForAsker, IsPrompt, HasLeft, Waits, HasAnswer

(* What a message that joins the queue leaves of it.                       *)
LEMMA JoinsQueue ==
  ASSUME TypeOK, NEW m \in Messages, finalQ' = Append(finalQ, m)
  PROVE  /\ \A i \in 1..Len(finalQ) : i \in 1..Len(finalQ') /\ finalQ'[i] = finalQ[i]
         /\ \A i \in 1..Len(finalQ') : i \in 1..Len(finalQ) \/ finalQ'[i] = m
         /\ Len(finalQ') \in 1..Len(finalQ') /\ finalQ'[Len(finalQ')] = m
<1>1. /\ Len(finalQ) \in Nat /\ Len(finalQ') = Len(finalQ) + 1
      /\ \A i \in 1..Len(finalQ) : finalQ'[i] = finalQ[i]
      /\ finalQ'[Len(finalQ) + 1] = m
  BY AppendPositions DEF TypeOK, BaseTypeOK
<1> QED
  BY <1>1

(* A worker that lives keeps its slot while it lives, and what has left    *)
(* has left, whatever a worker does.                                       *)
LEMMA WorkerStays ==
  ASSUME TypeOK, NEW j \in Jobs, Worker(j)
  PROVE  /\ \A k \in Jobs : HasLeft(k) => HasLeft(k)'
         /\ \A k \in Jobs, s \in Slots : LeftOrIn(k, s) => LeftOrIn(k, s)'
<1>1. workers' = workers
  BY DEF Worker, WorkerCallback, WorkerAsks, WorkerGetsAnswer, WorkerTimesOut, WorkerSends,
         WorkerExits, WorkerDies, WorkerSwallows, poolVars
<1>2. \A k \in Jobs : Advances(k)
  BY WorkerAdvancesProc DEF TypeOK
<1>3. \A k \in Jobs : HasLeft(k) => HasLeft(k)'
  BY <1>2 DEF Advances, HasLeft, Living, Working
<1>4. \A k \in Jobs : proc[k] \in Living => proc'[k] \in Living \/ HasLeft(k)'
  BY <1>2 DEF Advances, HasLeft, Living, Over
<1> QED
  BY <1>1, <1>3, <1>4 DEF LeftOrIn

LEMMA WorkerPrompts ==
  ASSUME TypeOK, PromptsOK, NEW j \in Jobs, Worker(j)
  PROVE  PromptsOK'
<1>1. /\ \A k \in Jobs : HasLeft(k) => HasLeft(k)'
      /\ \A k \in Jobs, s \in Slots : LeftOrIn(k, s) => LeftOrIn(k, s)'
  BY WorkerStays
<1>2. CASE WorkerAsks(j)
  <2>1. PICK s \in Slots : workers[s] = j /\ finalQ' = Append(finalQ, Prompt(j, s))
    BY <1>2 DEF WorkerAsks, Send
  <2> DEFINE m == Prompt(j, s)
  <2>2. m \in Messages /\ IsPrompt(m) /\ m.job = j /\ m.slot = s
    BY DEF Messages, Prompt, IsPrompt
  <2>3. finalQ' = Append(finalQ, m)
    BY <2>1
  <2> HIDE DEF m
  <2>4. /\ \A i \in 1..Len(finalQ) : i \in 1..Len(finalQ') /\ finalQ'[i] = finalQ[i]
        /\ \A i \in 1..Len(finalQ') : i \in 1..Len(finalQ) \/ finalQ'[i] = m
        /\ Len(finalQ') \in 1..Len(finalQ') /\ finalQ'[Len(finalQ')] = m
    BY <2>2, <2>3, JoinsQueue
  <2>5. /\ proc'[j] = "asking" /\ \A k \in Jobs : k # j => proc'[k] = proc[k]
        /\ workers' = workers /\ inbox' = inbox
    BY <1>2 DEF WorkerAsks, TypeOK, BaseTypeOK
  <2>6. LeftOrIn(m.job, m.slot)'
    BY <2>1, <2>2, <2>5 DEF LeftOrIn, Living, Working
  <2>7. Waits(j)'
    BY <2>1, <2>2, <2>4, <2>5 DEF Waits, IsPrompt
  <2>8. \A i \in 1..Len(finalQ') : IsPrompt(finalQ'[i]) =>
          i \in 1..Len(finalQ) \/ LeftOrIn(finalQ[i].job, finalQ[i].slot)'
    BY <2>4, <2>6 DEF LeftOrIn, HasLeft
  <2>9. \A k \in Jobs : proc'[k] = "asking" => proc[k] = "asking" \/ Waits(k)'
    BY <2>5, <2>7
  <2>10. \A k \in Jobs : inbox'[k] = inbox[k]
    BY <2>5
  <2> QED
    BY <1>1, <2>4, <2>8, <2>9, <2>10, PromptsKept
<1>3. CASE WorkerCallback(j) \/ WorkerSends(j)
  <2>1. PICK m \in Messages : finalQ' = Append(finalQ, m) /\ ~IsPrompt(m)
    BY <1>3, MessageTypes DEF WorkerCallback, WorkerSends, Send, IsPrompt
  <2>2. /\ \A i \in 1..Len(finalQ) : i \in 1..Len(finalQ') /\ finalQ'[i] = finalQ[i]
        /\ \A i \in 1..Len(finalQ') : i \in 1..Len(finalQ) \/ finalQ'[i] = m
    BY <2>1, JoinsQueue
  <2>3. /\ \A k \in Jobs : proc'[k] = "asking" => proc[k] = "asking"
        /\ inbox' = inbox
    BY <1>3 DEF WorkerCallback, WorkerSends, TypeOK, BaseTypeOK, poolVars
  <2>4. \A i \in 1..Len(finalQ') : IsPrompt(finalQ'[i]) => i \in 1..Len(finalQ)
    BY <2>1, <2>2
  <2>5. \A k \in Jobs : inbox'[k] = inbox[k]
    BY <2>3
  <2> QED
    BY <1>1, <2>2, <2>3, <2>4, <2>5, PromptsKept
<1>4. CASE \/ WorkerGetsAnswer(j) \/ WorkerTimesOut(j) \/ WorkerExits(j)
           \/ WorkerDies(j) \/ WorkerSwallows(j)
  <2>1. /\ \A k \in Jobs : proc'[k] = "asking" => proc[k] = "asking"
        /\ finalQ' = finalQ
    BY <1>4 DEF WorkerGetsAnswer, WorkerTimesOut, WorkerExits, WorkerDies, WorkerSwallows,
                TypeOK, BaseTypeOK
  <2>2. \A k \in Jobs :
          \/ inbox'[k] = inbox[k]
          \/ inbox[k] # <<>> /\ inbox'[k] = Tail(inbox[k]) /\ proc'[k] # "asking"
    BY <1>4 DEF WorkerGetsAnswer, WorkerTimesOut, WorkerExits, WorkerDies, WorkerSwallows,
                TypeOK, BaseTypeOK
  <2>3. /\ \A i \in 1..Len(finalQ) : i \in 1..Len(finalQ') /\ finalQ'[i] = finalQ[i]
        /\ \A i \in 1..Len(finalQ') : i \in 1..Len(finalQ)
    BY <2>1
  <2> QED
    BY <1>1, <2>1, <2>2, <2>3, PromptsKept
<1> QED
  BY <1>2, <1>3, <1>4 DEF Worker

(* The answer goes to the worker that asked, unless that has left.         *)
LEMMA ThreadPrompts ==
  ASSUME TypeOK, PromptsOK, ResultsThread
  PROVE  PromptsOK'
<1>1. /\ UNCHANGED <<proc, workers>> /\ finalQ # <<>> /\ finalQ' = Tail(finalQ)
      /\ IF IsPrompt(Head(finalQ)) THEN ThreadPrompt ELSE inbox' = inbox
  BY DEF ResultsThread, ThreadCallback, ThreadResult, ThreadPrompt, ThreadStops, Take, IsPrompt
<1>2. /\ Head(finalQ) = finalQ[1] /\ 1 \in 1..Len(finalQ)
      /\ \A i \in 1..Len(finalQ') : i + 1 \in 1..Len(finalQ) /\ finalQ'[i] = finalQ[i + 1]
      /\ \A i \in 1..Len(finalQ) : i # 1 => i - 1 \in 1..Len(finalQ') /\ finalQ'[i - 1] = finalQ[i]
  <2>1. /\ Len(finalQ) \in Nat /\ Len(finalQ') = Len(finalQ) - 1
        /\ Head(finalQ) = finalQ[1] /\ 1 \in 1..Len(finalQ)
        /\ \A i \in 1..Len(finalQ') : i + 1 \in 1..Len(finalQ) /\ finalQ'[i] = finalQ[i + 1]
    BY <1>1, TailPositions DEF TypeOK, BaseTypeOK
  <2>2. ASSUME NEW i \in 1..Len(finalQ), i # 1
        PROVE  i - 1 \in 1..Len(finalQ') /\ finalQ'[i - 1] = finalQ[i]
    <3>1. i - 1 \in 1..Len(finalQ') /\ (i - 1) + 1 = i
      BY <2>1, <2>2
    <3> QED
      BY <2>1, <3>1
  <2> QED
    BY <2>1, <2>2
<1> DEFINE asker == finalQ[1].job
           taker == workers[finalQ[1].slot]
<1>3. ASSUME IsPrompt(finalQ[1])
      PROVE  /\ asker \in Jobs /\ (HasLeft(asker) \/ taker = asker)
             /\ inbox' = [inbox EXCEPT ![taker] = Append(inbox[taker], asker)]
  <2>1. asker \in Jobs /\ (HasLeft(asker) \/ taker = asker)
    BY <1>2, <1>3, PromptParts DEF PromptsOK
  <2> QED
    BY <1>1, <1>2, <1>3, <2>1 DEF ThreadPrompt
<1> HIDE DEF asker, taker
<1>4. ASSUME NEW k \in Jobs
      PROVE  /\ inbox[k] \in Seq(Jobs)
             /\ \/ inbox'[k] = inbox[k] /\ ~(IsPrompt(finalQ[1]) /\ taker = k)
                \/ /\ IsPrompt(finalQ[1]) /\ taker = k /\ asker \in Jobs
                   /\ HasLeft(asker) \/ asker = k
                   /\ inbox'[k] = Append(inbox[k], asker)
  <2>1. inbox \in [Jobs -> Seq(Jobs)]
    BY DEF TypeOK, BaseTypeOK
  <2>2. CASE IsPrompt(finalQ[1])
    BY <1>3, <2>1, <2>2
  <2>3. CASE ~IsPrompt(finalQ[1])
    BY <1>1, <1>2, <2>1, <2>3
  <2> QED
    BY <2>2, <2>3
<1>5. \A i \in 1..Len(finalQ') : IsPrompt(finalQ'[i]) =>
        \/ HasLeft(finalQ'[i].job)
        \/ proc[finalQ'[i].job] \in Living /\ workers[finalQ'[i].slot] = finalQ'[i].job
  BY <1>2 DEF PromptsOK
<1>6. ASSUME NEW k \in Jobs, proc[k] = "asking"
      PROVE  Waits(k)' \/ HasAnswer(k)'
  <2>1. CASE HasAnswer(k)
    <3>1. PICK i \in 1..Len(inbox[k]) : inbox[k][i] = k
      BY <2>1 DEF HasAnswer
    <3>2. i \in 1..Len(inbox'[k]) /\ inbox'[k][i] = inbox[k][i]
      <4>1. CASE inbox'[k] = inbox[k]
        BY <4>1
      <4>2. CASE asker \in Jobs /\ inbox'[k] = Append(inbox[k], asker)
        BY <1>4, <4>2, AppendPositions
      <4> QED
        BY <1>4, <4>1, <4>2
    <3> QED
      BY <3>1, <3>2 DEF HasAnswer
  <2>2. CASE Waits(k)
    <3>1. PICK i \in 1..Len(finalQ) :
            IsPrompt(finalQ[i]) /\ finalQ[i].job = k /\ workers[finalQ[i].slot] = k
      BY <2>2 DEF Waits
    <3>2. CASE i # 1
      <4>1. i - 1 \in 1..Len(finalQ') /\ finalQ'[i - 1] = finalQ[i] /\ workers' = workers
        BY <1>1, <1>2, <3>2
      <4> QED
        BY <3>1, <4>1 DEF Waits, IsPrompt
    <3>3. CASE i = 1
      <4>1. IsPrompt(finalQ[1]) /\ taker = k /\ asker = k
        BY <3>1, <3>3 DEF taker, asker
      <4>2. inbox'[k] = Append(inbox[k], k) /\ inbox[k] \in Seq(Jobs)
        BY <1>4, <4>1
      <4>3. Len(inbox[k]) + 1 \in 1..Len(inbox'[k]) /\ inbox'[k][Len(inbox[k]) + 1] = k
        BY <4>2, AppendPositions
      <4> QED
        BY <4>3 DEF HasAnswer
    <3> QED
      BY <3>2, <3>3
  <2> QED
    BY <1>6, <2>1, <2>2 DEF PromptsOK, AnswerForAsker
<1>7. ASSUME NEW k \in Jobs, NEW i \in 1..Len(inbox'[k])
      PROVE  inbox'[k][i] = k \/ HasLeft(inbox'[k][i])
  <2>1. CASE inbox'[k] = inbox[k]
    BY <1>7, <2>1 DEF PromptsOK, AnswerForAsker
  <2>2. CASE /\ asker \in Jobs /\ inbox'[k] = Append(inbox[k], asker)
             /\ HasLeft(asker) \/ asker = k
    <3>1. \/ inbox'[k][i] = asker
          \/ i \in 1..Len(inbox[k]) /\ inbox'[k][i] = inbox[k][i]
      BY <1>4, <1>7, <2>2, AppendPositions
    <3> QED
      BY <2>2, <3>1 DEF PromptsOK, AnswerForAsker
  <2> QED
    BY <1>4, <2>1, <2>2
<1>8. AnswerForAsker'
  BY <1>1, <1>6, <1>7 DEF AnswerForAsker, HasLeft
<1> QED
  BY <1>1, <1>5, <1>8 DEF PromptsOK, IsPrompt, HasLeft

(* A job takes a slot: not one that a worker lives in.                     *)
LEMMA OccupyPrompts ==
  ASSUME TypeOK, PromptsOK, NEW j \in Jobs, proc[j] = "none",
         NEW s, NEW st \in {"running", "unstarted"}, Occupy(j, s, st)
  PROVE  PromptsOK'
<1>1. /\ ~IsAlive(s) /\ workers' = [workers EXCEPT ![s] = j]
      /\ proc'[j] = st /\ \A k \in Jobs : k # j => proc'[k] = proc[k]
      /\ UNCHANGED <<inbox, finalQ>>
  BY DEF Occupy, TypeOK, BaseTypeOK
<1>2. \A k \in Jobs : HasLeft(k) => k # j /\ HasLeft(k)'
  BY <1>1 DEF HasLeft
<1>3. ASSUME NEW k \in Jobs, NEW r \in Slots, proc[k] \in Living, workers[r] = k
      PROVE  proc'[k] \in Living /\ workers'[r] = k
  <2>1. k # j /\ proc'[k] = proc[k]
    BY <1>1, <1>3 DEF Living, Working
  <2>2. r # s
    BY <1>1, <1>3, NoJobAssumption DEF IsAlive
  <2>3. workers'[r] = workers[r]
    BY <1>1, <2>2 DEF TypeOK, BaseTypeOK
  <2> QED
    BY <1>3, <2>1, <2>3
<1>4. \A k \in Jobs, r \in Slots : LeftOrIn(k, r) => LeftOrIn(k, r)'
  BY <1>2, <1>3 DEF LeftOrIn
<1>5. \A k \in Jobs : proc'[k] = "asking" => proc[k] = "asking"
  BY <1>1
<1>6. /\ \A i \in 1..Len(finalQ) : i \in 1..Len(finalQ') /\ finalQ'[i] = finalQ[i]
      /\ \A i \in 1..Len(finalQ') : i \in 1..Len(finalQ)
      /\ \A k \in Jobs : inbox'[k] = inbox[k]
  BY <1>1
<1>7. \A k \in Jobs : HasLeft(k) => HasLeft(k)'
  BY <1>2
<1> HIDE DEF Occupy
<1> QED
  BY <1>4, <1>5, <1>6, <1>7, PromptsKept

LEMMA SentinelPrompts ==
  ASSUME TypeOK, PromptsOK, PutSentinel
  PROVE  PromptsOK'
<1>1. /\ UNCHANGED <<workers, proc, inbox>> /\ finalQ' = Append(finalQ, Sentinel)
      /\ Sentinel \in Messages /\ ~IsPrompt(Sentinel)
  BY DEF PutSentinel, Send, poolVars, Messages, Sentinel, IsPrompt
<1>2. /\ \A i \in 1..Len(finalQ) : i \in 1..Len(finalQ') /\ finalQ'[i] = finalQ[i]
      /\ \A i \in 1..Len(finalQ') : i \in 1..Len(finalQ) \/ finalQ'[i] = Sentinel
  BY <1>1, JoinsQueue
<1>3. \A i \in 1..Len(finalQ') : IsPrompt(finalQ'[i]) => i \in 1..Len(finalQ)
  BY <1>1, <1>2
<1>4. /\ \A k \in Jobs : (HasLeft(k) => HasLeft(k)') /\ inbox'[k] = inbox[k]
      /\ \A k \in Jobs, s \in Slots : LeftOrIn(k, s) => LeftOrIn(k, s)'
      /\ \A k \in Jobs : proc'[k] = "asking" => proc[k] = "asking"
  BY <1>1 DEF HasLeft, LeftOrIn
<1> QED
  BY <1>2, <1>3, <1>4, PromptsKept

(* The workers that are terminated have left.                              *)
LEMMA ReapPrompts ==
  ASSUME TypeOK, PromptsOK, ReapWorkers
  PROVE  PromptsOK'
<1>1. UNCHANGED <<workers, inbox, finalQ>>
  BY DEF ReapWorkers
<1>2. \A k \in Jobs : proc'[k] = proc[k] \/ proc'[k] = "died"
  BY DEF ReapWorkers
<1>3. /\ \A k \in Jobs : HasLeft(k) => HasLeft(k)'
      /\ \A k \in Jobs : proc'[k] = "asking" => proc[k] = "asking"
      /\ \A k \in Jobs, s \in Slots : LeftOrIn(k, s) => LeftOrIn(k, s)'
  BY <1>1, <1>2 DEF HasLeft, LeftOrIn
<1>4. /\ \A i \in 1..Len(finalQ) : i \in 1..Len(finalQ') /\ finalQ'[i] = finalQ[i]
      /\ \A i \in 1..Len(finalQ') : i \in 1..Len(finalQ)
      /\ \A k \in Jobs : inbox'[k] = inbox[k]
  BY <1>1
<1> QED
  BY <1>3, <1>4, PromptsKept

LEMMA PromptStep ==
  ASSUME Inductive, PromptsOK, [Next]_vars
  PROVE  PromptsOK'
<1>1. TypeOK /\ BaseTypeOK /\ RoundOK
  BY DEF Inductive, TypeOK
<1>2. CASE QueueTask
  <2> DEFINE job == <<current, round>>
  <2>1. job \in Jobs /\ proc[job] = "none"
    BY <1>1, <1>2, CurrentJob DEF QueueTask, RoundOK, TypeOK, BaseTypeOK
  <2> HIDE DEF job
  <2>2. CASE SlotBusy(round)
    BY <2>2, PromptFrame DEF SlotBusy
  <2>3. CASE StartWorker(job)
    BY <1>1, <2>1, <2>3, OccupyPrompts DEF StartWorker
  <2>4. CASE ForkFails(job)
    BY <1>1, <2>1, <2>4, OccupyPrompts DEF ForkFails
  <2> QED
    BY <1>2, <2>2, <2>3, <2>4 DEF QueueTask, job
<1>3. CASE PutSentinel
  BY <1>1, <1>3, SentinelPrompts
<1>4. CASE ReapWorkers
  BY <1>1, <1>4, ReapPrompts
<1>5. ASSUME NEW j \in Jobs, Worker(j)
      PROVE  PromptsOK'
  BY <1>1, <1>5, WorkerPrompts
<1>6. CASE Thread
  BY <1>1, <1>6, ThreadPrompts DEF Thread
<1>7. ASSUME \/ StartRound \/ FinishRounds \/ EndOfHosts \/ DrainOne \/ DrainStops
             \/ WaitChecks \/ CollectOne \/ CollectStops \/ JoinThread
             \/ \E h \in Hosts : BlockHost(h) \/ NoopHost(h) \/ SkipHost(h)
             \/ UNCHANGED vars
      PROVE  PromptsOK'
  <2>1. UNCHANGED <<workers, proc, inbox, finalQ>>
    BY <1>7 DEF StartRound, FinishRounds, EndOfHosts, DrainOne, DrainStops, WaitChecks,
                CollectOne, CollectStops, JoinThread, BlockHost, NoopHost, SkipHost,
                ProcessResult, vars, baseVars, poolVars, strategyVars
  <2> QED
    BY <2>1, PromptFrame
<1> QED
  BY <1>2, <1>3, <1>4, <1>5, <1>6, <1>7 DEF Next, Main, Workers, Terminated

-----------------------------------------------------------------------------
(* The theorems.                                                           *)

LEMMA WorkersInit == Init => WorkersOK
<1> SUFFICES ASSUME Init PROVE WorkersOK
  OBVIOUS
<1>1. /\ finalQ = <<>> /\ Len(finalQ) = 0 /\ cache = {} /\ rthread = "running"
      /\ pc = "round" /\ ~error
      /\ \A j \in Jobs : proc[j] = "none" /\ Len(inbox[j]) = 0
  BY EmptySeq DEF Init, BaseInit
<1>2. SlotsOK
  BY <1>1 DEF SlotsOK, Living, Working
<1>3. SentOK
  BY <1>1 DEF SentOK
<1>4. EndOK
  BY <1>1 DEF EndOK
<1>5. PromptsOK
  BY <1>1 DEF PromptsOK, AnswerForAsker
<1> QED
  BY <1>2, <1>3, <1>4, <1>5 DEF WorkersOK

LEMMA WorkersStep == Inductive /\ WorkersOK /\ [Next]_vars => WorkersOK'
<1> SUFFICES ASSUME Inductive, WorkersOK, [Next]_vars PROVE WorkersOK'
  OBVIOUS
<1>1. SlotsOK /\ SentOK /\ EndOK /\ PromptsOK
  BY DEF WorkersOK
<1>2. SlotsOK' /\ SentOK' /\ EndOK' /\ PromptsOK'
  BY <1>1, SlotsStep, SentStep, EndStep, PromptStep
<1> QED
  BY <1>2 DEF WorkersOK

(* In every reachable state live workers have their slots, results that    *)
(* were sent are on their way, prompts name the slot of the worker that    *)
(* asked until it has left, and the end of the run is clean.               *)
THEOREM WorkersInvariance == Spec => []WorkersOK
<1>1. Init => WorkersOK
  BY WorkersInit
<1>2. Inductive /\ WorkersOK /\ [Next]_vars => WorkersOK'
  BY WorkersStep
<1> QED
  BY <1>1, <1>2, Invariance, PTL DEF Spec

(* A live worker keeps its slot in _workers, and no more workers live than *)
(* there are forks, or, on a throttled task, than its throttle allows.     *)
THEOREM SlotsKept == Spec => []SlotsAndThrottle
<1>1. Inductive /\ WorkersOK => SlotsAndThrottle
  BY SlotsSuffice DEF Inductive, WorkersOK
<1> QED
  BY <1>1, Invariance, WorkersInvariance, PTL

(* The result of a job is reported at most once, and one that was sent is  *)
(* never lost between the final queue and the deque of results.            *)
THEOREM ReportedOnce == Spec => []OneReport
<1>1. Inductive /\ WorkersOK => OneReport
  BY ReportsSuffice DEF WorkersOK
<1> QED
  BY <1>1, Invariance, WorkersInvariance, PTL

(* A run ends with no live worker, and without an error also with every    *)
(* result processed and the queue used up.                                 *)
THEOREM EndsClean == Spec => []CleanEnd
<1>1. Inductive /\ WorkersOK => CleanEnd
  BY EndSuffices DEF WorkersOK
<1> QED
  BY <1>1, Invariance, WorkersInvariance, PTL

(* A worker that waits for the user is not forgotten, and an answer goes   *)
(* to another only when the worker that asked has left: the results thread *)
(* puts it into whatever worker has the slot by then.                      *)
THEOREM AnswersReachAskers == Spec => []AnswerForAsker
<1>1. WorkersOK => AnswerForAsker
  BY DEF WorkersOK, PromptsOK
<1> QED
  BY <1>1, WorkersInvariance, PTL

=============================================================================
