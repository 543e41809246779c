-------------------------- MODULE TaskAttempts_proofs --------------------------
(***************************************************************************)
(* Proofs about TaskAttempts and ModuleCache, for any workers, tasks,      *)
(* tries and faults: type correctness, the books of the attempt loop, and  *)
(* that no worker sends less than the whole module when there is one lock. *)
(***************************************************************************)
EXTENDS TaskAttempts, TLAPS

-----------------------------------------------------------------------------
(* Type correctness.                                                       *)

(* A task is attempted at least once.                                      *)
LEMMA AttemptsType ==
  ASSUME task \in Tasks
  PROVE  Attempts \in Nat /\ Attempts >= 1
BY TasksAssumption DEF Attempts

LEMMA ResultTypes ==
  /\ NoResult \in Results /\ Failed \in Results /\ Unreachable \in Results /\ Skipped \in Results
  /\ \A f \in BOOLEAN : \A n \in Nat : Outcome(f, n) \in Results
  /\ \A r \in Results : r.failed \in BOOLEAN
BY DEF NoResult, Failed, Unreachable, Skipped, Results, Outcome

LEMMA CacheTypeInit == CacheInit => CacheTypeOK
BY LockAssumption, NoWorkerAssumption DEF CacheInit, CacheTypeOK, Phases, Contents, Handles

LEMMA ReleasedType ==
  ASSUME CacheTypeOK, NEW w \in Workers
  PROVE  Released(w) \in [Locks -> Workers \cup {NoWorker}]
BY LockAssumption DEF CacheTypeOK, Released, Holds

LEMMA CacheTypeStep ==
  ASSUME CacheTypeOK, NEW w \in Workers, CacheStep(w)
  PROVE  CacheTypeOK'
<1> USE LockAssumption DEF CacheTypeOK, Goes, Phases, Contents, Handles
<1>1. CASE Begin(w)
  BY <1>1 DEF Begin
<1>2. CASE Look(w)
  BY <1>2 DEF Look
<1>3. CASE Acquire(w)
  BY <1>3 DEF Acquire
<1>4. CASE Check(w)
  BY <1>4 DEF Check
<1>5. CASE Open(w)
  BY <1>5 DEF Open
<1>6. CASE Write(w)
  BY <1>6 DEF Write
<1>7. CASE Rename(w)
  <2>1. handle' \in [Workers -> Handles]
    BY <1>7 DEF Rename
  <2> QED
    BY <1>7, <2>1 DEF Rename
<1>8. CASE RenameFails(w)
  BY <1>8, ReleasedType DEF RenameFails
<1>9. CASE Leave(w)
  BY <1>9, ReleasedType DEF Leave
<1>10. CASE Read(w)
  BY <1>10 DEF Read
<1>11. CASE Interrupt(w)
  BY <1>11, ReleasedType DEF Interrupt
<1>12. CASE Killed(w)
  BY <1>12 DEF Killed
<1> QED
  BY <1>1, <1>2, <1>3, <1>4, <1>5, <1>6, <1>7, <1>8, <1>9, <1>10, <1>11, <1>12
     DEF CacheStep, Build

LEMMA TaskTypeInit == Init => TaskTypeOK
<1> SUFFICES ASSUME Init PROVE TaskTypeOK
  OBVIOUS
<1>1. CacheTypeOK
  BY CacheTypeInit DEF Init
<1>2. Attempts \in Nat /\ Attempts >= 1
  BY AttemptsType DEF Init
<1>3. 1 \in 1..Attempts /\ 1 \in 1..Tries /\ <<>> \in Seq(BOOLEAN)
  BY <1>2, TriesAssumption
<1> QED
  BY <1>1, <1>3, ResultTypes DEF Init, TaskTypeOK

(* What every step does to the module's archive.                           *)
LEMMA CacheUnderStep ==
  ASSUME PhasesOK, NEW w \in Workers, Step(w) \/ TimesOut(w) \/ WorkerKilled(w)
  PROVE  CacheStep(w) \/ UNCHANGED cacheVars
<1>1. CASE StartAttempt(w)
  BY <1>1 DEF StartAttempt, CacheStep, PhasesOK
<1>2. CASE BuildModule(w)
  BY <1>2 DEF BuildModule, CacheStep
<1>3. CASE Send(w)
  BY <1>3 DEF Send, Answer, ConnectionLost, BrokenPipe, AuthenticationFails
<1>4. CASE ActionRaises(w) \/ ActionSkips(w) \/ TimesOut(w)
  BY <1>4 DEF ActionRaises, ActionSkips, TimesOut, CacheStep
<1>5. CASE Judge(w)
  BY <1>5 DEF Judge
<1>6. CASE WorkerKilled(w)
  BY <1>6 DEF WorkerKilled, CacheStep
<1> QED
  BY <1>1, <1>2, <1>3, <1>4, <1>5, <1>6 DEF Step

LEMMA TaskTypeStep ==
  ASSUME TaskTypeOK, PhasesOK, NEW w \in Workers, Step(w) \/ TimesOut(w) \/ WorkerKilled(w)
  PROVE  TaskTypeOK'
<1>1. CacheTypeOK'
  BY CacheUnderStep, CacheTypeStep DEF TaskTypeOK, CacheTypeOK, cacheVars
<1>2. Attempts \in Nat /\ Attempts >= 1
  BY AttemptsType DEF TaskTypeOK
<1>3. task' = task
  BY DEF Step, StartAttempt, BuildModule, taskVars, Send, Answer, ConnectionLost, BrokenPipe,
         AuthenticationFails, ActionRaises, ActionSkips, TimesOut, Judge, WorkerKilled
<1>4. Attempts' = Attempts
  BY <1>3 DEF Attempts
<1>5. NoResult \in Results /\ Failed \in Results /\ Unreachable \in Results /\ Skipped \in Results
  BY ResultTypes
<1> USE <1>1, <1>2, <1>3, <1>4 DEF TaskTypeOK
<1>6. CASE StartAttempt(w)
  <2>1. 1 \in 1..Tries
    BY TriesAssumption
  <2> QED
    BY <1>6, <2>1 DEF StartAttempt
<1>7. CASE BuildModule(w)
  BY <1>7 DEF BuildModule, taskVars
<1>8. CASE Answer(w)
  <2>1. PICK f \in BOOLEAN : result' = [result EXCEPT ![w] = Outcome(f, 0)]
    BY <1>8 DEF Answer
  <2>2. result' \in [Workers -> Results]
    BY <2>1, ResultTypes
  <2>3. runs' \in [Workers -> Nat] /\ pc' \in [Workers -> {"attempt", "build", "judge", "over", "dead"}]
    BY <1>8 DEF Answer, Ran
  <2>4. UNCHANGED <<attempt, try, piped, told, lost, mets>>
    BY <1>8 DEF Answer
  <2> QED
    BY <2>2, <2>3, <2>4
<1>9. CASE ConnectionLost(w) \/ BrokenPipe(w)
  <2>1. pc' \in [Workers -> {"attempt", "build", "judge", "over", "dead"}]
    BY <1>9 DEF ConnectionLost, BrokenPipe, TryAgain, Ends
  <2>2. try' \in [Workers -> 1..Tries]
    <3>1. try' = try \/ (try[w] # Tries /\ try' = [try EXCEPT ![w] = @ + 1])
      BY <1>9 DEF ConnectionLost, BrokenPipe, TryAgain, LastTry
    <3>2. try[w] # Tries => try[w] + 1 \in 1..Tries
      BY TriesAssumption
    <3> QED
      BY <3>1, <3>2
  <2>3. result' \in [Workers -> Results] /\ piped' \in [Workers -> BOOLEAN]
    BY <1>5, <1>9 DEF ConnectionLost, BrokenPipe, TryAgain, Ends
  <2>4. runs' \in [Workers -> Nat] /\ lost' \in [Workers -> Nat]
    <3>1. \/ UNCHANGED <<runs, lost>>
          \/ /\ runs' = [runs EXCEPT ![w] = @ + 1]
             /\ lost' = [lost EXCEPT ![w] = @ + 1]
      BY <1>9 DEF ConnectionLost, MayHaveRun, BrokenPipe, Ran
    <3>2. runs \in [Workers -> Nat] /\ lost \in [Workers -> Nat]
      OBVIOUS
    <3> QED
      BY ONLY <3>1, <3>2
  <2>5. UNCHANGED <<attempt, told, mets>>
    BY <1>9 DEF ConnectionLost, BrokenPipe
  <2> QED
    BY <2>1, <2>2, <2>3, <2>4, <2>5
<1>10. CASE AuthenticationFails(w) \/ ActionRaises(w) \/ ActionSkips(w) \/ TimesOut(w)
  <2>1. runs' \in [Workers -> Nat] /\ lost' \in [Workers -> Nat]
    <3>1. \/ UNCHANGED <<runs, lost>>
          \/ /\ runs' = [runs EXCEPT ![w] = @ + 1]
             /\ lost' = [lost EXCEPT ![w] = @ + 1]
      BY <1>10 DEF AuthenticationFails, ActionRaises, ActionSkips, TimesOut, MayHaveRun, Ran
    <3>2. runs \in [Workers -> Nat] /\ lost \in [Workers -> Nat]
      OBVIOUS
    <3> QED
      BY ONLY <3>1, <3>2
  <2>2. /\ pc' \in [Workers -> {"attempt", "build", "judge", "over", "dead"}]
        /\ result' \in [Workers -> Results]
    BY <1>5, <1>10 DEF AuthenticationFails, ActionRaises, ActionSkips, TimesOut, Ends
  <2>3. UNCHANGED <<attempt, try, piped, told, mets>>
    BY <1>10 DEF AuthenticationFails, ActionRaises, ActionSkips, TimesOut
  <2> QED
    BY <2>1, <2>2, <2>3
<1>11. CASE WorkerKilled(w)
  BY <1>11 DEF WorkerKilled
<1>12. CASE Judge(w)
  <2>1. mets' \in [Workers -> Seq(BOOLEAN)]
    <3>1. \E b \in BOOLEAN : mets' = [mets EXCEPT ![w] = Append(@, b)]
      BY <1>12 DEF Judge, OnceIsEnough, Met, Unmet
    <3> QED
      BY <3>1
  <2>2. pc' \in [Workers -> {"attempt", "build", "judge", "over", "dead"}]
    BY <1>12 DEF Judge, OnceIsEnough, Met, Unmet, Ends
  <2>3. result' \in [Workers -> Results]
    <3>1. /\ Outcome(result[w].failed, attempt[w]) \in Results
          /\ Outcome(TRUE, Attempts - 1) \in Results
      <4>1. result[w].failed \in BOOLEAN
        BY ResultTypes
      <4>2. attempt[w] \in Nat /\ Attempts - 1 \in Nat
        OBVIOUS
      <4> QED
        BY ONLY <4>1, <4>2, ResultTypes
    <3> QED
      BY <1>12, <3>1 DEF Judge, OnceIsEnough, Met, Unmet, Ends
  <2>4. attempt' \in [Workers -> 1..Attempts] /\ told' \in [Workers -> Nat]
    <3>1. \/ UNCHANGED <<attempt, told>>
          \/ /\ attempt[w] < Attempts
             /\ attempt' = [attempt EXCEPT ![w] = @ + 1]
             /\ told' = [told EXCEPT ![w] = @ + 1]
      BY <1>12 DEF Judge, OnceIsEnough, Met, Unmet
    <3>2. attempt \in [Workers -> 1..Attempts] /\ told \in [Workers -> Nat]
      OBVIOUS
    <3> QED
      BY ONLY <1>2, <3>1, <3>2
  <2>5. UNCHANGED <<try, piped, runs, lost>>
    BY <1>12 DEF Judge
  <2> QED
    BY <2>1, <2>2, <2>3, <2>4, <2>5
<1> QED
  BY <1>6, <1>7, <1>8, <1>9, <1>10, <1>11, <1>12 DEF Step, Send

-----------------------------------------------------------------------------
(* The archive of the module, with one lock.                               *)

LEMMA ArchiveInit == CacheInit => ArchiveOK
BY DEF CacheInit, ArchiveOK, Inside

(* The steps of one worker leave alone what the invariant says of another  *)
(* that it does not meet inside the lock.                                  *)
LEMMA ArchiveStep ==
  ASSUME SameLock, CacheTypeOK, ArchiveOK, NEW w \in Workers, CacheStep(w)
  PROVE  ArchiveOK'
<1>1. \A v \in Workers : v # w /\ phase[w] \in Inside => phase[v] \notin Inside
  BY DEF SameLock, ArchiveOK
<1>2. \A v \in Workers : holder[LockOf[w]] = NoWorker => phase[v] \notin Inside
  BY NoWorkerAssumption DEF SameLock, ArchiveOK
<1>3. \A v \in Workers : v # w => phase'[v] = phase[v]
  BY DEF CacheTypeOK, CacheStep, Begin, Build, Look, Acquire, Check, Open, Write, Rename,
         RenameFails, Leave, Read, Interrupt, Killed, Goes
<1>4. \A v \in Workers : v # w /\ phase[v] \in Inside => Released(w)[LockOf[v]] = holder[LockOf[v]]
  BY LockAssumption DEF Released, Holds, CacheTypeOK, ArchiveOK
<1> USE LockAssumption DEF CacheTypeOK, ArchiveOK, Goes, Inside
<1>5. CASE Begin(w) /\ phase[w] \in {"idle", "built"}
  BY <1>5 DEF Begin
<1>6. CASE Look(w)
  BY <1>6 DEF Look
<1>7. CASE Acquire(w)
  BY <1>2, <1>7 DEF Acquire, SameLock
<1>8. CASE Check(w)
  BY <1>8 DEF Check
<1>9. CASE Open(w)
  BY <1>1, <1>9 DEF Open
<1>10. CASE Write(w)
  BY <1>1, <1>10 DEF Write
<1>11. CASE Rename(w)
  <2>1. handle' = handle /\ archive' = "whole"
    BY <1>1, <1>11 DEF Rename
  <2> QED
    BY <1>1, <1>11, <2>1 DEF Rename
<1>12. CASE RenameFails(w)
  BY <1>12 DEF RenameFails
<1>13. CASE Leave(w)
  BY <1>3, <1>4, <1>13 DEF Leave
<1>14. CASE Read(w)
  BY <1>14 DEF Read, Contents
<1>15. CASE Interrupt(w)
  BY <1>3, <1>4, <1>15 DEF Interrupt
<1>16. CASE Killed(w)
  BY <1>16 DEF Killed
<1> QED
  BY <1>5, <1>6, <1>7, <1>8, <1>9, <1>10, <1>11, <1>12, <1>13, <1>14, <1>15, <1>16
     DEF CacheStep, Build

LEMMA ArchiveStutter == ArchiveOK /\ UNCHANGED cacheVars => ArchiveOK'
BY DEF ArchiveOK, cacheVars

LEMMA PhasesStep ==
  ASSUME TaskTypeOK, PhasesOK, NEW w \in Workers, Step(w) \/ TimesOut(w) \/ WorkerKilled(w)
  PROVE  PhasesOK'
<1> USE DEF TaskTypeOK, CacheTypeOK, PhasesOK
<1>1. CASE StartAttempt(w)
  BY <1>1 DEF StartAttempt, Begin, Goes
<1>2. CASE BuildModule(w)
  <2>1. pc' = pc /\ pc[w] = "build" /\ \A v \in Workers : v # w => phase'[v] = phase[v]
    BY <1>2 DEF BuildModule, taskVars, Build, Look, Acquire, Check, Open, Write, Rename,
                RenameFails, Leave, Read, Goes
  <2> QED
    BY <2>1
<1>3. CASE Send(w)
  <2>1. phase' = phase /\ phase[w] = "built" /\ \A v \in Workers : v # w => pc'[v] = pc[v]
    BY <1>3 DEF Send, Answer, ConnectionLost, BrokenPipe, AuthenticationFails, TryAgain, Ends,
                Sending, cacheVars
  <2> QED
    BY <2>1
<1>4. CASE ActionRaises(w) \/ ActionSkips(w) \/ TimesOut(w)
  BY <1>4 DEF ActionRaises, ActionSkips, TimesOut, Interrupt, Goes, Ends
<1>5. CASE Judge(w)
  BY <1>5 DEF Judge, OnceIsEnough, Met, Unmet, Ends, cacheVars
<1>6. CASE WorkerKilled(w)
  BY <1>6 DEF WorkerKilled, Killed, Goes
<1> QED
  BY <1>1, <1>2, <1>3, <1>4, <1>5, <1>6 DEF Step

-----------------------------------------------------------------------------
(* The books of the attempt loop.                                          *)

LEMMA BooksInit == Init => AttemptsOK /\ RetriesAsAsked
<1> SUFFICES ASSUME Init, NEW w \in Workers
             PROVE  BooksOf(w) /\ pc[w] # "over"
  BY DEF AttemptsOK, RetriesAsAsked
<1> QED
  BY DEF Init, BooksOf, Answered, NoResult, Outcome

(* The same worker, task and books: the same invariant.                    *)
LEMMA BooksSame ==
  ASSUME NEW w \in Workers, BooksOf(w), pc[w] = "over" => AsAsked(w), task' = task,
         pc'[w] = pc[w], attempt'[w] = attempt[w], result'[w] = result[w], told'[w] = told[w],
         runs'[w] = runs[w], lost'[w] = lost[w], mets'[w] = mets[w]
  PROVE  BooksOf(w)' /\ (pc[w] = "over" => AsAsked(w))'
BY DEF BooksOf, AsAsked, Answered, RetriesGiven

(* One more answer among those judged.                                     *)
LEMMA OneMoreAnswer ==
  ASSUME NEW s \in Seq(BOOLEAN), NEW b \in BOOLEAN, \A i \in 1..Len(s) : ~s[i]
  PROVE  /\ Len(Append(s, b)) = Len(s) + 1
         /\ Append(s, b)[Len(s) + 1] = b
         /\ \A i \in 1..Len(s) : ~Append(s, b)[i]
OBVIOUS

LEMMA OneMoreUnmet ==
  ASSUME NEW s \in Seq(BOOLEAN), \A i \in 1..Len(s) : ~s[i]
  PROVE  \A i \in 1..Len(s) + 1 : ~Append(s, FALSE)[i]
<1> SUFFICES ASSUME NEW i \in 1..Len(s) + 1 PROVE ~Append(s, FALSE)[i]
  OBVIOUS
<1>1. CASE i = Len(s) + 1
  <2>1. Append(s, FALSE)[i] = FALSE
    BY <1>1
  <2> QED
    BY <2>1, Zenon
<1>2. CASE i \in 1..Len(s)
  BY <1>2
<1> QED
  BY <1>1, <1>2

(* The books of a task that goes on, and of one that is over.              *)
LEMMA BooksGoOn ==
  ASSUME NEW w \in Workers, told'[w] \in Nat, Len(mets'[w]) = told'[w],
         attempt'[w] = told'[w] + 1, \A i \in 1..told'[w] : ~mets'[w][i],
         pc'[w] # "over", result'[w].attempts = 0, runs'[w] = lost'[w] + Answered(w)'
  PROVE  BooksOf(w)' /\ (pc[w] = "over" => AsAsked(w))'
BY DEF BooksOf

LEMMA BooksOver ==
  ASSUME NEW w \in Workers, told'[w] \in Nat, Len(mets'[w]) \in {told'[w], told'[w] + 1},
         lost'[w] \in Nat, runs'[w] = lost'[w] + Len(mets'[w]),
         attempt'[w] = told'[w] + 1, \A i \in 1..told'[w] : ~mets'[w][i],
         pc'[w] = "over"
  PROVE  BooksOf(w)'
<1>1. Answered(w)' = Len(mets'[w]) + 0
  BY DEF Answered
<1>2. runs'[w] = lost'[w] + Answered(w)'
  BY <1>1
<1>3. told'[w] <= Len(mets'[w])
  OBVIOUS
<1> QED
  BY <1>2, <1>3 DEF BooksOf

LEMMA BooksStep ==
  ASSUME TaskTypeOK, AttemptsOK, RetriesAsAsked,
         NEW w \in Workers, Step(w) \/ TimesOut(w) \/ WorkerKilled(w)
  PROVE  AttemptsOK' /\ RetriesAsAsked'
<1>1. task' = task
  BY DEF Step, StartAttempt, BuildModule, taskVars, Send, Answer, ConnectionLost, BrokenPipe,
         AuthenticationFails, ActionRaises, ActionSkips, TimesOut, Judge, WorkerKilled
<1>2. Attempts' = Attempts /\ Attempts \in Nat /\ RetriesGiven' = RetriesGiven
  BY <1>1, AttemptsType DEF Attempts, RetriesGiven, TaskTypeOK
<1>3. RetriesGiven = Attempts - 1
  BY TasksAssumption DEF RetriesGiven, Attempts, TaskTypeOK
<1>4. /\ told[w] \in Nat /\ runs[w] \in Nat /\ lost[w] \in Nat /\ attempt[w] \in 1..Attempts
      /\ mets[w] \in Seq(BOOLEAN) /\ Len(mets[w]) \in Nat
  BY DEF TaskTypeOK
<1>5. BooksOf(w) /\ (pc[w] = "over" => AsAsked(w))
  BY DEF AttemptsOK, RetriesAsAsked
<1>6. \A v \in Workers : v # w => BooksOf(v)' /\ (pc[v] = "over" => AsAsked(v))'
  <2> SUFFICES ASSUME NEW v \in Workers, v # w
               PROVE  BooksOf(v)' /\ (pc[v] = "over" => AsAsked(v))'
    OBVIOUS
  <2>1. /\ pc'[v] = pc[v] /\ attempt'[v] = attempt[v] /\ result'[v] = result[v]
        /\ told'[v] = told[v] /\ runs'[v] = runs[v] /\ lost'[v] = lost[v] /\ mets'[v] = mets[v]
    BY DEF TaskTypeOK, Step, StartAttempt, BuildModule, taskVars, Send, Answer, ConnectionLost,
           BrokenPipe, AuthenticationFails, ActionRaises, ActionSkips, TimesOut, Judge,
           OnceIsEnough, Met, Unmet, WorkerKilled, Ends, TryAgain, MayHaveRun, Ran
  <2>2. BooksOf(v) /\ (pc[v] = "over" => AsAsked(v))
    BY DEF AttemptsOK, RetriesAsAsked
  <2> QED
    BY <1>1, <2>1, <2>2, BooksSame
<1>7. SUFFICES BooksOf(w)' /\ (pc[w] = "over" => AsAsked(w))'
  BY <1>6 DEF AttemptsOK, RetriesAsAsked
<1>a. pc[w] = "build" => /\ runs[w] = lost[w] + Len(mets[w]) /\ attempt[w] = told[w] + 1
                         /\ Len(mets[w]) = told[w] /\ result[w].attempts = 0
                         /\ \A i \in 1..told[w] : ~mets[w][i]
  BY <1>4, <1>5 DEF BooksOf, Answered
<1>8. CASE StartAttempt(w)
  <2>1. pc[w] = "attempt" /\ pc'[w] = "build" /\ UNCHANGED <<attempt, result, told, runs, lost, mets>>
    BY <1>8 DEF StartAttempt, TaskTypeOK
  <2> QED
    BY <1>5, <2>1 DEF BooksOf, Answered
<1>9. CASE BuildModule(w)
  BY <1>1, <1>5, <1>9, BooksSame DEF BuildModule, taskVars
<1>10. CASE Answer(w)
  <2>1. /\ pc[w] = "build" /\ pc'[w] = "judge" /\ runs'[w] = runs[w] + 1
        /\ result'[w].attempts = 0 /\ UNCHANGED <<attempt, told, lost, mets>>
    BY <1>10 DEF Answer, Sending, Ran, Outcome, TaskTypeOK
  <2>2. told' = told /\ mets' = mets /\ attempt' = attempt /\ lost' = lost
    BY <2>1
  <2>3. runs'[w] = lost'[w] + (Len(mets'[w]) + 1)
    BY ONLY <1>4, <1>a, <2>1, <2>2
  <2>4. Answered(w)' = Len(mets'[w]) + 1
    BY ONLY <2>1 DEF Answered
  <2>5. Len(mets'[w]) = told'[w] /\ attempt'[w] = told'[w] + 1 /\ told'[w] \in Nat
    BY ONLY <1>4, <1>a, <2>1, <2>2
  <2>6. \A i \in 1..told'[w] : ~mets'[w][i]
    BY ONLY <1>a, <2>1, <2>2
  <2> QED
    BY <2>1, <2>2, <2>3, <2>4, <2>5, <2>6, BooksGoOn
(* What ends the task in the middle of an attempt leaves the books.        *)
<1>11. CASE \/ ConnectionLost(w) \/ BrokenPipe(w) \/ AuthenticationFails(w)
             \/ ActionRaises(w) \/ ActionSkips(w) \/ TimesOut(w)
  <2>1. pc[w] = "build" /\ UNCHANGED <<attempt, told, mets>>
    BY <1>11 DEF ConnectionLost, BrokenPipe, AuthenticationFails, ActionRaises, ActionSkips,
                 TimesOut, Sending
  <2>2. \/ runs'[w] = runs[w] /\ lost'[w] = lost[w]
        \/ runs'[w] = runs[w] + 1 /\ lost'[w] = lost[w] + 1
    BY <1>11 DEF ConnectionLost, BrokenPipe, AuthenticationFails, ActionRaises, ActionSkips,
                 TimesOut, MayHaveRun, Ran, TaskTypeOK
  <2>3. \/ pc'[w] = pc[w] /\ result'[w] = result[w]
        \/ pc'[w] = "over" /\ result'[w] \in {Failed, Unreachable, Skipped}
    BY <1>11 DEF ConnectionLost, BrokenPipe, AuthenticationFails, ActionRaises, ActionSkips,
                 TimesOut, TryAgain, Ends, TaskTypeOK
  <2>4. \A r \in {Failed, Unreachable, Skipped} : r.failed \/ r.unreachable \/ r.skipped
    BY DEF Failed, Unreachable, Skipped, Outcome
  <2>5. runs'[w] = lost'[w] + Len(mets[w])
    BY ONLY <1>4, <1>a, <2>1, <2>2
  <2>6. told' = told /\ attempt' = attempt /\ mets' = mets
    BY <2>1
  <2>7. /\ told'[w] \in Nat /\ Len(mets'[w]) = told'[w] /\ attempt'[w] = told'[w] + 1
        /\ \A i \in 1..told'[w] : ~mets'[w][i]
    BY ONLY <1>4, <1>a, <2>1, <2>6
  <2>8. lost'[w] \in Nat
    BY ONLY <1>4, <2>2
  <2>9. CASE pc'[w] = pc[w] /\ result'[w] = result[w]
    <3>1. Answered(w)' = Len(mets'[w]) + 0
      BY <2>1, <2>9 DEF Answered
    <3>2. result'[w].attempts = 0 /\ pc'[w] # "over" /\ runs'[w] = lost'[w] + Answered(w)'
      BY <1>a, <2>1, <2>5, <2>6, <2>7, <2>8, <2>9, <3>1
    <3> QED
      BY <2>7, <3>2, BooksGoOn
  <2>10. CASE pc'[w] = "over" /\ result'[w] \in {Failed, Unreachable, Skipped}
    <3>1. BooksOf(w)'
      BY <2>5, <2>6, <2>7, <2>8, <2>10, BooksOver
    <3>2. AsAsked(w)'
      BY ONLY <2>4, <2>5, <2>6, <2>7, <2>8, <2>10 DEF AsAsked
    <3> QED
      BY <3>1, <3>2
  <2> QED
    BY <2>3, <2>9, <2>10
<1>12. CASE WorkerKilled(w)
  <2>1. /\ pc[w] # "over" /\ pc'[w] = "dead"
        /\ UNCHANGED <<attempt, result, told, runs, lost, mets>>
    BY <1>12 DEF WorkerKilled, TaskTypeOK
  <2> QED
    BY <1>5, <2>1 DEF BooksOf
<1>13. CASE Judge(w)
  <2>1. /\ pc[w] = "judge" /\ Len(mets[w]) = told[w] /\ attempt[w] = told[w] + 1
        /\ runs[w] = lost[w] + told[w] + 1 /\ result[w].attempts = 0 /\ UNCHANGED <<runs, lost>>
        /\ \A i \in 1..told[w] : ~mets[w][i]
    <3>1. pc[w] = "judge" /\ UNCHANGED <<runs, lost>>
      BY <1>13 DEF Judge, OnceIsEnough, Met, Unmet
    <3> QED
      <4>1. Answered(w) = Len(mets[w]) + 1
        BY <3>1 DEF Answered
      <4>2. /\ Len(mets[w]) = told[w] /\ attempt[w] = told[w] + 1 /\ result[w].attempts = 0
            /\ \A i \in 1..told[w] : ~mets[w][i]
        BY <1>4, <1>5, <3>1 DEF BooksOf
      <4>3. runs[w] = lost[w] + Answered(w)
        BY <1>5, <3>1 DEF BooksOf
      <4> QED
        BY ONLY <1>4, <3>1, <4>1, <4>2, <4>3
  <2>2. CASE OnceIsEnough(w) \/ Met(w)
    <3>1. /\ pc'[w] = "over" /\ mets'[w] = Append(mets[w], TRUE)
          /\ attempt' = attempt /\ told' = told
      BY <2>2 DEF OnceIsEnough, Met, Ends, TaskTypeOK
    <3>a. result'[w].attempts = IF Attempts = 1 THEN 0 ELSE attempt[w]
      <4>1. Outcome(result[w].failed, attempt[w]).attempts = attempt[w]
        BY DEF Outcome
      <4>2. CASE OnceIsEnough(w)
        BY <2>1, <4>2 DEF OnceIsEnough, Ends, TaskTypeOK
      <4>3. CASE Met(w)
        <5>1. result'[w] = Outcome(result[w].failed, attempt[w]) /\ Attempts # 1
          BY <1>2, <4>3 DEF Met, Ends, TaskTypeOK
        <5> QED
          BY ONLY <4>1, <5>1
      <4> QED
        BY <2>2, <4>2, <4>3
    <3>2. /\ Len(mets'[w]) = told[w] + 1 /\ mets'[w][told[w] + 1]
          /\ \A i \in 1..told[w] : ~mets'[w][i]
      BY <1>4, <2>1, <3>1, OneMoreAnswer
    <3>3. runs'[w] = lost'[w] + Len(mets'[w]) /\ attempt'[w] = told'[w] + 1
      BY ONLY <1>4, <2>1, <3>1, <3>2
    <3>4. told'[w] \in Nat /\ lost'[w] \in Nat /\ \A i \in 1..told'[w] : ~mets'[w][i]
      BY <1>4, <2>1, <3>1, <3>2
    <3>5. BooksOf(w)'
      BY <3>1, <3>2, <3>3, <3>4, BooksOver
    <3>6. result'[w].attempts = IF RetriesGiven' = 0 THEN 0 ELSE told[w] + 1
      BY ONLY <1>2, <1>3, <2>1, <3>a
    <3>7. AsAsked(w)'
      BY ONLY <1>4, <3>1, <3>2, <3>3, <3>4, <3>6 DEF AsAsked
    <3> QED
      BY <3>5, <3>7
  <2>3. CASE Unmet(w)
    <3>1. mets'[w] = Append(mets[w], FALSE)
      BY <2>3 DEF Unmet, TaskTypeOK
    <3>2. /\ Len(mets'[w]) = told[w] + 1 /\ ~mets'[w][told[w] + 1]
      BY <1>4, <2>1, <3>1, OneMoreAnswer
    <3>3. \A i \in 1..told[w] + 1 : ~mets'[w][i]
      BY <1>4, <2>1, <3>1, OneMoreUnmet
    <3>4. CASE attempt[w] < Attempts
      <4>1. /\ pc'[w] = "attempt" /\ told'[w] = told[w] + 1 /\ attempt'[w] = attempt[w] + 1
            /\ result' = result
        BY <2>3, <3>4 DEF Unmet, TaskTypeOK
      <4>2. Answered(w)' = Len(mets'[w]) + 0
        BY <4>1 DEF Answered
      <4>3. /\ told'[w] \in Nat /\ Len(mets'[w]) = told'[w] /\ attempt'[w] = told'[w] + 1
            /\ \A i \in 1..told'[w] : ~mets'[w][i]
        <5>1. told'[w] \in Nat /\ Len(mets'[w]) = told'[w] /\ attempt'[w] = told'[w] + 1
          BY ONLY <1>4, <2>1, <3>2, <4>1
        <5>2. \A i \in 1..told'[w] : ~mets'[w][i]
          <6>1. told'[w] = told[w] + 1
            BY ONLY <4>1
          <6> QED
            BY ONLY <3>3, <6>1, Zenon
        <5> QED
          BY ONLY <5>1, <5>2
      <4>4. runs'[w] = lost'[w] + Answered(w)'
        BY ONLY <1>4, <2>1, <3>2, <4>2
      <4> QED
        BY <2>1, <4>1, <4>3, <4>4, BooksGoOn
    <3>5. CASE ~(attempt[w] < Attempts)
      <4>1. /\ pc'[w] = "over" /\ attempt' = attempt /\ told' = told
            /\ result'[w] = Outcome(TRUE, Attempts - 1)
        BY <2>3, <3>5 DEF Unmet, Ends, TaskTypeOK
      <4>2. result'[w].failed /\ result'[w].attempts = Attempts - 1 /\ attempt[w] = Attempts
        <5>1. LET o == Outcome(TRUE, Attempts - 1) IN o.failed /\ o.attempts = Attempts - 1
          BY DEF Outcome
        <5>2. attempt[w] = Attempts
          BY ONLY <1>2, <1>4, <3>5
        <5> QED
          BY ONLY <4>1, <5>1, <5>2
      <4>3. runs'[w] = lost'[w] + Len(mets'[w]) /\ attempt'[w] = told'[w] + 1
        BY ONLY <1>4, <2>1, <3>2, <4>1
      <4>4. /\ told'[w] \in Nat /\ lost'[w] \in Nat /\ \A i \in 1..told'[w] : ~mets'[w][i]
            /\ Len(mets'[w]) = told'[w] + 1
        BY ONLY <1>4, <2>1, <3>2, <3>3, <4>1
      <4>5. BooksOf(w)'
        BY <4>1, <4>3, <4>4, BooksOver
      <4>6. told'[w] = RetriesGiven' /\ result'[w].attempts = RetriesGiven'
        <5>1. told[w] = Attempts - 1
          BY ONLY <1>2, <1>4, <2>1, <4>2
        <5>2. told'[w] = told[w] /\ result'[w].attempts = Attempts - 1
          BY <4>1, <4>2
        <5> QED
          BY <1>2, <1>3, <5>1, <5>2
      <4>7. AsAsked(w)'
        BY ONLY <3>2, <4>1, <4>2, <4>3, <4>4, <4>6 DEF AsAsked
      <4> QED
        BY <4>5, <4>7
    <3> QED
      BY <3>4, <3>5
  <2> QED
    BY <1>13, <2>2, <2>3 DEF Judge
<1> QED
  BY <1>8, <1>9, <1>10, <1>11, <1>12, <1>13 DEF Step, Send

LEMMA TaskStutter ==
  ASSUME TaskInductive, UNCHANGED vars
  PROVE  TaskInductive'
<1>1. TaskTypeOK'
  BY DEF TaskInductive, TaskTypeOK, CacheTypeOK, vars, cacheVars, taskVars, Attempts
<1>2. PhasesOK'
  BY DEF TaskInductive, PhasesOK, vars, cacheVars, taskVars
<1>3. AttemptsOK' /\ RetriesAsAsked'
  <2> SUFFICES ASSUME NEW w \in Workers
               PROVE  BooksOf(w)' /\ (pc[w] = "over" => AsAsked(w))'
    BY DEF AttemptsOK, RetriesAsAsked
  <2> QED
    BY BooksSame DEF TaskInductive, AttemptsOK, RetriesAsAsked, vars, taskVars
<1>4. SameLock' => ArchiveOK'
  BY ArchiveStutter DEF TaskInductive, SameLock, vars
<1> QED
  BY <1>1, <1>2, <1>3, <1>4 DEF TaskInductive

LEMMA TaskInductiveInit == Init => TaskInductive
<1> SUFFICES ASSUME Init PROVE TaskInductive
  OBVIOUS
<1>1. PhasesOK
  BY DEF Init, CacheInit, PhasesOK
<1>2. ArchiveOK
  BY ArchiveInit DEF Init
<1> QED
  BY <1>1, <1>2, TaskTypeInit, BooksInit DEF TaskInductive

LEMMA TaskInductiveStep == TaskInductive /\ [Next]_vars => TaskInductive'
<1> SUFFICES ASSUME TaskInductive, [Next]_vars PROVE TaskInductive'
  OBVIOUS
<1>1. CASE UNCHANGED vars
  BY <1>1, TaskStutter
<1>2. ASSUME NEW w \in Workers, Step(w) \/ TimesOut(w) \/ WorkerKilled(w)
      PROVE  TaskInductive'
  <2>1. TaskTypeOK' /\ PhasesOK' /\ AttemptsOK' /\ RetriesAsAsked'
    BY <1>2, TaskTypeStep, PhasesStep, BooksStep DEF TaskInductive
  <2>2. SameLock' => ArchiveOK'
    BY <1>2, CacheUnderStep, ArchiveStep, ArchiveStutter
       DEF TaskInductive, TaskTypeOK, SameLock
  <2> QED
    BY <2>1, <2>2 DEF TaskInductive
<1> QED
  BY <1>1, <1>2 DEF Next

-----------------------------------------------------------------------------
(* The theorems.                                                           *)

(* The inductive invariant holds: whatever fails, times out or is killed,  *)
(* the state stays one the code is written for.                            *)
THEOREM TaskInvariant == Spec => []TaskInductive
BY TaskInductiveInit, TaskInductiveStep, PTL DEF Spec

(* Every variable keeps its type: no attempt beyond those that retries     *)
(* gives (_execute, for attempt in range(1, retries + 1)) and no try of    *)
(* the connection beyond reconnection_retries + 1 (_ssh_retry).            *)
THEOREM TaskTypeCorrect == Spec => []TaskTypeOK
<1>1. TaskInductive => TaskTypeOK
  BY DEF TaskInductive
<1> QED
  BY <1>1, TaskInvariant, PTL

(* For any retries and until, the module runs once for each answer and     *)
(* each connection lost under it, every answer but the last is told as a   *)
(* retry, and the number of attempts in the result is the right one.       *)
THEOREM BooksKept == Spec => []RetriesAsAsked
<1>1. TaskInductive => RetriesAsAsked
  BY DEF TaskInductive
<1> QED
  BY <1>1, TaskInvariant, PTL

(* When one lock is taken for the module by all, whatever is interrupted   *)
(* or killed between two steps, no worker goes on with less than the whole *)
(* module and none finds its -part file gone (_find_module_utils).         *)
THEOREM ModuleWhole ==
  ASSUME SameLock
  PROVE  Spec => []WholeModule
<1>1. TaskInductive => WholeModule
  BY SameLock DEF TaskInductive, ArchiveOK, WholeModule
<1> QED
  BY <1>1, TaskInvariant, PTL

=============================================================================
