------------------------- MODULE FreeDispatch_proofs -------------------------
(***************************************************************************)
(* Proofs about FreeDispatch for every order of hosts, number of tasks and *)
(* forks, every play and every fault: the inductive invariant, and what    *)
(* follows from it: a host executes one task at a time, no task oversteps  *)
(* its throttle, and a loop that ends by itself has served every host.     *)
(***************************************************************************)
EXTENDS FreeDispatch, StrategyBase_proofs

-----------------------------------------------------------------------------
(* Induction, as statements about sets.                                    *)

(* A family of finite sets has a member with no smaller one.               *)
LEMMA LeastSet ==
  ASSUME NEW F, F # {}, \A S \in F : IsFiniteSet(S)
  PROVE  \E S \in F : \A T \in F : T \subseteq S => T = S
<1> DEFINE U == UNION F
<1>1. IsWellFoundedOn(StrictSubsetOrdering(U), FiniteSubsetsOf(U))
  BY FS_StrictSubsetOrderingWellFounded
<1>2. F \subseteq FiniteSubsetsOf(U)
  BY DEF FiniteSubsetsOf
<1> HIDE DEF U
<1>3. PICK S \in F : \A T \in F : <<T, S>> \notin StrictSubsetOrdering(U)
  BY <1>1, <1>2, WFMin
<1>4. \A T \in F : T \in SUBSET U
  BY <1>2 DEF FiniteSubsetsOf
<1> QED
  BY <1>3, <1>4 DEF StrictSubsetOrdering

(* A set with 0 and the successor of each of its numbers has every number. *)
LEMMA NumbersInSet ==
  ASSUME NEW T, 0 \in T, \A n \in Nat : n \in T => n + 1 \in T
  PROVE  \A n \in Nat : n \in T
<1> DEFINE F == {1..n : n \in Nat \ T}
<1>1. SUFFICES ASSUME NEW k \in Nat, k \notin T PROVE FALSE
  OBVIOUS
<1>2. 1..k \in F
  BY <1>1
<1>3. \A S \in F : IsFiniteSet(S)
  <2>1. \A n \in Nat : IsFiniteSet(1..n)
    BY FS_Interval
  <2> QED
    BY <2>1
<1> HIDE DEF F
<1>4. PICK S \in F : \A R \in F : R \subseteq S => R = S
  BY <1>2, <1>3, LeastSet
<1> USE DEF F
<1>5. PICK n \in Nat \ T : S = 1..n
  OBVIOUS
<1>6. n - 1 \in Nat \ T
  BY <1>5
<1>7. 1..(n - 1) \in F /\ 1..(n - 1) \subseteq 1..n
  BY <1>6
<1>8. 1..(n - 1) = 1..n
  BY <1>4, <1>5, <1>7
<1> QED
  BY <1>5, <1>6, <1>8

-----------------------------------------------------------------------------
(* The hosts of a pass.                                                    *)

(* Reachable is what its recursive definition says.                        *)
LEMMA ReachableUnfolds ==
  \A n \in 0..Len(HostOrder) :
    Reachable[n] = IF n = 0 THEN <<>>
                   ELSE IF HostOrder[n] \in unreachable THEN Reachable[n - 1]
                        ELSE Append(Reachable[n - 1], HostOrder[n])
<1> DEFINE N == Len(HostOrder)
           Step(g, i) == IF i = 0 THEN <<>>
                         ELSE IF HostOrder[i] \in unreachable THEN g[i - 1]
                              ELSE Append(g[i - 1], HostOrder[i])
           Upto == {n \in Nat : n <= N => \E g : /\ g = [i \in 0..n |-> g[i]]
                                                /\ \A i \in 0..n : g[i] = Step(g, i)}
<1>1. N \in Nat
  BY HostOrderAssumption
<1>2. 0 \in Upto
  <2> DEFINE g == [i \in 0..0 |-> <<>>]
  <2>1. g = [i \in 0..0 |-> g[i]] /\ \A i \in 0..0 : g[i] = Step(g, i)
    OBVIOUS
  <2> HIDE DEF g
  <2> QED
    BY <2>1
<1> HIDE DEF N, Step
<1>3. ASSUME NEW n \in Nat, n \in Upto, n + 1 <= N
      PROVE  \E g : g = [i \in 0..(n + 1) |-> g[i]] /\ \A i \in 0..(n + 1) : g[i] = Step(g, i)
  <2>1. PICK g : g = [i \in 0..n |-> g[i]] /\ \A i \in 0..n : g[i] = Step(g, i)
    BY <1>1, <1>3
  <2> DEFINE e == [i \in 0..(n + 1) |-> IF i = n + 1 THEN Step(g, n + 1) ELSE g[i]]
  <2>2. e = [i \in 0..(n + 1) |-> e[i]]
    OBVIOUS
  <2>3. \A i \in 0..n : e[i] = g[i]
    OBVIOUS
  <2>4. e[n + 1] = Step(g, n + 1)
    OBVIOUS
  <2> HIDE DEF e
  <2>5. \A i \in 0..(n + 1) : i = 0 \/ i - 1 \in 0..n
    OBVIOUS
  <2>6. \A i \in 0..(n + 1) : Step(e, i) = Step(g, i)
    BY <2>3, <2>5 DEF Step
  <2>7. \A i \in 0..(n + 1) : e[i] = Step(e, i)
    BY <2>1, <2>3, <2>4, <2>6
  <2> QED
    BY <2>2, <2>7
<1>4. \A n \in Nat : n \in Upto => n + 1 \in Upto
  BY <1>3
<1> HIDE DEF Upto
<1>5. N \in Upto
  BY <1>1, <1>2, <1>4, NumbersInSet
<1>6. PICK g : g = [i \in 0..N |-> g[i]] /\ \A i \in 0..N : g[i] = Step(g, i)
  BY <1>1, <1>5 DEF Upto
<1>7. g = [i \in 0..N |-> Step(g, i)]
  BY <1>6
<1>8. Reachable = [i \in 0..N |-> Step(Reachable, i)]
  <2>1. Reachable = CHOOSE f : f = [i \in 0..N |-> Step(f, i)]
    BY DEF Reachable, N, Step
  <2> QED
    BY <1>7, <2>1
<1> QED
  BY <1>8 DEF N, Step

(* get_hosts_left lists the hosts that can be reached, and only those.     *)
LEMMA HostsLeftLists ==
  /\ HostsLeft \in Seq(Hosts)
  /\ \A h \in Hosts : h \notin unreachable <=> \E i \in 1..Len(HostsLeft) : HostsLeft[i] = h
<1> DEFINE N == Len(HostOrder)
           Lists(s, n) == \A h \in Hosts : (\E i \in 1..Len(s) : s[i] = h)
                            <=> h \notin unreachable /\ \E i \in 1..n : HostOrder[i] = h
           Upto == {n \in Nat : n <= N => Reachable[n] \in Seq(Hosts) /\ Lists(Reachable[n], n)}
<1>1. N \in Nat /\ \A i \in 1..N : HostOrder[i] \in Hosts
  BY HostOrderAssumption
<1>2. 0 \in Upto
  <2>1. Reachable[0] = <<>>
    BY <1>1, ReachableUnfolds
  <2>2. <<>> \in Seq(Hosts) /\ Lists(<<>>, 0)
    OBVIOUS
  <2> HIDE DEF Lists
  <2> QED
    BY <2>1, <2>2
<1>3. ASSUME NEW n \in Nat, n \in Upto, n + 1 <= N
      PROVE  Reachable[n + 1] \in Seq(Hosts) /\ Lists(Reachable[n + 1], n + 1)
  <2> HIDE DEF Lists
  <2>1. /\ Reachable[n] \in Seq(Hosts) /\ Lists(Reachable[n], n)
        /\ HostOrder[n + 1] \in Hosts
    BY <1>1, <1>3
  <2> USE DEF Lists
  <2>2. /\ n + 1 \in 0..N /\ n + 1 # 0 /\ (n + 1) - 1 = n
        /\ \A i \in 1..(n + 1) : i \in 1..n \/ i = n + 1
        /\ \A i \in 1..n : i \in 1..(n + 1)
        /\ n + 1 \in 1..(n + 1)
    BY <1>1, <1>3
  <2>3. CASE HostOrder[n + 1] \in unreachable
    <3>1. Reachable[n + 1] = Reachable[n]
      BY <2>2, <2>3, ReachableUnfolds
    <3>2. Lists(Reachable[n], n + 1)
      BY <2>1, <2>2, <2>3
    <3> QED
      BY <2>1, <3>1, <3>2
  <2>4. CASE HostOrder[n + 1] \notin unreachable
    <3> DEFINE s == Reachable[n]
               e == Append(s, HostOrder[n + 1])
    <3>1. Reachable[n + 1] = e
      BY <2>2, <2>4, ReachableUnfolds
    <3>2. /\ e \in Seq(Hosts) /\ Len(e) = Len(s) + 1 /\ Len(s) \in Nat
          /\ \A i \in 1..Len(s) : e[i] = s[i]
          /\ e[Len(s) + 1] = HostOrder[n + 1]
      BY <2>1, AppendPositions
    <3> HIDE DEF e, s
    <3>3. /\ \A i \in 1..Len(e) : i \in 1..Len(s) \/ i = Len(s) + 1
          /\ \A i \in 1..Len(s) : i \in 1..Len(e)
          /\ Len(s) + 1 \in 1..Len(e)
      BY <3>2
    <3>4. ASSUME NEW h \in Hosts
          PROVE  (\E i \in 1..Len(e) : e[i] = h)
                   <=> (\E i \in 1..Len(s) : s[i] = h) \/ h = HostOrder[n + 1]
      BY <3>2, <3>3
    <3>5. ASSUME NEW h \in Hosts
          PROVE  (\E i \in 1..(n + 1) : HostOrder[i] = h)
                   <=> (\E i \in 1..n : HostOrder[i] = h) \/ h = HostOrder[n + 1]
      BY <2>2
    <3>6. Lists(e, n + 1)
      BY <2>1, <2>4, <3>4, <3>5 DEF s
    <3> QED
      BY <3>1, <3>2, <3>6
  <2> QED
    BY <2>3, <2>4
<1>4. \A n \in Nat : n \in Upto => n + 1 \in Upto
  BY <1>3
<1> HIDE DEF Upto
<1>5. N \in Upto
  BY <1>1, <1>2, <1>4, NumbersInSet
<1>6. HostsLeft \in Seq(Hosts) /\ Lists(HostsLeft, N)
  BY <1>1, <1>5 DEF Upto, HostsLeft
<1> QED
  BY <1>6, HostOrderAssumption

-----------------------------------------------------------------------------
(* Types, and what only moves the loop.                                    *)

LEMMA HostTypes ==
  ASSUME FreeTypeOK, lastHost < Len(hostsLeft)
  PROVE  lastHost + 1 \in 1..Len(hostsLeft) /\ Host = hostsLeft[lastHost + 1] /\ Host \in Hosts
<1>1. Len(hostsLeft) \in Nat /\ lastHost \in Nat
  BY DEF FreeTypeOK
<1>2. lastHost + 1 \in 1..Len(hostsLeft)
  BY <1>1
<1> QED
  BY <1>2 DEF FreeTypeOK, Host

LEMMA SettingTypes ==
  ASSUME FreeTypeOK
  PROVE  setting.throttle \in Nat
BY SettingsAssumption DEF FreeTypeOK

LEMMA BaseHolds == Inductive => FreeTypeOK /\ BaseOK
BY DEF Inductive, FreeTypeOK, BaseOK

(* A host without work does not get any, unless it is given it.            *)
LEMMA NoWorkStays ==
  ASSUME FreeTypeOK, NEW h \in Hosts, ~Work(h), over \subseteq over',
         h \in blocked' => h \in blocked,
         taken' \in [Hosts -> 0..NumTasks], taken'[h] >= taken[h]
  PROVE  ~Work(h)'
<1>1. taken[h] \in Nat /\ taken'[h] \in Nat /\ NumTasks \in Nat
  BY SizesAssumption DEF FreeTypeOK
<1> QED
  BY <1>1 DEF Work, HasTask

(* A step that takes a task for a host, if any, and no more of the base.   *)
LEMMA TurnFrame ==
  ASSUME Inductive, UNCHANGED <<baseVars, setting, workersFree>>,
         pc # "scan", pc' # "scan",
         taken' \in [Hosts -> 0..NumTasks], \A h \in Hosts : taken'[h] >= taken[h]
  PROVE  BaseOK' /\ HostsOK' /\ ThrottleOK' /\ FreeCounts'
<1>1. UNCHANGED <<poolVars, finalQ, rthread, results, cache, pending, blocked, unreachable, proc>>
  BY DEF baseVars, poolVars, strategyVars
<1>2. BaseOK /\ FreeTypeOK
  BY BaseHolds
<1>3. BaseOK'
  BY <1>1, <1>2, BaseFrame DEF FreeTypeOK, BaseTypeOK
<1>4. \A j \in Jobs : proc'[j] # "none" => TaskOf(j) <= taken'[HostOf(j)]
  <2>1. \A j \in Jobs : /\ TaskOf(j) \in Nat /\ taken[HostOf(j)] \in Nat
                        /\ taken'[HostOf(j)] \in Nat /\ taken'[HostOf(j)] >= taken[HostOf(j)]
    BY <1>2, JobParts, SizesAssumption DEF FreeTypeOK
  <2> QED
    BY <1>1, <2>1 DEF Inductive, HostsOK
<1>5. HostsOK'
  BY <1>1, <1>4 DEF Inductive, HostsOK
<1>6. ThrottleOK'
  BY <1>1 DEF Inductive, ThrottleOK, Alive
<1>7. FreeCounts'
  BY <1>1 DEF Inductive, FreeCounts
<1> QED
  BY <1>3, <1>5, <1>6, <1>7

LEMMA InductiveParts ==
  ASSUME FreeTypeOK', BaseOK', PassOK', HostsOK', ThrottleOK', WorkOK', FreeCounts'
  PROVE  Inductive'
BY DEF Inductive, BaseOK

-----------------------------------------------------------------------------
(* The steps of a pass.                                                    *)

LEMMA StartPassKeeps == Inductive /\ StartPass => Inductive'
<1> SUFFICES ASSUME Inductive, StartPass PROVE Inductive'
  OBVIOUS
<1>1. /\ pc = "pass" /\ pc' = "host" /\ hostsLeft' = HostsLeft
      /\ startingHost' = lastHost /\ lastHost' = lastHost /\ workToDo' = FALSE
      /\ UNCHANGED <<baseVars, setting, workersFree, taken, over, unreachable>>
  BY DEF StartPass, Goto, baseVars, strategyVars
<1>2. FreeTypeOK /\ startingHost' = lastHost'
  BY <1>1 DEF Inductive
<1>3. BaseOK' /\ HostsOK' /\ ThrottleOK' /\ FreeCounts'
  BY <1>1, <1>2, TurnFrame, SizesAssumption DEF FreeTypeOK
<1>4. FreeTypeOK'
  BY <1>1, <1>2, <1>3, HostsLeftLists DEF FreeTypeOK, BaseOK, PCs
<1>5. PassOK'
  BY <1>1, <1>2, HostsLeftLists DEF PassOK
<1>6. lastHost \in Nat
  BY <1>2 DEF FreeTypeOK
<1>7. \A i \in Nat : ~Passed(i)'
  BY <1>1, <1>6 DEF Passed
<1>8. \A i \in 1..Len(hostsLeft') : i - 1 \in Nat
  BY <1>4 DEF FreeTypeOK
<1>9. WorkOK'
  BY <1>1, <1>7, <1>8 DEF WorkOK
<1> QED
  BY <1>3, <1>4, <1>5, <1>9, InductiveParts

(* The ends of the passes and of the loop.                                 *)
LEMMA EndsKeep == Inductive /\ (EndPasses \/ OutOfRange \/ DrainStops \/ Finish) => Inductive'
<1> SUFFICES ASSUME Inductive, EndPasses \/ OutOfRange \/ DrainStops \/ Finish PROVE Inductive'
  OBVIOUS
<1>1. /\ pc \in {"pass", "host", "drain", "wait"} /\ pc' \in {"wait", "crashed", "pass", "done"}
      /\ UNCHANGED <<baseVars, setting, hostsLeft, lastHost, startingHost, workToDo,
                     workersFree, taken, over, blocked, unreachable>>
  BY DEF EndPasses, OutOfRange, DrainStops, Finish, Goto, baseVars, strategyVars
<1>2. FreeTypeOK /\ WorkOK
  BY DEF Inductive
<1>3. BaseOK' /\ HostsOK' /\ ThrottleOK' /\ FreeCounts'
  BY <1>1, <1>2, TurnFrame, SizesAssumption DEF FreeTypeOK
<1>4. FreeTypeOK'
  BY <1>1, <1>2, <1>3 DEF FreeTypeOK, BaseOK, PCs
<1>5. PassOK'
  BY <1>1 DEF PassOK, InPass
<1>6. Idle => Idle'
  BY <1>1 DEF Idle, Work, HasTask
<1>7. WorkOK'
  <2>1. CASE EndPasses
    <3>1. pc = "pass" /\ pc' = "wait" /\ (~workToDo \/ HostsLeft = <<>>)
      BY <2>1 DEF EndPasses, Goto
    <3>2. CASE HostsLeft = <<>>
      <4>1. \A h \in Hosts : h \in unreachable
        BY <3>2, HostsLeftLists
      <4> QED
        BY <1>6, <3>1, <4>1 DEF WorkOK, InPass, Idle
    <3>3. CASE ~workToDo
      BY <1>2, <1>6, <3>1, <3>3 DEF WorkOK, InPass
    <3> QED
      BY <3>1, <3>2, <3>3
  <2>2. CASE OutOfRange
    BY <2>2 DEF OutOfRange, Goto, WorkOK, InPass
  <2>3. CASE DrainStops
    BY <1>1, <1>2, <1>6, <2>3 DEF DrainStops, Goto, WorkOK, InPass
  <2>4. CASE Finish
    BY <1>1, <1>2, <1>6, <2>4 DEF Finish, Goto, WorkOK, InPass
  <2> QED
    BY <2>1, <2>2, <2>3, <2>4
<1> QED
  BY <1>3, <1>4, <1>5, <1>7, InductiveParts

-----------------------------------------------------------------------------
(* The turn of a host.                                                     *)

LEMMA TurnTypes ==
  ASSUME Inductive, Turn
  PROVE  /\ Host \in Hosts /\ Host \notin unreachable
         /\ lastHost + 1 \in 1..Len(hostsLeft) /\ Host = hostsLeft[lastHost + 1]
         /\ lastHost < Len(hostsLeft) /\ startingHost < Len(hostsLeft)
         /\ taken[Host] \in Nat /\ taken[Host] <= NumTasks /\ NumTasks \in Nat
<1>1. FreeTypeOK /\ PassOK /\ pc = "host" /\ lastHost < Len(hostsLeft)
  BY DEF Inductive, Turn
<1>2. /\ Host \in Hosts /\ lastHost + 1 \in 1..Len(hostsLeft) /\ Host = hostsLeft[lastHost + 1]
  BY <1>1, HostTypes
<1>3. Host \notin unreachable
  BY <1>1, <1>2 DEF PassOK, InPass
<1>4. startingHost < Len(hostsLeft)
  BY <1>1 DEF PassOK
<1>5. taken[Host] \in 0..NumTasks
  BY <1>1, <1>2 DEF FreeTypeOK
<1> QED
  BY <1>1, <1>2, <1>3, <1>4, <1>5, SizesAssumption

(* A taken task moves the host on in its list, and it was work.            *)
LEMMA TakeTypes ==
  ASSUME Inductive, TakeTask
  PROVE  /\ taken' \in [Hosts -> 0..NumTasks] /\ \A h \in Hosts : taken'[h] >= taken[h]
         /\ \A h \in Hosts : h # Host => taken'[h] = taken[h]
         /\ taken'[Host] = taken[Host] + 1 /\ NextTask \in Tasks
         /\ workToDo' = TRUE /\ Host \notin blocked
<1>1. /\ Host \in Hosts /\ taken[Host] \in Nat /\ NumTasks \in Nat
      /\ taken \in [Hosts -> 0..NumTasks]
  BY TurnTypes DEF TakeTask, Inductive, FreeTypeOK
<1>2. /\ taken' = [taken EXCEPT ![Host] = taken[Host] + 1] /\ taken[Host] < NumTasks
      /\ HasTask(Host) /\ Host \notin blocked
  BY DEF TakeTask, CanTake, HasTask, NextTask, IsBlocked
<1>3. workToDo' = TRUE
  BY <1>2 DEF TakeTask, Turn, Work
<1>4. NextTask \in Tasks
  BY <1>1, <1>2 DEF NextTask, Tasks
<1>5. \A h \in Hosts : taken[h] \in Nat
  BY <1>1
<1> HIDE DEF Host
<1>6. taken' \in [Hosts -> 0..NumTasks]
  BY <1>1, <1>2
<1>7. \A h \in Hosts : taken'[h] = IF h = Host THEN taken[h] + 1 ELSE taken[h]
  BY <1>1, <1>2
<1> QED
  BY <1>1, <1>2, <1>3, <1>4, <1>5, <1>6, <1>7

LEMMA TurnsKeep == Inductive /\ (PassOver \/ Throttled \/ SkipRole \/ Meta) => Inductive'
<1> SUFFICES ASSUME Inductive, PassOver \/ Throttled \/ SkipRole \/ Meta PROVE Inductive'
  OBVIOUS
<1>1. /\ Turn /\ pc = "host" /\ pc' \in {"next", "drain", "host"}
      /\ UNCHANGED <<baseVars, setting, hostsLeft, lastHost, startingHost, workersFree,
                     blocked, unreachable>>
  BY DEF PassOver, Throttled, SkipRole, Meta, TakeTask, Turn, Goto, baseVars, strategyVars
<1>2. /\ Host \in Hosts /\ Host = hostsLeft[lastHost + 1]
      /\ lastHost < Len(hostsLeft) /\ startingHost < Len(hostsLeft)
  BY <1>1, TurnTypes
<1>3. FreeTypeOK /\ PassOK /\ WorkOK
  BY DEF Inductive
<1>4. /\ taken' \in [Hosts -> 0..NumTasks] /\ \A h \in Hosts : taken'[h] >= taken[h]
      /\ over \subseteq over' /\ over' \subseteq Hosts
  <2>1. CASE PassOver \/ Throttled
    BY <1>3, <2>1, SizesAssumption DEF PassOver, Throttled, FreeTypeOK
  <2>2. CASE SkipRole \/ Meta
    BY <1>2, <1>3, <2>2, TakeTypes DEF SkipRole, Meta, FreeTypeOK
  <2> QED
    BY <2>1, <2>2
<1>5. BaseOK' /\ HostsOK' /\ ThrottleOK' /\ FreeCounts'
  BY <1>1, <1>4, TurnFrame
<1>6. workToDo' \in BOOLEAN
  BY <1>1, <1>3 DEF Turn, FreeTypeOK
<1>7. FreeTypeOK'
  BY <1>1, <1>3, <1>4, <1>5, <1>6 DEF FreeTypeOK, BaseOK, PCs
<1>8. PassOK'
  BY <1>1, <1>2, <1>3 DEF PassOK, InPass
<1>9. WorkOK'
  <2>1. CASE PassOver
    <3>1. /\ pc' = "next" /\ workToDo' = (workToDo \/ Work(Host))
          /\ UNCHANGED <<taken, over>>
      BY <2>1 DEF PassOver, Turn, Goto
    <3>2. ASSUME ~workToDo', NEW i \in 1..Len(hostsLeft), Passed(i - 1)'
          PROVE  ~Work(hostsLeft[i])'
      <4>1. ~workToDo /\ ~Work(Host)
        BY <3>1, <3>2
      <4>2. \A h \in Hosts : Work(h)' <=> Work(h)
        BY <1>1, <3>1 DEF Work, HasTask
      <4>3. hostsLeft[i] \in Hosts
        BY <1>3 DEF FreeTypeOK
      <4>4. CASE i - 1 = lastHost
        <5>1. i = lastHost + 1
          BY <1>3, <4>4 DEF FreeTypeOK
        <5> QED
          BY <1>1, <1>2, <4>1, <4>2, <5>1
      <4>5. CASE i - 1 # lastHost
        <5>1. Passed(i - 1)
          BY <1>1, <3>2, <4>5 DEF Passed
        <5> QED
          BY <1>1, <1>3, <4>1, <4>2, <4>3, <5>1 DEF WorkOK, InPass
      <4> QED
        BY <4>4, <4>5
    <3> QED
      BY <1>1, <3>1, <3>2 DEF WorkOK
  <2>2. CASE Throttled
    <3>1. workToDo' /\ pc' = "drain"
      BY <2>2 DEF Throttled, CanTake, Turn, Work, Goto
    <3> QED
      BY <3>1 DEF WorkOK, InPass
  <2>3. CASE SkipRole \/ Meta
    <3>1. workToDo' /\ pc' \in {"host", "next"}
      BY <1>1, <2>3, TakeTypes DEF SkipRole, Meta, Goto
    <3> QED
      BY <3>1 DEF WorkOK, InPass
  <2> QED
    BY <2>1, <2>2, <2>3
<1> QED
  BY <1>5, <1>7, <1>8, <1>9, InductiveParts

(* As many workers of a task live as there are slots with one, at most.    *)
LEMMA AliveInSlots ==
  ASSUME BaseTypeOK, SlotsOK, NEW t \in Tasks
  PROVE  Cardinality(Alive(t)) <= Cardinality(SameTasks(t))
<1> DEFINE f == [j \in Alive(t) |-> CHOOSE s \in SameTasks(t) : workers[s] = j]
<1>1. ASSUME NEW j \in Alive(t)
      PROVE  \E s \in SameTasks(t) : workers[s] = j
  <2>1. j \in Jobs /\ TaskOf(j) = t /\ proc[j] \in Living /\ j # NoJob
    BY NoJobAssumption DEF Alive
  <2>2. PICK s \in Slots : workers[s] = j
    BY <2>1, RewindTypes DEF SlotsOK
  <2> QED
    BY <2>1, <2>2 DEF SameTasks, IsAlive
<1>2. \A j \in Alive(t) : f[j] \in SameTasks(t) /\ workers[f[j]] = j
  BY <1>1
<1>3. f \in Injection(Alive(t), SameTasks(t))
  BY <1>2 DEF Injection, IsInjective
<1>4. IsFiniteSet(Slots)
  BY FS_Interval, SizesAssumption DEF Slots
<1>5. IsFiniteSet(SameTasks(t))
  BY <1>4, FS_Subset DEF SameTasks
<1> HIDE DEF f
<1> QED
  BY <1>3, <1>5, FS_Injection

LEMMA GiveKeeps == Inductive /\ Give => Inductive'
<1> SUFFICES ASSUME Inductive, Give PROVE Inductive'
  OBVIOUS
<1>1. /\ Turn /\ TakeTask /\ pc = "host" /\ pc' = "scan" /\ blocked' = blocked \cup {Host}
      /\ UNCHANGED <<poolVars, finalQ, rthread, results, cache, pending, unreachable, over, proc,
                     setting, hostsLeft, lastHost, startingHost, workersFree>>
  BY DEF Give, TakeTask, Turn, Goto, poolVars
<1>2. /\ Host \in Hosts /\ Host \notin unreachable /\ Host = hostsLeft[lastHost + 1]
      /\ lastHost < Len(hostsLeft) /\ startingHost < Len(hostsLeft) /\ taken[Host] \in Nat
  BY <1>1, TurnTypes
<1>3. /\ taken' \in [Hosts -> 0..NumTasks] /\ \A h \in Hosts : taken'[h] >= taken[h]
      /\ taken'[Host] = taken[Host] + 1 /\ NextTask \in Tasks
      /\ workToDo' = TRUE /\ Host \notin blocked
  BY <1>1, TakeTypes
<1>4. FreeTypeOK /\ BaseOK /\ HostsOK /\ PassOK /\ SlotsOK /\ BaseTypeOK /\ ThrottleOK /\ FreeCounts
  BY BaseHolds DEF Inductive, BaseOK
<1>5. BaseOK'
  BY <1>1, <1>2, <1>4, BaseFrame DEF BaseTypeOK
<1>6. FreeTypeOK'
  BY <1>1, <1>3, <1>4, <1>5 DEF FreeTypeOK, BaseOK, PCs
<1>7. PassOK' /\ WorkOK' /\ FreeCounts'
  BY <1>1, <1>2, <1>3, <1>4 DEF PassOK, WorkOK, InPass, FreeCounts
<1>8. Host' = Host /\ Job' = <<Host, NextTask>>
  BY <1>1, <1>3 DEF Host, Job, NextTask
<1>9. Job' \in Jobs /\ HostOf(Job') = Host /\ TaskOf(Job') = NextTask
  BY <1>2, <1>3, <1>8 DEF Jobs, HostOf, TaskOf
<1>10. \A j \in Jobs : proc[j] # "none" => TaskOf(j) <= taken'[HostOf(j)]
  <2>1. \A j \in Jobs : /\ TaskOf(j) \in Nat /\ taken[HostOf(j)] \in Nat
                        /\ taken'[HostOf(j)] \in Nat /\ taken'[HostOf(j)] >= taken[HostOf(j)]
    BY <1>3, <1>4, JobParts, SizesAssumption DEF FreeTypeOK
  <2> QED
    BY <1>4, <2>1 DEF HostsOK
<1>11. proc[Job'] = "none"
  BY <1>2, <1>4, <1>9 DEF HostsOK, NextTask
<1>12. HostsOK'
  <2>1. \A j \in cache : HostOf(j) # Host
    BY <1>1, <1>2, <1>3, <1>4 DEF HostsOK
  <2>2. \A h \in Hosts : h \in blocked' <=> (\E j \in cache : HostOf(j) = h) \/ h = Host
    BY <1>1, <1>4 DEF HostsOK
  <2>3. \A j \in cache : HostOf(j) \notin unreachable
    BY <1>4 DEF HostsOK
  <2>4. \A j, k \in cache : HostOf(j) = HostOf(k) => j = k
    BY <1>4 DEF HostsOK
  <2> HIDE DEF Host, Job
  <2> QED
    BY <1>1, <1>8, <1>9, <1>10, <1>11, <2>1, <2>2, <2>3, <2>4 DEF HostsOK
<1>13. ThrottleOK'
  <2>1. setting.throttle > 0 => Cardinality(Alive(NextTask)) < setting.throttle
    <3>1. /\ Cardinality(Alive(NextTask)) <= Cardinality(SameTasks(NextTask))
          /\ Cardinality(Alive(NextTask)) \in Nat
      BY <1>3, <1>4, AliveInSlots, AliveBound
    <3>2. setting.throttle > 0 => ~(Cardinality(SameTasks(NextTask)) >= setting.throttle)
      BY <1>1 DEF TakeTask, ThrottledOut
    <3>3. IsFiniteSet(SameTasks(NextTask))
      <4>1. IsFiniteSet(Slots)
        BY FS_Interval, SizesAssumption DEF Slots
      <4> QED
        BY <4>1, FS_Subset DEF SameTasks
    <3>4. Cardinality(SameTasks(NextTask)) \in Nat /\ setting.throttle \in Nat
      BY <1>4, <3>3, FS_CardinalityType, SettingTypes
    <3> QED
      BY <3>1, <3>2, <3>4
  <2>2. \A t : Alive(t)' = Alive(t)
    BY <1>1 DEF Alive
  <2> QED
    BY <1>1, <1>4, <1>9, <2>1, <2>2 DEF ThrottleOK
<1> QED
  BY <1>5, <1>6, <1>7, <1>12, <1>13, InductiveParts

-----------------------------------------------------------------------------
(* Queueing the task.                                                      *)

(* The job a slot is searched for.                                         *)
LEMMA JobTypes ==
  ASSUME Inductive, pc = "scan"
  PROVE  /\ Job \in Jobs /\ Job = <<Host, taken[Host]>> /\ HostOf(Job) = Host /\ TaskOf(Job) = taken[Host]
         /\ Host \in Hosts /\ Host \notin unreachable /\ proc[Job] = "none"
         /\ \A j \in cache : HostOf(j) # Host
         /\ lastHost < Len(hostsLeft) /\ startingHost < Len(hostsLeft)
<1>1. FreeTypeOK /\ PassOK /\ HostsOK /\ lastHost < Len(hostsLeft) /\ startingHost < Len(hostsLeft)
  BY DEF Inductive, PassOK
<1>2. /\ Host \in Hosts /\ lastHost + 1 \in 1..Len(hostsLeft) /\ Host = hostsLeft[lastHost + 1]
  BY <1>1, HostTypes
<1>3. Host \notin unreachable
  BY <1>1, <1>2 DEF PassOK, InPass
<1>4. Job = <<Host, taken[Host]>>
  BY DEF Job
<1> HIDE DEF Host
<1>5. HostOf(Job) = Host /\ TaskOf(Job) = taken[Host]
  BY <1>4 DEF HostOf, TaskOf
<1> QED
  BY <1>1, <1>2, <1>3, <1>4, <1>5 DEF HostsOK

LEMMA QueueTaskKeeps == Inductive /\ QueueTask => Inductive'
<1> SUFFICES ASSUME Inductive, QueueTask PROVE Inductive'
  OBVIOUS
<1>1. /\ pc = "scan" /\ pc' = "next" /\ (StartWorker(Job) \/ ForkFails(Job))
      /\ workersFree' = workersFree - 1
      /\ UNCHANGED <<setting, hostsLeft, lastHost, startingHost, workToDo, taken, over>>
  BY DEF QueueTask, Goto, FreeAfterQueueing
<1>2. FreeTypeOK /\ BaseOK /\ BaseTypeOK /\ HostsOK /\ PassOK /\ WorkOK /\ ThrottleOK /\ FreeCounts
  BY BaseHolds DEF Inductive, BaseOK
<1> DEFINE job == Job
<1>3. /\ job \in Jobs /\ HostOf(job) = Host /\ TaskOf(job) = taken[Host]
      /\ Host \in Hosts /\ Host \notin unreachable /\ proc[job] = "none"
      /\ \A j \in cache : HostOf(j) # Host
      /\ lastHost < Len(hostsLeft) /\ startingHost < Len(hostsLeft)
  BY <1>1, JobTypes
<1>4. StartWorker(job) \/ ForkFails(job)
  BY <1>1
<1> HIDE DEF job
<1>5. /\ BaseOK' /\ cache' = cache \cup {job} /\ job \notin cache
      /\ \A k \in Jobs : k # job => proc'[k] = proc[k]
      /\ proc'[job] # "none" /\ UNCHANGED <<blocked, unreachable>>
  BY <1>2, <1>3, <1>4, BaseQueue
<1>6. FreeTypeOK'
  BY <1>1, <1>2, <1>5 DEF FreeTypeOK, BaseOK, PCs
<1>7. PassOK'
  BY <1>1, <1>2, <1>3, <1>5 DEF PassOK, InPass
<1>8. WorkOK'
  BY <1>1, <1>2 DEF WorkOK, InPass
<1>9. HostsOK'
  <2>1. \A j \in Jobs : proc'[j] # "none" => TaskOf(j) <= taken'[HostOf(j)]
    <3>1. taken[Host] \in Nat
      BY <1>2, <1>3, SizesAssumption DEF FreeTypeOK
    <3> QED
      BY <1>1, <1>2, <1>3, <1>5, <3>1 DEF HostsOK
  <2>2. \A j, k \in cache' : HostOf(j) = HostOf(k) => j = k
    BY <1>2, <1>3, <1>5 DEF HostsOK
  <2>3. \A h \in Hosts : h \in blocked' <=> \E j \in cache' : HostOf(j) = h
    BY <1>1, <1>2, <1>3, <1>5 DEF HostsOK
  <2>4. \A j \in cache' : HostOf(j) \notin unreachable'
    BY <1>2, <1>3, <1>5 DEF HostsOK
  <2> QED
    BY <1>1, <2>1, <2>2, <2>3, <2>4 DEF HostsOK
<1>10. ThrottleOK'
  <2>1. ASSUME setting.throttle > 0, NEW t \in Tasks
        PROVE  Cardinality(Alive(t)') <= setting.throttle
    <3>1. IsFiniteSet(Alive(t)) /\ Cardinality(Alive(t)) \in Nat /\ setting.throttle \in Nat
      BY <1>2, AliveBound, SettingTypes DEF BaseOK
    <3>2. /\ Cardinality(Alive(t)) <= setting.throttle
          /\ TaskOf(job) = t => Cardinality(Alive(t)) < setting.throttle
      BY <1>1, <1>2, <2>1 DEF ThrottleOK, job
    <3>3. CASE Alive(t)' = Alive(t)
      BY <3>2, <3>3
    <3>4. CASE TaskOf(job) = t /\ Alive(t)' = Alive(t) \cup {job}
      <4>1. Cardinality(Alive(t)') <= Cardinality(Alive(t)) + 1
        BY <3>1, <3>4, FS_AddElement
      <4>2. Cardinality(Alive(t)') \in Nat
        BY <3>1, <3>4, FS_AddElement, FS_CardinalityType
      <4> QED
        BY <3>1, <3>2, <3>4, <4>1, <4>2
    <3> QED
      BY <1>3, <1>5, <3>3, <3>4 DEF Alive, Living, Working
  <2> QED
    BY <1>1, <2>1 DEF ThrottleOK
<1>11. FreeCounts'
  <2>1. IsFiniteSet(cache) /\ Cardinality(cache) \in Nat
    BY <1>2, FS_CardinalityType DEF BaseOK, CacheOK
  <2>2. Cardinality(cache') = Cardinality(cache) + 1
    BY <1>5, <2>1, FS_AddElement
  <2> QED
    BY <1>1, <1>2, <2>1, <2>2, SizesAssumption DEF FreeCounts
<1> QED
  BY <1>5, <1>6, <1>7, <1>8, <1>9, <1>10, <1>11, InductiveParts

-----------------------------------------------------------------------------
(* From one host to the next.                                              *)

LEMMA StopPinnedKeeps == Inductive /\ StopPinned => Inductive'
<1> SUFFICES ASSUME Inductive, StopPinned PROVE Inductive'
  OBVIOUS
<1>1. /\ pc = "next" /\ pc' = "drain" /\ workToDo /\ lastHost' = startingHost
      /\ UNCHANGED <<baseVars, setting, hostsLeft, startingHost, workToDo, workersFree, taken, over>>
  BY DEF StopPinned, AllPinned, Goto
<1>2. FreeTypeOK
  BY DEF Inductive
<1>3. BaseOK' /\ HostsOK' /\ ThrottleOK' /\ FreeCounts'
  BY <1>1, <1>2, TurnFrame, SizesAssumption DEF FreeTypeOK
<1>4. FreeTypeOK'
  BY <1>1, <1>2, <1>3 DEF FreeTypeOK, BaseOK, PCs
<1>5. PassOK'
  BY <1>1 DEF PassOK, InPass
<1>6. WorkOK'
  BY <1>1 DEF WorkOK, InPass
<1> QED
  BY <1>3, <1>4, <1>5, <1>6, InductiveParts

LEMMA NextHostKeeps == Inductive /\ NextHost => Inductive'
<1> SUFFICES ASSUME Inductive, NextHost PROVE Inductive'
  OBVIOUS
<1>1. /\ pc = "next" /\ lastHost' = NextIndex
      /\ pc' = IF NextIndex = startingHost THEN "drain" ELSE "host"
      /\ UNCHANGED <<baseVars, setting, hostsLeft, startingHost, workToDo, workersFree, taken, over,
                     blocked, unreachable>>
  BY DEF NextHost, Goto, baseVars, strategyVars
<1>2. FreeTypeOK /\ PassOK /\ WorkOK /\ lastHost < Len(hostsLeft) /\ startingHost < Len(hostsLeft)
  BY <1>1 DEF Inductive, PassOK
<1>3. Len(hostsLeft) \in Nat /\ lastHost \in Nat /\ startingHost \in Nat
  BY <1>2 DEF FreeTypeOK
<1>4. /\ NextIndex \in Nat /\ NextIndex < Len(hostsLeft)
      /\ (NextIndex = 0 /\ lastHost = Len(hostsLeft) - 1) \/ NextIndex = lastHost + 1
  BY <1>2, <1>3 DEF NextIndex
<1>5. BaseOK' /\ HostsOK' /\ ThrottleOK' /\ FreeCounts'
  BY <1>1, <1>2, TurnFrame, SizesAssumption DEF FreeTypeOK
<1>6. FreeTypeOK'
  BY <1>1, <1>2, <1>4, <1>5 DEF FreeTypeOK, BaseOK, PCs
<1>7. PassOK'
  BY <1>1, <1>2, <1>4 DEF PassOK, InPass
<1>8. \A i \in 1..Len(hostsLeft) :
        i - 1 \in Nat /\ i - 1 < Len(hostsLeft) /\ hostsLeft[i] \in Hosts
  BY <1>2, <1>3 DEF FreeTypeOK
<1>9. \A h \in Hosts : Work(h)' <=> Work(h)
  BY <1>1 DEF Work, HasTask
<1>10. CASE NextIndex = startingHost
  <2>1. \A i \in Nat : i < Len(hostsLeft) => Passed(i)
    BY <1>1, <1>2, <1>3, <1>4, <1>10 DEF Passed
  <2>2. ~workToDo => Idle
    BY <1>1, <1>2, <1>8, <2>1 DEF WorkOK, InPass, PassOK, Idle
  <2>3. ~workToDo => Idle'
    BY <1>1, <1>9, <2>2 DEF Idle
  <2>4. WorkOK'
    BY <1>1, <1>10, <2>3 DEF WorkOK, InPass
  <2> QED
    BY <1>5, <1>6, <1>7, <2>4, InductiveParts
<1>11. CASE NextIndex # startingHost
  <2>1. pc' = "host"
    BY <1>1, <1>11
  <2>2. \A i \in Nat : i < Len(hostsLeft) /\ Passed(i)' => Passed(i)
    BY <1>1, <1>2, <1>3, <1>4, <1>11, <2>1 DEF Passed
  <2>3. ASSUME ~workToDo, NEW i \in 1..Len(hostsLeft), Passed(i - 1)'
        PROVE  ~Work(hostsLeft[i])'
    <3>1. ~Work(hostsLeft[i])
      BY <1>1, <1>2, <1>8, <2>2, <2>3 DEF WorkOK, InPass
    <3> QED
      BY <1>1, <1>8, <1>9, <3>1
  <2>4. WorkOK'
    BY <1>1, <2>1, <2>3 DEF WorkOK
  <2> QED
    BY <1>5, <1>6, <1>7, <2>4, InductiveParts
<1> QED
  BY <1>10, <1>11

-----------------------------------------------------------------------------
(* A processed result, and the steps of the workers and the thread.        *)

LEMMA DrainOneKeeps == Inductive /\ DrainOne => Inductive'
<1> SUFFICES ASSUME Inductive, DrainOne PROVE Inductive'
  OBVIOUS
<1> DEFINE job == Head(results).job
<1>1. /\ pc = "drain" /\ pc' = "drain" /\ ProcessResult /\ workersFree' = workersFree + 1
      /\ over' \in {over, over \cup ({HostOf(job)} \cap Failing)}
      /\ UNCHANGED <<setting, hostsLeft, lastHost, startingHost, workToDo, taken>>
  BY DEF DrainOne
<1>2. FreeTypeOK /\ BaseOK /\ BaseTypeOK /\ HostsOK /\ WorkOK /\ ThrottleOK /\ FreeCounts
  BY BaseHolds DEF Inductive, BaseOK
<1>3. /\ BaseOK' /\ proc' = proc
      /\ job \in cache /\ cache' = cache \ {job} /\ blocked' = blocked \ {HostOf(job)}
      /\ unreachable' \in {unreachable, unreachable \cup {HostOf(job)}}
  BY <1>1, <1>2, BaseProcess
<1> HIDE DEF job
<1>4. over \subseteq over' /\ over' \subseteq Hosts
  BY <1>1, <1>2, FailingAssumption DEF FreeTypeOK
<1>5. FreeTypeOK'
  BY <1>1, <1>2, <1>3, <1>4 DEF FreeTypeOK, BaseOK, PCs
<1>6. PassOK'
  BY <1>1 DEF PassOK, InPass
<1>7. HostsOK'
  <2>1. \A j, k \in cache : HostOf(j) = HostOf(k) => j = k
    BY <1>2 DEF HostsOK
  <2>2. \A h \in Hosts : h \in blocked' <=> \E j \in cache' : HostOf(j) = h
    <3>1. \A h \in Hosts : h \in blocked <=> \E j \in cache : HostOf(j) = h
      BY <1>1, <1>2 DEF HostsOK
    <3> QED
      BY <1>3, <2>1, <3>1
  <2>3. \A j \in cache' : HostOf(j) \notin unreachable'
    BY <1>2, <1>3, <2>1 DEF HostsOK
  <2>4. \A j \in Jobs : proc'[j] # "none" => TaskOf(j) <= taken'[HostOf(j)]
    BY <1>1, <1>2, <1>3 DEF HostsOK
  <2> QED
    BY <1>1, <1>3, <2>1, <2>2, <2>3, <2>4 DEF HostsOK
<1>8. ThrottleOK'
  BY <1>1, <1>2, <1>3 DEF ThrottleOK, Alive
<1>9. Idle => Idle'
  <2>1. ASSUME NEW h \in Hosts, ~Work(h)
        PROVE  ~Work(h)'
    BY <1>1, <1>2, <1>3, <1>4, <2>1 DEF Work, HasTask
  <2>2. unreachable \subseteq unreachable'
    BY <1>3
  <2> QED
    BY <2>1, <2>2 DEF Idle
<1>10. WorkOK'
  BY <1>1, <1>2, <1>9 DEF WorkOK, InPass
<1>11. FreeCounts'
  <2>1. IsFiniteSet(cache) /\ Cardinality(cache) \in Nat
    BY <1>2, FS_CardinalityType DEF BaseOK, CacheOK
  <2>2. Cardinality(cache') = Cardinality(cache) - 1
    BY <1>3, <2>1, FS_RemoveElement
  <2> QED
    BY <1>1, <1>2, <2>1, <2>2, SizesAssumption DEF FreeCounts
<1> QED
  BY <1>3, <1>5, <1>6, <1>7, <1>8, <1>10, <1>11, InductiveParts

(* The progress of the workers changes nothing the loop relies on.         *)
LEMMA ProgressKeeps ==
  ASSUME Inductive, BaseOK', \A j \in Jobs : Advances(j),
         UNCHANGED <<loopVars, cache, blocked, unreachable>>
  PROVE  Inductive'
<1>1. UNCHANGED <<setting, pc, hostsLeft, lastHost, startingHost, workToDo, workersFree, taken, over>>
  BY DEF loopVars
<1>2. FreeTypeOK /\ BaseOK /\ PassOK /\ HostsOK /\ WorkOK /\ ThrottleOK /\ FreeCounts
  BY BaseHolds DEF Inductive
<1>3. FreeTypeOK'
  BY <1>1, <1>2 DEF FreeTypeOK, BaseOK
<1>4. PassOK' /\ FreeCounts'
  BY <1>1, <1>2 DEF PassOK, InPass, FreeCounts
<1>5. \A h \in Hosts : Work(h)' <=> Work(h)
  BY <1>1 DEF Work, HasTask
<1>6. \A i : Passed(i)' <=> Passed(i)
  BY <1>1 DEF Passed
<1>7. \A i \in 1..Len(hostsLeft) : hostsLeft[i] \in Hosts
  BY <1>2 DEF FreeTypeOK
<1>8. WorkOK'
  BY <1>1, <1>2, <1>5, <1>6, <1>7 DEF WorkOK, InPass, Idle
<1>9. Host' = Host /\ Job' = Job
  BY <1>1 DEF Host, Job
<1>10. \A j \in Jobs : proc'[j] = "none" <=> proc[j] = "none"
  BY DEF Advances, Living, Working, Over
<1>11. HostsOK'
  <2> HIDE DEF Host, Job
  <2> QED
    BY <1>1, <1>2, <1>9, <1>10 DEF HostsOK
<1>12. ThrottleOK'
  <2>1. ASSUME NEW t \in Tasks
        PROVE  /\ Cardinality(Alive(t)') \in Nat /\ Cardinality(Alive(t)) \in Nat
               /\ Cardinality(Alive(t)') <= Cardinality(Alive(t))
    <3>1. IsFiniteSet(Alive(t))
      BY <1>2, AliveBound DEF BaseOK
    <3>2. Alive(t)' \subseteq Alive(t)
      BY DEF Alive, Advances
    <3> QED
      BY <3>1, <3>2, FS_Subset, FS_CardinalityType
  <2>2. setting.throttle \in Nat
    BY <1>2, SettingTypes
  <2>3. pc = "scan" => TaskOf(Job) \in Tasks
    BY <1>2, JobParts DEF HostsOK
  <2>4. ASSUME setting.throttle > 0, NEW t \in Tasks
        PROVE  /\ Cardinality(Alive(t)') <= setting.throttle
               /\ Cardinality(Alive(t)) < setting.throttle
                    => Cardinality(Alive(t)') < setting.throttle
    BY <1>2, <2>1, <2>2, <2>4 DEF ThrottleOK
  <2> QED
    BY <1>1, <1>2, <1>9, <2>3, <2>4 DEF ThrottleOK
<1> QED
  BY <1>3, <1>4, <1>8, <1>11, <1>12, InductiveParts

-----------------------------------------------------------------------------
(* The invariant.                                                          *)

LEMMA InductiveInit == Init => Inductive
<1> SUFFICES ASSUME Init PROVE Inductive
  OBVIOUS
<1>1. BaseOK
  BY BaseOKInit DEF Init
<1>2. /\ setting \in Settings /\ pc = "pass" /\ hostsLeft = <<>> /\ lastHost = 0 /\ startingHost = 0
      /\ workToDo = TRUE /\ workersFree = Forks /\ taken = [h \in Hosts |-> 0] /\ over = {}
  BY DEF Init
<1>3. cache = {} /\ blocked = {} /\ unreachable = {} /\ \A j \in Jobs : proc[j] = "none"
  BY DEF Init, BaseInit
<1>4. workToDo \in BOOLEAN /\ <<>> \in Seq(Hosts)
  BY <1>2
<1>5. FreeTypeOK
  BY <1>1, <1>2, <1>4, SizesAssumption DEF FreeTypeOK, BaseOK, PCs
<1>6. PassOK /\ HostsOK /\ WorkOK
  BY <1>2, <1>3 DEF PassOK, InPass, HostsOK, WorkOK
<1>7. ThrottleOK
  <2>1. \A t : Alive(t) = {}
    BY <1>3 DEF Alive, Living, Working
  <2>2. setting.throttle \in Nat
    BY <1>5, SettingTypes
  <2>3. \A t : Cardinality(Alive(t)) = 0
    BY <2>1, FS_EmptySet
  <2> QED
    BY <1>2, <2>2, <2>3 DEF ThrottleOK
<1>8. FreeCounts
  BY <1>2, <1>3, FS_EmptySet, SizesAssumption DEF FreeCounts
<1> QED
  BY <1>1, <1>5, <1>6, <1>7, <1>8 DEF Inductive, BaseOK

LEMMA InductiveStep == Inductive /\ [Next]_vars => Inductive'
<1> SUFFICES ASSUME Inductive, [Next]_vars PROVE Inductive'
  OBVIOUS
<1>1. BaseOK
  BY BaseHolds
<1>2. CASE StartPass \/ EndPasses \/ OutOfRange \/ DrainStops \/ Finish
  BY <1>2, StartPassKeeps, EndsKeep
<1>3. CASE PassOver \/ Throttled \/ SkipRole \/ Meta \/ Give
  BY <1>3, TurnsKeep, GiveKeeps
<1>4. CASE SlotIsBusy
  <2>1. SlotBusy(TaskOf(Job)) /\ Job \in Jobs /\ UNCHANGED loopVars
    BY <1>4, JobTypes DEF SlotIsBusy
  <2>2. BaseOK' /\ UNCHANGED <<workers, proc, cache, blocked, unreachable>>
    BY <1>1, <2>1, BaseSlotBusy
  <2>3. \A j \in Jobs : Advances(j)
    BY <2>2 DEF Advances
  <2> QED
    BY <2>1, <2>2, <2>3, ProgressKeeps
<1>5. CASE QueueTask \/ StopPinned \/ NextHost \/ DrainOne
  BY <1>5, QueueTaskKeeps, StopPinnedKeeps, NextHostKeeps, DrainOneKeeps
<1>6. CASE Workers
  BY <1>1, <1>6, BaseWorker, ProgressKeeps DEF Workers
<1>7. CASE Thread
  BY <1>1, <1>7, BaseThread, ProgressKeeps DEF Thread
<1>8. CASE UNCHANGED vars
  <2>1. UNCHANGED <<loopVars, poolVars, proc, finalQ, rthread, results, cache, pending, blocked, unreachable>>
    BY <1>8 DEF vars, baseVars, poolVars, strategyVars
  <2>2. BaseOK'
    BY <1>1, <2>1, BaseFrame DEF BaseOK, BaseTypeOK
  <2>3. \A j \in Jobs : Advances(j)
    BY <2>1 DEF Advances
  <2> QED
    BY <2>1, <2>2, <2>3, ProgressKeeps
<1> QED
  BY <1>2, <1>3, <1>4, <1>5, <1>6, <1>7, <1>8 DEF Next, Main, Terminated

(* The inductive invariant holds in every reachable state, for any hosts,  *)
(* plays, forks and faults.                                                *)
THEOREM FreeInvariance == Spec => []Inductive
<1>1. Init => Inductive
  BY InductiveInit
<1>2. Inductive /\ [Next]_vars => Inductive'
  BY InductiveStep
<1> QED
  BY <1>1, <1>2, PTL DEF Spec

(* A host executes one task at a time, and is blocked exactly while one of *)
(* its tasks is under way, whatever fails: free.py gives a host its next   *)
(* task only when _blocked_hosts lets it.                                  *)
THEOREM OneTaskAtATime == Spec => []OneTaskPerHost
<1>1. ASSUME Inductive PROVE OneTaskPerHost
  <2>1. FreeTypeOK /\ BaseOK /\ HostsOK
    BY <1>1, BaseHolds DEF Inductive
  <2>2. \A j, k \in cache : HostOf(j) = HostOf(k) => j = k
    BY <2>1 DEF HostsOK
  <2>3. blocked \subseteq Hosts /\ \A j \in cache : HostOf(j) \in Hosts
    BY <2>1, JobParts DEF BaseOK, BaseTypeOK
  <2>4. pc = "scan" => Host \in Hosts
    BY <1>1, JobTypes
  <2> HIDE DEF Host
  <2>5. blocked = {HostOf(j) : j \in cache} \cup (IF pc = "scan" THEN {Host} ELSE {})
    BY <2>1, <2>3, <2>4 DEF HostsOK
  <2>6. \A j \in Jobs : proc[j] \in Working => j \in cache
    BY <2>1 DEF BaseOK, CacheOK
  <2> QED
    BY <2>2, <2>5, <2>6 DEF OneTaskPerHost
<1> QED
  BY <1>1, FreeInvariance, PTL

(* No task has more live workers than its throttle, although the strategy  *)
(* looks at the workers before it queues the task (free.py, the count over *)
(* self._workers).                                                         *)
THEOREM ThrottleHolds == Spec => []FreeThrottle
<1>1. Inductive => FreeThrottle
  BY DEF Inductive, ThrottleOK, FreeThrottle
<1> QED
  BY <1>1, FreeInvariance, PTL

(* A loop that has ended by itself has nothing pending, and has given      *)
(* every host every task unless the host is unreachable or out of the      *)
(* play.                                                                   *)
THEOREM EveryHostServed == Spec => []AllServed
<1>1. ASSUME Inductive, pc \in {"wait", "done"}
      PROVE  /\ pending = 0 /\ results = <<>>
             /\ \A h \in Hosts : taken[h] = NumTasks \/ h \in unreachable \/ h \in over
  <2>1. FreeTypeOK /\ BaseOK /\ BaseTypeOK /\ HostsOK /\ Idle
    BY <1>1, BaseHolds DEF Inductive, BaseOK, WorkOK
  <2>2. ASSUME NEW j \in cache PROVE FALSE
    <3>1. HostOf(j) \in Hosts /\ HostOf(j) \in blocked /\ HostOf(j) \notin unreachable
      BY <2>1, JobParts DEF HostsOK, BaseTypeOK
    <3> QED
      BY <2>1, <3>1 DEF Idle, Work
  <2>3. pending = 0 /\ results = <<>>
    BY <2>1, <2>2, BaseIdle
  <2>4. \A h \in Hosts : taken[h] \in 0..NumTasks
    BY <2>1 DEF FreeTypeOK
  <2>5. \A h \in Hosts : taken[h] = NumTasks \/ h \in unreachable \/ h \in over
    BY <2>1, <2>4, SizesAssumption DEF Idle, Work, HasTask
  <2> QED
    BY <2>3, <2>5
<1>2. Inductive => AllServed
  BY <1>1 DEF AllServed
<1> QED
  BY <1>2, FreeInvariance, PTL

=============================================================================
