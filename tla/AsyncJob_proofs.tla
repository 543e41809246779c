--------------------------- MODULE AsyncJob_proofs ---------------------------
(***************************************************************************)
(* Proofs about AsyncJob: the job file is never half-written, the first    *)
(* poll finds a job that runs, a job that ends by itself leaves its        *)
(* response, and the watcher stops the module, for every number of polls,  *)
(* every time limit and every combination of faults.                       *)
(***************************************************************************)
EXTENDS AsyncJob, TLAPS

(* The parts of the invariant that speak of the files alone.               *)
Machine == AsyncTypeOK /\ StagesOK /\ InodesOK

LEMMA FewOpens ==
  ASSUME AsyncTypeOK
  PROVE  ChildOpens \in 0..3 /\ WatcherOpens \in 0..1
BY DEF AsyncTypeOK, ChildOpens, WatcherOpens

(* As long as some inode was never opened, Unused is one, and not one      *)
(* beyond the next.                                                        *)
LEMMA UnusedExists ==
  ASSUME NEW n \in 0..3, \A i \in Inodes : i > n => data[i] = "free"
  PROVE  Unused \in Inodes /\ Unused <= n + 1 /\ data[Unused] = "free"
<1> DEFINE First(i) == data[i] = "free" /\ \A k \in 1..(i - 1) : data[k] # "free"
<1>1. n + 1 \in Inodes /\ data[n + 1] = "free"
  BY DEF Inodes
<1>2. \E i \in Inodes : First(i)
  <2>1. CASE First(1)
    BY <2>1 DEF Inodes
  <2>2. CASE data[1] # "free" /\ data[2] = "free"
    BY <2>2 DEF Inodes
  <2>3. CASE data[1] # "free" /\ data[2] # "free" /\ data[3] = "free"
    BY <2>3 DEF Inodes
  <2>4. CASE data[1] # "free" /\ data[2] # "free" /\ data[3] # "free"
    BY <1>1, <2>4 DEF Inodes
  <2> QED
    BY <2>1, <2>2, <2>3, <2>4
<1>3. Unused \in Inodes /\ First(Unused)
  BY <1>2 DEF Unused
<1>4. Unused <= n + 1
  BY <1>1, <1>3 DEF Inodes
<1> QED
  BY <1>3, <1>4

-----------------------------------------------------------------------------
(* jwrite.                                                                 *)

(* A writer that opens a file opens the one that is there, or a new one.   *)
LEMMA OpenMachine ==
  ASSUME Machine, NEW w \in Writers, Open(w), UNCHANGED <<procs, control>>
  PROVE  /\ Machine'
         /\ tmpFile' \in Inodes /\ data' = [data EXCEPT ![tmpFile'] = "empty"]
         /\ tmpFile = 0 => tmpFile' # jobFile /\ data[tmpFile'] = "free"
<1> USE DEF Machine
<1>1. child \in {"first", "last", "error"} \/ w = "watcher"
  BY DEF StagesOK, Open, Writers, AsyncTypeOK
<1>2. ChildOpens \in 0..3 /\ WatcherOpens \in 0..1 /\ ChildOpens + WatcherOpens \in 0..3
  BY <1>1, FewOpens DEF StagesOK, AsyncTypeOK, Open, Writers, ChildOpens, WatcherOpens
<1>3. /\ ChildOpens' \in 0..3 /\ WatcherOpens' \in 0..1
      /\ ChildOpens' + WatcherOpens' = ChildOpens + WatcherOpens + 1
  BY <1>1 DEF StagesOK, AsyncTypeOK, Open, OpenAt, Writers, ChildOpens, WatcherOpens,
              procs, control
<1>4. /\ Unused \in Inodes /\ Unused <= ChildOpens + WatcherOpens + 1
      /\ data[Unused] = "free"
  BY <1>2, UnusedExists DEF InodesOK
<1>5. /\ tmpFile' \in Inodes
      /\ tmpFile = 0 => tmpFile' = Unused
      /\ tmpFile # 0 => tmpFile' = tmpFile
  BY <1>4 DEF Open, AsyncTypeOK, Inodes
<1>6. /\ data' = [data EXCEPT ![tmpFile'] = "empty"] /\ handle' = [handle EXCEPT ![w] = tmpFile']
      /\ jw' = [jw EXCEPT ![w] = "write"] /\ UNCHANGED <<jobFile, info, procs, control>>
  BY DEF Open, OpenAt
<1>7. AsyncTypeOK'
  BY <1>5, <1>6 DEF AsyncTypeOK, procs, control, job, Inodes, Contents, Writers
<1>8. StagesOK'
  BY <1>6 DEF StagesOK, AsyncTypeOK, procs, Writers, Open
<1>9. InodesOK'
  <2>1. ASSUME NEW i \in Inodes, i > ChildOpens' + WatcherOpens'
        PROVE  data'[i] = "free"
    <3>1. i > ChildOpens + WatcherOpens + 1
      BY <1>3, <2>1
    <3>2. i > ChildOpens + WatcherOpens /\ data[i] = "free"
      BY <1>2, <3>1 DEF InodesOK, Inodes
    <3>3. i # tmpFile'
      BY <1>2, <1>4, <1>5, <3>1, <3>2 DEF InodesOK, Inodes
    <3> QED
      BY <1>6, <3>2, <3>3
  <2>2. \A i \in Inodes : data[i] # "free" => data'[i] # "free"
    BY <1>6 DEF AsyncTypeOK
  <2>3. data'[tmpFile'] = "empty"
    BY <1>5, <1>6 DEF AsyncTypeOK
  <2>4. ASSUME NEW v \in Writers, jw'[v] \in {"write", "rename"}
        PROVE  handle'[v] # 0 /\ data'[handle'[v]] # "free"
    <3>1. CASE v = w
      BY <1>5, <1>6, <2>3, <3>1 DEF AsyncTypeOK, Inodes
    <3>2. CASE v # w
      BY <1>6, <2>2, <2>4, <3>2 DEF InodesOK, AsyncTypeOK, Inodes
    <3> QED
      BY <3>1, <3>2
  <2>5. jobFile' # 0 => data'[jobFile'] # "free"
    BY <1>6, <2>2 DEF InodesOK, AsyncTypeOK, Inodes
  <2>6. tmpFile' # 0 => data'[tmpFile'] # "free"
    BY <2>3
  <2> QED
    BY <2>1, <2>4, <2>5, <2>6 DEF InodesOK
<1>10. tmpFile = 0 => tmpFile' # jobFile /\ data[tmpFile'] = "free"
  BY <1>4, <1>5 DEF InodesOK, Inodes
<1> QED
  BY <1>5, <1>6, <1>7, <1>8, <1>9, <1>10

LEMMA WriteMachine ==
  ASSUME Machine, NEW w \in Writers, Write(w), UNCHANGED <<procs, control>>
  PROVE  /\ Machine'
         /\ \E c \in Overlaid(data[handle[w]], info[w]) :
              data' = [data EXCEPT ![handle[w]] = c]
<1> USE DEF Machine
<1>1. PICK c \in Overlaid(data[handle[w]], info[w]) : data' = [data EXCEPT ![handle[w]] = c]
  BY DEF Write
<1>2. c \in Contents /\ c # "free" /\ handle[w] \in Inodes
  BY DEF AsyncTypeOK, InodesOK, Overlaid, Contents, Responses, Inodes, Write
<1>3. jw' = [jw EXCEPT ![w] = "rename"] /\ UNCHANGED <<jobFile, tmpFile, info, handle, procs, control>>
  BY DEF Write
<1>4. AsyncTypeOK'
  BY <1>1, <1>2, <1>3 DEF AsyncTypeOK, procs, control, job
<1>5. StagesOK'
  BY <1>3 DEF StagesOK, AsyncTypeOK, procs, Writers, Write
<1>6. ChildOpens' = ChildOpens /\ WatcherOpens' = WatcherOpens
  BY <1>3 DEF StagesOK, AsyncTypeOK, procs, Writers, Write, ChildOpens, WatcherOpens
<1>7. \A i \in Inodes : data'[i] = "free" <=> data[i] = "free"
  BY <1>1, <1>2 DEF AsyncTypeOK, InodesOK, Write
<1>8. InodesOK'
  BY <1>3, <1>6, <1>7 DEF InodesOK, AsyncTypeOK, Inodes, Writers, Write
<1> QED
  BY <1>1, <1>4, <1>5, <1>8

LEMMA RenameMachine ==
  ASSUME Machine, NEW w \in Writers, Rename(w) \/ WriteFails(w), UNCHANGED <<procs, control>>
  PROVE  Machine'
<1> USE DEF Machine
<1>1. /\ jw[w] \in {"write", "rename"} /\ \E s \in {"done", "raised"} : jw' = [jw EXCEPT ![w] = s]
      /\ \/ tmpFile # 0 /\ jobFile' = tmpFile /\ tmpFile' = 0
         \/ UNCHANGED <<jobFile, tmpFile>>
      /\ UNCHANGED <<data, info, handle, procs, control>>
  BY DEF Rename, WriteFails
<1>2. AsyncTypeOK'
  BY <1>1 DEF AsyncTypeOK, procs, control, job
<1>3. StagesOK'
  BY <1>1 DEF StagesOK, AsyncTypeOK, procs, Writers
<1>4. ChildOpens' = ChildOpens /\ WatcherOpens' = WatcherOpens
  BY <1>1 DEF StagesOK, AsyncTypeOK, procs, Writers, ChildOpens, WatcherOpens
<1>5. InodesOK'
  BY <1>1, <1>4 DEF InodesOK, AsyncTypeOK, Inodes, Writers
<1> QED
  BY <1>2, <1>3, <1>5

-----------------------------------------------------------------------------
(* The processes and the controller.                                       *)

LEMMA Monotone ==
  ASSUME NEW i \in Nat, NEW a \in Nat, NEW b \in Nat, NEW c \in Nat, NEW d \in Nat,
         a <= c, b <= d, i > c + d
  PROVE  i > a + b
OBVIOUS

LEMMA ChildMachine ==
  ASSUME Machine, ChildNotifies \/ ModuleEnds \/ ResultLost \/ ChildExits
  PROVE  Machine'
<1> USE DEF Machine
<1>1. UNCHANGED <<data, jobFile, tmpFile, handle, watcher, left, control>> /\ notified' \in BOOLEAN
  BY DEF ChildNotifies, ModuleEnds, ResultLost, ChildExits, Idle, Begin, AsyncTypeOK
<1>2. /\ child' \in {"run", "last", "error", "gone"}
      /\ \/ child' \in {"run", "gone"} /\ jw' = [jw EXCEPT !["child"] = "idle"] /\ info' = info
         \/ /\ child' \in {"last", "error"} /\ jw' = [jw EXCEPT !["child"] = "open"]
            /\ \E c \in Responses : info' = [info EXCEPT !["child"] = c]
  BY DEF ChildNotifies, ModuleEnds, ResultLost, ChildExits, Idle, Begin, Responses
<1>3. AsyncTypeOK'
  BY <1>1, <1>2 DEF AsyncTypeOK, control, job, Writers
<1>4. StagesOK'
  BY <1>1, <1>2 DEF StagesOK, AsyncTypeOK, Writers
<1>5. ChildOpens <= ChildOpens' /\ WatcherOpens <= WatcherOpens'
  BY <1>1, <1>2 DEF ChildNotifies, ModuleEnds, ResultLost, ChildExits, Idle, Begin, StagesOK,
                    MayNotify, AsyncTypeOK, Writers, ChildOpens, WatcherOpens
<1>6. ASSUME NEW i \in Inodes, i > ChildOpens' + WatcherOpens'
      PROVE  i > ChildOpens + WatcherOpens
  <2>1. /\ ChildOpens \in Nat /\ WatcherOpens \in Nat
        /\ ChildOpens' \in Nat /\ WatcherOpens' \in Nat
    BY <1>3, FewOpens DEF AsyncTypeOK, ChildOpens, WatcherOpens
  <2>2. i \in Nat
    BY DEF Inodes
  <2> QED
    BY <1>5, <1>6, <2>1, <2>2, Monotone
<1>7. \A v \in Writers : jw'[v] \in {"write", "rename"} => jw[v] = jw'[v]
  BY <1>2 DEF AsyncTypeOK, Writers
<1>8. InodesOK'
  BY <1>1, <1>6, <1>7 DEF InodesOK
<1> QED
  BY <1>3, <1>4, <1>8

LEMMA WatcherMachine ==
  ASSUME Machine, WatcherChecks \/ WatcherNaps \/ WatcherKills \/ WatcherFails
  PROVE  Machine'
<1> USE DEF Machine
<1>1. UNCHANGED <<data, jobFile, tmpFile, handle, notified, control>>
  BY DEF WatcherChecks, WatcherNaps, WatcherKills, WatcherFails, Idle, Begin, files
<1>2. left' \in 0..limit
  BY AsyncAssumption DEF WatcherChecks, WatcherNaps, WatcherKills, WatcherFails, AsyncTypeOK
<1>3. /\ child' \in {child, "gone"} /\ watcher' \in {"nap", "check", "timeout", "end"}
      /\ \/ jw' = jw /\ info' = info /\ watcher # "timeout" /\ watcher' # "timeout"
            /\ child' = child /\ watcher # "end"
         \/ /\ jw' = [jw EXCEPT !["watcher"] = "open"] /\ watcher = "nap" /\ watcher' = "timeout"
            /\ info' = [info EXCEPT !["watcher"] = "timeout"] /\ child' = child
         \/ /\ jw' = [jw EXCEPT !["watcher"] = "idle"] /\ watcher' = "end" /\ info' = info
            /\ jw.watcher = "raised" /\ watcher = "timeout" /\ child' = child
         \/ /\ jw' = [w \in Writers |-> "idle"] /\ watcher' = "end" /\ info' = info
            /\ jw.watcher = "done" /\ watcher = "timeout" /\ child' = "gone"
  BY DEF WatcherChecks, WatcherNaps, WatcherKills, WatcherFails, Idle, Begin, files
<1>4. AsyncTypeOK'
  <2>1. /\ jw' \in [Writers -> {"idle", "open", "write", "rename", "done", "raised"}]
        /\ info' \in [Writers -> Responses \cup {"running"}]
    BY <1>3 DEF AsyncTypeOK, Writers, Responses
  <2>2. child' \in {"first", "run", "last", "error", "gone"}
    BY <1>3 DEF AsyncTypeOK
  <2> QED
    BY <1>1, <1>2, <1>3, <2>1, <2>2 DEF AsyncTypeOK, control, job
<1>5. StagesOK'
  BY <1>3 DEF StagesOK, AsyncTypeOK, Writers
<1>6. ChildOpens <= ChildOpens' /\ WatcherOpens <= WatcherOpens'
  BY <1>3 DEF StagesOK, AsyncTypeOK, Writers, ChildOpens, WatcherOpens
<1>7. ASSUME NEW i \in Inodes, i > ChildOpens' + WatcherOpens'
      PROVE  i > ChildOpens + WatcherOpens
  <2>1. /\ ChildOpens \in Nat /\ WatcherOpens \in Nat
        /\ ChildOpens' \in Nat /\ WatcherOpens' \in Nat
    BY <1>4, FewOpens DEF AsyncTypeOK, ChildOpens, WatcherOpens
  <2>2. i \in Nat
    BY DEF Inodes
  <2> QED
    BY <1>6, <1>7, <2>1, <2>2, Monotone
<1>8. \A v \in Writers : jw'[v] \in {"write", "rename"} => jw[v] = jw'[v]
  BY <1>3 DEF AsyncTypeOK, Writers
<1>9. InodesOK'
  BY <1>1, <1>7, <1>8 DEF InodesOK
<1> QED
  BY <1>4, <1>5, <1>9

(* The controller only ever removes the job file.                          *)
LEMMA ControllerMachine ==
  ASSUME Machine, FoundOK, Controller
  PROVE  Machine' /\ (jobFile' = jobFile \/ jobFile' = 0)
<1> USE DEF Machine
<1>1. /\ UNCHANGED <<job, data, tmpFile, jw, info, handle, procs>>
      /\ jobFile' = jobFile \/ jobFile' = 0
  BY DEF Controller, WrapperReturns, PollFinished, PollRunning, PollRaises, CleanUp, PollAgain, files
<1>2. Status \in Responses \cup {"missing", "running"}
  BY DEF Status
<1>3. /\ ctl' \in {"wrapper", "poll", "cleanup", "over"} /\ verdict' \in Verdicts
  BY <1>2 DEF Controller, WrapperReturns, PollFinished, PollRunning, PollRaises, CleanUp, PollAgain,
              AsyncTypeOK, Verdicts
<1>4. polls' \in 0..Polls
  BY AsyncAssumption DEF Controller, WrapperReturns, PollFinished, PollRunning, PollRaises, CleanUp,
              PollAgain, AsyncTypeOK, FoundOK
<1>5. AsyncTypeOK'
  BY <1>1, <1>3, <1>4 DEF AsyncTypeOK, procs, job
<1>6. StagesOK'
  BY <1>1 DEF StagesOK, procs
<1>7. ChildOpens' = ChildOpens /\ WatcherOpens' = WatcherOpens
  BY <1>1 DEF ChildOpens, WatcherOpens, procs
<1>8. InodesOK'
  BY <1>1, <1>7 DEF InodesOK
<1> QED
  BY <1>1, <1>5, <1>6, <1>8

(* A step is one of an action, and the limit and the faults stay.          *)
LEMMA StepCases ==
  ASSUME [Next]_vars
  PROVE  /\ limit' = limit /\ faults' = faults
         /\ \/ \E w \in Writers : Open(w) /\ UNCHANGED <<procs, control>>
            \/ \E w \in Writers : Write(w) /\ UNCHANGED <<procs, control>>
            \/ \E w \in Writers : (Rename(w) \/ WriteFails(w)) /\ UNCHANGED <<procs, control>>
            \/ ChildNotifies \/ ModuleEnds \/ ResultLost \/ ChildExits
            \/ WatcherChecks \/ WatcherNaps \/ WatcherKills \/ WatcherFails
            \/ Controller
            \/ UNCHANGED vars
<1>1. \/ \E w \in Writers : JWrite(w)
      \/ ChildNotifies \/ ModuleEnds \/ ResultLost \/ ChildExits
      \/ WatcherChecks \/ WatcherNaps \/ WatcherKills \/ WatcherFails
      \/ Controller
      \/ UNCHANGED vars
  BY DEF Next, Child, Watcher, Ended, Writers
<1>2. ASSUME NEW w \in Writers, JWrite(w)
      PROVE  /\ UNCHANGED <<procs, control>>
             /\ Open(w) \/ Write(w) \/ Rename(w) \/ WriteFails(w)
  BY <1>2 DEF JWrite
<1>3. UNCHANGED job
  <2>1. CASE ChildNotifies \/ ModuleEnds \/ ResultLost \/ ChildExits
    BY <2>1 DEF ChildNotifies, ModuleEnds, ResultLost, ChildExits, control
  <2>2. CASE WatcherChecks \/ WatcherNaps \/ WatcherKills \/ WatcherFails
    BY <2>2 DEF WatcherChecks, WatcherNaps, WatcherKills, WatcherFails, control
  <2>3. CASE Controller
    BY <2>3 DEF Controller, WrapperReturns, PollFinished, PollRunning, PollRaises, CleanUp, PollAgain
  <2>4. CASE UNCHANGED vars
    BY <2>4 DEF vars, control
  <2> QED
    BY <1>1, <1>2, <2>1, <2>2, <2>3, <2>4 DEF control
<1> QED
  BY <1>1, <1>2, <1>3 DEF job

LEMMA MachineStep ==
  ASSUME Machine, FoundOK, [Next]_vars
  PROVE  Machine'
<1>1. CASE \E w \in Writers : Open(w) /\ UNCHANGED <<procs, control>>
  BY <1>1, OpenMachine
<1>2. CASE \E w \in Writers : Write(w) /\ UNCHANGED <<procs, control>>
  BY <1>2, WriteMachine
<1>3. CASE \E w \in Writers : (Rename(w) \/ WriteFails(w)) /\ UNCHANGED <<procs, control>>
  BY <1>3, RenameMachine
<1>4. CASE ChildNotifies \/ ModuleEnds \/ ResultLost \/ ChildExits
  BY <1>4, ChildMachine
<1>5. CASE WatcherChecks \/ WatcherNaps \/ WatcherKills \/ WatcherFails
  BY <1>5, WatcherMachine
<1>6. CASE Controller
  BY <1>6, ControllerMachine
<1>7. CASE UNCHANGED vars
  BY <1>7 DEF Machine, AsyncTypeOK, StagesOK, InodesOK, ChildOpens, WatcherOpens,
              vars, files, procs, control, job
<1> QED
  BY <1>1, <1>2, <1>3, <1>4, <1>5, <1>6, <1>7, StepCases

-----------------------------------------------------------------------------
(* The job file is moved into place whole.                                 *)

LEMMA AtomicStep ==
  ASSUME Machine, AtomicOK, NeverHalfWritten, [Next]_vars, Machine'
  PROVE  AtomicOK' /\ NeverHalfWritten'
<1> SUFFICES ASSUME SingleWriter
             PROVE  AtomicOK' /\ NeverHalfWritten'
  BY StepCases DEF AtomicOK, NeverHalfWritten, SingleWriter
<1>1. limit' = limit /\ faults' = faults /\ limit = 0 /\ "full" \notin faults
  BY StepCases DEF SingleWriter
<1>2. watcher # "timeout" /\ jw.watcher = "idle" /\ left = 0
  BY <1>1 DEF AtomicOK, Machine, StagesOK, AsyncTypeOK
<1>3. jobFile # 0 => jobFile \in Inodes /\ data[jobFile] \in Responses \cup {"running"}
  BY <1>1 DEF NeverHalfWritten, Machine, AsyncTypeOK, Inodes
<1>4. info.child \in Responses \cup {"running"}
  BY DEF Machine, AsyncTypeOK, Writers
<1> DEFINE Fine == /\ watcher' # "timeout" /\ jw'["child"] # "raised"
                   /\ tmpFile' # 0 <=> jw'["child"] \in {"write", "rename"}
                   /\ tmpFile' # 0 => handle'["child"] = tmpFile' /\ jobFile' # tmpFile'
                   /\ jw'["child"] = "write" => data'[tmpFile'] = "empty"
                   /\ jw'["child"] = "rename" => data'[tmpFile'] = info'["child"]
                   /\ jobFile' # 0 => data'[jobFile'] \in Responses \cup {"running"}
<1>5. Fine => AtomicOK' /\ NeverHalfWritten'
  BY DEF AtomicOK, NeverHalfWritten, SingleWriter
<1> SUFFICES Fine
  BY <1>5
<1>6. CASE \E w \in Writers : Open(w) /\ UNCHANGED <<procs, control>>
  <2>1. PICK w \in Writers : Open(w) /\ UNCHANGED <<procs, control>>
    BY <1>6
  <2>2. w = "child" /\ jw.child = "open" /\ tmpFile = 0
    BY <1>2, <2>1 DEF Open, Writers, AtomicOK
  <2>3. /\ tmpFile' \in Inodes /\ data' = [data EXCEPT ![tmpFile'] = "empty"]
        /\ tmpFile' # jobFile
    BY <2>1, <2>2, OpenMachine
  <2> QED
    BY <1>2, <1>3, <2>1, <2>2, <2>3 DEF Open, OpenAt, procs, Machine, AsyncTypeOK, Writers, Inodes
<1>7. CASE \E w \in Writers : Write(w) /\ UNCHANGED <<procs, control>>
  <2>1. PICK w \in Writers : Write(w) /\ UNCHANGED <<procs, control>>
    BY <1>7
  <2>2. w = "child" /\ jw.child = "write" /\ handle.child = tmpFile /\ tmpFile # 0
        /\ data[tmpFile] = "empty" /\ jobFile # tmpFile
    BY <1>2, <2>1 DEF Write, Writers, AtomicOK
  <2>3. data' = [data EXCEPT ![tmpFile] = info.child]
    BY <2>1, <2>2 DEF Write, Overlaid
  <2> QED
    BY <1>2, <1>3, <2>1, <2>2, <2>3 DEF Write, procs, Machine, AsyncTypeOK, Writers, Inodes
<1>8. CASE \E w \in Writers : (Rename(w) \/ WriteFails(w)) /\ UNCHANGED <<procs, control>>
  <2>1. PICK w \in Writers : Rename(w) /\ UNCHANGED <<procs, control>>
    BY <1>1, <1>8 DEF WriteFails
  <2>2. w = "child" /\ jw.child = "rename" /\ tmpFile # 0 /\ data[tmpFile] = info.child
    BY <1>2, <2>1 DEF Rename, Writers, AtomicOK
  <2> QED
    BY <1>2, <1>3, <1>4, <2>1, <2>2 DEF Rename, procs, Machine, AsyncTypeOK, Writers
<1>9. CASE ChildNotifies \/ ModuleEnds \/ ResultLost \/ ChildExits
  <2>1. tmpFile = 0 /\ UNCHANGED <<data, jobFile, tmpFile, handle, watcher>>
    BY <1>9 DEF ChildNotifies, MayNotify, ModuleEnds, ResultLost, ChildExits, Idle, Begin,
                AtomicOK, Machine, StagesOK
  <2>2. jw'["child"] \in {"idle", "open"}
    BY <1>9 DEF ChildNotifies, ModuleEnds, ResultLost, ChildExits, Idle, Begin,
                Machine, AsyncTypeOK, Writers
  <2> QED
    BY <1>2, <1>3, <2>1, <2>2
<1>10. CASE WatcherChecks \/ WatcherNaps \/ WatcherKills \/ WatcherFails
  <2>1. watcher' # "timeout" /\ UNCHANGED files
    BY <1>2, <1>10 DEF WatcherChecks, WatcherNaps, WatcherKills, WatcherFails
  <2> QED
    BY <1>2, <1>3, <2>1 DEF files, AtomicOK
<1>11. CASE Controller
  <2>1. /\ UNCHANGED <<data, tmpFile, jw, info, handle, procs>>
        /\ jobFile' = jobFile \/ jobFile' = 0
    BY <1>11 DEF Controller, WrapperReturns, PollFinished, PollRunning, PollRaises, CleanUp,
                 PollAgain, files
  <2> QED
    BY <1>2, <1>3, <2>1 DEF procs, AtomicOK
<1>12. CASE UNCHANGED vars
  BY <1>2, <1>3, <1>12 DEF vars, files, procs, AtomicOK
<1> QED
  BY <1>6, <1>7, <1>8, <1>9, <1>10, <1>11, <1>12, StepCases

-----------------------------------------------------------------------------
(* The poll location has a file from the first notification on.            *)

LEMMA FoundStep ==
  ASSUME Machine, FoundOK, [Next]_vars
  PROVE  FoundOK'
<1>0. limit' = limit /\ faults' = faults
  BY StepCases
<1>1. CASE \E w \in Writers : \/ Open(w) /\ UNCHANGED <<procs, control>>
                              \/ Write(w) /\ UNCHANGED <<procs, control>>
  <2>1. PICK w \in Writers : (Open(w) \/ Write(w)) /\ UNCHANGED <<procs, control>>
    BY <1>1
  <2>2. jobFile' = jobFile /\ jw' \in [Writers -> {"idle", "open", "write", "rename", "done", "raised"}]
        /\ (jw'["child"] = "done" => jw.child = "done")
    BY <2>1 DEF Open, OpenAt, Write, Machine, AsyncTypeOK, Writers
  <2> QED
    BY <2>1, <2>2 DEF FoundOK, procs, control, job
<1>2. CASE \E w \in Writers : (Rename(w) \/ WriteFails(w)) /\ UNCHANGED <<procs, control>>
  <2>1. PICK w \in Writers : (Rename(w) \/ WriteFails(w)) /\ UNCHANGED <<procs, control>>
    BY <1>2
  <2>2. /\ jobFile # 0 => jobFile' # 0
        /\ jw'["child"] = "done" => jw.child = "done" \/ jobFile' # 0
    BY <2>1 DEF Rename, WriteFails, Machine, AsyncTypeOK, Writers
  <2> QED
    BY <2>1, <2>2 DEF FoundOK, procs, control, job
<1>3. CASE ChildNotifies \/ ModuleEnds \/ ResultLost \/ ChildExits
  <2>1. jobFile' = jobFile /\ jw'["child"] \in {"idle", "open"}
        /\ (notified' => notified \/ jw.child = "done") /\ UNCHANGED control
    BY <1>3 DEF ChildNotifies, MayNotify, ModuleEnds, ResultLost, ChildExits, Idle, Begin,
                Machine, AsyncTypeOK, Writers
  <2>2. (notified => notified') /\ child # "gone"
    BY <1>3 DEF ChildNotifies, ModuleEnds, ResultLost, ChildExits
  <2> QED
    BY <2>1, <2>2 DEF FoundOK, control, job
<1>4. CASE WatcherChecks \/ WatcherNaps \/ WatcherKills \/ WatcherFails
  <2>1. jobFile' = jobFile /\ (jw'["child"] = "done" => jw.child = "done")
        /\ notified' = notified /\ UNCHANGED control /\ (child = "gone" => child' = "gone")
    BY <1>4 DEF WatcherChecks, WatcherNaps, WatcherKills, WatcherFails, Idle, Begin, files,
                Machine, AsyncTypeOK, Writers
  <2> QED
    BY <2>1 DEF FoundOK, control, job
<1>5. CASE Controller
  <2>1. UNCHANGED <<jw, procs>>
    BY <1>5 DEF Controller, WrapperReturns, PollFinished, PollRunning, PollRaises, CleanUp,
                PollAgain, files
  <2>2. ctl' \in {"wrapper", "poll"} => polls' > 0
    BY <1>5 DEF Controller, WrapperReturns, PollFinished, PollRunning, PollRaises, CleanUp,
                PollAgain, FoundOK, Machine, AsyncTypeOK
  <2>3. /\ ctl' = "wrapper" => verdict' = "none"
        /\ ctl' # "over" => jobFile' = jobFile /\ ctl # "over"
        /\ ctl' = "poll" /\ "slow" \notin faults => notified \/ child = "gone"
    BY <1>5 DEF Controller, WrapperReturns, PollFinished, PollRunning, PollRaises, CleanUp,
                PollAgain, files, FoundOK
  <2> QED
    BY <1>0, <2>1, <2>2, <2>3 DEF FoundOK, procs
<1>6. CASE UNCHANGED vars
  BY <1>6 DEF FoundOK, vars, files, procs, control, job
<1> QED
  BY <1>1, <1>2, <1>3, <1>4, <1>5, <1>6, StepCases

-----------------------------------------------------------------------------
(* The watcher.                                                            *)

LEMMA WatchStep ==
  ASSUME Machine, WatchOK, [Next]_vars
  PROVE  WatchOK'
<1>0. limit' = limit /\ faults' = faults
  BY StepCases
<1> SUFFICES ASSUME Undisturbed
             PROVE  /\ watcher' = "timeout" => child' # "first"
                    /\ watcher' = "timeout" /\ child' = "run" =>
                         /\ jw'["watcher"] # "raised"
                         /\ jw'["watcher"] \in {"write", "rename"} => tmpFile' # 0
                    /\ watcher' = "end" => child' \notin {"first", "run"}
  BY <1>0 DEF WatchOK, Undisturbed
<1>1. "full" \notin faults /\ "slow" \notin faults
  BY DEF Undisturbed
<1>2. child = "run" => jw.child = "idle"
  BY DEF Machine, StagesOK
<1>3. CASE \E w \in Writers : Open(w) /\ UNCHANGED <<procs, control>>
  <2>1. PICK w \in Writers : Open(w) /\ UNCHANGED <<procs, control>>
    BY <1>3
  <2>2. tmpFile' # 0
    BY <2>1, OpenMachine DEF Inodes
  <2> QED
    BY <2>1, <2>2 DEF Open, OpenAt, WatchOK, procs, Machine, AsyncTypeOK, Writers
<1>4. CASE \E w \in Writers : Write(w) /\ UNCHANGED <<procs, control>>
  BY <1>4 DEF Write, WatchOK, procs, Machine, AsyncTypeOK, Writers
<1>5. CASE \E w \in Writers : (Rename(w) \/ WriteFails(w)) /\ UNCHANGED <<procs, control>>
  <2>1. PICK w \in Writers : Rename(w) /\ UNCHANGED <<procs, control>>
    BY <1>1, <1>5 DEF WriteFails
  <2>2. child = "run" => w = "watcher"
    BY <1>2, <2>1 DEF Rename, Writers
  <2> QED
    BY <2>1, <2>2 DEF Rename, WatchOK, procs, Machine, AsyncTypeOK, Writers
<1>6. CASE ChildNotifies \/ ModuleEnds \/ ResultLost \/ ChildExits
  <2>1. child' # "first" /\ watcher' = watcher /\ (child' = "run" => child = "first")
    BY <1>6 DEF ChildNotifies, ModuleEnds, ResultLost, ChildExits
  <2> QED
    BY <2>1 DEF WatchOK
<1>7. CASE WatcherChecks \/ WatcherNaps \/ WatcherKills \/ WatcherFails
  <2>1. watcher' = "timeout" => child' = child /\ child # "first" /\ jw'["watcher"] = "open"
    BY <1>1, <1>7 DEF WatcherChecks, WatcherNaps, WatcherKills, WatcherFails, Begin,
                      Machine, AsyncTypeOK, Writers
  <2>2. watcher' = "end" => \/ child' = "gone"
                            \/ watcher = "timeout" /\ jw.watcher = "raised" /\ child' = child
    BY <1>7 DEF WatcherChecks, WatcherNaps, WatcherKills, WatcherFails
  <2> QED
    BY <2>1, <2>2 DEF WatchOK
<1>8. CASE Controller
  <2>1. UNCHANGED <<tmpFile, jw, procs>>
    BY <1>8 DEF Controller, WrapperReturns, PollFinished, PollRunning, PollRaises, CleanUp,
                PollAgain, files
  <2> QED
    BY <2>1 DEF WatchOK, procs
<1>9. CASE UNCHANGED vars
  BY <1>9 DEF WatchOK, vars, files, procs
<1> QED
  BY <1>3, <1>4, <1>5, <1>6, <1>7, <1>8, <1>9, StepCases

-----------------------------------------------------------------------------
(* The job that ends by itself leaves its response.                        *)

LEMMA ResponseStep ==
  ASSUME Inductive, [Next]_vars
  PROVE  ResponseOK'
<1>0. Machine /\ limit' = limit /\ faults' = faults
  BY StepCases DEF Inductive, Machine
<1> DEFINE Here  == jobFile # 0 /\ data[jobFile] \in Responses
           Taken == jobFile = 0 /\ ctl = "over" /\ verdict \in Responses
<1> SUFFICES ASSUME limit = 0, Undisturbed
             PROVE  /\ Responded' => Here' \/ Taken'
                    /\ Here' => Responded'
                    /\ ctl' = "cleanup" => Responded' /\ verdict' \in Responses
  BY <1>0 DEF ResponseOK, Undisturbed
<1>1. /\ "full" \notin faults /\ "slow" \notin faults /\ SingleWriter
      /\ Responded => Here \/ Taken
      /\ Here => Responded
      /\ ctl = "cleanup" => Responded /\ verdict \in Responses
  BY DEF Undisturbed, SingleWriter, Inductive, ResponseOK
<1>2. watcher # "timeout" /\ jw.watcher = "idle" /\ left = 0 /\ jw.child # "raised"
  BY <1>0, <1>1 DEF Inductive, AtomicOK, Machine, StagesOK, AsyncTypeOK
<1>3. tmpFile # 0 => jobFile # tmpFile
  BY <1>1 DEF Inductive, AtomicOK
<1>4. child \in {"first", "last", "error"} => jw.child # "idle"
  BY DEF Inductive, StagesOK
<1>5. CASE \E w \in Writers : Open(w) /\ UNCHANGED <<procs, control>>
  <2>1. PICK w \in Writers : Open(w) /\ UNCHANGED <<procs, control>>
    BY <1>5
  <2>2. w = "child" /\ jw.child = "open" /\ tmpFile = 0
    BY <1>1, <1>2, <2>1 DEF Open, Writers, Inductive, AtomicOK
  <2>3. tmpFile' \in Inodes /\ data' = [data EXCEPT ![tmpFile'] = "empty"] /\ tmpFile' # jobFile
    BY <1>0, <2>1, <2>2, OpenMachine
  <2>4. jobFile' = jobFile /\ (jobFile # 0 => data'[jobFile] = data[jobFile])
    BY <2>1, <2>3 DEF Open, OpenAt
  <2>5. Responded' <=> Responded
    BY <1>0, <2>1, <2>2 DEF Responded, Open, OpenAt, procs, Machine, AsyncTypeOK, Writers
  <2> QED
    BY <1>1, <2>1, <2>4, <2>5 DEF control
<1>6. CASE \E w \in Writers : Write(w) /\ UNCHANGED <<procs, control>>
  <2>1. PICK w \in Writers : Write(w) /\ UNCHANGED <<procs, control>>
    BY <1>6
  <2>2. w = "child" /\ jw.child = "write" /\ handle.child = tmpFile /\ jobFile # tmpFile
    BY <1>1, <1>2, <2>1 DEF Write, Writers, Inductive, AtomicOK
  <2>3. jobFile' = jobFile /\ (jobFile # 0 => data'[jobFile] = data[jobFile])
    BY <2>1, <2>2 DEF Write
  <2>4. Responded' <=> Responded
    BY <1>0, <2>1, <2>2 DEF Responded, Write, procs, Machine, AsyncTypeOK, Writers
  <2> QED
    BY <1>1, <2>1, <2>3, <2>4 DEF control
<1>7. CASE \E w \in Writers : (Rename(w) \/ WriteFails(w)) /\ UNCHANGED <<procs, control>>
  <2>1. PICK w \in Writers : Rename(w) /\ UNCHANGED <<procs, control>>
    BY <1>1, <1>7 DEF WriteFails
  <2>2. w = "child" /\ jw.child = "rename" /\ tmpFile # 0 /\ data[tmpFile] = info.child
    BY <1>1, <1>2, <2>1 DEF Rename, Writers, Inductive, AtomicOK
  <2>3. jobFile' = tmpFile /\ data' = data /\ jw'["child"] = "done" /\ child' = child
        /\ UNCHANGED control
    BY <1>0, <2>1, <2>2 DEF Rename, procs, Machine, AsyncTypeOK, Writers
  <2>4. /\ child \in {"first", "last", "error"}
        /\ child = "first" => info.child = "running"
        /\ child \in {"last", "error"} => info.child \in Responses
    BY <2>2 DEF Inductive, StagesOK, AsyncTypeOK
  <2>5. ~Responded
    BY <2>2, <2>4 DEF Responded
  <2> QED
    BY <1>1, <2>2, <2>3, <2>4, <2>5 DEF Responded, Responses, control
<1>8. CASE ChildNotifies \/ ModuleEnds \/ ResultLost \/ ChildExits
  <2>1. UNCHANGED <<data, jobFile, control>>
    BY <1>8 DEF ChildNotifies, ModuleEnds, ResultLost, ChildExits, Idle, Begin
  <2>2. Responded' <=> Responded
    BY <1>0, <1>2, <1>8 DEF ChildNotifies, ModuleEnds, ResultLost, ChildExits, Idle, Begin,
          Responded, Machine, AsyncTypeOK, Writers
  <2> QED
    BY <1>1, <2>1, <2>2 DEF control
<1>9. CASE WatcherChecks \/ WatcherNaps \/ WatcherKills \/ WatcherFails
  <2>1. UNCHANGED <<files, child, control>>
    BY <1>2, <1>9 DEF WatcherChecks, WatcherNaps, WatcherKills, WatcherFails
  <2> QED
    BY <1>1, <2>1 DEF files, control, Responded
<1>10. CASE Controller
  <2>1. UNCHANGED <<data, jw, procs>>
    BY <1>10 DEF Controller, WrapperReturns, PollFinished, PollRunning, PollRaises, CleanUp,
                 PollAgain, files
  <2>2. Responded' <=> Responded
    BY <2>1 DEF Responded, procs
  <2>3. CASE CleanUp
    BY <1>1, <2>2, <2>3 DEF CleanUp
  <2>4. CASE PollFinished
    <3>1. jobFile # 0
      BY <1>1, <2>4 DEF PollFinished, Inductive, FoundOK, Responded
    <3>2. Here /\ verdict' \in Responses
      BY <2>4, <3>1 DEF PollFinished, Status
    <3> QED
      BY <1>1, <2>1, <2>2, <2>4, <3>2 DEF PollFinished, files
  <2>5. CASE WrapperReturns \/ PollRunning \/ PollRaises
    <3>1. jobFile' = jobFile /\ ctl \in {"wrapper", "poll"} /\ ctl' # "cleanup"
      BY <2>5 DEF WrapperReturns, PollRunning, PollRaises, PollAgain, files
    <3> QED
      BY <1>1, <2>1, <2>2, <3>1
  <2> QED
    BY <1>10, <2>3, <2>4, <2>5 DEF Controller
<1>11. CASE UNCHANGED vars
  BY <1>1, <1>11 DEF vars, files, procs, control, Responded
<1> QED
  BY <1>5, <1>6, <1>7, <1>8, <1>9, <1>10, <1>11, StepCases

-----------------------------------------------------------------------------
(* The invariant.                                                          *)

LEMMA InductiveInit == Init => Inductive
<1> SUFFICES ASSUME Init PROVE Inductive
  OBVIOUS
<1>1. /\ limit \in Limits /\ faults \subseteq Faults /\ jobFile = 0 /\ tmpFile = 0
      /\ data = [i \in Inodes |-> "free"] /\ handle = [w \in Writers |-> 0]
      /\ child = "first" /\ watcher = "nap" /\ left = limit /\ notified = FALSE
      /\ ctl = "wrapper" /\ polls = Polls /\ verdict = "none"
  BY DEF Init
<1>2. /\ jw \in [Writers -> {"idle", "open", "write", "rename", "done", "raised"}]
      /\ info \in [Writers -> Responses \cup {"running"}]
      /\ jw.child = "open" /\ jw.watcher = "idle"
      /\ info.child = "running" /\ info.watcher = "timeout"
  BY DEF Init, Writers, Responses
<1>3. AsyncTypeOK
  <2>1. left \in 0..limit /\ polls \in 0..Polls
    BY <1>1, AsyncAssumption
  <2>2. data \in [Inodes -> Contents] /\ handle \in [Writers -> 0..4]
    BY <1>1 DEF Contents
  <2>3. notified \in BOOLEAN /\ verdict \in Verdicts
    BY <1>1 DEF Verdicts
  <2> QED
    BY <1>1, <1>2, <2>1, <2>2, <2>3 DEF AsyncTypeOK
<1>4. StagesOK
  BY <1>1, <1>2 DEF StagesOK
<1>5. InodesOK
  BY <1>1, <1>2 DEF InodesOK, Writers
<1>6. AtomicOK /\ NeverHalfWritten /\ WatchOK
  BY <1>1, <1>2 DEF AtomicOK, NeverHalfWritten, WatchOK
<1>7. FoundOK
  BY <1>1, <1>2, AsyncAssumption DEF FoundOK
<1>8. ResponseOK
  BY <1>1, <1>2 DEF ResponseOK, Responded
<1> QED
  BY <1>3, <1>4, <1>5, <1>6, <1>7, <1>8 DEF Inductive

LEMMA InductiveStep == Inductive /\ [Next]_vars => Inductive'
<1> SUFFICES ASSUME Inductive, [Next]_vars PROVE Inductive'
  OBVIOUS
<1>1. Machine /\ AtomicOK /\ NeverHalfWritten /\ FoundOK /\ WatchOK
  BY DEF Inductive, Machine
<1>2. Machine'
  BY <1>1, MachineStep
<1> QED
  BY <1>1, <1>2, AtomicStep, FoundStep, WatchStep, ResponseStep DEF Inductive, Machine

(* The invariant holds of every execution.                                 *)
THEOREM AsyncInvariance == Spec => []Inductive
<1> QED
  BY InductiveInit, InductiveStep, PTL DEF Spec

(* Without a timeout and with room on the disk, whoever reads the job file *)
(* sees a whole one (jwrite writes another file and renames it).           *)
THEOREM JobFileWhole == Spec => []NeverHalfWritten
<1>1. Inductive => NeverHalfWritten
  BY DEF Inductive
<1> QED
  BY <1>1, AsyncInvariance, PTL

(* A job that ends by itself leaves its response at the poll location, or  *)
(* the controller has taken it before it removed the file.                 *)
THEOREM ResponseIsLeft == Spec => []LeavesResponse
<1>1. Inductive => LeavesResponse
  BY DEF Inductive, ResponseOK, Responded, LeavesResponse, ResponseLeft
<1> QED
  BY <1>1, AsyncInvariance, PTL

(* A watcher that ends has seen the module end or has killed it.           *)
THEOREM ModuleIsStopped == Spec => []ModuleStopped
<1>1. Inductive => ModuleStopped
  BY DEF Inductive, WatchOK, ModuleStopped, StopsModule
<1> QED
  BY <1>1, AsyncInvariance, PTL

(* No poll of a job under way finds its file missing: the wrapper returns  *)
(* when the child has written and said so, and only the controller removes *)
(* the file.                                                               *)
THEOREM JobIsFound == Spec => StartedIsFound
<1> DEFINE Found == verdict' = "missing" /\ verdict = "none" /\ "slow" \notin faults => child = "gone"
<1>1. Inductive /\ [Next]_vars => [Found]_vars
  <2> SUFFICES ASSUME Inductive, [Next]_vars,
                      verdict' = "missing", verdict = "none", "slow" \notin faults
               PROVE  child = "gone"
    OBVIOUS
  <2>1. Controller
    <3>1. \/ verdict' = verdict
          \/ Controller
      BY StepCases DEF ChildNotifies, ModuleEnds, ResultLost, ChildExits,
            WatcherChecks, WatcherNaps, WatcherKills, WatcherFails, vars, control
    <3> QED
      BY <3>1
  <2>2. PollFinished
    BY <2>1 DEF Controller, WrapperReturns, PollRunning, PollRaises, CleanUp, PollAgain
  <2>3. ctl = "poll" /\ jobFile = 0
    BY <2>2 DEF PollFinished, Status, Responses
  <2> QED
    BY <2>3 DEF Inductive, FoundOK
<1> QED
  BY <1>1, AsyncInvariance, PTL DEF Spec, StartedIsFound

=============================================================================
