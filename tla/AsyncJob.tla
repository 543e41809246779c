------------------------------- MODULE AsyncJob -------------------------------
(***************************************************************************)
(* An asynchronous task: the wrapper on the managed node that runs the     *)
(* module under a watcher and keeps its state in a job file, and the task  *)
(* executor on the controller that polls the file and removes it.          *)
(*                                                                         *)
(*   lib/distronode/modules/async_wrapper.py     wrapper, watcher, child   *)
(*   lib/distronode/modules/async_status.py      reading, cleanup          *)
(*   lib/distronode/executor/task_executor.py    _poll_async_result        *)
(*                                                                         *)
(* The child and the watcher write the job file the same way: open         *)
(* job_path + ".tmp", write, rename.  A file is an inode, so that both can *)
(* hold the same one open and a rename can move what the other has open.   *)
(***************************************************************************)
EXTENDS Naturals

CONSTANTS
  Polls,        (* how often the controller polls before it gives up        *)
  Limits,       (* numbers of naps of the watcher before the timeout, of    *)
                (* which the first does not count; 0 for no timeout         *)
  SaysStarted,  (* the module's own result has a key "started"              *)
  Faults        (* "net": polls may raise; "full": writes may fail; "slow": *)
                (* the child's first write may take longer than the waits   *)
                (* of the others, 2.5 seconds and at least 10 seconds       *)

ASSUME AsyncAssumption ==
  /\ Polls \in Nat \ {0} /\ Limits \subseteq Nat \ {1} /\ SaysStarted \in BOOLEAN
  /\ Faults \subseteq {"net", "full", "slow"}

VARIABLES
  limit,     (* the time limit, in naps: one of Limits                      *)
  faults,    (* the faults that happen: some of Faults                      *)
  data,      (* the contents of each inode                                  *)
  jobFile,   (* the inode at job_path, 0 for none                           *)
  tmpFile,   (* the inode at job_path + ".tmp", 0 for none                  *)
  jw,        (* where each writer is in jwrite                              *)
  info,      (* what it writes                                              *)
  handle,    (* the inode it has open                                       *)
  child,     (* the process that runs the module                            *)
  watcher,   (* the process that watches it                                 *)
  left,      (* naps until the timeout                                      *)
  notified,  (* ipc_notifier has sent                                       *)
  ctl,       (* the task executor on the controller                         *)
  polls,     (* polls left: time_left                                       *)
  verdict    (* what the polling came to                                    *)

files   == <<data, jobFile, tmpFile, jw, info, handle>>
procs   == <<child, watcher, left, notified>>
job     == <<limit, faults>>
control == <<job, ctl, polls, verdict>>
vars    == <<files, procs, control>>

Writers == {"child", "watcher"}
(* Bound: every jwrite opens at most one new inode, and there are four.    *)
Inodes  == 1..4

Responses == {"result", "error", "timeout"}
Contents  == Responses \cup {"free", "empty", "running", "garbled"}
Verdicts  == Responses \cup {"none", "missing", "late", "exception"}

Init ==
  /\ limit \in Limits /\ faults \in SUBSET Faults
  /\ data = [i \in Inodes |-> "free"]
  /\ jobFile = 0 /\ tmpFile = 0
  /\ jw = [child |-> "open", watcher |-> "idle"]
  /\ info = [child |-> "running", watcher |-> "timeout"]
  /\ handle = [w \in Writers |-> 0]
  /\ child = "first" /\ watcher = "nap" /\ left = limit /\ notified = FALSE
  /\ ctl = "wrapper" /\ polls = Polls /\ verdict = "none"

-----------------------------------------------------------------------------
(* jwrite                                                                  *)

Unused == CHOOSE i \in Inodes : data[i] = "free" /\ \A k \in 1..(i - 1) : data[k] # "free"

OpenAt(w, i) ==
  /\ handle' = [handle EXCEPT ![w] = i]
  /\ data' = [data EXCEPT ![i] = "empty"]
  /\ jw' = [jw EXCEPT ![w] = "write"]

OpenInPlace(w) ==
  /\ jw[w] = "open"
  /\ jobFile' = IF jobFile # 0 THEN jobFile ELSE Unused
  /\ OpenAt(w, jobFile')
  /\ UNCHANGED <<tmpFile, info>>
(* open(job_path + ".tmp", "w") truncates the file when it is there.       *)
Open(w) ==
  /\ jw[w] = "open"
  /\ tmpFile' = IF tmpFile # 0 THEN tmpFile ELSE Unused
  /\ OpenAt(w, tmpFile')
  /\ UNCHANGED <<jobFile, info>>

(* Writing from the start over what the other writer has written leaves    *)
(* the end of that if it was longer.                                       *)
Overlaid(old, new) == IF old \in {"empty", new} THEN {new} ELSE {new, "garbled"}

Write(w) ==
  /\ jw[w] = "write"
  /\ \E c \in Overlaid(data[handle[w]], info[w]) : data' = [data EXCEPT ![handle[w]] = c]
  /\ jw' = [jw EXCEPT ![w] = "rename"]
  /\ UNCHANGED <<jobFile, tmpFile, info, handle>>

(* The rename is in a finally clause; it raises when there is no such file.*)
Rename(w) ==
  /\ jw[w] = "rename"
  /\ IF tmpFile = 0
       THEN jw' = [jw EXCEPT ![w] = "raised"] /\ UNCHANGED <<jobFile, tmpFile>>
       ELSE jw' = [jw EXCEPT ![w] = "done"] /\ jobFile' = tmpFile /\ tmpFile' = 0
  /\ UNCHANGED <<data, info, handle>>

(* The file system is full: the write raises and the rename is still done, *)
(* or the close raises and it is not.                                      *)
WriteFails(w) ==
  /\ "full" \in faults
  /\ jw[w] = "write"
  /\ jw' = [jw EXCEPT ![w] = "raised"]
  /\ \/ tmpFile # 0 /\ jobFile' = tmpFile /\ tmpFile' = 0
     \/ UNCHANGED <<jobFile, tmpFile>>
  /\ UNCHANGED <<data, info, handle>>

JWrite(w) == (Open(w) \/ Write(w) \/ Rename(w) \/ WriteFails(w)) /\ UNCHANGED <<procs, control>>

Begin(w, what) ==
  /\ jw' = [jw EXCEPT ![w] = "open"]
  /\ info' = [info EXCEPT ![w] = what]
  /\ UNCHANGED <<data, jobFile, tmpFile, handle>>
Idle(w) == jw' = [jw EXCEPT ![w] = "idle"] /\ UNCHANGED <<data, jobFile, tmpFile, info, handle>>

-----------------------------------------------------------------------------
(* The child (_run_module): "first" writes that the job runs, "run" is the *)
(* module, "last" writes its result, "error" writes what went wrong.       *)

MayNotifyFirst == jw.child \in {"open", "done"}
MayNotify      == jw.child = "done"

ChildNotifies ==
  /\ child = "first" /\ MayNotify
  /\ child' = "run" /\ notified' = TRUE
  /\ Idle("child")
  /\ UNCHANGED <<watcher, left, control>>

ModuleEndsUnlogged ==
  /\ child = "run"
  /\ \/ child' = "last" /\ Begin("child", "result")
     \/ child' = "gone" /\ UNCHANGED files
  /\ UNCHANGED <<watcher, left, notified, control>>
(* The module ends, with output that can be parsed or not.                 *)
ModuleEnds ==
  /\ child = "run"
  /\ \/ child' = "last" /\ Begin("child", "result")
     \/ child' = "error" /\ Begin("child", "error")
  /\ UNCHANGED <<watcher, left, notified, control>>

(* An OSError while the result is written is reported instead of it.       *)
ResultLost ==
  /\ child = "last" /\ jw.child = "raised"
  /\ child' = "error" /\ Begin("child", "error")
  /\ UNCHANGED <<watcher, left, notified, control>>

ChildExits ==
  /\ \/ child \in {"last", "error"} /\ jw.child = "done"
     \/ child \in {"first", "error"} /\ jw.child = "raised"
  /\ child' = "gone"
  /\ Idle("child")
  /\ UNCHANGED <<watcher, left, notified, control>>

(* The watcher (main): nap, see whether the child has exited, nap again,   *)
(* and after the last nap report the timeout and kill the child's group.   *)
WatcherChecks ==
  /\ watcher = "check"
  /\ watcher' = IF child = "gone" THEN "end" ELSE "nap"
  /\ UNCHANGED <<files, child, left, notified, control>>

WatcherNaps ==
  /\ watcher = "nap"
  /\ left = 1 => child # "first" \/ "slow" \in faults
  /\ IF left = 1 THEN watcher' = "timeout" /\ left' = 0 /\ Begin("watcher", "timeout")
     ELSE /\ watcher' = "check"
          /\ left' = IF left = 0 THEN 0 ELSE left - 1
          /\ UNCHANGED files
  /\ UNCHANGED <<child, notified, control>>

WatcherForgets ==
  /\ watcher = "timeout" /\ jw.watcher \in {"done", "raised"}
  /\ watcher' = "end"
  /\ Idle("watcher")
  /\ UNCHANGED <<child, left, notified, control>>
WatcherKills ==
  /\ watcher = "timeout" /\ jw.watcher = "done"
  /\ watcher' = "end" /\ child' = "gone"
  /\ jw' = [w \in Writers |-> "idle"]
  /\ UNCHANGED <<data, jobFile, tmpFile, info, handle, left, notified, control>>

WatcherFails ==
  /\ watcher = "timeout" /\ jw.watcher = "raised"
  /\ watcher' = "end"
  /\ Idle("watcher")
  /\ UNCHANGED <<child, left, notified, control>>

-----------------------------------------------------------------------------
(* The controller.                                                         *)

(* The wrapper returns when the child has notified it or is gone, or after *)
(* 2.5 seconds.                                                            *)
WrapperReturns ==
  /\ ctl = "wrapper"
  /\ notified \/ child = "gone" \/ "slow" \in faults
  /\ ctl' = "poll"
  /\ UNCHANGED <<job, files, procs, polls, verdict>>

(* async_status: a job file that is missing counts as finished, one that   *)
(* does not parse as running, and a result with a key "started" is taken   *)
(* for the file of a job that still runs.                                  *)
Status ==
  IF jobFile = 0 THEN "missing"
  ELSE IF data[jobFile] \notin Responses THEN "running"
  ELSE IF data[jobFile] = "result" /\ SaysStarted THEN "running"
  ELSE data[jobFile]

PollAgainOnceMore(reason) ==
  /\ polls' = polls - 1
  /\ IF polls = 0 THEN ctl' = "over" /\ verdict' = reason ELSE UNCHANGED <<ctl, verdict>>
  /\ UNCHANGED <<job, files, procs>>
(* Every poll counts, until the async time is used up.                     *)
PollAgain(reason) ==
  /\ polls' = polls - 1
  /\ IF polls = 1 THEN ctl' = "over" /\ verdict' = reason ELSE UNCHANGED <<ctl, verdict>>
  /\ UNCHANGED <<job, files, procs>>

PollFinished ==
  /\ ctl = "poll" /\ Status # "running"
  /\ ctl' = "cleanup" /\ verdict' = Status
  /\ UNCHANGED <<job, files, procs, polls>>
PollRunning == ctl = "poll" /\ Status = "running" /\ PollAgain("late")
(* The connection raises; the last poll lets the exception through.        *)
PollRaises  == ctl = "poll" /\ "net" \in faults /\ PollAgain("exception")

(* async_status in cleanup mode unlinks the job file.                      *)
CleanUp ==
  /\ ctl = "cleanup"
  /\ jobFile' = 0 /\ ctl' = "over"
  /\ UNCHANGED <<job, data, tmpFile, jw, info, handle, procs, polls, verdict>>

Child      == JWrite("child") \/ ChildNotifies \/ ModuleEnds \/ ResultLost \/ ChildExits
Watcher    == JWrite("watcher") \/ WatcherChecks \/ WatcherNaps \/ WatcherKills \/ WatcherFails
Controller == WrapperReturns \/ PollFinished \/ PollRunning \/ PollRaises \/ CleanUp

AllOver == ctl = "over" /\ child = "gone" /\ watcher = "end"
Ended   == AllOver /\ UNCHANGED vars

Next == Child \/ Watcher \/ Controller \/ Ended

Spec == Init /\ [][Next]_vars

(* Processes are scheduled; the module itself may run for ever, and the    *)
(* connection need not raise.                                              *)
Fairness ==
  /\ WF_vars(JWrite("child") \/ ChildNotifies \/ ResultLost \/ ChildExits)
  /\ WF_vars(Watcher)
  /\ WF_vars(WrapperReturns \/ PollFinished \/ PollRunning \/ CleanUp)
FairSpec == Spec /\ Fairness

-----------------------------------------------------------------------------
(* Properties.                                                             *)

AsyncTypeOK ==
  /\ limit \in Limits /\ faults \subseteq Faults
  /\ data \in [Inodes -> Contents]
  /\ jobFile \in 0..4 /\ tmpFile \in 0..4
  /\ jw \in [Writers -> {"idle", "open", "write", "rename", "done", "raised"}]
  /\ info \in [Writers -> Responses \cup {"running"}]
  /\ handle \in [Writers -> 0..4]
  /\ child \in {"first", "run", "last", "error", "gone"}
  /\ watcher \in {"nap", "check", "timeout", "end"}
  /\ left \in 0..limit /\ notified \in BOOLEAN
  /\ ctl \in {"wrapper", "poll", "cleanup", "over"}
  /\ polls \in 0..Polls /\ verdict \in Verdicts

(* Without a timeout and with room on the disk, a reader never sees a      *)
(* half-written or truncated job file: what is at job_path is complete     *)
(* (jwrite writes another file and renames it).                            *)
NeverHalfWritten ==
  limit = 0 /\ "full" \notin faults /\ jobFile # 0
    => data[jobFile] \in Responses \cup {"running"}

(* The first poll finds a job that has work to do, however the wrapper,    *)
(* the child and the polls interleave: the wrapper returns only when the   *)
(* child has written that the job runs.                                    *)
StartedIsFound ==
  [][verdict' = "missing" /\ verdict = "none" /\ "slow" \notin faults => child = "gone"]_vars

(* When nothing is left to run, the poll location has a response, or the   *)
(* controller has taken it and removed the file for good.                  *)
ResponseLeft ==
  child = "gone" /\ watcher = "end" =>
    \/ jobFile # 0 /\ data[jobFile] \in Responses
    \/ jobFile = 0 /\ ctl = "over" /\ verdict \in Responses
(* So it is for a job that ends by itself, on a disk with room, and under  *)
(* way before it is polled.                                                *)
Undisturbed == faults \subseteq {"net"}
LeavesResponse == limit = 0 /\ Undisturbed => ResponseLeft

(* The watcher stops the process after the time limit: the module does not *)
(* outlive it.                                                             *)
StopsModule == watcher = "end" => child # "run"
(* So it is when the watcher can write its response, and is not disturbed  *)
(* by a child that still writes that the job runs.                         *)
ModuleStopped == Undisturbed => StopsModule

(* The polling comes to an end, whatever happens to the job, to its file   *)
(* and to the connection; and with a time limit so does the job, whatever  *)
(* the module does.                                                        *)
JobEnds == <>(ctl = "over") /\ (limit > 0 /\ Undisturbed => <>AllOver)

(* A job that has left the result of its module in time is not reported to *)
(* have exceeded its maximum runtime.                                      *)
KeptResult ==
  [][jobFile # 0 /\ data[jobFile] = "result" /\ jobFile' # 0 => data'[jobFile'] = "result"]_vars

(* A poll reports a job whose result is there as finished.                 *)
FinishedIsReported == jobFile # 0 /\ data[jobFile] = "result" => Status = "result"

-----------------------------------------------------------------------------
(* Why the properties hold: what a step relies on and leaves behind.       *)

(* The states the processes can be in, and what each of them writes.       *)
StagesOK ==
  /\ jw.child = "idle" <=> child \in {"run", "gone"}
  /\ jw.watcher = "idle" <=> watcher # "timeout"
  /\ child = "first" => info.child = "running"
  /\ child \in {"last", "error"} => info.child \in Responses
  /\ info.watcher = "timeout"

(* There is always a new inode to open: the child opens a file at most     *)
(* three times and the watcher once.                                       *)
ChildOpens ==
  CASE child = "first" -> IF jw.child = "open" THEN 0 ELSE 1
    [] child = "run"   -> 1
    [] child = "last"  -> IF jw.child = "open" THEN 1 ELSE 2
    [] child = "error" -> IF jw.child = "open" THEN 2 ELSE 3
    [] child = "gone"  -> 3
WatcherOpens ==
  IF watcher = "end" \/ (watcher = "timeout" /\ jw.watcher # "open") THEN 1 ELSE 0
InodesOK ==
  /\ \A i \in Inodes : i > ChildOpens + WatcherOpens => data[i] = "free"
  /\ \A w \in Writers : jw[w] \in {"write", "rename"} =>
       handle[w] # 0 /\ data[handle[w]] # "free"
  /\ jobFile # 0 => data[jobFile] # "free"
  /\ tmpFile # 0 => data[tmpFile] # "free"

(* A child that is the only writer moves a complete file into place.       *)
SingleWriter == limit = 0 /\ "full" \notin faults
AtomicOK ==
  SingleWriter =>
    /\ watcher # "timeout" /\ jw.child # "raised"
    /\ tmpFile # 0 <=> jw.child \in {"write", "rename"}
    /\ tmpFile # 0 => handle.child = tmpFile /\ jobFile # tmpFile
    /\ jw.child = "write" => data[tmpFile] = "empty"
    /\ jw.child = "rename" => data[tmpFile] = info.child

(* The poll location has a file from the first notification until the      *)
(* controller removes it.                                                  *)
FoundOK ==
  /\ ctl \in {"wrapper", "poll"} => polls > 0
  /\ ctl = "wrapper" => verdict = "none"
  /\ ctl # "over" /\ (notified \/ jw.child = "done") => jobFile # 0
  /\ ctl = "poll" /\ "slow" \notin faults => notified \/ child = "gone"

(* The job that ends by itself writes one response, when all else is done, *)
(* and the controller removes only that.                                   *)
Responded == (child \in {"last", "error"} /\ jw.child = "done") \/ child = "gone"
ResponseOK ==
  limit = 0 /\ Undisturbed =>
    /\ Responded =>
         \/ jobFile # 0 /\ data[jobFile] \in Responses
         \/ jobFile = 0 /\ ctl = "over" /\ verdict \in Responses
    /\ jobFile # 0 /\ data[jobFile] \in Responses => Responded
    /\ ctl = "cleanup" => Responded /\ verdict \in Responses

(* The watcher starts to write when the child has written, and fails only  *)
(* after the module has ended.                                             *)
WatchOK ==
  Undisturbed =>
    /\ watcher = "timeout" => child # "first"
    /\ watcher = "timeout" /\ child = "run" =>
         jw.watcher # "raised" /\ (jw.watcher \in {"write", "rename"} => tmpFile # 0)
    /\ watcher = "end" => child \notin {"first", "run"}

Inductive ==
  /\ AsyncTypeOK /\ StagesOK /\ InodesOK /\ AtomicOK /\ NeverHalfWritten
  /\ FoundOK /\ ResponseOK /\ WatchOK

=============================================================================
