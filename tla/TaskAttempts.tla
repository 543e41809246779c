------------------------------ MODULE TaskAttempts -----------------------------
(***************************************************************************)
(* A task in its workers: the attempts that retries and until ask for, in  *)
(* each of them the module made ready and sent to the host, and the tries  *)
(* of a connection that fails.                                             *)
(*                                                                         *)
(*   lib/distronode/executor/task_executor.py     _execute                 *)
(*   lib/distronode/plugins/connection/ssh.py     _ssh_retry               *)
(*                                                                         *)
(* Each worker has a host of its own.  One command stands for those the    *)
(* action sends: the one that runs the module.                             *)
(***************************************************************************)
EXTENDS ModuleCache, Integers, Sequences

CONSTANTS
  Tasks,      (* what is run: retries, or none given; until; timeout        *)
  Tries,      (* reconnection_retries + 1                                   *)
  Faults      (* of kill, raise, skip                                       *)

ASSUME TasksAssumption ==
  Tasks \subseteq [given : BOOLEAN, retries : Int, until : BOOLEAN, timeout : BOOLEAN]
ASSUME TriesAssumption == Tries \in Nat \ {0}

VARIABLES
  task,       (* the task                                                   *)
  pc,         (* per worker: attempt, build, judge, over, or dead           *)
  attempt,    (* which attempt it is at                                     *)
  try,        (* which try of the connection                                *)
  piped,      (* whether a broken ControlPersist pipe has been met in it    *)
  result      (* what is known of the task                                  *)

(* History: the retries told to the callbacks, how often the module ran,   *)
(* how often its answer came to nothing, and whether each answer that came *)
(* was one to end with.                                                    *)
VARIABLES told, runs, lost, mets

taskVars == <<task, pc, attempt, try, piped, result, told, runs, lost, mets>>
vars     == <<cacheVars, taskVars>>

(* How often the task is run at most.                                      *)
AttemptsGiven ==
  IF task.given THEN IF task.retries > 0 THEN task.retries ELSE 1
  ELSE IF task.until THEN 4 ELSE 1
Attempts ==
  1 + (IF task.given THEN IF task.retries > 0 THEN task.retries ELSE 0
       ELSE IF task.until THEN 3 ELSE 0)

Results == [failed : BOOLEAN, attempts : Nat, unreachable : BOOLEAN, skipped : BOOLEAN]
Outcome(f, n) == [failed |-> f, attempts |-> n, unreachable |-> FALSE, skipped |-> FALSE]
NoResult    == Outcome(FALSE, 0)
Failed      == Outcome(TRUE, 0)
Unreachable == [failed |-> FALSE, attempts |-> 0, unreachable |-> TRUE, skipped |-> FALSE]
Skipped     == [failed |-> FALSE, attempts |-> 0, unreachable |-> FALSE, skipped |-> TRUE]

Init ==
  /\ CacheInit
  /\ task \in Tasks
  /\ pc = [w \in Workers |-> "attempt"]
  /\ attempt = [w \in Workers |-> 1] /\ try = [w \in Workers |-> 1]
  /\ piped = [w \in Workers |-> FALSE]
  /\ result = [w \in Workers |-> NoResult]
  /\ told = [w \in Workers |-> 0] /\ runs = [w \in Workers |-> 0]
  /\ lost = [w \in Workers |-> 0] /\ mets = [w \in Workers |-> <<>>]

(* An attempt ends with an answer, or the task ends with it.               *)
Ends(w, r) == /\ pc' = [pc EXCEPT ![w] = "over"]
              /\ result' = [result EXCEPT ![w] = r]
Sending(w) == pc[w] = "build" /\ phase[w] = "built"
Ran(w)     == runs' = [runs EXCEPT ![w] = @ + 1]

(* What is left without an answer may have come before the module ran or   *)
(* after it.                                                               *)
MayHaveRun(w) ==
  \/ Sending(w) /\ Ran(w) /\ lost' = [lost EXCEPT ![w] = @ + 1]
  \/ UNCHANGED <<runs, lost>>

StartAttempt(w) ==
  /\ pc[w] = "attempt"
  /\ pc' = [pc EXCEPT ![w] = "build"]
  /\ try' = [try EXCEPT ![w] = 1] /\ piped' = [piped EXCEPT ![w] = FALSE]
  /\ Begin(w)
  /\ UNCHANGED <<task, attempt, result, told, runs, lost, mets>>

BuildModule(w) == pc[w] = "build" /\ Build(w) /\ UNCHANGED taskVars

-----------------------------------------------------------------------------
(* _ssh_retry                                                              *)

(* The module ran, and ssh returned its answer.                            *)
Answer(w) ==
  /\ Sending(w)
  /\ \E f \in BOOLEAN : result' = [result EXCEPT ![w] = Outcome(f, 0)]
  /\ Ran(w)
  /\ pc' = [pc EXCEPT ![w] = "judge"]
  /\ UNCHANGED <<task, attempt, try, piped, told, lost, mets, cacheVars>>

(* A try that fails is the last one, or there is another.                  *)
TriedOnceMore(w) == try[w] > Tries
LastTry(w)       == try[w] = Tries
TryAgain(w, r) ==
  IF LastTry(w)
    THEN Ends(w, r) /\ UNCHANGED <<try, piped>>
    ELSE /\ try' = [try EXCEPT ![w] = @ + 1] /\ piped' = [piped EXCEPT ![w] = FALSE]
         /\ UNCHANGED <<pc, result>>

(* ssh returns 255: the connection was lost.                               *)
ConnectionLost(w) ==
  /\ Sending(w)
  /\ MayHaveRun(w)
  /\ TryAgain(w, Unreachable)
  /\ UNCHANGED <<task, attempt, told, mets, cacheVars>>

(* The pipe of ControlPersist is broken: once more, at once; the second    *)
(* time it is an exception as any other.                                   *)
BrokenPipe(w) ==
  /\ Sending(w)
  /\ IF ~piped[w] THEN piped' = [piped EXCEPT ![w] = TRUE] /\ UNCHANGED <<pc, result, try>>
     ELSE TryAgain(w, Failed)
  /\ UNCHANGED <<task, attempt, told, runs, lost, mets, cacheVars>>

(* A wrong password is not tried again.                                    *)
AuthenticationFails(w) ==
  /\ Sending(w)
  /\ Ends(w, Unreachable)
  /\ UNCHANGED <<task, attempt, try, piped, told, runs, lost, mets, cacheVars>>

-----------------------------------------------------------------------------
(* Exceptions that end the task with the attempt.                          *)

(* The alarm of the task's timeout goes off, wherever the action is.       *)
TimesOut(w) ==
  /\ pc[w] = "build" /\ task.timeout
  /\ Interrupt(w)
  /\ MayHaveRun(w)
  /\ Ends(w, Failed)
  /\ UNCHANGED <<task, attempt, try, piped, told, mets>>

(* The action raises that it failed, before it asks for the module or with *)
(* what the module answered, or could not build it.                        *)
ActionRaises(w) ==
  /\ pc[w] = "build"
  /\ \/ phase[w] = "crashed" /\ UNCHANGED <<runs, lost>>
     \/ phase[w] \in {"look", "built"} /\ "raise" \in Faults /\ MayHaveRun(w)
  /\ Interrupt(w)
  /\ Ends(w, Failed)
  /\ UNCHANGED <<task, attempt, try, piped, told, mets>>

(* It raises that there is nothing to do, before it asks for the module:   *)
(* in check mode, or as the file is there that the module would create.    *)
ActionSkips(w) ==
  /\ pc[w] = "build" /\ phase[w] = "look" /\ "skip" \in Faults
  /\ Interrupt(w)
  /\ Ends(w, Skipped)
  /\ UNCHANGED <<task, attempt, try, piped, told, runs, lost, mets>>

WorkerKilled(w) ==
  /\ "kill" \in Faults /\ pc[w] \notin {"over", "dead"}
  /\ pc' = [pc EXCEPT ![w] = "dead"]
  /\ Killed(w)
  /\ UNCHANGED <<task, attempt, try, piped, result, told, runs, lost, mets>>

-----------------------------------------------------------------------------
(* The end of the attempt loop.  A task without retries is not asked       *)
(* whether it met its until.                                               *)

OnceIsEnough(w) ==
  /\ pc[w] = "judge" /\ Attempts = 1
  /\ Ends(w, result[w])
  /\ mets' = [mets EXCEPT ![w] = Append(@, TRUE)]
  /\ UNCHANGED <<attempt, told>>

Met(w) ==
  /\ pc[w] = "judge" /\ Attempts > 1 /\ (task.until \/ ~result[w].failed)
  /\ Ends(w, Outcome(result[w].failed, attempt[w]))
  /\ mets' = [mets EXCEPT ![w] = Append(@, TRUE)]
  /\ UNCHANGED <<attempt, told>>

Unmet(w) ==
  /\ pc[w] = "judge" /\ Attempts > 1 /\ (task.until \/ result[w].failed)
  /\ mets' = [mets EXCEPT ![w] = Append(@, FALSE)]
  /\ IF attempt[w] < Attempts
       THEN /\ told' = [told EXCEPT ![w] = @ + 1]
            /\ attempt' = [attempt EXCEPT ![w] = @ + 1]
            /\ pc' = [pc EXCEPT ![w] = "attempt"]
            /\ UNCHANGED result
       ELSE Ends(w, Outcome(TRUE, Attempts - 1)) /\ UNCHANGED <<attempt, told>>

Judge(w) == /\ OnceIsEnough(w) \/ Met(w) \/ Unmet(w)
            /\ UNCHANGED <<task, try, piped, runs, lost, cacheVars>>

-----------------------------------------------------------------------------
Send(w) == Answer(w) \/ ConnectionLost(w) \/ BrokenPipe(w) \/ AuthenticationFails(w)
Step(w) == \/ StartAttempt(w) \/ BuildModule(w) \/ Send(w)
           \/ ActionRaises(w) \/ ActionSkips(w) \/ Judge(w)
Gone == \A w \in Workers : pc[w] \in {"over", "dead"}

Next == \/ \E w \in Workers : Step(w) \/ TimesOut(w) \/ WorkerKilled(w)
        \/ Gone /\ UNCHANGED vars

Spec == Init /\ [][Next]_vars

(* Workers are scheduled, a command that was sent returns, and an alarm    *)
(* that was set goes off.                                                  *)
FairSpec == Spec /\ \A w \in Workers : WF_vars(Step(w)) /\ WF_vars(TimesOut(w))

-----------------------------------------------------------------------------
(* Properties.                                                             *)

TaskTypeOK ==
  /\ CacheTypeOK
  /\ task \in Tasks
  /\ pc \in [Workers -> {"attempt", "build", "judge", "over", "dead"}]
  /\ attempt \in [Workers -> 1..Attempts] /\ try \in [Workers -> 1..Tries]
  /\ piped \in [Workers -> BOOLEAN]
  /\ result \in [Workers -> Results]
  /\ told \in [Workers -> Nat] /\ runs \in [Workers -> Nat] /\ lost \in [Workers -> Nat]
  /\ mets \in [Workers -> Seq(BOOLEAN)]

(* The module ran once for every answer that was judged, and else only     *)
(* where a connection, the alarm or an exception of the action took its    *)
(* answer; every judged answer but the last was told as a retry.  The task *)
(* ends with the first answer that meets its until, whose number it says,  *)
(* or fails after as many retries as it was given (three for an until      *)
(* without), whose number it says; without an answer to judge it has       *)
(* failed, is unreachable or was skipped.                                  *)
RetriesGiven == IF task.given THEN IF task.retries < 0 THEN 0 ELSE task.retries
                ELSE IF task.until THEN 3 ELSE 0
AsAsked(w) ==
  LET n == Len(mets[w])
      r == result[w]
  IN /\ runs[w] = lost[w] + n
     /\ n \in {told[w], told[w] + 1}
     /\ \A i \in 1..told[w] : ~mets[w][i]
     /\ n = told[w] => r.failed \/ r.unreachable \/ r.skipped
     /\ n = told[w] + 1 =>
          IF mets[w][n] THEN r.attempts = (IF RetriesGiven = 0 THEN 0 ELSE n)
          ELSE r.failed /\ told[w] = RetriesGiven /\ r.attempts = RetriesGiven
RetriesAsAsked == \A w \in Workers : pc[w] = "over" => AsAsked(w)

(* Every worker comes to the end of its task, whatever is lost on the way; *)
(* when one was killed, which may have been with the lock, those still do  *)
(* whose task has a timeout.                                               *)
TaskEnds ==
  \A w \in Workers :
    <>(pc[w] \in {"over", "dead"} \/ (~task.timeout /\ \E v \in Workers : pc[v] = "dead"))

-----------------------------------------------------------------------------
(* The inductive invariant of the proofs.                                  *)

(* Nothing is sent, judged or begun in the middle of the making of the     *)
(* module.                                                                 *)
PhasesOK ==
  \A w \in Workers :
    /\ pc[w] = "attempt" => phase[w] \in {"idle", "built"}
    /\ pc[w] = "judge" => phase[w] = "built"

(* The books of the attempt loop: the runs of the module, the answers, the *)
(* retries told and the number of the attempt agree all along.             *)
Answered(w) == Len(mets[w]) + (IF pc[w] = "judge" THEN 1 ELSE 0)
BooksOf(w) ==
  /\ pc[w] # "dead" => runs[w] = lost[w] + Answered(w)
  /\ attempt[w] = told[w] + 1 /\ told[w] <= Len(mets[w])
  /\ \A i \in 1..told[w] : ~mets[w][i]
  /\ pc[w] # "over" => Len(mets[w]) = told[w] /\ result[w].attempts = 0
AttemptsOK == \A w \in Workers : BooksOf(w)

TaskInductive ==
  /\ TaskTypeOK /\ PhasesOK /\ AttemptsOK /\ RetriesAsAsked
  /\ SameLock => ArchiveOK

=============================================================================
