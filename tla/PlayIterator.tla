----------------------------- MODULE PlayIterator -----------------------------
(***************************************************************************)
(* One host going through a play: a strategy asks the play iterator for    *)
(* the next task, runs it, and reports how it went.                        *)
(*                                                                         *)
(*   lib/distronode/executor/play_iterator.py       PlayIterator           *)
(*   lib/distronode/plugins/strategy/__init__.py    results, meta tasks    *)
(*   lib/distronode/playbook/handler.py             notified hosts         *)
(*                                                                         *)
(* The iterator keeps an independent state for each host, so one host is   *)
(* enough; what other hosts do to it (failing it, ending it, clearing its  *)
(* errors) is an action here.  Handlers are numbered in their order.       *)
(***************************************************************************)
EXTENDS BlockSemantics

CONSTANT
  Cases  (* what a host may be asked to do: a play, whether it gathers      *)
         (* facts, the place to start at (<<>> for the beginning), whether  *)
         (* tasks notify handlers, and how often other hosts may interfere  *)
         (* (a bound)                                                       *)

ASSUME CasesAssumption ==
  \A c \in Cases : /\ c.gather \in BOOLEAN /\ c.notifies \in BOOLEAN
                   /\ c.outside \in Nat

VARIABLES
  play,           (* the play                                               *)
  gather,         (* whether it gathers facts                               *)
  start,          (* where it was told to start                             *)
  notifies,       (* whether its tasks notify handlers                      *)
  hs,             (* the HostState stored for the host                      *)
  cur,            (* the task the host is running                           *)
  pc,             (* idle, run or end                                       *)
  notifications,  (* handler_notifications, resolved to handlers            *)
  notified,       (* the handlers whose notified_hosts hold the host        *)
  flushing,       (* the place of the flush under way, or of the last one   *)
  ran,            (* history: the places of the tasks run                   *)
  bad,            (* history: the places that failed                        *)
  owed,           (* history: handlers a task notified and not run since    *)
  calm,           (* history: no other host has interfered                  *)
  outside         (* how often other hosts may still interfere              *)

vars == <<play, gather, start, notifies, hs, cur, pc, notifications, notified, flushing,
          ran, bad, owed, calm, outside>>
choices == <<play, gather, start, notifies>>
history == <<ran, bad, owed, calm, outside>>

Handlers == 1..NumHandlers

(* --start-at-task: go through the tasks, all succeeding, up to it.        *)
RECURSIVE FastForward(_, _, _)
FastForward(s, g, place) ==
  LET n == GetNext(s, {}, g) IN
  IF n.state.run_state = "COMPLETE" THEN s
  ELSE IF n.task.id = place
    THEN [s EXCEPT !.did_start_at_task = TRUE, !.run_state = "SETUP"]
  ELSE FastForward(n.state, g, place)

HostStart(p, g, place) ==
  LET s == NewState(<<SetupBlock>> \o p, "SETUP")
  IN IF place = <<>> THEN s ELSE FastForward(s, g, place)

Init ==
  /\ \E c \in Cases :
       /\ play = c.play /\ gather = c.gather /\ start = c.start
       /\ notifies = c.notifies /\ outside = c.outside
  /\ hs = HostStart(play, gather, start)
  /\ cur = NoTask /\ pc = "idle"
  /\ notifications = {} /\ notified = {} /\ flushing = <<>>
  /\ ran = <<>> /\ bad = {} /\ owed = {} /\ calm = TRUE

-----------------------------------------------------------------------------
(* Which handlers are still notified once one has been queued.             *)
AfterQueueing(t) == IF t.kind = "handler" THEN notified \ {t.id[2]} ELSE notified

(* The strategy takes the host's next task and queues it; a handler loses  *)
(* the host from its notified hosts.                                       *)
TakeTask ==
  LET n == GetNext(hs, notified, gather) IN
  /\ pc = "idle"
  /\ hs' = n.state /\ cur' = n.task
  /\ pc' = IF n.task = NoTask THEN "end" ELSE "run"
  /\ notified' = AfterQueueing(n.task)
  /\ ran' = IF n.task.kind \in {"none", "handler"} THEN ran ELSE Append(ran, n.task.id)
  /\ owed' = IF n.task.kind = "handler" THEN owed \ {n.task.id[2]} ELSE owed
  /\ UNCHANGED <<choices, notifications, flushing, bad, calm, outside>>

(* The task succeeds, notifying some handlers: at once when it is a        *)
(* handler itself, when handlers are flushed otherwise.                    *)
TaskOk ==
  /\ pc = "run" /\ cur.kind # "flush"
  /\ pc' = "idle"
  /\ hs' = InsertTasks(hs, cur.adds)
  /\ \E N \in SUBSET (IF notifies /\ cur.kind \in {"plain", "handler"} THEN Handlers ELSE {}) :
       IF hs.run_state = "HANDLERS"
         THEN notified' = notified \cup N /\ UNCHANGED <<notifications, owed>>
         ELSE /\ notifications' = notifications \cup N
              /\ owed' = owed \cup N
              /\ UNCHANGED notified
  /\ UNCHANGED <<choices, cur, flushing, ran, bad, calm, outside>>

(* The task fails: mark_host_failed.  A failed handler fails the flush.    *)
TaskFails ==
  /\ pc = "run" /\ cur.kind # "flush"
  /\ pc' = "idle"
  /\ hs' = SetFailed(hs)
  /\ bad' = bad \cup {IF cur.kind = "handler" THEN flushing ELSE cur.id}
  /\ UNCHANGED <<choices, cur, notifications, notified, flushing, ran, owed, calm, outside>>

FlushDroppingNotified ==
  /\ notified' = notifications
  /\ notifications' = {}
(* The saved notifications become notified handlers.                       *)
FlushNotifications ==
  /\ notified' = notified \cup notifications
  /\ notifications' = {}

(* The meta task flush_handlers.                                           *)
FlushHandlers ==
  /\ pc = "run" /\ cur.kind = "flush"
  /\ pc' = "idle"
  /\ FlushNotifications
  /\ hs' = [hs EXCEPT !.pre_flushing_run_state = hs.run_state, !.run_state = "HANDLERS"]
  /\ flushing' = cur.id
  /\ UNCHANGED <<choices, cur, history>>

(* What other hosts' results and meta tasks do to this one, while it is    *)
(* idle or runs a task; a meta task is executed at once.                   *)
Outside(s) ==
  /\ pc # "end" /\ outside > 0
  /\ pc = "run" => cur.kind # "flush"
  /\ hs' = s
  /\ outside' = outside - 1 /\ calm' = FALSE
  /\ UNCHANGED <<choices, cur, pc, notifications, notified, flushing, ran, bad, owed>>

(* A run_once task failed, or too many hosts did.                          *)
MarkedFailed  == Outside(SetFailed(hs))
(* The meta tasks clear_host_errors and end_host, end_batch or end_play.   *)
ErrorsCleared == Outside(ClearErrors(hs))
HostEnded     == Outside([hs EXCEPT !.run_state = "COMPLETE"])

Ended == pc = "end" /\ UNCHANGED vars

Next == \/ TakeTask \/ TaskOk \/ TaskFails \/ FlushHandlers
        \/ MarkedFailed \/ ErrorsCleared \/ HostEnded
        \/ Ended

Spec     == Init /\ [][Next]_vars
(* The strategy goes on with the host: weak fairness of its own steps, one *)
(* of which is enabled until the host is done.                             *)
OwnStep  == TakeTask \/ TaskOk \/ TaskFails \/ FlushHandlers
FairSpec == Spec /\ ([]<>(pc = "end") \/ []<><<OwnStep>>_vars)

-----------------------------------------------------------------------------
(* Properties.                                                             *)

(* The state the iterator stores is one it can go on from: a block under   *)
(* the cursor unless the host is done, cursors within their sections.      *)
RECURSIVE StateOK(_)
StateOK(s) ==
  /\ s.run_state \in RunStates
  /\ s.fail_state \subseteq RunStates
  /\ s.run_state # "COMPLETE" =>
       /\ s.cur_block \in DOMAIN s.blocks
       /\ \A r \in Sections : s.cur[r] <= Len(Current(s)[r])
  /\ s.cur_handlers_task \in 0..NumHandlers
  /\ \A r \in Sections : s.child[r] # <<>> => StateOK(Child(s, r))

IteratorTypeOK ==
  /\ StateOK(hs)
  /\ pc \in {"idle", "run", "end"}
  /\ notifications \subseteq Handlers /\ notified \subseteq Handlers

Expected == RunPlay(play, gather, bad)

(* Undisturbed, a host runs exactly the tasks the blocks of its play call  *)
(* for, in order, and is failed at the end exactly when the play failed;   *)
(* a failed handler counts as a failure of the flush that ran it.          *)
RunsAsBlocksSay ==
  pc = "end" /\ calm /\ start = <<>> =>
    ran = Expected.ran /\ CheckFailed(hs) = Expected.failed

(* Started at a task, a host gathers facts when the play says so, runs that *)
(* task next, and from there on what the blocks say.                       *)
StartsAtTask ==
  LET facts == IF gather THEN <<SetupTask.id>> ELSE <<>>
      tasks == RunPlay(play, FALSE, bad).ran
  IN pc = "end" /\ start # <<>> =>
       IF SetupTask.id \in bad THEN ran = facts
       ELSE \E n \in DOMAIN tasks :
              tasks[n] = start /\ ran = facts \o SubSeq(tasks, n, Len(tasks))

(* Whatever other hosts do to this one, its tasks are run in the order of  *)
(* the play, and none is run twice.                                        *)
RunsForward ==
  \A i \in 1..(Len(ran) - 1) : Before(ran[i], ran[i + 1])

(* The result of a failed task is counted as rescued, and saved for the    *)
(* rescue section, exactly when some block around the task rescues it, as  *)
(* long as no other host and no flush of handlers has moved the host.      *)
RescuedIsRescued ==
  [][TaskFails /\ cur.kind = "plain" /\ calm /\ flushing = <<>>
       => (IsAnyBlockRescuing(hs) <=> Rescuable(play[cur.id[1]], Tail(cur.id)))]_vars

(* Every handler a task has notified is run before the host is done with a *)
(* play that it does not fail.                                             *)
NotifiedHandlersRun ==
  pc = "end" /\ calm /\ ~CheckFailed(hs) => owed = {}

(* Handlers that notify each other do not keep a host from its end.        *)
HostEnds == <>(pc = "end")

(* A block any of whose tasks was run has run its always section before    *)
(* the host is done, whatever failed.                                      *)
AlwaysSectionsRun ==
  pc = "end" /\ calm =>
    \A i \in DOMAIN ran : ran[i] # SetupTask.id =>
      \A item \in AlwaysAround(play[ran[i][1]], Tail(ran[i])) :
        IsBlock(item) \/ \E k \in DOMAIN ran : ran[k] = item.id

(* An error in an always section, a failed handler flushed there included, *)
(* completes the host's run.                                               *)
SectionOf(s) == IF s.run_state = "HANDLERS" THEN s.pre_flushing_run_state ELSE s.run_state
AlwaysErrorsComplete ==
  [][TaskFails /\ SectionOf(hs) = "ALWAYS" /\ hs.child.ALWAYS = <<>>
       => hs'.run_state = "COMPLETE"]_vars

(* Facts are gathered only for a play that asks for it.                    *)
GathersOnlyIfAsked == ~gather => \A i \in DOMAIN ran : ran[i] # SetupTask.id

=============================================================================
