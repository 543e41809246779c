---------------------------- MODULE LinearLockstep ----------------------------
(***************************************************************************)
(* Several hosts of a batch going through a play under the linear          *)
(* strategy: what is picked for a round, what the results of the round do  *)
(* to the hosts, and what is decided when the round is over.               *)
(*                                                                         *)
(*   lib/distronode/plugins/strategy/linear.py                             *)
(*   lib/distronode/plugins/strategy/__init__.py    results, meta tasks    *)
(*   lib/distronode/executor/play_iterator.py       all_tasks, cur_task    *)
(*                                                                         *)
(* LinearDispatch has the workers, the queue and the waiting; here a task  *)
(* that was queued is answered, in any order.                              *)
(***************************************************************************)
EXTENDS BlockSemantics, SequencesExt

CONSTANTS
  Hosts,         (* the hosts, in the order of the inventory                *)
  FailMax        (* a play without max_fail_percentage, in percent          *)

ASSUME HostsAssumption == Hosts # <<>> /\ IsInjective(Hosts)
ASSUME FailMaxAssumption == FailMax \in Nat /\ FailMax >= 100

AllHosts == ToSet(Hosts)
Handlers == 1..NumHandlers

VARIABLES
  play,         (* the play: blocks, gather, serial, runOnce, fatal,        *)
                (* maxFail and notifies                                     *)
  batch,        (* _hosts_cache: the hosts of the batch, in order           *)
  hs,           (* _host_states                                             *)
  flat, ptr,    (* all_tasks, and cur_task: how many of them are behind     *)
  inHandlers,   (* _in_handlers                                             *)
  notifications, notified,  (* per host: saved, and resolved to handlers    *)
  failed, unreachable,      (* the queue manager's hosts                    *)
  removed,      (* _removed_hosts: how often it holds each host             *)
  endPlay,      (* iterator.end_play                                        *)
  broken,       (* RUN_FAILED_BREAK_PLAY is part of the result              *)
  hostsLeft,    (* the hosts the round began with                           *)
  todo,         (* host_tasks: what is left to queue in the round           *)
  queued,       (* <<host, task>> a worker has and has not answered         *)
  results,      (* <<host, outcome>> of the round                           *)
  fatal,        (* any_errors_fatal of the round                            *)
  including,    (* the hosts of an include that is to be loaded             *)
  pc            (* pick, round, advance, over, or crashed                   *)

(* History: the places a host has gone through in the play, those that     *)
(* failed, and whether nothing but its own tasks has moved it; the run_once*)
(* tasks that succeeded; the hosts lost in earlier batches.                *)
VARIABLES ran, bad, calm, once, lost

tqm      == <<failed, unreachable>>
iterator == <<hs, flat, ptr, notifications, notified, removed, endPlay>>
round    == <<hostsLeft, todo, queued, results, fatal, including>>
history  == <<ran, bad, calm, once, lost>>
lockVars == <<play, batch, iterator, inHandlers, tqm, broken, round, pc, history>>

-----------------------------------------------------------------------------
(* Blocks as a flat list of tasks: Block.get_tasks.                        *)
RECURSIVE GetTasks(_)
GetTasks(items) ==
  FlattenSeq([i \in DOMAIN items |->
    IF IsBlock(items[i])
      THEN GetTasks(items[i].TASKS) \o GetTasks(items[i].RESCUE) \o GetTasks(items[i].ALWAYS)
      ELSE <<items[i]>>])

(* The task that flushes handlers at the end of each part of a play is one *)
(* object, in several blocks of its own.                                   *)
Uuid(t) ==
  IF t.kind = "flush" /\ Len(t.id) = 3 /\ play.blocks[t.id[1]].TASKS = <<t>>
    THEN <<0, 0>> ELSE t.id

Noop == Task(<<0, 0, 0>>, "noop")
Metas == {"noop", "flush", "end_host", "end_batch", "end_play", "clear_errors"}
(* Meta tasks that are executed once, for all hosts.                       *)
OnceMetas == {"end_batch", "end_play", "clear_errors"}
RunOnce(t) == t.kind \in OnceMetas \/ t.id \in play.runOnce

NoState == NewState(<<>>, "COMPLETE")

-----------------------------------------------------------------------------
(* _get_next_task_lockstep                                                 *)

HostsLeft == SelectSeq(batch, LAMBDA h : h \notin unreachable)
Peek(h)   == GetNext(hs[h], notified[h], play.gather)

(* Where the shared pointer finds a task of some host: from where it is    *)
(* on, or else from the beginning; 0 if nowhere.                           *)
Wanted(peeks) == {i \in DOMAIN flat : Uuid(flat[i]) \in {Uuid(peeks[h].task) : h \in DOMAIN peeks}}
PointAtLast(peeks) ==
  LET ahead == {i \in Wanted(peeks) : i > ptr}
  IN IF ahead # {} THEN CHOOSE i \in ahead : \A j \in ahead : j <= i
     ELSE IF Wanted(peeks) # {} THEN Lowest(Wanted(peeks)) ELSE 0
PointAhead(peeks) ==
  LET ahead == {i \in Wanted(peeks) : i > ptr}
  IN IF ahead # {} THEN Lowest(ahead) ELSE 0
PointAt(peeks) ==
  LET ahead == {i \in Wanted(peeks) : i > ptr}
  IN IF ahead # {} THEN Lowest(ahead)
     ELSE IF Wanted(peeks) # {} THEN Lowest(Wanted(peeks)) ELSE 0

(* In the phase of handlers, the hosts at the lowest handler; outside it,  *)
(* those at the task pointed at.                                           *)
AtLowestHandler(peeks) ==
  LET flushing == {h \in DOMAIN peeks : peeks[h].state.run_state = "HANDLERS"}
      lowest   == Lowest({peeks[h].state.cur_handlers_task : h \in flushing})
  IN {h \in DOMAIN peeks : peeks[h].state.cur_handlers_task = lowest}
AtTask(peeks, t) == {h \in DOMAIN peeks : Uuid(peeks[h].task) = Uuid(t)}

(* Only the hosts that are given the task move on.                         *)
AllMoved(peeks, matching) ==
  [h \in AllHosts |-> IF h \in DOMAIN peeks THEN peeks[h].state ELSE hs[h]]
Moved(peeks, matching) ==
  [h \in AllHosts |-> IF h \in matching THEN peeks[h].state ELSE hs[h]]

StartRound(peeks, matching) ==
  LET active == SelectSeq(HostsLeft, LAMBDA h : h \in DOMAIN peeks) IN
  /\ hs' = Moved(peeks, matching)
  /\ todo' = [i \in DOMAIN active |->
                <<active[i], IF active[i] \in matching THEN peeks[active[i]].task ELSE Noop>>]
  /\ ran' = [h \in AllHosts |-> IF h \in matching /\ peeks[h].task.kind # "handler"
                                  THEN Append(ran[h], peeks[h].task.id) ELSE ran[h]]
  /\ pc' = "round"

Round ==
  LET peeks  == [h \in {g \in ToSet(HostsLeft) : Peek(g).task # NoTask} |-> Peek(h)]
      phase  == inHandlers /\ \E h \in DOMAIN peeks : peeks[h].state.run_state = "HANDLERS"
      point  == PointAt(peeks)
  IN
  /\ pc = "pick"
  /\ hostsLeft' = HostsLeft
  /\ IF DOMAIN peeks = {}
       THEN pc' = "end" /\ UNCHANGED <<hs, ptr, inHandlers, todo, ran>>
     ELSE IF phase
       THEN StartRound(peeks, AtLowestHandler(peeks)) /\ UNCHANGED <<ptr, inHandlers>>
     ELSE IF point = 0
       THEN pc' = "crashed" /\ UNCHANGED <<hs, ptr, inHandlers, todo, ran>>
     ELSE /\ StartRound(peeks, AtTask(peeks, flat[point]))
          /\ ptr' = point
          /\ inHandlers' = (flat[point].kind = "flush")
  /\ fatal' = FALSE /\ results' = {} /\ including' = {}
  /\ UNCHANGED <<play, batch, flat, notifications, notified, removed, endPlay, tqm, broken,
                 queued, bad, calm, once, lost>>

-----------------------------------------------------------------------------
(* Queueing the hosts of the round one by one: meta tasks are executed at  *)
(* once, other tasks go to a worker.                                       *)

Add(h)      == removed' = [removed EXCEPT ![h] = @ + 1]
AddAll(S)   == removed' = [h \in AllHosts |-> removed[h] + IF h \in S THEN 1 ELSE 0]
Complete(S) == hs' = [h \in AllHosts |->
                        IF h \in S THEN [hs[h] EXCEPT !.run_state = "COMPLETE"] ELSE hs[h]]
Disturb(S)  == calm' = [h \in AllHosts |-> calm[h] /\ h \notin S]
Here        == ToSet(batch) \ unreachable

Flush(h) ==
  /\ notified' = [notified EXCEPT ![h] = @ \cup notifications[h]]
  /\ notifications' = [notifications EXCEPT ![h] = {}]
  /\ hs' = [hs EXCEPT ![h].pre_flushing_run_state = hs[h].run_state,
                      ![h].run_state = "HANDLERS"]
  /\ UNCHANGED <<removed, endPlay, tqm, calm, lost>>

ClearHostErrors ==
  /\ failed' = failed \ ToSet(batch) /\ unreachable' = unreachable \ ToSet(batch)
  /\ hs' = [h \in AllHosts |-> IF h \in ToSet(batch) THEN ClearErrors(hs[h]) ELSE hs[h]]
  /\ Disturb(ToSet(batch)) /\ lost' = lost \ ToSet(batch)
  /\ UNCHANGED <<notifications, notified, removed, endPlay>>

EndHost(h) ==
  /\ Complete({h}) /\ Add(h) /\ Disturb({h})
  /\ UNCHANGED <<notifications, notified, endPlay, tqm, lost>>

EndBatch(whole) ==
  /\ Complete(Here) /\ Disturb(Here)
  /\ endPlay' = (endPlay \/ (whole /\ Here # {}))
  /\ UNCHANGED <<notifications, notified, removed, tqm, lost>>

(* _execute_meta.  A task's when may keep it from doing anything.          *)
ExecuteMeta(h, t) ==
  \/ /\ t.kind = "noop" \/ (play.when /\ t.kind # "flush")
     /\ UNCHANGED <<hs, notifications, notified, removed, endPlay, tqm, calm, lost>>
  \/ t.kind = "flush" /\ Flush(h)
  \/ t.kind = "clear_errors" /\ ClearHostErrors
  \/ t.kind = "end_host" /\ EndHost(h)
  \/ t.kind = "end_batch" /\ EndBatch(FALSE)
  \/ t.kind = "end_play" /\ EndBatch(TRUE)

(* A handler that is queued is no longer notified: for the host, or for    *)
(* all hosts when it is to run once.                                       *)
Unnotify(h, t) ==
  notified' = [g \in AllHosts |-> IF t.kind = "handler" /\ (g = h \/ RunOnce(t))
                                    THEN notified[g] \ {t.id[2]} ELSE notified[g]]

(* A task that is to run once ends the round's queueing.                   *)
AllTheOthers(t) == Tail(todo)
LeftAfter(t) == IF RunOnce(t) THEN <<>> ELSE Tail(todo)

QueueHost ==
  /\ pc = "round" /\ todo # <<>>
  /\ LET h == Head(todo)[1]
         t == Head(todo)[2]
     IN /\ IF t.kind \in Metas
             THEN /\ ExecuteMeta(h, t)
                  /\ results' = results \cup {<<h, "meta">>}
                  /\ UNCHANGED queued
             ELSE /\ queued' = queued \cup {<<h, t>>}
                  /\ Unnotify(h, t)
                  /\ UNCHANGED <<hs, notifications, removed, endPlay, tqm, calm, lost, results>>
        /\ fatal' = (fatal \/ t.id \in play.fatal \/ RunOnce(t))
        /\ todo' = LeftAfter(t)
  /\ UNCHANGED <<play, batch, flat, ptr, inHandlers, broken, hostsLeft, including, pc, ran, bad,
                 once>>

-----------------------------------------------------------------------------
(* _process_pending_results: what the answer of a host does.  Answers are  *)
(* processed while other hosts are queued and after, in any order.         *)

FailHosts(S) ==
  /\ hs' = [h \in AllHosts |-> IF h \in S THEN SetFailed(hs[h]) ELSE hs[h]]
  /\ bad' = [h \in AllHosts |->
                IF h \in S /\ ran[h] # <<>> THEN bad[h] \cup {Last(ran[h])} ELSE bad[h]]

Answered(h, t, outcome) ==
  /\ queued' = queued \ {<<h, t>>}
  /\ results' = results \cup {<<h, outcome>>}
  /\ UNCHANGED <<play, batch, flat, ptr, inHandlers, broken, endPlay, hostsLeft, todo, fatal,
                 pc, ran, lost>>

(* The hosts that fail are removed, and the one that ran the task is back  *)
(* if it is rescued.                                                       *)
RemovedUnlessRescued(h, whom) ==
  [g \in AllHosts |-> removed[g]
     + (IF g \in whom /\ g # h THEN 1 ELSE 0)
     - (IF g = h /\ IsAnyBlockRescuing(hs[h]) THEN 1 ELSE 0)]
RemovedAfter(h, whom) ==
  [g \in AllHosts |-> removed[g]
     + (IF g \in whom THEN 1 ELSE 0)
     - (IF g = h /\ IsAnyBlockRescuing(hs[h]) THEN 1 ELSE 0)]

TaskFailed(h, t) ==
  LET whom == IF t.id \in play.runOnce THEN Here ELSE {h} IN
  /\ FailHosts(whom)
  /\ removed' = RemovedAfter(h, whom)
  /\ failed' = IF /\ CheckFailed(hs'[h])
                  /\ GetNext(hs'[h], notified[h], play.gather).state.run_state = "COMPLETE"
                 THEN failed \cup {h} ELSE failed
  (* others it fails are as if they had failed it, if they are there too   *)
  /\ Disturb({g \in whom : ran[g] = <<>> \/ Last(ran[g]) # Last(ran[h])})
  /\ Answered(h, t, "failed")
  /\ UNCHANGED <<notifications, notified, unreachable, including, once>>

TaskUnreachable(h, t) ==
  /\ play.unreachable
  /\ unreachable' = unreachable \cup {h}
  /\ Add(h) /\ Disturb({h})
  /\ Answered(h, t, "unreachable")
  /\ UNCHANGED <<hs, notifications, notified, failed, including, bad, once>>

TaskOk(h, t) ==
  /\ \E N \in SUBSET (IF play.notifies /\ t.kind = "plain" THEN Handlers ELSE {}) :
       IF hs[h].run_state = "HANDLERS"
         THEN notified' = [notified EXCEPT ![h] = @ \cup N] /\ UNCHANGED notifications
         ELSE notifications' = [notifications EXCEPT ![h] = @ \cup N] /\ UNCHANGED notified
  /\ including' = IF t.kind = "include" THEN including \cup {h} ELSE including
  /\ once' = IF t.id \in play.runOnce THEN once \cup {t.id} ELSE once
  /\ Answered(h, t, "ok")
  /\ UNCHANGED <<hs, removed, tqm, bad, calm>>

Answer == pc = "round" /\ \E q \in queued :
            TaskOk(q[1], q[2]) \/ TaskFailed(q[1], q[2]) \/ TaskUnreachable(q[1], q[2])

-----------------------------------------------------------------------------
(* The end of a round: includes, any_errors_fatal, max_fail_percentage.    *)

(* Loading what was included, for the hosts that included it.              *)
LoadIncluded ==
  LET adds == Last(ran[CHOOSE h \in including : TRUE])
      item == flat[CHOOSE i \in DOMAIN flat : flat[i].id = adds]
  IN
  /\ pc = "round" /\ todo = <<>> /\ queued = {} /\ including # {}
  /\ hs' = [h \in AllHosts |-> IF h \in including THEN InsertTasks(hs[h], item.adds) ELSE hs[h]]
  /\ flat' = SubSeq(flat, 1, ptr) \o GetTasks(item.adds) \o SubSeq(flat, ptr + 1, Len(flat))
  /\ including' = {}
  /\ UNCHANGED <<play, batch, ptr, inHandlers, notifications, notified, removed, endPlay, tqm,
                 broken, hostsLeft, todo, queued, results, fatal, pc, history>>

(* The file cannot be loaded: the hosts are failed, and their results too. *)
IncludeFails ==
  /\ pc = "round" /\ todo = <<>> /\ queued = {} /\ including # {}
  /\ FailHosts(including) /\ AddAll(including)
  /\ failed' = failed \cup including
  /\ results' = results \cup {<<h, "failed">> : h \in including}
  /\ including' = {}
  /\ UNCHANGED <<play, batch, flat, ptr, inHandlers, notifications, notified, unreachable,
                 endPlay, broken, hostsLeft, todo, queued, fatal, pc, ran, calm, once,
                 lost>>

(* get_active_state                                                        *)
RECURSIVE ActiveState(_)
ActiveState(s) == IF HasChild(s) THEN ActiveState(Child(s, s.run_state)) ELSE s

FailedNow ==
  {h \in AllHosts : (<<h, "failed">> \in results \/ <<h, "meta">> \in results) /\ CheckFailed(hs[h])}
UnreachableNow == {h \in AllHosts : <<h, "unreachable">> \in results} \ FailedNow

(* Hosts that are rescued or clean up are not stopped by the error of      *)
(* another.                                                                *)
MayGoOn(h) ==
  LET s == ActiveState(Peek(h).state)
  IN \/ s.run_state = "ALWAYS"
     \/ s.run_state = "RESCUE" /\ "RESCUE" \notin s.fail_state
Stopped ==
  IF fatal /\ FailedNow \cup UnreachableNow # {}
    THEN {h \in ToSet(hostsLeft) : ~MayGoOn(h)} ELSE {}

(* Whether too many hosts have failed, and whom that fails.                *)
TooMany(f) == /\ play.maxFail < FailMax /\ results # {}
              /\ Cardinality(f) * 100 > play.maxFail * Len(batch)
FailedByOthers == IF TooMany(failed \cup Stopped) THEN ToSet(hostsLeft) \ FailedNow ELSE {}

BreaksOnMany == TooMany(failed \cup Stopped)
BreaksPlay   == Stopped # {} \/ TooMany(failed \cup Stopped)

EndRound ==
  /\ pc \in {"round", "end"} /\ todo = <<>> /\ queued = {} /\ including = {}
  /\ failed' = failed \cup Stopped \cup FailedByOthers
  /\ hs' = [h \in AllHosts |-> IF h \in FailedByOthers THEN SetFailed(hs[h]) ELSE hs[h]]
  /\ AddAll(FailedByOthers)
  /\ broken' = (broken \/ BreaksPlay)
  /\ pc' = IF broken' /\ Cardinality(failed') >= Len(hostsLeft) THEN "over"
           ELSE IF pc = "round" THEN "pick" ELSE "advance"
  /\ Disturb(IF pc' = "over" THEN AllHosts ELSE FailedByOthers)
  /\ UNCHANGED <<play, batch, flat, ptr, inHandlers, notifications, notified, unreachable,
                 endPlay, round, ran, bad, once, lost>>

(* StrategyBase.run: the hosts that are left are moved to their end.       *)
Advance ==
  /\ pc = "advance"
  /\ hs' = [h \in AllHosts |-> IF h \in Here THEN Peek(h).state ELSE hs[h]]
  /\ pc' = "over"
  /\ UNCHANGED <<play, batch, flat, ptr, inHandlers, notifications, notified, removed, endPlay,
                 tqm, broken, round, history>>

LockstepNext == \/ Round \/ QueueHost \/ Answer \/ LoadIncluded \/ IncludeFails
                \/ EndRound \/ Advance

=============================================================================
