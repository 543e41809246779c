------------------------------- MODULE Playbook -------------------------------
(***************************************************************************)
(* A playbook: its plays one after the other, each in batches of hosts,    *)
(* and what one batch leaves behind for the next.                          *)
(*                                                                         *)
(*   lib/distronode/executor/playbook_executor.py    run, batches          *)
(*   lib/distronode/executor/task_queue_manager.py   run                   *)
(***************************************************************************)
EXTENDS LinearLockstep, Integers

CONSTANT Playbooks  (* what is run: sequences of plays                      *)

VARIABLES
  plays,        (* the plays that are left                                  *)
  batches,      (* the batches of the play that are left                    *)
  previously,   (* how many hosts were failed, and how many unreachable     *)
  breakPlay,    (* break_play                                               *)
  away,         (* the executor's _unreachable_hosts                        *)
  code          (* result: ok, failed, unreachable or break                 *)

executor == <<plays, batches, previously, breakPlay, away, code>>
vars     == <<lockVars, executor>>

-----------------------------------------------------------------------------
(* _get_serialized_batches.  An entry of serial is a number, or a          *)
(* percentage of the hosts of the play, of which it is at least one.       *)
PctToInt(entry, total) ==
  IF entry.pct THEN LET n == (entry.n * total) \div 100 IN IF n = 0 THEN 1 ELSE n
  ELSE entry.n

RECURSIVE BatchesOf(_, _, _)
BatchesOf(hosts, serial, total) ==
  LET size == PctToInt(Head(serial), total)
      rest == IF Len(serial) = 1 THEN serial ELSE Tail(serial)
      n    == IF size < Len(hosts) THEN size ELSE Len(hosts)
  IN IF hosts = <<>> THEN <<>>
     ELSE IF size <= 0 THEN <<hosts>>
     ELSE <<SubSeq(hosts, 1, n)>>
            \o BatchesOf(SubSeq(hosts, n + 1, Len(hosts)), rest, total)

Everyone == [pct |-> FALSE, n |-> -1]
Batches(p) ==
  BatchesOf(p.hosts, IF p.serial = <<>> THEN <<Everyone>> ELSE p.serial, Len(p.hosts))

(* The batches of a play are its hosts in their order, none of them empty; *)
(* all but the last are as large as their entries of serial say, and an    *)
(* entry that is not positive takes all hosts that are left.               *)
BatchesAreTheHosts(p) ==
  LET bs == Batches(p)
      serial == IF p.serial = <<>> THEN <<Everyone>> ELSE p.serial
      size(i) == PctToInt(serial[IF i < Len(serial) THEN i ELSE Len(serial)], Len(p.hosts))
  IN /\ FlattenSeq(bs) = p.hosts
     /\ <<>> \notin ToSet(bs)
     /\ \A i \in DOMAIN bs : i < Len(bs) => size(i) > 0 /\ Len(bs[i]) = size(i)

-----------------------------------------------------------------------------
NoRound ==
  /\ hostsLeft' = <<>> /\ todo' = <<>> /\ queued' = {} /\ results' = {}
  /\ fatal' = FALSE /\ including' = {}

Init ==
  /\ plays \in Playbooks
  /\ batches = <<>> /\ previously = [failed |-> 0, unreachable |-> 0]
  /\ breakPlay = FALSE /\ away = {} /\ code = "ok"
  /\ play = plays[1] /\ batch = <<>>
  /\ hs = [h \in AllHosts |-> NoState] /\ flat = <<>> /\ ptr = 0
  /\ notifications = [h \in AllHosts |-> {}] /\ notified = [h \in AllHosts |-> {}]
  /\ removed = [h \in AllHosts |-> 0] /\ endPlay = FALSE /\ inHandlers = FALSE
  /\ failed = {} /\ unreachable = {} /\ broken = FALSE
  /\ hostsLeft = <<>> /\ todo = <<>> /\ queued = {} /\ results = {}
  /\ fatal = FALSE /\ including = {}
  /\ ran = [h \in AllHosts |-> <<>>] /\ bad = [h \in AllHosts |-> {}]
  /\ calm = [h \in AllHosts |-> TRUE] /\ once = {} /\ lost = {}
  /\ pc = "play"

(* The next play: hosts that are away are unreachable again.               *)
NextPlay ==
  /\ pc = "play" /\ plays # <<>> /\ ~breakPlay
  /\ play' = Head(plays) /\ plays' = Tail(plays)
  /\ unreachable' = unreachable \cup away
  /\ previously' = [failed |-> Cardinality(failed), unreachable |-> Cardinality(unreachable')]
  /\ batches' = Batches(Head(plays))
  /\ pc' = "batch"
  /\ UNCHANGED <<batch, iterator, inHandlers, failed, broken, round, breakPlay, away, code,
                 history>>

(* The queue manager runs a batch: a new iterator, in which the hosts that *)
(* failed before are failed from the start, in a stub of a state if they   *)
(* are not in the batch.                                                   *)
MarkNone(states) == states
MarkEarlierFailed(states) ==
  [h \in AllHosts |->
     IF h \notin failed THEN states[h]
     ELSE SetFailed(IF h \in ToSet(batch') THEN states[h] ELSE NewState(<<>>, "SETUP"))]
StartStates(p, hosts) ==
  [h \in AllHosts |-> IF h \in ToSet(hosts)
                        THEN NewState(<<SetupBlock>> \o p.blocks, "SETUP") ELSE NoState]

NextBatch ==
  /\ pc = "batch" /\ batches # <<>>
  /\ batch' = Head(batches) /\ batches' = Tail(batches)
  /\ hs' = MarkEarlierFailed(StartStates(play, batch'))
  /\ flat' = <<SetupTask>> \o GetTasks(play.blocks) /\ ptr' = 0
  /\ notifications' = [h \in AllHosts |-> {}] /\ notified' = [h \in AllHosts |-> {}]
  /\ removed' = [h \in AllHosts |-> (IF h \in failed THEN 1 ELSE 0)
                                     + (IF h \in unreachable THEN 1 ELSE 0)]
  /\ endPlay' = FALSE /\ inHandlers' = FALSE /\ broken' = FALSE
  /\ failed' = {} /\ NoRound
  /\ ran' = [h \in AllHosts |-> <<>>] /\ bad' = [h \in AllHosts |-> {}]
  /\ calm' = [h \in AllHosts |-> h \notin lost] /\ once' = {}
  /\ pc' = "pick"
  /\ UNCHANGED <<play, unreachable, plays, previously, breakPlay, away, code, lost>>

ResultOfFailed ==
  IF broken THEN "break"
  ELSE IF \E h \in AllHosts : CheckFailed(hs[h]) THEN "failed" ELSE "ok"
FailedHosts == {h \in AllHosts : CheckFailed(hs[h])}
RunResult ==
  IF broken THEN "break"
  ELSE IF unreachable # {} THEN "unreachable"
  ELSE IF FailedHosts # {} THEN "failed" ELSE "ok"

(* The batch is over; the executor gives up the play when the result says  *)
(* so or when the batch has lost as many hosts as it has.                  *)
BatchOver ==
  LET allFailed == failed \cup FailedHosts
      count == Cardinality(allFailed) + Cardinality(unreachable)
                 - (previously.failed + previously.unreachable)
  IN
  /\ pc = "over"
  /\ failed' = allFailed
  /\ lost' = lost \cup allFailed \cup unreachable
  /\ IF endPlay
       THEN /\ code' = RunResult /\ batches' = <<>>
            /\ UNCHANGED <<breakPlay, previously, away>>
       ELSE /\ code' = IF broken THEN "failed" ELSE RunResult
            /\ breakPlay' = (breakPlay \/ broken \/ count = Len(batch))
            /\ IF count = Len(batch)
                 THEN batches' = <<>> /\ UNCHANGED <<previously, away>>
                 ELSE /\ previously' = [failed |-> Cardinality(allFailed),
                                        unreachable |-> Cardinality(unreachable)]
                      /\ away' = away \cup unreachable
                      /\ UNCHANGED batches
  /\ pc' = "batch"
  /\ UNCHANGED <<play, batch, iterator, inHandlers, unreachable, broken, round, plays,
                 ran, bad, calm, once>>

PlayOver ==
  /\ pc = "batch" /\ batches = <<>>
  /\ pc' = IF breakPlay \/ plays = <<>> THEN "stop" ELSE "play"
  /\ UNCHANGED <<play, batch, iterator, inHandlers, tqm, broken, round, executor, history>>

Stop == pc \in {"stop", "crashed"} /\ UNCHANGED vars

Lockstep == LockstepNext /\ UNCHANGED executor
Next == NextPlay \/ NextBatch \/ Lockstep \/ BatchOver \/ PlayOver \/ Stop

(* The controller goes on and every task is answered: weak fairness of the *)
(* steps before Stop, one of which is enabled until then.                  *)
Spec     == Init /\ [][Next]_vars
FairSpec == Spec /\ ([]<>(pc \in {"stop", "crashed"}) \/ []<><<Next>>_vars)

-----------------------------------------------------------------------------
(* Properties.                                                             *)

PlaybookTypeOK ==
  /\ pc \in {"play", "batch", "pick", "round", "end", "advance", "over", "stop", "crashed"}
  /\ failed \subseteq AllHosts /\ unreachable \subseteq AllHosts /\ away \subseteq AllHosts
  /\ ptr \in 0..Len(flat)
  /\ \A h \in AllHosts : removed[h] \in Nat
  /\ \A q \in queued : q[1] \in ToSet(batch) /\ q[2].kind \notin Metas
  /\ code \in {"ok", "failed", "unreachable", "break"}

(* Outside the phase of handlers no host is left behind: the task of a     *)
(* round comes before, or is, the next task of every other host that goes  *)
(* through its play undisturbed.                                           *)
LowestFirst ==
  [][pc = "pick" /\ pc' = "round" /\ ptr' # ptr =>
       \A h \in ToSet(HostsLeft) : calm[h] /\ Peek(h).task # NoTask =>
         ~Before(Peek(h).task.id, flat[ptr'].id)]_vars

(* A host that is moved by nothing but its own tasks, and those that are   *)
(* run once for it by another host, goes through the tasks its blocks call *)
(* for, and is failed when they say so.                                    *)
HostsDoAsBlocksSay ==
  pc = "over" => \A h \in ToSet(batch) : calm[h] =>
    LET o == RunPlay(play.blocks, play.gather, bad[h])
    IN ran[h] = o.ran /\ CheckFailed(hs[h]) = o.failed

(* A task that is to run once, and succeeded, is not run by another host of*)
(* the batch.                                                              *)
RunOnceIsOnce ==
  [][todo' # todo /\ pc' = pc /\ queued' # queued => Head(todo)[2].id \notin once]_vars

(* A host lost in an earlier batch is given no task, as long as nobody     *)
(* clears its errors.                                                      *)
LostStayOut == \A q \in queued : q[1] \notin lost

(* A host whose failures were all rescued is among the hosts of the play   *)
(* (distronode_play_hosts) at its end.                                     *)
AllRescuedAreBack ==
  pc = "over" => \A h \in ToSet(batch) :
    calm[h] /\ ~CheckFailed(hs[h]) => removed[h] = 0
(* As far as that goes: a host is put back for each of its own tasks that  *)
(* was rescued, in whichever section and whatever ran in between, but not  *)
(* when a handler failed in a flush (run state HANDLERS is not taken for   *)
(* rescuing), nor when another host failed a task for it.                  *)
Flushes == {t.id : t \in {x \in ToSet(GetTasks(play.blocks)) : x.kind = "flush"}}
RescuedIsBack ==
  pc = "over" => \A h \in ToSet(batch) :
    calm[h] /\ ~CheckFailed(hs[h]) /\ bad[h] \cap play.runOnce = {}
      => removed[h] = Cardinality(bad[h] \cap Flushes)

(* An error at a task that is fatal for all hosts, and which no block      *)
(* rescues, ends the play: no host goes on to a later block.               *)
FatalEndsPlay ==
  pc = "over" => \A g, h \in ToSet(batch) : \A p \in bad[g] \cap play.fatal :
    Rescuable(play.blocks[p[1]], Tail(p)) \/ \A i \in DOMAIN ran[h] : ran[h][i][1] <= p[1]

(* The playbook's result tells whether hosts were lost.                    *)
ResultTells == pc = "stop" => (code = "ok" <=> lost = {})

(* When all hosts of a batch are lost the play is given up.                *)
LostBatchEndsPlay ==
  [][pc = "over" /\ pc' = "batch" /\ ToSet(batch) \subseteq failed' \cup unreachable => batches' = <<>>]_vars

(* Every playbook comes to its end: the hosts neither wait for one another *)
(* for ever nor end in the assertion about a mismatch with the pointer they*)
(* share.                                                                  *)
PlaybookEnds == <>(pc = "stop")

=============================================================================
