------------------------------- MODULE HostState -------------------------------
(***************************************************************************)
(* The state of one host in the play iterator and the functions that step  *)
(* it, as pure operators.                                                  *)
(*                                                                         *)
(*   lib/distronode/executor/play_iterator.py   HostState, PlayIterator    *)
(*                                                                         *)
(* A block maps each of its three sections to a sequence of tasks and      *)
(* blocks.  The cursor (cur_regular_task, cur_rescue_task, cur_always_task)*)
(* and the child state of a section are kept per section, a child as a     *)
(* sequence of at most one state.                                          *)
(***************************************************************************)
EXTENDS Naturals, Sequences, FiniteSets

CONSTANT NumHandlers  (* the number of handlers of the play *)

ASSUME HandlersAssumption == NumHandlers \in Nat

Sections  == {"TASKS", "RESCUE", "ALWAYS"}
RunStates == Sections \cup {"SETUP", "HANDLERS", "COMPLETE"}

(* Tasks: id is the place in the play, kind is plain, include, flush (the  *)
(* meta task), setup or handler; adds are the blocks a successful include  *)
(* adds.                                                                   *)
Task(id, kind)    == [id |-> id, kind |-> kind, adds |-> <<>>]
Include(id, adds) == [id |-> id, kind |-> "include", adds |-> adds]
HandlerTask(i)    == Task(<<0, i>>, "handler")
NoTask            == Task(<<>>, "none")
SetupTask         == Task(<<0>>, "setup")

Block(tasks, rescue, always) == [TASKS |-> tasks, RESCUE |-> rescue, ALWAYS |-> always]
IsBlock(item) == "TASKS" \in DOMAIN item
SetupBlock    == Block(<<SetupTask>>, <<>>, <<>>)

NewState(blocks, run) ==
  [blocks            |-> blocks,
   cur_block         |-> 1,
   cur               |-> [r \in Sections |-> 0],
   child             |-> [r \in Sections |-> <<>>],
   run_state         |-> run,
   fail_state        |-> {},
   did_rescue        |-> FALSE,
   pending_setup     |-> FALSE,
   did_start_at_task |-> FALSE,
   update_handlers   |-> TRUE,
   cur_handlers_task |-> 0,
   pre_flushing_run_state |-> "none"]

Current(s)  == s.blocks[s.cur_block]
Child(s, r) == s.child[r][1]
HasChild(s) == s.run_state \in Sections /\ s.child[s.run_state] # <<>>

(* Moving on to the next block.                                            *)
NextBlockKeepsCursor(s) == [s EXCEPT !.cur_block = @ + 1, !.run_state = "TASKS"]
NextBlock(s) ==
  [s EXCEPT !.cur_block = @ + 1,
            !.cur = [r \in Sections |-> 0],
            !.child = [r \in Sections |-> <<>>],
            !.run_state = "TASKS"]

-----------------------------------------------------------------------------
(* _check_failed_state                                                     *)
RECURSIVE CheckFailed(_)
CheckFailed(s) ==
  LET childFailed == HasChild(s) /\ CheckFailed(Child(s, s.run_state)) IN
  \/ s.run_state \in {"RESCUE", "ALWAYS"} /\ childFailed
  \/ s.run_state = "HANDLERS" /\ "HANDLERS" \in s.fail_state
  \/ /\ s.fail_state # {}
     /\ ~(s.run_state \in {"RESCUE", "ALWAYS"} /\ s.run_state \notin s.fail_state)
     /\ ~(s.did_rescue /\ "ALWAYS" \notin s.fail_state)
  \/ /\ s.fail_state = {} /\ s.run_state = "TASKS" /\ childFailed
     /\ Current(s).RESCUE = <<>>

(* Where a failure leads: the first of these sections the block has.       *)
FirstOf(b, sections) ==
  IF \E i \in DOMAIN sections : b[sections[i]] # <<>>
    THEN sections[CHOOSE i \in DOMAIN sections :
                    /\ b[sections[i]] # <<>>
                    /\ \A k \in 1..(i - 1) : b[sections[k]] = <<>>]
    ELSE "COMPLETE"

FallbackSkipsAlways(r, b) ==
  IF r \in {"TASKS", "HANDLERS"} THEN FirstOf(b, <<"RESCUE">>) ELSE "COMPLETE"
Fallback(r, b) ==
  CASE r \in {"TASKS", "HANDLERS"} -> FirstOf(b, <<"RESCUE", "ALWAYS">>)
    [] r = "RESCUE"                -> FirstOf(b, <<"ALWAYS">>)
    [] r = "ALWAYS"                -> "COMPLETE"

(* _set_failed_state                                                       *)
RECURSIVE SetFailed(_)
SetFailed(s) ==
  LET r == s.run_state IN
  IF r = "COMPLETE" THEN s
  ELSE IF r = "SETUP" THEN [s EXCEPT !.fail_state = @ \cup {r}, !.run_state = "COMPLETE"]
  ELSE IF HasChild(s) THEN [s EXCEPT !.child[r] = <<SetFailed(Child(s, r))>>]
  ELSE [s EXCEPT !.fail_state = @ \cup {r},
                 !.run_state = Fallback(r, Current(s)),
                 !.update_handlers = @ \/ r = "HANDLERS"]

-----------------------------------------------------------------------------
(* _get_next_task_from_state, one trip through its loop per application.   *)

Found(s, t) == [state |-> s, task |-> t]

(* What is left of the failures once the rescue section has been run.      *)
AfterRescue(s)       == IF Current(s).RESCUE = <<>> THEN s.fail_state ELSE {}

(* Leaving a section when its tasks are used up.                           *)
EndSection(s) ==
  CASE s.run_state = "TASKS"  -> [s EXCEPT !.run_state = "ALWAYS"]
    [] s.run_state = "RESCUE" -> [s EXCEPT !.fail_state = AfterRescue(s),
                                           !.run_state = "ALWAYS", !.did_rescue = TRUE]
    [] s.run_state = "ALWAYS" -> IF s.fail_state # {}
                                   THEN [s EXCEPT !.run_state = "COMPLETE"]
                                   ELSE [NextBlock(s) EXCEPT !.did_rescue = FALSE]

(* A section is given up before its end when the state has failed in it.   *)
GivesUp(s) ==
  \/ s.run_state = "TASKS" /\ CheckFailed(s)
  \/ s.run_state = "RESCUE" /\ "RESCUE" \in s.fail_state

GiveUp(s) == [s EXCEPT !.run_state = IF @ = "TASKS" THEN "RESCUE" ELSE "ALWAYS"]

(* The two trips through SETUP: whether to gather facts, then moving on.   *)
SecondTripMovesOn(s) == NextBlock([s EXCEPT !.pending_setup = FALSE])
SecondTrip(s) ==
  LET on == [s EXCEPT !.pending_setup = FALSE, !.run_state = "TASKS"]
  IN IF s.did_start_at_task THEN on ELSE NextBlock(on)

(* Each flush goes through the handlers from the first one again.          *)
RefreshEveryTime(s)  == [s EXCEPT !.update_handlers = FALSE, !.cur_handlers_task = 0]
Refresh(s) ==
  IF s.update_handlers
    THEN [s EXCEPT !.update_handlers = FALSE, !.cur_handlers_task = 0] ELSE s

(* The handlers after the cursor this host is notified for.                *)
Ahead(s, notified) == {i \in (s.cur_handlers_task + 1)..NumHandlers : i \in notified}
Lowest(S)          == CHOOSE i \in S : \A k \in S : i <= k

RECURSIVE NextFrom(_, _, _)
NextFrom(s, notified, gather) ==
  LET r == s.run_state
      Loop(s2, t) == IF t # NoTask THEN Found(s2, t) ELSE NextFrom(s2, notified, gather)
      FromChild ==
        LET n == NextFrom(Child(s, r), notified, gather)
            dropped == [s EXCEPT !.child[r] = <<>>]
        IN IF CheckFailed(n.state) THEN Loop(SetFailed(dropped), n.task)
           ELSE IF n.task = NoTask \/ n.state.run_state = "COMPLETE"
             THEN Loop(dropped, NoTask)
           ELSE Found([s EXCEPT !.child[r] = <<n.state>>], n.task)
      FromSection ==
        LET item == Current(s)[r][s.cur[r] + 1]
            taken == [s EXCEPT !.cur[r] = @ + 1]
        IN IF GivesUp(s) THEN Loop(GiveUp(s), NoTask)
           ELSE IF s.cur[r] >= Len(Current(s)[r]) THEN Loop(EndSection(s), NoTask)
           ELSE IF IsBlock(item)
             THEN Loop([taken EXCEPT !.child[r] = <<NewState(<<item>>, "TASKS")>>], NoTask)
           ELSE Found(taken, item)
      FromHandlers ==
        LET f == Refresh(s)
            next == Lowest(Ahead(f, notified))
        IN IF "HANDLERS" \in f.fail_state
             THEN Loop([f EXCEPT !.update_handlers = TRUE, !.run_state = "COMPLETE"], NoTask)
           ELSE IF Ahead(f, notified) = {}
             THEN Loop([f EXCEPT !.update_handlers = TRUE, !.cur_handlers_task = NumHandlers,
                                 !.run_state = f.pre_flushing_run_state], NoTask)
           ELSE Found([f EXCEPT !.cur_handlers_task = next], HandlerTask(next))
      FromSetup ==
        IF s.pending_setup THEN Loop(SecondTrip(s), NoTask)
        ELSE Loop([s EXCEPT !.pending_setup = TRUE], IF gather THEN SetupTask ELSE NoTask)
  IN IF s.cur_block > Len(s.blocks) THEN Found([s EXCEPT !.run_state = "COMPLETE"], NoTask)
     ELSE CASE r = "COMPLETE"  -> Found(s, NoTask)
            [] r = "SETUP"     -> FromSetup
            [] r = "HANDLERS"  -> FromHandlers
            [] r \in Sections -> IF HasChild(s) THEN FromChild ELSE FromSection

(* get_next_task_for_host, with peek                                       *)
GetNext(s, notified, gather) ==
  IF s.run_state = "COMPLETE" THEN Found(s, NoTask) ELSE NextFrom(s, notified, gather)

-----------------------------------------------------------------------------
(* _clear_state_errors: of several children only the first is visited.     *)
FirstChild(s) ==
  IF \E r \in Sections : s.child[r] # <<>>
    THEN FirstOf(s.child, <<"TASKS", "RESCUE", "ALWAYS">>) ELSE "none"

RECURSIVE ClearErrors(_)
ClearErrors(s) ==
  LET c == [s EXCEPT !.fail_state = {}]
      r == FirstChild(s)
  IN IF r = "none" THEN c ELSE [c EXCEPT !.child[r] = <<ClearErrors(Child(s, r))>>]

(* is_any_block_rescuing                                                   *)
IsBlockRescuingHere(s) == s.run_state = "TASKS" /\ Current(s).RESCUE # <<>>
RECURSIVE IsAnyBlockRescuing(_)
IsAnyBlockRescuing(s) ==
  \/ s.run_state = "TASKS" /\ Current(s).RESCUE # <<>>
  \/ /\ FirstChild(s) # "none"
     /\ IsAnyBlockRescuing(Child(s, FirstChild(s)))

(* _insert_tasks_into_state, for a host that is not flushing handlers      *)
SplicedLate(list, n, items) ==
  LET m == IF n < Len(list) THEN n + 1 ELSE n
  IN SubSeq(list, 1, m) \o items \o SubSeq(list, m + 1, Len(list))
Spliced(list, n, items)     == SubSeq(list, 1, n) \o items \o SubSeq(list, n + 1, Len(list))
RECURSIVE InsertTasks(_, _)
InsertTasks(s, items) ==
  LET r == s.run_state
  IN IF items = <<>> \/ (s.fail_state # {} /\ r = "TASKS") \/ r \notin Sections THEN s
     ELSE IF HasChild(s) THEN [s EXCEPT !.child[r] = <<InsertTasks(Child(s, r), items)>>]
     ELSE [s EXCEPT !.blocks[s.cur_block][r] = Spliced(@, s.cur[r], items)]

=============================================================================
