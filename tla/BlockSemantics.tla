---------------------------- MODULE BlockSemantics ----------------------------
(***************************************************************************)
(* What a play of blocks means for one host, given which of its tasks      *)
(* fail: the tasks that are run, in order, and whether the host is failed  *)
(* at the end.  This is the reference the play iterator is checked against:*)
(* a failure ends a list of tasks; a block whose tasks fail runs its       *)
(* rescue section, if it has one, which makes up for the failure unless it *)
(* fails as well; its always section is run in any case, and fails the     *)
(* block when it fails; a play ends at the first block that fails.         *)
(***************************************************************************)
EXTENDS HostState

Outcome(ran, failed) == [ran |-> ran, failed |-> failed]
Nothing == Outcome(<<>>, FALSE)

RECURSIVE RunItem(_, _)
RECURSIVE RunItems(_, _)

RunBlock(b, bad) ==
  LET tasks  == RunItems(b.TASKS, bad)
      rescue == IF tasks.failed /\ b.RESCUE # <<>>
                  THEN RunItems(b.RESCUE, bad) ELSE Outcome(<<>>, tasks.failed)
      always == RunItems(b.ALWAYS, bad)
  IN Outcome(tasks.ran \o rescue.ran \o always.ran, rescue.failed \/ always.failed)

(* bad is the set of the places of the tasks that fail.                    *)
RunItem(item, bad) ==
  IF IsBlock(item) THEN RunBlock(item, bad)
  ELSE LET added == IF item.id \in bad THEN Outcome(<<>>, TRUE) ELSE RunItems(item.adds, bad)
       IN Outcome(<<item.id>> \o added.ran, added.failed)

RunItems(items, bad) ==
  IF items = <<>> THEN Nothing
  ELSE LET first == RunItem(Head(items), bad)
           rest  == IF first.failed THEN Outcome(<<>>, TRUE) ELSE RunItems(Tail(items), bad)
       IN Outcome(first.ran \o rest.ran, rest.failed)

(* A play gathers facts first when it is asked to.                         *)
RunPlay(play, gather, bad) ==
  RunItems((IF gather THEN <<SetupTask>> ELSE <<>>) \o play, bad)

(* The order of places in a play.                                          *)
Before(p, q) ==
  \E n \in 0..Len(p) :
    /\ n < Len(q) /\ SubSeq(p, 1, n) = SubSeq(q, 1, n)
    /\ n < Len(p) => p[n + 1] < q[n + 1]

(* A place is a path: which section of an item (or what it adds), which    *)
(* item of that, and so on.                                                *)
Inner(item, path) ==
  LET items == CASE path[1] = 1 -> item.TASKS
                 [] path[1] = 2 -> item.RESCUE
                 [] path[1] = 3 -> item.ALWAYS
                 [] path[1] = 4 -> item.adds
  IN items[path[2]]
Rest(path) == SubSeq(path, 3, Len(path))

(* Whether some block around a place has a rescue section for its failure: *)
(* the place lies in the tasks section of a block with a rescue section.   *)
RECURSIVE Rescuable(_, _)
Rescuable(item, path) ==
  /\ path # <<>>
  /\ \/ path[1] = 1 /\ item.RESCUE # <<>>
     \/ Rescuable(Inner(item, path), Rest(path))

(* The first items of the always sections of the blocks around a place.    *)
RECURSIVE AlwaysAround(_, _)
AlwaysAround(item, path) ==
  IF path = <<>> THEN {}
  ELSE (IF IsBlock(item) /\ item.ALWAYS # <<>> THEN {item.ALWAYS[1]} ELSE {})
         \cup AlwaysAround(Inner(item, path), Rest(path))

=============================================================================
