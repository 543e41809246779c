----------------------------- MODULE InventoryData -----------------------------
(***************************************************************************)
(* The graph of groups and hosts, as operators from one inventory to the   *)
(* next.                                                                   *)
(*                                                                         *)
(*   lib/distronode/inventory/group.py   Group                             *)
(*   lib/distronode/inventory/host.py    Host                              *)
(*   lib/distronode/inventory/data.py    InventoryData                     *)
(*                                                                         *)
(* Groups and hosts are their names: the dictionaries of InventoryData     *)
(* keep names apart.  A group's child_groups and its children's            *)
(* parent_groups are the same pairs, and the order of hosts in a group is  *)
(* left out.                                                               *)
(***************************************************************************)
EXTENDS Naturals, FiniteSets, Sequences

CONSTANTS
  HostNames,    (* names of hosts                                           *)
  UserGroups,   (* names of groups, all and ungrouped apart                 *)
  Unknown       (* a cache that is None, or an empty dictionary             *)

GroupNames == UserGroups \cup {"all", "ungrouped"}

(* An inventory: the groups and hosts there are, the pairs of a group and  *)
(* its child, the hosts put into each group, what each host takes to be    *)
(* its groups, the depths, and two caches.                                 *)
Inventories ==
  [groups   : SUBSET GroupNames,
   hosts    : SUBSET HostNames,
   children : SUBSET (GroupNames \X GroupNames),
   members  : [GroupNames -> SUBSET HostNames],
   groupsOf : [HostNames -> SUBSET GroupNames],
   depth    : [GroupNames -> Nat],
   seen     : [GroupNames -> {Unknown} \cup SUBSET HostNames],
   dict     : {Unknown} \cup [GroupNames -> SUBSET HostNames]]

ASSUME NamesAssumption ==
  /\ IsFiniteSet(HostNames) /\ IsFiniteSet(UserGroups)
  /\ "all" \notin UserGroups /\ "ungrouped" \notin UserGroups
  /\ \A hs \in SUBSET HostNames : Unknown # hs
  /\ Unknown \notin Inventories

-----------------------------------------------------------------------------
(* Loops: body[x][i] is what the turn of x makes of i.                     *)

(* Over the members of S, last[s] being the last of those in s.            *)
Loop(S, last, body, start) ==
  LET after[s \in SUBSET S] ==
        IF s = {} THEN start ELSE body[last[s]][after[s \ {last[s]}]]
  IN after[S]

(* In no particular order, and in the order of a sequence.                 *)
ForEach(S, body, start) ==
  Loop(S, [s \in (SUBSET S) \ {{}} |-> CHOOSE x \in s : TRUE], body, start)

InOrder(seq, body, start) ==
  Loop(DOMAIN seq, [s \in (SUBSET DOMAIN seq) \ {{}} |-> CHOOSE k \in s : \A j \in s : j <= k],
       [k \in DOMAIN seq |-> body[seq[k]]], start)

-----------------------------------------------------------------------------
(* Walking up and down.                                                    *)

Parents(inv, gs)  == {e[1] : e \in {e \in inv.children : e[2] \in gs}}
Children(inv, gs) == {e[2] : e \in {e \in inv.children : e[1] \in gs}}

Upwards(inv) == {<<e[2], e[1]>> : e \in inv.children}

(* _walk_relationship, which ends after as many rounds as there are groups *)
(* at the latest.                                                          *)
Walks == [seen : SUBSET GroupNames, unprocessed : SUBSET GroupNames]

WalkRound(edges, w) ==
  LET seen == w.seen \cup w.unprocessed
  IN [seen        |-> seen,
      unprocessed |-> {e[2] : e \in {e \in edges : e[1] \in w.unprocessed}} \ seen]

Walk(edges, start) ==
  ForEach(GroupNames, [n \in GroupNames |-> [w \in Walks |-> WalkRound(edges, w)]],
          [seen |-> {}, unprocessed |-> start]).seen

GetAncestors(inv, g)   == Walk(Upwards(inv), Parents(inv, {g}))
GetDescendants(inv, g) == Walk(inv.children, {g} \cup Children(inv, {g}))

(* get_hosts: from the cache if it is there; HostsSeen is the inventory    *)
(* afterwards.                                                             *)
GetHosts(inv, g) ==
  IF inv.seen[g] # Unknown THEN inv.seen[g]
  ELSE UNION {inv.members[d] : d \in GetDescendants(inv, g)}

HostsSeen(inv, gs) ==
  [inv EXCEPT !.seen = [g \in GroupNames |-> IF g \in gs THEN GetHosts(inv, g) ELSE @[g]]]

ClearsOwnCache(inv, g) == [inv EXCEPT !.seen[g] = Unknown]
ClearHostsCache(inv, g) ==
  [inv EXCEPT !.seen = [d \in GroupNames |->
     IF d \in {g} \cup GetAncestors(inv, g) THEN Unknown ELSE @[d]]]

-----------------------------------------------------------------------------
(* Group.                                                                  *)

OwnDepthOnly(inv, g) == inv.depth

(* _check_children_depth: level by level below a group whose depth grew,   *)
(* as far as depths grow.                                                  *)
Deepenings == [depth : [GroupNames -> Nat], level : Nat, unprocessed : SUBSET GroupNames]

DeepenRound(inv, d) ==
  LET raised == {g \in d.unprocessed : d.depth[g] < d.level}
  IN [depth       |-> [g \in GroupNames |-> IF g \in raised THEN d.level ELSE d.depth[g]],
      level       |-> d.level + 1,
      unprocessed |-> Children(inv, raised)]

Deepen(inv, g) ==
  ForEach(GroupNames, [n \in GroupNames |-> [d \in Deepenings |-> DeepenRound(inv, d)]],
          [depth |-> inv.depth, level |-> inv.depth[g] + 1,
           unprocessed |-> Children(inv, {g})]).depth

TellsOwnHosts(inv, p, c) ==
  ClearHostsCache(
    [inv EXCEPT !.children = @ \cup {<<p, c>>},
                !.groupsOf = [h \in HostNames |->
                   IF h \in inv.members[c] THEN @[h] \cup {p} \cup GetAncestors(inv, p)
                   ELSE @[h]]], p)

(* add_child_group, when it is neither a loop nor there already.           *)
Adopt(inv, p, c) ==
  LET gained == ({p} \cup GetAncestors(inv, p)) \ GetAncestors(inv, c)
      own    == IF inv.depth[p] + 1 > inv.depth[c] THEN inv.depth[p] + 1 ELSE inv.depth[c]
      linked == [inv EXCEPT !.children = @ \cup {<<p, c>>}, !.depth[c] = own]
      deeper == [linked EXCEPT !.depth = Deepen(linked, c)]
      asked  == HostsSeen(deeper, {c})
  IN ClearHostsCache(
       [asked EXCEPT !.groupsOf = [h \in HostNames |->
          IF h \in GetHosts(deeper, c) THEN @[h] \cup gained ELSE @[h]]], p)

AddsLoop(inv, p, c) == p = c \/ c \in GetAncestors(inv, p)

AddChildGroup(inv, p, c) == IF <<p, c>> \in inv.children THEN inv ELSE Adopt(inv, p, c)

(* Host.add_group.                                                         *)
JoinGroup(inv, h, g) ==
  [inv EXCEPT !.groupsOf[h] = @ \cup GetAncestors(inv, g) \cup {g}]

AddToGroup(inv, g, h) ==
  IF h \in inv.members[g] THEN inv
  ELSE ClearHostsCache(JoinGroup([inv EXCEPT !.members[g] = @ \cup {h}], h, g), g)

(* Host.remove_group: an ancestor goes with the group unless another group *)
(* of the host is below it.  The call for each such ancestor is folded in. *)
LeaveGroup(inv, h, g) ==
  LET gone   == {g} \cup GetAncestors(inv, g)
      others == inv.groupsOf[h] \ gone
      kept   == {a \in gone \ {g} : \/ a = "all"
                                     \/ \E o \in others : a \in GetAncestors(inv, o)}
  IN IF g \notin inv.groupsOf[h] THEN inv
     ELSE [inv EXCEPT !.groupsOf[h] = others \cup (@ \cap kept)]

RemoveFromGroup(inv, g, h) ==
  IF h \notin inv.members[g] THEN inv
  ELSE ClearHostsCache(LeaveGroup([inv EXCEPT !.members[g] = @ \ {h}], h, g), g)

-----------------------------------------------------------------------------
(* InventoryData.                                                          *)

NoInventory ==
  [groups   |-> {}, hosts |-> {}, children |-> {},
   members  |-> [g \in GroupNames |-> {}],
   groupsOf |-> [h \in HostNames |-> {}],
   depth    |-> [g \in GroupNames |-> 0],
   seen     |-> [g \in GroupNames |-> Unknown],
   dict     |-> Unknown]

AddGroup(inv, g) ==
  IF g \in inv.groups THEN inv
  ELSE [inv EXCEPT !.groups = @ \cup {g}, !.dict = Unknown]

AddHost(inv, h, g) ==
  [AddToGroup([inv EXCEPT !.hosts = @ \cup {h}], g, h) EXCEPT !.dict = Unknown]

(* add_child of a group; of a host it is AddToGroup.                       *)
AddChild(inv, p, c) == [AddChildGroup(inv, p, c) EXCEPT !.dict = Unknown]

NewInventory ==
  AddChild(AddGroup(AddGroup(NoInventory, "all"), "ungrouped"), "all", "ungrouped")

Rootless(inv) == {g \in inv.groups \ {"all"} : GetAncestors(inv, g) = {}}

(* A host that is in no group but all goes into ungrouped, and one that is *)
(* in another group goes out of it.                                        *)
Settle(inv, h) ==
  LET others == inv.groupsOf[h] \ {"all", "ungrouped"}
  IN IF "ungrouped" \in inv.groupsOf[h]
     THEN IF others # {} THEN RemoveFromGroup(inv, "ungrouped", h) ELSE inv
     ELSE IF others = {} THEN AddToGroup(inv, "ungrouped", h) ELSE inv

ReconcileInventory(inv) ==
  LET rooted  == ForEach(Rootless(inv),
                   [g \in GroupNames |-> [i \in Inventories |-> AddChild(i, "all", g)]], inv)
      settled == ForEach(inv.hosts,
                   [h \in HostNames |-> [i \in Inventories |-> Settle(i, h)]], rooted)
  IN [settled EXCEPT !.dict = Unknown]

(* get_groups_dict.                                                        *)
WithGroupsDict(inv) ==
  IF inv.dict # Unknown THEN inv
  ELSE [HostsSeen(inv, inv.groups) EXCEPT !.dict =
          [g \in GroupNames |-> IF g \in inv.groups THEN GetHosts(inv, g) ELSE {}]]

-----------------------------------------------------------------------------
(* What it means to be below a group: to be in every set of groups that    *)
(* has the group and, with a group, its children.                          *)
Below(edges, g) ==
  {d \in GroupNames : \A gs \in SUBSET GroupNames :
     g \in gs /\ (\A e \in edges : e[1] \in gs => e[2] \in gs) => d \in gs}

HostsOf(inv, g) == UNION {inv.members[d] : d \in Below(inv.children, g)}

(* An inventory, also in the middle of a change: only groups and hosts     *)
(* there are linked, depths and the caches of groups are right.  A depth   *)
(* is the length of some way down, and so of the longest one.              *)
Deeper(inv) == \A e \in inv.children : inv.depth[e[1]] < inv.depth[e[2]]
Measured(inv) ==
  \A g \in GroupNames : inv.depth[g] # 0 =>
    \E p \in GroupNames : <<p, g>> \in inv.children /\ inv.depth[p] + 1 = inv.depth[g]
Linked(inv) ==
  /\ \A e \in inv.children : e[1] \in inv.groups /\ e[2] \in inv.groups \ {"all"}
  /\ \A g \in GroupNames :
       inv.members[g] \subseteq inv.hosts /\ (g \in inv.groups \/ inv.members[g] = {})
SeenOK(inv) == \A g \in GroupNames : inv.seen[g] \in {Unknown, HostsOf(inv, g)}
Sound(inv)  ==
  inv \in Inventories /\ Linked(inv) /\ Deeper(inv) /\ Measured(inv) /\ SeenOK(inv)

(* Hosts know their groups, and ungrouped is under all and nothing else.   *)
Told(inv)  ==
  \A h \in HostNames : inv.groupsOf[h] = {g \in GroupNames : h \in HostsOf(inv, g)}
Apart(inv) ==
  \A e \in inv.children : e[1] # "ungrouped" /\ (e[2] = "ungrouped" => e[1] = "all")

(* What a reconciled one has as well: everything under all, no host in     *)
(* ungrouped that is elsewhere.                                            *)
Based(inv)  == {"all", "ungrouped"} \subseteq inv.groups /\ <<"all", "ungrouped">> \in inv.children
Rooted(inv) == inv.groups \subseteq Below(inv.children, "all")
Settled(inv) ==
  \A h \in inv.hosts :
    /\ h \in HostsOf(inv, "all")
    /\ h \in HostsOf(inv, "ungrouped") <=> \A g \in UserGroups : h \notin HostsOf(inv, g)

=============================================================================
