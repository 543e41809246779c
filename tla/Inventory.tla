------------------------------- MODULE Inventory -------------------------------
(***************************************************************************)
(* The inventory of a running playbook: hosts and groups that tasks add,   *)
(* the sources that are read again, and the patterns that plays ask for,   *)
(* answered from caches.                                                   *)
(*                                                                         *)
(*   lib/distronode/inventory/manager.py   InventoryManager                *)
(*   lib/distronode/inventory/data.py      InventoryData                   *)
(*                                                                         *)
(* A source is what its plugin puts into the inventory.  A pattern is a    *)
(* sequence of terms, the strings of the play's hosts; a term a sequence   *)
(* of parts, what split_host_pattern makes of it.  Globs, subscripts, the  *)
(* implicit localhost and variables are left out.                          *)
(***************************************************************************)
EXTENDS InventoryData, SequencesExt

CONSTANTS
  Sources,      (* what the sources may hold when they are read             *)
  Limits,       (* what --limit may be: sequences of terms                  *)
  Patterns,     (* the patterns that are asked for                          *)
  HostInfos,    (* what an add_host task may say: host, groups, variables?  *)
  GroupInfos,   (* what a group_by task may say: host, group, parent groups *)
  Batches,      (* the hosts a batch may have                               *)
  MaxDynamic,   (* bound: so many add_host and group_by results             *)
  MaxAsked      (* bound: so many answers cached at a time                  *)

Names == HostNames \cup GroupNames

(* The parts of a pattern: names, to be joined, intersected or taken away. *)
PartsOf(pattern) == UNION {ToSet(term) : term \in ToSet(pattern)}

(* What a plugin leaves has no loop, which add_child_group refuses, and    *)
(* nothing over all, which would be a loop once it is under all itself.    *)
Edges(src) == src.children \cup {<<"all", "ungrouped">>}
WellFormed(src) ==
  LET there == src.groups \cup {"all", "ungrouped"}
  IN /\ src.groups \subseteq GroupNames
     /\ src.children \subseteq there \X (there \ {"all"})
     /\ src.members \subseteq there \X HostNames
     /\ \A gs \in (SUBSET GroupNames) \ {{}} :
          \E g \in gs : \A e \in Edges(src) : e[2] = g => e[1] \notin gs

ASSUME InputsAssumption ==
  /\ \A src \in Sources : WellFormed(src)
  /\ HostInfos \subseteq [host : HostNames, groups : SUBSET GroupNames, vars : BOOLEAN]
  /\ GroupInfos \subseteq [host : HostNames, group : GroupNames, parents : SUBSET GroupNames]

ASSUME PatternsAssumption ==
  \A pattern \in Patterns \cup Limits :
    PartsOf(pattern) \subseteq [op : {"", "&", "!"}, name : Names]

VARIABLES
  inv,                     (* _inventory                                    *)
  source,                  (* what the sources held when last read          *)
  cached_dynamic_hosts,    (* the add_host results so far                   *)
  cached_dynamic_grouping, (* the group_by results so far                   *)
  restriction,             (* _restriction, {} for None                     *)
  subset,                  (* _subset                                       *)
  pattern_cache,           (* _pattern_cache: hosts by name                 *)
  hosts_patterns_cache,    (* _hosts_patterns_cache: hosts by terms         *)
  raised                   (* a loop of groups has ended the run            *)

dynamicVars == <<cached_dynamic_hosts, cached_dynamic_grouping>>
cacheVars   == <<pattern_cache, hosts_patterns_cache>>
vars == <<inv, source, dynamicVars, restriction, subset, cacheVars, raised>>

NoCache == [n \in Names |-> Unknown]

-----------------------------------------------------------------------------
(* Reading the sources.                                                    *)

(* A plugin adds its groups, and either the hosts or the children first.   *)
Parse(src) ==
  LET groups   == ForEach(src.groups,
                    [g \in GroupNames |-> [i \in Inventories |-> AddGroup(i, g)]], NewInventory)
      Hosts(i) == ForEach(src.members,
                    [m \in GroupNames \X HostNames |-> [j \in Inventories |->
                       AddHost(j, m[2], m[1])]], i)
      Kids(i)  == ForEach(src.children,
                    [e \in GroupNames \X GroupNames |-> [j \in Inventories |->
                       AddChild(j, e[1], e[2])]], i)
  IN IF src.hostsFirst THEN Kids(Hosts(groups)) ELSE Hosts(Kids(groups))

ParseSources(src) == ReconcileInventory(Parse(src))

(* The inventory after an add_host result; newVars: it brings variables    *)
(* that the host did not have.                                             *)
DynamicHost(i, info, newVars) ==
  LET there  == IF info.host \in i.hosts THEN i ELSE AddHost(i, info.host, "all")
      joined == ForEach(info.groups,
                  [g \in GroupNames |-> [j \in Inventories |->
                     AddToGroup(AddGroup(j, g), g, info.host)]], there)
  IN IF joined # i \/ newVars THEN ReconcileInventory(joined) ELSE joined

WithGroups(i, info) ==
  ForEach(info.parents, [p \in GroupNames |-> [j \in Inventories |-> AddGroup(j, p)]],
          AddGroup(i, info.group))

(* All is below nothing: add_child_group finds the loop, or for a parent   *)
(* that is new, which all is to take in, reconcile_inventory does.         *)
MakesLoop(i, info) ==
  \E p \in info.parents :
    info.group = "all" \/ AddsLoop(WithGroups(i, info), p, info.group)

(* The inventory after a group_by result, and whether it is a change.      *)
Grouped(i, info) ==
  LET linked == ForEach(info.parents,
                  [p \in GroupNames |-> [j \in Inventories |-> AddChildGroup(j, p, info.group)]],
                  WithGroups(i, info))
      asked  == HostsSeen(linked, {info.group})
      joined == IF info.host \in GetHosts(linked, info.group) THEN asked
                ELSE AddToGroup(asked, info.group, info.host)
  IN IF info.group \in joined.groupsOf[info.host] THEN joined
     ELSE JoinGroup(joined, info.host, info.group)

GroupingChanges(i, info) == [Grouped(i, info) EXCEPT !.seen = i.seen] # i

DynamicGroup(i, info) ==
  IF GroupingChanges(i, info) THEN ReconcileInventory(Grouped(i, info)) ELSE Grouped(i, info)

(* refresh_inventory: all the hosts again, then all the groups, but not of *)
(* hosts that are no longer there.                                         *)
ReplayHosts(i) ==
  InOrder(cached_dynamic_hosts,
    [info \in HostInfos |-> [j \in Inventories |-> DynamicHost(j, info, info.vars)]], i)

ForgetsGroups(i) == i
ReplayGroups(i) ==
  InOrder(cached_dynamic_grouping,
    [info \in GroupInfos |-> [j \in Inventories \cup {Unknown} |->
       IF j = Unknown \/ info.host \notin j.hosts THEN j
       ELSE IF MakesLoop(j, info) THEN Unknown ELSE DynamicGroup(j, info)]], i)

-----------------------------------------------------------------------------
(* Answering a pattern.                                                    *)

Plain(n) == [op |-> "", name |-> n]

(* order_patterns: all, when nothing says what to start from.              *)
Parts(pattern) ==
  LET parts == PartsOf(pattern)
  IN IF \E p \in parts : p.op = "" THEN parts ELSE parts \cup {Plain("all")}

IsPlainHost(p) == p.op = "" /\ p.name \in inv.hosts

EnumerateMatches(n) ==
  IF n \in inv.groups THEN GetHosts(inv, n) ELSE {n} \cap inv.hosts

MatchOne(p) ==
  IF IsPlainHost(p) THEN {p.name}
  ELSE IF pattern_cache[p.name] # Unknown THEN pattern_cache[p.name]
  ELSE EnumerateMatches(p.name)

EvaluatePatterns(pattern) ==
  LET all       == Parts(pattern)
      Of(op)    == {p \in all : p.op = op}
  IN {h \in UNION {MatchOne(p) : p \in Of("")} :
        /\ \A p \in Of("&") : h \in MatchOne(p)
        /\ \A p \in Of("!") : h \notin MatchOne(p)}

(* The names that are looked up, and cached, on the way.                   *)
LookedUp(pattern) == {p.name : p \in {p \in Parts(pattern) : ~IsPlainHost(p)}}

(* What there is to go by of --limit and of the batch.                     *)
Limit(limits)           == IF limits THEN subset ELSE <<>>
Restriction(restricted) == IF restricted THEN restriction ELSE {}

(* pattern_hash.                                                           *)
PatternHash(pattern, limit, batch) ==
  pattern \o limit \o SetToSeq({<<Plain(h)>> : h \in batch})

Fresh(pattern, limit, batch) ==
  {h \in EvaluatePatterns(pattern) :
     /\ limit # <<>> => h \in EvaluatePatterns(limit)
     /\ batch # {} => h \in batch}

(* The contexts get_hosts is called in: by plays, for the variable         *)
(* distronode_play_hosts_all, and for hostvars.                            *)
Contexts == {<<TRUE, TRUE>>, <<TRUE, FALSE>>, <<FALSE, FALSE>>}

Answer(pattern, limit, batch) ==
  LET hash == PatternHash(pattern, limit, batch)
  IN IF hash \in DOMAIN hosts_patterns_cache THEN hosts_patterns_cache[hash]
     ELSE Fresh(pattern, limit, batch)

(* get_hosts of what is not in the cache.                                  *)
AskHosts(pattern, limit, batch) ==
  LET hash  == PatternHash(pattern, limit, batch)
      names == LookedUp(pattern) \cup (IF limit # <<>> THEN LookedUp(limit) ELSE {})
      fresh == {n \in names : pattern_cache[n] = Unknown}
  IN /\ hash \notin DOMAIN hosts_patterns_cache
     /\ Cardinality(DOMAIN hosts_patterns_cache) < MaxAsked
     /\ pattern_cache' = [n \in Names |->
          IF n \in fresh THEN EnumerateMatches(n) ELSE pattern_cache[n]]
     /\ inv' = HostsSeen(inv, fresh \cap inv.groups)
     /\ hosts_patterns_cache' = [k \in DOMAIN hosts_patterns_cache \cup {hash} |->
          IF k = hash THEN Fresh(pattern, limit, batch) ELSE hosts_patterns_cache[k]]
     /\ UNCHANGED <<source, dynamicVars, restriction, subset, raised>>

-----------------------------------------------------------------------------
(* The operations.                                                         *)

(* Every change ends in reconcile_inventory, which clears the caches.      *)
ClearCaches == pattern_cache' = NoCache /\ hosts_patterns_cache' = <<>>

KeepsCaches(i, changed) == inv' = i /\ UNCHANGED cacheVars
Becomes(i, changed) ==
  /\ inv' = i
  /\ IF changed THEN ClearCaches ELSE UNCHANGED cacheVars

Logged == Len(cached_dynamic_hosts) + Len(cached_dynamic_grouping)

AddDynamicHost(info, newVars) ==
  /\ Logged < MaxDynamic
  /\ cached_dynamic_hosts' = Append(cached_dynamic_hosts, info)
  /\ LET i == DynamicHost(inv, info, newVars)
     IN Becomes(i, i # inv \/ newVars)
  /\ UNCHANGED <<source, cached_dynamic_grouping, restriction, subset, raised>>

AddDynamicGroup(info) ==
  /\ Logged < MaxDynamic /\ info.host \in inv.hosts
  /\ cached_dynamic_grouping' = Append(cached_dynamic_grouping, info)
  /\ IF MakesLoop(inv, info)
     THEN raised' = TRUE /\ UNCHANGED <<inv, cacheVars>>
     ELSE /\ Becomes(DynamicGroup(inv, info), GroupingChanges(inv, info))
          /\ UNCHANGED raised
  /\ UNCHANGED <<source, cached_dynamic_hosts, restriction, subset>>

RefreshInventory(src) ==
  LET i == ReplayGroups(ReplayHosts(ParseSources(src)))
  IN /\ source' = src
     /\ IF i = Unknown THEN raised' = TRUE /\ UNCHANGED inv
                       ELSE inv' = i /\ UNCHANGED raised
     /\ ClearCaches
     /\ UNCHANGED <<dynamicVars, restriction, subset>>

(* A batch begins, and the next play or batch is asked for without it.     *)
RestrictToHosts(batch) ==
  /\ batch \subseteq inv.hosts /\ batch # {}
  /\ restriction' = batch
  /\ UNCHANGED <<inv, source, dynamicVars, subset, cacheVars, raised>>

RemoveRestriction ==
  /\ restriction # {}
  /\ restriction' = {}
  /\ UNCHANGED <<inv, source, dynamicVars, subset, cacheVars, raised>>

GetGroupsDict ==
  /\ inv' = WithGroupsDict(inv)
  /\ UNCHANGED <<source, dynamicVars, restriction, subset, cacheVars, raised>>

-----------------------------------------------------------------------------
Init ==
  /\ source \in Sources
  /\ inv = ParseSources(source)
  /\ cached_dynamic_hosts = <<>> /\ cached_dynamic_grouping = <<>>
  /\ restriction = {} /\ subset \in Limits
  /\ pattern_cache = NoCache /\ hosts_patterns_cache = <<>>
  /\ raised = FALSE

Next ==
  /\ ~raised
  /\ \/ \E info \in HostInfos : \E newVars \in {FALSE, info.vars} : AddDynamicHost(info, newVars)
     \/ \E info \in GroupInfos : AddDynamicGroup(info)
     \/ \E src \in Sources : RefreshInventory(src)
     \/ \E pattern \in Patterns, c \in Contexts :
          AskHosts(pattern, Limit(c[1]), Restriction(c[2]))
     \/ \E batch \in Batches : RestrictToHosts(batch)
     \/ RemoveRestriction
     \/ GetGroupsDict

Spec == Init /\ [][Next]_vars

-----------------------------------------------------------------------------
(* Properties.                                                             *)

InventoryTypeOK ==
  /\ inv \in Inventories
  /\ restriction \subseteq HostNames
  /\ pattern_cache \in [Names -> {Unknown} \cup SUBSET HostNames]
  /\ \A k \in DOMAIN hosts_patterns_cache : hosts_patterns_cache[k] \subseteq HostNames

(* No cached list of hosts outlives a change: neither the one a group      *)
(* keeps of the hosts below it, which another group's new child or host    *)
(* makes wrong, nor the groups variable, nor the hosts of a name.          *)
CachesFresh ==
  LET hosts == [g \in GroupNames |-> HostsOf(inv, g)]
  IN /\ \A g \in GroupNames : inv.seen[g] \in {Unknown, hosts[g]}
     /\ \A g \in inv.groups : pattern_cache[g] \in {Unknown, hosts[g]}
     /\ inv.dict # Unknown => \A g \in inv.groups : inv.dict[g] = hosts[g]

(* A host takes to be its groups, and gets the variables of, exactly the   *)
(* groups that it is in or that are above one it is in; one that is in no  *)
(* group is in ungrouped, and only then.                                   *)
KnowsItsGroups ==
  LET hosts == [g \in GroupNames |-> HostsOf(inv, g)]
  IN \A h \in inv.hosts :
       /\ inv.groupsOf[h] = {g \in inv.groups : h \in hosts[g]}
       /\ h \in hosts["all"]
       /\ h \in hosts["ungrouped"] <=> \A g \in UserGroups : h \notin hosts[g]

(* A group is deeper than the groups above it, in whichever order the      *)
(* edges came, so that its variables win over theirs in sort_groups.       *)
ChildrenAreDeeper == \A e \in inv.children : inv.depth[e[1]] < inv.depth[e[2]]

(* What tasks have added is there again after the sources were read again, *)
(* with the same hosts in and below each group, and the same depths,       *)
(* though hosts are replayed before groups and not in the order they came. *)
(* That is so when nothing of what they added was lost with a host that    *)
(* the sources had dropped.  The group that has a host itself may change:  *)
(* add_dynamic_group leaves a host where it is below the group already.    *)
SameView(i, j) ==
  /\ i.groups = j.groups /\ i.hosts = j.hosts
  /\ \A g \in i.groups : HostsOf(i, g) = HostsOf(j, g)
  /\ i.groupsOf = j.groupsOf /\ i.depth = j.depth

AllApplied ==
  \A k \in DOMAIN cached_dynamic_grouping :
    LET info == cached_dynamic_grouping[k]
    IN /\ info.host \in HostsOf(inv, info.group)
       /\ \A p \in info.parents : <<p, info.group>> \in inv.children

Refreshes == cached_dynamic_hosts' = cached_dynamic_hosts
             /\ cached_dynamic_grouping' = cached_dynamic_grouping

RefreshRestores ==
  [][AllApplied /\ Refreshes /\ source' = source => SameView(inv, inv')]_vars

(* The answer to a pattern, cached or not, is what the pattern means now.  *)
Means(pattern, hosts) ==
  LET parts    == PartsOf(pattern)
      Is(h, p) == h = p.name \/ (p.name \in inv.groups /\ h \in hosts[p.name])
  IN {h \in inv.hosts :
        /\ (\E p \in parts : p.op = "") => \E p \in parts : p.op = "" /\ Is(h, p)
        /\ \A p \in parts : p.op = "&" => Is(h, p)
        /\ \A p \in parts : p.op = "!" => ~Is(h, p)}

Meant(pattern, limit, batch, hosts) ==
  {h \in Means(pattern, hosts) :
     /\ limit # <<>> => h \in Means(limit, hosts)
     /\ batch # {} => h \in batch}

AnswersAreTrue ==
  LET hosts == [g \in GroupNames |-> HostsOf(inv, g)]
  IN \A pattern \in Patterns, c \in Contexts :
       LET limit == Limit(c[1])
           batch == Restriction(c[2])
       IN Answer(pattern, limit, batch) = Meant(pattern, limit, batch, hosts)

(* While a batch runs, list operations give hosts of the batch only, as    *)
(* restrict_to_hosts says.                                                 *)
OnlyTheBatch ==
  \A pattern \in Patterns :
    restriction # {} => Answer(pattern, subset, restriction) \subseteq restriction

-----------------------------------------------------------------------------
(* Why the properties hold.                                                *)

(* Nobody puts a group over or under ungrouped.                            *)
UngroupedApart ==
  /\ \A src \in Sources : \A e \in src.children :
       e[1] # "ungrouped" /\ (e[2] = "ungrouped" => e[1] = "all")
  /\ \A info \in GroupInfos :
       "ungrouped" \notin info.parents /\ (info.group = "ungrouped" => info.parents = {})

(* No host has the name of a group.                                        *)
NamesApart == HostNames \cap GroupNames = {}

(* What is asked for differently is cached by different keys.              *)
HashesTellApart ==
  \A p, q \in Patterns, l, m \in Limits \cup {<<>>}, b, c \in Batches \cup {{}} :
    PatternHash(p, l, b) = PatternHash(q, m, c) => p = q /\ l = m /\ b = c

(* A host outside the batch is given out only where another question has   *)
(* the same key, and then by what that question means now.                 *)
OutsidersAnswerAnother ==
  LET hosts == [g \in GroupNames |-> HostsOf(inv, g)]
  IN \A p \in Patterns :
       restriction # {} /\ ~(Answer(p, subset, restriction) \subseteq restriction) =>
         \E q \in Patterns, l \in Limits \cup {<<>>}, b \in Batches \cup {{}} :
           /\ <<q, l, b>> # <<p, subset, restriction>>
           /\ PatternHash(q, l, b) = PatternHash(p, subset, restriction)
           /\ Answer(p, subset, restriction) = Meant(q, l, b, hosts)

LogsOK ==
  /\ cached_dynamic_hosts \in Seq(HostInfos) /\ cached_dynamic_grouping \in Seq(GroupInfos)
  /\ subset \in Limits
  /\ restriction \in Batches \cup {{}} /\ restriction \subseteq HostNames

DictOK == inv.dict # Unknown => \A g \in inv.groups : inv.dict[g] = HostsOf(inv, g)

(* A name is looked up to the hosts of the group, or to the host.          *)
Named(i, n) == IF n \in i.groups THEN HostsOf(i, n) ELSE {n} \cap i.hosts

PatternsOK ==
  /\ pattern_cache \in [Names -> {Unknown} \cup SUBSET HostNames]
  /\ \A n \in Names : pattern_cache[n] \in {Unknown, Named(inv, n)}

(* A cached answer is the one to some question that is cached by its key.  *)
AnswersOK ==
  LET hosts == [g \in GroupNames |-> HostsOf(inv, g)]
  IN \A k \in DOMAIN hosts_patterns_cache :
       /\ hosts_patterns_cache[k] \subseteq HostNames
       /\ NamesApart /\ UngroupedApart =>
            \E p \in Patterns, l \in Limits \cup {<<>>}, b \in Batches \cup {{}} :
              k = PatternHash(p, l, b) /\ hosts_patterns_cache[k] = Meant(p, l, b, hosts)

Inductive ==
  /\ LogsOK
  /\ Sound(inv) /\ Based(inv) /\ Rooted(inv)
  /\ DictOK /\ PatternsOK /\ AnswersOK
  /\ UngroupedApart => Told(inv) /\ Apart(inv) /\ Settled(inv)

(* What a source, an add_host and a group_by result ask for.               *)
OfSource(src) ==
  [groups |-> src.groups \cup {"all", "ungrouped"}, hosts |-> {m[2] : m \in src.members},
   edges |-> Edges(src), members |-> src.members]
OfHost(info) ==
  [groups |-> info.groups, hosts |-> {info.host},
   edges |-> {}, members |-> info.groups \X {info.host}]
OfGrouping(info) ==
  [groups |-> info.parents \cup {info.group}, hosts |-> {},
   edges |-> info.parents \X {info.group}, members |-> {<<info.group, info.host>>}]

Requests(src, infos, groupings) ==
  {OfSource(src)} \cup {OfHost(info) : info \in infos}
                  \cup {OfGrouping(info) : info \in groupings}

(* An inventory has what was asked for and nothing else, but for what      *)
(* reconcile_inventory does to all and ungrouped, and but for the hosts    *)
(* that a group_by found below its group.                                  *)
UserHosts(i, g) == UNION {i.members[d] : d \in Below(i.children, g) \cap UserGroups}
MadeOf(i, requests) ==
  /\ i.groups = UNION {r.groups : r \in requests}
  /\ i.hosts  = UNION {r.hosts : r \in requests}
  /\ \A r \in requests : /\ r.edges \subseteq i.children
                         /\ \A m \in r.members : m[1] \in UserGroups => m[2] \in UserHosts(i, m[1])
  /\ \A e \in i.children : e[1] = "all" \/ \E r \in requests : e \in r.edges
  /\ \A g \in UserGroups : \A h \in i.members[g] : \E r \in requests : <<g, h>> \in r.members

(* A grouping was skipped if its host was not there when the sources were  *)
(* last read.                                                              *)
AsAsked ==
  ~raised => \E groupings \in SUBSET ToSet(cached_dynamic_grouping) :
               MadeOf(inv, Requests(source, ToSet(cached_dynamic_hosts), groupings))

=============================================================================
