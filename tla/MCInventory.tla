------------------------------ MODULE MCInventory ------------------------------
(***************************************************************************)
(* An instance of Inventory: two hosts in the sources, a third that tasks  *)
(* add, two groups in the sources and one that tasks make.                 *)
(***************************************************************************)
EXTENDS Inventory

Term(op, n) == <<[op |-> op, name |-> n]>>

MCHosts  == {"h1", "h2", "h3"}
MCGroups == {"web", "db", "new"}

(* Two groups, one below the other; and the second host gone.              *)
Nested == [hostsFirst |-> TRUE, groups |-> {"web", "db"}, children |-> {<<"web", "db">>},
           members |-> {<<"db", "h1">>, <<"ungrouped", "h2">>}]
Smaller == [hostsFirst |-> FALSE, groups |-> {"web", "db"}, children |-> {},
            members |-> {<<"web", "h1">>, <<"all", "h1">>}]

MCSources == {Nested, Smaller}

(* A group of the user over ungrouped.                                     *)
OverUngrouped == {[hostsFirst |-> TRUE, groups |-> {"web"}, children |-> {<<"web", "ungrouped">>},
                   members |-> {<<"ungrouped", "h1">>, <<"web", "h1">>}]}

NoLimit   == <<>>
MCLimits  == {NoLimit, <<Term("", "db")>>}

(* hosts: web, hosts: all:!web, hosts: h3                                  *)
MCPatterns == {<<Term("", "web")>>,
               <<Term("", "all") \o Term("!", "web")>>,
               <<Term("", "h3")>>}

(* hosts: [web, h1] beside hosts: web                                      *)
ListedHosts == {<<Term("", "web")>>, <<Term("", "web"), Term("", "h1")>>}

MCBatches   == {{"h1"}}

MCHostInfos  == {[host |-> "h3", groups |-> {"web"}, vars |-> FALSE],
                 [host |-> "h3", groups |-> {}, vars |-> TRUE],
                 [host |-> "h2", groups |-> {"new"}, vars |-> FALSE]}
MCGroupInfos == {[host |-> "h1", group |-> "new", parents |-> {}],
                 [host |-> "h2", group |-> "new", parents |-> {"web"}],
                 [host |-> "h1", group |-> "web", parents |-> {"new"}]}

=============================================================================
