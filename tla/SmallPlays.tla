------------------------------ MODULE SmallPlays ------------------------------
(* Building small plays for TLC out of tasks and blocks.                   *)
EXTENDS HostState

T  == Task(<<>>, "plain")
FL == Task(<<>>, "flush")

(* Give every task of a block its place.                                   *)
Code == [TASKS |-> 1, RESCUE |-> 2, ALWAYS |-> 3]
RECURSIVE Placed(_, _)
Placed(item, place) ==
  IF IsBlock(item)
    THEN [r \in Sections |-> [i \in DOMAIN item[r] |->
            Placed(item[r][i], place \o <<Code[r], i>>)]]
    ELSE [item EXCEPT !.id = place,
                      !.adds = [i \in DOMAIN @ |-> Placed(@[i], place \o <<4, i>>)]]
PlacedPlay(blocks) == [k \in DOMAIN blocks |-> Placed(blocks[k], <<k>>)]

BlocksOf(T1, R1, A1) == {Block(t, r, a) : t \in T1, r \in R1, a \in A1}
None     == {<<>>}
Singles(S) == {<<x>> : x \in S}
JustT    == {<<T>>}
LastT    == Block(<<T>>, <<>>, <<>>)
LastTA   == Block(<<T>>, <<>>, <<T>>)
LastF    == Block(<<FL>>, <<>>, <<>>)

=============================================================================
