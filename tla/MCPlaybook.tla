------------------------------ MODULE MCPlaybook ------------------------------
(* Instances of Playbook for TLC: small plays over two or three hosts.     *)
EXTENDS Playbook, SmallPlays

CONSTANTS h1, h2, h3
ThreeHosts == <<h1, h2, h3>>

M(kind) == Task(<<>>, kind)
Two(blocks) ==
  [blocks |-> PlacedPlay(blocks), hosts |-> <<h1, h2>>, gather |-> FALSE, serial |-> <<>>,
   runOnce |-> {}, fatal |-> {}, maxFail |-> FailMax, notifies |-> FALSE, when |-> FALSE,
   unreachable |-> FALSE]
Three(blocks) == [Two(blocks) EXCEPT !.hosts = <<h3, h1, h2>>]
One(n)     == [pct |-> FALSE, n |-> n]
Percent(n) == [pct |-> TRUE, n |-> n]

Places(p) == {t.id : t \in ToSet(GetTasks(p.blocks))}
Full    == Block(<<T, T>>, <<T>>, <<T>>)
Nest   == Block(<<T>>, <<T>>, <<T>>)
(* A block around another, which is in one of its sections.                *)
Thin    == Block(<<T>>, <<>>, <<>>)
Nested  == {Block(<<Nest, T>>, <<T>>, <<T>>), Block(<<T>>, <<Nest>>, <<T>>),
            Block(<<T>>, <<T>>, <<Nest>>), Block(<<Thin, T>>, <<T>>, <<>>)}

Blocks  == {Two(<<b, LastT>>) : b \in {Full} \cup Nested}
(* One task that is run once, each in turn.                                *)
WithOnce(P) == UNION {{[p EXCEPT !.runOnce = {x}] : x \in Places(p)} : p \in P}

Singly(P) == {<<p>> : p \in P}
OncePlaybooks == Singly(Blocks \cup WithOnce(Blocks))

(* Every error fatal, or too many of them, with hosts lost on the way.     *)
Rescued == {Block(<<T, T>>, <<T>>, <<>>), Block(<<Block(<<T>>, <<>>, <<>>), T>>, <<T>>, <<>>)}
FatalPlays ==
  {[Two(<<b, LastT>>) EXCEPT !.fatal = {<<1, 1, 1>>, <<1, 2, 1>>, <<1, 1, 1, 1, 1>>}, !.unreachable = TRUE] : b \in Rescued}
MaxFailPlays ==
  {[Two(<<b, LastT>>) EXCEPT !.maxFail = m, !.unreachable = TRUE] : b \in {Full}, m \in {0, 50}}
FatalPlaybooks == Singly(FatalPlays \cup MaxFailPlays)

(* Meta tasks in the first play, what they leave for the second.           *)
MetaPlays == {[Two(<<Block(<<T, M(k), T>>, <<T>>, <<T>>), LastT>>) EXCEPT !.when = TRUE, !.unreachable = TRUE] :
                k \in {"end_host", "end_batch", "end_play", "clear_errors"}}
MetaPlaybooks == {<<p, Two(<<LastT>>)>> : p \in MetaPlays}

(* Handlers, flushed in the middle of a play and at its end, and within a  *)
(* block that rescues what fails there.                                    *)
HandlerPlays == {[Two(<<Block(<<T>>, <<>>, <<>>), LastF, LastT, LastF>>) EXCEPT !.notifies = TRUE]}
FlushPlays   == {[Two(<<Block(<<T, f>>, <<T>>, <<T>>), LastF>>) EXCEPT !.notifies = TRUE] :
                   f \in {FL, Block(<<FL>>, <<>>, <<>>)}}
HandlerPlaybooks == Singly(HandlerPlays \cup FlushPlays)

Inc == Include(<<>>, <<Block(<<T>>, <<T>>, <<>>)>>)
Includes == {[Two(<<Block(<<Inc, T>>, <<>>, <<T>>), LastT>>) EXCEPT !.unreachable = TRUE],
  Two(<<Block(<<T>>, <<Inc>>, <<Inc>>), LastT>>)}
IncludePlaybooks == Singly(Includes)

(* Serial batches of three hosts, over three plays.                        *)
Serials == {<<One(1)>>, <<One(2)>>, <<One(1), One(5)>>, <<Percent(30)>>, <<Percent(67), One(-1)>>, <<>>}
SerialPlay(s) == [Three(<<LastT>>) EXCEPT !.serial = s, !.unreachable = TRUE]
SerialPlaybooks == {<<SerialPlay(s), Three(<<LastT>>), Two(<<LastT>>)>> : s \in Serials}

AllPlaybooks == OncePlaybooks \cup FatalPlaybooks \cup MetaPlaybooks \cup HandlerPlaybooks
                  \cup IncludePlaybooks \cup SerialPlaybooks

-----------------------------------------------------------------------------
(* Playbooks that go wrong.                                                *)

(* A task that is run once, between two flushes of handlers.               *)
OnceAfterFlush ==
  Singly({[p EXCEPT !.runOnce = {<<3, 1, 1>>}] : p \in HandlerPlays})
(* A fatal error in a block that has nothing but an always section.        *)
FatalAlways ==
  Singly({[Two(<<Block(<<T>>, <<>>, <<T>>), LastT>>) EXCEPT !.fatal = {<<1, 1, 1>>}]})
(* A task that is run once and is rescued, and a handler that is rescued.  *)
OnceRescued ==
  Singly({[Two(<<Block(<<T>>, <<T>>, <<>>), LastT>>) EXCEPT !.runOnce = {<<1, 1, 1>>}]})
RescuedPlaybooks == OnceRescued \cup Singly(FlushPlays)
(* An include in a block with a rescue section.                            *)
IncludeRescued == {<<Two(<<Block(<<Inc, T>>, <<T>>, <<>>), LastT>>), Two(<<LastT>>)>>}
(* All hosts once, and then again one by one.                              *)
AgainOneByOne == {<<Three(<<LastT>>), SerialPlay(<<One(1)>>)>>}

-----------------------------------------------------------------------------
(* The batches for every number of hosts up to six and every serial of up  *)
(* to two entries.                                                         *)
Entries == {One(n) : n \in {-1, 0, 1, 2, 4}} \cup {Percent(n) : n \in {0, 20, 34, 50, 100}}
ASSUME BatchesOfSmallPlays ==
  \A n \in 0..6 : \A serial \in SeqOf(Entries, 2) :
    BatchesAreTheHosts([hosts |-> [i \in 1..n |-> i], serial |-> serial])

=============================================================================
