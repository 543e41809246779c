---------------------------- MODULE MCPlayIterator ----------------------------
(* Instances of PlayIterator for TLC: families of small plays.             *)
EXTENDS PlayIterator, SmallPlays

Leaves   == BlocksOf({<<T, T>>}, None \cup JustT, None \cup JustT \cup {<<T, T>>})
Plain == {PlacedPlay(<<Block(<<T, T>>, <<>>, <<>>), LastT>>)}
(* Leaves nested in one section of a block, with and without the others.   *)
Around(S) ==
  LET In == Singles(S) IN
  BlocksOf(In \cup {<<x, T>> : x \in S}, None \cup JustT, None \cup JustT)
    \cup BlocksOf(JustT, In, None \cup JustT)
    \cup BlocksOf(JustT, None \cup JustT, In)
Thin == BlocksOf(JustT, None \cup JustT, None \cup JustT)
(* An include that adds a block with a rescue section.                     *)
Inc == Include(<<>>, <<Block(<<T>>, <<T>>, <<>>)>>)

Nested3 == Around(Thin) \cup Around(Around(Thin))
Includes == BlocksOf({<<Inc, T>>}, None \cup {<<Inc>>}, None \cup {<<Inc>>})
BlockPlays == {PlacedPlay(<<b, LastT>>) : b \in Leaves \cup Nested3 \cup Includes}
                \cup {PlacedPlay(<<b, LastTA>>) : b \in Leaves}

(* Plays as compiled: a flush at the end of the play, or with force_handlers*)
(* in an always section around it; a flush among the tasks of a block.     *)
FlushPlays ==
  {PlacedPlay(<<b, LastF>>) : b \in Thin \cup BlocksOf({<<T, FL, T>>}, None \cup JustT, None \cup JustT)}
    \cup {PlacedPlay(<<Block(<<b, LastT>>, <<>>, <<LastF>>)>>) : b \in Thin}

(* A flush in an always section, or in a nested block.                     *)
FlushInAlways == {PlacedPlay(<<Block(<<T>>, <<T>>, <<T, FL, T>>), LastT>>)}
FlushInNested == {PlacedPlay(<<Block(<<Block(<<T, FL, T>>, <<T>>, <<T>>)>>, <<T>>, <<T>>), LastT>>)}

StartPlays   == {PlacedPlay(<<b, LastT>>) : b \in Leaves \cup Around(Leaves)}
OutsidePlays   == {PlacedPlay(<<b, LastT>>) : b \in Around(Thin) \cup Includes}
OutsideFlushes == {PlacedPlay(<<b, LastF>>) : b \in BlocksOf({<<T, FL>>}, None \cup JustT, JustT)}

(* Places to start at, those of them a play has, and the first task.       *)
Later == {<<1, 1, 2>>, <<1, 1, 1, 1, 2>>, <<1, 1, 1, 3, 1>>, <<1, 3, 1>>, <<2, 1, 1>>}
PlacesIn(p) == {RunPlay(p, FALSE, {}).ran[i] : i \in DOMAIN RunPlay(p, FALSE, {}).ran}
First == <<1, 1, 1>>

CasesOf(plays, gathers, starts, notes, times) ==
  {c \in [play : plays, gather : gathers, start : starts, notifies : {notes}, outside : {times}] :
     c.start = <<>> \/ c.start \in PlacesIn(c.play)}

(* Every pattern of failures; starting later; other hosts interfering.     *)
BlockCases   == CasesOf(BlockPlays, BOOLEAN, {<<>>}, FALSE, 0)
StartCases   == CasesOf(StartPlays, BOOLEAN, Later, FALSE, 0)
OutsideCases == CasesOf(OutsidePlays, BOOLEAN, {<<>>}, FALSE, 2)
                  \cup CasesOf(OutsideFlushes, {FALSE}, {<<>>}, TRUE, 2)
AllCases     == BlockCases \cup StartCases \cup OutsideCases
HandlerCases == CasesOf(FlushPlays, {FALSE}, {<<>>}, TRUE, 0)
IterCases    == AllCases \cup HandlerCases
(* The cases of the disagreements.                                         *)
FlushInAlwaysCases == CasesOf(FlushInAlways, {FALSE}, {<<>>}, TRUE, 0)
FlushInNestedCases == CasesOf(FlushInNested, {FALSE}, {<<>>}, TRUE, 0)
StartFirstCases    == CasesOf(Plain, {FALSE}, {First}, FALSE, 0)
=============================================================================
