--------------------------- MODULE Inventory_proofs ---------------------------
(***************************************************************************)
(* Proofs about the inventory for all names of hosts and groups, all       *)
(* sources, patterns and task results: what walking up and down the groups *)
(* finds, what each operation leaves of the caches, the depths and what    *)
(* hosts know of their groups, and from that the invariants of Inventory.  *)
(***************************************************************************)
EXTENDS Inventory, TLAPS, FiniteSetTheorems, WellFoundedInduction

-----------------------------------------------------------------------------
(* Induction, as statements about sets.                                    *)

(* A family of finite sets has a member with no smaller one.               *)
LEMMA SmallestSet ==
  ASSUME NEW F, F # {}, \A S \in F : IsFiniteSet(S)
  PROVE  \E S \in F : \A T \in F : T \subseteq S => T = S
<1> DEFINE U == UNION F
<1>1. /\ IsWellFoundedOn(StrictSubsetOrdering(U), FiniteSubsetsOf(U))
      /\ F \subseteq FiniteSubsetsOf(U)
  BY FS_StrictSubsetOrderingWellFounded DEF FiniteSubsetsOf
<1> HIDE DEF U
<1>2. PICK S \in F : \A T \in F : <<T, S>> \notin StrictSubsetOrdering(U)
  BY <1>1, WFMin
<1>3. \A T \in F : T \in SUBSET U
  BY <1>1 DEF FiniteSubsetsOf
<1> QED
  BY <1>2, <1>3 DEF StrictSubsetOrdering

(* A set with 0 and the successor of each of its numbers has every number. *)
LEMMA AllNumbers ==
  ASSUME NEW T, 0 \in T, \A n \in Nat : n \in T => n + 1 \in T
  PROVE  Nat \subseteq T
<1> DEFINE F == {1..n : n \in Nat \ T}
<1>1. SUFFICES ASSUME NEW k \in Nat, k \notin T PROVE FALSE
  OBVIOUS
<1>2. 1..k \in F /\ \A n \in Nat : IsFiniteSet(1..n)
  BY <1>1, FS_Interval
<1> HIDE DEF F
<1>3. PICK S \in F : \A R \in F : R \subseteq S => R = S
  <2>1. \A S \in F : IsFiniteSet(S)
    BY <1>2 DEF F
  <2> QED
    BY <1>2, <2>1, SmallestSet
<1> USE DEF F
<1>4. PICK n \in Nat \ T : S = 1..n
  OBVIOUS
<1>5. n - 1 \in Nat \ T /\ 1..(n - 1) \subseteq 1..n
  BY <1>4
<1>6. 1..(n - 1) = 1..n
  BY <1>3, <1>4, <1>5
<1> QED
  BY <1>4, <1>5, <1>6

-----------------------------------------------------------------------------
(* Loops.                                                                  *)

(* last gives a member of each set of turns.                               *)
Picks(last, S) == \A s \in (SUBSET S) \ {{}} : last[s] \in s

(* One turn of a loop, when after is what its other turns leave.           *)
Turn(last, body, start, after, s) ==
  IF s = {} THEN start ELSE body[last[s]][after[s \ {last[s]}]]

Unfolds(after, S, last, body, start) ==
  /\ Loop(S, last, body, start) = after[S]
  /\ \A s \in SUBSET S : after[s] = Turn(last, body, start, after, s)

(* Loop is what its recursive definition says.                             *)
LEMMA LoopUnfolds ==
  ASSUME NEW S, IsFiniteSet(S), NEW body, NEW start,
         NEW last, Picks(last, S)
  PROVE  \E after : Unfolds(after, S, last, body, start)
<1> DEFINE Small(n) == {s \in SUBSET S : Cardinality(s) <= n}
           Upto == {n \in Nat : \E f : \A s \in Small(n) : f[s] = Turn(last, body, start, f, s)}
<1>1. \A s \in SUBSET S : IsFiniteSet(s) /\ Cardinality(s) \in Nat
  BY FS_Subset, FS_CardinalityType
<1>2. 0 \in Upto
  <2>1. \A s \in Small(0) : s = {}
    BY <1>1, FS_EmptySet
  <2>2. \A s \in Small(0) : [s0 \in {{}} |-> start][s] = Turn(last, body, start, [s0 \in {{}} |-> start], s)
    BY <2>1 DEF Turn
  <2> QED
    BY <2>2
<1>3. ASSUME NEW n \in Nat, n \in Upto PROVE n + 1 \in Upto
  <2>1. PICK f : \A s \in Small(n) : f[s] = Turn(last, body, start, f, s)
    BY <1>3
  <2> DEFINE g == [s \in Small(n + 1) |-> Turn(last, body, start, f, s)]
  <2>2. \A s \in Small(n) : s \in Small(n + 1) /\ g[s] = f[s]
    BY <1>1, <2>1
  <2>3. ASSUME NEW s \in Small(n + 1), s # {} PROVE s \ {last[s]} \in Small(n)
    <3>1. IsFiniteSet(s) /\ last[s] \in s /\ Cardinality(s) \in Nat
      BY <1>1, <2>3 DEF Picks
    <3>2. Cardinality(s \ {last[s]}) = Cardinality(s) - 1
      BY <3>1, FS_RemoveElement
    <3> QED
      BY <3>1, <3>2
  <2>4. \A s \in Small(n + 1) : Turn(last, body, start, g, s) = Turn(last, body, start, f, s)
    BY <2>2, <2>3 DEF Turn
  <2>5. \A s \in Small(n + 1) : g[s] = Turn(last, body, start, g, s)
    BY <2>4
  <2> HIDE DEF g
  <2> QED
    BY <2>5
<1>4. Cardinality(S) \in Upto
  <2> HIDE DEF Upto
  <2> QED
    BY <1>1, <1>2, <1>3, AllNumbers
<1>5. PICK f : \A s \in SUBSET S : f[s] = Turn(last, body, start, f, s)
  BY <1>1, <1>4, FS_Subset
<1> DEFINE after == [s \in SUBSET S |-> f[s]]
<1>6. \A s \in SUBSET S : s \ {last[s]} \in SUBSET S
  OBVIOUS
<1>7. \A s \in SUBSET S : after[s] = Turn(last, body, start, after, s)
  BY <1>5, <1>6 DEF Turn
<1>8. after = [s \in SUBSET S |->
                 IF s = {} THEN start ELSE body[last[s]][after[s \ {last[s]}]]]
  BY <1>7 DEF Turn
<1> HIDE DEF after
<1> DEFINE loop == CHOOSE g : g = [s \in SUBSET S |->
                 IF s = {} THEN start ELSE body[last[s]][g[s \ {last[s]}]]]
<1>9. loop = [s \in SUBSET S |->
                 IF s = {} THEN start ELSE body[last[s]][loop[s \ {last[s]}]]]
  BY <1>8
<1>10. Loop(S, last, body, start) = loop[S]
  BY DEF Loop
<1> HIDE DEF loop
<1> QED
  BY <1>9, <1>10 DEF Turn, Unfolds

(* What a loop leaves, when T[s] holds what the turns of s may leave.      *)
LEMMA LoopInduction ==
  ASSUME NEW S, IsFiniteSet(S), NEW body, NEW start,
         NEW last, Picks(last, S),
         NEW T, start \in T[{}],
         \A s \in SUBSET S : \A x \in S \ s : \A i \in T[s] : body[x][i] \in T[s \cup {x}]
  PROVE  Loop(S, last, body, start) \in T[S]
<1>0. PICK after : Unfolds(after, S, last, body, start)
  BY LoopUnfolds
<1>1. /\ Loop(S, last, body, start) = after[S]
      /\ \A s \in SUBSET S : after[s] = Turn(last, body, start, after, s)
  BY <1>0 DEF Unfolds
<1> DEFINE F == {s \in SUBSET S : after[s] \notin T[s]}
<1>2. SUFFICES ASSUME F # {} PROVE FALSE
  BY <1>1
<1>3. PICK s \in F : \A t \in F : t \subseteq s => t = s
  <2>1. \A s \in F : IsFiniteSet(s)
    BY FS_Subset
  <2> HIDE DEF F
  <2> QED
    BY <1>2, <2>1, SmallestSet
<1>4. s # {} /\ last[s] \in s
  <2>1. after[{}] = start
    BY <1>1 DEF Turn
  <2>2. s # {}
    BY <1>3, <2>1
  <2> QED
    BY <1>3, <2>2 DEF Picks
<1> DEFINE r == s \ {last[s]}
<1>5. r \in SUBSET S /\ r # s /\ r \subseteq s /\ last[s] \in S \ r /\ r \cup {last[s]} = s
  BY <1>3, <1>4
<1>6. after[r] \in T[r]
  BY <1>3, <1>5
<1>7. body[last[s]][after[r]] \in T[s]
  <2> HIDE DEF r
  <2> QED
    BY <1>5, <1>6
<1>8. after[s] = body[last[s]][after[r]]
  BY <1>1, <1>3, <1>4 DEF Turn
<1> QED
  BY <1>3, <1>7, <1>8

LEMMA ForEachInduction ==
  ASSUME NEW S, IsFiniteSet(S), NEW body, NEW start, NEW T, start \in T[{}],
         \A s \in SUBSET S : \A x \in S \ s : \A i \in T[s] : body[x][i] \in T[s \cup {x}]
  PROVE  ForEach(S, body, start) \in T[S]
<1> DEFINE last == [s \in (SUBSET S) \ {{}} |-> CHOOSE x \in s : TRUE]
<1>1. Picks(last, S)
  BY DEF Picks
<1> HIDE DEF last
<1>2. Loop(S, last, body, start) \in T[S]
  BY <1>1, LoopInduction
<1> QED
  BY <1>2 DEF ForEach, last

(* A nonempty finite set of numbers has a greatest one.                    *)
LEMMA GreatestNumber ==
  ASSUME NEW s \in SUBSET Nat, IsFiniteSet(s), s # {}
  PROVE  \E k \in s : \A j \in s : j <= k
<1> DEFINE From(k) == {j \in s : k <= j}
           F == {From(k) : k \in s}
<1>1. F # {}
  OBVIOUS
<1>2. PICK S \in F : \A T \in F : T \subseteq S => T = S
  <2>1. \A k \in s : From(k) \subseteq s
    OBVIOUS
  <2>2. \A S \in F : IsFiniteSet(S)
    BY <2>1, FS_Subset
  <2> HIDE DEF F
  <2> QED
    BY <1>1, <2>2, SmallestSet
<1>3. PICK k \in s : S = From(k)
  BY <1>2
<1>4. ASSUME NEW j \in s, ~(j <= k) PROVE FALSE
  <2>1. From(j) \in F /\ From(j) \subseteq From(k) /\ k \in From(k) /\ k \notin From(j)
    BY <1>4
  <2> QED
    BY <1>2, <1>3, <2>1
<1> QED
  BY <1>4

LEMMA InOrderInduction ==
  ASSUME NEW X, NEW seq \in Seq(X), NEW body, NEW start, NEW T, start \in T[{}],
         \A s \in SUBSET DOMAIN seq : \A n \in DOMAIN seq \ s : \A i \in T[s] :
           body[seq[n]][i] \in T[s \cup {n}]
  PROVE  InOrder(seq, body, start) \in T[DOMAIN seq]
<1> DEFINE S == DOMAIN seq
           last == [s \in (SUBSET S) \ {{}} |-> CHOOSE k \in s : \A j \in s : j <= k]
           turns == [k \in S |-> body[seq[k]]]
<1>1. IsFiniteSet(S) /\ S \subseteq Nat
  BY FS_Interval
<1>2. Picks(last, S)
  <2>1. ASSUME NEW s \in (SUBSET S) \ {{}} PROVE last[s] \in s
    <3>1. s \in SUBSET Nat /\ IsFiniteSet(s)
      BY <1>1, FS_Subset
    <3>2. \E k \in s : \A j \in s : j <= k
      BY <3>1, GreatestNumber
    <3> QED
      BY <3>2
  <2> QED
    BY <2>1 DEF Picks
<1>3. \A s \in SUBSET S : \A n \in S \ s : \A i \in T[s] : turns[n][i] \in T[s \cup {n}]
  OBVIOUS
<1> HIDE DEF S, last, turns
<1>4. Loop(S, last, turns, start) \in T[S]
  BY <1>1, <1>2, <1>3, LoopInduction
<1> QED
  BY <1>4 DEF InOrder, S, last, turns

-----------------------------------------------------------------------------
(* Below.                                                                  *)

AllEdges == SUBSET (GroupNames \X GroupNames)

LEMMA NamesFinite == IsFiniteSet(GroupNames) /\ "all" \in GroupNames /\ "ungrouped" \in GroupNames
<1>1. IsFiniteSet(UserGroups \cup {"all"})
  BY NamesAssumption, FS_AddElement
<1>2. IsFiniteSet((UserGroups \cup {"all"}) \cup {"ungrouped"})
  BY <1>1, FS_AddElement
<1>3. GroupNames = (UserGroups \cup {"all"}) \cup {"ungrouped"}
  BY DEF GroupNames
<1> QED
  BY <1>2, <1>3

(* A set of groups that has with each of them its children.                *)
ClosedUnder(edges, gs) == \A e \in edges : e[1] \in gs => e[2] \in gs

LEMMA BelowBasics ==
  ASSUME NEW E \in AllEdges, NEW g \in GroupNames
  PROVE  /\ Below(E, g) \in SUBSET GroupNames
         /\ g \in Below(E, g)
         /\ ClosedUnder(E, Below(E, g))
         /\ \A gs \in SUBSET GroupNames :
              g \in gs /\ ClosedUnder(E, gs) => Below(E, g) \subseteq gs
BY DEF Below, ClosedUnder, AllEdges

LEMMA BelowTransitive ==
  ASSUME NEW E \in AllEdges, NEW g \in GroupNames, NEW d \in Below(E, g)
  PROVE  Below(E, d) \subseteq Below(E, g)
BY BelowBasics

(* What is below a group is the group or below one of its children.        *)
LEMMA BelowFirstStep ==
  ASSUME NEW E \in AllEdges, NEW g \in GroupNames, NEW d \in Below(E, g), d # g
  PROVE  \E c \in GroupNames : <<g, c>> \in E /\ d \in Below(E, c)
<1> DEFINE gs == {g} \cup {x \in GroupNames : \E c \in GroupNames : <<g, c>> \in E /\ x \in Below(E, c)}
<1>1. ASSUME NEW e \in E, e[1] \in gs PROVE e[2] \in gs
  <2>1. e = <<e[1], e[2]>> /\ e[1] \in GroupNames /\ e[2] \in GroupNames
    BY DEF AllEdges
  <2>2. CASE e[1] = g
    BY <2>1, <2>2, BelowBasics
  <2>3. CASE \E c \in GroupNames : <<g, c>> \in E /\ e[1] \in Below(E, c)
    <3>1. PICK c \in GroupNames : <<g, c>> \in E /\ e[1] \in Below(E, c)
      BY <2>3
    <3>2. e[2] \in Below(E, c)
      BY <3>1, BelowBasics DEF ClosedUnder
    <3> QED
      BY <2>1, <3>1, <3>2
  <2> QED
    BY <1>1, <2>2, <2>3
<1>2. gs \in SUBSET GroupNames /\ g \in gs /\ ClosedUnder(E, gs)
  BY <1>1 DEF ClosedUnder
<1> HIDE DEF gs
<1>3. d \in gs
  BY <1>2, BelowBasics
<1> QED
  BY <1>3 DEF gs

(* ... or has a parent that is below the group.                            *)
LEMMA BelowLastStep ==
  ASSUME NEW E \in AllEdges, NEW g \in GroupNames, NEW d \in Below(E, g), d # g
  PROVE  \E p \in Below(E, g) : <<p, d>> \in E
<1> SUFFICES ASSUME \A p \in Below(E, g) : <<p, d>> \notin E PROVE FALSE
  OBVIOUS
<1> DEFINE gs == Below(E, g) \ {d}
<1>1. \A e \in E : e = <<e[1], e[2]>>
  BY DEF AllEdges
<1>2. gs \in SUBSET GroupNames /\ g \in gs /\ ClosedUnder(E, gs)
  BY <1>1, BelowBasics DEF ClosedUnder
<1> HIDE DEF gs
<1>3. d \in gs
  BY <1>2, BelowBasics
<1> QED
  BY <1>3 DEF gs

(* More edges, more groups below.                                          *)
LEMMA BelowGrows ==
  ASSUME NEW E \in AllEdges, NEW F \in AllEdges, E \subseteq F, NEW g \in GroupNames
  PROVE  Below(E, g) \subseteq Below(F, g)
<1>1. ClosedUnder(E, Below(F, g))
  BY BelowBasics DEF ClosedUnder
<1> QED
  BY <1>1, BelowBasics

(* With an edge more, what is below the child is below what has the parent *)
(* below it, and nothing else changes.                                     *)
LEMMA BelowWithEdge ==
  ASSUME NEW E \in AllEdges, NEW p \in GroupNames, NEW c \in GroupNames, NEW g \in GroupNames
  PROVE  Below(E \cup {<<p, c>>}, g) =
           Below(E, g) \cup (IF p \in Below(E, g) THEN Below(E, c) ELSE {})
<1> DEFINE F == E \cup {<<p, c>>}
           gs == Below(E, g) \cup (IF p \in Below(E, g) THEN Below(E, c) ELSE {})
<1>1. F \in AllEdges /\ E \subseteq F
  BY DEF AllEdges
<1>2. gs \in SUBSET GroupNames /\ g \in gs
  BY BelowBasics
<1>3. ClosedUnder(F, gs)
  <2>1. ASSUME NEW e \in F, e[1] \in gs PROVE e[2] \in gs
    <3>1. CASE e \in E
      BY <2>1, <3>1, BelowBasics DEF ClosedUnder
    <3>2. CASE e = <<p, c>>
      <4>1. c \in Below(E, c)
        BY BelowBasics
      <4>2. p \in Below(E, g) => c \in gs
        BY <4>1
      <4>3. p \in gs => p \in Below(E, g)
        OBVIOUS
      <4> QED
        BY <2>1, <3>2, <4>2, <4>3
    <3> QED
      BY <2>1, <3>1, <3>2
  <2> QED
    BY <2>1 DEF ClosedUnder
<1>4. gs \subseteq Below(F, g)
  <2>1. Below(E, g) \subseteq Below(F, g) /\ Below(E, c) \subseteq Below(F, c)
    BY <1>1, BelowGrows
  <2>2. ASSUME p \in Below(E, g) PROVE Below(F, c) \subseteq Below(F, g)
    <3>1. p \in Below(F, g) /\ <<p, c>> \in F
      BY <2>1, <2>2
    <3>2. c \in Below(F, g)
      BY <1>1, <3>1, BelowBasics DEF ClosedUnder
    <3> QED
      BY <1>1, <3>2, BelowTransitive
  <2> QED
    BY <2>1, <2>2
<1> HIDE DEF F, gs
<1>5. Below(F, g) \subseteq gs
  BY <1>1, <1>2, <1>3, BelowBasics
<1> QED
  BY <1>4, <1>5 DEF F, gs
(* The edges the other way round.                                          *)
Flipped(E) == {<<e[2], e[1]>> : e \in E}

LEMMA FlippedFlips ==
  ASSUME NEW E \in AllEdges
  PROVE  /\ Flipped(E) \in AllEdges
         /\ \A a, b \in GroupNames : <<a, b>> \in Flipped(E) <=> <<b, a>> \in E
<1>1. \A e \in E : e = <<e[1], e[2]>> /\ e[1] \in GroupNames /\ e[2] \in GroupNames
  BY DEF AllEdges
<1> QED
  BY <1>1 DEF Flipped, AllEdges

LEMMA AboveIsBelow ==
  ASSUME NEW E \in AllEdges, NEW a \in GroupNames, NEW b \in GroupNames
  PROVE  a \in Below(Flipped(E), b) <=> b \in Below(E, a)
<1>1. ASSUME NEW F \in AllEdges, NEW G \in AllEdges, NEW g \in GroupNames,
             \A x, y \in GroupNames : <<x, y>> \in F => <<y, x>> \in G,
             NEW d \in Below(F, g)
      PROVE  g \in Below(G, d)
  <2> DEFINE gs == {x \in GroupNames : g \in Below(G, x)}
  <2>1. ASSUME NEW e \in F, e[1] \in gs PROVE e[2] \in gs
    <3>1. /\ e = <<e[1], e[2]>> /\ e[1] \in GroupNames /\ e[2] \in GroupNames
          /\ g \in Below(G, e[1])
      BY <2>1 DEF AllEdges
    <3>2. <<e[2], e[1]>> \in G /\ e[2] \in Below(G, e[2])
      BY <1>1, <3>1, BelowBasics
    <3>3. e[1] \in Below(G, e[2])
      BY <3>1, <3>2, BelowBasics DEF ClosedUnder
    <3>4. Below(G, e[1]) \subseteq Below(G, e[2])
      BY <3>1, <3>3, BelowTransitive
    <3> QED
      BY <3>1, <3>4
  <2>2. gs \in SUBSET GroupNames /\ g \in gs /\ ClosedUnder(F, gs)
    BY <2>1, BelowBasics DEF ClosedUnder
  <2> HIDE DEF gs
  <2>3. d \in gs
    BY <2>2, BelowBasics
  <2> QED
    BY <2>3 DEF gs
<1>2. Flipped(E) \in AllEdges
      /\ \A x, y \in GroupNames : <<x, y>> \in Flipped(E) <=> <<y, x>> \in E
  BY FlippedFlips
<1>3. ASSUME a \in Below(Flipped(E), b) PROVE b \in Below(E, a)
  BY <1>1, <1>2, <1>3
<1>4. ASSUME b \in Below(E, a) PROVE a \in Below(Flipped(E), b)
  BY <1>1, <1>2, <1>4
<1> QED
  BY <1>3, <1>4

(* _walk_relationship finds everything below where it starts.              *)
LEMMA WalkFinds ==
  ASSUME NEW E \in AllEdges, NEW start \in SUBSET GroupNames
  PROVE  Walk(E, start) = UNION {Below(E, g) : g \in start}
<1> DEFINE B == UNION {Below(E, g) : g \in start}
           Ends(n, w) == w.unprocessed = {} \/ n <= Cardinality(w.seen)
           Walked(w) == /\ w \in Walks
                        /\ w.seen \cup w.unprocessed \subseteq B
                        /\ start \subseteq w.seen \cup w.unprocessed
                        /\ w.seen \cap w.unprocessed = {}
                        /\ \A e \in E : e[1] \in w.seen => e[2] \in w.seen \cup w.unprocessed
           T == [s \in SUBSET GroupNames |-> {w \in Walks : Walked(w) /\ Ends(Cardinality(s), w)}]
           body == [n \in GroupNames |-> [w \in Walks |-> WalkRound(E, w)]]
           first == [seen |-> {}, unprocessed |-> start]
<1>1. \A e \in E : e = <<e[1], e[2]>> /\ e[1] \in GroupNames /\ e[2] \in GroupNames
  BY DEF AllEdges
<1>2. B \in SUBSET GroupNames /\ start \subseteq B /\ ClosedUnder(E, B)
  BY BelowBasics DEF ClosedUnder
<1>3. \A s \in SUBSET GroupNames : IsFiniteSet(s) /\ Cardinality(s) \in Nat
  BY NamesFinite, FS_Subset, FS_CardinalityType
<1> HIDE DEF B
<1>4. first \in T[{}]
  <2>1. Walked(first)
    BY <1>2 DEF Walks
  <2>2. Cardinality({}) = 0
    BY FS_EmptySet
  <2> QED
    BY <1>3, <2>1, <2>2
<1>5. ASSUME NEW s \in SUBSET GroupNames, NEW x \in GroupNames \ s, NEW w \in T[s]
      PROVE  body[x][w] \in T[s \cup {x}]
  <2>1. w \in Walks /\ Walked(w) /\ Ends(Cardinality(s), w)
    BY <1>5
  <2> DEFINE v == WalkRound(E, w)
  <2>2. /\ v.seen = w.seen \cup w.unprocessed
        /\ v.unprocessed = {e[2] : e \in {e \in E : e[1] \in w.unprocessed}} \ v.seen
        /\ v \in Walks
    <3>1. {e[2] : e \in {e \in E : e[1] \in w.unprocessed}} \subseteq GroupNames
      BY <1>1
    <3>2. w.seen \cup w.unprocessed \subseteq GroupNames
      BY <2>1 DEF Walks
    <3> QED
      BY <3>1, <3>2 DEF WalkRound, Walks
  <2>3. body[x][w] = v
    BY <2>1
  <2> HIDE DEF body, v
  <2>4. Walked(v)
    <3>1. v.seen \subseteq B
      BY <2>1, <2>2
    <3>2. v.unprocessed \subseteq B
      BY <1>2, <2>1, <2>2 DEF ClosedUnder
    <3>3. \A e \in E : e[1] \in v.seen => e[2] \in v.seen \cup v.unprocessed
      BY <2>1, <2>2
    <3> QED
      BY <2>1, <2>2, <3>1, <3>2, <3>3
  <2>5. Ends(Cardinality(s \cup {x}), v)
    <3>1. CASE w.unprocessed = {}
      BY <2>2, <3>1
    <3>2. CASE w.unprocessed # {}
      <4>1. PICK u \in w.unprocessed : TRUE
        BY <3>2
      <4>2. /\ w.seen \in SUBSET GroupNames /\ v.seen \in SUBSET GroupNames
            /\ w.seen \cup {u} \subseteq v.seen /\ u \notin w.seen
        BY <2>1, <2>2, <4>1 DEF Walks
      <4>3. Cardinality(w.seen \cup {u}) = Cardinality(w.seen) + 1
        BY <1>3, <4>2, FS_AddElement
      <4>4. Cardinality(w.seen \cup {u}) <= Cardinality(v.seen)
        BY <1>3, <4>2, FS_Subset
      <4>5. Cardinality(s \cup {x}) = Cardinality(s) + 1
        BY <1>3, FS_AddElement
      <4>6. Cardinality(s) <= Cardinality(w.seen)
        BY <2>1, <3>2
      <4>7. /\ Cardinality(s) \in Nat /\ Cardinality(w.seen) \in Nat
            /\ Cardinality(v.seen) \in Nat
        BY <1>3, <4>2
      <4>8. Cardinality(s \cup {x}) <= Cardinality(v.seen)
        BY <4>3, <4>4, <4>5, <4>6, <4>7
      <4> QED
        BY <4>8
    <3> QED
      BY <3>1, <3>2
  <2> HIDE DEF Walked, Ends
  <2>6. v \in T[s \cup {x}]
    BY <2>2, <2>4, <2>5
  <2> QED
    BY <2>3, <2>6
<1> HIDE DEF T, body, first
<1>6. ForEach(GroupNames, body, first) \in T[GroupNames]
  BY <1>4, <1>5, NamesFinite, ForEachInduction
<1> DEFINE w == ForEach(GroupNames, body, first)
<1>7. w \in Walks /\ Walked(w) /\ Ends(Cardinality(GroupNames), w)
  BY <1>6 DEF T
<1> HIDE DEF w
<1>8. w.unprocessed = {}
  <2>1. w.seen \in SUBSET GroupNames /\ w.unprocessed \in SUBSET GroupNames
    BY <1>7 DEF Walks
  <2>2. ASSUME Cardinality(GroupNames) <= Cardinality(w.seen) PROVE w.seen = GroupNames
    <3>1. Cardinality(w.seen) <= Cardinality(GroupNames)
      BY <2>1, NamesFinite, FS_Subset
    <3>2. Cardinality(w.seen) = Cardinality(GroupNames)
      BY <1>3, <2>1, <2>2, <3>1
    <3> QED
      BY <2>1, <3>2, NamesFinite, FS_Subset
  <2> QED
    BY <1>7, <2>1, <2>2
<1>9. w.seen \in SUBSET GroupNames /\ start \subseteq w.seen /\ ClosedUnder(E, w.seen)
  BY <1>7, <1>8 DEF Walks, ClosedUnder
<1>10. B \subseteq w.seen
  BY <1>9, BelowBasics DEF B
<1>11. w.seen \subseteq B
  BY <1>7
<1>12. Walk(E, start) = w.seen
  BY DEF Walk, w, body, first
<1> QED
  BY <1>10, <1>11, <1>12 DEF B
-----------------------------------------------------------------------------
(* Groups without loops.                                                   *)

NoLoops(E) == \A e \in E : e[1] \notin Below(E, e[2])

LEMMA EdgeAddsNoLoop ==
  ASSUME NEW E \in AllEdges, NoLoops(E), NEW p \in GroupNames, NEW c \in GroupNames,
         p \notin Below(E, c)
  PROVE  NoLoops(E \cup {<<p, c>>})
<1> DEFINE F == E \cup {<<p, c>>}
<1>1. \A g \in GroupNames :
        Below(F, g) = Below(E, g) \cup (IF p \in Below(E, g) THEN Below(E, c) ELSE {})
  BY BelowWithEdge
<1> HIDE DEF F
<1>2. ASSUME NEW e \in E PROVE e[1] \notin Below(F, e[2])
  <2>1. /\ e = <<e[1], e[2]>> /\ e[1] \in GroupNames /\ e[2] \in GroupNames
        /\ e[1] \notin Below(E, e[2])
    BY DEF AllEdges, NoLoops
  <2>2. ASSUME p \in Below(E, e[2]), e[1] \in Below(E, c) PROVE FALSE
    <3>1. e[2] \in Below(E, c)
      BY <2>1, <2>2, BelowBasics DEF ClosedUnder
    <3>2. p \in Below(E, c)
      BY <2>2, <3>1, BelowTransitive
    <3> QED
      BY <3>2
  <2> QED
    BY <1>1, <2>1, <2>2
<1>3. p \notin Below(F, c)
  BY <1>1
<1> QED
  BY <1>2, <1>3 DEF NoLoops, F

(* A field of an inventory.                                                *)
LEMMA Fields ==
  ASSUME NEW i \in Inventories
  PROVE  /\ i.groups \in SUBSET GroupNames /\ i.hosts \in SUBSET HostNames
         /\ i.children \in AllEdges
         /\ i.members \in [GroupNames -> SUBSET HostNames]
         /\ i.groupsOf \in [HostNames -> SUBSET GroupNames]
         /\ i.depth \in [GroupNames -> Nat]
         /\ i.seen \in [GroupNames -> {Unknown} \cup SUBSET HostNames]
         /\ \A e \in i.children : e = <<e[1], e[2]>> /\ e[1] \in GroupNames /\ e[2] \in GroupNames
BY DEF Inventories, AllEdges

LEMMA DeeperBelow ==
  ASSUME NEW i \in Inventories, Deeper(i), NEW g \in GroupNames, NEW d \in Below(i.children, g), d # g
  PROVE  i.depth[g] < i.depth[d]
<1> DEFINE gs == {x \in GroupNames : x = g \/ i.depth[g] < i.depth[x]}
<1>1. i.depth \in [GroupNames -> Nat] /\ i.children \in AllEdges
  BY Fields
<1>2. ASSUME NEW e \in i.children, e[1] \in gs PROVE e[2] \in gs
  <2>1. /\ e[1] \in GroupNames /\ e[2] \in GroupNames
        /\ i.depth[e[1]] < i.depth[e[2]]
    BY Fields DEF Deeper
  <2>2. i.depth[g] \in Nat /\ i.depth[e[1]] \in Nat /\ i.depth[e[2]] \in Nat
    BY <1>1, <2>1
  <2>3. i.depth[g] <= i.depth[e[1]]
    BY <1>2, <2>2
  <2> QED
    BY <2>1, <2>2, <2>3
<1>3. gs \in SUBSET GroupNames /\ g \in gs /\ ClosedUnder(i.children, gs)
  BY <1>2 DEF ClosedUnder
<1> HIDE DEF gs
<1>4. d \in gs
  BY <1>1, <1>3, BelowBasics
<1> QED
  BY <1>4 DEF gs

LEMMA DeeperNoLoops ==
  ASSUME NEW i \in Inventories, Deeper(i)
  PROVE  NoLoops(i.children)
<1>1. ASSUME NEW e \in i.children, e[1] \in Below(i.children, e[2]) PROVE FALSE
  <2>1. /\ e[1] \in GroupNames /\ e[2] \in GroupNames
        /\ i.depth[e[1]] < i.depth[e[2]]
        /\ i.depth[e[1]] \in Nat /\ i.depth[e[2]] \in Nat
    BY Fields DEF Deeper
  <2>2. e[1] # e[2]
    BY <2>1
  <2>3. i.depth[e[2]] < i.depth[e[1]]
    BY <1>1, <2>1, <2>2, DeeperBelow
  <2> QED
    BY <2>1, <2>3
<1> QED
  BY <1>1 DEF NoLoops

(* get_descendants and get_ancestors, of what they are called.             *)
LEMMA DescendantsFound ==
  ASSUME NEW i \in Inventories, NEW g \in GroupNames
  PROVE  GetDescendants(i, g) = Below(i.children, g)
<1> DEFINE E == i.children
           start == {g} \cup Children(i, {g})
<1>1. E \in AllEdges /\ Below(E, g) \in SUBSET GroupNames /\ g \in Below(E, g)
  BY Fields, BelowBasics
<1>2. Children(i, {g}) \subseteq Below(E, g)
  <2>1. ASSUME NEW e \in E, e[1] = g PROVE e[2] \in Below(E, g)
    BY <1>1, <2>1, BelowBasics DEF ClosedUnder
  <2> QED
    BY <2>1 DEF Children
<1> HIDE DEF E
<1>3. start \in SUBSET GroupNames /\ g \in start /\ start \subseteq Below(E, g)
  BY <1>1, <1>2
<1> HIDE DEF start
<1>4. \A c \in start : Below(E, c) \subseteq Below(E, g)
  BY <1>1, <1>3, BelowTransitive
<1>5. Walk(E, start) = UNION {Below(E, c) : c \in start}
  BY <1>1, <1>3, WalkFinds
<1> QED
  BY <1>3, <1>4, <1>5 DEF GetDescendants, E, start

LEMMA AncestorsFound ==
  ASSUME NEW i \in Inventories, NEW g \in GroupNames
  PROVE  /\ GetAncestors(i, g) \in SUBSET GroupNames
         /\ \A a \in GroupNames :
              a \in GetAncestors(i, g)
                <=> \E p \in GroupNames : <<p, g>> \in i.children /\ p \in Below(i.children, a)
<1> DEFINE E == i.children
           start == Parents(i, {g})
<1>1. E \in AllEdges /\ Flipped(E) \in AllEdges /\ Upwards(i) = Flipped(E)
  BY Fields, FlippedFlips DEF Upwards, Flipped
<1>2. start = {p \in GroupNames : <<p, g>> \in E}
  <2>1. \A e \in E : e = <<e[1], e[2]>> /\ e[1] \in GroupNames
    BY Fields
  <2> QED
    BY <2>1 DEF Parents
<1> HIDE DEF E, start
<1>3. GetAncestors(i, g) = UNION {Below(Flipped(E), p) : p \in start}
  <2>1. start \in SUBSET GroupNames
    BY <1>2
  <2>2. Walk(Flipped(E), start) = UNION {Below(Flipped(E), p) : p \in start}
    BY <1>1, <2>1, WalkFinds
  <2> QED
    BY <1>1, <2>2 DEF GetAncestors, start
<1>4. \A p \in GroupNames : Below(Flipped(E), p) \in SUBSET GroupNames
  BY <1>1, BelowBasics
<1>5. \A a, p \in GroupNames : a \in Below(Flipped(E), p) <=> p \in Below(E, a)
  BY <1>1, AboveIsBelow
<1>6. \A p \in GroupNames : p \in start <=> <<p, g>> \in E
  BY <1>2
<1>7. start \subseteq GroupNames
  BY <1>2
<1>8. GetAncestors(i, g) \in SUBSET GroupNames
  BY <1>3, <1>4, <1>7
<1>9. \A a \in GroupNames :
        a \in GetAncestors(i, g) <=> \E p \in GroupNames : <<p, g>> \in E /\ p \in Below(E, a)
  BY <1>3, <1>5, <1>6, <1>7
<1> QED
  BY <1>8, <1>9 DEF E

LEMMA AncestorsAreAbove ==
  ASSUME NEW i \in Inventories, NoLoops(i.children), NEW g \in GroupNames
  PROVE  GetAncestors(i, g) = {a \in GroupNames : a # g /\ g \in Below(i.children, a)}
<1> DEFINE E == i.children
<1>1. E \in AllEdges
  BY Fields
<1>2. ASSUME NEW a \in GroupNames, NEW p \in GroupNames, <<p, g>> \in E, p \in Below(E, a)
      PROVE  a # g /\ g \in Below(E, a)
  <2>1. p \notin Below(E, g)
    BY <1>2 DEF NoLoops
  <2>2. g \in Below(E, a)
    BY <1>1, <1>2, BelowBasics DEF ClosedUnder
  <2> QED
    BY <1>2, <2>1, <2>2
<1>3. ASSUME NEW a \in GroupNames, a # g, g \in Below(E, a)
      PROVE  \E p \in GroupNames : <<p, g>> \in E /\ p \in Below(E, a)
  BY <1>1, <1>3, BelowLastStep, BelowBasics
<1> HIDE DEF E
<1>4. \A a \in GroupNames : a \in GetAncestors(i, g) <=> a # g /\ g \in Below(E, a)
  BY <1>2, <1>3, AncestorsFound DEF E
<1> QED
  BY <1>4, AncestorsFound DEF E

LEMMA LoopIsBelow ==
  ASSUME NEW i \in Inventories, NoLoops(i.children), NEW p \in GroupNames, NEW c \in GroupNames
  PROVE  AddsLoop(i, p, c) <=> p \in Below(i.children, c)
<1>1. GetAncestors(i, p) = {a \in GroupNames : a # p /\ p \in Below(i.children, a)}
  BY AncestorsAreAbove
<1>2. p \in Below(i.children, p)
  BY Fields, BelowBasics
<1> QED
  BY <1>1, <1>2 DEF AddsLoop

(* get_hosts, cached or not.                                               *)
LEMMA HostsFound ==
  ASSUME NEW i \in Inventories, NEW g \in GroupNames, i.seen[g] \in {Unknown, HostsOf(i, g)}
  PROVE  GetHosts(i, g) = HostsOf(i, g)
BY DescendantsFound DEF GetHosts, HostsOf

LEMMA HostsOfType ==
  ASSUME NEW i \in Inventories, NEW g \in GroupNames
  PROVE  HostsOf(i, g) \in SUBSET HostNames /\ HostsOf(i, g) # Unknown
<1>1. HostsOf(i, g) \in SUBSET HostNames
  BY Fields, BelowBasics DEF HostsOf
<1> QED
  BY <1>1, NamesAssumption
(* _check_children_depth: when only the children of one group may be too   *)
(* shallow, every group is deeper than its parents afterwards.             *)
LEMMA DeepenDeepens ==
  ASSUME NEW i \in Inventories, NoLoops(i.children), NEW c \in GroupNames,
         \A e \in i.children : i.depth[e[1]] < i.depth[e[2]] \/ e[1] = c
  PROVE  /\ Deepen(i, c) \in [GroupNames -> Nat]
         /\ \A e \in i.children : Deepen(i, c)[e[1]] < Deepen(i, c)[e[2]]
<1> DEFINE E == i.children
           Down(g) == Cardinality(Below(E, g))
           N == Cardinality(GroupNames)
           Waits(d) == \A e \in E : \/ d.depth[e[1]] < d.depth[e[2]]
                                    \/ e[2] \in d.unprocessed /\ d.depth[e[1]] < d.level
           Ends(n, d) == \A u \in d.unprocessed : Down(u) + n <= N
           T == [s \in SUBSET GroupNames |->
                   {d \in Deepenings : Waits(d) /\ Ends(Cardinality(s), d)}]
           body == [n \in GroupNames |-> [d \in Deepenings |-> DeepenRound(i, d)]]
           first == [depth |-> i.depth, level |-> i.depth[c] + 1,
                     unprocessed |-> Children(i, {c})]
<1>1. /\ E \in AllEdges /\ i.depth \in [GroupNames -> Nat]
      /\ \A e \in E : e = <<e[1], e[2]>> /\ e[1] \in GroupNames /\ e[2] \in GroupNames
  BY Fields
<1>2. /\ N \in Nat
      /\ \A s \in SUBSET GroupNames : IsFiniteSet(s) /\ Cardinality(s) \in Nat /\ Cardinality(s) <= N
  BY NamesFinite, FS_Subset, FS_CardinalityType
<1>3. \A g \in GroupNames : Down(g) \in Nat /\ Down(g) <= N /\ Down(g) # 0
  <2>1. ASSUME NEW g \in GroupNames PROVE Down(g) \in Nat /\ Down(g) <= N /\ Down(g) # 0
    <3>1. Below(E, g) \in SUBSET GroupNames /\ g \in Below(E, g)
      BY <1>1, BelowBasics
    <3>2. Down(g) # 0
      BY <1>2, <3>1, FS_EmptySet
    <3> QED
      BY <1>2, <3>1, <3>2
  <2> QED
    BY <2>1
<1>4. ASSUME NEW e \in E PROVE Down(e[2]) + 1 <= Down(e[1])
  <2>1. /\ e[2] \in Below(E, e[1]) /\ e[1] \notin Below(E, e[2]) /\ e[1] \in Below(E, e[1])
        /\ Below(E, e[2]) \in SUBSET GroupNames /\ Below(E, e[1]) \in SUBSET GroupNames
    BY <1>1, BelowBasics DEF ClosedUnder, NoLoops
  <2>2. Below(E, e[2]) \subseteq Below(E, e[1])
    BY <1>1, <2>1, BelowTransitive
  <2>3. Cardinality(Below(E, e[2]) \cup {e[1]}) = Down(e[2]) + 1
    BY <1>2, <2>1, FS_AddElement
  <2>4. Cardinality(Below(E, e[2]) \cup {e[1]}) <= Down(e[1])
    BY <1>2, <2>1, <2>2, FS_Subset
  <2> QED
    BY <2>3, <2>4
<1>5. \A gs \in SUBSET GroupNames : /\ Children(i, gs) \in SUBSET GroupNames
                                    /\ \A e \in E : e[1] \in gs => e[2] \in Children(i, gs)
                                    /\ \A u \in Children(i, gs) : \E e \in E : e[1] \in gs /\ u = e[2]
  BY <1>1 DEF Children
<1> HIDE DEF N, Down, E
<1>6. first \in T[{}]
  <2>1. first \in Deepenings
    BY <1>1, <1>5 DEF Deepenings
  <2>2. Waits(first)
    <3>1. ASSUME NEW e \in E
          PROVE  \/ i.depth[e[1]] < i.depth[e[2]]
                 \/ e[2] \in Children(i, {c}) /\ i.depth[e[1]] < i.depth[c] + 1
      <4>1. i.depth[c] \in Nat
        BY <1>1
      <4> QED
        BY <1>5, <4>1 DEF E
    <3> QED
      BY <3>1
  <2>3. Ends(0, first)
    BY <1>2, <1>3, <1>5
  <2>4. Cardinality({}) = 0
    BY FS_EmptySet
  <2> HIDE DEF first, Waits, Ends
  <2> QED
    BY <2>1, <2>2, <2>3, <2>4
<1>7. ASSUME NEW s \in SUBSET GroupNames, NEW x \in GroupNames \ s, NEW d \in T[s]
      PROVE  body[x][d] \in T[s \cup {x}]
  <2>1. d \in Deepenings /\ Waits(d) /\ Ends(Cardinality(s), d)
    BY <1>7
  <2> DEFINE v == DeepenRound(i, d)
             lifted == {g \in d.unprocessed : d.depth[g] < d.level}
  <2>2. /\ d.depth \in [GroupNames -> Nat] /\ d.level \in Nat
        /\ d.unprocessed \in SUBSET GroupNames
    BY <2>1 DEF Deepenings
  <2>3. /\ v.level = d.level + 1 /\ v.unprocessed = Children(i, lifted)
        /\ v.depth = [g \in GroupNames |-> IF g \in lifted THEN d.level ELSE d.depth[g]]
        /\ v \in Deepenings
    BY <1>5, <2>2 DEF DeepenRound, Deepenings
  <2>4. \A g \in lifted : g \in d.unprocessed /\ d.depth[g] < d.level
    OBVIOUS
  <2>5. \A g \in d.unprocessed : g \notin lifted => ~(d.depth[g] < d.level)
    OBVIOUS
  <2>6. body[x][d] = v
    BY <2>1
  <2> HIDE DEF body, v
  <2>7. lifted \in SUBSET GroupNames
    BY <2>2
  <2> HIDE DEF lifted
  <2>8. Waits(v)
    <3>1. ASSUME NEW e \in E
          PROVE  \/ v.depth[e[1]] < v.depth[e[2]]
                 \/ e[2] \in v.unprocessed /\ v.depth[e[1]] < v.level
      <4> DEFINE a == e[1]
                 b == e[2]
      <4>1. /\ a \in GroupNames /\ b \in GroupNames
            /\ d.depth[a] \in Nat /\ d.depth[b] \in Nat
            /\ v.depth[a] = IF a \in lifted THEN d.level ELSE d.depth[a]
            /\ v.depth[b] = IF b \in lifted THEN d.level ELSE d.depth[b]
        BY <1>1, <2>2, <2>3
      <4>2. d.depth[a] < d.depth[b] \/ (b \in d.unprocessed /\ d.depth[a] < d.level)
        BY <2>1
      <4>3. a \in lifted => b \in v.unprocessed
        BY <1>5, <2>3, <2>7
      <4> HIDE DEF a, b
      <4>4. CASE a \in lifted
        BY <2>2, <2>3, <4>1, <4>3, <4>4 DEF a, b
      <4>5. CASE a \notin lifted /\ b \in lifted
        <5>1. d.depth[b] < d.level
          BY <2>4, <4>5
        <5>2. d.depth[a] < d.level
          BY <2>2, <4>1, <4>2, <5>1
        <5> QED
          BY <4>1, <4>5, <5>2 DEF a, b
      <4>6. CASE a \notin lifted /\ b \notin lifted
        <5>1. d.depth[a] < d.depth[b]
          BY <2>2, <2>5, <4>1, <4>2, <4>6
        <5> QED
          BY <4>1, <4>6, <5>1 DEF a, b
      <4> QED
        BY <4>4, <4>5, <4>6
    <3> QED
      BY <3>1
  <2>9. Ends(Cardinality(s \cup {x}), v)
    <3>1. Cardinality(s \cup {x}) = Cardinality(s) + 1 /\ Cardinality(s) \in Nat
      BY <1>2, FS_AddElement
    <3>2. ASSUME NEW u \in v.unprocessed PROVE Down(u) + (Cardinality(s) + 1) <= N
      <4>1. PICK e \in E : e[1] \in lifted /\ u = e[2]
        BY <1>5, <2>3, <2>7, <3>2
      <4>2. Down(e[2]) + 1 <= Down(e[1]) /\ Down(e[1]) \in Nat /\ Down(e[2]) \in Nat
        BY <1>1, <1>3, <1>4, <4>1
      <4>3. Down(e[1]) + Cardinality(s) <= N
        BY <2>1, <2>4, <4>1
      <4> QED
        BY <1>2, <3>1, <4>1, <4>2, <4>3
    <3> QED
      BY <3>1, <3>2
  <2> HIDE DEF Waits, Ends
  <2>10. v \in T[s \cup {x}]
    BY <2>3, <2>8, <2>9
  <2> QED
    BY <2>6, <2>10
<1> HIDE DEF T, body, first
<1>8. ForEach(GroupNames, body, first) \in T[GroupNames]
  BY <1>6, <1>7, NamesFinite, ForEachInduction
<1> DEFINE d == ForEach(GroupNames, body, first)
<1>9. d \in Deepenings /\ Waits(d) /\ Ends(N, d)
  BY <1>8 DEF T, N
<1>10. d.depth = Deepen(i, c)
  BY DEF Deepen, body, first
<1> HIDE DEF d
<1>11. d.unprocessed = {}
  <2>1. SUFFICES ASSUME NEW u \in d.unprocessed PROVE FALSE
    OBVIOUS
  <2>2. u \in GroupNames
    BY <1>9 DEF Deepenings
  <2>3. Down(u) + N <= N /\ Down(u) \in Nat /\ Down(u) # 0
    BY <1>3, <1>9, <2>2
  <2> QED
    BY <1>2, <2>3
<1>12. d.depth \in [GroupNames -> Nat] /\ \A e \in E : d.depth[e[1]] < d.depth[e[2]]
  BY <1>9, <1>11 DEF Deepenings
<1> QED
  BY <1>10, <1>12 DEF E

(* ... and no deeper than it must be: a depth that is not 0 is that of     *)
(* some parent and 1, at the latest when the loop has ended.               *)
Reached(E, depth, g) ==
  depth[g] # 0 => \E p \in GroupNames : <<p, g>> \in E /\ depth[p] + 1 = depth[g]

LEMMA DeepenMeasures ==
  ASSUME NEW i \in Inventories, NoLoops(i.children), NEW c \in GroupNames,
         \A e \in i.children : i.depth[e[1]] < i.depth[e[2]] \/ e[1] = c,
         \A g \in GroupNames : \/ Reached(i.children, i.depth, g)
                               \/ <<c, g>> \in i.children /\ i.depth[g] < i.depth[c] + 1
  PROVE  \A g \in GroupNames : Reached(i.children, Deepen(i, c), g)
<1> DEFINE E == i.children
           Waits(d, g) == g \in d.unprocessed /\ d.depth[g] < d.level
           Right(d) == \A g \in GroupNames : Reached(E, d.depth, g) \/ Waits(d, g)
           Due(d) == \A u \in d.unprocessed :
                       \E p \in GroupNames : <<p, u>> \in E /\ d.depth[p] + 1 = d.level
           T == [s \in SUBSET GroupNames |-> {d \in Deepenings : Right(d) /\ Due(d)}]
           body == [n \in GroupNames |-> [d \in Deepenings |-> DeepenRound(i, d)]]
           first == [depth |-> i.depth, level |-> i.depth[c] + 1,
                     unprocessed |-> Children(i, {c})]
<1>1. E \in AllEdges /\ i.depth \in [GroupNames -> Nat]
  BY Fields
<1>2. \A gs \in SUBSET GroupNames :
        /\ Children(i, gs) \in SUBSET GroupNames
        /\ \A p \in gs : \A u \in GroupNames : <<p, u>> \in E => u \in Children(i, gs)
        /\ \A u \in Children(i, gs) : \E p \in gs : <<p, u>> \in E
  <2>1. \A e \in E : e = <<e[1], e[2]>> /\ e[1] \in GroupNames /\ e[2] \in GroupNames
    BY Fields
  <2> QED
    BY <2>1 DEF Children
<1> HIDE DEF E
<1>3. first \in T[{}]
  <2>1. first \in Deepenings
    BY <1>1, <1>2 DEF Deepenings
  <2>2. Right(first)
    BY <1>2 DEF E
  <2>3. Due(first)
    <3>1. \A u \in Children(i, {c}) : <<c, u>> \in E
      <4>1. {c} \in SUBSET GroupNames
        OBVIOUS
      <4>2. \A u \in Children(i, {c}) : \E p \in {c} : <<p, u>> \in E
        BY <1>2, <4>1
      <4> QED
        BY <4>2
    <3>2. first.unprocessed = Children(i, {c}) /\ first.depth[c] + 1 = first.level
      OBVIOUS
    <3> HIDE DEF first
    <3> QED
      BY <3>1, <3>2
  <2> HIDE DEF first, Right, Due
  <2> QED
    BY <2>1, <2>2, <2>3
<1>4. ASSUME NEW s \in SUBSET GroupNames, NEW x \in GroupNames \ s, NEW d \in T[s]
      PROVE  body[x][d] \in T[s \cup {x}]
  <2>1. d \in Deepenings /\ Right(d) /\ Due(d)
    BY <1>4
  <2> DEFINE v == DeepenRound(i, d)
             lifted == {g \in d.unprocessed : d.depth[g] < d.level}
  <2>2. /\ d.depth \in [GroupNames -> Nat] /\ d.level \in Nat
        /\ d.unprocessed \in SUBSET GroupNames
    BY <2>1 DEF Deepenings
  <2>3. /\ v.level = d.level + 1 /\ v.unprocessed = Children(i, lifted)
        /\ v.depth = [g \in GroupNames |-> IF g \in lifted THEN d.level ELSE d.depth[g]]
        /\ v \in Deepenings
    BY <1>2, <2>2 DEF DeepenRound, Deepenings
  <2>4. \A g : g \in lifted <=> Waits(d, g)
    OBVIOUS
  <2>5. body[x][d] = v
    BY <2>1
  <2>6. lifted \in SUBSET GroupNames
    BY <2>2
  <2> HIDE DEF body, v, lifted
  <2>7. \A p \in GroupNames : \A u \in GroupNames :
          p \in lifted /\ <<p, u>> \in E => u \in v.unprocessed
    BY <1>2, <2>3, <2>6
  <2>8. \A g \in GroupNames : v.depth[g] = (IF g \in lifted THEN d.level ELSE d.depth[g]) /\ d.depth[g] \in Nat
    BY <2>2, <2>3
  <2>9. Due(v)
    <3>1. ASSUME NEW u \in v.unprocessed
          PROVE  \E p \in GroupNames : <<p, u>> \in E /\ v.depth[p] + 1 = v.level
      <4>1. u \in Children(i, lifted)
        BY <2>3
      <4>2. PICK p \in lifted : <<p, u>> \in E
        BY <1>2, <2>6, <4>1
      <4> QED
        BY <2>3, <2>6, <2>8, <4>2
    <3> QED
      BY <3>1
  <2>10. Right(v)
    <3>1. ASSUME NEW g \in GroupNames PROVE Reached(E, v.depth, g) \/ Waits(v, g)
      <4>1. CASE g \in lifted
        <5>1. PICK p \in GroupNames : <<p, g>> \in E /\ d.depth[p] + 1 = d.level
          BY <2>1, <2>4, <4>1
        <5>2. CASE p \in lifted
          BY <2>2, <2>3, <2>7, <2>8, <4>1, <5>1, <5>2
        <5>3. CASE p \notin lifted
          BY <2>8, <4>1, <5>1, <5>3 DEF Reached
        <5> QED
          BY <5>2, <5>3
      <4>2. CASE g \notin lifted /\ d.depth[g] = 0
        BY <2>8, <4>2 DEF Reached
      <4>3. CASE g \notin lifted /\ d.depth[g] # 0
        <5>1. PICK p \in GroupNames : <<p, g>> \in E /\ d.depth[p] + 1 = d.depth[g]
          BY <2>1, <2>4, <4>3 DEF Reached
        <5>2. CASE p \in lifted
          <6>1. d.depth[p] < d.level /\ d.depth[p] \in Nat
            BY <2>4, <2>8, <5>2
          <6>2. v.depth[g] < v.level
            BY <2>2, <2>3, <2>8, <4>3, <5>1, <6>1
          <6> QED
            BY <2>7, <5>1, <5>2, <6>2
        <5>3. CASE p \notin lifted
          BY <2>8, <4>3, <5>1, <5>3 DEF Reached
        <5> QED
          BY <5>2, <5>3
      <4> QED
        BY <4>1, <4>2, <4>3
    <3> QED
      BY <3>1
  <2> HIDE DEF Right, Due
  <2>11. v \in T[s \cup {x}]
    BY <2>3, <2>9, <2>10
  <2> QED
    BY <2>5, <2>11
<1> HIDE DEF T, body, first
<1>5. ForEach(GroupNames, body, first) \in T[GroupNames]
  BY <1>3, <1>4, NamesFinite, ForEachInduction
<1> DEFINE d == ForEach(GroupNames, body, first)
<1>6. d \in Deepenings /\ Right(d) /\ Due(d)
  BY <1>5 DEF T
<1>7. d.depth = Deepen(i, c)
  BY DEF Deepen, body, first
<1> HIDE DEF d
<1>8. d.depth \in [GroupNames -> Nat] /\ \A e \in E : d.depth[e[1]] < d.depth[e[2]]
  BY <1>7, DeepenDeepens DEF E
<1>9. ASSUME NEW g \in GroupNames, Waits(d, g) PROVE FALSE
  <2>1. PICK p \in GroupNames : <<p, g>> \in E /\ d.depth[p] + 1 = d.level
    BY <1>6, <1>9
  <2>2. d.depth[p] < d.depth[g]
    BY <1>8, <2>1
  <2>3. d.depth[p] \in Nat /\ d.depth[g] \in Nat /\ d.depth[g] < d.level
    BY <1>8, <1>9
  <2> QED
    BY <2>1, <2>2, <2>3
<1> QED
  BY <1>6, <1>7, <1>9 DEF E
-----------------------------------------------------------------------------
(* What an operation on groups and hosts leaves.                           *)

Above(E, g) == {a \in GroupNames : g \in Below(E, a)}

(* The fields that an operation on the members of groups leaves alone.     *)
Keeps(i, j) ==
  j.groups = i.groups /\ j.hosts = i.hosts /\ j.children = i.children /\ j.depth = i.depth

(* The hosts of groups are those of the edges and the members.             *)
LEMMA SameHosts ==
  ASSUME NEW i, NEW j, i.children = j.children, i.members = j.members
  PROVE  \A g \in GroupNames : HostsOf(j, g) = HostsOf(i, g)
BY DEF HostsOf

(* Depths are measured along the edges.                                    *)
LEMMA SameMeasure ==
  ASSUME NEW i, NEW j, j.children = i.children, j.depth = i.depth
  PROVE  (Deeper(j) <=> Deeper(i)) /\ (Measured(j) <=> Measured(i))
BY DEF Deeper, Measured

LEMMA MemberAdded ==
  ASSUME NEW i \in Inventories, NEW j, NEW g \in GroupNames, NEW h \in HostNames,
         j.children = i.children, j.members = [i.members EXCEPT ![g] = @ \cup {h}],
         NEW d \in GroupNames
  PROVE  HostsOf(j, d) = HostsOf(i, d) \cup (IF d \in Above(i.children, g) THEN {h} ELSE {})
<1>1. Below(i.children, d) \in SUBSET GroupNames /\ i.members \in [GroupNames -> SUBSET HostNames]
  BY Fields, BelowBasics
<1>2. \A x \in GroupNames : j.members[x] = i.members[x] \cup (IF x = g THEN {h} ELSE {})
  BY <1>1
<1> QED
  BY <1>1, <1>2 DEF HostsOf, Above

LEMMA GroupAndAncestors ==
  ASSUME NEW i \in Inventories, NoLoops(i.children), NEW g \in GroupNames
  PROVE  {g} \cup GetAncestors(i, g) = Above(i.children, g)
<1>1. g \in Below(i.children, g)
  BY Fields, BelowBasics
<1> QED
  BY <1>1, AncestorsAreAbove DEF Above

LEMMA CacheCleared ==
  ASSUME NEW i \in Inventories, NoLoops(i.children), NEW g \in GroupNames
  PROVE  ClearHostsCache(i, g) =
           [i EXCEPT !.seen = [d \in GroupNames |->
              IF d \in Above(i.children, g) THEN Unknown ELSE i.seen[d]]]
BY GroupAndAncestors DEF ClearHostsCache

LEMMA GroupJoined ==
  ASSUME NEW i \in Inventories, NoLoops(i.children), NEW g \in GroupNames, NEW h \in HostNames
  PROVE  JoinGroup(i, h, g) =
           [i EXCEPT !.groupsOf = [i.groupsOf EXCEPT ![h] = @ \cup Above(i.children, g)]]
<1>1. \A s : s \cup GetAncestors(i, g) \cup {g} = s \cup Above(i.children, g)
  BY GroupAndAncestors
<1> QED
  BY <1>1 DEF JoinGroup

(* JoinGroup alone, of a host that is in the group already.                *)
LEMMA JoinGroupSound ==
  ASSUME NEW i, Sound(i), NEW g \in GroupNames, NEW h \in HostNames
  PROVE  /\ Sound(JoinGroup(i, h, g)) /\ Keeps(i, JoinGroup(i, h, g))
         /\ JoinGroup(i, h, g).dict = i.dict /\ JoinGroup(i, h, g).members = i.members
<1> DEFINE j == JoinGroup(i, h, g)
<1>1. i \in Inventories /\ NoLoops(i.children)
  BY DeeperNoLoops DEF Sound
<1>2. Above(i.children, g) \in SUBSET GroupNames
  BY DEF Above
<1>3. j = [i EXCEPT !.groupsOf = [i.groupsOf EXCEPT ![h] = @ \cup Above(i.children, g)]]
  BY <1>1, GroupJoined
<1> HIDE DEF j
<1>4. j \in Inventories
  BY <1>1, <1>2, <1>3 DEF Inventories
<1>5. Keeps(i, j) /\ j.members = i.members /\ j.seen = i.seen /\ j.dict = i.dict
  BY <1>1, <1>3 DEF Inventories, Keeps
<1>6. \A d \in GroupNames : HostsOf(j, d) = HostsOf(i, d)
  BY <1>5, SameHosts DEF Keeps
<1> QED
  BY <1>4, <1>5, <1>6 DEF Sound, Linked, Deeper, Measured, SeenOK, Keeps, j

LEMMA AddToGroupSound ==
  ASSUME NEW i, Sound(i), NEW g \in i.groups, NEW h \in i.hosts
  PROVE  /\ Sound(AddToGroup(i, g, h)) /\ Keeps(i, AddToGroup(i, g, h))
         /\ AddToGroup(i, g, h).members = [i.members EXCEPT ![g] = @ \cup {h}]
         /\ Told(i) => Told(AddToGroup(i, g, h))
<1> DEFINE j == AddToGroup(i, g, h)
           a == [i EXCEPT !.members = [i.members EXCEPT ![g] = @ \cup {h}]]
           b == JoinGroup(a, h, g)
           U == Above(i.children, g)
<1>1. /\ i \in Inventories /\ NoLoops(i.children) /\ g \in GroupNames /\ h \in HostNames
      /\ i.members \in [GroupNames -> SUBSET HostNames]
  BY DeeperNoLoops, Fields DEF Sound
<1>2. CASE h \in i.members[g]
  <2>1. j = i
    BY <1>2 DEF AddToGroup
  <2>2. [i.members EXCEPT ![g] = @ \cup {h}] = i.members
    BY <1>1, <1>2
  <2> HIDE DEF j
  <2> QED
    BY <2>1, <2>2 DEF Keeps, j
<1>3. CASE h \notin i.members[g]
  <2>1. j = ClearHostsCache(b, g)
    BY <1>3 DEF AddToGroup
  <2>2. U \in SUBSET GroupNames
    BY DEF Above
  <2>3. a \in Inventories /\ a.children = i.children /\ a.groupsOf = i.groupsOf
    BY <1>1 DEF Inventories
  <2> HIDE DEF a
  <2>4. b = [a EXCEPT !.groupsOf = [a.groupsOf EXCEPT ![h] = @ \cup U]]
    BY <1>1, <2>3, GroupJoined
  <2> HIDE DEF b, U
  <2>5. b \in Inventories /\ b.children = i.children /\ b.seen = a.seen
    BY <2>2, <2>3, <2>4 DEF Inventories
  <2>6. j = [b EXCEPT !.seen = [d \in GroupNames |-> IF d \in U THEN Unknown ELSE b.seen[d]]]
    BY <1>1, <2>1, <2>5, CacheCleared DEF U
  <2> HIDE DEF j
  <2>7. j \in Inventories
    BY <2>5, <2>6 DEF Inventories
  <2>8. /\ Keeps(i, j)
        /\ j.members = [i.members EXCEPT ![g] = @ \cup {h}]
        /\ j.groupsOf = [i.groupsOf EXCEPT ![h] = @ \cup U]
        /\ j.seen = [d \in GroupNames |-> IF d \in U THEN Unknown ELSE i.seen[d]]
    <3>1. /\ a.groups = i.groups /\ a.hosts = i.hosts /\ a.depth = i.depth /\ a.seen = i.seen
          /\ a.members = [i.members EXCEPT ![g] = @ \cup {h}]
      BY <1>1 DEF Inventories, a
    <3>2. /\ b.groups = a.groups /\ b.hosts = a.hosts /\ b.depth = a.depth
          /\ b.members = a.members /\ b.groupsOf = [a.groupsOf EXCEPT ![h] = @ \cup U]
      BY <2>3, <2>4 DEF Inventories
    <3>3. /\ j.groups = b.groups /\ j.hosts = b.hosts /\ j.depth = b.depth /\ j.children = b.children
          /\ j.members = b.members /\ j.groupsOf = b.groupsOf
          /\ j.seen = [d \in GroupNames |-> IF d \in U THEN Unknown ELSE b.seen[d]]
      BY <2>5, <2>6 DEF Inventories
    <3> QED
      BY <2>3, <2>5, <3>1, <3>2, <3>3 DEF Keeps
  <2>9. \A d \in GroupNames : HostsOf(j, d) = HostsOf(i, d) \cup (IF d \in U THEN {h} ELSE {})
    BY <1>1, <2>8, MemberAdded DEF Keeps, U
  <2>10. SeenOK(j)
    <3>1. \A d \in GroupNames : d \notin U => HostsOf(j, d) = HostsOf(i, d)
      BY <2>9
    <3> QED
      BY <2>8, <3>1 DEF Sound, SeenOK
  <2>11. Linked(j) /\ Deeper(j) /\ Measured(j)
    <3>1. \A d \in GroupNames : j.members[d] = IF d = g THEN i.members[d] \cup {h} ELSE i.members[d]
      BY <1>1, <2>8
    <3> QED
      BY <1>1, <2>8, <3>1, SameMeasure DEF Sound, Linked, Keeps
  <2>12. ASSUME Told(i) PROVE Told(j)
    <3>1. ASSUME NEW x \in HostNames
          PROVE  j.groupsOf[x] = {d \in GroupNames : x \in HostsOf(j, d)}
      <4>1. i.groupsOf[x] = {d \in GroupNames : x \in HostsOf(i, d)}
        BY <2>12 DEF Told
      <4>2. j.groupsOf[x] = IF x = h THEN i.groupsOf[x] \cup U ELSE i.groupsOf[x]
        <5>1. i.groupsOf \in [HostNames -> SUBSET GroupNames]
          BY <1>1, Fields
        <5> QED
          BY <2>8, <5>1
      <4>4. CASE x = h
        <5>1. \A d \in GroupNames : x \in HostsOf(j, d) <=> x \in HostsOf(i, d) \/ d \in U
          BY <2>9, <4>4
        <5> QED
          BY <2>2, <4>1, <4>2, <4>4, <5>1
      <4>5. CASE x # h
        <5>1. \A d \in GroupNames : x \in HostsOf(j, d) <=> x \in HostsOf(i, d)
          BY <2>9, <4>5
        <5> QED
          BY <4>1, <4>2, <4>5, <5>1
      <4> QED
        BY <4>4, <4>5
    <3> QED
      BY <3>1 DEF Told
  <2> QED
    BY <2>7, <2>8, <2>10, <2>11, <2>12 DEF Sound, j
<1> QED
  BY <1>2, <1>3
(* Under all and nothing else, over nothing.                               *)
LEMMA UngroupedAlone ==
  ASSUME NEW i, Sound(i), Apart(i)
  PROVE  /\ Below(i.children, "ungrouped") = {"ungrouped"}
         /\ Above(i.children, "ungrouped") \subseteq {"all", "ungrouped"}
         /\ "ungrouped" \in Above(i.children, "ungrouped")
<1> DEFINE E == i.children
           u == "ungrouped"
<1>1. /\ i \in Inventories /\ E \in AllEdges
      /\ u \in GroupNames /\ "all" \in GroupNames
      /\ \A e \in E : e = <<e[1], e[2]>>
  BY Fields, NamesFinite DEF Sound
<1>2. u \in Below(E, u)
  BY <1>1, BelowBasics
<1>3. ASSUME NEW d \in Below(E, u), d # u PROVE FALSE
  <2>1. PICK c \in GroupNames : <<u, c>> \in E
    BY <1>1, <1>3, BelowFirstStep
  <2> QED
    BY <2>1 DEF Apart
<1>4. ASSUME NEW a \in GroupNames, u \in Below(E, a), a # u PROVE a = "all"
  <2>1. PICK p \in Below(E, a) : <<p, u>> \in E
    BY <1>1, <1>4, BelowLastStep
  <2>2. p = "all"
    BY <2>1 DEF Apart
  <2>3. SUFFICES ASSUME a # "all" PROVE FALSE
    OBVIOUS
  <2>4. PICK q \in Below(E, a) : <<q, "all">> \in E
    BY <1>1, <2>1, <2>2, <2>3, BelowLastStep
  <2> QED
    BY <2>4 DEF Sound, Linked
<1> QED
  BY <1>1, <1>2, <1>3, <1>4 DEF Above

(* A host that leaves a group.                                             *)
LEMMA MemberRemoved ==
  ASSUME NEW i \in Inventories, NEW j, NEW g \in GroupNames, NEW h \in HostNames,
         j.children = i.children, j.members = [i.members EXCEPT ![g] = @ \ {h}],
         NEW d \in GroupNames
  PROVE  /\ d \notin Above(i.children, g) => HostsOf(j, d) = HostsOf(i, d)
         /\ \A x \in HostNames : x # h => (x \in HostsOf(j, d) <=> x \in HostsOf(i, d))
<1>1. Below(i.children, d) \in SUBSET GroupNames /\ i.members \in [GroupNames -> SUBSET HostNames]
  BY Fields, BelowBasics
<1>2. \A y \in GroupNames : j.members[y] = IF y = g THEN i.members[y] \ {h} ELSE i.members[y]
  BY <1>1
<1>3. d \notin Above(i.children, g) => HostsOf(j, d) = HostsOf(i, d)
  BY <1>1, <1>2 DEF HostsOf, Above
<1>4. ASSUME NEW x \in HostNames, x # h PROVE x \in HostsOf(j, d) <=> x \in HostsOf(i, d)
  <2>1. \A y \in GroupNames : x \in j.members[y] <=> x \in i.members[y]
    BY <1>2, <1>4
  <2> QED
    BY <1>1, <2>1 DEF HostsOf
<1> QED
  BY <1>3, <1>4

LeavesUngrouped(i, j, g, h) ==
  g = "ungrouped" /\ Apart(i) /\ h \in i.members[g] => j.groupsOf[h] = i.groupsOf[h] \ {g}

LEMMA RemoveFromGroupSound ==
  ASSUME NEW i, Sound(i), NEW g \in GroupNames, NEW h \in HostNames
  PROVE  /\ Sound(RemoveFromGroup(i, g, h)) /\ Keeps(i, RemoveFromGroup(i, g, h))
         /\ RemoveFromGroup(i, g, h).members = [i.members EXCEPT ![g] = @ \ {h}]
         /\ \A x \in HostNames \ {h} : RemoveFromGroup(i, g, h).groupsOf[x] = i.groupsOf[x]
         /\ LeavesUngrouped(i, RemoveFromGroup(i, g, h), g, h)
<1> DEFINE j == RemoveFromGroup(i, g, h)
           a == [i EXCEPT !.members = [i.members EXCEPT ![g] = @ \ {h}]]
           b == LeaveGroup(a, h, g)
           U == Above(i.children, g)
<1>1. /\ i \in Inventories /\ NoLoops(i.children)
      /\ i.members \in [GroupNames -> SUBSET HostNames]
  BY DeeperNoLoops, Fields DEF Sound
<1>2. CASE h \notin i.members[g]
  <2>1. j = i
    BY <1>2 DEF RemoveFromGroup
  <2>2. [i.members EXCEPT ![g] = @ \ {h}] = i.members
    BY <1>1, <1>2
  <2> HIDE DEF j
  <2> QED
    BY <1>2, <2>1, <2>2 DEF Keeps, LeavesUngrouped, j
<1>3. CASE h \in i.members[g]
  <2>1. j = ClearHostsCache(b, g)
    BY <1>3 DEF RemoveFromGroup
  <2>2. U \in SUBSET GroupNames
    BY DEF Above
  <2>3. a \in Inventories /\ a.children = i.children /\ a.groupsOf = i.groupsOf
    BY <1>1 DEF Inventories
  <2>4. /\ a.groups = i.groups /\ a.hosts = i.hosts /\ a.depth = i.depth /\ a.seen = i.seen
        /\ a.members = [i.members EXCEPT ![g] = @ \ {h}]
    BY <1>1 DEF Inventories
  <2> HIDE DEF a, U
  <2> DEFINE gone   == {g} \cup GetAncestors(a, g)
             others == a.groupsOf[h] \ gone
             kept   == {x \in gone \ {g} : \/ x = "all"
                                            \/ \E o \in others : x \in GetAncestors(a, o)}
             new    == IF g \notin a.groupsOf[h] THEN a.groupsOf
                       ELSE [a.groupsOf EXCEPT ![h] = others \cup (@ \cap kept)]
  <2>5. b = [a EXCEPT !.groupsOf = new]
    <3>1. a = [a EXCEPT !.groupsOf = a.groupsOf]
      BY <2>3 DEF Inventories
    <3> QED
      BY <3>1 DEF LeaveGroup
  <2>6. gone = U
    BY <1>1, <2>3, GroupAndAncestors DEF U
  <2>7. a.groupsOf \in [HostNames -> SUBSET GroupNames]
    BY <2>3, Fields
  <2>8. new \in [HostNames -> SUBSET GroupNames] /\ \A x \in HostNames \ {h} : new[x] = a.groupsOf[x]
    <3> HIDE DEF gone, kept
    <3>1. others \cup (a.groupsOf[h] \cap kept) \subseteq GroupNames
      BY <2>7
    <3> QED
      BY <2>7, <3>1
  <2>9. ASSUME g = "ungrouped", Apart(i) PROVE new[h] = i.groupsOf[h] \ {g}
    <3>1. U \subseteq {"all", "ungrouped"} /\ g \in U
      BY <2>9, UngroupedAlone DEF U
    <3>2. kept = U \ {g}
      BY <2>6, <2>9, <3>1
    <3> HIDE DEF kept, gone
    <3>3. others \cup (a.groupsOf[h] \cap kept) = a.groupsOf[h] \ {g}
      BY <2>6, <3>1, <3>2
    <3> QED
      BY <2>3, <2>7, <3>3
  <2> HIDE DEF new, b
  <2>10. /\ b \in Inventories /\ b.children = i.children /\ b.seen = i.seen /\ b.groupsOf = new
         /\ b.groups = i.groups /\ b.hosts = i.hosts /\ b.depth = i.depth
         /\ b.members = [i.members EXCEPT ![g] = @ \ {h}]
    BY <2>3, <2>4, <2>5, <2>8 DEF Inventories
  <2>11. j = [b EXCEPT !.seen = [d \in GroupNames |-> IF d \in U THEN Unknown ELSE b.seen[d]]]
    BY <1>1, <2>1, <2>10, CacheCleared DEF U
  <2> HIDE DEF j
  <2>12. /\ j \in Inventories /\ Keeps(i, j) /\ j.groupsOf = new
         /\ j.members = [i.members EXCEPT ![g] = @ \ {h}]
         /\ j.seen = [d \in GroupNames |-> IF d \in U THEN Unknown ELSE i.seen[d]]
    BY <2>10, <2>11 DEF Inventories, Keeps
  <2>13. SeenOK(j)
    <3>1. \A d \in GroupNames : d \notin U => HostsOf(j, d) = HostsOf(i, d)
      BY <1>1, <2>12, MemberRemoved DEF Keeps, U
    <3> QED
      BY <2>12, <3>1 DEF Sound, SeenOK
  <2>14. Linked(j) /\ Deeper(j) /\ Measured(j)
    <3>1. \A d \in GroupNames : j.members[d] \subseteq i.members[d]
      BY <1>1, <2>12
    <3> QED
      BY <1>1, <2>12, <3>1, SameMeasure DEF Sound, Linked, Keeps
  <2> QED
    BY <1>3, <2>3, <2>8, <2>9, <2>12, <2>13, <2>14 DEF Sound, LeavesUngrouped, j
<1> QED
  BY <1>2, <1>3
-----------------------------------------------------------------------------
(* What an inventory is made of.                                           *)

Nothing == [groups |-> {}, hosts |-> {}, edges |-> {}, members |-> {}]

(* j is i with what r asks for, and perhaps with edges that start at all   *)
(* and other members of all and ungrouped.                                 *)
Grows(i, j, r) ==
  /\ j.groups = i.groups \cup r.groups /\ j.hosts = i.hosts \cup r.hosts
  /\ i.children \subseteq j.children /\ r.edges \subseteq j.children
  /\ \A e \in j.children : e \in i.children \/ e \in r.edges \/ e[1] = "all"
  /\ \A g \in UserGroups : i.members[g] \subseteq j.members[g]
  /\ \A g \in UserGroups : \A h \in j.members[g] : h \in i.members[g] \/ <<g, h>> \in r.members
  /\ \A m \in r.members : m[1] \in UserGroups => m[2] \in UserHosts(j, m[1])

LEMMA UserHostsGrow ==
  ASSUME NEW i \in Inventories, NEW j \in Inventories, i.children \subseteq j.children,
         \A g \in UserGroups : i.members[g] \subseteq j.members[g],
         NEW g \in UserGroups
  PROVE  UserHosts(i, g) \subseteq UserHosts(j, g)
<1>1. i.children \in AllEdges /\ j.children \in AllEdges /\ g \in GroupNames
  BY Fields DEF GroupNames
<1>2. Below(i.children, g) \subseteq Below(j.children, g)
  BY <1>1, BelowGrows
<1> QED
  BY <1>2 DEF UserHosts

LEMMA MembersAreBelow ==
  ASSUME NEW i \in Inventories, NEW g \in UserGroups
  PROVE  g \in GroupNames /\ i.members[g] \subseteq UserHosts(i, g)
<1>1. g \in GroupNames /\ i.children \in AllEdges
  BY Fields DEF GroupNames
<1>2. g \in Below(i.children, g)
  BY <1>1, BelowBasics
<1> QED
  BY <1>1, <1>2 DEF UserHosts

(* What follows may keep what was asked for ...                            *)
LEMMA GrowsOn ==
  ASSUME NEW i, NEW j \in Inventories, NEW k \in Inventories, NEW r,
         Grows(i, j, r), Grows(j, k, Nothing)
  PROVE  Grows(i, k, r)
<1>1. /\ j.children \subseteq k.children
      /\ \A g \in UserGroups : j.members[g] \subseteq k.members[g]
      /\ \A g \in UserGroups : \A h \in k.members[g] : h \in j.members[g]
      /\ \A e \in k.children : e \in j.children \/ e[1] = "all"
      /\ k.groups = j.groups /\ k.hosts = j.hosts
  BY DEF Grows, Nothing
<1>2. \A g \in UserGroups : UserHosts(j, g) \subseteq UserHosts(k, g)
  BY <1>1, UserHostsGrow
<1> QED
  BY <1>1, <1>2 DEF Grows

(* ... or add to it.                                                       *)
LEMMA MadeGrows ==
  ASSUME NEW i \in Inventories, NEW j \in Inventories, NEW rs, NEW r,
         MadeOf(i, rs), Grows(i, j, r)
  PROVE  MadeOf(j, rs \cup {r})
<1>1. /\ i.children \subseteq j.children /\ r.edges \subseteq j.children
      /\ \A g \in UserGroups : i.members[g] \subseteq j.members[g]
  BY DEF Grows
<1>2. \A g \in UserGroups : UserHosts(i, g) \subseteq UserHosts(j, g)
  BY <1>1, UserHostsGrow
<1>3. \A q \in rs \cup {r} :
        /\ q.edges \subseteq j.children
        /\ \A m \in q.members : m[1] \in UserGroups => m[2] \in UserHosts(j, m[1])
  BY <1>1, <1>2 DEF MadeOf, Grows
<1>4. \A e \in j.children : e[1] = "all" \/ \E q \in rs \cup {r} : e \in q.edges
  BY DEF MadeOf, Grows
<1>5. \A g \in UserGroups : \A h \in j.members[g] : \E q \in rs \cup {r} : <<g, h>> \in q.members
  BY DEF MadeOf, Grows
<1>6. /\ j.groups = UNION {q.groups : q \in rs \cup {r}}
      /\ j.hosts = UNION {q.hosts : q \in rs \cup {r}}
  BY DEF MadeOf, Grows
<1> QED
  BY <1>3, <1>4, <1>5, <1>6 DEF MadeOf

LEMMA MadeKept ==
  ASSUME NEW i \in Inventories, NEW j \in Inventories, NEW rs,
         MadeOf(i, rs), Grows(i, j, Nothing)
  PROVE  MadeOf(j, rs)
<1>1. MadeOf(j, rs \cup {Nothing})
  BY MadeGrows
<1>2. /\ UNION {q.groups : q \in rs \cup {Nothing}} = UNION {q.groups : q \in rs}
      /\ UNION {q.hosts : q \in rs \cup {Nothing}} = UNION {q.hosts : q \in rs}
  BY DEF Nothing
<1>3. \A x : (\E q \in rs \cup {Nothing} : x \in q.edges) => \E q \in rs : x \in q.edges
  BY DEF Nothing
<1>4. \A x : (\E q \in rs \cup {Nothing} : x \in q.members) => \E q \in rs : x \in q.members
  BY DEF Nothing
<1> QED
  BY <1>1, <1>2, <1>3, <1>4 DEF MadeOf
-----------------------------------------------------------------------------
(* reconcile_inventory.                                                    *)

SettledHost(i, h) ==
  /\ h \in HostsOf(i, "all")
  /\ h \in HostsOf(i, "ungrouped") <=> \A g \in UserGroups : h \notin HostsOf(i, g)

(* Hosts know their groups, all and ungrouped are in their places.         *)
InPlace(i) == Told(i) /\ Apart(i) /\ Rooted(i) /\ Based(i)

(* Whoever is in a group is in all.                                        *)
LEMMA InAll ==
  ASSUME NEW i, Sound(i), Rooted(i), NEW g \in GroupNames
  PROVE  HostsOf(i, g) \subseteq HostsOf(i, "all")
<1>1. i.children \in AllEdges /\ "all" \in GroupNames /\ i.groups \subseteq GroupNames
  BY Fields, NamesFinite DEF Sound
<1>2. CASE g \in i.groups
  <2>1. Below(i.children, g) \subseteq Below(i.children, "all")
    BY <1>1, <1>2, BelowTransitive DEF Rooted
  <2> QED
    BY <2>1 DEF HostsOf
<1>3. CASE g \notin i.groups
  <2>1. ASSUME NEW d \in Below(i.children, g) PROVE d = g
    <3>1. SUFFICES ASSUME d # g PROVE FALSE
      OBVIOUS
    <3>2. PICK c \in GroupNames : <<g, c>> \in i.children
      BY <1>1, <3>1, BelowFirstStep
    <3> QED
      BY <1>3, <3>2 DEF Sound, Linked
  <2>2. i.members[g] = {}
    BY <1>3 DEF Sound, Linked
  <2> QED
    BY <2>1, <2>2 DEF HostsOf
<1> QED
  BY <1>2, <1>3

LEMMA SettleSound ==
  ASSUME NEW i, Sound(i), Based(i), NEW h \in i.hosts
  PROVE  /\ Sound(Settle(i, h)) /\ Keeps(i, Settle(i, h))
         /\ \A g \in UserGroups : Settle(i, h).members[g] = i.members[g]
         /\ InPlace(i) => /\ InPlace(Settle(i, h)) /\ SettledHost(Settle(i, h), h)
                          /\ \A x \in HostNames : \A d \in GroupNames :
                               x # h => (x \in HostsOf(Settle(i, h), d) <=> x \in HostsOf(i, d))
<1> DEFINE j == Settle(i, h)
           u == "ungrouped"
           others == i.groupsOf[h] \ {"all", u}
<1>1. /\ i \in Inventories /\ h \in HostNames /\ i.children \in AllEdges
      /\ u \in GroupNames /\ "all" \in GroupNames /\ u \in i.groups /\ u # "all"
      /\ i.groupsOf \in [HostNames -> SUBSET GroupNames]
      /\ \A g \in UserGroups : g \in GroupNames /\ g # u /\ g # "all"
      /\ \A g \in GroupNames \ {"all", u} : g \in UserGroups
  <2>1. i \in Inventories
    BY DEF Sound
  <2>2. /\ h \in HostNames /\ i.children \in AllEdges
        /\ i.groupsOf \in [HostNames -> SUBSET GroupNames]
    BY <2>1, Fields
  <2>3. \A g \in UserGroups : g \in GroupNames /\ g # u /\ g # "all"
    BY NamesAssumption DEF GroupNames
  <2>4. \A g \in GroupNames \ {"all", u} : g \in UserGroups
    BY DEF GroupNames
  <2> QED
    BY <2>1, <2>2, <2>3, <2>4, NamesFinite DEF Based
<1>2. ASSUME Told(i) PROVE \A d \in GroupNames : d \in i.groupsOf[h] <=> h \in HostsOf(i, d)
  BY <1>1, <1>2 DEF Told
<1>3. u \in Below(i.children, "all")
  <2>1. "all" \in Below(i.children, "all") /\ <<"all", u>> \in i.children
    BY <1>1, BelowBasics DEF Based
  <2> QED
    BY <1>1, <2>1, BelowBasics DEF ClosedUnder
<1>4. CASE u \in i.groupsOf[h] /\ others # {}
  <2>1. j = RemoveFromGroup(i, u, h)
    BY <1>4 DEF Settle
  <2> HIDE DEF j, u, others
  <2>2. /\ Sound(j) /\ Keeps(i, j) /\ j.members = [i.members EXCEPT ![u] = @ \ {h}]
        /\ \A x \in HostNames \ {h} : j.groupsOf[x] = i.groupsOf[x]
    BY <1>1, <2>1, RemoveFromGroupSound
  <2>members. \A g \in UserGroups : j.members[g] = i.members[g]
    BY <1>1, <2>2, Fields
  <2>3. ASSUME InPlace(i)
        PROVE  /\ Told(j) /\ SettledHost(j, h)
               /\ \A x \in HostNames : \A d \in GroupNames :
                    x # h => (x \in HostsOf(j, d) <=> x \in HostsOf(i, d))
    <3>1. /\ Below(i.children, u) = {u} /\ Above(i.children, u) \subseteq {"all", u}
          /\ u \in Above(i.children, u)
      BY <2>3, UngroupedAlone DEF InPlace, u
    <3>2. h \in HostsOf(i, u) /\ h \in i.members[u]
      BY <1>1, <1>2, <1>4, <2>3, <3>1 DEF InPlace, HostsOf
    <3>3. j.groupsOf[h] = i.groupsOf[h] \ {u}
      <4>1. Apart(i) /\ u = "ungrouped"
        BY <2>3 DEF InPlace, u
      <4>2. u \in GroupNames /\ h \in HostNames
        BY <1>1
      <4>3. LeavesUngrouped(i, j, u, h)
        BY <2>1, <4>2, RemoveFromGroupSound
      <4> QED
        BY <3>2, <4>1, <4>3 DEF LeavesUngrouped
    <3>4. /\ \A d \in GroupNames : d \notin {"all", u} => HostsOf(j, d) = HostsOf(i, d)
          /\ \A x \in HostNames : \A d \in GroupNames :
               x # h => (x \in HostsOf(j, d) <=> x \in HostsOf(i, d))
      BY <1>1, <2>2, <3>1, MemberRemoved DEF Keeps
    <3>5. h \notin HostsOf(j, u)
      <4>1. i.members \in [GroupNames -> SUBSET HostNames]
        BY <1>1, Fields
      <4>2. Below(j.children, u) = {u} /\ h \notin j.members[u]
        BY <1>1, <2>2, <3>1, <4>1 DEF Keeps
      <4> QED
        BY <4>2 DEF HostsOf
    <3>6. PICK o \in UserGroups : h \in HostsOf(i, o)
      BY <1>1, <1>2, <1>4, <2>3 DEF InPlace, others, u
    <3>7. h \in HostsOf(i, "all")
      BY <1>1, <2>3, <3>6, InAll DEF InPlace
    <3>8. h \in HostsOf(j, o)
      BY <1>1, <3>4, <3>6
    <3>9. h \in HostsOf(j, "all")
      <4>1. Rooted(j)
        BY <2>2, <2>3 DEF InPlace, Rooted, Keeps
      <4> QED
        BY <1>1, <2>2, <3>8, <4>1, InAll
    <3>10. ASSUME NEW x \in HostNames
           PROVE  j.groupsOf[x] = {d \in GroupNames : x \in HostsOf(j, d)}
      <4>1. CASE x # h
        <5>1. i.groupsOf[x] = {d \in GroupNames : x \in HostsOf(i, d)}
          BY <2>3 DEF InPlace, Told
        <5> QED
          BY <2>2, <3>4, <4>1, <5>1
      <4>2. CASE x = h
        <5>1. j.groupsOf[h] \subseteq GroupNames
          BY <1>1, <3>3
        <5>2. \A d \in GroupNames : d \in j.groupsOf[h] <=> h \in HostsOf(j, d)
          BY <1>1, <1>2, <2>3, <3>3, <3>4, <3>5, <3>7, <3>9 DEF InPlace
        <5> QED
          BY <4>2, <5>1, <5>2
      <4> QED
        BY <4>1, <4>2
    <3> QED
      BY <3>4, <3>5, <3>8, <3>9, <3>10 DEF Told, SettledHost, u
  <2> QED
    BY <2>2, <2>members, <2>3 DEF InPlace, Apart, Rooted, Based, Keeps, j
<1>5. CASE u \notin i.groupsOf[h] /\ others = {}
  <2>1. j = AddToGroup(i, u, h)
    BY <1>5 DEF Settle
  <2> HIDE DEF j, u, others
  <2>2. /\ Sound(j) /\ Keeps(i, j) /\ j.members = [i.members EXCEPT ![u] = @ \cup {h}]
        /\ Told(i) => Told(j)
    BY <1>1, <2>1, AddToGroupSound
  <2>members. \A g \in UserGroups : j.members[g] = i.members[g]
    BY <1>1, <2>2, Fields
  <2>3. \A d \in GroupNames :
          HostsOf(j, d) = HostsOf(i, d) \cup (IF d \in Above(i.children, u) THEN {h} ELSE {})
    BY <1>1, <2>2, MemberAdded DEF Keeps
  <2>4. u \in Above(i.children, u) /\ "all" \in Above(i.children, u)
    BY <1>1, <1>3, BelowBasics DEF Above
  <2>5. ASSUME InPlace(i) PROVE SettledHost(j, h)
    <3>1. Above(i.children, u) \subseteq {"all", u}
      BY <2>5, UngroupedAlone DEF InPlace, u
    <3>2. \A g \in UserGroups : h \notin HostsOf(i, g)
      BY <1>1, <1>2, <1>5, <2>5 DEF InPlace, others
    <3>3. \A g \in UserGroups : h \notin HostsOf(j, g)
      BY <1>1, <2>3, <3>1, <3>2
    <3>4. h \in HostsOf(j, u) /\ h \in HostsOf(j, "all")
      BY <1>1, <2>3, <2>4
    <3> QED
      BY <3>3, <3>4 DEF SettledHost, u
  <2>6. \A x \in HostNames : \A d \in GroupNames :
          x # h => (x \in HostsOf(j, d) <=> x \in HostsOf(i, d))
    BY <2>3
  <2> QED
    BY <2>2, <2>members, <2>5, <2>6 DEF InPlace, Apart, Rooted, Based, Keeps, j
<1>6. CASE u \in i.groupsOf[h] <=> others = {}
  <2>1. j = i
    BY <1>6 DEF Settle
  <2> HIDE DEF j, u, others
  <2>2. Keeps(i, j)
    BY <2>1 DEF Keeps
  <2>3. ASSUME InPlace(i) PROVE SettledHost(i, h)
    <3>1. \A d \in GroupNames : d \in i.groupsOf[h] <=> h \in HostsOf(i, d)
      BY <1>2, <2>3 DEF InPlace
    <3>2. (\A g \in UserGroups : h \notin HostsOf(i, g)) <=> others = {}
      BY <1>1, <3>1 DEF others
    <3>3. \E g \in GroupNames : h \in HostsOf(i, g)
      BY <1>1, <1>6, <3>1, <3>2
    <3>4. h \in HostsOf(i, "all")
      BY <2>3, <3>3, InAll DEF InPlace
    <3> QED
      BY <1>1, <1>6, <3>1, <3>2, <3>4 DEF SettledHost, u
  <2> QED
    BY <2>1, <2>2, <2>3 DEF j
<1> QED
  BY <1>4, <1>5, <1>6
-----------------------------------------------------------------------------
(* Groups, hosts and children that are added.                              *)

LEMMA DictCleared ==
  ASSUME NEW i, Sound(i)
  PROVE  LET j == [i EXCEPT !.dict = Unknown]
         IN /\ Sound(j) /\ Keeps(i, j) /\ (Told(j) <=> Told(i))
            /\ j.members = i.members /\ j.dict = Unknown
<1> DEFINE j == [i EXCEPT !.dict = Unknown]
<1>1. j \in Inventories
  BY DEF Sound, Inventories
<1>2. /\ Keeps(i, j) /\ j.members = i.members /\ j.groupsOf = i.groupsOf /\ j.seen = i.seen
      /\ j.dict = Unknown
  BY DEF Sound, Inventories, Keeps
<1> HIDE DEF j
<1>3. \A d \in GroupNames : HostsOf(j, d) = HostsOf(i, d)
  BY <1>2, SameHosts DEF Keeps
<1>4. Sound(j) /\ (Told(j) <=> Told(i))
  BY <1>1, <1>2, <1>3 DEF Sound, Linked, Deeper, Measured, SeenOK, Keeps, Told
<1> QED
  BY <1>2, <1>4 DEF j

LEMMA AddGroupSound ==
  ASSUME NEW i, Sound(i), NEW g \in GroupNames
  PROVE  LET j == AddGroup(i, g)
         IN /\ Sound(j) /\ (Told(j) <=> Told(i))
            /\ j.groups = i.groups \cup {g}
            /\ j.hosts = i.hosts /\ j.children = i.children /\ j.members = i.members
<1> DEFINE j == AddGroup(i, g)
<1>1. CASE g \in i.groups
  BY <1>1 DEF AddGroup
<1>2. CASE g \notin i.groups
  <2>1. j = [i EXCEPT !.groups = @ \cup {g}, !.dict = Unknown]
    BY <1>2 DEF AddGroup
  <2> HIDE DEF j
  <2>2. j \in Inventories
    BY <2>1 DEF Sound, Inventories
  <2>3. /\ j.groups = i.groups \cup {g} /\ j.hosts = i.hosts /\ j.children = i.children
        /\ j.members = i.members /\ j.depth = i.depth /\ j.groupsOf = i.groupsOf /\ j.seen = i.seen
    BY <2>1 DEF Sound, Inventories
  <2>4. \A d \in GroupNames : HostsOf(j, d) = HostsOf(i, d)
    BY <2>3, SameHosts
  <2>5. Linked(j) /\ Deeper(j) /\ Measured(j) /\ SeenOK(j) /\ (Told(j) <=> Told(i))
    BY <2>3, <2>4 DEF Sound, Linked, Deeper, Measured, SeenOK, Told
  <2> QED
    BY <2>2, <2>3, <2>5 DEF Sound, j
<1> QED
  BY <1>1, <1>2

LEMMA AddHostSound ==
  ASSUME NEW i, Sound(i), NEW g \in i.groups, NEW h \in HostNames
  PROVE  LET j == AddHost(i, h, g)
         IN /\ Sound(j) /\ (Told(i) => Told(j))
            /\ j.groups = i.groups /\ j.hosts = i.hosts \cup {h} /\ j.children = i.children
            /\ j.members = [i.members EXCEPT ![g] = @ \cup {h}]
<1> DEFINE a == [i EXCEPT !.hosts = @ \cup {h}]
           b == AddToGroup(a, g, h)
<1>1. a \in Inventories
  BY DEF Sound, Inventories
<1>2. /\ a.groups = i.groups /\ a.hosts = i.hosts \cup {h} /\ a.children = i.children
      /\ a.members = i.members /\ a.depth = i.depth /\ a.groupsOf = i.groupsOf /\ a.seen = i.seen
  BY DEF Sound, Inventories
<1> HIDE DEF a
<1>3. \A d \in GroupNames : HostsOf(a, d) = HostsOf(i, d)
  BY <1>2, SameHosts
<1>4. Sound(a) /\ (Told(i) => Told(a))
  <2>1. Linked(a)
    BY <1>2 DEF Sound, Linked
  <2>2. Deeper(a) /\ Measured(a) /\ SeenOK(a) /\ (Told(i) => Told(a))
    BY <1>2, <1>3 DEF Sound, Deeper, Measured, SeenOK, Told
  <2> QED
    BY <1>1, <2>1, <2>2 DEF Sound
<1>5. /\ Sound(b) /\ Keeps(a, b) /\ (Told(a) => Told(b))
      /\ b.members = [i.members EXCEPT ![g] = @ \cup {h}]
  BY <1>2, <1>4, AddToGroupSound
<1> HIDE DEF b
<1>6. LET j == [b EXCEPT !.dict = Unknown]
      IN Sound(j) /\ Keeps(b, j) /\ (Told(j) <=> Told(b)) /\ j.members = b.members
  BY <1>5, DictCleared
<1> QED
  BY <1>2, <1>4, <1>5, <1>6 DEF AddHost, Keeps, a, b

LEMMA AdoptSound ==
  ASSUME NEW i, Sound(i), NEW p \in i.groups, NEW c \in i.groups, c # "all",
         p \notin Below(i.children, c)
  PROVE  LET j == Adopt(i, p, c)
         IN /\ Sound(j) /\ (Told(i) => Told(j))
            /\ j.groups = i.groups /\ j.hosts = i.hosts /\ j.members = i.members
            /\ j.children = i.children \cup {<<p, c>>}
<1> DEFINE E      == i.children
           F      == E \cup {<<p, c>>}
           U      == Above(E, p)
           C      == HostsOf(i, c)
           gained == ({p} \cup GetAncestors(i, p)) \ GetAncestors(i, c)
           own    == IF i.depth[p] + 1 > i.depth[c] THEN i.depth[p] + 1 ELSE i.depth[c]
           linked == [i EXCEPT !.children = F, !.depth = [i.depth EXCEPT ![c] = own]]
           deeper == [linked EXCEPT !.depth = Deepen(linked, c)]
           asked  == HostsSeen(deeper, {c})
           told   == [asked EXCEPT !.groupsOf = [h \in HostNames |->
                        IF h \in GetHosts(deeper, c) THEN asked.groupsOf[h] \cup gained
                        ELSE asked.groupsOf[h]]]
           j      == ClearHostsCache(told, p)
<1>1. /\ i \in Inventories /\ p \in GroupNames /\ c \in GroupNames /\ p # c
      /\ E \in AllEdges /\ F \in AllEdges /\ NoLoops(E) /\ NoLoops(F)
      /\ i.depth \in [GroupNames -> Nat]
      /\ i.seen \in [GroupNames -> {Unknown} \cup SUBSET HostNames]
      /\ i.groupsOf \in [HostNames -> SUBSET GroupNames]
  <2>1. /\ i \in Inventories /\ p \in GroupNames /\ c \in GroupNames
        /\ E \in AllEdges /\ NoLoops(E)
        /\ i.depth \in [GroupNames -> Nat]
        /\ i.seen \in [GroupNames -> {Unknown} \cup SUBSET HostNames]
        /\ i.groupsOf \in [HostNames -> SUBSET GroupNames]
    BY Fields, DeeperNoLoops DEF Sound
  <2>2. p # c
    BY <2>1, BelowBasics
  <2>3. F \in AllEdges
    BY <2>1 DEF AllEdges
  <2>4. NoLoops(F)
    BY <2>1, EdgeAddsNoLoop
  <2> QED
    BY <2>1, <2>2, <2>3, <2>4
<1>2. Adopt(i, p, c) = j
  BY DEF Adopt
<1>3. /\ own \in Nat /\ i.depth[p] < own /\ i.depth[c] <= own
      /\ \A e \in E : i.depth[e[1]] < i.depth[e[2]]
  <2>1. i.depth[p] \in Nat /\ i.depth[c] \in Nat
    BY <1>1
  <2> QED
    BY <2>1 DEF Sound, Deeper
<1>4. \A d \in GroupNames : Below(F, d) = Below(E, d) \cup (IF p \in Below(E, d) THEN Below(E, c) ELSE {})
  BY <1>1, BelowWithEdge
<1> HIDE DEF j, own, F
<1>5. /\ linked \in Inventories /\ linked.children = F
      /\ linked.depth = [i.depth EXCEPT ![c] = own]
  BY <1>1, <1>3 DEF Inventories, AllEdges
<1>6. \A e \in linked.children : linked.depth[e[1]] < linked.depth[e[2]] \/ e[1] = c
  <2>1. \A d \in GroupNames : linked.depth[d] = IF d = c THEN own ELSE i.depth[d]
    BY <1>1, <1>5
  <2>2. ASSUME NEW e \in E PROVE linked.depth[e[1]] < linked.depth[e[2]] \/ e[1] = c
    <3>1. /\ e[1] \in GroupNames /\ e[2] \in GroupNames
          /\ i.depth[e[1]] \in Nat /\ i.depth[e[2]] \in Nat /\ i.depth[e[1]] < i.depth[e[2]]
      BY <1>1, <1>3, Fields
    <3>2. e[2] = c => i.depth[e[2]] <= own
      BY <1>3
    <3> HIDE DEF linked
    <3> QED
      BY <1>3, <2>1, <3>1, <3>2
  <2>3. linked.depth[p] < linked.depth[c]
    BY <1>1, <1>3, <2>1
  <2> HIDE DEF linked
  <2> QED
    BY <1>5, <2>2, <2>3 DEF F
<1> DEFINE deep == Deepen(linked, c)
<1>7. deep \in [GroupNames -> Nat] /\ \A e \in F : deep[e[1]] < deep[e[2]]
  <2> HIDE DEF linked
  <2> QED
    BY <1>1, <1>5, <1>6, DeepenDeepens
<1>depths. \A d \in GroupNames : Reached(F, deep, d)
  <2>1. ASSUME NEW d \in GroupNames
        PROVE  \/ Reached(F, linked.depth, d)
               \/ <<c, d>> \in F /\ linked.depth[d] < linked.depth[c] + 1
    <3>1. \A g \in GroupNames : /\ linked.depth[g] = (IF g = c THEN own ELSE i.depth[g])
                                 /\ i.depth[g] \in Nat
      BY <1>1, <1>5
    <3> HIDE DEF linked
    <3>2. CASE linked.depth[d] = 0
      BY <3>2 DEF Reached
    <3>3. CASE d = c /\ own = i.depth[p] + 1
      <4>1. <<p, d>> \in F /\ linked.depth[p] + 1 = linked.depth[d]
        BY <1>1, <3>1, <3>3 DEF F
      <4> QED
        BY <1>1, <4>1 DEF Reached
    <3>4. CASE i.depth[d] # 0 /\ (d = c => own = i.depth[c])
      <4>1. PICK q \in GroupNames : <<q, d>> \in E /\ i.depth[q] + 1 = i.depth[d]
        BY <3>4 DEF Sound, Measured
      <4>2. <<q, d>> \in F /\ linked.depth[d] = i.depth[d] /\ i.depth[q] \in Nat
        BY <3>1, <3>4, <4>1 DEF F
      <4>3. CASE q # c \/ own = i.depth[c]
        <5>1. linked.depth[q] = i.depth[q]
          BY <3>1, <4>3
        <5> QED
          BY <4>1, <4>2, <5>1 DEF Reached
      <4>4. CASE q = c /\ own # i.depth[c]
        <5>1. i.depth[c] < own /\ linked.depth[c] = own /\ i.depth[c] \in Nat
          BY <1>1, <1>3, <3>1, <4>4
        <5>2. linked.depth[d] < linked.depth[c] + 1
          BY <1>3, <4>1, <4>2, <4>4, <5>1
        <5> QED
          BY <4>2, <4>4, <5>2
      <4> QED
        BY <4>3, <4>4
    <3>5. own = i.depth[p] + 1 \/ own = i.depth[c]
      BY DEF own
    <3> QED
      BY <3>1, <3>2, <3>3, <3>4, <3>5
  <2> HIDE DEF linked
  <2>2. \A d \in GroupNames :
          \/ Reached(linked.children, linked.depth, d)
          \/ <<c, d>> \in linked.children /\ linked.depth[d] < linked.depth[c] + 1
    BY <1>5, <2>1
  <2>3. linked \in Inventories /\ NoLoops(linked.children) /\ c \in GroupNames
    BY <1>1, <1>5
  <2>4. \A d \in GroupNames : Reached(linked.children, Deepen(linked, c), d)
    BY <1>6, <2>2, <2>3, DeepenMeasures
  <2> QED
    BY <1>5, <2>4 DEF deep
<1> HIDE DEF deep
<1>8. /\ deeper \in Inventories /\ deeper.children = F /\ deeper.members = i.members
      /\ deeper.groups = i.groups /\ deeper.hosts = i.hosts /\ deeper.depth = deep
      /\ deeper.seen = i.seen /\ deeper.groupsOf = i.groupsOf
  <2>1. deeper = [i EXCEPT !.children = F, !.depth = deep]
    BY <1>1 DEF Inventories, deep
  <2> HIDE DEF deeper, linked
  <2> QED
    BY <1>1, <1>7, <2>1 DEF Inventories, AllEdges
<1> HIDE DEF deeper
<1>9. \A d \in GroupNames :
        HostsOf(deeper, d) = HostsOf(i, d) \cup (IF p \in Below(E, d) THEN C ELSE {})
  BY <1>4, <1>8 DEF HostsOf
<1>10. HostsOf(deeper, c) = C /\ GetHosts(deeper, c) = C
  <2>1. HostsOf(deeper, c) = C
    BY <1>1, <1>9
  <2> QED
    BY <1>1, <1>8, <2>1, HostsFound DEF Sound, SeenOK
<1>11. C \in SUBSET HostNames
  BY <1>1, HostsOfType
<1> HIDE DEF C
<1>12. asked = [deeper EXCEPT !.seen = [d \in GroupNames |-> IF d = c THEN C ELSE i.seen[d]]]
  BY <1>1, <1>8, <1>10 DEF HostsSeen
<1> HIDE DEF asked
<1>13. /\ asked \in Inventories /\ asked.children = F /\ asked.members = i.members
       /\ asked.groups = i.groups /\ asked.hosts = i.hosts /\ asked.depth = deep
       /\ asked.groupsOf = i.groupsOf
       /\ asked.seen = [d \in GroupNames |-> IF d = c THEN C ELSE i.seen[d]]
  BY <1>1, <1>8, <1>11, <1>12 DEF Inventories
<1>14. /\ gained = U \ GetAncestors(i, c) /\ gained \in SUBSET GroupNames
       /\ GetAncestors(i, c) = {a \in GroupNames : a # c /\ c \in Below(E, a)}
  BY <1>1, GroupAndAncestors, AncestorsAreAbove DEF Above
<1> DEFINE groupsOf == [h \in HostNames |->
                          IF h \in C THEN i.groupsOf[h] \cup gained ELSE i.groupsOf[h]]
<1> HIDE DEF gained
<1>15. groupsOf \in [HostNames -> SUBSET GroupNames]
  BY <1>1, <1>14
<1>16. told = [asked EXCEPT !.groupsOf = groupsOf]
  BY <1>10, <1>13
<1> HIDE DEF told, groupsOf
<1>17. /\ told \in Inventories /\ told.children = F /\ told.members = i.members
       /\ told.groups = i.groups /\ told.hosts = i.hosts /\ told.depth = deep
       /\ told.groupsOf = groupsOf /\ told.seen = asked.seen
  BY <1>13, <1>15, <1>16 DEF Inventories
<1>18. Above(F, p) = U
  BY <1>1, <1>4 DEF Above
<1>19. j = [told EXCEPT !.seen = [d \in GroupNames |-> IF d \in U THEN Unknown ELSE asked.seen[d]]]
  BY <1>1, <1>17, <1>18, CacheCleared DEF j
<1> HIDE DEF U
<1>20. /\ j \in Inventories /\ j.children = F /\ j.members = i.members
       /\ j.groups = i.groups /\ j.hosts = i.hosts /\ j.depth = deep /\ j.groupsOf = groupsOf
       /\ j.seen = [d \in GroupNames |-> IF d \in U THEN Unknown ELSE asked.seen[d]]
  <2>1. \A d \in GroupNames : asked.seen[d] \in {Unknown} \cup SUBSET HostNames
    BY <1>1, <1>11, <1>13
  <2> QED
    BY <1>17, <1>19, <2>1 DEF Inventories
<1>21. \A d \in GroupNames : HostsOf(j, d) = HostsOf(i, d) \cup (IF d \in U THEN C ELSE {})
  <2>1. \A d \in GroupNames : HostsOf(j, d) = HostsOf(deeper, d)
    BY <1>8, <1>20, SameHosts
  <2> QED
    BY <1>9, <2>1 DEF Above, U
<1>22. SeenOK(j)
  <2>1. ASSUME NEW d \in GroupNames PROVE j.seen[d] \in {Unknown, HostsOf(j, d)}
    <3>1. CASE d \in U
      BY <1>20, <3>1
    <3>2. CASE d \notin U /\ d = c
      <4>1. HostsOf(j, d) = C
        BY <1>21, <3>2 DEF C
      <4> QED
        BY <1>13, <1>20, <3>2, <4>1
    <3>3. CASE d \notin U /\ d # c
      <4>1. HostsOf(j, d) = HostsOf(i, d) /\ j.seen[d] = i.seen[d]
        BY <1>13, <1>20, <1>21, <3>3
      <4> QED
        BY <4>1 DEF Sound, SeenOK
    <3> QED
      BY <3>1, <3>2, <3>3
  <2> QED
    BY <2>1 DEF SeenOK
<1>23. Linked(j) /\ Deeper(j) /\ Measured(j)
  <2>1. Measured(j)
    BY <1>20, <1>depths DEF Measured, Reached
  <2> QED
    BY <1>7, <1>20, <2>1 DEF Sound, Linked, Deeper, F
<1>24. ASSUME Told(i) PROVE Told(j)
  <2>1. ASSUME NEW h \in HostNames
        PROVE  j.groupsOf[h] = {d \in GroupNames : h \in HostsOf(j, d)}
    <3>1. i.groupsOf[h] = {d \in GroupNames : h \in HostsOf(i, d)}
      BY <1>24 DEF Told
    <3>2. j.groupsOf[h] = IF h \in C THEN i.groupsOf[h] \cup gained ELSE i.groupsOf[h]
      BY <1>20 DEF groupsOf
    <3>3. CASE h \notin C
      <4>1. \A d \in GroupNames : h \in HostsOf(j, d) <=> h \in HostsOf(i, d)
        BY <1>21, <3>3
      <4> QED
        BY <3>1, <3>2, <3>3, <4>1
    <3>4. CASE h \in C
      <4>1. \A d \in GroupNames : h \in HostsOf(j, d) <=> h \in HostsOf(i, d) \/ d \in U
        BY <1>21, <3>4
      <4>2. ASSUME NEW d \in GetAncestors(i, c) PROVE d \in GroupNames /\ h \in HostsOf(i, d)
        <5>1. d \in GroupNames /\ c \in Below(E, d)
          BY <1>14, <4>2
        <5>2. Below(E, c) \subseteq Below(E, d)
          BY <1>1, <5>1, BelowTransitive
        <5> QED
          BY <3>4, <5>1, <5>2 DEF HostsOf, C
      <4>3. \A d \in U : d \in gained \/ h \in HostsOf(i, d)
        BY <1>14, <4>2
      <4>4. \A d \in gained : d \in U /\ d \in GroupNames
        BY <1>14
      <4> QED
        BY <3>1, <3>2, <3>4, <4>1, <4>3, <4>4
    <3> QED
      BY <3>3, <3>4
  <2> QED
    BY <2>1 DEF Told
<1> QED
  BY <1>2, <1>20, <1>22, <1>23, <1>24 DEF Sound, F
LEMMA AddChildGroupSound ==
  ASSUME NEW i, Sound(i), NEW p \in i.groups, NEW c \in i.groups, c # "all",
         p \notin Below(i.children, c)
  PROVE  LET j == AddChildGroup(i, p, c)
         IN /\ Sound(j) /\ (Told(i) => Told(j))
            /\ j.groups = i.groups /\ j.hosts = i.hosts /\ j.members = i.members
            /\ j.children = i.children \cup {<<p, c>>}
<1>1. CASE <<p, c>> \in i.children
  <2>1. AddChildGroup(i, p, c) = i
    BY <1>1 DEF AddChildGroup
  <2> QED
    BY <1>1, <2>1
<1>2. CASE <<p, c>> \notin i.children
  <2>1. AddChildGroup(i, p, c) = Adopt(i, p, c)
    BY <1>2 DEF AddChildGroup
  <2> QED
    BY <2>1, AdoptSound
<1> QED
  BY <1>1, <1>2

LEMMA AddChildSound ==
  ASSUME NEW i, Sound(i), NEW p \in i.groups, NEW c \in i.groups, c # "all",
         p \notin Below(i.children, c)
  PROVE  LET j == AddChild(i, p, c)
         IN /\ Sound(j) /\ (Told(i) => Told(j))
            /\ j.groups = i.groups /\ j.hosts = i.hosts /\ j.members = i.members
            /\ j.children = i.children \cup {<<p, c>>}
<1> DEFINE a == AddChildGroup(i, p, c)
<1>1. /\ Sound(a) /\ (Told(i) => Told(a))
      /\ a.groups = i.groups /\ a.hosts = i.hosts /\ a.members = i.members
      /\ a.children = i.children \cup {<<p, c>>}
  BY AddChildGroupSound
<1> HIDE DEF a
<1>2. LET j == [a EXCEPT !.dict = Unknown]
      IN Sound(j) /\ Keeps(a, j) /\ (Told(j) <=> Told(a)) /\ j.members = a.members
  BY <1>1, DictCleared
<1> QED
  BY <1>1, <1>2 DEF AddChild, Keeps, a

(* Nothing is above all.                                                   *)
LEMMA AllIsTop ==
  ASSUME NEW i, Sound(i), NEW g \in GroupNames, g # "all"
  PROVE  "all" \notin Below(i.children, g)
<1>1. SUFFICES ASSUME "all" \in Below(i.children, g) PROVE FALSE
  OBVIOUS
<1>2. PICK p \in Below(i.children, g) : <<p, "all">> \in i.children
  BY <1>1, Fields, BelowLastStep DEF Sound
<1> QED
  BY <1>2 DEF Sound, Linked

(* Of some groups, one is below no other.                                  *)
LEMMA SomeTop ==
  ASSUME NEW i, Sound(i), NEW B \in SUBSET GroupNames, B # {}
  PROVE  \E g \in B : \A e \in i.children : e[2] = g => e[1] \notin B
<1> DEFINE UpTo(g) == {x \in B : i.depth[x] <= i.depth[g]}
           F == {UpTo(g) : g \in B}
<1>1. i.depth \in [GroupNames -> Nat]
  BY Fields DEF Sound
<1>2. PICK S \in F : \A T \in F : T \subseteq S => T = S
  <2>1. F # {}
    OBVIOUS
  <2>2. \A g \in B : UpTo(g) \in SUBSET GroupNames
    OBVIOUS
  <2>3. \A S \in F : IsFiniteSet(S)
    BY <2>2, NamesFinite, FS_Subset
  <2> HIDE DEF F
  <2> QED
    BY <2>1, <2>3, SmallestSet
<1>3. PICK g \in B : S = UpTo(g)
  BY <1>2
<1>4. ASSUME NEW e \in i.children, e[2] = g, e[1] \in B PROVE FALSE
  <2> DEFINE p == e[1]
  <2>1. i.depth[p] < i.depth[g] /\ i.depth[p] \in Nat /\ i.depth[g] \in Nat
    BY <1>1, <1>4 DEF Sound, Deeper
  <2> HIDE DEF p
  <2>2. \A x \in B : i.depth[x] \in Nat
    BY <1>1
  <2>3. UpTo(p) \subseteq UpTo(g) /\ g \in UpTo(g) /\ g \notin UpTo(p)
    BY <2>1, <2>2
  <2>4. UpTo(p) \in F
    BY <1>4 DEF p
  <2> QED
    BY <1>2, <1>3, <2>3, <2>4
<1> QED
  BY <1>4

LEMMA NewInventorySound ==
  /\ Sound(NewInventory) /\ Told(NewInventory) /\ Based(NewInventory)
  /\ NewInventory.groups = {"all", "ungrouped"} /\ NewInventory.hosts = {}
  /\ NewInventory.children = {<<"all", "ungrouped">>}
  /\ NewInventory.members = [g \in GroupNames |-> {}]
<1> DEFINE n == NoInventory
           a == AddGroup(n, "all")
           b == AddGroup(a, "ungrouped")
<1>1. /\ n.groups = {} /\ n.hosts = {} /\ n.children = {}
      /\ n.members = [g \in GroupNames |-> {}] /\ n.groupsOf = [h \in HostNames |-> {}]
      /\ n.depth = [g \in GroupNames |-> 0] /\ n.seen = [g \in GroupNames |-> Unknown]
  BY DEF NoInventory
<1>2. n \in Inventories
  BY DEF NoInventory, Inventories
<1> HIDE DEF n
<1>3. \A g \in GroupNames : HostsOf(n, g) = {}
  <2>1. \A g \in GroupNames : Below(n.children, g) \in SUBSET GroupNames
    BY <1>2, Fields, BelowBasics
  <2> QED
    BY <1>1, <2>1 DEF HostsOf
<1>4. Sound(n) /\ Told(n)
  BY <1>1, <1>2, <1>3 DEF Sound, Linked, Deeper, Measured, SeenOK, Told
<1>5. /\ Sound(a) /\ Told(a) /\ a.groups = {"all"} /\ a.children = {}
      /\ a.hosts = {} /\ a.members = [g \in GroupNames |-> {}]
  <2>1. /\ Sound(a) /\ (Told(a) <=> Told(n))
        /\ a.groups = n.groups \cup {"all"} /\ a.children = n.children
        /\ a.hosts = n.hosts /\ a.members = n.members
    BY <1>4, NamesFinite, AddGroupSound
  <2> QED
    BY <1>1, <1>4, <2>1
<1> HIDE DEF a
<1>6. /\ Sound(b) /\ Told(b) /\ b.groups = {"all", "ungrouped"} /\ b.children = {}
      /\ b.hosts = {} /\ b.members = [g \in GroupNames |-> {}]
  <2>1. /\ Sound(b) /\ (Told(b) <=> Told(a))
        /\ b.groups = a.groups \cup {"ungrouped"} /\ b.children = a.children
        /\ b.hosts = a.hosts /\ b.members = a.members
    BY <1>5, NamesFinite, AddGroupSound
  <2> QED
    BY <1>5, <2>1
<1> HIDE DEF b
<1>7. "all" \notin Below(b.children, "ungrouped")
  BY <1>6, NamesFinite, AllIsTop
<1>8. LET j == AddChild(b, "all", "ungrouped")
      IN /\ Sound(j) /\ Told(j) /\ j.groups = b.groups /\ j.hosts = b.hosts
         /\ j.children = b.children \cup {<<"all", "ungrouped">>} /\ j.members = b.members
  <2>1. "all" \in b.groups /\ "ungrouped" \in b.groups /\ "ungrouped" # "all"
    BY <1>6
  <2> QED
    BY <1>6, <1>7, <2>1, AddChildSound
<1>9. NewInventory = AddChild(b, "all", "ungrouped")
  BY DEF NewInventory, a, b, n
<1> QED
  BY <1>6, <1>8, <1>9 DEF Based
(* The groups that are not under all go under it.                          *)
LEMMA RootSound ==
  ASSUME NEW i, Sound(i), Based(i)
  PROVE  LET j == ForEach(Rootless(i),
                    [g \in GroupNames |-> [k \in Inventories |-> AddChild(k, "all", g)]], i)
         IN /\ Sound(j) /\ Based(j) /\ Rooted(j)
            /\ j.groups = i.groups /\ j.hosts = i.hosts
            /\ i.children \subseteq j.children /\ j.members = i.members
            /\ \A e \in j.children : e \in i.children \/ e[1] = "all"
            /\ Told(i) /\ Apart(i) => Told(j) /\ Apart(j)
<1> DEFINE R == Rootless(i)
           New(s) == {<<"all", g>> : g \in s}
           Grown(s, k) == /\ Sound(k) /\ (Told(i) => Told(k))
                          /\ k.groups = i.groups /\ k.hosts = i.hosts /\ k.members = i.members
                          /\ k.children = i.children \cup New(s)
           T == [s \in SUBSET R |-> {k \in Inventories : Grown(s, k)}]
           body == [g \in GroupNames |-> [k \in Inventories |-> AddChild(k, "all", g)]]
           j == ForEach(R, body, i)
<1>1. i \in Inventories /\ i.groups \in SUBSET GroupNames
  BY Fields DEF Sound
<1>2. \A g \in R : g \in i.groups /\ g \in GroupNames /\ g # "all" /\ GetAncestors(i, g) = {}
  BY <1>1 DEF Rootless
<1>3. IsFiniteSet(R)
  BY <1>2, NamesFinite, FS_Subset
<1>4. i \in T[{}]
  BY <1>1
<1>5. ASSUME NEW s \in SUBSET R, NEW g \in R \ s, NEW k \in T[s]
      PROVE  body[g][k] \in T[s \cup {g}]
  <2>1. k \in Inventories /\ Grown(s, k)
    BY <1>5
  <2> DEFINE l == AddChild(k, "all", g)
  <2>2. body[g][k] = l
    BY <1>2, <2>1
  <2>3. "all" \in k.groups /\ g \in k.groups /\ g # "all" /\ "all" \notin Below(k.children, g)
    BY <1>2, <2>1, AllIsTop DEF Based
  <2>4. /\ Sound(l) /\ (Told(k) => Told(l))
        /\ l.groups = k.groups /\ l.hosts = k.hosts /\ l.children = k.children \cup {<<"all", g>>}
        /\ l.members = k.members
    <3>1. Sound(k)
      BY <2>1
    <3> QED
      BY <2>3, <3>1, AddChildSound
  <2>5. New(s \cup {g}) = New(s) \cup {<<"all", g>>}
    OBVIOUS
  <2> HIDE DEF l, body, New
  <2>6. Grown(s \cup {g}, l)
    BY <2>1, <2>4, <2>5
  <2>7. l \in Inventories
    BY <2>4 DEF Sound
  <2> HIDE DEF Grown
  <2>8. l \in T[s \cup {g}]
    BY <2>6, <2>7
  <2> QED
    BY <2>2, <2>8
<1> HIDE DEF T, body, R
<1>6. j \in T[R]
  BY <1>3, <1>4, <1>5, ForEachInduction
<1> HIDE DEF j
<1>7. j \in Inventories /\ Grown(R, j)
  BY <1>6 DEF T
<1>8. \A g \in R : <<"all", g>> \in j.children
  BY <1>7
<1>9. Rooted(j)
  <2> DEFINE B == {g \in i.groups : g \notin Below(j.children, "all")}
  <2>1. SUFFICES ASSUME B # {} PROVE FALSE
    BY <1>7 DEF Rooted
  <2>2. B \in SUBSET GroupNames
    BY <1>1
  <2> HIDE DEF Grown
  <2>3. PICK g \in B : \A e \in i.children : e[2] = g => e[1] \notin B
    <3> HIDE DEF B
    <3> QED
      BY <2>1, <2>2, SomeTop
  <2>4. j.children \in AllEdges /\ "all" \in GroupNames
    BY <1>7, Fields, NamesFinite
  <2>5. g \in i.groups /\ g \in GroupNames /\ g # "all"
    BY <1>1, <2>3, <2>4, BelowBasics
  <2>6. \A p \in Below(j.children, "all") : <<p, g>> \notin j.children
    BY <2>3, <2>4, BelowBasics DEF ClosedUnder
  <2>7. g \notin R
    BY <1>8, <2>4, <2>6, BelowBasics
  <2>8. GetAncestors(i, g) # {}
    BY <2>5, <2>7 DEF R, Rootless
  <2>9. PICK a \in GroupNames, p \in GroupNames : <<p, g>> \in i.children
    BY <1>1, <2>5, <2>8, AncestorsFound
  <2>10. p \in i.groups
    BY <2>9 DEF Sound, Linked
  <2>11. p \notin B
    BY <2>3, <2>9
  <2>12. <<p, g>> \in j.children
    BY <1>7, <2>9 DEF Grown
  <2> QED
    BY <2>6, <2>10, <2>11, <2>12
<1>10. ASSUME Apart(i) PROVE Apart(j)
  BY <1>7, <1>10 DEF Apart
<1>11. Based(j)
  BY <1>7 DEF Based
<1> QED
  BY <1>7, <1>9, <1>10, <1>11 DEF j, body, R

LEMMA SettleAllSound ==
  ASSUME NEW i, Sound(i), Based(i)
  PROVE  LET j == ForEach(i.hosts,
                    [h \in HostNames |-> [k \in Inventories |-> Settle(k, h)]], i)
         IN /\ Sound(j) /\ Keeps(i, j)
            /\ \A g \in UserGroups : j.members[g] = i.members[g]
            /\ InPlace(i) => InPlace(j) /\ Settled(j)
<1> DEFINE H == i.hosts
           Done(s, k) == /\ Sound(k) /\ Keeps(i, k)
                         /\ \A g \in UserGroups : k.members[g] = i.members[g]
                         /\ InPlace(i) => InPlace(k) /\ \A h \in s : SettledHost(k, h)
           T == [s \in SUBSET H |-> {k \in Inventories : Done(s, k)}]
           body == [h \in HostNames |-> [k \in Inventories |-> Settle(k, h)]]
           j == ForEach(H, body, i)
<1>1. i \in Inventories /\ H \in SUBSET HostNames /\ IsFiniteSet(H)
  BY Fields, NamesAssumption, FS_Subset DEF Sound
<1>2. i \in T[{}]
  BY <1>1 DEF Keeps
<1>3. ASSUME NEW s \in SUBSET H, NEW h \in H \ s, NEW k \in T[s]
      PROVE  body[h][k] \in T[s \cup {h}]
  <2>1. k \in Inventories /\ Done(s, k)
    BY <1>3
  <2> DEFINE l == Settle(k, h)
  <2>2. body[h][k] = l /\ h \in HostNames
    BY <1>1, <2>1
  <2>3. Based(k) /\ h \in k.hosts
    BY <2>1 DEF Based, Keeps
  <2>4. /\ Sound(l) /\ Keeps(k, l)
        /\ \A g \in UserGroups : l.members[g] = k.members[g]
        /\ InPlace(k) => /\ InPlace(l) /\ SettledHost(l, h)
                         /\ \A x \in HostNames : \A d \in GroupNames :
                              x # h => (x \in HostsOf(l, d) <=> x \in HostsOf(k, d))
    BY <2>1, <2>3, SettleSound
  <2> HIDE DEF l, body
  <2>5. ASSUME InPlace(k), NEW x \in HostNames, x # h, SettledHost(k, x) PROVE SettledHost(l, x)
    <3>1. \A d \in GroupNames : x \in HostsOf(l, d) <=> x \in HostsOf(k, d)
      BY <2>4, <2>5
    <3>2. \A g \in UserGroups : g \in GroupNames
      BY DEF GroupNames
    <3> QED
      BY <2>5, <3>1, <3>2, NamesFinite DEF SettledHost
  <2>6. ASSUME InPlace(i) PROVE InPlace(l) /\ \A x \in s \cup {h} : SettledHost(l, x)
    <3>1. InPlace(k) /\ \A x \in s : SettledHost(k, x)
      BY <2>1, <2>6
    <3>2. \A x \in s : x \in HostNames /\ x # h
      BY <1>1
    <3> QED
      BY <2>4, <2>5, <3>1, <3>2
  <2>7. Keeps(i, l) /\ l \in Inventories
    BY <2>1, <2>4 DEF Keeps, Sound
  <2>8. Done(s \cup {h}, l)
    BY <2>1, <2>4, <2>6, <2>7
  <2> HIDE DEF Done
  <2>9. l \in T[s \cup {h}]
    BY <2>7, <2>8
  <2> QED
    BY <2>2, <2>9
<1> HIDE DEF T, body, H
<1>4. j \in T[H]
  BY <1>1, <1>2, <1>3, ForEachInduction
<1> HIDE DEF j
<1>5. Done(H, j)
  BY <1>4 DEF T
<1>6. InPlace(i) => InPlace(j) /\ Settled(j)
  BY <1>5 DEF Settled, SettledHost, Keeps, H
<1> QED
  BY <1>5, <1>6 DEF j, body, H

LEMMA ReconcileSound ==
  ASSUME NEW i, Sound(i), Based(i)
  PROVE  LET j == ReconcileInventory(i)
         IN /\ Sound(j) /\ Based(j) /\ Rooted(j) /\ j.dict = Unknown
            /\ j.groups = i.groups /\ j.hosts = i.hosts /\ Grows(i, j, Nothing)
            /\ Told(i) /\ Apart(i) => Told(j) /\ Apart(j) /\ Settled(j)
<1> DEFINE rooted  == ForEach(Rootless(i),
                        [g \in GroupNames |-> [k \in Inventories |-> AddChild(k, "all", g)]], i)
           settled == ForEach(rooted.hosts,
                        [h \in HostNames |-> [k \in Inventories |-> Settle(k, h)]], rooted)
           j == [settled EXCEPT !.dict = Unknown]
<1>1. /\ Sound(rooted) /\ Based(rooted) /\ Rooted(rooted)
      /\ rooted.groups = i.groups /\ rooted.hosts = i.hosts
      /\ i.children \subseteq rooted.children /\ rooted.members = i.members
      /\ \A e \in rooted.children : e \in i.children \/ e[1] = "all"
      /\ Told(i) /\ Apart(i) => Told(rooted) /\ Apart(rooted)
  BY RootSound
<1>2. ReconcileInventory(i) = j
  BY <1>1 DEF ReconcileInventory
<1> HIDE DEF rooted
<1>3. /\ Sound(settled) /\ Keeps(rooted, settled)
      /\ \A g \in UserGroups : settled.members[g] = rooted.members[g]
      /\ InPlace(rooted) => InPlace(settled) /\ Settled(settled)
  BY <1>1, SettleAllSound
<1> HIDE DEF settled
<1>4. /\ Sound(j) /\ Keeps(settled, j) /\ (Told(j) <=> Told(settled))
      /\ j.members = settled.members /\ j.dict = Unknown
  BY <1>3, DictCleared
<1> HIDE DEF j
<1>5. \A d \in GroupNames : HostsOf(j, d) = HostsOf(settled, d)
  BY <1>4, SameHosts DEF Keeps
<1>6. Settled(settled) => Settled(j)
  <2>1. \A g \in UserGroups : g \in GroupNames
    BY DEF GroupNames
  <2> QED
    BY <1>4, <1>5, <2>1, NamesFinite DEF Settled, Keeps
<1>7. Based(j) /\ Rooted(j) /\ j.groups = i.groups /\ j.hosts = i.hosts
  BY <1>1, <1>3, <1>4 DEF Based, Rooted, Keeps
<1>8. ASSUME Told(i), Apart(i) PROVE Told(j) /\ Apart(j) /\ Settled(j)
  <2>1. InPlace(rooted)
    BY <1>1, <1>8 DEF InPlace
  <2>2. InPlace(settled) /\ Settled(settled)
    BY <1>3, <2>1
  <2> QED
    BY <1>4, <1>6, <2>2 DEF InPlace, Apart, Keeps
<1>9. Grows(i, j, Nothing)
  BY <1>1, <1>3, <1>4 DEF Grows, Nothing, Keeps
<1> QED
  BY <1>2, <1>4, <1>7, <1>8, <1>9
-----------------------------------------------------------------------------
(* The sources.                                                            *)

(* What a source links makes no loop, whatever part of it is there.        *)
LEMMA SourceMakesNoLoop ==
  ASSUME NEW src \in Sources, NEW E \in AllEdges, E \subseteq Edges(src),
         NEW p \in GroupNames, NEW c \in GroupNames, <<p, c>> \in Edges(src)
  PROVE  p \notin Below(E, c)
<1> DEFINE A == Edges(src)
           gs == {x \in Below(A, c) : p \in Below(A, x)}
<1>1. A \in AllEdges
  BY InputsAssumption, NamesFinite DEF WellFormed, Edges, AllEdges
<1>2. \A hs \in (SUBSET GroupNames) \ {{}} : \E g \in hs : \A e \in A : e[2] = g => e[1] \notin hs
  BY InputsAssumption DEF WellFormed
<1> HIDE DEF A
<1>3. SUFFICES ASSUME p \in Below(A, c) PROVE FALSE
  BY <1>1, BelowGrows DEF A
<1>4. c \in gs /\ p \in gs /\ gs \in SUBSET GroupNames
  BY <1>1, <1>3, BelowBasics
<1>5. ASSUME NEW g \in gs PROVE \E e \in A : e[2] = g /\ e[1] \in gs
  <2>1. g \in GroupNames /\ g \in Below(A, c) /\ p \in Below(A, g)
    BY <1>4
  <2>2. CASE g = c
    BY <1>4, <2>2 DEF A
  <2>3. CASE g # c
    <3>1. PICK q \in Below(A, c) : <<q, g>> \in A
      BY <1>1, <2>1, <2>3, BelowLastStep
    <3>2. q \in GroupNames /\ g \in Below(A, q)
      BY <1>1, <3>1, BelowBasics DEF ClosedUnder
    <3>3. p \in Below(A, q)
      BY <1>1, <2>1, <3>2, BelowTransitive
    <3> QED
      BY <3>1, <3>3
  <2> QED
    BY <2>2, <2>3
<1> HIDE DEF gs
<1> QED
  BY <1>2, <1>4, <1>5

There(src) == src.groups \cup {"all", "ungrouped"}

LEMMA SourceTypes ==
  ASSUME NEW src \in Sources
  PROVE  /\ There(src) \in SUBSET GroupNames
         /\ IsFiniteSet(src.groups) /\ IsFiniteSet(src.members) /\ IsFiniteSet(src.children)
         /\ src.groups \in SUBSET GroupNames
         /\ \A m \in src.members : m \in GroupNames \X HostNames /\ m[1] \in There(src) /\ m[2] \in HostNames
         /\ \A e \in src.children :
              /\ e \in GroupNames \X GroupNames /\ e = <<e[1], e[2]>>
              /\ e[1] \in There(src) /\ e[2] \in There(src) /\ e[2] # "all"
<1>1. /\ src.groups \subseteq GroupNames
      /\ src.children \subseteq There(src) \X (There(src) \ {"all"})
      /\ src.members \subseteq There(src) \X HostNames
  BY InputsAssumption DEF WellFormed, There
<1>2. There(src) \in SUBSET GroupNames
  BY <1>1, NamesFinite DEF There
<1>3. IsFiniteSet(GroupNames \X HostNames) /\ IsFiniteSet(GroupNames \X GroupNames)
  BY NamesFinite, NamesAssumption, FS_Product
<1>4. src.children \subseteq GroupNames \X GroupNames /\ src.members \subseteq GroupNames \X HostNames
  BY <1>1, <1>2
<1>5. IsFiniteSet(src.groups) /\ IsFiniteSet(src.members) /\ IsFiniteSet(src.children)
  BY <1>1, <1>3, <1>4, NamesFinite, FS_Subset
<1> QED
  BY <1>1, <1>2, <1>4, <1>5

LEMMA GroupsParsed ==
  ASSUME NEW src \in Sources
  PROVE  LET j == ForEach(src.groups,
                    [g \in GroupNames |-> [k \in Inventories |-> AddGroup(k, g)]], NewInventory)
         IN /\ Sound(j) /\ Told(j) /\ j.groups = There(src) /\ j.hosts = {}
            /\ j.children = {<<"all", "ungrouped">>} /\ j.members = [g \in GroupNames |-> {}]
<1> DEFINE R == src.groups
           Grown(s, k) == /\ Sound(k) /\ Told(k) /\ k.groups = s \cup {"all", "ungrouped"}
                          /\ k.hosts = {} /\ k.children = {<<"all", "ungrouped">>}
                          /\ k.members = [g \in GroupNames |-> {}]
           T == [s \in SUBSET R |-> {k \in Inventories : Grown(s, k)}]
           body == [g \in GroupNames |-> [k \in Inventories |-> AddGroup(k, g)]]
           j == ForEach(R, body, NewInventory)
<1>1. R \in SUBSET GroupNames /\ IsFiniteSet(R)
  BY SourceTypes
<1>2. NewInventory \in T[{}]
  BY NewInventorySound DEF Sound
<1>3. ASSUME NEW s \in SUBSET R, NEW g \in R \ s, NEW k \in T[s]
      PROVE  body[g][k] \in T[s \cup {g}]
  <2>1. k \in Inventories /\ Grown(s, k) /\ g \in GroupNames
    BY <1>1, <1>3
  <2> DEFINE l == AddGroup(k, g)
  <2>2. body[g][k] = l
    BY <2>1
  <2>3. /\ Sound(l) /\ (Told(l) <=> Told(k)) /\ l.groups = k.groups \cup {g}
        /\ l.hosts = k.hosts /\ l.children = k.children /\ l.members = k.members
    BY <2>1, AddGroupSound
  <2> HIDE DEF l, body
  <2>4. Grown(s \cup {g}, l) /\ l \in Inventories
    BY <2>1, <2>3 DEF Sound
  <2> HIDE DEF Grown
  <2>5. l \in T[s \cup {g}]
    BY <2>4
  <2> QED
    BY <2>2, <2>5
<1> HIDE DEF T, body, R
<1>4. j \in T[R]
  BY <1>1, <1>2, <1>3, ForEachInduction
<1> HIDE DEF j
<1>5. Grown(R, j)
  BY <1>4 DEF T
<1> QED
  BY <1>5 DEF j, body, R, There

LEMMA HostsParsed ==
  ASSUME NEW src \in Sources, NEW i, Sound(i), Told(i), i.groups = There(src)
  PROVE  LET j == ForEach(src.members,
                    [m \in GroupNames \X HostNames |-> [k \in Inventories |->
                       AddHost(k, m[2], m[1])]], i)
         IN /\ Sound(j) /\ Told(j) /\ j.groups = i.groups /\ j.children = i.children
            /\ j.hosts = i.hosts \cup {m[2] : m \in src.members}
            /\ \A g \in GroupNames : j.members[g] = i.members[g] \cup {h \in HostNames : <<g, h>> \in src.members}
<1> DEFINE R == src.members
           Grown(s, k) == /\ Sound(k) /\ Told(k) /\ k.groups = i.groups /\ k.children = i.children
                          /\ k.hosts = i.hosts \cup {m[2] : m \in s}
                          /\ \A g \in GroupNames : k.members[g] = i.members[g] \cup {h \in HostNames : <<g, h>> \in s}
           T == [s \in SUBSET R |-> {k \in Inventories : Grown(s, k)}]
           body == [m \in GroupNames \X HostNames |-> [k \in Inventories |-> AddHost(k, m[2], m[1])]]
           j == ForEach(R, body, i)
<1>1. IsFiniteSet(R) /\ i \in T[{}]
  BY SourceTypes DEF Sound
<1>2. ASSUME NEW s \in SUBSET R, NEW m \in R \ s, NEW k \in T[s]
      PROVE  body[m][k] \in T[s \cup {m}]
  <2>1. k \in Inventories /\ Grown(s, k)
    BY <1>2
  <2>2. m \in GroupNames \X HostNames /\ m[1] \in k.groups /\ m[2] \in HostNames
    BY <2>1, SourceTypes
  <2> DEFINE l == AddHost(k, m[2], m[1])
  <2>3. body[m][k] = l
    BY <2>1, <2>2
  <2>4. /\ Sound(l) /\ (Told(k) => Told(l)) /\ l.groups = k.groups /\ l.children = k.children
        /\ l.hosts = k.hosts \cup {m[2]} /\ l.members = [k.members EXCEPT ![m[1]] = @ \cup {m[2]}]
    <3>1. Sound(k)
      BY <2>1
    <3> QED
      BY <2>2, <3>1, AddHostSound
  <2> HIDE DEF l, body
  <2>hosts. l.hosts = i.hosts \cup {n[2] : n \in s \cup {m}}
    BY <2>1, <2>4
  <2>members. ASSUME NEW g \in GroupNames
              PROVE  l.members[g] = i.members[g] \cup {h \in HostNames : <<g, h>> \in s \cup {m}}
    <3>1. m = <<m[1], m[2]>> /\ m[1] \in GroupNames /\ k.members \in [GroupNames -> SUBSET HostNames]
      BY <2>1, <2>2, Fields
    <3>2. l.members[g] = IF g = m[1] THEN k.members[g] \cup {m[2]} ELSE k.members[g]
      BY <2>4, <3>1
    <3>3. k.members[g] = i.members[g] \cup {h \in HostNames : <<g, h>> \in s}
      BY <2>1
    <3>4. {h \in HostNames : <<g, h>> \in s \cup {m}} =
            {h \in HostNames : <<g, h>> \in s} \cup (IF g = m[1] THEN {m[2]} ELSE {})
      BY <2>2, <3>1
    <3> QED
      BY <3>2, <3>3, <3>4
  <2>5. Grown(s \cup {m}, l) /\ l \in Inventories
    BY <2>1, <2>4, <2>hosts, <2>members DEF Sound
  <2> HIDE DEF Grown
  <2>6. l \in T[s \cup {m}]
    BY <2>5
  <2> QED
    BY <2>3, <2>6
<1> HIDE DEF T, body, R
<1>3. j \in T[R]
  BY <1>1, <1>2, ForEachInduction
<1> HIDE DEF j
<1>4. Grown(R, j)
  BY <1>3 DEF T
<1> QED
  BY <1>4 DEF j, body, R

LEMMA KidsParsed ==
  ASSUME NEW src \in Sources, NEW i, Sound(i), Told(i), i.groups = There(src),
         i.children = {<<"all", "ungrouped">>}
  PROVE  LET j == ForEach(src.children,
                    [e \in GroupNames \X GroupNames |-> [k \in Inventories |->
                       AddChild(k, e[1], e[2])]], i)
         IN /\ Sound(j) /\ Told(j) /\ j.groups = i.groups /\ j.children = Edges(src)
            /\ j.hosts = i.hosts /\ j.members = i.members
<1> DEFINE R == src.children
           Grown(s, k) == /\ Sound(k) /\ Told(k) /\ k.groups = i.groups
                          /\ k.hosts = i.hosts /\ k.members = i.members
                          /\ k.children = s \cup {<<"all", "ungrouped">>}
           T == [s \in SUBSET R |-> {k \in Inventories : Grown(s, k)}]
           body == [e \in GroupNames \X GroupNames |-> [k \in Inventories |-> AddChild(k, e[1], e[2])]]
           j == ForEach(R, body, i)
<1>1. IsFiniteSet(R) /\ i \in T[{}]
  BY SourceTypes DEF Sound
<1>2. ASSUME NEW s \in SUBSET R, NEW e \in R \ s, NEW k \in T[s]
      PROVE  body[e][k] \in T[s \cup {e}]
  <2>1. k \in Inventories /\ Grown(s, k)
    BY <1>2
  <2>2. /\ e \in GroupNames \X GroupNames /\ e = <<e[1], e[2]>>
        /\ e[1] \in There(src) /\ e[2] \in There(src) /\ e[2] # "all"
    BY SourceTypes
  <2> DEFINE l == AddChild(k, e[1], e[2])
  <2>3. body[e][k] = l
    BY <2>1, <2>2
  <2>4. e[1] \in k.groups /\ e[2] \in k.groups /\ e[1] \in GroupNames /\ e[2] \in GroupNames
    BY <2>1, <2>2
  <2>5. e[1] \notin Below(k.children, e[2])
    <3>1. k.children \subseteq Edges(src) /\ <<e[1], e[2]>> \in Edges(src)
      BY <1>2, <2>1, <2>2 DEF Edges
    <3>2. k.children \in AllEdges
      BY <2>1, Fields
    <3> QED
      BY <2>4, <3>1, <3>2, SourceMakesNoLoop
  <2>6. /\ Sound(l) /\ (Told(k) => Told(l)) /\ l.groups = k.groups
        /\ l.hosts = k.hosts /\ l.members = k.members
        /\ l.children = k.children \cup {<<e[1], e[2]>>}
    <3>1. Sound(k)
      BY <2>1
    <3> QED
      BY <2>2, <2>4, <2>5, <3>1, AddChildSound
  <2> HIDE DEF l, body
  <2>7. l.children = (s \cup {e}) \cup {<<"all", "ungrouped">>}
    BY <2>1, <2>2, <2>6
  <2>8. Grown(s \cup {e}, l) /\ l \in Inventories
    BY <2>1, <2>6, <2>7 DEF Sound
  <2> HIDE DEF Grown
  <2>9. l \in T[s \cup {e}]
    BY <2>8
  <2> QED
    BY <2>3, <2>9
<1> HIDE DEF T, body, R
<1>3. j \in T[R]
  BY <1>1, <1>2, ForEachInduction
<1> HIDE DEF j
<1>4. Grown(R, j)
  BY <1>3 DEF T
<1> QED
  BY <1>4 DEF j, body, R, Edges

LEMMA ParseSound ==
  ASSUME NEW src \in Sources
  PROVE  /\ Sound(Parse(src)) /\ Told(Parse(src)) /\ Based(Parse(src))
         /\ Parse(src).groups = There(src) /\ Parse(src).children = Edges(src)
         /\ Parse(src).hosts = {m[2] : m \in src.members}
         /\ \A g \in GroupNames : Parse(src).members[g] = {h \in HostNames : <<g, h>> \in src.members}
<1> DEFINE groups   == ForEach(src.groups,
                         [g \in GroupNames |-> [k \in Inventories |-> AddGroup(k, g)]], NewInventory)
           Hosts(i) == ForEach(src.members,
                         [m \in GroupNames \X HostNames |-> [k \in Inventories |->
                            AddHost(k, m[2], m[1])]], i)
           Kids(i)  == ForEach(src.children,
                         [e \in GroupNames \X GroupNames |-> [k \in Inventories |->
                            AddChild(k, e[1], e[2])]], i)
           Ready(i) == Sound(i) /\ Told(i) /\ i.groups = There(src)
           AllUngrouped == {<<"all", "ungrouped">>}
           Empty(i) == i.hosts = {} /\ \A g \in GroupNames : i.members[g] = {}
           Filled(i) == /\ i.hosts = {m[2] : m \in src.members}
                        /\ \A g \in GroupNames : i.members[g] = {h \in HostNames : <<g, h>> \in src.members}
<1>1. Ready(groups) /\ groups.children = AllUngrouped /\ Empty(groups)
  BY GroupsParsed
<1>2. ASSUME NEW i, Ready(i)
      PROVE  Ready(Hosts(i)) /\ Hosts(i).children = i.children /\ (Empty(i) => Filled(Hosts(i)))
  <2>1. /\ Ready(Hosts(i)) /\ Hosts(i).children = i.children
        /\ Hosts(i).hosts = i.hosts \cup {m[2] : m \in src.members}
        /\ \A g \in GroupNames :
             Hosts(i).members[g] = i.members[g] \cup {h \in HostNames : <<g, h>> \in src.members}
    BY <1>2, HostsParsed
  <2> HIDE DEF Hosts
  <2> QED
    BY <2>1
<1>3. ASSUME NEW i, Ready(i), i.children = AllUngrouped
      PROVE  /\ Ready(Kids(i)) /\ Kids(i).children = Edges(src)
             /\ (Empty(i) => Empty(Kids(i))) /\ (Filled(i) => Filled(Kids(i)))
  <2>1. /\ Ready(Kids(i)) /\ Kids(i).children = Edges(src)
        /\ Kids(i).hosts = i.hosts /\ Kids(i).members = i.members
    BY <1>3, KidsParsed
  <2> HIDE DEF Kids
  <2> QED
    BY <2>1
<1>4. Parse(src) = IF src.hostsFirst THEN Kids(Hosts(groups)) ELSE Hosts(Kids(groups))
  BY DEF Parse
<1> HIDE DEF groups, Hosts, Kids, Ready, Empty, Filled
<1>5. Ready(Parse(src)) /\ Parse(src).children = Edges(src) /\ Filled(Parse(src))
  BY <1>1, <1>2, <1>3, <1>4
<1> QED
  BY <1>5 DEF Ready, Filled, There, Edges, Based

LEMMA ParseMade ==
  ASSUME NEW src \in Sources
  PROVE  MadeOf(Parse(src), {OfSource(src)})
<1> DEFINE i == Parse(src)
<1>1. /\ Sound(i) /\ i.groups = There(src) /\ i.children = Edges(src)
      /\ i.hosts = {m[2] : m \in src.members}
      /\ \A g \in GroupNames : i.members[g] = {h \in HostNames : <<g, h>> \in src.members}
  BY ParseSound
<1> HIDE DEF i
<1>2. \A g \in UserGroups : g \in GroupNames
  BY DEF GroupNames
<1>3. \A g \in UserGroups : i.members[g] \subseteq UserHosts(i, g)
  BY <1>1, MembersAreBelow DEF Sound
<1>4. ASSUME NEW m \in src.members, m[1] \in UserGroups PROVE m[2] \in UserHosts(i, m[1])
  <2>1. m = <<m[1], m[2]>> /\ m[1] \in GroupNames /\ m[2] \in HostNames
    BY SourceTypes
  <2>2. m[2] \in i.members[m[1]]
    BY <1>1, <2>1
  <2> QED
    BY <1>3, <1>4, <2>2
<1> DEFINE r == OfSource(src)
<1>5. /\ r.groups = i.groups /\ r.hosts = i.hosts /\ r.edges = i.children /\ r.members = src.members
  BY <1>1 DEF OfSource, There
<1> HIDE DEF r
<1>6. \A g \in UserGroups : \A h \in i.members[g] : <<g, h>> \in r.members
  BY <1>1, <1>2, <1>5
<1>7. \A m \in r.members : m[1] \in UserGroups => m[2] \in UserHosts(i, m[1])
  BY <1>4, <1>5
<1>8. MadeOf(i, {r})
  BY <1>5, <1>6, <1>7 DEF MadeOf
<1> QED
  BY <1>8 DEF i, r

(* A reconciled inventory, and so every one between two tasks.             *)
Good(i) ==
  /\ Sound(i) /\ Based(i) /\ Rooted(i)
  /\ UngroupedApart => Told(i) /\ Apart(i) /\ Settled(i)

LEMMA ParseSourcesGood ==
  ASSUME NEW src \in Sources
  PROVE  /\ Good(ParseSources(src)) /\ ParseSources(src).dict = Unknown
         /\ MadeOf(ParseSources(src), {OfSource(src)})
<1> DEFINE i == Parse(src)
<1>1. Sound(i) /\ Told(i) /\ Based(i) /\ i.children = Edges(src)
  BY ParseSound
<1>2. UngroupedApart => Apart(i)
  BY <1>1 DEF UngroupedApart, Apart, Edges
<1>made. MadeOf(i, {OfSource(src)})
  BY ParseMade
<1> HIDE DEF i
<1> DEFINE j == ReconcileInventory(i)
<1>3. /\ Sound(j) /\ Based(j) /\ Rooted(j) /\ j.dict = Unknown /\ Grows(i, j, Nothing)
      /\ Told(i) /\ Apart(i) => Told(j) /\ Apart(j) /\ Settled(j)
  BY <1>1, ReconcileSound
<1> HIDE DEF j
<1>4. MadeOf(j, {OfSource(src)})
  BY <1>1, <1>made, <1>3, MadeKept DEF Sound
<1> QED
  BY <1>1, <1>2, <1>3, <1>4 DEF Good, ParseSources, i, j
-----------------------------------------------------------------------------
(* What tasks add.                                                         *)

LEMMA InfoTypes ==
  /\ \A info \in HostInfos : /\ info.host \in HostNames /\ info.groups \in SUBSET GroupNames
                             /\ info.vars \in BOOLEAN
  /\ \A info \in GroupInfos : /\ info.host \in HostNames /\ info.group \in GroupNames
                              /\ info.parents \in SUBSET GroupNames
BY InputsAssumption

LEMMA DynamicHostGood ==
  ASSUME NEW i, Good(i), NEW info \in HostInfos, NEW newVars \in BOOLEAN
  PROVE  LET j == DynamicHost(i, info, newVars)
         IN /\ Good(j)
            /\ j = i \/ j.dict = Unknown
            /\ newVars => j.dict = Unknown
            /\ Grows(i, j, OfHost(info))
<1> DEFINE h     == info.host
           there == IF h \in i.hosts THEN i ELSE AddHost(i, h, "all")
           G     == info.groups
           body  == [g \in GroupNames |-> [k \in Inventories |-> AddToGroup(AddGroup(k, g), g, info.host)]]
           joined == ForEach(G, body, there)
           Grown(s, k) == /\ Sound(k) /\ (Told(i) => Told(k)) /\ k.children = i.children
                          /\ k.groups = i.groups \cup s /\ k.hosts = i.hosts \cup {h}
                          /\ \A g \in UserGroups :
                               k.members[g] = i.members[g] \cup (IF g \in s THEN {h} ELSE {})
           T == [s \in SUBSET G |-> {k \in Inventories : Grown(s, k)}]
<1>1. /\ h \in HostNames /\ G \in SUBSET GroupNames /\ IsFiniteSet(G)
      /\ \A g \in UserGroups : g \in GroupNames /\ g # "all"
  BY InfoTypes, NamesFinite, NamesAssumption, FS_Subset DEF GroupNames
<1>2. Grown({}, there)
  <2>1. CASE h \in i.hosts
    BY <2>1 DEF Good
  <2>2. CASE h \notin i.hosts
    <3>1. Sound(i) /\ "all" \in i.groups /\ i \in Inventories
      BY DEF Good, Based, Sound
    <3> DEFINE a == AddHost(i, h, "all")
    <3>2. /\ Sound(a) /\ (Told(i) => Told(a))
          /\ a.groups = i.groups /\ a.hosts = i.hosts \cup {h} /\ a.children = i.children
          /\ a.members = [i.members EXCEPT !["all"] = @ \cup {h}]
      BY <1>1, <3>1, AddHostSound
    <3>3. there = a
      BY <2>2
    <3> HIDE DEF a, there
    <3>4. \A g \in UserGroups : a.members[g] = i.members[g]
      BY <1>1, <3>1, <3>2, Fields
    <3> QED
      BY <3>2, <3>3, <3>4
  <2> QED
    BY <2>1, <2>2
<1> HIDE DEF there, h
<1>3. there \in T[{}]
  BY <1>2 DEF Sound
<1>4. ASSUME NEW s \in SUBSET G, NEW g \in G \ s, NEW k \in T[s]
      PROVE  body[g][k] \in T[s \cup {g}]
  <2>1. k \in Inventories /\ Grown(s, k) /\ g \in GroupNames
    BY <1>1, <1>4
  <2> DEFINE a == AddGroup(k, g)
             l == AddToGroup(a, g, h)
  <2>2. body[g][k] = l
    BY <2>1 DEF h
  <2>3. /\ Sound(a) /\ (Told(a) <=> Told(k))
        /\ a.groups = k.groups \cup {g} /\ a.hosts = k.hosts /\ a.children = k.children
        /\ a.members = k.members
    BY <2>1, AddGroupSound
  <2> HIDE DEF a
  <2>4. g \in a.groups /\ h \in a.hosts
    BY <2>1, <2>3
  <2>5. /\ Sound(l) /\ Keeps(a, l) /\ (Told(a) => Told(l))
        /\ l.members = [k.members EXCEPT ![g] = @ \cup {h}]
    BY <2>3, <2>4, AddToGroupSound
  <2> HIDE DEF l, body
  <2>members. \A d \in UserGroups :
                l.members[d] = i.members[d] \cup (IF d \in s \cup {g} THEN {h} ELSE {})
    BY <1>1, <2>1, <2>5, Fields
  <2>6. Grown(s \cup {g}, l) /\ l \in Inventories
    BY <2>1, <2>3, <2>5, <2>members DEF Keeps, Sound
  <2> HIDE DEF Grown
  <2>7. l \in T[s \cup {g}]
    BY <2>6
  <2> QED
    BY <2>2, <2>7
<1> HIDE DEF T, body, G
<1>5. joined \in T[G]
  BY <1>1, <1>3, <1>4, ForEachInduction
<1> HIDE DEF joined
<1>6. Grown(G, joined) /\ joined \in Inventories
  BY <1>5 DEF T
<1>grows. Grows(i, joined, OfHost(info))
  <2>1. \A m \in G \X {h} : m[1] \in UserGroups => m[2] \in UserHosts(joined, m[1])
    <3>1. \A g \in UserGroups : g \in G => h \in UserHosts(joined, g)
      BY <1>6, MembersAreBelow
    <3> QED
      BY <3>1
  <2> DEFINE r == OfHost(info)
  <2>2. r.groups = G /\ r.hosts = {h} /\ r.edges = {} /\ r.members = G \X {h}
    BY DEF OfHost, G, h
  <2> HIDE DEF r
  <2>3. \A g \in UserGroups : /\ i.members[g] \subseteq joined.members[g]
                             /\ \A x \in joined.members[g] : x \in i.members[g] \/ <<g, x>> \in r.members
    BY <1>6, <2>2
  <2>4. Grows(i, joined, r)
    BY <1>6, <2>1, <2>2, <2>3 DEF Grows
  <2> QED
    BY <2>4 DEF r
<1>7. DynamicHost(i, info, newVars) =
        IF joined # i \/ newVars THEN ReconcileInventory(joined) ELSE joined
  BY DEF DynamicHost, joined, body, there, h, G
<1>8. CASE joined # i \/ newVars
  <2>1. Sound(joined) /\ Based(joined)
    BY <1>6 DEF Good, Based
  <2> DEFINE j == ReconcileInventory(joined)
  <2>2. /\ Sound(j) /\ Based(j) /\ Rooted(j) /\ j.dict = Unknown /\ Grows(joined, j, Nothing)
        /\ Told(joined) /\ Apart(joined) => Told(j) /\ Apart(j) /\ Settled(j)
    BY <2>1, ReconcileSound
  <2>3. UngroupedApart => Told(joined) /\ Apart(joined)
    BY <1>6 DEF Good, Apart
  <2> HIDE DEF j
  <2>4. Grows(i, j, OfHost(info))
    BY <1>6, <1>grows, <2>2, GrowsOn DEF Sound
  <2>5. Good(j)
    BY <2>2, <2>3 DEF Good
  <2> QED
    BY <1>7, <1>8, <2>2, <2>4, <2>5 DEF j
<1>9. CASE ~(joined # i \/ newVars)
  BY <1>7, <1>9, <1>grows
<1> QED
  BY <1>8, <1>9

LEMMA HostsSeenSound ==
  ASSUME NEW i, Sound(i), NEW gs
  PROVE  LET j == HostsSeen(i, gs)
         IN /\ Sound(j) /\ Keeps(i, j) /\ (Told(j) <=> Told(i))
            /\ j.members = i.members /\ j.groupsOf = i.groupsOf /\ j.dict = i.dict
            /\ \A d \in GroupNames : HostsOf(j, d) = HostsOf(i, d)
<1> DEFINE j == HostsSeen(i, gs)
<1>1. i \in Inventories /\ i.seen \in [GroupNames -> {Unknown} \cup SUBSET HostNames]
  BY Fields DEF Sound
<1>2. \A g \in GroupNames : GetHosts(i, g) = HostsOf(i, g) /\ HostsOf(i, g) \in SUBSET HostNames
  BY <1>1, HostsFound, HostsOfType DEF Sound, SeenOK
<1> DEFINE seen == [g \in GroupNames |-> IF g \in gs THEN HostsOf(i, g) ELSE i.seen[g]]
<1>3. j = [i EXCEPT !.seen = seen]
  BY <1>2 DEF HostsSeen
<1>4. seen \in [GroupNames -> {Unknown} \cup SUBSET HostNames]
  BY <1>1, <1>2
<1> HIDE DEF j, seen
<1>5. /\ j \in Inventories /\ Keeps(i, j) /\ j.seen = seen
      /\ j.members = i.members /\ j.groupsOf = i.groupsOf /\ j.dict = i.dict
  BY <1>1, <1>3, <1>4 DEF Inventories, Keeps
<1>6. \A d \in GroupNames : HostsOf(j, d) = HostsOf(i, d)
  BY <1>5, SameHosts DEF Keeps
<1>7. Linked(j) /\ Deeper(j) /\ Measured(j) /\ (Told(j) <=> Told(i))
  BY <1>5, <1>6 DEF Sound, Linked, Deeper, Measured, Keeps, Told
<1>8. SeenOK(j)
  BY <1>5, <1>6 DEF Sound, SeenOK, seen
<1> QED
  BY <1>5, <1>6, <1>7, <1>8 DEF Sound, j

(* The parents and the group of a group_by are there.                      *)
LEMMA WithGroupsSound ==
  ASSUME NEW i, Sound(i), NEW info \in GroupInfos
  PROVE  LET j == WithGroups(i, info)
         IN /\ Sound(j) /\ (Told(j) <=> Told(i))
            /\ j.hosts = i.hosts /\ j.children = i.children /\ j.members = i.members
            /\ j.groups = i.groups \cup {info.group} \cup info.parents
<1> DEFINE R == info.parents
           a == AddGroup(i, info.group)
           Grown(s, k) == /\ Sound(k) /\ (Told(k) <=> Told(i))
                          /\ k.hosts = i.hosts /\ k.children = i.children /\ k.members = i.members
                          /\ k.groups = i.groups \cup {info.group} \cup s
           T == [s \in SUBSET R |-> {k \in Inventories : Grown(s, k)}]
           body == [p \in GroupNames |-> [k \in Inventories |-> AddGroup(k, p)]]
           j == ForEach(R, body, a)
<1>1. info.group \in GroupNames /\ R \in SUBSET GroupNames /\ IsFiniteSet(R)
  BY InfoTypes, NamesFinite, FS_Subset
<1>2. Grown({}, a)
  BY <1>1, AddGroupSound
<1> HIDE DEF a
<1>3. a \in T[{}]
  BY <1>2 DEF Sound
<1>4. ASSUME NEW s \in SUBSET R, NEW p \in R \ s, NEW k \in T[s]
      PROVE  body[p][k] \in T[s \cup {p}]
  <2>1. k \in Inventories /\ Grown(s, k) /\ p \in GroupNames
    BY <1>1, <1>4
  <2> DEFINE l == AddGroup(k, p)
  <2>2. body[p][k] = l
    BY <2>1
  <2>3. /\ Sound(l) /\ (Told(l) <=> Told(k))
        /\ l.groups = k.groups \cup {p} /\ l.hosts = k.hosts /\ l.children = k.children
        /\ l.members = k.members
    BY <2>1, AddGroupSound
  <2> HIDE DEF l, body
  <2>4. Grown(s \cup {p}, l) /\ l \in Inventories
    BY <2>1, <2>3 DEF Sound
  <2> HIDE DEF Grown
  <2>5. l \in T[s \cup {p}]
    BY <2>4
  <2> QED
    BY <2>2, <2>5
<1> HIDE DEF T, body, R
<1>5. j \in T[R]
  BY <1>1, <1>3, <1>4, ForEachInduction
<1> HIDE DEF j
<1>6. Grown(R, j)
  BY <1>5 DEF T
<1>7. WithGroups(i, info) = j
  BY DEF WithGroups, j, body, a, R
<1> QED
  BY <1>6, <1>7 DEF R

(* The group of a group_by goes under its parents.                         *)
LEMMA ParentsLinked ==
  ASSUME NEW i, Sound(i), NEW info \in GroupInfos, ~MakesLoop(i, info)
  PROVE  LET w == WithGroups(i, info)
             j == ForEach(info.parents,
                    [p \in GroupNames |-> [k \in Inventories |-> AddChildGroup(k, p, info.group)]], w)
         IN /\ Sound(j) /\ (Told(i) => Told(j))
            /\ j.hosts = i.hosts /\ j.groups = w.groups /\ j.members = i.members
            /\ j.children = i.children \cup {<<p, info.group>> : p \in info.parents}
<1> DEFINE R == info.parents
           g == info.group
           w == WithGroups(i, info)
           E == i.children
           New(s) == {<<p, g>> : p \in s}
           Grown(s, k) == /\ Sound(k) /\ (Told(i) => Told(k))
                          /\ k.hosts = i.hosts /\ k.groups = w.groups /\ k.members = i.members
                          /\ k.children = E \cup New(s)
                          /\ Below(k.children, g) = Below(E, g)
           T == [s \in SUBSET R |-> {k \in Inventories : Grown(s, k)}]
           body == [p \in GroupNames |-> [k \in Inventories |-> AddChildGroup(k, p, info.group)]]
           j == ForEach(R, body, w)
<1>1. g \in GroupNames /\ R \in SUBSET GroupNames /\ IsFiniteSet(R)
  BY InfoTypes, NamesFinite, FS_Subset
<1>2. /\ Sound(w) /\ (Told(w) <=> Told(i)) /\ w.hosts = i.hosts /\ w.children = E
      /\ w.members = i.members
      /\ g \in w.groups /\ R \subseteq w.groups
  BY WithGroupsSound
<1>3. \A p \in R : g # "all" /\ ~AddsLoop(w, p, g)
  BY DEF MakesLoop
<1> HIDE DEF w
<1>4. \A p \in R : p \notin Below(E, g)
  <2>1. w \in Inventories /\ NoLoops(w.children)
    BY <1>2, DeeperNoLoops DEF Sound
  <2> QED
    BY <1>1, <1>2, <1>3, <2>1, LoopIsBelow
<1>5. w \in T[{}]
  BY <1>2 DEF Sound
<1>6. ASSUME NEW s \in SUBSET R, NEW p \in R \ s, NEW k \in T[s]
      PROVE  body[p][k] \in T[s \cup {p}]
  <2>1. k \in Inventories /\ Grown(s, k) /\ p \in GroupNames
    BY <1>1, <1>6
  <2> DEFINE l == AddChildGroup(k, p, g)
  <2>2. body[p][k] = l
    BY <2>1
  <2>3. p \in k.groups /\ g \in k.groups /\ g # "all" /\ p \notin Below(k.children, g) /\ Sound(k)
    BY <1>2, <1>3, <1>4, <2>1
  <2>4. /\ Sound(l) /\ (Told(k) => Told(l))
        /\ l.groups = k.groups /\ l.hosts = k.hosts /\ l.children = k.children \cup {<<p, g>>}
        /\ l.members = k.members
    BY <2>3, AddChildGroupSound
  <2>5. Below(k.children \cup {<<p, g>>}, g) = Below(k.children, g)
    <3>1. k.children \in AllEdges
      BY <2>1, Fields
    <3> HIDE DEF T, g, Grown
    <3>2. Below(k.children \cup {<<p, g>>}, g) =
            Below(k.children, g) \cup (IF p \in Below(k.children, g) THEN Below(k.children, g) ELSE {})
      BY <1>1, <2>1, <3>1, BelowWithEdge
    <3> QED
      BY <2>3, <3>2
  <2>6. New(s \cup {p}) = New(s) \cup {<<p, g>>}
    OBVIOUS
  <2> HIDE DEF l, body, New
  <2>7. Grown(s \cup {p}, l) /\ l \in Inventories
    BY <2>1, <2>4, <2>5, <2>6 DEF Sound
  <2> HIDE DEF Grown
  <2>8. l \in T[s \cup {p}]
    BY <2>7
  <2> QED
    BY <2>2, <2>8
<1> HIDE DEF T, body, R, g
<1>7. j \in T[R]
  BY <1>1, <1>5, <1>6, ForEachInduction
<1> HIDE DEF j
<1>8. Grown(R, j)
  BY <1>7 DEF T
<1> QED
  BY <1>8 DEF j, body, w, R, g

(* Below a group of the user there are only such groups.                   *)
LEMMA UserHostsFound ==
  ASSUME NEW i, Sound(i), Apart(i), NEW g \in UserGroups
  PROVE  Below(i.children, g) \subseteq UserGroups /\ UserHosts(i, g) = HostsOf(i, g)
<1>1. /\ i \in Inventories /\ i.children \in AllEdges
      /\ g \in GroupNames /\ g # "all" /\ g # "ungrouped"
  BY Fields, NamesAssumption DEF Sound, GroupNames
<1>2. "all" \notin Below(i.children, g)
  BY <1>1, AllIsTop
<1>3. ASSUME "ungrouped" \in Below(i.children, g) PROVE FALSE
  <2>1. PICK p \in Below(i.children, g) : <<p, "ungrouped">> \in i.children
    BY <1>1, <1>3, BelowLastStep
  <2> QED
    BY <1>2, <2>1 DEF Apart
<1>4. Below(i.children, g) \subseteq UserGroups
  BY <1>1, <1>2, <1>3, BelowBasics DEF GroupNames
<1> QED
  BY <1>4 DEF UserHosts, HostsOf

(* The inventory of a group_by result, before it is reconciled.            *)
LEMMA GroupedSound ==
  ASSUME NEW i, Good(i), NEW info \in GroupInfos, ~MakesLoop(i, info), info.host \in i.hosts
  PROVE  LET j == Grouped(i, info)
         IN /\ Sound(j) /\ Based(j)
            /\ UngroupedApart => Told(j) /\ Apart(j) /\ Grows(i, j, OfGrouping(info))
<1> DEFINE g == info.group
           h == info.host
           w == WithGroups(i, info)
           linked == ForEach(info.parents,
                       [p \in GroupNames |-> [k \in Inventories |-> AddChildGroup(k, p, info.group)]], w)
           asked  == HostsSeen(linked, {g})
           added  == AddToGroup(asked, g, h)
           joined == IF h \in GetHosts(linked, g) THEN asked ELSE added
           told   == JoinGroup(joined, h, g)
<1>1. g \in GroupNames /\ h \in HostNames /\ Sound(i) /\ Based(i)
  BY InfoTypes DEF Good
<1>2. w.groups = i.groups \cup {g} \cup info.parents
  BY <1>1, WithGroupsSound
<1>3. /\ Sound(linked) /\ (Told(i) => Told(linked))
      /\ linked.hosts = i.hosts /\ linked.groups = w.groups /\ linked.members = i.members
      /\ linked.children = i.children \cup {<<p, g>> : p \in info.parents}
  BY <1>1, ParentsLinked
<1>4. Based(linked) /\ g \in linked.groups /\ h \in linked.hosts
  BY <1>1, <1>2, <1>3 DEF Based
<1>5. UngroupedApart => Told(linked) /\ Apart(linked)
  <2>1. UngroupedApart => Told(i) /\ Apart(i)
    BY DEF Good
  <2>2. ASSUME UngroupedApart, Apart(i) PROVE Apart(linked)
    BY <1>3, <2>2 DEF Apart, UngroupedApart
  <2> QED
    BY <1>3, <2>1, <2>2
<1>6. Grouped(i, info) = IF g \in joined.groupsOf[h] THEN joined ELSE told
  BY DEF Grouped
<1> HIDE DEF linked, w, g, h
<1>7. /\ Sound(asked) /\ Keeps(linked, asked) /\ (Told(asked) <=> Told(linked))
      /\ asked.members = linked.members
      /\ \A d \in GroupNames : HostsOf(asked, d) = HostsOf(linked, d)
  BY <1>3, HostsSeenSound
<1>8. GetHosts(linked, g) = HostsOf(linked, g)
  BY <1>1, <1>3, HostsFound DEF Sound, SeenOK
<1> HIDE DEF asked
<1>9. g \in asked.groups /\ h \in asked.hosts
  BY <1>4, <1>7 DEF Keeps
<1>10. /\ Sound(added) /\ Keeps(asked, added) /\ (Told(asked) => Told(added))
       /\ added.members = [asked.members EXCEPT ![g] = @ \cup {h}]
  BY <1>7, <1>9, AddToGroupSound
<1> HIDE DEF added
<1>11. h \in HostsOf(added, g)
  <2>1. added \in Inventories /\ asked \in Inventories
    BY <1>7, <1>10 DEF Sound
  <2>2. asked.members \in [GroupNames -> SUBSET HostNames] /\ added.children \in AllEdges
    BY <2>1, Fields
  <2>3. h \in added.members[g]
    BY <1>1, <1>10, <2>2
  <2>4. g \in Below(added.children, g)
    BY <1>1, <2>2, BelowBasics
  <2> QED
    BY <2>3, <2>4 DEF HostsOf
<1>12. /\ Sound(joined) /\ Keeps(linked, joined) /\ (Told(linked) => Told(joined))
       /\ h \in HostsOf(joined, g)
       /\ joined.members = i.members \/ joined.members = [i.members EXCEPT ![g] = @ \cup {h}]
  BY <1>1, <1>3, <1>7, <1>8, <1>10, <1>11 DEF Keeps
<1> HIDE DEF joined
<1>13. Sound(told) /\ Keeps(joined, told) /\ told.members = joined.members
  BY <1>1, <1>12, JoinGroupSound
<1>14. Told(joined) => g \in joined.groupsOf[h]
  BY <1>1, <1>12 DEF Told
<1> HIDE DEF told
<1>grows. ASSUME UngroupedApart PROVE Grows(i, joined, OfGrouping(info))
  <2>1. Apart(joined) /\ joined \in Inventories /\ i \in Inventories
    BY <1>1, <1>5, <1>12, <1>grows DEF Apart, Keeps, Sound
  <2>2. g \in UserGroups => h \in UserHosts(joined, g)
    BY <1>12, <2>1, UserHostsFound
  <2>3. /\ joined.groups = i.groups \cup (info.parents \cup {g}) /\ joined.hosts = i.hosts
        /\ joined.children = i.children \cup {<<p, g>> : p \in info.parents}
    BY <1>2, <1>3, <1>12 DEF Keeps
  <2>4. \A d \in UserGroups : /\ i.members[d] \subseteq joined.members[d]
                             /\ \A x \in joined.members[d] : x \in i.members[d] \/ (d = g /\ x = h)
    <3>1. i.members \in [GroupNames -> SUBSET HostNames] /\ \A d \in UserGroups : d \in GroupNames
      BY <2>1, Fields DEF GroupNames
    <3> QED
      BY <1>1, <1>12, <3>1
  <2> DEFINE r == OfGrouping(info)
  <2>5. /\ r.groups = info.parents \cup {g} /\ r.hosts = {}
        /\ r.edges = {<<p, g>> : p \in info.parents} /\ r.members = {<<g, h>>}
    BY DEF OfGrouping, g, h
  <2> HIDE DEF r
  <2>6. Grows(i, joined, r)
    BY <2>2, <2>3, <2>4, <2>5 DEF Grows
  <2> QED
    BY <2>6 DEF r
<1>15. CASE g \in joined.groupsOf[h]
  BY <1>4, <1>5, <1>6, <1>12, <1>15, <1>grows DEF Based, Apart, Keeps
<1>16. CASE g \notin joined.groupsOf[h]
  BY <1>4, <1>5, <1>6, <1>12, <1>13, <1>14, <1>16, <1>grows DEF Based, Keeps
<1> QED
  BY <1>15, <1>16

(* Nothing but caches differs.                                             *)
SameGraph(i, j) ==
  /\ j.groups = i.groups /\ j.hosts = i.hosts /\ j.children = i.children
  /\ j.members = i.members /\ j.groupsOf = i.groupsOf /\ j.depth = i.depth

LEMMA SameGraphGood ==
  ASSUME NEW i, Good(i), NEW j, Sound(j), SameGraph(i, j)
  PROVE  Good(j) /\ \A d \in GroupNames : HostsOf(j, d) = HostsOf(i, d)
<1>1. \A d \in GroupNames : HostsOf(j, d) = HostsOf(i, d)
  BY SameHosts DEF SameGraph
<1>2. Based(j) /\ Rooted(j) /\ (Apart(i) => Apart(j))
  BY DEF SameGraph, Good, Based, Rooted, Apart
<1>3. Told(i) => Told(j)
  BY <1>1 DEF SameGraph, Told
<1>4. Settled(i) => Settled(j)
  <2>1. \A g \in UserGroups : g \in GroupNames
    BY DEF GroupNames
  <2> QED
    BY <1>1, <2>1, NamesFinite DEF SameGraph, Settled
<1> QED
  BY <1>1, <1>2, <1>3, <1>4 DEF Good

LEMMA DynamicGroupGood ==
  ASSUME NEW i, Good(i), NEW info \in GroupInfos, ~MakesLoop(i, info), info.host \in i.hosts
  PROVE  LET j == DynamicGroup(i, info)
         IN /\ Good(j)
            /\ GroupingChanges(i, info) => j.dict = Unknown
            /\ ~GroupingChanges(i, info) => SameGraph(i, j) /\ j.dict = i.dict
            /\ UngroupedApart => Grows(i, j, OfGrouping(info))
<1> DEFINE k == Grouped(i, info)
<1>1. /\ Sound(k) /\ Based(k)
      /\ UngroupedApart => Told(k) /\ Apart(k) /\ Grows(i, k, OfGrouping(info))
  BY GroupedSound
<1>2. DynamicGroup(i, info) = IF GroupingChanges(i, info) THEN ReconcileInventory(k) ELSE k
  BY DEF DynamicGroup
<1>3. GroupingChanges(i, info) <=> [k EXCEPT !.seen = i.seen] # i
  BY DEF GroupingChanges
<1> HIDE DEF k
<1>4. CASE GroupingChanges(i, info)
  <2> DEFINE j == ReconcileInventory(k)
  <2>1. /\ Sound(j) /\ Based(j) /\ Rooted(j) /\ j.dict = Unknown /\ Grows(k, j, Nothing)
        /\ Told(k) /\ Apart(k) => Told(j) /\ Apart(j) /\ Settled(j)
    BY <1>1, ReconcileSound
  <2> HIDE DEF j
  <2>2. UngroupedApart => Grows(i, j, OfGrouping(info))
    BY <1>1, <2>1, GrowsOn DEF Sound
  <2>3. Good(j)
    BY <1>1, <2>1 DEF Good
  <2> QED
    BY <1>2, <1>4, <2>1, <2>2, <2>3 DEF j
<1>5. CASE ~GroupingChanges(i, info)
  <2>1. [k EXCEPT !.seen = i.seen] = i /\ k \in Inventories
    BY <1>1, <1>3, <1>5 DEF Sound
  <2>2. SameGraph(i, k) /\ k.dict = i.dict
    BY <2>1 DEF Inventories, SameGraph
  <2>3. Good(k)
    BY <1>1, <2>2, SameGraphGood
  <2> QED
    BY <1>1, <1>2, <1>5, <2>2, <2>3
<1> QED
  BY <1>4, <1>5

(* What the sources did not know is put in again: all the hosts, ...       *)
LEMMA HostsReplayed ==
  ASSUME LogsOK, NEW i, Good(i), i.dict = Unknown, NEW rs, MadeOf(i, rs)
  PROVE  LET j == ReplayHosts(i)
         IN /\ Good(j) /\ j.dict = Unknown
            /\ MadeOf(j, rs \cup {OfHost(info) : info \in ToSet(cached_dynamic_hosts)})
<1> DEFINE seq == cached_dynamic_hosts
           body == [info \in HostInfos |-> [j \in Inventories |-> DynamicHost(j, info, info.vars)]]
           Asked(s) == rs \cup {OfHost(seq[n]) : n \in s}
           Grown(s, k) == Good(k) /\ k.dict = Unknown /\ MadeOf(k, Asked(s))
           T == [s \in SUBSET DOMAIN seq |-> {k \in Inventories : Grown(s, k)}]
<1>1. seq \in Seq(HostInfos)
  BY DEF LogsOK
<1>2. i \in T[{}]
  <2>1. Asked({}) = rs
    OBVIOUS
  <2> QED
    BY <2>1 DEF Good, Sound
<1>3. ASSUME NEW s \in SUBSET DOMAIN seq, NEW n \in DOMAIN seq \ s, NEW k \in T[s]
      PROVE  body[seq[n]][k] \in T[s \cup {n}]
  <2>1. PICK info \in HostInfos : info = seq[n]
    BY <1>1
  <2>2. info.vars \in BOOLEAN /\ Good(k) /\ k.dict = Unknown /\ MadeOf(k, Asked(s)) /\ k \in Inventories
    BY InfoTypes
  <2> DEFINE l == DynamicHost(k, info, info.vars)
  <2>3. body[seq[n]][k] = l
    BY <2>1
  <2>4. Good(l) /\ (l = k \/ l.dict = Unknown) /\ Grows(k, l, OfHost(info))
    BY <2>2, DynamicHostGood
  <2>5. Asked(s \cup {n}) = Asked(s) \cup {OfHost(info)}
    BY <2>1
  <2> HIDE DEF l, body, Asked
  <2>6. l \in Inventories
    BY <2>4 DEF Good, Sound
  <2>7. MadeOf(l, Asked(s \cup {n}))
    BY <2>2, <2>4, <2>5, <2>6, MadeGrows
  <2>8. Grown(s \cup {n}, l) /\ s \cup {n} \in SUBSET DOMAIN seq
    BY <2>2, <2>4, <2>7
  <2> HIDE DEF Grown
  <2> QED
    BY <2>3, <2>6, <2>8
<1> HIDE DEF T, body
<1>4. InOrder(seq, body, i) \in T[DOMAIN seq]
  BY <1>1, <1>2, <1>3, InOrderInduction
<1>5. Grown(DOMAIN seq, InOrder(seq, body, i))
  BY <1>4 DEF T
<1>6. Asked(DOMAIN seq) = rs \cup {OfHost(info) : info \in ToSet(seq)}
  BY DEF ToSet
<1> HIDE DEF Asked
<1> QED
  BY <1>5, <1>6 DEF ReplayHosts, body

(* ... and the groups of those hosts that are there.                       *)
Present(i, infos) == {info \in infos : info.host \in i.hosts}

LEMMA GroupsReplayed ==
  ASSUME LogsOK, NEW i, Good(i), i.dict = Unknown, NEW rs, MadeOf(i, rs)
  PROVE  LET j == ReplayGroups(i)
             infos == Present(i, ToSet(cached_dynamic_grouping))
         IN j # Unknown =>
              /\ Good(j) /\ j.dict = Unknown
              /\ UngroupedApart =>
                   j.hosts = i.hosts /\ MadeOf(j, rs \cup {OfGrouping(info) : info \in infos})
<1> DEFINE seq == cached_dynamic_grouping
           body == [info \in GroupInfos |-> [j \in Inventories \cup {Unknown} |->
                      IF j = Unknown \/ info.host \notin j.hosts THEN j
                      ELSE IF MakesLoop(j, info) THEN Unknown ELSE DynamicGroup(j, info)]]
           Asked(s) == rs \cup {OfGrouping(seq[n]) : n \in {n \in s : seq[n].host \in i.hosts}}
           Grown(s, k) == /\ Good(k) /\ k.dict = Unknown
                          /\ UngroupedApart => k.hosts = i.hosts /\ MadeOf(k, Asked(s))
           T == [s \in SUBSET DOMAIN seq |-> {k \in Inventories : Grown(s, k)} \cup {Unknown}]
<1>1. seq \in Seq(GroupInfos)
  BY DEF LogsOK
<1>2. i \in T[{}]
  <2>1. Asked({}) = rs
    OBVIOUS
  <2> QED
    BY <2>1 DEF Good, Sound
<1>3. ASSUME NEW s \in SUBSET DOMAIN seq, NEW n \in DOMAIN seq \ s, NEW k \in T[s]
      PROVE  body[seq[n]][k] \in T[s \cup {n}]
  <2>1. PICK info \in GroupInfos : info = seq[n]
    BY <1>1
  <2> DEFINE d == DynamicGroup(k, info)
             l == IF k = Unknown \/ info.host \notin k.hosts THEN k
                  ELSE IF MakesLoop(k, info) THEN Unknown ELSE d
             s2 == s \cup {n}
  <2>2. body[seq[n]][k] = l
    BY <2>1
  <2>3. s2 \in SUBSET DOMAIN seq
    OBVIOUS
  <2>4. info.host \notin i.hosts => Asked(s2) = Asked(s)
    BY <2>1
  <2>5. info.host \in i.hosts => Asked(s2) = Asked(s) \cup {OfGrouping(info)}
    BY <2>1
  <2>6. k \in T[s] <=> k = Unknown \/ (k \in Inventories /\ Grown(s, k))
    OBVIOUS
  <2>7. l \in T[s2] <=> l = Unknown \/ (l \in Inventories /\ Grown(s2, l))
    BY <2>3
  <2> HIDE DEF body, T, Asked, d, s2
  <2>8. ASSUME k # Unknown, info.host \notin k.hosts
        PROVE  k \in Inventories /\ Grown(s2, k)
    BY <1>3, <2>4, <2>6, <2>8
  <2>9. ASSUME k # Unknown, info.host \in k.hosts, ~MakesLoop(k, info)
        PROVE  d \in Inventories /\ Grown(s2, d)
    <3>1. /\ Good(k) /\ k.dict = Unknown /\ k \in Inventories
          /\ UngroupedApart => k.hosts = i.hosts /\ MadeOf(k, Asked(s))
      BY <1>3, <2>6, <2>9
    <3>2. Good(d) /\ d.dict = Unknown /\ (UngroupedApart => Grows(k, d, OfGrouping(info)))
      BY <2>9, <3>1, DynamicGroupGood DEF d
    <3>3. d \in Inventories
      BY <3>2 DEF Good, Sound
    <3>4. ASSUME UngroupedApart PROVE d.hosts = i.hosts /\ MadeOf(d, Asked(s2))
      <4>1. MadeOf(d, Asked(s) \cup {OfGrouping(info)})
        BY <3>1, <3>2, <3>3, <3>4, MadeGrows
      <4>2. d.hosts = k.hosts
        BY <3>2, <3>4 DEF Grows, OfGrouping
      <4> QED
        BY <2>5, <2>9, <3>1, <3>4, <4>1, <4>2
    <3> QED
      BY <3>2, <3>3, <3>4
  <2> HIDE DEF Grown
  <2>10. l = Unknown \/ (l \in Inventories /\ Grown(s2, l))
    BY <2>8, <2>9
  <2> HIDE DEF l
  <2> QED
    BY <2>2, <2>7, <2>10 DEF s2
<1> DEFINE j == InOrder(seq, body, i)
           infos == Present(i, ToSet(seq))
<1> HIDE DEF T, body
<1>4. j \in T[DOMAIN seq]
  BY <1>1, <1>2, <1>3, InOrderInduction
<1>5. j # Unknown => Grown(DOMAIN seq, j)
  BY <1>4 DEF T
<1>6. Asked(DOMAIN seq) = rs \cup {OfGrouping(info) : info \in infos}
  BY DEF ToSet, Present
<1>7. ReplayGroups(i) = j
  BY DEF ReplayGroups, body
<1> HIDE DEF Asked, j, infos
<1> QED
  BY <1>5, <1>6, <1>7 DEF infos

LEMMA GroupsDictGood ==
  ASSUME NEW i, Good(i), i.dict # Unknown => \A g \in i.groups : i.dict[g] = HostsOf(i, g)
  PROVE  LET j == WithGroupsDict(i)
         IN /\ Good(j) /\ SameGraph(i, j)
            /\ j.dict # Unknown => \A g \in j.groups : j.dict[g] = HostsOf(j, g)
<1> DEFINE j == WithGroupsDict(i)
           a == HostsSeen(i, i.groups)
           dict == [g \in GroupNames |-> IF g \in i.groups THEN GetHosts(i, g) ELSE {}]
<1>1. CASE i.dict # Unknown
  <2>1. j = i
    BY <1>1 DEF WithGroupsDict
  <2> HIDE DEF j
  <2> QED
    BY <1>1, <2>1 DEF j, SameGraph
<1>2. CASE i.dict = Unknown
  <2>1. j = [a EXCEPT !.dict = dict]
    BY <1>2 DEF WithGroupsDict
  <2>2. /\ Sound(a) /\ Keeps(i, a) /\ a.members = i.members /\ a.groupsOf = i.groupsOf
        /\ \A d \in GroupNames : HostsOf(a, d) = HostsOf(i, d)
    BY HostsSeenSound DEF Good
  <2>3. \A g \in GroupNames : GetHosts(i, g) = HostsOf(i, g) /\ HostsOf(i, g) \in SUBSET HostNames
    BY HostsFound, HostsOfType DEF Good, Sound, SeenOK
  <2>4. dict \in [GroupNames -> SUBSET HostNames]
    BY <2>3
  <2>5. \A g \in i.groups : dict[g] = HostsOf(i, g)
    BY <2>3, Fields DEF Good, Sound
  <2> HIDE DEF j, a, dict
  <2>6. j \in Inventories
    BY <2>1, <2>2, <2>4 DEF Sound, Inventories
  <2>7. Keeps(a, j) /\ j.members = a.members /\ j.groupsOf = a.groupsOf /\ j.seen = a.seen /\ j.dict = dict
    BY <2>1, <2>2 DEF Sound, Inventories, Keeps
  <2>8. \A d \in GroupNames : HostsOf(j, d) = HostsOf(a, d)
    BY <2>7, SameHosts DEF Keeps
  <2>9. Sound(j)
    BY <2>2, <2>6, <2>7, <2>8 DEF Sound, Linked, Deeper, Measured, SeenOK, Keeps
  <2>10. SameGraph(i, j)
    BY <2>2, <2>7 DEF Keeps, SameGraph
  <2>11. Good(j)
    BY <2>9, <2>10, SameGraphGood
  <2>12. \A g \in j.groups : j.dict[g] = HostsOf(j, g)
    BY <2>2, <2>5, <2>7, <2>8, <2>10, Fields DEF Good, Sound, SameGraph
  <2> QED
    BY <2>10, <2>11, <2>12 DEF j
<1> QED
  BY <1>1, <1>2
-----------------------------------------------------------------------------
(* Patterns.                                                               *)

Part == [op : {"", "&", "!"}, name : Names]

LEMMA PatternParts ==
  ASSUME NEW pattern \in Patterns \cup Limits
  PROVE  Parts(pattern) \in SUBSET Part
<1>1. PartsOf(pattern) \in SUBSET Part
  BY PatternsAssumption DEF Part
<1>2. Plain("all") \in Part
  BY NamesFinite DEF Plain, Part, Names
<1> QED
  BY <1>1, <1>2 DEF Parts

LEMMA HostsAreThere ==
  ASSUME NEW i, Sound(i), NEW g \in GroupNames
  PROVE  HostsOf(i, g) \subseteq i.hosts
<1>1. \A d \in GroupNames : i.members[d] \in SUBSET i.hosts
  BY DEF Sound, Linked
<1>2. Below(i.children, g) \in SUBSET GroupNames
  BY Fields, BelowBasics DEF Sound
<1> QED
  BY <1>1, <1>2 DEF HostsOf

LEMMA NamedType ==
  ASSUME NEW i, Sound(i), NEW n \in Names
  PROVE  Named(i, n) \in SUBSET i.hosts /\ Named(i, n) \in SUBSET HostNames
<1>1. i \in Inventories /\ i.groups \in SUBSET GroupNames /\ i.hosts \in SUBSET HostNames
      /\ i.children \in AllEdges
  BY Fields DEF Sound
<1>2. \A g \in GroupNames : HostsOf(i, g) \in SUBSET i.hosts
  BY HostsAreThere
<1> QED
  BY <1>1, <1>2 DEF Named

(* A group that is not there has no hosts.                                 *)
LEMMA NoGroupNoHosts ==
  ASSUME NEW i, Sound(i), NEW g \in GroupNames, g \notin i.groups
  PROVE  HostsOf(i, g) = {}
<1>1. i.children \in AllEdges /\ \A e \in i.children : e[1] \in i.groups
  BY Fields DEF Sound, Linked
<1>2. Below(i.children, g) \subseteq {g}
  <2>1. \A c \in GroupNames : <<g, c>> \notin i.children
    BY <1>1
  <2> QED
    BY <1>1, <2>1, BelowFirstStep
<1>3. i.members[g] = {}
  BY DEF Sound, Linked
<1> QED
  BY <1>2, <1>3 DEF HostsOf

(* What is not cached is looked up to the same.                            *)
LEMMA Enumerated ==
  ASSUME Sound(inv), NEW n \in Names
  PROVE  EnumerateMatches(n) = Named(inv, n)
<1>1. inv \in Inventories /\ inv.groups \in SUBSET GroupNames
  BY Fields DEF Sound
<1>2. \A g \in GroupNames : GetHosts(inv, g) = HostsOf(inv, g)
  BY <1>1, HostsFound DEF Sound, SeenOK
<1> QED
  BY <1>1, <1>2 DEF EnumerateMatches, Named

LEMMA OneMatched ==
  ASSUME Sound(inv), PatternsOK, NEW p \in Part
  PROVE  /\ MatchOne(p) \in SUBSET HostNames
         /\ NamesApart => MatchOne(p) = Named(inv, p.name)
<1>1. p.name \in Names
  BY DEF Part
<1>2. inv.groups \in SUBSET GroupNames /\ inv.hosts \in SUBSET HostNames
  BY Fields DEF Sound
<1>3. CASE IsPlainHost(p)
  <2>1. p.name \in inv.hosts /\ MatchOne(p) = {p.name}
    BY <1>3 DEF IsPlainHost, MatchOne
  <2>2. NamesApart => p.name \notin inv.groups
    BY <1>2, <2>1 DEF NamesApart
  <2> QED
    BY <1>2, <2>1, <2>2 DEF Named
<1>4. CASE ~IsPlainHost(p)
  <2>1. MatchOne(p) = Named(inv, p.name)
    BY <1>1, <1>4, Enumerated DEF MatchOne, PatternsOK
  <2> QED
    BY <1>1, <2>1, NamedType
<1> QED
  BY <1>3, <1>4

(* _evaluate_patterns gives what the pattern means.                        *)
LEMMA Evaluated ==
  ASSUME Sound(inv), PatternsOK, NEW pattern \in Patterns \cup Limits
  PROVE  /\ EvaluatePatterns(pattern) \in SUBSET HostNames
         /\ NamesApart /\ Settled(inv) =>
              EvaluatePatterns(pattern) = Means(pattern, [g \in GroupNames |-> HostsOf(inv, g)])
<1> DEFINE all   == Parts(pattern)
           parts == PartsOf(pattern)
           hosts == [g \in GroupNames |-> HostsOf(inv, g)]
           Is(h, p) == h = p.name \/ (p.name \in inv.groups /\ h \in hosts[p.name])
           Found == UNION {MatchOne(p) : p \in {p \in all : p.op = ""}}
<1>1. all \in SUBSET Part /\ parts \in SUBSET Part
  BY PatternParts, PatternsAssumption DEF Part
<1>2. \A p \in all : MatchOne(p) \in SUBSET HostNames
  BY <1>1, OneMatched
<1>3. EvaluatePatterns(pattern) =
        {h \in Found : /\ \A p \in all : p.op = "&" => h \in MatchOne(p)
                       /\ \A p \in all : p.op = "!" => h \notin MatchOne(p)}
  BY DEF EvaluatePatterns
<1>4. Means(pattern, hosts) =
        {h \in inv.hosts : /\ (\E p \in parts : p.op = "") => \E p \in parts : p.op = "" /\ Is(h, p)
                           /\ \A p \in parts : p.op = "&" => Is(h, p)
                           /\ \A p \in parts : p.op = "!" => ~Is(h, p)}
  BY DEF Means
<1>5. all = IF \E p \in parts : p.op = "" THEN parts ELSE parts \cup {Plain("all")}
  BY DEF Parts
<1> HIDE DEF all, parts, hosts, Is
<1>6. EvaluatePatterns(pattern) \in SUBSET HostNames
  BY <1>2, <1>3
<1>7. ASSUME NamesApart, Settled(inv)
      PROVE  EvaluatePatterns(pattern) = Means(pattern, hosts)
  <2>1. inv.groups \in SUBSET GroupNames /\ inv.hosts \in SUBSET HostNames
    BY Fields DEF Sound
  <2>2. \A p \in all : MatchOne(p) = Named(inv, p.name) /\ Named(inv, p.name) \in SUBSET inv.hosts
    BY <1>1, <1>7, OneMatched, NamedType DEF Part
  <2>3. \A h \in inv.hosts : h \notin inv.groups /\ h \notin GroupNames
    BY <1>7, <2>1 DEF NamesApart
  <2>4. \A h \in inv.hosts : \A p \in all : h \in MatchOne(p) <=> Is(h, p)
    <3> SUFFICES ASSUME NEW h \in inv.hosts, NEW p \in all
                 PROVE  h \in Named(inv, p.name) <=> Is(h, p)
      BY <2>2
    <3>1. CASE p.name \in inv.groups
      BY <2>1, <2>3, <3>1 DEF Named, Is, hosts
    <3>2. CASE p.name \notin inv.groups
      BY <3>2 DEF Named, Is
    <3> QED
      BY <3>1, <3>2
  <2>5. Found \in SUBSET inv.hosts
    BY <2>2
  <2>6. CASE \E p \in parts : p.op = ""
    <3>1. all = parts
      BY <1>5, <2>6
    <3>2. \A h \in inv.hosts : h \in Found <=> \E p \in parts : p.op = "" /\ Is(h, p)
      BY <2>4, <3>1
    <3> HIDE DEF Found
    <3> QED
      BY <1>3, <1>4, <2>4, <2>5, <2>6, <3>1, <3>2
  <2>7. CASE ~\E p \in parts : p.op = ""
    <3>1. all = parts \cup {Plain("all")}
      BY <1>5, <2>7
    <3>2. Plain("all").op = "" /\ Plain("all").name = "all"
      BY DEF Plain
    <3>3. Found = MatchOne(Plain("all"))
      BY <2>7, <3>1, <3>2
    <3>4. inv.hosts \subseteq Found
      <4>1. MatchOne(Plain("all")) = Named(inv, "all")
        BY <2>2, <3>1, <3>2
      <4>2. \A h \in inv.hosts : h \in HostsOf(inv, "all")
        BY <1>7 DEF Settled
      <4>3. \A h \in inv.hosts : "all" \in inv.groups
        <5>1. SUFFICES ASSUME NEW h \in inv.hosts PROVE "all" \in inv.groups
          OBVIOUS
        <5> QED
          BY <4>2, <5>1, NoGroupNoHosts, NamesFinite
      <4> QED
        BY <3>3, <4>1, <4>2, <4>3 DEF Named
    <3>5. Found = inv.hosts
      BY <2>5, <3>4
    <3> HIDE DEF Found
    <3>6. \A p \in all : p.op # "" => p \in parts
      BY <3>1, <3>2
    <3>7. parts \subseteq all
      BY <3>1
    <3>8. \A h \in inv.hosts : \A p \in parts : h \in MatchOne(p) <=> Is(h, p)
      BY <2>4, <3>7
    <3>9. \A h \in inv.hosts :
            /\ (\A p \in all : p.op = "&" => h \in MatchOne(p)) <=> \A p \in parts : p.op = "&" => Is(h, p)
            /\ (\A p \in all : p.op = "!" => h \notin MatchOne(p))
                 <=> \A p \in parts : p.op = "!" => ~Is(h, p)
      BY <3>6, <3>7, <3>8
    <3> QED
      BY <1>3, <1>4, <2>7, <3>5, <3>9
  <2> QED
    BY <2>6, <2>7
<1> QED
  BY <1>6, <1>7 DEF hosts

LEMMA FreshIsMeant ==
  ASSUME Sound(inv), PatternsOK, NEW p \in Patterns, NEW l \in Limits \cup {<<>>}, NEW b
  PROVE  /\ Fresh(p, l, b) \in SUBSET HostNames
         /\ NamesApart /\ Settled(inv) =>
              Fresh(p, l, b) = Meant(p, l, b, [g \in GroupNames |-> HostsOf(inv, g)])
<1>1. EvaluatePatterns(p) \in SUBSET HostNames
  BY Evaluated
<1>2. ASSUME NamesApart, Settled(inv)
      PROVE  LET hosts == [g \in GroupNames |-> HostsOf(inv, g)]
             IN /\ EvaluatePatterns(p) = Means(p, hosts)
                /\ l # <<>> => EvaluatePatterns(l) = Means(l, hosts)
  BY <1>2, Evaluated
<1> QED
  BY <1>1, <1>2 DEF Fresh, Meant
-----------------------------------------------------------------------------
(* What was asked for decides what an inventory looks like.                *)

(* Below a group of the user, an edge is one that was asked for.           *)
LEMMA SameBelow ==
  ASSUME NEW i, NEW j, Sound(i), Sound(j), NEW rs, MadeOf(i, rs), MadeOf(j, rs), NEW g \in UserGroups
  PROVE  Below(i.children, g) \subseteq Below(j.children, g)
<1> DEFINE gs == Below(i.children, g) \cap Below(j.children, g)
<1>1. /\ i.children \in AllEdges /\ j.children \in AllEdges
      /\ g \in GroupNames /\ g # "all" /\ i \in Inventories
  BY Fields, NamesAssumption DEF Sound, GroupNames
<1>2. "all" \notin Below(i.children, g)
  BY <1>1, AllIsTop
<1>3. ASSUME NEW e \in i.children, e[1] \in gs PROVE e[2] \in gs
  <2>1. PICK r \in rs : e \in r.edges
    BY <1>2, <1>3 DEF MadeOf
  <2>2. e \in j.children
    BY <2>1 DEF MadeOf
  <2> QED
    BY <1>1, <1>3, <2>2, BelowBasics DEF ClosedUnder
<1>4. gs \in SUBSET GroupNames /\ g \in gs /\ ClosedUnder(i.children, gs)
  BY <1>1, <1>3, BelowBasics DEF ClosedUnder
<1> HIDE DEF gs
<1>5. Below(i.children, g) \subseteq gs
  BY <1>1, <1>4, BelowBasics
<1> QED
  BY <1>5 DEF gs

LEMMA SameUserHosts ==
  ASSUME NEW i, NEW j, Sound(i), Sound(j), NEW rs, MadeOf(i, rs), MadeOf(j, rs), NEW g \in UserGroups
  PROVE  UserHosts(i, g) \subseteq UserHosts(j, g)
<1>1. ASSUME NEW d \in Below(i.children, g) \cap UserGroups, NEW h \in i.members[d]
      PROVE  h \in UserHosts(j, g)
  <2>1. PICK r \in rs : <<d, h>> \in r.members
    BY DEF MadeOf
  <2>2. \A m \in r.members : m[1] \in UserGroups => m[2] \in UserHosts(j, m[1])
    BY DEF MadeOf
  <2>3. h \in UserHosts(j, d)
    <3>1. <<d, h>>[1] = d /\ <<d, h>>[2] = h
      OBVIOUS
    <3> QED
      BY <2>1, <2>2, <3>1
  <2>4. j.children \in AllEdges /\ g \in GroupNames
    BY Fields DEF Sound, GroupNames
  <2>5. d \in Below(j.children, g)
    BY SameBelow
  <2>6. Below(j.children, d) \subseteq Below(j.children, g)
    BY <2>4, <2>5, BelowTransitive
  <2> QED
    BY <2>3, <2>6 DEF UserHosts
<1> QED
  BY <1>1 DEF UserHosts

(* Under all is everything, whatever edges start there; all others were    *)
(* asked for, and a depth is the length of a longest way down.             *)
LEMMA SameDepth ==
  ASSUME NEW i, NEW j, Good(i), Good(j), NEW rs, MadeOf(i, rs), MadeOf(j, rs)
  PROVE  \A g \in GroupNames : i.depth[g] <= j.depth[g]
<1> DEFINE B == {g \in GroupNames : ~(i.depth[g] <= j.depth[g])}
<1>1. SUFFICES ASSUME B # {} PROVE FALSE
  OBVIOUS
<1>2. /\ Sound(i) /\ Sound(j) /\ i \in Inventories /\ j \in Inventories
      /\ i.depth \in [GroupNames -> Nat] /\ j.depth \in [GroupNames -> Nat]
  BY Fields DEF Good, Sound
<1>3. B \in SUBSET GroupNames
  OBVIOUS
<1>4. PICK g \in B : \A e \in i.children : e[2] = g => e[1] \notin B
  <2> HIDE DEF B
  <2> QED
    BY <1>1, <1>2, <1>3, SomeTop
<1>5. g \in GroupNames /\ i.depth[g] \in Nat /\ j.depth[g] \in Nat /\ i.depth[g] > j.depth[g]
  BY <1>2
<1>6. PICK p \in GroupNames : <<p, g>> \in i.children /\ i.depth[p] + 1 = i.depth[g]
  <2>1. i.depth[g] # 0
    BY <1>5
  <2> QED
    BY <1>2, <1>5, <2>1 DEF Sound, Measured
<1>7. p \notin B
  <2>1. <<p, g>>[1] = p /\ <<p, g>>[2] = g
    OBVIOUS
  <2> HIDE DEF B
  <2> QED
    BY <1>4, <1>6, <2>1
<1>8. i.depth[p] <= j.depth[p] /\ i.depth[p] \in Nat /\ j.depth[p] \in Nat
  BY <1>2, <1>7
<1> HIDE DEF B
<1>9. j.depth[p] < j.depth[g]
  <2>1. CASE p = "all"
    <3>1. g \in i.groups /\ g # "all"
      BY <1>2, <1>6 DEF Sound, Linked
    <3>2. g \in Below(j.children, "all")
      BY <3>1 DEF MadeOf, Good, Rooted
    <3> QED
      BY <1>2, <2>1, <3>1, <3>2, NamesFinite, DeeperBelow DEF Sound
  <2>2. CASE p # "all"
    <3>1. PICK r \in rs : <<p, g>> \in r.edges
      BY <1>6, <2>2 DEF MadeOf
    <3>2. <<p, g>> \in j.children
      BY <3>1 DEF MadeOf
    <3> QED
      BY <1>2, <3>2 DEF Sound, Deeper
  <2> QED
    BY <2>1, <2>2
<1> QED
  BY <1>5, <1>6, <1>8, <1>9

LEMMA SameRequestsSameView ==
  ASSUME UngroupedApart, NEW i, NEW j, Good(i), Good(j), NEW rs, MadeOf(i, rs), MadeOf(j, rs)
  PROVE  SameView(i, j)
<1>1. i.groups = j.groups /\ i.hosts = j.hosts
  BY DEF MadeOf
<1>2. /\ Sound(i) /\ Told(i) /\ Apart(i) /\ Settled(i) /\ i \in Inventories
      /\ Sound(j) /\ Told(j) /\ Apart(j) /\ Settled(j) /\ j \in Inventories
  BY DEF Good, Sound
<1>3. ASSUME NEW g \in UserGroups PROVE HostsOf(i, g) = HostsOf(j, g)
  <2>1. UserHosts(i, g) = HostsOf(i, g) /\ UserHosts(j, g) = HostsOf(j, g)
    BY <1>2, UserHostsFound
  <2>2. UserHosts(i, g) \subseteq UserHosts(j, g) /\ UserHosts(j, g) \subseteq UserHosts(i, g)
    BY <1>2, SameUserHosts
  <2> QED
    BY <2>1, <2>2
<1>4. \A g \in GroupNames : HostsOf(i, g) \subseteq i.hosts /\ HostsOf(j, g) \subseteq i.hosts
  BY <1>1, <1>2, HostsAreThere
<1>5. HostsOf(i, "all") = i.hosts /\ HostsOf(j, "all") = i.hosts
  BY <1>1, <1>2, <1>4, NamesFinite DEF Settled
<1>6. HostsOf(i, "ungrouped") = HostsOf(j, "ungrouped")
  <2>1. \A h \in i.hosts : h \in HostsOf(i, "ungrouped") <=> h \in HostsOf(j, "ungrouped")
    BY <1>1, <1>2, <1>3 DEF Settled
  <2> QED
    BY <1>4, <2>1, NamesFinite
<1>7. \A g \in GroupNames : HostsOf(i, g) = HostsOf(j, g)
  BY <1>3, <1>5, <1>6 DEF GroupNames
<1>8. i.groupsOf = j.groupsOf
  <2>1. i.groupsOf \in [HostNames -> SUBSET GroupNames] /\ j.groupsOf \in [HostNames -> SUBSET GroupNames]
    BY <1>2 DEF Inventories
  <2>2. \A h \in HostNames : i.groupsOf[h] = j.groupsOf[h]
    BY <1>2, <1>7 DEF Told
  <2> QED
    BY <2>1, <2>2
<1>9. i.depth = j.depth
  <2>1. i.depth \in [GroupNames -> Nat] /\ j.depth \in [GroupNames -> Nat]
    BY <1>2, Fields
  <2>2. \A g \in GroupNames : i.depth[g] <= j.depth[g] /\ j.depth[g] <= i.depth[g]
    BY SameDepth
  <2>3. \A g \in GroupNames : i.depth[g] = j.depth[g]
    BY <2>1, <2>2
  <2> QED
    BY <2>1, <2>3
<1>10. i.groups \subseteq GroupNames
  BY <1>2, Fields
<1> QED
  BY <1>1, <1>7, <1>8, <1>9, <1>10 DEF SameView

(* A grouping that has its effect was as good as asked for.                *)
LEMMA GroupingThere ==
  ASSUME UngroupedApart, NEW i, Good(i), NEW info \in GroupInfos, info.host \in HostsOf(i, info.group),
         \A p \in info.parents : <<p, info.group>> \in i.children
  PROVE  Grows(i, i, OfGrouping(info))
<1>1. Sound(i) /\ Apart(i) /\ i \in Inventories /\ info.group \in GroupNames
  BY InfoTypes DEF Good, Sound
<1>2. info.group \in i.groups
  BY <1>1, NoGroupNoHosts
<1>3. \A p \in info.parents : p \in i.groups
  BY <1>1 DEF Sound, Linked
<1>4. info.group \in UserGroups => info.host \in UserHosts(i, info.group)
  BY <1>1, UserHostsFound
<1> DEFINE r == OfGrouping(info)
<1>5. /\ r.groups = info.parents \cup {info.group} /\ r.hosts = {}
      /\ r.edges = {<<p, info.group>> : p \in info.parents}
      /\ r.members = {<<info.group, info.host>>}
  BY DEF OfGrouping
<1> HIDE DEF r
<1>6. Grows(i, i, r)
  BY <1>2, <1>3, <1>4, <1>5 DEF Grows
<1> QED
  BY <1>6 DEF r

LEMMA MadeOfMore ==
  ASSUME NEW i \in Inventories, NEW rs, MadeOf(i, rs), NEW qs, \A r \in qs : Grows(i, i, r)
  PROVE  MadeOf(i, rs \cup qs)
<1>1. /\ \A r \in qs : /\ r.groups \subseteq i.groups /\ r.hosts \subseteq i.hosts
                       /\ r.edges \subseteq i.children
                       /\ \A m \in r.members : m[1] \in UserGroups => m[2] \in UserHosts(i, m[1])
  BY DEF Grows
<1>2. /\ i.groups = UNION {r.groups : r \in rs \cup qs}
      /\ i.hosts = UNION {r.hosts : r \in rs \cup qs}
  BY <1>1 DEF MadeOf
<1>3. \A r \in rs \cup qs :
        /\ r.edges \subseteq i.children
        /\ \A m \in r.members : m[1] \in UserGroups => m[2] \in UserHosts(i, m[1])
  BY <1>1 DEF MadeOf
<1>4. \A e \in i.children : e[1] = "all" \/ \E r \in rs \cup qs : e \in r.edges
  BY DEF MadeOf
<1>5. \A g \in UserGroups : \A h \in i.members[g] : \E r \in rs \cup qs : <<g, h>> \in r.members
  BY DEF MadeOf
<1> QED
  BY <1>2, <1>3, <1>4, <1>5 DEF MadeOf

-----------------------------------------------------------------------------
(* The inventory keeps its invariant.                                      *)

LEMMA InductiveIsGood ==
  Inductive <=> LogsOK /\ Good(inv) /\ DictOK /\ PatternsOK /\ AnswersOK
BY DEF Inductive, Good

LEMMA GoodTypes ==
  ASSUME NEW i, Good(i)
  PROVE  i \in Inventories /\ i.groups \in SUBSET GroupNames /\ i.hosts \in SUBSET HostNames
BY Fields DEF Good, Sound

(* With empty caches, nothing is cached wrongly ...                        *)
LEMMA EmptyCaches ==
  ASSUME inv.dict = Unknown, pattern_cache = NoCache, hosts_patterns_cache = <<>>
  PROVE  DictOK /\ PatternsOK /\ AnswersOK
<1>1. PatternsOK
  BY DEF PatternsOK, NoCache
<1>2. DOMAIN hosts_patterns_cache = {}
  OBVIOUS
<1>3. AnswersOK
  BY <1>2 DEF AnswersOK
<1> QED
  BY <1>1, <1>3 DEF DictOK

LEMMA InitInductive ==
  ASSUME Init
  PROVE  Inductive
<1>1. Good(inv) /\ inv.dict = Unknown
  BY ParseSourcesGood DEF Init
<1>2. LogsOK
  BY DEF Init, LogsOK
<1>3. DictOK /\ PatternsOK /\ AnswersOK
  BY <1>1, EmptyCaches DEF Init
<1> QED
  BY <1>1, <1>2, <1>3, InductiveIsGood

LEMMA EmptiedStep ==
  ASSUME ClearCaches
  PROVE  PatternsOK' /\ AnswersOK'
<1>1. PatternsOK'
  BY DEF PatternsOK, NoCache, ClearCaches
<1>2. DOMAIN hosts_patterns_cache' = {}
  BY DEF ClearCaches
<1>3. AnswersOK'
  BY <1>2 DEF AnswersOK
<1> QED
  BY <1>1, <1>3

(* ... and what is cached stays right while groups keep their hosts.       *)
Alike(i, j) ==
  /\ j.groups = i.groups /\ j.hosts = i.hosts
  /\ \A d \in GroupNames : HostsOf(j, d) = HostsOf(i, d)

(* An answer to a question that is cached by k.                            *)
AnswerTo(k, answer) ==
  \E p \in Patterns, l \in Limits \cup {<<>>}, b \in Batches \cup {{}} :
    /\ k = PatternHash(p, l, b)
    /\ answer = Meant(p, l, b, [g \in GroupNames |-> HostsOf(inv, g)])

AnswersKnown ==
  \A k \in DOMAIN hosts_patterns_cache :
    /\ hosts_patterns_cache[k] \subseteq HostNames
    /\ NamesApart /\ UngroupedApart => AnswerTo(k, hosts_patterns_cache[k])

LEMMA AnswersAreKnown == AnswersOK <=> AnswersKnown
BY DEF AnswersOK, AnswersKnown, AnswerTo

LEMMA AlikeAnswers ==
  ASSUME Good(inv), Alike(inv, inv')
  PROVE  /\ \A n \in Names : Named(inv', n) = Named(inv, n)
         /\ \A k, answer : AnswerTo(k, answer)' <=> AnswerTo(k, answer)
<1>1. \A n \in Names : Named(inv', n) = Named(inv, n)
  BY GoodTypes DEF Alike, Named
<1>2. [g \in GroupNames |-> HostsOf(inv', g)] = [g \in GroupNames |-> HostsOf(inv, g)]
  BY DEF Alike
<1>3. ASSUME NEW CONSTANT p, NEW CONSTANT l, NEW CONSTANT b, NEW CONSTANT hosts
      PROVE  Meant(p, l, b, hosts)' = Meant(p, l, b, hosts)
  BY DEF Alike, Means, Meant
<1>4. ASSUME NEW CONSTANT k, NEW CONSTANT answer
      PROVE  AnswerTo(k, answer)' <=> AnswerTo(k, answer)
  BY <1>2, <1>3 DEF AnswerTo
<1> QED
  BY <1>1, <1>4

LEMMA CachesKeptStep ==
  ASSUME Inductive, Alike(inv, inv'), UNCHANGED cacheVars
  PROVE  PatternsOK' /\ AnswersOK'
<1>1. Good(inv) /\ PatternsOK /\ AnswersKnown
  BY InductiveIsGood, AnswersAreKnown
<1>2. PatternsOK'
  BY <1>1, AlikeAnswers DEF PatternsOK, cacheVars
<1>3. AnswersKnown'
  BY <1>1, AlikeAnswers DEF AnswersKnown, cacheVars
<1>4. AnswersOK' <=> AnswersKnown'
  BY AnswersAreKnown, PTL
<1> QED
  BY <1>2, <1>3, <1>4

LEMMA InductiveNext ==
  ASSUME LogsOK', Good(inv'), DictOK', PatternsOK', AnswersOK'
  PROVE  Inductive'
<1>1. Inductive' <=> LogsOK' /\ Good(inv)' /\ DictOK' /\ PatternsOK' /\ AnswersOK'
  BY InductiveIsGood, PTL
<1> QED
  BY <1>1

(* A step that changes groups or hosts clears the caches.                  *)
LEMMA ChangeStep ==
  ASSUME Good(inv'), inv'.dict = Unknown, ClearCaches, LogsOK'
  PROVE  Inductive'
<1>1. PatternsOK' /\ AnswersOK'
  BY EmptiedStep
<1>2. DictOK'
  BY DEF DictOK
<1> QED
  BY <1>1, <1>2, InductiveNext

(* Any other keeps them, or adds to them what is right.                    *)
LEMMA SameGraphStep ==
  ASSUME Inductive, Good(inv'), SameGraph(inv, inv')
  PROVE  Alike(inv, inv') /\ (inv'.dict = inv.dict => DictOK')
<1>1. Good(inv) /\ DictOK
  BY InductiveIsGood
<1>2. Alike(inv, inv')
  BY SameHosts DEF SameGraph, Alike
<1>3. ASSUME inv'.dict = inv.dict PROVE DictOK'
  BY <1>1, <1>2, <1>3, GoodTypes DEF DictOK, Alike
<1> QED
  BY <1>2, <1>3

LEMMA KeptStep ==
  ASSUME Inductive, Good(inv'), SameGraph(inv, inv'), inv'.dict = inv.dict, UNCHANGED cacheVars, LogsOK'
  PROVE  Inductive'
<1>1. Alike(inv, inv') /\ DictOK'
  BY SameGraphStep
<1>2. PatternsOK' /\ AnswersOK'
  BY <1>1, CachesKeptStep
<1> QED
  BY <1>1, <1>2, InductiveNext

LEMMA AddDynamicHostStep ==
  ASSUME Inductive, NEW info \in HostInfos, NEW newVars \in {FALSE, info.vars},
         AddDynamicHost(info, newVars)
  PROVE  Inductive'
<1> DEFINE i == DynamicHost(inv, info, newVars)
<1>1. Good(inv) /\ LogsOK
  BY InductiveIsGood
<1>2. newVars \in BOOLEAN
  BY InfoTypes
<1>3. Good(i) /\ (i = inv \/ i.dict = Unknown) /\ (newVars => i.dict = Unknown)
  BY <1>1, <1>2, DynamicHostGood
<1>4. inv' = i /\ IF i # inv \/ newVars THEN ClearCaches ELSE UNCHANGED cacheVars
  BY DEF AddDynamicHost, Becomes
<1> HIDE DEF i
<1>5. LogsOK'
  <2>1. cached_dynamic_hosts' \in Seq(HostInfos)
    BY <1>1 DEF AddDynamicHost, LogsOK
  <2> QED
    BY <1>1, <2>1 DEF AddDynamicHost, LogsOK
<1>6. CASE i # inv \/ newVars
  BY <1>3, <1>4, <1>5, <1>6, ChangeStep
<1>7. CASE ~(i # inv \/ newVars)
  <2>1. SameGraph(inv, inv') /\ inv'.dict = inv.dict
    BY <1>4, <1>7 DEF SameGraph
  <2> QED
    BY <1>3, <1>4, <1>5, <1>7, <2>1, KeptStep
<1> QED
  BY <1>6, <1>7

LEMMA AddDynamicGroupStep ==
  ASSUME Inductive, NEW info \in GroupInfos, AddDynamicGroup(info)
  PROVE  Inductive'
<1> DEFINE i == DynamicGroup(inv, info)
<1>1. Good(inv) /\ LogsOK
  BY InductiveIsGood
<1>2. LogsOK'
  <2>1. cached_dynamic_grouping' \in Seq(GroupInfos)
    BY <1>1 DEF AddDynamicGroup, LogsOK
  <2> QED
    BY <1>1, <2>1 DEF AddDynamicGroup, LogsOK
<1>3. CASE MakesLoop(inv, info)
  <2>1. inv' = inv /\ UNCHANGED cacheVars
    BY <1>3 DEF AddDynamicGroup, cacheVars
  <2>2. SameGraph(inv, inv') /\ inv'.dict = inv.dict /\ Good(inv')
    BY <1>1, <2>1 DEF SameGraph
  <2> QED
    BY <1>2, <2>1, <2>2, KeptStep
<1>4. CASE ~MakesLoop(inv, info)
  <2>1. info.host \in inv.hosts
    BY DEF AddDynamicGroup
  <2>2. /\ Good(i)
        /\ GroupingChanges(inv, info) => i.dict = Unknown
        /\ ~GroupingChanges(inv, info) => SameGraph(inv, i) /\ i.dict = inv.dict
    BY <1>1, <1>4, <2>1, DynamicGroupGood
  <2>3. inv' = i /\ IF GroupingChanges(inv, info) THEN ClearCaches ELSE UNCHANGED cacheVars
    BY <1>4 DEF AddDynamicGroup, Becomes
  <2> HIDE DEF i
  <2>4. CASE GroupingChanges(inv, info)
    BY <1>2, <2>2, <2>3, <2>4, ChangeStep
  <2>5. CASE ~GroupingChanges(inv, info)
    BY <1>2, <2>2, <2>3, <2>5, KeptStep
  <2> QED
    BY <2>4, <2>5
<1> QED
  BY <1>3, <1>4

LEMMA RefreshInventoryStep ==
  ASSUME Inductive, NEW src \in Sources, RefreshInventory(src)
  PROVE  Inductive'
<1> DEFINE a == ReplayHosts(ParseSources(src))
           i == ReplayGroups(a)
<1>1. Good(inv) /\ LogsOK /\ LogsOK'
  BY InductiveIsGood DEF RefreshInventory, dynamicVars, LogsOK
<1>2. /\ Good(ParseSources(src)) /\ ParseSources(src).dict = Unknown
      /\ MadeOf(ParseSources(src), {OfSource(src)})
  BY ParseSourcesGood
<1> DEFINE rs == {OfSource(src)} \cup {OfHost(info) : info \in ToSet(cached_dynamic_hosts)}
<1>3. Good(a) /\ a.dict = Unknown /\ MadeOf(a, rs)
  BY <1>1, <1>2, HostsReplayed
<1> HIDE DEF a, rs
<1>4. i # Unknown => Good(i) /\ i.dict = Unknown
  BY <1>1, <1>3, GroupsReplayed
<1>5. inv' = (IF i = Unknown THEN inv ELSE i) /\ ClearCaches
  BY DEF RefreshInventory, a
<1> HIDE DEF i
<1>6. CASE i # Unknown
  BY <1>1, <1>4, <1>5, <1>6, ChangeStep
<1>7. CASE i = Unknown
  <2>1. inv' = inv
    BY <1>5, <1>7
  <2>2. PatternsOK' /\ AnswersOK'
    BY <1>5, EmptiedStep
  <2>3. DictOK'
    BY <2>1, InductiveIsGood DEF DictOK
  <2>4. Good(inv')
    BY <1>1, <2>1
  <2> QED
    BY <1>1, <2>2, <2>3, <2>4, InductiveNext
<1> QED
  BY <1>6, <1>7

LEMMA GetGroupsDictStep ==
  ASSUME Inductive, GetGroupsDict
  PROVE  Inductive'
<1>1. Good(inv) /\ LogsOK /\ DictOK
  BY InductiveIsGood
<1>2. inv' = WithGroupsDict(inv) /\ UNCHANGED cacheVars
  BY DEF GetGroupsDict
<1>3. LogsOK'
  BY <1>1 DEF GetGroupsDict, dynamicVars, LogsOK
<1>4. /\ Good(inv') /\ SameGraph(inv, inv')
      /\ inv'.dict # Unknown => \A g \in inv'.groups : inv'.dict[g] = HostsOf(inv', g)
  BY <1>1, <1>2, GroupsDictGood DEF DictOK
<1>5. DictOK'
  BY <1>4 DEF DictOK
<1>6. Alike(inv, inv')
  BY <1>4, SameGraphStep
<1>7. PatternsOK' /\ AnswersOK'
  BY <1>2, <1>6, CachesKeptStep
<1> QED
  BY <1>3, <1>4, <1>5, <1>7, InductiveNext

LEMMA AskHostsStep ==
  ASSUME Inductive, NEW p \in Patterns, NEW l \in Limits \cup {<<>>}, NEW b \in Batches \cup {{}},
         AskHosts(p, l, b)
  PROVE  Inductive'
<1> DEFINE hash  == PatternHash(p, l, b)
           names == LookedUp(p) \cup (IF l # <<>> THEN LookedUp(l) ELSE {})
           asked == {n \in names : pattern_cache[n] = Unknown}
           answer == Fresh(p, l, b)
<1>1. Good(inv) /\ LogsOK /\ DictOK /\ PatternsOK /\ AnswersKnown /\ Sound(inv)
  BY InductiveIsGood, AnswersAreKnown DEF Good
<1>2. /\ pattern_cache' = [n \in Names |-> IF n \in asked THEN EnumerateMatches(n) ELSE pattern_cache[n]]
      /\ inv' = HostsSeen(inv, asked \cap inv.groups)
      /\ hosts_patterns_cache' = [k \in DOMAIN hosts_patterns_cache \cup {hash} |->
                                    IF k = hash THEN answer ELSE hosts_patterns_cache[k]]
      /\ LogsOK'
  BY <1>1 DEF AskHosts, dynamicVars, LogsOK
<1>3. /\ Sound(inv') /\ Keeps(inv, inv') /\ inv'.members = inv.members
      /\ inv'.groupsOf = inv.groupsOf /\ inv'.dict = inv.dict
  BY <1>1, <1>2, HostsSeenSound
<1>4. SameGraph(inv, inv')
  BY <1>3 DEF SameGraph, Keeps
<1>5. Good(inv')
  BY <1>1, <1>3, <1>4, SameGraphGood
<1>6. Alike(inv, inv') /\ DictOK'
  BY <1>3, <1>4, <1>5, SameGraphStep
<1> HIDE DEF hash, asked
<1>7. PatternsOK'
  <2>1. \A n \in Names : /\ EnumerateMatches(n) = Named(inv, n)
                         /\ Named(inv, n) \in SUBSET HostNames
                         /\ Named(inv', n) = Named(inv, n)
    BY <1>1, <1>6, Enumerated, NamedType, AlikeAnswers
  <2> QED
    BY <1>1, <1>2, <2>1 DEF PatternsOK
<1>8. AnswersKnown'
  <2>1. answer \in SUBSET HostNames
    BY <1>1, FreshIsMeant
  <2>2. ASSUME NamesApart, UngroupedApart PROVE AnswerTo(hash, answer)
    <3>1. Settled(inv)
      BY <1>1, <2>2 DEF Good
    <3>2. answer = Meant(p, l, b, [g \in GroupNames |-> HostsOf(inv, g)])
      BY <1>1, <2>2, <3>1, FreshIsMeant
    <3> HIDE DEF answer
    <3> QED
      BY <3>2 DEF AnswerTo, hash
  <2> HIDE DEF answer
  <2>3. \A k, a : AnswerTo(k, a)' <=> AnswerTo(k, a)
    BY <1>1, <1>6, AlikeAnswers
  <2>4. /\ DOMAIN hosts_patterns_cache' = {hash} \cup DOMAIN hosts_patterns_cache
        /\ \A k \in DOMAIN hosts_patterns_cache' :
             hosts_patterns_cache'[k] = IF k = hash THEN answer ELSE hosts_patterns_cache[k]
    BY <1>2
  <2>5. \A k \in DOMAIN hosts_patterns_cache' :
          /\ hosts_patterns_cache'[k] \subseteq HostNames
          /\ NamesApart /\ UngroupedApart => AnswerTo(k, hosts_patterns_cache'[k])
    BY <1>1, <2>1, <2>2, <2>4 DEF AnswersKnown
  <2> QED
    BY <2>3, <2>5 DEF AnswersKnown
<1>9. AnswersOK'
  <2>1. AnswersOK' <=> AnswersKnown'
    BY AnswersAreKnown, PTL
  <2> QED
    BY <1>8, <2>1
<1> QED
  BY <1>2, <1>5, <1>6, <1>7, <1>9, InductiveNext

LEMMA RestrictedStep ==
  ASSUME Inductive, UNCHANGED <<inv, cacheVars>>, LogsOK'
  PROVE  Inductive'
<1>1. Good(inv)
  BY InductiveIsGood
<1>2. inv' = inv /\ UNCHANGED cacheVars
  OBVIOUS
<1>3. Good(inv') /\ SameGraph(inv, inv') /\ inv'.dict = inv.dict
  BY <1>1, <1>2 DEF SameGraph
<1> QED
  BY <1>2, <1>3, KeptStep

LEMMA StepInductive ==
  ASSUME Inductive, [Next]_vars
  PROVE  Inductive'
<1>1. LogsOK
  BY InductiveIsGood
<1>2. ASSUME NEW info \in HostInfos, NEW newVars \in {FALSE, info.vars}, AddDynamicHost(info, newVars)
      PROVE  Inductive'
  BY <1>2, AddDynamicHostStep
<1>3. ASSUME NEW info \in GroupInfos, AddDynamicGroup(info) PROVE Inductive'
  BY <1>3, AddDynamicGroupStep
<1>4. ASSUME NEW src \in Sources, RefreshInventory(src) PROVE Inductive'
  BY <1>4, RefreshInventoryStep
<1>5. ASSUME NEW p \in Patterns, NEW c \in Contexts, AskHosts(p, Limit(c[1]), Restriction(c[2]))
      PROVE  Inductive'
  <2>1. PICK l \in Limits \cup {<<>>} : l = Limit(c[1])
    BY <1>1 DEF LogsOK, Limit
  <2>2. PICK b \in Batches \cup {{}} : b = Restriction(c[2])
    BY <1>1 DEF LogsOK, Restriction
  <2>3. AskHosts(p, l, b)
    BY <1>5, <2>1, <2>2
  <2> QED
    BY <2>3, AskHostsStep
<1>6. ASSUME NEW batch \in Batches, RestrictToHosts(batch) PROVE Inductive'
  <2>1. inv.hosts \in SUBSET HostNames
    BY InductiveIsGood, GoodTypes
  <2>2. LogsOK'
    BY <1>1, <1>6, <2>1 DEF RestrictToHosts, dynamicVars, LogsOK
  <2>3. UNCHANGED <<inv, cacheVars>>
    BY <1>6 DEF RestrictToHosts
  <2> QED
    BY <2>2, <2>3, RestrictedStep
<1>7. CASE RemoveRestriction
  <2>1. LogsOK'
    BY <1>1, <1>7 DEF RemoveRestriction, dynamicVars, LogsOK
  <2>2. UNCHANGED <<inv, cacheVars>>
    BY <1>7 DEF RemoveRestriction
  <2> QED
    BY <2>1, <2>2, RestrictedStep
<1>8. CASE GetGroupsDict
  BY <1>8, GetGroupsDictStep
<1>9. CASE UNCHANGED vars
  <2>1. LogsOK'
    BY <1>1, <1>9 DEF vars, dynamicVars, LogsOK
  <2>2. UNCHANGED <<inv, cacheVars>>
    BY <1>9 DEF vars
  <2> QED
    BY <2>1, <2>2, RestrictedStep
<1> QED
  BY <1>2, <1>3, <1>4, <1>5, <1>6, <1>7, <1>8, <1>9 DEF Next

-----------------------------------------------------------------------------
(* What has been asked for is there, and nothing else.                     *)

LEMMA Logging ==
  ASSUME NEW X, NEW seq \in Seq(X), NEW x \in X
  PROVE  ToSet(Append(seq, x)) = ToSet(seq) \cup {x} /\ Append(seq, x) # seq
<1>1. Len(Append(seq, x)) = Len(seq) + 1 /\ Len(seq) \in Nat
  OBVIOUS
<1>2. \A n \in DOMAIN Append(seq, x) : Append(seq, x)[n] = IF n = Len(seq) + 1 THEN x ELSE seq[n]
  OBVIOUS
<1>3. DOMAIN Append(seq, x) = DOMAIN seq \cup {Len(seq) + 1}
  OBVIOUS
<1>4. Len(seq) + 1 \notin DOMAIN seq
  OBVIOUS
<1> QED
  BY <1>1, <1>2, <1>3, <1>4 DEF ToSet

LEMMA SameGraphMade ==
  ASSUME NEW i, NEW j, SameGraph(i, j), NEW rs, MadeOf(i, rs)
  PROVE  MadeOf(j, rs)
BY DEF SameGraph, MadeOf, UserHosts

(* A step adds a host, or adds a group, or reads the sources again, or     *)
(* touches caches alone.                                                   *)
LEMMA StepKinds ==
  ASSUME Inductive, [Next]_vars
  PROVE  \/ /\ ~raised
            /\ \/ \E info \in HostInfos : \E newVars \in {FALSE, info.vars} : AddDynamicHost(info, newVars)
               \/ \E info \in GroupInfos : AddDynamicGroup(info)
               \/ \E src \in Sources : RefreshInventory(src)
         \/ SameGraph(inv, inv') /\ UNCHANGED <<source, dynamicVars, raised>>
<1>1. Sound(inv) /\ Good(inv) /\ DictOK
  BY InductiveIsGood DEF Good
<1>2. ASSUME NEW p \in Patterns, NEW l, NEW b, AskHosts(p, l, b)
      PROVE  SameGraph(inv, inv') /\ UNCHANGED <<source, dynamicVars, raised>>
  <2>1. PICK gs : inv' = HostsSeen(inv, gs)
    BY <1>2 DEF AskHosts
  <2>2. /\ Keeps(inv, inv') /\ inv'.members = inv.members /\ inv'.groupsOf = inv.groupsOf
    BY <1>1, <2>1, HostsSeenSound
  <2> QED
    BY <1>2, <2>2 DEF SameGraph, Keeps, AskHosts
<1>3. CASE GetGroupsDict
  <2>1. SameGraph(inv, WithGroupsDict(inv))
    BY <1>1, GroupsDictGood DEF DictOK
  <2> QED
    BY <1>3, <2>1 DEF GetGroupsDict
<1>4. ASSUME NEW batch \in Batches, RestrictToHosts(batch)
      PROVE  SameGraph(inv, inv') /\ UNCHANGED <<source, dynamicVars, raised>>
  BY <1>4 DEF RestrictToHosts, SameGraph
<1>5. CASE RemoveRestriction
  BY <1>5 DEF RemoveRestriction, SameGraph
<1>6. CASE UNCHANGED vars
  BY <1>6 DEF vars, dynamicVars, SameGraph
<1> QED
  BY <1>2, <1>3, <1>4, <1>5, <1>6 DEF Next

(* What reading the sources again makes, unless it finds a loop.           *)
LEMMA RefreshMakes ==
  ASSUME UngroupedApart, Inductive, NEW src \in Sources, RefreshInventory(src)
  PROVE  \/ raised' = TRUE /\ inv' = inv
         \/ /\ Good(inv')
            /\ MadeOf(inv', Requests(src, ToSet(cached_dynamic_hosts),
                                     Present(inv', ToSet(cached_dynamic_grouping))))
<1> DEFINE a == ReplayHosts(ParseSources(src))
           i == ReplayGroups(a)
           infos == ToSet(cached_dynamic_hosts)
           groupings == ToSet(cached_dynamic_grouping)
           rs == {OfSource(src)} \cup {OfHost(info) : info \in infos}
<1>1. LogsOK
  BY InductiveIsGood
<1>2. /\ Good(ParseSources(src)) /\ ParseSources(src).dict = Unknown
      /\ MadeOf(ParseSources(src), {OfSource(src)})
  BY ParseSourcesGood
<1>3. Good(a) /\ a.dict = Unknown /\ MadeOf(a, rs)
  BY <1>1, <1>2, HostsReplayed
<1>4. IF i = Unknown THEN raised' = TRUE /\ inv' = inv ELSE inv' = i
  BY DEF RefreshInventory
<1> HIDE DEF a, infos, rs
<1>5. i # Unknown =>
        /\ Good(i) /\ i.hosts = a.hosts
        /\ MadeOf(i, rs \cup {OfGrouping(info) : info \in Present(a, groupings)})
  BY <1>1, <1>3, GroupsReplayed
<1> HIDE DEF i, groupings
<1>6. i # Unknown => Present(a, groupings) = Present(i, groupings)
  BY <1>5 DEF Present
<1>7. \A gs : rs \cup {OfGrouping(info) : info \in gs} = Requests(src, infos, gs)
  BY DEF rs, Requests
<1>8. CASE i = Unknown
  BY <1>4, <1>8
<1>9. CASE i # Unknown
  <2>1. MadeOf(i, Requests(src, infos, Present(i, groupings)))
    BY <1>5, <1>6, <1>7, <1>9
  <2> QED
    BY <1>4, <1>5, <1>9, <2>1 DEF infos, groupings
<1> QED
  BY <1>8, <1>9

LEMMA InitAsAsked ==
  ASSUME Init
  PROVE  AsAsked
<1>1. MadeOf(inv, {OfSource(source)})
  BY ParseSourcesGood DEF Init
<1>2. ToSet(cached_dynamic_hosts) = {} /\ {} \in SUBSET ToSet(cached_dynamic_grouping)
  BY DEF Init, ToSet
<1>3. Requests(source, {}, {}) = {OfSource(source)}
  BY DEF Requests
<1> QED
  BY <1>1, <1>2, <1>3 DEF AsAsked

LEMMA StepAsAsked ==
  ASSUME UngroupedApart, Inductive, AsAsked, [Next]_vars
  PROVE  AsAsked'
<1> SUFFICES ASSUME ~raised'
             PROVE  \E groupings \in SUBSET ToSet(cached_dynamic_grouping') :
                      MadeOf(inv', Requests(source', ToSet(cached_dynamic_hosts'), groupings))
  BY DEF AsAsked
<1>1. Good(inv) /\ LogsOK /\ inv \in Inventories
  BY InductiveIsGood, GoodTypes
<1>2. Good(inv') /\ inv' \in Inventories
  <2>1. Inductive'
    BY StepInductive
  <2>2. Inductive' <=> LogsOK' /\ Good(inv)' /\ DictOK' /\ PatternsOK' /\ AnswersOK'
    BY InductiveIsGood, PTL
  <2> QED
    BY <2>1, <2>2, GoodTypes
<1> DEFINE infos == ToSet(cached_dynamic_hosts)
           all == ToSet(cached_dynamic_grouping)
<1>3. ASSUME ~raised
      PROVE  \E gs \in SUBSET all : MadeOf(inv, Requests(source, infos, gs))
  BY <1>3 DEF AsAsked
<1> HIDE DEF infos, all
<1>4. ASSUME ~raised, NEW info \in HostInfos, NEW newVars \in {FALSE, info.vars},
             AddDynamicHost(info, newVars)
      PROVE  \E gs \in SUBSET ToSet(cached_dynamic_grouping') :
               MadeOf(inv', Requests(source', ToSet(cached_dynamic_hosts'), gs))
  <2>1. PICK gs \in SUBSET all : MadeOf(inv, Requests(source, infos, gs))
    BY <1>3, <1>4
  <2>2. newVars \in BOOLEAN
    BY InfoTypes
  <2>3. inv' = DynamicHost(inv, info, newVars)
    BY <1>4 DEF AddDynamicHost, Becomes
  <2>4. Grows(inv, inv', OfHost(info))
    BY <1>1, <2>2, <2>3, DynamicHostGood
  <2>5. MadeOf(inv', Requests(source, infos, gs) \cup {OfHost(info)})
    BY <1>1, <1>2, <2>1, <2>4, MadeGrows
  <2>6. ToSet(cached_dynamic_hosts') = infos \cup {info}
    BY <1>1, <1>4, Logging DEF AddDynamicHost, LogsOK, infos
  <2>7. Requests(source, infos \cup {info}, gs) = Requests(source, infos, gs) \cup {OfHost(info)}
    BY DEF Requests
  <2>8. source' = source /\ ToSet(cached_dynamic_grouping') = all
    BY <1>4 DEF AddDynamicHost, all
  <2> QED
    BY <2>5, <2>6, <2>7, <2>8
<1>5. ASSUME ~raised, NEW info \in GroupInfos, AddDynamicGroup(info)
      PROVE  \E gs \in SUBSET ToSet(cached_dynamic_grouping') :
               MadeOf(inv', Requests(source', ToSet(cached_dynamic_hosts'), gs))
  <2>1. PICK gs \in SUBSET all : MadeOf(inv, Requests(source, infos, gs))
    BY <1>3, <1>5
  <2>2. info.host \in inv.hosts /\ ~MakesLoop(inv, info) /\ inv' = DynamicGroup(inv, info)
    BY <1>5 DEF AddDynamicGroup, Becomes
  <2>3. Grows(inv, inv', OfGrouping(info))
    BY <1>1, <2>2, DynamicGroupGood
  <2>4. MadeOf(inv', Requests(source, infos, gs) \cup {OfGrouping(info)})
    BY <1>1, <1>2, <2>1, <2>3, MadeGrows
  <2>5. ToSet(cached_dynamic_grouping') = all \cup {info}
    BY <1>1, <1>5, Logging DEF AddDynamicGroup, LogsOK, all
  <2>6. Requests(source, infos, gs \cup {info}) = Requests(source, infos, gs) \cup {OfGrouping(info)}
    BY DEF Requests
  <2>7. source' = source /\ ToSet(cached_dynamic_hosts') = infos
    BY <1>5 DEF AddDynamicGroup, infos
  <2>8. gs \cup {info} \in SUBSET ToSet(cached_dynamic_grouping')
    BY <2>5
  <2> QED
    BY <2>4, <2>6, <2>7, <2>8
<1>6. ASSUME NEW src \in Sources, RefreshInventory(src)
      PROVE  \E gs \in SUBSET ToSet(cached_dynamic_grouping') :
               MadeOf(inv', Requests(source', ToSet(cached_dynamic_hosts'), gs))
  <2>1. MadeOf(inv', Requests(src, infos, Present(inv', all)))
    BY <1>6, RefreshMakes DEF infos, all
  <2>2. source' = src /\ ToSet(cached_dynamic_hosts') = infos /\ ToSet(cached_dynamic_grouping') = all
    BY <1>6 DEF RefreshInventory, dynamicVars, infos, all
  <2>3. Present(inv', all) \in SUBSET all
    BY DEF Present
  <2> QED
    BY <2>1, <2>2, <2>3
<1>7. ASSUME SameGraph(inv, inv'), UNCHANGED <<source, dynamicVars, raised>>
      PROVE  \E gs \in SUBSET ToSet(cached_dynamic_grouping') :
               MadeOf(inv', Requests(source', ToSet(cached_dynamic_hosts'), gs))
  <2>1. PICK gs \in SUBSET all : MadeOf(inv, Requests(source, infos, gs))
    BY <1>3, <1>7
  <2>2. MadeOf(inv', Requests(source, infos, gs))
    BY <1>7, <2>1, SameGraphMade
  <2>3. source' = source /\ ToSet(cached_dynamic_hosts') = infos /\ ToSet(cached_dynamic_grouping') = all
    BY <1>7 DEF dynamicVars, infos, all
  <2> QED
    BY <2>2, <2>3
<1> QED
  BY <1>4, <1>5, <1>6, <1>7, StepKinds

(* When every group_by result has its effect, whether or not it was        *)
(* replayed when the sources were last read, a refresh gives the same.     *)
LEMMA StepRestores ==
  ASSUME UngroupedApart, Inductive, AsAsked, [Next]_vars, AllApplied, Refreshes, source' = source
  PROVE  SameView(inv, inv')
<1>1. Good(inv) /\ LogsOK /\ inv \in Inventories
  BY InductiveIsGood, GoodTypes
<1>2. CASE SameGraph(inv, inv')
  <2>1. \A g \in GroupNames : HostsOf(inv', g) = HostsOf(inv, g)
    BY <1>2, SameHosts DEF SameGraph
  <2> QED
    BY <1>1, <1>2, <2>1, GoodTypes DEF SameGraph, SameView
<1>3. ASSUME NEW info \in HostInfos, NEW newVars, AddDynamicHost(info, newVars) PROVE FALSE
  BY <1>1, <1>3, Logging DEF AddDynamicHost, Refreshes, LogsOK
<1>4. ASSUME NEW info \in GroupInfos, AddDynamicGroup(info) PROVE FALSE
  BY <1>1, <1>4, Logging DEF AddDynamicGroup, Refreshes, LogsOK
<1>5. ASSUME ~raised, NEW src \in Sources, RefreshInventory(src) PROVE SameView(inv, inv')
  <2> DEFINE infos == ToSet(cached_dynamic_hosts)
             all == ToSet(cached_dynamic_grouping)
  <2>1. src = source
    BY <1>5 DEF RefreshInventory
  <2>2. PICK gs \in SUBSET all : MadeOf(inv, Requests(source, infos, gs))
    BY <1>5 DEF AsAsked
  <2>3. CASE inv' = inv
    BY <2>3 DEF SameView
  <2>4. CASE inv' # inv
    <3>1. Good(inv') /\ MadeOf(inv', Requests(source, infos, Present(inv', all)))
      BY <1>5, <2>1, <2>4, RefreshMakes
    <3>2. \A info \in all :
            /\ info \in GroupInfos /\ info.host \in HostsOf(inv, info.group)
            /\ \A p \in info.parents : <<p, info.group>> \in inv.children
      BY <1>1 DEF AllApplied, LogsOK, ToSet
    <3> HIDE DEF infos, all
    <3>3. \A info \in all : Grows(inv, inv, OfGrouping(info))
      BY <1>1, <3>2, GroupingThere
    <3> DEFINE qs == {OfGrouping(info) : info \in all}
    <3>4. \A r \in qs : Grows(inv, inv, r)
      BY <3>3
    <3> HIDE DEF qs
    <3>5. MadeOf(inv, Requests(source, infos, gs) \cup qs)
      BY <1>1, <2>2, <3>4, MadeOfMore
    <3>6. Requests(source, infos, gs) \cup qs = Requests(source, infos, all)
      BY <2>2 DEF Requests, qs
    <3>7. inv'.hosts = inv.hosts
      <4>1. /\ inv'.hosts = UNION {r.hosts : r \in Requests(source, infos, Present(inv', all))}
            /\ inv.hosts = UNION {r.hosts : r \in Requests(source, infos, gs)}
        BY <2>2, <3>1 DEF MadeOf
      <4>2. \A is : UNION {r.hosts : r \in Requests(source, infos, is)} =
                     OfSource(source).hosts \cup UNION {OfHost(info).hosts : info \in infos}
        BY DEF Requests, OfGrouping
      <4> QED
        BY <4>1, <4>2
    <3>8. Present(inv', all) = all
      <4>1. \A info \in all : info.host \in inv.hosts
        <5>1. Sound(inv) /\ \A info \in all : info.group \in GroupNames
          BY <1>1, <3>2, InfoTypes DEF Good
        <5> QED
          BY <3>2, <5>1, HostsAreThere
      <4> QED
        BY <3>7, <4>1 DEF Present
    <3>9. MadeOf(inv', Requests(source, infos, all))
      BY <3>1, <3>8
    <3>10. MadeOf(inv, Requests(source, infos, all))
      BY <3>5, <3>6
    <3> QED
      BY <1>1, <3>1, <3>9, <3>10, SameRequestsSameView
  <2> QED
    BY <2>3, <2>4
<1> QED
  BY <1>2, <1>3, <1>4, <1>5, StepKinds

-----------------------------------------------------------------------------
(* The results.                                                            *)

(* Inductive says of every state: groups and hosts are linked soundly and  *)
(* without loops, depths grow downwards, every cache holds what would be   *)
(* found anew, and, when nobody links ungrouped to another group, hosts    *)
(* know their groups (data.py, group.py, host.py and manager.py together). *)
THEOREM InventoryInvariance == Spec => []Inductive
<1>1. Init => Inductive
  BY InitInductive
<1>2. Inductive /\ [Next]_vars => Inductive'
  BY StepInductive
<1> QED
  BY <1>1, <1>2, PTL DEF Spec

(* The inventory, the restriction and both caches of patterns have their   *)
(* types.                                                                  *)
THEOREM InventoryTypeInvariance == Spec => []InventoryTypeOK
<1>1. Inductive => InventoryTypeOK
  BY AnswersAreKnown DEF Inductive, Sound, LogsOK, PatternsOK, AnswersKnown, InventoryTypeOK
<1> QED
  BY <1>1, InventoryInvariance, PTL

(* Whatever the sources hold and tasks add, no cached list of hosts        *)
(* outlives a change: a group's, the groups variable's, or a name's.       *)
THEOREM CachesStayFresh == Spec => []CachesFresh
<1>1. ASSUME Inductive PROVE CachesFresh
  <2>1. /\ DictOK /\ SeenOK(inv)
        /\ \A n \in Names : pattern_cache[n] \in {Unknown, Named(inv, n)}
    BY <1>1 DEF Inductive, Sound, PatternsOK
  <2>2. inv.groups \in SUBSET GroupNames
    BY <1>1, Fields DEF Inductive, Sound
  <2>3. \A g \in inv.groups : g \in Names /\ Named(inv, g) = HostsOf(inv, g)
    BY <2>2 DEF Names, Named
  <2> QED
    BY <2>1, <2>2, <2>3 DEF CachesFresh, SeenOK, DictOK
<1> QED
  BY <1>1, InventoryInvariance, PTL

(* A group is deeper than every group above it, in whichever order groups  *)
(* and edges came.                                                         *)
THEOREM DepthsAreRight == Spec => []ChildrenAreDeeper
<1>1. Inductive => ChildrenAreDeeper
  BY DEF Inductive, Sound, Deeper, ChildrenAreDeeper
<1> QED
  BY <1>1, InventoryInvariance, PTL

(* Hosts take to be their groups exactly those that have them, and are in  *)
(* ungrouped when they are in no group of the user, if nobody links        *)
(* ungrouped to another group: the run of InventoryUngrouped.cfg shows     *)
(* that it fails otherwise.                                                *)
THEOREM HostsKnowTheirGroups ==
  ASSUME UngroupedApart
  PROVE  Spec => []KnowsItsGroups
<1>1. ASSUME Inductive PROVE KnowsItsGroups
  <2>1. Sound(inv) /\ Told(inv) /\ Settled(inv) /\ inv \in Inventories
    BY <1>1 DEF Inductive, Sound
  <2>2. inv.hosts \in SUBSET HostNames /\ inv.groups \in SUBSET GroupNames
    BY <2>1, Fields
  <2>3. \A g \in GroupNames : g \notin inv.groups => HostsOf(inv, g) = {}
    BY <2>1, NoGroupNoHosts
  <2>4. ASSUME NEW h \in inv.hosts
        PROVE  inv.groupsOf[h] = {g \in inv.groups : h \in HostsOf(inv, g)}
    <3>1. inv.groupsOf[h] = {g \in GroupNames : h \in HostsOf(inv, g)}
      BY <2>1, <2>2 DEF Told
    <3> QED
      BY <2>2, <2>3, <3>1
  <2>5. \A g \in UserGroups : g \in GroupNames
    BY DEF GroupNames
  <2> DEFINE hosts == [g \in GroupNames |-> HostsOf(inv, g)]
  <2>6. \A g \in GroupNames : hosts[g] = HostsOf(inv, g)
    OBVIOUS
  <2>7. \A h \in inv.hosts : inv.groupsOf[h] = {g \in inv.groups : h \in hosts[g]}
    BY <2>2, <2>4
  <2>8. \A h \in inv.hosts :
          /\ h \in hosts["all"]
          /\ h \in hosts["ungrouped"] <=> \A g \in UserGroups : h \notin hosts[g]
    BY <2>1, <2>5, NamesFinite DEF Settled
  <2> HIDE DEF hosts
  <2> QED
    BY <2>7, <2>8 DEF KnowsItsGroups, hosts
<1> QED
  BY <1>1, InventoryInvariance, PTL

(* A pattern is answered, from the caches or not, by the hosts it means    *)
(* now, with --limit and the batch, if hosts and groups have names apart   *)
(* (reconcile_inventory warns of others), different questions have         *)
(* different keys in the cache (the run inventory_restricted shows that    *)
(* the answer is wrong otherwise) and nobody links ungrouped.              *)
THEOREM AnswersStayTrue ==
  ASSUME NamesApart, HashesTellApart, UngroupedApart
  PROVE  Spec => []AnswersAreTrue
<1>1. ASSUME Inductive PROVE AnswersAreTrue
  <2>1. LogsOK /\ Sound(inv) /\ Settled(inv) /\ PatternsOK /\ AnswersKnown
    BY <1>1, AnswersAreKnown DEF Inductive
  <2> DEFINE hosts == [g \in GroupNames |-> HostsOf(inv, g)]
  <2>2. ASSUME NEW p \in Patterns, NEW c \in Contexts
        PROVE  Answer(p, Limit(c[1]), Restriction(c[2])) = Meant(p, Limit(c[1]), Restriction(c[2]), hosts)
    <3>1. PICK l \in Limits \cup {<<>>} : l = Limit(c[1])
      BY <2>1 DEF LogsOK, Limit
    <3>2. PICK b \in Batches \cup {{}} : b = Restriction(c[2])
      BY <2>1 DEF LogsOK, Restriction
    <3> DEFINE hash == PatternHash(p, l, b)
    <3>3. CASE hash \in DOMAIN hosts_patterns_cache
      <4>1. AnswerTo(hash, hosts_patterns_cache[hash])
        BY <2>1, <3>3 DEF AnswersKnown
      <4>2. PICK q \in Patterns, m \in Limits \cup {<<>>}, d \in Batches \cup {{}} :
              hash = PatternHash(q, m, d) /\ hosts_patterns_cache[hash] = Meant(q, m, d, hosts)
        BY <4>1 DEF AnswerTo
      <4>3. q = p /\ m = l /\ d = b
        BY <4>2 DEF HashesTellApart
      <4>4. Answer(p, l, b) = hosts_patterns_cache[hash]
        BY <3>3 DEF Answer
      <4> QED
        BY <3>1, <3>2, <4>2, <4>3, <4>4
    <3>4. CASE hash \notin DOMAIN hosts_patterns_cache
      <4>1. Answer(p, l, b) = Fresh(p, l, b)
        BY <3>4 DEF Answer
      <4>2. Fresh(p, l, b) = Meant(p, l, b, hosts)
        BY <2>1, FreshIsMeant
      <4> QED
        BY <3>1, <3>2, <4>1, <4>2
    <3> QED
      BY <3>3, <3>4
  <2> QED
    BY <2>2 DEF AnswersAreTrue
<1> QED
  BY <1>1, InventoryInvariance, PTL

(* While a batch runs, hosts outside it are given out in one way only:     *)
(* another question has the same key, and theirs is the true answer to     *)
(* that question now. No stale answer, and none of a key of its own, gives *)
(* out another host. (InventoryRestricted.cfg shows that keys do meet.)    *)
THEOREM BatchUnlessKeysMeet ==
  ASSUME NamesApart, UngroupedApart
  PROVE  Spec => []OutsidersAnswerAnother
<1>1. ASSUME Inductive PROVE OutsidersAnswerAnother
  <2>1. LogsOK /\ Sound(inv) /\ Settled(inv) /\ PatternsOK /\ AnswersKnown
    BY <1>1, AnswersAreKnown DEF Inductive
  <2> DEFINE hosts == [g \in GroupNames |-> HostsOf(inv, g)]
  <2>2. PICK l \in Limits \cup {<<>>} : l = subset
    BY <2>1 DEF LogsOK
  <2>3. PICK b \in Batches \cup {{}} : b = restriction
    BY <2>1 DEF LogsOK
  <2>4. ASSUME NEW p \in Patterns, b # {}, ~(Answer(p, l, b) \subseteq b)
        PROVE  \E q \in Patterns, m \in Limits \cup {<<>>}, d \in Batches \cup {{}} :
                 /\ <<q, m, d>> # <<p, l, b>>
                 /\ PatternHash(q, m, d) = PatternHash(p, l, b)
                 /\ Answer(p, l, b) = Meant(q, m, d, hosts)
    <3> DEFINE hash == PatternHash(p, l, b)
    <3>1. Meant(p, l, b, hosts) \subseteq b
      BY <2>4 DEF Meant
    <3>2. CASE hash \in DOMAIN hosts_patterns_cache
      <4>1. AnswerTo(hash, hosts_patterns_cache[hash])
        BY <2>1, <3>2 DEF AnswersKnown
      <4>2. PICK q \in Patterns, m \in Limits \cup {<<>>}, d \in Batches \cup {{}} :
              hash = PatternHash(q, m, d) /\ hosts_patterns_cache[hash] = Meant(q, m, d, hosts)
        BY <4>1 DEF AnswerTo
      <4>3. Answer(p, l, b) = hosts_patterns_cache[hash]
        BY <3>2 DEF Answer
      <4>4. <<q, m, d>> # <<p, l, b>>
        <5>1. SUFFICES ASSUME q = p /\ m = l /\ d = b PROVE FALSE
          OBVIOUS
        <5>2. Answer(p, l, b) = Meant(p, l, b, hosts)
          BY <4>2, <4>3, <5>1
        <5> QED
          BY <2>4, <3>1, <5>2
      <4> QED
        BY <4>2, <4>3, <4>4
    <3>3. CASE hash \notin DOMAIN hosts_patterns_cache
      <4>1. Answer(p, l, b) = Fresh(p, l, b)
        BY <3>3 DEF Answer
      <4>2. Fresh(p, l, b) = Meant(p, l, b, hosts)
        BY <2>1, FreshIsMeant
      <4> QED
        BY <2>4, <3>1, <4>1, <4>2
    <3> QED
      BY <3>2, <3>3
  <2> QED
    BY <2>2, <2>3, <2>4 DEF OutsidersAnswerAnother
<1> QED
  BY <1>1, InventoryInvariance, PTL

(* The inventory has what the source that was last read, the add_host      *)
(* results and some of the group_by results ask for, and nothing else but  *)
(* what reconcile_inventory does to all and ungrouped: only a group_by     *)
(* result whose host was not there is skipped when refresh_inventory       *)
(* replays the logs (manager.py), if nobody links ungrouped.               *)
THEOREM InventoryIsAsAsked ==
  ASSUME UngroupedApart
  PROVE  Spec => []AsAsked
<1>1. Init => AsAsked
  BY InitAsAsked
<1>2. Inductive /\ AsAsked /\ [Next]_vars => AsAsked'
  BY StepAsAsked
<1> QED
  BY <1>1, <1>2, InventoryInvariance, PTL DEF Spec

(* When the sources are read again and hold what they held, groups, hosts, *)
(* the hosts of each group, the groups of each host and the depths are     *)
(* what they were, however many hosts and groups tasks have added and in   *)
(* whichever order, if every group_by result still has its effect and      *)
(* nobody links ungrouped.                                                 *)
THEOREM RefreshRestored ==
  ASSUME UngroupedApart
  PROVE  Spec => RefreshRestores
<1>1. Inductive /\ AsAsked /\ [Next]_vars =>
        [AllApplied /\ Refreshes /\ source' = source => SameView(inv, inv')]_vars
  BY StepRestores
<1> QED
  BY <1>1, InventoryInvariance, InventoryIsAsAsked, PTL DEF Spec, RefreshRestores

=============================================================================
