--------------------------- MODULE GeometryProofs ---------------------------
(***************************************************************************)
(* What the operators on roads, walks and collecting guarantee, for every  *)
(* map and every lattice: what the tables of a road network return, what   *)
(* rounding does, when a walk ends and where, and that the quotients of    *)
(* TryCollectPoint and IsCollected amount, for a move along one axis, to   *)
(* comparing coordinates.                                                  *)
(***************************************************************************)
EXTENDS DogWalk, CollectionGeometry, TLAPS, SequenceTheorems,
        WellFoundedInduction

-----------------------------------------------------------------------------
(* Roads.                                                                  *)

\* The lattice has more than two borders to a map unit.
LEMMA LatticeFacts ==
    /\ Unit \in Nat /\ Unit > 0
    /\ Boundary \in Nat
    /\ 2 * Boundary < Unit
BY LatticeAssumption

\* Scaling to the lattice keeps the order of map coordinates.
LEMMA ScaleMonotone ==
    ASSUME NEW m \in Int, NEW n \in Int
    PROVE  /\ Unit * m \in Int
           /\ m <= n => Unit * m <= Unit * n
           /\ Unit * m < Unit * n => m < n
           /\ Unit * (m - 1) = Unit * m - Unit
           /\ Unit * (m + 1) = Unit * m + Unit
BY LatticeFacts, SMTT(60)

\* Division by the size of a map unit.
LEMMA UnitDivision ==
    ASSUME NEW v \in Int
    PROVE  /\ v \div Unit \in Int
           /\ v % Unit \in 0 .. Unit - 1
           /\ v = (Unit * (v \div Unit)) + (v % Unit)
BY LatticeFacts, SMTT(60)

\* Rounding a coordinate that is less than a border and a half left of the
\* map gives the crossing whose rounding interval holds the coordinate.
LEMMA RoundCoordBounds ==
    ASSUME NEW v \in Int, Boundary - Unit < v
    PROVE  /\ RoundCoord(v) \in Nat
           /\ Unit * (RoundCoord(v) - 1) + Boundary < v
           /\ v <= Unit * RoundCoord(v) + Boundary
<1> USE LatticeFacts
<1>1. CASE v < 0
  <2>1. (-v) \div Unit = 0
    BY <1>1, -v \in Int, -v >= 0, -v < Unit, SMTT(60)
  <2>2. RoundCoord(v) = 0
    BY <1>1, <2>1 DEF RoundCoord
  <2> QED BY <1>1, <2>2
<1>2. CASE v >= 0 /\ v % Unit <= Boundary
  <2> DEFINE q == v \div Unit
             r == v % Unit
  <2>1. RoundCoord(v) = q BY <1>2 DEF RoundCoord
  <2>2. q \in Int /\ r \in 0 .. Unit - 1 /\ v = Unit * q + r BY UnitDivision
  <2>3. q >= 0 
    <3> HIDE DEF q, r
    <3>1. SUFFICES ASSUME q <= -1 PROVE FALSE BY <2>2
    <3>2. Unit * q <= Unit * (-1) BY <2>2, <3>1, ScaleMonotone
    <3> QED BY <3>2, <2>2, <1>2
  <2>4. Unit * (q - 1) = Unit * q - Unit /\ Unit * q \in Int
    BY <2>2, ScaleMonotone
  <2>5. r <= Boundary BY <1>2
  <2> HIDE DEF q, r
  <2> QED BY <2>1, <2>2, <2>3, <2>4, <2>5
<1>3. CASE v >= 0 /\ ~(v % Unit <= Boundary)
  <2> DEFINE q == v \div Unit
             r == v % Unit
  <2>1. RoundCoord(v) = q + 1 BY <1>3 DEF RoundCoord
  <2>2. q \in Int /\ r \in 0 .. Unit - 1 /\ v = Unit * q + r BY UnitDivision
  <2>3. q >= 0 
    <3> HIDE DEF q, r
    <3>1. SUFFICES ASSUME q <= -1 PROVE FALSE BY <2>2
    <3>2. Unit * q <= Unit * (-1) BY <2>2, <3>1, ScaleMonotone
    <3> QED BY <3>2, <2>2, <1>3
  <2>4. Unit * (q + 1) = Unit * q + Unit /\ Unit * q \in Int
    BY <2>2, ScaleMonotone
  <2>5. r > Boundary BY <1>3, <2>2
  <2> HIDE DEF q, r
  <2>6. (q + 1) - 1 = q BY <2>2
  <2> QED BY <2>1, <2>2, <2>3, <2>4, <2>5, <2>6
<1> QED BY <1>1, <1>2, <1>3

\* A nonempty set of road numbers has a least one, so a table that holds a
\* road under a key holds one of the roads that have that key.
LEMMA FirstInsertedIsMember ==
    ASSUME NEW S \in SUBSET Nat, S # {}
    PROVE  FirstInserted(S) \in S
<1>1. IsWellFoundedOn(OpToRel(<, Nat), Nat) BY NatLessThanWellFounded
<1>2. PICK m \in S : \A j \in S : ~(<<j, m>> \in OpToRel(<, Nat))
  BY <1>1, WFMin
<1>3. ASSUME NEW j \in S, j < m PROVE <<j, m>> \in OpToRel(<, Nat)
  BY <1>3 DEF OpToRel
<1>4. ASSUME NEW j \in S PROVE m <= j
  <2>1. ~(j < m)
    <3>1. ~(<<j, m>> \in OpToRel(<, Nat)) BY <1>2
    <3> QED BY <1>3, <3>1
  <2> QED BY <2>1
<1> QED BY <1>4 DEF FirstInserted

\* The road numbers are the positions of Roads.
LEMMA RoadIdsAreNaturals == RoadIds \subseteq Nat \ {0}
BY RoadsAssumption DEF RoadIds

\* A directed road has natural coordinates and starts where it does not end
\* before.
LEMMA DirectedIsOrdered ==
    ASSUME NEW i \in RoadIds
    PROVE  /\ Directed(i).start \in Crossings
           /\ Directed(i).end \in Crossings
           /\ \A a \in Axes : Directed(i).start[a] <= Directed(i).end[a]
<1>1. /\ Roads[i].start \in Crossings /\ Roads[i].end \in Crossings
      /\ \E a \in Axes : Roads[i].start[a] = Roads[i].end[a]
  <2>1. Roads[i] \in [start : Crossings, end : Crossings]
    <3> DEFINE T == [start : Crossings, end : Crossings]
    <3>1. Roads \in Seq(T) BY RoadsAssumption
    <3>2. i \in 1 .. Len(Roads) BY <3>1 DEF RoadIds
    <3> HIDE DEF T
    <3>3. Roads[i] \in T BY <3>1, <3>2, ElementOfSeq
    <3> QED BY <3>3 DEF T
  <2> QED BY <2>1, RoadsAssumption
<1>2. Lengthwise(i) \in Axes BY DEF Lengthwise, Axes
<1>3. \A a \in Axes : Roads[i].start[a] \in Nat /\ Roads[i].end[a] \in Nat
  BY <1>1 DEF Crossings
<1>4. \A a \in Axes : a # Lengthwise(i) => Roads[i].start[a] = Roads[i].end[a]
  BY <1>1 DEF Lengthwise, IsHorizontal, Axes
<1>5. CASE Roads[i].start[Lengthwise(i)] < Roads[i].end[Lengthwise(i)]
  <2>1. Directed(i) = Roads[i] BY <1>5 DEF Directed
  <2> QED BY <2>1, <1>1, <1>2, <1>3, <1>4, <1>5
<1>6. CASE ~(Roads[i].start[Lengthwise(i)] < Roads[i].end[Lengthwise(i)])
  <2>1. Directed(i).start = Roads[i].end /\ Directed(i).end = Roads[i].start
    BY <1>6 DEF Directed
  <2> QED BY <2>1, <1>1, <1>2, <1>3, <1>4, <1>6
<1> QED BY <1>5, <1>6

\* A road found in a table ends or begins at the crossing it was found at.
LEMMA NextRoadMeets ==
    ASSUME NEW d \in Moves, NEW p, NextRoad(d, p) # NoRoad
    PROVE  /\ NextRoad(d, p) \in RoadIds
           /\ NearEnd(d, NextRoad(d, p)) = p
           /\ \/ Directed(NextRoad(d, p)).start = p
              \/ Directed(NextRoad(d, p)).end = p
<1>1. RoadsFrom(d, p) \subseteq RoadIds BY DEF RoadsFrom
<1>2. RoadsFrom(d, p) # {} BY DEF NextRoad, FirstInserted
<1>3. NextRoad(d, p) \in RoadsFrom(d, p)
  BY <1>1, <1>2, RoadIdsAreNaturals, FirstInsertedIsMember DEF NextRoad
<1> QED BY <1>3 DEF RoadsFrom, NearEnd
-----------------------------------------------------------------------------
(* Walks.                                                                  *)

\* A set that holds a number whenever it holds all smaller ones holds all.
LEMMA SetInduction ==
    ASSUME NEW T, \A n \in Nat : (\A m \in 0 .. n - 1 : m \in T) => n \in T
    PROVE  Nat \subseteq T
<1> DEFINE B == Nat \ T
<1>1. SUFFICES ASSUME B # {} PROVE FALSE
  OBVIOUS
<1>2. IsWellFoundedOn(OpToRel(<, Nat), Nat) BY NatLessThanWellFounded
<1>3. PICK n \in B : \A m \in B : ~(<<m, n>> \in OpToRel(<, Nat))
  BY <1>1, <1>2, WFMin
<1>4. ASSUME NEW m \in 0 .. n - 1 PROVE m \in T
  <2>1. SUFFICES ASSUME m \notin T PROVE FALSE
    OBVIOUS
  <2>2. <<m, n>> \in OpToRel(<, Nat) BY DEF OpToRel
  <2>3. m \in B BY <2>1
  <2> QED BY <2>2, <2>3, <1>3
<1>5. n \in T BY <1>4
<1> QED BY <1>5

\* No road starts where it ends.  Along such a road the loop of a MoveDog
\* function would find the same road again and again.
NoEmptyRoads == \A i \in RoadIds : Roads[i].start # Roads[i].end

\* A road that is not empty gets on along its length.
LEMMA RoadGetsOn ==
    ASSUME NoEmptyRoads, NEW i \in RoadIds
    PROVE  Directed(i).start[Lengthwise(i)] < Directed(i).end[Lengthwise(i)]
<1>1. Directed(i).start[Lengthwise(i)] <= Directed(i).end[Lengthwise(i)]
  BY DirectedIsOrdered DEF Lengthwise, Axes
<1>2. /\ Directed(i).start[Lengthwise(i)] \in Nat
      /\ Directed(i).end[Lengthwise(i)] \in Nat
  BY DirectedIsOrdered DEF Crossings, Lengthwise, Axes
<1>3. Roads[i].start \in Crossings /\ Roads[i].end \in Crossings
  <2>1. {Roads[i].start, Roads[i].end} = {Directed(i).start, Directed(i).end}
    BY DEF Directed
  <2> QED BY <2>1, DirectedIsOrdered
<1>4. Roads[i].start[Lengthwise(i)] # Roads[i].end[Lengthwise(i)]
  <2>1. SUFFICES ASSUME Roads[i].start[Lengthwise(i)] = Roads[i].end[Lengthwise(i)]
                 PROVE  FALSE
    OBVIOUS
  <2>2. \A a \in Axes : Roads[i].start[a] = Roads[i].end[a]
    BY <2>1, RoadsAssumption DEF Lengthwise, IsHorizontal, Axes
  <2>3. Roads[i].start = Roads[i].end BY <1>3, <2>2 DEF Crossings
  <2> QED BY <2>3 DEF NoEmptyRoads
<1>5. Directed(i).start[Lengthwise(i)] # Directed(i).end[Lengthwise(i)]
  BY <1>4 DEF Directed
<1> QED BY <1>1, <1>2, <1>5

\* The border a dog walks to, and the crossing it rounds to.
LEMMA BorderRoundsToEnd ==
    ASSUME NEW dir \in Moves, NEW i \in RoadIds
    PROVE  /\ FarEnd(dir, i)[AxisOf(dir)] \in Nat
           /\ RoadEdge(dir, i) \in Int
           /\ RoundCoord(RoadEdge(dir, i)) = FarEnd(dir, i)[AxisOf(dir)]
<1> DEFINE far == FarEnd(dir, i)[AxisOf(dir)]
           edge == RoadEdge(dir, i)
           r == RoundCoord(edge)
<1>1. far \in Nat
  BY DirectedIsOrdered DEF FarEnd, Crossings, AxisOf, Axes
<1>2. edge = IF Forward(dir) THEN Unit * far + Boundary ELSE Unit * far - Boundary
  BY DEF RoadEdge
<1> HIDE DEF far, edge
<1>3. Unit * far \in Int /\ Unit * far >= 0
  <2>1. Unit * 0 <= Unit * far /\ Unit * 0 = 0 BY <1>1, LatticeFacts, ScaleMonotone
  <2> QED BY <2>1, <1>1, ScaleMonotone
<1>4. edge \in Int /\ Boundary - Unit < edge BY <1>2, <1>3, LatticeFacts
<1>5. /\ r \in Nat /\ Unit * (r - 1) + Boundary < edge
      /\ edge <= Unit * r + Boundary
  BY <1>4, RoundCoordBounds
<1> HIDE DEF r
<1>6. /\ Unit * r \in Int /\ Unit * (r - 1) = Unit * r - Unit
      /\ Unit * (r + 1) = Unit * r + Unit
  BY <1>5, ScaleMonotone
<1>7. Unit * (r - 1) < Unit * far /\ Unit * far < Unit * (r + 1)
  BY <1>2, <1>3, <1>5, <1>6, LatticeFacts
<1>8. r - 1 < far /\ far < r + 1
  BY <1>1, <1>5, <1>7, ScaleMonotone
<1>9. r = far BY <1>1, <1>5, <1>8
<1> QED BY <1>1, <1>4, <1>9 DEF far, edge, r

\* The coordinates of all roads have a bound.
LEMMA RoadsAreBounded ==
    \E M \in Nat : \A i \in RoadIds : \A a \in Axes :
        Directed(i).start[a] <= M /\ Directed(i).end[a] <= M
<1> DEFINE Bounds(M, n) == \A i \in RoadIds : i <= n => \A a \in Axes :
                              Directed(i).start[a] <= M /\ Directed(i).end[a] <= M
           T == {n \in Nat : \E M \in Nat : Bounds(M, n)}
<1>1. ASSUME NEW n \in Nat, \A m \in 0 .. n - 1 : m \in T PROVE n \in T
  <2>1. CASE n \notin RoadIds
    <3>1. PICK M \in Nat : n > 0 => Bounds(M, n - 1)
      <4>1. CASE n = 0 BY <4>1
      <4>2. CASE n > 0
        <5>1. n - 1 \in T BY <4>2, <1>1
        <5> QED BY <5>1
      <4> QED BY <4>1, <4>2
    <3>2. \A i \in RoadIds : i <= n => n > 0 /\ i <= n - 1
      BY <2>1, RoadIdsAreNaturals
    <3> QED BY <3>1, <3>2
  <2>2. CASE n \in RoadIds
    <3>0. n > 0 /\ n - 1 \in 0 .. n - 1 BY <2>2, RoadIdsAreNaturals
    <3>1. n - 1 \in T BY <3>0, <1>1
    <3>2. PICK M \in Nat : Bounds(M, n - 1) BY <3>1
    <3> DEFINE x == Directed(n).end["x"]
               y == Directed(n).end["y"]
               N == M + x + y
    <3>3. x \in Nat /\ y \in Nat /\ N \in Nat
      BY <2>2, DirectedIsOrdered DEF Crossings, Axes
    <3>4. \A a \in Axes : Directed(n).start[a] <= N /\ Directed(n).end[a] <= N
      <4>1. ASSUME NEW a \in Axes
            PROVE  Directed(n).end[a] <= N /\ Directed(n).end[a] \in Nat
        <5>1. Directed(n).end[a] = x \/ Directed(n).end[a] = y BY DEF Axes
        <5> HIDE DEF x, y
        <5> QED BY <5>1, <3>3
      <4>2. \A a \in Axes : /\ Directed(n).start[a] \in Nat
                            /\ Directed(n).start[a] <= Directed(n).end[a]
        BY <2>2, DirectedIsOrdered DEF Crossings
      <4> HIDE DEF N
      <4> QED BY <4>1, <4>2, <3>3
    <3>5. ASSUME NEW i \in RoadIds, i <= n, NEW a \in Axes
          PROVE  Directed(i).start[a] <= N /\ Directed(i).end[a] <= N
      <4>1. CASE i = n BY <4>1, <3>4
      <4>2. CASE i <= n - 1
        <5>1. Directed(i).start[a] <= M /\ Directed(i).end[a] <= M BY <4>2, <3>2
        <5>2. Directed(i).start[a] \in Nat /\ Directed(i).end[a] \in Nat
          BY DirectedIsOrdered DEF Crossings
        <5>3. M <= N 
          <6> HIDE DEF x, y
          <6> QED BY <3>3
        <5> HIDE DEF N
        <5> QED BY <5>1, <5>2, <5>3, <3>3
      <4> QED BY <4>1, <4>2, <3>5, RoadIdsAreNaturals
    <3> HIDE DEF N
    <3> QED BY <3>3, <3>5
  <2> QED BY <2>1, <2>2
<1>2. Nat \subseteq T 
  <2> HIDE DEF T
  <2> QED BY <1>1, SetInduction
<1>3. Roads \in Seq([start : Crossings, end : Crossings]) BY RoadsAssumption
<1>4. Len(Roads) \in Nat /\ RoadIds = 1 .. Len(Roads)
  <2> DEFINE R == [start : Crossings, end : Crossings]
  <2>1. Roads \in Seq(R) BY <1>3
  <2> HIDE DEF R
  <2> QED BY <2>1 DEF RoadIds
<1>5. PICK M \in Nat : Bounds(M, Len(Roads)) BY <1>2, <1>4
<1>6. \A i \in RoadIds : i <= Len(Roads) BY <1>4
<1> QED BY <1>5, <1>6

\* The road beyond begins where the walk is at the border, and lies along it.
LEMMA RoadBeyondMeets ==
    ASSUME NEW dir \in Moves, NEW w \in Walks, RoadBeyond(dir, w) # NoRoad
    PROVE  /\ RoadBeyond(dir, w) \in RoadIds
           /\ Lengthwise(RoadBeyond(dir, w)) = AxisOf(dir)
           /\ NearEnd(dir, RoadBeyond(dir, w))[AxisOf(dir)]
                = FarEnd(dir, w.road)[AxisOf(dir)]
<1> DEFINE p == RoundCoordinates(AtBorder(dir, w))
           j == RoadBeyond(dir, w)
<1>1. j = NextRoad(dir, p) BY DEF RoadBeyond
<1>2. w.road \in RoadIds /\ w.at \in Positions BY DEF Walks
<1>3. j \in RoadsFrom(dir, p)
  <2>1. RoadsFrom(dir, p) # {} BY <1>1 DEF NextRoad, FirstInserted
  <2>2. RoadsFrom(dir, p) \subseteq Nat BY RoadIdsAreNaturals DEF RoadsFrom
  <2> QED BY <2>1, <2>2, <1>1, FirstInsertedIsMember DEF NextRoad
<1>4. p[AxisOf(dir)] = RoundCoord(Border(dir, w))
  BY <1>2 DEF RoundCoordinates, AtBorder, Positions, AxisOf, Axes
<1>5. p[AxisOf(dir)] = FarEnd(dir, w.road)[AxisOf(dir)]
  BY <1>2, <1>4, BorderRoundsToEnd DEF Border
<1> HIDE DEF p, j
<1>6. j \in RoadIds /\ Lengthwise(j) = AxisOf(dir) /\ NearEnd(dir, j) = p
  BY <1>3 DEF RoadsFrom
<1> QED BY <1>5, <1>6 DEF j

\* So the roads a walk goes over run out: each is further on than the last.
THEOREM RoadsRunOut ==
    ASSUME NoEmptyRoads, NEW dir \in Moves
    PROVE  \E M \in Nat : \E rank \in [RoadIds -> 0 .. M] : \A w \in Walks :
              RoadBeyond(dir, w) # NoRoad =>
                  /\ RoadBeyond(dir, w) \in RoadIds
                  /\ rank[RoadBeyond(dir, w)] < rank[w.road]
<1>1. PICK M \in Nat : \A i \in RoadIds : \A a \in Axes :
          Directed(i).start[a] <= M /\ Directed(i).end[a] <= M
  BY RoadsAreBounded
<1> DEFINE far(i) == FarEnd(dir, i)[AxisOf(dir)]
           near(i) == NearEnd(dir, i)[AxisOf(dir)]
           rank == [i \in RoadIds |-> IF Forward(dir) THEN M - far(i) ELSE far(i)]
<1>2. ASSUME NEW i \in RoadIds
      PROVE  far(i) \in 0 .. M /\ near(i) \in 0 .. M
  <2>1. AxisOf(dir) \in Axes BY DEF AxisOf, Axes
  <2> QED BY <1>1, <2>1, DirectedIsOrdered DEF FarEnd, NearEnd, Crossings
<1>3. rank \in [RoadIds -> 0 .. M]
  <2> HIDE DEF far
  <2> QED BY <1>2
<1>4. ASSUME NEW w \in Walks, RoadBeyond(dir, w) # NoRoad
      PROVE  /\ RoadBeyond(dir, w) \in RoadIds
             /\ rank[RoadBeyond(dir, w)] < rank[w.road]
  <2> DEFINE j == RoadBeyond(dir, w)
             i == w.road
  <2>1. i \in RoadIds BY DEF Walks
  <2>2. j \in RoadIds /\ Lengthwise(j) = AxisOf(dir) /\ near(j) = far(i)
    BY <1>4, RoadBeyondMeets
  <2>3. Directed(j).start[AxisOf(dir)] < Directed(j).end[AxisOf(dir)]
    BY <2>2, RoadGetsOn
  <2>4. IF Forward(dir) THEN near(j) < far(j) ELSE far(j) < near(j)
    BY <2>3 DEF FarEnd, NearEnd
  <2> HIDE DEF j, i, far, near
  <2>5. rank[j] < rank[i] BY <2>1, <2>2, <2>4, <1>2
  <2> QED BY <2>2, <2>5 DEF i, j
<1> QED BY <1>3, <1>4

\* What is left of a walk that goes on is again a walk.
LEMMA OnwardsIsAWalk ==
    ASSUME NEW dir \in Moves, NEW w \in Walks, RoadBeyond(dir, w) # NoRoad
    PROVE  /\ Onwards(dir, w) \in Walks
           /\ Onwards(dir, w).road = RoadBeyond(dir, w)
           /\ Onwards(dir, w).at[Across(dir)] = w.at[Across(dir)]
<1>1. w.at \in Positions /\ w.road \in RoadIds /\ w.left \in Int BY DEF Walks
<1>2. Border(dir, w) \in Int BY <1>1, BorderRoundsToEnd DEF Border
<1>3. AxisOf(dir) \in Axes /\ Across(dir) \in Axes /\ AxisOf(dir) # Across(dir)
  BY DEF AxisOf, Across, Axes
<1>4. /\ AtBorder(dir, w) \in Positions
      /\ AtBorder(dir, w)[Across(dir)] = w.at[Across(dir)]
  BY <1>1, <1>2, <1>3 DEF AtBorder, Positions
<1>5. w.left - (Border(dir, w) - w.at[AxisOf(dir)]) \in Int
  BY <1>1, <1>2, <1>3 DEF Positions
<1> QED BY <1>4, <1>5, RoadBeyondMeets DEF Onwards, Walks

\* Where a walk may end.
Arrivals == [pos : Positions, road : RoadIds, stopped : BOOLEAN]

LEMMA EndOfWalk ==
    ASSUME NEW dir \in Moves, NEW w \in Walks
    PROVE  /\ EndOf(dir, w) \in Arrivals
           /\ EndOf(dir, w).pos[Across(dir)] = w.at[Across(dir)]
<1>1. w.at \in Positions /\ w.road \in RoadIds /\ w.left \in Int BY DEF Walks
<1>2. Border(dir, w) \in Int BY <1>1, BorderRoundsToEnd DEF Border
<1>3. AxisOf(dir) \in Axes /\ Across(dir) \in Axes /\ AxisOf(dir) # Across(dir)
  BY DEF AxisOf, Across, Axes
<1>4. /\ AtBorder(dir, w) \in Positions
      /\ AtBorder(dir, w)[Across(dir)] = w.at[Across(dir)]
  BY <1>1, <1>2, <1>3 DEF AtBorder, Positions
<1>5. Goal(dir, w) \in Int BY <1>1, <1>3 DEF Goal, Positions
<1> DEFINE q == [w.at EXCEPT ![AxisOf(dir)] = Goal(dir, w)]
<1>6. q \in Positions /\ q[Across(dir)] = w.at[Across(dir)]
  BY <1>1, <1>3, <1>5 DEF Positions
<1> HIDE DEF q
<1>7. EndOf(dir, w) =
        IF Reaches(dir, w.road, Goal(dir, w))
        THEN [pos |-> q, road |-> w.road, stopped |-> Goal(dir, w) = Border(dir, w)]
        ELSE [pos |-> AtBorder(dir, w), road |-> w.road, stopped |-> TRUE]
  BY DEF EndOf, q
<1> QED BY <1>1, <1>4, <1>6, <1>7 DEF Arrivals

\* The function that MoveDog defines, and one round of the loop.
Round(dir, f, w) == IF Ends(dir, w) THEN EndOf(dir, w) ELSE f[Onwards(dir, w)]
WalkOf(dir) == CHOOSE f : f = [w \in Walks |-> Round(dir, f, w)]

\* There is such a function: the loop ends, on every map without empty roads
\* and for every distance.
LEMMA WalksEnd ==
    ASSUME NoEmptyRoads, NEW dir \in Moves
    PROVE  \E f : f = [w \in Walks |-> Round(dir, f, w)]
<1>0. PICK M \in Nat : \E rank \in [RoadIds -> 0 .. M] : \A w \in Walks :
          RoadBeyond(dir, w) # NoRoad =>
              /\ RoadBeyond(dir, w) \in RoadIds
              /\ rank[RoadBeyond(dir, w)] < rank[w.road]
  BY RoadsRunOut
<1>1. PICK rank \in [RoadIds -> 0 .. M] : \A w \in Walks :
          RoadBeyond(dir, w) # NoRoad =>
              /\ RoadBeyond(dir, w) \in RoadIds
              /\ rank[RoadBeyond(dir, w)] < rank[w.road]
  BY <1>0
<1> DEFINE Good(f, n) == \A w \in Walks : rank[w.road] < n => f[w] = Round(dir, f, w)
           T == {n \in Nat : \E f \in [Walks -> Arrivals] : Good(f, n)}
<1>2. ASSUME NEW w \in Walks PROVE w.road \in RoadIds /\ rank[w.road] \in 0 .. M
  BY DEF Walks
<1>3. ASSUME NEW w \in Walks, ~Ends(dir, w)
      PROVE  /\ Onwards(dir, w) \in Walks
             /\ rank[Onwards(dir, w).road] < rank[w.road]
  <2>1. RoadBeyond(dir, w) # NoRoad BY <1>3 DEF Ends
  <2> QED BY <2>1, <1>1, OnwardsIsAWalk
<1>4. ASSUME NEW f \in [Walks -> Arrivals], NEW w \in Walks
      PROVE  Round(dir, f, w) \in Arrivals
  BY <1>3, EndOfWalk DEF Round
<1>5. ASSUME NEW n \in Nat, \A m \in 0 .. n - 1 : m \in T PROVE n \in T
  <2>1. CASE n = 0
    <3> DEFINE f == [w \in Walks |-> EndOf(dir, w)]
    <3>1. f \in [Walks -> Arrivals] BY EndOfWalk
    <3>2. Good(f, 0) BY <1>2
    <3> HIDE DEF f
    <3> QED BY <2>1, <3>1, <3>2
  <2>2. CASE n > 0
    <3>1. n - 1 \in T BY <2>2, <1>5
    <3>2. PICK f \in [Walks -> Arrivals] : Good(f, n - 1) BY <3>1
    <3> DEFINE g == [w \in Walks |-> Round(dir, f, w)]
    <3>3. g \in [Walks -> Arrivals] BY <1>4
    <3>4. ASSUME NEW w \in Walks, rank[w.road] < n PROVE g[w] = Round(dir, g, w)
      <4>1. CASE Ends(dir, w) BY <4>1 DEF Round
      <4>2. CASE ~Ends(dir, w)
        <5> DEFINE v == Onwards(dir, w)
        <5>1. v \in Walks /\ rank[v.road] < n - 1
          <6>1. v \in Walks /\ rank[v.road] < rank[w.road] BY <4>2, <1>3
          <6>2. rank[v.road] \in Int /\ rank[w.road] \in Int BY <6>1, <1>2
          <6> HIDE DEF v
          <6> QED BY <6>1, <6>2, <3>4
        <5>2. f[v] = Round(dir, f, v) BY <5>1, <3>2
        <5>3. g[v] = Round(dir, f, v) BY <5>1
        <5>4. g[w] = f[v] BY <4>2 DEF Round
        <5>5. Round(dir, g, w) = g[v] BY <4>2 DEF Round
        <5> QED BY <5>2, <5>3, <5>4, <5>5
      <4> QED BY <4>1, <4>2
    <3>5. Good(g, n) BY <3>4
    <3> HIDE DEF g
    <3> QED BY <3>3, <3>5
  <2> QED BY <2>1, <2>2
<1>6. Nat \subseteq T
  <2> HIDE DEF T
  <2> QED BY <1>5, SetInduction
<1>7. PICK f \in [Walks -> Arrivals] : Good(f, M + 1) BY <1>6
<1>8. ASSUME NEW w \in Walks PROVE f[w] = Round(dir, f, w)
  BY <1>2, <1>7
<1>9. f = [w \in Walks |-> Round(dir, f, w)]
  BY <1>8
<1> QED BY <1>9

\* MoveDog takes one round and goes on with what is left.
LEMMA WalkRounds ==
    ASSUME NoEmptyRoads, NEW dir \in Moves, NEW w \in Walks
    PROVE  WalkOf(dir)[w] = IF Ends(dir, w) THEN EndOf(dir, w)
                            ELSE WalkOf(dir)[Onwards(dir, w)]
<1>1. WalkOf(dir) = [v \in Walks |-> Round(dir, WalkOf(dir), v)]
  BY WalksEnd DEF WalkOf
<1>2. WalkOf(dir)[w] = Round(dir, WalkOf(dir), w)
  <2> DEFINE g == WalkOf(dir)
  <2>1. g = [v \in Walks |-> Round(dir, g, v)] BY <1>1
  <2> HIDE DEF g
  <2>2. g[w] = Round(dir, g, w) BY <2>1
  <2> QED BY <2>2 DEF g
<1> QED BY <1>2 DEF Round

LEMMA MoveDogIsWalk ==
    ASSUME NEW dir, NEW p, NEW i, NEW dist
    PROVE  MoveDog(dir, p, i, dist) = WalkOf(dir)[[at |-> p, road |-> i, left |-> dist]]
BY DEF MoveDog, WalkOf, Round

\* A walk ends on a road, and leaves the coordinate across it alone.
LEMMA WalkArrives ==
    ASSUME NoEmptyRoads, NEW dir \in Moves, NEW w \in Walks
    PROVE  /\ WalkOf(dir)[w] \in Arrivals
           /\ WalkOf(dir)[w].pos[Across(dir)] = w.at[Across(dir)]
<1>0. PICK M \in Nat : \E rank \in [RoadIds -> 0 .. M] : \A v \in Walks :
          RoadBeyond(dir, v) # NoRoad =>
              /\ RoadBeyond(dir, v) \in RoadIds
              /\ rank[RoadBeyond(dir, v)] < rank[v.road]
  BY RoadsRunOut
<1>1. PICK rank \in [RoadIds -> 0 .. M] : \A v \in Walks :
          RoadBeyond(dir, v) # NoRoad =>
              /\ RoadBeyond(dir, v) \in RoadIds
              /\ rank[RoadBeyond(dir, v)] < rank[v.road]
  BY <1>0
<1> DEFINE Fine(v) == /\ WalkOf(dir)[v] \in Arrivals
                      /\ WalkOf(dir)[v].pos[Across(dir)] = v.at[Across(dir)]
           T == {n \in Nat : \A v \in Walks : rank[v.road] = n => Fine(v)}
<1>2. ASSUME NEW n \in Nat, \A m \in 0 .. n - 1 : m \in T PROVE n \in T
  <2>1. SUFFICES ASSUME NEW v \in Walks, rank[v.road] = n PROVE Fine(v)
    OBVIOUS
  <2>2. CASE Ends(dir, v)
    BY <2>2, WalkRounds, EndOfWalk
  <2>3. CASE ~Ends(dir, v)
    <3> DEFINE u == Onwards(dir, v)
    <3>1. RoadBeyond(dir, v) # NoRoad BY <2>3 DEF Ends
    <3>2. /\ u \in Walks /\ u.road = RoadBeyond(dir, v)
          /\ u.at[Across(dir)] = v.at[Across(dir)]
      BY <3>1, OnwardsIsAWalk
    <3>3. WalkOf(dir)[v] = WalkOf(dir)[u] BY <2>3, WalkRounds
    <3>4. rank[u.road] < rank[v.road] /\ u.road \in RoadIds BY <3>1, <3>2, <1>1
    <3> HIDE DEF u
    <3>5. rank[u.road] \in 0 .. n - 1 BY <3>4, <2>1
    <3>6. rank[u.road] \in T BY <3>5, <1>2
    <3>7. Fine(u) BY <3>2, <3>6
    <3> QED BY <3>2, <3>3, <3>7
  <2> QED BY <2>2, <2>3
<1>3. Nat \subseteq T
  <2> HIDE DEF T
  <2> QED BY <1>2, SetInduction
<1>4. rank[w.road] \in Nat BY DEF Walks
<1>5. Fine(w) BY <1>3, <1>4
<1> QED BY <1>5
-----------------------------------------------------------------------------
(* Collecting.                                                             *)

\* Squares grow with what is squared.
LEMMA SquareOrder ==
    ASSUME NEW m \in Int, NEW r \in Nat
    PROVE  m * m <= r * r <=> Abs(m) <= r
<1>1. CASE m < 0
  <2>1. Abs(m) = -m BY <1>1 DEF Abs
  <2>2. m * m = (-m) * (-m) BY SMTT(30)
  <2> DEFINE n == -m
  <2>3. n \in Nat BY <1>1
  <2>4. n * n <= r * r <=> n <= r
    <3> HIDE DEF n
    <3>1. n <= r => n * n <= r * r BY <2>3, SMTT(30)
    <3>2. n > r => n * n > r * r BY <2>3, SMTT(30)
    <3> QED BY <2>3, <3>1, <3>2
  <2> QED BY <2>1, <2>2, <2>4
<1>2. CASE m >= 0
  <2>1. Abs(m) = m BY <1>2 DEF Abs
  <2>2. m <= r => m * m <= r * r BY <1>2, SMTT(30)
  <2>3. m > r => m * m > r * r BY <1>2, SMTT(30)
  <2> QED BY <2>1, <2>2, <2>3
<1> QED BY <1>1, <1>2

\* The share of the way gone, as the quotient of a scalar product.
LEMMA ShareOfWay ==
    ASSUME NEW u \in Int, NEW v \in Int, v # 0
    PROVE  /\ v * v > 0
           /\ (0 <= u * v /\ u * v <= v * v)
                <=> ((0 <= u /\ u <= v) \/ (v <= u /\ u <= 0))
<1>1. CASE v > 0
  <2>1. u < 0 => u * v < 0 BY <1>1, SMTT(30)
  <2>2. u >= 0 => u * v >= 0 BY <1>1, SMTT(30)
  <2>3. u <= v => u * v <= v * v BY <1>1, SMTT(30)
  <2>4. u > v => u * v > v * v BY <1>1, SMTT(30)
  <2>5. v * v > 0 BY <1>1, SMTT(30)
  <2> QED BY <1>1, <2>1, <2>2, <2>3, <2>4, <2>5
<1>2. CASE v < 0
  <2>1. u > 0 => u * v < 0 BY <1>2, SMTT(30)
  <2>2. u <= 0 => u * v >= 0 BY <1>2, SMTT(30)
  <2>3. u >= v => u * v <= v * v BY <1>2, SMTT(30)
  <2>4. u < v => u * v > v * v BY <1>2, SMTT(30)
  <2>5. v * v > 0 BY <1>2, SMTT(30)
  <2> QED BY <1>2, <2>1, <2>2, <2>3, <2>4, <2>5
<1> QED BY <1>1, <1>2

\* Cancelling the squared length of the move.
LEMMA CancelSquare ==
    ASSUME NEW k \in Int, NEW m \in Int, NEW n \in Int, n > 0
    PROVE  k * n <= m * n <=> k <= m
<1>1. k <= m => k * n <= m * n BY SMTT(30)
<1>2. k > m => k * n > m * n BY SMTT(30)
<1> QED BY <1>1, <1>2

\* On a move along a, the formula compares coordinates.
LEMMA AlongAxis ==
    ASSUME NEW gatherer \in GathererType, NEW item \in ItemType,
           NEW a \in {"x", "y"}, NEW b \in {"x", "y"} \ {a},
           gatherer.start[a] # gatherer.end[a],
           gatherer.start[b] = gatherer.end[b]
    PROVE  Collects(gatherer, item) <=>
             /\ Between(item.position[a], gatherer.start[a], gatherer.end[a])
             /\ Abs(item.position[b] - gatherer.start[b])
                    <= gatherer.width + item.width
<1> DEFINE u == item.position[a] - gatherer.start[a]
           v == gatherer.end[a] - gatherer.start[a]
           w == item.position[b] - gatherer.start[b]
           r == gatherer.width + item.width
           res == TryCollectPoint(gatherer.start, gatherer.end, item.position)
<1>1. /\ u \in Int /\ v \in Int /\ w \in Int /\ r \in Nat /\ v # 0
  <2>1. \A c \in {"x", "y"} : /\ gatherer.start[c] \in Int
                              /\ gatherer.end[c] \in Int
                              /\ item.position[c] \in Int
    BY DEF GathererType, ItemType, Points
  <2>2. gatherer.width \in Nat /\ item.width \in Nat
    BY DEF GathererType, ItemType
  <2>3. v # 0 BY <2>1
  <2> QED BY <2>1, <2>2, <2>3
<1>2. gatherer.end[b] - gatherer.start[b] = 0
  BY DEF GathererType, Points
<1>3. /\ res.over = v * v
      /\ res.proj_ratio = u * v
      /\ res.sq_distance = (u * u + w * w) * (v * v) - (u * v) * (u * v)
  <2> DEFINE U == Minus(item.position, gatherer.start)
             V == Minus(gatherer.end, gatherer.start)
  <2>1. U[a] = u /\ U[b] = w /\ V[a] = v /\ V[b] = 0 BY <1>2 DEF Minus
  <2>2. /\ Dot(V, V) = v * v + 0 * 0 /\ Dot(U, V) = u * v + w * 0
        /\ Dot(U, U) = u * u + w * w
    <3>1. CASE a = "x" /\ b = "y"
      <4> HIDE DEF U, V, u, v, w
      <4> QED BY <2>1, <3>1 DEF Dot
    <3>2. CASE a = "y" /\ b = "x"
      <4>1. /\ U["y"] = u /\ U["x"] = w /\ V["y"] = v /\ V["x"] = 0
        BY <2>1, <3>2
      <4> HIDE DEF U, V, u, v, w
      <4> QED BY <4>1, <1>1 DEF Dot
    <3> QED BY <3>1, <3>2
  <2>3. /\ res.over = Dot(V, V) /\ res.proj_ratio = Dot(U, V)
        /\ res.sq_distance = Dot(U, U) * Dot(V, V) - Dot(U, V) * Dot(U, V)
    BY DEF TryCollectPoint
  <2>4. Dot(V, V) = v * v /\ Dot(U, V) = u * v
    <3> HIDE DEF U, V, u, v, w
    <3> QED BY <1>1, <2>2
  <2> HIDE DEF U, V, u, v, w, res
  <2> QED BY <2>2, <2>3, <2>4
<1>4. res.sq_distance = (w * w) * (v * v)
  <2> HIDE DEF u, v, w, res
  <2>1. (u * u + w * w) * (v * v) = (u * u) * (v * v) + (w * w) * (v * v)
    BY <1>1, SMTT(30)
  <2>2. (u * v) * (u * v) = (u * u) * (v * v) BY <1>1, SMTT(30)
  <2> DEFINE A == (u * u) * (v * v)
             B == (w * w) * (v * v)
  <2>3. A \in Int /\ B \in Int BY <1>1
  <2>4. res.sq_distance = (A + B) - A BY <1>3, <2>1, <2>2
  <2> HIDE DEF A, B
  <2>5. res.sq_distance = B BY <2>3, <2>4
  <2> QED BY <2>5 DEF B
<1>5. IsCollected(res, r) <=>
        /\ (0 <= u /\ u <= v) \/ (v <= u /\ u <= 0)
        /\ Abs(w) <= r
  <2> HIDE DEF u, v, w, r, res
  <2>1. IsCollected(res, r) <=>
          /\ 0 <= u * v /\ u * v <= v * v
          /\ (w * w) * (v * v) <= (r * r) * (v * v)
    BY <1>3, <1>4 DEF IsCollected
  <2>2. v * v > 0 /\ v * v \in Int /\ w * w \in Int /\ r * r \in Int
    BY <1>1, ShareOfWay
  <2>3. (w * w) * (v * v) <= (r * r) * (v * v) <=> w * w <= r * r
    BY <2>2, CancelSquare
  <2>4. w * w <= r * r <=> Abs(w) <= r BY <1>1, SquareOrder
  <2>5. (0 <= u * v /\ u * v <= v * v)
          <=> ((0 <= u /\ u <= v) \/ (v <= u /\ u <= 0))
    BY <1>1, ShareOfWay
  <2> QED BY <2>1, <2>3, <2>4, <2>5
<1>6. ((0 <= u /\ u <= v) \/ (v <= u /\ u <= 0)) <=>
        Between(item.position[a], gatherer.start[a], gatherer.end[a])
  BY DEF Between, GathererType, ItemType, Points
<1>7. Collects(gatherer, item) <=> IsCollected(res, r) BY DEF Collects
<1> HIDE DEF res
<1> QED BY <1>5, <1>6, <1>7

\* A gatherer that moves along one axis, as all dogs do, is found by the
\* formula of the collision detector to collect exactly the items beside its
\* way that are no further off than the two widths.
THEOREM CollectsIffPasses ==
    ASSUME NEW gatherer \in GathererType, NEW item \in ItemType,
           gatherer.start # gatherer.end,
           \E b \in {"x", "y"} : gatherer.start[b] = gatherer.end[b]
    PROVE  Collects(gatherer, item) <=> Passes(gatherer, item)
<1>1. PICK b \in {"x", "y"} : gatherer.start[b] = gatherer.end[b]
  OBVIOUS
<1>2. PICK a \in {"x", "y"} : a # b
  OBVIOUS
<1>3. gatherer.start[a] # gatherer.end[a]
  <2>1. gatherer.start \in Points /\ gatherer.end \in Points
    BY DEF GathererType
  <2>2. \E c \in {"x", "y"} : gatherer.start[c] # gatherer.end[c]
    BY <2>1 DEF Points
  <2> QED  BY <1>1, <1>2, <2>2
<1> DEFINE Beside(c, d) ==
      /\ Between(item.position[c], gatherer.start[c], gatherer.end[c])
      /\ Abs(item.position[d] - gatherer.start[d]) <= gatherer.width + item.width
<1>4. Collects(gatherer, item) <=> Beside(a, b)
  BY <1>1, <1>2, <1>3, AlongAxis
<1>5. Passes(gatherer, item) <=> Beside(a, b)
  BY <1>1, <1>2, <1>3 DEF Passes
<1> QED  BY <1>4, <1>5
=============================================================================
