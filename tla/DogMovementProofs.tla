------------------------- MODULE DogMovementProofs -------------------------
(***************************************************************************)
(* The safety properties of DogMovement, for every map, lattice, speed and *)
(* length of tick.  IInv is inductive: the dog is next to its own road     *)
(* (NearOwnRoad) only because the road a table hands it has the end the    *)
(* dog's position rounds to, and the walk reaches that end only because    *)
(* the distance left has the sign of the direction (GoalKept).             *)
(***************************************************************************)
EXTENDS DogMovement, GeometryProofs

\* The axes of a direction.
LEMMA AxesOfDirection ==
    ASSUME NEW d
    PROVE  /\ AxisOf(d) \in Axes /\ Across(d) \in Axes
           /\ AxisOf(d) # Across(d)
           /\ \A a \in Axes : a = AxisOf(d) \/ a = Across(d)
BY DEF AxisOf, Across, Axes

\* The border at the far end of a road, as an integer.
LEMMA RoadEdgeIs ==
    ASSUME NEW i \in RoadIds, NEW d \in Moves
    PROVE  /\ RoadEdge(d, i) \in Int
           /\ Forward(d) =>
                RoadEdge(d, i) = Unit * Directed(i).end[AxisOf(d)] + Boundary
           /\ ~Forward(d) =>
                RoadEdge(d, i) = Unit * Directed(i).start[AxisOf(d)] - Boundary
<1>1. /\ Directed(i).end[AxisOf(d)] \in Nat
      /\ Directed(i).start[AxisOf(d)] \in Nat
  BY DirectedIsOrdered, AxesOfDirection DEF Crossings
<1>2. /\ Unit * Directed(i).end[AxisOf(d)] \in Int
      /\ Unit * Directed(i).start[AxisOf(d)] \in Int
  BY <1>1, LatticeFacts
<1> QED BY <1>2, LatticeFacts DEF RoadEdge, FarEnd

\* NearOwnRoad, of any position and any road.
Near(p, i) ==
    \A a \in Axes :
        /\ Unit * (Directed(i).start[a] - 1) + Boundary < p[a]
        /\ p[a] <= Unit * Directed(i).end[a] + Boundary

\* A dog next to its road rounds to a crossing on that road.
LEMMA NearRoundsOnto ==
    ASSUME NEW p \in Positions, NEW i \in RoadIds, Near(p, i)
    PROVE  /\ RoundCoordinates(p) \in CrossingsOn(i)
           /\ \A a \in Axes :
                /\ RoundCoordinates(p)[a] \in Nat
                /\ Unit * (RoundCoordinates(p)[a] - 1) + Boundary < p[a]
                /\ p[a] <= Unit * RoundCoordinates(p)[a] + Boundary
<1> DEFINE c == RoundCoordinates(p)
<1>1. ASSUME NEW a \in Axes
      PROVE  /\ c[a] \in Nat
             /\ Unit * (c[a] - 1) + Boundary < p[a]
             /\ p[a] <= Unit * c[a] + Boundary
             /\ c[a] \in Directed(i).start[a] .. Directed(i).end[a]
  <2> DEFINE s == Directed(i).start[a]
             e == Directed(i).end[a]
             v == p[a]
             k == RoundCoord(v)
  <2>1. v \in Int BY DEF Positions
  <2>2. s \in Nat /\ e \in Nat BY DirectedIsOrdered DEF Crossings
  <2>3. Unit * (s - 1) + Boundary < v /\ v <= Unit * e + Boundary
    BY DEF Near
  <2>4. c[a] = k BY DEF RoundCoordinates
  <2> HIDE DEF s, e, v
  <2>5. Boundary - Unit < v
    <3>1. Unit * (-1) <= Unit * (s - 1) BY <2>2, ScaleMonotone
    <3>2. Unit * (-1) = -Unit BY LatticeFacts
    <3>3. Unit * (s - 1) \in Int BY <2>2, ScaleMonotone
    <3> QED BY <3>1, <3>2, <3>3, <2>1, <2>3, LatticeFacts
  <2>6. k \in Nat /\ Unit * (k - 1) + Boundary < v /\ v <= Unit * k + Boundary
    BY <2>1, <2>5, RoundCoordBounds
  <2> HIDE DEF k
  <2>7. /\ Unit * (s - 1) \in Int /\ Unit * (k - 1) \in Int
        /\ Unit * k \in Int /\ Unit * e \in Int
    BY <2>2, <2>6, LatticeFacts
  <2>8. Unit * (s - 1) < Unit * k /\ Unit * (k - 1) < Unit * e
    BY <2>1, <2>3, <2>6, <2>7, LatticeFacts
  <2>9. s - 1 < k /\ k - 1 < e
    BY <2>2, <2>6, <2>8, ScaleMonotone
  <2> QED BY <2>2, <2>4, <2>6, <2>9 DEF s, e, v
<1>2. c \in CrossingsOn(i)
  <2>1. c = [a \in Axes |-> IF a = "x" THEN c["x"] ELSE c["y"]]
    BY DEF RoundCoordinates, Axes
  <2>2. /\ c["x"] \in Directed(i).start["x"] .. Directed(i).end["x"]
        /\ c["y"] \in Directed(i).start["y"] .. Directed(i).end["y"]
    BY <1>1 DEF Axes
  <2> HIDE DEF c
  <2> QED BY <2>1, <2>2 DEF CrossingsOn
<1> QED BY <1>1, <1>2

\* A position that rounds to an end of a road is next to that road.
LEMMA RoundsToEndIsNear ==
    ASSUME NEW p \in Positions, NEW i \in RoadIds, NEW c \in Crossings,
           c = Directed(i).start \/ c = Directed(i).end,
           \A a \in Axes : /\ Unit * (c[a] - 1) + Boundary < p[a]
                           /\ p[a] <= Unit * c[a] + Boundary
    PROVE  Near(p, i)
<1>1. SUFFICES ASSUME NEW a \in Axes
               PROVE  /\ Unit * (Directed(i).start[a] - 1) + Boundary < p[a]
                      /\ p[a] <= Unit * Directed(i).end[a] + Boundary
  BY DEF Near
<1> DEFINE s == Directed(i).start[a]
           e == Directed(i).end[a]
           v == p[a]
           k == c[a]
<1>2. s \in Nat /\ e \in Nat /\ s <= e BY DirectedIsOrdered DEF Crossings
<1>3. v \in Int /\ k \in Nat /\ (k = s \/ k = e) BY DEF Positions, Crossings
<1>4. Unit * (k - 1) + Boundary < v /\ v <= Unit * k + Boundary OBVIOUS
<1> HIDE DEF s, e, v, k
<1>5. s <= k /\ k <= e BY <1>2, <1>3
<1>6. Unit * (s - 1) <= Unit * (k - 1) /\ Unit * k <= Unit * e
  BY <1>2, <1>3, <1>5, ScaleMonotone
<1>7. /\ Unit * (s - 1) \in Int /\ Unit * (k - 1) \in Int
      /\ Unit * k \in Int /\ Unit * e \in Int
  BY <1>2, <1>3, ScaleMonotone
<1>8. Unit * (s - 1) + Boundary < v /\ v <= Unit * e + Boundary
  BY <1>3, <1>4, <1>6, <1>7, LatticeFacts
<1> QED BY <1>8 DEF s, e, v

\* A dog next to its road that walks on to the border of that road is still
\* next to it.
LEMMA EdgeIsNear ==
    ASSUME NEW p \in Positions, NEW i \in RoadIds, NEW d \in Moves, Near(p, i)
    PROVE  LET q == [p EXCEPT ![AxisOf(d)] = RoadEdge(d, i)]
           IN  q \in Positions /\ Near(q, i)
<1> DEFINE q == [p EXCEPT ![AxisOf(d)] = RoadEdge(d, i)]
<1>1. q \in Positions BY RoadEdgeIs, AxesOfDirection DEF Positions
<1>2. ASSUME NEW a \in Axes
      PROVE  /\ Unit * (Directed(i).start[a] - 1) + Boundary < q[a]
             /\ q[a] <= Unit * Directed(i).end[a] + Boundary
  <2>1. CASE a # AxisOf(d)
    BY <2>1 DEF Near, Positions
  <2>2. CASE a = AxisOf(d)
    <3> DEFINE s == Directed(i).start[a]
               e == Directed(i).end[a]
               b == RoadEdge(d, i)
    <3>1. q[a] = b BY <2>2 DEF Positions
    <3>2. s \in Nat /\ e \in Nat /\ s <= e BY DirectedIsOrdered DEF Crossings
    <3>3. b \in Int /\ (b = Unit * e + Boundary \/ b = Unit * s - Boundary)
      BY <2>2, RoadEdgeIs
    <3> HIDE DEF s, e, b
    <3>4. /\ Unit * (s - 1) = Unit * s - Unit /\ Unit * s <= Unit * e
          /\ Unit * s \in Int /\ Unit * e \in Int
      BY <3>2, ScaleMonotone
    <3>5. Unit * (s - 1) + Boundary < b /\ b <= Unit * e + Boundary
      BY <3>3, <3>4, LatticeFacts
    <3> QED BY <3>1, <3>5 DEF s, e, b
  <2> QED BY <2>1, <2>2
<1> QED BY <1>1, <1>2 DEF Near
-----------------------------------------------------------------------------
(* The inductive invariant.                                                *)

\* The speeds a dog can be given.
LEMMA Speeds ==
    /\ Standing \in [Axes -> {-DogSpeed, 0, DogSpeed}]
    /\ \A a \in Axes : Standing[a] = 0
    /\ \A d \in Moves :
        /\ SpeedTowards(d) \in [Axes -> {-DogSpeed, 0, DogSpeed}]
        /\ IF Forward(d) THEN SpeedTowards(d)[AxisOf(d)] >= 0
                         ELSE SpeedTowards(d)[AxisOf(d)] <= 0
<1>1. Standing \in [Axes -> {-DogSpeed, 0, DogSpeed}] BY DEF Standing
<1>2. \A a \in Axes : Standing[a] = 0 BY DEF Standing
<1>3. ASSUME NEW d \in Moves
      PROVE  /\ SpeedTowards(d) \in [Axes -> {-DogSpeed, 0, DogSpeed}]
             /\ IF Forward(d) THEN SpeedTowards(d)[AxisOf(d)] >= 0
                              ELSE SpeedTowards(d)[AxisOf(d)] <= 0
  <2>1. SpeedTowards(d)[AxisOf(d)] = IF Forward(d) THEN DogSpeed ELSE -DogSpeed
    BY AxesOfDirection DEF SpeedTowards, Standing
  <2> QED BY <1>1, <2>1, SpeedAssumption, AxesOfDirection DEF SpeedTowards
<1> QED BY <1>1, <1>2, <1>3

\* A position on a road, in map units, is next to that road.
LEMMA OnRoadIsNear ==
    ASSUME NEW i \in RoadIds, NEW c \in CrossingsOn(i)
    PROVE  LET p == [a \in Axes |-> Unit * c[a]]
           IN  p \in Positions /\ Near(p, i)
<1> DEFINE p == [a \in Axes |-> Unit * c[a]]
<1>1. PICK px \in Directed(i).start["x"] .. Directed(i).end["x"],
           py \in Directed(i).start["y"] .. Directed(i).end["y"] :
           c = [a \in Axes |-> IF a = "x" THEN px ELSE py]
  BY DEF CrossingsOn
<1>2. ASSUME NEW a \in Axes
      PROVE  /\ c[a] \in Int
             /\ Directed(i).start[a] <= c[a] /\ c[a] <= Directed(i).end[a]
  BY <1>1, DirectedIsOrdered DEF Axes, Crossings
<1>3. p \in Positions BY <1>2, LatticeFacts DEF Positions
<1>4. ASSUME NEW a \in Axes
      PROVE  /\ Unit * (Directed(i).start[a] - 1) + Boundary < p[a]
             /\ p[a] <= Unit * Directed(i).end[a] + Boundary
  <2> DEFINE s == Directed(i).start[a]
             e == Directed(i).end[a]
             k == c[a]
  <2>1. s \in Nat /\ e \in Nat BY DirectedIsOrdered DEF Crossings
  <2>2. k \in Int /\ s <= k /\ k <= e BY <1>2
  <2>3. p[a] = Unit * k OBVIOUS
  <2> HIDE DEF s, e, k, p
  <2>4. /\ Unit * (s - 1) = Unit * s - Unit
        /\ Unit * s <= Unit * k /\ Unit * k <= Unit * e
        /\ Unit * s \in Int /\ Unit * k \in Int /\ Unit * e \in Int
    BY <2>1, <2>2, ScaleMonotone, LatticeFacts
  <2>5. Unit * (s - 1) + Boundary < p[a] /\ p[a] <= Unit * e + Boundary
    BY <2>3, <2>4, LatticeFacts
  <2> QED BY <2>5 DEF s, e
<1> QED BY <1>3, <1>4 DEF Near

\* The road a session starts its dogs on has an end at the origin.
LEMMA StartingRoadMeetsOrigin ==
    /\ StartingRoad \in RoadIds
    /\ \/ Directed(StartingRoad).start = Origin
       \/ Directed(StartingRoad).end = Origin
BY StartingRoadAssumption, NextRoadMeets DEF StartingRoad, Moves

\* A dog that has just joined is next to its road, at rest.
LEMMA InitInvariant == Init => IInv
<1> SUFFICES ASSUME Init PROVE IInv OBVIOUS
<1>1. /\ road \in RoadIds /\ pos \in Positions /\ Near(pos, road)
  <2>1. CASE RandomSpawn
    <3>1. /\ road \in RoadIds
          /\ \E c \in CrossingsOn(road) : pos = [a \in Axes |-> Unit * c[a]]
      BY <2>1 DEF Init
    <3> QED BY <3>1, OnRoadIsNear
  <2>2. CASE ~RandomSpawn
    <3>1. road = StartingRoad /\ pos = Standing BY <2>2 DEF Init
    <3>2. pos \in Positions BY <3>1 DEF Standing, Positions
    <3>3. /\ Origin \in Crossings
          /\ \A a \in Axes : /\ Unit * (Origin[a] - 1) + Boundary < pos[a]
                             /\ pos[a] <= Unit * Origin[a] + Boundary
      <4>1. Unit * (0 - 1) = -Unit /\ Unit * 0 = 0 BY LatticeFacts
      <4> QED BY <3>1, <4>1, LatticeFacts DEF Standing, Origin, Crossings
    <3> QED BY <3>1, <3>2, <3>3, StartingRoadMeetsOrigin, RoundsToEndIsNear
  <2> QED BY <2>1, <2>2
<1>2. TypeOK
  <2>1. dir \in Moves BY DEF Init, Moves
  <2>2. speed \in [Axes -> {-DogSpeed, 0, DogSpeed}] BY Speeds DEF Init
  <2>3. shift \in Nat /\ distance \in Int BY DEF Init
  <2>4. walking \in BOOLEAN /\ at = pos /\ shift = 0 /\ distance = 0
    BY DEF Init
  <2> QED BY <1>1, <2>1, <2>2, <2>3, <2>4, Zenon DEF TypeOK
<1>3. NearOwnRoad BY <1>1 DEF Init, NearOwnRoad, Near
<1>4. SpeedFollowsDirection
  BY Speeds, AxesOfDirection DEF Init, SpeedFollowsDirection
<1>5. GoalKept BY DEF Init, GoalKept
<1> QED BY <1>2, <1>3, <1>4, <1>5 DEF IInv

\* A command of the player keeps the invariant.
LEMMA CommandKeepsInvariant ==
    ASSUME IInv, NEW d \in Moves \cup {"STOP"}, SetMovementParameters(d)
    PROVE  IInv'
<1>1. ~walking /\ walking' = walking /\ pos' = pos /\ road' = road
      /\ shift' = shift /\ at' = at /\ distance' = distance
  BY DEF SetMovementParameters, walkVars
<1>2. /\ dir' \in Moves /\ speed' \in [Axes -> {-DogSpeed, 0, DogSpeed}]
      /\ SpeedFollowsDirection'
  <2>1. CASE d = "STOP"
    <3>1. speed' = Standing /\ dir' = dir
      BY <2>1 DEF SetMovementParameters, Moves
    <3> QED BY <3>1, Speeds, AxesOfDirection
            DEF IInv, TypeOK, SpeedFollowsDirection
  <2>2. CASE d # "STOP"
    <3>1. d \in Moves BY <2>2
    <3>2. speed' = SpeedTowards(d) /\ dir' = d
      BY <2>2 DEF SetMovementParameters
    <3> QED BY <3>1, <3>2, Speeds DEF SpeedFollowsDirection
  <2> QED BY <2>1, <2>2
<1>3. TypeOK' BY <1>1, <1>2, Zenon DEF IInv, TypeOK
<1>4. NearOwnRoad' BY <1>1 DEF IInv, NearOwnRoad
<1>5. GoalKept' BY <1>1 DEF GoalKept
<1> QED BY <1>2, <1>3, <1>4, <1>5 DEF IInv

\* Setting out keeps the invariant.
LEMMA StartKeepsInvariant ==
    ASSUME IInv, NEW s \in TickLengths, StartMove(s)
    PROVE  IInv'
<1>1. /\ walking' = TRUE /\ shift' = s /\ at' = pos
      /\ distance' = s * speed[AxisOf(dir)]
      /\ dir' = dir /\ pos' = pos /\ speed' = speed /\ road' = road
      /\ at = pos
  BY DEF StartMove, dogVars, IInv, TypeOK
<1>2. s \in Nat /\ speed[AxisOf(dir)] \in Int
  <2>1. \A a \in Axes : speed[a] \in Int
    BY SpeedAssumption DEF IInv, TypeOK
  <2> QED BY <2>1, TickAssumption, AxesOfDirection
<1>3. /\ distance' \in Int
      /\ IF Forward(dir) THEN distance' >= 0 ELSE distance' <= 0
  <2>1. IF Forward(dir) THEN speed[AxisOf(dir)] >= 0
                        ELSE speed[AxisOf(dir)] <= 0
    BY DEF IInv, SpeedFollowsDirection
  <2> DEFINE v == speed[AxisOf(dir)]
  <2>2. v \in Int /\ distance' = s * v BY <1>1, <1>2
  <2>3. s * v \in Int /\ (v >= 0 => s * v >= 0) /\ (v <= 0 => s * v <= 0)
    <3> HIDE DEF v
    <3> QED BY <1>2, <2>2, SMTT(60)
  <2> HIDE DEF v
  <2> QED BY <2>1, <2>2, <2>3 DEF v
<1>4. TypeOK'
  <2>1. at' \in Positions /\ shift' \in Nat BY <1>1, <1>2 DEF IInv, TypeOK
  <2> QED BY <1>1, <1>3, <2>1, Zenon DEF IInv, TypeOK
<1>5. NearOwnRoad' BY <1>1 DEF IInv, NearOwnRoad
<1>6. SpeedFollowsDirection' BY <1>1 DEF IInv, SpeedFollowsDirection
<1>7. GoalKept' BY <1>1, <1>3 DEF GoalKept
<1> QED BY <1>4, <1>5, <1>6, <1>7 DEF IInv

\* What the invariant says of a walk under way, in the terms of its actions.
LEMMA WalkFacts ==
    ASSUME IInv, walking
    PROVE  /\ Target \in Int
           /\ Target = pos[AxisOf(dir)] + shift * speed[AxisOf(dir)]
           /\ at[AxisOf(dir)] \in Int
           /\ at[Across(dir)] = pos[Across(dir)]
           /\ IF Forward(dir) THEN at[AxisOf(dir)] <= Target
                              ELSE Target <= at[AxisOf(dir)]
           /\ RoadEdge(dir, road) \in Int
           /\ Near(at, road)
           /\ AtEdge \in Positions /\ Near(AtEdge, road)
           /\ AtEdge[AxisOf(dir)] = RoadEdge(dir, road)
           /\ AtEdge[Across(dir)] = at[Across(dir)]
<1>1. dir \in Moves /\ road \in RoadIds /\ at \in Positions /\ distance \in Int
  BY DEF IInv, TypeOK
<1>2. at[AxisOf(dir)] \in Int BY <1>1, AxesOfDirection DEF Positions
<1>3. /\ at[AxisOf(dir)] + distance
           = pos[AxisOf(dir)] + shift * speed[AxisOf(dir)]
      /\ at[Across(dir)] = pos[Across(dir)]
      /\ IF Forward(dir) THEN distance >= 0 ELSE distance <= 0
  BY DEF IInv, GoalKept
<1>4. /\ Target \in Int
      /\ IF Forward(dir) THEN at[AxisOf(dir)] <= Target
                         ELSE Target <= at[AxisOf(dir)]
  BY <1>1, <1>2, <1>3 DEF Target
<1>5. Near(at, road) BY DEF IInv, NearOwnRoad, Near
<1>6. AtEdge \in Positions /\ Near(AtEdge, road)
  BY <1>1, <1>5, EdgeIsNear DEF AtEdge
<1>7. /\ AtEdge[AxisOf(dir)] = RoadEdge(dir, road)
      /\ AtEdge[Across(dir)] = at[Across(dir)]
  BY <1>1, AxesOfDirection DEF AtEdge, Positions
<1>8. Target = pos[AxisOf(dir)] + shift * speed[AxisOf(dir)]
  BY <1>3 DEF Target
<1> QED BY <1>1, <1>2, <1>3, <1>4, <1>5, <1>6, <1>7, <1>8, RoadEdgeIs

\* A walk that ends at a position next to the dog's road keeps the invariant.
LEMMA EndKeepsInvariant ==
    ASSUME IInv, NEW p \in Positions, Near(p, road), NEW stop \in BOOLEAN,
           EndMove(p, stop), UNCHANGED road
    PROVE  IInv'
<1>1. /\ pos' = p /\ at' = p /\ walking' = FALSE /\ shift' = 0
      /\ distance' = 0 /\ dir' = dir /\ road' = road
      /\ speed' = Standing \/ speed' = speed
  BY DEF EndMove, EndAt
<1>2. speed' \in [Axes -> {-DogSpeed, 0, DogSpeed}]
  BY <1>1, Speeds DEF IInv, TypeOK
<1>3. shift' \in Nat /\ distance' \in Int BY <1>1
<1>4. TypeOK' BY <1>1, <1>2, <1>3, Zenon DEF IInv, TypeOK
<1>5. NearOwnRoad' BY <1>1 DEF NearOwnRoad, Near
<1>6. SpeedFollowsDirection'
  BY <1>1, Speeds, AxesOfDirection DEF IInv, SpeedFollowsDirection
<1>7. GoalKept' BY <1>1 DEF GoalKept
<1> QED BY <1>4, <1>5, <1>6, <1>7 DEF IInv

\* The walk ends between where it is and the border of the road, both next to
\* the road.
LEMMA ArriveKeepsInvariant ==
    ASSUME IInv, Arrive
    PROVE  IInv'
<1> DEFINE a == AxisOf(dir)
           p == [at EXCEPT ![a] = Target]
<1>1. dir \in Moves /\ road \in RoadIds /\ at \in Positions
  BY DEF IInv, TypeOK
<1>2. walking /\ Reaches(dir, road, Target) BY DEF Arrive
<1>3. p \in Positions /\ p[a] = Target /\ \A b \in Axes : b # a => p[b] = at[b]
  BY <1>1, <1>2, WalkFacts, AxesOfDirection DEF Positions
<1>4. Near(p, road)
  <2> SUFFICES ASSUME NEW b \in Axes
               PROVE  /\ Unit * (Directed(road).start[b] - 1) + Boundary < p[b]
                      /\ p[b] <= Unit * Directed(road).end[b] + Boundary
    BY DEF Near
  <2> DEFINE lo == Unit * (Directed(road).start[b] - 1) + Boundary
             hi == Unit * Directed(road).end[b] + Boundary
  <2>1. lo < at[b] /\ at[b] <= hi BY <1>2, WalkFacts DEF Near
  <2>2. lo < AtEdge[b] /\ AtEdge[b] <= hi BY <1>2, WalkFacts DEF Near
  <2>3. lo \in Int /\ hi \in Int
    <3>1. Directed(road).start[b] \in Nat /\ Directed(road).end[b] \in Nat
      BY <1>1, DirectedIsOrdered DEF Crossings
    <3> QED BY <3>1, LatticeFacts
  <2> HIDE DEF lo, hi
  <2>4. lo < p[b] /\ p[b] <= hi
    <3>1. CASE b # a BY <3>1, <2>1, <1>3
    <3>2. CASE b = a /\ Forward(dir)
      <4>1. at[a] <= Target /\ Target <= AtEdge[a]
        BY <3>2, <1>2, WalkFacts DEF Reaches
      <4> QED BY <4>1, <3>2, <2>1, <2>2, <2>3, <1>2, <1>3, WalkFacts
    <3>3. CASE b = a /\ ~Forward(dir)
      <4>1. Target <= at[a] /\ AtEdge[a] <= Target
        BY <3>3, <1>2, WalkFacts DEF Reaches
      <4> QED BY <4>1, <3>3, <2>1, <2>2, <2>3, <1>2, <1>3, WalkFacts
    <3> QED BY <3>1, <3>2, <3>3
  <2> QED BY <2>4 DEF lo, hi
<1>5. /\ EndMove(p, Target = RoadEdge(dir, road))
      /\ UNCHANGED road
  BY DEF Arrive
<1>6. (Target = RoadEdge(dir, road)) \in BOOLEAN OBVIOUS
<1> HIDE DEF p
<1> QED BY <1>3, <1>4, <1>5, <1>6, EndKeepsInvariant

\* A dog stopped at the border of its road is next to it.
LEMMA HitBoundaryKeepsInvariant ==
    ASSUME IInv, HitBoundary
    PROVE  IInv'
<1>1. walking /\ EndMove(AtEdge, TRUE) /\ UNCHANGED road BY DEF HitBoundary
<1>2. AtEdge \in Positions /\ Near(AtEdge, road) BY <1>1, WalkFacts
<1> QED BY <1>1, <1>2, EndKeepsInvariant

\* The road ahead ends where the dog's position rounds to, so the dog is next
\* to it.
LEMMA RoadAheadIsNear ==
    ASSUME IInv, walking, RoadAhead # NoRoad
    PROVE  /\ RoadAhead \in RoadIds
           /\ Near(AtEdge, RoadAhead)
           /\ \/ Directed(RoadAhead).start \in CrossingsOn(road)
              \/ Directed(RoadAhead).end \in CrossingsOn(road)
<1> DEFINE c == RoundCoordinates(AtEdge)
<1>1. dir \in Moves /\ road \in RoadIds BY DEF IInv, TypeOK
<1>2. AtEdge \in Positions /\ Near(AtEdge, road) BY WalkFacts
<1>3. /\ RoadAhead \in RoadIds
      /\ c = Directed(RoadAhead).start \/ c = Directed(RoadAhead).end
  BY <1>1, NextRoadMeets DEF RoadAhead
<1>4. c \in CrossingsOn(road) BY <1>1, <1>2, NearRoundsOnto
<1>5. /\ c \in Crossings
      /\ \A a \in Axes : /\ Unit * (c[a] - 1) + Boundary < AtEdge[a]
                         /\ AtEdge[a] <= Unit * c[a] + Boundary
  BY <1>1, <1>2, <1>3, NearRoundsOnto, DirectedIsOrdered
<1> HIDE DEF c
<1>6. Near(AtEdge, RoadAhead) BY <1>2, <1>3, <1>5, RoundsToEndIsNear
<1> QED BY <1>3, <1>4, <1>6

\* Walking on along the next road keeps the invariant.
LEMMA PassKeepsInvariant ==
    ASSUME IInv, PassToNextRoad
    PROVE  IInv'
<1> DEFINE a == AxisOf(dir)
           b == AtEdge[a]
           here == at[a]
<1>1. /\ walking /\ ~Reaches(dir, road, Target) /\ RoadAhead # NoRoad
      /\ road' = RoadAhead /\ at' = AtEdge
      /\ distance' = distance - (b - here)
      /\ dir' = dir /\ pos' = pos /\ speed' = speed
      /\ walking' = walking /\ shift' = shift
  BY DEF PassToNextRoad, Pass, Gone, dogVars
<1>2. /\ b = RoadEdge(dir, road) /\ b \in Int /\ here \in Int
      /\ distance \in Int /\ Target = here + distance
  BY <1>1, WalkFacts DEF Target, IInv, TypeOK
<1>3. /\ distance' \in Int /\ b + distance' = Target
      /\ IF Forward(dir) THEN distance' >= 0 ELSE distance' <= 0
  <2>1. IF Forward(dir) THEN b < Target ELSE Target < b
    BY <1>1, <1>2 DEF Reaches
  <2> HIDE DEF b, here
  <2> QED BY <1>1, <1>2, <2>1
<1>4. RoadAhead \in RoadIds /\ Near(AtEdge, RoadAhead)
  BY <1>1, RoadAheadIsNear
<1>5. AtEdge \in Positions BY <1>1, WalkFacts
<1>6. TypeOK' BY <1>1, <1>3, <1>4, <1>5, Zenon DEF IInv, TypeOK
<1>7. NearOwnRoad' BY <1>1, <1>4 DEF NearOwnRoad, Near
<1>8. SpeedFollowsDirection' BY <1>1 DEF IInv, SpeedFollowsDirection
<1>9. GoalKept'
  <2>1. AtEdge[a] + distance' = pos[a] + shift * speed[a]
    BY <1>1, <1>3, WalkFacts
  <2>2. AtEdge[Across(dir)] = pos[Across(dir)] BY <1>1, WalkFacts
  <2> QED BY <1>1, <1>3, <2>1, <2>2 DEF GoalKept
<1> QED BY <1>6, <1>7, <1>8, <1>9 DEF IInv

\* Every step keeps the invariant.
LEMMA NextKeepsInvariant == IInv /\ [Next]_vars => IInv'
<1> SUFFICES ASSUME IInv, [Next]_vars PROVE IInv' OBVIOUS
<1>1. CASE \E d \in Moves \cup {"STOP"} : SetMovementParameters(d)
  BY <1>1, CommandKeepsInvariant
<1>2. CASE \E s \in TickLengths : StartMove(s)
  BY <1>2, StartKeepsInvariant
<1>3. CASE Arrive BY <1>3, ArriveKeepsInvariant
<1>4. CASE PassToNextRoad BY <1>4, PassKeepsInvariant
<1>5. CASE HitBoundary BY <1>5, HitBoundaryKeepsInvariant
<1>6. CASE UNCHANGED vars
  BY <1>6 DEF vars, IInv, TypeOK, NearOwnRoad, SpeedFollowsDirection, GoalKept
<1> QED BY <1>1, <1>2, <1>3, <1>4, <1>5, <1>6 DEF Next, Walk
-----------------------------------------------------------------------------
(* The theorems.                                                           *)

\* The invariant holds of every reachable state: in particular every variable
\* keeps its type and the dog stays next to the road it is said to be on.
THEOREM InvariantHolds == Spec => []IInv
BY InitInvariant, NextKeepsInvariant, PTL DEF Spec

\* The types of the variables, for every map.
THEOREM TypeCorrect == Spec => []TypeOK
<1>1. IInv => TypeOK BY DEF IInv
<1> QED BY <1>1, InvariantHolds, PTL

\* However a walk goes, the dog's position and the road the session keeps for
\* it stay together.
THEOREM DogNearOwnRoad == Spec => []NearOwnRoad
<1>1. IInv => NearOwnRoad BY DEF IInv
<1> QED BY <1>1, InvariantHolds, PTL

\* A walk over any number of roads loses no distance, does not overshoot and
\* does not leave its line.
THEOREM GoalOrStopped == Spec => MoveEndsAtGoalOrStopped
<1> DEFINE A == walking /\ ~walking' =>
                LET a    == AxisOf(dir)
                    goal == pos[a] + shift * speed[a]
                IN  /\ pos'[Across(dir)] = pos[Across(dir)]
                    /\ \/ pos'[a] = goal
                       \/ /\ speed' = Standing
                          /\ IF Forward(dir) THEN pos'[a] < goal
                                             ELSE goal < pos'[a]
<1>1. IInv /\ [Next]_vars => [A]_vars
  <2> SUFFICES ASSUME IInv, Next, walking, ~walking'
               PROVE  /\ pos'[Across(dir)] = pos[Across(dir)]
                      /\ \/ pos'[AxisOf(dir)] = Target
                         \/ /\ speed' = Standing
                            /\ IF Forward(dir) THEN pos'[AxisOf(dir)] < Target
                                               ELSE Target < pos'[AxisOf(dir)]
    BY WalkFacts
  <2>1. CASE Arrive
    <3>1. pos' = [at EXCEPT ![AxisOf(dir)] = Target]
      BY <2>1 DEF Arrive, EndMove, EndAt
    <3>2. at \in Positions BY DEF IInv, TypeOK
    <3> QED BY <3>1, <3>2, WalkFacts, AxesOfDirection DEF Positions
  <2>2. CASE HitBoundary
    <3>1. pos' = AtEdge /\ speed' = Standing /\ ~Reaches(dir, road, Target)
      BY <2>2 DEF HitBoundary, EndMove, EndAt
    <3> QED BY <3>1, WalkFacts DEF Reaches
  <2>3. CASE PassToNextRoad BY <2>3 DEF PassToNextRoad, Pass
  <2>4. ~\E d \in Moves \cup {"STOP"} : SetMovementParameters(d)
    BY DEF SetMovementParameters
  <2>5. ~\E s \in TickLengths : StartMove(s) BY DEF StartMove
  <2> QED BY <2>1, <2>2, <2>3, <2>4, <2>5 DEF Next, Walk
<1> QED BY <1>1, InvariantHolds, PTL DEF Spec, MoveEndsAtGoalOrStopped

\* No rounding ever carries a dog from one road to another that does not
\* touch it.
THEOREM JunctionsOnly == Spec => TurnsOnlyAtJunctions
<1> DEFINE A == road' # road =>
                \/ Directed(road').start \in CrossingsOn(road)
                \/ Directed(road').end \in CrossingsOn(road)
<1>1. IInv /\ [Next]_vars => [A]_vars
  <2> SUFFICES ASSUME IInv, Next, road' # road
               PROVE  \/ Directed(road').start \in CrossingsOn(road)
                      \/ Directed(road').end \in CrossingsOn(road)
    OBVIOUS
  <2>1. PassToNextRoad
    BY DEF Next, Walk, Arrive, HitBoundary, StartMove, SetMovementParameters
  <2>2. walking /\ RoadAhead # NoRoad /\ road' = RoadAhead
    BY <2>1 DEF PassToNextRoad, Pass
  <2> QED BY <2>2, RoadAheadIsNear
<1> QED BY <1>1, InvariantHolds, PTL DEF Spec, TurnsOnlyAtJunctions

\* The iterations of the loop make the walk that MoveDog makes at once, on
\* every map without empty roads, where the loop ends.
THEOREM WalkTakenAtOnce == ASSUME NoEmptyRoads PROVE Spec => StepsMakeTheWalk
<1> DEFINE A == walking =>
                MoveDog(dir, at, road, distance) =
                    IF walking'
                    THEN MoveDog(dir', at', road', distance')
                    ELSE [pos |-> pos', road |-> road', stopped |->
                            pos'[AxisOf(dir)] = RoadEdge(dir, road)]
<1>1. IInv /\ [Next]_vars => [A]_vars
  <2> SUFFICES ASSUME IInv, Next, walking PROVE A
    OBVIOUS
  <2> DEFINE w == [at |-> at, road |-> road, left |-> distance]
  <2>1. dir \in Moves /\ w \in Walks
    BY DEF IInv, TypeOK, Walks
  <2>2. /\ Goal(dir, w) = Target
        /\ Border(dir, w) = RoadEdge(dir, road)
        /\ AtBorder(dir, w) = AtEdge
        /\ RoadBeyond(dir, w) = RoadAhead
        /\ Ends(dir, w) <=> Reaches(dir, road, Target) \/ RoadAhead = NoRoad
    BY DEF Goal, Border, AtBorder, RoadBeyond, Ends, Target, AtEdge, RoadAhead
  <2>3. MoveDog(dir, at, road, distance) = WalkOf(dir)[w]
    BY MoveDogIsWalk
  <2>4. WalkOf(dir)[w] = IF Ends(dir, w) THEN EndOf(dir, w)
                         ELSE WalkOf(dir)[Onwards(dir, w)]
    BY <2>1, WalkRounds
  <2>5. CASE Arrive
    <3>1. /\ pos' = [at EXCEPT ![AxisOf(dir)] = Target]
          /\ ~walking' /\ road' = road /\ Reaches(dir, road, Target)
      BY <2>5 DEF Arrive, EndMove, EndAt
    <3>2. pos'[AxisOf(dir)] = Target
      BY <3>1, AxesOfDirection, <2>1 DEF IInv, TypeOK, Positions
    <3>3. EndOf(dir, w) = [pos |-> pos', road |-> road',
                           stopped |-> Target = RoadEdge(dir, road)]
      BY <2>2, <3>1 DEF EndOf
    <3> QED BY <2>2, <2>3, <2>4, <3>1, <3>2, <3>3
  <2>6. CASE HitBoundary
    <3>1. /\ pos' = AtEdge /\ ~walking' /\ road' = road
          /\ ~Reaches(dir, road, Target) /\ RoadAhead = NoRoad
      BY <2>6 DEF HitBoundary, EndMove, EndAt
    <3>2. pos'[AxisOf(dir)] = RoadEdge(dir, road) BY <3>1, WalkFacts
    <3>3. EndOf(dir, w) = [pos |-> pos', road |-> road', stopped |-> TRUE]
      BY <2>2, <3>1 DEF EndOf
    <3> QED BY <2>2, <2>3, <2>4, <3>1, <3>2, <3>3
  <2>7. CASE PassToNextRoad
    <3>1. /\ walking' /\ road' = RoadAhead /\ at' = AtEdge /\ dir' = dir
          /\ distance' = distance - (AtEdge[AxisOf(dir)] - at[AxisOf(dir)])
          /\ ~Reaches(dir, road, Target) /\ RoadAhead # NoRoad
      BY <2>7 DEF PassToNextRoad, Pass, Gone, dogVars
    <3>2. AtEdge[AxisOf(dir)] = RoadEdge(dir, road) BY WalkFacts
    <3>3. Onwards(dir, w) = [at |-> at', road |-> road', left |-> distance']
      BY <2>2, <3>1, <3>2 DEF Onwards
    <3>4. MoveDog(dir', at', road', distance') = WalkOf(dir)[Onwards(dir, w)]
      BY <3>1, <3>3, MoveDogIsWalk
    <3> QED BY <2>2, <2>3, <2>4, <3>1, <3>4
  <2>8. ~\E d \in Moves \cup {"STOP"} : SetMovementParameters(d)
    BY DEF SetMovementParameters
  <2>9. ~\E s \in TickLengths : StartMove(s) BY DEF StartMove
  <2> HIDE DEF A, w
  <2> QED BY <2>5, <2>6, <2>7, <2>8, <2>9 DEF Next, Walk
<1> QED BY <1>1, InvariantHolds, PTL DEF Spec, StepsMakeTheWalk
=============================================================================
