------------------------------ MODULE DogWalk ------------------------------
(***************************************************************************)
(* The speeds of a dog and its walk over the roads in one tick, taken at   *)
(* once.  DogMovement takes the same walk one road at a time.              *)
(***************************************************************************)
EXTENDS RoadNetwork

CONSTANT DogSpeed   \* the map's speed for dogs, lattice steps per quantum

ASSUME SpeedAssumption == DogSpeed \in Nat

\* The constructor of a session throws unless some road starts at (0, 0).
ASSUME StartingRoadAssumption == StartingRoad # NoRoad

Standing == [a \in Axes |-> 0]

SpeedTowards(d) ==
    [Standing EXCEPT ![AxisOf(d)] = IF Forward(d) THEN DogSpeed ELSE -DogSpeed]

-----------------------------------------------------------------------------
(* A walk taken at once, for a dog that faces dir.                         *)

\* The locals of a MoveDog function: pos, the road of the dog, and distance.
Walks == [at : Positions, road : RoadIds, left : Int]

Goal(dir, w)   == w.at[AxisOf(dir)] + w.left
Border(dir, w) == RoadEdge(dir, w.road)

AtBorder(dir, w) == [w.at EXCEPT ![AxisOf(dir)] = Border(dir, w)]
RoadBeyond(dir, w) == NextRoad(dir, RoundCoordinates(AtBorder(dir, w)))

\* The walk ends on the road it is on.
Ends(dir, w) == Reaches(dir, w.road, Goal(dir, w)) \/ RoadBeyond(dir, w) = NoRoad

\* Where it ends then, and whether the dog is stopped.
EndOf(dir, w) ==
    IF Reaches(dir, w.road, Goal(dir, w))
    THEN [pos |-> [w.at EXCEPT ![AxisOf(dir)] = Goal(dir, w)], road |-> w.road,
          stopped |-> Goal(dir, w) = Border(dir, w)]
    ELSE [pos |-> AtBorder(dir, w), road |-> w.road, stopped |-> TRUE]

\* Otherwise it goes on along the next one.
Onwards(dir, w) ==
    [at |-> AtBorder(dir, w), road |-> RoadBeyond(dir, w),
     left |-> w.left - (Border(dir, w) - w.at[AxisOf(dir)])]

\* Where a dog facing dir that is at p on road i gets with the signed distance
\* dist, the road it is on there, and whether it is stopped.
MoveDog(dir, p, i, dist) ==
    LET go[w \in Walks] == IF Ends(dir, w) THEN EndOf(dir, w) ELSE go[Onwards(dir, w)]
    IN  go[[at |-> p, road |-> i, left |-> dist]]
=============================================================================
