---------------------------- MODULE RoadNetwork ----------------------------
(***************************************************************************)
(* The roads of one map as a GameSession sees them: every road turned so   *)
(* that it starts at its smaller coordinate, the four tables that say      *)
(* which road begins or ends at a crossing, the rounding of a dog's        *)
(* position to a crossing, and one iteration of the loop that walks a dog  *)
(* along the roads.                                                        *)
(*                                                                         *)
(* Map coordinates are naturals.  A dog's coordinate is an integer on a    *)
(* finer lattice: Unit lattice steps make one map unit, and Boundary of    *)
(* them make the 0.4 map units from a road's axis to its border.           *)
(***************************************************************************)
EXTENDS Integers, Sequences

CONSTANTS
    Roads,     \* the map's roads, in the order of the configuration file
    Unit,      \* lattice steps in one map unit
    Boundary   \* lattice steps from a road's axis to its border

Axes       == {"x", "y"}
Moves      == {"LEFT", "RIGHT", "UP", "DOWN"}
Crossings  == [Axes -> Nat]
Positions  == [Axes -> Int]
RoadIds    == DOMAIN Roads
NoRoad     == 0

AxisOf(dir)    == IF dir \in {"LEFT", "RIGHT"} THEN "x" ELSE "y"
Across(dir)    == IF dir \in {"LEFT", "RIGHT"} THEN "y" ELSE "x"
Forward(dir)   == dir \in {"RIGHT", "DOWN"}

ASSUME LatticeAssumption ==
    /\ Unit \in Nat \ {0}
    /\ Boundary \in Nat
    /\ 5 * Boundary = 2 * Unit

\* Every road of a map is horizontal or vertical.
ASSUME RoadsAssumption ==
    /\ Roads \in Seq([start : Crossings, end : Crossings])
    /\ \A i \in RoadIds : \E a \in Axes : Roads[i].start[a] = Roads[i].end[a]
-----------------------------------------------------------------------------
(* The roads turned, and the tables keyed on their end points.             *)

IsHorizontal(i) == Roads[i].start["y"] = Roads[i].end["y"]
Lengthwise(i)   == IF IsHorizontal(i) THEN "x" ELSE "y"

Directed(i) ==
    IF Roads[i].start[Lengthwise(i)] < Roads[i].end[Lengthwise(i)]
    THEN Roads[i]
    ELSE [start |-> Roads[i].end, end |-> Roads[i].start]

\* The end of road i that a dog facing dir walks towards, and the other one.
FarEnd(dir, i)  == IF Forward(dir) THEN Directed(i).end ELSE Directed(i).start
NearEnd(dir, i) == IF Forward(dir) THEN Directed(i).start ELSE Directed(i).end

\* A table keeps the first road inserted under a key.
FirstInserted(S) ==
    IF S = {} THEN NoRoad ELSE CHOOSE i \in S : \A j \in S : i <= j

\* Slip: the hash of a crossing taken for the crossing.
RoadsFromOneCoordinate(dir, p) ==
    {i \in RoadIds : /\ Lengthwise(i) = AxisOf(dir)
                     /\ NearEnd(dir, i)[AxisOf(dir)] = p[AxisOf(dir)]}

RoadsFrom(dir, p) ==
    {i \in RoadIds : Lengthwise(i) = AxisOf(dir) /\ NearEnd(dir, i) = p}

\* point_to_right_road_, point_to_left_road_, point_to_up_road_ and
\* point_to_down_road_.
NextRoad(dir, p) == FirstInserted(RoadsFrom(dir, p))

Origin == [a \in Axes |-> 0]

StartingRoad ==
    IF NextRoad("RIGHT", Origin) # NoRoad
    THEN NextRoad("RIGHT", Origin)
    ELSE NextRoad("DOWN", Origin)

\* The crossings with natural coordinates that lie on road i.
CrossingsOn(i) ==
    {[a \in Axes |-> IF a = "x" THEN px ELSE py] :
        px \in Directed(i).start["x"] .. Directed(i).end["x"],
        py \in Directed(i).start["y"] .. Directed(i).end["y"]}
-----------------------------------------------------------------------------
(* Positions on the lattice.                                               *)

\* modf splits towards zero: a negative coordinate has a negative fraction,
\* which is always below the boundary.
RoundCoord(v) ==
    IF v < 0 THEN -((-v) \div Unit)
    ELSE IF v % Unit <= Boundary THEN v \div Unit ELSE v \div Unit + 1

RoundCoordinates(pos) == [a \in Axes |-> RoundCoord(pos[a])]

\* The coordinate, along dir, of the border at the far end of road i.
RoadEdge(dir, i) ==
    IF Forward(dir)
    THEN Unit * FarEnd(dir, i)[AxisOf(dir)] + Boundary
    ELSE Unit * FarEnd(dir, i)[AxisOf(dir)] - Boundary

\* The lattice points of the area of road i.
InArea(pos, i) ==
    \A a \in Axes : /\ Unit * Directed(i).start[a] - Boundary <= pos[a]
                    /\ pos[a] <= Unit * Directed(i).end[a] + Boundary

\* The target, along dir, does not lie beyond that border.  (Slip: one of the
\* four copies of the comparison is not turned round.)
ReachesOneWay(dir, i, target) == target <= RoadEdge(dir, i)

Reaches(dir, i, target) ==
    IF Forward(dir) THEN target <= RoadEdge(dir, i) ELSE RoadEdge(dir, i) <= target
=============================================================================
