---------------------------- MODULE DogMovement ----------------------------
(***************************************************************************)
(* One dog of a GameSession: the player turns it or stops it, and a tick   *)
(* walks it along the roads.  The loop of MoveDogRight, MoveDogLeft,       *)
(* MoveDogUp and MoveDogDown is one loop over the dog's own axis; each     *)
(* iteration is a step of its own, so that a property can look at the dog  *)
(* between two roads.  The walk owns the strand of the API: no command of  *)
(* a player interleaves with its iterations.                               *)
(*                                                                         *)
(* Time is an integer: DogSpeed is in lattice steps per quantum of time.   *)
(***************************************************************************)
EXTENDS DogWalk

CONSTANTS
    TickLengths,   \* the lengths of ticks, in quanta
    RandomSpawn    \* the option randomize-spawn-points

ASSUME TickAssumption ==
    /\ TickLengths \subseteq Nat
    /\ RandomSpawn \in BOOLEAN

VARIABLES
    dir,       \* Dog::dir_
    pos,       \* Dog::pos_
    speed,     \* Dog::speed_
    road,      \* dog_and_his_road_[dog]
    walking,   \* a MoveDog function is running
    shift,     \* its parameter shift_time
    at,        \* its local copy of the position
    distance   \* its local, signed, distance still to go

dogVars  == <<dir, pos, speed>>
walkVars == <<walking, shift, at, distance>>
vars     == <<dir, pos, speed, road, walking, shift, at, distance>>

Init ==
    /\ dir = "UP"
    /\ speed = Standing
    /\ \/ /\ RandomSpawn
          /\ road \in RoadIds
          /\ \E p \in CrossingsOn(road) : pos = [a \in Axes |-> Unit * p[a]]
       \/ /\ ~RandomSpawn
          /\ road = StartingRoad
          /\ pos = Standing
    /\ walking = FALSE
    /\ shift = 0
    /\ at = pos
    /\ distance = 0

-----------------------------------------------------------------------------
(* The player.                                                             *)

SetMovementParameters(d) ==
    /\ ~walking
    /\ \/ /\ d = "STOP"
          /\ speed' = Standing
          /\ UNCHANGED dir
       \/ /\ d # "STOP"
          /\ speed' = SpeedTowards(d)
          /\ dir' = d
    /\ UNCHANGED <<pos, road, walkVars>>
-----------------------------------------------------------------------------
(* The tick.                                                               *)

\* GetMovementParameters copies the position; the distance carries the sign
\* of the speed along the dog's axis.
StartMove(s) ==
    /\ ~walking
    /\ walking' = TRUE
    /\ shift' = s
    /\ at' = pos
    /\ distance' = s * speed[AxisOf(dir)]
    /\ UNCHANGED <<dogVars, road>>

Target == at[AxisOf(dir)] + distance

\* SetPosition and return.
EndAt(newPos) ==
    /\ pos' = newPos /\ at' = newPos
    /\ walking' = FALSE /\ shift' = 0 /\ distance' = 0
    /\ UNCHANGED dir

\* Slip: the dog keeps running against the border.
EndMoveRunning(newPos, stop) == EndAt(newPos) /\ UNCHANGED speed

\* STOP if the dog stands at newPos on the border.
EndMove(newPos, stop) ==
    EndAt(newPos) /\ speed' = IF stop THEN Standing ELSE speed

\* The rest of the walk stays within the area of the current road.
Arrive ==
    /\ walking
    /\ Reaches(dir, road, Target)
    /\ EndMove([at EXCEPT ![AxisOf(dir)] = Target], Target = RoadEdge(dir, road))
    /\ UNCHANGED road

AtEdge == [at EXCEPT ![AxisOf(dir)] = RoadEdge(dir, road)]
RoadAhead == NextRoad(dir, RoundCoordinates(AtEdge))

Gone == AtEdge[AxisOf(dir)] - at[AxisOf(dir)]

\* On along road i, from p, with a distance of "left" to go.
Pass(i, p, left) ==
    /\ walking /\ ~Reaches(dir, road, Target)
    /\ road' = i /\ at' = p /\ distance' = left
    /\ UNCHANGED <<dogVars, walking, shift>>

\* Slip: the table asked with [], which adds a null road, not with count.
PassUnchecked == Pass(RoadAhead, AtEdge, distance - Gone)

\* Slip: the local position is not moved to the border.
PassFromOldPosition == RoadAhead # NoRoad /\ Pass(RoadAhead, at, distance - Gone)

\* Slip: the part of the distance already gone is not taken off.
PassWithWholeDistance == RoadAhead # NoRoad /\ Pass(RoadAhead, AtEdge, distance)

\* Slip: the road of the dog is not set.
PassKeepingRoad == RoadAhead # NoRoad /\ Pass(road, AtEdge, distance - Gone)

\* The dog reaches the border of its road and walks on along the next one.
PassToNextRoad ==
    RoadAhead # NoRoad /\ Pass(RoadAhead, AtEdge, distance - Gone)

\* The dog reaches the border of its road and no table has a road from there.
HitBoundary ==
    /\ walking
    /\ ~Reaches(dir, road, Target)
    /\ RoadAhead = NoRoad
    /\ EndMove(AtEdge, TRUE)
    /\ UNCHANGED road

Walk == Arrive \/ PassToNextRoad \/ HitBoundary

Next ==
    \/ \E d \in Moves \cup {"STOP"} : SetMovementParameters(d)
    \/ \E s \in TickLengths : StartMove(s)
    \/ Walk

\* The walk runs inside one handler: once begun it goes on by itself.
Spec == Init /\ [][Next]_vars /\ WF_vars(Walk)

\* The ticker arms its timer again after every tick.
FairSpec == Spec /\ WF_vars(\E s \in TickLengths : StartMove(s))
-----------------------------------------------------------------------------
(* Properties.                                                             *)

\* Every variable has its type, and between ticks the walk's locals are reset.
TypeOK ==
    /\ dir \in Moves
    /\ pos \in Positions
    /\ speed \in [Axes -> {-DogSpeed, 0, DogSpeed}]
    /\ road \in RoadIds
    /\ walking \in BOOLEAN
    /\ shift \in Nat
    /\ at \in Positions
    /\ distance \in Int
    /\ ~walking => shift = 0 /\ distance = 0 /\ at = pos

\* The dog the tables say is on a road is next to it: on both axes it is
\* beyond the rounding limit of the road's start and not beyond the border at
\* the road's end.  dog_and_his_road_ and Dog::pos_ are kept apart, written by
\* different statements, and only the rounding of positions ties them.
NearOwnRoad ==
    \A a \in Axes :
        /\ Unit * (Directed(road).start[a] - 1) + Boundary < at[a]
        /\ at[a] <= Unit * Directed(road).end[a] + Boundary

\* While a dog walks, what it has gone and what is left add up to what its
\* speed makes of the tick, and it has not turned round.
GoalKept ==
    LET a == AxisOf(dir)
    IN  walking => /\ at[a] + distance = pos[a] + shift * speed[a]
                   /\ at[Across(dir)] = pos[Across(dir)]
                   /\ IF Forward(dir) THEN distance >= 0 ELSE distance <= 0

\* The speed is along the direction, or none.
SpeedFollowsDirection ==
    LET v == speed[AxisOf(dir)]
    IN  IF Forward(dir) THEN v >= 0 ELSE v <= 0

\* The inductive invariant.
IInv == TypeOK /\ NearOwnRoad /\ SpeedFollowsDirection /\ GoalKept

\* A walk over any number of roads loses no distance: the dog ends where its
\* speed takes it in the length of the tick, or it is stopped short of there;
\* it never leaves its line.
MoveEndsAtGoalOrStopped ==
    [][walking /\ ~walking' =>
        LET a    == AxisOf(dir)
            goal == pos[a] + shift * speed[a]
        IN  /\ pos'[Across(dir)] = pos[Across(dir)]
            /\ \/ pos'[a] = goal
               \/ /\ speed' = Standing
                  /\ IF Forward(dir) THEN pos'[a] < goal ELSE goal < pos'[a]]_vars

\* The dog changes road only at a crossing: an end of the new road lies on
\* the road the dog leaves.
TurnsOnlyAtJunctions ==
    [][road' # road =>
        \/ Directed(road').start \in CrossingsOn(road)
        \/ Directed(road').end \in CrossingsOn(road)]_vars

\* At every iteration the rest of the walk is the one that MoveDog, the walk
\* taken at once, makes from there: the loop's locals carry all it needs.
StepsMakeTheWalk ==
    [][walking =>
        MoveDog(dir, at, road, distance) =
            IF walking'
            THEN MoveDog(dir', at', road', distance')
            ELSE [pos |-> pos', road |-> road', stopped |->
                    pos'[AxisOf(dir)] = RoadEdge(dir, road)]]_vars

\* Every walk ends: the loop of a MoveDog function runs out of roads or of
\* distance (on maps without a road of no length, where it spins).
MoveTerminates == walking ~> ~walking

\* A dog its player leaves alone comes to a stand: however the roads join, it
\* runs out of them.  Ticks have to go on coming.
AbandonedDogStops ==
    \/ []<>(speed = Standing)
    \/ []<><<\E d \in Moves : SetMovementParameters(d)>>_vars

\* Comment of MoveDogRight ("the distance of the move does not leave the area
\* of the current road"): a dog that ends its walk in that branch is inside the
\* area of its road.
ArrivesInsideRoadArea == [][Arrive => InArea(pos', road)]_vars
=============================================================================
