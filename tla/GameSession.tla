---------------------------- MODULE GameSession ----------------------------
(***************************************************************************)
(* A game session: dogs join, are turned and stopped by their players, and *)
(* ticks move them, let them take what lies on their way and bring it to   *)
(* the offices, and let new things appear.  SetTimeShift is one handler on *)
(* the strand of the API; it is split at the events it works off, so that  *)
(* the properties can look between two of them.  No command of a player    *)
(* interleaves with it.                                                    *)
(***************************************************************************)
EXTENDS DogWalk, CollectionGeometry, FiniteSets

CONSTANTS
    Dogs,             \* bound: the dogs that may join
    Commands,         \* bound: the directions the players use
    Offices,          \* the crossings the map's offices are at
    LootTypes,        \* the types of things on the map
    Worth,            \* loot_type_to_value_
    ScoreRange,       \* one more than the largest unsigned score
    TickLengths,      \* bound: the lengths of ticks, in quanta
    QuantaPerSecond,
    MaxThings,        \* bound: the things that may appear
    DogWidth, OfficeWidth,
    BaseInterval, KeepNum, KeepDen, TimeCap,   \* of the loot generator
    RandomSpawn

ASSUME SessionAssumption ==
    /\ IsFiniteSet(Dogs) /\ Dogs # {}
    /\ Commands \subseteq Moves \cup {"STOP"}
    /\ Offices \subseteq Crossings
    /\ IsFiniteSet(LootTypes) /\ LootTypes # {}
    /\ Worth \in [LootTypes -> Nat]
    /\ ScoreRange \in Nat \ {0}
    /\ TickLengths \subseteq Nat
    /\ QuantaPerSecond \in Nat \ {0}
    /\ MaxThings \in Nat
    /\ BaseInterval \in Nat \ {0}
    /\ KeepNum \in Nat \ {0} /\ KeepDen \in Nat /\ KeepNum <= KeepDen
    /\ TimeCap \in Nat
    /\ RandomSpawn \in BOOLEAN

\* 0.3 and 0.25 map units.
ASSUME WidthAssumption ==
    /\ DogWidth \in Nat /\ OfficeWidth \in Nat
    /\ 10 * DogWidth = 3 * Unit
    /\ 4 * OfficeWidth = Unit

VARIABLES
    joined,     \* dogs_
    body,       \* of each dog: dir_, pos_, speed_ and dog_and_his_road_
    bag,        \* of each dog: bag_, a sequence of [id, type]
    score,      \* of each dog
    lost,       \* lost_objects_, from ids to [type, pos]
    counter,    \* lost_objects_id_counter
    quiet,      \* time_without_loot_ of the session's generator
    inTick,     \* SetTimeShift is running
    shift,      \* its parameter shift_time
    from,       \* its gatherers: where each dog set out
    events,     \* the gather events it has not worked off
    delivered   \* history: the things each dog was given points for

dogVars  == <<joined, body>>
lootVars == <<lost, counter, quiet>>
tickVars == <<inTick, shift, from, events>>
vars == <<joined, body, bag, score, lost, counter, quiet, inTick, shift,
          from, events, delivered>>

OnLattice(c) == [a \in Axes |-> Unit * c[a]]

Newborn(i, p) == [dir |-> "UP", pos |-> p, speed |-> Standing, road |-> i]

Init ==
    /\ joined = {}
    /\ body = [d \in Dogs |-> Newborn(StartingRoad, Standing)]
    /\ bag = [d \in Dogs |-> <<>>]
    /\ score = [d \in Dogs |-> 0]
    /\ lost = <<>>
    /\ counter = 0
    /\ quiet = 0
    /\ inTick = FALSE
    /\ shift = 0
    /\ from = [d \in Dogs |-> Standing]
    /\ events = {}
    /\ delivered = [d \in Dogs |-> <<>>]
-----------------------------------------------------------------------------
(* The players.                                                            *)

\* Where a dog may start: on which road, and at which of its crossings.
SpawnPoints ==
    IF RandomSpawn
    THEN UNION {{i} \X CrossingsOn(i) : i \in RoadIds}
    ELSE {<<StartingRoad, Origin>>}

AddDog(d) ==
    /\ ~inTick
    /\ d \notin joined
    /\ joined' = joined \cup {d}
    /\ \E p \in SpawnPoints :
          body' = [body EXCEPT ![d] = Newborn(p[1], OnLattice(p[2]))]
    /\ UNCHANGED <<bag, score, lootVars, tickVars, delivered>>

SetMovementParameters(d, c) ==
    /\ ~inTick
    /\ d \in joined
    /\ \/ /\ c = "STOP"
          /\ body' = [body EXCEPT ![d].speed = Standing]
       \/ /\ c # "STOP"
          /\ body' = [body EXCEPT ![d].speed = SpeedTowards(c), ![d].dir = c]
    /\ UNCHANGED <<joined, bag, score, lootVars, tickVars, delivered>>
-----------------------------------------------------------------------------
(* SetTimeShift: the dogs move.                                            *)

AfterMove(b, s) ==
    LET walk == MoveDog(b.dir, b.pos, b.road, s * b.speed[AxisOf(b.dir)])
    IN  [b EXCEPT !.pos = walk.pos, !.road = walk.road,
                  !.speed = IF walk.stopped THEN Standing ELSE @]

\* An item is an office or one of the things on the map.
OfficeItems == {[office |-> TRUE, id |-> 0, position |-> OnLattice(c),
                 width |-> OfficeWidth] : c \in Offices}
LootItems == {[office |-> FALSE, id |-> n, position |-> lost[n].pos,
               width |-> 0] : n \in DOMAIN lost}

GathererOf(start, end) == [start |-> start, end |-> end, width |-> DogWidth]

\* Slip: the start position is read after the dog was moved.
SetOutAfterMove(d, moved) == moved[d].pos

SetOut(d, moved) == body[d].pos

\* The events of the dogs' moves to where "moved" has them.
GatherEvents(moved) ==
    LET gatherer(d) == GathererOf(SetOut(d, moved), moved[d].pos)
    IN  {[dog |-> m[1], office |-> m[2].office, id |-> m[2].id,
          at |-> EventTime(gatherer(m[1]), m[2])] :
            m \in {x \in joined \X (OfficeItems \cup LootItems) :
                    /\ ~StoodStill(gatherer(x[1]))
                    /\ Collects(gatherer(x[1]), x[2])}}

\* A session is made for its first player, so it has a dog.
BeginTick(s) ==
    /\ ~inTick
    /\ joined # {}
    /\ counter + Cardinality(joined) <= MaxThings
    /\ LET moved == [d \in Dogs |->
                        IF d \in joined THEN AfterMove(body[d], s) ELSE body[d]]
       IN  /\ body' = moved
           /\ events' = GatherEvents(moved)
    /\ inTick' = TRUE
    /\ shift' = s
    /\ from' = [d \in Dogs |-> body[d].pos]
    /\ UNCHANGED <<joined, bag, score, lootVars, delivered>>
-----------------------------------------------------------------------------
(* SetTimeShift: the events are worked off in the order of their times.    *)

\* The sort leaves the order of events of equal time open.
Earliest == {e \in events : \A f \in events : NotLater(e.at, f.at)}

BagWorth(things) ==
    LET sum[k \in 0 .. Len(things)] ==
            IF k = 0 THEN 0 ELSE sum[k - 1] + Worth[things[k].type]
    IN  sum[Len(things)]

\* Slip: the score is kept in a wider type than the one it is read in.
ScoreAfterWide(d) == score[d] + BagWorth(bag[d])

\* Slip: the bag is emptied before its contents are counted.
ScoreAfterEmptying(d) == score[d] + BagWorth(<<>>)

ScoreAfter(d) == (score[d] + BagWorth(bag[d])) % ScoreRange

\* Slip: the bag is not emptied.
Unchanged(things) == things

Emptied(things) == <<>>

VisitOffice(e) ==
    /\ inTick /\ e \in Earliest /\ e.office
    /\ score' = [score EXCEPT ![e.dog] = ScoreAfter(e.dog)]
    /\ bag' = [bag EXCEPT ![e.dog] = Emptied(@)]
    /\ delivered' = [delivered EXCEPT ![e.dog] = @ \o bag[e.dog]]
    /\ events' = events \ {e}
    /\ UNCHANGED <<dogVars, lootVars, inTick, shift, from>>

\* Slip: the thing stays on the map.
WithoutNothing(f, n) == f

Without(f, n) == [k \in (DOMAIN f) \ {n} |-> f[k]]

TakeLoot(e) ==
    /\ inTick /\ e \in Earliest /\ ~e.office
    /\ e.id \in DOMAIN lost
    /\ bag' = [bag EXCEPT ![e.dog] =
                    Append(@, [id |-> e.id, type |-> lost[e.id].type])]
    /\ lost' = Without(lost, e.id)
    /\ events' = events \ {e}
    /\ UNCHANGED <<dogVars, score, counter, quiet, inTick, shift, from, delivered>>

\* Another dog was there first.
FindLootTaken(e) ==
    /\ inTick /\ e \in Earliest /\ ~e.office
    /\ e.id \notin DOMAIN lost
    /\ events' = events \ {e}
    /\ UNCHANGED <<dogVars, bag, score, lootVars, inTick, shift, from, delivered>>
-----------------------------------------------------------------------------
(* SetTimeShift: new things appear.                                        *)

Generator == INSTANCE LootGenerator WITH
    Deltas <- {s \div QuantaPerSecond : s \in TickLengths},
    MaxLooters <- Cardinality(Dogs),
    timeWithoutLoot <- quiet,
    loot <- Cardinality(DOMAIN lost),
    looters <- Cardinality(joined)

\* What the generator assumes of TimeCap.
ASSUME QuietAssumption ==
    Generator!Power(KeepNum, TimeCap) * Generator!Power(2 * Cardinality(Dogs), BaseInterval)
        <= Generator!Power(KeepDen, TimeCap)

\* shift_time is in seconds; its cast to a number of milliseconds, after a
\* multiplication by one of them, keeps the whole seconds.
TimeDelta == shift \div QuantaPerSecond

LootSpots == {OnLattice(c) : c \in UNION {CrossingsOn(i) : i \in RoadIds}}

QuietTime == Generator!After(quiet, TimeDelta)

\* Slip: the things already on the map are forgotten.
LootToGenerationForAll == Generator!Generated(QuietTime, 0, Cardinality(joined))

LootToGeneration ==
    Generator!Generated(QuietTime, Cardinality(DOMAIN lost), Cardinality(joined))

GenerateLostObjects ==
    /\ inTick /\ events = {}
    /\ LET ids == counter .. counter + LootToGeneration - 1
       IN  \E new \in [ids -> [type : LootTypes, pos : LootSpots]] :
            lost' = [k \in (DOMAIN lost) \cup ids |->
                        IF k \in ids THEN new[k] ELSE lost[k]]
    /\ counter' = counter + LootToGeneration
    /\ quiet' = IF LootToGeneration > 0 THEN 0 ELSE QuietTime
    /\ inTick' = FALSE
    /\ shift' = 0
    /\ from' = [d \in Dogs |-> Standing]
    /\ UNCHANGED <<dogVars, bag, score, events, delivered>>

Next ==
    \/ \E d \in Dogs : \/ AddDog(d)
                       \/ \E c \in Commands : SetMovementParameters(d, c)
    \/ \E s \in TickLengths : BeginTick(s)
    \/ \E e \in events : VisitOffice(e) \/ TakeLoot(e) \/ FindLootTaken(e)
    \/ GenerateLostObjects

Spec == Init /\ [][Next]_vars
-----------------------------------------------------------------------------
\* What a client that asks for the state is shown.
GetPlayerBag(d) == {bag[d][k] : k \in DOMAIN bag[d]}

GetPlayersToState ==
    [d \in joined |-> [pos |-> body[d].pos, speed |-> body[d].speed,
                      dir |-> body[d].dir, bag |-> GetPlayerBag(d),
                      score |-> score[d]]]

GetGameState == [players |-> GetPlayersToState, lostObjects |-> lost]
-----------------------------------------------------------------------------
(* Properties.                                                             *)

ThingIds == 0 .. MaxThings - 1
Things   == [id : ThingIds, type : LootTypes]

\* The variables have their types, and the locals of SetTimeShift are reset
\* between ticks.
TypeOK ==
    /\ joined \subseteq Dogs
    /\ \A d \in Dogs :
        /\ body[d].dir \in Moves /\ body[d].pos \in Positions
        /\ body[d].speed \in [Axes -> {-DogSpeed, 0, DogSpeed}]
        /\ body[d].road \in RoadIds
    /\ bag \in [Dogs -> Seq(Things)]
    /\ delivered \in [Dogs -> Seq(Things)]
    /\ score \in [Dogs -> 0 .. ScoreRange - 1]
    /\ counter \in 0 .. MaxThings
    /\ DOMAIN lost \subseteq ThingIds
    /\ \A n \in DOMAIN lost : lost[n] \in [type : LootTypes, pos : Positions]
    /\ quiet \in 0 .. TimeCap
    /\ inTick \in BOOLEAN
    /\ shift \in Nat
    /\ from \in [Dogs -> Positions]
    /\ ~inTick => shift = 0 /\ events = {}

\* Where the thing with id n is.
PlacesOf(n) ==
    {<<"map">> : x \in {n} \cap DOMAIN lost}
    \cup (UNION {{<<"bag", d, k>> : k \in {j \in DOMAIN bag[d] :
                    bag[d][j].id = n}} : d \in Dogs})
    \cup (UNION {{<<"office", d, k>> : k \in {j \in DOMAIN delivered[d] :
                    delivered[d][j].id = n}} : d \in Dogs})

\* Between any two events of a tick every thing that ever appeared is in one
\* place: on the map, once in the bag of one dog, or once among what one dog
\* was given points for.
LootLivesOnce ==
    \A n \in ThingIds :
        Cardinality(PlacesOf(n)) = IF n < counter THEN 1 ELSE 0

\* A dog's score is the worth of everything it brought to an office, up to the
\* width of the counter.
ScoreIsWorthDelivered ==
    \A d \in Dogs : score[d] = BagWorth(delivered[d]) % ScoreRange

\* When the events of a tick are worked off, nothing is left lying where a dog
\* went, over however many roads.
WaysAreSwept ==
    inTick /\ events = {} =>
        \A d \in joined : \A item \in LootItems :
            ~Passes(GathererOf(from[d], body[d].pos), item)

\* The ledger of things, as that client sees it.
Lying ==
    {[id |-> n, type |-> GetGameState.lostObjects[n].type] :
        n \in DOMAIN GetGameState.lostObjects}
Carried ==
    [d \in Dogs |-> IF d \in joined THEN GetGameState.players[d].bag ELSE {}]
Delivered == [d \in Dogs |-> {delivered[d][k] : k \in DOMAIN delivered[d]}]

Ledger == INSTANCE LootLedger WITH
    lying <- Lying, carried <- Carried, delivered <- Delivered

\* A session keeps the ledger: in what clients are shown a thing goes from the
\* map to one dog and from that dog, with the type it appeared with, to its
\* deliveries.
KeepsLedger == Ledger!Spec

\* A session calls its generator as the generator expects: what it says of the
\* map is true at the time of the call, and time is not set back.
DrivesGenerator == Generator!Spec
=============================================================================
