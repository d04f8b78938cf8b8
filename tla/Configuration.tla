---------------------------- MODULE Configuration ----------------------------
(***************************************************************************)
(* The configuration file as JsonLoader reads it, the maps it makes of it, *)
(* and the JSON that the API makes of the maps.                            *)
(*                                                                         *)
(* A JSON object is a record that may lack fields, an array a sequence.    *)
(* Numbers that are read in one kind and refused in every other are        *)
(* records [kind, value]; coordinates and sizes are taken to be integers.  *)
(***************************************************************************)
EXTENDS Integers, Sequences

\* A field that may be missing, but if it is there must be of one kind: the
\* as_ function of every other kind throws.
IsKind(object, key, kind) == key \in DOMAIN object => object[key].kind = kind

ValueOf(object, key, default) ==
    IF key \in DOMAIN object THEN object[key].value ELSE default
-----------------------------------------------------------------------------
(* JsonLoader: what it makes of the parts of a map.                        *)

\* x1 is looked for first.
RoadOf(road) ==
    LET start == [x |-> road.x0, y |-> road.y0]
    IN  [start |-> start,
         end |-> IF "x1" \in DOMAIN road THEN [start EXCEPT !.x = road.x1]
                                         ELSE [start EXCEPT !.y = road.y1]]

\* Roads with neither end are skipped.
HasEnd(road) == "x1" \in DOMAIN road \/ "y1" \in DOMAIN road

SetRoads(roads) ==
    LET added[k \in 0 .. Len(roads)] ==
            IF k = 0 THEN <<>>
            ELSE IF HasEnd(roads[k]) THEN Append(added[k - 1], RoadOf(roads[k]))
            ELSE added[k - 1]
    IN  added[Len(roads)]

SetBuildings(buildings) ==
    [k \in DOMAIN buildings |->
        LET b == buildings[k]
        IN  [position |-> [x |-> b.x, y |-> b.y],
             size |-> [width |-> b.w, height |-> b.h]]]

SetOffices(offices) ==
    [k \in DOMAIN offices |->
        LET o == offices[k]
        IN  [id |-> o.id, position |-> [x |-> o.x, y |-> o.y],
             offset |-> [dx |-> o.offsetX, dy |-> o.offsetY]]]

\* Loot types are numbered from zero.
LootTypeToValue(lootTypes) ==
    [n \in {k - 1 : k \in DOMAIN lootTypes} |-> lootTypes[n + 1].value.value]

MapKeys == {"id", "name", "lootTypes", "roads", "buildings", "offices"}

\* Nothing of the map makes the loader throw.
MapLoads(map) ==
    /\ MapKeys \subseteq DOMAIN map
    /\ IsKind(map, "dogSpeed", "double") /\ IsKind(map, "bagCapacity", "uint64")
    /\ \A k \in DOMAIN map.lootTypes :
        /\ "value" \in DOMAIN map.lootTypes[k]
        /\ map.lootTypes[k].value.kind = "int64"
    /\ \A k \in DOMAIN map.roads :
        HasEnd(map.roads[k]) => {"x0", "y0"} \subseteq DOMAIN map.roads[k]
    /\ \A j, k \in DOMAIN map.offices :
        map.offices[j].id = map.offices[k].id => j = k

LoadedMap(map, defaults) ==
    [id |-> map.id, name |-> map.name,
     dogSpeed |-> ValueOf(map, "dogSpeed", defaults.dogSpeed),
     bagCapacity |-> ValueOf(map, "bagCapacity", defaults.bagCapacity),
     lootTypeToValue |-> LootTypeToValue(map.lootTypes),
     roads |-> SetRoads(map.roads),
     buildings |-> SetBuildings(map.buildings),
     offices |-> SetOffices(map.offices)]

\* default_dog_speed_ and default_bag_capacity_ of a new Game.
GameDefaults == [dogSpeed |-> 1, bagCapacity |-> 3]

DefaultsOf(config) ==
    [dogSpeed |-> ValueOf(config, "defaultDogSpeed", GameDefaults.dogSpeed),
     bagCapacity |->
        ValueOf(config, "defaultBagCapacity", GameDefaults.bagCapacity)]

\* Nothing before and beside the maps makes the loader throw.
OptionsLoad(config) ==
    /\ {"maps", "lootGeneratorConfig"} \subseteq DOMAIN config
    /\ IsKind(config, "defaultDogSpeed", "double")
    /\ IsKind(config, "defaultBagCapacity", "uint64")
    /\ \A key \in {"period", "probability"} :
        /\ key \in DOMAIN config.lootGeneratorConfig
        /\ config.lootGeneratorConfig[key].kind = "double"
-----------------------------------------------------------------------------
(* ApiRequestParser: what it shows of the maps.                            *)

\* Slip: a road is taken for horizontal if its ends have the same x.
IsHorizontalByX(road) == road.start.x = road.end.x

IsHorizontal(road) == road.start.y = road.end.y

GetRoads(map) ==
    [k \in DOMAIN map.roads |->
        LET r == map.roads[k]
        IN  IF IsHorizontal(r)
            THEN [x0 |-> r.start.x, y0 |-> r.start.y, x1 |-> r.end.x]
            ELSE [x0 |-> r.start.x, y0 |-> r.start.y, y1 |-> r.end.y]]

GetBuildings(map) ==
    [k \in DOMAIN map.buildings |->
        LET b == map.buildings[k]
        IN  [x |-> b.position.x, y |-> b.position.y,
             w |-> b.size.width, h |-> b.size.height]]

GetOffices(map) ==
    [k \in DOMAIN map.offices |->
        LET o == map.offices[k]
        IN  [id |-> o.id, x |-> o.position.x, y |-> o.position.y,
             offsetX |-> o.offset.dx, offsetY |-> o.offset.dy]]

GetMapsJson(maps) ==
    [k \in DOMAIN maps |-> [id |-> maps[k].id, name |-> maps[k].name]]

\* The loot types are shown as the file has them.
GetMapJson(map, frontend) ==
    [id |-> map.id, name |-> map.name, roads |-> GetRoads(map),
     buildings |-> GetBuildings(map), offices |-> GetOffices(map),
     lootTypes |-> frontend[map.id]]
=============================================================================
