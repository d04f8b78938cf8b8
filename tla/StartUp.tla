------------------------------- MODULE StartUp -------------------------------
(***************************************************************************)
(* The start of the server, up to the point from which it answers: the     *)
(* command line is read, then the options and the maps of the              *)
(* configuration file, one map at a time, then what only clients need.     *)
(* An exception on the way ends the program.                               *)
(***************************************************************************)
EXTENDS Configuration

CONSTANTS
    CommandLines,   \* bound: the options given, and what the period is
    Configs         \* bound: the contents of configuration files

Options == {"help", "config-file", "www-root", "tick-period"}

ASSUME CommandLineAssumption ==
    CommandLines \subseteq [given : SUBSET Options, period : {"number", "text"}]

IsArray(s) == s \in Seq({s[k] : k \in DOMAIN s})

\* The maps of a file and the roads of a map are arrays.  A file that cannot be
\* read, or holds no JSON object, is one without maps.
ASSUME ConfigsAssumption ==
    \A c \in Configs :
        "maps" \in DOMAIN c =>
            /\ IsArray(c.maps)
            /\ \A k \in DOMAIN c.maps :
                "roads" \in DOMAIN c.maps[k] => IsArray(c.maps[k].roads)

VARIABLES
    args,       \* the command line
    config,     \* config_data_
    stage,      \* how far main has come
    defaults,   \* default_dog_speed_ and default_bag_capacity_
    maps,       \* maps_
    mapIndex,   \* map_id_to_index_
    frontend    \* frontend_data: loot types by the id of the map

gameVars == <<defaults, maps, mapIndex, frontend>>
startVars == <<args, config, stage, gameVars>>

StartInit ==
    /\ args \in CommandLines
    /\ config \in Configs
    /\ stage = "arguments"
    /\ defaults = GameDefaults
    /\ maps = <<>>
    /\ mapIndex = <<>>
    /\ frontend = <<>>

\* main returns: with EXIT_FAILURE if it caught an exception.
Exit(how) == stage' = how /\ UNCHANGED <<args, config, gameVars>>

ParseCommandLine ==
    /\ stage = "arguments"
    /\ LET usable == /\ {"config-file", "www-root"} \subseteq args.given
                     /\ "tick-period" \in args.given => args.period = "number"
       IN  \/ "help" \in args.given /\ Exit("helped")
           \/ "help" \notin args.given /\ ~usable /\ Exit("failed")
           \/ /\ "help" \notin args.given /\ usable
              /\ stage' = "options"
              /\ UNCHANGED <<args, config, gameVars>>

\* The defaults are read before the maps, which copy them.
LoadOptions ==
    /\ stage = "options"
    /\ \/ ~OptionsLoad(config) /\ Exit("failed")
       \/ /\ OptionsLoad(config)
          /\ defaults' = DefaultsOf(config)
          /\ stage' = "maps"
          /\ UNCHANGED <<args, config, maps, mapIndex, frontend>>

\* Slip: a second map of the same id is not refused.
MayAddAny(map) == TRUE

\* emplace inserts the id only if no map has it.
MayAdd(map) == map.id \notin DOMAIN mapIndex

\* The map is made, and added under its id.
LoadMap ==
    /\ stage = "maps" /\ Len(maps) < Len(config.maps)
    /\ LET map == config.maps[Len(maps) + 1]
       IN  \/ ~MapLoads(map) /\ Exit("failed")
           \/ MapLoads(map) /\ ~MayAdd(map) /\ Exit("failed")
           \/ /\ MapLoads(map) /\ MayAdd(map)
              /\ maps' = Append(maps, LoadedMap(map, defaults))
              /\ mapIndex' = [id \in (DOMAIN mapIndex) \cup {map.id} |->
                    IF id \in DOMAIN mapIndex THEN mapIndex[id]
                                              ELSE Len(maps) + 1]
              /\ UNCHANGED <<args, config, stage, defaults, frontend>>

LoadFrontendData ==
    /\ stage = "maps" /\ Len(maps) = Len(config.maps)
    /\ frontend' = [id \in {config.maps[k].id : k \in DOMAIN config.maps} |->
            config.maps[CHOOSE k \in DOMAIN config.maps :
                            config.maps[k].id = id].lootTypes]
    /\ stage' = "serving"
    /\ UNCHANGED <<args, config, defaults, maps, mapIndex>>

StartNext == ParseCommandLine \/ LoadOptions \/ LoadMap \/ LoadFrontendData

StartSpec == StartInit /\ [][StartNext]_startVars

\* Game::FindMap, as a position in maps, or 0.
FindMap(id) == IF id \in DOMAIN mapIndex THEN mapIndex[id] ELSE 0
-----------------------------------------------------------------------------
(* Properties.                                                             *)

\* A server that answers has loaded every map of the file, in the order of the
\* file: each is found under its id, with its own speed and capacity or the ones
\* the file has for all maps, which are the program's if the file has none; and
\* there is something to show for each.  What could not be loaded whole is never
\* served in part.
ServesOnlyWholeConfigurations ==
    stage = "serving" =>
        /\ Len(maps) = Len(config.maps)
        /\ \A k \in DOMAIN maps :
            /\ MapLoads(config.maps[k])
            /\ maps[k] = LoadedMap(config.maps[k], DefaultsOf(config))
            /\ FindMap(config.maps[k].id) = k
            /\ frontend[config.maps[k].id] = config.maps[k].lootTypes
=============================================================================
