---------------------------- MODULE RequestHandler ----------------------------
(***************************************************************************)
(* The server from its start to its answers about maps and files: what     *)
(* RequestHandler makes of a target, the answers of ParseMapsQuery and of  *)
(* ParseFileRequest, and the maps these are about, as StartUp loads them.  *)
(* The requests of players are GameApi's; here they are only told from the *)
(* others.                                                                 *)
(***************************************************************************)
EXTENDS StartUp, RequestPath

CONSTANTS
    Methods,
    GameQueries,    \* the paths of the requests of players but the tick
    TickQuery,
    Requests        \* bound: [meant, target], what the client asks for and
                    \* how it writes it

VARIABLES
    asked,      \* history: the last request, with its method
    answer      \* and its answer: [status, body]

vars == <<startVars, asked, answer>>

Nothing == [status |-> 0, body |-> <<"nothing">>]

Init == StartInit /\ asked = <<>> /\ answer = Nothing

Answer(status, body) == [status |-> status, body |-> body]
Reject(status) == Answer(status, <<"message">>)

\* An exception that nothing on the way to the io_context catches.
Thrown == Answer(0, <<"thrown">>)

Reads(method) == method \in {"GET", "HEAD"}

\* The list of all maps, or one map.
ParseMapsQuery(method, query) ==
    LET k == FindMap(ParseQueryMapName(query))
    IN  IF ~Reads(method) THEN Reject(405)
        ELSE IF Len(query) = Len(Maps) THEN Answer(200, <<"maps", GetMapsJson(maps)>>)
        ELSE IF ParseQueryMapName(query) # <<>> /\ k # 0
        THEN Answer(200, <<"map", GetMapJson(maps[k], frontend)>>)
        ELSE Reject(404)

\* query_to_parser_type_: the tick is in it only without a ticker.
KnownQueries ==
    GameQueries \cup (IF "tick-period" \in args.given THEN {} ELSE {TickQuery})

ParseApiRequest(method, query) ==
    IF IsPrefix(Maps, query) THEN ParseMapsQuery(method, query)
    ELSE IF query \in KnownQueries THEN Answer(0, <<"player", query>>)
    ELSE Reject(400)

\* A directory can be opened; only reading it fails.
MakeFileResponse(file) ==
    IF file.path \in Locked THEN Thrown ELSE Answer(200, <<"file", file.path>>)

ParseFileRequest(method, query) ==
    LET file == GetFilePath(query)
    IN  IF ~Reads(method) THEN Reject(405)
        ELSE IF ~IsSubPath(file.path, Root) THEN Reject(400)
        ELSE IF ~Exists(file) THEN Reject(404)
        ELSE MakeFileResponse(file)

\* What is asked for, once the escapes are undone.
Route(method, query) ==
    IF IsApi(query) THEN ParseApiRequest(method, query)
    ELSE ParseFileRequest(method, query)

Handle(method, request) ==
    /\ stage = "serving" /\ asked = <<>>
    /\ LET query == ParseURL(request.target)
       IN  answer' = IF Throws(query) THEN Thrown ELSE Route(method, query)
    /\ asked' = [method |-> method, request |-> request]
    /\ UNCHANGED startVars

\* The answer is sent, and nothing of the request is kept.
Send == asked # <<>> /\ asked' = <<>> /\ answer' = Nothing /\ UNCHANGED startVars

Next ==
    \/ StartNext /\ UNCHANGED <<asked, answer>>
    \/ Send
    \/ \E method \in Methods, request \in Requests : Handle(method, request)

Spec == Init /\ [][Next]_vars
-----------------------------------------------------------------------------
(* Properties.                                                             *)

Answered == asked # <<>> /\ Reads(asked.method)
IsMap(m) == asked.request.meant = Maps \o <<Slash>> \o m.id

\* The client that asks for a map is answered with the map of the file: what it
\* is shown, if it were loaded again, would make the roads, the buildings and the
\* offices that the file makes, those of no length and those that are skipped
\* included, with the loot types as the file has them.
MapsAnswerTheConfiguration ==
    Answered => \A k \in DOMAIN maps : IsMap(config.maps[k]) =>
        LET m == config.maps[k]
            shown == answer.body[2]
        IN  /\ answer.status = 200
            /\ SetRoads(shown.roads) = SetRoads(m.roads)
            /\ SetBuildings(shown.buildings) = SetBuildings(m.buildings)
            /\ SetOffices(shown.offices) = SetOffices(m.offices)
            /\ shown.id = m.id /\ shown.name = m.name
            /\ shown.lootTypes = m.lootTypes

\* However a client writes what it asks for, with escapes or without, it gets the
\* same answer.
EscapesMakeNoDifference ==
    asked # <<>> /\ asked.request.meant # <<>> =>
        answer = Route(asked.method, asked.request.meant)

\* The names of a path, each after a slash.
Written(names) == FoldLeft(LAMBDA text, name : text \o <<Slash>> \o name, <<>>, names)

\* Files are answered from the root and from nowhere else, and each file in it,
\* if it can be opened, is the answer to its own path.
AnswersFromTheRoot ==
    Answered =>
        /\ answer.body[1] = "file" => IsPrefix(Root, answer.body[2])
        /\ \A f \in Files \ Locked :
            /\ IsStrictPrefix(Root, f)
            /\ Written(f) = Written(Root) \o asked.request.meant
            => answer = Answer(200, <<"file", f>>)
=============================================================================
