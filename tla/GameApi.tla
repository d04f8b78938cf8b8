------------------------------- MODULE GameApi -------------------------------
(***************************************************************************)
(* The registry of the game and the requests of the API that use it:       *)
(* players join a map and get a token, the first of a map gets a session   *)
(* made for it, and whoever shows a token acts for the player it was given *)
(* to.  A request is one step: the strand executes one at a time.          *)
(*                                                                         *)
(* Bodies of requests and answers are kept as far as they decide what      *)
(* happens: an answer is its status, the token that was shown or given,    *)
(* and the players whose dogs it lists.                                    *)
(***************************************************************************)
EXTENDS Naturals, Sequences

CONSTANTS
    Maps,           \* the maps of the configuration
    MapsWithStart,  \* those with a road that starts at the origin
    OtherMaps,      \* bound: names in requests that no map has
    Commands,       \* bound: the moves in requests
    Tokens,         \* bound: the tokens that can be drawn
    MaxPlayers,     \* bound: the joins that succeed
    MaxShifts       \* bound: the time shifts

NoToken   == "no token"
Malformed == "malformed"
Moves     == {"LEFT", "RIGHT", "UP", "DOWN"}
Methods   == {"GET", "HEAD", "POST", "other"}
Names     == {"", "name"}

ASSUME ApiAssumption ==
    /\ MapsWithStart \subseteq Maps
    /\ Maps \cap OtherMaps = {}
    /\ Commands \subseteq Moves \cup {"STOP"}
    /\ NoToken \notin Tokens
    /\ MaxPlayers \in Nat /\ MaxShifts \in Nat

VARIABLES
    automatic,      \* is_update_time_shift_automatic, from the command line
    sessions,       \* map_id_to_game_sessions_: the maps that have one
    dogs,           \* of each map: dogs_ of its session
    shifts,         \* of each map: the calls of SetTimeShift of its session
    players,        \* players_: where the player with id n - 1 joined, its
                    \* token, and the direction and motion of its dog
    tokenToPlayer,  \* token_to_player_: positions in players_
    answer,         \* the last answer: [status, token, seen], or Silence
    told,           \* history: the token each player was told
    crashed         \* an exception has left the strand

gameVars == <<sessions, dogs, shifts, players, tokenToPlayer, told>>
vars == <<automatic, gameVars, answer, crashed>>

Silence == [seen |-> {}, status |-> 0, token |-> NoToken]

Init ==
    /\ automatic \in BOOLEAN
    /\ sessions = {}
    /\ dogs = [m \in Maps |-> <<>>]
    /\ shifts = [m \in Maps |-> 0]
    /\ players = <<>>
    /\ tokenToPlayer = <<>>
    /\ answer = Silence
    /\ told = <<>>
    /\ crashed = FALSE

Answer(status, token, seen) ==
    answer' = [status |-> status, token |-> token, seen |-> seen]

Reject(status) == Answer(status, NoToken, {}) /\ UNCHANGED <<gameVars, crashed>>

\* A request that is answered and changes nothing.
Show(token, seen) == Answer(200, token, seen) /\ UNCHANGED <<gameVars, crashed>>
-----------------------------------------------------------------------------
(* The game.                                                               *)

\* Slip: the table is written with [] instead of emplace.
RegisteredOver(table, t, n) ==
    [x \in (DOMAIN table) \cup {t} |-> IF x = t THEN n ELSE table[x]]

\* emplace keeps what the table has.
Registered(table, t, n) ==
    [x \in (DOMAIN table) \cup {t} |->
        IF x \in DOMAIN table THEN table[x] ELSE n]

\* A token may be drawn again.
GetPlayerToken == Tokens

\* The n-th player joins map m: its dog is added to the session of map s, and
\* its token leads to player k.
Enter(m, s, n, k) ==
    \E t \in GetPlayerToken :
        /\ players' = Append(players, [map |-> m, token |-> t,
                                       dir |-> "UP", moves |-> FALSE])
        /\ dogs' = [dogs EXCEPT ![s] = Append(@, n)]
        /\ tokenToPlayer' = Registered(tokenToPlayer, t, k)
        /\ told' = Append(told, t)
        /\ Answer(200, t, {})

NextId == Len(players) + 1

\* Slip: id_ is advanced before the tables are written.
AddPlayerLate(m) == Enter(m, m, NextId, NextId + 1)

\* Slip: the dog is added to some session, not to its map's.
AddPlayerAnywhere(m) == \E s \in sessions' : Enter(m, s, NextId, NextId)

AddPlayer(m) == Enter(m, m, NextId, NextId)

\* A session cannot be made for a map without a start: its constructor throws.
EnterMap(m) ==
    /\ Len(players) < MaxPlayers
    /\ \/ /\ m \in sessions \cup MapsWithStart
          /\ sessions' = sessions \cup {m}
          /\ AddPlayer(m)
          /\ UNCHANGED <<shifts, crashed>>
       \/ /\ m \notin sessions \cup MapsWithStart
          /\ crashed' = TRUE
          /\ answer' = Silence
          /\ UNCHANGED gameVars

SetTimeShift ==
    /\ \A m \in sessions : shifts[m] < MaxShifts
    /\ shifts' = [m \in Maps |-> IF m \in sessions THEN shifts[m] + 1
                                                   ELSE shifts[m]]
    /\ UNCHANGED <<sessions, dogs, players, tokenToPlayer, told, crashed>>
-----------------------------------------------------------------------------
(* The requests.                                                           *)

Reads(method) == method \in {"GET", "HEAD"}

\* The list of the maps, or one of them.
ParseMapsQuery(method, m) ==
    \/ ~Reads(method) /\ Reject(405)
    \/ Reads(method) /\ m \in Maps \cup {"all"} /\ Show(NoToken, {})
    \/ Reads(method) /\ m \notin Maps \cup {"all"} /\ Reject(404)

ParseJoinQuery(method, body) ==
    \/ method # "POST" /\ Reject(405)
    \/ /\ method = "POST"
       /\ \/ ~body.parses /\ Reject(400)
          \/ body.parses /\ body.name = "" /\ Reject(400)
          \/ /\ body.parses /\ body.name # ""
             /\ \/ body.map \notin Maps /\ Reject(404)
                \/ body.map \in Maps /\ EnterMap(body.map)

\* The method and the token are looked at in this order.
Authorized(method, allowed, token) ==
    method \in allowed /\ token \in DOMAIN tokenToPlayer

RejectUnauthorized(method, allowed, token) ==
    \/ method \notin allowed /\ Reject(405)
    \/ method \in allowed /\ token \notin DOMAIN tokenToPlayer /\ Reject(401)

\* "Bearer " and 32 characters, which every token has.
ParseBearer(header) ==
    IF header.bearer /\ header.whole THEN header.token ELSE NoToken

\* Slip: the game has one session for all maps.
GetDogsListOfAll(n) == DOMAIN players

\* The dogs in the session of player n.
GetDogsList(n) ==
    LET list == dogs[players[n].map] IN {list[k] : k \in DOMAIN list}

\* The players of the session, or its state with all its dogs.
ParsePlayersQuery(method, token) ==
    \/ RejectUnauthorized(method, {"GET", "HEAD"}, token)
    \/ /\ Authorized(method, {"GET", "HEAD"}, token)
       /\ Show(token, GetDogsList(tokenToPlayer[token]))

ParseStateQuery(method, token) ==
    \/ RejectUnauthorized(method, {"GET", "HEAD"}, token)
    \/ /\ Authorized(method, {"GET", "HEAD"}, token)
       /\ Show(token, GetDogsList(tokenToPlayer[token]))

\* STOP leaves the dog's direction as it was.
SetDogMovementParameters(n, c) ==
    /\ players' = IF c = "STOP"
                  THEN [players EXCEPT ![n].moves = FALSE]
                  ELSE [players EXCEPT ![n].moves = TRUE, ![n].dir = c]
    /\ UNCHANGED <<sessions, dogs, shifts, tokenToPlayer, told, crashed>>

\* Slip: the dog is stopped before the body of the request is read.
ActHasty(token, move) ==
    /\ SetDogMovementParameters(tokenToPlayer[token],
                                IF move = Malformed THEN "STOP" ELSE move)
    /\ Answer(IF move = Malformed THEN 400 ELSE 200, token, {})

\* Slip: the newest player of the map is taken for the token's owner.
ActOfNewest(token, move) ==
    LET queue == dogs[players[tokenToPlayer[token]].map]
    IN  /\ move # Malformed
        /\ SetDogMovementParameters(queue[Len(queue)], move)
        /\ Answer(200, token, {})

Act(token, move) ==
    \/ move = Malformed /\ Reject(400)
    \/ /\ move # Malformed
       /\ SetDogMovementParameters(tokenToPlayer[token], move)
       /\ Answer(200, token, {})

ParseActionQuery(method, token, body) ==
    \/ RejectUnauthorized(method, {"POST"}, token)
    \/ Authorized(method, {"POST"}, token) /\ Act(token, body)

\* With a ticker the table of queries has no tick in it.  A time that is no
\* number, or less than 1e-6, is malformed.
ParseTickQuery(method, body) ==
    \/ automatic /\ Reject(400)
    \/ ~automatic /\ method # "POST" /\ Reject(405)
    \/ ~automatic /\ method = "POST" /\ body = Malformed /\ Reject(400)
    \/ /\ ~automatic /\ method = "POST" /\ body # Malformed
       /\ SetTimeShift
       /\ Answer(200, NoToken, {})

\* The ticker's handler, on the same strand.
TimerTick == automatic /\ SetTimeShift /\ answer' = Silence

\* A path that is in no table.
ParseUnknownQuery == Reject(400)

JoinBodies == [parses : BOOLEAN, name : Names, map : Maps \cup OtherMaps]

Request ==
    \E method \in Methods :
        \/ \E m \in Maps \cup OtherMaps \cup {"all"} : ParseMapsQuery(method, m)
        \/ \E body \in JoinBodies : ParseJoinQuery(method, body)
        \/ \E header \in [bearer : BOOLEAN, whole : BOOLEAN, token : Tokens] :
            LET token == ParseBearer(header)
            IN  \/ ParsePlayersQuery(method, token)
                \/ ParseStateQuery(method, token)
                \/ \E body \in Commands \cup {Malformed} :
                    ParseActionQuery(method, token, body)
        \/ \E body \in {"time", Malformed} : ParseTickQuery(method, body)
        \/ ParseUnknownQuery

Next == ~crashed /\ (Request \/ TimerTick) /\ UNCHANGED automatic

Spec == Init /\ [][Next]_vars
-----------------------------------------------------------------------------
(* Properties.                                                             *)

PlayerIds == DOMAIN players

TypeOK ==
    /\ automatic \in BOOLEAN
    /\ sessions \subseteq MapsWithStart
    /\ dogs \in [Maps -> Seq(PlayerIds)]
    /\ shifts \in [Maps -> 0 .. MaxShifts]
    /\ players \in Seq([map : MapsWithStart, token : Tokens,
                        dir : Moves, moves : BOOLEAN])
    /\ DOMAIN tokenToPlayer \subseteq Tokens
    /\ \A t \in DOMAIN tokenToPlayer : tokenToPlayer[t] \in PlayerIds
    /\ told \in Seq(Tokens) /\ DOMAIN told = PlayerIds
    /\ answer.status \in {0, 200, 400, 401, 404, 405}
    /\ answer.token \in Tokens \cup {NoToken}
    /\ answer.seen \subseteq PlayerIds
    /\ crashed \in BOOLEAN

\* The token a player was told finds the first player it was told to, whoever
\* has joined since: a token that is drawn again is not taken over.
TokenFindsItsPlayer ==
    \A n \in PlayerIds :
        /\ told[n] \in DOMAIN tokenToPlayer
        /\ LET owner == tokenToPlayer[told[n]]
           IN  /\ owner \in 1 .. n
               /\ told[owner] = told[n]
               /\ \A earlier \in 1 .. owner - 1 : told[earlier] # told[n]

\* A session has exactly the dogs of the players that joined its map, in the
\* order they came, and there is one for each map that has players.
SessionsHoldTheirPlayers ==
    /\ sessions = {players[n].map : n \in PlayerIds}
    /\ \A m \in Maps :
        /\ {dogs[m][k] : k \in DOMAIN dogs[m]} = {n \in PlayerIds : players[n].map = m}
        /\ \A j, k \in DOMAIN dogs[m] : j < k => dogs[m][j] < dogs[m][k]

\* A request that is answered with an error leaves the game as it was.
ErrorsChangeNothing ==
    [][answer'.status \notin {0, 200} => UNCHANGED gameVars]_vars

\* The player a token was told to first, who keeps it.
Owner(t) == CHOOSE n \in PlayerIds : told[n] = t /\ \A k \in 1 .. n - 1 : told[k] # t

\* Whoever shows a token is taken for the player it was told to first: it turns
\* and stops this player's dog and no other, and it is shown the dogs of all who
\* joined this player's map and of nobody else.
TokenActsForItsPlayer ==
    [][/\ \A n \in PlayerIds :
            players'[n] # players[n] => n = Owner(answer'.token)
       /\ answer'.seen # {} =>
            answer'.seen = {n \in PlayerIds :
                players[n].map = players[Owner(answer'.token)].map}]_vars
=============================================================================
