---------------------------- MODULE GameApiProofs ----------------------------
(***************************************************************************)
(* The registry of the game, for any maps, tokens and number of players.   *)
(* The table of tokens has an entry for every token that was told and for  *)
(* no other, and an entry leads to the first player its token was told to; *)
(* this is inductive because a token that is drawn again keeps its entry.  *)
(* What the requests do to players and sessions follows from it.           *)
(***************************************************************************)
EXTENDS GameApi, SequenceTheorems, TLAPS

PlayerType == [map : MapsWithStart, token : Tokens, dir : Moves, moves : BOOLEAN]

\* The table has the tokens that were told, with their first players.
TableHasFirst ==
    /\ \A n \in PlayerIds : told[n] \in DOMAIN tokenToPlayer
    /\ \A t \in DOMAIN tokenToPlayer :
        /\ tokenToPlayer[t] \in PlayerIds
        /\ told[tokenToPlayer[t]] = t
        /\ \A k \in 1 .. tokenToPlayer[t] - 1 : told[k] # t

\* The inductive invariant.
IInv == TypeOK /\ TableHasFirst /\ SessionsHoldTheirPlayers
-----------------------------------------------------------------------------
(* What a request or a tick can do to the game.                            *)

Joined(m) ==
    /\ m \in sessions \cup MapsWithStart
    /\ sessions' = sessions \cup {m}
    /\ AddPlayer(m)
    /\ UNCHANGED <<shifts, crashed>>

Threw == crashed' = TRUE /\ answer' = Silence /\ UNCHANGED gameVars

Ticked == SetTimeShift /\ (Answer(200, NoToken, {}) \/ answer' = Silence)

Acted(t, c) == SetDogMovementParameters(tokenToPlayer[t], c) /\ Answer(200, t, {})

Shown(t) == Show(t, GetDogsList(tokenToPlayer[t]))

Rejected == \E status \in {400, 401, 404, 405} : Reject(status)

\* These are the cases of the next-state relation.
LEMMA Steps ==
  ASSUME Next
  PROVE  /\ UNCHANGED automatic
         /\ \/ \E m \in Maps : Joined(m)
            \/ Threw
            \/ Ticked
            \/ \E t \in DOMAIN tokenToPlayer, c \in Commands : Acted(t, c)
            \/ \E t \in DOMAIN tokenToPlayer : Shown(t)
            \/ Show(NoToken, {})
            \/ Rejected
<1> DEFINE Case == \/ \E m \in Maps : Joined(m)
                   \/ Threw
                   \/ Ticked
                   \/ \E t \in DOMAIN tokenToPlayer, c \in Commands : Acted(t, c)
                   \/ \E t \in DOMAIN tokenToPlayer : Shown(t)
                   \/ Show(NoToken, {})
                   \/ Rejected
<1>1. ASSUME TimerTick PROVE Case
  BY <1>1 DEF TimerTick, Ticked
<1>2. ASSUME NEW method \in Methods, NEW m, ParseMapsQuery(method, m) PROVE Case
  BY <1>2 DEF ParseMapsQuery, Rejected
<1>3. ASSUME NEW method \in Methods, NEW body \in JoinBodies,
             ParseJoinQuery(method, body)
      PROVE  Case
  <2>1. CASE body.map \in Maps /\ EnterMap(body.map)
    BY <2>1 DEF EnterMap, Joined, Threw
  <2>2. Rejected \/ (body.map \in Maps /\ EnterMap(body.map))
    <3>1. /\ Reject(400) => Rejected
          /\ Reject(404) => Rejected
          /\ Reject(405) => Rejected
      BY DEF Rejected
    <3> QED  BY <1>3, <3>1 DEF ParseJoinQuery
  <2> QED  BY <2>1, <2>2
<1>4. ASSUME NEW method \in Methods, NEW t,
             ParsePlayersQuery(method, t) \/ ParseStateQuery(method, t)
      PROVE  Case
  BY <1>4 DEF ParsePlayersQuery, ParseStateQuery, RejectUnauthorized, Authorized,
              Shown, Rejected
<1>5. ASSUME NEW method \in Methods, NEW t, NEW body \in Commands \cup {Malformed},
             ParseActionQuery(method, t, body)
      PROVE  Case
  BY <1>5 DEF ParseActionQuery, RejectUnauthorized, Authorized, Act, Acted, Rejected
<1>6. ASSUME NEW method \in Methods, NEW body, ParseTickQuery(method, body)
      PROVE  Case
  BY <1>6 DEF ParseTickQuery, Ticked, Rejected
<1>7. ASSUME ParseUnknownQuery PROVE Case
  BY <1>7 DEF ParseUnknownQuery, Rejected
<1>8. Request => Case
  <2> HIDE DEF Case
  <2> QED  BY <1>2, <1>3, <1>4, <1>5, <1>6, <1>7 DEF Request
<1> QED  BY <1>1, <1>8 DEF Next
-----------------------------------------------------------------------------
(* A player joins.                                                         *)

\* A sequence of old players is one of old and new players.
LEMMA MorePlayers ==
  ASSUME NEW n \in Nat, NEW s \in Seq(1 .. n)
  PROVE  s \in Seq(1 .. n + 1) /\ Append(s, n + 1) \in Seq(1 .. n + 1)
<1>1. s \in Seq(1 .. n + 1)
  BY SeqDef
<1> QED  BY <1>1

\* The players and what they were told are numbered alike.
LEMMA PlayersAreNumbered ==
  ASSUME TypeOK
  PROVE  /\ Len(players) \in Nat /\ PlayerIds = 1 .. Len(players)
         /\ Len(told) = Len(players)
         /\ players \in Seq(PlayerType) /\ told \in Seq(Tokens)
         /\ \A n \in PlayerIds : players[n] \in PlayerType /\ told[n] \in Tokens
<1>1. players \in Seq(PlayerType) /\ told \in Seq(Tokens) /\ DOMAIN told = PlayerIds
  BY DEF TypeOK, PlayerType
<1>2. Len(players) \in Nat /\ PlayerIds = 1 .. Len(players)
  BY <1>1 DEF PlayerIds
<1>3. Len(told) \in Nat /\ DOMAIN told = 1 .. Len(told)
  BY <1>1
<1>4. Len(told) = Len(players)
  <2> DEFINE j == Len(told)
             k == Len(players)
  <2>1. j \in Nat /\ k \in Nat /\ 1 .. j = 1 .. k
    BY <1>1, <1>2, <1>3
  <2> HIDE DEF j, k
  <2>2. ~(j < k) /\ ~(k < j)
    BY <2>1
  <2>3. j = k
    BY <2>1, <2>2
  <2> QED  BY <2>3 DEF j, k
<1> QED  BY <1>1, <1>2, <1>4 DEF PlayerIds

\* What a join does to the sequences.
LEMMA JoinAppends ==
  ASSUME IInv, NEW m \in Maps, Joined(m)
  PROVE  \E t \in Tokens :
            /\ players' \in Seq(PlayerType) /\ told' \in Seq(Tokens)
            /\ PlayerIds' = 1 .. NextId /\ DOMAIN told' = PlayerIds'
            /\ NextId = Len(players) + 1 /\ NextId \notin PlayerIds
            /\ \A n \in PlayerIds : players'[n] = players[n] /\ told'[n] = told[n]
            /\ players'[NextId].map = m /\ told'[NextId] = t
            /\ dogs' = [dogs EXCEPT ![m] = Append(@, NextId)]
            /\ tokenToPlayer' = Registered(tokenToPlayer, t, NextId)
            /\ answer' = [status |-> 200, token |-> t, seen |-> {}]
<1>1. PICK t \in Tokens :
        /\ players' = Append(players, [map |-> m, token |-> t,
                                       dir |-> "UP", moves |-> FALSE])
        /\ dogs' = [dogs EXCEPT ![m] = Append(@, NextId)]
        /\ tokenToPlayer' = Registered(tokenToPlayer, t, NextId)
        /\ told' = Append(told, t)
        /\ Answer(200, t, {})
  BY DEF Joined, AddPlayer, Enter, GetPlayerToken
<1> DEFINE p == [map |-> m, token |-> t, dir |-> "UP", moves |-> FALSE]
<1>2. p \in PlayerType
  <2>1. m \in MapsWithStart
    BY DEF Joined, IInv, TypeOK
  <2> QED  BY <2>1 DEF PlayerType, Moves
<1>3. p.map = m
  OBVIOUS
<1> HIDE DEF p
<1>4. players' = Append(players, p)
  BY <1>1 DEF p
<1>5. TypeOK
  BY DEF IInv
<1>6. players' \in Seq(PlayerType) /\ told' \in Seq(Tokens)
  BY <1>1, <1>2, <1>4, <1>5, PlayersAreNumbered
<1>7. /\ DOMAIN players' = 1 .. NextId /\ players'[NextId] = p
      /\ \A n \in 1 .. Len(players) : players'[n] = players[n]
  BY <1>2, <1>4, <1>5, PlayersAreNumbered DEF NextId
<1>8. /\ DOMAIN told' = 1 .. NextId /\ told'[NextId] = t
      /\ \A n \in 1 .. Len(players) : told'[n] = told[n]
  BY <1>1, <1>5, PlayersAreNumbered DEF NextId
<1>9. PlayerIds = 1 .. Len(players) /\ Len(players) \in Nat
  BY <1>5, PlayersAreNumbered
<1>10. /\ PlayerIds' = 1 .. NextId /\ DOMAIN told' = PlayerIds'
       /\ NextId = Len(players) + 1 /\ NextId \notin PlayerIds
  BY <1>7, <1>8, <1>9 DEF PlayerIds, NextId
<1>11. answer' = [status |-> 200, token |-> t, seen |-> {}]
  BY <1>1 DEF Answer
<1>12. players'[NextId].map = m
  BY <1>3, <1>7
<1> WITNESS t \in Tokens
<1> QED  BY <1>1, <1>6, <1>7, <1>8, <1>9, <1>10, <1>11, <1>12

\* A join keeps the types.
LEMMA JoinKeepsTypes ==
  ASSUME IInv, NEW m \in Maps, Joined(m), UNCHANGED automatic PROVE TypeOK'
<1>1. PICK t \in Tokens :
        /\ players' \in Seq(PlayerType) /\ told' \in Seq(Tokens)
        /\ PlayerIds' = 1 .. NextId /\ DOMAIN told' = PlayerIds'
        /\ NextId = Len(players) + 1
        /\ dogs' = [dogs EXCEPT ![m] = Append(@, NextId)]
        /\ tokenToPlayer' = Registered(tokenToPlayer, t, NextId)
        /\ answer' = [status |-> 200, token |-> t, seen |-> {}]
  BY JoinAppends
<1>2. PlayerIds = 1 .. Len(players) /\ Len(players) \in Nat
  BY PlayersAreNumbered DEF IInv
<1>3. dogs' \in [Maps -> Seq(PlayerIds')]
  <2>1. dogs \in [Maps -> Seq(1 .. Len(players))]
    BY <1>2 DEF IInv, TypeOK
  <2>2. \A x \in Maps : /\ dogs[x] \in Seq(1 .. NextId)
                        /\ Append(dogs[x], NextId) \in Seq(1 .. NextId)
    BY <1>1, <1>2, <2>1, MorePlayers
  <2> QED  BY <1>1, <2>1, <2>2
<1>4. /\ DOMAIN tokenToPlayer' \subseteq Tokens
      /\ \A x \in DOMAIN tokenToPlayer' : tokenToPlayer'[x] \in PlayerIds'
  BY <1>1, <1>2 DEF Registered, IInv, TypeOK
<1>5. sessions' \subseteq MapsWithStart /\ UNCHANGED <<shifts, crashed>>
  BY DEF Joined, IInv, TypeOK
<1> QED  BY <1>1, <1>3, <1>4, <1>5 DEF IInv, TypeOK, PlayerType

\* emplace leaves the entry of a token that is drawn again, and a token that is
\* not in the table was not told to anybody.
LEMMA JoinKeepsTable == ASSUME IInv, NEW m \in Maps, Joined(m) PROVE TableHasFirst'
<1>1. PICK t \in Tokens :
        /\ PlayerIds' = 1 .. NextId
        /\ NextId = Len(players) + 1
        /\ \A n \in PlayerIds : told'[n] = told[n]
        /\ told'[NextId] = t
        /\ tokenToPlayer' = Registered(tokenToPlayer, t, NextId)
  BY JoinAppends
<1>2. PlayerIds = 1 .. Len(players) /\ Len(players) \in Nat
  BY PlayersAreNumbered DEF IInv
<1>3. /\ DOMAIN tokenToPlayer' = DOMAIN tokenToPlayer \cup {t}
      /\ \A x \in DOMAIN tokenToPlayer : tokenToPlayer'[x] = tokenToPlayer[x]
      /\ t \notin DOMAIN tokenToPlayer => tokenToPlayer'[t] = NextId
  BY <1>1 DEF Registered
<1>4. \A n \in PlayerIds' : told'[n] \in DOMAIN tokenToPlayer'
  BY <1>1, <1>2, <1>3 DEF IInv, TableHasFirst
<1>5. ASSUME NEW x \in DOMAIN tokenToPlayer'
      PROVE  /\ tokenToPlayer'[x] \in PlayerIds'
             /\ told'[tokenToPlayer'[x]] = x
             /\ \A k \in 1 .. tokenToPlayer'[x] - 1 : told'[k] # x
  <2>1. CASE x \in DOMAIN tokenToPlayer
    <3> DEFINE o == tokenToPlayer[x]
    <3>1. /\ o \in PlayerIds /\ told[o] = x
          /\ \A k \in 1 .. o - 1 : told[k] # x
      BY <2>1 DEF IInv, TableHasFirst
    <3>2. tokenToPlayer'[x] = o
      BY <1>3, <2>1
    <3> HIDE DEF o
    <3>3. o \in PlayerIds' /\ \A k \in 1 .. o - 1 : k \in PlayerIds
      BY <1>1, <1>2, <3>1
    <3> QED  BY <1>1, <3>1, <3>2, <3>3
  <2>2. CASE x \notin DOMAIN tokenToPlayer
    <3>1. x = t /\ tokenToPlayer'[x] = NextId
      BY <1>3, <2>2
    <3>2. \A k \in PlayerIds : told'[k] # x
      BY <1>1, <2>2 DEF IInv, TableHasFirst
    <3> QED  BY <1>1, <1>2, <3>1, <3>2
  <2> QED  BY <2>1, <2>2
<1> QED  BY <1>4, <1>5 DEF TableHasFirst

\* The new dog is the last of its map's session and of no other.
LEMMA JoinKeepsSessions ==
  ASSUME IInv, NEW m \in Maps, Joined(m) PROVE SessionsHoldTheirPlayers'
<1>1. PICK t \in Tokens :
        /\ PlayerIds' = 1 .. NextId
        /\ NextId = Len(players) + 1
        /\ \A n \in PlayerIds : players'[n] = players[n]
        /\ players'[NextId].map = m
        /\ dogs' = [dogs EXCEPT ![m] = Append(@, NextId)]
  BY JoinAppends
<1>2. PlayerIds = 1 .. Len(players) /\ Len(players) \in Nat
  BY PlayersAreNumbered DEF IInv
<1>3. sessions' = {players'[n].map : n \in PlayerIds'}
  <2>1. sessions' = sessions \cup {m} /\ sessions = {players[n].map : n \in PlayerIds}
    BY DEF Joined, IInv, SessionsHoldTheirPlayers
  <2> QED  BY <1>1, <1>2, <2>1
<1>4. ASSUME NEW x \in Maps
      PROVE  /\ {dogs'[x][k] : k \in DOMAIN dogs'[x]}
                    = {n \in PlayerIds' : players'[n].map = x}
             /\ \A j, k \in DOMAIN dogs'[x] : j < k => dogs'[x][j] < dogs'[x][k]
  <2> DEFINE s == dogs[x]
  <2>1. /\ s \in Seq(1 .. Len(players)) /\ Len(s) \in Nat
        /\ DOMAIN s = 1 .. Len(s) /\ \A k \in DOMAIN s : s[k] \in 1 .. Len(players)
    BY <1>2 DEF IInv, TypeOK
  <2>2. /\ {s[k] : k \in DOMAIN s} = {n \in PlayerIds : players[n].map = x}
        /\ \A j, k \in DOMAIN s : j < k => s[j] < s[k]
    BY DEF IInv, SessionsHoldTheirPlayers
  <2>3. CASE x # m
    <3>1. dogs'[x] = s
      BY <1>1, <2>3 DEF IInv, TypeOK
    <3>2. {n \in PlayerIds' : players'[n].map = x}
            = {n \in PlayerIds : players[n].map = x}
      BY <1>1, <1>2, <2>3
    <3> QED  BY <2>2, <3>1, <3>2
  <2>4. CASE x = m
    <3>1. dogs'[x] = Append(s, NextId)
      BY <1>1, <2>4 DEF IInv, TypeOK
    <3> HIDE DEF s
    <3>2. /\ DOMAIN dogs'[x] = 1 .. Len(s) + 1 /\ dogs'[x][Len(s) + 1] = NextId
          /\ \A k \in 1 .. Len(s) : dogs'[x][k] = s[k]
      <4>1. s \in Seq(1 .. NextId) /\ NextId \in 1 .. NextId
        BY <1>1, <1>2, <2>1, MorePlayers
      <4> DEFINE r == Append(s, NextId)
      <4>2. /\ DOMAIN r = 1 .. Len(s) + 1 /\ r[Len(s) + 1] = NextId
            /\ \A k \in 1 .. Len(s) : r[k] = s[k]
        BY <4>1, AppendProperties
      <4> QED  BY <3>1, <4>2
    <3>3. {dogs'[x][k] : k \in DOMAIN dogs'[x]} = {s[k] : k \in DOMAIN s} \cup {NextId}
      BY <2>1, <3>2
    <3>4. {n \in PlayerIds' : players'[n].map = x}
            = {n \in PlayerIds : players[n].map = x} \cup {NextId}
      BY <1>1, <1>2, <2>4
    <3>5. \A j, k \in DOMAIN dogs'[x] : j < k => dogs'[x][j] < dogs'[x][k]
      <4> SUFFICES ASSUME NEW j \in DOMAIN dogs'[x], NEW k \in DOMAIN dogs'[x],
                          j < k
                   PROVE  dogs'[x][j] < dogs'[x][k]
        OBVIOUS
      <4>1. j \in 1 .. Len(s) /\ dogs'[x][j] = s[j] /\ s[j] \in 1 .. Len(players)
        BY <2>1, <3>2
      <4>2. CASE k = Len(s) + 1
        BY <1>1, <1>2, <3>2, <4>1, <4>2
      <4>3. CASE k # Len(s) + 1
        <5>1. k \in 1 .. Len(s) /\ dogs'[x][k] = s[k]
          BY <2>1, <3>2, <4>3
        <5> QED  BY <2>1, <2>2, <4>1, <5>1
      <4> QED  BY <4>2, <4>3
    <3> QED  BY <2>2, <3>3, <3>4, <3>5
  <2> QED  BY <2>3, <2>4
<1> QED  BY <1>3, <1>4 DEF SessionsHoldTheirPlayers
-----------------------------------------------------------------------------
(* The invariant.                                                          *)

LEMMA InvInitially == Init => IInv
<1> SUFFICES ASSUME Init PROVE IInv
  OBVIOUS
<1> USE ApiAssumption DEF Init, PlayerIds
<1>1. TypeOK
  <2>1. dogs \in [Maps -> Seq(PlayerIds)] /\ shifts \in [Maps -> 0 .. MaxShifts]
    OBVIOUS
  <2>2. players \in Seq(PlayerType) /\ told \in Seq(Tokens) /\ DOMAIN told = {}
    OBVIOUS
  <2>3. PlayerIds = {} /\ DOMAIN tokenToPlayer = {}
    OBVIOUS
  <2> QED  BY <2>1, <2>2, <2>3 DEF TypeOK, Silence, PlayerType
<1>2. TableHasFirst
  BY DEF TableHasFirst
<1>3. SessionsHoldTheirPlayers
  BY DEF SessionsHoldTheirPlayers
<1> QED  BY <1>1, <1>2, <1>3 DEF IInv

\* What leaves players and tables alone keeps them.
LEMMA GameUntouched ==
  ASSUME IInv, UNCHANGED <<sessions, dogs, players, tokenToPlayer, told>>
  PROVE  TableHasFirst' /\ SessionsHoldTheirPlayers' /\ UNCHANGED PlayerIds
  BY DEF IInv, TableHasFirst, SessionsHoldTheirPlayers, PlayerIds

\* A command of a player changes a dog's direction and motion, not where it is.
LEMMA ActKeeps ==
  ASSUME IInv, UNCHANGED automatic, NEW t \in DOMAIN tokenToPlayer,
         NEW c \in Commands, Acted(t, c)
  PROVE  IInv'
<1> DEFINE n == tokenToPlayer[t]
<1>1. n \in PlayerIds /\ players \in Seq(PlayerType)
  BY PlayersAreNumbered DEF IInv, TypeOK
<1>2. c \in Moves \cup {"STOP"}
  BY ApiAssumption
<1>3. players' = IF c = "STOP"
                 THEN [players EXCEPT ![n].moves = FALSE]
                 ELSE [players EXCEPT ![n].moves = TRUE, ![n].dir = c]
  BY DEF Acted, SetDogMovementParameters
<1> HIDE DEF n
<1>4. players' \in Seq(PlayerType) /\ DOMAIN players' = DOMAIN players
  <2> DEFINE p == players[n]
             q == IF c = "STOP" THEN [p EXCEPT !.moves = FALSE]
                                ELSE [p EXCEPT !.moves = TRUE, !.dir = c]
  <2>1. p \in PlayerType
    BY <1>1, PlayersAreNumbered DEF IInv
  <2>2. q \in PlayerType
    <3> HIDE DEF p
    <3> QED  BY <1>2, <2>1 DEF PlayerType
  <2>3. players' = [players EXCEPT ![n] = q]
    BY <1>1, <1>3 DEF PlayerIds
  <2> HIDE DEF q
  <2> QED  BY <1>1, <2>2, <2>3 DEF PlayerIds
<1>5. \A k \in PlayerIds : players'[k].map = players[k].map
  BY <1>1, <1>3 DEF PlayerType, PlayerIds
<1>6. UNCHANGED <<sessions, dogs, shifts, tokenToPlayer, told, crashed>>
  BY DEF Acted, SetDogMovementParameters
<1>7. TypeOK'
  <2>1. t \in Tokens /\ answer' = [status |-> 200, token |-> t, seen |-> {}]
    BY DEF Acted, Answer, IInv, TypeOK
  <2> QED  BY <1>4, <1>6, <2>1 DEF IInv, TypeOK, PlayerIds, PlayerType
<1>8. TableHasFirst'
  BY <1>4, <1>6 DEF IInv, TableHasFirst, PlayerIds
<1>9. SessionsHoldTheirPlayers'
  BY <1>4, <1>5, <1>6 DEF IInv, SessionsHoldTheirPlayers, PlayerIds
<1> QED  BY <1>7, <1>8, <1>9 DEF IInv

\* A player is shown players.
LEMMA ShownArePlayers ==
  ASSUME IInv, NEW t \in DOMAIN tokenToPlayer
  PROVE  GetDogsList(tokenToPlayer[t])
            = {n \in PlayerIds : players[n].map = players[tokenToPlayer[t]].map}
<1>1. players[tokenToPlayer[t]].map \in Maps
  BY ApiAssumption, PlayersAreNumbered DEF IInv, TypeOK, PlayerType
<1> QED  BY <1>1 DEF GetDogsList, IInv, SessionsHoldTheirPlayers

LEMMA InvKept == IInv /\ [Next]_vars => IInv'
<1> SUFFICES ASSUME IInv, [Next]_vars PROVE IInv'
  OBVIOUS
<1>1. CASE UNCHANGED vars
  BY <1>1 DEF vars, gameVars, IInv, TypeOK, TableHasFirst, SessionsHoldTheirPlayers,
              PlayerIds
<1>2. CASE Next
  <2>0. UNCHANGED automatic
    BY <1>2, Steps
  <2>1. ASSUME NEW m \in Maps, Joined(m) PROVE IInv'
    BY <2>0, <2>1, JoinKeepsTypes, JoinKeepsTable, JoinKeepsSessions DEF IInv
  <2>2. CASE Threw
    BY <2>0, <2>2, GameUntouched DEF Threw, Silence, gameVars, IInv, TypeOK
  <2>3. CASE Ticked
    <3>1. shifts' \in [Maps -> 0 .. MaxShifts]
      BY <2>3, ApiAssumption DEF Ticked, SetTimeShift, IInv, TypeOK
    <3> QED  BY <2>0, <2>3, <3>1, GameUntouched
             DEF Ticked, SetTimeShift, Answer, Silence, IInv, TypeOK
  <2>4. ASSUME NEW t \in DOMAIN tokenToPlayer, NEW c \in Commands, Acted(t, c)
        PROVE  IInv'
    BY <2>0, <2>4, ActKeeps
  <2>5. ASSUME NEW t \in DOMAIN tokenToPlayer, Shown(t) PROVE IInv'
    BY <2>0, <2>5, GameUntouched, ShownArePlayers
       DEF Shown, Show, Answer, gameVars, IInv, TypeOK
  <2>6. CASE Show(NoToken, {}) \/ Rejected
    BY <2>0, <2>6, GameUntouched
       DEF Show, Rejected, Reject, Answer, gameVars, IInv, TypeOK
  <2> QED  BY <1>2, Steps, <2>1, <2>2, <2>3, <2>4, <2>5, <2>6
<1> QED  BY <1>1, <1>2

LEMMA Invariant == Spec => []IInv
  BY InvInitially, InvKept, PTL DEF Spec
-----------------------------------------------------------------------------
(* What the registry promises.                                             *)

\* Type correctness, for any maps and tokens and any number of players.
THEOREM TypeCorrect == Spec => []TypeOK
<1>1. IInv => TypeOK
  BY DEF IInv
<1> QED  BY <1>1, Invariant, PTL

\* The token a player was told leads to the first player it was told to, however
\* many players come after it and whatever tokens are drawn for them.
THEOREM FirstPlayerKeepsToken == Spec => []TokenFindsItsPlayer
<1>1. ASSUME IInv PROVE TokenFindsItsPlayer
  <2> SUFFICES ASSUME NEW n \in PlayerIds
               PROVE  /\ told[n] \in DOMAIN tokenToPlayer
                      /\ tokenToPlayer[told[n]] \in 1 .. n
                      /\ told[tokenToPlayer[told[n]]] = told[n]
                      /\ \A earlier \in 1 .. tokenToPlayer[told[n]] - 1 :
                            told[earlier] # told[n]
    BY DEF TokenFindsItsPlayer
  <2> DEFINE owner == tokenToPlayer[told[n]]
  <2>1. PlayerIds = 1 .. Len(players) /\ Len(players) \in Nat
    BY <1>1, PlayersAreNumbered DEF IInv
  <2>2. told[n] \in DOMAIN tokenToPlayer
    BY <1>1 DEF IInv, TableHasFirst
  <2>3. /\ owner \in PlayerIds /\ told[owner] = told[n]
        /\ \A k \in 1 .. owner - 1 : told[k] # told[n]
    BY <1>1, <2>2 DEF IInv, TableHasFirst
  <2>4. owner \in 1 .. n
    <3> HIDE DEF owner
    <3> QED  BY <2>1, <2>3
  <2> QED  BY <2>2, <2>3, <2>4
<1> QED  BY <1>1, Invariant, PTL

\* A session has the dogs of its map's players in the order they joined, and
\* there is no session without players.
THEOREM SessionsAreTheirPlayers == Spec => []SessionsHoldTheirPlayers
<1>1. IInv => SessionsHoldTheirPlayers
  BY DEF IInv
<1> QED  BY <1>1, Invariant, PTL

\* A request that is answered with an error leaves players, dogs, tokens and time
\* as they were: no check of a request comes after a change.
THEOREM ErrorsAreHarmless == Spec => ErrorsChangeNothing
<1>1. ASSUME [Next]_vars
      PROVE  [answer'.status \notin {0, 200} => UNCHANGED gameVars]_vars
  <2> SUFFICES ASSUME Next, answer'.status \notin {0, 200} PROVE UNCHANGED gameVars
    BY <1>1
  <2>1. ASSUME NEW m \in Maps, Joined(m) PROVE FALSE
    BY <2>1 DEF Joined, AddPlayer, Enter, Answer
  <2>2. ~Ticked
    BY DEF Ticked, Answer, Silence
  <2>3. ASSUME NEW t, NEW c, Acted(t, c) PROVE FALSE
    BY <2>3 DEF Acted, Answer
  <2> QED  BY Steps, <2>1, <2>2, <2>3 DEF Threw, Shown, Show, Rejected, Reject
<1> QED  BY <1>1, PTL DEF Spec, ErrorsChangeNothing

\* The table leads to the owner of a token.
LEMMA TableLeadsToOwner ==
  ASSUME IInv, NEW t \in DOMAIN tokenToPlayer PROVE Owner(t) = tokenToPlayer[t]
<1> DEFINE First(n) == told[n] = t /\ \A k \in 1 .. n - 1 : told[k] # t
           o == tokenToPlayer[t]
<1>1. PlayerIds = 1 .. Len(players) /\ Len(players) \in Nat
  BY PlayersAreNumbered DEF IInv
<1>2. o \in PlayerIds /\ First(o)
  BY DEF IInv, TableHasFirst
<1>3. ASSUME NEW n \in PlayerIds, First(n) PROVE n = o
  <2> HIDE DEF o
  <2> QED  BY <1>1, <1>2, <1>3
<1>4. Owner(t) = CHOOSE n \in PlayerIds : First(n)
  BY DEF Owner
<1> HIDE DEF o, First
<1> QED  BY <1>2, <1>3, <1>4 DEF o

\* Whoever shows a token acts for the first player it was told to and is shown
\* the players of this player's map, however many share maps and tokens.
THEOREM TokenIsItsPlayer == Spec => TokenActsForItsPlayer
<1> DEFINE Turns ==
             \A n \in PlayerIds : players'[n] # players[n] => n = Owner(answer'.token)
           Sees ==
             answer'.seen # {} =>
               answer'.seen = {n \in PlayerIds :
                   players[n].map = players[Owner(answer'.token)].map}
<1>1. ASSUME IInv, Next PROVE Turns /\ Sees
  <2>1. ASSUME NEW m \in Maps, Joined(m) PROVE Turns /\ Sees
    <3>1. PICK t \in Tokens :
            /\ \A n \in PlayerIds : players'[n] = players[n]
            /\ answer' = [status |-> 200, token |-> t, seen |-> {}]
      BY <1>1, <2>1, JoinAppends
    <3> QED  BY <3>1
  <2>2. CASE Threw \/ Ticked \/ Show(NoToken, {}) \/ Rejected
    BY <2>2 DEF Threw, Ticked, SetTimeShift, Show, Rejected, Reject, Answer, Silence,
                gameVars
  <2>3. ASSUME NEW t \in DOMAIN tokenToPlayer, NEW c \in Commands, Acted(t, c)
        PROVE  Turns /\ Sees
    <3>1. answer' = [status |-> 200, token |-> t, seen |-> {}]
      BY <2>3 DEF Acted, Answer
    <3>2. \A n \in PlayerIds : n # tokenToPlayer[t] => players'[n] = players[n]
      BY <1>1, <2>3, PlayersAreNumbered
         DEF Acted, SetDogMovementParameters, PlayerIds, IInv
    <3> QED  BY <1>1, <3>1, <3>2, TableLeadsToOwner
  <2>4. ASSUME NEW t \in DOMAIN tokenToPlayer, Shown(t) PROVE Turns /\ Sees
    <3>1. /\ answer'.token = t /\ players' = players
          /\ answer'.seen = GetDogsList(tokenToPlayer[t])
      BY <2>4 DEF Shown, Show, Answer, gameVars
    <3> QED  BY <1>1, <3>1, TableLeadsToOwner, ShownArePlayers
  <2> HIDE DEF Turns, Sees
  <2> QED  BY <1>1, Steps, <2>1, <2>2, <2>3, <2>4
<1>2. IInv /\ [Next]_vars => [Turns /\ Sees]_vars
  BY <1>1
<1> QED  BY <1>2, Invariant, PTL DEF Spec, TokenActsForItsPlayer
=============================================================================
