--------------------------- MODULE MCRequestHandler ---------------------------
(* Files with up to two maps, right and wrong, small trees of files, and      *)
(* requests written in several ways.                                         *)
EXTENDS RequestHandler, TLC

int64(n)  == [kind |-> "int64", value |-> n]
uint64(n) == [kind |-> "uint64", value |-> n]
double(n) == [kind |-> "double", value |-> n]

Without(f, key) == [k \in (DOMAIN f) \ {key} |-> f[k]]

Key    == [name |-> "key", value |-> int64(10)]
Wallet == [name |-> "wallet", value |-> int64(30)]
Office == [id |-> "o0", x |-> 4, y |-> 3, offsetX |-> 5, offsetY |-> 0]

\* The second road has no length, the third is no road.
PlainMap(i) ==
    [id |-> i, name |-> "Town", lootTypes |-> <<Key, Wallet>>,
     roads |-> <<[x0 |-> 0, y0 |-> 0, x1 |-> 4], [x0 |-> 4, y0 |-> 0, y1 |-> 0],
                 [x0 |-> 1, y0 |-> 1], [x0 |-> 4, y0 |-> 3, y1 |-> 0]>>,
     buildings |-> <<[x |-> 5, y |-> 5, w |-> 3, h |-> 2]>>,
     offices |-> <<Office, [Office EXCEPT !.id = "o1"]>>]

MapsThatLoad(i) ==
    {PlainMap(i), PlainMap(i) @@ ("dogSpeed" :> double(4)),
     PlainMap(i) @@ ("bagCapacity" :> uint64(5))}
MapsThatThrow(i) ==
    {PlainMap(i) @@ ("bagCapacity" :> int64(5)),
     PlainMap(i) @@ ("dogSpeed" :> int64(4)),
     [PlainMap(i) EXCEPT !.offices = <<Office, Office>>],
     [PlainMap(i) EXCEPT !.lootTypes = <<Key, [name |-> "wallet"]>>],
     Without(PlainMap(i), "lootTypes")}

Generator == [period |-> double(5), probability |-> double(1)]
MapFiles ==
    {[maps |-> m, lootGeneratorConfig |-> Generator] @@ o :
        m \in {<<>>}
              \cup {<<a>> : a \in MapsThatLoad(<<109>>) \cup MapsThatThrow(<<109>>)}
              \cup {<<a, b>> : a \in MapsThatLoad(<<109>>),
                              b \in MapsThatLoad(<<110>>) \cup MapsThatThrow(<<110>>)
                                    \cup {PlainMap(<<109>>)}},
        o \in {<<>>, "defaultDogSpeed" :> double(3),
               ("defaultBagCapacity" :> uint64(2)) @@ ("defaultDogSpeed" :> double(3)),
               "defaultBagCapacity" :> int64(2)}}
MCConfigs ==
    MapFiles
    \cup {[missing |-> TRUE],
          [maps |-> <<>>, lootGeneratorConfig |-> [period |-> double(5)]]}

MCCommandLines == [given : SUBSET Options, period : {"number", "text"}]
MCMethods == {"GET", "POST"}

\* /w/index.html, /w/d/a b, /w/a+b, /w/d/l, which is locked, and /v/x.
MCRoot == << <<119>> >>
MCLocked == {MCRoot \o << <<100>>, <<108>> >>}
MCFiles == MCLocked \cup {Append(MCRoot, Index), Append(MCRoot, <<97, 43, 98>>),
                          MCRoot \o << <<100>>, <<97, 32, 98>> >>,
                          << <<118>>, <<120>> >>}
Tick == Api \o <<116>>
Join == Api \o <<106>>
MCGameQueries == {Join}

\* What clients ask for.
Meant ==
    {Maps, Maps \o <<Slash, 109>>, Maps \o <<Slash, 110>>, Maps \o <<Slash, 120>>,
     Maps \o <<Slash>>, Maps \o <<Slash, 109, Slash>>, Maps \o <<110, 109>>,
     Tick, Join, Api, <<Slash>>, Index, <<Slash>> \o Index,
     <<Slash>> \o Index \o <<Slash>>, <<Slash, 97, 43, 98>>, <<Slash, 100>>,
     <<Slash, 100, Slash, 97, 32, 98>>, <<Slash, 100, Slash, 108>>,
     <<Slash, 120>>, <<Slash, Slash, 118, Slash, 120>>,
     <<Slash, 100, Slash, Dot, Dot, Slash, Dot, Slash, 97, 43, 98>>,
     <<Slash, Dot, Dot>>}

Digit(n, a) == IF n < 10 THEN 48 + n ELSE a + n - 10
Escape(c, a) == <<Percent, Digit(c \div 16, a), Digit(c % 16, a)>>

\* The path with the characters at the places E escaped, and those that have to
\* be; "a" is the first of the digits above nine.
Encode(path, E, a) ==
    FoldLeft(LAMBDA t, k :
        t \o (IF k \in E \/ path[k] \in {Plus, Percent} THEN Escape(path[k], a)
              ELSE IF path[k] = Blank THEN <<Plus>> ELSE <<path[k]>>),
        <<>>, [k \in DOMAIN path |-> k])

MCRequests ==
    {[meant |-> p, target |-> Encode(p, E, a)] :
        p \in Meant, a \in {65, 97}, E \in {{}, {1}, {2, 3}, 1 .. 20}}
    \cup {[meant |-> <<>>, target |-> t] :
            t \in {<<Slash, Percent>>, <<Slash, Percent, 122, 122>>,
                   <<Slash, Percent, 52>>, <<Slash, Percent, Minus, 52, 120>>,
                   <<Slash, Percent, 52, 122>>}}
=============================================================================
