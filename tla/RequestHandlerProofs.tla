------------------------- MODULE RequestHandlerProofs -------------------------
(***************************************************************************)
(* What holds of the server whatever is in its files and is asked of it.   *)
(*                                                                         *)
(* A server that answers has loaded its whole configuration, however many  *)
(* maps it has.  While the maps are loaded, those at hand are the first    *)
(* ones of the file, each under its own id: this is inductive since the id *)
(* of the next map is new in the table, so that no entry is changed.       *)
(*                                                                         *)
(* A path that is written with escapes is answered as the path itself.     *)
(* ParseURL is a recursive function on the places of a target; that there  *)
(* is one, and what it yields, is shown by taking the places from the last *)
(* one back.                                                               *)
(*                                                                         *)
(* From these two: a client that asks for a map is shown the map that the  *)
(* file has, and one that asks for a file below the root gets that file.   *)
(* The first rests on what SetRoads adds for the roads of a map and adds   *)
(* again for those that are shown; the second on the text of a path, its   *)
(* names and where they lead, all three folds of sequences.                *)
(***************************************************************************)
EXTENDS RequestHandler, NaturalsInduction, WellFoundedInduction, TLAPS

MapsOfFile ==
    {LoadedMap(config.maps[k], DefaultsOf(config)) : k \in DOMAIN config.maps}

\* The first Len(maps) maps of the file are loaded.
LoadedSoFar ==
    /\ "maps" \in DOMAIN config
    /\ maps \in Seq(MapsOfFile)
    /\ Len(maps) <= Len(config.maps)
    /\ DOMAIN mapIndex = {config.maps[k].id : k \in 1 .. Len(maps)}
    /\ \A k \in 1 .. Len(maps) :
        /\ MapLoads(config.maps[k])
        /\ maps[k] = LoadedMap(config.maps[k], DefaultsOf(config))
        /\ mapIndex[config.maps[k].id] = k

\* The inductive invariant.
IInv ==
    /\ config \in Configs
    /\ stage \in {"arguments", "options"} => maps = <<>> /\ mapIndex = <<>>
    /\ stage = "maps" => defaults = DefaultsOf(config)
    /\ stage \in {"maps", "serving"} => LoadedSoFar
    /\ ServesOnlyWholeConfigurations

LEMMA InvInitially == StartInit => IInv
  BY DEF StartInit, IInv, ServesOnlyWholeConfigurations

\* The maps of a file are a sequence.
LEMMA FileMaps ==
    ASSUME config \in Configs, "maps" \in DOMAIN config
    PROVE  /\ Len(config.maps) \in Nat
           /\ DOMAIN config.maps = 1 .. Len(config.maps)
<1>1. config.maps \in Seq({config.maps[k] : k \in DOMAIN config.maps})
  BY ConfigsAssumption DEF IsArray
<1> DEFINE S == {config.maps[k] : k \in DOMAIN config.maps}
           ms == config.maps
<1>2. ms \in Seq(S) BY <1>1
<1> HIDE DEF S, ms
<1>3. Len(ms) \in Nat /\ DOMAIN ms = 1 .. Len(ms) BY <1>2
<1> QED BY <1>3 DEF ms

\* Before the first map nothing is loaded, which is all there is to be.
LEMMA OptionsKeep == ASSUME IInv, LoadOptions PROVE IInv'
<1>1. CASE ~OptionsLoad(config) /\ Exit("failed")
  BY <1>1 DEF IInv, Exit, gameVars, ServesOnlyWholeConfigurations
<1>2. CASE /\ OptionsLoad(config) /\ defaults' = DefaultsOf(config)
           /\ stage' = "maps" /\ UNCHANGED <<args, config, maps, mapIndex, frontend>>
  <2>1. maps' = <<>> /\ mapIndex' = <<>> /\ config' = config
    BY <1>2 DEF LoadOptions, IInv
  <2>2. "maps" \in DOMAIN config BY <1>2 DEF OptionsLoad
  <2>3. Len(config.maps) \in Nat BY <2>2, FileMaps DEF IInv
  <2>4. <<>> \in Seq(MapsOfFile) /\ Len(<<>>) = 0 /\ DOMAIN <<>> = {}
    OBVIOUS
  <2>5. LoadedSoFar'
    <3>1. maps' \in Seq(MapsOfFile') BY <2>1
    <3>2. Len(maps') = 0 BY <2>1
    <3>3. DOMAIN mapIndex' = {} BY <2>1
    <3> QED BY <2>1, <2>2, <2>3, <3>1, <3>2, <3>3 DEF LoadedSoFar
  <2> QED BY <1>2, <2>1, <2>5 DEF IInv, ServesOnlyWholeConfigurations
<1> QED BY <1>1, <1>2 DEF LoadOptions

\* One more map of the file: its id is new, so the entries of the others stay.
LEMMA MapKeeps == ASSUME IInv, LoadMap PROVE IInv'
<1> DEFINE n == Len(maps)
           map == config.maps[n + 1]
           loaded == LoadedMap(map, defaults)
<1>1. stage = "maps" /\ Len(maps) < Len(config.maps) BY DEF LoadMap
<1>2. LoadedSoFar /\ defaults = DefaultsOf(config) /\ config \in Configs
  BY <1>1 DEF IInv
<1>3. n \in Nat BY <1>2 DEF LoadedSoFar
<1>4. /\ Len(config.maps) \in Nat /\ DOMAIN config.maps = 1 .. Len(config.maps)
  BY <1>2, FileMaps DEF LoadedSoFar
<1>5. CASE Exit("failed")
  BY <1>5 DEF IInv, Exit, gameVars, ServesOnlyWholeConfigurations
<1>6. CASE /\ MapLoads(map) /\ MayAdd(map)
           /\ maps' = Append(maps, loaded)
           /\ mapIndex' = [id \in (DOMAIN mapIndex) \cup {map.id} |->
                 IF id \in DOMAIN mapIndex THEN mapIndex[id] ELSE n + 1]
           /\ UNCHANGED <<args, config, stage, defaults, frontend>>
  <2>1. config' = config /\ stage' = "maps" /\ defaults' = defaults
    BY <1>1, <1>6
  <2>2. MapsOfFile' = MapsOfFile BY <2>1 DEF MapsOfFile
  <2>3. loaded \in MapsOfFile
    BY <1>1, <1>2, <1>3, <1>4 DEF MapsOfFile
  <2>4. maps \in Seq(MapsOfFile) BY <1>2 DEF LoadedSoFar
  <2> HIDE DEF loaded
  <2>5. /\ maps' \in Seq(MapsOfFile) /\ Len(maps') = n + 1
        /\ maps'[n + 1] = loaded
        /\ \A k \in 1 .. n : maps'[k] = maps[k]
    BY <1>6, <2>3, <2>4
  <2> HIDE DEF n
  <2>6. map.id \notin DOMAIN mapIndex BY <1>6 DEF MayAdd
  <2>7. /\ DOMAIN mapIndex = {config.maps[k].id : k \in 1 .. n}
        /\ \A k \in 1 .. n :
            /\ MapLoads(config.maps[k])
            /\ maps[k] = LoadedMap(config.maps[k], DefaultsOf(config))
            /\ mapIndex[config.maps[k].id] = k
    BY <1>2 DEF LoadedSoFar, n
  <2>8. DOMAIN mapIndex' = {config.maps[k].id : k \in 1 .. n + 1}
    BY <1>3, <1>6, <2>7
  <2>9. ASSUME NEW k \in 1 .. n + 1
        PROVE  /\ MapLoads(config.maps[k])
               /\ maps'[k] = LoadedMap(config.maps[k], DefaultsOf(config))
               /\ mapIndex'[config.maps[k].id] = k
    <3>1. CASE k = n + 1
      <4>1. mapIndex'[map.id] = n + 1 BY <1>6, <2>6
      <4> QED BY <1>2, <1>6, <2>5, <3>1, <4>1 DEF loaded
    <3>2. CASE k \in 1 .. n
      <4>1. config.maps[k].id \in DOMAIN mapIndex BY <2>7, <3>2
      <4>2. mapIndex'[config.maps[k].id] = mapIndex[config.maps[k].id]
        BY <1>6, <4>1
      <4> QED BY <2>5, <2>7, <3>2, <4>2
    <3> QED BY <1>3, <3>1, <3>2
  <2>10. n + 1 <= Len(config.maps) BY <1>1, <1>3, <1>4 DEF n
  <2>11. LoadedSoFar'
    BY <1>2, <2>1, <2>2, <2>5, <2>8, <2>9, <2>10 DEF LoadedSoFar
  <2> QED BY <1>2, <2>1, <2>11 DEF IInv, ServesOnlyWholeConfigurations
<1> QED BY <1>5, <1>6 DEF LoadMap

\* No two maps have one id, so the data of a map is found under its id.
LEMMA FrontendKeeps == ASSUME IInv, LoadFrontendData PROVE IInv'
<1>1. stage = "maps" /\ Len(maps) = Len(config.maps) /\ stage' = "serving"
  BY DEF LoadFrontendData
<1>2. LoadedSoFar /\ config \in Configs BY <1>1 DEF IInv
<1>3. config' = config /\ maps' = maps /\ mapIndex' = mapIndex
  BY DEF LoadFrontendData
<1>4. DOMAIN config.maps = 1 .. Len(config.maps) BY <1>2, FileMaps DEF LoadedSoFar
<1>5. DOMAIN maps = 1 .. Len(maps) BY <1>2 DEF LoadedSoFar
<1>6. \A j, k \in DOMAIN config.maps : config.maps[j].id = config.maps[k].id => j = k
  BY <1>1, <1>2, <1>4 DEF LoadedSoFar
<1>7. ASSUME NEW k \in DOMAIN config.maps
      PROVE  frontend'[config.maps[k].id] = config.maps[k].lootTypes
  <2> DEFINE j == CHOOSE i \in DOMAIN config.maps :
                    config.maps[i].id = config.maps[k].id
  <2>1. j \in DOMAIN config.maps /\ config.maps[j].id = config.maps[k].id
    OBVIOUS
  <2>2. j = k BY <1>6, <2>1
  <2>3. frontend'[config.maps[k].id] = config.maps[j].lootTypes
    BY DEF LoadFrontendData
  <2> QED BY <2>2, <2>3
<1>8. ServesOnlyWholeConfigurations'
  BY <1>1, <1>2, <1>3, <1>4, <1>5, <1>7
     DEF LoadedSoFar, ServesOnlyWholeConfigurations, FindMap
<1>9. LoadedSoFar' BY <1>2, <1>3 DEF LoadedSoFar, MapsOfFile
<1> QED BY <1>1, <1>2, <1>3, <1>8, <1>9 DEF IInv

LEMMA InvKept == IInv /\ [StartNext]_startVars => IInv'
<1> SUFFICES ASSUME IInv, [StartNext]_startVars PROVE IInv' OBVIOUS
<1>1. CASE ParseCommandLine
  BY <1>1 DEF ParseCommandLine, Exit, IInv, gameVars, ServesOnlyWholeConfigurations
<1>2. CASE UNCHANGED startVars
  BY <1>2 DEF startVars, gameVars, IInv, ServesOnlyWholeConfigurations,
              LoadedSoFar, MapsOfFile, FindMap
<1> QED BY <1>1, <1>2, OptionsKeep, MapKeeps, FrontendKeeps DEF StartNext

\* Requests leave alone what is loaded.
LEMMA StartsAsAlone == Spec => StartSpec
<1>1. Init => StartInit BY DEF Init
<1>2. [Next]_vars => [StartNext]_startVars
  BY DEF Next, vars, Send, Handle
<1> QED BY <1>1, <1>2, PTL DEF Spec, StartSpec

\* For every set of command lines and of files, with any number of maps: whoever
\* is served is served the whole configuration.
THEOREM WholeConfigurationsServed == Spec => []ServesOnlyWholeConfigurations
<1>1. IInv => ServesOnlyWholeConfigurations BY DEF IInv
<1> QED BY <1>1, StartsAsAlone, InvInitially, InvKept, PTL DEF StartSpec
-----------------------------------------------------------------------------
(* The escapes of a target.                                                *)

\* A set that holds a number whenever it holds all smaller ones holds all.
LEMMA SetInduction ==
    ASSUME NEW T, \A n \in Nat : (\A m \in 0 .. n - 1 : m \in T) => n \in T
    PROVE  Nat \subseteq T
<1> DEFINE B == Nat \ T
<1>1. SUFFICES ASSUME B # {} PROVE FALSE
  OBVIOUS
<1>2. IsWellFoundedOn(OpToRel(<, Nat), Nat) BY NatLessThanWellFounded
<1>3. PICK n \in B : \A m \in B : ~(<<m, n>> \in OpToRel(<, Nat))
  BY <1>1, <1>2, WFMin
<1>4. ASSUME NEW m \in 0 .. n - 1 PROVE m \in T
  <2>1. SUFFICES ASSUME m \notin T PROVE FALSE
    OBVIOUS
  <2>2. <<m, n>> \in OpToRel(<, Nat) BY DEF OpToRel
  <2>3. m \in B BY <2>1
  <2> QED BY <2>2, <2>3, <1>3
<1>5. n \in T BY <1>4
<1> QED BY <1>5

\* The function that ParseURL defines for the target t: f[i] is what stands
\* from the i-th character on.
Places(t) == 1 .. Len(t) + 3
Rest(t, f, i) ==
    IF i > Len(t) THEN <<>>
    ELSE IF t[i] = Percent
    THEN <<Stoi(UpTo2(t, i + 1))>> \o f[AfterEscape(i)]
    ELSE <<IF t[i] = Plus THEN Blank ELSE t[i]>> \o f[i + 1]
Parsed(t) == CHOOSE f : f = [i \in Places(t) |-> Rest(t, f, i)]

LEMMA TargetFacts ==
    ASSUME NEW t \in Seq(Nat)
    PROVE  Len(t) \in Nat /\ \A i \in 1 .. Len(t) : t[i] \in Nat
OBVIOUS

\* stoi makes a number of what follows a percent sign, or NoNumber.
LEMMA StoiIsInteger ==
    ASSUME NEW t \in Seq(Nat), NEW i \in 1 .. Len(t)
    PROVE  Stoi(UpTo2(t, i + 1)) \in Int
<1> DEFINE s == UpTo2(t, i + 1)
<1>1. Len(t) \in Nat /\ \A k \in 1 .. Len(t) : t[k] \in Nat BY TargetFacts
<1>2. s \in Seq(Nat) BY <1>1 DEF UpTo2
<1> HIDE DEF s
<1>3. ASSUME NEW c \in Nat PROVE HexValue(c) \in Int BY DEF HexValue
<1>4. s # <<>> => s[1] \in Nat BY <1>2
<1>5. Len(s) = 2 => s[2] \in Nat
  <2>1. \A k \in 1 .. Len(s) : s[k] \in Nat BY <1>2
  <2>2. Len(s) = 2 => 2 \in 1 .. Len(s) OBVIOUS
  <2> QED BY <2>1, <2>2
<1>6. s # <<>> => HexValue(s[1]) \in Int BY <1>3, <1>4
<1>7. Len(s) = 2 => HexValue(s[2]) \in Int BY <1>3, <1>5
<1>8. Stoi(s) \in Int
  BY <1>6, <1>7 DEF Stoi, NoNumber
<1> QED BY <1>8 DEF s

\* There is such a function, for every target.
LEMMA ParsingEnds ==
    ASSUME NEW t \in Seq(Nat)
    PROVE  \E f : f = [i \in Places(t) |-> Rest(t, f, i)]
<1> DEFINE L == Len(t)
           S == Seq(Int)
           Good(f, n) == \A i \in Places(t) : L + 3 - i < n => f[i] = Rest(t, f, i)
           T == {n \in Nat : \E f \in [Places(t) -> S] : Good(f, n)}
<1>1. L \in Nat /\ \A i \in 1 .. L : t[i] \in Nat BY TargetFacts
<1>2. ASSUME NEW f \in [Places(t) -> S], NEW i \in Places(t)
      PROVE  Rest(t, f, i) \in S
  <2>1. CASE i > L
    BY <2>1 DEF Rest
  <2>2. CASE i <= L /\ t[i] = Percent
    <3>1. i \in 1 .. L /\ i + 3 \in Places(t) BY <1>1, <2>2 DEF Places
    <3> DEFINE n == Stoi(UpTo2(t, i + 1))
    <3>2. n \in Int BY <3>1, StoiIsInteger
    <3>3. f[i + 3] \in Seq(Int) BY <3>1
    <3>4. Rest(t, f, i) = <<n>> \o f[i + 3] BY <1>1, <2>2 DEF Rest, AfterEscape, Places
    <3> HIDE DEF n
    <3>5. <<n>> \in Seq(Int) BY <3>2
    <3> QED BY <3>3, <3>4, <3>5
  <2>3. CASE i <= L /\ t[i] # Percent
    <3>1. i \in 1 .. L /\ i + 1 \in Places(t) BY <1>1, <2>3 DEF Places
    <3> DEFINE n == IF t[i] = Plus THEN Blank ELSE t[i]
    <3>2. n \in Int BY <1>1, <3>1 DEF Blank
    <3>3. f[i + 1] \in Seq(Int) BY <3>1
    <3>4. Rest(t, f, i) = <<n>> \o f[i + 1] BY <1>1, <2>3 DEF Rest, Places
    <3> HIDE DEF n
    <3>5. <<n>> \in Seq(Int) BY <3>2
    <3> QED BY <3>3, <3>4, <3>5
  <2> QED BY <1>1, <2>1, <2>2, <2>3 DEF Places
<1>3. ASSUME NEW n \in Nat, \A m \in 0 .. n - 1 : m \in T PROVE n \in T
  <2>1. CASE n = 0
    <3> DEFINE f == [i \in Places(t) |-> <<>>]
    <3>1. f \in [Places(t) -> S] OBVIOUS
    <3>2. Good(f, 0) BY <1>1 DEF Places
    <3> HIDE DEF f
    <3> QED BY <2>1, <3>1, <3>2
  <2>2. CASE n > 0
    <3>1. n - 1 \in T BY <2>2, <1>3
    <3>2. PICK f \in [Places(t) -> S] : Good(f, n - 1) BY <3>1
    <3> DEFINE h == [i \in Places(t) |-> Rest(t, f, i)]
    <3>3. h \in [Places(t) -> S] BY <1>2
    <3>4. ASSUME NEW i \in Places(t), L + 3 - i < n PROVE h[i] = Rest(t, h, i)
      <4>1. CASE i > L
        BY <4>1 DEF Rest
      <4>2. ASSUME i <= L, NEW j \in {i + 1, i + 3} PROVE h[j] = f[j]
        <5>1. j \in Places(t) /\ L + 3 - j < n - 1 BY <1>1, <3>4, <4>2 DEF Places
        <5>2. f[j] = Rest(t, f, j) BY <3>2, <5>1
        <5> QED BY <5>1, <5>2
      <4>3. CASE i <= L
        <5>1. h[i] = Rest(t, f, i) OBVIOUS
        <5>2. h[i + 1] = f[i + 1] /\ h[AfterEscape(i)] = f[AfterEscape(i)]
          BY <4>2, <4>3 DEF AfterEscape
        <5> HIDE DEF h
        <5> QED BY <5>1, <5>2 DEF Rest
      <4> QED BY <1>1, <4>1, <4>3 DEF Places
    <3>5. Good(h, n) BY <3>4
    <3> HIDE DEF h, S
    <3> HIDE DEF Good
    <3>6. \E e \in [Places(t) -> S] : Good(e, n) BY <3>3, <3>5
    <3> QED BY <3>6
  <2>3. n = 0 \/ n > 0 OBVIOUS
  <2> QED BY <2>1, <2>2, <2>3, Zenon
<1>4. Nat \subseteq T
  <2> HIDE DEF T
  <2> QED BY <1>3, SetInduction
<1>5. L + 3 \in T
  <2> HIDE DEF T
  <2> QED BY <1>1, <1>4
<1>6. PICK f \in [Places(t) -> S] : Good(f, L + 3) BY <1>5
<1>7. \A i \in Places(t) : f[i] = Rest(t, f, i) BY <1>1, <1>6 DEF Places
<1>8. f = [i \in Places(t) |-> Rest(t, f, i)] BY <1>7
<1> QED BY <1>8

\* ParseURL undoes one escape or takes one character, and goes on behind it.
LEMMA ParsingSteps ==
    ASSUME NEW t \in Seq(Nat)
    PROVE  /\ ParseURL(t) = Parsed(t)[1]
           /\ \A i \in Places(t) : Parsed(t)[i] = Rest(t, Parsed(t), i)
<1>1. Parsed(t) = [i \in Places(t) |-> Rest(t, Parsed(t), i)]
  BY ParsingEnds DEF Parsed
<1>2. ParseURL(t) = Parsed(t)[1]
  BY DEF ParseURL, Parsed, Rest, Places
<1> DEFINE f == Parsed(t)
<1>3. f = [i \in Places(t) |-> Rest(t, f, i)] BY <1>1
<1> HIDE DEF f
<1>4. \A i \in Places(t) : f[i] = Rest(t, f, i) BY <1>3
<1> QED BY <1>2, <1>4 DEF f

\* What the characters of t behind the i-th and up to the j-th stand for.
Spells(t, i, j, c) ==
    \/ /\ j = i + 1 /\ t[j] \notin {Percent, Plus} /\ c = t[j]
    \/ /\ j = i + 1 /\ t[j] = Plus /\ c = Blank
    \/ /\ j = i + 3 /\ t[i + 1] = Percent
       /\ {t[i + 2], t[i + 3]} \subseteq HexDigits
       /\ c = 16 * HexValue(t[i + 2]) + HexValue(t[i + 3])

\* The target t writes the path p: each character of p as it is, as an escape
\* or, if it is a blank, as a plus.
Writes(t, p) ==
    \E ends \in [0 .. Len(p) -> 0 .. Len(t)] :
        /\ ends[0] = 0 /\ ends[Len(p)] = Len(t)
        /\ \A k \in 1 .. Len(p) : Spells(t, ends[k - 1], ends[k], p[k])

\* An escape of two digits is the number they make.
LEMMA EscapeIsUndone ==
    ASSUME NEW t \in Seq(Nat), NEW i \in 0 .. Len(t), i + 3 <= Len(t),
           {t[i + 2], t[i + 3]} \subseteq HexDigits
    PROVE  Stoi(UpTo2(t, i + 2)) = 16 * HexValue(t[i + 2]) + HexValue(t[i + 3])
<1>1. Len(t) \in Nat BY TargetFacts
<1>2. UpTo2(t, i + 2) = SubSeq(t, i + 2, i + 3)
  <2>1. i + 2 < Len(t) /\ (i + 2) + 1 = i + 3 BY <1>1
  <2> QED BY <2>1 DEF UpTo2
<1>3. /\ Len(SubSeq(t, i + 2, i + 3)) = 2
      /\ SubSeq(t, i + 2, i + 3)[1] = t[i + 2]
      /\ SubSeq(t, i + 2, i + 3)[2] = t[i + 3]
      /\ SubSeq(t, i + 2, i + 3) # <<>>
  BY <1>1
<1> QED BY <1>2, <1>3 DEF Stoi

\* Behind what stands for the first k - 1 characters of a path stand the k-th
\* and the others.
LEMMA NextCharacter ==
    ASSUME NEW t \in Seq(Nat), NEW i \in 0 .. Len(t), NEW j \in 0 .. Len(t), NEW c,
           Spells(t, i, j, c)
    PROVE  Parsed(t)[i + 1] = <<c>> \o Parsed(t)[j + 1]
<1> DEFINE f == Parsed(t)
<1>1. Len(t) \in Nat BY TargetFacts
<1>2. i + 1 <= Len(t) /\ i + 1 \in Places(t) BY <1>1 DEF Spells, Places
<1>3. f[i + 1] = Rest(t, f, i + 1) BY <1>2, ParsingSteps
<1> HIDE DEF f
<1>4. CASE j = i + 1 /\ t[j] \notin {Percent, Plus} /\ c = t[j]
  BY <1>1, <1>2, <1>3, <1>4 DEF Rest, f
<1>5. CASE j = i + 1 /\ t[j] = Plus /\ c = Blank
  BY <1>1, <1>2, <1>3, <1>5 DEF Rest, f, Plus, Percent
<1>6. CASE /\ j = i + 3 /\ t[i + 1] = Percent
           /\ {t[i + 2], t[i + 3]} \subseteq HexDigits
           /\ c = 16 * HexValue(t[i + 2]) + HexValue(t[i + 3])
  <2>1. Stoi(UpTo2(t, i + 2)) = c BY <1>6, EscapeIsUndone
  <2>2. (i + 1) + 1 = i + 2 /\ (i + 1) + 3 = j + 1 BY <1>6
  <2>3. ~(i + 1 > Len(t)) BY <1>1, <1>2
  <2>4. f[i + 1] = <<Stoi(UpTo2(t, (i + 1) + 1))>> \o f[(i + 1) + 3]
    BY <1>3, <1>6, <2>3 DEF Rest, AfterEscape
  <2> QED BY <2>1, <2>2, <2>4 DEF f
<1> QED BY <1>4, <1>5, <1>6 DEF Spells

\* Two sequences, one after the other.
LEMMA FirstOfTwo ==
    ASSUME NEW s \in Seq(Nat), NEW t \in Seq(Nat), NEW n \in 0 .. Len(s)
    PROVE  SubSeq(s \o t, 1, n) = SubSeq(s, 1, n)
OBVIOUS

LEMMA TwoTogether ==
    ASSUME NEW s \in Seq(Nat), NEW t \in Seq(Nat)
    PROVE  s \o t \in Seq(Nat) /\ Len(s \o t) = Len(s) + Len(t)
OBVIOUS

LEMMA SecondOfTwo ==
    ASSUME NEW s \in Seq(Nat), NEW t \in Seq(Nat)
    PROVE  SubSeq(s \o t, Len(s) + 1, Len(s) + Len(t)) = t
OBVIOUS

\* What begins at k is the k-th and what begins after it.
LEMMA SubSeqFirst ==
    ASSUME NEW p \in Seq(Nat), NEW k \in 1 .. Len(p)
    PROVE  SubSeq(p, k, Len(p)) = <<p[k]>> \o SubSeq(p, k + 1, Len(p))
<1> DEFINE M == Len(p)
           l == SubSeq(p, k, M)
           r == <<p[k]>> \o SubSeq(p, k + 1, M)
<1>1. M \in Nat /\ k \in Nat /\ 1 <= k /\ k <= M /\ p[k] \in Nat BY TargetFacts
<1>2. /\ l \in Seq(Nat) /\ Len(l) = M - k + 1
      /\ \A j \in 1 .. M - k + 1 : l[j] = p[k + j - 1]
  BY <1>1
<1>3. /\ SubSeq(p, k + 1, M) \in Seq(Nat) /\ Len(SubSeq(p, k + 1, M)) = M - k
      /\ \A j \in 1 .. M - k : SubSeq(p, k + 1, M)[j] = p[k + j]
  BY <1>1
<1> DEFINE t == SubSeq(p, k + 1, M)
<1>4. /\ r \in Seq(Nat) /\ Len(r) = M - k + 1 /\ r[1] = p[k]
      /\ \A j \in 2 .. M - k + 1 : r[j] = t[j - 1]
  <2> HIDE DEF t
  <2>1. t \in Seq(Nat) /\ Len(t) = M - k BY <1>3 DEF t
  <2> DEFINE c == p[k]
  <2>2. c \in Nat BY <1>1
  <2> HIDE DEF c
  <2>3. <<c>> \in Seq(Nat) /\ Len(<<c>>) = 1 /\ <<c>>[1] = c BY <2>2
  <2>4. <<c>> \o t \in Seq(Nat) /\ Len(<<c>> \o t) = 1 + (M - k)
    BY <2>1, <2>3, TwoTogether
  <2>5. (<<c>> \o t)[1] = c BY <2>1, <2>3
  <2>6. ASSUME NEW j \in 2 .. M - k + 1 PROVE (<<c>> \o t)[j] = t[j - 1]
    BY <1>1, <2>1, <2>3
  <2>7. 1 + (M - k) = M - k + 1 BY <1>1
  <2> QED BY <2>4, <2>5, <2>6, <2>7 DEF t, c
<1>5. ASSUME NEW j \in 1 .. M - k + 1 PROVE l[j] = r[j]
  <2> HIDE DEF l, r
  <2>1. CASE j = 1
    BY <1>1, <1>2, <1>4, <2>1
  <2>2. CASE j # 1
    <3>1. j \in 2 .. M - k + 1 /\ j - 1 \in 1 .. M - k BY <1>1, <2>2
    <3>2. r[j] = t[j - 1] BY <1>4, <3>1
    <3>3. t[j - 1] = p[k + (j - 1)] BY <1>3, <3>1
    <3>4. l[j] = p[k + j - 1] /\ k + (j - 1) = k + j - 1 BY <1>1, <1>2
    <3> QED BY <3>2, <3>3, <3>4
  <2> QED BY <2>1, <2>2
<1> HIDE DEF l, r
<1>6. l = r
  <2>1. DOMAIN l = 1 .. M - k + 1 /\ l = [j \in 1 .. M - k + 1 |-> l[j]]
    BY <1>1, <1>2
  <2>2. DOMAIN r = 1 .. M - k + 1 /\ r = [j \in 1 .. M - k + 1 |-> r[j]]
    BY <1>1, <1>4
  <2> QED BY <2>1, <2>2, <1>5
<1> QED BY <1>6 DEF l, r

\* However a path is written, ParseURL makes the path of it.
LEMMA EscapesAreUndone ==
    ASSUME NEW t \in Seq(Nat), NEW p \in Seq(Nat), Writes(t, p)
    PROVE  ParseURL(t) = p
<1> DEFINE f == Parsed(t)
           M == Len(p)
<1>1. PICK ends \in [0 .. M -> 0 .. Len(t)] :
        /\ ends[0] = 0 /\ ends[M] = Len(t)
        /\ \A k \in 1 .. M : Spells(t, ends[k - 1], ends[k], p[k])
  BY DEF Writes
<1>2. M \in Nat /\ Len(t) \in Nat BY TargetFacts
<1> DEFINE T == {n \in Nat : n <= M => f[ends[M - n] + 1] = SubSeq(p, M - n + 1, M)}
<1>3. ASSUME NEW n \in Nat, \A m \in 0 .. n - 1 : m \in T PROVE n \in T
  <2>1. SUFFICES ASSUME n <= M PROVE f[ends[M - n] + 1] = SubSeq(p, M - n + 1, M)
    OBVIOUS
  <2>2. CASE n = 0
    <3>1. Len(t) + 1 \in Places(t) BY <1>2 DEF Places
    <3>2. f[Len(t) + 1] = <<>>
      <4>1. f[Len(t) + 1] = Rest(t, f, Len(t) + 1) BY <3>1, ParsingSteps
      <4>2. Len(t) + 1 > Len(t) BY <1>2
      <4> QED BY <4>1, <4>2 DEF Rest
    <3>3. SubSeq(p, M + 1, M) = <<>> BY <1>2
    <3>4. M - n = M /\ M - n + 1 = M + 1 BY <1>2, <2>2
    <3> QED BY <1>1, <3>2, <3>3, <3>4
  <2>3. CASE n > 0
    <3> DEFINE k == M - n + 1
    <3>1. k \in 1 .. M /\ k - 1 = M - n /\ k = M - (n - 1) BY <1>2, <2>1, <2>3
    <3>2. n - 1 \in T
      <4>1. n - 1 \in 0 .. n - 1 BY <2>3
      <4> HIDE DEF T
      <4> QED BY <4>1, <1>3
    <3> HIDE DEF k
    <3>3. f[ends[k] + 1] = SubSeq(p, k + 1, M)
      <4>1. n - 1 <= M /\ M - (n - 1) + 1 = k + 1 BY <1>2, <2>1, <3>1
      <4> QED BY <3>1, <3>2, <4>1
    <3>4. ends[k - 1] \in 0 .. Len(t) /\ ends[k] \in 0 .. Len(t)
      <4>1. k \in 0 .. M /\ k - 1 \in 0 .. M BY <1>2, <3>1
      <4> QED BY <1>1, <4>1
    <3>5. f[ends[k - 1] + 1] = <<p[k]>> \o f[ends[k] + 1]
      BY <1>1, <3>1, <3>4, NextCharacter
    <3> HIDE DEF f
    <3>6. SubSeq(p, k, M) = <<p[k]>> \o SubSeq(p, k + 1, M)
      BY <3>1, SubSeqFirst
    <3>7. f[ends[k - 1] + 1] = SubSeq(p, k, M) BY <3>3, <3>5, <3>6
    <3>8. k = M - n + 1 BY DEF k
    <3>9. ends[M - n] = ends[k - 1] BY <3>1
    <3>10. SubSeq(p, M - n + 1, M) = SubSeq(p, k, M) BY <3>8, Zenon
    <3> QED BY <3>7, <3>9, <3>10, Zenon
  <2>4. n = 0 \/ n > 0 OBVIOUS
  <2> QED BY <2>2, <2>3, <2>4, Zenon
<1>4. M \in T
  <2>1. Nat \subseteq T
    <3> HIDE DEF T
    <3> QED BY <1>3, SetInduction
  <2> HIDE DEF T
  <2> QED BY <1>2, <2>1
<1>5. f[1] = SubSeq(p, 1, M)
  <2>1. M - M = 0 BY <1>2
  <2> HIDE DEF f
  <2> QED BY <1>1, <1>2, <1>4, <2>1
<1>6. SubSeq(p, 1, M) = p OBVIOUS
<1> QED BY <1>5, <1>6, ParsingSteps
-----------------------------------------------------------------------------
(* Answers.                                                                *)

\* The bound on requests keeps to targets that write what is meant, if there is
\* something meant.
WellWritten ==
    \A r \in Requests : r.meant # <<>> =>
        r.target \in Seq(Nat) /\ r.meant \in Seq(Nat) /\ Writes(r.target, r.meant)

\* While an answer is on its way nothing it rests on changes.
Served == asked # <<>> => stage = "serving" /\ EscapesMakeNoDifference

LEMMA AnswersAreKept == ASSUME WellWritten PROVE Spec => []Served
<1>1. Init => Served BY DEF Init, Served
<1>2. ASSUME Served, [Next]_vars PROVE Served'
  <2>1. CASE UNCHANGED vars
    <3>1. /\ asked' = asked /\ answer' = answer /\ stage' = stage /\ args' = args
          /\ maps' = maps /\ mapIndex' = mapIndex /\ frontend' = frontend
      BY <2>1 DEF vars, startVars, gameVars
    <3>2. EscapesMakeNoDifference => EscapesMakeNoDifference'
      BY <3>1 DEF EscapesMakeNoDifference, Route, ParseApiRequest, ParseMapsQuery,
         KnownQueries, FindMap, ParseFileRequest
    <3> QED BY <1>2, <3>1, <3>2 DEF Served
  <2>2. CASE StartNext /\ UNCHANGED <<asked, answer>>
    <3>1. stage # "serving"
      BY <2>2 DEF StartNext, ParseCommandLine, LoadOptions, LoadMap, LoadFrontendData
    <3>2. asked' = asked BY <2>2
    <3> QED BY <1>2, <3>1, <3>2 DEF Served
  <2>3. CASE Send
    BY <2>3 DEF Send, Served
  <2>4. ASSUME NEW method \in Methods, NEW request \in Requests, Handle(method, request)
        PROVE  Served'
    <3>1. /\ stage = "serving" /\ UNCHANGED startVars
          /\ asked' = [method |-> method, request |-> request]
      BY <2>4 DEF Handle
    <3>2. ASSUME request.meant # <<>>
          PROVE  answer' = Route(method, request.meant)
      <4>1. /\ request.target \in Seq(Nat) /\ request.meant \in Seq(Nat)
            /\ Writes(request.target, request.meant)
        BY <3>2 DEF WellWritten
      <4>2. ParseURL(request.target) = request.meant BY <4>1, EscapesAreUndone
      <4>3. ~Throws(request.meant)
        BY <4>1, TargetFacts DEF Throws, NoNumber
      <4> QED BY <2>4, <4>2, <4>3 DEF Handle
    <3>3. Route(method, request.meant)' = Route(method, request.meant)
      BY <3>1 DEF startVars, gameVars, Route, ParseApiRequest, ParseMapsQuery,
         KnownQueries, FindMap, ParseFileRequest
    <3>4. EscapesMakeNoDifference'
      BY <3>1, <3>2, <3>3 DEF EscapesMakeNoDifference
    <3> QED BY <3>1, <3>4 DEF Served, startVars
  <2> QED BY <1>2, <2>1, <2>2, <2>3, <2>4 DEF Next
<1> QED BY <1>1, <1>2, PTL DEF Spec

\* However a client writes a path, with escapes or without, for every path, it
\* gets the answer to that path.
THEOREM WritingMakesNoDifference ==
    ASSUME WellWritten
    PROVE  Spec => []EscapesMakeNoDifference
<1>1. Served => EscapesMakeNoDifference BY DEF Served, EscapesMakeNoDifference
<1> QED BY <1>1, AnswersAreKept, PTL
-----------------------------------------------------------------------------
(* The maps.                                                               *)

\* The function that SetRoads defines: f[k] are the roads added of the first k.
Adding(roads, f, k) ==
    IF k = 0 THEN <<>>
    ELSE IF HasEnd(roads[k]) THEN Append(f[k - 1], RoadOf(roads[k]))
    ELSE f[k - 1]
Added(roads) ==
    CHOOSE f : f = [k \in 0 .. Len(roads) |-> Adding(roads, f, k)]

RoadsOf(roads) == {RoadOf(roads[k]) : k \in 1 .. Len(roads)}

\* There is such a function, for every number of roads.
LEMMA AddingEnds ==
    ASSUME NEW roads, Len(roads) \in Nat
    PROVE  \E f \in [0 .. Len(roads) -> Seq(RoadsOf(roads))] :
              f = [k \in 0 .. Len(roads) |-> Adding(roads, f, k)]
<1> DEFINE L == Len(roads)
           S == Seq(RoadsOf(roads))
           Good(f, n) == \A k \in 0 .. L : k < n => f[k] = Adding(roads, f, k)
           T == {n \in Nat : \E f \in [0 .. L -> S] : Good(f, n)}
<1>1. ASSUME NEW f \in [0 .. L -> S], NEW k \in 0 .. L
      PROVE  Adding(roads, f, k) \in S
  <2>1. CASE k = 0
    BY <2>1 DEF Adding
  <2>2. CASE k # 0
    <3>1. k \in 1 .. L /\ k - 1 \in 0 .. L BY <2>2
    <3>2. RoadOf(roads[k]) \in RoadsOf(roads) /\ f[k - 1] \in S
      BY <3>1 DEF RoadsOf
    <3>3. Append(f[k - 1], RoadOf(roads[k])) \in S BY <3>2
    <3> QED BY <2>2, <3>2, <3>3 DEF Adding
  <2> QED BY <2>1, <2>2
<1>2. ASSUME NEW n \in Nat, \A m \in 0 .. n - 1 : m \in T PROVE n \in T
  <2>1. CASE n = 0
    <3> DEFINE f == [k \in 0 .. L |-> <<>>]
    <3>1. f \in [0 .. L -> S] OBVIOUS
    <3>2. Good(f, 0) OBVIOUS
    <3> HIDE DEF f
    <3> QED BY <2>1, <3>1, <3>2
  <2>2. CASE n > 0
    <3>1. n - 1 \in T BY <2>2, <1>2
    <3>2. PICK f \in [0 .. L -> S] : Good(f, n - 1) BY <3>1
    <3> DEFINE h == [k \in 0 .. L |-> Adding(roads, f, k)]
    <3>3. h \in [0 .. L -> S] BY <1>1
    <3>4. ASSUME NEW k \in 0 .. L, k < n PROVE h[k] = Adding(roads, h, k)
      <4>1. h[k] = Adding(roads, f, k) OBVIOUS
      <4>2. CASE k = 0
        BY <4>1, <4>2 DEF Adding
      <4>3. CASE k # 0
        <5>1. k - 1 \in 0 .. L /\ k - 1 < n - 1 BY <3>4, <4>3
        <5>2. h[k - 1] = f[k - 1] BY <5>1, <3>2
        <5> HIDE DEF h
        <5> QED BY <4>1, <4>3, <5>2 DEF Adding
      <4> QED BY <4>2, <4>3
    <3>5. Good(h, n) BY <3>4
    <3> HIDE DEF h, S
    <3> HIDE DEF Good
    <3>6. \E e \in [0 .. L -> S] : Good(e, n) BY <3>3, <3>5
    <3> QED BY <3>6
  <2>3. n = 0 \/ n > 0 OBVIOUS
  <2> QED BY <2>1, <2>2, <2>3, Zenon
<1>3. Nat \subseteq T
  <2> HIDE DEF T
  <2> QED BY <1>2, SetInduction
<1>4. L + 1 \in T
  <2> HIDE DEF T
  <2> QED BY <1>3
<1>5. PICK f \in [0 .. L -> S] : Good(f, L + 1) BY <1>4
<1>6. \A k \in 0 .. L : f[k] = Adding(roads, f, k) BY <1>5
<1>7. f = [k \in 0 .. L |-> Adding(roads, f, k)] BY <1>6
<1> QED BY <1>7

LEMMA AddingSteps ==
    ASSUME NEW roads, Len(roads) \in Nat
    PROVE  /\ SetRoads(roads) = Added(roads)[Len(roads)]
           /\ \A k \in 0 .. Len(roads) : Added(roads)[k] = Adding(roads, Added(roads), k)
<1>1. Added(roads) = [k \in 0 .. Len(roads) |-> Adding(roads, Added(roads), k)]
  BY AddingEnds DEF Added
<1>2. SetRoads(roads) = Added(roads)[Len(roads)]
  BY DEF SetRoads, Added, Adding
<1> DEFINE f == Added(roads)
<1>3. f = [k \in 0 .. Len(roads) |-> Adding(roads, f, k)] BY <1>1
<1> HIDE DEF f
<1>4. \A k \in 0 .. Len(roads) : f[k] = Adding(roads, f, k) BY <1>3
<1> QED BY <1>2, <1>4 DEF f

\* The roads are what the loader makes of some of those in the file.
LEMMA RoadsAreLoaded ==
    ASSUME NEW roads, Len(roads) \in Nat
    PROVE  SetRoads(roads) \in Seq(RoadsOf(roads))
<1> DEFINE L == Len(roads)
           f == Added(roads)
           S == Seq(RoadsOf(roads))
           T == {n \in Nat : n <= L => f[n] \in S}
<1>1. \A k \in 0 .. L : f[k] = Adding(roads, f, k) BY AddingSteps
<1> HIDE DEF f
<1>2. ASSUME NEW n \in Nat, \A m \in 0 .. n - 1 : m \in T PROVE n \in T
  <2>1. CASE n = 0
    <3>1. f[0] = <<>> BY <1>1 DEF Adding
    <3>2. <<>> \in S OBVIOUS
    <3> HIDE DEF S
    <3>3. f[n] \in S BY <2>1, <3>1, <3>2
    <3> QED BY <3>3
  <2>2. CASE n > 0 /\ n <= L
    <3>1. n - 1 \in T BY <2>2, <1>2
    <3>2. f[n - 1] \in S BY <2>2, <3>1
    <3>3. RoadOf(roads[n]) \in RoadsOf(roads) BY <2>2 DEF RoadsOf
    <3>4. Append(f[n - 1], RoadOf(roads[n])) \in S BY <3>2, <3>3
    <3>5. f[n] = Adding(roads, f, n) BY <1>1, <2>2
    <3>6. f[n] \in S BY <2>2, <3>2, <3>4, <3>5 DEF Adding
    <3> QED BY <3>6
  <2> QED BY <2>1, <2>2
<1>3. Nat \subseteq T
  <2> HIDE DEF T
  <2> QED BY <1>2, SetInduction
<1>4. f[L] \in S
  <2>1. L \in T BY <1>3
  <2> QED BY <2>1
<1> QED BY <1>4, AddingSteps DEF f

\* A road that was loaded is shown so that it would be loaded again.
LEMMA ShownRoad ==
    ASSUME NEW map, NEW k \in DOMAIN map.roads, NEW road, map.roads[k] = RoadOf(road)
    PROVE  HasEnd(GetRoads(map)[k]) /\ RoadOf(GetRoads(map)[k]) = map.roads[k]
<1> DEFINE r == RoadOf(road)
           shown == GetRoads(map)[k]
<1>1. shown = IF r.start.y = r.end.y
              THEN [x0 |-> r.start.x, y0 |-> r.start.y, x1 |-> r.end.x]
              ELSE [x0 |-> r.start.x, y0 |-> r.start.y, y1 |-> r.end.y]
  BY DEF GetRoads, IsHorizontal
<1>2. r = [start |-> [x |-> road.x0, y |-> road.y0],
           end |-> IF "x1" \in DOMAIN road THEN [x |-> road.x1, y |-> road.y0]
                                           ELSE [x |-> road.x0, y |-> road.y1]]
  BY DEF RoadOf
<1> HIDE DEF r
<1>3. r.start.y = r.end.y => r.end = [x |-> r.end.x, y |-> r.start.y]
  BY <1>2
<1>4. r.start.y # r.end.y => r.end = [x |-> r.start.x, y |-> r.end.y]
  BY <1>2
<1>5. r = [start |-> [x |-> r.start.x, y |-> r.start.y], end |-> r.end]
  BY <1>2
<1> HIDE DEF shown
<1>6. CASE r.start.y = r.end.y
  <2>1. shown = [x0 |-> r.start.x, y0 |-> r.start.y, x1 |-> r.end.x] BY <1>1, <1>6
  <2>2. HasEnd(shown) BY <2>1 DEF HasEnd
  <2>3. RoadOf(shown) = [start |-> [x |-> r.start.x, y |-> r.start.y],
                         end |-> [x |-> r.end.x, y |-> r.start.y]]
    BY <2>1 DEF RoadOf
  <2> QED BY <2>2, <2>3, <1>3, <1>5, <1>6 DEF r, shown
<1>7. CASE r.start.y # r.end.y
  <2>1. shown = [x0 |-> r.start.x, y0 |-> r.start.y, y1 |-> r.end.y] BY <1>1, <1>7
  <2>2. HasEnd(shown) /\ "x1" \notin DOMAIN shown BY <2>1 DEF HasEnd
  <2>3. RoadOf(shown) = [start |-> [x |-> r.start.x, y |-> r.start.y],
                         end |-> [x |-> r.start.x, y |-> r.end.y]]
    BY <2>1, <2>2 DEF RoadOf
  <2> QED BY <2>2, <2>3, <1>4, <1>5, <1>7 DEF r, shown
<1> QED BY <1>6, <1>7

\* So what is shown of the roads, if it were loaded again, would make them again.
LEMMA ShownRoads ==
    ASSUME NEW map, NEW roads, Len(roads) \in Nat, map.roads = SetRoads(roads)
    PROVE  SetRoads(GetRoads(map)) = SetRoads(roads)
<1> DEFINE R == map.roads
           L == Len(R)
           J == GetRoads(map)
<1>1. R \in Seq(RoadsOf(roads)) BY RoadsAreLoaded
<1>2. L \in Nat /\ DOMAIN R = 1 .. L /\ \A k \in 1 .. L : R[k] \in RoadsOf(roads)
  <2> DEFINE X == RoadsOf(roads)
  <2> HIDE DEF X, R
  <2>1. R \in Seq(X) BY <1>1 DEF X
  <2> QED BY <2>1 DEF X
<1>3. J \in [1 .. L -> {J[k] : k \in 1 .. L}] BY <1>2 DEF GetRoads
<1>4. Len(J) = L BY <1>2, <1>3
<1>5. ASSUME NEW k \in 1 .. L PROVE HasEnd(J[k]) /\ RoadOf(J[k]) = R[k]
  <2>1. PICK j \in 1 .. Len(roads) : R[k] = RoadOf(roads[j])
    BY <1>2 DEF RoadsOf
  <2> QED BY <1>2, <2>1, ShownRoad
<1> DEFINE f == Added(J)
           T == {n \in Nat : n <= L => f[n] = SubSeq(R, 1, n)}
<1>6. SetRoads(J) = f[L] /\ \A k \in 0 .. L : f[k] = Adding(J, f, k)
  BY <1>2, <1>4, AddingSteps
<1> HIDE DEF J, f
<1>7. ASSUME NEW n \in Nat, \A m \in 0 .. n - 1 : m \in T PROVE n \in T
  <2>1. CASE n = 0
    <3>1. f[0] = <<>> BY <1>2, <1>6 DEF Adding
    <3>2. SubSeq(R, 1, 0) = <<>> BY <1>1
    <3> QED BY <2>1, <3>1, <3>2
  <2>2. CASE n > 0 /\ n <= L
    <3>1. n - 1 \in T BY <2>2, <1>7
    <3>2. f[n - 1] = SubSeq(R, 1, n - 1) BY <1>2, <2>2, <3>1
    <3>3. n \in 1 .. L BY <1>2, <2>2
    <3>4. f[n] = Append(f[n - 1], R[n])
      <4>1. f[n] = Adding(J, f, n) BY <1>6, <3>3
      <4> QED BY <1>5, <3>3, <4>1 DEF Adding
    <3>5. Append(SubSeq(R, 1, n - 1), R[n]) = SubSeq(R, 1, n)
      <4> DEFINE X == RoadsOf(roads)
      <4> HIDE DEF X, R
      <4>1. R \in Seq(X) /\ n \in 1 .. Len(R) BY <1>1, <3>3 DEF X
      <4> QED BY <4>1
    <3> QED BY <3>2, <3>4, <3>5
  <2> QED BY <2>1, <2>2
<1>8. f[L] = SubSeq(R, 1, L)
  <2>1. Nat \subseteq T
    <3> HIDE DEF T
    <3> QED BY <1>7, SetInduction
  <2>2. L \in T BY <1>2, <2>1
  <2> QED BY <1>2, <2>2
<1>9. SubSeq(R, 1, L) = R BY <1>1
<1> QED BY <1>6, <1>8, <1>9 DEF J

\* The ids of maps are names: what follows the slash of a path.
IdsAreNames ==
    \A c \in Configs : "maps" \in DOMAIN c =>
        \A k \in DOMAIN c.maps : "id" \in DOMAIN c.maps[k] =>
            /\ c.maps[k].id \in Seq(Nat) /\ c.maps[k].id # <<>>
            /\ \A j \in 1 .. Len(c.maps[k].id) : c.maps[k].id[j] # Slash

\* The path of the maps is five characters of the API and seven of its own.
LEMMA MapsPath ==
    /\ Api \in Seq(Nat) /\ Len(Api) = 5
    /\ Maps \in Seq(Nat) /\ Len(Maps) = 12
    /\ SubSeq(Maps, 1, 5) = Api
<1> DEFINE own == <<118, 49, 47, 109, 97, 112, 115>>
<1>1. Api \in Seq(Nat) /\ Len(Api) = 5 BY DEF Api
<1>2. own \in Seq(Nat) /\ Len(own) = 7 OBVIOUS
<1>3. Maps = Api \o own BY DEF Maps
<1> HIDE DEF own
<1>4. Maps \in Seq(Nat) /\ Len(Maps) = 12
  <2>1. Api \o own \in Seq(Nat) /\ Len(Api \o own) = Len(Api) + Len(own)
    BY <1>1, <1>2, TwoTogether
  <2> QED BY <2>1, <1>1, <1>2, <1>3
<1>5. SubSeq(Maps, 1, 5) = SubSeq(Api, 1, 5)
  <2>1. 5 \in 0 .. Len(Api) BY <1>1
  <2>2. SubSeq(Api \o own, 1, 5) = SubSeq(Api, 1, 5) BY <1>1, <1>2, <2>1, FirstOfTwo
  <2> QED BY <2>2, <1>3
<1>6. SubSeq(Api, 1, 5) = Api BY <1>1
<1> QED BY <1>1, <1>4, <1>5, <1>6

\* The path of a map leads to its id.
LEMMA PathOfAMap ==
    ASSUME NEW id \in Seq(Nat), id # <<>>,
           \A j \in 1 .. Len(id) : id[j] # Slash
    PROVE  LET query == Maps \o <<Slash>> \o id
           IN  /\ query # <<>> /\ Len(query) # Len(Maps)
               /\ IsApi(query) /\ IsPrefix(Maps, query)
               /\ ParseQueryMapName(query) = id
<1> DEFINE head == Maps \o <<Slash>>
           query == head \o id
<1>1. <<Slash>> \in Seq(Nat) /\ Len(<<Slash>>) = 1 BY DEF Slash
<1>2. head \in Seq(Nat) /\ Len(head) = 13
  <2> DEFINE slash == <<Slash>>
  <2>1. slash \in Seq(Nat) /\ Len(slash) = 1 BY <1>1
  <2> HIDE DEF slash
  <2>2. Maps \o slash \in Seq(Nat) /\ Len(Maps \o slash) = 12 + 1
    BY <2>1, MapsPath, TwoTogether
  <2> QED BY <2>2 DEF slash
<1>3. SubSeq(head, 1, 12) = Maps /\ SubSeq(head, 1, 5) = Api
  <2> DEFINE slash == <<Slash>>
  <2>1. slash \in Seq(Nat) /\ 12 \in 0 .. Len(Maps) /\ 5 \in 0 .. Len(Maps)
    BY <1>1, MapsPath
  <2> HIDE DEF slash
  <2>2. /\ SubSeq(Maps \o slash, 1, 12) = SubSeq(Maps, 1, 12)
        /\ SubSeq(Maps \o slash, 1, 5) = SubSeq(Maps, 1, 5)
    BY <2>1, MapsPath, FirstOfTwo
  <2>3. SubSeq(Maps, 1, 12) = Maps BY MapsPath
  <2> QED BY <2>2, <2>3, MapsPath DEF slash
<1>4. Len(id) \in Nat /\ Len(id) > 0 /\ DOMAIN id = 1 .. Len(id) OBVIOUS
<1> HIDE DEF head
<1>5. query \in Seq(Nat) /\ Len(query) = 13 + Len(id) BY <1>2, TwoTogether
<1>6. SubSeq(query, 1, 12) = Maps /\ SubSeq(query, 1, 5) = Api
  <2>1. 12 \in 0 .. Len(head) /\ 5 \in 0 .. Len(head) BY <1>2
  <2> QED BY <2>1, <1>2, <1>3, FirstOfTwo
<1>7. SubSeq(query, 14, Len(query)) = id
  <2>1. SubSeq(query, Len(head) + 1, Len(head) + Len(id)) = id
    BY <1>2, SecondOfTwo
  <2>2. Len(head) + 1 = 14 /\ Len(head) + Len(id) = Len(query) BY <1>2, <1>5
  <2> HIDE DEF query
  <2> QED BY <2>1, <2>2
<1> HIDE DEF query
<1>8. IsPrefix(Maps, query)
  <2>1. SubSeq(Maps, 1, Len(Maps)) = Maps BY MapsPath
  <2> QED BY <2>1, <1>4, <1>5, <1>6, MapsPath DEF IsPrefix
<1>9. IsApi(query)
  <2>1. SubSeq(Api, 1, Len(Api)) = Api BY MapsPath
  <2> QED BY <2>1, <1>4, <1>5, <1>6, MapsPath DEF IsApi, IsPrefix
<1>10. ParseQueryMapName(query) = id
  <2>1. SubSeq(query, Len(Maps) + 2, Len(query)) = id BY <1>7, MapsPath
  <2> QED BY <2>1, <1>4 DEF ParseQueryMapName
<1>11. query # <<>> /\ Len(query) # Len(Maps) BY <1>4, <1>5, MapsPath
<1> QED BY <1>8, <1>9, <1>10, <1>11 DEF query, head

\* What is shown of a map that was loaded.
LEMMA ShownMap ==
    ASSUME NEW m, NEW values, Len(m.roads) \in Nat,
           NEW map, map = LoadedMap(m, values)
    PROVE  LET shown == GetMapJson(map, frontend)
           IN  /\ SetRoads(shown.roads) = SetRoads(m.roads)
               /\ SetBuildings(shown.buildings) = SetBuildings(m.buildings)
               /\ SetOffices(shown.offices) = SetOffices(m.offices)
               /\ shown.id = m.id /\ shown.name = m.name
               /\ shown.lootTypes = frontend[m.id]
<1> DEFINE shown == GetMapJson(map, frontend)
<1>1. /\ map.id = m.id /\ map.name = m.name
      /\ map.roads = SetRoads(m.roads)
      /\ map.buildings = SetBuildings(m.buildings)
      /\ map.offices = SetOffices(m.offices)
  BY DEF LoadedMap
<1>2. /\ shown.id = map.id /\ shown.name = map.name
      /\ shown.roads = GetRoads(map) /\ shown.buildings = GetBuildings(map)
      /\ shown.offices = GetOffices(map) /\ shown.lootTypes = frontend[map.id]
  BY DEF GetMapJson
<1>3. SetRoads(GetRoads(map)) = SetRoads(m.roads) BY <1>1, ShownRoads
<1>4. SetBuildings(GetBuildings(map)) = SetBuildings(m.buildings)
  BY <1>1 DEF SetBuildings, GetBuildings
<1>5. SetOffices(GetOffices(map)) = SetOffices(m.offices)
  BY <1>1 DEF SetOffices, GetOffices
<1> QED BY <1>1, <1>2, <1>3, <1>4, <1>5

\* Whatever is in the file, a client that asks for one of its maps, however it
\* writes the path, is shown the map as the file has it.
THEOREM MapsAreShown ==
    ASSUME WellWritten, IdsAreNames
    PROVE  Spec => []MapsAnswerTheConfiguration
<1>1. IInv /\ Served => MapsAnswerTheConfiguration
  <2> SUFFICES ASSUME IInv, Served, Answered, NEW k \in DOMAIN maps,
                      IsMap(config.maps[k])
               PROVE  LET m == config.maps[k]
                          shown == answer.body[2]
                      IN  /\ answer.status = 200
                          /\ SetRoads(shown.roads) = SetRoads(m.roads)
                          /\ SetBuildings(shown.buildings) = SetBuildings(m.buildings)
                          /\ SetOffices(shown.offices) = SetOffices(m.offices)
                          /\ shown.id = m.id /\ shown.name = m.name
                          /\ shown.lootTypes = m.lootTypes
    BY DEF MapsAnswerTheConfiguration
  <2> DEFINE m == config.maps[k]
             query == Maps \o <<Slash>> \o m.id
  <2>1. stage = "serving" /\ EscapesMakeNoDifference /\ ServesOnlyWholeConfigurations
    BY DEF Served, Answered, IInv
  <2>2. /\ MapLoads(m) /\ maps[k] = LoadedMap(m, DefaultsOf(config))
        /\ FindMap(m.id) = k /\ frontend[m.id] = m.lootTypes
    BY <2>1 DEF ServesOnlyWholeConfigurations
  <2>3. {"id", "roads"} \subseteq DOMAIN m BY <2>2 DEF MapLoads, MapKeys
  <2>4. "maps" \in DOMAIN config /\ config \in Configs /\ k \in DOMAIN config.maps
    <3>1. LoadedSoFar /\ config \in Configs BY <2>1 DEF IInv
    <3>2. DOMAIN maps = 1 .. Len(maps) BY <3>1 DEF LoadedSoFar
    <3>3. DOMAIN config.maps = 1 .. Len(config.maps) BY <3>1, FileMaps DEF LoadedSoFar
    <3>4. Len(maps) = Len(config.maps) BY <2>1 DEF ServesOnlyWholeConfigurations
    <3> QED BY <3>1, <3>2, <3>3, <3>4 DEF LoadedSoFar
  <2>5. Len(m.roads) \in Nat
    <3>1. IsArray(m.roads) BY <2>3, <2>4, ConfigsAssumption
    <3> QED BY <3>1 DEF IsArray
  <2>6. /\ m.id \in Seq(Nat) /\ m.id # <<>>
        /\ \A j \in 1 .. Len(m.id) : m.id[j] # Slash
    BY <2>3, <2>4 DEF IdsAreNames
  <2>7. /\ query # <<>> /\ Len(query) # Len(Maps)
        /\ IsApi(query) /\ IsPrefix(Maps, query)
        /\ ParseQueryMapName(query) = m.id
    <3> HIDE DEF m
    <3> QED BY <2>6, PathOfAMap
  <2>8. asked # <<>> /\ Reads(asked.method) /\ asked.request.meant = query
    BY DEF Answered, IsMap
  <2>9. k # 0 BY <2>4, FileMaps
  <2> HIDE DEF m, query
  <2>10. answer = Route(asked.method, query)
    BY <2>1, <2>7, <2>8 DEF EscapesMakeNoDifference
  <2>11. answer = Answer(200, <<"map", GetMapJson(maps[k], frontend)>>)
    BY <2>2, <2>6, <2>7, <2>8, <2>9, <2>10 DEF Route, ParseApiRequest, ParseMapsQuery
  <2>12. answer.status = 200 /\ answer.body[2] = GetMapJson(maps[k], frontend)
    BY <2>11 DEF Answer
  <2>13. LET shown == GetMapJson(maps[k], frontend)
         IN  /\ SetRoads(shown.roads) = SetRoads(m.roads)
             /\ SetBuildings(shown.buildings) = SetBuildings(m.buildings)
             /\ SetOffices(shown.offices) = SetOffices(m.offices)
             /\ shown.id = m.id /\ shown.name = m.name
             /\ shown.lootTypes = frontend[m.id]
    BY <2>2, <2>5, ShownMap
  <2> QED BY <2>2, <2>12, <2>13 DEF m
<1> QED BY <1>1, StartsAsAlone, InvInitially, InvKept, AnswersAreKept, PTL
        DEF StartSpec
-----------------------------------------------------------------------------
(* Folds over sequences: the text of a path, its names, the path they lead *)
(* to.  One lemma for all three: "fold" says which is meant.               *)

Step(fold, acc, x) ==
    IF fold = "text" THEN acc \o <<Slash>> \o x
    ELSE IF fold = "names"
    THEN IF x = Slash THEN Append(acc, <<>>)
         ELSE [acc EXCEPT ![Len(acc)] = Append(@, x)]
    ELSE IF x \in {<<>>, <<Dot>>} THEN acc
         ELSE IF x # <<Dot, Dot>> THEN Append(acc, x)
         ELSE IF acc = <<>> THEN acc ELSE Front(acc)

\* The function that a fold defines, on sets of places.
Folding(fold, base, seq, f, s) ==
    IF s = {} THEN base
    ELSE LET x == Max(s) IN Step(fold, f[s \ {x}], seq[x])
Folded(fold, base, seq) ==
    CHOOSE f : f = [s \in SUBSET (DOMAIN seq) |-> Folding(fold, base, seq, f, s)]

\* What the first k of seq make of base.
FoldTo(fold, base, seq, k) == Folded(fold, base, seq)[1 .. k]
FoldAll(fold, base, seq) == FoldTo(fold, base, seq, Len(seq))

LEMMA FoldsAre ==
    ASSUME NEW seq, NEW n \in Nat, DOMAIN seq = 1 .. n, Len(seq) = n
    PROVE  /\ Written(seq) = FoldAll("text", <<>>, seq)
           /\ Names(seq) = FoldAll("names", << <<>> >>, seq)
           /\ \A base : Canonical(base, seq) = FoldAll("path", base, seq)
<1>1. Written(seq) = Folded("text", <<>>, seq)[DOMAIN seq]
  BY DEF Written, FoldLeft, MapThenFoldSet, Folded, Folding, Step
<1>2. Names(seq) = Folded("names", << <<>> >>, seq)[DOMAIN seq]
  BY DEF Names, FoldLeft, MapThenFoldSet, Folded, Folding, Step
<1>3. ASSUME NEW base PROVE Canonical(base, seq) = Folded("path", base, seq)[DOMAIN seq]
  BY DEF Canonical, FoldLeft, MapThenFoldSet, Folded, Folding, Step
<1> QED BY <1>1, <1>2, <1>3 DEF FoldAll, FoldTo

\* A set of places has a last one.
LEMMA LastPlace ==
    ASSUME NEW n \in Nat, NEW s \in SUBSET (1 .. n), s # {}
    PROVE  Max(s) \in s /\ \A y \in s : Max(s) >= y
<1> DEFINE T == {m \in Nat : \A u \in SUBSET (1 .. m) : u # {} =>
                                \E x \in u : \A y \in u : x >= y}
<1>1. ASSUME NEW m \in Nat, \A j \in 0 .. m - 1 : j \in T PROVE m \in T
  <2>1. SUFFICES ASSUME NEW u \in SUBSET (1 .. m), u # {}
                 PROVE  \E x \in u : \A y \in u : x >= y
    OBVIOUS
  <2>2. CASE m \in u
    BY <2>2
  <2>3. CASE m \notin u
    <3>1. m > 0 /\ u \in SUBSET (1 .. m - 1)
      <4>1. ASSUME NEW y \in u PROVE m > 0 /\ y \in 1 .. m - 1
        <5>1. y \in 1 .. m /\ y # m BY <2>3
        <5> QED BY <5>1
      <4> QED BY <2>1, <4>1
    <3>2. m - 1 \in T BY <3>1, <1>1
    <3> QED BY <2>1, <3>1, <3>2
  <2> QED BY <2>2, <2>3
<1>2. n \in T
  <2>1. Nat \subseteq T
    <3> HIDE DEF T
    <3> QED BY <1>1, SetInduction
  <2> QED BY <2>1
<1>3. \E x \in s : \A y \in s : x >= y BY <1>2
<1> QED BY <1>3 DEF Max

\* There is such a function, for every sequence.
LEMMA FoldingEnds ==
    ASSUME NEW fold, NEW base, NEW seq, NEW n \in Nat, DOMAIN seq = 1 .. n
    PROVE  \E f : f = [s \in SUBSET (DOMAIN seq) |-> Folding(fold, base, seq, f, s)]
<1> DEFINE D == DOMAIN seq
           Next_(f) == [s \in SUBSET D |-> Folding(fold, base, seq, f, s)]
           Good(f, m) == \A s \in SUBSET D : s \subseteq 1 .. m =>
                            f[s] = Folding(fold, base, seq, f, s)
           T == {m \in Nat : \E f : DOMAIN f = SUBSET D /\ f = [s \in SUBSET D |-> f[s]]
                                    /\ Good(f, m)}
<1>1. ASSUME NEW m \in Nat, \A j \in 0 .. m - 1 : j \in T PROVE m \in T
  <2>1. CASE m = 0
    <3> DEFINE f == [s \in SUBSET D |-> base]
    <3>1. DOMAIN f = SUBSET D /\ f = [s \in SUBSET D |-> f[s]] OBVIOUS
    <3>2. ASSUME NEW s \in SUBSET D, s \subseteq 1 .. 0
          PROVE  f[s] = Folding(fold, base, seq, f, s)
      <4>1. s = {} BY <3>2
      <4> QED BY <4>1 DEF Folding
    <3>3. Good(f, 0) BY <3>2
    <3> HIDE DEF f, Good
    <3>4. Good(f, m) BY <2>1, <3>3
    <3> QED BY <3>1, <3>4
  <2>2. CASE m > 0
    <3>1. m - 1 \in T
      <4>1. m - 1 \in 0 .. m - 1 BY <2>2
      <4> HIDE DEF T
      <4> QED BY <4>1, <1>1
    <3>2. PICK f : DOMAIN f = SUBSET D /\ Good(f, m - 1) BY <3>1
    <3> DEFINE h == Next_(f)
    <3>3. DOMAIN h = SUBSET D /\ h = [s \in SUBSET D |-> h[s]] OBVIOUS
    <3>4. ASSUME NEW s \in SUBSET D, s \subseteq 1 .. m
          PROVE  h[s] = Folding(fold, base, seq, h, s)
      <4>1. h[s] = Folding(fold, base, seq, f, s) OBVIOUS
      <4>2. CASE s = {}
        BY <4>1, <4>2 DEF Folding
      <4>3. CASE s # {}
        <5> DEFINE t == s \ {Max(s)}
        <5>1. t \in SUBSET D OBVIOUS
        <5>2. t \subseteq 1 .. m - 1
          <6>1. Max(s) \in s /\ \A y \in s : Max(s) >= y BY <3>4, <4>3, LastPlace
          <6>2. ASSUME NEW y \in t PROVE y \in 1 .. m - 1
            BY <6>1, <3>4
          <6> QED BY <6>2
        <5> HIDE DEF t
        <5>3. h[t] = f[t] BY <3>2, <5>1, <5>2
        <5> HIDE DEF h
        <5> QED BY <4>1, <4>3, <5>3 DEF Folding, t
      <4> QED BY <4>2, <4>3
    <3>5. Good(h, m) BY <3>4
    <3> HIDE DEF h, Good
    <3> QED BY <3>3, <3>5
  <2>3. m = 0 \/ m > 0 OBVIOUS
  <2> HIDE DEF T
  <2> QED BY <2>1, <2>2, <2>3
<1>2. n \in T
  <2>1. Nat \subseteq T
    <3> HIDE DEF T
    <3> QED BY <1>1, SetInduction
  <2> HIDE DEF T
  <2> QED BY <2>1
<1>3. PICK f : DOMAIN f = SUBSET D /\ f = [s \in SUBSET D |-> f[s]] /\ Good(f, n)
  BY <1>2
<1>4. \A s \in SUBSET D : f[s] = Folding(fold, base, seq, f, s) BY <1>3
<1>5. f = Next_(f) BY <1>3, <1>4
<1> QED BY <1>5

\* A fold goes from left to right.
LEMMA FoldBegins ==
    ASSUME NEW fold, NEW base, NEW seq, NEW n \in Nat, DOMAIN seq = 1 .. n
    PROVE  FoldTo(fold, base, seq, 0) = base
<1> DEFINE f == Folded(fold, base, seq)
<1>1. f = [s \in SUBSET (DOMAIN seq) |-> Folding(fold, base, seq, f, s)]
  BY FoldingEnds DEF Folded
<1> HIDE DEF f
<1>2. \A s \in SUBSET (DOMAIN seq) : f[s] = Folding(fold, base, seq, f, s) BY <1>1
<1>3. f[1 .. 0] = base
  <2>1. 1 .. 0 = {} OBVIOUS
  <2> QED BY <1>2, <2>1 DEF Folding
<1> QED BY <1>3 DEF FoldTo, f

LEMMA FoldSteps ==
    ASSUME NEW fold, NEW base, NEW seq, NEW n \in Nat, DOMAIN seq = 1 .. n,
           NEW k \in 1 .. n
    PROVE  FoldTo(fold, base, seq, k)
             = Step(fold, FoldTo(fold, base, seq, k - 1), seq[k])
<1> DEFINE f == Folded(fold, base, seq)
<1>1. f = [s \in SUBSET (DOMAIN seq) |-> Folding(fold, base, seq, f, s)]
  BY FoldingEnds DEF Folded
<1> HIDE DEF f
<1>2. \A s \in SUBSET (DOMAIN seq) : f[s] = Folding(fold, base, seq, f, s) BY <1>1
<1>3. f[1 .. k] = Step(fold, f[1 .. k - 1], seq[k])
  <2> DEFINE s == 1 .. k
  <2>1. s \in SUBSET (1 .. n) /\ s # {} /\ k \in s
    <3>1. k \in s OBVIOUS
    <3>2. ASSUME NEW y \in s PROVE y \in 1 .. n OBVIOUS
    <3> HIDE DEF s
    <3> QED BY <3>1, <3>2
  <2>2. Max(s) \in s /\ \A y \in s : Max(s) >= y BY <2>1, LastPlace
  <2>3. Max(s) = k BY <2>1, <2>2
  <2>4. s \ {k} = 1 .. k - 1 OBVIOUS
  <2>5. f[s] = Folding(fold, base, seq, f, s) BY <1>2, <2>1
  <2> HIDE DEF s
  <2> QED BY <2>1, <2>3, <2>4, <2>5 DEF Folding, s
<1> QED BY <1>3 DEF FoldTo, f

\* A fold of two sequences, one after the other, goes on from the first.
LEMMA FoldOnwards ==
    ASSUME NEW fold, NEW base, NEW S, NEW s \in Seq(S), NEW t \in Seq(S)
    PROVE  FoldAll(fold, base, s \o t) = FoldAll(fold, FoldAll(fold, base, s), t)
<1> DEFINE both == s \o t
           m == Len(s)
           n == Len(t)
           F(k) == FoldTo(fold, base, both, k)
           A(k) == FoldTo(fold, base, s, k)
           B(k) == FoldTo(fold, A(m), t, k)
<1>1. /\ m \in Nat /\ DOMAIN s = 1 .. m
      /\ n \in Nat /\ DOMAIN t = 1 .. n
      /\ DOMAIN both = 1 .. m + n /\ Len(both) = m + n /\ m + n \in Nat
      /\ \A k \in 1 .. m : both[k] = s[k]
      /\ \A k \in 1 .. n : both[m + k] = t[k]
  OBVIOUS
<1> HIDE DEF both, m, n
<1>2. F(0) = base /\ \A k \in 1 .. m + n : F(k) = Step(fold, F(k - 1), both[k])
  <2>1. F(0) = base BY <1>1, FoldBegins
  <2>2. ASSUME NEW k \in 1 .. m + n PROVE F(k) = Step(fold, F(k - 1), both[k])
    BY <1>1, FoldSteps
  <2> HIDE DEF F
  <2> QED BY <2>1, <2>2
<1>3. A(0) = base /\ \A k \in 1 .. m : A(k) = Step(fold, A(k - 1), s[k])
  <2>1. A(0) = base BY <1>1, FoldBegins
  <2>2. ASSUME NEW k \in 1 .. m PROVE A(k) = Step(fold, A(k - 1), s[k])
    BY <1>1, FoldSteps
  <2> HIDE DEF A
  <2> QED BY <2>1, <2>2
<1>4. B(0) = A(m) /\ \A k \in 1 .. n : B(k) = Step(fold, B(k - 1), t[k])
  <2>1. B(0) = A(m) BY <1>1, FoldBegins
  <2>2. ASSUME NEW k \in 1 .. n PROVE B(k) = Step(fold, B(k - 1), t[k])
    BY <1>1, FoldSteps
  <2> HIDE DEF B
  <2> QED BY <2>1, <2>2
<1> HIDE DEF F, A, B
<1> DEFINE T == {k \in Nat : k <= m => F(k) = A(k)}
           U == {k \in Nat : k <= n => F(m + k) = B(k)}
<1>5. ASSUME NEW k \in Nat, \A j \in 0 .. k - 1 : j \in T PROVE k \in T
  <2>1. CASE k = 0
    BY <2>1, <1>2, <1>3
  <2>2. CASE k > 0 /\ k <= m
    <3>1. k - 1 \in T BY <2>2, <1>5
    <3>2. F(k - 1) = A(k - 1) BY <1>1, <2>2, <3>1
    <3>3. k \in 1 .. m /\ k \in 1 .. m + n BY <1>1, <2>2
    <3>4. F(k) = A(k) BY <1>1, <1>2, <1>3, <3>2, <3>3
    <3> QED BY <3>4
  <2> QED BY <1>1, <2>1, <2>2
<1>6. F(m) = A(m)
  <2>1. Nat \subseteq T
    <3> HIDE DEF T
    <3> QED BY <1>5, SetInduction
  <2>2. m \in T BY <1>1, <2>1
  <2> QED BY <1>1, <2>2
<1>7. ASSUME NEW k \in Nat, \A j \in 0 .. k - 1 : j \in U PROVE k \in U
  <2>1. CASE k = 0
    <3>1. m + k = m BY <1>1, <2>1
    <3> QED BY <2>1, <3>1, <1>4, <1>6
  <2>2. CASE k > 0 /\ k <= n
    <3>1. k - 1 \in U BY <2>2, <1>7
    <3>2. F(m + (k - 1)) = B(k - 1) BY <1>1, <2>2, <3>1
    <3>3. k \in 1 .. n /\ m + k \in 1 .. m + n /\ (m + k) - 1 = m + (k - 1)
      BY <1>1, <2>2
    <3>4. F(m + k) = B(k) BY <1>1, <1>2, <1>4, <3>2, <3>3
    <3> QED BY <3>4
  <2> QED BY <1>1, <2>1, <2>2
<1>8. F(m + n) = B(n)
  <2>1. Nat \subseteq U
    <3> HIDE DEF U
    <3> QED BY <1>7, SetInduction
  <2>2. n \in U BY <1>1, <2>1
  <2> QED BY <1>1, <2>2
<1> QED BY <1>1, <1>8 DEF FoldAll, F, A, B, both, m, n

LEMMA FoldNone == ASSUME NEW fold, NEW base PROVE FoldAll(fold, base, <<>>) = base
<1>1. DOMAIN <<>> = 1 .. 0 /\ Len(<<>>) = 0 /\ 0 \in Nat OBVIOUS
<1> QED BY <1>1, FoldBegins DEF FoldAll

LEMMA FoldOne ==
    ASSUME NEW fold, NEW base, NEW x
    PROVE  FoldAll(fold, base, <<x>>) = Step(fold, base, x)
<1> DEFINE s == <<x>>
<1>1. DOMAIN s = 1 .. 1 /\ Len(s) = 1 /\ s[1] = x /\ 1 \in Nat OBVIOUS
<1> HIDE DEF s
<1>2. FoldTo(fold, base, s, 0) = base BY <1>1, FoldBegins
<1>3. FoldTo(fold, base, s, 1) = Step(fold, base, x)
  <2> DEFINE one == 1
  <2>1. one \in 1 .. 1 /\ one - 1 = 0 /\ s[one] = x BY <1>1
  <2> HIDE DEF one
  <2>2. FoldTo(fold, base, s, one) = Step(fold, FoldTo(fold, base, s, one - 1), s[one])
    BY <1>1, <2>1, FoldSteps
  <2> QED BY <1>2, <2>1, <2>2 DEF one
<1> QED BY <1>1, <1>3 DEF FoldAll, s

LEMMA FoldNext ==
    ASSUME NEW fold, NEW base, NEW S, NEW s \in Seq(S), NEW x \in S
    PROVE  FoldAll(fold, base, Append(s, x)) = Step(fold, FoldAll(fold, base, s), x)
<1>1. Append(s, x) = s \o <<x>> /\ <<x>> \in Seq(S) OBVIOUS
<1>2. FoldAll(fold, base, s \o <<x>>) = FoldAll(fold, FoldAll(fold, base, s), <<x>>)
  <2> DEFINE t == <<x>>
  <2>1. t \in Seq(S) BY <1>1
  <2> HIDE DEF t
  <2>2. FoldAll(fold, base, s \o t) = FoldAll(fold, FoldAll(fold, base, s), t)
    BY <2>1, FoldOnwards
  <2> QED BY <2>2 DEF t
<1>3. FoldAll(fold, FoldAll(fold, base, s), <<x>>) = Step(fold, FoldAll(fold, base, s), x)
  BY FoldOne, Zenon
<1> QED BY <1>1, <1>2, <1>3, Zenon

\* What holds of the empty sequence and, with any, of any that is longer by one
\* holds of all.
LEMMA SeqInduction ==
    ASSUME NEW S, NEW T, <<>> \in T,
           \A r \in Seq(S) : \A x \in S : r \in T => Append(r, x) \in T
    PROVE  Seq(S) \subseteq T
<1> DEFINE N == {n \in Nat : \A s \in Seq(S) : Len(s) = n => s \in T}
<1>1. ASSUME NEW n \in Nat, \A m \in 0 .. n - 1 : m \in N PROVE n \in N
  <2>1. SUFFICES ASSUME NEW s \in Seq(S), Len(s) = n PROVE s \in T
    OBVIOUS
  <2>2. CASE n = 0
    <3>1. s = <<>> BY <2>1, <2>2
    <3> QED BY <3>1
  <2>3. CASE n > 0
    <3> DEFINE r == SubSeq(s, 1, n - 1)
               x == s[n]
    <3>1. r \in Seq(S) /\ Len(r) = n - 1 /\ x \in S /\ s = Append(r, x)
      BY <2>1, <2>3
    <3>2. n - 1 \in N BY <2>3, <1>1
    <3> HIDE DEF r, x
    <3>3. r \in T BY <3>1, <3>2
    <3> QED BY <3>1, <3>3
  <2> QED BY <2>2, <2>3
<1>2. Nat \subseteq N
  <2> HIDE DEF N
  <2> QED BY <1>1, SetInduction
<1>3. ASSUME NEW s \in Seq(S) PROVE s \in T
  <2>1. Len(s) \in Nat OBVIOUS
  <2>2. Len(s) \in N BY <1>2, <2>1
  <2> QED BY <2>2
<1> QED BY <1>3
-----------------------------------------------------------------------------
(* Paths of files.                                                         *)

\* The names of files and directories, apart from those with a meaning of
\* their own.
FileNames == {n \in Seq(Nat \ {Slash}) : n \notin {<<>>, <<Dot>>, <<Dot, Dot>>}}

\* The text of a path.
Text(names) == FoldAll("text", <<>>, names)

LEMMA ThreeTogether ==
    ASSUME NEW r \in Seq(Nat), NEW s \in Seq(Nat), NEW t \in Seq(Nat)
    PROVE  (r \o s) \o t = r \o (s \o t)
OBVIOUS

LEMMA TextAppended ==
    ASSUME NEW r \in Seq(Nat), NEW s \in Seq(Nat), NEW x \in Nat
    PROVE  Append(r \o s, x) = r \o Append(s, x)
<1> DEFINE S == Nat
           a == Append(r \o s, x)
           b == r \o Append(s, x)
           n == Len(a)
<1>1. r \in Seq(S) /\ s \in Seq(S) /\ x \in S OBVIOUS
<1> HIDE DEF S
<1>2. a \in Seq(S) /\ b \in Seq(S) /\ Len(b) = n BY <1>1
<1>3. \A k \in 1 .. n : a[k] = b[k] BY <1>1
<1> HIDE DEF a, b
<1>4. a = [k \in 1 .. n |-> a[k]] /\ b = [k \in 1 .. n |-> b[k]] BY <1>2
<1> HIDE DEF n
<1>5. a = b BY <1>3, <1>4
<1> QED BY <1>5 DEF a, b

LEMMA NameAppended ==
    ASSUME NEW r \in Seq(Seq(Nat)), NEW s \in Seq(Seq(Nat)), NEW x \in Seq(Nat)
    PROVE  Append(r \o s, x) = r \o Append(s, x)
<1> DEFINE S == Seq(Nat)
           a == Append(r \o s, x)
           b == r \o Append(s, x)
           n == Len(a)
<1>1. r \in Seq(S) /\ s \in Seq(S) /\ x \in S OBVIOUS
<1> HIDE DEF S
<1>2. a \in Seq(S) /\ b \in Seq(S) /\ Len(b) = n BY <1>1
<1>3. \A k \in 1 .. n : a[k] = b[k] BY <1>1
<1> HIDE DEF a, b
<1>4. a = [k \in 1 .. n |-> a[k]] /\ b = [k \in 1 .. n |-> b[k]] BY <1>2
<1> HIDE DEF n
<1>5. a = b BY <1>3, <1>4
<1> QED BY <1>5 DEF a, b

LEMMA LastReplaced ==
    ASSUME NEW h \in Seq(Seq(Nat)), NEW v \in Seq(Nat), NEW w \in Seq(Nat)
    PROVE  [Append(h, v) EXCEPT ![Len(Append(h, v))] = w] = Append(h, w)
<1> DEFINE S == Seq(Nat)
           a == Append(h, v)
           b == Append(h, w)
           n == Len(h) + 1
<1> HIDE DEF S
<1>0. h \in Seq(S) /\ v \in S /\ w \in S BY DEF S
<1>1. /\ n \in Nat /\ Len(a) = n /\ DOMAIN a = 1 .. n /\ DOMAIN b = 1 .. n
      /\ b[n] = w /\ n \in 1 .. n
      /\ \A k \in 1 .. n : k # n => a[k] = b[k]
  BY <1>0
<1>2. b = [k \in 1 .. n |-> b[k]]
  <2>1. b \in Seq(S) BY <1>0
  <2> HIDE DEF b
  <2>2. b = [k \in DOMAIN b |-> b[k]] BY <2>1
  <2> QED BY <1>1, <2>2
<1> HIDE DEF a, b, n
<1>3. [a EXCEPT ![n] = w] = [k \in 1 .. n |-> IF k = n THEN w ELSE a[k]]
  BY <1>1
<1>4. \A k \in 1 .. n : (IF k = n THEN w ELSE a[k]) = b[k] BY <1>1
<1>5. [a EXCEPT ![n] = w] = b BY <1>2, <1>3, <1>4
<1> QED BY <1>1, <1>5 DEF a, b

LEMMA SlashIsText == <<Slash>> \in Seq(Nat) /\ Len(<<Slash>>) = 1 /\ <<Slash>>[1] = Slash
BY DEF Slash

LEMMA TextOnto ==
    ASSUME NEW b \in Seq(Nat), NEW names \in Seq(Seq(Nat))
    PROVE  Text(names) \in Seq(Nat) /\ FoldAll("text", b, names) = b \o Text(names)
<1> DEFINE T == {h \in Seq(Seq(Nat)) :
                    Text(h) \in Seq(Nat) /\ FoldAll("text", b, h) = b \o Text(h)}
<1>1. <<>> \in T
  <2>1. Text(<<>>) = <<>> /\ FoldAll("text", b, <<>>) = b BY FoldNone DEF Text
  <2>2. b \o <<>> = b /\ <<>> \in Seq(Nat) /\ <<>> \in Seq(Seq(Nat)) OBVIOUS
  <2> QED BY <2>1, <2>2
<1>2. ASSUME NEW r \in Seq(Seq(Nat)), NEW x \in Seq(Nat), r \in T
      PROVE  Append(r, x) \in T
  <2> DEFINE slash == <<Slash>>
             w == Text(r)
  <2>1. slash \in Seq(Nat) BY SlashIsText
  <2>2. w \in Seq(Nat) /\ FoldAll("text", b, r) = b \o w BY <1>2
  <2>3. Text(Append(r, x)) = w \o slash \o x
    <3>1. FoldAll("text", <<>>, Append(r, x))
            = Step("text", FoldAll("text", <<>>, r), x)
      BY FoldNext
    <3> QED BY <3>1 DEF Text, Step
  <2>4. FoldAll("text", b, Append(r, x)) = (b \o w) \o slash \o x
    <3>1. FoldAll("text", b, Append(r, x)) = Step("text", FoldAll("text", b, r), x)
      BY FoldNext
    <3> QED BY <2>2, <3>1 DEF Step
  <2> HIDE DEF slash, w
  <2>5. w \o slash \o x \in Seq(Nat) BY <2>1, <2>2, TwoTogether
  <2>6. (b \o w) \o slash \o x = b \o (w \o slash \o x)
    <3>1. b \o w \in Seq(Nat) /\ w \o slash \in Seq(Nat) BY <2>1, <2>2, TwoTogether
    <3>2. (b \o w) \o slash = b \o (w \o slash) BY <2>1, <2>2, ThreeTogether
    <3>3. (b \o (w \o slash)) \o x = b \o ((w \o slash) \o x)
      BY <3>1, ThreeTogether
    <3> QED BY <3>2, <3>3
  <2>7. Append(r, x) \in Seq(Seq(Nat)) OBVIOUS
  <2> QED BY <2>3, <2>4, <2>5, <2>6, <2>7
<1>3. Seq(Seq(Nat)) \subseteq T
  <2> HIDE DEF T
  <2> QED BY <1>1, <1>2, SeqInduction
<1> QED BY <1>3

\* The text of a path with one more name in front.
LEMMA TextOfFirst ==
    ASSUME NEW x \in Seq(Nat), NEW names \in Seq(Seq(Nat))
    PROVE  Text(<<x>> \o names) = <<Slash>> \o (x \o Text(names))
<1> DEFINE slash == <<Slash>>
           first == <<x>>
<1>1. slash \in Seq(Nat) /\ Text(names) \in Seq(Nat)
  BY SlashIsText, TextOnto
<1>2. Text(first) = slash \o x
  <2>1. FoldAll("text", <<>>, <<x>>) = Step("text", <<>>, x) BY FoldOne
  <2>2. Text(first) = <<>> \o slash \o x BY <2>1 DEF Text, Step
  <2> HIDE DEF slash
  <2>3. <<>> \o slash = slash BY <1>1
  <2> QED BY <2>2, <2>3
<1>3. first \in Seq(Seq(Nat)) OBVIOUS
<1> HIDE DEF slash, first
<1>4. slash \o x \in Seq(Nat) BY <1>1, TwoTogether
<1>5. Text(first \o names) = FoldAll("text", Text(first), names)
  BY <1>3, FoldOnwards DEF Text
<1>6. FoldAll("text", slash \o x, names) = (slash \o x) \o Text(names)
  BY <1>4, TextOnto
<1>7. (slash \o x) \o Text(names) = slash \o (x \o Text(names))
  BY <1>1, ThreeTogether
<1> QED BY <1>2, <1>5, <1>6, <1>7 DEF slash, first

\* Without a slash a text continues the last name.
LEMMA NameGrows ==
    ASSUME NEW h \in Seq(Seq(Nat)), NEW q \in Seq(Nat), NEW n \in Seq(Nat \ {Slash})
    PROVE  FoldAll("names", Append(h, q), n) = Append(h, q \o n)
<1> DEFINE T == {w \in Seq(Nat \ {Slash}) :
                    FoldAll("names", Append(h, q), w) = Append(h, q \o w)}
<1>1. <<>> \in T
  <2>1. q \o <<>> = q /\ <<>> \in Seq(Nat \ {Slash}) OBVIOUS
  <2> QED BY <2>1, FoldNone
<1>2. ASSUME NEW w \in Seq(Nat \ {Slash}), NEW x \in Nat \ {Slash}, w \in T
      PROVE  Append(w, x) \in T
  <2> DEFINE acc == Append(h, q \o w)
  <2>1. FoldAll("names", Append(h, q), Append(w, x)) = Step("names", acc, x)
    <3> DEFINE C == Nat \ {Slash}
    <3>1. w \in Seq(C) /\ x \in C /\ FoldAll("names", Append(h, q), w) = acc
      BY <1>2
    <3> HIDE DEF C, acc
    <3> QED BY <3>1, FoldNext
  <2>2. q \o w \in Seq(Nat) /\ Append(q \o w, x) = q \o Append(w, x)
    <3>1. w \in Seq(Nat) /\ x \in Nat OBVIOUS
    <3>2. q \o w \in Seq(Nat) BY <3>1, TwoTogether
    <3> QED BY <3>1, <3>2, TextAppended
  <2>3. Step("names", acc, x) = [acc EXCEPT ![Len(acc)] = Append(@, x)]
    BY DEF Step
  <2>4. [acc EXCEPT ![Len(acc)] = Append(@, x)] = Append(h, Append(q \o w, x))
    <3> DEFINE v == q \o w
               last == Len(Append(h, v))
    <3>1. v \in Seq(Nat) /\ x \in Nat BY <2>2
    <3> HIDE DEF v
    <3>2. Append(v, x) \in Seq(Nat) BY <3>1
    <3>3. Append(h, v)[last] = v BY <3>1
    <3>4. [Append(h, v) EXCEPT ![last] = Append(v, x)] = Append(h, Append(v, x))
      BY <3>1, <3>2, LastReplaced
    <3> QED BY <3>3, <3>4 DEF v
  <2>5. Append(w, x) \in Seq(Nat \ {Slash}) OBVIOUS
  <2> HIDE DEF acc
  <2> QED BY <2>1, <2>2, <2>3, <2>4, <2>5
<1>3. Seq(Nat \ {Slash}) \subseteq T
  <2> HIDE DEF T
  <2> QED BY <1>1, <1>2, SeqInduction
<1> QED BY <1>3

\* The names between the slashes of a path's text are the names of the path.
LEMMA NamesOfText ==
    ASSUME NEW names \in Seq(Seq(Nat \ {Slash}))
    PROVE  FoldAll("names", <<>>, Text(names)) = names
<1> DEFINE S == Seq(Nat \ {Slash})
           T == {h \in Seq(S) : FoldAll("names", <<>>, Text(h)) = h}
<1>1. <<>> \in T
  <2>1. Text(<<>>) = <<>> BY FoldNone DEF Text
  <2>2. <<>> \in Seq(S) OBVIOUS
  <2> QED BY <2>1, <2>2, FoldNone
<1>2. ASSUME NEW r \in Seq(S), NEW x \in S, r \in T PROVE Append(r, x) \in T
  <2> DEFINE slash == <<Slash>>
             w == Text(r)
             all == w \o slash
  <2>1. slash \in Seq(Nat) BY SlashIsText
  <2>2. r \in Seq(Seq(Nat)) /\ x \in Seq(Nat) OBVIOUS
  <2>3. w \in Seq(Nat) BY <2>2, TextOnto
  <2>4. all \in Seq(Nat)
    <3> HIDE DEF slash, w
    <3> QED BY <2>1, <2>3, TwoTogether
  <2>5. Text(Append(r, x)) = all \o x
    <3>1. FoldAll("text", <<>>, Append(r, x))
            = Step("text", FoldAll("text", <<>>, r), x)
      BY FoldNext
    <3> QED BY <3>1 DEF Text, Step
  <2>6. FoldAll("names", <<>>, all) = Append(r, <<>>)
    <3>1. FoldAll("names", <<>>, w) = r BY <1>2
    <3>2. FoldAll("names", <<>>, all)
            = FoldAll("names", FoldAll("names", <<>>, w), slash)
      <4> HIDE DEF w, slash
      <4> QED BY <2>1, <2>3, FoldOnwards
    <3>3. FoldAll("names", r, slash) = Append(r, <<>>)
      BY FoldOne DEF Step
    <3> QED BY <3>1, <3>2, <3>3
  <2> HIDE DEF all
  <2>7. FoldAll("names", <<>>, all \o x) = FoldAll("names", Append(r, <<>>), x)
    <3>1. FoldAll("names", <<>>, all \o x)
            = FoldAll("names", FoldAll("names", <<>>, all), x)
      <4>1. x \in Seq(Nat) BY <2>2
      <4> HIDE DEF S
      <4> QED BY <4>1, <2>4, FoldOnwards
    <3> QED BY <3>1, <2>6
  <2>8. FoldAll("names", Append(r, <<>>), x) = Append(r, <<>> \o x)
    <3>1. <<>> \in Seq(Nat) OBVIOUS
    <3> QED BY <2>2, <3>1, NameGrows
  <2>9. <<>> \o x = x /\ Append(r, x) \in Seq(S) OBVIOUS
  <2> HIDE DEF S
  <2> QED BY <2>5, <2>7, <2>8, <2>9
<1>3. Seq(S) \subseteq T
  <2> HIDE DEF T, S
  <2> QED BY <1>1, <1>2, SeqInduction
<1> QED BY <1>3

\* Names without a meaning of their own lead further down.
LEMMA NamesLeadDown ==
    ASSUME NEW b \in Seq(Seq(Nat)), NEW names \in Seq(FileNames)
    PROVE  FoldAll("path", b, names) = b \o names
<1> DEFINE T == {h \in Seq(FileNames) : FoldAll("path", b, h) = b \o h}
<1>1. <<>> \in T
  <2>1. b \o <<>> = b /\ <<>> \in Seq(FileNames) OBVIOUS
  <2> QED BY <2>1, FoldNone
<1>2. ASSUME NEW r \in Seq(FileNames), NEW x \in FileNames, r \in T
      PROVE  Append(r, x) \in T
  <2>1. FoldAll("path", b, Append(r, x)) = Step("path", b \o r, x)
    <3>1. r \in Seq(FileNames) /\ FoldAll("path", b, r) = b \o r BY <1>2
    <3>2. FoldAll("path", b, Append(r, x)) = Step("path", FoldAll("path", b, r), x)
      BY FoldNext
    <3> QED BY <3>1, <3>2, Zenon
  <2>2. Step("path", b \o r, x) = Append(b \o r, x)
    <3>1. x \notin {<<>>, <<Dot>>, <<Dot, Dot>>} BY DEF FileNames
    <3> HIDE DEF Dot
    <3> QED BY <3>1 DEF Step
  <2>3. r \in Seq(Seq(Nat)) /\ x \in Seq(Nat)
    <3>1. FileNames \subseteq Seq(Nat) BY DEF FileNames
    <3> QED BY <3>1
  <2>4. Append(b \o r, x) = b \o Append(r, x) BY <2>3, NameAppended
  <2>5. Append(r, x) \in Seq(FileNames) OBVIOUS
  <2> QED BY <2>1, <2>2, <2>4, <2>5
<1>3. Seq(FileNames) \subseteq T
  <2> HIDE DEF T
  <2> QED BY <1>1, <1>2, SeqInduction
<1> QED BY <1>3

\* What a sequence has beyond a prefix of it.
LEMMA Beyond ==
    ASSUME NEW r \in Seq(FileNames), NEW f \in Seq(FileNames), IsStrictPrefix(r, f)
    PROVE  \E g \in Seq(FileNames) : g # <<>> /\ f = r \o g
<1> DEFINE S == FileNames
<1> HIDE DEF S
<1>0. r \in Seq(S) /\ f \in Seq(S) BY DEF S
<1> DEFINE m == Len(r)
           n == Len(f)
           g == SubSeq(f, m + 1, n)
           both == r \o g
<1>1. m \in Nat /\ n \in Nat /\ DOMAIN r = 1 .. m /\ DOMAIN f = 1 .. n OBVIOUS
<1>2. m <= n /\ SubSeq(r, 1, m) = SubSeq(f, 1, m) /\ r # f
  BY DEF IsStrictPrefix, IsPrefix
<1>3. \A k \in 1 .. m : r[k] = f[k]
  <2>1. \A k \in 1 .. m : SubSeq(r, 1, m)[k] = r[k] BY <1>1
  <2>2. \A k \in 1 .. m : SubSeq(f, 1, m)[k] = f[k] BY <1>1, <1>2
  <2> QED BY <1>2, <2>1, <2>2
<1>4. /\ g \in Seq(S) /\ Len(g) = n - m
      /\ \A k \in 1 .. n - m : g[k] = f[m + k]
  <2> HIDE DEF m, n
  <2>1. m + 1 \in Nat /\ n - (m + 1) + 1 = n - m /\ n - m \in Nat BY <1>1, <1>2
  <2>2. g \in Seq(S)
    <3>1. \A k \in m + 1 .. n : f[k] \in S BY <1>0, <1>1
    <3> QED BY <1>1, <1>2, <2>1, <3>1
  <2>3. Len(g) = n - m BY <1>1, <1>2, <2>1
  <2>4. ASSUME NEW k \in 1 .. n - m PROVE g[k] = f[m + k]
    <3>1. k \in 1 .. n - (m + 1) + 1 /\ (m + 1) + k - 1 = m + k BY <1>1, <2>1
    <3>2. g[k] = f[(m + 1) + k - 1] BY <1>1, <1>2, <2>1, <3>1
    <3> QED BY <3>1, <3>2
  <2> QED BY <2>2, <2>3, <2>4
<1> HIDE DEF g
<1>5. /\ both \in Seq(S) /\ Len(both) = n
      /\ \A k \in 1 .. m : both[k] = r[k]
      /\ \A k \in 1 .. n - m : both[m + k] = g[k]
  <2>1. both \in Seq(S) /\ Len(both) = m + Len(g) BY <1>0, <1>4
  <2>2. m + Len(g) = n BY <1>1, <1>4
  <2>3. \A k \in 1 .. m : both[k] = r[k] BY <1>1, <1>4
  <2>4. \A k \in 1 .. Len(g) : both[m + k] = g[k] BY <1>1, <1>4
  <2> QED BY <1>4, <2>1, <2>2, <2>3, <2>4
<1>6. ASSUME NEW k \in 1 .. n PROVE both[k] = f[k]
  <2>1. CASE k <= m
    <3>1. k \in 1 .. m BY <1>1, <2>1
    <3> QED BY <1>3, <1>5, <3>1
  <2>2. CASE k > m
    <3>1. k - m \in 1 .. n - m /\ m + (k - m) = k BY <1>1, <1>2, <2>2
    <3>2. g[k - m] = f[m + (k - m)] BY <1>4, <3>1
    <3>3. both[m + (k - m)] = g[k - m] BY <1>5, <3>1
    <3> QED BY <3>1, <3>2, <3>3
  <2>3. k <= m \/ k > m
    <3> HIDE DEF m, n
    <3> QED BY <1>1
  <2> QED BY <2>1, <2>2, <2>3
<1>7. both = [k \in 1 .. n |-> both[k]] /\ f = [k \in 1 .. n |-> f[k]]
  <2> HIDE DEF both
  <2> QED BY <1>1, <1>5
<1> HIDE DEF both, m, n
<1>8. f = both BY <1>6, <1>7
<1>9. g # <<>>
  <2>1. ASSUME g = <<>> PROVE FALSE
    <3>1. both = r BY <2>1 DEF both
    <3> QED BY <1>2, <1>8, <3>1
  <2> QED BY <2>1
<1> QED BY <1>4, <1>8, <1>9 DEF both, S

LEMMA PlaceInFirst ==
    ASSUME NEW r \in Seq(Nat), NEW s \in Seq(Nat), NEW k \in 1 .. Len(r)
    PROVE  (r \o s)[k] = r[k]
OBVIOUS

LEMMA PlaceInSecond ==
    ASSUME NEW r \in Seq(Nat), NEW s \in Seq(Nat), NEW k \in 1 .. Len(s)
    PROVE  (r \o s)[Len(r) + k] = s[k]
OBVIOUS

LEMMA RestIsSame ==
    ASSUME NEW r \in Seq(Nat), NEW s \in Seq(Nat), NEW t \in Seq(Nat), r \o s = r \o t
    PROVE  s = t
<1>1. Len(r \o s) = Len(r) + Len(s) /\ Len(r \o t) = Len(r) + Len(t)
  BY TwoTogether
<1>2. Len(s) = Len(t) OBVIOUS
<1>3. SubSeq(r \o s, Len(r) + 1, Len(r) + Len(s)) = s BY SecondOfTwo
<1>4. SubSeq(r \o t, Len(r) + 1, Len(r) + Len(t)) = t BY SecondOfTwo
<1> QED BY <1>2, <1>3, <1>4

\* The text of a path, and of one path below another.
LEMMA TextIsWritten ==
    ASSUME NEW names \in Seq(FileNames)
    PROVE  /\ names \in Seq(Seq(Nat)) /\ names \in Seq(Seq(Nat \ {Slash}))
           /\ Written(names) = Text(names) /\ Text(names) \in Seq(Nat)
<1>1. FileNames \subseteq Seq(Nat) /\ FileNames \subseteq Seq(Nat \ {Slash})
  BY DEF FileNames
<1>2. names \in Seq(Seq(Nat)) /\ names \in Seq(Seq(Nat \ {Slash})) BY <1>1
<1>3. Written(names) = Text(names)
  <2>1. DOMAIN names = 1 .. Len(names) /\ Len(names) \in Nat OBVIOUS
  <2> QED BY <2>1, FoldsAre DEF Text
<1> QED BY <1>2, <1>3, TextOnto

LEMMA TextBelow ==
    ASSUME NEW r \in Seq(Seq(Nat)), NEW g \in Seq(Seq(Nat))
    PROVE  Text(r \o g) = Text(r) \o Text(g)
<1>1. Text(r) \in Seq(Nat) BY TextOnto
<1>2. FoldAll("text", Text(r), g) = Text(r) \o Text(g) BY <1>1, TextOnto
<1>3. FoldAll("text", <<>>, r \o g) = FoldAll("text", FoldAll("text", <<>>, r), g)
  BY FoldOnwards
<1> QED BY <1>2, <1>3 DEF Text

\* It begins with one slash, and what follows is split into the names again.
LEMMA TextBegins ==
    ASSUME NEW g \in Seq(FileNames), g # <<>>
    PROVE  \E t \in Seq(Nat) :
              /\ Text(g) = <<Slash>> \o t /\ Tail(Text(g)) = t
              /\ t # <<>> /\ t[1] # Slash /\ Names(t) = g
<1> DEFINE x == g[1]
           rest == Tail(g)
           first == <<x>>
           t == x \o Text(rest)
           slash == <<Slash>>
<1>1. x \in FileNames /\ rest \in Seq(FileNames) /\ g = first \o rest OBVIOUS
<1>2. x \in Seq(Nat) /\ x \in Seq(Nat \ {Slash}) /\ x # <<>> BY <1>1 DEF FileNames
<1> HIDE DEF x, rest
<1>3. rest \in Seq(Seq(Nat)) /\ Text(rest) \in Seq(Nat) BY <1>1, TextIsWritten
<1>4. Text(g) = slash \o t BY <1>1, <1>2, <1>3, TextOfFirst
<1>5. slash \in Seq(Nat) /\ Len(slash) = 1 BY SlashIsText
<1>6. t \in Seq(Nat) /\ Len(t) = Len(x) + Len(Text(rest)) BY <1>2, <1>3, TwoTogether
<1>7. t # <<>> /\ t[1] # Slash
  <2>1. Len(x) > 0 /\ x[1] \in Nat \ {Slash} BY <1>2
  <2>2. t[1] = x[1] BY <1>2, <1>3, <2>1
  <2> HIDE DEF t
  <2> QED BY <1>3, <1>6, <2>1, <2>2
<1> HIDE DEF t, slash
<1>8. Tail(slash \o t) = t
  <2> DEFINE all == slash \o t
             l == Tail(all)
             n == Len(t)
  <2>1. /\ all \in Seq(Nat) /\ Len(all) = 1 + n
        /\ \A k \in 1 .. n : all[1 + k] = t[k]
    <3>1. all \in Seq(Nat) /\ Len(all) = 1 + n BY <1>5, <1>6, TwoTogether
    <3>2. ASSUME NEW k \in 1 .. n PROVE all[1 + k] = t[k]
      <4>1. all[Len(slash) + k] = t[k] BY <1>5, <1>6, PlaceInSecond
      <4> HIDE DEF all
      <4> QED BY <4>1, <1>5
    <3> QED BY <3>1, <3>2
  <2>2. n \in Nat /\ t = [k \in 1 .. n |-> t[k]] BY <1>6
  <2> HIDE DEF all, n
  <2>3. Len(l) = n /\ l \in Seq(Nat) BY <2>1, <2>2
  <2>4. \A k \in 1 .. n : l[k] = t[k] BY <2>1, <2>2
  <2> HIDE DEF l
  <2>5. l = [k \in 1 .. n |-> l[k]] BY <2>2, <2>3
  <2>6. l = t BY <2>2, <2>4, <2>5
  <2> QED BY <2>6 DEF l, all
<1>9. Names(t) = g
  <2> DEFINE none == <<>>
  <2>1. FoldAll("names", <<>>, slash) = <<none>>
    <3>1. FoldAll("names", <<>>, slash) = Step("names", <<>>, Slash)
      BY FoldOne DEF slash
    <3> QED BY <3>1 DEF Step
  <2>2. FoldAll("names", <<>>, slash \o t) = FoldAll("names", <<none>>, t)
    BY <1>5, <1>6, <2>1, FoldOnwards
  <2>3. FoldAll("names", <<>>, Text(g)) = g BY TextIsWritten, NamesOfText
  <2>4. Names(t) = FoldAll("names", <<none>>, t)
    <3>1. DOMAIN t = 1 .. Len(t) /\ Len(t) \in Nat BY <1>6
    <3> QED BY <3>1, FoldsAre
  <2> QED BY <1>4, <2>2, <2>3, <2>4
<1> QED BY <1>4, <1>6, <1>7, <1>8, <1>9 DEF slash

\* The path of a file below the root leads to the file.
LEMMA LeadsToFile ==
    ASSUME Root \in Seq(FileNames), NEW g \in Seq(FileNames), g # <<>>
    PROVE  GetFilePath(Text(g)) = [path |-> Root \o g, dir |-> FALSE]
<1> DEFINE q == Text(g)
<1>1. PICK t \in Seq(Nat) :
        /\ q = <<Slash>> \o t /\ Tail(q) = t
        /\ t # <<>> /\ t[1] # Slash /\ Names(t) = g
  BY TextBegins
<1> HIDE DEF q
<1>2. q \notin {<<Slash>>, Index}
  <2>1. q # <<Slash>>
    <3>1. Tail(<<Slash>>) = <<>> OBVIOUS
    <3> QED BY <1>1, <3>1
  <2>2. q # Index
    <3>1. Index[1] # Slash BY DEF Index, Slash
    <3>2. (<<Slash>> \o t)[1] = Slash
      <4> DEFINE slash == <<Slash>>
      <4>1. slash \in Seq(Nat) /\ Len(slash) = 1 /\ slash[1] = Slash BY SlashIsText
      <4> HIDE DEF slash
      <4>2. 1 \in 1 .. Len(slash) BY <4>1
      <4>3. (slash \o t)[1] = slash[1] BY <4>1, <4>2, PlaceInFirst
      <4> QED BY <4>1, <4>3 DEF slash
    <3> QED BY <1>1, <3>1, <3>2
  <2> QED BY <2>1, <2>2
<1>3. ~IsPrefix(<<Slash>>, t)
  <2> DEFINE slash == <<Slash>>
  <2>1. slash \in Seq(Nat) /\ Len(slash) = 1 /\ slash[1] = Slash BY SlashIsText
  <2> HIDE DEF slash
  <2>2. Len(t) > 0 BY <1>1
  <2>3. SubSeq(slash, 1, 1)[1] = Slash BY <2>1
  <2>4. SubSeq(t, 1, 1)[1] = t[1] BY <2>2
  <2> QED BY <1>1, <2>1, <2>3, <2>4 DEF IsPrefix, slash
<1>4. Canonical(Root, g) = Root \o g
  <2>1. DOMAIN g = 1 .. Len(g) /\ Len(g) \in Nat OBVIOUS
  <2>2. Canonical(Root, g) = FoldAll("path", Root, g) BY <2>1, FoldsAre
  <2>3. Root \in Seq(Seq(Nat)) BY TextIsWritten
  <2> QED BY <2>2, <2>3, NamesLeadDown
<1>5. Last(g) \notin {<<>>, <<Dot>>, <<Dot, Dot>>}
  <2>1. Last(g) \in FileNames BY DEF Last
  <2> QED BY <2>1 DEF FileNames
<1>6. GetFilePath(q) = [path |-> Canonical(Root, g), dir |-> FALSE]
  <2> DEFINE start == IF IsPrefix(<<Slash>>, t) THEN <<>> ELSE Root
             plain == Last(g) \in {<<>>, <<Dot>>, <<Dot, Dot>>}
  <2>1. GetFilePath(q) = [path |-> Canonical(start, g), dir |-> plain]
    BY <1>1, <1>2 DEF GetFilePath
  <2>2. start = Root BY <1>3
  <2>3. plain = FALSE BY <1>5
  <2> HIDE DEF start, plain
  <2> QED BY <2>1, <2>2, <2>3
<1> QED BY <1>4, <1>6 DEF q

\* Files and directories are named, and so is the root.
FilesAreNamed == Root \in Seq(FileNames) /\ Files \subseteq Seq(FileNames)

\* No directory of the root has the name of the API, whose requests are told by
\* it.
NothingHidden ==
    \A f \in Files : IsStrictPrefix(Root, f) => ~IsPrefix(Written(Root) \o Api, Written(f))

\* What is asked for, if it is the path of a file below the root, is the text of
\* what that path has beyond the root.
LEMMA FileIsMeant ==
    ASSUME FilesAreNamed, NothingHidden, NEW f \in Files, IsStrictPrefix(Root, f),
           NEW meant \in Seq(Nat), Written(f) = Written(Root) \o meant
    PROVE  /\ meant # <<>> /\ ~IsApi(meant)
           /\ GetFilePath(meant) = [path |-> f, dir |-> FALSE]
<1>1. Root \in Seq(FileNames) /\ f \in Seq(FileNames) BY DEF FilesAreNamed
<1>2. PICK g \in Seq(FileNames) : g # <<>> /\ f = Root \o g
  BY <1>1, Beyond
<1>3. /\ Root \in Seq(Seq(Nat)) /\ g \in Seq(Seq(Nat))
      /\ Written(Root) = Text(Root) /\ Written(f) = Text(f)
      /\ Text(Root) \in Seq(Nat) /\ Text(g) \in Seq(Nat)
  BY <1>1, TextIsWritten
<1>4. Text(f) = Text(Root) \o Text(g) BY <1>2, <1>3, TextBelow
<1>5. meant = Text(g)
  <2> DEFINE r == Text(Root)
             s == Text(g)
  <2>1. r \in Seq(Nat) /\ s \in Seq(Nat) /\ r \o s = r \o meant BY <1>3, <1>4
  <2> HIDE DEF r, s
  <2> QED BY <2>1, RestIsSame DEF s
<1>6. meant # <<>>
  <2>1. PICK t \in Seq(Nat) : Text(g) = <<Slash>> \o t BY <1>2, TextBegins
  <2>2. <<Slash>> \o t # <<>>
    <3> DEFINE slash == <<Slash>>
    <3>1. slash \in Seq(Nat) /\ Len(slash) = 1 BY SlashIsText
    <3> HIDE DEF slash
    <3>2. Len(slash \o t) = 1 + Len(t) BY <3>1, TwoTogether
    <3> QED BY <3>2 DEF slash
  <2> QED BY <1>5, <2>1, <2>2
<1>7. ~IsApi(meant)
  <2> DEFINE r == Text(Root)
             n == Len(meant)
             rest == SubSeq(meant, 6, n)
  <2>1. SUFFICES ASSUME IsPrefix(Api, meant) PROVE IsPrefix(r \o Api, r \o meant)
    BY <1>3 DEF NothingHidden, IsApi
  <2>2. r \in Seq(Nat) BY <1>3
  <2> HIDE DEF r
  <2>3. 5 <= n /\ SubSeq(meant, 1, 5) = Api
    <3>1. Api \in Seq(Nat) /\ Len(Api) = 5 BY MapsPath
    <3>2. SubSeq(Api, 1, 5) = Api BY <3>1
    <3> QED BY <2>1, <3>1, <3>2 DEF IsPrefix
  <2>4. Len(r \o Api) = Len(r) + 5 /\ Len(r \o meant) = Len(r) + n
        /\ r \o Api \in Seq(Nat) /\ r \o meant \in Seq(Nat)
    BY <2>2, MapsPath, TwoTogether
  <2>5. SubSeq(r \o Api, 1, Len(r) + 5) = SubSeq(r \o meant, 1, Len(r) + 5)
    <3> DEFINE a == r \o Api
               b == r \o meant
               m == Len(r)
    <3>1. m \in Nat /\ n \in Nat /\ Api \in Seq(Nat) /\ Len(Api) = 5
      BY <2>2, MapsPath
    <3>2. ASSUME NEW k \in 1 .. m + 5 PROVE a[k] = b[k]
      <4>1. CASE k <= m
        <5>1. k \in 1 .. m BY <3>1, <4>1
        <5>2. a[k] = r[k] /\ b[k] = r[k] BY <2>2, <3>1, <5>1
        <5> QED BY <5>2
      <4>2. CASE k > m
        <5> DEFINE j == k - m
        <5>1. j \in 1 .. 5 /\ m + j = k
          <6> HIDE DEF m
          <6> QED BY <3>1, <4>2
        <5>2. Api[j] = meant[j]
          <6>1. SubSeq(meant, 1, 5)[j] = meant[j] BY <2>3, <3>1, <5>1
          <6> QED BY <2>3, <6>1
        <5> HIDE DEF j
        <5>3. a[m + j] = Api[j] BY <2>2, <3>1, <5>1, PlaceInSecond
        <5>4. j \in 1 .. n BY <2>3, <3>1, <5>1
        <5>5. b[m + j] = meant[j] BY <2>2, <5>4, PlaceInSecond
        <5> QED BY <5>1, <5>2, <5>3, <5>5
      <4>3. k <= m \/ k > m
        <5> HIDE DEF m
        <5> QED BY <3>1
      <4> QED BY <4>1, <4>2, <4>3
    <3> HIDE DEF a, b
    <3>3. /\ SubSeq(a, 1, m + 5) = [k \in 1 .. m + 5 |-> a[k]]
          /\ SubSeq(b, 1, m + 5) = [k \in 1 .. m + 5 |-> b[k]]
      <4>1. a \in Seq(Nat) /\ Len(a) = m + 5 /\ b \in Seq(Nat) /\ Len(b) = m + n
        BY <2>4 DEF a, b
      <4> HIDE DEF m, n
      <4> QED BY <2>3, <3>1, <4>1
    <3> QED BY <3>2, <3>3 DEF a, b
  <2>6. Len(r) + 5 <= Len(r) + n BY <2>2, <2>3
  <2> QED BY <2>4, <2>5, <2>6 DEF IsPrefix
<1>8. GetFilePath(meant) = [path |-> f, dir |-> FALSE]
  BY <1>1, <1>2, <1>5, LeadsToFile
<1> QED BY <1>6, <1>7, <1>8

\* A file in an answer is below the root, whatever was asked for.
LEMMA FilesOfAnswers ==
    ASSUME NEW method, NEW query
    PROVE  Route(method, query).body[1] = "file" =>
               IsPrefix(Root, Route(method, query).body[2])
<1> DEFINE a == Route(method, query)
           file == GetFilePath(query)
<1>1. \A status, body : Answer(status, body).body = body BY DEF Answer
<1>2. CASE IsApi(query)
  <2>1. a = ParseApiRequest(method, query) BY <1>2 DEF Route
  <2>2. \/ \E status : a = Answer(status, <<"message">>)
        \/ \E shown : a = Answer(200, <<"maps", shown>>)
        \/ \E shown : a = Answer(200, <<"map", shown>>)
        \/ a = Answer(0, <<"player", query>>)
    BY <2>1 DEF ParseApiRequest, ParseMapsQuery, Reject
  <2> HIDE DEF a
  <2>3. a.body[1] # "file"
    <3>1. CASE \E status : a = Answer(status, <<"message">>)
      <4>1. a.body = <<"message">> BY <1>1, <3>1
      <4> QED BY <4>1
    <3>2. CASE \E shown : a = Answer(200, <<"maps", shown>>)
      <4>1. PICK shown : a.body = <<"maps", shown>> BY <1>1, <3>2
      <4> QED BY <4>1
    <3>3. CASE \E shown : a = Answer(200, <<"map", shown>>)
      <4>1. PICK shown : a.body = <<"map", shown>> BY <1>1, <3>3
      <4> QED BY <4>1
    <3>4. CASE a = Answer(0, <<"player", query>>)
      <4>1. a.body = <<"player", query>> BY <1>1, <3>4
      <4> QED BY <4>1
    <3> QED BY <2>2, <3>1, <3>2, <3>3, <3>4
  <2> QED BY <2>3 DEF a
<1>3. CASE ~IsApi(query)
  <2>1. a = ParseFileRequest(method, query) BY <1>3 DEF Route
  <2>2. \/ \E status : a = Reject(status)
        \/ a = Thrown
        \/ a = Answer(200, <<"file", file.path>>) /\ IsPrefix(Root, file.path)
    BY <2>1 DEF ParseFileRequest, MakeFileResponse, IsSubPath
  <2> HIDE DEF a, file
  <2>3. a.body[1] = "file" => IsPrefix(Root, a.body[2])
    <3>1. CASE a = Answer(200, <<"file", file.path>>) /\ IsPrefix(Root, file.path)
      <4>1. a.body = <<"file", file.path>> BY <1>1, <3>1
      <4> QED BY <3>1, <4>1
    <3>2. CASE a = Thrown \/ \E status : a = Reject(status)
      <4>1. a.body[1] # "file" BY <1>1, <3>2 DEF Thrown, Reject
      <4> QED BY <4>1
    <3> QED BY <2>2, <3>1, <3>2
  <2> QED BY <2>3 DEF a
<1> QED BY <1>2, <1>3

\* Requests are those there are, and a file that is sent is below the root.
FromTheRoot ==
    /\ asked # <<>> => asked.request \in Requests
    /\ answer.body[1] = "file" => IsPrefix(Root, answer.body[2])

LEMMA AnswersStayBelow == Spec => []FromTheRoot
<1>1. Nothing.body[1] # "file" /\ Thrown.body[1] # "file"
  BY DEF Nothing, Thrown, Answer
<1>2. Init => FromTheRoot BY <1>1 DEF Init, FromTheRoot
<1>3. ASSUME FromTheRoot, [Next]_vars PROVE FromTheRoot'
  <2>1. CASE UNCHANGED <<asked, answer>>
    BY <1>3, <2>1 DEF FromTheRoot
  <2>2. CASE Send
    BY <1>1, <2>2 DEF Send, FromTheRoot
  <2>3. ASSUME NEW method \in Methods, NEW request \in Requests, Handle(method, request)
        PROVE  FromTheRoot'
    <3> DEFINE query == ParseURL(request.target)
    <3>1. /\ asked' = [method |-> method, request |-> request]
          /\ answer' = Thrown \/ answer' = Route(method, query)
      BY <2>3 DEF Handle
    <3>2. asked'.request \in Requests BY <3>1
    <3> HIDE DEF query
    <3>3. answer'.body[1] = "file" => IsPrefix(Root, answer'.body[2])
      BY <1>1, <3>1, FilesOfAnswers
    <3> QED BY <3>2, <3>3 DEF FromTheRoot
  <2>4. CASE UNCHANGED vars
    BY <2>1, <2>4 DEF vars
  <2> QED BY <1>3, <2>1, <2>2, <2>3, <2>4 DEF Next
<1> QED BY <1>2, <1>3, PTL DEF Spec

\* Whatever the files are and however a client writes what it asks for, it gets
\* nothing that is not below the root, and every file below it by its own path.
THEOREM FilesAreServed ==
    ASSUME WellWritten, FilesAreNamed, NothingHidden
    PROVE  Spec => []AnswersFromTheRoot
<1>1. Served /\ FromTheRoot => AnswersFromTheRoot
  <2> SUFFICES ASSUME Served, FromTheRoot, Answered, NEW f \in Files \ Locked,
                      IsStrictPrefix(Root, f),
                      Written(f) = Written(Root) \o asked.request.meant
               PROVE  answer = Answer(200, <<"file", f>>)
    BY DEF AnswersFromTheRoot, FromTheRoot
  <2> DEFINE meant == asked.request.meant
  <2>1. asked # <<>> /\ Reads(asked.method) /\ EscapesMakeNoDifference
        /\ asked.request \in Requests
    BY DEF Answered, Served, FromTheRoot
  <2>2. meant \in Seq(Nat)
    <3>1. CASE meant = <<>>
      BY <3>1
    <3>2. CASE meant # <<>>
      BY <2>1, <3>2 DEF WellWritten
    <3> QED BY <3>1, <3>2
  <2>3. f \in Files /\ Written(f) = Written(Root) \o meant OBVIOUS
  <2>4. meant # <<>> /\ EscapesMakeNoDifference => answer = Route(asked.method, meant)
    BY <2>1 DEF EscapesMakeNoDifference
  <2> HIDE DEF meant
  <2>5. /\ meant # <<>> /\ ~IsApi(meant)
        /\ GetFilePath(meant) = [path |-> f, dir |-> FALSE]
    BY <2>2, <2>3, FileIsMeant
  <2>6. IsSubPath(f, Root) BY DEF IsStrictPrefix, IsSubPath
  <2>7. Exists([path |-> f, dir |-> FALSE]) BY <2>3 DEF Exists
  <2>8. Route(asked.method, meant) = MakeFileResponse([path |-> f, dir |-> FALSE])
    BY <2>1, <2>5, <2>6, <2>7 DEF Route, ParseFileRequest
  <2>9. MakeFileResponse([path |-> f, dir |-> FALSE]) = Answer(200, <<"file", f>>)
    BY DEF MakeFileResponse
  <2> QED BY <2>1, <2>4, <2>5, <2>8, <2>9
<1> QED BY <1>1, AnswersAreKept, AnswersStayBelow, PTL
=============================================================================
