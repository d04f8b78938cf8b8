--------------------------- MODULE LootGenerator ---------------------------
(***************************************************************************)
(* LootGenerator::Generate, called by a session in which things are taken  *)
(* from the map and looters join.  The random generator is the default one *)
(* of the code, which always returns 1.                                    *)
(*                                                                         *)
(* The probability that nothing appears in a base interval is              *)
(* KeepNum / KeepDen, one minus the configured probability, and            *)
(*     round(shortage * (1 - (KeepNum / KeepDen) ^ (time / BaseInterval))) *)
(* is computed without fractions: k things are generated when a half less  *)
(* than k is not more than the product.                                    *)
(***************************************************************************)
EXTENDS Integers, FiniteSets

CONSTANTS
    BaseInterval,   \* base_interval_, in units of time
    KeepNum, KeepDen,
    TimeCap,        \* bound: time_without_loot_ is not counted beyond
    Deltas,         \* bound: the values of time_delta
    MaxLooters      \* bound: the looters of the map

\* The comment of the constructor asks for a base interval above zero.
ASSUME GeneratorAssumption ==
    /\ BaseInterval \in Nat \ {0}
    /\ KeepNum \in Nat \ {0} /\ KeepDen \in Nat /\ KeepNum <= KeepDen
    /\ TimeCap \in Nat
    /\ Deltas \subseteq Nat
    /\ MaxLooters \in Nat

\* std::pow, of an integer.
Powers(b) == LET p[n \in Nat] == IF n = 0 THEN 1 ELSE b * p[n - 1] IN p
Power(b, n) == Powers(b)[n]

VARIABLES
    timeWithoutLoot,  \* time_without_loot_
    loot,             \* loot_count: the things on the map
    looters           \* looter_count

vars == <<timeWithoutLoot, loot, looters>>

Shortage(lootCount, looterCount) ==
    IF lootCount > looterCount THEN 0 ELSE looterCount - lootCount

\* Slip: a share of the looters, not of those who lack a thing.
GeneratedForEveryLooter(time, lootCount, looterCount) ==
    Cardinality({k \in 1 .. looterCount :
        Power(KeepNum, time) * Power(2 * looterCount, BaseInterval)
            <= Power(KeepDen, time) * Power(2 * looterCount - 2 * k + 1, BaseInterval)})

\* Slip: the quotient of the two times turned upside down.
GeneratedInverseRatio(time, lootCount, looterCount) ==
    LET s == Shortage(lootCount, looterCount)
    IN  Cardinality({k \in 1 .. s :
            Power(KeepNum, BaseInterval) * Power(2 * s, time)
                <= Power(KeepDen, BaseInterval) * Power(2 * s - 2 * k + 1, time)})

Generated(time, lootCount, looterCount) ==
    LET s == Shortage(lootCount, looterCount)
    IN  Cardinality({k \in 1 .. s :
            Power(KeepNum, time) * Power(2 * s, BaseInterval)
                <= Power(KeepDen, time) * Power(2 * s - 2 * k + 1, BaseInterval)})

\* The clock stands still at TimeCap, where every shortage is made up at once.
ASSUME CapAssumption ==
    Power(KeepNum, TimeCap) * Power(2 * MaxLooters, BaseInterval)
        <= Power(KeepDen, TimeCap)

After(time, delta) == IF time + delta < TimeCap THEN time + delta ELSE TimeCap

Init ==
    /\ timeWithoutLoot = 0
    /\ loot = 0
    /\ looters = 0

\* Slip: the clock starts again although nothing was generated.
GenerateAndForget(delta) ==
    /\ loot' = loot + Generated(After(timeWithoutLoot, delta), loot, looters)
    /\ timeWithoutLoot' = 0
    /\ UNCHANGED looters

Generate(delta) ==
    LET time == After(timeWithoutLoot, delta)
        n    == Generated(time, loot, looters)
    IN  /\ loot' = loot + n
        /\ timeWithoutLoot' = IF n > 0 THEN 0 ELSE time
        /\ UNCHANGED looters

\* The session, between two calls.
Taken ==
    /\ loot > 0
    /\ loot' = loot - 1
    /\ UNCHANGED <<timeWithoutLoot, looters>>

Join ==
    /\ looters < MaxLooters
    /\ looters' = looters + 1
    /\ UNCHANGED <<timeWithoutLoot, loot>>

Next ==
    \/ \E delta \in Deltas : Generate(delta)
    \/ Taken
    \/ Join

Spec == Init /\ [][Next]_vars
-----------------------------------------------------------------------------
(* Properties.                                                             *)

TypeOK ==
    /\ timeWithoutLoot \in 0 .. TimeCap
    /\ loot \in Nat
    /\ looters \in 0 .. MaxLooters

\* Comment of Generate: no more things appear on the map than there are
\* looters, whatever was taken and whoever joined between the calls.
LootNeverExceedsLooters == loot <= looters

\* Waiting pays: what a longer quiet time generates is not less, and joining
\* or taking during it only adds.
GenerationGrowsWithTime ==
    \A d \in Deltas :
        /\ Generated(timeWithoutLoot, loot, looters)
             <= Generated(After(timeWithoutLoot, d), loot, looters)
        /\ Generated(timeWithoutLoot, loot, looters)
             <= Generated(timeWithoutLoot, loot, looters + 1)
=============================================================================
