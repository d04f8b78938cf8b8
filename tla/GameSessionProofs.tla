------------------------- MODULE GameSessionProofs -------------------------
(***************************************************************************)
(* A session keeps its books, for every map, every number of dogs and      *)
(* every pattern of ticks, commands and things that appear; and the        *)
(* collision detector reports to it what was passed, once and in order.    *)
(***************************************************************************)
EXTENDS GameSession, CollisionDetector, GeometryProofs, FiniteSetTheorems

-----------------------------------------------------------------------------
(* The worth of a bag.                                                     *)

\* f[k] is the worth of the first k things of s.
Sums(f, s) ==
    /\ f[0] = 0
    /\ \A k \in 1 .. Len(s) : f[k] = f[k - 1] + Worth[s[k].type]

\* The worth of each thing in a bag is a natural number.
LEMMA WorthOfThings ==
    ASSUME NEW s \in Seq(Things)
    PROVE  /\ Len(s) \in Nat
           /\ \A k \in 1 .. Len(s) : s[k] \in Things /\ Worth[s[k].type] \in Nat
<1>1. Len(s) \in Nat /\ \A k \in 1 .. Len(s) : s[k] \in Things
  <2> DEFINE T == Things
  <2>1. s \in Seq(T) OBVIOUS
  <2> HIDE DEF T
  <2> QED BY <2>1
<1>2. \A t \in Things : Worth[t.type] \in Nat
  BY SessionAssumption DEF Things
<1> QED BY <1>1, <1>2

\* BagWorth adds up: there is a function that its definition describes.
LEMMA BagWorthSums ==
    ASSUME NEW s \in Seq(Things)
    PROVE  \E f : /\ Sums(f, s)
                  /\ \A k \in 0 .. Len(s) : f[k] \in Nat
                  /\ BagWorth(s) = f[Len(s)]
<1> DEFINE L == Len(s)
           w(k) == Worth[s[k].type]
           Step(f, k) == IF k = 0 THEN 0 ELSE f[k - 1] + w(k)
           sum == CHOOSE f : f = [k \in 0 .. L |-> Step(f, k)]
           T == {n \in Nat : \E f \in [0 .. L -> Nat] :
                    \A k \in 0 .. L : k < n => f[k] = Step(f, k)}
<1>1. L \in Nat /\ \A k \in 1 .. L : w(k) \in Nat
  BY WorthOfThings
<1> HIDE DEF L, w
<1>2. ASSUME NEW n \in Nat, \A m \in 0 .. n - 1 : m \in T PROVE n \in T
  <2>1. CASE n = 0
    <3> DEFINE f == [k \in 0 .. L |-> 0]
    <3>1. f \in [0 .. L -> Nat] OBVIOUS
    <3>2. \A k \in 0 .. L : ~(k < n) BY <2>1
    <3> HIDE DEF f
    <3> QED BY <3>1, <3>2
  <2>2. CASE n > 0
    <3>0. n - 1 \in 0 .. n - 1 BY <2>2
    <3>1. n - 1 \in T BY <3>0, <1>2
    <3>2. PICK f \in [0 .. L -> Nat] :
              \A k \in 0 .. L : k < n - 1 => f[k] = Step(f, k)
      BY <3>1
    <3> DEFINE g == [k \in 0 .. L |-> Step(f, k)]
    <3>3. ASSUME NEW k \in 0 .. L PROVE Step(f, k) \in Nat
      <4>1. CASE k = 0 BY <4>1
      <4>2. CASE k > 0
        <5>1. k \in 1 .. L /\ k - 1 \in 0 .. L BY <4>2, <1>1
        <5>2. f[k - 1] \in Nat /\ w(k) \in Nat BY <5>1, <1>1
        <5> QED BY <4>2, <5>2
      <4> QED BY <4>1, <4>2
    <3>4. g \in [0 .. L -> Nat] BY <3>3
    <3>5. ASSUME NEW k \in 0 .. L, k < n PROVE g[k] = Step(g, k)
      <4>1. CASE k = 0 BY <4>1
      <4>2. CASE k > 0
        <5>1. k - 1 \in 0 .. L /\ k - 1 < n - 1 BY <4>2, <3>5, <1>1
        <5>2. f[k - 1] = g[k - 1] BY <5>1, <3>2
        <5>3. Step(f, k) = Step(g, k) BY <4>2, <5>2
        <5> QED BY <5>3
      <4> QED BY <4>1, <4>2
    <3> HIDE DEF g, Step
    <3> QED BY <3>4, <3>5
  <2> QED BY <2>1, <2>2
<1>3. Nat \subseteq T
  <2> HIDE DEF T
  <2> QED BY <1>2, SetInduction
<1>4. PICK f \in [0 .. L -> Nat] :
          \A k \in 0 .. L : k < L + 1 => f[k] = Step(f, k)
  <2>1. L + 1 \in T
    <3> HIDE DEF T
    <3> QED BY <1>1, <1>3
  <2> QED BY <2>1
<1>5. \A k \in 0 .. L : f[k] = Step(f, k)
  BY <1>1, <1>4
<1>6. f = [k \in 0 .. L |-> Step(f, k)]
  <2> HIDE DEF Step
  <2> QED BY <1>5
<1>7. sum = [k \in 0 .. L |-> Step(sum, k)]
  <2> DEFINE P(g) == g = [k \in 0 .. L |-> Step(g, k)]
  <2>1. P(f) BY <1>6
  <2>2. P(CHOOSE g : P(g))
    <3> HIDE DEF P
    <3> QED BY <2>1
  <2> QED BY <2>2
<1>8. BagWorth(s) = sum[L]
  BY DEF BagWorth, L, w
<1> HIDE DEF sum
<1>9. \A k \in 0 .. L : sum[k] = Step(sum, k)
  <2> HIDE DEF Step
  <2> QED BY <1>7
<1>10. Sums(sum, s)
  <2>1. sum[0] = 0 BY <1>1, <1>9
  <2>2. \A k \in 1 .. L : sum[k] = sum[k - 1] + w(k) BY <1>1, <1>9
  <2> QED BY <2>1, <2>2 DEF Sums, L, w
<1>11. \A k \in 0 .. L : sum[k] \in Nat
  <2> DEFINE U == {n \in Nat : n \in 0 .. L => sum[n] \in Nat}
  <2>1. ASSUME NEW n \in Nat, \A m \in 0 .. n - 1 : m \in U PROVE n \in U
    <3>1. CASE n = 0 BY <3>1, <1>9
    <3>2. CASE n \in 1 .. L
      <4>1. n - 1 \in U /\ n - 1 \in 0 .. L BY <3>2, <2>1, <1>1
      <4>2. sum[n - 1] \in Nat /\ w(n) \in Nat BY <4>1, <3>2, <1>1
      <4>3. sum[n] = sum[n - 1] + w(n) BY <3>2, <1>1, <1>9
      <4> QED BY <4>2, <4>3
    <3>3. CASE n \notin 0 .. L BY <3>3
    <3> QED BY <3>1, <3>2, <3>3, <1>1
  <2>2. Nat \subseteq U
    <3> HIDE DEF U
    <3> QED BY <2>1, SetInduction
  <2> QED BY <2>2, <1>1
<1> QED BY <1>8, <1>10, <1>11 DEF L

\* A bag and what was delivered before are together worth their sum.
LEMMA BagWorthOfBoth ==
    ASSUME NEW s \in Seq(Things), NEW t \in Seq(Things)
    PROVE  /\ BagWorth(s) \in Nat
           /\ BagWorth(s \o t) = BagWorth(s) + BagWorth(t)
<1> DEFINE u == s \o t
           m == Len(s)
           n == Len(t)
<1>1. /\ u \in Seq(Things) /\ Len(u) = m + n /\ m \in Nat /\ n \in Nat
      /\ \A k \in 1 .. m : u[k] = s[k]
      /\ \A k \in 1 .. n : u[m + k] = t[k]
  <2> DEFINE T == Things
  <2>1. s \in Seq(T) /\ t \in Seq(T) OBVIOUS
  <2> HIDE DEF T
  <2>2. s \o t \in Seq(T) BY <2>1
  <2> QED BY <2>1, <2>2 DEF T
<1>2. PICK f : Sums(f, s) /\ (\A k \in 0 .. m : f[k] \in Nat) /\ BagWorth(s) = f[m]
  BY BagWorthSums
<1>3. PICK g : Sums(g, t) /\ (\A k \in 0 .. n : g[k] \in Nat) /\ BagWorth(t) = g[n]
  BY BagWorthSums
<1>4. PICK h : /\ Sums(h, u) /\ (\A k \in 0 .. Len(u) : h[k] \in Nat)
               /\ BagWorth(u) = h[Len(u)]
  BY <1>1, BagWorthSums
<1> HIDE DEF u, m, n
<1>5. \A k \in 0 .. m : h[k] = f[k]
  <2> DEFINE T == {k \in Nat : k \in 0 .. m => h[k] = f[k]}
  <2>1. ASSUME NEW k \in Nat, \A j \in 0 .. k - 1 : j \in T PROVE k \in T
    <3>1. CASE k = 0 BY <3>1, <1>2, <1>4 DEF Sums
    <3>2. CASE k \in 1 .. m
      <4>1. k - 1 \in T /\ k - 1 \in 0 .. m BY <3>2, <2>1, <1>1
      <4>2. h[k - 1] = f[k - 1] BY <4>1
      <4>3. f[k] = f[k - 1] + Worth[s[k].type] BY <3>2, <1>2 DEF Sums, m
      <4>4. k \in 1 .. Len(u) BY <3>2, <1>1
      <4>5. h[k] = h[k - 1] + Worth[u[k].type] BY <4>4, <1>4 DEF Sums
      <4>6. u[k] = s[k] BY <3>2, <1>1
      <4> QED BY <4>2, <4>3, <4>5, <4>6
    <3>3. CASE k \notin 0 .. m BY <3>3
    <3> QED BY <3>1, <3>2, <3>3, <1>1
  <2>2. Nat \subseteq T
    <3> HIDE DEF T
    <3> QED BY <2>1, SetInduction
  <2> QED BY <2>2, <1>1
<1>6. \A k \in 0 .. n : h[m + k] = f[m] + g[k]
  <2> DEFINE T == {k \in Nat : k \in 0 .. n => h[m + k] = f[m] + g[k]}
  <2>0. f[m] \in Nat BY <1>1, <1>2
  <2>1. ASSUME NEW k \in Nat, \A j \in 0 .. k - 1 : j \in T PROVE k \in T
    <3>1. CASE k = 0
      <4>1. h[m] = f[m] /\ g[0] = 0 BY <1>1, <1>3, <1>5 DEF Sums
      <4> QED BY <3>1, <4>1, <2>0, <1>1
    <3>2. CASE k \in 1 .. n
      <4>1. k - 1 \in T /\ k - 1 \in 0 .. n /\ k \in 0 .. n BY <3>2, <2>1, <1>1
      <4>2. h[m + (k - 1)] = f[m] + g[k - 1] BY <4>1
      <4>3. g[k] = g[k - 1] + Worth[t[k].type] BY <3>2, <1>3 DEF Sums, n
      <4>4. m + k \in 1 .. Len(u) /\ (m + k) - 1 = m + (k - 1) BY <3>2, <1>1
      <4>5. h[m + k] = h[m + (k - 1)] + Worth[u[m + k].type]
        BY <4>4, <1>4 DEF Sums
      <4>6. u[m + k] = t[k] BY <3>2, <1>1
      <4>7. Worth[t[k].type] \in Nat BY <3>2, WorthOfThings DEF n
      <4>8. g[k - 1] \in Nat BY <4>1, <1>3
      <4>9. h[m + k] = f[m] + g[k]
        BY <4>2, <4>3, <4>5, <4>6, <4>7, <4>8, <2>0
      <4> QED BY <4>9
    <3>3. CASE k \notin 0 .. n BY <3>3
    <3> QED BY <3>1, <3>2, <3>3, <1>1
  <2>2. Nat \subseteq T
    <3> HIDE DEF T
    <3> QED BY <2>1, SetInduction
  <2> QED BY <2>2, <1>1
<1>7. BagWorth(u) = f[m] + g[n]
  <2>1. n \in 0 .. n BY <1>1
  <2> QED BY <2>1, <1>1, <1>4, <1>6
<1>8. BagWorth(s) \in Nat BY <1>1, <1>2
<1> QED BY <1>2, <1>3, <1>7, <1>8 DEF u

\* Nothing is worth nothing.
LEMMA BagWorthOfNothing == BagWorth(<<>>) = 0
<1>1. <<>> \in Seq(Things) /\ Len(<<>>) = 0 OBVIOUS
<1>2. PICK f : Sums(f, <<>>) /\ BagWorth(<<>>) = f[Len(<<>>)] BY <1>1, BagWorthSums
<1> QED BY <1>1, <1>2 DEF Sums

\* A counter may be cut to its range before it is added to or after.
LEMMA CutBeforeAdding ==
    ASSUME NEW r \in Nat \ {0}, NEW x \in Nat, NEW y \in Nat
    PROVE  /\ ((x % r) + y) % r = (x + y) % r
           /\ x % r \in 0 .. r - 1
<1> DEFINE q == x \div r
           a == x % r
           p == (a + y) \div r
           b == (a + y) % r
           c == (x + y) \div r
           e == (x + y) % r
<1>0. \A v \in Nat : /\ v \div r \in Int /\ v % r \in 0 .. r - 1
                     /\ v = (r * (v \div r)) + (v % r)
  BY SMTT(60)
<1>1. q \in Int /\ a \in 0 .. r - 1 /\ x = r * q + a BY <1>0
<1>2. p \in Int /\ b \in 0 .. r - 1 /\ a + y = r * p + b BY <1>0, <1>1
<1>3. c \in Int /\ e \in 0 .. r - 1 /\ x + y = r * c + e BY <1>0
<1> HIDE DEF q, a, p, b, c, e
<1>4. r * (c - (q + p)) = b - e
  <2>1. r * (c - (q + p)) = r * c - r * q - r * p
    BY <1>1, <1>2, <1>3, SMTT(60)
  <2>2. r * c \in Int /\ r * q \in Int /\ r * p \in Int BY <1>1, <1>2, <1>3
  <2> QED BY <2>1, <2>2, <1>1, <1>2, <1>3
<1>5. c - (q + p) = 0
  <2> DEFINE z == c - (q + p)
  <2>1. z \in Int BY <1>1, <1>2, <1>3
  <2> HIDE DEF z
  <2>2. z >= 1 => r * z >= r BY <2>1, SMTT(60)
  <2>3. z <= -1 => r * z <= -r BY <2>1, SMTT(60)
  <2>4. r * z = b - e BY <1>4 DEF z
  <2> QED BY <2>1, <2>2, <2>3, <2>4, <1>2, <1>3 DEF z
<1>6. b = e 
  <2>1. r * 0 = 0 OBVIOUS
  <2> QED BY <2>1, <1>2, <1>3, <1>4, <1>5
<1> QED BY <1>1, <1>6 DEF a, b, e
-----------------------------------------------------------------------------
(* The books: what the session keeps of dogs and things, apart from where  *)
(* the dogs are.                                                           *)

Books ==
    /\ joined \subseteq Dogs
    /\ bag \in [Dogs -> Seq(Things)]
    /\ delivered \in [Dogs -> Seq(Things)]
    /\ score \in [Dogs -> 0 .. ScoreRange - 1]
    /\ counter \in 0 .. MaxThings
    /\ DOMAIN lost \subseteq 0 .. counter - 1
    /\ lost \in [DOMAIN lost -> [type : LootTypes, pos : Positions]]
    /\ quiet \in 0 .. TimeCap
    /\ inTick \in BOOLEAN
    /\ shift \in Nat

\* The locals of SetTimeShift: reset between ticks; during one, the length is
\* one of the lengths and there are ids for a thing for every dog.  Only dogs
\* of the session gather, and have gathered.
TickKept ==
    /\ ~inTick => shift = 0 /\ events = {}
    /\ inTick => shift \in TickLengths /\ counter + Cardinality(joined) <= MaxThings
    /\ \A e \in events : e.dog \in joined
    /\ \A d \in Dogs \ joined : bag[d] = <<>>

\* A thing that appeared is in one place, one that did not is in none.
OnePlace ==
    \A n \in ThingIds : IF n < counter THEN \E p : PlacesOf(n) = {p}
                                       ELSE PlacesOf(n) = {}

BooksInv == Books /\ TickKept /\ OnePlace /\ ScoreIsWorthDelivered

\* Dogs and things on the map are finitely many.
LEMMA FiniteBooks ==
    ASSUME Books
    PROVE  /\ IsFiniteSet(joined) /\ Cardinality(joined) \in Nat
           /\ Cardinality(joined) <= Cardinality(Dogs)
           /\ Cardinality(Dogs) \in Nat
           /\ IsFiniteSet(DOMAIN lost) /\ Cardinality(DOMAIN lost) \in Nat
<1>1. IsFiniteSet(Dogs) /\ joined \subseteq Dogs
  BY SessionAssumption DEF Books
<1>2. IsFiniteSet(joined) /\ Cardinality(joined) <= Cardinality(Dogs)
  BY <1>1, FS_Subset
<1>3. counter - 1 \in Int /\ DOMAIN lost \subseteq 0 .. counter - 1
  BY SessionAssumption DEF Books
<1>4. IsFiniteSet(DOMAIN lost)
  <2>1. IsFiniteSet(0 .. counter - 1) BY <1>3, FS_Interval
  <2> QED BY <1>3, <2>1, FS_Subset
<1> QED BY <1>1, <1>2, <1>4, FS_CardinalityType

\* The instance of the generator's module counts as this module does.
LEMMA GeneratorCounts ==
    ASSUME NEW S
    PROVE  Generator!Cardinality(S) = Cardinality(S)
BY DEF Generator!Cardinality, Cardinality, Generator!IsFiniteSet, IsFiniteSet

\* A call of the generator generates no more than the shortage.
LEMMA GeneratedIsWithinShortage ==
    ASSUME NEW time, NEW m \in Nat, NEW n \in Nat
    PROVE  /\ Generator!Generated(time, m, n) \in Nat
           /\ Generator!Generated(time, m, n) <= n
<1> DEFINE s == Generator!Shortage(m, n)
           G == {k \in 1 .. s :
                    Generator!Power(KeepNum, time) * Generator!Power(2 * s, BaseInterval)
                        <= Generator!Power(KeepDen, time)
                            * Generator!Power(2 * s - 2 * k + 1, BaseInterval)}
<1>1. s \in Nat /\ s <= n
  BY DEF Generator!Shortage
<1>2. IsFiniteSet(1 .. s) /\ Cardinality(1 .. s) = s
  <2> HIDE DEF s
  <2> QED BY <1>1, FS_Interval
<1>3. G \subseteq 1 .. s OBVIOUS
<1>4. IsFiniteSet(G) /\ Cardinality(G) <= s
  <2> HIDE DEF G, s
  <2> QED BY <1>2, <1>3, FS_Subset
<1>5. Cardinality(G) \in Nat BY <1>4, FS_CardinalityType
<1>6. Generator!Generated(time, m, n) = Generator!Cardinality(G)
  BY DEF Generator!Generated
<1> HIDE DEF G, s
<1> QED BY <1>1, <1>4, <1>5, <1>6, GeneratorCounts

LEMMA GenerationIsBounded ==
    ASSUME Books
    PROVE  LootToGeneration \in Nat /\ LootToGeneration <= Cardinality(joined)
BY FiniteBooks, GeneratedIsWithinShortage DEF LootToGeneration

\* Crossings are on the lattice.
LEMMA OnLatticeIsPosition ==
    ASSUME NEW c \in [Axes -> Int]
    PROVE  OnLattice(c) \in Positions
<1>1. \A a \in Axes : Unit * c[a] \in Int BY ScaleMonotone
<1> QED BY <1>1 DEF OnLattice, Positions

LEMMA CrossingsOnAreIntegers ==
    ASSUME NEW i \in RoadIds
    PROVE  CrossingsOn(i) \subseteq [Axes -> Int]
BY DirectedIsOrdered DEF CrossingsOn, Crossings, Axes

LEMMA LootSpotsArePositions == LootSpots \subseteq Positions
<1> SUFFICES ASSUME NEW i \in RoadIds, NEW c \in CrossingsOn(i)
             PROVE  OnLattice(c) \in Positions
  BY DEF LootSpots
<1> QED BY OnLatticeIsPosition, CrossingsOnAreIntegers

\* The new things of a tick, and where the old ones are.
LEMMA GenerationFacts ==
    ASSUME Books, TickKept, GenerateLostObjects
    PROVE  LET ids == counter .. counter + LootToGeneration - 1
           IN  /\ counter' = counter + LootToGeneration
               /\ counter' \in 0 .. MaxThings
               /\ ids \subseteq ThingIds
               /\ ids \cap DOMAIN lost = {}
               /\ DOMAIN lost' = (DOMAIN lost) \cup ids
               /\ \A k \in DOMAIN lost : lost'[k] = lost[k]
               /\ lost' \in [DOMAIN lost' -> [type : LootTypes, pos : Positions]]
               /\ (LootToGeneration = 0 => lost' = lost)
<1> DEFINE ids == counter .. counter + LootToGeneration - 1
           R == [type : LootTypes, pos : LootSpots]
<1>1. LootToGeneration \in Nat /\ LootToGeneration <= Cardinality(joined)
  BY GenerationIsBounded
<1>2. counter' = counter + LootToGeneration /\ inTick
  BY DEF GenerateLostObjects
<1>3. counter \in Nat /\ MaxThings \in Nat /\ Cardinality(joined) \in Nat
      /\ counter + Cardinality(joined) <= MaxThings
  <2>1. MaxThings \in Nat BY SessionAssumption
  <2>2. counter \in Nat BY <2>1 DEF Books
  <2> QED BY <1>2, <2>1, <2>2, FiniteBooks DEF TickKept
<1>4. counter' \in 0 .. MaxThings BY <1>1, <1>2, <1>3
<1>5. PICK new \in [ids -> R] :
          lost' = [k \in (DOMAIN lost) \cup ids |->
                        IF k \in ids THEN new[k] ELSE lost[k]]
  BY DEF GenerateLostObjects
<1>6. ids \subseteq ThingIds BY <1>1, <1>3 DEF ThingIds
<1>7. ids \cap DOMAIN lost = {} BY <1>1, <1>3 DEF Books
<1> HIDE DEF ids
<1>8. DOMAIN lost' = (DOMAIN lost) \cup ids BY <1>5
<1>9. \A k \in DOMAIN lost : lost'[k] = lost[k] BY <1>5, <1>7
<1>10. \A k \in ids : lost'[k] = new[k] BY <1>5
<1>11. ASSUME NEW k \in DOMAIN lost'
       PROVE  lost'[k] \in [type : LootTypes, pos : Positions]
  <2>1. CASE k \in ids
    BY <2>1, <1>10, LootSpotsArePositions
  <2>2. CASE k \in DOMAIN lost
    BY <2>2, <1>9 DEF Books
  <2> QED BY <2>1, <2>2, <1>8
<1>12. lost' \in [DOMAIN lost' -> [type : LootTypes, pos : Positions]]
  BY <1>5, <1>11
<1>13. ASSUME LootToGeneration = 0 PROVE lost' = lost
  <2>1. ids = {} BY <1>13, <1>3 DEF ids
  <2>2. lost = [k \in DOMAIN lost |-> lost[k]] BY DEF Books
  <2> QED BY <1>5, <2>1, <2>2
<1> QED BY <1>2, <1>4, <1>6, <1>7, <1>8, <1>9, <1>12, <1>13 DEF ids

\* The gatherers are dogs of the session.
LEMMA GatherersAreDogs ==
    ASSUME NEW moved, NEW e \in GatherEvents(moved)
    PROVE  e.dog \in joined
BY DEF GatherEvents

LEMMA BooksInitially == Init => Books /\ TickKept
<1> SUFFICES ASSUME Init PROVE Books /\ TickKept
  OBVIOUS
<1> USE DEF Init
<1>1. DOMAIN lost = {}
  OBVIOUS
<1>2. lost \in [DOMAIN lost -> [type : LootTypes, pos : Positions]]
  BY <1>1
<1>3. /\ ScoreRange \in Nat \ {0} /\ MaxThings \in Nat /\ TimeCap \in Nat
  BY SessionAssumption
<1>4. /\ bag \in [Dogs -> Seq(Things)] /\ delivered \in [Dogs -> Seq(Things)]
  OBVIOUS
<1>5. score \in [Dogs -> 0 .. ScoreRange - 1]
  BY <1>3
<1>6. Books
  <2>1. joined \subseteq Dogs /\ counter \in 0 .. MaxThings /\ quiet \in 0 .. TimeCap
    BY <1>3
  <2>2. inTick \in BOOLEAN /\ shift \in Nat
    OBVIOUS
  <2>3. DOMAIN lost \subseteq 0 .. counter - 1
    BY <1>1
  <2> QED BY <1>2, <1>4, <1>5, <2>1, <2>2, <2>3, Zenon DEF Books
<1>7. TickKept
  BY DEF TickKept
<1> QED BY <1>6, <1>7

\* What an event of a tick finds: a dog of the session and its bag.
LEMMA EventFacts ==
    ASSUME Books, TickKept, NEW e \in events
    PROVE  /\ e.dog \in joined /\ e.dog \in Dogs
           /\ bag[e.dog] \in Seq(Things) /\ delivered[e.dog] \in Seq(Things)
           /\ score[e.dog] \in 0 .. ScoreRange - 1
           /\ inTick
BY DEF Books, TickKept

\* What a thing taken from the map becomes in a bag.
LEMMA TakenIsAThing ==
    ASSUME Books, NEW n \in DOMAIN lost
    PROVE  /\ n \in ThingIds /\ n < counter
           /\ [id |-> n, type |-> lost[n].type] \in Things
<1>1. counter \in 0 .. MaxThings /\ MaxThings \in Nat /\ n \in 0 .. counter - 1
  BY SessionAssumption DEF Books
<1>2. n \in ThingIds /\ n < counter BY <1>1 DEF ThingIds
<1>3. lost[n].type \in LootTypes BY DEF Books
<1> QED BY <1>2, <1>3 DEF Things

LEMMA BooksKept ==
    ASSUME Books, TickKept, [Next]_vars
    PROVE  Books' /\ TickKept'
<1>1. ASSUME NEW d \in Dogs, AddDog(d) PROVE Books' /\ TickKept'
  <2>1. /\ ~inTick /\ d \notin joined /\ joined' = joined \cup {d}
        /\ UNCHANGED <<bag, score, lost, counter, quiet, inTick, shift, from,
                       events, delivered>>
    BY <1>1 DEF AddDog, lootVars, tickVars
  <2>2. Books' BY <2>1 DEF Books
  <2>3. TickKept' BY <2>1 DEF TickKept
  <2> QED BY <2>2, <2>3
<1>2. ASSUME NEW d \in Dogs, NEW c \in Commands, SetMovementParameters(d, c)
      PROVE  Books' /\ TickKept'
  <2>1. UNCHANGED <<joined, bag, score, lost, counter, quiet, inTick, shift,
                    from, events, delivered>>
    BY <1>2 DEF SetMovementParameters, lootVars, tickVars
  <2> QED BY <2>1 DEF Books, TickKept
<1>3. ASSUME NEW s \in TickLengths, BeginTick(s) PROVE Books' /\ TickKept'
  <2>1. /\ UNCHANGED <<joined, bag, score, lost, counter, quiet, delivered>>
        /\ inTick' = TRUE /\ shift' = s
        /\ counter + Cardinality(joined) <= MaxThings
        /\ \E moved : events' = GatherEvents(moved)
    BY <1>3 DEF BeginTick, lootVars
  <2>2. s \in Nat BY SessionAssumption
  <2>3. Books' BY <2>1, <2>2 DEF Books
  <2>4. \A e \in events' : e.dog \in joined' BY <2>1, GatherersAreDogs
  <2>5. TickKept' BY <2>1, <2>4 DEF TickKept
  <2> QED BY <2>3, <2>5
<1>4. ASSUME NEW e \in events, VisitOffice(e) PROVE Books' /\ TickKept'
  <2>1. /\ UNCHANGED <<joined, lost, counter, quiet, inTick, shift>>
        /\ score' = [score EXCEPT ![e.dog] = ScoreAfter(e.dog)]
        /\ bag' = [bag EXCEPT ![e.dog] = <<>>]
        /\ delivered' = [delivered EXCEPT ![e.dog] = @ \o bag[e.dog]]
        /\ events' = events \ {e}
    BY <1>4 DEF VisitOffice, dogVars, lootVars, Emptied
  <2>2. ScoreAfter(e.dog) \in 0 .. ScoreRange - 1
    <3>1. score[e.dog] \in Nat /\ BagWorth(bag[e.dog]) \in Nat
      BY EventFacts, BagWorthOfBoth, SessionAssumption
    <3>2. ScoreRange \in Nat \ {0} BY SessionAssumption
    <3>3. score[e.dog] + BagWorth(bag[e.dog]) \in Nat BY <3>1
    <3> QED BY <3>2, <3>3, CutBeforeAdding DEF ScoreAfter
  <2>3. delivered[e.dog] \o bag[e.dog] \in Seq(Things)
    <3> DEFINE T == Things
    <3>1. delivered[e.dog] \in Seq(T) /\ bag[e.dog] \in Seq(T) BY EventFacts
    <3> HIDE DEF T
    <3>2. delivered[e.dog] \o bag[e.dog] \in Seq(T) BY <3>1
    <3> QED BY <3>2 DEF T
  <2>4. /\ score' \in [Dogs -> 0 .. ScoreRange - 1]
        /\ bag' \in [Dogs -> Seq(Things)]
        /\ delivered' \in [Dogs -> Seq(Things)]
    <3>1. <<>> \in Seq(Things) OBVIOUS
    <3> QED BY <2>1, <2>2, <2>3, <3>1 DEF Books
  <2>5. Books' BY <2>1, <2>4 DEF Books
  <2>6. TickKept' BY <2>1, EventFacts DEF TickKept, Books
  <2> QED BY <2>5, <2>6
<1>5. ASSUME NEW e \in events, TakeLoot(e) PROVE Books' /\ TickKept'
  <2> DEFINE thing == [id |-> e.id, type |-> lost[e.id].type]
  <2>1. /\ UNCHANGED <<joined, score, counter, quiet, inTick, shift, delivered>>
        /\ bag' = [bag EXCEPT ![e.dog] = Append(@, thing)]
        /\ lost' = [k \in (DOMAIN lost) \ {e.id} |-> lost[k]]
        /\ events' = events \ {e}
        /\ e.id \in DOMAIN lost
    BY <1>5 DEF TakeLoot, dogVars, Without
  <2>2. thing \in Things BY <2>1, TakenIsAThing
  <2> HIDE DEF thing
  <2>3. Append(bag[e.dog], thing) \in Seq(Things)
    <3> DEFINE T == Things
    <3>1. bag[e.dog] \in Seq(T) /\ thing \in T BY <2>2, EventFacts
    <3> HIDE DEF T
    <3>2. Append(bag[e.dog], thing) \in Seq(T) BY <3>1
    <3> QED BY <3>2 DEF T
  <2>4. bag' \in [Dogs -> Seq(Things)] BY <2>1, <2>3 DEF Books
  <2>5. /\ DOMAIN lost' \subseteq 0 .. counter - 1
        /\ lost' \in [DOMAIN lost' -> [type : LootTypes, pos : Positions]]
    BY <2>1 DEF Books
  <2>6. Books' BY <2>1, <2>4, <2>5 DEF Books
  <2>7. TickKept' BY <2>1, EventFacts DEF TickKept, Books
  <2> QED BY <2>6, <2>7
<1>6. ASSUME NEW e \in events, FindLootTaken(e) PROVE Books' /\ TickKept'
  <2>1. /\ UNCHANGED <<joined, bag, score, lost, counter, quiet, inTick, shift,
                       delivered>>
        /\ events' = events \ {e}
    BY <1>6 DEF FindLootTaken, dogVars, lootVars
  <2>2. Books' BY <2>1 DEF Books
  <2>3. TickKept' BY <2>1, EventFacts DEF TickKept
  <2> QED BY <2>2, <2>3
<1>7. CASE GenerateLostObjects
  <2>1. /\ UNCHANGED <<joined, bag, score, events, delivered>>
        /\ quiet' \in {0, QuietTime} /\ inTick' = FALSE /\ shift' = 0
        /\ events = {}
    BY <1>7 DEF GenerateLostObjects, dogVars
  <2>2. quiet' \in 0 .. TimeCap
    <3>1. TimeCap \in Nat /\ quiet \in Nat /\ shift \in Nat
          /\ QuantaPerSecond \in Nat \ {0}
      BY SessionAssumption DEF Books
    <3>2. shift \div QuantaPerSecond \in Nat BY <3>1, SMTT(30)
    <3> QED BY <2>1, <3>1, <3>2 DEF QuietTime, TimeDelta, Generator!After
  <2>3. /\ counter' \in 0 .. MaxThings
        /\ DOMAIN lost' \subseteq 0 .. counter' - 1
        /\ lost' \in [DOMAIN lost' -> [type : LootTypes, pos : Positions]]
    <3>1. /\ counter' = counter + LootToGeneration /\ counter' \in 0 .. MaxThings
          /\ DOMAIN lost' = (DOMAIN lost) \cup (counter .. counter + LootToGeneration - 1)
          /\ lost' \in [DOMAIN lost' -> [type : LootTypes, pos : Positions]]
      BY <1>7, GenerationFacts
    <3>2. LootToGeneration \in Nat BY GenerationIsBounded
    <3>3. counter \in Nat /\ DOMAIN lost \subseteq 0 .. counter - 1 BY DEF Books
    <3> QED BY <3>1, <3>2, <3>3
  <2>4. Books' BY <2>1, <2>2, <2>3 DEF Books
  <2>5. TickKept' BY <2>1 DEF TickKept
  <2> QED BY <2>4, <2>5
<1>8. CASE UNCHANGED vars
  BY <1>8 DEF vars, Books, TickKept
<1> QED BY <1>1, <1>2, <1>3, <1>4, <1>5, <1>6, <1>7, <1>8 DEF Next
-----------------------------------------------------------------------------
(* Where things are.                                                       *)

InBag(n, d, k) == d \in Dogs /\ k \in DOMAIN bag[d] /\ bag[d][k].id = n
AtOffice(n, d, k) ==
    d \in Dogs /\ k \in DOMAIN delivered[d] /\ delivered[d][k].id = n

LEMMA PlacesAre ==
    ASSUME NEW n, NEW p
    PROVE  p \in PlacesOf(n) <=>
             \/ p = <<"map">> /\ n \in DOMAIN lost
             \/ \E d, k : p = <<"bag", d, k>> /\ InBag(n, d, k)
             \/ \E d, k : p = <<"office", d, k>> /\ AtOffice(n, d, k)
BY DEF PlacesOf, InBag, AtOffice

LEMMA PlacesAreNext ==
    ASSUME NEW n, NEW p
    PROVE  p \in PlacesOf(n)' <=>
             \/ p = <<"map">> /\ n \in DOMAIN lost'
             \/ \E d, k : p = <<"bag", d, k>> /\ InBag(n, d, k)'
             \/ \E d, k : p = <<"office", d, k>> /\ AtOffice(n, d, k)'
BY DEF PlacesOf, InBag, AtOffice

LEMMA PlacesDiffer ==
    ASSUME NEW d, NEW k, NEW c, NEW j
    PROVE  /\ <<"map">> # <<"bag", d, k>> /\ <<"map">> # <<"office", d, k>>
           /\ <<"bag", d, k>> # <<"office", c, j>>
           /\ <<"bag", d, k>> = <<"bag", c, j>> => d = c /\ k = j
           /\ <<"office", d, k>> = <<"office", c, j>> => d = c /\ k = j
OBVIOUS

\* What is somewhere has its place there.
LEMMA PlacesHold ==
    ASSUME NEW n
    PROVE  /\ n \in DOMAIN lost => <<"map">> \in PlacesOf(n)
           /\ \A d, k : InBag(n, d, k) => <<"bag", d, k>> \in PlacesOf(n)
           /\ \A d, k : AtOffice(n, d, k) => <<"office", d, k>> \in PlacesOf(n)
BY PlacesAre

\* One sequence after the other.
LEMMA OneAfterTheOther ==
    ASSUME NEW T, NEW s \in Seq(T), NEW t \in Seq(T)
    PROVE  /\ Len(s) \in Nat /\ Len(t) \in Nat
           /\ DOMAIN s = 1 .. Len(s) /\ DOMAIN t = 1 .. Len(t)
           /\ DOMAIN (s \o t) = 1 .. Len(s) + Len(t)
           /\ \A k \in 1 .. Len(s) : (s \o t)[k] = s[k]
           /\ \A k \in 1 .. Len(t) : (s \o t)[Len(s) + k] = t[k]
<1>1. s \o t \in Seq(T) /\ Len(s \o t) = Len(s) + Len(t)
  OBVIOUS
<1>2. Len(s) \in Nat /\ Len(t) \in Nat
  OBVIOUS
<1>3. DOMAIN s = 1 .. Len(s) /\ DOMAIN t = 1 .. Len(t)
  OBVIOUS
<1>4. DOMAIN (s \o t) = 1 .. Len(s) + Len(t)
  BY <1>1
<1>5. \A k \in 1 .. Len(s) : (s \o t)[k] = s[k]
  OBVIOUS
<1>6. \A k \in 1 .. Len(t) : (s \o t)[Len(s) + k] = t[k]
  OBVIOUS
<1> QED BY <1>2, <1>3, <1>4, <1>5, <1>6

\* A thing that lies on the map is nowhere else.
LEMMA LyingIsOnlyThere ==
    ASSUME Books, OnePlace, NEW n \in DOMAIN lost
    PROVE  \A d, k : ~InBag(n, d, k) /\ ~AtOffice(n, d, k)
<1>1. n \in ThingIds /\ n < counter BY TakenIsAThing
<1>2. PICK p : PlacesOf(n) = {p} BY <1>1 DEF OnePlace
<1>3. <<"map">> \in PlacesOf(n) BY PlacesAre
<1>4. ASSUME NEW d, NEW k, InBag(n, d, k) \/ AtOffice(n, d, k) PROVE FALSE
  <2>1. <<"bag", d, k>> \in PlacesOf(n) \/ <<"office", d, k>> \in PlacesOf(n)
    BY <1>4, PlacesAre
  <2> QED BY <1>2, <1>3, <2>1, PlacesDiffer
<1> QED BY <1>4

\* A thing that did not appear yet is nowhere.
LEMMA UnknownIsNowhere ==
    ASSUME OnePlace, NEW n \in ThingIds, ~(n < counter)
    PROVE  n \notin DOMAIN lost /\ \A d, k : ~InBag(n, d, k) /\ ~AtOffice(n, d, k)
<1>1. PlacesOf(n) = {} BY DEF OnePlace
<1> QED BY <1>1, PlacesAre

LEMMA OnePlaceKept ==
    ASSUME Books, TickKept, OnePlace, [Next]_vars
    PROVE  OnePlace'
<1> SUFFICES ASSUME NEW n \in ThingIds
             PROVE  IF n < counter' THEN \E p : PlacesOf(n)' = {p}
                                    ELSE PlacesOf(n)' = {}
  BY DEF OnePlace
<1>0. IF n < counter THEN \E p : PlacesOf(n) = {p} ELSE PlacesOf(n) = {}
  BY DEF OnePlace
<1>1. CASE UNCHANGED <<lost, bag, delivered, counter>>
  <2>1. PlacesOf(n)' = PlacesOf(n) BY <1>1 DEF PlacesOf
  <2> QED BY <2>1, <1>0, <1>1
<1>2. ASSUME NEW e \in events, VisitOffice(e)
      PROVE  IF n < counter' THEN \E p : PlacesOf(n)' = {p}
                             ELSE PlacesOf(n)' = {}
  <2> DEFINE D == e.dog
             L == Len(delivered[D])
  <2>1. /\ lost' = lost /\ counter' = counter
        /\ bag' = [bag EXCEPT ![D] = <<>>]
        /\ delivered' = [delivered EXCEPT ![D] = @ \o bag[D]]
    BY <1>2 DEF VisitOffice, lootVars, Emptied
  <2>2. D \in Dogs /\ bag[D] \in Seq(Things) /\ delivered[D] \in Seq(Things)
    BY EventFacts
  <2>3. /\ L \in Nat /\ Len(bag[D]) \in Nat
        /\ DOMAIN delivered[D] = 1 .. L /\ DOMAIN bag[D] = 1 .. Len(bag[D])
        /\ DOMAIN (delivered[D] \o bag[D]) = 1 .. L + Len(bag[D])
        /\ \A k \in 1 .. L : (delivered[D] \o bag[D])[k] = delivered[D][k]
        /\ \A k \in 1 .. Len(bag[D]) : (delivered[D] \o bag[D])[L + k] = bag[D][k]
    <3> DEFINE s == delivered[D]
               t == bag[D]
    <3>1. s \in Seq(Things) /\ t \in Seq(Things) BY <2>2
    <3> HIDE DEF s, t
    <3>2. /\ Len(s) \in Nat /\ Len(t) \in Nat
          /\ DOMAIN s = 1 .. Len(s) /\ DOMAIN t = 1 .. Len(t)
          /\ DOMAIN (s \o t) = 1 .. Len(s) + Len(t)
          /\ \A k \in 1 .. Len(s) : (s \o t)[k] = s[k]
          /\ \A k \in 1 .. Len(t) : (s \o t)[Len(s) + k] = t[k]
      BY <3>1, OneAfterTheOther
    <3> QED BY <3>2 DEF s, t
  <2>4. /\ bag'[D] = <<>> /\ delivered'[D] = delivered[D] \o bag[D]
        /\ \A d \in Dogs : d # D => bag'[d] = bag[d] /\ delivered'[d] = delivered[d]
    BY <2>1, <2>2 DEF Books
  <2> HIDE DEF D, L
  <2>5. ASSUME NEW d, NEW k
        PROVE  InBag(n, d, k)' <=> InBag(n, d, k) /\ d # D
    BY <2>4, <2>2 DEF InBag
  <2>6. ASSUME NEW d, NEW k
        PROVE  AtOffice(n, d, k)' <=>
                 \/ AtOffice(n, d, k)
                 \/ d = D /\ \E j : InBag(n, D, j) /\ k = L + j
    <3>1. CASE d # D
      <4>1. AtOffice(n, d, k)' <=> AtOffice(n, d, k) BY <3>1, <2>4 DEF AtOffice
      <4> QED BY <3>1, <4>1, Zenon
    <3>2. CASE d = D
      <4>1. AtOffice(n, D, k)' <=> /\ k \in 1 .. L + Len(bag[D])
                                   /\ (delivered[D] \o bag[D])[k].id = n
        BY <2>2, <2>3, <2>4 DEF AtOffice
      <4>2. AtOffice(n, D, k) <=> k \in 1 .. L /\ delivered[D][k].id = n
        BY <2>2, <2>3 DEF AtOffice
      <4>3. \A j : InBag(n, D, j) <=> j \in 1 .. Len(bag[D]) /\ bag[D][j].id = n
        BY <2>2, <2>3 DEF InBag
      <4>4. CASE AtOffice(n, D, k)'
        <5>1. CASE k \in 1 .. L BY <5>1, <4>1, <4>2, <4>4, <2>3, <3>2
        <5>2. CASE k \notin 1 .. L
          <6> DEFINE j == k - L
          <6>1. j \in 1 .. Len(bag[D]) /\ k = L + j BY <5>2, <4>1, <4>4, <2>3
          <6>2. bag[D][j].id = n BY <6>1, <4>1, <4>4, <2>3
          <6> HIDE DEF j
          <6> QED BY <6>1, <6>2, <4>3, <4>4, <3>2
        <5> QED BY <5>1, <5>2
      <4>5. CASE AtOffice(n, D, k)
        <5>1. k \in 1 .. L /\ k \in 1 .. L + Len(bag[D]) BY <4>2, <4>5, <2>3
        <5> QED BY <5>1, <4>1, <4>2, <4>5, <2>3, <3>2
      <4>6. ASSUME NEW j, InBag(n, D, j), k = L + j PROVE AtOffice(n, D, k)'
        <5>1. j \in 1 .. Len(bag[D]) /\ bag[D][j].id = n BY <4>3, <4>6
        <5>2. L + j \in 1 .. L + Len(bag[D]) BY <5>1, <2>3
        <5> QED BY <5>1, <5>2, <4>1, <4>6, <2>3
      <4> QED BY <3>2, <4>4, <4>5, <4>6
    <3> QED BY <3>1, <3>2
  <2>7. CASE n < counter
    <3>1. PICK p : PlacesOf(n) = {p} BY <2>7, <1>0
    <3>2. CASE p = <<"map">> /\ n \in DOMAIN lost
      <4>1. \A d, k : ~InBag(n, d, k) /\ ~AtOffice(n, d, k)
        BY <3>2, LyingIsOnlyThere
      <4>2. \A q : q \in PlacesOf(n)' <=> q = <<"map">>
        BY <4>1, <2>1, <2>5, <2>6, <3>2, PlacesAreNext
      <4>3. PlacesOf(n)' = {<<"map">>} BY <4>2
      <4> QED BY <4>3, <2>1, <2>7
    <3>3. ASSUME NEW d, NEW k, p = <<"bag", d, k>>, InBag(n, d, k), d # D
          PROVE  PlacesOf(n)' = {p}
      <4>1. /\ n \notin DOMAIN lost
            /\ \A c, j : ~AtOffice(n, c, j)
            /\ \A c, j : InBag(n, c, j) => <<"bag", c, j>> = p
        BY <3>1, <3>3, PlacesHold, PlacesDiffer
      <4>2. \A c, j : ~AtOffice(n, c, j)'
        BY <4>1, <3>3, <2>6, PlacesDiffer
      <4>3. \A q : q \in PlacesOf(n)' => q = p
        BY <4>1, <4>2, <2>1, <2>5, PlacesAreNext
      <4>4. p \in PlacesOf(n)' BY <3>3, <2>5, PlacesAreNext
      <4> QED BY <4>3, <4>4
    <3>4. ASSUME NEW k, p = <<"bag", D, k>>, InBag(n, D, k)
          PROVE  PlacesOf(n)' = {<<"office", D, L + k>>}
      <4>1. /\ n \notin DOMAIN lost
            /\ \A c, j : ~AtOffice(n, c, j)
            /\ \A c, j : InBag(n, c, j) => c = D /\ j = k
        <5>1. /\ n \notin DOMAIN lost
              /\ \A c, j : ~AtOffice(n, c, j)
              /\ \A c, j : InBag(n, c, j) => <<"bag", c, j>> = <<"bag", D, k>>
          BY <3>1, <3>4, PlacesHold, PlacesDiffer
        <5> QED BY <5>1, PlacesDiffer
      <4>2. \A c, j : ~InBag(n, c, j)' BY <4>1, <2>5
      <4>3. \A c, j : AtOffice(n, c, j)' <=> c = D /\ j = L + k
        BY <4>1, <3>4, <2>6
      <4>4. \A q : q \in PlacesOf(n)' <=> q = <<"office", D, L + k>>
        BY <4>1, <4>2, <4>3, <2>1, PlacesAreNext
      <4> QED BY <4>4
    <3>5. ASSUME NEW d, NEW k, p = <<"office", d, k>>, AtOffice(n, d, k)
          PROVE  PlacesOf(n)' = {p}
      <4>1. /\ n \notin DOMAIN lost
            /\ \A c, j : ~InBag(n, c, j)
            /\ \A c, j : AtOffice(n, c, j) => <<"office", c, j>> = p
        BY <3>1, <3>5, PlacesHold, PlacesDiffer
      <4>2. \A c, j : ~InBag(n, c, j)' BY <4>1, <2>5
      <4>3. \A c, j : AtOffice(n, c, j)' <=> AtOffice(n, c, j)
        BY <4>1, <2>6
      <4>4. \A q : q \in PlacesOf(n)' <=> q = p
        BY <3>5, <4>1, <4>2, <4>3, <2>1, PlacesAreNext
      <4> QED BY <4>4
    <3>6. \/ p = <<"map">> /\ n \in DOMAIN lost
          \/ \E d, k : p = <<"bag", d, k>> /\ InBag(n, d, k)
          \/ \E d, k : p = <<"office", d, k>> /\ AtOffice(n, d, k)
      <4>1. p \in PlacesOf(n) BY <3>1
      <4> QED BY <4>1, PlacesAre
    <3>7. \E q : PlacesOf(n)' = {q}
      <4>1. CASE \E d, k : p = <<"bag", d, k>> /\ InBag(n, d, k)
        BY <4>1, <3>3, <3>4
      <4>2. CASE \E d, k : p = <<"office", d, k>> /\ AtOffice(n, d, k)
        BY <4>2, <3>5
      <4>3. CASE p = <<"map">> /\ n \in DOMAIN lost
        BY <4>3, <3>2, <2>1, <2>7
      <4> QED BY <3>6, <4>1, <4>2, <4>3
    <3> QED BY <3>7, <2>1, <2>7
  <2>8. CASE ~(n < counter)
    <3>1. n \notin DOMAIN lost /\ \A d, k : ~InBag(n, d, k) /\ ~AtOffice(n, d, k)
      BY <2>8, UnknownIsNowhere
    <3>2. \A q : q \notin PlacesOf(n)'
      BY <3>1, <2>1, <2>5, <2>6, PlacesAreNext
    <3> QED BY <3>2, <2>1, <2>8
  <2> QED BY <2>7, <2>8
<1>3. ASSUME NEW e \in events, TakeLoot(e)
      PROVE  IF n < counter' THEN \E p : PlacesOf(n)' = {p}
                             ELSE PlacesOf(n)' = {}
  <2> DEFINE D == e.dog
             thing == [id |-> e.id, type |-> lost[e.id].type]
             L == Len(bag[D])
  <2>1. /\ delivered' = delivered /\ counter' = counter
        /\ bag' = [bag EXCEPT ![D] = Append(@, thing)]
        /\ DOMAIN lost' = (DOMAIN lost) \ {e.id}
        /\ e.id \in DOMAIN lost
    BY <1>3 DEF TakeLoot, dogVars, Without
  <2>2. D \in Dogs /\ bag[D] \in Seq(Things) /\ thing \in Things
    BY <2>1, EventFacts, TakenIsAThing
  <2>3. /\ L \in Nat
        /\ DOMAIN bag[D] = 1 .. L /\ DOMAIN Append(bag[D], thing) = 1 .. L + 1
        /\ \A k \in 1 .. L : Append(bag[D], thing)[k] = bag[D][k]
        /\ Append(bag[D], thing)[L + 1] = thing
    <3> DEFINE T == Things
    <3>1. bag[D] \in Seq(T) /\ thing \in T BY <2>2
    <3> HIDE DEF T, D, thing
    <3> QED BY <3>1
  <2>4. /\ bag'[D] = Append(bag[D], thing)
        /\ \A d \in Dogs : d # D => bag'[d] = bag[d]
    BY <2>1, <2>2 DEF Books
  <2>5. thing.id = e.id OBVIOUS
  <2> HIDE DEF D, L, thing
  <2>6. ASSUME NEW d, NEW k
        PROVE  InBag(n, d, k)' <=> \/ InBag(n, d, k)
                                   \/ n = e.id /\ d = D /\ k = L + 1
    <3>1. CASE d # D BY <3>1, <2>4 DEF InBag
    <3>2. CASE d = D
      <4>1. InBag(n, D, k)' <=> k \in 1 .. L + 1 /\ Append(bag[D], thing)[k].id = n
        BY <2>2, <2>3, <2>4 DEF InBag
      <4>2. InBag(n, D, k) <=> k \in 1 .. L /\ bag[D][k].id = n
        BY <2>2, <2>3 DEF InBag
      <4>3. k \in 1 .. L + 1 <=> k \in 1 .. L \/ k = L + 1 BY <2>3
      <4>4. ~(L + 1 \in 1 .. L) BY <2>3
      <4> QED BY <3>2, <4>1, <4>2, <4>3, <4>4, <2>3, <2>5
    <3> QED BY <3>1, <3>2
  <2>7. \A d, k : AtOffice(n, d, k)' <=> AtOffice(n, d, k)
    BY <2>1 DEF AtOffice
  <2>8. CASE n # e.id
    <3>1. \A q : q \in PlacesOf(n)' <=> q \in PlacesOf(n)
      BY <2>1, <2>6, <2>7, <2>8, PlacesAre, PlacesAreNext
    <3>2. PlacesOf(n)' = PlacesOf(n) BY <3>1
    <3> QED BY <3>2, <1>0, <2>1
  <2>9. CASE n = e.id
    <3>1. n < counter /\ \A d, k : ~InBag(n, d, k) /\ ~AtOffice(n, d, k)
      BY <2>1, <2>9, TakenIsAThing, LyingIsOnlyThere
    <3>2. n \notin DOMAIN lost' BY <2>1, <2>9
    <3>3. \A q : q \in PlacesOf(n)' <=> q = <<"bag", D, L + 1>>
      BY <3>1, <3>2, <2>6, <2>7, <2>9, PlacesAreNext
    <3>4. PlacesOf(n)' = {<<"bag", D, L + 1>>} BY <3>3
    <3> QED BY <3>1, <3>4, <2>1
  <2> QED BY <2>8, <2>9
<1>4. CASE GenerateLostObjects
  <2> DEFINE ids == counter .. counter + LootToGeneration - 1
  <2>1. /\ bag' = bag /\ delivered' = delivered
        /\ counter' = counter + LootToGeneration
        /\ DOMAIN lost' = (DOMAIN lost) \cup ids
        /\ LootToGeneration \in Nat /\ counter \in Nat /\ n \in Nat
    BY <1>4, GenerationFacts, GenerationIsBounded
       DEF GenerateLostObjects, Books, ThingIds
  <2>2. \A d, k : /\ InBag(n, d, k)' <=> InBag(n, d, k)
                  /\ AtOffice(n, d, k)' <=> AtOffice(n, d, k)
    BY <2>1 DEF InBag, AtOffice
  <2>3. CASE n \notin ids
    <3>1. \A q : q \in PlacesOf(n)' <=> q \in PlacesOf(n)
      <4> HIDE DEF ids
      <4> QED BY <2>1, <2>2, <2>3, PlacesAre, PlacesAreNext
    <3>2. PlacesOf(n)' = PlacesOf(n) BY <3>1
    <3>3. n < counter' <=> n < counter BY <2>1, <2>3
    <3> QED BY <3>2, <3>3, <1>0
  <2>4. CASE n \in ids
    <3>1. ~(n < counter) /\ n < counter' BY <2>1, <2>4
    <3>2. \A d, k : ~InBag(n, d, k) /\ ~AtOffice(n, d, k)
      BY <3>1, UnknownIsNowhere
    <3>3. \A q : q \in PlacesOf(n)' <=> q = <<"map">>
      <4> HIDE DEF ids
      <4> QED BY <3>2, <2>1, <2>2, <2>4, PlacesAreNext
    <3>4. PlacesOf(n)' = {<<"map">>} BY <3>3
    <3> QED BY <3>1, <3>4
  <2> QED BY <2>3, <2>4
<1>5. CASE \E d \in Dogs : AddDog(d) \/ \E c \in Commands : SetMovementParameters(d, c)
  BY <1>5, <1>1 DEF AddDog, SetMovementParameters, lootVars
<1>6. CASE \E s \in TickLengths : BeginTick(s)
  BY <1>6, <1>1 DEF BeginTick, lootVars
<1>7. CASE \E e \in events : FindLootTaken(e)
  BY <1>7, <1>1 DEF FindLootTaken, lootVars
<1>8. CASE UNCHANGED vars
  BY <1>8, <1>1 DEF vars
<1> QED BY <1>2, <1>3, <1>4, <1>5, <1>6, <1>7, <1>8 DEF Next

\* A thing in one place is counted as one.
LEMMA OnePlaceIsCounted == OnePlace => LootLivesOnce
<1> SUFFICES ASSUME OnePlace, NEW n \in ThingIds
             PROVE  Cardinality(PlacesOf(n)) = IF n < counter THEN 1 ELSE 0
  BY DEF LootLivesOnce
<1>1. CASE n < counter
  <2>1. PICK p : PlacesOf(n) = {p} BY <1>1 DEF OnePlace
  <2> QED BY <1>1, <2>1, FS_Singleton
<1>2. CASE ~(n < counter)
  <2>1. PlacesOf(n) = {} BY <1>2 DEF OnePlace
  <2> QED BY <1>2, <2>1, FS_EmptySet
<1> QED BY <1>1, <1>2

\* A visit adds the worth of the bag to the score and the bag to the deliveries.
LEMMA ScoreKept ==
    ASSUME Books, TickKept, ScoreIsWorthDelivered, [Next]_vars
    PROVE  ScoreIsWorthDelivered'
<1>1. CASE UNCHANGED <<score, delivered>>
  BY <1>1 DEF ScoreIsWorthDelivered
<1>2. ASSUME NEW e \in events, VisitOffice(e) PROVE ScoreIsWorthDelivered'
  <2>1. /\ score' = [score EXCEPT ![e.dog] = ScoreAfter(e.dog)]
        /\ delivered' = [delivered EXCEPT ![e.dog] = @ \o bag[e.dog]]
    BY <1>2 DEF VisitOffice
  <2>2. /\ e.dog \in Dogs /\ bag[e.dog] \in Seq(Things)
        /\ delivered[e.dog] \in Seq(Things)
    BY EventFacts
  <2> DEFINE old == BagWorth(delivered[e.dog])
             new == BagWorth(bag[e.dog])
  <2>3. /\ old \in Nat /\ new \in Nat
        /\ BagWorth(delivered[e.dog] \o bag[e.dog]) = old + new
    BY <2>2, BagWorthOfBoth
  <2>4. score[e.dog] = old % ScoreRange
    BY <2>2 DEF ScoreIsWorthDelivered
  <2>5. ScoreAfter(e.dog) = (old + new) % ScoreRange
    <3>1. ScoreRange \in Nat \ {0} BY SessionAssumption
    <3>2. ScoreAfter(e.dog) = ((old % ScoreRange) + new) % ScoreRange
      BY <2>4 DEF ScoreAfter
    <3> HIDE DEF old, new
    <3> QED BY <2>3, <3>1, <3>2, CutBeforeAdding
  <2> HIDE DEF old, new
  <2>6. ASSUME NEW d \in Dogs
        PROVE  score'[d] = BagWorth(delivered'[d]) % ScoreRange
    <3>1. CASE d = e.dog
      <4>1. score'[d] = ScoreAfter(e.dog) BY <3>1, <2>1 DEF Books
      <4>2. delivered'[d] = delivered[e.dog] \o bag[e.dog]
        BY <3>1, <2>1 DEF Books
      <4> QED BY <4>1, <4>2, <2>3, <2>5
    <3>2. CASE d # e.dog
      <4>1. score'[d] = score[d] /\ delivered'[d] = delivered[d]
        BY <3>2, <2>1 DEF Books
      <4> QED BY <4>1 DEF ScoreIsWorthDelivered
    <3> QED BY <3>1, <3>2
  <2>7. \A d \in Dogs : BagWorth(delivered'[d]) = BagWorth(delivered[d])'
    BY DEF BagWorth
  <2> QED BY <2>6 DEF ScoreIsWorthDelivered
<1>3. CASE \/ \E d \in Dogs : AddDog(d) \/ \E c \in Commands : SetMovementParameters(d, c)
           \/ \E s \in TickLengths : BeginTick(s)
           \/ \E e \in events : TakeLoot(e) \/ FindLootTaken(e)
           \/ GenerateLostObjects \/ UNCHANGED vars
  BY <1>3, <1>1 DEF AddDog, SetMovementParameters, BeginTick, TakeLoot,
       FindLootTaken, GenerateLostObjects, vars
<1> QED BY <1>2, <1>3 DEF Next

LEMMA BooksInvInitially == Init => BooksInv
<1> SUFFICES ASSUME Init PROVE BooksInv
  OBVIOUS
<1>1. Books /\ TickKept BY BooksInitially
<1>2. OnePlace
  <2>1. ASSUME NEW n \in ThingIds PROVE ~(n < counter) /\ PlacesOf(n) = {}
    <3>1. \A d, k : ~InBag(n, d, k) /\ ~AtOffice(n, d, k)
      BY DEF Init, InBag, AtOffice
    <3>2. n \notin DOMAIN lost BY DEF Init
    <3>3. \A p : p \notin PlacesOf(n) BY <3>1, <3>2, PlacesAre
    <3>4. ~(n < counter) BY SessionAssumption DEF Init, ThingIds
    <3> QED BY <3>3, <3>4
  <2> QED BY <2>1 DEF OnePlace
<1>3. ScoreIsWorthDelivered
  <2>1. \A d \in Dogs : score[d] = 0 /\ delivered[d] = <<>> BY DEF Init
  <2>2. 0 % ScoreRange = 0 BY SessionAssumption
  <2> QED BY <2>1, <2>2, BagWorthOfNothing DEF ScoreIsWorthDelivered
<1> QED BY <1>1, <1>2, <1>3 DEF BooksInv

LEMMA BooksInvKept == BooksInv /\ [Next]_vars => BooksInv'
BY BooksKept, OnePlaceKept, ScoreKept DEF BooksInv

\* The session keeps its books: the inductive invariant holds throughout.
THEOREM BooksAreKept == Spec => []BooksInv
BY BooksInvInitially, BooksInvKept, PTL DEF Spec

\* Between any two events of a tick every thing is in one place, for every
\* number of dogs and things.
THEOREM ThingsLiveOnce == Spec => []LootLivesOnce
<1>1. BooksInv => LootLivesOnce BY OnePlaceIsCounted DEF BooksInv
<1> QED BY <1>1, BooksAreKept, PTL

\* A dog's score is the worth of everything it brought to an office, for every
\* worth of things and every width of the counter.
THEOREM ScoreIsDeserved == Spec => []ScoreIsWorthDelivered
<1>1. BooksInv => ScoreIsWorthDelivered BY DEF BooksInv
<1> QED BY <1>1, BooksAreKept, PTL
-----------------------------------------------------------------------------
(* The session calls its generator as the generator expects.               *)

LEMMA GeneratorInitially == Init => Generator!Init
BY FS_EmptySet DEF Init, Generator!Init

LEMMA GeneratorSteps ==
    ASSUME BooksInv, [Next]_vars
    PROVE  [Generator!Next]_(Generator!vars)
<1> USE DEF BooksInv
<1> DEFINE onMap == Cardinality(DOMAIN lost)
           dogs == Cardinality(joined)
<1>0. /\ IsFiniteSet(joined) /\ dogs \in Nat
      /\ IsFiniteSet(DOMAIN lost) /\ onMap \in Nat
  BY FiniteBooks
<1>1. ASSUME NEW d \in Dogs, AddDog(d) PROVE Generator!Next
  <2>1. d \notin joined /\ joined' = joined \cup {d} /\ lost' = lost /\ quiet' = quiet
    BY <1>1 DEF AddDog, lootVars
  <2>2. Cardinality(joined)' = dogs + 1 BY <2>1, <1>0, FS_AddElement
  <2>3. dogs < Cardinality(Dogs)
    <3>1. IsFiniteSet(Dogs) /\ joined \in SUBSET Dogs /\ joined # Dogs
      BY <2>1, SessionAssumption DEF Books
    <3>2. dogs <= Cardinality(Dogs) /\ dogs # Cardinality(Dogs) BY <3>1, FS_Subset
    <3>3. Cardinality(Dogs) \in Nat BY <3>1, FS_CardinalityType
    <3> HIDE DEF dogs
    <3> QED BY <3>2, <3>3, <1>0
  <2>4. Generator!Join BY <2>1, <2>2, <2>3 DEF Generator!Join
  <2> QED BY <2>4 DEF Generator!Next
<1>2. ASSUME NEW e \in events, TakeLoot(e) PROVE Generator!Next
  <2>1. /\ e.id \in DOMAIN lost /\ DOMAIN lost' = (DOMAIN lost) \ {e.id}
        /\ joined' = joined /\ quiet' = quiet
    BY <1>2 DEF TakeLoot, Without, dogVars
  <2>2. Cardinality(DOMAIN lost)' = onMap - 1 BY <2>1, <1>0, FS_RemoveElement
  <2>3. onMap > 0
    <3>1. onMap # 0 BY <2>1, <1>0, FS_EmptySet
    <3> HIDE DEF onMap
    <3> QED BY <3>1, <1>0
  <2>4. Generator!Taken BY <2>1, <2>2, <2>3 DEF Generator!Taken
  <2> QED BY <2>4 DEF Generator!Next
<1>3. CASE GenerateLostObjects
  <2> DEFINE n == LootToGeneration
             ids == counter .. counter + n - 1
  <2>1. /\ joined' = joined /\ inTick
        /\ quiet' = IF n > 0 THEN 0 ELSE QuietTime
        /\ DOMAIN lost' = (DOMAIN lost) \cup ids /\ ids \cap DOMAIN lost = {}
    BY <1>3, GenerationFacts DEF GenerateLostObjects, dogVars
  <2>2. n \in Nat /\ counter \in Nat BY GenerationIsBounded DEF Books
  <2>3. IsFiniteSet(ids) /\ Cardinality(ids) = n
    <3> HIDE DEF n
    <3>1. counter + n - 1 \in Int /\ counter \in Int BY <2>2
    <3> QED BY <3>1, <2>2, FS_Interval
  <2>4. Cardinality(DOMAIN lost)' = onMap + n
    <3> HIDE DEF ids, n
    <3>1. Cardinality((DOMAIN lost) \cup ids)
            = onMap + Cardinality(ids) - Cardinality((DOMAIN lost) \cap ids)
      BY <1>0, <2>3, FS_Union
    <3>2. (DOMAIN lost) \cap ids = {} BY <2>1
    <3>3. Cardinality((DOMAIN lost) \cap ids) = 0 BY <3>2, FS_EmptySet
    <3> HIDE DEF onMap
    <3> QED BY <3>1, <3>3, <2>1, <2>2, <2>3, <1>0
  <2>5. TimeDelta \in {s \div QuantaPerSecond : s \in TickLengths}
    BY <2>1 DEF TimeDelta, TickKept
  <2>6. Generator!Generate(TimeDelta)
    BY <2>1, <2>4 DEF Generator!Generate, QuietTime, LootToGeneration
  <2> QED BY <2>5, <2>6 DEF Generator!Next
<1>4. CASE UNCHANGED <<lost, quiet, joined>>
  BY <1>4 DEF Generator!vars
<1>5. CASE \/ \E d \in Dogs : \E c \in Commands : SetMovementParameters(d, c)
           \/ \E s \in TickLengths : BeginTick(s)
           \/ \E e \in events : VisitOffice(e) \/ FindLootTaken(e)
           \/ UNCHANGED vars
  BY <1>5, <1>4 DEF SetMovementParameters, BeginTick, VisitOffice, FindLootTaken,
       vars, lootVars, dogVars
<1> QED BY <1>1, <1>2, <1>3, <1>5 DEF Next

\* What a session tells its generator is true, at every call and for every
\* order of joins, takings and ticks.
THEOREM GeneratorIsDriven == Spec => DrivesGenerator
BY GeneratorInitially, GeneratorSteps, BooksAreKept, PTL
   DEF Spec, DrivesGenerator, Generator!Spec
-----------------------------------------------------------------------------
(* The session keeps the ledger.                                           *)

LEMMA ClientSees ==
    /\ Lying = {[id |-> n, type |-> lost[n].type] : n \in DOMAIN lost}
    /\ Carried = [d \in Dogs |-> IF d \in joined
                                 THEN {bag[d][k] : k \in DOMAIN bag[d]} ELSE {}]
BY DEF Lying, Carried, GetGameState, GetPlayersToState, GetPlayerBag

LEMMA ClientSeesNext ==
    /\ Lying' = {[id |-> n, type |-> lost'[n].type] : n \in DOMAIN lost'}
    /\ Carried' = [d \in Dogs |-> IF d \in joined'
                                  THEN {bag'[d][k] : k \in DOMAIN bag'[d]} ELSE {}]
BY DEF Lying, Carried, GetGameState, GetPlayersToState, GetPlayerBag

LEMMA LedgerInitially == Init => Ledger!Init
<1> SUFFICES ASSUME Init PROVE Ledger!Init
  OBVIOUS
<1>1. Lying = {} BY ClientSees DEF Init
<1>2. Carried = [d \in Dogs |-> {}] BY ClientSees DEF Init
<1>3. Delivered = [d \in Dogs |-> {}] BY DEF Init, Delivered
<1> QED BY <1>1, <1>2, <1>3 DEF Ledger!Init

\* What the ledger knows has appeared.
LEMMA KnownHasAppeared ==
    ASSUME BooksInv, NEW t \in Ledger!Known
    PROVE  t \in Things /\ t.id < counter
<1> USE DEF BooksInv
<1>1. \/ t \in Lying
      \/ \E d \in Dogs : t \in Carried[d]
      \/ \E d \in Dogs : t \in Delivered[d]
  BY DEF Ledger!Known
<1>2. CASE t \in Lying
  <2>1. PICK n \in DOMAIN lost : t = [id |-> n, type |-> lost[n].type]
    BY <1>2, ClientSees
  <2> QED BY <2>1, TakenIsAThing
<1>3. ASSUME NEW d \in Dogs, t \in Carried[d] PROVE t \in Things /\ t.id < counter
  <2>1. PICK k \in DOMAIN bag[d] : t = bag[d][k]
    BY <1>3, ClientSees
  <2>2. t \in Things
    <3> DEFINE T == Things
    <3>1. bag[d] \in Seq(T) BY DEF Books
    <3> HIDE DEF T
    <3>2. t \in T BY <2>1, <3>1
    <3> QED BY <3>2 DEF T
  <2>3. InBag(t.id, d, k) BY <2>1 DEF InBag
  <2>4. t.id \in ThingIds BY <2>2 DEF Things
  <2> QED BY <2>2, <2>3, <2>4, UnknownIsNowhere
<1>4. ASSUME NEW d \in Dogs, t \in Delivered[d] PROVE t \in Things /\ t.id < counter
  <2>1. PICK k \in DOMAIN delivered[d] : t = delivered[d][k]
    BY <1>4 DEF Delivered
  <2>2. t \in Things
    <3> DEFINE T == Things
    <3>1. delivered[d] \in Seq(T) BY DEF Books
    <3> HIDE DEF T
    <3>2. t \in T BY <2>1, <3>1
    <3> QED BY <3>2 DEF T
  <2>3. AtOffice(t.id, d, k) BY <2>1 DEF AtOffice
  <2>4. t.id \in ThingIds BY <2>2 DEF Things
  <2> QED BY <2>2, <2>3, <2>4, UnknownIsNowhere
<1> QED BY <1>1, <1>2, <1>3, <1>4

LEMMA TakingIsLedgered ==
    ASSUME BooksInv, NEW e \in events, TakeLoot(e)
    PROVE  Ledger!Next
<1> USE DEF BooksInv
<1> DEFINE D == e.dog
           t == [id |-> e.id, type |-> lost[e.id].type]
<1>1. /\ e.id \in DOMAIN lost /\ joined' = joined /\ delivered' = delivered
      /\ bag' = [bag EXCEPT ![D] = Append(@, t)]
      /\ lost' = [k \in (DOMAIN lost) \ {e.id} |-> lost[k]]
  BY DEF TakeLoot, Without, dogVars
<1>2. D \in Dogs /\ D \in joined /\ bag[D] \in Seq(Things) /\ t \in Things
  BY <1>1, EventFacts, TakenIsAThing
<1>3. t \in Lying BY <1>1, ClientSees
<1>4. Lying' = Lying \ {t}
  <2>1. ASSUME NEW u PROVE u \in Lying' <=> u \in Lying /\ u # t
    <3>1. u \in Lying' <=>
            \E n \in (DOMAIN lost) \ {e.id} : u = [id |-> n, type |-> lost[n].type]
      BY <1>1, ClientSeesNext
    <3>2. u \in Lying <=> \E n \in DOMAIN lost : u = [id |-> n, type |-> lost[n].type]
      BY ClientSees
    <3> QED BY <3>1, <3>2
  <2> QED BY <2>1
<1> HIDE DEF t, D
<1>5. {Append(bag[D], t)[k] : k \in DOMAIN Append(bag[D], t)}
        = {bag[D][k] : k \in DOMAIN bag[D]} \cup {t}
  <2> DEFINE T == Things
             s == bag[D]
  <2>1. s \in Seq(T) /\ t \in T BY <1>2
  <2> HIDE DEF T, s
  <2>2. /\ Len(s) \in Nat /\ DOMAIN s = 1 .. Len(s)
        /\ DOMAIN Append(s, t) = 1 .. Len(s) + 1
        /\ \A k \in 1 .. Len(s) : Append(s, t)[k] = s[k]
        /\ Append(s, t)[Len(s) + 1] = t
    BY <2>1
  <2>3. {Append(s, t)[k] : k \in DOMAIN Append(s, t)} = {s[k] : k \in DOMAIN s} \cup {t}
    BY <2>2
  <2> QED BY <2>3 DEF s
<1>6. Carried' = [Carried EXCEPT ![D] = @ \cup {t}]
  <2>1. \A d \in Dogs : bag'[d] = IF d = D THEN Append(bag[D], t) ELSE bag[d]
    BY <1>1 DEF Books
  <2>2. ASSUME NEW d \in Dogs
        PROVE  Carried'[d] = IF d = D THEN Carried[D] \cup {t} ELSE Carried[d]
    <3>1. CASE d = D
      <4>1. Carried'[D] = {bag'[D][k] : k \in DOMAIN bag'[D]}
        BY <1>1, <1>2, ClientSeesNext
      <4>2. Carried[D] = {bag[D][k] : k \in DOMAIN bag[D]}
        BY <1>2, ClientSees
      <4>3. bag'[D] = Append(bag[D], t) BY <2>1, <1>2
      <4>4. Carried'[D] = {Append(bag[D], t)[k] : k \in DOMAIN Append(bag[D], t)}
        BY <4>1, <4>3
      <4> QED BY <3>1, <4>2, <4>4, <1>5
    <3>2. CASE d # D
      <4>1. bag'[d] = bag[d] /\ joined' = joined BY <3>2, <2>1, <1>1
      <4> QED BY <3>2, <4>1, ClientSees, ClientSeesNext
    <3> QED BY <3>1, <3>2
  <2>3. Carried' = [d \in Dogs |-> Carried'[d]] /\ Carried = [d \in Dogs |-> Carried[d]]
    BY ClientSees, ClientSeesNext
  <2> QED BY <2>2, <2>3, <1>2
<1>7. Delivered' = Delivered BY <1>1 DEF Delivered
<1>8. Ledger!Take(D, t) BY <1>3, <1>4, <1>6, <1>7 DEF Ledger!Take
<1> QED BY <1>2, <1>8 DEF Ledger!Next

LEMMA DeliveryIsLedgered ==
    ASSUME BooksInv, NEW e \in events, VisitOffice(e)
    PROVE  Ledger!Next
<1> USE DEF BooksInv
<1> DEFINE D == e.dog
<1>1. /\ joined' = joined /\ lost' = lost
      /\ bag' = [bag EXCEPT ![D] = <<>>]
      /\ delivered' = [delivered EXCEPT ![D] = @ \o bag[D]]
  BY DEF VisitOffice, Emptied, dogVars, lootVars
<1>2. /\ D \in Dogs /\ D \in joined
      /\ bag[D] \in Seq(Things) /\ delivered[D] \in Seq(Things)
  BY EventFacts
<1> HIDE DEF D
<1>3. Lying' = Lying BY <1>1, ClientSees, ClientSeesNext
<1>4. {(delivered[D] \o bag[D])[k] : k \in DOMAIN (delivered[D] \o bag[D])}
        = {delivered[D][k] : k \in DOMAIN delivered[D]}
            \cup {bag[D][k] : k \in DOMAIN bag[D]}
  <2> DEFINE s == delivered[D]
             t == bag[D]
  <2>1. s \in Seq(Things) /\ t \in Seq(Things) BY <1>2
  <2> HIDE DEF s, t
  <2>2. /\ Len(s) \in Nat /\ Len(t) \in Nat
        /\ DOMAIN s = 1 .. Len(s) /\ DOMAIN t = 1 .. Len(t)
        /\ DOMAIN (s \o t) = 1 .. Len(s) + Len(t)
        /\ \A k \in 1 .. Len(s) : (s \o t)[k] = s[k]
        /\ \A k \in 1 .. Len(t) : (s \o t)[Len(s) + k] = t[k]
    BY <2>1, OneAfterTheOther
  <2>3. ASSUME NEW k \in 1 .. Len(s) + Len(t)
        PROVE  \/ k \in 1 .. Len(s)
               \/ k - Len(s) \in 1 .. Len(t) /\ k = Len(s) + (k - Len(s))
    BY <2>2
  <2>4. ASSUME NEW k \in 1 .. Len(s) + Len(t)
        PROVE  \/ \E j \in 1 .. Len(s) : (s \o t)[k] = s[j]
               \/ \E j \in 1 .. Len(t) : (s \o t)[k] = t[j]
    BY <2>2, <2>3
  <2>5. ASSUME NEW j \in 1 .. Len(t)
        PROVE  Len(s) + j \in 1 .. Len(s) + Len(t)
    BY <2>2
  <2>6. \A j \in 1 .. Len(s) : j \in 1 .. Len(s) + Len(t)
    BY <2>2
  <2> DEFINE L == {(s \o t)[k] : k \in 1 .. Len(s) + Len(t)}
             R == {s[k] : k \in 1 .. Len(s)} \cup {t[k] : k \in 1 .. Len(t)}
  <2>7. L = R
    <3>1. ASSUME NEW u \in L PROVE u \in R
      <4>1. PICK k \in 1 .. Len(s) + Len(t) : u = (s \o t)[k] OBVIOUS
      <4> QED BY <4>1, <2>4
    <3>2. ASSUME NEW j \in 1 .. Len(s) PROVE s[j] \in L
      <4>1. j \in 1 .. Len(s) + Len(t) /\ (s \o t)[j] = s[j] BY <2>2, <2>6
      <4> QED BY <4>1
    <3>3. ASSUME NEW j \in 1 .. Len(t) PROVE t[j] \in L
      <4>1. /\ Len(s) + j \in 1 .. Len(s) + Len(t)
            /\ (s \o t)[Len(s) + j] = t[j]
        BY <2>2, <2>5
      <4> QED BY <4>1
    <3>4. \A u \in R : u \in L BY <3>2, <3>3
    <3> QED BY <3>1, <3>4
  <2> QED BY <2>2, <2>7 DEF s, t
<1>5. Carried[D] = {bag[D][k] : k \in DOMAIN bag[D]} BY <1>2, ClientSees
<1>6. Carried' = [Carried EXCEPT ![D] = {}]
  <2>1. \A d \in Dogs : bag'[d] = IF d = D THEN <<>> ELSE bag[d]
    BY <1>1 DEF Books
  <2>2. ASSUME NEW d \in Dogs
        PROVE  Carried'[d] = IF d = D THEN {} ELSE Carried[d]
    <3>1. CASE d = D
      <4>1. bag'[d] = <<>> BY <3>1, <2>1
      <4> QED BY <3>1, <4>1, ClientSeesNext
    <3>2. CASE d # D
      <4>1. bag'[d] = bag[d] /\ joined' = joined BY <3>2, <2>1, <1>1
      <4> QED BY <3>2, <4>1, ClientSees, ClientSeesNext
    <3> QED BY <3>1, <3>2
  <2>3. Carried' = [d \in Dogs |-> Carried'[d]] /\ Carried = [d \in Dogs |-> Carried[d]]
    BY ClientSees, ClientSeesNext
  <2> QED BY <2>2, <2>3, <1>2
<1>7. Delivered' = [Delivered EXCEPT ![D] = @ \cup Carried[D]]
  <2>1. \A d \in Dogs :
            delivered'[d] = IF d = D THEN delivered[D] \o bag[D] ELSE delivered[d]
    BY <1>1 DEF Books
  <2>2. \A d \in Dogs : /\ Delivered[d] = {delivered[d][k] : k \in DOMAIN delivered[d]}
                        /\ Delivered'[d] = {delivered'[d][k] : k \in DOMAIN delivered'[d]}
    BY DEF Delivered
  <2>3. ASSUME NEW d \in Dogs
        PROVE  Delivered'[d] = IF d = D THEN Delivered[D] \cup Carried[D]
                               ELSE Delivered[d]
    <3>1. CASE d = D
      <4>1. Delivered'[D] = {delivered'[D][k] : k \in DOMAIN delivered'[D]}
        BY <2>2, <1>2
      <4>2. delivered'[D] = delivered[D] \o bag[D] BY <2>1, <1>2
      <4>3. Delivered'[D] = {(delivered[D] \o bag[D])[k] :
                                k \in DOMAIN (delivered[D] \o bag[D])}
        BY <4>1, <4>2
      <4>4. Delivered[D] = {delivered[D][k] : k \in DOMAIN delivered[D]}
        BY <2>2, <1>2
      <4>5. Delivered'[D] = Delivered[D] \cup Carried[D]
        BY <4>3, <4>4, <1>4, <1>5
      <4> QED BY <3>1, <4>5
    <3>2. CASE d # D
      <4>1. delivered'[d] = delivered[d] BY <3>2, <2>1
      <4>2. Delivered[d] = {delivered[d][k] : k \in DOMAIN delivered[d]} BY <2>2
      <4>3. Delivered'[d] = {delivered'[d][k] : k \in DOMAIN delivered'[d]} BY <2>2
      <4>4. Delivered'[d] = {delivered[d][k] : k \in DOMAIN delivered[d]}
        BY <4>1, <4>3
      <4>5. Delivered'[d] = Delivered[d] BY <4>2, <4>4
      <4> QED BY <3>2, <4>5
    <3> QED BY <3>1, <3>2
  <2>4. /\ Delivered' = [d \in Dogs |-> Delivered'[d]]
        /\ Delivered = [d \in Dogs |-> Delivered[d]]
    BY DEF Delivered
  <2> QED BY <2>3, <2>4, <1>2
<1>8. Ledger!Deliver(D) BY <1>3, <1>6, <1>7 DEF Ledger!Deliver
<1> QED BY <1>2, <1>8 DEF Ledger!Next

LEMMA AppearanceIsLedgered ==
    ASSUME BooksInv, GenerateLostObjects
    PROVE  [Ledger!Next]_(Ledger!vars)
<1> USE DEF BooksInv
<1> DEFINE ids == counter .. counter + LootToGeneration - 1
           fresh == {[id |-> k, type |-> lost'[k].type] : k \in ids}
<1>1. /\ joined' = joined /\ bag' = bag /\ delivered' = delivered
      /\ DOMAIN lost' = (DOMAIN lost) \cup ids /\ ids \subseteq ThingIds
      /\ \A k \in DOMAIN lost : lost'[k] = lost[k]
      /\ lost' \in [DOMAIN lost' -> [type : LootTypes, pos : Positions]]
      /\ LootToGeneration = 0 => lost' = lost
      /\ LootToGeneration \in Nat /\ counter \in Nat
  <2>1. joined' = joined /\ bag' = bag /\ delivered' = delivered
    BY DEF GenerateLostObjects, dogVars
  <2>2. counter \in Nat /\ LootToGeneration \in Nat
    <3>1. MaxThings \in Nat BY SessionAssumption
    <3>2. counter \in Nat BY <3>1 DEF Books
    <3> QED BY <3>2, GenerationIsBounded
  <2>3. /\ DOMAIN lost' = (DOMAIN lost) \cup ids /\ ids \subseteq ThingIds
        /\ \A k \in DOMAIN lost : lost'[k] = lost[k]
        /\ lost' \in [DOMAIN lost' -> [type : LootTypes, pos : Positions]]
        /\ LootToGeneration = 0 => lost' = lost
    BY GenerationFacts
  <2> QED BY <2>1, <2>2, <2>3
<1>2. Carried' = Carried /\ Delivered' = Delivered
  BY <1>1, ClientSees, ClientSeesNext DEF Delivered
<1>3. CASE LootToGeneration = 0
  <2>1. Lying' = Lying BY <1>1, <1>3, ClientSees, ClientSeesNext
  <2> QED BY <1>2, <2>1 DEF Ledger!vars
<1>4. CASE LootToGeneration # 0
  <2>1. counter \in ids /\ \A k \in ids : ~(k < counter) BY <1>1, <1>4
  <2> HIDE DEF ids
  <2>2. \A t \in fresh : t \in Things /\ ~(t.id < counter)
    BY <1>1, <2>1 DEF Things
  <2>3. fresh \in SUBSET (Things \ Ledger!Known)
    <3> HIDE DEF fresh
    <3> QED BY <2>2, KnownHasAppeared
  <2>4. fresh # {} BY <2>1
  <2>5. ASSUME NEW t \in fresh, NEW u \in Ledger!Known \cup fresh, t.id = u.id
        PROVE  t = u
    <3>1. CASE u \in fresh BY <3>1, <2>5
    <3>2. CASE u \in Ledger!Known
      <4> HIDE DEF fresh
      <4> QED BY <3>2, <2>2, <2>5, KnownHasAppeared
    <3> QED BY <3>1, <3>2
  <2>6. Lying' = Lying \cup fresh
    <3>1. ASSUME NEW u PROVE u \in Lying' <=> u \in Lying \/ u \in fresh
      <4>1. u \in Lying' <=> \E n \in (DOMAIN lost) \cup ids :
                                  u = [id |-> n, type |-> lost'[n].type]
        BY <1>1, ClientSeesNext
      <4>2. u \in Lying <=> \E n \in DOMAIN lost : u = [id |-> n, type |-> lost'[n].type]
        BY <1>1, ClientSees
      <4> QED BY <4>1, <4>2
    <3> QED BY <3>1
  <2> HIDE DEF fresh
  <2>7. Ledger!Appear BY <1>2, <2>3, <2>4, <2>5, <2>6 DEF Ledger!Appear
  <2> QED BY <2>7 DEF Ledger!Next
<1> QED BY <1>3, <1>4

LEMMA LedgerSteps ==
    ASSUME BooksInv, [Next]_vars
    PROVE  [Ledger!Next]_(Ledger!vars)
<1>1. CASE UNCHANGED <<joined, bag, lost, delivered>>
  <2>1. Lying' = Lying /\ Carried' = Carried /\ Delivered' = Delivered
    BY <1>1, ClientSees, ClientSeesNext DEF Delivered
  <2> QED BY <2>1 DEF Ledger!vars
<1>2. ASSUME NEW d \in Dogs, AddDog(d) PROVE UNCHANGED Ledger!vars
  <2>1. /\ d \notin joined /\ joined' = joined \cup {d}
        /\ bag' = bag /\ lost' = lost /\ delivered' = delivered
    BY <1>2 DEF AddDog, lootVars
  <2>2. bag[d] = <<>> BY <2>1 DEF BooksInv, TickKept
  <2>3. {bag[d][k] : k \in DOMAIN bag[d]} = {} BY <2>2
  <2>4. Carried' = Carried
    <3>1. \A c \in Dogs : Carried'[c] = Carried[c]
      BY <2>1, <2>3, ClientSees, ClientSeesNext
    <3>2. Carried' = [c \in Dogs |-> Carried'[c]] /\ Carried = [c \in Dogs |-> Carried[c]]
      BY ClientSees, ClientSeesNext
    <3> QED BY <3>1, <3>2
  <2>5. Lying' = Lying /\ Delivered' = Delivered
    BY <2>1, ClientSees, ClientSeesNext DEF Delivered
  <2> QED BY <2>4, <2>5 DEF Ledger!vars
<1>3. CASE \/ \E d \in Dogs : \E c \in Commands : SetMovementParameters(d, c)
           \/ \E s \in TickLengths : BeginTick(s)
           \/ \E e \in events : FindLootTaken(e)
           \/ UNCHANGED vars
  BY <1>3, <1>1 DEF SetMovementParameters, BeginTick, FindLootTaken, vars,
       lootVars, dogVars
<1> QED BY <1>2, <1>3, TakingIsLedgered, DeliveryIsLedgered, AppearanceIsLedgered
    DEF Next

\* In what clients are shown nothing is lost, doubled or passed from dog to dog.
THEOREM LedgerIsKept == Spec => KeepsLedger
BY LedgerInitially, LedgerSteps, BooksAreKept, PTL
   DEF Spec, KeepsLedger, Ledger!Spec
-----------------------------------------------------------------------------
(* The dogs themselves, on maps whose roads all lead somewhere: along an   *)
(* empty road the loop of MoveDog has no end.                              *)

Speeds == [Axes -> {-DogSpeed, 0, DogSpeed}]
BodyType == [dir : Moves, pos : Positions, speed : Speeds, road : RoadIds]

Bodies == body \in [Dogs -> BodyType] /\ from \in [Dogs -> Positions]

\* A dog stands or goes along one axis.
LEMMA SpeedsAre ==
    /\ Standing \in Speeds /\ Standing \in Positions
    /\ \A c \in Moves : SpeedTowards(c) \in Speeds
    /\ \A v \in Speeds : \A a \in Axes : v[a] \in Int
<1>1. DogSpeed \in Nat BY SpeedAssumption
<1>2. Standing \in Speeds /\ Standing \in Positions
  BY <1>1 DEF Standing, Speeds, Positions
<1>3. \A c \in Moves : SpeedTowards(c) \in Speeds
  BY <1>1, <1>2 DEF SpeedTowards, Speeds
<1>4. \A v \in Speeds : \A a \in Axes : v[a] \in Int
  BY <1>1 DEF Speeds
<1> QED BY <1>2, <1>3, <1>4

\* A dog starts on a road and on the lattice.
LEMMA SpawnsAre ==
    /\ StartingRoad \in RoadIds
    /\ \A p \in SpawnPoints : p[1] \in RoadIds /\ OnLattice(p[2]) \in Positions
<1>1. StartingRoad \in RoadIds
  BY StartingRoadAssumption, NextRoadMeets DEF StartingRoad, Moves
<1>2. OnLattice(Origin) \in Positions
  <2>1. Origin \in [Axes -> Int] BY DEF Origin
  <2> QED BY <2>1, OnLatticeIsPosition
<1>3. \A i \in RoadIds : \A c \in CrossingsOn(i) : OnLattice(c) \in Positions
  BY OnLatticeIsPosition, CrossingsOnAreIntegers
<1>4. ASSUME NEW p \in SpawnPoints
      PROVE  p[1] \in RoadIds /\ OnLattice(p[2]) \in Positions
  <2>1. CASE RandomSpawn
    <3>1. PICK i \in RoadIds : p \in {i} \X CrossingsOn(i)
      BY <2>1 DEF SpawnPoints
    <3> QED BY <3>1, <1>3
  <2>2. CASE ~RandomSpawn
    BY <2>2, <1>1, <1>2 DEF SpawnPoints
  <2> QED BY <2>1, <2>2
<1> QED BY <1>1, <1>4

\* A tick takes a dog along one axis.
LEMMA AfterMoveIsABody ==
    ASSUME NoEmptyRoads, NEW b \in BodyType, NEW s \in Nat
    PROVE  /\ AfterMove(b, s) \in BodyType
           /\ AfterMove(b, s).pos[Across(b.dir)] = b.pos[Across(b.dir)]
<1> DEFINE dist == s * b.speed[AxisOf(b.dir)]
           w == [at |-> b.pos, road |-> b.road, left |-> dist]
           walk == MoveDog(b.dir, b.pos, b.road, dist)
<1>1. b.dir \in Moves /\ b.pos \in Positions /\ b.road \in RoadIds /\ b.speed \in Speeds
  BY DEF BodyType
<1>2. dist \in Int
  <2>1. AxisOf(b.dir) \in Axes BY DEF AxisOf, Axes
  <2>2. b.speed[AxisOf(b.dir)] \in Int BY <1>1, <2>1, SpeedsAre
  <2> QED BY <2>2
<1>3. w \in Walks
  <2> HIDE DEF dist
  <2> QED BY <1>1, <1>2 DEF Walks
<1>4. walk = WalkOf(b.dir)[w] BY MoveDogIsWalk
<1>5. /\ walk \in Arrivals
      /\ walk.pos[Across(b.dir)] = b.pos[Across(b.dir)]
  <2>1. w.at = b.pos OBVIOUS
  <2> HIDE DEF w, walk
  <2> QED BY <1>1, <1>3, <1>4, <2>1, WalkArrives
<1>6. AfterMove(b, s) = [b EXCEPT !.pos = walk.pos, !.road = walk.road,
                            !.speed = IF walk.stopped THEN Standing ELSE @]
  BY DEF AfterMove
<1> HIDE DEF walk, w, dist
<1>7. walk.pos \in Positions /\ walk.road \in RoadIds BY <1>5 DEF Arrivals
<1>8. (IF walk.stopped THEN Standing ELSE b.speed) \in Speeds BY <1>1, SpeedsAre
<1> QED BY <1>1, <1>5, <1>6, <1>7, <1>8 DEF BodyType

LEMMA BodiesInitially == Init => Bodies
<1>1. "UP" \in Moves BY DEF Moves
<1>2. Newborn(StartingRoad, Standing) \in BodyType
  BY <1>1, SpeedsAre, SpawnsAre DEF Newborn, BodyType
<1> QED BY <1>2, SpeedsAre DEF Init, Bodies

LEMMA BodiesKept ==
    ASSUME NoEmptyRoads, Bodies, [Next]_vars
    PROVE  Bodies'
<1> USE DEF Bodies
<1>1. ASSUME NEW d \in Dogs, AddDog(d) PROVE Bodies'
  <2>1. PICK p \in SpawnPoints :
            body' = [body EXCEPT ![d] = Newborn(p[1], OnLattice(p[2]))]
    BY <1>1 DEF AddDog
  <2>2. Newborn(p[1], OnLattice(p[2])) \in BodyType
    <3>1. "UP" \in Moves BY DEF Moves
    <3> QED BY <3>1, SpeedsAre, SpawnsAre DEF Newborn, BodyType
  <2>3. from' = from BY <1>1 DEF AddDog, tickVars
  <2> QED BY <2>1, <2>2, <2>3
<1>2. ASSUME NEW d \in Dogs, NEW c \in Commands, SetMovementParameters(d, c)
      PROVE  Bodies'
  <2>1. from' = from BY <1>2 DEF SetMovementParameters, tickVars
  <2>2. body[d] \in BodyType OBVIOUS
  <2>3. CASE c = "STOP"
    <3>1. body' = [body EXCEPT ![d].speed = Standing]
      BY <1>2, <2>3 DEF SetMovementParameters
    <3>2. [body[d] EXCEPT !.speed = Standing] \in BodyType
      BY <2>2, SpeedsAre DEF BodyType
    <3> QED BY <2>1, <3>1, <3>2
  <2>4. CASE c # "STOP"
    <3>1. body' = [body EXCEPT ![d].speed = SpeedTowards(c), ![d].dir = c]
      BY <1>2, <2>4 DEF SetMovementParameters
    <3>2. c \in Moves BY <2>4, SessionAssumption
    <3>3. [body[d] EXCEPT !.speed = SpeedTowards(c), !.dir = c] \in BodyType
      BY <2>2, <3>2, SpeedsAre DEF BodyType
    <3>4. body' = [body EXCEPT ![d] = [body[d] EXCEPT !.speed = SpeedTowards(c), !.dir = c]]
      BY <3>1
    <3> QED BY <2>1, <3>3, <3>4
  <2> QED BY <2>3, <2>4
<1>3. ASSUME NEW s \in TickLengths, BeginTick(s) PROVE Bodies'
  <2>1. /\ body' = [d \in Dogs |-> IF d \in joined THEN AfterMove(body[d], s)
                                                   ELSE body[d]]
        /\ from' = [d \in Dogs |-> body[d].pos]
    BY <1>3 DEF BeginTick
  <2>2. s \in Nat BY SessionAssumption
  <2>3. \A d \in Dogs : AfterMove(body[d], s) \in BodyType
    BY <2>2, AfterMoveIsABody
  <2>4. \A d \in Dogs : body[d].pos \in Positions BY DEF BodyType
  <2> QED BY <2>1, <2>3, <2>4
<1>4. CASE \/ \E e \in events : VisitOffice(e) \/ TakeLoot(e) \/ FindLootTaken(e)
           \/ UNCHANGED vars
  BY <1>4 DEF VisitOffice, TakeLoot, FindLootTaken, dogVars, vars
<1>5. CASE GenerateLostObjects
  BY <1>5, SpeedsAre DEF GenerateLostObjects, dogVars
<1> QED BY <1>1, <1>2, <1>3, <1>4, <1>5 DEF Next

\* The variables of a session have their types.
THEOREM TypeCorrect == ASSUME NoEmptyRoads PROVE Spec => []TypeOK
<1>1. Bodies /\ [Next]_vars => Bodies' BY BodiesKept
<1>2. BooksInv /\ Bodies => TypeOK
  <2> SUFFICES ASSUME BooksInv, Bodies PROVE TypeOK
    OBVIOUS
  <2>1. \A d \in Dogs : /\ body[d].dir \in Moves /\ body[d].pos \in Positions
                        /\ body[d].speed \in [Axes -> {-DogSpeed, 0, DogSpeed}]
                        /\ body[d].road \in RoadIds
    BY DEF Bodies, BodyType, Speeds
  <2>2. DOMAIN lost \subseteq ThingIds BY TakenIsAThing DEF BooksInv
  <2>3. \A n \in DOMAIN lost : lost[n] \in [type : LootTypes, pos : Positions]
    BY DEF BooksInv, Books
  <2> QED BY <2>1, <2>2, <2>3 DEF BooksInv, Books, TickKept, Bodies, TypeOK
<1> QED BY BooksAreKept, BodiesInitially, <1>1, <1>2, PTL DEF Spec
-----------------------------------------------------------------------------
(* The ways are swept.                                                     *)

\* A tick takes each dog along a line.
WaysAreStraight ==
    inTick => \A d \in joined : \E a \in Axes : from[d][a] = body[d].pos[a]

\* The thing on the map with id n.
Thing(n) == [office |-> FALSE, id |-> n, position |-> lost[n].pos, width |-> 0]

\* During a tick an event is left for every thing that lies where a dog went.
Sweeping ==
    inTick => \A d \in joined : \A n \in DOMAIN lost :
        Passes(GathererOf(from[d], body[d].pos), Thing(n))
            => \E e \in events : ~e.office /\ e.id = n

LEMMA PassedIsCollected ==
    ASSUME NEW p \in Positions, NEW q \in Positions, NEW n, lost[n].pos \in Positions,
           Passes(GathererOf(p, q), Thing(n))
    PROVE  ~StoodStill(GathererOf(p, q)) /\ Collects(GathererOf(p, q), Thing(n))
<1> DEFINE g == GathererOf(p, q)
           t == [position |-> lost[n].pos, width |-> 0]
<1>1. g \in GathererType /\ t \in ItemType
  BY WidthAssumption DEF GathererOf, GathererType, ItemType, Points, Positions, Axes
<1>2. Passes(g, t) <=> Passes(g, Thing(n)) BY DEF Passes, Thing
<1>3. Collects(g, t) <=> Collects(g, Thing(n)) BY DEF Collects, Thing
<1>4. g.start # g.end /\ \E b \in {"x", "y"} : g.start[b] = g.end[b]
  BY DEF Passes
<1>5. Collects(g, t)
  <2>1. Passes(g, t) BY <1>2
  <2> HIDE DEF g, t
  <2> QED BY <1>1, <1>4, <2>1, CollectsIffPasses
<1> QED BY <1>3, <1>4, <1>5 DEF StoodStill

\* The events of a tick that begins cover the ways of its dogs.
LEMMA SweepBegins ==
    ASSUME NoEmptyRoads, Books, Bodies, NEW s \in TickLengths, BeginTick(s)
    PROVE  Sweeping' /\ WaysAreStraight'
<1> DEFINE moved == [d \in Dogs |-> IF d \in joined THEN AfterMove(body[d], s)
                                                    ELSE body[d]]
<1>1. /\ joined' = joined /\ lost' = lost /\ body' = moved
      /\ events' = GatherEvents(moved)
      /\ from' = [d \in Dogs |-> body[d].pos]
  BY DEF BeginTick, lootVars
<1>2. ASSUME NEW d \in joined
      PROVE  /\ d \in Dogs /\ body[d] \in BodyType
             /\ moved[d] = AfterMove(body[d], s) /\ moved[d] \in BodyType
             /\ moved[d].pos[Across(body[d].dir)] = body[d].pos[Across(body[d].dir)]
             /\ from'[d] = body[d].pos /\ body'[d].pos = moved[d].pos
  <2>1. d \in Dogs /\ body[d] \in BodyType BY DEF Books, Bodies
  <2>2. s \in Nat BY SessionAssumption
  <2> QED BY <1>1, <2>1, <2>2, AfterMoveIsABody
<1> HIDE DEF moved
<1>3. WaysAreStraight'
  <2>1. ASSUME NEW d \in joined PROVE \E a \in Axes : from'[d][a] = body'[d].pos[a]
    <3>1. Across(body[d].dir) \in Axes BY DEF Across, Axes
    <3> QED BY <3>1, <1>2
  <2> QED BY <2>1, <1>1 DEF WaysAreStraight
<1>4. Sweeping'
  <2>1. ASSUME NEW d \in joined, NEW n \in DOMAIN lost,
               Passes(GathererOf(body[d].pos, moved[d].pos), Thing(n))
        PROVE  \E e \in GatherEvents(moved) : ~e.office /\ e.id = n
    <3> DEFINE g(c) == GathererOf(SetOut(c, moved), moved[c].pos)
               M == {x \in joined \X (OfficeItems \cup LootItems) :
                        ~StoodStill(g(x[1])) /\ Collects(g(x[1]), x[2])}
               E(m) == [dog |-> m[1], office |-> m[2].office, id |-> m[2].id,
                        at |-> EventTime(g(m[1]), m[2])]
               m == <<d, Thing(n)>>
    <3>1. lost[n].pos \in Positions BY DEF Books
    <3>2. body[d].pos \in Positions /\ moved[d].pos \in Positions
      BY <1>2 DEF BodyType
    <3>3. ~StoodStill(g(d)) /\ Collects(g(d), Thing(n))
      BY <2>1, <3>1, <3>2, PassedIsCollected DEF SetOut
    <3>4. Thing(n) \in LootItems BY DEF Thing, LootItems
    <3> HIDE DEF g
    <3>5. m \in M BY <3>3, <3>4
    <3>6. GatherEvents(moved) = {E(x) : x \in M} BY DEF GatherEvents, g
    <3>7. E(m) \in GatherEvents(moved) BY <3>5, <3>6
    <3>8. ~E(m).office /\ E(m).id = n BY DEF Thing
    <3> QED BY <3>7, <3>8
  <2>2. ASSUME NEW n PROVE Thing(n)' = Thing(n) BY <1>1 DEF Thing
  <2> QED BY <1>1, <1>2, <2>1, <2>2 DEF Sweeping
<1> QED BY <1>3, <1>4

LEMMA SweepingGoesOn ==
    ASSUME NoEmptyRoads, Books, TickKept, Bodies, Sweeping, WaysAreStraight, [Next]_vars
    PROVE  Sweeping' /\ WaysAreStraight'
<1>1. ASSUME NEW s \in TickLengths, BeginTick(s) PROVE Sweeping' /\ WaysAreStraight'
  BY <1>1, SweepBegins
<1>2. CASE \/ \E d \in Dogs : \/ AddDog(d)
                              \/ \E c \in Commands : SetMovementParameters(d, c)
           \/ GenerateLostObjects
  <2>1. inTick' = FALSE
    BY <1>2 DEF AddDog, SetMovementParameters, GenerateLostObjects, tickVars,
         TickKept, Books
  <2> QED BY <2>1 DEF Sweeping, WaysAreStraight
<1>3. ASSUME NEW e \in events, VisitOffice(e) \/ TakeLoot(e) \/ FindLootTaken(e)
      PROVE  Sweeping' /\ WaysAreStraight'
  <2>1. /\ joined' = joined /\ body' = body /\ from' = from /\ inTick' = inTick
        /\ events' = events \ {e}
        /\ DOMAIN lost' \subseteq DOMAIN lost
        /\ \A n \in DOMAIN lost' : lost'[n] = lost[n]
    BY <1>3 DEF VisitOffice, TakeLoot, FindLootTaken, dogVars, lootVars, Without
  <2>2. e.office \/ e.id \notin DOMAIN lost'
    BY <1>3 DEF VisitOffice, TakeLoot, FindLootTaken, lootVars, Without
  <2>3. ASSUME NEW n \in DOMAIN lost' PROVE Thing(n)' = Thing(n)
    BY <2>1 DEF Thing
  <2>4. Sweeping'
    <3> SUFFICES ASSUME inTick, NEW d \in joined, NEW n \in DOMAIN lost',
                        Passes(GathererOf(from[d], body[d].pos), Thing(n))
                 PROVE  \E f \in events \ {e} : ~f.office /\ f.id = n
      BY <2>1, <2>3 DEF Sweeping
    <3>1. PICK f \in events : ~f.office /\ f.id = n BY <2>1 DEF Sweeping
    <3>2. f # e BY <3>1, <2>2
    <3> QED BY <3>1, <3>2
  <2>5. WaysAreStraight' BY <2>1 DEF WaysAreStraight
  <2> QED BY <2>4, <2>5
<1>4. CASE UNCHANGED vars
  BY <1>4 DEF vars, Sweeping, WaysAreStraight, Thing
<1> QED BY <1>1, <1>2, <1>3, <1>4 DEF Next

\* When the events of a tick are worked off nothing is left lying where a dog
\* went, and every dog went along a line.
THEOREM NothingIsPassedBy ==
    ASSUME NoEmptyRoads
    PROVE  Spec => [](WaysAreSwept /\ WaysAreStraight)
<1>1. Bodies /\ [Next]_vars => Bodies' BY BodiesKept
<1>2. Init => Sweeping /\ WaysAreStraight BY DEF Init, Sweeping, WaysAreStraight
<1>3. /\ BooksInv /\ Bodies /\ Sweeping /\ WaysAreStraight /\ [Next]_vars
      => Sweeping' /\ WaysAreStraight'
  BY SweepingGoesOn DEF BooksInv
<1>4. Sweeping => WaysAreSwept
  BY DEF Sweeping, WaysAreSwept, LootItems, Thing
<1> QED BY BooksAreKept, BodiesInitially, <1>1, <1>2, <1>3, <1>4, PTL DEF Spec
-----------------------------------------------------------------------------
(* The collision detector that a tick asks who passed what.                *)

\* The pairs the loops have been through, and those of them that meet.
Tried == {x \in (DOMAIN gatherers) \X (DOMAIN items) :
            x[1] < atGatherer \/ (x[1] = atGatherer /\ x[2] < atItem)}
Met == {x \in Tried : /\ ~StoodStill(gatherers[x[1]])
                      /\ Collects(gatherers[x[1]], items[x[2]])}

PairOf(e) == <<e.gatherer_id, e.item_id>>
EventType == [gatherer_id : Nat, item_id : Nat, at : [time : Int, over : Int]]

\* The share of its way that a gatherer has gone when it passes the item.
Share(e) == EventTime(gatherers[e.gatherer_id], items[e.item_id])

\* The list holds the pairs that met, each once, with the share of its way
\* that the gatherer had gone.
Listed(list) ==
    /\ list \in Seq(EventType)
    /\ \A k \in DOMAIN list : /\ PairOf(list[k]) \in Met
                              /\ list[k].at = Share(list[k])
    /\ \A x \in Met : \E k \in DOMAIN list : PairOf(list[k]) = x
    /\ \A j, k \in DOMAIN list : PairOf(list[j]) = PairOf(list[k]) => j = k

Detecting ==
    /\ GatherTypes
    /\ atItem > 1 => /\ atGatherer <= Len(gatherers)
                     /\ ~StoodStill(gatherers[atGatherer])
    /\ Listed(detected)
    /\ sorted => /\ atGatherer > Len(gatherers)
                 /\ \A j \in 2 .. Len(detected) :
                        NotLater(detected[j - 1].at, detected[j].at)

\* What a detector is given.
LEMMA Given ==
    ASSUME GatherTypes
    PROVE  /\ Len(gatherers) \in Nat /\ DOMAIN gatherers = 1 .. Len(gatherers)
           /\ Len(items) \in Nat /\ DOMAIN items = 1 .. Len(items)
           /\ \A k \in DOMAIN gatherers :
                /\ gatherers[k] \in GathererType
                /\ \E a \in {"x", "y"} : gatherers[k].start[a] = gatherers[k].end[a]
           /\ \A k \in DOMAIN items : items[k] \in ItemType
<1> DEFINE G == GathererType
           I == ItemType
<1>1. gatherers \in Seq(G) /\ items \in Seq(I)
  BY InputsAssumption DEF GatherTypes
<1>2. \A k \in DOMAIN gatherers :
          \E a \in {"x", "y"} : gatherers[k].start[a] = gatherers[k].end[a]
  BY InputsAssumption DEF GatherTypes
<1> HIDE DEF G, I
<1>3. /\ Len(gatherers) \in Nat /\ DOMAIN gatherers = 1 .. Len(gatherers)
      /\ Len(items) \in Nat /\ DOMAIN items = 1 .. Len(items)
  BY <1>1
<1>4. /\ \A k \in DOMAIN gatherers : gatherers[k] \in G
      /\ \A k \in DOMAIN items : items[k] \in I
  BY <1>1, <1>3
<1> QED BY <1>2, <1>3, <1>4 DEF G, I

\* The products of an event are integers.
LEMMA TimesAreIntegers ==
    ASSUME NEW gatherer \in GathererType, NEW item \in ItemType
    PROVE  EventTime(gatherer, item) \in [time : Int, over : Int]
<1>1. \A c \in {"x", "y"} : /\ gatherer.start[c] \in Int
                            /\ gatherer.end[c] \in Int
                            /\ item.position[c] \in Int
  BY DEF GathererType, ItemType, Points
<1> DEFINE U == Minus(item.position, gatherer.start)
           V == Minus(gatherer.end, gatherer.start)
<1>2. U["x"] \in Int /\ U["y"] \in Int /\ V["x"] \in Int /\ V["y"] \in Int
  BY <1>1 DEF Minus
<1>3. EventTime(gatherer, item) = [time |-> Dot(U, V), over |-> Dot(V, V)]
  BY DEF EventTime, TryCollectPoint
<1> HIDE DEF U, V
<1>4. Dot(U, V) \in Int /\ Dot(V, V) \in Int
  BY <1>2 DEF Dot
<1> QED BY <1>3, <1>4

\* So is the event of each pair.
LEMMA EventsAreTyped ==
    ASSUME GatherTypes, NEW g \in DOMAIN gatherers, NEW j \in DOMAIN items
    PROVE  Event(g, j) \in EventType
BY Given, TimesAreIntegers DEF Event, EventType

\* Before the loops begin nothing is tried and nothing listed.
LEMMA DetectingInitially == GatherInit => Detecting
<1> SUFFICES ASSUME GatherInit PROVE Detecting
  OBVIOUS
<1>1. GatherTypes
  <2>1. gatherers \in Seq(GathererType) /\ items \in Seq(ItemType)
    BY InputsAssumption DEF GatherInit
  <2>2. Len(gatherers) \in Nat /\ Len(items) \in Nat
    <3> DEFINE G == GathererType
               I == ItemType
    <3>1. gatherers \in Seq(G) /\ items \in Seq(I) BY <2>1
    <3> HIDE DEF G, I
    <3> QED BY <3>1
  <2>3. 1 \in 1 .. Len(gatherers) + 1 /\ 1 \in 1 .. Len(items) + 1 BY <2>2
  <2> QED BY <2>3 DEF GatherInit, GatherTypes
<1>2. Met = {}
  BY <1>1, Given DEF Met, Tried, GatherInit
<1>3. Listed(detected)
  <2> DEFINE T == EventType
  <2>1. <<>> \in Seq(T) /\ DOMAIN <<>> = {} OBVIOUS
  <2> QED BY <1>2, <2>1 DEF Listed, GatherInit
<1> QED BY <1>1, <1>3 DEF Detecting, GatherInit

\* Nothing changes but the counters: the loops pass over pairs that do not meet.
LEMMA ListedIfMetStays ==
    ASSUME Listed(detected), Met' = Met,
           UNCHANGED <<gatherers, items, detected>>
    PROVE  Listed(detected)'
BY DEF Listed, Share

\* A pair that meets is listed at the end.
LEMMA ListedWhenAppended ==
    ASSUME GatherTypes, Listed(detected),
           NEW g \in DOMAIN gatherers, NEW j \in DOMAIN items,
           <<g, j>> \notin Met, Met' = Met \union {<<g, j>>},
           detected' = Append(detected, Event(g, j)),
           UNCHANGED <<gatherers, items>>
    PROVE  Listed(detected)'
<1> DEFINE T == EventType
           e == Event(g, j)
           n == Len(detected)
           D == Append(detected, e)
<1>1. detected \in Seq(T) /\ e \in T
  BY EventsAreTyped DEF Listed
<1>2. PairOf(e) = <<g, j>> /\ e.at = Share(e)
  BY DEF PairOf, Event, Share
<1> HIDE DEF T, e
<1>3. /\ n \in Nat /\ DOMAIN detected = 1 .. n /\ DOMAIN D = 1 .. n + 1
      /\ D \in Seq(T) /\ D[n + 1] = e
      /\ \A k \in 1 .. n : D[k] = detected[k]
  BY <1>1
<1>4. detected' = D BY DEF e
<1> HIDE DEF D, n
<1>5. \A k \in 1 .. n + 1 : k = n + 1 \/ k \in 1 .. n BY <1>3
<1>6. \A k \in DOMAIN D : /\ PairOf(D[k]) \in Met'
                          /\ D[k].at = Share(D[k])
  BY <1>2, <1>3, <1>5 DEF Listed
<1>7. \A x \in Met' : \E k \in DOMAIN D : PairOf(D[k]) = x
  <2>1. ASSUME NEW x \in Met PROVE \E k \in 1 .. n : PairOf(D[k]) = x
    BY <1>3 DEF Listed
  <2>2. 1 .. n \subseteq 1 .. n + 1 /\ n + 1 \in 1 .. n + 1 BY <1>3
  <2>3. ASSUME NEW x \in Met' PROVE \E k \in 1 .. n + 1 : PairOf(D[k]) = x
    <3>1. CASE x \in Met BY <2>1, <2>2, <3>1
    <3>2. CASE x = <<g, j>> BY <1>2, <1>3, <2>2, <3>2
    <3> QED BY <3>1, <3>2
  <2> QED BY <2>3, <1>3
<1>8. ASSUME NEW k \in DOMAIN D, NEW l \in DOMAIN D, PairOf(D[k]) = PairOf(D[l])
      PROVE  k = l
  <2>1. ASSUME NEW i \in 1 .. n PROVE PairOf(D[i]) # <<g, j>>
    <3>1. PairOf(detected[i]) \in Met BY <1>3 DEF Listed
    <3>2. D[i] = detected[i] BY <1>3
    <3> QED BY <3>1, <3>2
  <2>2. CASE k = n + 1 BY <1>2, <1>3, <1>5, <1>8, <2>1, <2>2
  <2>3. CASE l = n + 1 BY <1>2, <1>3, <1>5, <1>8, <2>1, <2>3
  <2>4. CASE k \in 1 .. n /\ l \in 1 .. n BY <1>3, <1>8, <2>4 DEF Listed
  <2> QED BY <2>2, <2>3, <2>4, <1>3, <1>5
<1>9. \A a : Share(a)' = Share(a) BY DEF Share
<1> QED BY <1>3, <1>4, <1>6, <1>7, <1>8, <1>9 DEF Listed, T

\* Sorting leaves the same events.
LEMMA ListedWhenSorted ==
    ASSUME Listed(detected), Met' = Met,
           NEW p \in Bijection(DOMAIN detected, DOMAIN detected),
           detected' = [k \in DOMAIN detected |-> detected[p[k]]],
           UNCHANGED <<gatherers, items>>
    PROVE  Listed(detected)'
<1> DEFINE T == EventType
           n == Len(detected)
           D == [k \in DOMAIN detected |-> detected[p[k]]]
<1>1. detected \in Seq(T) BY DEF Listed
<1>2. /\ p \in [DOMAIN detected -> DOMAIN detected]
      /\ \A a, b \in DOMAIN detected : p[a] = p[b] => a = b
      /\ \A b \in DOMAIN detected : \E a \in DOMAIN detected : p[a] = b
  BY DEF Bijection, Injection, Surjection, IsInjective
<1> HIDE DEF T
<1>3. n \in Nat /\ DOMAIN detected = 1 .. n BY <1>1
<1>4. /\ D \in Seq(T) /\ DOMAIN D = DOMAIN detected
      /\ \A k \in DOMAIN detected : p[k] \in DOMAIN detected /\ D[k] = detected[p[k]]
  BY <1>1, <1>2, <1>3
<1>5. detected' = D OBVIOUS
<1> HIDE DEF D, n
<1>6. ASSUME NEW k \in DOMAIN D
      PROVE  PairOf(D[k]) \in Met' /\ D[k].at = Share(D[k])
  <2>1. p[k] \in DOMAIN detected /\ D[k] = detected[p[k]] BY <1>4
  <2>2. /\ PairOf(detected[p[k]]) \in Met
        /\ detected[p[k]].at = Share(detected[p[k]])
    BY <2>1 DEF Listed
  <2> QED BY <2>1, <2>2
<1>7. ASSUME NEW x \in Met' PROVE \E k \in DOMAIN D : PairOf(D[k]) = x
  <2>1. PICK i \in DOMAIN detected : PairOf(detected[i]) = x BY DEF Listed
  <2>2. PICK k \in DOMAIN detected : p[k] = i BY <1>2
  <2> QED BY <2>1, <2>2, <1>4
<1>8. ASSUME NEW k \in DOMAIN D, NEW l \in DOMAIN D, PairOf(D[k]) = PairOf(D[l])
      PROVE  k = l
  <2>1. p[k] = p[l] BY <1>4, <1>8 DEF Listed
  <2> QED BY <2>1, <1>2, <1>4
<1>9. \A a : Share(a)' = Share(a) BY DEF Share
<1>10. detected' \in Seq(EventType) BY <1>4, <1>5 DEF T
<1>11. \A k \in DOMAIN detected' :
          /\ PairOf(detected'[k]) \in Met'
          /\ detected'[k].at = EventTime(gatherers'[detected'[k].gatherer_id],
                                          items'[detected'[k].item_id])
  BY <1>5, <1>6 DEF Share
<1>12. \A x \in Met' : \E k \in DOMAIN detected' : PairOf(detected'[k]) = x
  BY <1>5, <1>7
<1>13. \A k, l \in DOMAIN detected' : PairOf(detected'[k]) = PairOf(detected'[l]) => k = l
  BY <1>5, <1>8
<1> QED BY <1>10, <1>11, <1>12, <1>13 DEF Listed, Share

\* Each round of the loops, and the sort, keeps the list true.
LEMMA DetectingKept == Detecting /\ [GatherNext]_gatherVars => Detecting'
<1> SUFFICES ASSUME Detecting, [GatherNext]_gatherVars PROVE Detecting'
  OBVIOUS
<1> USE DEF Detecting
<1>0. /\ Len(gatherers) \in Nat /\ DOMAIN gatherers = 1 .. Len(gatherers)
      /\ Len(items) \in Nat /\ DOMAIN items = 1 .. Len(items)
  BY Given
<1>1. atGatherer \in 1 .. Len(gatherers) + 1 /\ atItem \in 1 .. Len(items) + 1
  BY DEF GatherTypes
<1>2. CASE SkipGatherer
  <2>1. Met' = Met
    BY <1>0, <1>1, <1>2 DEF SkipGatherer, Met, Tried, StoodStill, Collects
  <2>2. Listed(detected)' BY <1>2, <2>1, ListedIfMetStays DEF SkipGatherer
  <2>3. GatherTypes' BY <1>0, <1>1, <1>2 DEF SkipGatherer, GatherTypes
  <2>4. ~sorted BY <1>0, <1>1, <1>2 DEF SkipGatherer
  <2> QED BY <1>2, <2>2, <2>3, <2>4 DEF SkipGatherer
<1>3. CASE TryItem
  <2>0. PICK g \in Nat, j \in Nat : g = atGatherer /\ j = atItem
    BY <1>0, <1>1
  <2>1. g \in DOMAIN gatherers /\ j \in DOMAIN items /\ ~StoodStill(gatherers[g])
    BY <2>0, <1>0, <1>1, <1>3 DEF TryItem
  <2>2. Tried' = Tried \union {<<g, j>>} /\ <<g, j>> \notin Tried
    BY <2>0, <1>0, <1>1, <1>3, <2>1 DEF TryItem, Tried
  <2>3. Listed(detected)'
    <3>1. CASE Collects(gatherers[g], items[j])
      <4>1. Met' = Met \union {<<g, j>>} /\ <<g, j>> \notin Met
        BY <2>0, <1>3, <2>1, <2>2, <3>1 DEF TryItem, Met
      <4>2. detected' = Append(detected, Event(g, j))
        BY <2>0, <1>3, <3>1 DEF TryItem
      <4> QED BY <1>3, <2>1, <4>1, <4>2, ListedWhenAppended DEF TryItem
    <3>2. CASE ~Collects(gatherers[g], items[j])
      <4>1. Met' = Met
        BY <2>0, <1>3, <2>2, <3>2 DEF TryItem, Met
      <4> QED BY <2>0, <1>3, <3>2, <4>1, ListedIfMetStays DEF TryItem
    <3> QED BY <3>1, <3>2
  <2>4. GatherTypes' BY <1>0, <1>1, <1>3 DEF TryItem, GatherTypes
  <2>5. ~sorted BY <1>0, <1>1, <1>3 DEF TryItem
  <2> QED BY <2>0, <1>3, <2>1, <2>3, <2>4, <2>5, <1>0, <1>1 DEF TryItem
<1>4. CASE NextGatherer
  <2>1. Met' = Met
    <3>1. Tried' = Tried
      BY <1>0, <1>1, <1>4 DEF NextGatherer, Tried
    <3> QED BY <1>4, <3>1 DEF NextGatherer, Met
  <2>2. Listed(detected)' BY <1>4, <2>1, ListedIfMetStays DEF NextGatherer
  <2>3. GatherTypes' BY <1>0, <1>1, <1>4 DEF NextGatherer, GatherTypes
  <2>4. ~sorted BY <1>0, <1>1, <1>4 DEF NextGatherer
  <2> QED BY <1>4, <2>2, <2>3, <2>4 DEF NextGatherer
<1>5. CASE SortEvents
  <2>1. PICK p \in Bijection(DOMAIN detected, DOMAIN detected) :
          /\ detected' = [k \in DOMAIN detected |-> detected[p[k]]]
          /\ \A j \in 2 .. Len(detected) : NotLater(detected'[j - 1].at, detected'[j].at)
    BY <1>5 DEF SortEvents
  <2>2. Met' = Met BY <1>5 DEF SortEvents, Met, Tried
  <2>3. Listed(detected)' BY <1>5, <2>1, <2>2, ListedWhenSorted DEF SortEvents
  <2>4. GatherTypes' BY <1>5 DEF SortEvents, GatherTypes
  <2>5. Len(detected') = Len(detected)
    <3> DEFINE U == EventType
    <3>1. detected \in Seq(U) /\ detected' \in Seq(U) BY <2>3 DEF Listed
    <3>2. DOMAIN detected' = DOMAIN detected BY <2>1
    <3> HIDE DEF U
    <3>3. /\ Len(detected) \in Nat /\ DOMAIN detected = 1 .. Len(detected)
          /\ Len(detected') \in Nat /\ DOMAIN detected' = 1 .. Len(detected')
      BY <3>1
    <3> QED BY <3>2, <3>3
  <2>6. sorted' /\ atGatherer' > Len(gatherers') BY <1>5 DEF SortEvents
  <2> QED BY <1>5, <2>1, <2>3, <2>4, <2>5, <2>6 DEF SortEvents
<1>6. CASE UNCHANGED gatherVars
  BY <1>6 DEF gatherVars, GatherTypes, Listed, Met, Tried, Share
<1> QED BY <1>2, <1>3, <1>4, <1>5, <1>6 DEF GatherNext

\* So it is true until the function has returned.
LEMMA DetectingIsKept == GatherSpec => []Detecting
BY DetectingInitially, DetectingKept, PTL DEF GatherSpec

\* When the loops are through, the pairs that met are the passings.
LEMMA MetIsPassing ==
    ASSUME Detecting, sorted
    PROVE  Met = {x \in (DOMAIN gatherers) \X (DOMAIN items) :
                    Passes(gatherers[x[1]], items[x[2]])}
<1>1. GatherTypes /\ atGatherer > Len(gatherers) BY DEF Detecting
<1>2. Tried = (DOMAIN gatherers) \X (DOMAIN items)
  BY <1>1, Given DEF Tried, GatherTypes
<1>3. ASSUME NEW g \in DOMAIN gatherers, NEW j \in DOMAIN items
      PROVE  (~StoodStill(gatherers[g]) /\ Collects(gatherers[g], items[j]))
                <=> Passes(gatherers[g], items[j])
  <2>1. CASE StoodStill(gatherers[g])
    BY <2>1 DEF StoodStill, Passes
  <2>2. CASE ~StoodStill(gatherers[g])
    BY <1>1, <2>2, Given, CollectsIffPasses DEF StoodStill
  <2> QED BY <2>1, <2>2
<1> QED BY <1>2, <1>3 DEF Met

\* The detector reports the passing of an item by a gatherer once, and nothing
\* else, whatever it is given.
THEOREM EventsAreComplete == GatherSpec => []EventsComplete
<1>1. Detecting => EventsComplete
  <2> SUFFICES ASSUME Detecting, sorted PROVE EventsComplete
    BY DEF EventsComplete
  <2>1. Listed(detected) BY DEF Detecting
  <2>2. {<<detected[k].gatherer_id, detected[k].item_id>> : k \in DOMAIN detected} = Met
    BY <2>1 DEF Listed, PairOf
  <2>3. \A j, k \in DOMAIN detected :
          /\ detected[j].gatherer_id = detected[k].gatherer_id
          /\ detected[j].item_id = detected[k].item_id
          => j = k
    BY <2>1 DEF Listed, PairOf
  <2> QED BY <2>2, <2>3, MetIsPassing DEF EventsComplete
<1> QED BY <1>1, DetectingIsKept, PTL

\* "Not later" goes from event to event.
LEMMA NotLaterGoesOn ==
    ASSUME NEW a \in Int, NEW b \in Int, NEW c \in Int, NEW d \in Int,
           NEW e \in Int, NEW f \in Int, b > 0, d > 0, f > 0,
           a * d <= c * b, c * f <= e * d
    PROVE  a * f <= e * b
<1> DEFINE A == a * d  B == c * b  C == c * f  D == e * d
<1>1. A * f <= B * f
  <2> A \in Int /\ B \in Int /\ A <= B OBVIOUS
  <2> HIDE DEF A, B
  <2> QED BY SMTT(30)
<1>2. C * b <= D * b
  <2> C \in Int /\ D \in Int /\ C <= D OBVIOUS
  <2> HIDE DEF C, D
  <2> QED BY SMTT(30)
<1>3. A * f = (a * f) * d BY SMTT(30)
<1>4. B * f = C * b BY SMTT(30)
<1>5. D * b = (e * b) * d BY SMTT(30)
<1> DEFINE P == a * f  Q == e * b
<1>6. P \in Int /\ Q \in Int OBVIOUS
<1>7. P * d <= Q * d
  <2>1. P * d \in Int /\ Q * d \in Int /\ B * f \in Int BY <1>6
  <2> HIDE DEF A, B, C, D, P, Q
  <2> QED BY <1>1, <1>2, <1>3, <1>4, <1>5, <2>1 DEF P, Q
<1> HIDE DEF P, Q
<1>8. P <= Q BY <1>6, <1>7, CancelSquare
<1> QED BY <1>8 DEF P, Q

\* An event's quotient is the share of the way that is gone.
LEMMA EventIsShare ==
    ASSUME NEW gatherer \in GathererType, NEW item \in ItemType,
           Passes(gatherer, item)
    PROVE  LET g == Gone(gatherer, item)
               t == EventTime(gatherer, item)
           IN  /\ g.part \in Nat /\ g.whole \in Nat /\ g.whole > 0
               /\ t.time = g.part * g.whole /\ t.over = g.whole * g.whole
<1> DEFINE a == IF gatherer.start["x"] # gatherer.end["x"] THEN "x" ELSE "y"
           u == item.position[a] - gatherer.start[a]
           v == gatherer.end[a] - gatherer.start[a]
           U == Minus(item.position, gatherer.start)
           V == Minus(gatherer.end, gatherer.start)
<1>1. \A c \in {"x", "y"} : /\ gatherer.start[c] \in Int
                            /\ gatherer.end[c] \in Int
                            /\ item.position[c] \in Int
  BY DEF GathererType, ItemType, Points
<1>2. PICK b \in {"x", "y"} \ {a} :
          /\ gatherer.start[a] # gatherer.end[a]
          /\ gatherer.start[b] = gatherer.end[b]
          /\ Between(item.position[a], gatherer.start[a], gatherer.end[a])
  BY DEF Passes
<1>3. a \in {"x", "y"} OBVIOUS
<1>4. /\ U[a] = u /\ V[a] = v /\ V[b] = 0
      /\ U[b] \in Int /\ u \in Int /\ v \in Int
  BY <1>1, <1>2, <1>3 DEF Minus
<1>5. EventTime(gatherer, item) = [time |-> Dot(U, V), over |-> Dot(V, V)]
  BY DEF EventTime, TryCollectPoint
<1>6. Gone(gatherer, item) = [part |-> Abs(u), whole |-> Abs(v)]
  BY DEF Gone
<1>7. v # 0 /\ ((0 <= u /\ u <= v) \/ (v <= u /\ u <= 0))
  BY <1>1, <1>2, <1>3 DEF Between
<1>8. {a, b} = {"x", "y"} /\ a # b BY <1>2, <1>3
<1> HIDE DEF a, u, v, U, V
<1>9. Dot(U, V) = u * v /\ Dot(V, V) = v * v
  <2>1. CASE a = "x" /\ b = "y" BY <1>4, <2>1 DEF Dot
  <2>2. CASE a = "y" /\ b = "x" BY <1>4, <2>2 DEF Dot
  <2> QED BY <1>8, <2>1, <2>2
<1>10. u * v = Abs(u) * Abs(v) /\ v * v = Abs(v) * Abs(v) /\ Abs(v) > 0
  <2>1. CASE v > 0 BY <1>4, <1>7, <2>1 DEF Abs
  <2>2. CASE v < 0
    <3>1. Abs(v) = -v BY <2>2 DEF Abs
    <3>2. Abs(u) = -u BY <1>4, <1>7, <2>2 DEF Abs
    <3>3. u * v = (-u) * (-v) /\ v * v = (-v) * (-v) BY <1>4, SMTT(30)
    <3> QED BY <1>4, <2>2, <3>1, <3>2, <3>3
  <2> QED BY <1>4, <1>7, <2>1, <2>2
<1>11. Abs(u) \in Nat /\ Abs(v) \in Nat BY <1>4 DEF Abs
<1> QED BY <1>5, <1>6, <1>9, <1>10, <1>11

\* Quotients of squares are in the order of the shares they stand for.
LEMMA SharesInOrder ==
    ASSUME NEW p \in Nat, NEW q \in Nat, NEW r \in Nat, NEW s \in Nat,
           q > 0, s > 0, (p * q) * (s * s) <= (r * s) * (q * q)
    PROVE  p * s <= r * q
<1> DEFINE m == q * s  A == p * s  B == r * q
<1>1. m \in Int /\ m > 0 /\ A \in Int /\ B \in Int BY SMTT(30)
<1>2. (p * q) * (s * s) = A * m BY SMTT(30)
<1>3. (r * s) * (q * q) = B * m BY SMTT(30)
<1>4. A * m <= B * m BY <1>2, <1>3
<1> HIDE DEF m, A, B
<1>5. A <= B BY <1>1, <1>4, CancelSquare
<1> QED BY <1>5 DEF A, B

\* An event that is listed is of a passing, with the quotient of its way.
LEMMA ListedArePassings ==
    ASSUME Detecting, sorted, NEW k \in DOMAIN detected
    PROVE  LET g == gatherers[detected[k].gatherer_id]
               j == items[detected[k].item_id]
           IN  /\ detected[k].gatherer_id \in DOMAIN gatherers
               /\ detected[k].item_id \in DOMAIN items
               /\ g \in GathererType /\ j \in ItemType /\ Passes(g, j)
               /\ detected[k].at = EventTime(g, j)
               /\ detected[k].at.time \in Int /\ detected[k].at.over \in Int
               /\ detected[k].at.over > 0
<1> DEFINE g == gatherers[detected[k].gatherer_id]
           j == items[detected[k].item_id]
           w == Gone(g, j).whole
<1>1. PairOf(detected[k]) \in Met /\ detected[k].at = EventTime(g, j)
  BY DEF Detecting, Listed, Share
<1>2. /\ detected[k].gatherer_id \in DOMAIN gatherers
      /\ detected[k].item_id \in DOMAIN items
      /\ Passes(g, j)
  BY <1>1, MetIsPassing DEF PairOf
<1>3. g \in GathererType /\ j \in ItemType
  BY <1>2, Given DEF Detecting
<1>4. w \in Nat /\ w > 0 /\ detected[k].at.over = w * w
  BY <1>1, <1>2, <1>3, EventIsShare
<1>5. detected[k].at.time \in Int /\ detected[k].at.over \in Int
  BY <1>1, <1>3, TimesAreIntegers
<1>6. detected[k].at.over > 0
  <2> HIDE DEF w
  <2>1. w * w > 0 BY <1>4, SMTT(30)
  <2> QED BY <1>4, <2>1
<1> QED BY <1>1, <1>2, <1>3, <1>5, <1>6

\* The sort compares neighbours; so each event is not later than all that
\* follow it.
LEMMA SortedThroughout ==
    ASSUME Detecting, sorted
    PROVE  \A k \in DOMAIN detected : \A j \in 1 .. k :
               NotLater(detected[j].at, detected[k].at)
<1> DEFINE n == Len(detected)
           time(k) == detected[k].at.time
           over(k) == detected[k].at.over
<1>1. n \in Nat /\ DOMAIN detected = 1 .. n
  <2> DEFINE U == EventType
  <2>1. detected \in Seq(U) BY DEF Detecting, Listed
  <2> HIDE DEF U
  <2> QED BY <2>1
<1>2. \A k \in 1 .. n : time(k) \in Int /\ over(k) \in Int /\ over(k) > 0
  BY <1>1, ListedArePassings
<1>3. \A j \in 2 .. n : time(j - 1) * over(j) <= time(j) * over(j - 1)
  BY DEF Detecting, NotLater
<1> HIDE DEF time, over, n
<1> DEFINE Fine(k) == \A j \in 1 .. k : time(j) * over(k) <= time(k) * over(j)
           T == {k \in Nat : k \in 1 .. n => Fine(k)}
<1>4. ASSUME NEW k \in Nat, \A m \in 0 .. k - 1 : m \in T PROVE k \in T
  <2>1. SUFFICES ASSUME k \in 1 .. n, NEW j \in 1 .. k
                 PROVE  time(j) * over(k) <= time(k) * over(j)
    OBVIOUS
  <2>2. CASE j = k BY <1>2, <2>1, <2>2
  <2>3. CASE j < k
    <3>1. /\ k - 1 \in 1 .. n /\ k - 1 \in 0 .. k - 1 /\ k \in 2 .. n
          /\ j \in 1 .. k - 1 /\ j \in 1 .. n
      BY <2>1, <2>3, <1>1
    <3>2. k - 1 \in T BY <1>4, <3>1
    <3>3. time(j) * over(k - 1) <= time(k - 1) * over(j) BY <3>1, <3>2
    <3>4. time(k - 1) * over(k) <= time(k) * over(k - 1) BY <1>3, <3>1
    <3> HIDE DEF T
    <3> QED BY <1>2, <2>1, <3>1, <3>3, <3>4, NotLaterGoesOn
  <2> QED BY <2>1, <2>2, <2>3
<1>5. Nat \subseteq T
  <2> HIDE DEF T
  <2> QED BY <1>4, SetInduction
<1>6. ASSUME NEW k \in 1 .. n PROVE Fine(k) BY <1>1, <1>5
<1> QED BY <1>1, <1>6 DEF NotLater, time, over

\* The detector returns the passings in the order in which they happen.
THEOREM EventsAreOrdered == GatherSpec => []EventsInOrder
<1>1. Detecting => EventsInOrder
  <2> SUFFICES ASSUME Detecting, sorted,
                      NEW k \in DOMAIN detected, NEW j \in 1 .. k
               PROVE  LET e == Gone(gatherers[detected[j].gatherer_id],
                                    items[detected[j].item_id])
                          f == Gone(gatherers[detected[k].gatherer_id],
                                    items[detected[k].item_id])
                      IN  e.part * f.whole <= f.part * e.whole
    BY DEF EventsInOrder
  <2> DEFINE e == Gone(gatherers[detected[j].gatherer_id],
                       items[detected[j].item_id])
             f == Gone(gatherers[detected[k].gatherer_id],
                       items[detected[k].item_id])
  <2>1. j \in DOMAIN detected
    <3> DEFINE U == EventType
    <3>1. detected \in Seq(U) BY DEF Detecting, Listed
    <3> HIDE DEF U
    <3> QED BY <3>1
  <2>2. detected[j].at.time * detected[k].at.over
            <= detected[k].at.time * detected[j].at.over
    BY SortedThroughout DEF NotLater
  <2>3. /\ e.part \in Nat /\ e.whole \in Nat /\ e.whole > 0
        /\ detected[j].at.time = e.part * e.whole
        /\ detected[j].at.over = e.whole * e.whole
    BY <2>1, ListedArePassings, EventIsShare
  <2>4. /\ f.part \in Nat /\ f.whole \in Nat /\ f.whole > 0
        /\ detected[k].at.time = f.part * f.whole
        /\ detected[k].at.over = f.whole * f.whole
    BY ListedArePassings, EventIsShare
  <2> HIDE DEF e, f
  <2>5. e.part * f.whole <= f.part * e.whole
    BY <2>2, <2>3, <2>4, SharesInOrder
  <2> QED BY <2>5 DEF e, f
<1> QED BY <1>1, DetectingIsKept, PTL
-----------------------------------------------------------------------------
(* What the session is told.                                               *)

\* The session lists its dogs and what may be collected for the detector:
\* GetGatherersAndGatherIdToDog and GetItemsAndItemsIdToLostObjectsId.
Lists(moved, dogOf, itemOf) ==
    /\ dogOf \in [DOMAIN gatherers -> joined]
    /\ \A d \in joined : \E k \in DOMAIN gatherers : dogOf[k] = d
    /\ \A k \in DOMAIN gatherers :
            gatherers[k] = GathererOf(SetOut(dogOf[k], moved), moved[dogOf[k]].pos)
    /\ itemOf \in [DOMAIN items -> OfficeItems \cup LootItems]
    /\ \A t \in OfficeItems \cup LootItems : \E k \in DOMAIN items : itemOf[k] = t
    /\ \A k \in DOMAIN items :
            /\ items[k].position = itemOf[k].position
            /\ items[k].width = itemOf[k].width

\* The k-th event, as the session reads it.
ReadAs(k, dogOf, itemOf) ==
    [dog |-> dogOf[detected[k].gatherer_id],
     office |-> itemOf[detected[k].item_id].office,
     id |-> itemOf[detected[k].item_id].id,
     at |-> detected[k].at]

\* The list that FindGatherEvents returns has the events that a tick of the
\* session's model begins with, and whoever works it off from its front takes
\* one of the earliest that are left, as the model does.
SessionIsTold ==
    sorted => \A moved, dogOf, itemOf : Lists(moved, dogOf, itemOf) =>
        /\ GatherEvents(moved) = {ReadAs(k, dogOf, itemOf) : k \in DOMAIN detected}
        /\ \A k \in DOMAIN detected : \A j \in k .. Len(detected) :
                NotLater(ReadAs(k, dogOf, itemOf).at, ReadAs(j, dogOf, itemOf).at)

\* Whether an item is collected, and when, depends on nothing but its position
\* and its width.
LEMMA OnlyWhereAndHowWide ==
    ASSUME NEW g, NEW s, NEW t, s.position = t.position, s.width = t.width
    PROVE  (Collects(g, s) <=> Collects(g, t)) /\ EventTime(g, s) = EventTime(g, t)
BY DEF Collects, EventTime

\* The detector and the session fit together, for any lists of dogs and things.
THEOREM SessionGetsItsEvents == GatherSpec => []SessionIsTold
<1>1. Detecting => SessionIsTold
  <2> SUFFICES ASSUME Detecting, sorted,
                      NEW moved, NEW dogOf, NEW itemOf, Lists(moved, dogOf, itemOf)
               PROVE  /\ GatherEvents(moved)
                            = {ReadAs(k, dogOf, itemOf) : k \in DOMAIN detected}
                      /\ \A k \in DOMAIN detected : \A j \in k .. Len(detected) :
                            NotLater(ReadAs(k, dogOf, itemOf).at,
                                     ReadAs(j, dogOf, itemOf).at)
    BY DEF SessionIsTold
  <2> DEFINE G(d) == GathererOf(SetOut(d, moved), moved[d].pos)
             E(d, t) == [dog |-> d, office |-> t.office, id |-> t.id,
                         at |-> EventTime(G(d), t)]
             R(k) == ReadAs(k, dogOf, itemOf)
  <2>0. GatherEvents(moved) =
          {E(x[1], x[2]) : x \in {y \in joined \X (OfficeItems \cup LootItems) :
                            ~StoodStill(G(y[1])) /\ Collects(G(y[1]), y[2])}}
    BY DEF GatherEvents
  <2>1. ASSUME NEW m \in DOMAIN gatherers, NEW i \in DOMAIN items
        PROVE  /\ G(dogOf[m]) = gatherers[m]
               /\ Collects(G(dogOf[m]), itemOf[i]) <=> Collects(gatherers[m], items[i])
               /\ EventTime(G(dogOf[m]), itemOf[i]) = EventTime(gatherers[m], items[i])
               /\ dogOf[m] \in joined /\ itemOf[i] \in OfficeItems \cup LootItems
    <3>1. G(dogOf[m]) = gatherers[m] BY DEF Lists
    <3>2. /\ items[i].position = itemOf[i].position
          /\ items[i].width = itemOf[i].width
      BY DEF Lists
    <3>3. dogOf[m] \in joined /\ itemOf[i] \in OfficeItems \cup LootItems
      BY DEF Lists
    <3> HIDE DEF G
    <3> QED BY <3>1, <3>2, <3>3, OnlyWhereAndHowWide
  <2>2. ASSUME NEW k \in DOMAIN detected PROVE R(k) \in GatherEvents(moved)
    <3> DEFINE m == detected[k].gatherer_id
               i == detected[k].item_id
    <3>1. /\ m \in DOMAIN gatherers /\ i \in DOMAIN items
          /\ detected[k].at = EventTime(gatherers[m], items[i])
          /\ ~StoodStill(gatherers[m]) /\ Collects(gatherers[m], items[i])
      <4>1. PairOf(detected[k]) \in Met BY DEF Detecting, Listed
      <4> QED BY <4>1, ListedArePassings DEF PairOf, Met, Tried
    <3>2. /\ ~StoodStill(G(dogOf[m])) /\ Collects(G(dogOf[m]), itemOf[i])
          /\ dogOf[m] \in joined /\ itemOf[i] \in OfficeItems \cup LootItems
      BY <2>1, <3>1
    <3>3. R(k) = E(dogOf[m], itemOf[i])
      BY <2>1, <3>1 DEF ReadAs
    <3>4. <<dogOf[m], itemOf[i]>> \in
            {y \in joined \X (OfficeItems \cup LootItems) :
                ~StoodStill(G(y[1])) /\ Collects(G(y[1]), y[2])}
      BY <3>2
    <3> HIDE DEF G, E, R, m, i
    <3> QED BY <2>0, <3>3, <3>4
  <2>3. ASSUME NEW d \in joined, NEW t \in OfficeItems \cup LootItems,
               ~StoodStill(G(d)), Collects(G(d), t)
        PROVE  \E k \in DOMAIN detected : R(k) = E(d, t)
    <3>1. PICK m \in DOMAIN gatherers : dogOf[m] = d BY DEF Lists
    <3>2. PICK i \in DOMAIN items : itemOf[i] = t BY DEF Lists
    <3>3. /\ ~StoodStill(gatherers[m]) /\ Collects(gatherers[m], items[i])
          /\ EventTime(G(d), t) = EventTime(gatherers[m], items[i])
      BY <2>1, <2>3, <3>1, <3>2
    <3>4. Tried = (DOMAIN gatherers) \X (DOMAIN items)
      BY Given DEF Detecting, Tried, GatherTypes
    <3>5. <<m, i>> \in Met BY <3>3, <3>4 DEF Met
    <3>6. PICK k \in DOMAIN detected : PairOf(detected[k]) = <<m, i>>
      BY <3>5 DEF Detecting, Listed
    <3>7. detected[k].gatherer_id = m /\ detected[k].item_id = i BY <3>6 DEF PairOf
    <3>8. detected[k].at = EventTime(gatherers[m], items[i])
      BY <3>7, ListedArePassings
    <3>9. R(k) = E(d, t) BY <3>1, <3>2, <3>3, <3>7, <3>8 DEF ReadAs
    <3> QED BY <3>9
  <2>4. GatherEvents(moved) = {R(k) : k \in DOMAIN detected}
    <3>1. ASSUME NEW e \in GatherEvents(moved) PROVE \E k \in DOMAIN detected : e = R(k)
      <4>1. PICK x \in {y \in joined \X (OfficeItems \cup LootItems) :
                            ~StoodStill(G(y[1])) /\ Collects(G(y[1]), y[2])} :
                e = E(x[1], x[2])
        <5> HIDE DEF G, E
        <5> QED BY <2>0
      <4>2. /\ x[1] \in joined /\ x[2] \in OfficeItems \cup LootItems
            /\ ~StoodStill(G(x[1])) /\ Collects(G(x[1]), x[2])
        BY <4>1
      <4> HIDE DEF G, E, R
      <4>3. \E k \in DOMAIN detected : R(k) = E(x[1], x[2]) BY <2>3, <4>2
      <4> QED BY <4>1, <4>3
    <3> HIDE DEF R
    <3> QED BY <2>2, <3>1
  <2>5. ASSUME NEW k \in DOMAIN detected, NEW j \in k .. Len(detected)
        PROVE  NotLater(R(k).at, R(j).at)
    <3>1. j \in DOMAIN detected /\ k \in 1 .. j
      <4> DEFINE U == EventType
      <4>1. detected \in Seq(U) BY DEF Detecting, Listed
      <4> HIDE DEF U
      <4> QED BY <4>1
    <3>2. NotLater(detected[k].at, detected[j].at) BY <3>1, SortedThroughout
    <3> QED BY <3>2 DEF ReadAs
  <2> QED BY <2>4, <2>5
<1> QED BY <1>1, DetectingIsKept, PTL
=============================================================================
