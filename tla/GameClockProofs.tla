--------------------------- MODULE GameClockProofs ---------------------------
(***************************************************************************)
(* The generator, and the clock that drives it.                            *)
(*                                                                         *)
(* The generator keeps its promise for every base interval, probability    *)
(* and pattern of calls: what it generates is a part of what is missing.   *)
(* The promise is inductive with the types: the map has at most a thing    *)
(* for each looter before a call, and a looter does not leave.             *)
(* And it generates the more the longer it has been quiet and the more     *)
(* looters there are, which takes some calculation with powers.            *)
(*                                                                         *)
(* The ticker's clock, for every period, resolution and delay.  Two facts  *)
(* are inductive: the steady clock is ahead of last_tick_ by the time that *)
(* has passed since the last tick began, up to its range; and while no     *)
(* handler runs, that time and what the timer still waits make up a        *)
(* period.  So the game is told the time that passed, and what the         *)
(* generator is told is what it expects of its caller: the clock           *)
(* implements the generator's specification.                               *)
(***************************************************************************)
EXTENDS GameClock, FiniteSetTheorems, WellFoundedInduction, TLAPS

-----------------------------------------------------------------------------
(* The generator.                                                          *)

\* A call generates no more than the shortage, whatever the powers are.
LEMMA GeneratedIsWithinShortage ==
  ASSUME NEW time, NEW m \in Nat, NEW n \in Nat
  PROVE  /\ Generated(time, m, n) \in Nat
         /\ Generated(time, m, n) <= Shortage(m, n)
<1> DEFINE s == Shortage(m, n)
           G == {k \in 1 .. s : Power(KeepNum, time) * Power(2 * s, BaseInterval)
                    <= Power(KeepDen, time) * Power(2 * s - 2 * k + 1, BaseInterval)}
<1>1. s \in Nat
  BY DEF Shortage
<1>2. IsFiniteSet(1 .. s) /\ Cardinality(1 .. s) = s
  <2> HIDE DEF s
  <2> QED  BY <1>1, FS_Interval
<1>3. G \subseteq 1 .. s
  OBVIOUS
<1>4. IsFiniteSet(G) /\ Cardinality(G) <= s
  <2> HIDE DEF G, s
  <2> QED  BY <1>2, <1>3, FS_Subset
<1>5. Cardinality(G) \in Nat
  BY <1>4, FS_CardinalityType
<1>6. Generated(time, m, n) = Cardinality(G)
  BY DEF Generated
<1> QED  BY <1>4, <1>5, <1>6

\* What holds of the generator and of its map.
Promise == TypeOK /\ LootNeverExceedsLooters

LEMMA PromiseInitially == Init => Promise
  BY GeneratorAssumption DEF Init, Promise, TypeOK, LootNeverExceedsLooters

LEMMA PromiseKept == Promise /\ [Next]_vars => Promise'
<1> SUFFICES ASSUME Promise, [Next]_vars PROVE Promise'
  OBVIOUS
<1> USE GeneratorAssumption DEF Promise, TypeOK, LootNeverExceedsLooters
<1>1. CASE UNCHANGED vars
  BY <1>1 DEF vars
<1>2. ASSUME NEW delta \in Deltas, Generate(delta) PROVE Promise'
  <2> DEFINE time == After(timeWithoutLoot, delta)
             n    == Generated(time, loot, looters)
  <2>1. time \in 0 .. TimeCap
    BY DEF After
  <2>2. n \in Nat /\ n <= looters - loot
    <3>1. n \in Nat /\ n <= Shortage(loot, looters)
      BY GeneratedIsWithinShortage
    <3>2. Shortage(loot, looters) = looters - loot
      BY DEF Shortage
    <3> QED  BY <3>1, <3>2
  <2>3. /\ loot' = loot + n
        /\ timeWithoutLoot' \in {0, time}
        /\ looters' = looters
    BY <1>2 DEF Generate
  <2> HIDE DEF time, n
  <2> QED  BY <2>1, <2>2, <2>3
<1>3. CASE Taken
  BY <1>3 DEF Taken
<1>4. CASE Join
  BY <1>4 DEF Join
<1> QED  BY <1>1, <1>2, <1>3, <1>4 DEF Next

\* Comment of Generate: however the calls, the takings and the joins follow
\* each other, the map never holds more things than there are looters.
THEOREM MapIsNotFlooded == Spec => []LootNeverExceedsLooters
<1>1. Promise => LootNeverExceedsLooters
  BY DEF Promise
<1> QED  BY PromiseInitially, PromiseKept, <1>1, PTL DEF Spec
-----------------------------------------------------------------------------
(* What time does to the generator.                                        *)

\* A set that holds a number whenever it holds all smaller ones holds all.
LEMMA SetInduction ==
    ASSUME NEW T, \A n \in Nat : (\A m \in 0 .. n - 1 : m \in T) => n \in T
    PROVE  Nat \subseteq T
<1> DEFINE B == Nat \ T
<1>1. SUFFICES ASSUME B # {} PROVE FALSE
  OBVIOUS
<1>2. IsWellFoundedOn(OpToRel(<, Nat), Nat) BY NatLessThanWellFounded
<1>3. PICK n \in B : \A m \in B : ~(<<m, n>> \in OpToRel(<, Nat))
  BY <1>1, <1>2, WFMin
<1>4. ASSUME NEW m \in 0 .. n - 1 PROVE m \in T
  <2>1. SUFFICES ASSUME m \notin T PROVE FALSE
    OBVIOUS
  <2>2. <<m, n>> \in OpToRel(<, Nat) BY DEF OpToRel
  <2>3. m \in B BY <2>1
  <2> QED BY <2>2, <2>3, <1>3
<1>5. n \in T BY <1>4
<1> QED BY <1>5

\* f[k] is the k-th power of b, up to n.
PowersUpTo(b, f, n) ==
    /\ f[0] = 1
    /\ \A k \in 1 .. n : f[k] = b * f[k - 1]

\* There are powers of every number, up to every exponent.
LEMMA SomePowers ==
    ASSUME NEW b \in Nat
    PROVE  \A n \in Nat : \E f \in [Nat -> Nat] : PowersUpTo(b, f, n)
<1> DEFINE T == {n \in Nat : \E f \in [Nat -> Nat] : PowersUpTo(b, f, n)}
<1>1. ASSUME NEW n \in Nat, \A m \in 0 .. n - 1 : m \in T PROVE n \in T
  <2>1. CASE n = 0
    <3> DEFINE f == [k \in Nat |-> 1]
    <3>1. f \in [Nat -> Nat] /\ PowersUpTo(b, f, 0) BY DEF PowersUpTo
    <3> HIDE DEF f
    <3> QED BY <2>1, <3>1
  <2>2. CASE n > 0
    <3>1. n - 1 \in T BY <1>1, <2>2
    <3>2. PICK f \in [Nat -> Nat] : PowersUpTo(b, f, n - 1) BY <3>1
    <3> DEFINE g == [k \in Nat |-> IF k = n THEN b * f[n - 1] ELSE f[k]]
    <3>3. g \in [Nat -> Nat] BY <2>2
    <3>4. g[n] = b * f[n - 1] /\ \A k \in 0 .. n - 1 : g[k] = f[k] BY <2>2
    <3> HIDE DEF g
    <3>5. g[0] = 1 BY <2>2, <3>2, <3>4 DEF PowersUpTo
    <3>6. ASSUME NEW k \in 1 .. n PROVE g[k] = b * g[k - 1]
      <4>1. k - 1 \in 0 .. n - 1 /\ g[k - 1] = f[k - 1] BY <3>4
      <4>2. CASE k = n BY <3>4, <4>1, <4>2
      <4>3. CASE k # n
        <5>1. k \in 1 .. n - 1 /\ k \in 0 .. n - 1 BY <4>3
        <5> QED BY <3>2, <3>4, <4>1, <5>1 DEF PowersUpTo
      <4> QED BY <4>2, <4>3
    <3> QED BY <3>3, <3>5, <3>6 DEF PowersUpTo
  <2> QED BY <2>1, <2>2
<1>2. Nat \subseteq T
  <2> HIDE DEF T
  <2> QED BY <1>1, SetInduction
<1> QED BY <1>2

\* They agree as far as they go.
LEMMA PowersAgree ==
    ASSUME NEW b \in Nat, NEW n \in Nat,
           NEW f \in [Nat -> Nat], PowersUpTo(b, f, n),
           NEW g \in [Nat -> Nat], PowersUpTo(b, g, n)
    PROVE  \A k \in 0 .. n : f[k] = g[k]
<1> DEFINE T == {k \in Nat : k <= n => f[k] = g[k]}
<1>1. ASSUME NEW k \in Nat, \A m \in 0 .. k - 1 : m \in T PROVE k \in T
  <2>1. CASE k = 0 BY <2>1 DEF PowersUpTo
  <2>2. CASE k > 0 /\ k <= n
    <3>1. k - 1 \in T /\ k - 1 <= n BY <1>1, <2>2
    <3>2. f[k - 1] = g[k - 1] BY <3>1
    <3>3. k \in 1 .. n BY <2>2
    <3>4. f[k] = b * f[k - 1] /\ g[k] = b * g[k - 1] BY <3>3 DEF PowersUpTo
    <3> QED BY <3>2, <3>4
  <2> QED BY <2>1, <2>2
<1>2. Nat \subseteq T
  <2> HIDE DEF T
  <2> QED BY <1>1, SetInduction
<1> QED BY <1>2

\* So the recursion of Powers has a solution.
LEMMA PowersAre ==
    ASSUME NEW b \in Nat
    PROVE  /\ Powers(b) \in [Nat -> Nat]
           /\ Powers(b)[0] = 1
           /\ \A n \in Nat : Powers(b)[n + 1] = b * Powers(b)[n]
<1> DEFINE F(n) == CHOOSE f \in [Nat -> Nat] : PowersUpTo(b, f, n)
           p == [n \in Nat |-> F(n)[n]]
           step(q) == [n \in Nat |-> IF n = 0 THEN 1 ELSE b * q[n - 1]]
<1>1. ASSUME NEW n \in Nat PROVE F(n) \in [Nat -> Nat] /\ PowersUpTo(b, F(n), n)
  BY SomePowers
<1> HIDE DEF F
<1>2. p \in [Nat -> Nat] BY <1>1
<1>3. ASSUME NEW n \in Nat PROVE p[n] = step(p)[n]
  <2>1. CASE n = 0
    <3>1. F(0)[0] = 1 BY <1>1 DEF PowersUpTo
    <3> QED BY <2>1, <3>1
  <2>2. CASE n > 0
    <3>1. n - 1 \in Nat /\ n \in 1 .. n /\ n - 1 \in 0 .. n - 1 BY <2>2
    <3>2. F(n)[n] = b * F(n)[n - 1] BY <1>1, <3>1 DEF PowersUpTo
    <3>3. PowersUpTo(b, F(n), n - 1) /\ PowersUpTo(b, F(n - 1), n - 1)
      <4>1. PowersUpTo(b, F(n), n) /\ 1 .. n - 1 \subseteq 1 .. n
        BY <1>1, <3>1
      <4> QED BY <1>1, <3>1, <4>1 DEF PowersUpTo
    <3>4. F(n)[n - 1] = F(n - 1)[n - 1]
      <4> DEFINE g == F(n)
                 h == F(n - 1)
                 i == n - 1
      <4>1. /\ g \in [Nat -> Nat] /\ PowersUpTo(b, g, i)
            /\ h \in [Nat -> Nat] /\ PowersUpTo(b, h, i)
        BY <1>1, <3>1, <3>3
      <4>2. i \in Nat /\ i \in 0 .. i BY <3>1
      <4> HIDE DEF g, h, i
      <4>3. \A k \in 0 .. i : g[k] = h[k] BY <4>1, <4>2, PowersAgree
      <4>4. g[i] = h[i] BY <4>2, <4>3
      <4> QED BY <4>4 DEF g, h, i
    <3> QED BY <2>2, <3>1, <3>2, <3>4
  <2> QED BY <2>1, <2>2
<1>4. p = step(p)
  <2>1. p = [n \in Nat |-> p[n]] BY <1>2
  <2> HIDE DEF p
  <2> QED BY <1>3, <2>1
<1>5. Powers(b) = CHOOSE q : q = step(q)
  BY DEF Powers
<1> HIDE DEF p
<1> DEFINE P == Powers(b)
<1>6. P = step(P)
  <2> HIDE DEF step
  <2> QED BY <1>4, <1>5
<1> HIDE DEF P
<1>7. P[0] = 1 /\ \A n \in Nat : P[n + 1] = b * P[n]
  <2>1. \A n \in Nat : P[n] = IF n = 0 THEN 1 ELSE b * P[n - 1] BY <1>6
  <2>2. \A n \in Nat : n + 1 \in Nat /\ n + 1 # 0 /\ (n + 1) - 1 = n OBVIOUS
  <2>3. P[0] = 1 BY <2>1
  <2>4. ASSUME NEW n \in Nat PROVE P[n + 1] = b * P[n]
    BY <2>1, <2>2
  <2> QED BY <2>3, <2>4
<1>8. P \in [Nat -> Nat]
  <2> DEFINE T == {n \in Nat : P[n] \in Nat}
  <2>1. ASSUME NEW n \in Nat, \A m \in 0 .. n - 1 : m \in T PROVE n \in T
    <3>1. CASE n = 0 BY <1>7, <3>1
    <3>2. CASE n > 0
      <4>1. n - 1 \in T /\ (n - 1) + 1 = n BY <2>1, <3>2
      <4>2. P[n] = b * P[n - 1] BY <1>7, <4>1
      <4>3. P[n - 1] \in Nat BY <4>1
      <4> QED BY <4>2, <4>3
    <3> QED BY <3>1, <3>2
  <2>2. Nat \subseteq T
    <3> HIDE DEF T
    <3> QED BY <2>1, SetInduction
  <2>3. P = [n \in Nat |-> P[n]]
    <3>1. step(P) = [n \in Nat |-> step(P)[n]] OBVIOUS
    <3> HIDE DEF step
    <3> QED BY <1>6, <3>1
  <2>4. \A n \in Nat : P[n] \in Nat BY <2>2
  <2> QED BY <2>3, <2>4
<1> QED BY <1>7, <1>8 DEF P

\* How to calculate with powers.
LEMMA PowerIs ==
    ASSUME NEW b \in Nat
    PROVE  /\ Power(b, 0) = 1
           /\ \A n \in Nat : /\ Power(b, n) \in Nat
                             /\ Power(b, n + 1) = b * Power(b, n)
BY PowersAre DEF Power

\* Powers grow with their base.
LEMMA PowerGrowsWithBase ==
    ASSUME NEW b \in Nat, NEW c \in Nat, b <= c, NEW n \in Nat
    PROVE  Power(b, n) <= Power(c, n)
<1> DEFINE T == {k \in Nat : Power(b, k) <= Power(c, k)}
<1>1. ASSUME NEW k \in Nat, \A m \in 0 .. k - 1 : m \in T PROVE k \in T
  <2>1. CASE k = 0 BY <2>1, PowerIs
  <2>2. CASE k > 0
    <3> DEFINE x == Power(b, k - 1)
               y == Power(c, k - 1)
    <3>1. k - 1 \in T /\ k - 1 \in Nat /\ (k - 1) + 1 = k BY <1>1, <2>2
    <3>2. x \in Nat /\ y \in Nat /\ x <= y BY <3>1, PowerIs
    <3>3. Power(b, k) = b * x /\ Power(c, k) = c * y BY <3>1, PowerIs
    <3> HIDE DEF x, y
    <3>4. b * x <= c * x BY <3>2, SMTT(30)
    <3>5. c * x <= c * y BY <3>2, SMTT(30)
    <3>6. b * x \in Int /\ c * x \in Int /\ c * y \in Int BY <3>2
    <3> QED BY <3>3, <3>4, <3>5, <3>6
  <2> QED BY <2>1, <2>2
<1>2. Nat \subseteq T
  <2> HIDE DEF T
  <2> QED BY <1>1, SetInduction
<1> QED BY <1>2

\* The power of a product is the product of the powers.
LEMMA PowerOfProduct ==
    ASSUME NEW b \in Nat, NEW c \in Nat, NEW d \in Nat, d = b * c, NEW n \in Nat
    PROVE  Power(d, n) = Power(b, n) * Power(c, n)
<1> DEFINE T == {k \in Nat : Power(d, k) = Power(b, k) * Power(c, k)}
<1>1. ASSUME NEW k \in Nat, \A m \in 0 .. k - 1 : m \in T PROVE k \in T
  <2>1. CASE k = 0 BY <2>1, PowerIs
  <2>2. CASE k > 0
    <3> DEFINE x == Power(b, k - 1)
               y == Power(c, k - 1)
    <3>1. k - 1 \in T /\ k - 1 \in Nat /\ (k - 1) + 1 = k BY <1>1, <2>2
    <3>2. x \in Nat /\ y \in Nat /\ Power(d, k - 1) = x * y BY <3>1, PowerIs
    <3>3. /\ Power(b, k) = b * x /\ Power(c, k) = c * y
          /\ Power(d, k) = d * Power(d, k - 1)
      BY <3>1, PowerIs
    <3> HIDE DEF x, y
    <3>4. (b * c) * (x * y) = (b * x) * (c * y) BY <3>2, SMTT(30)
    <3> QED BY <3>2, <3>3, <3>4
  <2> QED BY <2>1, <2>2
<1>2. Nat \subseteq T
  <2> HIDE DEF T
  <2> QED BY <1>1, SetInduction
<1> QED BY <1>2

\* The power of a sum of exponents is the product of the powers.
LEMMA PowerOfSum ==
    ASSUME NEW b \in Nat, NEW m \in Nat, NEW n \in Nat
    PROVE  Power(b, m + n) = Power(b, n) * Power(b, m)
<1> DEFINE T == {k \in Nat : Power(b, m + k) = Power(b, k) * Power(b, m)}
<1>1. ASSUME NEW k \in Nat, \A l \in 0 .. k - 1 : l \in T PROVE k \in T
  <2>1. CASE k = 0
    <3>1. m + 0 = m /\ Power(b, 0) = 1 /\ Power(b, m) \in Nat BY PowerIs
    <3> QED BY <2>1, <3>1
  <2>2. CASE k > 0
    <3> DEFINE x == Power(b, k - 1)
               y == Power(b, m)
               z == Power(b, m + (k - 1))
    <3>1. /\ k - 1 \in T /\ k - 1 \in Nat /\ (k - 1) + 1 = k
          /\ m + (k - 1) \in Nat /\ (m + (k - 1)) + 1 = m + k
      BY <1>1, <2>2
    <3>2. x \in Nat /\ y \in Nat /\ z = x * y BY <3>1, PowerIs
    <3>3. Power(b, k) = b * x /\ Power(b, m + k) = b * z BY <3>1, PowerIs
    <3> HIDE DEF x, z
    <3>4. b * (x * y) = (b * x) * y BY <3>2, SMTT(30)
    <3> QED BY <3>2, <3>3, <3>4
  <2> QED BY <2>1, <2>2
<1>2. Nat \subseteq T
  <2> HIDE DEF T
  <2> QED BY <1>1, SetInduction
<1> QED BY <1>2

\* No power of a positive number is zero.
LEMMA PowerIsPositive ==
    ASSUME NEW b \in Nat \ {0}, NEW n \in Nat
    PROVE  Power(b, n) > 0
<1> DEFINE T == {k \in Nat : Power(b, k) > 0}
<1>1. ASSUME NEW k \in Nat, \A l \in 0 .. k - 1 : l \in T PROVE k \in T
  <2>1. CASE k = 0 BY <2>1, PowerIs
  <2>2. CASE k > 0
    <3> DEFINE x == Power(b, k - 1)
    <3>1. k - 1 \in T /\ k - 1 \in Nat /\ (k - 1) + 1 = k BY <1>1, <2>2
    <3>2. x \in Nat /\ x > 0 /\ Power(b, k) = b * x BY <3>1, PowerIs
    <3> HIDE DEF x
    <3>3. b * x > 0 BY <3>2, SMTT(30)
    <3> QED BY <3>2, <3>3
  <2> QED BY <2>1, <2>2
<1>2. Nat \subseteq T
  <2> HIDE DEF T
  <2> QED BY <1>1, SetInduction
<1> QED BY <1>2

\* Inequalities of natural numbers may be multiplied.
LEMMA Multiplied ==
    ASSUME NEW a \in Nat, NEW b \in Nat, NEW c \in Nat, NEW d \in Nat,
           a <= b, c <= d
    PROVE  a * c <= b * d
<1>1. a * c <= b * c BY SMTT(30)
<1>2. b * c <= b * d BY SMTT(30)
<1>3. a * c \in Int /\ b * c \in Int /\ b * d \in Int OBVIOUS
<1> QED BY <1>1, <1>2, <1>3

\* What is generated after some time is generated after a longer time.
LEMMA LongerGeneratesMore ==
    ASSUME NEW t \in Nat, NEW e \in Nat, NEW a \in Nat, NEW b \in Nat,
           Power(KeepNum, t) * a <= Power(KeepDen, t) * b
    PROVE  Power(KeepNum, t + e) * a <= Power(KeepDen, t + e) * b
<1> DEFINE p == Power(KeepNum, t)  q == Power(KeepDen, t)
           u == Power(KeepNum, e)  v == Power(KeepDen, e)
           x == p * a              y == q * b
<1>1. KeepNum \in Nat /\ KeepDen \in Nat /\ KeepNum <= KeepDen
  BY GeneratorAssumption
<1>2. p \in Nat /\ q \in Nat /\ u \in Nat /\ v \in Nat /\ u <= v
  BY <1>1, PowerIs, PowerGrowsWithBase
<1>3. Power(KeepNum, t + e) = u * p /\ Power(KeepDen, t + e) = v * q
  BY <1>1, PowerOfSum
<1>4. x <= y OBVIOUS
<1> HIDE DEF p, q, u, v
<1>5. x \in Nat /\ y \in Nat BY <1>2
<1>6. (u * p) * a = u * x /\ (v * q) * b = v * y BY <1>2, SMTT(30)
<1>7. u * x <= v * y
  <2> HIDE DEF x, y
  <2> QED BY <1>2, <1>4, <1>5, Multiplied
<1> QED BY <1>3, <1>6, <1>7

\* What is generated for some that lack a thing is generated for one more.
LEMMA OneMoreGeneratesMore ==
    ASSUME NEW t \in Nat, NEW s \in Nat, NEW k \in 1 .. s,
           Power(KeepNum, t) * Power(2 * s, BaseInterval)
                <= Power(KeepDen, t) * Power(2 * s - 2 * k + 1, BaseInterval)
    PROVE  Power(KeepNum, t) * Power(2 * (s + 1), BaseInterval)
                <= Power(KeepDen, t) * Power(2 * (s + 1) - 2 * k + 1, BaseInterval)
<1> DEFINE a == 2 * s        b == 2 * s - 2 * k + 1
           c == 2 * (s + 1)  d == 2 * (s + 1) - 2 * k + 1
           N == Power(KeepNum, t)      D == Power(KeepDen, t)
           A == Power(a, BaseInterval) B == Power(b, BaseInterval)
           C == Power(c, BaseInterval) E == Power(d, BaseInterval)
<1>1. /\ KeepNum \in Nat /\ KeepDen \in Nat /\ BaseInterval \in Nat
  BY GeneratorAssumption
<1>2. a \in Nat \ {0} /\ b \in Nat /\ c \in Nat /\ d \in Nat OBVIOUS
<1>3. b * c <= d * a
  <2>1. b * c = d * a - (4 * k - 2) BY SMTT(30)
  <2> DEFINE y == d * a
  <2>2. y \in Int BY <1>2
  <2> HIDE DEF y
  <2>3. y - (4 * k - 2) <= y BY <2>2
  <2> QED BY <2>1, <2>3 DEF y
<1>4. N * A <= D * B OBVIOUS
<1> HIDE DEF a, b, c, d
<1>5. /\ N \in Nat /\ D \in Nat /\ A \in Nat /\ B \in Nat /\ C \in Nat /\ E \in Nat
      /\ A > 0
  BY <1>1, <1>2, PowerIs, PowerIsPositive
<1>6. B * C <= E * A
  <2>1. PICK p \in Nat, q \in Nat : p = b * c /\ q = d * a BY <1>2
  <2>2. Power(p, BaseInterval) <= Power(q, BaseInterval)
    BY <1>1, <1>3, <2>1, PowerGrowsWithBase
  <2>3. Power(p, BaseInterval) = B * C
    BY <1>1, <1>2, <2>1, PowerOfProduct
  <2>4. Power(q, BaseInterval) = E * A
    BY <1>1, <1>2, <2>1, PowerOfProduct
  <2> QED BY <2>2, <2>3, <2>4
<1> HIDE DEF N, D, A, B, C, E
<1> DEFINE x == N * C  y == D * E  v == N * A  w == D * B  m == B * C  l == E * A
<1>7. /\ x \in Nat /\ y \in Nat /\ v \in Nat /\ w \in Nat
      /\ m \in Nat /\ l \in Nat
  BY <1>5
<1>8. x * A = v * C /\ w * C = D * m /\ D * l = y * A BY <1>5, SMTT(30)
<1>9. v <= w /\ m <= l BY <1>4, <1>6
<1> HIDE DEF x, y, v, w, m, l
<1>10. v * C <= w * C BY <1>5, <1>7, <1>9, Multiplied
<1>11. D * m <= D * l BY <1>5, <1>7, <1>9, Multiplied
<1>12. x * A <= y * A
  <2>1. v * C \in Int /\ w * C \in Int /\ D * l \in Int BY <1>5, <1>7
  <2> QED BY <1>8, <1>10, <1>11, <2>1
<1>13. x <= y
  <2>1. SUFFICES ASSUME y < x PROVE FALSE BY <1>7
  <2>2. y * A < x * A BY <1>5, <1>7, <2>1, SMTT(30)
  <2>3. y * A \in Int /\ x * A \in Int BY <1>5, <1>7
  <2> QED BY <1>12, <2>2, <2>3
<1> QED BY <1>13 DEF x, y, N, D, C, E, c, d

\* Where more is true of more numbers, more are counted.
LEMMA MoreAreCounted ==
    ASSUME NEW m \in Nat, NEW n \in Nat, m <= n,
           NEW S \in SUBSET (1 .. m), NEW T \in SUBSET (1 .. n), S \subseteq T
    PROVE  Cardinality(S) <= Cardinality(T)
<1>1. IsFiniteSet(1 .. n) BY FS_Interval
<1>2. IsFiniteSet(T) BY <1>1, FS_Subset
<1> QED BY <1>2, FS_Subset

\* A longer time generates at least as much, and so does another looter.
LEMMA GeneratedGrows ==
    ASSUME NEW t \in Nat, NEW m \in Nat, NEW n \in Nat
    PROVE  /\ \A e \in Nat : Generated(t, m, n) <= Generated(t + e, m, n)
           /\ Generated(t, m, n) <= Generated(t, m, n + 1)
<1> DEFINE G(time, s) == {k \in 1 .. s :
               Power(KeepNum, time) * Power(2 * s, BaseInterval)
                   <= Power(KeepDen, time) * Power(2 * s - 2 * k + 1, BaseInterval)}
           s == Shortage(m, n)
           l == Shortage(m, n + 1)
<1>1. /\ Generated(t, m, n) = Cardinality(G(t, s))
      /\ Generated(t, m, n + 1) = Cardinality(G(t, l))
      /\ \A e \in Nat : Generated(t + e, m, n) = Cardinality(G(t + e, s))
  BY DEF Generated
<1>2. s \in Nat /\ l \in Nat /\ (l = s + 1 \/ s = 0)
  BY DEF Shortage
<1> HIDE DEF s, l
<1>3. ASSUME NEW e \in Nat PROVE G(t, s) \subseteq G(t + e, s)
  <2>1. SUFFICES ASSUME NEW k \in G(t, s) PROVE k \in G(t + e, s)
    OBVIOUS
  <2> DEFINE a == Power(2 * s, BaseInterval)
             b == Power(2 * s - 2 * k + 1, BaseInterval)
  <2>2. k \in 1 .. s /\ Power(KeepNum, t) * a <= Power(KeepDen, t) * b
    OBVIOUS
  <2>3. 2 * s \in Nat /\ 2 * s - 2 * k + 1 \in Nat BY <1>2, <2>2
  <2>4. a \in Nat /\ b \in Nat BY <2>3, PowerIs, GeneratorAssumption
  <2>5. Power(KeepNum, t + e) * a <= Power(KeepDen, t + e) * b
    <3> HIDE DEF a, b
    <3> QED BY <2>2, <2>4, LongerGeneratesMore
  <2> QED BY <2>2, <2>5
<1>4. CASE s = 0
  <2>1. G(t, s) = {} BY <1>4
  <2>2. \A e \in Nat : G(t + e, s) = {} BY <1>4
  <2>3. Cardinality({}) = 0 BY FS_EmptySet
  <2>4. G(t, l) \in SUBSET (1 .. l) OBVIOUS
  <2>5. Cardinality(G(t, l)) \in Nat
    <3> HIDE DEF G
    <3>1. IsFiniteSet(1 .. l) BY <1>2, FS_Interval
    <3>2. IsFiniteSet(G(t, l)) BY <2>4, <3>1, FS_Subset
    <3> QED BY <3>2, FS_CardinalityType
  <2> HIDE DEF G
  <2>6. ASSUME NEW e \in Nat PROVE Generated(t, m, n) <= Generated(t + e, m, n)
    <3>1. Generated(t, m, n) = 0 BY <1>1, <2>1, <2>3
    <3>2. Generated(t + e, m, n) = 0 BY <1>1, <2>2, <2>3
    <3> QED BY <3>1, <3>2
  <2>7. Generated(t, m, n) <= Generated(t, m, n + 1)
    BY <1>1, <2>1, <2>3, <2>5
  <2> QED BY <2>6, <2>7
<1>5. CASE l = s + 1
  <2>1. G(t, s) \subseteq G(t, l)
    <3>1. SUFFICES ASSUME NEW k \in G(t, s) PROVE k \in G(t, l)
      OBVIOUS
    <3>2. k \in 1 .. s /\ k \in 1 .. l BY <1>2, <1>5
    <3>3. Power(KeepNum, t) * Power(2 * l, BaseInterval)
            <= Power(KeepDen, t) * Power(2 * l - 2 * k + 1, BaseInterval)
      BY <1>2, <1>5, <3>2, OneMoreGeneratesMore
    <3> QED BY <3>2, <3>3
  <2>2. /\ G(t, s) \in SUBSET (1 .. s) /\ G(t, l) \in SUBSET (1 .. l)
        /\ \A e \in Nat : G(t + e, s) \in SUBSET (1 .. s)
    OBVIOUS
  <2> HIDE DEF G
  <2>3. Cardinality(G(t, s)) <= Cardinality(G(t, l))
    BY <1>2, <1>5, <2>1, <2>2, MoreAreCounted
  <2>4. ASSUME NEW e \in Nat PROVE Generated(t, m, n) <= Generated(t + e, m, n)
    <3>1. G(t, s) \subseteq G(t + e, s) BY <1>3
    <3>2. Cardinality(G(t, s)) <= Cardinality(G(t + e, s))
      <4> DEFINE S == G(t, s)
                 T == G(t + e, s)
      <4>1. S \in SUBSET (1 .. s) /\ T \in SUBSET (1 .. s) BY <2>2
      <4>2. S \subseteq T /\ s <= s BY <1>2, <3>1
      <4> HIDE DEF S, T
      <4>3. Cardinality(S) <= Cardinality(T)
        BY <1>2, <4>1, <4>2, MoreAreCounted
      <4> QED BY <4>3 DEF S, T
    <3> QED BY <1>1, <3>2
  <2> QED BY <1>1, <2>3, <2>4
<1> QED BY <1>2, <1>4, <1>5

\* Waiting pays, however the calls, the takings and the joins follow each
\* other, for every probability and base interval.
THEOREM WaitingPays == Spec => []GenerationGrowsWithTime
<1>1. Promise => GenerationGrowsWithTime
  <2> SUFFICES ASSUME Promise PROVE GenerationGrowsWithTime
    OBVIOUS
  <2> USE GeneratorAssumption DEF Promise, TypeOK
  <2>1. timeWithoutLoot \in Nat /\ loot \in Nat /\ looters \in Nat
    OBVIOUS
  <2>2. ASSUME NEW d \in Deltas
        PROVE  \E e \in Nat : After(timeWithoutLoot, d) = timeWithoutLoot + e
    <3>1. d \in Nat OBVIOUS
    <3>2. CASE timeWithoutLoot + d < TimeCap BY <3>1, <3>2 DEF After
    <3>3. CASE ~(timeWithoutLoot + d < TimeCap)
      <4> DEFINE e == TimeCap - timeWithoutLoot
      <4>1. e \in Nat /\ timeWithoutLoot + e = TimeCap OBVIOUS
      <4>2. After(timeWithoutLoot, d) = TimeCap BY <3>3 DEF After
      <4> QED BY <4>1, <4>2
    <3> QED BY <3>2, <3>3
  <2>3. ASSUME NEW d \in Deltas
        PROVE  Generated(timeWithoutLoot, loot, looters)
                 <= Generated(After(timeWithoutLoot, d), loot, looters)
    <3>1. PICK e \in Nat : After(timeWithoutLoot, d) = timeWithoutLoot + e
      BY <2>2
    <3> QED BY <2>1, <3>1, GeneratedGrows
  <2>4. Generated(timeWithoutLoot, loot, looters)
          <= Generated(timeWithoutLoot, loot, looters + 1)
    BY <2>1, GeneratedGrows
  <2> QED BY <2>3, <2>4 DEF GenerationGrowsWithTime
<1> QED BY PromiseInitially, PromiseKept, <1>1, PTL DEF Spec
-----------------------------------------------------------------------------
(* The clock.                                                              *)

LEMMA ModOfSmall == ASSUME NEW r \in Nat \ {0}, NEW x \in 0 .. r - 1 PROVE x % r = x
  OBVIOUS

LEMMA ModOfRange == ASSUME NEW r \in Nat \ {0} PROVE r % r = 0
  OBVIOUS

LEMMA ModBelowZero ==
  ASSUME NEW r \in Nat \ {0}, NEW x \in 0 .. r - 1 PROVE (x - r) % r = x
  OBVIOUS

LEMMA DivCutsOff ==
  ASSUME NEW u \in Nat \ {0}, NEW x \in Nat
  PROVE  /\ x \div u \in Nat
         /\ (x \div u) * u <= x /\ x < (x \div u + 1) * u
  OBVIOUS

\* The inductive invariant.
ClockTypes ==
    /\ now \in 0 .. MaxGap /\ lastTick \in 0 .. MaxGap
    /\ elapsed \in 0 .. MaxGap
    /\ wait \in Nat /\ handling \in BOOLEAN

ElapsedIsMeasured == now - lastTick \in {elapsed, elapsed - ClockRange}

PeriodIsWaited == ~handling => elapsed + wait >= Period * UnitsPerMs

IInv == ClockTypes /\ ElapsedIsMeasured /\ PeriodIsWaited

\* A period is a number of units, and so are the two bounds of the clock.
LEMMA PeriodUnits ==
    Period * UnitsPerMs \in Nat /\ MaxGap \in Nat /\ ClockRange \in Nat \ {0}
  BY ClockAssumption DEF ClockRange

LEMMA InvInitially == ClockInit => IInv
<1> SUFFICES ASSUME ClockInit PROVE IInv
  OBVIOUS
<1> USE DEF ClockInit
<1>1. ClockTypes
  <2>1. wait \in Nat
    BY PeriodUnits
  <2>2. 0 \in 0 .. MaxGap
    BY PeriodUnits
  <2> QED  BY <2>1, <2>2 DEF ClockTypes
<1>2. ElapsedIsMeasured
  BY DEF ElapsedIsMeasured
<1>3. PeriodIsWaited
  <2> DEFINE units == Period * UnitsPerMs
  <2> HIDE DEF units
  <2>1. units \in Nat
    BY PeriodUnits DEF units
  <2>2. elapsed = 0 /\ wait = units
    BY DEF units
  <2>3. elapsed + wait >= units
    BY <2>1, <2>2
  <2> QED  BY <2>3 DEF PeriodIsWaited, units
<1> QED  BY <1>1, <1>2, <1>3 DEF IInv

\* What is measured at a tick is what has passed since the last one.
LEMMA DeltaIsElapsed == ASSUME IInv PROVE Delta = elapsed \div UnitsPerMs
<1>1. elapsed \in 0 .. ClockRange - 1
  BY ClockAssumption DEF IInv, ClockTypes, ClockRange
<1>2. elapsed % ClockRange = elapsed /\ (elapsed - ClockRange) % ClockRange = elapsed
  BY <1>1, PeriodUnits, ModOfSmall, ModBelowZero
<1>3. (now - lastTick) % ClockRange = elapsed
  BY <1>2 DEF IInv, ElapsedIsMeasured
<1> QED  BY <1>3 DEF Delta

\* The clock goes on by one, from its last value to its first.
LEMMA ElapseKeeps == ASSUME IInv, Elapse PROVE IInv'
<1> USE ClockAssumption DEF IInv, ClockTypes, Elapse
<1>1. now' = IF now = MaxGap THEN 0 ELSE now + 1
  <2>1. CASE now = MaxGap
    BY <2>1, PeriodUnits, ModOfRange DEF ClockRange
  <2>2. CASE now # MaxGap
    <3>1. now + 1 \in 0 .. ClockRange - 1
      BY <2>2 DEF ClockRange
    <3> QED  BY <2>2, <3>1, PeriodUnits, ModOfSmall
  <2> QED  BY <2>1, <2>2
<1>2. ClockTypes'
  BY <1>1
<1>3. ElapsedIsMeasured'
  BY <1>1 DEF ElapsedIsMeasured, ClockRange
<1>4. PeriodIsWaited'
  BY PeriodUnits DEF PeriodIsWaited
<1> QED  BY <1>2, <1>3, <1>4

LEMMA InvKept == IInv /\ [ClockNext]_clockVars => IInv'
<1> SUFFICES ASSUME IInv, [ClockNext]_clockVars PROVE IInv'
  OBVIOUS
<1>1. CASE OnTick
  BY <1>1, ClockAssumption
     DEF OnTick, OnTickSince, IInv, ClockTypes, ElapsedIsMeasured, PeriodIsWaited
<1>2. CASE EndTick
  <2> DEFINE units == Period * UnitsPerMs
  <2>1. wait' = units /\ UNCHANGED <<now, lastTick, elapsed>> /\ ~handling'
    BY <1>2 DEF EndTick, ScheduleTick
  <2>2. units \in Nat
    BY PeriodUnits
  <2> HIDE DEF units
  <2>3. ClockTypes' /\ ElapsedIsMeasured'
    BY <1>2, <2>1, <2>2 DEF EndTick, IInv, ClockTypes, ElapsedIsMeasured
  <2>4. elapsed' + wait' >= units
    BY <2>1, <2>2 DEF IInv, ClockTypes
  <2> QED  BY <2>3, <2>4 DEF IInv, PeriodIsWaited, units
<1>3. CASE UNCHANGED tickerVars
  BY <1>3 DEF tickerVars, IInv, ClockTypes, ElapsedIsMeasured, PeriodIsWaited
<1> QED  BY <1>1, <1>2, <1>3, ElapseKeeps DEF ClockNext, clockVars

\* A tick begins in OnTick and nowhere else.
LEMMA TickIsOnTick ==
  ASSUME IInv, [ClockNext]_clockVars, TickBegins PROVE OnTick
<1>1. ~Elapse /\ ~EndTick /\ ~UNCHANGED tickerVars
  BY DEF TickBegins, IInv, ClockTypes, Elapse, EndTick, tickerVars
<1> QED  BY <1>1 DEF ClockNext, clockVars

LEMMA ClockInvariant == ClockSpec => []IInv
  BY InvInitially, InvKept, PTL DEF ClockSpec

\* The game is told of all the time there is, once, but for fractions of a
\* millisecond: for every period, resolution and length of delays and handlers.
THEOREM GameIsToldTheTime == ClockSpec => TicksTellTheTime
<1>1. IInv /\ [ClockNext]_clockVars =>
        [TickBegins => /\ told' * UnitsPerMs <= elapsed
                       /\ elapsed < (told' + 1) * UnitsPerMs]_clockVars
  <2> SUFFICES ASSUME IInv, [ClockNext]_clockVars, TickBegins
               PROVE  /\ told' * UnitsPerMs <= elapsed
                      /\ elapsed < (told' + 1) * UnitsPerMs
    OBVIOUS
  <2>1. told' = elapsed \div UnitsPerMs
    BY TickIsOnTick, DeltaIsElapsed DEF OnTick, OnTickSince
  <2>2. elapsed \in Nat /\ UnitsPerMs \in Nat \ {0}
    BY ClockAssumption DEF IInv, ClockTypes
  <2> QED  BY <2>1, <2>2, DivCutsOff
<1> QED  BY <1>1, ClockInvariant, PTL DEF ClockSpec, TicksTellTheTime

\* Two ticks are at least a period apart, however late the first was and however
\* long it took.
THEOREM TicksAreAPeriodApart == ClockSpec => TicksKeepTheirDistance
<1>1. IInv /\ [ClockNext]_clockVars =>
        [TickBegins => elapsed >= Period * UnitsPerMs]_clockVars
  <2> SUFFICES ASSUME IInv, [ClockNext]_clockVars, TickBegins
               PROVE  elapsed >= Period * UnitsPerMs
    OBVIOUS
  <2>1. ~handling /\ wait = 0
    BY TickIsOnTick DEF OnTick, OnTickSince
  <2> QED  BY <2>1, PeriodUnits DEF IInv, ClockTypes, PeriodIsWaited
<1> QED  BY <1>1, ClockInvariant, PTL DEF ClockSpec, TicksKeepTheirDistance

\* The ticker and the session together call the generator as its specification
\* expects, whatever is cut off on the way, so the map of a session is not flooded.
THEOREM ClockDrivesGenerator == ClockSpec => Spec /\ []LootNeverExceedsLooters
<1>1. ClockInit => Init
  BY DEF ClockInit
<1>2. IInv /\ [ClockNext]_clockVars => [Next]_vars
  <2> SUFFICES ASSUME IInv, [ClockNext]_clockVars PROVE [Next]_vars
    OBVIOUS
  <2>1. CASE OnTick
    <3>1. SetTimeShift(Delta)
      BY <2>1 DEF OnTick, OnTickSince
    <3>2. Delta \div MsPerSecond \in Deltas
      BY DeltaIsElapsed, ClockAssumption DEF IInv, ClockTypes
    <3>3. CASE looters > 0
      <4>1. Generate(Delta \div MsPerSecond)
        BY <3>1, <3>3 DEF SetTimeShift
      <4> QED  BY <3>2, <4>1 DEF Next
    <3>4. CASE ~(looters > 0)
      BY <3>1, <3>4 DEF SetTimeShift
    <3> QED  BY <3>3, <3>4
  <2>2. CASE Elapse \/ EndTick \/ UNCHANGED clockVars
    BY <2>2 DEF Elapse, EndTick, clockVars
  <2>3. CASE Taken \/ Join
    BY <2>3 DEF Next
  <2> QED  BY <2>1, <2>2, <2>3 DEF ClockNext
<1>3. Spec => []LootNeverExceedsLooters
  BY MapIsNotFlooded
<1> QED  BY <1>1, <1>2, <1>3, ClockInvariant, PTL DEF ClockSpec, Spec
=============================================================================
