-------------------------- MODULE ModularArithmetic --------------------------
(***************************************************************************)
(* Facts about % that the ring structures rest on: their indices wrap, the  *)
(* histories they stand for do not.  And loops: what holds before the first *)
(* pass, and after a pass when it held before, holds after each of them.    *)
(***************************************************************************)
EXTENDS Integers, WellFoundedInduction, TLAPS

\* A number is its quotient times the modulus plus its remainder.
LEMMA DivMod ==
  ASSUME NEW a \in Int, NEW m \in Nat \ {0}
  PROVE  /\ a \div m \in Int /\ a % m \in 0..m-1
         /\ a = m * (a \div m) + (a % m)
  OBVIOUS

\* The remainder is the only number of 0..m-1 that far from a multiple of m.
LEMMA ModUnique ==
  ASSUME NEW a \in Int, NEW m \in Nat \ {0}, NEW q \in Int, NEW r \in 0..m-1,
         a = m * q + r
  PROVE  a % m = r
<1> DEFINE p == a \div m
           s == a % m
<1>1. p \in Int /\ s \in 0..m-1 /\ a = m * p + s
  BY DivMod
<1>2. m * (p - q) = r - s
  BY <1>1
<1>3. p - q < 1
  <2> SUFFICES ASSUME p - q >= 1 PROVE FALSE
    BY <1>1
  <2>1. m * (p - q) >= m
    BY <1>1
  <2> QED BY <2>1, <1>1, <1>2
<1>4. p - q > -1
  <2> SUFFICES ASSUME q - p >= 1 PROVE FALSE
    BY <1>1
  <2>1. m * (q - p) >= m
    BY <1>1
  <2> QED BY <2>1, <1>1, <1>2
<1>5. p = q
  BY <1>1, <1>3, <1>4
<1> QED BY <1>1, <1>5

\* A number below the modulus is its own remainder.
LEMMA ModSmall ==
  ASSUME NEW m \in Nat \ {0}, NEW a \in 0..m-1
  PROVE  a % m = a
<1>1. a = m * 0 + a
  OBVIOUS
<1> QED BY <1>1, ModUnique

\* Multiples of the modulus do not change the remainder.
LEMMA ModShift ==
  ASSUME NEW a \in Int, NEW k \in Int, NEW m \in Nat \ {0}
  PROVE  (a + m * k) % m = a % m
<1>1. /\ a \div m \in Int /\ a % m \in 0..m-1
      /\ a = m * (a \div m) + (a % m)
  BY DivMod
<1>2. a + m * k = m * ((a \div m) + k) + (a % m)
  BY <1>1
<1>3. a + m * k \in Int /\ (a \div m) + k \in Int
  BY <1>1
<1> QED BY <1>1, <1>2, <1>3, ModUnique

\* Wrapping before an addition makes no difference.
LEMMA ModAdd ==
  ASSUME NEW a \in Int, NEW b \in Int, NEW m \in Nat \ {0}
  PROVE  ((a % m) + b) % m = (a + b) % m
<1>1. /\ a \div m \in Int /\ a % m \in Int
      /\ a = m * (a \div m) + (a % m)
  BY DivMod
<1> DEFINE x == (a % m) + b
           k == a \div m
<1>2. x \in Int /\ k \in Int /\ a + b = x + m * k
  BY <1>1
<1> HIDE DEF x, k
<1>3. (x + m * k) % m = x % m
  BY <1>2, ModShift
<1> QED BY <1>2, <1>3 DEF x

\* Wrapping before a subtraction makes no difference.
LEMMA ModSub ==
  ASSUME NEW a \in Int, NEW b \in Int, NEW m \in Nat \ {0}
  PROVE  ((a % m) - (b % m)) % m = (a - b) % m
<1>1. /\ a \div m \in Int /\ a % m \in Int
      /\ a = m * (a \div m) + (a % m)
  BY DivMod
<1>2. /\ b \div m \in Int /\ b % m \in Int
      /\ b = m * (b \div m) + (b % m)
  BY DivMod
<1> DEFINE x == (a % m) - (b % m)
           k == (a \div m) - (b \div m)
<1>3. x \in Int /\ k \in Int /\ a - b = x + m * k
  BY <1>1, <1>2
<1> HIDE DEF x, k
<1>4. (x + m * k) % m = x % m
  BY <1>3, ModShift
<1> QED BY <1>3, <1>4 DEF x

\* Wrapping at a multiple of the modulus makes no difference.
LEMMA ModMod ==
  ASSUME NEW a \in Int, NEW c \in Nat \ {0}, NEW m \in Nat \ {0}, m % c = 0
  PROVE  (a % m) % c = a % c
<1> DEFINE p == a \div m
           k == m \div c
<1>1. p \in Int /\ a % m \in Int /\ a = m * p + (a % m)
  BY DivMod
<1>2. k \in Int /\ m = c * k
  BY DivMod
<1>3. m * p = c * (k * p)
  BY <1>1, <1>2
<1> DEFINE x == a % m
           q == k * p
<1>4. x \in Int /\ q \in Int /\ a = x + c * q
  BY <1>1, <1>2, <1>3
<1> HIDE DEF x, q
<1>5. (x + c * q) % c = x % c
  BY <1>4, ModShift
<1> QED BY <1>4, <1>5 DEF x

\* Two numbers less than the modulus apart have different remainders.
LEMMA ModInjective ==
  ASSUME NEW a \in Int, NEW b \in Int, NEW m \in Nat \ {0},
         b < a, a < b + m
  PROVE  a % m # b % m
<1> SUFFICES ASSUME a % m = b % m PROVE FALSE
  OBVIOUS
<1>1. (a - b) % m = ((a % m) - (b % m)) % m
  BY ModSub
<1>2. a % m \in Int /\ b % m \in Int
  BY DivMod
<1>3. (a - b) % m = 0 % m
  BY <1>1, <1>2
<1>4. a - b \in 0..m-1 /\ 0 \in 0..m-1
  OBVIOUS
<1> QED BY <1>3, <1>4, ModSmall

-----------------------------------------------------------------------------
(* Indices of a ring of c blocks of b elements *)

\* The quotient is the only number that leaves a remainder below the modulus.
LEMMA DivUnique ==
  ASSUME NEW a \in Int, NEW m \in Nat \ {0}, NEW q \in Int, NEW r \in 0..m-1,
         a = m * q + r
  PROVE  a \div m = q
<1>1. /\ a \div m \in Int /\ a = m * (a \div m) + (a % m)
  BY DivMod
<1>2. a % m = r
  BY ModUnique
<1>3. m * ((a \div m) - q) = 0
  BY <1>1, <1>2
<1> DEFINE d == (a \div m) - q
<1>4. d \in Int /\ m * d = 0
  BY <1>1, <1>3
<1> HIDE DEF d
<1>5. d = 0
  BY <1>4
<1> QED BY <1>1, <1>5 DEF d

\* Walking n elements on from index a: how many blocks that enters, and at
\* which offset of the last one it ends, depends on the offset of a alone.
LEMMA DivAdvance ==
  ASSUME NEW a \in Nat, NEW n \in Nat, NEW b \in Nat \ {0}
  PROVE  /\ (a + n) \div b = (a \div b) + (((a % b) + n) \div b)
         /\ (a + n) % b = ((a % b) + n) % b
<1> DEFINE q == a \div b
           x == (a % b) + n
           p == x \div b
           r == x % b
<1>1. q \in Int /\ x \in Int /\ a + n = b * q + x
  BY DivMod
<1>2. p \in Int /\ r \in 0..b-1 /\ x = b * p + r
  <2> HIDE DEF x
  <2> QED BY <1>1, DivMod
<1> HIDE DEF q, x, p, r
<1>3. a + n = b * (q + p) + r
  BY <1>1, <1>2
<1>4. a + n \in Int /\ q + p \in Int
  BY <1>1, <1>2
<1>5. (a + n) \div b = q + p
  BY <1>2, <1>3, <1>4, DivUnique
<1>6. (a + n) % b = r
  BY <1>2, <1>3, <1>4, ModUnique
<1> QED BY <1>5, <1>6 DEF q, p, x, r

\* The block and the offset of an index of a ring, after wrapping.
LEMMA DivWrap ==
  ASSUME NEW a \in Nat, NEW b \in Nat \ {0}, NEW c \in Nat \ {0}
  PROVE  /\ (a % (b * c)) \div b = (a \div b) % c
         /\ (a % (b * c)) % b = a % b
<1> DEFINE q == a \div b
           r == a % b
           p == q \div c
           s == q % c
<1>1. q \in Int /\ r \in 0..b-1 /\ a = b * q + r
  BY DivMod
<1>2. p \in Int /\ s \in 0..c-1 /\ q = c * p + s
  <2> HIDE DEF q
  <2> QED BY <1>1, DivMod
<1>3. b * c \in Nat \ {0}
  OBVIOUS
<1> DEFINE m == b * c
           t == b * s + r
<1> HIDE DEF q, r, p, s
<1>4. b * (c * p + s) = (b * c) * p + b * s
  BY <1>2
<1>5. a = m * p + t
  BY <1>1, <1>2, <1>4
<1>6. t \in 0..m-1
  <2>1. b * s \in Nat /\ b * s <= b * (c - 1)
    BY <1>2
  <2>2. b * (c - 1) = b * c - b
    OBVIOUS
  <2> QED BY <2>1, <2>2, <1>1
<1>7. a % m = t
  <2>1. m \in Nat \ {0} /\ a \in Int /\ p \in Int
    BY <1>2, <1>3
  <2> HIDE DEF m, t
  <2> QED BY <2>1, <1>5, <1>6, ModUnique
<1>8. t \div b = s /\ t % b = r
  <2>1. t \in Int /\ s \in Int /\ t = b * s + r
    BY <1>1, <1>2
  <2> HIDE DEF t
  <2> QED BY <2>1, <1>1, DivUnique, ModUnique
<1> HIDE DEF t
<1> QED BY <1>7, <1>8 DEF q, r, s

\* An index whose block wraps keeps its offset.
LEMMA ModBlock ==
  ASSUME NEW q \in Nat, NEW b \in Nat \ {0}, NEW c \in Nat \ {0}, NEW r \in 0..b-1
  PROVE  (b * q + r) % (b * c) = b * (q % c) + r
<1> DEFINE a == b * q + r
           m == b * c
<1>1. a \in Nat /\ m \in Nat \ {0} /\ a % m \in Int
  <2>1. a \in Nat /\ m \in Nat \ {0}
    OBVIOUS
  <2> HIDE DEF a, m
  <2> QED BY <2>1, DivMod
<1>2. a \div b = q /\ a % b = r
  <2>1. a \in Int
    BY <1>1
  <2> QED BY <2>1, DivUnique, ModUnique
<1> HIDE DEF a
<1>3. (a % m) \div b = q % c /\ (a % m) % b = r
  BY <1>1, <1>2, DivWrap
<1> HIDE DEF m
<1>4. a % m = b * ((a % m) \div b) + ((a % m) % b)
  BY <1>1, DivMod
<1> QED BY <1>3, <1>4 DEF a, m

-----------------------------------------------------------------------------
(* Loops *)

\* A set of numbers that is not empty has a least one: what takes the place of
\* induction below, a counterexample being the least.
LEMMA LeastNumber ==
  ASSUME NEW U, U \subseteq Nat, U # {}
  PROVE  \E n \in U : \A m \in U : n <= m
<1> DEFINE R == OpToRel(<, Nat)
<1>1. IsWellFoundedOn(R, Nat)
  BY NatLessThanWellFounded
<1>2. \A x, y \in Nat : <<y, x>> \in R <=> y < x
  BY DEF OpToRel
<1> HIDE DEF R
<1>3. PICK n \in U : \A m \in U : ~(<<m, n>> \in R)
  BY <1>1, WFMin, Zenon
<1>4. \A m \in U : n <= m
  <2>1. ASSUME NEW m \in U PROVE n <= m
    <3>1. m \in Nat /\ n \in Nat
      OBVIOUS
    <3>2. ~(m < n)
      BY <1>2, <1>3, <3>1
    <3> QED BY <3>1, <3>2
  <2> QED BY <2>1
<1> QED BY <1>4

\* What a loop has after each of its passes: a function on the passes that is
\* made from its value one pass before.
IsIterate(f, start, step, passes) ==
  f = [n \in 0..passes |-> IF n = 0 THEN start ELSE step[<<f[n - 1], n>>]]

\* There is such a function.
LEMMA IterateExists ==
  ASSUME NEW S, NEW start \in S, NEW step \in [S \X Nat -> S], NEW passes \in Nat
  PROVE  \E f \in [0..passes -> S] : IsIterate(f, start, step, passes)
<1> DEFINE Has(k) == \E f \in [0..k -> S] : IsIterate(f, start, step, k)
           U == {k \in Nat : ~Has(k)}
<1>1. SUFFICES ASSUME U # {} PROVE FALSE
  OBVIOUS
<1>2. PICK k \in U : \A m \in U : k <= m
  <2>1. U \subseteq Nat
    OBVIOUS
  <2> HIDE DEF U
  <2> QED BY <1>1, <2>1, LeastNumber
<1>3. k # 0
  <2> DEFINE f == [n \in 0..0 |-> start]
  <2>1. f \in [0..0 -> S] /\ DOMAIN f = 0..0
    OBVIOUS
  <2>2. f = [n \in 0..0 |-> IF n = 0 THEN start ELSE step[<<f[n - 1], n>>]]
    OBVIOUS
  <2> HIDE DEF f
  <2>3. Has(0)
    BY <2>1, <2>2 DEF IsIterate
  <2> QED BY <1>2, <2>3
<1>4. k - 1 \in Nat /\ Has(k - 1)
  BY <1>2, <1>3
<1>5. PICK g \in [0..(k - 1) -> S] : IsIterate(g, start, step, k - 1)
  BY <1>4
<1> DEFINE last == step[<<g[k - 1], k>>]
           f == [n \in 0..k |-> IF n < k THEN g[n] ELSE last]
<1>6. k \in Nat /\ k - 1 \in 0..(k - 1) /\ last \in S
  <2>1. k \in Nat /\ k - 1 \in 0..(k - 1)
    BY <1>2, <1>4
  <2>2. g[k - 1] \in S /\ <<g[k - 1], k>> \in S \X Nat
    BY <2>1
  <2> QED BY <2>1, <2>2
<1>7. \A n \in 0..(k - 1) : g[n] = IF n = 0 THEN start ELSE step[<<g[n - 1], n>>]
  BY <1>5 DEF IsIterate
<1> HIDE DEF last, U, Has
<1>8. f \in [0..k -> S]
  <2>1. \A n \in 0..k : n < k => n \in 0..(k - 1)
    BY <1>6
  <2> QED BY <1>6, <2>1
<1>9. ASSUME NEW n \in 0..k PROVE f[n] = IF n = 0 THEN start ELSE step[<<f[n - 1], n>>]
  <2>1. CASE n < k
    <3>1. n \in 0..(k - 1) /\ (n # 0 => n - 1 \in 0..(k - 1) /\ n - 1 \in 0..k /\ n - 1 < k)
      BY <1>6, <2>1
    <3> QED BY <1>7, <2>1, <3>1
  <2>2. CASE n = k
    <3>1. f[n] = last /\ f[n - 1] = g[k - 1]
      BY <1>6, <1>4, <2>2
    <3> QED BY <1>3, <2>2, <3>1 DEF last
  <2> QED BY <1>6, <2>1, <2>2
<1>10. IsIterate(f, start, step, k)
  <2>1. f = [n \in 0..k |-> f[n]]
    OBVIOUS
  <2> HIDE DEF f
  <2> QED BY <1>9, <2>1 DEF IsIterate
<1>11. Has(k)
  BY <1>8, <1>10 DEF Has
<1> QED BY <1>2, <1>11 DEF U

\* Induction, over the numbers of a set.
LEMMA EveryPass ==
  ASSUME NEW passes \in Nat, NEW P, 0 \in P, \A n \in 0..(passes - 1) : n \in P => n + 1 \in P
  PROVE  \A n \in 0..passes : n \in P
<1> DEFINE U == {n \in Nat : n <= passes /\ n \notin P}
<1>1. SUFFICES ASSUME U # {} PROVE FALSE
  OBVIOUS
<1>2. PICK k \in U : \A m \in U : k <= m
  <2>1. U \subseteq Nat
    OBVIOUS
  <2> HIDE DEF U
  <2> QED BY <1>1, <2>1, LeastNumber
<1>3. k \in Nat /\ k <= passes /\ k \notin P /\ k # 0
  BY <1>2
<1>4. k - 1 \in 0..(passes - 1) /\ k - 1 \in Nat /\ ~(k <= k - 1) /\ (k - 1) + 1 = k
  BY <1>3
<1>5. k - 1 \in P
  BY <1>2, <1>4
<1>6. (k - 1) + 1 \in P
  BY <1>4, <1>5
<1> QED BY <1>3, <1>4, <1>6
=============================================================================
