------------------------- MODULE ThreatIntelProofs -------------------------
(***************************************************************************)
(* Proof that every table, snapshot and operation in flight of ThreatIntel *)
(* keeps its type, and that no copy of a source's row, stored, computed by *)
(* a request or listed by the decay worker, is banned for a while and for  *)
(* good at once or holds more XP than its level allows.                    *)
(*                                                                         *)
(* None of this is inductive by itself: a row is computed in one step and  *)
(* saved in another, so the invariant also says what the operations in     *)
(* flight look like (ReqOK, DwOK) and that every row they carry is sound   *)
(* (RowOK).  That scoring and decay keep a row sound is arithmetic, and    *)
(* comes first, with the proof that the loops of the code (module          *)
(* ThreatScoreLoops) compute that arithmetic.                              *)
(***************************************************************************)
EXTENDS ThreatIntel, ThreatScoreLoops, TLAPS, WellFoundedInduction

-----------------------------------------------------------------------------
(* Scoring: thresholds, decay, the level-up loop. *)

(* A set of naturals that is not empty has a least element. *)
LEMMA Least ==
    ASSUME NEW T, T \subseteq Nat, T # {}
    PROVE  \E n \in T : \A m \in T : n <= m
<1> DEFINE R == OpToRel(<, Nat)
<1>1. IsWellFoundedOn(R, Nat)
  BY NatLessThanWellFounded
<1>2. \A x, y \in Nat : x < y => <<x, y>> \in R
  BY DEF OpToRel
<1> HIDE DEF R
<1>3. PICK n \in T : \A m \in T : ~ (<<m, n>> \in R)
  BY <1>1, WFMin
<1>4. ASSUME NEW m \in T PROVE n <= m
  <2>1. n \in Nat /\ m \in Nat /\ ~(m < n)
    BY <1>2, <1>3
  <2> QED BY <2>1
<1> QED BY <1>3, <1>4

(* Induction, in the form the provers can instantiate: over a set. *)
LEMMA Inductive ==
    ASSUME NEW S, 0 \in S, \A n \in Nat : n \in S => n + 1 \in S
    PROVE  Nat \subseteq S
<1> DEFINE T == Nat \ S
<1> SUFFICES ASSUME T # {} PROVE FALSE
  OBVIOUS
<1>1. PICK n \in T : \A m \in T : n <= m
  BY Least
<1>2. n \in Nat /\ n # 0 /\ n - 1 \in Nat
  BY <1>1
<1>3. n - 1 \in S
  BY <1>1, <1>2
<1>4. (n - 1) + 1 \in S
  BY <1>2, <1>3
<1> QED BY <1>1, <1>2, <1>4

(* The values of a recursion up to n: from v at 0, by h[i] at i. *)
Upto(V, v, h, n, g) ==
    /\ g \in [0..n -> V] /\ g[0] = v
    /\ \A i \in 1..n : g[i] = h[i][g[i - 1]]

(* A recursion has values up to every n. *)
LEMMA UptoExists ==
    ASSUME NEW V, NEW v \in V, NEW h \in [Nat -> [V -> V]], NEW n \in Nat
    PROVE  \E g : Upto(V, v, h, n, g)
<1> DEFINE S == {k \in Nat : \E g : Upto(V, v, h, k, g)}
<1>1. 0 \in S
  <2> DEFINE g == [i \in 0..0 |-> v]
  <2>1. Upto(V, v, h, 0, g)
    BY DEF Upto
  <2> QED BY <2>1
<1>2. ASSUME NEW k \in Nat, k \in S PROVE k + 1 \in S
  <2>1. PICK g : Upto(V, v, h, k, g)
    BY <1>2
  <2> DEFINE w == h[k + 1][g[k]]
             f == [i \in 0..(k + 1) |-> IF i = k + 1 THEN w ELSE g[i]]
  <2>2. g \in [0..k -> V] /\ g[0] = v /\ \A i \in 1..k : g[i] = h[i][g[i - 1]]
    BY <2>1 DEF Upto
  <2>3. w \in V
    BY <2>2
  <2>4. f \in [0..(k + 1) -> V] /\ f[0] = v
    BY <2>2, <2>3
  <2>5. ASSUME NEW i \in 1..(k + 1) PROVE f[i] = h[i][f[i - 1]]
    <3>1. CASE i = k + 1
      BY <3>1
    <3>2. CASE i # k + 1
      <4>1. i \in 1..k /\ f[i] = g[i] /\ f[i - 1] = g[i - 1]
        BY <3>2
      <4> QED BY <2>2, <4>1
    <3> QED BY <3>1, <3>2
  <2> HIDE DEF f
  <2>6. Upto(V, v, h, k + 1, f)
    BY <2>4, <2>5 DEF Upto
  <2> QED BY <2>6
<1> HIDE DEF S
<1>3. Nat \subseteq S
  BY <1>1, <1>2, Inductive
<1> QED BY <1>3 DEF S

(* ... and they do not depend on how far it is followed. *)
LEMMA UptoAgree ==
    ASSUME NEW V, NEW v \in V, NEW h \in [Nat -> [V -> V]], NEW n \in Nat,
           NEW f, NEW g, Upto(V, v, h, n, f), Upto(V, v, h, n + 1, g)
    PROVE  f[n] = g[n]
<1> DEFINE S == {k \in Nat : k <= n => f[k] = g[k]}
<1>1. 0 \in S
  BY DEF Upto
<1>2. ASSUME NEW k \in Nat, k \in S PROVE k + 1 \in S
  <2> SUFFICES ASSUME k + 1 <= n PROVE f[k + 1] = g[k + 1]
    OBVIOUS
  <2>1. k + 1 \in 1..n /\ k + 1 \in 1..(n + 1) /\ (k + 1) - 1 = k /\ f[k] = g[k]
    BY <1>2
  <2>2. f[k + 1] = h[k + 1][f[k]] /\ g[k + 1] = h[k + 1][g[k]]
    BY <2>1 DEF Upto
  <2> QED BY <2>1, <2>2
<1> HIDE DEF S
<1>3. Nat \subseteq S
  BY <1>1, <1>2, Inductive
<1> QED BY <1>3 DEF S

(* So there is a function with a given start and step: what a recursive    *)
(* definition over Nat needs to mean its own equation.                     *)
LEMMA Recursion ==
    ASSUME NEW V, NEW v \in V, NEW h \in [Nat -> [V -> V]]
    PROVE  \E f \in [Nat -> V] : \A n \in Nat : f[n] = IF n = 0 THEN v ELSE h[n][f[n - 1]]
<1> DEFINE G(n) == CHOOSE g : Upto(V, v, h, n, g)
           f == [n \in Nat |-> G(n)[n]]
<1>1. ASSUME NEW n \in Nat PROVE Upto(V, v, h, n, G(n))
  BY UptoExists
<1> HIDE DEF G
<1>2. ASSUME NEW n \in Nat PROVE f[n] \in V /\ f[n] = G(n)[n]
  BY <1>1 DEF Upto
<1>3. ASSUME NEW n \in Nat PROVE f[n] = IF n = 0 THEN v ELSE h[n][f[n - 1]]
  <2>1. CASE n = 0
    BY <1>1, <1>2, <2>1 DEF Upto
  <2>2. CASE n # 0
    <3>1. n - 1 \in Nat /\ (n - 1) + 1 = n /\ n \in 1..n
      BY <2>2
    <3>2. G(n - 1)[n - 1] = G(n)[n - 1]
      BY <1>1, <3>1, UptoAgree
    <3>3. G(n)[n] = h[n][G(n)[n - 1]]
      BY <1>1, <3>1 DEF Upto
    <3> QED BY <1>2, <2>2, <3>1, <3>2, <3>3
  <2> QED BY <2>1, <2>2
<1>4. f \in [Nat -> V]
  BY <1>2
<1> HIDE DEF f
<1> QED BY <1>3, <1>4

(* eightTo satisfies its equation. *)
LEMMA EightTo == eightTo = [n \in Nat |-> IF n = 0 THEN 1 ELSE 8 * eightTo[n - 1]]
<1> DEFINE V == Nat
           v == 1
           h == [n \in Nat |-> [x \in V |-> 8 * x]]
<1>1. h \in [Nat -> [V -> V]] /\ v \in V
  OBVIOUS
<1>2. \A n \in Nat, x \in V : h[n][x] = 8 * x
  OBVIOUS
<1> HIDE DEF V, v, h
<1>3. PICK f \in [Nat -> V] : \A n \in Nat : f[n] = IF n = 0 THEN v ELSE h[n][f[n - 1]]
  BY <1>1, Recursion
<1>4. ASSUME NEW n \in Nat PROVE f[n] = IF n = 0 THEN v ELSE 8 * f[n - 1]
  <2>1. n # 0 => n - 1 \in Nat /\ f[n - 1] \in V
    BY <1>3
  <2> QED BY <1>2, <1>3, <2>1
<1>5. f = [n \in Nat |-> IF n = 0 THEN 1 ELSE 8 * f[n - 1]]
  BY <1>3, <1>4 DEF v
<1>6. \E g : g = [n \in Nat |-> IF n = 0 THEN 1 ELSE 8 * g[n - 1]]
  BY <1>5
<1> QED BY <1>6, Zenon DEF eightTo

(* fiveTo satisfies its equation. *)
LEMMA FiveTo == fiveTo = [n \in Nat |-> IF n = 0 THEN 1 ELSE 5 * fiveTo[n - 1]]
<1> DEFINE V == Nat
           v == 1
           h == [n \in Nat |-> [x \in V |-> 5 * x]]
<1>1. h \in [Nat -> [V -> V]] /\ v \in V
  OBVIOUS
<1>2. \A n \in Nat, x \in V : h[n][x] = 5 * x
  OBVIOUS
<1> HIDE DEF V, v, h
<1>3. PICK f \in [Nat -> V] : \A n \in Nat : f[n] = IF n = 0 THEN v ELSE h[n][f[n - 1]]
  BY <1>1, Recursion
<1>4. ASSUME NEW n \in Nat PROVE f[n] = IF n = 0 THEN v ELSE 5 * f[n - 1]
  <2>1. n # 0 => n - 1 \in Nat /\ f[n - 1] \in V
    BY <1>3
  <2> QED BY <1>2, <1>3, <2>1
<1>5. f = [n \in Nat |-> IF n = 0 THEN 1 ELSE 5 * f[n - 1]]
  BY <1>3, <1>4 DEF v
<1>6. \E g : g = [n \in Nat |-> IF n = 0 THEN 1 ELSE 5 * g[n - 1]]
  BY <1>5
<1> QED BY <1>6, Zenon DEF fiveTo

(* Both equations, at one level. *)
LEMMA Equations ==
    ASSUME NEW n \in Nat
    PROVE  /\ eightTo[n] = IF n = 0 THEN 1 ELSE 8 * eightTo[n - 1]
           /\ fiveTo[n] = IF n = 0 THEN 1 ELSE 5 * fiveTo[n - 1]
BY EightTo, FiveTo

(* What the powers are: naturals, and 8^n is the larger. *)
LEMMA Powers ==
    \A n \in Nat : eightTo[n] \in Nat /\ fiveTo[n] \in Nat \ {0} /\ fiveTo[n] <= eightTo[n]
<1> DEFINE S == {n \in Nat : eightTo[n] \in Nat /\ fiveTo[n] \in Nat \ {0} /\ fiveTo[n] <= eightTo[n]}
<1>1. 0 \in S
  BY Equations
<1>2. ASSUME NEW n \in Nat, n \in S PROVE n + 1 \in S
  <2>1. eightTo[n + 1] = 8 * eightTo[n] /\ fiveTo[n + 1] = 5 * fiveTo[n]
    BY Equations
  <2> QED BY <1>2, <2>1
<1> HIDE DEF S
<1>3. Nat \subseteq S
  BY <1>1, <1>2, Inductive
<1> QED BY <1>3 DEF S

(* Integer division. *)
LEMMA Division ==
    ASSUME NEW x \in Nat, NEW b \in Nat \ {0}
    PROVE  x \div b \in Nat /\ (x \div b) * b <= x /\ x < (x \div b) * b + b
OBVIOUS

(* A positive factor cancels. *)
LEMMA Cancel == ASSUME NEW x \in Int, NEW y \in Int, NEW b \in Nat \ {0}, x * b < y * b PROVE x < y
OBVIOUS

(* threatLevelThreshold rounds 10 * (8/5)^level to the nearest. *)
LEMMA Threshold ==
    ASSUME NEW l \in Nat
    PROVE  LET p == threatLevelThreshold(l)
           IN  /\ p \in Nat
               /\ 2 * (p * fiveTo[l]) <= 20 * eightTo[l] + fiveTo[l]
               /\ 20 * eightTo[l] < 2 * (p * fiveTo[l]) + fiveTo[l]
<1> DEFINE a == eightTo[l]
           b == fiveTo[l]
           p == threatLevelThreshold(l)
<1>1. a \in Nat /\ b \in Nat \ {0}
  BY Powers
<1>2. p = (20 * a + b) \div (2 * b)
  BY DEF threatLevelThreshold
<1> HIDE DEF a, b, p
<1>3. 20 * a + b \in Nat /\ 2 * b \in Nat \ {0}
  BY <1>1
<1>4. p \in Nat /\ p * (2 * b) <= 20 * a + b /\ 20 * a + b < p * (2 * b) + 2 * b
  BY <1>2, <1>3, Division
<1>5. p * (2 * b) = 2 * (p * b) /\ p * b \in Nat
  BY <1>1, <1>4
<1>6. p \in Nat /\ 2 * (p * b) <= 20 * a + b /\ 20 * a < 2 * (p * b) + b
  BY <1>1, <1>4, <1>5
<1> QED BY <1>6 DEF a, b, p

(* No level is free of charge. *)
LEMMA ThresholdPositive ==
    ASSUME NEW l \in Nat
    PROVE  threatLevelThreshold(l) \in Nat \ {0}
<1> DEFINE a == eightTo[l]
           b == fiveTo[l]
           p == threatLevelThreshold(l)
<1>1. a \in Nat /\ b \in Nat \ {0} /\ b <= a
  BY Powers
<1>2. p \in Nat /\ 20 * a < 2 * (p * b) + b
  BY Threshold
<1> HIDE DEF a, b, p
<1>3. p # 0
  BY <1>1, <1>2
<1> QED BY <1>2, <1>3 DEF p

(* The next threshold is larger, but by less than 100/56. *)
LEMMA NextThreshold ==
    ASSUME NEW l \in Nat
    PROVE  /\ threatLevelThreshold(l) <= threatLevelThreshold(l + 1)
           /\ 56 * threatLevelThreshold(l + 1) <= 100 * threatLevelThreshold(l)
<1> DEFINE a == eightTo[l]
           b == fiveTo[l]
           p == threatLevelThreshold(l)
           q == threatLevelThreshold(l + 1)
<1>1. a \in Nat /\ b \in Nat \ {0} /\ b <= a
  BY Powers
<1>2. eightTo[l + 1] = 8 * a /\ fiveTo[l + 1] = 5 * b
  BY Equations
<1>3. p \in Nat /\ 2 * (p * b) <= 20 * a + b /\ 20 * a < 2 * (p * b) + b
  BY Threshold
<1>4. q \in Nat /\ 2 * (q * (5 * b)) <= 20 * (8 * a) + 5 * b /\ 20 * (8 * a) < 2 * (q * (5 * b)) + 5 * b
  <2>1. l + 1 \in Nat
    OBVIOUS
  <2> QED BY <1>2, <2>1, Threshold
<1> HIDE DEF a, b, p, q
<1>5. q * (5 * b) = 5 * (q * b) /\ p * b \in Nat /\ q * b \in Nat
  BY <1>1, <1>3, <1>4
<1>6. 10 * (q * b) <= 160 * a + 5 * b /\ 160 * a < 10 * (q * b) + 5 * b
  BY <1>1, <1>4, <1>5
<1>7. p <= q
  <2>1. p * b < q * b + b
    BY <1>1, <1>3, <1>5, <1>6
  <2>2. p * b < (q + 1) * b
    BY <1>1, <1>4, <2>1
  <2>3. p < q + 1
    BY <1>1, <1>3, <1>4, <2>2, Cancel
  <2> QED BY <1>3, <1>4, <2>3
<1>8. 56 * q <= 100 * p
  <2>1. 56 * (q * b) < 100 * (p * b) + b
    BY <1>1, <1>3, <1>5, <1>6
  <2>2. (56 * q) * b < (100 * p + 1) * b
    BY <1>1, <1>3, <1>4, <2>1
  <2>3. 56 * q < 100 * p + 1
    BY <1>1, <1>3, <1>4, <2>2, Cancel
  <2> QED BY <1>3, <1>4, <2>3
<1> QED BY <1>7, <1>8 DEF p, q

(* A higher level allows more XP. *)
LEMMA ThresholdGrows ==
    ASSUME NEW l \in Nat, NEW m \in Nat, l <= m
    PROVE  threatLevelThreshold(l) <= threatLevelThreshold(m)
<1> DEFINE S == {k \in Nat : threatLevelThreshold(l) <= threatLevelThreshold(l + k)}
<1>1. 0 \in S
  BY ThresholdPositive
<1>2. ASSUME NEW k \in Nat, k \in S PROVE k + 1 \in S
  <2>1. threatLevelThreshold(l + k) <= threatLevelThreshold((l + k) + 1)
    BY NextThreshold
  <2>2. (l + k) + 1 = l + (k + 1)
    OBVIOUS
  <2>3. /\ threatLevelThreshold(l) \in Nat /\ threatLevelThreshold(l + k) \in Nat
        /\ threatLevelThreshold(l + (k + 1)) \in Nat
    BY ThresholdPositive
  <2> QED BY <1>2, <2>1, <2>2, <2>3
<1> HIDE DEF S
<1>3. Nat \subseteq S
  BY <1>1, <1>2, Inductive
<1>4. m - l \in S /\ l + (m - l) = m
  BY <1>3
<1> QED BY <1>4 DEF S

(* spentXP satisfies its equation. *)
LEMMA SpentXP == spentXP = [l \in Nat |-> IF l = 0 THEN 0 ELSE spentXP[l - 1] + threatLevelThreshold(l - 1)]
<1> DEFINE V == Nat
           v == 0
           h == [l \in Nat |-> [x \in V |-> IF l = 0 THEN x ELSE x + threatLevelThreshold(l - 1)]]
<1>1. h \in [Nat -> [V -> V]] /\ v \in V
  <2>1. \A l \in Nat : l # 0 => threatLevelThreshold(l - 1) \in Nat
    BY ThresholdPositive
  <2> QED BY <2>1
<1>2. \A l \in Nat, x \in V : l # 0 => h[l][x] = x + threatLevelThreshold(l - 1)
  OBVIOUS
<1> HIDE DEF V, v, h
<1>3. PICK f \in [Nat -> V] : \A l \in Nat : f[l] = IF l = 0 THEN v ELSE h[l][f[l - 1]]
  BY <1>1, Recursion
<1>4. ASSUME NEW l \in Nat PROVE f[l] = IF l = 0 THEN v ELSE f[l - 1] + threatLevelThreshold(l - 1)
  <2>1. l # 0 => l - 1 \in Nat /\ f[l - 1] \in V
    BY <1>3
  <2> QED BY <1>2, <1>3, <2>1
<1>5. f = [l \in Nat |-> IF l = 0 THEN 0 ELSE f[l - 1] + threatLevelThreshold(l - 1)]
  BY <1>3, <1>4 DEF v
<1>6. \E g : g = [l \in Nat |-> IF l = 0 THEN 0 ELSE g[l - 1] + threatLevelThreshold(l - 1)]
  BY <1>5
<1> QED BY <1>6, Zenon DEF spentXP

(* What the level-up loop spends at each level. *)
LEMMA Spent ==
    \A l \in Nat : spentXP[l] \in Nat /\ spentXP[l + 1] = spentXP[l] + threatLevelThreshold(l)
<1> DEFINE S == {l \in Nat : spentXP[l] \in Nat}
<1>1. spentXP[0] = 0
  BY SpentXP
<1>2. ASSUME NEW l \in Nat PROVE spentXP[l + 1] = spentXP[l] + threatLevelThreshold(l)
  <2>1. l + 1 \in Nat /\ l + 1 # 0 /\ (l + 1) - 1 = l
    OBVIOUS
  <2> QED BY <2>1, SpentXP
<1>3. ASSUME NEW l \in Nat, l \in S PROVE l + 1 \in S
  BY <1>2, <1>3, ThresholdPositive
<1>4. 0 \in S
  BY <1>1
<1> HIDE DEF S
<1>5. Nat \subseteq S
  BY <1>3, <1>4, Inductive
<1> QED BY <1>2, <1>5 DEF S

(* decayedXP satisfies its equation. *)
LEMMA DecayedXP ==
    decayedXP = [n \in Nat |-> [x \in Nat |->
                   IF n = 0 \/ x = 0 THEN x ELSE decayedXP[n - 1][(x * 93) \div 100]]]
<1> DEFINE V == [Nat -> Nat]
           v == [x \in Nat |-> x]
           down(x) == (x * 93) \div 100
           h == [n \in Nat |-> [g \in V |-> [x \in Nat |-> IF x = 0 THEN x ELSE g[down(x)]]]]
<1>0. \A x \in Nat : down(x) \in Nat
  OBVIOUS
<1> HIDE DEF down
<1>1. h \in [Nat -> [V -> V]] /\ v \in V
  BY <1>0
<1>2. \A n \in Nat, g \in V : h[n][g] = [x \in Nat |-> IF x = 0 THEN x ELSE g[down(x)]]
  OBVIOUS
<1> HIDE DEF h
<1>3. PICK f \in [Nat -> V] : \A n \in Nat : f[n] = IF n = 0 THEN v ELSE h[n][f[n - 1]]
  <2> HIDE DEF V, v
  <2> QED BY <1>1, Recursion
<1>4. ASSUME NEW n \in Nat
      PROVE  f[n] = [x \in Nat |-> IF n = 0 \/ x = 0 THEN x ELSE f[n - 1][down(x)]]
  <2>1. CASE n = 0
    BY <1>3, <2>1
  <2>2. CASE n # 0
    <3>1. n - 1 \in Nat /\ f[n - 1] \in V
      BY <1>3, <2>2
    <3>2. f[n] = [x \in Nat |-> IF x = 0 THEN x ELSE f[n - 1][down(x)]]
      BY <1>2, <1>3, <2>2, <3>1
    <3> QED BY <2>2, <3>2
  <2> QED BY <2>1, <2>2
<1>5. f = [n \in Nat |-> [x \in Nat |-> IF n = 0 \/ x = 0 THEN x ELSE f[n - 1][(x * 93) \div 100]]]
  BY <1>3, <1>4 DEF down
<1>6. \E g : g = [n \in Nat |-> [x \in Nat |-> IF n = 0 \/ x = 0 THEN x ELSE g[n - 1][(x * 93) \div 100]]]
  BY <1>5
<1> QED BY <1>6, Zenon DEF decayedXP

(* ... at one point. *)
LEMMA DecayEquation ==
    ASSUME NEW n \in Nat, NEW x \in Nat
    PROVE  decayedXP[n][x] = IF n = 0 \/ x = 0 THEN x ELSE decayedXP[n - 1][(x * 93) \div 100]
<1>1. decayedXP[n] = [y \in Nat |-> IF n = 0 \/ y = 0 THEN y ELSE decayedXP[n - 1][(y * 93) \div 100]]
  BY DecayedXP
<1> QED BY <1>1

(* One period. *)
LEMMA DecayOnce ==
    ASSUME NEW n \in Nat \ {0}, NEW x \in Nat
    PROVE  \E y \in Nat : 100 * y <= 93 * x /\ decayedXP[n][x] = decayedXP[n - 1][y]
<1> DEFINE y == (x * 93) \div 100
<1>1. n \in Nat /\ n - 1 \in Nat /\ n # 0
  OBVIOUS
<1>2. y \in Nat /\ 100 * y <= 93 * x
  OBVIOUS
<1> HIDE DEF y
<1>3. CASE x # 0
  <2>1. decayedXP[n][x] = decayedXP[n - 1][y]
    BY <1>1, <1>3, DecayEquation DEF y
  <2> QED BY <1>2, <2>1
<1>4. CASE x = 0
  <2>1. decayedXP[n][x] = 0 /\ decayedXP[n - 1][x] = 0
    BY <1>1, <1>4, DecayEquation
  <2> QED BY <1>4, <2>1
<1> QED BY <1>3, <1>4

(* Decay never adds XP. *)
LEMMA DecayShrinks == \A n, x \in Nat : decayedXP[n][x] \in Nat /\ decayedXP[n][x] <= x
<1> DEFINE S == {n \in Nat : \A x \in Nat : decayedXP[n][x] \in Nat /\ decayedXP[n][x] <= x}
<1>1. 0 \in S
  BY DecayEquation
<1>2. ASSUME NEW n \in Nat, n \in S PROVE n + 1 \in S
  <2>1. n + 1 \in Nat \ {0} /\ (n + 1) - 1 = n
    OBVIOUS
  <2>2. ASSUME NEW x \in Nat PROVE decayedXP[n + 1][x] \in Nat /\ decayedXP[n + 1][x] <= x
    <3>1. PICK y \in Nat : 100 * y <= 93 * x /\ decayedXP[n + 1][x] = decayedXP[(n + 1) - 1][y]
      BY <2>1, DecayOnce
    <3>2. decayedXP[n][y] \in Nat /\ decayedXP[n][y] <= y
      BY <1>2
    <3> QED BY <2>1, <3>1, <3>2
  <2> QED BY <2>2
<1> HIDE DEF S
<1>3. Nat \subseteq S
  BY <1>1, <1>2, Inductive
<1> QED BY <1>3 DEF S

(* Two periods. *)
LEMMA DecayTwice ==
    ASSUME NEW n \in Nat, n >= 2, NEW x \in Nat
    PROVE  \E y \in Nat : 10000 * y <= 8649 * x /\ decayedXP[n][x] = decayedXP[n - 2][y]
<1>1. n \in Nat \ {0} /\ n - 1 \in Nat \ {0} /\ (n - 1) - 1 = n - 2
  OBVIOUS
<1>2. PICK y1 \in Nat : 100 * y1 <= 93 * x /\ decayedXP[n][x] = decayedXP[n - 1][y1]
  BY <1>1, DecayOnce
<1>3. PICK y2 \in Nat : 100 * y2 <= 93 * y1 /\ decayedXP[n - 1][y1] = decayedXP[(n - 1) - 1][y2]
  BY <1>1, DecayOnce
<1> QED BY <1>1, <1>2, <1>3

(* Four periods. *)
LEMMA DecayFour ==
    ASSUME NEW n \in Nat, n >= 4, NEW x \in Nat
    PROVE  \E y \in Nat : 10000 * y <= 7481 * x /\ decayedXP[n][x] = decayedXP[n - 4][y]
<1>1. n >= 2 /\ n - 2 \in Nat /\ n - 2 >= 2 /\ (n - 2) - 2 = n - 4
  OBVIOUS
<1>2. PICK y1 \in Nat : 10000 * y1 <= 8649 * x /\ decayedXP[n][x] = decayedXP[n - 2][y1]
  BY <1>1, DecayTwice
<1>3. PICK y2 \in Nat : 10000 * y2 <= 8649 * y1 /\ decayedXP[n - 2][y1] = decayedXP[(n - 2) - 2][y2]
  BY <1>1, DecayTwice
<1>4. 10000 * y2 <= 7481 * x
  BY <1>2, <1>3
<1> QED BY <1>1, <1>2, <1>3, <1>4

(* Eight periods take away more than the step between two thresholds. *)
LEMMA DecayEight ==
    ASSUME NEW n \in Nat, n >= 8, NEW x \in Nat
    PROVE  \E y \in Nat : 100 * y <= 56 * x /\ decayedXP[n][x] = decayedXP[n - 8][y]
<1>1. n >= 4 /\ n - 4 \in Nat /\ n - 4 >= 4 /\ (n - 4) - 4 = n - 8
  OBVIOUS
<1>2. PICK y1 \in Nat : 10000 * y1 <= 7481 * x /\ decayedXP[n][x] = decayedXP[n - 4][y1]
  BY <1>1, DecayFour
<1>3. PICK y2 \in Nat : 10000 * y2 <= 7481 * y1 /\ decayedXP[n - 4][y1] = decayedXP[(n - 4) - 4][y2]
  BY <1>1, DecayFour
<1>4. 100 * y2 <= 56 * x
  BY <1>2, <1>3
<1> QED BY <1>1, <1>2, <1>3, <1>4

(* What has decayed by eight periods a level fits the level it sank to. *)
LEMMA DecayLevels ==
    ASSUME NEW d \in Nat, NEW n \in Nat, NEW l \in Nat, NEW x \in Nat,
           n >= 8 * d, l >= d, x <= threatLevelThreshold(l)
    PROVE  decayedXP[n][x] <= threatLevelThreshold(l - d)
<1> DEFINE S == {e \in Nat : \A m, k, z \in Nat :
                    m >= 8 * e /\ k >= e /\ z <= threatLevelThreshold(k)
                        => decayedXP[m][z] <= threatLevelThreshold(k - e)}
<1>1. 0 \in S
  <2> SUFFICES ASSUME NEW m \in Nat, NEW k \in Nat, NEW z \in Nat, z <= threatLevelThreshold(k)
               PROVE  decayedXP[m][z] <= threatLevelThreshold(k - 0)
    OBVIOUS
  <2>1. decayedXP[m][z] \in Nat /\ decayedXP[m][z] <= z /\ threatLevelThreshold(k) \in Nat
    BY DecayShrinks, ThresholdPositive
  <2>2. k - 0 = k
    OBVIOUS
  <2> QED BY <2>1, <2>2
<1>2. ASSUME NEW e \in Nat, e \in S PROVE e + 1 \in S
  <2> SUFFICES ASSUME NEW m \in Nat, NEW k \in Nat, NEW z \in Nat,
                      m >= 8 * (e + 1), k >= e + 1, z <= threatLevelThreshold(k)
               PROVE  decayedXP[m][z] <= threatLevelThreshold(k - (e + 1))
    OBVIOUS
  <2>1. m >= 8 /\ m - 8 \in Nat /\ m - 8 >= 8 * e /\ k - 1 \in Nat /\ k - 1 >= e
        /\ (k - 1) + 1 = k /\ (k - 1) - e = k - (e + 1)
    OBVIOUS
  <2>2. PICK y \in Nat : 100 * y <= 56 * z /\ decayedXP[m][z] = decayedXP[m - 8][y]
    BY <2>1, DecayEight
  <2>3. /\ threatLevelThreshold(k) \in Nat /\ threatLevelThreshold(k - 1) \in Nat
        /\ 56 * threatLevelThreshold((k - 1) + 1) <= 100 * threatLevelThreshold(k - 1)
    BY <2>1, ThresholdPositive, NextThreshold
  <2>4. y <= threatLevelThreshold(k - 1)
    BY <2>1, <2>2, <2>3
  <2>5. decayedXP[m - 8][y] <= threatLevelThreshold((k - 1) - e)
    BY <1>2, <2>1, <2>4
  <2> QED BY <2>1, <2>2, <2>5
<1> HIDE DEF S
<1>3. d \in S
  BY <1>1, <1>2, Inductive
<1> QED BY <1>3 DEF S

(* 72 hours hold at least eight periods of 30 minutes, however often they fit. *)
LEMMA Periods ==
    ASSUME NEW idle \in Nat
    PROVE  /\ idle \div XPDecayIdle \in Nat /\ idle \div LevelDecayIdle \in Nat
           /\ idle \div XPDecayIdle >= 8 * (idle \div LevelDecayIdle)
<1> DEFINE a == XPDecayIdle
           b == LevelDecayIdle
           p == idle \div a
           q == idle \div b
<1>1. a \in Nat \ {0} /\ b \in Nat \ {0} /\ b >= 8 * a
  BY ScoreAssumption
<1>2. p \in Nat /\ p * a <= idle /\ idle < (p + 1) * a
  BY <1>1, Division
<1>3. q \in Nat /\ q * b <= idle
  BY <1>1, Division
<1> HIDE DEF a, b, p, q
<1>4. q * b >= q * (8 * a)
  BY <1>1, <1>3
<1>5. (8 * q) * a < (p + 1) * a
  BY <1>1, <1>2, <1>3, <1>4
<1>6. 8 * q < p + 1
  BY <1>1, <1>2, <1>3, <1>5, Cancel
<1> QED BY <1>2, <1>3, <1>6 DEF a, b, p, q

(* The level-up loop ends, within the levels, and never spends XP the      *)
(* source does not have.                                                   *)
LEMMA Reached ==
    ASSUME NEW xp \in Nat, NEW level \in Levels, NEW hard \in Levels
    PROVE  LET l == reachedLevel(xp, level, hard)
               rest == xp - (spentXP[l] - spentXP[level])
           IN  /\ l \in level..MaxLevel /\ l \in Levels
               /\ rest \in Nat
               /\ l >= hard \/ rest < threatLevelThreshold(l)
<1> DEFINE stops(l) == \/ l >= hard
                       \/ xp - (spentXP[l] - spentXP[level]) < threatLevelThreshold(l)
           S == {l \in level..MaxLevel : stops(l)}
           r == reachedLevel(xp, level, hard)
<1>1. MaxLevel \in Nat /\ level \in Nat /\ level <= MaxLevel /\ hard \in Nat /\ hard <= MaxLevel
  BY ScoreAssumption DEF Levels
<1>2. S # {}
  <2>1. CASE level >= hard
    BY <1>1, <2>1
  <2>2. CASE level < hard
    <3>1. hard \in level..MaxLevel /\ stops(hard)
      BY <1>1, <2>2
    <3> QED BY <3>1
  <2> QED BY <1>1, <2>1, <2>2
<1>3. S \subseteq Nat
  BY <1>1
<1>4. PICK m \in S : \A k \in S : m <= k
  <2> HIDE DEF S
  <2> QED BY <1>2, <1>3, Least
<1>5. m \in level..MaxLevel /\ stops(m)
  OBVIOUS
<1>6. ASSUME NEW k \in level..(m - 1) PROVE ~stops(k)
  <2>1. k \in level..MaxLevel /\ ~(m <= k)
    BY <1>1, <1>5
  <2>2. k \notin S
    BY <1>4, <2>1
  <2> QED BY <2>1, <2>2
<1>7. \E l \in level..MaxLevel : stops(l) /\ \A k \in level..(l - 1) : ~stops(k)
  BY <1>5, <1>6, Zenon
<1>8. r \in level..MaxLevel /\ stops(r) /\ \A k \in level..(r - 1) : ~stops(k)
  BY <1>7, Zenon DEF reachedLevel
<1>9. xp - (spentXP[r] - spentXP[level]) \in Nat
  <2> HIDE DEF r
  <2>1. r \in Nat /\ spentXP[r] \in Nat /\ spentXP[level] \in Nat
    BY <1>1, <1>8, Spent
  <2>2. CASE r = level
    BY <2>1, <2>2
  <2>3. CASE r # level
    <3>1. r - 1 \in level..(r - 1) /\ r - 1 \in Nat /\ (r - 1) + 1 = r
      BY <1>1, <1>8, <2>1, <2>3
    <3>2. /\ spentXP[r - 1] \in Nat /\ spentXP[r] = spentXP[r - 1] + threatLevelThreshold(r - 1)
          /\ threatLevelThreshold(r - 1) \in Nat
      BY <3>1, Spent, ThresholdPositive
    <3>3. ~(xp - (spentXP[r - 1] - spentXP[level]) < threatLevelThreshold(r - 1))
      BY <1>8, <3>1
    <3> QED BY <2>1, <3>2, <3>3
  <2> QED BY <2>2, <2>3
<1> HIDE DEF r
<1>10. r \in Levels
  BY <1>1, <1>8 DEF Levels
<1> QED BY <1>8, <1>9, <1>10 DEF r

(* What ApplyThreatIntelEvent awards fits the level it leads to. *)
LEMMA Escalated ==
    ASSUME NEW st \in IPState, NEW sig \in [delta: Nat \ {0}, boost: BOOLEAN], NEW hard \in Levels
    PROVE  LET up == escalate(st, sig, hard)
           IN  up.level \in Levels /\ up.xp \in Nat /\ up.xp <= threatLevelThreshold(up.level)
<1> DEFINE award == st.xp + sig.delta
           level == reachedLevel(award, st.level, hard)
           rest == st.xp + sig.delta - (spentXP[level] - spentXP[st.level])
           xp == IF level >= hard THEN atMost(rest, threatLevelThreshold(hard)) ELSE rest
           up == escalate(st, sig, hard)
<1>1. award \in Nat /\ st.level \in Levels
  BY DEF IPState
<1>2. /\ level \in Levels /\ rest \in Nat
      /\ level >= hard \/ rest < threatLevelThreshold(level)
  <2>1. /\ level \in st.level..MaxLevel /\ level \in Levels
        /\ award - (spentXP[level] - spentXP[st.level]) \in Nat
        /\ \/ level >= hard
           \/ award - (spentXP[level] - spentXP[st.level]) < threatLevelThreshold(level)
    BY <1>1, Reached
  <2>2. st.xp \in Nat /\ sig.delta \in Nat /\ spentXP[level] \in Nat /\ spentXP[st.level] \in Nat
    <3> HIDE DEF level
    <3> QED BY <2>1, Spent, ScoreAssumption DEF IPState, Levels
  <2> HIDE DEF level
  <2>3. rest = award - (spentXP[level] - spentXP[st.level])
    BY <2>2
  <2> QED BY <2>1, <2>3
<1>3. up = IF sig.boost /\ level < WatchLevel
           THEN [level |-> WatchLevel, xp |-> atMost(xp, threatLevelThreshold(WatchLevel) - 1)]
           ELSE [level |-> level, xp |-> xp]
  BY Zenon DEF escalate
<1> HIDE DEF award, level, rest, up
<1>4. level \in Nat /\ hard \in Nat /\ WatchLevel \in Nat /\ WatchLevel \in Levels
  BY <1>2, ScoreAssumption DEF Levels, WatchLevel
<1>5. /\ threatLevelThreshold(level) \in Nat /\ threatLevelThreshold(hard) \in Nat
      /\ threatLevelThreshold(WatchLevel) \in Nat \ {0}
  BY <1>4, ThresholdPositive
<1>6. xp \in Nat /\ xp <= threatLevelThreshold(level)
  <2>1. CASE level >= hard
    <3>1. threatLevelThreshold(hard) <= threatLevelThreshold(level)
      BY <1>4, <2>1, ThresholdGrows
    <3> QED BY <1>2, <1>5, <2>1, <3>1 DEF atMost
  <2>2. CASE ~(level >= hard)
    BY <1>2, <1>5, <2>2
  <2> QED BY <2>1, <2>2
<1> HIDE DEF xp
<1>7. CASE sig.boost /\ level < WatchLevel
  <2>1. up.level = WatchLevel /\ up.xp = atMost(xp, threatLevelThreshold(WatchLevel) - 1)
    BY <1>3, <1>7
  <2> QED BY <1>4, <1>5, <1>6, <2>1 DEF atMost, up
<1>8. CASE ~(sig.boost /\ level < WatchLevel)
  <2>1. up.level = level /\ up.xp = xp
    BY <1>3, <1>8
  <2> QED BY <1>2, <1>6, <2>1 DEF up
<1> QED BY <1>7, <1>8

(* Two columns of a row change. *)
LEMMA TwoFields ==
    ASSUME NEW st \in IPState, NEW x, NEW l, NEW v, v = [st EXCEPT !.xp = x, !.level = l]
    PROVE  v = [xp |-> x, level |-> l, risk |-> st.risk, banUntil |-> st.banUntil,
                perm |-> st.perm, lastSeen |-> st.lastSeen]
BY DEF IPState

(* Decay lowers the level no faster than the XP, and touches no ban. *)
LEMMA Decayed ==
    ASSUME NEW st \in IPState, NEW t \in Nat, st.xp <= threatLevelThreshold(st.level)
    PROVE  LET d == decayThreatState(st, t)
           IN  /\ d \in IPState
               /\ d.xp <= threatLevelThreshold(d.level)
               /\ d.perm = st.perm /\ d.banUntil = st.banUntil
<1> DEFINE idle == t - st.lastSeen
           down == idle \div LevelDecayIdle
           n == idle \div XPDecayIdle
           xp == IF idle >= XPDecayIdle THEN decayedXP[n][st.xp] ELSE st.xp
           level == IF idle < LevelDecayIdle THEN st.level
                    ELSE IF down > st.level THEN 0 ELSE st.level - down
           v == [xp |-> xp, level |-> level, risk |-> st.risk, banUntil |-> st.banUntil,
                 perm |-> st.perm, lastSeen |-> st.lastSeen]
           d == decayThreatState(st, t)
<1>1. st = [xp |-> st.xp, level |-> st.level, risk |-> st.risk, banUntil |-> st.banUntil,
            perm |-> st.perm, lastSeen |-> st.lastSeen]
  BY DEF IPState
<1>2. /\ st.xp \in Nat /\ st.level \in Levels /\ st.risk \in Risks /\ st.banUntil \in Nat
      /\ st.perm \in BOOLEAN /\ st.lastSeen \in Nat /\ st.level \in Nat /\ idle \in Int
  BY ScoreAssumption DEF IPState, Levels
<1>3. d = st \/ d = v
  <2>1. d = st \/ d = [st EXCEPT !.xp = xp, !.level = level]
    BY DEF decayThreatState
  <2> HIDE DEF xp, level
  <2> HIDE DEF d
  <2> QED BY <2>1, TwoFields
<1>4. xp \in Nat /\ level \in Levels /\ xp <= threatLevelThreshold(level)
  <2> HIDE DEF idle
  <2>0. threatLevelThreshold(st.level) \in Nat
    BY <1>2, ThresholdPositive
  <2>1. CASE idle < XPDecayIdle
    <3>1. idle < LevelDecayIdle /\ ~(idle >= XPDecayIdle)
      BY <1>2, <2>1, ScoreAssumption
    <3> QED BY <1>2, <3>1
  <2>2. CASE idle >= XPDecayIdle
    <3>1. idle \in Nat
      BY <1>2, <2>2, ScoreAssumption
    <3>2. n \in Nat /\ down \in Nat /\ n >= 8 * down
      BY <3>1, Periods
    <3> HIDE DEF n, down
    <3>3. xp = decayedXP[n][st.xp]
      BY <2>2
    <3>4. xp \in Nat /\ xp <= st.xp
      BY <1>2, <3>2, <3>3, DecayShrinks
    <3>5. CASE idle < LevelDecayIdle
      BY <1>2, <2>0, <3>4, <3>5
    <3>6. CASE ~(idle < LevelDecayIdle) /\ down > st.level
      <4>1. /\ level = 0 /\ 0 \in Levels /\ n >= 8 * st.level
            /\ st.level >= st.level /\ st.level - st.level = 0
        BY <1>2, <3>2, <3>6, ScoreAssumption DEF Levels
      <4>2. decayedXP[n][st.xp] <= threatLevelThreshold(st.level - st.level)
        BY <1>2, <3>2, <4>1, DecayLevels
      <4> QED BY <3>3, <3>4, <4>1, <4>2
    <3>7. CASE ~(idle < LevelDecayIdle) /\ ~(down > st.level)
      <4>1. level = st.level - down /\ st.level - down \in Levels /\ st.level >= down
        BY <1>2, <3>2, <3>7, ScoreAssumption DEF Levels
      <4>2. decayedXP[n][st.xp] <= threatLevelThreshold(st.level - down)
        BY <1>2, <3>2, <4>1, DecayLevels
      <4> QED BY <3>3, <3>4, <4>1, <4>2
    <3> QED BY <3>5, <3>6, <3>7
  <2> QED BY <1>2, <2>1, <2>2, ScoreAssumption
<1> HIDE DEF xp, level, d
<1>5. v \in IPState /\ v.xp <= threatLevelThreshold(v.level) /\ v.perm = st.perm /\ v.banUntil = st.banUntil
  BY <1>2, <1>4 DEF IPState
<1> HIDE DEF v
<1> QED BY <1>3, <1>5 DEF d

-----------------------------------------------------------------------------
(* The loops of ApplyThreatIntelEvent compute the score. *)

(* The level-up loop breaks at one level only. *)
LEMMA ReachedOnce ==
    ASSUME NEW x \in Nat, NEW l \in Levels, NEW h \in Levels, NEW m \in l..MaxLevel,
           m >= h \/ x - (spentXP[m] - spentXP[l]) < threatLevelThreshold(m),
           \A k \in l..(m - 1) :
               k < h /\ x - (spentXP[k] - spentXP[l]) >= threatLevelThreshold(k)
    PROVE  reachedLevel(x, l, h) = m
<1> DEFINE stops(k) == \/ k >= h
                       \/ x - (spentXP[k] - spentXP[l]) < threatLevelThreshold(k)
           r == reachedLevel(x, l, h)
<1>1. MaxLevel \in Nat /\ l \in Nat /\ h \in Nat /\ m \in Nat
  BY ScoreAssumption DEF Levels
<1>2. ASSUME NEW k \in l..(m - 1) PROVE ~stops(k)
  <2>1. /\ k \in Nat /\ spentXP[k] \in Nat /\ spentXP[l] \in Nat
        /\ threatLevelThreshold(k) \in Nat
    BY <1>1, Spent, ThresholdPositive
  <2> QED BY <1>1, <2>1
<1>3. \E n \in l..MaxLevel : stops(n) /\ \A k \in l..(n - 1) : ~stops(k)
  BY <1>2, Zenon
<1>4. r \in l..MaxLevel /\ stops(r) /\ \A k \in l..(r - 1) : ~stops(k)
  BY <1>3, Zenon DEF reachedLevel
<1>5. stops(m)
  OBVIOUS
<1> HIDE DEF r, stops
<1>6. ~(r < m)
  <2> SUFFICES ASSUME r < m PROVE FALSE
    OBVIOUS
  <2>1. r \in l..(m - 1)
    BY <1>1, <1>4
  <2> QED BY <1>2, <1>4, <2>1
<1>7. ~(m < r)
  <2> SUFFICES ASSUME m < r PROVE FALSE
    OBVIOUS
  <2>1. m \in l..(r - 1)
    BY <1>1, <1>4
  <2> QED BY <1>4, <1>5, <2>1
<1>8. r = m
  BY <1>1, <1>4, <1>6, <1>7
<1> QED BY <1>8 DEF r

(* A row that is not frozen after a time that has passed. *)
LEMMA DecayValue ==
    ASSUME NEW st \in IPState, NEW t \in Nat, t >= st.lastSeen,
           ~(st.lastSeen = 0 \/ st.perm \/ SoftBanned(st, t))
    PROVE  LET d == decayThreatState(st, t)
               down == (t - st.lastSeen) \div LevelDecayIdle
           IN  /\ d.xp = decayedXP[(t - st.lastSeen) \div XPDecayIdle][st.xp]
               /\ d.level = IF down > st.level THEN 0 ELSE st.level - down
<1> DEFINE idle == t - st.lastSeen
           down == idle \div LevelDecayIdle
           n == idle \div XPDecayIdle
           x == IF idle >= XPDecayIdle THEN decayedXP[n][st.xp] ELSE st.xp
           l == IF idle < LevelDecayIdle THEN st.level
                ELSE IF down > st.level THEN 0 ELSE st.level - down
           d == decayThreatState(st, t)
<1>1. st.xp \in Nat /\ st.level \in Nat /\ st.lastSeen \in Nat
  BY ScoreAssumption DEF IPState, Levels
<1>2. idle \in Nat
  BY <1>1
<1>3. d = [st EXCEPT !.xp = x, !.level = l]
  BY DEF decayThreatState
<1>4. d.xp = x /\ d.level = l
  <2> HIDE DEF d, x, l
  <2>1. d = [xp |-> x, level |-> l, risk |-> st.risk, banUntil |-> st.banUntil,
             perm |-> st.perm, lastSeen |-> st.lastSeen]
    BY <1>3, TwoFields
  <2> QED BY <2>1
<1> HIDE DEF idle, d
<1>5. x = decayedXP[n][st.xp]
  <2>1. CASE idle >= XPDecayIdle
    BY <2>1
  <2>2. CASE ~(idle >= XPDecayIdle)
    <3>1. n = 0
      BY <1>2, <2>2, ScoreAssumption
    <3>2. decayedXP[n][st.xp] = st.xp
      BY <1>1, <3>1, DecayEquation
    <3> QED BY <2>2, <3>2
  <2> QED BY <2>1, <2>2
<1>6. l = IF down > st.level THEN 0 ELSE st.level - down
  <2>1. CASE idle < LevelDecayIdle
    <3>1. down = 0
      BY <1>2, <2>1, ScoreAssumption
    <3> QED BY <1>1, <2>1, <3>1
  <2>2. CASE ~(idle < LevelDecayIdle)
    BY <2>2
  <2> QED BY <2>1, <2>2
<1> QED BY <1>4, <1>5, <1>6 DEF d, idle

(* The row the call decays, and the XP it has to distribute. *)
Decay(c) == decayThreatState(c.row, c.t)
Total(c) == Decay(c).xp + c.sig.delta
Rest(c, l) == Total(c) - (spentXP[l] - spentXP[Decay(c).level])
Capped(c, l) == IF l >= c.hard THEN atMost(Rest(c, l), threatLevelThreshold(c.hard)) ELSE Rest(c, l)

CallType(c) ==
    /\ c = [pc |-> c.pc, row |-> c.row, sig |-> c.sig, hard |-> c.hard, t |-> c.t,
            xp |-> c.xp, level |-> c.level, steps |-> c.steps]
    /\ c.row \in Rows /\ c.sig \in Sigs /\ c.hard \in Hards /\ c.t \in Times
    /\ c.t >= c.row.lastSeen
    /\ c.xp \in Nat /\ c.level \in Levels /\ c.steps \in Nat

(* Where the call stands: decay goes on to the decayed row, the level-up   *)
(* loop has passed every level below its own.                              *)
CallOK(c) ==
    /\ CallType(c)
    /\ \/ c.pc = "start" /\ c.xp = c.row.xp /\ c.level = c.row.level
       \/ /\ c.pc = "decay" /\ c.level = c.row.level
          /\ ~(c.row.lastSeen = 0 \/ c.row.perm \/ SoftBanned(c.row, c.t))
          /\ decayedXP[c.steps][c.xp] =
                 decayedXP[(c.t - c.row.lastSeen) \div XPDecayIdle][c.row.xp]
       \/ c.pc = "award" /\ c.xp = Decay(c).xp /\ c.level = Decay(c).level
       \/ /\ c.pc = "loop"
          /\ Decay(c).xp \in Nat /\ Decay(c).level \in Levels
          /\ c.level >= Decay(c).level /\ c.xp = Rest(c, c.level)
          /\ \A k \in Decay(c).level..(c.level - 1) :
                 k < c.hard /\ Rest(c, k) >= threatLevelThreshold(k)
       \/ /\ c.pc = "boost"
          /\ c.level = reachedLevel(Total(c), Decay(c).level, c.hard)
          /\ Decay(c).xp \in Nat /\ Decay(c).level \in Levels
          /\ c.xp = Capped(c, c.level)
       \/ /\ c.pc = "done"
          /\ LET up == escalate(Decay(c), c.sig, c.hard) IN c.level = up.level /\ c.xp = up.xp

(* What a call was given. *)
LEMMA CallGiven ==
    ASSUME NEW c, CallType(c)
    PROVE  /\ c.row \in IPState /\ c.sig.delta \in Nat /\ c.hard \in Levels /\ c.t \in Nat
           /\ c.row.xp \in Nat /\ c.row.level \in Levels /\ c.row.lastSeen \in Nat
           /\ c.level \in Nat /\ c.level <= MaxLevel /\ c.hard \in Nat /\ c.hard <= MaxLevel
           /\ MaxLevel \in Nat
<1>1. c.row \in IPState /\ c.sig \in [delta: Nat \ {0}, boost: BOOLEAN] /\ c.hard \in 2..MaxLevel
      /\ c.t \in Nat
  BY LoopAssumption DEF CallType
<1> QED BY <1>1, ScoreAssumption DEF IPState, Levels, CallType

(* A step that sets the control, XP, level and iterations keeps the rest. *)
LEMMA CallStep ==
    ASSUME CallType(call), NEW pc, NEW x \in Nat, NEW l \in Levels, NEW n \in Nat,
           call' = [pc |-> pc, row |-> call.row, sig |-> call.sig, hard |-> call.hard,
                    t |-> call.t, xp |-> x, level |-> l, steps |-> n]
    PROVE  /\ CallType(call')
           /\ call'.pc = pc /\ call'.xp = x /\ call'.level = l /\ call'.steps = n
           /\ call'.row = call.row /\ call'.sig = call.sig /\ call'.hard = call.hard
           /\ call'.t = call.t
           /\ Decay(call') = Decay(call) /\ Total(call') = Total(call)
           /\ \A k : Rest(call', k) = Rest(call, k) /\ Capped(call', k) = Capped(call, k)
<1>1. /\ CallType(call')
      /\ call'.pc = pc /\ call'.xp = x /\ call'.level = l /\ call'.steps = n
      /\ call'.row = call.row /\ call'.sig = call.sig /\ call'.hard = call.hard
      /\ call'.t = call.t
  BY DEF CallType
<1>2. Decay(call') = Decay(call)
  BY <1>1 DEF Decay
<1>3. Total(call') = Total(call)
  BY <1>1, <1>2 DEF Total
<1>4. \A k : Rest(call', k) = Rest(call, k)
  BY <1>2, <1>3 DEF Rest
<1>5. \A k : Capped(call', k) = Capped(call, k)
  BY <1>1, <1>4 DEF Capped
<1> QED BY <1>1, <1>2, <1>3, <1>4, <1>5

(* A call starts. *)
LEMMA CallStarts == ASSUME CallInit PROVE CallOK(call)
<1>1. PICK row \in Rows, sig \in Sigs, hard \in Hards, t \in Times :
        /\ t >= row.lastSeen
        /\ call = [pc |-> "start", row |-> row, sig |-> sig, hard |-> hard, t |-> t,
                   xp |-> row.xp, level |-> row.level, steps |-> 0]
  BY DEF CallInit
<1>2. row.xp \in Nat /\ row.level \in Levels
  BY LoopAssumption DEF IPState
<1>3. CallType(call)
  BY <1>1, <1>2 DEF CallType
<1> QED BY <1>1, <1>3 DEF CallOK

(* The decay loop is entered, or skipped. *)
LEMMA DecayStartOK == ASSUME CallOK(call), DecayStart PROVE CallOK(call')
<1> DEFINE n == Idle \div XPDecayIdle
<1>1. CallType(call) /\ call.pc = "start" /\ call.xp = call.row.xp /\ call.level = call.row.level
  BY DEF CallOK, DecayStart
<1>2. /\ call.row \in IPState /\ call.t \in Nat /\ call.row.lastSeen \in Nat
      /\ call.xp \in Nat /\ call.level \in Levels /\ call.steps \in Nat
  BY <1>1, CallGiven DEF CallType
<1>3. CASE Frozen
  <2>1. call' = [pc |-> "award", row |-> call.row, sig |-> call.sig, hard |-> call.hard,
                 t |-> call.t, xp |-> call.xp, level |-> call.level, steps |-> call.steps]
    BY <1>1, <1>3 DEF DecayStart, CallType
  <2>2. Decay(call) = call.row
    BY <1>3 DEF Decay, decayThreatState, Frozen
  <2> QED BY <1>1, <1>2, <2>1, <2>2, CallStep DEF CallOK
<1>4. CASE ~Frozen
  <2>1. Idle \in Nat
    BY <1>1, <1>2 DEF Idle, CallType
  <2>2. n \in Nat
    BY <2>1, Periods
  <2>3. call' = [pc |-> "decay", row |-> call.row, sig |-> call.sig, hard |-> call.hard,
                 t |-> call.t, xp |-> call.xp, level |-> call.level, steps |-> n]
    <3>1. call' = [call EXCEPT !.pc = "decay", !.steps = n]
      BY <1>4 DEF DecayStart
    <3> HIDE DEF n
    <3> QED BY <1>1, <3>1 DEF CallType
  <2>4. /\ CallType(call') /\ call'.pc = "decay" /\ call'.xp = call.xp /\ call'.level = call.level
        /\ call'.steps = n /\ call'.row = call.row /\ call'.t = call.t
    <3> HIDE DEF n
    <3> QED BY <1>1, <1>2, <2>2, <2>3, CallStep
  <2>5. n = (call.t - call.row.lastSeen) \div XPDecayIdle
    BY DEF Idle
  <2> HIDE DEF n
  <2> QED BY <1>1, <1>4, <2>4, <2>5 DEF CallOK, Frozen
<1> QED BY <1>3, <1>4

(* One iteration of the decay loop. *)
LEMMA DecayStepOK == ASSUME CallOK(call), DecayStep PROVE CallOK(call')
<1> DEFINE x == (call.xp * 93) \div 100
           n == call.steps - 1
<1>1. /\ CallType(call) /\ call.pc = "decay" /\ call.level = call.row.level
      /\ ~(call.row.lastSeen = 0 \/ call.row.perm \/ SoftBanned(call.row, call.t))
      /\ decayedXP[call.steps][call.xp] =
             decayedXP[(call.t - call.row.lastSeen) \div XPDecayIdle][call.row.xp]
  BY DEF CallOK, DecayStep
<1>2. call.xp \in Nat /\ call.level \in Levels /\ call.steps \in Nat /\ call.steps > 0
  BY <1>1 DEF CallType, DecayStep
<1>3. x \in Nat /\ n \in Nat /\ (call.xp = 0 => x = 0)
  BY <1>2
<1>4. decayedXP[n][x] = decayedXP[call.steps][call.xp]
  <2>1. CASE call.xp # 0
    <3>1. decayedXP[call.steps][call.xp] =
             IF call.steps = 0 \/ call.xp = 0 THEN call.xp ELSE decayedXP[call.steps - 1][(call.xp * 93) \div 100]
      BY <1>2, DecayEquation
    <3>2. call.steps # 0
      BY <1>2
    <3> QED BY <2>1, <3>1, <3>2
  <2>2. CASE call.xp = 0
    <3>1. decayedXP[call.steps][call.xp] = 0
      BY <1>2, <2>2, DecayEquation
    <3>2. decayedXP[n][0] = 0
      BY <1>3, DecayEquation
    <3> QED BY <1>3, <2>2, <3>1, <3>2
  <2> QED BY <2>1, <2>2
<1>5. call' = [call EXCEPT !.xp = x, !.steps = n]
  BY DEF DecayStep
<1> HIDE DEF x, n
<1>6. call' = [pc |-> call.pc, row |-> call.row, sig |-> call.sig, hard |-> call.hard,
               t |-> call.t, xp |-> x, level |-> call.level, steps |-> n]
  BY <1>1, <1>5 DEF CallType
<1>7. /\ CallType(call') /\ call'.pc = call.pc /\ call'.xp = x /\ call'.level = call.level
      /\ call'.steps = n /\ call'.row = call.row /\ call'.t = call.t
  BY <1>1, <1>2, <1>3, <1>6, CallStep
<1> QED BY <1>1, <1>4, <1>7 DEF CallOK

(* The decay of the level. *)
LEMMA LevelDecayOK == ASSUME CallOK(call), LevelDecay PROVE CallOK(call')
<1> DEFINE down == Idle \div LevelDecayIdle
           l == IF down > call.level THEN 0 ELSE call.level - down
<1>1. /\ CallType(call) /\ call.level = call.row.level
      /\ ~(call.row.lastSeen = 0 \/ call.row.perm \/ SoftBanned(call.row, call.t))
      /\ decayedXP[call.steps][call.xp] =
             decayedXP[(call.t - call.row.lastSeen) \div XPDecayIdle][call.row.xp]
  BY DEF CallOK, LevelDecay
<1>2. /\ call.row \in IPState /\ call.t \in Nat /\ call.row.lastSeen \in Nat
      /\ call.t >= call.row.lastSeen /\ call.xp \in Nat /\ call.level \in Levels
      /\ call.steps = 0 /\ call.level \in Nat /\ call.level <= MaxLevel /\ MaxLevel \in Nat
  BY <1>1, CallGiven DEF CallType, LevelDecay
<1>3. Idle \in Nat
  BY <1>2 DEF Idle
<1>4. down \in Nat
  BY <1>3, Periods
<1>5. call' = [call EXCEPT !.pc = "award", !.level = l]
  BY DEF LevelDecay
<1>6. Decay(call).xp = call.xp /\ Decay(call).level = l
  <2>1. decayedXP[0][call.xp] = call.xp
    BY <1>2, DecayEquation
  <2>2. /\ Decay(call).xp = decayedXP[(call.t - call.row.lastSeen) \div XPDecayIdle][call.row.xp]
        /\ Decay(call).level = l
    BY <1>1, <1>2, DecayValue DEF Decay, Idle
  <2> QED BY <1>1, <1>2, <2>1, <2>2
<1> HIDE DEF down
<1>7. l \in Levels
  BY <1>2, <1>4 DEF Levels
<1> HIDE DEF l
<1>8. call' = [pc |-> "award", row |-> call.row, sig |-> call.sig, hard |-> call.hard,
               t |-> call.t, xp |-> call.xp, level |-> l, steps |-> call.steps]
  BY <1>1, <1>5 DEF CallType
<1>9. /\ CallType(call') /\ call'.pc = "award" /\ call'.xp = call.xp /\ call'.level = l
      /\ Decay(call') = Decay(call)
  BY <1>1, <1>2, <1>7, <1>8, CallStep
<1> QED BY <1>6, <1>9 DEF CallOK

(* The award. *)
LEMMA AwardOK == ASSUME CallOK(call), Award PROVE CallOK(call')
<1> DEFINE x == call.xp + call.sig.delta
<1>1. CallType(call) /\ call.xp = Decay(call).xp /\ call.level = Decay(call).level
  BY DEF CallOK, Award
<1>2. /\ call.xp \in Nat /\ call.level \in Levels /\ call.level \in Nat /\ call.steps \in Nat
      /\ call.sig.delta \in Nat
  BY <1>1, CallGiven DEF CallType
<1>3. x \in Nat
  BY <1>2
<1>4. x = Rest(call, call.level)
  <2>1. spentXP[call.level] \in Nat /\ spentXP[Decay(call).level] = spentXP[call.level]
        /\ Total(call) = x
    BY <1>1, <1>2, Spent DEF Total
  <2> HIDE DEF x
  <2> QED BY <1>3, <2>1 DEF Rest
<1>5. call' = [call EXCEPT !.pc = "loop", !.xp = x]
  BY DEF Award
<1> HIDE DEF x
<1>6. call' = [pc |-> "loop", row |-> call.row, sig |-> call.sig, hard |-> call.hard,
               t |-> call.t, xp |-> x, level |-> call.level, steps |-> call.steps]
  BY <1>1, <1>5 DEF CallType
<1>7. /\ CallType(call') /\ call'.pc = "loop" /\ call'.xp = x /\ call'.level = call.level
      /\ Decay(call') = Decay(call) /\ \A k : Rest(call', k) = Rest(call, k)
  BY <1>1, <1>2, <1>3, <1>6, CallStep
<1>8. \A k \in Decay(call).level..(call.level - 1) : FALSE
  BY <1>1, <1>2
<1> QED BY <1>1, <1>2, <1>4, <1>7, <1>8 DEF CallOK

(* One iteration of the level-up loop. *)
LEMMA LevelUpOK == ASSUME CallOK(call), LevelUp PROVE CallOK(call')
<1> DEFINE x == call.xp - threatLevelThreshold(call.level)
           l == call.level + 1
           d == Decay(call).level
<1>1. /\ CallType(call) /\ Decay(call).xp \in Nat /\ d \in Levels
      /\ call.level >= d /\ call.xp = Rest(call, call.level)
      /\ \A k \in d..(call.level - 1) : k < call.hard /\ Rest(call, k) >= threatLevelThreshold(k)
  BY DEF CallOK, LevelUp
<1>2. /\ call.xp \in Nat /\ call.level \in Nat /\ call.steps \in Nat /\ call.hard \in Nat
      /\ call.hard <= MaxLevel /\ call.sig.delta \in Nat /\ MaxLevel \in Nat /\ d \in Nat
      /\ call.level < call.hard /\ call.xp >= threatLevelThreshold(call.level)
  BY <1>1, CallGiven DEF CallType, LevelUp, Levels
<1>3. /\ threatLevelThreshold(call.level) \in Nat /\ Total(call) \in Nat
      /\ spentXP[call.level] \in Nat /\ spentXP[d] \in Nat
      /\ spentXP[l] = spentXP[call.level] + threatLevelThreshold(call.level)
  BY <1>1, <1>2, ThresholdPositive, Spent DEF Total
<1>4. x \in Nat /\ l \in Levels /\ l >= d
  BY <1>1, <1>2, <1>3 DEF Levels
<1>5. x = Rest(call, l)
  BY <1>1, <1>2, <1>3 DEF Rest
<1>6. ASSUME NEW k \in d..(l - 1)
      PROVE  k < call.hard /\ Rest(call, k) >= threatLevelThreshold(k)
  <2>1. CASE k = call.level
    BY <1>1, <1>2, <2>1
  <2>2. CASE k # call.level
    <3>1. k \in d..(call.level - 1)
      BY <1>2, <2>2
    <3> QED BY <1>1, <3>1
  <2> QED BY <2>1, <2>2
<1>7. call' = [call EXCEPT !.xp = x, !.level = l]
  BY DEF LevelUp
<1> HIDE DEF x, l
<1>8. call' = [pc |-> call.pc, row |-> call.row, sig |-> call.sig, hard |-> call.hard,
               t |-> call.t, xp |-> x, level |-> l, steps |-> call.steps]
  BY <1>1, <1>7 DEF CallType
<1>9. /\ CallType(call') /\ call'.pc = call.pc /\ call'.xp = x /\ call'.level = l
      /\ call'.hard = call.hard
      /\ Decay(call') = Decay(call) /\ \A k : Rest(call', k) = Rest(call, k)
  BY <1>1, <1>2, <1>4, <1>8, CallStep
<1>10. call.pc = "loop"
  BY DEF LevelUp
<1> QED BY <1>1, <1>4, <1>5, <1>6, <1>9, <1>10 DEF CallOK

(* The loop is left where reachedLevel says. *)
LEMMA CapOK == ASSUME CallOK(call), Cap PROVE CallOK(call')
<1> DEFINE d == Decay(call).level
           x == IF call.level >= call.hard THEN atMost(call.xp, threatLevelThreshold(call.hard))
                ELSE call.xp
<1>1. /\ CallType(call) /\ Decay(call).xp \in Nat /\ d \in Levels
      /\ call.level >= d /\ call.xp = Rest(call, call.level)
      /\ \A k \in d..(call.level - 1) : k < call.hard /\ Rest(call, k) >= threatLevelThreshold(k)
  BY DEF CallOK, Cap, CapAt
<1>2. /\ call.xp \in Nat /\ call.level \in Levels /\ call.level \in Nat /\ call.steps \in Nat
      /\ call.hard \in Nat /\ call.hard \in Levels /\ call.level <= MaxLevel
      /\ call.sig.delta \in Nat /\ MaxLevel \in Nat /\ d \in Nat
      /\ call.level >= call.hard \/ call.xp < threatLevelThreshold(call.level)
  BY <1>1, CallGiven DEF CallType, Cap, CapAt, Levels
<1>3. Total(call) \in Nat /\ call.level \in d..MaxLevel
  BY <1>1, <1>2 DEF Total
<1>4. call.level = reachedLevel(Total(call), d, call.hard)
  BY <1>1, <1>2, <1>3, ReachedOnce DEF Rest
<1>5. x \in Nat
  BY <1>2, ThresholdPositive DEF atMost
<1>6. x = Capped(call, call.level)
  BY <1>1 DEF Capped
<1>7. call' = [call EXCEPT !.pc = "boost", !.xp = x]
  BY DEF Cap, CapAt
<1> HIDE DEF x
<1>8. call' = [pc |-> "boost", row |-> call.row, sig |-> call.sig, hard |-> call.hard,
               t |-> call.t, xp |-> x, level |-> call.level, steps |-> call.steps]
  BY <1>1, <1>7 DEF CallType
<1>9. /\ CallType(call') /\ call'.pc = "boost" /\ call'.xp = x /\ call'.level = call.level
      /\ call'.hard = call.hard /\ Decay(call') = Decay(call) /\ Total(call') = Total(call)
      /\ \A k : Capped(call', k) = Capped(call, k)
  BY <1>1, <1>2, <1>5, <1>8, CallStep
<1> QED BY <1>1, <1>4, <1>6, <1>9 DEF CallOK

(* The boost ends the call with what escalate says. *)
LEMMA BoostOK == ASSUME CallOK(call), WatchBoost PROVE CallOK(call')
<1> DEFINE boosted == call.sig.boost /\ call.level < WatchLevel
           l == IF boosted THEN WatchLevel ELSE call.level
           x == IF boosted THEN atMost(call.xp, threatLevelThreshold(WatchLevel) - 1) ELSE call.xp
           up == escalate(Decay(call), call.sig, call.hard)
<1>1. /\ CallType(call) /\ Decay(call).xp \in Nat /\ Decay(call).level \in Levels
      /\ call.level = reachedLevel(Total(call), Decay(call).level, call.hard)
      /\ call.xp = Capped(call, call.level)
  BY DEF CallOK, WatchBoost
<1>2. /\ call.xp \in Nat /\ call.level \in Levels /\ call.level \in Nat /\ call.steps \in Nat
      /\ call.sig.delta \in Nat /\ WatchLevel \in Levels /\ WatchLevel \in Nat
      /\ Decay(call).level \in Nat
  BY <1>1, CallGiven, ScoreAssumption DEF CallType, WatchLevel, Levels
<1>3. threatLevelThreshold(WatchLevel) \in Nat \ {0}
  BY <1>2, ThresholdPositive
<1>4. x \in Nat /\ l \in Levels
  BY <1>2, <1>3 DEF atMost
<1>5. up.level = l /\ up.xp = x
  <2> DEFINE rest == Decay(call).xp + call.sig.delta
                       - (spentXP[call.level] - spentXP[Decay(call).level])
             y == IF call.level >= call.hard THEN atMost(rest, threatLevelThreshold(call.hard))
                  ELSE rest
  <2>1. up = IF call.sig.boost /\ call.level < WatchLevel
             THEN [level |-> WatchLevel, xp |-> atMost(y, threatLevelThreshold(WatchLevel) - 1)]
             ELSE [level |-> call.level, xp |-> y]
    BY <1>1, Zenon DEF escalate, Total
  <2>2. rest = Rest(call, call.level)
    BY <1>1, <1>2, Spent DEF Rest, Total
  <2>3. y = call.xp
    BY <1>1, <2>2 DEF Capped
  <2> HIDE DEF up, y
  <2> QED BY <2>1, <2>3
<1>6. call' = [pc |-> "done", row |-> call.row, sig |-> call.sig, hard |-> call.hard,
               t |-> call.t, xp |-> x, level |-> l, steps |-> call.steps]
  <2>1. CASE boosted
    <3>1. call' = [call EXCEPT !.pc = "done", !.level = l, !.xp = x]
      BY <2>1 DEF WatchBoost
    <3> HIDE DEF l, x
    <3> QED BY <1>1, <3>1 DEF CallType
  <2>2. CASE ~boosted
    <3>1. call' = [call EXCEPT !.pc = "done"] /\ l = call.level /\ x = call.xp
      BY <2>2 DEF WatchBoost
    <3> HIDE DEF l, x
    <3> QED BY <1>1, <3>1 DEF CallType
  <2> QED BY <2>1, <2>2
<1> HIDE DEF x, l
<1>7. /\ CallType(call') /\ call'.pc = "done" /\ call'.xp = x /\ call'.level = l
      /\ call'.hard = call.hard /\ call'.sig = call.sig /\ Decay(call') = Decay(call)
  BY <1>1, <1>2, <1>4, <1>6, CallStep
<1> QED BY <1>5, <1>7 DEF CallOK

(* The invariant of the loops. *)
LoopInv == CallOK(call)

(* The loops of ApplyThreatIntelEvent and decayThreatState, run iteration  *)
(* by iteration, end with the level and the XP that the operators of       *)
(* ThreatScore give, for every row, signal, hard level and idle time: the  *)
(* closed form that ThreatIntel is built on is what the code computes.     *)
THEOREM LoopsCompute == CallSpec => []LoopsComputeScore
<1>1. CallInit => LoopInv
  BY CallStarts DEF LoopInv
<1>2. LoopInv /\ [CallNext]_call => LoopInv'
  <2> SUFFICES ASSUME CallOK(call), [CallNext]_call PROVE CallOK(call')
    BY DEF LoopInv, CallOK, CallType, Decay, Total, Rest, Capped
  <2>1. CASE UNCHANGED call
    BY <2>1
  <2> QED BY <2>1, DecayStartOK, DecayStepOK, LevelDecayOK, AwardOK, LevelUpOK, CapOK, BoostOK
          DEF CallNext
<1>3. LoopInv => LoopsComputeScore
  BY DEF LoopInv, CallOK, LoopsComputeScore, Decay
<1> QED BY <1>1, <1>2, <1>3, PTL DEF CallSpec

-----------------------------------------------------------------------------
(* The invariant. *)

(* A row of the table: its columns, one ban at a time, XP within its level. *)
RowOK(st) ==
    /\ st \in IPState
    /\ st.perm => st.banUntil = 0
    /\ st.xp <= threatLevelThreshold(st.level)

Early == {"check", "sshRow", "sshState", "config"}
Late == {"row", "hard", "soft", "save"}

ReqOK(q) ==
    \/ q = ReqIdle
    \/ /\ q = [pc |-> q.pc, ip |-> q.ip, ev |-> q.ev, edge |-> q.edge]
       /\ q.pc \in Early /\ q.ip \in IPs /\ q.ev \in Event /\ q.edge \in BOOLEAN
    \/ /\ q = [pc |-> q.pc, ip |-> q.ip, ev |-> q.ev, edge |-> q.edge, cfg |-> q.cfg]
       /\ q.pc = "read" /\ q.ip \in IPs /\ q.ev \in Event /\ q.edge \in BOOLEAN
       /\ q.cfg \in Configs
    \/ /\ q = [pc |-> q.pc, ip |-> q.ip, edge |-> q.edge, st |-> q.st]
       /\ q.pc \in Late /\ q.ip \in IPs /\ q.edge \in BOOLEAN
       /\ RowOK(q.st)

ListOK(list) ==
    /\ list = [ip \in IPs |-> list[ip]]
    /\ \A ip \in IPs : RowOK(list[ip])

(* The worker before it has listed the rows, and with its lists read. *)
DwEarly(d) ==
    /\ d = [pc |-> d.pc, cfg |-> d.cfg]
    /\ d.pc \in {"promote", "sync", "list"} /\ d.cfg \in Configs

DwRows(d) ==
    /\ d = [pc |-> d.pc, cfg |-> d.cfg, list |-> d.list, todo |-> d.todo,
            allow |-> d.allow, t |-> d.t, cur |-> d.cur, expired |-> d.expired,
            orphans |-> d.orphans]
    /\ d.pc \in {"rows", "close"} /\ d.cfg \in Configs /\ ListOK(d.list)
    /\ d.todo \subseteq IPs /\ d.expired \subseteq IPs /\ d.orphans \subseteq IPs
    /\ d.allow \subseteq IPs /\ d.t \in Instants /\ d.cur \in IPs \union {NoIP}

DwOK(d) ==
    \/ d = DwIdle
    \/ DwEarly(d)
    \/ /\ d = [pc |-> d.pc, cfg |-> d.cfg, list |-> d.list, todo |-> d.todo]
       /\ d.pc = "listAllow" /\ d.cfg \in Configs /\ ListOK(d.list)
       /\ d.todo \subseteq IPs
    \/ /\ d = [pc |-> d.pc, cfg |-> d.cfg, list |-> d.list, todo |-> d.todo,
               allow |-> d.allow, t |-> d.t]
       /\ d.pc = "listExpired" /\ d.cfg \in Configs /\ ListOK(d.list)
       /\ d.todo \subseteq IPs /\ d.allow \subseteq IPs /\ d.t \in Instants
    \/ DwRows(d)

(* Every copy of a row, and the operations that carry one. *)
RowsOK ==
    /\ ListOK(tiState)
    /\ req = [r \in Reqs |-> req[r]] /\ \A r \in Reqs : ReqOK(req[r])
    /\ DwOK(dw)

(* What the rows are computed from, and the other tables. *)
RestOK ==
    /\ now \in Instants
    /\ cfg \in Configs
    /\ blocked \in [IPs -> Instants \union {0}]
    /\ allow \subseteq IPs /\ openHard \subseteq IPs /\ openSoft \subseteq IPs
    /\ snap \in [allow: SUBSET IPs, auto: BOOLEAN]
    /\ adm \in AdmStates

(* The inductive invariant. *)
TIInv == RowsOK /\ RestOK

-----------------------------------------------------------------------------
(* Every function that computes a row keeps it sound. *)

(* A row that does not exist yet. *)
LEMMA FreshRow == RowOK(FreshState)
<1>1. 0 \in Levels /\ threatLevelThreshold(0) \in Nat
  BY ScoreAssumption, ThresholdPositive DEF Levels
<1> QED BY <1>1 DEF RowOK, FreshState, IPState, Risks

(* Decay changes XP and level, never a ban. *)
LEMMA DecayRow ==
    ASSUME NEW st, NEW t \in Nat, RowOK(st) PROVE RowOK(decayThreatState(st, t))
BY Decayed DEF RowOK

(* A risk is one of the four. *)
LEMMA RiskOK ==
    ASSUME NEW l, NEW soft, NEW hard PROVE threatRiskState(l, soft, hard) \in Risks
BY DEF threatRiskState, Risks

(* A hard block clears ban_until; a soft ban is set only without one. *)
LEMMA DecideRow ==
    ASSUME NEW st, NEW up, NEW ev \in Event, NEW c, NEW t \in Nat, RowOK(st),
           up.level \in Levels, up.xp \in Nat, up.xp <= threatLevelThreshold(up.level)
    PROVE  RowOK(decide(st, up, ev, c, t).st)
<1> DEFINE newPerm == ev.auto /\ up.level >= c.hard
           perm == st.perm \/ newPerm
           active == ~newPerm /\ SoftBanned(st, t)
           setSoft == ~perm /\ ~active /\ ev.auto /\ ~ev.sig.boost /\ up.level >= c.soft
           risk == IF newPerm THEN "hardblock"
                   ELSE IF ev.sig.boost /\ ~st.perm /\ ~SoftBanned(st, t) THEN "watch"
                   ELSE threatRiskState(up.level, c.soft, c.hard)
           ban == IF newPerm THEN 0 ELSE IF setSoft THEN t + SoftBlock ELSE st.banUntil
           v == [xp |-> up.xp, level |-> up.level, risk |-> risk, perm |-> perm,
                 lastSeen |-> t, banUntil |-> ban]
<1>1. decide(st, up, ev, c, t).st = v
  BY DEF decide
<1>2. perm \in BOOLEAN
  BY Zenon DEF RowOK, IPState
<1>3. st.banUntil \in Nat /\ (st.perm => st.banUntil = 0) /\ st.perm \in BOOLEAN
  BY DEF RowOK, IPState
<1>4. risk \in Risks
  BY RiskOK DEF Risks
<1>5. ban \in Nat
  BY <1>3, ScoreAssumption
<1>6. perm => ban = 0
  BY <1>3
<1> HIDE DEF newPerm, perm, active, setSoft, risk, ban
<1> QED BY <1>1, <1>2, <1>4, <1>5, <1>6 DEF RowOK, IPState

(* A row past its retention. *)
LEMMA ReleasedRow == ASSUME NEW t \in Nat PROVE RowOK(releasedState(t))
<1>1. WatchLevel \in Levels /\ threatLevelThreshold(WatchLevel) \in Nat
  BY ScoreAssumption, ThresholdPositive DEF Levels, WatchLevel
<1> QED BY <1>1 DEF RowOK, releasedState, IPState, Risks

(* A row after a decay pass. *)
LEMMA ReconcileRow ==
    ASSUME NEW st, NEW c, NEW t \in Nat, RowOK(st) PROVE RowOK(reconcileState(st, c, t))
<1> DEFINE d == decayThreatState(st, t)
           ban == IF banLapsed(d, t) THEN 0 ELSE d.banUntil
           risk == IF d.risk # "watch" THEN threatRiskState(d.level, c.soft, c.hard)
                   ELSE IF d.level = 0 /\ d.xp = 0 THEN "monitoring" ELSE d.risk
           v == reconcileState(st, c, t)
<1>1. RowOK(d)
  BY DecayRow
<1>2. v = [d EXCEPT !.banUntil = ban, !.risk = risk]
  BY DEF reconcileState
<1>3. ban \in Nat /\ (d.perm => ban = 0) /\ risk \in Risks
  <2> HIDE DEF d
  <2> QED BY <1>1, RiskOK DEF RowOK, IPState, Risks
<1> HIDE DEF d, v, ban, risk
<1>4. v = [xp |-> d.xp, level |-> d.level, risk |-> risk, banUntil |-> ban,
           perm |-> d.perm, lastSeen |-> d.lastSeen]
  BY <1>1, <1>2 DEF RowOK, IPState
<1>5. RowOK(v)
  BY <1>1, <1>3, <1>4 DEF RowOK, IPState
<1> QED BY <1>5 DEF v

(* Clearing ban_until keeps a row sound. *)
LEMMA UnbannedRow ==
    ASSUME NEW st, RowOK(st) PROVE RowOK([st EXCEPT !.banUntil = 0])
BY DEF RowOK, IPState

(* A promoted row has no soft ban. *)
LEMMA PromotedRow ==
    ASSUME NEW st, RowOK(st) PROVE RowOK(hardBlockedState(st))
BY DEF RowOK, hardBlockedState, IPState, Risks

-----------------------------------------------------------------------------
(* Requests. *)

(* A step that only replaces one request by a well-formed one. *)
LEMMA ReqUpdate ==
    ASSUME RowsOK, NEW r \in Reqs, NEW v, ReqOK(v),
           req' = [req EXCEPT ![r] = v], tiState' = tiState, dw' = dw
    PROVE  RowsOK'
<1>1. req' = [q \in Reqs |-> IF q = r THEN v ELSE req[q]]
  BY DEF RowsOK
<1>2. req' = [q \in Reqs |-> req'[q]]
  BY <1>1
<1>3. ASSUME NEW q \in Reqs PROVE ReqOK(req'[q])
  BY <1>1, <1>3 DEF RowsOK
<1>4. \A q \in Reqs : ReqOK(req[q])'
  BY <1>3 DEF ReqOK, RowOK
<1> QED BY <1>2, <1>4 DEF RowsOK, ListOK, DwOK, RowOK

(* A request that moves on within the reads, or within the writes. *)
LEMMA GotoEarly ==
    ASSUME NEW q, ReqOK(q), q.pc \in Early, NEW pc \in Early
    PROVE  ReqOK([q EXCEPT !.pc = pc])
<1>1. /\ q = [pc |-> q.pc, ip |-> q.ip, ev |-> q.ev, edge |-> q.edge]
      /\ q.ip \in IPs /\ q.ev \in Event /\ q.edge \in BOOLEAN
  BY DEF ReqOK, ReqIdle, Early, Late
<1>2. [q EXCEPT !.pc = pc] = [pc |-> pc, ip |-> q.ip, ev |-> q.ev, edge |-> q.edge]
  BY <1>1
<1> QED BY <1>1, <1>2 DEF ReqOK, Early

(* A request that carries a row moves on. *)
LEMMA GotoLate ==
    ASSUME NEW q, ReqOK(q), q.pc \in Late, NEW pc \in Late
    PROVE  ReqOK([q EXCEPT !.pc = pc])
<1>1. /\ q = [pc |-> q.pc, ip |-> q.ip, edge |-> q.edge, st |-> q.st]
      /\ q.ip \in IPs /\ q.edge \in BOOLEAN /\ RowOK(q.st)
  BY DEF ReqOK, ReqIdle, Early, Late
<1>2. [q EXCEPT !.pc = pc] = [pc |-> pc, ip |-> q.ip, edge |-> q.edge, st |-> q.st]
  BY <1>1
<1> QED BY <1>1, <1>2 DEF ReqOK, Late

(* A request moves on, with a row or without. *)
LEMMA GotoReq ==
    ASSUME RowsOK, NEW r \in Reqs, NEW pc,
           \/ req[r].pc \in Early /\ pc \in Early
           \/ req[r].pc \in Late /\ pc \in Late,
           Goto(r, pc), tiState' = tiState, dw' = dw
    PROVE  RowsOK'
<1> DEFINE v == [req[r] EXCEPT !.pc = pc]
<1>1. ReqOK(v)
  BY GotoEarly, GotoLate DEF RowsOK
<1>2. req' = [req EXCEPT ![r] = v]
  BY DEF Goto
<1> HIDE DEF v
<1> QED BY <1>1, <1>2, ReqUpdate

(* A request ends. *)
LEMMA DoneReq ==
    ASSUME RowsOK, NEW r \in Reqs, Done(r), tiState' = tiState, dw' = dw
    PROVE  RowsOK'
<1>1. ReqOK(ReqIdle)
  BY DEF ReqOK
<1> QED BY <1>1, ReqUpdate DEF Done

(* A request starts. *)
LEMMA StartReq ==
    ASSUME RowsOK, NEW r \in Reqs, NEW entry, NEW pc \in Early, NEW ip \in IPs, NEW ev \in Event,
           Start(r, entry, pc, ip, ev)
    PROVE  RowsOK'
<1> DEFINE v == [pc |-> pc, ip |-> ip, ev |-> ev, edge |-> entry = "edge"]
<1>1. (entry = "edge") \in BOOLEAN
  BY Zenon
<1>2. ReqOK(v)
  BY <1>1 DEF ReqOK, Early
<1>3. req' = [req EXCEPT ![r] = v] /\ tiState' = tiState /\ dw' = dw
  BY DEF Start, tables
<1> HIDE DEF v
<1> QED BY <1>2, <1>3, ReqUpdate

(* A sound row is stored. *)
LEMMA RowUpdate ==
    ASSUME ListOK(tiState), NEW ip \in IPs, NEW v, RowOK(v),
           tiState' = [tiState EXCEPT ![ip] = v]
    PROVE  ListOK(tiState')
<1>1. tiState' = [x \in IPs |-> IF x = ip THEN v ELSE tiState[x]]
  BY DEF ListOK
<1> QED BY <1>1 DEF ListOK

(* What the parts of the invariant depend on. *)
LEMMA Combine ==
    ASSUME ListOK(tiState'), req' = [r \in Reqs |-> req'[r]],
           \A r \in Reqs : ReqOK(req'[r]), DwOK(dw')
    PROVE  RowsOK'
BY DEF RowsOK, ListOK, ReqOK, DwOK, RowOK

(* ApplyThreatIntelEvent computes the row to save from the row it reads. *)
LEMMA ReadStateStep ==
    ASSUME RowsOK, now \in Instants, NEW r \in Reqs, ApplyReadState(r) PROVE RowsOK'
<1> DEFINE q == req[r]
           row == decayThreatState(tiState[q.ip], now)
           up == escalate(row, q.ev.sig, q.cfg.hard)
           out == decide(row, up, q.ev, q.cfg, now)
           next == CASE out.decision = "hard_block_permanent" -> "row"
                     [] out.decision = "soft_block_set" -> "soft"
                     [] OTHER -> "save"
           v == [pc |-> next, ip |-> q.ip, edge |-> q.edge, st |-> out.st]
<1>1. q.ip \in IPs /\ q.ev \in Event /\ q.edge \in BOOLEAN /\ q.cfg \in Configs
  BY DEF ApplyReadState, RowsOK, ReqOK, ReqIdle, Early, Late
<1>2. now \in Nat
  BY TimeAssumption
<1>3. RowOK(row)
  BY <1>1, <1>2, DecayRow DEF RowsOK, ListOK
<1>4. req' = [req EXCEPT ![r] = v] /\ tiState' = tiState /\ dw' = dw
  BY DEF ApplyReadState, tables
<1> HIDE DEF q, row
<1>5. q.ev.sig \in [delta: Nat \ {0}, boost: BOOLEAN] /\ q.cfg.hard \in Levels
  BY <1>1, EnvironmentAssumption, ConfigAssumption DEF Event, Config
<1>6. up.level \in Levels /\ up.xp \in Nat /\ up.xp <= threatLevelThreshold(up.level)
  BY <1>3, <1>5, Escalated DEF RowOK
<1> HIDE DEF up
<1>7. RowOK(out.st)
  BY <1>1, <1>2, <1>3, <1>6, DecideRow
<1>8. next \in {"row", "soft", "save"}
  OBVIOUS
<1> HIDE DEF out, next
<1>9. ReqOK(v)
  BY <1>1, <1>7, <1>8 DEF ReqOK, Late
<1> HIDE DEF v
<1> QED BY <1>4, <1>9, ReqUpdate

(* The event reads the configuration. *)
LEMMA ReadConfigStep ==
    ASSUME RowsOK, cfg \in Configs, NEW r \in Reqs, ApplyReadConfig(r) PROVE RowsOK'
<1> DEFINE v == [pc |-> "read", ip |-> req[r].ip, ev |-> req[r].ev,
                 edge |-> req[r].edge, cfg |-> cfg]
<1>1. req[r].ip \in IPs /\ req[r].ev \in Event /\ req[r].edge \in BOOLEAN
  BY DEF ApplyReadConfig, RowsOK, ReqOK, ReqIdle, Early, Late
<1>2. ReqOK(v)
  BY <1>1 DEF ReqOK
<1>3. req' = [req EXCEPT ![r] = v] /\ tiState' = tiState /\ dw' = dw
  BY DEF ApplyReadConfig, tables
<1> HIDE DEF v
<1> QED BY <1>2, <1>3, ReqUpdate

(* The event stores the row it computed. *)
LEMMA SaveStep ==
    ASSUME RowsOK, NEW r \in Reqs, ApplySave(r) PROVE RowsOK'
<1>1. req[r].ip \in IPs /\ RowOK(req[r].st)
  BY DEF ApplySave, RowsOK, ReqOK, ReqIdle, Early, Late
<1>2. ListOK(tiState')
  BY <1>1, RowUpdate DEF ApplySave, RowsOK
<1>3. req' = [q \in Reqs |-> IF q = r THEN ReqIdle ELSE req[q]]
  BY DEF ApplySave, Done, RowsOK
<1>4. req' = [q \in Reqs |-> req'[q]] /\ \A q \in Reqs : ReqOK(req'[q])
  BY <1>3 DEF RowsOK, ReqOK
<1>5. DwOK(dw')
  BY DEF ApplySave, RowsOK
<1> QED BY <1>2, <1>4, <1>5, Combine

(* Every step of a request. *)
LEMMA RequestSteps ==
    ASSUME RowsOK, RestOK, NEW r \in Reqs, RequestStep(r) \/ EdgeAbort(r) PROVE RowsOK'
<1>1. CASE EdgeCheckBlocked(r)
  BY <1>1, GotoReq, DoneReq DEF EdgeCheckBlocked, Early, tables
<1>2. CASE SshCheckRow(r)
  BY <1>2, GotoReq, DoneReq DEF SshCheckRow, Early, tables
<1>3. CASE SshCheckState(r)
  BY <1>3, GotoReq, DoneReq DEF SshCheckState, Early, tables
<1>4. CASE ApplyReadConfig(r)
  BY <1>4, ReadConfigStep DEF RestOK
<1>5. CASE ApplyReadState(r)
  BY <1>5, ReadStateStep DEF RestOK
<1>6. CASE ApplyBlockRow(r)
  BY <1>6, GotoReq DEF ApplyBlockRow, Late
<1>7. CASE ApplyOpenHistory(r)
  BY <1>7, GotoReq DEF ApplyOpenHistory, Late
<1>8. CASE ApplySave(r)
  BY <1>8, SaveStep
<1>9. CASE EdgeAbort(r)
  BY <1>9, DoneReq DEF EdgeAbort, tables
<1> QED BY <1>1, <1>2, <1>3, <1>4, <1>5, <1>6, <1>7, <1>8, <1>9 DEF RequestStep

(* Requests arrive. *)
LEMMA ArrivalSteps ==
    ASSUME RowsOK, RestOK, RequestArrives PROVE RowsOK'
<1> PICK r \in Reqs, ip \in IPs, sig \in Signals :
        EdgeArrive(r, ip, sig) \/ SshAuthenticate(r, ip, sig) \/ SshForwardDenied(r, ip, sig)
  BY DEF RequestArrives
<1>1. snap.auto \in BOOLEAN
  BY DEF RestOK
<1>2. [sig |-> sig, auto |-> snap.auto] \in Event /\ [sig |-> sig, auto |-> TRUE] \in Event
  BY <1>1 DEF Event
<1>3. CASE EdgeArrive(r, ip, sig)
  BY <1>2, <1>3, StartReq DEF EdgeArrive, Early
<1>4. CASE SshAuthenticate(r, ip, sig)
  BY <1>2, <1>4, StartReq DEF SshAuthenticate, Early
<1>5. CASE SshForwardDenied(r, ip, sig)
  BY <1>2, <1>5, StartReq DEF SshForwardDenied, Early
<1> QED BY <1>3, <1>4, <1>5

-----------------------------------------------------------------------------
(* The decay worker. *)

(* A step of the worker that leaves the requests alone. *)
LEMMA DwUpdate ==
    ASSUME RowsOK, ListOK(tiState'), DwOK(dw'), req' = req PROVE RowsOK'
BY Combine DEF RowsOK

(* The worker in its last phase is well-formed. *)
LEMMA DwRowsOK == ASSUME NEW d, DwRows(d) PROVE DwOK(d)
BY DEF DwRows, DwOK

(* The worker at its rows is in that phase. *)
LEMMA RowsShape ==
    ASSUME NEW d, DwOK(d), d.pc \in {"rows", "close"} PROVE DwRows(d)
BY DEF DwRows, DwEarly, DwOK, DwIdle

(* The worker's list gets a sound row. *)
LEMMA ListUpdate ==
    ASSUME NEW list, ListOK(list), NEW ip \in IPs, NEW v, RowOK(v)
    PROVE  ListOK([list EXCEPT ![ip] = v])
<1>1. [list EXCEPT ![ip] = v] = [x \in IPs |-> IF x = ip THEN v ELSE list[x]]
  BY DEF ListOK
<1> QED BY <1>1 DEF ListOK

(* The worker moves on before it lists the rows. *)
LEMMA EarlyStep ==
    ASSUME NEW d, DwOK(d), d.pc \in {"promote", "sync"}, NEW pc \in {"sync", "list"}
    PROVE  DwOK([d EXCEPT !.pc = pc])
<1>1. DwEarly(d)
  BY DEF DwOK, DwIdle, DwRows
<1>2. [d EXCEPT !.pc = pc] = [pc |-> pc, cfg |-> d.cfg]
  BY <1>1 DEF DwEarly
<1>3. DwEarly([d EXCEPT !.pc = pc])
  BY <1>1, <1>2 DEF DwEarly
<1> QED BY <1>3 DEF DwOK

(* The promotion stores only promoted rows. *)
LEMMA PromoteStep ==
    ASSUME RowsOK, PromoteThreatIntelHardBlocks PROVE RowsOK'
<1>1. PICK hit : tiState' = [ip \in IPs |->
             IF ip \in hit THEN hardBlockedState(tiState[ip]) ELSE tiState[ip]]
  BY DEF PromoteThreatIntelHardBlocks
<1>2. ListOK(tiState')
  BY <1>1, PromotedRow DEF RowsOK, ListOK
<1>3. DwOK(dw')
  BY EarlyStep DEF PromoteThreatIntelHardBlocks, RowsOK
<1> QED BY <1>2, <1>3, DwUpdate DEF PromoteThreatIntelHardBlocks

(* The steps that read the worker's lists. *)
LEMMA ListSteps ==
    ASSUME RowsOK, RestOK,
           \/ DwStart \/ SyncThreatIntelBanHistoryOpen
           \/ DwListStates \/ DwListAllow \/ DwListExpired
    PROVE  RowsOK'
<1>1. CASE DwStart
  <2>1. DwEarly(dw')
    BY <1>1 DEF DwStart, DwEarly, RestOK
  <2> QED BY <1>1, <2>1, DwUpdate DEF DwStart, tables, RowsOK, DwOK
<1>2. CASE SyncThreatIntelBanHistoryOpen
  <2>1. DwOK(dw')
    BY <1>2, EarlyStep DEF SyncThreatIntelBanHistoryOpen, RowsOK
  <2> QED BY <1>2, <2>1, DwUpdate DEF SyncThreatIntelBanHistoryOpen, RowsOK
<1>3. CASE DwListStates
  <2>1. dw.cfg \in Configs
    BY <1>3 DEF DwListStates, RowsOK, DwOK, DwIdle, DwEarly, DwRows
  <2>2. DwOK(dw')
    BY <1>3, <2>1 DEF DwListStates, RowsOK, DwOK
  <2> QED BY <1>3, <2>2, DwUpdate DEF DwListStates, tables, RowsOK
<1>4. CASE DwListAllow
  <2>1. dw.cfg \in Configs /\ ListOK(dw.list) /\ dw.todo \subseteq IPs
    BY <1>4 DEF DwListAllow, RowsOK, DwOK, DwIdle, DwEarly, DwRows
  <2>2. DwOK(dw')
    BY <1>4, <2>1 DEF DwListAllow, DwOK, RestOK
  <2> QED BY <1>4, <2>2, DwUpdate DEF DwListAllow, tables, RowsOK
<1>5. CASE DwListExpired
  <2>1. /\ dw.cfg \in Configs /\ ListOK(dw.list) /\ dw.todo \subseteq IPs
        /\ dw.allow \subseteq IPs /\ dw.t \in Instants
    BY <1>5 DEF DwListExpired, RowsOK, DwOK, DwIdle, DwEarly, DwRows
  <2>2. PICK expired \in SUBSET IPs :
          dw' = [pc |-> "rows", cfg |-> dw.cfg, list |-> dw.list, todo |-> dw.todo,
                 allow |-> dw.allow, t |-> dw.t, cur |-> NoIP, expired |-> expired,
                 orphans |-> (expired \ dw.allow) \ dw.todo]
    BY <1>5 DEF DwListExpired, ListBlockedIPsBefore
  <2>3. DwRows(dw')
    BY <2>1, <2>2 DEF DwRows
  <2>4. DwOK(dw')
    BY <2>3, DwRowsOK
  <2> QED BY <1>5, <2>4, DwUpdate DEF DwListExpired, tables, RowsOK
<1> QED BY <1>1, <1>2, <1>3, <1>4, <1>5

(* Releasing a block: the listed row becomes a watched one. *)
LEMMA ReleaseStep ==
    ASSUME RowsOK, NEW ip \in IPs, DwRelease(ip) PROVE RowsOK'
<1>1. DwRows(dw)
  BY RowsShape DEF DwRelease, Working, RowsOK
<1>2. DwOK(dw')
  <2>1. CASE dw' = [dw EXCEPT !.pc = "close", !.cur = ip, !.list[ip] = releasedState(dw.t)]
    <3> DEFINE list == [dw.list EXCEPT ![ip] = releasedState(dw.t)]
    <3>1. ListOK(list)
      BY <1>1, ReleasedRow, ListUpdate, TimeAssumption DEF DwRows
    <3>2. dw' = [pc |-> "close", cfg |-> dw.cfg, list |-> list, todo |-> dw.todo,
                 allow |-> dw.allow, t |-> dw.t, cur |-> ip, expired |-> dw.expired,
                 orphans |-> dw.orphans]
      BY <1>1, <2>1 DEF DwRows
    <3> HIDE DEF list
    <3>3. DwRows(dw')
      BY <1>1, <3>1, <3>2 DEF DwRows
    <3> QED BY <3>3, DwRowsOK
  <2>2. CASE dw' = [dw EXCEPT !.pc = "close", !.cur = ip, !.orphans = @ \ {ip}]
    <3>1. dw' = [pc |-> "close", cfg |-> dw.cfg, list |-> dw.list, todo |-> dw.todo,
                 allow |-> dw.allow, t |-> dw.t, cur |-> ip, expired |-> dw.expired,
                 orphans |-> dw.orphans \ {ip}]
      BY <1>1, <2>2 DEF DwRows
    <3>2. DwRows(dw')
      BY <1>1, <3>1 DEF DwRows
    <3> QED BY <3>2, DwRowsOK
  <2> QED BY <2>1, <2>2 DEF DwRelease
<1> QED BY <1>2, DwUpdate DEF DwRelease, RowsOK

(* A hard block is closed in the history. *)
LEMMA CloseHardStep ==
    ASSUME RowsOK, DwCloseHard PROVE RowsOK'
<1>1. DwRows(dw)
  BY RowsShape DEF DwCloseHard, RowsOK
<1>2. dw' = [pc |-> "rows", cfg |-> dw.cfg, list |-> dw.list, todo |-> dw.todo,
             allow |-> dw.allow, t |-> dw.t,
             cur |-> IF dw.cur \in dw.todo THEN dw.cur ELSE NoIP, expired |-> dw.expired,
             orphans |-> dw.orphans]
  BY <1>1 DEF DwCloseHard, DwRows
<1>3. DwRows(dw')
  BY <1>1, <1>2 DEF DwRows
<1> QED BY <1>3, DwRowsOK, DwUpdate DEF DwCloseHard, RowsOK

(* A lapsed soft ban is cleared. *)
LEMMA CloseSoftStep ==
    ASSUME RowsOK, NEW ip \in IPs, DwCloseSoft(ip) PROVE RowsOK'
<1> DEFINE row == [dw.list[ip] EXCEPT !.banUntil = 0]
           list == [dw.list EXCEPT ![ip] = row]
<1>1. DwRows(dw)
  BY RowsShape DEF DwCloseSoft, Working, RowsOK
<1>2. RowOK(row)
  BY <1>1, UnbannedRow DEF DwRows, ListOK
<1>3. dw' = [pc |-> dw.pc, cfg |-> dw.cfg, list |-> list, todo |-> dw.todo,
             allow |-> dw.allow, t |-> dw.t, cur |-> ip, expired |-> dw.expired,
             orphans |-> dw.orphans]
  BY <1>1 DEF DwCloseSoft, DwRows
<1> HIDE DEF row
<1>4. ListOK(list)
  BY <1>1, <1>2, ListUpdate DEF DwRows
<1> HIDE DEF list
<1>5. DwRows(dw')
  BY <1>1, <1>3, <1>4 DEF DwRows
<1> QED BY <1>5, DwRowsOK, DwUpdate DEF DwCloseSoft, RowsOK

(* Saving the reconciled row, or deleting one that has cooled down. *)
LEMMA DwSaveStep ==
    ASSUME RowsOK, NEW ip \in IPs, DwSave(ip) PROVE RowsOK'
<1>1. DwRows(dw)
  BY RowsShape DEF DwSave, Working, RowsOK
<1>2. dw' = [pc |-> dw.pc, cfg |-> dw.cfg, list |-> dw.list, todo |-> dw.todo \ {ip},
             allow |-> dw.allow, t |-> dw.t, cur |-> NoIP, expired |-> dw.expired,
             orphans |-> dw.orphans]
  BY <1>1 DEF DwSave, DwRows
<1>3. DwRows(dw')
  BY <1>1, <1>2 DEF DwRows
<1>4. RowOK(dw.list[ip])
  BY <1>1 DEF DwRows, ListOK
<1>5. RowOK(reconcileState(dw.list[ip], dw.cfg, dw.t))
  BY <1>1, <1>4, ReconcileRow, TimeAssumption DEF DwRows
<1>6. PICK v : RowOK(v) /\ tiState' = [tiState EXCEPT ![ip] = v]
  BY <1>5, FreshRow DEF DwSave
<1>7. ListOK(tiState')
  BY <1>6, RowUpdate DEF RowsOK
<1> QED BY <1>3, <1>7, DwRowsOK, DwUpdate DEF DwSave

(* Every step of the worker. *)
LEMMA WorkerSteps ==
    ASSUME RowsOK, RestOK, WorkerStep PROVE RowsOK'
<1>1. CASE DwEnd
  <2>1. DwOK(dw')
    BY <1>1 DEF DwEnd, DwOK
  <2> QED BY <1>1, <2>1, DwUpdate DEF DwEnd, tables, RowsOK
<1>2. CASE \E ip \in IPs : DwRelease(ip) \/ DwCloseSoft(ip) \/ DwSave(ip)
  BY <1>2, ReleaseStep, CloseSoftStep, DwSaveStep
<1> QED BY <1>1, <1>2, PromoteStep, ListSteps, CloseHardStep DEF WorkerStep

-----------------------------------------------------------------------------
(* The rest of the system. *)

(* The retention purge deletes rows. *)
LEMMA PurgeStep ==
    ASSUME RowsOK, PurgeThreatIntelStateBefore PROVE RowsOK'
<1>1. PICK S : tiState' = [ip \in IPs |-> IF ip \in S THEN FreshState ELSE tiState[ip]]
  <2> DEFINE old(st) == /\ st.lastSeen # 0 /\ st.lastSeen < now - StateRetention /\ ~st.perm
                        /\ (st.banUntil = 0 \/ st.banUntil < now - StateRetention)
             S == {ip \in IPs : old(tiState[ip])}
  <2>1. tiState' = [ip \in IPs |-> IF ip \in S THEN FreshState ELSE tiState[ip]]
    BY DEF PurgeThreatIntelStateBefore
  <2> QED BY <2>1
<1>2. ListOK(tiState')
  BY <1>1, FreshRow DEF RowsOK, ListOK
<1> QED BY <1>2, DwUpdate DEF PurgeThreatIntelStateBefore, RowsOK

(* A restart keeps the tables. *)
LEMMA RestartStep ==
    ASSUME RowsOK, Restart PROVE RowsOK'
<1>1. DwOK(dw') /\ ListOK(tiState')
  BY DEF Restart, tables, RowsOK, DwOK
<1>2. req' = [r \in Reqs |-> req'[r]] /\ \A r \in Reqs : ReqOK(req'[r])
  BY DEF Restart, ReqOK
<1> QED BY <1>1, <1>2, Combine

(* The administrator, the snapshot and the clock touch no row. *)
LEMMA OtherSteps ==
    ASSUME RowsOK,
           \/ AdminArrives \/ AdminStep \/ AdminAbort \/ SnapshotRefresh
           \/ \E t \in Instants : Tick(t)
           \/ UNCHANGED vars
    PROVE  RowsOK'
<1>1. tiState' = tiState /\ req' = req /\ dw' = dw
  BY DEF AdminArrives, AdminBlock, AdminRemoveAllow, AdminUnblock, SetThreatIntelConfig,
         AdminStep, AdminOpenHistory, AdminCloseHistory, AdminAddAllow, AdminAbort,
         SnapshotRefresh, Tick, tables, vars
<1> QED BY <1>1, DwUpdate DEF RowsOK

(* RowsOK holds at the start. *)
LEMMA RowsInitially == Init => RowsOK
<1> SUFFICES ASSUME Init PROVE RowsOK
  OBVIOUS
<1>1. ListOK(tiState)
  BY FreshRow DEF Init, ListOK
<1>2. req = [r \in Reqs |-> req[r]] /\ \A r \in Reqs : ReqOK(req[r])
  BY DEF Init, ReqOK
<1> QED BY <1>1, <1>2 DEF Init, RowsOK, DwOK

(* Every step keeps RowsOK. *)
LEMMA RowsInductive == TIInv /\ [Next]_vars => RowsOK'
<1> SUFFICES ASSUME RowsOK, RestOK, [Next]_vars PROVE RowsOK'
  BY DEF TIInv
<1> QED BY RequestSteps, ArrivalSteps, WorkerSteps, PurgeStep, RestartStep, OtherSteps DEF Next

-----------------------------------------------------------------------------
(* The other tables. *)

(* The operations of the administrator. *)
LEMMA AdmOK ==
    ASSUME NEW pc \in {"open", "close", "closeAllow", "allow"}, NEW ip \in IPs
    PROVE  [pc |-> pc, ip |-> ip] \in AdmStates
BY DEF AdmStates

(* The administrator between two steps works on a source. *)
LEMMA AdmBusy ==
    ASSUME adm \in AdmStates, adm.pc # "idle" PROVE adm.ip \in IPs
BY DEF AdmStates, AdmIdle

(* A row of blocked_ips is stamped, or removed. *)
LEMMA BlockedOK ==
    ASSUME RestOK, NEW ip \in IPs, UpsertBlockedIP(ip) \/ RemoveBlockedIP(ip)
    PROVE  blocked' \in [IPs -> Instants \union {0}]
BY DEF RestOK, UpsertBlockedIP, RemoveBlockedIP

(* The steps of a request write blocked_ips and the ban history. *)
LEMMA RestOfRequests ==
    ASSUME RowsOK, RestOK, NEW r \in Reqs, RequestStep(r) \/ EdgeAbort(r) PROVE RestOK'
<1>1. CASE ApplyBlockRow(r)
  <2>1. req[r].ip \in IPs
    BY <1>1 DEF ApplyBlockRow, RowsOK, ReqOK, ReqIdle, Early, Late
  <2>2. blocked' \in [IPs -> Instants \union {0}]
    BY <1>1, <2>1, BlockedOK DEF ApplyBlockRow
  <2> QED BY <1>1, <2>2 DEF ApplyBlockRow, RestOK
<1>2. CASE ApplyOpenHistory(r)
  <2>1. req[r].ip \in IPs
    BY <1>2 DEF ApplyOpenHistory, RowsOK, ReqOK, ReqIdle, Early, Late
  <2> QED BY <1>2, <2>1 DEF ApplyOpenHistory, EnsureHistory, RestOK
<1>3. CASE ~ApplyBlockRow(r) /\ ~ApplyOpenHistory(r)
  <2>1. UNCHANGED <<now, cfg, blocked, allow, openHard, openSoft, snap, adm>>
    BY <1>3 DEF RequestStep, EdgeCheckBlocked, SshCheckRow, SshCheckState, ApplyReadConfig,
                ApplyReadState, ApplySave, EdgeAbort, tables
  <2> QED BY <2>1 DEF RestOK
<1> QED BY <1>1, <1>2, <1>3

(* The administrator starts an operation. *)
LEMMA RestOfArrivals == ASSUME RestOK, AdminArrives PROVE RestOK'
<1>1. CASE \E ip \in IPs : AdminBlock(ip)
  <2>1. PICK ip \in IPs : AdminBlock(ip)
    BY <1>1
  <2>2. adm' \in AdmStates
    BY <2>1, AdmOK DEF AdminBlock, AdmGoto
  <2>3. blocked' \in [IPs -> Instants \union {0}]
    BY <2>1, BlockedOK DEF AdminBlock
  <2> QED BY <2>1, <2>2, <2>3 DEF AdminBlock, RestOK
<1>2. CASE \E ip \in IPs : AdminRemoveAllow(ip)
  BY <1>2 DEF AdminRemoveAllow, RestOK
<1>3. CASE \E ip \in IPs, op \in {"unblock", "allow"} : AdminUnblock(ip, op)
  <2>1. PICK ip \in IPs, op \in {"unblock", "allow"} : AdminUnblock(ip, op)
    BY <1>3
  <2>2. adm' \in AdmStates
    BY <2>1, AdmOK DEF AdminUnblock, AdmGoto
  <2>3. blocked' \in [IPs -> Instants \union {0}]
    BY <2>1, BlockedOK DEF AdminUnblock
  <2> QED BY <2>1, <2>2, <2>3 DEF AdminUnblock, RestOK
<1>4. CASE SetThreatIntelConfig
  BY <1>4 DEF SetThreatIntelConfig, tables, RestOK
<1> QED BY <1>1, <1>2, <1>3, <1>4 DEF AdminArrives

(* ... goes on with it, or gives it up. *)
LEMMA RestOfAdmin == ASSUME RestOK, AdminStep \/ AdminAbort PROVE RestOK'
<1>0. adm \in AdmStates /\ AdmIdle \in AdmStates
  BY DEF RestOK, AdmStates
<1>1. CASE AdminOpenHistory
  <2>1. adm.ip \in IPs
    BY <1>0, <1>1, AdmBusy DEF AdminOpenHistory
  <2> QED BY <1>0, <1>1, <2>1 DEF AdminOpenHistory, EnsureHistory, RestOK
<1>2. CASE AdminCloseHistory
  <2>1. adm.ip \in IPs
    BY <1>0, <1>2, AdmBusy DEF AdminCloseHistory
  <2>2. adm' \in AdmStates
    BY <1>0, <1>2, <2>1, AdmOK DEF AdminCloseHistory, AdmGoto
  <2> QED BY <1>2, <2>2 DEF AdminCloseHistory, CloseHistory, RestOK
<1>3. CASE AdminAddAllow
  <2>1. adm.ip \in IPs
    BY <1>0, <1>3, AdmBusy DEF AdminAddAllow
  <2> QED BY <1>0, <1>3, <2>1 DEF AdminAddAllow, RestOK
<1>4. CASE AdminAbort
  BY <1>0, <1>4 DEF AdminAbort, tables, RestOK
<1> QED BY <1>1, <1>2, <1>3, <1>4 DEF AdminStep

(* The decay worker blocks, releases and repairs the history. *)
LEMMA RestOfWorker == ASSUME RowsOK, RestOK, WorkerStep PROVE RestOK'
<1>1. CASE PromoteThreatIntelHardBlocks
  <2>1. PICK hit : blocked' = [ip \in IPs |-> IF ip \in hit /\ ~IsIPBlocked(ip) THEN now ELSE blocked[ip]]
    BY <1>1 DEF PromoteThreatIntelHardBlocks
  <2>2. blocked' \in [IPs -> Instants \union {0}]
    BY <2>1 DEF RestOK
  <2> QED BY <1>1, <2>2 DEF PromoteThreatIntelHardBlocks, RestOK
<1>2. CASE SyncThreatIntelBanHistoryOpen
  BY <1>2 DEF SyncThreatIntelBanHistoryOpen, RestOK
<1>3. CASE \E ip \in IPs : DwRelease(ip)
  <2>1. PICK ip \in IPs : DwRelease(ip)
    BY <1>3
  <2>2. blocked' \in [IPs -> Instants \union {0}]
    BY <2>1, BlockedOK DEF DwRelease
  <2> QED BY <2>1, <2>2 DEF DwRelease, RestOK
<1>4. CASE \E ip \in IPs : DwCloseSoft(ip) \/ DwSave(ip)
  BY <1>4 DEF DwCloseSoft, DwSave, CloseHistory, RestOK
<1>5. CASE DwCloseHard
  BY <1>5 DEF DwCloseHard, CloseHistory, RestOK
<1>6. CASE DwStart \/ DwListStates \/ DwListAllow \/ DwListExpired \/ DwEnd
  BY <1>6 DEF DwStart, DwListStates, DwListAllow, DwListExpired, DwEnd, tables, RestOK
<1> QED BY <1>1, <1>2, <1>3, <1>4, <1>5, <1>6 DEF WorkerStep

(* The snapshot, the clock, the purge, a restart and arriving requests. *)
LEMMA RestOfOthers ==
    ASSUME RestOK,
           \/ RequestArrives \/ SnapshotRefresh \/ PurgeThreatIntelStateBefore
           \/ \E t \in Instants : Tick(t)
           \/ Restart \/ UNCHANGED vars
    PROVE  RestOK'
<1>0. cfg.auto \in BOOLEAN
  BY ConfigAssumption DEF RestOK, Config
<1>1. CASE SnapshotRefresh
  BY <1>0, <1>1 DEF SnapshotRefresh, tables, RestOK
<1>2. CASE Restart
  BY <1>0, <1>2 DEF Restart, tables, RestOK, AdmStates
<1>3. CASE \E t \in Instants : Tick(t)
  BY <1>3 DEF Tick, tables, RestOK
<1>4. CASE RequestArrives \/ PurgeThreatIntelStateBefore \/ UNCHANGED vars
  <2>1. UNCHANGED <<now, cfg, blocked, allow, openHard, openSoft, snap, adm>>
    BY <1>4 DEF RequestArrives, EdgeArrive, SshAuthenticate, SshForwardDenied, Start,
                PurgeThreatIntelStateBefore, tables, vars
  <2> QED BY <2>1 DEF RestOK
<1> QED BY <1>1, <1>2, <1>3, <1>4

(* RestOK holds at the start. *)
LEMMA RestInitially == Init => RestOK
<1> SUFFICES ASSUME Init PROVE RestOK
  OBVIOUS
<1>1. cfg.auto \in BOOLEAN
  BY ConfigAssumption DEF Init, Config
<1> QED BY <1>1, TimeAssumption DEF Init, RestOK, AdmStates

(* Every step keeps RestOK. *)
LEMMA RestInductive == TIInv /\ [Next]_vars => RestOK'
<1> SUFFICES ASSUME RowsOK, RestOK, [Next]_vars PROVE RestOK'
  BY DEF TIInv
<1> QED BY RestOfRequests, RestOfArrivals, RestOfAdmin, RestOfWorker, RestOfOthers DEF Next

-----------------------------------------------------------------------------
(* What the invariant says. *)

(* Every copy of a row is sound. *)
LEMMA CopiesSound == ASSUME RowsOK, NEW st \in Copies PROVE RowOK(st)
<1>1. CASE \E ip \in IPs : st = tiState[ip]
  BY <1>1 DEF RowsOK, ListOK
<1>2. CASE \E r \in Reqs : req[r].pc \in Late /\ st = req[r].st
  <2>1. PICK r \in Reqs : req[r].pc \in Late /\ st = req[r].st
    BY <1>2
  <2> QED BY <2>1 DEF RowsOK, ReqOK, ReqIdle, Early, Late
<1>3. CASE /\ dw.pc \in {"listAllow", "listExpired", "rows", "close"}
           /\ \E ip \in IPs : st = dw.list[ip]
  <2>1. ListOK(dw.list)
    BY <1>3 DEF RowsOK, DwOK, DwIdle, DwEarly, DwRows
  <2> QED BY <1>3, <2>1 DEF ListOK
<1> QED BY <1>1, <1>2, <1>3 DEF Copies, Late

(* A list of sound rows is a table. *)
LEMMA ListTyped == ASSUME NEW list, ListOK(list) PROVE list \in [IPs -> IPState]
<1>1. \A ip \in IPs : list[ip] \in IPState
  BY DEF ListOK, RowOK
<1> QED BY <1>1 DEF ListOK

(* The invariant implies the type. *)
LEMMA Typed == TIInv => TypeOK
<1> SUFFICES ASSUME RowsOK, RestOK PROVE TypeOK
  BY DEF TIInv
<1>1. tiState \in [IPs -> IPState]
  BY ListTyped DEF RowsOK
<1>2. ASSUME NEW r \in Reqs PROVE req[r] \in ReqStates
  <2> DEFINE q == req[r]
  <2>1. ReqOK(q)
    BY DEF RowsOK
  <2> HIDE DEF q
  <2>2. q \in ReqStates
    BY <2>1 DEF ReqOK, ReqStates, RowOK, Early, Late
  <2> QED BY <2>2 DEF q
<1>3. req \in [Reqs -> ReqStates]
  BY <1>2 DEF RowsOK
<1>4. dw \in DwStates
  BY ListTyped DEF RowsOK, DwOK, DwEarly, DwRows, DwStates
<1> QED BY <1>1, <1>3, <1>4 DEF TypeOK, RestOK

(* TIInv is an invariant of the engine: the rows stored, computed and      *)
(* listed are sound, and what they are computed from is typed, through     *)
(* every interleaving of requests, administrators, worker and restarts.    *)
THEOREM ThreatIntelInvariant == Spec => []TIInv
<1>1. Init => TIInv
  BY RowsInitially, RestInitially DEF TIInv
<1>2. TIInv /\ [Next]_vars => TIInv'
  BY RowsInductive, RestInductive DEF TIInv
<1> QED BY <1>1, <1>2, PTL DEF Spec

(* Every table, snapshot and operation in flight keeps the shape the code  *)
(* gives it, whatever the thresholds, signals, sources and retention: the  *)
(* level-up loop ends within the levels, and XP never goes below zero.     *)
THEOREM ThreatIntelTypeCorrect == Spec => []TypeOK
BY ThreatIntelInvariant, Typed, PTL

(* "Keep XP bounded ... so UI/analytics scales remain stable": no copy of  *)
(* a row ever holds more XP than its level's threshold, for every scale of *)
(* levels and every decay in which 72 hours hold eight periods of XP decay *)
(* (ApplyThreatIntelEvent, decayThreatState, ReconcileThreatIntelDecay).   *)
THEOREM XPStaysBounded == Spec => []XPBounded
<1>1. TIInv => XPBounded
  BY CopiesSound DEF TIInv, XPBounded, RowOK
<1> QED BY <1>1, ThreatIntelInvariant, PTL

(* No copy of a source's row ever carries both a soft ban and a permanent  *)
(* block, whatever the configurations, signals, sources and retention, and *)
(* however requests, the decay worker, purges and restarts interleave:     *)
(* every write of the row by ApplyThreatIntelEvent and by                  *)
(* ReconcileThreatIntelDecay, late or stale, is of such a row.             *)
THEOREM OneBan == Spec => []OneBanAtATime
<1>1. TIInv => OneBanAtATime
  BY CopiesSound DEF TIInv, OneBanAtATime, RowOK
<1> QED BY <1>1, ThreatIntelInvariant, PTL
=============================================================================
