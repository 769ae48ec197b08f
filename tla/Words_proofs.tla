---------------------------- MODULE Words_proofs ----------------------------
(***************************************************************************)
(* Lemmas about the machine's numbers: powers of two, the operations on    *)
(* bits, and arithmetic modulo a word. What a recursive definition         *)
(* computes is proved from the least number for which it would fail.       *)
(***************************************************************************)
EXTENDS Words, WellFoundedInduction, TLAPS

-----------------------------------------------------------------------------
(* Induction, with a set for the property. *)

(* A set of naturals that is not empty has a least element.                *)
LEMMA NatMin ==
  ASSUME NEW S \in SUBSET Nat, S # {}
  PROVE  \E m \in S : \A k \in S : m <= k
<1> DEFINE R == {ss \in Nat \X Nat : ss[1] < ss[2]}
<1>1. IsWellFoundedOn(R, Nat)
  BY NatLessThanWellFounded DEF OpToRel
<1> HIDE DEF R
<1>2. PICK m \in S : \A k \in S : ~ (<<k, m>> \in R)
  BY <1>1, WFMin
<1>3. ASSUME NEW k \in S PROVE m <= k
  <2>1. <<k, m>> \in Nat \X Nat
    OBVIOUS
  <2>2. ~(<<k,m>>[1] < <<k,m>>[2])
    BY <1>2, <2>1, Zenon DEF R
  <2> QED
    BY <2>2
<1> QED
  BY <1>3

(* A set that holds each number whose predecessors it holds is everything. *)
LEMMA NatInduct ==
  ASSUME NEW S,
         \A n \in Nat : (\A m \in Nat : m < n => m \in S) => n \in S
  PROVE  \A n \in Nat : n \in S
<1> DEFINE Bad == {n \in Nat : n \notin S}
<1> SUFFICES ASSUME Bad # {} PROVE FALSE
  OBVIOUS
<1>1. PICK m \in Bad : \A k \in Bad : m <= k
  BY NatMin
<1>2. \A k \in Nat : k < m => k \in S
  BY <1>1
<1> QED
  BY <1>2

-----------------------------------------------------------------------------
(* Powers of two. *)

(* The recursive definition of Pow2 has a solution.                        *)
LEMMA Pow2Def == Pow2 = [n \in Nat |-> IF n = 0 THEN 1 ELSE 2 * Pow2[n - 1]]
<1> DEFINE Rec(g, n) == g = [k \in 0..n |-> IF k = 0 THEN 1 ELSE 2 * g[k - 1]]
<1>1. ASSUME NEW n \in Nat PROVE \E g : Rec(g, n)
  <2> DEFINE S == {k \in Nat : \E g : Rec(g, k)}
  <2>1. ASSUME NEW m \in Nat, \A k \in Nat : k < m => k \in S PROVE m \in S
    <3>1. CASE m = 0
      <4> Rec([k \in 0..0 |-> 1], 0)
        OBVIOUS
      <4> QED
        BY <3>1
    <3>2. CASE m # 0
      <4>1. PICK g : Rec(g, m - 1)
        BY <2>1, <3>2
      <4>2. Rec([k \in 0..m |-> IF k = 0 THEN 1 ELSE 2 * g[k - 1]], m)
        BY <3>2, <4>1
      <4> QED
        BY <4>2
    <3> QED
      BY <3>1, <3>2
  <2> HIDE DEF S
  <2>2. n \in S
    BY <2>1, NatInduct
  <2> QED
    BY <2>2 DEF S
<1>2. ASSUME NEW n \in Nat, NEW g, NEW h, Rec(g, n), Rec(h, n + 1)
      PROVE  \A k \in 0..n : g[k] = h[k]
  <2> DEFINE S == {k \in Nat : k <= n => g[k] = h[k]}
  <2>1. ASSUME NEW m \in Nat, \A k \in Nat : k < m => k \in S PROVE m \in S
    <3>1. CASE m = 0
      BY <1>2, <3>1
    <3>2. CASE m # 0 /\ m <= n
      <4>1. g[m - 1] = h[m - 1]
        BY <2>1, <3>2
      <4>2. g[m] = 2 * g[m - 1] /\ h[m] = 2 * h[m - 1]
        BY <1>2, <3>2
      <4> QED
        BY <4>1, <4>2
    <3> QED
      BY <3>1, <3>2
  <2> HIDE DEF S
  <2>2. \A m \in Nat : m \in S
    BY <2>1, NatInduct
  <2> QED
    BY <2>2 DEF S
<1> DEFINE G == [n \in Nat |-> CHOOSE g : Rec(g, n)]
<1>3. ASSUME NEW n \in Nat PROVE Rec(G[n], n)
  BY <1>1
<1> DEFINE f == [n \in Nat |-> G[n][n]]
<1> HIDE DEF G
<1>4. f[0] = 1
  <2>1. Rec(G[0], 0)
    BY <1>3
  <2> QED
    BY <2>1
<1>5. ASSUME NEW n \in Nat, n # 0 PROVE f[n] = 2 * f[n - 1]
  <2>1. n - 1 \in Nat /\ (n - 1) + 1 = n
    BY <1>5
  <2>2. Rec(G[n - 1], n - 1)
    BY <2>1, <1>3
  <2>3. Rec(G[n], n)
    BY <1>3
  <2> HIDE DEF Rec
  <2>4. G[n - 1][n - 1] = G[n][n - 1]
    BY <2>1, <2>2, <2>3, <1>2
  <2>5. G[n][n] = 2 * G[n][n - 1]
    BY <2>3, <1>5 DEF Rec
  <2> QED
    BY <2>1, <2>4, <2>5
<1>6. f = [n \in Nat |-> IF n = 0 THEN 1 ELSE 2 * f[n - 1]]
  BY <1>4, <1>5
<1> QED
  BY <1>6 DEF Pow2

(* The value at zero and the step.                                         *)
LEMMA Pow2Step ==
  /\ Pow2[0] = 1
  /\ \A n \in Nat : Pow2[n + 1] = 2 * Pow2[n]
<1>1. Pow2[0] = 1
  BY Pow2Def
<1>2. ASSUME NEW n \in Nat PROVE Pow2[n + 1] = 2 * Pow2[n]
  <2>1. n + 1 \in Nat /\ n + 1 # 0 /\ (n + 1) - 1 = n
    OBVIOUS
  <2> QED
    BY <2>1, Pow2Def
<1> QED
  BY <1>1, <1>2

(* A power of two is a positive number, greater than its exponent.         *)
LEMMA Pow2Type == \A n \in Nat : Pow2[n] \in Nat \ {0} /\ Pow2[n] > n
<1> DEFINE S == {n \in Nat : Pow2[n] \in Nat \ {0} /\ Pow2[n] > n}
<1>1. ASSUME NEW m \in Nat, \A k \in Nat : k < m => k \in S PROVE m \in S
  <2>1. CASE m = 0
    BY <2>1, Pow2Step
  <2>2. CASE m # 0
    <3>1. m - 1 \in Nat /\ Pow2[(m - 1) + 1] = 2 * Pow2[m - 1] /\ (m - 1) + 1 = m
      BY <2>2, Pow2Step
    <3>2. m - 1 \in S
      BY <1>1, <3>1
    <3> QED
      BY <3>1, <3>2
  <2> QED
    BY <2>1, <2>2
<1> HIDE DEF S
<1>2. \A m \in Nat : m \in S
  BY <1>1, NatInduct
<1> QED
  BY <1>2 DEF S

(* The product of two powers.                                              *)
LEMMA Pow2Sum == \A a, b \in Nat : Pow2[a + b] = Pow2[a] * Pow2[b]
<1> TAKE a \in Nat
<1> DEFINE S == {n \in Nat : Pow2[a + n] = Pow2[a] * Pow2[n]}
<1>1. ASSUME NEW m \in Nat, \A k \in Nat : k < m => k \in S PROVE m \in S
  <2>1. CASE m = 0
    BY <2>1, Pow2Step, Pow2Type
  <2>2. CASE m # 0
    <3> DEFINE k == m - 1
    <3>1. k \in Nat /\ a + k \in Nat /\ k + 1 = m /\ (a + k) + 1 = a + m
      BY <2>2
    <3> HIDE DEF k
    <3>2. Pow2[m] = 2 * Pow2[k] /\ Pow2[a + m] = 2 * Pow2[a + k]
      BY <3>1, Pow2Step
    <3>3. Pow2[a + k] = Pow2[a] * Pow2[k]
      BY <1>1, <3>1
    <3>4. Pow2[a] \in Int /\ Pow2[k] \in Int
      BY <3>1, Pow2Type
    <3>5. 2 * (Pow2[a] * Pow2[k]) = Pow2[a] * (2 * Pow2[k])
      BY <3>4
    <3> QED
      BY <3>2, <3>3, <3>5
  <2> QED
    BY <2>1, <2>2
<1> HIDE DEF S
<1>2. \A m \in Nat : m \in S
  BY <1>1, NatInduct
<1> QED
  BY <1>2 DEF S

-----------------------------------------------------------------------------
(* The operations on bits. *)

(* The recursive definition of And has a solution.                         *)
LEMMA AndDef ==
  And = [x \in Nat |-> [y \in Nat |-> IF x = 0 THEN 0
                                      ELSE 2 * And[x \div 2][y \div 2] + ((x % 2) * (y % 2))]]
<1> DEFINE Row(g, x) == [y \in Nat |-> IF x = 0 THEN 0
                                       ELSE 2 * g[x \div 2][y \div 2] + ((x % 2) * (y % 2))]
           Rec(g, n) == g = [k \in 0..n |-> Row(g, k)]
<1>0. \A k \in Nat : k # 0 => k \div 2 \in Nat /\ k \div 2 < k
  OBVIOUS
<1>a. ASSUME NEW g, NEW h, NEW k \in Nat, k # 0 => g[k \div 2] = h[k \div 2] PROVE Row(g, k) = Row(h, k)
  BY <1>a
<1>b. \A g, h : Row(g, 0) = Row(h, 0)
  OBVIOUS
<1> HIDE DEF Row
<1>1. ASSUME NEW n \in Nat PROVE \E g : Rec(g, n)
  <2> DEFINE S == {k \in Nat : \E g : Rec(g, k)}
  <2>1. ASSUME NEW m \in Nat, \A k \in Nat : k < m => k \in S PROVE m \in S
    <3>1. CASE m = 0
      <4> DEFINE z == [k \in 0..0 |-> Row(<<>>, k)]
      <4>1. \A k \in 0..0 : Row(<<>>, k) = Row(z, k)
        BY <1>b
      <4>2. Rec(z, 0)
        BY <4>1
      <4> QED
        BY <3>1, <4>2
    <3>2. CASE m # 0
      <4>1. PICK g : Rec(g, m - 1)
        BY <2>1, <3>2
      <4> DEFINE h == [k \in 0..m |-> Row(g, k)]
      <4>2. \A k \in 0..m - 1 : h[k] = g[k]
        BY <3>2, <4>1
      <4> HIDE DEF h
      <4>3. ASSUME NEW k \in 0..m PROVE Row(g, k) = Row(h, k)
        <5>1. k \in Nat
          OBVIOUS
        <5>2. k # 0 => k \div 2 \in 0..m - 1
          OBVIOUS
        <5>3. k # 0 => g[k \div 2] = h[k \div 2]
          BY <4>2, <5>2
        <5> QED
          BY <5>1, <5>3, <1>a
      <4>4. h = [k \in 0..m |-> Row(h, k)]
        BY <4>3 DEF h
      <4>5. Rec(h, m)
        BY <4>4, Zenon
      <4> QED
        BY <4>5
    <3> QED
      BY <3>1, <3>2
  <2> HIDE DEF S
  <2>2. n \in S
    BY <2>1, NatInduct
  <2> QED
    BY <2>2 DEF S
<1>2. ASSUME NEW n \in Nat, NEW q \in Nat, NEW g, NEW h, Rec(g, n), Rec(h, q)
      PROVE  \A k \in Nat : k <= n /\ k <= q => g[k] = h[k]
  <2> DEFINE S == {k \in Nat : k <= n /\ k <= q => g[k] = h[k]}
  <2>1. ASSUME NEW m \in Nat, \A k \in Nat : k < m => k \in S PROVE m \in S
    <3> SUFFICES ASSUME m <= n, m <= q PROVE g[m] = h[m]
      OBVIOUS
    <3>1. m # 0 => g[m \div 2] = h[m \div 2]
      BY <2>1, <1>0
    <3>2. Row(g, m) = Row(h, m)
      BY <3>1, <1>a
    <3>3. m \in 0..n /\ m \in 0..q
      OBVIOUS
    <3>4. g[m] = Row(g, m)
      BY <1>2, <3>3, Zenon
    <3>5. h[m] = Row(h, m)
      BY <1>2, <3>3, Zenon
    <3> QED
      BY <3>2, <3>4, <3>5
  <2> HIDE DEF S
  <2>2. \A m \in Nat : m \in S
    BY <2>1, NatInduct
  <2> QED
    BY <2>2 DEF S
<1> DEFINE G == [n \in Nat |-> CHOOSE g : Rec(g, n)]
<1>3. ASSUME NEW n \in Nat PROVE Rec(G[n], n)
  BY <1>1
<1> DEFINE f == [n \in Nat |-> G[n][n]]
<1> HIDE DEF G
<1>5. ASSUME NEW n \in Nat PROVE f[n] = Row(f, n)
  <2>1. Rec(G[n], n)
    BY <1>3
  <2>2. f[n] = Row(G[n], n)
    BY <2>1
  <2>3. n # 0 => G[n][n \div 2] = f[n \div 2]
    <3> SUFFICES ASSUME n # 0 PROVE G[n][n \div 2] = f[n \div 2]
      OBVIOUS
    <3> DEFINE k == n \div 2
    <3>1. k \in Nat /\ k < n
      BY <1>0
    <3> HIDE DEF k
    <3>2. Rec(G[k], k)
      BY <1>3, <3>1
    <3> HIDE DEF Rec
    <3>3. G[n][k] = G[k][k]
      BY <1>2, <2>1, <3>1, <3>2
    <3> QED
      BY <3>1, <3>3 DEF k
  <2> HIDE DEF f
  <2>4. Row(G[n], n) = Row(f, n)
    BY <2>3, <1>a
  <2> QED
    BY <2>2, <2>4
<1>6. f = [n \in Nat |-> Row(f, n)]
  BY <1>5
<1>7. And = CHOOSE g : g = [x \in Nat |-> Row(g, x)]
  BY DEF And, Row
<1> HIDE DEF f
<1>8. And = [n \in Nat |-> Row(And, n)]
  BY <1>6, <1>7
<1> QED
  BY <1>8 DEF Row

(* The values of And, and its bound.                                       *)
LEMMA AndStep ==
  ASSUME NEW x \in Nat, NEW y \in Nat
  PROVE  /\ x = 0 => And[x][y] = 0
         /\ x # 0 => And[x][y] = 2 * And[x \div 2][y \div 2] + ((x % 2) * (y % 2))
BY AndDef

(* x & y is a number no greater than x or y.                               *)
LEMMA AndType == \A x, y \in Nat : x & y \in Nat /\ x & y <= x /\ x & y <= y
<1> DEFINE S == {x \in Nat : \A y \in Nat : And[x][y] \in Nat /\ And[x][y] <= x /\ And[x][y] <= y}
<1>1. ASSUME NEW m \in Nat, \A k \in Nat : k < m => k \in S PROVE m \in S
  <2> SUFFICES ASSUME NEW y \in Nat PROVE And[m][y] \in Nat /\ And[m][y] <= m /\ And[m][y] <= y
    OBVIOUS
  <2>1. CASE m = 0
    BY <2>1, AndStep
  <2>2. CASE m # 0
    <3> DEFINE k == m \div 2
               z == y \div 2
               a == And[k][z]
    <3>1. k \in Nat /\ k < m /\ z \in Nat
      BY <2>2
    <3>2. a \in Nat /\ a <= k /\ a <= z
      BY <1>1, <3>1
    <3>3. And[m][y] = 2 * a + ((m % 2) * (y % 2))
      BY <2>2, AndStep
    <3>4. m = 2 * k + (m % 2) /\ y = 2 * z + (y % 2) /\ m % 2 \in 0..1 /\ y % 2 \in 0..1
      OBVIOUS
    <3> DEFINE e == m % 2
               f == y % 2
    <3> HIDE DEF k, z, a, e, f
    <3>5. e * f \in 0..1 /\ e * f <= e /\ e * f <= f
      BY <3>4 DEF e, f
    <3>6. And[m][y] = 2 * a + (e * f) /\ m = 2 * k + e /\ y = 2 * z + f
      BY <3>3, <3>4 DEF e, f
    <3>7. k \in Nat /\ z \in Nat /\ e \in 0..1 /\ f \in 0..1
      BY <3>1, <3>4 DEF e, f
    <3> QED
      BY <3>2, <3>5, <3>6, <3>7
  <2> QED
    BY <2>1, <2>2
<1> HIDE DEF S
<1>2. \A m \in Nat : m \in S
  BY <1>1, NatInduct
<1> QED
  BY <1>2 DEF S, &

(* Halves and lowest bits, at zero too.                                    *)
LEMMA AndHalves ==
  \A x, y \in Nat : x & y = 2 * ((x \div 2) & (y \div 2)) + ((x % 2) * (y % 2))
<1> TAKE x \in Nat, y \in Nat
<1>1. x \div 2 \in Nat /\ y \div 2 \in Nat
  OBVIOUS
<1>2. CASE x = 0
  <2>1. x \div 2 = 0 /\ x % 2 = 0 /\ y % 2 \in Nat
    BY <1>2
  <2>2. And[0][y \div 2] = 0 /\ And[0][y] = 0
    BY <1>1, AndStep
  <2> QED
    BY <1>2, <2>1, <2>2 DEF &
<1>3. CASE x # 0
  BY <1>3, AndStep DEF &
<1> QED
  BY <1>2, <1>3

(* x & y = y & x.                                                          *)
LEMMA AndComm == \A x, y \in Nat : x & y = y & x
<1> DEFINE S == {x \in Nat : \A y \in Nat : x & y = y & x}
<1>1. ASSUME NEW m \in Nat, \A k \in Nat : k < m => k \in S PROVE m \in S
  <2> SUFFICES ASSUME NEW y \in Nat PROVE m & y = y & m
    OBVIOUS
  <2>1. CASE m = 0
    BY <2>1, AndType
  <2>2. CASE m # 0
    <3>1. m \div 2 \in Nat /\ m \div 2 < m /\ y \div 2 \in Nat
      BY <2>2
    <3>2. (m \div 2) & (y \div 2) = (y \div 2) & (m \div 2)
      BY <1>1, <3>1
    <3>3. (m % 2) * (y % 2) = (y % 2) * (m % 2)
      OBVIOUS
    <3> QED
      BY <3>2, <3>3, AndHalves
  <2> QED
    BY <2>1, <2>2
<1> HIDE DEF S
<1>2. \A m \in Nat : m \in S
  BY <1>1, NatInduct
<1> QED
  BY <1>2 DEF S

(* The upper and the lower part of two words, cut at bit k, are apart:     *)
(* the operation works on each by itself.                                  *)
LEMMA AndSplit ==
  ASSUME NEW k \in Nat
  PROVE  \A a, c \in Nat : \A b, d \in 0 .. Pow2[k] - 1 :
           (a * Pow2[k] + b) & (c * Pow2[k] + d) = (a & c) * Pow2[k] + (b & d)
<1> DEFINE P(n) == \A a, c \in Nat : \A b, d \in 0 .. Pow2[n] - 1 :
                     (a * Pow2[n] + b) & (c * Pow2[n] + d) = (a & c) * Pow2[n] + (b & d)
           S == {n \in Nat : P(n)}
<1>1. ASSUME NEW m \in Nat, \A n \in Nat : n < m => n \in S PROVE m \in S
  <2> SUFFICES ASSUME NEW a \in Nat, NEW c \in Nat, NEW b \in 0 .. Pow2[m] - 1, NEW d \in 0 .. Pow2[m] - 1
               PROVE (a * Pow2[m] + b) & (c * Pow2[m] + d) = (a & c) * Pow2[m] + (b & d)
    OBVIOUS
  <2>1. CASE m = 0
    <3>1. Pow2[m] = 1 /\ b = 0 /\ d = 0
      BY <2>1, Pow2Step
    <3>2. 0 & 0 = 0 /\ a & c \in Nat
      <4>1. 0 & 0 \in Nat /\ 0 & 0 <= 0
        BY AndType
      <4>2. 0 & 0 = 0
        BY <4>1
      <4>3. a & c \in Nat
        BY AndType
      <4> QED
        BY <4>2, <4>3
    <3>3. a * 1 + 0 = a /\ c * 1 + 0 = c /\ (a & c) * 1 + 0 = a & c
      BY <3>2
    <3> QED
      BY <3>1, <3>2, <3>3
  <2>2. CASE m # 0
    <3> DEFINE n == m - 1
               Q == Pow2[n]
               b2 == b \div 2
               d2 == d \div 2
    <3>1. n \in Nat /\ n < m /\ n + 1 = m
      BY <2>2
    <3>2. Q \in Nat /\ Pow2[m] = 2 * Q
      BY <3>1, Pow2Step, Pow2Type
    <3>3. b2 \in 0 .. Q - 1 /\ d2 \in 0 .. Q - 1 /\ b \in Nat /\ d \in Nat
      BY <3>2
    <3>4. P(n)
      BY <1>1, <3>1
    <3>5. (a * Q + b2) & (c * Q + d2) = (a & c) * Q + (b2 & d2)
      BY <3>3, <3>4
    <3> DEFINE x == a * Pow2[m] + b
               y == c * Pow2[m] + d
    <3>p. \A u \in Nat : u * (2 * Q) = 2 * (u * Q) /\ u * Q \in Nat
      BY <3>2
    <3>6. x = 2 * (a * Q) + b /\ y = 2 * (c * Q) + d
      BY <3>p, <3>2
    <3> HIDE DEF x, y
    <3>h. ASSUME NEW u \in Nat, NEW v \in Nat, NEW w, w = 2 * u + v
          PROVE  w \in Nat /\ w \div 2 = u + (v \div 2) /\ w % 2 = v % 2
      BY <3>h
    <3>q. a * Q \in Nat /\ c * Q \in Nat
      BY <3>p
    <3>7. x \in Nat /\ y \in Nat /\ x \div 2 = a * Q + b2 /\ y \div 2 = c * Q + d2
          /\ x % 2 = b % 2 /\ y % 2 = d % 2
      <4>1. x \in Nat /\ x \div 2 = a * Q + b2 /\ x % 2 = b % 2
        BY <3>6, <3>q, <3>h, <3>3
      <4>2. y \in Nat /\ y \div 2 = c * Q + d2 /\ y % 2 = d % 2
        BY <3>6, <3>q, <3>h, <3>3
      <4> QED
        BY <4>1, <4>2
    <3>8. x & y = 2 * ((a & c) * Q + (b2 & d2)) + ((b % 2) * (d % 2))
      <4>1. x & y = 2 * ((x \div 2) & (y \div 2)) + ((x % 2) * (y % 2))
        BY <3>7, AndHalves
      <4> QED
        BY <3>7, <3>5, <4>1
    <3>9. b & d = 2 * (b2 & d2) + ((b % 2) * (d % 2))
      BY <3>3, AndHalves
    <3>10. a & c \in Nat /\ b2 & d2 \in Nat /\ (b % 2) * (d % 2) \in Nat
      <4>1. b % 2 \in 0..1 /\ d % 2 \in 0..1
        BY <3>3
      <4>2. (b % 2) * (d % 2) \in Nat
        BY <4>1
      <4>3. b2 \in Nat /\ d2 \in Nat
        BY <3>3
      <4> QED
        BY <4>2, <4>3, AndType
    <3>11. (a & c) * Pow2[m] = 2 * ((a & c) * Q) /\ (a & c) * Q \in Nat
      BY <3>2, <3>p, <3>10
    <3>12. x & y = (a & c) * Pow2[m] + (b & d)
      BY <3>8, <3>9, <3>10, <3>11
    <3> QED
      BY <3>12 DEF x, y
  <2> QED
    BY <2>1, <2>2
<1> HIDE DEF S
<1>2. k \in S
  BY <1>1, NatInduct
<1> QED
  BY <1>2 DEF S

(* All ones up to bit k keep a word of k bits.                             *)
LEMMA AndOnes == \A k \in Nat : \A x \in 0 .. Pow2[k] - 1 : x & (Pow2[k] - 1) = x
<1> DEFINE S == {k \in Nat : \A x \in 0 .. Pow2[k] - 1 : x & (Pow2[k] - 1) = x}
<1>1. ASSUME NEW m \in Nat, \A n \in Nat : n < m => n \in S PROVE m \in S
  <2> SUFFICES ASSUME NEW x \in 0 .. Pow2[m] - 1 PROVE x & (Pow2[m] - 1) = x
    OBVIOUS
  <2>1. CASE m = 0
    <3>1. Pow2[m] = 1 /\ x = 0
      BY <2>1, Pow2Step
    <3> QED
      BY <3>1, AndType
  <2>2. CASE m # 0
    <3> DEFINE n == m - 1
               Q == Pow2[n]
    <3>1. n \in Nat /\ n < m /\ n + 1 = m
      BY <2>2
    <3>2. Q \in Nat \ {0} /\ Pow2[m] = 2 * Q
      BY <3>1, Pow2Step, Pow2Type
    <3>3. x \div 2 \in 0 .. Q - 1
      BY <3>2
    <3>4. (x \div 2) & (Q - 1) = x \div 2
      BY <1>1, <3>1, <3>3
    <3> HIDE DEF Q
    <3>5. (2 * Q - 1) \div 2 = Q - 1 /\ (2 * Q - 1) % 2 = 1 /\ 2 * Q - 1 \in Nat
      BY <3>2
    <3>6. x & (2 * Q - 1) = 2 * ((x \div 2) & (Q - 1)) + ((x % 2) * 1)
      <4>1. x \in Nat
        OBVIOUS
      <4> QED
        BY <3>5, <4>1, AndHalves
    <3> QED
      BY <3>2, <3>4, <3>6 DEF Q
  <2> QED
    BY <2>1, <2>2
<1> HIDE DEF S
<1>2. \A m \in Nat : m \in S
  BY <1>1, NatInduct
<1> QED
  BY <1>2 DEF S

(* x & x = x.                                                              *)
LEMMA AndIdem == \A x \in Nat : x & x = x
<1> DEFINE S == {x \in Nat : x & x = x}
<1>1. ASSUME NEW m \in Nat, \A k \in Nat : k < m => k \in S PROVE m \in S
  <2>1. CASE m = 0
    <3>1. 0 & 0 \in Nat /\ 0 & 0 <= 0
      BY AndType
    <3> QED
      BY <2>1, <3>1
  <2>2. CASE m # 0
    <3>1. m \div 2 \in Nat /\ m \div 2 < m
      BY <2>2
    <3>2. (m \div 2) & (m \div 2) = m \div 2
      BY <1>1, <3>1
    <3>3. m & m = 2 * (m \div 2) + ((m % 2) * (m % 2))
      BY <3>2, AndHalves
    <3>4. (m % 2) * (m % 2) = m % 2 /\ m = 2 * (m \div 2) + (m % 2)
      OBVIOUS
    <3> QED
      BY <3>3, <3>4
  <2> QED
    BY <2>1, <2>2
<1> HIDE DEF S
<1>2. \A m \in Nat : m \in S
  BY <1>1, NatInduct
<1> QED
  BY <1>2 DEF S

(* Zero has no bits.                                                       *)
LEMMA AndZero == \A x \in Nat : 0 & x = 0 /\ x & 0 = 0
<1> TAKE x \in Nat
<1>1. 0 & x \in Nat /\ 0 & x <= 0
  BY AndType
<1>2. x & 0 \in Nat /\ x & 0 <= 0
  BY AndType
<1> QED
  BY <1>1, <1>2

(* Half and lowest bit of x & y.                                           *)
LEMMA AndParts ==
  ASSUME NEW x \in Nat, NEW y \in Nat
  PROVE  /\ (x & y) \div 2 = (x \div 2) & (y \div 2)
         /\ (x & y) % 2 = (x % 2) * (y % 2)
<1> DEFINE a == (x \div 2) & (y \div 2)
           e == (x % 2) * (y % 2)
<1>1. x & y = 2 * a + e
  BY AndHalves
<1>2. a \in Nat
  <2>1. x \div 2 \in Nat /\ y \div 2 \in Nat
    OBVIOUS
  <2> QED
    BY <2>1, AndType
<1>3. e \in 0..1
  <2>1. x % 2 \in 0..1 /\ y % 2 \in 0..1
    OBVIOUS
  <2> QED
    BY <2>1
<1> HIDE DEF a, e
<1>4. (x & y) \div 2 = a /\ (x & y) % 2 = e
  BY <1>1, <1>2, <1>3
<1> QED
  BY <1>4 DEF a, e

(* Numbers with the same half and the same lowest bit are equal.           *)
LEMMA SameParts ==
  ASSUME NEW x \in Nat, NEW y \in Nat, x \div 2 = y \div 2, x % 2 = y % 2
  PROVE  x = y
OBVIOUS

(* (x & y) & z = x & (y & z).                                              *)
LEMMA AndAssoc == \A x, y, z \in Nat : (x & y) & z = x & (y & z)
<1> DEFINE S == {x \in Nat : \A y, z \in Nat : (x & y) & z = x & (y & z)}
<1>1. ASSUME NEW m \in Nat, \A k \in Nat : k < m => k \in S PROVE m \in S
  <2> SUFFICES ASSUME NEW y \in Nat, NEW z \in Nat PROVE (m & y) & z = m & (y & z)
    OBVIOUS
  <2>0. m & y \in Nat /\ y & z \in Nat /\ (m & y) & z \in Nat /\ m & (y & z) \in Nat
    <3>1. m & y \in Nat /\ y & z \in Nat
      BY AndType
    <3> QED
      BY <3>1, AndType
  <2>1. CASE m = 0
    BY <2>0, <2>1, AndZero
  <2>2. CASE m # 0
    <3>1. m \div 2 \in Nat /\ m \div 2 < m /\ y \div 2 \in Nat /\ z \div 2 \in Nat
      BY <2>2
    <3>2. ((m \div 2) & (y \div 2)) & (z \div 2) = (m \div 2) & ((y \div 2) & (z \div 2))
      BY <1>1, <3>1
    <3>a. ((m & y) & z) \div 2 = ((m & y) \div 2) & (z \div 2)
      BY <2>0, AndParts
    <3>b. (m & (y & z)) \div 2 = (m \div 2) & ((y & z) \div 2)
      BY <2>0, AndParts
    <3>c. (m & y) \div 2 = (m \div 2) & (y \div 2) /\ (y & z) \div 2 = (y \div 2) & (z \div 2)
      BY AndParts
    <3>3. ((m & y) & z) \div 2 = (m & (y & z)) \div 2
      BY <3>2, <3>a, <3>b, <3>c
    <3>4. ((m % 2) * (y % 2)) * (z % 2) = (m % 2) * ((y % 2) * (z % 2))
      <4>1. m % 2 \in 0..1 /\ y % 2 \in 0..1 /\ z % 2 \in 0..1
        OBVIOUS
      <4> QED
        BY <4>1
    <3>5. ((m & y) & z) % 2 = ((m & y) % 2) * (z % 2) /\ (m & (y & z)) % 2 = (m % 2) * ((y & z) % 2)
      BY <2>0, AndParts
    <3>6. (m & y) % 2 = (m % 2) * (y % 2) /\ (y & z) % 2 = (y % 2) * (z % 2)
      BY AndParts
    <3>7. ((m & y) & z) % 2 = (m & (y & z)) % 2
      BY <3>4, <3>5, <3>6
    <3> QED
      BY <2>0, <3>3, <3>7, SameParts
  <2> QED
    BY <2>1, <2>2
<1> HIDE DEF S
<1>2. \A m \in Nat : m \in S
  BY <1>1, NatInduct
<1> QED
  BY <1>2 DEF S

(* x | y is a number; zero adds nothing.                                   *)
LEMMA OrType ==
  ASSUME NEW x \in Nat, NEW y \in Nat
  PROVE  x | y \in Nat /\ x | y >= x /\ x | y >= y /\ x | 0 = x /\ 0 | x = x /\ x | y = y | x
<1>1. x & y \in Nat /\ x & y <= x /\ x & y <= y /\ x & y = y & x
  BY AndType, AndComm
<1>2. x & 0 = 0 /\ 0 & x = 0
  BY AndZero
<1> QED
  BY <1>1, <1>2 DEF |

(* Half and lowest bit of x | y.                                           *)
LEMMA OrParts ==
  ASSUME NEW x \in Nat, NEW y \in Nat
  PROVE  /\ (x | y) \div 2 = (x \div 2) | (y \div 2)
         /\ (x | y) % 2 = (x % 2) + (y % 2) - ((x % 2) * (y % 2))
<1> DEFINE xh == x \div 2
           yh == y \div 2
           xl == x % 2
           yl == y % 2
           a == xh & yh
           e == xl * yl
<1>1. x & y = 2 * a + e
  BY AndHalves
<1>2. x = 2 * xh + xl /\ y = 2 * yh + yl /\ xh \in Nat /\ yh \in Nat /\ xl \in 0..1 /\ yl \in 0..1
  OBVIOUS
<1> HIDE DEF xh, yh, xl, yl
<1>3. a \in Nat /\ a <= xh /\ a <= yh
  BY <1>2, AndType
<1>4. e \in 0..1 /\ xl + yl - e \in 0..1
  BY <1>2
<1>5. x | y = x + y - (x & y)
  BY DEF |
<1>6. xh | yh = xh + yh - a
  BY DEF |
<1> HIDE DEF a, e
<1>7. x | y = 2 * (xh + yh - a) + (xl + yl - e) /\ xh + yh - a \in Nat
  BY <1>1, <1>2, <1>3, <1>4, <1>5
<1>8. (x | y) \div 2 = xh + yh - a /\ (x | y) % 2 = xl + yl - e
  BY <1>7, <1>4
<1> QED
  BY <1>6, <1>8 DEF xh, yh, xl, yl, e

(* (x | y) & z = (x & z) | (y & z).                                        *)
LEMMA AndOverOr == \A x, y, z \in Nat : (x | y) & z = (x & z) | (y & z)
<1> DEFINE S == {x \in Nat : \A y, z \in Nat : (x | y) & z = (x & z) | (y & z)}
<1>1. ASSUME NEW m \in Nat, \A k \in Nat : k < m => k \in S PROVE m \in S
  <2> SUFFICES ASSUME NEW y \in Nat, NEW z \in Nat PROVE (m | y) & z = (m & z) | (y & z)
    OBVIOUS
  <2>0. m | y \in Nat /\ m & z \in Nat /\ y & z \in Nat
    BY OrType, AndType
  <2>a. (m | y) & z \in Nat /\ (m & z) | (y & z) \in Nat
    BY <2>0, OrType, AndType
  <2>1. CASE m = 0
    BY <2>0, <2>1, AndZero, OrType
  <2>2. CASE m # 0
    <3>1. m \div 2 \in Nat /\ m \div 2 < m /\ y \div 2 \in Nat /\ z \div 2 \in Nat
      BY <2>2
    <3>2. ((m \div 2) | (y \div 2)) & (z \div 2) = ((m \div 2) & (z \div 2)) | ((y \div 2) & (z \div 2))
      BY <1>1, <3>1
    <3>3. ((m | y) & z) \div 2 = ((m | y) \div 2) & (z \div 2)
      BY <2>0, AndParts
    <3>4. ((m & z) | (y & z)) \div 2 = ((m & z) \div 2) | ((y & z) \div 2)
      BY <2>0, OrParts
    <3>5. (m | y) \div 2 = (m \div 2) | (y \div 2)
      BY OrParts
    <3>6. (m & z) \div 2 = (m \div 2) & (z \div 2) /\ (y & z) \div 2 = (y \div 2) & (z \div 2)
      BY AndParts
    <3>7. ((m | y) & z) \div 2 = ((m & z) | (y & z)) \div 2
      BY <3>2, <3>3, <3>4, <3>5, <3>6
    <3> DEFINE a == m % 2
               b == y % 2
               c == z % 2
    <3>8. a \in 0..1 /\ b \in 0..1 /\ c \in 0..1
      OBVIOUS
    <3>9. ((m | y) & z) % 2 = (a + b - (a * b)) * c
      <4>1. ((m | y) & z) % 2 = ((m | y) % 2) * (z % 2)
        BY <2>0, AndParts
      <4>2. (m | y) % 2 = (m % 2) + (y % 2) - ((m % 2) * (y % 2))
        BY OrParts
      <4> QED
        BY <4>1, <4>2
    <3>10. ((m & z) | (y & z)) % 2 = ((m & z) % 2) + ((y & z) % 2) - (((m & z) % 2) * ((y & z) % 2))
      BY <2>0, OrParts
    <3>11. (m & z) % 2 = a * c /\ (y & z) % 2 = b * c
      BY AndParts
    <3> HIDE DEF a, b, c
    <3>12. (a + b - (a * b)) * c = (a * c) + (b * c) - ((a * c) * (b * c))
      BY <3>8
    <3>13. ((m | y) & z) % 2 = ((m & z) | (y & z)) % 2
      BY <3>9, <3>10, <3>11, <3>12
    <3> QED
      BY <2>a, <3>7, <3>13, SameParts
  <2> QED
    BY <2>1, <2>2
<1> HIDE DEF S
<1>2. \A m \in Nat : m \in S
  BY <1>1, NatInduct
<1> QED
  BY <1>2 DEF S

(* The operations stay within k bits.                                      *)
LEMMA BitBounds ==
  ASSUME NEW k \in Nat, NEW x \in 0 .. Pow2[k] - 1, NEW y \in 0 .. Pow2[k] - 1
  PROVE  /\ x & y \in 0 .. Pow2[k] - 1
         /\ x | y \in 0 .. Pow2[k] - 1
         /\ x ^^ y \in 0 .. Pow2[k] - 1
<1> DEFINE ones == Pow2[k] - 1
<1>1. x \in Nat /\ y \in Nat /\ ones \in Nat
  BY Pow2Type
<1>2. x & y \in Nat /\ x & y <= x /\ x & y <= y
  BY <1>1, AndType
<1>3. (x | y) & ones = (x & ones) | (y & ones)
  BY <1>1, AndOverOr
<1>4. x & ones = x /\ y & ones = y
  BY AndOnes
<1>5. x | y \in Nat
  BY <1>1, OrType
<1>6. (x | y) & ones <= ones
  BY <1>1, <1>5, AndType
<1>7. x | y <= ones
  BY <1>3, <1>4, <1>6
<1>8. x ^^ y = (x | y) - (x & y)
  BY <1>1, <1>2 DEF |, ^^
<1>9. x | y = x + y - (x & y)
  BY DEF |
<1> HIDE DEF ones
<1>10. x & y \in 0 .. ones /\ x | y \in 0 .. ones /\ x ^^ y \in 0 .. ones
  BY <1>1, <1>2, <1>5, <1>7, <1>8, <1>9 DEF ones
<1> QED
  BY <1>10 DEF ones

-----------------------------------------------------------------------------
(* Arithmetic modulo a word. *)

(* Quotient and remainder.                                                 *)
LEMMA DivMod ==
  ASSUME NEW m \in Nat \ {0}, NEW x \in Int
  PROVE  x \div m \in Int /\ x % m \in 0 .. m - 1 /\ x = m * (x \div m) + (x % m)
OBVIOUS

(* There is only one quotient with a remainder in range.                   *)
LEMMA DivModUnique ==
  ASSUME NEW m \in Nat \ {0}, NEW q \in Int, NEW r \in 0 .. m - 1
  PROVE  (m * q + r) \div m = q /\ (m * q + r) % m = r
<1> DEFINE x == m * q + r
           p == x \div m
           s == x % m
<1>1. x \in Int
  OBVIOUS
<1>2. p \in Int /\ s \in 0 .. m - 1 /\ x = m * p + s
  BY <1>1, DivMod
<1> HIDE DEF p, s
<1>3. m * (p - q) = r - s
  <2>1. m * (p - q) = m * p - m * q
    BY <1>2
  <2> QED
    BY <2>1, <1>2
<1>4. \A d \in Int : d >= 1 => m * d >= m
  OBVIOUS
<1>5. \A d \in Int : d <= -1 => m * d <= -m
  OBVIOUS
<1>6. p - q \in Int /\ ~(p - q >= 1) /\ ~(p - q <= -1)
  BY <1>2, <1>3, <1>4, <1>5
<1>7. p = q
  BY <1>2, <1>6
<1>8. s = r
  BY <1>2, <1>7
<1> QED
  BY <1>7, <1>8 DEF p, s

(* A multiple of the modulus may be added.                                 *)
LEMMA ModPlusMultiple ==
  ASSUME NEW m \in Nat \ {0}, NEW x \in Int, NEW q \in Int
  PROVE  (m * q + x) % m = x % m /\ (m * q + x) \div m = q + (x \div m)
<1> DEFINE a == x \div m
           b == x % m
<1>1. a \in Int /\ b \in 0 .. m - 1 /\ x = m * a + b
  BY DivMod
<1> HIDE DEF a, b
<1>2. m * q + x = m * (q + a) + b
  <2>1. m * (q + a) = m * q + m * a
    BY <1>1
  <2> QED
    BY <1>1, <2>1
<1>3. (m * (q + a) + b) % m = b /\ (m * (q + a) + b) \div m = q + a
  BY <1>1, DivModUnique
<1> QED
  BY <1>2, <1>3 DEF a, b

(* A remainder may be taken before adding and subtracting.                 *)
LEMMA ModAdd ==
  ASSUME NEW m \in Nat \ {0}, NEW x \in Int, NEW y \in Int
  PROVE  /\ ((x % m) + y) % m = (x + y) % m
         /\ (y + (x % m)) % m = (y + x) % m
         /\ (y - (x % m)) % m = (y - x) % m
<1> DEFINE a == x \div m
           b == x % m
<1>1. a \in Int /\ b \in 0 .. m - 1 /\ x = m * a + b
  BY DivMod
<1> HIDE DEF a, b
<1>2. (m * a + (b + y)) % m = (b + y) % m
  <2>1. b + y \in Int
    BY <1>1
  <2> QED
    BY <1>1, <2>1, ModPlusMultiple, Zenon
<1>3. (m * (-a) + (y - b)) % m = (y - b) % m
  <2>1. y - b \in Int /\ -a \in Int
    BY <1>1
  <2> QED
    BY <2>1, ModPlusMultiple, Zenon
<1>4. m * (-a) = -(m * a)
  BY <1>1
<1>5. x + y = m * a + (b + y) /\ y + x = m * a + (b + y) /\ y - x = m * (-a) + (y - b)
  BY <1>1, <1>4
<1>6. (x + y) % m = (b + y) % m /\ (y + x) % m = (y + b) % m
  <2>1. x + y = y + x /\ b + y = y + b
    BY <1>1
  <2> QED
    BY <1>2, <1>5, <2>1
<1>7. (y - x) % m = (y - b) % m
  BY <1>3, <1>5
<1> QED
  BY <1>6, <1>7 DEF b

(* Numbers that differ by a multiple of m have the same remainder.         *)
LEMMA ModSmall == ASSUME NEW m \in Nat \ {0}, NEW x \in 0 .. m - 1
                  PROVE  x % m = x /\ x \div m = 0
OBVIOUS

(* The two halves of a number of two words.                                *)
LEMMA TwoHalves ==
  ASSUME NEW m \in Nat \ {0}, NEW x \in Int
  PROVE  /\ (x % (m * m)) % m = x % m
         /\ (x % (m * m)) \div m = (x \div m) % m
         /\ m * m \in Nat \ {0}
         /\ (x % (m * m)) % m \in 0 .. m - 1
         /\ (x % (m * m)) \div m \in 0 .. m - 1
<1> DEFINE a == x \div m
           b == x % m
           c == a \div m
           d == a % m
<1>1. a \in Int /\ b \in 0 .. m - 1 /\ x = m * a + b
  BY DivMod
<1> HIDE DEF a, b
<1>2. c \in Int /\ d \in 0 .. m - 1 /\ a = m * c + d
  BY <1>1, DivMod
<1> HIDE DEF c, d
<1>3. m * m \in Nat \ {0}
  OBVIOUS
<1>4. m * d + b \in 0 .. (m * m) - 1
  <2>1. m * d <= m * (m - 1)
    BY <1>2
  <2>2. m * (m - 1) = (m * m) - m /\ m * d \in Nat
    BY <1>2
  <2> QED
    BY <2>1, <2>2, <1>1, <1>2
<1>5. x = (m * m) * c + (m * d + b)
  <2>1. m * (m * c + d) = (m * m) * c + m * d
    BY <1>2
  <2> QED
    BY <1>1, <1>2, <2>1
<1>6. x % (m * m) = m * d + b
  BY <1>2, <1>3, <1>4, <1>5, DivModUnique
<1>7. (m * d + b) % m = b /\ (m * d + b) \div m = d
  BY <1>1, <1>2, DivModUnique
<1> QED
  BY <1>1, <1>2, <1>3, <1>6, <1>7 DEF a, b, d

(* The sizes of the machine's words.                                       *)
LEMMA WordSizes ==
  /\ B \in Nat \ {0} /\ XLEN \in Nat /\ XLEN >= 8 /\ XLEN = 8 * B
  /\ M \in Nat /\ M > XLEN
  /\ XLEN - 1 \in Nat /\ Pow2[XLEN - 1] \in Nat \ {0} /\ M = 2 * Pow2[XLEN - 1]
  /\ Pow2[2 * XLEN] = M * M
<1>1. B \in Nat \ {0} /\ XLEN = 8 * B
  BY BAssumption DEF XLEN, Bits
<1>2. XLEN \in Nat /\ XLEN >= 8
  BY <1>1
<1>3. M \in Nat /\ M > XLEN
  BY <1>2, Pow2Type DEF M
<1>4. XLEN - 1 \in Nat /\ (XLEN - 1) + 1 = XLEN
  BY <1>2
<1>5. Pow2[XLEN - 1] \in Nat \ {0}
  BY <1>4, Pow2Type
<1>6. Pow2[(XLEN - 1) + 1] = 2 * Pow2[XLEN - 1]
  BY <1>4, Pow2Step
<1>7. M = 2 * Pow2[XLEN - 1]
  BY <1>4, <1>6 DEF M
<1>8. 2 * XLEN = XLEN + XLEN
  BY <1>2
<1>9. Pow2[XLEN + XLEN] = M * M
  BY <1>2, Pow2Sum DEF M
<1>10. Pow2[2 * XLEN] = M * M
  BY <1>8, <1>9
<1> QED
  BY <1>1, <1>2, <1>3, <1>4, <1>5, <1>7, <1>10

(* Cut gives a word, keeps a word, and may be applied to a summand.        *)
LEMMA CutLaws ==
  /\ \A x \in Int : Cut(x) \in Octa
  /\ \A x \in Octa : Cut(x) = x
  /\ \A x, y \in Int : /\ Cut(Cut(x) + y) = Cut(x + y)
                       /\ Cut(x + Cut(y)) = Cut(x + y)
                       /\ Cut(x - Cut(y)) = Cut(x - y)
<1>0. M \in Nat \ {0}
  BY WordSizes
<1>1. \A x : Cut(x) = x % M
  BY DEF Cut, CutTo, M
<1>2. ASSUME NEW x \in Int PROVE Cut(x) \in Octa
  BY <1>0, <1>1, DivMod DEF Octa
<1>3. ASSUME NEW x \in Octa PROVE Cut(x) = x
  BY <1>0, <1>1, ModSmall DEF Octa
<1>4. ASSUME NEW x \in Int, NEW y \in Int
      PROVE  /\ Cut(Cut(x) + y) = Cut(x + y)
             /\ Cut(x + Cut(y)) = Cut(x + y)
             /\ Cut(x - Cut(y)) = Cut(x - y)
  <2>1. ((x % M) + y) % M = (x + y) % M
    BY <1>0, ModAdd, Zenon
  <2>2. (x + (y % M)) % M = (x + y) % M
    BY <1>0, ModAdd, Zenon
  <2>3. (x - (y % M)) % M = (x - y) % M
    BY <1>0, ModAdd, Zenon
  <2> QED
    BY <1>1, <2>1, <2>2, <2>3, Zenon
<1> QED
  BY <1>2, <1>3, <1>4

(* A multiple of M does not show.                                          *)
LEMMA CutPlusM == \A x, q \in Int : Cut(M * q + x) = Cut(x)
<1>0. M \in Nat \ {0}
  BY WordSizes
<1>1. \A x : Cut(x) = x % M
  BY DEF Cut, CutTo, M
<1> QED
  BY <1>0, <1>1, ModPlusMultiple

(* Words read as signed numbers.                                           *)
LEMMA SignedLaws ==
  ASSUME NEW x \in Octa
  PROVE  /\ Signed(x) = (IF x >= Pow2[XLEN - 1] THEN x - M ELSE x)
         /\ Signed(x) \in -Pow2[XLEN - 1] .. Pow2[XLEN - 1] - 1
         /\ Cut(Signed(x)) = x
<1>1. Signed(x) = (IF x >= Pow2[XLEN - 1] THEN x - M ELSE x)
  BY DEF Signed, SignedIn, M
<1>2. Signed(x) \in -Pow2[XLEN - 1] .. Pow2[XLEN - 1] - 1
  BY <1>1, WordSizes DEF Octa
<1>3. Cut(Signed(x)) = x
  <2>1. M * (-1) + x = x - M /\ x \in Int
    BY WordSizes DEF Octa
  <2>2. Cut(M * (-1) + x) = Cut(x)
    BY <2>1, CutPlusM
  <2>3. Cut(x) = x
    BY CutLaws
  <2> QED
    BY <1>1, <2>1, <2>2, <2>3
<1> QED
  BY <1>1, <1>2, <1>3

(* A number that fits is what its word reads as.                           *)
LEMMA SignedCut ==
  ASSUME NEW x \in Int, Fits(XLEN, x)
  PROVE  Signed(Cut(x)) = x
<1> DEFINE H == Pow2[XLEN - 1]
<1>1. M = 2 * H /\ H \in Nat \ {0} /\ x \in -H .. H - 1
  BY WordSizes DEF Fits
<1>2. CASE x >= 0
  <2>0. x \in Octa
    BY <1>1, <1>2 DEF Octa
  <2>1. Cut(x) = x
    BY <2>0, CutLaws
  <2> QED
    BY <1>1, <2>0, <2>1, SignedLaws
<1>3. CASE x < 0
  <2>1. x + M \in Octa
    BY <1>1, <1>3 DEF Octa
  <2>2. Cut(M * 1 + x) = Cut(x) /\ M * 1 + x = x + M
    BY <1>1, CutPlusM
  <2>3. Cut(x) = x + M
    BY <2>1, <2>2, CutLaws
  <2>4. Signed(x + M) = (IF x + M >= H THEN x + M - M ELSE x + M)
    <3>1. PICK y \in Octa : y = x + M
      BY <2>1
    <3>2. Signed(y) = (IF y >= H THEN y - M ELSE y)
      BY SignedLaws
    <3> QED
      BY <1>1, <3>1, <3>2
  <2> HIDE DEF H
  <2>5. x + M >= H /\ x + M - M = x
    BY <1>1, <1>3
  <2> QED
    BY <2>3, <2>4, <2>5
<1> QED
  BY <1>2, <1>3

(* Sums and differences of words, signed or not.                           *)
LEMMA CutSigned ==
  ASSUME NEW x \in Octa, NEW y \in Octa
  PROVE  Cut(Signed(x) + Signed(y)) = Cut(x + y) /\ Cut(Signed(x) - Signed(y)) = Cut(x - y)
<1>1. Signed(x) \in Int /\ Signed(y) \in Int /\ Cut(Signed(x)) = x /\ Cut(Signed(y)) = y
  BY SignedLaws
<1>2. x \in Int /\ y \in Int
  BY DEF Octa
<1>3. Cut(Signed(x) + Signed(y)) = Cut(x + Signed(y)) 
  BY <1>1, CutLaws
<1>4. Cut(x + Signed(y)) = Cut(x + y)
  BY <1>1, <1>2, CutLaws
<1>5. Cut(Signed(x) - Signed(y)) = Cut(Signed(x) - y)
  BY <1>1, CutLaws
<1>6. Cut(Signed(x) + (-y)) = Cut(x + (-y))
  BY <1>1, <1>2, CutLaws
<1>7. Signed(x) + (-y) = Signed(x) - y /\ x + (-y) = x - y
  BY <1>1, <1>2
<1> QED
  BY <1>3, <1>4, <1>5, <1>6, <1>7

(* Filled with its sign, a word and the word above it read as one number   *)
(* of two words.                                                           *)
LEMMA SignWord ==
  ASSUME NEW x \in Octa
  PROVE  LET t == Cut(Signed(x) \div Pow2[XLEN - 1])
         IN  t \in Octa /\ \E q \in Int : x + M * t = (M * M) * q + Signed(x)
<1> DEFINE H == Pow2[XLEN - 1]
           t == Cut(Signed(x) \div H)
<1>1. M = 2 * H /\ H \in Nat \ {0} /\ M \in Nat \ {0}
  BY WordSizes
<1>2. CASE x < H
  <2>0. x \in Nat
    BY DEF Octa
  <2>1. Signed(x) = x /\ x \in 0 .. H - 1
    BY <1>1, <1>2, <2>0, SignedLaws
  <2>2. x \div H = 0
    BY <1>1, <2>1, ModSmall
  <2>a. 0 \in Octa
    BY <1>1 DEF Octa
  <2>3. t = 0 /\ 0 \in Octa
    BY <2>a, <2>1, <2>2, CutLaws
  <2>4. x + M * 0 = (M * M) * 0 + Signed(x)
    BY <1>1, <2>1
  <2> QED
    BY <2>3, <2>4
<1>3. CASE x >= H
  <2>0. x \in Int /\ x < M
    BY <1>1 DEF Octa
  <2>1. Signed(x) = x - M /\ x \in Int /\ x < M
    BY <1>3, <2>0, SignedLaws
  <2>2. x - M = H * (-1) + (x - H) /\ x - H \in 0 .. H - 1
    BY <1>1, <1>3, <2>1
  <2>3. (x - M) \div H = -1
    BY <1>1, <2>2, DivModUnique
  <2>a. M - 1 \in Octa /\ M - 1 \in Int /\ M * (-1) + (M - 1) = -1 /\ -1 \in Int
    BY <1>1 DEF Octa
  <2>b. Cut(M * (-1) + (M - 1)) = Cut(M - 1)
    BY <2>a, CutPlusM, Zenon
  <2>4. M - 1 \in Octa /\ Cut(M * (-1) + (M - 1)) = Cut(M - 1) /\ M * (-1) + (M - 1) = -1
    BY <2>a, <2>b
  <2>5. t = M - 1
    BY <2>1, <2>3, <2>4, CutLaws
  <2>6. x + M * (M - 1) = (M * M) * 1 + (x - M)
    BY <1>1, <2>1
  <2> QED
    BY <2>1, <2>4, <2>5, <2>6
<1>4. x < H \/ x >= H
  BY <1>1 DEF Octa
<1> QED
  BY <1>2, <1>3, <1>4

(* The halves of a number cut to two words.                                *)
LEMMA WideHalves ==
  ASSUME NEW x \in Int
  PROVE  LET r == CutTo(2 * XLEN, x)
         IN  r % M = Cut(x) /\ r \div M = Cut(x \div M) /\ r % M \in Octa /\ r \div M \in Octa
<1>1. M \in Nat \ {0} /\ Pow2[2 * XLEN] = M * M
  BY WordSizes
<1>2. CutTo(2 * XLEN, x) = x % (M * M)
  BY <1>1 DEF CutTo
<1>3. \A y : Cut(y) = y % M
  BY DEF Cut, CutTo, M
<1>4. x \div M \in Int
  BY <1>1, DivMod
<1> QED
  BY <1>1, <1>2, <1>3, <1>4, TwoHalves DEF Octa

(* The sum and the difference of two words with their sign words above.    *)
LEMMA WideSum ==
  ASSUME NEW x \in Octa, NEW y \in Octa
  PROVE  LET a == x + M * Cut(Signed(x) \div Pow2[XLEN - 1])
             b == y + M * Cut(Signed(y) \div Pow2[XLEN - 1])
         IN  /\ a \in Int /\ b \in Int
             /\ CutTo(2 * XLEN, a + b) = CutTo(2 * XLEN, Signed(x) + Signed(y))
             /\ CutTo(2 * XLEN, a - b) = CutTo(2 * XLEN, Signed(x) - Signed(y))
<1> DEFINE a == x + M * Cut(Signed(x) \div Pow2[XLEN - 1])
           b == y + M * Cut(Signed(y) \div Pow2[XLEN - 1])
           MM == M * M
           p == Signed(x)
           q == Signed(y)
<1>1. MM \in Nat \ {0} /\ Pow2[2 * XLEN] = MM /\ M \in Nat
  BY WordSizes
<1>2. PICK k \in Int : a = MM * k + p
  BY SignWord
<1>3. PICK l \in Int : b = MM * l + q
  BY SignWord
<1>4. p \in Int /\ q \in Int
  BY SignedLaws
<1> HIDE DEF a, b, MM, p, q
<1>5. a + b = MM * (k + l) + (p + q) /\ a - b = MM * (k - l) + (p - q) /\ a \in Int /\ b \in Int
  <2>1. MM * (k + l) = MM * k + MM * l /\ MM * (k - l) = MM * k - MM * l
        /\ MM * k \in Int /\ MM * l \in Int
    BY <1>1
  <2> QED
    BY <1>2, <1>3, <1>4, <2>1
<1>6. (MM * (k + l) + (p + q)) % MM = (p + q) % MM
  <2>1. k + l \in Int /\ p + q \in Int
    BY <1>4
  <2> QED
    BY <1>1, <2>1, ModPlusMultiple, Zenon
<1>7. (MM * (k - l) + (p - q)) % MM = (p - q) % MM
  <2>1. k - l \in Int /\ p - q \in Int
    BY <1>4
  <2> QED
    BY <1>1, <2>1, ModPlusMultiple, Zenon
<1>8. \A z : CutTo(2 * XLEN, z) = z % MM
  BY <1>1 DEF CutTo
<1>9. CutTo(2 * XLEN, a + b) = CutTo(2 * XLEN, p + q) /\ CutTo(2 * XLEN, a - b) = CutTo(2 * XLEN, p - q)
  BY <1>5, <1>6, <1>7, <1>8
<1> QED
  BY <1>5, <1>9 DEF a, b, p, q

-----------------------------------------------------------------------------
(* Fields of a word. *)

(* The split at bit k, for the other operation.                            *)
LEMMA OrSplit ==
  ASSUME NEW k \in Nat, NEW a \in Nat, NEW c \in Nat,
         NEW b \in 0 .. Pow2[k] - 1, NEW d \in 0 .. Pow2[k] - 1
  PROVE  (a * Pow2[k] + b) | (c * Pow2[k] + d) = (a | c) * Pow2[k] + (b | d)
<1> DEFINE P == Pow2[k]
           e == a & c
           f == b & d
<1>1. P \in Nat
  BY Pow2Type
<1>2. e \in Nat
  BY AndType
<1>3. f \in Nat
  <2>1. b \in Nat /\ d \in Nat
    OBVIOUS
  <2> QED
    BY <2>1, AndType
<1>4. (a * P + b) & (c * P + d) = e * P + f
  BY AndSplit
<1>5. (a * P + b) | (c * P + d) = (a * P + b) + (c * P + d) - (e * P + f)
  BY <1>4 DEF |
<1>6. a | c = a + c - e /\ b | d = b + d - f
  BY DEF |
<1> HIDE DEF P, e, f
<1>7. (a + c - e) * P = a * P + c * P - e * P /\ a * P \in Int /\ c * P \in Int /\ e * P \in Int
  BY <1>1, <1>2
<1>8. (a * P + b) | (c * P + d) = (a | c) * P + (b | d)
  BY <1>3, <1>5, <1>6, <1>7
<1> QED
  BY <1>8 DEF P

(* The three parts of a word around its wyde ww.                           *)
WydeP(ww) == Pow2[ww * WydeBits]
WydeW == Pow2[WydeBits]
WydeR(ww) == Pow2[(3 - ww) * WydeBits]

(* A wyde is a quarter of a word.                                          *)
LEMMA WydeSizes ==
  ASSUME NEW ww \in 0..3
  PROVE  /\ ww * WydeBits \in Nat /\ WydeBits \in Nat /\ (3 - ww) * WydeBits \in Nat
         /\ WydeP(ww) \in Nat \ {0} /\ WydeW \in Nat \ {0} /\ WydeR(ww) \in Nat \ {0}
         /\ M = (WydeR(ww) * WydeW) * WydeP(ww)
         /\ Ones = WydeW - 1
<1> DEFINE p == ww * WydeBits
           r == (3 - ww) * WydeBits
<1>1. WydeBits \in Nat /\ XLEN = 4 * WydeBits
  BY BAssumption DEF WydeBits, XLEN, Bits
<1>2. p \in Nat /\ r \in Nat /\ (r + WydeBits) + p = XLEN
  BY <1>1
<1> HIDE DEF p, r
<1>3. Pow2[r + WydeBits] = Pow2[r] * Pow2[WydeBits]
  BY <1>1, <1>2, Pow2Sum
<1>4. Pow2[(r + WydeBits) + p] = Pow2[r + WydeBits] * Pow2[p]
  BY <1>1, <1>2, Pow2Sum
<1>5. M = (Pow2[r] * Pow2[WydeBits]) * Pow2[p]
  BY <1>2, <1>3, <1>4 DEF M
<1>6. Pow2[p] \in Nat \ {0} /\ Pow2[r] \in Nat \ {0} /\ Pow2[WydeBits] \in Nat \ {0}
  BY <1>1, <1>2, Pow2Type
<1> QED
  BY <1>1, <1>2, <1>5, <1>6 DEF p, r, WydeP, WydeW, WydeR, Ones

(* A word of three parts is in range.                                      *)
LEMMA WydeRange ==
  ASSUME NEW ww \in 0..3, NEW hi \in 0 .. WydeR(ww) - 1, NEW w \in 0 .. WydeW - 1,
         NEW lo \in 0 .. WydeP(ww) - 1
  PROVE  (hi * WydeW + w) * WydeP(ww) + lo \in Octa
<1> DEFINE R == WydeR(ww)
           W == WydeW
           P == WydeP(ww)
           u == hi * W + w
<1>1. R \in Nat \ {0} /\ W \in Nat \ {0} /\ P \in Nat \ {0} /\ M = (R * W) * P
  BY WydeSizes
<1>0. hi \in 0 .. R - 1 /\ w \in 0 .. W - 1 /\ lo \in 0 .. P - 1
  OBVIOUS
<1> HIDE DEF R, W, P
<1>2. hi * W <= (R - 1) * W /\ (R - 1) * W = R * W - W /\ hi * W \in Nat /\ R * W \in Nat
  BY <1>0, <1>1
<1>3. u \in 0 .. (R * W) - 1
  BY <1>0, <1>1, <1>2
<1> DEFINE V == R * W
<1> HIDE DEF u, V
<1>4. V \in Nat /\ u \in 0 .. V - 1 /\ M = V * P
  BY <1>1, <1>2, <1>3 DEF V
<1>5. u * P <= (V - 1) * P /\ (V - 1) * P = V * P - P /\ u * P \in Nat /\ V * P \in Nat
  BY <1>1, <1>4
<1>6. u * P + lo \in 0 .. M - 1
  BY <1>0, <1>1, <1>4, <1>5
<1> QED
  BY <1>6 DEF Octa, u, W, P

(* Every word has its three parts, and Wyde is the one in the middle.      *)
LEMMA WydeParts ==
  ASSUME NEW ww \in 0..3, NEW x \in Octa
  PROVE  /\ Wyde(x, ww) \in 0 .. WydeW - 1
         /\ \E hi \in 0 .. WydeR(ww) - 1, lo \in 0 .. WydeP(ww) - 1 :
              x = (hi * WydeW + Wyde(x, ww)) * WydeP(ww) + lo
<1> DEFINE R == WydeR(ww)
           W == WydeW
           P == WydeP(ww)
           u == x \div P
           lo == x % P
           hi == u \div W
           w == u % W
<1>1. R \in Nat \ {0} /\ W \in Nat \ {0} /\ P \in Nat \ {0} /\ M = (R * W) * P
  BY WydeSizes
<1>2. x \in 0 .. M - 1
  BY DEF Octa
<1>3. Wyde(x, ww) = w
  BY DEF Wyde, WydeP, WydeW
<1> HIDE DEF R, W, P
<1>4. u \in Int /\ lo \in 0 .. P - 1 /\ x = P * u + lo
  BY <1>1, <1>2, DivMod
<1> HIDE DEF u, lo
<1>5. hi \in Int /\ w \in 0 .. W - 1 /\ u = W * hi + w
  BY <1>1, <1>4, DivMod
<1> HIDE DEF hi, w
<1>6. u >= 0 /\ u < R * W
  <2>1. u <= -1 => P * u <= -P
    BY <1>1, <1>4
  <2>2. u >= R * W => P * u >= P * (R * W)
    BY <1>1, <1>4
  <2>3. P * (R * W) = M /\ M \in Int /\ R * W \in Int
    BY <1>1
  <2> QED
    BY <1>1, <1>2, <1>4, <2>1, <2>2, <2>3
<1>7. hi >= 0 /\ hi < R
  <2>1. hi <= -1 => W * hi <= -W
    BY <1>1, <1>5
  <2>2. hi >= R => W * hi >= W * R
    BY <1>1, <1>5
  <2>3. W * R = R * W /\ R * W \in Int
    BY <1>1
  <2> QED
    BY <1>1, <1>5, <1>6, <2>1, <2>2, <2>3
<1>8. x = (hi * W + w) * P + lo
  <2>1. hi * W = W * hi /\ u * P = P * u
    BY <1>1, <1>4, <1>5
  <2> QED
    BY <1>4, <1>5, <2>1
<1>9. hi \in 0 .. R - 1 /\ w \in 0 .. W - 1
  BY <1>1, <1>5, <1>7
<1>10. Wyde(x, ww) \in 0 .. W - 1 /\ x = (hi * W + Wyde(x, ww)) * P + lo
  BY <1>3, <1>8, <1>9
<1> QED
  BY <1>4, <1>9, <1>10 DEF R, W, P

(* The three parts are determined: a word with the middle part y.          *)
LEMMA WydeMiddle ==
  ASSUME NEW ww \in 0..3, NEW hi \in 0 .. WydeR(ww) - 1, NEW w \in 0 .. WydeW - 1,
         NEW lo \in 0 .. WydeP(ww) - 1
  PROVE  Wyde((hi * WydeW + w) * WydeP(ww) + lo, ww) = w
<1> DEFINE W == WydeW
           P == WydeP(ww)
           u == hi * W + w
<1>1. W \in Nat \ {0} /\ P \in Nat \ {0} /\ hi \in Nat
  BY WydeSizes
<1>2. u \in Int
  BY <1>1
<1>3. (P * u + lo) \div P = u
  BY <1>1, <1>2, DivModUnique
<1>4. (W * hi + w) % W = w
  <2>1. hi \in Int /\ w \in 0 .. W - 1
    BY <1>1
  <2> HIDE DEF W
  <2> QED
    BY <1>1, <2>1, DivModUnique
<1>5. P * u + lo = u * P + lo /\ W * hi + w = u
  BY <1>1, <1>2
<1>6. Wyde(u * P + lo, ww) = ((u * P + lo) \div P) % W
  BY DEF Wyde, WydeP, WydeW
<1> HIDE DEF u
<1>7. Wyde(u * P + lo, ww) = w
  BY <1>3, <1>4, <1>5, <1>6
<1> QED
  BY <1>7 DEF u

(* Or into one wyde.                                                       *)
LEMMA OrWyde ==
  ASSUME NEW ww \in 0..3, NEW x \in Octa, NEW imm \in 0 .. Ones
  PROVE  x | AtWyde(imm, ww) = x - AtWyde(Wyde(x, ww), ww) + AtWyde(Wyde(x, ww) | imm, ww)
<1> DEFINE W == WydeW
           P == WydeP(ww)
           w == Wyde(x, ww)
<1>1. PICK hi \in 0 .. WydeR(ww) - 1, lo \in 0 .. P - 1 : x = (hi * W + w) * P + lo
  BY WydeParts
<1>2. w \in 0 .. W - 1 /\ imm \in 0 .. W - 1
  BY WydeParts, WydeSizes
<1>3. ww * WydeBits \in Nat /\ WydeBits \in Nat /\ P \in Nat \ {0} /\ W \in Nat \ {0} /\ WydeR(ww) \in Nat
  BY WydeSizes
<1>4. hi \in Nat /\ w \in Nat /\ lo \in Nat /\ imm \in Nat /\ 0 \in 0 .. P - 1 /\ 0 \in Nat
  BY <1>2, <1>3
<1>5. (hi * W + w) | (0 * W + imm) = (hi | 0) * W + (w | imm)
  <2>1. PICK k \in Nat : W = Pow2[k]
    BY <1>3 DEF WydeW
  <2>2. PICK z \in Nat : z = 0
    OBVIOUS
  <2> HIDE DEF W, w
  <2>3. w \in 0 .. Pow2[k] - 1 /\ imm \in 0 .. Pow2[k] - 1
    BY <1>2, <2>1
  <2>4. (hi * Pow2[k] + w) | (z * Pow2[k] + imm) = (hi | z) * Pow2[k] + (w | imm)
    BY <1>4, <2>3, OrSplit
  <2> QED
    BY <2>1, <2>2, <2>4
<1>6. hi | 0 = hi /\ lo | 0 = lo /\ w | imm \in Nat
  BY <1>4, OrType
<1> DEFINE u == hi * W + w
           v == 0 * W + imm
<1>7. u \in Nat /\ v \in Nat
  BY <1>3, <1>4
<1>8. (u * P + lo) | (v * P + 0) = (u | v) * P + (lo | 0)
  <2>1. PICK k \in Nat : P = Pow2[k]
    BY <1>3 DEF WydeP
  <2> HIDE DEF P, u, v
  <2>3. lo \in 0 .. Pow2[k] - 1 /\ 0 \in 0 .. Pow2[k] - 1
    BY <1>4, <2>1
  <2>4. (u * Pow2[k] + lo) | (v * Pow2[k] + 0) = (u | v) * Pow2[k] + (lo | 0)
    BY <1>7, <2>3, OrSplit
  <2> QED
    BY <2>1, <2>4
<1> DEFINE y == w | imm
<1>9. u | v = hi * W + y
  BY <1>5, <1>6
<1>10. v = imm /\ v * P + 0 = imm * P
  BY <1>3, <1>4
<1> HIDE DEF y, u, v, w, W, P
<1>11. x | (imm * P) = (hi * W + y) * P + lo
  BY <1>1, <1>6, <1>8, <1>9, <1>10 DEF u
<1>12. (hi * W + y) * P = (hi * W) * P + y * P /\ (hi * W + w) * P = (hi * W) * P + w * P
       /\ (hi * W) * P \in Int /\ y * P \in Int /\ w * P \in Int
  BY <1>3, <1>4, <1>6 DEF y
<1>13. x | (imm * P) = x - w * P + y * P
  BY <1>1, <1>4, <1>11, <1>12
<1> QED
  BY <1>13 DEF AtWyde, y, w, P, WydeP

(* And with all but some bits of one wyde.                                 *)
LEMMA AndnWyde ==
  ASSUME NEW ww \in 0..3, NEW x \in Octa, NEW imm \in 0 .. Ones
  PROVE  /\ Inv(AtWyde(imm, ww)) \in Octa
         /\ x & Inv(AtWyde(imm, ww))
            = x - AtWyde(Wyde(x, ww), ww) + AtWyde(Wyde(x, ww) & (Ones - imm), ww)
<1> DEFINE R == WydeR(ww)
           W == WydeW
           P == WydeP(ww)
           w == Wyde(x, ww)
           c == W - 1 - imm
<1>1. PICK hi \in 0 .. R - 1, lo \in 0 .. P - 1 : x = (hi * W + w) * P + lo
  BY WydeParts
<1>2. w \in 0 .. W - 1 /\ imm \in 0 .. W - 1 /\ Ones = W - 1
  BY WydeParts, WydeSizes
<1>3. /\ ww * WydeBits \in Nat /\ WydeBits \in Nat /\ (3 - ww) * WydeBits \in Nat
      /\ P \in Nat \ {0} /\ W \in Nat \ {0} /\ R \in Nat \ {0} /\ M = (R * W) * P
  BY WydeSizes
<1>4. /\ hi \in Nat /\ w \in Nat /\ lo \in Nat /\ imm \in Nat /\ c \in 0 .. W - 1 /\ R - 1 \in 0 .. R - 1
      /\ P - 1 \in 0 .. P - 1 /\ R - 1 \in Nat
  BY <1>2, <1>3
<1> DEFINE u == hi * W + w
           v == (R - 1) * W + c
           y == w & c
<1>5. u & v = (hi & (R - 1)) * W + y
  <2>1. PICK k \in Nat : W = Pow2[k]
    BY <1>3 DEF WydeW
  <2> HIDE DEF W, w, R, c
  <2>3. w \in 0 .. Pow2[k] - 1 /\ c \in 0 .. Pow2[k] - 1
    BY <1>2, <1>4, <2>1
  <2>4. (hi * Pow2[k] + w) & ((R - 1) * Pow2[k] + c) = (hi & (R - 1)) * Pow2[k] + (w & c)
    BY <1>4, <2>3, AndSplit
  <2> QED
    BY <2>1, <2>4
<1>6. hi & (R - 1) = hi
  BY <1>1, <1>3, AndOnes DEF WydeR
<1>7. lo & (P - 1) = lo
  BY <1>1, <1>3, AndOnes DEF WydeP
<1>8. u \in Nat /\ v \in Nat
  BY <1>3, <1>4
<1>9. (u * P + lo) & (v * P + (P - 1)) = (u & v) * P + (lo & (P - 1))
  <2>1. PICK k \in Nat : P = Pow2[k]
    BY <1>3 DEF WydeP
  <2> HIDE DEF P, u, v
  <2>3. lo \in 0 .. Pow2[k] - 1 /\ P - 1 \in 0 .. Pow2[k] - 1
    BY <1>4, <2>1
  <2>4. (u * Pow2[k] + lo) & (v * Pow2[k] + (P - 1)) = (u & v) * Pow2[k] + (lo & (P - 1))
    BY <1>8, <2>3, AndSplit
  <2> QED
    BY <2>1, <2>4
<1>10. y \in Nat
  <2>1. c \in Nat
    BY <1>4
  <2> QED
    BY <1>4, <2>1, AndType
<1>11. v * P + (P - 1) = M - 1 - imm * P
  <2> HIDE DEF R, W, P
  <2>1. v = R * W - 1 - imm /\ R * W \in Int
    BY <1>3, <1>4
  <2>2. (R * W - 1 - imm) * P = (R * W) * P - P - imm * P /\ imm * P \in Int /\ (R * W) * P \in Int
    BY <1>3, <1>4
  <2> QED
    BY <1>3, <2>1, <2>2
<1>12. v * P + (P - 1) \in Octa
  BY <1>4, WydeRange
<1> HIDE DEF y, u, v, w, W, P, R, c
<1>13. x & (M - 1 - imm * P) = (hi * W + y) * P + lo
  BY <1>1, <1>5, <1>6, <1>7, <1>9, <1>11 DEF u
<1>14. (hi * W + y) * P = (hi * W) * P + y * P /\ (hi * W + w) * P = (hi * W) * P + w * P
       /\ (hi * W) * P \in Int /\ y * P \in Int /\ w * P \in Int
  BY <1>3, <1>4, <1>10
<1>15. x & (M - 1 - imm * P) = x - w * P + y * P
  BY <1>1, <1>4, <1>13, <1>14
<1>16. c = Ones - imm
  BY <1>2 DEF c
<1>17. Inv(AtWyde(imm, ww)) = M - 1 - imm * P
  BY DEF Inv, AtWyde, P, WydeP
<1> QED
  BY <1>11, <1>12, <1>15, <1>16, <1>17 DEF AtWyde, y, w, P, WydeP

(* Constants with one wyde set, over zeros and over ones.                  *)
LEMMA WydeConst ==
  ASSUME NEW ww \in 0..3, NEW imm \in 0 .. Ones
  PROVE  /\ AtWyde(imm, ww) \in Octa
         /\ AtWyde(imm, ww) + Inv(AtWyde(Ones, ww)) \in Octa
         /\ Wyde(0, ww) = 0
         /\ Wyde(M - 1, ww) = Ones
<1> DEFINE R == WydeR(ww)
           W == WydeW
           P == WydeP(ww)
<1>1. P \in Nat \ {0} /\ W \in Nat \ {0} /\ R \in Nat \ {0} /\ M = (R * W) * P /\ Ones = W - 1
  BY WydeSizes
<1>2. /\ 0 \in 0 .. R - 1 /\ R - 1 \in 0 .. R - 1 /\ 0 \in 0 .. P - 1 /\ P - 1 \in 0 .. P - 1
      /\ imm \in 0 .. W - 1 /\ W - 1 \in 0 .. W - 1 /\ 0 \in 0 .. W - 1
  <2> HIDE DEF R, W, P
  <2> QED
    BY <1>1
<1>3. (0 * W + imm) * P + 0 \in Octa
  BY <1>2, WydeRange, Zenon
<1>4. ((R - 1) * W + imm) * P + (P - 1) \in Octa
  BY <1>2, WydeRange, Zenon
<1>5. Wyde((0 * W + 0) * P + 0, ww) = 0
  BY <1>2, WydeMiddle, Zenon
<1>6. Wyde(((R - 1) * W + (W - 1)) * P + (P - 1), ww) = W - 1
  BY <1>2, WydeMiddle, Zenon
<1>7. AtWyde(imm, ww) = imm * P /\ AtWyde(Ones, ww) = Ones * P
  BY DEF AtWyde, WydeP
<1> HIDE DEF R, W, P
<1>8. (0 * W + imm) * P + 0 = imm * P /\ (0 * W + 0) * P + 0 = 0
  BY <1>1, <1>2
<1>9. ((R - 1) * W + (W - 1)) * P + (P - 1) = M - 1
  <2>1. (R - 1) * W + (W - 1) = R * W - 1 /\ R * W \in Int
    BY <1>1
  <2>2. (R * W - 1) * P = (R * W) * P - P /\ (R * W) * P \in Int
    BY <1>1, <2>1
  <2> QED
    BY <1>1, <2>1, <2>2
<1>10. ((R - 1) * W + imm) * P + (P - 1) = imm * P + (M - 1 - Ones * P)
  <2>1. (R - 1) * W + imm = R * W + (imm - (W - 1)) - 1 /\ R * W \in Int
    BY <1>1, <1>2
  <2>2. (R * W + (imm - (W - 1)) - 1) * P = (R * W) * P + imm * P - (W - 1) * P - P
        /\ (R * W) * P \in Int /\ imm * P \in Int /\ (W - 1) * P \in Int
    BY <1>1, <1>2, <2>1
  <2> QED
    BY <1>1, <2>1, <2>2
<1> QED
  BY <1>1, <1>3, <1>4, <1>5, <1>6, <1>7, <1>8, <1>9, <1>10 DEF Inv

(* The wyde cleared, then set.                                             *)
LEMMA SetWyde ==
  ASSUME NEW ww \in 0..3, NEW x \in Octa, NEW imm \in 0 .. Ones
  PROVE  (x & Inv(AtWyde(Ones, ww))) | AtWyde(imm, ww)
         = x - AtWyde(Wyde(x, ww), ww) + AtWyde(imm, ww)
<1> DEFINE R == WydeR(ww)
           W == WydeW
           P == WydeP(ww)
           w == Wyde(x, ww)
           y == x & Inv(AtWyde(Ones, ww))
<1>0. P \in Nat \ {0} /\ W \in Nat \ {0} /\ R \in Nat \ {0} /\ Ones = W - 1
  BY WydeSizes
<1>1. PICK hi \in 0 .. R - 1, lo \in 0 .. P - 1 : x = (hi * W + w) * P + lo
  BY WydeParts
<1>2. w \in 0 .. W - 1
  BY WydeParts
<1>3. Ones \in 0 .. Ones /\ Ones - Ones = 0 /\ 0 \in 0 .. W - 1
  BY <1>0
<1>4. y = x - AtWyde(w, ww) + AtWyde(w & (Ones - Ones), ww)
  BY <1>3, AndnWyde
<1>5. w & (Ones - Ones) = 0
  BY <1>2, <1>3, AndZero
<1>6. \A z : AtWyde(z, ww) = z * P
  BY DEF AtWyde, WydeP
<1>7. Wyde((hi * W + 0) * P + lo, ww) = 0
  <2>1. PICK z \in 0 .. W - 1 : z = 0
    BY <1>3
  <2>2. Wyde((hi * W + z) * P + lo, ww) = z
    BY <1>1, WydeMiddle
  <2> QED
    BY <2>1, <2>2
<1>8. (hi * W + 0) * P + lo \in Octa
  BY <1>1, <1>3, WydeRange, Zenon
<1> HIDE DEF R, W, P, w, y
<1>9. (hi * W + 0) * P + lo = x - w * P /\ w * P \in Int /\ x \in Int
  <2>1. (hi * W + w) * P = (hi * W) * P + w * P /\ (hi * W + 0) * P = (hi * W) * P
        /\ (hi * W) * P \in Int /\ w * P \in Int
    BY <1>0, <1>2
  <2> QED
    BY <1>1, <2>1
<1>10. 0 * P = 0
  BY <1>0
<1>11. y = x - w * P
  BY <1>4, <1>5, <1>6, <1>9, <1>10
<1>12. y \in Octa /\ Wyde(y, ww) = 0
  BY <1>7, <1>8, <1>9, <1>11
<1>13. y | AtWyde(imm, ww) = y - AtWyde(Wyde(y, ww), ww) + AtWyde(Wyde(y, ww) | imm, ww)
  BY <1>12, OrWyde
<1>14. 0 | imm = imm
  <2>1. imm \in Nat /\ 0 \in Nat
    OBVIOUS
  <2> QED
    BY <2>1, OrType
<1>15. y | AtWyde(imm, ww) = y - 0 * P + imm * P
  BY <1>6, <1>12, <1>13, <1>14
<1>16. y | AtWyde(imm, ww) = x - w * P + imm * P
  BY <1>9, <1>10, <1>11, <1>15
<1> QED
  BY <1>6, <1>16 DEF y, w

(* A shift to the left keeps the low bits; the shift back extends them.    *)
LEMMA ShiftBack ==
  ASSUME NEW x \in Octa, NEW k \in 0 .. XLEN - 1
  PROVE  LET low == CutTo(XLEN - k, x)
             y == Cut(x * Pow2[k])
         IN  /\ y \div Pow2[k] = low
             /\ Signed(y) \div Pow2[k] = SignedIn(XLEN - k, low)
             /\ low \in Octa /\ SignedIn(XLEN - k, low) \in Int
<1> DEFINE n == XLEN - k
           Q == Pow2[k]
           L == Pow2[n]
           H == Pow2[n - 1]
           low == CutTo(n, x)
           y == Cut(x * Q)
<1>0. XLEN \in Nat /\ k \in Nat /\ n \in Nat /\ n - 1 \in Nat /\ n + k = XLEN /\ (n - 1) + k = XLEN - 1
      /\ (n - 1) + 1 = n
  BY WordSizes
<1>1. L \in Nat \ {0} /\ Q \in Nat \ {0} /\ H \in Nat \ {0}
  BY <1>0, Pow2Type
<1>2. M = L * Q
  BY <1>0, Pow2Sum DEF M
<1>3. Pow2[XLEN - 1] = H * Q
  BY <1>0, Pow2Sum
<1>4. L = 2 * H
  BY <1>0, Pow2Step
<1>5. low = x % L
  BY DEF CutTo
<1>6. x \in Nat /\ x < M
  BY WordSizes DEF Octa
<1> DEFINE a == x \div L
<1> HIDE DEF Q, L, H, low, n
<1>7. a \in Int /\ low \in 0 .. L - 1 /\ x = L * a + low
  BY <1>1, <1>5, <1>6, DivMod
<1> HIDE DEF a
<1>8. x * Q = M * a + Q * low /\ Q * low \in Int
  <2>1. (L * a + low) * Q = (L * Q) * a + Q * low
    BY <1>1, <1>7
  <2> QED
    BY <1>1, <1>2, <1>7, <1>6, <2>1
<1>9. Q * low \in Octa
  <2>1. Q * low <= Q * (L - 1) /\ Q * (L - 1) = L * Q - Q /\ Q * low >= 0
    BY <1>1, <1>7
  <2> QED
    BY <1>1, <1>2, <1>8, <2>1 DEF Octa
<1>10. y = Q * low
  <2>1. Cut(M * a + Q * low) = Cut(Q * low)
    BY <1>7, <1>8, CutPlusM
  <2> QED
    BY <1>8, <1>9, <2>1, CutLaws
<1>11. (Q * low + 0) \div Q = low /\ 0 \in 0 .. Q - 1 /\ low \in Int
  BY <1>1, <1>7, DivModUnique
<1>12. y \div Q = low
  BY <1>8, <1>10, <1>11
<1>13. SignedIn(n, low) = IF low >= H THEN low - L ELSE low
  BY DEF SignedIn, H, L
<1>14. Signed(Q * low) = IF Q * low >= H * Q THEN Q * low - M ELSE Q * low
  <2>1. PICK z \in Octa : z = Q * low
    BY <1>9
  <2>2. Signed(z) = IF z >= H * Q THEN z - M ELSE z
    BY <1>3, SignedLaws
  <2> QED
    BY <1>8, <1>1, <2>1, <2>2
<1>15. low >= H <=> Q * low >= H * Q
  <2>1. low >= H => Q * low >= H * Q
    BY <1>1, <1>7
  <2>2. low <= H - 1 => Q * low <= (H - 1) * Q
    BY <1>1, <1>7
  <2>3. (H - 1) * Q = H * Q - Q /\ H * Q \in Int
    BY <1>1
  <2> QED
    BY <1>1, <1>7, <1>8, <2>1, <2>2, <2>3
<1>16. Signed(y) \div Q = SignedIn(n, low)
  <2>1. CASE low >= H
    <3>1. Signed(y) = Q * low - M /\ SignedIn(n, low) = low - L
      BY <1>10, <1>13, <1>14, <1>15, <2>1
    <3>2. Q * (low - L) = Q * low - L * Q
      BY <1>1, <1>7
    <3>3. (Q * (low - L) + 0) \div Q = low - L
      <4>1. low - L \in Int
        BY <1>1, <1>7
      <4> QED
        BY <1>1, <1>11, <4>1, DivModUnique, Zenon
    <3>4. Q * (low - L) + 0 = Signed(y)
      BY <1>1, <1>2, <1>7, <3>1, <3>2
    <3> QED
      BY <3>1, <3>3, <3>4
  <2>2. CASE ~(low >= H)
    <3>1. Signed(y) = y /\ SignedIn(n, low) = low
      BY <1>10, <1>13, <1>14, <1>15, <2>2
    <3> QED
      BY <1>12, <3>1
  <2> QED
    BY <2>1, <2>2
<1>17. low \in Octa
  <2>1. L <= L * Q
    BY <1>1
  <2> QED
    BY <1>1, <1>2, <1>7, <2>1 DEF Octa
<1>18. SignedIn(n, low) \in Int
  BY <1>1, <1>7, <1>13
<1> QED
  BY <1>12, <1>16, <1>17, <1>18 DEF n, low, Q

(* The start of the page of x.                                             *)
LEMMA PageStart ==
  ASSUME NEW x \in Octa, NEW n \in 0 .. XLEN
  PROVE  x & Cut(-Pow2[n]) = Pow2[n] * (x \div Pow2[n])
<1> DEFINE m == XLEN - n
           P == Pow2[n]
           R == Pow2[m]
           q == x \div P
           r == x % P
<1>0. n \in Nat /\ m \in Nat /\ m + n = XLEN
  BY WordSizes
<1>1. P \in Nat \ {0} /\ R \in Nat \ {0} /\ M = R * P
  BY <1>0, Pow2Type, Pow2Sum DEF M
<1>2. x \in 0 .. M - 1
  BY DEF Octa
<1> HIDE DEF P, R, m
<1>3. q \in Int /\ r \in 0 .. P - 1 /\ x = P * q + r
  BY <1>1, <1>2, DivMod
<1> HIDE DEF q, r
<1>4. q \in 0 .. R - 1
  <2>1. q <= -1 => P * q <= -P
    BY <1>1, <1>3
  <2>2. q >= R => P * q >= P * R
    BY <1>1, <1>3
  <2>3. P * R = M /\ M \in Int
    BY <1>1
  <2> QED
    BY <1>1, <1>2, <1>3, <2>1, <2>2, <2>3
<1>5. Cut(-P) = (R - 1) * P + 0
  <2>1. (R - 1) * P = M - P /\ M - P \in Octa /\ M \in Int
    BY <1>1 DEF Octa
  <2>a. -P \in Int /\ 1 \in Int /\ M * 1 + (-P) = M - P
    BY <1>1, <2>1
  <2>b. Cut(M * 1 + (-P)) = Cut(-P)
    BY <2>a, CutPlusM, Zenon
  <2>2. Cut(M * 1 + (-P)) = Cut(-P) /\ M * 1 + (-P) = M - P
    BY <2>a, <2>b
  <2> QED
    BY <1>1, <2>1, <2>2, CutLaws
<1>6. (q * P + r) & ((R - 1) * P + 0) = (q & (R - 1)) * P + (r & 0)
  <2>1. q \in Nat /\ R - 1 \in Nat
    BY <1>1, <1>4
  <2>2. r \in 0 .. Pow2[n] - 1 /\ 0 \in 0 .. Pow2[n] - 1
    BY <1>1, <1>3 DEF P
  <2>3. (q * Pow2[n] + r) & ((R - 1) * Pow2[n] + 0) = (q & (R - 1)) * Pow2[n] + (r & 0)
    BY <1>0, <2>1, <2>2, AndSplit
  <2> QED
    BY <2>3 DEF P
<1>7. q & (R - 1) = q
  BY <1>0, <1>4, AndOnes DEF R
<1>8. r & 0 = 0
  BY <1>3, AndZero
<1>9. q * P + r = x /\ q * P + 0 = P * q
  BY <1>1, <1>3
<1> QED
  BY <1>5, <1>6, <1>7, <1>8, <1>9 DEF P, q
=============================================================================
