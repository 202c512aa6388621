---------------------------- MODULE UInt256Proof ----------------------------
(***************************************************************************)
(* Proofs about UInt256, for limbs of any width: addition and subtraction  *)
(* are right exactly where no carry is lost between limbs of all ones,     *)
(* uint256_leftshift multiplies by a power of two, uint256_mul is right    *)
(* where the product has room in two limbs, and what is written in hex     *)
(* digits is read back.  The lemmas go from single limbs to numbers: a     *)
(* limb of the sum with what it carries on and what it loses, a limb that  *)
(* is shifted with what goes into the next one, the digits of a limb.      *)
(***************************************************************************)
EXTENDS UInt256, WellFoundedInduction, TLAPS

-----------------------------------------------------------------------------
(***************************************************************************)
(* Division, numbers with one more limb, powers of two.                    *)
(***************************************************************************)
\* A quotient and a remainder are determined by the number they make up.
LEMMA Division ==
  ASSUME NEW m \in Nat \ {0}, NEW q \in Nat, NEW r \in Nat, r < m
  PROVE  /\ (m * q + r) % m = r
         /\ (m * q + r) \div m = q
<1> DEFINE a == m * q + r
           d == a \div m
           e == a % m
<1>1. a \in Nat /\ d \in Nat /\ e \in Nat /\ e < m /\ a = m * d + e
  OBVIOUS
<1>2. a = m * q + r
  OBVIOUS
<1> HIDE DEF a, d, e
<1>3. d = q
  <2>1. CASE d > q
    <3>1. PICK z \in Nat : d = q + 1 + z
      BY <1>1, <2>1
    <3>2. m * d = m * q + m + m * z /\ m * z \in Nat
      BY <3>1
    <3> QED BY <1>1, <1>2, <3>2
  <2>2. CASE q > d
    <3>1. PICK z \in Nat : q = d + 1 + z
      BY <1>1, <2>2
    <3>2. m * q = m * d + m + m * z /\ m * z \in Nat
      BY <3>1, <1>1
    <3> QED BY <1>1, <1>2, <3>2
  <2> QED BY <1>1, <2>1, <2>2
<1> QED BY <1>1, <1>2, <1>3 DEF a, d, e

\* What division gives.
LEMMA DivisionIs ==
  ASSUME NEW m \in Nat \ {0}, NEW a \in Nat
  PROVE  /\ a \div m \in Nat /\ a % m \in 0 .. m - 1
         /\ a = m * (a \div m) + (a % m)
  OBVIOUS

\* The sum of two limbs and a carry is too small by the modulus of a limb where it is
\* not less than either of them, and only if both are all ones.
LEMMA LimbSum ==
  ASSUME NEW B \in Nat, B > 1, NEW l \in 0 .. B - 1, NEW r \in 0 .. B - 1, NEW c \in 0 .. 1
  PROVE  LET s == (l + r + c) % B
             o == IF s < l \/ s < r THEN 1 ELSE 0
         IN /\ s \in 0 .. B - 1 /\ o \in 0 .. 1
            /\ l = B - 1 /\ r = B - 1 /\ c = 1 => s = B - 1 /\ o = 0
            /\ ~ (l = B - 1 /\ r = B - 1 /\ c = 1) => l + r + c = s + B * o
<1> DEFINE s == (l + r + c) % B
<1>1. CASE l + r + c < B
  <2> DEFINE t == l + r + c
  <2>1. t \in Nat /\ t < B /\ B * 0 + t = l + r + c
    BY <1>1
  <2> HIDE DEF t
  <2>2. (B * 0 + t) % B = t
    BY <2>1, Division
  <2>3. s = t
    BY <2>1, <2>2
  <2> QED BY <1>1, <2>1, <2>3
<1>2. CASE l + r + c >= B
  <2> DEFINE t == l + r + c - B
  <2>1. t \in Nat /\ t < B /\ B * 1 + t = l + r + c
    BY <1>2
  <2> HIDE DEF t
  <2>2. (B * 1 + t) % B = t
    BY <2>1, Division
  <2>3. s = t
    BY <2>1, <2>2
  <2> QED BY <2>1, <2>3
<1> QED BY <1>1, <1>2


\* One limb below two numbers: what is carried into their sum f, and what is lost d.
LEMMA OneLimb ==
  ASSUME NEW B \in Nat, NEW l \in Nat, NEW r \in Nat, NEW c \in Nat, NEW s \in Nat,
         NEW d \in Nat, NEW f \in Nat, l + r + c = s + B * (f + d),
         NEW x \in Nat, NEW y \in Nat, NEW z \in Nat, x + y + f = z
  PROVE  (l + B * x) + (r + B * y) + c = s + B * (z + d)
<1>1. B * (z + d) = B * x + B * y + B * (f + d)
  <2>1. z + d = x + y + (f + d)
    OBVIOUS
  <2> QED BY <2>1
<1>2. B * x \in Nat /\ B * y \in Nat /\ B * (f + d) \in Nat
  OBVIOUS
<1> QED BY <1>1, <1>2

\* Four limbs.
LEMMA FourLimbs ==
  ASSUME NEW B \in Nat,
         NEW l0 \in Nat, NEW l1 \in Nat, NEW l2 \in Nat, NEW l3 \in Nat,
         NEW r0 \in Nat, NEW r1 \in Nat, NEW r2 \in Nat, NEW r3 \in Nat,
         NEW s0 \in Nat, NEW s1 \in Nat, NEW s2 \in Nat, NEW s3 \in Nat,
         NEW c1 \in Nat, NEW c2 \in Nat, NEW c3 \in Nat, NEW h \in Nat,
         NEW d1 \in Nat, NEW d2 \in Nat,
         l0 + r0 + 0 = s0 + B * (c1 + 0), l1 + r1 + c1 = s1 + B * (c2 + d1),
         l2 + r2 + c2 = s2 + B * (c3 + d2), l3 + r3 + c3 = s3 + B * h
  PROVE  (l0 + B * (l1 + B * (l2 + B * l3))) + (r0 + B * (r1 + B * (r2 + B * r3)))
           = (s0 + B * (s1 + B * (s2 + B * s3))) + B * B * (d1 + B * d2) + B * B * B * B * h
<1>1. PICK z3 \in Nat : z3 = s3 + B * h
  <2>1. B * h \in Nat
    OBVIOUS
  <2> QED BY <2>1
<1>2. PICK z2 \in Nat : z2 = s2 + B * (z3 + d2)
  <2>1. B * (z3 + d2) \in Nat
    OBVIOUS
  <2> QED BY <2>1
<1>3. PICK z1 \in Nat : z1 = s1 + B * (z2 + d1)
  <2>1. B * (z2 + d1) \in Nat
    OBVIOUS
  <2> QED BY <2>1
<1>4. l3 + r3 + c3 = z3
  BY <1>1
<1>5. (l2 + B * l3) + (r2 + B * r3) + c2 = z2
  BY <1>2, <1>4, OneLimb
<1>6. PICK x2 \in Nat, y2 \in Nat : x2 = l2 + B * l3 /\ y2 = r2 + B * r3
  <2>1. B * l3 \in Nat /\ B * r3 \in Nat
    OBVIOUS
  <2> QED BY <2>1
<1>7. (l1 + B * x2) + (r1 + B * y2) + c1 = z1
  <2>1. x2 + y2 + c2 = z2
    BY <1>5, <1>6
  <2> QED BY <1>3, <2>1, OneLimb
<1>8. PICK x1 \in Nat, y1 \in Nat : x1 = l1 + B * x2 /\ y1 = r1 + B * y2
  <2>1. B * x2 \in Nat /\ B * y2 \in Nat
    OBVIOUS
  <2> QED BY <2>1
<1>9. (l0 + B * x1) + (r0 + B * y1) + 0 = s0 + B * (z1 + 0)
  <2>1. x1 + y1 + c1 = z1
    BY <1>7, <1>8
  <2> QED BY <2>1, OneLimb
<1>10. s0 + B * (s1 + B * (s2 + B * (s3 + B * h + d2) + d1))
         = (s0 + B * (s1 + B * (s2 + B * s3))) + B * B * (d1 + B * d2) + B * B * B * B * h
  OBVIOUS
<1>11. B * x1 \in Nat /\ B * y1 \in Nat /\ B * z1 \in Nat
  OBVIOUS
<1>12. (l0 + B * x1) + (r0 + B * y1) = s0 + B * z1
  <2>1. z1 + 0 = z1
    OBVIOUS
  <2> QED BY <1>9, <1>11, <2>1
<1> QED BY <1>1, <1>2, <1>3, <1>6, <1>8, <1>10, <1>12

\* Every set of numbers that is not empty has a least element.
LEMMA Least == ASSUME NEW T, T \subseteq Nat, T # {}
               PROVE  \E m \in T : \A k \in T : m <= k
<1>1. IsWellFoundedOn(OpToRel(<, Nat), Nat)
  BY NatLessThanWellFounded
<1>2. \E x \in T : \A y \in T : ~ (<<y, x>> \in OpToRel(<, Nat))
  BY <1>1, WFMin
<1>3. PICK x \in T : \A y \in T : ~ (<<y, x>> \in OpToRel(<, Nat))
  BY <1>2
<1>4. ASSUME NEW y \in T
      PROVE  x <= y
  <2>1. x \in Nat /\ y \in Nat
    OBVIOUS
  <2>2. <<y, x>> \in Nat \X Nat
    BY <2>1
  <2>3. y < x => <<y, x>> \in OpToRel(<, Nat)
    BY <2>2 DEF OpToRel
  <2>4. ~ (y < x)
    BY <1>3, <2>3, Zenon
  <2> QED
    BY <2>1, <2>4
<1> QED
  BY <1>4

\* Induction, for the set of the numbers that have a property.
LEMMA Induction == ASSUME NEW T, 0 \in T, \A n \in Nat : n \in T => n + 1 \in T
                   PROVE  \A n \in Nat : n \in T
<1> SUFFICES ASSUME NEW c \in Nat, c \notin T
             PROVE  FALSE
  OBVIOUS
<1> DEFINE S == Nat \ T
<1>1. S \subseteq Nat /\ S # {}
  OBVIOUS
<1>2. PICK m \in S : \A k \in S : m <= k
  BY <1>1, Least
<1>3. m \in Nat /\ m # 0 /\ m \notin T
  OBVIOUS
<1>4. m - 1 \in Nat /\ (m - 1) + 1 = m /\ ~ (m <= m - 1)
  BY <1>3
<1>5. m - 1 \in T
  BY <1>2, <1>4
<1> QED
  BY <1>3, <1>4, <1>5

\* two_to is what its definition says: there is such a function on 0 .. N for every
\* N, they agree, and together they are one on Nat.
LEMMA TwoTo ==
  /\ two_to[0] = 1
  /\ \A n \in Nat : two_to[n] \in Nat \ {0} /\ two_to[n + 1] = 2 * two_to[n]
<1> DEFINE Is(g, N) == g = [n \in 0 .. N |-> IF n = 0 THEN 1 ELSE 2 * g[n - 1]]
           S == {N \in Nat : \E g : Is(g, N)}
<1>1. 0 \in S
  <2> DEFINE g == [n \in 0 .. 0 |-> 1]
  <2>1. Is(g, 0)
    OBVIOUS
  <2> HIDE DEF Is
  <2> QED
    BY <2>1
<1>2. ASSUME NEW N \in Nat, N \in S
      PROVE  N + 1 \in S
  <2>1. PICK g : Is(g, N)
    BY <1>2
  <2> DEFINE h == [n \in 0 .. N + 1 |-> IF n = N + 1 THEN 2 * g[N] ELSE g[n]]
  <2>2. ASSUME NEW n \in 0 .. N + 1
        PROVE  h[n] = IF n = 0 THEN 1 ELSE 2 * h[n - 1]
    <3>1. CASE n = N + 1
      <4>1. n - 1 = N /\ n # 0 /\ N \in 0 .. N + 1 /\ N # N + 1
        BY <3>1
      <4> QED
        BY <3>1, <4>1
    <3>2. CASE n # N + 1
      <4>1. n \in 0 .. N /\ h[n] = g[n]
        BY <3>2
      <4>2. g[n] = IF n = 0 THEN 1 ELSE 2 * g[n - 1]
        BY <2>1, <4>1
      <4>3. CASE n = 0
        BY <4>1, <4>2, <4>3
      <4>4. CASE n # 0
        <5>1. n - 1 \in 0 .. N + 1 /\ n - 1 # N + 1
          BY <4>1, <4>4
        <5>2. h[n - 1] = g[n - 1]
          BY <5>1
        <5> QED
          BY <4>1, <4>2, <4>4, <5>2
      <4> QED
        BY <4>3, <4>4
    <3> QED
      BY <3>1, <3>2
  <2>3. h = [n \in 0 .. N + 1 |-> h[n]]
    OBVIOUS
  <2> HIDE DEF h
  <2>4. Is(h, N + 1)
    BY <2>2, <2>3
  <2> HIDE DEF Is
  <2> QED
    BY <2>4
<1>3. \A N \in Nat : N \in S
  <2> HIDE DEF S
  <2> QED
    BY <1>1, <1>2, Induction
<1> DEFINE G(N) == CHOOSE g : Is(g, N)
<1>4. ASSUME NEW N \in Nat
      PROVE  \A n \in 0 .. N : G(N)[n] = IF n = 0 THEN 1 ELSE 2 * G(N)[n - 1]
  <2>1. \E g : Is(g, N)
    BY <1>3
  <2>2. Is(G(N), N)
    <3> HIDE DEF Is
    <3> QED
      BY <2>1
  <2> HIDE DEF G
  <2> QED
    BY <2>2
<1> HIDE DEF G, Is, S
<1>5. ASSUME NEW N \in Nat
      PROVE  G(N + 1)[N] = G(N)[N]
  <2> DEFINE T == {n \in Nat : n <= N => G(N + 1)[n] = G(N)[n]}
  <2>1. 0 \in T
    <3>1. N + 1 \in Nat /\ 0 \in 0 .. N /\ 0 \in 0 .. N + 1
      OBVIOUS
    <3>2. G(N)[0] = 1 /\ G(N + 1)[0] = 1
      BY <1>4, <3>1
    <3> QED
      BY <3>2
  <2>2. ASSUME NEW n \in Nat, n \in T
        PROVE  n + 1 \in T
    <3> SUFFICES ASSUME n + 1 <= N PROVE G(N + 1)[n + 1] = G(N)[n + 1]
      OBVIOUS
    <3>1. N + 1 \in Nat /\ n + 1 \in 0 .. N /\ n + 1 \in 0 .. N + 1 /\ (n + 1) - 1 = n /\ n + 1 # 0
          /\ n <= N
      OBVIOUS
    <3>2. G(N)[n + 1] = 2 * G(N)[n]
      BY <1>4, <3>1
    <3>3. G(N + 1)[n + 1] = 2 * G(N + 1)[n]
      BY <1>4, <3>1
    <3>4. G(N + 1)[n] = G(N)[n]
      BY <2>2, <3>1
    <3> QED
      BY <3>2, <3>3, <3>4
  <2> HIDE DEF T
  <2>3. N \in T
    BY <2>1, <2>2, Induction
  <2> QED
    BY <2>3 DEF T
<1> DEFINE f == [n \in Nat |-> G(n)[n]]
<1>6. f = [n \in Nat |-> IF n = 0 THEN 1 ELSE 2 * f[n - 1]]
  <2>1. ASSUME NEW n \in Nat
        PROVE  G(n)[n] = IF n = 0 THEN 1 ELSE 2 * f[n - 1]
    <3>1. CASE n = 0
      <4>1. n \in 0 .. n
        OBVIOUS
      <4> QED
        BY <1>4, <3>1, <4>1
    <3>2. CASE n # 0
      <4>1. n - 1 \in Nat /\ (n - 1) + 1 = n /\ n \in 0 .. n
        BY <3>2
      <4>2. G(n)[n] = 2 * G(n)[n - 1]
        BY <1>4, <3>2, <4>1
      <4>3. G((n - 1) + 1)[n - 1] = G(n - 1)[n - 1]
        BY <1>5, <4>1
      <4>4. f[n - 1] = G(n - 1)[n - 1]
        BY <4>1
      <4> HIDE DEF f
      <4> QED
        BY <3>2, <4>1, <4>2, <4>3, <4>4
    <3> QED
      BY <3>1, <3>2
  <2> QED
    BY <2>1
<1> HIDE DEF f
<1>7. two_to = [n \in Nat |-> IF n = 0 THEN 1 ELSE 2 * two_to[n - 1]]
  BY <1>6 DEF two_to
<1>8. two_to[0] = 1
  BY <1>7
<1>9. ASSUME NEW n \in Nat
      PROVE  two_to[n + 1] = 2 * two_to[n]
  <2>1. n + 1 \in Nat /\ n + 1 # 0 /\ (n + 1) - 1 = n
    OBVIOUS
  <2> QED
    BY <1>7, <2>1
<1> DEFINE T == {n \in Nat : two_to[n] \in Nat \ {0}}
<1>10. 0 \in T
  BY <1>8
<1>11. ASSUME NEW n \in Nat, n \in T
       PROVE  n + 1 \in T
  BY <1>9, <1>11
<1>12. \A n \in Nat : n \in T
  <2> HIDE DEF T
  <2> QED
    BY <1>10, <1>11, Induction
<1> QED
  BY <1>8, <1>9, <1>12

\* Powers of two multiply by adding their exponents.
LEMMA PowerSum ==
  ASSUME NEW a \in Nat, NEW b \in Nat
  PROVE  two_to[a + b] = two_to[a] * two_to[b]
<1> DEFINE T == {n \in Nat : two_to[a + n] = two_to[a] * two_to[n]}
<1>1. 0 \in T
  BY TwoTo
<1>2. ASSUME NEW n \in Nat, n \in T
      PROVE  n + 1 \in T
  <2>1. two_to[n + 1] = 2 * two_to[n] /\ two_to[n] \in Nat /\ two_to[a] \in Nat
    BY TwoTo
  <2>2. a + n \in Nat /\ a + (n + 1) = (a + n) + 1
    OBVIOUS
  <2>3. two_to[a + (n + 1)] = 2 * two_to[a + n]
    BY <2>2, TwoTo
  <2>4. two_to[a + n] = two_to[a] * two_to[n]
    BY <1>2
  <2> DEFINE x == two_to[a]
             y == two_to[n]
  <2>5. 2 * (x * y) = x * (2 * y)
    <3> HIDE DEF x, y
    <3>1. PICK u \in Nat, v \in Nat : u = x /\ v = y
      BY <2>1 DEF x, y
    <3>2. 2 * (u * v) = u * (2 * v)
      OBVIOUS
    <3> QED BY <3>1, <3>2
  <2> QED BY <2>1, <2>3, <2>4, <2>5
<1> HIDE DEF T
<1>3. b \in T
  BY <1>1, <1>2, Induction
<1> QED BY <1>3 DEF T

\* The powers that stand in the program.
LEMMA Powers ==
  /\ Base \in Nat /\ Base > 1
  /\ two_to[0] = 1 /\ two_to[W] = Base /\ two_to[2 * W] = Base * Base
  /\ two_to[3 * W] = Base * Base * Base
  /\ Modulus = Base * Base * Base * Base
<1>1. W \in Nat /\ W # 0
  BY WidthAssumption
<1>2. Base \in Nat /\ two_to[0] = 1 /\ two_to[W] = Base
  BY <1>1, TwoTo DEF Base
<1>3. Base > 1
  <2>1. PICK n \in Nat : W = n + 1
    <3>1. W - 1 \in Nat /\ W = (W - 1) + 1
      BY <1>1
    <3> QED BY <3>1
  <2>2. two_to[n + 1] = 2 * two_to[n] /\ two_to[n] \in Nat \ {0}
    BY TwoTo
  <2> QED BY <2>1, <2>2, <1>2
<1>4. two_to[2 * W] = Base * Base
  <2>1. 2 * W = W + W
    BY <1>1
  <2> QED BY <1>1, <1>2, <2>1, PowerSum
<1>5. two_to[3 * W] = Base * Base * Base
  <2>1. 3 * W = 2 * W + W /\ 2 * W \in Nat
    BY <1>1
  <2> QED BY <1>1, <1>2, <1>4, <2>1, PowerSum
<1>6. Modulus = Base * Base * Base * Base
  <2>1. 4 * W = 3 * W + W /\ 3 * W \in Nat
    BY <1>1
  <2> QED BY <1>1, <1>2, <1>5, <2>1, PowerSum DEF Modulus
<1> QED BY <1>2, <1>3, <1>4, <1>5, <1>6

\* A number with one more limb.
LEMMA Bound ==
  ASSUME NEW B \in Nat, NEW s \in 0 .. B - 1, NEW m \in Nat, NEW x \in 0 .. m - 1
  PROVE  s + B * x \in 0 .. B * m - 1
<1>1. PICK y \in Nat : m = x + 1 + y
  <2>1. m - x - 1 \in Nat /\ m = x + 1 + (m - x - 1)
    OBVIOUS
  <2> QED BY <2>1
<1>2. B * m = B * x + B + B * y /\ B * y \in Nat /\ B * x \in Nat
  BY <1>1
<1> QED BY <1>2

\* The value of four limbs lies below the modulus; Value is Horner's rule.
LEMMA ValueType ==
  ASSUME NEW x \in UInt256
  PROVE  Value(x) \in 0 .. Modulus - 1
<1> DEFINE B == Base
<1>1. B \in Nat /\ B > 1 /\ Modulus = B * B * B * B
  BY Powers
<1>2. /\ x[0] \in 0 .. B - 1 /\ x[1] \in 0 .. B - 1
      /\ x[2] \in 0 .. B - 1 /\ x[3] \in 0 .. B - 1
  BY DEF UInt256, Limb
<1>3. Value(x) = x[0] + B * (x[1] + B * (x[2] + B * x[3]))
  BY DEF Value
<1> HIDE DEF B
<1>4. x[2] + B * x[3] \in 0 .. B * B - 1
  BY <1>1, <1>2, Bound
<1>5. x[1] + B * (x[2] + B * x[3]) \in 0 .. B * (B * B) - 1
  <2>1. B * B \in Nat
    BY <1>1
  <2> QED BY <1>1, <1>2, <1>4, <2>1, Bound
<1>6. Value(x) \in 0 .. B * (B * (B * B)) - 1
  <2>1. B * (B * B) \in Nat
    BY <1>1
  <2> QED BY <1>1, <1>2, <1>3, <1>5, <2>1, Bound
<1>7. B * (B * (B * B)) = B * B * B * B
  BY <1>1
<1> QED BY <1>1, <1>6, <1>7

-----------------------------------------------------------------------------
(***************************************************************************)
(* Addition and subtraction.                                               *)
(***************************************************************************)
\* The sum of one limb and the carry out of it, as the loop computes them.
LimbOf(l, r, c) == (l + r + c) % Base
CarryOf(l, r, c) == IF LimbOf(l, r, c) < l \/ LimbOf(l, r, c) < r THEN 1 ELSE 0

\* The loop of uint256_add, limb by limb.
LEMMA AddLimbs ==
  ASSUME NEW l \in UInt256, NEW r \in UInt256
  PROVE  \E c1, c2, c3 :
           /\ c1 = CarryOf(l[0], r[0], 0)
           /\ c2 = CarryOf(l[1], r[1], c1)
           /\ c3 = CarryOf(l[2], r[2], c2)
           /\ uint256_add(l, r)
                = [k \in 0 .. 3 |-> LimbOf(l[k], r[k], IF k = 0 THEN 0 ELSE IF k = 1 THEN c1
                                                       ELSE IF k = 2 THEN c2 ELSE c3)]
<1> DEFINE temp(k, carry) == (l[k] + r[k] + carry) % Base
           Is(f) == f = [k \in 0 .. 3 |->
                           IF k = 0 THEN 0
                           ELSE LET t == temp(k - 1, f[k - 1])
                                IN IF t < l[k - 1] \/ t < r[k - 1] THEN 1 ELSE 0]
           carry == CHOOSE f : Is(f)
           c1 == CarryOf(l[0], r[0], 0)
           c2 == CarryOf(l[1], r[1], c1)
           c3 == CarryOf(l[2], r[2], c2)
           g == [k \in 0 .. 3 |-> IF k = 0 THEN 0 ELSE IF k = 1 THEN c1
                                  ELSE IF k = 2 THEN c2 ELSE c3]
<1>1. uint256_add(l, r) = [k \in 0 .. 3 |-> temp(k, carry[k])]
  BY DEF uint256_add
<1>2. ASSUME NEW f
      PROVE  Is(f) <=> /\ f = [k \in 0 .. 3 |-> f[k]]
                       /\ f[0] = 0 /\ f[1] = CarryOf(l[0], r[0], f[0])
                       /\ f[2] = CarryOf(l[1], r[1], f[1])
                       /\ f[3] = CarryOf(l[2], r[2], f[2])
  BY DEF CarryOf, LimbOf
<1>3. Is(g)
  <2>1. /\ g[0] = 0 /\ g[1] = c1 /\ g[2] = c2 /\ g[3] = c3
        /\ g = [k \in 0 .. 3 |-> g[k]]
    OBVIOUS
  <2> HIDE DEF Is, g
  <2>2. g[1] = CarryOf(l[0], r[0], g[0]) /\ g[2] = CarryOf(l[1], r[1], g[1])
        /\ g[3] = CarryOf(l[2], r[2], g[2])
    BY <2>1
  <2> QED BY <1>2, <2>1, <2>2
<1>4. Is(carry)
  <2> HIDE DEF Is
  <2> QED BY <1>3
<1>5. carry[0] = 0 /\ carry[1] = c1 /\ carry[2] = c2 /\ carry[3] = c3
  <2> HIDE DEF Is, carry
  <2> QED BY <1>2, <1>4
<1>6. uint256_add(l, r)
        = [k \in 0 .. 3 |-> LimbOf(l[k], r[k], IF k = 0 THEN 0 ELSE IF k = 1 THEN c1
                                               ELSE IF k = 2 THEN c2 ELSE c3)]
  <2> HIDE DEF carry, c1, c2, c3
  <2>1. ASSUME NEW k \in 0 .. 3
        PROVE  temp(k, carry[k]) = LimbOf(l[k], r[k], IF k = 0 THEN 0 ELSE IF k = 1 THEN c1
                                                      ELSE IF k = 2 THEN c2 ELSE c3)
    BY <1>5 DEF LimbOf
  <2> HIDE DEF temp
  <2> QED BY <1>1, <2>1
<1> QED BY <1>6

\* The limbs l and r and the carry c give s and the carry o, and the carry d is lost.
LimbAdds(l, r, c, s, o, d) ==
  /\ s \in Limb /\ o \in 0 .. 1
  /\ l + r + c = s + Base * (o + d)
  /\ d = 1 <=> l = Base - 1 /\ r = Base - 1 /\ c = 1

\* The sum of two limbs is exact up to a lost carry.
LEMMA LimbIsAdded ==
  ASSUME NEW l \in Limb, NEW r \in Limb, NEW c \in 0 .. 1
  PROVE  \E d \in 0 .. 1 : LimbAdds(l, r, c, LimbOf(l, r, c), CarryOf(l, r, c), d)
<1> DEFINE B == Base
           s == LimbOf(l, r, c)
           o == CarryOf(l, r, c)
<1>1. B \in Nat /\ B > 1 /\ l \in 0 .. B - 1 /\ r \in 0 .. B - 1
  BY Powers DEF Limb
<1>3. /\ s \in 0 .. B - 1 /\ o \in 0 .. 1
      /\ l = B - 1 /\ r = B - 1 /\ c = 1 => s = B - 1 /\ o = 0
      /\ ~ (l = B - 1 /\ r = B - 1 /\ c = 1) => l + r + c = s + B * o
  <2> HIDE DEF B
  <2> QED BY <1>1, LimbSum DEF LimbOf, CarryOf, B
<1> HIDE DEF B, s, o
<1>4. CASE l = B - 1 /\ r = B - 1 /\ c = 1
  <2>1. l + r + c = s + B * (o + 1)
    <3>1. B * (0 + 1) = B
      BY <1>1
    <3> QED BY <1>1, <1>3, <1>4, <3>1
  <2> QED BY <1>3, <1>4, <2>1 DEF B, s, o, Limb, LimbAdds
<1>5. CASE ~ (l = B - 1 /\ r = B - 1 /\ c = 1)
  <2>1. o + 0 = o
    BY <1>3
  <2>2. l + r + c = s + B * (o + 0)
    BY <1>3, <1>5, <2>1
  <2> QED BY <1>3, <1>5, <2>2 DEF B, s, o, Limb, LimbAdds
<1> QED BY <1>4, <1>5

\* A number that is added to one below the modulus changes the remainder, unless it
\* is a multiple of the modulus.
LEMMA Remainder ==
  ASSUME NEW m \in Nat \ {0}, NEW v \in 0 .. m - 1, NEW g \in Nat, NEW h \in Nat, g < m
  PROVE  (v + g + m * h) % m = v <=> g = 0
<1> DEFINE a == v + g + m * h
           k == a \div m
<1>1. a \in Nat /\ k \in Nat /\ a = m * k + (a % m) /\ a = v + g + m * h
  <2>1. m * h \in Nat
    OBVIOUS
  <2> QED BY <2>1
<1>2. CASE g = 0
  <2>1. a = m * h + v
    BY <1>2, <1>1
  <2>2. v \in Nat /\ v < m
    OBVIOUS
  <2> HIDE DEF a
  <2>3. (m * h + v) % m = v
    BY <2>2, Division
  <2>4. a % m = v
    BY <2>1, <2>3
  <2> QED BY <1>2, <2>4 DEF a
<1>3. CASE g # 0
  <2> SUFFICES ASSUME a % m = v PROVE FALSE
    BY <1>3
  <2> HIDE DEF a, k
  <2>1. g + m * h = m * k
    BY <1>1
  <2>2. CASE k <= h
    <3>1. PICK z \in Nat : h = k + z
      BY <1>1, <2>2
    <3>2. m * h = m * k + m * z /\ m * z \in Nat /\ m * k \in Nat
      BY <1>1, <3>1
    <3> QED BY <1>3, <2>1, <3>2
  <2>3. CASE k > h
    <3>1. PICK z \in Nat : k = h + 1 + z
      BY <1>1, <2>3
    <3>2. m * k = m * h + m + m * z /\ m * z \in Nat /\ m * h \in Nat
      BY <1>1, <3>1
    <3> QED BY <2>1, <3>2
  <2> QED BY <1>1, <2>2, <2>3
<1> QED BY <1>2, <1>3

\* Where a number of four limbs is cut between two of them.
LEMMA Cut ==
  ASSUME NEW x \in UInt256
  PROVE  /\ x[0] \in Limb /\ x[1] \in Limb /\ x[2] \in Limb /\ x[3] \in Limb
         /\ Value(x) % Base = x[0]
         /\ Value(x) \div Base = x[1] + Base * (x[2] + Base * x[3])
         /\ Value(x) % (Base * Base) = x[0] + Base * x[1]
         /\ Value(x) \div (Base * Base) = x[2] + Base * x[3]
         /\ Value(x) \div (Base * Base * Base) = x[3]
<1> DEFINE B == Base
<1>1. B \in Nat \ {0} /\ B > 1
  BY Powers
<1>2. /\ x[0] \in 0 .. B - 1 /\ x[1] \in 0 .. B - 1
      /\ x[2] \in 0 .. B - 1 /\ x[3] \in 0 .. B - 1
  BY DEF UInt256, Limb
<1>3. Value(x) = x[0] + B * (x[1] + B * (x[2] + B * x[3]))
  BY DEF Value
<1> HIDE DEF B
<1>4. PICK a \in Nat, b \in Nat, c \in Nat, d \in Nat :
        /\ a = x[0] /\ b = x[1] /\ c = x[2] /\ d = x[3] /\ a < B /\ b < B /\ c < B /\ d < B
  BY <1>1, <1>2
<1>5. Value(x) = a + B * (b + B * (c + B * d))
  BY <1>3, <1>4
<1> DEFINE q1 == b + B * (c + B * d)
           q2 == c + B * d
           r2 == a + B * b
           r3 == a + B * (b + B * c)
<1>6. /\ q1 \in Nat /\ q2 \in Nat /\ r2 \in Nat /\ r3 \in Nat /\ B * B \in Nat \ {0}
      /\ B * B * B \in Nat \ {0}
  <2>1. B * d \in Nat
    BY <1>1
  <2>2. B * (c + B * d) \in Nat /\ B * c \in Nat /\ B * b \in Nat
    BY <1>1, <2>1
  <2>3. B * (b + B * c) \in Nat
    BY <1>1, <2>2
  <2>4. B * B \in Nat \ {0}
    BY <1>1
  <2>5. B * B * B \in Nat \ {0}
    <3>1. PICK e \in Nat \ {0} : e = B * B
      BY <2>4
    <3>2. e * B \in Nat \ {0}
      BY <1>1
    <3> QED BY <3>1, <3>2
  <2> QED BY <2>1, <2>2, <2>3, <2>4, <2>5
<1>7. Value(x) = B * q1 + a /\ Value(x) = (B * B) * q2 + r2 /\ Value(x) = (B * B * B) * d + r3
  <2>1. a + B * (b + B * (c + B * d)) = B * (b + B * (c + B * d)) + a
    BY <1>1
  <2>2. a + B * (b + B * (c + B * d)) = (B * B) * (c + B * d) + (a + B * b)
    BY <1>1
  <2>3. a + B * (b + B * (c + B * d)) = (B * B * B) * d + (a + B * (b + B * c))
    BY <1>1
  <2> QED BY <1>5, <2>1, <2>2, <2>3
<1>8. r2 < B * B /\ r3 < B * B * B
  <2>1. a \in 0 .. B - 1 /\ b \in 0 .. B - 1 /\ c \in 0 .. B - 1
    BY <1>1, <1>4
  <2>2. a + B * b \in 0 .. B * B - 1 /\ b + B * c \in 0 .. B * B - 1
    BY <1>1, <2>1, Bound
  <2>3. a + B * (b + B * c) \in 0 .. B * (B * B) - 1
    BY <1>1, <1>6, <2>1, <2>2, Bound
  <2>4. B * (B * B) = B * B * B
    BY <1>1
  <2>5. \A m \in Nat : \A n \in 0 .. m - 1 : n < m
    OBVIOUS
  <2>6. r2 < B * B
    BY <1>6, <2>2, <2>5, Zenon
  <2>7. r3 < B * (B * B)
    BY <1>6, <2>3, <2>4, <2>5, Zenon
  <2> QED BY <2>4, <2>6, <2>7
<1> HIDE DEF q1, q2, r2, r3
<1>9. (B * q1 + a) % B = a /\ (B * q1 + a) \div B = q1
  BY <1>1, <1>4, <1>6, Division
<1>10. ((B * B) * q2 + r2) % (B * B) = r2 /\ ((B * B) * q2 + r2) \div (B * B) = q2
  <2>1. PICK e \in Nat \ {0} : e = B * B
    BY <1>6
  <2>2. (e * q2 + r2) % e = r2 /\ (e * q2 + r2) \div e = q2
    BY <1>6, <1>8, <2>1, Division
  <2> QED BY <2>1, <2>2
<1>11. ((B * B * B) * d + r3) \div (B * B * B) = d
  <2>1. PICK e \in Nat \ {0} : e = B * B * B
    BY <1>6
  <2>2. (e * d + r3) \div e = d
    BY <1>6, <1>8, <2>1, Division
  <2> QED BY <2>1, <2>2
<1>12. /\ Value(x) % B = a /\ Value(x) \div B = q1
       /\ Value(x) % (B * B) = r2 /\ Value(x) \div (B * B) = q2
       /\ Value(x) \div (B * B * B) = d
  BY <1>7, <1>9, <1>10, <1>11
<1> QED BY <1>2, <1>4, <1>12 DEF q1, q2, r2, B, Limb

\* uint256_add is exact but for the carries out of the limbs 1 and 2 that it loses,
\* and for what leaves the four limbs.
LEMMA AddExact ==
  ASSUME NEW l \in UInt256, NEW r \in UInt256
  PROVE  /\ uint256_add(l, r) \in UInt256
         /\ \E d1 \in 0 .. 1, d2 \in 0 .. 1, h \in Nat :
              /\ Value(l) + Value(r)
                   = Value(uint256_add(l, r)) + Base * Base * (d1 + Base * d2) + Modulus * h
              /\ LosesCarry(l, r) <=> d1 = 1 \/ d2 = 1
<1> DEFINE B == Base
           s == uint256_add(l, r)
<1>1. PICK c1, c2, c3 :
        /\ c1 = CarryOf(l[0], r[0], 0)
        /\ c2 = CarryOf(l[1], r[1], c1)
        /\ c3 = CarryOf(l[2], r[2], c2)
        /\ s = [k \in 0 .. 3 |-> LimbOf(l[k], r[k], IF k = 0 THEN 0 ELSE IF k = 1 THEN c1
                                                    ELSE IF k = 2 THEN c2 ELSE c3)]
  BY AddLimbs
<1>2. /\ s[0] = LimbOf(l[0], r[0], 0) /\ s[1] = LimbOf(l[1], r[1], c1)
      /\ s[2] = LimbOf(l[2], r[2], c2) /\ s[3] = LimbOf(l[3], r[3], c3)
      /\ s = [k \in 0 .. 3 |-> s[k]]
  BY <1>1
<1> HIDE DEF s, B
<1>3. \A k \in 0 .. 3 : l[k] \in Limb /\ r[k] \in Limb
  BY DEF UInt256
<1>4. PICK d0 \in 0 .. 1 : LimbAdds(l[0], r[0], 0, s[0], c1, d0)
  <2>1. 0 \in 0 .. 1
    OBVIOUS
  <2> QED BY <1>1, <1>2, <1>3, <2>1, LimbIsAdded
<1>5. PICK d1 \in 0 .. 1 : LimbAdds(l[1], r[1], c1, s[1], c2, d1)
  <2>1. c1 \in 0 .. 1
    BY <1>4 DEF LimbAdds
  <2> QED BY <1>1, <1>2, <1>3, <2>1, LimbIsAdded
<1>6. PICK d2 \in 0 .. 1 : LimbAdds(l[2], r[2], c2, s[2], c3, d2)
  <2>1. c2 \in 0 .. 1
    BY <1>5 DEF LimbAdds
  <2> QED BY <1>1, <1>2, <1>3, <2>1, LimbIsAdded
<1>7. PICK c4, d3 \in 0 .. 1 : LimbAdds(l[3], r[3], c3, s[3], c4, d3)
  <2>1. c3 \in 0 .. 1
    BY <1>6 DEF LimbAdds
  <2>2. CarryOf(l[3], r[3], c3) \in 0 .. 1
    BY <1>3, <2>1, LimbIsAdded DEF LimbAdds
  <2> QED BY <1>2, <1>3, <2>1, <2>2, LimbIsAdded
<1>8. s \in UInt256
  <2>1. \A k \in 0 .. 3 : s[k] \in Limb
    BY <1>4, <1>5, <1>6, <1>7 DEF LimbAdds
  <2> QED BY <1>2, <2>1 DEF UInt256
<1>9. B \in Nat /\ B > 1 /\ Limb = 0 .. B - 1 /\ Modulus = B * B * B * B
  BY Powers DEF B, Limb
<1>10. l[0] + r[0] + 0 = s[0] + B * (c1 + 0) /\ d0 = 0 /\ s[0] \in Limb /\ c1 \in 0 .. 1
  <2>1. 0 # 1
    OBVIOUS
  <2>2. d0 # 1
    BY <1>4, <2>1 DEF LimbAdds
  <2>3. d0 = 0
    BY <2>2
  <2> QED BY <1>4, <2>3 DEF LimbAdds, B
<1>11. /\ l[1] + r[1] + c1 = s[1] + B * (c2 + d1) /\ s[1] \in Limb /\ c2 \in 0 .. 1
       /\ l[2] + r[2] + c2 = s[2] + B * (c3 + d2) /\ s[2] \in Limb /\ c3 \in 0 .. 1
       /\ l[3] + r[3] + c3 = s[3] + B * (c4 + d3) /\ s[3] \in Limb /\ c4 + d3 \in Nat
       /\ d1 = 1 <=> l[1] = B - 1 /\ r[1] = B - 1 /\ c1 = 1
       /\ d2 = 1 <=> l[2] = B - 1 /\ r[2] = B - 1 /\ c2 = 1
  <2>1. c4 + d3 \in Nat
    BY <1>7 DEF LimbAdds
  <2> QED BY <1>5, <1>6, <1>7, <2>1, Zenon DEF LimbAdds, B
<1>12. \A n \in Limb : n \in Nat /\ n < B
  BY <1>9
<1>13. Value(l) + Value(r) = Value(s) + B * B * (d1 + B * d2) + Modulus * (c4 + d3)
  <2>1. /\ l[0] \in Nat /\ l[1] \in Nat /\ l[2] \in Nat /\ l[3] \in Nat
        /\ r[0] \in Nat /\ r[1] \in Nat /\ r[2] \in Nat /\ r[3] \in Nat
        /\ s[0] \in Nat /\ s[1] \in Nat /\ s[2] \in Nat /\ s[3] \in Nat
        /\ c1 \in Nat /\ c2 \in Nat /\ c3 \in Nat /\ d1 \in Nat /\ d2 \in Nat
    BY <1>3, <1>10, <1>11, <1>12
  <2>2. PICK e0, e1, e2, e3, f0, f1, f2, f3, g0, g1, g2, g3, h \in Nat :
           /\ e0 = l[0] /\ e1 = l[1] /\ e2 = l[2] /\ e3 = l[3]
           /\ f0 = r[0] /\ f1 = r[1] /\ f2 = r[2] /\ f3 = r[3]
           /\ g0 = s[0] /\ g1 = s[1] /\ g2 = s[2] /\ g3 = s[3] /\ h = c4 + d3
    BY <2>1, <1>11
  <2>3. /\ e0 + f0 + 0 = g0 + B * (c1 + 0) /\ e1 + f1 + c1 = g1 + B * (c2 + d1)
        /\ e2 + f2 + c2 = g2 + B * (c3 + d2) /\ e3 + f3 + c3 = g3 + B * h
    BY <1>10, <1>11, <2>2
  <2>4. (e0 + B * (e1 + B * (e2 + B * e3))) + (f0 + B * (f1 + B * (f2 + B * f3)))
           = (g0 + B * (g1 + B * (g2 + B * g3))) + B * B * (d1 + B * d2) + B * B * B * B * h
    <3>1. B \in Nat /\ c1 \in Nat /\ c2 \in Nat /\ c3 \in Nat /\ d1 \in Nat /\ d2 \in Nat
      BY <1>9, <2>1
    <3> QED BY <2>3, <3>1, FourLimbs
  <2> QED BY <1>9, <2>2, <2>4 DEF Value, B
<1>14. CarryInto(1, l, r) <=> c1 = 1
  <2>1. 1 * W = W
    BY WidthAssumption
  <2>2. CarryInto(1, l, r) <=> l[0] + r[0] >= B
    BY <2>1, Powers, Cut DEF CarryInto, B
  <2>3. PICK e, f, g \in Nat : e = l[0] /\ f = r[0] /\ g = s[0] /\ g < B
    BY <1>3, <1>10, <1>12
  <2>4. e + f + 0 = g + B * (c1 + 0)
    BY <1>10, <2>3
  <2>5. e + f >= B <=> c1 = 1
    <3>1. CASE c1 = 0
      BY <1>9, <2>3, <2>4, <3>1
    <3>2. CASE c1 = 1
      BY <1>9, <2>3, <2>4, <3>2
    <3> QED BY <1>10, <3>1, <3>2
  <2> QED BY <2>2, <2>3, <2>5
<1>15. CarryInto(2, l, r) <=> c2 + d1 >= 1
  <2>1. CarryInto(2, l, r) <=> (l[0] + B * l[1]) + (r[0] + B * r[1]) >= B * B
    BY Powers, Cut DEF CarryInto, B
  <2>2. PICK e0, e1, f0, f1, g0, g1 \in Nat :
           /\ e0 = l[0] /\ e1 = l[1] /\ f0 = r[0] /\ f1 = r[1] /\ g0 = s[0] /\ g1 = s[1]
           /\ g0 < B /\ g1 < B
    <3>1. /\ l[0] \in Nat /\ l[1] \in Nat /\ r[0] \in Nat /\ r[1] \in Nat
          /\ s[0] \in Nat /\ s[1] \in Nat /\ s[0] < B /\ s[1] < B
      BY <1>3, <1>10, <1>11, <1>12
    <3> QED BY <3>1
  <2>3. PICK o \in Nat : o = c2 + d1
    BY <1>11
  <2>4. (e0 + B * e1) + (f0 + B * f1) = (g0 + B * g1) + B * B * o
    <3>1. e1 + f1 + c1 = g1 + B * (c2 + d1) /\ e0 + f0 + 0 = g0 + B * (c1 + 0)
      BY <1>10, <1>11, <2>2
    <3>2. PICK z \in Nat : z = e1 + f1 + c1
      BY <1>10
    <3>3. (e0 + B * e1) + (f0 + B * f1) + 0 = g0 + B * (z + 0)
      <4>1. B \in Nat /\ c1 \in Nat
        BY <1>9, <1>10
      <4> QED BY <3>1, <3>2, <4>1, OneLimb
    <3>4. z + 0 = g1 + B * o
      BY <2>3, <3>1, <3>2
    <3>5. B * (g1 + B * o) = B * g1 + B * B * o
      BY <1>9
    <3>6. B * e1 \in Nat /\ B * f1 \in Nat /\ B * g1 \in Nat /\ B * B * o \in Nat
      BY <1>9
    <3> QED BY <3>3, <3>4, <3>5, <3>6
  <2>5. g0 + B * g1 \in 0 .. B * B - 1
    <3>1. g0 \in 0 .. B - 1 /\ g1 \in 0 .. B - 1
      BY <1>9, <2>2
    <3> QED BY <1>9, <3>1, Bound
  <2>6. (e0 + B * e1) + (f0 + B * f1) >= B * B <=> o >= 1
    <3>1. PICK m \in Nat, t \in Nat : m = B * B /\ t = g0 + B * g1 /\ t < m
      <4>1. B * B \in Nat
        BY <1>9
      <4> QED BY <2>5, <4>1
    <3>2. CASE o = 0
      BY <2>4, <3>1, <3>2
    <3>3. CASE o >= 1
      <4>1. PICK y \in Nat : o = 1 + y
        BY <3>3
      <4>2. m * o = m + m * y /\ m * y \in Nat
        BY <4>1
      <4> QED BY <2>4, <3>1, <3>3, <4>2
    <3> QED BY <3>2, <3>3
  <2> QED BY <2>1, <2>2, <2>3, <2>6
<1>16. LosesCarry(l, r) <=> d1 = 1 \/ d2 = 1
  <2>1. LosesCarry(l, r) <=> \/ l[1] = B - 1 /\ r[1] = B - 1 /\ CarryInto(1, l, r)
                             \/ l[2] = B - 1 /\ r[2] = B - 1 /\ CarryInto(2, l, r)
    BY DEF LosesCarry, B
  <2>2. CASE d1 = 1
    BY <1>11, <1>14, <2>1, <2>2
  <2>3. CASE d1 = 0
    <3>1. CarryInto(2, l, r) <=> c2 = 1
      BY <1>11, <1>15, <2>3
    <3> QED BY <1>11, <1>14, <2>1, <2>3, <3>1
  <2> QED BY <2>2, <2>3
<1> QED
  <2>1. c4 + d3 \in Nat
    BY <1>11
  <2> QED BY <1>8, <1>13, <1>16, <2>1 DEF s, B

\* The sum of two numbers, modulo 2 ^ (4 * W), where no carry is lost, and only there.
LEMMA AddIsRight ==
  ASSUME NEW l \in UInt256, NEW r \in UInt256
  PROVE  /\ uint256_add(l, r) \in UInt256
         /\ Value(uint256_add(l, r)) = (Value(l) + Value(r)) % Modulus <=> ~ LosesCarry(l, r)
<1>1. PICK d1 \in 0 .. 1, d2 \in 0 .. 1, h \in Nat :
        /\ Value(l) + Value(r)
             = Value(uint256_add(l, r)) + Base * Base * (d1 + Base * d2) + Modulus * h
        /\ LosesCarry(l, r) <=> d1 = 1 \/ d2 = 1
  BY AddExact
<1>2. uint256_add(l, r) \in UInt256
  BY AddExact
<1>3. PICK v \in 0 .. Modulus - 1 : v = Value(uint256_add(l, r))
  BY <1>2, ValueType
<1> DEFINE B == Base
<1>4. B \in Nat /\ B > 1 /\ Modulus = B * B * B * B
  BY Powers
<1>5. PICK g \in Nat : g = B * B * (d1 + B * d2)
  <2>1. d1 + B * d2 \in Nat
    BY <1>4
  <2>2. PICK e \in Nat : e = d1 + B * d2
    BY <2>1
  <2>3. B * B * e \in Nat
    BY <1>4
  <2> QED BY <2>2, <2>3
<1> HIDE DEF B
<1>6. g < Modulus
  <2>1. d1 + B * d2 <= 1 + B /\ d1 + B * d2 \in Nat
    <3>1. d2 = 0 \/ d2 = 1
      OBVIOUS
    <3> QED BY <1>4, <3>1
  <2>2. 1 + B < B * B
    <3>1. PICK y \in Nat : B = y + 2
      <4>1. B - 2 \in Nat /\ B = (B - 2) + 2
        BY <1>4
      <4> QED BY <4>1
    <3>2. (y + 2) * (y + 2) = y * y + 4 * y + 4 /\ y * y \in Nat
      OBVIOUS
    <3> QED BY <3>1, <3>2
  <2>3. PICK e \in Nat, m \in Nat : e = d1 + B * d2 /\ m = B * B /\ e < m
    <3>1. B * B \in Nat
      BY <1>4
    <3> QED BY <1>4, <2>1, <2>2, <3>1
  <2>4. m * e < m * m
    <3>1. 0 \in 0 .. m - 1 /\ e \in 0 .. m - 1
      BY <2>3
    <3>2. 0 + m * e \in 0 .. m * m - 1
      BY <3>1, Bound
    <3>3. m * e \in Nat /\ m * m \in Nat
      OBVIOUS
    <3> QED BY <3>2, <3>3
  <2>5. m * m = B * B * B * B
    BY <1>4, <2>3
  <2> QED BY <1>4, <1>5, <2>3, <2>4, <2>5
<1>7. g = 0 <=> ~ (d1 = 1 \/ d2 = 1)
  <2>1. CASE d1 = 0 /\ d2 = 0
    BY <1>4, <1>5, <2>1
  <2>2. CASE d1 = 1 \/ d2 = 1
    <3>1. PICK e \in Nat, m \in Nat : e = d1 + B * d2 /\ m = B * B /\ e >= 1 /\ m >= 1
      <4>1. d1 + B * d2 \in Nat /\ B * B \in Nat /\ d1 + B * d2 >= 1 /\ B * B >= 1
        BY <1>4, <2>2
      <4> QED BY <4>1
    <3>2. m * e # 0
      BY <3>1
    <3> QED BY <1>5, <2>2, <3>1, <3>2
  <2> QED BY <2>1, <2>2
<1>8. Modulus \in Nat \ {0}
  BY <1>4, <1>6
<1>9. (v + g + Modulus * h) % Modulus = v <=> g = 0
  BY <1>6, <1>8, Remainder
<1>10. Value(l) + Value(r) = v + g + Modulus * h
  BY <1>1, <1>3, <1>5 DEF B
<1> QED BY <1>1, <1>2, <1>3, <1>7, <1>9, <1>10

\* The limbs of a number are the digits of its value to the base of a limb.
LEMMA LimbsOf ==
  ASSUME NEW x \in UInt256
  PROVE  x = [k \in 0 .. 3 |-> shr(Value(x), k * W) % Base]
<1>1. x = [k \in 0 .. 3 |-> x[k]]
  BY DEF UInt256
<1>2. ASSUME NEW k \in 0 .. 3
      PROVE  shr(Value(x), k * W) % Base = x[k]
  <2>0. /\ Base \in Nat \ {0} /\ W \in Nat
        /\ Value(x) \in Nat /\ x[0] \in 0 .. Base - 1 /\ x[1] \in 0 .. Base - 1
        /\ x[2] \in 0 .. Base - 1 /\ x[3] \in 0 .. Base - 1
    BY WidthAssumption, Powers, Cut, ValueType DEF Limb
  <2>a. PICK B \in Nat \ {0}, a, b, c, d \in Nat :
           /\ B = Base /\ a = x[0] /\ b = x[1] /\ c = x[2] /\ d = x[3]
           /\ a < B /\ b < B /\ c < B /\ d < B
    BY <2>0
  <2>1. CASE k = 0
    <3>1. 0 * W = 0 /\ two_to[0] = 1 /\ Value(x) \div 1 = Value(x)
      BY <2>0, Powers
    <3>2. Value(x) % Base = x[0]
      BY Cut
    <3> QED BY <2>1, <3>1, <3>2 DEF shr
  <2>2. CASE k = 1
    <3>1. 1 * W = W /\ two_to[W] = Base
      BY <2>0, Powers
    <3>2. Value(x) \div Base = x[1] + Base * (x[2] + Base * x[3])
      BY Cut
    <3>3. (B * (c + B * d) + b) % B = b
      <4>1. c + B * d \in Nat
        BY <2>a
      <4> QED BY <2>a, <4>1, Division
    <3>4. B * (c + B * d) + b = b + B * (c + B * d)
      BY <2>a
    <3> QED BY <2>2, <2>a, <3>1, <3>2, <3>3, <3>4 DEF shr
  <2>3. CASE k = 2
    <3>1. Value(x) \div two_to[2 * W] = x[2] + Base * x[3]
      BY Cut, Powers
    <3>2. (B * d + c) % B = c
      BY <2>a, Division
    <3>3. B * d + c = c + B * d
      BY <2>a
    <3> QED BY <2>3, <2>a, <3>1, <3>2, <3>3 DEF shr
  <2>4. CASE k = 3
    <3>1. Value(x) \div two_to[3 * W] = x[3]
      BY Cut, Powers
    <3>2. (B * 0 + d) % B = d
      BY <2>a, Division
    <3>3. B * 0 + d = d
      BY <2>a
    <3> QED BY <2>4, <2>a, <3>1, <3>2, <3>3 DEF shr
  <2> QED BY <2>1, <2>2, <2>3, <2>4
<1> HIDE DEF shr
<1> QED BY <1>1, <1>2

\* The two's complement of a number, as uint256_sub computes it.
LEMMA NegativeIs ==
  ASSUME NEW r \in UInt256
  PROVE  /\ uint256_add(Complement(r), uint256_create_from_u64(1)) = Negative(r)
         /\ Negative(r) \in UInt256
         /\ Value(Negative(r)) = (Modulus - Value(r)) % Modulus
<1> DEFINE B == Base
           c == Complement(r)
           one == uint256_create_from_u64(1)
           n == uint256_add(c, one)
<1>1. B \in Nat /\ B > 1 /\ Limb = 0 .. B - 1 /\ Modulus = B * B * B * B
  BY Powers DEF Limb
<1>2. /\ c \in UInt256 /\ c[0] = B - 1 - r[0] /\ c[1] = B - 1 - r[1]
      /\ c[2] = B - 1 - r[2] /\ c[3] = B - 1 - r[3]
  <2>1. \A k \in 0 .. 3 : r[k] \in Limb
    BY DEF UInt256
  <2>2. \A k \in 0 .. 3 : B - 1 - r[k] \in Limb
    BY <1>1, <2>1
  <2> QED BY <2>2 DEF Complement, UInt256
<1>3. one \in UInt256 /\ one[0] = 1 /\ one[1] = 0 /\ one[2] = 0 /\ one[3] = 0
  <2>1. one = [k \in 0 .. 3 |-> <<1, 0, 0, 0>>[k + 1]]
    BY DEF uint256_create_from_u64, uint256_create
  <2>2. one[0] = 1 /\ one[1] = 0 /\ one[2] = 0 /\ one[3] = 0
    BY <2>1
  <2>3. 0 \in Limb /\ 1 \in Limb
    BY <1>1
  <2>4. \A k \in 0 .. 3 : one[k] \in Limb
    BY <2>2, <2>3
  <2> HIDE DEF one
  <2>5. one = [k \in 0 .. 3 |-> one[k]]
    BY <2>1
  <2> QED BY <2>2, <2>4, <2>5 DEF UInt256
<1> HIDE DEF B, c, one
<1>4. Value(r) + (Value(c) + Value(one)) = Modulus
  <2>1. PICK e0, e1, e2, e3 \in Nat : e0 = r[0] /\ e1 = r[1] /\ e2 = r[2] /\ e3 = r[3]
    BY <1>1, Cut
  <2>2. Value(c) = (B - 1 - e0) + B * ((B - 1 - e1) + B * ((B - 1 - e2) + B * (B - 1 - e3)))
    BY <1>2, <2>1 DEF Value, B
  <2>3. Value(r) = e0 + B * (e1 + B * (e2 + B * e3))
    BY <2>1 DEF Value, B
  <2>4. Value(one) = 1
    <3>1. 1 + B * (0 + B * (0 + B * 0)) = 1
      BY <1>1
    <3> QED BY <1>3, <3>1 DEF Value, B
  <2>5. (B - 1 - e0) + B * ((B - 1 - e1) + B * ((B - 1 - e2) + B * (B - 1 - e3))) + 1
          + (e0 + B * (e1 + B * (e2 + B * e3))) = B * B * B * B
    BY <1>1
  <2>6. Value(c) \in Nat /\ Value(r) \in Nat
    BY <1>2, ValueType
  <2> QED BY <1>1, <2>2, <2>3, <2>4, <2>5, <2>6
<1>5. ~ LosesCarry(c, one)
  <2>1. 0 # B - 1
    BY <1>1
  <2> QED BY <1>3, <2>1 DEF LosesCarry, B
<1>6. n \in UInt256 /\ Value(n) = (Value(c) + Value(one)) % Modulus
  BY <1>2, <1>3, <1>5, AddIsRight
<1>7. Value(n) = (Modulus - Value(r)) % Modulus
  <2>1. Value(c) + Value(one) = Modulus - Value(r)
    <3>1. Value(c) \in Int /\ Value(one) \in Int /\ Value(r) \in Int /\ Modulus \in Int
      BY <1>2, <1>3, <1>4, ValueType
    <3> QED BY <1>4, <3>1
  <2> QED BY <1>6, <2>1
<1> HIDE DEF n
<1>8. n = Negative(r)
  BY <1>6, <1>7, LimbsOf DEF Negative
<1> QED BY <1>6, <1>7, <1>8 DEF n, c, one

\* The difference of two numbers, modulo 2 ^ (4 * W), where no carry is lost, and only
\* there.
LEMMA SubIsRight ==
  ASSUME NEW l \in UInt256, NEW r \in UInt256
  PROVE  Value(uint256_sub(l, r)) = (Value(l) + Modulus - Value(r)) % Modulus
           <=> ~ LosesCarry(l, Negative(r))
<1>1. uint256_sub(l, r) = uint256_add(l, Negative(r))
  BY NegativeIs DEF uint256_sub
<1>2. Value(uint256_sub(l, r)) = (Value(l) + Value(Negative(r))) % Modulus
        <=> ~ LosesCarry(l, Negative(r))
  BY <1>1, NegativeIs, AddIsRight
<1>3. (Value(l) + Value(Negative(r))) % Modulus = (Value(l) + Modulus - Value(r)) % Modulus
  <2>1. PICK m \in Nat \ {0}, v, w \in Nat :
           m = Modulus /\ v = Value(l) /\ w = Value(r) /\ v < m /\ w < m
    <3>1. Value(l) \in 0 .. Modulus - 1 /\ Value(r) \in 0 .. Modulus - 1
      BY ValueType
    <3>2. Modulus \in Nat
      BY Powers
    <3>3. Modulus \in Nat \ {0}
      BY <3>1, <3>2
    <3> QED BY <3>1, <3>3
  <2>2. Value(Negative(r)) = (m - w) % m
    BY <2>1, NegativeIs
  <2>3. CASE w = 0
    <3>1. (m * 1 + 0) % m = 0 /\ (m * 1 + v) % m = v /\ (m * 0 + v) % m = v
      <4>1. 1 \in Nat /\ 0 \in Nat /\ 0 < m
        BY <2>1
      <4> QED BY <2>1, <4>1, Division, Zenon
    <3>2. m * 1 + 0 = m - w /\ m * 1 + v = v + m - w /\ m * 0 + v = v + 0
      BY <2>3
    <3>3. (m - w) % m = 0
      BY <3>1, <3>2
    <3> QED BY <2>1, <2>2, <3>1, <3>2, <3>3
  <2>4. CASE w # 0
    <3>1. PICK z \in Nat : z = m - w /\ z < m
      <4>1. m - w \in Nat /\ m - w < m
        BY <2>1, <2>4
      <4> QED BY <4>1
    <3>2. (m * 0 + z) % m = z
      BY <3>1, Division
    <3>3. m * 0 + z = m - w
      BY <3>1
    <3>4. (m - w) % m = m - w
      BY <3>1, <3>2, <3>3
    <3>5. v + (m - w) = v + m - w
      OBVIOUS
    <3> QED BY <2>1, <2>2, <3>4, <3>5
  <2> QED BY <2>3, <2>4
<1> QED BY <1>2, <1>3

-----------------------------------------------------------------------------
(***************************************************************************)
(* Shifting.                                                               *)
(***************************************************************************)
\* The powers of two that shift within a limb.
LEMMA ShiftPowers ==
  ASSUME NEW n \in 0 .. W
  PROVE  /\ two_to[n] \in Nat \ {0} /\ two_to[W - n] \in Nat \ {0}
         /\ two_to[n] * two_to[W - n] = Base
<1>1. W \in Nat /\ n \in Nat /\ W - n \in Nat /\ n + (W - n) = W
  BY WidthAssumption
<1>2. two_to[n] \in Nat \ {0} /\ two_to[W - n] \in Nat \ {0}
  BY <1>1, TwoTo
<1>3. two_to[n + (W - n)] = two_to[n] * two_to[W - n]
  BY <1>1, PowerSum
<1> QED BY <1>1, <1>2, <1>3, Powers

\* A limb that is shifted left: what stays in it, and what goes into the next limb.
LEMMA ShiftedLimb ==
  ASSUME NEW p \in Nat \ {0}, NEW o \in Nat \ {0}, NEW v \in 0 .. p * o - 1
  PROVE  /\ v \div o \in 0 .. p - 1
         /\ (v * p) % (p * o) = p * (v % o) /\ v % o \in 0 .. o - 1
         /\ v * p = p * o * (v \div o) + p * (v % o)
         /\ p * (v % o) \in Nat /\ p * (v % o) + (p - 1) < p * o
<1>1. PICK h, u \in Nat : h = v \div o /\ u = v % o /\ v = o * h + u /\ u < o
  BY DivisionIs
<1>2. h < p
  <2> SUFFICES ASSUME h >= p PROVE FALSE
    BY <1>1
  <2>1. PICK y \in Nat : h = p + y
    BY <1>1
  <2>2. o * h = p * o + o * y /\ o * y \in Nat /\ p * o \in Nat
    BY <2>1
  <2> QED BY <1>1, <2>2
<1>3. v * p = p * o * h + p * u
  <2>1. (o * h + u) * p = p * o * h + p * u
    OBVIOUS
  <2> QED BY <1>1, <2>1
<1>4. p * u + (p - 1) < p * o /\ p * u \in Nat /\ p * o \in Nat \ {0}
  <2>1. PICK y \in Nat : o = u + 1 + y
    <3>1. o - u - 1 \in Nat /\ o = u + 1 + (o - u - 1)
      BY <1>1
    <3> QED BY <3>1
  <2>2. p * o = p * u + p + p * y /\ p * y \in Nat /\ p * u \in Nat
    BY <2>1
  <2> QED BY <2>2
<1>5. (v * p) % (p * o) = p * u
  <2>1. PICK m \in Nat \ {0}, w \in Nat : m = p * o /\ w = p * u /\ w < m
    BY <1>4
  <2>2. (m * h + w) % m = w
    BY <2>1, Division
  <2> QED BY <1>3, <2>1, <2>2
<1> QED BY <1>1, <1>2, <1>3, <1>4, <1>5


\* A number shifted by n places, limb by limb: what is left in a limb, and the next.
Left(x, j, n) == (x[j] * two_to[n]) % Base
Out(x, j, n) == IF n = 0 THEN 0 ELSE x[j] \div two_to[W - n]

\* Nothing of a limb is lost.
LEMMA LimbShifts ==
  ASSUME NEW x \in UInt256, NEW j \in 0 .. 3, NEW n \in 0 .. W - 1
  PROVE  /\ Left(x, j, n) \in Nat /\ Out(x, j, n) \in Nat
         /\ x[j] * two_to[n] = Left(x, j, n) + Base * Out(x, j, n)
         /\ Out(x, j, n) <= two_to[n] - 1
         /\ Left(x, j, n) + (two_to[n] - 1) < Base
<1>1. W \in Nat /\ n \in 0 .. W /\ n \in Nat
  BY WidthAssumption
<1>2. PICK p, o \in Nat \ {0} : p = two_to[n] /\ o = two_to[W - n] /\ p * o = Base
  BY <1>1, ShiftPowers
<1>3. PICK v \in Nat : v = x[j] /\ v < Base
  <2>1. x[j] \in 0 .. Base - 1 /\ Base \in Nat
    BY Powers DEF UInt256, Limb
  <2> QED BY <2>1
<1>4. v \in 0 .. p * o - 1
  BY <1>2, <1>3, Powers
<1>5. PICK h, w \in Nat : /\ h = v \div o /\ h <= p - 1
                          /\ w = (v * p) % (p * o) /\ v * p = p * o * h + w
                          /\ w + (p - 1) < p * o
  <2>1. v \div o \in Nat /\ v \div o <= p - 1
    <3>1. v \div o \in 0 .. p - 1
      BY <1>4, ShiftedLimb
    <3> QED BY <3>1
  <2> QED BY <1>4, <2>1, ShiftedLimb
<1>6. Left(x, j, n) = w
  BY <1>2, <1>3, <1>5 DEF Left
<1>7. CASE n # 0
  <2>1. Out(x, j, n) = h
    BY <1>2, <1>3, <1>5, <1>7 DEF Out
  <2>2. p * o * h + w = w + p * o * h
    OBVIOUS
  <2> QED BY <1>2, <1>3, <1>5, <1>6, <2>1, <2>2
<1>8. CASE n = 0
  <2>1. p = 1 /\ Out(x, j, n) = 0
    BY <1>2, <1>8, Powers DEF Out
  <2>2. h = 0
    BY <1>5, <2>1
  <2> QED BY <1>2, <1>3, <1>5, <1>6, <2>1, <2>2
<1> QED BY <1>7, <1>8


\* Limb k of a number shifted by q whole limbs and n places.
Shifted(x, q, n, k) == IF k < q THEN 0
                       ELSE Left(x, k - q, n) + IF k = q THEN 0 ELSE Out(x, k - q - 1, n)

\* A limb has room for what is left in it and for what comes from the one below.
LEMMA ShiftedType ==
  ASSUME NEW x \in UInt256, NEW q \in 0 .. 3, NEW n \in 0 .. W - 1, NEW k \in 0 .. 3
  PROVE  Shifted(x, q, n, k) \in Limb
<1>1. Base \in Nat /\ Base > 1 /\ Limb = 0 .. Base - 1
  BY Powers DEF Limb
<1>2. CASE k < q
  BY <1>1, <1>2 DEF Shifted
<1>3. CASE k >= q
  <2>1. k - q \in 0 .. 3
    BY <1>3
  <2>2. PICK p \in Nat : p = two_to[n]
    <3>1. n \in Nat
      BY WidthAssumption
    <3> QED BY <3>1, TwoTo
  <2>3. Left(x, k - q, n) \in Nat /\ Left(x, k - q, n) + (p - 1) < Base /\ p >= 1
    <3>1. Left(x, k - q, n) \in Nat /\ Left(x, k - q, n) + (p - 1) < Base
      BY <2>1, <2>2, LimbShifts
    <3>2. n \in Nat
      BY WidthAssumption
    <3>3. p # 0
      BY <2>2, <3>2, TwoTo
    <3> QED BY <3>1, <3>3
  <2>4. CASE k = q
    BY <1>1, <2>3, <2>4 DEF Shifted
  <2>5. CASE k # q
    <3>1. k - q - 1 \in 0 .. 3
      BY <1>3, <2>5
    <3>2. Out(x, k - q - 1, n) \in Nat /\ Out(x, k - q - 1, n) <= p - 1
      BY <2>2, <3>1, LimbShifts
    <3>3. Shifted(x, q, n, k) = Left(x, k - q, n) + Out(x, k - q - 1, n)
      BY <1>3, <2>5 DEF Shifted
    <3> QED BY <1>1, <2>3, <3>2, <3>3
  <2> QED BY <2>4, <2>5
<1> QED BY <1>2, <1>3

\* Where the bits of uint256_leftshift go.
LEMMA ShiftLimbs ==
  ASSUME NEW x \in UInt256, NEW i0 \in 0 .. 4 * W - 1
  PROVE  /\ i0 \div W \in 0 .. 3 /\ i0 % W \in 0 .. W - 1
         /\ uint256_leftshift(x, i0)
              = [k \in 0 .. 3 |-> Shifted(x, i0 \div W, i0 % W, k)]
<1>0. W \in Nat \ {0} /\ i0 \in Nat
  BY WidthAssumption
<1>1. PICK q, n \in Nat : q = i0 \div W /\ n = i0 % W /\ n < W /\ i0 = W * q + n
  BY <1>0, DivisionIs
<1>2. q \in 0 .. 3
  <2> SUFFICES ASSUME q >= 4 PROVE FALSE
    BY <1>1
  <2>1. PICK y \in Nat : q = 4 + y
    <3>1. q - 4 \in Nat /\ q = 4 + (q - 4)
      OBVIOUS
    <3> QED BY <3>1
  <2>2. W * q = 4 * W + W * y /\ W * y \in Nat
    BY <1>0, <2>1
  <2> QED BY <1>0, <1>1, <2>2
<1>3. n \in 0 .. W - 1
  BY <1>0, <1>1
<1>4. Base \in Nat /\ Base > 1 /\ Limb = 0 .. Base - 1
  BY Powers DEF Limb
<1>5. \A k \in 0 .. 3 : x[k] \in Limb
  BY DEF UInt256
<1>6. ASSUME NEW v \in Limb
      PROVE  v % Base = v
  <2>1. (Base * 0 + v) % Base = v
    BY <1>4, <1>6, Division
  <2>2. Base * 0 + v = v
    BY <1>4, <1>6
  <2> QED BY <2>1, <2>2
<1>7. CASE i0 > 3 * W
  <2>1. q = 3 /\ n = i0 - 3 * W /\ n # 0 /\ 4 * W - i0 = W - n
    <3>1. q = 3
      <4> SUFFICES ASSUME q <= 2 PROVE FALSE
        BY <1>2
      <4>1. q = 0 \/ q = 1 \/ q = 2
        BY <1>2
      <4> QED BY <1>0, <1>1, <1>7, <4>1
    <3> QED BY <1>0, <1>1, <1>7, <3>1
  <2> DEFINE top == shl(x[0] % two_to[4 * W - i0], i0 - 3 * W)
  <2>2. uint256_leftshift(x, i0) = uint256_create(<<0, 0, 0, top>>)
    BY <1>7 DEF uint256_leftshift
  <2>3. top = Left(x, 0, n)
    <3>1. top = ((x[0] % two_to[W - n]) * two_to[n]) % Base
      BY <2>1 DEF shl
    <3>2. PICK p, o \in Nat \ {0} : p = two_to[n] /\ o = two_to[W - n] /\ p * o = Base
      <4>1. n \in 0 .. W
        BY <1>0, <1>1
      <4> QED BY <4>1, ShiftPowers
    <3>3. PICK v \in Nat : v = x[0] /\ v \in 0 .. p * o - 1
      BY <1>4, <1>5, <3>2
    <3>4. (v * p) % (p * o) = p * (v % o)
      BY <3>3, ShiftedLimb
    <3>5. PICK u \in Nat : u = v % o /\ p * u + (p - 1) < p * o
      <4>1. v % o \in Nat
        BY DivisionIs
      <4> QED BY <3>3, <4>1, ShiftedLimb
    <3>6. u * p \in Limb
      <4>1. u * p \in Nat /\ u * p = p * u /\ p >= 1
        OBVIOUS
      <4> QED BY <1>4, <3>2, <3>5, <4>1, SMTT(30)
    <3>7. (u * p) % Base = u * p
      BY <1>6, <3>6
    <3>8. u * p = p * u
      OBVIOUS
    <3> QED BY <3>1, <3>2, <3>3, <3>4, <3>5, <3>7, <3>8 DEF Left
  <2> HIDE DEF top
  <2>4. /\ Shifted(x, 3, n, 0) = 0 /\ Shifted(x, 3, n, 1) = 0 /\ Shifted(x, 3, n, 2) = 0
        /\ Shifted(x, 3, n, 3) = top
    <3>1. top \in Nat
      BY <1>3, <2>3, LimbShifts
    <3> QED BY <2>3, <3>1 DEF Shifted
  <2>5. uint256_create(<<0, 0, 0, top>>) = [k \in 0 .. 3 |-> Shifted(x, 3, n, k)]
    BY <2>4 DEF uint256_create
  <2> QED BY <1>1, <1>2, <1>3, <2>1, <2>2, <2>5
<1>8. CASE i0 = 3 * W
  <2>1. q = 3 /\ n = 0
    <3>1. (W * 3 + 0) % W = 0 /\ (W * 3 + 0) \div W = 3
      <4>1. 3 \in Nat /\ 0 \in Nat /\ 0 < W
        BY <1>0
      <4> QED BY <1>0, <4>1, Division, Zenon
    <3>2. W * 3 + 0 = i0
      BY <1>0, <1>8
    <3> QED BY <1>1, <3>1, <3>2
  <2>2. uint256_leftshift(x, i0) = uint256_create(<<0, 0, 0, x[0]>>)
    <3>1. ~ (i0 > 3 * W)
      BY <1>0, <1>8
    <3> QED BY <1>8, <3>1 DEF uint256_leftshift
  <2>3. x[0] \in Nat /\ Left(x, 0, 0) = x[0]
    <3>1. x[0] \in Limb /\ x[0] \in Nat
      BY <1>4, <1>5
    <3>2. x[0] * 1 = x[0] /\ two_to[0] = 1
      BY <3>1, Powers
    <3> QED BY <1>6, <3>1, <3>2 DEF Left
  <2>4. /\ Shifted(x, 3, 0, 0) = 0 /\ Shifted(x, 3, 0, 1) = 0 /\ Shifted(x, 3, 0, 2) = 0
        /\ Shifted(x, 3, 0, 3) = x[0]
    BY <2>3 DEF Shifted
  <2>5. uint256_create(<<0, 0, 0, x[0]>>) = [k \in 0 .. 3 |-> Shifted(x, 3, 0, k)]
    BY <2>4 DEF uint256_create
  <2> QED BY <1>1, <1>2, <1>3, <2>1, <2>2, <2>5
<1>9. CASE i0 < 3 * W
  <2>1. ~ (i0 > 3 * W) /\ ~ (i0 = 3 * W)
    BY <1>0, <1>9
  <2> DEFINE in(k) == IF n = 0 \/ k = q THEN 0 ELSE shr(x[k - q - 1], W - n)
  <2>2. uint256_leftshift(x, i0)
          = [k \in 0 .. 3 |-> IF k < q THEN 0 ELSE (shl(x[k - q], n) + in(k)) % Base]
    BY <1>1, <2>1 DEF uint256_leftshift
  <2>3. ASSUME NEW k \in 0 .. 3
        PROVE  Shifted(x, q, n, k) = IF k < q THEN 0 ELSE (shl(x[k - q], n) + in(k)) % Base
    <3>1. in(k) = IF k = q THEN 0 ELSE Out(x, k - q - 1, n)
      BY DEF Out, shr
    <3>2. CASE k < q
      BY <3>2 DEF Shifted
    <3>3. CASE ~ (k < q)
      <4>1. shl(x[k - q], n) = Left(x, k - q, n)
        BY DEF shl, Left
      <4>2. Shifted(x, q, n, k) = shl(x[k - q], n) + in(k)
        BY <3>1, <3>3, <4>1 DEF Shifted
      <4>3. Shifted(x, q, n, k) \in Limb
        BY <1>2, <1>3, ShiftedType
      <4> QED BY <1>6, <3>3, <4>2, <4>3
    <3> QED BY <3>2, <3>3
  <2> HIDE DEF in, shl
  <2>4. uint256_leftshift(x, i0) = [k \in 0 .. 3 |-> Shifted(x, q, n, k)]
    BY <2>2, <2>3
  <2> QED BY <1>1, <1>2, <1>3, <2>4
<1> QED BY <1>0, <1>7, <1>8, <1>9

\* Four limbs, multiplied.
LEMMA FourTimes ==
  ASSUME NEW B \in Nat, NEW p \in Nat,
         NEW x0 \in Nat, NEW x1 \in Nat, NEW x2 \in Nat, NEW x3 \in Nat,
         NEW w0 \in Nat, NEW w1 \in Nat, NEW w2 \in Nat, NEW w3 \in Nat,
         NEW h0 \in Nat, NEW h1 \in Nat, NEW h2 \in Nat, NEW h3 \in Nat,
         x0 * p = w0 + B * h0, x1 * p = w1 + B * h1,
         x2 * p = w2 + B * h2, x3 * p = w3 + B * h3
  PROVE  (x0 + B * (x1 + B * (x2 + B * x3))) * p
           = w0 + B * ((w1 + h0) + B * ((w2 + h1) + B * ((w3 + h2) + B * h3)))
<1>1. ASSUME NEW a \in Nat, NEW w \in Nat, NEW h \in Nat, a * p = w + B * h, NEW b \in Nat,
             NEW y \in Nat, b * p = y
      PROVE  (a + B * b) * p = w + B * (h + y) /\ a + B * b \in Nat /\ w + B * (h + y) \in Nat
  <2>1. (a + B * b) * p = a * p + B * (b * p)
    OBVIOUS
  <2>2. B * (h + y) = B * h + B * y /\ B * h \in Nat /\ B * y \in Nat /\ B * b \in Nat
    OBVIOUS
  <2> QED BY <1>1, <2>1, <2>2
<1>2. PICK y3 \in Nat : y3 = w3 + B * h3
  <2>1. B * h3 \in Nat
    OBVIOUS
  <2> QED BY <2>1
<1>3. PICK b2, y2 \in Nat : b2 = x2 + B * x3 /\ y2 = w2 + B * (h2 + y3) /\ b2 * p = y2
  BY <1>1, <1>2
<1>4. PICK b1, y1 \in Nat : b1 = x1 + B * b2 /\ y1 = w1 + B * (h1 + y2) /\ b1 * p = y1
  BY <1>1, <1>3
<1>5. (x0 + B * b1) * p = w0 + B * (h0 + y1)
  BY <1>1, <1>4
<1>6. w0 + B * (h0 + (w1 + B * (h1 + (w2 + B * (h2 + (w3 + B * h3))))))
        = w0 + B * ((w1 + h0) + B * ((w2 + h1) + B * ((w3 + h2) + B * h3)))
  OBVIOUS
<1> QED BY <1>2, <1>3, <1>4, <1>5, <1>6

\* uint256_leftshift multiplies by a power of two, modulo 2 ^ (4 * W).
LEMMA ShiftIsRight ==
  ASSUME NEW x \in UInt256, NEW i0 \in 0 .. 4 * W - 1
  PROVE  /\ uint256_leftshift(x, i0) \in UInt256
         /\ Value(uint256_leftshift(x, i0)) = (Value(x) * two_to[i0]) % Modulus
<1> DEFINE s == uint256_leftshift(x, i0)
<1>0. W \in Nat \ {0} /\ i0 \in Nat
  BY WidthAssumption
<1>1. PICK q \in 0 .. 3, n \in 0 .. W - 1 :
         /\ i0 = W * q + n
         /\ s = [k \in 0 .. 3 |-> Shifted(x, q, n, k)]
  <2>1. i0 = W * (i0 \div W) + (i0 % W)
    BY <1>0, DivisionIs
  <2> QED BY <2>1, ShiftLimbs
<1> HIDE DEF s
<1>2. s \in UInt256
  BY <1>1, ShiftedType DEF UInt256
<1>3. PICK B \in Nat : B = Base /\ B > 1 /\ Modulus = B * B * B * B
  BY Powers
<1>4. PICK p \in Nat : p = two_to[n]
  <2>1. n \in Nat
    BY <1>0
  <2> QED BY <2>1, TwoTo
<1>5. PICK x0, x1, x2, x3 \in Nat : x0 = x[0] /\ x1 = x[1] /\ x2 = x[2] /\ x3 = x[3]
  <2>1. \A k \in Limb : k \in Nat
    BY <1>3 DEF Limb
  <2> QED BY <2>1, Cut
<1>a. 0 \in 0 .. 3 /\ 1 \in 0 .. 3 /\ 2 \in 0 .. 3 /\ 3 \in 0 .. 3
  OBVIOUS
<1>b. PICK w0, h0 \in Nat : /\ w0 = Left(x, 0, n) /\ h0 = Out(x, 0, n)
                            /\ x0 * p = w0 + B * h0
  BY <1>3, <1>4, <1>5, <1>a, LimbShifts
<1>c. PICK w1, h1 \in Nat : /\ w1 = Left(x, 1, n) /\ h1 = Out(x, 1, n)
                            /\ x1 * p = w1 + B * h1
  BY <1>3, <1>4, <1>5, <1>a, LimbShifts
<1>d. PICK w2, h2 \in Nat : /\ w2 = Left(x, 2, n) /\ h2 = Out(x, 2, n)
                            /\ x2 * p = w2 + B * h2
  BY <1>3, <1>4, <1>5, <1>a, LimbShifts
<1>e. PICK w3, h3 \in Nat : /\ w3 = Left(x, 3, n) /\ h3 = Out(x, 3, n)
                            /\ x3 * p = w3 + B * h3
  BY <1>3, <1>4, <1>5, <1>a, LimbShifts
<1>6. /\ w0 = Left(x, 0, n) /\ w1 = Left(x, 1, n) /\ w2 = Left(x, 2, n) /\ w3 = Left(x, 3, n)
      /\ h0 = Out(x, 0, n) /\ h1 = Out(x, 1, n) /\ h2 = Out(x, 2, n) /\ h3 = Out(x, 3, n)
      /\ x0 * p = w0 + B * h0 /\ x1 * p = w1 + B * h1
      /\ x2 * p = w2 + B * h2 /\ x3 * p = w3 + B * h3
  BY <1>b, <1>c, <1>d, <1>e
<1>7. PICK a1, a2, a3, v \in Nat :
         /\ a1 = w1 + h0 /\ a2 = w2 + h1 /\ a3 = w3 + h2 /\ v = Value(x) * p
         /\ v = w0 + B * (a1 + B * (a2 + B * (a3 + B * h3)))
  <2>1. (x0 + B * (x1 + B * (x2 + B * x3))) * p
           = w0 + B * ((w1 + h0) + B * ((w2 + h1) + B * ((w3 + h2) + B * h3)))
    <3>1. /\ x0 * p = w0 + B * h0 /\ x1 * p = w1 + B * h1
          /\ x2 * p = w2 + B * h2 /\ x3 * p = w3 + B * h3
      BY <1>6
    <3> QED BY <3>1, FourTimes
  <2>2. Value(x) = x0 + B * (x1 + B * (x2 + B * x3)) /\ Value(x) \in Nat
    BY <1>3, <1>5, ValueType DEF Value
  <2>3. PICK u \in Nat : u = Value(x)
    BY <2>2
  <2>4. u * p \in Nat
    OBVIOUS
  <2>5. w1 + h0 \in Nat /\ w2 + h1 \in Nat /\ w3 + h2 \in Nat
    OBVIOUS
  <2> QED BY <2>1, <2>2, <2>3, <2>4, <2>5
<1>8. /\ \A k \in 0 .. 3 : s[k] = Shifted(x, q, n, k)
      /\ Value(s) = s[0] + B * (s[1] + B * (s[2] + B * s[3]))
  BY <1>1, <1>3 DEF Value
<1>9. two_to[i0] = two_to[W * q] * p
  <2>1. W * q \in Nat /\ n \in Nat
    BY <1>0
  <2> QED BY <1>1, <1>4, <2>1, PowerSum
<1>10. \E y \in Nat : Value(x) * two_to[i0] = Value(s) + Modulus * y
  <2>0. PICK u \in Nat : u = Value(x)
    BY ValueType, <1>3
  \* What leaves the four limbs is a multiple of the modulus.
  <2>5. v = w0 + B * (a1 + B * (a2 + B * (a3 + B * h3)))
    BY <1>7
  <2>6. /\ \E y \in Nat :
              v = (w0 + B * (a1 + B * (a2 + B * a3))) + B * B * B * B * y
        /\ \E y \in Nat :
              v * B = (0 + B * (w0 + B * (a1 + B * a2))) + B * B * B * B * y
        /\ \E y \in Nat :
              v * (B * B) = (0 + B * (0 + B * (w0 + B * a1))) + B * B * B * B * y
        /\ \E y \in Nat :
              v * (B * B * B) = (0 + B * (0 + B * (0 + B * w0))) + B * B * B * B * y
    <3>1. PICK y3 \in Nat : y3 = a3 + B * h3
      <4>1. B * h3 \in Nat
        OBVIOUS
      <4> QED BY <4>1
    <3>2. PICK y2 \in Nat : y2 = a2 + B * y3
      <4>1. B * y3 \in Nat
        OBVIOUS
      <4> QED BY <4>1
    <3>3. PICK y1 \in Nat : y1 = a1 + B * y2
      <4>1. B * y2 \in Nat
        OBVIOUS
      <4> QED BY <4>1
    <3>4. v = w0 + B * y1
      BY <2>5, <3>1, <3>2, <3>3
    <3>5. v = (w0 + B * (a1 + B * (a2 + B * a3))) + B * B * B * B * h3
      <4>1. w0 + B * (a1 + B * (a2 + B * (a3 + B * h3)))
              = (w0 + B * (a1 + B * (a2 + B * a3))) + B * B * B * B * h3
        OBVIOUS
      <4> QED BY <2>5, <4>1
    <3>6. v * B = (0 + B * (w0 + B * (a1 + B * a2))) + B * B * B * B * y3
      <4>1. (w0 + B * (a1 + B * (a2 + B * y3))) * B
              = (0 + B * (w0 + B * (a1 + B * a2))) + B * B * B * B * y3
        OBVIOUS
      <4> QED BY <3>2, <3>3, <3>4, <4>1
    <3>7. v * (B * B) = (0 + B * (0 + B * (w0 + B * a1))) + B * B * B * B * y2
      <4>1. (w0 + B * (a1 + B * y2)) * (B * B)
              = (0 + B * (0 + B * (w0 + B * a1))) + B * B * B * B * y2
        OBVIOUS
      <4> QED BY <3>3, <3>4, <4>1
    <3>8. v * (B * B * B) = (0 + B * (0 + B * (0 + B * w0))) + B * B * B * B * y1
      <4>1. (w0 + B * y1) * (B * B * B) = (0 + B * (0 + B * (0 + B * w0))) + B * B * B * B * y1
        OBVIOUS
      <4> QED BY <3>4, <4>1
    <3> QED BY <3>5, <3>6, <3>7, <3>8
  <2>1. CASE q = 0
    <3>1. s[0] = w0 /\ s[1] = a1 /\ s[2] = a2 /\ s[3] = a3
      BY <1>6, <1>7, <1>8, <2>1 DEF Shifted
    <3>2. two_to[i0] = p
      <4>1. W * 0 = 0
        BY <1>0
      <4> QED BY <1>9, <2>1, <4>1, Powers
    <3>3. \E y \in Nat : v = (w0 + B * (a1 + B * (a2 + B * a3))) + B * B * B * B * y
      BY <2>6
    <3>4. Value(s) = w0 + B * (a1 + B * (a2 + B * a3)) /\ v = Value(x) * two_to[i0]
      BY <1>7, <1>8, <3>1, <3>2
    <3> QED BY <1>3, <3>3, <3>4
  <2>2. CASE q = 1
    <3>1. s[0] = 0 /\ s[1] = w0 /\ s[2] = a1 /\ s[3] = a2
      BY <1>6, <1>7, <1>8, <2>2 DEF Shifted
    <3>2. two_to[i0] = B * p
      <4>1. W * 1 = W
        BY <1>0
      <4> QED BY <1>3, <1>9, <2>2, <4>1, Powers
    <3>3. \E y \in Nat : v * B = (0 + B * (w0 + B * (a1 + B * a2))) + B * B * B * B * y
      BY <2>6
    <3>4. u * (B * p) = (u * p) * B
      OBVIOUS
    <3> QED BY <1>3, <1>7, <1>8, <2>0, <3>1, <3>2, <3>3, <3>4
  <2>3. CASE q = 2
    <3>1. s[0] = 0 /\ s[1] = 0 /\ s[2] = w0 /\ s[3] = a1
      BY <1>6, <1>7, <1>8, <2>3 DEF Shifted
    <3>2. two_to[i0] = (B * B) * p
      <4>1. W * 2 = 2 * W
        BY <1>0
      <4> QED BY <1>3, <1>9, <2>3, <4>1, Powers
    <3>3. \E y \in Nat : v * (B * B) = (0 + B * (0 + B * (w0 + B * a1))) + B * B * B * B * y
      BY <2>6
    <3>4. u * ((B * B) * p) = (u * p) * (B * B)
      OBVIOUS
    <3> QED BY <1>3, <1>7, <1>8, <2>0, <3>1, <3>2, <3>3, <3>4
  <2>4. CASE q = 3
    <3>1. s[0] = 0 /\ s[1] = 0 /\ s[2] = 0 /\ s[3] = w0
      BY <1>6, <1>7, <1>8, <2>4 DEF Shifted
    <3>2. two_to[i0] = (B * B * B) * p
      <4>1. W * 3 = 3 * W
        BY <1>0
      <4> QED BY <1>3, <1>9, <2>4, <4>1, Powers
    <3>3. \E y \in Nat : v * (B * B * B) = (0 + B * (0 + B * (0 + B * w0))) + B * B * B * B * y
      BY <2>6
    <3>4. u * ((B * B * B) * p) = (u * p) * (B * B * B)
      OBVIOUS
    <3> QED BY <1>3, <1>7, <1>8, <2>0, <3>1, <3>2, <3>3, <3>4
  <2> QED BY <2>1, <2>2, <2>3, <2>4
<1>11. PICK y \in Nat : Value(x) * two_to[i0] = Value(s) + Modulus * y
  BY <1>10
<1>12. PICK m \in Nat \ {0}, t \in Nat : m = Modulus /\ t = Value(s) /\ t < m
  <2>1. Value(s) \in 0 .. Modulus - 1 /\ Modulus \in Nat
    BY <1>2, ValueType, Powers
  <2> QED BY <2>1
<1>13. (m * y + t) % m = t /\ m * y + t = t + m * y
  <2>1. t < m
    BY <1>12
  <2>2. (m * y + t) % m = t
    BY <2>1, Division
  <2> QED BY <2>2
<1> QED BY <1>2, <1>11, <1>12, <1>13 DEF s

-----------------------------------------------------------------------------
(***************************************************************************)
(* Multiplication.                                                         *)
(***************************************************************************)
\* No carry is lost in a sum that has room in two limbs.
LEMMA SmallAdd ==
  ASSUME NEW l \in UInt256, NEW r \in UInt256, Value(l) + Value(r) < Base * Base
  PROVE  Value(uint256_add(l, r)) = Value(l) + Value(r)
<1>1. PICK B \in Nat : B = Base /\ B > 1 /\ Modulus = B * B * B * B
  BY Powers
<1>2. PICK e0, e1, e2, e3 \in Nat :
        /\ e0 = l[0] /\ e1 = l[1] /\ e2 = l[2] /\ e3 = l[3]
        /\ Value(l) = e0 + B * (e1 + B * (e2 + B * e3))
  <2>1. \A k \in Limb : k \in Nat
    BY <1>1 DEF Limb
  <2> QED BY <1>1, <2>1, Cut DEF Value
<1>3. PICK f0, f1, f2, f3 \in Nat :
        /\ f0 = r[0] /\ f1 = r[1] /\ f2 = r[2] /\ f3 = r[3]
        /\ Value(r) = f0 + B * (f1 + B * (f2 + B * f3))
  <2>1. \A k \in Limb : k \in Nat
    BY <1>1 DEF Limb
  <2> QED BY <1>1, <2>1, Cut DEF Value
<1>4. PICK a, b \in Nat : a = Value(l) /\ b = Value(r) /\ a + b < B * B
  <2>1. Value(l) \in Nat /\ Value(r) \in Nat
    BY <1>1, ValueType
  <2> QED BY <1>1, <2>1
<1>5. ~ (l[2] = B - 1)
  <2> SUFFICES ASSUME e2 = B - 1 PROVE FALSE
    BY <1>2
  <2>1. e0 + B * (e1 + B * (e2 + B * e3)) = e0 + B * e1 + B * B * e2 + B * B * B * e3
    OBVIOUS
  <2>2. PICK y \in Nat : B = y + 2
    <3>1. B - 2 \in Nat /\ B = (B - 2) + 2
      BY <1>1
    <3> QED BY <3>1
  <2>3. PICK m \in Nat : m = B * B
    <3>1. B * B \in Nat
      OBVIOUS
    <3> QED BY <3>1
  <2>4. m * e2 = m + m * y /\ m * y \in Nat
    <3>1. e2 = 1 + y
      BY <2>2
    <3> QED BY <3>1
  <2>5. B * e1 \in Nat /\ B * B * B * e3 \in Nat
    <3>1. B * B * B \in Nat
      BY <2>3
    <3> QED BY <3>1
  <2>6. PICK u, v \in Nat : u = B * e1 /\ v = B * B * B * e3
    BY <2>5
  <2>7. a = e0 + u + m * e2 + v
    BY <1>2, <1>4, <2>1, <2>3, <2>6
  <2>8. a >= m
    BY <2>4, <2>7
  <2> QED BY <1>4, <2>3, <2>8
<1>6. ~ (l[1] = B - 1 /\ r[1] = B - 1 /\ CarryInto(1, l, r))
  <2> SUFFICES ASSUME e1 = B - 1, f1 = B - 1, CarryInto(1, l, r) PROVE FALSE
    BY <1>2, <1>3
  <2>1. e0 + f0 >= B
    <3>1. 1 * W = W
      BY WidthAssumption
    <3>2. CarryInto(1, l, r) <=> l[0] + r[0] >= B
      BY <1>1, <3>1, Powers, Cut DEF CarryInto
    <3> QED BY <1>2, <1>3, <3>2
  <2>2. PICK g, h \in Nat : a = e0 + B * e1 + B * g /\ b = f0 + B * f1 + B * h
    <3>1. B * (e2 + B * e3) \in Nat /\ B * (f2 + B * f3) \in Nat
      <4>1. B * e3 \in Nat /\ B * f3 \in Nat
        OBVIOUS
      <4>2. PICK u, v \in Nat : u = B * e3 /\ v = B * f3
        BY <4>1
      <4>3. B * (e2 + u) \in Nat /\ B * (f2 + v) \in Nat
        OBVIOUS
      <4> QED BY <4>2, <4>3
    <3>2. PICK g, h \in Nat : g = B * (e2 + B * e3) /\ h = B * (f2 + B * f3)
      BY <3>1
    <3>3. B * (e1 + g) = B * e1 + B * g /\ B * (f1 + h) = B * f1 + B * h
      OBVIOUS
    <3>4. B * e1 \in Nat /\ B * g \in Nat /\ B * f1 \in Nat /\ B * h \in Nat
      OBVIOUS
    <3>5. a = e0 + B * (e1 + g) /\ b = f0 + B * (f1 + h)
      BY <1>2, <1>3, <1>4, <3>2
    <3>6. a = e0 + B * e1 + B * g /\ b = f0 + B * f1 + B * h
      BY <3>3, <3>4, <3>5
    <3> QED BY <3>6
  <2>3. PICK y \in Nat : B = y + 2 /\ e1 = y + 1 /\ f1 = y + 1
    <3>1. B - 2 \in Nat /\ B = (B - 2) + 2
      BY <1>1
    <3> QED BY <3>1
  <2>4. (y + 2) * (y + 1) = y * y + 3 * y + 2 /\ (y + 2) * (y + 2) = y * y + 4 * y + 4
        /\ y * y \in Nat
    OBVIOUS
  <2>5. B * g \in Nat /\ B * h \in Nat
    OBVIOUS
  <2>6. a + b >= B * B
    BY <2>1, <2>2, <2>3, <2>4, <2>5
  <2> QED BY <1>4, <2>6
<1>7. ~ LosesCarry(l, r)
  BY <1>1, <1>5, <1>6 DEF LosesCarry
<1>8. Value(uint256_add(l, r)) = (a + b) % Modulus
  BY <1>4, <1>7, AddIsRight
<1>9. PICK m \in Nat : m = Modulus /\ a + b < m
  <2>1. PICK e \in Nat : e = B * B /\ e >= 1
    <3>1. B * B \in Nat /\ B * B >= 1
      BY <1>1
    <3> QED BY <3>1
  <2>2. e * e >= e /\ e * e \in Nat
    <3>1. PICK y \in Nat : e = y + 1
      <4>1. e - 1 \in Nat /\ e = (e - 1) + 1
        BY <2>1
      <4> QED BY <4>1
    <3>2. (y + 1) * (y + 1) = y * y + y + (y + 1) /\ y * y \in Nat
      OBVIOUS
    <3> QED BY <3>1, <3>2
  <2>3. e * e = B * B * B * B
    BY <2>1
  <2> QED BY <1>1, <1>4, <2>1, <2>2, <2>3
<1>10. (m * 0 + (a + b)) % m = a + b /\ m * 0 + (a + b) = a + b
  <2>1. m \in Nat \ {0} /\ 0 \in Nat /\ a + b \in Nat
    BY <1>9
  <2>2. (m * 0 + (a + b)) % m = a + b
    BY <1>9, <2>1, Division, Zenon
  <2> QED BY <2>2
<1> QED BY <1>4, <1>8, <1>9, <1>10

\* Division by a product.
LEMMA TwoDivisions ==
  ASSUME NEW e \in Nat \ {0}, NEW p \in Nat \ {0}, NEW a \in Nat
  PROVE  a \div (e * p) = (a \div e) \div p
<1>1. PICK y, w \in Nat : y = a \div e /\ a = e * y + w /\ w < e
  BY DivisionIs
<1>2. PICK z, u \in Nat : z = y \div p /\ y = p * z + u /\ u < p
  BY DivisionIs
<1>3. a = (e * p) * z + (e * u + w)
  <2>1. e * (p * z + u) + w = (e * p) * z + (e * u + w)
    OBVIOUS
  <2> QED BY <1>1, <1>2, <2>1
<1>4. PICK m \in Nat \ {0}, t \in Nat : m = e * p /\ t = e * u + w /\ t < m
  <2>1. PICK k \in Nat : p = u + 1 + k
    <3>1. p - u - 1 \in Nat /\ p = u + 1 + (p - u - 1)
      BY <1>2
    <3> QED BY <3>1
  <2>2. e * p = e * u + e + e * k /\ e * k \in Nat /\ e * u \in Nat
    BY <2>1
  <2>3. e * p \in Nat \ {0}
    OBVIOUS
  <2> QED BY <1>1, <2>2, <2>3
<1>5. (m * z + t) \div m = z
  <2>1. t < m
    BY <1>4
  <2> QED BY <2>1, Division
<1> QED BY <1>1, <1>2, <1>3, <1>4, <1>5

\* uint256_bit_is_set looks at one binary digit of the number.
LEMMA BitIs ==
  ASSUME NEW x \in UInt256, NEW i0 \in 0 .. 4 * W - 1
  PROVE  uint256_bit_is_set(x, i0) <=> (Value(x) \div two_to[i0]) % 2 = 1
<1>0. W \in Nat \ {0} /\ i0 \in Nat
  BY WidthAssumption
<1>1. PICK q \in 0 .. 3, n \in 0 .. W - 1 : q = i0 \div W /\ n = i0 % W /\ i0 = W * q + n
  <2>1. i0 = W * (i0 \div W) + (i0 % W)
    BY <1>0, DivisionIs
  <2> QED BY <2>1, ShiftLimbs
<1>2. uint256_bit_is_set(x, i0) <=> (x[q] \div two_to[n]) % 2 = 1
  <2>1. q < 4
    OBVIOUS
  <2> QED BY <1>1, <2>1 DEF uint256_bit_is_set, shr
<1>3. PICK p \in Nat \ {0}, o \in Nat : p = two_to[n] /\ Base = p * (2 * o)
  <2>1. n \in 0 .. W /\ n \in Nat /\ W - n - 1 \in Nat /\ W - n = (W - n - 1) + 1
    BY <1>0
  <2>2. two_to[W - n] = 2 * two_to[W - n - 1] /\ two_to[W - n - 1] \in Nat
    <3>1. two_to[(W - n - 1) + 1] = 2 * two_to[W - n - 1] /\ two_to[W - n - 1] \in Nat
      BY <2>1, TwoTo
    <3> QED BY <2>1, <3>1
  <2>3. two_to[n] \in Nat \ {0} /\ two_to[n] * two_to[W - n] = Base
    BY <2>1, ShiftPowers
  <2> QED BY <2>2, <2>3
<1>4. PICK a \in Nat : a = Value(x)
  BY ValueType, Powers
<1>5. PICK e \in Nat \ {0} : e = two_to[W * q]
  <2>1. W * q \in Nat
    BY <1>0
  <2> QED BY <2>1, TwoTo
<1>6. two_to[i0] = e * p
  <2>1. W * q \in Nat /\ n \in Nat
    BY <1>0
  <2>2. two_to[W * q + n] = two_to[W * q] * two_to[n]
    BY <2>1, PowerSum
  <2> QED BY <1>1, <1>3, <1>5, <2>2
<1>7. a \div two_to[i0] = (a \div e) \div p
  BY <1>3, <1>6, TwoDivisions
<1>8. \E v, y \in Nat : v = x[q] /\ a \div e = v + Base * y
  <2>1. /\ x[0] \in Nat /\ x[1] \in Nat /\ x[2] \in Nat /\ x[3] \in Nat /\ Base \in Nat
    BY Cut, Powers DEF Limb
  <2>2. PICK B, x1, x2, x3 \in Nat : B = Base /\ x1 = x[1] /\ x2 = x[2] /\ x3 = x[3]
    BY <2>1
  <2>3. PICK y2 \in Nat : y2 = x2 + B * x3
    <3>1. B * x3 \in Nat
      OBVIOUS
    <3> QED BY <3>1
  <2>4. PICK y1 \in Nat : y1 = x1 + B * y2
    <3>1. B * y2 \in Nat
      OBVIOUS
    <3> QED BY <3>1
  <2>5. CASE q = 0
    <3>1. W * 0 = 0 /\ a \div 1 = a
      BY <1>0
    <3>2. a = x[0] + Base * y1
      BY <1>4, <2>2, <2>3, <2>4 DEF Value
    <3> QED BY <1>5, <2>1, <2>5, <3>1, <3>2, Powers
  <2>6. CASE q = 1
    <3>1. W * 1 = W
      BY <1>0
    <3>2. a \div Base = x[1] + Base * y2
      BY <1>4, <2>2, <2>3, Cut
    <3> QED BY <1>5, <2>1, <2>6, <3>1, <3>2, Powers
  <2>7. CASE q = 2
    <3>1. W * 2 = 2 * W
      BY <1>0
    <3>2. a \div (Base * Base) = x[2] + Base * x3
      BY <1>4, <2>2, Cut
    <3> QED BY <1>5, <2>1, <2>7, <3>1, <3>2, Powers
  <2>8. CASE q = 3
    <3>1. W * 3 = 3 * W
      BY <1>0
    <3>2. a \div (Base * Base * Base) = x[3] + Base * 0
      <4>1. x[3] + Base * 0 = x[3]
        BY <2>1
      <4> QED BY <1>4, <4>1, Cut
    <3> QED BY <1>5, <2>1, <2>8, <3>1, <3>2, Powers
  <2> QED BY <2>5, <2>6, <2>7, <2>8
<1>9. PICK v, y \in Nat : v = x[q] /\ a \div e = v + (p * (2 * o)) * y
  BY <1>3, <1>8
\* What lies above the limb adds an even number, and leaves the lowest bit alone.
<1>10. ((v + (p * (2 * o)) * y) \div p) % 2 = (v \div p) % 2
  <2>1. PICK h, u \in Nat : h = v \div p /\ v = p * h + u /\ u < p
    <3>1. v \div p \in Nat /\ v % p \in 0 .. p - 1 /\ v = p * (v \div p) + (v % p)
      BY DivisionIs
    <3> QED BY <3>1
  <2>2. PICK k, b \in Nat : k = h \div 2 /\ b = h % 2 /\ h = 2 * k + b /\ b < 2
    OBVIOUS
  <2>3. PICK z \in Nat : z = o * y
    <3>1. o * y \in Nat
      OBVIOUS
    <3> QED BY <3>1
  <2>4. v + (p * (2 * o)) * y = p * (2 * (k + z) + b) + u
    <3>1. (p * (2 * k + b) + u) + (p * (2 * o)) * y = p * (2 * (k + o * y) + b) + u
      OBVIOUS
    <3> QED BY <2>1, <2>2, <2>3, <3>1
  <2>5. PICK t \in Nat : t = 2 * (k + z) + b
    OBVIOUS
  <2>6. (p * t + u) \div p = t
    <3>1. u < p
      BY <2>1
    <3> QED BY <3>1, Division
  <2>7. (2 * (k + z) + b) % 2 = b
    BY <2>2
  <2> QED BY <2>1, <2>2, <2>4, <2>5, <2>6, <2>7
<1> QED BY <1>2, <1>3, <1>4, <1>7, <1>9, <1>10

\* One more digit of a number.
LEMMA OneDigit ==
  ASSUME NEW x \in Nat, NEW t \in Nat \ {0}
  PROVE  x % (2 * t) = (x % t) + t * ((x \div t) % 2)
<1>1. PICK d, e \in Nat : d = x \div t /\ e = x % t /\ x = t * d + e /\ e < t
  <2>1. x \div t \in Nat /\ x % t \in 0 .. t - 1 /\ x = t * (x \div t) + (x % t)
    BY DivisionIs
  <2> QED BY <2>1
<1>2. PICK k, b \in Nat : b = d % 2 /\ d = 2 * k + b /\ b < 2
  <2>1. d \div 2 \in Nat /\ d % 2 \in Nat /\ d = 2 * (d \div 2) + (d % 2) /\ d % 2 < 2
    OBVIOUS
  <2> QED BY <2>1
<1>3. x = (2 * t) * k + (e + t * b)
  <2>1. t * (2 * k + b) + e = (2 * t) * k + (e + t * b)
    OBVIOUS
  <2> QED BY <1>1, <1>2, <2>1
<1>4. PICK m \in Nat \ {0}, r \in Nat : m = 2 * t /\ r = e + t * b /\ r < m
  <2>1. b = 0 \/ b = 1
    BY <1>2
  <2>2. t * 0 = 0 /\ t * 1 = t
    OBVIOUS
  <2> QED BY <1>1, <2>1, <2>2
<1>5. (m * k + r) % m = r
  <2>1. r < m
    BY <1>4
  <2> QED BY <2>1, Division
<1> QED BY <1>1, <1>2, <1>3, <1>4, <1>5

\* The digits that have been gone through, and one more.
LEMMA ProductStep ==
  ASSUME NEW l \in UInt256, NEW r \in UInt256, NEW s \in UInt256, NEW i0 \in 0 .. 4 * W - 1,
         Value(l) * Value(r) < Base * Base,
         Value(s) = (Value(l) % two_to[i0]) * Value(r)
  PROVE  Value(IF uint256_bit_is_set(l, i0)
               THEN uint256_add(s, uint256_leftshift(r, i0)) ELSE s)
           = (Value(l) % two_to[i0 + 1]) * Value(r)
<1>0. W \in Nat \ {0} /\ i0 \in Nat
  BY WidthAssumption
<1>1. PICK B \in Nat : B = Base /\ B > 1 /\ Modulus = B * B * B * B
  BY Powers
<1>2. PICK x, y, z \in Nat : x = Value(l) /\ y = Value(r) /\ z = Value(s)
  BY <1>1, ValueType
<1>3. PICK t \in Nat \ {0} : t = two_to[i0] /\ two_to[i0 + 1] = 2 * t
  BY <1>0, TwoTo
<1>4. PICK c, b \in Nat : c = x % t /\ b = (x \div t) % 2 /\ (b = 0 \/ b = 1)
  <2>1. x % t \in 0 .. t - 1 /\ x \div t \in Nat
    BY DivisionIs
  <2>2. PICK d \in Nat : d = x \div t
    BY <2>1
  <2>3. d % 2 \in Nat /\ (d % 2 = 0 \/ d % 2 = 1)
    OBVIOUS
  <2> QED BY <2>1, <2>2, <2>3
<1>5. Value(l) % two_to[i0 + 1] = c + t * b
  <2>1. x % (2 * t) = (x % t) + t * ((x \div t) % 2)
    BY OneDigit
  <2> QED BY <1>2, <1>3, <1>4, <2>1
<1>6. uint256_bit_is_set(l, i0) <=> b = 1
  BY <1>2, <1>3, <1>4, BitIs
<1>7. z = c * y
  BY <1>2, <1>3, <1>4
<1>8. CASE b = 0
  <2>1. c + t * 0 = c
    OBVIOUS
  <2> QED BY <1>2, <1>5, <1>6, <1>7, <1>8, <2>1
<1>9. CASE b = 1
  <2>1. (c + t) * y = c * y + y * t /\ c * y \in Nat /\ y * t \in Nat
    OBVIOUS
  <2>2. c + t <= x
    <3>1. PICK d \in Nat : d = x \div t /\ x = t * d + c
      <4>1. x \div t \in Nat /\ x = t * (x \div t) + (x % t)
        BY DivisionIs
      <4> QED BY <1>4, <4>1
    <3>2. d # 0
      BY <1>4, <1>9, <3>1
    <3>3. PICK k \in Nat : d = 1 + k
      <4>1. d - 1 \in Nat /\ d = 1 + (d - 1)
        BY <3>2
      <4> QED BY <4>1
    <3>4. t * d = t + t * k /\ t * k \in Nat
      BY <3>3
    <3> QED BY <3>1, <3>4
  <2>3. PICK k \in Nat : x = c + t + k
    <3>1. x - (c + t) \in Nat /\ x = c + t + (x - (c + t))
      BY <2>2
    <3> QED BY <3>1
  <2>4. x * y = (c + t) * y + k * y /\ k * y \in Nat
    BY <2>3
  <2>5. PICK m \in Nat : m = B * B /\ m >= 1 /\ Modulus = m * m
    <3>1. B * B \in Nat /\ B * B >= 1 /\ (B * B) * (B * B) = B * B * B * B
      BY <1>1
    <3> QED BY <1>1, <3>1
  <2>6. c * y + y * t < m
    BY <1>1, <1>2, <2>1, <2>4, <2>5
  <2>7. Value(uint256_leftshift(r, i0)) = y * t
    <3>1. PICK w \in Nat, n \in Nat \ {0} : w = y * t /\ n = Modulus /\ w < n
      <4>1. PICK j \in Nat : m = 1 + j
        <5>1. m - 1 \in Nat /\ m = 1 + (m - 1)
          BY <2>5
        <5> QED BY <5>1
      <4>2. m * m = m + m * j /\ m * j \in Nat
        BY <4>1
      <4> QED BY <2>1, <2>5, <2>6, <4>2
    <3>2. Value(uint256_leftshift(r, i0)) = w % n
      BY <1>2, <1>3, <3>1, ShiftIsRight
    <3>3. (n * 0 + w) % n = w /\ n * 0 + w = w
      <4>1. 0 \in Nat /\ w < n
        BY <3>1
      <4>2. (n * 0 + w) % n = w
        BY <4>1, Division, Zenon
      <4> QED BY <4>2
    <3> QED BY <3>1, <3>2, <3>3
  <2>8. uint256_leftshift(r, i0) \in UInt256
    BY ShiftIsRight
  <2>9. Value(uint256_add(s, uint256_leftshift(r, i0))) = c * y + y * t
    <3>1. Value(s) + Value(uint256_leftshift(r, i0)) = c * y + y * t
      BY <1>2, <1>7, <2>7
    <3> QED BY <1>1, <2>5, <2>6, <2>8, <3>1, SmallAdd
  <2>10. c + t * 1 = c + t
    OBVIOUS
  <2> QED BY <1>2, <1>5, <1>6, <1>9, <2>1, <2>9, <2>10
<1> QED BY <1>4, <1>8, <1>9

-----------------------------------------------------------------------------
(***************************************************************************)
(* Hex digits.                                                             *)
(***************************************************************************)
\* The weight of the digit that n digits follow.
Weight(n) == two_to[(W \div D) * n]

\* A limb is written in D digits.
LEMMA Weights ==
  /\ Radix \in Nat \ {0} /\ W \div D \in Nat \ {0} /\ D \in Nat \ {0} /\ W = (W \div D) * D
  /\ Weight(0) = 1 /\ Weight(1) = Radix /\ Weight(D) = Base
  /\ \A n \in Nat : Weight(n) \in Nat \ {0} /\ Weight(n + 1) = Weight(n) * Radix
<1>1. PICK b \in 1 .. W : W = b * D
  BY WidthAssumption
<1>2. W \in Nat /\ D \in Nat \ {0} /\ b \in Nat \ {0}
  BY WidthAssumption, <1>1
<1>3. W \div D = b
  <2>1. (D * b + 0) \div D = b
    BY <1>2, Division
  <2>2. D * b + 0 = W
    BY <1>1, <1>2
  <2> QED BY <2>1, <2>2
<1>4. \A n \in Nat : b * n \in Nat /\ b * (n + 1) = b * n + b
  BY <1>2
<1>5. \A n \in Nat : Weight(n) = two_to[b * n]
  BY <1>3 DEF Weight
<1>6. Radix = two_to[b]
  BY <1>3 DEF Radix
<1>7. Radix \in Nat \ {0}
  BY <1>2, <1>6, TwoTo
<1>8. ASSUME NEW n \in Nat
      PROVE  Weight(n) \in Nat \ {0} /\ Weight(n + 1) = Weight(n) * Radix
  <2>1. Weight(n) \in Nat \ {0}
    BY <1>4, <1>5, TwoTo
  <2>2. Weight(n + 1) = two_to[b * n + b]
    BY <1>4, <1>5
  <2>3. two_to[b * n + b] = two_to[b * n] * two_to[b]
    BY <1>2, <1>4, PowerSum
  <2> QED BY <2>1, <2>2, <2>3, <1>5, <1>6
<1>9. Weight(0) = 1 /\ Weight(1) = Radix /\ Weight(D) = Base
  <2>1. b * 0 = 0 /\ b * 1 = b /\ b * D = W
    BY <1>1, <1>2
  <2> QED BY <2>1, <1>2, <1>5, <1>6, TwoTo DEF Base
<1> QED BY <1>1, <1>2, <1>3, <1>7, <1>8, <1>9

\* The types of weights and digits.
LEMMA WeightType ==
  /\ Radix \in Nat \ {0}
  /\ \A n \in Nat : Weight(n) \in Nat
BY Weights

\* A digit is below the radix.
LEMMA DigitType ==
  ASSUME NEW s \in Seq(Digit), NEW k \in 1 .. Len(s)
  PROVE  s[k] \in Nat /\ s[k] \in 0 .. Radix - 1
<1>1. s[k] \in Digit
  OBVIOUS
<1>2. Radix \in Nat
  BY WeightType
<1>3. \A r \in Nat : \A d \in 0 .. r - 1 : d \in Nat
  OBVIOUS
<1> QED BY <1>1, <1>2, <1>3 DEF Digit

\* v holds the values of the beginnings of the string s.
ValuesOf(s, v) ==
  /\ v \in [0 .. Len(s) -> Nat]
  /\ v[0] = 0
  /\ \A k \in 1 .. Len(s) : v[k] = v[k - 1] * Radix + s[k]

\* A string has such values.
LEMMA HasValues ==
  ASSUME NEW s \in Seq(Digit)
  PROVE  \E v : ValuesOf(s, v)
<1> DEFINE L == Len(s)
           Is(n, v) == /\ v \in [0 .. n -> Nat] /\ v[0] = 0
                       /\ \A k \in 1 .. n : v[k] = v[k - 1] * Radix + s[k]
           T == {n \in Nat : n <= L => \E v : Is(n, v)}
<1>1. L \in Nat /\ Radix \in Nat \ {0} /\ \A k \in 1 .. L : s[k] \in Nat
  <2>3. \A k \in 1 .. L : s[k] \in Nat
    BY DigitType
  <2>4. Radix \in Nat \ {0}
    BY Weights
  <2> QED BY <2>3, <2>4
<1>2. 0 \in T
  <2>1. Is(0, [k \in 0 .. 0 |-> 0])
    OBVIOUS
  <2> QED BY <2>1
<1>3. ASSUME NEW n \in Nat, n \in T
      PROVE  n + 1 \in T
  <2> SUFFICES ASSUME n + 1 <= L PROVE \E v : Is(n + 1, v)
    <3> HIDE DEF Is
    <3> QED OBVIOUS
  <2>1. n <= L
    BY <1>1
  <2>2. PICK v : Is(n, v)
    BY <1>3, <2>1
  <2> DEFINE w == [k \in 0 .. n + 1 |-> IF k = n + 1 THEN v[n] * Radix + s[n + 1] ELSE v[k]]
  <2>3. v[n] * Radix + s[n + 1] \in Nat
    <3>1. v[n] \in Nat /\ s[n + 1] \in Nat
      BY <1>1, <2>2
    <3> QED BY <1>1, <3>1, SMTT(30)
  <2>4. w \in [0 .. n + 1 -> Nat] /\ w[0] = 0
    BY <2>2, <2>3
  <2>5. ASSUME NEW k \in 1 .. n + 1
        PROVE  w[k] = w[k - 1] * Radix + s[k]
    <3>1. CASE k = n + 1
      <4>1. w[k - 1] = v[n]
        BY <3>1
      <4> QED BY <3>1, <4>1
    <3>2. CASE k # n + 1
      <4>1. k \in 1 .. n /\ k - 1 \in 0 .. n /\ k - 1 # n + 1
        BY <3>2
      <4>2. w[k] = v[k] /\ w[k - 1] = v[k - 1]
        BY <4>1
      <4> HIDE DEF w
      <4> QED BY <2>2, <4>1, <4>2
    <3> QED BY <3>1, <3>2
  <2> HIDE DEF w
  <2> QED BY <2>4, <2>5
<1> HIDE DEF T, Is
<1>4. L \in T
  BY <1>1, <1>2, <1>3, Induction
<1> QED BY <1>1, <1>4 DEF T, Is, ValuesOf

\* The last of them is what strtoul returns.
LEMMA StrtoulIs ==
  ASSUME NEW s \in Seq(Digit), NEW v, ValuesOf(s, v)
  PROVE  strtoul(s) = v[Len(s)]
<1> DEFINE L == Len(s)
           Is(f) == f = [k \in 0 .. L |-> IF k = 0 THEN 0 ELSE f[k - 1] * Radix + s[k]]
           f == CHOOSE f : Is(f)
<1>1. L \in Nat
  OBVIOUS
<1>2. Is(v)
  <2>1. v = [k \in 0 .. L |-> v[k]]
    BY DEF ValuesOf
  <2>2. \A k \in 0 .. L : v[k] = IF k = 0 THEN 0 ELSE v[k - 1] * Radix + s[k]
    BY <1>1 DEF ValuesOf
  <2> QED BY <2>1, <2>2
<1>3. Is(f)
  <2> HIDE DEF Is
  <2> QED BY <1>2
<1>4. strtoul(s) = f[L]
  BY DEF strtoul
<1> HIDE DEF f
<1> DEFINE T == {n \in Nat : n <= L => f[n] = v[n]}
<1>5. 0 \in T
  <2>1. f[0] = 0
    BY <1>1, <1>3
  <2> QED BY <2>1 DEF ValuesOf
<1>6. ASSUME NEW n \in Nat, n \in T
      PROVE  n + 1 \in T
  <2> SUFFICES ASSUME n + 1 <= L PROVE f[n + 1] = v[n + 1]
    OBVIOUS
  <2>1. n + 1 \in 1 .. L /\ n + 1 \in 0 .. L /\ (n + 1) - 1 = n /\ n <= L /\ n + 1 # 0
    BY <1>1
  <2>2. f[n + 1] = f[n] * Radix + s[n + 1]
    BY <1>3, <2>1
  <2>3. v[n + 1] = v[n] * Radix + s[n + 1]
    BY <2>1 DEF ValuesOf
  <2> QED BY <1>6, <2>1, <2>2, <2>3
<1> HIDE DEF T
<1>7. L \in T
  BY <1>1, <1>5, <1>6, Induction
<1> QED BY <1>1, <1>4, <1>7 DEF T

\* The value of a string lies below the weight of its first place.
LEMMA StrtoulBelow ==
  ASSUME NEW s \in Seq(Digit)
  PROVE  strtoul(s) \in Nat /\ strtoul(s) < Weight(Len(s))
<1> DEFINE L == Len(s)
<1>0. L \in Nat /\ \A k \in 1 .. L : s[k] \in Nat /\ s[k] \in 0 .. Radix - 1
  BY DigitType
<1>1. PICK v : ValuesOf(s, v)
  BY HasValues
<1>2. v \in [0 .. L -> Nat] /\ v[0] = 0 /\ \A k \in 1 .. L : v[k] = v[k - 1] * Radix + s[k]
  BY <1>1 DEF ValuesOf
<1> DEFINE T == {n \in Nat : n <= L => v[n] < Weight(n)}
<1>3. 0 \in T
  BY <1>2, Weights
<1>4. ASSUME NEW n \in Nat, n \in T
      PROVE  n + 1 \in T
  <2> SUFFICES ASSUME n + 1 <= L PROVE v[n + 1] < Weight(n + 1)
    OBVIOUS
  <2>1. n + 1 \in 1 .. L /\ (n + 1) - 1 = n /\ n <= L /\ n \in 0 .. L
    BY <1>0
  <2>2. v[n + 1] = v[n] * Radix + s[n + 1] /\ v[n] \in Nat /\ v[n] < Weight(n)
    BY <1>2, <1>4, <2>1
  <2>3. Radix \in Nat \ {0} /\ Weight(n) \in Nat /\ Weight(n + 1) = Weight(n) * Radix
    BY Weights
  <2>4. s[n + 1] \in Nat /\ s[n + 1] \in 0 .. Radix - 1
    BY <1>0, <2>1
  <2>5. PICK a \in Nat, d \in Nat, r \in Nat, z \in Nat :
          /\ a = v[n] /\ d = s[n + 1] /\ r = Radix /\ d < r /\ Weight(n) = a + 1 + z
    <3>1. \A x \in Nat, y \in Nat : x < y => y - x - 1 \in Nat /\ y = x + 1 + (y - x - 1)
      OBVIOUS
    <3>2. /\ Weight(n) - v[n] - 1 \in Nat
          /\ Weight(n) = v[n] + 1 + (Weight(n) - v[n] - 1)
      BY <2>2, <2>3, <3>1
    <3>3. s[n + 1] < Radix
      BY <2>3, <2>4
    <3> QED BY <2>2, <2>3, <2>4, <3>2, <3>3
  <2>6. (a + 1 + z) * r = a * r + r + z * r /\ z * r \in Nat /\ a * r \in Nat
    OBVIOUS
  <2>7. v[n + 1] = a * r + d /\ Weight(n + 1) = (a + 1 + z) * r
    BY <2>2, <2>3, <2>5
  <2>8. a * r + d < a * r + r + z * r
    <3>1. PICK x \in Nat, y \in Nat : x = a * r /\ y = z * r
      BY <2>6
    <3>2. x + d < x + r + y
      BY <2>5, SMTT(30)
    <3> QED BY <3>1, <3>2
  <2> QED BY <2>6, <2>7, <2>8
<1> HIDE DEF T
<1>5. L \in T
  BY <1>0, <1>3, <1>4, Induction
<1>6. strtoul(s) = v[L]
  BY <1>1, StrtoulIs
<1> QED BY <1>0, <1>2, <1>5, <1>6 DEF T

\* The value of two strings in a row.
LEMMA StrtoulConcat ==
  ASSUME NEW s \in Seq(Digit), NEW t \in Seq(Digit)
  PROVE  strtoul(s \o t) = strtoul(s) * Weight(Len(t)) + strtoul(t)
<1> DEFINE L == Len(s)
           M == Len(t)
           st == s \o t
<1>0. L \in Nat /\ M \in Nat /\ st \in Seq(Digit) /\ Len(st) = L + M
  OBVIOUS
<1>1. PICK v : ValuesOf(s, v)
  BY HasValues
<1>2. PICK w : ValuesOf(t, w)
  BY HasValues
<1>3. v \in [0 .. L -> Nat] /\ v[0] = 0 /\ \A k \in 1 .. L : v[k] = v[k - 1] * Radix + s[k]
  BY <1>1 DEF ValuesOf
<1>4. w \in [0 .. M -> Nat] /\ w[0] = 0 /\ \A k \in 1 .. M : w[k] = w[k - 1] * Radix + t[k]
  BY <1>2 DEF ValuesOf
<1> DEFINE u == [k \in 0 .. L + M |->
                   IF k <= L THEN v[k] ELSE v[L] * Weight(k - L) + w[k - L]]
<1>5. \A j \in 0 .. M : u[L + j] = v[L] * Weight(j) + w[j]
  <2> SUFFICES ASSUME NEW j \in 0 .. M PROVE u[L + j] = v[L] * Weight(j) + w[j]
    OBVIOUS
  <2>1. CASE j = 0
    <3>0. L \in 0 .. L
      BY <1>0
    <3>1. v[L] \in Nat /\ Weight(0) = 1
      BY <1>3, <3>0, Weights, Zenon
    <3>2. v[L] * 1 + 0 = v[L]
      BY <3>1
    <3>3. u[L + 0] = v[L]
      BY <1>0
    <3> QED BY <1>4, <2>1, <3>1, <3>2, <3>3
  <2>2. CASE j # 0
    <3>1. L + j \in 0 .. L + M /\ ~ (L + j <= L) /\ (L + j) - L = j
      BY <1>0, <2>2
    <3> QED BY <3>1
  <2> QED BY <2>1, <2>2
<1>6. u \in [0 .. L + M -> Nat]
  <2> SUFFICES ASSUME NEW k \in 0 .. L + M
               PROVE  (IF k <= L THEN v[k] ELSE v[L] * Weight(k - L) + w[k - L]) \in Nat
    OBVIOUS
  <2>1. CASE k <= L
    <3>1. k \in 0 .. L
      BY <1>0, <2>1
    <3> QED BY <1>3, <2>1, <3>1
  <2>2. CASE ~ (k <= L)
    <3>1. k - L \in 0 .. M /\ k - L \in Nat
      BY <1>0, <2>2
    <3>2. v[L] \in Nat /\ w[k - L] \in Nat /\ Weight(k - L) \in Nat
      <4>1. L \in 0 .. L
        BY <1>0
      <4>2. v[L] \in Nat /\ w[k - L] \in Nat
        BY <1>3, <1>4, <3>1, <4>1
      <4> QED BY <3>1, <4>2, WeightType
    <3>3. v[L] * Weight(k - L) + w[k - L] \in Nat
      <4>1. \A a, b, c \in Nat : a * b + c \in Nat
        OBVIOUS
      <4> QED BY <3>2, <4>1, Zenon
    <3> QED BY <2>2, <3>3
  <2> QED BY <2>1, <2>2
<1>7. ASSUME NEW k \in 1 .. L + M
      PROVE  u[k] = u[k - 1] * Radix + st[k]
  <2>1. CASE k <= L
    <3>1. k \in 1 .. L /\ k - 1 <= L /\ k - 1 \in 0 .. L + M /\ k \in 0 .. L + M
      BY <1>0, <2>1
    <3>2. u[k] = v[k] /\ u[k - 1] = v[k - 1]
      BY <2>1, <3>1
    <3>3. st[k] = s[k]
      BY <3>1
    <3> HIDE DEF u, st
    <3> QED BY <1>3, <3>1, <3>2, <3>3
  <2>2. CASE ~ (k <= L)
    <3>1. PICK j \in 0 .. M - 1 : k = L + j + 1 /\ j + 1 \in 1 .. M /\ j \in Nat
      <4>1. k - L - 1 \in 0 .. M - 1 /\ k = L + (k - L - 1) + 1
            /\ (k - L - 1) + 1 \in 1 .. M /\ k - L - 1 \in Nat
        BY <1>0, <2>2
      <4> QED BY <4>1
    <3>2. st[k] = t[j + 1]
      <4>1. k \in 1 .. Len(st) /\ k > L /\ k - L = j + 1
        BY <1>0, <3>1
      <4> QED BY <4>1
    <3>3. u[k] = v[L] * Weight(j + 1) + w[j + 1]
      <4>1. j + 1 \in 0 .. M /\ L + (j + 1) = k
        BY <1>0, <3>1
      <4> HIDE DEF u
      <4> QED BY <1>5, <4>1
    <3>4. u[k - 1] = v[L] * Weight(j) + w[j]
      <4>1. j \in 0 .. M /\ L + j = k - 1
        BY <1>0, <3>1
      <4> HIDE DEF u
      <4> QED BY <1>5, <4>1
    <3>5. w[j + 1] = w[j] * Radix + t[j + 1]
      <4>1. (j + 1) - 1 = j
        BY <3>1
      <4> QED BY <1>4, <3>1, <4>1
    <3>6. Weight(j + 1) = Weight(j) * Radix
      BY <3>1, Weights
    <3>7. PICK a \in Nat, b \in Nat, c \in Nat, r \in Nat, d \in Nat :
            a = v[L] /\ b = Weight(j) /\ c = w[j] /\ r = Radix /\ d = t[j + 1]
      <4>1. t[j + 1] \in Nat
        BY <3>1, DigitType
      <4>2. v[L] \in Nat /\ Weight(j) \in Nat /\ w[j] \in Nat /\ Radix \in Nat
        <5>1. L \in 0 .. L /\ j \in 0 .. M /\ j \in Nat
          BY <1>0, <3>1
        <5>2. v[L] \in Nat /\ w[j] \in Nat
          BY <1>3, <1>4, <5>1
        <5> QED BY <5>1, <5>2, WeightType
      <4> QED BY <4>1, <4>2
    <3>8. a * (b * r) + (c * r + d) = (a * b + c) * r + d
      OBVIOUS
    <3> HIDE DEF u, st
    <3> QED BY <3>2, <3>3, <3>4, <3>5, <3>6, <3>7, <3>8
  <2> QED BY <2>1, <2>2
<1>8. u[0] = 0
  BY <1>0, <1>3
<1>9. u[L + M] = v[L] * Weight(M) + w[M]
  <2> HIDE DEF u
  <2>1. M \in 0 .. M
    BY <1>0
  <2> QED BY <1>5, <2>1
<1> HIDE DEF u, st
<1>10. ValuesOf(st, u)
  BY <1>0, <1>6, <1>7, <1>8 DEF ValuesOf
<1>11. strtoul(st) = u[L + M] /\ strtoul(s) = v[L] /\ strtoul(t) = w[M]
  BY <1>0, <1>1, <1>2, <1>10, StrtoulIs
<1> QED BY <1>9, <1>11 DEF st

\* Where a string is cut in two.
LEMMA StrtoulCut ==
  ASSUME NEW s \in Seq(Digit), NEW m \in 0 .. Len(s)
  PROVE  /\ SubSeq(s, 1, m) \in Seq(Digit) /\ Len(SubSeq(s, 1, m)) = m
         /\ SubSeq(s, m + 1, Len(s)) \in Seq(Digit)
         /\ Len(SubSeq(s, m + 1, Len(s))) = Len(s) - m
         /\ strtoul(s) = strtoul(SubSeq(s, 1, m)) * Weight(Len(s) - m)
                           + strtoul(SubSeq(s, m + 1, Len(s)))
<1> DEFINE L == Len(s)
           a == SubSeq(s, 1, m)
           b == SubSeq(s, m + 1, L)
<1>1. L \in Nat /\ m \in Nat /\ m <= L
  OBVIOUS
<1>2. a \in Seq(Digit) /\ Len(a) = m /\ \A k \in 1 .. m : a[k] = s[k]
  BY <1>1
<1>3. b \in Seq(Digit) /\ Len(b) = L - m /\ \A k \in 1 .. L - m : b[k] = s[m + k]
  BY <1>1
<1>4. a \o b = s
  <2> HIDE DEF a, b
  <2>1. a \o b \in Seq(Digit) /\ Len(a \o b) = L
    BY <1>1, <1>2, <1>3
  <2>2. ASSUME NEW k \in 1 .. L
        PROVE  (a \o b)[k] = s[k]
    <3>1. CASE k <= m
      BY <1>1, <1>2, <1>3, <3>1
    <3>2. CASE k > m
      <4>1. k - m \in 1 .. L - m /\ m + (k - m) = k
        BY <1>1, <3>2
      <4>2. (a \o b)[k] = b[k - m]
        BY <1>1, <1>2, <1>3, <3>2
      <4> QED BY <1>3, <4>1, <4>2
    <3>3. k <= m \/ k > m
      BY <1>1
    <3> QED BY <3>1, <3>2, <3>3
  <2>3. \A x, y \in Seq(Digit) :
           Len(x) = Len(y) /\ (\A k \in 1 .. Len(x) : x[k] = y[k]) => x = y
    OBVIOUS
  <2> QED BY <2>1, <2>2, <2>3
<1> HIDE DEF a, b
<1>5. strtoul(a \o b) = strtoul(a) * Weight(Len(b)) + strtoul(b)
  BY <1>2, <1>3, StrtoulConcat
<1> QED BY <1>2, <1>3, <1>4, <1>5 DEF a, b

\* Strings are the same when their places are.
LEMMA SameString ==
  ASSUME NEW x \in Seq(Digit), NEW y \in Seq(Digit), Len(x) = Len(y),
         \A k \in 1 .. Len(x) : x[k] = y[k]
  PROVE  x = y
OBVIOUS

\* A part of a part.
LEMMA PartOfPart ==
  ASSUME NEW s \in Seq(Digit), NEW n \in 0 .. Len(s), NEW a \in 1 .. n + 1, NEW b \in 0 .. n,
         a <= b + 1
  PROVE  SubSeq(SubSeq(s, 1, n), a, b) = SubSeq(s, a, b)
<1> DEFINE t == SubSeq(s, 1, n)
           x == SubSeq(t, a, b)
           y == SubSeq(s, a, b)
<1>1. Len(s) \in Nat /\ n \in Nat /\ n <= Len(s) /\ a \in Nat /\ b \in Nat /\ b <= n /\ a >= 1
  OBVIOUS
<1>2. t \in Seq(Digit) /\ Len(t) = n /\ \A k \in 1 .. n : t[k] = s[k]
  BY <1>1
<1>3. y \in Seq(Digit) /\ Len(y) = b - a + 1 /\ \A k \in 1 .. b - a + 1 : y[k] = s[a + k - 1]
  BY <1>1
<1> HIDE DEF t
<1>4. x \in Seq(Digit) /\ Len(x) = b - a + 1 /\ \A k \in 1 .. b - a + 1 : x[k] = t[a + k - 1]
  BY <1>1, <1>2
<1> HIDE DEF x, y
<1>5. ASSUME NEW k \in 1 .. Len(x)
      PROVE  x[k] = y[k]
  <2>1. k \in 1 .. b - a + 1 /\ a + k - 1 \in 1 .. n
    BY <1>1, <1>4
  <2> QED BY <1>2, <1>3, <1>4, <2>1
<1>6. x = y
  BY <1>3, <1>4, <1>5, SameString
<1> QED BY <1>6 DEF x, y, t

\* Weights multiply.
LEMMA WeightSum ==
  ASSUME NEW n \in Nat, NEW m \in Nat
  PROVE  Weight(n + m) = Weight(n) * Weight(m)
<1>1. PICK b \in Nat \ {0} : b = W \div D
  BY Weights
<1>2. b * n \in Nat /\ b * m \in Nat /\ b * (n + m) = b * n + b * m
  OBVIOUS
<1>3. two_to[b * n + b * m] = two_to[b * n] * two_to[b * m]
  BY <1>2, PowerSum
<1> QED BY <1>1, <1>2, <1>3 DEF Weight

\* And grow with the number of digits.
LEMMA WeightGrows ==
  ASSUME NEW n \in Nat, NEW m \in Nat, n <= m
  PROVE  Weight(n) <= Weight(m)
<1>1. m - n \in Nat /\ n + (m - n) = m
  OBVIOUS
<1>2. PICK x \in Nat, y \in Nat : x = Weight(n) /\ y = Weight(m - n) /\ y # 0
  <2>1. \A k \in Nat : Weight(k) \in Nat \ {0}
    BY Weights
  <2> QED BY <1>1, <2>1
<1>3. Weight(m) = x * y
  BY <1>1, <1>2, WeightSum
<1>4. PICK z \in Nat : y = z + 1
  <2>1. y - 1 \in Nat /\ y = (y - 1) + 1
    BY <1>2
  <2> QED BY <2>1
<1>5. x * (z + 1) = x * z + x /\ x * z \in Nat
  OBVIOUS
<1>6. x <= x * z + x
  <2>1. PICK w \in Nat : w = x * z
    BY <1>5
  <2>2. x <= w + x
    OBVIOUS
  <2> QED BY <2>1, <2>2
<1> QED BY <1>2, <1>3, <1>4, <1>5, <1>6

\* Which limbs of a string of n digits are whole.
LEMMA WholeLimbs ==
  ASSUME NEW d \in Nat \ {0}, NEW n \in Nat, NEW k \in Nat
  PROVE  /\ k < n \div d <=> (k + 1) * d <= n
         /\ k * d <= n /\ n < (k + 1) * d => k = n \div d /\ n % d = n - k * d
         /\ k = n \div d => k * d <= n /\ n < (k + 1) * d
<1>1. PICK q \in Nat, r \in Nat : q = n \div d /\ r = n % d /\ n = d * q + r /\ r < d
  BY DivisionIs
<1>2. k * d \in Nat /\ (k + 1) * d = k * d + d /\ d * q \in Nat
  OBVIOUS
<1>3. k < q => k * d + d <= n
  <2> SUFFICES ASSUME k < q PROVE k * d + d <= n
    OBVIOUS
  <2>1. PICK z \in Nat : q = k + 1 + z
    <3>1. q - k - 1 \in Nat /\ q = k + 1 + (q - k - 1)
      OBVIOUS
    <3> QED BY <3>1
  <2>2. d * q = k * d + d + d * z /\ d * z \in Nat
    BY <2>1
  <2> QED BY <1>1, <1>2, <2>2
<1>4. k >= q => n < k * d + d
  <2> SUFFICES ASSUME k >= q PROVE n < k * d + d
    OBVIOUS
  <2>1. PICK z \in Nat : k = q + z
    <3>1. k - q \in Nat /\ k = q + (k - q)
      OBVIOUS
    <3> QED BY <3>1
  <2>2. k * d = d * q + d * z /\ d * z \in Nat
    BY <2>1
  <2> QED BY <1>1, <1>2, <2>2
<1>5. k * d <= n /\ n < k * d + d => k = q /\ r = n - k * d
  <2> SUFFICES ASSUME k * d <= n, n < k * d + d PROVE k = q /\ r = n - k * d
    OBVIOUS
  <2>1. n - k * d \in Nat /\ n - k * d < d /\ n = d * k + (n - k * d)
    BY <1>2
  <2>2. (d * k + (n - k * d)) \div d = k
    BY <2>1, Division
  <2>3. k = q
    BY <1>1, <2>1, <2>2
  <2>4. d * q = k * d
    BY <2>3
  <2> QED BY <1>1, <1>2, <2>3, <2>4
<1>6. k = q => k * d <= n
  <2> SUFFICES ASSUME k = q PROVE k * d <= n
    OBVIOUS
  <2>1. d * q = k * d
    OBVIOUS
  <2> QED BY <1>1, <1>2, <2>1
<1>7. k = q \/ k < q \/ k > q
  OBVIOUS
<1>8. k < q <=> k * d + d <= n
  BY <1>1, <1>2, <1>3, <1>4
<1> QED BY <1>1, <1>2, <1>4, <1>5, <1>6, <1>8

\* The number that the digits above limb k of a string stand for.
Above(s, k) == IF k * D <= Len(s) THEN strtoul(SubSeq(s, 1, Len(s) - k * D)) ELSE 0

\* A limb of uint256_create_from_hex, in each of its three cases.
LEMMA HexLimb ==
  ASSUME NEW s \in Seq(Digit), NEW k \in 0 .. 3
  PROVE  LET x == uint256_create_from_hex(s)
         IN /\ x[k] \in Limb /\ Above(s, k) \in Nat /\ Above(s, k + 1) \in Nat
            /\ Above(s, k) = Above(s, k + 1) * Base + x[k]
<1> DEFINE x == uint256_create_from_hex(s)
           n == Len(s)
           q == n \div D
           limb == strtoul(SubSeq(s, n - (k + 1) * D + 1, n - k * D))
           rest == strtoul(SubSeq(s, 1, n % D))
<1>1. D \in Nat \ {0} /\ n \in Nat /\ k \in Nat /\ Base \in Nat
  <2>1. Base \in Nat
    BY Powers
  <2> QED BY <2>1, WidthAssumption
<1>2. k * D \in Nat /\ (k + 1) * D \in Nat /\ (k + 1) * D = k * D + D
  BY <1>1
<1>3. x[k] = IF n >= 4 * D \/ k < q THEN limb ELSE IF k = q THEN rest ELSE 0
  BY DEF uint256_create_from_hex
<1>4. n >= 4 * D => (k + 1) * D <= n
  <2>1. CASE k = 0
    BY <1>1, <2>1
  <2>2. CASE k = 1
    BY <1>1, <2>2
  <2>3. CASE k = 2
    BY <1>1, <2>3
  <2>4. CASE k = 3
    BY <1>1, <2>4
  <2> QED BY <2>1, <2>2, <2>3, <2>4
<1>5. /\ k < q <=> (k + 1) * D <= n
      /\ k * D <= n /\ n < (k + 1) * D => k = q /\ n % D = n - k * D
      /\ k = q => k * D <= n /\ n < (k + 1) * D
  BY <1>1, WholeLimbs
<1>6. Limb = 0 .. Base - 1
  BY DEF Limb
<1> HIDE DEF x, q
<1>7. CASE (k + 1) * D <= n
  <2> DEFINE t == SubSeq(s, 1, n - k * D)
             m == n - (k + 1) * D
  <2>1. m \in Nat /\ n - k * D \in 0 .. n /\ m \in 0 .. n - k * D /\ m + 1 \in 1 .. (n - k * D) + 1
        /\ (n - k * D) - m = D /\ k * D <= n
    BY <1>1, <1>2, <1>7
  <2>2. t \in Seq(Digit) /\ Len(t) = n - k * D
    BY <2>1, StrtoulCut
  <2>3. /\ SubSeq(t, m + 1, Len(t)) \in Seq(Digit) /\ Len(SubSeq(t, m + 1, Len(t))) = D
        /\ strtoul(t) = strtoul(SubSeq(t, 1, m)) * Weight(D) + strtoul(SubSeq(t, m + 1, Len(t)))
        /\ SubSeq(t, 1, m) \in Seq(Digit)
    <3> HIDE DEF t, m
    <3>1. m \in 0 .. Len(t) /\ Len(t) - m = D
      BY <2>1, <2>2
    <3> QED BY <2>2, <3>1, StrtoulCut
  <2>4. SubSeq(t, 1, m) = SubSeq(s, 1, m)
    <3>1. 1 \in 1 .. (n - k * D) + 1 /\ 1 <= m + 1
      BY <2>1
    <3> HIDE DEF m
    <3> QED BY <2>1, <3>1, PartOfPart
  <2>5. SubSeq(t, m + 1, Len(t)) = SubSeq(s, m + 1, n - k * D)
    <3>1. n - k * D \in 0 .. n - k * D /\ m + 1 <= (n - k * D) + 1
      BY <2>1
    <3>2. SubSeq(t, m + 1, n - k * D) = SubSeq(s, m + 1, n - k * D)
      <4> HIDE DEF m
      <4> QED BY <2>1, <3>1, PartOfPart
    <3> QED BY <2>2, <3>2
  <2>6. x[k] = limb /\ limb = strtoul(SubSeq(s, m + 1, n - k * D))
    BY <1>3, <1>5, <1>7
  <2>7. Above(s, k) = strtoul(t) /\ Above(s, k + 1) = strtoul(SubSeq(s, 1, m))
    BY <1>7, <2>1 DEF Above
  <2>8. Weight(D) = Base
    BY Weights
  <2> HIDE DEF t, m, limb
  <2>9. strtoul(t) \in Nat /\ strtoul(SubSeq(t, 1, m)) \in Nat
    BY <2>2, <2>3, StrtoulBelow
  <2>10. x[k] \in Nat /\ x[k] < Base
    BY <2>3, <2>5, <2>6, <2>8, StrtoulBelow
  <2>11. x[k] \in Limb
    BY <1>1, <1>6, <2>10
  <2>12. Above(s, k) = Above(s, k + 1) * Base + x[k]
    BY <2>3, <2>4, <2>5, <2>6, <2>7, <2>8
  <2> QED BY <2>4, <2>7, <2>9, <2>11, <2>12 DEF x
<1>8. CASE k * D <= n /\ n < (k + 1) * D
  <2>1. k = q /\ n % D = n - k * D /\ ~ (k < q) /\ ~ (n >= 4 * D)
    BY <1>1, <1>2, <1>4, <1>5, <1>8
  <2>2. x[k] = strtoul(SubSeq(s, 1, n - k * D))
    BY <1>3, <2>1
  <2>3. Above(s, k) = x[k] /\ Above(s, k + 1) = 0
    BY <1>1, <1>2, <1>8, <2>2 DEF Above
  <2>4. n - k * D \in 0 .. n /\ n - k * D \in Nat /\ n - k * D <= D
    BY <1>1, <1>2, <1>8
  <2>5. x[k] \in Nat /\ x[k] < Weight(n - k * D)
    <3>1. PICK m \in 0 .. n : m = n - k * D
      BY <2>4
    <3>2. SubSeq(s, 1, m) \in Seq(Digit) /\ Len(SubSeq(s, 1, m)) = m
      BY StrtoulCut
    <3> QED BY <2>2, <3>1, <3>2, StrtoulBelow
  <2>6. Weight(n - k * D) <= Base /\ Weight(n - k * D) \in Nat
    BY <1>1, <2>4, Weights, WeightGrows
  <2>7. x[k] \in Limb
    BY <1>1, <1>6, <2>5, <2>6
  <2>8. x[k] = 0 * Base + x[k]
    BY <1>1, <2>5
  <2> QED BY <2>3, <2>5, <2>7, <2>8 DEF x
<1>9. CASE n < k * D
  <2>1. ~ (k = q) /\ ~ (k < q) /\ ~ (n >= 4 * D)
    BY <1>1, <1>2, <1>4, <1>5, <1>9
  <2>2. x[k] = 0 /\ Above(s, k) = 0 /\ Above(s, k + 1) = 0
    BY <1>1, <1>2, <1>3, <1>9, <2>1 DEF Above
  <2>3. 0 = 0 * Base + 0 /\ 0 \in Limb
    BY <1>1, <1>6, Powers
  <2> QED BY <2>2, <2>3 DEF x
<1> QED BY <1>1, <1>2, <1>7, <1>8, <1>9

\* uint256_create_from_hex takes the last digits of a string, as many as there is room for.
LEMMA CreateFromHexIs ==
  ASSUME NEW s \in Seq(Digit)
  PROVE  /\ uint256_create_from_hex(s) \in UInt256
         /\ Value(uint256_create_from_hex(s)) = strtoul(s) % Modulus
<1> DEFINE x == uint256_create_from_hex(s)
<1>1. x = [k \in 0 .. 3 |-> x[k]]
  BY DEF uint256_create_from_hex
<1>2. \A k \in 0 .. 3 : /\ x[k] \in Limb /\ Above(s, k) \in Nat /\ Above(s, k + 1) \in Nat
                        /\ Above(s, k) = Above(s, k + 1) * Base + x[k]
  BY HexLimb
<1> HIDE DEF x
<1>3. x \in UInt256
  BY <1>1, <1>2 DEF UInt256
<1>4. Above(s, 0) = strtoul(s)
  <2>1. D \in Nat /\ Len(s) \in Nat
    BY WidthAssumption
  <2>2. 0 * D = 0 /\ 0 <= Len(s) /\ Len(s) - 0 = Len(s)
    BY <2>1
  <2>3. SubSeq(s, 1, Len(s)) = s
    OBVIOUS
  <2>4. Above(s, 0) = IF 0 <= Len(s) THEN strtoul(SubSeq(s, 1, Len(s) - 0)) ELSE 0
    BY <2>2 DEF Above
  <2> QED BY <2>2, <2>3, <2>4
<1>5. PICK B \in Nat \ {0} : B = Base
  BY Powers
<1>6. PICK a \in Nat, b \in Nat, c \in Nat, d \in Nat :
        a = x[0] /\ b = x[1] /\ c = x[2] /\ d = x[3]
  <2>1. \A k \in 0 .. 3 : x[k] \in Nat
    <3>1. Limb \subseteq Nat
      BY <1>5 DEF Limb
    <3> QED BY <1>2, <3>1
  <2> QED BY <2>1
<1>7. PICK e \in Nat : e = Above(s, 4)
  <2>1. Above(s, 3 + 1) \in Nat /\ 3 + 1 = 4
    BY <1>2
  <2> QED BY <2>1
<1>8. strtoul(s) = (((e * B + d) * B + c) * B + b) * B + a
  <2>1. Above(s, 3) = e * B + d
    <3>1. 3 \in 0 .. 3 /\ 3 + 1 = 4
      OBVIOUS
    <3> QED BY <1>2, <1>5, <1>6, <1>7, <3>1
  <2>2. Above(s, 2) = Above(s, 3) * B + c
    <3>1. 2 \in 0 .. 3 /\ 2 + 1 = 3
      OBVIOUS
    <3> QED BY <1>2, <1>5, <1>6, <3>1
  <2>3. Above(s, 1) = Above(s, 2) * B + b
    <3>1. 1 \in 0 .. 3 /\ 1 + 1 = 2
      OBVIOUS
    <3> QED BY <1>2, <1>5, <1>6, <3>1
  <2>4. Above(s, 0) = Above(s, 1) * B + a
    <3>1. 0 \in 0 .. 3 /\ 0 + 1 = 1
      OBVIOUS
    <3> QED BY <1>2, <1>5, <1>6, <3>1
  <2> QED BY <1>4, <2>1, <2>2, <2>3, <2>4
<1>9. Value(x) = a + B * (b + B * (c + B * d))
  BY <1>5, <1>6 DEF Value
<1>10. PICK m \in Nat \ {0} : m = Modulus
  <2>1. B * B * B * B \in Nat \ {0}
    <3>1. PICK f \in Nat \ {0} : f = B * B
      OBVIOUS
    <3>2. f * B \in Nat \ {0}
      OBVIOUS
    <3>3. PICK g \in Nat \ {0} : g = f * B
      BY <3>2
    <3>4. g * B \in Nat \ {0}
      OBVIOUS
    <3> QED BY <3>1, <3>3, <3>4
  <2> QED BY <1>5, <2>1, Powers
<1>11. strtoul(s) = m * e + Value(x)
  <2>1. (((e * B + d) * B + c) * B + b) * B + a
          = (B * B * B * B) * e + (a + B * (b + B * (c + B * d)))
    OBVIOUS
  <2>2. m = B * B * B * B
    BY <1>5, <1>10, Powers
  <2> QED BY <1>8, <1>9, <2>1, <2>2
<1>12. Value(x) \in Nat /\ Value(x) < m
  <2>1. Value(x) \in 0 .. Modulus - 1
    BY <1>3, ValueType
  <2> QED BY <1>10, <2>1
<1>13. (m * e + Value(x)) % m = Value(x)
  BY <1>12, Division
<1> QED BY <1>3, <1>10, <1>11, <1>13 DEF x

\* A string of zeros stands for zero.
LEMMA StrtoulZeros ==
  ASSUME NEW s \in Seq(Digit), \A k \in 1 .. Len(s) : s[k] = 0
  PROVE  strtoul(s) = 0
<1> DEFINE v == [k \in 0 .. Len(s) |-> 0]
<1>1. Len(s) \in Nat /\ Radix \in Nat
  BY WeightType
<1>2. ASSUME NEW k \in 1 .. Len(s)
      PROVE  v[k] = v[k - 1] * Radix + s[k]
  <2>1. v[k] = 0 /\ v[k - 1] = 0 /\ s[k] = 0
    BY <1>1
  <2>2. 0 = 0 * Radix + 0
    BY <1>1
  <2> HIDE DEF v
  <2> QED BY <2>1, <2>2
<1>3. v \in [0 .. Len(s) -> Nat] /\ v[0] = 0 /\ v[Len(s)] = 0
  BY <1>1
<1> HIDE DEF v
<1>4. ValuesOf(s, v)
  BY <1>2, <1>3 DEF ValuesOf
<1> QED BY <1>3, <1>4, StrtoulIs

\* A limb in D digits.
LEMMA PaddedIs ==
  ASSUME NEW x \in Limb
  PROVE  /\ padded(x) \in Seq(Digit) /\ Len(padded(x)) = D
         /\ strtoul(padded(x)) = x
<1> DEFINE s == padded(x)
           v == [k \in 0 .. D |-> x \div Weight(D - k)]
<1>1. D \in Nat \ {0} /\ Radix \in Nat \ {0}
  BY WidthAssumption, WeightType
<1>2. x \in Nat /\ x < Base /\ Base \in Nat \ {0}
  <2>1. Base \in Nat \ {0}
    BY Powers
  <2> QED BY <2>1 DEF Limb
<1>3. \A n \in Nat : Weight(n) \in Nat \ {0}
  BY Weights
<1>4. s = [k \in 1 .. D |-> (x \div Weight(D - k)) % Radix]
  BY DEF padded, shr, Weight
<1>5. \A k \in 0 .. D : D - k \in Nat /\ x \div Weight(D - k) \in Nat
  <2> SUFFICES ASSUME NEW k \in 0 .. D PROVE D - k \in Nat /\ x \div Weight(D - k) \in Nat
    OBVIOUS
  <2>1. D - k \in Nat
    BY <1>1
  <2>2. Weight(D - k) \in Nat \ {0}
    BY <1>3, <2>1
  <2> QED BY <1>2, <2>1, <2>2, DivisionIs
<1>6. \A k \in 1 .. D : (x \div Weight(D - k)) % Radix \in Digit
  <2> SUFFICES ASSUME NEW k \in 1 .. D PROVE (x \div Weight(D - k)) % Radix \in Digit
    OBVIOUS
  <2>1. x \div Weight(D - k) \in Nat
    BY <1>1, <1>5
  <2> QED BY <1>1, <2>1, DivisionIs DEF Digit
<1>7. s \in Seq(Digit) /\ Len(s) = D /\ \A k \in 1 .. D : s[k] = (x \div Weight(D - k)) % Radix
  <2> HIDE DEF s
  <2> QED BY <1>1, <1>4, <1>6
<1>8. v \in [0 .. D -> Nat]
  BY <1>5
<1>9. v[0] = 0
  <2>1. v[0] = x \div Base
    BY <1>1, Weights
  <2>2. (Base * 0 + x) \div Base = 0
    BY <1>2, Division
  <2>3. Base * 0 + x = x
    BY <1>2
  <2> QED BY <2>1, <2>2, <2>3
<1>10. ASSUME NEW k \in 1 .. D
       PROVE  v[k] = v[k - 1] * Radix + s[k]
  <2>1. PICK j \in Nat : j = D - k /\ j + 1 = D - (k - 1)
    BY <1>1
  <2>2. k \in 0 .. D /\ k - 1 \in 0 .. D
    BY <1>1
  <2>3. v[k] = x \div Weight(j) /\ v[k - 1] = x \div Weight(j + 1)
    BY <2>1, <2>2
  <2>4. Weight(j) \in Nat \ {0} /\ Weight(j + 1) = Weight(j) * Radix
    BY Weights
  <2>5. x \div (Weight(j) * Radix) = (x \div Weight(j)) \div Radix
    BY <1>1, <1>2, <2>4, TwoDivisions
  <2>6. PICK y \in Nat : y = x \div Weight(j)
    BY <1>2, <2>4, DivisionIs
  <2>7. y \div Radix \in Nat /\ y % Radix \in Nat /\ y = Radix * (y \div Radix) + (y % Radix)
    BY <1>1, DivisionIs
  <2>8. PICK z \in Nat, d \in Nat, r \in Nat :
          z = y \div Radix /\ d = y % Radix /\ r = Radix /\ y = r * z + d
    BY <1>1, <2>7
  <2>9. r * z + d = z * r + d
    OBVIOUS
  <2>10. s[k] = d
    BY <1>7, <2>1, <2>6, <2>8
  <2>11. v[k] = y /\ v[k - 1] = z
    BY <2>3, <2>4, <2>5, <2>6, <2>8
  <2> QED BY <2>8, <2>9, <2>10, <2>11
<1>11. v[D] = x
  <2>1. D - D = 0 /\ D \in 0 .. D
    BY <1>1
  <2>2. v[D] = x \div 1
    BY <2>1, Weights
  <2> QED BY <1>2, <2>2
<1> HIDE DEF v, s
<1>12. ValuesOf(s, v)
  BY <1>7, <1>8, <1>9, <1>10 DEF ValuesOf
<1>13. strtoul(s) = v[D]
  BY <1>7, <1>12, StrtoulIs
<1> QED BY <1>7, <1>11, <1>13 DEF s

\* A limb in as few digits as it has.
LEMMA PlainIs ==
  ASSUME NEW x \in Limb
  PROVE  /\ plain(x) \in Seq(Digit) /\ Len(plain(x)) \in Nat \ {0}
         /\ strtoul(plain(x)) = x
         /\ x # 0 \/ Len(plain(x)) > 1 => plain(x)[1] # 0
<1> DEFINE s == padded(x)
           nonzero == {k \in 1 .. D : s[k] # 0}
           Is(k) == k \in nonzero /\ \A m \in nonzero : k <= m
           least == CHOOSE k \in nonzero : \A m \in nonzero : k <= m
<1>1. D \in Nat \ {0} /\ Radix \in Nat \ {0}
  BY WidthAssumption, WeightType
<1>2. s \in Seq(Digit) /\ Len(s) = D /\ strtoul(s) = x
  BY PaddedIs
<1>3. plain(x) = IF nonzero = {} THEN <<0>> ELSE SubSeq(s, least, D)
  BY DEF plain
<1> HIDE DEF s
<1>4. CASE nonzero = {}
  <2>1. plain(x) = <<0>>
    BY <1>3, <1>4
  <2>2. \A k \in 1 .. Len(s) : s[k] = 0
    BY <1>2, <1>4
  <2>3. x = 0
    BY <1>2, <2>2, StrtoulZeros
  <2>4. <<0>> \in Seq(Digit) /\ Len(<<0>>) = 1 /\ \A k \in 1 .. Len(<<0>>) : <<0>>[k] = 0
    <3>1. 0 \in Digit
      BY <1>1 DEF Digit
    <3> QED BY <3>1
  <2>5. strtoul(<<0>>) = 0
    BY <2>4, StrtoulZeros
  <2> QED BY <2>1, <2>3, <2>4, <2>5
<1>5. CASE nonzero # {}
  <2>1. nonzero \subseteq Nat
    OBVIOUS
  <2>2. \E k \in nonzero : \A m \in nonzero : k <= m
    <3> HIDE DEF nonzero
    <3> QED BY <1>5, <2>1, Least
  <2>3. least \in nonzero /\ \A m \in nonzero : least <= m
    <3> HIDE DEF nonzero
    <3> QED BY <2>2
  <2> HIDE DEF least
  <2>4. PICK n \in Nat : n + 1 = least /\ n \in 0 .. D
    <3>1. least - 1 \in Nat /\ (least - 1) + 1 = least /\ least - 1 \in 0 .. D
      BY <1>1, <2>3
    <3> QED BY <3>1
  <2> DEFINE a == SubSeq(s, 1, n)
             b == SubSeq(s, n + 1, D)
  <2>5. plain(x) = b
    BY <1>3, <1>5, <2>4
  <2>6. /\ a \in Seq(Digit) /\ Len(a) = n /\ b \in Seq(Digit) /\ Len(b) = D - n
        /\ strtoul(s) = strtoul(a) * Weight(D - n) + strtoul(b)
    BY <1>2, <2>4, StrtoulCut
  <2>7. n < D /\ s[n + 1] # 0 /\ \A k \in 1 .. n : s[k] = 0
    <3>1. n < D /\ s[n + 1] # 0
      BY <1>1, <2>3, <2>4
    <3>2. ASSUME NEW k \in 1 .. n
          PROVE  s[k] = 0
      <4>1. k \in 1 .. D /\ ~ (least <= k)
        BY <1>1, <2>4
      <4> QED BY <2>3, <4>1
    <3> QED BY <3>1, <3>2
  <2>8. \A k \in 1 .. n : a[k] = 0
    <3>1. \A k \in 1 .. n : a[k] = s[k]
      BY <1>2, <2>4
    <3> QED BY <2>7, <3>1
  <2>9. b[1] = s[n + 1]
    BY <1>1, <1>2, <2>4, <2>7
  <2> HIDE DEF a, b
  <2>10. strtoul(a) = 0
    BY <2>6, <2>8, StrtoulZeros
  <2>11. strtoul(b) = x
    <3>1. D - n \in Nat
      BY <1>1, <2>4
    <3>2. Weight(D - n) \in Nat /\ strtoul(b) \in Nat
      BY <2>6, <3>1, WeightType, StrtoulBelow
    <3>3. 0 * Weight(D - n) + strtoul(b) = strtoul(b)
      BY <3>2
    <3> QED BY <1>2, <2>6, <2>10, <3>3
  <2>12. Len(b) \in Nat \ {0} /\ b[1] # 0
    BY <1>1, <2>4, <2>6, <2>7, <2>9
  <2> QED BY <2>5, <2>6, <2>11, <2>12
<1> QED BY <1>4, <1>5

\* What uint256_format_as_hex has written when it has come to the number n.
Written(h, n) == /\ h \in Seq(Digit) /\ Len(h) \in Nat \ {0}
                 /\ strtoul(h) = n
                 /\ n # 0 \/ Len(h) > 1 => h[1] # 0

\* It puts the next limb behind it, unless nothing is written.
LEMMA AppendLimb ==
  ASSUME NEW h, NEW n \in Nat \ {0}, Written(h, n), NEW x \in Limb
  PROVE  Written(h \o padded(x), x + Base * n) /\ x + Base * n \in Nat \ {0}
<1>1. /\ h \in Seq(Digit) /\ Len(h) \in Nat \ {0} /\ strtoul(h) = n /\ h[1] # 0
  BY DEF Written
<1>2. padded(x) \in Seq(Digit) /\ Len(padded(x)) = D /\ strtoul(padded(x)) = x
  BY PaddedIs
<1>3. D \in Nat \ {0}
  BY WidthAssumption
<1> DEFINE g == h \o padded(x)
<1>4. g \in Seq(Digit) /\ Len(g) \in Nat \ {0} /\ g[1] # 0
  BY <1>1, <1>2, <1>3
<1>5. strtoul(g) = n * Base + x
  <2>1. Weight(D) = Base
    BY Weights
  <2> QED BY <1>1, <1>2, <2>1, StrtoulConcat
<1>6. PICK B \in Nat \ {0}, y \in Nat : B = Base /\ y = x
  <2>1. Base \in Nat \ {0}
    BY Powers
  <2> QED BY <2>1 DEF Limb
<1>7. y + B * n \in Nat \ {0} /\ n * B + y = y + B * n
  <2>1. PICK z \in Nat \ {0} : z = B * n
    OBVIOUS
  <2>2. y + z \in Nat \ {0} /\ n * B = B * n
    OBVIOUS
  <2> QED BY <2>1, <2>2
<1> HIDE DEF g
<1>8. Written(g, x + Base * n)
  BY <1>4, <1>5, <1>6, <1>7 DEF Written
<1> QED BY <1>6, <1>7, <1>8 DEF g

\* It writes the value, without leading zeros.
LEMMA FormatIs ==
  ASSUME NEW val \in UInt256
  PROVE  Written(uint256_format_as_hex(val), Value(val))
<1> DEFINE h == uint256_format_as_hex(val)
<1>1. val[0] \in Limb /\ val[1] \in Limb /\ val[2] \in Limb /\ val[3] \in Limb
  BY DEF UInt256
<1>2. PICK B \in Nat \ {0}, a \in Nat, b \in Nat, c \in Nat, d \in Nat :
        B = Base /\ a = val[0] /\ b = val[1] /\ c = val[2] /\ d = val[3]
  <2>1. Base \in Nat \ {0}
    BY Powers
  <2>2. Limb \subseteq Nat
    BY <2>1 DEF Limb
  <2> QED BY <1>1, <2>1, <2>2
<1>3. Value(val) = a + B * (b + B * (c + B * d))
  BY <1>2 DEF Value
<1>4. \A x \in Limb : Written(plain(x), x)
  BY PlainIs DEF Written
<1>5. \A x \in Limb : \A n \in Nat \ {0} : \A g : Written(g, n) =>
         Written(g \o padded(x), x + Base * n) /\ x + Base * n \in Nat \ {0}
  BY AppendLimb
<1>6. B * 0 = 0
  OBVIOUS
<1>7. CASE d # 0
  <2>1. h = plain(d) \o padded(c) \o padded(b) \o padded(a)
    BY <1>2, <1>7 DEF uint256_format_as_hex
  <2>2. Written(plain(d), d) /\ d \in Nat \ {0}
    BY <1>1, <1>2, <1>4, <1>7
  <2>3. Written(plain(d) \o padded(c), c + B * d) /\ c + B * d \in Nat \ {0}
    BY <1>1, <1>2, <1>5, <2>2
  <2>4. Written(plain(d) \o padded(c) \o padded(b), b + B * (c + B * d))
        /\ b + B * (c + B * d) \in Nat \ {0}
    BY <1>1, <1>2, <1>5, <2>3
  <2>5. Written(plain(d) \o padded(c) \o padded(b) \o padded(a), a + B * (b + B * (c + B * d)))
    BY <1>1, <1>2, <1>5, <2>4
  <2> QED BY <1>3, <2>1, <2>5
<1>8. CASE d = 0 /\ c # 0
  <2>1. h = plain(c) \o padded(b) \o padded(a)
    BY <1>2, <1>8 DEF uint256_format_as_hex
  <2>2. Written(plain(c), c) /\ c \in Nat \ {0} /\ c + B * d = c
    BY <1>1, <1>2, <1>4, <1>6, <1>8
  <2>3. Written(plain(c) \o padded(b), b + B * c) /\ b + B * c \in Nat \ {0}
    BY <1>1, <1>2, <1>5, <2>2
  <2>4. Written(plain(c) \o padded(b) \o padded(a), a + B * (b + B * c))
    BY <1>1, <1>2, <1>5, <2>3
  <2> QED BY <1>3, <2>1, <2>2, <2>4
<1>9. CASE d = 0 /\ c = 0 /\ b # 0
  <2>1. h = plain(b) \o padded(a)
    BY <1>2, <1>9 DEF uint256_format_as_hex
  <2>2. Written(plain(b), b) /\ b \in Nat \ {0} /\ b + B * (c + B * d) = b
    BY <1>1, <1>2, <1>4, <1>6, <1>9
  <2>3. Written(plain(b) \o padded(a), a + B * b)
    BY <1>1, <1>2, <1>5, <2>2
  <2> QED BY <1>3, <2>1, <2>2, <2>3
<1>10. CASE d = 0 /\ c = 0 /\ b = 0
  <2>1. h = plain(a)
    BY <1>2, <1>10 DEF uint256_format_as_hex
  <2>2. Written(plain(a), a) /\ a + B * (b + B * (c + B * d)) = a
    BY <1>1, <1>2, <1>4, <1>6, <1>10
  <2> QED BY <1>3, <2>1, <2>2
<1> QED BY <1>7, <1>8, <1>9, <1>10

\* What is written is read back.
LEMMA RoundTrip ==
  ASSUME NEW val \in UInt256
  PROVE  uint256_create_from_hex(uint256_format_as_hex(val)) = val
<1> DEFINE h == uint256_format_as_hex(val)
           x == uint256_create_from_hex(h)
<1>1. h \in Seq(Digit) /\ strtoul(h) = Value(val)
  BY FormatIs DEF Written
<1> HIDE DEF h
<1>2. x \in UInt256 /\ Value(x) = strtoul(h) % Modulus
  BY <1>1, CreateFromHexIs
<1>3. Value(val) \in 0 .. Modulus - 1 /\ Modulus \in Nat \ {0}
  BY ValueType, TwoTo, WidthAssumption DEF Modulus
<1>4. Value(val) % Modulus = Value(val)
  <2>1. PICK m \in Nat \ {0}, v \in Nat : m = Modulus /\ v = Value(val) /\ v < m
    BY <1>3
  <2>2. (m * 0 + v) % m = v
    BY <2>1, Division
  <2>3. m * 0 + v = v
    OBVIOUS
  <2> QED BY <2>1, <2>2, <2>3
<1>5. Value(x) = Value(val)
  BY <1>1, <1>2, <1>4
<1>6. x = [k \in 0 .. 3 |-> shr(Value(x), k * W) % Base]
  <2> HIDE DEF x
  <2> QED BY <1>2, LimbsOf
<1>7. val = [k \in 0 .. 3 |-> shr(Value(val), k * W) % Base]
  BY LimbsOf
<1> HIDE DEF x
<1> QED BY <1>5, <1>6, <1>7 DEF x, h

-----------------------------------------------------------------------------
(***************************************************************************)
(* The calls.                                                              *)
(***************************************************************************)
\* What a call has computed.  The product so far is right if the whole one has room
\* in two limbs.
Inv ==
  /\ op \in {"add", "sub", "mul", "leftshift"} => left \in UInt256 /\ right \in UInt256
  /\ pc = "done" /\ op = "add" => result = uint256_add(left, right)
  /\ pc = "done" /\ op = "sub" => result = uint256_sub(left, right)
  /\ op = "leftshift" => i \in 0 .. 4 * W - 1
  /\ pc = "done" /\ op = "leftshift" => result = uint256_leftshift(left, i)
  /\ op = "mul" => /\ result \in UInt256 /\ i \in 0 .. 4 * W
                   /\ pc \in {"call", "loop"} => i < 4 * W
                   /\ MulIsProduct

\* uint256_mul starts from zero.
LEMMA ZeroType == Zero \in UInt256 /\ Value(Zero) = 0
<1>1. Zero[0] = 0 /\ Zero[1] = 0 /\ Zero[2] = 0 /\ Zero[3] = 0 /\ Zero = [k \in 0 .. 3 |-> Zero[k]]
  <2>1. Zero = [k \in 0 .. 3 |-> <<0, 0, 0, 0>>[k + 1]]
    BY DEF Zero, uint256_create_from_u64, uint256_create
  <2> QED BY <2>1
<1>2. 0 \in Limb /\ Base \in Nat
  BY Powers DEF Limb
<1>3. Zero \in UInt256
  BY <1>1, <1>2 DEF UInt256
<1>4. 0 + Base * (0 + Base * (0 + Base * 0)) = 0
  BY <1>2
<1> QED BY <1>1, <1>3, <1>4 DEF Value

\* The invariant holds before the call.
LEMMA InvInit == Init => Inv
<1> SUFFICES ASSUME Init PROVE Inv
  OBVIOUS
<1>1. pc = "call" /\ result = Zero /\ W \in Nat \ {0}
  BY WidthAssumption DEF Init
<1>2. op \in {"add", "sub", "mul", "leftshift"} => left \in UInt256 /\ right \in UInt256
  BY ZeroType DEF Init
<1>3. op = "leftshift" => i \in 0 .. 4 * W - 1
  BY DEF Init
<1>4. ASSUME op = "mul"
      PROVE  /\ result \in UInt256 /\ i \in 0 .. 4 * W
             /\ pc \in {"call", "loop"} => i < 4 * W
             /\ MulIsProduct
  <2>1. i = 0 /\ left \in UInt256 /\ right \in UInt256
    BY <1>4 DEF Init
  <2>2. Value(left) % two_to[i] = 0
    <3>1. Value(left) \in Nat /\ two_to[0] = 1
      BY <2>1, ValueType, Powers
    <3> QED BY <2>1, <3>1
  <2>3. MulIsProduct
    <3>1. Value(right) \in Nat
      BY <2>1, ValueType, Powers
    <3> QED BY <1>1, <2>2, <3>1, ZeroType DEF MulIsProduct
  <2> QED BY <1>1, <2>1, <2>3, ZeroType
<1> QED BY <1>1, <1>2, <1>3, <1>4 DEF Inv

\* Every function keeps it.
LEMMA InvStep == Inv /\ [Next]_vars => Inv'
<1> SUFFICES ASSUME Inv, [Next]_vars PROVE Inv'
  OBVIOUS
<1>1. CASE Add
  BY <1>1 DEF Add, Return, Inv
<1>2. CASE Sub
  BY <1>2 DEF Sub, Return, Inv
<1>3. CASE LeftShift
  BY <1>3 DEF LeftShift, Return, Inv
<1>4. CASE CreateFromHex
  BY <1>4 DEF CreateFromHex, Return, Inv
<1>5. CASE FormatAsHex
  BY <1>5 DEF FormatAsHex, Inv
<1>6. CASE Mul
  <2>1. /\ op = "mul" /\ op' = op /\ left' = left /\ right' = right
        /\ left \in UInt256 /\ right \in UInt256 /\ result \in UInt256
        /\ i' = i + 1 /\ MulIsProduct
        /\ result' = IF uint256_bit_is_set(left, i)
                     THEN uint256_add(result, uint256_leftshift(right, i)) ELSE result
        /\ pc' = IF i + 1 = 4 * W THEN "done" ELSE "loop"
    BY <1>6 DEF Mul, Inv
  <2>2. W \in Nat /\ i \in 0 .. 4 * W - 1
    BY <1>6, WidthAssumption DEF Mul, Inv
  <2>3. result' \in UInt256
    BY <2>1, <2>2, ShiftIsRight, AddIsRight
  <2>4. MulIsProduct'
    <3> SUFFICES ASSUME Value(left) * Value(right) < two_to[2 * W]
                 PROVE  Value(result') = (Value(left) % two_to[i + 1]) * Value(right)
      BY <2>1 DEF MulIsProduct, Value
    <3>1. Value(result) = (Value(left) % two_to[i]) * Value(right)
      BY <2>1 DEF MulIsProduct
    <3>2. Value(left) * Value(right) < Base * Base
      BY Powers
    <3> QED BY <2>1, <2>2, <3>1, <3>2, ProductStep
  <2>5. i' \in 0 .. 4 * W /\ (pc' \in {"call", "loop"} => i' < 4 * W)
    BY <2>1, <2>2
  <2> QED BY <2>1, <2>3, <2>4, <2>5 DEF Inv
<1>7. CASE Finished
  BY <1>7 DEF Finished, vars, Inv, MulIsProduct
<1>8. CASE UNCHANGED vars
  BY <1>8 DEF vars, Inv, MulIsProduct
<1> QED BY <1>1, <1>2, <1>3, <1>4, <1>5, <1>6, <1>7, <1>8 DEF Next

\* So it always holds.
LEMMA InvAlways == Spec => []Inv
<1> QED BY InvInit, InvStep, PTL DEF Spec

\* uint256_add and uint256_sub are right modulo 2 ^ (4 * W) exactly where no carry is lost.
THEOREM RightUpToLostCarries == Spec => []WrongOnlyWhenCarryLost
<1>1. Inv => WrongOnlyWhenCarryLost
  BY AddIsRight, SubIsRight DEF Inv, WrongOnlyWhenCarryLost
<1> QED BY <1>1, InvAlways, PTL

\* The loop of uint256_mul adds up to the product where it has room in two limbs.
THEOREM SmallProductsRight == Spec => []MulIsProduct
<1>1. Inv => MulIsProduct
  BY DEF Inv, MulIsProduct
<1> QED BY <1>1, InvAlways, PTL

\* uint256_leftshift multiplies by a power of two.
THEOREM ShiftsRight == Spec => []ShiftMultiplies
<1>1. Inv => ShiftMultiplies
  BY ShiftIsRight DEF Inv, ShiftMultiplies
<1> QED BY <1>1, InvAlways, PTL

\* What a call with a string has computed.
HexInv ==
  /\ op = "create_from_hex" => hex \in Seq(Digit)
  /\ pc = "done" /\ op = "create_from_hex" => result = uint256_create_from_hex(hex)
  /\ op = "format_as_hex" => left \in UInt256
  /\ pc = "done" /\ op = "format_as_hex" => hex = uint256_format_as_hex(left)

\* The arguments of the calls are strings and numbers.
LEMMA HexInvInit == Init => HexInv
<1> SUFFICES ASSUME Init PROVE HexInv
  OBVIOUS
<1>1. Strings \subseteq Seq(Digit)
  <2> SUFFICES ASSUME NEW s \in Strings PROVE s \in Seq(Digit)
    OBVIOUS
  <2>1. PICK n \in 0 .. MaxDigits : s \in [1 .. n -> Digit]
    BY DEF Strings
  <2>2. n \in Nat
    BY WidthAssumption
  <2> QED BY <2>1, <2>2
<1> QED BY <1>1 DEF Init, HexInv

\* Every function keeps it.
LEMMA HexInvStep == HexInv /\ [Next]_vars => HexInv'
<1> SUFFICES ASSUME HexInv, [Next]_vars PROVE HexInv'
  OBVIOUS
<1>1. CASE Add
  BY <1>1 DEF Add, Return, HexInv
<1>2. CASE Sub
  BY <1>2 DEF Sub, Return, HexInv
<1>3. CASE LeftShift
  BY <1>3 DEF LeftShift, Return, HexInv
<1>4. CASE CreateFromHex
  BY <1>4 DEF CreateFromHex, Return, HexInv
<1>5. CASE FormatAsHex
  BY <1>5 DEF FormatAsHex, HexInv
<1>6. CASE Mul
  BY <1>6 DEF Mul, HexInv
<1>7. CASE Finished
  BY <1>7 DEF Finished, vars, HexInv
<1>8. CASE UNCHANGED vars
  BY <1>8 DEF vars, HexInv
<1> QED BY <1>1, <1>2, <1>3, <1>4, <1>5, <1>6, <1>7, <1>8 DEF Next

\* uint256_create_from_hex takes the last 4 * D digits of any string, and reads back
\* what uint256_format_as_hex writes, which has no leading zero.
THEOREM HexRight == Spec => []HexIsValue
<1>1. HexInv => HexIsValue
  <2> SUFFICES ASSUME HexInv PROVE HexIsValue
    OBVIOUS
  <2>1. ASSUME pc = "done", op = "create_from_hex"
        PROVE  Value(result) = strtoul(hex) % Modulus
    BY <2>1, CreateFromHexIs DEF HexInv
  <2>2. ASSUME pc = "done", op = "format_as_hex"
        PROVE  /\ uint256_create_from_hex(hex) = left
               /\ Len(hex) > 1 => hex[1] # 0
    BY <2>2, RoundTrip, FormatIs DEF HexInv, Written
  <2> QED BY <2>1, <2>2 DEF HexIsValue
<1> QED BY <1>1, HexInvInit, HexInvStep, PTL DEF Spec

=============================================================================
