----------------------------- MODULE Arithmetic -----------------------------
(* Facts about quotients, remainders and induction that the proofs share.     *)
(* Registers wrap, memories are mirrored and intervals repeat, each by a      *)
(* length that is a constant, so most of what the proofs compute is a         *)
(* quotient or a remainder by a number that is not known.                     *)
EXTENDS Integers, FiniteSetTheorems, WellFoundedInduction, TLAPS

-----------------------------------------------------------------------------
\* A product grows with its factor.
LEMMA ProductMonotone ==
  ASSUME NEW b \in Nat, NEW x \in Int, NEW y \in Int, x <= y
  PROVE  b * x <= b * y
<1>1. y - x \in Nat
  OBVIOUS
<1>2. b * (y - x) \in Nat
  BY <1>1
<1>3. b * (y - x) = b * y - b * x
  OBVIOUS
<1>4. b * x \in Int /\ b * y \in Int
  OBVIOUS
<1>5. QED
  BY <1>2, <1>3, <1>4

\* The quotient and the remainder of a division.
LEMMA Divided ==
  ASSUME NEW a \in Int, NEW b \in Nat \ {0}
  PROVE  /\ a \div b \in Int /\ a % b \in 0..(b - 1)
         /\ a = b * (a \div b) + (a % b)
  OBVIOUS

\* They are the only ones.
LEMMA Division ==
  ASSUME NEW b \in Nat \ {0}, NEW q \in Int, NEW r \in 0..(b - 1),
         NEW a \in Int, a = b * q + r
  PROVE  a \div b = q /\ a % b = r
<1> DEFINE p == a \div b
           s == a % b
<1>1. p \in Int /\ s \in 0..(b - 1) /\ a = b * p + s
  BY Divided
<1> HIDE DEF p, s
<1>2. b * p \in Int /\ b * q \in Int /\ b * (p + 1) = b * p + b /\ b * (q + 1) = b * q + b
  BY <1>1
<1>3. ~(p < q)
  <2> SUFFICES ASSUME p < q PROVE FALSE
    OBVIOUS
  <2>1. b * (p + 1) <= b * q
    BY <1>1, ProductMonotone
  <2>2. QED
    BY <1>1, <1>2, <2>1
<1>4. ~(q < p)
  <2> SUFFICES ASSUME q < p PROVE FALSE
    OBVIOUS
  <2>1. b * (q + 1) <= b * p
    BY <1>1, ProductMonotone
  <2>2. QED
    BY <1>1, <1>2, <2>1
<1>5. p = q
  BY <1>1, <1>3, <1>4
<1>6. QED
  BY <1>1, <1>5 DEF p, s

\* The same of a sum that stands as one.
LEMMA DivisionOf ==
  ASSUME NEW b \in Nat \ {0}, NEW q \in Int, NEW r \in 0..(b - 1)
  PROVE  (b * q + r) \div b = q /\ (b * q + r) % b = r
<1> DEFINE a == b * q + r
<1>1. a \in Int /\ a = b * q + r
  OBVIOUS
<1> HIDE DEF a
<1>2. a \div b = q /\ a % b = r
  BY <1>1, Division
<1>3. QED
  BY <1>2 DEF a

\* A quotient of a natural number is one, and no greater than what its dividend
\* is below a multiple of.
LEMMA QuotientBelow ==
  ASSUME NEW b \in Nat \ {0}, NEW n \in Nat, NEW a \in 0..(b * n - 1)
  PROVE  a \div b \in 0..(n - 1)
<1> DEFINE q == a \div b
<1>1. q \in Int /\ a % b \in 0..(b - 1) /\ a = b * q + (a % b)
  BY Divided
<1> HIDE DEF q
<1>2. b * n \in Int /\ b * q \in Int /\ b * 0 = 0 /\ b * (-1) = -b
  BY <1>1
<1>3. ~(q >= n)
  <2> SUFFICES ASSUME q >= n PROVE FALSE
    OBVIOUS
  <2>1. b * n <= b * q
    BY <1>1, ProductMonotone
  <2>2. QED
    BY <1>1, <1>2, <2>1
<1>4. ~(q <= -1)
  <2> SUFFICES ASSUME q <= -1 PROVE FALSE
    OBVIOUS
  <2>1. b * q <= b * (-1)
    BY <1>1, ProductMonotone
  <2>2. QED
    BY <1>1, <1>2, <2>1
<1>5. QED
  BY <1>1, <1>3, <1>4 DEF q

\* Whole lengths more or less change no remainder.
LEMMA RemainderOfSum ==
  ASSUME NEW b \in Nat \ {0}, NEW a \in Int, NEW n \in Int
  PROVE  (a + b * n) % b = a % b
<1> DEFINE q == a \div b
           r == a % b
           sum == a + b * n
<1>1. q \in Int /\ r \in 0..(b - 1) /\ a = b * q + r
  BY Divided
<1> HIDE DEF q, r
<1>2. sum \in Int /\ q + n \in Int /\ sum = b * (q + n) + r
  BY <1>1
<1> HIDE DEF sum
<1>3. sum % b = r
  BY <1>1, <1>2, Division
<1>4. QED
  BY <1>3 DEF sum, r

-----------------------------------------------------------------------------
(* Induction over the natural numbers, stated of a set.                       *)

\* A set of natural numbers has a least one.
LEMMA LeastNumber ==
  ASSUME NEW S, S \subseteq Nat, S # {}
  PROVE  \E m \in S : \A n \in S : m <= n
<1> DEFINE Before == OpToRel(<, Nat)
<1>1. IsWellFoundedOn(Before, Nat)
  BY NatLessThanWellFounded
<1>2. \A x, y \in Nat : x < y => <<x, y>> \in Before
  BY DEF Before, OpToRel
<1> HIDE DEF Before
<1>3. PICK m \in S : \A n \in S : ~(<<n, m>> \in Before)
  BY <1>1, WFMin
<1>4. ASSUME NEW n \in S PROVE m <= n
  <2>1. m \in Nat /\ n \in Nat /\ ~(<<n, m>> \in Before)
    BY <1>3
  <2>2. ~(n < m)
    BY <1>2, <2>1
  <2>3. QED
    BY <2>1, <2>2
<1>5. QED
  BY <1>4

\* What holds of zero and passes from each number to the next holds of all.
LEMMA Induction ==
  ASSUME NEW S, 0 \in S, \A n \in Nat : n \in S => n + 1 \in S
  PROVE  Nat \subseteq S
<1> DEFINE Rest == Nat \ S
<1> SUFFICES ASSUME Rest # {} PROVE FALSE
  OBVIOUS
<1>1. PICK m \in Rest : \A n \in Rest : m <= n
  BY LeastNumber
<1>2. m # 0 /\ m - 1 \in Nat /\ (m - 1) + 1 = m
  BY <1>1
<1>3. m - 1 \in S
  BY <1>1, <1>2
<1>4. QED
  BY <1>1, <1>2, <1>3

-----------------------------------------------------------------------------
(* Functions defined by recursion over 0..N: W[n][s] is the n-th step from s. *)

StepsWithin(W, N, S) == \A n \in 1..N, s \in S : W[n][s] \in S

StepsFrom(f, start, W, N) == f[0] = start /\ \A n \in 1..N : f[n] = W[n][f[n - 1]]

SequenceExists(start, W, N, S) == \E f \in [0..N -> S] : StepsFrom(f, start, W, N)

\* There is such a function.
LEMMA RecursionExists ==
  ASSUME NEW N \in Nat, NEW S, NEW start \in S, NEW W, StepsWithin(W, N, S)
  PROVE  SequenceExists(start, W, N, S)
<1> SUFFICES \E f \in [0..N -> S] : f[0] = start /\ \A n \in 1..N : f[n] = W[n][f[n - 1]]
  BY DEF SequenceExists, StepsFrom
<1> USE DEF StepsWithin
<1> DEFINE Follows(f, m) == f[0] = start /\ \A n \in 1..m : f[n] = W[n][f[n - 1]]
           Good == {m \in Nat : m > N \/ \E f \in [0..m -> S] : Follows(f, m)}
<1>1. 0 \in Good
  <2> DEFINE f == [n \in 0..0 |-> start]
  <2>1. f \in [0..0 -> S] /\ Follows(f, 0)
    OBVIOUS
  <2>2. QED
    BY <2>1
<1>2. ASSUME NEW m \in Nat, m \in Good PROVE m + 1 \in Good
  <2>1. CASE m + 1 > N
    BY <2>1
  <2>2. CASE m + 1 <= N
    <3>1. PICK f \in [0..m -> S] : Follows(f, m)
      BY <1>2, <2>2
    <3> DEFINE last == W[m + 1][f[m]]
               g == [n \in 0..(m + 1) |-> IF n = m + 1 THEN last ELSE f[n]]
    <3>2. f[m] \in S /\ m + 1 \in 1..N
      BY <2>2
    <3>3. last \in S
      BY <3>2
    <3> HIDE DEF last
    <3>4. g \in [0..(m + 1) -> S]
      BY <3>3
    <3>5. g[0] = start
      BY <3>1
    <3>6. ASSUME NEW n \in 1..(m + 1) PROVE g[n] = W[n][g[n - 1]]
      <4>1. CASE n = m + 1
        <5>1. g[n] = last /\ g[n - 1] = f[m]
          BY <4>1
        <5>2. QED
          BY <4>1, <5>1 DEF last
      <4>2. CASE n # m + 1
        <5>1. n \in 1..m /\ g[n] = f[n] /\ g[n - 1] = f[n - 1]
          BY <4>2
        <5>2. QED
          BY <3>1, <5>1
      <4>3. QED
        BY <4>1, <4>2
    <3>7. Follows(g, m + 1)
      BY <3>5, <3>6
    <3> HIDE DEF g, Follows
    <3>8. QED
      BY <3>4, <3>7
  <2>3. QED
    BY <2>1, <2>2
<1> HIDE DEF Good
<1>3. Nat \subseteq Good
  BY <1>1, <1>2, Induction
<1>4. QED
  BY <1>3 DEF Good

\* What passes from each step to the next holds of all of them.
LEMMA RecursionStays ==
  ASSUME NEW N \in Nat, NEW S, NEW f, f[0] \in S,
         \A n \in 1..N : f[n - 1] \in S => f[n] \in S
  PROVE  \A n \in 0..N : f[n] \in S
<1> DEFINE Good == {m \in Nat : m > N \/ f[m] \in S}
<1>1. 0 \in Good
  OBVIOUS
<1>2. ASSUME NEW m \in Nat, m \in Good PROVE m + 1 \in Good
  <2>1. CASE m + 1 > N
    BY <2>1
  <2>2. CASE m + 1 <= N
    <3>1. f[m] \in S /\ m + 1 \in 1..N /\ (m + 1) - 1 = m
      BY <1>2, <2>2
    <3>2. QED
      BY <3>1
  <2>3. QED
    BY <2>1, <2>2
<1> HIDE DEF Good
<1>3. Nat \subseteq Good
  BY <1>1, <1>2, Induction
<1>4. QED
  BY <1>3 DEF Good

\* Whole lengths more or less in a dividend are as many in the quotient.
LEMMA QuotientOfSum ==
  ASSUME NEW b \in Nat \ {0}, NEW a \in Int, NEW n \in Int
  PROVE  (b * n + a) \div b = n + (a \div b) /\ (b * n + a) % b = a % b
<1> DEFINE q == a \div b
           r == a % b
           sum == b * n + a
<1>1. q \in Int /\ r \in 0..(b - 1) /\ a = b * q + r
  BY Divided
<1> HIDE DEF q, r
<1>2. sum \in Int /\ n + q \in Int /\ sum = b * (n + q) + r
  BY <1>1
<1> HIDE DEF sum
<1>3. sum \div b = n + q /\ sum % b = r
  BY <1>1, <1>2, Division
<1>4. QED
  BY <1>3 DEF sum, q, r

\* A quotient of a quotient is one by the product.
LEMMA QuotientTwice ==
  ASSUME NEW a \in Int, NEW b \in Nat \ {0}, NEW c \in Nat \ {0}
  PROVE  (a \div b) \div c = a \div (b * c)
<1> DEFINE q == a \div b
           r == a % b
           p == q \div c
           s == q % c
           n == b * c
           rest == b * s + r
<1>1. q \in Int /\ r \in 0..(b - 1) /\ a = b * q + r
  BY Divided
<1> HIDE DEF q, r
<1>2. p \in Int /\ s \in 0..(c - 1) /\ q = c * p + s
  BY <1>1, Divided
<1> HIDE DEF p, s
<1>3. a = b * (c * p + s) + r
  BY <1>1, <1>2
<1>4. b * (c * p + s) = n * p + b * s
  BY <1>2
<1>5. b * s <= b * (c - 1) /\ b * (c - 1) = n - b
  <2>1. s \in Int /\ c - 1 \in Int /\ s <= c - 1
    BY <1>2
  <2>2. b * s <= b * (c - 1)
    BY <2>1, ProductMonotone
  <2>3. QED
    BY <2>2
<1>6. b * s \in Nat /\ n \in Nat \ {0} /\ n * p \in Int
  BY <1>2
<1> HIDE DEF n
<1>7. rest \in 0..(n - 1) /\ a = n * p + rest
  <2> HIDE DEF rest
  <2> DEFINE scaled == b * s
             whole == n * p
  <2>1. scaled \in Nat /\ whole \in Int /\ scaled <= n - b
        /\ a = whole + scaled + r /\ rest = scaled + r
    BY <1>3, <1>4, <1>5, <1>6 DEF rest
  <2> HIDE DEF scaled, whole
  <2>2. rest \in 0..(n - 1) /\ a = whole + rest
    BY <1>1, <1>6, <2>1
  <2>3. QED
    BY <2>2 DEF whole
<1> HIDE DEF rest
<1>8. a \div n = p
  BY <1>2, <1>6, <1>7, Division
<1>9. QED
  BY <1>8 DEF n, p, q

\* A quotient is no further from zero than its dividend.
LEMMA QuotientWithin ==
  ASSUME NEW a \in Int, NEW b \in Nat \ {0}, NEW n \in Nat, -n <= a, a < n
  PROVE  -n <= a \div b /\ a \div b < n
<1> DEFINE q == a \div b
           r == a % b
<1>1. q \in Int /\ r \in 0..(b - 1) /\ a = b * q + r
  BY Divided
<1> HIDE DEF q, r
<1>2. n <= b * n
  <2>1. n * 1 <= n * b
    <3>1. 1 \in Int /\ b \in Int /\ 1 <= b
      OBVIOUS
    <3>2. QED
      BY <3>1, ProductMonotone
  <2>2. n * 1 = n /\ n * b = b * n
    OBVIOUS
  <2>3. QED
    BY <2>1, <2>2
<1>3. ASSUME n <= q PROVE FALSE
  <2>1. b * n <= b * q
    BY <1>1, <1>3, ProductMonotone
  <2>2. b * n \in Int /\ b * q \in Int
    BY <1>1
  <2>3. QED
    BY <1>1, <1>2, <2>1, <2>2
<1>4. ASSUME q <= -n - 1 PROVE FALSE
  <2>1. -n - 1 \in Int
    OBVIOUS
  <2>2. b * q <= b * (-n - 1)
    BY <1>1, <1>4, <2>1, ProductMonotone
  <2>3. b * (-n - 1) = -(b * n) - b
    OBVIOUS
  <2>4. b * n \in Int /\ b * q \in Int
    BY <1>1
  <2>5. QED
    BY <1>1, <1>2, <2>2, <2>3, <2>4
<1>5. QED
  BY <1>1, <1>3, <1>4 DEF q

-----------------------------------------------------------------------------
(* Powers of two.  The provers know no more of them than their first few      *)
(* values; the library knows that a set has as many subsets.                  *)

LEMMA SubsetsOfInterval ==
  ASSUME NEW n \in Nat
  PROVE  /\ IsFiniteSet(SUBSET (1..n)) /\ Cardinality(SUBSET (1..n)) = 2^n
         /\ 2^n \in Nat
<1>1. IsFiniteSet(1..n) /\ Cardinality(1..n) = IF 1 > n THEN 0 ELSE n - 1 + 1
  BY FS_Interval
<1>2. Cardinality(1..n) = n
  BY <1>1
<1>3. IsFiniteSet(SUBSET (1..n)) /\ Cardinality(SUBSET (1..n)) = 2^n
  BY <1>1, <1>2, FS_SUBSET
<1>4. QED
  BY <1>3, FS_CardinalityType

LEMMA PowerDoubles ==
  ASSUME NEW n \in Nat
  PROVE  2^(n + 1) = 2 * 2^n
<1> DEFINE few == SUBSET (1..n)
           last == n + 1
           many == {x \cup {last} : x \in few}
           f == [x \in few |-> x \cup {last}]
<1>1. last \notin 1..n /\ 1..last = (1..n) \cup {last} /\ last \in Nat
  OBVIOUS
<1>2. /\ IsFiniteSet(few) /\ Cardinality(few) = 2^n /\ 2^n \in Nat
      /\ Cardinality(SUBSET (1..last)) = 2^last
  BY <1>1, SubsetsOfInterval
<1>3. SUBSET (1..last) = few \cup many
  <2>1. ASSUME NEW y \in SUBSET (1..last) PROVE y \in few \cup many
    <3> DEFINE x == y \ {last}
    <3>1. x \in few
      BY <1>1
    <3>2. y = x \/ y = x \cup {last}
      OBVIOUS
    <3> HIDE DEF x
    <3>3. QED
      BY <3>1, <3>2
  <2>2. few \cup many \subseteq SUBSET (1..last)
    BY <1>1
  <2>3. QED
    BY <2>1, <2>2
<1>4. few \cap many = {}
  BY <1>1
<1>5. f \in Bijection(few, many)
  <2>1. f \in [few -> many]
    OBVIOUS
  <2>2. ASSUME NEW x \in few, NEW y \in few, f[x] = f[y] PROVE x = y
    <3>1. last \notin x /\ last \notin y /\ x \cup {last} = y \cup {last}
      BY <1>1, <2>2
    <3>2. QED
      BY <3>1
  <2>3. \A z \in many : \E x \in few : f[x] = z
    OBVIOUS
  <2>4. QED
    BY <2>1, <2>2, <2>3 DEF Bijection, Injection, Surjection, IsInjective
<1>6. IsFiniteSet(many) /\ Cardinality(many) = 2^n
  BY <1>2, <1>5, FS_Bijection DEF ExistsBijection
<1>7. Cardinality(few \cup many) = Cardinality(few) + Cardinality(many) - Cardinality(few \cap many)
  BY <1>2, <1>6, FS_Union
<1> HIDE DEF few, many
<1>8. Cardinality(few \cap many) = 0
  BY <1>4, FS_EmptySet, Zenon
<1>9. Cardinality(few \cup many) = 2^(n + 1)
  BY <1>2, <1>3, Zenon
<1> HIDE DEF f
<1>10. QED
  BY <1>2, <1>6, <1>7, <1>8, <1>9

LEMMA PowerPositive ==
  ASSUME NEW n \in Nat
  PROVE  2^n \in Nat \ {0}
<1> DEFINE Good == {m \in Nat : 2^m \in Nat \ {0}}
<1>1. 0 \in Good
  OBVIOUS
<1>2. ASSUME NEW m \in Nat, m \in Good PROVE m + 1 \in Good
  BY <1>2, PowerDoubles
<1> HIDE DEF Good
<1>3. Nat \subseteq Good
  BY <1>1, <1>2, Induction
<1>4. QED
  BY <1>3 DEF Good

LEMMA PowersMultiply ==
  ASSUME NEW m \in Nat, NEW n \in Nat
  PROVE  2^(m + n) = 2^m * 2^n
<1> DEFINE Good == {k \in Nat : 2^(m + k) = 2^m * 2^k}
<1>1. 0 \in Good
  <2>1. m + 0 = m /\ 2^m \in Nat /\ 2^0 = 1
    BY PowerPositive
  <2>2. QED
    BY <2>1
<1>2. ASSUME NEW k \in Nat, k \in Good PROVE k + 1 \in Good
  <2>1. 2^((m + k) + 1) = 2 * 2^(m + k) /\ 2^(k + 1) = 2 * 2^k
    <3>1. m + k \in Nat
      OBVIOUS
    <3>2. QED
      BY <3>1, PowerDoubles
  <2>2. 2^m \in Nat /\ 2^k \in Nat
    BY PowerPositive
  <2>3. 2 * (2^m * 2^k) = 2^m * (2 * 2^k)
    BY <2>2
  <2>4. m + (k + 1) = (m + k) + 1
    OBVIOUS
  <2>5. QED
    BY <1>2, <2>1, <2>3, <2>4
<1> HIDE DEF Good
<1>3. Nat \subseteq Good
  BY <1>1, <1>2, Induction
<1>4. QED
  BY <1>3 DEF Good

-----------------------------------------------------------------------------
(* Bits.  Bit i of a number is the parity of its quotient by 2^i.             *)

IsBit(n, i) == (n \div 2^i) % 2 = 1

\* The bits of a number shifted right are those of the number,
LEMMA ShiftedBit ==
  ASSUME NEW n \in Int, NEW k \in Nat, NEW i \in Nat
  PROVE  (n \div 2^k) \div 2^i = n \div 2^(k + i)
<1> DEFINE b == 2^k
           p == 2^i
<1>1. b \in Nat \ {0} /\ p \in Nat \ {0} /\ 2^(k + i) = b * p
  BY PowerPositive, PowersMultiply
<1> HIDE DEF b, p
<1>2. (n \div b) \div p = n \div (b * p)
  BY <1>1, QuotientTwice
<1>3. QED
  BY <1>1, <1>2 DEF b, p

\* and those of its remainder are the lower ones.
LEMMA LowBit ==
  ASSUME NEW n \in Int, NEW k \in Nat, NEW i \in Nat
  PROVE  IsBit(n % 2^k, i) <=> i < k /\ IsBit(n, i)
<1> DEFINE b == 2^k
           p == 2^i
           q == n \div b
           r == n % b
<1>1. b \in Nat \ {0} /\ p \in Nat \ {0}
  BY PowerPositive
<1>2. q \in Int /\ r \in 0..(b - 1) /\ n = b * q + r
  BY <1>1, Divided
<1> HIDE DEF q, r
<1>3. CASE i < k
  <2> DEFINE c == 2^(k - i - 1)
  <2>1. k - i - 1 \in Nat /\ k = (i + 1) + (k - i - 1)
    BY <1>3
  <2>2. c \in Nat
    BY <2>1, PowerPositive
  <2>3. b = (2 * p) * c
    <3>1. i + 1 \in Nat
      OBVIOUS
    <3>2. 2^((i + 1) + (k - i - 1)) = 2^(i + 1) * 2^(k - i - 1)
      BY <2>1, <3>1, PowersMultiply
    <3>3. 2^(i + 1) = 2 * 2^i
      BY PowerDoubles
    <3>4. QED
      BY <2>1, <3>2, <3>3
  <2> DEFINE m == 2 * (c * q)
             s == r \div p
  <2> HIDE DEF b, c, p
  <2>4. b * q = p * m
    BY <1>1, <1>2, <2>2, <2>3
  <2>5. m \in Int /\ c * q \in Int /\ r \in Int /\ s \in Int
    BY <1>1, <1>2, <2>2, Divided
  <2>6. (p * m + r) \div p = m + s
    <3> HIDE DEF m, s
    <3>1. (p * m + r) \div p = m + (r \div p)
      BY <1>1, <2>5, QuotientOfSum
    <3>2. QED
      BY <3>1 DEF s
  <2> HIDE DEF s
  <2>7. (m + s) % 2 = s % 2
    <3>1. (2 * (c * q) + s) % 2 = s % 2
      <4> DEFINE w == c * q
      <4>1. w \in Int
        BY <2>5
      <4> HIDE DEF w
      <4>2. (2 * w + s) % 2 = s % 2
        BY <2>5, <4>1
      <4>3. QED
        BY <4>2 DEF w
    <3>2. QED
      BY <3>1
  <2>8. n \div p = m + s
    BY <1>2, <2>4, <2>6
  <2>9. QED
    BY <1>3, <2>7, <2>8 DEF IsBit, r, s, p, b
<1>4. CASE k <= i
  <2>1. i - k \in Nat /\ i = k + (i - k)
    BY <1>4
  <2>2. 2^(k + (i - k)) = 2^k * 2^(i - k) /\ 2^(i - k) \in Nat \ {0}
    BY <2>1, PowersMultiply, PowerPositive
  <2>3. b * 1 <= b * 2^(i - k)
    <3>1. 1 <= 2^(i - k) /\ 2^(i - k) \in Int /\ b \in Nat
      BY <1>1, <2>2
    <3>2. QED
      BY <3>1, ProductMonotone
  <2>4. b <= p
    BY <1>1, <2>1, <2>2, <2>3
  <2> HIDE DEF b, p
  <2>5. r \in 0..(p - 1) /\ r = p * 0 + r
    BY <1>1, <1>2, <2>4
  <2>6. r \div p = 0
    BY <1>1, <2>5, Division
  <2>7. ~IsBit(r, i)
    <3>1. 0 % 2 # 1
      OBVIOUS
    <3>2. QED
      BY <2>6, <3>1 DEF IsBit, p
  <2>8. ~(i < k)
    BY <1>4
  <2>9. QED
    BY <2>7, <2>8 DEF r, b
<1>5. QED
  BY <1>3, <1>4

\* Any set of bits is that of a number.
LEMMA NumberOfBits ==
  ASSUME NEW k \in Nat, NEW S \in SUBSET (0..(k - 1))
  PROVE  \E n \in 0..(2^k - 1) : \A i \in Nat : IsBit(n, i) <=> i \in S
<1> DEFINE Good == {m \in Nat : \A T \in SUBSET (0..(m - 1)) :
                                  \E n \in 0..(2^m - 1) : \A i \in Nat : IsBit(n, i) <=> i \in T}
<1>1. 0 \in Good
  <2> SUFFICES ASSUME NEW T \in SUBSET (0..(0 - 1))
               PROVE  \E n \in 0..(2^0 - 1) : \A i \in Nat : IsBit(n, i) <=> i \in T
    OBVIOUS
  <2>1. ASSUME NEW i \in Nat PROVE ~IsBit(0, i) /\ i \notin T
    <3>1. 2^i \in Nat \ {0} /\ 0 \in 0..(2^i - 1) /\ 0 = 2^i * 0 + 0
      BY PowerPositive
    <3>2. 0 \div 2^i = 0
      BY <3>1, Division
    <3>3. i \notin T /\ 0 % 2 # 1
      OBVIOUS
    <3>4. QED
      BY <3>2, <3>3 DEF IsBit
  <2>2. 0 \in 0..(2^0 - 1)
    OBVIOUS
  <2>3. QED
    BY <2>1, <2>2
<1>2. ASSUME NEW m \in Nat, m \in Good PROVE m + 1 \in Good
  <2> SUFFICES ASSUME NEW T \in SUBSET (0..(m + 1 - 1))
               PROVE  \E n \in 0..(2^(m + 1) - 1) : \A i \in Nat : IsBit(n, i) <=> i \in T
    OBVIOUS
  <2> DEFINE rest == {i \in 0..(m - 1) : i + 1 \in T}
             low == IF 0 \in T THEN 1 ELSE 0
  <2>1. PICK n \in 0..(2^m - 1) : \A i \in Nat : IsBit(n, i) <=> i \in rest
    BY <1>2
  <2> DEFINE x == 2 * n + low
  <2>2. 2^(m + 1) = 2 * 2^m /\ 2^m \in Nat
    BY PowerDoubles, PowerPositive
  <2>3. n \in Int /\ low \in 0..1 /\ x \in Int
    OBVIOUS
  <2>4. x \in 0..(2^(m + 1) - 1)
    BY <2>2, <2>3
  <2>5. x \div 2 = n /\ x % 2 = low
    <3> HIDE DEF low
    <3>1. QED
      BY <2>3
  <2> HIDE DEF x
  <2>6. IsBit(x, 0) <=> 0 \in T
    <3>1. 2^0 = 1 /\ x \div 1 = x
      BY <2>3
    <3>2. QED
      BY <2>5, <3>1 DEF IsBit
  <2>7. ASSUME NEW i \in Nat PROVE IsBit(x, i + 1) <=> i + 1 \in T
    <3>1. (x \div 2^1) \div 2^i = x \div 2^(1 + i)
      <4>1. 1 \in Nat
        OBVIOUS
      <4>2. QED
        BY <2>3, <4>1, ShiftedBit
    <3>2. IsBit(x, i + 1) <=> IsBit(n, i)
      <4>1. 2^1 = 2 /\ 1 + i = i + 1
        OBVIOUS
      <4>2. n \div 2^i = x \div 2^(i + 1)
        BY <2>5, <3>1, <4>1
      <4>3. QED
        BY <4>2 DEF IsBit
    <3>3. IsBit(n, i) <=> i \in rest
      BY <2>1
    <3>4. i \in rest <=> i + 1 \in T
      OBVIOUS
    <3>5. QED
      BY <3>2, <3>3, <3>4
  <2>8. ASSUME NEW i \in Nat PROVE IsBit(x, i) <=> i \in T
    <3>1. CASE i = 0
      BY <2>6, <3>1
    <3>2. CASE i # 0
      <4>1. i - 1 \in Nat /\ (i - 1) + 1 = i
        BY <3>2
      <4>2. QED
        BY <2>7, <4>1
    <3>3. QED
      BY <3>1, <3>2
  <2>9. QED
    BY <2>4, <2>8
<1> HIDE DEF Good
<1>3. Nat \subseteq Good
  BY <1>1, <1>2, Induction
<1>4. QED
  BY <1>3 DEF Good
=============================================================================
