------------------------------- MODULE AluProofs -------------------------------
(* Proofs about integer arithmetic, for words of every width: what the        *)
(* operations leave in registers and flags is the integer result.             *)
EXTENDS AluHistory, Arithmetic

-----------------------------------------------------------------------------
(* Words and the integers they stand for.                                     *)

HalfWord == 2^(WORD_BITS - 1)

LEMMA Widths ==
  /\ WORD_BITS \in Nat \ {0} /\ HalfWord \in Nat \ {0}
  /\ M \in Nat \ {0} /\ M = 2 * HalfWord /\ M \div 2 = HalfWord
<1>1. WORD_BITS \in Nat \ {0} /\ WORD_BITS - 1 \in Nat /\ WORD_BITS = (WORD_BITS - 1) + 1
  BY WordAssumption
<1>2. HalfWord \in Nat \ {0}
  BY <1>1, PowerPositive DEF HalfWord
<1>3. M = 2 * HalfWord
  <2>1. 2^((WORD_BITS - 1) + 1) = 2 * 2^(WORD_BITS - 1)
    BY <1>1, PowerDoubles
  <2>2. QED
    BY <1>1, <2>1 DEF M, HalfWord
<1>4. QED
  BY <1>1, <1>2, <1>3

LEMMA SignedValue ==
  ASSUME NEW w \in Word
  PROVE  /\ w \in Int /\ 0 <= w /\ w < M
         /\ Signed(w) \in Int
         /\ Signed(w) = IF Negative(w) THEN w - M ELSE w
         /\ Negative(w) <=> w >= HalfWord
         /\ Negative(w) <=> Signed(w) < 0
         /\ Signed(w) \in SignedRange
BY Widths DEF Word, Signed, Negative, SignedRange

LEMMA SignedRangeIs == \A n : n \in SignedRange <=> n \in Int /\ -HalfWord <= n /\ n < HalfWord
BY Widths DEF SignedRange

\* What wraps to a word differs from it by whole turns.
LEMMA Wrapped ==
  ASSUME NEW n \in Int
  PROVE  /\ Unsigned(n) \in Word
         /\ n \div M \in Int /\ n = M * (n \div M) + Unsigned(n)
         /\ n \in SignedRange <=> Signed(Unsigned(n)) = n
<1>1. n \div M \in Int /\ Unsigned(n) \in Word /\ n = M * (n \div M) + Unsigned(n)
  BY Widths, Divided DEF Unsigned, Word
<1>2. ASSUME n \in SignedRange PROVE Signed(Unsigned(n)) = n
  <2>1. n \in Int /\ -HalfWord <= n /\ n < HalfWord
    BY <1>2, SignedRangeIs
  <2>2. CASE n >= 0
    <3>1. n \in 0..(M - 1) /\ n = M * 0 + n
      BY Widths, <2>1, <2>2
    <3>2. Unsigned(n) = n
      BY Widths, <3>1, Division DEF Unsigned
    <3>3. QED
      BY Widths, <2>1, <2>2, <3>2 DEF Signed, Negative
  <2>3. CASE n < 0
    <3>1. n + M \in 0..(M - 1) /\ n = M * (-1) + (n + M)
      BY Widths, <2>1, <2>3
    <3>2. Unsigned(n) = n + M
      BY Widths, <3>1, Division DEF Unsigned
    <3>3. QED
      BY Widths, <2>1, <2>3, <3>2 DEF Signed, Negative
  <2>4. QED
    BY <2>2, <2>3
<1>3. Signed(Unsigned(n)) \in SignedRange
  BY <1>1, SignedValue
<1>4. QED
  BY <1>1, <1>2, <1>3

\* A word is what it is wrapped to, by no turns or by one.
LEMMA WrappedOnce ==
  ASSUME NEW n \in Int
  PROVE  /\ 0 <= n /\ n < M => Unsigned(n) = n
         /\ M <= n /\ n < 2 * M => Unsigned(n) = n - M
         /\ -M <= n /\ n < 0 => Unsigned(n) = n + M
<1>1. ASSUME 0 <= n, n < M PROVE Unsigned(n) = n
  <2>1. n \in 0..(M - 1) /\ n = M * 0 + n
    BY Widths, <1>1
  <2>2. QED
    BY Widths, <2>1, Division DEF Unsigned
<1>2. ASSUME M <= n, n < 2 * M PROVE Unsigned(n) = n - M
  <2>1. n - M \in 0..(M - 1) /\ n = M * 1 + (n - M)
    BY Widths, <1>2
  <2>2. QED
    BY Widths, <2>1, Division DEF Unsigned
<1>3. ASSUME -M <= n, n < 0 PROVE Unsigned(n) = n + M
  <2>1. n + M \in 0..(M - 1) /\ n = M * (-1) + (n + M)
    BY Widths, <1>3
  <2>2. QED
    BY Widths, <2>1, Division DEF Unsigned
<1>4. QED
  BY <1>1, <1>2, <1>3

\* The record of the flags, field by field.
AreFlags(f, result, ov, cy) ==
  /\ f \in Flags
  /\ f.z <=> result = 0
  /\ f.s <=> Negative(result)
  /\ f.ov <=> ov
  /\ f.cy <=> cy

LEMMA NegativeOrNot == \A w : Negative(w) \in BOOLEAN
BY DEF Negative

-----------------------------------------------------------------------------
(* Sums and differences.                                                      *)

CarryOf(f) == IF f.cy THEN 1 ELSE 0

SumLeft(f, result, left, right) ==
  /\ f \in Flags /\ result \in Word
  /\ result + M * CarryOf(f) = left + right
  /\ f.ov <=> Signed(left) + Signed(right) \notin SignedRange

LEMMA SumIsExact ==
  ASSUME NEW f \in Flags, NEW left \in Word, NEW right \in Word
  PROVE  SumLeft(AddFlags(f, left, right), Unsigned(left + right), left, right)
<1> DEFINE result == Unsigned(left + right)
           ov == Negative(left) # Negative(result) /\ Negative(right) # Negative(result)
           cy == left + right >= M
<1>1. /\ left \in Int /\ 0 <= left /\ left < M
      /\ right \in Int /\ 0 <= right /\ right < M
      /\ result \in Word
  BY SignedValue, Wrapped
<1>2. AreFlags(AddFlags(f, left, right), result, ov, cy)
  <2>1. ov \in BOOLEAN /\ cy \in BOOLEAN
    OBVIOUS
  <2>2. AddFlags(f, left, right) = [ZS(f, result) EXCEPT !.ov = ov, !.cy = cy]
    BY DEF AddFlags
  <2> HIDE DEF ov, cy, result
  <2>3. QED
    BY <2>1, <2>2, NegativeOrNot DEF AreFlags, Flags, ZS
<1>3. result = IF cy THEN left + right - M ELSE left + right
  BY Widths, <1>1, WrappedOnce
<1> HIDE DEF result
<1>4. result + M * (IF cy THEN 1 ELSE 0) = left + right
  BY Widths, <1>1, <1>3
<1>5. ov <=> Signed(left) + Signed(right) \notin SignedRange
  <2>1. /\ Negative(left) <=> left >= HalfWord
        /\ Negative(right) <=> right >= HalfWord
        /\ Negative(result) <=> result >= HalfWord
        /\ Signed(left) = IF Negative(left) THEN left - M ELSE left
        /\ Signed(right) = IF Negative(right) THEN right - M ELSE right
    BY <1>1, SignedValue
  <2>2. /\ Negative(left) \in BOOLEAN /\ Negative(right) \in BOOLEAN /\ Negative(result) \in BOOLEAN
    BY DEF Negative
  <2>3. QED
    BY Widths, SignedRangeIs, <1>1, <1>3, <2>1, <2>2
<1> DEFINE after == AddFlags(f, left, right)
<1>6. after \in Flags /\ (after.ov <=> ov) /\ (after.cy <=> cy)
  BY <1>2 DEF AreFlags
<1> HIDE DEF ov, cy, after
<1>7. CarryOf(after) = IF cy THEN 1 ELSE 0
  BY <1>6 DEF CarryOf
<1>8. SumLeft(after, result, left, right)
  BY <1>1, <1>4, <1>5, <1>6, <1>7 DEF SumLeft
<1>9. QED
  BY <1>8 DEF after, result

DifferenceLeft(f, result, left, right) ==
  /\ f \in Flags /\ result \in Word
  /\ result - M * CarryOf(f) = left - right

\* What the conditions say when they tell an order.
OrderTold(f, left, right) ==
  /\ Evaluate("Zero", f) <=> left = right
  /\ Evaluate("NotZero", f) <=> left # right
  /\ Evaluate("LessThan", f) <=> Signed(left) < Signed(right)
  /\ Evaluate("LessOrEqual", f) <=> Signed(left) <= Signed(right)
  /\ Evaluate("GreaterOrEqual", f) <=> Signed(left) >= Signed(right)
  /\ Evaluate("GreaterThan", f) <=> Signed(left) > Signed(right)
  /\ Evaluate("Carry", f) <=> left < right
  /\ Evaluate("NotHigher", f) <=> left <= right
  /\ Evaluate("NotCarry", f) <=> left >= right
  /\ Evaluate("Higher", f) <=> left > right
  /\ Evaluate("Overflow", f) <=> Signed(left) - Signed(right) \notin SignedRange

LEMMA ConditionsOf ==
  ASSUME NEW f \in Flags
  PROVE  /\ Evaluate("Zero", f) <=> f.z
         /\ Evaluate("NotZero", f) <=> ~f.z
         /\ Evaluate("LessThan", f) <=> ~(f.ov <=> f.s)
         /\ Evaluate("LessOrEqual", f) <=> ~(f.ov <=> f.s) \/ f.z
         /\ Evaluate("GreaterOrEqual", f) <=> (f.ov <=> f.s)
         /\ Evaluate("GreaterThan", f) <=> (f.ov <=> f.s) /\ ~f.z
         /\ Evaluate("Carry", f) <=> f.cy
         /\ Evaluate("NotHigher", f) <=> f.cy \/ f.z
         /\ Evaluate("NotCarry", f) <=> ~f.cy
         /\ Evaluate("Higher", f) <=> ~f.cy /\ ~f.z
         /\ Evaluate("Overflow", f) <=> f.ov
<1>1. f.z \in BOOLEAN /\ f.s \in BOOLEAN /\ f.ov \in BOOLEAN /\ f.cy \in BOOLEAN
  BY DEF Flags
<1>2. QED
  BY <1>1 DEF Evaluate

LEMMA DifferenceIsExact ==
  ASSUME NEW f \in Flags, NEW left \in Word, NEW right \in Word
  PROVE  LET after == SubFlags(f, left, right)
         IN  /\ DifferenceLeft(after, Unsigned(left - right), left, right)
             /\ OrderTold(after, left, right)
<1> DEFINE result == Unsigned(left - right)
           after == SubFlags(f, left, right)
           ov == Negative(left) # Negative(right) /\ Negative(left) # Negative(result)
           cy == left < right
<1>1. /\ left \in Int /\ 0 <= left /\ left < M
      /\ right \in Int /\ 0 <= right /\ right < M
      /\ result \in Word
  BY SignedValue, Wrapped
<1>2. AreFlags(after, result, ov, cy)
  <2>1. ov \in BOOLEAN /\ cy \in BOOLEAN
    OBVIOUS
  <2>2. after = [ZS(f, result) EXCEPT !.ov = ov, !.cy = cy]
    BY DEF SubFlags
  <2> HIDE DEF ov, cy, result, after
  <2>3. QED
    BY <2>1, <2>2, NegativeOrNot DEF AreFlags, Flags, ZS
<1>3. result = IF cy THEN left - right + M ELSE left - right
  BY Widths, <1>1, WrappedOnce
<1>4. /\ Negative(left) <=> left >= HalfWord
      /\ Negative(right) <=> right >= HalfWord
      /\ Negative(result) <=> result >= HalfWord
      /\ Signed(left) = IF Negative(left) THEN left - M ELSE left
      /\ Signed(right) = IF Negative(right) THEN right - M ELSE right
  BY <1>1, SignedValue
<1> HIDE DEF result, after
<1>5. result - M * (IF cy THEN 1 ELSE 0) = left - right
  BY Widths, <1>1, <1>3
<1>6. ov <=> Signed(left) - Signed(right) \notin SignedRange
  BY Widths, SignedRangeIs, NegativeOrNot, <1>1, <1>3, <1>4
<1>7. result = 0 <=> left = right
  BY Widths, <1>1, <1>3
<1>8. ~(ov <=> Negative(result)) <=> Signed(left) < Signed(right)
  BY Widths, NegativeOrNot, <1>1, <1>3, <1>4
<1>9. left = right <=> Signed(left) = Signed(right)
  BY Widths, NegativeOrNot, <1>1, <1>4
<1>10. Signed(left) \in Int /\ Signed(right) \in Int
  BY SignedValue
<1>11. /\ after \in Flags
       /\ after.z <=> left = right
       /\ after.ov <=> ov
       /\ ~(after.ov <=> after.s) <=> Signed(left) < Signed(right)
       /\ after.cy <=> cy
  <2> HIDE DEF ov, cy
  <2>1. QED
    BY <1>2, <1>7, <1>8 DEF AreFlags
<1>12. DifferenceLeft(after, result, left, right)
  <2> HIDE DEF cy
  <2>1. CarryOf(after) = IF cy THEN 1 ELSE 0
    BY <1>11 DEF CarryOf
  <2>2. QED
    BY <1>1, <1>5, <1>11, <2>1 DEF DifferenceLeft
<1>13. OrderTold(after, left, right)
  <2> HIDE DEF ov
  <2>1. QED
    BY <1>1, <1>6, <1>9, <1>10, <1>11, ConditionsOf DEF OrderTold
<1>14. QED
  BY <1>12, <1>13 DEF result, after

-----------------------------------------------------------------------------
(* Words as sets of bits.                                                     *)

LEMMA BitsAre == \A n, i : i \in BitsOf(n) <=> i \in 0..(WORD_BITS - 1) /\ IsBit(n, i)
BY DEF BitsOf, IsBit

\* Every set of places is that of a word.
LEMMA NumberIs ==
  ASSUME NEW bits \in SUBSET (0..(WORD_BITS - 1))
  PROVE  Number(bits) \in Word /\ BitsOf(Number(bits)) = bits
<1>1. \E n \in Word : \A i \in Nat : IsBit(n, i) <=> i \in bits
  BY Widths, NumberOfBits DEF Word, M
<1>2. PICK n \in Word : \A i \in Nat : IsBit(n, i) <=> i \in bits
  BY <1>1
<1>3. BitsOf(n) = bits
  <2>1. ASSUME NEW i \in 0..(WORD_BITS - 1) PROVE i \in BitsOf(n) <=> i \in bits
    <3>1. i \in Nat
      BY Widths
    <3>2. QED
      BY <1>2, <3>1, BitsAre
  <2>2. BitsOf(n) \subseteq 0..(WORD_BITS - 1)
    BY DEF BitsOf
  <2>3. QED
    BY <2>1, <2>2
<1>4. \E w \in Word : BitsOf(w) = bits
  BY <1>3
<1>5. QED
  BY <1>4 DEF Number

LEMMA LogicalIsWord ==
  ASSUME NEW op \in Logic, NEW left, NEW right
  PROVE  Logical(op, left, right) \in Word
<1>1. \A w : BitsOf(w) \in SUBSET (0..(WORD_BITS - 1))
  BY DEF BitsOf
<1> DEFINE a == BitsOf(left)
           b == BitsOf(right)
           all == 0..(WORD_BITS - 1)
<1>2. /\ a \cap b \in SUBSET all /\ a \cup b \in SUBSET all
      /\ (a \cup b) \ (a \cap b) \in SUBSET all /\ all \ b \in SUBSET all
  BY <1>1
<1> HIDE DEF a, b
<1>3. /\ Number(a \cap b) \in Word /\ Number(a \cup b) \in Word
      /\ Number((a \cup b) \ (a \cap b)) \in Word /\ Number(all \ b) \in Word
  BY <1>2, NumberIs
<1>4. QED
  BY <1>3 DEF Logical, Logic, a, b

LEMMA LogicFlagsAreFlags ==
  ASSUME NEW f \in Flags, NEW op, NEW result
  PROVE  LogicFlags(f, op, result) \in Flags
BY NegativeOrNot DEF LogicFlags, ZS, Flags

-----------------------------------------------------------------------------
(* Products.                                                                  *)

\* A product of numbers near zero is near zero.
LEMMA ProductWithin ==
  ASSUME NEW n \in Nat, NEW a \in Int, NEW b \in Int,
         -n <= a, a <= n, -n <= b, b <= n
  PROVE  a * b \in Int /\ -(n * n) <= a * b /\ a * b <= n * n
<1> DEFINE p == a * b
           na == n * a
           nb == n * b
           nn == n * n
<1>1. p \in Int /\ na \in Int /\ nb \in Int /\ nn \in Int
  OBVIOUS
<1>2. (n - a) * (n + b) >= 0 /\ (n + a) * (n - b) >= 0 /\ (n - a) * (n - b) >= 0 /\ (n + a) * (n + b) >= 0
  <2>1. n - a \in Nat /\ n + a \in Nat /\ n - b \in Nat /\ n + b \in Nat
    OBVIOUS
  <2>2. \A x, y \in Nat : x * y >= 0
    OBVIOUS
  <2>3. QED
    BY <2>1, <2>2
<1>3. /\ (n - a) * (n + b) = nn + nb - na - p
      /\ (n + a) * (n - b) = nn - nb + na - p
      /\ (n - a) * (n - b) = nn - nb - na + p
      /\ (n + a) * (n + b) = nn + nb + na + p
  OBVIOUS
<1> HIDE DEF p, na, nb, nn
<1>4. -nn <= p /\ p <= nn
  BY <1>1, <1>2, <1>3
<1>5. QED
  BY <1>1, <1>4 DEF p, nn

\* The high word of a product of signed words is its quotient.
LEMMA HighOfSigned ==
  ASSUME NEW p \in Int, -(HalfWord * HalfWord) <= p, p <= HalfWord * HalfWord
  PROVE  p \div M \in SignedRange
<1> DEFINE h == HalfWord
           q == p \div M
           shifted == M * h + p
           hh == h * h
<1>1. h \in Nat \ {0} /\ M = 2 * h /\ M \in Nat \ {0}
  BY Widths
<1>2. hh \in Nat \ {0}
  BY <1>1
<1>3. M * h = 2 * hh /\ M * (2 * h) = 4 * hh
  BY <1>1
<1>4. -hh <= p /\ p <= hh
  OBVIOUS
<1>5. shifted \div M = h + q
  <2> HIDE DEF h
  <2>1. QED
    BY <1>1, QuotientOfSum
<1>6. 2 * h \in Nat
  BY <1>1
<1>7. shifted \in 0..(M * (2 * h) - 1)
  <2> HIDE DEF hh, h
  <2>1. QED
    BY <1>2, <1>3, <1>4
<1> HIDE DEF shifted, h
<1>8. shifted \div M \in 0..((2 * h) - 1)
  BY <1>1, <1>6, <1>7, QuotientBelow
<1>9. q \in Int
  BY <1>1, Divided
<1> HIDE DEF q
<1>10. q \in Int /\ -h <= q /\ q < h
  BY <1>1, <1>5, <1>8, <1>9
<1>11. QED
  BY <1>10, SignedRangeIs DEF q, h
\* What a product leaves: the two words, and the overflow flag.
SignedProductLeft(result, ov, left, right) ==
  LET product == Signed(left) * Signed(right)
  IN  /\ result.low \in Word /\ result.high \in Word
      /\ ov \in BOOLEAN
      /\ ov <=> product \notin SignedRange
      /\ Signed(result.high) * M + result.low = product
      /\ result.low = product % M

UnsignedProductLeft(result, ov, left, right) ==
  LET product == left * right
  IN  /\ result.low \in Word /\ result.high \in Word
      /\ ov \in BOOLEAN
      /\ ov <=> product \notin Word
      /\ result.high * M + result.low = product
      /\ result.low = product % M

LEMMA SignedProductIsExact ==
  ASSUME NEW left \in Word, NEW right \in Word
  PROVE  SignedProductLeft(WideResult("Mul", left, right), WideOverflow("Mul", left, right),
                           left, right)
<1> DEFINE a == Signed(left)
           b == Signed(right)
           p == a * b
           low == Unsigned(p)
           high == Unsigned(p \div M)
<1>1. a \in Int /\ -HalfWord <= a /\ a <= HalfWord /\ b \in Int /\ -HalfWord <= b /\ b <= HalfWord
  BY Widths, SignedValue, SignedRangeIs
<1>2. HalfWord \in Nat
  BY Widths
<1>3. WideResult("Mul", left, right) = [low |-> low, high |-> high]
  BY DEF WideResult, Product
<1>4. WideOverflow("Mul", left, right) <=> p # Signed(low)
  BY <1>3 DEF WideOverflow, Product
<1>5. WideOverflow("Mul", left, right) \in BOOLEAN
  BY DEF WideOverflow
<1> HIDE DEF a, b
<1>6. p \in Int /\ -(HalfWord * HalfWord) <= p /\ p <= HalfWord * HalfWord
  BY <1>1, <1>2, ProductWithin
<1> HIDE DEF p
<1>7. p \div M \in SignedRange
  BY <1>6, HighOfSigned
<1>8. p \div M \in Int /\ low \in Word /\ p = M * (p \div M) + low
  BY <1>6, Wrapped
<1>9. p \in SignedRange <=> Signed(low) = p
  BY <1>6, Wrapped
<1>10. high \in Word /\ Signed(high) = p \div M
  BY <1>7, <1>8, Wrapped
<1>11. Signed(high) * M + low = p
  <2>1. low \in Int /\ M \in Int /\ M * (p \div M) = (p \div M) * M
    BY Widths, SignedValue, <1>8
  <2>2. QED
    BY <1>8, <1>10, <2>1
<1>12. low = p % M
  BY DEF Unsigned
<1> HIDE DEF low, high
<1>13. QED
  BY <1>3, <1>4, <1>5, <1>8, <1>9, <1>10, <1>11, <1>12 DEF SignedProductLeft, p, a, b

LEMMA UnsignedProductIsExact ==
  ASSUME NEW left \in Word, NEW right \in Word
  PROVE  UnsignedProductLeft(WideResult("Mulu", left, right), WideOverflow("Mulu", left, right),
                             left, right)
<1> DEFINE p == left * right
           low == Unsigned(p)
           high == Unsigned(p \div M)
<1>1. left \in Int /\ 0 <= left /\ left < M /\ right \in Int /\ 0 <= right /\ right < M
  BY SignedValue
<1>2. M \in Nat \ {0}
  BY Widths
<1>3. WideResult("Mulu", left, right) = [low |-> low, high |-> high]
  BY DEF WideResult, Product
<1>4. WideOverflow("Mulu", left, right) <=> p # low
  BY <1>3 DEF WideOverflow, Product
<1>5. WideOverflow("Mulu", left, right) \in BOOLEAN
  BY DEF WideOverflow
<1>6. p \in 0..(M * M - 1)
  <2>1. left * right <= left * (M - 1)
    <3>1. left \in Nat /\ right <= M - 1 /\ M - 1 \in Int
      BY <1>1, <1>2
    <3>2. QED
      BY <1>1, <3>1, ProductMonotone
  <2>2. M * left <= M * (M - 1)
    <3>1. left <= M - 1 /\ M - 1 \in Int /\ M \in Nat
      BY <1>1, <1>2
    <3>2. QED
      BY <1>1, <3>1, ProductMonotone
  <2> DEFINE lm == left * M
             mm == M * M
  <2>3. left * (M - 1) = lm - left /\ M * (M - 1) = mm - M /\ M * left = lm
    BY <1>1, <1>2
  <2>4. p \in Nat /\ lm \in Int /\ mm \in Int
    <3>1. left \in Nat /\ right \in Nat
      BY <1>1
    <3>2. QED
      BY <1>2, <3>1
  <2> HIDE DEF lm, p
  <2>5. p <= lm - left
    BY <2>1, <2>3 DEF p
  <2> HIDE DEF mm
  <2>6. p \in 0..(mm - 1)
    BY <1>1, <1>2, <2>2, <2>3, <2>4, <2>5
  <2>7. QED
    BY <2>6 DEF mm
<1> HIDE DEF p
<1>7. M \in Nat /\ p \in Int
  BY <1>2, <1>6
<1>8. p \div M \in Word
  BY <1>2, <1>6, <1>7, QuotientBelow DEF Word
<1>9. p \div M \in Int /\ low \in Word /\ p = M * (p \div M) + low
  BY <1>7, Wrapped
<1>10. p \in Word <=> p = low
  BY <1>7, <1>9, WrappedOnce DEF Word
<1>11. high = p \div M
  <2>1. 0 <= p \div M /\ p \div M < M
    BY <1>7, <1>8 DEF Word
  <2>2. QED
    BY <1>9, <2>1, WrappedOnce
<1>12. high * M + low = p
  <2>1. low \in Int /\ M * (p \div M) = (p \div M) * M
    BY Widths, SignedValue, <1>9
  <2>2. QED
    BY <1>9, <1>11, <2>1
<1>13. low = p % M
  BY DEF Unsigned
<1> HIDE DEF low, high
<1>14. QED
  BY <1>3, <1>4, <1>5, <1>8, <1>9, <1>10, <1>11, <1>12, <1>13 DEF UnsignedProductLeft, p

\* A short product is that with what its multiplier is modulo its own width.
ShortProductLeft(result, left, right) ==
  /\ result \in Word
  /\ \E short \in -(2^(SHORT_BITS - 1))..(2^(SHORT_BITS - 1) - 1) :
       /\ (right - short) % 2^SHORT_BITS = 0
       /\ (result - left * short) % M = 0

LEMMA Multiple ==
  ASSUME NEW b \in Nat \ {0}, NEW n \in Int
  PROVE  (b * n) % b = 0
<1>1. (b * n + 0) % b = 0
  <2>1. 0 \in 0..(b - 1)
    OBVIOUS
  <2>2. QED
    BY <2>1, DivisionOf
<1>2. b * n + 0 = b * n
  OBVIOUS
<1>3. QED
  BY <1>1, <1>2

LEMMA ShortProductIsExact ==
  ASSUME NEW left \in Word, NEW right \in Word
  PROVE  ShortProductLeft(SilentResult("Mpyhw", left, right), left, right)
<1> DEFINE half == 2^(SHORT_BITS - 1)
           width == 2^SHORT_BITS
           rest == right % width
           short == ShortSigned(right)
           p == Signed(left) * short
           result == Unsigned(p)
<1>1. half \in Nat \ {0} /\ width = 2 * half
  <2>1. SHORT_BITS - 1 \in Nat /\ SHORT_BITS = (SHORT_BITS - 1) + 1
    BY WordAssumption
  <2>2. 2^((SHORT_BITS - 1) + 1) = 2 * 2^(SHORT_BITS - 1)
    BY <2>1, PowerDoubles
  <2>3. 2^(SHORT_BITS - 1) \in Nat \ {0}
    BY <2>1, PowerPositive
  <2>4. QED
    BY <2>1, <2>2, <2>3
<1>2. short = IF rest >= half THEN rest - width ELSE rest
  BY DEF ShortSigned
<1> HIDE DEF half, width, short
<1>3. width \in Nat \ {0} /\ right \in Int
  BY <1>1, SignedValue
<1>4. right \div width \in Int /\ rest \in 0..(width - 1) /\ right = width * (right \div width) + rest
  BY <1>3, Divided
<1> HIDE DEF rest
<1>5. short \in -half..(half - 1)
  BY <1>1, <1>2, <1>4
<1>6. (right - short) % width = 0
  <2> DEFINE q == right \div width
  <2>1. q \in Int /\ right = width * q + rest
    BY <1>4
  <2> HIDE DEF q
  <2>2. width * q \in Int /\ width * (q + 1) = width * q + width /\ q + 1 \in Int
    BY <1>3, <2>1
  <2>3. right - short = width * (q + 1) \/ right - short = width * q
    BY <1>2, <1>3, <1>4, <2>1, <2>2
  <2>4. (width * (q + 1)) % width = 0 /\ (width * q) % width = 0
    BY <1>3, <2>1, <2>2, Multiple
  <2>5. QED
    BY <2>3, <2>4
<1>7. PICK n \in Int : Signed(left) = left - M * n
  <2>1. left \in Int /\ M \in Int /\ M * 0 = 0 /\ M * 1 = M
    BY Widths, SignedValue
  <2>2. Signed(left) = left - M * 0 \/ Signed(left) = left - M * 1
    BY <2>1 DEF Signed
  <2>3. QED
    BY <2>2
<1>8. left \in Int /\ Signed(left) \in Int /\ short \in Int /\ M \in Nat \ {0}
  BY Widths, SignedValue, <1>1, <1>5
<1>9. p \in Int
  BY <1>8
<1>10. p \div M \in Int /\ result \in Word /\ p = M * (p \div M) + result
  <2> HIDE DEF p
  <2>1. QED
    BY <1>9, Wrapped
<1>11. (result - left * short) % M = 0
  <2> DEFINE q == p \div M
             ls == left * short
             ns == n * short
             mq == M * q
             mns == M * ns
             turns == -ns - q
  <2>1. q \in Int /\ ls \in Int /\ ns \in Int /\ mq \in Int /\ mns \in Int /\ result \in Int
    <3>1. q \in Int /\ ls \in Int /\ ns \in Int
      BY <1>8, <1>10
    <3>2. mq \in Int /\ mns \in Int
      <4> HIDE DEF q, ns
      <4>1. QED
        BY <1>8, <3>1
    <3>3. result \in Int
      <4> HIDE DEF result
      <4>1. QED
        BY <1>10, SignedValue
    <3>4. QED
      BY <3>1, <3>2, <3>3
  <2>2. p = ls - mns
    BY <1>7, <1>8
  <2>3. p = mq + result
    BY <1>10
  <2>4. turns \in Int
    BY <2>1
  <2>5. M * turns = -mns - mq
    <3> HIDE DEF q, ns
    <3>1. QED
      BY <1>8, <2>1
  <2> HIDE DEF turns, q, ls, ns, mq, mns, p, result
  <2>6. result - ls = M * turns
    BY <2>1, <2>2, <2>3, <2>5
  <2>7. (M * turns) % M = 0
    BY <1>8, <2>4, Multiple
  <2>8. QED
    BY <2>6, <2>7 DEF ls
<1>12. SilentResult("Mpyhw", left, right) = result
  BY DEF SilentResult, short
<1> HIDE DEF result, p
<1>13. QED
  BY <1>5, <1>6, <1>10, <1>11, <1>12 DEF ShortProductLeft, half, width
-----------------------------------------------------------------------------
(* Shifts.                                                                    *)

\* A natural number has a quotient no greater.
LEMMA QuotientOfNatural ==
  ASSUME NEW a \in Nat, NEW b \in Nat \ {0}
  PROVE  a \div b \in 0..a
<1>1. (a + 1) * 1 <= (a + 1) * b
  <2>1. a + 1 \in Nat /\ 1 \in Int /\ b \in Int /\ 1 <= b
    OBVIOUS
  <2>2. QED
    BY <2>1, ProductMonotone
<1>2. a \in 0..(b * (a + 1) - 1) /\ a + 1 \in Nat
  <2>1. (a + 1) * b = b * (a + 1) /\ (a + 1) * 1 = a + 1
    OBVIOUS
  <2>2. b * (a + 1) \in Int
    OBVIOUS
  <2>3. QED
    BY <1>1, <2>1, <2>2
<1>3. a \div b \in 0..((a + 1) - 1)
  BY <1>2, QuotientBelow
<1>4. QED
  BY <1>3

LEMMA Halves ==
  ASSUME NEW q \in Int
  PROVE  q \div 2 \in Int /\ q = 2 * (q \div 2) + (IF q % 2 = 1 THEN 1 ELSE 0)
  OBVIOUS

\* The power by which a shift multiplies or divides.
LEMMA ShiftPower ==
  ASSUME NEW amount \in 1..(WORD_BITS - 1)
  PROVE  /\ 2^amount \in Nat \ {0} /\ 2^(amount - 1) \in Nat \ {0}
         /\ 2^(WORD_BITS - amount) \in Nat \ {0}
         /\ 2^amount = 2^(amount - 1) * 2
         /\ M = 2^amount * 2^(WORD_BITS - amount)
         /\ M = 2^(amount - 1) * (2 * 2^(WORD_BITS - amount))
         /\ WORD_BITS - amount \in 0..(WORD_BITS - 1) /\ amount - 1 \in 0..(WORD_BITS - 1)
<1>1. /\ amount \in Nat /\ amount - 1 \in Nat /\ WORD_BITS - amount \in Nat
      /\ amount = (amount - 1) + 1 /\ WORD_BITS = amount + (WORD_BITS - amount)
      /\ WORD_BITS - amount \in 0..(WORD_BITS - 1) /\ amount - 1 \in 0..(WORD_BITS - 1)
  BY Widths
<1>2. 2^amount \in Nat \ {0} /\ 2^(amount - 1) \in Nat \ {0} /\ 2^(WORD_BITS - amount) \in Nat \ {0}
  BY <1>1, PowerPositive
<1>3. 2^((amount - 1) + 1) = 2 * 2^(amount - 1)
  BY <1>1, PowerDoubles
<1>4. 2^amount = 2^(amount - 1) * 2
  <2>1. 2 * 2^(amount - 1) = 2^(amount - 1) * 2
    BY <1>2
  <2>2. QED
    BY <1>1, <1>3, <2>1
<1>5. 2^(amount + (WORD_BITS - amount)) = 2^amount * 2^(WORD_BITS - amount)
  BY <1>1, PowersMultiply
<1>6. M = 2^amount * 2^(WORD_BITS - amount)
  BY <1>1, <1>5 DEF M
<1>7. M = 2^(amount - 1) * (2 * 2^(WORD_BITS - amount))
  <2> DEFINE a == 2^amount
             b == 2^(amount - 1)
             c == 2^(WORD_BITS - amount)
  <2>1. b \in Nat /\ c \in Nat /\ a = b * 2 /\ M = a * c
    BY <1>2, <1>4, <1>6
  <2> HIDE DEF a, b, c
  <2>2. M = b * (2 * c)
    BY <2>1
  <2>3. QED
    BY <2>2 DEF b, c
<1>8. QED
  BY <1>1, <1>2, <1>4, <1>6, <1>7

ShiftIs(op, result, cy, left, amount) ==
  /\ result \in Word /\ cy \in BOOLEAN
  /\ amount = 0 => result = left /\ ~cy
  /\ amount # 0 =>
       LET carry == IF cy THEN 1 ELSE 0
       IN  /\ op = "Shl" => (left * 2^amount) % (2 * M) = result + M * carry
           /\ op = "Shr" => left \div 2^(amount - 1) = 2 * result + carry
           /\ op = "Sar" => Signed(left) \div 2^(amount - 1) = 2 * Signed(result) + carry

LEMMA NoShift ==
  ASSUME NEW op \in Shift, NEW left \in Word
  PROVE  ShiftIs(op, Shifted(op, left, 0), ShiftedOut(op, left, 0), left, 0)
<1>1. left \in Int /\ 0 <= left /\ left < M /\ Signed(left) \in Int /\ Signed(left) \in SignedRange
  BY SignedValue
<1>2. 2^0 = 1 /\ left * 1 = left /\ left \div 1 = left /\ Signed(left) \div 1 = Signed(left)
  BY <1>1
<1>3. Unsigned(left) = left
  BY <1>1, WrappedOnce
<1>4. Unsigned(Signed(left)) = left
  <2> DEFINE s == Signed(left)
  <2>1. s \in Int /\ (s = left \/ s = left - M)
    BY <1>1 DEF Signed
  <2> HIDE DEF s
  <2>2. ASSUME s = left PROVE Unsigned(s) = left
    BY <1>3, <2>2
  <2>3. ASSUME s = left - M PROVE Unsigned(s) = left
    <3>1. -M <= s /\ s < 0 /\ left = s + M
      BY Widths, <1>1, <2>1, <2>3
    <3>2. QED
      BY <2>1, <3>1, WrappedOnce
  <2>4. Unsigned(s) = left
    BY <2>1, <2>2, <2>3
  <2>5. QED
    BY <2>4 DEF s
<1>5. Shifted(op, left, 0) = left
  BY <1>2, <1>3, <1>4 DEF Shifted, Shift
<1>6. ShiftedOut(op, left, 0) = FALSE
  BY DEF ShiftedOut
<1>7. QED
  BY <1>5, <1>6 DEF ShiftIs

LEMMA ShiftsLeft ==
  ASSUME NEW left \in Word, NEW amount \in 1..(WORD_BITS - 1)
  PROVE  ShiftIs("Shl", Shifted("Shl", left, amount), ShiftedOut("Shl", left, amount), left, amount)
<1> DEFINE a == 2^amount
           b == 2^(WORD_BITS - amount)
           q == left \div b
           r == left % b
           h == q \div 2
           c == IF q % 2 = 1 THEN 1 ELSE 0
           product == left * a
           ar == a * r
<1>1. a \in Nat \ {0} /\ b \in Nat \ {0} /\ M = a * b /\ left \in Int /\ M \in Nat \ {0}
  BY ShiftPower, SignedValue, Widths
<1> HIDE DEF a, b
<1>2. q \in Int /\ r \in 0..(b - 1) /\ left = b * q + r
  BY <1>1, Divided
<1> HIDE DEF q, r
<1>3. h \in Int /\ c \in 0..1 /\ q = 2 * h + c
  BY <1>2, Halves
<1>4. ar \in 0..(M - 1)
  <2>1. a * r <= a * (b - 1) /\ a * 0 <= a * r /\ a * 0 = 0 /\ a * (b - 1) = a * b - a
    <3>1. a \in Nat /\ r \in Int /\ b - 1 \in Int /\ r <= b - 1 /\ 0 <= r /\ 0 \in Int
      BY <1>1, <1>2
    <3>2. a * r <= a * (b - 1)
      BY <3>1, ProductMonotone
    <3>3. a * 0 <= a * r
      BY <3>1, ProductMonotone
    <3>4. QED
      BY <1>1, <3>2, <3>3
  <2>2. a * r \in Int
    BY <1>1, <1>2
  <2>3. QED
    BY <1>1, <2>1, <2>2
<1>5. product = M * q + ar
  <2>1. (b * q + r) * a = (a * b) * q + a * r
    BY <1>1, <1>2
  <2>2. QED
    BY <1>1, <1>2, <2>1
<1>6. Unsigned(product) = ar
  <2> HIDE DEF product, ar
  <2>1. product \in Int
    BY <1>1, <1>2, <1>4, <1>5
  <2>2. M \in Nat \ {0} /\ q \in Int
    BY <1>1, <1>2
  <2>3. product % M = ar
    BY <1>4, <1>5, <2>1, <2>2, Division
  <2>4. QED
    BY <2>3 DEF Unsigned
<1>7. product % (2 * M) = ar + M * c
  <2> DEFINE d == 2 * M
             rest == ar + M * c
  <2>1. d \in Nat \ {0} /\ rest \in 0..(d - 1)
    <3> HIDE DEF ar, c
    <3>1. M * 0 = 0 /\ M * 1 = M /\ (c = 0 \/ c = 1)
      BY <1>1, <1>3
    <3>2. QED
      BY <1>1, <1>4, <3>1
  <2>2. product = d * h + rest
    <3> HIDE DEF h, c, ar, product
    <3>1. M * (2 * h + c) = (2 * M) * h + M * c
      BY <1>1, <1>3
    <3>2. (2 * M) * h \in Int /\ M * c \in Int /\ ar \in Int
      BY <1>1, <1>3, <1>4
    <3>3. QED
      BY <1>3, <1>5, <3>1, <3>2
  <2>3. product \in Int
    BY <1>1
  <2> HIDE DEF d, rest, h, product
  <2>4. product % d = rest
    BY <1>3, <2>1, <2>2, <2>3, Division
  <2>5. QED
    BY <2>4 DEF d, rest
<1>8. ShiftedOut("Shl", left, amount) <=> q % 2 = 1
  <2>1. WORD_BITS - amount \in 0..(WORD_BITS - 1) /\ amount # 0
    BY ShiftPower
  <2>2. QED
    BY <2>1 DEF ShiftedOut, BitsOf, q, b
<1>9. Shifted("Shl", left, amount) = ar
  BY <1>6 DEF Shifted, a
<1>10. ShiftedOut("Shl", left, amount) \in BOOLEAN
  BY DEF ShiftedOut
<1>11. ar \in Word
  BY <1>4 DEF Word
<1> HIDE DEF ar, h
<1>12. c = IF ShiftedOut("Shl", left, amount) THEN 1 ELSE 0
  BY <1>8
<1> HIDE DEF c
<1>13. QED
  BY <1>7, <1>9, <1>10, <1>11, <1>12 DEF ShiftIs, a

LEMMA ShiftsRight ==
  ASSUME NEW left \in Word, NEW amount \in 1..(WORD_BITS - 1)
  PROVE  ShiftIs("Shr", Shifted("Shr", left, amount), ShiftedOut("Shr", left, amount), left, amount)
<1> DEFINE a == 2^amount
           b == 2^(amount - 1)
           q == left \div b
           c == IF q % 2 = 1 THEN 1 ELSE 0
           result == left \div a
<1>1. /\ a \in Nat \ {0} /\ b \in Nat \ {0} /\ a = b * 2
      /\ left \in Int /\ left \in Nat /\ left < M /\ M \in Nat
  BY ShiftPower, SignedValue, Widths
<1> HIDE DEF a, b
<1>2. q \in Int
  BY <1>1, Divided
<1>3. result = q \div 2
  <2>1. 2 \in Nat \ {0}
    OBVIOUS
  <2>2. (left \div b) \div 2 = left \div (b * 2)
    BY <1>1, <2>1, QuotientTwice
  <2>3. QED
    BY <1>1, <2>2
<1>4. result \in Word
  <2>1. result \in 0..left
    BY <1>1, QuotientOfNatural
  <2> HIDE DEF result
  <2>2. QED
    BY <1>1, <2>1 DEF Word
<1>5. ShiftedOut("Shr", left, amount) <=> q % 2 = 1
  <2>1. amount - 1 \in 0..(WORD_BITS - 1) /\ amount # 0
    BY ShiftPower
  <2>2. QED
    BY <2>1 DEF ShiftedOut, BitsOf, b
<1> HIDE DEF q, result
<1>6. q = 2 * result + c
  BY <1>2, <1>3, Halves
<1>7. Shifted("Shr", left, amount) = result
  BY DEF Shifted, result, a
<1>8. ShiftedOut("Shr", left, amount) \in BOOLEAN
  BY DEF ShiftedOut
<1>9. c = IF ShiftedOut("Shr", left, amount) THEN 1 ELSE 0
  BY <1>5
<1> HIDE DEF c
<1>10. QED
  BY <1>4, <1>6, <1>7, <1>8, <1>9 DEF ShiftIs, q, b

LEMMA ShiftsSigned ==
  ASSUME NEW left \in Word, NEW amount \in 1..(WORD_BITS - 1)
  PROVE  ShiftIs("Sar", Shifted("Sar", left, amount), ShiftedOut("Sar", left, amount), left, amount)
<1> DEFINE a == 2^amount
           b == 2^(amount - 1)
           t == 2^(WORD_BITS - amount)
           s == Signed(left)
           q == s \div b
           c == IF q % 2 = 1 THEN 1 ELSE 0
           whole == s \div a
           result == Unsigned(whole)
<1>1. /\ a \in Nat \ {0} /\ b \in Nat \ {0} /\ a = b * 2 /\ t \in Nat \ {0} /\ M = b * (2 * t)
      /\ s \in Int /\ -HalfWord <= s /\ s < HalfWord /\ HalfWord \in Nat /\ left \in Int
  BY ShiftPower, SignedValue, SignedRangeIs, Widths
<1>2. PICK n \in Int : left = s + M * n
  <2>1. left \in Int /\ M \in Int /\ M * 0 = 0 /\ M * 1 = M
    BY Widths, SignedValue
  <2>2. left = s + M * 0 \/ left = s + M * 1
    BY <2>1 DEF Signed
  <2>3. QED
    BY <2>2
<1> HIDE DEF a, b, s, t
<1>3. q \in Int
  BY <1>1, Divided
<1>4. whole = q \div 2
  <2>1. 2 \in Nat \ {0}
    OBVIOUS
  <2>2. (s \div b) \div 2 = s \div (b * 2)
    BY <1>1, <2>1, QuotientTwice
  <2>3. QED
    BY <1>1, <2>2
<1>5. whole \in SignedRange
  <2>1. -HalfWord <= s \div a /\ s \div a < HalfWord
    BY <1>1, QuotientWithin
  <2>2. s \div a \in Int
    BY <1>1, Divided
  <2>3. QED
    BY <2>1, <2>2, SignedRangeIs
<1>6. whole \in Int
  BY <1>1, Divided
<1>7. result \in Word /\ Signed(result) = whole
  <2> HIDE DEF whole
  <2>1. QED
    BY <1>5, <1>6, Wrapped
<1>8. (left \div b) % 2 = q % 2
  <2> DEFINE turns == t * n
  <2>1. turns \in Int /\ 2 * turns \in Int
    BY <1>1
  <2>2. left = b * (2 * turns) + s
    <3>1. (b * (2 * t)) * n = b * (2 * (t * n))
      BY <1>1
    <3>2. M * n \in Int
      BY <1>1, Widths
    <3>3. QED
      BY <1>1, <1>2, <3>1, <3>2
  <2> HIDE DEF turns
  <2>3. (b * (2 * turns) + s) \div b = 2 * turns + (s \div b)
    BY <1>1, <2>1, QuotientOfSum
  <2>4. left \div b = 2 * turns + q
    BY <2>2, <2>3
  <2> HIDE DEF q
  <2>5. (2 * turns + q) % 2 = q % 2
    BY <1>3, <2>1
  <2>6. QED
    BY <2>4, <2>5
<1>9. ShiftedOut("Sar", left, amount) <=> q % 2 = 1
  <2>1. amount - 1 \in 0..(WORD_BITS - 1) /\ amount # 0
    BY ShiftPower
  <2>2. ShiftedOut("Sar", left, amount) <=> (left \div b) % 2 = 1
    BY <2>1 DEF ShiftedOut, BitsOf, b
  <2>3. QED
    BY <1>8, <2>2
<1>10. Shifted("Sar", left, amount) = result
  BY DEF Shifted, s, a
<1> HIDE DEF q, whole, result
<1>11. q = 2 * whole + c
  BY <1>3, <1>4, Halves
<1>12. ShiftedOut("Sar", left, amount) \in BOOLEAN
  BY DEF ShiftedOut
<1>13. c = IF ShiftedOut("Sar", left, amount) THEN 1 ELSE 0
  BY <1>9
<1> HIDE DEF c
<1>14. QED
  BY <1>7, <1>10, <1>11, <1>12, <1>13 DEF ShiftIs, q, s, b

LEMMA ShiftIsExact ==
  ASSUME NEW op \in Shift, NEW left \in Word, NEW amount \in 0..(WORD_BITS - 1)
  PROVE  ShiftIs(op, Shifted(op, left, amount), ShiftedOut(op, left, amount), left, amount)
<1>1. CASE amount = 0
  BY <1>1, NoShift
<1>2. CASE amount # 0
  <2>1. amount \in 1..(WORD_BITS - 1)
    BY Widths, <1>2
  <2>2. QED
    BY <2>1, ShiftsLeft, ShiftsRight, ShiftsSigned DEF Shift
<1>3. QED
  BY <1>1, <1>2
-----------------------------------------------------------------------------
(* Reversals.                                                                 *)

\* A word has no bits beyond its width.
LEMMA NoBitBeyond ==
  ASSUME NEW w \in Word, NEW i \in Nat, i >= WORD_BITS
  PROVE  ~IsBit(w, i)
<1>1. w \in Int /\ WORD_BITS \in Nat
  BY Widths, SignedValue
<1>2. w % 2^WORD_BITS = w
  <2>1. 0 <= w /\ w < M
    BY SignedValue
  <2>2. w % M = w
    BY <1>1, <2>1, WrappedOnce DEF Unsigned
  <2>3. QED
    BY <2>2 DEF M
<1>3. IsBit(w % 2^WORD_BITS, i) <=> i < WORD_BITS /\ IsBit(w, i)
  BY <1>1, LowBit
<1>4. QED
  BY <1>1, <1>2, <1>3

ReversedIs(result, right) ==
  /\ result \in Word
  /\ \A k \in 0..WORD_BITS :
       BitsOf(result \div 2^k) =
         {WORD_BITS - 1 - k - i : i \in BitsOf(right % 2^(WORD_BITS - k))}

LEMMA ReversalIsExact ==
  ASSUME NEW right \in Word
  PROVE  ReversedIs(Reversed(right), right)
<1> DEFINE result == Reversed(right)
           bits == {WORD_BITS - 1 - i : i \in BitsOf(right)}
<1>1. WORD_BITS \in Nat /\ right \in Int
  BY Widths, SignedValue
<1>2. bits \in SUBSET (0..(WORD_BITS - 1))
  BY <1>1, BitsAre
<1>3. result \in Word /\ BitsOf(result) = bits
  <2>1. result = Number(bits)
    BY DEF Reversed
  <2> HIDE DEF bits
  <2>2. QED
    BY <1>2, <2>1, NumberIs
<1> HIDE DEF result
<1>4. ASSUME NEW n \in Nat PROVE IsBit(result, n) <=> n < WORD_BITS /\ IsBit(right, WORD_BITS - 1 - n)
  <2>1. CASE n < WORD_BITS
    <3>1. n \in 0..(WORD_BITS - 1) /\ WORD_BITS - 1 - n \in 0..(WORD_BITS - 1)
      BY <1>1, <2>1
    <3>2. IsBit(result, n) <=> n \in bits
      BY <1>3, <3>1, BitsAre
    <3>3. n \in bits <=> WORD_BITS - 1 - n \in BitsOf(right)
      <4>1. ASSUME NEW i \in BitsOf(right) PROVE n = WORD_BITS - 1 - i <=> i = WORD_BITS - 1 - n
        <5>1. i \in Int
          BY <1>1, BitsAre
        <5>2. QED
          BY <1>1, <5>1
      <4>2. QED
        BY <4>1
    <3>4. QED
      BY <2>1, <3>1, <3>2, <3>3, BitsAre
  <2>2. CASE ~(n < WORD_BITS)
    <3>1. n >= WORD_BITS
      BY <1>1, <2>2
    <3>2. QED
      BY <1>3, <2>2, <3>1, NoBitBeyond
  <2>3. QED
    BY <2>1, <2>2
<1>5. ASSUME NEW k \in 0..WORD_BITS
      PROVE  BitsOf(result \div 2^k) =
               {WORD_BITS - 1 - k - i : i \in BitsOf(right % 2^(WORD_BITS - k))}
  <2> DEFINE above == BitsOf(result \div 2^k)
             below == BitsOf(right % 2^(WORD_BITS - k))
             turned == {WORD_BITS - 1 - k - i : i \in below}
             In(j) == j \in 0..(WORD_BITS - 1 - k) /\ IsBit(right, WORD_BITS - 1 - k - j)
  <2>1. k \in Nat /\ WORD_BITS - k \in Nat /\ k <= WORD_BITS
    BY <1>1
  <2>2. ASSUME NEW j PROVE j \in above <=> In(j)
    <3>1. CASE j \in 0..(WORD_BITS - 1)
      <4>1. j \in Nat /\ k + j \in Nat /\ result \in Int
        BY <1>1, <1>3, <2>1, <3>1, SignedValue
      <4>2. (result \div 2^k) \div 2^j = result \div 2^(k + j)
        BY <2>1, <4>1, ShiftedBit
      <4>3. IsBit(result \div 2^k, j) <=> IsBit(result, k + j)
        BY <4>2 DEF IsBit
      <4>4. IsBit(result, k + j) <=> k + j < WORD_BITS /\ IsBit(right, WORD_BITS - 1 - (k + j))
        BY <1>4, <4>1
      <4>5. WORD_BITS - 1 - (k + j) = WORD_BITS - 1 - k - j
        BY <1>1, <2>1, <4>1
      <4>6. k + j < WORD_BITS <=> j \in 0..(WORD_BITS - 1 - k)
        BY <1>1, <2>1, <4>1
      <4>7. j \in above <=> IsBit(result \div 2^k, j)
        BY <3>1, BitsAre
      <4> HIDE DEF above
      <4>8. QED
        BY <4>3, <4>4, <4>5, <4>6, <4>7
    <3>2. CASE j \notin 0..(WORD_BITS - 1)
      <4>1. j \notin 0..(WORD_BITS - 1 - k)
        BY <1>1, <2>1, <3>2
      <4>2. j \notin above
        BY <3>2, BitsAre
      <4> HIDE DEF above
      <4>3. QED
        BY <4>1, <4>2
    <3>3. QED
      BY <3>1, <3>2
  <2>3. ASSUME NEW i PROVE i \in below <=> i \in 0..(WORD_BITS - 1 - k) /\ IsBit(right, i)
    <3>1. CASE i \in 0..(WORD_BITS - 1)
      <4>1. i \in Nat
        BY <1>1, <3>1
      <4>2. IsBit(right % 2^(WORD_BITS - k), i) <=> i < WORD_BITS - k /\ IsBit(right, i)
        BY <1>1, <2>1, <4>1, LowBit
      <4>3. i < WORD_BITS - k <=> i \in 0..(WORD_BITS - 1 - k)
        BY <1>1, <2>1, <4>1
      <4>4. i \in below <=> IsBit(right % 2^(WORD_BITS - k), i)
        BY <3>1, BitsAre
      <4> HIDE DEF below
      <4>5. QED
        BY <4>2, <4>3, <4>4
    <3>2. CASE i \notin 0..(WORD_BITS - 1)
      <4>1. i \notin 0..(WORD_BITS - 1 - k)
        BY <1>1, <2>1, <3>2
      <4>2. i \notin below
        BY <3>2, BitsAre
      <4> HIDE DEF below
      <4>3. QED
        BY <4>1, <4>2
    <3>3. QED
      BY <3>1, <3>2
  <2> HIDE DEF above, below
  <2>4. ASSUME NEW j PROVE j \in turned <=> In(j)
    <3>1. ASSUME j \in turned PROVE In(j)
      <4>1. PICK i \in below : j = WORD_BITS - 1 - k - i
        BY <3>1
      <4>2. i \in 0..(WORD_BITS - 1 - k) /\ IsBit(right, i)
        BY <2>3
      <4>3. j \in 0..(WORD_BITS - 1 - k) /\ i = WORD_BITS - 1 - k - j
        BY <1>1, <2>1, <4>1, <4>2
      <4>4. QED
        BY <4>2, <4>3
    <3>2. ASSUME In(j) PROVE j \in turned
      <4> DEFINE i == WORD_BITS - 1 - k - j
      <4>1. i \in 0..(WORD_BITS - 1 - k) /\ j = WORD_BITS - 1 - k - i /\ IsBit(right, i)
        BY <1>1, <2>1, <3>2
      <4> HIDE DEF i
      <4>2. i \in below
        BY <2>3, <4>1
      <4>3. QED
        BY <4>1, <4>2
    <3>3. QED
      BY <3>1, <3>2
  <2> HIDE DEF In, turned
  <2>5. above = turned
    BY <2>2, <2>4
  <2>6. QED
    BY <2>5 DEF above, turned, below
<1>6. QED
  BY <1>3, <1>5 DEF ReversedIs, result

-----------------------------------------------------------------------------
(* Divisions.                                                                 *)

\* A division that truncates, of numbers with their signs.
LEMMA Truncated ==
  ASSUME NEW a \in Int, NEW b \in Int, b # 0
  PROVE  /\ Quotient(a, b) \in Int /\ Remainder(a, b) \in Int
         /\ a = Quotient(a, b) * b + Remainder(a, b)
         /\ Magnitude(Remainder(a, b)) < Magnitude(b)
         /\ Magnitude(b) * Magnitude(Quotient(a, b)) <= Magnitude(a)
         /\ Remainder(a, b) = 0 \/ (Remainder(a, b) < 0 <=> a < 0)
<1> DEFINE m == Magnitude(a)
           n == Magnitude(b)
           q == m \div n
           r == m % n
           bq == b * q
           nq == n * q
<1>1. m \in Nat /\ n \in Nat \ {0} /\ (a < 0 => a = -m) /\ (~(a < 0) => a = m)
      /\ (b < 0 => b = -n) /\ (~(b < 0) => b = n)
  BY DEF Magnitude
<1>2. Quotient(a, b) = IF (a < 0) = (b < 0) THEN q ELSE -q
  BY DEF Quotient
<1>3. Remainder(a, b) = IF a < 0 THEN -r ELSE r
  BY DEF Remainder
<1> HIDE DEF m, n
<1>4. r \in 0..(n - 1) /\ m = nq + r
  BY <1>1, Divided
<1>5. q \in 0..m
  BY <1>1, QuotientOfNatural
<1> HIDE DEF q, r
<1>6. nq \in Nat /\ bq \in Int /\ (b < 0 => bq = -nq) /\ (~(b < 0) => bq = nq)
  <2>1. q \in Nat /\ (-n) * q = -(n * q)
    BY <1>1, <1>5
  <2>2. QED
    BY <1>1, <2>1
<1>7. q * b = bq /\ (-q) * b = -bq
  BY <1>5
<1> HIDE DEF nq, bq
<1> DEFINE quotient == Quotient(a, b)
           remainder == Remainder(a, b)
<1>8. quotient \in Int /\ remainder \in Int
  BY <1>2, <1>3, <1>4, <1>5
<1>9. a = quotient * b + remainder
  <2>1. (quotient = q /\ ((a < 0) <=> (b < 0))) \/ (quotient = -q /\ ~((a < 0) <=> (b < 0)))
    BY <1>2
  <2>2. CASE quotient = q /\ ((a < 0) <=> (b < 0))
    <3>1. quotient * b = bq
      BY <1>7, <2>2
    <3> HIDE DEF quotient
    <3>2. QED
      BY <1>1, <1>3, <1>4, <1>6, <2>2, <3>1
  <2>3. CASE quotient = -q /\ ~((a < 0) <=> (b < 0))
    <3>1. quotient * b = -bq
      BY <1>7, <2>3
    <3> HIDE DEF quotient
    <3>2. QED
      BY <1>1, <1>3, <1>4, <1>6, <2>3, <3>1
  <2>4. QED
    BY <2>1, <2>2, <2>3
<1>10. Magnitude(remainder) = r /\ Magnitude(quotient) = q
  BY <1>2, <1>3, <1>4, <1>5 DEF Magnitude
<1>11. remainder = 0 \/ (remainder < 0 <=> a < 0)
  BY <1>3, <1>4
<1>12. r < n /\ n * q <= m
  BY <1>1, <1>4, <1>6 DEF nq
<1> HIDE DEF quotient, remainder
<1>13. Magnitude(remainder) < n /\ n * Magnitude(quotient) <= m
  BY <1>10, <1>12
<1>14. QED
  BY <1>8, <1>9, <1>11, <1>13 DEF quotient, remainder, m, n

DivisionLeft(low, high, ov, isSigned, left, right) ==
  LET Value(word) == IF isSigned THEN Signed(word) ELSE word
      a == Value(left)  b == Value(right)  remainder == Value(high)
  IN  /\ low \in Word /\ high \in Word /\ ov \in BOOLEAN
      /\ Value(low) * b + remainder = IF ov THEN -a ELSE a
      /\ Magnitude(remainder) < Magnitude(b)
      /\ remainder = 0 \/ (remainder < 0 <=> a < 0)
      /\ ov <=> isSigned /\ a = -(M \div 2) /\ b = -1

LEMMA SignedDivisionIsExact ==
  ASSUME NEW left \in Word, NEW right \in Word, right # 0
  PROVE  DivisionLeft(WideResult("Div", left, right).low, WideResult("Div", left, right).high,
                      WideOverflow("Div", left, right), TRUE, left, right)
<1> DEFINE a == Signed(left)
           b == Signed(right)
           q == Quotient(a, b)
           r == Remainder(a, b)
           low == Unsigned(q)
           high == Unsigned(r)
           ov == WideOverflow("Div", left, right)
           h == HalfWord
<1>1. h \in Nat \ {0} /\ M = 2 * h /\ M \div 2 = h
  BY Widths
<1>2. a \in Int /\ -h <= a /\ a < h /\ b \in Int /\ -h <= b /\ b < h
  BY SignedValue, SignedRangeIs
<1>3. b # 0
  BY Widths, SignedValue DEF Signed
<1>4. WideResult("Div", left, right) = [low |-> low, high |-> high]
  BY DEF WideResult
<1>5. ov <=> a = -h /\ b = -1
  BY <1>1 DEF WideOverflow
<1>6. ov \in BOOLEAN
  BY DEF WideOverflow
<1> HIDE DEF a, b, ov
<1>7. /\ q \in Int /\ r \in Int /\ a = q * b + r
      /\ Magnitude(r) < Magnitude(b) /\ Magnitude(b) * Magnitude(q) <= Magnitude(a)
      /\ r = 0 \/ (r < 0 <=> a < 0)
  BY <1>2, <1>3, Truncated
<1> HIDE DEF q, r, h
<1>8. r \in SignedRange
  <2>1. -h <= r /\ r < h
    BY <1>1, <1>2, <1>7 DEF Magnitude
  <2>2. QED
    BY <1>7, <2>1, SignedRangeIs DEF h
<1>9. high \in Word /\ Signed(high) = r
  BY <1>7, <1>8, Wrapped
<1>10. Magnitude(b) \in Nat \ {0} /\ Magnitude(q) \in Nat /\ Magnitude(a) \in Nat /\ Magnitude(a) <= h
  BY <1>1, <1>2, <1>3, <1>7 DEF Magnitude
<1>11. ASSUME Magnitude(b) # 1 PROVE -h <= q /\ q < h
  <2>1. Magnitude(q) * 2 <= Magnitude(q) * Magnitude(b)
    <3>1. 2 \in Int /\ Magnitude(b) \in Int /\ 2 <= Magnitude(b)
      BY <1>10, <1>11
    <3>2. QED
      BY <1>10, <3>1, ProductMonotone
  <2>2. Magnitude(q) * Magnitude(b) = Magnitude(b) * Magnitude(q)
    BY <1>10
  <2> DEFINE bq == Magnitude(b) * Magnitude(q)
  <2>3. bq \in Int /\ bq <= Magnitude(a) /\ Magnitude(q) * 2 <= bq
    BY <1>7, <1>10, <2>1, <2>2
  <2> HIDE DEF bq
  <2>4. Magnitude(q) < h
    BY <1>1, <1>10, <2>3
  <2>5. QED
    BY <1>1, <1>7, <2>4 DEF Magnitude
<1>12. ASSUME Magnitude(b) = 1 PROVE r = 0 /\ ((b = 1 /\ q = a) \/ (b = -1 /\ q = -a))
  <2>1. r = 0 /\ (b = 1 \/ b = -1)
    BY <1>2, <1>7, <1>12 DEF Magnitude
  <2>2. q * 1 = q /\ q * (-1) = -q
    BY <1>7
  <2>3. QED
    BY <1>2, <1>7, <2>1, <2>2
<1>13. ASSUME ~ov PROVE -h <= q /\ q < h
  BY <1>1, <1>2, <1>5, <1>7, <1>11, <1>12, <1>13
<1>14. low \in Word
  BY <1>7, Wrapped
<1>15. ASSUME ~ov PROVE Signed(low) = q
  <2>1. q \in SignedRange
    BY <1>7, <1>13, <1>15, SignedRangeIs DEF h
  <2>2. QED
    BY <1>7, <2>1, Wrapped
<1>16. ASSUME ov PROVE Signed(low) = -h /\ r = 0 /\ b = -1 /\ a = -h
  <2>1. a = -h /\ b = -1 /\ Magnitude(b) = 1
    <3>1. a = -h /\ b = -1
      BY <1>5, <1>16
    <3>2. b < 0 /\ b + 1 = 0
      BY <1>2, <3>1
    <3>3. -b = 1
      BY <1>2, <3>2
    <3>4. QED
      BY <3>1, <3>2, <3>3 DEF Magnitude
  <2>2. q = h /\ r = 0
    BY <1>1, <1>12, <2>1
  <2>3. low = h
    BY <1>1, <2>2, WrappedOnce
  <2>4. Negative(low)
    BY <1>1, <2>3 DEF Negative
  <2>5. QED
    BY <1>1, <2>1, <2>2, <2>3, <2>4 DEF Signed
<1>17. Signed(low) * b + r = IF ov THEN -a ELSE a
  <2>1. CASE ov
    <3>1. (-h) * (-1) + 0 = h
      BY <1>1
    <3>2. QED
      BY <1>1, <1>16, <2>1, <3>1
  <2>2. CASE ~ov
    BY <1>7, <1>15, <2>2
  <2>3. QED
    BY <2>1, <2>2
<1> HIDE DEF low, high
<1>18. QED
  BY <1>1, <1>4, <1>5, <1>6, <1>7, <1>9, <1>14, <1>17 DEF DivisionLeft, a, b, ov

LEMMA UnsignedDivisionIsExact ==
  ASSUME NEW left \in Word, NEW right \in Word, right # 0
  PROVE  DivisionLeft(WideResult("Divu", left, right).low, WideResult("Divu", left, right).high,
                      WideOverflow("Divu", left, right), FALSE, left, right)
<1> DEFINE low == left \div right
           high == left % right
<1>1. left \in Nat /\ right \in Nat \ {0} /\ left < M /\ right < M /\ M \in Nat
  BY Widths, SignedValue
<1>2. WideResult("Divu", left, right) = [low |-> low, high |-> high]
  BY DEF WideResult
<1>3. WideOverflow("Divu", left, right) = FALSE
  BY DEF WideOverflow
<1>4. high \in 0..(right - 1) /\ left = right * low + high
  <2>1. left \in Int
    BY <1>1
  <2>2. QED
    BY <1>1, <2>1, Divided
<1>5. low \in 0..left
  BY <1>1, QuotientOfNatural
<1> HIDE DEF low, high
<1>6. low \in Word /\ high \in Word
  BY <1>1, <1>4, <1>5 DEF Word
<1>7. low * right = right * low
  BY <1>1, <1>5
<1>8. Magnitude(high) < Magnitude(right) /\ ~(high < 0) /\ ~(left < 0)
  BY <1>1, <1>4 DEF Magnitude
<1>9. low * right + high = left /\ high \in Int
  <2> DEFINE whole == right * low
  <2>1. whole \in Int
    BY <1>1, <1>5
  <2> HIDE DEF whole
  <2>2. left = whole + high /\ low * right = whole
    BY <1>4, <1>7 DEF whole
  <2>3. QED
    BY <1>1, <1>4, <2>1, <2>2
<1>10. DivisionLeft(low, high, FALSE, FALSE, left, right)
  BY <1>6, <1>8, <1>9 DEF DivisionLeft
<1>11. WideResult("Divu", left, right).low = low /\ WideResult("Divu", left, right).high = high
  BY <1>2
<1>12. QED
  BY <1>3, <1>10, <1>11, Zenon
-----------------------------------------------------------------------------
(* What the operations do to registers, flags and records.                    *)

LEMMA WrittenIs ==
  ASSUME NEW file \in [Register -> Word], NEW i \in Operand, NEW word \in Word
  PROVE  /\ Written(file, i, word) \in [Register -> Word]
         /\ i # 0 => Written(file, i, word)[i] = word
         /\ \A j \in Register : j # i => Written(file, i, word)[j] = file[j]
BY DEF Written, Operand, Register

LEMMA RegIsWord ==
  ASSUME TypeOK, NEW i \in Operand
  PROVE  Reg(i) \in Word
<1>1. 0 \in Word
  BY Widths DEF Word
<1>2. QED
  BY <1>1 DEF TypeOK, Reg, Operand

LEMMA ShiftFlagsAre ==
  ASSUME NEW f \in Flags, NEW op, NEW left, NEW amount
  PROVE  /\ ShiftFlags(f, op, left, amount) \in Flags
         /\ ShiftFlags(f, op, left, amount).cy <=> ShiftedOut(op, left, amount)
<1> DEFINE result == Shifted(op, left, amount)
           cy == ShiftedOut(op, left, amount)
<1>1. cy \in BOOLEAN
  BY DEF ShiftedOut
<1>2. ShiftFlags(f, op, left, amount) = [ZS(f, result) EXCEPT !.ov = FALSE, !.cy = cy]
  BY DEF ShiftFlags
<1> HIDE DEF result, cy
<1>3. AreFlags(ShiftFlags(f, op, left, amount), result, FALSE, cy)
  BY <1>1, <1>2, NegativeOrNot DEF AreFlags, Flags, ZS
<1>4. QED
  BY <1>3 DEF AreFlags, cy

LEMMA WideFlagsAre ==
  ASSUME NEW f \in Flags, NEW op, NEW left, NEW right, WideOverflow(op, left, right) \in BOOLEAN
  PROVE  /\ WideFlags(f, op, left, right) \in Flags
         /\ WideFlags(f, op, left, right).ov <=> WideOverflow(op, left, right)
<1> DEFINE result == WideResult(op, left, right).low
           ov == WideOverflow(op, left, right)
<1>1. ov \in BOOLEAN
  OBVIOUS
<1>2. WideFlags(f, op, left, right) = [ZS(f, result) EXCEPT !.ov = ov]
  BY DEF WideFlags
<1> HIDE DEF result, ov
<1>3. WideFlags(f, op, left, right) \in Flags /\ WideFlags(f, op, left, right).ov = ov
  BY <1>1, <1>2, NegativeOrNot DEF Flags, ZS
<1>4. QED
  BY <1>1, <1>3 DEF ov

LEMMA AmountIs ==
  ASSUME NEW word \in Word
  PROVE  Amount(word) \in 0..(WORD_BITS - 1)
<1>1. word \in Int /\ WORD_BITS \in Nat \ {0}
  BY Widths, SignedValue
<1>2. QED
  BY <1>1, Divided DEF Amount

\* Each part of exactness is about some of the operations only.
LEMMA OtherOperations ==
  /\ computed'.op \notin {"Add", "Sub"} => SumsAreExact'
  /\ computed'.op \notin Shift => ShiftsAreExact'
  /\ computed'.op \notin {"Mul", "Mulu", "Mpyhw"} => ProductsAreExact'
  /\ computed'.op # "Rev" => ReversalsAreExact'
  /\ computed'.op \notin {"Div", "Divu"} => DivisionsAreExact'
BY DEF SumsAreExact, ShiftsAreExact, ProductsAreExact, ReversalsAreExact, DivisionsAreExact

LEMMA NothingIsExact ==
  ASSUME computed' = Nothing
  PROVE  ArithmeticIsExact'
BY OtherOperations DEF ArithmeticIsExact, Nothing, Shift

LEMMA NothingIsTold ==
  ASSUME compared' = Nothing
  PROVE  ConditionsTellTheOrder'
BY DEF ConditionsTellTheOrder

\* What a record of an operation says, and when it says something of an order.
LEMMA RecordIs ==
  ASSUME NEW op, NEW left, NEW right, NEW target, computed' = Operands(op, left, right, target)
  PROVE  computed'.op = op /\ computed'.left = left /\ computed'.right = right /\ computed'.target = target
BY DEF Operands

LEMMA NoOrderTold ==
  ASSUME NEW op, NEW left, NEW right, NEW target,
         Recorded(op, left, right, target), op \notin Compare
  PROVE  ConditionsTellTheOrder'
BY NothingIsTold DEF Recorded

LEMMA OrderIsTold ==
  ASSUME NEW op \in Compare, NEW left \in Word, NEW right \in Word, NEW target,
         Recorded(op, left, right, target), OrderTold(flags', left, right)
  PROVE  ConditionsTellTheOrder'
<1>1. compared'.left = left /\ compared'.right = right
  BY DEF Recorded, Operands
<1>2. QED
  BY <1>1 DEF OrderTold, ConditionsTellTheOrder

-----------------------------------------------------------------------------
(* The forms of the instructions, operation by operation.                     *)

IInv == TypeOK /\ ConditionsTellTheOrder /\ ArithmeticIsExact

LEMMA AddHolds ==
  ASSUME TypeOK, NEW left \in Word, NEW right \in Word, NEW target \in Operand,
         Arithmetic("Add", left, right, target), Recorded("Add", left, right, target)
  PROVE  IInv'
<1> DEFINE result == Unsigned(left + right)
<1>1. flags' = AddFlags(flags, left, right) /\ regs' = Written(regs, target, result)
  BY DEF Arithmetic, Compare, Shift, Logic
<1>2. SumLeft(flags', result, left, right)
  BY <1>1, SumIsExact DEF TypeOK
<1> HIDE DEF result
<1>3. result \in Word /\ flags' \in Flags
  BY <1>2 DEF SumLeft
<1>4. regs' \in [Register -> Word] /\ (target # 0 => regs'[target] = result)
  BY <1>1, <1>3, WrittenIs DEF TypeOK
<1>5. /\ computed'.op = "Add" /\ computed'.left = left /\ computed'.right = right
      /\ computed'.target = target
  BY RecordIs DEF Recorded
<1>6. Carry' = CarryOf(flags')
  BY DEF Carry, CarryOf
<1>7. SumsAreExact'
  BY <1>2, <1>4, <1>5, <1>6 DEF SumsAreExact, Result, SumLeft
<1>8. ArithmeticIsExact'
  BY <1>5, <1>7, OtherOperations DEF ArithmeticIsExact, Shift
<1>9. ConditionsTellTheOrder'
  BY NoOrderTold DEF Compare
<1>10. QED
  BY <1>3, <1>4, <1>8, <1>9 DEF IInv, TypeOK

LEMMA SubHolds ==
  ASSUME TypeOK, NEW left \in Word, NEW right \in Word, NEW target \in Operand,
         Arithmetic("Sub", left, right, target), Recorded("Sub", left, right, target)
  PROVE  IInv'
<1> DEFINE result == Unsigned(left - right)
<1>1. flags' = SubFlags(flags, left, right) /\ regs' = Written(regs, target, result)
  BY DEF Arithmetic, Compare, Shift, Logic
<1>2. DifferenceLeft(flags', result, left, right) /\ OrderTold(flags', left, right)
  BY <1>1, DifferenceIsExact DEF TypeOK
<1> HIDE DEF result
<1>3. result \in Word /\ flags' \in Flags
  BY <1>2 DEF DifferenceLeft
<1>4. regs' \in [Register -> Word] /\ (target # 0 => regs'[target] = result)
  BY <1>1, <1>3, WrittenIs DEF TypeOK
<1>5. /\ computed'.op = "Sub" /\ computed'.left = left /\ computed'.right = right
      /\ computed'.target = target
  BY RecordIs DEF Recorded
<1>6. Carry' = CarryOf(flags')
  BY DEF Carry, CarryOf
<1>7. SumsAreExact'
  BY <1>2, <1>4, <1>5, <1>6 DEF SumsAreExact, Result, DifferenceLeft
<1>8. ArithmeticIsExact'
  BY <1>5, <1>7, OtherOperations DEF ArithmeticIsExact, Shift
<1>9. ConditionsTellTheOrder'
  BY <1>2, OrderIsTold DEF Compare
<1>10. QED
  BY <1>3, <1>4, <1>8, <1>9 DEF IInv, TypeOK

LEMMA CmpHolds ==
  ASSUME TypeOK, NEW left \in Word, NEW right \in Word, NEW target \in Operand,
         Arithmetic("Cmp", left, right, target), Recorded("Cmp", left, right, target)
  PROVE  IInv'
<1>1. flags' = SubFlags(flags, left, right) /\ regs' = regs
  BY DEF Arithmetic, Compare, Shift, Logic
<1>2. DifferenceLeft(flags', Unsigned(left - right), left, right) /\ OrderTold(flags', left, right)
  BY <1>1, DifferenceIsExact DEF TypeOK
<1>3. flags' \in Flags
  BY <1>2 DEF DifferenceLeft
<1>4. computed'.op = "Cmp"
  BY RecordIs DEF Recorded
<1>5. ArithmeticIsExact'
  BY <1>4, OtherOperations DEF ArithmeticIsExact, Shift
<1>6. ConditionsTellTheOrder'
  BY <1>2, OrderIsTold DEF Compare
<1>7. QED
  BY <1>1, <1>3, <1>5, <1>6 DEF IInv, TypeOK

LEMMA ShiftHolds ==
  ASSUME TypeOK, NEW op \in Shift, NEW left \in Word, NEW right \in Word, NEW target \in Operand,
         Arithmetic(op, left, right, target), Recorded(op, left, right, target)
  PROVE  IInv'
<1> DEFINE amount == Amount(right)
           result == Shifted(op, left, amount)
           cy == ShiftedOut(op, left, amount)
<1>1. flags' = ShiftFlags(flags, op, left, amount) /\ regs' = Written(regs, target, result)
  BY DEF Arithmetic, Compare, Shift, Logic
<1>2. flags' \in Flags /\ (flags'.cy <=> cy)
  <2> HIDE DEF amount
  <2>1. QED
    BY <1>1, ShiftFlagsAre DEF TypeOK
<1>3. amount \in 0..(WORD_BITS - 1)
  BY AmountIs
<1>4. ShiftIs(op, result, cy, left, amount)
  <2> HIDE DEF amount
  <2>1. QED
    BY <1>3, ShiftIsExact
<1>5. amount = right % WORD_BITS
  BY DEF Amount
<1> HIDE DEF amount, result, cy
<1>6. result \in Word
  BY <1>4 DEF ShiftIs
<1>7. regs' \in [Register -> Word] /\ (target # 0 => regs'[target] = result)
  BY <1>1, <1>6, WrittenIs DEF TypeOK
<1>8. /\ computed'.op = op /\ computed'.left = left /\ computed'.right = right
      /\ computed'.target = target
  BY RecordIs DEF Recorded
<1>9. Carry' = IF cy THEN 1 ELSE 0
  BY <1>2 DEF Carry
<1>10. ShiftsAreExact'
  <2> SUFFICES ASSUME target # 0
               PROVE  IF amount = 0 THEN regs'[target] = left /\ ~flags'.cy
                      ELSE CASE op = "Shl" ->
                                  (left * 2^amount) % (2 * M) = regs'[target] + M * Carry'
                             [] op = "Shr" ->
                                  left \div 2^(amount - 1) = 2 * regs'[target] + Carry'
                             [] op = "Sar" ->
                                  Signed(left) \div 2^(amount - 1) = 2 * Signed(regs'[target]) + Carry'
    BY <1>5, <1>8 DEF ShiftsAreExact, Result
  <2>1. regs'[target] = result
    BY <1>7
  <2>2. QED
    BY <1>2, <1>4, <1>9, <2>1, Zenon DEF ShiftIs, Shift
<1>11. ArithmeticIsExact'
  BY <1>8, <1>10, OtherOperations DEF ArithmeticIsExact, Shift
<1>12. ConditionsTellTheOrder'
  BY NoOrderTold DEF Compare, Shift
<1>13. QED
  BY <1>2, <1>7, <1>11, <1>12 DEF IInv, TypeOK

LEMMA LogicHolds ==
  ASSUME TypeOK, NEW op \in Logic, NEW left \in Word, NEW right \in Word, NEW target \in Operand,
         Arithmetic(op, left, right, target), Recorded(op, left, right, target)
  PROVE  IInv'
<1> DEFINE result == Logical(op, left, right)
<1>1. flags' = LogicFlags(flags, op, result) /\ regs' = Written(regs, target, result)
  BY DEF Arithmetic, Compare, Shift, Logic
<1>2. result \in Word
  BY LogicalIsWord
<1> HIDE DEF result
<1>3. flags' \in Flags
  BY <1>1, LogicFlagsAreFlags DEF TypeOK
<1>4. regs' \in [Register -> Word]
  BY <1>1, <1>2, WrittenIs DEF TypeOK
<1>5. computed'.op = op
  BY RecordIs DEF Recorded
<1>6. ArithmeticIsExact'
  BY <1>5, OtherOperations DEF ArithmeticIsExact, Shift, Logic
<1>7. ConditionsTellTheOrder'
  BY NoOrderTold DEF Compare, Logic
<1>8. QED
  BY <1>3, <1>4, <1>6, <1>7 DEF IInv, TypeOK

LEMMA ArithmeticHolds ==
  ASSUME TypeOK, NEW op \in Operation \ Wide,
         NEW left \in Word, NEW right \in Word, NEW target \in Operand,
         Arithmetic(op, left, right, target), Recorded(op, left, right, target)
  PROVE  IInv'
<1>1. op = "Add" \/ op = "Sub" \/ op = "Cmp" \/ op \in Shift \/ op \in Logic
  BY DEF Operation, Compare
<1>2. QED
  BY <1>1, AddHolds, SubHolds, CmpHolds, ShiftHolds, LogicHolds
\* A product or quotient takes its target, and r30 beside it.
BothWritten(low, high, target) ==
  /\ regs' \in [Register -> Word]
  /\ target # 0 => regs'[target] = low
  /\ target # 30 => regs'[30] = high

LEMMA BothAreWritten ==
  ASSUME TypeOK, NEW low \in Word, NEW high \in Word, NEW target \in Operand,
         regs' = Written(Written(regs, 30, high), target, low)
  PROVE  BothWritten(low, high, target)
<1> DEFINE file == Written(regs, 30, high)
<1>1. 30 \in Operand /\ 30 \in Register /\ 30 # 0
  BY DEF Operand, Register
<1>2. file \in [Register -> Word] /\ file[30] = high
  BY <1>1, WrittenIs DEF TypeOK
<1> HIDE DEF file
<1>3. regs' = Written(file, target, low)
  BY DEF file
<1>4. QED
  BY <1>1, <1>2, <1>3, WrittenIs DEF BothWritten

LEMMA MulHolds ==
  ASSUME TypeOK, NEW reg1 \in Operand, NEW reg2 \in Operand,
         MultiplyDivide("Mul", reg1, reg2), Recorded("Mul", Reg(reg2), Reg(reg1), reg2)
  PROVE  IInv'
<1> DEFINE left == Reg(reg2)
           right == Reg(reg1)
           result == WideResult("Mul", left, right)
           ov == WideOverflow("Mul", left, right)
<1>1. left \in Word /\ right \in Word
  BY RegIsWord
<1>2. /\ flags' = WideFlags(flags, "Mul", left, right)
      /\ regs' = Written(Written(regs, 30, result.high), reg2, result.low)
  BY DEF MultiplyDivide
<1>3. /\ computed'.op = "Mul" /\ computed'.left = left /\ computed'.right = right
      /\ computed'.target = reg2
  BY RecordIs DEF Recorded
<1> HIDE DEF left, right
<1>4. SignedProductLeft(result, ov, left, right)
  BY <1>1, SignedProductIsExact
<1>5. ov \in BOOLEAN
  BY <1>4 DEF SignedProductLeft
<1>6. flags' \in Flags /\ (flags'.ov <=> ov)
  BY <1>2, <1>5, WideFlagsAre DEF TypeOK
<1> HIDE DEF result, ov
<1>7. BothWritten(result.low, result.high, reg2)
  <2>1. result.low \in Word /\ result.high \in Word
    BY <1>4 DEF SignedProductLeft
  <2>2. QED
    BY <1>2, <2>1, BothAreWritten
<1>8. ProductsAreExact'
  BY <1>3, <1>4, <1>6, <1>7 DEF ProductsAreExact, Result, SignedProductLeft, BothWritten
<1>9. ArithmeticIsExact'
  BY <1>3, <1>8, OtherOperations DEF ArithmeticIsExact, Shift
<1>10. ConditionsTellTheOrder'
  BY NoOrderTold DEF Compare
<1>11. QED
  BY <1>6, <1>7, <1>9, <1>10 DEF IInv, TypeOK, BothWritten

LEMMA MuluHolds ==
  ASSUME TypeOK, NEW reg1 \in Operand, NEW reg2 \in Operand,
         MultiplyDivide("Mulu", reg1, reg2), Recorded("Mulu", Reg(reg2), Reg(reg1), reg2)
  PROVE  IInv'
<1> DEFINE left == Reg(reg2)
           right == Reg(reg1)
           result == WideResult("Mulu", left, right)
           ov == WideOverflow("Mulu", left, right)
<1>1. left \in Word /\ right \in Word
  BY RegIsWord
<1>2. /\ flags' = WideFlags(flags, "Mulu", left, right)
      /\ regs' = Written(Written(regs, 30, result.high), reg2, result.low)
  BY DEF MultiplyDivide
<1>3. /\ computed'.op = "Mulu" /\ computed'.left = left /\ computed'.right = right
      /\ computed'.target = reg2
  BY RecordIs DEF Recorded
<1> HIDE DEF left, right
<1>4. UnsignedProductLeft(result, ov, left, right)
  BY <1>1, UnsignedProductIsExact
<1>5. ov \in BOOLEAN
  BY <1>4 DEF UnsignedProductLeft
<1>6. flags' \in Flags /\ (flags'.ov <=> ov)
  BY <1>2, <1>5, WideFlagsAre DEF TypeOK
<1> HIDE DEF result, ov
<1>7. BothWritten(result.low, result.high, reg2)
  <2>1. result.low \in Word /\ result.high \in Word
    BY <1>4 DEF UnsignedProductLeft
  <2>2. QED
    BY <1>2, <2>1, BothAreWritten
<1>8. ProductsAreExact'
  BY <1>3, <1>4, <1>6, <1>7 DEF ProductsAreExact, Result, UnsignedProductLeft, BothWritten
<1>9. ArithmeticIsExact'
  BY <1>3, <1>8, OtherOperations DEF ArithmeticIsExact, Shift
<1>10. ConditionsTellTheOrder'
  BY NoOrderTold DEF Compare
<1>11. QED
  BY <1>6, <1>7, <1>9, <1>10 DEF IInv, TypeOK, BothWritten

LEMMA DivHolds ==
  ASSUME TypeOK, NEW op \in {"Div", "Divu"}, NEW reg1 \in Operand, NEW reg2 \in Operand,
         MultiplyDivide(op, reg1, reg2), Recorded(op, Reg(reg2), Reg(reg1), reg2)
  PROVE  IInv'
<1> DEFINE left == Reg(reg2)
           right == Reg(reg1)
           result == WideResult(op, left, right)
           ov == WideOverflow(op, left, right)
<1>1. left \in Word /\ right \in Word
  BY RegIsWord
<1>2. /\ flags' = WideFlags(flags, op, left, right)
      /\ regs' = Written(Written(regs, 30, result.high), reg2, result.low)
      /\ right # 0
  BY DEF MultiplyDivide
<1>3. /\ computed'.op = op /\ computed'.left = left /\ computed'.right = right
      /\ computed'.target = reg2
  BY RecordIs DEF Recorded
<1> HIDE DEF left, right
<1>4. DivisionLeft(result.low, result.high, ov, op = "Div", left, right)
  <2>1. CASE op = "Div"
    <3>1. DivisionLeft(result.low, result.high, ov, TRUE, left, right)
      BY <1>1, <1>2, <2>1, SignedDivisionIsExact
    <3>2. (op = "Div") = TRUE
      BY <2>1
    <3>3. QED
      BY <3>1, <3>2, Zenon
  <2>2. CASE op = "Divu"
    <3>1. DivisionLeft(result.low, result.high, ov, FALSE, left, right)
      BY <1>1, <1>2, <2>2, UnsignedDivisionIsExact
    <3>2. (op = "Div") = FALSE
      BY <2>2
    <3>3. QED
      BY <3>1, <3>2, Zenon
  <2>3. QED
    BY <2>1, <2>2
<1>5. ov \in BOOLEAN
  BY <1>4 DEF DivisionLeft
<1>6. flags' \in Flags /\ (flags'.ov <=> ov)
  BY <1>2, <1>5, WideFlagsAre DEF TypeOK
<1> HIDE DEF result, ov
<1>7. BothWritten(result.low, result.high, reg2)
  <2>1. result.low \in Word /\ result.high \in Word
    BY <1>4 DEF DivisionLeft
  <2>2. QED
    BY <1>2, <2>1, BothAreWritten
<1>8. DivisionsAreExact'
  <2> SUFFICES ASSUME reg2 # 0 PROVE DivisionsAreExact'
    BY <1>3 DEF DivisionsAreExact
  <2>1. regs'[reg2] = result.low /\ (reg2 # 30 => regs'[30] = result.high)
    BY <1>7 DEF BothWritten
  <2>2. CASE op = "Div"
    <3> DEFINE a == Signed(left)
               b == Signed(right)
               product == Signed(result.low) * b
               rest == (IF ov THEN -a ELSE a) - product
    <3>1. /\ rest = Signed(result.high)
          /\ Magnitude(rest) < Magnitude(b)
          /\ rest = 0 \/ (rest < 0 <=> a < 0)
          /\ ov <=> a = -(M \div 2) /\ b = -1
      <4>1. DivisionLeft(result.low, result.high, ov, TRUE, left, right)
        <5>1. (op = "Div") = TRUE
          BY <2>2
        <5>2. QED
          BY <1>4, <5>1
      <4>2. result.low \in Word /\ result.high \in Word
        BY <4>1 DEF DivisionLeft
      <4>3. Signed(result.low) \in Int /\ Signed(result.high) \in Int /\ a \in Int /\ b \in Int
        BY <1>1, <4>2, Widths, SignedValue DEF Word
      <4>4. product \in Int
        BY <4>3
      <4>5. product + Signed(result.high) = IF ov THEN -a ELSE a
        BY <4>1 DEF DivisionLeft
      <4> HIDE DEF product
      <4>6. rest = Signed(result.high)
        BY <1>5, <4>3, <4>4, <4>5
      <4> HIDE DEF rest
      <4>7. QED
        BY <4>1, <4>6 DEF DivisionLeft
    <3> HIDE DEF a, b, product, rest
    <3>2. QED
      BY <1>3, <1>6, <2>1, <2>2, <3>1 DEF DivisionsAreExact, Result, a, b, rest, product
  <2>3. CASE op = "Divu"
    <3> DEFINE product == result.low * right
               rest == (IF ov THEN -left ELSE left) - product
    <3>1. /\ rest = result.high
          /\ Magnitude(rest) < Magnitude(right)
          /\ rest = 0 \/ (rest < 0 <=> left < 0)
          /\ ov = FALSE
      <4>1. DivisionLeft(result.low, result.high, ov, FALSE, left, right)
        <5>1. (op = "Div") = FALSE
          BY <2>3
        <5>2. QED
          BY <1>4, <5>1
      <4>2. result.low \in Word /\ result.high \in Word
        BY <4>1 DEF DivisionLeft
      <4>3. result.low \in Int /\ result.high \in Int /\ left \in Int /\ right \in Int
        BY <1>1, <4>2, Widths, SignedValue DEF Word
      <4>4. product \in Int
        BY <4>3
      <4>5. product + result.high = IF ov THEN -left ELSE left
        BY <4>1 DEF DivisionLeft
      <4> HIDE DEF product
      <4>6. rest = result.high
        BY <1>5, <4>3, <4>4, <4>5
      <4> HIDE DEF rest
      <4>7. QED
        BY <4>1, <4>6 DEF DivisionLeft
    <3> HIDE DEF product, rest
    <3>2. QED
      BY <1>3, <1>6, <2>1, <2>3, <3>1 DEF DivisionsAreExact, Result, rest, product
  <2>4. QED
    BY <2>2, <2>3
<1>9. ArithmeticIsExact'
  BY <1>3, <1>8, OtherOperations DEF ArithmeticIsExact, Shift
<1>10. ConditionsTellTheOrder'
  BY NoOrderTold DEF Compare
<1>11. QED
  BY <1>6, <1>7, <1>9, <1>10 DEF IInv, TypeOK, BothWritten

LEMMA WideHolds ==
  ASSUME TypeOK, NEW op \in Wide, NEW reg1 \in Operand, NEW reg2 \in Operand,
         MultiplyDivide(op, reg1, reg2), Recorded(op, Reg(reg2), Reg(reg1), reg2)
  PROVE  IInv'
BY MulHolds, MuluHolds, DivHolds DEF Wide

-----------------------------------------------------------------------------
(* The actions.                                                               *)

LEMMA ComputeHolds ==
  ASSUME TypeOK, HistoryCompute
  PROVE  IInv'
<1>1. ASSUME NEW op \in Operation, NEW reg1 \in Operand, NEW reg2 \in Operand,
             RegisterForm(op, reg1, reg2), Recorded(op, Reg(reg2), Reg(reg1), reg2)
      PROVE  IInv'
  <2>1. op \in Operation \ Wide /\ Arithmetic(op, Reg(reg2), Reg(reg1), reg2)
    BY <1>1 DEF RegisterForm
  <2>2. Reg(reg2) \in Word /\ Reg(reg1) \in Word
    BY RegIsWord
  <2>3. QED
    BY <1>1, <2>1, <2>2, ArithmeticHolds
<1>2. ASSUME NEW op \in Wide, NEW reg1 \in Operand, NEW reg2 \in Operand,
             MultiplyDivide(op, reg1, reg2), Recorded(op, Reg(reg2), Reg(reg1), reg2)
      PROVE  IInv'
  BY <1>2, WideHolds
<1>3. ASSUME NEW op \in Operation, NEW imm \in Immediates, NEW reg2 \in Operand,
             ImmediateForm(op, imm, reg2), Recorded(op, Reg(reg2), imm, reg2)
      PROVE  IInv'
  <2>1. op \in Operation \ Wide /\ Arithmetic(op, Reg(reg2), imm, reg2)
    BY <1>3 DEF ImmediateForm, Wide, Shift
  <2>2. Reg(reg2) \in Word /\ imm \in Word
    BY RegIsWord, WordAssumption
  <2>3. QED
    BY <1>3, <2>1, <2>2, ArithmeticHolds
<1>4. ASSUME NEW op \in Operation, NEW reg1 \in Operand, NEW reg2 \in Operand, NEW imm \in Immediates,
             LongForm(op, reg1, imm, reg2), Recorded(op, Reg(reg1), imm, reg2)
      PROVE  IInv'
  <2>1. op \in Operation \ Wide /\ Arithmetic(op, Reg(reg1), imm, reg2)
    BY <1>4 DEF LongForm, Wide
  <2>2. Reg(reg1) \in Word /\ imm \in Word
    BY RegIsWord, WordAssumption
  <2>3. QED
    BY <1>4, <2>1, <2>2, ArithmeticHolds
<1>5. QED
  BY <1>1, <1>2, <1>3, <1>4 DEF HistoryCompute

\* The flags stay, so what they tell of an order stays.
LEMMA OrderStays ==
  ASSUME ConditionsTellTheOrder, UNCHANGED <<flags, compared>>
  PROVE  ConditionsTellTheOrder'
BY DEF ConditionsTellTheOrder

LEMMA SilentHolds ==
  ASSUME IInv, HistorySilent
  PROVE  IInv'
<1>1. PICK op \in Silent, reg1 \in Operand, reg2 \in Operand :
        /\ SilentForm(op, reg1, reg2)
        /\ computed' = IF compared # Nothing THEN Nothing
                       ELSE Operands(op, IF op = "Rev" THEN 0 ELSE Reg(reg2), Reg(reg1), reg2)
  BY DEF HistorySilent
<1> DEFINE left == Reg(reg2)
           right == Reg(reg1)
           result == SilentResult(op, left, right)
<1>2. left \in Word /\ right \in Word
  BY RegIsWord DEF IInv
<1>3. flags' = flags /\ regs' = Written(regs, reg2, result)
  BY <1>1 DEF SilentForm
<1>4. ConditionsTellTheOrder'
  BY <1>3, OrderStays DEF IInv, HistorySilent
<1>5. computed' = Nothing \/ computed' = Operands(op, IF op = "Rev" THEN 0 ELSE left, right, reg2)
  BY <1>1
<1> HIDE DEF left, right
<1>6. CASE op = "Mpyhw"
  <2>1. ShortProductLeft(result, left, right)
    BY <1>2, <1>6, ShortProductIsExact
  <2> HIDE DEF result
  <2>2. result \in Word
    BY <2>1 DEF ShortProductLeft
  <2>3. regs' \in [Register -> Word] /\ (reg2 # 0 => regs'[reg2] = result)
    BY <1>3, <2>2, WrittenIs DEF IInv, TypeOK
  <2>4. CASE computed' = Operands(op, left, right, reg2)
    <3>1. /\ computed'.op = "Mpyhw" /\ computed'.left = left /\ computed'.right = right
          /\ computed'.target = reg2
      BY <1>6, <2>4, RecordIs
    <3>2. ProductsAreExact'
      BY <2>1, <2>3, <3>1 DEF ProductsAreExact, Result, ShortProductLeft
    <3>3. ArithmeticIsExact'
      BY <3>1, <3>2, OtherOperations DEF ArithmeticIsExact, Shift
    <3>4. QED
      BY <1>3, <1>4, <2>3, <3>3 DEF IInv, TypeOK
  <2>5. CASE computed' = Nothing
    BY <1>3, <1>4, <2>3, <2>5, NothingIsExact DEF IInv, TypeOK
  <2>6. QED
    BY <1>5, <1>6, <2>4, <2>5
<1>7. CASE op = "Rev"
  <2>1. ReversedIs(result, right)
    BY <1>2, <1>7, ReversalIsExact DEF SilentResult
  <2> HIDE DEF result
  <2>2. result \in Word
    BY <2>1 DEF ReversedIs
  <2>3. regs' \in [Register -> Word] /\ (reg2 # 0 => regs'[reg2] = result)
    BY <1>3, <2>2, WrittenIs DEF IInv, TypeOK
  <2>4. CASE computed' = Operands(op, 0, right, reg2)
    <3>1. computed'.op = "Rev" /\ computed'.right = right /\ computed'.target = reg2
      BY <1>7, <2>4, RecordIs
    <3>2. ReversalsAreExact'
      BY <2>1, <2>3, <3>1 DEF ReversalsAreExact, Result, ReversedIs
    <3>3. ArithmeticIsExact'
      BY <3>1, <3>2, OtherOperations DEF ArithmeticIsExact, Shift
    <3>4. QED
      BY <1>3, <1>4, <2>3, <3>3 DEF IInv, TypeOK
  <2>5. CASE computed' = Nothing
    BY <1>3, <1>4, <2>3, <2>5, NothingIsExact DEF IInv, TypeOK
  <2>6. QED
    BY <1>5, <1>7, <2>4, <2>5
<1>8. QED
  BY <1>6, <1>7 DEF Silent

LEMMA MoveHolds ==
  ASSUME IInv, HistoryMove
  PROVE  IInv'
<1>1. 0 \in Word /\ 1 \in Word
  <2>1. HalfWord \in Nat \ {0} /\ M = 2 * HalfWord
    BY Widths
  <2>2. QED
    BY <2>1 DEF Word
<1>2. PICK word \in Word, reg2 \in Operand : Move(word, reg2)
  <2>1. ASSUME NEW condition \in Condition, NEW reg2 \in Operand, Setf(condition, reg2)
        PROVE  \E word \in Word : Move(word, reg2)
    BY <1>1, <2>1 DEF Setf, Move
  <2>2. QED
    BY <2>1 DEF HistoryMove
<1>3. flags' = flags /\ regs' = Written(regs, reg2, word)
  BY <1>2 DEF Move
<1>4. regs' \in [Register -> Word]
  BY <1>3, WrittenIs DEF IInv, TypeOK
<1>5. ConditionsTellTheOrder'
  BY <1>3, OrderStays DEF IInv, HistoryMove
<1>6. ArithmeticIsExact'
  BY NothingIsExact DEF HistoryMove
<1>7. QED
  BY <1>3, <1>4, <1>5, <1>6 DEF IInv, TypeOK

LEMMA PswHolds ==
  ASSUME IInv, HistoryPsw
  PROVE  IInv'
<1>1. flags' \in Flags /\ regs' = regs /\ computed' = Nothing /\ compared' = Nothing
  BY DEF HistoryPsw, WritePsw
<1>2. QED
  BY <1>1, NothingIsExact, NothingIsTold DEF IInv, TypeOK

LEMMA StutterHolds ==
  ASSUME IInv, UNCHANGED aluVars
  PROVE  IInv'
<1>1. regs' = regs /\ flags' = flags /\ computed' = computed /\ compared' = compared
  BY DEF aluVars
<1>2. TypeOK' /\ ConditionsTellTheOrder'
  BY <1>1, OrderStays DEF IInv, TypeOK
<1>3. Result' = Result /\ Carry' = Carry
  BY <1>1 DEF Result, Carry
<1>4. SumsAreExact'
  BY <1>1, <1>3 DEF IInv, ArithmeticIsExact, SumsAreExact
<1>5. ShiftsAreExact'
  BY <1>1, <1>3 DEF IInv, ArithmeticIsExact, ShiftsAreExact
<1>6. ProductsAreExact'
  BY <1>1, <1>3 DEF IInv, ArithmeticIsExact, ProductsAreExact
<1>7. ReversalsAreExact'
  BY <1>1, <1>3 DEF IInv, ArithmeticIsExact, ReversalsAreExact
<1>8. DivisionsAreExact'
  BY <1>1, <1>3 DEF IInv, ArithmeticIsExact, DivisionsAreExact
<1>9. QED
  BY <1>2, <1>4, <1>5, <1>6, <1>7, <1>8 DEF IInv, ArithmeticIsExact

LEMMA InitHolds ==
  ASSUME HistoryInit
  PROVE  IInv
<1>1. TypeOK
  BY DEF HistoryInit, Init, TypeOK, Flags
<1>2. computed.op = "none" /\ compared = Nothing
  BY DEF HistoryInit, Nothing
<1>3. ConditionsTellTheOrder
  BY <1>2 DEF ConditionsTellTheOrder
<1>4. ArithmeticIsExact
  BY <1>2 DEF ArithmeticIsExact, SumsAreExact, ShiftsAreExact, ProductsAreExact,
              ReversalsAreExact, DivisionsAreExact, Shift
<1>5. QED
  BY <1>1, <1>3, <1>4 DEF IInv

LEMMA Invariant == HistorySpec => []IInv
<1>1. HistoryInit => IInv
  BY InitHolds
<1>2. IInv /\ [HistoryNext]_aluVars => IInv'
  <2> SUFFICES ASSUME IInv, [HistoryNext]_aluVars PROVE IInv'
    OBVIOUS
  <2>1. CASE HistoryCompute
    BY <2>1, ComputeHolds DEF IInv
  <2>2. CASE HistorySilent
    BY <2>2, SilentHolds
  <2>3. CASE HistoryMove
    BY <2>3, MoveHolds
  <2>4. CASE HistoryPsw
    BY <2>4, PswHolds
  <2>5. CASE UNCHANGED aluVars
    BY <2>5, StutterHolds
  <2>6. QED
    BY <2>1, <2>2, <2>3, <2>4, <2>5 DEF HistoryNext
<1>3. QED
  BY <1>1, <1>2, PTL DEF HistorySpec

-----------------------------------------------------------------------------
\* Of words of any width: registers hold words and the flags are flags,
\* whatever is computed.
THEOREM TypeCorrect == HistorySpec => []TypeOK
<1>1. IInv => TypeOK
  BY DEF IInv
<1>2. QED
  BY <1>1, Invariant, PTL

\* Of words of any width: the conditions tell the order of what was compared
\* last, as long as no other instruction has set the flags.
THEOREM TellsTheOrder == HistorySpec => []ConditionsTellTheOrder
<1>1. IInv => ConditionsTellTheOrder
  BY DEF IInv
<1>2. QED
  BY <1>1, Invariant, PTL

\* Of words of any width: sums, differences, shifts, products, reversals and
\* quotients are the integer ones, with the flags that were left with them.
THEOREM IsExact == HistorySpec => []ArithmeticIsExact
<1>1. IInv => ArithmeticIsExact
  BY DEF IInv
<1>2. QED
  BY <1>1, Invariant, PTL

\* What is remembered of operations constrains none of them.
THEOREM HistoryImpliesAlu == HistorySpec => Spec
<1>1. HistoryInit => Init
  BY DEF HistoryInit
<1>2. [HistoryNext]_aluVars => [Next]_vars
  <2> SUFFICES ASSUME [HistoryNext]_aluVars PROVE [Next]_vars
    OBVIOUS
  <2>1. CASE HistoryCompute
    BY <2>1 DEF HistoryCompute, Next
  <2>2. CASE HistorySilent
    BY <2>2 DEF HistorySilent, Next
  <2>3. CASE HistoryMove
    BY <2>3 DEF HistoryMove, Next
  <2>4. CASE HistoryPsw
    BY <2>4 DEF HistoryPsw, Next
  <2>5. CASE UNCHANGED aluVars
    BY <2>5 DEF aluVars, vars
  <2>6. QED
    BY <2>1, <2>2, <2>3, <2>4, <2>5 DEF HistoryNext
<1>3. QED
  BY <1>1, <1>2, PTL DEF HistorySpec, Spec
=============================================================================
