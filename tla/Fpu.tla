--------------------------------- MODULE Fpu ----------------------------------
(* Floating point instructions: src/crates/vb-core/src/cpu/fpu.rs.            *)
(*                                                                            *)
(* Registers hold words of a small format: a sign, EXPONENT_BITS bits, and    *)
(* PRECISION - 1 bits of fraction, or an integer of as many bits.  What the   *)
(* code computes in f64 is a number of WIDE significant bits, whose exponent  *)
(* no operation on the small format leaves the range of.                      *)
EXTENDS Integers

CONSTANTS EXPONENT_BITS,  \* 8
          PRECISION,      \* 24
          WIDE,           \* 53
          FlagSets        \* the sticky flags a program may start with

ASSUME FpuAssumption == /\ EXPONENT_BITS \in Nat \ {0, 1}
                        /\ PRECISION \in Nat \ {0, 1}
                        /\ WIDE \in Nat /\ WIDE >= 2 * PRECISION + 2
                        /\ WIDE >= EXPONENT_BITS + PRECISION

FLOAT_BITS == EXPONENT_BITS + PRECISION
Word == 0..(2^FLOAT_BITS - 1)

BIAS  == 2^(EXPONENT_BITS - 1) - 1
LEAST == 1 - BIAS - (PRECISION - 1)   \* the exponent of the smallest denormal

\* Sticky flags of the status word; a fault has the name of the flag it sets.
Faults == {"FRO", "FIV", "FZD", "FOV"}
Sticky == Faults \cup {"FUD", "FPR"}

VARIABLES regs,        \* r1 and r2
          conditions,  \* the flags branches look at
          sticky,      \* the sticky flags that are set
          fault,       \* what the last instruction raised, or "None"
          ready        \* bound: nothing has been executed

floatVars == <<regs, conditions, sticky, fault, ready>>

-----------------------------------------------------------------------------
(* Numbers: m * 2^e with an odd m, or zero, so that equal numbers are equal   *)
(* records but for the two zeros.                                             *)

Number(neg, m, e) ==
  LET twos == CHOOSE k \in 0..m : m % 2^k = 0 /\ (m \div 2^k) % 2 = 1
  IN  IF m = 0 THEN [kind |-> "finite", neg |-> neg, m |-> 0, e |-> 0]
      ELSE [kind |-> "finite", neg |-> neg, m |-> m \div 2^twos, e |-> e + twos]

Special(kind, neg) == [kind |-> kind, neg |-> neg, m |-> 0, e |-> 0]
Infinite(neg) == Special("infinite", neg)
NaN           == Special("nan", FALSE)

IsZero(x) == x.kind = "finite" /\ x.m = 0
IsInfinite(x) == x.kind = "infinite"

\* x == y, which takes the zeros for one number and a NaN for none.
Equal(x, y) == x.kind # "nan" /\ (x = y \/ (IsZero(x) /\ IsZero(y)))

\* The magnitude is less than 2^k.
Below(x, k) == x.m = 0 \/ (k > x.e /\ x.m < 2^(k - x.e))

\* f32::MIN_POSITIVE is 2^LEAST_NORMAL; f32::MAX is below 2^(BIAS + 1).
LEAST_NORMAL == 1 - BIAS
Tiny(x)    == x.kind = "finite" /\ Below(x, LEAST_NORMAL)
TooBig(x)  == x.kind = "finite" /\ ~Below(x, BIAS + 1)

Bits(n) == CHOOSE b \in 0..n : n < 2^b /\ (b = 0 \/ n >= 2^(b - 1))
MaxOf(a, b) == IF a > b THEN a ELSE b

\* Mutant: a half is always rounded up.
HalfEvenUp(num, den) == (2 * num + den) \div (2 * den)
HalfEven(num, den) ==
  LET q == num \div den  twice == 2 * (num % den)
  IN  IF twice > den \/ (twice = den /\ q % 2 = 1) THEN q + 1 ELSE q

Scaled(num, k) == num * 2^MaxOf(k, 0)

\* num/den * 2^exp to the nearest number of so many bits and no exponent below
\* the least, the even one of two.
Rounded(neg, num, den, exp, bits, least) ==
  LET near  == bits - (Bits(num) - Bits(den))
      exact == IF Scaled(num, near) >= Scaled(den, -near) * 2^bits THEN near - 1 ELSE near
      k     == IF exp - exact < least THEN exp - least ELSE exact
  IN  IF num = 0 THEN Number(neg, 0, 0)
      ELSE Number(neg, HalfEven(Scaled(num, k), Scaled(den, -k)), exp - k)

\* Less than the exponent of any product or quotient.
NoLeast == 2 * LEAST - BIAS - 2 * WIDE
Wide(neg, num, den, exp) == Rounded(neg, num, den, exp, WIDE, NoLeast)

\* `as f32'.
Narrow(x) ==
  LET nearest == Rounded(x.neg, x.m, 1, x.e, PRECISION, LEAST)
  IN  IF x.kind # "finite" THEN x
      ELSE IF TooBig(nearest) THEN Infinite(x.neg) ELSE nearest

-----------------------------------------------------------------------------
(* Words.                                                                     *)

Negative(word) == word >= 2^(FLOAT_BITS - 1)
Exponent(word) == (word \div 2^(PRECISION - 1)) % 2^EXPONENT_BITS
Fraction(word) == word % 2^(PRECISION - 1)
Signed(word)   == IF Negative(word) THEN word - 2^FLOAT_BITS ELSE word

FromBits(word) ==
  CASE Exponent(word) = 2^EXPONENT_BITS - 1 ->
         IF Fraction(word) = 0 THEN Infinite(Negative(word)) ELSE NaN
    [] Exponent(word) = 0 -> Number(Negative(word), Fraction(word), LEAST)
    [] OTHER -> Number(Negative(word), Fraction(word) + 2^(PRECISION - 1),
                       Exponent(word) - BIAS - (PRECISION - 1))

\* A NaN that an operation makes is quiet and of either sign.
QuietNaNs == {word \in Word : FromBits(word) = NaN /\ Fraction(word) = 2^(PRECISION - 2)}

WordsOf == [x \in {FromBits(word) : word \in Word} |->
              IF x = NaN THEN QuietNaNs ELSE {word \in Word : FromBits(word) = x}]

ReservedOperand(x) == x.kind = "nan" \/ (~IsZero(x) /\ Tiny(x))

-----------------------------------------------------------------------------
(* Operations of f64.                                                         *)

Negated(x) == [x EXCEPT !.neg = ~@]

Sum(a, b) ==
  LET e == IF a.e < b.e THEN a.e ELSE b.e
      Aligned(x) == (IF x.neg THEN -1 ELSE 1) * x.m * 2^(x.e - e)
      sum == Aligned(a) + Aligned(b)
  IN  IF IsInfinite(a) THEN (IF IsInfinite(b) /\ a # b THEN NaN ELSE a)
      ELSE IF IsInfinite(b) THEN b
      ELSE IF sum = 0 THEN Number(a.neg /\ b.neg, 0, 0)
      ELSE Wide(sum < 0, IF sum < 0 THEN -sum ELSE sum, 1, e)

Product(a, b) ==
  LET neg == a.neg # b.neg
  IN  IF ~IsInfinite(a) /\ ~IsInfinite(b) THEN Wide(neg, a.m * b.m, 1, a.e + b.e)
      ELSE IF IsZero(a) \/ IsZero(b) THEN NaN
      ELSE Infinite(neg)

\* The divisor is not zero.
Quotient(a, b) ==
  LET neg == a.neg # b.neg
  IN  IF IsInfinite(a) THEN (IF IsInfinite(b) THEN NaN ELSE Infinite(neg))
      ELSE IF IsInfinite(b) THEN Number(neg, 0, 0)
      ELSE Wide(neg, a.m, b.m, a.e - b.e)

\* To an integer, which is not infinite.
Signing(neg, n) == IF neg THEN -n ELSE n
RoundTiesEven(x) == Signing(x.neg, HalfEven(Scaled(x.m, x.e), 2^MaxOf(-x.e, 0)))
Trunc(x)         == Signing(x.neg, Scaled(x.m, x.e) \div 2^MaxOf(-x.e, 0))

-----------------------------------------------------------------------------
(* How an instruction ends.                                                   *)

SetReg(number, word) == IF number = 0 THEN regs ELSE [regs EXCEPT ![number] = word]

\* Carry duplicates the sign.
SetFpCondition(word) ==
  conditions' = [z |-> word = 0, s |-> Negative(word), cy |-> Negative(word), ov |-> FALSE]

Fault(name) == /\ fault' = name
               /\ sticky' = sticky \cup {name}
               /\ UNCHANGED <<regs, conditions>>

Finish(target, word, raised) == /\ regs' = SetReg(target, word)
                                /\ SetFpCondition(word)
                                /\ sticky' = sticky \cup raised
                                /\ fault' = "None"

\* Mutant: what was already flushed to zero is no underflow.
UnderflowsAbove(exact, rounded) == ~IsZero(rounded) /\ Tiny(rounded)
\* Rounding may already have flushed to zero, so the exact value decides.
Underflows(exact, rounded) == ~IsZero(exact) /\ Tiny(rounded)

FinishFloat(exact, target) ==
  LET rounded   == Narrow(exact)
      overflows == IsInfinite(rounded) /\ ~IsInfinite(exact)
  IN  \/ overflows /\ Fault("FOV")
      \/ /\ ~overflows /\ Underflows(exact, rounded)
         /\ Finish(target, 0, {"FUD"})
      \/ /\ ~overflows /\ ~Underflows(exact, rounded)
         /\ \E word \in WordsOf[rounded] :
              Finish(target, word, IF Equal(rounded, exact) THEN {} ELSE {"FPR"})

\* The code compares the word with the number that comes here, which is an
\* integer already: the precision flag it would raise never is.
FinishInteger(n, target) ==
  IF n \in -(2^(FLOAT_BITS - 1))..(2^(FLOAT_BITS - 1) - 1)
  THEN Finish(target, n % 2^FLOAT_BITS, {}) ELSE Fault("FIV")

-----------------------------------------------------------------------------
(* The instructions.                                                          *)

\* The converted integer is in the target already.
ConvertWord(reg2, word) ==
  LET n == Signed(word) IN FinishFloat(Wide(n < 0, IF n < 0 THEN -n ELSE n, 1, 0), reg2)

ConvertFloat(op, right, reg2) ==
  \/ ReservedOperand(right) /\ Fault("FRO")
  \/ IsInfinite(right) /\ Fault("FIV")
  \/ /\ ~ReservedOperand(right) /\ ~IsInfinite(right)
     /\ FinishInteger(IF op = "CvtSw" THEN RoundTiesEven(right) ELSE Trunc(right), reg2)

\* Mutant: the two zeros differ, and so do two equal infinities.
DifferenceOnly(a, b) == WordsOf[Narrow(Sum(a, Negated(b)))]
Difference(a, b) == IF Equal(a, b) THEN {0} ELSE WordsOf[Narrow(Sum(a, Negated(b)))]

Compare(a, b) == /\ \E word \in Difference(a, b) : SetFpCondition(word)
                 /\ fault' = "None"
                 /\ UNCHANGED <<regs, sticky>>

Divide(a, b, reg2) == \/ IsZero(b) /\ IsZero(a) /\ Fault("FIV")
                      \/ IsZero(b) /\ ~IsZero(a) /\ Fault("FZD")
                      \/ ~IsZero(b) /\ FinishFloat(Quotient(a, b), reg2)

Arithmetic(op, a, b, reg2) ==
  CASE op = "CmpfS" -> Compare(a, b)
    [] op = "AddfS" -> FinishFloat(Sum(a, b), reg2)
    [] op = "SubfS" -> FinishFloat(Sum(a, Negated(b)), reg2)
    [] op = "MulfS" -> FinishFloat(Product(a, b), reg2)
    [] op = "DivfS" -> Divide(a, b, reg2)

Arithmetics == {"CmpfS", "AddfS", "SubfS", "MulfS", "DivfS"}
Operations  == Arithmetics \cup {"CvtWs", "CvtSw", "TrncSw"}

Reg(number) == IF number = 0 THEN 0 ELSE regs[number]

ExecuteFloat(op, reg1, reg2) ==
  LET right == FromBits(Reg(reg1))
      left  == FromBits(Reg(reg2))
      reserved == ReservedOperand(left) \/ ReservedOperand(right)
  IN  /\ ready /\ ready' = FALSE
      /\ \/ op = "CvtWs" /\ ConvertWord(reg2, Reg(reg2))
         \/ op \in {"CvtSw", "TrncSw"} /\ ConvertFloat(op, right, reg2)
         \/ op \in Arithmetics /\ reserved /\ Fault("FRO")
         \/ op \in Arithmetics /\ ~reserved /\ Arithmetic(op, left, right, reg2)

-----------------------------------------------------------------------------
\* Registers hold any words: a program loads or computes them.
FloatInit ==
        /\ regs \in [{1, 2} -> Word]
        /\ conditions = [z |-> FALSE, s |-> FALSE, cy |-> FALSE, ov |-> FALSE]
        /\ sticky \in FlagSets
        /\ fault = "None"
        /\ ready = TRUE

FloatNext == \E op \in Operations, reg2 \in {0, 1, 2} : ExecuteFloat(op, 1, reg2)

FloatSpec == FloatInit /\ [][FloatNext]_floatVars
=============================================================================
