------------------------------ MODULE FpuHistory ------------------------------
(* Floating point held to the numbers it stands for.  `computed' remembers    *)
(* the operands of the last instruction.  Everything is compared as integers, *)
(* in units of the smallest denormal.                                         *)
EXTENDS Fpu

VARIABLES computed

fpuVars == <<floatVars, computed>>

FpuInit == FloatInit /\ computed = [op |-> "none"]

FpuNext ==
  \E op \in Operations, reg2 \in {0, 1, 2} :
    /\ ExecuteFloat(op, 1, reg2)
    /\ computed' = [op |-> op, right |-> Reg(1), left |-> Reg(reg2), target |-> reg2,
                    regs |-> regs, sticky |-> sticky]

FpuSpec == FpuInit /\ [][FpuNext]_fpuVars

-----------------------------------------------------------------------------
ONE        == 2^(-LEAST)
LARGEST    == (2^PRECISION - 1) * 2^(BIAS - PRECISION + 1 - LEAST)
LARGEST_ULP == 2^(BIAS - PRECISION + 1 - LEAST)
SMALLEST   == 2^(PRECISION - 1)   \* of the normal numbers

Magnitude(n) == IF n < 0 THEN -n ELSE n

Finite(word)  == FromBits(word).kind = "finite"
Value(word)   == LET x == FromBits(word) IN Signing(x.neg, x.m * 2^(x.e - LEAST))
Order(word)   == IF Finite(word) THEN Value(word) ELSE Signing(Negative(word), 2 * LARGEST)

Left   == computed.left
Right  == computed.right
Result == regs[computed.target]
Raised == sticky \ computed.sticky

Computes(ops) == computed.op \in ops /\ fault = "None"
Calculation   == {"AddfS", "SubfS", "MulfS", "DivfS"}

-----------------------------------------------------------------------------
\* After CMPF.S the branches tell the order of its operands, signed and
\* unsigned ones alike, with one zero, equal infinities, and differences that
\* no register could hold; the registers are as they were.
ComparisonTellsTheOrder ==
  Computes({"CmpfS"}) =>
    /\ regs = computed.regs
    /\ conditions.z <=> Order(Left) = Order(Right)
    /\ conditions.s # conditions.ov <=> Order(Left) < Order(Right)
    /\ conditions.cy <=> Order(Left) < Order(Right)

-----------------------------------------------------------------------------
(* The exact result of a calculation on finite operands is num/den.           *)

Calculated ==
  LET a == Value(Left)  b == Value(Right)
  IN  CASE computed.op = "AddfS" -> [num |-> a + b, den |-> 1]
        [] computed.op = "SubfS" -> [num |-> a - b, den |-> 1]
        [] computed.op = "MulfS" -> [num |-> a * b, den |-> ONE]
        [] computed.op = "DivfS" -> [num |-> Signing(b < 0, a * ONE), den |-> Magnitude(b)]
        [] computed.op = "CvtWs" -> [num |-> Signed(Left) * ONE, den |-> 1]

FiniteCalculation ==
  \/ computed.op = "CvtWs"
  \/ computed.op \in Calculation /\ Finite(Left) /\ Finite(Right) /\ fault \notin {"FRO", "FIV", "FZD"}

\* The numbers on both sides of a finite word.
Neighbours(word) == {w \in {word - 1, word + 1} :
                       w \in Word /\ Negative(w) = Negative(word) /\ Finite(w)}

Distance(exact, word) == Magnitude(exact.num - Value(word) * exact.den)

Nearest(exact, word) ==
  \A w \in Neighbours(word) :
    \/ Distance(exact, word) < Distance(exact, w)
    \/ Distance(exact, word) = Distance(exact, w) /\ word % 2 = 0

\* Half a unit beyond the largest number, or short of the smallest normal one.
Overflowing(exact)  == 2 * Magnitude(exact.num) >= (2 * LARGEST + LARGEST_ULP) * exact.den
Underflowing(exact) == exact.num # 0 /\ 2 * Magnitude(exact.num) < (2 * SMALLEST - 1) * exact.den

\* Every calculation is rounded once: the register gets the number nearest to
\* the exact result, the even one of two, never a denormal, though the result
\* goes through a wider format first.  It faults exactly when that is too
\* large, and is flushed to zero exactly when it is too small.
CalculationsAreNearest ==
  FiniteCalculation =>
    LET exact == Calculated
    IN  /\ fault = "FOV" <=> Overflowing(exact)
        /\ computed.target # 0 /\ fault = "None" =>
             IF Underflowing(exact) THEN Result = 0
             ELSE /\ Finite(Result) /\ ~ReservedOperand(FromBits(Result))
                  /\ Nearest(exact, Result)

\* To the nearest integer, the even one of two, or towards zero; a number that
\* has none, and no other, is invalid.
ConversionsAreNearest ==
  computed.op \in {"CvtSw", "TrncSw"} /\ Finite(Right) /\ fault # "FRO" =>
    LET x == Magnitude(Value(Right))
        Fits(n) == CASE computed.op = "TrncSw" -> n * ONE <= x /\ x < (n + 1) * ONE
                     [] computed.op = "CvtSw"  ->
                          \/ 2 * Magnitude(x - n * ONE) < ONE
                          \/ 2 * Magnitude(x - n * ONE) = ONE /\ n % 2 = 0
        least == 2^(FLOAT_BITS - 1)
    IN  /\ fault = "None" /\ computed.target # 0 =>
             /\ Fits(Magnitude(Signed(Result)))
             /\ Signed(Result) # 0 => (Signed(Result) < 0 <=> Value(Right) < 0)
        /\ fault = "FIV" <=>
             \A n \in 0..least : Fits(n) => n = least /\ Value(Right) > 0

\* A number that is right everywhere, or a fault: a fault leaves no trace but
\* its own flag, and what is not a number comes from infinities alone.
ResultsAreNearest ==
  computed.op # "none" =>
    /\ CalculationsAreNearest
    /\ ConversionsAreNearest
    /\ fault # "None" => /\ regs = computed.regs
                         /\ sticky = computed.sticky \cup {fault}

-----------------------------------------------------------------------------
\* Whether the wider format holds a sum of operands this far apart.
WideHolds(num) ==
  LET n == Magnitude(num) IN \E k \in 0..Bits(n) : n % 2^k = 0 /\ n < 2^(WIDE + k)

\* The operations that leave an integer for a number: the register then means
\* another value than the operand whenever that had a fraction.
ToInteger == {"CvtSw", "TrncSw"}

\* The flags tell what a calculation lost: the underflow flag is raised when
\* the result was flushed, the precision flag when it was rounded, and neither
\* by an exact result.  Two losses are silent.  One is a sum whose smaller
\* operand the wider format has no place for.  The other is the fraction that a
\* conversion to an integer drops: no conversion raises a flag, exact or not,
\* because the code looks for a loss in a number that it has rounded before.
LossIsFlagged ==
  /\ FiniteCalculation /\ fault = "None" =>
       LET exact == Calculated
           inexact == Value(Result) * exact.den # exact.num
       IN  /\ "FUD" \in sticky <=> "FUD" \in computed.sticky \/ Underflowing(exact)
           /\ "FPR" \in Raised /\ computed.target # 0 => inexact /\ ~Underflowing(exact)
           /\ computed.target # 0 /\ inexact /\ ~Underflowing(exact) =>
                \/ "FPR" \in sticky
                \/ computed.op \in {"AddfS", "SubfS"} /\ ~WideHolds(exact.num)
  /\ computed.op \in ToInteger /\ fault = "None" => sticky = computed.sticky

\* "A zero result sets the zero flag."
ZeroResultSetsZeroFlag ==
  Computes(Calculation) /\ computed.target # 0 /\ Finite(Result) =>
    (conditions.z <=> Value(Result) = 0)
=============================================================================
