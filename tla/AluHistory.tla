------------------------------ MODULE AluHistory ------------------------------
(* Arithmetic held to the integers it stands for.  `computed' remembers the   *)
(* operands of the last operation while its results are in place, `compared'  *)
(* those of the last comparison while the flags are its own: moves, loads and *)
(* SETF come between a comparison and the branches that use it.               *)
EXTENDS Alu

VARIABLES computed, compared

aluVars == <<regs, flags, computed, compared>>

Nothing == [op |-> "none"]

Operands(op, left, right, target) ==
  [op |-> op, left |-> left, right |-> right, target |-> target]

Recorded(op, left, right, target) ==
  /\ computed' = Operands(op, left, right, target)
  /\ compared' = IF op \in Compare THEN Operands("Cmp", left, right, 0) ELSE Nothing

-----------------------------------------------------------------------------
HistoryInit == Init /\ computed = Nothing /\ compared = Nothing

HistoryCompute ==
  \/ \E op \in Operation, reg1, reg2 \in Operand :
       \/ RegisterForm(op, reg1, reg2) /\ Recorded(op, Reg(reg2), Reg(reg1), reg2)
       \/ /\ op \in Wide
          /\ MultiplyDivide(op, reg1, reg2) /\ Recorded(op, Reg(reg2), Reg(reg1), reg2)
  \/ \E op \in Operation, imm \in Immediates, reg2 \in Operand :
       ImmediateForm(op, imm, reg2) /\ Recorded(op, Reg(reg2), imm, reg2)
  \/ \E op \in Operation, reg1, reg2 \in Operand, imm \in Immediates :
       LongForm(op, reg1, imm, reg2) /\ Recorded(op, Reg(reg1), imm, reg2)

\* While a comparison is remembered, all that matters is that the flags stay.
HistorySilent ==
  /\ \E op \in Silent, reg1, reg2 \in Operand :
       /\ SilentForm(op, reg1, reg2)
       /\ computed' = IF compared # Nothing THEN Nothing
                      ELSE Operands(op, IF op = "Rev" THEN 0 ELSE Reg(reg2), Reg(reg1), reg2)
  /\ UNCHANGED compared

\* A register is overwritten, the flags are as they were.
HistoryMove ==
  /\ \/ \E condition \in Condition, reg2 \in Operand : Setf(condition, reg2)
     \/ \E word \in Word, reg2 \in Operand : Move(word, reg2)
  /\ computed' = Nothing
  /\ UNCHANGED compared

HistoryPsw == /\ \E f \in Flags : WritePsw(f)
              /\ computed' = Nothing /\ compared' = Nothing

HistoryNext == HistoryCompute \/ HistorySilent \/ HistoryMove \/ HistoryPsw

HistorySpec == HistoryInit /\ [][HistoryNext]_aluVars

-----------------------------------------------------------------------------
SignedRange == -(M \div 2)..((M \div 2) - 1)
Carry == IF flags.cy THEN 1 ELSE 0
Result == regs[computed.target]

\* After a comparison, however many registers were written since, the
\* conditions tell the order of what was compared: LT, LE, GE and GT of the
\* signed values, C, NH, NC and H of the unsigned ones, V of a difference that
\* does not fit.
ConditionsTellTheOrder ==
  compared # Nothing =>
    LET l == compared.left  r == compared.right
        Holds(condition) == Evaluate(condition, flags)
    IN  /\ Holds("Zero") <=> l = r
        /\ Holds("NotZero") <=> l # r
        /\ Holds("LessThan") <=> Signed(l) < Signed(r)
        /\ Holds("LessOrEqual") <=> Signed(l) <= Signed(r)
        /\ Holds("GreaterOrEqual") <=> Signed(l) >= Signed(r)
        /\ Holds("GreaterThan") <=> Signed(l) > Signed(r)
        /\ Holds("Carry") <=> l < r
        /\ Holds("NotHigher") <=> l <= r
        /\ Holds("NotCarry") <=> l >= r
        /\ Holds("Higher") <=> l > r
        /\ Holds("Overflow") <=> Signed(l) - Signed(r) \notin SignedRange

\* A sum or difference and its carry are together the whole of it, so that
\* longer numbers can be chained through the carry; the overflow flag is set
\* exactly when the signed result does not fit.
SumsAreExact ==
  /\ computed.op = "Add" =>
       /\ computed.target # 0 => Result + M * Carry = computed.left + computed.right
       /\ flags.ov <=> Signed(computed.left) + Signed(computed.right) \notin SignedRange
  /\ computed.op = "Sub" /\ computed.target # 0 =>
       Result - M * Carry = computed.left - computed.right

\* The carry of a shift is the last bit that left the word: one bit shorter, a
\* shift would have kept it.  A shift by a multiple of the width leaves none.
ShiftsAreExact ==
  computed.op \in Shift /\ computed.target # 0 =>
    LET amount == computed.right % WORD_BITS
    IN  IF amount = 0 THEN Result = computed.left /\ ~flags.cy
        ELSE CASE computed.op = "Shl" ->
                    (computed.left * 2^amount) % (2 * M) = Result + M * Carry
               [] computed.op = "Shr" ->
                    computed.left \div 2^(amount - 1) = 2 * Result + Carry
               [] computed.op = "Sar" ->
                    Signed(computed.left) \div 2^(amount - 1) = 2 * Signed(Result) + Carry

\* The two words of a product are the whole product, and the overflow flag is
\* set exactly when the low word alone is not; a product into r30 keeps its
\* low word.  A short product takes its multiplier modulo its own width.
ProductsAreExact ==
  /\ computed.op = "Mul" =>
       LET product == Signed(computed.left) * Signed(computed.right)
       IN  /\ flags.ov <=> product \notin SignedRange
           /\ computed.target = 2 => Signed(regs[30]) * M + Result = product
           /\ computed.target = 30 => Result = product % M
  /\ computed.op = "Mulu" =>
       LET product == computed.left * computed.right
       IN  /\ flags.ov <=> product \notin Word
           /\ computed.target = 2 => regs[30] * M + Result = product
           /\ computed.target = 30 => Result = product % M
  /\ computed.op = "Mpyhw" /\ computed.target # 0 =>
       \E short \in -(2^(SHORT_BITS - 1))..(2^(SHORT_BITS - 1) - 1) :
         /\ (computed.right - short) % 2^SHORT_BITS = 0
         /\ (Result - computed.left * short) % M = 0

\* What a reversed word keeps above any of its bits is what the operand has
\* below the bit it came from.
ReversalsAreExact ==
  computed.op = "Rev" /\ computed.target # 0 =>
    \A k \in 0..WORD_BITS :
      BitsOf(Result \div 2^k) =
        {WORD_BITS - 1 - k - i : i \in BitsOf(computed.right % 2^(WORD_BITS - k))}

\* What the quotient leaves of the dividend is smaller than the divisor and has
\* the sign of the dividend, and r30 holds it unless r30 is where the quotient
\* went: the remainder is written first.  Only the least number divided by
\* minus one overflows, and then the quotient is the dividend.
DivisionsAreExact ==
  computed.op \in {"Div", "Divu"} /\ computed.target # 0 =>
    LET Value(word) == IF computed.op = "Div" THEN Signed(word) ELSE word
        left == Value(computed.left)  right == Value(computed.right)
        remainder == (IF flags.ov THEN -left ELSE left) - Value(Result) * right
    IN  /\ Magnitude(remainder) < Magnitude(right)
        /\ remainder = 0 \/ (remainder < 0 <=> left < 0)
        /\ computed.target # 30 => Value(regs[30]) = remainder
        /\ flags.ov <=> computed.op = "Div" /\ left = -(M \div 2) /\ right = -1

\* Every result still in its registers is the integer one, together with the
\* flags that were left with it.
ArithmeticIsExact ==
  /\ SumsAreExact
  /\ ShiftsAreExact
  /\ ProductsAreExact
  /\ ReversalsAreExact
  /\ DivisionsAreExact
=============================================================================
