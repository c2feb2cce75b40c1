--------------------------------- MODULE Alu ---------------------------------
(* Integer arithmetic and the flags, src/crates/vb-core/src/cpu/exec.rs       *)
(* (set_zs to execute), and the conditions of cpu/decode.rs.                  *)
(*                                                                            *)
(* Words are numbers of WORD_BITS bits.  Two registers stand for all: one     *)
(* like any other, and r30, which MUL and DIV write beside their target; r0   *)
(* reads as zero and ignores writes.  A division by zero raises its exception *)
(* before it writes a flag or a register and is left to CpuControl.           *)
EXTENDS Integers

CONSTANTS WORD_BITS,   \* 32
          SHORT_BITS,  \* 17, of the multiplier of MPYHW
          Immediates   \* the immediates of the program, already extended

M == 2^WORD_BITS
Word == 0..(M - 1)

ASSUME WordAssumption == /\ WORD_BITS \in Nat \ {0}
                         /\ SHORT_BITS \in 1..WORD_BITS
                         /\ Immediates \subseteq Word

Register == {2, 30}
Flags == [z : BOOLEAN, s : BOOLEAN, ov : BOOLEAN, cy : BOOLEAN]

Compare    == {"Sub", "Cmp"}
Shift      == {"Shl", "Shr", "Sar"}
Logic      == {"And", "Or", "Xor", "Not", "Andi"}
Wide       == {"Mul", "Mulu", "Div", "Divu"}
Silent     == {"Mpyhw", "Rev"}   \* leave the flags alone
Operation  == {"Add"} \cup Compare \cup Shift \cup Logic \cup Wide

VARIABLES regs, flags

vars == <<regs, flags>>

-----------------------------------------------------------------------------
(* Words.                                                                     *)

Negative(word) == word >= M \div 2
Signed(word)   == IF Negative(word) THEN word - M ELSE word
Unsigned(n)    == n % M

BitsOf(word) == {i \in 0..(WORD_BITS - 1) : (word \div 2^i) % 2 = 1}
Number(bits) == CHOOSE n \in Word : BitsOf(n) = bits

Magnitude(n) == IF n < 0 THEN -n ELSE n

\* Division that truncates, its remainder with the sign of the dividend.
Quotient(a, b) ==
  LET q == Magnitude(a) \div Magnitude(b) IN IF (a < 0) = (b < 0) THEN q ELSE -q
Remainder(a, b) ==
  LET r == Magnitude(a) % Magnitude(b) IN IF a < 0 THEN -r ELSE r

-----------------------------------------------------------------------------
(* Every operation: what it leaves in its target, beside it in r30, and in    *)
(* the flags.                                                                 *)

ZS(f, result) == [f EXCEPT !.z = (result = 0), !.s = Negative(result)]

AddFlags(f, left, right) ==
  LET result == Unsigned(left + right)
  IN  [ZS(f, result) EXCEPT
         !.ov = Negative(left) # Negative(result) /\ Negative(right) # Negative(result),
         !.cy = left + right >= M]

\* Mutant: the overflow of an addition.
SubFlagsAsAdd(f, left, right) ==
  LET result == Unsigned(left - right)
  IN  [ZS(f, result) EXCEPT
         !.ov = Negative(left) # Negative(result) /\ Negative(right) # Negative(result),
         !.cy = left < right]

SubFlags(f, left, right) ==
  LET result == Unsigned(left - right)
  IN  [ZS(f, result) EXCEPT
         !.ov = Negative(left) # Negative(right) /\ Negative(left) # Negative(result),
         !.cy = left < right]

\* Only the low bits of an amount count.
Amount(word) == word % WORD_BITS

Shifted(op, value, amount) ==
  CASE op = "Shl" -> Unsigned(value * 2^amount)
    [] op = "Shr" -> value \div 2^amount
    [] op = "Sar" -> Unsigned(Signed(value) \div 2^amount)

\* The bit shifted out last; none by an amount of zero.  Mutant: one bit later.
ShiftedOutLate(op, value, amount) ==
  amount # 0 /\ (IF op = "Shl" THEN WORD_BITS - 1 - amount ELSE amount) \in BitsOf(value)
ShiftedOut(op, value, amount) ==
  /\ amount # 0
  /\ (IF op = "Shl" THEN WORD_BITS - amount ELSE amount - 1) \in BitsOf(value)

ShiftFlags(f, op, value, amount) ==
  [ZS(f, Shifted(op, value, amount)) EXCEPT
     !.ov = FALSE, !.cy = ShiftedOut(op, value, amount)]

Logical(op, left, right) ==
  CASE op \in {"And", "Andi"} -> Number(BitsOf(left) \cap BitsOf(right))
    [] op = "Or"  -> Number(BitsOf(left) \cup BitsOf(right))
    [] op = "Xor" -> Number((BitsOf(left) \cup BitsOf(right)) \ (BitsOf(left) \cap BitsOf(right)))
    [] op = "Not" -> Number(0..(WORD_BITS - 1) \ BitsOf(right))

LogicFlags(f, op, result) ==
  IF op = "Andi" THEN [f EXCEPT !.z = (result = 0), !.s = FALSE, !.ov = FALSE]
                 ELSE [ZS(f, result) EXCEPT !.ov = FALSE]

Product(op, left, right) ==
  IF op = "Mul" THEN Signed(left) * Signed(right) ELSE left * right

\* Two words: the one for the target, and the one for r30.
WideResult(op, left, right) ==
  CASE op \in {"Mul", "Mulu"} ->
         [low |-> Unsigned(Product(op, left, right)),
          high |-> Unsigned(Product(op, left, right) \div M)]
    [] op = "Div" ->
         [low |-> Unsigned(Quotient(Signed(left), Signed(right))),
          high |-> Unsigned(Remainder(Signed(left), Signed(right)))]
    [] op = "Divu" -> [low |-> left \div right, high |-> left % right]

WideOverflow(op, left, right) ==
  LET result == WideResult(op, left, right)
  IN  CASE op = "Mul"  -> Product(op, left, right) # Signed(result.low)
        [] op = "Mulu" -> Product(op, left, right) # result.low
        [] op = "Div"  -> Signed(left) = -(M \div 2) /\ Signed(right) = -1
        [] op = "Divu" -> FALSE

WideFlags(f, op, left, right) ==
  [ZS(f, WideResult(op, left, right).low) EXCEPT !.ov = WideOverflow(op, left, right)]

\* The low bits of a multiplier, the highest of them its sign.
ShortSigned(word) ==
  LET short == word % 2^SHORT_BITS
  IN  IF short >= 2^(SHORT_BITS - 1) THEN short - 2^SHORT_BITS ELSE short

Reversed(word) == Number({WORD_BITS - 1 - i : i \in BitsOf(word)})

SilentResult(op, left, right) ==
  CASE op = "Mpyhw" -> Unsigned(Signed(left) * ShortSigned(right))
    [] op = "Rev"   -> Reversed(right)

-----------------------------------------------------------------------------
\* A condition of a branch or a SETF.
Condition == {"Overflow", "Carry", "Zero", "NotHigher", "Negative", "Always", "LessThan",
              "LessOrEqual", "NotOverflow", "NotCarry", "NotZero", "Higher", "Positive",
              "Never", "GreaterOrEqual", "GreaterThan"}

Evaluate(condition, f) ==
  CASE condition = "Overflow"       -> f.ov
    [] condition = "Carry"          -> f.cy
    [] condition = "Zero"           -> f.z
    [] condition = "NotHigher"      -> f.cy \/ f.z
    [] condition = "Negative"       -> f.s
    [] condition = "Always"         -> TRUE
    [] condition = "LessThan"       -> f.ov # f.s
    [] condition = "LessOrEqual"    -> (f.ov # f.s) \/ f.z
    [] condition = "NotOverflow"    -> ~f.ov
    [] condition = "NotCarry"       -> ~f.cy
    [] condition = "NotZero"        -> ~f.z
    [] condition = "Higher"         -> ~(f.cy \/ f.z)
    [] condition = "Positive"       -> ~f.s
    [] condition = "Never"          -> FALSE
    [] condition = "GreaterOrEqual" -> f.ov = f.s
    [] condition = "GreaterThan"    -> ~((f.ov # f.s) \/ f.z)

-----------------------------------------------------------------------------
Reg(i) == IF i = 0 THEN 0 ELSE regs[i]

\* A write to a register; r0 ignores it.
Written(file, i, word) == IF i = 0 THEN file ELSE [file EXCEPT ![i] = word]

Init == /\ regs \in [Register -> Word]
        /\ flags = [z |-> FALSE, s |-> FALSE, ov |-> FALSE, cy |-> FALSE]

Arithmetic(op, left, right, target) ==
  CASE op = "Add" ->
         /\ flags' = AddFlags(flags, left, right)
         /\ regs' = Written(regs, target, Unsigned(left + right))
    [] op = "Sub" ->
         /\ flags' = SubFlags(flags, left, right)
         /\ regs' = Written(regs, target, Unsigned(left - right))
    [] op = "Cmp" ->
         /\ flags' = SubFlags(flags, left, right)
         /\ UNCHANGED regs
    [] op \in Shift ->
         /\ flags' = ShiftFlags(flags, op, left, Amount(right))
         /\ regs' = Written(regs, target, Shifted(op, left, Amount(right)))
    [] op \in Logic ->
         /\ flags' = LogicFlags(flags, op, Logical(op, left, right))
         /\ regs' = Written(regs, target, Logical(op, left, right))

\* Two registers: reg2 op reg1, into reg2.
RegisterForm(op, reg1, reg2) ==
  /\ op \notin Wide \cup {"Andi"}
  /\ Arithmetic(op, Reg(reg2), Reg(reg1), reg2)

\* A short immediate in the place of reg1.
ImmediateForm(op, imm, reg2) ==
  /\ op \in {"Add", "Cmp"} \cup Shift
  /\ Arithmetic(op, Reg(reg2), imm, reg2)

\* A long one: reg1 op immediate, into reg2.
LongForm(op, reg1, imm, reg2) ==
  /\ op \in {"Add", "Andi", "Or", "Xor"}
  /\ Arithmetic(op, Reg(reg1), imm, reg2)

\* r30 is written first, so a target that is r30 keeps the low word.
MultiplyDivide(op, reg1, reg2) ==
  /\ op \in {"Div", "Divu"} => Reg(reg1) # 0
  /\ flags' = WideFlags(flags, op, Reg(reg2), Reg(reg1))
  /\ LET result == WideResult(op, Reg(reg2), Reg(reg1))
     IN  regs' = Written(Written(regs, 30, result.high), reg2, result.low)

SilentForm(op, reg1, reg2) ==
  /\ regs' = Written(regs, reg2, SilentResult(op, Reg(reg2), Reg(reg1)))
  /\ UNCHANGED flags

\* SETF; a branch reads the flags in the same way and moves only the program
\* counter.
Setf(condition, reg2) ==
  /\ regs' = Written(regs, reg2, IF Evaluate(condition, flags) THEN 1 ELSE 0)
  /\ UNCHANGED flags

\* Moves, loads and whatever else writes a register and no flag.
Move(word, reg2) == regs' = Written(regs, reg2, word) /\ UNCHANGED flags

\* LDSR and RETI write the whole status word.
WritePsw(f) == flags' = f /\ UNCHANGED regs

Operand == Register \cup {0}

Next == \/ \E op \in Operation, reg1, reg2 \in Operand : RegisterForm(op, reg1, reg2)
        \/ \E op \in Operation, imm \in Immediates, reg2 \in Operand :
             ImmediateForm(op, imm, reg2)
        \/ \E op \in Operation, reg1, reg2 \in Operand, imm \in Immediates :
             LongForm(op, reg1, imm, reg2)
        \/ \E op \in Wide, reg1, reg2 \in Operand : MultiplyDivide(op, reg1, reg2)
        \/ \E op \in Silent, reg1, reg2 \in Operand : SilentForm(op, reg1, reg2)
        \/ \E condition \in Condition, reg2 \in Operand : Setf(condition, reg2)
        \/ \E word \in Word, reg2 \in Operand : Move(word, reg2)
        \/ \E f \in Flags : WritePsw(f)

Spec == Init /\ [][Next]_vars

-----------------------------------------------------------------------------
\* Whatever is computed, registers hold words and the flags are flags.
TypeOK == regs \in [Register -> Word] /\ flags \in Flags
=============================================================================
