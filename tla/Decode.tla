-------------------------------- MODULE Decode --------------------------------
(* The instruction decoder: src/crates/vb-core/src/cpu/decode.rs.             *)
(*                                                                            *)
(* An instruction is one halfword or two, numbers in Half.  What does not     *)
(* decode is a record whose op is in Illegal.                                 *)
EXTENDS Integers, Sequences

Half == 0..(2^16 - 1)

Illegal == {"IllegalOpcode", "IllegalSubOpcode"}

-----------------------------------------------------------------------------
(* The fields of a halfword.                                                  *)

OpcodeOf(word0) == word0 \div 2^10
Reg2Of(word0)   == (word0 \div 2^5) % 2^5
Reg1Of(word0)   == word0 % 2^5

\* The signed value of a field; value is within its bits.  Mutant: the largest
\* value of a field counts as negative one bit too late.
SignExtendLate(value, bits) == IF value > 2^(bits - 1) THEN value - 2^bits ELSE value
SignExtend(value, bits)     == IF value >= 2^(bits - 1) THEN value - 2^bits ELSE value

FIRST_32_BIT_OPCODE == 40

\* What the fetch reads before anything is decoded.
InstructionWidth(word0) == IF OpcodeOf(word0) < FIRST_32_BIT_OPCODE THEN 2 ELSE 4

-----------------------------------------------------------------------------
(* The tables, from opcode or sub-opcode zero on.                             *)

FORMAT_I  == <<"Mov", "Add", "Sub", "Cmp", "Shl", "Shr", "Jmp", "Sar",
               "Mul", "Div", "Mulu", "Divu", "Or", "And", "Xor", "Not">>
FORMAT_II == <<"MovImm", "AddImm", "Setf", "CmpImm", "ShlImm", "ShrImm", "Cli", "SarImm",
               "Trap", "Reti", "Halt", "IllegalOpcode", "Ldsr", "Stsr", "Sei", "BitString">>
FORMAT_IV_V ==
             <<"Movea", "Addi", "Jr", "Jal", "Ori", "Andi", "Xori", "Movhi">>
FORMAT_VI == <<"LdB", "LdH", "IllegalOpcode", "LdW", "StB", "StH", "IllegalOpcode", "StW",
               "InB", "InH", "Caxi", "InW", "OutB", "OutH", "Float", "OutW">>

BIT_STRING == <<"Sch0bsu", "Sch0bsd", "Sch1bsu", "Sch1bsd", "IllegalSubOpcode",
                "IllegalSubOpcode", "IllegalSubOpcode", "IllegalSubOpcode", "Orbsu", "Andbsu",
                "Xorbsu", "Movbsu", "Ornbsu", "Andnbsu", "Xornbsu", "Notbsu">>
FLOAT      == <<"CmpfS", "IllegalSubOpcode", "CvtWs", "CvtSw", "AddfS", "SubfS", "MulfS",
                "DivfS", "Xb", "Xh", "Rev", "TrncSw", "Mpyhw">>

CONDITIONS == <<"Overflow", "Carry", "Zero", "NotHigher", "Negative", "Always", "LessThan",
                "LessOrEqual", "NotOverflow", "NotCarry", "NotZero", "Higher", "Positive",
                "Never", "GreaterOrEqual", "GreaterThan">>

Condition(bits) == CONDITIONS[(bits % 16) + 1]

\* An entry of a table of sub-opcodes, which the tables do not fill.
SubOp(table, sub) == IF sub < Len(table) THEN table[sub + 1] ELSE "IllegalSubOpcode"

Error(op) == [op |-> op]
Instruction(op, format, reg1, reg2, imm, cond) ==
  IF op \in Illegal THEN Error(op)
  ELSE [op |-> op, format |-> format,
        width |-> IF format \in {"I", "II", "III"} THEN 2 ELSE 4,
        reg1 |-> reg1, reg2 |-> reg2, imm |-> imm, cond |-> cond]

NoCondition == "None"

-----------------------------------------------------------------------------
DecodeFormatI(opcode, word0) ==
  Instruction(FORMAT_I[opcode + 1], "I", Reg1Of(word0), Reg2Of(word0), 0, NoCondition)

DecodeBitString(word0) ==
  Instruction(SubOp(BIT_STRING, Reg1Of(word0)), "II", Reg1Of(word0), Reg2Of(word0), 0, NoCondition)

\* reg1 holds an immediate: signed for the arithmetic ones, none for four.
DecodeFormatII(opcode, word0) ==
  LET op    == FORMAT_II[opcode - 15]
      field == Reg1Of(word0)
      imm   == CASE op \in {"MovImm", "AddImm", "CmpImm"} -> SignExtend(field, 5)
                 [] op \in {"Cli", "Reti", "Halt", "Sei"} -> 0
                 [] OTHER -> field
  IN  IF op = "BitString" THEN DecodeBitString(word0)
      ELSE Instruction(op, "II", 0, Reg2Of(word0), imm,
                       IF op = "Setf" THEN Condition(field) ELSE NoCondition)

DecodeFormatIII(word0) ==
  Instruction("Bcond", "III", 0, 0, SignExtend(word0 % 2^9, 9), Condition(word0 \div 2^9))

DecodeFormatIV(opcode, word0, word1) ==
  Instruction(FORMAT_IV_V[opcode - 39], "IV", 0, 0,
              SignExtend((word0 % 2^10) * 2^16 + word1, 26), NoCondition)

DecodeFormatV(opcode, word0, word1) ==
  LET op == FORMAT_IV_V[opcode - 39]
  IN  Instruction(op, "V", Reg1Of(word0), Reg2Of(word0),
                  IF op \in {"Movea", "Addi"} THEN SignExtend(word1, 16) ELSE word1, NoCondition)

DecodeFormatVI(opcode, word0, word1) ==
  Instruction(FORMAT_VI[opcode - 47], "VI", Reg1Of(word0), Reg2Of(word0),
              SignExtend(word1, 16), NoCondition)

DecodeFormatVII(word0, word1) ==
  Instruction(SubOp(FLOAT, word1 \div 2^10), "VII", Reg1Of(word0), Reg2Of(word0), 0, NoCondition)

DecodeWords(word0, word1) ==
  LET opcode == OpcodeOf(word0)
  IN  CASE opcode \in 0..15             -> DecodeFormatI(opcode, word0)
        [] opcode \in 16..31            -> DecodeFormatII(opcode, word0)
        [] opcode \in 32..39            -> DecodeFormatIII(word0)
        [] opcode \in {42, 43}          -> DecodeFormatIV(opcode, word0, word1)
        [] opcode \in {40, 41} \cup 44..47 -> DecodeFormatV(opcode, word0, word1)
        [] opcode \in 48..61 \cup {63}  -> DecodeFormatVI(opcode, word0, word1)
        [] opcode = 62                  -> DecodeFormatVII(word0, word1)

\* The same from the bytes of a listing, which may end too early.
LittleEndian(low, high) == low + 2^8 * high

DecodeSlice(bytes) ==
  IF Len(bytes) < 2 THEN Error("Truncated")
  ELSE LET word0 == LittleEndian(bytes[1], bytes[2])
       IN  IF InstructionWidth(word0) = 2 THEN DecodeWords(word0, 0)
           ELSE IF Len(bytes) < 4 THEN Error("Truncated")
                ELSE DecodeWords(word0, LittleEndian(bytes[3], bytes[4]))
=============================================================================
