---------------------------- MODULE MemoryProofs ----------------------------
(* Proofs about the memory a program sees, and the instructions it is made    *)
(* of.                                                                        *)
EXTENDS MemoryAccess, VipRecords, Arithmetic

-----------------------------------------------------------------------------
(* Fields and tables of the decoder.                                          *)

\* Halfwords, for the arithmetic about their bits.
LEMMA HalfIs == \A w : w \in Half <=> w \in Int /\ w >= 0 /\ w < 65536
  BY DEF Half

\* A halfword is its opcode and the two fields below it, in one way.
LEMMA FieldsOfWord ==
  ASSUME NEW w \in Half
  PROVE  /\ OpcodeOf(w) \in Int /\ OpcodeOf(w) >= 0 /\ OpcodeOf(w) < 64
         /\ Reg2Of(w) \in 0..31 /\ Reg1Of(w) \in 0..31
         /\ w = OpWord(OpcodeOf(w), Reg2Of(w), Reg1Of(w))
  BY HalfIs DEF OpcodeOf, Reg2Of, Reg1Of, OpWord

LEMMA WordOfFields ==
  ASSUME NEW opcode \in 0..63, NEW high \in 0..31, NEW low \in 0..31
  PROVE  LET w == OpWord(opcode, high, low)
         IN  /\ w \in Half
             /\ OpcodeOf(w) = opcode /\ Reg2Of(w) = high /\ Reg1Of(w) = low
  BY HalfIs DEF OpcodeOf, Reg2Of, Reg1Of, OpWord

\* The signed value of a field is in its range, and its bits are the field's.
LEMMA SignExtended ==
  ASSUME NEW bits \in {5, 9, 16, 26}, NEW value \in Int, value >= 0, value < 2^bits
  PROVE  /\ SignExtend(value, bits) \in Signed(bits)
         /\ Field(SignExtend(value, bits), bits) = value
<1>1. CASE bits = 5
  BY <1>1 DEF SignExtend, Signed, Field
<1>2. CASE bits = 9
  BY <1>2 DEF SignExtend, Signed, Field
<1>3. CASE bits = 16
  BY <1>3 DEF SignExtend, Signed, Field
<1>4. CASE bits = 26
  BY <1>4 DEF SignExtend, Signed, Field
<1>5. QED
  BY <1>1, <1>2, <1>3, <1>4

\* No table has an instruction twice.
Distinct(table) ==
  \A j, k \in 1..Len(table) : table[j] = table[k] /\ table[k] \notin Illegal => j = k

LEMMA Tables ==
  /\ Distinct(FORMAT_I) /\ Distinct(FORMAT_II) /\ Distinct(FORMAT_IV_V) /\ Distinct(FORMAT_VI)
  /\ Distinct(BIT_STRING) /\ Distinct(FLOAT) /\ Distinct(CONDITIONS)
<1>1. Distinct(FORMAT_I)
  BY DEF Distinct, FORMAT_I
<1>2. Distinct(FORMAT_II)
  BY DEF Distinct, FORMAT_II
<1>3. Distinct(FORMAT_IV_V)
  BY DEF Distinct, FORMAT_IV_V
<1>4. Distinct(FORMAT_VI)
  BY DEF Distinct, FORMAT_VI, Illegal
<1>5. Distinct(BIT_STRING)
  BY DEF Distinct, BIT_STRING, Illegal
<1>6. Distinct(FLOAT)
  BY DEF Distinct, FLOAT
<1>7. Distinct(CONDITIONS)
  BY DEF Distinct, CONDITIONS
<1>8. QED
  BY <1>1, <1>2, <1>3, <1>4, <1>5, <1>6, <1>7

LEMMA Lengths ==
  /\ Len(FORMAT_I) = 16 /\ Len(FORMAT_II) = 16 /\ Len(FORMAT_IV_V) = 8 /\ Len(FORMAT_VI) = 16
  /\ Len(BIT_STRING) = 16 /\ Len(FLOAT) = 13 /\ Len(CONDITIONS) = 16
  BY DEF FORMAT_I, FORMAT_II, FORMAT_IV_V, FORMAT_VI, BIT_STRING, FLOAT, CONDITIONS

\* So an instruction gives back the place it was found at.
LEMMA Placed ==
  ASSUME NEW table, Len(table) \in Nat, Distinct(table),
         NEW k \in 0..(Len(table) - 1), table[k + 1] \notin Illegal
  PROVE  Place(table, table[k + 1]) = k
<1>1. ASSUME NEW j \in 0..(Len(table) - 1), table[j + 1] = table[k + 1]
      PROVE  j = k
  <2>1. j + 1 \in 1..Len(table) /\ k + 1 \in 1..Len(table)
    OBVIOUS
  <2>2. j + 1 = k + 1
    BY <1>1, <2>1 DEF Distinct
  <2>3. QED
    BY <2>2
<1>2. QED
  BY <1>1 DEF Place

-----------------------------------------------------------------------------
(* The formats.  An instruction keeps the words it was decoded from when its  *)
(* width is the one the fetch chose, its immediate is in range, and encoding  *)
(* it gives the words back but for bits that mean nothing.                    *)

Keeps(i, word0, word1) ==
  /\ i.width = InstructionWidth(word0)
  /\ i.imm \in ImmediateRange(i)
  /\ \A k \in {1, 2} :
       Encoded(i)[k] \div Meaningless(i)[k] = <<word0, word1>>[k] \div Meaningless(i)[k]
  /\ DecodeWords(Encoded(i)[1], Encoded(i)[2]) = i

\* Most instructions have no such bits.
LEMMA KeepsExactly ==
  ASSUME NEW word0, NEW word1, NEW i, i = DecodeWords(word0, word1),
         i.width = InstructionWidth(word0), i.imm \in ImmediateRange(i),
         Encoded(i) = <<word0, word1>>
  PROVE  Keeps(i, word0, word1)
  BY DEF Keeps

LEMMA KeepsFormatI ==
  ASSUME NEW word0 \in Half, OpcodeOf(word0) \in 0..15
  PROVE  Keeps(DecodeWords(word0, 0), word0, 0)
<1> DEFINE opcode == OpcodeOf(word0)
           op == FORMAT_I[opcode + 1]
           i  == DecodeWords(word0, 0)
<1>1. op \in {"Mov", "Add", "Sub", "Cmp", "Shl", "Shr", "Jmp", "Sar",
              "Mul", "Div", "Mulu", "Divu", "Or", "And", "Xor", "Not"}
  BY DEF FORMAT_I
<1>2. op \notin Illegal
  BY <1>1 DEF Illegal
<1>3. i = [op |-> op, format |-> "I", width |-> 2, reg1 |-> Reg1Of(word0),
           reg2 |-> Reg2Of(word0), imm |-> 0, cond |-> NoCondition]
  <2>1. i = DecodeFormatI(opcode, word0)
    BY DEF DecodeWords
  <2> HIDE DEF i
  <2>2. QED
    BY <1>2, <2>1 DEF DecodeFormatI, Instruction
<1>4. Place(FORMAT_I, op) = opcode
  <2>1. opcode \in 0..(Len(FORMAT_I) - 1) /\ Len(FORMAT_I) \in Nat
    BY Lengths
  <2> HIDE DEF opcode
  <2>2. QED
    BY <1>2, <2>1, Tables, Placed
<1>5. InstructionWidth(word0) = 2
  BY DEF InstructionWidth, FIRST_32_BIT_OPCODE
<1> HIDE DEF op, opcode, i
<1>6. Encoded(i) = <<word0, 0>>
  <2>1. i.format = "I" /\ i.op = op /\ i.reg2 = Reg2Of(word0) /\ i.reg1 = Reg1Of(word0)
    BY <1>3
  <2>2. OpWord(Place(FORMAT_I, i.op), i.reg2, i.reg1) = word0
    BY <1>4, <2>1, FieldsOfWord DEF opcode
  <2>3. ~Within(i.op, BIT_STRING)
    BY <1>1, <2>1 DEF Within, BIT_STRING
  <2>4. Encoded(i) = <<OpWord(Place(FORMAT_I, i.op), i.reg2, i.reg1), 0>>
    BY <2>1, <2>3 DEF Encoded
  <2>5. QED
    BY <2>2, <2>4
<1>7. i.imm \in ImmediateRange(i)
  BY <1>1, <1>3 DEF ImmediateRange
<1>8. i.width = InstructionWidth(word0)
  BY <1>3, <1>5
<1>9. QED
  BY <1>6, <1>7, <1>8, KeepsExactly DEF i

\* The second format, from its fields.
ImmediateII(op, field) ==
  CASE op \in {"MovImm", "AddImm", "CmpImm"} -> SignExtend(field, 5)
    [] op \in {"Cli", "Reti", "Halt", "Sei"} -> 0
    [] OTHER -> field
FormatII(op, reg2, field) ==
  [op |-> op, format |-> "II", width |-> 2, reg1 |-> 0, reg2 |-> reg2,
   imm |-> ImmediateII(op, field),
   cond |-> IF op = "Setf" THEN Condition(field) ELSE NoCondition]

LEMMA DecodedII ==
  ASSUME NEW word0 \in Half, OpcodeOf(word0) \in 16..31,
         FORMAT_II[OpcodeOf(word0) - 15] \notin Illegal \cup {"BitString"}
  PROVE  DecodeWords(word0, 0) =
           FormatII(FORMAT_II[OpcodeOf(word0) - 15], Reg2Of(word0), Reg1Of(word0))
<1>1. DecodeWords(word0, 0) = DecodeFormatII(OpcodeOf(word0), word0)
  BY DEF DecodeWords
<1>2. QED
  BY <1>1 DEF DecodeFormatII, Instruction, FormatII, ImmediateII

LEMMA KeepsFormatII ==
  ASSUME NEW word0 \in Half, OpcodeOf(word0) \in 16..31,
         FORMAT_II[OpcodeOf(word0) - 15] \notin Illegal \cup {"BitString"}
  PROVE  Keeps(DecodeWords(word0, 0), word0, 0)
<1> DEFINE opcode == OpcodeOf(word0)
           op == FORMAT_II[opcode - 15]
           i  == DecodeWords(word0, 0)
           signed == {"MovImm", "AddImm", "CmpImm"}
           bare == {"Cli", "Reti", "Halt", "Sei"}
           fields == {"Setf", "ShlImm", "ShrImm", "SarImm", "Trap", "Ldsr", "Stsr"}
<1>1. op \in signed \cup bare \cup fields
  BY DEF FORMAT_II, Illegal
<1>2. i = FormatII(op, Reg2Of(word0), Reg1Of(word0))
  BY DecodedII
<1>3. Place(FORMAT_II, op) = opcode - 16
  <2>1. opcode - 16 \in 0..(Len(FORMAT_II) - 1) /\ Len(FORMAT_II) \in Nat
        /\ (opcode - 16) + 1 = opcode - 15
    BY Lengths
  <2> HIDE DEF opcode
  <2>2. FORMAT_II[(opcode - 16) + 1] = op
    BY <2>1
  <2>3. QED
    BY <2>1, <2>2, Tables, Placed DEF opcode
<1>4. InstructionWidth(word0) = 2
  BY DEF InstructionWidth, FIRST_32_BIT_OPCODE
<1>5. opcode \in Int /\ Reg2Of(word0) \in 0..31 /\ Reg1Of(word0) \in 0..31
      /\ word0 = OpWord(opcode, Reg2Of(word0), Reg1Of(word0))
  BY FieldsOfWord
<1> HIDE DEF op, opcode, i
<1>6. i.width = InstructionWidth(word0)
  BY <1>2, <1>4 DEF FormatII
<1>7. Encoded(i) = <<OpWord(opcode, Reg2Of(word0), Field(i.imm, 5)), 0>>
  <2>1. i.format = "II" /\ i.op = op /\ ~Within(i.op, BIT_STRING)
    BY <1>1, <1>2 DEF FormatII, Within, BIT_STRING
  <2>2. 16 + Place(FORMAT_II, i.op) = opcode
    BY <1>3, <1>5, <2>1
  <2>3. i.reg2 = Reg2Of(word0)
    BY <1>2 DEF FormatII
  <2>4. QED
    BY <2>1, <2>2, <2>3 DEF Encoded
<1>8. CASE op \in signed
  <2>1. i.imm = SignExtend(Reg1Of(word0), 5)
    BY <1>2, <1>8 DEF FormatII, ImmediateII
  <2>2. i.imm \in Signed(5) /\ Field(i.imm, 5) = Reg1Of(word0)
    BY <1>5, <2>1, SignExtended
  <2>3. i.imm \in ImmediateRange(i)
    BY <1>2, <1>8, <2>2 DEF ImmediateRange, FormatII
  <2>4. QED
    BY <1>5, <1>6, <1>7, <2>2, <2>3, KeepsExactly DEF i
<1>9. CASE op \in fields
  <2>1. i.imm = Reg1Of(word0)
    BY <1>2, <1>9 DEF FormatII, ImmediateII
  <2>2. i.imm \in Unsigned(5) /\ Field(i.imm, 5) = Reg1Of(word0)
    BY <1>5, <2>1 DEF Unsigned, Field
  <2>3. i.imm \in ImmediateRange(i)
    BY <1>2, <1>9, <2>2 DEF ImmediateRange, FormatII
  <2>4. QED
    BY <1>5, <1>6, <1>7, <2>2, <2>3, KeepsExactly DEF i
<1>10. CASE op \in bare
  <2> DEFINE again == OpWord(opcode, Reg2Of(word0), 0)
  <2>1. i.imm = 0 /\ i.op = op
    BY <1>2, <1>10 DEF FormatII, ImmediateII
  <2>2. i.imm \in ImmediateRange(i)
    BY <1>2, <1>10, <2>1 DEF ImmediateRange, FormatII
  <2>3. Encoded(i) = <<again, 0>> /\ Meaningless(i) = <<32, 1>>
    <3>1. Field(i.imm, 5) = 0
      BY <2>1 DEF Field
    <3>2. Meaningless(i) = <<32, 1>>
      <4>1. i.op \in {"Cli", "Sei", "Reti", "Halt"}
        BY <1>10, <2>1
      <4>2. i.format = "II"
        BY <1>2 DEF FormatII
      <4>3. Meaningless(i) = <<2^5, 1>>
        BY <4>1, <4>2 DEF Meaningless
      <4>4. 2^5 = 32
        OBVIOUS
      <4>5. QED
        BY <4>3, <4>4
    <3>3. QED
      BY <1>7, <3>1, <3>2
  <2>4. /\ again \in Half
        /\ OpcodeOf(again) = opcode /\ Reg2Of(again) = Reg2Of(word0) /\ Reg1Of(again) = 0
    <3>1. opcode \in 0..63 /\ 0 \in 0..31
      BY DEF opcode
    <3>2. QED
      BY <1>5, <3>1, WordOfFields
  <2>5. again \div 32 = word0 \div 32
    BY <1>5 DEF OpWord
  <2>6. DecodeWords(again, 0) = FormatII(op, Reg2Of(word0), 0)
    BY <1>10, <2>4, DecodedII DEF op, opcode
  <2>7. FormatII(op, Reg2Of(word0), 0) = i
    BY <1>2, <1>10 DEF FormatII, ImmediateII
  <2> HIDE DEF again
  <2>8. QED
    <3>1. /\ Encoded(i)[1] = again /\ Encoded(i)[2] = 0
          /\ Meaningless(i)[1] = 32 /\ Meaningless(i)[2] = 1
      BY <2>3
    <3>2. DecodeWords(Encoded(i)[1], Encoded(i)[2]) = i
      BY <2>6, <2>7, <3>1
    <3>3. ASSUME NEW k \in {1, 2}
          PROVE  Encoded(i)[k] \div Meaningless(i)[k] = <<word0, 0>>[k] \div Meaningless(i)[k]
      BY <2>5, <3>1
    <3>4. Keeps(i, word0, 0)
      BY <1>6, <2>2, <3>2, <3>3 DEF Keeps
    <3>5. QED
      BY <3>4 DEF i
<1>11. QED
  BY <1>1, <1>8, <1>9, <1>10 DEF i
LEMMA KeepsBitString ==
  ASSUME NEW word0 \in Half, OpcodeOf(word0) = 31,
         DecodeWords(word0, 0).op \notin Illegal
  PROVE  Keeps(DecodeWords(word0, 0), word0, 0)
<1> DEFINE sub == Reg1Of(word0)
           op == SubOp(BIT_STRING, sub)
           i  == DecodeWords(word0, 0)
<1>1. i = Instruction(op, "II", sub, Reg2Of(word0), 0, NoCondition)
  <2>1. i = DecodeFormatII(31, word0)
    BY DEF DecodeWords
  <2>2. FORMAT_II[31 - 15] = "BitString"
    BY DEF FORMAT_II
  <2>3. i = DecodeBitString(word0)
    BY <2>1, <2>2 DEF DecodeFormatII
  <2>4. QED
    BY <2>3 DEF DecodeBitString
<1>2. sub \in 0..31 /\ Reg2Of(word0) \in 0..31 /\ word0 = OpWord(31, Reg2Of(word0), sub)
  BY FieldsOfWord
<1> HIDE DEF i, sub
<1>3. op \notin Illegal
  <2>1. CASE op \in Illegal
    <3>1. i = Error(op)
      BY <1>1, <2>1 DEF Instruction
    <3>2. QED
      BY <2>1, <3>1 DEF Error, i
  <2>2. QED
    BY <2>1
<1>4. sub \in 0..15 /\ op = BIT_STRING[sub + 1]
  BY <1>2, <1>3, Lengths DEF SubOp, Illegal
<1>5. op \in {"Sch0bsu", "Sch0bsd", "Sch1bsu", "Sch1bsd", "Orbsu", "Andbsu",
              "Xorbsu", "Movbsu", "Ornbsu", "Andnbsu", "Xornbsu", "Notbsu"}
  BY <1>3, <1>4 DEF BIT_STRING, Illegal
<1> HIDE DEF op
<1>6. i = [op |-> op, format |-> "II", width |-> 2, reg1 |-> sub,
           reg2 |-> Reg2Of(word0), imm |-> 0, cond |-> NoCondition]
  BY <1>1, <1>3 DEF Instruction
<1>7. Place(BIT_STRING, op) = sub
  <2>1. sub \in 0..(Len(BIT_STRING) - 1) /\ Len(BIT_STRING) \in Nat
    BY <1>4, Lengths
  <2>2. QED
    BY <1>3, <1>4, <2>1, Tables, Placed
<1>8. InstructionWidth(word0) = 2
  BY DEF InstructionWidth, FIRST_32_BIT_OPCODE
<1>9. Encoded(i) = <<word0, 0>>
  <2>1. i.format = "II" /\ i.op = op /\ i.reg2 = Reg2Of(word0)
    BY <1>6
  <2>2. Within(i.op, BIT_STRING)
    <3>1. sub + 1 \in DOMAIN BIT_STRING
      BY <1>4 DEF BIT_STRING
    <3>2. QED
      BY <1>4, <2>1, <3>1 DEF Within
  <2>3. Encoded(i) = <<OpWord(31, i.reg2, Place(BIT_STRING, i.op)), 0>>
    BY <2>1, <2>2 DEF Encoded
  <2>4. QED
    BY <1>2, <1>7, <2>1, <2>3
<1>10. i.imm \in ImmediateRange(i)
  BY <1>5, <1>6 DEF ImmediateRange
<1>11. i.width = InstructionWidth(word0)
  BY <1>6, <1>8
<1>12. QED
  BY <1>9, <1>10, <1>11, KeepsExactly DEF i

LEMMA KeepsFormatIII ==
  ASSUME NEW word0 \in Half, OpcodeOf(word0) \in 32..39
  PROVE  Keeps(DecodeWords(word0, 0), word0, 0)
<1> DEFINE bits == (word0 \div 512) % 16
           disp == word0 % 512
           i    == DecodeWords(word0, 0)
<1>1. /\ word0 \in Int /\ word0 >= 32768 /\ word0 < 40960
      /\ bits \in 0..15 /\ disp \in Int /\ disp >= 0 /\ disp < 512
      /\ word0 = 32768 + 512 * bits + disp
  BY HalfIs DEF OpcodeOf
<1>2. 2^9 = 512 /\ 2^15 = 32768
  OBVIOUS
<1>3. i = [op |-> "Bcond", format |-> "III", width |-> 2, reg1 |-> 0, reg2 |-> 0,
           imm |-> SignExtend(disp, 9), cond |-> CONDITIONS[bits + 1]]
  <2>1. i = DecodeFormatIII(word0)
    BY DEF DecodeWords
  <2>2. SignExtend(word0 % 2^9, 9) = SignExtend(disp, 9)
    BY <1>2
  <2>3. Condition(word0 \div 2^9) = CONDITIONS[bits + 1]
    BY <1>2 DEF Condition
  <2> HIDE DEF i, disp, bits
  <2>4. QED
    BY <2>1, <2>2, <2>3 DEF DecodeFormatIII, Instruction, Illegal
<1>4. InstructionWidth(word0) = 2
  BY DEF InstructionWidth, FIRST_32_BIT_OPCODE
<1> HIDE DEF i, disp, bits
<1>5. SignExtend(disp, 9) \in Signed(9) /\ Field(SignExtend(disp, 9), 9) = disp
  BY <1>1, <1>2, SignExtended
<1>6. Place(CONDITIONS, CONDITIONS[bits + 1]) = bits
  <2>1. bits \in 0..(Len(CONDITIONS) - 1) /\ Len(CONDITIONS) \in Nat
    BY <1>1, Lengths
  <2>2. CONDITIONS[bits + 1] \notin Illegal
    BY <1>1 DEF CONDITIONS, Illegal
  <2>3. QED
    BY <2>1, <2>2, Tables, Placed
<1>7. Encoded(i) = <<word0, 0>>
  <2>1. i.format = "III" /\ i.op = "Bcond" /\ i.cond = CONDITIONS[bits + 1]
        /\ i.imm = SignExtend(disp, 9)
    BY <1>3
  <2>2. ~Within(i.op, BIT_STRING)
    BY <2>1 DEF Within, BIT_STRING
  <2>3. Encoded(i) = <<2^15 + 2^9 * Place(CONDITIONS, i.cond) + Field(i.imm, 9), 0>>
    BY <2>1, <2>2 DEF Encoded
  <2>4. 2^15 + 2^9 * Place(CONDITIONS, i.cond) + Field(i.imm, 9) = word0
    BY <1>1, <1>2, <1>5, <1>6, <2>1
  <2>5. QED
    BY <2>3, <2>4
<1>8. i.imm \in ImmediateRange(i)
  BY <1>3, <1>5 DEF ImmediateRange
<1>9. i.width = InstructionWidth(word0)
  BY <1>3, <1>4
<1>10. QED
  BY <1>7, <1>8, <1>9, KeepsExactly DEF i

LEMMA KeepsFormatIV ==
  ASSUME NEW word0 \in Half, NEW word1 \in Half, OpcodeOf(word0) \in {42, 43}
  PROVE  Keeps(DecodeWords(word0, word1), word0, word1)
<1> DEFINE opcode == OpcodeOf(word0)
           op   == FORMAT_IV_V[opcode - 39]
           high == word0 % 1024
           disp == high * 65536 + word1
           i    == DecodeWords(word0, word1)
<1>1. op \in {"Jr", "Jal"}
  BY DEF FORMAT_IV_V
<1>2. /\ word0 \in Int /\ word1 \in Int /\ word1 >= 0 /\ word1 < 65536
      /\ high \in Int /\ high >= 0 /\ high < 1024 /\ word0 = opcode * 1024 + high
  BY HalfIs DEF OpcodeOf
<1>3. 2^10 = 1024 /\ 2^16 = 65536 /\ 2^26 = 67108864
  OBVIOUS
<1>4. i = [op |-> op, format |-> "IV", width |-> 4, reg1 |-> 0, reg2 |-> 0,
           imm |-> SignExtend(disp, 26), cond |-> NoCondition]
  <2>1. i = DecodeFormatIV(opcode, word0, word1)
    BY DEF DecodeWords
  <2>2. (word0 % 2^10) * 2^16 + word1 = disp
    BY <1>3
  <2>3. op \notin Illegal
    BY <1>1 DEF Illegal
  <2> HIDE DEF i, disp
  <2>4. i = Instruction(op, "IV", 0, 0, SignExtend(disp, 26), NoCondition)
    BY <2>1, <2>2 DEF DecodeFormatIV
  <2> HIDE DEF op
  <2>5. QED
    BY <2>3, <2>4 DEF Instruction
<1>5. InstructionWidth(word0) = 4
  BY DEF InstructionWidth, FIRST_32_BIT_OPCODE
<1>6. Place(FORMAT_IV_V, op) = opcode - 40
  <2>1. opcode - 40 \in 0..(Len(FORMAT_IV_V) - 1) /\ Len(FORMAT_IV_V) \in Nat
        /\ (opcode - 40) + 1 = opcode - 39
    BY Lengths
  <2>2. op \notin Illegal
    BY <1>1 DEF Illegal
  <2> HIDE DEF opcode
  <2>3. QED
    BY <2>1, <2>2, Tables, Placed
<1>7. disp \in Int /\ disp >= 0 /\ disp < 2^26 /\ disp \div 65536 = high /\ disp % 65536 = word1
  BY <1>2, <1>3
<1>8. opcode \in Int
  OBVIOUS
<1> HIDE DEF i, op, disp, opcode, high
<1>9. SignExtend(disp, 26) \in Signed(26) /\ Field(SignExtend(disp, 26), 26) = disp
  BY <1>7, SignExtended
<1>10. Encoded(i) = <<word0, word1>>
  <2>1. i.format = "IV" /\ i.op = op /\ i.imm = SignExtend(disp, 26)
    BY <1>4
  <2>2. ~Within(i.op, BIT_STRING)
    BY <1>1, <2>1 DEF Within, BIT_STRING
  <2> DEFINE first == OpWord(40 + Place(FORMAT_IV_V, i.op), 0, 0) + Field(i.imm, 26) \div 2^16
  <2>3. Encoded(i) = <<first, Field(i.imm, 16)>>
    BY <2>1, <2>2 DEF Encoded
  <2>4. first = word0
    <3>1. 40 + Place(FORMAT_IV_V, i.op) = opcode
      BY <1>6, <1>8, <2>1
    <3>2. Field(i.imm, 26) \div 2^16 = high
      BY <1>3, <1>7, <1>9, <2>1
    <3>3. QED
      BY <1>2, <1>8, <3>1, <3>2 DEF OpWord
  <2>5. Field(i.imm, 16) = word1
    <3>1. SignExtend(disp, 26) = disp \/ SignExtend(disp, 26) = disp - 67108864
      BY <1>3 DEF SignExtend
    <3>2. (disp - 67108864) % 65536 = disp % 65536
      BY <1>7
    <3>3. QED
      BY <1>3, <1>7, <2>1, <3>1, <3>2 DEF Field
  <2> HIDE DEF first
  <2>6. QED
    BY <2>3, <2>4, <2>5
<1>11. i.imm \in ImmediateRange(i)
  BY <1>1, <1>4, <1>9 DEF ImmediateRange
<1>12. i.width = InstructionWidth(word0)
  BY <1>4, <1>5
<1>13. QED
  BY <1>10, <1>11, <1>12, KeepsExactly DEF i
LEMMA KeepsFormatV ==
  ASSUME NEW word0 \in Half, NEW word1 \in Half, OpcodeOf(word0) \in {40, 41} \cup 44..47
  PROVE  Keeps(DecodeWords(word0, word1), word0, word1)
<1> DEFINE opcode == OpcodeOf(word0)
           op   == FORMAT_IV_V[opcode - 39]
           imm  == IF op \in {"Movea", "Addi"} THEN SignExtend(word1, 16) ELSE word1
           i    == DecodeWords(word0, word1)
<1>1. op \in {"Movea", "Addi", "Ori", "Andi", "Xori", "Movhi"}
  BY DEF FORMAT_IV_V
<1>2. /\ opcode \in Int /\ Reg2Of(word0) \in 0..31 /\ Reg1Of(word0) \in 0..31
      /\ word0 = OpWord(opcode, Reg2Of(word0), Reg1Of(word0))
      /\ word1 \in Int /\ word1 >= 0 /\ word1 < 2^16
  BY FieldsOfWord, HalfIs
<1>3. i = [op |-> op, format |-> "V", width |-> 4, reg1 |-> Reg1Of(word0),
           reg2 |-> Reg2Of(word0), imm |-> imm, cond |-> NoCondition]
  <2>1. i = DecodeFormatV(opcode, word0, word1)
    BY DEF DecodeWords
  <2>2. op \notin Illegal
    BY <1>1 DEF Illegal
  <2> HIDE DEF i
  <2>3. i = Instruction(op, "V", Reg1Of(word0), Reg2Of(word0), imm, NoCondition)
    BY <2>1 DEF DecodeFormatV
  <2> HIDE DEF op, imm
  <2>4. QED
    BY <2>2, <2>3 DEF Instruction
<1>4. InstructionWidth(word0) = 4
  BY DEF InstructionWidth, FIRST_32_BIT_OPCODE
<1>5. Place(FORMAT_IV_V, op) = opcode - 40
  <2>1. opcode - 40 \in 0..(Len(FORMAT_IV_V) - 1) /\ Len(FORMAT_IV_V) \in Nat
        /\ (opcode - 40) + 1 = opcode - 39
    BY Lengths
  <2>2. op \notin Illegal
    BY <1>1 DEF Illegal
  <2> HIDE DEF opcode
  <2>3. QED
    BY <2>1, <2>2, Tables, Placed
<1> HIDE DEF i, op, opcode
<1>6. Field(imm, 16) = word1
  BY <1>2, SignExtended DEF Field
<1>7. i.imm \in ImmediateRange(i)
  <2>1. i.imm = imm /\ i.op = op /\ i.format = "V"
    BY <1>3
  <2>2. CASE op \in {"Movea", "Addi"}
    <3>1. imm \in Signed(16)
      BY <1>2, <2>2, SignExtended
    <3>2. ImmediateRange(i) = Signed(16)
      BY <2>1, <2>2 DEF ImmediateRange
    <3>3. QED
      BY <2>1, <3>1, <3>2
  <2>3. CASE op \in {"Ori", "Andi", "Xori", "Movhi"}
    <3>1. imm \in Unsigned(16)
      BY <1>2, <2>3 DEF Unsigned
    <3>2. ImmediateRange(i) = Unsigned(16)
      BY <2>1, <2>3 DEF ImmediateRange
    <3>3. QED
      BY <2>1, <3>1, <3>2
  <2>4. QED
    BY <1>1, <2>2, <2>3
<1> HIDE DEF imm
<1>8. Encoded(i) = <<word0, word1>>
  <2>1. /\ i.format = "V" /\ i.op = op /\ i.imm = imm
        /\ i.reg2 = Reg2Of(word0) /\ i.reg1 = Reg1Of(word0)
    BY <1>3
  <2>2. ~Within(i.op, BIT_STRING)
    BY <1>1, <2>1 DEF Within, BIT_STRING
  <2>3. Encoded(i) = <<OpWord(40 + Place(FORMAT_IV_V, i.op), i.reg2, i.reg1), Field(i.imm, 16)>>
    BY <2>1, <2>2 DEF Encoded
  <2>4. 40 + Place(FORMAT_IV_V, i.op) = opcode
    BY <1>2, <1>5, <2>1
  <2>5. QED
    BY <1>2, <1>6, <2>1, <2>3, <2>4
<1>9. i.width = InstructionWidth(word0)
  BY <1>3, <1>4
<1>10. QED
  BY <1>7, <1>8, <1>9, KeepsExactly DEF i

LEMMA KeepsFormatVI ==
  ASSUME NEW word0 \in Half, NEW word1 \in Half, OpcodeOf(word0) \in 48..61 \cup {63},
         DecodeWords(word0, word1).op \notin Illegal
  PROVE  Keeps(DecodeWords(word0, word1), word0, word1)
<1> DEFINE opcode == OpcodeOf(word0)
           op   == FORMAT_VI[opcode - 47]
           i    == DecodeWords(word0, word1)
<1>1. i = Instruction(op, "VI", Reg1Of(word0), Reg2Of(word0), SignExtend(word1, 16), NoCondition)
  <2>1. i = DecodeFormatVI(opcode, word0, word1)
    BY DEF DecodeWords
  <2> HIDE DEF i
  <2>2. QED
    BY <2>1 DEF DecodeFormatVI
<1>2. /\ opcode \in Int /\ Reg2Of(word0) \in 0..31 /\ Reg1Of(word0) \in 0..31
      /\ word0 = OpWord(opcode, Reg2Of(word0), Reg1Of(word0))
      /\ word1 \in Int /\ word1 >= 0 /\ word1 < 2^16
  BY FieldsOfWord, HalfIs
<1>3. op \notin Illegal
  <2> HIDE DEF i, op
  <2>1. CASE op \in Illegal
    <3>1. i = Error(op)
      BY <1>1, <2>1 DEF Instruction
    <3>2. QED
      BY <2>1, <3>1 DEF Error, i
  <2>2. QED
    BY <2>1
<1>4. op \in {"LdB", "LdH", "LdW", "StB", "StH", "StW", "InB", "InH", "Caxi", "InW",
              "OutB", "OutH", "OutW"}
  BY <1>3 DEF FORMAT_VI, Illegal
<1>5. InstructionWidth(word0) = 4
  BY DEF InstructionWidth, FIRST_32_BIT_OPCODE
<1>6. Place(FORMAT_VI, op) = opcode - 48
  <2>1. opcode - 48 \in 0..(Len(FORMAT_VI) - 1) /\ Len(FORMAT_VI) \in Nat
        /\ (opcode - 48) + 1 = opcode - 47
    BY Lengths
  <2> HIDE DEF opcode
  <2>2. QED
    BY <1>3, <2>1, Tables, Placed
<1> HIDE DEF i, op, opcode
<1>7. i = [op |-> op, format |-> "VI", width |-> 4, reg1 |-> Reg1Of(word0),
           reg2 |-> Reg2Of(word0), imm |-> SignExtend(word1, 16), cond |-> NoCondition]
  BY <1>1, <1>3 DEF Instruction
<1>8. SignExtend(word1, 16) \in Signed(16) /\ Field(SignExtend(word1, 16), 16) = word1
  BY <1>2, SignExtended
<1>9. i.imm \in ImmediateRange(i)
  BY <1>4, <1>7, <1>8 DEF ImmediateRange
<1>10. Encoded(i) = <<word0, word1>>
  <2>1. /\ i.format = "VI" /\ i.op = op /\ i.imm = SignExtend(word1, 16)
        /\ i.reg2 = Reg2Of(word0) /\ i.reg1 = Reg1Of(word0)
    BY <1>7
  <2>2. ~Within(i.op, BIT_STRING)
    BY <1>4, <2>1 DEF Within, BIT_STRING
  <2>3. Encoded(i) = <<OpWord(48 + Place(FORMAT_VI, i.op), i.reg2, i.reg1), Field(i.imm, 16)>>
    BY <2>1, <2>2 DEF Encoded
  <2>4. 48 + Place(FORMAT_VI, i.op) = opcode
    BY <1>2, <1>6, <2>1
  <2>5. QED
    BY <1>2, <1>8, <2>1, <2>3, <2>4
<1>11. i.width = InstructionWidth(word0)
  BY <1>5, <1>7
<1>12. QED
  BY <1>9, <1>10, <1>11, KeepsExactly DEF i

LEMMA KeepsFormatVII ==
  ASSUME NEW word0 \in Half, NEW word1 \in Half, OpcodeOf(word0) = 62,
         DecodeWords(word0, word1).op \notin Illegal
  PROVE  Keeps(DecodeWords(word0, word1), word0, word1)
<1> DEFINE sub   == word1 \div 1024
           op    == SubOp(FLOAT, sub)
           reg1  == Reg1Of(word0)
           reg2  == Reg2Of(word0)
           again == 1024 * sub
           i     == DecodeWords(word0, word1)
<1>1. 2^10 = 1024
  OBVIOUS
<1>2. \A w : DecodeWords(word0, w) =
              Instruction(SubOp(FLOAT, w \div 1024), "VII", reg1, reg2, 0, NoCondition)
  <2> TAKE w
  <2>1. DecodeWords(word0, w) = DecodeFormatVII(word0, w)
    BY DEF DecodeWords
  <2>2. QED
    BY <1>1, <2>1 DEF DecodeFormatVII
<1>3. /\ reg2 \in 0..31 /\ reg1 \in 0..31 /\ word0 = OpWord(62, reg2, reg1)
      /\ word1 \in Int /\ sub \in 0..63 /\ again \div 1024 = sub
  BY FieldsOfWord, HalfIs
<1>4. InstructionWidth(word0) = 4
  BY DEF InstructionWidth, FIRST_32_BIT_OPCODE
<1>5. i = Instruction(op, "VII", reg1, reg2, 0, NoCondition)
  BY <1>2
<1> HIDE DEF i, sub, reg1, reg2
<1>6. op \notin Illegal
  <2>1. CASE op \in Illegal
    <3>1. i = Error(op)
      BY <1>5, <2>1 DEF Instruction
    <3>2. QED
      BY <2>1, <3>1 DEF Error, i
  <2>2. QED
    BY <2>1
<1>7. sub \in 0..12 /\ op = FLOAT[sub + 1]
  BY <1>3, <1>6, Lengths DEF SubOp, Illegal
<1>8. op \in {"CmpfS", "CvtWs", "CvtSw", "AddfS", "SubfS", "MulfS", "DivfS", "Xb", "Xh", "Rev",
              "TrncSw", "Mpyhw"}
  BY <1>6, <1>7 DEF FLOAT, Illegal
<1>9. i = DecodeWords(word0, again)
  BY <1>2, <1>3, <1>5
<1> HIDE DEF op, again
<1>10. i = [op |-> op, format |-> "VII", width |-> 4, reg1 |-> reg1,
            reg2 |-> reg2, imm |-> 0, cond |-> NoCondition]
  BY <1>5, <1>6 DEF Instruction
<1>11. Place(FLOAT, op) = sub
  <2>1. sub \in 0..(Len(FLOAT) - 1) /\ Len(FLOAT) \in Nat
    BY <1>7, Lengths
  <2>2. QED
    BY <1>6, <1>7, <2>1, Tables, Placed
<1>12. /\ i.format = "VII" /\ i.op = op /\ i.reg2 = reg2 /\ i.reg1 = reg1
       /\ i.imm = 0 /\ i.width = 4
  BY <1>10
<1>13. Encoded(i) = <<word0, again>>
  <2>1. ~Within(i.op, BIT_STRING)
    BY <1>8, <1>12 DEF Within, BIT_STRING
  <2>2. Encoded(i) = <<OpWord(62, i.reg2, i.reg1), 2^10 * Place(FLOAT, i.op)>>
    BY <1>12, <2>1 DEF Encoded
  <2>3. QED
    BY <1>1, <1>3, <1>11, <1>12, <2>2 DEF again
<1>14. Meaningless(i) = <<1, 1024>>
  <2>1. i.op \notin {"Cli", "Sei", "Reti", "Halt"}
    BY <1>8, <1>12
  <2>2. Meaningless(i) = <<1, 2^10>>
    BY <1>12, <2>1 DEF Meaningless
  <2>3. QED
    BY <1>1, <2>2
<1>15. i.imm \in ImmediateRange(i)
  BY <1>8, <1>12 DEF ImmediateRange
<1>16. ASSUME NEW k \in {1, 2}
       PROVE  Encoded(i)[k] \div Meaningless(i)[k] = <<word0, word1>>[k] \div Meaningless(i)[k]
  <2>1. /\ Encoded(i)[1] = word0 /\ Encoded(i)[2] = again
        /\ Meaningless(i)[1] = 1 /\ Meaningless(i)[2] = 1024
    BY <1>13, <1>14
  <2>2. again \div 1024 = word1 \div 1024
    BY <1>3 DEF sub, again
  <2>3. QED
    BY <2>1, <2>2
<1>17. DecodeWords(Encoded(i)[1], Encoded(i)[2]) = i
  <2>1. Encoded(i)[1] = word0 /\ Encoded(i)[2] = again
    BY <1>13
  <2>2. QED
    BY <1>9, <2>1
<1>18. Keeps(i, word0, word1)
  BY <1>4, <1>12, <1>15, <1>16, <1>17 DEF Keeps
<1>19. QED
  BY <1>18 DEF i
-----------------------------------------------------------------------------
(* What is fetched.                                                           *)

LEMMA Keeping ==
  ASSUME NEW words \in Word, Fetched(words).op \notin Illegal
  PROVE  Keeps(Fetched(words), words[1],
               IF InstructionWidth(words[1]) = 4 THEN words[2] ELSE 0)
<1> DEFINE word0 == words[1]
           word1 == words[2]
           opcode == OpcodeOf(word0)
           rest == IF InstructionWidth(word0) = 4 THEN word1 ELSE 0
<1>1. word0 \in Half /\ word1 \in Half
  BY DEF Word
<1>2. Fetched(words) = DecodeWords(word0, rest)
  BY DEF Fetched
<1>3. opcode \in Int /\ opcode >= 0 /\ opcode < 64
  BY <1>1, FieldsOfWord
<1>4. (opcode < 40 => rest = 0) /\ (opcode >= 40 => rest = word1)
  BY <1>3 DEF InstructionWidth, FIRST_32_BIT_OPCODE
<1> HIDE DEF word0, word1, rest
<1>5. CASE opcode \in 0..15
  <2>1. rest = 0
    BY <1>4, <1>5
  <2>2. Keeps(DecodeWords(word0, 0), word0, 0)
    BY <1>1, <1>5, KeepsFormatI
  <2>3. QED
    BY <1>2, <2>1, <2>2 DEF word0, word1, rest
<1>6. CASE opcode \in 16..30
  <2>1. rest = 0
    BY <1>4, <1>6
  <2>2. FORMAT_II[opcode - 15] \notin Illegal \cup {"BitString"}
    <3>1. FORMAT_II[opcode - 15] # "BitString"
      BY <1>6 DEF FORMAT_II
    <3>2. DecodeWords(word0, 0) = DecodeFormatII(opcode, word0)
      BY <1>6 DEF DecodeWords
    <3>3. CASE FORMAT_II[opcode - 15] \in Illegal
      <4>1. DecodeWords(word0, 0) = Error(FORMAT_II[opcode - 15])
        BY <3>1, <3>2, <3>3 DEF DecodeFormatII, Instruction
      <4>2. QED
        BY <1>2, <2>1, <3>3, <4>1 DEF Error
    <3>4. QED
      BY <3>1, <3>3
  <2>3. opcode \in 16..31
    BY <1>6
  <2>4. Keeps(DecodeWords(word0, 0), word0, 0)
    BY <1>1, <2>2, <2>3, KeepsFormatII
  <2>5. QED
    BY <1>2, <2>1, <2>4 DEF word0, word1, rest
<1>7. CASE opcode = 31
  <2>1. rest = 0
    BY <1>4, <1>7
  <2>2. Keeps(DecodeWords(word0, 0), word0, 0)
    BY <1>1, <1>2, <1>7, <2>1, KeepsBitString
  <2>3. QED
    BY <1>2, <2>1, <2>2 DEF word0, word1, rest
<1>8. CASE opcode \in 32..39
  <2>1. rest = 0
    BY <1>4, <1>8
  <2>2. Keeps(DecodeWords(word0, 0), word0, 0)
    BY <1>1, <1>8, KeepsFormatIII
  <2>3. QED
    BY <1>2, <2>1, <2>2 DEF word0, word1, rest
<1>9. CASE opcode >= 40
  <2>1. rest = word1
    BY <1>4, <1>9
  <2>2. DecodeWords(word0, word1).op \notin Illegal
    BY <1>2, <2>1
  <2>3. Keeps(DecodeWords(word0, word1), word0, word1)
    <3>1. CASE opcode \in {42, 43}
      BY <1>1, <3>1, KeepsFormatIV
    <3>2. CASE opcode \in {40, 41} \cup 44..47
      BY <1>1, <3>2, KeepsFormatV
    <3>3. CASE opcode \in 48..61 \cup {63}
      BY <1>1, <2>2, <3>3, KeepsFormatVI
    <3>4. CASE opcode = 62
      BY <1>1, <2>2, <3>4, KeepsFormatVII
    <3>5. QED
      BY <1>3, <1>9, <3>1, <3>2, <3>3, <3>4
  <2>4. QED
    BY <1>2, <2>1, <2>3 DEF word0, word1, rest
<1>10. QED
  BY <1>3, <1>5, <1>6, <1>7, <1>8, <1>9

\* The bytes of a halfword are the halfword.
LEMMA BytesOfHalf ==
  ASSUME NEW w \in Half
  PROVE  LittleEndian(LowByte(w), HighByte(w)) = w
  BY HalfIs DEF LittleEndian, LowByte, HighByte

\* A listing of bytes decodes as a fetch of them does.
LEMMA Listed ==
  ASSUME NEW words \in Word, NEW len \in 0..4
  PROVE  DecodeSlice(SubSeq(Slice(words), 1, len)) =
           IF len < InstructionWidth(words[1]) THEN Error("Truncated") ELSE Fetched(words)
<1> DEFINE all == Slice(words)
           bytes == SubSeq(all, 1, len)
           width == InstructionWidth(words[1])
<1>1. words[1] \in Half /\ words[2] \in Half
  BY DEF Word
<1>2. /\ Len(bytes) = len
      /\ len >= 2 => bytes[1] = LowByte(words[1]) /\ bytes[2] = HighByte(words[1])
      /\ len >= 4 => bytes[3] = LowByte(words[2]) /\ bytes[4] = HighByte(words[2])
  <2>1. /\ all[1] = LowByte(words[1]) /\ all[2] = HighByte(words[1])
        /\ all[3] = LowByte(words[2]) /\ all[4] = HighByte(words[2])
    BY DEF Slice
  <2>2. Len(bytes) = len /\ \A k \in 1..len : bytes[k] = all[k]
    <3>1. all \in Seq(Nat) /\ Len(all) = 4
      BY <1>1, HalfIs DEF Slice, LowByte, HighByte
    <3> HIDE DEF all
    <3>2. QED
      BY <3>1
  <2> HIDE DEF all, bytes
  <2>3. QED
    BY <2>1, <2>2
<1>3. width \in {2, 4}
  BY DEF InstructionWidth
<1> HIDE DEF bytes, width
<1>4. CASE len < 2
  <2>1. DecodeSlice(bytes) = Error("Truncated")
    BY <1>2, <1>4 DEF DecodeSlice
  <2>2. len < width
    BY <1>3, <1>4
  <2>3. QED
    BY <2>1, <2>2 DEF bytes, width
<1>5. CASE len >= 2
  <2>1. LittleEndian(bytes[1], bytes[2]) = words[1]
    BY <1>1, <1>2, <1>5, BytesOfHalf
  <2>2. CASE width = 2
    <3>1. DecodeSlice(bytes) = DecodeWords(words[1], 0)
      BY <1>2, <1>5, <2>1, <2>2 DEF DecodeSlice, width
    <3>2. Fetched(words) = DecodeWords(words[1], 0)
      BY <2>2 DEF Fetched, width
    <3>3. ~(len < width)
      BY <1>5, <2>2
    <3>4. QED
      BY <3>1, <3>2, <3>3 DEF bytes, width
  <2>3. CASE width = 4 /\ len < 4
    <3>1. DecodeSlice(bytes) = Error("Truncated")
      BY <1>2, <1>5, <2>1, <2>3 DEF DecodeSlice, width
    <3>2. QED
      BY <2>3, <3>1 DEF bytes, width
  <2>4. CASE width = 4 /\ len >= 4
    <3>1. LittleEndian(bytes[3], bytes[4]) = words[2]
      BY <1>1, <1>2, <2>4, BytesOfHalf
    <3>2. DecodeSlice(bytes) = DecodeWords(words[1], words[2])
      BY <1>2, <1>5, <2>1, <2>4, <3>1 DEF DecodeSlice, width
    <3>3. Fetched(words) = DecodeWords(words[1], words[2])
      BY <2>4 DEF Fetched, width
    <3>4. ~(len < width)
      BY <2>4
    <3>5. QED
      BY <3>2, <3>3, <3>4 DEF bytes, width
  <2>5. QED
    BY <1>3, <2>2, <2>3, <2>4
<1>6. QED
  BY <1>4, <1>5
-----------------------------------------------------------------------------
(* Every instruction a program can fetch.                                     *)

FetchedTyped == fetched # Nothing => fetched \in Word

LEMMA FetchedStaysTyped == Spec => []FetchedTyped
<1>1. Init => FetchedTyped
  BY LoadStoreAssumption DEF Init, FetchedTyped, Word
<1>2. FetchedTyped /\ [Next]_vars => FetchedTyped'
  <2> SUFFICES ASSUME FetchedTyped, [Next]_vars
               PROVE  FetchedTyped'
    OBVIOUS
  <2>1. CASE Fetch
    BY <2>1, LoadStoreAssumption DEF Fetch, FetchedTyped
  <2>2. CASE Execute
    BY <2>2 DEF Execute, FetchedTyped
  <2>3. CASE RaiseVip
    BY <2>3 DEF RaiseVip, FetchedTyped
  <2>4. CASE UNCHANGED vars
    BY <2>4 DEF vars, FetchedTyped
  <2>5. QED
    BY <2>1, <2>2, <2>3, <2>4 DEF Next
<1>3. QED
  BY <1>1, <1>2, PTL DEF Spec

LEMMA TypedDecodesWhole == FetchedTyped => DecodingLosesNothing
<1> SUFFICES ASSUME FetchedTyped, fetched # Nothing
             PROVE  DecodingLosesNothing
  BY DEF DecodingLosesNothing
<1> DEFINE i     == Fetched(fetched)
           width == InstructionWidth(fetched[1])
           bytes == Slice(fetched)
           words == <<fetched[1], IF width = 4 THEN fetched[2] ELSE 0>>
<1>1. fetched \in Word
  BY DEF FetchedTyped
<1>2. i.op \notin Illegal =>
        /\ i.width = width
        /\ i.imm \in ImmediateRange(i)
        /\ \A k \in {1, 2} : Encoded(i)[k] \div Meaningless(i)[k] = words[k] \div Meaningless(i)[k]
        /\ DecodeWords(Encoded(i)[1], Encoded(i)[2]) = i
  BY <1>1, Keeping, Zenon DEF Keeps
<1>3. \A len \in 0..4 :
        DecodeSlice(SubSeq(bytes, 1, len)) = IF len < width THEN Error("Truncated") ELSE i
  BY <1>1, Listed
<1>4. QED
  BY <1>2, <1>3, Zenon DEF DecodingLosesNothing

\* Whatever two halfwords a program fetches, the fields of the instruction
\* they decode to give back every bit of them that means something, its width
\* is the one the fetch chose, and a listing of their bytes says the same.
THEOREM DecodesWhole == Spec => []DecodingLosesNothing
<1>1. QED
  BY FetchedStaysTyped, TypedDecodesWhole, PTL
-----------------------------------------------------------------------------
(* The fields of the bus, of the video processor's map and of its registers:  *)
(* no operation of theirs adds one or takes one away.                         *)

IsBus(b) == \E vip, wram, sram, wait, posted :
  b = [vip |-> vip, wram |-> wram, sram |-> sram, wait |-> wait, posted |-> posted]
IsVip(v) == \E vram, registers : v = [vram |-> vram, regs |-> registers]
Fields(pending, enabled, display, drawing, group, settings) ==
  [pending |-> pending, enabled |-> enabled, display |-> display, draw_enabled |-> drawing,
   row_group_compare |-> group, settings |-> settings]
IsRegisters(r) == \E pending, enabled, display, drawing, group, settings :
  r = Fields(pending, enabled, display, drawing, group, settings)

\* What a halfword, or two of them, do to the flags: handed is the halfwords
\* by register.
Hands(handed, register, flag) == register \in DOMAIN handed /\ flag \in Bits(handed[register])
Resets(handed, flag) == \/ Hands(handed, DPCTRL, DPRST) /\ flag \in Display
                        \/ Hands(handed, XPCTRL, XPRST) /\ flag \in Drawing

Moves(old, handed, new) ==
  \A flag \in INT_MASK :
     /\ flag \in new.pending <=> /\ flag \in old.pending
                                 /\ ~Hands(handed, INTCLR, flag)
                                 /\ ~Resets(handed, flag)
     /\ flag \in new.enabled <=>
          IF INTENB \in DOMAIN handed THEN Hands(handed, INTENB, flag)
          ELSE flag \in old.enabled /\ ~Resets(handed, flag)

One(at, half) == [register \in {at} |-> half]

Telling == {INTENB, INTCLR, DPCTRL, XPCTRL}

\* What goes elsewhere moves no flag.
LEMMA MovesNothing ==
  ASSUME NEW old, NEW new, new.pending = old.pending, new.enabled = old.enabled,
         NEW handed, DOMAIN handed \cap Telling = {}
  PROVE  Moves(old, handed, new)
<1>1. /\ INTENB \notin DOMAIN handed /\ INTCLR \notin DOMAIN handed
      /\ DPCTRL \notin DOMAIN handed /\ XPCTRL \notin DOMAIN handed
  BY DEF Telling
<1>2. QED
  BY <1>1, Zenon DEF Moves, Hands, Resets

LEMMA OneAt ==
  ASSUME NEW at, NEW half
  PROVE  /\ DOMAIN One(at, half) = {at}
         /\ \A register, flag : Hands(One(at, half), register, flag) <=>
                                 register = at /\ flag \in Bits(half)
<1>1. DOMAIN One(at, half) = {at} /\ One(at, half)[at] = half
  BY DEF One
<1>2. QED
  BY <1>1 DEF Hands

LEMMA RegisterAddresses ==
  /\ INTENB = 391170 /\ INTCLR = 391172 /\ DPCTRL = 391202 /\ XPCTRL = 391234
  /\ INTENB \notin Setting /\ INTCLR \notin Setting /\ DPCTRL \notin Setting /\ XPCTRL \notin Setting
  BY DEF INTENB, INTCLR, DPCTRL, XPCTRL, Setting, Brightness, BRTA, BRTB, BRTC, REST, FRMCYC,
         ObjectEnd, Palette, BKCOL

\* A register file with one field changed is a register file with the others.
LEMMA FieldsOf ==
  ASSUME NEW pending, NEW enabled, NEW display, NEW drawing, NEW group, NEW settings
  PROVE  LET r == Fields(pending, enabled, display, drawing, group, settings)
         IN  /\ IsRegisters(r) /\ r.pending = pending /\ r.enabled = enabled
             /\ r.settings = settings
<1>1. IsRegisters(Fields(pending, enabled, display, drawing, group, settings))
  BY Zenon DEF IsRegisters
<1>2. QED
  BY <1>1 DEF Fields

LEMMA PendingWhole ==
  ASSUME NEW r, IsRegisters(r), NEW flags
  PROVE  LET new == [r EXCEPT !.pending = flags]
         IN  /\ IsRegisters(new) /\ new.pending = flags /\ new.enabled = r.enabled
             /\ new.settings = r.settings
<1> PICK pending, enabled, display, drawing, group, settings :
      r = Fields(pending, enabled, display, drawing, group, settings)
  BY DEF IsRegisters
<1>1. [r EXCEPT !.pending = flags] = Fields(flags, enabled, display, drawing, group, settings)
  BY DEF Fields
<1>2. QED
  BY <1>1, FieldsOf

LEMMA EnabledWhole ==
  ASSUME NEW r, IsRegisters(r), NEW flags
  PROVE  LET new == [r EXCEPT !.enabled = flags]
         IN  /\ IsRegisters(new) /\ new.enabled = flags /\ new.pending = r.pending
             /\ new.settings = r.settings
<1> PICK pending, enabled, display, drawing, group, settings :
      r = Fields(pending, enabled, display, drawing, group, settings)
  BY DEF IsRegisters
<1>1. [r EXCEPT !.enabled = flags] = Fields(pending, flags, display, drawing, group, settings)
  BY DEF Fields
<1>2. QED
  BY <1>1, FieldsOf

LEMMA DisplayWhole ==
  ASSUME NEW r, IsRegisters(r), NEW d
  PROVE  LET new == [r EXCEPT !.display = d]
         IN  /\ IsRegisters(new) /\ new.pending = r.pending /\ new.enabled = r.enabled
             /\ new.settings = r.settings
<1> PICK pending, enabled, display, drawing, group, settings :
      r = Fields(pending, enabled, display, drawing, group, settings)
  BY DEF IsRegisters
<1>1. [r EXCEPT !.display = d] = Fields(pending, enabled, d, drawing, group, settings)
  BY DEF Fields
<1>2. QED
  BY <1>1, FieldsOf

Redrawn(r, g, w) == [r EXCEPT !.row_group_compare = g, !.draw_enabled = w]

LEMMA DrawWhole ==
  ASSUME NEW r, IsRegisters(r), NEW g, NEW w
  PROVE  /\ IsRegisters(Redrawn(r, g, w))
         /\ Redrawn(r, g, w).pending = r.pending /\ Redrawn(r, g, w).enabled = r.enabled
         /\ Redrawn(r, g, w).settings = r.settings
<1> PICK pending, enabled, display, drawing, group, settings :
      r = Fields(pending, enabled, display, drawing, group, settings)
  BY DEF IsRegisters
<1>1. [r EXCEPT !.row_group_compare = g] = Fields(pending, enabled, display, drawing, g, settings)
  BY DEF Fields
<1>2. [Fields(pending, enabled, display, drawing, g, settings) EXCEPT !.draw_enabled = w] =
        Fields(pending, enabled, display, w, g, settings)
  BY DEF Fields
<1>3. Redrawn(r, g, w) = [[r EXCEPT !.row_group_compare = g] EXCEPT !.draw_enabled = w]
  BY DEF Redrawn
<1> HIDE DEF Fields
<1>4. QED
  <2> DEFINE old == Fields(pending, enabled, display, drawing, group, settings)
             new == Fields(pending, enabled, display, w, g, settings)
  <2>1. Redrawn(r, g, w) = new
    BY <1>1, <1>2, <1>3, Zenon
  <2>2. /\ IsRegisters(new) /\ new.pending = pending /\ new.enabled = enabled
        /\ old.pending = pending /\ old.enabled = enabled
        /\ new.settings = settings /\ old.settings = settings
    BY FieldsOf
  <2> HIDE DEF old, new
  <2>3. QED
    BY <2>1, <2>2 DEF old

LEMMA SettingsWhole ==
  ASSUME NEW r, IsRegisters(r), NEW at, NEW half
  PROVE  LET new == [r EXCEPT !.settings[at] = half]
         IN  /\ IsRegisters(new) /\ new.pending = r.pending /\ new.enabled = r.enabled
             /\ new.settings = [r.settings EXCEPT ![at] = half]
<1> PICK pending, enabled, display, drawing, group, settings :
      r = Fields(pending, enabled, display, drawing, group, settings)
  BY DEF IsRegisters
<1> DEFINE changed == [settings EXCEPT ![at] = half]
<1>1. r.settings = settings
  BY DEF Fields
<1>2. [r EXCEPT !.settings[at] = half] = [r EXCEPT !.settings = changed]
  BY <1>1
<1> HIDE DEF changed
<1>3. [r EXCEPT !.settings = changed] = Fields(pending, enabled, display, drawing, group, changed)
  BY DEF Fields
<1>4. QED
  BY <1>2, <1>3, FieldsOf

LEMMA WithoutWhole ==
  ASSUME NEW r, IsRegisters(r), NEW flags
  PROVE  /\ IsRegisters(Without(r, flags))
         /\ Without(r, flags).pending = r.pending \ flags
         /\ Without(r, flags).enabled = r.enabled \ flags
         /\ Without(r, flags).settings = r.settings
<1> DEFINE fewer == [r EXCEPT !.pending = r.pending \ flags]
<1>1. /\ IsRegisters(fewer) /\ fewer.pending = r.pending \ flags /\ fewer.enabled = r.enabled
      /\ fewer.settings = r.settings
  BY PendingWhole
<1> DEFINE rest  == r.enabled \ flags
           whole == [fewer EXCEPT !.enabled = rest]
<1>2. Without(r, flags) = whole
  BY DEF Without
<1> HIDE DEF fewer, rest
<1>3. /\ IsRegisters(whole) /\ whole.pending = fewer.pending /\ whole.enabled = rest
      /\ whole.settings = fewer.settings
  BY <1>1, EnabledWhole
<1> HIDE DEF whole
<1>4. QED
  BY <1>1, <1>2, <1>3 DEF rest

\* One halfword written to a register moves the flags as its bits ask.
LEMMA WriteRegisterMoves ==
  ASSUME NEW r, IsRegisters(r), NEW at, NEW half
  PROVE  /\ IsRegisters(WriteRegister(r, at, half))
         /\ Moves(r, One(at, half), WriteRegister(r, at, half))
<1> DEFINE new == WriteRegister(r, at, half)
           handed == One(at, half)
<1>1. /\ DOMAIN handed = {at}
      /\ \A register, flag : Hands(handed, register, flag) <=>
                              register = at /\ flag \in Bits(half)
  BY OneAt
<1> HIDE DEF handed
<1>2. CASE at = INTENB
  <2>1. new = [r EXCEPT !.enabled = Bits(half) \cap INT_MASK]
    BY <1>2, RegisterAddresses, SMT DEF WriteRegister
  <2> HIDE DEF new
  <2>2. /\ IsRegisters(new) /\ new.enabled = Bits(half) \cap INT_MASK /\ new.pending = r.pending
    BY <2>1, EnabledWhole
  <2>3. INTENB # INTCLR /\ INTENB # DPCTRL /\ INTENB # XPCTRL
    BY RegisterAddresses, SMT
  <2>4. Moves(r, handed, new)
    BY <1>1, <1>2, <2>2, <2>3 DEF Moves, Resets
  <2>5. QED
    BY <2>2, <2>4 DEF new, handed
<1>3. CASE at = INTCLR
  <2>1. new = [r EXCEPT !.pending = r.pending \ Bits(half)]
    BY <1>3, RegisterAddresses, SMT DEF WriteRegister
  <2> HIDE DEF new
  <2>2. IsRegisters(new) /\ new.pending = r.pending \ Bits(half) /\ new.enabled = r.enabled
    BY <2>1, PendingWhole
  <2>3. INTCLR # INTENB /\ INTCLR # DPCTRL /\ INTCLR # XPCTRL
    BY RegisterAddresses, SMT
  <2>4. Moves(r, handed, new)
    BY <1>1, <1>3, <2>2, <2>3 DEF Moves, Resets
  <2>5. QED
    BY <2>2, <2>4 DEF new, handed
<1>4. CASE at = DPCTRL
  <2> DEFINE written == [r EXCEPT !.display = Bits(half) \cap {LOCK, SYNCE, RE, DISP}]
  <2>1. new = IF DPRST \in Bits(half) THEN Without(written, DPRST_CLEARS) ELSE written
    BY <1>4, RegisterAddresses, SMT DEF WriteRegister, WriteDisplay
  <2>2. IsRegisters(written) /\ written.pending = r.pending /\ written.enabled = r.enabled
    BY DisplayWhole
  <2> HIDE DEF new, written
  <2>3. /\ IsRegisters(new)
        /\ new.pending = r.pending \ (IF DPRST \in Bits(half) THEN DPRST_CLEARS ELSE {})
        /\ new.enabled = r.enabled \ (IF DPRST \in Bits(half) THEN DPRST_CLEARS ELSE {})
    BY <2>1, <2>2, WithoutWhole
  <2>4. DPCTRL # INTENB /\ DPCTRL # INTCLR /\ DPCTRL # XPCTRL
    BY RegisterAddresses, SMT
  <2>5. DPRST_CLEARS = Display
    BY DEF DPRST_CLEARS, Display
  <2>6. Moves(r, handed, new)
    BY <1>1, <1>4, <2>3, <2>4, <2>5 DEF Moves, Resets
  <2>7. QED
    BY <2>3, <2>6 DEF new, handed
<1>5. CASE at = XPCTRL
  <2> DEFINE group == (half \div 2^8) % 2^5
             drawing == XPEN \in Bits(half) /\ XPRST \notin Bits(half)
             written == Redrawn(r, group, drawing)
  <2>1. new = IF XPRST \in Bits(half) THEN Without(written, XPRST_CLEARS) ELSE written
    BY <1>5, RegisterAddresses, SMT DEF WriteRegister, WriteDraw, Redrawn
  <2> HIDE DEF group, drawing
  <2>2. IsRegisters(written) /\ written.pending = r.pending /\ written.enabled = r.enabled
    BY DrawWhole
  <2> HIDE DEF new, written
  <2>3. /\ IsRegisters(new)
        /\ new.pending = r.pending \ (IF XPRST \in Bits(half) THEN XPRST_CLEARS ELSE {})
        /\ new.enabled = r.enabled \ (IF XPRST \in Bits(half) THEN XPRST_CLEARS ELSE {})
    BY <2>1, <2>2, WithoutWhole
  <2>4. XPCTRL # INTENB /\ XPCTRL # INTCLR /\ XPCTRL # DPCTRL
    BY RegisterAddresses, SMT
  <2>5. XPRST_CLEARS = Drawing
    BY DEF XPRST_CLEARS, Drawing
  <2>6. Moves(r, handed, new)
    BY <1>1, <1>5, <2>3, <2>4, <2>5 DEF Moves, Resets
  <2>7. QED
    BY <2>3, <2>6 DEF new, handed
<1>6. CASE at \notin Telling
  <2>1. IsRegisters(new) /\ new.pending = r.pending /\ new.enabled = r.enabled
    <3>1. CASE at \in Setting
      <4>1. new = [r EXCEPT !.settings[at] = Kept(at, half)]
        BY <1>6, <3>1 DEF WriteRegister, Telling
      <4>2. QED
        BY <4>1, SettingsWhole
    <3>2. CASE at \notin Setting
      <4>1. new = r
        BY <1>6, <3>2 DEF WriteRegister, Telling
      <4>2. QED
        BY <4>1
    <3>3. QED
      BY <3>1, <3>2
  <2> HIDE DEF new
  <2>2. DOMAIN handed \cap Telling = {}
    BY <1>1, <1>6
  <2>3. Moves(r, handed, new)
    BY <2>1, <2>2, MovesNothing
  <2>4. QED
    BY <2>1, <2>3 DEF new, handed
<1>7. QED
  BY <1>2, <1>3, <1>4, <1>5, <1>6 DEF Telling
\* So for two of them, as no word holds two of the telling registers.
Two(at, low, high) == [register \in {at, at + 2} |-> IF register = at THEN low ELSE high]

LEMMA TwoAt ==
  ASSUME NEW at \in Int, NEW low, NEW high
  PROVE  /\ DOMAIN Two(at, low, high) = {at, at + 2}
         /\ \A register, flag : Hands(Two(at, low, high), register, flag) <=>
                                 \/ register = at /\ flag \in Bits(low)
                                 \/ register = at + 2 /\ flag \in Bits(high)
<1>1. /\ DOMAIN Two(at, low, high) = {at, at + 2}
      /\ Two(at, low, high)[at] = low /\ Two(at, low, high)[at + 2] = high
  BY DEF Two
<1>2. at # at + 2
  OBVIOUS
<1>3. QED
  BY <1>1, <1>2 DEF Hands

LEMMA MovesTwo ==
  ASSUME NEW at \in Int, at % 4 = 0, NEW low, NEW high, NEW first, NEW second, NEW third,
         Moves(first, One(at, low), second), Moves(second, One(at + 2, high), third)
  PROVE  Moves(first, Two(at, low, high), third)
<1>1. /\ at # INTENB /\ at # DPCTRL /\ at # XPCTRL /\ at + 2 # INTCLR
  BY RegisterAddresses, SMT
<1>2. at = INTCLR => at + 2 # INTENB /\ at + 2 # DPCTRL /\ at + 2 # XPCTRL
  BY RegisterAddresses, SMT
<1>3. DPCTRL # INTENB /\ DPCTRL # XPCTRL /\ INTENB # XPCTRL
  BY RegisterAddresses, SMT
<1> DEFINE up == at + 2
           one == One(at, low)
           next == One(up, high)
           both == Two(at, low, high)
<1>4. /\ DOMAIN one = {at} /\ DOMAIN next = {up} /\ DOMAIN both = {at, up}
      /\ \A register, flag : Hands(one, register, flag) <=> register = at /\ flag \in Bits(low)
      /\ \A register, flag : Hands(next, register, flag) <=> register = up /\ flag \in Bits(high)
      /\ \A register, flag : Hands(both, register, flag) <=>
                                \/ register = at /\ flag \in Bits(low)
                                \/ register = up /\ flag \in Bits(high)
  BY OneAt, TwoAt
<1>5. Moves(first, one, second) /\ Moves(second, next, third)
  OBVIOUS
<1>6. /\ at # INTENB /\ at # DPCTRL /\ at # XPCTRL /\ up # INTCLR
      /\ at = INTCLR => up # INTENB /\ up # DPCTRL /\ up # XPCTRL
  BY <1>1, <1>2
<1> HIDE DEF up, one, next, both
<1>7. ASSUME NEW flag \in INT_MASK
      PROVE  /\ flag \in third.pending <=> /\ flag \in first.pending
                                           /\ ~Hands(both, INTCLR, flag)
                                           /\ ~Resets(both, flag)
             /\ flag \in third.enabled <=>
                  IF INTENB \in DOMAIN both THEN Hands(both, INTENB, flag)
                  ELSE flag \in first.enabled /\ ~Resets(both, flag)
  <2>1. /\ flag \in second.pending <=> /\ flag \in first.pending
                                       /\ ~Hands(one, INTCLR, flag)
        /\ flag \in second.enabled <=> flag \in first.enabled
    BY <1>4, <1>5, <1>6 DEF Moves, Resets
  <2>2. /\ flag \in third.pending <=> /\ flag \in second.pending
                                      /\ ~Resets(next, flag)
        /\ flag \in third.enabled <=>
                  IF up = INTENB THEN flag \in Bits(high)
                  ELSE flag \in second.enabled /\ ~Resets(next, flag)
    BY <1>4, <1>5, <1>6 DEF Moves
  <2>3. Resets(both, flag) <=> Resets(next, flag)
    BY <1>4, <1>6 DEF Resets
  <2>4. Hands(both, INTCLR, flag) <=> Hands(one, INTCLR, flag)
    BY <1>4, <1>6
  <2>5. /\ INTENB \in DOMAIN both <=> up = INTENB
        /\ up = INTENB => (Hands(both, INTENB, flag) <=> flag \in Bits(high))
    BY <1>4, <1>6
  <2>6. QED
    BY <2>1, <2>2, <2>3, <2>4, <2>5
<1>8. QED
  BY <1>7 DEF Moves, both

-----------------------------------------------------------------------------
(* A store to the video processor, at each width.                             *)

VipFields(vram, registers) == [vram |-> vram, regs |-> registers]
WholeVip(v) == IsVip(v) /\ IsRegisters(v.regs)

LEMMA VipUpdated ==
  ASSUME NEW v, IsVip(v), NEW new
  PROVE  /\ IsVip([v EXCEPT !.regs = new]) /\ [v EXCEPT !.regs = new].regs = new
         /\ IsVip([v EXCEPT !.vram = new]) /\ [v EXCEPT !.vram = new].regs = v.regs
<1> PICK vram, registers : v = VipFields(vram, registers)
  BY DEF IsVip, VipFields
<1>1. [v EXCEPT !.regs = new] = VipFields(vram, new)
  BY DEF VipFields
<1>2. [v EXCEPT !.vram = new] = VipFields(new, registers)
  BY DEF VipFields
<1>3. IsVip(VipFields(vram, new)) /\ IsVip(VipFields(new, registers))
  BY Zenon DEF IsVip, VipFields
<1>4. VipFields(vram, new).regs = new /\ VipFields(new, registers).regs = v.regs
  BY DEF VipFields
<1>5. QED
  BY <1>1, <1>2, <1>3, <1>4

LEMMA VipLengths ==
  /\ VIP_LEN = 524288 /\ VRAM_LEN = 262144 /\ CHARACTER_MIRROR = 491520
  /\ REGISTERS_START = 385024 /\ REGISTERS_END = 393215
  BY DEF VIP_LEN, VRAM_LEN, CHARACTER_MIRROR, REGISTERS_START, REGISTERS_END

LEMMA Outside ==
  ASSUME NEW at \in Int, NEW first \in Int, NEW last \in Int, at < first \/ at > last
  PROVE  at \notin first..last
  OBVIOUS

LEMMA Resolved ==
  ASSUME NEW addr \in Nat
  PROVE  LET at == addr % VIP_LEN
         IN  /\ at \in Int /\ at >= 0 /\ at < 524288
             /\ \/ /\ Resolve(addr) = Register(at)
                   /\ at >= 385024 /\ at <= 393215
                \/ /\ Resolve(addr).kind \in {"vram", "unmapped"}
                   /\ at < 385024 \/ at > 393215
<1> DEFINE at == addr % VIP_LEN
<1>1. at \in Int /\ at >= 0 /\ at < 524288
  BY VipLengths, SMT
<1>2. Resolve(addr) = CASE at < VRAM_LEN -> Vram(at)
                        [] at \in REGISTERS_START..REGISTERS_END -> Register(at)
                        [] at >= CHARACTER_MIRROR -> Vram(CharacterCell(at - CHARACTER_MIRROR))
                        [] OTHER -> Unmapped
  BY Zenon DEF Resolve
<1> HIDE DEF at
<1>3. (\A cell : Vram(cell).kind = "vram") /\ Unmapped.kind = "unmapped"
  BY DEF Vram, Unmapped
<1>4. CASE at >= 385024 /\ at <= 393215
  <2>1. ~(at < VRAM_LEN) /\ ~(at >= CHARACTER_MIRROR) /\ at \in REGISTERS_START..REGISTERS_END
    BY <1>1, <1>4, VipLengths, SMT
  <2>2. Resolve(addr) = Register(at)
    BY <1>1, <1>2, <2>1
  <2>3. QED
    BY <1>1, <1>4, <2>2 DEF at
<1>5. CASE at < 385024 \/ at > 393215
  <2>1. at \notin REGISTERS_START..REGISTERS_END
    <3>1. /\ REGISTERS_START \in Int /\ REGISTERS_END \in Int
          /\ at < REGISTERS_START \/ at > REGISTERS_END
      BY <1>1, <1>5, VipLengths, SMT
    <3>2. QED
      BY <1>1, <3>1, Outside
  <2>2. CASE at < VRAM_LEN
    <3>1. ~(at >= CHARACTER_MIRROR)
      BY <1>1, <2>2, VipLengths, SMT
    <3>2. Resolve(addr) = Vram(at)
      BY <1>2, <2>1, <2>2, <3>1
    <3>3. QED
      BY <1>1, <1>3, <1>5, <3>2 DEF at
  <2>3. CASE ~(at < VRAM_LEN) /\ at >= CHARACTER_MIRROR
    <3>1. Resolve(addr) = Vram(CharacterCell(at - CHARACTER_MIRROR))
      BY <1>2, <2>1, <2>3
    <3>2. QED
      BY <1>1, <1>3, <1>5, <3>1 DEF at
  <2>4. CASE ~(at < VRAM_LEN) /\ ~(at >= CHARACTER_MIRROR)
    <3>1. Resolve(addr) = Unmapped
      BY <1>2, <2>1, <2>4
    <3>2. QED
      BY <1>1, <1>3, <1>5, <3>1 DEF at
  <2>5. QED
    BY <2>2, <2>3, <2>4
<1>6. QED
  BY <1>1, <1>4, <1>5

LEMMA Vip16Moves ==
  ASSUME NEW v, WholeVip(v), NEW addr \in Nat, addr % 2 = 0, NEW half
  PROVE  /\ WholeVip(VipWriteU16(v, addr, half))
         /\ Moves(v.regs, One(addr % VIP_LEN, half), VipWriteU16(v, addr, half).regs)
<1> DEFINE at == addr % VIP_LEN
           new == VipWriteU16(v, addr, half)
<1>1. Even(addr) = addr
  BY DEF Even
<1>2. CASE Resolve(addr) = Register(at)
  <2>1. Resolve(addr).kind = "register" /\ Resolve(addr).at = at
    BY <1>2 DEF Register
  <2> DEFINE after == WriteRegister(v.regs, at, half)
  <2>2. new = [v EXCEPT !.regs = after]
    BY <1>1, <2>1 DEF VipWriteU16
  <2>3. IsRegisters(after) /\ Moves(v.regs, One(at, half), after)
    BY WriteRegisterMoves DEF WholeVip
  <2> HIDE DEF after, new
  <2>4. IsVip(new) /\ new.regs = after
    BY <2>2, VipUpdated DEF WholeVip
  <2>5. QED
    BY <2>3, <2>4 DEF WholeVip, new
<1>3. CASE Resolve(addr) # Register(at)
  <2>1. /\ Resolve(addr).kind \in {"vram", "unmapped"} /\ at \in Int
        /\ at < 385024 \/ at > 393215
    BY <1>3, Resolved
  <2>2. IsVip(new) /\ new.regs = v.regs
    <3>1. CASE Resolve(addr).kind = "vram"
      <4> DEFINE cell == Resolve(addr).at
                 after == Poke(Poke(v.vram, cell, LowByte(half)), cell + 1, HighByte(half))
      <4>1. new = [v EXCEPT !.vram = after]
        BY <1>1, <3>1 DEF VipWriteU16
      <4> HIDE DEF after, new
      <4>2. QED
        BY <4>1, VipUpdated DEF WholeVip
    <3>2. CASE Resolve(addr).kind = "unmapped"
      <4>1. new = v
        BY <1>1, <3>2 DEF VipWriteU16
      <4>2. QED
        BY <4>1 DEF WholeVip
    <3>3. QED
      BY <2>1, <3>1, <3>2
  <2>3. DOMAIN One(at, half) \cap Telling = {}
    <3> HIDE DEF at
    <3>1. at \notin Telling
      BY <2>1, RegisterAddresses, SMT DEF Telling
    <3>2. DOMAIN One(at, half) = {at}
      BY OneAt
    <3>3. QED
      BY <3>1, <3>2
  <2> HIDE DEF new
  <2>4. Moves(v.regs, One(at, half), new.regs)
    BY <2>2, <2>3, MovesNothing
  <2>5. QED
    BY <2>2, <2>4 DEF WholeVip, new
<1>4. QED
  BY <1>2, <1>3

LEMMA Vip8Moves ==
  ASSUME NEW v, WholeVip(v), NEW addr \in Nat, NEW source
  PROVE  LET at == addr % VIP_LEN
         IN  /\ WholeVip(VipWriteU8(v, addr, source))
             /\ Moves(v.regs, One(Even(at), StoredHalf(at, source)), VipWriteU8(v, addr, source).regs)
<1> DEFINE at == addr % VIP_LEN
           half == StoredHalf(at, source)
           new == VipWriteU8(v, addr, source)
<1>1. CASE Resolve(addr) = Register(at)
  <2>1. Resolve(addr).kind = "register" /\ Resolve(addr).at = at
    BY <1>1 DEF Register
  <2> DEFINE after == WriteRegister(v.regs, Even(at), half)
  <2>2. new = [v EXCEPT !.regs = after]
    BY <2>1 DEF VipWriteU8
  <2>3. IsRegisters(after) /\ Moves(v.regs, One(Even(at), half), after)
    BY WriteRegisterMoves DEF WholeVip
  <2> HIDE DEF after, new
  <2>4. IsVip(new) /\ new.regs = after
    BY <2>2, VipUpdated DEF WholeVip
  <2>5. QED
    BY <2>3, <2>4 DEF WholeVip, new
<1>2. CASE Resolve(addr) # Register(at)
  <2>1. /\ Resolve(addr).kind \in {"vram", "unmapped"} /\ at \in Int /\ at >= 0
        /\ at < 385024 \/ at > 393215
    BY <1>2, Resolved
  <2>2. IsVip(new) /\ new.regs = v.regs
    <3>1. CASE Resolve(addr).kind = "vram"
      <4> DEFINE after == Poke(v.vram, Resolve(addr).at, LowByte(source))
      <4>1. new = [v EXCEPT !.vram = after]
        BY <3>1 DEF VipWriteU8
      <4> HIDE DEF after, new
      <4>2. QED
        BY <4>1, VipUpdated DEF WholeVip
    <3>2. CASE Resolve(addr).kind = "unmapped"
      <4>1. new = v
        BY <3>2 DEF VipWriteU8
      <4>2. QED
        BY <4>1 DEF WholeVip
    <3>3. QED
      BY <2>1, <3>1, <3>2
  <2>3. DOMAIN One(Even(at), half) \cap Telling = {}
    <3>1. Even(at) \in Int /\ (Even(at) < 385024 \/ Even(at) > 393213)
      BY <2>1 DEF Even
    <3>2. Even(at) \notin Telling
      BY <3>1, RegisterAddresses, SMT DEF Telling
    <3>3. DOMAIN One(Even(at), half) = {Even(at)}
      BY OneAt
    <3>4. QED
      BY <3>2, <3>3
  <2> HIDE DEF new
  <2>4. Moves(v.regs, One(Even(at), half), new.regs)
    BY <2>2, <2>3, MovesNothing
  <2>5. QED
    BY <2>2, <2>4 DEF WholeVip, new
<1>3. QED
  BY <1>1, <1>2

LEMMA Vip32Moves ==
  ASSUME NEW v, WholeVip(v), NEW addr \in Nat, addr % 4 = 0, NEW word
  PROVE  /\ WholeVip(VipWriteU32(v, addr, word))
         /\ Moves(v.regs, Two(addr % VIP_LEN, word[1], word[2]), VipWriteU32(v, addr, word).regs)
<1> DEFINE at == addr % VIP_LEN
           second == VipWriteU16(v, addr, word[1])
           third == VipWriteU16(second, addr + 2, word[2])
<1>1. /\ at \in Int /\ at % 4 = 0 /\ (addr + 2) % VIP_LEN = at + 2
      /\ addr % 2 = 0 /\ addr + 2 \in Nat /\ (addr + 2) % 2 = 0
  BY VipLengths, SMT
<1>2. WholeVip(second) /\ Moves(v.regs, One(at, word[1]), second.regs)
  BY <1>1, Vip16Moves
<1> HIDE DEF second
<1>3. WholeVip(third) /\ Moves(second.regs, One((addr + 2) % VIP_LEN, word[2]), third.regs)
  BY <1>1, <1>2, Vip16Moves
<1>4. VipWriteU32(v, addr, word) = third
  BY DEF VipWriteU32, second
<1> HIDE DEF at, third
<1>5. Moves(v.regs, Two(at, word[1], word[2]), third.regs)
  BY <1>1, <1>2, <1>3, MovesTwo
<1>6. QED
  BY <1>3, <1>4, <1>5 DEF at
-----------------------------------------------------------------------------
(* A store to any address.                                                    *)

BusFields(vip, wram, sram, wait, posted) ==
  [vip |-> vip, wram |-> wram, sram |-> sram, wait |-> wait, posted |-> posted]
WholeBus(b) == IsBus(b) /\ WholeVip(b.vip)

\* What a store to an address of something else leaves alone.
Beside(b, new) == IsBus(new) /\ new.vip = b.vip

LEMMA BusUpdated ==
  ASSUME NEW b, IsBus(b), NEW new
  PROVE  /\ IsBus([b EXCEPT !.vip = new]) /\ [b EXCEPT !.vip = new].vip = new
         /\ Beside(b, [b EXCEPT !.wram = new]) /\ Beside(b, [b EXCEPT !.sram = new])
         /\ Beside(b, [b EXCEPT !.wait = new]) /\ Beside(b, [b EXCEPT !.posted = new])
<1> PICK vip, wram, sram, wait, posted : b = BusFields(vip, wram, sram, wait, posted)
  BY DEF IsBus, BusFields
<1>1. /\ [b EXCEPT !.vip = new]    = BusFields(new, wram, sram, wait, posted)
      /\ [b EXCEPT !.wram = new]   = BusFields(vip, new, sram, wait, posted)
      /\ [b EXCEPT !.sram = new]   = BusFields(vip, wram, new, wait, posted)
      /\ [b EXCEPT !.wait = new]   = BusFields(vip, wram, sram, new, posted)
      /\ [b EXCEPT !.posted = new] = BusFields(vip, wram, sram, wait, new)
  BY DEF BusFields
<1>2. \A v, w, x, y, z : IsBus(BusFields(v, w, x, y, z))
  BY Zenon DEF IsBus, BusFields
<1>3. \A v, w, x, y, z : BusFields(v, w, x, y, z).vip = v
  BY DEF BusFields
<1>4. QED
  BY <1>1, <1>2, <1>3 DEF Beside

LEMMA RegionIs ==
  ASSUME NEW addr \in Nat, addr < 134217728
  PROVE  Region(addr) = "Vip" <=> addr < 16777216
<1> DEFINE n == addr \div 16777216
<1>1. REGION_LEN = 16777216
  BY SMT DEF REGION_LEN
<1>2. n \in 0..7 /\ (n = 0 <=> addr < 16777216)
  BY SMT
<1>3. Region(addr) = REGIONS[n + 1]
  BY <1>1 DEF Region
<1> HIDE DEF n
<1>4. REGIONS[n + 1] = "Vip" <=> n = 0
  BY <1>2, SMT DEF REGIONS
<1>5. QED
  BY <1>2, <1>3, <1>4, SMT

LEMMA ByteBeside ==
  ASSUME NEW b, IsBus(b), NEW addr, Region(addr) # "Vip", NEW source
  PROVE  Beside(b, StoreU8(b, addr, source))
<1> DEFINE new == StoreU8(b, addr, source)
<1>1. CASE Region(addr) = "Wram"
  <2> DEFINE after == Poke(b.wram, addr % WRAM_LEN, LowByte(source))
  <2>1. new = [b EXCEPT !.wram = after]
    BY <1>1 DEF StoreU8
  <2> HIDE DEF after
  <2>2. QED
    BY <2>1, BusUpdated
<1>2. CASE Region(addr) = "CartRam"
  <2> DEFINE after == Poke(b.sram, addr % SRAM_LEN, LowByte(source))
  <2>1. new = IF SRAM_LEN = 0 THEN b ELSE [b EXCEPT !.sram = after]
    BY <1>2 DEF StoreU8, WriteSram
  <2> HIDE DEF after, new
  <2>2. Beside(b, [b EXCEPT !.sram = after])
    BY BusUpdated
  <2>3. CASE SRAM_LEN = 0
    <3>1. new = b
      BY <2>1, <2>3
    <3>2. QED
      BY <3>1 DEF Beside, new
  <2>4. CASE SRAM_LEN # 0
    BY <2>1, <2>2, <2>4 DEF new
  <2>5. QED
    BY <2>3, <2>4
<1>3. CASE Region(addr) = "Misc"
  <2> DEFINE byte == LowByte(source)
             letter == Append(b.posted, [at |-> addr % 64, byte |-> byte])
  <2>1. \/ new = [b EXCEPT !.posted = letter]
        \/ new = [b EXCEPT !.wait = WaitWrite(byte)]
        \/ new = b
    <3>1. new = WriteMisc(b, addr, byte)
      BY <1>3 DEF StoreU8
    <3> HIDE DEF new
    <3>2. CASE addr % 64 \in TimerRegister \cup PadRegister
      <4>1. addr % 64 # WaitRegister
        BY <3>2 DEF TimerRegister, PadRegister, WaitRegister
      <4>2. QED
        BY <3>1, <3>2, <4>1 DEF WriteMisc
    <3>3. CASE addr % 64 \notin TimerRegister \cup PadRegister
      BY <3>1, <3>3 DEF WriteMisc
    <3>4. QED
      BY <3>2, <3>3
  <2> HIDE DEF byte, letter, new
  <2>2. Beside(b, [b EXCEPT !.posted = letter]) /\ Beside(b, [b EXCEPT !.wait = WaitWrite(byte)])
    BY BusUpdated
  <2>3. Beside(b, b)
    BY DEF Beside
  <2>4. QED
    BY <2>1, <2>2, <2>3 DEF new
<1>4. CASE Region(addr) \notin {"Wram", "CartRam", "Misc"}
  <2>1. new = b
    BY <1>4 DEF StoreU8
  <2>2. QED
    BY <2>1 DEF Beside
<1>5. QED
  BY <1>1, <1>2, <1>3, <1>4

\* The halfword and the word of an address are where the address is.
LEMMA Aligned ==
  ASSUME NEW addr \in Nat, addr < 134217728
  PROVE  /\ Even(addr) \in Nat /\ Even(addr) < 134217727 /\ Even(addr) % 2 = 0
         /\ AlignedDown(addr) \in Nat /\ AlignedDown(addr) < 134217725 /\ AlignedDown(addr) % 4 = 0
         /\ Even(addr) < 16777216 <=> addr < 16777216
         /\ AlignedDown(addr) < 16777216 <=> addr < 16777216
  BY SMT DEF Even, AlignedDown

LEMMA HalfBeside ==
  ASSUME NEW b, IsBus(b), NEW addr \in Nat, addr < 134217728, addr >= 16777216, NEW half
  PROVE  Beside(b, WriteU16(b, addr, half))
<1> DEFINE at == Even(addr)
           low == LowByte(half)
           high == HighByte(half)
           first == StoreU8(b, at, low)
           second == StoreU8(first, at + 1, high)
<1>1. at \in Nat /\ at + 1 \in Nat /\ at + 1 < 134217728 /\ at >= 16777216
  BY Aligned, SMT
<1> HIDE DEF at, low, high
<1>2. Region(at) # "Vip" /\ Region(at + 1) # "Vip"
  BY <1>1, RegionIs, SMT
<1>3. Beside(b, first)
  BY <1>2, ByteBeside
<1> HIDE DEF first
<1>4. Beside(first, second)
  BY <1>2, <1>3, ByteBeside DEF Beside
<1>5. WriteU16(b, addr, half) \in {b, second}
  BY <1>2 DEF WriteU16, WriteU8, first, at, low, high
<1> HIDE DEF second
<1>6. QED
  BY <1>3, <1>4, <1>5 DEF Beside

LEMMA WordBeside ==
  ASSUME NEW b, IsBus(b), NEW addr \in Nat, addr < 134217728, addr >= 16777216, NEW word
  PROVE  Beside(b, WriteU32(b, addr, word))
<1> DEFINE at == AlignedDown(addr)
           first == WriteU16(b, at, word[1])
           second == WriteU16(first, at + 2, word[2])
<1>1. /\ at \in Nat /\ at < 134217728 /\ at >= 16777216
      /\ at + 2 \in Nat /\ at + 2 < 134217728 /\ at + 2 >= 16777216
  BY Aligned, SMT
<1> HIDE DEF at
<1>2. Region(at) # "Vip"
  BY <1>1, RegionIs, SMT
<1>3. Beside(b, first)
  BY <1>1, HalfBeside, SMT
<1> HIDE DEF first
<1>4. Beside(first, second)
  BY <1>1, <1>3, HalfBeside, SMT DEF Beside
<1>5. WriteU32(b, addr, word) \in {b, second}
  BY <1>2 DEF WriteU32, first, at
<1> HIDE DEF second
<1>6. QED
  BY <1>3, <1>4, <1>5 DEF Beside
-----------------------------------------------------------------------------
(* What an instruction stores, and what the flags are told.                   *)

RegsTyped == \A r \in DOMAIN regs : regs[r] \in Word

LEMMA RegIsWord ==
  ASSUME RegsTyped, NEW number
  PROVE  Reg(number) \in Word /\ Reg(number)[1] \in Half /\ Reg(number)[2] \in Half
<1>1. <<0, 0>> \in Word
  BY HalfIs DEF Word
<1>2. Reg(number) \in Word
  BY <1>1 DEF Reg, RegOf, RegsTyped
<1>3. QED
  BY <1>2 DEF Word

LEMMA AddressIs ==
  ASSUME RegsTyped, NEW i, i.imm \in Int
  PROVE  EffectiveAddress(i) \in Nat /\ EffectiveAddress(i) < 134217728
<1> DEFINE base == Reg(i.reg1)
           sum == base[1] + 2^16 * (base[2] % 2^11) + i.imm
<1>1. base[1] \in Int /\ base[2] \in Int
  BY RegIsWord, HalfIs
<1>2. 2^16 = 65536 /\ 2^11 = 2048 /\ ADDRESS_LEN = 134217728
  BY SMT DEF ADDRESS_LEN
<1>3. sum \in Int
  BY <1>1, <1>2
<1>4. EffectiveAddress(i) = sum % 134217728
  BY <1>2 DEF EffectiveAddress, AddressFrom, Reg
<1> HIDE DEF sum
<1>5. QED
  BY <1>3, <1>4, SMT

LEMMA AccessesAreLegal ==
  ASSUME FetchedTyped, fetched # Nothing, Fetched(fetched).op \in Accesses
  PROVE  Fetched(fetched).imm \in Int
<1> DEFINE i == Fetched(fetched)
<1>1. fetched \in Word
  BY DEF FetchedTyped
<1>2. i.op \notin Illegal
  BY DEF Accesses, Loads, Stores, Illegal
<1>3. i.imm \in ImmediateRange(i)
  BY <1>1, <1>2, Keeping DEF Keeps
<1> HIDE DEF i
<1>4. (\A bits : Signed(bits) \subseteq Int) /\ {0} \subseteq Int
  BY DEF Signed
<1>5. i.op \in Accesses
  BY DEF i
<1>6. ImmediateRange(i) \in {Signed(9), Signed(26), Signed(16), {0}}
  <2>1. /\ i.op \notin {"Movea", "Addi"} /\ i.op \notin {"Ori", "Andi", "Xori", "Movhi"}
        /\ i.op \notin {"MovImm", "AddImm", "CmpImm"}
        /\ i.op \notin {"ShlImm", "ShrImm", "SarImm", "Setf", "Trap", "Ldsr", "Stsr"}
    BY <1>5 DEF Accesses, Loads, Stores
  <2>2. ImmediateRange(i) = CASE i.format = "III" -> Signed(9)
                              [] i.format = "IV"  -> Signed(26)
                              [] i.format = "VI"  -> Signed(16)
                              [] OTHER -> {0}
    <3>1. CASE i.format = "III"
      BY <2>1, <3>1 DEF ImmediateRange
    <3>2. CASE i.format = "IV"
      BY <2>1, <3>2 DEF ImmediateRange
    <3>3. CASE i.format = "VI"
      BY <2>1, <3>3 DEF ImmediateRange
    <3>4. CASE i.format \notin {"III", "IV", "VI"}
      BY <2>1, <3>4 DEF ImmediateRange
    <3>5. QED
      BY <3>1, <3>2, <3>3, <3>4
  <2>3. QED
    BY <2>2
<1>7. ImmediateRange(i) \subseteq Int
  BY <1>4, <1>6
<1>8. QED
  BY <1>3, <1>7 DEF i

\* What is left of the video processor by an instruction that writes, and what
\* its flags were told.
Told(i, b) == WholeBus(b) /\ Moves(bus.vip.regs, Given(i), b.vip.regs)

LEMMA BesideTold ==
  ASSUME NEW b, WholeBus(bus), Beside(bus, b), NEW i,
         i.op \notin Stores \cup {"Caxi"} \/ Region(EffectiveAddress(i)) # "Vip"
  PROVE  Told(i, b)
<1>1. Given(i) = <<>>
  BY DEF Given
<1>2. DOMAIN Given(i) \cap Telling = {}
  BY <1>1
<1>3. b.vip = bus.vip
  BY DEF Beside
<1>4. Moves(bus.vip.regs, Given(i), b.vip.regs)
  BY <1>2, <1>3, MovesNothing
<1>5. QED
  BY <1>3, <1>4 DEF Told, WholeBus, Beside
LEMMA GivenOne ==
  ASSUME NEW i, i.op \in Stores, Region(EffectiveAddress(i)) = "Vip"
  PROVE  LET at   == EffectiveAddress(i) % VIP_LEN
             word == Reg(i.reg2)
         IN  /\ Size(i.op) = 1 =>
                  Given(i) = One(Even(at), IF at % 2 = 0 THEN word[1] ELSE LowByte(word[1]) * 2^8)
             /\ Size(i.op) = 2 => Given(i) = One(Even(at), word[1])
  BY DEF Given, One

LEMMA GivenTwo ==
  ASSUME NEW i, i.op \in Stores \cup {"Caxi"}, Region(EffectiveAddress(i)) = "Vip", Size(i.op) = 4
  PROVE  LET at   == EffectiveAddress(i) % VIP_LEN
             word == IF i.op = "Caxi"
                     THEN CaxiWrites(ReadU32(bus, EffectiveAddress(i)), Reg(i.reg2), Reg(30))
                     ELSE Reg(i.reg2)
         IN  Given(i) = Two(at - (at % 4), word[1], word[2])
  BY DEF Given, Two

LEMMA ByteTold ==
  ASSUME RegsTyped, WholeBus(bus), NEW i, i.imm \in Int, i.op \in {"StB", "OutB"}
  PROVE  Told(i, StoreU8(bus, EffectiveAddress(i), Reg(i.reg2)[1]))
<1> DEFINE addr == EffectiveAddress(i)
           source == Reg(i.reg2)[1]
           b == StoreU8(bus, addr, source)
           at == addr % VIP_LEN
           vip == VipWriteU8(bus.vip, addr, source)
<1>1. addr \in Nat
  BY AddressIs
<1>2. source \in Int
  BY RegIsWord, HalfIs
<1>3. CASE Region(addr) # "Vip"
  BY <1>3, ByteBeside, BesideTold DEF WholeBus
<1>4. CASE Region(addr) = "Vip"
  <2>1. b = [bus EXCEPT !.vip = vip]
    BY <1>4 DEF StoreU8
  <2>2. WholeVip(vip) /\ Moves(bus.vip.regs, One(Even(at), StoredHalf(at, source)), vip.regs)
    BY <1>1, Vip8Moves DEF WholeBus
  <2> HIDE DEF b, vip
  <2>3. IsBus(b) /\ b.vip = vip
    BY <2>1, BusUpdated DEF WholeBus
  <2>4. Given(i) = One(Even(at), IF at % 2 = 0 THEN source ELSE LowByte(source) * 2^8)
    <3>1. Size(i.op) = 1 /\ i.op \in Stores
      BY DEF Size, Stores
    <3>2. QED
      BY <1>4, <3>1, GivenOne
  <2> HIDE DEF source, at
  <2>5. StoredHalf(at, source) = IF at % 2 = 0 THEN source ELSE LowByte(source) * 2^8
    BY <1>2 DEF StoredHalf, Halfword, LowByte
  <2>6. Given(i) = One(Even(at), StoredHalf(at, source))
    BY <2>4, <2>5
  <2>7. QED
    BY <2>2, <2>3, <2>6 DEF Told, WholeBus, b, source
<1>5. QED
  BY <1>3, <1>4

LEMMA HalfTold ==
  ASSUME RegsTyped, WholeBus(bus), NEW i, i.imm \in Int, i.op \in {"StH", "OutH"}
  PROVE  Told(i, WriteU16(bus, EffectiveAddress(i), Reg(i.reg2)[1]))
<1> DEFINE addr == EffectiveAddress(i)
           half == Reg(i.reg2)[1]
           b == WriteU16(bus, addr, half)
           down == Even(addr)
           vip == VipWriteU16(bus.vip, down, half)
<1>1. addr \in Nat /\ addr < 134217728
  BY AddressIs
<1>2. Region(addr) = "Vip" <=> addr < 16777216
  BY <1>1, RegionIs
<1>3. CASE Region(addr) # "Vip"
  <2>1. addr >= 16777216
    BY <1>1, <1>2, <1>3, SMT
  <2>2. Beside(bus, b)
    BY <1>1, <2>1, HalfBeside DEF WholeBus
  <2>3. QED
    BY <1>3, <2>2, BesideTold
<1>4. CASE Region(addr) = "Vip"
  <2>1. down \in Nat /\ down % 2 = 0 /\ Region(down) = "Vip"
    BY <1>1, <1>2, <1>4, Aligned, RegionIs, SMT
  <2>2. b = [bus EXCEPT !.vip = vip]
    BY <2>1 DEF WriteU16, IsMemory
  <2>3. WholeVip(vip) /\ Moves(bus.vip.regs, One(down % VIP_LEN, half), vip.regs)
    BY <2>1, Vip16Moves DEF WholeBus
  <2> HIDE DEF b, vip
  <2>4. IsBus(b) /\ b.vip = vip
    BY <2>2, BusUpdated DEF WholeBus
  <2>5. Given(i) = One(Even(addr % VIP_LEN), half)
    <3>1. Size(i.op) = 2 /\ i.op \in Stores
      BY DEF Size, Stores
    <3>2. QED
      BY <1>4, <3>1, GivenOne
  <2>6. Even(addr % VIP_LEN) = down % VIP_LEN
    BY <1>1, VipLengths, SMT DEF Even
  <2> HIDE DEF down, half
  <2>7. QED
    BY <2>3, <2>4, <2>5, <2>6 DEF Told, WholeBus, b, half
<1>5. QED
  BY <1>3, <1>4

\* A word is stored, or exchanged.
LEMMA WordTold ==
  ASSUME RegsTyped, WholeBus(bus), NEW i, i.imm \in Int, i.op \in {"StW", "OutW", "Caxi"},
         NEW word,
         word = IF i.op = "Caxi"
                THEN CaxiWrites(ReadU32(bus, EffectiveAddress(i)), Reg(i.reg2), Reg(30))
                ELSE Reg(i.reg2)
  PROVE  Told(i, WriteU32(bus, EffectiveAddress(i), word))
<1> DEFINE addr == EffectiveAddress(i)
           b == WriteU32(bus, addr, word)
           down == AlignedDown(addr)
           at == addr % VIP_LEN
           vip == VipWriteU32(bus.vip, down, word)
<1>1. addr \in Nat /\ addr < 134217728
  BY AddressIs
<1>2. Region(addr) = "Vip" <=> addr < 16777216
  BY <1>1, RegionIs
<1>3. CASE Region(addr) # "Vip"
  <2>1. addr >= 16777216
    BY <1>1, <1>2, <1>3, SMT
  <2>2. Beside(bus, b)
    BY <1>1, <2>1, WordBeside DEF WholeBus
  <2>3. QED
    BY <1>3, <2>2, BesideTold
<1>4. CASE Region(addr) = "Vip"
  <2>1. down \in Nat /\ down % 4 = 0 /\ Region(down) = "Vip"
    BY <1>1, <1>2, <1>4, Aligned, RegionIs, SMT
  <2>2. b = [bus EXCEPT !.vip = vip]
    BY <2>1 DEF WriteU32, IsMemory
  <2>3. WholeVip(vip) /\ Moves(bus.vip.regs, Two(down % VIP_LEN, word[1], word[2]), vip.regs)
    BY <2>1, Vip32Moves DEF WholeBus
  <2> HIDE DEF b, vip
  <2>4. IsBus(b) /\ b.vip = vip
    BY <2>2, BusUpdated DEF WholeBus
  <2>5. Given(i) = Two(at - (at % 4), word[1], word[2])
    <3>1. Size(i.op) = 4 /\ i.op \in Stores \cup {"Caxi"}
      BY DEF Size, Stores
    <3>2. QED
      BY <1>4, <3>1, GivenTwo
  <2>6. at - (at % 4) = down % VIP_LEN
    BY <1>1, VipLengths, SMT DEF AlignedDown
  <2> HIDE DEF down, at
  <2>7. QED
    BY <2>3, <2>4, <2>5, <2>6 DEF Told, WholeBus, b
<1>5. QED
  BY <1>3, <1>4
-----------------------------------------------------------------------------
(* Every step.                                                                *)

StoreIInv == FetchedTyped /\ (fetched # Nothing => RegsTyped) /\ WholeBus(bus)

LEMMA StoreInitSound == Init => StoreIInv
<1> SUFFICES ASSUME Init PROVE StoreIInv
  OBVIOUS
<1>1. FetchedTyped
  BY LoadStoreAssumption DEF Init, FetchedTyped
<1>2. RegsTyped
  BY DEF Init, NoRegs, RegsTyped
<1>3. WholeVip(VipFields(Empty, NewRegisters))
  <2> DEFINE settings == [addr \in Setting |-> 0]
  <2>1. NewRegisters = Fields({}, {}, {}, FALSE, 0, settings)
    BY Zenon DEF NewRegisters, Fields
  <2> HIDE DEF settings
  <2>2. IsRegisters(NewRegisters)
    BY <2>1, FieldsOf
  <2>3. IsVip(VipFields(Empty, NewRegisters))
    BY Zenon DEF IsVip, VipFields
  <2>4. VipFields(Empty, NewRegisters).regs = NewRegisters
    BY DEF VipFields
  <2>5. QED
    BY <2>2, <2>3, <2>4 DEF WholeVip
<1>4. NewBus = BusFields(VipFields(Empty, NewRegisters), Empty, Empty, {}, <<>>)
  BY Zenon DEF NewBus, BusFields, VipFields
<1>5. IsBus(NewBus) /\ NewBus.vip = VipFields(Empty, NewRegisters)
  <2>1. IsBus(NewBus)
    BY <1>4, Zenon DEF IsBus, BusFields
  <2>2. QED
    BY <1>4, <2>1 DEF BusFields
<1>6. WholeBus(NewBus)
  BY <1>3, <1>5 DEF WholeBus
<1>7. ASSUME NEW vram
      PROVE  WholeBus([NewBus EXCEPT !.vip.vram = vram])
  <2> DEFINE vip == [NewBus.vip EXCEPT !.vram = vram]
  <2>1. IsVip(vip) /\ vip.regs = NewBus.vip.regs
    BY <1>6, VipUpdated DEF WholeBus, WholeVip
  <2>2. [NewBus EXCEPT !.vip.vram = vram] = [NewBus EXCEPT !.vip = vip]
    OBVIOUS
  <2> HIDE DEF vip
  <2>3. IsBus([NewBus EXCEPT !.vip = vip]) /\ [NewBus EXCEPT !.vip = vip].vip = vip
    BY <1>5, BusUpdated
  <2>4. QED
    BY <1>6, <2>1, <2>2, <2>3 DEF WholeBus, WholeVip
<1>8. WholeBus(bus)
  BY <1>6, <1>7 DEF Init
<1>9. QED
  BY <1>1, <1>2, <1>8 DEF StoreIInv

LEMMA SameBeside ==
  ASSUME NEW b, WholeBus(b)
  PROVE  Beside(b, b)
  BY DEF Beside, WholeBus

LEMMA ExecuteTold ==
  ASSUME StoreIInv, Execute
  PROVE  Told(Fetched(fetched), bus')
<1> DEFINE i == Fetched(fetched)
<1>1. /\ RegsTyped /\ WholeBus(bus) /\ FetchedTyped /\ fetched # Nothing
      /\ Load(i) \/ Store(i) \/ Caxi(i) \/ Swap(i) \/ Other(i) \/ IllegalInstruction(i)
  BY DEF Execute, StoreIInv
<1>2. i.op \in Stores \cup {"Caxi"} => i.imm \in Int
  BY <1>1, AccessesAreLegal DEF Accesses
<1> HIDE DEF i
<1>3. CASE bus' = bus /\ i.op \notin Stores \cup {"Caxi"}
  <2>1. Beside(bus, bus')
    BY <1>1, <1>3, SameBeside
  <2>2. Told(i, bus')
    BY <1>1, <1>3, <2>1, BesideTold
  <2>3. QED
    BY <2>2 DEF i
<1>4. CASE Store(i)
  <2>1. i.op \in Stores /\ bus' = Stored(i.op, EffectiveAddress(i), Reg(i.reg2))
    BY <1>4 DEF Store
  <2>2. i.imm \in Int
    BY <1>2, <2>1
  <2>3. CASE i.op \in {"StB", "OutB"}
    <3>1. bus' = StoreU8(bus, EffectiveAddress(i), Reg(i.reg2)[1])
      BY <2>1, <2>3 DEF Stored
    <3>2. QED
      BY <1>1, <2>2, <2>3, <3>1, ByteTold DEF i
  <2>4. CASE i.op \in {"StH", "OutH"}
    <3>1. bus' = WriteU16(bus, EffectiveAddress(i), Reg(i.reg2)[1])
      BY <2>1, <2>4 DEF Stored
    <3>2. QED
      BY <1>1, <2>2, <2>4, <3>1, HalfTold DEF i
  <2>5. CASE i.op \in {"StW", "OutW"}
    <3>1. bus' = WriteU32(bus, EffectiveAddress(i), Reg(i.reg2))
      BY <2>1, <2>5 DEF Stored
    <3>2. i.op # "Caxi"
      BY <2>5
    <3>3. QED
      BY <1>1, <2>2, <2>5, <3>1, <3>2, WordTold DEF i
  <2>6. QED
    BY <2>1, <2>3, <2>4, <2>5 DEF Stores
<1>5. CASE Caxi(i)
  <2> DEFINE word == CaxiWrites(ReadU32(bus, EffectiveAddress(i)), Reg(i.reg2), Reg(30))
  <2>1. i.op = "Caxi" /\ bus' = WriteU32(bus, EffectiveAddress(i), word)
    BY <1>5 DEF Caxi
  <2> HIDE DEF word
  <2>2. word = IF i.op = "Caxi"
               THEN CaxiWrites(ReadU32(bus, EffectiveAddress(i)), Reg(i.reg2), Reg(30))
               ELSE Reg(i.reg2)
    BY <2>1 DEF word
  <2>3. Told(i, WriteU32(bus, EffectiveAddress(i), word))
    BY <1>1, <1>2, <2>1, <2>2, WordTold
  <2>4. QED
    BY <2>1, <2>3 DEF i
<1>6. CASE Load(i) \/ Swap(i) \/ Other(i) \/ IllegalInstruction(i)
  <2>1. bus' = bus
    BY <1>6 DEF Load, Swap, Other, IllegalInstruction
  <2>2. i.op \notin Stores \cup {"Caxi"}
    BY <1>6 DEF Load, Swap, Other, IllegalInstruction, Loads, Swaps, Stores, Illegal
  <2>3. QED
    BY <1>3, <2>1, <2>2
<1>7. QED
  BY <1>1, <1>4, <1>5, <1>6

LEMMA BetweenKeeps ==
  ASSUME StoreIInv, Fetch \/ RaiseVip
  PROVE  /\ WholeBus(bus') /\ fetched = Nothing
         /\ bus.vip.regs.pending \subseteq bus'.vip.regs.pending
         /\ bus'.vip.regs.enabled = bus.vip.regs.enabled
<1>1. WholeBus(bus)
  BY DEF StoreIInv
<1>2. CASE Fetch
  <2>1. bus' = [bus EXCEPT !.posted = <<>>] /\ fetched = Nothing
    BY <1>2 DEF Fetch
  <2>2. Beside(bus, [bus EXCEPT !.posted = <<>>])
    BY <1>1, BusUpdated DEF WholeBus
  <2>3. Beside(bus, bus')
    BY <2>1, <2>2
  <2>4. QED
    BY <1>1, <2>1, <2>3 DEF Beside, WholeBus
<1>3. CASE RaiseVip
  <2>1. PICK flags \in RaiseSets : bus' = [bus EXCEPT !.vip.regs = Raise(@, flags)]
    BY <1>3 DEF RaiseVip
  <2> DEFINE more == bus.vip.regs.pending \cup (flags \cap INT_MASK)
             raised == [bus.vip.regs EXCEPT !.pending = more]
             vip == [bus.vip EXCEPT !.regs = raised]
  <2>2. bus' = [bus EXCEPT !.vip = vip]
    BY <2>1 DEF Raise
  <2>3. bus.vip.regs.pending \subseteq more
    OBVIOUS
  <2> HIDE DEF more
  <2>4. IsRegisters(raised) /\ raised.pending = more /\ raised.enabled = bus.vip.regs.enabled
    BY <1>1, PendingWhole DEF WholeBus, WholeVip
  <2> HIDE DEF raised
  <2>5. IsVip(vip) /\ vip.regs = raised
    BY <1>1, VipUpdated DEF WholeBus, WholeVip
  <2> HIDE DEF vip
  <2>6. IsBus([bus EXCEPT !.vip = vip]) /\ [bus EXCEPT !.vip = vip].vip = vip
    BY <1>1, BusUpdated DEF WholeBus
  <2>7. fetched = Nothing
    BY <1>3 DEF RaiseVip
  <2>8. IsBus(bus') /\ bus'.vip = vip
    BY <2>2, <2>6
  <2>9. QED
    BY <2>3, <2>4, <2>5, <2>7, <2>8 DEF WholeBus, WholeVip
<1>4. QED
  BY <1>2, <1>3

LEMMA StoreNextSound == StoreIInv /\ [Next]_vars => StoreIInv'
<1> SUFFICES ASSUME StoreIInv, [Next]_vars
             PROVE  StoreIInv'
  OBVIOUS
<1>1. CASE Fetch
  <2>1. PICK step \in Program : fetched' = step.words /\ regs' = step.regs
    BY <1>1 DEF Fetch
  <2>2. fetched' \in Word /\ \A r \in DOMAIN regs' : regs'[r] \in Word
    BY <2>1, LoadStoreAssumption
  <2>3. WholeBus(bus')
    BY <1>1, BetweenKeeps
  <2>4. QED
    BY <2>2, <2>3 DEF StoreIInv, FetchedTyped, RegsTyped
<1>2. CASE Execute
  <2>1. WholeBus(bus')
    BY <1>2, ExecuteTold DEF Told
  <2>2. fetched' = Nothing
    BY <1>2 DEF Execute
  <2>3. QED
    BY <2>1, <2>2 DEF StoreIInv, FetchedTyped
<1>3. CASE RaiseVip
  <2>1. WholeBus(bus')
    BY <1>3, BetweenKeeps
  <2>2. fetched' = Nothing
    BY <1>3 DEF RaiseVip
  <2>3. QED
    BY <2>1, <2>2 DEF StoreIInv, FetchedTyped
<1>4. CASE UNCHANGED vars
  BY <1>4 DEF vars, StoreIInv, FetchedTyped, RegsTyped, WholeBus
<1>5. QED
  BY <1>1, <1>2, <1>3, <1>4 DEF Next

LEMMA StoreInvariant == Spec => []StoreIInv
<1>1. QED
  BY StoreInitSound, StoreNextSound, PTL DEF Spec
\* What FlagsGoAsAsked says of one step.
FlagsStep ==
  LET pending == bus.vip.regs.pending
      enabled == bus.vip.regs.enabled
      ResetOf(flag) == \/ Handles(DPCTRL, DPRST) /\ flag \in Display
                       \/ Handles(XPCTRL, XPRST) /\ flag \in Drawing
  IN  /\ fetched # Nothing =>
           \A flag \in INT_MASK :
              /\ flag \in pending' <=> /\ flag \in pending
                                       /\ ~Handles(INTCLR, flag)
                                       /\ ~ResetOf(flag)
              /\ flag \in enabled' <=>
                   IF INTENB \in DOMAIN Handed THEN Handles(INTENB, flag)
                   ELSE flag \in enabled /\ ~ResetOf(flag)
      /\ fetched = Nothing => pending \subseteq pending' /\ enabled' = enabled

LEMMA FlagsStepSound == StoreIInv /\ [Next]_vars => [FlagsStep]_vars
<1> SUFFICES ASSUME StoreIInv, Next
             PROVE  FlagsStep
  OBVIOUS
<1>1. CASE Execute
  <2>1. fetched # Nothing /\ Handed = Given(Fetched(fetched))
    BY <1>1 DEF Execute, Handed
  <2>2. Moves(bus.vip.regs, Handed, bus'.vip.regs)
    BY <1>1, <2>1, ExecuteTold DEF Told
  <2>3. \A register, flag : Handles(register, flag) <=> Hands(Handed, register, flag)
    BY DEF Handles, Hands
  <2> HIDE DEF Handed
  <2>4. \A flag \in INT_MASK :
           /\ flag \in bus'.vip.regs.pending <=>
                /\ flag \in bus.vip.regs.pending
                /\ ~Handles(INTCLR, flag)
                /\ ~(\/ Handles(DPCTRL, DPRST) /\ flag \in Display
                     \/ Handles(XPCTRL, XPRST) /\ flag \in Drawing)
           /\ flag \in bus'.vip.regs.enabled <=>
                IF INTENB \in DOMAIN Handed THEN Handles(INTENB, flag)
                ELSE /\ flag \in bus.vip.regs.enabled
                     /\ ~(\/ Handles(DPCTRL, DPRST) /\ flag \in Display
                          \/ Handles(XPCTRL, XPRST) /\ flag \in Drawing)
    BY <2>2, <2>3, Zenon DEF Moves, Resets
  <2>5. QED
    BY <2>1, <2>4, Zenon DEF FlagsStep
<1>2. CASE Fetch \/ RaiseVip
  BY <1>2, BetweenKeeps, Zenon DEF FlagsStep
<1>3. QED
  BY <1>1, <1>2 DEF Next

\* Whatever programs store and whatever the video processor raises between, an
\* interrupt flag goes only when it is cleared or its unit reset, and a mask
\* only when the enables are written or its unit reset: at every width and
\* every address, to a register or beside one.
THEOREM FlagsMoveAsAsked == Spec => FlagsGoAsAsked
<1>1. StoreIInv /\ [Next]_vars => [FlagsStep]_vars
  BY FlagsStepSound
<1>2. Spec => [][FlagsStep]_vars
  BY <1>1, StoreInvariant, PTL DEF Spec
<1>3. QED
  BY <1>2, PTL DEF FlagsGoAsAsked, FlagsStep

-----------------------------------------------------------------------------
(* What memories and registers hold.                                          *)

\* The number of any set of bits is a halfword.
LEMMA NumberIs ==
  ASSUME NEW bits
  PROVE  /\ Number(bits) \in Half
         /\ bits \subseteq {0, 1} => Number(bits) <= 3
<1> DEFINE Worth(i) == IF i \in bits THEN 2^i ELSE 0
           low  == Worth(0) + Worth(1) + Worth(2) + Worth(3) + Worth(4) + Worth(5) + Worth(6) + Worth(7)
           high == Worth(8) + Worth(9) + Worth(10) + Worth(11) + Worth(12) + Worth(13)
                     + Worth(14) + Worth(15)
           IsUpTo(worth, most) == worth \in Int /\ 0 <= worth /\ worth <= most
<1>1. /\ IsUpTo(Worth(0), 1) /\ IsUpTo(Worth(1), 2) /\ IsUpTo(Worth(2), 4) /\ IsUpTo(Worth(3), 8)
      /\ IsUpTo(Worth(4), 16) /\ IsUpTo(Worth(5), 32) /\ IsUpTo(Worth(6), 64) /\ IsUpTo(Worth(7), 128)
  BY SMT
<1>2. /\ IsUpTo(Worth(8), 256) /\ IsUpTo(Worth(9), 512) /\ IsUpTo(Worth(10), 1024)
      /\ IsUpTo(Worth(11), 2048) /\ IsUpTo(Worth(12), 4096) /\ IsUpTo(Worth(13), 8192)
      /\ IsUpTo(Worth(14), 16384) /\ IsUpTo(Worth(15), 32768)
  BY SMT
<1>3. ASSUME bits \subseteq {0, 1}
      PROVE  \A i \in 2..15 : Worth(i) = 0
  BY <1>3
<1>4. Number(bits) = Worth(0) + Worth(1) + Worth(2) + Worth(3) + Worth(4) + Worth(5) + Worth(6) + Worth(7)
                       + Worth(8) + Worth(9) + Worth(10) + Worth(11) + Worth(12) + Worth(13)
                       + Worth(14) + Worth(15)
  BY Zenon DEF Number
<1> HIDE DEF Worth
<1>5. IsUpTo(low, 255)
  BY <1>1, SMT
<1>6. IsUpTo(high, 65280)
  BY <1>2, SMT
<1>7. Number(bits) = low + high
  BY <1>1, <1>2, <1>4, SMT
<1>8. ASSUME bits \subseteq {0, 1}
      PROVE  low <= 3 /\ high = 0
  BY <1>1, <1>3, <1>8, SMT
<1> HIDE DEF low, high
<1>9. Number(bits) \in Int /\ Number(bits) >= 0 /\ Number(bits) < 65536
  BY <1>5, <1>6, <1>7, SMT
<1>10. bits \subseteq {0, 1} => Number(bits) <= 3
  BY <1>5, <1>7, <1>8, SMT
<1>11. QED
  BY <1>9, <1>10, HalfIs

LEMMA ByteIs == \A w : w \in Byte <=> w \in Int /\ w >= 0 /\ w < 256
  BY SMT DEF Byte

\* The bytes of a halfword.
LEMMA BytesAre ==
  ASSUME NEW half \in Half
  PROVE  /\ LowByte(half) \in Byte /\ HighByte(half) \in Byte
         /\ half = Halfword(LowByte(half), HighByte(half))
<1>1. half \in Int /\ half >= 0 /\ half < 65536
  BY HalfIs
<1>2. /\ LowByte(half) \in Int /\ LowByte(half) >= 0 /\ LowByte(half) < 256
      /\ HighByte(half) \in Int /\ HighByte(half) >= 0 /\ HighByte(half) < 256
      /\ half = Halfword(LowByte(half), HighByte(half))
  BY <1>1, SMT DEF LowByte, HighByte, Halfword
<1>3. QED
  BY <1>2, ByteIs

LEMMA HalfwordIs ==
  ASSUME NEW low \in Byte, NEW high \in Byte
  PROVE  /\ Halfword(low, high) \in Half
         /\ LowByte(Halfword(low, high)) = low /\ HighByte(Halfword(low, high)) = high
<1>1. low \in Int /\ low >= 0 /\ low < 256 /\ high \in Int /\ high >= 0 /\ high < 256
  BY ByteIs
<1>2. /\ Halfword(low, high) \in Int /\ Halfword(low, high) >= 0 /\ Halfword(low, high) < 65536
      /\ LowByte(Halfword(low, high)) = low /\ HighByte(Halfword(low, high)) = high
  BY <1>1, SMT DEF LowByte, HighByte, Halfword
<1>3. QED
  BY <1>2, HalfIs

LEMMA ByteIsHalf == 0 \in Byte /\ 0 \in Half /\ \A byte \in Byte : byte \in Half /\ LowByte(byte) = byte
  BY HalfIs, ByteIs, SMT DEF LowByte

HoldsBytes(cells) == \A at \in DOMAIN cells : cells[at] \in Byte

LEMMA Peeked ==
  ASSUME NEW cells, HoldsBytes(cells), NEW at
  PROVE  Peek(cells, at) \in Byte
  BY ByteIsHalf DEF Peek, HoldsBytes

LEMMA Poked ==
  ASSUME NEW cells, NEW at, NEW byte
  PROVE  /\ \A k : Peek(Poke(cells, at, byte), k) = IF k = at THEN byte ELSE Peek(cells, k)
         /\ HoldsBytes(cells) /\ byte \in Byte => HoldsBytes(Poke(cells, at, byte))
  BY DEF Peek, Poke, HoldsBytes

Settings == [Setting -> Half]

LEMMA KeptIs ==
  ASSUME NEW at \in Setting, NEW half \in Half
  PROVE  Kept(at, half) \in Half
<1>1. /\ half % 2^8 \in Half /\ half % 2^4 \in Half /\ half % 2^10 \in Half
      /\ (half % 2^8) - (half % 2^2) \in Half /\ half % 2^2 \in Half
  BY HalfIs, SMT
<1>2. /\ FRMCYC \notin Brightness \cup {REST} /\ BKCOL \notin Brightness \cup {REST}
      /\ BKCOL # FRMCYC /\ BKCOL \notin ObjectEnd /\ BKCOL \notin Palette
      /\ FRMCYC \notin ObjectEnd /\ FRMCYC \notin Palette
      /\ ObjectEnd \cap Palette = {}
      /\ ObjectEnd \cap (Brightness \cup {REST}) = {} /\ Palette \cap (Brightness \cup {REST}) = {}
  BY SMT DEF FRMCYC, Brightness, REST, BRTA, BRTB, BRTC, BKCOL, ObjectEnd, Palette
<1>3. CASE at \in Brightness \cup {REST}
  BY <1>1, <1>2, <1>3 DEF Kept
<1>4. CASE at = FRMCYC
  BY <1>1, <1>2, <1>4 DEF Kept
<1>5. CASE at \in ObjectEnd
  BY <1>1, <1>2, <1>5 DEF Kept
<1>6. CASE at \in Palette
  BY <1>1, <1>2, <1>6 DEF Kept
<1>7. CASE at = BKCOL
  BY <1>1, <1>2, <1>7 DEF Kept
<1>8. QED
  BY <1>3, <1>4, <1>5, <1>6, <1>7 DEF Setting

LEMMA RegisterRead ==
  ASSUME NEW r, r.settings \in Settings, NEW at
  PROVE  ReadRegister(r, at) \in Half
<1>1. \A bits : Number(bits) \in Half
  BY NumberIs
<1>2. VER_VALUE \in Half /\ 0 \in Half
  BY HalfIs DEF VER_VALUE
<1>3. at \in Setting => r.settings[at] \in Half
  BY DEF Settings
<1>4. \A drawing : Number(IF drawing THEN {XPEN} ELSE {}) \in Half
  BY <1>1
<1>5. /\ INTPND \notin Setting /\ INTENB \notin Setting /\ DPSTTS \notin Setting /\ XPSTTS \notin Setting
      /\ VER \notin Setting /\ INTPND # INTENB /\ INTPND # DPSTTS /\ INTPND # XPSTTS /\ INTPND # VER
      /\ INTENB # DPSTTS /\ INTENB # XPSTTS /\ INTENB # VER /\ DPSTTS # XPSTTS /\ DPSTTS # VER
      /\ XPSTTS # VER
  BY SMT DEF INTPND, INTENB, DPSTTS, XPSTTS, VER, Setting, Brightness, BRTA, BRTB, BRTC, REST, FRMCYC,
             ObjectEnd, Palette, BKCOL
<1>6. CASE at = INTPND
  BY <1>1, <1>5, <1>6 DEF ReadRegister
<1>7. CASE at = INTENB
  BY <1>1, <1>5, <1>7 DEF ReadRegister
<1>8. CASE at = DPSTTS
  BY <1>1, <1>5, <1>8 DEF ReadRegister
<1>9. CASE at = XPSTTS
  <2>1. ReadRegister(r, at) = Number(IF r.draw_enabled THEN {XPEN} ELSE {})
    BY <1>5, <1>9 DEF ReadRegister
  <2>2. QED
    BY <1>4, <2>1
<1>10. CASE at = VER
  BY <1>2, <1>5, <1>10 DEF ReadRegister
<1>11. CASE at \in Setting
  BY <1>3, <1>5, <1>11 DEF ReadRegister
<1>12. CASE at \notin Setting \cup {INTPND, INTENB, DPSTTS, XPSTTS, VER}
  BY <1>2, <1>12 DEF ReadRegister
<1>13. QED
  BY <1>6, <1>7, <1>8, <1>9, <1>10, <1>11, <1>12

\* What is written to a register leaves settings that are halfwords.
LEMMA RegisterWritten ==
  ASSUME NEW r, IsRegisters(r), r.settings \in Settings, NEW at, NEW half \in Half
  PROVE  WriteRegister(r, at, half).settings \in Settings
<1> DEFINE new == WriteRegister(r, at, half)
<1>1. CASE at = INTENB
  <2>1. new = [r EXCEPT !.enabled = Bits(half) \cap INT_MASK]
    BY <1>1, RegisterAddresses, SMT DEF WriteRegister
  <2> HIDE DEF new
  <2>2. new.settings = r.settings
    BY <2>1, EnabledWhole
  <2>3. QED
    BY <2>2 DEF new
<1>2. CASE at = INTCLR
  <2>1. new = [r EXCEPT !.pending = r.pending \ Bits(half)]
    BY <1>2, RegisterAddresses, SMT DEF WriteRegister
  <2> HIDE DEF new
  <2>2. new.settings = r.settings
    BY <2>1, PendingWhole
  <2>3. QED
    BY <2>2 DEF new
<1>3. CASE at = DPCTRL
  <2> DEFINE written == [r EXCEPT !.display = Bits(half) \cap {LOCK, SYNCE, RE, DISP}]
  <2>1. new = IF DPRST \in Bits(half) THEN Without(written, DPRST_CLEARS) ELSE written
    BY <1>3, RegisterAddresses, SMT DEF WriteRegister, WriteDisplay
  <2>2. IsRegisters(written) /\ written.settings = r.settings
    BY DisplayWhole
  <2> HIDE DEF new, written
  <2>3. new.settings = r.settings
    BY <2>1, <2>2, WithoutWhole
  <2>4. QED
    BY <2>3 DEF new
<1>4. CASE at = XPCTRL
  <2> DEFINE group == (half \div 2^8) % 2^5
             drawing == XPEN \in Bits(half) /\ XPRST \notin Bits(half)
             written == Redrawn(r, group, drawing)
  <2>1. new = IF XPRST \in Bits(half) THEN Without(written, XPRST_CLEARS) ELSE written
    BY <1>4, RegisterAddresses, SMT DEF WriteRegister, WriteDraw, Redrawn
  <2> HIDE DEF group, drawing
  <2>2. IsRegisters(written) /\ written.settings = r.settings
    BY DrawWhole
  <2> HIDE DEF new, written
  <2>3. new.settings = r.settings
    BY <2>1, <2>2, WithoutWhole
  <2>4. QED
    BY <2>3 DEF new
<1>5. CASE at \notin Telling /\ at \in Setting
  <2> DEFINE kept == Kept(at, half)
  <2>1. new = [r EXCEPT !.settings[at] = kept]
    BY <1>5 DEF WriteRegister, Telling
  <2>2. kept \in Half
    BY <1>5, KeptIs
  <2> HIDE DEF new, kept
  <2>3. new.settings = [r.settings EXCEPT ![at] = kept]
    BY <2>1, SettingsWhole
  <2>4. QED
    BY <2>2, <2>3 DEF new, Settings
<1>6. CASE at \notin Telling /\ at \notin Setting
  <2>1. new = r
    BY <1>6 DEF WriteRegister, Telling
  <2>2. QED
    BY <2>1
<1>7. QED
  BY <1>1, <1>2, <1>3, <1>4, <1>5, <1>6 DEF Telling

-----------------------------------------------------------------------------
(* Where the bytes are.                                                       *)

Kinds  == {"vram", "wram", "sram", "rom"}
Places == Kinds \X Nat

LEMMA BusLengths ==
  /\ REGION_LEN = 16777216 /\ ADDRESS_LEN = 134217728 /\ WRAM_LEN = 65536
  /\ ROM_LEN \in Nat \ {0} /\ SRAM_LEN \in Nat
<1>1. \A k \in 10..24 : 2^k \in Nat \ {0}
  BY PowerPositive
<1>2. \A k \in 0..16 : 2^k \in Nat \ {0}
  BY PowerPositive
<1>3. ROM_LEN \in Nat \ {0} /\ SRAM_LEN \in Nat
  <2>1. ROM_LEN \in {2^k : k \in 10..24} /\ SRAM_LEN \in {0} \cup {2^k : k \in 0..16}
    BY BusAssumption DEF CartAccepts
  <2>2. PICK k \in 10..24 : ROM_LEN = 2^k
    BY <2>1
  <2>3. SRAM_LEN = 0 \/ \E size \in 0..16 : SRAM_LEN = 2^size
    BY <2>1
  <2>4. 2^k \in Nat \ {0}
    BY <1>1
  <2>5. SRAM_LEN \in Nat
    BY <1>2, <2>3
  <2>6. QED
    BY <2>2, <2>4, <2>5
<1>4. REGION_LEN = 16777216 /\ ADDRESS_LEN = 134217728 /\ WRAM_LEN = 65536
  BY SMT DEF REGION_LEN, ADDRESS_LEN, WRAM_LEN
<1>5. QED
  BY <1>3, <1>4

LEMMA Below ==
  ASSUME NEW n \in Nat, NEW at
  PROVE  at \in 0..(n - 1) <=> at \in Int /\ at >= 0 /\ at < n
  OBVIOUS

LEMMA AddressIsNat == \A addr : addr \in Address <=> addr \in Int /\ addr >= 0 /\ addr < 134217728
<1>1. ADDRESS_LEN \in Nat
  BY BusLengths
<1>2. \A addr : addr \in Address <=> addr \in Int /\ addr >= 0 /\ addr < ADDRESS_LEN
  <2>1. Address = 0..(ADDRESS_LEN - 1)
    BY DEF Address
  <2>2. QED
    BY <1>1, <2>1, Below
<1>3. QED
  BY <1>2, BusLengths

\* Neighbours in a word are in one region.
LEMMA RegionsHold ==
  ASSUME NEW addr \in Nat, addr < 134217728
  PROVE  /\ Region(addr) \in {"Vip", "Vsu", "Misc", "Unmapped", "Expansion", "Wram", "CartRam", "CartRom"}
         /\ addr % 2 = 0 => Region(addr + 1) = Region(addr)
         /\ addr % 4 = 0 => Region(addr + 2) = Region(addr)
<1> DEFINE n == addr \div 16777216
<1>1. n \in 0..7
  BY SMT
<1>2. Region(addr) = REGIONS[n + 1]
  BY BusLengths DEF Region
<1>3. /\ addr % 2 = 0 => (addr + 1) \div 16777216 = n
      /\ addr % 4 = 0 => (addr + 2) \div 16777216 = n
  BY SMT
<1>4. \A k \in 0..7 : REGIONS[k + 1] \in
        {"Vip", "Vsu", "Misc", "Unmapped", "Expansion", "Wram", "CartRam", "CartRom"}
  BY SMT DEF REGIONS
<1>5. /\ Region(addr + 1) = REGIONS[((addr + 1) \div 16777216) + 1]
      /\ Region(addr + 2) = REGIONS[((addr + 2) \div 16777216) + 1]
  BY BusLengths DEF Region
<1> HIDE DEF n
<1>6. QED
  BY <1>1, <1>2, <1>3, <1>4, <1>5

LEMMA CellIs ==
  ASSUME NEW offset \in Nat
  PROVE  /\ CharacterCell(offset) = 24576 + 32768 * (offset \div 8192) + (offset % 8192)
         /\ CharacterCell(offset) \in Nat
         /\ offset % 2 = 0 => CharacterCell(offset + 1) = CharacterCell(offset) + 1
<1>1. \A n \in Nat : CharacterCell(n) = 24576 + 32768 * (n \div 8192) + (n % 8192)
  BY SMT DEF CharacterCell, CHARACTER_TABLE_0, CHARACTER_TABLE_LEN, CHARACTER_TABLE_STRIDE
<1>2. offset % 2 = 0 => (offset + 1) \div 8192 = offset \div 8192 /\ (offset + 1) % 8192 = (offset % 8192) + 1
  BY SMT
<1>3. offset \div 8192 \in Nat /\ offset % 8192 \in Nat
  BY SMT
<1>4. CharacterCell(offset) = 24576 + 32768 * (offset \div 8192) + (offset % 8192)
  BY <1>1
<1>5. CharacterCell(offset + 1) = 24576 + 32768 * ((offset + 1) \div 8192) + ((offset + 1) % 8192)
  BY <1>1
<1> DEFINE q == offset \div 8192
           r == offset % 8192
<1>6. /\ CharacterCell(offset) = 24576 + 32768 * q + r
      /\ q \in Nat /\ r \in Nat
      /\ offset % 2 = 0 => CharacterCell(offset + 1) = 24576 + 32768 * q + (r + 1)
  BY <1>2, <1>3, <1>4, <1>5
<1> HIDE DEF q, r
<1>7. 24576 + 32768 * q + r \in Nat /\ 24576 + 32768 * q + (r + 1) = (24576 + 32768 * q + r) + 1
  BY <1>6, SMT
<1>8. CharacterCell(offset) \in Nat
  BY <1>6, <1>7
<1>9. offset % 2 = 0 => CharacterCell(offset + 1) = CharacterCell(offset) + 1
  <2>1. ASSUME offset % 2 = 0
        PROVE  CharacterCell(offset + 1) = CharacterCell(offset) + 1
    BY <1>6, <1>7, <2>1
  <2>2. QED
    BY <2>1
<1>10. QED
  BY <1>4, <1>8, <1>9

\* What an address of the video processor is.
VipPlace(at) ==
  IF at < 262144 THEN Vram(at)
  ELSE IF 385024 <= at /\ at <= 393215 THEN Register(at)
  ELSE IF at >= 491520 THEN Vram(CharacterCell(at - 491520))
  ELSE Unmapped

LEMMA VipPlaces ==
  ASSUME NEW addr \in Nat
  PROVE  Resolve(addr) = VipPlace(addr % VIP_LEN)
<1> DEFINE at == addr % VIP_LEN
<1>1. at \in Int /\ at >= 0 /\ at < 524288
  BY VipLengths, SMT
<1>2. Resolve(addr) = CASE at < VRAM_LEN -> Vram(at)
                        [] at \in REGISTERS_START..REGISTERS_END -> Register(at)
                        [] at >= CHARACTER_MIRROR -> Vram(CharacterCell(at - CHARACTER_MIRROR))
                        [] OTHER -> Unmapped
  BY Zenon DEF Resolve
<1> HIDE DEF at
<1>3. REGISTERS_START \in Int /\ REGISTERS_END \in Int
  BY VipLengths
<1>4. CASE at < 262144
  <2>1. at < VRAM_LEN /\ ~(at >= CHARACTER_MIRROR) /\ at < REGISTERS_START
    BY <1>1, <1>4, VipLengths, SMT
  <2>2. at \notin REGISTERS_START..REGISTERS_END
    BY <1>1, <1>3, <2>1, Outside
  <2>3. Resolve(addr) = Vram(at)
    BY <1>2, <2>1, <2>2
  <2>4. VipPlace(at) = Vram(at)
    BY <1>4, <2>1 DEF VipPlace
  <2>5. QED
    BY <2>3, <2>4 DEF at
<1>5. CASE 385024 <= at /\ at <= 393215
  <2>1. /\ ~(at < VRAM_LEN) /\ ~(at >= CHARACTER_MIRROR) /\ at \in REGISTERS_START..REGISTERS_END
        /\ ~(at < 262144)
    BY <1>1, <1>5, VipLengths, SMT
  <2>2. Resolve(addr) = Register(at)
    BY <1>2, <2>1
  <2>3. VipPlace(at) = Register(at)
    BY <1>5, <2>1 DEF VipPlace
  <2>4. QED
    BY <2>2, <2>3 DEF at
<1>6. CASE at >= 491520
  <2>1. /\ ~(at < VRAM_LEN) /\ at >= CHARACTER_MIRROR /\ at > REGISTERS_END /\ CHARACTER_MIRROR = 491520
        /\ ~(at < 262144) /\ ~(385024 <= at /\ at <= 393215)
    BY <1>1, <1>6, VipLengths, SMT
  <2>2. at \notin REGISTERS_START..REGISTERS_END
    BY <1>1, <1>3, <2>1, Outside
  <2>3. Resolve(addr) = Vram(CharacterCell(at - CHARACTER_MIRROR))
    BY <1>2, <2>1, <2>2
  <2>4. VipPlace(at) = Vram(CharacterCell(at - 491520))
    BY <1>6, <2>1 DEF VipPlace
  <2>5. CHARACTER_MIRROR = 491520
    BY VipLengths
  <2>6. QED
    BY <2>3, <2>4, <2>5 DEF at
<1>7. CASE ~(at < 262144) /\ ~(385024 <= at /\ at <= 393215) /\ ~(at >= 491520)
  <2>1. ~(at < VRAM_LEN) /\ ~(at >= CHARACTER_MIRROR) /\ (at < REGISTERS_START \/ at > REGISTERS_END)
    BY <1>1, <1>7, VipLengths, SMT
  <2>2. at \notin REGISTERS_START..REGISTERS_END
    BY <1>1, <1>3, <2>1, Outside
  <2>3. Resolve(addr) = Unmapped
    BY <1>2, <2>1, <2>2
  <2>4. VipPlace(at) = Unmapped
    BY <1>7, <2>1 DEF VipPlace
  <2>5. QED
    BY <2>3, <2>4 DEF at
<1>8. QED
  BY <1>1, <1>4, <1>5, <1>6, <1>7, SMT

LEMMA KindsAre ==
  ASSUME NEW at
  PROVE  /\ Vram(at).kind = "vram" /\ Vram(at).at = at
         /\ Register(at).kind = "register" /\ Register(at).at = at
         /\ Unmapped.kind = "unmapped"
  BY DEF Vram, Register, Unmapped

\* The second byte of a halfword of the video processor is beside the first.
LEMMA PlacesBeside ==
  ASSUME NEW addr \in Nat
  PROVE  /\ Resolve(addr).kind \in {"vram", "register", "unmapped"}
         /\ Resolve(addr).kind = "vram" => Resolve(addr).at \in Nat
         /\ Resolve(addr).kind = "register" <=> /\ 385024 <= addr % 524288 /\ addr % 524288 <= 393215
         /\ Resolve(addr).kind = "register" => Resolve(addr).at = addr % 524288
         /\ addr % 2 = 0 =>
              /\ Resolve(addr + 1).kind = Resolve(addr).kind
              /\ Resolve(addr).kind = "vram" => Resolve(addr + 1).at = Resolve(addr).at + 1
<1> DEFINE at == addr % 524288
<1>1. at \in Int /\ at >= 0 /\ at < 524288
  BY SMT
<1>2. addr % 2 = 0 => at % 2 = 0 /\ (addr + 1) % 524288 = at + 1
  BY SMT
<1>3. Resolve(addr) = VipPlace(at) /\ Resolve(addr + 1) = VipPlace((addr + 1) % 524288)
  BY VipPlaces, VipLengths
<1> HIDE DEF at
<1>4. CASE at < 262144
  <2>1. Resolve(addr) = Vram(at)
    BY <1>3, <1>4 DEF VipPlace
  <2>2. at % 2 = 0 => at + 1 < 262144
    BY <1>1, <1>4, SMT
  <2>3. addr % 2 = 0 => Resolve(addr + 1) = Vram(at + 1)
    BY <1>2, <1>3, <2>2 DEF VipPlace
  <2>4. ~(385024 <= at /\ at <= 393215)
    BY <1>1, <1>4, SMT
  <2>5. QED
    BY <1>1, <2>1, <2>3, <2>4, KindsAre DEF at
<1>5. CASE 385024 <= at /\ at <= 393215
  <2>1. ~(at < 262144) /\ ~(at + 1 < 262144) /\ (at % 2 = 0 => 385024 <= at + 1 /\ at + 1 <= 393215)
    BY <1>1, <1>5, SMT
  <2>2. Resolve(addr) = Register(at)
    BY <1>3, <1>5, <2>1 DEF VipPlace
  <2>3. addr % 2 = 0 => Resolve(addr + 1) = Register(at + 1)
    BY <1>2, <1>3, <2>1 DEF VipPlace
  <2>4. QED
    BY <1>5, <2>2, <2>3, KindsAre DEF at
<1>6. CASE at >= 491520
  <2>1. /\ ~(at < 262144) /\ ~(385024 <= at /\ at <= 393215)
        /\ at % 2 = 0 => ~(at + 1 < 262144) /\ ~(385024 <= at + 1 /\ at + 1 <= 393215) /\ at + 1 >= 491520
        /\ at - 491520 \in Nat /\ (at + 1) - 491520 = (at - 491520) + 1
        /\ at % 2 = 0 => (at - 491520) % 2 = 0
    BY <1>1, <1>6, SMT
  <2>2. Resolve(addr) = Vram(CharacterCell(at - 491520))
    BY <1>3, <1>6, <2>1 DEF VipPlace
  <2>3. addr % 2 = 0 => Resolve(addr + 1) = Vram(CharacterCell((at - 491520) + 1))
    BY <1>2, <1>3, <2>1 DEF VipPlace
  <2>4. CharacterCell(at - 491520) \in Nat
    BY <2>1, CellIs
  <2>5. at % 2 = 0 => CharacterCell((at - 491520) + 1) = CharacterCell(at - 491520) + 1
    BY <2>1, CellIs
  <2>6. QED
    BY <1>2, <2>1, <2>2, <2>3, <2>4, <2>5, KindsAre DEF at
<1>7. CASE ~(at < 262144) /\ ~(385024 <= at /\ at <= 393215) /\ ~(at >= 491520)
  <2>1. at % 2 = 0 => ~(at + 1 < 262144) /\ ~(385024 <= at + 1 /\ at + 1 <= 393215) /\ ~(at + 1 >= 491520)
    BY <1>1, <1>7, SMT
  <2>2. Resolve(addr) = Unmapped
    BY <1>3, <1>7 DEF VipPlace
  <2>3. addr % 2 = 0 => Resolve(addr + 1) = Unmapped
    BY <1>2, <1>3, <2>1 DEF VipPlace
  <2>4. QED
    BY <1>7, <2>2, <2>3, KindsAre DEF at
<1>8. QED
  BY <1>4, <1>5, <1>6, <1>7

LEMMA CellAs ==
  ASSUME NEW offset \in Nat
  PROVE  CharacterCell(offset) = CHARACTER_TABLE_0 + CHARACTER_TABLE_STRIDE * (offset \div CHARACTER_TABLE_LEN)
                                   + (offset % CHARACTER_TABLE_LEN)
<1>1. CHARACTER_TABLE_0 \in Nat /\ CHARACTER_TABLE_STRIDE \in Nat /\ CHARACTER_TABLE_LEN \in Nat \ {0}
  BY SMT DEF CHARACTER_TABLE_0, CHARACTER_TABLE_STRIDE, CHARACTER_TABLE_LEN
<1>2. offset \div CHARACTER_TABLE_LEN \in Int
  BY <1>1, Divided
<1>3. (offset \div CHARACTER_TABLE_LEN) * CHARACTER_TABLE_STRIDE
        = CHARACTER_TABLE_STRIDE * (offset \div CHARACTER_TABLE_LEN)
  BY <1>1, <1>2
<1>4. QED
  BY <1>3 DEF CharacterCell

LEMMA LocationBy ==
  ASSUME NEW addr, NEW at, at = addr % VIP_LEN, NEW dots, dots = at - CHARACTER_MIRROR
  PROVE  Location(addr) =
           CASE Region(addr) = "Vip" /\ at < VRAM_LEN -> <<"vram", at>>
             [] Region(addr) = "Vip" /\ at >= CHARACTER_MIRROR ->
                  <<"vram", CHARACTER_TABLE_0 + CHARACTER_TABLE_STRIDE * (dots \div CHARACTER_TABLE_LEN)
                              + (dots % CHARACTER_TABLE_LEN)>>
             [] Region(addr) = "Wram" -> <<"wram", addr % WRAM_LEN>>
             [] Region(addr) = "CartRam" /\ SRAM_LEN # 0 -> <<"sram", addr % SRAM_LEN>>
             [] Region(addr) = "CartRom" -> <<"rom", addr % ROM_LEN>>
             [] OTHER -> NoCell
  BY Zenon DEF Location

\* The place of a byte, region by region.
LEMMA LocationIs ==
  ASSUME NEW addr \in Nat, addr < 134217728
  PROVE  /\ Region(addr) = "Vip" => Location(addr) = IF Resolve(addr).kind = "vram"
                                                     THEN <<"vram", Resolve(addr).at>> ELSE NoCell
         /\ Region(addr) = "Wram" => Location(addr) = <<"wram", addr % WRAM_LEN>>
         /\ Region(addr) = "CartRam" => Location(addr) = IF SRAM_LEN = 0 THEN NoCell
                                                         ELSE <<"sram", addr % SRAM_LEN>>
         /\ Region(addr) = "CartRom" => Location(addr) = <<"rom", addr % ROM_LEN>>
         /\ Region(addr) \notin {"Vip", "Wram", "CartRam", "CartRom"} => Location(addr) = NoCell
<1> DEFINE at == addr % VIP_LEN
           dots == at - CHARACTER_MIRROR
           mirrored == <<"vram", CHARACTER_TABLE_0 + CHARACTER_TABLE_STRIDE * (dots \div CHARACTER_TABLE_LEN)
                                   + (dots % CHARACTER_TABLE_LEN)>>
           lower == at < VRAM_LEN
           upper == at >= CHARACTER_MIRROR
<1>1. Location(addr) =
        CASE Region(addr) = "Vip" /\ lower -> <<"vram", at>>
          [] Region(addr) = "Vip" /\ upper -> mirrored
          [] Region(addr) = "Wram" -> <<"wram", addr % WRAM_LEN>>
          [] Region(addr) = "CartRam" /\ SRAM_LEN # 0 -> <<"sram", addr % SRAM_LEN>>
          [] Region(addr) = "CartRom" -> <<"rom", addr % ROM_LEN>>
          [] OTHER -> NoCell
  BY LocationBy
<1>2. at \in Int /\ at >= 0 /\ at < 524288 /\ at = addr % 524288
  BY VipLengths, SMT
<1>3. /\ lower <=> at < 262144
      /\ upper <=> at >= 491520
      /\ dots = at - 491520
  BY <1>2, VipLengths
<1>4. Resolve(addr) = VipPlace(at)
  BY VipPlaces
<1>5. upper => mirrored = <<"vram", CharacterCell(at - 491520)>>
  <2>1. ASSUME upper PROVE mirrored = <<"vram", CharacterCell(at - 491520)>>
    <3>1. dots = at - 491520 /\ dots \in Nat
      BY <1>2, <1>3, <2>1, SMT
    <3> HIDE DEF at, dots
    <3>2. mirrored = <<"vram", CharacterCell(dots)>>
      BY <3>1, CellAs
    <3>3. QED
      BY <3>1, <3>2
  <2>2. QED
    BY <2>1
<1>6. ~(lower /\ upper)
  BY <1>2, <1>3, SMT
<1> HIDE DEF at, dots, mirrored, lower, upper
<1>7. Region(addr) = "Vip" => Location(addr) = IF Resolve(addr).kind = "vram"
                                               THEN <<"vram", Resolve(addr).at>> ELSE NoCell
  <2> SUFFICES ASSUME Region(addr) = "Vip"
               PROVE  Location(addr) = IF Resolve(addr).kind = "vram"
                                       THEN <<"vram", Resolve(addr).at>> ELSE NoCell
    OBVIOUS
  <2>1. CASE lower
    <3>1. Location(addr) = <<"vram", at>>
      BY <1>1, <1>6, <2>1
    <3>2. Resolve(addr) = Vram(at)
      BY <1>3, <1>4, <2>1 DEF VipPlace
    <3>3. QED
      BY <3>1, <3>2, KindsAre
  <2>2. CASE upper
    <3>1. Location(addr) = <<"vram", CharacterCell(at - 491520)>>
      BY <1>1, <1>5, <1>6, <2>2
    <3>2. ~(at < 262144) /\ ~(385024 <= at /\ at <= 393215) /\ at >= 491520
      BY <1>2, <1>3, <2>2, SMT
    <3>3. Resolve(addr) = Vram(CharacterCell(at - 491520))
      BY <1>4, <3>2 DEF VipPlace
    <3>4. QED
      BY <3>1, <3>3, KindsAre
  <2>3. CASE ~lower /\ ~upper
    <3>1. Location(addr) = NoCell
      BY <1>1, <2>3
    <3>2. ~(at < 262144) /\ ~(at >= 491520)
      BY <1>3, <2>3
    <3>3. Resolve(addr) \in {Register(at), Unmapped}
      BY <1>4, <3>2 DEF VipPlace
    <3>4. Resolve(addr).kind # "vram"
      BY <3>3, KindsAre
    <3>5. QED
      BY <3>1, <3>4
  <2>4. QED
    BY <2>1, <2>2, <2>3
<1>8. Region(addr) = "Wram" => Location(addr) = <<"wram", addr % WRAM_LEN>>
  BY <1>1
<1>9. Region(addr) = "CartRam" => Location(addr) = IF SRAM_LEN = 0 THEN NoCell
                                                         ELSE <<"sram", addr % SRAM_LEN>>
  BY <1>1
<1>10. Region(addr) = "CartRom" => Location(addr) = <<"rom", addr % ROM_LEN>>
  BY <1>1
<1>11. Region(addr) \notin {"Vip", "Wram", "CartRam", "CartRom"} => Location(addr) = NoCell
  BY <1>1
<1>12. QED
  BY <1>7, <1>8, <1>9, <1>10, <1>11

LEMMA LocationsArePlaces ==
  ASSUME NEW addr \in Nat, addr < 134217728
  PROVE  Location(addr) \in Places \cup {NoCell}
<1>1. /\ addr % WRAM_LEN \in Nat /\ addr % ROM_LEN \in Nat
      /\ SRAM_LEN # 0 => addr % SRAM_LEN \in Nat
  BY BusLengths, Divided
<1>2. Resolve(addr).kind = "vram" => Resolve(addr).at \in Nat
  BY PlacesBeside
<1>3. CASE Region(addr) = "Vip"
  BY <1>2, <1>3, LocationIs DEF Places, Kinds
<1>4. CASE Region(addr) = "Wram"
  BY <1>1, <1>4, LocationIs DEF Places, Kinds
<1>5. CASE Region(addr) = "CartRam"
  BY <1>1, <1>5, LocationIs DEF Places, Kinds
<1>6. CASE Region(addr) = "CartRom"
  BY <1>1, <1>6, LocationIs DEF Places, Kinds
<1>7. CASE Region(addr) \notin {"Vip", "Wram", "CartRam", "CartRom"}
  BY <1>7, LocationIs
<1>8. QED
  BY <1>3, <1>4, <1>5, <1>6, <1>7

-----------------------------------------------------------------------------
(* What a bus holds, byte by byte, and what a byte laid in it changes.        *)

Held(b) == [cell \in Places |-> Content(b, cell)]

Lay(held, addr, byte) ==
  [cell \in Places |-> IF Location(addr) = cell /\ cell[1] # "rom" THEN byte ELSE held[cell]]

\* The byte that is found at an address.
Found(held, addr) == IF Location(addr) = NoCell THEN 0 ELSE held[Location(addr)]

TypedBus(b) == /\ WholeBus(b)
               /\ HoldsBytes(b.vip.vram) /\ HoldsBytes(b.wram) /\ HoldsBytes(b.sram)
               /\ b.vip.regs.settings \in Settings
               /\ b.wait \subseteq {0, 1}

LEMMA PlaceIs ==
  ASSUME NEW cell \in Places
  PROVE  /\ cell = <<cell[1], cell[2]>> /\ cell[2] \in Nat
         /\ cell[1] \in {"vram", "wram", "sram", "rom"}
  BY DEF Places, Kinds

LEMMA ContentIs ==
  ASSUME NEW b, NEW n
  PROVE  /\ Content(b, <<"vram", n>>) = Peek(b.vip.vram, n)
         /\ Content(b, <<"wram", n>>) = Peek(b.wram, n)
         /\ Content(b, <<"sram", n>>) = Peek(b.sram, n)
         /\ Content(b, <<"rom", n>>) = Peek(Rom, n)
  BY DEF Content

LEMMA HeldIsBytes ==
  ASSUME NEW b, TypedBus(b)
  PROVE  Held(b) \in [Places -> Byte]
<1>1. ASSUME NEW cell \in Places
      PROVE  Content(b, cell) \in Byte
  <2>1. HoldsBytes(Rom)
    BY BusAssumption DEF HoldsBytes
  <2>2. \A n : Peek(b.vip.vram, n) \in Byte /\ Peek(b.wram, n) \in Byte /\ Peek(b.sram, n) \in Byte
               /\ Peek(Rom, n) \in Byte
    BY <2>1, Peeked DEF TypedBus
  <2>3. PICK k, n : cell = <<k, n>> /\ k \in {"vram", "wram", "sram", "rom"}
    BY PlaceIs
  <2>4. \A place \in {<<"vram", n>>, <<"wram", n>>, <<"sram", n>>, <<"rom", n>>} : Content(b, place) \in Byte
    BY <2>2, ContentIs
  <2>5. cell \in {<<"vram", n>>, <<"wram", n>>, <<"sram", n>>, <<"rom", n>>}
    BY <2>3
  <2>6. QED
    BY <2>4, <2>5
<1>2. QED
  BY <1>1 DEF Held

\* The same memories hold the same.
Same(b, new) == new.vip.vram = b.vip.vram /\ new.wram = b.wram /\ new.sram = b.sram

LEMMA SameHeld ==
  ASSUME NEW b, NEW new, Same(b, new)
  PROVE  Held(new) = Held(b)
<1>1. \A cell : Content(new, cell) = Content(b, cell)
  BY DEF Content, Same
<1>2. QED
  BY <1>1 DEF Held

\* A byte that has no place, or is in the program of the cartridge, is lost.
LEMMA LaidNowhere ==
  ASSUME NEW b, NEW addr, NEW byte, Location(addr) = NoCell \/ Location(addr)[1] = "rom"
  PROVE  Lay(Held(b), addr, byte) = Held(b)
<1>1. ASSUME NEW cell \in Places
      PROVE  ~(Location(addr) = cell /\ cell[1] # "rom")
  <2>1. cell # NoCell
    BY PlaceIs DEF NoCell
  <2>2. QED
    BY <2>1
<1>2. QED
  BY <1>1 DEF Lay, Held

LEMMA Laid ==
  ASSUME NEW b, NEW new, NEW addr, NEW byte, NEW kind \in {"vram", "wram", "sram"}, NEW at,
         Location(addr) = <<kind, at>>,
         new.vip.vram = IF kind = "vram" THEN Poke(b.vip.vram, at, byte) ELSE b.vip.vram,
         new.wram = IF kind = "wram" THEN Poke(b.wram, at, byte) ELSE b.wram,
         new.sram = IF kind = "sram" THEN Poke(b.sram, at, byte) ELSE b.sram
  PROVE  Held(new) = Lay(Held(b), addr, byte)
<1>1. ASSUME NEW cell \in Places
      PROVE  Content(new, cell) = IF Location(addr) = cell /\ cell[1] # "rom" THEN byte ELSE Content(b, cell)
  <2>1. /\ \A n : Peek(Poke(b.vip.vram, at, byte), n) = IF n = at THEN byte ELSE Peek(b.vip.vram, n)
        /\ \A n : Peek(Poke(b.wram, at, byte), n) = IF n = at THEN byte ELSE Peek(b.wram, n)
        /\ \A n : Peek(Poke(b.sram, at, byte), n) = IF n = at THEN byte ELSE Peek(b.sram, n)
    BY Poked
  <2>2. PICK k, n : cell = <<k, n>> /\ k \in {"vram", "wram", "sram", "rom"}
    BY PlaceIs
  <2>3. Location(addr) = cell <=> kind = k /\ at = n
    BY <2>2
  <2>4. Content(new, cell) = IF kind = k /\ at = n /\ k # "rom" THEN byte ELSE Content(b, cell)
    <3>1. CASE k = "vram"
      <4>1. cell = <<"vram", n>>
        BY <2>2, <3>1
      <4>2. Content(new, cell) = Peek(new.vip.vram, n) /\ Content(b, cell) = Peek(b.vip.vram, n)
        BY <4>1, ContentIs
      <4>3. QED
        BY <2>1, <3>1, <4>2
    <3>2. CASE k = "wram"
      <4>1. cell = <<"wram", n>>
        BY <2>2, <3>2
      <4>2. Content(new, cell) = Peek(new.wram, n) /\ Content(b, cell) = Peek(b.wram, n)
        BY <4>1, ContentIs
      <4>3. QED
        BY <2>1, <3>2, <4>2
    <3>3. CASE k = "sram"
      <4>1. cell = <<"sram", n>>
        BY <2>2, <3>3
      <4>2. Content(new, cell) = Peek(new.sram, n) /\ Content(b, cell) = Peek(b.sram, n)
        BY <4>1, ContentIs
      <4>3. QED
        BY <2>1, <3>3, <4>2
    <3>4. CASE k = "rom"
      <4>1. Content(new, cell) = Content(b, cell)
        BY <2>2, <3>4, ContentIs
      <4>2. QED
        BY <3>4, <4>1
    <3>5. QED
      BY <2>2, <3>1, <3>2, <3>3, <3>4
  <2>5. cell[1] = k
    BY <2>2
  <2>6. QED
    BY <2>3, <2>4, <2>5
<1>2. QED
  BY <1>1 DEF Lay, Held

LEMMA LaidVram ==
  ASSUME NEW b, NEW new, NEW addr, NEW byte, NEW at, Location(addr) = <<"vram", at>>,
         new.vip.vram = Poke(b.vip.vram, at, byte), new.wram = b.wram, new.sram = b.sram
  PROVE  Held(new) = Lay(Held(b), addr, byte)
<1>1. "vram" \in {"vram", "wram", "sram"} /\ "vram" # "wram" /\ "vram" # "sram"
  OBVIOUS
<1>2. QED
  BY <1>1, Laid

\* One field of a video processor, or of a bus, changed.
LEMMA VipFieldsAre ==
  ASSUME NEW x, NEW y
  PROVE  LET v == VipFields(x, y) IN IsVip(v) /\ v.vram = x /\ v.regs = y
<1>1. IsVip(VipFields(x, y))
  BY Zenon DEF IsVip, VipFields
<1>2. QED
  BY <1>1 DEF VipFields

LEMMA RegsPut ==
  ASSUME NEW v, IsVip(v), NEW value, NEW new, new = [v EXCEPT !.regs = value]
  PROVE  IsVip(new) /\ new.regs = value /\ new.vram = v.vram
<1> PICK vram, registers : v = VipFields(vram, registers)
  BY DEF IsVip, VipFields
<1>1. new = VipFields(vram, value)
  BY DEF VipFields
<1>2. QED
  BY <1>1, VipFieldsAre

LEMMA VramPut ==
  ASSUME NEW v, IsVip(v), NEW value, NEW new, new = [v EXCEPT !.vram = value]
  PROVE  IsVip(new) /\ new.regs = v.regs /\ new.vram = value
<1> PICK vram, registers : v = VipFields(vram, registers)
  BY DEF IsVip, VipFields
<1>1. new = VipFields(value, registers)
  BY DEF VipFields
<1>2. QED
  BY <1>1, VipFieldsAre

LEMMA BusFieldsAre ==
  ASSUME NEW v, NEW w, NEW x, NEW y, NEW z
  PROVE  LET b == BusFields(v, w, x, y, z)
         IN  IsBus(b) /\ b.vip = v /\ b.wram = w /\ b.sram = x /\ b.wait = y
<1>1. IsBus(BusFields(v, w, x, y, z))
  BY Zenon DEF IsBus, BusFields
<1>2. QED
  BY <1>1 DEF BusFields

LEMMA VipPut ==
  ASSUME NEW b, IsBus(b), NEW value, NEW new, new = [b EXCEPT !.vip = value]
  PROVE  IsBus(new) /\ new.vip = value /\ new.wram = b.wram /\ new.sram = b.sram /\ new.wait = b.wait
<1> PICK vip, wram, sram, wait, posted : b = BusFields(vip, wram, sram, wait, posted)
  BY DEF IsBus, BusFields
<1>1. new = BusFields(value, wram, sram, wait, posted)
  BY DEF BusFields
<1>2. QED
  BY <1>1, BusFieldsAre

LEMMA WramPut ==
  ASSUME NEW b, IsBus(b), NEW value, NEW new, new = [b EXCEPT !.wram = value]
  PROVE  IsBus(new) /\ new.vip = b.vip /\ new.wram = value /\ new.sram = b.sram /\ new.wait = b.wait
<1> PICK vip, wram, sram, wait, posted : b = BusFields(vip, wram, sram, wait, posted)
  BY DEF IsBus, BusFields
<1>1. new = BusFields(vip, value, sram, wait, posted)
  BY DEF BusFields
<1>2. QED
  BY <1>1, BusFieldsAre

LEMMA SramPut ==
  ASSUME NEW b, IsBus(b), NEW value, NEW new, new = [b EXCEPT !.sram = value]
  PROVE  IsBus(new) /\ new.vip = b.vip /\ new.wram = b.wram /\ new.sram = value /\ new.wait = b.wait
<1> PICK vip, wram, sram, wait, posted : b = BusFields(vip, wram, sram, wait, posted)
  BY DEF IsBus, BusFields
<1>1. new = BusFields(vip, wram, value, wait, posted)
  BY DEF BusFields
<1>2. QED
  BY <1>1, BusFieldsAre

LEMMA WaitPut ==
  ASSUME NEW b, IsBus(b), NEW value, NEW new, new = [b EXCEPT !.wait = value]
  PROVE  IsBus(new) /\ new.vip = b.vip /\ new.wram = b.wram /\ new.sram = b.sram /\ new.wait = value
<1> PICK vip, wram, sram, wait, posted : b = BusFields(vip, wram, sram, wait, posted)
  BY DEF IsBus, BusFields
<1>1. new = BusFields(vip, wram, sram, value, posted)
  BY DEF BusFields
<1>2. QED
  BY <1>1, BusFieldsAre

LEMMA PostedPut ==
  ASSUME NEW b, IsBus(b), NEW value, NEW new, new = [b EXCEPT !.posted = value]
  PROVE  IsBus(new) /\ new.vip = b.vip /\ new.wram = b.wram /\ new.sram = b.sram /\ new.wait = b.wait
<1> PICK vip, wram, sram, wait, posted : b = BusFields(vip, wram, sram, wait, posted)
  BY DEF IsBus, BusFields
<1>1. new = BusFields(vip, wram, sram, wait, value)
  BY DEF BusFields
<1>2. QED
  BY <1>1, BusFieldsAre

-----------------------------------------------------------------------------
(* Stores, byte by byte.                                                      *)

TypedVip(v) == WholeVip(v) /\ HoldsBytes(v.vram) /\ v.regs.settings \in Settings

LEMMA TypedBusIs ==
  ASSUME NEW b
  PROVE  TypedBus(b) <=> /\ IsBus(b) /\ TypedVip(b.vip)
                         /\ HoldsBytes(b.wram) /\ HoldsBytes(b.sram) /\ b.wait \subseteq {0, 1}
  BY DEF TypedBus, TypedVip, WholeBus

LEMMA VipStored16 ==
  ASSUME NEW v, TypedVip(v), NEW addr \in Nat, addr % 2 = 0, NEW half \in Half
  PROVE  LET new == VipWriteU16(v, addr, half)
         IN  /\ TypedVip(new)
             /\ new.vram = IF Resolve(addr).kind = "vram"
                           THEN Poke(Poke(v.vram, Resolve(addr).at, LowByte(half)),
                                     Resolve(addr).at + 1, HighByte(half))
                           ELSE v.vram
<1> DEFINE new == VipWriteU16(v, addr, half)
           target == Resolve(addr)
           first == Poke(v.vram, target.at, LowByte(half))
           after == Poke(first, target.at + 1, HighByte(half))
           told == WriteRegister(v.regs, target.at, half)
<1>1. Even(addr) = addr
  BY DEF Even
<1>2. new = CASE target.kind = "vram" -> [v EXCEPT !.vram = after]
              [] target.kind = "register" -> [v EXCEPT !.regs = told]
              [] OTHER -> v
  BY <1>1 DEF VipWriteU16
<1>3. LowByte(half) \in Byte /\ HighByte(half) \in Byte
  BY BytesAre
<1>4. HoldsBytes(v.vram) /\ IsVip(v) /\ IsRegisters(v.regs) /\ v.regs.settings \in Settings
  BY DEF TypedVip, WholeVip
<1>5. HoldsBytes(first)
  BY <1>3, <1>4, Poked
<1>6. HoldsBytes(after)
  BY <1>3, <1>5, Poked
<1>7. IsRegisters(told) /\ told.settings \in Settings
  BY <1>4, RegisterWritten, WriteRegisterMoves
<1> HIDE DEF new, target, after, told
<1>8. CASE target.kind = "vram"
  <2>1. new = [v EXCEPT !.vram = after]
    BY <1>2, <1>8
  <2>2. IsVip(new) /\ new.regs = v.regs /\ new.vram = after
    BY <1>4, <2>1, VramPut
  <2>3. QED
    BY <1>4, <1>6, <1>8, <2>2 DEF TypedVip, WholeVip, new, target, after
<1>9. CASE target.kind = "register"
  <2>1. new = [v EXCEPT !.regs = told]
    BY <1>2, <1>9
  <2>2. IsVip(new) /\ new.regs = told /\ new.vram = v.vram
    BY <1>4, <2>1, RegsPut
  <2>3. QED
    BY <1>4, <1>7, <1>9, <2>2 DEF TypedVip, WholeVip, new, target
<1>10. CASE target.kind \notin {"vram", "register"}
  <2>1. new = v
    BY <1>2, <1>10
  <2>2. QED
    BY <1>10, <2>1 DEF new, target
<1>11. QED
  BY <1>8, <1>9, <1>10

LEMMA VipStored8 ==
  ASSUME NEW v, TypedVip(v), NEW addr \in Nat, NEW source \in Half
  PROVE  LET new == VipWriteU8(v, addr, source)
         IN  /\ TypedVip(new)
             /\ new.vram = IF Resolve(addr).kind = "vram"
                           THEN Poke(v.vram, Resolve(addr).at, LowByte(source)) ELSE v.vram
<1> DEFINE new == VipWriteU8(v, addr, source)
           target == Resolve(addr)
           after == Poke(v.vram, target.at, LowByte(source))
           half == StoredHalf(target.at, source)
           told == WriteRegister(v.regs, Even(target.at), half)
<1>1. new = CASE target.kind = "vram" -> [v EXCEPT !.vram = after]
              [] target.kind = "register" -> [v EXCEPT !.regs = told]
              [] OTHER -> v
  BY DEF VipWriteU8
<1>2. LowByte(source) \in Byte /\ 0 \in Byte
  BY BytesAre, ByteIsHalf
<1>3. HoldsBytes(v.vram) /\ IsVip(v) /\ IsRegisters(v.regs) /\ v.regs.settings \in Settings
  BY DEF TypedVip, WholeVip
<1>4. HoldsBytes(after)
  BY <1>2, <1>3, Poked
<1>5. half \in Half
  BY <1>2, HalfwordIs DEF StoredHalf
<1> HIDE DEF half
<1>6. IsRegisters(told) /\ told.settings \in Settings
  BY <1>3, <1>5, RegisterWritten, WriteRegisterMoves
<1> HIDE DEF new, target, after, told
<1>7. CASE target.kind = "vram"
  <2>1. new = [v EXCEPT !.vram = after]
    BY <1>1, <1>7
  <2>2. IsVip(new) /\ new.regs = v.regs /\ new.vram = after
    BY <1>3, <2>1, VramPut
  <2>3. QED
    BY <1>3, <1>4, <1>7, <2>2 DEF TypedVip, WholeVip, new, target, after
<1>8. CASE target.kind = "register"
  <2>1. new = [v EXCEPT !.regs = told]
    BY <1>1, <1>8
  <2>2. IsVip(new) /\ new.regs = told /\ new.vram = v.vram
    BY <1>3, <2>1, RegsPut
  <2>3. QED
    BY <1>3, <1>6, <1>8, <2>2 DEF TypedVip, WholeVip, new, target
<1>9. CASE target.kind \notin {"vram", "register"}
  <2>1. new = v
    BY <1>1, <1>9
  <2>2. QED
    BY <1>9, <2>1 DEF new, target
<1>10. QED
  BY <1>7, <1>8, <1>9

\* A byte store lays its low byte.
LEMMA Stored8 ==
  ASSUME NEW b, TypedBus(b), NEW addr \in Nat, addr < 134217728, NEW source \in Half
  PROVE  LET new == StoreU8(b, addr, source)
         IN  TypedBus(new) /\ Held(new) = Lay(Held(b), addr, LowByte(source))
<1> DEFINE new == StoreU8(b, addr, source)
           byte == LowByte(source)
<1>1. byte \in Byte
  BY BytesAre
<1>2. /\ IsBus(b) /\ TypedVip(b.vip)
      /\ HoldsBytes(b.wram) /\ HoldsBytes(b.sram) /\ b.wait \subseteq {0, 1}
  BY TypedBusIs
<1>3. IsBus(b)
  BY <1>2
<1>4. CASE Region(addr) = "Vip"
  <2> DEFINE vip == VipWriteU8(b.vip, addr, source)
  <2>1. new = [b EXCEPT !.vip = vip]
    BY <1>4 DEF StoreU8
  <2>2. /\ TypedVip(vip)
        /\ vip.vram = IF Resolve(addr).kind = "vram"
                      THEN Poke(b.vip.vram, Resolve(addr).at, byte) ELSE b.vip.vram
    BY <1>2, VipStored8
  <2> HIDE DEF new, vip, byte
  <2>3. IsBus(new) /\ new.vip = vip /\ new.wram = b.wram /\ new.sram = b.sram /\ new.wait = b.wait
    BY <1>3, <2>1, VipPut
  <2>4. TypedBus(new)
    BY <1>2, <2>2, <2>3, TypedBusIs
  <2>5. Location(addr) = IF Resolve(addr).kind = "vram" THEN <<"vram", Resolve(addr).at>> ELSE NoCell
    BY <1>4, LocationIs
  <2>6. CASE Resolve(addr).kind = "vram"
    <3>1. Held(new) = Lay(Held(b), addr, byte)
      BY <2>2, <2>3, <2>5, <2>6, Laid
    <3>2. QED
      BY <2>4, <3>1 DEF new, byte
  <2>7. CASE Resolve(addr).kind # "vram"
    <3>1. Held(new) = Held(b)
      BY <2>2, <2>3, <2>7, SameHeld DEF Same
    <3>2. Lay(Held(b), addr, byte) = Held(b)
      BY <2>5, <2>7, LaidNowhere
    <3>3. QED
      BY <2>4, <3>1, <3>2 DEF new, byte
  <2>8. QED
    BY <2>6, <2>7
<1>5. CASE Region(addr) = "Wram"
  <2> DEFINE after == Poke(b.wram, addr % WRAM_LEN, byte)
  <2>1. new = [b EXCEPT !.wram = after]
    BY <1>5 DEF StoreU8
  <2>2. HoldsBytes(after)
    BY <1>1, <1>2, Poked
  <2>3. after = Poke(b.wram, addr % WRAM_LEN, byte)
    OBVIOUS
  <2> HIDE DEF new, byte, after
  <2>4. IsBus(new) /\ new.vip = b.vip /\ new.wram = after /\ new.sram = b.sram /\ new.wait = b.wait
    BY <1>3, <2>1, WramPut
  <2>5. TypedBus(new)
    BY <1>2, <2>2, <2>4, TypedBusIs
  <2>6. Location(addr) = <<"wram", addr % WRAM_LEN>>
    BY <1>5, LocationIs
  <2>7. Held(new) = Lay(Held(b), addr, byte)
    BY <2>3, <2>4, <2>6, Laid
  <2>8. QED
    BY <2>5, <2>7 DEF new, byte
<1>6. CASE Region(addr) = "CartRam" /\ SRAM_LEN # 0
  <2> DEFINE after == Poke(b.sram, addr % SRAM_LEN, byte)
  <2>1. new = [b EXCEPT !.sram = after]
    BY <1>6 DEF StoreU8, WriteSram
  <2>2. HoldsBytes(after)
    BY <1>1, <1>2, Poked
  <2>3. after = Poke(b.sram, addr % SRAM_LEN, byte)
    OBVIOUS
  <2> HIDE DEF new, byte, after
  <2>4. IsBus(new) /\ new.vip = b.vip /\ new.wram = b.wram /\ new.sram = after /\ new.wait = b.wait
    BY <1>3, <2>1, SramPut
  <2>5. TypedBus(new)
    BY <1>2, <2>2, <2>4, TypedBusIs
  <2>6. Location(addr) = <<"sram", addr % SRAM_LEN>>
    BY <1>6, LocationIs
  <2>7. Held(new) = Lay(Held(b), addr, byte)
    BY <2>3, <2>4, <2>6, Laid
  <2>8. QED
    BY <2>5, <2>7 DEF new, byte
<1>7. CASE Region(addr) \notin {"Vip", "Wram"} /\ ~(Region(addr) = "CartRam" /\ SRAM_LEN # 0)
  <2>1. Lay(Held(b), addr, byte) = Held(b)
    <3>1. Location(addr) = NoCell \/ Location(addr) = <<"rom", addr % ROM_LEN>>
      BY <1>7, LocationIs
    <3>2. Location(addr) = NoCell \/ Location(addr)[1] = "rom"
      BY <3>1
    <3>3. QED
      BY <3>2, LaidNowhere
  <2>2. TypedBus(new) /\ Same(b, new)
    <3> DEFINE letter == Append(b.posted, [at |-> addr % 64, byte |-> byte])
               wait == WaitWrite(byte)
    <3>1. \/ new = [b EXCEPT !.posted = letter]
          \/ new = [b EXCEPT !.wait = wait]
          \/ new = b
      <4>1. CASE Region(addr) = "Misc"
        <5>1. new = WriteMisc(b, addr, byte)
          BY <4>1 DEF StoreU8
        <5> HIDE DEF new
        <5>2. CASE addr % 64 \in TimerRegister \cup PadRegister
          <6>1. addr % 64 # WaitRegister
            BY <5>2 DEF TimerRegister, PadRegister, WaitRegister
          <6>2. QED
            BY <5>1, <5>2, <6>1 DEF WriteMisc
        <5>3. CASE addr % 64 \notin TimerRegister \cup PadRegister
          BY <5>1, <5>3 DEF WriteMisc
        <5>4. QED
          BY <5>2, <5>3
      <4>2. CASE Region(addr) # "Misc"
        BY <1>7, <4>2 DEF StoreU8, WriteSram
      <4>3. QED
        BY <4>1, <4>2
    <3>2. wait \subseteq {0, 1}
      BY DEF WaitWrite, ROM1W, EXP1W
    <3> HIDE DEF new, letter, wait
    <3>3. CASE new = [b EXCEPT !.posted = letter]
      <4>1. IsBus(new) /\ new.vip = b.vip /\ new.wram = b.wram /\ new.sram = b.sram /\ new.wait = b.wait
        BY <1>3, <3>3, PostedPut
      <4>2. QED
        BY <1>2, <4>1, TypedBusIs DEF Same
    <3>4. CASE new = [b EXCEPT !.wait = wait]
      <4>1. IsBus(new) /\ new.vip = b.vip /\ new.wram = b.wram /\ new.sram = b.sram /\ new.wait = wait
        BY <1>3, <3>4, WaitPut
      <4>2. new.wait \subseteq {0, 1}
        BY <3>2, <4>1
      <4>3. IsBus(new) /\ TypedVip(new.vip) /\ HoldsBytes(new.wram) /\ HoldsBytes(new.sram)
        BY <1>2, <4>1
      <4>4. TypedBus(new)
        BY <4>2, <4>3, TypedBusIs
      <4>5. QED
        BY <4>1, <4>4 DEF Same
    <3>5. CASE new = b
      BY <3>5 DEF Same
    <3>6. QED
      BY <3>1, <3>3, <3>4, <3>5
  <2>3. QED
    BY <2>1, <2>2, SameHeld
<1>8. QED
  BY <1>4, <1>5, <1>6, <1>7

\* A halfword store lays its two bytes, the low one first.
LEMMA Stored16 ==
  ASSUME NEW b, TypedBus(b), NEW addr \in Nat, addr < 134217728, NEW half \in Half
  PROVE  LET new == WriteU16(b, addr, half)
             at  == Even(addr)
         IN  /\ TypedBus(new)
             /\ Held(new) = Lay(Lay(Held(b), at, LowByte(half)), at + 1, HighByte(half))
<1> DEFINE new == WriteU16(b, addr, half)
           at == Even(addr)
           low == LowByte(half)
           high == HighByte(half)
<1>1. at \in Nat /\ at + 1 \in Nat /\ at < 134217728 /\ at + 1 < 134217728 /\ at % 2 = 0
  BY Aligned, SMT
<1>2. low \in Byte /\ high \in Byte /\ low \in Half /\ high \in Half /\ LowByte(low) = low /\ LowByte(high) = high
  BY BytesAre, ByteIsHalf
<1>3. IsBus(b) /\ TypedVip(b.vip)
  BY TypedBusIs
<1>4. new = CASE Region(at) = "Vip" -> [b EXCEPT !.vip = VipWriteU16(b.vip, at, half)]
              [] IsMemory(at) -> StoreU8(StoreU8(b, at, low), at + 1, high)
              [] OTHER -> b
  BY DEF WriteU16, WriteU8
<1>5. Region(at + 1) = Region(at)
  BY <1>1, RegionsHold
<1> HIDE DEF new, at, low, high
<1>6. CASE Region(at) = "Vip"
  <2> DEFINE vip == VipWriteU16(b.vip, at, half)
             target == Resolve(at)
             first == Poke(b.vip.vram, target.at, low)
             after == Poke(first, target.at + 1, high)
  <2>1. new = [b EXCEPT !.vip = vip]
    <3>1. ~IsMemory(at)
      BY <1>6 DEF IsMemory
    <3>2. QED
      BY <1>4, <1>6, <3>1
  <2>2. TypedVip(vip) /\ vip.vram = IF target.kind = "vram" THEN after ELSE b.vip.vram
    <3>1. TypedVip(b.vip) /\ at \in Nat /\ at % 2 = 0 /\ half \in Half
      BY <1>1, <1>3
    <3>2. QED
      BY <3>1, VipStored16 DEF low, high
  <2>3. /\ Location(at) = IF target.kind = "vram" THEN <<"vram", target.at>> ELSE NoCell
        /\ Location(at + 1) = IF target.kind = "vram" THEN <<"vram", target.at + 1>> ELSE NoCell
    <3>1. /\ Resolve(at + 1).kind = target.kind
          /\ target.kind = "vram" => Resolve(at + 1).at = target.at + 1
      BY <1>1, PlacesBeside
    <3>2. Location(at) = IF target.kind = "vram" THEN <<"vram", target.at>> ELSE NoCell
      BY <1>1, <1>6, LocationIs
    <3>3. Location(at + 1) = IF Resolve(at + 1).kind = "vram" THEN <<"vram", Resolve(at + 1).at>> ELSE NoCell
      BY <1>1, <1>5, <1>6, LocationIs
    <3>4. QED
      BY <3>1, <3>2, <3>3
  <2>4. after = Poke(first, target.at + 1, high) /\ first = Poke(b.vip.vram, target.at, low)
    OBVIOUS
  <2> HIDE DEF vip, target, first, after
  <2>5. IsBus(new) /\ new.vip = vip /\ new.wram = b.wram /\ new.sram = b.sram /\ new.wait = b.wait
    BY <1>3, <2>1, VipPut
  <2>6. TypedBus(new)
    <3>1. HoldsBytes(b.wram) /\ HoldsBytes(b.sram) /\ b.wait \subseteq {0, 1}
      BY TypedBusIs
    <3>2. QED
      BY <2>2, <2>5, <3>1, TypedBusIs
  <2>7. CASE target.kind = "vram"
    <3> DEFINE between == [b.vip EXCEPT !.vram = first]
               middle == [b EXCEPT !.vip = between]
    <3>1. between.vram = first
      BY <1>3, VramPut DEF TypedVip, WholeVip
    <3> HIDE DEF between
    <3>2. middle.vip = between /\ middle.wram = b.wram /\ middle.sram = b.sram
      BY <1>3, VipPut
    <3>3. middle.vip.vram = first
      BY <3>1, <3>2
    <3> HIDE DEF middle
    <3>4. Held(middle) = Lay(Held(b), at, low)
      <4>1. Location(at) = <<"vram", target.at>>
        BY <2>3, <2>7
      <4>2. QED
        BY <2>4, <3>2, <3>3, <4>1, LaidVram
    <3>5. Held(new) = Lay(Held(middle), at + 1, high)
      <4>1. Location(at + 1) = <<"vram", target.at + 1>>
        BY <2>3, <2>7
      <4>2. new.vip.vram = Poke(middle.vip.vram, target.at + 1, high)
        BY <2>2, <2>4, <2>5, <2>7, <3>3
      <4>3. new.wram = middle.wram /\ new.sram = middle.sram
        BY <2>5, <3>2
      <4>4. QED
        BY <4>1, <4>2, <4>3, LaidVram
    <3>6. QED
      BY <2>6, <3>4, <3>5 DEF new, at, low, high
  <2>8. CASE target.kind # "vram"
    <3>1. Held(new) = Held(b)
      BY <2>2, <2>5, <2>8, SameHeld DEF Same
    <3>2. Location(at) = NoCell /\ Location(at + 1) = NoCell
      BY <2>3, <2>8
    <3>3. Lay(Held(b), at, low) = Held(b) /\ Lay(Held(b), at + 1, high) = Held(b)
      BY <3>2, LaidNowhere
    <3>4. QED
      BY <2>6, <3>1, <3>3 DEF new, at, low, high
  <2>9. QED
    BY <2>7, <2>8
<1>7. CASE Region(at) # "Vip" /\ IsMemory(at)
  <2> DEFINE first == StoreU8(b, at, low)
             second == StoreU8(first, at + 1, high)
  <2>1. new = second
    BY <1>4, <1>7
  <2>2. TypedBus(first) /\ Held(first) = Lay(Held(b), at, LowByte(low))
    BY <1>1, <1>2, Stored8
  <2> HIDE DEF first
  <2>3. TypedBus(second) /\ Held(second) = Lay(Held(first), at + 1, LowByte(high))
    BY <1>1, <1>2, <2>2, Stored8
  <2> HIDE DEF second
  <2>4. TypedBus(new) /\ Held(new) = Lay(Lay(Held(b), at, low), at + 1, high)
    BY <1>2, <2>1, <2>2, <2>3
  <2>5. QED
    BY <2>4 DEF new, at, low, high
<1>8. CASE Region(at) # "Vip" /\ ~IsMemory(at)
  <2>1. new = b
    BY <1>4, <1>8
  <2>2. Location(at) = NoCell /\ Location(at + 1) = NoCell
    <3>1. Region(at) \notin {"Vip", "Wram", "CartRam", "CartRom"}
      BY <1>8 DEF IsMemory
    <3>2. QED
      BY <1>1, <1>5, <3>1, LocationIs
  <2>3. Lay(Held(b), at, low) = Held(b) /\ Lay(Held(b), at + 1, high) = Held(b)
    BY <2>2, LaidNowhere
  <2>4. QED
    BY <2>1, <2>3 DEF new, at, low, high
<1>9. QED
  BY <1>6, <1>7, <1>8

LEMMA FoursAreEven ==
  ASSUME NEW at \in Nat, at % 4 = 0
  PROVE  Even(at) = at /\ Even(at + 2) = at + 2
<1>1. at % 2 = 0
  BY SMT
<1>2. (at + 2) % 2 = 0
  BY <1>1, SMT
<1>3. QED
  BY <1>1, <1>2 DEF Even

\* A word is two halfwords.
LEMMA HalvesAt ==
  ASSUME NEW b, IsBus(b), NEW addr, NEW at \in Nat, at = AlignedDown(addr),
         Even(at) = at, Even(at + 2) = at + 2, Region(at + 2) = Region(at), NEW word
  PROVE  /\ WriteU32(b, addr, word) = WriteU16(WriteU16(b, at, word[1]), at + 2, word[2])
         /\ ReadU32(b, addr) = <<ReadU16(b, at), ReadU16(b, at + 2)>>
<1>1. /\ WriteU32(b, addr, word) =
           CASE Region(at) = "Vip" -> [b EXCEPT !.vip = VipWriteU32(b.vip, at, word)]
             [] IsMemory(at) -> WriteU16(WriteU16(b, at, word[1]), at + 2, word[2])
             [] OTHER -> b
      /\ ReadU32(b, addr) = CASE Region(at) = "Vip" -> VipReadU32(b.vip, at)
                              [] IsMemory(at) -> <<ReadU16(b, at), ReadU16(b, at + 2)>>
                              [] OTHER -> <<0, 0>>
  BY DEF WriteU32, ReadU32
<1>2. \A x, half : WriteU16(x, at, half) =
        CASE Region(at) = "Vip" -> [x EXCEPT !.vip = VipWriteU16(x.vip, at, half)]
          [] IsMemory(at) -> WriteU8(WriteU8(x, at, LowByte(half)), at + 1, HighByte(half))
          [] OTHER -> x
  BY DEF WriteU16
<1>3. \A x, half : WriteU16(x, at + 2, half) =
        CASE Region(at + 2) = "Vip" -> [x EXCEPT !.vip = VipWriteU16(x.vip, at + 2, half)]
          [] IsMemory(at + 2) -> WriteU8(WriteU8(x, at + 2, LowByte(half)), (at + 2) + 1, HighByte(half))
          [] OTHER -> x
  BY DEF WriteU16
<1>4. /\ ReadU16(b, at) = CASE Region(at) = "Vip" -> VipReadU16(b.vip, at)
                            [] IsMemory(at) -> Halfword(ReadU8(b, at), ReadU8(b, at + 1))
                            [] OTHER -> 0
      /\ ReadU16(b, at + 2) = CASE Region(at + 2) = "Vip" -> VipReadU16(b.vip, at + 2)
                                [] IsMemory(at + 2) -> Halfword(ReadU8(b, at + 2), ReadU8(b, (at + 2) + 1))
                                [] OTHER -> 0
  BY DEF ReadU16
<1>5. IsMemory(at + 2) <=> IsMemory(at)
  BY DEF IsMemory
<1>6. CASE Region(at) = "Vip"
  <2> DEFINE one == VipWriteU16(b.vip, at, word[1])
             both == VipWriteU16(one, at + 2, word[2])
             first == [b EXCEPT !.vip = one]
             second == [first EXCEPT !.vip = both]
  <2>1. ~IsMemory(at)
    BY <1>6 DEF IsMemory
  <2>2. WriteU32(b, addr, word) = [b EXCEPT !.vip = both]
    BY <1>1, <1>6, <2>1 DEF VipWriteU32
  <2>3. WriteU16(b, at, word[1]) = first
    BY <1>2, <1>6, <2>1
  <2>4. first = [b EXCEPT !.vip = one]
    OBVIOUS
  <2>5. both = VipWriteU16(one, at + 2, word[2]) /\ second = [first EXCEPT !.vip = both]
    OBVIOUS
  <2>6. ReadU32(b, addr) = <<ReadU16(b, at), ReadU16(b, at + 2)>>
    BY <1>1, <1>4, <1>5, <1>6, <2>1 DEF VipReadU32
  <2> HIDE DEF one, both, first, second
  <2>7. first.vip = one
    BY <2>4, VipPut
  <2>8. WriteU16(first, at + 2, word[2]) = second
    BY <1>3, <1>5, <1>6, <2>1, <2>5, <2>7
  <2>9. second = [b EXCEPT !.vip = both]
    <3> PICK vip, wram, sram, wait, posted : b = BusFields(vip, wram, sram, wait, posted)
      BY DEF IsBus, BusFields
    <3>1. first = BusFields(one, wram, sram, wait, posted)
      BY <2>4 DEF BusFields
    <3>2. second = BusFields(both, wram, sram, wait, posted)
      BY <2>5, <3>1 DEF BusFields
    <3>3. [b EXCEPT !.vip = both] = BusFields(both, wram, sram, wait, posted)
      BY DEF BusFields
    <3>4. QED
      BY <3>2, <3>3
  <2>10. QED
    BY <2>2, <2>3, <2>6, <2>8, <2>9
<1>7. CASE Region(at) # "Vip" /\ IsMemory(at)
  BY <1>1, <1>7
<1>8. CASE Region(at) # "Vip" /\ ~IsMemory(at)
  <2>1. WriteU16(b, at, word[1]) = b /\ WriteU16(b, at + 2, word[2]) = b
    BY <1>2, <1>3, <1>5, <1>8
  <2>2. ReadU16(b, at) = 0 /\ ReadU16(b, at + 2) = 0
    BY <1>4, <1>5, <1>8
  <2>3. WriteU32(b, addr, word) = b /\ ReadU32(b, addr) = <<0, 0>>
    BY <1>1, <1>8
  <2>4. QED
    BY <2>1, <2>2, <2>3
<1>9. QED
  BY <1>6, <1>7, <1>8

LEMMA WordAt ==
  ASSUME NEW addr \in Nat, addr < 134217728
  PROVE  LET at == AlignedDown(addr)
         IN  /\ at \in Nat /\ at + 2 \in Nat /\ at + 3 < 134217728 /\ at % 4 = 0 /\ at <= addr
             /\ Even(at) = at /\ Even(at + 2) = at + 2 /\ (at + 2) + 1 = at + 3
             /\ Region(at + 2) = Region(at)
<1> DEFINE at == AlignedDown(addr)
<1>1. at \in Nat /\ at < 134217725 /\ at % 4 = 0
  BY Aligned
<1>2. at <= addr
  BY SMT DEF AlignedDown
<1>3. Region(at + 2) = Region(at)
  <2> HIDE DEF at
  <2>1. at < 134217728
    BY <1>1, SMT
  <2>2. QED
    BY <1>1, <2>1, RegionsHold
<1>4. Even(at) = at /\ Even(at + 2) = at + 2
  <2> HIDE DEF at
  <2>1. QED
    BY <1>1, FoursAreEven
<1>5. at + 2 \in Nat /\ at + 3 < 134217728 /\ (at + 2) + 1 = at + 3
  <2> HIDE DEF at
  <2>1. QED
    BY <1>1, SMT
<1>6. QED
  BY <1>1, <1>2, <1>3, <1>4, <1>5

LEMMA Stored32 ==
  ASSUME NEW b, TypedBus(b), NEW addr \in Nat, addr < 134217728, NEW word \in Word
  PROVE  LET new == WriteU32(b, addr, word)
             at  == AlignedDown(addr)
         IN  /\ TypedBus(new)
             /\ Held(new) = Lay(Lay(Lay(Lay(Held(b), at, LowByte(word[1])), at + 1, HighByte(word[1])),
                                    at + 2, LowByte(word[2])), at + 3, HighByte(word[2]))
<1> DEFINE at == AlignedDown(addr)
           first == WriteU16(b, at, word[1])
           second == WriteU16(first, at + 2, word[2])
<1>1. /\ at \in Nat /\ at < 134217728 /\ Even(at) = at /\ Even(at + 2) = at + 2
      /\ at + 2 \in Nat /\ at + 2 < 134217728 /\ (at + 2) + 1 = at + 3
      /\ Region(at + 2) = Region(at)
  BY WordAt, SMT
<1>2. word[1] \in Half /\ word[2] \in Half
  BY DEF Word
<1>3. WriteU32(b, addr, word) = second
  <2>1. IsBus(b) /\ at = AlignedDown(addr)
    BY TypedBusIs
  <2>2. second = WriteU16(WriteU16(b, at, word[1]), at + 2, word[2])
    OBVIOUS
  <2> HIDE DEF at, first, second
  <2>3. QED
    BY <1>1, <2>1, <2>2, HalvesAt
<1> HIDE DEF at
<1>4. TypedBus(first) /\ Held(first) = Lay(Lay(Held(b), at, LowByte(word[1])), at + 1, HighByte(word[1]))
  BY <1>1, <1>2, Stored16
<1> HIDE DEF first
<1>5. /\ TypedBus(second)
      /\ Held(second) = Lay(Lay(Held(first), at + 2, LowByte(word[2])), (at + 2) + 1, HighByte(word[2]))
  BY <1>1, <1>2, <1>4, Stored16
<1> HIDE DEF second
<1>6. QED
  BY <1>1, <1>3, <1>4, <1>5 DEF at

-----------------------------------------------------------------------------
(* Reads, byte by byte.                                                       *)

LEMMA PlainIs ==
  ASSUME NEW addr \in Nat, IsPlain(addr)
  PROVE  /\ Region(addr) # "Misc"
         /\ Region(addr) = "Vip" => Resolve(addr).kind \in {"vram", "unmapped"}
<1>1. Resolve(addr).kind \in {"vram", "register", "unmapped"}
  BY PlacesBeside
<1>2. Resolve(addr).kind = "register" => addr % VIP_LEN \in REGISTERS_START..REGISTERS_END
  <2>1. Resolve(addr).kind = "register" => 385024 <= addr % 524288 /\ addr % 524288 <= 393215
    BY PlacesBeside
  <2>2. addr % 524288 \in Int
    BY SMT
  <2>3. QED
    BY <2>1, <2>2, VipLengths, SMT
<1>3. QED
  BY <1>1, <1>2 DEF IsPlain

LEMMA FoundIs ==
  ASSUME NEW b, NEW addr
  PROVE  /\ Location(addr) = NoCell => Found(Held(b), addr) = 0
         /\ Location(addr) \in Places => Found(Held(b), addr) = Content(b, Location(addr))
<1>1. NoCell \notin Places
  BY DEF NoCell, Places, Kinds
<1>2. QED
  BY <1>1 DEF Found, Held

LEMMA FoundCell ==
  ASSUME NEW b, NEW addr, Location(addr) \in Places \cup {NoCell}, NEW n
  PROVE  /\ Location(addr) = <<"vram", n>> => Found(Held(b), addr) = Peek(b.vip.vram, n)
         /\ Location(addr) = <<"wram", n>> => Found(Held(b), addr) = Peek(b.wram, n)
         /\ Location(addr) = <<"sram", n>> => Found(Held(b), addr) = Peek(b.sram, n)
         /\ Location(addr) = <<"rom", n>>  => Found(Held(b), addr) = Peek(Rom, n)
<1>1. ASSUME NEW k \in Kinds, Location(addr) = <<k, n>>
      PROVE  Found(Held(b), addr) = Content(b, <<k, n>>)
  <2>1. <<k, n>> # NoCell
    BY DEF Kinds, NoCell
  <2>2. QED
    BY <1>1, <2>1, FoundIs
<1>2. "vram" \in Kinds /\ "wram" \in Kinds /\ "sram" \in Kinds /\ "rom" \in Kinds
  BY DEF Kinds
<1>3. QED
  BY <1>1, <1>2, ContentIs

LEMMA FoundAt ==
  ASSUME NEW b, NEW addr \in Nat, addr < 134217728
  PROVE  /\ Region(addr) = "Vip" => Found(Held(b), addr) = IF Resolve(addr).kind = "vram"
                                                           THEN Peek(b.vip.vram, Resolve(addr).at) ELSE 0
         /\ Region(addr) = "Wram" => Found(Held(b), addr) = Peek(b.wram, addr % WRAM_LEN)
         /\ Region(addr) = "CartRam" => Found(Held(b), addr) = ReadSram(b, addr)
         /\ Region(addr) = "CartRom" => Found(Held(b), addr) = ReadRom(addr)
         /\ Region(addr) \notin {"Vip", "Wram", "CartRam", "CartRom"} => Found(Held(b), addr) = 0
<1> DEFINE found == Found(Held(b), addr)
           location == Location(addr)
<1>1. location \in Places \cup {NoCell}
  BY LocationsArePlaces
<1>2. location = NoCell => found = 0
  BY FoundIs
<1>3. /\ Region(addr) = "Vip" => location = IF Resolve(addr).kind = "vram"
                                            THEN <<"vram", Resolve(addr).at>> ELSE NoCell
      /\ Region(addr) = "Wram" => location = <<"wram", addr % WRAM_LEN>>
      /\ Region(addr) = "CartRam" => location = IF SRAM_LEN = 0 THEN NoCell
                                                ELSE <<"sram", addr % SRAM_LEN>>
      /\ Region(addr) = "CartRom" => location = <<"rom", addr % ROM_LEN>>
      /\ Region(addr) \notin {"Vip", "Wram", "CartRam", "CartRom"} => location = NoCell
  BY LocationIs
<1>4. /\ location = <<"vram", Resolve(addr).at>> => found = Peek(b.vip.vram, Resolve(addr).at)
      /\ location = <<"wram", addr % WRAM_LEN>> => found = Peek(b.wram, addr % WRAM_LEN)
      /\ location = <<"sram", addr % SRAM_LEN>> => found = Peek(b.sram, addr % SRAM_LEN)
      /\ location = <<"rom", addr % ROM_LEN>> => found = Peek(Rom, addr % ROM_LEN)
  BY <1>1, FoundCell
<1>5. /\ ReadSram(b, addr) = IF SRAM_LEN = 0 THEN 0 ELSE Peek(b.sram, addr % SRAM_LEN)
      /\ ReadRom(addr) = Peek(Rom, addr % ROM_LEN)
  BY DEF ReadSram, ReadRom
<1> HIDE DEF found, location
<1>6. QED
  BY <1>2, <1>3, <1>4, <1>5 DEF found

LEMMA ReadByRegion ==
  ASSUME NEW b, NEW addr
  PROVE  /\ Region(addr) = "Wram" => ReadU8(b, addr) = Peek(b.wram, addr % WRAM_LEN)
         /\ Region(addr) = "CartRam" => ReadU8(b, addr) = ReadSram(b, addr)
         /\ Region(addr) = "CartRom" => ReadU8(b, addr) = ReadRom(addr)
         /\ Region(addr) = "Misc" => ReadU8(b, addr) = ReadMisc(b, addr)
         /\ Region(addr) = "Vip" => ReadU8(b, addr) = VipReadU8(b.vip, addr)
         /\ Region(addr) \notin {"Wram", "CartRam", "CartRom", "Misc", "Vip"} => ReadU8(b, addr) = 0
  BY DEF ReadU8

\* A byte of memory is what is found at its address.
LEMMA Read8 ==
  ASSUME NEW b, NEW addr \in Nat, addr < 134217728, IsPlain(addr)
  PROVE  ReadU8(b, addr) = Found(Held(b), addr)
<1>1. CASE Region(addr) = "Vip"
  <2>1. Resolve(addr).kind \in {"vram", "unmapped"}
    BY <1>1, PlainIs
  <2>2. VipReadU8(b.vip, addr) = IF Resolve(addr).kind = "vram"
                                 THEN Peek(b.vip.vram, Resolve(addr).at) ELSE 0
    BY <2>1 DEF VipReadU8
  <2>3. QED
    BY <1>1, <2>2, FoundAt, ReadByRegion
<1>2. CASE Region(addr) \in {"Wram", "CartRam", "CartRom"}
  BY <1>2, FoundAt, ReadByRegion
<1>3. CASE Region(addr) \notin {"Vip", "Wram", "CartRam", "CartRom"}
  <2>1. Region(addr) # "Misc"
    BY PlainIs
  <2>2. ReadU8(b, addr) = 0
    BY <1>3, <2>1, ReadByRegion
  <2>3. Found(Held(b), addr) = 0
    BY <1>3, FoundAt
  <2>4. QED
    BY <2>2, <2>3
<1>4. QED
  BY <1>1, <1>2, <1>3

LEMMA Typed8 ==
  ASSUME NEW b, TypedBus(b), NEW addr
  PROVE  ReadU8(b, addr) \in Byte
<1>1. /\ HoldsBytes(b.vip.vram) /\ HoldsBytes(b.wram) /\ HoldsBytes(b.sram) /\ HoldsBytes(Rom)
      /\ b.vip.regs.settings \in Settings
  BY BusAssumption DEF TypedBus, HoldsBytes
<1>2. \A n : /\ Peek(b.vip.vram, n) \in Byte /\ Peek(b.wram, n) \in Byte
             /\ Peek(b.sram, n) \in Byte /\ Peek(Rom, n) \in Byte
  BY <1>1, Peeked
<1>3. 0 \in Byte
  BY ByteIsHalf
<1>4. ReadSram(b, addr) \in Byte /\ ReadRom(addr) \in Byte
  BY <1>2, <1>3 DEF ReadSram, ReadRom
<1>5. ReadMisc(b, addr) \in Byte
  <2>1. WaitRead(b.wait) \in Byte
    <3>1. Number(b.wait) \in Half /\ Number(b.wait) <= 3
      BY NumberIs DEF TypedBus
    <3>2. Number(b.wait) \in Int /\ Number(b.wait) >= 0
      BY <3>1, HalfIs
    <3>3. QED
      BY <3>1, <3>2, ByteIs, SMT DEF WaitRead
  <2>2. DEVICE_BYTE \in Byte
    BY BusAssumption
  <2>3. addr % 64 = WaitRegister => addr % 64 \notin TimerRegister \cup PadRegister
    BY DEF TimerRegister, PadRegister, WaitRegister
  <2>4. ReadMisc(b, addr) \in {DEVICE_BYTE, WaitRead(b.wait), 0}
    BY <2>3 DEF ReadMisc
  <2>5. QED
    BY <1>3, <2>1, <2>2, <2>4
<1>6. VipReadU8(b.vip, addr) \in Byte
  <2> DEFINE target == Resolve(addr)
             half == ReadRegister(b.vip.regs, Even(target.at))
  <2>1. half \in Half
    BY <1>1, RegisterRead
  <2>2. LowByte(half) \in Byte /\ HighByte(half) \in Byte
    BY <2>1, BytesAre
  <2>3. VipReadU8(b.vip, addr) \in {Peek(b.vip.vram, target.at), LowByte(half), HighByte(half), 0}
    BY DEF VipReadU8
  <2>4. QED
    BY <1>2, <1>3, <2>2, <2>3
<1>7. QED
  BY <1>2, <1>3, <1>4, <1>5, <1>6, ReadByRegion

LEMMA ReadHalfByRegion ==
  ASSUME NEW b, NEW addr, NEW at, at = Even(addr)
  PROVE  /\ Region(at) = "Vip" => ReadU16(b, addr) = VipReadU16(b.vip, at)
         /\ IsMemory(at) => ReadU16(b, addr) = Halfword(ReadU8(b, at), ReadU8(b, at + 1))
         /\ Region(at) # "Vip" /\ ~IsMemory(at) => ReadU16(b, addr) = 0
<1>1. IsMemory(at) => Region(at) # "Vip"
  BY DEF IsMemory
<1>2. QED
  BY <1>1 DEF ReadU16

LEMMA Read16 ==
  ASSUME NEW b, NEW addr, NEW at \in Nat, at + 1 < 134217728, at % 2 = 0, at = Even(addr), IsPlain(at), IsPlain(at + 1)
  PROVE  ReadU16(b, addr) = Halfword(Found(Held(b), at), Found(Held(b), at + 1))
<1>1. at + 1 \in Nat /\ at < 134217728
  BY SMT
<1>2. Region(at + 1) = Region(at)
  BY <1>1, RegionsHold
<1>3. CASE Region(at) = "Vip"
  <2>1. /\ Resolve(at + 1).kind = Resolve(at).kind
        /\ Resolve(at).kind = "vram" => Resolve(at + 1).at = Resolve(at).at + 1
    BY PlacesBeside
  <2>2. Resolve(at).kind \in {"vram", "unmapped"}
    BY <1>3, PlainIs
  <2>3. Even(at) = at
    BY DEF Even
  <2>4. VipReadU16(b.vip, at) = IF Resolve(at).kind = "vram"
                                THEN Halfword(Peek(b.vip.vram, Resolve(at).at), Peek(b.vip.vram, Resolve(at).at + 1))
                                ELSE 0
    BY <2>2, <2>3 DEF VipReadU16
  <2>5. /\ Found(Held(b), at) = IF Resolve(at).kind = "vram" THEN Peek(b.vip.vram, Resolve(at).at) ELSE 0
        /\ Found(Held(b), at + 1) = IF Resolve(at + 1).kind = "vram" THEN Peek(b.vip.vram, Resolve(at + 1).at) ELSE 0
    BY <1>1, <1>2, <1>3, FoundAt
  <2>6. Halfword(0, 0) = 0
    BY SMT DEF Halfword
  <2>7. ReadU16(b, addr) = VipReadU16(b.vip, at)
    BY <1>3, ReadHalfByRegion
  <2>8. QED
    BY <2>1, <2>4, <2>5, <2>6, <2>7
<1>4. CASE IsMemory(at)
  <2>1. ReadU8(b, at) = Found(Held(b), at) /\ ReadU8(b, at + 1) = Found(Held(b), at + 1)
    BY <1>1, Read8
  <2>2. QED
    BY <1>4, <2>1, ReadHalfByRegion
<1>5. CASE Region(at) # "Vip" /\ ~IsMemory(at)
  <2>1. Region(at) \notin {"Vip", "Wram", "CartRam", "CartRom"}
    BY <1>5 DEF IsMemory
  <2>2. Found(Held(b), at) = 0 /\ Found(Held(b), at + 1) = 0
    BY <1>1, <1>2, <2>1, FoundAt
  <2>3. Halfword(0, 0) = 0
    BY SMT DEF Halfword
  <2>4. QED
    BY <1>5, <2>2, <2>3, ReadHalfByRegion
<1>6. QED
  BY <1>3, <1>4, <1>5

LEMMA Typed16 ==
  ASSUME NEW b, TypedBus(b), NEW addr
  PROVE  ReadU16(b, addr) \in Half
<1> DEFINE at == Even(addr)
<1>1. 0 \in Half
  BY ByteIsHalf
<1>2. ReadU8(b, at) \in Byte /\ ReadU8(b, at + 1) \in Byte
  BY Typed8
<1>3. VipReadU16(b.vip, at) \in Half
  <2> DEFINE target == Resolve(Even(at))
  <2>1. HoldsBytes(b.vip.vram) /\ b.vip.regs.settings \in Settings
    BY DEF TypedBus
  <2>2. Peek(b.vip.vram, target.at) \in Byte /\ Peek(b.vip.vram, target.at + 1) \in Byte
    BY <2>1, Peeked
  <2>3. Halfword(Peek(b.vip.vram, target.at), Peek(b.vip.vram, target.at + 1)) \in Half
    BY <2>2, HalfwordIs
  <2>4. ReadRegister(b.vip.regs, target.at) \in Half
    BY <2>1, RegisterRead
  <2>5. QED
    BY <1>1, <2>3, <2>4 DEF VipReadU16
<1>4. Halfword(ReadU8(b, at), ReadU8(b, at + 1)) \in Half
  BY <1>2, HalfwordIs
<1>5. QED
  BY <1>1, <1>3, <1>4, ReadHalfByRegion

LEMMA Typed32 ==
  ASSUME NEW b, TypedBus(b), NEW addr
  PROVE  ReadU32(b, addr) \in Word
<1> DEFINE at == AlignedDown(addr)
<1>1. 0 \in Half
  BY ByteIsHalf
<1>2. ReadU16(b, at) \in Half /\ ReadU16(b, at + 2) \in Half
  BY Typed16
<1>3. VipReadU16(b.vip, at) \in Half /\ VipReadU16(b.vip, at + 2) \in Half
  <2>1. ASSUME NEW x PROVE VipReadU16(b.vip, x) \in Half
    <3> DEFINE target == Resolve(Even(x))
    <3>1. HoldsBytes(b.vip.vram) /\ b.vip.regs.settings \in Settings
      BY DEF TypedBus
    <3>2. Peek(b.vip.vram, target.at) \in Byte /\ Peek(b.vip.vram, target.at + 1) \in Byte
      BY <3>1, Peeked
    <3>3. Halfword(Peek(b.vip.vram, target.at), Peek(b.vip.vram, target.at + 1)) \in Half
      BY <3>2, HalfwordIs
    <3>4. ReadRegister(b.vip.regs, target.at) \in Half
      BY <3>1, RegisterRead
    <3>5. QED
      BY <1>1, <3>3, <3>4 DEF VipReadU16
  <2>2. QED
    BY <2>1
<1>4. ReadU32(b, addr) \in {<<VipReadU16(b.vip, at), VipReadU16(b.vip, at + 2)>>,
                            <<ReadU16(b, at), ReadU16(b, at + 2)>>, <<0, 0>>}
  BY DEF ReadU32, VipReadU32
<1>5. QED
  BY <1>1, <1>2, <1>3, <1>4 DEF Word

-----------------------------------------------------------------------------
(* Accesses: so many bytes from an address on, the highest laid last.         *)

Over(held, base, size, bytes) ==
  [cell \in Places |->
     LET reaching == {k \in 1..size : Location(base + k - 1) = cell}
     IN  IF cell[1] = "rom" \/ reaching = {} THEN held[cell]
         ELSE bytes[CHOOSE k \in reaching : \A j \in reaching : j <= k]]

LEMMA Topmost ==
  ASSUME NEW S \in SUBSET Nat, NEW k \in S, \A j \in S : j <= k
  PROVE  (CHOOSE m \in S : \A j \in S : j <= m) = k
<1> DEFINE top == CHOOSE m \in S : \A j \in S : j <= m
<1>1. top \in S /\ \A j \in S : j <= top
  OBVIOUS
<1> HIDE DEF top
<1>2. top \in Nat /\ k \in Nat /\ top <= k /\ k <= top
  BY <1>1
<1>3. top = k
  BY <1>2
<1>4. QED
  BY <1>3 DEF top

LEMMA OverNone ==
  ASSUME NEW held \in [Places -> Byte], NEW base, NEW bytes
  PROVE  Over(held, base, 0, bytes) = held
<1>1. ASSUME NEW cell PROVE {k \in 1..0 : Location(base + k - 1) = cell} = {}
  OBVIOUS
<1>2. Over(held, base, 0, bytes) = [cell \in Places |-> held[cell]]
  BY <1>1 DEF Over
<1>3. QED
  BY <1>2

LEMMA OverMore ==
  ASSUME NEW held, NEW base \in Nat, NEW size \in Nat, NEW bytes
  PROVE  Over(held, base, size + 1, bytes) = Lay(Over(held, base, size, bytes), base + size, bytes[size + 1])
<1>1. ASSUME NEW cell \in Places
      PROVE  Over(held, base, size + 1, bytes)[cell]
               = IF Location(base + size) = cell /\ cell[1] # "rom" THEN bytes[size + 1]
                 ELSE Over(held, base, size, bytes)[cell]
  <2> DEFINE Reaches(k) == Location(base + k - 1) = cell
             few  == {k \in 1..size : Reaches(k)}
             more == {k \in 1..(size + 1) : Reaches(k)}
  <2>1. /\ Over(held, base, size, bytes)[cell] =
             IF cell[1] = "rom" \/ few = {} THEN held[cell]
             ELSE bytes[CHOOSE k \in few : \A j \in few : j <= k]
        /\ Over(held, base, size + 1, bytes)[cell] =
             IF cell[1] = "rom" \/ more = {} THEN held[cell]
             ELSE bytes[CHOOSE k \in more : \A j \in more : j <= k]
    BY DEF Over
  <2>2. Reaches(size + 1) <=> Location(base + size) = cell
    <3>1. base + (size + 1) - 1 = base + size
      OBVIOUS
    <3>2. QED
      BY <3>1
  <2> HIDE DEF Reaches
  <2>3. 1..(size + 1) = (1..size) \cup {size + 1}
    OBVIOUS
  <2>4. CASE Reaches(size + 1)
    <3>1. more \in SUBSET Nat /\ size + 1 \in more /\ \A j \in more : j <= size + 1
      BY <2>4
    <3> HIDE DEF more
    <3>2. (CHOOSE k \in more : \A j \in more : j <= k) = size + 1
      BY <3>1, Topmost
    <3>3. QED
      BY <2>1, <2>2, <2>4, <3>1, <3>2
  <2>5. CASE ~Reaches(size + 1)
    <3>1. more = few
      BY <2>3, <2>5
    <3>2. QED
      BY <2>1, <2>2, <2>5, <3>1
  <2>6. QED
    BY <2>4, <2>5
<1>2. Over(held, base, size + 1, bytes) = [cell \in Places |-> Over(held, base, size + 1, bytes)[cell]]
  BY DEF Over
<1>3. QED
  BY <1>1, <1>2 DEF Lay

LEMMA Overs ==
  ASSUME NEW held \in [Places -> Byte], NEW base \in Nat, NEW bytes
  PROVE  /\ Over(held, base, 1, bytes) = Lay(held, base, bytes[1])
         /\ Over(held, base, 2, bytes) = Lay(Lay(held, base, bytes[1]), base + 1, bytes[2])
         /\ Over(held, base, 4, bytes) = Lay(Lay(Lay(Lay(held, base, bytes[1]), base + 1, bytes[2]),
                                                 base + 2, bytes[3]), base + 3, bytes[4])
<1>1. Over(held, base, 0, bytes) = held
  BY OverNone
<1>2. \A size \in Nat : Over(held, base, size + 1, bytes)
                          = Lay(Over(held, base, size, bytes), base + size, bytes[size + 1])
  BY OverMore
<1>3. 0 + 1 = 1 /\ 1 + 1 = 2 /\ 2 + 1 = 3 /\ 3 + 1 = 4 /\ base + 0 = base
      /\ 0 \in Nat /\ 1 \in Nat /\ 2 \in Nat /\ 3 \in Nat
  OBVIOUS
<1>4. Over(held, base, 1, bytes) = Lay(held, base, bytes[1])
  BY <1>1, <1>2, <1>3
<1>5. Over(held, base, 2, bytes) = Lay(Over(held, base, 1, bytes), base + 1, bytes[2])
  BY <1>2, <1>3
<1>6. Over(held, base, 3, bytes) = Lay(Over(held, base, 2, bytes), base + 2, bytes[3])
  BY <1>2, <1>3
<1>7. Over(held, base, 4, bytes) = Lay(Over(held, base, 3, bytes), base + 3, bytes[4])
  BY <1>2, <1>3
<1>8. QED
  BY <1>4, <1>5, <1>6, <1>7

\* What reaches no cell of a set leaves it as it is; so does writing back what
\* is there.
LEMMA OverElsewhere ==
  ASSUME NEW held, NEW base, NEW size, NEW bytes, NEW cell \in Places,
         \A k \in 1..size : Location(base + k - 1) # cell
  PROVE  Over(held, base, size, bytes)[cell] = held[cell]
<1>1. {k \in 1..size : Location(base + k - 1) = cell} = {}
  OBVIOUS
<1>2. QED
  BY <1>1 DEF Over

Gives(held, base, size, bytes) == \A k \in 1..size : bytes[k] = Found(held, base + k - 1)

LEMMA OverSame ==
  ASSUME NEW held, NEW base, NEW size \in {1, 2, 4}, NEW bytes, Gives(held, base, size, bytes),
         NEW cell \in Places
  PROVE  Over(held, base, size, bytes)[cell] = held[cell]
<1> DEFINE reaching == {k \in 1..size : Location(base + k - 1) = cell}
<1>1. CASE reaching = {}
  BY <1>1 DEF Over
<1>2. CASE reaching # {}
  <2>1. PICK k \in reaching : \A j \in reaching : j <= k
    <3>1. reaching \subseteq 1..4
      OBVIOUS
    <3>2. PICK one \in reaching : TRUE
      BY <1>2
    <3> HIDE DEF reaching
    <3>3. \A j \in reaching : j \in {1, 2, 3, 4}
      BY <3>1
    <3>4. QED
      BY <3>2, <3>3
  <2>2. (CHOOSE m \in reaching : \A j \in reaching : j <= m) = k
    <3>1. reaching \in SUBSET Nat
      OBVIOUS
    <3> HIDE DEF reaching
    <3>2. QED
      BY <2>1, <3>1, Topmost
  <2>3. bytes[k] = held[cell]
    <3>1. cell # NoCell
      BY DEF NoCell, Places, Kinds
    <3>2. k \in 1..size /\ Location(base + k - 1) = cell
      OBVIOUS
    <3>3. QED
      BY <3>1, <3>2 DEF Found, Gives
  <2>4. Over(held, base, size, bytes)[cell]
          = IF cell[1] = "rom" \/ reaching = {} THEN held[cell]
            ELSE bytes[CHOOSE m \in reaching : \A j \in reaching : j <= m]
    BY DEF Over
  <2> HIDE DEF reaching
  <2>5. QED
    BY <2>2, <2>3, <2>4
<1>3. QED
  BY <1>1, <1>2

\* The bytes of a word, and the word of the bytes.
LEMMA BytesOfWord ==
  ASSUME NEW word \in Word
  PROVE  /\ Bytes(word) \in [1..4 -> Byte]
         /\ Bytes(word)[1] = LowByte(word[1]) /\ Bytes(word)[2] = HighByte(word[1])
         /\ Bytes(word)[3] = LowByte(word[2]) /\ Bytes(word)[4] = HighByte(word[2])
<1>1. word[1] \in Half /\ word[2] \in Half
  BY DEF Word
<1>2. /\ LowByte(word[1]) \in Byte /\ HighByte(word[1]) \in Byte
      /\ LowByte(word[2]) \in Byte /\ HighByte(word[2]) \in Byte
  BY <1>1, BytesAre
<1>3. \A S, w, x, y, z : w \in S /\ x \in S /\ y \in S /\ z \in S => <<w, x, y, z>> \in [1..4 -> S]
  OBVIOUS
<1>4. Bytes(word) \in [1..4 -> Byte]
  BY <1>2, <1>3 DEF Bytes
<1>5. QED
  BY <1>4 DEF Bytes

LEMMA WordsApart ==
  ASSUME NEW one \in Word, NEW other \in Word, Bytes(one) = Bytes(other)
  PROVE  one = other
<1>1. one[1] \in Half /\ one[2] \in Half /\ other[1] \in Half /\ other[2] \in Half
  BY DEF Word
<1>2. /\ LowByte(one[1]) = LowByte(other[1]) /\ HighByte(one[1]) = HighByte(other[1])
      /\ LowByte(one[2]) = LowByte(other[2]) /\ HighByte(one[2]) = HighByte(other[2])
  BY BytesOfWord
<1>3. /\ \A half \in {one[1], one[2], other[1], other[2]} : half = Halfword(LowByte(half), HighByte(half))
  BY <1>1, BytesAre
<1>4. one[1] = other[1] /\ one[2] = other[2]
  BY <1>2, <1>3
<1>5. one = <<one[1], one[2]>> /\ other = <<other[1], other[2]>>
  BY DEF Word
<1>6. QED
  BY <1>4, <1>5

BaseOf(addr, size) == addr - (addr % size)

LEMMA BaseIs ==
  ASSUME NEW addr \in Nat
  PROVE  BaseOf(addr, 1) = addr /\ BaseOf(addr, 2) = Even(addr) /\ BaseOf(addr, 4) = AlignedDown(addr)
<1>1. addr % 1 = 0
  BY SMT
<1>2. QED
  BY <1>1 DEF BaseOf, Even, AlignedDown

\* A store lays the bytes of its size.
LEMMA StoredOver ==
  ASSUME TypedBus(bus), NEW op \in Stores, NEW addr \in Nat, addr < 134217728, NEW word \in Word
  PROVE  LET new == Stored(op, addr, word)
         IN  /\ TypedBus(new)
             /\ Held(new) = Over(Held(bus), BaseOf(addr, Size(op)), Size(op), Bytes(word))
<1> DEFINE new == Stored(op, addr, word)
           base == BaseOf(addr, Size(op))
           bytes == Bytes(word)
<1>1. word[1] \in Half /\ word[2] \in Half
  BY DEF Word
<1>2. /\ bytes[1] = LowByte(word[1]) /\ bytes[2] = HighByte(word[1])
      /\ bytes[3] = LowByte(word[2]) /\ bytes[4] = HighByte(word[2])
  BY BytesOfWord
<1>3. Held(bus) \in [Places -> Byte]
  BY HeldIsBytes
<1>4. CASE op \in {"StB", "OutB"}
  <2>1. new = StoreU8(bus, addr, word[1]) /\ Size(op) = 1
    BY <1>4 DEF Stored, Size
  <2>2. base = addr
    BY <2>1, BaseIs
  <2>3. TypedBus(new) /\ Held(new) = Lay(Held(bus), addr, LowByte(word[1]))
    BY <1>1, <2>1, Stored8
  <2> HIDE DEF new, base, bytes
  <2>4. Over(Held(bus), addr, 1, bytes) = Lay(Held(bus), addr, bytes[1])
    BY <1>3, Overs
  <2>5. QED
    BY <1>2, <2>1, <2>2, <2>3, <2>4 DEF new, base, bytes
<1>5. CASE op \in {"StH", "OutH"}
  <2>1. new = WriteU16(bus, addr, word[1]) /\ Size(op) = 2
    BY <1>5 DEF Stored, Size
  <2>2. base = Even(addr) /\ Even(addr) \in Nat
    BY <2>1, BaseIs, Aligned
  <2>3. /\ TypedBus(new)
        /\ Held(new) = Lay(Lay(Held(bus), Even(addr), LowByte(word[1])), Even(addr) + 1, HighByte(word[1]))
    BY <1>1, <2>1, Stored16
  <2> HIDE DEF new, base, bytes
  <2>4. Over(Held(bus), base, 2, bytes) = Lay(Lay(Held(bus), base, bytes[1]), base + 1, bytes[2])
    BY <1>3, <2>2, Overs
  <2>5. QED
    BY <1>2, <2>1, <2>2, <2>3, <2>4 DEF new, base, bytes
<1>6. CASE op \in {"StW", "OutW"}
  <2>1. new = WriteU32(bus, addr, word) /\ Size(op) = 4
    BY <1>6 DEF Stored, Size
  <2>2. base = AlignedDown(addr) /\ AlignedDown(addr) \in Nat
    BY <2>1, BaseIs, Aligned
  <2>3. /\ TypedBus(new)
        /\ Held(new) = Lay(Lay(Lay(Lay(Held(bus), AlignedDown(addr), LowByte(word[1])),
                                   AlignedDown(addr) + 1, HighByte(word[1])),
                               AlignedDown(addr) + 2, LowByte(word[2])), AlignedDown(addr) + 3, HighByte(word[2]))
    BY <2>1, Stored32
  <2> HIDE DEF new, base, bytes
  <2>4. Over(Held(bus), base, 4, bytes) = Lay(Lay(Lay(Lay(Held(bus), base, bytes[1]), base + 1, bytes[2]),
                                                 base + 2, bytes[3]), base + 3, bytes[4])
    BY <1>3, <2>2, Overs
  <2>5. QED
    BY <1>2, <2>1, <2>2, <2>3, <2>4 DEF new, base, bytes
<1>7. QED
  BY <1>4, <1>5, <1>6 DEF Stores

LEMMA WordOver ==
  ASSUME TypedBus(bus), NEW addr \in Nat, addr < 134217728, NEW word \in Word
  PROVE  LET new == WriteU32(bus, addr, word)
         IN  /\ TypedBus(new)
             /\ Held(new) = Over(Held(bus), BaseOf(addr, 4), 4, Bytes(word))
<1>1. "StW" \in Stores /\ Size("StW") = 4 /\ Stored("StW", addr, word) = WriteU32(bus, addr, word)
  BY DEF Stores, Size, Stored
<1>2. QED
  BY <1>1, StoredOver

\* A load shows the bytes of its size, and above them zero or the sign.
Spread(held, base, size, signed) ==
  [k \in 1..4 |-> IF k <= size THEN Found(held, base + k - 1)
                  ELSE IF signed /\ Found(held, base + size - 1) >= 128 THEN 255 ELSE 0]

LEMMA SpreadIs ==
  ASSUME NEW held, NEW base, NEW size, NEW signed, NEW word \in Word,
         NEW fill, fill = IF signed /\ Found(held, base + size - 1) >= 128 THEN 255 ELSE 0,
         \A k \in 1..4 : Bytes(word)[k] = IF k <= size THEN Found(held, base + k - 1) ELSE fill
  PROVE  Bytes(word) = Spread(held, base, size, signed)
<1>1. Bytes(word) \in [1..4 -> Byte]
  BY BytesOfWord
<1>2. Bytes(word) = [k \in 1..4 |-> Bytes(word)[k]]
  BY <1>1
<1>3. QED
  BY <1>2 DEF Spread

LEMMA Extended8 ==
  ASSUME NEW byte \in Byte
  PROVE  LET word == SignExtendByte(byte)
             fill == IF byte >= 128 THEN 255 ELSE 0
         IN  /\ word \in Word /\ LowByte(word[1]) = byte /\ HighByte(word[1]) = fill
             /\ LowByte(word[2]) = fill /\ HighByte(word[2]) = fill
<1>1. byte \in Int /\ byte >= 0 /\ byte < 256
  BY ByteIs
<1>2. 2^7 = 128 /\ \hFF00 = 65280 /\ \hFFFF = 65535
  BY SMT
<1>3. /\ LowByte(byte + 65280) = byte /\ HighByte(byte + 65280) = 255
      /\ LowByte(byte) = byte /\ HighByte(byte) = 0
      /\ LowByte(65535) = 255 /\ HighByte(65535) = 255 /\ LowByte(0) = 0 /\ HighByte(0) = 0
  BY <1>1, SMT DEF LowByte, HighByte
<1>4. byte + 65280 \in Half /\ 65535 \in Half /\ 0 \in Half /\ byte \in Half
  BY <1>1, HalfIs
<1>5. SignExtendByte(byte) = IF byte >= 128 THEN <<byte + 65280, 65535>> ELSE <<byte, 0>>
  BY <1>2 DEF SignExtendByte
<1>6. QED
  BY <1>3, <1>4, <1>5 DEF Word

LEMMA Extended16 ==
  ASSUME NEW half \in Half
  PROVE  LET word == SignExtendHalfword(half)
             fill == IF HighByte(half) >= 128 THEN 255 ELSE 0
         IN  /\ word \in Word /\ word[1] = half
             /\ LowByte(word[2]) = fill /\ HighByte(word[2]) = fill
<1>1. half \in Int /\ half >= 0 /\ half < 65536
  BY HalfIs
<1>2. 2^15 = 32768 /\ \hFFFF = 65535
  BY SMT
<1>3. /\ HighByte(half) >= 128 <=> half >= 32768
      /\ LowByte(65535) = 255 /\ HighByte(65535) = 255 /\ LowByte(0) = 0 /\ HighByte(0) = 0
  BY <1>1, SMT DEF LowByte, HighByte
<1>4. 65535 \in Half /\ 0 \in Half
  BY HalfIs
<1>5. SignExtendHalfword(half) = IF half >= 32768 THEN <<half, 65535>> ELSE <<half, 0>>
  BY <1>2 DEF SignExtendHalfword
<1>6. QED
  BY <1>3, <1>4, <1>5 DEF Word

\* The bytes of an access are in the word of its address.
LEMMA Within4 ==
  ASSUME NEW addr \in Nat, NEW size \in {1, 2, 4}, NEW k \in 1..size
  PROVE  \E j \in 0..3 : BaseOf(addr, size) + k - 1 = AlignedDown(addr) + j
<1>1. addr % 4 \in 0..3 /\ addr % 2 \in 0..1
  BY SMT
<1>2. CASE size = 1
  <2>1. BaseOf(addr, size) = addr /\ k = 1
    BY <1>2, BaseIs
  <2>2. BaseOf(addr, size) + k - 1 = AlignedDown(addr) + (addr % 4)
    BY <1>1, <2>1 DEF AlignedDown
  <2>3. QED
    BY <1>1, <2>2
<1>3. CASE size = 2
  <2>1. BaseOf(addr, size) = Even(addr) /\ k \in {1, 2}
    BY <1>3, BaseIs
  <2>2. (addr % 4) - (addr % 2) \in {0, 2}
    BY SMT
  <2>3. (addr % 4) - (addr % 2) + (k - 1) \in 0..3
    BY <2>1, <2>2
  <2>4. BaseOf(addr, size) + k - 1 = AlignedDown(addr) + ((addr % 4) - (addr % 2) + (k - 1))
    BY <1>1, <2>1 DEF AlignedDown, Even
  <2>5. QED
    BY <2>3, <2>4
<1>4. CASE size = 4
  <2>1. BaseOf(addr, size) = AlignedDown(addr) /\ k - 1 \in 0..3
    BY <1>4, BaseIs
  <2>2. BaseOf(addr, size) + k - 1 = AlignedDown(addr) + (k - 1)
    BY <1>1, <2>1 DEF AlignedDown
  <2>3. QED
    BY <2>1, <2>2
<1>5. QED
  BY <1>2, <1>3, <1>4

PlainWord(addr) == \A k \in 0..3 : IsPlain(AlignedDown(addr) + k)

LEMMA PlainBytes ==
  ASSUME NEW addr \in Nat, PlainWord(addr), NEW size \in {1, 2, 4}, NEW k \in 1..size
  PROVE  IsPlain(BaseOf(addr, size) + k - 1)
  BY Within4 DEF PlainWord

LEMMA Shown16 ==
  ASSUME NEW b, NEW addr \in Nat, addr < 134217728, PlainWord(addr)
  PROVE  ReadU16(b, addr) = Halfword(Found(Held(b), BaseOf(addr, 2)), Found(Held(b), BaseOf(addr, 2) + 1))
<1> DEFINE at == Even(addr)
<1>1. at \in Nat /\ at < 134217727 /\ at % 2 = 0 /\ BaseOf(addr, 2) = at
  BY Aligned, BaseIs
<1>2. at + 1 - 1 = at /\ at + 2 - 1 = at + 1 /\ at + 1 < 134217728
  BY <1>1, SMT
<1>3. IsPlain(at) /\ IsPlain(at + 1)
  <2>1. IsPlain(BaseOf(addr, 2) + 1 - 1) /\ IsPlain(BaseOf(addr, 2) + 2 - 1)
    BY PlainBytes, SMT
  <2> HIDE DEF at
  <2>2. QED
    BY <1>1, <1>2, <2>1
<1>4. at = Even(addr)
  OBVIOUS
<1> HIDE DEF at
<1>5. QED
  BY <1>1, <1>2, <1>3, <1>4, Read16

LEMMA Shown32 ==
  ASSUME NEW b, TypedBus(b), NEW addr \in Nat, addr < 134217728, PlainWord(addr)
  PROVE  LET word == ReadU32(b, addr)
             base == BaseOf(addr, 4)
         IN  /\ word \in Word
             /\ \A k \in 1..4 : Bytes(word)[k] = Found(Held(b), base + k - 1)
<1> DEFINE word == ReadU32(b, addr)
           at == AlignedDown(addr)
           held == Held(b)
<1>1. /\ at \in Nat /\ at + 2 \in Nat /\ at + 3 < 134217728 /\ at % 4 = 0
      /\ Even(at) = at /\ Even(at + 2) = at + 2 /\ (at + 2) + 1 = at + 3
      /\ Region(at + 2) = Region(at)
  BY WordAt
<1>2. BaseOf(addr, 4) = at
  BY BaseIs
<1>3. IsPlain(at) /\ IsPlain(at + 1) /\ IsPlain(at + 2) /\ IsPlain(at + 3)
  <2>1. at + 0 = at
    BY <1>1
  <2> HIDE DEF at
  <2>2. \A k \in 0..3 : IsPlain(at + k)
    BY DEF PlainWord, at
  <2>3. QED
    BY <2>1, <2>2
<1>4. word \in Word
  BY Typed32
<1>5. word = <<ReadU16(b, at), ReadU16(b, at + 2)>>
  <2>1. IsBus(b) /\ at = AlignedDown(addr)
    BY TypedBusIs
  <2> HIDE DEF at
  <2>2. ReadU32(b, addr) = <<ReadU16(b, at), ReadU16(b, at + 2)>>
    BY <1>1, <2>1, HalvesAt
  <2>3. QED
    BY <2>2
<1> HIDE DEF word, at
<1>6. at % 2 = 0 /\ (at + 2) % 2 = 0 /\ at + 1 < 134217728 /\ (at + 2) + 1 < 134217728
  BY <1>1, SMT
<1>7. /\ ReadU16(b, at) = Halfword(Found(held, at), Found(held, at + 1))
      /\ ReadU16(b, at + 2) = Halfword(Found(held, at + 2), Found(held, (at + 2) + 1))
  BY <1>1, <1>3, <1>6, Read16
<1>8. \A addr_1 \in {at, at + 1, at + 2, at + 3} : Found(held, addr_1) \in Byte
  <2>1. \A x \in {at, at + 1, at + 2, at + 3} : x \in Nat /\ x < 134217728 /\ IsPlain(x)
    BY <1>1, <1>3, SMT
  <2>2. \A x \in {at, at + 1, at + 2, at + 3} : Found(held, x) = ReadU8(b, x)
    BY <2>1, Read8
  <2>3. QED
    BY <2>2, Typed8
<1>9. /\ LowByte(word[1]) = Found(held, at) /\ HighByte(word[1]) = Found(held, at + 1)
      /\ LowByte(word[2]) = Found(held, at + 2) /\ HighByte(word[2]) = Found(held, at + 3)
  BY <1>1, <1>5, <1>7, <1>8, HalfwordIs
<1>10. at + 1 - 1 = at /\ at + 2 - 1 = at + 1 /\ at + 3 - 1 = at + 2 /\ at + 4 - 1 = at + 3
  BY <1>1
<1>11. \A k \in 1..4 : Bytes(word)[k] = Found(held, at + k - 1)
  <2>1. 1..4 = {1, 2, 3, 4}
    OBVIOUS
  <2> HIDE DEF held
  <2>2. QED
    BY <1>4, <1>9, <1>10, <2>1, BytesOfWord
<1>12. QED
  BY <1>2, <1>4, <1>11 DEF word

LEMMA LoadedSpread ==
  ASSUME TypedBus(bus), NEW op \in Loads, NEW addr \in Nat, addr < 134217728
  PROVE  /\ Loaded(op, addr) \in Word
         /\ PlainWord(addr) =>
              Bytes(Loaded(op, addr)) = Spread(Held(bus), BaseOf(addr, Size(op)), Size(op), op \in {"LdB", "LdH"})
<1> DEFINE word == Loaded(op, addr)
           size == Size(op)
           base == BaseOf(addr, size)
           held == Held(bus)
           signed == op \in {"LdB", "LdH"}
           fill == IF signed /\ Found(held, base + size - 1) >= 128 THEN 255 ELSE 0
<1>1. 1..4 = {1, 2, 3, 4} /\ 0 \in Half /\ LowByte(0) = 0 /\ HighByte(0) = 0
  BY HalfIs, SMT DEF LowByte, HighByte
<1>2. CASE op \in {"LdB", "InB"}
  <2> DEFINE byte == ReadU8(bus, addr)
  <2>1. byte \in Byte /\ byte \in Half /\ LowByte(byte) = byte /\ HighByte(byte) = 0
    <3>1. byte \in Byte
      BY Typed8
    <3>2. HighByte(byte) = 0
      <4> HIDE DEF byte
      <4>1. QED
        BY <3>1, ByteIs, SMT DEF HighByte
    <3>3. QED
      BY <3>1, <3>2, ByteIsHalf
  <2>2. size = 1 /\ base = addr /\ base + size - 1 = addr
    BY <1>2, BaseIs DEF Size
  <2>3. word = IF signed THEN SignExtendByte(byte) ELSE <<byte, 0>>
    BY <1>2 DEF Loaded
  <2>4. PlainWord(addr) => byte = Found(held, addr)
    <3>1. 1 \in 1..1 /\ 1 \in {1, 2, 4}
      OBVIOUS
    <3>2. PlainWord(addr) => IsPlain(BaseOf(addr, 1) + 1 - 1)
      BY <3>1, PlainBytes
    <3>3. BaseOf(addr, 1) + 1 - 1 = addr
      BY BaseIs
    <3>4. QED
      BY <3>2, <3>3, Read8
  <2> HIDE DEF byte, size, base, held, signed, word
  <2>5. /\ word \in Word /\ LowByte(word[1]) = byte
        /\ LET rest == IF signed /\ byte >= 128 THEN 255 ELSE 0
           IN  HighByte(word[1]) = rest /\ LowByte(word[2]) = rest /\ HighByte(word[2]) = rest
    <3>1. CASE signed
      BY <2>1, <2>3, <3>1, Extended8
    <3>2. CASE ~signed
      BY <1>1, <2>1, <2>3, <3>2 DEF Word
    <3>3. QED
      BY <3>1, <3>2
  <2>6. ASSUME PlainWord(addr) PROVE Bytes(word) = Spread(held, base, size, signed)
    <3>1. fill = IF signed /\ byte >= 128 THEN 255 ELSE 0
      BY <2>2, <2>4, <2>6
    <3>2. /\ LowByte(word[1]) = Found(held, base + 1 - 1)
          /\ HighByte(word[1]) = fill /\ LowByte(word[2]) = fill /\ HighByte(word[2]) = fill
      BY <2>2, <2>4, <2>5, <2>6, <3>1
    <3> HIDE DEF fill
    <3>3. \A k \in 1..4 : Bytes(word)[k] = IF k <= size THEN Found(held, base + k - 1) ELSE fill
      BY <1>1, <2>2, <2>5, <3>2, BytesOfWord
    <3>4. QED
      BY <2>5, <3>3, SpreadIs DEF fill
  <2>7. QED
    BY <2>5, <2>6 DEF word, held, base, size, signed
<1>3. CASE op \in {"LdH", "InH"}
  <2> DEFINE half == ReadU16(bus, addr)
             at == BaseOf(addr, 2)
  <2>1. half \in Half
    BY Typed16
  <2>2. size = 2 /\ base = at /\ at \in Nat /\ at + 1 - 1 = at /\ at + 2 - 1 = at + 1
    BY <1>3, BaseIs, Aligned DEF Size
  <2>3. word = IF signed THEN SignExtendHalfword(half) ELSE <<half, 0>>
    BY <1>3 DEF Loaded
  <2>4. PlainWord(addr) => LowByte(half) = Found(held, at) /\ HighByte(half) = Found(held, at + 1)
    <3> SUFFICES ASSUME PlainWord(addr) PROVE LowByte(half) = Found(held, at) /\ HighByte(half) = Found(held, at + 1)
      OBVIOUS
    <3>1. half = Halfword(Found(held, at), Found(held, at + 1))
      BY Shown16
    <3>2. at + 1 < 134217728 /\ at < 134217728 /\ at + 1 \in Nat /\ at \in Nat
      BY BaseIs, Aligned, SMT
    <3>3. IsPlain(at) /\ IsPlain(at + 1)
      <4>1. 1 \in 1..2 /\ 2 \in 1..2 /\ 2 \in {1, 2, 4}
        OBVIOUS
      <4>2. IsPlain(BaseOf(addr, 2) + 1 - 1) /\ IsPlain(BaseOf(addr, 2) + 2 - 1)
        BY <4>1, PlainBytes
      <4>3. QED
        BY <2>2, <4>2
    <3>4. Found(held, at) = ReadU8(bus, at) /\ Found(held, at + 1) = ReadU8(bus, at + 1)
      BY <3>2, <3>3, Read8
    <3>5. Found(held, at) \in Byte /\ Found(held, at + 1) \in Byte
      BY <3>4, Typed8
    <3> HIDE DEF half, at, held
    <3>6. QED
      BY <3>1, <3>5, HalfwordIs
  <2> HIDE DEF half, at, size, base, held, signed, word
  <2>5. /\ word \in Word /\ word[1] = half
        /\ LET rest == IF signed /\ HighByte(half) >= 128 THEN 255 ELSE 0
           IN  LowByte(word[2]) = rest /\ HighByte(word[2]) = rest
    <3>1. CASE signed
      BY <2>1, <2>3, <3>1, Extended16
    <3>2. CASE ~signed
      BY <1>1, <2>1, <2>3, <3>2 DEF Word
    <3>3. QED
      BY <3>1, <3>2
  <2>6. ASSUME PlainWord(addr) PROVE Bytes(word) = Spread(held, base, size, signed)
    <3>1. fill = IF signed /\ HighByte(half) >= 128 THEN 255 ELSE 0
      BY <2>2, <2>4, <2>6
    <3>2. /\ LowByte(word[1]) = Found(held, base + 1 - 1) /\ HighByte(word[1]) = Found(held, base + 2 - 1)
          /\ LowByte(word[2]) = fill /\ HighByte(word[2]) = fill
      BY <2>2, <2>4, <2>5, <2>6, <3>1
    <3> HIDE DEF fill
    <3>3. \A k \in 1..4 : Bytes(word)[k] = IF k <= size THEN Found(held, base + k - 1) ELSE fill
      BY <1>1, <2>2, <2>5, <3>2, BytesOfWord
    <3>4. QED
      BY <2>5, <3>3, SpreadIs DEF fill
  <2>7. QED
    BY <2>5, <2>6 DEF word, held, base, size, signed
<1>4. CASE op \in {"LdW", "InW"}
  <2>1. word = ReadU32(bus, addr) /\ size = 4
    BY <1>4 DEF Loaded, Size
  <2>2. word \in Word
    BY <2>1, Typed32
  <2>3. PlainWord(addr) => \A k \in 1..4 : Bytes(word)[k] = Found(held, base + k - 1)
    BY <2>1, Shown32
  <2> HIDE DEF size, base, held, signed, word
  <2>4. ASSUME PlainWord(addr) PROVE Bytes(word) = Spread(held, base, size, signed)
    <3> HIDE DEF fill
    <3>1. \A k \in 1..4 : Bytes(word)[k] = IF k <= size THEN Found(held, base + k - 1) ELSE fill
      BY <2>1, <2>3, <2>4
    <3>2. QED
      BY <2>2, <3>1, SpreadIs DEF fill
  <2>5. QED
    BY <2>2, <2>4 DEF word, held, base, size, signed
<1>5. QED
  BY <1>2, <1>3, <1>4 DEF Loads

\* The bytes of a swapped word.
LEMMA SwappedIs ==
  ASSUME NEW word \in Word
  PROVE  LET bytes == <<Halfword(HighByte(word[1]), LowByte(word[1])), word[2]>>
             halves == <<word[2], word[1]>>
         IN  /\ bytes \in Word /\ halves \in Word
             /\ Bytes(bytes) = [k \in 1..4 |-> Bytes(word)[<<2, 1, 3, 4>>[k]]]
             /\ Bytes(halves) = [k \in 1..4 |-> Bytes(word)[<<3, 4, 1, 2>>[k]]]
<1> DEFINE bytes == <<Halfword(HighByte(word[1]), LowByte(word[1])), word[2]>>
           halves == <<word[2], word[1]>>
<1>1. word[1] \in Half /\ word[2] \in Half
  BY DEF Word
<1>2. LowByte(word[1]) \in Byte /\ HighByte(word[1]) \in Byte
  BY <1>1, BytesAre
<1>3. /\ Halfword(HighByte(word[1]), LowByte(word[1])) \in Half
      /\ LowByte(Halfword(HighByte(word[1]), LowByte(word[1]))) = HighByte(word[1])
      /\ HighByte(Halfword(HighByte(word[1]), LowByte(word[1]))) = LowByte(word[1])
  BY <1>2, HalfwordIs
<1>4. /\ bytes \in Word /\ LowByte(bytes[1]) = HighByte(word[1]) /\ HighByte(bytes[1]) = LowByte(word[1])
      /\ bytes[2] = word[2]
  BY <1>1, <1>3 DEF Word
<1>5. halves \in Word /\ halves[1] = word[2] /\ halves[2] = word[1]
  BY <1>1 DEF Word
<1> HIDE DEF bytes, halves
<1>6. \A x \in {word, bytes, halves} :
        /\ Bytes(x) = [k \in 1..4 |-> Bytes(x)[k]]
        /\ Bytes(x)[1] = LowByte(x[1]) /\ Bytes(x)[2] = HighByte(x[1])
        /\ Bytes(x)[3] = LowByte(x[2]) /\ Bytes(x)[4] = HighByte(x[2])
  <2>1. ASSUME NEW x \in {word, bytes, halves}
        PROVE  /\ Bytes(x) = [k \in 1..4 |-> Bytes(x)[k]]
               /\ Bytes(x)[1] = LowByte(x[1]) /\ Bytes(x)[2] = HighByte(x[1])
               /\ Bytes(x)[3] = LowByte(x[2]) /\ Bytes(x)[4] = HighByte(x[2])
    <3>1. x \in Word
      BY <1>4, <1>5
    <3>2. QED
      BY <3>1, BytesOfWord
  <2>2. QED
    BY <2>1
<1>7. \A k \in 1..4 : /\ Bytes(bytes)[k] = Bytes(word)[<<2, 1, 3, 4>>[k]]
                      /\ Bytes(halves)[k] = Bytes(word)[<<3, 4, 1, 2>>[k]]
  <2>1. 1..4 = {1, 2, 3, 4}
    OBVIOUS
  <2>2. QED
    BY <1>4, <1>5, <1>6, <2>1
<1>8. QED
  BY <1>4, <1>5, <1>6, <1>7 DEF bytes, halves

LEMMA InstructionIs ==
  ASSUME NEW op, NEW format, NEW reg1, NEW reg2, NEW imm, NEW cond,
         NEW i, i = Instruction(op, format, reg1, reg2, imm, cond), i.op \notin Illegal
  PROVE  i.reg2 = reg2
<1>1. op \notin Illegal
  BY DEF Instruction, Error
<1>2. QED
  BY <1>1 DEF Instruction

\* An instruction names one of the registers.
LEMMA NamesRegister ==
  ASSUME NEW words \in Word, Fetched(words).op \notin Illegal
  PROVE  Fetched(words).reg2 \in 0..31
<1> DEFINE word0 == words[1]
           rest == IF InstructionWidth(word0) = 4 THEN words[2] ELSE 0
           opcode == OpcodeOf(word0)
           i == DecodeWords(word0, rest)
<1>1. word0 \in Half
  BY DEF Word
<1>2. opcode \in Int /\ opcode >= 0 /\ opcode < 64 /\ Reg2Of(word0) \in 0..31 /\ 0 \in 0..31
  BY <1>1, FieldsOfWord
<1>3. Fetched(words) = i
  BY DEF Fetched
<1>4. i = CASE opcode \in 0..15             -> DecodeFormatI(opcode, word0)
            [] opcode \in 16..31            -> DecodeFormatII(opcode, word0)
            [] opcode \in 32..39            -> DecodeFormatIII(word0)
            [] opcode \in {42, 43}          -> DecodeFormatIV(opcode, word0, rest)
            [] opcode \in {40, 41} \cup 44..47 -> DecodeFormatV(opcode, word0, rest)
            [] opcode \in 48..61 \cup {63}  -> DecodeFormatVI(opcode, word0, rest)
            [] opcode = 62                  -> DecodeFormatVII(word0, rest)
  BY Zenon DEF DecodeWords
<1> HIDE DEF word0, rest, opcode, i
<1>5. i \in {DecodeFormatI(opcode, word0), DecodeFormatII(opcode, word0), DecodeFormatIII(word0),
             DecodeFormatIV(opcode, word0, rest), DecodeFormatV(opcode, word0, rest),
             DecodeFormatVI(opcode, word0, rest), DecodeFormatVII(word0, rest)}
  BY <1>2, <1>4
<1>6. i.op \notin Illegal
  BY <1>3
<1>7. i.reg2 \in {0, Reg2Of(word0)}
  <2>1. CASE i = DecodeFormatI(opcode, word0)
    BY <1>6, <2>1, InstructionIs DEF DecodeFormatI
  <2>2. CASE i = DecodeFormatII(opcode, word0)
    <3>1. \E op, format, reg1, imm, cond :
            i = Instruction(op, format, reg1, Reg2Of(word0), imm, cond)
      <4>1. CASE FORMAT_II[opcode - 15] = "BitString"
        BY <2>2, <4>1 DEF DecodeFormatII, DecodeBitString
      <4>2. CASE FORMAT_II[opcode - 15] # "BitString"
        BY <2>2, <4>2 DEF DecodeFormatII
      <4>3. QED
        BY <4>1, <4>2
    <3>2. QED
      BY <1>6, <3>1, InstructionIs
  <2>3. CASE i = DecodeFormatIII(word0)
    BY <1>6, <2>3, InstructionIs DEF DecodeFormatIII
  <2>4. CASE i = DecodeFormatIV(opcode, word0, rest)
    BY <1>6, <2>4, InstructionIs DEF DecodeFormatIV
  <2>5. CASE i = DecodeFormatV(opcode, word0, rest)
    BY <1>6, <2>5, InstructionIs DEF DecodeFormatV
  <2>6. CASE i = DecodeFormatVI(opcode, word0, rest)
    BY <1>6, <2>6, InstructionIs DEF DecodeFormatVI
  <2>7. CASE i = DecodeFormatVII(word0, rest)
    BY <1>6, <2>7, InstructionIs DEF DecodeFormatVII
  <2>8. QED
    BY <1>5, <2>1, <2>2, <2>3, <2>4, <2>5, <2>6, <2>7
<1>8. QED
  BY <1>2, <1>3, <1>7

-----------------------------------------------------------------------------
(* The registers, as bytes.                                                   *)

TypedRegs(rs) == DOMAIN rs \subseteq 1..31 /\ \A r \in DOMAIN rs : rs[r] \in Word

ShownRegs(rs) == [number \in 0..31 |-> Bytes(RegOf(rs, number))]

LEMMA RegOfIs ==
  ASSUME NEW rs, TypedRegs(rs), NEW number
  PROVE  RegOf(rs, number) \in Word
<1>1. <<0, 0>> \in Word
  BY HalfIs DEF Word
<1>2. QED
  BY <1>1 DEF RegOf, TypedRegs

LEMMA ShownRegsTyped ==
  ASSUME NEW rs, TypedRegs(rs)
  PROVE  ShownRegs(rs) \in F!Registers
<1>1. \A number : Bytes(RegOf(rs, number)) \in [1..4 -> Byte]
  BY RegOfIs, BytesOfWord
<1>2. F!Registers = [0..31 -> [1..4 -> 0..255]] /\ Byte = 0..255
  BY DEF F!Registers, F!Register, F!Numbers, F!Byte, Byte
<1> HIDE DEF Byte
<1>3. QED
  BY <1>1, <1>2, Zenon DEF ShownRegs

\* What is put in a register is there, but in register 0.
RegsWith(rs, number, word) ==
  [r \in DOMAIN rs \cup ({number} \ {0}) |-> IF r = number THEN word ELSE rs[r]]
ShownWith(shown, number, bytes) == [shown EXCEPT ![number] = IF number = 0 THEN @ ELSE bytes]

LEMMA RegPut ==
  ASSUME NEW rs, TypedRegs(rs), NEW number \in 0..31, NEW word \in Word
  PROVE  LET new == RegsWith(rs, number, word)
         IN  TypedRegs(new) /\ ShownRegs(new) = ShownWith(ShownRegs(rs), number, Bytes(word))
<1> DEFINE new == RegsWith(rs, number, word)
<1>0. new = [r \in DOMAIN rs \cup ({number} \ {0}) |-> IF r = number THEN word ELSE rs[r]]
  BY DEF RegsWith
<1> HIDE DEF new
<1>1. DOMAIN new = DOMAIN rs \cup ({number} \ {0})
  BY <1>0
<1>2. TypedRegs(new)
  BY <1>0, <1>1 DEF TypedRegs
<1>3. ASSUME NEW n \in 0..31
      PROVE  RegOf(new, n) = IF n = number /\ n # 0 THEN word ELSE RegOf(rs, n)
  <2>1. 0 \notin DOMAIN rs
    BY DEF TypedRegs
  <2>2. QED
    BY <1>0, <1>1, <2>1 DEF RegOf
<1>4. \A n \in 0..31 : ShownRegs(new)[n] = IF n = number /\ n # 0 THEN Bytes(word) ELSE ShownRegs(rs)[n]
  BY <1>3 DEF ShownRegs
<1>5. ShownRegs(new) = [n \in 0..31 |-> ShownRegs(new)[n]] /\ ShownRegs(rs) = [n \in 0..31 |-> ShownRegs(rs)[n]]
  BY DEF ShownRegs
<1>6. ShownRegs(new) = ShownWith(ShownRegs(rs), number, Bytes(word))
  BY <1>4, <1>5 DEF ShownWith
<1>7. QED
  BY <1>2, <1>6 DEF new

-----------------------------------------------------------------------------
(* What is asked.                                                             *)

AddressAsked(f, rs) == AddressFrom(rs, Fetched(f))

AskedOf(f, rs) ==
  IF f = Nothing THEN [op |-> "none"]
  ELSE LET i == Fetched(f)
           at == AddressFrom(rs, i)
       IN  CASE i.op \in Loads /\ at \in Watched ->
                  [op |-> "load", at |-> at, size |-> Size(i.op), signed |-> i.op \in {"LdB", "LdH"}, reg |-> i.reg2]
             [] i.op \in Stores /\ at \in Watched ->
                  [op |-> "store", at |-> at, size |-> Size(i.op), reg |-> i.reg2]
             [] i.op = "Caxi" /\ at \in Watched ->
                  [op |-> "exchange", at |-> at, size |-> 4, reg |-> i.reg2]
             [] i.op \in Swaps ->
                  [op |-> "rearrange", order |-> IF i.op = "Xb" THEN <<2, 1, 3, 4>> ELSE <<3, 4, 1, 2>>,
                   reg |-> i.reg2]
             [] OTHER -> [op |-> "elsewhere"]

LEMMA KindsApart ==
  /\ \A op \in Loads : op \notin Stores \cup Swaps \cup {"Caxi"} \cup Illegal
  /\ \A op \in Stores : op \notin Loads \cup Swaps \cup {"Caxi"} \cup Illegal
  /\ \A op \in Swaps : op \notin Loads \cup Stores \cup {"Caxi"} \cup Illegal
  /\ "Caxi" \notin Loads \cup Stores \cup Swaps \cup Illegal
  BY DEF Loads, Stores, Swaps, Illegal

LEMMA AskedIs == Asked = AskedOf(fetched, regs)
<1> DEFINE i == Fetched(fetched)
           at == EffectiveAddress(i)
<1>1. EffectiveAddress(i) = AddressFrom(regs, i)
  BY DEF EffectiveAddress
<1>2. CASE fetched = Nothing
  BY <1>2 DEF Asked, AskedOf
<1>3. CASE fetched # Nothing
  <2> DEFINE order == IF i.op = "Xb" THEN <<2, 1, 3, 4>> ELSE <<3, 4, 1, 2>>
             load == [op |-> "load", at |-> at, size |-> Size(i.op), signed |-> i.op \in {"LdB", "LdH"}, reg |-> i.reg2]
             store == [op |-> "store", at |-> at, size |-> Size(i.op), reg |-> i.reg2]
             exchange == [op |-> "exchange", at |-> at, size |-> 4, reg |-> i.reg2]
             rearrange == [op |-> "rearrange", order |-> order, reg |-> i.reg2]
             elsewhere == [op |-> "elsewhere"]
  <2>1. Asked = CASE i.op \in Accesses /\ at \in Watched -> Request(i)
                  [] i.op \in Swaps -> rearrange
                  [] OTHER -> elsewhere
    BY <1>3 DEF Asked
  <2>2. Request(i) = CASE i.op \in Loads -> load
                       [] i.op \in Stores -> store
                       [] i.op = "Caxi" -> exchange
    BY DEF Request
  <2>3. AskedOf(fetched, regs) = CASE i.op \in Loads /\ at \in Watched -> load
                                   [] i.op \in Stores /\ at \in Watched -> store
                                   [] i.op = "Caxi" /\ at \in Watched -> exchange
                                   [] i.op \in Swaps -> rearrange
                                   [] OTHER -> elsewhere
    BY <1>1, <1>3 DEF AskedOf
  <2>4. i.op \in Accesses <=> i.op \in Loads \/ i.op \in Stores \/ i.op = "Caxi"
    BY DEF Accesses
  <2> HIDE DEF i, at, load, store, exchange, rearrange, elsewhere
  <2>5. CASE i.op \in Loads
    <3>1. i.op \notin Stores /\ i.op # "Caxi" /\ i.op \notin Swaps
      BY <2>5, KindsApart
    <3>2. QED
      BY <2>1, <2>2, <2>3, <2>4, <2>5, <3>1
  <2>6. CASE i.op \in Stores
    <3>1. i.op \notin Loads /\ i.op # "Caxi" /\ i.op \notin Swaps
      BY <2>6, KindsApart
    <3>2. QED
      BY <2>1, <2>2, <2>3, <2>4, <2>6, <3>1
  <2>7. CASE i.op = "Caxi"
    <3>1. i.op \notin Loads /\ i.op \notin Stores /\ i.op \notin Swaps
      BY <2>7, KindsApart
    <3>2. QED
      BY <2>1, <2>2, <2>3, <2>4, <2>7, <3>1
  <2>8. CASE i.op \notin Loads /\ i.op \notin Stores /\ i.op # "Caxi"
    BY <2>1, <2>3, <2>4, <2>8
  <2>9. QED
    BY <2>5, <2>6, <2>7, <2>8
<1>4. QED
  BY <1>2, <1>3

LEMMA AskedTyped ==
  ASSUME NEW f, f # Nothing => f \in Word, NEW rs
  PROVE  /\ AskedOf(f, rs) \in F!Requests
         /\ f # Nothing => AskedOf(f, rs) # F!None
<1> DEFINE i == Fetched(f)
           at == AddressFrom(rs, i)
<1>1. Watched = DOMAIN Home
  BY DEF Home
<1>2. F!Requests =
        {[op |-> "none"], [op |-> "elsewhere"]}
          \cup [op : {"load"}, at : Watched, size : {1, 2, 4}, signed : BOOLEAN, reg : 0..31]
          \cup [op : {"store"}, at : Watched, size : {1, 2, 4}, reg : 0..31]
          \cup [op : {"exchange"}, at : Watched, size : {4}, reg : 0..31]
          \cup [op : {"rearrange"}, order : {<<2, 1, 3, 4>>, <<3, 4, 1, 2>>}, reg : 0..31]
  BY <1>1 DEF F!Requests, F!None, F!Elsewhere, F!Sizes, F!Numbers, F!Orders
<1>3. F!None = [op |-> "none"]
  BY DEF F!None
<1>4. CASE f = Nothing
  BY <1>2, <1>4 DEF AskedOf
<1>5. CASE f # Nothing
  <2>1. i.op \notin Illegal => i.reg2 \in 0..31
    BY <1>5, NamesRegister
  <2>2. AskedOf(f, rs) =
          CASE i.op \in Loads /\ at \in Watched ->
                  [op |-> "load", at |-> at, size |-> Size(i.op), signed |-> i.op \in {"LdB", "LdH"}, reg |-> i.reg2]
             [] i.op \in Stores /\ at \in Watched ->
                  [op |-> "store", at |-> at, size |-> Size(i.op), reg |-> i.reg2]
             [] i.op = "Caxi" /\ at \in Watched ->
                  [op |-> "exchange", at |-> at, size |-> 4, reg |-> i.reg2]
             [] i.op \in Swaps ->
                  [op |-> "rearrange", order |-> IF i.op = "Xb" THEN <<2, 1, 3, 4>> ELSE <<3, 4, 1, 2>>,
                   reg |-> i.reg2]
             [] OTHER -> [op |-> "elsewhere"]
    BY <1>5 DEF AskedOf
  <2> HIDE DEF i, at
  <2>3. CASE i.op \in Loads /\ at \in Watched
    <3>1. i.reg2 \in 0..31 /\ i.op \notin Stores /\ i.op # "Caxi" /\ i.op \notin Swaps
      BY <2>1, <2>3, KindsApart
    <3>2. Size(i.op) \in {1, 2, 4}
      BY <2>3 DEF Loads, Size
    <3>3. AskedOf(f, rs) = [op |-> "load", at |-> at, size |-> Size(i.op),
                            signed |-> i.op \in {"LdB", "LdH"}, reg |-> i.reg2]
      BY <2>2, <2>3, <3>1
    <3>4. (i.op \in {"LdB", "LdH"}) \in BOOLEAN
      OBVIOUS
    <3>5. AskedOf(f, rs) \in [op : {"load"}, at : Watched, size : {1, 2, 4}, signed : BOOLEAN, reg : 0..31]
      BY <2>3, <3>1, <3>2, <3>3, <3>4
    <3>6. AskedOf(f, rs).op = "load"
      BY <3>3
    <3>7. QED
      BY <1>2, <1>3, <3>5, <3>6
  <2>4. CASE i.op \in Stores /\ at \in Watched
    <3>1. i.reg2 \in 0..31 /\ i.op \notin Loads /\ i.op # "Caxi" /\ i.op \notin Swaps
      BY <2>1, <2>4, KindsApart
    <3>2. Size(i.op) \in {1, 2, 4}
      BY <2>4 DEF Stores, Size
    <3>3. AskedOf(f, rs) = [op |-> "store", at |-> at, size |-> Size(i.op), reg |-> i.reg2]
      BY <2>2, <2>4, <3>1
    <3>4. AskedOf(f, rs) \in [op : {"store"}, at : Watched, size : {1, 2, 4}, reg : 0..31]
      BY <2>4, <3>1, <3>2, <3>3
    <3>5. AskedOf(f, rs).op = "store"
      BY <3>3
    <3>6. QED
      BY <1>2, <1>3, <3>4, <3>5
  <2>5. CASE i.op = "Caxi" /\ at \in Watched
    <3>1. i.reg2 \in 0..31 /\ i.op \notin Loads /\ i.op \notin Stores /\ i.op \notin Swaps
      BY <2>1, <2>5, KindsApart
    <3>2. AskedOf(f, rs) = [op |-> "exchange", at |-> at, size |-> 4, reg |-> i.reg2]
      BY <2>2, <2>5, <3>1
    <3>3. AskedOf(f, rs) \in [op : {"exchange"}, at : Watched, size : {4}, reg : 0..31]
      BY <2>5, <3>1, <3>2
    <3>4. AskedOf(f, rs).op = "exchange"
      BY <3>2
    <3>5. QED
      BY <1>2, <1>3, <3>3, <3>4
  <2>6. CASE i.op \in Swaps
    <3>1. i.reg2 \in 0..31 /\ i.op \notin Loads /\ i.op \notin Stores /\ i.op # "Caxi"
      BY <2>1, <2>6, KindsApart
    <3> DEFINE order == IF i.op = "Xb" THEN <<2, 1, 3, 4>> ELSE <<3, 4, 1, 2>>
    <3>2. AskedOf(f, rs) = [op |-> "rearrange", order |-> order, reg |-> i.reg2]
      BY <2>2, <2>6, <3>1
    <3>3. order \in {<<2, 1, 3, 4>>, <<3, 4, 1, 2>>}
      OBVIOUS
    <3> HIDE DEF order
    <3>4. AskedOf(f, rs) \in [op : {"rearrange"}, order : {<<2, 1, 3, 4>>, <<3, 4, 1, 2>>}, reg : 0..31]
      BY <3>1, <3>2, <3>3
    <3>5. AskedOf(f, rs).op = "rearrange"
      BY <3>2
    <3>6. QED
      BY <1>2, <1>3, <3>4, <3>5
  <2>7. CASE i.op \notin Swaps /\ ~(i.op \in Loads \cup Stores \cup {"Caxi"} /\ at \in Watched)
    <3>1. AskedOf(f, rs) = [op |-> "elsewhere"]
      BY <2>2, <2>7
    <3>2. AskedOf(f, rs).op = "elsewhere"
      BY <3>1
    <3>3. QED
      BY <1>2, <1>3, <3>1, <3>2
  <2>8. QED
    BY <2>3, <2>4, <2>5, <2>6, <2>7
<1>6. QED
  BY <1>4, <1>5

-----------------------------------------------------------------------------
(* The flat memory that is followed.                                          *)

ShownCells(b) == [cell \in Cells |-> Content(b, cell)]

LEMMA WatchedIs ==
  ASSUME NEW addr \in Watched
  PROVE  /\ addr \in Nat /\ addr < 134217728 /\ PlainWord(addr)
         /\ Home[addr] = Location(addr) /\ Location(addr) \in Cells \cup {NoCell}
<1>1. addr \in Address /\ \A k \in 0..3 : AlignedDown(addr) + k \in Watched
  BY WatchAssumption
<1>2. addr \in Nat /\ addr < 134217728
  BY <1>1, AddressIsNat
<1>3. PlainWord(addr)
  BY <1>1, WatchAssumption DEF PlainWord
<1>4. QED
  BY <1>2, <1>3 DEF Home, Cells

LEMMA BytesWatched ==
  ASSUME NEW addr \in Watched, NEW size \in {1, 2, 4}, NEW k \in 1..size
  PROVE  BaseOf(addr, size) + k - 1 \in Watched
<1>1. addr \in Nat
  BY WatchedIs
<1>2. \A j \in 0..3 : AlignedDown(addr) + j \in Watched
  BY WatchAssumption
<1>3. QED
  BY <1>1, <1>2, Within4

LEMMA CellsArePlaces ==
  /\ Cells \subseteq Places
  /\ NoCell \notin Cells
  /\ \A cell \in Cells : cell \in Constant <=> cell[1] = "rom"
<1>1. ASSUME NEW addr \in Watched
      PROVE  Location(addr) \in Places \cup {NoCell}
  BY WatchedIs, LocationsArePlaces
<1>2. QED
  BY <1>1 DEF Cells, Constant

LEMMA ShownOf ==
  ASSUME NEW b
  PROVE  ShownCells(b) = [cell \in Cells |-> Held(b)[cell]]
<1>1. \A cell \in Cells : Held(b)[cell] = Content(b, cell)
  BY CellsArePlaces DEF Held
<1>2. QED
  BY <1>1 DEF ShownCells

\* What the flat memory reads and writes is what the bus does.
LEMMA FlatAddress ==
  ASSUME NEW addr \in Watched, NEW size \in {1, 2, 4}, Asked.at = addr, Asked.size = size, NEW k \in 1..size
  PROVE  Home[F!Address(k)] = Location(BaseOf(addr, size) + k - 1)
<1>1. F!Address(k) = BaseOf(addr, size) + k - 1
  BY DEF F!Address, BaseOf
<1>2. BaseOf(addr, size) + k - 1 \in Watched
  BY BytesWatched
<1>3. QED
  BY <1>1, <1>2, WatchedIs

LEMMA FlatShown ==
  ASSUME NEW addr \in Watched, NEW size \in {1, 2, 4}, Asked.at = addr, Asked.size = size, NEW k \in 1..size
  PROVE  F!Shown(k) = Found(Held(bus), BaseOf(addr, size) + k - 1)
<1> DEFINE at == BaseOf(addr, size) + k - 1
<1>1. Home[F!Address(k)] = Location(at)
  BY FlatAddress
<1>2. at \in Watched
  BY BytesWatched
<1> HIDE DEF at
<1>3. Location(at) \in Cells \cup {NoCell}
  BY <1>2, WatchedIs
<1>4. F!Shown(k) = IF Location(at) = NoCell THEN 0 ELSE [cell \in Cells |-> Content(bus, cell)][Location(at)]
  BY <1>1 DEF F!Shown
<1>5. Location(at) # NoCell => Location(at) \in Places /\ Location(at) \in Cells
  BY <1>3, CellsArePlaces
<1>6. Location(at) # NoCell => [cell \in Cells |-> Content(bus, cell)][Location(at)] = Held(bus)[Location(at)]
  BY <1>5 DEF Held
<1>7. QED
  BY <1>4, <1>6 DEF Found, at

LEMMA FlatRead ==
  ASSUME NEW addr \in Watched, NEW size \in {1, 2, 4}, Asked.at = addr, Asked.size = size, NEW signed
  PROVE  F!Read(signed) = Spread(Held(bus), BaseOf(addr, size), size, signed)
<1>1. \A k \in 1..size : F!Shown(k) = Found(Held(bus), BaseOf(addr, size) + k - 1)
  BY FlatShown
<1>2. size \in 1..size
  OBVIOUS
<1>3. F!Shown(size) = Found(Held(bus), BaseOf(addr, size) + size - 1)
  BY <1>1, <1>2
<1>4. \A k \in 1..4 : k <= size => k \in 1..size
  OBVIOUS
<1>5. F!Read(signed) = [k \in 1..4 |-> IF k <= size THEN F!Shown(k)
                                        ELSE IF signed /\ F!Shown(size) >= 128 THEN 255 ELSE 0]
  BY DEF F!Read, F!Filler
<1>6. \A k \in 1..4 : (IF k <= size THEN F!Shown(k) ELSE IF signed /\ F!Shown(size) >= 128 THEN 255 ELSE 0)
                      = IF k <= size THEN Found(Held(bus), BaseOf(addr, size) + k - 1)
                        ELSE IF signed /\ Found(Held(bus), BaseOf(addr, size) + size - 1) >= 128 THEN 255 ELSE 0
  BY <1>1, <1>3, <1>4
<1>7. QED
  BY <1>5, <1>6 DEF Spread

LEMMA FlatWritten ==
  ASSUME NEW addr \in Watched, NEW size \in {1, 2, 4}, Asked.at = addr, Asked.size = size, NEW bytes
  PROVE  F!Written(bytes) = [cell \in Cells |-> Over(Held(bus), BaseOf(addr, size), size, bytes)[cell]]
<1> DEFINE Reaching(cell) == {k \in 1..size : Location(BaseOf(addr, size) + k - 1) = cell}
           contents == [cell \in Cells |-> Content(bus, cell)]
<1>1. \A cell : {k \in 1..size : Home[F!Address(k)] = cell} = Reaching(cell)
  BY FlatAddress
<1>2. F!Written(bytes) = [cell \in Cells |-> IF cell \in Constant \/ Reaching(cell) = {} THEN contents[cell]
                                             ELSE bytes[CHOOSE k \in Reaching(cell) : \A j \in Reaching(cell) : j <= k]]
  BY <1>1 DEF F!Written
<1>3. ASSUME NEW cell \in Cells
      PROVE  (IF cell \in Constant \/ Reaching(cell) = {} THEN contents[cell]
              ELSE bytes[CHOOSE k \in Reaching(cell) : \A j \in Reaching(cell) : j <= k])
             = Over(Held(bus), BaseOf(addr, size), size, bytes)[cell]
  <2>1. cell \in Places /\ (cell \in Constant <=> cell[1] = "rom")
    BY CellsArePlaces
  <2>2. contents[cell] = Held(bus)[cell]
    BY <2>1 DEF Held
  <2>3. Over(Held(bus), BaseOf(addr, size), size, bytes)[cell]
          = IF cell[1] = "rom" \/ Reaching(cell) = {} THEN Held(bus)[cell]
            ELSE bytes[CHOOSE k \in Reaching(cell) : \A j \in Reaching(cell) : j <= k]
    BY <2>1 DEF Over
  <2> HIDE DEF contents, Reaching
  <2>4. QED
    BY <2>1, <2>2, <2>3
<1> HIDE DEF contents, Reaching
<1>4. QED
  BY <1>2, <1>3

-----------------------------------------------------------------------------
(* Every step is a step of the flat memory.                                   *)

FirstSteps == [words : FirstWords, regs : {NoRegs}]

FlatIInv ==
  /\ TypedBus(bus)
  /\ TypedRegs(regs)
  /\ zero \in BOOLEAN
  /\ fetched # Nothing => /\ fetched \in Word
                          /\ \E step \in Program \cup FirstSteps : fetched = step.words /\ regs = step.regs

\* The variables of the flat memory, before a step and after it.
FlatRegisters == [number \in 0..31 |-> Bytes(Reg(number))]
FlatContents  == [cell \in Cells |-> Content(bus, cell)]

LEMMA FlatNow ==
  /\ FlatRegisters = ShownRegs(regs) /\ FlatRegisters' = ShownRegs(regs')
  /\ FlatContents = ShownCells(bus) /\ FlatContents' = ShownCells(bus')
  /\ Asked = AskedOf(fetched, regs) /\ Asked' = AskedOf(fetched', regs')
<1>1. FlatRegisters = ShownRegs(regs) /\ FlatRegisters' = ShownRegs(regs')
  BY DEF FlatRegisters, ShownRegs, Reg
<1>2. FlatContents = ShownCells(bus) /\ FlatContents' = ShownCells(bus')
  BY DEF FlatContents, ShownCells
<1>3. Asked = AskedOf(fetched, regs)
  BY AskedIs
<1>4. Asked' = AskedOf(fetched', regs')
  <2>1. (Asked = AskedOf(fetched, regs))'
    BY AskedIs, PTL
  <2>2. QED
    BY <2>1
<1>5. QED
  BY <1>1, <1>2, <1>3, <1>4

LEMMA Passes ==
  ASSUME Asked.op = "elsewhere", fetched' = Nothing, TypedRegs(regs'), zero' \in BOOLEAN,
         ShownCells(bus') = ShownCells(bus)
  PROVE  F!Answer
<1>1. FlatRegisters' \in F!Registers
  BY FlatNow, ShownRegsTyped
<1>2. FlatContents' = FlatContents
  BY FlatNow
<1>3. Asked' = F!None
  BY FlatNow DEF AskedOf, F!None
<1>4. F!Pass
  BY <1>1, <1>2 DEF F!Pass, FlatRegisters, FlatContents
<1>5. QED
  BY <1>3, <1>4 DEF F!Answer

\* The fields of what is asked.
LEMMA AskedNow ==
  ASSUME fetched # Nothing, NEW i, i = Fetched(fetched), NEW at, at = EffectiveAddress(i)
  PROVE  /\ i.op \in Loads /\ at \in Watched =>
              /\ Asked.op = "load" /\ Asked.at = at /\ Asked.size = Size(i.op)
              /\ Asked.signed = (i.op \in {"LdB", "LdH"}) /\ Asked.reg = i.reg2
         /\ i.op \in Stores /\ at \in Watched =>
              /\ Asked.op = "store" /\ Asked.at = at /\ Asked.size = Size(i.op) /\ Asked.reg = i.reg2
         /\ i.op = "Caxi" /\ at \in Watched =>
              /\ Asked.op = "exchange" /\ Asked.at = at /\ Asked.size = 4 /\ Asked.reg = i.reg2
         /\ i.op \in Swaps =>
              /\ Asked.op = "rearrange" /\ Asked.reg = i.reg2
              /\ Asked.order = IF i.op = "Xb" THEN <<2, 1, 3, 4>> ELSE <<3, 4, 1, 2>>
         /\ i.op \notin Swaps /\ (i.op \notin Loads \cup Stores \cup {"Caxi"} \/ at \notin Watched) =>
              Asked.op = "elsewhere"
<1>1. at = AddressFrom(regs, i)
  BY DEF EffectiveAddress
<1>2. Asked = CASE i.op \in Loads /\ at \in Watched ->
                  [op |-> "load", at |-> at, size |-> Size(i.op), signed |-> i.op \in {"LdB", "LdH"}, reg |-> i.reg2]
             [] i.op \in Stores /\ at \in Watched ->
                  [op |-> "store", at |-> at, size |-> Size(i.op), reg |-> i.reg2]
             [] i.op = "Caxi" /\ at \in Watched ->
                  [op |-> "exchange", at |-> at, size |-> 4, reg |-> i.reg2]
             [] i.op \in Swaps ->
                  [op |-> "rearrange", order |-> IF i.op = "Xb" THEN <<2, 1, 3, 4>> ELSE <<3, 4, 1, 2>>,
                   reg |-> i.reg2]
             [] OTHER -> [op |-> "elsewhere"]
  BY <1>1, AskedIs DEF AskedOf
<1>3. CASE i.op \in Loads
  <2>1. i.op \notin Stores /\ i.op # "Caxi" /\ i.op \notin Swaps
    BY <1>3, KindsApart
  <2>2. QED
    BY <1>2, <1>3, <2>1
<1>4. CASE i.op \in Stores
  <2>1. i.op \notin Loads /\ i.op # "Caxi" /\ i.op \notin Swaps
    BY <1>4, KindsApart
  <2>2. QED
    BY <1>2, <1>4, <2>1
<1>5. CASE i.op = "Caxi"
  <2>1. i.op \notin Loads /\ i.op \notin Stores /\ i.op \notin Swaps
    BY <1>5, KindsApart
  <2>2. QED
    BY <1>2, <1>5, <2>1
<1>6. CASE i.op \in Swaps
  <2>1. i.op \notin Loads /\ i.op \notin Stores /\ i.op # "Caxi"
    BY <1>6, KindsApart
  <2>2. QED
    BY <1>2, <1>6, <2>1
<1>7. CASE i.op \notin Loads \cup Stores \cup Swaps \cup {"Caxi"}
  BY <1>2, <1>7
<1>8. QED
  BY <1>3, <1>4, <1>5, <1>6, <1>7

LEMMA AccessAddress ==
  ASSUME FlatIInv, fetched # Nothing, NEW i, i = Fetched(fetched), i.op \in Accesses
  PROVE  /\ EffectiveAddress(i) \in Nat /\ EffectiveAddress(i) < 134217728
         /\ i.reg2 \in 0..31
         /\ Reg(i.reg2) \in Word /\ Reg(30) \in Word
<1>1. FetchedTyped /\ fetched \in Word /\ RegsTyped /\ TypedRegs(regs)
  BY DEF FlatIInv, FetchedTyped, RegsTyped, TypedRegs
<1>2. i.imm \in Int
  BY <1>1, AccessesAreLegal
<1>3. i.op \notin Illegal
  BY KindsApart DEF Accesses
<1>4. i.reg2 \in 0..31
  BY <1>1, <1>3, NamesRegister
<1>5. Reg(i.reg2) \in Word /\ Reg(30) \in Word
  BY <1>1, RegOfIs DEF Reg
<1>6. QED
  BY <1>1, <1>2, <1>4, <1>5, AddressIs

\* What SetReg puts, the flat memory does.
LEMMA Puts ==
  ASSUME TypedRegs(regs), NEW number \in 0..31, NEW word \in Word, SetReg(number, word)
  PROVE  /\ TypedRegs(regs')
         /\ Asked.reg = number => FlatRegisters' = F!Put(Bytes(word))
<1>1. regs' = RegsWith(regs, number, word)
  BY DEF SetReg, RegsWith
<1>2. TypedRegs(regs') /\ ShownRegs(regs') = ShownWith(ShownRegs(regs), number, Bytes(word))
  BY <1>1, RegPut
<1>3. ASSUME Asked.reg = number PROVE FlatRegisters' = F!Put(Bytes(word))
  <2>1. F!Put(Bytes(word)) = ShownWith(FlatRegisters, number, Bytes(word))
    BY <1>3 DEF F!Put, FlatRegisters, ShownWith
  <2>2. QED
    BY <1>2, <2>1, FlatNow
<1>4. QED
  BY <1>2, <1>3

LEMMA LoadAnswers ==
  ASSUME FlatIInv, fetched # Nothing, fetched' = Nothing, NEW i, i = Fetched(fetched), Load(i)
  PROVE  F!Answer /\ TypedBus(bus') /\ TypedRegs(regs') /\ zero' \in BOOLEAN
<1> DEFINE at == EffectiveAddress(i)
           word == Loaded(i.op, at)
<1>1. i.op \in Loads /\ SetReg(i.reg2, word) /\ bus' = bus /\ zero' = zero
  BY DEF Load
<1>2. at \in Nat /\ at < 134217728 /\ i.reg2 \in 0..31
  BY <1>1, AccessAddress DEF Accesses
<1>3. TypedBus(bus) /\ TypedRegs(regs) /\ zero \in BOOLEAN
  BY DEF FlatIInv
<1>4. /\ word \in Word
      /\ PlainWord(at) =>
           Bytes(word) = Spread(Held(bus), BaseOf(at, Size(i.op)), Size(i.op), i.op \in {"LdB", "LdH"})
  BY <1>1, <1>2, <1>3, LoadedSpread
<1>5. at = EffectiveAddress(i)
  OBVIOUS
<1> HIDE DEF word, at
<1>6. TypedRegs(regs') /\ (Asked.reg = i.reg2 => FlatRegisters' = F!Put(Bytes(word)))
  BY <1>1, <1>2, <1>3, <1>4, Puts
<1>7. TypedBus(bus') /\ zero' \in BOOLEAN /\ ShownCells(bus') = ShownCells(bus)
  BY <1>1, <1>3
<1>8. CASE at \in Watched
  <2>1. /\ Asked.op = "load" /\ Asked.at = at /\ Asked.size = Size(i.op)
        /\ Asked.signed = (i.op \in {"LdB", "LdH"}) /\ Asked.reg = i.reg2
    BY <1>1, <1>5, <1>8, AskedNow
  <2>2. Size(i.op) \in {1, 2, 4}
    BY <1>1 DEF Loads, Size
  <2>3. PlainWord(at)
    BY <1>8, WatchedIs
  <2>4. F!Read(Asked.signed) = Bytes(word)
    <3> DEFINE signed == i.op \in {"LdB", "LdH"}
    <3>1. F!Read(signed) = Spread(Held(bus), BaseOf(at, Size(i.op)), Size(i.op), signed)
      BY <1>8, <2>1, <2>2, FlatRead
    <3>2. QED
      BY <1>4, <2>1, <2>3, <3>1
  <2>5. FlatRegisters' = F!Put(F!Read(Asked.signed))
    BY <1>6, <2>1, <2>4
  <2>6. FlatContents' = FlatContents /\ zero' = zero
    BY <1>1, <1>7, FlatNow
  <2>7. F!Load
    BY <2>1, <2>5, <2>6 DEF F!Load, FlatRegisters, FlatContents
  <2>8. Asked' = F!None
    BY FlatNow DEF AskedOf, F!None
  <2>9. QED
    BY <1>6, <1>7, <2>7, <2>8 DEF F!Answer
<1>9. CASE at \notin Watched
  <2>1. i.op \notin Swaps
    BY <1>1, KindsApart
  <2>2. Asked.op = "elsewhere"
    BY <1>5, <1>9, <2>1, AskedNow
  <2>3. QED
    BY <1>6, <1>7, <2>2, Passes
<1>10. QED
  BY <1>8, <1>9

\* A store that is not followed reaches no cell that is.
LEMMA StoresElsewhere ==
  ASSUME FlatIInv, fetched # Nothing, NEW i, i = Fetched(fetched), i.op \in Stores \cup {"Caxi"},
         NEW addr, addr = EffectiveAddress(i), addr \notin Watched, addr \in Nat,
         NEW held, NEW size \in {1, 2, 4}, NEW bytes, NEW cell \in Cells
  PROVE  Over(held, BaseOf(addr, size), size, bytes)[cell] = held[cell]
<1>1. PICK step \in Program \cup FirstSteps : fetched = step.words /\ regs = step.regs
  BY DEF FlatIInv
<1>2. AddressFrom(step.regs, Fetched(step.words)) = addr /\ Fetched(step.words) = i
  BY <1>1 DEF EffectiveAddress
<1>3. \A k \in 0..3 : Location(AlignedDown(addr) + k) \notin Cells
  BY <1>2, WatchAssumption DEF FirstSteps
<1>4. ASSUME NEW k \in 1..size PROVE Location(BaseOf(addr, size) + k - 1) # cell
  BY <1>3, Within4
<1>5. cell \in Places
  BY CellsArePlaces
<1>6. QED
  BY <1>4, <1>5, OverElsewhere

LEMMA StoreAnswers ==
  ASSUME FlatIInv, fetched # Nothing, fetched' = Nothing, NEW i, i = Fetched(fetched), Store(i)
  PROVE  F!Answer /\ TypedBus(bus') /\ TypedRegs(regs') /\ zero' \in BOOLEAN
<1> DEFINE at == EffectiveAddress(i)
           word == Reg(i.reg2)
           size == Size(i.op)
<1>1. i.op \in Stores /\ bus' = Stored(i.op, at, word) /\ regs' = regs /\ zero' = zero
  BY DEF Store
<1>2. at \in Nat /\ at < 134217728 /\ i.reg2 \in 0..31 /\ word \in Word
  BY <1>1, AccessAddress DEF Accesses
<1>3. TypedBus(bus) /\ TypedRegs(regs) /\ zero \in BOOLEAN
  BY DEF FlatIInv
<1>4. TypedBus(bus') /\ Held(bus') = Over(Held(bus), BaseOf(at, size), size, Bytes(word))
  BY <1>1, <1>2, <1>3, StoredOver
<1>5. size \in {1, 2, 4}
  BY <1>1 DEF Stores, Size
<1>6. at = EffectiveAddress(i) /\ word = Reg(i.reg2) /\ size = Size(i.op)
  OBVIOUS
<1> HIDE DEF at, word, size
<1>7. TypedRegs(regs') /\ zero' \in BOOLEAN
  BY <1>1, <1>3
<1>8. CASE at \in Watched
  <2>1. Asked.op = "store" /\ Asked.at = at /\ Asked.size = size /\ Asked.reg = i.reg2
    BY <1>1, <1>6, <1>8, AskedNow
  <2>2. FlatRegisters[i.reg2] = Bytes(word)
    BY <1>2, <1>6 DEF FlatRegisters
  <2>3. F!Written(Bytes(word)) = [cell \in Cells |-> Over(Held(bus), BaseOf(at, size), size, Bytes(word))[cell]]
    BY <1>5, <1>8, <2>1, FlatWritten
  <2>4. FlatContents' = F!Written(FlatRegisters[Asked.reg])
    BY <1>4, <2>1, <2>2, <2>3, FlatNow, ShownOf
  <2>5. FlatRegisters' = FlatRegisters /\ zero' = zero
    BY <1>1, FlatNow
  <2>6. F!Store
    BY <2>1, <2>4, <2>5 DEF F!Store, FlatRegisters, FlatContents
  <2>7. Asked' = F!None
    BY FlatNow DEF AskedOf, F!None
  <2>8. QED
    BY <1>4, <1>7, <2>6, <2>7 DEF F!Answer
<1>9. CASE at \notin Watched
  <2>1. i.op \notin Swaps
    BY <1>1, KindsApart
  <2>2. Asked.op = "elsewhere"
    BY <1>6, <1>9, <2>1, AskedNow
  <2>3. \A cell \in Cells : Over(Held(bus), BaseOf(at, size), size, Bytes(word))[cell] = Held(bus)[cell]
    BY <1>1, <1>2, <1>5, <1>6, <1>9, StoresElsewhere
  <2>4. ShownCells(bus') = ShownCells(bus)
    BY <1>4, <2>3, ShownOf
  <2>5. QED
    BY <1>4, <1>7, <2>2, <2>4, Passes
<1>10. QED
  BY <1>8, <1>9

\* The word goes back, or the new one in its place.
LEMMA CaxiAnswers ==
  ASSUME FlatIInv, fetched # Nothing, fetched' = Nothing, NEW i, i = Fetched(fetched), Caxi(i)
  PROVE  F!Answer /\ TypedBus(bus') /\ TypedRegs(regs') /\ zero' \in BOOLEAN
<1> DEFINE at == EffectiveAddress(i)
           old == ReadU32(bus, at)
           word == CaxiWrites(old, Reg(i.reg2), Reg(30))
<1>1. i.op = "Caxi" /\ bus' = WriteU32(bus, at, word) /\ zero' = (Reg(i.reg2) = old) /\ SetReg(i.reg2, old)
  BY DEF Caxi
<1>2. at \in Nat /\ at < 134217728 /\ i.reg2 \in 0..31 /\ Reg(i.reg2) \in Word /\ Reg(30) \in Word
  BY <1>1, AccessAddress DEF Accesses
<1>3. TypedBus(bus) /\ TypedRegs(regs) /\ zero \in BOOLEAN
  BY DEF FlatIInv
<1>4. old \in Word
  BY <1>3, Typed32
<1>5. word = (IF Reg(i.reg2) = old THEN Reg(30) ELSE old) /\ word \in Word
  BY <1>2, <1>4 DEF CaxiWrites
<1>6. at = EffectiveAddress(i) /\ old = ReadU32(bus, at)
  OBVIOUS
<1> HIDE DEF at, old, word
<1>7. TypedBus(bus') /\ Held(bus') = Over(Held(bus), BaseOf(at, 4), 4, Bytes(word))
  BY <1>1, <1>2, <1>3, <1>5, WordOver
<1>8. TypedRegs(regs') /\ (Asked.reg = i.reg2 => FlatRegisters' = F!Put(Bytes(old)))
  BY <1>1, <1>2, <1>3, <1>4, Puts
<1>9. zero' \in BOOLEAN
  BY <1>1
<1>10. CASE at \in Watched
  <2>1. Asked.op = "exchange" /\ Asked.at = at /\ Asked.size = 4 /\ Asked.reg = i.reg2
    BY <1>1, <1>6, <1>10, AskedNow
  <2>2. FlatRegisters[i.reg2] = Bytes(Reg(i.reg2)) /\ FlatRegisters[30] = Bytes(Reg(30))
    BY <1>2 DEF FlatRegisters
  <2>3. PlainWord(at) /\ 4 \in {1, 2, 4}
    BY <1>10, WatchedIs
  <2>4. \A k \in 1..4 : Bytes(old)[k] = Found(Held(bus), BaseOf(at, 4) + k - 1)
    BY <1>2, <1>3, <1>6, <2>3, Shown32
  <2>5. Bytes(old) = F!Read(FALSE)
    <3> DEFINE fill == 0
    <3>1. fill = IF FALSE /\ Found(Held(bus), BaseOf(at, 4) + 4 - 1) >= 128 THEN 255 ELSE 0
      OBVIOUS
    <3>2. \A k \in 1..4 : Bytes(old)[k] = IF k <= 4 THEN Found(Held(bus), BaseOf(at, 4) + k - 1) ELSE fill
      BY <2>4
    <3>3. Bytes(old) = Spread(Held(bus), BaseOf(at, 4), 4, FALSE)
      BY <1>4, <3>1, <3>2, SpreadIs
    <3>4. F!Read(FALSE) = Spread(Held(bus), BaseOf(at, 4), 4, FALSE)
      BY <1>10, <2>1, <2>3, FlatRead
    <3>5. QED
      BY <3>3, <3>4
  <2>6. Reg(i.reg2) = old <=> FlatRegisters[Asked.reg] = F!Read(FALSE)
    <3>1. Reg(i.reg2) \in Word
      BY <1>2
    <3>2. Bytes(Reg(i.reg2)) = Bytes(old) => Reg(i.reg2) = old
      BY <1>4, <3>1, WordsApart
    <3>3. FlatRegisters[Asked.reg] = Bytes(Reg(i.reg2))
      BY <2>1, <2>2
    <3>4. QED
      BY <2>5, <3>2, <3>3
  <2>7. zero' = (FlatRegisters[Asked.reg] = F!Read(FALSE))
    BY <1>1, <2>6
  <2>8. \A bytes : F!Written(bytes) = [cell \in Cells |-> Over(Held(bus), BaseOf(at, 4), 4, bytes)[cell]]
    BY <1>10, <2>1, <2>3, FlatWritten
  <2>9. FlatContents' = IF zero' THEN F!Written(FlatRegisters[30]) ELSE FlatContents
    <3>1. FlatContents' = [cell \in Cells |-> Over(Held(bus), BaseOf(at, 4), 4, Bytes(word))[cell]]
      BY <1>7, FlatNow, ShownOf
    <3>2. CASE Reg(i.reg2) = old
      BY <1>1, <1>5, <2>2, <2>8, <3>1, <3>2
    <3>3. CASE Reg(i.reg2) # old
      <4>1. ASSUME NEW cell \in Cells
            PROVE  Over(Held(bus), BaseOf(at, 4), 4, Bytes(old))[cell] = Held(bus)[cell]
        <5>1. cell \in Places /\ 4 \in {1, 2, 4}
          BY CellsArePlaces
        <5>2. Gives(Held(bus), BaseOf(at, 4), 4, Bytes(old))
          BY <2>4 DEF Gives
        <5>3. QED
          BY <5>1, <5>2, OverSame
      <4>2. word = old /\ zero' = FALSE
        BY <1>1, <1>5, <3>3
      <4>3. FlatContents' = FlatContents
        BY <3>1, <4>1, <4>2, FlatNow, ShownOf
      <4>4. QED
        BY <4>2, <4>3
    <3>4. QED
      BY <3>2, <3>3
  <2>10. FlatRegisters' = F!Put(F!Read(FALSE))
    BY <1>8, <2>1, <2>5
  <2>11. F!Exchange
    BY <2>1, <2>7, <2>9, <2>10 DEF F!Exchange, FlatRegisters, FlatContents
  <2>12. Asked' = F!None
    BY FlatNow DEF AskedOf, F!None
  <2>13. QED
    BY <1>7, <1>8, <1>9, <2>11, <2>12 DEF F!Answer
<1>11. CASE at \notin Watched
  <2>1. i.op \notin Swaps
    BY <1>1, KindsApart
  <2>2. Asked.op = "elsewhere"
    BY <1>6, <1>11, <2>1, AskedNow
  <2>3. \A cell \in Cells : Over(Held(bus), BaseOf(at, 4), 4, Bytes(word))[cell] = Held(bus)[cell]
    BY <1>1, <1>2, <1>6, <1>11, StoresElsewhere
  <2>4. ShownCells(bus') = ShownCells(bus)
    BY <1>7, <2>3, ShownOf
  <2>5. QED
    BY <1>7, <1>8, <1>9, <2>2, <2>4, Passes
<1>12. QED
  BY <1>10, <1>11

LEMMA SwapAnswers ==
  ASSUME FlatIInv, fetched # Nothing, fetched' = Nothing, NEW i, i = Fetched(fetched), Swap(i)
  PROVE  F!Answer /\ TypedBus(bus') /\ TypedRegs(regs') /\ zero' \in BOOLEAN
<1> DEFINE word == Reg(i.reg2)
           bytes == <<Halfword(HighByte(word[1]), LowByte(word[1])), word[2]>>
           halves == <<word[2], word[1]>>
           left == IF i.op = "Xb" THEN bytes ELSE halves
           order == IF i.op = "Xb" THEN <<2, 1, 3, 4>> ELSE <<3, 4, 1, 2>>
<1>1. i.op \in Swaps /\ SetReg(i.reg2, left) /\ bus' = bus /\ zero' = zero
  BY DEF Swap, Swaps
<1>2. TypedBus(bus) /\ TypedRegs(regs) /\ zero \in BOOLEAN /\ fetched \in Word
  BY DEF FlatIInv
<1>3. i.op \notin Illegal
  BY <1>1, KindsApart
<1>4. i.reg2 \in 0..31
  BY <1>2, <1>3, NamesRegister
<1>5. word \in Word
  BY <1>2, RegOfIs DEF Reg
<1> HIDE DEF word
<1>6. left \in Word /\ Bytes(left) = [k \in 1..4 |-> Bytes(word)[order[k]]]
  BY <1>5, SwappedIs
<1> HIDE DEF bytes, halves, left
<1>7. TypedRegs(regs') /\ (Asked.reg = i.reg2 => FlatRegisters' = F!Put(Bytes(left)))
  BY <1>1, <1>2, <1>4, <1>6, Puts
<1>8. Asked.op = "rearrange" /\ Asked.reg = i.reg2 /\ Asked.order = order
  BY <1>1, AskedNow
<1>9. FlatRegisters[i.reg2] = Bytes(word)
  BY <1>4 DEF FlatRegisters, word
<1> HIDE DEF order
<1>10. FlatRegisters' = F!Put([k \in 1..4 |-> FlatRegisters[Asked.reg][Asked.order[k]]])
  BY <1>6, <1>7, <1>8, <1>9
<1>11. FlatContents' = FlatContents /\ zero' = zero
  BY <1>1, FlatNow
<1>12. F!Rearrange
  BY <1>8, <1>10, <1>11 DEF F!Rearrange, FlatRegisters, FlatContents
<1>13. Asked' = F!None
  BY FlatNow DEF AskedOf, F!None
<1>14. QED
  BY <1>1, <1>2, <1>7, <1>12, <1>13 DEF F!Answer

LEMMA ExecuteAnswers ==
  ASSUME FlatIInv, Execute
  PROVE  F!Answer /\ FlatIInv'
<1> DEFINE i == Fetched(fetched)
<1>1. /\ fetched # Nothing /\ fetched' = Nothing
      /\ Load(i) \/ Store(i) \/ Caxi(i) \/ Swap(i) \/ Other(i) \/ IllegalInstruction(i)
  BY DEF Execute
<1>2. i = Fetched(fetched)
  OBVIOUS
<1> HIDE DEF i
<1>3. F!Answer /\ TypedBus(bus') /\ TypedRegs(regs') /\ zero' \in BOOLEAN
  <2>1. CASE Load(i)
    BY <1>1, <1>2, <2>1, LoadAnswers
  <2>2. CASE Store(i)
    BY <1>1, <1>2, <2>2, StoreAnswers
  <2>3. CASE Caxi(i)
    BY <1>1, <1>2, <2>3, CaxiAnswers
  <2>4. CASE Swap(i)
    BY <1>1, <1>2, <2>4, SwapAnswers
  <2>5. CASE Other(i) \/ IllegalInstruction(i)
    <3>1. i.op \notin Loads \cup Stores \cup Swaps \cup {"Caxi"}
      BY <2>5, KindsApart DEF Other, IllegalInstruction
    <3>2. bus' = bus /\ regs' = regs /\ zero' \in BOOLEAN
      BY <2>5 DEF Other, IllegalInstruction, FlatIInv
    <3>3. TypedBus(bus') /\ TypedRegs(regs')
      BY <3>2 DEF FlatIInv
    <3>4. ShownCells(bus') = ShownCells(bus)
      BY <3>2
    <3>5. Asked.op = "elsewhere"
      BY <1>1, <1>2, <3>1, AskedNow
    <3>6. QED
      BY <1>1, <3>2, <3>3, <3>4, <3>5, Passes
  <2>6. QED
    BY <1>1, <2>1, <2>2, <2>3, <2>4, <2>5
<1>4. QED
  BY <1>1, <1>3 DEF FlatIInv

LEMMA SameTyped ==
  ASSUME NEW b, TypedBus(b), NEW new, IsBus(new), TypedVip(new.vip), Same(b, new), new.wait = b.wait
  PROVE  TypedBus(new) /\ ShownCells(new) = ShownCells(b)
<1>1. HoldsBytes(b.wram) /\ HoldsBytes(b.sram) /\ b.wait \subseteq {0, 1}
  BY TypedBusIs
<1>2. TypedBus(new)
  BY <1>1, TypedBusIs DEF Same
<1>3. Held(new) = Held(b)
  BY SameHeld
<1>4. QED
  BY <1>2, <1>3, ShownOf

LEMMA WordIsSome ==
  ASSUME NEW word \in Word
  PROVE  word # Nothing
<1>1. PICK low, high : word = <<low, high>>
  BY DEF Word
<1>2. 1 \in DOMAIN word /\ 1 \notin DOMAIN <<>>
  BY <1>1
<1>3. QED
  BY <1>2 DEF Nothing

LEMMA FetchAsks ==
  ASSUME FlatIInv, Fetch
  PROVE  F!Ask /\ FlatIInv'
<1>1. PICK step \in Program : fetched' = step.words /\ regs' = step.regs
  BY DEF Fetch
<1>2. fetched = Nothing /\ bus' = [bus EXCEPT !.posted = <<>>] /\ zero' = zero
  BY DEF Fetch
<1>3. TypedBus(bus) /\ zero \in BOOLEAN
  BY DEF FlatIInv
<1>4. fetched' \in Word /\ TypedRegs(regs')
  BY <1>1, LoadStoreAssumption DEF TypedRegs
<1>5. TypedBus(bus') /\ ShownCells(bus') = ShownCells(bus)
  <2> DEFINE new == bus'
  <2>1. IsBus(bus) /\ TypedVip(bus.vip)
    BY <1>3, TypedBusIs
  <2>2. new = [bus EXCEPT !.posted = <<>>]
    BY <1>2
  <2> HIDE DEF new
  <2>3. IsBus(new) /\ new.vip = bus.vip /\ new.wram = bus.wram /\ new.sram = bus.sram /\ new.wait = bus.wait
    BY <2>1, <2>2, PostedPut
  <2>4. TypedBus(new) /\ ShownCells(new) = ShownCells(bus)
    BY <1>3, <2>1, <2>3, SameTyped DEF Same
  <2>5. QED
    BY <2>4 DEF new
<1>6. fetched' # Nothing
  BY <1>4, WordIsSome
<1>7. Asked = F!None
  BY <1>2, FlatNow DEF AskedOf, F!None
<1>8. Asked' \in F!Requests \ {F!None}
  BY <1>4, <1>6, FlatNow, AskedTyped
<1>9. FlatRegisters' \in F!Registers
  BY <1>4, FlatNow, ShownRegsTyped
<1>10. FlatContents' = FlatContents
  BY <1>5, FlatNow
<1>11. F!Ask
  BY <1>2, <1>7, <1>8, <1>9, <1>10 DEF F!Ask, FlatRegisters, FlatContents
<1>12. FlatIInv'
  BY <1>1, <1>2, <1>3, <1>4, <1>5 DEF FlatIInv
<1>13. QED
  BY <1>11, <1>12

\* Nothing is asked between two instructions, and nothing moves.
LEMMA BetweenStutters ==
  ASSUME FlatIInv, RaiseVip \/ UNCHANGED vars
  PROVE  UNCHANGED F!vars /\ FlatIInv'
<1>1. CASE RaiseVip
  <2>1. PICK flags \in RaiseSets : bus' = [bus EXCEPT !.vip.regs = Raise(@, flags)]
    BY <1>1 DEF RaiseVip
  <2>2. fetched = Nothing /\ fetched' = fetched /\ regs' = regs /\ zero' = zero
    BY <1>1 DEF RaiseVip
  <2>3. TypedBus(bus)
    BY DEF FlatIInv
  <2>4. IsBus(bus) /\ IsVip(bus.vip) /\ IsRegisters(bus.vip.regs) /\ HoldsBytes(bus.vip.vram)
        /\ bus.vip.regs.settings \in Settings
    BY <2>3, TypedBusIs DEF TypedVip, WholeVip
  <2> DEFINE more == bus.vip.regs.pending \cup (flags \cap INT_MASK)
             raised == [bus.vip.regs EXCEPT !.pending = more]
             vip == [bus.vip EXCEPT !.regs = raised]
             new == bus'
  <2>5. new = [bus EXCEPT !.vip = vip]
    BY <2>1 DEF Raise
  <2> HIDE DEF new, more
  <2>6. IsRegisters(raised) /\ raised.settings = bus.vip.regs.settings
    BY <2>4, PendingWhole
  <2> HIDE DEF raised
  <2>7. IsVip(vip) /\ vip.regs = raised /\ vip.vram = bus.vip.vram
    BY <2>4, RegsPut
  <2> HIDE DEF vip
  <2>8. IsBus(new) /\ new.vip = vip /\ new.wram = bus.wram /\ new.sram = bus.sram /\ new.wait = bus.wait
    BY <2>4, <2>5, VipPut
  <2>9. TypedVip(new.vip)
    BY <2>4, <2>6, <2>7, <2>8 DEF TypedVip, WholeVip
  <2>10. TypedBus(new) /\ ShownCells(new) = ShownCells(bus)
    BY <2>3, <2>7, <2>8, <2>9, SameTyped DEF Same
  <2>11. FlatIInv'
    BY <2>2, <2>10 DEF FlatIInv, new
  <2>12. FlatContents' = FlatContents /\ FlatRegisters' = FlatRegisters /\ Asked' = Asked
    BY <2>2, <2>10, FlatNow DEF new
  <2>13. QED
    BY <2>2, <2>11, <2>12 DEF F!vars, FlatRegisters, FlatContents
<1>2. CASE UNCHANGED vars
  <2>1. bus' = bus /\ fetched' = fetched /\ regs' = regs /\ zero' = zero
    BY <1>2 DEF vars
  <2>2. FlatIInv'
    BY <2>1 DEF FlatIInv
  <2>3. FlatContents' = FlatContents /\ FlatRegisters' = FlatRegisters /\ Asked' = Asked
    BY <2>1, FlatNow
  <2>4. QED
    BY <2>1, <2>2, <2>3 DEF F!vars, FlatRegisters, FlatContents
<1>3. QED
  BY <1>1, <1>2

LEMMA NewBusTyped ==
  /\ TypedBus(NewBus)
  /\ \A vram : HoldsBytes(vram) => TypedBus([NewBus EXCEPT !.vip.vram = vram])
<1> DEFINE settings == [addr \in Setting |-> 0]
           vip == VipFields(Empty, NewRegisters)
<1>1. NewRegisters = Fields({}, {}, {}, FALSE, 0, settings)
  BY Zenon DEF NewRegisters, Fields
<1>2. settings \in Settings
  BY ByteIsHalf DEF Settings
<1>3. IsRegisters(NewRegisters) /\ NewRegisters.settings = settings
  <2>1. NewRegisters.settings = settings
    BY DEF NewRegisters
  <2> HIDE DEF settings
  <2>2. IsRegisters(NewRegisters)
    BY <1>1, FieldsOf
  <2>3. QED
    BY <2>1, <2>2
<1> HIDE DEF settings
<1>4. IsVip(vip) /\ vip.vram = Empty /\ vip.regs = NewRegisters
  BY VipFieldsAre
<1>5. HoldsBytes(Empty)
  BY DEF HoldsBytes, Empty
<1>6. NewBus = BusFields(vip, Empty, Empty, {}, <<>>)
  BY Zenon DEF NewBus, BusFields, VipFields
<1> HIDE DEF vip
<1>7. IsBus(NewBus) /\ NewBus.vip = vip /\ NewBus.wram = Empty /\ NewBus.sram = Empty /\ NewBus.wait = {}
  BY <1>6, BusFieldsAre
<1>8. TypedBus(NewBus)
  BY <1>2, <1>3, <1>4, <1>5, <1>7, TypedBusIs DEF TypedVip, WholeVip
<1>9. ASSUME NEW vram, HoldsBytes(vram)
      PROVE  TypedBus([NewBus EXCEPT !.vip.vram = vram])
  <2> DEFINE painted == [NewBus.vip EXCEPT !.vram = vram]
             new == [NewBus EXCEPT !.vip = painted]
  <2>1. IsVip(painted) /\ painted.regs = NewRegisters /\ painted.vram = vram
    BY <1>4, <1>7, VramPut
  <2>2. [NewBus EXCEPT !.vip.vram = vram] = new
    OBVIOUS
  <2>3. new = [NewBus EXCEPT !.vip = painted]
    OBVIOUS
  <2> HIDE DEF painted, new
  <2>4. IsBus(new) /\ new.vip = painted /\ new.wram = Empty /\ new.sram = Empty /\ new.wait = {}
    BY <1>7, <2>3, VipPut
  <2>5. TypedBus(new)
    BY <1>2, <1>3, <1>5, <1>9, <2>1, <2>4, TypedBusIs DEF TypedVip, WholeVip
  <2>6. QED
    BY <2>2, <2>5
<1>10. QED
  BY <1>8, <1>9

LEMMA FlatInit == Init => F!Init /\ FlatIInv
<1> SUFFICES ASSUME Init PROVE F!Init /\ FlatIInv
  OBVIOUS
<1>1. TypedBus(bus)
  <2>1. \A vram \in Pictures : HoldsBytes(vram)
    BY LoadStoreAssumption DEF HoldsBytes
  <2>2. bus = NewBus \/ \E vram \in Pictures : bus = [NewBus EXCEPT !.vip.vram = vram]
    BY DEF Init
  <2>3. QED
    BY <2>1, <2>2, NewBusTyped
<1>2. regs = NoRegs /\ zero = FALSE
  BY DEF Init
<1>3. TypedRegs(regs)
  BY <1>2 DEF TypedRegs, NoRegs
<1>4. fetched = Nothing \/ fetched \in FirstWords
  BY DEF Init
<1>5. fetched \in FirstWords =>
        fetched \in Word /\ \E step \in Program \cup FirstSteps : fetched = step.words /\ regs = step.regs
  <2>1. ASSUME fetched \in FirstWords
        PROVE  \E step \in Program \cup FirstSteps : fetched = step.words /\ regs = step.regs
    <3> DEFINE step == [words |-> fetched, regs |-> NoRegs]
    <3>1. step \in FirstSteps /\ step.words = fetched /\ step.regs = NoRegs
      BY <2>1 DEF FirstSteps
    <3>2. QED
      BY <1>2, <3>1
  <2>2. QED
    BY <2>1, LoadStoreAssumption
<1>6. FlatIInv
  BY <1>1, <1>2, <1>3, <1>4, <1>5 DEF FlatIInv
<1>7. FlatContents \in [Cells -> F!Byte]
  <2>1. Held(bus) \in [Places -> Byte] /\ Cells \subseteq Places
    BY <1>1, HeldIsBytes, CellsArePlaces
  <2>2. FlatContents = [cell \in Cells |-> Held(bus)[cell]]
    BY FlatNow, ShownOf
  <2>3. F!Byte = Byte
    BY DEF F!Byte, Byte
  <2>4. QED
    BY <2>1, <2>2, <2>3
<1>8. FlatRegisters \in F!Registers
  BY <1>3, FlatNow, ShownRegsTyped
<1>9. Asked \in F!Requests
  BY <1>4, <1>5, FlatNow, AskedTyped
<1>10. F!Init
  BY <1>2, <1>7, <1>8, <1>9 DEF F!Init, FlatRegisters, FlatContents
<1>11. QED
  BY <1>6, <1>10

LEMMA FlatStep == FlatIInv /\ [Next]_vars => FlatIInv' /\ [F!Next]_(F!vars)
<1> SUFFICES ASSUME FlatIInv, [Next]_vars
             PROVE  FlatIInv' /\ [F!Next]_(F!vars)
  OBVIOUS
<1>1. CASE Fetch
  BY <1>1, FetchAsks DEF F!Next
<1>2. CASE Execute
  BY <1>2, ExecuteAnswers DEF F!Next
<1>3. CASE RaiseVip \/ UNCHANGED vars
  BY <1>3, BetweenStutters
<1>4. QED
  BY <1>1, <1>2, <1>3 DEF Next

LEMMA FlatInvariant == Spec => []FlatIInv
<1>1. Init => FlatIInv
  BY FlatInit
<1>2. FlatIInv /\ [Next]_vars => FlatIInv'
  BY FlatStep
<1>3. QED
  BY <1>1, <1>2, PTL DEF Spec

\* The memory that loads, stores and exchanges reach is the flat memory that
\* programs take it for: at every address that is followed, through every
\* mirror, at every width, and whatever is stored beside it.
THEOREM MemoryIsFlat == Spec => ImplementsFlatMemory
<1>1. Init => F!Init /\ FlatIInv
  BY FlatInit
<1>2. FlatIInv /\ [Next]_vars => FlatIInv' /\ [F!Next]_(F!vars)
  BY FlatStep
<1>3. QED
  BY <1>1, <1>2, PTL DEF Spec, ImplementsFlatMemory, F!Spec

-----------------------------------------------------------------------------
(* Records in video memory: the fields of a record put back.                  *)

\* A number without the bits from one place up to another.
Outer(n, low, high) == (n % 2^low) + 2^high * (n \div 2^high)

\* A number is what is in a field of it and what is outside.
LEMMA OuterBits ==
  ASSUME NEW n \in Nat, NEW low \in Nat, NEW high \in Nat, low <= high, NEW i \in Nat
  PROVE  IsBit(Outer(n, low, high), i) <=> ~(low <= i /\ i < high) /\ IsBit(n, i)
<1> DEFINE p == 2^low
           q == 2^high
           r == n % p
           d == n \div q
           m == Outer(n, low, high)
<1>1. p \in Nat \ {0} /\ q \in Nat \ {0} /\ r \in 0..(p - 1) /\ d \in Int
  BY PowerPositive, Divided
<1>2. r \in 0..(q - 1)
  <2>1. 2^(high - low) \in Nat \ {0} /\ q = p * 2^(high - low)
    <3>1. high - low \in Nat /\ low + (high - low) = high
      OBVIOUS
    <3>2. QED
      BY <3>1, PowerPositive, PowersMultiply
  <2> DEFINE more == 2^(high - low)
  <2>2. more \in Nat \ {0} /\ q = p * more
    BY <2>1
  <2> HIDE DEF p, q, r, more
  <2>3. p * 1 <= p * more
    BY <1>1, <2>2, ProductMonotone
  <2>4. QED
    BY <1>1, <2>2, <2>3
<1>3. m = q * d + r
  <2> HIDE DEF d, r
  <2>1. m = r + q * d
    BY DEF Outer, r, d
  <2>2. q * d \in Int /\ r \in Int
    BY <1>1
  <2>3. QED
    BY <2>1, <2>2
<1> HIDE DEF m
<1>4. m \in Int /\ m \div q = d /\ m % q = r
  <2> HIDE DEF q, r, d
  <2>1. q * d \in Int
    BY <1>1
  <2>2. QED
    BY <1>1, <1>2, <1>3, <2>1, DivisionOf
<1>5. CASE i < high
  <2>1. IsBit(m % 2^high, i) <=> IsBit(m, i)
    BY <1>4, <1>5, LowBit
  <2>2. IsBit(n % 2^low, i) <=> i < low /\ IsBit(n, i)
    BY LowBit
  <2>3. QED
    BY <1>4, <1>5, <2>1, <2>2 DEF m
<1>6. CASE ~(i < high)
  <2> DEFINE j == i - high
  <2>1. j \in Nat /\ high + j = i
    BY <1>6
  <2> HIDE DEF j
  <2>2. /\ (m \div 2^high) \div 2^j = m \div 2^(high + j)
        /\ (n \div 2^high) \div 2^j = n \div 2^(high + j)
    <3>1. m \in Int /\ n \in Int /\ high \in Nat
      BY <1>4
    <3> HIDE DEF m
    <3>2. \A k \in Int : (k \div 2^high) \div 2^j = k \div 2^(high + j)
      BY <2>1, ShiftedBit
    <3>3. QED
      BY <3>1, <3>2, Zenon
  <2>3. IsBit(m, i) <=> IsBit(n, i)
    BY <1>4, <2>1, <2>2 DEF IsBit
  <2>4. QED
    BY <1>6, <2>3 DEF m
<1>7. QED
  BY <1>5, <1>6

\* Of a halfword, what is outside a field is within a halfword.
LEMMA OuterHalf ==
  ASSUME NEW half \in Half, NEW low \in Nat, NEW high \in Nat, low <= high
  PROVE  Bits(Outer(half, low, high)) = {i \in 0..15 : ~(low <= i /\ i < high)} \cap Bits(half)
<1>1. half \in Nat
  BY HalfIs
<1>2. \A i \in 0..15 : IsBit(Outer(half, low, high), i) <=> ~(low <= i /\ i < high) /\ IsBit(half, i)
  BY <1>1, OuterBits
<1>3. \A n : Bits(n) = {i \in 0..15 : IsBit(n, i)}
  BY DEF Bits, IsBit
<1> HIDE DEF Outer
<1>4. QED
  BY <1>2, <1>3

\* How a cell or an object shows its character, put back, is all but bit 11.
LEMMA LookOuter ==
  ASSUME NEW h \in Half
  PROVE  LookHalf(Look(h)) = Outer(h, 11, 12)
<1>1. h \in Int /\ h >= 0 /\ h < 65536
  BY HalfIs
<1>2. LookHalf(Look(h)) = BitField(h, 0, 11) + Bit(12, Flag(h, 12)) + Bit(13, Flag(h, 13)) + 2^14 * BitField(h, 14, 2)
  BY DEF LookHalf, Look
<1>3. /\ BitField(h, 0, 11) = h % 2048 /\ BitField(h, 14, 2) = (h \div 16384) % 4
      /\ BitField(h, 12, 1) = (h \div 4096) % 2 /\ BitField(h, 13, 1) = (h \div 8192) % 2
  BY <1>1, SMT DEF BitField
<1>4. Bit(12, Flag(h, 12)) = 4096 * ((h \div 4096) % 2) /\ Bit(13, Flag(h, 13)) = 8192 * ((h \div 8192) % 2)
  BY <1>1, <1>3, SMT DEF Bit, Flag
<1>5. Outer(h, 11, 12) = (h % 2048) + 4096 * (h \div 4096)
  BY <1>1, SMT DEF Outer
<1> DEFINE d == h \div 4096
           first == d % 2
           second == (d \div 2) % 2
           rest == (d \div 4) % 4
<1>6. d = first + 2 * second + 4 * rest /\ first \in Int /\ second \in Int /\ rest \in Int
  <2>1. d \in Int /\ d >= 0 /\ d < 16
    BY <1>1, SMT
  <2> HIDE DEF d
  <2>2. QED
    BY <2>1, SMT
<1>7. h \div 8192 = d \div 2 /\ h \div 16384 = d \div 4 /\ d \in Int
  BY <1>1, SMT
<1>8. LookHalf(Look(h)) = (h % 2048) + 4096 * first + 8192 * second + 16384 * rest
  <2>1. 2^14 = 16384
    BY SMT
  <2>2. QED
    BY <1>2, <1>3, <1>4, <1>7, <2>1
<1>9. h % 2048 \in Int
  BY <1>1, SMT
<1> HIDE DEF first, second, rest
<1>10. (h % 2048) + 4096 * first + 8192 * second + 16384 * rest = (h % 2048) + 4096 * d
  <2> DEFINE least == h % 2048
  <2> HIDE DEF least, d
  <2>1. QED
    BY <1>6, <1>9, SMT DEF least
<1>11. QED
  BY <1>5, <1>8, <1>10

\* A signed field put back is the halfword's low bits.
LEMMA CoordinateOuter ==
  ASSUME NEW h \in Half, NEW n \in {10, 13, 15, 16}
  PROVE  /\ SignedField(h, n) \in SignedRange(n)
         /\ Modulo(SignedField(h, n), n) = Outer(h, n, 16)
<1>1. h \in Int /\ h >= 0 /\ h < 65536
  BY HalfIs
<1>2. h \div 65536 = 0 /\ 2^16 = 65536
  BY <1>1, SMT
<1>3. CASE n = 10
  BY <1>1, <1>3, SMT DEF SignedField, SignedRange, Modulo, Outer
<1>4. CASE n = 13
  BY <1>1, <1>4, SMT DEF SignedField, SignedRange, Modulo, Outer
<1>5. CASE n = 15
  BY <1>1, <1>5, SMT DEF SignedField, SignedRange, Modulo, Outer
<1>6. CASE n = 16
  BY <1>1, <1>6, SMT DEF SignedField, SignedRange, Modulo, Outer
<1>7. QED
  BY <1>3, <1>4, <1>5, <1>6

\* The fields that are not signed as wide as they are.
LEMMA PlainOuter ==
  ASSUME NEW h \in Half
  PROVE  /\ h % 2^13 = Outer(h, 13, 16)
         /\ h = Outer(h, 0, 0)
         /\ ObjectY(h % 2^8) \in -8..247
         /\ Modulo(ObjectY(h % 2^8), 8) = Outer(h, 8, 16)
<1>1. h \in Int /\ h >= 0 /\ h < 65536
  BY HalfIs
<1>2. h % 2^13 = Outer(h, 13, 16)
  BY <1>1, SMT DEF Outer
<1>3. h = Outer(h, 0, 0)
  BY <1>1, SMT DEF Outer
<1>4. ObjectY(h % 2^8) \in -8..247
  BY <1>1, SMT DEF ObjectY
<1>5. Modulo(ObjectY(h % 2^8), 8) = Outer(h, 8, 16)
  BY <1>1, SMT DEF ObjectY, Modulo, Outer
<1>6. QED
  BY <1>2, <1>3, <1>4, <1>5

\* The eyes of an object, beside its parallax.
LEMMA EyesOuter ==
  ASSUME NEW h \in Half
  PROVE  Modulo(SignedField(h, 10), 10) + Bit(14, Flag(h, 14)) + Bit(15, Flag(h, 15)) = Outer(h, 10, 14)
<1>1. h \in Int /\ h >= 0 /\ h < 65536
  BY HalfIs
<1>2. Modulo(SignedField(h, 10), 10) = h % 1024
  BY <1>1, SMT DEF SignedField, Modulo
<1>3. BitField(h, 14, 1) = (h \div 16384) % 2 /\ BitField(h, 15, 1) = (h \div 32768) % 2
  BY <1>1, SMT DEF BitField
<1>4. Bit(14, Flag(h, 14)) = 16384 * ((h \div 16384) % 2) /\ Bit(15, Flag(h, 15)) = 32768 * ((h \div 32768) % 2)
  BY <1>1, <1>3, SMT DEF Bit, Flag
<1>5. Outer(h, 10, 14) = (h % 1024) + 16384 * (h \div 16384)
  BY <1>1, SMT DEF Outer
<1>6. 16384 * ((h \div 16384) % 2) + 32768 * ((h \div 32768) % 2) = 16384 * (h \div 16384)
  BY <1>1, SMT
<1>7. QED
  <2> DEFINE low == h % 1024
             right == 16384 * ((h \div 16384) % 2)
             left == 32768 * ((h \div 32768) % 2)
             top == 16384 * (h \div 16384)
  <2>1. low \in Int /\ right \in Int /\ left \in Int /\ top \in Int
    BY <1>1, SMT
  <2>2. /\ Modulo(SignedField(h, 10), 10) = low /\ Bit(14, Flag(h, 14)) = right /\ Bit(15, Flag(h, 15)) = left
        /\ Outer(h, 10, 14) = low + top /\ right + left = top
    BY <1>2, <1>4, <1>5, <1>6
  <2> HIDE DEF low, right, left, top
  <2>3. QED
    BY <2>1, <2>2

\* A look, and the bits of the maps and of the kind of a world.
LEMMA HeaderParts ==
  ASSUME NEW h \in Half
  PROVE  LET d == h \div 64
         IN  /\ d \in Int /\ d >= 0 /\ d < 1024 /\ h \div 128 = d \div 2 /\ h \div 256 = d \div 4
             /\ h \div 1024 = d \div 16 /\ h \div 4096 = d \div 64 /\ h \div 16384 = d \div 256
             /\ h \div 32768 = d \div 512
<1>1. h \in Int /\ h >= 0 /\ h < 65536
  BY HalfIs
<1>2. QED
  BY <1>1, SMT

LEMMA TopOfHeader ==
  ASSUME NEW d \in Int, d >= 0, d < 1024
  PROVE  (d % 2) + 2 * ((d \div 2) % 2) + 4 * ((d \div 4) % 4) + 16 * ((d \div 16) % 4) + 64 * ((d \div 64) % 4)
           + 256 * ((d \div 256) % 2) + 512 * ((d \div 512) % 2) = d
<1> DEFINE e == d \div 16
<1>1. e \in Int /\ e >= 0 /\ e < 64 /\ d \div 64 = e \div 4 /\ d \div 256 = e \div 16 /\ d \div 512 = e \div 32
  BY SMT
<1>2. (d % 2) + 2 * ((d \div 2) % 2) + 4 * ((d \div 4) % 4) + 16 * e = d
  BY SMT
<1> HIDE DEF e
<1>3. (e % 4) + 4 * ((e \div 4) % 4) + 16 * ((e \div 16) % 2) + 32 * ((e \div 32) % 2) = e
  BY <1>1, SMT
<1>4. QED
  BY <1>1, <1>2, <1>3, SMT DEF e

\* No two kinds have a name.
LEMMA KindNumbered ==
  ASSUME NEW k \in 0..3
  PROVE  (CHOOSE j \in DOMAIN WORLD_KINDS : WORLD_KINDS[j] = WORLD_KINDS[k + 1]) - 1 = k
<1>1. /\ DOMAIN WORLD_KINDS = 1..4 /\ k + 1 \in 1..4
      /\ \A i, j \in 1..4 : WORLD_KINDS[i] = WORLD_KINDS[j] => i = j
  BY DEF WORLD_KINDS
<1> DEFINE j == CHOOSE j \in DOMAIN WORLD_KINDS : WORLD_KINDS[j] = WORLD_KINDS[k + 1]
<1>2. j \in DOMAIN WORLD_KINDS /\ WORLD_KINDS[j] = WORLD_KINDS[k + 1]
  BY <1>1
<1> HIDE DEF j
<1>3. j = k + 1
  BY <1>1, <1>2
<1>4. j - 1 = k
  BY <1>3
<1>5. QED
  BY <1>4 DEF j

HeaderOf(h) ==
  BitField(h, 0, 4) + Bit(6, Flag(h, 6)) + Bit(7, Flag(h, 7)) + 2^8 * BitField(h, 8, 2)
    + 2^10 * BitField(h, 10, 2) + Bit(14, Flag(h, 14)) + Bit(15, Flag(h, 15)) + 2^12 * BitField(h, 12, 2)

\* The first halfword of a world, put back, is all but the bits 4 and 5.
LEMMA HeaderOuter ==
  ASSUME NEW h \in Half
  PROVE  HeaderOf(h) = Outer(h, 4, 6)
<1> DEFINE d == h \div 64
           b1 == d % 2
           b2 == (d \div 2) % 2
           b3 == (d \div 4) % 4
           b4 == (d \div 16) % 4
           b5 == (d \div 64) % 4
           b6 == (d \div 256) % 2
           b7 == (d \div 512) % 2
           low == h % 16
<1>1. h \in Int /\ h >= 0 /\ h < 65536
  BY HalfIs
<1>2. /\ d \in Int /\ d >= 0 /\ d < 1024 /\ h \div 128 = d \div 2 /\ h \div 256 = d \div 4
      /\ h \div 1024 = d \div 16 /\ h \div 4096 = d \div 64 /\ h \div 16384 = d \div 256
      /\ h \div 32768 = d \div 512
  BY HeaderParts
<1>3. /\ BitField(h, 0, 4) = h % 16 /\ BitField(h, 6, 1) = (h \div 64) % 2 /\ BitField(h, 7, 1) = (h \div 128) % 2
      /\ BitField(h, 8, 2) = (h \div 256) % 4 /\ BitField(h, 10, 2) = (h \div 1024) % 4
      /\ BitField(h, 12, 2) = (h \div 4096) % 4
      /\ BitField(h, 14, 1) = (h \div 16384) % 2 /\ BitField(h, 15, 1) = (h \div 32768) % 2
  BY <1>1, SMT DEF BitField
<1>4. /\ BitField(h, 0, 4) = low /\ BitField(h, 6, 1) = b1 /\ BitField(h, 7, 1) = b2
      /\ BitField(h, 8, 2) = b3 /\ BitField(h, 10, 2) = b4 /\ BitField(h, 12, 2) = b5
      /\ BitField(h, 14, 1) = b6 /\ BitField(h, 15, 1) = b7
  BY <1>2, <1>3
<1>5. Outer(h, 4, 6) = low + 64 * d
  BY <1>1, SMT DEF Outer
<1>6. b1 + 2 * b2 + 4 * b3 + 16 * b4 + 64 * b5 + 256 * b6 + 512 * b7 = d
  BY <1>2, TopOfHeader
<1>7. /\ b1 \in 0..1 /\ b2 \in 0..1 /\ b6 \in 0..1 /\ b7 \in 0..1
      /\ b3 \in 0..3 /\ b4 \in 0..3 /\ b5 \in 0..3 /\ low \in Int
  <2>1. low \in Int
    BY <1>1, SMT
  <2> HIDE DEF d
  <2>2. QED
    BY <1>2, <2>1, SMT
<1> HIDE DEF b1, b2, b3, b4, b5, b6, b7, d, low
<1>8. /\ Bit(6, Flag(h, 6)) = 64 * b1 /\ Bit(7, Flag(h, 7)) = 128 * b2
      /\ Bit(14, Flag(h, 14)) = 16384 * b6 /\ Bit(15, Flag(h, 15)) = 32768 * b7
  BY <1>4, <1>7, SMT DEF Bit, Flag
<1>9. HeaderOf(h) = low + 64 * b1 + 128 * b2 + 256 * b3 + 1024 * b4 + 16384 * b6 + 32768 * b7 + 4096 * b5
  <2>1. 2^8 = 256 /\ 2^10 = 1024 /\ 2^12 = 4096
    BY SMT
  <2>2. QED
    BY <1>4, <1>8, <2>1 DEF HeaderOf
<1>10. QED
  BY <1>2, <1>5, <1>6, <1>7, <1>9, SMT

\* The fields of a world, halfword by halfword.
LEMMA WorldFields ==
  ASSUME NEW words, \A k \in 0..15 : words[k] \in Half
  PROVE  LET world == DecodeWorld(words)
         IN  /\ world.kind = WORLD_KINDS[BitField(words[0], 12, 2) + 1]
             /\ world.x = SignedField(words[1], 10) /\ world.parallax = SignedField(words[2], 10)
             /\ world.y = SignedField(words[3], 16)
             /\ world.source_x = SignedField(words[4], 13) /\ world.source_parallax = SignedField(words[5], 15)
             /\ world.source_y = SignedField(words[6], 13)
             /\ world.raw_width = words[7] % 2^13 /\ world.raw_height = words[8]
             /\ world.param_base = words[9] /\ world.overplane_character = words[10]
             /\ world.map_base = BitField(words[0], 0, 4)
             /\ world.map_width_power = BitField(words[0], 10, 2)
             /\ world.map_height_power = BitField(words[0], 8, 2)
  BY DEF DecodeWorld

LEMMA WorldHeaderIs ==
  ASSUME NEW words, words[0] \in Half
  PROVE  WorldHeader(DecodeWorld(words)) = Outer(words[0], 4, 6)
<1> DEFINE h == words[0]
           world == DecodeWorld(words)
<1>1. h \in Int /\ h >= 0 /\ h < 65536
  BY HalfIs
<1>2. BitField(h, 12, 2) \in 0..3
  BY <1>1, SMT DEF BitField
<1>3. /\ world.map_base = BitField(h, 0, 4) /\ world.end = Flag(h, 6) /\ world.overplane = Flag(h, 7)
      /\ world.map_height_power = BitField(h, 8, 2) /\ world.map_width_power = BitField(h, 10, 2)
      /\ world.right = Flag(h, 14) /\ world.left = Flag(h, 15)
      /\ world.kind = WORLD_KINDS[BitField(h, 12, 2) + 1]
  BY DEF DecodeWorld
<1> HIDE DEF h, world
<1>4. (CHOOSE k \in DOMAIN WORLD_KINDS : WORLD_KINDS[k] = world.kind) - 1 = BitField(h, 12, 2)
  <2> DEFINE kind == BitField(h, 12, 2)
  <2>1. kind \in 0..3 /\ world.kind = WORLD_KINDS[kind + 1]
    BY <1>2, <1>3
  <2> HIDE DEF kind
  <2>2. (CHOOSE k \in DOMAIN WORLD_KINDS : WORLD_KINDS[k] = WORLD_KINDS[kind + 1]) - 1 = kind
    BY <2>1, KindNumbered
  <2>3. QED
    BY <2>1, <2>2 DEF kind
<1>5. WorldHeader(world) = HeaderOf(h)
  BY <1>3, <1>4 DEF WorldHeader, HeaderOf
<1>6. h \in Half
  BY DEF h
<1>7. QED
  BY <1>5, <1>6, HeaderOuter DEF h, world

\* What is left of the halfwords of a record when its fields are put back.
LEMMA WorldOuter ==
  ASSUME NEW words, \A k \in 0..15 : words[k] \in Half
  PROVE  LET halfwords == WorldHalfwords(DecodeWorld(words))
         IN  /\ DOMAIN halfwords = 1..11
             /\ halfwords[1] = Outer(words[0], 4, 6)
             /\ halfwords[2] = Outer(words[1], 10, 16) /\ halfwords[3] = Outer(words[2], 10, 16)
             /\ halfwords[4] = Outer(words[3], 16, 16)
             /\ halfwords[5] = Outer(words[4], 13, 16) /\ halfwords[6] = Outer(words[5], 15, 16)
             /\ halfwords[7] = Outer(words[6], 13, 16) /\ halfwords[8] = Outer(words[7], 13, 16)
             /\ halfwords[9] = Outer(words[8], 0, 0) /\ halfwords[10] = Outer(words[9], 0, 0)
             /\ halfwords[11] = Outer(words[10], 0, 0)
<1> DEFINE world == DecodeWorld(words)
           halfwords == WorldHalfwords(world)
<1>1. /\ DOMAIN halfwords = 1..11
      /\ halfwords[1] = WorldHeader(world)
      /\ halfwords[2] = Modulo(world.x, 10) /\ halfwords[3] = Modulo(world.parallax, 10)
      /\ halfwords[4] = Modulo(world.y, 16) /\ halfwords[5] = Modulo(world.source_x, 13)
      /\ halfwords[6] = Modulo(world.source_parallax, 15) /\ halfwords[7] = Modulo(world.source_y, 13)
      /\ halfwords[8] = world.raw_width /\ halfwords[9] = world.raw_height
      /\ halfwords[10] = world.param_base /\ halfwords[11] = world.overplane_character
  BY DEF WorldHalfwords
<1>2. /\ words[0] \in Half /\ words[1] \in Half /\ words[2] \in Half /\ words[3] \in Half /\ words[4] \in Half
      /\ words[5] \in Half /\ words[6] \in Half /\ words[7] \in Half /\ words[8] \in Half /\ words[9] \in Half
      /\ words[10] \in Half
  OBVIOUS
<1>3. WorldHeader(world) = Outer(words[0], 4, 6)
  BY <1>2, WorldHeaderIs
<1>4. /\ world.x = SignedField(words[1], 10) /\ world.parallax = SignedField(words[2], 10)
      /\ world.y = SignedField(words[3], 16)
      /\ world.source_x = SignedField(words[4], 13) /\ world.source_parallax = SignedField(words[5], 15)
      /\ world.source_y = SignedField(words[6], 13)
      /\ world.raw_width = words[7] % 2^13 /\ world.raw_height = words[8]
      /\ world.param_base = words[9] /\ world.overplane_character = words[10]
  BY WorldFields
<1> HIDE DEF world, halfwords
<1>5. /\ halfwords[2] = Outer(words[1], 10, 16) /\ halfwords[3] = Outer(words[2], 10, 16)
      /\ halfwords[4] = Outer(words[3], 16, 16)
      /\ halfwords[5] = Outer(words[4], 13, 16) /\ halfwords[6] = Outer(words[5], 15, 16)
      /\ halfwords[7] = Outer(words[6], 13, 16)
  BY <1>1, <1>2, <1>4, CoordinateOuter
<1>6. /\ halfwords[8] = Outer(words[7], 13, 16)
      /\ halfwords[9] = Outer(words[8], 0, 0) /\ halfwords[10] = Outer(words[9], 0, 0)
      /\ halfwords[11] = Outer(words[10], 0, 0)
  BY <1>1, <1>2, <1>4, PlainOuter
<1>7. QED
  BY <1>1, <1>3, <1>5, <1>6 DEF world, halfwords

\* The bits between are those that mean nothing.
LEMMA OuterOf ==
  ASSUME NEW half \in Half
  PROVE  /\ Bits(Outer(half, 4, 6)) = ((0..15) \ {4, 5}) \cap Bits(half)
         /\ Bits(Outer(half, 11, 12)) = LookBits \cap Bits(half)
         /\ Bits(Outer(half, 10, 14)) = ((0..9) \cup {14, 15}) \cap Bits(half)
         /\ Bits(Outer(half, 8, 16)) = (0..7) \cap Bits(half)
         /\ Bits(Outer(half, 10, 16)) = (0..9) \cap Bits(half)
         /\ Bits(Outer(half, 13, 16)) = (0..12) \cap Bits(half)
         /\ Bits(Outer(half, 15, 16)) = (0..14) \cap Bits(half)
         /\ Bits(Outer(half, 16, 16)) = (0..15) \cap Bits(half)
         /\ Bits(Outer(half, 0, 0)) = (0..15) \cap Bits(half)
<1>1. \A low, high \in Nat : low <= high =>
        Bits(Outer(half, low, high)) = {i \in 0..15 : ~(low <= i /\ i < high)} \cap Bits(half)
  BY OuterHalf
<1>2. /\ {i \in 0..15 : ~(4 <= i /\ i < 6)} = (0..15) \ {4, 5}
      /\ {i \in 0..15 : ~(11 <= i /\ i < 12)} = LookBits
      /\ {i \in 0..15 : ~(10 <= i /\ i < 14)} = (0..9) \cup {14, 15}
  BY DEF LookBits
<1>3. /\ {i \in 0..15 : ~(8 <= i /\ i < 16)} = 0..7
      /\ {i \in 0..15 : ~(10 <= i /\ i < 16)} = 0..9
      /\ {i \in 0..15 : ~(13 <= i /\ i < 16)} = 0..12
      /\ {i \in 0..15 : ~(15 <= i /\ i < 16)} = 0..14
      /\ {i \in 0..15 : ~(16 <= i /\ i < 16)} = 0..15
      /\ {i \in 0..15 : ~(0 <= i /\ i < 0)} = 0..15
  OBVIOUS
<1>4. /\ Bits(Outer(half, 4, 6)) = {i \in 0..15 : ~(4 <= i /\ i < 6)} \cap Bits(half)
      /\ Bits(Outer(half, 11, 12)) = {i \in 0..15 : ~(11 <= i /\ i < 12)} \cap Bits(half)
      /\ Bits(Outer(half, 10, 14)) = {i \in 0..15 : ~(10 <= i /\ i < 14)} \cap Bits(half)
  BY <1>1
<1>5. /\ Bits(Outer(half, 8, 16)) = {i \in 0..15 : ~(8 <= i /\ i < 16)} \cap Bits(half)
      /\ Bits(Outer(half, 10, 16)) = {i \in 0..15 : ~(10 <= i /\ i < 16)} \cap Bits(half)
      /\ Bits(Outer(half, 13, 16)) = {i \in 0..15 : ~(13 <= i /\ i < 16)} \cap Bits(half)
      /\ Bits(Outer(half, 15, 16)) = {i \in 0..15 : ~(15 <= i /\ i < 16)} \cap Bits(half)
      /\ Bits(Outer(half, 16, 16)) = {i \in 0..15 : ~(16 <= i /\ i < 16)} \cap Bits(half)
      /\ Bits(Outer(half, 0, 0)) = {i \in 0..15 : ~(0 <= i /\ i < 0)} \cap Bits(half)
  BY <1>1
<1>6. QED
  BY <1>2, <1>3, <1>4, <1>5, Zenon

-----------------------------------------------------------------------------
(* The fields of the records in memory.                                       *)

TypedVideo(v) == HoldsBytes(v.vram) /\ v.regs.settings \in Settings

\* The video processor reads halfwords.
LEMMA VipTyped16 ==
  ASSUME NEW v, TypedVideo(v), NEW addr
  PROVE  VipReadU16(v, addr) \in Half
<1> DEFINE target == Resolve(Even(addr))
<1>1. 0 \in Half
  BY ByteIsHalf
<1>2. Peek(v.vram, target.at) \in Byte /\ Peek(v.vram, target.at + 1) \in Byte
  BY Peeked DEF TypedVideo
<1>3. Halfword(Peek(v.vram, target.at), Peek(v.vram, target.at + 1)) \in Half
  BY <1>2, HalfwordIs
<1>4. ReadRegister(v.regs, target.at) \in Half
  BY RegisterRead DEF TypedVideo
<1>5. QED
  BY <1>1, <1>3, <1>4 DEF VipReadU16

LEMMA HalfwordsAre ==
  ASSUME NEW v, TypedVideo(v), NEW base, NEW count \in Nat
  PROVE  \A k \in 0..(count - 1) : /\ Halfwords(v, base, count)[k] = VipReadU16(v, base + 2 * k)
                                   /\ VipReadU16(v, base + 2 * k) \in Half
  BY VipTyped16 DEF Halfwords

\* The fields of a world lose nothing of what is in memory.
LEMMA WorldShown ==
  ASSUME TypedVideo(bus.vip), NEW index
  PROVE  LET world == WorldAt(bus.vip, index)
         IN  /\ Spells(WorldHalfwords(world), WorldBits, WorldAddress(index))
             /\ world.x \in SignedRange(10) /\ world.parallax \in SignedRange(10)
             /\ world.source_x \in SignedRange(13) /\ world.source_y \in SignedRange(13)
             /\ world.source_parallax \in SignedRange(15) /\ world.y \in SignedRange(16)
<1> DEFINE address == WorldAddress(index)
           words == Halfwords(bus.vip, address, 16)
           world == DecodeWorld(words)
           halfwords == WorldHalfwords(world)
           Read(k) == VipReadU16(bus.vip, address + 2 * k)
<1>1. \A k \in 0..15 : words[k] = Read(k) /\ Read(k) \in Half
  BY HalfwordsAre
<1> HIDE DEF words
<1>2. \A k \in 0..15 : words[k] \in Half
  BY <1>1
<1>3. /\ world.x = SignedField(words[1], 10) /\ world.parallax = SignedField(words[2], 10)
      /\ world.y = SignedField(words[3], 16)
      /\ world.source_x = SignedField(words[4], 13) /\ world.source_parallax = SignedField(words[5], 15)
      /\ world.source_y = SignedField(words[6], 13)
  BY <1>2, WorldFields
<1>4. /\ DOMAIN halfwords = 1..11
      /\ halfwords[1] = Outer(words[0], 4, 6)
      /\ halfwords[2] = Outer(words[1], 10, 16) /\ halfwords[3] = Outer(words[2], 10, 16)
      /\ halfwords[4] = Outer(words[3], 16, 16)
      /\ halfwords[5] = Outer(words[4], 13, 16) /\ halfwords[6] = Outer(words[5], 15, 16)
      /\ halfwords[7] = Outer(words[6], 13, 16) /\ halfwords[8] = Outer(words[7], 13, 16)
      /\ halfwords[9] = Outer(words[8], 0, 0) /\ halfwords[10] = Outer(words[9], 0, 0)
      /\ halfwords[11] = Outer(words[10], 0, 0)
  BY <1>2, WorldOuter
<1> HIDE DEF world, halfwords, Read, address
<1>5. /\ words[0] = Read(0) /\ words[1] = Read(1) /\ words[2] = Read(2) /\ words[3] = Read(3)
      /\ words[4] = Read(4) /\ words[5] = Read(5) /\ words[6] = Read(6) /\ words[7] = Read(7)
      /\ words[8] = Read(8) /\ words[9] = Read(9) /\ words[10] = Read(10)
      /\ Read(0) \in Half /\ Read(1) \in Half /\ Read(2) \in Half /\ Read(3) \in Half /\ Read(4) \in Half
      /\ Read(5) \in Half /\ Read(6) \in Half /\ Read(7) \in Half /\ Read(8) \in Half /\ Read(9) \in Half
      /\ Read(10) \in Half
  BY <1>1
<1>6. /\ WorldBits[1] = (0..15) \ {4, 5} /\ WorldBits[2] = 0..9 /\ WorldBits[3] = 0..9 /\ WorldBits[4] = 0..15
      /\ WorldBits[5] = 0..12 /\ WorldBits[6] = 0..14 /\ WorldBits[7] = 0..12 /\ WorldBits[8] = 0..12
      /\ WorldBits[9] = 0..15 /\ WorldBits[10] = 0..15 /\ WorldBits[11] = 0..15
  BY DEF WorldBits
<1> DEFINE Agrees(k) == Bits(halfwords[k]) = WorldBits[k] \cap Bits(Read(k - 1))
<1>7. Agrees(1)
  BY <1>4, <1>5, <1>6, OuterOf
<1>8. Agrees(2) /\ Agrees(3)
  BY <1>4, <1>5, <1>6, OuterOf
<1>9. Agrees(4) /\ Agrees(6)
  BY <1>4, <1>5, <1>6, OuterOf
<1>10. Agrees(5) /\ Agrees(7) /\ Agrees(8)
  BY <1>4, <1>5, <1>6, OuterOf
<1>11. Agrees(9) /\ Agrees(10) /\ Agrees(11)
  BY <1>4, <1>5, <1>6, OuterOf
<1> HIDE DEF Agrees
<1>12. \A k \in DOMAIN halfwords : Agrees(k)
  BY <1>4, <1>7, <1>8, <1>9, <1>10, <1>11
<1>13. Spells(halfwords, WorldBits, address)
  BY <1>12 DEF Spells, Agrees, Read
<1>14. /\ world.x \in SignedRange(10) /\ world.parallax \in SignedRange(10)
       /\ world.source_x \in SignedRange(13) /\ world.source_y \in SignedRange(13)
       /\ world.source_parallax \in SignedRange(15) /\ world.y \in SignedRange(16)
  BY <1>3, <1>5, CoordinateOuter
<1>15. QED
  BY <1>13, <1>14 DEF WorldAt, world, words, halfwords, address

\* The fields of an object lose nothing of what is in memory.
LEMMA ObjectShown ==
  ASSUME TypedVideo(bus.vip), NEW index
  PROVE  LET object == ObjectAt(bus.vip, index)
         IN  /\ Spells(ObjectHalfwords(object), ObjectBits, ObjectAddress(index))
             /\ object.x \in SignedRange(10) /\ object.parallax \in SignedRange(10)
             /\ object.y \in -8..247
             /\ object.look = Look(VipReadU16(bus.vip, ObjectAddress(index) + 6))
<1> DEFINE address == ObjectAddress(index)
           words == Halfwords(bus.vip, address, 4)
           object == DecodeObject(words)
           halfwords == ObjectHalfwords(object)
           Read(k) == VipReadU16(bus.vip, address + 2 * k)
           Agrees(k) == Bits(halfwords[k]) = ObjectBits[k] \cap Bits(Read(k - 1))
<1>1. \A k \in 0..3 : words[k] = Read(k) /\ Read(k) \in Half
  BY HalfwordsAre
<1>2. /\ object.x = SignedField(words[0], 10) /\ object.y = ObjectY(words[2] % 2^8)
      /\ object.parallax = SignedField(words[1], 10)
      /\ object.left = Flag(words[1], 15) /\ object.right = Flag(words[1], 14)
      /\ object.look = Look(words[3])
  BY DEF DecodeObject
<1>3. /\ DOMAIN halfwords = 1..4
      /\ halfwords[1] = Modulo(object.x, 10)
      /\ halfwords[2] = Modulo(object.parallax, 10) + Bit(14, object.right) + Bit(15, object.left)
      /\ halfwords[3] = Modulo(object.y, 8) /\ halfwords[4] = LookHalf(object.look)
  BY DEF ObjectHalfwords
<1>4. /\ ObjectBits[1] = 0..9 /\ ObjectBits[2] = (0..9) \cup {14, 15}
      /\ ObjectBits[3] = 0..7 /\ ObjectBits[4] = LookBits
  BY DEF ObjectBits
<1> HIDE DEF words, object, halfwords, Read
<1>5. /\ words[0] = Read(0) /\ words[1] = Read(1) /\ words[2] = Read(2) /\ words[3] = Read(3)
      /\ Read(0) \in Half /\ Read(1) \in Half /\ Read(2) \in Half /\ Read(3) \in Half
  BY <1>1
<1>6. Agrees(1)
  <2>1. halfwords[1] = Outer(Read(0), 10, 16)
    BY <1>2, <1>3, <1>5, CoordinateOuter
  <2>2. QED
    BY <1>4, <1>5, <2>1, OuterOf
<1>7. Agrees(2)
  <2>1. halfwords[2] = Outer(Read(1), 10, 14)
    BY <1>2, <1>3, <1>5, EyesOuter
  <2>2. QED
    BY <1>4, <1>5, <2>1, OuterOf
<1>8. Agrees(3)
  <2>1. halfwords[3] = Outer(Read(2), 8, 16)
    BY <1>2, <1>3, <1>5, PlainOuter
  <2>2. QED
    BY <1>4, <1>5, <2>1, OuterOf
<1>9. Agrees(4)
  <2>1. halfwords[4] = Outer(Read(3), 11, 12)
    BY <1>2, <1>3, <1>5, LookOuter
  <2>2. QED
    BY <1>4, <1>5, <2>1, OuterOf
<1> HIDE DEF Agrees
<1>10. \A k \in DOMAIN halfwords : Agrees(k)
  BY <1>3, <1>6, <1>7, <1>8, <1>9
<1>11. Spells(halfwords, ObjectBits, address)
  BY <1>10 DEF Spells, Agrees, Read
<1>12. object.x \in SignedRange(10) /\ object.parallax \in SignedRange(10)
  BY <1>2, <1>5, CoordinateOuter
<1>13. object.y \in -8..247
  BY <1>2, <1>5, PlainOuter
<1>14. Read(3) = VipReadU16(bus.vip, address + 6)
  BY DEF Read
<1>15. QED
  BY <1>2, <1>5, <1>11, <1>12, <1>13, <1>14 DEF ObjectAt, object, words, halfwords

\* Records are at addresses, whatever their index.
LEMMA RecordAddresses ==
  ASSUME NEW i \in Nat, NEW j \in Nat
  PROVE  /\ WorldAddress(i) \in Nat /\ ObjectAddress(i) \in Nat /\ CellAddress(i, j) \in Nat
         /\ \A right_eye \in BOOLEAN : ColumnAddress(right_eye, i) \in Nat
<1>1. WorldAddress(i) \in Nat /\ ObjectAddress(i) \in Nat
  BY SMT DEF WorldAddress, ObjectAddress, WORLD_ATTRIBUTES, WORLD_COUNT, WORLD_BYTES,
             OBJECT_ATTRIBUTES, OBJECT_COUNT, OBJECT_BYTES
<1>2. CellAddress(i, j) \in Nat
  BY SMT DEF CellAddress, BG_MAPS, BG_MAP_BYTES, BG_MAP_CELLS
<1>3. \A right_eye \in BOOLEAN : ColumnAddress(right_eye, i) \in Nat
  <2>1. (i % COLUMN_ENTRIES) * 2 \in Nat /\ RIGHT_COLUMN_TABLE \in Nat /\ LEFT_COLUMN_TABLE \in Nat
    BY SMT DEF COLUMN_ENTRIES, RIGHT_COLUMN_TABLE, LEFT_COLUMN_TABLE
  <2>2. QED
    BY <2>1 DEF ColumnAddress
<1>4. QED
  BY <1>1, <1>2, <1>3

\* Nor do those of a cell,
LEMMA CellShown ==
  ASSUME TypedVideo(bus.vip), NEW map \in Nat, NEW cell \in Nat
  PROVE  Spells(<<LookHalf(CellAt(bus.vip, map, cell))>>, <<LookBits>>, CellAddress(map, cell))
<1> DEFINE address == CellAddress(map, cell)
           half == VipReadU16(bus.vip, address)
           spelt == LookHalf(CellAt(bus.vip, map, cell))
<1>1. half \in Half
  BY VipTyped16
<1>2. spelt = Outer(half, 11, 12)
  BY <1>1, LookOuter DEF CellAt
<1>3. Bits(spelt) = LookBits \cap Bits(half)
  BY <1>1, <1>2, OuterOf
<1>4. address \in Nat
  BY RecordAddresses
<1> HIDE DEF spelt, address
<1>5. address + 2 * (1 - 1) = address
  BY <1>4
<1>6. QED
  BY <1>3, <1>5 DEF Spells, spelt, address

\* nor those of an entry of a column table.
LEMMA ColumnShown ==
  ASSUME TypedVideo(bus.vip), NEW right_eye \in BOOLEAN, NEW index \in Nat
  PROVE  LET column == ColumnAt(bus.vip, right_eye, index)
         IN  Spells(<<2^8 * (column.pulses - 1) + column.duration - 1>>, <<0..15>>,
                    ColumnAddress(right_eye, index))
<1> DEFINE address == ColumnAddress(right_eye, index)
           half == VipReadU16(bus.vip, address)
           column == ColumnAt(bus.vip, right_eye, index)
           spelt == 2^8 * (column.pulses - 1) + column.duration - 1
<1>1. half \in Half /\ half \in Int /\ half >= 0 /\ half < 65536
  BY VipTyped16, HalfIs
<1>2. spelt = half
  <2>1. column.pulses = BitField(half, 8, 8) + 1 /\ column.duration = BitField(half, 0, 8) + 1
    BY DEF ColumnAt
  <2> HIDE DEF half, column
  <2>2. BitField(half, 8, 8) = half \div 256 /\ BitField(half, 0, 8) = half % 256 /\ 2^8 = 256
    BY <1>1, SMT DEF BitField
  <2>3. QED
    BY <1>1, <2>1, <2>2, SMT
<1>3. half = Outer(half, 0, 0)
  BY <1>1, PlainOuter
<1>4. Bits(spelt) = (0..15) \cap Bits(half)
  BY <1>1, <1>2, <1>3, OuterOf
<1>5. address \in Nat
  BY RecordAddresses
<1> HIDE DEF spelt, address
<1>6. address + 2 * (1 - 1) = address
  BY <1>5
<1>7. QED
  BY <1>4, <1>6 DEF Spells, spelt, address

LEMMA FieldsShown == TypedVideo(bus.vip) => FieldsLoseNothing
<1> SUFFICES ASSUME TypedVideo(bus.vip) PROVE FieldsLoseNothing
  OBVIOUS
<1>1. \A cell \in BackgroundCells : cell[1] \in Nat /\ cell[2] \in Nat
  BY RecordsAssumption
<1>2. \A entry \in BOOLEAN \X Columns : entry[1] \in BOOLEAN /\ entry[2] \in Nat
  BY RecordsAssumption
<1>3. \A cell \in DrawnCells :
        Spells(<<LookHalf(CellAt(bus.vip, cell[1], cell[2]))>>, <<LookBits>>, CellAddress(cell[1], cell[2]))
  BY <1>1, CellShown DEF DrawnCells
<1>4. \A entry \in DrawnColumns :
        LET column == ColumnAt(bus.vip, entry[1], entry[2])
        IN  Spells(<<2^8 * (column.pulses - 1) + column.duration - 1>>, <<0..15>>,
                   ColumnAddress(entry[1], entry[2]))
  BY <1>2, ColumnShown DEF DrawnColumns
<1>5. QED
  BY <1>3, <1>4, WorldShown, ObjectShown DEF FieldsLoseNothing

-----------------------------------------------------------------------------
(* The maps of a background.                                                  *)

\* What the fields of a world may be.
IsWorld(world) ==
  /\ world.kind \in {"Normal", "HBias", "Affine", "Object"}
  /\ world.map_base \in 0..15 /\ world.map_width_power \in 0..3 /\ world.map_height_power \in 0..3
  /\ world.x \in Int /\ world.parallax \in Int /\ world.source_x \in Int /\ world.source_parallax \in Int
  /\ world.raw_width \in Half /\ world.raw_height \in Half
  /\ world.param_base \in Half /\ world.overplane_character \in Half

LEMMA SignedIsInt ==
  ASSUME NEW bits \in {10, 13, 15, 16}, NEW value \in SignedRange(bits)
  PROVE  value \in Int
<1>1. SignedRange(10) \subseteq Int /\ SignedRange(13) \subseteq Int
  BY SMT DEF SignedRange
<1>2. SignedRange(15) \subseteq Int /\ SignedRange(16) \subseteq Int
  BY SMT DEF SignedRange
<1>3. QED
  BY <1>1, <1>2

\* A world that is drawn is made of such fields.
LEMMA DrawnIsWorld ==
  ASSUME TypedVideo(bus.vip), NEW world \in DrawnWorlds
  PROVE  IsWorld(world)
<1> PICK index \in Worlds : world = WorldAt(bus.vip, index)
  BY DEF DrawnWorlds
<1> DEFINE words == Halfwords(bus.vip, WorldAddress(index), 16)
<1>1. \A k \in 0..15 : words[k] \in Half
  BY HalfwordsAre
<1>2. world = DecodeWorld(words)
  BY DEF WorldAt
<1> HIDE DEF words
<1>3. /\ world.kind = WORLD_KINDS[BitField(words[0], 12, 2) + 1]
      /\ world.raw_width = words[7] % 2^13 /\ world.raw_height = words[8]
      /\ world.param_base = words[9] /\ world.overplane_character = words[10]
      /\ world.map_base = BitField(words[0], 0, 4)
      /\ world.map_width_power = BitField(words[0], 10, 2)
      /\ world.map_height_power = BitField(words[0], 8, 2)
  BY <1>1, <1>2, WorldFields
<1>4. world.x \in Int /\ world.parallax \in Int /\ world.source_x \in Int /\ world.source_parallax \in Int
  <2>1. /\ world.x \in SignedRange(10) /\ world.parallax \in SignedRange(10)
        /\ world.source_x \in SignedRange(13) /\ world.source_parallax \in SignedRange(15)
    BY WorldShown
  <2>2. QED
    BY <2>1, SignedIsInt
<1>5. words[0] \in Half /\ words[7] \in Half /\ words[8] \in Half /\ words[9] \in Half /\ words[10] \in Half
  BY <1>1
<1>6. ASSUME NEW h \in Half
      PROVE  /\ BitField(h, 0, 4) \in 0..15 /\ BitField(h, 10, 2) \in 0..3 /\ BitField(h, 8, 2) \in 0..3
             /\ BitField(h, 12, 2) \in 0..3 /\ h % 2^13 \in Half
  <2>1. h \in Int /\ h >= 0 /\ h < 65536
    BY HalfIs
  <2>2. /\ BitField(h, 0, 4) \in 0..15 /\ BitField(h, 10, 2) \in 0..3 /\ BitField(h, 8, 2) \in 0..3
        /\ BitField(h, 12, 2) \in 0..3
    BY <2>1, SMT DEF BitField
  <2>3. h % 2^13 \in Int /\ h % 2^13 >= 0 /\ h % 2^13 < 65536
    BY <2>1, SMT
  <2>4. QED
    BY <2>2, <2>3, HalfIs
<1>7. world.kind \in {"Normal", "HBias", "Affine", "Object"}
  <2>1. BitField(words[0], 12, 2) \in {0, 1, 2, 3}
    BY <1>5, <1>6
  <2>2. QED
    BY <1>3, <2>1 DEF WORLD_KINDS
<1>8. QED
  BY <1>3, <1>4, <1>5, <1>6, <1>7 DEF IsWorld

\* How many maps a background says it has.
LEMMA MapsAre ==
  ASSUME NEW world, IsWorld(world)
  PROVE  MapCount(world) \in {1, 2, 4, 8, 16, 32, 64}
<1>1. world.map_width_power \in {0, 1, 2, 3} /\ world.map_height_power \in {0, 1, 2, 3}
  BY DEF IsWorld
<1>2. 2^0 = 1 /\ 2^1 = 2 /\ 2^2 = 4 /\ 2^3 = 8
  BY SMT
<1>3. 2^world.map_width_power \in {1, 2, 4, 8} /\ 2^world.map_height_power \in {1, 2, 4, 8}
  BY <1>1, <1>2
<1>4. \A x, y \in {1, 2, 4, 8} : x * y \in {1, 2, 4, 8, 16, 32, 64}
  BY SMT
<1>5. QED
  BY <1>3, <1>4 DEF MapCount

\* A background of at most eight maps starts at a multiple of their number.
LEMMA BaseOfMaps ==
  ASSUME NEW map \in 0..15, NEW maps \in {1, 2, 4, 8}
  PROVE  LET base == map - (map % maps)
         IN  /\ base % maps = 0 /\ map \in base..(base + maps - 1)
             /\ base \in Nat /\ base + maps - 1 \in 0..15
<1>1. CASE maps = 1
  BY <1>1, SMT
<1>2. CASE maps = 2
  BY <1>2, SMT
<1>3. CASE maps = 4
  BY <1>3, SMT
<1>4. CASE maps = 8
  BY <1>4, SMT
<1>5. QED
  BY <1>1, <1>2, <1>3, <1>4

LEMMA InInterval ==
  ASSUME NEW first \in Int, NEW last \in Int, NEW at \in Int, first <= at, at <= last
  PROVE  at \in first..last
  OBVIOUS

LEMMA BackgroundsShown == TypedVideo(bus.vip) => BackgroundsHaveTheirMaps
<1> SUFFICES ASSUME TypedVideo(bus.vip), NEW world \in DrawnWorlds
             PROVE  LET maps == IF MapCount(world) > 8 THEN 8 ELSE MapCount(world)
                        base == EffectiveBase(world)
                    IN  /\ base % maps = 0 /\ world.map_base \in base..(base + maps - 1)
                        /\ CellAddress(base + maps - 1, BG_MAP_CELLS - 1) = BG_MAPS + (base + maps) * BG_MAP_BYTES - 2
                        /\ world.kind \in {"Normal", "HBias"} => Height(world) \in 8..2^15
                        /\ {ParamAddress(world), OverplaneAddress(world)} \subseteq BG_MAPS..(VRAM_LEN - 2)
  BY DEF BackgroundsHaveTheirMaps
<1> DEFINE count == MapCount(world)
           maps  == IF count > 8 THEN 8 ELSE count
           base  == EffectiveBase(world)
<1>1. IsWorld(world)
  BY DrawnIsWorld
<1>2. count \in {1, 2, 4, 8, 16, 32, 64}
  BY <1>1, MapsAre
<1>3. maps \in {1, 2, 4, 8} /\ maps = IF count < 8 THEN count ELSE 8
  <2> HIDE DEF count
  <2>1. QED
    BY <1>2
<1>4. base = world.map_base - (world.map_base % maps)
  BY <1>3 DEF EffectiveBase
<1>5. world.map_base \in 0..15
  BY <1>1 DEF IsWorld
<1> HIDE DEF maps, base
<1>6. /\ base % maps = 0 /\ world.map_base \in base..(base + maps - 1)
      /\ base \in Nat /\ base + maps - 1 \in 0..15
  BY <1>3, <1>4, <1>5, BaseOfMaps
<1>7. CellAddress(base + maps - 1, BG_MAP_CELLS - 1) = BG_MAPS + (base + maps) * BG_MAP_BYTES - 2
  <2> DEFINE last == base + maps - 1
  <2>1. last \in 0..15 /\ base + maps = last + 1
    BY <1>3, <1>6
  <2> HIDE DEF last
  <2>2. CellAddress(last, BG_MAP_CELLS - 1) = BG_MAPS + (last + 1) * BG_MAP_BYTES - 2
    BY <2>1, SMT DEF CellAddress, BG_MAPS, BG_MAP_BYTES, BG_MAP_CELLS
  <2>3. QED
    BY <2>1, <2>2 DEF last
<1>8. world.kind \in {"Normal", "HBias"} => Height(world) \in 8..2^15
  <2>1. world.raw_height \in Half
    BY <1>1 DEF IsWorld
  <2> DEFINE h == world.raw_height
  <2>2. SignedField(h, 16) \in Int /\ -32768 <= SignedField(h, 16) /\ SignedField(h, 16) <= 32767
    <3>1. h \in Int /\ h >= 0 /\ h < 65536
      BY <2>1, HalfIs
    <3> HIDE DEF h
    <3>2. QED
      BY <3>1, SMT DEF SignedField
  <2>3. ASSUME world.kind \in {"Normal", "HBias"}
        PROVE  Height(world) = IF SignedField(h, 16) + 1 < 8 THEN 8 ELSE SignedField(h, 16) + 1
    BY <2>3 DEF Height
  <2>4. 2^15 = 32768
    BY SMT
  <2> HIDE DEF h
  <2>5. QED
    BY <2>2, <2>3, <2>4
<1>9. {ParamAddress(world), OverplaneAddress(world)} \subseteq BG_MAPS..(VRAM_LEN - 2)
  <2>1. BG_MAPS = 131072
    BY DEF BG_MAPS
  <2> DEFINE last == VRAM_LEN - 2
  <2>2. VRAM_LEN = 262144
    BY VipLengths
  <2>3. last = 262142
    BY <2>2, SMT
  <2> HIDE DEF last
  <2>4. ASSUME NEW h \in Half PROVE BG_MAPS + h * 2 \in BG_MAPS..last
    <3>1. h \in Int /\ h >= 0 /\ h < 65536
      BY HalfIs
    <3> DEFINE at == BG_MAPS + h * 2
    <3>2. at \in Int /\ BG_MAPS \in Int /\ last \in Int /\ BG_MAPS <= at /\ at <= last
      BY <2>1, <2>3, <3>1, SMT
    <3> HIDE DEF at
    <3>3. at \in BG_MAPS..last
      BY <3>2, InInterval
    <3>4. QED
      BY <3>3 DEF at
  <2>5. world.param_base \in Half /\ world.overplane_character \in Half
    BY <1>1 DEF IsWorld
  <2>6. ParamAddress(world) = BG_MAPS + world.param_base * 2 /\ OverplaneAddress(world) = BG_MAPS + world.overplane_character * 2
    BY DEF ParamAddress, OverplaneAddress
  <2>7. QED
    BY <2>4, <2>5, <2>6, Zenon DEF last
<1>10. QED
  BY <1>6, <1>7, <1>8, <1>9 DEF maps, base

-----------------------------------------------------------------------------
(* The parameters of a row.                                                   *)

\* The bits of numbers of four bits, and numbers of such bits.
LEMMA FewBits ==
  ASSUME NEW x \in 0..15
  PROVE  /\ Bits(x) \subseteq 0..3
         /\ 0 \in Bits(x) <=> x % 2 = 1
         /\ 1 \in Bits(x) <=> (x \div 2) % 2 = 1
         /\ 2 \in Bits(x) <=> (x \div 4) % 2 = 1
         /\ 3 \in Bits(x) <=> (x \div 8) % 2 = 1
<1>1. \A i \in 4..15 : ~IsBit(x, i)
  <2> DEFINE four == 4
  <2>1. x % 2^four = x /\ four = 4 /\ four \in Nat /\ x \in Int
    BY SMT
  <2> HIDE DEF four
  <2>2. \A i \in Nat : IsBit(x % 2^four, i) <=> i < four /\ IsBit(x, i)
    BY <2>1, LowBit
  <2>3. QED
    BY <2>1, <2>2
<1>2. Bits(x) = {i \in 0..15 : IsBit(x, i)}
  BY DEF Bits, IsBit
<1>3. 2^0 = 1 /\ 2^1 = 2 /\ 2^2 = 4 /\ 2^3 = 8 /\ x \div 1 = x
  BY SMT
<1>4. Bits(x) \subseteq 0..3
  BY <1>1, <1>2
<1>5. \A i \in {0, 1, 2, 3} : i \in Bits(x) <=> (x \div 2^i) % 2 = 1
  BY <1>2 DEF IsBit
<1>6. QED
  BY <1>3, <1>4, <1>5

LEMMA NumberOfFew ==
  ASSUME NEW bits \in SUBSET (0..3)
  PROVE  Number(bits) = (IF 0 \in bits THEN 1 ELSE 0) + (IF 1 \in bits THEN 2 ELSE 0)
                          + (IF 2 \in bits THEN 4 ELSE 0) + (IF 3 \in bits THEN 8 ELSE 0)
<1> DEFINE Worth(i) == IF i \in bits THEN 2^i ELSE 0
<1>1. \A i \in 4..15 : i \notin bits
  OBVIOUS
<1>2. /\ Worth(4) = 0 /\ Worth(5) = 0 /\ Worth(6) = 0 /\ Worth(7) = 0 /\ Worth(8) = 0 /\ Worth(9) = 0
      /\ Worth(10) = 0 /\ Worth(11) = 0 /\ Worth(12) = 0 /\ Worth(13) = 0 /\ Worth(14) = 0 /\ Worth(15) = 0
  BY <1>1
<1>3. /\ Worth(0) = (IF 0 \in bits THEN 1 ELSE 0) /\ Worth(1) = (IF 1 \in bits THEN 2 ELSE 0)
      /\ Worth(2) = (IF 2 \in bits THEN 4 ELSE 0) /\ Worth(3) = (IF 3 \in bits THEN 8 ELSE 0)
  BY SMT
<1>4. Number(bits) = Worth(0) + Worth(1) + Worth(2) + Worth(3) + Worth(4) + Worth(5) + Worth(6) + Worth(7)
                       + Worth(8) + Worth(9) + Worth(10) + Worth(11) + Worth(12) + Worth(13)
                       + Worth(14) + Worth(15)
  BY Zenon DEF Number
<1>5. /\ Worth(0) \in Int /\ Worth(1) \in Int /\ Worth(2) \in Int /\ Worth(3) \in Int
  BY <1>3
<1> HIDE DEF Worth
<1>6. Number(bits) = Worth(0) + Worth(1) + Worth(2) + Worth(3)
  BY <1>2, <1>4, <1>5, SMT
<1>7. QED
  BY <1>3, <1>6

Either(a, b, worth) == IF a = 1 \/ b = 1 THEN worth ELSE 0

\* Numbers or'ed bit by bit.
LEMMA NumberOfEither ==
  ASSUME NEW x \in 0..15, NEW y \in 0..15
  PROVE  Number(Bits(x) \cup Bits(y)) =
           Either(x % 2, y % 2, 1) + Either((x \div 2) % 2, (y \div 2) % 2, 2)
             + Either((x \div 4) % 2, (y \div 4) % 2, 4) + Either((x \div 8) % 2, (y \div 8) % 2, 8)
<1> DEFINE bits == Bits(x) \cup Bits(y)
<1>1. bits \in SUBSET (0..3)
  BY FewBits
<1>2. /\ 0 \in bits <=> x % 2 = 1 \/ y % 2 = 1
      /\ 1 \in bits <=> (x \div 2) % 2 = 1 \/ (y \div 2) % 2 = 1
      /\ 2 \in bits <=> (x \div 4) % 2 = 1 \/ (y \div 4) % 2 = 1
      /\ 3 \in bits <=> (x \div 8) % 2 = 1 \/ (y \div 8) % 2 = 1
  BY FewBits
<1> HIDE DEF bits
<1>3. QED
  BY <1>1, <1>2, NumberOfFew DEF bits, Either

\* Two by two from an even address: never before it, never past the sixteen
\* bytes it lies in, and where asked when it starts them.
LEMMA JoinedWithin ==
  ASSUME NEW base \in Nat, base % 2 = 0, NEW k \in 0..4
  PROVE  /\ \E j \in 0..k : /\ Joined(base, 2 * k) = base + 2 * j
                            /\ (base % 16) + 2 * j < 16
                            /\ base % 16 = 0 => j = k
         /\ Joined(base, 2) = IF base % 4 = 0 THEN base + 2 ELSE base
         /\ Joined(base, 0) = base
<1> DEFINE x == base % 16
           Or(o) == Number(Bits(x) \cup Bits(o))
<1>1. x \in 0..15 /\ x % 2 = 0 /\ base - x \in Int /\ base = (base - x) + x /\ base % 4 = x % 4
  BY SMT
<1>2. \A o : Joined(base, o) = (base - x) + Or(o)
  BY DEF Joined
<1> DEFINE a == (x \div 2) % 2
           b == (x \div 4) % 2
           c == (x \div 8) % 2
<1>3. /\ a \in {0, 1} /\ b \in {0, 1} /\ c \in {0, 1} /\ x = 2 * a + 4 * b + 8 * c
      /\ x % 4 = 2 * a
  <2> HIDE DEF x
  <2>1. QED
    BY <1>1, SMT
<1>4. \A o \in {0, 2, 4, 6, 8} :
        Or(o) = Either(a, (o \div 2) % 2, 2) + Either(b, (o \div 4) % 2, 4) + Either(c, (o \div 8) % 2, 8)
  <2>1. ASSUME NEW o \in {0, 2, 4, 6, 8}
        PROVE  Or(o) = Either(a, (o \div 2) % 2, 2) + Either(b, (o \div 4) % 2, 4) + Either(c, (o \div 8) % 2, 8)
    <3>1. o \in 0..15 /\ o % 2 = 0
      BY SMT
    <3>2. Or(o) = Either(x % 2, o % 2, 1) + Either(a, (o \div 2) % 2, 2)
                    + Either(b, (o \div 4) % 2, 4) + Either(c, (o \div 8) % 2, 8)
      BY <1>1, <3>1, NumberOfEither
    <3>3. Either(x % 2, o % 2, 1) = 0
      BY <1>1, <3>1 DEF Either
    <3> HIDE DEF x, a, b, c, Or
    <3>4. /\ Either(a, (o \div 2) % 2, 2) \in Int /\ Either(b, (o \div 4) % 2, 4) \in Int
          /\ Either(c, (o \div 8) % 2, 8) \in Int
      BY DEF Either
    <3>5. QED
      BY <3>2, <3>3, <3>4
  <2>2. QED
    BY <2>1
<1> HIDE DEF x, a, b, c, Or
<1>5. /\ Or(0) = x
      /\ Or(2) = 2 + 4 * b + 8 * c
      /\ Or(4) = 2 * a + 4 + 8 * c
      /\ Or(6) = 6 + 8 * c
      /\ Or(8) = 2 * a + 4 * b + 8
  BY <1>3, <1>4, SMT DEF Either
<1>6. \E j \in 0..k : Or(2 * k) = x + 2 * j /\ x + 2 * j < 16 /\ (x = 0 => j = k)
  <2>1. CASE k = 0
    <3>1. Or(2 * k) = x + 2 * 0 /\ x + 2 * 0 < 16
      BY <1>1, <1>5, <2>1
    <3>2. QED
      BY <2>1, <3>1
  <2>2. CASE k = 1
    <3>1. Or(2 * k) = x + 2 * (1 - a)
      BY <1>3, <1>5, <2>2
    <3>2. 1 - a \in 0..k /\ x + 2 * (1 - a) < 16 /\ (x = 0 => 1 - a = k)
      BY <1>3, <2>2
    <3>3. QED
      BY <3>1, <3>2
  <2>3. CASE k = 2
    <3>1. Or(2 * k) = x + 2 * (2 - 2 * b)
      BY <1>3, <1>5, <2>3
    <3>2. 2 - 2 * b \in 0..k /\ x + 2 * (2 - 2 * b) < 16 /\ (x = 0 => 2 - 2 * b = k)
      BY <1>3, <2>3
    <3>3. QED
      BY <3>1, <3>2
  <2>4. CASE k = 3
    <3>1. Or(2 * k) = x + 2 * (3 - a - 2 * b)
      BY <1>3, <1>5, <2>4
    <3>2. 3 - a - 2 * b \in 0..k /\ x + 2 * (3 - a - 2 * b) < 16 /\ (x = 0 => 3 - a - 2 * b = k)
      BY <1>3, <2>4
    <3>3. QED
      BY <3>1, <3>2
  <2>5. CASE k = 4
    <3>1. Or(2 * k) = x + 2 * (4 - 4 * c)
      BY <1>3, <1>5, <2>5
    <3>2. 4 - 4 * c \in 0..k /\ x + 2 * (4 - 4 * c) < 16 /\ (x = 0 => 4 - 4 * c = k)
      BY <1>3, <2>5
    <3>3. QED
      BY <3>1, <3>2
  <2>6. QED
    BY <2>1, <2>2, <2>3, <2>4, <2>5
<1>7. Joined(base, 2) = IF base % 4 = 0 THEN base + 2 ELSE base
  BY <1>1, <1>2, <1>3, <1>5
<1>8. Joined(base, 0) = base
  BY <1>1, <1>2, <1>5
<1>9. \E j \in 0..k : Joined(base, 2 * k) = base + 2 * j /\ (base % 16) + 2 * j < 16 /\ (base % 16 = 0 => j = k)
  <2>1. PICK j \in 0..k : Or(2 * k) = x + 2 * j /\ x + 2 * j < 16 /\ (x = 0 => j = k)
    BY <1>6
  <2>2. Joined(base, 2 * k) = base + 2 * j
    BY <1>1, <1>2, <2>1
  <2>3. QED
    BY <2>1, <2>2 DEF x
<1>10. QED
  BY <1>7, <1>8, <1>9

\* The parameters of a row from an even base.
LEMMA RowsAre ==
  ASSUME NEW table \in Nat, table % 2 = 0, NEW row \in Nat
  PROVE  /\ \A bytes \in {4, 16} :
              LET base == table + row * bytes
              IN  base \in Nat /\ base % 2 = 0 /\ base % bytes = table % bytes
         /\ HBIAS_BYTES = 4 /\ AFFINE_BYTES = 16
<1>1. HBIAS_BYTES = 4 /\ AFFINE_BYTES = 16
  BY DEF HBIAS_BYTES, AFFINE_BYTES
<1>2. ASSUME NEW bytes \in {4, 16}
      PROVE  LET base == table + row * bytes
             IN  base \in Nat /\ base % 2 = 0 /\ base % bytes = table % bytes
  <2>1. CASE bytes = 4
    BY <2>1, SMT
  <2>2. CASE bytes = 16
    BY <2>2, SMT
  <2>3. QED
    BY <2>1, <2>2
<1>3. QED
  BY <1>1, <1>2

\* The parameters of a world start at an even address.
LEMMA TableIsEven ==
  ASSUME NEW world, IsWorld(world)
  PROVE  ParamAddress(world) \in Nat /\ ParamAddress(world) % 2 = 0
<1> DEFINE h == world.param_base
<1>1. h \in Half
  BY DEF IsWorld
<1>2. h \in Int /\ h >= 0
  BY <1>1, HalfIs
<1>3. ParamAddress(world) = 131072 + h * 2
  BY DEF ParamAddress, BG_MAPS
<1> HIDE DEF h
<1>4. QED
  BY <1>2, <1>3, SMT

\* The parameters of a row are those of the row, or fall on each other.
LEMMA RowShown ==
  ASSUME NEW table \in Nat, table % 2 = 0, NEW row \in Nat
  PROVE  LET At(k, bytes) == VipReadU16(bus.vip, table + row * bytes + 2 * k)
             Offset(k) == SignedField(At(k, HBIAS_BYTES), 13)
             bias      == HBiasAt(bus.vip, table, row)
             affine    == AffineAt(bus.vip, table, row)
             fields    == <<affine.source_x, affine.parallax, affine.source_y,
                            affine.direction_x, affine.direction_y>>
         IN  /\ bias.left = Offset(0)
             /\ bias.right = Offset(IF table % HBIAS_BYTES = 0 THEN 1 ELSE 0)
             /\ \A k \in 0..4 :
                  \E j \in 0..k : /\ fields[k + 1] = SignedField(At(j, AFFINE_BYTES), 16)
                                  /\ (table % AFFINE_BYTES) + 2 * j < AFFINE_BYTES
                                  /\ table % AFFINE_BYTES = 0 => j = k
<1> DEFINE At(k, bytes) == VipReadU16(bus.vip, table + row * bytes + 2 * k)
           Offset(k) == SignedField(At(k, HBIAS_BYTES), 13)
           bias      == HBiasAt(bus.vip, table, row)
           affine    == AffineAt(bus.vip, table, row)
           fields    == <<affine.source_x, affine.parallax, affine.source_y,
                          affine.direction_x, affine.direction_y>>
           few  == table + row * HBIAS_BYTES
           many == table + row * AFFINE_BYTES
<1>1. HBIAS_BYTES = 4 /\ AFFINE_BYTES = 16
  BY RowsAre
<1>2. few \in Nat /\ few % 2 = 0 /\ few % 4 = table % 4 /\ many \in Nat /\ many % 2 = 0 /\ many % 16 = table % 16
  BY <1>1, RowsAre
<1>3. /\ bias.left = SignedField(VipReadU16(bus.vip, few), 13)
      /\ bias.right = SignedField(VipReadU16(bus.vip, Joined(few, 2)), 13)
  BY DEF HBiasAt
<1>4. \A k \in 0..4 : fields[k + 1] = SignedField(VipReadU16(bus.vip, Joined(many, 2 * k)), 16)
  <2> DEFINE Parameter(k) == SignedField(VipReadU16(bus.vip, Joined(many, 2 * k)), 16)
  <2>1. /\ affine.source_x = Parameter(0) /\ affine.parallax = Parameter(1) /\ affine.source_y = Parameter(2)
        /\ affine.direction_x = Parameter(3) /\ affine.direction_y = Parameter(4)
    BY DEF AffineAt
  <2> HIDE DEF Parameter, affine
  <2>2. /\ fields[1] = Parameter(0) /\ fields[2] = Parameter(1) /\ fields[3] = Parameter(2)
        /\ fields[4] = Parameter(3) /\ fields[5] = Parameter(4)
    BY <2>1
  <2> HIDE DEF fields
  <2>3. \A k \in {0, 1, 2, 3, 4} : fields[k + 1] = Parameter(k)
    BY <2>2
  <2>4. QED
    BY <2>3 DEF Parameter
<1> DEFINE Field16(at) == SignedField(VipReadU16(bus.vip, at), 16)
           Field13(at) == SignedField(VipReadU16(bus.vip, at), 13)
<1>5. \A j : SignedField(At(j, AFFINE_BYTES), 16) = Field16(many + 2 * j) /\ Offset(j) = Field13(few + 2 * j)
  OBVIOUS
<1>6. /\ bias.left = Field13(few) /\ bias.right = Field13(Joined(few, 2))
      /\ \A k \in 0..4 : fields[k + 1] = Field16(Joined(many, 2 * k))
  BY <1>3, <1>4
<1> HIDE DEF At, Offset, bias, affine, fields, few, many, Field16, Field13
<1>7. bias.left = Offset(0)
  <2>1. few + 2 * 0 = few
    BY <1>2
  <2>2. QED
    BY <1>5, <1>6, <2>1
<1>8. bias.right = Offset(IF table % HBIAS_BYTES = 0 THEN 1 ELSE 0)
  <2>1. Joined(few, 2) = IF table % 4 = 0 THEN few + 2 ELSE few
    BY <1>2, JoinedWithin
  <2>2. few + 2 * 0 = few /\ few + 2 * 1 = few + 2
    BY <1>2
  <2>3. QED
    BY <1>1, <1>5, <1>6, <2>1, <2>2
<1>9. ASSUME NEW k \in 0..4
      PROVE  \E j \in 0..k : /\ fields[k + 1] = SignedField(At(j, AFFINE_BYTES), 16)
                             /\ (table % AFFINE_BYTES) + 2 * j < AFFINE_BYTES
                             /\ table % AFFINE_BYTES = 0 => j = k
  <2>1. PICK j \in 0..k : /\ Joined(many, 2 * k) = many + 2 * j
                          /\ (many % 16) + 2 * j < 16
                          /\ many % 16 = 0 => j = k
    BY <1>2, JoinedWithin
  <2>2. fields[k + 1] = SignedField(At(j, AFFINE_BYTES), 16)
    BY <1>5, <1>6, <2>1
  <2>3. QED
    BY <1>1, <1>2, <2>1, <2>2
<1>10. QED
  BY <1>7, <1>8, <1>9 DEF At, Offset, bias, affine, fields

LEMMA ParametersShown == TypedVideo(bus.vip) => ParametersAreOfTheirRow
<1> SUFFICES ASSUME TypedVideo(bus.vip) PROVE ParametersAreOfTheirRow
  OBVIOUS
<1>1. \A world \in DrawnWorlds : ParamAddress(world) \in Nat /\ ParamAddress(world) % 2 = 0
  BY DrawnIsWorld, TableIsEven
<1>2. \A row \in Rows : row \in Nat
  BY RecordsAssumption
<1>3. QED
  BY <1>1, <1>2, RowShown DEF ParametersAreOfTheirRow

-----------------------------------------------------------------------------
(* What the eyes see.                                                         *)

\* What is a parallax to either side is two apart.
LEMMA ParallaxApart ==
  ASSUME NEW x \in Int, NEW p \in Int
  PROVE  (x + p) - (x - p) = 2 * p /\ (x + p) + (x - p) = 2 * x
  OBVIOUS

LEMMA MovedAlong ==
  ASSUME NEW from \in Int, NEW d \in Int, NEW column \in Int, NEW p \in Int
  PROVE  /\ (from + d * (column + p)) - (from + d * column) = p * d
         /\ (from + d * column) - (from + d * (column - p)) = p * d
<1> DEFINE there == d * column
<1>1. d * (column + p) = there + p * d /\ d * (column - p) = there - p * d
  OBVIOUS
<1>2. there \in Int /\ p * d \in Int
  OBVIOUS
<1> DEFINE far == p * d
<1> HIDE DEF there, far
<1>3. (from + (there + far)) - (from + there) = far /\ (from + there) - (from + (there - far)) = far
  BY <1>2 DEF far
<1>4. QED
  BY <1>1, <1>3 DEF there, far

\* The columns of the mirror that the eyes see.
LEMMA SourcesApart ==
  ASSUME NEW affine, affine.source_x \in Int, affine.source_y \in Int, affine.parallax \in Int,
         affine.direction_x \in Int, affine.direction_y \in Int, NEW column \in Int
  PROVE  LET left  == ColumnSource(affine, column, FALSE)
             right == ColumnSource(affine, column, TRUE)
         IN  /\ right[1] - left[1] = affine.parallax * affine.direction_x
             /\ right[2] - left[2] = affine.parallax * affine.direction_y
<1> DEFINE left  == ColumnSource(affine, column, FALSE)
           right == ColumnSource(affine, column, TRUE)
           Source(shifted) == <<affine.source_x + affine.direction_x * shifted,
                                affine.source_y + affine.direction_y * shifted>>
           p == affine.parallax
           Apart == /\ right[1] - left[1] = affine.parallax * affine.direction_x
                    /\ right[2] - left[2] = affine.parallax * affine.direction_y
<1>1. ASSUME p < 0 PROVE Apart
  <2>1. left = Source(column - p) /\ right = Source(column)
    <3>1. ~(p >= 0)
      BY <1>1
    <3>2. QED
      BY <1>1, <3>1, Zenon DEF ColumnSource
  <2> HIDE DEF left, right
  <2>2. /\ left[1] = affine.source_x + affine.direction_x * (column - p)
        /\ left[2] = affine.source_y + affine.direction_y * (column - p)
        /\ right[1] = affine.source_x + affine.direction_x * (column)
        /\ right[2] = affine.source_y + affine.direction_y * (column)
    BY <2>1
  <2>3. QED
    BY <2>2, MovedAlong
<1>2. ASSUME ~(p < 0) PROVE Apart
  <2>1. left = Source(column) /\ right = Source(column + p)
    <3>1. p >= 0
      BY <1>2
    <3>2. QED
      BY <1>2, <3>1, Zenon DEF ColumnSource
  <2> HIDE DEF left, right
  <2>2. /\ left[1] = affine.source_x + affine.direction_x * (column)
        /\ left[2] = affine.source_y + affine.direction_y * (column)
        /\ right[1] = affine.source_x + affine.direction_x * (column + p)
        /\ right[2] = affine.source_y + affine.direction_y * (column + p)
    BY <2>1
  <2>3. QED
    BY <2>2, MovedAlong
<1>3. Apart
  BY <1>1, <1>2
<1>4. QED
  BY <1>3

LEMMA AffineIsInt ==
  ASSUME TypedVideo(bus.vip), NEW table, NEW row
  PROVE  LET affine == AffineAt(bus.vip, table, row)
         IN  /\ affine.source_x \in Int /\ affine.source_y \in Int /\ affine.parallax \in Int
             /\ affine.direction_x \in Int /\ affine.direction_y \in Int
<1> DEFINE Parameter(k) == SignedField(VipReadU16(bus.vip, Joined(table + row * AFFINE_BYTES, 2 * k)), 16)
           affine == AffineAt(bus.vip, table, row)
<1>1. \A k : Parameter(k) \in Int
  BY VipTyped16, CoordinateOuter, SignedIsInt
<1>2. /\ affine.source_x = Parameter(0) /\ affine.parallax = Parameter(1) /\ affine.source_y = Parameter(2)
      /\ affine.direction_x = Parameter(3) /\ affine.direction_y = Parameter(4)
  BY DEF AffineAt
<1> HIDE DEF Parameter, affine
<1>3. QED
  BY <1>1, <1>2 DEF affine

LEMMA EyesShown == TypedVideo(bus.vip) => EyesAreAParallaxApart
<1> SUFFICES ASSUME TypedVideo(bus.vip) PROVE EyesAreAParallaxApart
  OBVIOUS
<1>1. ASSUME NEW record \in DrawnWorlds \cup {ObjectAt(bus.vip, index) : index \in DrawnObjects}
      PROVE  /\ RightX(record) - LeftX(record) = 2 * record.parallax
             /\ RightX(record) + LeftX(record) = 2 * record.x
  <2>1. record.x \in Int /\ record.parallax \in Int
    <3>1. CASE record \in DrawnWorlds
      BY <3>1, DrawnIsWorld DEF IsWorld
    <3>2. CASE record \in {ObjectAt(bus.vip, index) : index \in DrawnObjects}
      BY <3>2, ObjectShown, SignedIsInt
    <3>3. QED
      BY <3>1, <3>2
  <2>2. QED
    BY <2>1, ParallaxApart DEF RightX, LeftX
<1>2. ASSUME NEW world \in DrawnWorlds
      PROVE  RightSource(world) - LeftSource(world) = 2 * world.source_parallax
  <2>1. world.source_x \in Int /\ world.source_parallax \in Int
    BY DrawnIsWorld DEF IsWorld
  <2>2. QED
    BY <2>1, ParallaxApart DEF RightSource, LeftSource
<1>3. ASSUME NEW world \in DrawnWorlds, world.kind = "Affine"
      PROVE  Width(world) - 1 \in Int
  <2>1. world.raw_width \in Int
    BY DrawnIsWorld, HalfIs DEF IsWorld
  <2>2. Width(world) = (world.raw_width % 2^10) + 1
    BY <1>3 DEF Width
  <2>3. QED
    BY <2>1, <2>2, SMT
<1>4. ASSUME NEW world \in DrawnWorlds, world.kind = "Affine", NEW row \in Rows
      PROVE  LET affine == AffineAt(bus.vip, ParamAddress(world), row)
             IN  \A column \in {0, Width(world) - 1} :
                LET left  == ColumnSource(affine, column, FALSE)
                    right == ColumnSource(affine, column, TRUE)
                IN  /\ right[1] - left[1] = affine.parallax * affine.direction_x
                    /\ right[2] - left[2] = affine.parallax * affine.direction_y
  <2>1. \A column \in {0, Width(world) - 1} : column \in Int
    BY <1>3, <1>4
  <2>2. QED
    BY <2>1, AffineIsInt, SourcesApart
<1>5. QED
  BY <1>1, <1>2, <1>4 DEF EyesAreAParallaxApart

-----------------------------------------------------------------------------
(* The dots of characters.                                                    *)

\* A dot of a halfword is a dot of one of its bytes.
FourTo(m) == 4^m
TwoTo(n)  == 2^n

LEMMA DotShifts ==
  ASSUME NEW x \in 0..7
  PROVE  \E s \in {1, 4, 16, 64} : FourTo(x % 4) = s /\ TwoTo(2 * x) = IF x < 4 THEN s ELSE 256 * s
<1>1. FourTo(0) = 1 /\ FourTo(1) = 4 /\ FourTo(2) = 16 /\ FourTo(3) = 64
  BY SMT DEF FourTo
<1>2. /\ TwoTo(0) = 1 /\ TwoTo(2) = 4 /\ TwoTo(4) = 16 /\ TwoTo(6) = 64
      /\ TwoTo(8) = 256 /\ TwoTo(10) = 1024 /\ TwoTo(12) = 4096 /\ TwoTo(14) = 16384
  BY SMT DEF TwoTo
<1>3. \/ x = 0 /\ x % 4 = 0 /\ 2 * x = 0
      \/ x = 1 /\ x % 4 = 1 /\ 2 * x = 2
      \/ x = 2 /\ x % 4 = 2 /\ 2 * x = 4
      \/ x = 3 /\ x % 4 = 3 /\ 2 * x = 6
      \/ x = 4 /\ x % 4 = 0 /\ 2 * x = 8
      \/ x = 5 /\ x % 4 = 1 /\ 2 * x = 10
      \/ x = 6 /\ x % 4 = 2 /\ 2 * x = 12
      \/ x = 7 /\ x % 4 = 3 /\ 2 * x = 14
  BY SMT
<1> DEFINE m == x % 4
           n == 2 * x
<1> HIDE DEF m, n
<1>4. \/ FourTo(m) = 1 /\ TwoTo(n) = (IF x < 4 THEN 1 ELSE 256 * 1)
      \/ FourTo(m) = 4 /\ TwoTo(n) = (IF x < 4 THEN 4 ELSE 256 * 4)
      \/ FourTo(m) = 16 /\ TwoTo(n) = (IF x < 4 THEN 16 ELSE 256 * 16)
      \/ FourTo(m) = 64 /\ TwoTo(n) = (IF x < 4 THEN 64 ELSE 256 * 64)
  <2>1. \/ x = 0 /\ m = 0 /\ n = 0
        \/ x = 1 /\ m = 1 /\ n = 2
        \/ x = 2 /\ m = 2 /\ n = 4
        \/ x = 3 /\ m = 3 /\ n = 6
        \/ x = 4 /\ m = 0 /\ n = 8
        \/ x = 5 /\ m = 1 /\ n = 10
        \/ x = 6 /\ m = 2 /\ n = 12
        \/ x = 7 /\ m = 3 /\ n = 14
    BY <1>3, Zenon DEF m, n
  <2>2. QED
    BY <1>1, <1>2, <2>1
<1>5. \E s \in {1, 4, 16, 64} : FourTo(m) = s /\ TwoTo(n) = IF x < 4 THEN s ELSE 256 * s
  BY <1>4
<1>6. QED
  BY <1>5, Zenon DEF m, n

LEMMA ByteOfHalf ==
  ASSUME NEW low \in Byte, NEW high \in Byte, NEW s \in {1, 4, 16, 64}
  PROVE  /\ (Halfword(low, high) \div s) % 4 = (low \div s) % 4
         /\ (Halfword(low, high) \div (256 * s)) % 4 = (high \div s) % 4
<1>1. low \in Int /\ low >= 0 /\ low < 256 /\ high \in Int /\ high >= 0 /\ high < 256
  BY ByteIs
<1>2. Halfword(low, high) = low + 256 * high
  BY SMT DEF Halfword
<1>3. CASE s = 1
  BY <1>1, <1>2, <1>3, SMT
<1>4. CASE s = 4
  BY <1>1, <1>2, <1>4, SMT
<1>5. CASE s = 16
  BY <1>1, <1>2, <1>5, SMT
<1>6. CASE s = 64
  BY <1>1, <1>2, <1>6, SMT
<1>7. QED
  BY <1>3, <1>4, <1>5, <1>6

Side(low, high, x) == IF x < 4 THEN low ELSE high
Lane(byte, x)      == (byte \div FourTo(x % 4)) % 4
HalfDot(half, x)   == BitField(half, 2 * x, 2)

LEMMA PixelIs ==
  ASSUME NEW character, NEW x, NEW y, x % 8 = x, y % 8 = y
  PROVE  Pixel(character, x, y) = HalfDot(character[y], x)
  BY DEF Pixel, HalfDot

LEMMA DotIs ==
  ASSUME NEW character, NEW x, NEW y
  PROVE  Dot(character, x, y) = Lane(Peek(bus.vip.vram, DotAddress(character, x, y)), x)
  BY DEF Dot, Lane, FourTo

\* The dots of a halfword are those of its bytes, the low byte to the left.
LEMMA DotOfHalf ==
  ASSUME NEW low \in Byte, NEW high \in Byte, NEW x \in 0..7
  PROVE  HalfDot(Halfword(low, high), x) = Lane(Side(low, high, x), x)
<1> DEFINE half == Halfword(low, high)
           n == 2 * x
           f == FourTo(x % 4)
<1>1. PICK s \in {1, 4, 16, 64} : f = s /\ TwoTo(n) = IF x < 4 THEN s ELSE 256 * s
  BY DotShifts, Zenon
<1>2. BitField(half, n, 2) = (half \div TwoTo(n)) % 4
  <2> HIDE DEF half, n
  <2>1. TwoTo(2) = 4
    BY SMT DEF TwoTo
  <2>2. BitField(half, n, 2) = (half \div TwoTo(n)) % TwoTo(2)
    BY Zenon DEF BitField, TwoTo
  <2>3. QED
    BY <2>1, <2>2, Zenon
<1>3. (half \div s) % 4 = (low \div s) % 4 /\ (half \div (256 * s)) % 4 = (high \div s) % 4
  BY ByteOfHalf
<1> HIDE DEF half, n, f
<1>4. BitField(half, n, 2) = ((IF x < 4 THEN low ELSE high) \div f) % 4
  <2>1. CASE x < 4
    BY <1>1, <1>2, <1>3, <2>1
  <2>2. CASE ~(x < 4)
    BY <1>1, <1>2, <1>3, <2>2
  <2>3. QED
    BY <2>1, <2>2
<1>5. QED
  BY <1>4, Zenon DEF half, n, f, Lane, Side, HalfDot

\* The row of a character that the mirror shows is in the character's table.
RowAt(c, y)   == 24576 + (c \div 512) * 32768 + (c % 512) * 16 + 2 * y
ShownAt(c, y) == CHARACTER_MIRROR + (c % CHARACTER_COUNT) * CHARACTER_BYTES + 2 * y

LEMMA RowOfCharacter ==
  ASSUME NEW c \in Int, c >= 0, c < 2048, NEW y \in Int, y >= 0, y < 8
  PROVE  /\ RowAt(c, y) \in Int
         /\ VipReadU16(bus.vip, ShownAt(c, y)) =
              Halfword(Peek(bus.vip.vram, RowAt(c, y)), Peek(bus.vip.vram, RowAt(c, y) + 1))
<1> DEFINE offset == c * 16 + 2 * y
           addr == ShownAt(c, y)
           row  == RowAt(c, y)
<1>1. addr = 491520 + offset
  <2>1. CHARACTER_COUNT = 2048 /\ CHARACTER_BYTES = 16
    BY DEF CHARACTER_COUNT, CHARACTER_BYTES
  <2>2. c % 2048 = c
    BY SMT
  <2>3. CHARACTER_MIRROR = 491520
    BY VipLengths
  <2>4. QED
    BY <2>1, <2>2, <2>3, SMT DEF ShownAt
<1>2. offset \in Nat /\ offset % 2 = 0 /\ offset < 32768
  BY SMT
<1>3. offset \div 8192 = c \div 512 /\ offset % 8192 = (c % 512) * 16 + 2 * y
  BY SMT
<1>4. row \in Int /\ row = 24576 + (offset \div 8192) * 32768 + (offset % 8192)
  BY <1>3, SMT DEF RowAt
<1> HIDE DEF offset, addr, row
<1>5. addr \in Nat /\ Even(addr) = addr /\ addr % VIP_LEN = addr /\ addr - 491520 = offset /\ addr >= 491520
  <2>1. addr \in Nat /\ addr % 2 = 0 /\ addr % 524288 = addr /\ addr - 491520 = offset /\ addr >= 491520
    BY <1>1, <1>2, SMT
  <2>2. QED
    BY <2>1, VipLengths, SMT DEF Even
<1>6. Resolve(addr) = Vram(row)
  <2>1. Resolve(addr) = VipPlace(addr)
    BY <1>5, VipPlaces
  <2>2. ~(addr < 262144) /\ ~(385024 <= addr /\ addr <= 393215)
    BY <1>1, <1>2, SMT
  <2>3. VipPlace(addr) = Vram(CharacterCell(offset))
    BY <1>5, <2>2 DEF VipPlace
  <2>4. CharacterCell(offset) = row
    <3>1. CHARACTER_TABLE_0 = 24576 /\ CHARACTER_TABLE_STRIDE = 32768 /\ CHARACTER_TABLE_LEN = 8192
      BY DEF CHARACTER_TABLE_0, CHARACTER_TABLE_STRIDE, CHARACTER_TABLE_LEN
    <3>2. QED
      BY <1>4, <3>1 DEF CharacterCell
  <2>5. QED
    BY <2>1, <2>3, <2>4
<1>7. Vram(row).kind = "vram" /\ Vram(row).at = row
  BY KindsAre
<1>8. VipReadU16(bus.vip, addr) = Halfword(Peek(bus.vip.vram, row), Peek(bus.vip.vram, row + 1))
  BY <1>5, <1>6, <1>7 DEF VipReadU16
<1>9. QED
  BY <1>4, <1>8 DEF addr, row

\* The dots that are shown are those of the character's table.
LEMMA CharacterDot ==
  ASSUME TypedVideo(bus.vip), NEW c \in Int, c >= 0, c < 2048, NEW x \in 0..7, NEW y \in 0..7
  PROVE  Pixel(CharacterAt(bus.vip, c), x, y) = Dot(c, x, y)
<1> DEFINE row  == RowAt(c, y)
           low  == Peek(bus.vip.vram, row)
           high == Peek(bus.vip.vram, row + 1)
           character == CharacterAt(bus.vip, c)
           half == Halfword(low, high)
<1>1. row \in Int /\ character[y] = half
  <2>1. character[y] = VipReadU16(bus.vip, ShownAt(c, y))
    BY DEF CharacterAt, Halfwords, ShownAt
  <2>2. y \in Int /\ y >= 0 /\ y < 8
    OBVIOUS
  <2>3. QED
    BY <2>1, <2>2, RowOfCharacter
<1>2. x % 8 = x /\ y % 8 = y /\ x \div 4 = IF x < 4 THEN 0 ELSE 1
  BY SMT
<1>3. DotAddress(c, x, y) = row + x \div 4
  <2>1. CHARACTER_TABLE_0 = 24576 /\ CHARACTER_TABLE_STRIDE = 32768 /\ CHARACTER_BYTES = 16
    BY DEF CHARACTER_TABLE_0, CHARACTER_TABLE_STRIDE, CHARACTER_BYTES
  <2>2. QED
    BY <2>1 DEF DotAddress, RowAt
<1>4. low \in Byte /\ high \in Byte
  BY Peeked DEF TypedVideo
<1>5. HalfDot(half, x) = Lane(Side(low, high, x), x)
  BY <1>4, DotOfHalf
<1> HIDE DEF row, character, half
<1>6. Peek(bus.vip.vram, DotAddress(c, x, y)) = Side(low, high, x)
  <2>1. DotAddress(c, x, y) = IF x < 4 THEN row ELSE row + 1
    BY <1>1, <1>2, <1>3
  <2>2. QED
    BY <2>1 DEF Side
<1> HIDE DEF low, high
<1>7. Pixel(character, x, y) = HalfDot(half, x)
  <2>1. Pixel(character, x, y) = HalfDot(character[y], x)
    BY <1>2, PixelIs
  <2>2. QED
    BY <1>1, <2>1
<1>8. Dot(c, x, y) = Lane(Side(low, high, x), x)
  <2>1. Dot(c, x, y) = Lane(Peek(bus.vip.vram, DotAddress(c, x, y)), x)
    BY DotIs
  <2>2. QED
    BY <1>6, <2>1
<1>9. QED
  BY <1>5, <1>7, <1>8 DEF character

LEMMA DotsShown == TypedVideo(bus.vip) => DotsAreOfTheirTable
<1> SUFFICES ASSUME TypedVideo(bus.vip), NEW index \in DrawnObjects, NEW x \in 0..7, NEW y \in 0..7
             PROVE  LET look == ObjectAt(bus.vip, index).look
                        character == CharacterAt(bus.vip, look.character)
                    IN  FlippedPixel(character, x, y, look.horizontal_flip, look.vertical_flip) =
                          Dot(look.character, IF look.horizontal_flip THEN 7 - x ELSE x,
                                              IF look.vertical_flip THEN 7 - y ELSE y)
  BY DEF DotsAreOfTheirTable
<1> DEFINE half == VipReadU16(bus.vip, ObjectAddress(index) + 6)
           look == ObjectAt(bus.vip, index).look
           c == look.character
           horizontal == look.horizontal_flip
           vertical == look.vertical_flip
           column == IF horizontal THEN 7 - x ELSE x
           line == IF vertical THEN 7 - y ELSE y
<1>1. look = Look(half)
  BY ObjectShown
<1>2. c \in Int /\ c >= 0 /\ c < 2048
  <2>1. half \in Int /\ half >= 0
    BY VipTyped16, HalfIs
  <2>2. c = BitField(half, 0, 11)
    BY <1>1 DEF Look
  <2> HIDE DEF half
  <2>3. BitField(half, 0, 11) \in Int /\ BitField(half, 0, 11) >= 0 /\ BitField(half, 0, 11) < 2048
    BY <2>1, SMT DEF BitField
  <2>4. QED
    BY <2>2, <2>3
<1> HIDE DEF look, c
<1>3. column \in 0..7 /\ line \in 0..7 /\ x % 8 = x /\ y % 8 = y
  <2>1. 7 - x \in 0..7 /\ 7 - y \in 0..7 /\ x % 8 = x /\ y % 8 = y
    BY SMT
  <2>2. QED
    BY <2>1
<1>4. FlippedPixel(CharacterAt(bus.vip, c), x, y, horizontal, vertical) =
        Pixel(CharacterAt(bus.vip, c), column, line)
  BY <1>3, Zenon DEF FlippedPixel
<1> HIDE DEF column, line
<1>5. Pixel(CharacterAt(bus.vip, c), column, line) = Dot(c, column, line)
  BY <1>2, <1>3, CharacterDot
<1>6. QED
  BY <1>4, <1>5, Zenon DEF column, line, look, c

\* Whatever a program leaves in video memory, and whatever it stores there
\* since, a renderer finds it in the records: characters, cells, objects,
\* worlds, parameters of rows and columns of the mirrors.
THEOREM RecordsAreWhatIsStored == Spec => []RecordsShowMemory
<1>1. TypedVideo(bus.vip) => RecordsShowMemory
  BY FieldsShown, BackgroundsShown, ParametersShown, EyesShown, DotsShown DEF RecordsShowMemory
<1>2. FlatIInv => TypedVideo(bus.vip)
  BY DEF FlatIInv, TypedBus, TypedVideo
<1>3. QED
  BY <1>1, <1>2, FlatInvariant, PTL
=============================================================================
