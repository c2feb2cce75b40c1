----------------------------- MODULE MemoryAccess -----------------------------
(* What software may rely on when it loads, stores and exchanges: memory is a *)
(* flat memory, the interrupt flags of the video processor change only as     *)
(* asked, and a fetched instruction is the one its words spell.               *)
EXTENDS LoadStore

CONSTANT Watched  \* the addresses of memory that are followed

-----------------------------------------------------------------------------
(* Where the byte of an address is kept.                                      *)

NoCell == <<"none", 0>>

\* Video memory repeats with the map it is in, and at the top of the map its
\* four tables of characters are shown once more, one after the other.  The
\* other memories repeat through their regions.
Location(addr) ==
  LET at == addr % VIP_LEN
      dots == at - CHARACTER_MIRROR
  IN  CASE Region(addr) = "Vip" /\ at < VRAM_LEN -> <<"vram", at>>
        [] Region(addr) = "Vip" /\ at >= CHARACTER_MIRROR ->
             <<"vram", CHARACTER_TABLE_0 + CHARACTER_TABLE_STRIDE * (dots \div CHARACTER_TABLE_LEN)
                         + (dots % CHARACTER_TABLE_LEN)>>
        [] Region(addr) = "Wram" -> <<"wram", addr % WRAM_LEN>>
        [] Region(addr) = "CartRam" /\ SRAM_LEN # 0 -> <<"sram", addr % SRAM_LEN>>
        [] Region(addr) = "CartRom" -> <<"rom", addr % ROM_LEN>>
        [] OTHER -> NoCell

Content(b, cell) ==
  CASE cell[1] = "vram" -> Peek(b.vip.vram, cell[2])
    [] cell[1] = "wram" -> Peek(b.wram, cell[2])
    [] cell[1] = "sram" -> Peek(b.sram, cell[2])
    [] cell[1] = "rom"  -> Peek(Rom, cell[2])

\* Memory, or nothing at all: neither a register nor a device.
IsPlain(addr) ==
  /\ Region(addr) # "Misc"
  /\ Region(addr) = "Vip" => addr % VIP_LEN \notin REGISTERS_START..REGISTERS_END

Home     == [addr \in Watched |-> Location(addr)]
Cells    == {Location(addr) : addr \in Watched} \ {NoCell}
Constant == {cell \in Cells : cell[1] = "rom"}

\* Whole words are followed; and what a program stores to a cell that is
\* followed it stores through an address that is.
ASSUME WatchAssumption ==
  /\ \A addr \in Watched :
       /\ addr \in Address /\ IsPlain(addr)
       /\ \A k \in 0..3 : AlignedDown(addr) + k \in Watched
  /\ \A step \in Program \cup [words : FirstWords, regs : {NoRegs}] :
       LET i  == Fetched(step.words)
           at == AddressFrom(step.regs, i)
       IN  i.op \in Stores \cup {"Caxi"} =>
             at \in Watched \/ \A k \in 0..3 : Location(AlignedDown(at) + k) \notin Cells

-----------------------------------------------------------------------------
(* The access a fetched instruction asks of memory.                           *)

Size(op) == CASE op \in {"LdB", "InB", "StB", "OutB"} -> 1
              [] op \in {"LdH", "InH", "StH", "OutH"} -> 2
              [] op \in {"LdW", "InW", "StW", "OutW", "Caxi"} -> 4

Accesses == Loads \cup Stores \cup {"Caxi"}

Bytes(word) ==
  <<LowByte(word[1]), HighByte(word[1]), LowByte(word[2]), HighByte(word[2])>>

Request(i) ==
  LET at == EffectiveAddress(i)
  IN  CASE i.op \in Loads  -> [op |-> "load", at |-> at, size |-> Size(i.op),
                               signed |-> i.op \in {"LdB", "LdH"}, reg |-> i.reg2]
        [] i.op \in Stores -> [op |-> "store", at |-> at, size |-> Size(i.op), reg |-> i.reg2]
        [] i.op = "Caxi"   -> [op |-> "exchange", at |-> at, size |-> 4, reg |-> i.reg2]

Asked ==
  IF fetched = Nothing THEN [op |-> "none"]
  ELSE LET i == Fetched(fetched)
       IN  CASE i.op \in Accesses /\ EffectiveAddress(i) \in Watched -> Request(i)
             [] i.op \in Swaps ->
                  [op |-> "rearrange", order |-> IF i.op = "Xb" THEN <<2, 1, 3, 4>> ELSE <<3, 4, 1, 2>>,
                   reg |-> i.reg2]
             [] OTHER -> [op |-> "elsewhere"]

F == INSTANCE FlatMemory WITH
       contents  <- [cell \in Cells |-> Content(bus, cell)],
       request   <- Asked,
       registers <- [number \in 0..31 |-> Bytes(Reg(number))],
       exchanged <- zero

\* Through every mirror, at every width, byte order and alignment, with and
\* without sign, and whatever the video processor's map and the registers
\* beside it do, memory is the flat memory a program takes it for; an exchange
\* writes whatever it compared, or the new word, and nothing else; and of the
\* registers only the one that is asked for changes.
ImplementsFlatMemory == F!Spec

-----------------------------------------------------------------------------
(* What a store hands the registers of the video processor: the word as       *)
(* halfwords from an address on.                                              *)

Given(i) ==
  LET at   == EffectiveAddress(i) % VIP_LEN
      word == Reg(i.reg2)
      old  == ReadU32(bus, EffectiveAddress(i))
  IN  IF i.op \notin Stores \cup {"Caxi"} \/ Region(EffectiveAddress(i)) # "Vip" THEN <<>>
      ELSE CASE Size(i.op) = 1 -> [register \in {Even(at)} |->
                                     IF at % 2 = 0 THEN word[1] ELSE LowByte(word[1]) * 2^8]
             [] Size(i.op) = 2 -> [register \in {Even(at)} |-> word[1]]
             [] Size(i.op) = 4 -> LET down == at - (at % 4)
                                      left == IF i.op = "Caxi" THEN CaxiWrites(old, word, Reg(30)) ELSE word
                                  IN  [register \in {down, down + 2} |->
                                         IF register = down THEN left[1] ELSE left[2]]

Handed == IF fetched = Nothing THEN <<>> ELSE Given(Fetched(fetched))

Handles(register, flag) == register \in DOMAIN Handed /\ flag \in Bits(Handed[register])

\* The flags of each unit of the video processor; the time error is of both.
Display == {FRAMESTART, GAMESTART, RFBEND, LFBEND, SCANERR, TIMEERR}
Drawing == {XPEND, SBHIT, TIMEERR}

\* An interrupt flag goes only when it is cleared, or its unit is reset; a mask
\* only when the enables are written, or its unit is reset.  A store of any
\* width, to any mirror, beside these registers or failing to exchange them
\* loses no interrupt and lets none through, and a reset leaves nothing of its
\* unit, whichever of the two resets came first.
FlagsGoAsAsked ==
  [][LET pending == bus.vip.regs.pending
         enabled == bus.vip.regs.enabled
         ResetOf(flag) == \/ Handles(DPCTRL, DPRST) /\ flag \in Display
                          \/ Handles(XPCTRL, XPRST) /\ flag \in Drawing
     IN  /\ fetched # Nothing =>
              \A flag \in INT_MASK :
                 /\ flag \in pending' <=> /\ flag \in pending
                                          /\ ~Handles(INTCLR, flag)
                                          /\ ~ResetOf(flag)
                 /\ flag \in enabled' <=>
                      IF INTENB \in DOMAIN Handed THEN Handles(INTENB, flag)
                      ELSE flag \in enabled /\ ~ResetOf(flag)
         /\ fetched = Nothing => pending \subseteq pending' /\ enabled' = enabled
    ]_vars

-----------------------------------------------------------------------------
(* The words of an instruction, from its fields.                              *)

Place(table, op) == CHOOSE k \in 0..(Len(table) - 1) : table[k + 1] = op
Within(op, table) == \E k \in DOMAIN table : table[k] = op

\* Fields as long as their ranges.
Field(value, bits) == value % 2^bits
Signed(bits)   == (-(2^(bits - 1)))..(2^(bits - 1) - 1)
Unsigned(bits) == 0..(2^bits - 1)

OpWord(opcode, high, low) == opcode * 2^10 + high * 2^5 + low

ImmediateRange(i) ==
  CASE i.format = "III" -> Signed(9)
    [] i.format = "IV"  -> Signed(26)
    [] i.format = "VI" \/ i.op \in {"Movea", "Addi"} -> Signed(16)
    [] i.op \in {"Ori", "Andi", "Xori", "Movhi"} -> Unsigned(16)
    [] i.op \in {"MovImm", "AddImm", "CmpImm"} -> Signed(5)
    [] i.op \in {"ShlImm", "ShrImm", "SarImm", "Setf", "Trap", "Ldsr", "Stsr"} -> Unsigned(5)
    [] OTHER -> {0}

\* Bits no field holds are zero.
Encoded(i) ==
  CASE i.format = "I"   -> <<OpWord(Place(FORMAT_I, i.op), i.reg2, i.reg1), 0>>
    [] Within(i.op, BIT_STRING) -> <<OpWord(31, i.reg2, Place(BIT_STRING, i.op)), 0>>
    [] i.format = "II" /\ ~Within(i.op, BIT_STRING) ->
                             <<OpWord(16 + Place(FORMAT_II, i.op), i.reg2, Field(i.imm, 5)), 0>>
    [] i.format = "III" -> <<2^15 + 2^9 * Place(CONDITIONS, i.cond) + Field(i.imm, 9), 0>>
    [] i.format = "IV"  -> <<OpWord(40 + Place(FORMAT_IV_V, i.op), 0, 0) + Field(i.imm, 26) \div 2^16,
                             Field(i.imm, 16)>>
    [] i.format = "V"   -> <<OpWord(40 + Place(FORMAT_IV_V, i.op), i.reg2, i.reg1), Field(i.imm, 16)>>
    [] i.format = "VI"  -> <<OpWord(48 + Place(FORMAT_VI, i.op), i.reg2, i.reg1), Field(i.imm, 16)>>
    [] i.format = "VII" -> <<OpWord(62, i.reg2, i.reg1), 2^10 * Place(FLOAT, i.op)>>

\* Bits of the words that mean nothing to the instruction.
Meaningless(i) == CASE i.op \in {"Cli", "Sei", "Reti", "Halt"} -> <<2^5, 1>>
                    [] i.format = "VII" -> <<1, 2^10>>
                    [] OTHER -> <<1, 1>>

Slice(words) == <<LowByte(words[1]), HighByte(words[1]), LowByte(words[2]), HighByte(words[2])>>

\* The width is chosen from the opcode before it is decoded, and the decoder
\* says what it decoded: the two agree, else the fetch reads a halfword too
\* many or too few.  The fields give back every bit that means something, each
\* immediate in its range; and a listing of bytes decodes as the fetch does,
\* whether more bytes follow or not, and not at all when some are missing.
DecodingLosesNothing ==
  fetched # Nothing =>
    LET i     == Fetched(fetched)
        width == InstructionWidth(fetched[1])
        bytes == Slice(fetched)
        words == <<fetched[1], IF width = 4 THEN fetched[2] ELSE 0>>
    IN  /\ i.op \notin Illegal =>
             /\ i.width = width
             /\ i.imm \in ImmediateRange(i)
             /\ \A k \in {1, 2} : Encoded(i)[k] \div Meaningless(i)[k] = words[k] \div Meaningless(i)[k]
             /\ DecodeWords(Encoded(i)[1], Encoded(i)[2]) = i
        /\ \A len \in 0..4 :
             DecodeSlice(SubSeq(bytes, 1, len)) = IF len < width THEN Error("Truncated") ELSE i
=============================================================================
