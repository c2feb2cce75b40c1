------------------------------ MODULE MC_Memory -------------------------------
(* Programs of a few accesses to four bytes of each memory, through some of   *)
(* the addresses that show them, and to the registers that matter to the      *)
(* interrupts of the video processor; and every first halfword there is.      *)
EXTENDS MemoryAccess, VipRecords, TLC

FourRomBytes == (0 :> \h80) @@ (1 :> \h7F) @@ (2 :> \hFF) @@ (3 :> 1)

-----------------------------------------------------------------------------
(* Words of each memory through several of the addresses that show them, and  *)
(* words of no memory.  The save memory of two bytes repeats in each word.    *)

InVram    == {\h6000, \h78000, \h86000, \hFF8000, \hE000, \h7A000}
InWram    == {\h5000000, \h5010000}
InSram    == {\h6000000, \h6000004}
InRom     == {\h7000000, \h7000400}
InNothing == {\h40000, \h1000000, \h4000000}

SomeWords == {start + k : start \in InVram \cup InWram \cup InSram \cup InRom \cup InNothing, k \in 0..3}

-----------------------------------------------------------------------------
(* Every access is "op imm[r1], r2".  Bits of r1 above the bus are set.       *)

Word1(op) == OpWord(48 + Place(FORMAT_VI, op), 2, 1)
Base1(addr) == <<addr % 2^16, (addr \div 2^16) + \hF800>>

Step(op, addr, imm, data) ==
  [words |-> <<Word1(op), imm % 2^16>>,
   regs  |-> (1 :> Base1(addr - imm)) @@ (2 :> data) @@ (30 :> <<\h7F80, \hFF01>>)]

Data == <<\h8171, \hF2E3>>

ToMemory ==
  {Step(op, addr, 0, Data) : op \in {"StB", "StH", "OutW"}, addr \in {\h78001, \h5010003, \h6000002}}
    \cup {Step("OutB", \h40001, -4, Data), Step("OutH", \h86003, 4, Data), Step("StW", \h7A002, -8, Data),
          Step("StH", \h7000402, 0, Data), Step("StW", \hE000, 0, Data)}

FromMemory ==
  {Step(op, addr, 0, <<0, 0>>) : op \in {"LdB", "InH", "LdW"}, addr \in {\hFF8001, \h5000003, \h6000006}}
    \cup {Step("InB", \h7000400, 8, Data), Step("LdH", \h7000003, -8, Data), Step("InW", \h7A000, 0, Data),
          Step("LdW", \h1000000, 0, Data)}

Exchanges ==
  {Step("Caxi", addr, 0, data) : addr \in {\h78002, \h5000001, \h6000000}, data \in {<<0, 0>>, Data}}

\* To the interrupt registers: every flag, a reset, a reset that enables.
ToRegisters ==
  {Step("StH", INTENB, 0, <<\hFFFF, 0>>), Step("StB", INTENB + 1, 0, <<\h7F40, 0>>),
   Step("StW", INTPND, 0, <<\hFFFF, \h8009>>),
   Step("StB", INTCLR, 0, <<\h4008, 0>>), Step("StB", INTCLR + 1, 0, <<\hFF80, 0>>),
   Step("StH", DPCTRL + 2^19, 0, <<1, 0>>), Step("StW", DPSTTS, 0, <<1, \h0703>>),
   Step("StH", XPCTRL, 0, <<3, 0>>), Step("OutB", XPCTRL, 0, <<\h1F01, 0>>),
   Step("Caxi", XPSTTS, 0, <<0, 0>>), Step("Caxi", INTPND, 0, <<0, 0>>)}

\* To the registers of the devices, which only bytes reach.
ToDevices == {Step(op, \h2000040 + WaitRegister, 0, <<\hFF01, \hFFFF>>) : op \in {"StB", "InB", "StH", "InH", "StW"}}

\* From one byte order to another.
Swapping == {[words |-> <<OpWord(62, 2, 1), 2^10 * Place(FLOAT, op)>>, regs |-> (2 :> Data)] : op \in Swaps}

Accessing == ToMemory \cup FromMemory \cup Exchanges \cup ToRegisters \cup ToDevices \cup Swapping
EveryFlag == {INT_MASK}

-----------------------------------------------------------------------------
\* What halfwords stored from an address on leave in video memory.
Stored16(halves, base) ==
  [at \in base..(base + 2 * Len(halves) - 1) |->
     LET half == halves[(at - base) \div 2 + 1] IN IF at % 2 = 0 THEN LowByte(half) ELSE HighByte(half)]

OneHot(length) == {[k \in 1..length |-> IF k = at THEN 2^bit ELSE 0] : at \in 1..length, bit \in 0..15}

TwoWorlds    == {5, 31}
TwoObjects   == {0, 1023}
TwoCells     == {<<0, 0>>, <<13, 4095>>}
TwoColumns   == {0, 255}
ThreeRows    == {0, 2, 5}

\* Backgrounds of every shape from every map.
Backgrounds ==
  {Stored16(<<shape * 2^8 + map>> \o [k \in 1..10 |-> \hFFFF], WorldAddress(31)) : shape \in 0..15, map \in 0..15}

\* Rows of parameters, all different and of both signs, at every alignment and
\* up to the end of video memory, for a world of the kind that has them.
Parameters(kind, base) ==
  Stored16(<<\hC000 + kind * 2^12, 0, 0, 0, 0, 0, 0, 5, 0, base, 0>>, WorldAddress(5))
    @@ Stored16([k \in 1..64 |-> (k * 1999) % 2^16], BG_MAPS + 2 * base)

\* Objects with each look, of characters on both sides of a table's end.
Looks ==
  {Stored16(<<0, 0, 0, flips * 2^12 + character>>, ObjectAddress(0))
     @@ Stored16([k \in 1..8 |-> (k * 7919) % 2^16],
                 CHARACTER_TABLE_0 + (character \div 512) * CHARACTER_TABLE_STRIDE + (character % 512) * 16)
     : flips \in 0..3, character \in {0, 511, 512, 2047}}

Drawn ==
  {Stored16(halves, WorldAddress(5)) : halves \in OneHot(11)}
    \cup Backgrounds
    \cup {Parameters(kind, base) : kind \in {1, 2}, base \in 0..8 \cup {\hFFC0}}
    \cup {Stored16(halves, ObjectAddress(1023)) : halves \in OneHot(4)}
    \cup {Stored16(<<0, 0, y, 0>>, ObjectAddress(0)) : y \in Byte}
    \cup Looks
    \cup {Stored16(halves, CellAddress(cell[1], cell[2])) : halves \in OneHot(1), cell \in TwoCells}
    \cup {Stored16(halves, ColumnAddress(right_eye, index)) :
             halves \in OneHot(1), right_eye \in BOOLEAN, index \in TwoColumns}

-----------------------------------------------------------------------------
\* Every halfword, and before halfwords that tell sign and byte order those
\* that take another; every sub-opcode of the floating point instructions.
EveryWord ==
  (Half \X {\hFFFF})
    \cup ({word \in Half : OpcodeOf(word) >= FIRST_32_BIT_OPCODE} \X {0, \h7FFE})
    \cup ({OpWord(62, 3, 5)} \X {2^10 * sub + low : sub \in 0..63, low \in {0, 2^10 - 1}})
=============================================================================
