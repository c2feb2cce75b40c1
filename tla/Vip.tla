--------------------------------- MODULE Vip ----------------------------------
(* The memory map of the video processor: src/crates/vb-core/src/vip/mod.rs.  *)
(*                                                                            *)
(* A memory is a function from the offsets ever written to their bytes; every *)
(* other cell holds zero.  The map is [vram, regs]; an operation gives the    *)
(* map it leaves.                                                             *)
EXTENDS VipRegisters

Byte == 0..255

VIP_LEN  == \h80000   \* the whole map repeats above this
VRAM_LEN == \h40000

CHARACTER_TABLE_0      == \h6000
CHARACTER_TABLE_STRIDE == \h8000
CHARACTER_TABLE_LEN    == \h2000
CHARACTER_MIRROR       == \h78000

REGISTERS_START == \h5E000
REGISTERS_END   == \h5FFFF

-----------------------------------------------------------------------------
(* Bytes and halfwords.                                                       *)

Peek(cells, at) == IF at \in DOMAIN cells THEN cells[at] ELSE 0
Poke(cells, at, byte) ==
  [cell \in DOMAIN cells \cup {at} |-> IF cell = at THEN byte ELSE cells[cell]]

LowByte(half)  == half % 2^8
HighByte(half) == half \div 2^8
Halfword(low, high) == low + 2^8 * high

Even(addr) == addr - (addr % 2)

-----------------------------------------------------------------------------
Vram(at)     == [kind |-> "vram", at |-> at]
Register(at) == [kind |-> "register", at |-> at]
Unmapped     == [kind |-> "unmapped"]

\* Mutant: the mirrors follow each other as the tables do.
CharacterCellFlat(offset) == CHARACTER_TABLE_0 + offset
\* The four tables, apart in video memory, are one block in the mirror.
CharacterCell(offset) ==
  CHARACTER_TABLE_0 + (offset \div CHARACTER_TABLE_LEN) * CHARACTER_TABLE_STRIDE
                    + (offset % CHARACTER_TABLE_LEN)

Resolve(address) ==
  LET addr == address % VIP_LEN
  IN  CASE addr < VRAM_LEN -> Vram(addr)
        [] addr \in REGISTERS_START..REGISTERS_END -> Register(addr)
        [] addr >= CHARACTER_MIRROR -> Vram(CharacterCell(addr - CHARACTER_MIRROR))
        [] OTHER -> Unmapped

VipReadU8(vip, addr) ==
  LET target == Resolve(addr)
  IN  CASE target.kind = "vram" -> Peek(vip.vram, target.at)
        [] target.kind = "register" ->
             LET half == ReadRegister(vip.regs, Even(target.at))
             IN  IF target.at % 2 = 0 THEN LowByte(half) ELSE HighByte(half)
        [] OTHER -> 0

VipReadU16(vip, addr) ==
  LET target == Resolve(Even(addr))
  IN  CASE target.kind = "vram" ->
             Halfword(Peek(vip.vram, target.at), Peek(vip.vram, target.at + 1))
        [] target.kind = "register" -> ReadRegister(vip.regs, target.at)
        [] OTHER -> 0

VipWriteU16(vip, addr, value) ==
  LET target == Resolve(Even(addr))
  IN  CASE target.kind = "vram" ->
             [vip EXCEPT !.vram =
                Poke(Poke(@, target.at, LowByte(value)), target.at + 1, HighByte(value))]
        [] target.kind = "register" ->
             [vip EXCEPT !.regs = WriteRegister(@, target.at, value)]
        [] OTHER -> vip

\* A word is two halfwords, <<low, high>>; addr is a multiple of four.
VipReadU32(vip, addr) == <<VipReadU16(vip, addr), VipReadU16(vip, addr + 2)>>
VipWriteU32(vip, addr, word) == VipWriteU16(VipWriteU16(vip, addr, word[1]), addr + 2, word[2])

\* A byte store to a register is a halfword store of the whole source register
\* (its low halfword, source): an odd address moves the low byte up and clears
\* the low half.
StoredHalf(at, source) ==
  IF at % 2 = 0 THEN source ELSE Halfword(0, LowByte(source))

VipWriteU8(vip, addr, source) ==
  LET target == Resolve(addr)
  IN  CASE target.kind = "vram" -> [vip EXCEPT !.vram = Poke(@, target.at, LowByte(source))]
        [] target.kind = "register" ->
             [vip EXCEPT !.regs =
                WriteRegister(@, Even(target.at), StoredHalf(target.at, source))]
        [] OTHER -> vip
=============================================================================
