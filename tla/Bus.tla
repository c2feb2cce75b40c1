--------------------------------- MODULE Bus ----------------------------------
(* The address space: src/crates/vb-core/src/bus.rs, with the memories of     *)
(* cart.rs and the wait controller of wait.rs behind it.                      *)
(*                                                                            *)
(* A bus is [vip, wram, sram, wait, posted].  The timer and the pad are other *)
(* modules: `posted' holds the byte writes handed to them, in order, and      *)
(* reading one of them gives DEVICE_BYTE.  A word is <<low, high>>.           *)
EXTENDS Vip, Sequences

CONSTANTS ROM_LEN,       \* length of the cartridge's program
          SRAM_LEN,      \* length of its save memory, zero when it has none
          Rom,           \* the bytes of the program that are not zero
          DEVICE_BYTE    \* what the timer and the pad show

ADDRESS_LEN == 2^27
REGION_LEN  == 2^24
WRAM_LEN    == 2^16

\* What a cartridge is accepted with.
CartAccepts(rom_len, sram_len) ==
  /\ rom_len \in {2^k : k \in 10..24}
  /\ sram_len \in {0} \cup {2^k : k \in 0..16}

ASSUME BusAssumption == /\ CartAccepts(ROM_LEN, SRAM_LEN)
                        /\ DOMAIN Rom \subseteq 0..(ROM_LEN - 1)
                        /\ \A at \in DOMAIN Rom : Rom[at] \in Byte
                        /\ DEVICE_BYTE \in Byte

Address == 0..(ADDRESS_LEN - 1)

\* In the order of the addresses.
REGIONS == <<"Vip", "Vsu", "Misc", "Unmapped", "Expansion", "Wram", "CartRam", "CartRom">>

Region(addr) == REGIONS[addr \div REGION_LEN + 1]
IsMemory(addr) == Region(addr) \in {"Wram", "CartRam", "CartRom"}

Empty == [at \in {} |-> 0]

NewBus == [vip |-> [vram |-> Empty, regs |-> NewRegisters],
           wram |-> Empty, sram |-> Empty, wait |-> {}, posted |-> <<>>]

-----------------------------------------------------------------------------
(* The registers of the devices repeat every 64 bytes.                        *)

TimerRegister == {\h18, \h1C, \h20}
PadRegister   == {\h10, \h14, \h28}
WaitRegister  == \h24

ROM1W == 0
EXP1W == 1

WaitRead(wait)  == \hFC + Number(wait)
WaitWrite(byte) == Bits(byte) \cap {ROM1W, EXP1W}

ReadMisc(bus, addr) ==
  CASE addr % 64 \in TimerRegister \cup PadRegister -> DEVICE_BYTE
    [] addr % 64 = WaitRegister -> WaitRead(bus.wait)
    [] OTHER -> 0

WriteMisc(bus, addr, byte) ==
  CASE addr % 64 \in TimerRegister \cup PadRegister ->
         [bus EXCEPT !.posted = Append(@, [at |-> addr % 64, byte |-> byte])]
    [] addr % 64 = WaitRegister -> [bus EXCEPT !.wait = WaitWrite(byte)]
    [] OTHER -> bus

\* The memories of the cartridge repeat through their regions; it may have no
\* save memory.
ReadRom(addr) == Peek(Rom, addr % ROM_LEN)
ReadSram(bus, addr) == IF SRAM_LEN = 0 THEN 0 ELSE Peek(bus.sram, addr % SRAM_LEN)
WriteSram(bus, addr, byte) ==
  IF SRAM_LEN = 0 THEN bus ELSE [bus EXCEPT !.sram = Poke(@, addr % SRAM_LEN, byte)]

-----------------------------------------------------------------------------
ReadU8(bus, addr) ==
  CASE Region(addr) = "Wram"    -> Peek(bus.wram, addr % WRAM_LEN)
    [] Region(addr) = "CartRam" -> ReadSram(bus, addr)
    [] Region(addr) = "CartRom" -> ReadRom(addr)
    [] Region(addr) = "Misc"    -> ReadMisc(bus, addr)
    [] Region(addr) = "Vip"     -> VipReadU8(bus.vip, addr)
    [] OTHER                    -> 0

\* A byte store hands the video processor its whole source; source is a halfword.
StoreU8(bus, addr, source) ==
  CASE Region(addr) = "Wram" -> [bus EXCEPT !.wram = Poke(@, addr % WRAM_LEN, LowByte(source))]
    [] Region(addr) = "CartRam" -> WriteSram(bus, addr, LowByte(source))
    [] Region(addr) = "Misc" -> WriteMisc(bus, addr, LowByte(source))
    [] Region(addr) = "Vip" -> [bus EXCEPT !.vip = VipWriteU8(@, addr, source)]
    [] OTHER -> bus

\* Everything but a store instruction writes a byte and no more.
WriteU8(bus, addr, byte) == StoreU8(bus, addr, byte)

\* Wider accesses are aligned down.  They reach the memories and the video
\* processor; to anything else they are a read of zero or no write at all.
ReadU16(bus, address) ==
  LET addr == Even(address)
  IN  CASE Region(addr) = "Vip" -> VipReadU16(bus.vip, addr)
        [] IsMemory(addr) -> Halfword(ReadU8(bus, addr), ReadU8(bus, addr + 1))
        [] OTHER -> 0

WriteU16(bus, address, value) ==
  LET addr == Even(address)
  IN  CASE Region(addr) = "Vip" -> [bus EXCEPT !.vip = VipWriteU16(@, addr, value)]
        [] IsMemory(addr) -> WriteU8(WriteU8(bus, addr, LowByte(value)), addr + 1, HighByte(value))
        [] OTHER -> bus

AlignedDown(addr) == addr - (addr % 4)

ReadU32(bus, address) ==
  LET addr == AlignedDown(address)
  IN  CASE Region(addr) = "Vip" -> VipReadU32(bus.vip, addr)
        [] IsMemory(addr) -> <<ReadU16(bus, addr), ReadU16(bus, addr + 2)>>
        [] OTHER -> <<0, 0>>

WriteU32(bus, address, word) ==
  LET addr == AlignedDown(address)
  IN  CASE Region(addr) = "Vip" -> [bus EXCEPT !.vip = VipWriteU32(@, addr, word)]
        [] IsMemory(addr) -> WriteU16(WriteU16(bus, addr, word[1]), addr + 2, word[2])
        [] OTHER -> bus
=============================================================================
