--------------------------- MODULE InstructionCache ---------------------------
(* The instruction cache, src/crates/vb-core/src/cpu/cache.rs: a record of    *)
(* what was fetched that software can clear, dump to memory and restore.      *)
(* What executes is read from memory (cpu/exec.rs), never from here.          *)
(*                                                                            *)
(* Memory is in bytes; a block has BLOCK_LEN of them and a tag word four, the *)
(* least significant first.  A memory smaller than its region is mirrored     *)
(* throughout it.  The devices read as zero here and take no byte: nothing is *)
(* cached from them, and what a dump does to their registers is in Machine.   *)
EXTENDS Integers

CONSTANTS
  ENTRIES, BLOCK_LEN,  \* 128 and 8
  BYTE_SPACE,          \* 2^8
  TAG_VALID,           \* 2^22: a bit of the tag word, above every tag
  GRANULE,             \* 2^8: the field above the operation bits, as an address
  COUNT_SPACE,         \* 2^12: the same field holds cen and, below it, cec
  REGION_LEN,          \* 2^24
  ADDRESS_LEN,         \* 2^32: registers are wider than the bus, which is 2^27
  WRAM_LEN, SRAM_LEN,  \* 2^16, and zero or a power of two
  Rom,                 \* [0..REGION_LEN-1 -> Byte]: the cartridge, mirrored
  \* The program: where it executes, what it writes to CHCW (the three
  \* operations, the enable bit, and the field they share), where it stores and
  \* what.
  Fetches, ControlWords, StoreAddresses, StoreValues

\* Vip, Vsu, Misc, Unmapped and Expansion are the devices.
Region == <<"Device", "Device", "Device", "Device", "Device", "Wram", "CartRam", "CartRom">>
BUS_LEN == 8 * REGION_LEN
Address == 0..(ADDRESS_LEN - 1)
Byte == 0..(BYTE_SPACE - 1)
TAG_LEN == 4
WORD_SPACE == BYTE_SPACE * BYTE_SPACE * BYTE_SPACE * BYTE_SPACE
Word == 0..(WORD_SPACE - 1)

ASSUME LayoutAssumption ==
  /\ {ENTRIES, BLOCK_LEN, BYTE_SPACE, TAG_VALID, GRANULE, COUNT_SPACE, REGION_LEN, ADDRESS_LEN,
      WRAM_LEN} \subseteq Nat \ {0}
  /\ SRAM_LEN \in Nat
  \* A field as an address leaves the bus when cen reaches ENTRIES.
  /\ GRANULE * COUNT_SPACE * ENTRIES = BUS_LEN
  \* The tags of a spill area lie on the boundaries of words, where a word is
  \* read and written whole.
  /\ GRANULE % TAG_LEN = 0 /\ (ENTRIES * BLOCK_LEN) % TAG_LEN = 0
  /\ REGION_LEN % (ENTRIES * BLOCK_LEN) = 0
  /\ ADDRESS_LEN % BUS_LEN = 0
  \* No tag of an address reaches the valid bit, and a tag word holds both.
  /\ ADDRESS_LEN <= TAG_VALID * (ENTRIES * BLOCK_LEN)
  /\ 2 * TAG_VALID <= WORD_SPACE
ASSUME ByteAssumption ==
  /\ Rom \in [0..(REGION_LEN - 1) -> Byte]
  /\ StoreValues \subseteq Byte
  /\ Fetches \cup StoreAddresses \subseteq Address

Control == [icc : BOOLEAN, ice : BOOLEAN, icd : BOOLEAN, icr : BOOLEAN,
            field : 0..(ADDRESS_LEN \div GRANULE - 1)]
ASSUME ControlAssumption == ControlWords \subseteq Control

VARIABLES blocks,  \* [0..ENTRIES-1 -> [0..BLOCK_LEN-1 -> Byte]]
          tags,    \* [0..ENTRIES-1 -> Word]
          enabled, \* the one bit of CHCW that is kept
          wram, sram

cache == <<blocks, tags>>
memory == <<wram, sram>>
cacheVars == <<blocks, tags, enabled, wram, sram>>

Index == 0..(ENTRIES - 1)

-----------------------------------------------------------------------------
RegionOf(address) == Region[((address \div REGION_LEN) % 8) + 1]
IsMemory(address) == RegionOf(address) # "Device"

Read(w, s, address) ==
  CASE RegionOf(address) = "Wram"    -> w[address % WRAM_LEN]
    [] RegionOf(address) = "CartRam" -> IF SRAM_LEN = 0 THEN 0 ELSE s[address % SRAM_LEN]
    [] RegionOf(address) = "CartRom" -> Rom[address % REGION_LEN]
    [] RegionOf(address) = "Device"  -> 0

\* u32::from_le_bytes and u32::to_le_bytes.
ReadWord(w, s, address) ==
  Read(w, s, address) + BYTE_SPACE * (Read(w, s, address + 1)
    + BYTE_SPACE * (Read(w, s, address + 2) + BYTE_SPACE * Read(w, s, address + 3)))

LeBytes(word) ==
  LET second == word \div BYTE_SPACE
      third  == second \div BYTE_SPACE
      fourth == third \div BYTE_SPACE
  IN  <<word % BYTE_SPACE, second % BYTE_SPACE, third % BYTE_SPACE, fourth>>

IndexOf(address) == (address \div BLOCK_LEN) % ENTRIES
TagOf(address)   == address \div (ENTRIES * BLOCK_LEN)
BlockBase(address) == address - (address % BLOCK_LEN)

Valid(entry)    == (entry \div TAG_VALID) % 2 = 1
TagField(entry) == entry % TAG_VALID

\* A restored tag may carry more bits than the two fields.
Contains(tag, address) ==
  LET entry == tag[IndexOf(address)]
  IN  Valid(entry) /\ TagField(entry) = TagOf(address)

\* Mutant: a block captured from where the program counter points.
CapturedFrom(address) == address
Captured(address) == BlockBase(address)

Fill(c, address) ==
  IF ~IsMemory(address) \/ Contains(c.tags, address)
  THEN c
  ELSE [blocks |-> [c.blocks EXCEPT ![IndexOf(address)] =
                      [offset \in 0..(BLOCK_LEN - 1) |->
                         Read(wram, sram, Captured(address) + offset)]],
        tags   |-> [c.tags EXCEPT ![IndexOf(address)] = TAG_VALID + TagOf(address)]]

-----------------------------------------------------------------------------
(* Clear, dump and restore.  A spill area has the blocks, then the tags.      *)

SPILL_LEN == ENTRIES * (BLOCK_LEN + TAG_LEN)
Spilled == 0..(SPILL_LEN - 1)
TagPlace(index) == ENTRIES * BLOCK_LEN + index * TAG_LEN

\* Byte k of the area.
SpilledByte(k) ==
  LET beyond == k - ENTRIES * BLOCK_LEN
  IN  IF k < ENTRIES * BLOCK_LEN
      THEN blocks[k \div BLOCK_LEN][k % BLOCK_LEN]
      ELSE LeBytes(tags[beyond \div TAG_LEN])[(beyond % TAG_LEN) + 1]

Smaller(a, b) == IF a < b THEN a ELSE b
Greatest(S) == CHOOSE k \in S : \A j \in S : k >= j

\* Only the valid bit goes.
Cleared(first, count) ==
  [index \in Index |->
     IF first <= index /\ index < first + Smaller(count, ENTRIES) /\ Valid(tags[index])
     THEN tags[index] - TAG_VALID
     ELSE tags[index]]

\* The last of the bytes written to one place is what stays there.
Overwritten(region, mem, spill, length) ==
  [place \in DOMAIN mem |->
     LET writers == {k \in Spilled : /\ RegionOf(spill + k) = region
                                     /\ (spill + k) % length = place}
     IN  IF writers = {} THEN mem[place] ELSE SpilledByte(Greatest(writers))]

\* Mutant: the tags are looked for one tag too far.
RestoredTagPlaceShifted(index) == TagPlace(index) + TAG_LEN
RestoredTagPlace(index) == TagPlace(index)

-----------------------------------------------------------------------------
CacheInit == /\ blocks = [index \in Index |-> [offset \in 0..(BLOCK_LEN - 1) |-> 0]]
             /\ tags = [index \in Index |-> 0]
             /\ enabled = FALSE
             /\ wram = [place \in 0..(WRAM_LEN - 1) |-> 0]
             /\ sram = [place \in 0..(SRAM_LEN - 1) |-> 0]

\* One fetch of an instruction; a long one fills for its second half as well.
\* With the cache disabled a fetch leaves no trace here.
Fetch(pc, long) ==
  /\ enabled
  /\ LET first == Fill([blocks |-> blocks, tags |-> tags], pc)
         both == IF long THEN Fill(first, (pc + 2) % ADDRESS_LEN) ELSE first
     IN  blocks' = both.blocks /\ tags' = both.tags
  /\ UNCHANGED <<enabled, wram, sram>>

Cen(control) == control.field \div COUNT_SPACE
Cec(control) == control.field % COUNT_SPACE
Spill(control) == control.field * GRANULE
OnBus(spill) == spill < BUS_LEN

\* Mutant: a dump goes before a clear.
ClearsUnlessDumped(control) == control.icc /\ ~(control.icd /\ OnBus(Spill(control)))
Clears(control) == control.icc
Dumps(control) == ~Clears(control) /\ OnBus(Spill(control)) /\ control.icd
Restores(control) == ~Clears(control) /\ OnBus(Spill(control)) /\ ~control.icd /\ control.icr

\* A write to CHCW: the enable bit, and one operation at most.
CacheControl(control) ==
  /\ enabled' = control.ice
  /\ tags' = IF Clears(control) THEN Cleared(Cen(control), Cec(control))
             ELSE IF Restores(control)
             THEN [index \in Index |->
                    ReadWord(wram, sram, Spill(control) + RestoredTagPlace(index))]
             ELSE tags
  /\ blocks' = IF Restores(control)
               THEN [index \in Index |-> [offset \in 0..(BLOCK_LEN - 1) |->
                       Read(wram, sram, Spill(control) + index * BLOCK_LEN + offset)]]
               ELSE blocks
  /\ IF Dumps(control)
     THEN /\ wram' = Overwritten("Wram", wram, Spill(control), WRAM_LEN)
          /\ sram' = Overwritten("CartRam", sram, Spill(control), SRAM_LEN)
     ELSE UNCHANGED memory

\* A store of the program.  The cache does not see it.
Store(address, value) ==
  /\ \/ /\ RegionOf(address) = "Wram"
        /\ wram' = [wram EXCEPT ![address % WRAM_LEN] = value]
        /\ UNCHANGED sram
     \/ /\ RegionOf(address) = "CartRam" /\ SRAM_LEN # 0
        /\ sram' = [sram EXCEPT ![address % SRAM_LEN] = value]
        /\ UNCHANGED wram
  /\ UNCHANGED <<blocks, tags, enabled>>

CacheNext == \/ \E pc \in Fetches, long \in BOOLEAN : Fetch(pc, long)
             \/ \E control \in ControlWords : CacheControl(control)
             \/ \E address \in StoreAddresses, value \in StoreValues : Store(address, value)

CacheSpec == CacheInit /\ [][CacheNext]_cacheVars

-----------------------------------------------------------------------------
\* Blocks and memories hold bytes and tags words, through fills, aliased dumps
\* and restores from anywhere on the bus.
TypeOK == /\ blocks \in [Index -> [0..(BLOCK_LEN - 1) -> Byte]]
          /\ tags \in [Index -> Word]
          /\ enabled \in BOOLEAN
          /\ wram \in [0..(WRAM_LEN - 1) -> Byte]
          /\ sram \in [0..(SRAM_LEN - 1) -> Byte]
=============================================================================
