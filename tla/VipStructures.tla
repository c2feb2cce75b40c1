----------------------------- MODULE VipStructures -----------------------------
(* The records a renderer reads out of video memory:                          *)
(* src/crates/vb-core/src/vip/structures.rs.                                  *)
(*                                                                            *)
(* Records are read through the map of Vip, so a character is found through   *)
(* the mirror.  A sequence of halfwords starts at zero, as in the source.     *)
EXTENDS Vip

CHARACTER_COUNT == 2048
CHARACTER_BYTES == 16
BG_MAPS         == \h20000
BG_MAP_CELLS    == 4096
BG_MAP_BYTES    == 8192
OBJECT_ATTRIBUTES == \h3E000
OBJECT_COUNT    == 1024
OBJECT_BYTES    == 8
WORLD_ATTRIBUTES == \h3D800
WORLD_COUNT     == 32
WORLD_BYTES     == 32
LEFT_COLUMN_TABLE  == \h3DC00
RIGHT_COLUMN_TABLE == \h3DE00
COLUMN_ENTRIES  == 256
HBIAS_BYTES     == 4
AFFINE_BYTES    == 16

BitField(half, low, bits) == (half \div 2^low) % 2^bits
Flag(half, bit) == BitField(half, bit, 1) = 1

\* The signed value of the low bits.
SignedField(half, bits) ==
  LET value == half % 2^bits IN IF value >= 2^(bits - 1) THEN value - 2^bits ELSE value

Halfwords(vip, base, count) == [k \in 0..(count - 1) |-> VipReadU16(vip, base + 2 * k)]

\* Some addresses are joined by or, which adds only what is not there yet.
Joined(base, offset) == base - (base % 16) + Number(Bits(base % 16) \cup Bits(offset))

-----------------------------------------------------------------------------
(* Characters, and the cells of a background.                                 *)

CharacterAt(vip, index) ==
  Halfwords(vip, CHARACTER_MIRROR + (index % CHARACTER_COUNT) * CHARACTER_BYTES, 8)

\* The low bits are to the left.
Pixel(character, x, y) == BitField(character[y % 8], 2 * (x % 8), 2)

FlippedPixel(character, x, y, horizontal, vertical) ==
  Pixel(character, IF horizontal THEN 7 - (x % 8) ELSE x,
                   IF vertical THEN 7 - (y % 8) ELSE y)

\* How a cell or an object shows its character.
Look(half) == [character |-> BitField(half, 0, 11), palette |-> BitField(half, 14, 2),
               horizontal_flip |-> Flag(half, 13), vertical_flip |-> Flag(half, 12)]

CellAddress(map, cell) == BG_MAPS + (map % 16) * BG_MAP_BYTES + (cell % BG_MAP_CELLS) * 2
CellAt(vip, map, cell) == Look(VipReadU16(vip, CellAddress(map, cell)))

-----------------------------------------------------------------------------
(* Objects.                                                                   *)

\* Not two's complement: only the very top is negative.
ObjectY(raw) == IF raw >= \hF8 THEN raw - 2^8 ELSE raw

DecodeObject(words) ==
  [x |-> SignedField(words[0], 10), y |-> ObjectY(words[2] % 2^8),
   parallax |-> SignedField(words[1], 10),
   left |-> Flag(words[1], 15), right |-> Flag(words[1], 14), look |-> Look(words[3])]

ObjectAddress(index) == OBJECT_ATTRIBUTES + (index % OBJECT_COUNT) * OBJECT_BYTES
ObjectAt(vip, index) == DecodeObject(Halfwords(vip, ObjectAddress(index), 4))

-----------------------------------------------------------------------------
(* Worlds.                                                                    *)

WORLD_KINDS == <<"Normal", "HBias", "Affine", "Object">>

DecodeWorld(words) ==
  [kind |-> WORLD_KINDS[BitField(words[0], 12, 2) + 1],
   left |-> Flag(words[0], 15), right |-> Flag(words[0], 14),
   map_width_power |-> BitField(words[0], 10, 2), map_height_power |-> BitField(words[0], 8, 2),
   overplane |-> Flag(words[0], 7), end |-> Flag(words[0], 6), map_base |-> BitField(words[0], 0, 4),
   x |-> SignedField(words[1], 10), parallax |-> SignedField(words[2], 10),
   y |-> SignedField(words[3], 16),
   source_x |-> SignedField(words[4], 13), source_parallax |-> SignedField(words[5], 15),
   source_y |-> SignedField(words[6], 13),
   raw_width |-> words[7] % 2^13, raw_height |-> words[8],
   param_base |-> words[9], overplane_character |-> words[10]]

WorldAddress(index) == WORLD_ATTRIBUTES + (index % WORLD_COUNT) * WORLD_BYTES
WorldAt(vip, index) == DecodeWorld(Halfwords(vip, WorldAddress(index), 16))

Width(world) == IF world.kind = "Affine" THEN (world.raw_width % 2^10) + 1
                                         ELSE SignedField(world.raw_width, 13) + 1

\* A background is never shorter than a character.
Height(world) ==
  LET height == SignedField(world.raw_height, 16) + 1
  IN  IF world.kind \in {"Normal", "HBias"} /\ height < 8 THEN 8 ELSE height

MapCount(world) == 2^world.map_width_power * 2^world.map_height_power

\* Mutant: no more maps than there are, but as many as the powers say.
EffectiveBaseWide(world) == world.map_base - (world.map_base % MapCount(world))
\* A background of more than eight maps is taken for one of eight.
EffectiveBase(world) ==
  LET span == IF MapCount(world) < 8 THEN MapCount(world) ELSE 8
  IN  world.map_base - (world.map_base % span)

ParamAddress(world)     == BG_MAPS + world.param_base * 2
OverplaneAddress(world) == BG_MAPS + world.overplane_character * 2

\* Where each eye sees an object or a world, and what of the background.
LeftX(record)  == record.x - record.parallax
RightX(record) == record.x + record.parallax
LeftSource(world)  == world.source_x - world.source_parallax
RightSource(world) == world.source_x + world.source_parallax

-----------------------------------------------------------------------------
(* The parameters of the rows of a world, and the columns of the mirrors.     *)

\* A base that is not a multiple of four gives the right eye the left offset.
HBiasAt(vip, param_address, row) ==
  LET left == param_address + row * HBIAS_BYTES
  IN  [left  |-> SignedField(VipReadU16(vip, left), 13),
       right |-> SignedField(VipReadU16(vip, Joined(left, 2)), 13)]

\* Fields of a base that is not a multiple of sixteen fall on each other.
AffineAt(vip, param_address, row) ==
  LET Parameter(index) ==
        SignedField(VipReadU16(vip, Joined(param_address + row * AFFINE_BYTES, 2 * index)), 16)
  IN  [source_x |-> Parameter(0), parallax |-> Parameter(1), source_y |-> Parameter(2),
       direction_x |-> Parameter(3), direction_y |-> Parameter(4)]

\* Only one eye is shifted, by a distance that is never negative.
ColumnSource(affine, column, right_eye) ==
  LET shifted == CASE affine.parallax < 0 /\ ~right_eye -> column - affine.parallax
                   [] affine.parallax >= 0 /\ right_eye -> column + affine.parallax
                   [] OTHER -> column
  IN  <<affine.source_x + affine.direction_x * shifted,
        affine.source_y + affine.direction_y * shifted>>

ColumnAddress(right_eye, index) ==
  (IF right_eye THEN RIGHT_COLUMN_TABLE ELSE LEFT_COLUMN_TABLE) + (index % COLUMN_ENTRIES) * 2

\* The repeats and the length stand for one more than they say.
ColumnAt(vip, right_eye, index) ==
  LET raw == VipReadU16(vip, ColumnAddress(right_eye, index))
  IN  [pulses |-> BitField(raw, 8, 8) + 1, duration |-> BitField(raw, 0, 8) + 1]
=============================================================================
