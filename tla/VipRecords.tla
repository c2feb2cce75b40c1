------------------------------ MODULE VipRecords ------------------------------
(* What a renderer may rely on when it reads the records a program has left   *)
(* in video memory.                                                           *)
EXTENDS LoadStore, VipStructures

CONSTANTS Worlds, Objects,  \* the records that are looked at,
          BackgroundCells,  \*   of the cells, <<map, cell>>
          Columns,          \*   of the column tables
          Rows              \*   and of the parameters of a world

ASSUME RecordsAssumption ==
  /\ Worlds \subseteq Nat /\ Objects \subseteq Nat
  /\ BackgroundCells \subseteq Nat \X Nat
  /\ Columns \subseteq Nat /\ Rows \subseteq Nat

Written(address) == address \in DOMAIN bus.vip.vram
SignedRange(bits) == (-(2^(bits - 1)))..(2^(bits - 1) - 1)
Modulo(value, bits) == value % 2^bits
Bit(bit, set) == IF set THEN 2^bit ELSE 0

-----------------------------------------------------------------------------
(* Halfwords from the fields of a record, and the bits that are in a field.   *)

LookHalf(look) == look.character + Bit(12, look.vertical_flip) + Bit(13, look.horizontal_flip)
                    + 2^14 * look.palette
LookBits == (0..15) \ {11}

ObjectHalfwords(object) ==
  <<Modulo(object.x, 10),
    Modulo(object.parallax, 10) + Bit(14, object.right) + Bit(15, object.left),
    Modulo(object.y, 8), LookHalf(object.look)>>
ObjectBits == <<0..9, (0..9) \cup {14, 15}, 0..7, LookBits>>

WorldHeader(world) ==
  world.map_base + Bit(6, world.end) + Bit(7, world.overplane) + 2^8 * world.map_height_power
    + 2^10 * world.map_width_power + Bit(14, world.right) + Bit(15, world.left)
    + 2^12 * ((CHOOSE k \in DOMAIN WORLD_KINDS : WORLD_KINDS[k] = world.kind) - 1)

WorldHalfwords(world) ==
  <<WorldHeader(world), Modulo(world.x, 10), Modulo(world.parallax, 10), Modulo(world.y, 16),
    Modulo(world.source_x, 13), Modulo(world.source_parallax, 15), Modulo(world.source_y, 13),
    world.raw_width, world.raw_height, world.param_base, world.overplane_character>>
WorldBits == <<(0..15) \ {4, 5}, 0..9, 0..9, 0..15, 0..12, 0..14, 0..12, 0..12, 0..15, 0..15, 0..15>>

\* The halfwords a program wrote from an address on, but for meaningless bits.
Spells(halfwords, bits, address) ==
  \A k \in DOMAIN halfwords :
    Bits(halfwords[k]) = bits[k] \cap Bits(VipReadU16(bus.vip, address + 2 * (k - 1)))

DrawnWorlds  == {WorldAt(bus.vip, index) : index \in {i \in Worlds : Written(WorldAddress(i))}}
DrawnObjects == {index \in Objects : Written(ObjectAddress(index))}
DrawnCells   == {cell \in BackgroundCells : Written(CellAddress(cell[1], cell[2]))}
DrawnColumns == {entry \in BOOLEAN \X Columns : Written(ColumnAddress(entry[1], entry[2]))}

\* The fields of a record give back every bit that means something, each in
\* its range: a coordinate is signed as wide as its field, but for the height
\* of an object, which is negative only at the very top.
FieldsLoseNothing ==
  /\ \A index \in {i \in Worlds : Written(WorldAddress(i))} :
       LET world == WorldAt(bus.vip, index)
       IN  /\ Spells(WorldHalfwords(world), WorldBits, WorldAddress(index))
           /\ world.x \in SignedRange(10) /\ world.parallax \in SignedRange(10)
           /\ world.source_x \in SignedRange(13) /\ world.source_y \in SignedRange(13)
           /\ world.source_parallax \in SignedRange(15) /\ world.y \in SignedRange(16)
  /\ \A index \in DrawnObjects :
       LET object == ObjectAt(bus.vip, index)
       IN  /\ Spells(ObjectHalfwords(object), ObjectBits, ObjectAddress(index))
           /\ object.x \in SignedRange(10) /\ object.parallax \in SignedRange(10)
           /\ object.y \in -8..247
  /\ \A cell \in DrawnCells :
       Spells(<<LookHalf(CellAt(bus.vip, cell[1], cell[2]))>>, <<LookBits>>,
              CellAddress(cell[1], cell[2]))
  /\ \A entry \in DrawnColumns :
       LET column == ColumnAt(bus.vip, entry[1], entry[2])
       IN  Spells(<<2^8 * (column.pulses - 1) + column.duration - 1>>, <<0..15>>,
                  ColumnAddress(entry[1], entry[2]))

\* A background has the map it names among its maps, starts at a multiple of
\* their number, takes no more than there are, however large it says it is, and
\* is as high as a character, whatever it says; and what a world refers to is
\* in the part of video memory that the maps are in.
BackgroundsHaveTheirMaps ==
  \A world \in DrawnWorlds :
    LET maps == IF MapCount(world) > 8 THEN 8 ELSE MapCount(world)
        base == EffectiveBase(world)
    IN  /\ base % maps = 0 /\ world.map_base \in base..(base + maps - 1)
        /\ CellAddress(base + maps - 1, BG_MAP_CELLS - 1) = BG_MAPS + (base + maps) * BG_MAP_BYTES - 2
        /\ world.kind \in {"Normal", "HBias"} => Height(world) \in 8..2^15
        /\ {ParamAddress(world), OverplaneAddress(world)} \subseteq BG_MAPS..(VRAM_LEN - 2)

\* The parameters of a row are read from that row, each at its place in an
\* aligned table; in another they fall on each other rather than leave the
\* sixteen bytes, or four, that the row starts in.
ParametersAreOfTheirRow ==
  \A world \in DrawnWorlds, row \in Rows :
    LET table     == ParamAddress(world)
        At(k, bytes) == VipReadU16(bus.vip, table + row * bytes + 2 * k)
        Offset(k) == SignedField(At(k, HBIAS_BYTES), 13)
        bias      == HBiasAt(bus.vip, table, row)
        affine    == AffineAt(bus.vip, table, row)
        fields    == <<affine.source_x, affine.parallax, affine.source_y,
                       affine.direction_x, affine.direction_y>>
    IN  /\ bias.left = Offset(0)
        /\ bias.right = Offset(IF table % HBIAS_BYTES = 0 THEN 1 ELSE 0)
        /\ \A k \in 0..4 :
             \E j \in 0..k : /\ fields[k + 1] = SignedField(At(j, AFFINE_BYTES), 16)
                             /\ (table % AFFINE_BYTES) + 2 * j < AFFINE_BYTES
                             /\ table % AFFINE_BYTES = 0 => j = k

\* The eyes see a world, an object and the source of a world a parallax to
\* either side of it.  Of an affine row the right eye sees what the left eye
\* does moved by the parallax along the direction, whichever eye is moved.
EyesAreAParallaxApart ==
  /\ \A record \in DrawnWorlds \cup {ObjectAt(bus.vip, index) : index \in DrawnObjects} :
       RightX(record) - LeftX(record) = 2 * record.parallax /\ RightX(record) + LeftX(record) = 2 * record.x
  /\ \A world \in DrawnWorlds :
       RightSource(world) - LeftSource(world) = 2 * world.source_parallax
  /\ \A world \in {w \in DrawnWorlds : w.kind = "Affine"}, row \in Rows :
       LET affine == AffineAt(bus.vip, ParamAddress(world), row)
       IN  \A column \in {0, Width(world) - 1} :
          LET left  == ColumnSource(affine, column, FALSE)
              right == ColumnSource(affine, column, TRUE)
          IN  /\ right[1] - left[1] = affine.parallax * affine.direction_x
              /\ right[2] - left[2] = affine.parallax * affine.direction_y

\* Where the dots of a character are among the four tables: four to a byte.
DotAddress(character, x, y) ==
  CHARACTER_TABLE_0 + (character \div 512) * CHARACTER_TABLE_STRIDE
    + (character % 512) * CHARACTER_BYTES + 2 * y + x \div 4
Dot(character, x, y) ==
  (Peek(bus.vip.vram, DotAddress(character, x, y)) \div 4^(x % 4)) % 4

\* The dots of an object are those of its character's table, mirrored as it
\* says.
DotsAreOfTheirTable ==
  \A index \in DrawnObjects :
    LET look == ObjectAt(bus.vip, index).look
        character == CharacterAt(bus.vip, look.character)
    IN  \A x, y \in 0..7 :
          FlippedPixel(character, x, y, look.horizontal_flip, look.vertical_flip) =
            Dot(look.character, IF look.horizontal_flip THEN 7 - x ELSE x,
                                IF look.vertical_flip THEN 7 - y ELSE y)

\* A renderer finds in the records what the program wrote.
RecordsShowMemory ==
  /\ FieldsLoseNothing
  /\ BackgroundsHaveTheirMaps
  /\ ParametersAreOfTheirRow
  /\ EyesAreAParallaxApart
  /\ DotsAreOfTheirTable
=============================================================================
