------------------------------ MODULE BitString ------------------------------
(* The bit string instructions, src/crates/vb-core/src/cpu/bitstring.rs.      *)
(*                                                                            *)
(* A string operation works through one destination word per call, a search   *)
(* through one source word, and the program counter stays where it is until   *)
(* the call reports the string done (cpu/exec.rs), so that interrupts land    *)
(* between two calls.  All progress is in registers r26 to r30 and memory.    *)
(*                                                                            *)
(* Memory is one mirrored region, a set of the numbers of the bits that are   *)
(* one; bit 0 is the lowest of the first word.  A pass reads every source bit *)
(* before it writes its one destination word, so it is written in closed      *)
(* form: bit i of the pass is bit offset + i, counted from the word.          *)
EXTENDS Integers

CONSTANTS
  WORD_BITS,   \* 32
  WORD_BYTES,  \* 4: the alignment of a word address
  WORDS,       \* size of the memory in words
  MODULUS,     \* 2^32: registers wrap
  \* The registers an instruction may start with, few enough to enumerate.
  Addresses, Offsets, Lengths

ASSUME SizesAssumption ==
  /\ {WORD_BITS, WORD_BYTES, WORDS, MODULUS} \subseteq Nat \ {0}
  /\ MODULUS % (WORDS * WORD_BYTES) = 0
  /\ WORD_BITS <= MODULUS
ASSUME StartAssumption == Addresses \cup Offsets \cup Lengths \subseteq 0..(MODULUS - 1)

StringOp == {"Orbsu", "Andbsu", "Xorbsu", "Movbsu", "Ornbsu", "Andnbsu", "Xornbsu", "Notbsu"}
SearchOp == {"Sch0bsu", "Sch0bsd", "Sch1bsu", "Sch1bsd"}

\* The direction of a search, and the bit it looks for.
Way(search)    == IF search \in {"Sch0bsu", "Sch1bsu"} THEN 1 ELSE -1
Wanted(search) == search \in {"Sch1bsu", "Sch1bsd"}

Register == 0..(MODULUS - 1)
RegisterFile ==
  [src_word : Register, src_offset : Register,
   dst_word : Register,  \* of a search, the count of bits skipped
   dst_offset : Register, length : Register]

MemoryBits == 0..(WORDS * WORD_BITS - 1)

VARIABLES memory,    \* SUBSET MemoryBits
          operands,  \* registers r26 to r30
          zero,      \* the zero flag
          op,        \* the instruction at the program counter
          done       \* the program counter has moved past it

vars == <<memory, operands, zero, op, done>>

-----------------------------------------------------------------------------
\* The bit of memory `offset' bits after the first of a word, through mirrors.
Bit(word, offset) == ((word \div WORD_BYTES) * WORD_BITS + offset) % (WORDS * WORD_BITS)

Combine(operation, src, dst) ==
  CASE operation = "Orbsu"   -> dst \/ src
    [] operation = "Andbsu"  -> dst /\ src
    [] operation = "Xorbsu"  -> dst # src
    [] operation = "Movbsu"  -> src
    [] operation = "Ornbsu"  -> dst \/ ~src
    [] operation = "Andnbsu" -> dst /\ ~src
    [] operation = "Xornbsu" -> dst = src
    [] operation = "Notbsu"  -> ~src

Aligned(word) == word - (word % WORD_BYTES)

NormaliseSource(r) ==
  [r EXCEPT !.src_word = Aligned(@), !.src_offset = @ % WORD_BITS]
NormaliseDestination(r) ==
  [r EXCEPT !.dst_word = Aligned(@), !.dst_offset = @ % WORD_BITS]

\* A position, `count' bits on (back, when negative).  Mutant: the word stays.
WordAfterStaying(word, offset, count) == word
WordAfter(word, offset, count) ==
  (word + WORD_BYTES * ((offset + count) \div WORD_BITS)) % MODULUS
OffsetAfter(offset, count) == (offset + count) % WORD_BITS

\* Bits left to the end of a word, in either direction.  Mutant: the last bit
\* of the word is forgotten.
RoomShort(offset, way) == IF way = 1 THEN WORD_BITS - 1 - offset ELSE offset
Room(offset, way) == IF way = 1 THEN WORD_BITS - offset ELSE offset + 1

\* Mutant: the count starts over with each word.
SkippedAfresh(count, skipped) == skipped
AddSkipped(count, skipped) == (count + skipped) % MODULUS

Smaller(a, b) == IF a < b THEN a ELSE b
Least(S) == CHOOSE i \in S : \A j \in S : i <= j

-----------------------------------------------------------------------------
Start == [src_word : Addresses, src_offset : Offsets, dst_word : Addresses,
          dst_offset : Offsets, length : Lengths]

\* Software has prepared the registers and reached an instruction.
Init == /\ memory \in SUBSET MemoryBits
        /\ operands \in Start
        /\ zero \in BOOLEAN
        /\ op \in StringOp \cup SearchOp
        /\ done = FALSE

\* One destination word.  A string of length zero is a pass over no bits.
StepBitString ==
  /\ ~done /\ op \in StringOp
  /\ LET r == NormaliseDestination(NormaliseSource(operands))
         count == Smaller(Room(r.dst_offset, 1), r.length)
         Src(i) == Bit(r.src_word, r.src_offset + i)
         Dst(i) == Bit(r.dst_word, r.dst_offset + i)
         ones == {i \in 0..(count - 1) : Combine(op, Src(i) \in memory, Dst(i) \in memory)}
     IN  /\ memory' = (memory \ {Dst(i) : i \in 0..(count - 1)}) \cup {Dst(i) : i \in ones}
         /\ operands' = [src_word   |-> WordAfter(r.src_word, r.src_offset, count),
                         src_offset |-> OffsetAfter(r.src_offset, count),
                         dst_word   |-> WordAfter(r.dst_word, r.dst_offset, count),
                         dst_offset |-> OffsetAfter(r.dst_offset, count),
                         length     |-> r.length - count]
         /\ done' = (count = r.length)
  /\ UNCHANGED <<zero, op>>

\* One source word, or less when the bit is found: the search then stops one
\* bit beyond it.
StepBitSearch ==
  /\ ~done /\ op \in SearchOp
  /\ LET r == NormaliseSource(operands)
         count == Smaller(Room(r.src_offset, Way(op)), r.length)
         hits == {i \in 0..(count - 1) :
                    (Bit(r.src_word, r.src_offset + Way(op) * i) \in memory) = Wanted(op)}
         found == hits # {}
         skipped == IF found THEN Least(hits) ELSE count
         moved == IF found THEN skipped + 1 ELSE skipped
     IN  /\ operands' = [r EXCEPT
                           !.src_word   = WordAfter(@, r.src_offset, Way(op) * moved),
                           !.src_offset = OffsetAfter(@, Way(op) * moved),
                           !.dst_word   = AddSkipped(@, skipped),
                           !.length     = @ - moved]
         /\ zero' = ~found
         /\ done' = (found \/ moved = r.length)
  /\ UNCHANGED <<memory, op>>

Pass == StepBitString \/ StepBitSearch

\* Other code stores to memory: an interrupt handler between two passes, or
\* the program once the instruction is done.
Store(bit) ==
  /\ memory' = IF bit \in memory THEN memory \ {bit} ELSE memory \cup {bit}
  /\ UNCHANGED <<operands, zero, op, done>>

Next == Pass \/ \E bit \in MemoryBits : Store(bit)

Spec == Init /\ [][Next]_vars

-----------------------------------------------------------------------------
\* Registers keep their width through wrapping addresses and counts.
TypeOK == /\ memory \subseteq MemoryBits
          /\ operands \in RegisterFile
          /\ zero \in BOOLEAN
          /\ op \in StringOp \cup SearchOp
          /\ done \in BOOLEAN
=============================================================================
