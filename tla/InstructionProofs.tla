-------------------------- MODULE InstructionProofs --------------------------
(* Proofs about the instructions that have an algorithm of their own.  Bit    *)
(* strings, for every width of a word, every size of the memory and of the    *)
(* registers and every string: an instruction that is interrupted between its *)
(* passes leaves what it was to leave.  Floating point, for every width of    *)
(* the exponent and of the fraction: a comparison tells the order of the      *)
(* numbers, a result is the nearest number of the format although it was      *)
(* calculated in a wider one, and no loss goes without its flag.              *)
EXTENDS BitStringResult, FpuHistory, Arithmetic

-----------------------------------------------------------------------------
(* Positions.  A word address and a bit offset are a position; addresses wrap *)
(* after a whole number of mirrors of the memory, so that a position moves on *)
(* the same way however its registers wrap.                                   *)

\* The words of the address space are a whole number of memories.
LEMMA AddressSpace ==
  /\ WORD_BITS \in Nat \ {0} /\ WORD_BYTES \in Nat \ {0}
  /\ WORDS \in Nat \ {0} /\ MODULUS \in Nat \ {0}
  /\ WORDS * WORD_BITS \in Nat \ {0}
  /\ \E mirrors \in Nat \ {0} : /\ WORDS * mirrors \in Nat \ {0}
                                /\ MODULUS = WORD_BYTES * (WORDS * mirrors)
<1>1. /\ WORD_BITS \in Nat \ {0} /\ WORD_BYTES \in Nat \ {0}
      /\ WORDS \in Nat \ {0} /\ MODULUS \in Nat \ {0}
      /\ MODULUS % (WORDS * WORD_BYTES) = 0
  BY SizesAssumption
<1> DEFINE size == WORDS * WORD_BYTES
           mirrors == MODULUS \div size
<1>2. size \in Nat \ {0} /\ WORDS * WORD_BITS \in Nat \ {0}
  BY <1>1
<1> HIDE DEF size
<1>3. mirrors \in Int /\ MODULUS = size * mirrors + (MODULUS % size)
  BY <1>1, <1>2, Divided
<1>4. MODULUS = size * mirrors
  BY <1>1, <1>2, <1>3 DEF size
<1> HIDE DEF mirrors
<1>5. mirrors \in Nat \ {0}
  <2> SUFFICES ASSUME mirrors <= 0 PROVE FALSE
    BY <1>3
  <2>1. size * mirrors <= size * 0
    BY <1>2, <1>3, ProductMonotone
  <2>2. size * 0 = 0
    BY <1>2
  <2>3. QED
    BY <1>1, <1>4, <2>1, <2>2
<1>6. WORDS * mirrors \in Nat \ {0}
  BY <1>1, <1>5
<1>7. size * mirrors = WORD_BYTES * (WORDS * mirrors)
  BY <1>1, <1>5 DEF size
<1>8. QED
  BY <1>1, <1>2, <1>4, <1>5, <1>6, <1>7

\* A remainder is scaled with what it is a remainder of.
LEMMA ScaledRemainder ==
  ASSUME NEW b \in Nat \ {0}, NEW c \in Nat \ {0}, NEW a \in Int
  PROVE  (b * a) % (b * c) = b * (a % c)
<1> DEFINE q == a \div c
           r == a % c
           n == b * c
           s == b * r
           x == b * a
<1>1. q \in Int /\ r \in 0..(c - 1) /\ a = c * q + r
  BY Divided
<1> HIDE DEF q, r
<1>2. b * r <= b * (c - 1) /\ b * (c - 1) = b * c - b
  <2>1. r \in Int /\ c - 1 \in Int /\ r <= c - 1
    BY <1>1
  <2>2. b * r <= b * (c - 1)
    BY <2>1, ProductMonotone
  <2>3. QED
    BY <2>2
<1>3. n \in Nat \ {0} /\ s \in Nat /\ x \in Int
  BY <1>1
<1>4. s \in 0..(n - 1)
  BY <1>2, <1>3
<1>5. x = n * q + s
  BY <1>1
<1> HIDE DEF n, s, x
<1>6. x % n = s
  BY <1>1, <1>3, <1>4, <1>5, Division
<1>7. QED
  BY <1>6 DEF n, s, x, r

\* The word after a position is that of its number of words.
LEMMA WordNumber ==
  ASSUME NEW space \in Nat \ {0}, MODULUS = WORD_BYTES * space, NEW k \in Int, NEW d \in Int
  PROVE  (WORD_BYTES * k + WORD_BYTES * d) % MODULUS = WORD_BYTES * ((k + d) % space)
<1>1. WORD_BYTES \in Nat \ {0}
  BY AddressSpace
<1>2. k + d \in Int
  OBVIOUS
<1>3. (WORD_BYTES * (k + d)) % (WORD_BYTES * space) = WORD_BYTES * ((k + d) % space)
  BY <1>1, <1>2, ScaledRemainder
<1>4. WORD_BYTES * (k + d) = WORD_BYTES * k + WORD_BYTES * d
  BY <1>1
<1>5. QED
  BY <1>3, <1>4

\* Where a position has moved to: it goes on from there, in bits, words and
\* offsets, as it would have from where it was.
GoesOn(w, o, word, offset, n) ==
  \A m \in Int : /\ Bit(w, o + m) = Bit(word, offset + (n + m))
                 /\ WordAfter(w, o, m) = WordAfter(word, offset, n + m)
                 /\ OffsetAfter(o, m) = OffsetAfter(offset, n + m)

IsPosition(w, o) == w \in Register /\ w % WORD_BYTES = 0 /\ o \in 0..(WORD_BITS - 1)

Moves(word, offset, n) ==
  /\ IsPosition(WordAfter(word, offset, n), OffsetAfter(offset, n))
  /\ GoesOn(WordAfter(word, offset, n), OffsetAfter(offset, n), word, offset, n)

LEMMA PositionMoves ==
  ASSUME NEW word \in Register, word % WORD_BYTES = 0, NEW offset \in Int, NEW n \in Int
  PROVE  Moves(word, offset, n)
<1> DEFINE k == word \div WORD_BYTES
           from == offset + n
           d == from \div WORD_BITS
           o == from % WORD_BITS
<1>1. /\ WORD_BITS \in Nat \ {0} /\ WORD_BYTES \in Nat \ {0}
      /\ WORDS \in Nat \ {0} /\ MODULUS \in Nat \ {0}
      /\ WORDS * WORD_BITS \in Nat \ {0}
  BY AddressSpace
<1>2. PICK mirrors \in Nat \ {0} : /\ WORDS * mirrors \in Nat \ {0}
                                   /\ MODULUS = WORD_BYTES * (WORDS * mirrors)
  BY AddressSpace
<1> DEFINE space == WORDS * mirrors
           kk == (k + d) % space
           q == (k + d) \div space
           w == WORD_BYTES * kk
<1>3. space \in Nat \ {0} /\ MODULUS = WORD_BYTES * space
  BY <1>2
<1>4. word \in Int /\ k \in Int /\ word = WORD_BYTES * k
  <2>1. word \in Int
    BY <1>1 DEF Register
  <2>2. k \in Int /\ word = WORD_BYTES * k + (word % WORD_BYTES)
    BY <1>1, <2>1, Divided
  <2>3. WORD_BYTES * k \in Int
    BY <1>1, <2>2
  <2>4. QED
    BY <2>1, <2>2, <2>3
<1>5. from \in Int /\ d \in Int /\ o \in 0..(WORD_BITS - 1) /\ from = WORD_BITS * d + o
  <2>1. from \in Int
    OBVIOUS
  <2>2. QED
    BY <1>1, <2>1, Divided
<1> HIDE DEF k, d, o
<1>6. k + d \in Int /\ q \in Int /\ kk \in 0..(space - 1) /\ k + d = space * q + kk
  <2>1. k + d \in Int
    BY <1>4, <1>5
  <2>2. QED
    BY <1>3, <2>1, Divided
<1>7. WordAfter(word, offset, n) = w /\ OffsetAfter(offset, n) = o
  <2>1. (WORD_BYTES * k + WORD_BYTES * d) % MODULUS = WORD_BYTES * ((k + d) % space)
    BY <1>3, <1>4, <1>5, WordNumber
  <2>2. QED
    BY <1>4, <2>1 DEF WordAfter, OffsetAfter, d, o
<1> HIDE DEF kk, q
<1>8. w \div WORD_BYTES = kk /\ w % WORD_BYTES = 0
  <2>1. kk \in Int /\ 0 \in 0..(WORD_BYTES - 1)
    BY <1>1, <1>3, <1>6
  <2>2. (WORD_BYTES * kk + 0) \div WORD_BYTES = kk /\ (WORD_BYTES * kk + 0) % WORD_BYTES = 0
    BY <1>1, <2>1, DivisionOf
  <2>3. WORD_BYTES * kk + 0 = w
    BY <1>1, <2>1
  <2>4. QED
    BY <2>2, <2>3
<1>9. w \in Register
  <2>1. kk \in Int /\ space - 1 \in Int /\ kk <= space - 1 /\ kk >= 0
    BY <1>3, <1>6
  <2>2. WORD_BYTES * kk <= WORD_BYTES * (space - 1)
    BY <1>1, <2>1, ProductMonotone
  <2>3. WORD_BYTES * (space - 1) = MODULUS - WORD_BYTES
    BY <1>1, <1>3
  <2>4. w \in Nat
    BY <1>1, <2>1
  <2>5. QED
    BY <1>1, <2>2, <2>3, <2>4 DEF Register
<1> HIDE DEF w
<1>10. ASSUME NEW m \in Int
       PROVE  Bit(w, o + m) = Bit(word, offset + (n + m))
  <2> DEFINE near == kk * WORD_BITS + (o + m)
             far == k * WORD_BITS + (offset + (n + m))
             round == mirrors * q
  <2>1. near \in Int /\ round \in Int
    BY <1>1, <1>2, <1>3, <1>5, <1>6
  <2>2. far = near + (WORDS * WORD_BITS) * round
    <3>1. far = WORD_BITS * (k + d) + (o + m)
      BY <1>1, <1>4, <1>5
    <3>2. WORD_BITS * (k + d) = WORD_BITS * (space * q) + WORD_BITS * kk
      BY <1>1, <1>3, <1>6
    <3>3. WORD_BITS * (space * q) = (WORDS * WORD_BITS) * round
      BY <1>1, <1>2, <1>6
    <3>4. kk * WORD_BITS = WORD_BITS * kk /\ WORD_BITS * kk \in Int
      BY <1>1, <1>3, <1>6
    <3>5. (WORDS * WORD_BITS) * round \in Int /\ o + m \in Int
      BY <1>1, <1>5, <2>1
    <3> HIDE DEF far, round, space
    <3>6. QED
      BY <3>1, <3>2, <3>3, <3>4, <3>5
  <2>3. Bit(w, o + m) = near % (WORDS * WORD_BITS)
    BY <1>8 DEF Bit
  <2>4. Bit(word, offset + (n + m)) = far % (WORDS * WORD_BITS)
    BY DEF Bit, k
  <2> HIDE DEF near, far, round
  <2>5. (near + (WORDS * WORD_BITS) * round) % (WORDS * WORD_BITS) = near % (WORDS * WORD_BITS)
    BY <1>1, <2>1, RemainderOfSum
  <2>6. QED
    BY <2>2, <2>3, <2>4, <2>5
<1>11. ASSUME NEW m \in Int
       PROVE  /\ WordAfter(w, o, m) = WordAfter(word, offset, n + m)
              /\ OffsetAfter(o, m) = OffsetAfter(offset, n + m)
  <2> DEFINE e == (o + m) \div WORD_BITS
             all == offset + (n + m)
  <2>1. o + m \in Int /\ e \in Int
    <3>1. o + m \in Int
      BY <1>1, <1>5
    <3>2. QED
      BY <1>1, <3>1, Divided
  <2>2. all = WORD_BITS * d + (o + m)
    BY <1>1, <1>5
  <2>3. all \div WORD_BITS = d + e /\ all % WORD_BITS = (o + m) % WORD_BITS
    BY <1>1, <1>5, <2>1, <2>2, QuotientOfSum
  <2> HIDE DEF e, all
  <2>4. WordAfter(w, o, m) = WORD_BYTES * ((kk + e) % space)
    <3>1. kk \in Int
      BY <1>3, <1>6
    <3>2. (WORD_BYTES * kk + WORD_BYTES * e) % MODULUS = WORD_BYTES * ((kk + e) % space)
      BY <1>3, <2>1, <3>1, WordNumber
    <3>3. QED
      BY <3>2 DEF WordAfter, w, e
  <2>5. WordAfter(word, offset, n + m) = WORD_BYTES * ((k + (d + e)) % space)
    <3>1. d + e \in Int
      BY <1>5, <2>1
    <3>2. (WORD_BYTES * k + WORD_BYTES * (d + e)) % MODULUS = WORD_BYTES * ((k + (d + e)) % space)
      BY <1>3, <1>4, <3>1, WordNumber
    <3>3. WordAfter(word, offset, n + m) = (word + WORD_BYTES * (all \div WORD_BITS)) % MODULUS
      BY DEF WordAfter, all
    <3>4. QED
      BY <1>4, <2>3, <3>2, <3>3
  <2>6. (k + (d + e)) % space = (kk + e) % space
    <3>1. kk + e \in Int /\ k + (d + e) = (kk + e) + space * q
      <4>1. space * q \in Int /\ kk \in Int
        BY <1>3, <1>6
      <4>2. QED
        BY <1>4, <1>5, <1>6, <2>1, <4>1
    <3>2. ((kk + e) + space * q) % space = (kk + e) % space
      BY <1>3, <1>6, <3>1, RemainderOfSum
    <3>3. QED
      BY <3>1, <3>2
  <2>7. OffsetAfter(o, m) = OffsetAfter(offset, n + m)
    BY <2>3 DEF OffsetAfter, all
  <2>8. QED
    BY <2>4, <2>5, <2>6, <2>7
<1>12. IsPosition(w, o)
  BY <1>5, <1>8, <1>9 DEF IsPosition
<1>13. GoesOn(w, o, word, offset, n)
  BY <1>10, <1>11 DEF GoesOn
<1>14. QED
  BY <1>7, <1>12, <1>13 DEF Moves

\* Any two registers name a position: the address is rounded down to a word,
\* the offset taken within one.
LEMMA NamedPosition ==
  ASSUME NEW word \in Register, NEW offset \in Int
  PROVE  /\ IsPosition(Aligned(word), offset % WORD_BITS)
         /\ Aligned(word) = WORD_BYTES * (word \div WORD_BYTES)
         /\ Aligned(word) \div WORD_BYTES = word \div WORD_BYTES
         /\ word \div WORD_BYTES \in Int
<1>1. WORD_BITS \in Nat \ {0} /\ WORD_BYTES \in Nat \ {0} /\ MODULUS \in Nat \ {0}
  BY AddressSpace
<1> DEFINE k == word \div WORD_BYTES
           x == word % WORD_BYTES
<1>2. word \in 0..(MODULUS - 1)
  BY DEF Register
<1>3. k \in Int /\ x \in 0..(WORD_BYTES - 1) /\ word = WORD_BYTES * k + x
  BY <1>1, <1>2, Divided
<1>4. Aligned(word) = WORD_BYTES * k
  <2>1. WORD_BYTES * k \in Int
    BY <1>1, <1>3
  <2>2. Aligned(word) = word - x
    BY DEF Aligned
  <2> HIDE DEF k, x
  <2>3. QED
    BY <1>3, <2>1, <2>2
<1> HIDE DEF k, x
<1>5. k >= 0
  <2> SUFFICES ASSUME k <= -1 PROVE FALSE
    BY <1>3
  <2>1. WORD_BYTES * k <= WORD_BYTES * (-1) /\ WORD_BYTES * (-1) = -WORD_BYTES
    BY <1>1, <1>3, ProductMonotone
  <2>2. QED
    BY <1>1, <1>2, <1>3, <2>1
<1>6. WORD_BYTES * k \in Nat
  BY <1>1, <1>3, <1>5
<1>7. Aligned(word) \in Register
  BY <1>1, <1>2, <1>3, <1>4, <1>6 DEF Register
<1>8. (WORD_BYTES * k) \div WORD_BYTES = k /\ (WORD_BYTES * k) % WORD_BYTES = 0
  <2>1. 0 \in 0..(WORD_BYTES - 1) /\ WORD_BYTES * k + 0 = WORD_BYTES * k
    BY <1>1, <1>6
  <2>2. (WORD_BYTES * k + 0) \div WORD_BYTES = k /\ (WORD_BYTES * k + 0) % WORD_BYTES = 0
    BY <1>1, <1>3, <2>1, DivisionOf
  <2>3. QED
    BY <2>1, <2>2
<1>9. offset % WORD_BITS \in 0..(WORD_BITS - 1)
  BY <1>1
<1>10. QED
  BY <1>3, <1>4, <1>7, <1>8, <1>9 DEF IsPosition, k

\* A position names itself.
LEMMA PositionNamesItself ==
  ASSUME NEW w, NEW o, IsPosition(w, o)
  PROVE  Aligned(w) = w /\ o % WORD_BITS = o
<1>1. /\ WORD_BITS \in Nat \ {0}
      /\ w \in Int /\ w % WORD_BYTES = 0 /\ o \in 0..(WORD_BITS - 1)
  BY AddressSpace DEF IsPosition, Register
<1>2. o % WORD_BITS = o
  BY <1>1
<1>3. QED
  BY <1>1, <1>2 DEF Aligned

\* Where a string ends is where its position has moved to.
LEMMA EndIsMoved ==
  ASSUME NEW word \in Register, NEW offset \in Int, NEW n \in Int
  PROVE  /\ EndWord(word, offset, n) = WordAfter(Aligned(word), offset % WORD_BITS, n)
         /\ EndOffset(offset, n) = OffsetAfter(offset % WORD_BITS, n)
<1>1. WORD_BITS \in Nat \ {0} /\ WORD_BYTES \in Nat \ {0} /\ MODULUS \in Nat \ {0}
  BY AddressSpace
<1> DEFINE k == word \div WORD_BYTES
           o == offset % WORD_BITS
           bits == (Aligned(word) \div WORD_BYTES) * WORD_BITS + o + n
           d == (o + n) \div WORD_BITS
<1>2. k \in Int /\ Aligned(word) = WORD_BYTES * k /\ Aligned(word) \div WORD_BYTES = k
  BY NamedPosition
<1>3. o \in Int /\ o + n \in Int /\ offset = WORD_BITS * (offset \div WORD_BITS) + o
      /\ offset \div WORD_BITS \in Int /\ d \in Int
  <2>1. /\ o \in 0..(WORD_BITS - 1) /\ offset \div WORD_BITS \in Int
        /\ offset = WORD_BITS * (offset \div WORD_BITS) + o
    BY <1>1, Divided
  <2>2. o \in Int /\ o + n \in Int
    BY <1>1, <2>1
  <2>3. d \in Int
    BY <1>1, <2>2, Divided
  <2>4. QED
    BY <2>1, <2>2, <2>3
<1> HIDE DEF k, o
<1>4. bits = WORD_BITS * k + (o + n)
  BY <1>1, <1>2, <1>3
<1>5. bits \div WORD_BITS = k + d
  BY <1>1, <1>2, <1>3, <1>4, QuotientOfSum
<1>6. EndWord(word, offset, n) = ((k + d) * WORD_BYTES) % MODULUS
  BY <1>5 DEF EndWord, o
<1>7. (k + d) * WORD_BYTES = WORD_BYTES * k + WORD_BYTES * d
  BY <1>1, <1>2, <1>3
<1>8. WordAfter(Aligned(word), o, n) = (WORD_BYTES * k + WORD_BYTES * d) % MODULUS
  BY <1>2 DEF WordAfter
<1>9. (offset + n) % WORD_BITS = (o + n) % WORD_BITS
  <2> DEFINE e == offset \div WORD_BITS
             sum == offset + n
  <2>1. e \in Int /\ sum = WORD_BITS * e + (o + n)
    BY <1>1, <1>3
  <2> HIDE DEF e, sum
  <2>2. sum % WORD_BITS = (o + n) % WORD_BITS
    BY <1>1, <1>3, <2>1, QuotientOfSum
  <2>3. QED
    BY <2>2 DEF sum
<1>10. QED
  BY <1>6, <1>7, <1>8, <1>9 DEF EndOffset, OffsetAfter, o

\* A string that is taken up where a pass has left it goes on as it would have.
TakenUp(w, o, word, offset, n) ==
  \A m \in Int :
    /\ Bit(Aligned(w), (o % WORD_BITS) + m) = Bit(Aligned(word), (offset % WORD_BITS) + (n + m))
    /\ EndWord(w, o, m) = EndWord(word, offset, n + m)
    /\ EndOffset(o, m) = EndOffset(offset, n + m)

LEMMA StringGoesOn ==
  ASSUME NEW word \in Register, NEW offset \in Int, NEW n \in Int
  PROVE  /\ IsPosition(EndWord(word, offset, n), EndOffset(offset, n))
         /\ TakenUp(EndWord(word, offset, n), EndOffset(offset, n), word, offset, n)
<1> DEFINE from == Aligned(word)
           first == offset % WORD_BITS
           w == EndWord(word, offset, n)
           o == EndOffset(offset, n)
<1>1. from \in Register /\ from % WORD_BYTES = 0 /\ first \in Int
  BY NamedPosition, AddressSpace DEF IsPosition
<1>2. w = WordAfter(from, first, n) /\ o = OffsetAfter(first, n)
  BY EndIsMoved
<1>3. Moves(from, first, n)
  <2> HIDE DEF from, first
  <2>1. QED
    BY <1>1, PositionMoves
<1>4. IsPosition(w, o) /\ GoesOn(w, o, from, first, n)
  BY <1>2, <1>3 DEF Moves
<1> HIDE DEF w, o
<1>5. Aligned(w) = w /\ o % WORD_BITS = o
  BY <1>4, PositionNamesItself
<1>6. w \in Register /\ o \in Int
  BY <1>4, AddressSpace DEF IsPosition
<1>7. ASSUME NEW m \in Int
      PROVE  /\ Bit(Aligned(w), (o % WORD_BITS) + m) = Bit(from, first + (n + m))
             /\ EndWord(w, o, m) = EndWord(word, offset, n + m)
             /\ EndOffset(o, m) = EndOffset(offset, n + m)
  <2>1. Bit(w, o + m) = Bit(from, first + (n + m))
    BY <1>4 DEF GoesOn
  <2>2. /\ EndWord(w, o, m) = WordAfter(w, o, m)
        /\ EndOffset(o, m) = OffsetAfter(o, m)
    BY <1>5, <1>6, EndIsMoved
  <2>3. /\ EndWord(word, offset, n + m) = WordAfter(from, first, n + m)
        /\ EndOffset(offset, n + m) = OffsetAfter(first, n + m)
    <3>1. n + m \in Int
      OBVIOUS
    <3>2. QED
      BY <3>1, EndIsMoved
  <2>4. /\ WordAfter(w, o, m) = WordAfter(from, first, n + m)
        /\ OffsetAfter(o, m) = OffsetAfter(first, n + m)
    BY <1>4 DEF GoesOn
  <2>5. QED
    BY <1>5, <2>1, <2>2, <2>3, <2>4
<1>8. TakenUp(w, o, word, offset, n)
  BY <1>7 DEF TakenUp
<1>9. QED
  BY <1>4, <1>8 DEF w, o

-----------------------------------------------------------------------------
(* A pass of a string operation: count bits of the destination.               *)

\* The registers it leaves.
Behind(r, count) ==
  [src_word   |-> EndWord(r.src_word, r.src_offset, count),
   src_offset |-> EndOffset(r.src_offset, count),
   dst_word   |-> EndWord(r.dst_word, r.dst_offset, count),
   dst_offset |-> EndOffset(r.dst_offset, count),
   length     |-> r.length - count]

\* The memory it leaves.
Combined(operation, r, mem, i) ==
  Combine(operation, SourceBit(r, 1, i) \in mem, DestinationBit(r, i) \in mem)

Overwritten(operation, r, mem, count) ==
  (mem \ {DestinationBit(r, i) : i \in 0..(count - 1)})
    \cup {DestinationBit(r, i) : i \in {j \in 0..(count - 1) : Combined(operation, r, mem, j)}}

\* The strings of rr are those of r without their first bits.
IsRest(r, rr, count) ==
  /\ rr.length = r.length - count
  /\ \A i \in Int : /\ SourceBit(rr, 1, i) = SourceBit(r, 1, count + i)
                    /\ DestinationBit(rr, i) = DestinationBit(r, count + i)

EndsAlike(r, rr, count) ==
  \A m \in Int : /\ EndWord(rr.src_word, rr.src_offset, m) = EndWord(r.src_word, r.src_offset, count + m)
                 /\ EndOffset(rr.src_offset, m) = EndOffset(r.src_offset, count + m)
                 /\ EndWord(rr.dst_word, rr.dst_offset, m) = EndWord(r.dst_word, r.dst_offset, count + m)
                 /\ EndOffset(rr.dst_offset, m) = EndOffset(r.dst_offset, count + m)

LEMMA OffsetsFit ==
  ASSUME NEW w, NEW o, IsPosition(w, o)
  PROVE  w \in Register /\ o \in Register
<1>1. WORD_BITS \in Nat \ {0} /\ MODULUS \in Nat \ {0} /\ WORD_BITS <= MODULUS
  BY SizesAssumption
<1>2. QED
  BY <1>1 DEF IsPosition, Register

LEMMA RestOfStrings ==
  ASSUME NEW r \in RegisterFile, NEW count \in Nat, count <= r.length
  PROVE  /\ Behind(r, count) \in RegisterFile
         /\ IsRest(r, Behind(r, count), count)
         /\ EndsAlike(r, Behind(r, count), count)
<1> DEFINE rr == Behind(r, count)
<1>1. MODULUS \in Nat \ {0}
  BY SizesAssumption
<1>2. /\ r.src_word \in Register /\ r.src_offset \in Register /\ r.src_offset \in Int
      /\ r.dst_word \in Register /\ r.dst_offset \in Register /\ r.dst_offset \in Int
      /\ r.length \in Register /\ r.length \in Nat
  BY <1>1 DEF RegisterFile, Register
<1>3. /\ IsPosition(rr.src_word, rr.src_offset)
      /\ TakenUp(rr.src_word, rr.src_offset, r.src_word, r.src_offset, count)
  BY <1>2, StringGoesOn DEF Behind
<1>4. /\ IsPosition(rr.dst_word, rr.dst_offset)
      /\ TakenUp(rr.dst_word, rr.dst_offset, r.dst_word, r.dst_offset, count)
  BY <1>2, StringGoesOn DEF Behind
<1>5. rr.length = r.length - count /\ rr.length \in Register
  BY <1>1, <1>2 DEF Behind, Register
<1>6. /\ rr.src_word \in Register /\ rr.src_offset \in Register
      /\ rr.dst_word \in Register /\ rr.dst_offset \in Register
  BY <1>3, <1>4, OffsetsFit
<1>7. rr \in RegisterFile
  BY <1>5, <1>6 DEF Behind, RegisterFile
<1> HIDE DEF rr
<1>8. IsRest(r, rr, count)
  <2>1. ASSUME NEW i \in Int
        PROVE  /\ SourceBit(rr, 1, i) = SourceBit(r, 1, count + i)
               /\ DestinationBit(rr, i) = DestinationBit(r, count + i)
    <3>1. 1 * i = i /\ 1 * (count + i) = count + i
      OBVIOUS
    <3>2. QED
      BY <1>3, <1>4, <3>1 DEF TakenUp, SourceBit, DestinationBit
  <2>2. QED
    BY <1>5, <2>1 DEF IsRest
<1>9. EndsAlike(r, rr, count)
  BY <1>3, <1>4 DEF TakenUp, EndsAlike
<1>10. QED
  BY <1>7, <1>8, <1>9 DEF rr

\* Bits are of the memory.
LEMMA BitsOfMemory ==
  ASSUME NEW r \in RegisterFile, NEW way \in {1, -1}, NEW i \in Int
  PROVE  SourceBit(r, way, i) \in MemoryBits /\ DestinationBit(r, i) \in MemoryBits
<1>1. /\ WORD_BITS \in Nat \ {0} /\ WORD_BYTES \in Nat \ {0} /\ MODULUS \in Nat \ {0}
      /\ WORDS * WORD_BITS \in Nat \ {0}
  BY AddressSpace
<1>2. ASSUME NEW word \in Register, NEW offset \in Int
      PROVE  Bit(word, offset) \in MemoryBits
  <2>1. word \div WORD_BYTES \in Int
    BY <1>1 DEF Register
  <2>2. (word \div WORD_BYTES) * WORD_BITS + offset \in Int
    BY <1>1, <2>1
  <2>3. QED
    BY <1>1, <2>2 DEF Bit, MemoryBits
<1>3. /\ Aligned(r.src_word) \in Register /\ Aligned(r.dst_word) \in Register
  <2>1. /\ r.src_word \in Register /\ r.dst_word \in Register
        /\ r.src_offset \in Int /\ r.dst_offset \in Int
    BY <1>1 DEF RegisterFile, Register
  <2>2. QED
    BY <2>1, NamedPosition DEF IsPosition
<1>4. /\ (r.src_offset % WORD_BITS) + way * i \in Int
      /\ (r.dst_offset % WORD_BITS) + i \in Int
  BY <1>1 DEF RegisterFile, Register
<1>5. QED
  BY <1>2, <1>3, <1>4 DEF SourceBit, DestinationBit

\* What a whole string leaves of a bit.
BitOfResult(operation, r, mem, bit) ==
  IF \E i \in Indices(r) : DestinationBit(r, i) = bit
  THEN \E i \in Indices(r) : /\ DestinationBit(r, i) = bit
                             /\ Combine(operation, SourceBit(r, 1, i) \in mem, bit \in mem)
  ELSE bit \in mem

\* Of strings that are not tangled, a bit is the destination of one index, and
\* of none when it is yet to be read.
LEMMA OneIndex ==
  ASSUME NEW operation \in StringOp, NEW r, r.length \in Nat, ~Tangled(operation, r),
         NEW i \in Indices(r), NEW j \in Indices(r)
  PROVE  /\ DestinationBit(r, i) = DestinationBit(r, j) => i = j
         /\ i < j => DestinationBit(r, i) # SourceBit(r, 1, j)
<1>1. i \in Int /\ j \in Int
  BY DEF Indices
<1>2. i < j => DestinationBit(r, i) \notin {SourceBit(r, 1, j), DestinationBit(r, j)}
  BY DEF Tangled
<1>3. j < i => DestinationBit(r, j) \notin {SourceBit(r, 1, i), DestinationBit(r, i)}
  BY DEF Tangled
<1>4. QED
  BY <1>1, <1>2, <1>3

LEMMA RestOfBit ==
  ASSUME NEW operation \in StringOp, NEW r \in RegisterFile, NEW count \in Nat,
         count <= r.length, NEW mem, ~Tangled(operation, r),
         NEW rr, IsRest(r, rr, count), NEW bit
  PROVE  BitOfResult(operation, rr, Overwritten(operation, r, mem, count), bit)
           <=> BitOfResult(operation, r, mem, bit)
<1> DEFINE later == Overwritten(operation, r, mem, count)
           S(i) == SourceBit(r, 1, i)
           D(i) == DestinationBit(r, i)
           C(i) == Combine(operation, S(i) \in mem, D(i) \in mem)
<1>1. r.length \in Nat
  BY SizesAssumption DEF RegisterFile, Register
<1>2. /\ Indices(r) = 0..(r.length - 1)
      /\ Indices(rr) = 0..((r.length - count) - 1)
  BY DEF Indices, IsRest
<1>3. \A j \in Int : SourceBit(rr, 1, j) = S(count + j) /\ DestinationBit(rr, j) = D(count + j)
  BY DEF IsRest
<1>4. \A i, j \in Indices(r) : /\ D(i) = D(j) => i = j
                               /\ i < j => D(i) # S(j)
  BY <1>1, OneIndex
<1>5. \A x : x \in later <=> \/ x \in mem /\ \A i \in 0..(count - 1) : D(i) # x
                             \/ \E i \in 0..(count - 1) : D(i) = x /\ C(i)
  BY DEF Overwritten, Combined
<1> HIDE DEF later, S, D
<1>6. CASE \E i \in 0..(count - 1) : D(i) = bit
  <2>1. PICK i \in 0..(count - 1) : D(i) = bit
    BY <1>6
  <2>2. i \in Indices(r) /\ \A j \in Indices(r) : D(j) = bit => j = i
    BY <1>1, <1>2, <1>4, <2>1
  <2>3. \A j \in Indices(rr) : DestinationBit(rr, j) # bit
    <3> SUFFICES ASSUME NEW j \in Indices(rr), DestinationBit(rr, j) = bit PROVE FALSE
      OBVIOUS
    <3>1. j \in Int /\ count + j \in Indices(r) /\ count + j # i
      BY <1>1, <1>2, <2>1
    <3>2. D(count + j) = bit
      BY <1>3, <3>1
    <3>3. QED
      BY <2>2, <3>1, <3>2
  <2>4. BitOfResult(operation, rr, later, bit) <=> bit \in later
    BY <2>3, Zenon DEF BitOfResult
  <2>5. bit \in later <=> C(i)
    <3>1. \A j \in 0..(count - 1) : D(j) = bit => j = i
      BY <1>1, <1>2, <2>2
    <3>2. QED
      BY <1>5, <2>1, <3>1, Zenon
  <2>6. BitOfResult(operation, r, mem, bit) <=> C(i)
    <3>1. BitOfResult(operation, r, mem, bit) <=>
            \E j \in Indices(r) : D(j) = bit /\ Combine(operation, S(j) \in mem, bit \in mem)
      BY <2>1, <2>2, Zenon DEF BitOfResult, D, S
    <3>2. (\E j \in Indices(r) : D(j) = bit /\ Combine(operation, S(j) \in mem, bit \in mem))
            <=> Combine(operation, S(i) \in mem, bit \in mem)
      BY <2>1, <2>2, Zenon
    <3>3. QED
      BY <2>1, <3>1, <3>2, Zenon
  <2>7. QED
    BY <2>4, <2>5, <2>6, Zenon DEF later
<1>7. CASE \E i \in count..(r.length - 1) : D(i) = bit
  <2>1. PICK i \in count..(r.length - 1) : D(i) = bit
    BY <1>7
  <2>2. /\ i \in Indices(r) /\ i \in Int /\ i - count \in Indices(rr)
        /\ i - count \in Int /\ count + (i - count) = i
        /\ \A j \in Indices(r) : D(j) = bit => j = i
    BY <1>1, <1>2, <1>4, <2>1
  <2>3. \A j \in 0..(count - 1) : j \in Indices(r) /\ j # i /\ D(j) # bit /\ D(j) # S(i)
    BY <1>1, <1>2, <1>4, <2>1, <2>2
  <2>4. /\ (bit \in later) = (bit \in mem)
        /\ (S(i) \in later) = (S(i) \in mem)
    <3>1. bit \in later <=> bit \in mem
      BY <1>5, <2>3, Zenon
    <3>2. S(i) \in later <=> S(i) \in mem
      BY <1>5, <2>3, Zenon
    <3>3. QED
      BY <3>1, <3>2
  <2>5. BitOfResult(operation, r, mem, bit) <=> Combine(operation, S(i) \in mem, bit \in mem)
    <3>1. BitOfResult(operation, r, mem, bit) <=>
            \E j \in Indices(r) : D(j) = bit /\ Combine(operation, S(j) \in mem, bit \in mem)
      BY <2>1, <2>2, Zenon DEF BitOfResult, D, S
    <3>2. QED
      BY <2>1, <2>2, <3>1, Zenon
  <2>6. BitOfResult(operation, rr, later, bit) <=> Combine(operation, S(i) \in later, bit \in later)
    <3>1. \A j \in Indices(rr) : DestinationBit(rr, j) = bit => j = i - count
      <4> SUFFICES ASSUME NEW j \in Indices(rr), DestinationBit(rr, j) = bit PROVE j = i - count
        OBVIOUS
      <4>1. j \in Int /\ count + j \in Indices(r)
        BY <1>1, <1>2
      <4>2. D(count + j) = bit
        BY <1>3, <4>1
      <4>3. QED
        BY <2>2, <4>1, <4>2
    <3>2. DestinationBit(rr, i - count) = bit /\ SourceBit(rr, 1, i - count) = S(i)
      BY <1>3, <2>1, <2>2
    <3>3. BitOfResult(operation, rr, later, bit) <=>
            \E j \in Indices(rr) : /\ DestinationBit(rr, j) = bit
                                   /\ Combine(operation, SourceBit(rr, 1, j) \in later, bit \in later)
      BY <2>2, <3>2, Zenon DEF BitOfResult
    <3>4. QED
      BY <2>2, <3>1, <3>2, <3>3, Zenon
  <2>7. QED
    BY <2>4, <2>5, <2>6, Zenon DEF later
<1>8. CASE \A i \in Indices(r) : D(i) # bit
  <2>1. \A j \in Indices(rr) : DestinationBit(rr, j) # bit
    <3> SUFFICES ASSUME NEW j \in Indices(rr) PROVE DestinationBit(rr, j) # bit
      OBVIOUS
    <3>1. j \in Int /\ count + j \in Indices(r)
      BY <1>1, <1>2
    <3>2. QED
      BY <1>3, <1>8, <3>1
  <2>2. \A j \in 0..(count - 1) : D(j) # bit
    BY <1>1, <1>2, <1>8
  <2>3. bit \in later <=> bit \in mem
    BY <1>5, <2>2, Zenon
  <2>4. BitOfResult(operation, rr, later, bit) <=> bit \in later
    BY <2>1, Zenon DEF BitOfResult
  <2>5. BitOfResult(operation, r, mem, bit) <=> bit \in mem
    BY <1>8, Zenon DEF BitOfResult, D
  <2>6. QED
    BY <2>3, <2>4, <2>5, Zenon DEF later
<1>9. QED
  <2>1. \A i \in Indices(r) : i \in 0..(count - 1) \/ i \in count..(r.length - 1)
    BY <1>1, <1>2
  <2>2. QED
    BY <1>6, <1>7, <1>8, <2>1, Zenon

\* What a pass does, however far it gets.
LEMMA StringPass ==
  ASSUME TypeOK, StepBitString
  PROVE  \E count \in Nat : /\ count <= operands.length
                            /\ memory' = Overwritten(op, operands, memory, count)
                            /\ operands' = Behind(operands, count)
                            /\ done' <=> count = operands.length
<1> DEFINE r == NormaliseDestination(NormaliseSource(operands))
           count == Smaller(Room(r.dst_offset, 1), r.length)
           Src(i) == Bit(r.src_word, r.src_offset + i)
           Dst(i) == Bit(r.dst_word, r.dst_offset + i)
           ones == {i \in 0..(count - 1) : Combine(op, Src(i) \in memory, Dst(i) \in memory)}
<1>1. /\ WORD_BITS \in Nat \ {0} /\ MODULUS \in Nat \ {0}
      /\ operands \in RegisterFile
      /\ operands.src_word \in Register /\ operands.src_offset \in Int
      /\ operands.dst_word \in Register /\ operands.dst_offset \in Int
      /\ operands.length \in Nat
  BY SizesAssumption DEF TypeOK, RegisterFile, Register
<1>2. /\ memory' = (memory \ {Dst(i) : i \in 0..(count - 1)}) \cup {Dst(i) : i \in ones}
      /\ operands' = [src_word   |-> WordAfter(r.src_word, r.src_offset, count),
                      src_offset |-> OffsetAfter(r.src_offset, count),
                      dst_word   |-> WordAfter(r.dst_word, r.dst_offset, count),
                      dst_offset |-> OffsetAfter(r.dst_offset, count),
                      length     |-> r.length - count]
      /\ done' = (count = r.length)
  BY DEF StepBitString
<1>3. /\ r.src_word = Aligned(operands.src_word) /\ r.src_offset = operands.src_offset % WORD_BITS
      /\ r.dst_word = Aligned(operands.dst_word) /\ r.dst_offset = operands.dst_offset % WORD_BITS
      /\ r.length = operands.length
  BY <1>1 DEF NormaliseDestination, NormaliseSource, RegisterFile
<1> HIDE DEF r
<1>4. count \in Nat /\ count <= operands.length
  <2>1. r.dst_offset \in 0..(WORD_BITS - 1)
    BY <1>1, <1>3
  <2>2. QED
    BY <1>1, <1>3, <2>1 DEF Smaller, Room
<1> HIDE DEF count
<1>5. \A i \in Int : Src(i) = SourceBit(operands, 1, i) /\ Dst(i) = DestinationBit(operands, i)
  <2> SUFFICES ASSUME NEW i \in Int
               PROVE  Src(i) = SourceBit(operands, 1, i) /\ Dst(i) = DestinationBit(operands, i)
    OBVIOUS
  <2>1. 1 * i = i
    OBVIOUS
  <2>2. QED
    BY <1>3, <2>1 DEF SourceBit, DestinationBit
<1> HIDE DEF Src, Dst
<1>6. memory' = Overwritten(op, operands, memory, count)
  <2>1. \A i \in 0..(count - 1) : i \in Int
    OBVIOUS
  <2>2. ones = {j \in 0..(count - 1) : Combined(op, operands, memory, j)}
    BY <1>5, <2>1, Zenon DEF Combined
  <2>3. {Dst(i) : i \in 0..(count - 1)} = {DestinationBit(operands, i) : i \in 0..(count - 1)}
    BY <1>5, <2>1
  <2>4. {Dst(i) : i \in ones} = {DestinationBit(operands, i) : i \in ones}
    BY <1>5, <2>1
  <2>5. QED
    BY <1>2, <2>2, <2>3, <2>4 DEF Overwritten
<1>7. operands' = Behind(operands, count)
  <2>1. count \in Int
    BY <1>4
  <2>2. /\ EndWord(operands.src_word, operands.src_offset, count) = WordAfter(r.src_word, r.src_offset, count)
        /\ EndOffset(operands.src_offset, count) = OffsetAfter(r.src_offset, count)
        /\ EndWord(operands.dst_word, operands.dst_offset, count) = WordAfter(r.dst_word, r.dst_offset, count)
        /\ EndOffset(operands.dst_offset, count) = OffsetAfter(r.dst_offset, count)
    BY <1>1, <1>3, <2>1, EndIsMoved
  <2>3. QED
    BY <1>2, <1>3, <2>2 DEF Behind
<1>8. done' <=> count = operands.length
  BY <1>2, <1>3
<1>9. QED
  BY <1>4, <1>6, <1>7, <1>8

-----------------------------------------------------------------------------
(* A pass of a search.                                                        *)

\* The least of a set of numbers.
LEMMA LeastIs ==
  ASSUME NEW S \in SUBSET Nat, S # {}
  PROVE  /\ Least(S) \in S
         /\ \A i \in S : Least(S) <= i
<1>1. \E m \in S : \A n \in S : m <= n
  BY LeastNumber
<1>2. QED
  BY <1>1 DEF Least

LEMMA LeastIsOne ==
  ASSUME NEW S \in SUBSET Nat, NEW m \in S, \A i \in S : m <= i
  PROVE  Least(S) = m
<1>1. Least(S) \in S /\ Least(S) <= m
  BY LeastIs
<1>2. m \in Nat /\ Least(S) \in Nat /\ m <= Least(S)
  BY <1>1
<1>3. QED
  BY <1>1, <1>2

\* An index holds the bit that is looked for.
Hit(search, r, mem, i) == (SourceBit(r, Way(search), i) \in mem) = Wanted(search)

\* The registers of a search that has moved on.
Skipped(r, way, moved, skipped) ==
  [src_word   |-> EndWord(r.src_word, r.src_offset, way * moved),
   src_offset |-> EndOffset(r.src_offset, way * moved),
   dst_word   |-> AddSkipped(r.dst_word, skipped),
   dst_offset |-> r.dst_offset,
   length     |-> r.length - moved]

\* It has passed over bits of the other kind alone,
Misses(search, r, mem, count) ==
  count <= r.length /\ \A i \in 0..(count - 1) : ~Hit(search, r, mem, i)

\* or stands behind the first of its kind.
HitsAt(search, r, mem, h) ==
  h < r.length /\ Hit(search, r, mem, h) /\ \A i \in 0..(h - 1) : ~Hit(search, r, mem, i)

LEMMA SearchPass ==
  ASSUME TypeOK, StepBitSearch
  PROVE  \/ \E count \in Nat : /\ Misses(op, operands, memory, count)
                               /\ operands' = Skipped(operands, Way(op), count, count)
                               /\ zero' = TRUE
                               /\ done' <=> count = operands.length
         \/ \E h \in Nat : /\ HitsAt(op, operands, memory, h)
                           /\ operands' = Skipped(operands, Way(op), h + 1, h)
                           /\ zero' = FALSE
                           /\ done' = TRUE
<1> DEFINE r == NormaliseSource(operands)
           way == Way(op)
           count == Smaller(Room(r.src_offset, way), r.length)
           hits == {i \in 0..(count - 1) : (Bit(r.src_word, r.src_offset + way * i) \in memory) = Wanted(op)}
           found == hits # {}
           skipped == IF found THEN Least(hits) ELSE count
           moved == IF found THEN skipped + 1 ELSE skipped
<1>1. /\ WORD_BITS \in Nat \ {0} /\ MODULUS \in Nat \ {0}
      /\ operands \in RegisterFile
      /\ operands.src_word \in Register /\ operands.src_offset \in Int
      /\ operands.length \in Nat
  BY SizesAssumption DEF TypeOK, RegisterFile, Register
<1>2. /\ operands' = [r EXCEPT !.src_word   = WordAfter(@, r.src_offset, way * moved),
                               !.src_offset = OffsetAfter(@, way * moved),
                               !.dst_word   = AddSkipped(@, skipped),
                               !.length     = @ - moved]
      /\ zero' = ~found
      /\ done' = (found \/ moved = r.length)
  BY DEF StepBitSearch
<1>3. /\ r.src_word = Aligned(operands.src_word) /\ r.src_offset = operands.src_offset % WORD_BITS
      /\ r.dst_word = operands.dst_word /\ r.dst_offset = operands.dst_offset
      /\ r.length = operands.length
      /\ r = [src_word |-> r.src_word, src_offset |-> r.src_offset, dst_word |-> r.dst_word,
              dst_offset |-> r.dst_offset, length |-> r.length]
  <2>1. r = [src_word |-> Aligned(operands.src_word), src_offset |-> operands.src_offset % WORD_BITS,
             dst_word |-> operands.dst_word, dst_offset |-> operands.dst_offset, length |-> operands.length]
    <3>1. r = [[operands EXCEPT !.src_word = Aligned(operands.src_word)]
                 EXCEPT !.src_offset = operands.src_offset % WORD_BITS]
      BY <1>1 DEF NormaliseSource, RegisterFile
    <3>2. DOMAIN r = DOMAIN operands
      BY <3>1
    <3>3. DOMAIN operands = {"src_word", "src_offset", "dst_word", "dst_offset", "length"}
      BY <1>1 DEF RegisterFile
    <3>4. QED
      BY <1>1, <3>1, <3>2, <3>3 DEF RegisterFile
  <2> HIDE DEF r
  <2>2. QED
    BY <2>1
<1>4. way \in {1, -1}
  BY DEF Way
<1> HIDE DEF r, way
<1>5. count \in Nat /\ count <= operands.length
  <2>1. r.src_offset \in 0..(WORD_BITS - 1)
    BY <1>1, <1>3
  <2>2. QED
    BY <1>1, <1>3, <2>1 DEF Smaller, Room
<1> HIDE DEF count
<1>6. hits = {i \in 0..(count - 1) : Hit(op, operands, memory, i)}
  <2>1. \A i : Bit(r.src_word, r.src_offset + way * i) = SourceBit(operands, Way(op), i)
    BY <1>3 DEF SourceBit, way
  <2>2. \A i : ((Bit(r.src_word, r.src_offset + way * i) \in memory) = Wanted(op))
                  <=> Hit(op, operands, memory, i)
    BY <2>1, Zenon DEF Hit
  <2>3. QED
    BY <2>2, Zenon
<1> HIDE DEF hits
<1>7. ASSUME moved \in Int
      PROVE  operands' = Skipped(operands, Way(op), moved, skipped)
  <2>1. way * moved \in Int
    BY <1>4, <1>7
  <2>2. /\ EndWord(operands.src_word, operands.src_offset, way * moved)
             = WordAfter(r.src_word, r.src_offset, way * moved)
        /\ EndOffset(operands.src_offset, way * moved) = OffsetAfter(r.src_offset, way * moved)
    BY <1>1, <1>3, <2>1, EndIsMoved
  <2> HIDE DEF moved, skipped
  <2>3. operands' = [src_word   |-> WordAfter(r.src_word, r.src_offset, way * moved),
                     src_offset |-> OffsetAfter(r.src_offset, way * moved),
                     dst_word   |-> AddSkipped(r.dst_word, skipped),
                     dst_offset |-> r.dst_offset,
                     length     |-> r.length - moved]
    BY <1>2, <1>3
  <2>4. QED
    BY <1>3, <2>2, <2>3 DEF Skipped, way
<1>8. CASE found
  <2> DEFINE h == Least(hits)
  <2>1. hits \in SUBSET Nat /\ hits # {}
    BY <1>5, <1>6, <1>8
  <2>2. h \in hits /\ \A i \in hits : h <= i
    BY <2>1, LeastIs
  <2>3. skipped = h /\ moved = h + 1
    BY <1>8
  <2> HIDE DEF h
  <2>4. h \in Nat /\ h < operands.length /\ h \in 0..(count - 1) /\ Hit(op, operands, memory, h)
    BY <1>1, <1>5, <1>6, <2>2
  <2>5. ASSUME NEW i \in 0..(h - 1) PROVE ~Hit(op, operands, memory, i)
    <3> SUFFICES ASSUME Hit(op, operands, memory, i) PROVE FALSE
      OBVIOUS
    <3>1. i \in 0..(count - 1) /\ ~(h <= i)
      BY <1>5, <2>4
    <3>2. i \in hits
      BY <1>6, <3>1
    <3>3. QED
      BY <2>2, <3>1, <3>2
  <2>6. operands' = Skipped(operands, Way(op), h + 1, h)
    BY <1>7, <2>3, <2>4
  <2>7. zero' = FALSE /\ done' = TRUE
    BY <1>2, <1>8
  <2>8. QED
    BY <2>4, <2>5, <2>6, <2>7 DEF HitsAt
<1>9. CASE ~found
  <2>1. skipped = count /\ moved = count
    BY <1>9
  <2>2. Misses(op, operands, memory, count)
    BY <1>5, <1>6, <1>9 DEF Misses
  <2>3. operands' = Skipped(operands, Way(op), count, count)
    BY <1>5, <1>7, <2>1
  <2>4. zero' = TRUE /\ (done' <=> count = operands.length)
    BY <1>2, <1>3, <1>9, <2>1
  <2>5. QED
    BY <1>5, <2>2, <2>3, <2>4
<1>10. QED
  BY <1>8, <1>9

\* Two passes of a search are one that goes as far as both.
LEMMA SkippedTwice ==
  ASSUME NEW r \in RegisterFile, NEW search \in SearchOp, NEW count \in Nat,
         count <= r.length, NEW moved \in Nat, NEW skipped \in Nat
  PROVE  LET rr == Skipped(r, Way(search), count, count)
         IN  /\ rr \in RegisterFile
             /\ \A i \in Int : SourceBit(rr, Way(search), i) = SourceBit(r, Way(search), count + i)
             /\ Skipped(rr, Way(search), moved, skipped)
                  = Skipped(r, Way(search), count + moved, count + skipped)
<1> DEFINE way == Way(search)
           rr == Skipped(r, way, count, count)
<1>1. MODULUS \in Nat \ {0}
  BY SizesAssumption
<1>2. /\ r.src_word \in Register /\ r.src_offset \in Register /\ r.src_offset \in Int
      /\ r.dst_word \in Register /\ r.dst_word \in Int /\ r.dst_offset \in Register
      /\ r.length \in Register /\ r.length \in Nat
  BY <1>1 DEF RegisterFile, Register
<1>3. way \in {1, -1} /\ way * count \in Int
  BY DEF Way
<1>4. \A i \in Int : way * i \in Int /\ way * (count + i) = way * count + way * i
  BY <1>3
<1> HIDE DEF way
<1>5. /\ IsPosition(rr.src_word, rr.src_offset)
      /\ TakenUp(rr.src_word, rr.src_offset, r.src_word, r.src_offset, way * count)
  BY <1>2, <1>3, StringGoesOn DEF Skipped
<1>6. /\ rr.dst_word = (r.dst_word + count) % MODULUS /\ rr.dst_offset = r.dst_offset
      /\ rr.length = r.length - count /\ rr.length \in Register
  BY <1>1, <1>2 DEF Skipped, AddSkipped, Register
<1>7. rr \in RegisterFile
  <2>1. rr.src_word \in Register /\ rr.src_offset \in Register
    BY <1>5, OffsetsFit
  <2>2. rr.dst_word \in Register
    BY <1>1, <1>2, <1>6 DEF Register
  <2>3. QED
    BY <1>2, <1>6, <2>1, <2>2 DEF Skipped, RegisterFile
<1> HIDE DEF rr
<1>8. \A i \in Int : SourceBit(rr, way, i) = SourceBit(r, way, count + i)
  BY <1>4, <1>5 DEF TakenUp, SourceBit
<1>9. AddSkipped(rr.dst_word, skipped) = AddSkipped(r.dst_word, count + skipped)
  <2> DEFINE first == r.dst_word + count
             q == first \div MODULUS
             x == first % MODULUS
             sum == r.dst_word + (count + skipped)
  <2>1. first \in Int
    BY <1>2
  <2>2. q \in Int /\ x \in Int /\ r.dst_word + count = MODULUS * q + x
    <3> HIDE DEF first
    <3>1. q \in Int /\ x \in 0..(MODULUS - 1) /\ first = MODULUS * q + x
      BY <1>1, <2>1, Divided
    <3>2. QED
      BY <1>1, <3>1 DEF first
  <2>3. sum = MODULUS * q + (x + skipped) /\ x + skipped \in Int
    <3>1. MODULUS * q \in Int
      BY <1>1, <2>2
    <3> HIDE DEF q, x
    <3>2. QED
      BY <1>2, <2>2, <3>1
  <2> HIDE DEF q, x, sum
  <2>4. sum % MODULUS = (x + skipped) % MODULUS
    BY <1>1, <2>2, <2>3, QuotientOfSum
  <2>5. QED
    BY <1>6, <2>4 DEF AddSkipped, sum, x
<1>10. /\ EndWord(rr.src_word, rr.src_offset, way * moved)
            = EndWord(r.src_word, r.src_offset, way * (count + moved))
       /\ EndOffset(rr.src_offset, way * moved) = EndOffset(r.src_offset, way * (count + moved))
  BY <1>4, <1>5 DEF TakenUp
<1>11. rr.length - moved = r.length - (count + moved)
  BY <1>2, <1>6
<1>12. Skipped(rr, way, moved, skipped) = Skipped(r, way, count + moved, count + skipped)
  BY <1>6, <1>9, <1>10, <1>11 DEF Skipped
<1>13. QED
  BY <1>7, <1>8, <1>12 DEF rr, way

\* What a search is to leave, when it finds nothing and when it does.
LEMMA OutcomeOfMiss ==
  ASSUME NEW r \in RegisterFile, NEW search \in SearchOp, NEW mem,
         Misses(search, r, mem, r.length)
  PROVE  SearchOutcome(search, r, mem)
           = [memory |-> mem, zero |-> TRUE,
              operands |-> Skipped(r, Way(search), r.length, r.length)]
<1> DEFINE hits == {i \in Indices(r) : (SourceBit(r, Way(search), i) \in mem) = Wanted(search)}
<1>1. r.dst_word \in Int /\ r.length \in Int
  BY SizesAssumption DEF RegisterFile, Register
<1>2. hits = {}
  BY Zenon DEF Misses, Hit, Indices
<1> HIDE DEF hits
<1>3. r.dst_word + r.length - (IF hits = {} THEN 0 ELSE 1) = r.dst_word + r.length
  BY <1>1, <1>2
<1>4. SearchOutcome(search, r, mem)
        = LET moved == IF hits = {} THEN r.length ELSE Least(hits) + 1
          IN  [memory |-> mem,
               zero   |-> hits = {},
               operands |-> [src_word   |-> EndWord(r.src_word, r.src_offset, Way(search) * moved),
                             src_offset |-> EndOffset(r.src_offset, Way(search) * moved),
                             dst_word   |-> (r.dst_word + moved - (IF hits = {} THEN 0 ELSE 1)) % MODULUS,
                             dst_offset |-> r.dst_offset,
                             length     |-> r.length - moved]]
  BY DEF SearchOutcome, hits
<1>5. QED
  BY <1>2, <1>3, <1>4 DEF Skipped, AddSkipped

LEMMA OutcomeOfHit ==
  ASSUME NEW r \in RegisterFile, NEW search \in SearchOp, NEW mem, NEW h \in Nat,
         HitsAt(search, r, mem, h)
  PROVE  SearchOutcome(search, r, mem)
           = [memory |-> mem, zero |-> FALSE,
              operands |-> Skipped(r, Way(search), h + 1, h)]
<1> DEFINE hits == {i \in Indices(r) : (SourceBit(r, Way(search), i) \in mem) = Wanted(search)}
<1>1. r.dst_word \in Int /\ r.length \in Nat
  BY SizesAssumption DEF RegisterFile, Register
<1>2. hits = {i \in Indices(r) : Hit(search, r, mem, i)}
  <2>1. \A i : ((SourceBit(r, Way(search), i) \in mem) = Wanted(search)) <=> Hit(search, r, mem, i)
    BY Zenon DEF Hit
  <2>2. QED
    BY <2>1, Zenon
<1> HIDE DEF hits
<1>3. hits \in SUBSET Nat
  BY <1>1, <1>2 DEF Indices
<1>4. h \in hits
  BY <1>1, <1>2 DEF HitsAt, Indices
<1>5. ASSUME NEW i \in hits PROVE h <= i
  <2> SUFFICES ASSUME i < h PROVE FALSE
    BY <1>3
  <2>1. i \in 0..(h - 1) /\ Hit(search, r, mem, i)
    BY <1>2, <1>3
  <2>2. QED
    BY <2>1 DEF HitsAt
<1>6. Least(hits) = h
  BY <1>3, <1>4, <1>5, LeastIsOne
<1>7. hits # {}
  BY <1>4
<1>8. r.dst_word + (Least(hits) + 1) - (IF hits = {} THEN 0 ELSE 1) = r.dst_word + h
  BY <1>1, <1>6, <1>7
<1>9. SearchOutcome(search, r, mem)
        = LET moved == IF hits = {} THEN r.length ELSE Least(hits) + 1
          IN  [memory |-> mem,
               zero   |-> hits = {},
               operands |-> [src_word   |-> EndWord(r.src_word, r.src_offset, Way(search) * moved),
                             src_offset |-> EndOffset(r.src_offset, Way(search) * moved),
                             dst_word   |-> (r.dst_word + moved - (IF hits = {} THEN 0 ELSE 1)) % MODULUS,
                             dst_offset |-> r.dst_offset,
                             length     |-> r.length - moved]]
  BY DEF SearchOutcome, hits
<1>10. (hits = {}) = FALSE
  BY <1>7
<1>11. QED
  BY <1>6, <1>7, <1>8, <1>9, <1>10 DEF Skipped, AddSkipped

-----------------------------------------------------------------------------
(* What is left of an instruction after a pass.                               *)

\* A pass of a string operation keeps its outcome; the last leaves it.
LEMMA StringKept ==
  ASSUME NEW operation \in StringOp, NEW r \in RegisterFile, NEW mem \in SUBSET MemoryBits,
         NEW flag, NEW count \in Nat, count <= r.length
  PROVE  LET rr == Behind(r, count)
             later == Overwritten(operation, r, mem, count)
             before == StringOutcome(operation, r, mem, flag)
             after == StringOutcome(operation, rr, later, flag)
         IN  /\ rr \in RegisterFile /\ later \subseteq MemoryBits
             /\ after.operands = before.operands
             /\ Tangled(operation, r) \/ after.memory = before.memory
             /\ Covered(operation, rr) \subseteq Covered(operation, r)
             /\ Tangled(operation, rr) => Tangled(operation, r)
             /\ count = r.length =>
                  /\ rr = before.operands
                  /\ Tangled(operation, r) \/ later = before.memory
<1> DEFINE rr == Behind(r, count)
           later == Overwritten(operation, r, mem, count)
           before == StringOutcome(operation, r, mem, flag)
           after == StringOutcome(operation, rr, later, flag)
<1>1. rr \in RegisterFile /\ IsRest(r, rr, count) /\ EndsAlike(r, rr, count)
  BY RestOfStrings
<1>2. r.length \in Nat /\ rr.length = r.length - count /\ rr.length \in Nat
  <2>1. r.length \in Nat
    BY SizesAssumption DEF RegisterFile, Register
  <2>2. QED
    BY <1>1, <2>1 DEF IsRest
<1>3. /\ Indices(r) = 0..(r.length - 1)
      /\ Indices(rr) = 0..((r.length - count) - 1)
  BY <1>2 DEF Indices
<1>4. later \subseteq MemoryBits
  <2>1. \A i \in 0..(count - 1) : DestinationBit(r, i) \in MemoryBits
    BY BitsOfMemory
  <2>2. QED
    BY <2>1 DEF Overwritten
<1>5. \A j \in Indices(rr) : /\ count + j \in Indices(r) /\ j \in Int
                             /\ SourceBit(rr, 1, j) = SourceBit(r, 1, count + j)
                             /\ DestinationBit(rr, j) = DestinationBit(r, count + j)
  <2>1. \A j \in Indices(rr) : count + j \in Indices(r) /\ j \in Int
    BY <1>2, <1>3
  <2>2. QED
    BY <1>1, <2>1 DEF IsRest
<1>6. operation \notin SearchOp
  BY DEF StringOp, SearchOp
<1>7. rr = Behind(r, count)
  OBVIOUS
<1> HIDE DEF rr
<1>8. Covered(operation, rr) \subseteq Covered(operation, r)
  <2>1. \A j \in Indices(rr) : /\ \E i \in Indices(r) : SourceBit(rr, 1, j) = SourceBit(r, 1, i)
                               /\ \E i \in Indices(r) : DestinationBit(rr, j) = DestinationBit(r, i)
    BY <1>5
  <2>2. QED
    BY <1>6, <2>1 DEF Covered
<1>9. Tangled(operation, rr) => Tangled(operation, r)
  <2> SUFFICES ASSUME NEW i \in Indices(rr), NEW j \in Indices(rr), i < j,
                      DestinationBit(rr, i) \in {SourceBit(rr, 1, j), DestinationBit(rr, j)}
               PROVE  Tangled(operation, r)
    BY DEF Tangled
  <2>1. count + i \in Indices(r) /\ count + j \in Indices(r) /\ count + i < count + j
    BY <1>3, <1>5
  <2>2. DestinationBit(r, count + i) \in {SourceBit(r, 1, count + j), DestinationBit(r, count + j)}
    BY <1>5
  <2> DEFINE a == count + i
             b == count + j
  <2>3. /\ a \in Indices(r) /\ b \in Indices(r) /\ a < b
        /\ DestinationBit(r, a) \in {SourceBit(r, 1, b), DestinationBit(r, b)}
    BY <2>1, <2>2
  <2> HIDE DEF a, b
  <2>4. QED
    BY <2>3, Zenon DEF Tangled
<1>10. before.memory = {bit \in MemoryBits : BitOfResult(operation, r, mem, bit)}
  BY DEF StringOutcome, BitOfResult
<1>11. after.memory = {bit \in MemoryBits : BitOfResult(operation, rr, later, bit)}
  BY DEF StringOutcome, BitOfResult
<1>12. Tangled(operation, r) \/ after.memory = before.memory
  <2> SUFFICES ASSUME ~Tangled(operation, r) PROVE after.memory = before.memory
    OBVIOUS
  <2>1. \A bit : BitOfResult(operation, rr, later, bit) <=> BitOfResult(operation, r, mem, bit)
    BY <1>1, RestOfBit
  <2> HIDE DEF before, after
  <2>2. QED
    BY <1>10, <1>11, <2>1, Zenon
<1>13. after.operands = before.operands
  <2>1. count + rr.length = r.length /\ rr.length \in Int
    BY <1>2
  <2>2. /\ EndWord(rr.src_word, rr.src_offset, rr.length) = EndWord(r.src_word, r.src_offset, r.length)
        /\ EndOffset(rr.src_offset, rr.length) = EndOffset(r.src_offset, r.length)
        /\ EndWord(rr.dst_word, rr.dst_offset, rr.length) = EndWord(r.dst_word, r.dst_offset, r.length)
        /\ EndOffset(rr.dst_offset, rr.length) = EndOffset(r.dst_offset, r.length)
    BY <1>1, <2>1 DEF EndsAlike
  <2>3. QED
    BY <2>2 DEF StringOutcome
<1>14. ASSUME count = r.length
       PROVE  /\ rr = before.operands
              /\ Tangled(operation, r) \/ later = before.memory
  <2>1. rr = before.operands
    BY <1>2, <1>7, <1>14 DEF Behind, StringOutcome
  <2>2. Indices(rr) = {}
    BY <1>2, <1>3, <1>14
  <2>3. after.memory = {bit \in MemoryBits : bit \in later}
    <3>1. \A bit : BitOfResult(operation, rr, later, bit) <=> bit \in later
      BY <2>2, Zenon DEF BitOfResult
    <3> HIDE DEF after
    <3>2. QED
      BY <1>11, <3>1, Zenon
  <2>4. after.memory = later
    BY <1>4, <2>3
  <2>5. QED
    BY <1>12, <2>1, <2>4
<1>15. QED
  BY <1>1, <1>4, <1>8, <1>9, <1>12, <1>13, <1>14 DEF rr

\* A pass of a search that finds nothing keeps its outcome,
LEMMA SearchKept ==
  ASSUME NEW search \in SearchOp, NEW r \in RegisterFile, NEW mem, NEW count \in Nat,
         Misses(search, r, mem, count)
  PROVE  LET rr == Skipped(r, Way(search), count, count)
         IN  /\ rr \in RegisterFile
             /\ SearchOutcome(search, rr, mem) = SearchOutcome(search, r, mem)
             /\ Covered(search, rr) \subseteq Covered(search, r)
<1> DEFINE rr == Skipped(r, Way(search), count, count)
<1>1. r.length \in Nat /\ count <= r.length
  BY SizesAssumption DEF RegisterFile, Register, Misses
<1>2. /\ rr \in RegisterFile /\ rr.length = r.length - count
      /\ \A i \in Int : SourceBit(rr, Way(search), i) = SourceBit(r, Way(search), count + i)
  BY <1>1, SkippedTwice DEF Skipped
<1>3. \A moved, skipped \in Nat :
        Skipped(rr, Way(search), moved, skipped)
          = Skipped(r, Way(search), count + moved, count + skipped)
  BY <1>1, SkippedTwice
<1> HIDE DEF rr
<1>4. \A i \in Int : Hit(search, rr, mem, i) <=> Hit(search, r, mem, count + i)
  BY <1>2, Zenon DEF Hit
<1>5. \A j \in Indices(rr) : j \in Int /\ count + j \in Indices(r)
  BY <1>1, <1>2 DEF Indices
<1>6. Covered(search, rr) \subseteq Covered(search, r)
  <2>1. \A j \in Indices(rr) : \E i \in Indices(r) :
          SourceBit(rr, Way(search), j) = SourceBit(r, Way(search), i)
    BY <1>2, <1>5
  <2>2. QED
    BY <2>1 DEF Covered
<1>7. CASE \A i \in Indices(r) : ~Hit(search, r, mem, i)
  <2>1. Misses(search, r, mem, r.length)
    BY <1>1, <1>7 DEF Misses, Indices
  <2>2. Misses(search, rr, mem, rr.length)
    <3>1. rr.length <= rr.length
      BY <1>1, <1>2
    <3>2. ASSUME NEW i \in 0..(rr.length - 1) PROVE ~Hit(search, rr, mem, i)
      <4>1. i \in Int /\ count + i \in Indices(r)
        BY <1>5 DEF Indices
      <4>2. QED
        BY <1>4, <1>7, <4>1
    <3>3. QED
      BY <3>1, <3>2 DEF Misses
  <2>3. rr.length \in Nat /\ count + rr.length = r.length
    BY <1>1, <1>2
  <2>4. Skipped(rr, Way(search), rr.length, rr.length) = Skipped(r, Way(search), r.length, r.length)
    BY <1>3, <2>3
  <2>5. QED
    BY <1>2, <1>6, <2>1, <2>2, <2>4, OutcomeOfMiss DEF rr
<1>8. CASE \E i \in Indices(r) : Hit(search, r, mem, i)
  <2> DEFINE hits == {i \in Indices(r) : Hit(search, r, mem, i)}
             h == Least(hits)
  <2>1. hits \in SUBSET Nat /\ hits # {}
    BY <1>1, <1>8 DEF Indices
  <2>2. h \in hits /\ \A i \in hits : h <= i
    BY <2>1, LeastIs
  <2> HIDE DEF h
  <2>3. h \in Nat /\ h < r.length /\ Hit(search, r, mem, h)
    BY <1>1, <2>2 DEF Indices
  <2>4. \A i \in 0..(h - 1) : ~Hit(search, r, mem, i)
    <3> SUFFICES ASSUME NEW i \in 0..(h - 1), Hit(search, r, mem, i) PROVE FALSE
      OBVIOUS
    <3>1. i \in Indices(r) /\ ~(h <= i)
      BY <1>1, <2>3 DEF Indices
    <3>2. QED
      BY <2>2, <3>1
  <2>5. count <= h
    <3> SUFFICES ASSUME h < count PROVE FALSE
      BY <2>3
    <3>1. h \in 0..(count - 1)
      BY <2>3
    <3>2. QED
      BY <2>3, <3>1 DEF Misses
  <2> DEFINE rest == h - count
  <2>6. /\ rest \in Nat /\ rest + 1 \in Nat /\ count + rest = h
        /\ count + (rest + 1) = h + 1 /\ rest < rr.length
    BY <1>1, <1>2, <2>3, <2>5
  <2> HIDE DEF rest
  <2>7. HitsAt(search, r, mem, h)
    BY <2>3, <2>4 DEF HitsAt
  <2>8. HitsAt(search, rr, mem, rest)
    <3>1. Hit(search, rr, mem, rest)
      BY <1>4, <2>3, <2>6
    <3>2. ASSUME NEW i \in 0..(rest - 1) PROVE ~Hit(search, rr, mem, i)
      <4>1. i \in Int /\ count + i \in 0..(h - 1)
        BY <2>6
      <4>2. QED
        BY <1>4, <2>4, <4>1
    <3>3. QED
      BY <2>6, <3>1, <3>2 DEF HitsAt
  <2>9. Skipped(rr, Way(search), rest + 1, rest) = Skipped(r, Way(search), h + 1, h)
    <3>1. Skipped(rr, Way(search), rest + 1, rest)
            = Skipped(r, Way(search), count + (rest + 1), count + rest)
      BY <1>3, <2>6
    <3>2. QED
      BY <2>6, <3>1
  <2>10. SearchOutcome(search, r, mem)
           = [memory |-> mem, zero |-> FALSE, operands |-> Skipped(r, Way(search), h + 1, h)]
    BY <2>3, <2>7, OutcomeOfHit
  <2>11. SearchOutcome(search, rr, mem)
           = [memory |-> mem, zero |-> FALSE, operands |-> Skipped(rr, Way(search), rest + 1, rest)]
    BY <1>2, <2>6, <2>8, OutcomeOfHit
  <2>12. QED
    BY <1>2, <1>6, <2>9, <2>10, <2>11 DEF rr
<1>9. QED
  BY <1>7, <1>8

\* Either pass keeps what the instruction is to leave, or leaves it.
PassKeeps ==
  LET before == Outcome(op, operands, memory, zero)
      after  == Outcome(op, operands', memory', zero')
  IN  /\ ~done' => /\ after.operands = before.operands /\ after.zero = before.zero
                   /\ Tangled(op, operands) \/ after.memory = before.memory
                   /\ Covered(op, operands') \subseteq Covered(op, operands)
                   /\ Tangled(op, operands') => Tangled(op, operands)
      /\ done' => /\ operands' = before.operands /\ zero' = before.zero
                  /\ Tangled(op, operands) \/ memory' = before.memory

LEMMA StringPassKeeps ==
  ASSUME TypeOK, StepBitString
  PROVE  TypeOK' /\ PassKeeps
<1>1. /\ op \in StringOp /\ op \notin SearchOp /\ op' = op /\ zero' = zero
      /\ operands \in RegisterFile /\ memory \in SUBSET MemoryBits
  BY DEF StepBitString, TypeOK, StringOp, SearchOp
<1>2. PICK count \in Nat : /\ count <= operands.length
                           /\ memory' = Overwritten(op, operands, memory, count)
                           /\ operands' = Behind(operands, count)
                           /\ done' <=> count = operands.length
  BY StringPass
<1>3. done' \in BOOLEAN
  BY DEF StepBitString
<1> DEFINE before == StringOutcome(op, operands, memory, zero)
           after == StringOutcome(op, operands', memory', zero')
<1>4. /\ operands' \in RegisterFile /\ memory' \subseteq MemoryBits
      /\ after.operands = before.operands
      /\ Tangled(op, operands) \/ after.memory = before.memory
      /\ Covered(op, operands') \subseteq Covered(op, operands)
      /\ Tangled(op, operands') => Tangled(op, operands)
      /\ count = operands.length => /\ operands' = before.operands
                                    /\ Tangled(op, operands) \/ memory' = before.memory
  BY <1>1, <1>2, StringKept
<1>5. after.zero = zero /\ before.zero = zero
  BY <1>1 DEF StringOutcome
<1>6. before = Outcome(op, operands, memory, zero) /\ after = Outcome(op, operands', memory', zero')
  BY <1>1 DEF Outcome
<1>7. TypeOK'
  BY <1>1, <1>3, <1>4 DEF TypeOK
<1> HIDE DEF before, after
<1>8. PassKeeps
  BY <1>1, <1>2, <1>4, <1>5, <1>6 DEF PassKeeps
<1>9. QED
  BY <1>7, <1>8

\* The registers of a search stay registers.
LEMMA SkippedFits ==
  ASSUME NEW r \in RegisterFile, NEW search \in SearchOp,
         NEW moved \in Nat, moved <= r.length, NEW skipped \in Nat
  PROVE  Skipped(r, Way(search), moved, skipped) \in RegisterFile
<1> DEFINE way == Way(search)
           rr == Skipped(r, way, moved, skipped)
<1>1. MODULUS \in Nat \ {0}
  BY SizesAssumption
<1>2. /\ r.src_word \in Register /\ r.src_offset \in Int
      /\ r.dst_word \in Int /\ r.dst_offset \in Register
      /\ r.length \in Register /\ r.length \in Nat
  BY <1>1 DEF RegisterFile, Register
<1>3. way * moved \in Int
  BY DEF Way
<1> HIDE DEF way
<1>4. IsPosition(rr.src_word, rr.src_offset)
  BY <1>2, <1>3, StringGoesOn DEF Skipped
<1>5. rr.src_word \in Register /\ rr.src_offset \in Register
  BY <1>4, OffsetsFit
<1>6. rr.dst_word \in Register /\ rr.dst_offset \in Register /\ rr.length \in Register
  BY <1>1, <1>2 DEF Skipped, AddSkipped, Register
<1>7. rr \in RegisterFile
  BY <1>5, <1>6 DEF Skipped, RegisterFile
<1>8. QED
  BY <1>7 DEF rr, way

LEMMA SearchPassKeeps ==
  ASSUME TypeOK, StepBitSearch
  PROVE  TypeOK' /\ PassKeeps
<1>1. /\ op \in SearchOp /\ op \notin StringOp /\ op' = op /\ memory' = memory
      /\ operands \in RegisterFile /\ memory \in SUBSET MemoryBits
      /\ operands.length \in Nat
  BY SizesAssumption DEF StepBitSearch, TypeOK, StringOp, SearchOp, RegisterFile, Register
<1>2. done' \in BOOLEAN
  BY DEF StepBitSearch
<1>3. ~Tangled(op, operands')
  BY <1>1 DEF Tangled
<1> DEFINE before == SearchOutcome(op, operands, memory)
           after == SearchOutcome(op, operands', memory')
<1>4. before = Outcome(op, operands, memory, zero) /\ after = Outcome(op, operands', memory', zero')
  BY <1>1 DEF Outcome
<1> HIDE DEF before, after
<1>5. CASE \E count \in Nat : /\ Misses(op, operands, memory, count)
                              /\ operands' = Skipped(operands, Way(op), count, count)
                              /\ zero' = TRUE
                              /\ done' <=> count = operands.length
  <2>1. PICK count \in Nat : /\ Misses(op, operands, memory, count)
                             /\ operands' = Skipped(operands, Way(op), count, count)
                             /\ zero' = TRUE
                             /\ done' <=> count = operands.length
    BY <1>5
  <2>2. /\ operands' \in RegisterFile /\ after = before
        /\ Covered(op, operands') \subseteq Covered(op, operands)
    BY <1>1, <2>1, SearchKept DEF before, after
  <2>3. ASSUME done'
        PROVE  operands' = before.operands /\ zero' = before.zero /\ memory' = before.memory
    <3>1. count = operands.length
      BY <2>1, <2>3
    <3>2. before = [memory |-> memory, zero |-> TRUE, operands |-> operands']
      BY <1>1, <2>1, <3>1, OutcomeOfMiss DEF before
    <3>3. QED
      BY <1>1, <2>1, <3>2
  <2>4. TypeOK'
    BY <1>1, <1>2, <2>1, <2>2 DEF TypeOK
  <2>5. PassKeeps
    BY <1>3, <1>4, <2>2, <2>3 DEF PassKeeps
  <2>6. QED
    BY <2>4, <2>5
<1>6. CASE \E h \in Nat : /\ HitsAt(op, operands, memory, h)
                          /\ operands' = Skipped(operands, Way(op), h + 1, h)
                          /\ zero' = FALSE
                          /\ done' = TRUE
  <2>1. PICK h \in Nat : /\ HitsAt(op, operands, memory, h)
                         /\ operands' = Skipped(operands, Way(op), h + 1, h)
                         /\ zero' = FALSE
                         /\ done' = TRUE
    BY <1>6
  <2>2. h + 1 \in Nat /\ h + 1 <= operands.length
    BY <1>1, <2>1 DEF HitsAt
  <2>3. operands' \in RegisterFile
    BY <1>1, <2>1, <2>2, SkippedFits
  <2>4. before = [memory |-> memory, zero |-> FALSE, operands |-> operands']
    BY <1>1, <2>1, OutcomeOfHit DEF before
  <2>5. TypeOK'
    BY <1>1, <2>1, <2>3 DEF TypeOK
  <2>6. done' /\ operands' = before.operands /\ zero' = before.zero /\ memory' = before.memory
    BY <1>1, <2>1, <2>4
  <2>7. PassKeeps
    BY <1>4, <2>6, Zenon DEF PassKeeps
  <2>8. QED
    BY <2>5, <2>7
<1>7. QED
  BY <1>5, <1>6, SearchPass

\* A store beside the strings changes its own bit of what is to be left, and
\* nothing else of it.
StoreKeeps(bit) ==
  LET before == Outcome(op, operands, memory, zero)
      after  == Outcome(op, operands, memory', zero)
  IN  /\ after.operands = before.operands /\ after.zero = before.zero
      /\ after.memory = (before.memory \ {bit}) \cup (memory' \cap {bit})

LEMMA StoreKept ==
  ASSUME TypeOK, NEW bit \in MemoryBits, Store(bit), bit \notin Covered(op, operands)
  PROVE  StoreKeeps(bit)
<1>1. /\ memory' \subseteq MemoryBits /\ memory \subseteq MemoryBits
      /\ \A x : x # bit => (x \in memory' <=> x \in memory)
      /\ memory' = (memory \ {bit}) \cup (memory' \cap {bit})
  BY DEF Store, TypeOK
<1>2. CASE op \in SearchOp
  <2> DEFINE Wants(mem, i) == (SourceBit(operands, Way(op), i) \in mem) = Wanted(op)
             hits == {i \in Indices(operands) : Wants(memory, i)}
             later == {i \in Indices(operands) : Wants(memory', i)}
             Then(mem, found) ==
               LET moved == IF found = {} THEN operands.length ELSE Least(found) + 1
               IN  [memory |-> mem,
                    zero   |-> found = {},
                    operands |-> [src_word   |-> EndWord(operands.src_word, operands.src_offset, Way(op) * moved),
                                  src_offset |-> EndOffset(operands.src_offset, Way(op) * moved),
                                  dst_word   |-> (operands.dst_word + moved - (IF found = {} THEN 0 ELSE 1)) % MODULUS,
                                  dst_offset |-> operands.dst_offset,
                                  length     |-> operands.length - moved]]
  <2>1. \A i \in Indices(operands) : SourceBit(operands, Way(op), i) # bit
    BY <1>2 DEF Covered
  <2>2. \A i \in Indices(operands) : SourceBit(operands, Way(op), i) \in memory'
                                   <=> SourceBit(operands, Way(op), i) \in memory
    BY <1>1, <2>1, Zenon
  <2>3. \A i \in Indices(operands) : Wants(memory', i) <=> Wants(memory, i)
    BY <2>2
  <2>4. later = hits
    <3> HIDE DEF Wants
    <3>1. QED
      BY <2>3, Zenon
  <2>5. /\ SearchOutcome(op, operands, memory) = Then(memory, hits)
        /\ SearchOutcome(op, operands, memory') = Then(memory', later)
    BY DEF SearchOutcome
  <2>6. /\ Outcome(op, operands, memory, zero) = Then(memory, hits)
        /\ Outcome(op, operands, memory', zero) = Then(memory', hits)
    BY <1>2, <2>4, <2>5 DEF Outcome
  <2> HIDE DEF hits, later
  <2>7. QED
    BY <1>1, <2>6 DEF StoreKeeps
<1>3. CASE op \notin SearchOp
  <2> DEFINE before == StringOutcome(op, operands, memory, zero)
             after == StringOutcome(op, operands, memory', zero)
  <2>1. \A i \in Indices(operands) : SourceBit(operands, 1, i) # bit /\ DestinationBit(operands, i) # bit
    BY <1>3 DEF Covered
  <2>2. \A i \in Indices(operands) : (SourceBit(operands, 1, i) \in memory') = (SourceBit(operands, 1, i) \in memory)
    <3>1. \A i \in Indices(operands) : SourceBit(operands, 1, i) \in memory' <=> SourceBit(operands, 1, i) \in memory
      BY <1>1, <2>1, Zenon
    <3>2. QED
      BY <3>1
  <2>3. before.operands = after.operands /\ before.zero = after.zero
    BY DEF StringOutcome
  <2>4. /\ before.memory = {x \in MemoryBits : BitOfResult(op, operands, memory, x)}
        /\ after.memory = {x \in MemoryBits : BitOfResult(op, operands, memory', x)}
    BY DEF StringOutcome, BitOfResult
  <2>5. BitOfResult(op, operands, memory', bit) <=> bit \in memory'
    BY <2>1, Zenon DEF BitOfResult
  <2>6. ASSUME NEW x, x # bit
        PROVE  BitOfResult(op, operands, memory', x) <=> BitOfResult(op, operands, memory, x)
    <3>1. x \in memory' <=> x \in memory
      BY <1>1, <2>6
    <3>2. (x \in memory') = (x \in memory)
      BY <3>1
    <3>3. \A i \in Indices(operands) :
            Combine(op, SourceBit(operands, 1, i) \in memory', x \in memory')
              <=> Combine(op, SourceBit(operands, 1, i) \in memory, x \in memory)
      BY <2>2, <3>2, Zenon
    <3>4. QED
      BY <3>1, <3>3, Zenon DEF BitOfResult
  <2>7. before = Outcome(op, operands, memory, zero) /\ after = Outcome(op, operands, memory', zero)
    BY <1>3 DEF Outcome
  <2> HIDE DEF before, after
  <2>8. after.memory = (before.memory \ {bit}) \cup (memory' \cap {bit})
    <3>1. \A x : x \in after.memory <=> x \in MemoryBits /\ BitOfResult(op, operands, memory', x)
      BY <2>4, Zenon
    <3>2. \A x : x \in before.memory <=> x \in MemoryBits /\ BitOfResult(op, operands, memory, x)
      BY <2>4, Zenon
    <3>3. \A x : x \in after.memory <=> \/ x \in before.memory /\ x # bit
                                        \/ x \in memory' /\ x = bit
      BY <2>5, <2>6, <3>1, <3>2, Zenon
    <3>4. QED
      BY <3>3
  <2>9. QED
    BY <2>3, <2>7, <2>8 DEF StoreKeeps
<1>4. QED
  BY <1>2, <1>3

-----------------------------------------------------------------------------
(* The invariant.  Next to the two properties it says that what is left of    *)
(* the strings lies within them, so that a handler that keeps off the strings *)
(* keeps off the rest of them, and that what is left is no more tangled.      *)

IsPromise(p) == p = [memory |-> p.memory, zero |-> p.zero, operands |-> p.operands]

WithinStrings ==
  ~done => /\ Covered(op, operands) \subseteq strings
           /\ Tangled(op, operands) => tangled

IInv == TypeOK /\ IsPromise(promise) /\ WithinStrings /\ Resumable /\ ResultIsWhole

LEMMA InitHolds == ResultInit => IInv
<1> SUFFICES ASSUME ResultInit PROVE IInv
  OBVIOUS
<1>1. MODULUS \in Nat \ {0} /\ Addresses \cup Offsets \cup Lengths \subseteq Register
  BY SizesAssumption, StartAssumption DEF Register
<1>2. TypeOK
  BY <1>1 DEF ResultInit, Init, TypeOK, Start, RegisterFile
<1>3. IsPromise(Outcome(op, operands, memory, zero))
  BY DEF IsPromise, Outcome, SearchOutcome, StringOutcome
<1>4. QED
  BY <1>2, <1>3 DEF ResultInit, Init, IInv, WithinStrings, Resumable, ResultIsWhole

LEMMA PassHolds == IInv /\ ResultPass => IInv'
<1> SUFFICES ASSUME IInv, ResultPass PROVE IInv'
  OBVIOUS
<1>1. TypeOK' /\ PassKeeps
  BY StringPassKeeps, SearchPassKeeps DEF IInv, ResultPass, Pass
<1>2. /\ promise' = promise /\ strings' = strings /\ tangled' = tangled
      /\ op' = op /\ ~done
  BY DEF ResultPass, Pass, StepBitString, StepBitSearch
<1>3. Resumable /\ WithinStrings /\ IsPromise(promise)
  BY DEF IInv
<1>4. WithinStrings'
  BY <1>1, <1>2, <1>3 DEF WithinStrings, PassKeeps
<1>5. Resumable'
  BY <1>1, <1>2, <1>3 DEF Resumable, WithinStrings, PassKeeps
<1>6. ResultIsWhole'
  BY <1>1, <1>2, <1>3 DEF Resumable, ResultIsWhole, WithinStrings, PassKeeps
<1>7. QED
  BY <1>1, <1>2, <1>3, <1>4, <1>5, <1>6 DEF IInv, IsPromise

LEMMA StoreHolds ==
  ASSUME IInv, NEW bit \in MemoryBits, ResultStore(bit)
  PROVE  IInv'
<1> DEFINE kept == (promise.memory \ {bit}) \cup (memory' \cap {bit})
<1>1. /\ bit \notin strings /\ Store(bit)
      /\ promise' = [promise EXCEPT !.memory = kept]
      /\ strings' = strings /\ tangled' = tangled
      /\ operands' = operands /\ zero' = zero /\ op' = op /\ done' = done
  BY DEF ResultStore, Store
<1>2. TypeOK /\ WithinStrings /\ Resumable /\ ResultIsWhole /\ IsPromise(promise)
  BY DEF IInv
<1>3. /\ promise'.memory = kept /\ promise'.zero = promise.zero
      /\ promise'.operands = promise.operands /\ IsPromise(promise')
  BY <1>1, <1>2 DEF IsPromise
<1>4. memory' = (memory \ {bit}) \cup (memory' \cap {bit}) /\ memory' \subseteq MemoryBits
  BY <1>1, <1>2 DEF Store, TypeOK
<1>5. TypeOK'
  BY <1>1, <1>2, <1>4 DEF TypeOK
<1>6. WithinStrings'
  BY <1>1, <1>2 DEF WithinStrings
<1>7. Resumable'
  <2>1. ASSUME ~done PROVE StoreKeeps(bit)
    BY <1>1, <1>2, <2>1, StoreKept DEF WithinStrings
  <2>2. ASSUME ~done
        PROVE  LET rest == Outcome(op, operands, memory', zero)
               IN  /\ rest.operands = promise.operands /\ rest.zero = promise.zero
                   /\ tangled \/ rest.memory = kept
    <3> DEFINE before == Outcome(op, operands, memory, zero)
               after == Outcome(op, operands, memory', zero)
    <3>1. /\ before.operands = promise.operands /\ before.zero = promise.zero
          /\ tangled \/ before.memory = promise.memory
      BY <1>2, <2>2 DEF Resumable
    <3>2. /\ after.operands = before.operands /\ after.zero = before.zero
          /\ after.memory = (before.memory \ {bit}) \cup (memory' \cap {bit})
      BY <2>1, <2>2 DEF StoreKeeps
    <3> HIDE DEF before, after
    <3>3. after.operands = promise.operands /\ after.zero = promise.zero /\ (tangled \/ after.memory = kept)
      BY <3>1, <3>2
    <3>4. QED
      BY <3>3 DEF after
  <2> HIDE DEF kept
  <2>3. QED
    BY <1>1, <1>3, <2>2 DEF Resumable
<1>8. ResultIsWhole'
  <2>1. tangled \/ memory = promise.memory => tangled \/ memory' = kept
    BY <1>4
  <2> HIDE DEF kept
  <2>2. QED
    BY <1>1, <1>2, <1>3, <2>1 DEF ResultIsWhole
<1>9. QED
  BY <1>3, <1>5, <1>6, <1>7, <1>8 DEF IInv

LEMMA StutterHolds == IInv /\ UNCHANGED resultVars => IInv'
BY DEF IInv, resultVars, TypeOK, IsPromise, WithinStrings, Resumable, ResultIsWhole

LEMMA Invariant == ResultSpec => []IInv
<1>1. IInv /\ [ResultNext]_resultVars => IInv'
  BY PassHolds, StoreHolds, StutterHolds DEF ResultNext
<1>2. QED
  BY InitHolds, <1>1, PTL DEF ResultSpec

-----------------------------------------------------------------------------
\* Registers keep their width, memory its size, through every pass and store
\* (BitString).
THEOREM TypeCorrect == ResultSpec => []TypeOK
<1>1. IInv => TypeOK
  BY DEF IInv
<1>2. QED
  BY <1>1, Invariant, PTL

\* Between two passes of step_bitstring and step_bit_search the registers and
\* memory alone tell what is left of the instruction: started afresh from them,
\* after whatever a handler stored beside the strings, it would leave what it
\* was to leave when it began (BitStringResult).
THEOREM CanBeResumed == ResultSpec => []Resumable
<1>1. IInv => Resumable
  BY DEF IInv
<1>2. QED
  BY <1>1, Invariant, PTL

\* An instruction that is done has left its whole result, however many passes
\* it took and whatever came between them (BitStringResult).
THEOREM LeavesTheWholeResult == ResultSpec => []ResultIsWhole
<1>1. IInv => ResultIsWhole
  BY DEF IInv
<1>2. QED
  BY <1>1, Invariant, PTL

-----------------------------------------------------------------------------
(* Floating point.  A number is an odd part times a power of two, one way.  *)

\* A power of two is more than its exponent, and in the order of exponents.
LEMMA PowerAbove ==
  ASSUME NEW n \in Nat
  PROVE  n < 2^n
<1> DEFINE S == {k \in Nat : k < 2^k}
<1>1. 0 \in S
  <2>1. 2^0 \in Nat \ {0}
    BY PowerPositive
  <2>2. QED
    BY <2>1
<1>2. ASSUME NEW k \in Nat, k \in S PROVE k + 1 \in S
  <2> DEFINE p == 2^k
             q == 2^(k + 1)
  <2>1. q = 2 * p /\ p \in Nat \ {0} /\ k < p
    BY <1>2, PowerDoubles, PowerPositive
  <2> HIDE DEF p, q
  <2>2. k + 1 < q
    BY <2>1
  <2>3. QED
    BY <2>2 DEF q
<1> HIDE DEF S
<1>3. Nat \subseteq S
  BY <1>1, <1>2, Induction
<1>4. QED
  BY <1>3 DEF S

LEMMA PowerOrder ==
  ASSUME NEW m \in Nat, NEW n \in Nat
  PROVE  /\ m <= n => 2^m <= 2^n
         /\ m < n => 2 * 2^m <= 2^n
<1> DEFINE a == 2^m
           b == 2^n
<1>1. a \in Nat \ {0} /\ b \in Nat \ {0}
  BY PowerPositive
<1>2. ASSUME m < n PROVE 2 * a <= b
  <2> DEFINE d == n - m - 1
             c == 2^d
             e == 2^(m + 1)
  <2>1. d \in Nat /\ n = (m + 1) + d
    BY <1>2
  <2>2. c \in Nat \ {0} /\ e = 2 * a
    BY <2>1, PowerPositive, PowerDoubles
  <2>3. b = e * c
    <3> HIDE DEF d
    <3>1. 2^((m + 1) + d) = 2^(m + 1) * 2^d
      BY <2>1, PowersMultiply
    <3>2. QED
      BY <2>1, <3>1
  <2> HIDE DEF a, b, c, d, e
  <2>4. e \in Nat /\ e * 1 <= e * c
    <3>1. e \in Nat
      BY <1>1, <2>2
    <3>2. QED
      BY <2>2, <3>1, ProductMonotone
  <2>5. QED
    BY <1>1, <2>2, <2>3, <2>4
<1> HIDE DEF a, b
<1>3. m = n => a = b
  BY DEF a, b
<1>4. (m <= n => a <= b) /\ (m < n => 2 * a <= b)
  BY <1>1, <1>2, <1>3
<1>5. QED
  BY <1>4 DEF a, b

\* Every number but zero is an odd number times a power of two, in one way.
Odd(n) == n \in Nat /\ n % 2 = 1

LEMMA OddForm ==
  ASSUME NEW n \in Nat \ {0}
  PROVE  \E k \in Nat, o \in Nat : Odd(o) /\ n = o * 2^k
<1> DEFINE Form(m) == \E k \in Nat, o \in Nat : Odd(o) /\ m = o * 2^k
           S == {m \in Nat \ {0} : ~Form(m)}
<1>1. SUFFICES ASSUME S # {} PROVE FALSE
  BY Zenon
<1>2. PICK m \in S : \A j \in S : m <= j
  <2>1. S \subseteq Nat
    OBVIOUS
  <2> HIDE DEF S
  <2>2. QED
    BY <1>1, <2>1, LeastNumber
<1>3. m \in Nat /\ m # 0 /\ ~Form(m)
  BY <1>2
<1> HIDE DEF Form
<1>4. CASE m % 2 = 1
  <2>1. m = m * 2^0
    BY <1>3
  <2>2. Form(m)
    BY <1>3, <1>4, <2>1 DEF Form, Odd
  <2>3. QED
    BY <1>3, <2>2
<1>5. CASE m % 2 # 1
  <2> DEFINE h == m \div 2
  <2>1. h \in Nat /\ h # 0 /\ h < m /\ m = 2 * h
    BY <1>3, <1>5
  <2> HIDE DEF h
  <2>2. Form(h)
    BY <1>2, <2>1
  <2>3. PICK k \in Nat, o \in Nat : Odd(o) /\ h = o * 2^k
    BY <2>2 DEF Form
  <2>4. m = o * 2^(k + 1)
    <3> DEFINE p == 2^k
               q == 2^(k + 1)
    <3>1. p \in Nat /\ q = 2 * p /\ h = o * p
      BY <2>3, PowerPositive, PowerDoubles
    <3> HIDE DEF p, q
    <3>2. m = o * q
      BY <2>1, <3>1, SMT
    <3>3. QED
      BY <3>2 DEF q
  <2>5. Form(m)
    <3>1. k + 1 \in Nat
      OBVIOUS
    <3>2. QED
      BY <2>3, <2>4, <3>1 DEF Form
  <2>6. QED
    BY <1>3, <2>5
<1>6. QED
  BY <1>4, <1>5

LEMMA OddFormBelow ==
  ASSUME NEW o \in Nat, NEW p \in Nat, Odd(o), Odd(p), NEW j \in Nat, NEW k \in Nat, o * 2^j = p * 2^k
  PROVE  ~(j < k)
<1> SUFFICES ASSUME j < k PROVE FALSE
  OBVIOUS
<1> DEFINE a == 2^j
           d == k - j - 1
           c == 2^d
<1>1. d \in Nat /\ k = j + (d + 1)
  OBVIOUS
<1>2. a \in Nat \ {0} /\ c \in Nat \ {0}
  BY <1>1, PowerPositive
<1>3. 2^k = a * (2 * c)
  <2> HIDE DEF d
  <2>1. 2^(j + (d + 1)) = 2^j * 2^(d + 1)
    BY <1>1, PowersMultiply
  <2>2. 2^(d + 1) = 2 * 2^d
    BY <1>1, PowerDoubles
  <2>3. QED
    BY <1>1, <2>1, <2>2
<1> HIDE DEF a, c, d
<1>4. a * o = a * (2 * (p * c))
  <2>1. o * a = p * (a * (2 * c))
    BY <1>3 DEF a
  <2>2. QED
    BY <1>2, <2>1, SMT
<1>5. o = 2 * (p * c)
  <2> DEFINE r == 2 * (p * c)
  <2>1. r \in Nat
    BY <1>2
  <2>2. a * r = a * o + 0 /\ 0 \in 0..(a - 1)
    BY <1>2, <1>4
  <2> HIDE DEF r
  <2>3. (a * o + 0) \div a = o /\ (a * r + 0) \div a = r
    BY <1>2, <2>1, DivisionOf
  <2>4. a * o + 0 = a * r + 0
    BY <1>2, <2>1, <2>2
  <2>5. QED
    BY <2>3, <2>4 DEF r
<1>6. QED
  <2> DEFINE s == p * c
  <2>1. s \in Nat
    BY <1>2
  <2> HIDE DEF s
  <2>2. o = 2 * s /\ o % 2 = 1
    BY <1>5 DEF s, Odd
  <2>3. QED
    BY <2>1, <2>2

LEMMA OddFormUnique ==
  ASSUME NEW o \in Nat, NEW p \in Nat, Odd(o), Odd(p), NEW j \in Nat, NEW k \in Nat, o * 2^j = p * 2^k
  PROVE  o = p /\ j = k
<1>1. ~(j < k)
  BY OddFormBelow
<1>2. ~(k < j)
  <2>1. p * 2^k = o * 2^j
    OBVIOUS
  <2>2. QED
    BY <2>1, OddFormBelow
<1>3. j = k
  BY <1>1, <1>2
<1>4. o = p
  <2> DEFINE a == 2^j
  <2>1. a \in Nat \ {0} /\ o * a = p * a
    BY <1>3, PowerPositive
  <2> HIDE DEF a
  <2>2. (a * o + 0) \div a = o /\ (a * p + 0) \div a = p /\ 0 \in 0..(a - 1)
    BY <2>1, DivisionOf
  <2>3. a * o + 0 = a * p + 0
    BY <2>1
  <2>4. QED
    BY <2>2, <2>3
<1>5. QED
  BY <1>3, <1>4

\* A number is kept as its odd part.
LEMMA NumberIs ==
  ASSUME NEW neg, NEW o \in Nat, Odd(o), NEW k \in Nat, NEW e \in Int
  PROVE  Number(neg, o * 2^k, e) = [kind |-> "finite", neg |-> neg, m |-> o, e |-> e + k]
<1> DEFINE m == o * 2^k
           Twos(j) == m % 2^j = 0 /\ (m \div 2^j) % 2 = 1
           twos == CHOOSE j \in 0..m : Twos(j)
<1>1. Number(neg, m, e) = IF m = 0 THEN [kind |-> "finite", neg |-> neg, m |-> 0, e |-> 0]
                          ELSE [kind |-> "finite", neg |-> neg, m |-> m \div 2^twos, e |-> e + twos]
  BY Zenon DEF Number
<1> DEFINE p == 2^k
<1>2. p \in Nat \ {0} /\ k < p /\ o # 0 /\ o \in Nat
  BY PowerPositive, PowerAbove DEF Odd
<1> HIDE DEF p
<1>3. m = p * o + 0 /\ m \in Nat /\ m # 0 /\ p <= m
  <2>1. m = o * p
    BY DEF p
  <2>2. p * 1 <= p * o
    BY <1>2, ProductMonotone
  <2>3. o * p = p * o /\ p * o \in Nat
    BY <1>2
  <2> HIDE DEF m
  <2> DEFINE r == p * o
  <2>4. m = r /\ r \in Nat /\ p * 1 <= r /\ p * 1 = p
    BY <1>2, <2>1, <2>2, <2>3
  <2> HIDE DEF r
  <2>5. m = r + 0 /\ m \in Nat /\ m # 0 /\ p <= m
    BY <1>2, <2>4
  <2>6. QED
    BY <2>5 DEF r
<1>4. k \in 0..m /\ Twos(k)
  <2>1. 0 \in 0..(p - 1)
    BY <1>2
  <2>2. (p * o + 0) \div p = o /\ (p * o + 0) % p = 0
    BY <1>2, <2>1, DivisionOf
  <2> HIDE DEF m
  <2>3. k \in 0..m
    BY <1>2, <1>3
  <2>4. m % 2^k = 0 /\ (m \div 2^k) % 2 = 1
    BY <1>3, <2>2 DEF p, Odd
  <2>5. QED
    BY <2>3, <2>4
<1> HIDE DEF m, Twos
<1>5. twos \in 0..m /\ Twos(twos)
  BY <1>4
<1> HIDE DEF twos
<1>6. twos = k /\ m \div 2^twos = o
  <2> DEFINE b == 2^twos
             q == m \div b
  <2>1. b \in Nat \ {0} /\ twos \in Nat
    BY <1>3, <1>5, PowerPositive
  <2>2. m % b = 0 /\ q % 2 = 1
    BY <1>5 DEF Twos
  <2>3. q \in Int /\ m = b * q + (m % b)
    <3> HIDE DEF b
    <3>1. m \in Int
      BY <1>3
    <3>2. QED
      BY <2>1, <3>1, Divided
  <2>4. q \in Nat
    <3> HIDE DEF b
    <3>1. m \in Nat /\ b \in Nat /\ b > 0
      BY <1>3, <2>1
    <3>2. QED
      BY <3>1, SMT
  <2> HIDE DEF b, q
  <2>5. m = q * b /\ Odd(q)
    BY <2>1, <2>2, <2>3, <2>4 DEF Odd
  <2>6. o * 2^k = q * 2^twos
    BY <2>5 DEF m, b
  <2>7. o = q /\ k = twos
    BY <2>1, <2>4, <2>5, <2>6, OddFormUnique
  <2>8. QED
    BY <2>7 DEF q, b
<1>7. Number(neg, m, e) = [kind |-> "finite", neg |-> neg, m |-> o, e |-> e + k]
  BY <1>1, <1>3, <1>6
<1>8. QED
  BY <1>7 DEF m

LEMMA ZeroIs ==
  ASSUME NEW neg, NEW e
  PROVE  Number(neg, 0, e) = [kind |-> "finite", neg |-> neg, m |-> 0, e |-> 0]
  BY DEF Number

\* How many bits a number takes.
LEMMA BitsAre ==
  ASSUME NEW n \in Nat \ {0}
  PROVE  Bits(n) \in Nat \ {0} /\ n < 2^Bits(n) /\ n >= 2^(Bits(n) - 1)
<1> DEFINE Holds(b) == n < 2^b
           S == {b \in Nat : Holds(b)}
           Fits(b) == Holds(b) /\ (b = 0 \/ n >= 2^(b - 1))
<1>1. n \in S
  BY PowerAbove
<1>2. PICK least \in S : \A b \in S : least <= b
  <2>1. S \subseteq Nat /\ S # {}
    BY <1>1
  <2> HIDE DEF S
  <2>2. QED
    BY <2>1, LeastNumber
<1>3. least \in 0..n /\ Fits(least)
  <2>1. least \in Nat /\ Holds(least) /\ least <= n
    BY <1>1, <1>2
  <2>2. ASSUME least # 0 PROVE n >= 2^(least - 1)
    <3> DEFINE one == least - 1
               p == 2^one
    <3>1. one \in Nat /\ one < least
      BY <2>1, <2>2
    <3>2. one \notin S
      <4> HIDE DEF S, one
      <4>1. one \in S => least <= one
        BY <1>2
      <4>2. QED
        BY <2>1, <3>1, <4>1
    <3>3. p \in Nat
      BY <3>1, PowerPositive
    <3>4. ~(n < p)
      BY <3>1, <3>2
    <3> HIDE DEF p
    <3>5. n >= p
      BY <3>3, <3>4
    <3>6. QED
      BY <3>5 DEF p
  <2>3. QED
    BY <2>1, <2>2
<1>4. Bits(n) = CHOOSE b \in 0..n : Fits(b)
  BY Zenon DEF Bits
<1> HIDE DEF Fits
<1>5. Bits(n) \in 0..n /\ Fits(Bits(n))
  BY <1>3, <1>4
<1> HIDE DEF S
<1> DEFINE b == Bits(n)
<1>6. b # 0
  <2>1. 2^0 = 1
    OBVIOUS
  <2>2. ~(n < 1)
    OBVIOUS
  <2>3. QED
    BY <1>5, <2>1, <2>2 DEF Fits
<1>7. QED
  BY <1>5, <1>6 DEF Fits

LEMMA OneBit == Bits(1) = 1
<1> DEFINE b == Bits(1)
           c == b - 1
           p == 2^c
<1>1. b \in Nat \ {0} /\ 1 >= p
  BY BitsAre
<1>2. c \in Nat /\ c < p
  <2>1. c \in Nat
    BY <1>1
  <2> HIDE DEF c
  <2>2. QED
    BY <2>1, PowerAbove
<1>3. p \in Nat
  BY <1>2, PowerPositive
<1> HIDE DEF p, b
<1>4. b = 1
  BY <1>1, <1>2, <1>3
<1>5. QED
  BY <1>4 DEF b

-----------------------------------------------------------------------------
(* Rounding: the nearest number of so many bits.                            *)

LEMMA HalfEvenOne ==
  ASSUME NEW n \in Nat
  PROVE  HalfEven(n, 1) = n
<1>1. n \div 1 = n /\ n % 1 = 0
  OBVIOUS
<1>2. QED
  BY <1>1 DEF HalfEven

LEMMA HalfEvenIs ==
  ASSUME NEW n \in Nat, NEW d \in Nat \ {0}
  PROVE  /\ n \div d \in Nat
         /\ HalfEven(n, d) \in {n \div d, (n \div d) + 1}
         /\ n >= d => n \div d >= 1
<1> DEFINE q == n \div d
<1>1. q \in Int /\ n % d \in 0..(d - 1) /\ n = d * q + (n % d)
  BY Divided
<1>2. q \in Nat
  <2>1. d > 0 /\ d \in Nat
    OBVIOUS
  <2>2. QED
    BY <2>1, SMT
<1>3. HalfEven(n, d) \in {q, q + 1}
  BY Zenon DEF HalfEven
<1>4. ASSUME n >= d PROVE q >= 1
  <2>1. q = 0 => n = n % d
    <3>1. q = 0 => d * q = 0
      OBVIOUS
    <3> DEFINE r == n % d
               s == d * q
    <3> HIDE DEF q
    <3>2. q = 0 => s = 0 /\ n = s + r /\ r \in Int
      BY <1>1, <3>1
    <3> HIDE DEF r, s
    <3>3. QED
      BY <3>2 DEF r
  <2> DEFINE r == n % d
  <2>2. r \in 0..(d - 1)
    BY <1>1
  <2> HIDE DEF q, r
  <2>3. q # 0
    BY <1>4, <2>1, <2>2 DEF r
  <2>4. QED
    BY <1>2, <2>3
<1>5. QED
  BY <1>2, <1>3, <1>4

\* The significant bits that a number is brought to when it is rounded.
LEMMA Brought ==
  ASSUME NEW num \in Nat \ {0}, NEW bits \in Nat \ {0}
  PROVE  LET near == bits - (Bits(num) - Bits(1))
         IN  (IF Scaled(num, near) >= Scaled(1, -near) * 2^bits THEN near - 1 ELSE near) = bits - Bits(num)
<1> DEFINE b == Bits(num)
           c == b - 1
           near == bits - (b - Bits(1))
           p == 2^c
           full == 2^bits
<1>1. b \in Nat \ {0} /\ num >= p
  BY BitsAre
<1> HIDE DEF b
<1>2. c \in Nat /\ near = bits - c
  BY <1>1, OneBit
<1>3. p \in Nat \ {0} /\ full \in Nat \ {0}
  BY <1>2, PowerPositive
<1>4. Scaled(num, near) >= Scaled(1, -near) * full
  <2>1. CASE near >= 0
    <3>1. MaxOf(near, 0) = near /\ MaxOf(-near, 0) = 0 /\ near \in Nat
      BY <1>2, <2>1 DEF MaxOf
    <3> DEFINE s == 2^near
    <3>2. s \in Nat \ {0}
      BY <3>1, PowerPositive
    <3>3. full = s * p
      <4> HIDE DEF c, near
      <4>1. near + c = bits
        BY <1>2, <3>1
      <4>2. 2^(near + c) = 2^near * 2^c
        BY <1>2, <3>1, PowersMultiply
      <4>3. QED
        BY <4>1, <4>2
    <3>4. Scaled(num, near) = num * s /\ Scaled(1, -near) = 1
      <4> HIDE DEF near
      <4>1. Scaled(num, near) = num * 2^near
        BY <3>1 DEF Scaled
      <4>2. Scaled(1, -near) = 1 * 2^0
        BY <3>1 DEF Scaled
      <4>3. 1 * 2^0 = 1
        OBVIOUS
      <4>4. QED
        BY <4>1, <4>2, <4>3
    <3> HIDE DEF s, p, full, near
    <3>5. s * p <= s * num
      BY <1>1, <1>3, <3>2, ProductMonotone
    <3>6. num * s >= full
      <4>1. num * s = s * num
        BY <3>2
      <4> DEFINE x == s * num
      <4>2. x \in Int
        BY <3>2
      <4> HIDE DEF x
      <4>3. QED
        BY <1>3, <3>3, <3>5, <4>1, <4>2 DEF x
    <3>7. 1 * full = full
      BY <1>3
    <3>8. QED
      BY <3>4, <3>6, <3>7
  <2>2. CASE ~(near >= 0)
    <3> DEFINE over == -near
    <3>1. MaxOf(near, 0) = 0 /\ MaxOf(over, 0) = over /\ over \in Nat
      BY <1>2, <2>2 DEF MaxOf
    <3> DEFINE s == 2^over
    <3>2. p = s * full
      <4> HIDE DEF c, over
      <4>1. over + bits = c
        BY <1>2, <3>1 DEF over
      <4>2. 2^(over + bits) = 2^over * 2^bits
        BY <3>1, PowersMultiply
      <4>3. QED
        BY <4>1, <4>2
    <3>3. Scaled(num, near) = num /\ Scaled(1, over) = s
      <4> HIDE DEF near, over
      <4>1. Scaled(num, near) = num * 2^0
        BY <3>1 DEF Scaled
      <4>2. Scaled(1, over) = 1 * s
        BY <3>1 DEF Scaled
      <4>3. s \in Nat
        BY <3>1, PowerPositive
      <4> HIDE DEF s
      <4>4. num * 2^0 = num /\ 1 * s = s
        BY <4>3
      <4>5. QED
        BY <4>1, <4>2, <4>4
    <3> HIDE DEF s, p, full
    <3>4. QED
      BY <1>1, <3>2, <3>3
  <2>3. QED
    BY <2>1, <2>2
<1>5. near - 1 = bits - b
  BY <1>1, <1>2
<1> HIDE DEF near
<1>6. QED
  BY <1>4, <1>5 DEF near, b, full

\* A number is rounded to one of no more than so many bits, and never to
\* nothing when it is no less than the least.
RoundsTo(neg, num, exp, bits, least, q, k) ==
  /\ Rounded(neg, num, 1, exp, bits, least) = Number(neg, q, exp - k)
  /\ q \in Nat /\ q <= 2^bits /\ k \in Int /\ exp - k >= least
  /\ exp >= least => q >= 1
  /\ k >= 0 => q = num * 2^k

\* By how many bits, and how.
RoundsBy(num, exp, bits, least, q, k) ==
  /\ k < 0 => q = HalfEven(num, 2^(-k))
  /\ k <= bits - Bits(num)
  /\ k = bits - Bits(num) \/ exp - k = least

LEMMA RoundedBy ==
  ASSUME NEW neg, NEW num \in Nat \ {0}, NEW exp \in Int, NEW bits \in Nat \ {0}, NEW least \in Int
  PROVE  \E q, k : RoundsTo(neg, num, exp, bits, least, q, k) /\ RoundsBy(num, exp, bits, least, q, k)
<1> DEFINE b == Bits(num)
           exact == bits - b
           k == IF exp - exact < least THEN exp - least ELSE exact
           q == HalfEven(Scaled(num, k), Scaled(1, -k))
           full == 2^bits
<1>1. Rounded(neg, num, 1, exp, bits, least) = Number(neg, q, exp - k)
  <2> DEFINE near == bits - (Bits(num) - Bits(1))
             taken == IF Scaled(num, near) >= Scaled(1, -near) * 2^bits THEN near - 1 ELSE near
             K(t) == IF exp - t < least THEN exp - least ELSE t
  <2>1. Rounded(neg, num, 1, exp, bits, least) =
          Number(neg, HalfEven(Scaled(num, K(taken)), Scaled(1, -K(taken))), exp - K(taken))
    BY Zenon DEF Rounded
  <2>2. taken = exact
    BY Brought
  <2> HIDE DEF taken, exact
  <2>3. QED
    BY <2>1, <2>2
<1> DEFINE c == b - 1
           p == 2^c
           above == 2^b
<1>2. b \in Nat \ {0} /\ num < above /\ num >= p
  BY BitsAre
<1> HIDE DEF b
<1>3. c \in Nat /\ k \in Int /\ k <= exact /\ exact \in Int /\ exp - k >= least /\ exact + b = bits
  <2>1. c \in Nat /\ exact \in Int /\ exact + b = bits
    BY <1>2
  <2> HIDE DEF exact
  <2>2. k \in Int /\ k <= exact /\ exp - k >= least
    <3>1. CASE exp - exact < least
      BY <2>1, <3>1
    <3>2. CASE ~(exp - exact < least)
      BY <2>1, <3>2
    <3>3. QED
      BY <3>1, <3>2
  <2>3. QED
    BY <2>1, <2>2
<1>4. k < 0 /\ exp >= least => k = exact
  <2>1. exact \in Int
    BY <1>3
  <2> HIDE DEF exact
  <2>2. CASE exp - exact < least
    BY <2>1, <2>2
  <2>3. CASE ~(exp - exact < least)
    BY <2>1, <2>3
  <2>4. QED
    BY <2>2, <2>3
<1>9. k <= exact /\ (k = exact \/ exp - k = least)
  <2>1. exact \in Int
    BY <1>3
  <2> HIDE DEF exact
  <2>2. CASE exp - exact < least
    <3>1. exp - (exp - least) = least /\ exp - least <= exact
      BY <2>1, <2>2
    <3>2. QED
      BY <2>2, <3>1
  <2>3. CASE ~(exp - exact < least)
    BY <2>1, <2>3
  <2>4. QED
    BY <2>2, <2>3
<1> HIDE DEF k, exact
<1>5. full \in Nat \ {0} /\ p \in Nat \ {0} /\ above \in Nat \ {0}
  BY <1>2, <1>3, PowerPositive
<1> DEFINE down == -k
<1>6. CASE k >= 0
  <2> DEFINE s == 2^k
             x == num * s
  <2>1. MaxOf(k, 0) = k /\ MaxOf(down, 0) = 0 /\ k \in Nat
    BY <1>3, <1>6 DEF MaxOf
  <2>2. s \in Nat \ {0}
    BY <2>1, PowerPositive
  <2>3. Scaled(num, k) = x /\ Scaled(1, down) = 1
    <3> HIDE DEF down
    <3>1. Scaled(num, k) = num * 2^k
      BY <2>1 DEF Scaled
    <3>2. Scaled(1, down) = 1 * 2^0
      BY <2>1 DEF Scaled
    <3>3. 1 * 2^0 = 1
      OBVIOUS
    <3>4. QED
      BY <3>1, <3>2, <3>3
  <2>4. s * above <= full
    <3> DEFINE n == k + b
               t == 2^n
    <3>1. n \in Nat /\ n <= bits /\ k \in Nat
      BY <1>2, <1>3, <2>1
    <3>2. t = s * above
      BY <1>2, <3>1, PowersMultiply
    <3>3. t <= full
      <4> HIDE DEF n
      <4>1. QED
        BY <3>1, PowerOrder
    <3>4. QED
      BY <3>2, <3>3
  <2> HIDE DEF s, above, full, down
  <2>5. x \in Nat /\ x >= 1 /\ x <= full
    <3> DEFINE y == s * above
               z == s * num
    <3>1. s * num <= s * above /\ s * 1 <= s * num
      BY <1>2, <1>5, <2>2, ProductMonotone
    <3>2. x = z /\ z \in Nat /\ y \in Nat /\ s * 1 = s
      BY <1>5, <2>2
    <3> HIDE DEF x, y, z
    <3>3. z <= y /\ s * 1 <= z /\ y <= full
      BY <2>4, <3>1 DEF y, z
    <3>4. QED
      BY <1>5, <2>2, <3>2, <3>3
  <2> HIDE DEF x
  <2>6. q = x
    BY <2>3, <2>5, HalfEvenOne DEF down
  <2> HIDE DEF q
  <2>7. RoundsTo(neg, num, exp, bits, least, q, k)
    <3>1. q = num * 2^k
      BY <2>6 DEF x, s
    <3>2. QED
      BY <1>1, <1>3, <2>5, <2>6, <3>1, Zenon DEF RoundsTo, full
  <2>8. RoundsBy(num, exp, bits, least, q, k)
    <3>1. ~(k < 0)
      BY <1>3, <1>6
    <3>2. QED
      BY <1>9, <3>1, Zenon DEF RoundsBy, b, exact
  <2>9. QED
    BY <2>7, <2>8
<1>7. CASE ~(k >= 0)
  <2> DEFINE d == 2^down
             r == num \div d
  <2>1. MaxOf(k, 0) = 0 /\ MaxOf(down, 0) = down /\ down \in Nat
    BY <1>3, <1>7 DEF MaxOf
  <2>2. d \in Nat \ {0}
    BY <2>1, PowerPositive
  <2>3. Scaled(num, k) = num /\ Scaled(1, down) = d
    <3> HIDE DEF down
    <3>1. Scaled(num, k) = num * 2^0
      BY <2>1 DEF Scaled
    <3>2. Scaled(1, down) = 1 * d
      BY <2>1 DEF Scaled
    <3> HIDE DEF d
    <3>3. num * 2^0 = num /\ 1 * d = d
      BY <2>2
    <3>4. QED
      BY <3>1, <3>2, <3>3
  <2>4. num < d * full
    <3> DEFINE n == down + bits
               t == 2^n
    <3>1. n \in Nat /\ b <= n /\ down \in Nat
      BY <1>2, <1>3, <2>1
    <3> HIDE DEF down
    <3>2. t = d * full
      BY <3>1, PowersMultiply
    <3>3. above <= t
      <4> HIDE DEF n
      <4>1. QED
        BY <1>2, <3>1, PowerOrder
    <3> DEFINE u == d * full
    <3>4. u = t
      BY <3>2
    <3>5. t \in Nat
      BY <3>1, PowerPositive
    <3> HIDE DEF u, t, d, above
    <3>6. num < u
      BY <1>2, <1>5, <3>3, <3>4, <3>5
    <3>7. QED
      BY <3>6 DEF u
  <2>5. exp >= least => num >= d
    <3> SUFFICES ASSUME exp >= least PROVE num >= d
      OBVIOUS
    <3>1. down <= c /\ down \in Nat
      <4>1. b \in Int /\ exact \in Int /\ k \in Int /\ exact + b = bits /\ down \in Nat
        BY <1>2, <1>3, <2>1
      <4>2. k < 0
        BY <1>7, <4>1
      <4>3. k = exact
        BY <1>4, <4>2
      <4>4. QED
        BY <4>1, <4>3
    <3> HIDE DEF down, c
    <3>2. d <= p
      BY <1>3, <3>1, PowerOrder
    <3> HIDE DEF d, p
    <3>3. QED
      BY <1>2, <1>5, <2>2, <3>2
  <2> HIDE DEF d, full, down
  <2>6. r \in Nat /\ HalfEven(num, d) \in {r, r + 1} /\ (num >= d => r >= 1)
    BY <2>2, HalfEvenIs
  <2>7. r \in 0..(full - 1)
    <3> DEFINE u == d * full
    <3>1. u \in Nat
      BY <1>5, <2>2
    <3>2. num < u
      BY <2>4
    <3> HIDE DEF u
    <3>3. num \in 0..(u - 1)
      BY <3>1, <3>2
    <3>4. num \in 0..(d * full - 1)
      BY <3>3 DEF u
    <3>5. QED
      BY <1>5, <2>2, <3>4, QuotientBelow
  <2> HIDE DEF r
  <2>8. q = HalfEven(num, d)
    BY <2>3 DEF down
  <2> HIDE DEF q
  <2>9. q \in Nat /\ q <= full /\ (exp >= least => q >= 1)
    <3>1. q \in {r, r + 1} /\ full \in Nat /\ (exp >= least => r >= 1)
      BY <1>5, <2>5, <2>6, <2>8
    <3>2. r \in Nat /\ r < full
      BY <1>5, <2>6, <2>7
    <3>3. QED
      BY <3>1, <3>2
  <2>10. RoundsTo(neg, num, exp, bits, least, q, k)
    BY <1>1, <1>3, <1>7, <2>9, Zenon DEF RoundsTo, full
  <2>11. RoundsBy(num, exp, bits, least, q, k)
    BY <1>9, <2>8, Zenon DEF RoundsBy, b, d, down, exact
  <2>12. QED
    BY <2>10, <2>11
<1>8. QED
  BY <1>6, <1>7

LEMMA RoundedTo ==
  ASSUME NEW neg, NEW num \in Nat \ {0}, NEW exp \in Int, NEW bits \in Nat \ {0}, NEW least \in Int
  PROVE  \E q, k : RoundsTo(neg, num, exp, bits, least, q, k)
  BY RoundedBy

-----------------------------------------------------------------------------
(* The fields of a word.                                                    *)

\* The sizes of the fields of a word.
FRACTIONS == 2^(PRECISION - 1)
EXPONENTS == 2^EXPONENT_BITS

LEMMA FieldSizes ==
  /\ FRACTIONS \in Nat \ {0} /\ 2^PRECISION = 2 * FRACTIONS
  /\ EXPONENTS \in Nat /\ EXPONENTS >= 4 /\ EXPONENTS = 2 * (BIAS + 1)
  /\ BIAS \in Nat /\ BIAS >= 1
  /\ LEAST \in Int /\ LEAST < 0 /\ LEAST = 2 - BIAS - PRECISION
  /\ 2^(FLOAT_BITS - 1) = FRACTIONS * EXPONENTS
  /\ 2^FLOAT_BITS = 2 * (FRACTIONS * EXPONENTS)
<1> DEFINE p == PRECISION - 1
           r == EXPONENT_BITS - 1
           t == EXPONENT_BITS - 2
           h == 2^r
           w == FLOAT_BITS - 1
<1>1. PRECISION \in Nat /\ p \in Nat /\ p >= 1 /\ PRECISION = p + 1
  BY FpuAssumption
<1>2. EXPONENT_BITS \in Nat /\ r \in Nat /\ r >= 1 /\ EXPONENT_BITS = r + 1 /\ t \in Nat /\ r = t + 1
  BY FpuAssumption
<1>3. w = p + EXPONENT_BITS /\ w \in Nat /\ FLOAT_BITS = w + 1
  BY <1>1, <1>2 DEF FLOAT_BITS
<1>4. FRACTIONS \in Nat \ {0} /\ 2^PRECISION = 2 * FRACTIONS
  <2> DEFINE a == 2^p
  <2>1. a \in Nat \ {0} /\ 2^(p + 1) = 2 * a
    BY <1>1, PowerPositive, PowerDoubles
  <2>2. FRACTIONS = a
    BY DEF FRACTIONS
  <2> HIDE DEF a, p
  <2>3. QED
    BY <1>1, <2>1, <2>2
<1>5. EXPONENTS = 2 * h /\ h \in Nat \ {0} /\ h >= 2 /\ BIAS = h - 1
  <2> DEFINE u == 2^t
  <2>1. u \in Nat \ {0}
    BY <1>2, PowerPositive
  <2>2. h = 2 * u
    <3> HIDE DEF r, t
    <3>1. 2^(t + 1) = 2 * 2^t
      BY <1>2, PowerDoubles
    <3>2. QED
      BY <1>2, <3>1
  <2>3. EXPONENTS = 2 * h
    <3> HIDE DEF r, t
    <3>1. 2^(r + 1) = 2 * 2^r
      BY <1>2, PowerDoubles
    <3>2. QED
      BY <1>2, <3>1 DEF EXPONENTS
  <2>4. BIAS = h - 1
    BY DEF BIAS
  <2> HIDE DEF u, h
  <2>5. QED
    BY <2>1, <2>2, <2>3, <2>4
<1>6. 2^w = FRACTIONS * EXPONENTS
  <2> HIDE DEF w, p
  <2>1. 2^(p + EXPONENT_BITS) = 2^p * 2^EXPONENT_BITS
    BY <1>1, <1>2, PowersMultiply
  <2>2. QED
    BY <1>3, <2>1 DEF FRACTIONS, EXPONENTS, p
<1>7. 2^FLOAT_BITS = 2 * 2^w
  <2> HIDE DEF w
  <2>1. 2^(w + 1) = 2 * 2^w
    BY <1>3, PowerDoubles
  <2>2. QED
    BY <1>3, <2>1
<1>8. LEAST = 1 - BIAS - p
  BY DEF LEAST
<1> HIDE DEF h
<1>9. /\ EXPONENTS \in Nat /\ EXPONENTS >= 4 /\ EXPONENTS = 2 * (BIAS + 1)
      /\ BIAS \in Nat /\ BIAS >= 1
  BY <1>5
<1>10. LEAST \in Int /\ LEAST < 0 /\ LEAST = 2 - BIAS - PRECISION
  BY <1>1, <1>8, <1>9
<1>11. QED
  BY <1>4, <1>6, <1>7, <1>9, <1>10

\* A word is its three fields.
Packed(neg, exponent, fraction) ==
  (IF neg THEN FRACTIONS * EXPONENTS ELSE 0) + (FRACTIONS * exponent + fraction)

LEMMA Unpacked ==
  ASSUME NEW neg \in BOOLEAN, NEW x \in 0..(EXPONENTS - 1), NEW f \in 0..(FRACTIONS - 1)
  PROVE  LET word == Packed(neg, x, f)
         IN  /\ word \in Word /\ Negative(word) = neg
             /\ Exponent(word) = x /\ Fraction(word) = f
<1> DEFINE F == FRACTIONS
           E == EXPONENTS
           n == F * x + f
           top == F * E
           word == Packed(neg, x, f)
           y == IF neg THEN E + x ELSE x
<1>1. F \in Nat \ {0} /\ E \in Nat \ {0} /\ top \in Nat /\ x \in Nat /\ f \in Nat /\ f < F /\ x + 1 <= E
  BY FieldSizes
<1>2. n \in Nat /\ n < top
  <2>1. F * (x + 1) <= F * E
    BY <1>1, ProductMonotone
  <2>2. F * (x + 1) = F * x + F /\ F * x \in Nat
    BY <1>1
  <2> DEFINE g == F * x
  <2> HIDE DEF top, F
  <2>3. g \in Nat /\ g + F <= top
    BY <2>1, <2>2 DEF top
  <2> HIDE DEF g
  <2>4. g + f \in Nat /\ g + f < top
    BY <1>1, <2>3
  <2>5. QED
    BY <2>4 DEF g
<1>3. word = IF neg THEN top + n ELSE n
  <2>1. word = (IF neg THEN top ELSE 0) + n
    BY Zenon DEF Packed
  <2> HIDE DEF word, top, n
  <2>2. QED
    BY <1>1, <1>2, <2>1
<1>4. word \in Word /\ Negative(word) = neg
  <2> HIDE DEF word, top, n
  <2>1. Word = 0..(2 * top - 1) /\ \A w : Negative(w) = (w >= top)
    BY FieldSizes DEF Word, Negative, top
  <2>2. word \in 0..(2 * top - 1) /\ (word >= top) = neg
    BY <1>1, <1>2, <1>3
  <2>3. QED
    BY <2>1, <2>2
<1>5. word = F * y + f /\ y \in Nat
  <2>1. CASE neg
    <3>1. F * (E + x) = F * E + F * x /\ F * E \in Nat /\ F * x \in Nat
      BY <1>1
    <3> DEFINE g == F * x
               k == F * (E + x)
    <3>2. k = top + g /\ top \in Nat /\ g \in Nat /\ n = g + f
      BY <3>1
    <3>3. word = top + n /\ F * y = k /\ y \in Nat
      BY <1>1, <1>3, <2>1
    <3> HIDE DEF top, g, k, n, word
    <3> DEFINE z == F * y
    <3> HIDE DEF y
    <3>4. z = k /\ y \in Nat
      BY <3>3
    <3> HIDE DEF z
    <3>5. word = z + f
      BY <1>1, <3>2, <3>3, <3>4
    <3>6. QED
      BY <3>4, <3>5 DEF z
  <2>2. CASE ~neg
    BY <1>1, <1>3, <2>2
  <2>3. QED
    BY <2>1, <2>2
<1> HIDE DEF word, y
<1>6. word \div F = y /\ word % F = f
  <2>1. (F * y + f) \div F = y /\ (F * y + f) % F = f
    BY <1>1, <1>5, DivisionOf
  <2>2. QED
    BY <1>5, <2>1
<1>7. y % E = x
  <2>1. y = E * (IF neg THEN 1 ELSE 0) + x
    BY <1>1 DEF y
  <2> DEFINE q == IF neg THEN 1 ELSE 0
  <2>2. q \in Int /\ x \in 0..(E - 1)
    OBVIOUS
  <2> HIDE DEF q, E
  <2>3. (E * q + x) % E = x
    BY <1>1, <2>2, DivisionOf
  <2>4. QED
    BY <2>1, <2>3 DEF q
<1>8. Exponent(word) = x /\ Fraction(word) = f
  <2>1. Exponent(word) = (word \div F) % E /\ Fraction(word) = word % F
    BY DEF Exponent, Fraction, FRACTIONS, EXPONENTS
  <2>2. QED
    BY <1>6, <1>7, <2>1
<1>9. QED
  BY <1>4, <1>8 DEF word

LEMMA Fields ==
  ASSUME NEW word \in Word
  PROVE  /\ Negative(word) \in BOOLEAN
         /\ Exponent(word) \in 0..(EXPONENTS - 1) /\ Fraction(word) \in 0..(FRACTIONS - 1)
<1> DEFINE F == FRACTIONS
           E == EXPONENTS
           q == word \div F
<1>1. F \in Nat \ {0} /\ E \in Nat \ {0}
  BY FieldSizes
<1>2. word \in Int
  <2> DEFINE last == 2^FLOAT_BITS - 1
  <2>1. word \in 0..last
    BY DEF Word
  <2> HIDE DEF last
  <2>2. QED
    BY <2>1
<1> HIDE DEF F, E
<1>3. q \in Int /\ word % F \in 0..(F - 1)
  BY <1>1, <1>2, Divided
<1> HIDE DEF q
<1>4. q % E \in 0..(E - 1)
  BY <1>1, <1>3, Divided
<1>5. Negative(word) \in BOOLEAN
  BY DEF Negative
<1>6. QED
  BY <1>3, <1>4, <1>5 DEF Exponent, Fraction, FRACTIONS, EXPONENTS, F, E, q

\* What a word stands for.
LEMMA WordIs ==
  ASSUME NEW word
  PROVE  /\ Exponent(word) = EXPONENTS - 1 =>
              FromBits(word) = IF Fraction(word) = 0 THEN Infinite(Negative(word)) ELSE NaN
         /\ Exponent(word) = 0 => FromBits(word) = Number(Negative(word), Fraction(word), LEAST)
         /\ Exponent(word) # 0 /\ Exponent(word) # EXPONENTS - 1 =>
              FromBits(word) = Number(Negative(word), Fraction(word) + FRACTIONS,
                                      Exponent(word) - BIAS - (PRECISION - 1))
<1> DEFINE x == Exponent(word)
           infinite == IF Fraction(word) = 0 THEN Infinite(Negative(word)) ELSE NaN
           denormal == Number(Negative(word), Fraction(word), LEAST)
           normal == Number(Negative(word), Fraction(word) + FRACTIONS, x - BIAS - (PRECISION - 1))
<1>1. FromBits(word) = CASE x = EXPONENTS - 1 -> infinite [] x = 0 -> denormal [] OTHER -> normal
  BY Zenon DEF FromBits, EXPONENTS, FRACTIONS
<1>2. EXPONENTS - 1 # 0
  BY FieldSizes
<1> HIDE DEF x, infinite, denormal, normal
<1>3. /\ x = EXPONENTS - 1 => FromBits(word) = infinite
      /\ x = 0 => FromBits(word) = denormal
      /\ x # 0 /\ x # EXPONENTS - 1 => FromBits(word) = normal
  BY <1>1, <1>2
<1>4. QED
  BY <1>3, Zenon DEF x, infinite, denormal, normal

-----------------------------------------------------------------------------
(* Which numbers have a word.                                               *)

\* What the format has a word for.
Whole(neg, o, e) == [kind |-> "finite", neg |-> neg, m |-> o, e |-> e]
HasWord(x) == \E word \in Word : FromBits(word) = x

LEMMA ZeroHasWord ==
  ASSUME NEW neg \in BOOLEAN
  PROVE  HasWord(Whole(neg, 0, 0))
<1> DEFINE word == Packed(neg, 0, 0)
<1>1. 0 \in 0..(EXPONENTS - 1) /\ 0 \in 0..(FRACTIONS - 1)
  BY FieldSizes
<1>2. word \in Word /\ Negative(word) = neg /\ Exponent(word) = 0 /\ Fraction(word) = 0
  BY <1>1, Unpacked
<1> HIDE DEF word
<1>3. FromBits(word) = Number(neg, 0, LEAST)
  BY <1>2, WordIs
<1>4. QED
  BY <1>2, <1>3, ZeroIs DEF HasWord, Whole

LEMMA InfiniteHasWord ==
  ASSUME NEW neg \in BOOLEAN
  PROVE  HasWord(Infinite(neg))
<1> DEFINE word == Packed(neg, EXPONENTS - 1, 0)
<1>1. EXPONENTS - 1 \in 0..(EXPONENTS - 1) /\ 0 \in 0..(FRACTIONS - 1)
  BY FieldSizes
<1>2. word \in Word /\ Negative(word) = neg /\ Exponent(word) = EXPONENTS - 1 /\ Fraction(word) = 0
  BY <1>1, Unpacked
<1> HIDE DEF word
<1>3. FromBits(word) = Infinite(neg)
  BY <1>2, WordIs
<1>4. QED
  BY <1>2, <1>3 DEF HasWord

LEMMA OddHasWord ==
  ASSUME NEW neg \in BOOLEAN, NEW o \in Nat, Odd(o), o < 2^PRECISION,
         NEW e \in Int, e >= LEAST, BIAS + 1 > e, o < 2^((BIAS + 1) - e)
  PROVE  HasWord(Whole(neg, o, e))
<1> DEFINE b == Bits(o)
           c == b - 1
           s == e - LEAST
           F == FRACTIONS
           E == EXPONENTS
           p == PRECISION - 1
           below == 2^c
           above == 2^b
<1>1. b \in Nat \ {0} /\ o < above /\ o >= below /\ o # 0
  BY BitsAre DEF Odd
<1> HIDE DEF b
<1>2. /\ c \in Nat /\ s \in Nat /\ p \in Nat /\ PRECISION \in Nat /\ b = c + 1 /\ PRECISION = p + 1
      /\ e = LEAST + s
  BY <1>1, FieldSizes, FpuAssumption
<1>3. below \in Nat \ {0} /\ above \in Nat \ {0}
  BY <1>1, <1>2, PowerPositive
<1>4. F \in Nat \ {0} /\ 2^PRECISION = 2 * F /\ F = 2^p /\ E \in Nat /\ E >= 4
  BY FieldSizes DEF FRACTIONS
<1>5. b <= PRECISION
  <2> SUFFICES ASSUME PRECISION <= c PROVE FALSE
    BY <1>2
  <2> DEFINE full == 2^PRECISION
  <2>1. full <= below
    <3> HIDE DEF c
    <3>1. QED
      BY <1>2, PowerOrder
  <2>2. o < full /\ full \in Nat
    BY <1>2, PowerPositive
  <2> HIDE DEF full, below
  <2>3. QED
    BY <1>1, <1>3, <2>1, <2>2
<1>6. b <= (BIAS + 1) - e
  <2> DEFINE d == (BIAS + 1) - e
             full == 2^d
  <2>1. d \in Nat
    BY FieldSizes
  <2> SUFFICES ASSUME d <= c PROVE FALSE
    BY <1>2, <2>1
  <2>2. full <= below
    <3> HIDE DEF c, d
    <3>1. QED
      BY <1>2, <2>1, PowerOrder
  <2>3. o < full /\ full \in Nat
    BY <2>1, PowerPositive
  <2> HIDE DEF full, below
  <2>4. QED
    BY <1>1, <1>3, <2>2, <2>3
<1>7. CASE b + s <= p
  <2> DEFINE t == 2^s
             f == o * t
             n == b + s
             word == Packed(neg, 0, f)
  <2>1. t \in Nat \ {0} /\ n \in Nat /\ n <= p
    BY <1>1, <1>2, <1>7, PowerPositive
  <2>2. above * t <= F
    <3>1. 2^n = above * t
      BY <1>1, <1>2, PowersMultiply
    <3>2. 2^n <= 2^p
      <4> HIDE DEF n, p
      <4>1. QED
        BY <1>2, <2>1, PowerOrder
    <3>3. QED
      BY <1>4, <3>1, <3>2
  <2> HIDE DEF above, t, F, E, s, n, p
  <2>3. f \in 0..(F - 1)
    <3>1. t * (o + 1) <= t * above
      BY <1>1, <1>3, <2>1, ProductMonotone
    <3>2. t * (o + 1) = f + t /\ f \in Nat /\ t * above = above * t
      BY <1>3, <2>1
    <3> DEFINE y == above * t
    <3>3. y \in Nat
      BY <1>3, <2>1
    <3> HIDE DEF f, y
    <3>4. f + t <= y /\ y <= F
      BY <2>2, <3>1, <3>2 DEF y
    <3>5. QED
      BY <1>4, <2>1, <3>2, <3>3, <3>4
  <2>4. 0 \in 0..(E - 1)
    BY <1>4
  <2> HIDE DEF f
  <2>5. word \in Word /\ Negative(word) = neg /\ Exponent(word) = 0 /\ Fraction(word) = f
    BY <2>3, <2>4, Unpacked DEF F, E
  <2> HIDE DEF word
  <2>6. FromBits(word) = Number(neg, f, LEAST)
    BY <2>5, WordIs
  <2>7. Number(neg, o * 2^s, LEAST) = [kind |-> "finite", neg |-> neg, m |-> o, e |-> LEAST + s]
    BY <1>2, FieldSizes, NumberIs
  <2>8. FromBits(word) = Whole(neg, o, e)
    BY <1>2, <2>6, <2>7 DEF Whole, f, t
  <2>9. QED
    BY <2>5, <2>8 DEF HasWord
<1>8. CASE ~(b + s <= p)
  <2> DEFINE d == PRECISION - b
             t == 2^d
             n == o * t
             f == n - F
             x == s - d + 1
             word == Packed(neg, x, f)
  <2>1. d \in Nat /\ d <= s /\ d + b = PRECISION /\ d + c = p
    <3>1. b \in Nat /\ s \in Nat /\ p \in Nat /\ b + s > p
      BY <1>1, <1>2, <1>8
    <3>2. QED
      BY <1>2, <1>5, <3>1
  <2>2. x \in Int /\ x >= 1 /\ x <= E - 2 /\ x - BIAS - (PRECISION - 1) + d = e
    BY <1>2, <1>6, <2>1, FieldSizes
  <2>3. t \in Nat \ {0}
    BY <2>1, PowerPositive
  <2>4. t * above = 2 * F /\ t * below = F
    <3> HIDE DEF d, c, p
    <3>1. 2^(d + b) = 2^d * 2^b /\ 2^(d + c) = 2^d * 2^c
      BY <1>1, <1>2, <2>1, PowersMultiply
    <3>2. QED
      BY <1>4, <2>1, <3>1
  <2> HIDE DEF t, above, below, F, E, d, x
  <2>5. n \in Nat /\ n >= F /\ n < 2 * F
    <3>1. t * below <= t * o /\ t * (o + 1) <= t * above
      BY <1>1, <1>3, <2>3, ProductMonotone
    <3>2. t * (o + 1) = n + t /\ n \in Nat /\ t * o = n
      BY <2>3
    <3> HIDE DEF n
    <3>3. F <= n /\ n + t <= 2 * F
      BY <2>4, <3>1, <3>2
    <3>4. QED
      BY <1>4, <2>3, <3>2, <3>3
  <2> HIDE DEF n
  <2>6. f \in 0..(F - 1) /\ f + F = n /\ x \in 0..(E - 1) /\ x # 0 /\ x # E - 1
    BY <1>4, <2>2, <2>5
  <2> HIDE DEF f
  <2>7. word \in Word /\ Negative(word) = neg /\ Exponent(word) = x /\ Fraction(word) = f
    BY <2>6, Unpacked DEF F, E
  <2> HIDE DEF word
  <2> DEFINE y == x - BIAS - (PRECISION - 1)
  <2>8. FromBits(word) = Number(neg, n, y)
    BY <2>6, <2>7, WordIs DEF F, E
  <2>9. y \in Int
    BY <1>2, <2>2, FieldSizes
  <2> HIDE DEF y
  <2>10. Number(neg, o * 2^d, y) = [kind |-> "finite", neg |-> neg, m |-> o, e |-> y + d]
    BY <2>1, <2>9, NumberIs
  <2>11. FromBits(word) = Whole(neg, o, e)
    BY <2>2, <2>8, <2>10 DEF Whole, n, t, y
  <2>12. QED
    BY <2>7, <2>11 DEF HasWord
<1>9. QED
  BY <1>7, <1>8

\* Finite numbers as they are kept.
Reduced(x) == \E neg \in BOOLEAN, m \in Nat, e \in Int :
             x = Whole(neg, m, e) /\ (Odd(m) \/ (m = 0 /\ e = 0))

LEMMA WholeIs ==
  ASSUME NEW neg, NEW m, NEW e
  PROVE  LET x == Whole(neg, m, e)
         IN x.kind = "finite" /\ x.neg = neg /\ x.m = m /\ x.e = e
  BY DEF Whole

LEMMA InfiniteIs ==
  ASSUME NEW neg
  PROVE  LET x == Infinite(neg)
         IN x.kind = "infinite" /\ x.neg = neg /\ x.m = 0 /\ x.e = 0
  BY DEF Infinite, Special

LEMMA NaNIs == NaN.kind = "nan"
  BY DEF NaN, Special

LEMMA NumberShape ==
  ASSUME NEW neg, NEW q \in Nat \ {0}, NEW e \in Int
  PROVE  \E o \in Nat, j \in Nat : Odd(o) /\ q = o * 2^j /\ Number(neg, q, e) = Whole(neg, o, e + j)
<1>1. PICK j \in Nat, o \in Nat : Odd(o) /\ q = o * 2^j
  BY OddForm
<1>2. Number(neg, o * 2^j, e) = [kind |-> "finite", neg |-> neg, m |-> o, e |-> e + j]
  BY <1>1, NumberIs
<1>3. Number(neg, q, e) = Whole(neg, o, e + j)
  BY <1>1, <1>2 DEF Whole
<1>4. QED
  BY <1>1, <1>3

LEMMA NumberKept ==
  ASSUME NEW neg \in BOOLEAN, NEW q \in Nat, NEW e \in Int
  PROVE  Reduced(Number(neg, q, e)) /\ Number(neg, q, e).neg = neg
<1>1. CASE q = 0
  <2>1. Number(neg, 0, e) = Whole(neg, 0, 0)
    BY ZeroIs DEF Whole
  <2>2. QED
    BY <1>1, <2>1, WholeIs DEF Reduced
<1>2. CASE q # 0
  <2>1. PICK o \in Nat, j \in Nat : Odd(o) /\ q = o * 2^j /\ Number(neg, q, e) = Whole(neg, o, e + j)
    BY <1>2, NumberShape
  <2> DEFINE d == e + j
  <2>2. d \in Int
    OBVIOUS
  <2>3. Number(neg, q, e) = Whole(neg, o, d)
    BY <2>1
  <2> HIDE DEF d
  <2>4. Reduced(Number(neg, q, e))
    BY <2>1, <2>2, <2>3, Zenon DEF Reduced
  <2>5. QED
    BY <2>3, <2>4, WholeIs
<1>3. QED
  BY <1>1, <1>2

\* The odd part of a number of at most so many bits, or one more, has no more.
LEMMA OddPartBelow ==
  ASSUME NEW o \in Nat, Odd(o), NEW j \in Nat, NEW n \in Nat \ {0}, o * 2^j <= 2^n
  PROVE  o < 2^n
<1> DEFINE c == n - 1
           h == 2^c
           full == 2^n
           p == 2^j
<1>1. c \in Nat /\ n = c + 1
  OBVIOUS
<1>2. h \in Nat /\ full = 2 * h
  <2> HIDE DEF c
  <2>1. 2^(c + 1) = 2 * 2^c
    BY <1>1, PowerDoubles
  <2>2. 2^c \in Nat
    BY <1>1, PowerPositive
  <2>3. QED
    BY <1>1, <2>1, <2>2
<1>3. p \in Nat \ {0}
  BY PowerPositive
<1> HIDE DEF h, full, p
<1>4. o <= full
  <2>1. o * 1 <= o * p
    BY <1>3, ProductMonotone
  <2>2. o * p <= full /\ o * p \in Nat /\ o * 1 = o
    BY <1>3 DEF p, full
  <2> DEFINE y == o * p
  <2> HIDE DEF y
  <2>3. o <= y /\ y <= full /\ y \in Nat
    BY <2>1, <2>2 DEF y
  <2>4. QED
    BY <1>2, <2>3
<1>5. o # full
  BY <1>2 DEF Odd
<1>6. o < full
  BY <1>2, <1>4, <1>5
<1>7. QED
  BY <1>6 DEF full

LEMMA BelowIs ==
  ASSUME NEW x, NEW k, Below(x, k), x.m # 0
  PROVE  k > x.e /\ x.m < 2^(k - x.e)
  BY DEF Below

\* A number that is rounded to the format has a word there, if only that of
\* an infinity; and one no less than the smallest is not rounded to nothing.
LEMMA NarrowNumber ==
  ASSUME NEW neg \in BOOLEAN, NEW m \in Nat \ {0}, NEW e \in Int
  PROVE  LET x == Whole(neg, m, e)
         IN  /\ HasWord(Narrow(x))
             /\ Narrow(x) = Infinite(neg) \/ \E o \in Nat, d \in Int :
                  Narrow(x) = Whole(neg, o, d) /\ (e >= LEAST => o # 0)
<1> DEFINE x == Whole(neg, m, e)
           nearest == Rounded(neg, m, 1, e, PRECISION, LEAST)
<1>1. Narrow(x) = IF TooBig(nearest) THEN Infinite(neg) ELSE nearest
  <2>1. x.kind = "finite" /\ x.neg = neg /\ x.m = m /\ x.e = e
    BY WholeIs
  <2> HIDE DEF x
  <2>2. Rounded(x.neg, x.m, 1, x.e, PRECISION, LEAST) = nearest
    BY <2>1
  <2>3. QED
    BY <2>1, <2>2 DEF Narrow
<1>2. PRECISION \in Nat \ {0} /\ LEAST \in Int
  BY FieldSizes, FpuAssumption
<1>3. PICK q, k : RoundsTo(neg, m, e, PRECISION, LEAST, q, k)
  BY <1>2, RoundedTo
<1> DEFINE f == e - k
<1>4. nearest = Number(neg, q, f) /\ q \in Nat /\ q <= 2^PRECISION /\ f \in Int /\ f >= LEAST
  BY <1>3 DEF RoundsTo
<1>5. e >= LEAST => q # 0
  BY <1>3 DEF RoundsTo
<1> HIDE DEF f, nearest, x
<1>6. CASE q = 0
  <2>1. nearest = Whole(neg, 0, 0)
    BY <1>4, <1>6, ZeroIs DEF Whole
  <2>2. ~TooBig(nearest)
    BY <2>1, WholeIs DEF TooBig, Below
  <2>3. QED
    BY <1>1, <1>5, <1>6, <2>1, <2>2, ZeroHasWord DEF x
<1>7. CASE q # 0
  <2>1. PICK o \in Nat, j \in Nat : Odd(o) /\ q = o * 2^j /\ Number(neg, q, f) = Whole(neg, o, f + j)
    BY <1>4, <1>7, NumberShape
  <2> DEFINE d == f + j
  <2>2. d \in Int /\ d >= LEAST /\ nearest = Whole(neg, o, d) /\ o # 0
    BY <1>2, <1>4, <2>1 DEF Odd
  <2>3. o < 2^PRECISION
    BY <1>2, <1>4, <2>1, OddPartBelow
  <2> HIDE DEF d
  <2>4. CASE TooBig(nearest)
    BY <1>1, <2>4, InfiniteHasWord DEF x
  <2>5. CASE ~TooBig(nearest)
    <3>1. Below(nearest, BIAS + 1)
      BY <2>2, <2>5, WholeIs DEF TooBig
    <3>2. BIAS + 1 > d /\ o < 2^((BIAS + 1) - d)
      <4> DEFINE top == BIAS + 1
      <4>1. nearest.m = o /\ nearest.e = d
        BY <2>2, WholeIs
      <4>2. Below(nearest, top)
        BY <3>1
      <4> HIDE DEF top
      <4>3. top > d /\ o < 2^(top - d)
        BY <2>2, <4>1, <4>2, BelowIs
      <4>4. QED
        BY <4>3 DEF top
    <3>3. HasWord(Whole(neg, o, d))
      BY <2>1, <2>2, <2>3, <3>2, OddHasWord
    <3>4. Narrow(x) = Whole(neg, o, d)
      BY <1>1, <2>2, <2>5
    <3>5. QED
      BY <2>2, <3>3, <3>4 DEF x
  <2>6. QED
    BY <2>4, <2>5
<1>8. QED
  BY <1>6, <1>7

LEMMA NarrowZero ==
  ASSUME NEW neg \in BOOLEAN
  PROVE  Narrow(Whole(neg, 0, 0)) = Whole(neg, 0, 0)
<1> DEFINE x == Whole(neg, 0, 0)
           nearest == Rounded(neg, 0, 1, 0, PRECISION, LEAST)
<1>1. x.kind = "finite" /\ x.neg = neg /\ x.m = 0 /\ x.e = 0
  BY WholeIs
<1> HIDE DEF x
<1>2. nearest = x
  <2>1. nearest = Number(neg, 0, 0)
    BY Zenon DEF Rounded
  <2>2. QED
    BY <2>1, ZeroIs DEF x, Whole
<1>3. Narrow(x) = IF TooBig(nearest) THEN Infinite(neg) ELSE nearest
  <2>1. Rounded(x.neg, x.m, 1, x.e, PRECISION, LEAST) = nearest
    BY <1>1
  <2>2. QED
    BY <1>1, <2>1 DEF Narrow
<1>4. ~TooBig(x)
  BY <1>1 DEF TooBig, Below
<1>5. QED
  BY <1>2, <1>3, <1>4 DEF x

LEMMA NarrowSpecial ==
  ASSUME NEW x, x.kind # "finite"
  PROVE  Narrow(x) = x
  BY DEF Narrow

\* The words a rounded number is written as.
LEMMA WordsAre ==
  ASSUME NEW x, HasWord(x), NEW word \in WordsOf[x]
  PROVE  word \in Word /\ FromBits(word) = x
<1>1. x \in {FromBits(w) : w \in Word}
  BY DEF HasWord
<1>2. WordsOf[x] = IF x = NaN THEN QuietNaNs ELSE {w \in Word : FromBits(w) = x}
  BY <1>1, Zenon DEF WordsOf
<1>3. CASE x = NaN
  BY <1>2, <1>3 DEF QuietNaNs
<1>4. CASE x # NaN
  BY <1>2, <1>4
<1>5. QED
  BY <1>3, <1>4

-----------------------------------------------------------------------------
(* The value of a word.                                                     *)

\* What a finite word stands for, in units of the smallest denormal.
Worth(m, e) == m * 2^(e - LEAST)
Standing(word, m, e) ==
  /\ FromBits(word) = Whole(Negative(word), m, e)
  /\ m \in Nat /\ e \in Int /\ e >= LEAST /\ (Odd(m) \/ (m = 0 /\ e = 0))
  /\ Worth(m, e) \in Nat /\ Worth(m, e) <= LARGEST

LEMMA LargestIs ==
  /\ LARGEST \in Nat /\ LARGEST >= 2 * FRACTIONS - 1
  /\ LARGEST = (2 * FRACTIONS - 1) * 2^(EXPONENTS - 3)
<1> DEFINE n == BIAS - PRECISION + 1 - LEAST
           t == 2^n
           u == 2 * FRACTIONS - 1
<1>1. n = EXPONENTS - 3 /\ n \in Nat
  BY FieldSizes, FpuAssumption
<1>2. u \in Nat /\ 2^PRECISION - 1 = u
  BY FieldSizes
<1>3. LARGEST = (2^PRECISION - 1) * 2^n
  BY DEF LARGEST
<1>4. t \in Nat \ {0}
  BY <1>1, PowerPositive
<1>5. LARGEST = u * t
  BY <1>2, <1>3
<1> HIDE DEF n
<1>6. LARGEST = u * 2^(EXPONENTS - 3)
  BY <1>1, <1>5
<1> HIDE DEF u, t
<1>7. u * 1 <= u * t /\ u * t \in Nat /\ u * 1 = u
  BY <1>2, <1>4, ProductMonotone
<1>8. LARGEST >= u /\ LARGEST \in Nat
  BY <1>2, <1>5, <1>7
<1>9. QED
  BY <1>6, <1>8 DEF u

LEMMA FiniteWord ==
  ASSUME NEW word \in Word, Finite(word)
  PROVE  \E m, e : Standing(word, m, e)
<1> DEFINE x == Exponent(word)
           f == Fraction(word)
           neg == Negative(word)
           F == FRACTIONS
           E == EXPONENTS
<1>1. F \in Nat \ {0} /\ E \in Nat /\ E >= 4 /\ LEAST \in Int /\ LEAST < 0 /\ LEAST = 2 - BIAS - PRECISION
      /\ BIAS \in Int /\ PRECISION \in Int
  BY FieldSizes, FpuAssumption
<1>2. x \in 0..(E - 1) /\ f \in 0..(F - 1)
  BY Fields
<1>3. x # E - 1
  <2>1. x = E - 1 => FromBits(word) = Infinite(neg) \/ FromBits(word) = NaN
    BY WordIs
  <2>2. QED
    BY <2>1, InfiniteIs, NaNIs DEF Finite
<1>4. LARGEST \in Nat /\ LARGEST >= 2 * F - 1 /\ LARGEST = (2 * F - 1) * 2^(E - 3)
  BY LargestIs
<1>5. CASE x = 0 /\ f = 0
  <2>1. FromBits(word) = Whole(neg, 0, 0)
    BY <1>5, WordIs, ZeroIs DEF Whole
  <2>2. Worth(0, 0) = 0
    <3> DEFINE t == 2^(0 - LEAST)
    <3>1. t \in Nat
      <4> DEFINE d == 0 - LEAST
      <4>1. d \in Nat
        BY <1>1
      <4> HIDE DEF d
      <4>2. 2^d \in Nat
        BY <4>1, PowerPositive
      <4>3. QED
        BY <4>2 DEF d
    <3> HIDE DEF t
    <3>2. 0 * t = 0
      BY <3>1
    <3>3. QED
      BY <3>2 DEF Worth, t
  <2>3. Standing(word, 0, 0)
    BY <1>1, <1>4, <2>1, <2>2 DEF Standing
  <2>4. QED
    BY <2>3
<1>6. CASE ~(x = 0 /\ f = 0)
  <2> DEFINE n == IF x = 0 THEN f ELSE f + F
             up == IF x = 0 THEN 0 ELSE x - 1
             at == IF x = 0 THEN LEAST ELSE x - BIAS - (PRECISION - 1)
  <2>1. n \in Nat \ {0} /\ n <= 2 * F - 1 /\ (x = 0 => n <= F - 1)
    <3>1. CASE x = 0
      BY <1>1, <1>2, <1>6, <3>1
    <3>2. CASE x # 0
      BY <1>1, <1>2, <1>6, <3>2
    <3>3. QED
      BY <3>1, <3>2
  <2>2. up \in Nat /\ up <= E - 3 /\ at = LEAST + up /\ at \in Int
    <3>1. CASE x = 0
      BY <1>1, <1>2, <1>3, <3>1
    <3>2. CASE x # 0
      BY <1>1, <1>2, <1>3, <3>2
    <3>3. QED
      BY <3>1, <3>2
  <2>3. FromBits(word) = Number(neg, n, at)
    <3>1. CASE x = 0
      BY <3>1, WordIs
    <3>2. CASE x # 0
      BY <1>3, <3>2, WordIs
    <3>3. QED
      BY <3>1, <3>2
  <2> HIDE DEF n, up, at, neg
  <2>4. PICK o \in Nat, j \in Nat : Odd(o) /\ n = o * 2^j /\ Number(neg, n, at) = Whole(neg, o, at + j)
    BY <2>1, <2>2, NumberShape
  <2> DEFINE e == at + j
             t == 2^up
             largest == 2^(E - 3)
  <2>5. e \in Int /\ e >= LEAST /\ e - LEAST = j + up
    BY <1>1, <2>2
  <2>6. t \in Nat \ {0} /\ t <= largest /\ largest \in Nat
    <3> DEFINE d == E - 3
    <3>1. d \in Nat /\ up <= d
      BY <1>1, <2>2
    <3> HIDE DEF d
    <3>2. 2^up <= 2^d /\ 2^d \in Nat
      BY <2>2, <3>1, PowerOrder, PowerPositive
    <3>3. QED
      BY <2>2, <3>2, PowerPositive DEF d
  <2>7. Worth(o, e) = n * t
    <3> HIDE DEF e
    <3>1. Worth(o, e) = o * 2^(j + up)
      BY <2>5 DEF Worth
    <3>2. 2^(j + up) = 2^j * t
      BY <2>2, PowersMultiply
    <3> DEFINE p == 2^j
    <3>3. p \in Nat
      BY PowerPositive
    <3> HIDE DEF t
    <3>4. o * (p * t) = (o * p) * t
      <4> HIDE DEF p
      <4>1. QED
        BY <2>6, <3>3, SMT
    <3>5. QED
      BY <2>4, <3>1, <3>2, <3>4
  <2>8. n * t \in Nat /\ n * t <= LARGEST
    <3> DEFINE u == 2 * F - 1
    <3>1. u \in Nat /\ n <= u
      BY <1>1, <2>1
    <3> HIDE DEF t, u, largest
    <3>2. n * t <= n * largest
      BY <2>1, <2>6, ProductMonotone
    <3>3. largest * n <= largest * u
      BY <2>1, <2>6, <3>1, ProductMonotone
    <3>4. n * largest = largest * n /\ largest * u = u * largest /\ n * t \in Nat /\ largest * n \in Nat
      BY <2>1, <2>6, <3>1
    <3> DEFINE y == n * t
               z == largest * n
               w == u * largest
    <3>5. y <= z /\ z <= w /\ y \in Nat /\ z \in Nat /\ LARGEST = w /\ LARGEST \in Nat
      BY <1>4, <3>2, <3>3, <3>4 DEF u, largest
    <3> HIDE DEF y, z, w
    <3>6. y \in Nat /\ y <= LARGEST
      BY <3>5
    <3>7. QED
      BY <3>6 DEF y
  <2>9. Standing(word, o, e)
    <3> HIDE DEF e, t
    <3>1. FromBits(word) = Whole(neg, o, e)
      BY <2>3, <2>4 DEF e
    <3>2. Worth(o, e) \in Nat /\ Worth(o, e) <= LARGEST
      BY <2>7, <2>8
    <3>3. QED
      BY <2>4, <2>5, <3>1, <3>2 DEF Standing, neg
  <2>10. QED
    BY <2>9
<1>7. QED
  BY <1>5, <1>6

LEMMA OtherWord ==
  ASSUME NEW word \in Word, ~Finite(word)
  PROVE  FromBits(word) = Infinite(Negative(word)) \/ FromBits(word) = NaN
<1> DEFINE x == Exponent(word)
<1>1. x \in 0..(EXPONENTS - 1) /\ Fraction(word) \in 0..(FRACTIONS - 1) /\ Negative(word) \in BOOLEAN
  BY Fields
<1>2. BIAS \in Int /\ PRECISION \in Int /\ LEAST \in Int /\ FRACTIONS \in Nat /\ EXPONENTS \in Nat
  BY FieldSizes, FpuAssumption
<1>3. CASE x = EXPONENTS - 1
  BY <1>3, WordIs
<1>4. ASSUME NEW q \in Nat, NEW e \in Int PROVE FromBits(word) # Number(Negative(word), q, e)
  <2>1. Reduced(Number(Negative(word), q, e))
    BY <1>1, NumberKept
  <2>2. Number(Negative(word), q, e).kind = "finite"
    BY <2>1, WholeIs DEF Reduced
  <2>3. QED
    BY <2>2 DEF Finite
<1>5. CASE x = 0
  <2>1. FromBits(word) = Number(Negative(word), Fraction(word), LEAST)
    BY <1>5, WordIs
  <2>2. Fraction(word) \in Nat
    BY <1>1, <1>2
  <2>3. QED
    BY <1>2, <1>4, <2>1, <2>2
<1>6. CASE x # 0 /\ x # EXPONENTS - 1
  <2> DEFINE q == Fraction(word) + FRACTIONS
             e == x - BIAS - (PRECISION - 1)
  <2>1. FromBits(word) = Number(Negative(word), q, e)
    BY <1>6, WordIs
  <2>2. q \in Nat /\ e \in Int
    BY <1>1, <1>2
  <2> HIDE DEF q, e
  <2>3. QED
    BY <1>4, <2>1, <2>2
<1>7. QED
  BY <1>3, <1>5, <1>6

\* No number of the format is lost in the wider one, or below the smallest.
LEMMA WideKept ==
  ASSUME NEW neg, NEW num \in Nat \ {0}, NEW e \in Int, e >= LEAST
  PROVE  \E o \in Nat, d \in Int : Wide(neg, num, 1, e) = Whole(neg, o, d) /\ o # 0 /\ d >= LEAST
<1>1. WIDE \in Nat \ {0} /\ NoLeast \in Int /\ e >= NoLeast /\ LEAST \in Int
  BY FieldSizes, FpuAssumption DEF NoLeast
<1>2. PICK q, k : RoundsTo(neg, num, e, WIDE, NoLeast, q, k)
  BY <1>1, RoundedTo
<1>3. Wide(neg, num, 1, e) = Number(neg, q, e - k) /\ q \in Nat \ {0} /\ k \in Int
  BY <1>1, <1>2 DEF RoundsTo, Wide
<1>4. k >= 0 => q = num * 2^k
  BY <1>2 DEF RoundsTo
<1> DEFINE f == e - k
<1>5. f \in Int /\ f + k = e
  BY <1>3
<1> HIDE DEF f
<1>6. CASE k >= 0
  <2>1. PICK j \in Nat, o \in Nat : Odd(o) /\ num = o * 2^j
    BY OddForm
  <2> DEFINE n == j + k
             p == 2^j
             t == 2^k
  <2>2. n \in Nat /\ k \in Nat /\ f + n = e + j
    BY <1>3, <1>5, <1>6
  <2>3. 2^n = p * t /\ p \in Nat /\ t \in Nat
    BY <2>2, PowersMultiply, PowerPositive
  <2>4. q = o * 2^n
    <3>1. q = (o * p) * t
      BY <1>4, <1>6, <2>1
    <3> HIDE DEF p, t
    <3>2. (o * p) * t = o * (p * t)
      BY <2>3, SMT
    <3>3. QED
      BY <2>3, <3>1, <3>2
  <2> HIDE DEF n
  <2>5. Number(neg, o * 2^n, f) = [kind |-> "finite", neg |-> neg, m |-> o, e |-> f + n]
    BY <1>5, <2>1, <2>2, NumberIs
  <2> DEFINE d == e + j
  <2>6. Wide(neg, num, 1, e) = Whole(neg, o, d)
    BY <1>3, <2>2, <2>4, <2>5 DEF Whole, f
  <2>7. d \in Int /\ d >= LEAST /\ o # 0
    BY <1>1, <2>1 DEF Odd
  <2> HIDE DEF d
  <2>8. QED
    BY <2>6, <2>7
<1>7. CASE ~(k >= 0)
  <2>1. PICK o \in Nat, j \in Nat : Odd(o) /\ q = o * 2^j /\ Number(neg, q, f) = Whole(neg, o, f + j)
    BY <1>3, <1>5, NumberShape
  <2> DEFINE d == f + j
  <2>2. Wide(neg, num, 1, e) = Whole(neg, o, d)
    BY <1>3, <2>1 DEF f
  <2>3. d \in Int /\ d >= LEAST /\ o # 0
    BY <1>1, <1>3, <1>5, <1>7, <2>1 DEF Odd
  <2> HIDE DEF d
  <2>4. QED
    BY <2>2, <2>3
<1>8. QED
  BY <1>6, <1>7

\* Numbers of one value are equal.
LEMMA ValuesApart ==
  ASSUME NEW l, NEW r, NEW ml, NEW el, NEW mr, NEW er, Standing(l, ml, el), Standing(r, mr, er),
         Value(l) = Value(r)
  PROVE  Equal(FromBits(l), FromBits(r))
<1> DEFINE a == FromBits(l)
           b == FromBits(r)
           x == Worth(ml, el)
           y == Worth(mr, er)
           dl == el - LEAST
           dr == er - LEAST
<1>1. /\ a = Whole(Negative(l), ml, el) /\ b = Whole(Negative(r), mr, er)
      /\ ml \in Nat /\ mr \in Nat /\ el \in Int /\ er \in Int
      /\ Odd(ml) \/ (ml = 0 /\ el = 0)
      /\ Odd(mr) \/ (mr = 0 /\ er = 0)
      /\ x \in Nat /\ y \in Nat
  BY DEF Standing
<1>2. dl \in Nat /\ dr \in Nat
  BY FieldSizes DEF Standing
<1>3. Value(l) = Signing(Negative(l), x) /\ Value(r) = Signing(Negative(r), y)
  BY <1>1, WholeIs DEF Value, Worth
<1>4. x = ml * 2^dl /\ y = mr * 2^dr
  BY DEF Worth
<1> HIDE DEF x, y
<1>5. x = y /\ (x # 0 => (Negative(l) <=> Negative(r)))
  <2>1. x \in Nat /\ y \in Nat /\ Signing(Negative(l), x) = Signing(Negative(r), y)
    BY <1>1, <1>3
  <2>2. CASE Negative(l) /\ Negative(r)
    BY <2>1, <2>2 DEF Signing
  <2>3. CASE Negative(l) /\ ~Negative(r)
    BY <2>1, <2>3 DEF Signing
  <2>4. CASE ~Negative(l) /\ Negative(r)
    BY <2>1, <2>4 DEF Signing
  <2>5. CASE ~Negative(l) /\ ~Negative(r)
    BY <2>1, <2>5 DEF Signing
  <2>6. QED
    BY <2>2, <2>3, <2>4, <2>5
<1>6. ASSUME NEW m \in Nat, NEW d \in Nat PROVE Odd(m) => m * 2^d # 0
  <2> DEFINE p == 2^d
  <2>1. p \in Nat \ {0}
    BY PowerPositive
  <2> HIDE DEF p
  <2>2. Odd(m) => m * p # 0
    BY <2>1, SMT DEF Odd
  <2>3. QED
    BY <2>2 DEF p
<1>7. ASSUME NEW d \in Nat PROVE 0 * 2^d = 0
  <2> DEFINE p == 2^d
  <2>1. p \in Nat
    BY PowerPositive
  <2> HIDE DEF p
  <2>2. 0 * p = 0
    BY <2>1
  <2>3. QED
    BY <2>2 DEF p
<1> HIDE DEF dl, dr
<1>8. CASE x = 0
  <2>1. ml = 0 /\ mr = 0
    BY <1>1, <1>2, <1>4, <1>5, <1>6, <1>8
  <2>2. IsZero(a) /\ IsZero(b) /\ a.kind # "nan"
    BY <1>1, <2>1, WholeIs DEF IsZero
  <2>3. QED
    BY <2>2 DEF Equal
<1>9. CASE x # 0
  <2>1. Odd(ml) /\ Odd(mr)
    BY <1>1, <1>2, <1>4, <1>5, <1>7, <1>9
  <2>2. ml * 2^dl = mr * 2^dr
    BY <1>4, <1>5
  <2>3. ml = mr /\ dl = dr
    BY <1>1, <1>2, <2>1, <2>2, OddFormUnique
  <2>4. el = er
    BY <1>1, <2>3, FieldSizes DEF dl, dr
  <2>5. Negative(l) = Negative(r)
    BY <1>5, <1>9 DEF Negative
  <2>6. a = b /\ a.kind # "nan"
    BY <1>1, <2>3, <2>4, <2>5, WholeIs
  <2>7. QED
    BY <2>6 DEF Equal
<1>10. QED
  BY <1>8, <1>9

LEMMA EqualValues ==
  ASSUME NEW l, NEW r, NEW ml, NEW el, NEW mr, NEW er, Standing(l, ml, el), Standing(r, mr, er),
         Equal(FromBits(l), FromBits(r))
  PROVE  Value(l) = Value(r)
<1> DEFINE a == FromBits(l)
           b == FromBits(r)
<1>1. /\ a = Whole(Negative(l), ml, el) /\ b = Whole(Negative(r), mr, er)
      /\ ml \in Nat /\ mr \in Nat /\ Worth(ml, el) \in Nat /\ Worth(mr, er) \in Nat
      /\ el - LEAST \in Nat /\ er - LEAST \in Nat
  BY FieldSizes DEF Standing
<1>2. CASE a = b
  BY <1>2 DEF Value
<1>3. CASE IsZero(a) /\ IsZero(b)
  <2>1. ml = 0 /\ mr = 0
    BY <1>1, <1>3, WholeIs DEF IsZero
  <2>2. ASSUME NEW e, e - LEAST \in Nat PROVE Worth(0, e) = 0
    <3> DEFINE d == e - LEAST
               p == 2^d
    <3>1. p \in Nat
      <4> HIDE DEF d
      <4>1. d \in Nat
        BY <2>2 DEF d
      <4>2. QED
        BY <4>1, PowerPositive
    <3> HIDE DEF p
    <3>2. 0 * p = 0
      BY <3>1
    <3>3. QED
      BY <3>2 DEF p, Worth
  <2>3. Worth(ml, el) = 0 /\ Worth(mr, er) = 0
    BY <1>1, <2>1, <2>2
  <2>4. Value(l) = Signing(Negative(l), Worth(ml, el)) /\ Value(r) = Signing(Negative(r), Worth(mr, er))
    BY <1>1, WholeIs DEF Value, Worth
  <2>5. QED
    BY <2>3, <2>4 DEF Signing
<1>4. QED
  BY <1>2, <1>3 DEF Equal

-----------------------------------------------------------------------------
(* The sign of a difference.                                                *)

\* A difference is that of the values, in units of the smaller operand.
Units(neg, m, e, unit) == (IF neg THEN -1 ELSE 1) * m * 2^(e - unit)

LEMMA UnitsAre ==
  ASSUME NEW neg \in BOOLEAN, NEW m \in Nat, NEW e \in Int, NEW unit \in Int, unit <= e, unit >= LEAST
  PROVE  /\ Units(neg, m, e, unit) \in Int
         /\ Units(neg, m, e, unit) * 2^(unit - LEAST) = Signing(neg, Worth(m, e))
         /\ Units(~neg, m, e, unit) = -Units(neg, m, e, unit)
<1> DEFINE c == e - unit
           d == unit - LEAST
           p == 2^c
           t == 2^d
<1>1. c \in Nat /\ d \in Nat /\ e - LEAST = c + d
  BY FieldSizes
<1> HIDE DEF c, d
<1>2. p \in Nat \ {0} /\ t \in Nat \ {0} /\ 2^(c + d) = p * t
  BY <1>1, PowerPositive, PowersMultiply
<1>3. Worth(m, e) = m * (p * t)
  BY <1>1, <1>2 DEF Worth
<1>4. Units(neg, m, e, unit) = (IF neg THEN -1 ELSE 1) * m * p
  BY DEF Units, c, p
<1>5. Units(~neg, m, e, unit) = (IF ~neg THEN -1 ELSE 1) * m * p
  BY DEF Units, c, p
<1> HIDE DEF p, t
<1> DEFINE n == m * p
<1>6. n \in Nat /\ m * (p * t) = n * t
  BY <1>2, SMT
<1>7. Units(neg, m, e, unit) = (IF neg THEN -n ELSE n) /\ Units(~neg, m, e, unit) = (IF neg THEN n ELSE -n)
  <2>1. (-1) * m * p = -n /\ 1 * m * p = n
    BY <1>2, SMT
  <2>2. QED
    BY <1>4, <1>5, <2>1
<1> HIDE DEF n
<1>8. (-n) * t = -(n * t) /\ n * t \in Nat /\ -(-n) = n
  BY <1>2, <1>6
<1>9. Units(neg, m, e, unit) * t = Signing(neg, Worth(m, e))
  BY <1>3, <1>6, <1>7, <1>8 DEF Signing
<1>10. QED
  BY <1>6, <1>7, <1>8, <1>9 DEF t, d

LEMMA SignOfProduct ==
  ASSUME NEW x \in Int, NEW y \in Int, NEW t \in Nat \ {0}
  PROVE  (x < y <=> x * t < y * t) /\ (x = y <=> x * t = y * t)
<1>1. ASSUME NEW u \in Int, NEW v \in Int, u < v PROVE u * t < v * t
  <2>1. t * (u + 1) <= t * v
    BY <1>1, ProductMonotone
  <2>2. t * (u + 1) = t * u + t /\ t * u = u * t /\ t * v = v * t /\ t * u \in Int /\ t * v \in Int
    OBVIOUS
  <2> DEFINE a == t * u
             b == t * v
  <2> HIDE DEF a, b
  <2>3. a + t <= b /\ a = u * t /\ b = v * t /\ a \in Int /\ b \in Int
    BY <2>1, <2>2 DEF a, b
  <2>4. QED
    BY <2>3
<1> DEFINE a == x * t
           b == y * t
<1>2. a \in Int /\ b \in Int
  OBVIOUS
<1>3. (x < y => a < b) /\ (y < x => b < a) /\ (x = y => a = b)
  BY <1>1
<1> HIDE DEF a, b
<1>4. (x < y <=> a < b) /\ (x = y <=> a = b)
  BY <1>2, <1>3
<1>5. QED
  BY <1>4 DEF a, b

LEMMA NegatedIs ==
  /\ \A neg \in BOOLEAN : \A m, e : Negated(Whole(neg, m, e)) = Whole(~neg, m, e)
  /\ \A neg \in BOOLEAN : Negated(Infinite(neg)) = Infinite(~neg)
  BY DEF Negated, Whole, Infinite, Special

LEMMA SumOfFinite ==
  ASSUME NEW na, NEW ma, NEW ea \in Int, NEW nb, NEW mb, NEW eb \in Int,
         NEW unit, unit = (IF ea < eb THEN ea ELSE eb),
         NEW sum, sum = Units(na, ma, ea, unit) + Units(nb, mb, eb, unit), sum # 0
  PROVE  Sum(Whole(na, ma, ea), Whole(nb, mb, eb)) = Wide(sum < 0, IF sum < 0 THEN -sum ELSE sum, 1, unit)
<1> DEFINE a == Whole(na, ma, ea)
           b == Whole(nb, mb, eb)
<1>1. /\ a.kind = "finite" /\ a.neg = na /\ a.m = ma /\ a.e = ea
      /\ b.kind = "finite" /\ b.neg = nb /\ b.m = mb /\ b.e = eb
  BY WholeIs
<1> HIDE DEF a, b
<1> DEFINE e == IF a.e < b.e THEN a.e ELSE b.e
           Shifted(x) == (IF x.neg THEN -1 ELSE 1) * x.m * 2^(x.e - e)
           total == Shifted(a) + Shifted(b)
           none == Number(a.neg /\ b.neg, 0, 0)
           wide == Wide(total < 0, IF total < 0 THEN -total ELSE total, 1, e)
<1>2. Sum(a, b) = IF IsInfinite(a) THEN (IF IsInfinite(b) /\ a # b THEN NaN ELSE a)
                  ELSE IF IsInfinite(b) THEN b
                  ELSE IF total = 0 THEN none ELSE wide
  BY Zenon DEF Sum
<1>3. ~IsInfinite(a) /\ ~IsInfinite(b)
  BY <1>1 DEF IsInfinite
<1>4. e = unit
  BY <1>1
<1> HIDE DEF e
<1>5. Shifted(a) = Units(na, ma, ea, e) /\ Shifted(b) = Units(nb, mb, eb, e)
  BY <1>1 DEF Units
<1>6. total = sum
  BY <1>4, <1>5
<1> HIDE DEF total
<1>7. Sum(a, b) = wide
  BY <1>2, <1>3, <1>6
<1>8. QED
  BY <1>4, <1>6, <1>7 DEF a, b

\* The difference of two finite words that are not equal is a number of the
\* sign of their order, and no less than the smallest.
LEMMA DifferenceTells ==
  ASSUME NEW l \in Word, NEW r \in Word, NEW ml, NEW el, NEW mr, NEW er,
         Standing(l, ml, el), Standing(r, mr, er), ~Equal(FromBits(l), FromBits(r))
  PROVE  /\ Value(l) \in Int /\ Value(r) \in Int /\ Value(l) # Value(r)
         /\ \E o \in Nat, d \in Int :
              /\ Sum(FromBits(l), Negated(FromBits(r))) = Whole(Value(l) < Value(r), o, d)
              /\ o # 0 /\ d >= LEAST
<1> DEFINE nl == Negative(l)
           nr == Negative(r)
           x == Worth(ml, el)
           y == Worth(mr, er)
           unit == IF el < er THEN el ELSE er
           sl == Units(nl, ml, el, unit)
           sr == Units(nr, mr, er, unit)
           sr2 == Units(~nr, mr, er, unit)
           sum == sl + sr2
           t == 2^(unit - LEAST)
           less == sum < 0
           size == IF sum < 0 THEN -sum ELSE sum
<1>1. /\ FromBits(l) = Whole(nl, ml, el) /\ FromBits(r) = Whole(nr, mr, er)
      /\ ml \in Nat /\ mr \in Nat /\ el \in Int /\ er \in Int /\ el >= LEAST /\ er >= LEAST
      /\ x \in Nat /\ y \in Nat
  BY DEF Standing
<1>2. nl \in BOOLEAN /\ nr \in BOOLEAN
  BY Fields
<1>3. Value(l) = Signing(nl, x) /\ Value(r) = Signing(nr, y)
  BY <1>1, WholeIs DEF Value, Worth
<1>4. Value(l) # Value(r)
  BY ValuesApart
<1>5. Value(l) \in Int /\ Value(r) \in Int
  BY <1>1, <1>3 DEF Signing
<1>6. unit \in Int /\ unit <= el /\ unit <= er /\ unit >= LEAST
  BY <1>1, FieldSizes
<1> HIDE DEF unit, nl, nr, x, y
<1>7. /\ sl \in Int /\ sl * t = Value(l)
      /\ sr \in Int /\ sr * t = Value(r) /\ sr2 = -sr
  BY <1>1, <1>2, <1>3, <1>6, UnitsAre DEF x, y
<1>8. t \in Nat \ {0}
  <2> DEFINE d == unit - LEAST
  <2>1. d \in Nat
    BY <1>6, FieldSizes
  <2> HIDE DEF d
  <2>2. 2^d \in Nat \ {0}
    BY <2>1, PowerPositive
  <2>3. QED
    BY <2>2 DEF d
<1> HIDE DEF sl, sr, sr2, t
<1>9. (sl < sr <=> Value(l) < Value(r)) /\ (sl = sr <=> Value(l) = Value(r))
  BY <1>7, <1>8, SignOfProduct
<1>10. sum \in Int /\ sum # 0 /\ (sum < 0 <=> Value(l) < Value(r)) /\ size \in Nat \ {0}
  BY <1>4, <1>5, <1>7, <1>9
<1>11. Sum(FromBits(l), Negated(FromBits(r))) = Wide(less, size, 1, unit)
  <2>1. Negated(FromBits(r)) = Whole(~nr, mr, er)
    BY <1>1, <1>2, NegatedIs
  <2> HIDE DEF sum
  <2>2. sum = Units(nl, ml, el, unit) + Units(~nr, mr, er, unit) /\ unit = (IF el < er THEN el ELSE er)
    BY DEF sum, sl, sr2, unit
  <2>3. Sum(Whole(nl, ml, el), Whole(~nr, mr, er)) = Wide(less, size, 1, unit)
    BY <1>1, <1>10, <2>2, SumOfFinite
  <2>4. QED
    BY <1>1, <2>1, <2>3
<1> HIDE DEF sum, size
<1>12. PICK o \in Nat, d \in Int : Wide(less, size, 1, unit) = Whole(less, o, d) /\ o # 0 /\ d >= LEAST
  BY <1>6, <1>10, WideKept
<1>13. less = (Value(l) < Value(r))
  BY <1>10
<1>14. QED
  BY <1>4, <1>5, <1>11, <1>12, <1>13

-----------------------------------------------------------------------------
(* Comparisons.                                                             *)

LEMMA ZeroWord == 0 \in Word /\ ~Negative(0) /\ FromBits(0) = Whole(FALSE, 0, 0)
<1> DEFINE F == FRACTIONS
           E == EXPONENTS
           p == 2^(PRECISION - 1)
           q == 2^EXPONENT_BITS
           s == 2^(FLOAT_BITS - 1)
<1>1. 0 \in Word /\ s \in Nat \ {0}
  <2>1. F * E \in Nat \ {0} /\ s = F * E /\ 2^FLOAT_BITS = 2 * (F * E)
    BY FieldSizes
  <2>2. QED
    BY <2>1 DEF Word
<1> HIDE DEF s
<1>2. ~Negative(0)
  BY <1>1 DEF Negative, s
<1>3. p \in Nat \ {0} /\ q \in Nat \ {0}
  <2>1. PRECISION - 1 \in Nat /\ EXPONENT_BITS \in Nat
    BY FpuAssumption
  <2> DEFINE n == PRECISION - 1
  <2>2. n \in Nat
    BY <2>1
  <2> HIDE DEF n
  <2>3. 2^n \in Nat \ {0} /\ 2^EXPONENT_BITS \in Nat \ {0}
    BY <2>1, <2>2, PowerPositive
  <2>4. QED
    BY <2>3 DEF n
<1> HIDE DEF p, q
<1>4. 0 \div p = 0 /\ 0 % p = 0 /\ 0 % q = 0
  BY <1>3
<1>5. Exponent(0) = 0
  BY <1>4 DEF Exponent, p, q
<1>6. Fraction(0) = 0
  BY <1>4 DEF Fraction, p
<1>7. FromBits(0) = Number(Negative(0), 0, LEAST)
  BY <1>5, <1>6, WordIs
<1>8. Number(Negative(0), 0, LEAST) = Whole(Negative(0), 0, 0)
  BY ZeroIs DEF Whole
<1>9. Negative(0) = FALSE
  BY <1>2 DEF Negative
<1>10. QED
  BY <1>1, <1>2, <1>7, <1>8, <1>9

LEMMA ZeroWordIs == FromBits(0).kind = "finite" /\ FromBits(0).m = 0
<1> DEFINE x == Whole(FALSE, 0, 0)
<1>1. x.kind = "finite" /\ x.m = 0
  BY DEF Whole
<1> HIDE DEF x
<1>2. FromBits(0) = x
  BY ZeroWord DEF x
<1>3. QED
  BY <1>1, <1>2, Zenon

\* The sign of a number is the first bit of its words.
LEMMA SignOfWord ==
  ASSUME NEW word \in Word, NEW neg \in BOOLEAN
  PROVE  /\ \A o, d : FromBits(word) = Whole(neg, o, d) => (Negative(word) <=> neg)
         /\ FromBits(word) = Infinite(neg) => (Negative(word) <=> neg)
<1>1. ASSUME NEW o, NEW d, FromBits(word) = Whole(neg, o, d) PROVE Negative(word) <=> neg
  <2>1. Finite(word)
    BY <1>1, WholeIs DEF Finite
  <2>2. PICK m, e : Standing(word, m, e)
    BY <2>1, FiniteWord
  <2>3. Whole(Negative(word), m, e) = Whole(neg, o, d)
    BY <1>1, <2>2 DEF Standing
  <2>4. Negative(word) = neg
    BY <2>3, WholeIs
  <2>5. QED
    BY <2>4
<1>2. ASSUME FromBits(word) = Infinite(neg) PROVE Negative(word) <=> neg
  <2>1. ~Finite(word) /\ FromBits(word) # NaN
    BY <1>2, InfiniteIs, NaNIs DEF Finite
  <2>2. Infinite(Negative(word)) = Infinite(neg)
    BY <1>2, <2>1, OtherWord
  <2>3. Negative(word) = neg
    BY <2>2, InfiniteIs
  <2>4. QED
    BY <2>3
<1>3. QED
  BY <1>1, <1>2

\* A finite word is in order with its value, and between the infinite ones.
LEMMA Orders ==
  ASSUME NEW word \in Word, FromBits(word) # NaN
  PROVE  \/ /\ \E m, e : Standing(word, m, e)
            /\ Order(word) = Value(word) /\ Value(word) \in Int
            /\ Value(word) <= LARGEST /\ Value(word) >= -LARGEST
         \/ /\ FromBits(word) = Infinite(Negative(word))
            /\ Order(word) = (IF Negative(word) THEN -(2 * LARGEST) ELSE 2 * LARGEST)
<1>1. LARGEST \in Nat
  BY LargestIs
<1>2. CASE Finite(word)
  <2>1. PICK m, e : Standing(word, m, e)
    BY <1>2, FiniteWord
  <2> DEFINE v == Worth(m, e)
  <2>2. v \in Nat /\ v <= LARGEST
    BY <2>1 DEF Standing
  <2>3. Value(word) = Signing(Negative(word), v)
    BY <2>1, WholeIs DEF Value, Worth, Standing
  <2> HIDE DEF v
  <2>4. Value(word) = IF Negative(word) THEN -v ELSE v
    BY <2>3 DEF Signing
  <2>5. Order(word) = Value(word)
    BY <1>2 DEF Order
  <2>6. QED
    BY <1>1, <2>1, <2>2, <2>4, <2>5
<1>3. CASE ~Finite(word)
  <2>1. FromBits(word) = Infinite(Negative(word))
    BY <1>3, OtherWord
  <2>2. Order(word) = IF Negative(word) THEN -(2 * LARGEST) ELSE 2 * LARGEST
    BY <1>3 DEF Order, Signing
  <2>3. QED
    BY <2>1, <2>2
<1>4. QED
  BY <1>2, <1>3

LEMMA InfiniteWordTells ==
  ASSUME NEW neg \in BOOLEAN, NEW word \in WordsOf[Narrow(Infinite(neg))]
  PROVE  word # 0 /\ (Negative(word) <=> neg)
<1>1. Narrow(Infinite(neg)) = Infinite(neg) /\ HasWord(Infinite(neg))
  BY InfiniteIs, NarrowSpecial, InfiniteHasWord
<1>2. word \in Word /\ FromBits(word) = Infinite(neg)
  BY <1>1, WordsAre
<1>3. word # 0
  <2>1. FromBits(word).kind = "infinite"
    BY <1>2, InfiniteIs
  <2>2. FromBits(0) # FromBits(word)
    BY <2>1, ZeroWordIs
  <2>3. QED
    BY <2>2, Zenon
<1>4. QED
  BY <1>2, <1>3, SignOfWord

LEMMA InfiniteSum ==
  ASSUME NEW a, NEW b
  PROVE  /\ ~IsInfinite(a) /\ IsInfinite(b) => Sum(a, b) = b
         /\ IsInfinite(a) /\ ~IsInfinite(b) => Sum(a, b) = a
         /\ IsInfinite(a) /\ a = b => Sum(a, b) = a
<1> DEFINE e == IF a.e < b.e THEN a.e ELSE b.e
           Shifted(x) == (IF x.neg THEN -1 ELSE 1) * x.m * 2^(x.e - e)
           total == Shifted(a) + Shifted(b)
           none == Number(a.neg /\ b.neg, 0, 0)
           wide == Wide(total < 0, IF total < 0 THEN -total ELSE total, 1, e)
<1>1. Sum(a, b) = IF IsInfinite(a) THEN (IF IsInfinite(b) /\ a # b THEN NaN ELSE a)
                  ELSE IF IsInfinite(b) THEN b
                  ELSE IF total = 0 THEN none ELSE wide
  BY Zenon DEF Sum
<1> HIDE DEF total, none, wide
<1>2. QED
  BY <1>1

LEMMA OtherSign ==
  ASSUME NEW x \in BOOLEAN, NEW y \in BOOLEAN, x # y
  PROVE  Infinite(~y) = Infinite(x)
<1>1. CASE x = TRUE
  <2>1. y = FALSE
    BY <1>1
  <2>2. QED
    BY <1>1, <2>1 DEF Infinite, Special
<1>2. CASE x = FALSE
  <2>1. y = TRUE
    BY <1>2
  <2>2. QED
    BY <1>2, <2>1 DEF Infinite, Special
<1>3. QED
  BY <1>1, <1>2

\* Of two words that are no NaN, the difference is zero when they are equal,
\* and has the sign of their order otherwise, whatever is rounded on the way.
LEMMA CompareTells ==
  ASSUME NEW l \in Word, NEW r \in Word, FromBits(l) # NaN, FromBits(r) # NaN,
         NEW word \in Difference(FromBits(l), FromBits(r))
  PROVE  /\ word = 0 <=> Order(l) = Order(r)
         /\ Negative(word) <=> Order(l) < Order(r)
<1> DEFINE a == FromBits(l)
           b == FromBits(r)
<1>1. LARGEST \in Nat \ {0} /\ LARGEST \in Int
  BY LargestIs, FieldSizes
<1>2. Negative(l) \in BOOLEAN /\ Negative(r) \in BOOLEAN
  BY Fields
<1>3. CASE Equal(a, b)
  <2>1. word = 0 /\ ~Negative(word)
    BY <1>3, ZeroWord DEF Difference
  <2>2. Order(l) = Order(r) /\ Order(l) \in Int
    <3>1. CASE \E m, e : Standing(l, m, e)
      <4>1. PICK ml, el : Standing(l, ml, el)
        BY <3>1
      <4>2. a.kind = "finite" /\ a # Infinite(Negative(l))
        BY <4>1, WholeIs, InfiniteIs DEF Standing
      <4>3. b.kind = "finite"
        BY <1>3, <4>2 DEF Equal, IsZero
      <4>4. b # Infinite(Negative(r))
        BY <4>3, InfiniteIs
      <4>5. /\ Order(l) = Value(l) /\ Value(l) \in Int
            /\ Order(r) = Value(r) /\ \E m, e : Standing(r, m, e)
        BY <4>2, <4>4, Orders
      <4>6. Value(l) = Value(r)
        BY <1>3, <4>1, <4>5, EqualValues
      <4>7. QED
        BY <4>5, <4>6
    <3>2. CASE ~\E m, e : Standing(l, m, e)
      <4>1. a = Infinite(Negative(l)) /\ Order(l) = IF Negative(l) THEN -(2 * LARGEST) ELSE 2 * LARGEST
        BY <3>2, Orders
      <4>2. a = b
        BY <1>3, <4>1, InfiniteIs DEF Equal, IsZero
      <4>3. b.kind = "infinite" /\ b.neg = Negative(l)
        BY <4>1, <4>2, InfiniteIs
      <4>4. ~\E m, e : Standing(r, m, e)
        BY <4>3, WholeIs DEF Standing
      <4>5. b = Infinite(Negative(r)) /\ Order(r) = IF Negative(r) THEN -(2 * LARGEST) ELSE 2 * LARGEST
        BY <4>4, Orders
      <4>6. Negative(r) = Negative(l)
        BY <4>3, <4>5, InfiniteIs
      <4>7. QED
        BY <1>1, <4>1, <4>5, <4>6
    <3>3. QED
      BY <3>1, <3>2
  <2>3. QED
    BY <2>1, <2>2
<1>4. CASE ~Equal(a, b)
  <2>1. word \in WordsOf[Narrow(Sum(a, Negated(b)))]
    BY <1>4 DEF Difference
  <2>2. CASE (\E m, e : Standing(l, m, e)) /\ (\E m, e : Standing(r, m, e))
    <3>1. PICK ml, el, mr, er : Standing(l, ml, el) /\ Standing(r, mr, er)
      BY <2>2
    <3>2. PICK o \in Nat, d \in Int :
            /\ Sum(a, Negated(b)) = Whole(Value(l) < Value(r), o, d)
            /\ o # 0 /\ d >= LEAST
      BY <1>4, <3>1, DifferenceTells
    <3>3. Value(l) \in Int /\ Value(r) \in Int /\ Value(l) # Value(r)
      BY <1>4, <3>1, DifferenceTells
    <3> DEFINE neg == Value(l) < Value(r)
               x == Whole(neg, o, d)
    <3>4. neg \in BOOLEAN
      BY <3>3
    <3> HIDE DEF neg
    <3>5. /\ HasWord(Narrow(x))
          /\ Narrow(x) = Infinite(neg) \/ \E o2 \in Nat, d2 \in Int :
               Narrow(x) = Whole(neg, o2, d2) /\ (d >= LEAST => o2 # 0)
      BY <3>2, <3>4, NarrowNumber
    <3>6. word \in WordsOf[Narrow(x)]
      BY <2>1, <3>2 DEF neg
    <3> HIDE DEF x
    <3>7. word \in Word /\ FromBits(word) = Narrow(x)
      BY <3>5, <3>6, WordsAre
    <3>8. Negative(word) <=> neg
      BY <3>4, <3>5, <3>7, SignOfWord
    <3>9. word # 0
      <4>1. FromBits(word).kind = "infinite" \/ FromBits(word).m # 0
        BY <3>2, <3>5, <3>7, WholeIs, InfiniteIs
      <4>2. FromBits(0) # FromBits(word)
        BY <4>1, ZeroWordIs
      <4>3. QED
        BY <4>2, Zenon
    <3>10. a.kind = "finite" /\ b.kind = "finite"
      BY <3>1, WholeIs DEF Standing
    <3>11. Order(l) = Value(l) /\ Order(r) = Value(r)
      BY <3>10, InfiniteIs, Orders
    <3>12. QED
      BY <3>3, <3>8, <3>9, <3>11 DEF neg
  <2>3. CASE (\E m, e : Standing(l, m, e)) /\ ~(\E m, e : Standing(r, m, e))
    <3>1. b = Infinite(Negative(r)) /\ Order(r) = IF Negative(r) THEN -(2 * LARGEST) ELSE 2 * LARGEST
      BY <2>3, Orders
    <3>2. a.kind = "finite"
      BY <2>3, WholeIs DEF Standing
    <3>3. Order(l) \in Int /\ Order(l) <= LARGEST /\ Order(l) >= -LARGEST
      BY <3>2, InfiniteIs, Orders
    <3>4. Negated(b) = Infinite(~Negative(r))
      BY <1>2, <3>1, NegatedIs
    <3>5. Sum(a, Negated(b)) = Infinite(~Negative(r))
      <4>1. ~IsInfinite(a) /\ IsInfinite(Negated(b))
        BY <3>2, <3>4, InfiniteIs DEF IsInfinite
      <4>2. QED
        BY <3>4, <4>1, InfiniteSum
    <3>6. word # 0 /\ (Negative(word) <=> ~Negative(r))
      BY <1>2, <2>1, <3>5, InfiniteWordTells
    <3>7. QED
      BY <1>1, <1>2, <3>1, <3>3, <3>6
  <2>4. CASE ~(\E m, e : Standing(l, m, e))
    <3>1. a = Infinite(Negative(l)) /\ Order(l) = IF Negative(l) THEN -(2 * LARGEST) ELSE 2 * LARGEST
      BY <2>4, Orders
    <3>2. IsInfinite(a)
      BY <3>1, InfiniteIs DEF IsInfinite
    <3>3. CASE \E m, e : Standing(r, m, e)
      <4>1. b.kind = "finite"
        BY <3>3, WholeIs DEF Standing
      <4>2. Order(r) \in Int /\ Order(r) <= LARGEST /\ Order(r) >= -LARGEST
        BY <4>1, InfiniteIs, Orders
      <4>3. ~IsInfinite(Negated(b))
        <5>1. PICK m, e : b = Whole(Negative(r), m, e)
          BY <3>3 DEF Standing
        <5>2. Negated(b) = Whole(~Negative(r), m, e)
          BY <1>2, <5>1, NegatedIs
        <5>3. QED
          BY <5>2, WholeIs DEF IsInfinite
      <4>4. Sum(a, Negated(b)) = Infinite(Negative(l))
        BY <3>1, <3>2, <4>3, InfiniteSum
      <4>5. word # 0 /\ (Negative(word) <=> Negative(l))
        BY <1>2, <2>1, <4>4, InfiniteWordTells
      <4>6. QED
        BY <1>1, <1>2, <3>1, <4>2, <4>5
    <3>4. CASE ~\E m, e : Standing(r, m, e)
      <4>1. b = Infinite(Negative(r)) /\ Order(r) = IF Negative(r) THEN -(2 * LARGEST) ELSE 2 * LARGEST
        BY <3>4, Orders
      <4>2. Negative(l) # Negative(r)
        BY <1>4, <3>1, <4>1, InfiniteIs DEF Equal
      <4>3. Negated(b) = a
        <5>1. Negated(b) = Infinite(~Negative(r))
          BY <1>2, <4>1, NegatedIs
        <5>2. Infinite(~Negative(r)) = Infinite(Negative(l))
          BY <1>2, <4>2, OtherSign
        <5>3. QED
          BY <3>1, <5>1, <5>2, Zenon
      <4>4. Sum(a, Negated(b)) = Infinite(Negative(l))
        BY <3>1, <3>2, <4>3, InfiniteSum
      <4>5. word # 0 /\ (Negative(word) <=> Negative(l))
        BY <1>2, <2>1, <4>4, InfiniteWordTells
      <4>6. QED
        BY <1>1, <1>2, <3>1, <4>1, <4>2, <4>5
    <3>5. QED
      BY <3>3, <3>4
  <2>5. QED
    BY <2>2, <2>3, <2>4
<1>5. QED
  BY <1>3, <1>4

\* What CMPF.S leaves is right because nothing ran before it but what chose the
\* registers.
FpuIInv == /\ ready = TRUE => regs \in [{1, 2} -> Word] /\ computed.op = "none"
           /\ ComparisonTellsTheOrder

LEMMA ComparisonStep ==
  ASSUME FpuIInv, FpuNext
  PROVE  FpuIInv'
<1>1. PICK do \in Operations, reg2 \in {0, 1, 2} :
        /\ ExecuteFloat(do, 1, reg2)
        /\ computed' = [op |-> do, right |-> Reg(1), left |-> Reg(reg2), target |-> reg2,
                        regs |-> regs, sticky |-> sticky]
  BY DEF FpuNext
<1> DEFINE l == Reg(reg2)
           r == Reg(1)
           a == FromBits(l)
           b == FromBits(r)
<1>2. ready = TRUE /\ ready' = FALSE
  <2>1. ready /\ ready' = FALSE
    BY <1>1 DEF ExecuteFloat
  <2>2. QED
    BY <2>1
<1>3. /\ computed'.op = do /\ computed'.left = l /\ computed'.right = r
      /\ computed'.regs = regs
  BY <1>1
<1>4. l \in Word /\ r \in Word
  <2>1. regs \in [{1, 2} -> Word]
    BY <1>2 DEF FpuIInv
  <2>2. 0 \in Word
    BY ZeroWord
  <2>3. QED
    BY <2>1, <2>2 DEF Reg
<1> HIDE DEF l, r
<1>5. CASE do # "CmpfS" \/ fault' # "None"
  BY <1>2, <1>3, <1>5 DEF FpuIInv, ComparisonTellsTheOrder, Computes
<1>6. CASE do = "CmpfS" /\ fault' = "None"
  <2>1. ~ReservedOperand(a) /\ ~ReservedOperand(b) /\ Arithmetic(do, a, b, reg2)
    BY <1>1, <1>6 DEF ExecuteFloat, Fault, l, r
  <2>2. Compare(a, b)
    BY <1>6, <2>1 DEF Arithmetic
  <2>3. PICK word \in Difference(a, b) : SetFpCondition(word)
    BY <2>2 DEF Compare
  <2>4. regs' = regs
    BY <2>2 DEF Compare
  <2>5. a # NaN /\ b # NaN
    BY <2>1, NaNIs DEF ReservedOperand
  <2>6. /\ word = 0 <=> Order(l) = Order(r)
        /\ Negative(word) <=> Order(l) < Order(r)
    BY <1>4, <2>3, <2>5, CompareTells
  <2>7. /\ conditions'.z = (word = 0) /\ conditions'.s = Negative(word)
        /\ conditions'.cy = Negative(word) /\ conditions'.ov = FALSE
    BY <2>3 DEF SetFpCondition
  <2>8. Left' = l /\ Right' = r
    BY <1>3 DEF Left, Right
  <2>9. ComparisonTellsTheOrder'
    <3>1. regs' = computed'.regs
      BY <1>3, <2>4
    <3>2. conditions'.z <=> Order(l) = Order(r)
      BY <2>6, <2>7
    <3>3. conditions'.cy <=> Order(l) < Order(r)
      BY <2>6, <2>7
    <3>4. conditions'.s # conditions'.ov <=> Order(l) < Order(r)
      <4> DEFINE n == Negative(word)
      <4>0. n \in BOOLEAN
        BY DEF Negative
      <4> HIDE DEF n
      <4>1. conditions'.s # conditions'.ov <=> n
        BY <2>7, <4>0 DEF n
      <4>2. QED
        BY <2>6, <4>1 DEF n
    <3>5. QED
      BY <2>8, <3>1, <3>2, <3>3, <3>4 DEF ComparisonTellsTheOrder
  <2>10. QED
    BY <1>2, <2>9 DEF FpuIInv
<1>7. QED
  BY <1>5, <1>6

\* Whatever the widths of exponent and fraction, the branches after CMPF.S
\* tell the order of its operands: the code looks at the sign and at nothing
\* but a zero of a difference that was rounded twice, once to f64 and once to
\* the register, and might have overflowed.
THEOREM ComparisonsTellTheOrder == FpuSpec => []ComparisonTellsTheOrder
<1>1. FpuInit => FpuIInv
  BY DEF FpuInit, FloatInit, FpuIInv, ComparisonTellsTheOrder, Computes
<1>2. FpuIInv /\ [FpuNext]_fpuVars => FpuIInv'
  <2>1. CASE FpuNext
    BY <2>1, ComparisonStep
  <2>2. CASE UNCHANGED fpuVars
    BY <2>2 DEF fpuVars, floatVars, FpuIInv, ComparisonTellsTheOrder, Computes, Left, Right
  <2>3. QED
    BY <2>1, <2>2
<1>3. FpuIInv => ComparisonTellsTheOrder
  BY DEF FpuIInv
<1>4. QED
  BY <1>1, <1>2, <1>3, PTL DEF FpuSpec

-----------------------------------------------------------------------------
(* The words of a sign in their order, and the values they have.            *)

\* The value of the n-th word without a sign, in units of the smallest denormal.
\* It is q * 2^j for the q-th step of the j-th octave, n = F * j + q, where the last
\* step of an octave is the first of the next but one.
Level(n) == LET x == n \div FRACTIONS
                f == n % FRACTIONS
            IN  IF x = 0 THEN f ELSE (f + FRACTIONS) * 2^(x - 1)

Place(q, j) == /\ q \in Nat /\ j \in Nat /\ q <= 2 * FRACTIONS
               /\ j # 0 => q >= FRACTIONS

LEMMA LevelFrom ==
  ASSUME NEW x \in Nat, NEW f \in 0..(FRACTIONS - 1)
  PROVE  Level(FRACTIONS * x + f) = IF x = 0 THEN f ELSE (f + FRACTIONS) * 2^(x - 1)
<1> DEFINE n == FRACTIONS * x + f
<1>1. n \div FRACTIONS = x /\ n % FRACTIONS = f
  <2> DEFINE F == FRACTIONS
  <2>1. F \in Nat \ {0} /\ x \in Int /\ f \in 0..(F - 1)
    BY FieldSizes
  <2> HIDE DEF F
  <2>2. (F * x + f) \div F = x /\ (F * x + f) % F = f
    BY <2>1, DivisionOf
  <2>3. QED
    BY <2>2 DEF F
<1> HIDE DEF n
<1>2. Level(n) = IF x = 0 THEN f ELSE (f + FRACTIONS) * 2^(x - 1)
  BY <1>1, Zenon DEF Level
<1>3. QED
  BY <1>2 DEF n

\* The first word is nothing.
LEMMA LevelOfNone == Level(0) = 0
<1>1. 0 \in 0..(FRACTIONS - 1) /\ FRACTIONS * 0 + 0 = 0
  BY FieldSizes
<1>2. Level(FRACTIONS * 0 + 0) = 0
  BY <1>1, LevelFrom
<1>3. QED
  BY <1>1, <1>2

LEMMA LevelOfPlace ==
  ASSUME NEW q, NEW j, Place(q, j)
  PROVE  Level(FRACTIONS * j + q) = q * 2^j
<1> DEFINE F == FRACTIONS
<1>1. F \in Nat \ {0} /\ q \in Nat /\ j \in Nat /\ q <= 2 * F /\ (j # 0 => q >= F)
  BY FieldSizes DEF Place
<1>2. 2^0 = 1 /\ F * 0 = 0
  BY <1>1
<1>3. CASE j = 0 /\ q < F
  <2>1. Level(F * 0 + q) = q
    <3>1. 0 \in Nat /\ q \in 0..(F - 1)
      BY <1>1, <1>3
    <3>2. QED
      BY <3>1, LevelFrom
  <2>2. q * 1 = q
    BY <1>1
  <2>3. QED
    BY <1>2, <1>3, <2>1, <2>2
<1>4. CASE q >= F /\ q < 2 * F
  <2> DEFINE x == j + 1
             f == q - F
  <2>1. x \in Nat /\ f \in 0..(F - 1) /\ x # 0 /\ x - 1 = j /\ f + F = q
    BY <1>1, <1>4
  <2>2. F * x + f = F * j + q
    <3> HIDE DEF F
    <3>1. F * (j + 1) = F * j + F /\ F * j \in Int
      BY <1>1
    <3>2. QED
      BY <1>1, <3>1
  <2> HIDE DEF x, f
  <2>3. Level(F * x + f) = (f + F) * 2^(x - 1)
    BY <2>1, LevelFrom
  <2>4. QED
    BY <2>1, <2>2, <2>3
<1>5. CASE q = 2 * F
  <2> DEFINE x == j + 2
             p == 2^j
             i == j + 1
  <2>1. x \in Nat /\ 0 \in 0..(F - 1) /\ x # 0 /\ x - 1 = i
    BY <1>1
  <2>2. F * x + 0 = F * j + q
    <3> HIDE DEF F
    <3>1. F * (j + 2) = F * j + 2 * F /\ F * j \in Int
      BY <1>1
    <3>2. QED
      BY <1>1, <1>5, <3>1
  <2>3. 2^i = 2 * p /\ p \in Nat
    BY <1>1, PowerDoubles, PowerPositive
  <2> HIDE DEF x, p, i
  <2>4. Level(F * x + 0) = (0 + F) * 2^i
    BY <2>1, LevelFrom
  <2> HIDE DEF F
  <2>5. (0 + F) * (2 * p) = (2 * F) * p
    BY <1>1, <2>3
  <2>6. QED
    BY <1>5, <2>2, <2>3, <2>4, <2>5 DEF p, F
<1>6. QED
  BY <1>1, <1>3, <1>4, <1>5

LEMMA PlaceOf ==
  ASSUME NEW n \in Nat
  PROVE  \E q \in Nat, j \in Nat : Place(q, j) /\ q < 2 * FRACTIONS /\ n = FRACTIONS * j + q
<1> DEFINE F == FRACTIONS
           x == n \div F
           f == n % F
<1>1. F \in Nat \ {0}
  BY FieldSizes
<1>2. x \in Nat /\ f \in 0..(F - 1) /\ n = F * x + f
  <2>1. x \in Int /\ f \in 0..(F - 1) /\ n = F * x + f
    BY <1>1, Divided
  <2> HIDE DEF F
  <2>2. F > 0 /\ F \in Nat
    BY <1>1
  <2>3. n \div F \in Nat
    BY <2>2, SMT
  <2>4. x \in Nat
    BY <2>3
  <2> HIDE DEF x, f
  <2>5. QED
    BY <2>1, <2>4
<1> HIDE DEF x, f
<1>3. CASE x = 0
  <2>1. n = F * 0 + f /\ 0 \in Nat /\ f \in Nat /\ f < 2 * F
    BY <1>1, <1>2, <1>3
  <2>2. Place(f, 0)
    BY <1>1, <2>1 DEF Place
  <2>3. QED
    BY <2>1, <2>2
<1>4. CASE x # 0
  <2> DEFINE q == f + F
             j == x - 1
  <2>1. q \in Nat /\ j \in Nat /\ q >= F /\ q < 2 * F /\ j + 1 = x
    BY <1>1, <1>2, <1>4
  <2>2. n = F * j + q
    <3> HIDE DEF F
    <3>1. F * (x - 1) = F * x - F /\ F * x \in Int
      BY <1>1, <1>2
    <3>2. QED
      BY <1>1, <1>2, <3>1
  <2> HIDE DEF q, j
  <2>3. Place(q, j)
    BY <1>1, <2>1 DEF Place
  <2>4. QED
    BY <2>1, <2>2, <2>3
<1>5. QED
  BY <1>3, <1>4

LEMMA LevelStep ==
  ASSUME NEW q, NEW j, Place(q, j), q < 2 * FRACTIONS
  PROVE  LET n == FRACTIONS * j + q
         IN  /\ Level(n) = q * 2^j /\ Level(n + 1) = (q + 1) * 2^j
             /\ Level(n) \in Nat /\ Level(n + 1) = Level(n) + 2^j
<1> DEFINE F == FRACTIONS
           p == 2^j
           r == q + 1
<1>1. F \in Nat \ {0} /\ q \in Nat /\ j \in Nat /\ (j # 0 => q >= F)
  BY FieldSizes DEF Place
<1>2. Place(r, j)
  BY <1>1 DEF Place
<1>3. p \in Nat \ {0}
  BY <1>1, PowerPositive
<1>4. Level(F * j + q) = q * p
  BY LevelOfPlace
<1> HIDE DEF r
<1>5. Level(F * j + r) = r * p
  BY <1>2, LevelOfPlace
<1>6. F * j + r = F * j + q + 1
  BY <1>1 DEF r
<1> HIDE DEF F, p
<1>7. r * p = q * p + p /\ q * p \in Nat
  BY <1>1, <1>3 DEF r
<1>8. QED
  BY <1>4, <1>5, <1>6, <1>7 DEF F, p, r

LEMMA LevelOrder ==
  ASSUME NEW m \in Nat, NEW n \in Nat
  PROVE  /\ Level(n) \in Nat
         /\ m < n => Level(m) < Level(n)
         /\ m <= n => Level(m) <= Level(n)
         /\ Level(m) = Level(n) => m = n
<1>1. ASSUME NEW i \in Nat PROVE Level(i) \in Nat /\ Level(i) < Level(i + 1)
  <2>1. PICK q \in Nat, j \in Nat : Place(q, j) /\ q < 2 * FRACTIONS /\ i = FRACTIONS * j + q
    BY PlaceOf
  <2> DEFINE p == 2^j
  <2>2. p \in Nat \ {0}
    BY PowerPositive
  <2>3. Level(i) \in Nat /\ Level(i + 1) = Level(i) + p
    BY <2>1, LevelStep
  <2> HIDE DEF p
  <2>4. QED
    BY <2>2, <2>3
<1>2. ASSUME NEW a \in Nat PROVE \A d \in Nat : Level(a) < Level(a + d + 1)
  <2> DEFINE S == {d \in Nat : Level(a) < Level(a + d + 1)}
  <2>1. 0 \in S
    <3>1. a + 0 + 1 = a + 1
      OBVIOUS
    <3>2. QED
      BY <1>1, <3>1
  <2>2. ASSUME NEW d \in Nat, d \in S PROVE d + 1 \in S
    <3> DEFINE b == a + d + 1
    <3>1. b \in Nat /\ a + (d + 1) + 1 = b + 1
      OBVIOUS
    <3>2. Level(a) < Level(b)
      BY <2>2
    <3> HIDE DEF b
    <3>3. Level(a) < Level(b + 1)
      BY <1>1, <3>1, <3>2
    <3>4. QED
      BY <3>1, <3>3
  <2> HIDE DEF S
  <2>3. Nat \subseteq S
    BY <2>1, <2>2, Induction
  <2>4. QED
    BY <2>3 DEF S
<1>3. ASSUME NEW a \in Nat, NEW b \in Nat, a < b PROVE Level(a) < Level(b)
  <2> DEFINE d == b - a - 1
  <2>1. d \in Nat /\ a + d + 1 = b
    BY <1>3
  <2> HIDE DEF d
  <2>2. QED
    BY <1>2, <2>1
<1>4. m < n => Level(m) < Level(n)
  BY <1>3
<1>5. n < m => Level(n) < Level(m)
  BY <1>3
<1>6. Level(m) \in Nat /\ Level(n) \in Nat
  BY <1>1
<1>7. m = n => Level(m) = Level(n)
  OBVIOUS
<1> DEFINE a == Level(m)
           b == Level(n)
<1> HIDE DEF a, b
<1>8. (m < n => a < b) /\ (n < m => b < a) /\ a \in Nat /\ b \in Nat /\ (m = n => a = b)
  BY <1>4, <1>5, <1>6, <1>7 DEF a, b
<1>9. b \in Nat /\ (m < n => a < b) /\ (m <= n => a <= b) /\ (a = b => m = n)
  BY <1>8
<1>10. QED
  BY <1>9 DEF a, b

\* An even step is an even word.
LEMMA PlaceParity ==
  ASSUME NEW q \in Nat, NEW j \in Nat
  PROVE  (FRACTIONS * j + q) % 2 = q % 2 /\ FRACTIONS % 2 = 0 /\ FRACTIONS >= 2
<1> DEFINE h == PRECISION - 2
           p == 2^h
           i == h + 1
<1>1. h \in Nat /\ i = PRECISION - 1
  BY FpuAssumption
<1>2. p \in Nat \ {0}
  BY <1>1, PowerPositive
<1>3. 2^i = 2 * p
  BY <1>1, PowerDoubles
<1>4. FRACTIONS = 2 * p
  BY <1>1, <1>3 DEF FRACTIONS
<1> HIDE DEF p, h, i
<1> DEFINE n == p * j
<1>5. n \in Nat /\ (2 * p) * j = 2 * n
  BY <1>2
<1> HIDE DEF n
<1>6. (2 * n + q) % 2 = q % 2
  BY <1>5
<1>7. QED
  BY <1>2, <1>4, <1>5, <1>6

\* All numbers in units below every exponent, and how many of them make the
\* smallest denormal.
Amount(x) == x.m * 2^(x.e - NoLeast)
GAP == LEAST - NoLeast

LEMMA GapIs == /\ NoLeast \in Int /\ NoLeast < 0 /\ NoLeast <= LEAST
               /\ GAP \in Nat /\ NoLeast = LEAST - GAP
  BY FieldSizes, FpuAssumption DEF NoLeast, GAP

LEMMA PowerBetween ==
  ASSUME NEW a \in Int, NEW b \in Int, a <= b
  PROVE  2^(b - a) \in Nat \ {0}
<1> DEFINE n == b - a
<1>1. n \in Nat
  OBVIOUS
<1> HIDE DEF n
<1>2. 2^n \in Nat \ {0}
  BY <1>1, PowerPositive
<1>3. QED
  BY <1>2 DEF n

LEMMA PowerSplit ==
  ASSUME NEW a \in Int, NEW b \in Int, NEW c \in Int, a <= b, b <= c
  PROVE  /\ 2^(c - a) = 2^(c - b) * 2^(b - a)
         /\ 2^(c - a) \in Nat \ {0} /\ 2^(c - b) \in Nat \ {0} /\ 2^(b - a) \in Nat \ {0}
<1> DEFINE m == c - b
           n == b - a
           k == c - a
<1>1. m \in Nat /\ n \in Nat /\ k = m + n /\ k \in Nat
  OBVIOUS
<1> HIDE DEF m, n, k
<1>2. 2^k = 2^m * 2^n /\ 2^k \in Nat \ {0} /\ 2^m \in Nat \ {0} /\ 2^n \in Nat \ {0}
  BY <1>1, PowersMultiply, PowerPositive
<1>3. QED
  BY <1>2 DEF m, n, k

\* A number as it is kept, in any unit below it.
LEMMA NumberAmount ==
  ASSUME NEW neg, NEW q \in Nat, NEW e \in Int, NEW unit \in Int, unit <= e, unit <= 0
  PROVE  LET x == Number(neg, q, e)
         IN  /\ x.kind = "finite" /\ x.neg = neg /\ x.m \in Nat /\ x.e \in Int
             /\ x.e >= unit /\ (q # 0 => x.e >= e) /\ (x.m = 0 <=> q = 0)
             /\ Odd(x.m) \/ (x.m = 0 /\ x.e = 0)
             /\ x = Whole(neg, x.m, x.e)
             /\ x.m * 2^(x.e - unit) = q * 2^(e - unit) /\ q * 2^(e - unit) \in Nat
<1> DEFINE x == Number(neg, q, e)
           t == 2^(e - unit)
<1>1. t \in Nat \ {0}
  BY PowerBetween
<1>2. CASE q = 0
  <2>1. x = Whole(neg, 0, 0)
    BY <1>2, ZeroIs DEF Whole
  <2> DEFINE s == 2^(0 - unit)
  <2>2. s \in Nat
    BY PowerBetween
  <2>3. x.kind = "finite" /\ x.neg = neg /\ x.m = 0 /\ x.e = 0
    BY <2>1, WholeIs
  <2> HIDE DEF s, t, x
  <2>4. 0 * s = 0 /\ 0 * t = 0
    BY <1>1, <2>2
  <2>5. x.m * 2^(x.e - unit) = 0
    BY <2>3, <2>4 DEF s
  <2>6. q * t = 0
    BY <1>2, <2>4
  <2>7. QED
    BY <1>2, <2>1, <2>3, <2>5, <2>6 DEF t, x
<1>3. CASE q # 0
  <2>1. PICK o \in Nat, j \in Nat : Odd(o) /\ q = o * 2^j /\ Number(neg, q, e) = Whole(neg, o, e + j)
    BY <1>3, NumberShape
  <2> DEFINE d == e + j
             p == 2^j
             s == 2^(d - unit)
  <2>2. d \in Int /\ unit <= d /\ e <= d /\ d - e = j
    OBVIOUS
  <2>3. x.kind = "finite" /\ x.neg = neg /\ x.m = o /\ x.e = d
    BY <2>1, WholeIs
  <2>4. x = Whole(neg, o, d)
    BY <2>1
  <2> HIDE DEF d, x
  <2>5. s = p * t /\ p \in Nat
    BY <2>2, PowerSplit
  <2> HIDE DEF p, t, s
  <2>6. o * s = q * t /\ q * t \in Nat
    <3>1. o * (p * t) = (o * p) * t
      BY <1>1, <2>5, SMT
    <3>2. q = o * p
      BY <2>1 DEF p
    <3>3. QED
      BY <1>1, <2>5, <3>1, <3>2
  <2>7. o # 0
    BY <2>1 DEF Odd
  <2>8. x.m * 2^(x.e - unit) = q * t
    BY <2>3, <2>6 DEF s
  <2>9. QED
    BY <1>3, <2>1, <2>2, <2>3, <2>4, <2>6, <2>7, <2>8 DEF t, x
<1>4. QED
  BY <1>2, <1>3

\* Numbers of one amount are one, but for the sign.
LEMMA AmountsApart ==
  ASSUME NEW x, NEW y, x.m \in Nat, y.m \in Nat, x.e \in Int, y.e \in Int, x.e >= NoLeast, y.e >= NoLeast,
         Odd(x.m) \/ (x.m = 0 /\ x.e = 0), Odd(y.m) \/ (y.m = 0 /\ y.e = 0), Amount(x) = Amount(y)
  PROVE  x.m = y.m /\ x.e = y.e
<1> DEFINE m == x.m
           d == x.e
           n == y.m
           e == y.e
           j == d - NoLeast
           k == e - NoLeast
           s == 2^j
           t == 2^k
<1>9. /\ m \in Nat /\ n \in Nat /\ (Odd(m) \/ (m = 0 /\ d = 0)) /\ (Odd(n) \/ (n = 0 /\ e = 0))
      /\ d \in Int /\ e \in Int /\ NoLeast \in Int /\ d >= NoLeast /\ e >= NoLeast
  BY GapIs
<1>1. j \in Nat /\ k \in Nat /\ d = NoLeast + j /\ e = NoLeast + k
  BY <1>9
<1>3. m * s = n * t
  BY DEF Amount
<1> HIDE DEF j, k, m, n, d, e
<1>2. s \in Nat \ {0} /\ t \in Nat \ {0}
  BY <1>1, PowerPositive
<1>4. (m = 0 => m * s = 0) /\ (n = 0 => n * t = 0) /\ (m # 0 => m * s # 0) /\ (n # 0 => n * t # 0)
  <2> HIDE DEF s, t
  <2>1. QED
    BY <1>9, <1>2, SMT
<1>5. ASSUME m = 0 PROVE m = n /\ d = e
  BY <1>9, <1>3, <1>4, <1>5 DEF Odd
<1>6. ASSUME n = 0 PROVE m = n /\ d = e
  BY <1>9, <1>3, <1>4, <1>6 DEF Odd
<1>7. ASSUME m # 0, n # 0 PROVE m = n /\ d = e
  <2>1. m = n /\ j = k
    BY <1>9, <1>1, <1>3, <1>7, OddFormUnique
  <2>2. QED
    BY <1>1, <2>1
<1>8. QED
  BY <1>5, <1>6, <1>7 DEF m, n, d, e

LEMMA BelowAmount ==
  ASSUME NEW x, x.m \in Nat, x.e \in Int, NEW unit \in Int, unit <= x.e, NEW k \in Int, unit <= k
  PROVE  Below(x, k) <=> x.m * 2^(x.e - unit) < 2^(k - unit)
<1> DEFINE m == x.m
           e == x.e
           s == 2^(e - unit)
           t == 2^(k - unit)
<1>1. m \in Nat /\ e \in Int /\ unit <= e
  OBVIOUS
<1>2. Below(x, k) <=> m = 0 \/ (k > e /\ m < 2^(k - e))
  BY DEF Below
<1> HIDE DEF m, e
<1>3. s \in Nat \ {0} /\ t \in Nat \ {0}
  BY <1>1, PowerBetween
<1>4. CASE m = 0
  <2> HIDE DEF s, t
  <2>1. m * s = 0
    BY <1>3, <1>4
  <2>2. m * s < t
    BY <1>3, <2>1
  <2>3. Below(x, k)
    BY <1>2, <1>4
  <2>4. QED
    BY <2>2, <2>3 DEF m, e, s, t
<1>5. CASE m # 0 /\ k > e
  <2> DEFINE p == 2^(k - e)
  <2>1. t = p * s /\ p \in Nat \ {0}
    BY <1>1, <1>5, PowerSplit
  <2>2. Below(x, k) <=> m < p
    BY <1>2, <1>5
  <2> HIDE DEF p, s, t
  <2>3. m < p <=> m * s < p * s
    BY <1>1, <1>3, <2>1, SignOfProduct
  <2>4. QED
    BY <2>1, <2>2, <2>3 DEF m, e, s, t
<1>6. CASE m # 0 /\ ~(k > e)
  <2> DEFINE p == 2^(e - k)
  <2>1. s = p * t /\ p \in Nat \ {0}
    BY <1>1, <1>6, PowerSplit
  <2> HIDE DEF p, s, t
  <2>2. m * s = (m * p) * t /\ m * p \in Nat \ {0}
    BY <1>1, <1>3, <1>6, <2>1, SMT
  <2> DEFINE n == m * p
  <2> HIDE DEF n
  <2>3. n * t >= t
    <3>1. t * 1 <= t * n
      BY <1>3, <2>2, ProductMonotone DEF n
    <3>2. t * 1 = t /\ t * n = n * t
      BY <1>3, <2>2 DEF n
    <3>3. QED
      BY <3>1, <3>2
  <2>4. ~(m * s < t)
    <3> DEFINE u == n * t
    <3>1. u \in Nat /\ m * s = u
      BY <1>3, <2>2 DEF n
    <3>2. u >= t
      BY <2>3
    <3> HIDE DEF u
    <3>3. QED
      BY <1>3, <3>1, <3>2
  <2>5. QED
    BY <1>2, <1>6, <2>4 DEF m, e, s, t
<1>7. QED
  BY <1>1, <1>4, <1>5, <1>6

-----------------------------------------------------------------------------
(* Rounding to the nearest of them.                                         *)

\* q units are nearest to an amount, and even when there are two of them.
Near(amount, unit, q) ==
  LET at == q * unit
  IN  /\ 2 * amount <= 2 * at + unit /\ 2 * at <= 2 * amount + unit
      /\ 2 * amount = 2 * at + unit \/ 2 * at = 2 * amount + unit => q % 2 = 0

LEMMA NearIs ==
  ASSUME NEW amount, NEW unit, NEW q, NEW at, at = q * unit
  PROVE  Near(amount, unit, q) <=>
           /\ 2 * amount <= 2 * at + unit /\ 2 * at <= 2 * amount + unit
           /\ 2 * amount = 2 * at + unit \/ 2 * at = 2 * amount + unit => q % 2 = 0
  BY DEF Near

LEMMA HalfEvenNear ==
  ASSUME NEW n \in Nat, NEW d \in Nat \ {0}
  PROVE  HalfEven(n, d) \in Nat /\ Near(n, d, HalfEven(n, d))
<1> DEFINE f == n \div d
           r == n % d
           q == HalfEven(n, d)
           s == d * f
           at == q * d
<1>1. f \in Nat /\ r \in 0..(d - 1) /\ n = s + r
  <2>1. f \in Nat
    BY HalfEvenIs
  <2>2. QED
    BY <2>1, Divided
<1>2. q = IF 2 * r > d \/ (2 * r = d /\ f % 2 = 1) THEN f + 1 ELSE f
  BY Zenon DEF HalfEven
<1>3. s \in Nat /\ f * d = s /\ (f + 1) * d = s + d
  <2> HIDE DEF f
  <2>1. QED
    BY <1>1
<1> HIDE DEF f, r, q, s
<1>4. f % 2 \in {0, 1} /\ (f % 2 = 1 => (f + 1) % 2 = 0)
  BY <1>1
<1>5. CASE 2 * r > d \/ (2 * r = d /\ f % 2 = 1)
  <2>1. q = f + 1 /\ at = s + d
    BY <1>2, <1>3, <1>5
  <2> HIDE DEF at
  <2>2. 2 * n <= 2 * at + d /\ 2 * at <= 2 * n + d /\ 2 * n # 2 * at + d
    BY <1>1, <1>3, <1>5, <2>1
  <2>3. 2 * at = 2 * n + d => 2 * r = d
    BY <1>1, <1>3, <2>1
  <2>4. 2 * at = 2 * n + d => q % 2 = 0
    BY <1>1, <1>4, <1>5, <2>1, <2>3
  <2>5. Near(n, d, q)
    <3>1. at = q * d
      BY DEF at
    <3>2. QED
      BY <2>2, <2>4, <3>1, NearIs
  <2>6. QED
    BY <1>1, <2>1, <2>5 DEF q
<1>6. CASE ~(2 * r > d \/ (2 * r = d /\ f % 2 = 1))
  <2>1. q = f /\ at = s
    BY <1>2, <1>3, <1>6
  <2> HIDE DEF at
  <2>2. 2 * n <= 2 * at + d /\ 2 * at <= 2 * n + d /\ 2 * at # 2 * n + d
    BY <1>1, <1>3, <1>6, <2>1
  <2>3. 2 * n = 2 * at + d => 2 * r = d
    BY <1>1, <1>3, <2>1
  <2>4. 2 * n = 2 * at + d => q % 2 = 0
    BY <1>1, <1>4, <1>6, <2>1, <2>3
  <2>5. Near(n, d, q)
    <3>1. at = q * d
      BY DEF at
    <3>2. QED
      BY <2>2, <2>4, <3>1, NearIs
  <2>6. QED
    BY <1>1, <2>1, <2>5 DEF q
<1>7. QED
  BY <1>5, <1>6

LEMMA NearScaled ==
  ASSUME NEW n \in Nat, NEW d \in Nat, NEW q \in Nat, Near(n, d, q), NEW t \in Nat \ {0}
  PROVE  Near(n * t, d * t, q)
<1> DEFINE at == q * d
           a == 2 * n
           b == 2 * at + d
           c == 2 * at
           e == 2 * n + d
           u == d * t
           v == n * t
           w == q * u
<1>1. /\ a <= b /\ c <= e
      /\ a = b \/ c = e => q % 2 = 0
  BY DEF Near
<1>2. a \in Nat /\ b \in Nat /\ c \in Nat /\ e \in Nat /\ at \in Nat
  OBVIOUS
<1>3. /\ a * t = 2 * v /\ b * t = 2 * w + u /\ c * t = 2 * w /\ e * t = 2 * v + u
      /\ u \in Nat /\ v \in Nat /\ w \in Nat
  <2>1. w = at * t
    BY SMT
  <2>2. (2 * at + d) * t = 2 * (at * t) + d * t
    <3> HIDE DEF at
    <3>1. QED
      BY <1>2, SMT
  <2>3. (2 * at) * t = 2 * (at * t)
    <3> HIDE DEF at
    <3>1. QED
      BY <1>2, SMT
  <2>4. (2 * n + d) * t = 2 * (n * t) + d * t /\ (2 * n) * t = 2 * (n * t)
    BY SMT
  <2>5. u \in Nat /\ v \in Nat /\ at * t \in Nat
    <3> HIDE DEF at
    <3>1. QED
      BY <1>2
  <2>6. QED
    BY <2>1, <2>2, <2>3, <2>4, <2>5
<1> HIDE DEF a, b, c, e, u, v, w
<1>4. (a < b <=> a * t < b * t) /\ (c < e <=> c * t < e * t) /\ (a = b <=> a * t = b * t) /\ (c = e <=> c * t = e * t)
  BY <1>2, SignOfProduct
<1>5. 2 * v <= 2 * w + u /\ 2 * w <= 2 * v + u
  BY <1>1, <1>2, <1>3, <1>4
<1>6. 2 * v = 2 * w + u \/ 2 * w = 2 * v + u => q % 2 = 0
  BY <1>1, <1>3, <1>4
<1>7. w = q * u
  BY DEF w
<1>8. Near(v, u, q)
  BY <1>5, <1>6, <1>7, NearIs
<1>9. QED
  BY <1>8 DEF u, v

\* What a number is rounded to in the format: the q-th step of an octave.
RoundsIn(amount, q, j) ==
  LET unit == 2^(j + GAP)
  IN  /\ Place(q, j) /\ Near(amount, unit, q)
      /\ j # 0 => amount >= FRACTIONS * unit

LEMMA NarrowsTo ==
  ASSUME NEW neg, NEW m \in Nat \ {0}, NEW e \in Int, e >= NoLeast
  PROVE  \E q \in Nat, j \in Nat :
           /\ RoundsIn(m * 2^(e - NoLeast), q, j)
           /\ Rounded(neg, m, 1, e, PRECISION, LEAST) = Number(neg, q, LEAST + j)
<1> DEFINE F == FRACTIONS
           a == m * 2^(e - NoLeast)
           L == Bits(m)
<1>1. /\ PRECISION \in Nat \ {0} /\ LEAST \in Int /\ F \in Nat \ {0} /\ 2^PRECISION = 2 * F
      /\ NoLeast \in Int /\ NoLeast <= LEAST /\ GAP \in Nat /\ NoLeast = LEAST - GAP
  BY FieldSizes, FpuAssumption, GapIs
<1>2. PICK q, k : /\ RoundsTo(neg, m, e, PRECISION, LEAST, q, k)
                  /\ RoundsBy(m, e, PRECISION, LEAST, q, k)
  BY <1>1, RoundedBy
<1> DEFINE f == e - k
           j == f - LEAST
           u == 2^(j + GAP)
<1>3. /\ Rounded(neg, m, 1, e, PRECISION, LEAST) = Number(neg, q, f)
      /\ q \in Nat /\ q <= 2 * F /\ k \in Int /\ f >= LEAST
      /\ k >= 0 => q = m * 2^k
  BY <1>1, <1>2 DEF RoundsTo
<1>4. /\ k < 0 => q = HalfEven(m, 2^(-k))
      /\ k = PRECISION - L \/ f = LEAST
  BY <1>2 DEF RoundsBy
<1>5. L \in Nat \ {0} /\ m >= 2^(L - 1)
  BY BitsAre
<1>6. f \in Int /\ j \in Nat /\ f = LEAST + j /\ j + GAP = f - NoLeast /\ f >= NoLeast
  BY <1>1, <1>3
<1> HIDE DEF L, j
<1>7. u = 2^(f - NoLeast) /\ u \in Nat \ {0}
  BY <1>1, <1>6, PowerBetween
<1>8. a \in Nat
  BY <1>1, PowerBetween
<1> HIDE DEF F
<1>9. Near(a, u, q) /\ (j # 0 => a >= F * u)
  <2>1. CASE k >= 0
    <3> DEFINE p == 2^k
               t == 2^(e - NoLeast)
    <3>1. t = p * u /\ p \in Nat \ {0} /\ t \in Nat \ {0}
      <4>1. f <= e /\ e - f = k
        BY <1>3, <2>1
      <4>2. 2^(e - NoLeast) = 2^(e - f) * 2^(f - NoLeast) /\ 2^(e - f) \in Nat \ {0} /\ 2^(e - NoLeast) \in Nat \ {0}
        BY <1>1, <1>6, <4>1, PowerSplit
      <4>3. QED
        BY <1>7, <4>1, <4>2
    <3>2. q = m * p
      BY <1>3, <2>1
    <3> HIDE DEF p, t, u
    <3>3. a = q * u
      <4>1. m * (p * u) = (m * p) * u
        BY <1>7, <3>1, SMT
      <4>2. QED
        BY <3>1, <3>2, <4>1 DEF t
    <3>4. Near(a, u, q)
      <4> HIDE DEF a
      <4>1. 2 * a <= 2 * a + u /\ 2 * a # 2 * a + u
        BY <1>7, <1>8
      <4>2. QED
        BY <3>3, <4>1, NearIs
    <3>5. j # 0 => q >= F
      <4> SUFFICES ASSUME j # 0 PROVE q >= F
        OBVIOUS
      <4>1. k = PRECISION - L
        BY <1>1, <1>4, <1>6
      <4> DEFINE c == L - 1
                 s == 2^c
      <4>2. c \in Nat /\ k \in Nat /\ k + c = PRECISION - 1
        BY <1>1, <1>5, <2>1, <4>1
      <4>3. m >= s
        BY <1>5
      <4> HIDE DEF c
      <4>4. F = p * s /\ s \in Nat
        <5>1. 2^(k + c) = 2^k * 2^c /\ 2^c \in Nat
          BY <4>2, PowersMultiply, PowerPositive
        <5>2. QED
          BY <4>2, <5>1 DEF F, FRACTIONS, p
      <4> HIDE DEF s
      <4>5. p * s <= p * m /\ p * m = m * p
        BY <3>1, <4>3, <4>4, ProductMonotone
      <4>6. QED
        BY <3>2, <4>4, <4>5
    <3>6. q >= F => q * u >= F * u
      <4> SUFFICES ASSUME q >= F PROVE q * u >= F * u
        OBVIOUS
      <4>1. u * F <= u * q /\ u * F = F * u /\ u * q = q * u
        BY <1>1, <1>3, <1>7, ProductMonotone
      <4>2. QED
        BY <4>1
    <3>7. QED
      BY <3>3, <3>4, <3>5, <3>6
  <2>2. CASE ~(k >= 0)
    <3> DEFINE c == -k
               p == 2^c
               t == 2^(e - NoLeast)
    <3>1. c \in Nat /\ e <= f /\ f - e = c /\ q = HalfEven(m, p)
      BY <1>3, <1>4, <2>2
    <3>2. u = p * t /\ t \in Nat \ {0} /\ p \in Nat \ {0}
      <4>1. 2^(f - NoLeast) = 2^(f - e) * 2^(e - NoLeast) /\ 2^(e - NoLeast) \in Nat \ {0} /\ 2^(f - e) \in Nat \ {0}
        BY <1>1, <1>6, <3>1, PowerSplit
      <4>2. QED
        BY <1>7, <3>1, <4>1
    <3> HIDE DEF c, u
    <3>3. Near(m, p, q)
      BY <3>1, <3>2, HalfEvenNear
    <3> HIDE DEF p
    <3>4. Near(m * t, p * t, q)
      <4> HIDE DEF t
      <4>1. QED
        BY <1>3, <3>2, <3>3, NearScaled
    <3>5. j # 0 => m >= F * p
      <4> SUFFICES ASSUME j # 0 PROVE m >= F * p
        OBVIOUS
      <4>1. k = PRECISION - L
        BY <1>1, <1>4, <1>6
      <4> DEFINE d == PRECISION - 1
                 n == L - 1
      <4>2. n = d + c /\ d \in Nat
        BY <1>1, <1>3, <1>5, <3>1, <4>1 DEF c
      <4> HIDE DEF n
      <4>3. 2^n = F * p
        <5> HIDE DEF d
        <5>1. 2^(d + c) = 2^d * 2^c
          BY <3>1, <4>2, PowersMultiply
        <5>2. QED
          BY <4>2, <5>1 DEF F, FRACTIONS, p, d
      <4>4. m >= 2^n
        BY <1>5 DEF n
      <4>5. QED
        BY <4>3, <4>4
    <3>6. m >= F * p => a >= F * u
      <4> SUFFICES ASSUME m >= F * p PROVE a >= F * u
        OBVIOUS
      <4> DEFINE w == F * p
      <4>1. w \in Nat /\ w <= m
        BY <1>1, <3>2
      <4> HIDE DEF t
      <4>2. F * (p * t) = w * t
        BY <1>1, <3>2, SMT
      <4> HIDE DEF w
      <4>3. t * w <= t * m /\ t * w = w * t /\ t * m = m * t
        BY <3>2, <4>1, ProductMonotone
      <4>4. QED
        BY <3>2, <4>2, <4>3 DEF t
    <3>7. QED
      BY <3>2, <3>4, <3>5, <3>6 DEF t
  <2>3. QED
    BY <2>1, <2>2
<1> HIDE DEF u, a
<1>10. j # 0 => q >= F
  <2> SUFFICES ASSUME j # 0 PROVE q >= F
    OBVIOUS
  <2> DEFINE at == q * u
             low == F * u
  <2>1. at \in Nat /\ low \in Nat
    BY <1>1, <1>3, <1>7
  <2>2. 2 * a <= 2 * at + u /\ a >= low
    BY <1>9 DEF Near
  <2>3. q + 1 <= F => at + u <= low
    <3> SUFFICES ASSUME q + 1 <= F PROVE at + u <= low
      OBVIOUS
    <3>1. u * (q + 1) <= u * F /\ u * F = low /\ u * (q + 1) = at + u
      BY <1>1, <1>3, <1>7, ProductMonotone
    <3> HIDE DEF at, low
    <3>2. QED
      BY <3>1
  <2> HIDE DEF at, low
  <2>4. ~(at + u <= low)
    BY <1>7, <1>8, <2>1, <2>2
  <2>5. QED
    BY <1>1, <1>3, <2>3, <2>4
<1>11. Place(q, j)
  BY <1>3, <1>6, <1>10 DEF Place, F
<1>12. RoundsIn(a, q, j)
  BY <1>9, <1>11, Zenon DEF RoundsIn, u, F
<1>13. QED
  BY <1>3, <1>6, <1>12 DEF a

\* The amount of the n-th word, and the amounts that are rounded to it: those up to
\* the middle of the way to its neighbours, the even one of two getting the middle.
Mark(n) == Level(n) * 2^GAP

Rounds(amount, n) ==
  /\ 2 * amount <= Mark(n) + Mark(n + 1)
  /\ n # 0 => Mark(n - 1) + Mark(n) <= 2 * amount
  /\ \/ 2 * amount = Mark(n) + Mark(n + 1)
     \/ n # 0 /\ 2 * amount = Mark(n - 1) + Mark(n)
     => n % 2 = 0

LEMMA MarkOrder ==
  ASSUME NEW m \in Nat, NEW n \in Nat
  PROVE  /\ Mark(n) \in Nat
         /\ m < n => Mark(m) < Mark(n)
         /\ m <= n => Mark(m) <= Mark(n)
         /\ Mark(m) = Mark(n) => m = n
         /\ Mark(m) < Mark(n) <=> Level(m) < Level(n)
<1> DEFINE g == 2^GAP
           a == Level(m)
           b == Level(n)
           s == a * g
           t == b * g
<1>1. g \in Nat \ {0}
  BY GapIs, PowerPositive
<1>2. a \in Nat /\ b \in Nat /\ (m < n => a < b) /\ (m <= n => a <= b) /\ (a = b => m = n)
  BY LevelOrder
<1> HIDE DEF g, a, b
<1>3. (a < b <=> s < t) /\ (a = b <=> s = t) /\ s \in Nat /\ t \in Nat
  BY <1>1, <1>2, SignOfProduct
<1>4. Mark(m) = s /\ Mark(n) = t
  BY DEF Mark, a, b, g
<1> HIDE DEF s, t
<1>5. t \in Nat /\ (m < n => s < t) /\ (m <= n => s <= t) /\ (s = t => m = n)
  BY <1>2, <1>3
<1>6. QED
  BY <1>3, <1>4, <1>5 DEF a, b

LEMMA MarkStep ==
  ASSUME NEW q, NEW j, Place(q, j), q < 2 * FRACTIONS
  PROVE  LET n == FRACTIONS * j + q
             unit == 2^(j + GAP)
         IN  /\ n \in Nat /\ unit \in Nat \ {0} /\ Mark(n) = q * unit /\ Mark(n + 1) = q * unit + unit
<1> DEFINE n == FRACTIONS * j + q
           p == 2^j
           g == 2^GAP
           u == 2^(j + GAP)
<1>1. q \in Nat /\ j \in Nat /\ FRACTIONS \in Nat /\ GAP \in Nat
  BY FieldSizes, GapIs DEF Place
<1>2. u = p * g /\ p \in Nat \ {0} /\ g \in Nat \ {0}
  BY <1>1, PowersMultiply, PowerPositive
<1>3. Level(n) = q * p /\ Level(n + 1) = (q + 1) * p
  BY LevelStep
<1>4. n \in Nat
  BY <1>1
<1>5. Mark(n) = (q * p) * g /\ Mark(n + 1) = ((q + 1) * p) * g
  BY <1>3 DEF Mark
<1> HIDE DEF n, p, g, u
<1>6. u \in Nat \ {0} /\ (q * p) * g = q * u /\ ((q + 1) * p) * g = q * u + u
  <2>1. (q * p) * g = q * (p * g) /\ ((q + 1) * p) * g = (q + 1) * (p * g) /\ p * g \in Nat \ {0}
    BY <1>1, <1>2, SMT
  <2> DEFINE w == p * g
  <2>2. w \in Nat \ {0}
    BY <2>1
  <2> HIDE DEF w
  <2>3. (q + 1) * w = q * w + w
    BY <1>1, <2>2
  <2>4. QED
    BY <1>2, <2>1, <2>2, <2>3 DEF w
<1>7. QED
  BY <1>4, <1>5, <1>6 DEF n, u

LEMMA RoundsToLevel ==
  ASSUME NEW amount \in Nat, NEW q, NEW j, RoundsIn(amount, q, j)
  PROVE  LET n == FRACTIONS * j + q
         IN  /\ n \in Nat /\ Rounds(amount, n) /\ Level(n) = q * 2^j /\ Mark(n) = q * 2^(j + GAP)
<1> DEFINE F == FRACTIONS
           n == F * j + q
           u == 2^(j + GAP)
           at == q * u
<1>1. /\ F \in Nat \ {0} /\ F >= 2 /\ F % 2 = 0 /\ q \in Nat /\ j \in Nat /\ q <= 2 * F
      /\ (j # 0 => q >= F)
      /\ Place(q, j) /\ GAP \in Nat
  BY FieldSizes, GapIs, PlaceParity DEF Place, RoundsIn
<1>2. u \in Nat \ {0}
  BY <1>1, PowerPositive
<1>3. Near(amount, u, q) /\ (j # 0 => amount >= F * u)
  BY Zenon DEF RoundsIn
<1>4. n \in Nat /\ n % 2 = q % 2
  <2>1. n \in Nat
    BY <1>1
  <2>2. QED
    BY <1>1, <2>1, PlaceParity
<1> HIDE DEF u
<1>5. /\ 2 * amount <= 2 * at + u /\ 2 * at <= 2 * amount + u
      /\ 2 * amount = 2 * at + u \/ 2 * at = 2 * amount + u => q % 2 = 0
      /\ at \in Nat
  BY <1>1, <1>2, <1>3 DEF Near
<1>6. Level(n) = q * 2^j
  BY <1>1, LevelOfPlace
<1>7. Mark(n) = at /\ (q < 2 * F => Mark(n + 1) = at + u) /\ (q = 2 * F => Mark(n + 1) = at + 2 * u)
  <2>1. CASE q < 2 * F
    <3>1. Mark(n) = at /\ Mark(n + 1) = at + u
      BY <1>1, <2>1, MarkStep DEF u
    <3> HIDE DEF n, at
    <3>2. q # 2 * F
      BY <1>1, <2>1
    <3>3. QED
      BY <3>1, <3>2
  <2>2. CASE q = 2 * F
    <3> DEFINE i == j + 1
               v == 2^(i + GAP)
    <3>1. Place(F, i) /\ F < 2 * F /\ F * i + F = n
      <4>1. i \in Nat /\ F <= 2 * F
        BY <1>1
      <4>2. F * (j + 1) = F * j + F
        BY <1>1
      <4>3. F * i + F = n
        <5> DEFINE b == F * j
        <5> HIDE DEF F
        <5>1. b \in Nat
          BY <1>1
        <5> HIDE DEF b
        <5>2. F * i = b + F
          BY <4>2 DEF b
        <5>3. b + F + F = b + q
          BY <1>1, <2>2, <5>1
        <5>4. QED
          BY <5>2, <5>3 DEF b
      <4>4. QED
        BY <1>1, <4>1, <4>3 DEF Place
    <3>2. v = 2 * u
      <4> DEFINE k == j + GAP
      <4>1. k \in Nat /\ i + GAP = k + 1
        BY <1>1
      <4> HIDE DEF k
      <4>2. 2^(k + 1) = 2 * 2^k
        BY <4>1, PowerDoubles
      <4>3. QED
        BY <4>1, <4>2 DEF k, u
    <3> HIDE DEF i
    <3>3. Mark(F * i + F) = F * v /\ Mark(F * i + F + 1) = F * v + v
      BY <3>1, MarkStep
    <3> HIDE DEF v, n, F
    <3>4. F * (2 * u) = (2 * F) * u
      BY <1>1, <1>2
    <3>5. F * v = at
      BY <2>2, <3>2, <3>4
    <3>6. QED
      BY <1>1, <2>2, <3>1, <3>2, <3>3, <3>5
  <2>3. QED
    BY <1>1, <2>1, <2>2
<1>8. ASSUME n # 0
      PROVE  LET low == Mark(n - 1)
             IN /\ low + at <= 2 * amount
                /\ low + at = 2 * amount => 2 * at = 2 * amount + u
  <2> DEFINE low == Mark(n - 1)
  <2>1. CASE q # 0 /\ (j = 0 \/ q > F)
    <3> DEFINE r == q - 1
               k == F * j + r
    <3>1. Place(r, j) /\ r < 2 * F /\ k = n - 1 /\ k + 1 = n
      BY <1>1, <2>1 DEF Place
    <3> HIDE DEF r
    <3>2. Mark(k) = r * u /\ Mark(k + 1) = r * u + u
      BY <3>1, MarkStep DEF u
    <3> HIDE DEF k
    <3>3. low = r * u /\ at = r * u + u
      BY <1>7, <3>1, <3>2
    <3>4. r * u \in Nat
      BY <1>1, <1>2, <2>1 DEF r
    <3>5. QED
      BY <1>2, <1>5, <3>3, <3>4
  <2>2. CASE ~(q # 0 /\ (j = 0 \/ q > F))
    <3>1. j # 0 /\ q = F
      <4>1. q = 0 => j = 0
        BY <1>1
      <4>2. q = 0 => n = 0
        BY <1>1, <4>1
      <4>3. q # 0
        BY <1>8, <4>2
      <4>4. QED
        BY <1>1, <2>2, <4>3
    <3>2. amount >= at
      BY <1>3, <3>1
    <3>3. low < at /\ low \in Nat
      <4>1. n - 1 \in Nat /\ n - 1 < n
        BY <1>4, <1>8
      <4>2. QED
        BY <1>4, <1>7, <4>1, MarkOrder
    <3> HIDE DEF low, at
    <3>4. low + at < 2 * amount
      BY <1>5, <3>2, <3>3
    <3>5. QED
      BY <1>5, <3>3, <3>4 DEF low
  <2>3. QED
    BY <2>1, <2>2
<1> DEFINE low == Mark(n - 1)
           high == Mark(n + 1)
<1> HIDE DEF at, n
<1>9. 2 * amount <= at + high /\ (2 * amount = at + high => 2 * amount = 2 * at + u)
  <2>1. CASE q < 2 * F
    BY <1>2, <1>5, <1>7, <2>1
  <2>2. CASE q = 2 * F
    BY <1>2, <1>5, <1>7, <2>2
  <2>3. QED
    BY <1>1, <2>1, <2>2
<1>10. n # 0 => low + at <= 2 * amount /\ (low + at = 2 * amount => 2 * at = 2 * amount + u)
  BY <1>8 DEF low
<1> HIDE DEF low, high
<1>11. 2 * amount = at + high \/ (n # 0 /\ 2 * amount = low + at) => n % 2 = 0
  BY <1>4, <1>5, <1>9, <1>10
<1>12. Rounds(amount, n)
  <2>1. at = Mark(n)
    BY <1>7
  <2>2. QED
    BY <1>9, <1>10, <1>11, <2>1 DEF Rounds, low, high
<1>13. QED
  BY <1>4, <1>6, <1>7, <1>12 DEF n, at, u

\* Which of the words of its sign a word is, and how many of them are finite.
Nth(word) == FRACTIONS * Exponent(word) + Fraction(word)
FINITES == FRACTIONS * (EXPONENTS - 1)

LEMMA FinitesAre ==
  /\ FINITES \in Nat /\ FINITES >= FRACTIONS + 1 /\ FINITES % 2 = 0
  /\ Level(FRACTIONS - 1) = FRACTIONS - 1 /\ Level(FRACTIONS) = FRACTIONS
  /\ Level(FINITES - 1) = LARGEST /\ Level(FINITES) = LARGEST + LARGEST_ULP
  /\ LARGEST_ULP \in Nat
  /\ Level(FINITES) = 2^(BIAS + 1 - LEAST)
<1> DEFINE F == FRACTIONS
           E == EXPONENTS
           q == 2 * F - 1
           j == E - 3
           t == 2^j
<1>1. /\ F \in Nat \ {0} /\ F >= 2 /\ F % 2 = 0 /\ E \in Nat /\ E >= 4 /\ E % 2 = 0
      /\ BIAS \in Nat /\ E = 2 * (BIAS + 1) /\ LEAST \in Int /\ LEAST = 2 - BIAS - PRECISION
      /\ PRECISION \in Nat \ {0, 1} /\ 2^PRECISION = 2 * F
  BY FieldSizes, FpuAssumption, PlaceParity
<1>2. j \in Nat /\ q \in Nat /\ Place(q, j) /\ q < 2 * F
  BY <1>1 DEF Place
<1>3. t \in Nat \ {0}
  BY <1>2, PowerPositive
<1>4. F * j + q = FINITES - 1 /\ FINITES \in Nat /\ FINITES >= F + 1
  <2> DEFINE b == F * j
  <2>1. F * (E - 1) = F * j + 2 * F
    <3>1. F * (j + 2) = F * j + 2 * F
      <4> HIDE DEF F, j
      <4>1. QED
        BY <1>1, <1>2
    <3>2. E - 1 = j + 2
      BY <1>1
    <3>3. QED
      BY <3>1, <3>2
  <2>2. b \in Nat /\ FINITES = b + 2 * F
    BY <1>1, <1>2, <2>1 DEF FINITES
  <2> HIDE DEF b, F
  <2>3. b + q = FINITES - 1 /\ FINITES \in Nat /\ FINITES >= F + 1
    BY <1>1, <2>2
  <2>4. QED
    BY <2>3 DEF b
<1>5. FINITES % 2 = 0
  <2>1. (F * (E - 1) + 0) % 2 = 0 % 2
    <3>1. 0 \in Nat /\ E - 1 \in Nat
      BY <1>1
    <3>2. QED
      BY <3>1, PlaceParity
  <2>2. F * (E - 1) + 0 = FINITES
    BY <1>4 DEF FINITES
  <2>3. 0 % 2 = 0
    OBVIOUS
  <2>4. QED
    BY <2>1, <2>2, <2>3
<1>6. Level(FINITES - 1) = q * t /\ Level(FINITES) = q * t + t /\ q * t \in Nat
  <2> DEFINE n == F * j + q
  <2>1. Level(n) = q * t /\ Level(n) \in Nat /\ Level(n + 1) = Level(n) + t
    BY <1>2, LevelStep
  <2>2. n = FINITES - 1
    BY <1>4
  <2> HIDE DEF n
  <2>3. n + 1 = FINITES
    BY <1>4, <2>2
  <2>4. QED
    BY <2>1, <2>2, <2>3
<1>7. LARGEST = q * t /\ LARGEST_ULP = t
  <2>1. BIAS - PRECISION + 1 - LEAST = j
    BY <1>1
  <2>2. LARGEST_ULP = t
    BY <2>1 DEF LARGEST_ULP
  <2>3. LARGEST = q * t
    BY LargestIs
  <2>4. QED
    BY <2>2, <2>3
<1>8. Level(FINITES) = 2^(BIAS + 1 - LEAST)
  <2> DEFINE p == 2^PRECISION
  <2>1. BIAS + 1 - LEAST = PRECISION + j
    BY <1>1
  <2>2. 2^(PRECISION + j) = p * t
    <3> HIDE DEF j
    <3>1. QED
      BY <1>1, <1>2, PowersMultiply
  <2> HIDE DEF t, p
  <2>3. q * t + t = (2 * F) * t
    <3> HIDE DEF F
    <3>1. QED
      BY <1>1, <1>3
  <2>4. QED
    BY <1>1, <1>6, <2>1, <2>2, <2>3 DEF p
<1>9. Level(F - 1) = F - 1 /\ Level(F) = F
  <2> DEFINE r == F - 1
  <2>1. Place(r, 0) /\ r < 2 * F /\ r \in Nat
    BY <1>1 DEF Place
  <2> DEFINE n == F * 0 + r
             one == 2^0
  <2>2. Level(n) = r * one /\ Level(n + 1) = Level(n) + one
    BY <2>1, LevelStep
  <2>3. n = r /\ one = 1
    BY <1>1
  <2> HIDE DEF n, one, r
  <2>4. Level(r) = r /\ Level(r + 1) = r + 1
    BY <2>1, <2>2, <2>3
  <2>5. r + 1 = F
    BY <1>1 DEF r
  <2>6. QED
    BY <2>4, <2>5 DEF r
<1>10. QED
  BY <1>3, <1>4, <1>5, <1>6, <1>7, <1>8, <1>9

LEMMA WordNth ==
  ASSUME NEW word \in Word
  PROVE  /\ Nth(word) \in Nat /\ word \in Nat /\ FRACTIONS * EXPONENTS \in Nat
         /\ Nth(word) < FRACTIONS * EXPONENTS
         /\ word = Nth(word) + (IF Negative(word) THEN FRACTIONS * EXPONENTS ELSE 0)
<1> DEFINE F == FRACTIONS
           E == EXPONENTS
           top == F * E
           x == Exponent(word)
           f == Fraction(word)
           y == word \div F
           s == y \div E
           n == F * x + f
<1>1. F \in Nat \ {0} /\ E \in Nat \ {0} /\ top \in Nat \ {0}
  BY FieldSizes
<1>2. word \in Nat /\ word < 2 * top /\ (Negative(word) <=> word >= top)
  <2> HIDE DEF top
  <2>1. Word = 0..(2 * top - 1) /\ (Negative(word) <=> word >= top)
    BY FieldSizes DEF Word, Negative, top
  <2>2. QED
    BY <1>1, <2>1
<1>3. x \in 0..(E - 1) /\ f \in 0..(F - 1)
  BY Fields
<1>4. n \in Nat /\ n < top
  <2>1. F * (x + 1) <= F * E /\ F * (x + 1) = F * x + F /\ F * x \in Nat
    BY <1>1, <1>3, ProductMonotone
  <2> DEFINE g == F * x
  <2>2. g \in Nat /\ g + F <= top
    BY <2>1
  <2> HIDE DEF g, top
  <2>3. g + f \in Nat /\ g + f < top
    BY <1>1, <1>3, <2>2
  <2>4. QED
    BY <2>3 DEF g
<1>5. word = top * s + n /\ s \in Int
  <2>1. x = y % E /\ f = word % F
    BY DEF Exponent, Fraction, FRACTIONS, EXPONENTS
  <2>2. y \in Int /\ word = F * y + f
    BY <1>1, <1>2, <2>1, Divided
  <2> HIDE DEF y
  <2>3. s \in Int /\ y = E * s + x
    BY <1>1, <2>1, <2>2, Divided
  <2> HIDE DEF s, x, F, E
  <2>4. F * (E * s + x) = (F * E) * s + F * x
    BY <1>1, <1>3, <2>3, SMT
  <2> DEFINE a == F * (E * s + x)
             b == (F * E) * s
             g == F * x
  <2>5. b \in Int /\ g \in Int /\ f \in Int
    BY <1>1, <1>3, <2>3
  <2>6. word = a + f
    BY <2>2, <2>3
  <2>7. a = b + g /\ top * s = b /\ n = g + f
    BY <2>4
  <2> HIDE DEF a, b, g, n, top
  <2>8. word = top * s + n
    BY <2>5, <2>6, <2>7
  <2>9. QED
    BY <2>3, <2>8
<1> HIDE DEF top, n, s
<1>6. s >= 2 => top * s >= 2 * top
  <2> SUFFICES ASSUME s >= 2 PROVE top * s >= 2 * top
    OBVIOUS
  <2>1. top * 2 <= top * s /\ top * 2 = 2 * top /\ top * s \in Int
    BY <1>1, <1>5, ProductMonotone
  <2>2. QED
    BY <2>1
<1>7. s <= -1 => top * s <= -top
  <2> SUFFICES ASSUME s <= -1 PROVE top * s <= -top
    OBVIOUS
  <2>1. top * s <= top * (-1) /\ top * (-1) = -top
    BY <1>1, <1>5, ProductMonotone
  <2>2. QED
    BY <2>1
<1>8. s \in {0, 1}
  <2> DEFINE p == top * s
  <2>1. p \in Int /\ word = p + n /\ (s >= 2 => p >= 2 * top) /\ (s <= -1 => p <= -top)
    BY <1>1, <1>5, <1>6, <1>7
  <2> HIDE DEF p
  <2>2. QED
    BY <1>1, <1>2, <1>4, <1>5, <2>1
<1>9. word = n + (IF Negative(word) THEN top ELSE 0)
  <2>1. CASE s = 0
    <3>1. word = n
      BY <1>1, <1>4, <1>5, <2>1
    <3>2. QED
      BY <1>1, <1>2, <1>4, <3>1
  <2>2. CASE s = 1
    <3>1. word = top + n
      BY <1>1, <1>4, <1>5, <2>2
    <3>2. QED
      BY <1>1, <1>2, <1>4, <3>1
  <2>3. QED
    BY <1>8, <2>1, <2>2
<1>10. Nth(word) = n
  BY DEF Nth, n
<1>11. QED
  BY <1>1, <1>2, <1>4, <1>9, <1>10 DEF top

\* A finite word is a step of an octave, and those of an octave are finite.
LEMMA FiniteNth ==
  ASSUME NEW word \in Word
  PROVE  /\ Finite(word) <=> Nth(word) < FINITES
         /\ Finite(word) => \E q \in Nat, j \in Nat :
              /\ Place(q, j) /\ Nth(word) = FRACTIONS * j + q
              /\ FromBits(word) = Number(Negative(word), q, LEAST + j)
<1> DEFINE F == FRACTIONS
           E == EXPONENTS
           x == Exponent(word)
           f == Fraction(word)
           neg == Negative(word)
<1>1. /\ F \in Nat \ {0} /\ E \in Nat /\ E >= 4 /\ LEAST \in Int /\ LEAST = 2 - BIAS - PRECISION
      /\ BIAS \in Int /\ PRECISION \in Int
  BY FieldSizes, FpuAssumption
<1>2. x \in 0..(E - 1) /\ f \in 0..(F - 1) /\ neg \in BOOLEAN
  BY Fields
<1>3. CASE x = E - 1
  <2>1. FromBits(word) = Infinite(neg) \/ FromBits(word) = NaN
    BY <1>3, WordIs
  <2>2. ~Finite(word)
    BY <2>1, InfiniteIs, NaNIs DEF Finite
  <2>3. Nth(word) = FINITES + f
    BY <1>3 DEF Nth, FINITES
  <2>4. FINITES \in Nat
    BY FinitesAre
  <2>5. ~(Nth(word) < FINITES)
    BY <1>1, <1>2, <2>3, <2>4
  <2>6. QED
    BY <2>2, <2>5
<1>4. CASE x # E - 1
  <2> DEFINE q == IF x = 0 THEN f ELSE f + F
             j == IF x = 0 THEN 0 ELSE x - 1
             n == F * j + q
  <2>1. q \in Nat /\ j \in Nat /\ q < 2 * F /\ Place(q, j)
    <3>1. CASE x = 0
      BY <1>1, <1>2, <3>1 DEF Place
    <3>2. CASE x # 0
      BY <1>1, <1>2, <3>2 DEF Place
    <3>3. QED
      BY <3>1, <3>2
  <2>2. Nth(word) = n
    <3>1. CASE x = 0
      BY <1>1, <1>2, <3>1 DEF Nth
    <3>2. CASE x # 0
      <4>1. F * (x - 1) + F = F * x /\ F * (x - 1) \in Int /\ F * x \in Int
        <5> HIDE DEF F, x
        <5>1. QED
          BY <1>1, <1>2
      <4>2. j = x - 1 /\ q = f + F /\ f \in Int /\ F \in Int
        BY <1>1, <1>2, <3>2
      <4> DEFINE a == F * x
                 b == F * (x - 1)
      <4> HIDE DEF q, j
      <4>3. n = b + (f + F) /\ Nth(word) = a + f /\ a \in Int /\ b \in Int /\ b + F = a
        BY <4>1, <4>2 DEF Nth
      <4> HIDE DEF a, b, n
      <4>4. QED
        BY <4>2, <4>3
    <3>3. QED
      BY <3>1, <3>2
  <2>3. FromBits(word) = Number(neg, q, LEAST + j)
    <3>1. CASE x = 0
      <4>1. LEAST + 0 = LEAST
        BY <1>1
      <4>2. QED
        BY <1>4, <3>1, <4>1, WordIs
    <3>2. CASE x # 0
      <4>1. x - BIAS - (PRECISION - 1) = LEAST + (x - 1)
        BY <1>1, <1>2
      <4>2. QED
        BY <1>4, <3>2, <4>1, WordIs
    <3>3. QED
      BY <3>1, <3>2
  <2>4. Finite(word)
    <3>1. LEAST + j \in Int
      BY <1>1, <2>1
    <3> HIDE DEF q, j
    <3>2. Reduced(Number(neg, q, LEAST + j))
      BY <1>2, <2>1, <3>1, NumberKept
    <3>3. Number(neg, q, LEAST + j).kind = "finite"
      BY <3>2, WholeIs DEF Reduced
    <3>4. QED
      BY <2>3, <3>3 DEF Finite
  <2>5. Nth(word) < FINITES
    <3> DEFINE g == F * x
    <3>1. F * (x + 1) <= F * (E - 1) /\ F * (x + 1) = F * x + F /\ g \in Nat
      BY <1>1, <1>2, <1>4, ProductMonotone
    <3> HIDE DEF F
    <3>2. g + F <= FINITES /\ Nth(word) = g + f /\ FINITES \in Nat
      BY <3>1, FinitesAre DEF FINITES, Nth, F
    <3> HIDE DEF g
    <3>3. QED
      BY <1>1, <1>2, <3>1, <3>2
  <2> HIDE DEF q, j
  <2>6. QED
    BY <2>1, <2>2, <2>3, <2>4, <2>5
<1>5. QED
  BY <1>3, <1>4

LEMMA PlaceNumber ==
  ASSUME NEW neg, NEW q \in Nat, NEW j \in Nat, Place(q, j)
  PROVE  LET n == FRACTIONS * j + q
             x == Number(neg, q, LEAST + j)
         IN  /\ n \in Nat
             /\ x.kind = "finite" /\ x.neg = neg /\ (x.m = 0 <=> n = 0)
             /\ x.m \in Nat /\ x.e \in Int /\ x.e >= LEAST
             /\ x = Whole(neg, x.m, x.e) /\ (Odd(x.m) \/ (x.m = 0 /\ x.e = 0))
             /\ x.m * 2^(x.e - LEAST) = Level(n)
             /\ x.m * 2^(x.e - NoLeast) = Mark(n)
             /\ Tiny(x) <=> n < FRACTIONS
             /\ TooBig(x) <=> ~(n < FINITES)
<1> DEFINE F == FRACTIONS
           n == F * j + q
           e == LEAST + j
           x == Number(neg, q, e)
           level == x.m * 2^(x.e - LEAST)
<1>1. /\ F \in Nat \ {0} /\ LEAST \in Int /\ LEAST < 0 /\ LEAST = 2 - BIAS - PRECISION /\ BIAS \in Nat
      /\ PRECISION \in Nat \ {0, 1}
      /\ NoLeast \in Int /\ NoLeast < 0 /\ NoLeast <= LEAST /\ GAP \in Nat /\ NoLeast = LEAST - GAP
  BY FieldSizes, GapIs, FpuAssumption
<1>2. n \in Nat /\ (n = 0 <=> q = 0)
  <2>1. j # 0 => q # 0
    BY <1>1 DEF Place
  <2>2. q = 0 => n = 0
    BY <1>1, <2>1
  <2>3. F * j \in Nat
    BY <1>1
  <2> DEFINE b == F * j
  <2> HIDE DEF b
  <2>4. n = b + q /\ b \in Nat
    BY <2>3 DEF b
  <2> HIDE DEF n
  <2>5. QED
    BY <2>2, <2>4
<1>3. e \in Int /\ LEAST <= e /\ e - LEAST = j /\ NoLeast <= e /\ e - NoLeast = j + GAP
  BY <1>1
<1>4. Level(n) = q * 2^j
  BY LevelOfPlace
<1> HIDE DEF e
<1>5. /\ x.kind = "finite" /\ x.neg = neg /\ x.m \in Nat /\ x.e \in Int /\ x.e >= LEAST
      /\ (x.m = 0 <=> q = 0) /\ x = Whole(neg, x.m, x.e) /\ (Odd(x.m) \/ (x.m = 0 /\ x.e = 0))
      /\ x.m * 2^(x.e - LEAST) = q * 2^(e - LEAST)
  <2>1. LEAST \in Int /\ LEAST <= 0 /\ LEAST <= e /\ e \in Int
    BY <1>1, <1>3
  <2> DEFINE z == Number(neg, q, e)
  <2>2. /\ z.kind = "finite" /\ z.neg = neg /\ z.m \in Nat /\ z.e \in Int
        /\ z.e >= LEAST /\ (z.m = 0 <=> q = 0)
        /\ Odd(z.m) \/ (z.m = 0 /\ z.e = 0)
        /\ z = Whole(neg, z.m, z.e)
        /\ z.m * 2^(z.e - LEAST) = q * 2^(e - LEAST)
    BY <2>1, NumberAmount
  <2>3. z = x
    OBVIOUS
  <2> HIDE DEF x, z
  <2>4. QED
    BY <2>2, <2>3
<1>6. x.m * 2^(x.e - NoLeast) = q * 2^(e - NoLeast)
  <2>1. NoLeast <= 0
    BY <1>1
  <2>2. QED
    BY <1>1, <1>3, <2>1, NumberAmount
<1> HIDE DEF x
<1>7. level = Level(n)
  BY <1>3, <1>4, <1>5
<1>8. x.m * 2^(x.e - NoLeast) = Mark(n)
  <2> DEFINE p == 2^j
             g == 2^GAP
  <2>1. 2^(j + GAP) = p * g /\ p \in Nat /\ g \in Nat
    BY <1>1, PowersMultiply, PowerPositive
  <2>2. x.m * 2^(x.e - NoLeast) = q * (p * g)
    BY <1>3, <1>6, <2>1
  <2> HIDE DEF p, g
  <2>3. q * (p * g) = (q * p) * g
    BY <2>1, SMT
  <2>4. Mark(n) = (q * p) * g
    BY <1>4 DEF Mark, p, g
  <2>5. QED
    BY <2>2, <2>3, <2>4
<1> HIDE DEF n
<1>9. Tiny(x) <=> n < F
  <2>1. LEAST_NORMAL \in Int /\ LEAST <= LEAST_NORMAL /\ LEAST_NORMAL - LEAST = PRECISION - 1
    BY <1>1 DEF LEAST_NORMAL
  <2>2. Below(x, LEAST_NORMAL) <=> x.m * 2^(x.e - LEAST) < 2^(LEAST_NORMAL - LEAST)
    BY <1>1, <1>5, <2>1, BelowAmount
  <2>3. 2^(LEAST_NORMAL - LEAST) = Level(F)
    BY <2>1, FinitesAre DEF FRACTIONS
  <2>4. Below(x, LEAST_NORMAL) <=> Level(n) < Level(F)
    BY <1>7, <2>2, <2>3
  <2>5. Level(n) < Level(F) <=> n < F
    <3>1. /\ n < F => Level(n) < Level(F)
          /\ F <= n => Level(F) <= Level(n)
          /\ Level(n) \in Nat /\ Level(F) \in Nat
      BY <1>1, <1>2, LevelOrder
    <3>2. QED
      BY <1>1, <1>2, <3>1
  <2>6. QED
    BY <1>5, <2>4, <2>5 DEF Tiny
<1>10. TooBig(x) <=> ~(n < FINITES)
  <2> DEFINE k == BIAS + 1
  <2>1. k \in Int /\ LEAST <= k /\ k - LEAST = BIAS + 1 - LEAST
    BY <1>1
  <2> HIDE DEF k
  <2>2. Below(x, k) <=> x.m * 2^(x.e - LEAST) < 2^(k - LEAST)
    BY <1>1, <1>5, <2>1, BelowAmount
  <2>3. 2^(k - LEAST) = Level(FINITES)
    BY <2>1, FinitesAre
  <2>4. Below(x, k) <=> Level(n) < Level(FINITES)
    BY <1>7, <2>2, <2>3
  <2>5. Level(n) < Level(FINITES) <=> n < FINITES
    <3>1. /\ n < FINITES => Level(n) < Level(FINITES)
          /\ FINITES <= n => Level(FINITES) <= Level(n)
          /\ Level(n) \in Nat /\ Level(FINITES) \in Nat /\ FINITES \in Nat
      BY <1>2, FinitesAre, LevelOrder
    <3>2. QED
      BY <1>2, <3>1
  <2>6. QED
    BY <1>5, <2>4, <2>5 DEF TooBig, k
<1>11. /\ n \in Nat /\ (x.m = 0 <=> n = 0)
       /\ x.m * 2^(x.e - LEAST) = Level(n)
  BY <1>2, <1>5, <1>7
<1>12. QED
  BY <1>5, <1>8, <1>9, <1>10, <1>11 DEF n, x, e

\* The value of a finite word, and which operands are reserved.
LEMMA WordValue ==
  ASSUME NEW word \in Word, Finite(word)
  PROVE  /\ Value(word) = Signing(Negative(word), Level(Nth(word)))
         /\ ReservedOperand(FromBits(word)) <=> Nth(word) # 0 /\ Nth(word) < FRACTIONS
         /\ IsZero(FromBits(word)) <=> Nth(word) = 0
<1>1. PICK q \in Nat, j \in Nat : /\ Place(q, j) /\ Nth(word) = FRACTIONS * j + q
                                  /\ FromBits(word) = Number(Negative(word), q, LEAST + j)
  BY FiniteNth
<1> DEFINE n == FRACTIONS * j + q
           x == Number(Negative(word), q, LEAST + j)
<1>2. /\ x.kind = "finite" /\ x.neg = Negative(word) /\ (x.m = 0 <=> n = 0)
      /\ x.m * 2^(x.e - LEAST) = Level(n)
      /\ Tiny(x) <=> n < FRACTIONS
  BY <1>1, PlaceNumber
<1>3. FromBits(word) = x /\ Nth(word) = n
  BY <1>1
<1> HIDE DEF x, n
<1>4. Value(word) = Signing(Negative(word), Level(Nth(word)))
  BY <1>2, <1>3 DEF Value
<1>5. IsZero(x) <=> n = 0
  BY <1>2 DEF IsZero
<1>6. ReservedOperand(x) <=> n # 0 /\ n < FRACTIONS
  <2>1. x.kind # "nan"
    BY <1>2
  <2>2. QED
    BY <1>2, <1>5, <2>1, Zenon DEF ReservedOperand
<1>7. QED
  BY <1>3, <1>4, <1>5, <1>6

\* The words of a rounded number.
LEMMA WordOfPlace ==
  ASSUME NEW neg, NEW q \in Nat, NEW j \in Nat, Place(q, j),
         NEW word \in Word, FromBits(word) = Number(neg, q, LEAST + j)
  PROVE  /\ Finite(word) /\ Negative(word) = neg /\ Nth(word) = FRACTIONS * j + q
<1> DEFINE n == FRACTIONS * j + q
           x == Number(neg, q, LEAST + j)
<1>1. n \in Nat /\ x.kind = "finite" /\ x.neg = neg /\ x.m * 2^(x.e - LEAST) = Level(n)
  BY PlaceNumber
<1>2. Finite(word)
  BY <1>1 DEF Finite
<1>3. PICK r \in Nat, i \in Nat : /\ Place(r, i) /\ Nth(word) = FRACTIONS * i + r
                                  /\ FromBits(word) = Number(Negative(word), r, LEAST + i)
  BY <1>2, FiniteNth
<1> DEFINE m == FRACTIONS * i + r
           y == Number(Negative(word), r, LEAST + i)
<1>4. m \in Nat /\ y.neg = Negative(word) /\ y.m * 2^(y.e - LEAST) = Level(m)
  BY <1>3, PlaceNumber
<1>5. x = y
  BY <1>3
<1>6. Nth(word) = m
  BY <1>3
<1> HIDE DEF x, y, n, m
<1>7. Level(m) = Level(n) /\ Negative(word) = neg
  BY <1>1, <1>4, <1>5
<1>8. m = n
  BY <1>1, <1>4, <1>7, LevelOrder
<1>9. QED
  BY <1>2, <1>6, <1>7, <1>8 DEF n

LEMMA NarrowRounds ==
  ASSUME NEW neg, NEW m \in Nat \ {0}, NEW e \in Int, e >= NoLeast
  PROVE  \E q \in Nat, j \in Nat :
           /\ Place(q, j) /\ Rounds(m * 2^(e - NoLeast), FRACTIONS * j + q)
           /\ Narrow(Whole(neg, m, e)) = IF FRACTIONS * j + q < FINITES
                                         THEN Number(neg, q, LEAST + j) ELSE Infinite(neg)
<1> DEFINE x == Whole(neg, m, e)
           a == m * 2^(e - NoLeast)
           near == Rounded(neg, m, 1, e, PRECISION, LEAST)
<1>1. PICK q \in Nat, j \in Nat : RoundsIn(a, q, j) /\ near = Number(neg, q, LEAST + j)
  BY NarrowsTo
<1> DEFINE n == FRACTIONS * j + q
           y == Number(neg, q, LEAST + j)
<1>2. a \in Nat
  BY GapIs, PowerBetween
<1> HIDE DEF a, near
<1>3. Place(q, j)
  BY <1>1 DEF RoundsIn
<1>4. Rounds(a, n)
  BY <1>1, <1>2, RoundsToLevel
<1>5. Narrow(x) = IF TooBig(near) THEN Infinite(neg) ELSE near
  <2>1. x.kind = "finite" /\ x.neg = neg /\ x.m = m /\ x.e = e
    BY WholeIs
  <2>2. Narrow(x) = IF x.kind # "finite" THEN x
                    ELSE IF TooBig(Rounded(x.neg, x.m, 1, x.e, PRECISION, LEAST)) THEN Infinite(x.neg)
                    ELSE Rounded(x.neg, x.m, 1, x.e, PRECISION, LEAST)
    BY Zenon DEF Narrow
  <2> HIDE DEF x
  <2>3. QED
    BY <2>1, <2>2 DEF near
<1>6. TooBig(y) <=> ~(n < FINITES)
  BY <1>3, PlaceNumber
<1> HIDE DEF n, y
<1>7. near = y
  BY <1>1 DEF y
<1>8. Narrow(x) = IF n < FINITES THEN y ELSE Infinite(neg)
  BY <1>5, <1>6, <1>7, Zenon
<1>9. QED
  BY <1>3, <1>4, <1>8 DEF a, n, y

\* Everything an instruction asks of a number rounded to the format.
LEMMA Narrowed ==
  ASSUME NEW neg \in BOOLEAN, NEW m \in Nat, Odd(m), NEW e \in Int, e >= NoLeast
  PROVE  LET x == Whole(neg, m, e)
             a == m * 2^(e - NoLeast)
         IN  \E n \in Nat :
               /\ Rounds(a, n)
               /\ IsInfinite(Narrow(x)) <=> ~(n < FINITES)
               /\ n < FINITES => /\ Tiny(Narrow(x)) <=> n < FRACTIONS
                                 /\ Equal(Narrow(x), x) <=> a = Mark(n)
                                 /\ \A word \in WordsOf[Narrow(x)] :
                                      word \in Word /\ Finite(word) /\ Nth(word) = n /\ Negative(word) = neg
<1> DEFINE x == Whole(neg, m, e)
           a == m * 2^(e - NoLeast)
<1>1. m \in Nat \ {0}
  BY DEF Odd
<1>2. PICK q \in Nat, j \in Nat :
        /\ Place(q, j) /\ Rounds(a, FRACTIONS * j + q)
        /\ Narrow(x) = IF FRACTIONS * j + q < FINITES THEN Number(neg, q, LEAST + j) ELSE Infinite(neg)
  BY <1>1, NarrowRounds
<1> DEFINE n == FRACTIONS * j + q
           y == Number(neg, q, LEAST + j)
<1>3. /\ n \in Nat /\ y.kind = "finite" /\ y.neg = neg /\ y.m \in Nat /\ y.e \in Int /\ y.e >= LEAST
      /\ y = Whole(neg, y.m, y.e) /\ (Odd(y.m) \/ (y.m = 0 /\ y.e = 0))
      /\ y.m * 2^(y.e - NoLeast) = Mark(n)
      /\ Tiny(y) <=> n < FRACTIONS
  BY <1>2, PlaceNumber
<1>4. NoLeast \in Int /\ NoLeast <= LEAST /\ LEAST \in Int
  BY GapIs, FieldSizes
<1>5. HasWord(Narrow(x))
  BY <1>1, NarrowNumber
<1>6. n < FINITES => Narrow(x) = y
  BY <1>2
<1>7. ~(n < FINITES) => Narrow(x) = Infinite(neg)
  BY <1>2
<1> HIDE DEF n, y
<1>8. IsInfinite(Narrow(x)) <=> ~(n < FINITES)
  BY <1>3, <1>6, <1>7, InfiniteIs DEF IsInfinite
<1>9. Equal(y, x) <=> a = Mark(n)
  <2>1. x.m = m /\ x.e = e /\ x.kind = "finite"
    BY WholeIs
  <2>2. ~IsZero(x) /\ y.kind # "nan"
    BY <1>1, <1>3, <2>1 DEF IsZero
  <2>3. Equal(y, x) <=> y = x
    BY <2>2, Zenon DEF Equal
  <2>4. y = x => a = Mark(n)
    <3> HIDE DEF x
    <3>1. QED
      BY <1>3, <2>1
  <2>5. a = Mark(n) => y = x
    <3> SUFFICES ASSUME a = Mark(n) PROVE y = x
      OBVIOUS
    <3>1. Amount(x) = Amount(y)
      <4> HIDE DEF x
      <4>1. QED
        BY <1>3, <2>1 DEF Amount
    <3>2. x.m \in Nat /\ x.e \in Int /\ x.e >= NoLeast /\ Odd(x.m)
      <4> HIDE DEF x
      <4>1. QED
        BY <2>1
    <3>3. /\ y.m \in Nat /\ y.e \in Int /\ y.e >= NoLeast
          /\ Odd(y.m) \/ (y.m = 0 /\ y.e = 0)
      BY <1>3, <1>4
    <3>4. x.m = y.m /\ x.e = y.e
      <4> HIDE DEF x
      <4>1. QED
        BY <3>1, <3>2, <3>3, AmountsApart
    <3>5. m = y.m /\ e = y.e
      <4> HIDE DEF x
      <4>1. QED
        BY <2>1, <3>4
    <3>6. QED
      BY <1>3, <3>5
  <2>6. QED
    BY <2>3, <2>4, <2>5
<1>10. ASSUME n < FINITES, NEW word \in WordsOf[Narrow(x)]
       PROVE  word \in Word /\ Finite(word) /\ Nth(word) = n /\ Negative(word) = neg
  <2>1. word \in Word /\ FromBits(word) = Narrow(x)
    BY <1>5, WordsAre
  <2>2. FromBits(word) = Number(neg, q, LEAST + j)
    BY <1>6, <1>10, <2>1 DEF y
  <2>3. QED
    BY <1>2, <2>1, <2>2, WordOfPlace DEF n
<1> HIDE DEF x, a
<1>11. Rounds(a, n)
  BY <1>2 DEF n
<1>12. n < FINITES => /\ Tiny(Narrow(x)) <=> n < FRACTIONS
                      /\ Equal(Narrow(x), x) <=> a = Mark(n)
                      /\ \A word \in WordsOf[Narrow(x)] :
                           word \in Word /\ Finite(word) /\ Nth(word) = n /\ Negative(word) = neg
  BY <1>3, <1>6, <1>9, <1>10, Zenon
<1>13. QED
  BY <1>3, <1>8, <1>11, <1>12, Zenon DEF x, a

-----------------------------------------------------------------------------
(* Rounding twice: the wider format tells where the exact result is.        *)

\* What the wider format holds is on the same side of the middle between two words
\* as the exact num/den, from the last denormal on.
Apart(amount, num, den) ==
  \A n \in Nat :
    LET middle == Mark(n) + Mark(n + 1)
        edge == Level(n) * den + Level(n + 1) * den
    IN  n + 1 >= FRACTIONS => /\ 2 * amount < middle <=> 2 * num < edge
                              /\ 2 * amount = middle <=> 2 * num = edge

LEMMA ApartAt ==
  ASSUME NEW amount, NEW num, NEW den, Apart(amount, num, den), NEW n \in Nat, n + 1 >= FRACTIONS
  PROVE  /\ 2 * amount < Mark(n) + Mark(n + 1) <=> 2 * num < Level(n) * den + Level(n + 1) * den
         /\ 2 * amount = Mark(n) + Mark(n + 1) <=> 2 * num = Level(n) * den + Level(n + 1) * den
  BY Zenon DEF Apart

\* The words up to an even one get what is short of the middle before it.
LEMMA Threshold ==
  ASSUME NEW num \in Nat, NEW den \in Nat \ {0}, NEW amount \in Nat, NEW n \in Nat,
         Rounds(amount, n), Apart(amount, num, den), NEW c \in Nat, c >= FRACTIONS, c % 2 = 0
  PROVE  n < c <=> 2 * num < Level(c - 1) * den + Level(c) * den
<1> DEFINE b == c - 1
           middle == Mark(b) + Mark(c)
<1>1. b \in Nat /\ b + 1 = c /\ b % 2 # 0
  <2>1. FRACTIONS >= 2
    BY PlaceParity
  <2>2. FRACTIONS \in Nat
    BY FieldSizes
  <2>3. QED
    BY <2>1, <2>2
<1> HIDE DEF b
<1>2. 2 * amount < middle <=> 2 * num < Level(b) * den + Level(c) * den
  BY <1>1, ApartAt
<1>3. Mark(b) \in Nat /\ Mark(c) \in Nat /\ Mark(n) \in Nat /\ Mark(n + 1) \in Nat
  BY <1>1, MarkOrder
<1>4. CASE n < c
  <2>1. 2 * amount <= Mark(n) + Mark(n + 1)
    BY DEF Rounds
  <2>2. CASE n = b
    <3>1. 2 * amount # Mark(n) + Mark(n + 1)
      BY <1>1, <2>2 DEF Rounds
    <3>2. n + 1 = c
      BY <1>1, <2>2
    <3>3. 2 * amount < middle
      BY <1>3, <2>1, <2>2, <3>1, <3>2
    <3>4. QED
      BY <1>2, <1>4, <3>3 DEF b
  <2>3. CASE n # b
    <3>1. n < b /\ n + 1 <= c
      BY <1>1, <1>4, <2>3
    <3>2. Mark(n) < Mark(b) /\ Mark(n + 1) <= Mark(c)
      <4> DEFINE k == n + 1
      <4>1. k \in Nat /\ k <= c
        BY <3>1
      <4> HIDE DEF k
      <4>2. Mark(k) <= Mark(c)
        BY <4>1, MarkOrder
      <4>3. Mark(n) < Mark(b)
        BY <1>1, <3>1, MarkOrder
      <4>4. QED
        BY <4>2, <4>3 DEF k
    <3>3. 2 * amount < middle
      BY <1>3, <2>1, <3>2
    <3>4. QED
      BY <1>2, <1>4, <3>3 DEF b
  <2>4. QED
    BY <2>2, <2>3
<1>5. CASE ~(n < c)
  <2> DEFINE k == n - 1
  <2>1. k \in Nat /\ k + 1 = n /\ b <= k /\ c <= n /\ n # 0
    BY <1>1, <1>5
  <2>2. Mark(k) + Mark(n) <= 2 * amount
    BY <2>1 DEF Rounds
  <2> HIDE DEF k
  <2>3. Mark(b) <= Mark(k) /\ Mark(c) <= Mark(n) /\ Mark(k) \in Nat
    BY <1>1, <2>1, MarkOrder
  <2>4. ~(2 * amount < middle)
    BY <1>3, <2>2, <2>3
  <2>5. QED
    BY <1>2, <1>5, <2>4 DEF b
<1>6. QED
  BY <1>4, <1>5

LEMMA Overflows ==
  ASSUME NEW num \in Nat, NEW den \in Nat \ {0}, NEW amount \in Nat, NEW n \in Nat,
         Rounds(amount, n), Apart(amount, num, den)
  PROVE  n < FINITES <=> ~(2 * num >= (2 * LARGEST + LARGEST_ULP) * den)
<1> DEFINE a == Level(FINITES - 1)
           b == Level(FINITES)
<1>1. FINITES \in Nat /\ FINITES >= FRACTIONS /\ FINITES % 2 = 0 /\ FRACTIONS \in Nat
  BY FinitesAre, FieldSizes
<1>2. n < FINITES <=> 2 * num < a * den + b * den
  BY <1>1, Threshold
<1>3. a = LARGEST /\ b = LARGEST + LARGEST_ULP /\ LARGEST \in Nat /\ LARGEST_ULP \in Nat
  BY FinitesAre, LargestIs
<1> HIDE DEF a, b
<1>4. a * den + b * den = (2 * LARGEST + LARGEST_ULP) * den
  BY <1>3
<1> DEFINE edge == (2 * LARGEST + LARGEST_ULP) * den
<1>5. edge \in Nat
  BY <1>3
<1> HIDE DEF edge
<1>6. n < FINITES <=> 2 * num < edge
  BY <1>2, <1>4 DEF edge
<1>7. n < FINITES <=> ~(2 * num >= edge)
  BY <1>5, <1>6
<1>8. QED
  BY <1>7 DEF edge

LEMMA Flushes ==
  ASSUME NEW num \in Nat, NEW den \in Nat \ {0}, NEW amount \in Nat, NEW n \in Nat,
         Rounds(amount, n), Apart(amount, num, den)
  PROVE  n < FRACTIONS <=> 2 * num < (2 * SMALLEST - 1) * den
<1> DEFINE F == FRACTIONS
           a == Level(F - 1)
           b == Level(F)
<1>1. F \in Nat /\ F % 2 = 0 /\ F >= 2
  BY FieldSizes, PlaceParity
<1>2. n < F <=> 2 * num < a * den + b * den
  <2>1. F >= FRACTIONS
    BY <1>1
  <2> HIDE DEF F
  <2>2. QED
    BY <1>1, <2>1, Threshold
<1>3. a = F - 1 /\ b = F /\ SMALLEST = F
  BY FinitesAre DEF SMALLEST, FRACTIONS
<1> HIDE DEF a, b, F
<1>4. a * den + b * den = (2 * F - 1) * den
  BY <1>1, <1>3
<1>5. QED
  BY <1>2, <1>3, <1>4 DEF F

\* The neighbours of a word are no nearer, and as near only if the word is even.
LEMMA NoNearer ==
  ASSUME NEW num \in Nat, NEW den \in Nat \ {0}, NEW amount \in Nat, NEW n \in Nat,
         Rounds(amount, n), Apart(amount, num, den), n >= FRACTIONS
  PROVE  /\ 2 * num <= Level(n) * den + Level(n + 1) * den
         /\ Level(n - 1) * den + Level(n) * den <= 2 * num
         /\ \/ 2 * num = Level(n) * den + Level(n + 1) * den
            \/ 2 * num = Level(n - 1) * den + Level(n) * den
            => n % 2 = 0
<1> DEFINE k == n - 1
           above == Level(n) * den + Level(n + 1) * den
           below == Level(k) * den + Level(n) * den
<1>1. FRACTIONS \in Nat /\ FRACTIONS >= 2
  BY FieldSizes, PlaceParity
<1>2. k \in Nat /\ k + 1 = n /\ n # 0 /\ k + 1 >= FRACTIONS /\ n + 1 >= FRACTIONS
  BY <1>1
<1>3. /\ 2 * amount <= Mark(n) + Mark(n + 1)
      /\ Mark(k) + Mark(n) <= 2 * amount
      /\ \/ 2 * amount = Mark(n) + Mark(n + 1)
         \/ 2 * amount = Mark(k) + Mark(n)
         => n % 2 = 0
  BY <1>2 DEF Rounds
<1> HIDE DEF k
<1>4. /\ 2 * amount < Mark(n) + Mark(n + 1) <=> 2 * num < above
      /\ 2 * amount = Mark(n) + Mark(n + 1) <=> 2 * num = above
  BY <1>2, ApartAt
<1>5. /\ 2 * amount < Mark(k) + Mark(n) <=> 2 * num < below
      /\ 2 * amount = Mark(k) + Mark(n) <=> 2 * num = below
  BY <1>2, ApartAt
<1>6. /\ Mark(n) \in Nat /\ Mark(n + 1) \in Nat /\ Mark(k) \in Nat
      /\ Level(n) \in Nat /\ Level(n + 1) \in Nat /\ Level(k) \in Nat
  <2>1. \A i \in Nat : Mark(i) \in Nat /\ Level(i) \in Nat
    BY MarkOrder, LevelOrder
  <2>2. QED
    BY <1>2, <2>1
<1>7. above \in Nat /\ below \in Nat
  BY <1>6
<1> DEFINE up == Mark(n) + Mark(n + 1)
           low == Mark(k) + Mark(n)
<1>8. up \in Nat /\ low \in Nat
  BY <1>6
<1> HIDE DEF above, below, up, low
<1>9. 2 * num <= above /\ below <= 2 * num /\ (2 * num = above \/ 2 * num = below => n % 2 = 0)
  <2>1. /\ 2 * amount <= up /\ low <= 2 * amount /\ (2 * amount = up \/ 2 * amount = low => n % 2 = 0)
        /\ (2 * amount < up <=> 2 * num < above) /\ (2 * amount = up <=> 2 * num = above)
        /\ (2 * amount < low <=> 2 * num < below) /\ (2 * amount = low <=> 2 * num = below)
    BY <1>3, <1>4, <1>5 DEF up, low
  <2>2. QED
    BY <1>7, <1>8, <2>1
<1>10. QED
  BY <1>9 DEF above, below, k

LEMMA SignlessDistance ==
  ASSUME NEW neg \in BOOLEAN, NEW x \in Nat, NEW l \in Nat, NEW d \in Nat
  PROVE  Magnitude(Signing(neg, x) - Signing(neg, l) * d) = Magnitude(x - l * d)
<1> DEFINE p == l * d
<1>1. p \in Nat /\ (-l) * d = -p
  <2>1. (-l) * d = -(l * d) /\ l * d \in Nat
    BY SMT
  <2>2. QED
    BY <2>1
<1>2. CASE neg
  <2>1. Signing(neg, x) - Signing(neg, l) * d = (-x) - ((-l) * d)
    BY <1>2 DEF Signing
  <2> HIDE DEF p
  <2>2. Magnitude((-x) - (-p)) = Magnitude(x - p)
    BY <1>1 DEF Magnitude
  <2>3. QED
    BY <1>1, <2>1, <2>2 DEF p
<1>3. CASE ~neg
  BY <1>3 DEF Signing
<1>4. QED
  BY <1>2, <1>3

LEMMA NearestWord ==
  ASSUME NEW num \in Nat, NEW den \in Nat \ {0}, NEW amount \in Nat, NEW n \in Nat,
         Rounds(amount, n), Apart(amount, num, den), n >= FRACTIONS,
         NEW neg \in BOOLEAN, NEW word \in Word, Finite(word), Nth(word) = n, Negative(word) = neg
  PROVE  Nearest([num |-> Signing(neg, num), den |-> den], word)
<1> DEFINE exact == [num |-> Signing(neg, num), den |-> den]
           top == FRACTIONS * EXPONENTS
           s == IF neg THEN top ELSE 0
           at(k) == Level(k) * den
<1>1. word = n + s /\ top \in Nat
  BY WordNth
<1>2. s \in Nat /\ (word % 2 = n % 2)
  <2>1. EXPONENTS \in Nat
    BY FieldSizes
  <2>2. (top + n) % 2 = n % 2
    BY <2>1, PlaceParity
  <2> HIDE DEF top
  <2>3. CASE neg
    <3>1. word = top + n
      BY <1>1, <2>3
    <3>2. QED
      BY <1>1, <2>2, <2>3, <3>1
  <2>4. CASE ~neg
    <3>1. word = n
      BY <1>1, <2>4
    <3>2. QED
      BY <2>4, <3>1
  <2>5. QED
    BY <2>3, <2>4
<1> HIDE DEF s
<1>3. /\ 2 * num <= at(n) + at(n + 1)
      /\ at(n - 1) + at(n) <= 2 * num
      /\ 2 * num = at(n) + at(n + 1) \/ 2 * num = at(n - 1) + at(n) => n % 2 = 0
  BY NoNearer
<1>4. ASSUME NEW w \in Word, Finite(w), Negative(w) = neg
      PROVE  Distance(exact, w) = Magnitude(num - at(Nth(w))) /\ w = Nth(w) + s /\ Nth(w) \in Nat
  <2>1. Value(w) = Signing(neg, Level(Nth(w)))
    BY <1>4, WordValue
  <2>2. Nth(w) \in Nat /\ w = Nth(w) + s
    BY <1>4, WordNth DEF s
  <2>3. Level(Nth(w)) \in Nat
    BY <2>2, LevelOrder
  <2>4. Distance(exact, w) = Magnitude(Signing(neg, num) - Signing(neg, Level(Nth(w))) * den)
    BY <2>1 DEF Distance
  <2>5. QED
    BY <2>2, <2>3, <2>4, SignlessDistance
<1>5. Distance(exact, word) = Magnitude(num - at(n))
  BY <1>4
<1>6. ASSUME NEW w \in Neighbours(word)
      PROVE  \/ Distance(exact, word) < Distance(exact, w)
             \/ Distance(exact, word) = Distance(exact, w) /\ word % 2 = 0
  <2>1. w \in {word - 1, word + 1} /\ w \in Word /\ Negative(w) = neg /\ Finite(w)
    BY DEF Neighbours
  <2> DEFINE k == Nth(w)
  <2>2. Distance(exact, w) = Magnitude(num - at(k)) /\ w = k + s /\ k \in Nat
    BY <1>4, <2>1
  <2> HIDE DEF k
  <2>3. k = n + 1 \/ k = n - 1
    BY <1>1, <1>2, <2>1, <2>2
  <2> DEFINE x == at(n)
             y == at(k)
  <2>4. x \in Nat /\ y \in Nat /\ (n < k => x < y) /\ (k < n => y < x)
    <3> DEFINE a == Level(n)
               b == Level(k)
    <3>1. a \in Nat /\ b \in Nat /\ (n < k => a < b) /\ (k < n => b < a)
      BY <2>2, LevelOrder
    <3> HIDE DEF a, b
    <3>2. (a < b <=> a * den < b * den) /\ (b < a <=> b * den < a * den) /\ a * den \in Nat /\ b * den \in Nat
      <4>1. (a < b <=> a * den < b * den) /\ (b < a <=> b * den < a * den)
        BY <3>1, SignOfProduct
      <4>2. a * den \in Nat /\ b * den \in Nat
        BY <3>1
      <4>3. QED
        BY <4>1, <4>2
    <3>3. QED
      BY <3>1, <3>2 DEF a, b
  <2>5. CASE k = n + 1
    <3>1. 2 * num <= x + y /\ (2 * num = x + y => n % 2 = 0)
      BY <1>3, <2>5
    <3>2. n < k
      BY <2>5
    <3> HIDE DEF x, y
    <3>3. \/ Magnitude(num - x) < Magnitude(num - y)
          \/ Magnitude(num - x) = Magnitude(num - y) /\ 2 * num = x + y
      BY <2>4, <3>1, <3>2 DEF Magnitude
    <3>4. QED
      BY <1>2, <1>5, <2>2, <3>1, <3>3 DEF x, y
  <2>6. CASE k = n - 1
    <3>1. x + y <= 2 * num /\ (2 * num = x + y => n % 2 = 0)
      <4>1. y + x <= 2 * num /\ (2 * num = y + x => n % 2 = 0)
        BY <1>3, <2>6
      <4> HIDE DEF x, y
      <4>2. x + y = y + x
        BY <2>4
      <4>3. QED
        BY <4>1, <4>2
    <3>2. k < n
      BY <2>6
    <3> HIDE DEF x, y
    <3>3. \/ Magnitude(num - x) < Magnitude(num - y)
          \/ Magnitude(num - x) = Magnitude(num - y) /\ 2 * num = x + y
      BY <2>4, <3>1, <3>2 DEF Magnitude
    <3>4. QED
      BY <1>2, <1>5, <2>2, <3>1, <3>3 DEF x, y
  <2>7. QED
    BY <2>3, <2>5, <2>6
<1>7. QED
  BY <1>6 DEF Nearest

-----------------------------------------------------------------------------
(* What the wider format holds exactly.                                     *)

LEMMA NumberOfAmount ==
  ASSUME NEW neg, NEW q \in Nat \ {0}, NEW f \in Int, f >= NoLeast
  PROVE  \E m \in Nat, e \in Int :
           /\ Number(neg, q, f) = Whole(neg, m, e) /\ Odd(m) /\ e >= NoLeast
           /\ m * 2^(e - NoLeast) = q * 2^(f - NoLeast)
<1>1. NoLeast \in Int /\ NoLeast <= 0
  BY GapIs
<1> DEFINE x == Number(neg, q, f)
<1>2. /\ x.m \in Nat /\ x.e \in Int /\ x.e >= NoLeast /\ (x.m = 0 <=> q = 0)
      /\ Odd(x.m) \/ (x.m = 0 /\ x.e = 0)
      /\ x = Whole(neg, x.m, x.e)
      /\ x.m * 2^(x.e - NoLeast) = q * 2^(f - NoLeast)
  BY <1>1, NumberAmount
<1> HIDE DEF x
<1>3. Odd(x.m)
  BY <1>2
<1>4. QED
  BY <1>2, <1>3 DEF x

LEMMA HalfEvenMultiple ==
  ASSUME NEW d \in Nat \ {0}, NEW b \in Nat
  PROVE  HalfEven(d * b, d) = b
<1>1. 0 \in 0..(d - 1)
  OBVIOUS
<1>2. (d * b + 0) \div d = b /\ (d * b + 0) % d = 0
  BY <1>1, DivisionOf
<1>3. d * b + 0 = d * b
  OBVIOUS
<1> DEFINE n == d * b
<1>4. n \div d = b /\ n % d = 0
  BY <1>2, <1>3
<1> HIDE DEF n
<1>5. HalfEven(n, d) = LET q == n \div d  twice == 2 * (n % d)
                       IN  IF twice > d \/ (twice = d /\ q % 2 = 1) THEN q + 1 ELSE q
  BY Zenon DEF HalfEven
<1>6. QED
  BY <1>4, <1>5 DEF n

LEMMA MultipleIs ==
  ASSUME NEW a \in Nat, NEW v \in Nat \ {0}, a % v = 0
  PROVE  a \div v \in Nat /\ a = v * (a \div v)
<1> DEFINE q == a \div v
           p == v * q
<1>1. q \in Int /\ a = p + (a % v)
  BY Divided
<1>2. q \in Nat
  BY SMT
<1>3. p \in Nat
  BY <1>2
<1> HIDE DEF p
<1>4. a = p
  BY <1>1, <1>3
<1>5. QED
  BY <1>2, <1>4 DEF p

\* Amounts that the wider format holds are not rounded.
AmountOf(num, exp) == num * 2^(exp - NoLeast)
Held(amount, k) == amount % 2^k = 0 /\ amount < 2^(WIDE + k)
Exactly(x, neg, amount) == \E m \in Nat, e \in Int : /\ x = Whole(neg, m, e) /\ Odd(m) /\ e >= NoLeast
                                                     /\ m * 2^(e - NoLeast) = amount

LEMMA WideExact ==
  ASSUME NEW neg, NEW num \in Nat \ {0}, NEW exp \in Int, exp >= NoLeast, NEW k \in Nat,
         Held(AmountOf(num, exp), k)
  PROVE  Exactly(Wide(neg, num, 1, exp), neg, AmountOf(num, exp))
<1> DEFINE amount == AmountOf(num, exp)
<1>1. WIDE \in Nat \ {0} /\ NoLeast \in Int
  BY FpuAssumption, GapIs
<1>2. PICK q, d : RoundsTo(neg, num, exp, WIDE, NoLeast, q, d) /\ RoundsBy(num, exp, WIDE, NoLeast, q, d)
  BY <1>1, RoundedBy
<1> DEFINE f == exp - d
           s == exp - NoLeast
           t == 2^s
           L == Bits(num)
<1>3. /\ Wide(neg, num, 1, exp) = Number(neg, q, f) /\ q \in Nat \ {0} /\ d \in Int /\ f \in Int /\ f >= NoLeast
      /\ d >= 0 => q = num * 2^d
      /\ exp - f = d /\ f - NoLeast = s - d /\ s \in Nat
  <2>1. /\ Wide(neg, num, 1, exp) = Number(neg, q, f) /\ q \in Nat /\ q >= 1 /\ d \in Int /\ f >= NoLeast
        /\ d >= 0 => q = num * 2^d
    BY <1>1, <1>2, Zenon DEF RoundsTo, Wide
  <2>2. d \in Int /\ f >= NoLeast /\ q \in Nat /\ q >= 1
    BY <2>1
  <2>3. f \in Int /\ exp - f = d /\ f - NoLeast = s - d /\ s \in Nat /\ q \in Nat \ {0}
    BY <1>1, <2>2
  <2> HIDE DEF f, s
  <2>4. QED
    BY <2>1, <2>2, <2>3
<1>4. /\ d < 0 => q = HalfEven(num, 2^(-d))
      /\ d = WIDE - L \/ f = NoLeast
  BY <1>2 DEF RoundsBy
<1>5. t \in Nat \ {0}
  BY <1>3, PowerPositive
<1>6. amount = num * t /\ amount \in Nat
  <2>1. amount = num * t
    BY DEF AmountOf
  <2> HIDE DEF t
  <2>2. QED
    BY <1>5, <2>1
<1> HIDE DEF f
<1>7. q * 2^(f - NoLeast) = amount
  <2>1. CASE d >= 0
    <3> DEFINE p == 2^d
               u == 2^(f - NoLeast)
    <3>1. t = p * u /\ p \in Nat \ {0} /\ u \in Nat \ {0}
      <4>1. f <= exp /\ exp - f = d /\ NoLeast <= f
        <5> HIDE DEF s, t
        <5>1. QED
          BY <1>3, <2>1
      <4>2. 2^(exp - NoLeast) = 2^(exp - f) * 2^(f - NoLeast) /\ 2^(exp - f) \in Nat \ {0} /\ 2^(f - NoLeast) \in Nat \ {0}
        BY <1>1, <1>3, <4>1, PowerSplit
      <4>3. QED
        BY <4>1, <4>2
    <3>2. q = num * p
      BY <1>3, <2>1
    <3> HIDE DEF p, u, t
    <3>3. num * (p * u) = (num * p) * u
      BY <3>1, SMT
    <3>4. QED
      BY <1>6, <3>1, <3>2, <3>3 DEF u
  <2>2. CASE ~(d >= 0)
    <3> DEFINE c == -d
               p == 2^c
               i == s + c
               low == 2^(L - 1 + s)
    <3>1. c \in Nat \ {0} /\ q = HalfEven(num, p) /\ f - NoLeast = i /\ i \in Nat
      <4>1. f - NoLeast = s - d /\ d < 0 /\ s \in Nat /\ c = -d
        BY <1>3, <2>2
      <4> HIDE DEF s
      <4>2. c \in Nat \ {0} /\ f - NoLeast = i /\ i \in Nat
        BY <1>3, <4>1
      <4>3. QED
        BY <1>4, <4>1, <4>2
    <3>2. d = WIDE - L
      <4>1. f # NoLeast
        <5> HIDE DEF s, c
        <5>1. f - NoLeast > 0
          BY <1>3, <3>1
        <5>2. QED
          BY <1>1, <5>1
      <4>2. QED
        BY <1>4, <4>1
    <3>3. L \in Nat \ {0} /\ num >= 2^(L - 1)
      BY BitsAre
    <3> HIDE DEF L
    <3>4. c = L - WIDE
      BY <1>1, <1>3, <3>2, <3>3
    <3> HIDE DEF c, s
    <3>5. p \in Nat \ {0}
      BY <3>1, PowerPositive
    <3>6. i <= k
      <4> DEFINE h == L - 1
                 r == 2^h
                 n == h + s
                 z == WIDE + k
      <4>1. h \in Nat /\ r \in Nat \ {0} /\ num >= r
        <5>1. h \in Nat /\ num >= r
          BY <3>3
        <5> HIDE DEF h
        <5>2. QED
          BY <5>1, PowerPositive
      <4> HIDE DEF h
      <4>2. 2^n = r * t
        BY <1>3, <4>1, PowersMultiply
      <4>3. r * t <= amount /\ r * t \in Nat
        <5> HIDE DEF r, t
        <5>1. t * r <= t * num /\ t * r = r * t /\ t * num = num * t /\ r * t \in Nat
          BY <1>5, <4>1, ProductMonotone
        <5>2. QED
          BY <1>6, <5>1
      <4>4. n \in Nat /\ z \in Nat
        BY <1>1, <1>3, <4>1
      <4>5. n < z
        <5> HIDE DEF n, z, t
        <5>1. 2^n < 2^z
          <6> DEFINE v == 2^z
          <6>1. v \in Nat /\ amount < v
            BY <4>4, PowerPositive DEF z, Held
          <6> DEFINE y == r * t
          <6>2. y \in Nat /\ y <= amount
            BY <4>3
          <6> HIDE DEF y, v
          <6>3. y < v
            BY <1>6, <6>1, <6>2
          <6>4. QED
            BY <4>2, <6>3 DEF y, v
        <5>2. z <= n => 2^z <= 2^n
          BY <4>4, PowerOrder
        <5>3. 2^z \in Nat /\ 2^n \in Nat
          BY <4>4, PowerPositive
        <5>4. QED
          BY <4>4, <5>1, <5>2, <5>3
      <4>6. QED
        BY <1>1, <1>3, <3>1, <3>3, <3>4, <4>4, <4>5 DEF n, h, z
    <3> DEFINE y == k - i
               b == amount \div 2^k
               a == 2^y * b
    <3>7. y \in Nat /\ k = i + y
      BY <3>1, <3>6
    <3>8. b \in Nat /\ amount = 2^k * b
      <4> DEFINE v == 2^k
      <4>1. v \in Nat \ {0} /\ amount % v = 0
        BY PowerPositive DEF Held
      <4> HIDE DEF v
      <4>2. amount \div v \in Nat /\ amount = v * (amount \div v)
        BY <1>6, <4>1, MultipleIs
      <4>3. QED
        BY <4>2 DEF v
    <3> HIDE DEF b
    <3>9. 2^k = (t * p) * 2^y /\ 2^y \in Nat \ {0}
      <4>1. s \in Nat /\ c \in Nat /\ i \in Nat
        BY <1>3, <3>1
      <4>2. 2^(s + c) = t * p
        BY <4>1, PowersMultiply DEF t, s
      <4> HIDE DEF y, i
      <4>3. 2^(i + y) = 2^i * 2^y /\ 2^y \in Nat \ {0}
        BY <3>1, <3>7, PowersMultiply, PowerPositive
      <4>4. QED
        BY <3>7, <4>2, <4>3 DEF i
    <3> DEFINE g == 2^y
    <3>10. a = g * b /\ a \in Nat /\ g \in Nat
      BY <3>8, <3>9
    <3> HIDE DEF y, p, t, g, a
    <3>11. amount = t * (p * a)
      <4>1. amount = ((t * p) * g) * b
        BY <3>8, <3>9 DEF g
      <4>2. ((t * p) * g) * b = t * (p * (g * b))
        BY <1>5, <3>5, <3>8, <3>10, SMT
      <4>3. QED
        BY <3>10, <4>1, <4>2
    <3>12. num = p * a
      <4> DEFINE x == p * a
      <4>1. x \in Nat
        BY <3>5, <3>10
      <4>2. num * t = t * x
        BY <1>6, <3>11
      <4> HIDE DEF x
      <4>3. t * x = x * t
        BY <1>5, <4>1
      <4>4. num * t = x * t
        BY <4>2, <4>3
      <4>5. num = x
        BY <1>5, <4>1, <4>4, SignOfProduct
      <4>6. QED
        BY <4>5 DEF x
    <3>13. q = a
      BY <3>1, <3>5, <3>10, <3>12, HalfEvenMultiple
    <3>14. 2^i = t * p
      <4>1. s \in Nat /\ c \in Nat
        BY <1>3, <3>1
      <4>2. QED
        BY <4>1, PowersMultiply DEF t, s, p
    <3>15. a * (t * p) = t * (p * a)
      BY <1>5, <3>5, <3>10, SMT
    <3>16. QED
      BY <3>1, <3>11, <3>13, <3>14, <3>15
  <2>3. QED
    BY <1>3, <2>1, <2>2
<1>8. \E m \in Nat, e \in Int :
        /\ Number(neg, q, f) = Whole(neg, m, e) /\ Odd(m) /\ e >= NoLeast
        /\ m * 2^(e - NoLeast) = q * 2^(f - NoLeast)
  BY <1>3, NumberOfAmount
<1> HIDE DEF f, amount
<1>9. \E m \in Nat, e \in Int :
        /\ Wide(neg, num, 1, exp) = Whole(neg, m, e) /\ Odd(m) /\ e >= NoLeast
        /\ m * 2^(e - NoLeast) = amount
  BY <1>3, <1>7, <1>8
<1>10. QED
  BY <1>9, Zenon DEF Exactly, amount

LEMMA SameRatio ==
  ASSUME NEW x \in Int, NEW y \in Int, NEW a \in Int, NEW b \in Int, NEW t \in Nat \ {0}, NEW u \in Nat \ {0},
         x * t = a * u, y * t = b * u
  PROVE  (x < y <=> a < b) /\ (x = y <=> a = b)
<1> DEFINE p == x * t
           q == y * t
           r == a * u
           s == b * u
<1>1. (x < y <=> p < q) /\ (x = y <=> p = q)
  BY SignOfProduct
<1>2. (a < b <=> r < s) /\ (a = b <=> r = s)
  BY SignOfProduct
<1>3. p = r /\ q = s
  OBVIOUS
<1> HIDE DEF p, q, r, s
<1>4. QED
  BY <1>1, <1>2, <1>3

\* An exact amount tells everything.
LEMMA ExactTells ==
  ASSUME NEW amount \in Nat, NEW num \in Nat, NEW den \in Nat \ {0}, amount * den = num * 2^GAP
  PROVE  /\ Apart(amount, num, den)
         /\ \A n \in Nat : amount = Mark(n) <=> num = Level(n) * den
<1> DEFINE g == 2^GAP
<1>1. g \in Nat \ {0}
  BY GapIs, PowerPositive
<1>2. amount * den = num * g
  OBVIOUS
<1>3. ASSUME NEW n \in Nat
      PROVE  /\ Level(n) \in Nat /\ Mark(n) \in Nat
             /\ Mark(n) * den = (Level(n) * den) * g
  <2> DEFINE l == Level(n)
  <2>1. l \in Nat /\ Mark(n) \in Nat
    BY LevelOrder, MarkOrder
  <2>2. Mark(n) = l * g
    BY DEF Mark
  <2> HIDE DEF g, l
  <2>3. (l * g) * den = (l * den) * g
    BY <1>1, <2>1, SMT
  <2>4. QED
    BY <2>1, <2>2, <2>3 DEF l
<1> HIDE DEF g
<1>4. ASSUME NEW n \in Nat
      PROVE  LET middle == Mark(n) + Mark(n + 1)
                 edge == Level(n) * den + Level(n + 1) * den
             IN  /\ 2 * amount < middle <=> 2 * num < edge
                 /\ 2 * amount = middle <=> 2 * num = edge
  <2> DEFINE a == Mark(n)
             b == Mark(n + 1)
             c == Level(n) * den
             d == Level(n + 1) * den
             x == 2 * amount
             y == a + b
             z == 2 * num
             w == c + d
  <2>1. a \in Nat /\ c \in Nat /\ a * den = c * g
    BY <1>3
  <2>2. b \in Nat /\ d \in Nat /\ b * den = d * g
    <3> DEFINE k == n + 1
    <3>1. k \in Nat
      OBVIOUS
    <3> HIDE DEF k
    <3>2. Level(k) \in Nat /\ Mark(k) \in Nat /\ Mark(k) * den = (Level(k) * den) * g
      BY <1>3, <3>1
    <3>3. Level(k) * den \in Nat
      BY <3>2
    <3>4. QED
      BY <3>2, <3>3 DEF k
  <2> HIDE DEF a, b, c, d
  <2>3. x * den = z * g
    <3>1. (2 * amount) * den = 2 * (amount * den) /\ (2 * num) * g = 2 * (num * g)
      BY <1>1
    <3>2. QED
      BY <1>2, <3>1
  <2>4. y * den = w * g
    <3>1. (a + b) * den = a * den + b * den /\ (c + d) * g = c * g + d * g
      BY <1>1, <2>1, <2>2
    <3>2. QED
      BY <2>1, <2>2, <3>1
  <2>5. x \in Int /\ y \in Int /\ z \in Int /\ w \in Int
    BY <2>1, <2>2
  <2> HIDE DEF x, y, z, w
  <2>6. (x < y <=> z < w) /\ (x = y <=> z = w)
    BY <1>1, <2>3, <2>4, <2>5, SameRatio
  <2>7. QED
    BY <2>6 DEF x, y, z, w, a, b, c, d
<1>5. ASSUME NEW n \in Nat
      PROVE  amount = Mark(n) <=> num = Level(n) * den
  <2> DEFINE a == Mark(n)
             c == Level(n) * den
  <2>1. a \in Nat /\ c \in Nat /\ a * den = c * g
    BY <1>3
  <2> HIDE DEF a, c
  <2>2. amount = a <=> num = c
    BY <1>1, <1>2, <2>1, SameRatio
  <2>3. QED
    BY <2>2 DEF a, c
<1>6. QED
  BY <1>4, <1>5, Zenon DEF Apart

-----------------------------------------------------------------------------
(* What it has to round: quotients.                                         *)

\* exact/den is n/d units; n/d is x when it is no further from it than a half; n/d is no
\* less than h.
InUnits(exact, den, n, d, unit) == exact * d = den * (n * unit)
NotNear(n, d, x) == 2 * n <= 2 * (x * d) + d /\ 2 * (x * d) <= 2 * n + d => n = x * d
NoLess(n, d, h) == h * d <= n
Short(point, h, unit) == point < 2 * (h * unit)
Told(amount, exact, den, point) ==
  /\ 2 * amount < point <=> 2 * exact < point * den
  /\ 2 * amount = point <=> 2 * exact = point * den

\* A quotient and what it is rounded to are on one side of a whole number that it is
\* not too near to.
LEMMA OnSide ==
  ASSUME NEW n \in Nat, NEW d \in Nat \ {0}, NEW q \in Nat, Near(n, d, q), NEW x \in Nat,
         NEW at, at = x * d, 2 * n <= 2 * at + d /\ 2 * at <= 2 * n + d => n = at
  PROVE  (q < x <=> n < at) /\ (q = x <=> n = at)
<1> DEFINE b == q * d
<1>1. b \in Nat /\ at \in Nat
  BY SMT
<1>2. 2 * n <= 2 * b + d /\ 2 * b <= 2 * n + d
  BY DEF Near
<1>3. q < x => b + d <= at
  <2> SUFFICES ASSUME q < x PROVE b + d <= at
    OBVIOUS
  <2>1. d * (q + 1) <= d * x /\ d * (q + 1) = b + d /\ d * x = at
    BY ProductMonotone
  <2> HIDE DEF b
  <2>2. QED
    BY <2>1
<1>4. x < q => at + d <= b
  <2> SUFFICES ASSUME x < q PROVE at + d <= b
    OBVIOUS
  <2>1. d * (x + 1) <= d * q /\ d * (x + 1) = x * d + d /\ d * q = b
    BY ProductMonotone
  <2> HIDE DEF b
  <2>2. QED
    BY <2>1
<1>5. q = x => b = at
  OBVIOUS
<1> HIDE DEF b
<1>6. CASE q < x
  BY <1>1, <1>2, <1>3, <1>6
<1>7. CASE x < q
  BY <1>1, <1>2, <1>4, <1>7
<1>8. CASE q = x
  BY <1>1, <1>2, <1>5, <1>8
<1>9. QED
  BY <1>6, <1>7, <1>8

\* The same, for a point in units of which the quotient has n over d.
LEMMA PointBetween ==
  ASSUME NEW n \in Nat, NEW d \in Nat \ {0}, NEW q \in Nat, Near(n, d, q),
         NEW u \in Nat \ {0}, NEW exact \in Nat, NEW den \in Nat \ {0}, InUnits(exact, den, n, d, u),
         NEW x \in Nat, NotNear(n, d, x)
  PROVE  Told(q * u, exact, den, 2 * (x * u))
<1> DEFINE at == x * d
           t == den * u
           point == 2 * (x * u)
<1>1. at \in Nat /\ t \in Nat \ {0} /\ point \in Nat
  BY SMT
<1>2. (q < x <=> n < at) /\ (q = x <=> n = at)
  <2>1. 2 * n <= 2 * at + d /\ 2 * at <= 2 * n + d => n = at
    BY DEF NotNear
  <2> HIDE DEF at
  <2>2. at = x * d
    BY DEF at
  <2>3. QED
    BY <2>1, <2>2, OnSide
<1>3. (2 * (q * u) < point <=> q < x) /\ (2 * (q * u) = point <=> q = x)
  <2>1. (q < x <=> q * u < x * u) /\ (q = x <=> q * u = x * u)
    BY SignOfProduct
  <2> DEFINE a == q * u
             b == x * u
  <2>2. a \in Nat /\ b \in Nat /\ (q < x <=> a < b) /\ (q = x <=> a = b) /\ point = 2 * b
    BY <2>1
  <2> HIDE DEF a, b
  <2>3. (2 * a < point <=> q < x) /\ (2 * a = point <=> q = x)
    BY <2>2
  <2>4. QED
    BY <2>3 DEF a
<1>4. (2 * exact < point * den <=> n < at) /\ (2 * exact = point * den <=> n = at)
  <2> DEFINE y == 2 * exact
             z == point * den
             two == 2 * t
  <2>1. y * d = n * two
    <3>1. (2 * exact) * d = 2 * (exact * d)
      OBVIOUS
    <3>2. 2 * (den * (n * u)) = n * (2 * (den * u))
      BY SMT
    <3>3. QED
      BY <3>1, <3>2 DEF InUnits
  <2>2. z * d = at * two
    <3>1. ((2 * (x * u)) * den) * d = (x * d) * (2 * (den * u))
      BY SMT
    <3>2. QED
      BY <3>1
  <2>3. y \in Int /\ z \in Int /\ two \in Nat \ {0}
    BY <1>1
  <2> HIDE DEF y, z, two, at
  <2>4. (y < z <=> n < at) /\ (y = z <=> n = at)
    BY <1>1, <2>1, <2>2, <2>3, SameRatio
  <2>5. QED
    BY <2>4 DEF y, z
<1> HIDE DEF at, point
<1>5. /\ 2 * (q * u) < point <=> 2 * exact < point * den
      /\ 2 * (q * u) = point <=> 2 * exact = point * den
  BY <1>2, <1>3, <1>4
<1>6. QED
  BY <1>5, Zenon DEF Told, point

\* A point below what the quotient has at least.
LEMMA PointBelow ==
  ASSUME NEW n \in Nat, NEW d \in Nat \ {0}, NEW q \in Nat, Near(n, d, q),
         NEW u \in Nat \ {0}, NEW exact \in Nat, NEW den \in Nat \ {0}, InUnits(exact, den, n, d, u),
         NEW h \in Nat, NoLess(n, d, h), NEW point \in Nat, Short(point, h, u)
  PROVE  Told(q * u, exact, den, point)
<1>1. h <= q
  <2> DEFINE b == q * d
             a == h * d
  <2>1. 2 * n <= 2 * b + d /\ b \in Nat /\ a \in Nat /\ a <= n
    <3>1. b \in Nat /\ a \in Nat
      BY SMT
    <3>2. QED
      BY <3>1 DEF Near, NoLess
  <2>2. q < h => b + d <= a
    <3> SUFFICES ASSUME q < h PROVE b + d <= a
      OBVIOUS
    <3>1. d * (q + 1) <= d * h /\ d * (q + 1) = b + d /\ d * h = a
      BY ProductMonotone
    <3> HIDE DEF a, b
    <3>2. QED
      BY <3>1
  <2> HIDE DEF a, b
  <2>3. ~(q < h)
    BY <2>1, <2>2
  <2>4. QED
    BY <2>3
<1> DEFINE a == h * u
           b == q * u
<1>2. a \in Nat /\ b \in Nat /\ a <= b
  <2>1. u * h <= u * q /\ u * h = a /\ u * q = b /\ a \in Nat /\ b \in Nat
    BY <1>1, ProductMonotone
  <2> HIDE DEF a, b
  <2>2. QED
    BY <2>1
<1>3. den * a <= exact
  <2> DEFINE t == den * u
             x == h * d
             y == den * a
  <2>1. t \in Nat \ {0} /\ x \in Nat /\ x <= n
    <3>1. t \in Nat \ {0} /\ x \in Nat
      BY SMT
    <3>2. QED
      BY <3>1 DEF NoLess
  <2>2. y * d = x * t
    <3>1. (den * (h * u)) * d = (h * d) * (den * u)
      BY SMT
    <3>2. QED
      BY <3>1
  <2>3. exact * d = n * t
    <3>1. den * (n * u) = n * (den * u)
      BY SMT
    <3>2. QED
      BY <3>1 DEF InUnits
  <2>4. y \in Int
    BY <1>2
  <2> HIDE DEF t, x, y, a
  <2>5. exact < y <=> n < x
    BY <2>1, <2>2, <2>3, <2>4, SameRatio
  <2>6. y <= exact
    BY <2>1, <2>4, <2>5
  <2>7. QED
    BY <2>6 DEF y
<1>4. point < 2 * a
  BY DEF Short
<1>5. point * den < 2 * exact
  <2> DEFINE c == 2 * a
             x == point * den
             y == c * den
             z == den * a
  <2>1. point < c <=> x < y
    BY <1>2, SignOfProduct
  <2>2. y = 2 * z /\ z <= exact /\ x \in Nat /\ z \in Nat
    <3> HIDE DEF a
    <3>1. (2 * a) * den = 2 * (den * a) /\ point * den \in Nat /\ den * a \in Nat
      BY <1>2
    <3>2. QED
      BY <1>3, <3>1
  <2>3. x < y
    BY <1>4, <2>1
  <2> HIDE DEF x, y, z
  <2>4. x < 2 * exact
    BY <2>2, <2>3
  <2>5. QED
    BY <2>4 DEF x
<1> HIDE DEF a, b
<1>6. point < 2 * b
  BY <1>2, <1>4
<1> DEFINE x == 2 * b
           y == point * den
           z == 2 * exact
<1>7. x \in Nat /\ y \in Nat /\ z \in Nat /\ point < x /\ y < z
  BY <1>2, <1>5, <1>6
<1> HIDE DEF x, y, z
<1>8. (x < point <=> z < y) /\ (x = point <=> z = y)
  BY <1>7
<1>9. QED
  BY <1>8, Zenon DEF Told, x, y, z, b

\* The quotient is no point of few bits that is less than half a unit from it, or is
\* that point.
Clear(n, d, v, point) ==
  \A y \in Nat :
    LET x == y * 2^(PRECISION + 1)
    IN  point = 2 * (x * 2^v) => NotNear(n, d, x)

LEMMA PointTold ==
  ASSUME NEW n \in Nat, NEW d \in Nat \ {0}, NEW q \in Nat, Near(n, d, q),
         NEW v \in Nat, NEW u, u = 2^v,
         NEW exact \in Nat, NEW den \in Nat \ {0}, InUnits(exact, den, n, d, u),
         NEW top, top = 2^(WIDE - 1), NoLess(n, d, top),
         NEW m \in Nat, NEW few, few = 2^(PRECISION + 1), m < few, NEW h \in Nat, NEW part, part = 2^h,
         NEW point, point = m * part, Clear(n, d, v, point)
  PROVE  Told(q * u, exact, den, point)
<1> DEFINE p == PRECISION + 1
<1>1. p \in Nat /\ WIDE - 1 \in Nat /\ WIDE >= 2 * p /\ PRECISION \in Nat /\ WIDE \in Nat
  BY FpuAssumption
<1>2. u \in Nat \ {0} /\ part \in Nat \ {0} /\ top \in Nat \ {0} /\ few \in Nat \ {0}
  BY <1>1, PowerPositive
<1>3. point \in Nat
  BY <1>2
<1>4. CASE h >= v + p + 1
  <2> DEFINE z == h - (v + p + 1)
             c == v + p
             r == 2^z
             y == m * r
             x == y * few
  <2>1. z \in Nat /\ c \in Nat /\ h = z + (c + 1)
    BY <1>1, <1>4
  <2>2. part = r * (2 * (u * few)) /\ r \in Nat
    <3>1. 2^c = u * few
      BY <1>1, PowersMultiply
    <3> HIDE DEF c, z
    <3>2. 2^(c + 1) = 2 * 2^c /\ c + 1 \in Nat
      BY <2>1, PowerDoubles
    <3>3. 2^(z + (c + 1)) = 2^z * 2^(c + 1)
      BY <2>1, <3>2, PowersMultiply
    <3>4. r \in Nat
      BY <2>1, PowerPositive
    <3>5. QED
      BY <2>1, <3>1, <3>2, <3>3, <3>4
  <2> HIDE DEF r, z, p
  <2>3. point = 2 * (x * u) /\ x \in Nat /\ y \in Nat
    <3>1. m * (r * (2 * (u * few))) = 2 * (((m * r) * few) * u)
      BY <1>2, <2>2, SMT
    <3>2. y \in Nat
      BY <2>2
    <3> HIDE DEF y
    <3>3. x \in Nat
      BY <1>2, <3>2
    <3>4. QED
      BY <2>2, <3>1, <3>2, <3>3 DEF y
  <2>4. NotNear(n, d, x)
    <3> HIDE DEF y
    <3>1. LET w == y * 2^(PRECISION + 1)
          IN  point = 2 * (w * 2^v) => NotNear(n, d, w)
      BY <2>3, Zenon DEF Clear
    <3>2. x = y * 2^(PRECISION + 1)
      OBVIOUS
    <3> HIDE DEF x
    <3>3. QED
      BY <2>3, <3>1, <3>2
  <2> HIDE DEF x
  <2>5. Told(q * u, exact, den, 2 * (x * u))
    BY <1>2, <2>3, <2>4, PointBetween
  <2>6. QED
    BY <2>3, <2>5
<1>5. CASE ~(h >= v + p + 1)
  <2> DEFINE c == v + p
             w == WIDE - 1 + v
             a == few * 2^c
             b == top * u
  <2>1. c \in Nat /\ h <= c /\ p + c <= w + 1 /\ w \in Nat /\ w = (WIDE - 1) + v
    BY <1>1, <1>5
  <2>2. part <= 2^c /\ 2^c \in Nat
    <3> HIDE DEF c
    <3>1. QED
      BY <2>1, PowerOrder, PowerPositive
  <2>3. a <= 2 * b
    <3> DEFINE i == p + c
               j == w + 1
    <3>1. i \in Nat /\ j \in Nat /\ i <= j
      BY <1>1, <2>1
    <3>2. 2^i = few * 2^c
      <4> HIDE DEF c
      <4>1. 2^(p + c) = 2^p * 2^c
        BY <1>1, <2>1, PowersMultiply
      <4>2. QED
        BY <4>1
    <3>3. 2^j = 2 * (top * u)
      <4>1. 2^((WIDE - 1) + v) = 2^(WIDE - 1) * 2^v
        BY <1>1, PowersMultiply
      <4> HIDE DEF w
      <4>2. 2^(w + 1) = 2 * 2^w
        BY <2>1, PowerDoubles
      <4>3. QED
        BY <2>1, <4>1, <4>2
    <3> HIDE DEF i, j
    <3>4. 2^i <= 2^j
      BY <3>1, PowerOrder
    <3>5. QED
      BY <3>2, <3>3, <3>4
  <2>4. point < a
    <3> DEFINE g == 2^c
    <3> HIDE DEF c
    <3>1. g \in Nat /\ g > 0 /\ part <= g
      <4>1. 2^c \in Nat \ {0}
        BY <2>1, PowerPositive
      <4>2. QED
        BY <2>2, <4>1
    <3> HIDE DEF g
    <3>2. m * part <= m * g
      BY <1>2, <3>1, ProductMonotone
    <3>3. m * g < few * g
      BY <1>2, <3>1, SignOfProduct
    <3> DEFINE x == m * part
               y == m * g
               z == few * g
    <3>4. x \in Int /\ y \in Int /\ z \in Int /\ x <= y /\ y < z
      <4>1. x \in Int /\ y \in Int /\ z \in Int
        BY <1>2, <3>1
      <4>2. QED
        BY <3>2, <3>3, <4>1
    <3> HIDE DEF x, y, z
    <3>5. x < z
      BY <3>4
    <3>6. QED
      BY <3>5 DEF x, z, g
  <2>5. point < 2 * b
    <3>1. a \in Nat /\ b \in Nat
      <4> DEFINE g == 2^c
      <4>1. g \in Nat
        BY <2>2
      <4> HIDE DEF g
      <4>2. few * g \in Nat /\ top * u \in Nat
        BY <1>2, <4>1
      <4>3. QED
        BY <4>2 DEF g
    <3> HIDE DEF a, b
    <3>2. QED
      BY <1>3, <2>3, <2>4, <3>1
  <2>6. Short(point, top, u)
    BY <2>5, Zenon DEF Short
  <2>7. QED
    BY <1>2, <1>3, <2>6, PointBelow
<1>6. QED
  BY <1>4, <1>5

\* Twice a word, and twice the middle between two, are points of few bits.
LEMMA MarksAreFew ==
  ASSUME NEW k \in Nat
  PROVE  \E m \in Nat, h \in Nat :
           /\ 2 * m + 1 < 2^(PRECISION + 1)
           /\ Mark(k) + Mark(k + 1) = (2 * m + 1) * 2^h /\ 2 * Mark(k) = (2 * m) * 2^h
<1> DEFINE F == FRACTIONS
<1>1. F \in Nat /\ PRECISION \in Nat /\ 2^PRECISION = 2 * F
  BY FieldSizes, FpuAssumption
<1>2. PICK q \in Nat, j \in Nat : Place(q, j) /\ q < 2 * F /\ k = F * j + q
  BY PlaceOf
<1> DEFINE n == F * j + q
           h == j + GAP
           u == 2^h
<1>3. u \in Nat \ {0} /\ Mark(n) = q * u /\ Mark(n + 1) = q * u + u
  BY <1>2, MarkStep
<1>4. k = n
  BY <1>2
<1>5. h \in Nat
  BY GapIs
<1> HIDE DEF n, h
<1>6. Mark(k) = q * u /\ Mark(k + 1) = q * u + u
  BY <1>3, <1>4
<1>7. Mark(k) + Mark(k + 1) = (2 * q + 1) * u /\ 2 * Mark(k) = (2 * q) * u
  <2> HIDE DEF u
  <2>1. q * u + (q * u + u) = (2 * q + 1) * u /\ 2 * (q * u) = (2 * q) * u
    BY <1>3
  <2>2. QED
    BY <1>6, <2>1
<1>8. 2 * q + 1 < 2^(PRECISION + 1)
  <2>1. 2^(PRECISION + 1) = 2 * 2^PRECISION
    BY <1>1, PowerDoubles
  <2>2. 2^(PRECISION + 1) = 4 * F
    BY <1>1, <2>1
  <2> DEFINE r == 2^(PRECISION + 1)
  <2> HIDE DEF r
  <2>3. r = 4 * F
    BY <2>2 DEF r
  <2> HIDE DEF F
  <2>4. 2 * q + 1 < r
    BY <1>1, <1>2, <2>3
  <2>5. QED
    BY <2>4 DEF r
<1>9. QED
  BY <1>5, <1>7, <1>8

\* From points to words.
LEMMA WordsTold ==
  ASSUME NEW amount \in Nat, NEW num \in Nat, NEW den \in Nat \ {0}, NEW k \in Nat
  PROVE  LET edge == Level(k) * den + Level(k + 1) * den
         IN  /\ Told(amount, num * 2^GAP, den, Mark(k) + Mark(k + 1)) =>
                  /\ 2 * amount < Mark(k) + Mark(k + 1) <=> 2 * num < edge
                  /\ 2 * amount = Mark(k) + Mark(k + 1) <=> 2 * num = edge
             /\ Told(amount, num * 2^GAP, den, 2 * Mark(k)) => (amount = Mark(k) <=> num = Level(k) * den)
<1> DEFINE g == 2^GAP
           l == Level(k)
           s == Level(k + 1)
           c == l * den
           d == s * den
           x == 2 * num
           y == 2 * (num * g)
           a == Mark(k)
           b == Mark(k + 1)
<1>1. g \in Nat \ {0} /\ l \in Nat /\ s \in Nat /\ a \in Nat /\ b \in Nat
  BY GapIs, PowerPositive, LevelOrder, MarkOrder
<1>2. a = l * g /\ b = s * g
  BY DEF Mark
<1> HIDE DEF g, l, s, a, b
<1>3. /\ (a + b) * den = (c + d) * g /\ (2 * a) * den = (2 * c) * g /\ y = x * g
      /\ c \in Nat /\ d \in Nat
  <2>1. (l * g + s * g) * den = (l * den + s * den) * g /\ (2 * (l * g)) * den = (2 * (l * den)) * g
        /\ 2 * (num * g) = (2 * num) * g
    BY <1>1, SMT
  <2>2. c \in Nat /\ d \in Nat
    BY <1>1
  <2>3. QED
    BY <1>2, <2>1, <2>2
<1> HIDE DEF c, d
<1>4. ASSUME NEW z \in Nat
      PROVE  (y < z * g <=> x < z) /\ (y = z * g <=> x = z)
  <2>1. (x < z <=> x * g < z * g) /\ (x = z <=> x * g = z * g)
    BY <1>1, SignOfProduct
  <2> HIDE DEF x, y
  <2>2. QED
    BY <1>3, <2>1
<1>5. ASSUME Told(amount, num * g, den, a + b)
      PROVE  (2 * amount < a + b <=> x < c + d) /\ (2 * amount = a + b <=> x = c + d)
  <2>1. (2 * amount < a + b <=> y < (a + b) * den) /\ (2 * amount = a + b <=> y = (a + b) * den)
    BY <1>5, Zenon DEF Told
  <2> DEFINE z == c + d
  <2>2. z \in Nat
    BY <1>3
  <2> HIDE DEF x, y, z
  <2>3. (y < z * g <=> x < z) /\ (y = z * g <=> x = z)
    BY <1>4, <2>2
  <2>4. (a + b) * den = z * g
    BY <1>3 DEF z
  <2>5. (2 * amount < a + b <=> x < z) /\ (2 * amount = a + b <=> x = z)
    BY <2>1, <2>3, <2>4, Zenon
  <2>6. QED
    BY <2>5 DEF z
<1>6. ASSUME Told(amount, num * g, den, 2 * a)
      PROVE  amount = a <=> num = c
  <2>1. 2 * amount = 2 * a <=> y = (2 * a) * den
    BY <1>6, Zenon DEF Told
  <2> DEFINE z == 2 * c
  <2>2. z \in Nat
    BY <1>3
  <2>3. (amount = a <=> 2 * amount = 2 * a) /\ (num = c <=> x = z)
    BY <1>1, <1>3
  <2> HIDE DEF x, y, z
  <2>4. y = z * g <=> x = z
    BY <1>4, <2>2
  <2>5. (2 * a) * den = z * g
    BY <1>3 DEF z
  <2>6. QED
    BY <2>1, <2>3, <2>4, <2>5, Zenon
<1>7. QED
  BY <1>5, <1>6, Zenon DEF a, b, c, d, l, s, x, g

\* The quotient n/d, in units of 2^v, is num/den; it has as many bits as the wider format.
Quoted(num, den, n, d, v) == InUnits(num * 2^GAP, den, n, d, 2^v)
Full(n, d) == NoLess(n, d, 2^(WIDE - 1))
TellsWhenClear(n, d, v, amount, num, den) ==
  /\ (\A k \in Nat : Clear(n, d, v, Mark(k) + Mark(k + 1))) => Apart(amount, num, den)
  /\ \A k \in Nat : Clear(n, d, v, 2 * Mark(k)) => (amount = Mark(k) <=> num = Level(k) * den)

\* A number rounded to the wider format tells what it is near to, when it is clear of
\* the middles, and what it is, when it is clear of the words.
LEMMA QuotientTells ==
  ASSUME NEW n \in Nat, NEW d \in Nat \ {0}, NEW q \in Nat, Near(n, d, q),
         NEW v \in Nat, NEW num \in Nat, NEW den \in Nat \ {0}, Quoted(num, den, n, d, v), Full(n, d)
  PROVE  TellsWhenClear(n, d, v, q * 2^v, num, den)
<1> DEFINE u == 2^v
           top == 2^(WIDE - 1)
           few == 2^(PRECISION + 1)
           amount == q * u
           exact == num * 2^GAP
<1>1. exact \in Nat /\ u \in Nat
  <2> DEFINE g == 2^GAP
  <2>1. g \in Nat /\ u \in Nat
    BY GapIs, PowerPositive
  <2> HIDE DEF g
  <2>2. num * g \in Nat
    BY <2>1
  <2>3. QED
    BY <2>1, <2>2 DEF g
<1>2. amount \in Nat
  BY <1>1
<1>3. ASSUME NEW k \in Nat
      PROVE  /\ Clear(n, d, v, Mark(k) + Mark(k + 1)) => Told(amount, exact, den, Mark(k) + Mark(k + 1))
             /\ Clear(n, d, v, 2 * Mark(k)) => Told(amount, exact, den, 2 * Mark(k))
  <2>1. PICK m \in Nat, h \in Nat :
          /\ 2 * m + 1 < few
          /\ Mark(k) + Mark(k + 1) = (2 * m + 1) * 2^h /\ 2 * Mark(k) = (2 * m) * 2^h
    BY <1>3, MarksAreFew
  <2> DEFINE part == 2^h
             one == 2 * m + 1
             two == 2 * m
  <2>2. few \in Nat
    <3> DEFINE p == PRECISION + 1
    <3>1. p \in Nat
      BY FpuAssumption
    <3> HIDE DEF p
    <3>2. 2^p \in Nat
      BY <3>1, PowerPositive
    <3>3. QED
      BY <3>2 DEF p
  <2>3. one \in Nat /\ two \in Nat /\ one < few /\ two < few
    <3>1. one < few
      BY <2>1
    <3> HIDE DEF few
    <3>2. QED
      BY <2>2, <3>1
  <2> HIDE DEF one, two, exact
  <2>4. InUnits(exact, den, n, d, u)
    BY Zenon DEF exact, Quoted
  <2>8. NoLess(n, d, top) /\ u = 2^v /\ top = 2^(WIDE - 1)
    BY DEF Full
  <2> HIDE DEF u, top
  <2>5. ASSUME NEW x \in Nat, x < few PROVE Clear(n, d, v, x * part) => Told(amount, exact, den, x * part)
    BY <1>1, <2>4, <2>5, <2>8, PointTold
  <2>6. Mark(k) + Mark(k + 1) = one * part /\ 2 * Mark(k) = two * part
    BY <2>1 DEF one, two
  <2> HIDE DEF few, part, amount
  <2>7. QED
    BY <2>3, <2>5, <2>6
<1> HIDE DEF amount
<1>4. ASSUME NEW k \in Nat
      PROVE  LET middle == Mark(k) + Mark(k + 1)
                 edge == Level(k) * den + Level(k + 1) * den
             IN  /\ Clear(n, d, v, middle) => /\ 2 * amount < middle <=> 2 * num < edge
                                              /\ 2 * amount = middle <=> 2 * num = edge
                 /\ Clear(n, d, v, 2 * Mark(k)) => (amount = Mark(k) <=> num = Level(k) * den)
  BY <1>2, <1>3, WordsTold
<1>5. ASSUME \A k \in Nat : Clear(n, d, v, Mark(k) + Mark(k + 1))
      PROVE  Apart(amount, num, den)
  BY <1>4, <1>5, Zenon DEF Apart
<1>6. QED
  BY <1>4, <1>5, Zenon DEF amount, TellsWhenClear

LEMMA BitsBelow ==
  ASSUME NEW n \in Nat \ {0}, NEW p \in Nat, n < 2^p
  PROVE  Bits(n) <= p
<1> DEFINE c == Bits(n) - 1
<1>1. c \in Nat /\ n >= 2^c /\ Bits(n) = c + 1
  BY BitsAre
<1> HIDE DEF c
<1>2. p <= c => 2^p <= 2^c
  BY <1>1, PowerOrder
<1> DEFINE x == 2^p
           y == 2^c
<1>3. x \in Nat /\ y \in Nat
  BY <1>1, PowerPositive
<1>4. n < x /\ n >= y /\ (p <= c => x <= y)
  BY <1>1, <1>2
<1> HIDE DEF x, y
<1>5. ~(p <= c)
  BY <1>3, <1>4
<1>6. QED
  BY <1>1, <1>5

Small(n) == n < 2^PRECISION

\* A quotient of small numbers gets all the bits that the wider format has.
LEMMA QuotientRounded ==
  ASSUME NEW neg, NEW a \in Nat \ {0}, NEW b \in Nat \ {0}, Small(a), Small(b),
         NEW exp \in Int, exp >= LEAST - BIAS
  PROVE  \E k \in Nat, q \in Nat :
           /\ Wide(neg, a, b, exp) = Number(neg, q, exp - k) /\ exp - k >= NoLeast
           /\ Near(a * 2^k, b, q) /\ NoLess(a * 2^k, b, 2^(WIDE - 1)) /\ k >= PRECISION + 1
<1> DEFINE L == Bits(a)
           M == Bits(b)
           near == WIDE - (L - M)
           taken == IF Scaled(a, near) >= Scaled(b, -near) * 2^WIDE THEN near - 1 ELSE near
           low == WIDE - 1
           top == 2^low
<1>1. /\ PRECISION \in Nat /\ WIDE \in Nat /\ WIDE >= 2 * PRECISION + 2 /\ low \in Nat
      /\ BIAS \in Nat /\ LEAST \in Int /\ LEAST < 0 /\ NoLeast \in Int
      /\ NoLeast = 2 * LEAST - BIAS - 2 * WIDE
  BY FpuAssumption, FieldSizes, GapIs DEF NoLeast
<1>2. /\ L \in Nat \ {0} /\ L <= PRECISION /\ M \in Nat \ {0} /\ M <= PRECISION
      /\ a >= 2^(L - 1) /\ b < 2^M
  BY <1>1, BitsAre, BitsBelow DEF Small
<1> HIDE DEF L, M
<1>3. near \in Nat /\ near - 1 \in Nat /\ near - 1 >= PRECISION + 1 /\ near <= WIDE + PRECISION
  BY <1>1, <1>2
<1>4. ASSUME NEW t \in Nat PROVE Scaled(a, t) = a * 2^t /\ Scaled(b, -t) = b
  <2>1. MaxOf(t, 0) = t /\ MaxOf(-t, 0) = 0
    BY DEF MaxOf
  <2>2. Scaled(b, -t) = b * 2^0
    BY <2>1 DEF Scaled
  <2>3. b * 2^0 = b
    BY SMT
  <2>4. QED
    BY <2>1, <2>2, <2>3 DEF Scaled
<1>5. top \in Nat \ {0} /\ 2^WIDE = 2 * top
  <2>1. low + 1 = WIDE
    BY <1>1
  <2> HIDE DEF low
  <2>2. top \in Nat \ {0} /\ 2^(low + 1) = 2 * top
    BY <1>1, PowerPositive, PowerDoubles
  <2>3. QED
    BY <2>1, <2>2
<1>6. taken \in {near - 1, near} /\ NoLess(a * 2^taken, b, top)
  <2> DEFINE p == 2^near
             half == 2^(near - 1)
             full == 2^WIDE
  <2>1. p = 2 * half /\ half \in Nat \ {0}
    <3> DEFINE i == near - 1
    <3>1. i \in Nat /\ near = i + 1
      BY <1>3
    <3> HIDE DEF i, near
    <3>2. 2^(i + 1) = 2 * 2^i /\ 2^i \in Nat \ {0}
      BY <3>1, PowerPositive, PowerDoubles
    <3>3. QED
      BY <3>1, <3>2 DEF i
  <2>2. taken = IF a * p >= b * full THEN near - 1 ELSE near
    <3>1. Scaled(a, near) = a * p /\ Scaled(b, -near) = b
      BY <1>3, <1>4
    <3> HIDE DEF near, p, full
    <3>2. QED
      BY <3>1 DEF full
  <2> HIDE DEF taken
  <2>3. CASE a * p >= b * full
    <3>1. taken = near - 1
      BY <2>2, <2>3
    <3> HIDE DEF half, p, near, top, full
    <3>2. a * p = 2 * (a * half) /\ b * full = 2 * (top * b)
      BY <1>5, <2>1 DEF full
    <3>3. a * half \in Nat /\ top * b \in Nat
      BY <1>5, <2>1
    <3> DEFINE x == a * half
               y == top * b
    <3>4. 2 * x >= 2 * y /\ x \in Nat /\ y \in Nat
      BY <2>3, <3>2, <3>3
    <3> HIDE DEF x, y
    <3>5. y <= x
      BY <3>4
    <3>6. QED
      BY <3>1, <3>5 DEF NoLess, x, y, half
  <2>4. CASE ~(a * p >= b * full)
    <3>1. taken = near
      BY <2>2, <2>4
    <3> DEFINE h == L - 1
               r == 2^h
               s == 2^M
    <3>2. h \in Nat /\ h + near = low + M
      BY <1>1, <1>2
    <3>3. r \in Nat \ {0} /\ s \in Nat \ {0} /\ a >= r /\ b < s
      <4>1. a >= r /\ b < s /\ M \in Nat
        BY <1>2
      <4> HIDE DEF h
      <4>2. QED
        BY <3>2, <4>1, PowerPositive
    <3> HIDE DEF h, near, low
    <3>4. r * p = top * s
      <4>1. 2^(h + near) = r * p
        BY <1>3, <3>2, PowersMultiply
      <4>2. 2^(low + M) = top * s
        BY <1>1, <1>2, PowersMultiply
      <4>3. QED
        BY <3>2, <4>1, <4>2
    <3> HIDE DEF r, s, p, top
    <3>5. p * r <= p * a /\ top * b <= top * s /\ p \in Nat
      <4>1. p \in Nat
        BY <2>1
      <4>2. QED
        BY <1>5, <3>3, <4>1, ProductMonotone
    <3> DEFINE w == p * a
               x == top * b
               y == top * s
               z == p * r
    <3>6. w \in Nat /\ x \in Nat /\ y \in Nat /\ z \in Nat /\ z = y /\ z <= w /\ x <= y /\ a * p = w
      BY <1>5, <3>3, <3>4, <3>5
    <3> HIDE DEF w, x, y, z
    <3>7. x <= w
      BY <3>6
    <3>8. QED
      BY <3>1, <3>6, <3>7 DEF NoLess, x, p
  <2>5. taken \in {near - 1, near}
    BY <2>2
  <2>6. QED
    BY <2>3, <2>4, <2>5
<1> HIDE DEF taken
<1>7. taken \in Nat /\ taken >= PRECISION + 1 /\ exp - taken >= NoLeast
  <2>1. taken \in Nat /\ taken >= PRECISION + 1 /\ taken <= WIDE + PRECISION
    <3> HIDE DEF near
    <3>1. QED
      BY <1>1, <1>3, <1>6
  <2>2. exp - taken >= NoLeast
    BY <1>1, <2>1
  <2>3. QED
    BY <2>1, <2>2
<1> DEFINE q == HalfEven(a * 2^taken, b)
<1>8. Wide(neg, a, b, exp) = Number(neg, q, exp - taken)
  <2> DEFINE K(t) == IF exp - t < NoLeast THEN exp - NoLeast ELSE t
  <2>1. Wide(neg, a, b, exp) = IF a = 0 THEN Number(neg, 0, 0)
          ELSE Number(neg, HalfEven(Scaled(a, K(taken)), Scaled(b, -K(taken))), exp - K(taken))
    BY Zenon DEF Wide, Rounded, taken, near, L, M
  <2>2. K(taken) = taken
    BY <1>1, <1>7
  <2> HIDE DEF K
  <2>3. Scaled(a, taken) = a * 2^taken /\ Scaled(b, -taken) = b
    BY <1>4, <1>7
  <2>4. a # 0
    OBVIOUS
  <2>5. QED
    BY <2>1, <2>2, <2>3, <2>4
<1>9. q \in Nat /\ Near(a * 2^taken, b, q)
  <2> DEFINE n == a * 2^taken
  <2>1. n \in Nat
    <3> DEFINE p == 2^taken
    <3>1. p \in Nat
      BY <1>7, PowerPositive
    <3> HIDE DEF p
    <3>2. a * p \in Nat
      BY <3>1
    <3>3. QED
      BY <3>2 DEF p
  <2> HIDE DEF n
  <2>2. HalfEven(n, b) \in Nat /\ Near(n, b, HalfEven(n, b))
    BY <2>1, HalfEvenNear
  <2>3. QED
    BY <2>2 DEF n
<1> HIDE DEF q
<1>10. QED
  BY <1>6, <1>7, <1>8, <1>9 DEF top, low

\* A number of the wider format is as good as num/den: on its side of every middle, and
\* the same word when num/den is one; if it is precise, it is no word when num/den is none.
Stands(x, neg, num, den, precise) ==
  \E m \in Nat, e \in Int :
    /\ x = Whole(neg, m, e) /\ Odd(m) /\ e >= NoLeast
    /\ Apart(AmountOf(m, e), num, den)
    /\ \A k \in Nat : num = Level(k) * den => AmountOf(m, e) = Mark(k)
    /\ precise => \A k \in Nat : AmountOf(m, e) = Mark(k) => num = Level(k) * den

LEMMA StandsAs ==
  ASSUME NEW x, NEW neg, NEW num, NEW den, NEW precise, NEW m \in Nat, NEW e \in Int,
         x = Whole(neg, m, e), Odd(m), e >= NoLeast, Apart(AmountOf(m, e), num, den),
         \A k \in Nat : num = Level(k) * den => AmountOf(m, e) = Mark(k),
         precise => \A k \in Nat : AmountOf(m, e) = Mark(k) => num = Level(k) * den
  PROVE  Stands(x, neg, num, den, precise)
BY Zenon DEF Stands

\* The operands of a calculation.
LEMMA OperandIs ==
  ASSUME NEW word \in Word, Finite(word)
  PROVE  LET x == FromBits(word)
         IN  /\ x.kind = "finite" /\ x.neg = Negative(word) /\ x.m \in Nat /\ x.e \in Int
             /\ x.e >= LEAST /\ x.e <= BIAS /\ Small(x.m) /\ x = Whole(Negative(word), x.m, x.e)
             /\ x.m * 2^(x.e - LEAST) = Level(Nth(word)) /\ (x.m = 0 <=> Nth(word) = 0)
             /\ Value(word) = Signing(Negative(word), Level(Nth(word)))
<1>1. Nth(word) < FINITES /\ Nth(word) \in Nat
  BY FiniteNth, WordNth
<1>2. PICK q \in Nat, j \in Nat : /\ Place(q, j) /\ Nth(word) = FRACTIONS * j + q
                                  /\ FromBits(word) = Number(Negative(word), q, LEAST + j)
  BY FiniteNth
<1> DEFINE x == FromBits(word)
           n == Nth(word)
           neg == Negative(word)
<1>3. /\ BIAS \in Nat /\ LEAST \in Int /\ LEAST <= 0 /\ PRECISION \in Nat \ {0} /\ FRACTIONS \in Nat
      /\ 2^PRECISION = 2 * FRACTIONS
  BY FieldSizes, FpuAssumption
<1>4. /\ x.kind = "finite" /\ x.neg = neg /\ x.m \in Nat /\ x.e \in Int /\ x.e >= LEAST
      /\ (x.m = 0 <=> n = 0) /\ x = Whole(neg, x.m, x.e)
      /\ Odd(x.m) \/ (x.m = 0 /\ x.e = 0)
      /\ x.m * 2^(x.e - LEAST) = Level(n)
  <2> DEFINE y == Number(neg, q, LEAST + j)
             r == FRACTIONS * j + q
  <2>1. /\ y.kind = "finite" /\ y.neg = neg /\ y.m \in Nat /\ y.e \in Int /\ y.e >= LEAST
        /\ (y.m = 0 <=> r = 0) /\ y = Whole(neg, y.m, y.e)
        /\ Odd(y.m) \/ (y.m = 0 /\ y.e = 0)
        /\ y.m * 2^(y.e - LEAST) = Level(r)
    BY <1>2, PlaceNumber
  <2>2. x = y /\ n = r
    BY <1>2
  <2> HIDE DEF x, y, n, r
  <2>3. QED
    BY <2>1, <2>2
<1>5. Value(word) = Signing(neg, Level(n))
  BY WordValue
<1>6. Small(x.m)
  <2>1. CASE x.m = 0
    <3>1. 0 < 2 * FRACTIONS
      BY FieldSizes
    <3>2. QED
      BY <1>3, <2>1, <3>1 DEF Small
  <2>2. CASE x.m # 0
    <3>1. q # 0
      BY <1>2, <1>4, <2>2, ZeroIs
    <3>2. LEAST + j \in Int
      BY <1>3
    <3>3. PICK o \in Nat, i \in Nat : Odd(o) /\ q = o * 2^i /\ Number(neg, q, LEAST + j) = Whole(neg, o, LEAST + j + i)
      BY <3>1, <3>2, NumberShape
    <3>4. x.m = o
      BY <1>2, <3>3, WholeIs
    <3>5. q <= 2 * FRACTIONS
      BY <1>2 DEF Place
    <3>6. o * 2^i <= 2^PRECISION
      BY <1>3, <3>3, <3>5
    <3>7. o < 2^PRECISION
      BY <1>3, <3>3, <3>6, OddPartBelow
    <3>8. QED
      BY <3>4, <3>7 DEF Small
  <2>3. QED
    BY <2>1, <2>2
<1>7. x.e <= BIAS
  <2> DEFINE m == x.m
             e == x.e
             c == e - LEAST
             p == 2^c
             z == BIAS + 1 - LEAST
             top == 2^z
  <2>1. CASE m = 0
    BY <1>3, <1>4, <2>1 DEF Odd
  <2>2. CASE m # 0
    <3>1. c \in Nat /\ z \in Nat /\ (z > c => e <= BIAS) /\ m \in Nat \ {0}
      BY <1>3, <1>4, <2>2
    <3>2. Level(n) < top
      <4>1. Level(n) < Level(FINITES)
        BY <1>1, FinitesAre, LevelOrder
      <4>2. QED
        BY <4>1, FinitesAre
    <3>3. p \in Nat \ {0} /\ top \in Nat /\ m * p = Level(n)
      <4>1. m * p = Level(n)
        BY <1>4
      <4> HIDE DEF c, z
      <4>2. QED
        BY <3>1, <4>1, PowerPositive
    <3> HIDE DEF m, c, z
    <3>4. z <= c => top <= p
      BY <3>1, PowerOrder
    <3>5. p <= m * p /\ m * p < top /\ m * p \in Nat
      <4>1. m * p < top
        BY <3>2, <3>3
      <4> HIDE DEF p, top
      <4>2. p * 1 <= p * m /\ p * 1 = p /\ p * m = m * p /\ m * p \in Nat
        BY <3>1, <3>3, ProductMonotone
      <4>3. QED
        BY <4>1, <4>2
    <3> DEFINE w == m * p
    <3>6. p <= w /\ w < top /\ w \in Nat
      BY <3>5
    <3> HIDE DEF p, top, w
    <3>7. ~(z <= c)
      BY <3>3, <3>4, <3>6
    <3>8. QED
      BY <3>1, <3>7
  <2>3. QED
    BY <2>1, <2>2
<1> HIDE DEF x, n, neg
<1>8. QED
  BY <1>4, <1>5, <1>6, <1>7 DEF x, n, neg

LEMMA MultiplesApart ==
  ASSUME NEW c \in Nat, NEW y \in Nat, NEW t \in Nat, NEW d \in Nat, d < t
  PROVE  2 * (c * t) <= 2 * (y * t) + d /\ 2 * (y * t) <= 2 * (c * t) + d => c = y
<1> DEFINE a == c * t
           b == y * t
<1>1. a \in Nat /\ b \in Nat
  OBVIOUS
<1>2. c < y => a + t <= b
  <2> SUFFICES ASSUME c < y PROVE a + t <= b
    OBVIOUS
  <2>1. t * (c + 1) <= t * y /\ t * (c + 1) = c * t + t /\ t * y = y * t
    BY ProductMonotone
  <2> HIDE DEF a, b
  <2>2. QED
    BY <2>1 DEF a, b
<1>3. y < c => b + t <= a
  <2> SUFFICES ASSUME y < c PROVE b + t <= a
    OBVIOUS
  <2>1. t * (y + 1) <= t * c /\ t * (y + 1) = y * t + t /\ t * c = c * t
    BY ProductMonotone
  <2> HIDE DEF a, b
  <2>2. QED
    BY <2>1 DEF a, b
<1> HIDE DEF a, b
<1>4. 2 * a <= 2 * b + d /\ 2 * b <= 2 * a + d => c = y
  BY <1>1, <1>2, <1>3
<1>5. QED
  BY <1>4 DEF a, b

\* A quotient is no point of few bits when it is near to one and not that.
LEMMA QuotientClear ==
  ASSUME NEW a \in Nat, NEW b \in Nat \ {0}, Small(b), NEW k \in Nat, k >= PRECISION + 1, NEW v, NEW point
  PROVE  Clear(a * 2^k, b, v, point)
<1> DEFINE p == PRECISION + 1
           t == 2^p
           d == k - p
           r == 2^d
           n == a * 2^k
           c == a * r
<1>1. p \in Nat /\ d \in Nat /\ k = d + p
  BY FpuAssumption
<1>2. 2^k = r * t /\ r \in Nat /\ t \in Nat
  <2> HIDE DEF p, d
  <2>1. QED
    BY <1>1, PowersMultiply, PowerPositive
<1>3. b < t
  <2>1. 2^(PRECISION + 1) = 2 * 2^PRECISION /\ 2^PRECISION \in Nat /\ b < 2^PRECISION
    BY FpuAssumption, PowerDoubles, PowerPositive DEF Small
  <2> DEFINE z == 2^PRECISION
  <2>2. t = 2 * z /\ z \in Nat /\ b < z
    BY <2>1
  <2> HIDE DEF z, t
  <2>3. QED
    BY <2>2
<1> HIDE DEF r, t, p, d
<1>4. n = c * t /\ c \in Nat
  <2>1. a * (r * t) = (a * r) * t /\ a * r \in Nat
    BY <1>2, SMT
  <2>2. QED
    BY <1>2, <2>1
<1> HIDE DEF n, c
<1>5. ASSUME NEW y \in Nat PROVE NotNear(n, b, y * t)
  <2> DEFINE z == y * b
  <2>1. (y * t) * b = z * t /\ z \in Nat
    BY <1>2, SMT
  <2> HIDE DEF z
  <2>2. 2 * (c * t) <= 2 * (z * t) + b /\ 2 * (z * t) <= 2 * (c * t) + b => c = z
    BY <1>2, <1>3, <1>4, <2>1, MultiplesApart
  <2>3. 2 * n <= 2 * ((y * t) * b) + b /\ 2 * ((y * t) * b) <= 2 * n + b => n = (y * t) * b
    BY <1>4, <2>1, <2>2
  <2>4. QED
    BY <2>3, Zenon DEF NotNear
<1>6. QED
  BY <1>5, Zenon DEF Clear, n, t, p

\* Quotients of words are rounded once.
LEMMA QuotientStands ==
  ASSUME NEW neg, NEW a \in Nat \ {0}, NEW b \in Nat \ {0}, Small(a), Small(b),
         NEW ea \in Int, NEW eb \in Int, ea >= LEAST, eb >= LEAST, eb <= BIAS
  PROVE  Stands(Wide(neg, a, b, ea - eb), neg, (a * 2^(ea - LEAST)) * ONE, b * 2^(eb - LEAST), TRUE)
<1> DEFINE exp == ea - eb
           i == ea - LEAST
           j == eb - LEAST
           s == 2^i
           den == b * 2^j
           num == (a * s) * ONE
           g == 2^GAP
           low == WIDE - 1
           top == 2^low
<1>1. /\ LEAST \in Int /\ LEAST < 0 /\ BIAS \in Nat /\ NoLeast \in Int /\ GAP \in Nat /\ NoLeast = LEAST - GAP
      /\ low \in Nat /\ PRECISION \in Nat
  BY FieldSizes, GapIs, FpuAssumption
<1>2. exp \in Int /\ exp >= LEAST - BIAS /\ i \in Nat /\ j \in Nat
  BY <1>1
<1> HIDE DEF low
<1>3. PICK k \in Nat, q \in Nat :
           /\ Wide(neg, a, b, exp) = Number(neg, q, exp - k) /\ exp - k >= NoLeast
           /\ Near(a * 2^k, b, q) /\ NoLess(a * 2^k, b, top) /\ k >= PRECISION + 1
  <2> HIDE DEF exp
  <2>1. QED
    BY <1>2, QuotientRounded DEF low
<1> DEFINE f == exp - k
           v == f - NoLeast
           u == 2^v
           r == 2^k
           n == a * r
           one == -LEAST
           y == 2^one
           x == 2^j
<1>4. v \in Nat /\ f \in Int /\ f >= NoLeast /\ one \in Nat /\ i + (one + GAP) = j + (k + v)
  <2> HIDE DEF v
  <2>1. v \in Int
    BY <1>1, <1>2 DEF v
  <2>2. f >= NoLeast
    BY <1>3
  <2>3. v >= 0
    BY <1>1, <1>2, <2>2 DEF v
  <2>4. QED
    BY <1>1, <1>2, <2>1, <2>2, <2>3 DEF v
<1> HIDE DEF v, f, one, i, j, exp
<1>5. s \in Nat \ {0} /\ g \in Nat \ {0} /\ u \in Nat \ {0} /\ r \in Nat \ {0} /\ y \in Nat \ {0} /\ x \in Nat \ {0} /\ top \in Nat \ {0}
  BY <1>1, <1>2, <1>4, PowerPositive
<1>6. s * (y * g) = x * (r * u)
  <2>1. 2^(i + (one + GAP)) = s * (y * g)
    <3>1. one + GAP \in Nat
      BY <1>1, <1>4
    <3>2. 2^(one + GAP) = y * g
      BY <1>1, <1>4, PowersMultiply
    <3> DEFINE z == one + GAP
    <3> HIDE DEF z
    <3>3. 2^(i + z) = s * 2^z
      BY <1>2, <3>1, PowersMultiply DEF z
    <3>4. QED
      BY <3>2, <3>3 DEF z
  <2>2. 2^(j + (k + v)) = x * (r * u)
    <3>1. k + v \in Nat
      BY <1>4
    <3>2. 2^(k + v) = r * u
      BY <1>4, PowersMultiply
    <3> DEFINE z == k + v
    <3> HIDE DEF z
    <3>3. 2^(j + z) = x * 2^z
      BY <1>2, <3>1, PowersMultiply DEF z
    <3>4. QED
      BY <3>2, <3>3 DEF z
  <2>3. QED
    BY <1>4, <2>1, <2>2
<1>7. ONE = y
  BY DEF ONE, y, one
<1>8. num \in Nat /\ den \in Nat \ {0} /\ n \in Nat /\ InUnits(num * g, den, n, b, u)
  <2> HIDE DEF s, g, u, r, y, x
  <2>1. (((a * s) * y) * g) * b = (a * (s * (y * g))) * b /\ (b * x) * ((a * r) * u) = (a * (x * (r * u))) * b
    BY <1>5, SMT
  <2>2. (num * g) * b = den * (n * u)
    BY <1>6, <1>7, <2>1 DEF x, r
  <2>3. (a * s) * y \in Nat /\ b * x \in Nat \ {0} /\ a * r \in Nat
    BY <1>5, SMT
  <2>4. QED
    BY <1>7, <2>2, <2>3 DEF InUnits, x, r
<1>9. /\ Apart(q * u, num, den)
      /\ \A h \in Nat : q * u = Mark(h) <=> num = Level(h) * den
  <2>1. Near(n, b, q) /\ NoLess(n, b, top)
    BY <1>3
  <2>2. \A point : Clear(n, b, v, point)
    BY <1>3, QuotientClear
  <2>3. top = 2^(WIDE - 1)
    BY DEF low
  <2> HIDE DEF n, num, den, top
  <2>4. Quoted(num, den, n, b, v) /\ Full(n, b)
    BY <1>8, <2>1, <2>3, Zenon DEF Quoted, Full, g, u
  <2>6. v \in Nat /\ num \in Nat /\ den \in Nat \ {0} /\ n \in Nat
    BY <1>4, <1>8
  <2>7. TellsWhenClear(n, b, v, q * 2^v, num, den)
    BY <2>1, <2>4, <2>6, QuotientTells
  <2> HIDE DEF u
  <2>8. TellsWhenClear(n, b, v, q * u, num, den)
    BY <2>7 DEF u
  <2>5. QED
    BY <2>2, <2>8, Zenon DEF TellsWhenClear
<1>10. q # 0
  <2> SUFFICES ASSUME q = 0 PROVE FALSE
    OBVIOUS
  <2>1. 2 * n <= 2 * (q * b) + b
    BY <1>3, Zenon DEF Near
  <2>2. q * b = 0
    BY SMT
  <2>3. top * b <= n
    BY <1>3 DEF NoLess
  <2> HIDE DEF top, n
  <2>4. b * 1 <= b * top /\ b * 1 = b /\ b * top = top * b
    BY <1>5, ProductMonotone
  <2> DEFINE z == top * b
  <2>5. z \in Nat /\ b <= z /\ z <= n
    BY <1>5, <2>3, <2>4
  <2> HIDE DEF z
  <2>6. QED
    BY <1>8, <2>1, <2>2, <2>5
<1>11. PICK m \in Nat, e \in Int :
         /\ Number(neg, q, f) = Whole(neg, m, e) /\ Odd(m) /\ e >= NoLeast
         /\ m * 2^(e - NoLeast) = q * 2^(f - NoLeast)
  BY <1>4, <1>10, NumberOfAmount
<1>12. AmountOf(m, e) = q * u
  BY <1>11 DEF AmountOf, u, v
<1>13. Wide(neg, a, b, exp) = Whole(neg, m, e)
  BY <1>3, <1>11 DEF f
<1> DEFINE amount == q * u
<1> HIDE DEF num, den, amount
<1>14. Apart(AmountOf(m, e), num, den) /\ \A h \in Nat : AmountOf(m, e) = Mark(h) <=> num = Level(h) * den
  BY <1>9, <1>12 DEF amount
<1>15. Stands(Wide(neg, a, b, exp), neg, num, den, TRUE)
  BY <1>11, <1>13, <1>14, StandsAs
<1>16. QED
  BY <1>15 DEF exp, num, den, i, j, s

-----------------------------------------------------------------------------
(* Products and integers.                                                   *)

\* What is held exactly stands for itself.
SameAs(amount, num, den) == amount * den = num * 2^GAP

LEMMA ExactStands ==
  ASSUME NEW neg, NEW m \in Nat \ {0}, NEW exp \in Int, exp >= NoLeast, NEW k \in Nat, Held(AmountOf(m, exp), k),
         NEW num \in Nat, NEW den \in Nat \ {0}, SameAs(AmountOf(m, exp), num, den)
  PROVE  Stands(Wide(neg, m, 1, exp), neg, num, den, TRUE)
<1> DEFINE amount == AmountOf(m, exp)
<1>0. amount = AmountOf(m, exp)
  OBVIOUS
<1> HIDE DEF amount
<1>1. PICK o \in Nat, e \in Int :
         /\ Wide(neg, m, 1, exp) = Whole(neg, o, e) /\ Odd(o) /\ e >= NoLeast
         /\ o * 2^(e - NoLeast) = amount
  BY WideExact, Zenon DEF amount, Exactly
<1>2. AmountOf(o, e) = amount
  BY <1>1 DEF AmountOf
<1>3. amount \in Nat
  <2> DEFINE s == exp - NoLeast
             t == 2^s
  <2>1. s \in Nat
    BY GapIs
  <2> HIDE DEF s
  <2>2. t \in Nat
    BY <2>1, PowerPositive
  <2> HIDE DEF t
  <2>3. m * t \in Nat
    BY <2>2
  <2>4. QED
    BY <1>0, <2>3 DEF t, s, AmountOf
<1>4. amount * den = num * 2^GAP
  BY <1>0, Zenon DEF SameAs
<1>5. Apart(amount, num, den) /\ \A n \in Nat : amount = Mark(n) <=> num = Level(n) * den
  BY <1>3, <1>4, ExactTells
<1>6. Apart(AmountOf(o, e), num, den) /\ \A n \in Nat : AmountOf(o, e) = Mark(n) <=> num = Level(n) * den
  BY <1>2, <1>5
<1>7. QED
  BY <1>1, <1>6, StandsAs

Few(m) == m < 2^WIDE

LEMMA FewHeld ==
  ASSUME NEW m \in Nat, Few(m), NEW exp \in Int, exp >= NoLeast
  PROVE  Held(AmountOf(m, exp), exp - NoLeast)
<1> DEFINE s == exp - NoLeast
           t == 2^s
           w == 2^WIDE
<1>1. s \in Nat /\ WIDE \in Nat
  BY GapIs, FpuAssumption
<1> HIDE DEF s
<1>2. t \in Nat \ {0} /\ w \in Nat \ {0} /\ 2^(WIDE + s) = w * t
  BY <1>1, PowerPositive, PowersMultiply
<1> HIDE DEF t, w
<1>3. m * t < w * t
  <2>1. m < w
    BY DEF w, Few
  <2>2. t * (m + 1) <= t * w /\ t * (m + 1) = m * t + t /\ t * w = w * t
    BY <1>2, <2>1, ProductMonotone
  <2> DEFINE x == m * t
             y == w * t
  <2>3. x \in Nat /\ y \in Nat /\ x + t <= y
    BY <1>2, <2>2
  <2> HIDE DEF x, y
  <2>4. x < y
    BY <1>2, <2>3
  <2>5. QED
    BY <2>4 DEF x, y
<1>4. (m * t) % t = 0
  <2>1. t * m = m * t /\ t * m + 0 = t * m /\ 0 \in 0..(t - 1) /\ m \in Int
    BY <1>2
  <2>2. (t * m + 0) % t = 0
    BY <1>2, <2>1, DivisionOf
  <2>3. QED
    BY <2>1, <2>2
<1>5. QED
  BY <1>2, <1>3, <1>4 DEF Held, AmountOf, t, s

\* Products of words are exact in the wider format.
LEMMA ProductStands ==
  ASSUME NEW neg, NEW a \in Nat \ {0}, NEW b \in Nat \ {0}, Small(a), Small(b),
         NEW ea \in Int, NEW eb \in Int, ea >= LEAST, eb >= LEAST
  PROVE  Stands(Wide(neg, a * b, 1, ea + eb), neg, (a * 2^(ea - LEAST)) * (b * 2^(eb - LEAST)), ONE, TRUE)
<1> DEFINE exp == ea + eb
           i == ea - LEAST
           j == eb - LEAST
           k == exp - NoLeast
           one == -LEAST
           s == 2^i
           t == 2^j
           r == 2^k
           y == 2^one
           g == 2^GAP
           m == a * b
           num == (a * s) * (b * t)
<1>1. /\ exp \in Int /\ i \in Nat /\ j \in Nat /\ k \in Nat /\ one \in Nat /\ GAP \in Nat
      /\ k + one = (i + j) + GAP /\ exp >= NoLeast
  <2>1. /\ LEAST \in Int /\ LEAST < 0 /\ BIAS \in Nat /\ NoLeast \in Int /\ GAP \in Nat /\ NoLeast = LEAST - GAP
        /\ WIDE \in Nat /\ NoLeast = 2 * LEAST - BIAS - 2 * WIDE
    BY FieldSizes, GapIs, FpuAssumption DEF NoLeast
  <2>2. QED
    BY <2>1
<1> HIDE DEF exp, i, j, k, one
<1>2. s \in Nat \ {0} /\ t \in Nat \ {0} /\ r \in Nat \ {0} /\ y \in Nat \ {0} /\ g \in Nat \ {0}
  BY <1>1, PowerPositive
<1>3. r * y = (s * t) * g
  <2>1. 2^(k + one) = r * y
    BY <1>1, PowersMultiply
  <2> DEFINE ij == i + j
  <2>2. ij \in Nat /\ 2^ij = s * t
    BY <1>1, PowersMultiply
  <2>3. k + one = ij + GAP
    BY <1>1
  <2> HIDE DEF ij
  <2>4. 2^(ij + GAP) = 2^ij * g
    BY <1>1, <2>2, PowersMultiply
  <2>5. QED
    BY <2>1, <2>2, <2>3, <2>4
<1>4. m \in Nat \ {0} /\ Few(m)
  <2> DEFINE p == 2^PRECISION
             w == 2^WIDE
             d == PRECISION + PRECISION
  <2>1. PRECISION \in Nat /\ WIDE \in Nat /\ d \in Nat /\ d <= WIDE
    BY FpuAssumption
  <2>2. p \in Nat /\ w \in Nat /\ 2^d = p * p
    BY <2>1, PowerPositive, PowersMultiply
  <2>3. 2^d <= w
    <3> HIDE DEF d
    <3>1. QED
      BY <2>1, PowerOrder
  <2>4. a < p /\ b < p
    BY DEF Small
  <2> HIDE DEF p, w, d
  <2>5. p * p \in Nat /\ p * p <= w
    BY <2>2, <2>3
  <2>6. a * b \in Nat \ {0} /\ a * b < p * p
    <3>1. a * b <= a * p /\ a * p = p * a
      BY <2>2, <2>4, ProductMonotone
    <3>2. p * (a + 1) <= p * p /\ p * (a + 1) = p * a + p
      BY <2>2, <2>4, ProductMonotone
    <3>3. a * b \in Nat \ {0} /\ p * a \in Nat
      BY <2>2, SMT
    <3> DEFINE x == a * b
               z == p * a
               c == p * p
    <3>4. x \in Nat /\ z \in Nat /\ c \in Nat /\ x <= z /\ z + p <= c /\ p > 0
      BY <2>2, <2>4, <2>5, <3>1, <3>2, <3>3
    <3> HIDE DEF x, z, c
    <3>5. x < c
      BY <2>2, <3>4
    <3>6. QED
      BY <3>3, <3>5 DEF x, c
  <2> DEFINE x == a * b
             c == p * p
  <2>7. x < c /\ c <= w /\ x \in Nat /\ c \in Nat
    BY <2>5, <2>6
  <2> HIDE DEF x, c
  <2>8. x < w
    BY <2>2, <2>7
  <2>9. QED
    BY <2>6, <2>8 DEF x, w, Few
<1>5. Held(AmountOf(m, exp), k)
  <2> HIDE DEF m
  <2>1. Held(AmountOf(m, exp), exp - NoLeast)
    BY <1>1, <1>4, FewHeld
  <2>2. QED
    BY <2>1 DEF k
<1>6. ONE = y
  BY DEF ONE, y, one
<1> HIDE DEF s, t, r, y, g
<1>7. num \in Nat /\ ONE \in Nat \ {0}
  BY <1>2, <1>6, SMT
<1>8. SameAs(AmountOf(m, exp), num, ONE)
  <2>1. ((a * b) * r) * y = (a * b) * (r * y) /\ ((a * s) * (b * t)) * g = (a * b) * ((s * t) * g)
    BY <1>2, SMT
  <2>2. ((a * b) * r) * y = ((a * s) * (b * t)) * g
    BY <1>3, <2>1
  <2>3. QED
    BY <1>6, <2>2 DEF SameAs, AmountOf, r, k, g
<1> HIDE DEF m, num
<1>9. Stands(Wide(neg, m, 1, exp), neg, num, ONE, TRUE)
  BY <1>1, <1>4, <1>5, <1>7, <1>8, ExactStands
<1>10. QED
  BY <1>9 DEF m, exp, num, s, t, i, j

\* Integers that the wider format has are exact in it.
LEMMA IntegerStands ==
  ASSUME NEW neg, NEW n \in Nat \ {0}, Few(n)
  PROVE  Stands(Wide(neg, n, 1, 0), neg, n * ONE, 1, TRUE)
<1> DEFINE one == -LEAST
           exp == 0
           unit == 1
           k == exp - NoLeast
           y == 2^one
           g == 2^GAP
           num == n * ONE
<1>1. one \in Nat /\ GAP \in Nat /\ k \in Nat /\ k = one + GAP /\ exp >= NoLeast /\ exp \in Int
  BY FieldSizes, GapIs
<1> HIDE DEF one, k, exp
<1>2. y \in Nat \ {0} /\ g \in Nat \ {0} /\ 2^(one + GAP) = y * g
  BY <1>1, PowerPositive, PowersMultiply
<1>3. ONE = y
  BY DEF ONE, y, one
<1>4. Held(AmountOf(n, exp), k)
  BY <1>1, FewHeld DEF k
<1>5. 2^k = y * g
  BY <1>1, <1>2
<1>6. SameAs(AmountOf(n, exp), num, 1)
  <2> HIDE DEF y, g
  <2>1. (n * (y * g)) * 1 = (n * y) * g
    BY <1>2, SMT
  <2>2. (n * 2^k) * 1 = num * g
    BY <1>3, <1>5, <2>1
  <2>3. QED
    BY <2>2 DEF SameAs, AmountOf, k, g
<1>7. num \in Nat
  <2> HIDE DEF y
  <2>1. n * y \in Nat
    BY <1>2
  <2>2. QED
    BY <1>3, <2>1
<1> HIDE DEF num
<1>8. unit \in Nat \ {0} /\ SameAs(AmountOf(n, exp), num, unit)
  BY <1>6
<1> HIDE DEF unit
<1>9. Stands(Wide(neg, n, 1, exp), neg, num, unit, TRUE)
  BY <1>1, <1>4, <1>7, <1>8, ExactStands
<1>10. QED
  BY <1>9 DEF num, exp, unit

-----------------------------------------------------------------------------
(* Sums.                                                                    *)

\* A number of more bits than the wider format has loses the last ones.
LEMMA WideRounds ==
  ASSUME NEW neg, NEW n \in Nat \ {0}, ~Few(n), NEW exp \in Int, exp >= NoLeast
  PROVE  \E c \in Nat, q \in Nat :
           Wide(neg, n, 1, exp) = Number(neg, q, exp + c) /\ q # 0 /\ Near(n, 2^c, q) /\ Full(n, 2^c)
<1> DEFINE L == Bits(n)
           c == L - WIDE
           low == WIDE - 1
           u == 2^c
<1>1. WIDE \in Nat \ {0} /\ NoLeast \in Int /\ low \in Nat
  BY FpuAssumption, GapIs
<1>2. L \in Nat \ {0} /\ n < 2^L /\ n >= 2^(L - 1)
  BY BitsAre
<1> HIDE DEF L
<1>3. L > WIDE
  <2> DEFINE w == 2^WIDE
             l == 2^L
  <2>1. L <= WIDE => l <= w
    BY <1>1, <1>2, PowerOrder
  <2>2. w \in Nat /\ l \in Nat
    BY <1>1, <1>2, PowerPositive
  <2>3. n < l /\ ~(n < w)
    BY <1>2 DEF Few
  <2> HIDE DEF w, l
  <2>4. QED
    BY <1>1, <1>2, <2>1, <2>2, <2>3
<1>4. c \in Nat /\ L - 1 = low + c
  BY <1>1, <1>2, <1>3
<1>5. PICK q, k : RoundsTo(neg, n, exp, WIDE, NoLeast, q, k) /\ RoundsBy(n, exp, WIDE, NoLeast, q, k)
  BY <1>1, RoundedBy
<1>6. /\ Wide(neg, n, 1, exp) = Number(neg, q, exp - k) /\ q \in Nat /\ q >= 1 /\ k \in Int
      /\ k < 0 => q = HalfEven(n, 2^(-k))
      /\ k <= WIDE - L
      /\ k = WIDE - L \/ exp - k = NoLeast
  BY <1>5, Zenon DEF RoundsTo, RoundsBy, Wide, L
<1>7. k = WIDE - L /\ k < 0 /\ -k = c /\ exp - k = exp + c
  <2>1. k \in Int /\ k <= WIDE - L /\ (k = WIDE - L \/ exp - k = NoLeast)
    BY <1>6
  <2>2. L \in Nat
    BY <1>2
  <2>3. QED
    BY <1>1, <1>3, <2>1, <2>2
<1> HIDE DEF c, low
<1>8. q = HalfEven(n, u) /\ u \in Nat \ {0}
  BY <1>4, <1>6, <1>7, PowerPositive
<1>9. Near(n, u, q)
  <2> HIDE DEF u
  <2>1. Near(n, u, HalfEven(n, u))
    BY <1>8, HalfEvenNear
  <2> DEFINE h == HalfEven(n, u)
  <2> HIDE DEF h
  <2>2. Near(n, u, h) /\ q = h
    BY <1>8, <2>1 DEF h
  <2>3. QED
    BY <2>2
<1>10. Full(n, u)
  <2>1. 2^(low + c) = 2^low * u
    BY <1>1, <1>4, PowersMultiply
  <2>2. 2^(L - 1) = 2^low * u
    BY <1>4, <2>1
  <2>3. 2^low * u <= n
    BY <1>2, <2>2, <1>1, <1>4, PowerPositive
  <2>4. QED
    BY <2>3, Zenon DEF Full, NoLess, low
<1>11. Wide(neg, n, 1, exp) = Number(neg, q, exp + c) /\ q \in Nat /\ q # 0
  <2>1. Wide(neg, n, 1, exp) = Number(neg, q, exp - k) /\ q \in Nat /\ q >= 1 /\ exp - k = exp + c
    BY <1>6, <1>7
  <2>2. QED
    BY <2>1
<1>12. c \in Nat /\ q \in Nat
  BY <1>4, <1>11
<1>13. QED
  BY <1>9, <1>10, <1>11, <1>12, Zenon

\* A sum whose last bits are lost is near to no point of few bits but its larger operand.
LEMMA SumClear ==
  ASSUME NEW n \in Nat, NEW c \in Nat, Full(n, 2^c),
         NEW a \in Nat, NEW b \in Nat, Small(a), Small(b), NEW x \in Nat,
         NEW big, big = a * 2^x, n <= big + b, big <= n + b,
         NEW s \in Nat, NEW point, point # 2 * (big * 2^s)
  PROVE  Clear(n, 2^c, c + s, point)
<1> DEFINE p == PRECISION
           u == 2^c
           r == 2^s
           f == 2^p
           w == 2^(p + 1)
           t == w * u
           low == WIDE - 1
           top == 2^low
<1>1. p \in Nat /\ p + 1 \in Nat /\ low \in Nat /\ p + p <= low
  BY FpuAssumption
<1>2. /\ u \in Nat \ {0} /\ r \in Nat \ {0} /\ f \in Nat \ {0} /\ w = 2 * f /\ w \in Nat \ {0}
      /\ top \in Nat \ {0} /\ f * f <= top /\ f * f \in Nat
  <2>1. u \in Nat \ {0} /\ r \in Nat \ {0} /\ f \in Nat \ {0} /\ w = 2 * f /\ top \in Nat \ {0}
    BY <1>1, PowerPositive, PowerDoubles
  <2>2. 2^(p + p) = f * f
    BY <1>1, PowersMultiply
  <2> DEFINE pp == p + p
  <2>3. pp \in Nat /\ pp <= low
    BY <1>1
  <2> HIDE DEF pp, low
  <2>4. 2^pp <= top
    BY <1>1, <2>3, PowerOrder
  <2> HIDE DEF u, r, f, w, top
  <2>5. f * f \in Nat /\ w \in Nat \ {0}
    BY <2>1
  <2>6. QED
    BY <2>1, <2>2, <2>4, <2>5 DEF pp
<1>3. a < f /\ b < f
  BY DEF Small
<1>4. top * u <= n
  BY Zenon DEF Full, NoLess, top, low, u
<1> HIDE DEF low, top, w
<1>5. x >= c + (p + 1)
  <2> SUFFICES ASSUME ~(x >= c + (p + 1)) PROVE FALSE
    OBVIOUS
  <2> DEFINE cp == c + p
             y == f * u
  <2>1. cp \in Nat /\ x <= cp
    BY <1>1
  <2> HIDE DEF cp
  <2>2. 2^x <= 2^cp
    BY <2>1, PowerOrder
  <2>3. 2^cp = u * f
    BY <1>1, PowersMultiply DEF cp
  <2>4. y \in Nat \ {0} /\ 2^x <= y /\ 2^x \in Nat
    <3>1. 2^x \in Nat
      BY PowerPositive
    <3> DEFINE z == 2^x
    <3> HIDE DEF z, u, f
    <3>2. u * f = f * u /\ f * u \in Nat \ {0}
      BY <1>2, SMT
    <3>3. QED
      BY <2>2, <2>3, <3>1, <3>2 DEF z, u, f
  <2> DEFINE z == 2^x
  <2> HIDE DEF u, f, r, z
  <2>5. a * z <= a * y
    BY <2>4, ProductMonotone DEF z
  <2>6. y * (a + 1) <= y * f /\ y * (a + 1) = y * a + y /\ y * a = a * y
    <3> HIDE DEF y
    <3>1. QED
      BY <1>2, <1>3, <2>4, ProductMonotone
  <2>7. f * 1 <= f * u
    BY <1>2, ProductMonotone
  <2>8. y * f = u * (f * f) /\ u * (f * f) <= u * top /\ u * top = top * u
    BY <1>2, ProductMonotone
  <2> DEFINE az == a * z
             ay == a * y
             yf == y * f
             tu == top * u
  <2>9. az \in Nat /\ ay \in Nat /\ yf \in Nat /\ tu \in Nat
    <3> HIDE DEF y
    <3>1. QED
      BY <1>2, <2>4 DEF z
  <2>10. az <= ay /\ ay + y <= yf /\ f <= y /\ yf <= tu /\ tu <= n /\ n <= az + b
    BY <1>2, <1>4, <2>5, <2>6, <2>7, <2>8 DEF z
  <2> HIDE DEF az, ay, yf, tu, y
  <2>11. QED
    BY <1>2, <1>3, <2>4, <2>9, <2>10
<1> DEFINE z == x - (c + (p + 1))
           h == 2^z
           e == a * h
<1>6. z \in Nat /\ x = z + (c + (p + 1))
  BY <1>1, <1>5
<1>7. big = e * t /\ e \in Nat /\ t \in Nat \ {0}
  <2> DEFINE cp == c + (p + 1)
  <2>1. cp \in Nat /\ x = z + cp
    BY <1>1, <1>6
  <2>2. 2^cp = u * w
    <3> DEFINE o == p + 1
    <3>1. o \in Nat
      BY <1>1
    <3> HIDE DEF o
    <3>2. 2^(c + o) = u * 2^o
      BY <3>1, PowersMultiply
    <3>3. QED
      BY <3>2 DEF o, w
  <2> HIDE DEF z, cp
  <2>3. 2^x = h * 2^cp
    BY <1>6, <2>1, PowersMultiply
  <2>4. h \in Nat \ {0}
    BY <1>6, PowerPositive
  <2> HIDE DEF u, h
  <2>5. a * (h * (u * w)) = (a * h) * (w * u) /\ a * h \in Nat /\ w * u \in Nat \ {0}
    BY <1>2, <2>4, SMT
  <2>6. QED
    BY <2>2, <2>3, <2>5
<1> HIDE DEF z
<1> DEFINE d == u + 2 * b
<1>8. d \in Nat /\ d < t
  <2> HIDE DEF u, f, r
  <2>1. u * 1 <= u * w /\ (w - 1) * 1 <= (w - 1) * u /\ (w - 1) * u = w * u - u
    BY <1>2, ProductMonotone
  <2> DEFINE wu == w * u
  <2>2. wu \in Nat /\ w - 1 <= wu - u
    BY <1>2, <2>1
  <2> HIDE DEF wu
  <2>3. 2 * b < w - 1
    BY <1>2, <1>3
  <2>4. d \in Nat /\ d < wu
    BY <1>2, <2>2, <2>3
  <2>5. QED
    BY <2>4 DEF wu
<1> HIDE DEF t, e, h
<1>9. ASSUME NEW y \in Nat, point = 2 * ((y * w) * 2^(c + s))
      PROVE  NotNear(n, u, y * w)
  <2> SUFFICES ASSUME 2 * n <= 2 * ((y * w) * u) + u, 2 * ((y * w) * u) <= 2 * n + u PROVE FALSE
    BY Zenon DEF NotNear
  <2> HIDE DEF u, d, r
  <2>1. (y * w) * u = y * t
    BY <1>2, SMT DEF t
  <2> DEFINE yt == y * t
             et == e * t
  <2>2. yt \in Nat /\ et \in Nat
    BY <1>7
  <2>3. 2 * n <= 2 * yt + u /\ 2 * yt <= 2 * n + u /\ n <= et + b /\ et <= n + b
    BY <1>7, <2>1
  <2> HIDE DEF yt, et
  <2>4. 2 * et <= 2 * yt + d /\ 2 * yt <= 2 * et + d
    BY <1>2, <2>2, <2>3 DEF d
  <2>5. e = y
    <3>1. 2 * (e * t) <= 2 * (y * t) + d /\ 2 * (y * t) <= 2 * (e * t) + d => e = y
      BY <1>7, <1>8, MultiplesApart
    <3>2. QED
      BY <2>4, <3>1 DEF et, yt
  <2>6. 2^(c + s) = u * r
    BY PowersMultiply DEF u, r
  <2>7. (y * w) * (u * r) = (y * t) * r
    BY <1>2, SMT DEF t
  <2>8. point = 2 * (big * r)
    BY <1>7, <1>9, <2>5, <2>6, <2>7
  <2>9. QED
    BY <2>8 DEF r
<1>10. QED
  BY <1>9, Zenon DEF Clear, w, p, u

LEMMA ProductHeld ==
  ASSUME NEW n \in Nat, NEW j \in Nat, Held(n, j), NEW i \in Nat
  PROVE  Held(n * 2^i, j + i)
<1> DEFINE w == WIDE + j
           u == 2^j
           g == 2^i
           l == 2^w
           z == n \div u
<1>1. w \in Nat
  BY FpuAssumption
<1>2. 2^(j + i) = u * g /\ u \in Nat \ {0} /\ g \in Nat \ {0}
  BY PowersMultiply, PowerPositive
<1>3. 2^(WIDE + (j + i)) = l * g /\ l \in Nat \ {0}
  <2>1. WIDE + (j + i) = w + i
    BY FpuAssumption
  <2> HIDE DEF w
  <2>2. 2^(w + i) = l * g /\ l \in Nat \ {0}
    BY <1>1, PowersMultiply, PowerPositive
  <2>3. QED
    BY <2>1, <2>2
<1>4. n % u = 0 /\ n < l
  BY DEF Held
<1> HIDE DEF u, g, l
<1>5. z \in Nat /\ n = u * z
  BY <1>2, <1>4, MultipleIs
<1> HIDE DEF z
<1>6. (n * g) % (u * g) = 0
  <2> DEFINE ug == u * g
  <2>1. ug \in Nat \ {0} /\ n * g = ug * z + 0
    <3>1. (u * z) * g = (u * g) * z + 0 /\ u * g \in Nat \ {0}
      BY <1>2, <1>5, SMT
    <3>2. QED
      BY <1>5, <3>1
  <2> HIDE DEF ug
  <2>2. 0 \in 0..(ug - 1) /\ z \in Int
    BY <1>5, <2>1
  <2>3. (ug * z + 0) % ug = 0
    BY <2>1, <2>2, DivisionOf
  <2>4. QED
    BY <2>1, <2>3 DEF ug
<1>7. n * g < l * g
  <2>1. g * (n + 1) <= g * l /\ g * (n + 1) = n * g + g /\ g * l = l * g
    BY <1>2, <1>3, <1>4, ProductMonotone
  <2> DEFINE x == n * g
             y == l * g
  <2>2. x \in Nat /\ y \in Nat /\ x + g <= y
    BY <1>2, <1>3, <2>1
  <2> HIDE DEF x, y
  <2>3. x < y
    BY <1>2, <2>2
  <2>4. QED
    BY <2>3 DEF x, y
<1>8. QED
  BY <1>2, <1>3, <1>6, <1>7 DEF Held, g

\* Sums that the wider format holds, among them all words.
LEMMA HoldsWhen ==
  ASSUME NEW n \in Nat \ {0}, NEW j \in Nat, Held(n, j)
  PROVE  WideHolds(n)
<1> DEFINE u == 2^j
           b == Bits(n)
           l == 2^b
           z == n \div u
<1>1. u \in Nat \ {0} /\ b \in Nat /\ l \in Nat /\ n < l
  <2>1. b \in Nat /\ n < l
    BY BitsAre
  <2> HIDE DEF b
  <2>2. QED
    BY <2>1, PowerPositive
<1>2. n % u = 0
  BY DEF Held
<1>3. z \in Nat /\ n = u * z
  <2> HIDE DEF u
  <2>1. QED
    BY <1>1, <1>2, MultipleIs
<1>4. u <= n
  <2> HIDE DEF u, z
  <2>1. z >= 1
    <3> SUFFICES ASSUME z = 0 PROVE FALSE
      BY <1>3
    <3>1. u * 0 = 0
      BY <1>1
    <3>2. QED
      BY <1>3, <3>1
  <2>2. u * 1 <= u * z
    BY <1>1, <1>3, <2>1, ProductMonotone
  <2>3. QED
    BY <1>1, <1>3, <2>2
<1>5. b <= j => l <= u
  <2> HIDE DEF b
  <2>1. QED
    BY <1>1, PowerOrder
<1>6. j \in 0..b
  <2> HIDE DEF u, l, b, z
  <2>1. QED
    BY <1>1, <1>4, <1>5
<1>7. Magnitude(n) = n
  BY DEF Magnitude
<1>8. n % 2^j = 0 /\ n < 2^(WIDE + j)
  BY Zenon DEF Held
<1>9. QED
  BY <1>6, <1>7, <1>8, Zenon DEF WideHolds, b

LEMMA HoldsAre ==
  ASSUME NEW n \in Nat \ {0}, WideHolds(n)
  PROVE  \E j \in Nat : Held(n, j)
<1>1. Magnitude(n) = n /\ 0..Bits(n) \subseteq Nat
  BY BitsAre DEF Magnitude
<1>2. PICK j \in 0..Bits(n) : n % 2^j = 0 /\ n < 2^(WIDE + j)
  BY <1>1, Zenon DEF WideHolds
<1>3. QED
  BY <1>1, <1>2, Zenon DEF Held

LEMMA LevelHolds ==
  ASSUME NEW k \in Nat, Level(k) # 0
  PROVE  WideHolds(Level(k))
<1>1. PICK q \in Nat, j \in Nat : Place(q, j) /\ q < 2 * FRACTIONS /\ k = FRACTIONS * j + q
  BY PlaceOf
<1> DEFINE n == FRACTIONS * j + q
<1>2. Level(n) = q * 2^j /\ k = n
  BY <1>1, LevelOfPlace
<1>3. Level(k) \in Nat \ {0}
  BY LevelOrder
<1> HIDE DEF n
<1>4. Level(k) = q * 2^j
  BY <1>2
<1>5. Held(q, 0)
  <2>1. PRECISION \in Nat /\ WIDE \in Nat /\ PRECISION <= WIDE /\ WIDE + 0 = WIDE
    BY FpuAssumption
  <2> DEFINE p == 2^PRECISION
             w == 2^WIDE
             f == 2 * FRACTIONS
  <2>2. p <= w /\ p \in Nat /\ w \in Nat
    BY <2>1, PowerOrder, PowerPositive
  <2>3. p = f
    BY FieldSizes
  <2>4. q < f
    BY <1>1
  <2> HIDE DEF p, w, f
  <2>5. q < w
    BY <2>2, <2>3, <2>4
  <2>6. 2^0 = 1 /\ q % 1 = 0
    OBVIOUS
  <2>7. QED
    BY <2>1, <2>5, <2>6 DEF Held, w
<1>6. Held(q * 2^j, 0 + j)
  BY <1>5, ProductHeld
<1>7. QED
  BY <1>3, <1>4, <1>6, HoldsWhen

LEMMA StandsWeaker ==
  ASSUME NEW x, NEW neg, NEW num, NEW den, NEW precise, NEW known, Stands(x, neg, num, den, known), precise => known
  PROVE  Stands(x, neg, num, den, precise)
<1>1. PICK m \in Nat, e \in Int :
        /\ x = Whole(neg, m, e) /\ Odd(m) /\ e >= NoLeast
        /\ Apart(AmountOf(m, e), num, den)
        /\ \A k \in Nat : num = Level(k) * den => AmountOf(m, e) = Mark(k)
        /\ known => \A k \in Nat : AmountOf(m, e) = Mark(k) => num = Level(k) * den
  BY Zenon DEF Stands
<1>2. precise => \A k \in Nat : AmountOf(m, e) = Mark(k) => num = Level(k) * den
  BY <1>1, Zenon
<1>3. QED
  BY <1>1, <1>2, Zenon DEF Stands

LEMMA LeastLess ==
  ASSUME NEW exp \in Int, exp >= NoLeast, NEW c \in Nat
  PROVE  exp + c \in Int /\ exp + c >= NoLeast /\ (exp + c) - NoLeast = c + (exp - NoLeast)
BY GapIs

LEMMA UnitsBelow ==
  ASSUME NEW exp \in Int, exp >= LEAST
  PROVE  /\ exp - LEAST \in Nat /\ GAP \in Nat /\ exp - NoLeast \in Nat /\ exp >= NoLeast
         /\ exp - NoLeast = (exp - LEAST) + GAP
<1>1. LEAST \in Int
  BY FieldSizes
<1>2. QED
  BY <1>1, GapIs

LEMMA WideRoundsAs ==
  ASSUME NEW neg, NEW n \in Nat \ {0}, NEW exp \in Int, exp >= NoLeast, NEW c \in Nat, NEW q \in Nat \ {0},
         Wide(neg, n, 1, exp) = Number(neg, q, exp + c), NEW num, NEW den,
         Apart(q * 2^(c + (exp - NoLeast)), num, den), \A k \in Nat : num # Level(k) * den
  PROVE  Stands(Wide(neg, n, 1, exp), neg, num, den, FALSE)
<1> DEFINE f == exp + c
           d == c + (exp - NoLeast)
<1>1. f \in Int /\ f >= NoLeast /\ f - NoLeast = d
  BY LeastLess, Zenon
<1> HIDE DEF f, d
<1>2. PICK m \in Nat, e \in Int :
         /\ Number(neg, q, f) = Whole(neg, m, e) /\ Odd(m) /\ e >= NoLeast
         /\ m * 2^(e - NoLeast) = q * 2^(f - NoLeast)
  BY <1>1, NumberOfAmount
<1>3. AmountOf(m, e) = q * 2^d
  BY <1>1, <1>2 DEF AmountOf
<1>4. Wide(neg, n, 1, exp) = Whole(neg, m, e)
  BY <1>2 DEF f
<1> DEFINE amount == q * 2^d
<1>5. Apart(amount, num, den)
  BY DEF d
<1> HIDE DEF amount
<1>6. Apart(AmountOf(m, e), num, den)
  BY <1>3, <1>5 DEF amount
<1>7. QED
  BY <1>2, <1>4, <1>6, StandsAs

\* Sums of words are rounded once, or are exact.
LEMMA SumStands ==
  ASSUME NEW neg, NEW n \in Nat \ {0}, NEW exp \in Int, exp >= LEAST,
         NEW a \in Nat, NEW b \in Nat, Small(a), Small(b), NEW x \in Nat,
         NEW big, big = a * 2^x, n <= big + b, big <= n + b,
         NEW k \in Nat, big * 2^(exp - LEAST) = Level(k)
  PROVE  Stands(Wide(neg, n, 1, exp), neg, n * 2^(exp - LEAST), 1, WideHolds(n * 2^(exp - LEAST)))
<1> DEFINE i == exp - LEAST
           s == 2^i
           num == n * s
           r == exp - NoLeast
           t == 2^r
           g == 2^GAP
           amount == AmountOf(n, exp)
           one == 1
           x1 == Wide(neg, n, 1, exp)
<1>1. i \in Nat /\ GAP \in Nat /\ r \in Nat /\ r = i + GAP /\ exp >= NoLeast /\ r = exp - NoLeast
  BY UnitsBelow, Zenon
<1> HIDE DEF i, r
<1>2. s \in Nat \ {0} /\ t \in Nat \ {0} /\ g \in Nat \ {0} /\ t = s * g
  <2>1. 2^(i + GAP) = s * g
    BY <1>1, PowersMultiply
  <2>2. QED
    BY <1>1, <2>1, PowerPositive
<1>3. amount = n * t
  BY DEF AmountOf, t, r
<1>4. num \in Nat \ {0} /\ amount = num * g
  <2> HIDE DEF s, g, t, amount
  <2>1. n * (s * g) = (n * s) * g /\ n * s \in Nat \ {0}
    BY <1>2, SMT
  <2>2. QED
    BY <1>2, <1>3, <2>1
<1>5. SameAs(amount, num, one)
  <2> HIDE DEF num, amount, g
  <2>1. (num * g) * 1 = num * g
    BY <1>2, <1>4
  <2>2. amount * 1 = num * g
    BY <1>4, <2>1
  <2>3. QED
    BY <2>2 DEF SameAs, g
<1>6. one \in Nat \ {0}
  OBVIOUS
<1>7. num = Magnitude(num)
  <2> HIDE DEF num
  <2>1. QED
    BY <1>4 DEF Magnitude
<1>8. CASE WideHolds(num)
  <2> HIDE DEF num, amount, one
  <2>1. PICK j \in Nat : Held(num, j)
    BY <1>4, <1>8, HoldsAre
  <2>2. Held(num * 2^GAP, j + GAP)
    BY <1>1, <1>4, <2>1, ProductHeld
  <2>3. Held(amount, j + GAP) /\ j + GAP \in Nat
    BY <1>1, <1>4, <2>2 DEF g
  <2>4. Held(AmountOf(n, exp), j + GAP) /\ SameAs(AmountOf(n, exp), num, one) /\ num \in Nat
    BY <1>4, <1>5, <2>3 DEF amount
  <2>5. Stands(x1, neg, num, one, TRUE)
    BY <1>1, <1>6, <2>3, <2>4, ExactStands
  <2> HIDE DEF x1
  <2>6. Stands(x1, neg, num, one, WideHolds(num))
    BY <2>5, StandsWeaker, Zenon
  <2>7. QED
    BY <2>6 DEF x1, num, one, s, i
<1>9. CASE ~WideHolds(num)
  <2>1. ~Few(n)
    <3> SUFFICES ASSUME Few(n) PROVE FALSE
      OBVIOUS
    <3>1. Held(n, 0)
      <4>1. WIDE + 0 = WIDE /\ 2^0 = 1 /\ n % 1 = 0
        BY FpuAssumption
      <4>2. n < 2^WIDE
        BY DEF Few
      <4>3. QED
        BY <4>1, <4>2 DEF Held
    <3>2. Held(n * 2^i, 0 + i) /\ 0 + i \in Nat
      BY <1>1, <3>1, ProductHeld
    <3> HIDE DEF num
    <3>3. WideHolds(num)
      BY <1>4, <3>2, HoldsWhen DEF num
    <3>4. QED
      BY <1>9, <3>3
  <2>2. PICK c \in Nat, q \in Nat :
          Wide(neg, n, 1, exp) = Number(neg, q, exp + c) /\ q # 0 /\ Near(n, 2^c, q) /\ Full(n, 2^c)
    BY <1>1, <2>1, WideRounds
  <2> DEFINE v == c + r
             u == 2^c
  <2>3. v \in Nat /\ u \in Nat \ {0}
    BY <1>1, PowerPositive
  <2>4. big * t = Mark(k) /\ big \in Nat
    <3>1. big \in Nat
      <4> DEFINE z == 2^x
      <4>1. z \in Nat
        BY PowerPositive
      <4> HIDE DEF z
      <4>2. a * z \in Nat
        BY <4>1
      <4>3. QED
        BY <4>2 DEF z
    <3>2. big * s = Level(k)
      BY DEF s, i
    <3> HIDE DEF s, t, g
    <3>3. big * (s * g) = (big * s) * g
      BY <1>2, <3>1, SMT
    <3>4. QED
      BY <1>2, <3>1, <3>2, <3>3 DEF Mark, g
  <2>5. ASSUME NEW h \in Nat PROVE Clear(n, u, v, Mark(h) + Mark(h + 1))
    <3> DEFINE point == Mark(h) + Mark(h + 1)
    <3>1. h + 1 \in Nat /\ h < h + 1
      OBVIOUS
    <3>2. k <= h => Mark(k) <= Mark(h)
      BY MarkOrder
    <3>3. h + 1 <= k => Mark(h + 1) <= Mark(k)
      BY <3>1, MarkOrder
    <3>4. Mark(h) < Mark(h + 1) /\ Mark(h) \in Nat /\ Mark(h + 1) \in Nat /\ Mark(k) \in Nat
      BY <3>1, MarkOrder
    <3>5. point # 2 * Mark(k)
      BY <3>2, <3>3, <3>4
    <3> HIDE DEF point, v
    <3>6. point # 2 * (big * 2^r)
      BY <2>4, <3>5 DEF t
    <3>7. Clear(n, 2^c, c + r, point)
      BY <1>1, <2>2, <3>6, SumClear
    <3>8. QED
      BY <3>7 DEF v, point
  <2>6. Quoted(num, one, n, u, v)
    <3>1. 2^v = u * t
      BY <1>1, PowersMultiply
    <3> HIDE DEF num, u, t, v, one
    <3>2. (num * g) * u = one * (n * (u * t))
      <4> HIDE DEF g
      <4>1. (n * t) * u = 1 * (n * (u * t))
        BY <1>2, <2>3, SMT
      <4>2. QED
        BY <1>3, <1>4, <4>1 DEF one
    <3>3. QED
      BY <3>1, <3>2 DEF Quoted, InUnits, g
  <2>7. TellsWhenClear(n, u, v, q * 2^v, num, one)
    <3> HIDE DEF num, one, v
    <3>1. Near(n, u, q) /\ Full(n, u)
      BY <2>2
    <3> HIDE DEF u
    <3>2. QED
      BY <1>4, <1>6, <2>3, <2>6, <3>1, QuotientTells
  <2>8. Apart(q * 2^v, num, one)
    BY <2>5, <2>7, Zenon DEF TellsWhenClear
  <2>9. \A h \in Nat : num # Level(h) * one
    <3> SUFFICES ASSUME NEW h \in Nat, num = Level(h) * one PROVE FALSE
      BY Zenon
    <3> HIDE DEF num
    <3>1. num = Level(h)
      BY LevelOrder
    <3>2. QED
      BY <1>4, <1>9, <3>1, LevelHolds
  <2>10. Stands(x1, neg, num, one, FALSE)
    <3>1. Apart(q * 2^(c + (exp - NoLeast)), num, one) /\ q \in Nat \ {0}
      BY <2>2, <2>8 DEF v, r
    <3> HIDE DEF num, one
    <3>2. QED
      BY <1>1, <2>2, <2>9, <3>1, WideRoundsAs
  <2> HIDE DEF num, one, x1
  <2>11. Stands(x1, neg, num, one, WideHolds(num))
    BY <1>9, <2>10, StandsWeaker, Zenon
  <2>12. QED
    BY <2>11 DEF num, one, s, i, x1
<1>10. QED
  BY <1>8, <1>9

LEMMA UnitsAlone ==
  ASSUME NEW neg \in BOOLEAN, NEW m \in Nat, NEW e \in Int, NEW unit \in Int, unit <= e, unit >= LEAST
  PROVE  LET big == m * 2^(e - unit)
         IN  /\ big \in Nat /\ Units(neg, m, e, unit) \in {big, -big}
             /\ big * 2^(unit - LEAST) = Worth(m, e)
<1> DEFINE c == e - unit
           d == unit - LEAST
           p == 2^c
           t == 2^d
           big == m * p
<1>1. c \in Nat /\ d \in Nat /\ e - LEAST = c + d
  BY FieldSizes
<1> HIDE DEF c, d
<1>2. p \in Nat \ {0} /\ t \in Nat \ {0} /\ 2^(c + d) = p * t
  BY <1>1, PowerPositive, PowersMultiply
<1>3. Worth(m, e) = m * (p * t)
  BY <1>1, <1>2 DEF Worth
<1>4. Units(neg, m, e, unit) = (IF neg THEN -1 ELSE 1) * m * p
  BY DEF Units, c, p
<1> HIDE DEF p, t
<1>6. big \in Nat /\ m * (p * t) = big * t
  BY <1>2, SMT
<1>7. Units(neg, m, e, unit) = (IF neg THEN -big ELSE big)
  <2>1. (-1) * m * p = -big /\ 1 * m * p = big
    BY <1>2, SMT
  <2>2. QED
    BY <1>4, <2>1
<1> HIDE DEF big
<1>9. Units(neg, m, e, unit) \in {big, -big} /\ big * t = Worth(m, e)
  BY <1>3, <1>6, <1>7
<1>10. QED
  BY <1>6, <1>9 DEF big, p, c, t, d

AtLevel(m, e, k) == Worth(m, e) = Level(k)

LEMMA SumSided ==
  ASSUME NEW na \in BOOLEAN, NEW nb \in BOOLEAN, NEW ma \in Nat, NEW mb \in Nat, Small(ma), Small(mb),
         NEW ea \in Int, NEW eb \in Int, eb >= LEAST, eb <= ea, NEW k \in Nat, AtLevel(ma, ea, k),
         NEW size \in Nat \ {0}, NEW less,
         size \in {Units(na, ma, ea, eb) + Units(nb, mb, eb, eb), -(Units(na, ma, ea, eb) + Units(nb, mb, eb, eb))}
  PROVE  LET num == size * 2^(eb - LEAST)
         IN  Stands(Wide(less, size, 1, eb), less, num, 1, WideHolds(num))
<1> DEFINE x == ea - eb
           big == ma * 2^x
           sa == Units(na, ma, ea, eb)
           sb == Units(nb, mb, eb, eb)
           d == eb - LEAST
           t == 2^d
<1>1. x \in Nat
  OBVIOUS
<1>2. big \in Nat /\ sa \in {big, -big} /\ big * t = Worth(ma, ea)
  BY UnitsAlone, Zenon
<1>3. sb \in {mb, -mb}
  <2>1. sb = (IF nb THEN -1 ELSE 1) * mb * 2^(eb - eb)
    BY Zenon DEF Units
  <2>2. eb - eb = 0 /\ 2^0 = 1 /\ (-1) * mb * 1 = -mb /\ 1 * mb * 1 = mb
    OBVIOUS
  <2> HIDE DEF sb
  <2>3. QED
    BY <2>1, <2>2
<1>4. size = sa + sb \/ size = -(sa + sb)
  BY Zenon
<1> HIDE DEF sa, sb
<1>5. size <= big + mb /\ big <= size + mb
  <2>1. big \in Nat /\ (sa = big \/ sa = -big) /\ (sb = mb \/ sb = -mb)
    BY <1>2, <1>3
  <2> HIDE DEF big
  <2>2. QED
    BY <1>4, <2>1
<1>6. big * t = Level(k)
  BY <1>2, Zenon DEF AtLevel
<1> DEFINE b == big
<1> HIDE DEF b
<1>7. b = ma * 2^x /\ size <= b + mb /\ b <= size + mb /\ b * 2^(eb - LEAST) = Level(k)
  BY <1>5, <1>6 DEF b
<1> HIDE DEF x
<1>8. Stands(Wide(less, size, 1, eb), less, size * 2^(eb - LEAST), 1, WideHolds(size * 2^(eb - LEAST)))
  BY <1>1, <1>7, SumStands
<1>9. QED
  BY <1>8

\* A finite operand, which is the k-th word of its sign.
Operand(neg, m, e, k) == /\ neg \in BOOLEAN /\ m \in Nat /\ e \in Int /\ e >= LEAST /\ e <= BIAS
                         /\ Small(m) /\ k \in Nat /\ AtLevel(m, e, k) /\ (m = 0 <=> k = 0)

LEMMA SumOfNone ==
  ASSUME NEW na, NEW ma, NEW ea \in Int, NEW nb, NEW mb, NEW eb \in Int,
         NEW unit, unit = (IF ea < eb THEN ea ELSE eb),
         Units(na, ma, ea, unit) + Units(nb, mb, eb, unit) = 0
  PROVE  Sum(Whole(na, ma, ea), Whole(nb, mb, eb)) = Whole(na /\ nb, 0, 0)
<1> DEFINE a == Whole(na, ma, ea)
           b == Whole(nb, mb, eb)
           sum == Units(na, ma, ea, unit) + Units(nb, mb, eb, unit)
<1>1. /\ a.kind = "finite" /\ a.neg = na /\ a.m = ma /\ a.e = ea
      /\ b.kind = "finite" /\ b.neg = nb /\ b.m = mb /\ b.e = eb
  BY WholeIs
<1>2. sum = 0
  OBVIOUS
<1> HIDE DEF a, b
<1> DEFINE e == IF a.e < b.e THEN a.e ELSE b.e
           Shifted(x) == (IF x.neg THEN -1 ELSE 1) * x.m * 2^(x.e - e)
           total == Shifted(a) + Shifted(b)
           none == Number(a.neg /\ b.neg, 0, 0)
           wide == Wide(total < 0, IF total < 0 THEN -total ELSE total, 1, e)
<1>3. Sum(a, b) = IF IsInfinite(a) THEN (IF IsInfinite(b) /\ a # b THEN NaN ELSE a)
                  ELSE IF IsInfinite(b) THEN b
                  ELSE IF total = 0 THEN none ELSE wide
  BY Zenon DEF Sum
<1>4. ~IsInfinite(a) /\ ~IsInfinite(b)
  BY <1>1 DEF IsInfinite
<1>5. e = unit
  BY <1>1
<1> HIDE DEF e
<1>6. Shifted(a) = Units(na, ma, ea, e) /\ Shifted(b) = Units(nb, mb, eb, e)
  BY <1>1 DEF Units
<1>7. total = sum
  BY <1>5, <1>6
<1> HIDE DEF total, wide
<1>8. Sum(a, b) = none
  BY <1>2, <1>3, <1>4, <1>7
<1>9. none = Whole(na /\ nb, 0, 0)
  <2> DEFINE both == a.neg /\ b.neg
  <2>1. both = (na /\ nb)
    BY <1>1
  <2> HIDE DEF both
  <2>2. Number(both, 0, 0) = Whole(both, 0, 0)
    BY ZeroIs DEF Whole
  <2>3. QED
    BY <2>1, <2>2 DEF both
<1>10. QED
  BY <1>8, <1>9 DEF a, b

\* A sum of finite operands stands for that of their values.
LEMMA SumOfOperands ==
  ASSUME NEW na, NEW ma, NEW ea, NEW i, Operand(na, ma, ea, i),
         NEW nb, NEW mb, NEW eb, NEW j, Operand(nb, mb, eb, j)
  PROVE  LET x == Sum(Whole(na, ma, ea), Whole(nb, mb, eb))
             total == Signing(na, Level(i)) + Signing(nb, Level(j))
         IN  /\ total \in Int
             /\ total = 0 => x = Whole(na /\ nb, 0, 0)
             /\ total # 0 => Stands(x, total < 0, Magnitude(total), 1, WideHolds(total))
<1> DEFINE x == Sum(Whole(na, ma, ea), Whole(nb, mb, eb))
           va == Signing(na, Level(i))
           vb == Signing(nb, Level(j))
           total == va + vb
           unit == IF ea < eb THEN ea ELSE eb
           sa == Units(na, ma, ea, unit)
           sb == Units(nb, mb, eb, unit)
           sum == sa + sb
           size == IF sum < 0 THEN -sum ELSE sum
           less == sum < 0
           d == unit - LEAST
           t == 2^d
<1>1. /\ na \in BOOLEAN /\ ma \in Nat /\ ea \in Int /\ ea >= LEAST /\ Small(ma) /\ i \in Nat /\ AtLevel(ma, ea, i)
      /\ nb \in BOOLEAN /\ mb \in Nat /\ eb \in Int /\ eb >= LEAST /\ Small(mb) /\ j \in Nat /\ AtLevel(mb, eb, j)
  BY DEF Operand
<1>2. unit \in Int /\ unit <= ea /\ unit <= eb /\ unit >= LEAST /\ d \in Nat
  BY <1>1, FieldSizes
<1>3. unit = (IF ea < eb THEN ea ELSE eb)
  OBVIOUS
<1> HIDE DEF unit, d
<1>4. t \in Nat \ {0}
  BY <1>2, PowerPositive
<1>5. sa \in Int /\ sb \in Int /\ sa * t = va /\ sb * t = vb
  <2>1. sa \in Int /\ sa * 2^(unit - LEAST) = Signing(na, Worth(ma, ea))
    BY <1>1, <1>2, UnitsAre
  <2>2. sb \in Int /\ sb * 2^(unit - LEAST) = Signing(nb, Worth(mb, eb))
    BY <1>1, <1>2, UnitsAre
  <2>3. Worth(ma, ea) = Level(i) /\ Worth(mb, eb) = Level(j)
    BY <1>1 DEF AtLevel
  <2>4. QED
    BY <2>1, <2>2, <2>3 DEF t, d
<1> HIDE DEF sa, sb, t, va, vb
<1>6. va \in Int /\ vb \in Int /\ total = sum * t
  <2>1. sa * t \in Int /\ sb * t \in Int /\ (sa + sb) * t = sa * t + sb * t
    BY <1>4, <1>5, SMT
  <2>2. QED
    BY <1>5, <2>1
<1>7. sum \in Int /\ total \in Int
  BY <1>5, <1>6
<1> HIDE DEF sum, total
<1>8. (sum < 0 <=> total < 0) /\ (sum = 0 <=> total = 0)
  <2>1. (sum < 0 <=> sum * t < 0 * t) /\ (sum = 0 <=> sum * t = 0 * t)
    BY <1>4, <1>7, SignOfProduct
  <2>2. 0 * t = 0
    BY <1>4
  <2>3. QED
    BY <1>6, <2>1, <2>2
<1>9. size \in Nat /\ Magnitude(total) = size * t
  <2>1. (-sum) * t = -(sum * t) /\ size \in Nat
    BY <1>4, <1>7, SMT
  <2>2. CASE sum < 0
    <3>1. size = -sum /\ Magnitude(total) = -total
      BY <1>8, <2>2 DEF Magnitude
    <3>2. QED
      BY <1>6, <2>1, <3>1
  <2>3. CASE ~(sum < 0)
    <3>1. size = sum /\ Magnitude(total) = total
      BY <1>8, <2>3 DEF Magnitude
    <3>2. QED
      BY <1>6, <2>1, <3>1
  <2>4. QED
    BY <2>2, <2>3
<1>10. CASE total = 0
  <2>1. sa + sb = 0
    BY <1>8, <1>10 DEF sum
  <2>2. x = Whole(na /\ nb, 0, 0)
    <3>1. Units(na, ma, ea, unit) + Units(nb, mb, eb, unit) = 0
      BY <2>1, Zenon DEF sa, sb
    <3>2. QED
      BY <1>1, <1>3, <3>1, SumOfNone
  <2> HIDE DEF x
  <2>3. total \in Int /\ ~(total # 0)
    BY <1>7, <1>10
  <2>4. QED
    BY <2>2, <2>3, Zenon DEF x, total, va, vb
<1>11. CASE total # 0
  <2>1. sum # 0 /\ size \in Nat \ {0}
    BY <1>7, <1>8, <1>11
  <2>2. x = Wide(less, size, 1, unit)
    <3>1. sum = Units(na, ma, ea, unit) + Units(nb, mb, eb, unit)
      BY Zenon DEF sum, sa, sb
    <3>2. QED
      BY <1>1, <1>3, <2>1, <3>1, SumOfFinite
  <2> DEFINE num == size * 2^(unit - LEAST)
             y == Wide(less, size, 1, unit)
  <2>3. Stands(y, less, num, 1, WideHolds(num))
    <3>1. CASE eb <= ea
      <4>1. unit = eb
        BY <1>1, <1>3, <3>1
      <4>2. size = Units(na, ma, ea, eb) + Units(nb, mb, eb, eb) \/ size = -(Units(na, ma, ea, eb) + Units(nb, mb, eb, eb))
        <5>1. size = sum \/ size = -sum
          OBVIOUS
        <5>2. sum = Units(na, ma, ea, eb) + Units(nb, mb, eb, eb)
          BY <4>1, Zenon DEF sum, sa, sb
        <5> HIDE DEF size
        <5>3. QED
          BY <5>1, <5>2
      <4>3. size \in {Units(na, ma, ea, eb) + Units(nb, mb, eb, eb), -(Units(na, ma, ea, eb) + Units(nb, mb, eb, eb))}
        BY <4>2, Zenon
      <4> HIDE DEF size, less
      <4>4. LET n == size * 2^(eb - LEAST)
            IN  Stands(Wide(less, size, 1, eb), less, n, 1, WideHolds(n))
        BY <1>1, <2>1, <3>1, <4>3, SumSided
      <4>5. QED
        BY <4>1, <4>4
    <3>2. CASE ~(eb <= ea)
      <4>1. unit = ea /\ ea <= eb
        BY <1>1, <1>3, <3>2
      <4>2. size = Units(nb, mb, eb, ea) + Units(na, ma, ea, ea) \/ size = -(Units(nb, mb, eb, ea) + Units(na, ma, ea, ea))
        <5>1. size = sum \/ size = -sum
          OBVIOUS
        <5>2. sa = Units(na, ma, ea, ea) /\ sb = Units(nb, mb, eb, ea)
          BY <4>1, Zenon DEF sa, sb
        <5>3. sum = sb + sa
          BY <1>5 DEF sum
        <5> HIDE DEF size
        <5>4. QED
          BY <5>1, <5>2, <5>3
      <4>3. size \in {Units(nb, mb, eb, ea) + Units(na, ma, ea, ea), -(Units(nb, mb, eb, ea) + Units(na, ma, ea, ea))}
        BY <4>2, Zenon
      <4> HIDE DEF size, less
      <4>4. LET n == size * 2^(ea - LEAST)
            IN  Stands(Wide(less, size, 1, ea), less, n, 1, WideHolds(n))
        BY <1>1, <2>1, <4>1, <4>3, SumSided
      <4>5. QED
        BY <4>1, <4>4
    <3>3. QED
      BY <3>1, <3>2
  <2>4. num = Magnitude(total)
    BY <1>9 DEF t, d
  <2>5. WideHolds(num) <=> WideHolds(total)
    <3>1. Magnitude(num) = Magnitude(total)
      <4>1. num \in Nat
        <5> HIDE DEF size
        <5>1. size * t \in Nat
          BY <1>4, <1>9
        <5>2. QED
          BY <5>1 DEF t, d
      <4> HIDE DEF num
      <4>2. QED
        BY <2>4, <4>1 DEF Magnitude
    <3> HIDE DEF num
    <3>2. QED
      BY <3>1, Zenon DEF WideHolds
  <2> HIDE DEF num, y
  <2>6. Stands(y, less, num, 1, WideHolds(total))
    BY <2>3, <2>5, StandsWeaker, Zenon
  <2>7. less = (total < 0) /\ x = y
    BY <1>8, <2>2 DEF y
  <2> HIDE DEF less, x
  <2>8. Stands(x, total < 0, Magnitude(total), 1, WideHolds(total))
    BY <2>4, <2>6, <2>7
  <2>9. QED
    BY <1>7, <1>11, <2>8, Zenon DEF x, total, va, vb
<1>12. QED
  BY <1>10, <1>11

-----------------------------------------------------------------------------
(* How a calculation ends.                                                  *)

\* What is left of a calculation when its exact result is narrowed to the format.
Finishes(x, exact, precise) ==
  /\ ~IsInfinite(x)
  /\ IsInfinite(Narrow(x)) <=> Overflowing(exact)
  /\ ~Overflowing(exact) =>
       /\ Underflows(x, Narrow(x)) <=> Underflowing(exact)
       /\ \A word \in WordsOf[Narrow(x)] :
            /\ word \in Word /\ Finite(word)
            /\ ~Underflowing(exact) => ~ReservedOperand(FromBits(word)) /\ Nearest(exact, word)
            /\ Value(word) * exact.den = exact.num => Equal(Narrow(x), x)
            /\ precise /\ Equal(Narrow(x), x) => Value(word) * exact.den = exact.num

LEMMA RatioIs ==
  ASSUME NEW neg \in BOOLEAN, NEW num \in Nat \ {0}
  PROVE  Magnitude(Signing(neg, num)) = num /\ Signing(neg, num) # 0
  BY DEF Magnitude, Signing

LEMMA SignedRatio ==
  ASSUME NEW neg \in BOOLEAN, NEW num \in Nat \ {0}, NEW den \in Nat \ {0}, NEW l \in Nat
  PROVE  Signing(neg, l) * den = Signing(neg, num) <=> num = l * den
<1> DEFINE exact == [num |-> Signing(neg, num), den |-> den]
           p == l * den
<1>1. p \in Nat /\ (-l) * den = -p
  <2>1. (-l) * den = -(l * den) /\ l * den \in Nat
    BY SMT
  <2>2. QED
    BY <2>1
<1>2. exact.num = Signing(neg, num) /\ exact.den = den
  OBVIOUS
<1>3. CASE neg
  <2>1. Signing(neg, l) * den = (-l) * den /\ exact.num = -num
    BY <1>2, <1>3 DEF Signing
  <2> HIDE DEF p
  <2>2. Magnitude(-num) = num /\ (-p = -num <=> num = p)
    BY <1>1 DEF Magnitude
  <2>3. QED
    BY <1>1, <1>2, <2>1, <2>2 DEF p
<1>4. CASE ~neg
  <2>1. Signing(neg, l) * den = p /\ exact.num = num
    BY <1>2, <1>4 DEF Signing
  <2> HIDE DEF p
  <2>2. Magnitude(num) = num /\ (p = num <=> num = p)
    BY <1>1 DEF Magnitude
  <2>3. QED
    BY <1>2, <2>1, <2>2 DEF p
<1>5. QED
  BY <1>3, <1>4

\* Every number that stands for an exact result other than zero is right in the end.
LEMMA StandsFinishes ==
  ASSUME NEW x, NEW neg \in BOOLEAN, NEW num \in Nat \ {0}, NEW den \in Nat \ {0}, NEW precise,
         Stands(x, neg, num, den, precise)
  PROVE  Finishes(x, [num |-> Signing(neg, num), den |-> den], precise)
<1> DEFINE exact == [num |-> Signing(neg, num), den |-> den]
<1>1. PICK m \in Nat, e \in Int :
        /\ x = Whole(neg, m, e) /\ Odd(m) /\ e >= NoLeast
        /\ Apart(AmountOf(m, e), num, den)
        /\ \A k \in Nat : num = Level(k) * den => AmountOf(m, e) = Mark(k)
        /\ precise => \A k \in Nat : AmountOf(m, e) = Mark(k) => num = Level(k) * den
  BY Zenon DEF Stands
<1> DEFINE a == AmountOf(m, e)
<1>2. PICK n \in Nat :
        /\ Rounds(a, n)
        /\ IsInfinite(Narrow(x)) <=> ~(n < FINITES)
        /\ n < FINITES => /\ Tiny(Narrow(x)) <=> n < FRACTIONS
                          /\ Equal(Narrow(x), x) <=> a = Mark(n)
                          /\ \A word \in WordsOf[Narrow(x)] :
                               word \in Word /\ Finite(word) /\ Nth(word) = n /\ Negative(word) = neg
  BY <1>1, Narrowed DEF AmountOf
<1>3. a \in Nat
  <2> DEFINE c == e - NoLeast
             p == 2^c
  <2>1. c \in Nat
    BY <1>1, GapIs
  <2> HIDE DEF c
  <2>2. p \in Nat
    BY <2>1, PowerPositive
  <2> HIDE DEF p
  <2>3. m * p \in Nat
    BY <2>2
  <2>4. QED
    BY <2>3 DEF p, c, AmountOf
<1> HIDE DEF a
<1>4. Apart(a, num, den)
  BY <1>1 DEF a
<1>16. Rounds(a, n)
  BY <1>2
<1>5. n < FINITES <=> ~(2 * num >= (2 * LARGEST + LARGEST_ULP) * den)
  BY <1>3, <1>4, <1>16, Overflows
<1>6. n < FRACTIONS <=> 2 * num < (2 * SMALLEST - 1) * den
  BY <1>3, <1>4, <1>16, Flushes
<1>7. Magnitude(exact.num) = num /\ exact.num # 0 /\ exact.den = den
  BY RatioIs
<1>8. n < FINITES <=> ~Overflowing(exact)
  <2> HIDE DEF exact
  <2>1. QED
    BY <1>5, <1>7, Zenon DEF Overflowing
<1>9. n < FRACTIONS <=> Underflowing(exact)
  <2> HIDE DEF exact
  <2>1. QED
    BY <1>6, <1>7, Zenon DEF Underflowing
<1>10. ~IsInfinite(x) /\ ~IsZero(x)
  <2>1. x.kind = "finite" /\ x.m = m
    BY <1>1, WholeIs
  <2>2. m # 0
    BY <1>1 DEF Odd
  <2>3. QED
    BY <2>1, <2>2 DEF IsInfinite, IsZero
<1>11. ASSUME n < FINITES
       PROVE  Underflows(x, Narrow(x)) <=> Underflowing(exact)
  BY <1>2, <1>9, <1>10, <1>11, Zenon DEF Underflows
<1>12. ASSUME n < FINITES, NEW word \in WordsOf[Narrow(x)]
       PROVE  /\ word \in Word /\ Finite(word)
              /\ ~Underflowing(exact) => ~ReservedOperand(FromBits(word)) /\ Nearest(exact, word)
              /\ Value(word) * exact.den = exact.num => Equal(Narrow(x), x)
              /\ precise /\ Equal(Narrow(x), x) => Value(word) * exact.den = exact.num
  <2>1. word \in Word /\ Finite(word) /\ Nth(word) = n /\ Negative(word) = neg
    BY <1>2, <1>12
  <2>2. Value(word) = Signing(neg, Level(n)) /\ (ReservedOperand(FromBits(word)) <=> n # 0 /\ n < FRACTIONS)
    BY <2>1, WordValue
  <2>3. Equal(Narrow(x), x) <=> a = Mark(n)
    BY <1>2, <1>12
  <2>4. Level(n) \in Nat
    BY LevelOrder
  <2>5. Signing(neg, Level(n)) * exact.den = exact.num <=> num = Level(n) * den
    BY <2>4, SignedRatio
  <2>6. (num = Level(n) * den => a = Mark(n)) /\ (precise => (a = Mark(n) => num = Level(n) * den))
    BY <1>1, Zenon DEF a
  <2>7. ASSUME ~Underflowing(exact) PROVE ~ReservedOperand(FromBits(word)) /\ Nearest(exact, word)
    <3>1. ~(n < FRACTIONS)
      BY <1>9, <2>7
    <3>2. n >= FRACTIONS
      BY <3>1, FieldSizes
    <3>3. Nearest([num |-> Signing(neg, num), den |-> den], word)
      BY <1>3, <1>4, <1>16, <2>1, <3>2, NearestWord
    <3>4. QED
      BY <2>2, <3>1, <3>3
  <2> DEFINE value == Value(word) * exact.den
             want == exact.num
  <2>8. value = want <=> num = Level(n) * den
    BY <2>2, <2>5
  <2> HIDE DEF value, want
  <2>9. (value = want => Equal(Narrow(x), x)) /\ (precise /\ Equal(Narrow(x), x) => value = want)
    BY <2>3, <2>6, <2>8, Zenon
  <2>10. QED
    BY <2>1, <2>7, <2>9, Zenon DEF value, want
<1>13. IsInfinite(Narrow(x)) <=> Overflowing(exact)
  BY <1>2, <1>8, Zenon
<1> HIDE DEF exact
<1>14. Finishes(x, exact, precise)
  BY <1>8, <1>10, <1>11, <1>12, <1>13, Zenon DEF Finishes
<1>15. QED
  BY <1>14 DEF exact

LEMMA NothingOverflows ==
  ASSUME NEW den \in Nat \ {0}
  PROVE  ~Overflowing([num |-> 0, den |-> den]) /\ ~Underflowing([num |-> 0, den |-> den])
<1> DEFINE exact == [num |-> 0, den |-> den]
           most == 2 * LARGEST + LARGEST_ULP
<1>1. exact.num = 0 /\ exact.den = den /\ Magnitude(0) = 0
  BY DEF Magnitude
<1>2. most \in Nat \ {0}
  <2>1. LARGEST \in Nat \ {0}
    <3>1. LARGEST \in Nat /\ LARGEST >= 2 * FRACTIONS - 1
      BY LargestIs
    <3>2. FRACTIONS \in Nat \ {0}
      BY FieldSizes
    <3>3. QED
      BY <3>1, <3>2
  <2> DEFINE z == BIAS - PRECISION + 1 - LEAST
  <2>2. z \in Nat
    BY FieldSizes, FpuAssumption
  <2> HIDE DEF z
  <2>3. 2^z \in Nat
    BY <2>2, PowerPositive
  <2>4. LARGEST_ULP \in Nat
    BY <2>3 DEF LARGEST_ULP, z
  <2>5. QED
    BY <2>1, <2>4
<1> HIDE DEF exact, most
<1>3. ~(2 * 0 >= most * den)
  <2>1. most * den \in Nat \ {0}
    BY <1>2, SMT
  <2>2. QED
    BY <2>1
<1>4. ~Overflowing(exact)
  BY <1>1, <1>3 DEF Overflowing, most
<1>5. ~Underflowing(exact)
  BY <1>1, Zenon DEF Underflowing
<1>6. QED
  BY <1>4, <1>5 DEF exact

\* A zero is the nearest to nothing.
LEMMA ZeroFinishes ==
  ASSUME NEW x, NEW neg \in BOOLEAN, x = Whole(neg, 0, 0), NEW den \in Nat \ {0}, NEW precise
  PROVE  Finishes(x, [num |-> 0, den |-> den], precise)
<1> DEFINE exact == [num |-> 0, den |-> den]
<1>1. x.kind = "finite" /\ x.neg = neg /\ x.m = 0 /\ x.e = 0
  BY WholeIs
<1>2. Narrow(x) = x
  BY NarrowZero
<1>3. ~IsInfinite(x) /\ IsZero(x) /\ Equal(x, x)
  BY <1>1 DEF IsInfinite, IsZero, Equal
<1>4. ~Overflowing(exact) /\ ~Underflowing(exact)
  BY NothingOverflows
<1>5. exact.num = 0 /\ exact.den = den
  OBVIOUS
<1>6. ASSUME NEW word \in WordsOf[x]
      PROVE  word \in Word /\ Finite(word) /\ ~ReservedOperand(FromBits(word)) /\ Nearest(exact, word)
             /\ Value(word) * exact.den = exact.num
  <2>1. HasWord(x)
    BY ZeroHasWord DEF Whole
  <2>2. word \in Word /\ FromBits(word) = x
    BY <2>1, WordsAre
  <2>3. Finite(word)
    BY <1>1, <2>2 DEF Finite
  <2>4. Nth(word) = 0 /\ ~ReservedOperand(FromBits(word)) /\ Value(word) = Signing(Negative(word), Level(0))
    BY <1>3, <2>2, <2>3, WordValue
  <2>5. Level(0) = 0
    BY LevelOfNone
  <2>6. Value(word) = 0 /\ 0 * den = 0
    BY <2>4, <2>5 DEF Signing
  <2>7. ASSUME NEW w \in Word, Finite(w), Negative(w) = Negative(word), w # word
        PROVE  Distance(exact, word) < Distance(exact, w)
    <3> DEFINE n == Nth(w)
               l == Level(n)
               p == l * den
    <3>1. n \in Nat /\ n # 0
      <4>1. n \in Nat
        BY WordNth
      <4>2. n # Nth(word)
        BY <2>2, <2>7, WordNth
      <4>3. QED
        BY <2>4, <4>1, <4>2
    <3>2. l \in Nat \ {0}
      <4>1. 0 < n => Level(0) < Level(n)
        BY <3>1, LevelOrder
      <4>2. l \in Nat
        BY <3>1, LevelOrder
      <4>3. QED
        BY <2>5, <3>1, <4>1, <4>2
    <3>3. Value(w) = Signing(Negative(w), l)
      BY <2>7, WordValue
    <3> HIDE DEF l
    <3>4. p \in Nat \ {0} /\ (-l) * den = -p
      <4>1. (-l) * den = -(l * den) /\ l * den \in Nat \ {0}
        BY <3>2, SMT
      <4>2. QED
        BY <4>1
    <3>5. Value(w) * den = p \/ Value(w) * den = -p
      BY <3>3, <3>4 DEF Signing
    <3> HIDE DEF p
    <3>6. Magnitude(0 - p) = p /\ Magnitude(0 - (-p)) = p /\ Magnitude(0 - 0) = 0
      BY <3>4 DEF Magnitude
    <3>7. Distance(exact, w) = p
      BY <1>5, <3>5, <3>6 DEF Distance
    <3>8. Distance(exact, word) = 0
      BY <1>5, <2>6, <3>6 DEF Distance
    <3>9. QED
      BY <3>4, <3>7, <3>8
  <2>8. Nearest(exact, word)
    <3> SUFFICES ASSUME NEW w \in Neighbours(word) PROVE Distance(exact, word) < Distance(exact, w)
      BY Zenon DEF Nearest
    <3>1. w \in Word /\ Finite(w) /\ Negative(w) = Negative(word) /\ w # word
      <4>1. w \in {word - 1, word + 1} /\ w \in Word /\ Finite(w) /\ Negative(w) = Negative(word)
        BY Zenon DEF Neighbours
      <4>2. word \in Int
        BY <2>2 DEF Word
      <4>3. QED
        BY <4>1, <4>2
    <3>2. QED
      BY <2>7, <3>1
  <2>9. QED
    BY <1>5, <2>2, <2>3, <2>4, <2>6, <2>8
<1>7. ~Underflows(x, x)
  BY <1>3, Zenon DEF Underflows
<1> HIDE DEF exact
<1>8. Finishes(x, exact, precise)
  BY <1>2, <1>3, <1>4, <1>6, <1>7, Zenon DEF Finishes
<1>9. QED
  BY <1>8 DEF exact

LEMMA WordOperand ==
  ASSUME NEW word \in Word, Finite(word)
  PROVE  \E m, e : /\ FromBits(word) = Whole(Negative(word), m, e)
                   /\ Operand(Negative(word), m, e, Nth(word))
                   /\ Value(word) = Signing(Negative(word), Level(Nth(word)))
<1> DEFINE x == FromBits(word)
<1>1. /\ x.kind = "finite" /\ x.neg = Negative(word) /\ x.m \in Nat /\ x.e \in Int
      /\ x.e >= LEAST /\ x.e <= BIAS /\ Small(x.m) /\ x = Whole(Negative(word), x.m, x.e)
      /\ x.m * 2^(x.e - LEAST) = Level(Nth(word)) /\ (x.m = 0 <=> Nth(word) = 0)
      /\ Value(word) = Signing(Negative(word), Level(Nth(word)))
  BY OperandIs
<1>2. Negative(word) \in BOOLEAN /\ Nth(word) \in Nat
  BY Fields, WordNth
<1> HIDE DEF x
<1>3. AtLevel(x.m, x.e, Nth(word))
  BY <1>1, Zenon DEF AtLevel, Worth
<1>4. Operand(Negative(word), x.m, x.e, Nth(word))
  BY <1>1, <1>2, <1>3, Zenon DEF Operand
<1>5. QED
  BY <1>1, <1>4, Zenon DEF x

LEMMA SumFinishes ==
  ASSUME NEW na, NEW ma, NEW ea, NEW i, Operand(na, ma, ea, i),
         NEW nb, NEW mb, NEW eb, NEW j, Operand(nb, mb, eb, j)
  PROVE  LET num == Signing(na, Level(i)) + Signing(nb, Level(j))
         IN  Finishes(Sum(Whole(na, ma, ea), Whole(nb, mb, eb)), [num |-> num, den |-> 1], WideHolds(num))
<1> DEFINE x == Sum(Whole(na, ma, ea), Whole(nb, mb, eb))
           num == Signing(na, Level(i)) + Signing(nb, Level(j))
           size == Magnitude(num)
           less == num < 0
           one == 1
<1>1. /\ num \in Int
      /\ num = 0 => x = Whole(na /\ nb, 0, 0)
      /\ num # 0 => Stands(x, num < 0, Magnitude(num), 1, WideHolds(num))
  BY SumOfOperands
<1>2. na \in BOOLEAN /\ nb \in BOOLEAN /\ one \in Nat \ {0}
  BY DEF Operand
<1> HIDE DEF x, num
<1>3. CASE num = 0
  <2> DEFINE both == na /\ nb
  <2>1. both \in BOOLEAN
    BY <1>2
  <2>2. x = Whole(both, 0, 0)
    BY <1>1, <1>3
  <2> HIDE DEF both, one
  <2>3. Finishes(x, [num |-> 0, den |-> one], WideHolds(num))
    BY <1>2, <2>1, <2>2, ZeroFinishes
  <2>4. QED
    BY <1>3, <2>3 DEF x, num, one
<1>4. CASE num # 0
  <2>1. size \in Nat \ {0} /\ less \in BOOLEAN /\ Signing(less, size) = num
    BY <1>1, <1>4 DEF Magnitude, Signing
  <2>2. Stands(x, less, size, one, WideHolds(num))
    BY <1>1, <1>4
  <2> HIDE DEF size, less, one
  <2>3. Finishes(x, [num |-> Signing(less, size), den |-> one], WideHolds(num))
    BY <1>2, <2>1, <2>2, StandsFinishes
  <2>4. QED
    BY <2>1, <2>3 DEF x, num, one
<1>5. QED
  BY <1>3, <1>4

LEMMA WideOfNone ==
  ASSUME NEW neg, NEW den, NEW exp
  PROVE  Wide(neg, 0, den, exp) = Whole(neg, 0, 0)
<1>1. Wide(neg, 0, den, exp) = Number(neg, 0, 0)
  BY Zenon DEF Wide, Rounded
<1>2. QED
  BY <1>1, ZeroIs DEF Whole

LEMMA SignedProduct ==
  ASSUME NEW na \in BOOLEAN, NEW nb \in BOOLEAN, NEW x \in Nat, NEW y \in Nat
  PROVE  Signing(na, x) * Signing(nb, y) = Signing(na # nb, x * y)
<1> DEFINE p == x * y
<1>1. p \in Nat /\ (-x) * y = -p /\ x * (-y) = -p /\ (-x) * (-y) = p
  BY SMT
<1> HIDE DEF p
<1>2. CASE na /\ nb
  BY <1>1, <1>2 DEF Signing, p
<1>3. CASE na /\ ~nb
  BY <1>1, <1>3 DEF Signing, p
<1>4. CASE ~na /\ nb
  BY <1>1, <1>4 DEF Signing, p
<1>5. CASE ~na /\ ~nb
  BY <1>1, <1>5 DEF Signing, p
<1>6. QED
  BY <1>2, <1>3, <1>4, <1>5

LEMMA ProductFinishes ==
  ASSUME NEW na, NEW ma, NEW ea, NEW i, Operand(na, ma, ea, i),
         NEW nb, NEW mb, NEW eb, NEW j, Operand(nb, mb, eb, j)
  PROVE  LET num == Signing(na, Level(i)) * Signing(nb, Level(j))
         IN  Finishes(Product(Whole(na, ma, ea), Whole(nb, mb, eb)), [num |-> num, den |-> ONE], TRUE)
<1> DEFINE x == Product(Whole(na, ma, ea), Whole(nb, mb, eb))
           num == Signing(na, Level(i)) * Signing(nb, Level(j))
           neg == na # nb
           size == Level(i) * Level(j)
           exp == ea + eb
<1>1. /\ na \in BOOLEAN /\ ma \in Nat /\ ea \in Int /\ ea >= LEAST /\ Small(ma) /\ i \in Nat /\ AtLevel(ma, ea, i)
      /\ nb \in BOOLEAN /\ mb \in Nat /\ eb \in Int /\ eb >= LEAST /\ Small(mb) /\ j \in Nat /\ AtLevel(mb, eb, j)
      /\ (ma = 0 <=> i = 0) /\ (mb = 0 <=> j = 0)
  BY DEF Operand
<1>2. neg \in BOOLEAN /\ Level(i) \in Nat /\ Level(j) \in Nat
  BY <1>1, LevelOrder
<1>3. num = Signing(neg, size) /\ size \in Nat
  <2> DEFINE a == Level(i)
             b == Level(j)
  <2>1. a \in Nat /\ b \in Nat
    BY <1>2
  <2> HIDE DEF a, b
  <2>2. Signing(na, a) * Signing(nb, b) = Signing(na # nb, a * b)
    BY <1>1, <2>1, SignedProduct
  <2>3. a * b \in Nat
    BY <2>1
  <2>4. QED
    BY <2>2, <2>3 DEF a, b
<1>4. ONE \in Nat \ {0}
  BY FieldSizes, PowerPositive DEF ONE
<1>5. x = Wide(neg, ma * mb, 1, exp)
  <2> DEFINE a == Whole(na, ma, ea)
             b == Whole(nb, mb, eb)
  <2>1. /\ a.kind = "finite" /\ a.neg = na /\ a.m = ma /\ a.e = ea
        /\ b.kind = "finite" /\ b.neg = nb /\ b.m = mb /\ b.e = eb
    BY WholeIs
  <2> HIDE DEF a, b
  <2>2. ~IsInfinite(a) /\ ~IsInfinite(b)
    BY <2>1 DEF IsInfinite
  <2>3. Product(a, b) = Wide(a.neg # b.neg, a.m * b.m, 1, a.e + b.e)
    BY <2>2 DEF Product
  <2>4. QED
    BY <2>1, <2>3 DEF a, b
<1> HIDE DEF x, neg
<1>6. CASE ma = 0 \/ mb = 0
  <2>1. ma * mb = 0
    BY <1>1, <1>6
  <2>2. x = Whole(neg, 0, 0)
    BY <1>5, <2>1, WideOfNone
  <2>3. num = 0
    <3>1. Level(0) = 0
      BY LevelOfNone
    <3>2. Level(i) = 0 \/ Level(j) = 0
      BY <1>1, <1>6, <3>1
    <3>3. size = 0
      BY <1>2, <3>2
    <3>4. QED
      BY <1>3, <3>3 DEF Signing
  <2> HIDE DEF num
  <2>4. Finishes(x, [num |-> 0, den |-> ONE], TRUE)
    BY <1>2, <1>4, <2>2, ZeroFinishes
  <2>5. QED
    BY <2>3, <2>4 DEF x, num
<1>7. CASE ma # 0 /\ mb # 0
  <2>1. Stands(Wide(neg, ma * mb, 1, exp), neg, (ma * 2^(ea - LEAST)) * (mb * 2^(eb - LEAST)), ONE, TRUE)
    BY <1>1, <1>7, ProductStands
  <2>2. ma * 2^(ea - LEAST) = Level(i) /\ mb * 2^(eb - LEAST) = Level(j)
    BY <1>1, Zenon DEF AtLevel, Worth
  <2>3. Stands(x, neg, size, ONE, TRUE)
    BY <1>5, <2>1, <2>2
  <2>4. size \in Nat \ {0}
    <3>1. Level(0) = 0
      BY LevelOfNone
    <3>2. Level(i) # 0 /\ Level(j) # 0
      BY <1>1, <1>7, <3>1, LevelOrder
    <3> DEFINE a == Level(i)
               b == Level(j)
    <3> HIDE DEF a, b
    <3>3. a \in Nat \ {0} /\ b \in Nat \ {0}
      BY <1>2, <3>2 DEF a, b
    <3>4. a * b \in Nat \ {0}
      BY <3>3, SMT
    <3>5. QED
      BY <3>4 DEF a, b
  <2> HIDE DEF size, num
  <2>5. Finishes(x, [num |-> Signing(neg, size), den |-> ONE], TRUE)
    BY <1>2, <1>4, <2>3, <2>4, StandsFinishes
  <2>6. QED
    BY <1>3, <2>5 DEF x, num
<1>8. QED
  BY <1>6, <1>7

SignOfQuotient(na, nb, x, y, one) ==
  LET b == Signing(nb, y)
  IN  Magnitude(b) = y /\ Signing(b < 0, Signing(na, x) * one) = Signing(na # nb, x * one)

LEMMA SignedQuotient ==
  ASSUME NEW na \in BOOLEAN, NEW nb \in BOOLEAN, NEW x \in Nat, NEW y \in Nat \ {0}, NEW one \in Nat
  PROVE  SignOfQuotient(na, nb, x, y, one)
<1> DEFINE b == Signing(nb, y)
           p == x * one
           a == Signing(na, x)
<1>1. p \in Nat /\ (-x) * one = -p
  <2>1. x * one \in Nat /\ (-x) * one = -(x * one)
    BY SMT
  <2>2. QED
    BY <2>1
<1>2. Magnitude(b) = y /\ (b < 0 <=> nb)
  BY DEF Signing, Magnitude
<1>3. a * one = Signing(na, p)
  BY <1>1 DEF Signing
<1> HIDE DEF p, a
<1>4. Signing(b < 0, a * one) = Signing(nb, Signing(na, p))
  BY <1>2, <1>3 DEF Signing
<1>5. Signing(nb, Signing(na, p)) = Signing(na # nb, p)
  BY <1>1 DEF Signing
<1>6. Signing(b < 0, a * one) = Signing(na # nb, x * one)
  BY <1>4, <1>5 DEF p
<1>7. QED
  BY <1>2, <1>6, Zenon DEF a, SignOfQuotient

LEMMA QuotientFinishes ==
  ASSUME NEW na, NEW ma, NEW ea, NEW i, Operand(na, ma, ea, i),
         NEW nb, NEW mb, NEW eb, NEW j, Operand(nb, mb, eb, j), j # 0
  PROVE  LET b == Signing(nb, Level(j))
             num == Signing(b < 0, Signing(na, Level(i)) * ONE)
         IN  Finishes(Quotient(Whole(na, ma, ea), Whole(nb, mb, eb)), [num |-> num, den |-> Magnitude(b)], TRUE)
<1> DEFINE x == Quotient(Whole(na, ma, ea), Whole(nb, mb, eb))
           b == Signing(nb, Level(j))
           num == Signing(b < 0, Signing(na, Level(i)) * ONE)
           neg == na # nb
           size == Level(i) * ONE
           exp == ea - eb
           den == Level(j)
<1>1. /\ na \in BOOLEAN /\ ma \in Nat /\ ea \in Int /\ ea >= LEAST /\ Small(ma) /\ i \in Nat /\ AtLevel(ma, ea, i)
      /\ nb \in BOOLEAN /\ mb \in Nat /\ eb \in Int /\ eb >= LEAST /\ eb <= BIAS /\ Small(mb) /\ j \in Nat /\ AtLevel(mb, eb, j)
      /\ (ma = 0 <=> i = 0) /\ mb # 0
  BY DEF Operand
<1>2. neg \in BOOLEAN /\ Level(i) \in Nat /\ Level(j) \in Nat
  BY <1>1, LevelOrder
<1>3. ONE \in Nat \ {0}
  BY FieldSizes, PowerPositive DEF ONE
<1>4. Level(0) = 0
  BY LevelOfNone
<1>5. den \in Nat \ {0}
  BY <1>1, <1>2, <1>4, LevelOrder
<1>6. num = Signing(neg, size) /\ size \in Nat /\ Magnitude(b) = den
  <2> DEFINE a == Level(i)
  <2>1. a \in Nat
    BY <1>2
  <2> HIDE DEF a, den
  <2>2. SignOfQuotient(na, nb, a, den, ONE)
    BY <1>1, <1>3, <1>5, <2>1, SignedQuotient
  <2>3. a * ONE \in Nat
    BY <1>3, <2>1
  <2>4. QED
    BY <2>2, <2>3, Zenon DEF a, den, SignOfQuotient
<1>7. x = Wide(neg, ma, mb, exp)
  <2> DEFINE a == Whole(na, ma, ea)
             d == Whole(nb, mb, eb)
  <2>1. /\ a.kind = "finite" /\ a.neg = na /\ a.m = ma /\ a.e = ea
        /\ d.kind = "finite" /\ d.neg = nb /\ d.m = mb /\ d.e = eb
    BY WholeIs
  <2> HIDE DEF a, d
  <2>2. ~IsInfinite(a) /\ ~IsInfinite(d)
    BY <2>1 DEF IsInfinite
  <2>3. Quotient(a, d) = Wide(a.neg # d.neg, a.m, d.m, a.e - d.e)
    BY <2>2 DEF Quotient
  <2>4. QED
    BY <2>1, <2>3 DEF a, d
<1> HIDE DEF x, neg, num, b
<1>8. CASE ma = 0
  <2>1. x = Whole(neg, 0, 0)
    BY <1>7, <1>8, WideOfNone
  <2>2. num = 0
    <3>1. size = 0
      BY <1>1, <1>3, <1>4, <1>8
    <3>2. QED
      BY <1>6, <3>1 DEF Signing
  <2> HIDE DEF den
  <2>3. Finishes(x, [num |-> 0, den |-> den], TRUE)
    BY <1>2, <1>5, <2>1, ZeroFinishes
  <2>4. QED
    BY <1>6, <2>2, <2>3 DEF x, num, b
<1>9. CASE ma # 0
  <2>1. Stands(Wide(neg, ma, mb, ea - eb), neg, (ma * 2^(ea - LEAST)) * ONE, mb * 2^(eb - LEAST), TRUE)
    BY <1>1, <1>9, QuotientStands
  <2>2. ma * 2^(ea - LEAST) = Level(i) /\ mb * 2^(eb - LEAST) = Level(j)
    BY <1>1, Zenon DEF AtLevel, Worth
  <2>3. Stands(x, neg, size, den, TRUE)
    BY <1>7, <2>1, <2>2
  <2>4. size \in Nat \ {0}
    <3>1. Level(i) # 0
      BY <1>1, <1>4, <1>9, LevelOrder
    <3> DEFINE a == Level(i)
    <3> HIDE DEF a
    <3>2. a \in Nat \ {0}
      BY <1>2, <3>1 DEF a
    <3>3. a * ONE \in Nat \ {0}
      BY <1>3, <3>2, SMT
    <3>4. QED
      BY <3>3 DEF a
  <2> HIDE DEF size, den
  <2>5. Finishes(x, [num |-> Signing(neg, size), den |-> den], TRUE)
    BY <1>2, <1>5, <2>3, <2>4, StandsFinishes
  <2>6. QED
    BY <1>6, <2>5 DEF x, num, b
<1>10. QED
  BY <1>8, <1>9

LEMMA SignedSmall ==
  ASSUME NEW word \in Word
  PROVE  Signed(word) \in Int /\ Magnitude(Signed(word)) \in Nat /\ Few(Magnitude(Signed(word)))
<1> DEFINE low == FLOAT_BITS - 1
           h == 2^low
           w == 2^FLOAT_BITS
           f == 2^WIDE
           n == Signed(word)
<1>1. low \in Nat /\ FLOAT_BITS = low + 1 /\ WIDE \in Nat /\ low + 1 <= WIDE /\ low + 1 \in Nat
  BY FpuAssumption DEF FLOAT_BITS
<1> HIDE DEF low
<1>2. w = 2 * h /\ h \in Nat \ {0} /\ f \in Nat \ {0} /\ w <= f
  <2>1. 2^(low + 1) = 2 * h /\ h \in Nat \ {0} /\ f \in Nat \ {0}
    BY <1>1, PowerPositive, PowerDoubles
  <2> DEFINE i == low + 1
  <2>2. i \in Nat /\ i <= WIDE
    BY <1>1
  <2> HIDE DEF i
  <2>3. 2^i <= f
    BY <1>1, <2>2, PowerOrder
  <2>4. QED
    BY <1>1, <2>1, <2>3 DEF i
<1>3. word \in 0..(w - 1)
  BY DEF Word
<1>4. n = IF word >= h THEN word - w ELSE word
  BY DEF Signed, Negative, low
<1> HIDE DEF n, h, w, f
<1>5. n \in Int /\ Magnitude(n) \in Nat /\ Magnitude(n) <= h
  BY <1>2, <1>3, <1>4 DEF Magnitude
<1>6. Magnitude(n) < f
  <2> DEFINE a == Magnitude(n)
  <2>1. a \in Nat /\ a <= h
    BY <1>5
  <2> HIDE DEF a
  <2>2. a < f
    BY <1>2, <2>1
  <2>3. QED
    BY <2>2 DEF a
<1>7. QED
  BY <1>5, <1>6 DEF Few, f, n

LEMMA IntegerFinishes ==
  ASSUME NEW word \in Word
  PROVE  LET n == Signed(word)
         IN  Finishes(Wide(n < 0, IF n < 0 THEN -n ELSE n, 1, 0), [num |-> n * ONE, den |-> 1], TRUE)
<1> DEFINE n == Signed(word)
           size == Magnitude(n)
           neg == n < 0
           x == Wide(neg, IF n < 0 THEN -n ELSE n, 1, 0)
           one == 1
           num == size * ONE
<1>1. n \in Int /\ size \in Nat /\ Few(size)
  BY SignedSmall
<1>2. x = Wide(neg, size, 1, 0)
  BY DEF Magnitude
<1>3. ONE \in Nat \ {0} /\ one \in Nat \ {0}
  BY FieldSizes, PowerPositive DEF ONE
<1>4. neg \in BOOLEAN /\ n = Signing(neg, size)
  <2> HIDE DEF n
  <2>1. QED
    BY <1>1 DEF Signing, Magnitude
<1>5. n * ONE = Signing(neg, num) /\ num \in Nat
  <2> HIDE DEF neg, n, size
  <2>1. (-size) * ONE = -(size * ONE) /\ size * ONE \in Nat
    BY <1>1, <1>3, SMT
  <2>2. Signing(neg, size) * ONE = Signing(neg, size * ONE)
    BY <2>1 DEF Signing
  <2>3. QED
    BY <1>4, <2>1, <2>2
<1> HIDE DEF size, neg, x, n
<1>6. CASE size = 0
  <2>1. x = Whole(neg, 0, 0)
    BY <1>2, <1>6, WideOfNone
  <2>2. n * ONE = 0
    <3>1. 0 * ONE = 0
      BY <1>3
    <3>2. QED
      BY <1>5, <1>6, <3>1 DEF Signing
  <2> HIDE DEF one
  <2>3. Finishes(x, [num |-> 0, den |-> one], TRUE)
    BY <1>3, <1>4, <2>1, ZeroFinishes
  <2>4. QED
    BY <2>2, <2>3 DEF x, neg, one, n
<1>7. CASE size # 0
  <2>1. Stands(Wide(neg, size, 1, 0), neg, size * ONE, 1, TRUE)
    BY <1>1, <1>7, IntegerStands
  <2>2. num \in Nat \ {0}
    <3>1. size * ONE \in Nat \ {0}
      BY <1>1, <1>3, <1>7, SMT
    <3>2. QED
      BY <3>1
  <2>3. Stands(x, neg, num, one, TRUE)
    BY <1>2, <2>1
  <2> HIDE DEF one, num
  <2>4. Finishes(x, [num |-> Signing(neg, num), den |-> one], TRUE)
    BY <1>3, <1>4, <2>2, <2>3, StandsFinishes
  <2>5. QED
    BY <1>5, <2>4 DEF x, neg, one, n
<1>8. QED
  BY <1>6, <1>7

\* What an instruction leaves when it has got to the end of a calculation.
Landed(exact, precise, target) ==
  LET word == regs'[target]
      inexact == Value(word) * exact.den # exact.num
  IN  /\ fault' \in {"None", "FOV"}
      /\ fault' = "FOV" <=> Overflowing(exact)
      /\ fault' = "None" =>
           /\ target # 0 => IF Underflowing(exact) THEN word = 0
                            ELSE /\ Finite(word) /\ ~ReservedOperand(FromBits(word))
                                 /\ Nearest(exact, word)
           /\ "FUD" \in sticky' <=> "FUD" \in sticky \/ Underflowing(exact)
           /\ "FPR" \in sticky' \ sticky /\ target # 0 => inexact /\ ~Underflowing(exact)
           /\ target # 0 /\ inexact /\ ~Underflowing(exact) /\ precise => "FPR" \in sticky'

LEMMA FinishFloatLands ==
  ASSUME NEW x, NEW exact, NEW precise \in BOOLEAN, Finishes(x, exact, precise), NEW target \in {0, 1, 2},
         regs \in [{1, 2} -> Word], FinishFloat(x, target)
  PROVE  Landed(exact, precise, target)
<1> DEFINE rounded == Narrow(x)
           word == regs'[target]
           inexact == Value(word) * exact.den # exact.num
<1>1. /\ ~IsInfinite(x)
      /\ IsInfinite(rounded) <=> Overflowing(exact)
      /\ ~Overflowing(exact) =>
           /\ Underflows(x, rounded) <=> Underflowing(exact)
           /\ \A w \in WordsOf[rounded] :
                /\ w \in Word /\ Finite(w)
                /\ ~Underflowing(exact) => ~ReservedOperand(FromBits(w)) /\ Nearest(exact, w)
                /\ Value(w) * exact.den = exact.num => Equal(rounded, x)
                /\ precise /\ Equal(rounded, x) => Value(w) * exact.den = exact.num
  BY Zenon DEF Finishes
<1>2. \/ IsInfinite(rounded) /\ ~IsInfinite(x) /\ Fault("FOV")
      \/ /\ ~(IsInfinite(rounded) /\ ~IsInfinite(x)) /\ Underflows(x, rounded)
         /\ Finish(target, 0, {"FUD"})
      \/ /\ ~(IsInfinite(rounded) /\ ~IsInfinite(x)) /\ ~Underflows(x, rounded)
         /\ \E w \in WordsOf[rounded] : Finish(target, w, IF Equal(rounded, x) THEN {} ELSE {"FPR"})
  BY Zenon DEF FinishFloat
<1> HIDE DEF rounded
<1>3. CASE Overflowing(exact)
  <2>1. Fault("FOV")
    BY <1>1, <1>2, <1>3, Zenon
  <2>2. fault' = "FOV" /\ "FOV" # "None"
    BY <2>1 DEF Fault
  <2>3. QED
    BY <1>3, <2>2 DEF Landed
<1>4. ASSUME NEW w, NEW raised, Finish(target, w, raised)
      PROVE  /\ fault' = "None" /\ sticky' = sticky \cup raised
             /\ target # 0 => word = w
  <2>1. regs' = SetReg(target, w) /\ fault' = "None" /\ sticky' = sticky \cup raised
    BY <1>4 DEF Finish
  <2>2. target # 0 => word = w
    BY <2>1 DEF SetReg
  <2>3. QED
    BY <2>1, <2>2
<1>5. CASE ~Overflowing(exact) /\ Underflowing(exact)
  <2>1. Finish(target, 0, {"FUD"})
    BY <1>1, <1>2, <1>5, Zenon
  <2>2. fault' = "None" /\ sticky' = sticky \cup {"FUD"} /\ (target # 0 => word = 0)
    BY <1>4, <2>1
  <2>3. "FUD" \in sticky' /\ "FPR" \notin sticky' \ sticky
    BY <2>2
  <2> HIDE DEF word, inexact
  <2>4. QED
    BY <1>5, <2>2, <2>3 DEF Landed, word
<1>6. CASE ~Overflowing(exact) /\ ~Underflowing(exact)
  <2>1. PICK w \in WordsOf[rounded] : Finish(target, w, IF Equal(rounded, x) THEN {} ELSE {"FPR"})
    BY <1>1, <1>2, <1>6, Zenon
  <2> DEFINE raised == IF Equal(rounded, x) THEN {} ELSE {"FPR"}
             same == Value(w) * exact.den = exact.num
             equal == Equal(rounded, x)
  <2>2. fault' = "None" /\ sticky' = sticky \cup raised /\ (target # 0 => word = w)
    <3> HIDE DEF raised, word
    <3>1. Finish(target, w, raised)
      BY <2>1 DEF raised
    <3>2. QED
      BY <1>4, <3>1
  <2>3. /\ Finite(w) /\ ~ReservedOperand(FromBits(w)) /\ Nearest(exact, w)
        /\ same => equal
        /\ precise /\ equal => same
    BY <1>1, <1>6, <2>1, Zenon
  <2>4. target # 0 => (inexact <=> ~same)
    BY <2>2
  <2>5. "FPR" \in sticky' \ sticky => ~equal
    BY <2>2
  <2>6. ~equal => "FPR" \in sticky'
    BY <2>2
  <2>7. "FUD" \in sticky' <=> "FUD" \in sticky
    BY <2>2
  <2>8. target # 0 => Finite(word) /\ ~ReservedOperand(FromBits(word)) /\ Nearest(exact, word)
    BY <2>2, <2>3
  <2> HIDE DEF equal, raised, same, word, inexact
  <2>9. "FPR" \in sticky' \ sticky /\ target # 0 => inexact
    BY <2>3, <2>4, <2>5
  <2>10. target # 0 /\ inexact /\ precise => "FPR" \in sticky'
    BY <2>3, <2>4, <2>6
  <2>11. /\ fault' = "None" /\ fault' \in {"None", "FOV"} /\ fault' # "FOV"
    BY <2>2
  <2>12. QED
    BY <1>6, <2>7, <2>8, <2>9, <2>10, <2>11, Zenon DEF Landed, word, inexact
<1>7. QED
  BY <1>3, <1>5, <1>6

\* A fault leaves nothing but its flag.
LEMMA FaultLeaves ==
  ASSUME NEW do \in Operations, NEW reg2, ExecuteFloat(do, 1, reg2), fault' # "None"
  PROVE  regs' = regs /\ sticky' = sticky \cup {fault'}
<1>1. ASSUME NEW target, NEW x, FinishFloat(x, target) PROVE regs' = regs /\ sticky' = sticky \cup {fault'}
  BY <1>1, Zenon DEF FinishFloat, Finish, Fault
<1>2. ASSUME NEW target, NEW n, FinishInteger(n, target) PROVE regs' = regs /\ sticky' = sticky \cup {fault'}
  <2>1. \E word : Finish(target, word, {}) \/ Fault("FIV")
    BY <1>2, Zenon DEF FinishInteger
  <2>2. QED
    BY <2>1, Zenon DEF Finish, Fault
<1>3. ASSUME NEW name, Fault(name) PROVE regs' = regs /\ sticky' = sticky \cup {fault'}
  BY <1>3, Zenon DEF Fault
<1> DEFINE right == FromBits(Reg(1))
           left == FromBits(Reg(reg2))
           reserved == ReservedOperand(left) \/ ReservedOperand(right)
<1>4. \/ do = "CvtWs" /\ ConvertWord(reg2, Reg(reg2))
      \/ do \in {"CvtSw", "TrncSw"} /\ ConvertFloat(do, right, reg2)
      \/ do \in Arithmetics /\ reserved /\ Fault("FRO")
      \/ do \in Arithmetics /\ ~reserved /\ Arithmetic(do, left, right, reg2)
  BY Zenon DEF ExecuteFloat
<1> HIDE DEF right, left, reserved
<1>5. CASE ConvertWord(reg2, Reg(reg2))
  BY <1>1, <1>5, Zenon DEF ConvertWord
<1>6. CASE ConvertFloat(do, right, reg2)
  BY <1>2, <1>3, <1>6, Zenon DEF ConvertFloat
<1>7. CASE do \in Arithmetics /\ Arithmetic(do, left, right, reg2)
  <2>1. CASE do = "CmpfS"
    <3>1. Compare(left, right)
      BY <1>7, <2>1 DEF Arithmetic
    <3>2. QED
      BY <3>1 DEF Compare
  <2>2. CASE do = "AddfS"
    <3>1. FinishFloat(Sum(left, right), reg2)
      BY <1>7, <2>2 DEF Arithmetic
    <3>2. QED
      BY <1>1, <3>1
  <2>3. CASE do = "SubfS"
    <3>1. FinishFloat(Sum(left, Negated(right)), reg2)
      BY <1>7, <2>3 DEF Arithmetic
    <3>2. QED
      BY <1>1, <3>1
  <2>4. CASE do = "MulfS"
    <3>1. FinishFloat(Product(left, right), reg2)
      BY <1>7, <2>4 DEF Arithmetic
    <3>2. QED
      BY <1>1, <3>1
  <2>5. CASE do = "DivfS"
    <3>1. Divide(left, right, reg2)
      BY <1>7, <2>5 DEF Arithmetic
    <3>2. QED
      BY <1>1, <1>3, <3>1, Zenon DEF Divide
  <2>6. QED
    BY <1>7, <2>1, <2>2, <2>3, <2>4, <2>5 DEF Arithmetics
<1>8. QED
  BY <1>3, <1>4, <1>5, <1>6, <1>7, Zenon

-----------------------------------------------------------------------------
(* Conversions to integers.                                                 *)

\* The integers a conversion may make of a number.
Fitting(do, n, x) ==
  CASE do = "TrncSw" -> n * ONE <= x /\ x < (n + 1) * ONE
    [] do = "CvtSw"  -> \/ 2 * Magnitude(x - n * ONE) < ONE
                        \/ 2 * Magnitude(x - n * ONE) = ONE /\ n % 2 = 0

LEMMA DownIs ==
  ASSUME NEW x \in Nat, NEW one \in Nat \ {0}, NEW p \in Nat, NEW d \in Nat \ {0}, x * d = p * one, NEW n \in Nat
  PROVE  n * one <= x /\ x < (n + 1) * one <=> n = p \div d
<1> DEFINE q == p \div d
<1> DEFINE r == p % d
<1>1. q \in Nat /\ q * d <= p /\ p < (q + 1) * d
  <2>1. q \in Nat
    BY HalfEvenIs
  <2>2. r \in 0..(d - 1) /\ p = d * q + r
    BY Divided
  <2> HIDE DEF q, r
  <2>3. q * d = d * q /\ (q + 1) * d = d * q + d /\ d * q \in Nat
    BY <2>1, SMT
  <2>4. QED
    BY <2>1, <2>2, <2>3
<1> HIDE DEF q
<1>2. ASSUME NEW k \in Nat PROVE (k * one < x <=> k * d < p) /\ (k * one = x <=> k * d = p)
  <2> DEFINE y == k * one
             a == k * d
  <2>1. y \in Nat /\ a \in Nat /\ y * d = a * one
    BY SMT
  <2> HIDE DEF y, a
  <2>2. (y < x <=> a < p) /\ (y = x <=> a = p)
    BY <2>1, SameRatio
  <2>3. QED
    BY <2>2 DEF y, a
<1>3. ASSUME NEW k \in Nat PROVE k * d \in Nat /\ k * one \in Nat /\ (k + 1) * d = k * d + d /\ k + 1 \in Nat
  OBVIOUS
<1>4. n * one <= x /\ x < (n + 1) * one <=> n * d <= p /\ p < (n + 1) * d
  BY <1>2, <1>3
<1>5. n < q => (n + 1) * d <= q * d
  BY <1>1, <1>3
<1>6. q < n => (q + 1) * d <= n * d
  BY <1>1, <1>3
<1>7. n * d <= p /\ p < (n + 1) * d <=> n = q
  BY <1>1, <1>3, <1>5, <1>6
<1>8. QED
  BY <1>4, <1>7 DEF q

LEMMA NearOnce ==
  ASSUME NEW x \in Nat, NEW one \in Nat \ {0}, NEW a \in Nat, NEW b \in Nat, Near(x, one, a), Near(x, one, b)
  PROVE  ~(a < b)
<1> SUFFICES ASSUME a < b PROVE FALSE
  OBVIOUS
<1> DEFINE u == a * one
           v == b * one
<1>1. u \in Nat /\ v \in Nat /\ u + one <= v
  <2>1. PICK d \in Nat : b = a + 1 + d
    BY b - a - 1 \in Nat
  <2>2. v = u + one + d * one /\ d * one \in Nat
    BY <2>1
  <2>3. QED
    BY <2>2
<1>2. b # a + 1 => u + one + one <= v
  <2> SUFFICES ASSUME b # a + 1 PROVE u + one + one <= v
    OBVIOUS
  <2>1. PICK d \in Nat : b = a + 2 + d
    BY b - a - 2 \in Nat
  <2>2. v = u + one + one + d * one /\ d * one \in Nat
    BY <2>1
  <2>3. QED
    BY <2>2
<1> HIDE DEF u, v
<1>3. 2 * x <= 2 * u + one /\ (2 * x = 2 * u + one => a % 2 = 0)
  BY NearIs DEF u
<1>4. 2 * v <= 2 * x + one /\ (2 * v = 2 * x + one => b % 2 = 0)
  BY NearIs DEF v
<1>5. b = a + 1 /\ 2 * x = 2 * u + one /\ 2 * v = 2 * x + one
  BY <1>1, <1>2, <1>3, <1>4
<1>6. QED
  BY <1>3, <1>4, <1>5

LEMMA NearRatio ==
  ASSUME NEW x \in Nat, NEW one \in Nat \ {0}, NEW p \in Nat, NEW d \in Nat \ {0}, x * d = p * one,
         NEW n \in Nat, Near(p, d, n)
  PROVE  Near(x, one, n)
<1> DEFINE u == n * one
           v == n * d
           lx == 2 * x
           ru == 2 * u + one
           lp == 2 * p
           rv == 2 * v + d
           lu == 2 * u
           rx == 2 * x + one
           lv == 2 * v
           rp == 2 * p + d
<1>1. u \in Nat /\ v \in Nat
  OBVIOUS
<1>2. u * d = v * one
  BY SMT
<1> HIDE DEF u, v
<1>3. lx * d = lp * one /\ ru * d = rv * one /\ lu * d = lv * one /\ rx * d = rp * one
  <2>1. lx * d = 2 * (x * d) /\ lp * one = 2 * (p * one) /\ lu * d = 2 * (u * d) /\ lv * one = 2 * (v * one)
    BY <1>1, SMT
  <2>2. ru * d = 2 * (u * d) + one * d /\ rv * one = 2 * (v * one) + d * one
    BY <1>1, SMT
  <2>3. rx * d = 2 * (x * d) + one * d /\ rp * one = 2 * (p * one) + d * one
    BY <1>1, SMT
  <2>4. one * d = d * one
    OBVIOUS
  <2> HIDE DEF lx, ru, lp, rv, lu, rx, lv, rp
  <2>5. QED
    BY <1>2, <2>1, <2>2, <2>3, <2>4
<1>4. /\ lx \in Int /\ ru \in Int /\ lp \in Int /\ rv \in Int
      /\ lu \in Int /\ rx \in Int /\ lv \in Int /\ rp \in Int
  BY <1>1
<1> HIDE DEF lx, ru, lp, rv, lu, rx, lv, rp
<1>5. (lx < ru <=> lp < rv) /\ (lx = ru <=> lp = rv)
  BY <1>3, <1>4, SameRatio
<1>6. (lu < rx <=> lv < rp) /\ (lu = rx <=> lv = rp)
  BY <1>3, <1>4, SameRatio
<1>7. lp <= rv /\ lv <= rp /\ (lp = rv \/ lv = rp => n % 2 = 0)
  BY NearIs DEF v, lp, rv, lv, rp
<1>8. lx <= ru /\ lu <= rx /\ (lx = ru \/ lu = rx => n % 2 = 0)
  BY <1>4, <1>5, <1>6, <1>7
<1>9. QED
  BY <1>8, NearIs DEF u, lx, ru, lu, rx

\* Conversions that round do it as HalfEven does.
LEMMA FittingNear ==
  ASSUME NEW x \in Nat, NEW n \in Nat, ONE \in Nat
  PROVE  Fitting("CvtSw", n, x) <=> Near(x, ONE, n)
<1> DEFINE u == n * ONE
           far == Magnitude(x - u)
<1>1. u \in Nat
  OBVIOUS
<1> HIDE DEF u
<1>2. far \in Nat /\ (x >= u => far = x - u) /\ (x < u => far = u - x)
  BY <1>1 DEF Magnitude
<1> HIDE DEF far
<1>3. Fitting("CvtSw", n, x) <=> 2 * far < ONE \/ (2 * far = ONE /\ n % 2 = 0)
  BY DEF Fitting, far, u
<1>4. Near(x, ONE, n) <=> /\ 2 * x <= 2 * u + ONE /\ 2 * u <= 2 * x + ONE
                          /\ 2 * x = 2 * u + ONE \/ 2 * u = 2 * x + ONE => n % 2 = 0
  BY NearIs DEF u
<1> DEFINE even == n % 2 = 0
<1> HIDE DEF even
<1>5. 2 * far < ONE \/ (2 * far = ONE /\ even) <=>
        /\ 2 * x <= 2 * u + ONE /\ 2 * u <= 2 * x + ONE
        /\ 2 * x = 2 * u + ONE \/ 2 * u = 2 * x + ONE => even
  <2>1. CASE x >= u /\ even
    BY <1>1, <1>2, <2>1
  <2>2. CASE x >= u /\ ~even
    BY <1>1, <1>2, <2>2
  <2>3. CASE x < u /\ even
    BY <1>1, <1>2, <2>3
  <2>4. CASE x < u /\ ~even
    BY <1>1, <1>2, <2>4
  <2>5. QED
    BY <1>1, <2>1, <2>2, <2>3, <2>4
<1>6. QED
  BY <1>3, <1>4, <1>5 DEF even

\* What RoundTiesEven and Trunc make of a number is the one integer that fits.
LEMMA ConversionFits ==
  ASSUME NEW m \in Nat, NEW e \in Int, e >= LEAST, NEW do \in {"CvtSw", "TrncSw"}
  PROVE  LET p == Scaled(m, e)
             d == 2^MaxOf(-e, 0)
             n == IF do = "CvtSw" THEN HalfEven(p, d) ELSE p \div d
         IN  n \in Nat /\ \A k \in Nat : Fitting(do, k, Worth(m, e)) <=> k = n
<1> DEFINE p == Scaled(m, e)
           d == 2^MaxOf(-e, 0)
           x == Worth(m, e)
           n == IF do = "CvtSw" THEN HalfEven(p, d) ELSE p \div d
<1>1. p \in Nat /\ d \in Nat \ {0} /\ x \in Nat /\ ONE \in Nat \ {0} /\ x * d = p * ONE
  <2> DEFINE nil == 0
  <2>0. LEAST \in Int /\ LEAST < 0 /\ nil \in Int
    BY FieldSizes
  <2>1. CASE e >= 0
    <3>1. MaxOf(-e, 0) = 0 /\ MaxOf(e, 0) = e
      BY <2>1 DEF MaxOf
    <3> DEFINE up == 2^(e - nil)
               low == 2^(nil - LEAST)
               all == 2^(e - LEAST)
    <3>0. nil <= e /\ LEAST <= nil
      BY <2>0, <2>1
    <3> HIDE DEF nil
    <3>2. all = up * low /\ all \in Nat /\ up \in Nat /\ low \in Nat \ {0}
      BY <2>0, <3>0, PowerSplit
    <3>3. d = 1 /\ p = m * up /\ x = m * all /\ ONE = low
      <4>1. e - nil = e /\ nil - LEAST = -LEAST
        BY <2>0 DEF nil
      <4>2. 2^0 = 1
        OBVIOUS
      <4>3. QED
        BY <3>1, <4>1, <4>2 DEF Scaled, Worth, ONE
    <3> HIDE DEF up, low, all, p, d, x
    <3>4. x * d = p * ONE
      BY <3>2, <3>3, SMT
    <3>5. QED
      BY <3>2, <3>3, <3>4
  <2>2. CASE e < 0
    <3>1. MaxOf(-e, 0) = -e /\ MaxOf(e, 0) = 0
      BY <2>2 DEF MaxOf
    <3> DEFINE up == 2^(nil - e)
               low == 2^(e - LEAST)
               all == 2^(nil - LEAST)
    <3>0. e <= nil /\ LEAST <= e
      BY <2>2
    <3> HIDE DEF nil
    <3>2. all = up * low /\ all \in Nat \ {0} /\ up \in Nat \ {0} /\ low \in Nat
      BY <2>0, <3>0, PowerSplit
    <3>3. d = up /\ p = m /\ x = m * low /\ ONE = all
      <4>1. nil - e = -e /\ nil - LEAST = -LEAST
        BY <2>0 DEF nil
      <4>2. 2^0 = 1 /\ m * 1 = m
        OBVIOUS
      <4>3. QED
        BY <3>1, <4>1, <4>2 DEF Scaled, Worth, ONE
    <3> HIDE DEF up, low, all, p, d, x
    <3>4. x * d = p * ONE
      BY <3>2, <3>3, SMT
    <3>5. QED
      BY <3>2, <3>3, <3>4
  <2>3. QED
    BY <2>1, <2>2
<1> HIDE DEF p, d, x
<1>2. CASE do = "TrncSw"
  <2>1. n = p \div d /\ n \in Nat
    BY <1>1, <1>2, HalfEvenIs
  <2> HIDE DEF n
  <2>2. ASSUME NEW k \in Nat PROVE Fitting(do, k, x) <=> k = n
    BY <1>1, <1>2, <2>1, DownIs DEF Fitting
  <2>3. QED
    BY <2>1, <2>2 DEF n, p, d, x
<1>3. CASE do = "CvtSw"
  <2>1. n = HalfEven(p, d) /\ n \in Nat /\ Near(p, d, n)
    BY <1>1, <1>3, HalfEvenNear
  <2> HIDE DEF n
  <2>2. Near(x, ONE, n)
    BY <1>1, <2>1, NearRatio
  <2>3. ASSUME NEW k \in Nat PROVE Fitting(do, k, x) <=> k = n
    <3>1. Fitting(do, k, x) <=> Near(x, ONE, k)
      BY <1>1, <1>3, FittingNear
    <3>2. Near(x, ONE, k) => ~(k < n) /\ ~(n < k)
      BY <1>1, <2>1, <2>2, NearOnce
    <3>3. QED
      BY <2>1, <2>2, <3>1, <3>2
  <2>4. QED
    BY <2>1, <2>3 DEF n, p, d, x
<1>4. QED
  BY <1>2, <1>3

\* What a conversion leaves of a finite number that is no reserved operand.
Converted(do, value, target) ==
  LET x == Magnitude(value)
      n == Signed(regs'[target])
      least == 2^(FLOAT_BITS - 1)
  IN  /\ fault' \in {"None", "FIV"}
      /\ fault' = "None" /\ target # 0 =>
           /\ Fitting(do, Magnitude(n), x)
           /\ n # 0 => (n < 0 <=> value < 0)
      /\ fault' = "FIV" <=> \A k \in 0..least : Fitting(do, k, x) => k = least /\ value > 0

LEMMA HalfWord ==
  LET least == 2^(FLOAT_BITS - 1)
  IN  least \in Nat \ {0} /\ 2^FLOAT_BITS = 2 * least
<1> DEFINE least == FRACTIONS * EXPONENTS
<1>1. FRACTIONS \in Nat \ {0} /\ EXPONENTS \in Nat \ {0}
  BY FieldSizes
<1>2. 2^(FLOAT_BITS - 1) = least /\ 2^FLOAT_BITS = 2 * least
  BY FieldSizes
<1>3. least \in Nat \ {0}
  BY <1>1, SMT
<1>4. QED
  BY <1>2, <1>3

\* A word holds the integers from minus half of the words to half of them.
LEMMA SignedRemainder ==
  ASSUME NEW n \in Int, NEW h, h = 2^(FLOAT_BITS - 1), n \in -h..(h - 1)
  PROVE  Signed(n % 2^FLOAT_BITS) = n
<1> DEFINE all == 2^FLOAT_BITS
           word == n % all
<1>1. h \in Nat \ {0} /\ all = 2 * h
  BY HalfWord
<1> HIDE DEF all
<1>2. n >= 0 => word = n
  <2> SUFFICES ASSUME n >= 0 PROVE word = n
    OBVIOUS
  <2> DEFINE nil == 0
             rest == n
  <2>1. n = all * nil + rest /\ rest \in 0..(all - 1) /\ all \in Nat \ {0} /\ nil \in Int
    BY <1>1
  <2> HIDE DEF nil, rest
  <2>2. word = rest
    BY <2>1, Division, Zenon
  <2>3. QED
    BY <2>2 DEF rest
<1>3. n < 0 => word = n + all
  <2> SUFFICES ASSUME n < 0 PROVE word = n + all
    OBVIOUS
  <2> DEFINE rest == n + all
             one == -1
  <2>1. n = all * one + rest /\ rest \in 0..(all - 1) /\ all \in Nat \ {0} /\ one \in Int
    BY <1>1
  <2> HIDE DEF rest, one
  <2>2. word = rest
    BY <2>1, Division, Zenon
  <2>3. QED
    BY <2>2 DEF rest
<1> HIDE DEF word
<1>4. Signed(word) = IF word >= h THEN word - all ELSE word
  BY DEF Signed, Negative, all
<1>5. Signed(word) = n
  BY <1>1, <1>2, <1>3, <1>4
<1>6. QED
  BY <1>5 DEF word, all

LEMMA FinishIntegerConverts ==
  ASSUME NEW do \in {"CvtSw", "TrncSw"}, NEW neg \in BOOLEAN, NEW x \in Nat, NEW size \in Nat,
         \A k \in Nat : Fitting(do, k, x) <=> k = size,
         NEW target \in {0, 1, 2}, regs \in [{1, 2} -> Word], FinishInteger(Signing(neg, size), target)
  PROVE  Converted(do, Signing(neg, x), target)
<1> DEFINE n == Signing(neg, size)
           value == Signing(neg, x)
           h == 2^(FLOAT_BITS - 1)
           r == Signed(regs'[target])
<1>1. h \in Nat \ {0}
  BY HalfWord
<1>2. x = 0 => size = 0
  <2> SUFFICES ASSUME x = 0 PROVE size = 0
    OBVIOUS
  <2>1. ONE \in Nat \ {0}
    <3>1. LEAST \in Int /\ LEAST < 0
      BY FieldSizes
    <3>2. -LEAST \in Nat
      BY <3>1
    <3>3. QED
      BY <3>2, PowerPositive DEF ONE
  <2>2. 0 * ONE = 0 /\ (0 + 1) * ONE = ONE
    BY <2>1
  <2>3. Fitting(do, 0, 0)
    <3>1. CASE do = "TrncSw"
      BY <2>1, <2>2, <3>1 DEF Fitting
    <3>2. CASE do = "CvtSw"
      <4>1. Magnitude(0 - 0 * ONE) = 0
        BY <2>2 DEF Magnitude
      <4>2. QED
        BY <2>1, <3>2, <4>1 DEF Fitting
    <3>3. QED
      BY <3>1, <3>2
  <2>4. QED
    BY <2>3
<1>3. /\ n \in Int /\ Magnitude(n) = size
      /\ n # 0 => (n < 0 <=> value < 0)
      /\ value \in Int /\ Magnitude(value) = x
      /\ value > 0 <=> ~neg /\ x # 0
  BY <1>2 DEF Signing, Magnitude
<1>4. n \in -h..(h - 1) <=> size < h \/ (size = h /\ neg)
  BY <1>1 DEF Signing
<1>5. n \in -h..(h - 1) <=> ~\A k \in 0..h : Fitting(do, k, x) => k = h /\ value > 0
  <2> HIDE DEF n, value, h
  <2>1. CASE size < h
    BY <1>1, <1>4, <2>1
  <2>2. CASE size = h
    <3>1. x # 0
      BY <1>1, <1>2, <2>2
    <3>2. value > 0 <=> ~neg
      BY <1>3, <3>1
    <3>3. Fitting(do, h, x) /\ h \in 0..h
      BY <1>1, <2>2
    <3>4. \A k \in 0..h : Fitting(do, k, x) => k = h
      BY <1>1, <2>2
    <3>5. n \in -h..(h - 1) <=> neg
      BY <1>1, <1>4, <2>2
    <3>6. QED
      BY <3>2, <3>3, <3>4, <3>5, Zenon
  <2>3. CASE size > h
    <3>1. \A k \in 0..h : ~Fitting(do, k, x)
      BY <1>1, <2>3
    <3>2. ~(n \in -h..(h - 1))
      BY <1>1, <1>4, <2>3
    <3>3. QED
      BY <3>1, <3>2, Zenon
  <2>4. QED
    BY <1>1, <2>1, <2>2, <2>3
<1>6. CASE n \in -h..(h - 1)
  <2>1. Finish(target, n % 2^FLOAT_BITS, {})
    BY <1>6, Zenon DEF FinishInteger
  <2>2. fault' = "None" /\ (target # 0 => regs'[target] = n % 2^FLOAT_BITS)
    <3> HIDE DEF n, h
    <3>1. QED
      BY <2>1 DEF Finish, SetReg
  <2>3. target # 0 => r = n
    BY <1>3, <1>6, <2>2, SignedRemainder
  <2> HIDE DEF n, value, h, r
  <2>4. fault' \in {"None", "FIV"} /\ fault' # "FIV"
    BY <2>2
  <2>5. target # 0 => Fitting(do, Magnitude(r), x) /\ (r # 0 => (r < 0 <=> value < 0))
    BY <1>3, <2>3
  <2>6. QED
    BY <1>3, <1>5, <1>6, <2>4, <2>5, Zenon DEF Converted, value, h, r
<1>7. CASE ~(n \in -h..(h - 1))
  <2>1. Fault("FIV")
    BY <1>7, Zenon DEF FinishInteger
  <2>2. fault' = "FIV" /\ fault' # "None" /\ fault' \in {"None", "FIV"}
    BY <2>1 DEF Fault
  <2> HIDE DEF n, value, h, r
  <2>3. QED
    BY <1>3, <1>5, <1>7, <2>2, Zenon DEF Converted, value, h, r
<1>8. QED
  BY <1>6, <1>7

\* A conversion of a finite number that does not refuse it.
LEMMA ConvertConverts ==
  ASSUME NEW do \in {"CvtSw", "TrncSw"}, NEW word \in Word, Finite(word), NEW target \in {0, 1, 2},
         regs \in [{1, 2} -> Word], ConvertFloat(do, FromBits(word), target), fault' # "FRO"
  PROVE  Converted(do, Value(word), target)
<1> DEFINE x == FromBits(word)
           neg == Negative(word)
<1>1. PICK m, e : /\ FromBits(word) = Whole(Negative(word), m, e)
                  /\ Operand(Negative(word), m, e, Nth(word))
                  /\ Value(word) = Signing(Negative(word), Level(Nth(word)))
  BY WordOperand
<1>2. /\ x.kind = "finite" /\ x.neg = neg /\ x.m = m /\ x.e = e
  BY <1>1, WholeIs
<1>3. neg \in BOOLEAN /\ m \in Nat /\ e \in Int /\ e >= LEAST /\ Worth(m, e) = Level(Nth(word)) /\ Nth(word) \in Nat
  BY <1>1 DEF Operand, AtLevel
<1>4. Level(Nth(word)) \in Nat
  BY <1>3, LevelOrder
<1> DEFINE p == Scaled(m, e)
           d == 2^MaxOf(-e, 0)
           size == IF do = "CvtSw" THEN HalfEven(p, d) ELSE p \div d
<1>5. size \in Nat /\ \A k \in Nat : Fitting(do, k, Level(Nth(word))) <=> k = size
  <2>1. size \in Nat /\ \A k \in Nat : Fitting(do, k, Worth(m, e)) <=> k = size
    BY <1>3, ConversionFits
  <2> HIDE DEF size
  <2>2. QED
    BY <1>3, <2>1
<1>6. (IF do = "CvtSw" THEN RoundTiesEven(x) ELSE Trunc(x)) = Signing(neg, size)
  <2> HIDE DEF x, neg
  <2>1. CASE do = "CvtSw"
    BY <1>2, <2>1, Zenon DEF RoundTiesEven
  <2>2. CASE do # "CvtSw"
    BY <1>2, <2>2 DEF Trunc
  <2>3. QED
    BY <2>1, <2>2
<1>7. ~IsInfinite(x)
  BY <1>2 DEF IsInfinite
<1>8. ~Fault("FRO")
  BY DEF Fault
<1>9. FinishInteger(IF do = "CvtSw" THEN RoundTiesEven(x) ELSE Trunc(x), target)
  BY <1>7, <1>8, Zenon DEF ConvertFloat
<1> HIDE DEF size
<1>10. FinishInteger(Signing(neg, size), target)
  BY <1>6, <1>9, Zenon
<1>11. Converted(do, Signing(neg, Level(Nth(word))), target)
  <2> DEFINE level == Level(Nth(word))
  <2>1. level \in Nat /\ \A k \in Nat : Fitting(do, k, level) <=> k = size
    BY <1>4, <1>5
  <2> HIDE DEF level, neg
  <2>2. neg \in BOOLEAN /\ size \in Nat
    BY <1>3, <1>5
  <2> HIDE DEF size
  <2>3. Converted(do, Signing(neg, level), target)
    BY <1>10, <2>1, <2>2, FinishIntegerConverts
  <2>4. QED
    BY <2>3 DEF level
<1>12. QED
  BY <1>1, <1>11

-----------------------------------------------------------------------------
(* The instructions.                                                        *)

\* What `Calculated' says of the operands of an instruction.
ExactOf(do, left, right) ==
  LET a == Value(left)  b == Value(right)
  IN  CASE do = "AddfS" -> [num |-> a + b, den |-> 1]
        [] do = "SubfS" -> [num |-> a - b, den |-> 1]
        [] do = "MulfS" -> [num |-> a * b, den |-> ONE]
        [] do = "DivfS" -> [num |-> Signing(b < 0, a * ONE), den |-> Magnitude(b)]
        [] do = "CvtWs" -> [num |-> Signed(left) * ONE, den |-> 1]

\* Sums are the calculations a wider format may not hold.
Precise(do, exact) == do \in {"AddfS", "SubfS"} => WideHolds(exact.num)

LEMMA SigningIs ==
  ASSUME NEW neg \in BOOLEAN, NEW n \in Nat
  PROVE  Signing(neg, n) \in Int /\ Signing(~neg, n) = -Signing(neg, n)
  BY DEF Signing

LEMMA ArithmeticLands ==
  ASSUME NEW do \in Calculation, NEW l \in Word, NEW r \in Word, Finite(l), Finite(r),
         NEW target \in {0, 1, 2}, regs \in [{1, 2} -> Word],
         Arithmetic(do, FromBits(l), FromBits(r), target), fault' \notin {"FIV", "FZD"}
  PROVE  Landed(ExactOf(do, l, r), Precise(do, ExactOf(do, l, r)), target)
<1> DEFINE exact == ExactOf(do, l, r)
<1>1. PICK ma, ea : /\ FromBits(l) = Whole(Negative(l), ma, ea)
                    /\ Operand(Negative(l), ma, ea, Nth(l))
                    /\ Value(l) = Signing(Negative(l), Level(Nth(l)))
  BY WordOperand
<1>2. PICK mb, eb : /\ FromBits(r) = Whole(Negative(r), mb, eb)
                    /\ Operand(Negative(r), mb, eb, Nth(r))
                    /\ Value(r) = Signing(Negative(r), Level(Nth(r)))
  BY WordOperand
<1> DEFINE a == Whole(Negative(l), ma, ea)
           b == Whole(Negative(r), mb, eb)
<1>3. Arithmetic(do, a, b, target)
  BY <1>1, <1>2
<1>4. Negative(r) \in BOOLEAN /\ Level(Nth(r)) \in Nat /\ Operand(~Negative(r), mb, eb, Nth(r))
  <2>1. Negative(r) \in BOOLEAN /\ Nth(r) \in Nat
    BY <1>2 DEF Operand
  <2>2. Level(Nth(r)) \in Nat
    BY <2>1, LevelOrder
  <2>3. Operand(~Negative(r), mb, eb, Nth(r))
    <3> DEFINE other == ~Negative(r)
    <3>1. other \in BOOLEAN
      OBVIOUS
    <3> HIDE DEF other
    <3>2. Operand(other, mb, eb, Nth(r))
      BY <1>2, <3>1, Zenon DEF Operand
    <3>3. QED
      BY <3>2 DEF other
  <2>4. QED
    BY <2>1, <2>2, <2>3
<1>5. CASE do = "AddfS"
  <2> DEFINE num == Signing(Negative(l), Level(Nth(l))) + Signing(Negative(r), Level(Nth(r)))
             precise == WideHolds(num)
             x == Sum(a, b)
             ratio == [num |-> num, den |-> 1]
  <2>1. FinishFloat(x, target)
    BY <1>3, <1>5 DEF Arithmetic
  <2>2. Finishes(x, ratio, precise)
    BY <1>1, <1>2, SumFinishes
  <2>3. precise \in BOOLEAN
    BY DEF WideHolds
  <2>4. exact = ratio
    BY <1>1, <1>2, <1>5 DEF ExactOf
  <2>5. Precise(do, ratio) = precise
    BY <1>5, <2>3 DEF Precise
  <2> HIDE DEF x, ratio, precise, exact
  <2>6. Landed(ratio, precise, target)
    BY <2>1, <2>2, <2>3, FinishFloatLands
  <2>7. QED
    BY <2>4, <2>5, <2>6, Zenon DEF exact
<1>6. CASE do = "SubfS"
  <2> DEFINE num == Signing(Negative(l), Level(Nth(l))) + Signing(~Negative(r), Level(Nth(r)))
             precise == WideHolds(num)
             x == Sum(a, Whole(~Negative(r), mb, eb))
             ratio == [num |-> num, den |-> 1]
  <2>1. FinishFloat(x, target)
    <3>1. FinishFloat(Sum(a, Negated(b)), target)
      BY <1>3, <1>6 DEF Arithmetic
    <3>2. Negated(b) = Whole(~Negative(r), mb, eb)
      BY <1>4, NegatedIs
    <3>3. QED
      BY <3>1, <3>2
  <2>2. Finishes(x, ratio, precise)
    BY <1>1, <1>4, SumFinishes
  <2>3. precise \in BOOLEAN
    BY DEF WideHolds
  <2>4. exact = ratio
    <3>1. exact = [num |-> Value(l) - Value(r), den |-> 1]
      BY <1>6 DEF ExactOf
    <3>2. Value(l) \in Int /\ Value(r) \in Int /\ Signing(~Negative(r), Level(Nth(r))) = -Value(r)
      <4>1. Negative(l) \in BOOLEAN /\ Level(Nth(l)) \in Nat
        BY <1>1, LevelOrder DEF Operand
      <4>2. QED
        BY <1>1, <1>2, <1>4, <4>1, SigningIs
    <3>3. num = Value(l) - Value(r)
      BY <1>1, <3>2
    <3>4. QED
      BY <3>1, <3>3
  <2>5. Precise(do, ratio) = precise
    BY <1>6, <2>3 DEF Precise
  <2> HIDE DEF x, ratio, precise, exact
  <2>6. Landed(ratio, precise, target)
    BY <2>1, <2>2, <2>3, FinishFloatLands
  <2>7. QED
    BY <2>4, <2>5, <2>6, Zenon DEF exact
<1>7. CASE do = "MulfS"
  <2> DEFINE num == Signing(Negative(l), Level(Nth(l))) * Signing(Negative(r), Level(Nth(r)))
             x == Product(a, b)
             ratio == [num |-> num, den |-> ONE]
  <2>1. FinishFloat(x, target)
    BY <1>3, <1>7 DEF Arithmetic
  <2>2. Finishes(x, ratio, TRUE)
    BY <1>1, <1>2, ProductFinishes
  <2>3. exact = ratio
    BY <1>1, <1>2, <1>7 DEF ExactOf
  <2>4. Precise(do, ratio) = TRUE
    BY <1>7 DEF Precise
  <2> HIDE DEF x, ratio, exact
  <2>5. Landed(ratio, TRUE, target)
    BY <2>1, <2>2, FinishFloatLands
  <2>6. QED
    BY <2>3, <2>4, <2>5, Zenon DEF exact
<1>8. CASE do = "DivfS"
  <2> DEFINE q == Signing(Negative(r), Level(Nth(r)))
             num == Signing(q < 0, Signing(Negative(l), Level(Nth(l))) * ONE)
             x == Quotient(a, b)
             ratio == [num |-> num, den |-> Magnitude(q)]
  <2>1. Divide(a, b, target)
    BY <1>3, <1>8 DEF Arithmetic
  <2>2. ~IsZero(b) /\ FinishFloat(x, target)
    <3>1. ~Fault("FIV") /\ ~Fault("FZD")
      BY DEF Fault
    <3>2. QED
      BY <2>1, <3>1, Zenon DEF Divide
  <2>3. Nth(r) # 0
    BY <1>2, <2>2, WordValue
  <2>4. Finishes(x, ratio, TRUE)
    BY <1>1, <1>2, <2>3, QuotientFinishes
  <2>5. exact = ratio
    BY <1>1, <1>2, <1>8 DEF ExactOf
  <2>6. Precise(do, ratio) = TRUE
    BY <1>8 DEF Precise
  <2> HIDE DEF x, ratio, exact
  <2>7. Landed(ratio, TRUE, target)
    BY <2>2, <2>4, FinishFloatLands
  <2>8. QED
    BY <2>5, <2>6, <2>7, Zenon DEF exact
<1>9. QED
  BY <1>5, <1>6, <1>7, <1>8 DEF Calculation

LEMMA WordLands ==
  ASSUME NEW l \in Word, NEW r, NEW target \in {0, 1, 2}, regs \in [{1, 2} -> Word], ConvertWord(target, l)
  PROVE  Landed(ExactOf("CvtWs", l, r), Precise("CvtWs", ExactOf("CvtWs", l, r)), target)
<1> DEFINE n == Signed(l)
           x == Wide(n < 0, IF n < 0 THEN -n ELSE n, 1, 0)
           ratio == [num |-> n * ONE, den |-> 1]
           exact == ExactOf("CvtWs", l, r)
<1>1. FinishFloat(x, target)
  BY Zenon DEF ConvertWord
<1>2. Finishes(x, ratio, TRUE)
  BY IntegerFinishes
<1>3. exact = ratio
  BY DEF ExactOf
<1>4. Precise("CvtWs", exact) = TRUE
  BY DEF Precise
<1> HIDE DEF x, ratio, exact
<1>5. Landed(ratio, TRUE, target)
  BY <1>1, <1>2, FinishFloatLands
<1>6. QED
  BY <1>3, <1>4, <1>5, Zenon DEF exact

NearIInv == /\ ready = TRUE => regs \in [{1, 2} -> Word] /\ computed.op = "none"
            /\ ResultsAreNearest /\ LossIsFlagged

\* An instruction on words, and what is remembered of it.
Stepped(do, l, r, target) ==
  /\ do \in Operations /\ l \in Word /\ r \in Word /\ target \in {0, 1, 2}
  /\ regs \in [{1, 2} -> Word]
  /\ ExecuteFloat(do, 1, target) /\ l = Reg(target) /\ r = Reg(1)
  /\ computed' = [op |-> do, right |-> r, left |-> l, target |-> target, regs |-> regs, sticky |-> sticky]

LEMMA SteppedIs ==
  ASSUME NEW do, NEW l, NEW r, NEW target, Stepped(do, l, r, target)
  PROVE  /\ do \in Operations /\ target \in {0, 1, 2} /\ regs \in [{1, 2} -> Word]
         /\ computed'.op = do /\ computed'.target = target
         /\ computed'.regs = regs /\ computed'.sticky = sticky
         /\ Left' = l /\ Right' = r /\ Result' = regs'[target] /\ Raised' = sticky' \ sticky
         /\ (Finite(Left))' = Finite(l) /\ (Finite(Right))' = Finite(r)
         /\ FiniteCalculation' <=> \/ do = "CvtWs"
                                   \/ do \in Calculation /\ Finite(l) /\ Finite(r) /\ fault' \notin {"FRO", "FIV", "FZD"}
         /\ Calculated' = ExactOf(do, l, r)
<1>1. /\ computed'.op = do /\ computed'.target = target /\ computed'.left = l /\ computed'.right = r
      /\ computed'.regs = regs /\ computed'.sticky = sticky
  BY DEF Stepped
<1>2. Left' = l /\ Right' = r
  BY <1>1 DEF Left, Right
<1>3. Result' = regs'[target] /\ Raised' = sticky' \ sticky
  BY <1>1 DEF Result, Raised
<1>4. (Finite(Left))' = Finite(l) /\ (Finite(Right))' = Finite(r)
  BY <1>2 DEF Finite
<1>5. (Value(Left))' = Value(l) /\ (Value(Right))' = Value(r) /\ (Signed(Left))' = Signed(l)
  BY <1>2 DEF Value, Signed, Negative
<1>6. FiniteCalculation' <=> \/ do = "CvtWs"
                             \/ do \in Calculation /\ Finite(l) /\ Finite(r) /\ fault' \notin {"FRO", "FIV", "FZD"}
  BY <1>1, <1>4 DEF FiniteCalculation
<1>7. Calculated' = ExactOf(do, l, r)
  BY <1>1, <1>5 DEF Calculated, ExactOf
<1>8. QED
  BY <1>1, <1>2, <1>3, <1>4, <1>6, <1>7 DEF Stepped

\* Whatever calculation a step makes of finite operands, it lands.
LEMMA CalculationLands ==
  ASSUME NEW do, NEW l, NEW r, NEW target, Stepped(do, l, r, target), FiniteCalculation'
  PROVE  Landed(ExactOf(do, l, r), Precise(do, ExactOf(do, l, r)), target)
<1> DEFINE right == FromBits(r)
           left == FromBits(l)
           reserved == ReservedOperand(left) \/ ReservedOperand(right)
<1>1. \/ do = "CvtWs" /\ ConvertWord(target, l)
      \/ do \in {"CvtSw", "TrncSw"} /\ ConvertFloat(do, right, target)
      \/ do \in Arithmetics /\ reserved /\ Fault("FRO")
      \/ do \in Arithmetics /\ ~reserved /\ Arithmetic(do, left, right, target)
  BY Zenon DEF Stepped, ExecuteFloat
<1>2. \/ do = "CvtWs"
      \/ do \in Calculation /\ Finite(l) /\ Finite(r) /\ fault' \notin {"FRO", "FIV", "FZD"}
  BY SteppedIs
<1>3. l \in Word /\ r \in Word /\ target \in {0, 1, 2} /\ regs \in [{1, 2} -> Word]
  BY Zenon DEF Stepped
<1> HIDE DEF right, left, reserved
<1>4. CASE do = "CvtWs"
  <2>1. ConvertWord(target, l)
    BY <1>1, <1>4 DEF Arithmetics
  <2>2. QED
    BY <1>3, <1>4, <2>1, WordLands
<1>5. CASE do \in Calculation /\ Finite(l) /\ Finite(r) /\ fault' \notin {"FRO", "FIV", "FZD"}
  <2>1. ~Fault("FRO")
    BY <1>5 DEF Fault
  <2>2. Arithmetic(do, left, right, target)
    BY <1>1, <1>5, <2>1 DEF Calculation
  <2>3. fault' \notin {"FIV", "FZD"}
    BY <1>5
  <2>4. Arithmetic(do, FromBits(l), FromBits(r), target)
    BY <2>2 DEF left, right
  <2>5. QED
    BY <1>3, <1>5, <2>3, <2>4, ArithmeticLands
<1>6. QED
  BY <1>2, <1>4, <1>5

\* And a conversion of a finite number converts it.
LEMMA ConversionLands ==
  ASSUME NEW do, NEW l, NEW r, NEW target, Stepped(do, l, r, target),
         do \in {"CvtSw", "TrncSw"}, Finite(r), fault' # "FRO"
  PROVE  Converted(do, Value(r), target)
<1> DEFINE right == FromBits(r)
           left == FromBits(l)
           reserved == ReservedOperand(left) \/ ReservedOperand(right)
<1>1. \/ do = "CvtWs" /\ ConvertWord(target, l)
      \/ do \in {"CvtSw", "TrncSw"} /\ ConvertFloat(do, right, target)
      \/ do \in Arithmetics /\ reserved /\ Fault("FRO")
      \/ do \in Arithmetics /\ ~reserved /\ Arithmetic(do, left, right, target)
  BY Zenon DEF Stepped, ExecuteFloat
<1>2. r \in Word /\ target \in {0, 1, 2} /\ regs \in [{1, 2} -> Word]
  BY Zenon DEF Stepped
<1> HIDE DEF left, right, reserved
<1>3. ConvertFloat(do, right, target)
  BY <1>1 DEF Arithmetics
<1>4. ConvertFloat(do, FromBits(r), target)
  BY <1>3 DEF right
<1>5. QED
  BY <1>2, <1>4, ConvertConverts

LEMMA NearestStep ==
  ASSUME NEW do, NEW l, NEW r, NEW target, Stepped(do, l, r, target)
  PROVE  ResultsAreNearest'
<1>1. /\ do \in Operations /\ target \in {0, 1, 2} /\ regs \in [{1, 2} -> Word]
      /\ computed'.op = do /\ computed'.target = target
      /\ computed'.regs = regs /\ computed'.sticky = sticky
      /\ Left' = l /\ Right' = r /\ Result' = regs'[target] /\ Raised' = sticky' \ sticky
      /\ (Finite(Left))' = Finite(l) /\ (Finite(Right))' = Finite(r)
      /\ Calculated' = ExactOf(do, l, r)
  BY SteppedIs
<1>2. CalculationsAreNearest'
  <2> DEFINE exact == ExactOf(do, l, r)
             word == regs'[target]
  <2> SUFFICES ASSUME FiniteCalculation'
               PROVE  /\ fault' = "FOV" <=> (Overflowing(Calculated))'
                      /\ computed'.target # 0 /\ fault' = "None" =>
                           IF (Underflowing(Calculated))' THEN Result' = 0
                           ELSE /\ (Finite(Result))' /\ ~(ReservedOperand(FromBits(Result)))'
                                /\ (Nearest(Calculated, Result))'
    BY Zenon DEF CalculationsAreNearest
  <2>1. Landed(exact, Precise(do, exact), target)
    BY CalculationLands
  <2> HIDE DEF exact, word
  <2>2. /\ fault' = "FOV" <=> Overflowing(exact)
        /\ fault' = "None" => (target # 0 => IF Underflowing(exact) THEN word = 0
                                             ELSE /\ Finite(word) /\ ~ReservedOperand(FromBits(word))
                                                  /\ Nearest(exact, word))
    BY <2>1, Zenon DEF Landed, word
  <2>3. Calculated' = exact /\ Result' = word
    BY <1>1 DEF exact, word
  <2>4. (Overflowing(Calculated))' <=> Overflowing(exact)
    BY <2>3 DEF Overflowing, Magnitude
  <2>5. (Underflowing(Calculated))' <=> Underflowing(exact)
    BY <2>3 DEF Underflowing, Magnitude
  <2>6. (Finite(Result))' = Finite(word) /\ (FromBits(Result))' = FromBits(word)
    BY <2>3 DEF Finite
  <2>7. (ReservedOperand(FromBits(Result)))' = ReservedOperand(FromBits(word))
    BY <2>6 DEF ReservedOperand, Tiny, IsZero, Below
  <2>8. (Nearest(Calculated, Result))' = Nearest(exact, word)
    BY <2>3 DEF Nearest, Neighbours, Distance, Magnitude, Value, Finite, Negative
  <2>9. QED
    BY <1>1, <2>2, <2>3, <2>4, <2>5, <2>6, <2>7, <2>8, Zenon
<1>3. ConversionsAreNearest'
  <2> DEFINE value == Value(r)
             x == Magnitude(value)
             n == Signed(regs'[target])
             least == 2^(FLOAT_BITS - 1)
  <2>1. CASE do \in {"CvtSw", "TrncSw"} /\ Finite(r) /\ fault' # "FRO"
    <3>1. Converted(do, value, target)
      BY <2>1, ConversionLands
    <3>2. (Value(Right))' = value /\ (Signed(Result))' = n
      BY <1>1 DEF Value, Signed, Negative
    <3> HIDE DEF value
    <3>3. /\ fault' = "None" /\ target # 0 =>
               /\ Fitting(do, Magnitude(n), x)
               /\ n # 0 => (n < 0 <=> value < 0)
          /\ fault' = "FIV" <=> \A k \in 0..least : Fitting(do, k, x) => k = least /\ value > 0
      BY <3>1, Zenon DEF Converted
    <3> HIDE DEF x, n, least
    <3>4. (Magnitude(Value(Right)))' = x /\ (Magnitude(Signed(Result)))' = Magnitude(n)
      BY <3>2 DEF Magnitude, x
    <3>5. QED
      BY <1>1, <3>2, <3>3, <3>4 DEF ConversionsAreNearest, Fitting, least
  <2>2. CASE ~(do \in {"CvtSw", "TrncSw"} /\ Finite(r) /\ fault' # "FRO")
    BY <1>1, <2>2, Zenon DEF ConversionsAreNearest
  <2>3. QED
    BY <2>1, <2>2
<1>4. fault' # "None" => regs' = computed'.regs /\ sticky' = computed'.sticky \cup {fault'}
  <2> SUFFICES ASSUME fault' # "None" PROVE regs' = regs /\ sticky' = sticky \cup {fault'}
    BY <1>1, Zenon
  <2>1. ExecuteFloat(do, 1, target)
    BY Zenon DEF Stepped
  <2>2. QED
    BY <1>1, <2>1, FaultLeaves
<1>5. QED
  BY <1>2, <1>3, <1>4, Zenon DEF ResultsAreNearest

\* A conversion that does not fault leaves the sticky flags alone.
LEMMA ConversionRaisesNothing ==
  ASSUME NEW do, NEW l, NEW r, NEW target, Stepped(do, l, r, target),
         do \in {"CvtSw", "TrncSw"}, fault' = "None"
  PROVE  sticky' = sticky
<1> DEFINE right == FromBits(Reg(1))
           left == FromBits(Reg(target))
           reserved == ReservedOperand(left) \/ ReservedOperand(right)
<1>1. \/ do = "CvtWs" /\ ConvertWord(target, Reg(target))
      \/ do \in {"CvtSw", "TrncSw"} /\ ConvertFloat(do, right, target)
      \/ do \in Arithmetics /\ reserved /\ Fault("FRO")
      \/ do \in Arithmetics /\ ~reserved /\ Arithmetic(do, left, right, target)
  BY Zenon DEF Stepped, ExecuteFloat
<1> HIDE DEF right, left, reserved
<1>2. ConvertFloat(do, right, target)
  BY <1>1 DEF Arithmetics
<1>3. ~Fault("FRO") /\ ~Fault("FIV")
  BY DEF Fault
<1>4. \E n : FinishInteger(n, target)
  BY <1>2, <1>3, Zenon DEF ConvertFloat
<1>5. \E word : Finish(target, word, {})
  BY <1>3, <1>4, Zenon DEF FinishInteger
<1>6. QED
  BY <1>5 DEF Finish

LEMMA LossStep ==
  ASSUME NEW do, NEW l, NEW r, NEW target, Stepped(do, l, r, target)
  PROVE  LossIsFlagged'
<1> DEFINE exact == ExactOf(do, l, r)
           word == regs'[target]
           inexact == Value(word) * exact.den # exact.num
           precise == Precise(do, exact)
<1>1. /\ computed'.op = do /\ computed'.target = target /\ computed'.sticky = sticky
      /\ Result' = word /\ Raised' = sticky' \ sticky /\ Calculated' = exact
  BY SteppedIs
<1>6. do \in ToInteger /\ fault' = "None" => sticky' = sticky
  BY ConversionRaisesNothing DEF ToInteger
<1> SUFFICES ASSUME FiniteCalculation', fault' = "None"
             PROVE  /\ "FUD" \in sticky' <=> "FUD" \in sticky \/ Underflowing(exact)
                    /\ "FPR" \in sticky' \ sticky /\ target # 0 => inexact /\ ~Underflowing(exact)
                    /\ target # 0 /\ inexact /\ ~Underflowing(exact) =>
                         \/ "FPR" \in sticky'
                         \/ do \in {"AddfS", "SubfS"} /\ ~WideHolds(exact.num)
  <2> HIDE DEF exact, word
  <2>1. (Underflowing(Calculated))' <=> Underflowing(exact)
    BY <1>1 DEF Underflowing, Magnitude
  <2>2. (Value(Result) * Calculated.den # Calculated.num)' <=> inexact
    BY <1>1 DEF Value
  <2>3. (WideHolds(Calculated.num))' <=> WideHolds(exact.num)
    BY <1>1 DEF WideHolds, Magnitude, Bits
  <2> HIDE DEF inexact
  <2>4. QED
    BY <1>1, <1>6, <2>1, <2>2, <2>3 DEF LossIsFlagged
<1>2. Landed(exact, precise, target)
  BY CalculationLands
<1> HIDE DEF exact, precise
<1>3. /\ "FUD" \in sticky' <=> "FUD" \in sticky \/ Underflowing(exact)
      /\ "FPR" \in sticky' \ sticky /\ target # 0 => inexact /\ ~Underflowing(exact)
      /\ target # 0 /\ inexact /\ ~Underflowing(exact) /\ precise => "FPR" \in sticky'
  BY <1>2, Zenon DEF Landed
<1>4. ~precise => do \in {"AddfS", "SubfS"} /\ ~WideHolds(exact.num)
  BY DEF precise, exact, Precise
<1>5. QED
  BY <1>3, <1>4, Zenon

LEMMA NearStep ==
  ASSUME NearIInv, FpuNext
  PROVE  NearIInv'
<1>1. PICK do \in Operations, reg2 \in {0, 1, 2} :
        /\ ExecuteFloat(do, 1, reg2)
        /\ computed' = [op |-> do, right |-> Reg(1), left |-> Reg(reg2), target |-> reg2,
                        regs |-> regs, sticky |-> sticky]
  BY DEF FpuNext
<1>2. ready = TRUE /\ ready' = FALSE
  <2>1. ready /\ ready' = FALSE
    BY <1>1 DEF ExecuteFloat
  <2>2. QED
    BY <2>1
<1>3. regs \in [{1, 2} -> Word]
  BY <1>2 DEF NearIInv
<1>4. Reg(1) \in Word /\ Reg(reg2) \in Word
  BY <1>3, ZeroWord DEF Reg
<1> DEFINE l == Reg(reg2)
           r == Reg(1)
<1>5. Stepped(do, l, r, reg2)
  BY <1>1, <1>3, <1>4, Zenon DEF Stepped
<1>6. ResultsAreNearest' /\ LossIsFlagged'
  <2> HIDE DEF l, r
  <2>1. QED
    BY <1>5, NearestStep, LossStep
<1>7. QED
  BY <1>2, <1>6 DEF NearIInv

LEMMA NearStart ==
  ASSUME FpuInit
  PROVE  NearIInv
<1>1. computed.op = "none" /\ regs \in [{1, 2} -> Word]
  BY DEF FpuInit, FloatInit
<1>2. ~FiniteCalculation
  BY <1>1 DEF FiniteCalculation, Calculation
<1>3. QED
  BY <1>1, <1>2 DEF NearIInv, ResultsAreNearest, LossIsFlagged, ToInteger

\* What `ConversionsAreNearest' says of the words it looks at.
ConversionOf(do, target, raised, right, result) ==
  do \in {"CvtSw", "TrncSw"} /\ Finite(right) /\ raised # "FRO" =>
    LET x == Magnitude(Value(right))
        n == Signed(result)
        least == 2^(FLOAT_BITS - 1)
    IN  /\ raised = "None" /\ target # 0 =>
             /\ Fitting(do, Magnitude(n), x)
             /\ n # 0 => (n < 0 <=> Value(right) < 0)
        /\ raised = "FIV" <=> \A k \in 0..least : Fitting(do, k, x) => k = least /\ Value(right) > 0

LEMMA ConversionIs ==
  ConversionsAreNearest <=> ConversionOf(computed.op, computed.target, fault, Right, Result)
  BY Zenon DEF ConversionsAreNearest, ConversionOf, Fitting

LEMMA NearKept ==
  ASSUME NearIInv, UNCHANGED fpuVars
  PROVE  NearIInv'
<1>1. regs' = regs /\ sticky' = sticky /\ fault' = fault /\ ready' = ready /\ computed' = computed
  BY DEF fpuVars, floatVars
<1>2. Left' = Left /\ Right' = Right /\ Result' = Result /\ Raised' = Raised
  BY <1>1 DEF Left, Right, Result, Raised
<1>3. FiniteCalculation' <=> FiniteCalculation
  BY <1>1, <1>2 DEF FiniteCalculation, Finite
<1>4. Calculated' = Calculated
  BY <1>1, <1>2 DEF Calculated, Value, Signed, Negative
<1>5. ResultsAreNearest' <=> ResultsAreNearest
  <2>1. /\ (Finite(Result))' <=> Finite(Result)
        /\ (ReservedOperand(FromBits(Result)))' <=> ReservedOperand(FromBits(Result))
    BY <1>2 DEF Finite, ReservedOperand, Tiny, IsZero, Below
  <2>2. /\ (Overflowing(Calculated))' <=> Overflowing(Calculated)
        /\ (Underflowing(Calculated))' <=> Underflowing(Calculated)
    BY <1>4 DEF Overflowing, Underflowing, Magnitude
  <2>3. (Nearest(Calculated, Result))' <=> Nearest(Calculated, Result)
    BY <1>2, <1>4 DEF Nearest, Neighbours, Distance, Magnitude, Value, Finite, Negative
  <2>4. CalculationsAreNearest' <=> CalculationsAreNearest
    BY <1>1, <1>2, <1>3, <2>1, <2>2, <2>3, Zenon DEF CalculationsAreNearest
  <2>5. ConversionsAreNearest' <=> ConversionsAreNearest
    <3>1. (ConversionsAreNearest <=> ConversionOf(computed.op, computed.target, fault, Right, Result))'
      BY ConversionIs, PTL
    <3>2. (ConversionOf(computed.op, computed.target, fault, Right, Result))'
            <=> ConversionOf(computed.op, computed.target, fault, Right, Result)
      BY <1>1, <1>2
    <3>3. QED
      BY <3>1, <3>2, ConversionIs, Zenon
  <2>6. QED
    BY <1>1, <2>4, <2>5, Zenon DEF ResultsAreNearest
<1>6. LossIsFlagged' <=> LossIsFlagged
  BY <1>1, <1>2, <1>3, <1>4 DEF LossIsFlagged, ToInteger, Underflowing, Magnitude, Value, WideHolds
<1>7. QED
  BY <1>1, <1>5, <1>6, Zenon DEF NearIInv

\* Whatever the widths of exponent and fraction, a calculation leaves the
\* number nearest to its exact result and a conversion the integer nearest to
\* its operand, or they fault as they should: what is rounded to f64 and then
\* to the register is as if it had been rounded once.
THEOREM CalculationsRoundOnce == FpuSpec => []ResultsAreNearest
<1>1. FpuInit => NearIInv
  BY NearStart
<1>2. NearIInv /\ [FpuNext]_fpuVars => NearIInv'
  BY NearStep, NearKept
<1>3. NearIInv => ResultsAreNearest
  BY DEF NearIInv
<1>4. QED
  BY <1>1, <1>2, <1>3, PTL DEF FpuSpec

\* Whatever the widths, a calculation whose result is not the exact one has
\* raised a flag and an exact one none, but for the sums that f64 has no place
\* for; and no conversion to an integer raises any, though it may drop a
\* fraction.
THEOREM FlagsTellTheLoss == FpuSpec => []LossIsFlagged
<1>1. FpuInit => NearIInv
  BY NearStart
<1>2. NearIInv /\ [FpuNext]_fpuVars => NearIInv'
  BY NearStep, NearKept
<1>3. NearIInv => LossIsFlagged
  BY DEF NearIInv
<1>4. QED
  BY <1>1, <1>2, <1>3, PTL DEF FpuSpec

==============================================================================
