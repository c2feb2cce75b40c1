--------------------------- MODULE BitStringResult ---------------------------
(* What a bit string instruction computes, as if it ran in one piece, and     *)
(* that the passes of bitstring.rs get there however they are interrupted.    *)
EXTENDS BitString

VARIABLES promise,  \* what the instruction was to leave when it began, with the
                    \* stores made since
          strings,  \* the bits its strings cover
          tangled   \* it overwrites bits that it has yet to read

resultVars == <<memory, operands, zero, op, done, promise, strings, tangled>>

-----------------------------------------------------------------------------
\* Bit i of the strings that registers name, whole.
SourceBit(r, way, i)   == Bit(Aligned(r.src_word), (r.src_offset % WORD_BITS) + way * i)
DestinationBit(r, i)   == Bit(Aligned(r.dst_word), (r.dst_offset % WORD_BITS) + i)
Indices(r) == 0..(r.length - 1)

\* Where a string that starts at a word and offset ends: the bits before it,
\* counted from address zero, tell word and offset.
EndWord(word, offset, moved) ==
  LET bits == (Aligned(word) \div WORD_BYTES) * WORD_BITS + (offset % WORD_BITS) + moved
  IN  ((bits \div WORD_BITS) * WORD_BYTES) % MODULUS
EndOffset(offset, moved) == (offset + moved) % WORD_BITS

\* Every destination bit is combined with its source bit as they both were.
StringOutcome(instruction, r, mem, flag) ==
  [memory |-> {bit \in MemoryBits :
                 IF \E i \in Indices(r) : DestinationBit(r, i) = bit
                 THEN \E i \in Indices(r) :
                        /\ DestinationBit(r, i) = bit
                        /\ Combine(instruction, SourceBit(r, 1, i) \in mem, bit \in mem)
                 ELSE bit \in mem},
   zero |-> flag,
   operands |-> [src_word   |-> EndWord(r.src_word, r.src_offset, r.length),
                 src_offset |-> EndOffset(r.src_offset, r.length),
                 dst_word   |-> EndWord(r.dst_word, r.dst_offset, r.length),
                 dst_offset |-> EndOffset(r.dst_offset, r.length),
                 length     |-> 0]]

\* The first wanted bit of the whole string, the bits before it counted.
SearchOutcome(instruction, r, mem) ==
  LET way == Way(instruction)
      hits == {i \in Indices(r) : (SourceBit(r, way, i) \in mem) = Wanted(instruction)}
      moved == IF hits = {} THEN r.length ELSE Least(hits) + 1
  IN  [memory |-> mem,
       zero |-> hits = {},
       operands |-> [src_word   |-> EndWord(r.src_word, r.src_offset, way * moved),
                     src_offset |-> EndOffset(r.src_offset, way * moved),
                     dst_word   |-> (r.dst_word + moved - (IF hits = {} THEN 0 ELSE 1)) % MODULUS,
                     dst_offset |-> r.dst_offset,
                     length     |-> r.length - moved]]

Outcome(instruction, r, mem, flag) ==
  IF instruction \in SearchOp THEN SearchOutcome(instruction, r, mem)
                               ELSE StringOutcome(instruction, r, mem, flag)

Covered(instruction, r) ==
  IF instruction \in SearchOp
  THEN {SourceBit(r, Way(instruction), i) : i \in Indices(r)}
  ELSE {SourceBit(r, 1, i) : i \in Indices(r)} \cup {DestinationBit(r, i) : i \in Indices(r)}

\* A bit written before it is read, or written twice.
Tangled(instruction, r) ==
  /\ instruction \in StringOp
  /\ \E i, j \in Indices(r) :
       /\ i < j
       /\ DestinationBit(r, i) \in {SourceBit(r, 1, j), DestinationBit(r, j)}

-----------------------------------------------------------------------------
ResultInit == /\ Init
              /\ promise = Outcome(op, operands, memory, zero)
              /\ strings = Covered(op, operands)
              /\ tangled = Tangled(op, operands)

ResultPass == /\ Pass
              /\ UNCHANGED <<promise, strings, tangled>>

\* A handler that leaves the strings alone; the bits beside them, in the very
\* words the passes rewrite, are its to change.
ResultStore(bit) ==
  /\ bit \notin strings
  /\ Store(bit)
  /\ promise' = [promise EXCEPT !.memory = (@ \ {bit}) \cup (memory' \cap {bit})]
  /\ UNCHANGED <<strings, tangled>>

ResultNext == ResultPass \/ \E bit \in MemoryBits : ResultStore(bit)

\* The program counter stays at the instruction, so it is executed again
\* whenever a handler returns.
ResultSpec == ResultInit /\ [][ResultNext]_resultVars /\ WF_resultVars(ResultPass)

-----------------------------------------------------------------------------
\* What is left of an instruction is in the registers and memory alone: started
\* afresh from them, at any point between two passes and after any stores of a
\* handler beside the strings, it would leave what it was to leave when it
\* began (the program counter that stays put, and the re-entry rule).
Resumable ==
  ~done => LET rest == Outcome(op, operands, memory, zero)
           IN  /\ rest.operands = promise.operands /\ rest.zero = promise.zero
               /\ tangled \/ rest.memory = promise.memory

\* An instruction that is done has left what bit by bit it should: every
\* destination bit, no other bit of the words it rewrote, the flag, and
\* registers that point just behind the strings or the bit found.
ResultIsWhole ==
  done => /\ operands = promise.operands /\ zero = promise.zero
          /\ tangled \/ memory = promise.memory

\* However long the string and however often it is interrupted, every
\* instruction comes to its end.
StringEnds == ~done ~> done
=============================================================================
