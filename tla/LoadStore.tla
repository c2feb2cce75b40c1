------------------------------ MODULE LoadStore -------------------------------
(* Loads, stores, IN, OUT, CAXI, XB and XH as the processor executes them     *)
(* over the bus, and the cycles every instruction charges: step and execute   *)
(* of src/crates/vb-core/src/cpu/exec.rs.                                     *)
(*                                                                            *)
(* An instruction is fetched, with the registers the program has by then      *)
(* computed, and executed.  What the other instructions do to registers and   *)
(* flags is in Alu, BitString and CpuControl, and comes in here again with    *)
(* the registers of the next fetch.  Registers hold <<low, high>> halfwords.  *)
EXTENDS Decode, Bus

CONSTANTS Program,      \* what may be fetched: [words, regs]
          FirstWords,   \* what may be fetched by a program of one instruction
          Pictures,     \* what programs may have left in video memory
          RaiseSets,    \* the flags the video processor raises together
          MaxAccesses   \* bound: instructions of a program

VARIABLES bus,
          fetched,            \* the words to execute next, or Nothing
          regs,               \* the registers that are not zero, by number
          zero,               \* the zero flag: whether CAXI exchanged
          prev_was_load,      \* the processor's memory of its last accesses,
          consecutive_stores, \*   which the charge of the next depends on
          charged,            \* cycles of the last instruction
          accesses            \* instructions fetched

timing == <<prev_was_load, consecutive_stores>>
vars == <<bus, fetched, regs, zero, timing, charged, accesses>>

Word == Half \X Half
Nothing == <<>>

ASSUME LoadStoreAssumption ==
  /\ MaxAccesses \in Nat
  /\ FirstWords \subseteq Word
  /\ \A step \in Program :
       /\ step.words \in Word
       /\ DOMAIN step.regs \subseteq 1..31
       /\ \A r \in DOMAIN step.regs : step.regs[r] \in Word
  /\ RaiseSets \subseteq SUBSET INT_MASK
  /\ \A vram \in Pictures : \A at \in DOMAIN vram : vram[at] \in Byte

-----------------------------------------------------------------------------
\* The second halfword is read only when the first asks for it.
Fetched(words) == DecodeWords(words[1], IF InstructionWidth(words[1]) = 4 THEN words[2] ELSE 0)

NoRegs == [r \in {} |-> <<0, 0>>]
RegOf(registers, number) == IF number \in DOMAIN registers THEN registers[number] ELSE <<0, 0>>
Reg(number) == RegOf(regs, number)

\* r0 ignores what is written to it.
SetReg(number, word) ==
  regs' = [r \in DOMAIN regs \cup ({number} \ {0}) |-> IF r = number THEN word ELSE regs[r]]

\* The sum of register and displacement, as the bus sees it.
AddressFrom(registers, i) ==
  LET base == RegOf(registers, i.reg1) IN (base[1] + 2^16 * (base[2] % 2^11) + i.imm) % ADDRESS_LEN
EffectiveAddress(i) == AddressFrom(regs, i)

SignExtendByte(byte) == IF byte >= 2^7 THEN <<byte + \hFF00, \hFFFF>> ELSE <<byte, 0>>
SignExtendHalfword(half) == IF half >= 2^15 THEN <<half, \hFFFF>> ELSE <<half, 0>>

Loads  == {"LdB", "LdH", "LdW", "InB", "InH", "InW"}
Swaps  == {"Xb", "Xh"}
Stores == {"StB", "StH", "StW", "OutB", "OutH", "OutW"}

Loaded(op, addr) ==
  CASE op = "LdB"           -> SignExtendByte(ReadU8(bus, addr))
    [] op = "InB"           -> <<ReadU8(bus, addr), 0>>
    [] op = "LdH"           -> SignExtendHalfword(ReadU16(bus, addr))
    [] op = "InH"           -> <<ReadU16(bus, addr), 0>>
    [] op \in {"LdW", "InW"} -> ReadU32(bus, addr)

Stored(op, addr, word) ==
  CASE op \in {"StB", "OutB"} -> StoreU8(bus, addr, word[1])
    [] op \in {"StH", "OutH"} -> WriteU16(bus, addr, word[1])
    [] op \in {"StW", "OutW"} -> WriteU32(bus, addr, word)

-----------------------------------------------------------------------------
(* Cycles.  Only whether two stores came before counts, so the count of them, *)
(* which saturates, stops at STORES_SEEN.                                     *)

STORES_SEEN == 2

LoadCycles == /\ charged' = IF prev_was_load THEN 4 ELSE 5
              /\ prev_was_load' = TRUE
              /\ consecutive_stores' = 0

StoreCycles ==
  /\ charged' = IF consecutive_stores < 2 THEN 1 ELSE 4
  /\ consecutive_stores' = IF consecutive_stores = STORES_SEEN THEN STORES_SEEN ELSE consecutive_stores + 1
  /\ prev_was_load' = FALSE

PlainCycles(cycles) == /\ charged' = cycles
                       /\ prev_was_load' = FALSE
                       /\ consecutive_stores' = 0

FloatCycles(op) ==
  CASE op = "CmpfS" -> 7
    [] op = "CvtWs" -> 5
    [] op \in {"CvtSw", "TrncSw", "AddfS"} -> 9
    [] op = "SubfS" -> 12
    [] op = "MulfS" -> 8
    [] op = "DivfS" -> 44

\* What an instruction of another module may charge: a division by zero is
\* charged as one that works or more, a branch by whether it is taken.
OtherCycles(op) ==
  CASE op \in {"Mul", "Mulu"} -> {13}
    [] op = "Div"  -> {38}
    [] op = "Divu" -> {36, 38}
    [] op \in {"Jmp", "Jr", "Jal"} -> {3}
    [] op = "Bcond" -> {1, 3}
    [] op \in {"Ldsr", "Stsr"} -> {8}
    [] op = "Reti" -> {10}
    [] op = "Trap" -> {15}
    [] op \in {"Cli", "Sei"} -> {12}
    [] op = "Xb" -> {6}
    [] op = "Rev" -> {22}
    [] op = "Mpyhw" -> {9}
    [] op \in {"CmpfS", "CvtWs", "CvtSw", "AddfS", "SubfS", "MulfS", "DivfS", "TrncSw"} ->
         {FloatCycles(op)}
    [] OTHER -> {1}

-----------------------------------------------------------------------------
(* The instructions.                                                          *)

Load(i) ==
  /\ i.op \in Loads
  /\ SetReg(i.reg2, Loaded(i.op, EffectiveAddress(i)))
  /\ LoadCycles
  /\ UNCHANGED <<bus, zero>>

Store(i) ==
  /\ i.op \in Stores
  /\ bus' = Stored(i.op, EffectiveAddress(i), Reg(i.reg2))
  /\ StoreCycles
  /\ UNCHANGED <<regs, zero>>

\* The word is written back even when the comparison fails.
CaxiWrites(old, expected, new) == IF expected = old THEN new ELSE old

Caxi(i) ==
  LET address == EffectiveAddress(i)
      old == ReadU32(bus, address)
  IN  /\ i.op = "Caxi"
      /\ zero' = (Reg(i.reg2) = old)
      /\ bus' = WriteU32(bus, address, CaxiWrites(old, Reg(i.reg2), Reg(30)))
      /\ SetReg(i.reg2, old)
      /\ PlainCycles(26)

\* XB swaps the low bytes, XH the halves.
Swap(i) ==
  LET word == Reg(i.reg2)
  IN  /\ i.op \in Swaps
      /\ SetReg(i.reg2, CASE i.op = "Xb" -> <<Halfword(HighByte(word[1]), LowByte(word[1])), word[2]>>
                           [] i.op = "Xh" -> <<word[2], word[1]>>)
      /\ \E cycles \in OtherCycles(i.op) : PlainCycles(cycles)
      /\ UNCHANGED <<bus, zero>>

Other(i) ==
  /\ i.op \notin Loads \cup Stores \cup Swaps \cup {"Caxi"} \cup Illegal
  /\ \E cycles \in OtherCycles(i.op) : PlainCycles(cycles)
  /\ zero' \in BOOLEAN
  /\ UNCHANGED <<bus, regs>>

\* An exception is raised instead; it charges nothing and is CpuControl's.
IllegalInstruction(i) == /\ i.op \in Illegal
                         /\ charged' = 0
                         /\ UNCHANGED <<bus, regs, zero, timing>>

Fetch ==
  /\ fetched = Nothing
  /\ accesses < MaxAccesses
  /\ \E step \in Program : fetched' = step.words /\ regs' = step.regs
  /\ accesses' = accesses + 1
  /\ bus' = [bus EXCEPT !.posted = <<>>]
  /\ UNCHANGED <<zero, timing, charged>>

Execute ==
  /\ fetched # Nothing
  /\ fetched' = Nothing
  /\ LET i == Fetched(fetched)
     IN  Load(i) \/ Store(i) \/ Caxi(i) \/ Swap(i) \/ Other(i) \/ IllegalInstruction(i)
  /\ UNCHANGED accesses

\* The video processor, between two instructions.
RaiseVip ==
  /\ fetched = Nothing
  /\ \E flags \in RaiseSets : bus' = [bus EXCEPT !.vip.regs = Raise(@, flags)]
  /\ UNCHANGED <<fetched, regs, zero, timing, charged, accesses>>

Init == /\ regs = NoRegs
        /\ zero = FALSE
        /\ prev_was_load = FALSE
        /\ consecutive_stores = 0
        /\ charged = 0
        /\ \/ fetched = Nothing /\ accesses = 0 /\ bus = NewBus
           \/ fetched \in FirstWords /\ accesses = MaxAccesses /\ bus = NewBus
           \/ /\ fetched = Nothing /\ accesses = MaxAccesses
              /\ \E vram \in Pictures : bus = [NewBus EXCEPT !.vip.vram = vram]

Next == Fetch \/ Execute \/ RaiseVip

Spec == Init /\ [][Next]_vars
=============================================================================
