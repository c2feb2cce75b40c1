# Vermillion in TLA+

Vermillion is a Virtual Boy emulator: a V810 processor, a bus with its devices
(interval timer, game pad, video registers), a cartridge, and a headless trace
loop that runs a ROM and prints one line per instruction. This directory holds
TLA+ models of that program, the TLC configurations that check them on small
instances, and proofs of the main theorems for every value of the constants.

Source paths below are relative to `src/crates/`; `vb-core/src/` is left out
where it is plain. `PROJECT.json` names, for every definition that models code,
the file and the lines it translates.

## 1. The system

### Components

| Component | Source | State | Operations | Interacts with |
|---|---|---|---|---|
| Interval timer | `timer.rs` | counter, reload, tick counter, partial interval, four flags, pending | `tick`, byte writes to TLR, THR, TCR | bus: ticks, register bytes, `pending`, `may_raise` |
| Game pad port | `pad.rs` | buttons, data word, shift register and position, latch, abort, read in progress, inhibit, pending | `tick`, writes to SCR, `set_buttons` | bus as above; the player |
| Interrupt sources | `interrupt.rs`, `bus.rs` | none of its own | first raised source of a priority table; who may raise | processor asks, devices answer |
| Processor control | `cpu/exec.rs`, `cpu/state.rs` | pc, PSW, EIPC/EIPSW, FEPC/FEPSW, ECR, ADTRE, halted | `step`, `raise`, RETI, HALT, CLI/SEI, LDSR, TRAP | bus (interrupt lines, fatal dump) |
| Arithmetic | `cpu/exec.rs` | r0 to r31, Z S OV CY | ADD … DIVU, shifts, logic, SETF, branches, REV, MPYHW | decoder (conditions) |
| Loads and stores | `cpu/exec.rs` | registers, the memory of the last accesses the cycles depend on | LD, ST, IN, OUT, CAXI, XB, XH | bus |
| Bit strings | `cpu/bitstring.rs` | r26 to r30, memory, Z | one word per call, eight operations, four searches | `step` repeats the instruction; interrupts land in between |
| Instruction cache | `cpu/cache.rs` | blocks, tags, enable bit | fill at a fetch, clear, dump, restore | bus (spill areas, also over device registers) |
| Floating point | `cpu/fpu.rs` | FPU flags of PSW | arithmetic, conversions, faults | processor control (faults) |
| Decoder | `cpu/decode.rs` | none | word to instruction; branch conditions | processor |
| Bus | `bus.rs` | WRAM, the devices | reads and writes of 8, 16, 32 bits, `tick`, `raised`, `may_raise` | everything |
| Cartridge | `cart.rs` | ROM, save RAM | header, mirrored reads and writes | bus |
| VIP registers | `vip/registers.rs` | interrupt flags and their enables, display and drawing control, settings | reads, writes, resets, `raise` | no interrupt line yet; `raise` has no caller |
| VIP memory map | `vip/mod.rs` | video memory | reads and writes of every width, character mirror | bus; registers |
| VIP structures | `vip/structures.rs` | none | characters, cells, objects, worlds, row parameters, columns | read out of the memory map by a renderer to come |
| Wait controller | `wait.rs` | one register | read, write | bus |
| Trace loop | `vb-headless/src/main.rs` | limits and counters | step, tick, count, stop | drives the processor and the bus |
| Disassembler, ROM report, frontend | `vb-debug`, `vb-headless`, `vb-frontend` | none | text output | – |

### What is hard

The emulator is one thread. Its difficulty is not preemption but the order of
calls: a register is written byte by byte while time passes between the bytes;
a hardware read of the pad ends in the middle of a software read; an interrupt
lands between two words of a bit string; a store in one instruction changes
what the processor finds at the start of the next. Three protocols run across
components:

* **Waking.** A halted processor asks the bus who *may* raise. If nobody whose
  interrupt it would accept may, the halt is permanent and the trace stops;
  otherwise it idles, and idling is bounded by nothing but the wake. The
  devices' `may_raise` is a promise about their own future.
* **Exceptions.** Two banks of save registers, chosen by EP and NP, nest
  interrupts, traps and faults; a third is fatal. Exception entries charge no
  cycle, so a chain of them could stop time.
* **The cache's spill.** One control word holds a clear range, an address and
  three operation bits in shared bits; the area it names may mirror onto itself,
  leave memory, cover cached code, or lie over the device registers.
* **Memory.** A byte has several addresses: regions repeat, small memories
  repeat inside a word, the character tables have a mirror in which they are
  adjacent, and an access is brought down to its alignment first. Interrupt
  flags of the video processor lie beside their enables and a write-only
  clear, which stores of every width reach.

There are no crashes, no messages and no persistent state apart from the save
RAM image, so those hazards are absent. `PROJECT.json` lists each real hazard at
its line, with the properties that would catch it.

### What makes each component correct

* timer: a zero is always shown, always raises when enabled, cannot be
  acknowledged while it stands; the count follows a closed form of the cycles.
* pad: a reported word is whole and made of positions the buttons were in
  during that read; abort wins; inhibit silences; a started read ends.
* interrupts: no acceptable source waits behind a less urgent or unacceptable
  one, although only one source is considered.
* processor: program resumes where it was suspended with the gates it had; a
  stop is final; an idle processor is frozen; time moves; a handler is not
  interrupted by its own level.
* bit strings: interrupted anywhere, the result is the uninterrupted one.
* cache: an entry that nothing made stale shows memory; a dump comes back; of
  the operations one word asks for the clear wins, then the dump.
* arithmetic: result and flags together are the integer result; conditions tell
  the order of what was compared.
* loads, stores, bus, memory map: together they are a flat memory.
* decoder: the width fetched is the width decoded; no bit that means something
  is lost.
* VIP registers: a flag goes only when it is cleared or its unit is reset.
* VIP structures: a record shows what was stored, of its own row and map.
* floating point: a result is the nearest number, rounded once; a comparison is
  an order; a loss is flagged; a fault leaves no trace.
* trace loop: a trace with a limit ends.

## 2. The modules

```
InterruptLine  <-- Timer   <-- TimerSchedule (history) <-- TimerProofs
   (promise)   <-- GamePad <-- PadReads      (history) <-- GamePadProofs
Interrupts --> CpuControl  <-- CpuHistory    (history) <-- CpuProofs
                   |  ^------- DisciplinedCpu --> ExceptionStack (abstract)
                Machine = CpuControl + Timer + GamePad + trace loop
                   ^---------- MachineProofs = the proofs of its parts, instantiated,
                                               and those of the cache
BitString        <-- BitStringResult <-- InstructionProofs
InstructionCache <-- CacheHistory    <-- MachineProofs
Alu              <-- AluHistory      <-- AluProofs
Fpu              <-- FpuHistory      <-- InstructionProofs

Arithmetic: lemmas the proofs share

VipRegisters <-- Vip <-- Bus --+
             Decode -----------+--> LoadStore <-- MemoryAccess --> FlatMemory (abstract)
                       VipStructures  ------  <-- VipRecords
MemoryAccess, VipRecords <-- MemoryProofs
```

| Module | Models | Correspondence |
|---|---|---|
| `InterruptLine` | what a device promises the halted processor | abstract: time may spend an armed line and never arm one; an armed line left alone settles |
| `Timer` | `struct Timer` | `timer` is the struct, a field per field; each method is an operator from timer to timer composed like the method, so `Tick`, `WriteLow`, `WriteHigh`, `WriteTcr` are one step each, trailing `refresh_zero_status` included |
| `TimerSchedule` | – | history: cycles since the last load; closed form of the count |
| `GamePad` | `struct Pad` | as `Timer`; words are sets of bits; `SetButtons` is the player |
| `PadReads` | – | history: positions each button had during the current read |
| `Interrupts` | `interrupt.rs`, `Bus::raised`, `Bus::may_raise` | the table, levels, codes, and the first raised source |
| `CpuControl` | `Cpu::step`, `raise`, everything that reaches the control registers | one action per outcome of a step: interrupt, permanent halt, idle, address trap, illegal opcode, and one per kind of instruction. The program is arbitrary: at any address any instruction |
| `CpuHistory` | – | history: entries since a cycle was charged; the level owed |
| `DisciplinedCpu` | the same under a program that keeps the rules | refinement mapping to `ExceptionStack` |
| `ExceptionStack` | what two banks are for | abstract: a stack of suspended contexts, at most two deep |
| `Machine` | `vb-headless/src/main.rs`, bus routes to devices | `Step` is a turn's `cpu.step(&mut bus)`, `BusTick` its `bus.tick(cycles)` and the match on the outcome; `CpuControl` is instantiated with the lines of the real devices |
| `BitString` | `bitstring.rs` | one pass per step, in closed form over the bits of the pass |
| `BitStringResult` | – | the whole instruction as one function; promise, covered bits |
| `InstructionCache` | `cache.rs`, the fetch in `exec.rs` | `Fetch`, `CacheControl`, `Store` over WRAM, cartridge RAM and ROM with mirrors |
| `CacheHistory` | – | history: stale entries, the last dump that can come back |
| `Alu` | arithmetic of `exec.rs`, conditions of `decode.rs` | an action per operand form; a word is its unsigned value |
| `AluHistory` | – | history: the operands of the last operation and comparison |
| `Decode` | `decode.rs` | tables by opcode and sub-opcode, an operator per format, `DecodeSlice` for bytes |
| `VipRegisters` | `vip/registers.rs` | the register file as a record, flags as sets of bits; an operation gives the file it leaves |
| `Vip` | `vip/mod.rs` | `Resolve`, and reads and writes of each width; a memory maps the offsets ever written to bytes |
| `Bus` | `bus.rs`, `wait.rs`, the memories of `cart.rs` | `ReadU8` … `WriteU32` by region; bytes for the timer and the pad are handed on in order |
| `LoadStore` | memory instructions and cycles of `exec.rs` | `Fetch` takes words and registers of the program, `Execute` runs one instruction over the bus; `RaiseVip` comes between two |
| `MemoryAccess` | – | the flat memory behind the followed addresses (`Watched`), the flags of the video processor, the words of an instruction |
| `FlatMemory` | what a program takes memory for | abstract: cells, and accesses as so many bytes, whatever the address |
| `VipStructures` | `vip/structures.rs` | an operator per record, from the memory map to its fields |
| `VipRecords` | – | records against the halfwords and bytes a program left |
| `Fpu` | `fpu.rs` | numbers are odd integers times powers of two; f64 is a number of `WIDE` bits, f32 one of `PRECISION`; an action per instruction and end |
| `FpuHistory` | – | history: the operands of the last instruction, compared as integers |
| `MC_*` | – | values of the constants, too structured for a `.cfg` |

Modelling choices worth knowing:

* **Scale.** Registers keep their shape (two bytes, wrap-around, byte lanes) at
  a smaller base. `TICK_CYCLES`, `TICK_MODULO` and `BYTE` are 400, 5 and 256 in
  the code; the pad's `HARDWARE_READ_CYCLES` and `BUTTON_COUNT` likewise shrink.
* **One turn of the tick loop.** The dearest instruction, DIVF.S, charges 44
  cycles, less than one tick of 400, and the loop ticks after every step, so
  `Timer::tick` ends at most one interval per call: `MaxCycles <= TICK_CYCLES`.
* **Addresses** of `CpuControl` are low halfwords of the top page, where every
  handler lives; `Program` holds the addresses instructions may be at.
* **Stores to devices.** Only byte stores reach a device (`Bus::write_u16` and
  `write_u32` ignore the region), except that a cache dump writes bytes itself:
  `SpillOverDevices` passes over all device registers, 16 times in the code,
  once in the checked instances (`SPILL_ROUNDS`); `MachineProofs` holds for any
  number of times.
* **Safety cap.** The trace without a limit is cut off at a constant too far to
  reach; the model calls it `NoLimit`.
* **A fault's saved context.** `raise` runs after `pc` has moved on; the saved
  address is the instruction's, the dumped one is not. `Fault` keeps that.
* **Bit strings** that overwrite bits they have yet to read, or write a bit
  twice, are *tangled*: their registers and flag are promised, memory is not.
* **Words as bits.** `Alu` computes with numbers and takes the logical operations
  and REV on sets of bits; `Number` is the word that has the bits.
* **The cache never feeds the processor.** Fetches read memory; a stale entry
  is harmless to execution and visible only in a dump.
* **The cache's bus** has the eight regions of the code, of which the first five read
  as zero and take no byte: nothing is cached from a device, and what a dump does to
  the device registers is in `Machine`. Program counters and store addresses range
  over all `ADDRESS_LEN` addresses, which is more than the bus has, and tags keep what
  lies above it. A tag is a word of four bytes, read and written whole.
* **Division by zero** is a fault of `CpuControl`; `Alu` divides by the rest.
* **Registers of `LoadStore`.** Each fetch brings the registers the program has
  computed by then, so what other instructions compute needs no second model
  there; a word is a pair of halfwords, since TLC's integers have 32 bits.
* **f64** is external. That it holds every product of the small format exactly and
  rounds a quotient or a sum harmlessly needs `WIDE >= 2 * PRECISION + 2`, and that it
  holds every integer register `WIDE >= EXPONENT_BITS + PRECISION`; 53, 8 and 24
  satisfy both and `FpuAssumption` states them. Its exponent never ends.
* **Quirks kept.** CVT.WS converts its target register; CVT.SW and TRNC.SW raise
  no precision flag, because the integer is rounded before it is compared (see
  the findings); a byte store to a video register stores the halfword of the
  source register; a failing CAXI writes back what it read.

## 3. What is checked

Twelve runs; each lists its properties in `PROJECT.json`. Every property of a
passing run has a mutant: a plausible bug in one definition that violates it.

| Run | Question | Bounds |
|---|---|---|
| `timer` | Does any interleaving of ticks and byte writes lose, hide or invent a zero, or drift from the schedule? Does the line keep its promise? | base-2 bytes (counters to 3), three cycles a tick, three ticks a slow interval, any control word |
| `pad` | Can overlapping software and hardware reads, aborts, inhibits and moving hands report a word no read saw? | three buttons (one plain trigger, one blocking, one signature), every button word, reads of two cycles |
| `cpu` | One step after another under any program: is a stop final, an urgent interrupt taken, an idle processor frozen, silence kept, time moving? | one program address beside the handlers, even and odd words, a clear status and one with level and address trap; lines change at any time |
| `cpu_stack` | Do the banks implement a stack of contexts, and does idling end? | status words for every depth; a trap, a fault, a store |
| `machine` | Does the processor with the real timer and pad implement the one with abstract devices? Does idling end, and every trace that has a step or a cycle limit? | two-bit counters, two control words per device, traces without a limit and with small ones |
| `bit_string` | Does an interrupted string leave what it should? | 2-bit words, three words of mirrored memory, every content, every operation, lengths to 5, stores beside the strings at any time |
| `cache` | Do entries show memory, dumps come back, does the first of several requests win? | two entries of four bytes of base 4, eight regions of 32 bytes in an address space of two buses, a WRAM a spill area wraps around in, a save RAM of a quarter of it, eight control words chosen for each overlap of requests and fields |
| `alu` | Are results, flags and conditions the integer ones? | 3-bit words, every value in two registers, r0, two immediates, and sequences that keep flags across moves |
| `memory` | Is memory flat through every mirror, width, alignment and region, are the video processor's flags lost or let through, does decoding lose anything, do records show what was stored? | programs of three accesses out of 50 to four bytes of each memory by several addresses, to the interrupt registers and the devices; every first halfword; some 800 pictures in video memory, each field one bit at a time, backgrounds of every shape, tables at every alignment |
| `fpu` | Are comparisons orders, results nearest numbers, which losses are flagged, faults without a trace? | words of four exponent bits and a two-bit significand in a nine-bit f64; every pair of words, every instruction and target |
| `timer_spend`, `fpu_zero` | findings, below | as the run they belong to |

Why the bounds are enough: each is the least at which the interesting cases
all occur. Three ticks of three cycles let an interval end at, before and after
a step's end, and a clock switch fall at the first, middle and last tick; two-bit
counters have a value that is neither zero nor about to be, and a byte load that
passes through zero. Three buttons are the three roles a bit has. Two-bit words
with strings of five bits give a first, a whole and a last word, each in every
alignment of source to destination; a modulus of twelve lets positions wrap
through the top of the address space and, twice, through the mirrors. Three-bit
words have a sign, a carry into it and room for a shift that loses neither, one
or both ends. Two cache entries of four bytes are the least in which a clear
range, an eviction and a self-overlapping spill area differ, a fetch starts inside
its block, a long one crosses into the next, and tags lie on words. The words ask
for a clear beside a dump and beside a restore, for a dump beside a restore, and
for a dump at an address that would be WRAM if the bus did not end before it; one
fetch is at the very end of the address space, whose second half wraps around to the
devices.

Three accesses are a store, something in between (another store, a flag raised,
an exchange, a write to a register) and the load or store that notices; the
addresses are full size, because the mirrors and regions are the subject, and
each cell is followed through every kind of alias it has: `Watched` has the
words of each memory through several addresses, and `FlatMemory` the 32 registers
beside them, of which a load changes the one it names. The save RAM of two
bytes is smaller than a word, so an access meets a cell twice. Six-bit floats
have zeros of both signs, denormals, infinities, NaNs, a tie between two
numbers at every exponent, sums beyond the largest number and products below
the smallest; with nine bits for f64 a sum may lose its smaller operand, which
is the only place where the two roundings show.

`CHECK_DEADLOCK FALSE` appears where the system really stops: a trace that has
ended (`machine`), the one instruction `bit_string` and `fpu` follow, and the
end of a program in `memory`.

### Fairness

* `TimePasses` (timer, pad) is weakly fair: the trace loop ticks the bus after
  every step, and every step but an exception entry charges a cycle. That the
  entries cannot go on is itself checked (`TimeDoesNotStandStill`) and proved.
* In `Machine` only the loop's own next action is fair: it is sequential code.
  Which instruction runs and how many cycles it charges is not.
* In `DisciplinedCpu` the caller keeps calling step, and each device settles its
  line while the processor is halted: exactly the liveness half of
  `InterruptLine`, which `timer` and `pad` check of the devices (`LineSpec`).
* In `BitStringResult` the next pass is fair: pc stays at the instruction, so
  it is executed again as soon as a handler returns.

### Findings

1. `timer_spend` – `timer.rs:158` says that switching to the fast clock "spends
   the pending tick straight away". It counts, and leaves the tick counter where
   it is: slow, then fast again within the same interval counts it again.
2. `fpu_zero` – the test at `fpu.rs:214` is named `zero_result_sets_zero_flag`;
   the flag is set only when every bit of the result is zero, so minus zero, such
   as zero times a negative number, clears Z and sets S and CY: branches take it
   for less than zero, while CMPF.S takes the two zeros for equal.

A third, without a run of its own: `finish_integer` sets the precision flag when the
integer differs from its argument (`fpu.rs:97`), but its caller has rounded that
argument before (`fpu.rs:123`, `125`), so the check never finds a difference. CVT.SW
and TRNC.SW drop a fraction in silence, although the test at `fpu.rs:263` is named
`precision_loss_sets_fpr_but_does_not_fault` (of a sum): TRNC.SW of 2.9 leaves 2 and
no flag. `LossIsFlagged` says so: it is one of its two exceptions.

## 4. What is proved

Eight modules hold theorems, checked by TLAPS for every value of the constants
that satisfies the named assumptions; one of them, `Arithmetic`, is what the
others share.
The runs show the same properties on small instances; `PROJECT.json` lists the
theorems with the property each states. Every theorem of a history module is
about that module's specification, and a theorem `HistoryImplies...` or
`...Imply...` says that the history constrains nothing.

| Module | Theorems | Invariant |
|---|---|---|
| `TimerProofs` | type, `ZeroIsVisible`, `NoZeroIsLost`, `StandingZeroIsNotAcknowledged`, `PhaseKept`, `OnSchedule`, line promise | `Sound`, `ScheduleInv` |
| `GamePadProofs` | type, `ReadIsWhole`, `AbortHolds`, `DataComesWhole`, `ReadReportsTheButtons`, line promise | `Sound`, `ReadsInv` |
| `CpuProofs` | type, `TimeDoesNotStandStill`, `StopIsPermanent`, `NoAcceptableInterruptWaits`, `IdleIsFrozen`, `OwedSilence`, `ImplementsStack` | `IInv`, `DInv` |
| `MachineProofs` | devices keep their word, `ImplementsCpu`, stops are final, and two of the processor's properties with the real devices | `SoundDevices` |
| | of the cache: type, `ValidEntriesShowMemory`, `OneOperationWins`, `RestoreBringsBack` | `TypeOK`, `ShowsInv` |
| `MemoryProofs` | `DecodingLosesNothing`, `FlagsGoAsAsked`, `ImplementsFlatMemory`, `RecordsShowMemory` | `StoreIInv`, `FlatIInv` |
| `InstructionProofs` | of bit strings: type, `Resumable`, `ResultIsWhole` | `IInv` |
| | of floating point: `ComparisonTellsTheOrder`, `ResultsAreNearest`, `LossIsFlagged` | `FpuIInv`, `NearIInv` |
| `AluProofs` | type, `ConditionsTellTheOrder`, `ArithmeticIsExact` | `IInv` |

**Timer** (`TimerAssumption`: positive tick, at least two ticks an interval, bytes
of at least two values, a step no longer than a tick). The inductive invariant is
`Sound`: the fields are in range, a pending timer is enabled to interrupt, an
enabled timer at zero shows it. Visibility alone is not inductive: the
byte-wise load and the count need the ranges, and the acknowledgement needs the
line to agree with its mask. A lemma per operator of `Timer`, in the order they
call each other, says what the operator keeps (`Sound`), notices (a zero) and
leaves to the line; one lemma over `Next` puts them together. `MaskedIsQuiet` is
proved and not run: it is a conjunct of `Sound`. The schedule is proved with
`ScheduleInv`, which adds the range of `since`: time is measured modulo whole
periods, and the proof follows one call of `tick` as it ends at most one interval
(that is what `MaxCycles <= TICK_CYCLES` is for), splits at the reload, and
compares remainders.

**Pad** (`GamePadAssumption`: at least one button, reads of at least one cycle, the
signature is a blocking bit). `Sound` is range, whole reads, quiet inhibits, no
cycles kept by an idle pad, and abort excludes a read; the last is broken in the
middle of a control write and restored at its end, so the lemmas carry the weaker
`Settled` in between. `ReadsInv` adds that the positions seen since a read began
vouch for every bit it has reached. `InhibitedIsQuiet` and `StandardPadsAreQuiet`
are proved and not run.

**Processor** (`CpuAssumption`: what software writes are halfwords and status
words, the program lies at even addresses, trap vectors are below 32, the fault
codes are those of the code). The invariant adds to type correctness: a stopped
processor is halted and nothing armed would be accepted (`Permanent`); an idling
one is halted; the level of PSW is never below the level owed; the entry count
agrees with EP and NP. `Permanent` is what makes `StopIsPermanent` inductive: that
no interrupt is accepted *now* does not survive time, that nothing armed could be
does, because time arms nothing. Every step is shown to be one of three (an
interrupt taken, a wait, a run), with a lemma for `raise` that all exceptions
share, and the action properties follow from that split.

That the banks implement a stack of contexts needs `DInv`: the status a bank holds
has the depth it was saved at (so that a return takes off one frame), and a fatal
exception left its dump on a processor that is halted behind closed gates. The refinement is proved
step by step: every exception is a push of what the banks then hold, RETI a pop,
a fatal exception the end, everything else a step of the top context or a stutter.

**Machine** (`MachineAssumption`: the assumptions of its parts). `MachineProofs`
instantiates the timer's, the pad's and the processor's proofs on the machine's own
variables. First, devices that are `Sound` stay so, through ticks, byte stores and a
dump that passes over all their registers any number of times (by `RecursionExists`
and `RecursionStays`), and their lines are those the abstract devices may have:
time arms nothing and loses nothing. `DevicesKeepTheirWord` says both: the devices'
own invariants, and that whatever step is taken but an instruction changes the lines
only as passing time may. From that every turn of the loop is a step of
`CpuControl` or a stutter, and what `CpuProofs` says of every specification of that
form holds of the machine with its real devices. The loop ends with a stop, so that
nothing follows one by construction; what `StopsAreFinal` says is that it was right to
end: for any number of further ticks, of any lengths, with any buttons pressed, the
real timer and pad raise no interrupt that the gates of the stopped processor let
through. A device that denies `may_raise` stays silent through one tick
(`TimerStaysSilent`, `PadStaysSilent`) and goes on denying it, and `Permanent` has it
that every device whose interrupt would be let through denies it.

**Cache** (`LayoutAssumption`: the field above the operation bits leaves the bus when
cen reaches the number of entries, a region is whole images of the cache, spill areas
and their tags lie on words, no tag of an address reaches the valid bit, a tag word
holds both; it holds at the code's constants. `ByteAssumption`: memories hold bytes and
addresses are of the address space; `ControlAssumption`: the shared field is what a
register leaves for it). The proofs are the last
part of `MachineProofs`. An address is split into tag, entry and byte, and no two
split alike; that makes a valid tag the address of its block. `ShowsInv` is
type correctness and the property itself: a fill captures what memory holds, a
clear takes entries away, and whatever changes memory marks the entries it reaches.
For the restore the invariant is that memory still holds the last dump, which needs
that an area with a place of its own for every byte is written by one byte each, and
that four bytes give their word back. `OneOperationAtATime` follows each request
through: `ClearSound` has it that a clear takes the valid bits of the entries the word names
and leaves the tags themselves, `DumpSound` that an area with room then reads as the
cache; that a word whose cen names no entry is beyond the bus is by the shared field.

**Memory** (`LoadStoreAssumption`: fetched words are halfwords, registers are pairs of
them, pictures hold bytes; `BusAssumption`: a ROM is bytes, its length and the save
RAM's are those a cartridge is accepted with; `WatchAssumption`: a followed word is
whole and plain memory, and what the program stores to a followed cell, it stores
through a followed address, which holds when every plain address is followed;
`RecordsAssumption`: indices are numbers). Four theorems about one specification:

* `DecodesWhole`. Format by format, the fields an instruction keeps give back the
  word, or the two, but for bits its format ignores: a field is a quotient and a
  remainder, and no table has an operation twice. There are no cases over words.
* `FlagsMoveAsAsked`. From the writes of the register file, through the widths of the
  memory map, to the regions of the bus: each writes at most one register, or one
  halfword after the other, and none but the clear, a reset or `raise` moves a
  flag. `StoreIInv` is that the bus has its shape and that what was fetched and the
  registers are halfwords; without it the bits of a stored word mean nothing.
* `MemoryIsFlat`. A refinement, step by step. Every address is shown to be a place or
  none, through the repetition of its region, the repetition of a small memory and the
  character mirror; a store of any width lays its bytes there one after the other,
  a load spreads what it finds, and an aligned access stays in its memory. Bytes laid one
  after the other may meet in a place when a memory is smaller than a word: the last
  one stays, as in `FlatMemory`. `FlatIInv` adds to the shapes that memories hold bytes
  and that the pending instruction is one of the program's, which ties a store to
  `WatchAssumption`.
* `RecordsAreWhatIsStored`, for every picture and whatever is stored over it. A field
  put back is its halfword with the bits outside it set aside, by quotients and
  remainders; parameters are found by an or of two addresses, bit by bit within
  the sixteen bytes; a dot of the mirror is resolved to the table of its
  character and split into the two bytes of its row. It needs of the invariant only
  that video memory holds bytes.

**Bit strings** (`SizesAssumption`: the address space is whole images of memory and
holds a word of bits). A bit has a position, and its position is all that registers
say of it; a pass moves the positions on by what it has read, whatever its alignment.
`Resumable` alone is not inductive, for a handler may store beside the strings
between two passes: the invariant adds that what is left of the strings lies within
them and is no more tangled than they were. A pass is shown to write its bits of
the whole result and to leave the rest as the whole of what is left; a store, to
change the promise in the same place as memory.

**Arithmetic** (`WordAssumption`: words of at least one bit, multipliers no longer). A
lemma for each kind of operation says what it leaves, by quotients and remainders of
powers of two that are not known numbers: a sum and its carry, the order that the
flags of a difference tell, the bit that leaves a shift (by splitting the word there),
the two words of a product (which is within half a word times a word), the quotient
that truncates (in r30 too, where the remainder is overwritten), and for REV the bits of the words above and below any place. The
invariant is type correctness and the two properties: a step either makes a record
from the operands it read or keeps the flags the last one left. A lemma per
operation, then one per action.

**Floating point** (`FpuAssumption`: an exponent and a significand of at least two bits
each, and a wider format of at least twice as many and two more, and of no fewer than a
word has). The proofs are the second part of `InstructionProofs`.

* `ComparisonsTellTheOrder`. A number is an odd part times a power of two in one way
  only, so numbers of one value are equal; rounding keeps at least one unit of what is
  no smaller than the smallest denormal, so a difference that is not nothing is not
  rounded to nothing, in the wider format or in the register; every rounded number has a
  word, if only that of an infinity, and the words of a number have its sign; and the
  sign of the difference is that of the values in units of the smaller operand. What one
  operand or both being infinite gives is by cases. `FpuIInv` adds that the registers
  hold words.
* `CalculationsRoundOnce`. The words of a sign are in the order of their values: the
  n-th of them stands for `Level(n)`, and rounding a number to the format gives the word
  whose level is nearest. So two roundings are one as soon as what the wider format holds is
  on the same side of every middle between two neighbours as the exact result, and in the
  middle when that is (`Apart`); this also settles overflow, underflow and ties. An
  operation whose result the wider format holds satisfies it at once: products, which have
  at most twice the bits, integers, and most sums. For what it has to round, a middle
  has one bit more than a word, and the exact result is either the middle or too far from
  it to be rounded onto it: a quotient because its denominator is short, a sum
  because the smaller operand lies wholly below the bits of the larger one. Each operation
  then ends as its exact result asks (`Finishes`); a conversion is decided by the fraction
  of one unit. The fault or the register, and the flags that came with it, are taken through
  one instruction, and then nothing changes them.
* `FlagsTellTheLoss`. The flag compares what was written with what was narrowed, not with
  the exact result. The two comparisons agree when the wider format holds the result
  (`precise` in `Finishes`), or when the word that was written is the exact result;
  what remains are quotients, which are no word when they are not held, and the sums
  `LossIsFlagged` sets apart. Conversions to integers, which it sets apart as well, are
  shown to raise no flag at all.

`NearIInv` is that the registers hold words until the one instruction, and the two
properties after it.

**Shared** (`Arithmetic`). Division by a number that is not known is beyond the SMT
solver; that quotient and remainder are the only ones is proved once, by comparing
products, and everything else follows from it. Induction over the naturals is
stated of a set (a set with zero and every successor holds all of them, because the
rest has no least element), because the library's theorem takes an operator. The
solver knows no power of two beyond the first; that they double follows from the
number of subsets of an interval, which the library gives. That every set of places
is the bits of a number, on which the definition of `Number` rests, is by induction
over the width.

**Only model-checked** is liveness (`ReadEnds`, `IdleEnds`, `TraceEnds`, `StringEnds`,
the settling half of `LineSpec`), which is beyond the prover. Every safety property
a passing run checks is a theorem.

## 5. What is not modelled

* The cartridge header and the ROM report: text cut out of the program. The
  lengths a cartridge is accepted with are in `Bus`.
* The disassembler (`vb-debug`) and the trace's lines: formatting without state.
* The frontend is an empty main function.
* Of the VIP registers, the fields nothing writes yet (busy bits, row groups,
  overtime, column start) and the choice of a shade, which nothing calls.
* The cycles of single instructions are in `LoadStore`, where `charged` follows
  them; no property is about them, and `Machine` lets an instruction charge
  anything up to `MaxCycles`, which is what its liveness has to withstand.
* Mnemonics, and what a NaN's payload is: an operation that makes a NaN gives
  a quiet one of either sign.

## 6. Plan

Models: the drawing and scanning units, and a VIP interrupt line in `Machine`, as
soon as the code has them: `RaiseVip` is their place.
