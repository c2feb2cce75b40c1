------------------------------- MODULE GamePad -------------------------------
(* The game pad port: src/crates/vb-core/src/pad.rs.                          *)
(*                                                                            *)
(* `pad' is the struct GamePad.  A button word is the set of its bits, so the *)
(* masks of the code are set operations and a bit clocked in is a member.     *)
(* A read is one of two: software clocks the bits in one by one after a latch *)
(* (PARA_SI, SOFT_CK), or hardware takes the whole word after a fixed time    *)
(* (HW_SI).  Both write the same shift register and the same data word, and   *)
(* the buttons may change at any moment of either.                            *)
EXTENDS Integers

CONSTANTS BUTTON_COUNT,          \* bits of a button word (16 in the code)
          HARDWARE_READ_CYCLES,  \* duration of a hardware read (10240)
          KEY_TRIGGER,           \* bits that raise the key interrupt (0xFFF0)
          KEY_BLOCK,             \* bits that keep it from raising (0x000E)
          SGN,                   \* the signature bit every standard pad reports
          ButtonWords,           \* the words the attached pad can report
          MaxCycles              \* bound: most cycles one call of tick passes

Bits == 0..(BUTTON_COUNT - 1)

ASSUME GamePadAssumption ==
  /\ BUTTON_COUNT \in Nat \ {0}
  /\ HARDWARE_READ_CYCLES \in Nat \ {0}
  /\ KEY_TRIGGER \subseteq Bits
  /\ KEY_BLOCK \subseteq Bits
  /\ SGN \in Bits \cap KEY_BLOCK
  /\ ButtonWords \subseteq SUBSET Bits
  /\ MaxCycles \in Nat \ {0}

VARIABLES pad,    \* the struct GamePad
          caller  \* who made the last call: "time" or "software"

vars == <<pad, caller>>

PadState ==
  [buttons : SUBSET Bits, data : SUBSET Bits, shift : SUBSET Bits,
   shifted : 0..BUTTON_COUNT, clock : BOOLEAN, latched : BOOLEAN,
   abort : BOOLEAN, reading : BOOLEAN, elapsed : 0..(HARDWARE_READ_CYCLES - 1),
   interrupt_inhibited : BOOLEAN, pending : BOOLEAN]

\* The bits of an SCR write: K_INT_INH, PARA_SI, SOFT_CK, HW_SI, S_ABT_DIS.
ControlWord ==
  [inhibit : BOOLEAN, latch : BOOLEAN, clock : BOOLEAN, start : BOOLEAN,
   abort : BOOLEAN]

NewPad ==
  [buttons |-> {SGN}, data |-> {}, shift |-> {}, shifted |-> 0,
   clock |-> FALSE, latched |-> FALSE, abort |-> FALSE, reading |-> FALSE,
   elapsed |-> 0, interrupt_inhibited |-> FALSE, pending |-> FALSE]

-----------------------------------------------------------------------------
\* Mutant: a read in progress is forgotten.
MayRaiseNow(p) == p.pending

MayRaise(p) == p.pending \/ (p.reading /\ ~p.interrupt_inhibited)

RaiseKeyInterrupt(p) ==
  [p EXCEPT !.pending = \/ @
                        \/ /\ ~p.interrupt_inhibited
                           /\ p.data \cap KEY_TRIGGER # {}
                           /\ p.data \cap KEY_BLOCK = {}]

\* A hardware read that has run its time publishes the whole word at once.
Ticked(p, cycles) ==
  LET total == p.elapsed + cycles
  IN  IF ~p.reading THEN p
      ELSE IF total < HARDWARE_READ_CYCLES THEN [p EXCEPT !.elapsed = total]
      ELSE RaiseKeyInterrupt(
             [p EXCEPT !.reading = FALSE, !.elapsed = 0, !.shift = p.buttons,
                       !.shifted = BUTTON_COUNT, !.data = p.buttons])

\* Mutants of clock_bit: it clocks past the word, or publishes every bit.
ClockBitUnbounded(p) ==
  LET clocked == [p EXCEPT !.shift = @ \cup (p.buttons \cap {p.shifted}),
                           !.shifted = @ + 1]
  IN  IF clocked.shifted = BUTTON_COUNT
        THEN [clocked EXCEPT !.data = clocked.shift]
        ELSE clocked
ClockBitPublished(p) ==
  IF p.shifted >= BUTTON_COUNT THEN p
  ELSE LET clocked == [p EXCEPT !.shift = @ \cup (p.buttons \cap {p.shifted}),
                                !.shifted = @ + 1]
       IN  [clocked EXCEPT !.data = clocked.shift]

\* One bit of the buttons as they are now, at the position the read has
\* reached; the last one publishes the word.
ClockBit(p) ==
  IF p.shifted >= BUTTON_COUNT THEN p
  ELSE LET clocked == [p EXCEPT !.shift = @ \cup (p.buttons \cap {p.shifted}),
                                !.shifted = @ + 1]
       IN  IF clocked.shifted = BUTTON_COUNT
             THEN [clocked EXCEPT !.data = clocked.shift]
             ELSE clocked

(* The parts of a write to SCR, in the order write_control runs them.         *)

Inhibit(p, control) ==
  [p EXCEPT !.interrupt_inhibited = control.inhibit,
            !.pending = @ /\ ~control.inhibit]

\* Mutant: the latch starts over, and keeps the bits of the read before.
LatchDirty(p, control) ==
  IF control.latch THEN [p EXCEPT !.shifted = 0, !.latched = TRUE]
  ELSE [p EXCEPT !.latched = FALSE]

Latch(p, control) ==
  IF control.latch THEN [p EXCEPT !.shift = {}, !.shifted = 0, !.latched = TRUE]
  ELSE [p EXCEPT !.latched = FALSE]

\* The pad sees the inverse of SOFT_CK, so clearing it clocks a bit.
Clock(p, control) ==
  [(IF ~control.latch /\ p.clock /\ ~control.clock THEN ClockBit(p) ELSE p)
     EXCEPT !.clock = control.clock]

\* Mutant: the start bit starts a running read over.
StartOver(p, control) ==
  IF control.start THEN [p EXCEPT !.reading = TRUE, !.elapsed = 0] ELSE p

Start(p, control) ==
  IF control.start /\ ~p.reading
    THEN [p EXCEPT !.reading = TRUE, !.elapsed = 0]
    ELSE p

\* Mutant: an aborted read keeps its cycles.
AbortKeepsCycles(p, control) ==
  [p EXCEPT !.abort = control.abort, !.reading = @ /\ ~control.abort]

Abort(p, control) ==
  IF control.abort THEN [p EXCEPT !.abort = TRUE, !.reading = FALSE, !.elapsed = 0]
  ELSE [p EXCEPT !.abort = FALSE]

WriteControl(p, control) ==
  Abort(Start(Clock(Latch(Inhibit(p, control), control), control), control), control)

-----------------------------------------------------------------------------
Init == /\ pad = NewPad
        /\ caller = "time"

Tick(cycles) == /\ pad' = Ticked(pad, cycles)
                /\ caller' = "time"

WriteScr(control) == /\ pad' = WriteControl(pad, control)
                     /\ caller' = "software"

\* SDLR and SDHR ignore writes.
WriteElsewhere == /\ UNCHANGED pad
                  /\ caller' = "software"

\* The player: set_buttons is called between two calls of anything else.
SetButtons(word) == /\ pad' = [pad EXCEPT !.buttons = word]
                    /\ UNCHANGED caller

Next == \/ \E cycles \in 0..MaxCycles : Tick(cycles)
        \/ \E control \in ControlWord : WriteScr(control)
        \/ WriteElsewhere
        \/ \E word \in ButtonWords : SetButtons(word)

\* The trace loop ticks the bus after every step of the processor.
TimePasses == \E cycles \in 1..MaxCycles : Tick(cycles)

Spec == Init /\ [][Next]_vars
FairSpec == Spec /\ WF_vars(TimePasses)

-----------------------------------------------------------------------------
(* Properties.                                                                *)

\* Every field keeps the range of its Rust type; a read in progress is always
\* short of its duration, and no shift index leaves the word.
TypeOK == /\ pad \in PadState
          /\ caller \in {"time", "software"}

\* Bits the read has not reached are clear, and a read that has reached the
\* last bit, by whichever of the two ways, has published what it read.
ReadIsWhole == /\ \A bit \in pad.shift : bit < pad.shifted
               /\ pad.shifted = BUTTON_COUNT => pad.data = pad.shift

\* The abort bit wins over the start bit of the same write, and no cycle of a
\* read that was cut short is left to shorten the next one.
AbortHolds == /\ pad.abort => ~pad.reading
              /\ ~pad.reading => pad.elapsed = 0

\* The key interrupt is never up while software inhibits it.
InhibitedIsQuiet == pad.pending => ~pad.interrupt_inhibited

\* The data word only ever changes to a whole read: a step that changes it
\* leaves the shift register full and equal to it.
DataComesWhole ==
  [][pad'.data # pad.data =>
       pad'.shifted = BUTTON_COUNT /\ pad'.data = pad'.shift]_vars

\* "A standard pad always reports sgn, which is why the key interrupt can
\* never fire with one" (set_buttons): what raises it is a pad that, at the
\* moment a hardware read takes the word, does not report it.
StandardPadsAreQuiet ==
  [][~pad.pending /\ pad'.pending => SGN \notin pad.buttons]_vars

\* A hardware read ends, however often software rewrites SCR meanwhile:
\* writing the start bit again does not start it over.
ReadEnds == pad.reading ~> ~pad.reading

\* The interrupt line of the pad keeps the device promise the halted processor
\* relies on (may_raise), the player's hands included.
Line == INSTANCE InterruptLine
          WITH pending <- pad.pending, armed <- MayRaise(pad)

LineSpec == Line!Spec
=============================================================================
