-------------------------------- MODULE Timer --------------------------------
(* The interval timer: src/crates/vb-core/src/timer.rs.                       *)
(*                                                                            *)
(* `timer' is the struct Timer, one field per field.  Every method of the     *)
(* struct is an operator from a timer to a timer, composed the way the method *)
(* composes its calls, so that a register write or a tick is one step.        *)
(* Registers keep their shape (two bytes in base BYTE, 256 in the code) and   *)
(* their width; the scale of an interval is a constant.                       *)
EXTENDS Integers

CONSTANTS TICK_CYCLES,  \* cycles of one tick (400 in the code)
          TICK_MODULO,  \* ticks of one slow interval (5 in the code)
          BYTE,         \* values of a byte (256 in the code)
          MaxCycles     \* bound: most cycles one processor step charges

\* The dearest instruction charges fewer cycles than one tick, and the trace
\* loop ticks the bus after every step: the loop of tick turns at most once.
ASSUME TimerAssumption ==
  /\ TICK_CYCLES \in Nat \ {0}
  /\ TICK_MODULO \in Nat \ {0, 1}
  /\ BYTE \in Nat \ {0, 1}
  /\ MaxCycles \in 1..TICK_CYCLES

VARIABLES timer,  \* the struct Timer
          caller  \* who made the last call: "time" or "software"

vars == <<timer, caller>>

Byte == 0..(BYTE - 1)
U16  == 0..(BYTE * BYTE - 1)

TimerState ==
  [counter : U16, reload : U16, tick : 0..(TICK_MODULO - 1),
   elapsed : 0..(TICK_CYCLES - 1), enabled : BOOLEAN, fast : BOOLEAN,
   interrupt_enabled : BOOLEAN, zero_status : BOOLEAN, pending : BOOLEAN]

\* The bits of a TCR write that write_control looks at: T_ENB, TIM_Z_INT,
\* T_CLK_SEL and Z_STAT_CLR.
ControlWord == [enable : BOOLEAN, interrupt : BOOLEAN, clock : BOOLEAN, clear : BOOLEAN]

NewTimer ==
  [counter |-> 0, reload |-> 0, tick |-> 0, elapsed |-> 0, enabled |-> FALSE,
   fast |-> FALSE, interrupt_enabled |-> FALSE, zero_status |-> FALSE,
   pending |-> FALSE]

-----------------------------------------------------------------------------
(* The helpers.                                                               *)

\* Mutants of MayRaise: a timer about to reload, or one with nothing to reload.
MayRaiseUnreloaded(t) == \/ t.pending
                         \/ t.enabled /\ t.interrupt_enabled /\ t.counter # 0
MayRaiseUnloaded(t) == t.pending \/ (t.enabled /\ t.interrupt_enabled)

MayRaise(t) == \/ t.pending
               \/ /\ t.enabled /\ t.interrupt_enabled
                  /\ t.counter # 0 \/ t.reload # 0

ReachZero(t) == [t EXCEPT !.zero_status = @ \/ t.enabled,
                          !.pending     = @ \/ t.interrupt_enabled]

\* Mutant: the status is left as it was.
RefreshForgotten(t) == t

RefreshZeroStatus(t) ==
  [t EXCEPT !.zero_status = @ \/ (t.enabled /\ t.counter = 0)]

\* Mutant: reloads and decrements in one interval.
CountDownShort(t) ==
  LET down == [t EXCEPT !.counter = IF @ # 0 THEN @ - 1
                                    ELSE IF t.reload # 0 THEN t.reload - 1 ELSE 0]
  IN  IF t.counter # 0 /\ down.counter = 0 THEN ReachZero(down) ELSE down

\* At zero the next interval reloads instead of decrementing.
CountDown(t) ==
  IF t.counter = 0 THEN [t EXCEPT !.counter = t.reload]
  ELSE LET down == [t EXCEPT !.counter = @ - 1]
       IN  IF down.counter = 0 THEN ReachZero(down) ELSE down

\* The tick counter advances, and the count with it when this tick ends an
\* interval of the selected clock.
Interval(t) ==
  LET ticked == [t EXCEPT !.tick = (@ + 1) % TICK_MODULO]
  IN  IF t.enabled /\ (t.fast \/ ticked.tick = 0) THEN CountDown(ticked) ELSE ticked

-----------------------------------------------------------------------------
(* The operations: tick, and the register writes.                             *)

\* Mutants of tick: an interval one cycle late, and one that drops the rest.
TickedLate(t, cycles) ==
  LET total == t.elapsed + cycles
  IN  IF total > TICK_CYCLES
        THEN Interval([t EXCEPT !.elapsed = total - TICK_CYCLES])
        ELSE [t EXCEPT !.elapsed = total]
TickedDropping(t, cycles) ==
  IF t.elapsed + cycles >= TICK_CYCLES THEN Interval([t EXCEPT !.elapsed = 0])
  ELSE [t EXCEPT !.elapsed = @ + cycles]

Ticked(t, cycles) ==
  LET total == t.elapsed + cycles
  IN  IF total >= TICK_CYCLES
        THEN Interval([t EXCEPT !.elapsed = total - TICK_CYCLES])
        ELSE [t EXCEPT !.elapsed = total]

\* Mutant: loading zero shows zero, and raises nothing.
LoadSilently(t, value) ==
  RefreshZeroStatus([t EXCEPT !.reload = value, !.counter = value,
                              !.tick = 0, !.elapsed = 0])

Load(t, value) ==
  LET loaded == [t EXCEPT !.reload = value, !.counter = value,
                          !.tick = 0, !.elapsed = 0]
  IN  RefreshZeroStatus(
        IF t.counter # 0 /\ value = 0 THEN ReachZero(loaded) ELSE loaded)

Low(word)  == word % BYTE
High(word) == word \div BYTE

LoadLow(t, byte)  == Load(t, byte + BYTE * High(t.reload))
LoadHigh(t, byte) == Load(t, Low(t.reload) + BYTE * byte)

\* Mutant: a zero that is still there is cleared.
ClearsStandingZero(t, control) == control.clear /\ ~(t.enabled /\ ~control.enable)

\* Disabling and clearing in one write disables without clearing, and a zero
\* that is still there and running cannot be cleared.
ClearAllowed(t, control) ==
  /\ control.clear
  /\ ~(t.enabled /\ ~control.enable)
  /\ t.counter # 0 \/ ~control.enable

\* Switching to the fast clock inside an interval counts at once.
SpendsTick(t, control) ==
  ~t.fast /\ control.clock /\ t.tick # 0 /\ control.enable

WriteControl(t, control) ==
  LET set   == [t EXCEPT !.enabled = control.enable,
                         !.interrupt_enabled = control.interrupt,
                         !.fast = control.clock,
                         !.pending = @ /\ control.interrupt]
      acked == IF ClearAllowed(t, control)
                 THEN [set EXCEPT !.zero_status = FALSE, !.pending = FALSE]
                 ELSE set
  IN  RefreshZeroStatus(
        IF SpendsTick(t, control) THEN CountDown(acked) ELSE acked)

-----------------------------------------------------------------------------
Init == /\ timer = NewTimer
        /\ caller = "time"

Tick(cycles) == /\ timer' = Ticked(timer, cycles)
                /\ caller' = "time"

WriteLow(byte) == /\ timer' = LoadLow(timer, byte)
                  /\ caller' = "software"

WriteHigh(byte) == /\ timer' = LoadHigh(timer, byte)
                   /\ caller' = "software"

WriteTcr(control) == /\ timer' = WriteControl(timer, control)
                     /\ caller' = "software"

\* A write to any other register, or to no device at all.
WriteElsewhere == /\ UNCHANGED timer
                  /\ caller' = "software"

Next == \/ \E cycles \in 0..MaxCycles : Tick(cycles)
        \/ \E byte \in Byte : WriteLow(byte) \/ WriteHigh(byte)
        \/ \E control \in ControlWord : WriteTcr(control)
        \/ WriteElsewhere

\* The trace loop ticks the bus after every processor step, and every step
\* that is not an exception entry charges at least one cycle.
TimePasses == \E cycles \in 1..MaxCycles : Tick(cycles)

Spec == Init /\ [][Next]_vars
FairSpec == Spec /\ WF_vars(TimePasses)

-----------------------------------------------------------------------------
(* Properties.                                                                *)

\* Every field keeps the range of its Rust type; tick and elapsed stay below
\* the modulus that each call of tick reduces them by.
TypeOK == /\ timer \in TimerState
          /\ caller \in {"time", "software"}

\* An enabled timer that stands at zero shows it in Z_STAT, whichever order of
\* loads, control writes and ticks got it there (refresh_zero_status).
ZeroIsVisible == timer.enabled /\ timer.counter = 0 => timer.zero_status

\* A raised interrupt belongs to an enabled one: no path through the register
\* writes leaves the line up after TIM_Z_INT went down.
MaskedIsQuiet == timer.pending => timer.interrupt_enabled

\* No step takes the count to zero without raising an enabled interrupt: not
\* the byte-wise load, nor a control write that clears the status and spends
\* the pending tick at once.
NoZeroIsLost ==
  [][timer.counter # 0 /\ timer'.counter = 0 /\ timer'.interrupt_enabled
       => timer'.pending]_vars

\* Software cannot acknowledge a zero that is still there: only masking the
\* interrupt takes down a raised line while the enabled count stands at zero.
StandingZeroIsNotAcknowledged ==
  [][timer.pending /\ timer.enabled /\ timer.counter = 0
       /\ timer'.interrupt_enabled => timer'.pending]_vars

\* The interrupt line of the timer keeps the device promise the halted
\* processor relies on (may_raise).
Line == INSTANCE InterruptLine
          WITH pending <- timer.pending, armed <- MayRaise(timer)

LineSpec == Line!Spec
=============================================================================
