---------------------------- MODULE MachineProofs ----------------------------
(* Proofs about the machine, for every size of its devices, every program and *)
(* every limit of a trace: the real timer and the real pad keep, behind the   *)
(* bus, the promise the processor relies on, so that what is proved of        *)
(* CpuControl holds of the machine.                                           *)
(*                                                                            *)
(* What is proved of one call of a device is taken from its own proofs, where *)
(* the history variables play no part in it.                                  *)
(*                                                                            *)
(* And proofs about the processor's instruction cache, for every number of    *)
(* entries, length of a block, layout of the memories and program.            *)
EXTENDS Machine, CacheHistory, Arithmetic

TP == INSTANCE TimerProofs WITH since <- 0, steady <- TRUE, spent <- FALSE
PP == INSTANCE GamePadProofs WITH held <- {}
CP == INSTANCE CpuProofs WITH lines <- DeviceLines, timeless <- 0, floor <- 0

-----------------------------------------------------------------------------
(* The operators of a device are those its proofs are about.                  *)

LEMMA SameTimer ==
  /\ T!TimerState = TP!TimerState /\ T!ControlWord = TP!ControlWord /\ T!Byte = TP!Byte
  /\ \A t : T!MayRaise(t) <=> TP!MayRaise(t)
  /\ \A t, time : T!Ticked(t, time) = TP!Ticked(t, time)
  /\ \A t, byte : T!LoadLow(t, byte) = TP!LoadLow(t, byte)
  /\ \A t, byte : T!LoadHigh(t, byte) = TP!LoadHigh(t, byte)
  /\ \A t, control : T!WriteControl(t, control) = TP!WriteControl(t, control)
<1>1. T!TimerState = TP!TimerState /\ T!ControlWord = TP!ControlWord /\ T!Byte = TP!Byte
  BY DEF T!TimerState, TP!TimerState, T!ControlWord, TP!ControlWord, T!U16, TP!U16,
         T!Byte, TP!Byte
<1>2. \A t : T!MayRaise(t) <=> TP!MayRaise(t)
  BY DEF T!MayRaise, TP!MayRaise
<1>3. /\ \A t : T!CountDown(t) = TP!CountDown(t)
      /\ \A t : T!RefreshZeroStatus(t) = TP!RefreshZeroStatus(t)
      /\ \A t : T!ReachZero(t) = TP!ReachZero(t)
  BY DEF T!CountDown, TP!CountDown, T!ReachZero, TP!ReachZero,
         T!RefreshZeroStatus, TP!RefreshZeroStatus
<1>4. \A t, time : T!Ticked(t, time) = TP!Ticked(t, time)
  BY <1>3 DEF T!Ticked, TP!Ticked, T!Interval, TP!Interval
<1>5. \A t, value : T!Load(t, value) = TP!Load(t, value)
  BY <1>3 DEF T!Load, TP!Load
<1>6. /\ \A t, byte : T!LoadLow(t, byte) = TP!LoadLow(t, byte)
      /\ \A t, byte : T!LoadHigh(t, byte) = TP!LoadHigh(t, byte)
  BY <1>5 DEF T!LoadLow, TP!LoadLow, T!LoadHigh, TP!LoadHigh, T!Low, TP!Low, T!High, TP!High
<1>7. \A t, control : T!WriteControl(t, control) = TP!WriteControl(t, control)
  BY <1>3 DEF T!WriteControl, TP!WriteControl, T!ClearAllowed, TP!ClearAllowed,
              T!SpendsTick, TP!SpendsTick
<1>8. QED
  BY <1>1, <1>2, <1>4, <1>6, <1>7

LEMMA SamePad ==
  /\ P!PadState = PP!PadState /\ P!ControlWord = PP!ControlWord
  /\ \A p : P!MayRaise(p) <=> PP!MayRaise(p)
  /\ \A p, time : P!Ticked(p, time) = PP!Ticked(p, time)
  /\ \A p, control : P!WriteControl(p, control) = PP!WriteControl(p, control)
<1>1. P!PadState = PP!PadState /\ P!ControlWord = PP!ControlWord
  BY DEF P!PadState, PP!PadState, P!ControlWord, PP!ControlWord, P!Bits, PP!Bits
<1>2. \A p : P!MayRaise(p) <=> PP!MayRaise(p)
  BY DEF P!MayRaise, PP!MayRaise
<1>3. \A p, time : P!Ticked(p, time) = PP!Ticked(p, time)
  BY DEF P!Ticked, PP!Ticked, P!RaiseKeyInterrupt, PP!RaiseKeyInterrupt
<1>4. \A p, control : P!WriteControl(p, control) = PP!WriteControl(p, control)
  <2>1. \A p : P!ClockBit(p) = PP!ClockBit(p)
    BY DEF P!ClockBit, PP!ClockBit
  <2>2. /\ \A p, control : P!Inhibit(p, control) = PP!Inhibit(p, control)
        /\ \A p, control : P!Latch(p, control) = PP!Latch(p, control)
        /\ \A p, control : P!Clock(p, control) = PP!Clock(p, control)
        /\ \A p, control : P!Start(p, control) = PP!Start(p, control)
        /\ \A p, control : P!Abort(p, control) = PP!Abort(p, control)
    BY <2>1 DEF P!Inhibit, PP!Inhibit, P!Latch, PP!Latch, P!Clock, PP!Clock,
                P!Start, PP!Start, P!Abort, PP!Abort
  <2>3. QED
    BY <2>2 DEF P!WriteControl, PP!WriteControl
<1>5. QED
  BY <1>1, <1>2, <1>3, <1>4

-----------------------------------------------------------------------------
(* The devices of the machine.                                                *)

SoundDevices == TP!Sound(timer) /\ PP!Sound(pad)

LEMMA TimerConstants ==
  /\ TICK_CYCLES \in Nat \ {0} /\ TICK_MODULO \in Nat \ {0, 1} /\ BYTE \in Nat \ {0, 1}
  /\ MaxCycles \in 1..TICK_CYCLES
  BY MachineAssumption DEF T!TimerAssumption

LEMMA PadConstants ==
  /\ BUTTON_COUNT \in Nat \ {0} /\ HARDWARE_READ_CYCLES \in Nat \ {0}
  /\ KEY_TRIGGER \subseteq PP!Bits /\ KEY_BLOCK \subseteq PP!Bits
  /\ SGN \in PP!Bits \cap KEY_BLOCK
  /\ ButtonWords \subseteq SUBSET PP!Bits
  /\ MaxCycles \in Nat \ {0}
<1>1. P!Bits = PP!Bits
  BY DEF P!Bits, PP!Bits
<1>2. QED
  BY <1>1, MachineAssumption DEF P!GamePadAssumption

\* Time passes in a device: it stays sound and arms nothing.
LEMMA TimerTicks ==
  ASSUME NEW t, TP!Sound(t), NEW time \in 0..MaxCycles
  PROVE  /\ TP!Sound(T!Ticked(t, time))
         /\ TP!OnlySpends(t, T!Ticked(t, time))
<1>1. t \in TP!TimerState
  BY DEF TP!Sound
<1>2. /\ TP!Sound(TP!Ticked(t, time))
      /\ TP!OnlySpends(t, TP!Ticked(t, time))
  BY <1>1, TimerConstants, TP!TickedSound
<1>3. QED
  BY <1>2, SameTimer

LEMMA PadTicks ==
  ASSUME NEW p, PP!Sound(p), NEW time \in 0..MaxCycles
  PROVE  /\ PP!Sound(P!Ticked(p, time))
         /\ PP!OnlySpends(p, P!Ticked(p, time))
<1>1. p \in PP!PadState
  BY DEF PP!Sound, PP!Settled
<1>2. /\ PP!Sound(PP!Ticked(p, time))
      /\ PP!OnlySpends(p, PP!Ticked(p, time))
  BY <1>1, PadConstants, PP!TickedSound
<1>3. QED
  BY <1>2, SamePad

\* Software writes a register of one.
LEMMA TimerLoads ==
  ASSUME NEW t, TP!Sound(t), NEW byte \in LoadBytes
  PROVE  TP!Sound(T!LoadLow(t, byte)) /\ TP!Sound(T!LoadHigh(t, byte))
<1>1. t \in TP!TimerState /\ t.reload \in TP!U16 /\ byte \in TP!Byte
  BY MachineAssumption DEF TP!Sound, TP!TimerState, TP!Byte
<1>2. TP!Low(t.reload) \in TP!Byte /\ TP!High(t.reload) \in TP!Byte
  BY <1>1, TimerConstants, TP!BytesOfHalfword
<1>3. /\ byte + BYTE * TP!High(t.reload) \in TP!U16
      /\ TP!Low(t.reload) + BYTE * byte \in TP!U16
  BY <1>1, <1>2, TimerConstants, TP!HalfwordOfBytes
<1>4. /\ TP!Sound(TP!Load(t, byte + BYTE * TP!High(t.reload)))
      /\ TP!Sound(TP!Load(t, TP!Low(t.reload) + BYTE * byte))
  BY <1>1, <1>3, TimerConstants, TP!LoadSound
<1>5. QED
  BY <1>4, SameTimer DEF TP!LoadLow, TP!LoadHigh

LEMMA TimerControlled ==
  ASSUME NEW t, TP!Sound(t), NEW control \in TimerControls
  PROVE  TP!Sound(T!WriteControl(t, control))
<1>1. t \in TP!TimerState /\ control \in TP!ControlWord
  BY MachineAssumption, SameTimer DEF TP!Sound
<1>2. TP!Sound(TP!WriteControl(t, control))
  BY <1>1, TimerConstants, TP!WriteControlSound
<1>3. QED
  BY <1>2, SameTimer

LEMMA PadControlled ==
  ASSUME NEW p, PP!Sound(p), NEW control \in PadControls
  PROVE  PP!Sound(P!WriteControl(p, control))
<1>1. p \in PP!PadState /\ control \in PP!ControlWord
  BY MachineAssumption, SamePad DEF PP!Sound, PP!Settled
<1>2. PP!Sound(PP!WriteControl(p, control))
  BY <1>1, PadConstants, PP!WriteControlSound
<1>3. QED
  BY <1>2, SamePad

\* A dump over the registers writes them round after round.
LEMMA SpillSound ==
  ASSUME SoundDevices, SpillOverDevices
  PROVE  SoundDevices'
<1>1. PICK rows \in [1..SPILL_ROUNDS -> Row] :
        LET timers[n \in 0..SPILL_ROUNDS] ==
              IF n = 0 THEN timer ELSE RowIntoTimer(timers[n - 1], rows[n])
            pads[n \in 0..SPILL_ROUNDS] ==
              IF n = 0 THEN pad ELSE RowIntoPad(pads[n - 1], rows[n])
        IN  timer' = timers[SPILL_ROUNDS] /\ pad' = pads[SPILL_ROUNDS]
  BY DEF SpillOverDevices
<1> DEFINE N == SPILL_ROUNDS
           timers[n \in 0..SPILL_ROUNDS] ==
             IF n = 0 THEN timer ELSE RowIntoTimer(timers[n - 1], rows[n])
           pads[n \in 0..SPILL_ROUNDS] ==
             IF n = 0 THEN pad ELSE RowIntoPad(pads[n - 1], rows[n])
<1>2. timer' = timers[N] /\ pad' = pads[N]
  BY <1>1
<1>3. N \in Nat /\ N \in 0..N
  BY MachineAssumption
<1> HIDE DEF N, timers, pads
<1>4. TP!Sound(timers[N])
  <2> DEFINE S == {t \in TP!TimerState : TP!Sound(t)}
             W == [n \in 1..N |-> [t \in S |-> RowIntoTimer(t, rows[n])]]
  <2>1. timer \in S
    BY DEF SoundDevices, TP!Sound
  <2>2. \A n \in 1..N, t \in S : RowIntoTimer(t, rows[n]) \in S
    <3> SUFFICES ASSUME NEW n \in 1..N, NEW t \in S PROVE RowIntoTimer(t, rows[n]) \in S
      OBVIOUS
    <3>1. /\ rows[n].low \in LoadBytes /\ rows[n].high \in LoadBytes
          /\ rows[n].tcr \in TimerControls
      BY DEF Row, N
    <3>2. TP!Sound(RowIntoTimer(t, rows[n]))
      BY <3>1, TimerLoads, TimerControlled DEF RowIntoTimer
    <3>3. QED
      BY <3>2 DEF TP!Sound
  <2>3. \A n \in 1..N, t \in S : W[n][t] \in S /\ W[n][t] = RowIntoTimer(t, rows[n])
    BY <2>2
  <2>4. \A t \in S : TP!Sound(t)
    OBVIOUS
  <2> HIDE DEF S, W
  <2>5. PICK f \in [0..N -> S] : f[0] = timer /\ \A n \in 1..N : f[n] = W[n][f[n - 1]]
    <3>1. N \in Nat
      BY <1>3
    <3>2. StepsWithin(W, N, S)
      BY <2>3 DEF StepsWithin
    <3>3. SequenceExists(timer, W, N, S)
      BY <2>1, <3>1, <3>2, RecursionExists, Zenon
    <3>4. QED
      BY <3>3 DEF SequenceExists, StepsFrom
  <2>6. f = [n \in 0..N |-> IF n = 0 THEN timer ELSE RowIntoTimer(f[n - 1], rows[n])]
    <3>1. ASSUME NEW n \in 1..N PROVE f[n] = RowIntoTimer(f[n - 1], rows[n])
      <4>1. f[n - 1] \in S
        BY <1>3
      <4>2. QED
        BY <2>3, <2>5, <4>1
    <3>2. QED
      BY <2>5, <3>1
  <2>7. timers = [n \in 0..N |-> IF n = 0 THEN timer ELSE RowIntoTimer(timers[n - 1], rows[n])]
    BY <2>6 DEF timers, N
  <2>8. timers[0] \in S
    BY <1>3, <2>1, <2>7
  <2>9. \A n \in 1..N : timers[n - 1] \in S => timers[n] \in S
    <3> SUFFICES ASSUME NEW n \in 1..N, timers[n - 1] \in S PROVE timers[n] \in S
      OBVIOUS
    <3>1. timers[n] = RowIntoTimer(timers[n - 1], rows[n])
      BY <1>3, <2>7
    <3>2. QED
      BY <2>2, <3>1
  <2>10. timers[N] \in S
    BY <1>3, <2>8, <2>9, RecursionStays
  <2>11. QED
    BY <2>4, <2>10
<1>5. PP!Sound(pads[N])
  <2> DEFINE S == {p \in PP!PadState : PP!Sound(p)}
             W == [n \in 1..N |-> [p \in S |-> RowIntoPad(p, rows[n])]]
  <2>1. pad \in S
    BY DEF SoundDevices, PP!Sound, PP!Settled
  <2>2. \A n \in 1..N, p \in S : RowIntoPad(p, rows[n]) \in S
    <3> SUFFICES ASSUME NEW n \in 1..N, NEW p \in S PROVE RowIntoPad(p, rows[n]) \in S
      OBVIOUS
    <3>1. rows[n].scr \in PadControls
      BY DEF Row, N
    <3>2. PP!Sound(RowIntoPad(p, rows[n]))
      BY <3>1, PadControlled DEF RowIntoPad
    <3>3. QED
      BY <3>2 DEF PP!Sound, PP!Settled
  <2>3. \A n \in 1..N, p \in S : W[n][p] \in S /\ W[n][p] = RowIntoPad(p, rows[n])
    BY <2>2
  <2>4. \A p \in S : PP!Sound(p)
    OBVIOUS
  <2> HIDE DEF S, W
  <2>5. PICK f \in [0..N -> S] : f[0] = pad /\ \A n \in 1..N : f[n] = W[n][f[n - 1]]
    <3>1. N \in Nat
      BY <1>3
    <3>2. StepsWithin(W, N, S)
      BY <2>3 DEF StepsWithin
    <3>3. SequenceExists(pad, W, N, S)
      BY <2>1, <3>1, <3>2, RecursionExists, Zenon
    <3>4. QED
      BY <3>3 DEF SequenceExists, StepsFrom
  <2>6. f = [n \in 0..N |-> IF n = 0 THEN pad ELSE RowIntoPad(f[n - 1], rows[n])]
    <3>1. ASSUME NEW n \in 1..N PROVE f[n] = RowIntoPad(f[n - 1], rows[n])
      <4>1. f[n - 1] \in S
        BY <1>3
      <4>2. QED
        BY <2>3, <2>5, <4>1
    <3>2. QED
      BY <2>5, <3>1
  <2>7. pads = [n \in 0..N |-> IF n = 0 THEN pad ELSE RowIntoPad(pads[n - 1], rows[n])]
    BY <2>6 DEF pads, N
  <2>8. pads[0] \in S
    BY <1>3, <2>1, <2>7
  <2>9. \A n \in 1..N : pads[n - 1] \in S => pads[n] \in S
    <3> SUFFICES ASSUME NEW n \in 1..N, pads[n - 1] \in S PROVE pads[n] \in S
      OBVIOUS
    <3>1. pads[n] = RowIntoPad(pads[n - 1], rows[n])
      BY <1>3, <2>7
    <3>2. QED
      BY <2>2, <3>1
  <2>10. pads[N] \in S
    BY <1>3, <2>8, <2>9, RecursionStays
  <2>11. QED
    BY <2>4, <2>10
<1>6. QED
  BY <1>2, <1>4, <1>5 DEF SoundDevices

-----------------------------------------------------------------------------
(* What the processor sees of the devices.                                    *)

\* A raised line was armed, in any state of a sound device.
LEMMA LinesOfSound == SoundDevices => DeviceLines \in C!Lines
<1> SUFFICES ASSUME SoundDevices PROVE DeviceLines \in C!Lines
  OBVIOUS
<1>1. /\ timer.pending \in BOOLEAN /\ timer.enabled \in BOOLEAN
      /\ timer.interrupt_enabled \in BOOLEAN
      /\ pad.pending \in BOOLEAN /\ pad.reading \in BOOLEAN
      /\ pad.interrupt_inhibited \in BOOLEAN
  BY DEF SoundDevices, TP!Sound, TP!TimerState, PP!Sound, PP!Settled, PP!PadState
<1>2. /\ T!MayRaise(timer) \in BOOLEAN /\ (timer.pending => T!MayRaise(timer))
      /\ P!MayRaise(pad) \in BOOLEAN /\ (pad.pending => P!MayRaise(pad))
  BY <1>1 DEF T!MayRaise, P!MayRaise
<1> HIDE DEF T!MayRaise, P!MayRaise
<1>3. QED
  BY <1>1, <1>2 DEF DeviceLines, C!Lines, C!Line, C!Device

-----------------------------------------------------------------------------
(* The steps of the machine.                                                  *)

\* The devices of a reset.
LEMMA InitSound == Init => SoundDevices /\ C!Init
<1> SUFFICES ASSUME Init PROVE SoundDevices /\ C!Init
  OBVIOUS
<1>1. TP!Init
  BY DEF Init, T!Init, TP!Init, T!NewTimer, TP!NewTimer
<1>2. PP!Init
  BY DEF Init, P!Init, PP!Init, P!NewPad, PP!NewPad
<1>3. TP!IInv
  BY <1>1, TimerConstants, TP!InitSound
<1>4. PP!IInv
  BY <1>2, PadConstants, PP!InitSound
<1>5. QED
  BY <1>3, <1>4 DEF Init, SoundDevices, TP!IInv, PP!IInv

\* A step of the processor: it leaves the devices sound, and is one of
\* CpuControl.
LEMMA StepSound ==
  ASSUME SoundDevices, Step
  PROVE  SoundDevices' /\ C!Step
<1>1. CASE Dispatch
  BY <1>1 DEF Dispatch, devices, SoundDevices, C!Step
<1>2. CASE Execute
  <2>1. PICK next_pc \in Program :
          \/ "store" \in trace.repertoire /\ (WriteTimer \/ WritePad) /\ C!StoreToDevice(next_pc)
          \/ "spill" \in trace.repertoire /\ SpillOverDevices /\ C!StoreToDevice(next_pc)
          \/ Without("plain") /\ C!Plain(next_pc)
          \/ Without("halt") /\ C!Halt(next_pc)
          \/ Without("cli") /\ C!SetInterruptDisable(next_pc, FALSE)
          \/ Without("sei") /\ C!SetInterruptDisable(next_pc, TRUE)
          \/ Without("fault") /\ \E code \in FaultCodes : C!Fault(code, next_pc)
          \/ Without("trap") /\ \E vector \in Vectors : C!Trap(vector, next_pc)
          \/ Without("ldsr_address") /\ \E value \in Words : C!LdsrAddress(next_pc, value)
          \/ Without("ldsr_psw") /\ \E value \in PswWrites : C!LdsrPsw(next_pc, value)
          \/ Without("ldsr_saved") /\ \E value \in PswWrites : C!LdsrSavedPsw(next_pc, value)
    BY <1>2 DEF Execute
  <2>2. C!Step
    BY <2>1 DEF C!Step
  <2>3. ASSUME WriteTimer PROVE SoundDevices'
    <3>1. TP!Sound(timer)
      BY DEF SoundDevices
    <3>2. TP!Sound(timer')
      BY <2>3, <3>1, TimerLoads, TimerControlled DEF WriteTimer
    <3>3. QED
      BY <2>3, <3>2 DEF WriteTimer, SoundDevices
  <2>4. ASSUME WritePad PROVE SoundDevices'
    <3>1. PP!Sound(pad)
      BY DEF SoundDevices
    <3>2. PP!Sound(pad')
      BY <2>4, <3>1, PadControlled DEF WritePad
    <3>3. QED
      BY <2>4, <3>2 DEF WritePad, SoundDevices
  <2>5. SpillOverDevices => SoundDevices'
    BY SpillSound
  <2>6. \A instruction : Without(instruction) => SoundDevices'
    BY DEF Without, devices, SoundDevices
  <2>7. SoundDevices'
    BY <2>1, <2>3, <2>4, <2>5, <2>6
  <2>8. QED
    BY <2>2, <2>7
<1>3. CASE ExecuteInPlace
  BY <1>3 DEF ExecuteInPlace, Without, devices, SoundDevices, C!Step
<1>4. QED
  BY <1>1, <1>2, <1>3 DEF Step

\* A tick of the bus: to the processor, time that passes in its devices.
LEMMA TickSound ==
  ASSUME SoundDevices, BusTick
  PROVE  SoundDevices' /\ C!Elapse
<1>1. PICK charge \in Charges : /\ timer' = T!Ticked(timer, charge)
                                /\ pad' = P!Ticked(pad, charge)
  BY DEF BusTick
<1>2. charge \in 0..MaxCycles
  BY PadConstants DEF Charges
<1>3. TP!Sound(timer') /\ TP!OnlySpends(timer, timer')
  BY <1>1, <1>2, TimerTicks DEF SoundDevices
<1>4. PP!Sound(pad') /\ PP!OnlySpends(pad, pad')
  BY <1>1, <1>2, PadTicks DEF SoundDevices
<1>5. SoundDevices'
  BY <1>3, <1>4 DEF SoundDevices
<1>6. DeviceLines \in C!Lines /\ (DeviceLines \in C!Lines)'
  <2>1. DeviceLines \in C!Lines
    BY LinesOfSound
  <2>2. (DeviceLines \in C!Lines)'
    BY <1>5, LinesOfSound, PTL
  <2>3. QED
    BY <2>1, <2>2
<1>7. /\ timer.pending => timer'.pending
      /\ T!MayRaise(timer') => T!MayRaise(timer)
      /\ pad.pending => pad'.pending
      /\ P!MayRaise(pad') => P!MayRaise(pad)
  BY <1>3, <1>4, SameTimer, SamePad DEF TP!OnlySpends, PP!OnlySpends
<1>8. /\ DeviceLines'["TimerZero"] \in C!Spent(DeviceLines["TimerZero"])
      /\ DeviceLines'["GamePad"] \in C!Spent(DeviceLines["GamePad"])
  BY <1>6, <1>7 DEF DeviceLines, C!Spent, C!Lines, C!Line, C!Device
<1>9. QED
  BY <1>5, <1>6, <1>8 DEF BusTick, C!Elapse, C!Device

\* The player's hands are no business of the processor.
LEMMA HandsSound ==
  ASSUME SoundDevices, SetButtons
  PROVE  SoundDevices' /\ UNCHANGED <<cpu, DeviceLines, dump, outcome>>
<1>1. PICK word \in ButtonWords : pad' = [pad EXCEPT !.buttons = word]
  BY DEF SetButtons
<1>2. pad \in PP!PadState /\ word \in SUBSET PP!Bits
  BY PadConstants DEF SoundDevices, PP!Sound, PP!Settled
<1>3. PP!Sound(pad')
  BY <1>1, <1>2 DEF SoundDevices, PP!Sound, PP!Settled, PP!Whole, PP!Quiet, PP!Idle,
                    PP!PadState
<1>4. pad'.pending = pad.pending /\ P!MayRaise(pad') = P!MayRaise(pad)
  BY <1>1, <1>2 DEF P!MayRaise, PP!PadState
<1>5. QED
  BY <1>3, <1>4 DEF SetButtons, SoundDevices, DeviceLines

LEMMA NextSound ==
  ASSUME SoundDevices, [Next]_vars
  PROVE  SoundDevices' /\ [C!Next]_(C!vars)
<1>1. CASE Step
  BY <1>1, StepSound DEF C!Next
<1>2. CASE BusTick
  BY <1>2, TickSound DEF C!Next
<1>3. CASE SetButtons
  BY <1>3, HandsSound DEF C!vars
<1>4. CASE StopAtLimit
  BY <1>4 DEF StopAtLimit, SoundDevices, DeviceLines, C!vars
<1>5. CASE UNCHANGED vars
  BY <1>5 DEF vars, SoundDevices, DeviceLines, C!vars
<1>6. QED
  BY <1>1, <1>2, <1>3, <1>4, <1>5 DEF Next

LEMMA Invariant == Spec => []SoundDevices
  BY InitSound, NextSound, PTL DEF Spec

-----------------------------------------------------------------------------
(* The processor of the machine is the one the proofs of CpuControl are about: *)
(* the definitions agree word for word.                                       *)

LEMMA SameCpu == (C!Init <=> CP!Init) /\ ([C!Next]_(C!vars) <=> [CP!Next]_(CP!vars))
<1>1. C!Init <=> CP!Init
  BY DEF C!Init, CP!Init, C!NewCpu, CP!NewCpu, C!NoDump, CP!NoDump, C!RESET_PC,
         CP!RESET_PC, C!NoCode, CP!NoCode, C!Clear, CP!Clear, C!Returned,
         CP!Returned, C!Device, CP!Device
<1>2. C!PendingInterrupt(DeviceLines) = CP!PendingInterrupt(DeviceLines)
  BY DEF C!PendingInterrupt, CP!PendingInterrupt, C!SOURCES, CP!SOURCES,
         C!Raised, CP!Raised, C!Device, CP!Device
<1>3. /\ C!InterruptAccepted <=> CP!InterruptAccepted
      /\ C!CanWake <=> CP!CanWake
  BY <1>2 DEF C!InterruptAccepted, CP!InterruptAccepted, C!AnyRaised,
              CP!AnyRaised, C!Raised, CP!Raised, C!CanWake, CP!CanWake,
              C!MayRaise, CP!MayRaise, C!AcceptsInterrupt, CP!AcceptsInterrupt,
              C!Source, CP!Source, C!SOURCES, CP!SOURCES, C!Level, CP!Level,
              C!Device, CP!Device
<1>4. C!Fetches <=> CP!Fetches
  BY <1>3 DEF C!Fetches, CP!Fetches, C!Runs, CP!Runs, C!Trapped, CP!Trapped
<1>5. C!TakeInterrupt <=> CP!TakeInterrupt
  <2>1. /\ \A source : C!Level(source) = CP!Level(source)
        /\ \A source : C!Code(source) = CP!Code(source)
    BY DEF C!Code, CP!Code, C!Level, CP!Level
  <2>2. \A c, e : C!Entered(c, e) = CP!Entered(c, e)
    BY DEF C!HANDLER_DUPLEXED, CP!HANDLER_DUPLEXED, C!Entered, CP!Entered,
           C!Woken, CP!Woken, C!HandlerPsw, CP!HandlerPsw, C!Even, CP!Even,
           C!NoLevel, CP!NoLevel, C!MAX_LEVEL, CP!MAX_LEVEL
  <2>3. /\ \A code, handler, restore_pc, level :
             C!Exception(code, handler, restore_pc, level)
               = CP!Exception(code, handler, restore_pc, level)
        /\ \A kind, code, charged :
             C!Returned(kind, code, charged) = CP!Returned(kind, code, charged)
    BY DEF C!Exception, CP!Exception, C!Returned, CP!Returned
  <2> DEFINE source == C!PendingInterrupt(DeviceLines)
             e == C!Exception(C!Code(source), C!Code(source), cpu.pc, C!Level(source))
             returned == C!Returned("interrupt", C!Code(source), FALSE)
  <2>4. /\ source = CP!PendingInterrupt(DeviceLines)
        /\ e = CP!Exception(CP!Code(source), CP!Code(source), cpu.pc, CP!Level(source))
        /\ returned = CP!Returned("interrupt", CP!Code(source), FALSE)
    BY <1>2, <2>1, <2>3
  <2>5. C!TakeInterrupt <=> C!InterruptAccepted /\ C!Raise(cpu, e, returned) /\ UNCHANGED DeviceLines
    BY DEF C!TakeInterrupt
  <2>6. CP!TakeInterrupt <=> CP!InterruptAccepted /\ CP!Raise(cpu, e, returned) /\ UNCHANGED DeviceLines
    BY <2>4 DEF CP!TakeInterrupt
  <2> HIDE DEF source, e, returned
  <2>7. C!Raise(cpu, e, returned) <=> CP!Raise(cpu, e, returned)
    BY <2>2, <2>3 DEF C!Raise, CP!Raise
  <2>8. QED
    BY <1>3, <2>5, <2>6, <2>7
<1>6. /\ C!StopHalted <=> CP!StopHalted
      /\ C!Idle <=> CP!Idle
  BY <1>3 DEF C!StopHalted, CP!StopHalted, C!Idle, CP!Idle, C!Waits, CP!Waits,
              C!Returned, CP!Returned, C!NoCode, CP!NoCode
<1>7. /\ C!AddressTrap <=> CP!AddressTrap
      /\ C!IllegalOpcode <=> CP!IllegalOpcode
  BY <1>3, <1>4 DEF C!AddressTrap, CP!AddressTrap, C!IllegalOpcode,
                    CP!IllegalOpcode, C!Runs, CP!Runs, C!Trapped, CP!Trapped,
                    C!EXC_ADDRESS_TRAP, CP!EXC_ADDRESS_TRAP,
                    C!EXC_ILLEGAL_OPCODE, CP!EXC_ILLEGAL_OPCODE,
                    C!HANDLER_DUPLEXED, CP!HANDLER_DUPLEXED, C!Raise, CP!Raise,
                    C!Exception, CP!Exception, C!Entered, CP!Entered, C!Woken,
                    CP!Woken, C!HandlerPsw, CP!HandlerPsw, C!Even, CP!Even,
                    C!NoLevel, CP!NoLevel, C!MAX_LEVEL, CP!MAX_LEVEL,
                    C!Returned, CP!Returned
<1>8. /\ C!BitStringPass <=> CP!BitStringPass
      /\ C!Reti <=> CP!Reti
  BY <1>4 DEF C!BitStringPass, CP!BitStringPass, C!Reti, CP!Reti, C!Returning,
              CP!Returning, C!Continues, CP!Continues, C!Executed, CP!Executed,
              C!Returned, CP!Returned, C!NoCode, CP!NoCode
<1>9. ASSUME NEW next_pc
      PROVE  /\ C!Plain(next_pc) <=> CP!Plain(next_pc)
             /\ C!StoreToDevice(next_pc) <=> CP!StoreToDevice(next_pc)
             /\ C!Halt(next_pc) <=> CP!Halt(next_pc)
             /\ \A id : C!SetInterruptDisable(next_pc, id) <=> CP!SetInterruptDisable(next_pc, id)
  BY <1>4 DEF C!Plain, CP!Plain, C!StoreToDevice, CP!StoreToDevice, C!Halt,
              CP!Halt, C!SetInterruptDisable, CP!SetInterruptDisable, C!Lines,
              CP!Lines, C!Line, CP!Line, C!Device, CP!Device, C!Executes,
              CP!Executes, C!Executed, CP!Executed, C!Continues, CP!Continues,
              C!At, CP!At, C!Returned, CP!Returned, C!NoCode, CP!NoCode
<1>10. ASSUME NEW next_pc
       PROVE  /\ \A code : C!Fault(code, next_pc) <=> CP!Fault(code, next_pc)
              /\ \A vector : C!Trap(vector, next_pc) <=> CP!Trap(vector, next_pc)
  <2>1. \A code : C!Fault(code, next_pc) <=> CP!Fault(code, next_pc)
    BY <1>4 DEF C!Fault, CP!Fault, C!EXC_ZERO_DIVISION, CP!EXC_ZERO_DIVISION,
                C!HANDLER_FP, CP!HANDLER_FP, C!Executes, CP!Executes,
                C!Executed, CP!Executed, C!At, CP!At, C!NoCode, CP!NoCode,
                C!HANDLER_DUPLEXED, CP!HANDLER_DUPLEXED, C!Raise, CP!Raise,
                C!Exception, CP!Exception, C!Entered, CP!Entered, C!Woken,
                CP!Woken, C!HandlerPsw, CP!HandlerPsw, C!Even, CP!Even,
                C!NoLevel, CP!NoLevel, C!MAX_LEVEL, CP!MAX_LEVEL, C!Returned,
                CP!Returned
  <2>2. \A vector : C!Trap(vector, next_pc) <=> CP!Trap(vector, next_pc)
    BY <1>4 DEF C!Trap, CP!Trap, C!EXC_TRAP_BASE, CP!EXC_TRAP_BASE,
                C!HANDLER_TRAP_HIGH, CP!HANDLER_TRAP_HIGH, C!Executes,
                CP!Executes, C!Executed, CP!Executed, C!At, CP!At, C!NoCode,
                CP!NoCode, C!HANDLER_DUPLEXED, CP!HANDLER_DUPLEXED, C!Raise,
                CP!Raise, C!Exception, CP!Exception, C!Entered, CP!Entered,
                C!Woken, CP!Woken, C!HandlerPsw, CP!HandlerPsw, C!Even, CP!Even,
                C!NoLevel, CP!NoLevel, C!MAX_LEVEL, CP!MAX_LEVEL, C!Returned,
                CP!Returned
  <2>3. QED
    BY <2>1, <2>2
<1>11. ASSUME NEW next_pc, NEW value
       PROVE  /\ C!LdsrAddress(next_pc, value) <=> CP!LdsrAddress(next_pc, value)
              /\ C!LdsrPsw(next_pc, value) <=> CP!LdsrPsw(next_pc, value)
              /\ C!LdsrSavedPsw(next_pc, value) <=> CP!LdsrSavedPsw(next_pc, value)
  BY <1>4 DEF C!LdsrAddress, CP!LdsrAddress, C!LdsrPsw, CP!LdsrPsw,
              C!LdsrSavedPsw, CP!LdsrSavedPsw, C!Even, CP!Even, C!Executes,
              CP!Executes, C!Executed, CP!Executed, C!Continues, CP!Continues,
              C!At, CP!At, C!Returned, CP!Returned, C!NoCode, CP!NoCode
<1>12. C!Step <=> CP!Step
  BY <1>5, <1>6, <1>7, <1>8, <1>9, <1>10, <1>11 DEF C!Step, CP!Step
<1>13. C!Elapse <=> CP!Elapse
  BY DEF C!Elapse, CP!Elapse, C!Spent, CP!Spent, C!Lines, CP!Lines, C!Line,
         CP!Line, C!Device, CP!Device
<1>14. [C!Next]_(C!vars) <=> [CP!Next]_(CP!vars)
  BY <1>12, <1>13 DEF C!Next, CP!Next, C!vars, CP!vars
<1>15. QED
  BY <1>1, <1>14

LEMMA CpuConstants == CP!CpuAssumption
<1>1. C!CpuAssumption
  BY MachineAssumption
<1>2. C!CpuAssumption <=> CP!CpuAssumption
  BY DEF C!CpuAssumption, CP!CpuAssumption, C!Address, CP!Address,
         C!LAST_ADDRESS, CP!LAST_ADDRESS, C!IsEven, CP!IsEven, C!Psw, CP!Psw,
         C!MAX_LEVEL, CP!MAX_LEVEL, C!EXC_ZERO_DIVISION, CP!EXC_ZERO_DIVISION
<1>3. QED
  BY <1>1, <1>2

-----------------------------------------------------------------------------
(* The theorems.                                                              *)

\* A change of the lines that time alone may bring: nothing raised is lowered,
\* and nothing is raised that was not armed.
TimeOnlySpends == \A d \in C!Device : DeviceLines'[d] \in C!Spent(DeviceLines[d])

LEMMA SameLinesAreSpent == SoundDevices /\ UNCHANGED DeviceLines => TimeOnlySpends
  BY LinesOfSound DEF TimeOnlySpends, C!Spent, C!Lines

\* Behind the bus, with stores and cache dumps that reach their registers and
\* a player who presses buttons, the timer and the pad keep their words: a zero
\* that is enabled shows and a masked device is silent, and what Bus::may_raise
\* denies no tick and no button brings about.  Only an instruction lowers what
\* Bus::raised reports, or arms what was not.
THEOREM DevicesKeepTheirWord ==
  Spec => /\ [](/\ T!ZeroIsVisible /\ T!MaskedIsQuiet
                /\ P!ReadIsWhole /\ P!AbortHolds /\ P!InhibitedIsQuiet)
          /\ [][Execute \/ TimeOnlySpends]_vars
<1>1. SoundDevices => /\ T!ZeroIsVisible /\ T!MaskedIsQuiet
                      /\ P!ReadIsWhole /\ P!AbortHolds /\ P!InhibitedIsQuiet
  BY DEF SoundDevices, TP!Sound, TP!Visible, TP!Quiet, T!ZeroIsVisible, T!MaskedIsQuiet,
         PP!Sound, PP!Settled, PP!Whole, PP!Quiet, PP!Idle, P!ReadIsWhole, P!AbortHolds,
         P!InhibitedIsQuiet
<1>2. SoundDevices /\ [Next]_vars => [Execute \/ TimeOnlySpends]_vars
  <2> SUFFICES ASSUME SoundDevices, Next PROVE Execute \/ TimeOnlySpends
    OBVIOUS
  <2>1. ASSUME UNCHANGED devices PROVE TimeOnlySpends
    BY <2>1, SameLinesAreSpent DEF devices, DeviceLines
  <2>2. CASE Step
    BY <2>1, <2>2 DEF Step, Dispatch, ExecuteInPlace, Without
  <2>3. CASE BusTick
    BY <2>3, TickSound DEF C!Elapse, TimeOnlySpends
  <2>4. CASE SetButtons
    BY <2>4, HandsSound, SameLinesAreSpent
  <2>5. CASE StopAtLimit
    BY <2>1, <2>5 DEF StopAtLimit, devices
  <2>6. QED
    BY <2>2, <2>3, <2>4, <2>5 DEF Next
<1> HIDE DEF TimeOnlySpends
<1>3. QED
  BY <1>1, <1>2, Invariant, PTL DEF Spec

\* The machine is a processor as CpuControl describes it: its devices do
\* nothing the abstract lines could not.
THEOREM MachineIsACpu == Spec => ImplementsCpu
  BY InitSound, NextSound, Invariant, PTL DEF Spec, ImplementsCpu, C!Spec

LEMMA CpuSpec == Spec => CP!Spec
<1>1. Spec => C!Spec
  BY MachineIsACpu DEF ImplementsCpu
<1>2. QED
  BY <1>1, SameCpu, PTL DEF C!Spec, CP!Spec

\* n more ticks of the bus, with buttons pressed in between, from the devices
\* of now.
Elapses(n, charges, words, timers, pads) ==
  /\ timers[0] = timer /\ pads[0] = pad
  /\ \A k \in 1..n :
       /\ timers[k] = T!Ticked(timers[k - 1], charges[k])
       /\ pads[k] = P!Ticked([pads[k - 1] EXCEPT !.buttons = words[k]], charges[k])

\* What was not armed does not come up.
LEMMA TimerStaysSilent ==
  ASSUME SoundDevices, ~T!MayRaise(timer),
         NEW n \in Nat, NEW charges \in [1..n -> 0..MaxCycles], NEW words, NEW timers, NEW pads,
         Elapses(n, charges, words, timers, pads)
  PROVE  ~timers[n].pending
<1> DEFINE Silent == {t \in TP!TimerState : TP!Sound(t) /\ ~T!MayRaise(t)}
<1>1. timers[0] \in Silent
  BY DEF Elapses, SoundDevices, TP!Sound
<1>2. \A k \in 1..n : timers[k - 1] \in Silent => timers[k] \in Silent
  <2> SUFFICES ASSUME NEW k \in 1..n, timers[k - 1] \in Silent PROVE timers[k] \in Silent
    OBVIOUS
  <2> DEFINE t == timers[k - 1]
             u == T!Ticked(t, charges[k])
  <2>1. TP!Sound(u) /\ TP!OnlySpends(t, u)
    BY TimerTicks
  <2>2. timers[k] = u
    BY DEF Elapses
  <2> HIDE DEF u
  <2>3. ~T!MayRaise(u)
    BY <2>1, SameTimer DEF TP!OnlySpends
  <2>4. QED
    BY <2>1, <2>2, <2>3 DEF TP!Sound
<1> HIDE DEF Silent
<1>3. timers[n] \in Silent
  <2>1. n \in 0..n
    OBVIOUS
  <2>2. \A k \in 0..n : timers[k] \in Silent
    BY <1>1, <1>2, RecursionStays
  <2>3. QED
    BY <2>1, <2>2
<1>4. QED
  BY <1>3 DEF Silent, T!MayRaise, TP!TimerState

LEMMA PadStaysSilent ==
  ASSUME SoundDevices, ~P!MayRaise(pad),
         NEW n \in Nat, NEW charges \in [1..n -> 0..MaxCycles],
         NEW words \in [1..n -> ButtonWords], NEW timers, NEW pads,
         Elapses(n, charges, words, timers, pads)
  PROVE  ~pads[n].pending
<1> DEFINE Silent == {p \in PP!PadState : PP!Sound(p) /\ ~P!MayRaise(p)}
<1>1. pads[0] \in Silent
  BY DEF Elapses, SoundDevices, PP!Sound, PP!Settled
<1>2. \A k \in 1..n : pads[k - 1] \in Silent => pads[k] \in Silent
  <2> SUFFICES ASSUME NEW k \in 1..n, pads[k - 1] \in Silent PROVE pads[k] \in Silent
    OBVIOUS
  <2> DEFINE p == pads[k - 1]
             q == [p EXCEPT !.buttons = words[k]]
             u == P!Ticked(q, charges[k])
  <2>1. p \in PP!PadState /\ words[k] \in SUBSET PP!Bits /\ PP!Sound(p) /\ ~P!MayRaise(p)
    BY PadConstants
  <2>2. PP!Sound(q)
    BY <2>1 DEF PP!Sound, PP!Settled, PP!Whole, PP!Quiet, PP!Idle, PP!PadState
  <2>3. ~P!MayRaise(q)
    BY <2>1 DEF P!MayRaise, PP!PadState
  <2>4. pads[k] = u
    BY DEF Elapses
  <2>5. charges[k] \in 0..MaxCycles
    OBVIOUS
  <2> HIDE DEF q
  <2>6. PP!Sound(u) /\ PP!OnlySpends(q, u)
    BY <2>2, <2>5, PadTicks
  <2> HIDE DEF u
  <2>7. ~P!MayRaise(u)
    BY <2>3, <2>6, SamePad DEF PP!OnlySpends
  <2>8. QED
    BY <2>4, <2>6, <2>7 DEF PP!Sound, PP!Settled
<1> HIDE DEF Silent
<1>3. pads[n] \in Silent
  <2>1. n \in 0..n
    OBVIOUS
  <2>2. \A k \in 0..n : pads[k] \in Silent
    BY <1>1, <1>2, RecursionStays
  <2>3. QED
    BY <2>1, <2>2
<1>4. QED
  BY <1>3 DEF Silent, P!MayRaise, PP!PadState

\* The loop gives up with a processor that waits, and rightly: however many
\* ticks its devices were still given, and whatever was pressed meanwhile, none
\* would raise an interrupt that the gates let through.
GivesUpRightly ==
  loop = "stopped" =>
    /\ cpu.halted
    /\ \A n \in Nat :
         \A charges \in [1..n -> 0..MaxCycles], words \in [1..n -> ButtonWords] :
           \A timers, pads : Elapses(n, charges, words, timers, pads) =>
             /\ C!AcceptsInterrupt(cpu, C!Level("TimerZero")) => ~timers[n].pending
             /\ C!AcceptsInterrupt(cpu, C!Level("GamePad")) => ~pads[n].pending

\* Stop::Halted, and a stop on a fatal exception, are reported of a machine
\* that nothing behind its bus would have woken: "the halt turns permanent".
THEOREM StopsAreFinal == Spec => []GivesUpRightly
<1> DEFINE Reported == loop = "stopped" => C!Stopped
<1>1. Init => Reported
  BY DEF Init
<1>2. Reported /\ [Next]_vars => Reported'
  BY DEF Next, Step, StopAtLimit, BusTick, SetButtons, vars, C!Stopped
<1>3. Spec => []CP!Control
  BY CpuSpec, CpuConstants, CP!ControlInvariant
<1>4. Reported /\ SoundDevices /\ CP!Control => GivesUpRightly
  <2> SUFFICES ASSUME C!Stopped, SoundDevices, CP!Control,
                      NEW n \in Nat, NEW charges \in [1..n -> 0..MaxCycles],
                      NEW words \in [1..n -> ButtonWords], NEW timers, NEW pads,
                      Elapses(n, charges, words, timers, pads)
               PROVE  /\ C!AcceptsInterrupt(cpu, C!Level("TimerZero")) => ~timers[n].pending
                      /\ C!AcceptsInterrupt(cpu, C!Level("GamePad")) => ~pads[n].pending
    <3>1. C!Stopped /\ CP!Control => cpu.halted
      BY DEF CP!Control, CP!Permanent, CP!Stopped, C!Stopped
    <3>2. QED
      BY <3>1 DEF GivesUpRightly
  <2>1. ~CP!CanWake
    BY DEF CP!Control, CP!Permanent, CP!Stopped, C!Stopped
  <2>2. \A source : C!Level(source) = CP!Level(source)
    BY DEF C!Level, CP!Level
  <2>3. \A level : C!AcceptsInterrupt(cpu, level) <=> CP!AcceptsInterrupt(cpu, level)
    BY DEF C!AcceptsInterrupt, CP!AcceptsInterrupt
  <2>4. ASSUME NEW d \in {"TimerZero", "GamePad"}, C!AcceptsInterrupt(cpu, C!Level(d))
        PROVE  ~DeviceLines[d].armed
    <3>1. d \in CP!Source /\ d \in CP!Device
      BY DEF CP!Source, CP!SOURCES, CP!Device
    <3>2. CP!AcceptsInterrupt(cpu, CP!Level(d))
      BY <2>2, <2>3, <2>4
    <3>3. QED
      BY <2>1, <3>1, <3>2 DEF CP!CanWake, CP!MayRaise
  <2>5. DeviceLines["TimerZero"].armed = T!MayRaise(timer)
        /\ DeviceLines["GamePad"].armed = P!MayRaise(pad)
    BY DEF DeviceLines
  <2>6. C!AcceptsInterrupt(cpu, C!Level("TimerZero")) => ~timers[n].pending
    BY <2>4, <2>5, TimerStaysSilent
  <2>7. C!AcceptsInterrupt(cpu, C!Level("GamePad")) => ~pads[n].pending
    BY <2>4, <2>5, PadStaysSilent
  <2>8. QED
    BY <2>6, <2>7
<1> HIDE DEF Reported
<1>5. QED
  BY <1>1, <1>2, <1>3, <1>4, Invariant, PTL DEF Spec

\* No raised device whose interrupt the gates let through is kept waiting.
THEOREM MachineTakesInterrupts == Spec => C!NoAcceptableInterruptWaits
<1>1. CP!Spec => CP!NoAcceptableInterruptWaits
  BY CpuConstants, CP!InterruptsAreTaken
<1>2. CP!NoAcceptableInterruptWaits => C!NoAcceptableInterruptWaits
  BY PTL DEF C!NoAcceptableInterruptWaits, CP!NoAcceptableInterruptWaits,
             C!Source, CP!Source, C!SOURCES, CP!SOURCES, C!Raised, CP!Raised,
             C!Device, CP!Device, C!AcceptsInterrupt, CP!AcceptsInterrupt,
             C!Level, CP!Level, C!Code, CP!Code, C!vars, CP!vars
<1>3. QED
  BY <1>1, <1>2, CpuSpec, PTL

\* A machine that idles is frozen until one of its devices interrupts it.
THEOREM MachineIdlesFrozen == Spec => C!IdleIsFrozen
<1>1. CP!Spec => CP!IdleIsFrozen
  BY CpuConstants, CP!IdlingIsFrozen
<1>2. CP!IdleIsFrozen => C!IdleIsFrozen
  BY PTL DEF C!IdleIsFrozen, CP!IdleIsFrozen, C!vars, CP!vars
<1>3. QED
  BY <1>1, <1>2, CpuSpec, PTL

-----------------------------------------------------------------------------
(* The instruction cache.                                                     *)
(*                                                                            *)
(* Addresses.  An address is a tag, an index and an offset; a block lies in   *)
(* one region, because a region is a number of whole rows of blocks.          *)

\* The bytes of the blocks.
ROW == ENTRIES * BLOCK_LEN

LEMMA Layout ==
  /\ ENTRIES \in Nat \ {0} /\ BLOCK_LEN \in Nat \ {0} /\ TAG_VALID \in Nat \ {0}
  /\ REGION_LEN \in Nat \ {0} /\ WRAM_LEN \in Nat \ {0} /\ SRAM_LEN \in Nat
  /\ GRANULE \in Nat \ {0} /\ COUNT_SPACE \in Nat \ {0} /\ ADDRESS_LEN \in Nat \ {0}
  /\ BYTE_SPACE \in Nat \ {0} /\ WORD_SPACE \in Nat \ {0} /\ 2 * TAG_VALID <= WORD_SPACE
  /\ ROW \in Nat \ {0} /\ ROW = BLOCK_LEN * ENTRIES
  /\ REGION_LEN % ROW = 0
  /\ ADDRESS_LEN <= TAG_VALID * ROW
  /\ BUS_LEN \in Nat \ {0} /\ GRANULE * COUNT_SPACE * ENTRIES = BUS_LEN
  /\ SPILL_LEN = ROW + 4 * ENTRIES
<1>1. /\ ENTRIES \in Nat \ {0} /\ BLOCK_LEN \in Nat \ {0} /\ TAG_VALID \in Nat \ {0}
      /\ REGION_LEN \in Nat \ {0} /\ WRAM_LEN \in Nat \ {0} /\ SRAM_LEN \in Nat
      /\ GRANULE \in Nat \ {0} /\ COUNT_SPACE \in Nat \ {0} /\ ADDRESS_LEN \in Nat \ {0}
      /\ BYTE_SPACE \in Nat \ {0} /\ 2 * TAG_VALID <= WORD_SPACE
      /\ REGION_LEN % ROW = 0
      /\ ADDRESS_LEN <= TAG_VALID * ROW
      /\ GRANULE * COUNT_SPACE * ENTRIES = BUS_LEN
  BY LayoutAssumption DEF ROW
<1>2. ROW \in Nat \ {0} /\ ROW = BLOCK_LEN * ENTRIES
  BY <1>1 DEF ROW
<1>3. BUS_LEN \in Nat \ {0}
  BY <1>1 DEF BUS_LEN
<1>4. SPILL_LEN = ROW + 4 * ENTRIES
  BY <1>1 DEF SPILL_LEN, ROW, TAG_LEN
<1>5. WORD_SPACE \in Nat \ {0}
  BY <1>1 DEF WORD_SPACE
<1>6. QED
  BY <1>1, <1>2, <1>3, <1>4, <1>5

\* The parts of an address.
Parts(a) ==
  /\ IndexOf(a) \in Index
  /\ TagOf(a) \in Nat
  /\ BlockBase(a) \in Nat
  /\ (TagOf(a) * ENTRIES + IndexOf(a)) * BLOCK_LEN = BlockBase(a)
  /\ a < ADDRESS_LEN => TagOf(a) < TAG_VALID

LEMMA AddressParts ==
  ASSUME NEW a \in Nat
  PROVE  Parts(a)
<1> DEFINE E == ENTRIES
           B == BLOCK_LEN
           p == a \div B
           r == a % B
           t == p \div E
           i == p % E
<1>1. E \in Nat \ {0} /\ B \in Nat \ {0} /\ ROW \in Nat \ {0} /\ ROW = B * E
  BY Layout
<1>2. p \in Int /\ r \in 0..(B - 1) /\ a = B * p + r
  BY <1>1, Divided
<1>3. p \in Nat
  BY <1>1
<1>4. t \in Int /\ i \in 0..(E - 1) /\ p = E * t + i
  BY <1>1, <1>3, Divided
<1>5. t \in Nat
  BY <1>1, <1>3
<1> HIDE DEF p, r, t, i
<1>6. B * p \in Int /\ ROW * t \in Int /\ B * i \in Int /\ B * p = ROW * t + B * i
  BY <1>1, <1>3, <1>4, <1>5
<1>7. B * i + r \in 0..(ROW - 1)
  <2>1. i + 1 \in Int /\ i + 1 <= E /\ E \in Int /\ B \in Nat
    BY <1>1, <1>4
  <2>2. B * (i + 1) <= B * E
    BY <2>1, ProductMonotone
  <2>3. B * (i + 1) = B * i + B /\ B * i \in Nat
    BY <1>1, <1>4
  <2>4. QED
    BY <1>1, <1>2, <2>2, <2>3
<1>8. TagOf(a) = t
  <2> DEFINE rest == B * i + r
  <2>1. rest \in 0..(ROW - 1) /\ a = ROW * t + rest
    BY <1>1, <1>2, <1>6, <1>7
  <2> HIDE DEF rest
  <2>2. a \div ROW = t
    BY <1>1, <1>5, <2>1, Division
  <2>3. QED
    BY <2>2 DEF TagOf, ROW
<1>9. IndexOf(a) = i
  BY DEF IndexOf, p, i
<1>10. BlockBase(a) = B * p
  BY <1>2, <1>6 DEF BlockBase, r
<1>11. (t * E + i) * B = B * p
  BY <1>1, <1>3, <1>4, <1>5
<1>12. a < ADDRESS_LEN => t < TAG_VALID
  <2> SUFFICES ASSUME a < ADDRESS_LEN, t >= TAG_VALID PROVE FALSE
    BY <1>5, Layout
  <2>1. TAG_VALID \in Int /\ t \in Int /\ ROW \in Nat
    BY <1>1, <1>5, Layout
  <2>2. ROW * TAG_VALID <= ROW * t
    BY <2>1, ProductMonotone
  <2>3. ROW * TAG_VALID = TAG_VALID * ROW /\ ROW * t \in Int /\ TAG_VALID * ROW \in Int
    BY <2>1
  <2>4. ADDRESS_LEN <= TAG_VALID * ROW /\ ADDRESS_LEN \in Nat
    BY Layout
  <2>5. a >= ROW * t
    BY <1>1, <1>2, <1>6, <1>7, <2>3
  <2>6. QED
    BY <2>2, <2>3, <2>4, <2>5
<1>13. B * p \in Nat
  BY <1>1, <1>3
<1>14. QED
  BY <1>4, <1>5, <1>8, <1>9, <1>10, <1>11, <1>12, <1>13 DEF Parts, Index

\* A block lies in one region.
LEMMA BlockInRegion ==
  ASSUME NEW a \in Nat
  PROVE  RegionOf(BlockBase(a)) = RegionOf(a)
<1> DEFINE B == BLOCK_LEN
           R == REGION_LEN
           g == a \div R
           h == a % R
           m == h % B
<1>1. B \in Nat \ {0} /\ R \in Nat \ {0} /\ ROW \in Nat \ {0} /\ ROW = B * ENTRIES
      /\ ENTRIES \in Nat /\ R % ROW = 0
  BY Layout
<1>2. g \in Int /\ h \in 0..(R - 1) /\ a = R * g + h
  BY <1>1, Divided
<1>3. PICK n \in Int : R = B * n
  <2> DEFINE rows == R \div ROW
  <2>1. rows \in Int /\ R = ROW * rows
    <3>1. R \in Int
      BY <1>1
    <3>2. R \div ROW \in Int /\ R = ROW * (R \div ROW) + (R % ROW)
      BY <1>1, <3>1, Divided, ZenonT(30)
    <3>3. QED
      BY <1>1, <3>2
  <2> HIDE DEF rows, R
  <2>2. ENTRIES * rows \in Int /\ R = B * (ENTRIES * rows)
    BY <1>1, <2>1
  <2>3. QED
    BY <2>2
<1>4. m \in 0..(B - 1) /\ m <= h
  BY <1>1, <1>2
<1> HIDE DEF g, h, m
<1>5. a % B = m
  <2> DEFINE k == n * g
  <2>1. k \in Int /\ h \in Int /\ a = h + B * k
    BY <1>1, <1>2, <1>3
  <2> HIDE DEF k, B
  <2>2. (h + B * k) % B = h % B
    BY <1>1, <2>1, RemainderOfSum, Zenon
  <2>3. QED
    BY <2>1, <2>2 DEF m
<1>6. h - m \in 0..(R - 1) /\ BlockBase(a) = R * g + (h - m)
  <2>1. R * g \in Int
    BY <1>1, <1>2
  <2>2. QED
    BY <1>1, <1>2, <1>4, <1>5, <2>1 DEF BlockBase
<1>7. BlockBase(a) \div R = g
  <2>1. PICK rest \in 0..(R - 1) : rest = h - m
    BY <1>6
  <2> HIDE DEF R
  <2>2. (R * g + rest) \div R = g
    BY <1>1, <1>2, <2>1, DivisionOf
  <2>3. QED
    BY <1>6, <2>1, <2>2
<1>8. QED
  BY <1>7 DEF RegionOf, g

\* Whatever the region, what is read from it is a byte.
LEMMA ReadTyped ==
  ASSUME NEW w \in [0..(WRAM_LEN - 1) -> Byte], NEW s \in [0..(SRAM_LEN - 1) -> Byte],
         NEW a \in Nat
  PROVE  Read(w, s, a) \in Byte
<1>1. RegionOf(a) \in {"Wram", "CartRam", "CartRom", "Device"}
  <2> DEFINE i == ((a \div REGION_LEN) % 8) + 1
  <2>1. a \div REGION_LEN \in Int
    BY Layout
  <2>2. i \in {1, 2, 3, 4, 5, 6, 7, 8}
    BY <2>1
  <2> HIDE DEF i
  <2>3. Region[i] \in {"Wram", "CartRam", "CartRom", "Device"}
    BY <2>2 DEF Region
  <2>4. QED
    BY <2>3 DEF RegionOf, i
<1>2. 0 \in Byte
  BY Layout DEF Byte
<1>3. CASE RegionOf(a) = "Wram"
  <2>1. a % WRAM_LEN \in 0..(WRAM_LEN - 1)
    BY Layout
  <2>2. Read(w, s, a) = w[a % WRAM_LEN]
    BY <1>3 DEF Read
  <2>3. QED
    BY <2>1, <2>2
<1>4. CASE RegionOf(a) = "CartRam"
  <2>1. Read(w, s, a) = IF SRAM_LEN = 0 THEN 0 ELSE s[a % SRAM_LEN]
    BY <1>4 DEF Read
  <2>2. SRAM_LEN # 0 => a % SRAM_LEN \in 0..(SRAM_LEN - 1)
    BY Layout
  <2>3. QED
    BY <1>2, <2>1, <2>2
<1>5. CASE RegionOf(a) = "CartRom"
  <2>1. a % REGION_LEN \in 0..(REGION_LEN - 1)
    BY Layout
  <2>2. Read(w, s, a) = Rom[a % REGION_LEN]
    BY <1>5 DEF Read
  <2>3. QED
    BY <2>1, <2>2, ByteAssumption
<1>6. CASE RegionOf(a) = "Device"
  <2>1. Read(w, s, a) = 0
    BY <1>6 DEF Read
  <2>2. QED
    BY <1>2, <2>1
<1>7. QED
  BY <1>1, <1>3, <1>4, <1>5, <1>6

-----------------------------------------------------------------------------
(* Tag words.                                                                 *)

\* A tag and the valid bit make a valid word with that tag.
LEMMA FilledWord ==
  ASSUME NEW tag \in 0..(TAG_VALID - 1)
  PROVE  /\ TAG_VALID + tag \in Word
         /\ Valid(TAG_VALID + tag)
         /\ TagField(TAG_VALID + tag) = tag
<1> DEFINE V == TAG_VALID
           word == V + tag
<1>1. V \in Nat \ {0} /\ WORD_SPACE \in Nat /\ 2 * V <= WORD_SPACE
  BY Layout
<1>2. word \in Int /\ word = V * 1 + tag
  BY <1>1
<1>3. word \in Word
  BY <1>1 DEF Word
<1> HIDE DEF word, V
<1>4. tag \in 0..(V - 1)
  BY DEF V
<1>5. word \div V = 1 /\ word % V = tag
  BY <1>1, <1>2, <1>4, Division
<1>6. QED
  BY <1>3, <1>5 DEF Valid, TagField, word, V

\* Taking the valid bit off a valid word leaves a word that is not valid.
LEMMA ClearedWord ==
  ASSUME NEW word \in Word, Valid(word)
  PROVE  /\ word - TAG_VALID \in Word /\ ~Valid(word - TAG_VALID)
         /\ TagField(word - TAG_VALID) = TagField(word)
<1> DEFINE V == TAG_VALID
           q == word \div V
           r == word % V
           left == word - V
<1>1. V \in Nat \ {0} /\ WORD_SPACE \in Nat /\ word \in Int /\ word \in 0..(WORD_SPACE - 1)
  BY Layout DEF Word
<1>2. q \in Int /\ r \in 0..(V - 1) /\ word = V * q + r
  BY <1>1, Divided
<1>3. q % 2 = 1
  BY DEF Valid
<1>4. q \in Nat
  BY <1>1
<1> HIDE DEF q, r
<1>5. q >= 1
  BY <1>3, <1>4
<1>6. V * (q - 1) = V * q - V /\ V * (q - 1) \in Nat
  BY <1>1, <1>4, <1>5
<1>7. left \in Int /\ left = V * (q - 1) + r /\ left \in 0..(WORD_SPACE - 1) /\ q - 1 \in Int
  BY <1>1, <1>2, <1>4, <1>6
<1> HIDE DEF left, V
<1>8. left \div V = q - 1 /\ left % V = r
  <2> DEFINE less == q - 1
  <2>1. less \in Int /\ left = V * less + r
    BY <1>7
  <2> HIDE DEF less
  <2>2. left \div V = less /\ left % V = r
    BY <1>1, <1>2, <1>7, <2>1, Division
  <2>3. QED
    BY <2>2 DEF less
<1>9. (q - 1) % 2 = 0
  BY <1>3, <1>4
<1>10. QED
  BY <1>7, <1>8, <1>9 DEF Valid, TagField, Word, left, V, r

\* A word taken apart into its bytes is put together from them again.
Composed(b0, b1, b2, b3) == b0 + BYTE_SPACE * (b1 + BYTE_SPACE * (b2 + BYTE_SPACE * b3))

LEMMA WordOfBytes ==
  ASSUME NEW word \in Word
  PROVE  /\ \A n \in 1..4 : LeBytes(word)[n] \in Byte
         /\ Composed(LeBytes(word)[1], LeBytes(word)[2], LeBytes(word)[3], LeBytes(word)[4]) = word
<1> DEFINE B == BYTE_SPACE
           second == word \div B
           third  == second \div B
           fourth == third \div B
<1>1. B \in Nat \ {0} /\ word \in 0..(B * (B * (B * B)) - 1)
  <2>1. B \in Nat \ {0} /\ word \in 0..(B * B * B * B - 1)
    BY Layout DEF Word, WORD_SPACE
  <2>2. B * B * B * B = B * (B * (B * B))
    BY <2>1
  <2>3. QED
    BY <2>1, <2>2
<1>2. B * B \in Nat /\ B * (B * B) \in Nat
  BY <1>1
<1>3. second \in 0..(B * (B * B) - 1)
  <2> DEFINE n == B * (B * B)
  <2>1. n \in Nat /\ word \in 0..(B * n - 1)
    BY <1>1, <1>2
  <2> HIDE DEF n, B
  <2>2. second \in 0..(n - 1)
    BY <1>1, <2>1, QuotientBelow
  <2>3. QED
    BY <2>2 DEF n
<1>4. word % B \in 0..(B - 1) /\ word = B * second + (word % B) /\ word \in Int
  <2>1. word \in Int
    BY Layout DEF Word
  <2>2. QED
    BY <1>1, <2>1, Divided
<1> HIDE DEF B, second
<1>5. third \in 0..(B * B - 1)
  <2> DEFINE n == B * B
  <2>1. n \in Nat /\ second \in 0..(B * n - 1)
    BY <1>2, <1>3
  <2> HIDE DEF n
  <2>2. third \in 0..(n - 1)
    BY <1>1, <2>1, QuotientBelow
  <2>3. QED
    BY <2>2 DEF n
<1>6. second % B \in 0..(B - 1) /\ second = B * third + (second % B) /\ second \in Int
  <2>1. second \in Int
    BY <1>2, <1>3
  <2>2. QED
    BY <1>1, <2>1, Divided
<1> HIDE DEF third
<1>7. fourth \in 0..(B - 1)
  BY <1>1, <1>5, QuotientBelow
<1>8. third % B \in 0..(B - 1) /\ third = B * fourth + (third % B) /\ third \in Int
  <2>1. third \in Int
    BY <1>2, <1>5
  <2>2. QED
    BY <1>1, <2>1, Divided
<1> HIDE DEF fourth
<1>9. LeBytes(word) = <<word % B, second % B, third % B, fourth>>
  BY DEF LeBytes, second, third, fourth, B
<1>10. /\ LeBytes(word)[1] = word % B /\ LeBytes(word)[2] = second % B
       /\ LeBytes(word)[3] = third % B /\ LeBytes(word)[4] = fourth
  BY <1>9
<1>11. \A n \in 1..4 : LeBytes(word)[n] \in Byte
  <2>1. \A n \in 1..4 : n = 1 \/ n = 2 \/ n = 3 \/ n = 4
    OBVIOUS
  <2>2. QED
    BY <1>4, <1>6, <1>7, <1>8, <1>10, <2>1 DEF Byte, B
<1>12. Composed(word % B, second % B, third % B, fourth) = word
  <2> DEFINE x == (third % B) + B * fourth
             y == (second % B) + B * third
  <2>1. x = third
    BY <1>1, <1>7, <1>8
  <2>2. y = second
    BY <1>1, <1>6, <1>8
  <2>3. Composed(word % B, second % B, third % B, fourth) = (word % B) + B * ((second % B) + B * x)
    BY DEF Composed, B
  <2>4. (word % B) + B * second = word
    BY <1>1, <1>4, <1>6
  <2>5. QED
    BY <2>1, <2>2, <2>3, <2>4
<1>13. QED
  BY <1>10, <1>11, <1>12

\* Four bytes make a word.
LEMMA ComposedTyped ==
  ASSUME NEW b0 \in Byte, NEW b1 \in Byte, NEW b2 \in Byte, NEW b3 \in Byte
  PROVE  Composed(b0, b1, b2, b3) \in Word
<1> DEFINE B == BYTE_SPACE
<1>1. B \in Nat \ {0} /\ \A b \in Byte : b \in 0..(B - 1)
  BY Layout DEF Byte
<1> HIDE DEF B
<1>2. ASSUME NEW n \in Nat \ {0}, NEW x \in 0..(n - 1), NEW b \in 0..(B - 1)
      PROVE  b + B * x \in 0..(B * n - 1)
  <2>1. x + 1 \in Int /\ n \in Int /\ x + 1 <= n /\ B \in Nat
    BY <1>1
  <2>2. B * (x + 1) <= B * n
    BY <2>1, ProductMonotone
  <2>3. B * (x + 1) = B * x + B /\ B * x \in Nat /\ B * n \in Nat
    BY <1>1
  <2>4. QED
    BY <1>1, <2>2, <2>3
<1>3. B * B \in Nat \ {0} /\ B * (B * B) \in Nat \ {0}
  BY <1>1
<1>4. b2 + B * b3 \in 0..(B * B - 1)
  BY <1>1, <1>2
<1> DEFINE n2 == B * B
           n3 == B * (B * B)
           x2 == b2 + B * b3
           x1 == b1 + B * x2
<1>5. x1 \in 0..(n3 - 1)
  <2>1. n2 \in Nat \ {0} /\ x2 \in 0..(n2 - 1)
    BY <1>3, <1>4
  <2> HIDE DEF n2, x2
  <2>2. b1 + B * x2 \in 0..(B * n2 - 1)
    BY <1>1, <1>2, <2>1
  <2>3. QED
    BY <2>2 DEF n2
<1>6. b0 + B * x1 \in 0..(B * n3 - 1)
  <2>1. n3 \in Nat \ {0} /\ x1 \in 0..(n3 - 1)
    BY <1>3, <1>5
  <2> HIDE DEF n3, x1
  <2>2. QED
    BY <1>1, <1>2, <2>1
<1>7. Composed(b0, b1, b2, b3) = b0 + B * x1
  BY DEF Composed, B
<1>8. WORD_SPACE = B * n3
  <2>1. B * B * B * B = B * (B * (B * B))
    BY <1>1
  <2>2. QED
    BY <2>1 DEF WORD_SPACE, B
<1>9. QED
  BY <1>6, <1>7, <1>8 DEF Word

\* What is read as a word is one.
LEMMA ReadWordTyped ==
  ASSUME NEW w \in [0..(WRAM_LEN - 1) -> Byte], NEW s \in [0..(SRAM_LEN - 1) -> Byte],
         NEW a \in Nat
  PROVE  ReadWord(w, s, a) \in Word
<1>1. a + 1 \in Nat /\ a + 2 \in Nat /\ a + 3 \in Nat
  OBVIOUS
<1>2. /\ Read(w, s, a) \in Byte /\ Read(w, s, a + 1) \in Byte
      /\ Read(w, s, a + 2) \in Byte /\ Read(w, s, a + 3) \in Byte
  BY <1>1, ReadTyped, Zenon
<1>3. ReadWord(w, s, a) = Composed(Read(w, s, a), Read(w, s, a + 1), Read(w, s, a + 2),
                                   Read(w, s, a + 3))
  BY DEF ReadWord, Composed
<1>4. QED
  BY <1>2, <1>3, ComposedTyped

-----------------------------------------------------------------------------
(* Spill areas.                                                               *)

\* The last of a number of bytes.
LEMMA GreatestIs ==
  ASSUME NEW S, NEW n \in Nat, S \subseteq 0..(n - 1), S # {}
  PROVE  Greatest(S) \in S /\ \A j \in S : Greatest(S) >= j
<1> DEFINE Above == {n - k : k \in S}
<1>1. \A k \in S : k \in Int /\ n - k \in Nat
  OBVIOUS
<1>2. Above \subseteq Nat /\ Above # {}
  BY <1>1
<1>3. PICK m \in Above : \A j \in Above : m <= j
  BY <1>2, LeastNumber
<1>4. PICK k \in S : m = n - k
  OBVIOUS
<1>5. \A j \in S : k >= j
  <2> SUFFICES ASSUME NEW j \in S PROVE k >= j
    OBVIOUS
  <2>1. m <= n - j
    BY <1>3
  <2>2. QED
    BY <1>1, <1>4, <2>1
<1>6. QED
  BY <1>5 DEF Greatest

Blocks == [Index -> [0..(BLOCK_LEN - 1) -> Byte]]
Tags   == [Index -> Word]

\* Byte k of a spill area, of any cache.
ByteOf(bs, ts, k) == IF k < ROW THEN bs[k \div BLOCK_LEN][k % BLOCK_LEN]
                     ELSE LeBytes(ts[(k - ROW) \div 4])[((k - ROW) % 4) + 1]

LEMMA SpilledIsByteOf ==
  ASSUME NEW k
  PROVE  SpilledByte(k) = ByteOf(blocks, tags, k)
  BY DEF SpilledByte, ByteOf, ROW, TAG_LEN

\* Where the bytes of an area come from.
LEMMA SpilledParts ==
  ASSUME NEW k \in Spilled
  PROVE  /\ k < ROW => k \div BLOCK_LEN \in Index /\ k % BLOCK_LEN \in 0..(BLOCK_LEN - 1)
         /\ ~(k < ROW) => (k - ROW) \div 4 \in Index /\ ((k - ROW) % 4) + 1 \in 1..4
<1>1. /\ ENTRIES \in Nat \ {0} /\ BLOCK_LEN \in Nat \ {0}
      /\ ROW \in Nat \ {0} /\ ROW = BLOCK_LEN * ENTRIES /\ k \in 0..(ROW + 4 * ENTRIES - 1)
  BY Layout DEF Spilled
<1>2. CASE k < ROW
  <2>1. k \in 0..(BLOCK_LEN * ENTRIES - 1) /\ k \in Int /\ ENTRIES \in Nat
    BY <1>1, <1>2
  <2>2. k \div BLOCK_LEN \in 0..(ENTRIES - 1)
    BY <1>1, <2>1, QuotientBelow, Zenon
  <2>3. k % BLOCK_LEN \in 0..(BLOCK_LEN - 1)
    BY <1>1
  <2>4. QED
    BY <1>2, <2>2, <2>3 DEF Index
<1>3. CASE ~(k < ROW)
  <2>1. k - ROW \in 0..(4 * ENTRIES - 1)
    BY <1>1, <1>3
  <2>2. QED
    BY <1>1, <1>3, <2>1 DEF Index
<1>4. QED
  BY <1>2, <1>3

LEMMA ByteOfTyped ==
  ASSUME NEW bs \in Blocks, NEW ts \in Tags, NEW k \in Spilled
  PROVE  ByteOf(bs, ts, k) \in Byte
<1>1. CASE k < ROW
  <2>1. bs[k \div BLOCK_LEN] \in [0..(BLOCK_LEN - 1) -> Byte]
    BY <1>1, SpilledParts DEF Blocks
  <2>2. QED
    BY <1>1, <2>1, SpilledParts DEF ByteOf
<1>2. CASE ~(k < ROW)
  <2>1. ts[(k - ROW) \div 4] \in Word /\ ((k - ROW) % 4) + 1 \in 1..4
    BY <1>2, SpilledParts DEF Tags
  <2>2. LeBytes(ts[(k - ROW) \div 4])[((k - ROW) % 4) + 1] \in Byte
    BY <2>1, WordOfBytes
  <2>3. QED
    BY <1>2, <2>2 DEF ByteOf
<1>3. QED
  BY <1>1, <1>2

\* And where they go: a block's bytes in the order of the entries, then its tag.
LEMMA SpilledOfBlock ==
  ASSUME NEW index \in Index, NEW offset \in 0..(BLOCK_LEN - 1)
  PROVE  LET k == index * BLOCK_LEN + offset
         IN  k \in Spilled /\ k < ROW /\ k \div BLOCK_LEN = index /\ k % BLOCK_LEN = offset
<1> DEFINE k == index * BLOCK_LEN + offset
<1>1. /\ ENTRIES \in Nat \ {0} /\ BLOCK_LEN \in Nat \ {0} /\ index \in 0..(ENTRIES - 1)
      /\ index \in Int /\ ROW \in Nat \ {0} /\ ROW = BLOCK_LEN * ENTRIES
  BY Layout DEF Index
<1>2. index * BLOCK_LEN = BLOCK_LEN * index /\ BLOCK_LEN * index \in Nat
  BY <1>1
<1>3. BLOCK_LEN * (index + 1) <= BLOCK_LEN * ENTRIES
  <2>1. index + 1 \in Int /\ ENTRIES \in Int /\ index + 1 <= ENTRIES /\ BLOCK_LEN \in Nat
    BY <1>1
  <2>2. QED
    BY <2>1, ProductMonotone
<1>4. BLOCK_LEN * (index + 1) = BLOCK_LEN * index + BLOCK_LEN
  BY <1>1
<1>5. k \in Nat /\ k < ROW /\ k = BLOCK_LEN * index + offset
  BY <1>1, <1>2, <1>3, <1>4
<1>6. (BLOCK_LEN * index + offset) \div BLOCK_LEN = index
      /\ (BLOCK_LEN * index + offset) % BLOCK_LEN = offset
  BY <1>1, DivisionOf, Zenon
<1>7. k \in Spilled
  BY <1>1, <1>5, Layout DEF Spilled
<1>8. QED
  BY <1>5, <1>6, <1>7, Zenon

LEMMA SpilledOfTag ==
  ASSUME NEW index \in Index, NEW n \in 0..3
  PROVE  LET k == TagPlace(index) + n
         IN  k \in Spilled /\ ~(k < ROW) /\ (k - ROW) \div 4 = index /\ (k - ROW) % 4 = n
<1>1. /\ ENTRIES \in Nat \ {0} /\ index \in 0..(ENTRIES - 1) /\ ROW \in Nat \ {0}
      /\ TagPlace(index) = ROW + index * 4
  BY Layout DEF Index, TagPlace, ROW, TAG_LEN
<1>2. TagPlace(index) + n \in 0..(ROW + 4 * ENTRIES - 1)
      /\ (TagPlace(index) + n) - ROW = 4 * index + n /\ ~(TagPlace(index) + n < ROW)
  BY <1>1
<1>3. (4 * index + n) \div 4 = index /\ (4 * index + n) % 4 = n
  <2> DEFINE b == 4
  <2>1. index \in Int /\ n \in 0..(b - 1) /\ b \in Nat \ {0}
    BY <1>1
  <2> HIDE DEF b
  <2>2. (b * index + n) \div b = index /\ (b * index + n) % b = n
    BY <2>1, DivisionOf
  <2>3. QED
    BY <2>2 DEF b
<1> DEFINE k == TagPlace(index) + n
<1>4. k \in Spilled /\ ~(k < ROW) /\ k - ROW = 4 * index + n
  BY <1>2, Layout DEF Spilled
<1> HIDE DEF k
<1>5. (k - ROW) \div 4 = index /\ (k - ROW) % 4 = n
  BY <1>3, <1>4, Zenon
<1> SUFFICES k \in Spilled /\ ~(k < ROW) /\ (k - ROW) \div 4 = index /\ (k - ROW) % 4 = n
  BY Zenon DEF k
<1>6. QED
  BY <1>4, <1>5, Zenon

-----------------------------------------------------------------------------
(* Fills.                                                                     *)

\* An entry shows memory.
Shows(bs, ts, index) ==
  Valid(ts[index]) => /\ IsMemory(EntryBase(ts, index))
                      /\ bs[index] = BlockIn(wram, sram, EntryBase(ts, index))

\* A fill leaves an entry as it was, or makes it show memory.
LEMMA FillSound ==
  ASSUME TypeOK, NEW c \in [blocks : Blocks, tags : Tags], NEW a \in Nat,
         a < ADDRESS_LEN
  PROVE  /\ Fill(c, a) \in [blocks : Blocks, tags : Tags]
         /\ \A index \in Index :
              \/ Shows(Fill(c, a).blocks, Fill(c, a).tags, index)
              \/ /\ Fill(c, a).blocks[index] = c.blocks[index]
                 /\ Fill(c, a).tags[index] = c.tags[index]
<1> DEFINE i == IndexOf(a)
           block == [offset \in 0..(BLOCK_LEN - 1) |-> Read(wram, sram, BlockBase(a) + offset)]
           word == TAG_VALID + TagOf(a)
           bs == [c.blocks EXCEPT ![i] = block]
           ts == [c.tags EXCEPT ![i] = word]
<1>1. CASE ~IsMemory(a) \/ Contains(c.tags, a)
  BY <1>1 DEF Fill
<1>2. CASE IsMemory(a) /\ ~Contains(c.tags, a)
  <2>1. Fill(c, a) = [blocks |-> bs, tags |-> ts]
    BY <1>2 DEF Fill, Captured
  <2>2. /\ i \in Index /\ TagOf(a) \in 0..(TAG_VALID - 1) /\ BlockBase(a) \in Nat
        /\ (TagOf(a) * ENTRIES + i) * BLOCK_LEN = BlockBase(a)
    BY AddressParts, Layout DEF Parts
  <2>3. word \in Word /\ Valid(word) /\ TagField(word) = TagOf(a)
    BY <2>2, FilledWord
  <2>4. block \in [0..(BLOCK_LEN - 1) -> Byte]
    <3>1. /\ wram \in [0..(WRAM_LEN - 1) -> Byte]
          /\ sram \in [0..(SRAM_LEN - 1) -> Byte]
      BY DEF TypeOK
    <3>2. ASSUME NEW offset \in 0..(BLOCK_LEN - 1)
          PROVE  Read(wram, sram, BlockBase(a) + offset) \in Byte
      <4>1. BlockBase(a) + offset \in Nat
        BY <2>2, Layout
      <4>2. QED
        BY <3>1, <4>1, ReadTyped, Zenon
    <3>3. QED
      BY <3>2
  <2> HIDE DEF i, block, word
  <2>5. bs \in Blocks /\ ts \in Tags
    BY <2>2, <2>3, <2>4 DEF Blocks, Tags
  <2>6. bs[i] = block /\ ts[i] = word
    BY <2>2 DEF Blocks, Tags
  <2>7. EntryBase(ts, i) = BlockBase(a)
    BY <2>2, <2>3, <2>6 DEF EntryBase
  <2>8. IsMemory(BlockBase(a))
    BY <1>2, BlockInRegion DEF IsMemory
  <2>9. Shows(bs, ts, i)
    BY <2>6, <2>7, <2>8 DEF Shows, BlockIn, block
  <2>10. \A index \in Index \ {i} : bs[index] = c.blocks[index] /\ ts[index] = c.tags[index]
    BY DEF Blocks, Tags
  <2>11. QED
    BY <2>1, <2>5, <2>9, <2>10
<1>3. QED
  BY <1>1, <1>2

-----------------------------------------------------------------------------
(* Type correctness.                                                          *)

\* A fetch: the entries it touches show memory, the others are as they were.
LEMMA FetchSound ==
  ASSUME TypeOK, NEW pc \in Fetches, NEW long \in BOOLEAN, Fetch(pc, long)
  PROVE  /\ blocks' \in Blocks /\ tags' \in Tags
         /\ \A index \in Index :
              \/ Shows(blocks', tags', index)
              \/ blocks'[index] = blocks[index] /\ tags'[index] = tags[index]
<1> DEFINE c == [blocks |-> blocks, tags |-> tags]
           next == (pc + 2) % ADDRESS_LEN
           first == Fill(c, pc)
           second == Fill(first, next)
           both == IF long THEN second ELSE first
<1>1. c \in [blocks : Blocks, tags : Tags]
  BY DEF TypeOK, Blocks, Tags
<1>2. pc \in Nat /\ pc < ADDRESS_LEN
  BY ByteAssumption, Layout DEF Address
<1>3. next \in Nat /\ next < ADDRESS_LEN
  <2>1. pc + 2 \in Nat
    BY <1>2
  <2>2. QED
    BY <2>1, Layout
<1>4. blocks' = both.blocks /\ tags' = both.tags
  BY DEF Fetch
<1> HIDE DEF next, c
<1>5. /\ first \in [blocks : Blocks, tags : Tags]
      /\ \A index \in Index :
           \/ Shows(first.blocks, first.tags, index)
           \/ first.blocks[index] = c.blocks[index] /\ first.tags[index] = c.tags[index]
  BY <1>1, <1>2, FillSound, Zenon
<1> HIDE DEF first
<1>6. /\ second \in [blocks : Blocks, tags : Tags]
      /\ \A index \in Index :
           \/ Shows(second.blocks, second.tags, index)
           \/ /\ second.blocks[index] = first.blocks[index]
              /\ second.tags[index] = first.tags[index]
  BY <1>3, <1>5, FillSound, Zenon
<1> HIDE DEF second
<1>7. CASE long
  <2>1. blocks' = second.blocks /\ tags' = second.tags
    BY <1>4, <1>7
  <2>2. ASSUME NEW index \in Index
        PROVE  \/ Shows(second.blocks, second.tags, index)
               \/ /\ second.blocks[index] = blocks[index]
                  /\ second.tags[index] = tags[index]
    <3>1. \/ Shows(first.blocks, first.tags, index)
          \/ first.blocks[index] = blocks[index] /\ first.tags[index] = tags[index]
      BY <1>5 DEF c
    <3>2. CASE Shows(second.blocks, second.tags, index)
      BY <3>2
    <3>3. CASE /\ second.blocks[index] = first.blocks[index]
               /\ second.tags[index] = first.tags[index]
      BY <3>1, <3>3 DEF Shows, EntryBase
    <3>4. QED
      BY <1>6, <3>2, <3>3
  <2>3. QED
    BY <1>6, <2>1, <2>2
<1>8. CASE ~long
  BY <1>4, <1>5, <1>8 DEF c
<1>9. QED
  BY <1>7, <1>8

\* A word of CHCW, as the program may write it.
LEMMA ControlWord ==
  ASSUME NEW control \in ControlWords
  PROVE  /\ control.icc \in BOOLEAN /\ control.ice \in BOOLEAN
         /\ control.icd \in BOOLEAN /\ control.icr \in BOOLEAN
         /\ control.field \in Nat /\ Spill(control) \in Nat
<1>1. control \in Control
  BY ControlAssumption
<1>2. control.field \in Nat
  <2>1. control.field \in 0..(ADDRESS_LEN \div GRANULE - 1)
    BY <1>1 DEF Control
  <2> DEFINE n == ADDRESS_LEN \div GRANULE
  <2>2. n \in Int
    BY Layout
  <2> HIDE DEF n
  <2>3. QED
    BY <2>1, <2>2 DEF n
<1>3. QED
  BY <1>1, <1>2, Layout DEF Control, Spill

\* A dump leaves bytes in a memory: what was there, or bytes of the cache.
LEMMA OverwrittenTyped ==
  ASSUME TypeOK, NEW region, NEW spill, NEW length, NEW n \in Nat,
         NEW mem \in [0..(n - 1) -> Byte]
  PROVE  Overwritten(region, mem, spill, length) \in [0..(n - 1) -> Byte]
<1> DEFINE writers(cell) == {k \in Spilled : /\ RegionOf(spill + k) = region
                                             /\ (spill + k) % length = cell}
           value(cell) == IF writers(cell) = {} THEN mem[cell]
                          ELSE SpilledByte(Greatest(writers(cell)))
<1>1. ASSUME NEW cell \in 0..(n - 1)
      PROVE  value(cell) \in Byte
  <2>1. CASE writers(cell) = {}
    BY <2>1
  <2>2. CASE writers(cell) # {}
    <3>1. writers(cell) \subseteq 0..(SPILL_LEN - 1) /\ SPILL_LEN \in Nat
      BY Layout DEF Spilled
    <3> DEFINE W == writers(cell)
    <3>2. W # {} /\ W \subseteq Spilled
      BY <2>2
    <3> HIDE DEF W
    <3>3. Greatest(W) \in Spilled
      BY <3>1, <3>2, GreatestIs DEF W, Spilled
    <3>4. blocks \in Blocks /\ tags \in Tags
      BY DEF TypeOK, Blocks, Tags
    <3>5. SpilledByte(Greatest(W)) \in Byte
      BY <3>3, <3>4, SpilledIsByteOf, ByteOfTyped
    <3>6. QED
      BY <2>2, <3>5 DEF W
  <2>3. QED
    BY <2>1, <2>2
<1>2. Overwritten(region, mem, spill, length) = [cell \in 0..(n - 1) |-> value(cell)]
  BY DEF Overwritten
<1> HIDE DEF value
<1>3. QED
  BY <1>1, <1>2

\* What a word of CHCW leaves is bytes and tag words.
LEMMA ControlTyped ==
  ASSUME TypeOK, NEW control \in ControlWords, CacheControl(control)
  PROVE  TypeOK'
<1>1. /\ wram \in [0..(WRAM_LEN - 1) -> Byte] /\ sram \in [0..(SRAM_LEN - 1) -> Byte]
      /\ blocks \in Blocks /\ tags \in Tags
  BY DEF TypeOK, Blocks, Tags
<1>2. ASSUME NEW offset \in Nat
      PROVE  /\ Read(wram, sram, Spill(control) + offset) \in Byte
             /\ ReadWord(wram, sram, Spill(control) + offset) \in Word
  <2>1. Spill(control) + offset \in Nat
    BY ControlWord
  <2>2. QED
    BY <1>1, <2>1, ReadTyped, ReadWordTyped, Zenon
<1>3. enabled' \in BOOLEAN
  BY ControlWord DEF CacheControl
<1>4. tags' \in Tags
  <2>1. CASE control.icc
    <3>1. tags' = Cleared(Cen(control), Cec(control))
      BY <2>1 DEF CacheControl, Clears
    <3>2. \A index \in Index : Valid(tags[index]) => tags[index] - TAG_VALID \in Word
      BY <1>1, ClearedWord DEF Tags
    <3>3. QED
      BY <1>1, <3>1, <3>2 DEF Cleared, Tags
  <2>2. CASE Restores(control)
    <3>1. tags' = [index \in Index |->
                     ReadWord(wram, sram, Spill(control) + RestoredTagPlace(index))]
      BY <2>2 DEF CacheControl, Restores, Clears
    <3>2. \A index \in Index : RestoredTagPlace(index) \in Nat
      BY Layout DEF Index, RestoredTagPlace, TagPlace, TAG_LEN
    <3>3. QED
      BY <1>2, <3>1, <3>2 DEF Tags
  <2>3. CASE ~control.icc /\ ~Restores(control)
    BY <1>1, <2>3 DEF CacheControl, Clears
  <2>4. QED
    BY <2>1, <2>2, <2>3
<1>5. blocks' \in Blocks
  <2>1. CASE Restores(control)
    <3>1. blocks' = [index \in Index |-> [offset \in 0..(BLOCK_LEN - 1) |->
                       Read(wram, sram, Spill(control) + index * BLOCK_LEN + offset)]]
      BY <2>1 DEF CacheControl
    <3>2. ASSUME NEW index \in Index, NEW offset \in 0..(BLOCK_LEN - 1)
          PROVE  Read(wram, sram, Spill(control) + index * BLOCK_LEN + offset) \in Byte
      <4>1. index * BLOCK_LEN \in Nat /\ offset \in Nat
        BY Layout DEF Index
      <4>2. /\ index * BLOCK_LEN + offset \in Nat
            /\ Spill(control) + index * BLOCK_LEN + offset
                 = Spill(control) + (index * BLOCK_LEN + offset)
        BY <4>1, ControlWord
      <4>3. Read(wram, sram, Spill(control) + (index * BLOCK_LEN + offset)) \in Byte
        BY <1>2, <4>2, Zenon
      <4>4. QED
        BY <4>2, <4>3, Zenon
    <3>3. QED
      BY <3>1, <3>2 DEF Blocks
  <2>2. CASE ~Restores(control)
    BY <1>1, <2>2 DEF CacheControl
  <2>3. QED
    BY <2>1, <2>2
<1>6. /\ wram' \in [0..(WRAM_LEN - 1) -> Byte] /\ sram' \in [0..(SRAM_LEN - 1) -> Byte]
  <2>1. CASE Dumps(control)
    <3>1. /\ wram' = Overwritten("Wram", wram, Spill(control), WRAM_LEN)
          /\ sram' = Overwritten("CartRam", sram, Spill(control), SRAM_LEN)
      BY <2>1 DEF CacheControl
    <3>2. WRAM_LEN \in Nat /\ SRAM_LEN \in Nat
      BY Layout
    <3>3. QED
      BY <1>1, <3>1, <3>2, OverwrittenTyped
  <2>2. CASE ~Dumps(control)
    BY <1>1, <2>2 DEF CacheControl, memory
  <2>3. QED
    BY <2>1, <2>2
<1>7. QED
  BY <1>3, <1>4, <1>5, <1>6 DEF TypeOK, Blocks, Tags

LEMMA InitTyped == CacheInit => TypeOK
<1>1. 0 \in Byte /\ 0 \in Word
  BY Layout DEF Byte, Word
<1>2. QED
  BY <1>1 DEF CacheInit, TypeOK

LEMMA NextTyped == TypeOK /\ [CacheNext]_cacheVars => TypeOK'
<1> SUFFICES ASSUME TypeOK, [CacheNext]_cacheVars PROVE TypeOK'
  OBVIOUS
<1>1. ASSUME NEW pc \in Fetches, NEW long \in BOOLEAN, Fetch(pc, long) PROVE TypeOK'
  <2>1. blocks' \in Blocks /\ tags' \in Tags
    BY <1>1, FetchSound
  <2>2. QED
    BY <1>1, <2>1 DEF Fetch, TypeOK, Blocks, Tags
<1>2. ASSUME NEW control \in ControlWords, CacheControl(control) PROVE TypeOK'
  BY <1>2, ControlTyped
<1>3. ASSUME NEW address \in StoreAddresses, NEW value \in StoreValues, Store(address, value)
      PROVE  TypeOK'
  BY <1>3, ByteAssumption DEF Store, TypeOK
<1>4. CASE UNCHANGED cacheVars
  BY <1>4 DEF cacheVars, TypeOK
<1>5. QED
  BY <1>1, <1>2, <1>3, <1>4 DEF CacheNext

\* Through fills, aliased dumps and restores from anywhere on the bus, the
\* cache and the memories hold bytes and tag words: Cache::fill, clear, dump
\* and restore.
THEOREM CacheTypeCorrect == CacheSpec => []TypeOK
<1>1. QED
  BY InitTyped, NextTyped, PTL DEF CacheSpec

-----------------------------------------------------------------------------
(* Valid entries show memory.                                                 *)

\* The cache may be dumped, but no word of CHCW asks for two operations.
LEMMA OneOperation ==
  ASSUME NEW control \in ControlWords, CacheControl(control)
  PROVE  /\ control.icc => /\ ~Dumps(control) /\ ~Restores(control)
                           /\ tags' = Cleared(Cen(control), Cec(control))
         /\ Dumps(control) => ~Restores(control)
         /\ ~control.icc /\ ~Restores(control) => tags' = tags
         /\ ~Restores(control) => blocks' = blocks
         /\ ~Dumps(control) => wram' = wram /\ sram' = sram
  BY DEF CacheControl, Clears, Dumps, Restores, memory

\* A clear leaves an entry as it was, or takes its valid bit, and that only of
\* the entries it names.
LEMMA ClearedEntry ==
  ASSUME NEW first \in Nat, NEW count \in Nat, NEW index \in Index
  PROVE  \/ /\ ~(Valid(tags[index]) /\ index \in first..(first + count - 1))
            /\ Cleared(first, count)[index] = tags[index]
         \/ /\ Valid(tags[index]) /\ index \in first..(first + count - 1)
            /\ Cleared(first, count)[index] = tags[index] - TAG_VALID
<1> DEFINE goes(i) == /\ first <= i /\ i < first + Smaller(count, ENTRIES)
                      /\ Valid(tags[i])
<1>1. Cleared(first, count) = [i \in Index |-> IF goes(i) THEN tags[i] - TAG_VALID ELSE tags[i]]
  BY DEF Cleared
<1>2. goes(index) <=> Valid(tags[index]) /\ index \in first..(first + count - 1)
  <2>1. ENTRIES \in Nat /\ index \in Int /\ index < ENTRIES
    BY Layout DEF Index
  <2>2. first <= index /\ index < first + Smaller(count, ENTRIES)
          <=> index \in first..(first + count - 1)
    BY <2>1 DEF Smaller
  <2>3. QED
    BY <2>2
<1> HIDE DEF goes
<1>3. Cleared(first, count)[index] = IF goes(index) THEN tags[index] - TAG_VALID ELSE tags[index]
  BY <1>1
<1>4. QED
  BY <1>2, <1>3

\* The two counts of a word, and where its address lies.
LEMMA ControlCounts ==
  ASSUME NEW control \in ControlWords
  PROVE  /\ Cen(control) \in Nat /\ Cec(control) \in Nat
         /\ OnBus(Spill(control)) <=> Cen(control) < ENTRIES
<1> DEFINE G == GRANULE
           S == COUNT_SPACE
           E == ENTRIES
           field == control.field
           cen == field \div S
           cec == field % S
<1>1. /\ G \in Nat \ {0} /\ S \in Nat \ {0} /\ E \in Nat \ {0} /\ G * S * E = BUS_LEN
      /\ field \in Nat
  BY Layout, ControlWord
<1> HIDE DEF G, S, E, field
<1>2. cen \in Int /\ cec \in 0..(S - 1) /\ field = S * cen + cec
  BY <1>1, Divided
<1>3. cen \in Nat /\ cec \in Nat
  BY <1>1, <1>2
<1>4. Cen(control) = cen /\ Cec(control) = cec /\ Spill(control) = field * G
  BY DEF Cen, Cec, Spill, G, S, field
<1>5. BUS_LEN = G * (S * E) /\ field * G = G * field /\ S * E \in Nat
  BY <1>1
<1> HIDE DEF cen, cec
<1>6. ASSUME cen < E PROVE field * G < BUS_LEN
  <2>1. S * (cen + 1) <= S * E
    <3>1. cen + 1 \in Int /\ E \in Int /\ cen + 1 <= E /\ S \in Nat
      BY <1>1, <1>3, <1>6
    <3>2. QED
      BY <3>1, ProductMonotone
  <2>2. S * (cen + 1) = S * cen + S /\ S * cen \in Nat
    BY <1>1, <1>3
  <2>3. field + 1 <= S * E
    BY <1>1, <1>2, <1>5, <2>1, <2>2
  <2>4. G * (field + 1) <= G * (S * E)
    <3>1. field + 1 \in Int /\ S * E \in Int /\ G \in Nat
      BY <1>1, <1>5
    <3>2. QED
      BY <2>3, <3>1, ProductMonotone
  <2>5. G * (field + 1) = G * field + G /\ G * field \in Nat
    BY <1>1
  <2>6. QED
    BY <1>1, <1>5, <2>4, <2>5
<1>7. ASSUME cen >= E PROVE BUS_LEN <= field * G
  <2>1. S * E <= S * cen
    <3>1. cen \in Int /\ E \in Int /\ S \in Nat
      BY <1>1, <1>3
    <3>2. QED
      BY <1>7, <3>1, ProductMonotone
  <2>2. S * E <= field /\ S * E \in Int /\ field \in Int
    <3>1. S * cen \in Nat
      BY <1>1, <1>3
    <3>2. QED
      BY <1>1, <1>2, <1>5, <2>1, <3>1
  <2>3. G * (S * E) <= G * field
    BY <1>1, <2>2, ProductMonotone
  <2>4. QED
    BY <1>5, <2>3
<1>8. OnBus(Spill(control)) <=> field * G < BUS_LEN
  BY <1>4 DEF OnBus
<1>9. field * G \in Nat /\ BUS_LEN \in Nat
  BY <1>1, Layout
<1>10. OnBus(Spill(control)) <=> cen < E
  BY <1>1, <1>3, <1>6, <1>7, <1>8, <1>9
<1>11. QED
  BY <1>3, <1>4, <1>10 DEF E

\* An entry that was left alone and whose block was not reached still shows it.
LEMMA StillShows ==
  ASSUME NEW index \in Index, Shows(blocks, tags, index), index \notin Touched,
         blocks'[index] = blocks[index],
         Valid(tags'[index]) => tags'[index] = tags[index]
  PROVE  Shows(blocks, tags, index)'
<1> SUFFICES ASSUME Valid(tags'[index])
             PROVE  /\ IsMemory(EntryBase(tags', index))
                    /\ blocks'[index] = BlockIn(wram', sram', EntryBase(tags', index))
  BY DEF Shows
<1>1. EntryBase(tags', index) = EntryBase(tags, index)
  BY DEF EntryBase
<1>2. /\ IsMemory(EntryBase(tags, index))
      /\ blocks[index] = BlockIn(wram, sram, EntryBase(tags, index))
  BY DEF Shows
<1>3. BlockIn(wram, sram, EntryBase(tags, index)) = BlockIn(wram', sram', EntryBase(tags, index))
  BY DEF Touched
<1>4. QED
  BY <1>1, <1>2, <1>3

\* The types, and the entries that show memory do.
ShowsInv == TypeOK /\ ValidEntriesShowMemory

LEMMA ShowsInitSound == HistoryInit => ShowsInv
<1> SUFFICES ASSUME HistoryInit PROVE ShowsInv
  OBVIOUS
<1>1. TypeOK
  BY InitTyped DEF HistoryInit
<1>2. ASSUME NEW index \in Index PROVE ~Valid(tags[index])
  <2>1. tags[index] = 0
    BY DEF HistoryInit, CacheInit
  <2>2. 0 \div TAG_VALID = 0
    BY Layout
  <2>3. QED
    BY <2>1, <2>2 DEF Valid
<1>3. QED
  BY <1>1, <1>2 DEF ShowsInv, ValidEntriesShowMemory

LEMMA HistoryRefines == [HistoryNext]_historyVars => [CacheNext]_cacheVars
  BY DEF HistoryNext, HistoryFetch, HistoryControl, HistoryStore, CacheNext, historyVars, cacheVars

LEMMA ShowsNextSound == ShowsInv /\ [HistoryNext]_historyVars => ShowsInv'
<1> SUFFICES ASSUME ShowsInv, [HistoryNext]_historyVars PROVE ShowsInv'
  OBVIOUS
<1>1. TypeOK /\ TypeOK'
  BY HistoryRefines, NextTyped DEF ShowsInv
<1>2. \A index \in Index \ stale : Shows(blocks, tags, index)
  BY DEF ShowsInv, ValidEntriesShowMemory, Shows
<1> SUFFICES \A index \in Index \ stale' : Shows(blocks, tags, index)'
  BY <1>1 DEF ShowsInv, ValidEntriesShowMemory, Shows
<1>3. ASSUME NEW pc \in Fetches, NEW long \in BOOLEAN, HistoryFetch(pc, long)
      PROVE  \A index \in Index \ stale' : Shows(blocks, tags, index)'
  <2>1. Fetch(pc, long) /\ UNCHANGED <<wram, sram>>
    BY <1>3 DEF HistoryFetch, Fetch
  <2> TAKE index \in Index \ stale'
  <2>2. \/ Shows(blocks', tags', index)
        \/ blocks'[index] = blocks[index] /\ tags'[index] = tags[index]
    BY <1>1, <2>1, FetchSound
  <2>3. CASE Shows(blocks', tags', index)
    BY <2>1, <2>3 DEF Shows
  <2>4. CASE blocks'[index] = blocks[index] /\ tags'[index] = tags[index]
    <3>1. index \notin stale
      BY <1>3, <2>4 DEF HistoryFetch
    <3>2. Shows(blocks, tags, index)
      BY <1>2, <3>1
    <3>3. QED
      BY <2>1, <2>4, <3>2 DEF Shows, EntryBase
  <2>5. QED
    BY <2>2, <2>3, <2>4
<1>4. ASSUME NEW control \in ControlWords, HistoryControl(control)
      PROVE  \A index \in Index \ stale' : Shows(blocks, tags, index)'
  <2>1. CacheControl(control)
    BY <1>4 DEF HistoryControl
  <2>2. CASE Restores(control)
    BY <1>4, <2>2 DEF HistoryControl
  <2>3. CASE ~Restores(control)
    <3> TAKE index \in Index \ stale'
    <3>1. index \notin stale /\ index \notin Touched
      BY <1>4, <2>3 DEF HistoryControl
    <3>2. blocks'[index] = blocks[index]
      BY <2>1, <2>3, OneOperation
    <3>3. Valid(tags'[index]) => tags'[index] = tags[index]
      <4>1. CASE control.icc
        <5>1. tags' = Cleared(Cen(control), Cec(control))
          BY <2>1, <4>1, OneOperation
        <5>2. tags[index] \in Word
          BY <1>1 DEF TypeOK
        <5>3. Valid(tags[index]) => ~Valid(tags[index] - TAG_VALID)
          BY <5>2, ClearedWord
        <5>4. \/ tags'[index] = tags[index]
              \/ Valid(tags[index]) /\ tags'[index] = tags[index] - TAG_VALID
          BY <5>1, ClearedEntry, ControlCounts
        <5>5. QED
          BY <5>3, <5>4
      <4>2. CASE ~control.icc
        BY <2>1, <2>3, <4>2, OneOperation
      <4>3. QED
        BY <4>1, <4>2
    <3>4. QED
      BY <1>2, <3>1, <3>2, <3>3, StillShows
  <2>4. QED
    BY <2>2, <2>3
<1>5. ASSUME NEW address \in StoreAddresses, NEW value \in StoreValues,
             HistoryStore(address, value)
      PROVE  \A index \in Index \ stale' : Shows(blocks, tags, index)'
  <2> TAKE index \in Index \ stale'
  <2>1. index \notin stale /\ index \notin Touched
    BY <1>5 DEF HistoryStore
  <2>2. blocks' = blocks /\ tags' = tags
    BY <1>5 DEF HistoryStore, Store
  <2>3. QED
    BY <1>2, <2>1, <2>2, StillShows
<1>6. CASE UNCHANGED historyVars
  BY <1>2, <1>6 DEF historyVars, Shows, EntryBase, BlockIn
<1>7. QED
  BY <1>3, <1>4, <1>5, <1>6 DEF HistoryNext

\* A valid entry that no restore brought and whose block memory did not change
\* shows its block, whatever was cleared, evicted, dumped and stored: what
\* Cache::fetch captured stays true of memory.
THEOREM EntriesShowMemory == HistorySpec => []ValidEntriesShowMemory
<1>1. ShowsInv => ValidEntriesShowMemory
  BY DEF ShowsInv
<1>2. QED
  BY <1>1, ShowsInitSound, ShowsNextSound, PTL DEF HistorySpec

\* The record of what happened does not constrain the cache.
THEOREM HistoryImpliesCache == HistorySpec => CacheSpec
<1>1. HistoryInit => CacheInit
  BY DEF HistoryInit
<1>2. QED
  BY <1>1, HistoryRefines, PTL DEF HistorySpec, CacheSpec

-----------------------------------------------------------------------------
(* A restore brings the dumped cache back.                                    *)

\* The cache saved in an area: every byte of the area holds its part of it.
HeldIn(w, s, spill, bs, ts) == \A k \in Spilled : Read(w, s, spill + k) = ByteOf(bs, ts, k)

HeldAt(spill, bs, ts) == HeldIn(wram, sram, spill, bs, ts)

SavedIsHeld ==
  \/ saved = Nothing
  \/ \E spill \in Nat, bs \in Blocks, ts \in Tags :
       /\ saved = [spill |-> spill, cache |-> <<bs, ts>>]
       /\ HeldAt(spill, bs, ts)

\* The bytes of an area that are written where byte k is.
Writers(region, length, spill, k) ==
  {j \in Spilled : /\ RegionOf(spill + j) = region
                   /\ (spill + j) % length = (spill + k) % length}

\* In a roomy area it is the only one.
LEMMA OneWriter ==
  ASSUME NEW region, NEW length, NEW spill \in Nat, NEW k \in Spilled,
         RegionOf(spill + k) = region,
         \A j \in Spilled : RegionOf(spill + j) = region
                              /\ (spill + j) % length = (spill + k) % length => j = k
  PROVE  /\ Writers(region, length, spill, k) # {}
         /\ Greatest(Writers(region, length, spill, k)) = k
<1> DEFINE W == Writers(region, length, spill, k)
<1>1. W = {k}
  BY DEF Writers
<1> HIDE DEF W
<1>2. W # {} /\ W \subseteq 0..(SPILL_LEN - 1) /\ SPILL_LEN \in Nat
  <2>1. W # {} /\ W \subseteq Spilled
    BY <1>1
  <2>2. QED
    BY <2>1, Layout DEF Spilled
<1>3. Greatest(W) \in W
  BY <1>2, GreatestIs
<1> SUFFICES W # {} /\ Greatest(W) = k
  BY DEF W
<1>4. QED
  BY <1>1, <1>3

\* A dump to a roomy area is held there.
LEMMA DumpIsHeld ==
  ASSUME TypeOK, NEW control \in ControlWords, CacheControl(control),
         Dumps(control), Roomy(Spill(control))
  PROVE  HeldAt(Spill(control), blocks, tags)'
<1> DEFINE spill == Spill(control)
<1>1. spill \in Nat
  BY ControlWord
<1>2. /\ wram' = Overwritten("Wram", wram, spill, WRAM_LEN)
      /\ sram' = Overwritten("CartRam", sram, spill, SRAM_LEN)
      /\ blocks' = blocks /\ tags' = tags
  <2>1. ~control.icc
    BY DEF Dumps, Clears
  <2>2. QED
    BY <2>1, OneOperation DEF CacheControl
<1>3. Roomy(spill)
  OBVIOUS
<1>4. spill' = spill
  OBVIOUS
<1> HIDE DEF spill
<1>5. ASSUME NEW k \in Spilled
      PROVE  Read(wram', sram', spill + k) = ByteOf(blocks, tags, k)
  <2>1. spill + k \in Nat
    BY <1>1, Layout DEF Spilled
  <2>2. CASE RegionOf(spill + k) = "Wram"
    <3>1. (spill + k) % WRAM_LEN \in 0..(WRAM_LEN - 1)
      BY <2>1, Layout
    <3>2. \A j \in Spilled : RegionOf(spill + j) = "Wram"
            /\ (spill + j) % WRAM_LEN = (spill + k) % WRAM_LEN => j = k
      BY <1>3, <2>2 DEF Roomy, Place
    <3>3. /\ Writers("Wram", WRAM_LEN, spill, k) # {}
          /\ Greatest(Writers("Wram", WRAM_LEN, spill, k)) = k
      BY <1>1, <2>2, <3>2, OneWriter
    <3>4. DOMAIN wram = 0..(WRAM_LEN - 1)
      BY DEF TypeOK
    <3>5. wram'[(spill + k) % WRAM_LEN] = SpilledByte(k)
      BY <1>2, <3>1, <3>3, <3>4 DEF Overwritten, Writers
    <3>6. Read(wram', sram', spill + k) = wram'[(spill + k) % WRAM_LEN]
      BY <2>2 DEF Read
    <3>7. QED
      BY <3>5, <3>6, SpilledIsByteOf
  <2>3. CASE RegionOf(spill + k) = "CartRam" /\ SRAM_LEN # 0
    <3>1. (spill + k) % SRAM_LEN \in 0..(SRAM_LEN - 1)
      BY <2>1, <2>3, Layout
    <3>2. \A j \in Spilled : RegionOf(spill + j) = "CartRam"
            /\ (spill + j) % SRAM_LEN = (spill + k) % SRAM_LEN => j = k
      BY <1>3, <2>3 DEF Roomy, Place
    <3>3. /\ Writers("CartRam", SRAM_LEN, spill, k) # {}
          /\ Greatest(Writers("CartRam", SRAM_LEN, spill, k)) = k
      BY <1>1, <2>3, <3>2, OneWriter
    <3>4. DOMAIN sram = 0..(SRAM_LEN - 1)
      BY DEF TypeOK
    <3>5. sram'[(spill + k) % SRAM_LEN] = SpilledByte(k)
      BY <1>2, <3>1, <3>3, <3>4 DEF Overwritten, Writers
    <3>6. Read(wram', sram', spill + k) = sram'[(spill + k) % SRAM_LEN]
      BY <2>3 DEF Read
    <3>7. QED
      BY <3>5, <3>6, SpilledIsByteOf
  <2>4. QED
    BY <1>3, <2>2, <2>3 DEF Roomy
<1>6. QED
  BY <1>2, <1>5 DEF HeldAt, HeldIn, spill

\* Other steps leave the saved area as it was, or forget it.
LEMMA KeptIsHeld ==
  ASSUME SavedIsHeld, saved' = Kept
  PROVE  SavedIsHeld'
<1>1. CASE saved' = Nothing
  BY <1>1 DEF SavedIsHeld, Nothing
<1>2. CASE saved' # Nothing
  <2>1. saved' = saved /\ saved # Nothing
        /\ Area(wram, sram, saved.spill) = Area(wram', sram', saved.spill)
    BY <1>2 DEF Kept
  <2>2. PICK spill \in Nat, bs \in Blocks, ts \in Tags :
           /\ saved = [spill |-> spill, cache |-> <<bs, ts>>]
           /\ HeldAt(spill, bs, ts)
    BY <2>1 DEF SavedIsHeld
  <2>3. ASSUME NEW k \in Spilled
        PROVE  Read(wram', sram', spill + k) = ByteOf(bs, ts, k)
    <3>1. Area(wram, sram, spill)[k] = Area(wram', sram', spill)[k]
      BY <2>1, <2>2
    <3>2. Read(wram, sram, spill + k) = Read(wram', sram', spill + k)
      BY <3>1 DEF Area
    <3>3. QED
      BY <2>2, <3>2 DEF HeldAt, HeldIn
  <2>4. QED
    BY <2>1, <2>2, <2>3 DEF SavedIsHeld, HeldAt, HeldIn, Blocks, Tags
<1>3. QED
  BY <1>1, <1>2

LEMMA HeldNextSound ==
  TypeOK /\ SavedIsHeld /\ [HistoryNext]_historyVars => SavedIsHeld'
<1> SUFFICES ASSUME TypeOK, SavedIsHeld, [HistoryNext]_historyVars PROVE SavedIsHeld'
  OBVIOUS
<1>1. ASSUME UNCHANGED <<wram, sram, saved>> PROVE SavedIsHeld'
  BY <1>1 DEF SavedIsHeld, HeldAt, HeldIn, Nothing, Blocks, Tags
<1>2. ASSUME NEW pc \in Fetches, NEW long \in BOOLEAN, HistoryFetch(pc, long)
      PROVE  SavedIsHeld'
  BY <1>1, <1>2 DEF HistoryFetch, Fetch
<1>3. ASSUME NEW control \in ControlWords, HistoryControl(control)
      PROVE  SavedIsHeld'
  <2>1. CacheControl(control)
    BY <1>3 DEF HistoryControl
  <2>2. CASE Dumps(control) /\ Roomy(Spill(control))
    <3>1. saved' = [spill |-> Spill(control), cache |-> <<blocks, tags>>]
      BY <1>3, <2>2 DEF HistoryControl, cache
    <3>2. HeldAt(Spill(control), blocks, tags)'
      BY <2>1, <2>2, DumpIsHeld
    <3>3. /\ blocks' = blocks /\ tags' = tags
          /\ Spill(control) \in Nat /\ blocks \in Blocks /\ tags \in Tags
      <4>1. ~control.icc
        BY <2>2 DEF Dumps, Clears
      <4>2. QED
        BY <2>1, <2>2, <4>1, OneOperation, ControlWord DEF TypeOK, Blocks, Tags
    <3>4. \A k \in Spilled :
            Read(wram', sram', Spill(control) + k) = ByteOf(blocks, tags, k)
      BY <3>2, <3>3 DEF HeldAt, HeldIn
    <3>5. QED
      BY <3>1, <3>3, <3>4 DEF SavedIsHeld, HeldAt, HeldIn, Blocks, Tags
  <2>3. CASE ~(Dumps(control) /\ Roomy(Spill(control)))
    BY <1>3, <2>3, KeptIsHeld DEF HistoryControl
  <2>4. QED
    BY <2>2, <2>3
<1>4. ASSUME NEW address \in StoreAddresses, NEW value \in StoreValues,
             HistoryStore(address, value)
      PROVE  SavedIsHeld'
  BY <1>4, KeptIsHeld DEF HistoryStore
<1>5. CASE UNCHANGED historyVars
  BY <1>1, <1>5 DEF historyVars
<1>6. QED
  BY <1>2, <1>3, <1>4, <1>5 DEF HistoryNext

\* The tag words of a cache are where it is held.
LEMMA HeldTag ==
  ASSUME NEW control \in ControlWords, NEW w, NEW s, NEW bs, NEW ts \in Tags,
         HeldIn(w, s, Spill(control), bs, ts), NEW index \in Index
  PROVE  ReadWord(w, s, Spill(control) + TagPlace(index)) = ts[index]
<1> DEFINE a == Spill(control) + TagPlace(index)
           held(n) == Read(w, s, a + n)
           bytes == LeBytes(ts[index])
<1>1. ASSUME NEW n \in 0..3 PROVE held(n) = bytes[n + 1]
  <2> DEFINE k == TagPlace(index) + n
  <2>1. k \in Spilled /\ ~(k < ROW) /\ (k - ROW) \div 4 = index /\ (k - ROW) % 4 = n
    BY SpilledOfTag
  <2>2. a + n = Spill(control) + k
    <3>1. Spill(control) \in Nat /\ TagPlace(index) \in Nat
      BY ControlWord, Layout DEF TagPlace, TAG_LEN, Index
    <3>2. QED
      BY <3>1
  <2> HIDE DEF k
  <2>3. Read(w, s, Spill(control) + k) = ByteOf(bs, ts, k)
    BY <2>1 DEF HeldIn
  <2>4. QED
    BY <2>1, <2>2, <2>3 DEF ByteOf
<1>2. a \in Nat
  BY ControlWord, Layout DEF TagPlace, TAG_LEN, Index
<1> HIDE DEF a
<1>3. a + 0 = a
  BY <1>2
<1> HIDE DEF bytes
<1>4. /\ Read(w, s, a) = bytes[1] /\ Read(w, s, a + 1) = bytes[2]
      /\ Read(w, s, a + 2) = bytes[3] /\ Read(w, s, a + 3) = bytes[4]
  <2>1. held(0) = bytes[1] /\ held(1) = bytes[2] /\ held(2) = bytes[3] /\ held(3) = bytes[4]
    BY <1>1
  <2>2. QED
    BY <1>3, <2>1
<1>5. ReadWord(w, s, a) = Composed(bytes[1], bytes[2], bytes[3], bytes[4])
  BY <1>4 DEF ReadWord, Composed
<1>6. ts[index] \in Word
  BY DEF Tags
<1>7. QED
  BY <1>5, <1>6, WordOfBytes DEF a, bytes

\* And so are its blocks.
LEMMA HeldBlock ==
  ASSUME NEW control \in ControlWords, NEW w, NEW s, NEW bs \in Blocks, NEW ts,
         HeldIn(w, s, Spill(control), bs, ts), NEW index \in Index
  PROVE  BlockIn(w, s, Spill(control) + index * BLOCK_LEN) = bs[index]
<1>1. ASSUME NEW offset \in 0..(BLOCK_LEN - 1)
      PROVE  Read(w, s, Spill(control) + index * BLOCK_LEN + offset) = bs[index][offset]
  <2> DEFINE k == index * BLOCK_LEN + offset
  <2>1. k \in Spilled /\ k < ROW /\ k \div BLOCK_LEN = index /\ k % BLOCK_LEN = offset
    BY SpilledOfBlock
  <2>2. Spill(control) + index * BLOCK_LEN + offset = Spill(control) + k
    <3>1. index * BLOCK_LEN \in Nat /\ offset \in Nat
      BY Layout DEF Index
    <3>2. QED
      BY <3>1, ControlWord
  <2> HIDE DEF k
  <2>3. Read(w, s, Spill(control) + k) = ByteOf(bs, ts, k)
    BY <2>1 DEF HeldIn
  <2>4. QED
    BY <2>1, <2>2, <2>3 DEF ByteOf
<1>2. bs[index] \in [0..(BLOCK_LEN - 1) -> Byte]
  BY DEF Blocks
<1>3. QED
  BY <1>1, <1>2 DEF BlockIn

\* What a restore reads from an area that holds a cache is that cache.
LEMMA RestoreReads ==
  ASSUME NEW control \in ControlWords, CacheControl(control), Restores(control),
         NEW bs \in Blocks, NEW ts \in Tags, HeldAt(Spill(control), bs, ts)
  PROVE  blocks' = bs /\ tags' = ts
<1>1. tags' = ts
  <2>1. tags' = [index \in Index |-> ReadWord(wram, sram, Spill(control) + TagPlace(index))]
    BY DEF CacheControl, Restores, RestoredTagPlace
  <2>2. ASSUME NEW index \in Index
        PROVE  ReadWord(wram, sram, Spill(control) + TagPlace(index)) = ts[index]
    BY HeldTag DEF HeldAt
  <2>3. QED
    BY <2>1, <2>2 DEF Tags
<1>2. blocks' = bs
  <2>1. blocks' = [index \in Index |->
                     BlockIn(wram, sram, Spill(control) + index * BLOCK_LEN)]
    BY DEF CacheControl, BlockIn
  <2>2. \A index \in Index : BlockIn(wram, sram, Spill(control) + index * BLOCK_LEN) = bs[index]
    BY HeldBlock DEF HeldAt
  <2>3. QED
    BY <2>1, <2>2 DEF Blocks
<1>3. QED
  BY <1>1, <1>2

\* Cache::restore from the area of the last Cache::dump brings the dumped cache
\* back whole, however the two lay in memory, as long as nothing wrote there.
THEOREM RestoreIsWhole == HistorySpec => RestoreBringsBack
<1> DEFINE Back == \A control \in ControlWords :
                     /\ Restores(control) /\ Spill(control) = saved.spill
                     /\ CacheControl(control)
                     => cache' = saved.cache
<1>1. SavedIsHeld => Back
  <2> SUFFICES ASSUME SavedIsHeld, NEW control \in ControlWords, Restores(control),
                      Spill(control) = saved.spill, CacheControl(control)
               PROVE  cache' = saved.cache
    OBVIOUS
  <2>1. saved # Nothing
    BY Layout DEF Restores, OnBus, Nothing
  <2>2. PICK spill \in Nat, bs \in Blocks, ts \in Tags :
          /\ saved = [spill |-> spill, cache |-> <<bs, ts>>]
          /\ HeldAt(spill, bs, ts)
    BY <2>1 DEF SavedIsHeld
  <2>3. blocks' = bs /\ tags' = ts
    BY <2>2, RestoreReads
  <2>4. QED
    BY <2>2, <2>3 DEF cache
<1>2. HistoryInit => TypeOK /\ SavedIsHeld
  BY InitTyped DEF HistoryInit, SavedIsHeld
<1>3. TypeOK /\ [HistoryNext]_historyVars => TypeOK'
  BY HistoryRefines, NextTyped
<1>4. TypeOK /\ SavedIsHeld /\ [HistoryNext]_historyVars
        => TypeOK' /\ SavedIsHeld' /\ [Back]_historyVars
  BY <1>1, <1>3, HeldNextSound
<1> HIDE DEF Back
<1>5. HistorySpec => [][Back]_historyVars
  BY <1>2, <1>4, PTL DEF HistorySpec
<1>6. QED
  BY <1>5 DEF Back, RestoreBringsBack

-----------------------------------------------------------------------------
(* One operation of a word.                                                   *)

\* A clear takes valid bits and nothing else.
LEMMA ClearSound ==
  ASSUME TypeOK, NEW control \in ControlWords, CacheControl(control), control.icc
  PROVE  OnlyClears(control)
<1>1. blocks' = blocks /\ wram' = wram /\ sram' = sram
      /\ tags' = Cleared(Cen(control), Cec(control))
  BY OneOperation
<1>2. ASSUME NEW index \in Index
      PROVE  /\ TagField(tags'[index]) = TagField(tags[index])
             /\ Valid(tags'[index]) <=>
                  /\ Valid(tags[index])
                  /\ index \notin Cen(control)..(Cen(control) + Cec(control) - 1)
  <2> DEFINE named == index \in Cen(control)..(Cen(control) + Cec(control) - 1)
  <2>1. \/ ~(Valid(tags[index]) /\ named) /\ tags'[index] = tags[index]
        \/ Valid(tags[index]) /\ named /\ tags'[index] = tags[index] - TAG_VALID
    BY <1>1, ClearedEntry, ControlCounts
  <2> HIDE DEF named
  <2>2. tags[index] \in Word
    BY DEF TypeOK
  <2>3. Valid(tags[index]) => /\ ~Valid(tags[index] - TAG_VALID)
                              /\ TagField(tags[index] - TAG_VALID) = TagField(tags[index])
    BY <2>2, ClearedWord
  <2>4. /\ TagField(tags'[index]) = TagField(tags[index])
        /\ Valid(tags'[index]) <=> Valid(tags[index]) /\ ~named
    BY <2>1, <2>3
  <2>5. QED
    BY <2>4 DEF named
<1>3. QED
  BY <1>1, <1>2 DEF OnlyClears, memory

\* A dump leaves the cache, and its copy where there is room for it.
LEMMA DumpSound ==
  ASSUME TypeOK, NEW control \in ControlWords, CacheControl(control), Dumps(control)
  PROVE  OnlyDumps(control)
<1>1. blocks' = blocks /\ tags' = tags
  <2>1. ~control.icc
    BY DEF Dumps, Clears
  <2>2. QED
    BY <2>1, OneOperation
<1>2. ASSUME Roomy(Spill(control)), NEW index \in Index
      PROVE  /\ BlockIn(wram', sram', Spill(control) + index * BLOCK_LEN) = blocks[index]
             /\ ReadWord(wram', sram', Spill(control) + TagPlace(index)) = tags[index]
  <2>1. HeldAt(Spill(control), blocks, tags)'
    BY <1>2, DumpIsHeld
  <2>2. HeldIn(wram', sram', Spill(control), blocks, tags)
    BY <1>1, <2>1 DEF HeldAt, HeldIn
  <2>3. blocks \in Blocks /\ tags \in Tags
    BY DEF TypeOK, Blocks, Tags
  <2>4. QED
    BY <2>2, <2>3, HeldBlock, HeldTag
<1>3. QED
  BY <1>1, <1>2 DEF OnlyDumps, cache

\* Clear wins over dump and dump over restore: Cpu::cache_control does the
\* first operation its word asks for, whole, and no other; a word whose cen
\* names no entry dumps and restores nothing.
THEOREM OneOperationAtATime == HistorySpec => OneOperationWins
<1> DEFINE One(control) ==
      /\ control.icc => OnlyClears(control)
      /\ ~control.icc /\ control.icd /\ Cen(control) < ENTRIES => OnlyDumps(control)
      /\ ~control.icc /\ Cen(control) >= ENTRIES => UNCHANGED <<cache, memory>>
      /\ ~control.icd => UNCHANGED memory
      /\ ~control.icc /\ ~control.icd /\ ~control.icr => UNCHANGED cache
      Wins == \A control \in ControlWords : CacheControl(control) => One(control)
<1>1. TypeOK => Wins
  <2> SUFFICES ASSUME TypeOK, NEW control \in ControlWords, CacheControl(control)
               PROVE  One(control)
    OBVIOUS
  <2>1. OnBus(Spill(control)) <=> Cen(control) < ENTRIES
    BY ControlCounts
  <2>2. control.icc => OnlyClears(control)
    BY ClearSound
  <2>3. ~control.icc /\ control.icd /\ Cen(control) < ENTRIES => OnlyDumps(control)
    BY <2>1, DumpSound DEF Dumps, Clears
  <2>4. ~control.icc /\ Cen(control) >= ENTRIES => UNCHANGED <<cache, memory>>
    <3> SUFFICES ASSUME ~control.icc, Cen(control) >= ENTRIES PROVE UNCHANGED <<cache, memory>>
      OBVIOUS
    <3>1. ~OnBus(Spill(control))
      <4>1. Cen(control) \in Nat /\ ENTRIES \in Nat
        BY ControlCounts, Layout
      <4>2. QED
        BY <2>1, <4>1
    <3>2. ~Dumps(control) /\ ~Restores(control)
      BY <3>1 DEF Dumps, Restores
    <3>3. QED
      BY <3>2, OneOperation DEF cache, memory
  <2>5. ~control.icd => UNCHANGED memory
    BY OneOperation DEF Dumps, memory
  <2>6. ~control.icc /\ ~control.icd /\ ~control.icr => UNCHANGED cache
    BY OneOperation DEF Restores, cache
  <2>7. QED
    BY <2>2, <2>3, <2>4, <2>5, <2>6
<1>2. HistoryInit => TypeOK
  BY InitTyped DEF HistoryInit
<1>3. TypeOK /\ [HistoryNext]_historyVars => TypeOK'
  BY HistoryRefines, NextTyped
<1> HIDE DEF Wins
<1>4. HistorySpec => [][Wins]_historyVars
  BY <1>1, <1>2, <1>3, PTL DEF HistorySpec
<1>5. QED
  BY <1>4 DEF Wins, One, OneOperationWins
=============================================================================
