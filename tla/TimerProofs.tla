----------------------------- MODULE TimerProofs -----------------------------
(* Proofs about the interval timer, for every size of its registers, tick and *)
(* interval: of Timer alone first, and then of its schedule.  The lemmas      *)
(* follow the operators of Timer in the order they call each other.           *)
EXTENDS TimerSchedule, Arithmetic

-----------------------------------------------------------------------------
(* Bytes and halfwords.                                                       *)

\* Two bytes put together are a halfword.
LEMMA HalfwordOfBytes ==
  ASSUME NEW low \in Byte, NEW high \in Byte
  PROVE  low + BYTE * high \in U16
<1>1. BYTE \in Nat \ {0, 1} /\ low \in 0..(BYTE - 1) /\ high \in 0..(BYTE - 1)
  BY TimerAssumption DEF Byte
<1>2. BYTE * high \in Nat
  BY <1>1
<1>3. BYTE * high <= BYTE * (BYTE - 1)
  BY <1>1
<1>4. BYTE * (BYTE - 1) = BYTE * BYTE - BYTE
  BY <1>1
<1>5. QED
  BY <1>1, <1>2, <1>3, <1>4 DEF U16

\* The halves of a halfword are bytes.
LEMMA BytesOfHalfword ==
  ASSUME NEW word \in U16
  PROVE  Low(word) \in Byte /\ High(word) \in Byte
<1>1. BYTE \in Nat \ {0, 1} /\ word \in 0..(BYTE * BYTE - 1)
  BY TimerAssumption DEF U16
<1>2. word % BYTE \in 0..(BYTE - 1)
  BY <1>1
<1>3. word \div BYTE \in 0..(BYTE - 1)
  BY <1>1
<1>4. QED
  BY <1>2, <1>3 DEF Low, High, Byte

-----------------------------------------------------------------------------
(* The inductive invariant.  Quiet alone and Visible alone are each inductive *)
(* only on typed timers, so the three are carried together.                   *)

Quiet(t)   == t.pending => t.interrupt_enabled
Visible(t) == t.enabled /\ t.counter = 0 => t.zero_status
Sound(t)   == t \in TimerState /\ Quiet(t) /\ Visible(t)

IInv == Sound(timer) /\ caller \in {"time", "software"}

(* What no call may do to the interrupt line.                                 *)

\* The count does not reach zero unnoticed.
Notices(t, u) ==
  t.counter # 0 /\ u.counter = 0 /\ u.interrupt_enabled => u.pending

\* A zero that stands keeps the line up.
Stands(t, u) ==
  t.pending /\ t.enabled /\ t.counter = 0 /\ u.interrupt_enabled => u.pending

\* Time keeps a raised line up and arms nothing.
OnlySpends(t, u) == /\ t.pending => u.pending
                    /\ MayRaise(u) => MayRaise(t)

\* The fields a count leaves alone.
SameSettings(t, u) == /\ u.enabled = t.enabled
                      /\ u.interrupt_enabled = t.interrupt_enabled
                      /\ u.fast = t.fast
                      /\ u.reload = t.reload

-----------------------------------------------------------------------------
(* The helpers.                                                               *)

\* Reaching zero keeps the line in step with its mask and shows the zero.
LEMMA ReachZeroSound ==
  ASSUME NEW t \in TimerState, Quiet(t)
  PROVE  /\ Sound(ReachZero(t))
         /\ ReachZero(t).counter = t.counter
         /\ SameSettings(t, ReachZero(t))
         /\ t.interrupt_enabled => ReachZero(t).pending
         /\ t.pending => ReachZero(t).pending
  BY DEF TimerState, ReachZero, Sound, Quiet, Visible, SameSettings

\* Refreshing the status makes a standing zero visible and touches no more.
LEMMA RefreshSound ==
  ASSUME NEW t \in TimerState, Quiet(t)
  PROVE  /\ Sound(RefreshZeroStatus(t))
         /\ RefreshZeroStatus(t).counter = t.counter
         /\ SameSettings(t, RefreshZeroStatus(t))
         /\ RefreshZeroStatus(t).pending = t.pending
  BY DEF TimerState, RefreshZeroStatus, Sound, Quiet, Visible, SameSettings

\* One count down: a zero it reaches raises, and only an armed timer can
\* reach one.
LEMMA CountDownSound ==
  ASSUME NEW t \in TimerState, Quiet(t)
  PROVE  /\ CountDown(t) \in TimerState
         /\ Quiet(CountDown(t))
         /\ Visible(t) => Visible(CountDown(t))
         /\ SameSettings(t, CountDown(t))
         /\ Notices(t, CountDown(t))
         /\ t.pending => CountDown(t).pending
         /\ t.enabled => OnlySpends(t, CountDown(t))
<1>1. CASE t.counter = 0
  <2>1. CountDown(t) = [t EXCEPT !.counter = t.reload]
    BY <1>1 DEF CountDown
  <2>2. QED
    BY <1>1, <2>1 DEF TimerState, Quiet, Visible, SameSettings, Notices,
                      OnlySpends, MayRaise
<1>2. CASE t.counter # 0
  <2> DEFINE down == [t EXCEPT !.counter = @ - 1]
  <2>0. t.counter \in U16 /\ t.counter - 1 \in U16
    <3>1. t.counter \in U16
      BY DEF TimerState
    <3>2. QED
      BY <1>2, <3>1, TimerAssumption DEF U16
  <2>1. /\ down \in TimerState
        /\ down.counter = t.counter - 1
        /\ SameSettings(t, down)
        /\ down.pending = t.pending
        /\ down.zero_status = t.zero_status
    BY <2>0 DEF TimerState, SameSettings
  <2>2. Quiet(down)
    BY <2>1 DEF Quiet, SameSettings
  <2>3. CASE down.counter = 0
    <3>1. CountDown(t) = ReachZero(down)
      BY <1>2, <2>3 DEF CountDown
    <3>2. QED
      BY <1>2, <2>1, <2>2, <3>1, ReachZeroSound, ZenonT(30)
         DEF Sound, Quiet, SameSettings, Notices, OnlySpends, MayRaise
  <2>4. CASE down.counter # 0
    <3>1. CountDown(t) = down
      BY <1>2, <2>4 DEF CountDown
    <3>2. QED
      BY <1>2, <2>1, <2>2, <2>4, <3>1
         DEF Visible, SameSettings, Notices, OnlySpends, MayRaise
  <2>5. QED
    BY <2>3, <2>4
<1>3. QED
  BY <1>1, <1>2

\* One tick of the tick counter: the count follows on the selected clock.
LEMMA IntervalSound ==
  ASSUME NEW t \in TimerState, Sound(t)
  PROVE  /\ Sound(Interval(t))
         /\ SameSettings(t, Interval(t))
         /\ Notices(t, Interval(t))
         /\ OnlySpends(t, Interval(t))
<1> DEFINE ticked == [t EXCEPT !.tick = (@ + 1) % TICK_MODULO]
<1>1. (t.tick + 1) % TICK_MODULO \in 0..(TICK_MODULO - 1)
  BY TimerAssumption DEF TimerState
<1>2. /\ ticked \in TimerState
      /\ Sound(ticked)
      /\ SameSettings(t, ticked)
      /\ ticked.counter = t.counter
      /\ ticked.pending = t.pending
  BY <1>1 DEF TimerState, Sound, Quiet, Visible, SameSettings
<1>3. MayRaise(ticked) <=> MayRaise(t)
  BY <1>2 DEF MayRaise, SameSettings
<1>4. CASE t.enabled /\ (t.fast \/ ticked.tick = 0)
  <2>1. Interval(t) = CountDown(ticked)
    BY <1>4 DEF Interval
  <2>2. ticked.enabled
    BY <1>2, <1>4 DEF SameSettings
  <2> HIDE DEF ticked
  <2>3. /\ Sound(CountDown(ticked))
        /\ SameSettings(ticked, CountDown(ticked))
        /\ Notices(ticked, CountDown(ticked))
        /\ OnlySpends(ticked, CountDown(ticked))
    BY <1>2, <2>2, CountDownSound DEF Sound
  <2>4. QED
    BY <1>2, <1>3, <2>1, <2>3 DEF SameSettings, Notices, OnlySpends
<1>5. CASE ~(t.enabled /\ (t.fast \/ ticked.tick = 0))
  <2>1. Interval(t) = ticked
    BY <1>5 DEF Interval
  <2>2. QED
    BY <1>2, <1>3, <2>1 DEF SameSettings, Notices, OnlySpends
<1>6. QED
  BY <1>4, <1>5

-----------------------------------------------------------------------------
(* The operations.                                                            *)

\* A call of tick, however the cycles fall on the interval.
LEMMA TickedSound ==
  ASSUME NEW t \in TimerState, Sound(t), NEW cycles \in 0..MaxCycles
  PROVE  /\ Sound(Ticked(t, cycles))
         /\ Notices(t, Ticked(t, cycles))
         /\ OnlySpends(t, Ticked(t, cycles))
<1> DEFINE total == t.elapsed + cycles
<1>1. total \in Nat /\ total < TICK_CYCLES + TICK_CYCLES
  BY TimerAssumption DEF TimerState
<1>2. CASE total >= TICK_CYCLES
  <2> DEFINE rest == [t EXCEPT !.elapsed = total - TICK_CYCLES]
  <2>1. total - TICK_CYCLES \in 0..(TICK_CYCLES - 1)
    BY <1>1, <1>2, TimerAssumption
  <2>2. /\ rest \in TimerState
        /\ Sound(rest)
        /\ SameSettings(t, rest)
        /\ rest.counter = t.counter
        /\ rest.pending = t.pending
    BY <2>1 DEF TimerState, Sound, Quiet, Visible, SameSettings
  <2>3. MayRaise(rest) <=> MayRaise(t)
    BY <2>2 DEF MayRaise, SameSettings
  <2>4. Ticked(t, cycles) = Interval(rest)
    BY <1>2 DEF Ticked
  <2> HIDE DEF rest
  <2>5. /\ Sound(Interval(rest))
        /\ Notices(rest, Interval(rest))
        /\ OnlySpends(rest, Interval(rest))
    BY <2>2, IntervalSound
  <2>6. QED
    BY <2>2, <2>3, <2>4, <2>5 DEF Notices, OnlySpends
<1>3. CASE total < TICK_CYCLES
  <2> DEFINE later == [t EXCEPT !.elapsed = total]
  <2>1. total \in 0..(TICK_CYCLES - 1)
    BY <1>1, <1>3, TimerAssumption
  <2>2. /\ later \in TimerState
        /\ Sound(later)
        /\ SameSettings(t, later)
        /\ later.counter = t.counter
        /\ later.pending = t.pending
    BY <2>1 DEF TimerState, Sound, Quiet, Visible, SameSettings
  <2>3. MayRaise(later) <=> MayRaise(t)
    BY <2>2 DEF MayRaise, SameSettings
  <2>4. Ticked(t, cycles) = later
    BY <1>1, <1>3, TimerAssumption DEF Ticked
  <2>5. QED
    BY <2>2, <2>3, <2>4 DEF SameSettings, Notices, OnlySpends
<1>4. QED
  BY <1>1, <1>2, <1>3, TimerAssumption

\* A load of the whole counter by a write to either half.
LEMMA LoadSound ==
  ASSUME NEW t \in TimerState, Sound(t), NEW value \in U16
  PROVE  /\ Sound(Load(t, value))
         /\ Notices(t, Load(t, value))
         /\ t.pending => Load(t, value).pending
<1> DEFINE loaded == [t EXCEPT !.reload = value, !.counter = value,
                               !.tick = 0, !.elapsed = 0]
           reached == IF t.counter # 0 /\ value = 0 THEN ReachZero(loaded) ELSE loaded
<1>0. 0 \in 0..(TICK_MODULO - 1) /\ 0 \in 0..(TICK_CYCLES - 1)
  BY TimerAssumption
<1>1. /\ loaded \in TimerState
      /\ Quiet(loaded)
      /\ loaded.counter = value
      /\ loaded.pending = t.pending
      /\ loaded.interrupt_enabled = t.interrupt_enabled
  BY <1>0 DEF TimerState, Sound, Quiet
<1>2. /\ reached \in TimerState
      /\ Quiet(reached)
      /\ reached.counter = value
      /\ reached.interrupt_enabled = t.interrupt_enabled
      /\ t.counter # 0 /\ value = 0 /\ t.interrupt_enabled => reached.pending
      /\ t.pending => reached.pending
  BY <1>1, ReachZeroSound DEF Sound, SameSettings
<1>3. Load(t, value) = RefreshZeroStatus(reached)
  BY DEF Load
<1>4. QED
  BY <1>2, <1>3, RefreshSound, ZenonT(30) DEF SameSettings, Notices

\* A write to TCR: the acknowledgement comes before the tick it may spend.
LEMMA WriteControlSound ==
  ASSUME NEW t \in TimerState, Sound(t), NEW control \in ControlWord
  PROVE  /\ Sound(WriteControl(t, control))
         /\ Notices(t, WriteControl(t, control))
         /\ Stands(t, WriteControl(t, control))
<1> DEFINE set == [t EXCEPT !.enabled = control.enable,
                            !.interrupt_enabled = control.interrupt,
                            !.fast = control.clock,
                            !.pending = @ /\ control.interrupt]
           cleared == [set EXCEPT !.zero_status = FALSE, !.pending = FALSE]
           acked == IF ClearAllowed(t, control) THEN cleared ELSE set
           counted == IF SpendsTick(t, control) THEN CountDown(acked) ELSE acked
<1>0. /\ control.enable \in BOOLEAN
      /\ control.interrupt \in BOOLEAN
      /\ control.clock \in BOOLEAN
  BY DEF ControlWord
<1>1. /\ set \in TimerState
      /\ set.pending = (t.pending /\ control.interrupt)
      /\ set.counter = t.counter
      /\ set.interrupt_enabled = control.interrupt
  BY <1>0 DEF TimerState
<1> HIDE DEF set
<1>2. /\ cleared \in TimerState
      /\ cleared.pending = FALSE
      /\ cleared.counter = t.counter
      /\ cleared.interrupt_enabled = control.interrupt
  BY <1>1 DEF TimerState
<1>3. /\ acked \in TimerState
      /\ Quiet(acked)
      /\ acked.counter = t.counter
      /\ acked.interrupt_enabled = control.interrupt
  BY <1>1, <1>2 DEF Quiet
<1>4. t.enabled /\ t.counter = 0 /\ t.pending /\ control.interrupt => acked.pending
  BY <1>0, <1>1 DEF ClearAllowed
<1>5. /\ counted \in TimerState
      /\ Quiet(counted)
      /\ counted.interrupt_enabled = control.interrupt
      /\ Notices(acked, counted)
      /\ acked.pending => counted.pending
  BY <1>3, CountDownSound DEF SameSettings, Notices
<1>6. WriteControl(t, control) = RefreshZeroStatus(counted)
  BY DEF WriteControl, set
<1> HIDE DEF cleared, acked, counted
<1>7. /\ Sound(RefreshZeroStatus(counted))
      /\ RefreshZeroStatus(counted).counter = counted.counter
      /\ RefreshZeroStatus(counted).pending = counted.pending
      /\ RefreshZeroStatus(counted).interrupt_enabled = control.interrupt
  BY <1>5, RefreshSound DEF SameSettings
<1>8. Notices(t, WriteControl(t, control))
  BY <1>3, <1>5, <1>6, <1>7 DEF Notices
<1>9. Stands(t, WriteControl(t, control))
  BY <1>0, <1>4, <1>5, <1>6, <1>7 DEF Stands
<1>10. QED
  BY <1>6, <1>7, <1>8, <1>9

-----------------------------------------------------------------------------
(* Every step of the specification.                                           *)

\* The new timer is sound, and its line is down and disarmed.
LEMMA InitSound == Init => IInv /\ Line!Init
<1> SUFFICES ASSUME Init PROVE IInv /\ Line!Init
  OBVIOUS
<1>1. 0 \in U16 /\ 0 \in 0..(TICK_MODULO - 1) /\ 0 \in 0..(TICK_CYCLES - 1)
  <2>1. BYTE * BYTE \in Nat \ {0}
    BY TimerAssumption
  <2>2. QED
    BY <2>1, TimerAssumption DEF U16
<1>2. Sound(timer)
  BY <1>1 DEF Init, NewTimer, TimerState, Sound, Quiet, Visible
<1>3. timer.pending = FALSE /\ MayRaise(timer) = FALSE
  BY DEF Init, NewTimer, MayRaise
<1>4. QED
  BY <1>2, <1>3 DEF Init, IInv, Line!Init

\* Every step keeps the timer sound and treats its line as promised.
LEMMA NextSound ==
  ASSUME IInv, Next
  PROVE  /\ IInv'
         /\ Notices(timer, timer')
         /\ Stands(timer, timer')
         /\ Line!Next
<1> USE DEF IInv
<1>0. /\ timer \in TimerState
      /\ timer.pending \in BOOLEAN
      /\ MayRaise(timer) \in BOOLEAN
      /\ timer.pending => MayRaise(timer)
  BY DEF Sound, TimerState, MayRaise
<1>1. ASSUME NEW cycles \in 0..MaxCycles, Tick(cycles)
      PROVE  /\ IInv' /\ Notices(timer, timer') /\ Stands(timer, timer')
             /\ Line!Time
  <2>1. /\ Sound(timer')
        /\ Notices(timer, timer')
        /\ OnlySpends(timer, timer')
        /\ caller' = "time"
    BY <1>0, <1>1, TickedSound DEF Tick
  <2>2. /\ timer'.pending \in BOOLEAN
        /\ MayRaise(timer') \in BOOLEAN
        /\ timer'.pending => MayRaise(timer')
    BY <2>1 DEF Sound, TimerState, MayRaise
  <2>3. Stands(timer, timer')
    BY <2>1 DEF Stands, OnlySpends
  <2>4. Line!Time
    BY <1>0, <2>1, <2>2 DEF Line!Time, OnlySpends, MayRaise
  <2>5. QED
    BY <2>1, <2>3, <2>4
<1>2. ASSUME NEW byte \in Byte, WriteLow(byte) \/ WriteHigh(byte)
      PROVE  /\ IInv' /\ Notices(timer, timer') /\ Stands(timer, timer')
             /\ Line!Access
  <2>1. timer.reload \in U16
    BY <1>0 DEF TimerState
  <2>2. PICK value \in U16 : timer' = Load(timer, value)
    BY <1>2, <2>1, HalfwordOfBytes, BytesOfHalfword
       DEF WriteLow, WriteHigh, LoadLow, LoadHigh
  <2>3. /\ Sound(timer')
        /\ Notices(timer, timer')
        /\ timer.pending => timer'.pending
        /\ caller' = "software"
    BY <1>0, <1>2, <2>2, LoadSound DEF WriteLow, WriteHigh
  <2>4. QED
    BY <2>3 DEF Stands, Line!Access, Sound, TimerState, MayRaise
<1>3. ASSUME NEW control \in ControlWord, WriteTcr(control)
      PROVE  /\ IInv' /\ Notices(timer, timer') /\ Stands(timer, timer')
             /\ Line!Access
  <2>1. /\ Sound(timer')
        /\ Notices(timer, timer')
        /\ Stands(timer, timer')
        /\ caller' = "software"
    BY <1>0, <1>3, WriteControlSound DEF WriteTcr
  <2>2. QED
    BY <2>1 DEF Line!Access, Sound, TimerState, MayRaise
<1>4. CASE WriteElsewhere
  BY <1>0, <1>4 DEF WriteElsewhere, Notices, Stands, Line!Next, Line!Access, MayRaise
<1>5. QED
  BY <1>1, <1>2, <1>3, <1>4 DEF Next, Line!Next

\* The invariant is inductive.
LEMMA Invariant == Spec => []IInv
<1>1. Init => IInv
  BY InitSound
<1>2. IInv /\ [Next]_vars => IInv'
  BY NextSound DEF IInv, vars
<1>3. QED
  BY <1>1, <1>2, PTL DEF Spec

-----------------------------------------------------------------------------
(* The schedule.  A count is a quotient of the time since the load, the tick  *)
(* counter and the partial interval are its remainder, and a tick moves the   *)
(* two together: what is shown of one interval length serves both clocks.     *)

\* Time moves on within n intervals of length len, and wraps after the last.
Passes(len, n, age, cycles) ==
  LET later == (age + cycles) % (len * n)
      i == age \div len
      part == (age % len) + cycles
  IN  /\ later \in 0..(len * n - 1)
      /\ i \in 0..(n - 1)
      /\ part < len => later \div len = i /\ later % len = part
      /\ part >= len => /\ later \div len = IF i + 1 = n THEN 0 ELSE i + 1
                       /\ later % len = part - len

\* The time of a whole number of intervals, moved on by one at most.
LEMMA IntervalsPass ==
  ASSUME NEW len \in Nat \ {0}, NEW n \in Nat \ {0},
         NEW age \in 0..(len * n - 1), NEW cycles \in 0..len
  PROVE  Passes(len, n, age, cycles)
<1> DEFINE i == age \div len
           r == age % len
           part == r + cycles
           all == len * n
           later == (age + cycles) % all
<1>0. age \in Int /\ all \in Nat \ {0}
  OBVIOUS
<1>1. i \in 0..(n - 1) /\ r \in 0..(len - 1) /\ age = len * i + r
  BY <1>0, QuotientBelow, Divided
<1> HIDE DEF i, r
<1>2. len * i \in Int /\ len * (i + 1) = len * i + len /\ len * (i + 1) <= all
  BY <1>1, ProductMonotone
<1>3. age + cycles \in Int /\ age + cycles = len * i + part
  BY <1>1, <1>2
<1>4. CASE part < len
  <2>1. age + cycles \in 0..(all - 1) /\ all * 0 = 0
    BY <1>0, <1>1, <1>2, <1>3, <1>4
  <2>2. later = age + cycles
    BY <1>0, <2>1, Division
  <2>3. part \in 0..(len - 1)
    BY <1>1, <1>4
  <2> HIDE DEF later, all, part
  <2>4. later \div len = i /\ later % len = part
    BY <1>1, <1>3, <2>2, <2>3, Division
  <2>5. QED
    BY <1>1, <1>4, <2>1, <2>2, <2>4 DEF Passes, later, all, part, i, r
<1>5. CASE part >= len /\ i + 1 = n
  <2>1. age + cycles = all + (part - len) /\ part - len \in 0..(all - 1)
    BY <1>0, <1>1, <1>2, <1>3, <1>5
  <2>2. later = part - len
    <3> HIDE DEF all, part
    <3> DEFINE sum == age + cycles
    <3>1. PICK once \in Int, rest \in 0..(all - 1) : once = 1 /\ rest = part - len
      BY <2>1
    <3>2. sum \in Int /\ sum = all * once + rest
      BY <1>0, <1>3, <2>1, <3>1
    <3> HIDE DEF sum
    <3>3. sum % all = rest
      BY <1>0, <3>2, Division
    <3>4. QED
      BY <3>1, <3>3 DEF later, sum
  <2>3. part - len \in 0..(len - 1) /\ len * 0 = 0
    BY <1>1, <1>5
  <2> HIDE DEF later, all, part
  <2>4. later \div len = 0 /\ later % len = part - len
    BY <2>2, <2>3, Division
  <2>5. QED
    BY <1>1, <1>5, <2>1, <2>2, <2>4 DEF Passes, later, all, part, i, r
<1>6. CASE part >= len /\ i + 1 # n
  <2>1. i + 2 <= n /\ i + 1 \in Int /\ len * (i + 2) = len * (i + 1) + len
    BY <1>1, <1>6
  <2>2. len * (i + 2) <= all
    <3>1. i + 2 \in Int /\ n \in Int
      BY <1>1
    <3>2. QED
      BY <2>1, <3>1, ProductMonotone
  <2>3. part - len \in 0..(len - 1)
    BY <1>1, <1>6
  <2>4. age + cycles = len * (i + 1) + (part - len)
    BY <1>1, <1>2, <1>3
  <2>5. age + cycles \in 0..(all - 1) /\ all * 0 = 0
    BY <1>0, <1>1, <1>2, <2>1, <2>2, <2>3, <2>4
  <2>6. later = age + cycles
    BY <1>0, <2>5, Division
  <2> HIDE DEF later, all, part
  <2>7. later \div len = i + 1 /\ later % len = part - len
    <3>1. PICK next \in Int, rest \in 0..(len - 1) : next = i + 1 /\ rest = part - len
      BY <2>1, <2>3
    <3>2. later \in Int /\ later = len * next + rest
      BY <1>3, <2>4, <2>6, <3>1
    <3>3. later \div len = next /\ later % len = rest
      BY <3>2, Division
    <3>4. QED
      BY <3>1, <3>3
  <2>8. QED
    BY <1>1, <1>6, <2>5, <2>6, <2>7 DEF Passes, later, all, part, i, r
<1>7. QED
  BY <1>1, <1>4, <1>5, <1>6 DEF i, r, Passes

\* The count after i intervals of a whole number of walks from the reload value
\* to zero, and the count one interval later: one less, or the reload value.
LEMMA CountGoesDown ==
  ASSUME NEW reload \in Nat, NEW walks \in Nat,
         NEW i \in 0..((reload + 1) * walks - 1)
  PROVE  LET next == IF i + 1 = (reload + 1) * walks THEN 0 ELSE i + 1
             count == (reload - i) % (reload + 1)
         IN  (reload - next) % (reload + 1) = IF count = 0 THEN reload ELSE count - 1
<1> DEFINE len == reload + 1
           q == (reload - i) \div len
           count == (reload - i) % len
           after == (reload - (i + 1)) % len
<1>1. len \in Nat \ {0} /\ i \in Int /\ reload - i \in Int
  OBVIOUS
<1>2. q \in Int /\ count \in 0..(len - 1) /\ reload - i = len * q + count
  BY <1>1, Divided
<1>3. after = IF count = 0 THEN reload ELSE count - 1
  <2> HIDE DEF q, count
  <2> DEFINE rest == reload - (i + 1)
  <2>1. rest \in Int /\ rest = len * q + count - 1
    BY <1>1, <1>2
  <2>2. CASE count = 0
    <3>1. PICK p \in Int, r \in 0..(len - 1) : p = q - 1 /\ r = reload
      BY <1>1, <1>2
    <3>2. len * p = len * q - len
      BY <1>1, <1>2, <3>1
    <3>3. rest = len * p + r
      BY <1>1, <1>2, <2>1, <2>2, <3>1, <3>2
    <3> HIDE DEF rest, len
    <3>4. len \in Nat \ {0} /\ rest \in Int
      BY <1>1, <2>1
    <3>5. rest % len = r
      BY <3>3, <3>4, Division
    <3>6. QED
      BY <2>2, <3>1, <3>5 DEF rest
  <2>3. CASE count # 0
    <3>1. PICK r \in 0..(len - 1) : r = count - 1
      BY <1>1, <1>2, <2>3
    <3>2. rest = len * q + r
      BY <1>1, <1>2, <2>1, <3>1
    <3> HIDE DEF rest, len
    <3>3. len \in Nat \ {0} /\ rest \in Int /\ q \in Int
      BY <1>1, <1>2, <2>1
    <3>4. rest % len = r
      BY <3>2, <3>3, Division
    <3>5. QED
      BY <2>3, <3>1, <3>4 DEF rest
  <2>4. QED
    BY <2>2, <2>3
<1>4. i + 1 = len * walks => reload % len = after
  <2> SUFFICES ASSUME i + 1 = len * walks PROVE reload % len = after
    OBVIOUS
  <2> DEFINE rest == reload - (i + 1)
  <2>1. rest \in Int /\ walks \in Int /\ rest + len * walks = reload
    BY <1>1
  <2>2. after = rest % len
    OBVIOUS
  <2> HIDE DEF rest, len, after
  <2>3. (rest + len * walks) % len = rest % len
    BY <1>1, <2>1, RemainderOfSum
  <2>4. QED
    BY <2>1, <2>2, <2>3
<1>5. QED
  BY <1>1, <1>3, <1>4

\* What a call of tick does to the count and to the phase.
Moves(t, cycles, u) ==
  LET total == t.elapsed + cycles
      ends == total >= TICK_CYCLES
      counts == ends /\ t.enabled /\ (t.fast \/ t.tick + 1 = TICK_MODULO)
  IN  /\ SameSettings(t, u)
      /\ u.elapsed = IF ends THEN total - TICK_CYCLES ELSE total
      /\ u.tick = IF ~ends THEN t.tick
                  ELSE IF t.tick + 1 = TICK_MODULO THEN 0 ELSE t.tick + 1
      /\ u.counter = IF ~counts THEN t.counter
                     ELSE IF t.counter = 0 THEN t.reload ELSE t.counter - 1

LEMMA TickedMoves ==
  ASSUME NEW t \in TimerState, NEW cycles \in 0..MaxCycles
  PROVE  Moves(t, cycles, Ticked(t, cycles))
<1> DEFINE total == t.elapsed + cycles
           next == (t.tick + 1) % TICK_MODULO
           rest == [t EXCEPT !.elapsed = total - TICK_CYCLES]
           ticked == [rest EXCEPT !.tick = next]
<1>0. /\ TICK_CYCLES \in Nat \ {0} /\ TICK_MODULO \in Nat \ {0, 1}
      /\ t.tick \in 0..(TICK_MODULO - 1) /\ t.elapsed \in Nat /\ cycles \in Nat
  BY TimerAssumption DEF TimerState
<1>1. next = IF t.tick + 1 = TICK_MODULO THEN 0 ELSE t.tick + 1
  BY <1>0
<1>2. CASE total < TICK_CYCLES
  <2>1. Ticked(t, cycles) = [t EXCEPT !.elapsed = total]
    BY <1>0, <1>2 DEF Ticked
  <2>2. QED
    BY <1>0, <1>2, <2>1 DEF Moves, SameSettings, TimerState
<1>3. CASE total >= TICK_CYCLES
  <2>1. Ticked(t, cycles) = Interval(rest)
    BY <1>3 DEF Ticked
  <2>2. /\ SameSettings(t, ticked)
        /\ ticked.elapsed = total - TICK_CYCLES
        /\ ticked.tick = next
        /\ ticked.counter = t.counter
    BY DEF SameSettings, TimerState
  <2>3. Interval(rest) = IF t.enabled /\ (t.fast \/ ticked.tick = 0)
                           THEN CountDown(ticked) ELSE ticked
    BY DEF Interval, TimerState
  <2>4. ticked.tick = 0 <=> t.tick + 1 = TICK_MODULO
    BY <1>0, <1>1, <2>2
  <2> DEFINE down == CountDown(ticked)
  <2>5. /\ SameSettings(ticked, down)
        /\ down.elapsed = ticked.elapsed
        /\ down.tick = ticked.tick
        /\ down.counter = IF ticked.counter = 0 THEN ticked.reload ELSE ticked.counter - 1
    BY DEF CountDown, ReachZero, SameSettings, TimerState
  <2> HIDE DEF ticked, down
  <2>6. QED
    BY <1>1, <1>3, <2>1, <2>2, <2>3, <2>4, <2>5 DEF Moves, SameSettings, down
<1>4. QED
  BY <1>0, <1>2, <1>3

(* The invariant of the scheduled timer.                                      *)

SinceRange == since \in 0..(Period(timer.reload) - 1)

ScheduleInv == /\ IInv
               /\ SinceRange
               /\ PhaseKept
               /\ OnSchedule

\* The lengths the schedule is made of: a slow interval is whole ticks, and a
\* period is whole intervals of either clock.
LEMMA Lengths ==
  ASSUME NEW reload \in U16
  PROVE  /\ TICK_CYCLES \in Nat \ {0} /\ TICK_MODULO \in Nat \ {0, 1}
         /\ SlowInterval \in Nat \ {0}
         /\ reload \in Nat
         /\ (reload + 1) * TICK_MODULO \in Nat \ {0}
         /\ Period(reload) \in Nat \ {0}
         /\ Period(reload) = SlowInterval * ((reload + 1) * 1)
         /\ Period(reload) = TICK_CYCLES * ((reload + 1) * TICK_MODULO)
<1>1. /\ TICK_CYCLES \in Nat \ {0} /\ TICK_MODULO \in Nat \ {0, 1}
      /\ reload \in Nat
  BY TimerAssumption DEF U16
<1>2. SlowInterval \in Nat \ {0} /\ (reload + 1) * TICK_MODULO \in Nat \ {0}
  BY <1>1 DEF SlowInterval
<1>3. Period(reload) \in Nat \ {0} /\ Period(reload) = SlowInterval * ((reload + 1) * 1)
  BY <1>1, <1>2 DEF Period
<1>4. Period(reload) = TICK_CYCLES * ((reload + 1) * TICK_MODULO)
  BY <1>1 DEF Period, SlowInterval
<1>5. QED
  BY <1>1, <1>2, <1>3, <1>4

\* A tick moves the phase with the time.
LEMMA PhaseMoves ==
  ASSUME NEW t \in TimerState, NEW age \in 0..(Period(t.reload) - 1),
         NEW cycles \in 0..MaxCycles,
         t.elapsed + TICK_CYCLES * t.tick = age % SlowInterval
  PROVE  LET later == (age + cycles) % Period(t.reload)
             u == Ticked(t, cycles)
             n == t.reload + 1
             i == age \div SlowInterval
             ends == t.elapsed + cycles >= TICK_CYCLES /\ t.tick + 1 = TICK_MODULO
         IN  /\ later \in 0..(Period(t.reload) - 1)
             /\ u.elapsed + TICK_CYCLES * u.tick = later % SlowInterval
             /\ i \in 0..(n * 1 - 1)
             /\ later \div SlowInterval = IF ~ends THEN i
                                          ELSE IF i + 1 = n * 1 THEN 0 ELSE i + 1
<1> DEFINE S == SlowInterval
           P == Period(t.reload)
           T == TICK_CYCLES
           M == TICK_MODULO
           n == t.reload + 1
           e == t.elapsed
           k == t.tick
           u == Ticked(t, cycles)
           i == age \div S
           part == (age % S) + cycles
           later == (age + cycles) % P
<1>1. /\ e \in 0..(T - 1) /\ k \in 0..(M - 1) /\ n \in Nat \ {0} /\ t.reload \in U16
  BY DEF TimerState, U16
<1>2. /\ T \in Nat \ {0} /\ M \in Nat \ {0, 1} /\ S \in Nat \ {0} /\ S = T * M
      /\ P \in Nat \ {0} /\ P = S * n /\ n * 1 = n
  BY <1>1, Lengths DEF SlowInterval, Period
<1>3. cycles \in 0..T /\ cycles \in 0..S
  <2>1. cycles \in 0..T
    BY <1>2, TimerAssumption
  <2>2. T <= S
    BY <1>2
  <2>3. QED
    BY <1>2, <2>1, <2>2
<1>4. /\ u.elapsed = IF e + cycles >= T THEN e + cycles - T ELSE e + cycles
      /\ u.tick = IF ~(e + cycles >= T) THEN k ELSE IF k + 1 = M THEN 0 ELSE k + 1
  <2>1. Moves(t, cycles, u)
    BY TickedMoves, Zenon
  <2> HIDE DEF u
  <2>2. u.elapsed = IF e + cycles >= T THEN e + cycles - T ELSE e + cycles
    BY <1>1, <1>2, <1>3, <2>1 DEF Moves
  <2>3. u.tick = IF ~(e + cycles >= T) THEN k ELSE IF k + 1 = M THEN 0 ELSE k + 1
    BY <1>1, <1>2, <1>3, <2>1 DEF Moves
  <2>4. QED
    BY <2>2, <2>3, Zenon
<1>5. part = e + T * k + cycles /\ part \in Nat
  BY <1>1, <1>2, <1>3
<1>6. age \in 0..(S * n - 1)
  BY <1>2
<1>7. /\ later \in 0..(P - 1)
      /\ i \in 0..(n - 1)
      /\ part < S => later \div S = i /\ later % S = part
      /\ part >= S => /\ later \div S = IF i + 1 = n THEN 0 ELSE i + 1
                      /\ later % S = part - S
  <2> DEFINE wrapped == (age + cycles) % (S * n)
  <2>1. later = wrapped /\ P = S * n
    BY <1>2
  <2> HIDE DEF S, n, T, M
  <2>2. /\ wrapped \in 0..(S * n - 1)
        /\ i \in 0..(n - 1)
        /\ part < S => wrapped \div S = i /\ wrapped % S = part
        /\ part >= S => /\ wrapped \div S = IF i + 1 = n THEN 0 ELSE i + 1
                        /\ wrapped % S = part - S
    <3>1. Passes(S, n, age, cycles)
      BY <1>1, <1>2, <1>3, <1>6, IntervalsPass, Zenon
    <3>2. QED
      BY <3>1, Zenon DEF Passes
  <2> HIDE DEF wrapped, later, P
  <2>3. QED
    BY <2>1, <2>2
<1> HIDE DEF i, later, u, S, T, M, e, k, n, P
<1>8. T * k \in Int /\ T * (k + 1) = T * k + T /\ T * (M - 1) = S - T
  BY <1>1, <1>2
<1>9. T * k <= S - T
  <2>1. k <= M - 1 /\ k \in Int /\ M - 1 \in Int
    BY <1>1, <1>2
  <2>2. QED
    BY <1>2, <1>8, <2>1, ProductMonotone
<1>10. CASE e + cycles < T
  <2>1. part < S
    BY <1>1, <1>2, <1>3, <1>5, <1>8, <1>9, <1>10
  <2>2. u.elapsed = e + cycles /\ u.tick = k
    BY <1>1, <1>2, <1>3, <1>4, <1>10
  <2>3. u.elapsed + T * u.tick = later % S
    BY <1>1, <1>3, <1>5, <1>7, <1>8, <2>1, <2>2
  <2>4. ~(e + cycles >= T)
    BY <1>1, <1>2, <1>3, <1>10
  <2>5. QED
    BY <1>2, <1>7, <2>1, <2>3, <2>4 DEF i, later, u, S, T, M, e, k, n, P
<1>11. CASE e + cycles >= T /\ k + 1 = M
  <2>1. part >= S /\ k = M - 1
    BY <1>1, <1>2, <1>3, <1>5, <1>8, <1>11
  <2>2. u.elapsed = e + cycles - T /\ u.tick = 0
    BY <1>4, <1>11
  <2>3. T * 0 = 0
    BY <1>2
  <2>4. u.elapsed + T * u.tick = later % S
    BY <1>1, <1>2, <1>3, <1>5, <1>7, <1>8, <2>1, <2>2, <2>3
  <2>5. QED
    BY <1>2, <1>7, <1>11, <2>1, <2>4 DEF i, later, u, S, T, M, e, k, n, P
<1>12. CASE e + cycles >= T /\ k + 1 # M
  <2>1. T * (k + 1) <= S - T
    <3>1. k + 1 <= M - 1 /\ k + 1 \in Int /\ M - 1 \in Int
      BY <1>1, <1>2, <1>12
    <3>2. QED
      BY <1>2, <1>8, <3>1, ProductMonotone
  <2>2. part < S
    BY <1>1, <1>2, <1>3, <1>5, <1>8, <1>12, <2>1
  <2>3. u.elapsed = e + cycles - T /\ u.tick = k + 1
    BY <1>4, <1>12
  <2>4. u.elapsed + T * u.tick = later % S
    BY <1>1, <1>2, <1>3, <1>5, <1>7, <1>8, <2>2, <2>3
  <2>5. QED
    BY <1>2, <1>7, <1>12, <2>2, <2>4 DEF i, later, u, S, T, M, e, k, n, P
<1>13. QED
  BY <1>1, <1>2, <1>3, <1>10, <1>11, <1>12

\* On the fast clock a tick is an interval.
LEMMA FastIntervalsPass ==
  ASSUME NEW t \in TimerState, NEW age \in 0..(Period(t.reload) - 1),
         NEW cycles \in 0..MaxCycles,
         t.elapsed + TICK_CYCLES * t.tick = age % SlowInterval
  PROVE  LET later == (age + cycles) % Period(t.reload)
             n == (t.reload + 1) * TICK_MODULO
             i == age \div TICK_CYCLES
             ends == t.elapsed + cycles >= TICK_CYCLES
         IN  /\ i \in 0..(n - 1)
             /\ later \div TICK_CYCLES = IF ~ends THEN i
                                         ELSE IF i + 1 = n THEN 0 ELSE i + 1
<1> DEFINE S == SlowInterval
           P == Period(t.reload)
           T == TICK_CYCLES
           M == TICK_MODULO
           n == (t.reload + 1) * M
           e == t.elapsed
           k == t.tick
           q == age \div S
           i == age \div T
           later == (age + cycles) % P
<1>1. /\ e \in 0..(T - 1) /\ k \in 0..(M - 1) /\ t.reload \in U16
  BY DEF TimerState
<1>2. /\ T \in Nat \ {0} /\ M \in Nat \ {0, 1} /\ S \in Nat \ {0} /\ S = T * M
      /\ P \in Nat \ {0} /\ n \in Nat \ {0} /\ P = T * n
  BY <1>1, Lengths DEF SlowInterval
<1>3. cycles \in 0..T
  BY <1>2, TimerAssumption
<1>4. q \in Int /\ age \in Int /\ age = S * q + (e + T * k)
  <2>1. age \in Int /\ age % S = e + T * k
    BY <1>2
  <2> HIDE DEF S, T, e, k
  <2>2. QED
    BY <1>2, <2>1, Divided
<1> HIDE DEF q
<1>5. age % T = e
  <2>1. PICK whole \in Int : whole = M * q + k
    BY <1>1, <1>2, <1>4
  <2>2. T * whole = S * q + T * k
    BY <1>1, <1>2, <1>4, <2>1
  <2>3. age = T * whole + e
    BY <1>1, <1>2, <1>4, <2>1, <2>2
  <2> HIDE DEF T, e
  <2>4. (T * whole + e) % T = e
    BY <1>1, <1>2, DivisionOf, Zenon
  <2>5. QED
    BY <2>3, <2>4, Zenon
<1>6. age \in 0..(T * n - 1)
  BY <1>2
<1>7. /\ i \in 0..(n - 1)
      /\ (age % T) + cycles < T => later \div T = i
      /\ (age % T) + cycles >= T => later \div T = IF i + 1 = n THEN 0 ELSE i + 1
  <2> DEFINE wrapped == (age + cycles) % (T * n)
  <2>1. later = wrapped
    BY <1>2
  <2> HIDE DEF n, T
  <2>2. /\ i \in 0..(n - 1)
        /\ (age % T) + cycles < T => wrapped \div T = i
        /\ (age % T) + cycles >= T => wrapped \div T = IF i + 1 = n THEN 0 ELSE i + 1
    <3>1. Passes(T, n, age, cycles)
      BY <1>2, <1>3, <1>6, IntervalsPass, Zenon
    <3>2. QED
      BY <3>1, Zenon DEF Passes
  <2> HIDE DEF wrapped, later
  <2>3. QED
    BY <2>1, <2>2
<1> HIDE DEF i, later
<1>8. QED
  BY <1>1, <1>2, <1>3, <1>5, <1>7 DEF i, later

\* A timer on schedule stays there: the count goes down exactly when the
\* quotient of the time goes up, on either clock.
LEMMA ScheduleMoves ==
  ASSUME NEW t \in TimerState, NEW age \in 0..(Period(t.reload) - 1),
         NEW cycles \in 0..MaxCycles,
         t.elapsed + TICK_CYCLES * t.tick = age % SlowInterval,
         t.counter = Expected(t, age)
  PROVE  Ticked(t, cycles).counter
           = Expected(Ticked(t, cycles), (age + cycles) % Period(t.reload))
<1> DEFINE u == Ticked(t, cycles)
           later == (age + cycles) % Period(t.reload)
           R == t.reload
           ends == t.elapsed + cycles >= TICK_CYCLES
           whole == t.tick + 1 = TICK_MODULO
<1> SUFFICES u.counter = Expected(u, later)
  OBVIOUS
<1>1. Moves(t, cycles, u)
  BY TickedMoves, Zenon
<1>2. R \in Nat /\ R \in U16 /\ TICK_MODULO \in Nat /\ t.tick \in Int
  BY TimerAssumption DEF TimerState, U16
<1>3. SameSettings(t, u)
  BY <1>1, Zenon DEF Moves
<1> HIDE DEF u
<1>4. u.counter = IF ~(ends /\ t.enabled /\ (t.fast \/ whole)) THEN t.counter
                  ELSE IF t.counter = 0 THEN R ELSE t.counter - 1
  BY <1>1, Zenon DEF Moves
<1> HIDE DEF ends, whole, later
<1>5. CASE ~t.enabled
  BY <1>3, <1>4, <1>5 DEF Expected, SameSettings
<1>6. CASE t.enabled /\ t.fast
  <2> DEFINE n == (R + 1) * TICK_MODULO
             i == age \div TICK_CYCLES
             next == IF i + 1 = n THEN 0 ELSE i + 1
  <2>1. i \in 0..(n - 1) /\ later \div TICK_CYCLES = IF ~ends THEN i ELSE next
    BY FastIntervalsPass DEF ends, later
  <2> HIDE DEF i
  <2>2. (R - next) % (R + 1) = IF (R - i) % (R + 1) = 0 THEN R
                               ELSE ((R - i) % (R + 1)) - 1
    BY <1>2, <2>1, CountGoesDown
  <2>3. t.counter = (R - i) % (R + 1)
    BY <1>6 DEF Expected, i
  <2>4. Expected(u, later) = (R - (later \div TICK_CYCLES)) % (R + 1)
    BY <1>3, <1>6 DEF Expected, SameSettings
  <2>5. u.counter = IF ~ends THEN t.counter
                    ELSE IF t.counter = 0 THEN R ELSE t.counter - 1
    BY <1>4, <1>6
  <2> HIDE DEF next, R
  <2>6. CASE ends
    BY <2>1, <2>2, <2>3, <2>4, <2>5, <2>6
  <2>7. CASE ~ends
    BY <2>1, <2>3, <2>4, <2>5, <2>7
  <2>8. QED
    BY <2>6, <2>7
<1>7. CASE t.enabled /\ ~t.fast
  <2> DEFINE n == (R + 1) * 1
             i == age \div SlowInterval
             next == IF i + 1 = n THEN 0 ELSE i + 1
  <2>1. i \in 0..(n - 1) /\ later \div SlowInterval = IF ~(ends /\ whole) THEN i ELSE next
    BY PhaseMoves DEF ends, whole, later
  <2> HIDE DEF i
  <2>2. (R - next) % (R + 1) = IF (R - i) % (R + 1) = 0 THEN R
                               ELSE ((R - i) % (R + 1)) - 1
    BY <1>2, <2>1, CountGoesDown
  <2>3. t.counter = (R - i) % (R + 1)
    BY <1>7 DEF Expected, i
  <2>4. Expected(u, later) = (R - (later \div SlowInterval)) % (R + 1)
    BY <1>3, <1>7 DEF Expected, SameSettings
  <2>5. u.counter = IF ~(ends /\ whole) THEN t.counter
                    ELSE IF t.counter = 0 THEN R ELSE t.counter - 1
    BY <1>4, <1>7
  <2> HIDE DEF next, R
  <2>6. CASE ends /\ whole
    BY <2>1, <2>2, <2>3, <2>4, <2>5, <2>6
  <2>7. CASE ~(ends /\ whole)
    BY <2>1, <2>3, <2>4, <2>5, <2>7
  <2>8. QED
    BY <2>6, <2>7
<1>8. QED
  BY <1>5, <1>6, <1>7

\* A load starts the interval at the reload value.
LEMMA LoadMoves ==
  ASSUME NEW t \in TimerState, NEW value \in U16
  PROVE  LET u == Load(t, value)
         IN  u.reload = value /\ u.counter = value /\ u.tick = 0 /\ u.elapsed = 0
  BY DEF Load, ReachZero, RefreshZeroStatus, TimerState

\* A control write moves no phase; it counts only when it spends a tick.
LEMMA ControlMoves ==
  ASSUME NEW t \in TimerState, NEW control \in ControlWord
  PROVE  LET u == WriteControl(t, control)
         IN  /\ u.reload = t.reload /\ u.tick = t.tick /\ u.elapsed = t.elapsed
             /\ u.enabled = control.enable /\ u.fast = control.clock
             /\ ~SpendsTick(t, control) => u.counter = t.counter
<1> DEFINE set == [t EXCEPT !.enabled = control.enable,
                            !.interrupt_enabled = control.interrupt,
                            !.fast = control.clock,
                            !.pending = @ /\ control.interrupt]
           acked == IF ClearAllowed(t, control)
                      THEN [set EXCEPT !.zero_status = FALSE, !.pending = FALSE]
                      ELSE set
           counted == IF SpendsTick(t, control) THEN CountDown(acked) ELSE acked
           u == RefreshZeroStatus(counted)
<1>1. /\ DOMAIN acked = DOMAIN NewTimer
      /\ acked = [f \in DOMAIN NewTimer |-> acked[f]]
      /\ acked.reload = t.reload /\ acked.tick = t.tick /\ acked.elapsed = t.elapsed
      /\ acked.counter = t.counter
      /\ acked.enabled = control.enable /\ acked.fast = control.clock
  BY DEF TimerState, NewTimer
<1> HIDE DEF acked
<1>2. /\ DOMAIN counted = DOMAIN NewTimer
      /\ counted = [f \in DOMAIN NewTimer |-> counted[f]]
      /\ counted.reload = t.reload /\ counted.tick = t.tick /\ counted.elapsed = t.elapsed
      /\ counted.enabled = control.enable /\ counted.fast = control.clock
      /\ ~SpendsTick(t, control) => counted.counter = t.counter
  BY <1>1 DEF CountDown, ReachZero, NewTimer
<1> HIDE DEF counted
<1>3. /\ u.reload = t.reload /\ u.tick = t.tick /\ u.elapsed = t.elapsed
      /\ u.enabled = control.enable /\ u.fast = control.clock
      /\ ~SpendsTick(t, control) => u.counter = t.counter
  BY <1>2 DEF RefreshZeroStatus, NewTimer
<1>4. WriteControl(t, control) = u
  BY DEF WriteControl, acked, counted
<1> HIDE DEF u
<1>5. QED
  BY <1>3, <1>4

\* The new timer is at the start of its period.
LEMMA ScheduleInitSound == ScheduleInit => ScheduleInv
<1> SUFFICES ASSUME ScheduleInit PROVE ScheduleInv
  OBVIOUS
<1>1. IInv
  BY InitSound DEF ScheduleInit
<1>2. /\ timer.reload = 0 /\ timer.counter = 0 /\ timer.elapsed = 0
      /\ timer.tick = 0 /\ timer.enabled = FALSE /\ since = 0 /\ 0 \in U16
  BY <1>1 DEF ScheduleInit, Init, NewTimer, IInv, Sound, TimerState
<1>3. Period(0) \in Nat \ {0} /\ SlowInterval \in Nat \ {0} /\ TICK_CYCLES \in Nat \ {0}
  BY <1>2, Lengths
<1>4. SinceRange
  BY <1>2, <1>3 DEF SinceRange
<1>5. PhaseKept
  <2>1. 0 % SlowInterval = 0 /\ 0 + TICK_CYCLES * 0 = 0
    BY <1>3
  <2>2. QED
    BY <1>2, <2>1 DEF PhaseKept
<1>6. OnSchedule
  BY <1>2 DEF OnSchedule, Expected
<1>7. QED
  BY <1>1, <1>4, <1>5, <1>6 DEF ScheduleInv

\* Every step keeps the phase and the schedule.
LEMMA ScheduleNextSound ==
  ASSUME ScheduleInv, ScheduleNext
  PROVE  Next /\ ScheduleInv'
<1>1. /\ IInv /\ SinceRange /\ PhaseKept /\ OnSchedule
      /\ timer \in TimerState /\ timer.reload \in U16
  BY DEF ScheduleInv, IInv, Sound, TimerState
<1>2. Next
  BY DEF ScheduleNext, ScheduledTick, ScheduledLoad, ScheduledControl, Next
<1>3. IInv'
  BY <1>1, <1>2, NextSound
<1>4. /\ TICK_CYCLES \in Nat \ {0} /\ SlowInterval \in Nat \ {0}
      /\ timer.tick \in Nat /\ timer.elapsed \in Nat
  BY <1>1, Lengths DEF TimerState
<1>5. ASSUME NEW cycles \in 0..MaxCycles, ScheduledTick(cycles)
      PROVE  SinceRange' /\ PhaseKept' /\ OnSchedule'
  <2>1. /\ timer' = Ticked(timer, cycles)
        /\ since' = (since + cycles) % Period(timer.reload)
        /\ steady' = steady
    BY <1>5 DEF ScheduledTick, Tick
  <2>2. since \in 0..(Period(timer.reload) - 1)
    BY <1>1 DEF SinceRange
  <2>3. timer.elapsed + TICK_CYCLES * timer.tick = since % SlowInterval
    BY <1>1 DEF PhaseKept
  <2>4. /\ since' \in 0..(Period(timer.reload) - 1)
        /\ timer'.elapsed + TICK_CYCLES * timer'.tick = since' % SlowInterval
    BY <1>1, <2>1, <2>2, <2>3, PhaseMoves
  <2>5. Moves(timer, cycles, timer')
    BY <1>1, <2>1, TickedMoves
  <2>6. timer'.reload = timer.reload
    BY <2>5, Zenon DEF Moves, SameSettings
  <2>7. steady => timer'.counter = Expected(timer', since')
    BY <1>1, <2>1, <2>2, <2>3, ScheduleMoves DEF OnSchedule
  <2>8. QED
    BY <2>1, <2>4, <2>6, <2>7 DEF SinceRange, PhaseKept, OnSchedule, Expected, Period
<1>6. ASSUME NEW byte \in Byte, ScheduledLoad(byte)
      PROVE  SinceRange' /\ PhaseKept' /\ OnSchedule'
  <2>1. PICK value \in U16 : timer' = Load(timer, value)
    BY <1>1, <1>6, HalfwordOfBytes, BytesOfHalfword
       DEF ScheduledLoad, WriteLow, WriteHigh, LoadLow, LoadHigh
  <2>2. /\ timer'.reload = value /\ timer'.counter = value
        /\ timer'.tick = 0 /\ timer'.elapsed = 0
    BY <1>1, <2>1, LoadMoves
  <2>3. since' = 0
    BY <1>6 DEF ScheduledLoad
  <2>4. Period(value) \in Nat \ {0} /\ value \in Nat
    BY Lengths
  <2>5. 0 % SlowInterval = 0 /\ 0 \div SlowInterval = 0 /\ 0 \div TICK_CYCLES = 0
        /\ 0 + TICK_CYCLES * 0 = 0
    BY <1>4
  <2>6. (value - 0) % (value + 1) = value
    BY <2>4
  <2>7. QED
    BY <2>2, <2>3, <2>4, <2>5, <2>6
       DEF SinceRange, PhaseKept, OnSchedule, Expected, Period, SlowInterval
<1>7. ASSUME NEW control \in ControlWord, ScheduledControl(control)
      PROVE  SinceRange' /\ PhaseKept' /\ OnSchedule'
  <2>1. /\ timer' = WriteControl(timer, control)
        /\ since' = since
        /\ steady' => /\ steady
                      /\ \/ since = 0
                         \/ control.enable = timer.enabled /\ control.clock = timer.fast
    BY <1>7 DEF ScheduledControl, WriteTcr
  <2>2. /\ timer'.reload = timer.reload /\ timer'.tick = timer.tick
        /\ timer'.elapsed = timer.elapsed
        /\ timer'.enabled = control.enable /\ timer'.fast = control.clock
        /\ ~SpendsTick(timer, control) => timer'.counter = timer.counter
    BY <1>1, <2>1, ControlMoves
  <2>3. SinceRange' /\ PhaseKept'
    BY <1>1, <2>1, <2>2 DEF SinceRange, PhaseKept, Period, SlowInterval
  <2>4. CASE ~steady'
    BY <2>3, <2>4 DEF OnSchedule
  <2>5. CASE steady' /\ since = 0
    <3>1. timer.elapsed + TICK_CYCLES * timer.tick = 0
      BY <1>1, <1>4, <2>5 DEF PhaseKept
    <3>2. timer.tick = 0
      BY <1>4, <3>1
    <3>3. ~SpendsTick(timer, control)
      BY <3>2 DEF SpendsTick
    <3>4. (timer.reload - 0) % (timer.reload + 1) = timer.reload
      BY <1>1, Lengths
    <3>5. 0 \div SlowInterval = 0 /\ 0 \div TICK_CYCLES = 0
      BY <1>4
    <3>6. timer.counter = timer.reload
      BY <1>1, <2>1, <2>5, <3>4, <3>5 DEF OnSchedule, Expected
    <3>7. QED
      BY <2>1, <2>2, <2>3, <2>5, <3>3, <3>4, <3>5, <3>6 DEF OnSchedule, Expected
  <2>6. CASE steady' /\ since # 0
    <3>1. steady /\ control.enable = timer.enabled /\ control.clock = timer.fast
      BY <2>1, <2>6
    <3>2. ~SpendsTick(timer, control)
      BY <3>1 DEF SpendsTick
    <3>3. QED
      BY <1>1, <2>1, <2>2, <2>3, <3>1, <3>2 DEF OnSchedule, Expected
  <2>7. QED
    BY <2>4, <2>5, <2>6
<1>8. ASSUME WriteElsewhere, UNCHANGED <<since, steady, spent>>
      PROVE  SinceRange' /\ PhaseKept' /\ OnSchedule'
  BY <1>1, <1>8 DEF WriteElsewhere, SinceRange, PhaseKept, OnSchedule, Expected
<1>9. QED
  BY <1>2, <1>3, <1>5, <1>6, <1>7, <1>8 DEF ScheduleNext, ScheduleInv

\* The invariant of the schedule is inductive.
LEMMA ScheduleInvariant == ScheduleSpec => []ScheduleInv
<1>1. ScheduleInit => ScheduleInv
  BY ScheduleInitSound
<1>2. ScheduleInv /\ [ScheduleNext]_scheduleVars => ScheduleInv'
  BY ScheduleNextSound DEF ScheduleInv, IInv, SinceRange, PhaseKept, OnSchedule,
     Expected, scheduleVars
<1>3. QED
  BY <1>1, <1>2, PTL DEF ScheduleSpec

-----------------------------------------------------------------------------
(* The results.                                                               *)

\* Every field stays in the range of its Rust type: the counter never wraps,
\* and tick and elapsed stay below their moduli.
THEOREM TypeCorrect == Spec => []TypeOK
<1>1. IInv => TypeOK
  BY DEF IInv, Sound, TypeOK
<1>2. QED
  BY <1>1, Invariant, PTL

\* Whatever the order of loads, control writes and ticks, an enabled timer at
\* zero shows it in Z_STAT.
THEOREM ZeroVisible == Spec => []ZeroIsVisible
<1>1. IInv => ZeroIsVisible
  BY DEF IInv, Sound, Visible, ZeroIsVisible
<1>2. QED
  BY <1>1, Invariant, PTL

\* The line is never up with its interrupt masked.
THEOREM MaskedQuiet == Spec => []MaskedIsQuiet
<1>1. IInv => MaskedIsQuiet
  BY DEF IInv, Sound, Quiet, MaskedIsQuiet
<1>2. QED
  BY <1>1, Invariant, PTL

\* No step, the acknowledging write that also spends a tick included, takes
\* the count to zero without raising an enabled interrupt.
THEOREM ZeroRaises == Spec => NoZeroIsLost
<1>1. IInv /\ [Next]_vars =>
        [timer.counter # 0 /\ timer'.counter = 0 /\ timer'.interrupt_enabled
           => timer'.pending]_vars
  BY NextSound DEF Notices, vars
<1>2. QED
  BY <1>1, Invariant, PTL DEF Spec, NoZeroIsLost

\* Only masking takes the line down while the enabled count stands at zero.
THEOREM StandingZeroHolds == Spec => StandingZeroIsNotAcknowledged
<1>1. IInv /\ [Next]_vars =>
        [timer.pending /\ timer.enabled /\ timer.counter = 0
           /\ timer'.interrupt_enabled => timer'.pending]_vars
  BY NextSound DEF Stands, vars
<1>2. QED
  BY <1>1, Invariant, PTL DEF Spec, StandingZeroIsNotAcknowledged

\* The timer keeps the safety half of the device promise: time alone never
\* raises a line that may_raise denied, so a processor that stopped idling on
\* that answer missed nothing.
THEOREM KeepsLinePromise == Spec => Line!Init /\ [][Line!Next]_(Line!vars)
<1>1. Init => Line!Init
  BY InitSound
<1>2. IInv /\ [Next]_vars => [Line!Next]_(Line!vars)
  BY NextSound DEF vars, Line!vars, MayRaise
<1>3. QED
  BY <1>1, <1>2, Invariant, PTL DEF Spec

\* The tick counter and the partial interval are the time since the load:
\* no control write loses or gains a cycle of phase.
THEOREM PhaseIsKept == ScheduleSpec => []PhaseKept
<1>1. ScheduleInv => PhaseKept
  BY DEF ScheduleInv
<1>2. QED
  BY <1>1, ScheduleInvariant, PTL

\* A timer left alone since its interval began reads what the closed form
\* says, on either clock, however its cycles were split between calls of tick.
THEOREM StaysOnSchedule == ScheduleSpec => []OnSchedule
<1>1. ScheduleInv => OnSchedule
  BY DEF ScheduleInv
<1>2. QED
  BY <1>1, ScheduleInvariant, PTL

\* The schedule only watches: what it is told of is the timer's own behaviour.
THEOREM ScheduleImpliesTimer == ScheduleSpec => Spec
<1>1. ScheduleInit => Init
  BY DEF ScheduleInit
<1>2. [ScheduleNext]_scheduleVars => [Next]_vars
  BY DEF ScheduleNext, ScheduledTick, ScheduledLoad, ScheduledControl, Next,
     scheduleVars, vars
<1>3. QED
  BY <1>1, <1>2, PTL DEF ScheduleSpec, Spec
=============================================================================
