---------------------------- MODULE GamePadProofs ----------------------------
(* Proofs about the game pad port, for every width of the button word, every  *)
(* duration of a hardware read and every set of words a pad may report: of    *)
(* GamePad alone first, and then of a read by a player whose hands move.      *)
EXTENDS PadReads, TLAPS

-----------------------------------------------------------------------------
(* The inductive invariant, in parts.  Between the parts of one control write *)
(* the abort bit and the read may disagree, so Settled is what every part     *)
(* keeps and Sound is what the whole write restores.                          *)

Whole(p) == /\ \A bit \in p.shift : bit < p.shifted
            /\ p.shifted = BUTTON_COUNT => p.data = p.shift
Quiet(p) == p.pending => ~p.interrupt_inhibited
Idle(p)  == ~p.reading => p.elapsed = 0

Settled(p) == p \in PadState /\ Whole(p) /\ Quiet(p) /\ Idle(p)
Sound(p)   == Settled(p) /\ (p.abort => ~p.reading)

IInv == Sound(pad) /\ caller \in {"time", "software"}

\* Data changes to a whole read only.
Publishes(p, q) == q.data # p.data => q.shifted = BUTTON_COUNT /\ q.data = q.shift

\* Time keeps a raised line up and arms nothing.
OnlySpends(p, q) == /\ p.pending => q.pending
                    /\ MayRaise(q) => MayRaise(p)

-----------------------------------------------------------------------------
(* The operators.                                                             *)

\* Raising the key interrupt touches the line alone, and only uninhibited.
LEMMA RaiseSound ==
  ASSUME NEW p \in PadState, Quiet(p)
  PROVE  LET q == RaiseKeyInterrupt(p)
         IN  /\ q \in PadState
             /\ Quiet(q)
             /\ q = [p EXCEPT !.pending = q.pending]
             /\ p.pending => q.pending
             /\ q.pending => p.pending \/ ~p.interrupt_inhibited
             /\ q.pending /\ ~p.pending => p.data \cap KEY_BLOCK = {}
  BY DEF PadState, RaiseKeyInterrupt, Quiet

\* A call of tick: it may end a read, and the line it raises was armed.
LEMMA TickedSound ==
  ASSUME NEW p \in PadState, Sound(p), NEW cycles \in 0..MaxCycles
  PROVE  LET q == Ticked(p, cycles)
         IN  /\ Sound(q)
             /\ Publishes(p, q)
             /\ OnlySpends(p, q)
             /\ q.buttons = p.buttons
             /\ q.pending /\ ~p.pending => p.buttons \cap KEY_BLOCK = {}
<1> DEFINE total == p.elapsed + cycles
<1>1. total \in Nat
  BY GamePadAssumption DEF PadState
<1>2. CASE ~p.reading
  BY <1>2 DEF Ticked, Publishes, OnlySpends
<1>3. CASE p.reading /\ total < HARDWARE_READ_CYCLES
  <2> DEFINE later == [p EXCEPT !.elapsed = total]
  <2>1. Ticked(p, cycles) = later
    BY <1>3 DEF Ticked
  <2>2. total \in 0..(HARDWARE_READ_CYCLES - 1)
    BY <1>1, <1>3, GamePadAssumption
  <2>3. /\ later \in PadState
        /\ later = [p EXCEPT !.elapsed = later.elapsed]
    BY <2>2 DEF PadState
  <2>4. QED
    BY <1>3, <2>1, <2>3
       DEF PadState, Sound, Settled, Whole, Quiet, Idle, Publishes, OnlySpends, MayRaise
<1>4. CASE p.reading /\ ~(total < HARDWARE_READ_CYCLES)
  <2> DEFINE read == [p EXCEPT !.reading = FALSE, !.elapsed = 0, !.shift = p.buttons,
                               !.shifted = BUTTON_COUNT, !.data = p.buttons]
             q == RaiseKeyInterrupt(read)
  <2>1. Ticked(p, cycles) = q
    BY <1>4 DEF Ticked
  <2>2. /\ 0 \in 0..(HARDWARE_READ_CYCLES - 1)
        /\ BUTTON_COUNT \in 0..BUTTON_COUNT
        /\ \A bit \in Bits : bit < BUTTON_COUNT
    BY GamePadAssumption DEF Bits
  <2>3. /\ read \in PadState
        /\ Quiet(read)
        /\ read.reading = FALSE /\ read.elapsed = 0
        /\ read.shift = p.buttons /\ read.data = p.buttons
        /\ read.buttons = p.buttons /\ read.shifted = BUTTON_COUNT
        /\ read.pending = p.pending
        /\ read.interrupt_inhibited = p.interrupt_inhibited
        /\ p.buttons \subseteq Bits
    BY <2>2 DEF PadState, Sound, Settled, Quiet
  <2> HIDE DEF read
  <2>4. /\ q \in PadState
        /\ Quiet(q)
        /\ p.pending => q.pending
        /\ q.pending => p.pending \/ ~p.interrupt_inhibited
        /\ q.pending /\ ~p.pending => p.buttons \cap KEY_BLOCK = {}
    BY <2>3, RaiseSound
  <2>5. /\ q.reading = FALSE /\ q.elapsed = 0
        /\ q.shift = p.buttons /\ q.data = p.buttons
        /\ q.buttons = p.buttons /\ q.shifted = BUTTON_COUNT
    BY <2>3 DEF RaiseKeyInterrupt, PadState
  <2> HIDE DEF q
  <2>6. Sound(q)
    BY <2>2, <2>3, <2>4, <2>5 DEF Sound, Settled, Whole, Idle
  <2>7. Publishes(p, q) /\ OnlySpends(p, q)
    BY <1>4, <2>4, <2>5 DEF Publishes, OnlySpends, MayRaise
  <2>8. QED
    BY <2>1, <2>4, <2>5, <2>6, <2>7
<1>5. QED
  BY <1>2, <1>3, <1>4

\* One clocked bit lands at the position the read has reached; the last one
\* publishes the word.
LEMMA ClockBitSound ==
  ASSUME NEW p \in PadState, Settled(p)
  PROVE  LET q == ClockBit(p)
         IN  /\ Settled(q)
             /\ Publishes(p, q)
             /\ q.buttons = p.buttons
             /\ q.reading = p.reading
             /\ q.pending = p.pending
<1>1. CASE p.shifted >= BUTTON_COUNT
  BY <1>1 DEF ClockBit, Publishes
<1>2. CASE ~(p.shifted >= BUTTON_COUNT)
  <2> DEFINE clocked == [p EXCEPT !.shift = @ \cup (p.buttons \cap {p.shifted}),
                                  !.shifted = @ + 1]
  <2>1. /\ p.shifted \in Nat /\ p.shifted < BUTTON_COUNT
        /\ p.shifted + 1 \in 0..BUTTON_COUNT
        /\ p.shift \cup (p.buttons \cap {p.shifted}) \in SUBSET Bits
        /\ Bits \subseteq Int
    BY <1>2, GamePadAssumption DEF PadState, Bits
  <2>2. /\ clocked \in PadState
        /\ clocked.shift = p.shift \cup (p.buttons \cap {p.shifted})
        /\ clocked.shifted = p.shifted + 1
        /\ clocked.data = p.data /\ clocked.buttons = p.buttons
        /\ clocked.reading = p.reading /\ clocked.elapsed = p.elapsed
        /\ clocked.pending = p.pending
        /\ clocked.interrupt_inhibited = p.interrupt_inhibited
    BY <2>1 DEF PadState
  <2> HIDE DEF clocked
  <2>3. \A bit \in clocked.shift : bit < clocked.shifted
    <3>1. SUFFICES ASSUME NEW bit \in clocked.shift PROVE bit < clocked.shifted
      OBVIOUS
    <3>2. bit \in Int
      BY <2>1, <2>2
    <3>3. bit \in p.shift \/ bit = p.shifted
      BY <2>2
    <3>4. bit < p.shifted \/ bit = p.shifted
      BY <3>3 DEF Settled, Whole
    <3>5. QED
      BY <2>1, <2>2, <3>2, <3>4
  <2>4. CASE clocked.shifted = BUTTON_COUNT
    <3> DEFINE q == [clocked EXCEPT !.data = clocked.shift]
    <3>1. ClockBit(p) = q
      BY <1>2, <2>4 DEF ClockBit, clocked
    <3>2. /\ q \in PadState
          /\ q.data = clocked.shift /\ q.shift = clocked.shift
          /\ q.shifted = clocked.shifted /\ q.buttons = p.buttons
          /\ q.reading = p.reading /\ q.elapsed = p.elapsed
          /\ q.pending = p.pending
          /\ q.interrupt_inhibited = p.interrupt_inhibited
      BY <2>2 DEF PadState
    <3> HIDE DEF q
    <3>3. QED
      BY <2>3, <2>4, <3>1, <3>2 DEF Settled, Whole, Quiet, Idle, Publishes
  <2>5. CASE clocked.shifted # BUTTON_COUNT
    <3>1. ClockBit(p) = clocked
      BY <1>2, <2>5 DEF ClockBit, clocked
    <3>2. QED
      BY <2>2, <2>3, <2>5, <3>1 DEF Settled, Whole, Quiet, Idle, Publishes
  <2>6. QED
    BY <2>4, <2>5
<1>3. QED
  BY <1>1, <1>2

\* A write to SCR, part by part.
LEMMA WriteControlSound ==
  ASSUME NEW p \in PadState, Sound(p), NEW control \in ControlWord
  PROVE  LET q == WriteControl(p, control)
         IN  /\ Sound(q)
             /\ Publishes(p, q)
             /\ q.buttons = p.buttons
             /\ q.pending => p.pending
<1> DEFINE inhibited == Inhibit(p, control)
           latched   == Latch(inhibited, control)
           clocked   == Clock(latched, control)
           started   == Start(clocked, control)
           aborted   == Abort(started, control)
<1>0. /\ control \in ControlWord
      /\ control.inhibit \in BOOLEAN /\ control.clock \in BOOLEAN
      /\ 0 \in 0..BUTTON_COUNT
      /\ 0 \in 0..(HARDWARE_READ_CYCLES - 1)
      /\ BUTTON_COUNT # 0
  BY GamePadAssumption DEF ControlWord
<1>1. /\ Settled(inhibited)
      /\ inhibited.data = p.data
      /\ inhibited.buttons = p.buttons
      /\ inhibited.pending => p.pending
  BY <1>0 DEF Inhibit, PadState, Sound, Settled, Whole, Quiet, Idle
<1> HIDE DEF inhibited
<1>2. /\ Settled(latched)
      /\ latched.data = inhibited.data
      /\ latched.buttons = inhibited.buttons
      /\ latched.pending = inhibited.pending
  <2>1. CASE control.latch
    BY <1>0, <1>1, <2>1 DEF Latch, PadState, Settled, Whole, Quiet, Idle
  <2>2. CASE ~control.latch
    BY <1>1, <2>2 DEF Latch, PadState, Settled, Whole, Quiet, Idle
  <2>3. QED
    BY <2>1, <2>2
<1> HIDE DEF latched
<1>3. /\ Settled(clocked)
      /\ Publishes(latched, clocked)
      /\ clocked.buttons = latched.buttons
      /\ clocked.pending = latched.pending
  <2> DEFINE bit == IF ~control.latch /\ latched.clock /\ ~control.clock
                      THEN ClockBit(latched) ELSE latched
  <2>1. /\ Settled(bit)
        /\ Publishes(latched, bit)
        /\ bit.buttons = latched.buttons
        /\ bit.pending = latched.pending
    BY <1>2, ClockBitSound DEF Settled, Publishes
  <2>2. clocked = [bit EXCEPT !.clock = control.clock]
    BY DEF Clock
  <2> HIDE DEF bit, clocked
  <2>3. QED
    BY <1>0, <2>1, <2>2 DEF PadState, Settled, Whole, Quiet, Idle, Publishes
<1> HIDE DEF clocked
<1>4. /\ Settled(started)
      /\ started.data = clocked.data
      /\ started.shift = clocked.shift
      /\ started.shifted = clocked.shifted
      /\ started.buttons = clocked.buttons
      /\ started.pending = clocked.pending
  BY <1>0, <1>3 DEF Start, PadState, Settled, Whole, Quiet, Idle
<1> HIDE DEF started
<1>5. /\ Settled(aborted)
      /\ aborted.abort => ~aborted.reading
      /\ aborted.data = started.data
      /\ aborted.shift = started.shift
      /\ aborted.shifted = started.shifted
      /\ aborted.buttons = started.buttons
      /\ aborted.pending = started.pending
  <2>1. CASE control.abort
    BY <1>0, <1>4, <2>1 DEF Abort, PadState, Settled, Whole, Quiet, Idle
  <2>2. CASE ~control.abort
    BY <1>4, <2>2 DEF Abort, PadState, Settled, Whole, Quiet, Idle
  <2>3. QED
    BY <2>1, <2>2
<1>6. WriteControl(p, control) = aborted
  BY DEF WriteControl, inhibited, latched, clocked, started, aborted
<1> HIDE DEF aborted
<1>7. Publishes(p, aborted)
  BY <1>1, <1>2, <1>3, <1>4, <1>5 DEF Publishes
<1>8. QED
  BY <1>1, <1>2, <1>3, <1>4, <1>5, <1>6, <1>7 DEF Sound

-----------------------------------------------------------------------------
(* Every step of the specification.                                           *)

\* The new pad is sound, and its line is down and disarmed.
LEMMA InitSound == Init => IInv /\ Line!Init
<1>1. /\ {SGN} \subseteq Bits
      /\ 0 \in 0..BUTTON_COUNT
      /\ 0 \in 0..(HARDWARE_READ_CYCLES - 1)
      /\ BUTTON_COUNT # 0
  BY GamePadAssumption
<1>2. QED
  BY <1>1 DEF Init, NewPad, PadState, IInv, Sound, Settled, Whole, Quiet, Idle,
              Line!Init, MayRaise

\* Every step keeps the pad sound and treats its line as promised; only a
\* hardware read of a word without blocking bits raises it.
LEMMA NextSound ==
  ASSUME IInv, Next
  PROVE  /\ IInv'
         /\ Publishes(pad, pad')
         /\ [Line!Next]_(Line!vars)
         /\ pad'.buttons \in ButtonWords \cup {pad.buttons}
         /\ pad'.pending /\ ~pad.pending => pad.buttons \cap KEY_BLOCK = {}
<1> USE DEF IInv
<1>0. pad \in PadState /\ pad.pending \in BOOLEAN /\ MayRaise(pad) \in BOOLEAN
  BY DEF Sound, Settled, PadState, MayRaise
<1>1. ASSUME NEW cycles \in 0..MaxCycles, Tick(cycles)
      PROVE  /\ IInv' /\ Publishes(pad, pad') /\ Line!Time
             /\ pad'.buttons = pad.buttons
             /\ pad'.pending /\ ~pad.pending => pad.buttons \cap KEY_BLOCK = {}
  <2>1. /\ Sound(pad')
        /\ Publishes(pad, pad')
        /\ OnlySpends(pad, pad')
        /\ pad'.buttons = pad.buttons
        /\ pad'.pending /\ ~pad.pending => pad.buttons \cap KEY_BLOCK = {}
        /\ caller' = "time"
    BY <1>0, <1>1, TickedSound DEF Tick
  <2>2. /\ pad'.pending \in BOOLEAN
        /\ MayRaise(pad') \in BOOLEAN
        /\ pad'.pending => MayRaise(pad')
    BY <2>1 DEF Sound, Settled, PadState, MayRaise
  <2>3. Line!Time
    BY <1>0, <2>1, <2>2 DEF Line!Time, OnlySpends, MayRaise
  <2>4. QED
    BY <2>1, <2>3
<1>2. ASSUME NEW control \in ControlWord, WriteScr(control)
      PROVE  /\ IInv' /\ Publishes(pad, pad') /\ Line!Access
             /\ pad'.buttons = pad.buttons
             /\ pad'.pending => pad.pending
  <2>1. /\ Sound(pad')
        /\ Publishes(pad, pad')
        /\ pad'.buttons = pad.buttons
        /\ pad'.pending => pad.pending
        /\ caller' = "software"
    BY <1>0, <1>2, WriteControlSound DEF WriteScr
  <2>2. QED
    BY <2>1 DEF Line!Access, Sound, Settled, PadState, MayRaise
<1>3. CASE WriteElsewhere
  BY <1>0, <1>3 DEF WriteElsewhere, Publishes, Line!Next, Line!Access, MayRaise
<1>4. ASSUME NEW word \in ButtonWords, SetButtons(word)
      PROVE  /\ IInv' /\ Publishes(pad, pad') /\ UNCHANGED Line!vars
             /\ pad'.buttons = word
             /\ pad'.pending = pad.pending
  <2>1. word \in SUBSET Bits
    BY GamePadAssumption
  <2>2. QED
    BY <1>0, <1>4, <2>1
       DEF SetButtons, PadState, Sound, Settled, Whole, Quiet, Idle, Publishes,
           Line!vars, MayRaise
<1>5. QED
  BY <1>1, <1>2, <1>3, <1>4 DEF Next, Line!Next

\* The invariant is inductive.
LEMMA Invariant == Spec => []IInv
<1>1. Init => IInv
  BY InitSound
<1>2. IInv /\ [Next]_vars => IInv'
  BY NextSound DEF IInv, vars
<1>3. QED
  BY <1>1, <1>2, PTL DEF Spec

-----------------------------------------------------------------------------
(* What a read reports.  A bit can only be vouched for at the step that takes *)
(* it, so the invariant also says that the history has every button where it  *)
(* is now.                                                                    *)

\* A button was seen where a word has it.
Saw(h, word, bit) == /\ bit \in word => TRUE \in h[bit]
                     /\ bit \notin word => FALSE \in h[bit]

Vouched(p, h) == /\ \A bit \in Bits : Saw(h, p.buttons, bit)
                 /\ \A bit \in Bits : bit < p.shifted => Saw(h, p.shift, bit)

ReadsInv == IInv /\ held \in [Bits -> SUBSET BOOLEAN] /\ Vouched(pad, held)

\* The positions of a word vouch for that word, and nothing else is needed of
\* a pad that has read nothing, or that word.
LEMMA PositionsVouch ==
  ASSUME NEW p, NEW word, p.buttons = word,
         \/ \A bit \in Bits : ~(bit < p.shifted)
         \/ p.shift = word
  PROVE  Positions(word) \in [Bits -> SUBSET BOOLEAN] /\ Vouched(p, Positions(word))
<1> DEFINE h == Positions(word)
<1>1. h = [bit \in Bits |-> {(bit \in word)}]
  BY DEF Positions
<1>2. h \in [Bits -> SUBSET BOOLEAN]
  <2>1. ASSUME NEW bit \in Bits PROVE {(bit \in word)} \in SUBSET BOOLEAN
    OBVIOUS
  <2>2. QED
    BY <1>1, <2>1
<1>3. ASSUME NEW bit \in Bits PROVE Saw(h, word, bit)
  <2>1. h[bit] = {(bit \in word)}
    BY <1>1
  <2>2. CASE bit \in word
    <3>1. (bit \in word) = TRUE
      BY <2>2
    <3>2. h[bit] = {TRUE}
      BY <2>1, <3>1, Zenon
    <3>3. QED
      BY <2>2, <3>2 DEF Saw
  <2>3. CASE bit \notin word
    <3>1. (bit \in word) = FALSE
      BY <2>3
    <3>2. h[bit] = {FALSE}
      BY <2>1, <3>1, Zenon
    <3>3. QED
      BY <2>3, <3>2 DEF Saw
  <2>4. QED
    BY <2>2, <2>3
<1>4. QED
  BY <1>2, <1>3 DEF Vouched

\* A bit a read takes where its button is keeps the read vouched for: nothing
\* is at that position yet (Whole).
LEMMA TakingVouches ==
  ASSUME NEW p \in PadState, NEW q, NEW h, Whole(p), Vouched(p, h),
         q.buttons = p.buttons,
         \/ q.shifted = p.shifted /\ q.shift = p.shift
         \/ /\ q.shifted = p.shifted + 1
            /\ q.shift = p.shift \cup (p.buttons \cap {p.shifted})
  PROVE  Vouched(q, h)
<1>1. ASSUME NEW bit \in Bits, bit < q.shifted
      PROVE  Saw(h, q.shift, bit)
  <2>1. bit \in Int /\ p.shifted \in Int
    BY GamePadAssumption DEF Bits, PadState
  <2>2. CASE bit < p.shifted /\ bit # p.shifted
    BY <2>2 DEF Vouched, Saw
  <2>3. CASE ~(bit < p.shifted)
    <3>1. bit = p.shifted /\ q.shift = p.shift \cup (p.buttons \cap {bit})
      BY <1>1, <2>1, <2>3
    <3>2. bit \notin p.shift
      BY <2>3 DEF Whole
    <3>3. QED
      BY <3>1, <3>2 DEF Vouched, Saw
  <2>4. QED
    BY <2>1, <2>2, <2>3
<1>2. QED
  BY <1>1 DEF Vouched

\* A bit clocked in is the button's at that moment, and joins those read.
LEMMA ClockBitTakes ==
  ASSUME NEW p \in PadState
  PROVE  LET q == ClockBit(p)
         IN  \/ q = p
             \/ /\ q.buttons = p.buttons
                /\ q.shifted = p.shifted + 1
                /\ q.shift = p.shift \cup (p.buttons \cap {p.shifted})
  BY DEF ClockBit, PadState

\* A write to SCR starts the read over, takes a bit, or leaves it as it was.
LEMMA WriteControlTakes ==
  ASSUME NEW p \in PadState, NEW control \in ControlWord
  PROVE  LET q == WriteControl(p, control)
         IN  /\ q.buttons = p.buttons
             /\ control.latch => q.shifted = 0
             /\ ~control.latch =>
                  \/ q.shifted = p.shifted /\ q.shift = p.shift
                  \/ /\ q.shifted = p.shifted + 1
                     /\ q.shift = p.shift \cup (p.buttons \cap {p.shifted})
<1> DEFINE inhibited == Inhibit(p, control)
           latched == Latch(inhibited, control)
           clocked == Clock(latched, control)
           ended   == Abort(Start(clocked, control), control)
<1>0. /\ 0 \in 0..BUTTON_COUNT
      /\ control.inhibit \in BOOLEAN /\ control.clock \in BOOLEAN
  BY GamePadAssumption DEF ControlWord
<1>1. /\ latched \in PadState
      /\ latched.buttons = p.buttons
      /\ control.latch => latched.shifted = 0
      /\ ~control.latch => latched.shifted = p.shifted /\ latched.shift = p.shift
  <2>1. /\ inhibited \in PadState
        /\ inhibited.buttons = p.buttons
        /\ inhibited.shifted = p.shifted /\ inhibited.shift = p.shift
    BY <1>0 DEF Inhibit, PadState
  <2> HIDE DEF inhibited
  <2>2. CASE control.latch
    BY <1>0, <2>1, <2>2 DEF Latch, PadState
  <2>3. CASE ~control.latch
    BY <2>1, <2>3 DEF Latch, PadState
  <2>4. QED
    BY <2>2, <2>3
<1> HIDE DEF inhibited, latched
<1>2. /\ clocked.buttons = p.buttons
      /\ control.latch => clocked.shifted = 0
      /\ ~control.latch =>
           \/ clocked.shifted = p.shifted /\ clocked.shift = p.shift
           \/ /\ clocked.shifted = p.shifted + 1
              /\ clocked.shift = p.shift \cup (p.buttons \cap {p.shifted})
  <2> DEFINE bit == IF ~control.latch /\ latched.clock /\ ~control.clock
                      THEN ClockBit(latched) ELSE latched
  <2>1. /\ bit.buttons = p.buttons
        /\ control.latch => bit.shifted = 0
        /\ ~control.latch =>
             \/ bit.shifted = p.shifted /\ bit.shift = p.shift
             \/ /\ bit.shifted = p.shifted + 1
                /\ bit.shift = p.shift \cup (p.buttons \cap {p.shifted})
    BY <1>1, ClockBitTakes
  <2>2. clocked = [bit EXCEPT !.clock = control.clock]
    BY DEF Clock
  <2> HIDE DEF bit, clocked
  <2>3. /\ clocked.buttons = bit.buttons
        /\ clocked.shifted = bit.shifted
        /\ clocked.shift = bit.shift
    BY <2>2
  <2>4. QED
    BY <2>1, <2>3
<1> HIDE DEF clocked
<1>3. /\ ended.buttons = clocked.buttons
      /\ ended.shifted = clocked.shifted
      /\ ended.shift = clocked.shift
  BY DEF Abort, Start
<1>4. WriteControl(p, control) = ended
  BY DEF WriteControl, ended, clocked, latched, inhibited
<1>5. QED
  BY <1>2, <1>3, <1>4

\* A call of tick leaves the read alone, or ends it with the whole word.
LEMMA TickedTakes ==
  ASSUME NEW p \in PadState, NEW cycles \in 0..MaxCycles
  PROVE  LET q == Ticked(p, cycles)
         IN  /\ q.buttons = p.buttons
             /\ \/ /\ p.reading => q.reading
                   /\ q.shifted = p.shifted /\ q.shift = p.shift
                \/ p.reading /\ ~q.reading /\ q.shift = p.buttons
  BY DEF Ticked, RaiseKeyInterrupt, PadState

\* Every step of the history is one of the pad, or none.
LEMMA ReadsStepIsStep == [ReadsNext]_readVars => [Next]_vars
  BY DEF ReadsNext, ReadTick, ReadScr, ReadSetButtons, Next, readVars, vars

LEMMA ReadsInitSound == ReadsInit => ReadsInv
<1> SUFFICES ASSUME ReadsInit PROVE ReadsInv
  OBVIOUS
<1>1. IInv
  BY InitSound DEF ReadsInit
<1>2. pad.shifted = 0 /\ (\A bit \in Bits : ~(bit < 0))
  BY DEF ReadsInit, Init, NewPad, Bits
<1>3. \A bit \in Bits : ~(bit < pad.shifted)
  BY <1>2
<1>4. /\ Positions(pad.buttons) \in [Bits -> SUBSET BOOLEAN]
      /\ Vouched(pad, Positions(pad.buttons))
  BY <1>3, PositionsVouch
<1>5. QED
  BY <1>1, <1>4 DEF ReadsInit, ReadsInv

\* Every step, the one that takes a whole word and the one that starts the
\* read over included, keeps the read vouched for.
LEMMA ReadsInductive == ReadsInv /\ [ReadsNext]_readVars => ReadsInv'
<1> SUFFICES ASSUME ReadsInv, [ReadsNext]_readVars PROVE ReadsInv'
  OBVIOUS
<1>0. /\ pad \in PadState /\ Whole(pad)
      /\ held \in [Bits -> SUBSET BOOLEAN] /\ Vouched(pad, held)
  BY DEF ReadsInv, IInv, Sound, Settled
<1>1. IInv'
  BY ReadsStepIsStep, NextSound DEF ReadsInv, IInv, vars
<1>2. ASSUME NEW cycles \in 0..MaxCycles, ReadTick(cycles)
      PROVE  held' \in [Bits -> SUBSET BOOLEAN] /\ Vouched(pad', held')
  <2>1. /\ pad'.buttons = pad.buttons
        /\ \/ /\ pad.reading => pad'.reading
              /\ pad'.shifted = pad.shifted /\ pad'.shift = pad.shift
           \/ pad.reading /\ ~pad'.reading /\ pad'.shift = pad.buttons
    BY <1>0, <1>2, TickedTakes DEF ReadTick, Tick
  <2>2. CASE pad.reading /\ ~pad'.reading
    BY <1>2, <2>1, <2>2, PositionsVouch DEF ReadTick
  <2>3. CASE ~(pad.reading /\ ~pad'.reading)
    BY <1>0, <1>2, <2>1, <2>3 DEF ReadTick, Vouched
  <2>4. QED
    BY <2>2, <2>3
<1>3. ASSUME NEW control \in ControlWord, ReadScr(control)
      PROVE  held' \in [Bits -> SUBSET BOOLEAN] /\ Vouched(pad', held')
  <2>1. /\ pad'.buttons = pad.buttons
        /\ control.latch => pad'.shifted = 0
        /\ ~control.latch =>
             \/ pad'.shifted = pad.shifted /\ pad'.shift = pad.shift
             \/ /\ pad'.shifted = pad.shifted + 1
                /\ pad'.shift = pad.shift \cup (pad.buttons \cap {pad.shifted})
    BY <1>0, <1>3, WriteControlTakes DEF ReadScr, WriteScr
  <2>2. CASE control.latch
    <3>1. \A bit \in Bits : ~(bit < pad'.shifted)
      BY <2>1, <2>2 DEF Bits
    <3>2. QED
      BY <1>3, <2>1, <2>2, <3>1, PositionsVouch DEF ReadScr
  <2>3. CASE ~control.latch
    BY <1>0, <1>3, <2>1, <2>3, TakingVouches DEF ReadScr
  <2>4. QED
    BY <2>2, <2>3
<1>4. ASSUME NEW word \in ButtonWords, ReadSetButtons(word)
      PROVE  held' \in [Bits -> SUBSET BOOLEAN] /\ Vouched(pad', held')
  <2> DEFINE now == Positions(word)
  <2>1. held' = [bit \in Bits |-> held[bit] \cup now[bit]]
    BY <1>4 DEF ReadSetButtons, Positions
  <2>2. now \in [Bits -> SUBSET BOOLEAN] /\ \A bit \in Bits : Saw(now, word, bit)
    <3>1. PICK p : p = [buttons |-> word, shift |-> word, shifted |-> 0]
      OBVIOUS
    <3>2. QED
      BY <3>1, PositionsVouch DEF Vouched
  <2> HIDE DEF now
  <2>3. /\ pad'.buttons = word
        /\ pad'.shifted = pad.shifted /\ pad'.shift = pad.shift
    BY <1>0, <1>4 DEF ReadSetButtons, SetButtons, PadState
  <2>4. held' \in [Bits -> SUBSET BOOLEAN]
    BY <1>0, <2>1, <2>2
  <2>5. \A bit \in Bits : held[bit] \subseteq held'[bit] /\ now[bit] \subseteq held'[bit]
    BY <2>1
  <2>6. QED
    BY <1>0, <2>2, <2>3, <2>4, <2>5 DEF Vouched, Saw
<1>5. CASE (WriteElsewhere /\ UNCHANGED held) \/ UNCHANGED readVars
  BY <1>0, <1>1, <1>5 DEF WriteElsewhere, readVars, Vouched, ReadsInv
<1>6. QED
  BY <1>1, <1>2, <1>3, <1>4, <1>5 DEF ReadsNext, ReadsInv

LEMMA ReadsInvariant == ReadsSpec => []ReadsInv
  BY ReadsInitSound, ReadsInductive, PTL DEF ReadsSpec

-----------------------------------------------------------------------------
(* The results.                                                               *)

\* Every field stays in the range of its Rust type; no bit is ever shifted
\* beyond the word and elapsed stays short of a read.
THEOREM TypeCorrect == Spec => []TypeOK
<1>1. IInv => TypeOK
  BY DEF IInv, Sound, Settled, TypeOK
<1>2. QED
  BY <1>1, Invariant, PTL

\* The shift register holds exactly the bits read so far, and a full one has
\* been published, whether software or hardware filled it.
THEOREM ReadsAreWhole == Spec => []ReadIsWhole
<1>1. IInv => ReadIsWhole
  BY DEF IInv, Sound, Settled, Whole, ReadIsWhole
<1>2. QED
  BY <1>1, Invariant, PTL

\* No read runs under the abort bit, and none leaves cycles behind.
THEOREM AbortWins == Spec => []AbortHolds
<1>1. IInv => AbortHolds
  BY DEF IInv, Sound, Settled, Idle, AbortHolds
<1>2. QED
  BY <1>1, Invariant, PTL

\* The key interrupt is never up while inhibited.
THEOREM InhibitedQuiet == Spec => []InhibitedIsQuiet
<1>1. IInv => InhibitedIsQuiet
  BY DEF IInv, Sound, Settled, Quiet, InhibitedIsQuiet
<1>2. QED
  BY <1>1, Invariant, PTL

\* Software never sees a data word of a read that has not finished.
THEOREM DataIsWhole == Spec => DataComesWhole
<1>1. IInv /\ [Next]_vars =>
        [pad'.data # pad.data =>
           pad'.shifted = BUTTON_COUNT /\ pad'.data = pad'.shift]_vars
  BY NextSound DEF Publishes, vars
<1>2. QED
  BY <1>1, Invariant, PTL DEF Spec, DataComesWhole

\* What raises the key interrupt is a word without the signature, since the
\* blocking bits of the code contain it.
THEOREM StandardPadsQuiet == Spec => StandardPadsAreQuiet
<1>1. IInv /\ [Next]_vars =>
        [~pad.pending /\ pad'.pending => SGN \notin pad.buttons]_vars
  BY NextSound, GamePadAssumption DEF vars
<1>2. QED
  BY <1>1, Invariant, PTL DEF Spec, StandardPadsAreQuiet

\* So with a pad that always reports its signature it never fires.
THEOREM StandardPadIsQuiet ==
  ASSUME \A word \in ButtonWords : SGN \in word
  PROVE  Spec => [](~pad.pending)
<1> DEFINE Signed == SGN \in pad.buttons /\ ~pad.pending
<1>1. Init => Signed
  BY DEF Init, NewPad
<1>2. IInv /\ Signed /\ [Next]_vars => Signed'
  <2> SUFFICES ASSUME IInv, Signed, [Next]_vars PROVE Signed'
    OBVIOUS
  <2>1. CASE Next
    <3>1. SGN \in pad.buttons \cap KEY_BLOCK
      BY GamePadAssumption
    <3>2. ~pad'.pending
      BY <2>1, <3>1, NextSound
    <3>3. SGN \in pad'.buttons
      BY <2>1, NextSound
    <3>4. QED
      BY <3>2, <3>3
  <2>2. CASE UNCHANGED vars
    BY <2>2 DEF vars
  <2>3. QED
    BY <2>1, <2>2
<1>3. QED
  BY <1>1, <1>2, Invariant, PTL DEF Spec

\* The pad keeps the safety half of the device promise.
THEOREM KeepsLinePromise == Spec => Line!Init /\ [][Line!Next]_(Line!vars)
<1>1. Init => Line!Init
  BY InitSound
<1>2. IInv /\ [Next]_vars => [Line!Next]_(Line!vars)
  BY NextSound DEF vars, Line!vars, MayRaise
<1>3. QED
  BY <1>1, <1>2, Invariant, PTL DEF Spec
\* A read reports positions its buttons had while it lasted, however latches,
\* clocks, aborts, hardware reads and the player's hands overlap.
THEOREM ReadsReport == ReadsSpec => []ReadReportsTheButtons
<1>1. ASSUME ReadsInv PROVE ReadReportsTheButtons
  <2> SUFFICES ASSUME NEW bit \in Bits, bit < pad.shifted
               PROVE  (bit \in pad.shift) \in held[bit]
    BY DEF ReadReportsTheButtons
  <2> DEFINE reported == bit \in pad.shift
  <2>1. Saw(held, pad.shift, bit)
    BY <1>1 DEF ReadsInv, Vouched
  <2>2. CASE bit \in pad.shift
    <3>1. reported = TRUE
      BY <2>2
    <3> HIDE DEF reported
    <3>2. reported \in held[bit]
      BY <2>1, <2>2, <3>1 DEF Saw
    <3>3. QED
      BY <3>2 DEF reported
  <2>3. CASE bit \notin pad.shift
    <3>1. reported = FALSE
      BY <2>3
    <3> HIDE DEF reported
    <3>2. reported \in held[bit]
      BY <2>1, <2>3, <3>1 DEF Saw
    <3>3. QED
      BY <3>2 DEF reported
  <2>4. QED
    BY <2>2, <2>3
<1>2. QED
  BY <1>1, ReadsInvariant, PTL

\* What was proved of the pad alone holds of the pad with the history beside it.
THEOREM ReadsImplyPad == ReadsSpec => Spec
<1>1. ReadsInit => Init
  BY DEF ReadsInit
<1>2. QED
  BY <1>1, ReadsStepIsStep, PTL DEF ReadsSpec, Spec

=============================================================================
