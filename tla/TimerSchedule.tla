---------------------------- MODULE TimerSchedule ----------------------------
(* The timer against its schedule.                                            *)
(*                                                                            *)
(* History variables record how long ago the counter was loaded; a closed     *)
(* form then says what the counter must read, and the step-by-step timer of   *)
(* timer.rs is held to it through every interleaving of ticks and writes.     *)
EXTENDS Timer

VARIABLES since,   \* cycles since the last load, modulo a whole slow period
          steady,  \* no control write since changed T_ENB or T_CLK_SEL mid-way
          spent    \* a control write has counted the pending tick already

scheduleVars == <<timer, caller, since, steady, spent>>

SlowInterval == TICK_CYCLES * TICK_MODULO
Period(reload) == SlowInterval * (reload + 1)

\* The count a timer loaded `age' cycles ago with its reload value shows: it
\* walks down to zero, one interval at a time, and back to the reload value.
Expected(t, age) ==
  LET intervals == age \div (IF t.fast THEN TICK_CYCLES ELSE SlowInterval)
  IN  IF t.enabled THEN (t.reload - intervals) % (t.reload + 1) ELSE t.reload

-----------------------------------------------------------------------------
ScheduleInit == /\ Init
                /\ since = 0
                /\ steady = TRUE
                /\ spent = FALSE

ScheduledTick(cycles) ==
  /\ Tick(cycles)
  /\ since' = (since + cycles) % Period(timer.reload)
  /\ spent' = (spent /\ timer'.tick = timer.tick)
  /\ UNCHANGED steady

ScheduledLoad(byte) ==
  /\ WriteLow(byte) \/ WriteHigh(byte)
  /\ since' = 0
  /\ steady' = TRUE
  /\ spent' = FALSE

ScheduledControl(control) ==
  /\ WriteTcr(control)
  /\ steady' = /\ steady
               /\ \/ since = 0
                  \/ control.enable = timer.enabled /\ control.clock = timer.fast
  /\ spent' = (spent \/ SpendsTick(timer, control))
  /\ UNCHANGED since

ScheduleNext == \/ \E cycles \in 0..MaxCycles : ScheduledTick(cycles)
                \/ \E byte \in Byte : ScheduledLoad(byte)
                \/ \E control \in ControlWord : ScheduledControl(control)
                \/ WriteElsewhere /\ UNCHANGED <<since, steady, spent>>

\* The history stands in the way of no step, so the timer is as fair as before.
ScheduleTimePasses == \E cycles \in 1..MaxCycles : ScheduledTick(cycles)

ScheduleSpec == ScheduleInit /\ [][ScheduleNext]_scheduleVars
ScheduleFairSpec == ScheduleSpec /\ WF_scheduleVars(ScheduleTimePasses)

-----------------------------------------------------------------------------
\* The free-running tick counter and the partial interval are together the
\* time since the last load: neither a control write nor a disabled timer
\* loses or gains a cycle of phase (tick, load).
PhaseKept == timer.elapsed + TICK_CYCLES * timer.tick = since % SlowInterval

\* A timer whose clock and enable were left alone since its interval began
\* reads exactly what the closed form says, on either clock, over any number
\* of reloads, whatever acknowledgements and interrupt masks were written and
\* however the cycles were split between calls of tick.
OnSchedule == steady => timer.counter = Expected(timer, since)

\* "Switching to the fast clock mid interval spends the pending tick": a tick
\* that was spent is not there to be spent by the next control write.
PendingTickIsSpentOnce ==
  [][\A control \in ControlWord :
       spent /\ WriteTcr(control) => timer'.counter = timer.counter]_scheduleVars
=============================================================================
