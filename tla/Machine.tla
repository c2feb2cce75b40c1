-------------------------------- MODULE Machine --------------------------------
(* The machine as the trace loop of src/crates/vb-headless/src/main.rs runs   *)
(* it: one step of the processor, then one tick of the bus for the cycles the *)
(* step charged, then what the loop makes of the outcome.                     *)
(*                                                                            *)
(* The processor is CpuControl with the lines of the real devices, Timer and  *)
(* GamePad, in the place of its abstract ones (Bus::raised, Bus::may_raise);  *)
(* a byte store to a device register is a write to one of the two, wider      *)
(* stores never reach a device (Bus::write_u16, write_u32) and are plain.     *)
EXTENDS Integers

CONSTANTS
  TICK_CYCLES, TICK_MODULO, BYTE,                   \* see Timer
  BUTTON_COUNT, HARDWARE_READ_CYCLES, KEY_TRIGGER,
  KEY_BLOCK, SGN, ButtonWords,                      \* see GamePad
  Program, Words, PswWrites, Vectors, FaultCodes,   \* see CpuControl
  MaxCycles,      \* bound: most cycles an instruction charges
  LoadBytes,      \* bytes software writes to TLR and THR
  TimerControls,  \* words software writes to TCR
  PadControls,    \* words software writes to SCR
  SPILL_ROUNDS,   \* times a cache dump passes the registers (16 in the code)
  Traces,         \* the programs a trace may be started on, by the instructions
                  \*   they are made of, and its step and cycle limits
  NoLimit         \* a limit too far away to be reached

VARIABLES cpu, dump, outcome,  \* the processor, as in CpuControl
          timer, pad,          \* the devices
          caller,              \* whose turn it was: "software" (step) or "time" (tick)
          trace,               \* of this trace: [repertoire, steps, cycles]
          executed,            \* lines the loop has counted towards a step limit
          cycles,              \* cycles charged towards a cycle limit
          loop                 \* "running", "limit" or "stopped"

devices == <<timer, pad>>

counters == <<executed, cycles>>
vars == <<cpu, dump, outcome, timer, pad, caller, trace, counters, loop>>

T == INSTANCE Timer
P == INSTANCE GamePad

DeviceLines ==
  [d \in {"TimerZero", "GamePad"} |->
     IF d = "TimerZero" THEN [pending |-> timer.pending, armed |-> T!MayRaise(timer)]
     ELSE [pending |-> pad.pending, armed |-> P!MayRaise(pad)]]

C == INSTANCE CpuControl WITH lines <- DeviceLines

Instructions == {"plain", "bit_string", "store", "spill", "halt", "reti", "cli",
                 "sei", "ldsr_psw", "ldsr_saved", "ldsr_address", "trap", "fault", "illegal"}

ASSUME MachineAssumption ==
  /\ T!TimerAssumption /\ P!GamePadAssumption /\ C!CpuAssumption
  /\ LoadBytes \subseteq 0..(BYTE - 1)
  /\ TimerControls \subseteq T!ControlWord
  /\ PadControls \subseteq P!ControlWord
  /\ SPILL_ROUNDS \in Nat \ {0}
  /\ Traces \subseteq [repertoire : SUBSET Instructions,
                      steps : Nat \cup {NoLimit}, cycles : Nat \cup {NoLimit}]

Init == /\ T!Init /\ P!Init /\ C!Init
        /\ trace \in Traces
        /\ executed = 0
        /\ cycles = 0
        /\ loop = "running"

-----------------------------------------------------------------------------
(* cpu.step(&mut bus)                                                         *)

\* The routes of write_misc: the timer's registers first, then the pad's.
WriteTimer ==
  /\ \/ \E byte \in LoadBytes : \/ timer' = T!LoadLow(timer, byte)
                                \/ timer' = T!LoadHigh(timer, byte)
     \/ \E control \in TimerControls : timer' = T!WriteControl(timer, control)
  /\ UNCHANGED pad

WritePad == /\ \E control \in PadControls : pad' = P!WriteControl(pad, control)
            /\ UNCHANGED timer

\* A cache dump (ldsr to CHCW) whose spill area lies over the registers writes
\* its blocks to them byte by byte, in the order of their addresses, which
\* repeat every 64 bytes.
Row == [low : LoadBytes, high : LoadBytes, tcr : TimerControls, scr : PadControls]

RowIntoTimer(t, row) == T!WriteControl(T!LoadHigh(T!LoadLow(t, row.low), row.high), row.tcr)
RowIntoPad(p, row)   == P!WriteControl(p, row.scr)

SpillOverDevices ==
  \E rows \in [1..SPILL_ROUNDS -> Row] :
    LET timers[n \in 0..SPILL_ROUNDS] ==
          IF n = 0 THEN timer ELSE RowIntoTimer(timers[n - 1], rows[n])
        pads[n \in 0..SPILL_ROUNDS] ==
          IF n = 0 THEN pad ELSE RowIntoPad(pads[n - 1], rows[n])
    IN  timer' = timers[SPILL_ROUNDS] /\ pad' = pads[SPILL_ROUNDS]

Without(instruction) == /\ instruction \in trace.repertoire
                        /\ UNCHANGED devices

\* The part of step before an instruction is decoded touches no device.
Dispatch == /\ UNCHANGED devices
            /\ C!TakeInterrupt \/ C!StopHalted \/ C!Idle \/ C!AddressTrap

Execute ==
  \E next_pc \in Program :
    \/ "store" \in trace.repertoire /\ (WriteTimer \/ WritePad) /\ C!StoreToDevice(next_pc)
    \/ "spill" \in trace.repertoire /\ SpillOverDevices /\ C!StoreToDevice(next_pc)
    \/ Without("plain") /\ C!Plain(next_pc)
    \/ Without("halt") /\ C!Halt(next_pc)
    \/ Without("cli") /\ C!SetInterruptDisable(next_pc, FALSE)
    \/ Without("sei") /\ C!SetInterruptDisable(next_pc, TRUE)
    \/ Without("fault") /\ \E code \in FaultCodes : C!Fault(code, next_pc)
    \/ Without("trap") /\ \E vector \in Vectors : C!Trap(vector, next_pc)
    \/ Without("ldsr_address") /\ \E value \in Words : C!LdsrAddress(next_pc, value)
    \/ Without("ldsr_psw") /\ \E value \in PswWrites : C!LdsrPsw(next_pc, value)
    \/ Without("ldsr_saved") /\ \E value \in PswWrites : C!LdsrSavedPsw(next_pc, value)

ExecuteInPlace == \/ Without("bit_string") /\ C!BitStringPass
                  \/ Without("reti") /\ C!Reti
                  \/ Without("illegal") /\ C!IllegalOpcode

-----------------------------------------------------------------------------
(* The loop.                                                                  *)

Reached(count, limit) == limit # NoLimit /\ count >= limit
AtLimit == Reached(executed, trace.steps) \/ Reached(cycles, trace.cycles)

\* A counter nobody compares is not kept.
Advanced(count, by, limit) == IF limit = NoLimit THEN count ELSE count + by

\* The head of the loop, and the call of step.
Step == /\ loop = "running" /\ caller = "time" /\ ~AtLimit
        /\ Dispatch \/ Execute \/ ExecuteInPlace
        /\ caller' = "software"
        /\ UNCHANGED <<trace, counters, loop>>

StopAtLimit == /\ loop = "running" /\ caller = "time" /\ AtLimit
               /\ loop' = "limit"
               /\ UNCHANGED <<cpu, dump, outcome, timer, pad, caller, trace, counters>>

\* Cycles the step charged: an idle cycle is one, an instruction's are its own.
Charges == IF ~outcome.charged THEN {0}
           ELSE IF outcome.kind = "idle" THEN {1} ELSE 1..MaxCycles

Counted == outcome.kind \in {"executed", "interrupt", "exception"}

\* bus.tick(cycles), and the match on the outcome.
BusTick ==
  /\ loop = "running" /\ caller = "software"
  /\ \E charge \in Charges : /\ timer' = T!Ticked(timer, charge)
                             /\ pad' = P!Ticked(pad, charge)
                             /\ cycles' = Advanced(cycles, charge, trace.cycles)
  /\ caller' = "time"
  /\ executed' = Advanced(executed, IF Counted THEN 1 ELSE 0, trace.steps)
  /\ loop' = IF C!Stopped THEN "stopped" ELSE loop
  /\ UNCHANGED <<cpu, dump, outcome, trace>>

\* The player, between two turns of the loop.
SetButtons == /\ loop = "running" /\ caller = "time"
              /\ \E word \in ButtonWords : pad' = [pad EXCEPT !.buttons = word]
              /\ UNCHANGED <<cpu, dump, outcome, timer, caller, trace, counters, loop>>

Next == Step \/ StopAtLimit \/ BusTick \/ SetButtons

Spec == Init /\ [][Next]_vars

\* The loop is sequential code: it takes its next step.
FairSpec == Spec /\ WF_vars(Step \/ StopAtLimit \/ BusTick)

-----------------------------------------------------------------------------
(* Properties.                                                                *)

\* With the real timer and the real pad behind the bus, the processor meets
\* nothing that its abstract devices could not have done: what is shown of
\* CpuControl holds of the machine.
ImplementsCpu == C!Spec

\* "Idling is guaranteed to end, either a device raises or the halt turns
\* permanent": with the devices the machine has.
IdleEnds == outcome.kind = "idle" ~> outcome.kind # "idle"

\* A trace with a limit ends.  Idling counts no step, and an exception entry
\* charges no cycle, so neither limit is reached by counting turns of the loop:
\* that idling ends, and that time does not stand still, is what is needed.
Limited == \E bound \in {trace.steps, trace.cycles} : bound # NoLimit
TraceEnds == Limited ~> loop # "running"
=============================================================================
