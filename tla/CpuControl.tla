------------------------------ MODULE CpuControl ------------------------------
(* The control of the processor: the order of events in one call of step,     *)
(* exception entry and return, halting and waking.                            *)
(* src/crates/vb-core/src/cpu/exec.rs and cpu/state.rs.                       *)
(*                                                                            *)
(* The program is arbitrary: at any address it may hold any instruction, so a *)
(* step picks one by what it does to the control state.  Arithmetic, memory   *)
(* and the condition flags are left to other modules.  Addresses are the low  *)
(* halfword of the top page, where the handlers live; Program holds the other *)
(* addresses the program runs at.                                             *)
(* The devices are their interrupt lines, which time and stores change.       *)
EXTENDS Interrupts

CONSTANTS Program,    \* addresses instructions may be at, beside the handlers
          Words,      \* values software may write to EIPC, FEPC and ADTRE
          PswWrites,  \* values software may write to EIPSW, FEPSW and PSW
          Vectors,    \* operands of the trap instruction (0..31 in the code)
          FaultCodes  \* codes of the faults execution may raise after the fetch

MAX_LEVEL == 15

Psw == [np : BOOLEAN, ep : BOOLEAN, id : BOOLEAN, ae : BOOLEAN, level : 0..MAX_LEVEL]

RESET_PC           == \hFFF0
EXC_ADDRESS_TRAP   == \hFFC0
EXC_ILLEGAL_OPCODE == \hFF90
EXC_ZERO_DIVISION  == \hFF80
EXC_TRAP_BASE      == \hFFA0
HANDLER_TRAP_HIGH  == \hFFB0
HANDLER_DUPLEXED   == \hFFD0
HANDLER_FP         == \hFF60

LAST_ADDRESS  == \hFFFF
Address       == 0..LAST_ADDRESS
\* Mutant: the low bit of an address is kept.
EvenNot(address) == address

Even(address) == address - (address % 2)
IsEven(address) == address % 2 = 0

ASSUME CpuAssumption ==
  /\ Program \subseteq Address /\ (\A address \in Program : IsEven(address))
  /\ Words \subseteq Address
  /\ PswWrites \subseteq Psw
  /\ Vectors \subseteq 0..31
  /\ FaultCodes \subseteq {EXC_ZERO_DIVISION} \cup \hFF60..\hFF74

VARIABLES cpu,      \* the control registers of struct Cpu
          lines,    \* what the bus answers about the devices
          dump,     \* the three words a fatal exception leaves in memory
          outcome   \* what the last call of step returned

vars == <<cpu, lines, dump, outcome>>

ExceptionCode ==
  {Code(source) : source \in Source}
    \cup {EXC_ADDRESS_TRAP, EXC_ILLEGAL_OPCODE, EXC_ZERO_DIVISION}
    \cup \hFF60..\hFF74 \cup {EXC_TRAP_BASE + vector : vector \in 0..31}

NoCode  == 0
NoLevel == -1

CpuState ==
  [pc : Address, psw : Psw, eipc : Address, eipsw : Psw, fepc : Address,
   fepsw : Psw, eicc : Address, fecc : Address, adtre : Address, halted : BOOLEAN]

Clear == [np |-> FALSE, ep |-> FALSE, id |-> FALSE, ae |-> FALSE, level |-> 0]

\* The two halves of ecr are eicc and fecc.
NewCpu ==
  [pc |-> RESET_PC, psw |-> [Clear EXCEPT !.np = TRUE], eipc |-> 0,
   eipsw |-> Clear, fepc |-> 0, fepsw |-> Clear, eicc |-> \hFFF0,
   fecc |-> NoCode, adtre |-> 0, halted |-> FALSE]

NoDump == [code |-> NoCode, psw |-> Clear, pc |-> 0]

\* What step returned, the code it carries, and whether it charged a cycle.
Outcome == [kind : {"none", "executed", "interrupt", "exception", "idle",
                    "stop_halted", "stop_fatal"},
            code : ExceptionCode \cup {NoCode}, charged : BOOLEAN]

Returned(kind, code, charged) ==
  [kind |-> kind, code |-> code, charged |-> charged]

Stopped == outcome.kind \in {"stop_halted", "stop_fatal"}

-----------------------------------------------------------------------------
(* Acceptance.                                                                *)

AcceptsInterrupt(c, level) == /\ ~c.psw.id /\ ~c.psw.ep /\ ~c.psw.np
                              /\ c.psw.level <= level

\* Only the first raised source is considered.
InterruptAccepted == /\ AnyRaised(lines)
                     /\ AcceptsInterrupt(cpu, Level(PendingInterrupt(lines)))

\* Mutant: a source that may raise wakes whatever the gates are.
CanWakeUngated == \E source \in Source : MayRaise(lines, source)

CanWake == \E source \in Source : /\ MayRaise(lines, source)
                                  /\ AcceptsInterrupt(cpu, Level(source))

-----------------------------------------------------------------------------
(* Exception entry.                                                           *)

Exception(code, handler, restore_pc, level) ==
  [code |-> code, handler |-> handler, restore_pc |-> restore_pc, level |-> level]

\* Mutants of the status: the second bank is not marked taken, the level of
\* the interrupt is let through.
HandlerPswUnmarked(psw, level) ==
  [psw EXCEPT !.ep = TRUE, !.id = TRUE, !.ae = FALSE,
              !.level = IF level = NoLevel THEN @
                        ELSE IF level < MAX_LEVEL THEN level + 1 ELSE MAX_LEVEL]
HandlerPswUnraised(psw, level) ==
  [psw EXCEPT !.np = @ \/ psw.ep, !.ep = TRUE, !.id = TRUE, !.ae = FALSE,
              !.level = IF level = NoLevel THEN @ ELSE level]

\* The status a handler starts with: one bank deeper, interrupts and the
\* address trap off, and for an interrupt its own level masked.
HandlerPsw(psw, level) ==
  [psw EXCEPT !.np = @ \/ psw.ep, !.ep = TRUE, !.id = TRUE, !.ae = FALSE,
              !.level = IF level = NoLevel THEN @
                        ELSE IF level < MAX_LEVEL THEN level + 1 ELSE MAX_LEVEL]

Woken(c, e) == c.halted /\ e.level = NoLevel

\* With EP set the context goes to the second bank and the duplexed handler.
Entered(c, e) ==
  IF c.psw.ep
    THEN [c EXCEPT !.fecc = e.code, !.fepsw = c.psw, !.fepc = Even(e.restore_pc),
                   !.psw = HandlerPsw(@, e.level), !.pc = HANDLER_DUPLEXED,
                   !.halted = Woken(c, e)]
    ELSE [c EXCEPT !.eicc = e.code, !.eipsw = c.psw, !.eipc = Even(e.restore_pc),
                   !.psw = HandlerPsw(@, e.level), !.pc = e.handler,
                   !.halted = Woken(c, e)]

\* Mutant: the fatal exception does not halt.
RaiseUnhalted(c, e, returned) ==
  \/ /\ c.psw.np
     /\ cpu' = c
     /\ dump' = [code |-> e.code, psw |-> c.psw, pc |-> c.pc]
     /\ outcome' = Returned("stop_fatal", e.code, returned.charged)
  \/ /\ ~c.psw.np
     /\ cpu' = Entered(c, e)
     /\ outcome' = returned
     /\ UNCHANGED dump

\* raise: with NP set there is no bank left, and the processor stops for good.
\* `returned' is what step answers when it does not.
Raise(c, e, returned) ==
  \/ /\ c.psw.np
     /\ cpu' = [c EXCEPT !.halted = TRUE]
     /\ dump' = [code |-> e.code, psw |-> c.psw, pc |-> c.pc]
     /\ outcome' = Returned("stop_fatal", e.code, returned.charged)
  \/ /\ ~c.psw.np
     /\ cpu' = Entered(c, e)
     /\ outcome' = returned
     /\ UNCHANGED dump

-----------------------------------------------------------------------------
(* One call of step, in the order it looks at things.                         *)

TakeInterrupt ==
  LET source == PendingInterrupt(lines)
  IN  /\ InterruptAccepted
      /\ Raise(cpu, Exception(Code(source), Code(source), cpu.pc, Level(source)),
               Returned("interrupt", Code(source), FALSE))
      /\ UNCHANGED lines

Waits == ~InterruptAccepted /\ cpu.halted

StopHalted == /\ Waits /\ ~CanWake
              /\ outcome' = Returned("stop_halted", NoCode, FALSE)
              /\ UNCHANGED <<cpu, lines, dump>>

\* A halted processor that something may wake lets a cycle pass.
Idle == /\ Waits /\ CanWake
        /\ outcome' = Returned("idle", NoCode, TRUE)
        /\ UNCHANGED <<cpu, lines, dump>>

\* Mutant: a halted processor runs.
RunsHalted == ~InterruptAccepted

Runs == ~InterruptAccepted /\ ~cpu.halted
Trapped == cpu.psw.ae /\ cpu.pc = cpu.adtre

\* The address trap comes before the fetch.
AddressTrap ==
  /\ Runs /\ Trapped
  /\ Raise(cpu, Exception(EXC_ADDRESS_TRAP, EXC_ADDRESS_TRAP, cpu.pc, NoLevel),
           Returned("exception", EXC_ADDRESS_TRAP, FALSE))
  /\ UNCHANGED lines

Fetches == Runs /\ ~Trapped

IllegalOpcode ==
  /\ Fetches
  /\ Raise(cpu, Exception(EXC_ILLEGAL_OPCODE, EXC_ILLEGAL_OPCODE, cpu.pc, NoLevel),
           Returned("exception", EXC_ILLEGAL_OPCODE, FALSE))
  /\ UNCHANGED lines

\* pc moves past the instruction, which is then executed from there.
Executes(next_pc) == /\ Fetches
                     /\ next_pc \in Program
Executed == Returned("executed", NoCode, TRUE)
Continues(c) == /\ cpu' = c
                /\ outcome' = Executed
                /\ UNCHANGED dump
At(pc) == [cpu EXCEPT !.pc = pc]

\* Arithmetic, moves, loads, branches taken or not.
Plain(next_pc) == /\ Executes(next_pc)
                  /\ Continues(At(next_pc))
                  /\ UNCHANGED lines

\* A store, or a cache dump, that reaches device registers: any change of the
\* lines.
StoreToDevice(next_pc) == /\ Executes(next_pc)
                          /\ Continues(At(next_pc))
                          /\ lines' \in Lines

\* One pass of a bit string that has not finished leaves pc on it.
BitStringPass == /\ Fetches
                 /\ Continues(cpu)
                 /\ UNCHANGED lines

\* A zero division or a floating point fault restores to the instruction; the
\* saved context then has pc past it, and step still answers Executed.
Fault(code, next_pc) ==
  /\ Executes(next_pc)
  /\ Raise(At(next_pc),
           Exception(code, IF code = EXC_ZERO_DIVISION THEN code ELSE HANDLER_FP,
                     cpu.pc, NoLevel),
           Executed)
  /\ UNCHANGED lines

Trap(vector, next_pc) ==
  /\ Executes(next_pc)
  /\ Raise(At(next_pc),
           Exception(EXC_TRAP_BASE + vector,
                     IF vector < 16 THEN EXC_TRAP_BASE ELSE HANDLER_TRAP_HIGH,
                     next_pc, NoLevel),
           Executed)
  /\ UNCHANGED lines

\* Mutant: reti leaves the bank EP says.
ReturningByEp(c) == IF c.psw.ep THEN [c EXCEPT !.pc = c.fepc, !.psw = c.fepsw]
                    ELSE [c EXCEPT !.pc = c.eipc, !.psw = c.eipsw]

\* reti leaves the bank NP says it is in.
Returning(c) == IF c.psw.np THEN [c EXCEPT !.pc = c.fepc, !.psw = c.fepsw]
                ELSE [c EXCEPT !.pc = c.eipc, !.psw = c.eipsw]

Reti == /\ Fetches
        /\ Continues(Returning(cpu))
        /\ UNCHANGED lines

Halt(next_pc) == /\ Executes(next_pc)
                 /\ Continues([At(next_pc) EXCEPT !.halted = TRUE])
                 /\ UNCHANGED lines

\* cli and sei.
SetInterruptDisable(next_pc, id) ==
  /\ Executes(next_pc)
  /\ Continues([At(next_pc) EXCEPT !.psw.id = id])
  /\ UNCHANGED lines

\* ldsr to the registers that hold an address, and to those that hold a PSW.
LdsrAddress(next_pc, value) ==
  /\ Executes(next_pc)
  /\ \/ Continues([At(next_pc) EXCEPT !.eipc = Even(value)])
     \/ Continues([At(next_pc) EXCEPT !.fepc = Even(value)])
     \/ Continues([At(next_pc) EXCEPT !.adtre = value])
  /\ UNCHANGED lines

LdsrPsw(next_pc, value) ==
  /\ Executes(next_pc)
  /\ Continues([At(next_pc) EXCEPT !.psw = value])
  /\ UNCHANGED lines

LdsrSavedPsw(next_pc, value) ==
  /\ Executes(next_pc)
  /\ \/ Continues([At(next_pc) EXCEPT !.eipsw = value])
     \/ Continues([At(next_pc) EXCEPT !.fepsw = value])
  /\ UNCHANGED lines

Step == \/ TakeInterrupt \/ StopHalted \/ Idle \/ AddressTrap \/ IllegalOpcode
        \/ BitStringPass \/ Reti
        \/ \E next_pc \in Program :
             \/ Plain(next_pc) \/ StoreToDevice(next_pc) \/ Halt(next_pc)
             \/ \E code \in FaultCodes : Fault(code, next_pc)
             \/ \E vector \in Vectors : Trap(vector, next_pc)
             \/ \E id \in BOOLEAN : SetInterruptDisable(next_pc, id)
             \/ \E value \in Words : LdsrAddress(next_pc, value)
             \/ \E value \in PswWrites : LdsrPsw(next_pc, value) \/ LdsrSavedPsw(next_pc, value)

-----------------------------------------------------------------------------
(* Time passes in the devices, each keeping the promise of InterruptLine.     *)

Spent(line) == {later \in Line : /\ line.pending => later.pending
                                 /\ later.pending => later.armed
                                 /\ later.armed => line.armed}

Elapse == /\ lines' \in {later \in Lines :
                           \A d \in Device : later[d] \in Spent(lines[d])}
          /\ UNCHANGED <<cpu, dump, outcome>>

Init == /\ cpu = NewCpu
        /\ lines = [d \in Device |-> [pending |-> FALSE, armed |-> FALSE]]
        /\ dump = NoDump
        /\ outcome = Returned("none", NoCode, FALSE)

Next == Step \/ Elapse

Spec == Init /\ [][Next]_vars

\* A device left alone settles its line (InterruptLine), and a halted
\* processor leaves them alone.
Settles(d) == /\ cpu.halted
              /\ lines[d].armed /\ ~lines[d].pending
              /\ Elapse
              /\ lines'[d].pending \/ ~lines'[d].armed

-----------------------------------------------------------------------------
(* Properties.                                                                *)

\* Program counters, current and saved, are even; levels fit their four bits.
TypeOK == /\ cpu \in CpuState
          /\ IsEven(cpu.pc) /\ IsEven(cpu.eipc) /\ IsEven(cpu.fepc)
          /\ lines \in Lines
          /\ dump \in [code : ExceptionCode \cup {NoCode}, psw : Psw, pc : Address]
          /\ outcome \in Outcome

\* "The halt turns permanent": once step has stopped, with a processor nothing
\* can wake or a fatal exception, no time that passes makes it run again.
StopIsPermanent ==
  [][Stopped => outcome'.kind = outcome.kind \/ outcome'.kind = "stop_halted"]_vars

\* No instruction runs, nor is a cycle idled, while a raised source would be
\* accepted, although the bus reports only the first raised one: either time
\* passes outside step, or an interrupt as urgent is taken.
NoAcceptableInterruptWaits ==
  [][\A source \in Source :
       Raised(lines, source) /\ AcceptsInterrupt(cpu, Level(source))
         => \/ UNCHANGED <<cpu, outcome>>
            \/ outcome'.kind = "interrupt" /\ outcome'.code >= Code(source)]_vars

\* The processor idles only with its gates open, and only an interrupt ends it:
\* an idling processor is frozen.
IdleIsFrozen ==
  [][outcome.kind = "idle" =>
       UNCHANGED cpu \/ (outcome'.kind = "interrupt" /\ cpu'.eipc = cpu.pc)]_vars

\* "Idling is guaranteed to end, either a device raises or the halt turns
\* permanent".
IdleEnds == outcome.kind = "idle" ~> outcome.kind # "idle"
=============================================================================
