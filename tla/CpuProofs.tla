------------------------------ MODULE CpuProofs ------------------------------
(* Proofs about the control of the processor, for every program and every set *)
(* of values software writes.  A step either raises an exception, for which   *)
(* one lemma is enough, or changes a few fields of a running processor.       *)
EXTENDS CpuHistory, DisciplinedCpu, SequenceTheorems, TLAPS

-----------------------------------------------------------------------------
(* The sources and their priority.                                            *)

\* The bound of an address, for the arithmetic about addresses.
LEMMA AddressBound == LAST_ADDRESS \in Nat /\ LAST_ADDRESS >= 65535
  BY DEF LAST_ADDRESS

\* What the table says, source by source.
LEMMA SourceTable ==
  /\ Source = {"Vip", "Communication", "GamePak", "TimerZero", "GamePad"}
  /\ Device \subseteq Source
  /\ \A source \in Source : /\ Level(source) \in 0..4
                            /\ Code(source) = \hFE00 + 16 * Level(source)
                            /\ Code(source) \in ExceptionCode
                            /\ Code(source) \in Address
                            /\ IsEven(Code(source))
<1>1. Source = {"Vip", "Communication", "GamePak", "TimerZero", "GamePad"}
  <2>1. 1..5 = {1, 2, 3, 4, 5}
    OBVIOUS
  <2>2. /\ SOURCES[1] = "Vip" /\ SOURCES[2] = "Communication"
        /\ SOURCES[3] = "GamePak" /\ SOURCES[4] = "TimerZero"
        /\ SOURCES[5] = "GamePad"
    BY DEF SOURCES
  <2>3. QED
    BY <2>1, <2>2 DEF Source
<1>2. Device \subseteq Source
  BY <1>1 DEF Device
<1>3. ASSUME NEW source \in Source
      PROVE  /\ Level(source) \in 0..4
             /\ Code(source) = \hFE00 + 16 * Level(source)
             /\ Code(source) \in ExceptionCode
             /\ Code(source) \in Address
             /\ IsEven(Code(source))
  <2>1. Level(source) \in {0, 1, 2, 3, 4}
    BY <1>1 DEF Level
  <2>2. Code(source) \in {65024, 65040, 65056, 65072, 65088}
    BY <2>1 DEF Code
  <2>3. Code(source) \in ExceptionCode
    BY DEF ExceptionCode
  <2>4. Code(source) \in Address /\ IsEven(Code(source))
    <3>1. ASSUME NEW code \in {65024, 65040, 65056, 65072, 65088}
          PROVE  code \in Address /\ IsEven(code)
      BY AddressBound DEF Address, IsEven
    <3>2. QED
      BY <2>2, <3>1
  <2>5. Code(source) = \hFE00 + 16 * Level(source)
    BY DEF Code
  <2>6. QED
    BY <2>1, <2>3, <2>4, <2>5
<1>4. QED
  BY <1>1, <1>2, <1>3

\* The source the scan of the bus reports is raised, and none that is raised
\* is more urgent.
LEMMA PendingIsFirst ==
  ASSUME NEW ls, NEW source \in Source, Raised(ls, source)
  PROVE  /\ PendingInterrupt(ls) \in Source
         /\ Raised(ls, PendingInterrupt(ls))
         /\ Level(source) <= Level(PendingInterrupt(ls))
<1> DEFINE First(i) == /\ Raised(ls, SOURCES[i])
                       /\ \A j \in 1..(i - 1) : ~Raised(ls, SOURCES[j])
           first == CHOOSE i \in 1..5 : First(i)
<1>1. /\ SOURCES[1] = "Vip" /\ SOURCES[2] = "Communication"
      /\ SOURCES[3] = "GamePak" /\ SOURCES[4] = "TimerZero"
      /\ SOURCES[5] = "GamePad"
  BY DEF SOURCES
<1>2. source \in {"TimerZero", "GamePad"}
  BY DEF Raised, Device
<1>3. ~Raised(ls, SOURCES[1]) /\ ~Raised(ls, SOURCES[2]) /\ ~Raised(ls, SOURCES[3])
  BY <1>1 DEF Raised, Device
<1>4. CASE Raised(ls, "TimerZero")
  <2>1. First(4)
    BY <1>1, <1>3, <1>4
  <2>2. \A i \in 1..5 : First(i) => i = 4
    BY <1>1, <1>3, <1>4
  <2>3. first = 4
    BY <2>1, <2>2
  <2>4. PendingInterrupt(ls) = "TimerZero"
    BY <1>1, <2>3 DEF PendingInterrupt
  <2>5. QED
    BY <1>2, <1>4, <2>4, SourceTable DEF Level
<1>5. CASE ~Raised(ls, "TimerZero")
  <2>1. source = "GamePad"
    BY <1>2, <1>5
  <2>2. First(5)
    BY <1>1, <1>3, <1>5, <2>1
  <2>3. \A i \in 1..5 : First(i) => i = 5
    BY <1>1, <1>3, <1>5
  <2>4. first = 5
    BY <2>2, <2>3
  <2>5. PendingInterrupt(ls) = "GamePad"
    BY <1>1, <2>4 DEF PendingInterrupt
  <2>6. QED
    BY <2>1, <2>5, SourceTable DEF Level
<1>6. QED
  BY <1>4, <1>5

\* An accepted interrupt is the one the scan reports, and something armed:
\* what can be taken could have been waited for.
LEMMA AcceptedWakes ==
  ASSUME lines \in Lines, InterruptAccepted
  PROVE  /\ PendingInterrupt(lines) \in Source
         /\ ~cpu.psw.np /\ ~cpu.psw.ep /\ ~cpu.psw.id
         /\ cpu.psw.level <= Level(PendingInterrupt(lines))
         /\ CanWake
<1>1. PICK source \in Source : Raised(lines, source)
  BY DEF InterruptAccepted, AnyRaised
<1>2. /\ PendingInterrupt(lines) \in Source
      /\ Raised(lines, PendingInterrupt(lines))
  BY <1>1, PendingIsFirst
<1>3. MayRaise(lines, PendingInterrupt(lines))
  BY <1>2 DEF Raised, MayRaise, Lines
<1>4. AcceptsInterrupt(cpu, Level(PendingInterrupt(lines)))
  BY DEF InterruptAccepted
<1>5. QED
  BY <1>2, <1>3, <1>4 DEF CanWake, AcceptsInterrupt

\* A raised source the gates let through means an interrupt is accepted, one
\* at least as urgent.
LEMMA AcceptableIsAccepted ==
  ASSUME NEW source \in Source, Raised(lines, source), cpu \in CpuState,
         AcceptsInterrupt(cpu, Level(source))
  PROVE  /\ InterruptAccepted
         /\ Code(source) <= Code(PendingInterrupt(lines))
<1>1. /\ PendingInterrupt(lines) \in Source
      /\ Level(source) <= Level(PendingInterrupt(lines))
  BY PendingIsFirst
<1>2. /\ Level(source) \in Int
      /\ Level(PendingInterrupt(lines)) \in Int
      /\ cpu.psw.level \in Int
  BY <1>1, SourceTable DEF CpuState, Psw, MAX_LEVEL
<1>3. AcceptsInterrupt(cpu, Level(PendingInterrupt(lines)))
  BY <1>1, <1>2 DEF AcceptsInterrupt
<1>4. QED
  BY <1>1, <1>2, <1>3 DEF InterruptAccepted, AnyRaised, Code
-----------------------------------------------------------------------------
(* The invariant.  A stopped processor is one nothing can wake, an idling one *)
(* is halted, and the level of the status never falls below what is owed: the *)
(* action properties need these of the state they start in.                   *)

\* Halted for good: whatever is armed, the gates keep it out.
Permanent == Stopped => cpu.halted /\ ~CanWake

IdleHalts == outcome.kind = "idle" => cpu.halted

FloorKept == floor \in Int /\ floor <= cpu.psw.level

Counted == timeless \in Nat /\ TimeDoesNotStandStill

IInv == TypeOK /\ Permanent /\ IdleHalts /\ FloorKept /\ Counted

-----------------------------------------------------------------------------
(* Exception entry.                                                           *)

\* The status of a handler is a status, no lower than the one it interrupts,
\* one bank deeper and closed.
LEMMA HandlerPswTyped ==
  ASSUME NEW psw \in Psw, NEW level \in {NoLevel} \cup 0..4,
         level # NoLevel => psw.level <= level
  PROVE  /\ HandlerPsw(psw, level) \in Psw
         /\ HandlerPsw(psw, level).level >= psw.level
         /\ level # NoLevel => HandlerPsw(psw, level).level = level + 1
         /\ HandlerPsw(psw, level).ep
         /\ HandlerPsw(psw, level).np <=> psw.np \/ psw.ep
<1> DEFINE next == IF level = NoLevel THEN psw.level
                   ELSE IF level < MAX_LEVEL THEN level + 1 ELSE MAX_LEVEL
<1>1. /\ next \in 0..MAX_LEVEL
      /\ next >= psw.level
      /\ level # NoLevel => next = level + 1
  BY DEF Psw, MAX_LEVEL, NoLevel
<1>2. HandlerPsw(psw, level) =
        [psw EXCEPT !.np = psw.np \/ psw.ep, !.ep = TRUE, !.id = TRUE,
                    !.ae = FALSE, !.level = next]
  BY DEF HandlerPsw
<1> HIDE DEF next
<1>3. QED
  BY <1>1, <1>2 DEF Psw

\* The exceptions a step raises.
Exceptions ==
  [code : ExceptionCode, handler : {a \in Address : IsEven(a)}, restore_pc : Address,
   level : {NoLevel} \cup 0..4]

\* The even address below an address is one, and it is itself when even.
LEMMA EvenTyped ==
  ASSUME NEW a \in Address
  PROVE  /\ Even(a) \in Address
         /\ IsEven(Even(a))
         /\ IsEven(a) => Even(a) = a
<1>1. a \in Nat /\ a <= LAST_ADDRESS /\ LAST_ADDRESS \in Nat
  BY AddressBound DEF Address
<1>2. a % 2 \in {0, 1} /\ a = 2 * (a \div 2) + (a % 2) /\ a \div 2 \in Nat
  BY <1>1
<1>3. Even(a) \in Nat /\ Even(a) <= a
  BY <1>1, <1>2 DEF Even
<1>4. Even(a) % 2 = 0
  BY <1>1, <1>2 DEF Even
<1>5. QED
  BY <1>1, <1>3, <1>4 DEF Even, IsEven, Address

\* Every exception code is a halfword.
LEMMA CodesAreAddresses == ExceptionCode \subseteq Address
<1> SUFFICES ASSUME NEW code \in ExceptionCode PROVE code \in Address
  OBVIOUS
<1>1. CASE code \in {Code(source) : source \in Source}
  BY <1>1, SourceTable
<1>2. CASE code \in {EXC_ADDRESS_TRAP, EXC_ILLEGAL_OPCODE, EXC_ZERO_DIVISION}
  BY <1>2, AddressBound
     DEF EXC_ADDRESS_TRAP, EXC_ILLEGAL_OPCODE, EXC_ZERO_DIVISION, Address
<1>3. CASE code \in \hFF60..\hFF74
  BY <1>3, AddressBound DEF Address
<1>4. CASE code \in {EXC_TRAP_BASE + vector : vector \in 0..31}
  BY <1>4, AddressBound DEF EXC_TRAP_BASE, Address
<1>5. QED
  BY <1>1, <1>2, <1>3, <1>4 DEF ExceptionCode

\* What a raise leaves: typed registers, a level that has not fallen, and
\* either one more bank taken or a processor stopped for good.
LEMMA RaiseSound ==
  ASSUME NEW c \in CpuState, IsEven(c.pc), IsEven(c.eipc), IsEven(c.fepc),
         NEW e \in Exceptions, e.level # NoLevel => c.psw.level <= e.level,
         NEW returned \in Outcome, Raise(c, e, returned)
  PROVE  /\ cpu' \in CpuState
         /\ IsEven(cpu'.pc) /\ IsEven(cpu'.eipc) /\ IsEven(cpu'.fepc)
         /\ dump' = dump \/ dump' \in [code : ExceptionCode, psw : Psw, pc : Address]
         /\ outcome' \in Outcome
         /\ cpu'.psw.level >= c.psw.level
         /\ c.psw.np => /\ outcome' = Returned("stop_fatal", e.code, returned.charged)
                        /\ cpu'.halted
                        /\ cpu'.psw = c.psw
         /\ ~c.psw.np => /\ outcome' = returned
                         /\ cpu'.psw.ep
                         /\ c.psw.ep => cpu'.psw.np
                         /\ e.level # NoLevel => cpu'.psw.level = e.level + 1
                         /\ ~c.psw.ep => cpu'.eipc = Even(e.restore_pc)
<1>1. /\ e.code \in ExceptionCode /\ e.code \in Address
      /\ e.handler \in Address /\ IsEven(e.handler)
      /\ e.restore_pc \in Address
      /\ e.level \in {NoLevel} \cup 0..4
  BY CodesAreAddresses DEF Exceptions
<1>2. c.psw \in Psw /\ c.psw.level \in Int
  BY DEF CpuState, Psw, MAX_LEVEL
<1>3. CASE c.psw.np
  <2>1. /\ cpu' = [c EXCEPT !.halted = TRUE]
        /\ dump' = [code |-> e.code, psw |-> c.psw, pc |-> c.pc]
        /\ outcome' = Returned("stop_fatal", e.code, returned.charged)
    BY <1>3 DEF Raise
  <2>2. cpu' \in CpuState /\ cpu'.pc = c.pc /\ cpu'.eipc = c.eipc
        /\ cpu'.fepc = c.fepc /\ cpu'.psw = c.psw /\ cpu'.halted
    BY <2>1 DEF CpuState
  <2>3. outcome' \in Outcome
    BY <1>1, <2>1 DEF Outcome, Returned
  <2>4. dump' \in [code : ExceptionCode, psw : Psw, pc : Address]
    BY <1>1, <1>2, <2>1 DEF CpuState
  <2>5. QED
    BY <1>2, <1>3, <2>1, <2>2, <2>3, <2>4
<1>4. CASE ~c.psw.np
  <2> DEFINE psw == HandlerPsw(c.psw, e.level)
             woken == Woken(c, e)
  <2>1. cpu' = Entered(c, e) /\ outcome' = returned /\ dump' = dump
    BY <1>4 DEF Raise
  <2>2. /\ psw \in Psw
        /\ psw.level >= c.psw.level
        /\ e.level # NoLevel => psw.level = e.level + 1
        /\ psw.ep
        /\ c.psw.ep => psw.np
    BY <1>1, <1>2, HandlerPswTyped
  <2>3. Even(e.restore_pc) \in Address /\ IsEven(Even(e.restore_pc))
    BY <1>1, EvenTyped
  <2>4. woken \in BOOLEAN
    BY DEF Woken, CpuState
  <2>5. HANDLER_DUPLEXED \in Address /\ IsEven(HANDLER_DUPLEXED)
    BY AddressBound DEF HANDLER_DUPLEXED, Address, IsEven
  <2> HIDE DEF psw, woken
  <2>6. CASE c.psw.ep
    <3>1. cpu' = [c EXCEPT !.fecc = e.code, !.fepsw = c.psw,
                           !.fepc = Even(e.restore_pc), !.psw = psw,
                           !.pc = HANDLER_DUPLEXED, !.halted = woken]
      BY <2>1, <2>6 DEF Entered, psw, woken
    <3>2. QED
      BY <1>1, <1>2, <1>4, <2>1, <2>2, <2>3, <2>4, <2>5, <2>6, <3>1, ZenonT(30) DEF CpuState
  <2>7. CASE ~c.psw.ep
    <3>1. cpu' = [c EXCEPT !.eicc = e.code, !.eipsw = c.psw,
                           !.eipc = Even(e.restore_pc), !.psw = psw,
                           !.pc = e.handler, !.halted = woken]
      BY <2>1, <2>7 DEF Entered, psw, woken
    <3>2. QED
      BY <1>1, <1>2, <1>4, <2>1, <2>2, <2>3, <2>4, <2>7, <3>1 DEF CpuState
  <2>8. QED
    BY <2>6, <2>7
<1>5. QED
  BY <1>3, <1>4
-----------------------------------------------------------------------------
(* One call of step, as the three things it may be for the history and the    *)
(* action properties: an interrupt, a wait of the halted processor, or a run  *)
(* of the processor up to an instruction or an exception.                     *)

Taken ==
  \E source \in Source :
    /\ InterruptAccepted
    /\ source = PendingInterrupt(lines)
    /\ ~cpu.psw.np /\ ~cpu.psw.ep
    /\ cpu.psw.level <= Level(source)
    /\ outcome' = Returned("interrupt", Code(source), FALSE)
    /\ cpu'.psw.ep
    /\ cpu'.psw.level = Level(source) + 1
    /\ cpu'.eipc = cpu.pc

Waited ==
  /\ Waits
  /\ UNCHANGED <<cpu, lines>>
  /\ \/ ~CanWake /\ outcome' = Returned("stop_halted", NoCode, FALSE)
     \/ CanWake /\ outcome' = Returned("idle", NoCode, TRUE)

Ran ==
  /\ Runs
  /\ \/ outcome'.charged /\ outcome'.kind \in {"executed", "stop_fatal"}
     \/ /\ outcome'.kind = "exception" /\ ~cpu.psw.np
        /\ cpu'.psw.ep /\ (cpu.psw.ep => cpu'.psw.np)
     \/ ~outcome'.charged /\ outcome'.kind = "stop_fatal" /\ cpu'.psw = cpu.psw
  /\ outcome'.kind = "stop_fatal" => cpu'.halted /\ cpu'.psw.np

Control == TypeOK /\ Permanent /\ IdleHalts

\* A processor the gates of which NP shuts is woken by nothing.
LEMMA NpShutsTheGates == cpu.psw.np => ~CanWake
  BY DEF CanWake, AcceptsInterrupt

\* An instruction that raises nothing runs, whatever registers it leaves.
LEMMA ContinuesSound ==
  ASSUME TypeOK, Fetches, NEW c \in CpuState,
         IsEven(c.pc), IsEven(c.eipc), IsEven(c.fepc),
         Continues(c), lines' \in Lines
  PROVE  Control' /\ Ran
<1>1. outcome' \in Outcome /\ outcome'.kind = "executed" /\ outcome'.charged
  BY DEF Continues, Executed, Returned, Outcome
<1>2. cpu' = c /\ dump' = dump
  BY DEF Continues
<1>3. TypeOK'
  BY <1>1, <1>2 DEF TypeOK
<1>4. QED
  BY <1>1, <1>3 DEF Control, Permanent, Stopped, IdleHalts, Ran, Fetches

\* An exception of the running processor runs too, entered or fatal.
LEMMA RaiseRuns ==
  ASSUME TypeOK, Runs, NEW c \in CpuState, c.psw = cpu.psw,
         IsEven(c.pc), IsEven(c.eipc), IsEven(c.fepc),
         NEW e \in Exceptions, e.level = NoLevel,
         NEW returned \in {Executed, Returned("exception", e.code, FALSE)},
         Raise(c, e, returned), UNCHANGED lines
  PROVE  Control' /\ Ran
<1>1. /\ returned \in Outcome
      /\ \/ returned.kind = "executed" /\ returned.charged
         \/ returned.kind = "exception" /\ ~returned.charged
  <2>1. CASE returned = Executed
    BY <2>1 DEF Executed, Returned, Outcome
  <2>2. CASE returned = Returned("exception", e.code, FALSE)
    <3>1. e.code \in ExceptionCode
      BY DEF Exceptions
    <3>2. QED
      BY <2>2, <3>1 DEF Returned, Outcome
  <2>3. QED
    BY <2>1, <2>2
<1>2. /\ cpu' \in CpuState
      /\ IsEven(cpu'.pc) /\ IsEven(cpu'.eipc) /\ IsEven(cpu'.fepc)
      /\ dump' = dump \/ dump' \in [code : ExceptionCode, psw : Psw, pc : Address]
      /\ outcome' \in Outcome
      /\ c.psw.np => /\ outcome' = Returned("stop_fatal", e.code, returned.charged)
                     /\ cpu'.halted
                     /\ cpu'.psw = c.psw
      /\ ~c.psw.np => /\ outcome' = returned
                      /\ cpu'.psw.ep
                      /\ c.psw.ep => cpu'.psw.np
  BY <1>1, RaiseSound
<1>3. TypeOK'
  BY <1>2 DEF TypeOK
<1>4. CASE c.psw.np
  <2>1. /\ outcome'.kind = "stop_fatal"
        /\ outcome'.charged = returned.charged
        /\ cpu'.halted /\ cpu'.psw.np /\ cpu'.psw = cpu.psw
    BY <1>2, <1>4 DEF Returned
  <2>2. ~CanWake'
    BY <2>1 DEF CanWake, AcceptsInterrupt
  <2>3. QED
    BY <1>1, <1>3, <2>1, <2>2 DEF Control, Permanent, IdleHalts, Ran
<1>5. CASE ~c.psw.np
  BY <1>1, <1>2, <1>3, <1>5 DEF Control, Permanent, Stopped, IdleHalts, Ran
<1>6. QED
  BY <1>4, <1>5

\* An interrupt finds a bank free: entering one is never fatal.
LEMMA InterruptTaken ==
  ASSUME TypeOK, TakeInterrupt
  PROVE  Control' /\ Taken
<1> DEFINE source == PendingInterrupt(lines)
           e == Exception(Code(source), Code(source), cpu.pc, Level(source))
           returned == Returned("interrupt", Code(source), FALSE)
<1>1. /\ source \in Source
      /\ ~cpu.psw.np /\ ~cpu.psw.ep
      /\ cpu.psw.level <= Level(source)
  BY AcceptedWakes DEF TakeInterrupt, TypeOK
<1>2. /\ Code(source) \in ExceptionCode /\ Code(source) \in Address
      /\ IsEven(Code(source)) /\ Level(source) \in 0..4
  BY <1>1, SourceTable
<1>3. Raise(cpu, e, returned) /\ UNCHANGED lines /\ InterruptAccepted
  BY DEF TakeInterrupt
<1>4. /\ cpu \in CpuState /\ cpu.pc \in Address
      /\ IsEven(cpu.pc) /\ IsEven(cpu.eipc) /\ IsEven(cpu.fepc)
  BY DEF TypeOK, CpuState
<1>5. /\ e \in Exceptions
      /\ e.level = Level(source) /\ e.level # NoLevel
      /\ e.restore_pc = cpu.pc
  BY <1>2, <1>4 DEF Exception, Exceptions, NoLevel
<1>6. returned \in Outcome /\ returned.kind = "interrupt"
  BY <1>2 DEF Returned, Outcome
<1> HIDE DEF source, e, returned
<1>7. /\ cpu' \in CpuState
      /\ IsEven(cpu'.pc) /\ IsEven(cpu'.eipc) /\ IsEven(cpu'.fepc)
      /\ dump' = dump \/ dump' \in [code : ExceptionCode, psw : Psw, pc : Address]
      /\ outcome' = returned
      /\ cpu'.psw.ep
      /\ cpu'.psw.level = Level(source) + 1
      /\ cpu'.eipc = Even(cpu.pc)
  BY <1>1, <1>3, <1>4, <1>5, <1>6, RaiseSound
<1>8. cpu'.eipc = cpu.pc
  BY <1>4, <1>7, EvenTyped
<1>9. TypeOK'
  BY <1>3, <1>6, <1>7 DEF TypeOK
<1>10. Control'
  BY <1>6, <1>7, <1>9 DEF Control, Permanent, Stopped, IdleHalts
<1>11. Taken
  BY <1>1, <1>3, <1>7, <1>8 DEF Taken, source, returned
<1>12. QED
  BY <1>10, <1>11
\* Moving pc to an address of the program changes no other register.
LEMMA AtTyped ==
  ASSUME TypeOK, NEW next_pc \in Program
  PROVE  /\ At(next_pc) \in CpuState
         /\ At(next_pc).psw = cpu.psw
         /\ At(next_pc).pc = next_pc /\ IsEven(next_pc) /\ next_pc \in Address
         /\ At(next_pc).eipc = cpu.eipc /\ At(next_pc).fepc = cpu.fepc
         /\ At(next_pc).eipsw = cpu.eipsw /\ At(next_pc).fepsw = cpu.fepsw
         /\ At(next_pc).eicc = cpu.eicc /\ At(next_pc).fecc = cpu.fecc
<1>1. next_pc \in Address /\ IsEven(next_pc)
  BY CpuAssumption
<1>2. QED
  BY <1>1 DEF TypeOK, CpuState, At

\* The handlers of those exceptions.
LEMMA HandlersTyped ==
  ASSUME NEW handler \in {EXC_ADDRESS_TRAP, EXC_ILLEGAL_OPCODE, EXC_ZERO_DIVISION,
                          EXC_TRAP_BASE, HANDLER_TRAP_HIGH, HANDLER_FP}
  PROVE  handler \in Address /\ IsEven(handler)
<1>1. handler \in {65472, 65424, 65408, 65440, 65456, 65376}
  BY DEF EXC_ADDRESS_TRAP, EXC_ILLEGAL_OPCODE, EXC_ZERO_DIVISION,
         EXC_TRAP_BASE, HANDLER_TRAP_HIGH, HANDLER_FP
<1>2. QED
  BY <1>1, AddressBound DEF Address, IsEven

\* The exceptions a running processor raises: the address trap, an illegal
\* opcode, a fault of execution, a trap instruction.
LEMMA RaisesSound ==
  ASSUME TypeOK, AddressTrap \/ IllegalOpcode
                   \/ (\E next_pc \in Program :
                         \/ \E code \in FaultCodes : Fault(code, next_pc)
                         \/ \E vector \in Vectors : Trap(vector, next_pc))
  PROVE  Control' /\ Ran
<1>1. /\ cpu \in CpuState /\ cpu.pc \in Address
      /\ IsEven(cpu.pc) /\ IsEven(cpu.eipc) /\ IsEven(cpu.fepc)
  BY DEF TypeOK, CpuState
<1>2. ASSUME NEW code \in {EXC_ADDRESS_TRAP, EXC_ILLEGAL_OPCODE}, Runs,
             Raise(cpu, Exception(code, code, cpu.pc, NoLevel),
                   Returned("exception", code, FALSE)),
             UNCHANGED lines
      PROVE  Control' /\ Ran
  <2> DEFINE e == Exception(code, code, cpu.pc, NoLevel)
  <2>1. code \in ExceptionCode /\ code \in Address /\ IsEven(code)
    BY HandlersTyped DEF ExceptionCode
  <2>2. e \in Exceptions /\ e.level = NoLevel /\ e.code = code
    BY <1>1, <2>1 DEF Exception, Exceptions
  <2> HIDE DEF e
  <2>3. QED
    BY <1>1, <1>2, <2>2, RaiseRuns DEF e
<1>3. ASSUME AddressTrap PROVE Control' /\ Ran
  BY <1>2, <1>3 DEF AddressTrap
<1>4. ASSUME IllegalOpcode PROVE Control' /\ Ran
  BY <1>2, <1>4 DEF IllegalOpcode, Fetches
<1>5. ASSUME NEW next_pc \in Program, NEW e \in Exceptions, e.level = NoLevel, Runs,
             Raise(At(next_pc), e, Executed), UNCHANGED lines
      PROVE  Control' /\ Ran
  BY <1>1, <1>5, AtTyped, RaiseRuns
<1>6. ASSUME NEW next_pc \in Program, NEW code \in FaultCodes, Fault(code, next_pc)
      PROVE  Control' /\ Ran
  <2> DEFINE handler == IF code = EXC_ZERO_DIVISION THEN code ELSE HANDLER_FP
             e == Exception(code, handler, cpu.pc, NoLevel)
  <2>1. code \in ExceptionCode
    BY CpuAssumption DEF ExceptionCode
  <2>2. handler \in Address /\ IsEven(handler)
    BY HandlersTyped
  <2>3. e \in Exceptions /\ e.level = NoLevel
    BY <1>1, <2>1, <2>2 DEF Exception, Exceptions
  <2>4. QED
    BY <1>5, <1>6, <2>3 DEF Fault, Executes, Fetches
<1>7. ASSUME NEW next_pc \in Program, NEW vector \in Vectors, Trap(vector, next_pc)
      PROVE  Control' /\ Ran
  <2> DEFINE code == EXC_TRAP_BASE + vector
             handler == IF vector < 16 THEN EXC_TRAP_BASE ELSE HANDLER_TRAP_HIGH
             e == Exception(code, handler, next_pc, NoLevel)
  <2>1. code \in ExceptionCode
    BY CpuAssumption DEF ExceptionCode
  <2>2. handler \in Address /\ IsEven(handler)
    BY HandlersTyped
  <2>3. next_pc \in Address
    BY AtTyped
  <2>4. e \in Exceptions /\ e.level = NoLevel
    BY <2>1, <2>2, <2>3 DEF Exception, Exceptions
  <2>5. QED
    BY <1>5, <1>7, <2>4 DEF Trap, Executes, Fetches
<1>8. QED
  BY <1>3, <1>4, <1>6, <1>7

\* An instruction that reads or writes status: whatever software may write.
LEMMA StatusSound ==
  ASSUME TypeOK, NEW next_pc \in Program,
         \/ \E id \in BOOLEAN : SetInterruptDisable(next_pc, id)
         \/ \E value \in Words : LdsrAddress(next_pc, value)
         \/ \E value \in PswWrites : LdsrPsw(next_pc, value) \/ LdsrSavedPsw(next_pc, value)
  PROVE  Control' /\ Ran
<1> DEFINE c == At(next_pc)
<1>1. /\ c \in CpuState
      /\ IsEven(c.pc) /\ IsEven(c.eipc) /\ IsEven(c.fepc)
      /\ lines \in Lines
  BY AtTyped DEF TypeOK
<1> HIDE DEF c
<1>2. ASSUME NEW id \in BOOLEAN, SetInterruptDisable(next_pc, id)
      PROVE  Control' /\ Ran
  <2> DEFINE d == [c EXCEPT !.psw.id = id]
  <2>1. /\ d \in CpuState
        /\ d.pc = c.pc /\ d.eipc = c.eipc /\ d.fepc = c.fepc
    BY <1>1 DEF CpuState, Psw
  <2>2. Fetches /\ Continues(d) /\ UNCHANGED lines
    BY <1>2 DEF SetInterruptDisable, Executes, c
  <2> HIDE DEF d
  <2>3. QED
    BY <1>1, <2>1, <2>2, ContinuesSound
<1>3. ASSUME NEW value \in Words, LdsrAddress(next_pc, value)
      PROVE  Control' /\ Ran
  <2>1. value \in Address /\ Even(value) \in Address /\ IsEven(Even(value))
    BY CpuAssumption, EvenTyped
  <2>2. ASSUME NEW d \in {[c EXCEPT !.eipc = Even(value)],
                          [c EXCEPT !.fepc = Even(value)], [c EXCEPT !.adtre = value]}
        PROVE  d \in CpuState /\ IsEven(d.pc) /\ IsEven(d.eipc) /\ IsEven(d.fepc)
    BY <1>1, <2>1 DEF CpuState
  <2>3. PICK d \in {[c EXCEPT !.eipc = Even(value)],
                    [c EXCEPT !.fepc = Even(value)], [c EXCEPT !.adtre = value]} :
          Continues(d)
    BY <1>3 DEF LdsrAddress, c
  <2>4. Fetches /\ UNCHANGED lines
    BY <1>3 DEF LdsrAddress, Executes
  <2>5. QED
    BY <1>1, <2>2, <2>3, <2>4, ContinuesSound
<1>4. ASSUME NEW value \in PswWrites,
             LdsrPsw(next_pc, value) \/ LdsrSavedPsw(next_pc, value)
      PROVE  Control' /\ Ran
  <2>1. value \in Psw
    BY CpuAssumption
  <2>2. ASSUME NEW d \in {[c EXCEPT !.psw = value], [c EXCEPT !.eipsw = value],
                          [c EXCEPT !.fepsw = value]}
        PROVE  d \in CpuState /\ IsEven(d.pc) /\ IsEven(d.eipc) /\ IsEven(d.fepc)
    BY <1>1, <2>1 DEF CpuState
  <2>3. PICK d \in {[c EXCEPT !.psw = value], [c EXCEPT !.eipsw = value],
                    [c EXCEPT !.fepsw = value]} : Continues(d)
    BY <1>4 DEF LdsrPsw, LdsrSavedPsw, c
  <2>4. Fetches /\ UNCHANGED lines
    BY <1>4 DEF LdsrPsw, LdsrSavedPsw, Executes
  <2>5. QED
    BY <1>1, <2>2, <2>3, <2>4, ContinuesSound
<1>5. QED
  BY <1>2, <1>3, <1>4
\* Every call of step is one of the three, and keeps the control invariant.
LEMMA StepSound ==
  ASSUME TypeOK, Step
  PROVE  Control' /\ (Taken \/ Waited \/ Ran)
<1>0. /\ cpu \in CpuState /\ lines \in Lines
      /\ IsEven(cpu.pc) /\ IsEven(cpu.eipc) /\ IsEven(cpu.fepc)
  BY DEF TypeOK
<1>1. CASE TakeInterrupt
  BY <1>1, InterruptTaken
<1>2. CASE StopHalted
  <2>1. outcome' \in Outcome
    BY <1>2 DEF StopHalted, Returned, Outcome
  <2>2. TypeOK'
    BY <1>2, <2>1 DEF StopHalted, TypeOK
  <2>3. CanWake' <=> CanWake
    BY <1>2 DEF StopHalted, CanWake
  <2>4. outcome'.kind = "stop_halted"
    BY <1>2 DEF StopHalted, Returned
  <2>5. QED
    BY <1>2, <2>2, <2>3, <2>4
       DEF StopHalted, Waits, Control, Permanent, IdleHalts, Waited
<1>3. CASE Idle
  <2>1. outcome' \in Outcome
    BY <1>3 DEF Idle, Returned, Outcome
  <2>2. TypeOK'
    BY <1>3, <2>1 DEF Idle, TypeOK
  <2>3. outcome'.kind = "idle"
    BY <1>3 DEF Idle, Returned
  <2>4. QED
    BY <1>3, <2>2, <2>3
       DEF Idle, Waits, Control, Permanent, Stopped, IdleHalts, Waited
<1>4. CASE AddressTrap \/ IllegalOpcode
  BY <1>4, RaisesSound
<1>5. CASE BitStringPass
  BY <1>0, <1>5, ContinuesSound DEF BitStringPass
<1>6. CASE Reti
  <2>1. /\ Returning(cpu) \in CpuState
        /\ IsEven(Returning(cpu).pc)
        /\ IsEven(Returning(cpu).eipc) /\ IsEven(Returning(cpu).fepc)
    BY <1>0 DEF Returning, CpuState
  <2>2. QED
    BY <1>0, <1>6, <2>1, ContinuesSound DEF Reti
<1>7. ASSUME NEW next_pc \in Program,
             Plain(next_pc) \/ StoreToDevice(next_pc) \/ Halt(next_pc)
      PROVE  Control' /\ Ran
  <2> DEFINE c == At(next_pc)
  <2>1. /\ c \in CpuState
        /\ IsEven(c.pc) /\ IsEven(c.eipc) /\ IsEven(c.fepc)
    BY <1>0, AtTyped
  <2> HIDE DEF c
  <2>2. /\ [c EXCEPT !.halted = TRUE] \in CpuState
        /\ [c EXCEPT !.halted = TRUE].pc = c.pc
        /\ [c EXCEPT !.halted = TRUE].eipc = c.eipc
        /\ [c EXCEPT !.halted = TRUE].fepc = c.fepc
    BY <2>1 DEF CpuState
  <2>3. Fetches /\ lines' \in Lines
    BY <1>0, <1>7 DEF Plain, StoreToDevice, Halt, Executes
  <2>4. Continues(c) \/ Continues([c EXCEPT !.halted = TRUE])
    BY <1>7 DEF Plain, StoreToDevice, Halt, c
  <2>5. QED
    BY <2>1, <2>2, <2>3, <2>4, ContinuesSound
<1>8. ASSUME NEW next_pc \in Program,
             \/ \E code \in FaultCodes : Fault(code, next_pc)
             \/ \E vector \in Vectors : Trap(vector, next_pc)
      PROVE  Control' /\ Ran
  BY <1>8, RaisesSound
<1>9. ASSUME NEW next_pc \in Program,
             \/ \E id \in BOOLEAN : SetInterruptDisable(next_pc, id)
             \/ \E value \in Words : LdsrAddress(next_pc, value)
             \/ \E value \in PswWrites :
                  LdsrPsw(next_pc, value) \/ LdsrSavedPsw(next_pc, value)
      PROVE  Control' /\ Ran
  BY <1>9, StatusSound
<1>10. QED
  BY <1>1, <1>2, <1>3, <1>4, <1>5, <1>6, <1>7, <1>8, <1>9 DEF Step

\* Time arms nothing, so nothing wakes a processor it could not wake before.
LEMMA ElapseSound ==
  ASSUME Control, Elapse
  PROVE  Control' /\ UNCHANGED <<cpu, outcome>>
<1>1. /\ lines' \in Lines
      /\ \A d \in Device : lines'[d].armed => lines[d].armed
      /\ UNCHANGED <<cpu, dump, outcome>>
  BY DEF Elapse, Spent
<1>2. TypeOK'
  BY <1>1 DEF Control, TypeOK
<1>3. CanWake' => CanWake
  BY <1>1 DEF CanWake, MayRaise
<1>4. QED
  BY <1>1, <1>2, <1>3 DEF Control, Permanent, Stopped, IdleHalts

-----------------------------------------------------------------------------
(* The invariant is inductive.                                                *)

\* The processor after a reset.
LEMMA ResetSound == Init => Control /\ cpu.psw.level = 0
<1> SUFFICES ASSUME Init PROVE Control /\ cpu.psw.level = 0
  OBVIOUS
<1> DEFINE reset == [Clear EXCEPT !.np = TRUE]
<1>1. Clear \in Psw /\ reset \in Psw /\ reset.level = 0
  <2>1. Clear \in Psw /\ Clear.level = 0
    BY DEF Clear, Psw, MAX_LEVEL
  <2>2. QED
    BY <2>1 DEF Psw
<1> HIDE DEF reset
<1>2. /\ RESET_PC \in Address /\ IsEven(RESET_PC)
      /\ 0 \in Address /\ IsEven(0) /\ \hFFF0 \in Address
  BY AddressBound DEF RESET_PC, Address, IsEven
<1>3. /\ cpu \in CpuState /\ cpu.psw.level = 0
      /\ IsEven(cpu.pc) /\ IsEven(cpu.eipc) /\ IsEven(cpu.fepc)
  <2>1. cpu = [pc |-> RESET_PC, psw |-> reset, eipc |-> 0, eipsw |-> Clear,
               fepc |-> 0, fepsw |-> Clear, eicc |-> \hFFF0, fecc |-> 0,
               adtre |-> 0, halted |-> FALSE]
    BY DEF Init, NewCpu, NoCode, reset
  <2>2. QED
    BY <1>1, <1>2, <2>1 DEF CpuState
<1>4. lines \in Lines
  BY DEF Init, Lines, Line
<1>5. dump \in [code : ExceptionCode \cup {NoCode}, psw : Psw, pc : Address]
  BY <1>1, <1>2 DEF Init, NoDump
<1>6. outcome \in Outcome /\ outcome.kind = "none"
  BY DEF Init, Returned, Outcome
<1>7. QED
  BY <1>3, <1>4, <1>5, <1>6
     DEF Control, TypeOK, Permanent, Stopped, IdleHalts

\* The history starts with nothing counted and nothing owed.
LEMMA InitSound == HistoryInit => IInv
  BY ResetSound DEF HistoryInit, IInv, Control, TypeOK, CpuState, Psw, MAX_LEVEL,
                    FloorKept, Counted, TimeDoesNotStandStill

\* What the history variables count survives each of the three.
LEMMA HistorySound ==
  ASSUME IInv, HistoryStep
  PROVE  IInv'
<1>1. Control' /\ (Taken \/ Waited \/ Ran)
  BY StepSound DEF HistoryStep, IInv
<1>2. cpu.psw.level \in Int /\ cpu'.psw.level \in Int
  BY <1>1 DEF IInv, Control, TypeOK, CpuState, Psw, MAX_LEVEL
<1>3. CASE Taken
  <2>1. PICK source \in Source :
          /\ ~cpu.psw.ep /\ ~cpu.psw.np
          /\ outcome' = Returned("interrupt", Code(source), FALSE)
          /\ cpu'.psw.ep /\ cpu'.psw.level = Level(source) + 1
    BY <1>3 DEF Taken
  <2>2. /\ outcome'.kind = "interrupt" /\ outcome'.code = Code(source)
        /\ ~outcome'.charged
    BY <2>1 DEF Returned
  <2>3. floor' = Level(source) + 1
    <3>1. Level(source) \in 0..4 /\ Code(source) = \hFE00 + 16 * Level(source)
      BY SourceTable
    <3>2. (Code(source) - \hFE00) \div 16 = Level(source)
      BY <3>1
    <3>3. QED
      BY <2>2, <3>2 DEF HistoryStep
  <2>4. timeless' = 1
    <3>1. timeless = 0
      BY <2>1 DEF IInv, Counted, TimeDoesNotStandStill
    <3>2. QED
      BY <2>2, <3>1 DEF HistoryStep
  <2>5. FloorKept'
    BY <1>2, <2>1, <2>3 DEF FloorKept
  <2>6. QED
    BY <1>1, <2>1, <2>4, <2>5
       DEF IInv, Control, Counted, TimeDoesNotStandStill
<1>4. CASE Waited \/ Ran
  <2>1. outcome'.kind # "interrupt"
    BY <1>4 DEF Waited, Ran, Returned
  <2>2. FloorKept'
    <3>1. floor' = IF cpu'.psw.level < cpu.psw.level /\ cpu'.psw.level < floor
                     THEN cpu'.psw.level ELSE floor
      BY <2>1 DEF HistoryStep
    <3>2. QED
      BY <1>2, <3>1 DEF IInv, FloorKept
  <2>3. Counted'
    <3>1. CASE outcome'.charged
      BY <3>1 DEF HistoryStep, Counted, TimeDoesNotStandStill
    <3>2. CASE /\ ~outcome'.charged /\ outcome'.kind = "exception"
               /\ ~cpu.psw.np /\ cpu'.psw.ep /\ (cpu.psw.ep => cpu'.psw.np)
      BY <3>2 DEF HistoryStep, IInv, Counted, TimeDoesNotStandStill
    <3>3. CASE /\ ~outcome'.charged /\ outcome'.kind \in {"stop_fatal", "stop_halted"}
               /\ cpu'.psw = cpu.psw
      BY <3>3 DEF HistoryStep, IInv, Counted, TimeDoesNotStandStill
    <3>4. QED
      BY <1>4, <3>1, <3>2, <3>3 DEF Waited, Ran, Returned
  <2>4. QED
    BY <1>1, <2>2, <2>3 DEF IInv, Control
<1>5. QED
  BY <1>1, <1>3, <1>4

LEMMA Inductive == IInv /\ [HistoryNext]_historyVars => IInv'
<1> SUFFICES ASSUME IInv, [HistoryNext]_historyVars PROVE IInv'
  OBVIOUS
<1>1. CASE HistoryStep
  BY <1>1, HistorySound
<1>2. CASE Elapse /\ UNCHANGED <<timeless, floor>>
  BY <1>2, ElapseSound
     DEF IInv, Control, FloorKept, Counted, TimeDoesNotStandStill
<1>3. CASE UNCHANGED historyVars
  BY <1>3 DEF historyVars, IInv, TypeOK, Permanent, Stopped, IdleHalts, CanWake,
              FloorKept, Counted, TimeDoesNotStandStill
<1>4. QED
  BY <1>1, <1>2, <1>3 DEF HistoryNext

LEMMA Invariant == HistorySpec => []IInv
  BY InitSound, Inductive, PTL DEF HistorySpec

\* Without the history: the control of the processor is inductive by itself.
LEMMA ControlInductive == Control /\ [Next]_vars => Control'
<1> SUFFICES ASSUME Control, [Next]_vars PROVE Control'
  OBVIOUS
<1>1. CASE Step
  BY <1>1, StepSound DEF Control
<1>2. CASE Elapse
  BY <1>2, ElapseSound
<1>3. CASE UNCHANGED vars
  BY <1>3 DEF vars, Control, TypeOK, Permanent, Stopped, IdleHalts, CanWake
<1>4. QED
  BY <1>1, <1>2, <1>3 DEF Next

LEMMA ControlInvariant == Spec => []Control
<1>1. Init => Control
  BY ResetSound
<1>2. QED
  BY <1>1, ControlInductive, PTL DEF Spec

-----------------------------------------------------------------------------
(* The theorems.                                                              *)

\* Registers keep their ranges and every program counter, current or saved,
\* stays even, whatever software writes and whatever is raised.
THEOREM TypeCorrect == Spec => []TypeOK
<1>1. Control => TypeOK
  BY DEF Control
<1>2. QED
  BY <1>1, ControlInvariant, PTL

\* At most two exception entries in a row pass without a cycle.
THEOREM TimeMoves == HistorySpec => []TimeDoesNotStandStill
<1>1. IInv => TimeDoesNotStandStill
  BY DEF IInv, Counted
<1>2. QED
  BY <1>1, Invariant, PTL

\* A processor that step has reported as stopped never runs again.
THEOREM StopsForGood == Spec => StopIsPermanent
<1>1. ASSUME Control, [Next]_vars
      PROVE  [Stopped => outcome'.kind = outcome.kind
                           \/ outcome'.kind = "stop_halted"]_vars
  <2>1. CASE Step
    <3>1. Taken \/ Waited \/ Ran
      BY <1>1, <2>1, StepSound DEF Control
    <3>2. CASE Stopped
      <4>1. cpu.halted /\ ~CanWake
        BY <1>1, <3>2 DEF Control, Permanent
      <4>2. ~InterruptAccepted
        BY <1>1, <4>1, AcceptedWakes DEF Control, TypeOK
      <4>3. Waited /\ outcome' = Returned("stop_halted", NoCode, FALSE)
        BY <3>1, <4>1, <4>2 DEF Taken, Ran, Runs, Waited
      <4>4. QED
        BY <4>3 DEF Returned
    <3>3. QED
      BY <3>2
  <2>2. CASE Elapse
    BY <2>2 DEF Elapse
  <2>3. CASE UNCHANGED vars
    BY <2>3 DEF vars
  <2>4. QED
    BY <1>1, <2>1, <2>2, <2>3 DEF Next
<1>2. QED
  BY <1>1, ControlInvariant, PTL DEF Spec, StopIsPermanent

\* A source the gates let through is taken at once, or one as urgent is.
THEOREM InterruptsAreTaken == Spec => NoAcceptableInterruptWaits
<1>1. ASSUME Control, [Next]_vars
      PROVE  [\A source \in Source :
                Raised(lines, source) /\ AcceptsInterrupt(cpu, Level(source))
                  => \/ UNCHANGED <<cpu, outcome>>
                     \/ outcome'.kind = "interrupt"
                          /\ outcome'.code >= Code(source)]_vars
  <2>1. CASE Step
    <3> SUFFICES ASSUME NEW source \in Source, Raised(lines, source),
                        AcceptsInterrupt(cpu, Level(source))
                 PROVE  outcome'.kind = "interrupt" /\ outcome'.code >= Code(source)
      OBVIOUS
    <3>1. Taken \/ Waited \/ Ran
      BY <1>1, <2>1, StepSound DEF Control
    <3>2. InterruptAccepted /\ Code(source) <= Code(PendingInterrupt(lines))
      BY <1>1, AcceptableIsAccepted DEF Control, TypeOK
    <3>3. Taken
      BY <3>1, <3>2 DEF Waited, Waits, Ran, Runs
    <3>4. outcome' = Returned("interrupt", Code(PendingInterrupt(lines)), FALSE)
      BY <3>3 DEF Taken
    <3>5. PendingInterrupt(lines) \in Source
      BY <3>3 DEF Taken
    <3>6. Code(source) \in Int /\ Code(PendingInterrupt(lines)) \in Int
      <4>1. /\ Level(source) \in Int
            /\ Level(PendingInterrupt(lines)) \in Int
        BY <3>5, SourceTable
      <4>2. QED
        BY <4>1 DEF Code
    <3>7. QED
      BY <3>2, <3>4, <3>6 DEF Returned
  <2>2. CASE Elapse
    BY <2>2 DEF Elapse
  <2>3. CASE UNCHANGED vars
    BY <2>3 DEF vars
  <2>4. QED
    BY <1>1, <2>1, <2>2, <2>3 DEF Next
<1>2. QED
  BY <1>1, ControlInvariant, PTL DEF Spec, NoAcceptableInterruptWaits

\* An idling processor changes in no way but by the interrupt that ends it,
\* and that one saves the address it idled at.
THEOREM IdlingIsFrozen == Spec => IdleIsFrozen
<1>1. ASSUME Control, [Next]_vars
      PROVE  [outcome.kind = "idle" =>
                UNCHANGED cpu \/ (outcome'.kind = "interrupt" /\ cpu'.eipc = cpu.pc)]_vars
  <2>1. CASE Step
    <3>1. Taken \/ Waited \/ Ran
      BY <1>1, <2>1, StepSound DEF Control
    <3>2. outcome.kind = "idle" => ~Ran
      BY <1>1 DEF Control, IdleHalts, Ran, Runs
    <3>3. Taken => outcome'.kind = "interrupt" /\ cpu'.eipc = cpu.pc
      BY DEF Taken, Returned
    <3>4. QED
      BY <3>1, <3>2, <3>3 DEF Waited
  <2>2. CASE Elapse
    BY <2>2 DEF Elapse
  <2>3. CASE UNCHANGED vars
    BY <2>3 DEF vars
  <2>4. QED
    BY <1>1, <2>1, <2>2, <2>3 DEF Next
<1>2. QED
  BY <1>1, ControlInvariant, PTL DEF Spec, IdleIsFrozen

\* An interrupt taken owes the handler and what it calls silence up to its own
\* level, however software opens and shuts the other gates.
THEOREM SilenceIsKept == HistorySpec => OwedSilence
<1>1. ASSUME IInv, [HistoryNext]_historyVars
      PROVE  [outcome'.kind = "interrupt" /\ outcome' # outcome
                => outcome'.code >= \hFE00 + 16 * floor]_historyVars
  <2>1. CASE HistoryStep
    <3>1. Taken \/ Waited \/ Ran
      BY <1>1, <2>1, StepSound DEF IInv, HistoryStep
    <3>2. outcome'.kind = "interrupt" => Taken
      BY <3>1 DEF Waited, Ran, Returned
    <3>3. ASSUME Taken
          PROVE  outcome'.code >= \hFE00 + 16 * floor
      <4>1. PICK source \in Source :
              /\ cpu.psw.level <= Level(source)
              /\ outcome' = Returned("interrupt", Code(source), FALSE)
        BY <3>3 DEF Taken
      <4>2. Level(source) \in Int /\ Code(source) = \hFE00 + 16 * Level(source)
        BY SourceTable
      <4>3. floor \in Int /\ floor <= cpu.psw.level /\ cpu.psw.level \in Int
        BY <1>1 DEF IInv, FloorKept, TypeOK, CpuState, Psw, MAX_LEVEL
      <4>4. QED
        BY <4>1, <4>2, <4>3 DEF Returned
    <3>4. QED
      BY <3>2, <3>3
  <2>2. CASE Elapse /\ UNCHANGED <<timeless, floor>>
    BY <2>2 DEF Elapse
  <2>3. CASE UNCHANGED historyVars
    BY <2>3
  <2>4. QED
    BY <1>1, <2>1, <2>2, <2>3 DEF HistoryNext
<1>2. QED
  BY <1>1, Invariant, PTL DEF HistorySpec, OwedSilence

\* The history stands in the way of no step of the processor.
THEOREM HistoryImpliesCpu == HistorySpec => Spec
<1>1. HistoryInit => Init
  BY DEF HistoryInit
<1>2. [HistoryNext]_historyVars => [Next]_vars
  BY DEF HistoryNext, HistoryStep, Next, historyVars, vars
<1>3. QED
  BY <1>1, <1>2, PTL DEF HistorySpec, Spec

-----------------------------------------------------------------------------
(* The two banks of save registers are a stack, for every program that plays  *)
(* by the rules: the refinement of ExceptionStack.                            *)
(*                                                                            *)
(* The invariant.  The status a bank holds has the depth it was saved at, so  *)
(* that a return takes off one frame and no more; and a fatal exception left  *)
(* its dump on a processor that is halted behind closed gates.                *)

BanksNest == /\ cpu.psw.ep => ~cpu.eipsw.ep /\ ~cpu.eipsw.np
             /\ cpu.psw.ep /\ cpu.psw.np => cpu.fepsw.ep /\ ~cpu.fepsw.np

DeadHalts == Dead => cpu.psw.np /\ cpu.halted

DInv == Control /\ BanksNest /\ DeadHalts

\* What the banks are, for the lemmas below.
SameBanks(c) == /\ c.eipc = cpu.eipc /\ c.eipsw = cpu.eipsw /\ c.eicc = cpu.eicc
                /\ c.fepc = cpu.fepc /\ c.fepsw = cpu.fepsw /\ c.fecc = cpu.fecc

-----------------------------------------------------------------------------
\* Short sequences: their lengths, their last elements, and what is left.
LEMMA ShortSequences ==
  ASSUME NEW a, NEW b
  PROVE  /\ Len(<<>>) = 0 /\ Len(<<a>>) = 1 /\ Len(<<a, b>>) = 2
         /\ <<a>>[1] = a /\ <<a, b>>[2] = b
         /\ <<a>> # <<>> /\ <<a, b>> # <<>>
         /\ SubSeq(<<a>>, 1, 0) = <<>>
         /\ SubSeq(<<>>, 1, 0) = <<>>
         /\ SubSeq(<<a, b>>, 1, 1) = <<a>>
<1> DEFINE s == <<a, b>>
           t == SubSeq(s, 1, 1)
<1>1. /\ SubSeq(<<a>>, 1, 0) = <<>>
      /\ SubSeq(<<>>, 1, 0) = <<>>
  BY SubSeqEmpty
<1>2. \A i \in 1..1 : s[i] \in {a}
  OBVIOUS
<1> HIDE DEF s
<1>3. t \in Seq({a}) /\ Len(t) = 1
  BY <1>2, SubSeqProperties
<1> HIDE DEF t
<1>4. t[1] \in {a}
  BY <1>3
<1>5. t = <<a>>
  BY <1>3, <1>4
<1>6. QED
  BY <1>1, <1>5 DEF s, t

\* The codes of interrupts, traps and the other exceptions are apart.
LEMMA CodesAreApart ==
  /\ \A code \in InterruptCodes : code <= 65088
  /\ \A code \in TrapCodes : code >= 65440 /\ code <= 65471
  /\ \A code \in FaultCodes \cup {EXC_ADDRESS_TRAP, EXC_ILLEGAL_OPCODE} :
       code \notin InterruptCodes
  /\ \A code \in TrapCodes : code \notin InterruptCodes
  /\ \A code \in InterruptCodes : code \notin TrapCodes
  /\ NoCode \notin ExceptionCode
<1>1. \A code \in InterruptCodes : code \in 65024..65088
  BY SourceTable DEF InterruptCodes
<1>2. \A code \in TrapCodes : code \in 65440..65471
  BY DEF TrapCodes, EXC_TRAP_BASE
<1>3. \A code \in FaultCodes \cup {EXC_ADDRESS_TRAP, EXC_ILLEGAL_OPCODE} : code >= 65376
  BY CpuAssumption DEF EXC_ZERO_DIVISION, EXC_ADDRESS_TRAP, EXC_ILLEGAL_OPCODE
<1>4. NoCode \notin ExceptionCode
  <2>1. ASSUME NEW code \in ExceptionCode PROVE code > 0
    <3>1. CASE code \in {Code(source) : source \in Source}
      BY <1>1, <3>1 DEF InterruptCodes
    <3>2. CASE code \in {EXC_ADDRESS_TRAP, EXC_ILLEGAL_OPCODE, EXC_ZERO_DIVISION}
                         \cup \hFF60..\hFF74
      BY <3>2 DEF EXC_ADDRESS_TRAP, EXC_ILLEGAL_OPCODE, EXC_ZERO_DIVISION
    <3>3. CASE code \in {EXC_TRAP_BASE + vector : vector \in 0..31}
      BY <1>2, <3>3 DEF TrapCodes
    <3>4. QED
      BY <3>1, <3>2, <3>3 DEF ExceptionCode
  <2>2. QED
    BY <2>1 DEF NoCode
<1>5. QED
  BY <1>1, <1>2, <1>3, <1>4

-----------------------------------------------------------------------------
(* The kinds of step.                                                         *)

\* An instruction that leaves the depth and the taken banks alone is the
\* program running.
LEMMA RunsRefines ==
  ASSUME DInv, ~cpu.halted, UNCHANGED dump,
         cpu'.psw.ep = cpu.psw.ep, cpu'.psw.np = cpu.psw.np,
         cpu.psw.ep => /\ UNCHANGED <<cpu.eipc, cpu.eipsw, cpu.eicc>>
                       /\ cpu.psw.np => UNCHANGED <<cpu.fepc, cpu.fepsw, cpu.fecc>>
  PROVE  Stack!Next /\ BanksNest' /\ DeadHalts'
<1>1. ~Dead /\ ~Dead'
  BY DEF DInv, DeadHalts, Dead
<1>2. Frames' = Frames
  BY DEF Frames, EiFrame, FeFrame
<1>3. Mode' = Mode /\ Mode # "dead"
  BY <1>1 DEF Mode, Booting
<1>4. BanksNest'
  BY DEF DInv, BanksNest
<1>5. QED
  BY <1>1, <1>2, <1>3, <1>4 DEF Stack!Next, Stack!Runs, DeadHalts

\* The write that lets go of NP after a reset.
LEMMA BootsRefines ==
  ASSUME DInv, ~cpu.halted, UNCHANGED dump, Booting,
         cpu'.psw.ep = FALSE, cpu'.psw.np = FALSE
  PROVE  Stack!Next /\ BanksNest' /\ DeadHalts'
<1>1. ~Dead /\ ~Dead'
  BY DEF DInv, DeadHalts, Dead
<1>2. Frames = <<>> /\ Frames' = <<>>
  BY DEF Frames, Booting
<1>3. Mode = "booting" /\ Mode' = "running"
  BY <1>1 DEF Mode, Booting
<1>4. BanksNest'
  BY DEF BanksNest
<1>5. QED
  BY <1>1, <1>2, <1>3, <1>4 DEF Stack!Next, Stack!Boots, DeadHalts

\* A return takes off the frame it resumes.
LEMMA ReturnsRefines ==
  ASSUME DInv, DisciplinedReti
  PROVE  Stack!Next /\ BanksNest' /\ DeadHalts'
<1>1. /\ cpu.psw.ep /\ ~cpu.halted /\ cpu \in CpuState
      /\ cpu' = Returning(cpu) /\ dump' = dump
      /\ BanksNest /\ ~Dead /\ ~Dead'
  BY DEF DisciplinedReti, Reti, Fetches, Runs, Continues, DInv, Control, TypeOK,
         DeadHalts, Dead
<1>2. CASE cpu.psw.np
  <2>1. cpu' = [cpu EXCEPT !.pc = cpu.fepc, !.psw = cpu.fepsw]
    BY <1>1, <1>2 DEF Returning
  <2>2. /\ cpu'.pc = cpu.fepc /\ cpu'.psw = cpu.fepsw /\ cpu'.eipc = cpu.eipc
        /\ cpu'.eipsw = cpu.eipsw /\ cpu'.eicc = cpu.eicc
        /\ cpu'.psw.ep /\ ~cpu'.psw.np
    BY <1>1, <1>2, <2>1 DEF CpuState, BanksNest
  <2>3. Frames = <<EiFrame, FeFrame>> /\ Frames' = <<EiFrame>>
    BY <1>1, <1>2, <2>2 DEF Frames, EiFrame
  <2>4. Mode' = "running" /\ Mode = "running"
    BY <1>1, <1>2, <2>2 DEF Mode, Booting
  <2>5. Stack!Top = FeFrame
    BY <2>3, ShortSequences DEF Stack!Top
  <2>6. Gates(cpu.psw, cpu.pc)' = [pc |-> FeFrame.pc, id |-> FeFrame.id,
                                   ae |-> FeFrame.ae, level |-> FeFrame.level]
    BY <2>2 DEF Gates, FeFrame
  <2>7. /\ Frames # <<>>
        /\ Frames' = SubSeq(Frames, 1, Len(Frames) - 1)
    BY <2>3, ShortSequences
  <2>8. Stack!Returns
    BY <2>4, <2>5, <2>6, <2>7 DEF Stack!Returns
  <2>9. BanksNest'
    BY <1>1, <2>2 DEF BanksNest
  <2>10. QED
    BY <1>1, <2>8, <2>9 DEF Stack!Next, DeadHalts
<1>3. CASE ~cpu.psw.np
  <2>1. cpu' = [cpu EXCEPT !.pc = cpu.eipc, !.psw = cpu.eipsw]
    BY <1>1, <1>3 DEF Returning
  <2>2. /\ cpu'.pc = cpu.eipc /\ cpu'.psw = cpu.eipsw
        /\ ~cpu'.psw.ep /\ ~cpu'.psw.np
    BY <1>1, <2>1 DEF CpuState, BanksNest
  <2>3. Frames = <<EiFrame>> /\ Frames' = <<>>
    BY <1>1, <1>3, <2>2 DEF Frames
  <2>4. Mode' = "running" /\ Mode = "running"
    BY <1>1, <1>3, <2>2 DEF Mode, Booting
  <2>5. Stack!Top = EiFrame
    BY <2>3, ShortSequences DEF Stack!Top
  <2>6. Gates(cpu.psw, cpu.pc)' = [pc |-> EiFrame.pc, id |-> EiFrame.id,
                                   ae |-> EiFrame.ae, level |-> EiFrame.level]
    BY <2>2 DEF Gates, EiFrame
  <2>7. /\ Frames # <<>>
        /\ Frames' = SubSeq(Frames, 1, Len(Frames) - 1)
    BY <2>3, ShortSequences
  <2>8. Stack!Returns
    BY <2>4, <2>5, <2>6, <2>7 DEF Stack!Returns
  <2>9. BanksNest'
    BY <2>2 DEF BanksNest
  <2>10. QED
    BY <1>1, <2>8, <2>9 DEF Stack!Next, DeadHalts
<1>4. QED
  BY <1>2, <1>3

\* An exception suspends the context that was running, or is fatal when no
\* bank is free for it.
LEMMA RaiseRefines ==
  ASSUME DInv, ~Dead,
         NEW c \in CpuState, c.psw = cpu.psw, SameBanks(c),
         NEW e \in Exceptions,
         e.code \notin TrapCodes => e.restore_pc = cpu.pc,
         e.code \in InterruptCodes => /\ ~cpu.psw.ep /\ ~cpu.psw.id /\ ~cpu.psw.np
                                      /\ e.level # NoLevel,
         e.level # NoLevel => cpu.psw.level <= e.level,
         NEW returned, Raise(c, e, returned)
  PROVE  Stack!Next /\ BanksNest' /\ DeadHalts'
<1>1. /\ TypeOK /\ BanksNest /\ ~Dead
      /\ cpu.psw \in Psw /\ cpu.psw.level \in Int
      /\ cpu.pc \in Address /\ IsEven(cpu.pc)
  BY DEF DInv, Control, TypeOK, DeadHalts, CpuState, Psw, MAX_LEVEL
<1>2. /\ e.code \in ExceptionCode /\ e.level \in {NoLevel} \cup 0..4
      /\ e.restore_pc \in Address
  BY DEF Exceptions
<1>3. CASE cpu.psw.np
  <2>1. /\ cpu' = [c EXCEPT !.halted = TRUE]
        /\ dump' = [code |-> e.code, psw |-> c.psw, pc |-> c.pc]
    BY <1>3 DEF Raise
  <2>2. /\ cpu'.psw = cpu.psw /\ cpu'.halted
        /\ SameBanks(cpu')
    BY <2>1 DEF SameBanks, CpuState
  <2>3. Dead'
    BY <1>2, <2>1, CodesAreApart DEF Dead, NoDump
  <2>4. Frames' = Frames
    BY <2>2 DEF Frames, EiFrame, FeFrame, SameBanks
  <2>5. Mode' = "dead"
    BY <2>3 DEF Mode
  <2>6. Mode = "booting" \/ Len(Frames) = 2
    BY <1>1, <1>3, ShortSequences DEF Mode, Booting, Frames
  <2>7. BanksNest'
    BY <1>1, <2>2 DEF BanksNest, SameBanks
  <2>8. QED
    BY <1>3, <2>2, <2>4, <2>5, <2>6, <2>7 DEF Stack!Next, Stack!Dies, DeadHalts
<1>4. CASE ~cpu.psw.np
  <2> DEFINE psw == HandlerPsw(cpu.psw, e.level)
             resume == Even(e.restore_pc)
  <2>1. cpu' = Entered(c, e) /\ dump' = dump /\ ~Dead'
    BY <1>1, <1>4 DEF Raise, Dead
  <2>2. /\ psw \in Psw
        /\ psw.level >= cpu.psw.level
        /\ e.level # NoLevel => psw.level = e.level + 1
        /\ psw.ep /\ (psw.np <=> cpu.psw.ep)
    BY <1>1, <1>2, <1>4, HandlerPswTyped
  <2>3. psw.id /\ ~psw.ae
    BY <1>1 DEF HandlerPsw, Psw
  <2>4. e.code \notin TrapCodes => resume = cpu.pc
    BY <1>1, EvenTyped
  <2>5. e.code \in InterruptCodes => psw.level > cpu.psw.level
    BY <1>1, <1>2, <2>2 DEF NoLevel
  <2> HIDE DEF psw, resume
  <2>6. Mode = "running"
    BY <1>1, <1>4 DEF Mode, Booting
  <2>7. CASE cpu.psw.ep
    <3>1. cpu' = [c EXCEPT !.fecc = e.code, !.fepsw = cpu.psw, !.fepc = resume,
                           !.psw = psw, !.pc = HANDLER_DUPLEXED,
                           !.halted = Woken(c, e)]
      BY <2>1, <2>7 DEF Entered, psw, resume
    <3>2. /\ cpu'.psw = psw /\ cpu'.fecc = e.code /\ cpu'.fepsw = cpu.psw
          /\ cpu'.fepc = resume /\ cpu'.eipc = cpu.eipc
          /\ cpu'.eipsw = cpu.eipsw /\ cpu'.eicc = cpu.eicc
      BY <3>1 DEF CpuState, SameBanks
    <3>3. Frames = <<EiFrame>> /\ Frames' = <<EiFrame, FeFrame'>>
      BY <1>4, <2>2, <2>7, <3>2 DEF Frames, EiFrame
    <3>4. FeFrame' = [pc |-> resume, id |-> cpu.psw.id, ae |-> cpu.psw.ae,
                      level |-> cpu.psw.level, code |-> e.code]
      BY <3>2 DEF FeFrame
    <3>5. Mode' = "running"
      BY <2>1, <2>2, <3>2 DEF Mode, Booting
    <3>6. e.code \notin InterruptCodes
      BY <2>7
    <3>7. /\ Len(Frames) = 1 /\ Len(Frames') = 2
          /\ SubSeq(Frames', 1, 1) = Frames
          /\ Frames'[2] = FeFrame'
      BY <3>3, ShortSequences
    <3>8. Stack!Enters
      BY <2>2, <2>3, <2>4, <2>6, <3>2, <3>4, <3>5, <3>6, <3>7
         DEF Stack!Enters, Gates
    <3>9. BanksNest'
      BY <1>1, <1>4, <2>2, <2>7, <3>2 DEF BanksNest
    <3>10. QED
      BY <2>1, <3>8, <3>9 DEF Stack!Next, DeadHalts
  <2>8. CASE ~cpu.psw.ep
    <3>1. cpu' = [c EXCEPT !.eicc = e.code, !.eipsw = cpu.psw, !.eipc = resume,
                           !.psw = psw, !.pc = e.handler,
                           !.halted = Woken(c, e)]
      BY <2>1, <2>8 DEF Entered, psw, resume
    <3>2. /\ cpu'.psw = psw /\ cpu'.eicc = e.code /\ cpu'.eipsw = cpu.psw
          /\ cpu'.eipc = resume
      BY <3>1 DEF CpuState
    <3>3. Frames = <<>> /\ Frames' = <<EiFrame'>>
      BY <2>2, <2>8, <3>2 DEF Frames
    <3>4. EiFrame' = [pc |-> resume, id |-> cpu.psw.id, ae |-> cpu.psw.ae,
                      level |-> cpu.psw.level, code |-> e.code]
      BY <3>2 DEF EiFrame
    <3>5. Mode' = "running"
      BY <2>1, <2>2, <2>8, <3>2 DEF Mode, Booting
    <3>6. e.code \in InterruptCodes => ~cpu.psw.id
      OBVIOUS
    <3>7. /\ Len(Frames) = 0 /\ Len(Frames') = 1
          /\ SubSeq(Frames', 1, 0) = Frames
          /\ Frames'[1] = EiFrame'
      BY <3>3, ShortSequences
    <3>8. Stack!Enters
      BY <2>2, <2>3, <2>4, <2>5, <2>6, <3>2, <3>3, <3>4, <3>5, <3>6, <3>7
         DEF Stack!Enters, Gates
    <3>9. BanksNest'
      BY <1>4, <2>2, <2>8, <3>2 DEF BanksNest
    <3>10. QED
      BY <2>1, <3>8, <3>9 DEF Stack!Next, DeadHalts
  <2>9. QED
    BY <2>7, <2>8
<1>5. QED
  BY <1>3, <1>4

-----------------------------------------------------------------------------
(* Every step.                                                                *)

\* The exceptions a step raises are ones RaiseRefines is about.
LEMMA RaisesRefine ==
  ASSUME DInv, TakeInterrupt \/ AddressTrap \/ IllegalOpcode
                 \/ (\E next_pc \in Program :
                       \/ \E code \in FaultCodes : Fault(code, next_pc)
                       \/ \E vector \in Vectors : Trap(vector, next_pc))
  PROVE  [Stack!Next]_(Stack!vars) /\ BanksNest' /\ DeadHalts'
<1>0. /\ TypeOK /\ cpu \in CpuState /\ cpu.pc \in Address /\ SameBanks(cpu)
      /\ DeadHalts
  BY DEF DInv, Control, TypeOK, CpuState, SameBanks
<1>1. CASE TakeInterrupt
  <2> DEFINE source == PendingInterrupt(lines)
             e == Exception(Code(source), Code(source), cpu.pc, Level(source))
             returned == Returned("interrupt", Code(source), FALSE)
  <2>1. /\ source \in Source
        /\ ~cpu.psw.np /\ ~cpu.psw.ep /\ ~cpu.psw.id
        /\ cpu.psw.level <= Level(source)
    BY <1>0, <1>1, AcceptedWakes DEF TakeInterrupt, TypeOK
  <2>2. Raise(cpu, e, returned)
    BY <1>1 DEF TakeInterrupt
  <2>3. /\ Code(source) \in ExceptionCode /\ Code(source) \in Address
        /\ IsEven(Code(source)) /\ Level(source) \in 0..4
    BY <2>1, SourceTable
  <2>4. /\ e \in Exceptions /\ e.restore_pc = cpu.pc
        /\ e.level = Level(source) /\ e.level # NoLevel
    BY <1>0, <2>3 DEF Exception, Exceptions, NoLevel
  <2> HIDE DEF source, e, returned
  <2>5. ~Dead
    BY <1>0, <2>1 DEF DeadHalts
  <2>6. QED
    BY <1>0, <2>1, <2>2, <2>4, <2>5, RaiseRefines
<1>2. CASE AddressTrap
  <2> DEFINE e == Exception(EXC_ADDRESS_TRAP, EXC_ADDRESS_TRAP, cpu.pc, NoLevel)
             returned == Returned("exception", EXC_ADDRESS_TRAP, FALSE)
  <2>1. ~Dead /\ Raise(cpu, e, returned)
    BY <1>0, <1>2 DEF AddressTrap, Runs, DeadHalts
  <2>2. /\ e \in Exceptions /\ e.level = NoLevel /\ e.restore_pc = cpu.pc
        /\ e.code = EXC_ADDRESS_TRAP
    BY <1>0, HandlersTyped DEF Exception, Exceptions, ExceptionCode
  <2>3. e.code \notin InterruptCodes
    BY <2>2, CodesAreApart
  <2> HIDE DEF e, returned
  <2>4. QED
    BY <1>0, <2>1, <2>2, <2>3, RaiseRefines
<1>3. CASE IllegalOpcode
  <2> DEFINE e == Exception(EXC_ILLEGAL_OPCODE, EXC_ILLEGAL_OPCODE, cpu.pc, NoLevel)
             returned == Returned("exception", EXC_ILLEGAL_OPCODE, FALSE)
  <2>1. ~Dead /\ Raise(cpu, e, returned)
    BY <1>0, <1>3 DEF IllegalOpcode, Fetches, Runs, DeadHalts
  <2>2. /\ e \in Exceptions /\ e.level = NoLevel /\ e.restore_pc = cpu.pc
        /\ e.code = EXC_ILLEGAL_OPCODE
    BY <1>0, HandlersTyped DEF Exception, Exceptions, ExceptionCode
  <2>3. e.code \notin InterruptCodes
    BY <2>2, CodesAreApart
  <2> HIDE DEF e, returned
  <2>4. QED
    BY <1>0, <2>1, <2>2, <2>3, RaiseRefines
<1>4. ASSUME NEW next_pc \in Program, NEW code \in FaultCodes, Fault(code, next_pc)
      PROVE  [Stack!Next]_(Stack!vars) /\ BanksNest' /\ DeadHalts'
  <2> DEFINE handler == IF code = EXC_ZERO_DIVISION THEN code ELSE HANDLER_FP
             e == Exception(code, handler, cpu.pc, NoLevel)
             c == At(next_pc)
  <2>1. ~Dead /\ Raise(c, e, Executed)
    BY <1>0, <1>4 DEF Fault, Executes, Fetches, Runs, DeadHalts
  <2>2. handler \in Address /\ IsEven(handler)
    BY HandlersTyped
  <2>3. code \in ExceptionCode
    BY CpuAssumption DEF ExceptionCode
  <2>4. /\ e \in Exceptions /\ e.level = NoLevel /\ e.restore_pc = cpu.pc
        /\ e.code = code
    BY <1>0, <2>2, <2>3 DEF Exception, Exceptions
  <2>5. e.code \notin InterruptCodes
    BY <2>4, CodesAreApart
  <2>6. c \in CpuState /\ c.psw = cpu.psw /\ SameBanks(c)
    BY <1>0, AtTyped DEF SameBanks
  <2> HIDE DEF handler, e, c
  <2>7. QED
    BY <2>1, <2>4, <2>5, <2>6, RaiseRefines
<1>5. ASSUME NEW next_pc \in Program, NEW vector \in Vectors, Trap(vector, next_pc)
      PROVE  [Stack!Next]_(Stack!vars) /\ BanksNest' /\ DeadHalts'
  <2> DEFINE handler == IF vector < 16 THEN EXC_TRAP_BASE ELSE HANDLER_TRAP_HIGH
             code == EXC_TRAP_BASE + vector
             e == Exception(code, handler, next_pc, NoLevel)
             c == At(next_pc)
  <2>1. ~Dead /\ Raise(c, e, Executed)
    BY <1>0, <1>5 DEF Trap, Executes, Fetches, Runs, DeadHalts
  <2>2. handler \in Address /\ IsEven(handler) /\ next_pc \in Address
    BY HandlersTyped, CpuAssumption
  <2>3. code \in ExceptionCode /\ code \in TrapCodes
    BY CpuAssumption DEF ExceptionCode, TrapCodes
  <2> HIDE DEF handler, code
  <2>4. /\ e \in Exceptions /\ e.level = NoLevel /\ e.code = code
    BY <2>2, <2>3 DEF Exception, Exceptions
  <2>5. e.code \notin InterruptCodes /\ e.code \in TrapCodes
    BY <2>3, <2>4, CodesAreApart
  <2>6. c \in CpuState /\ c.psw = cpu.psw /\ SameBanks(c)
    BY <1>0, AtTyped DEF SameBanks
  <2> HIDE DEF e, c
  <2>7. QED
    BY <2>1, <2>4, <2>5, <2>6, RaiseRefines
<1>6. QED
  BY <1>1, <1>2, <1>3, <1>4, <1>5

\* The instructions that raise nothing.
LEMMA ContinuesRefine ==
  ASSUME DInv,
         \/ BitStringPass
         \/ \E next_pc \in Program :
              \/ Plain(next_pc) \/ StoreToDevice(next_pc) \/ Halt(next_pc)
              \/ \E id \in BOOLEAN : SetInterruptDisable(next_pc, id)
              \/ \E value \in Words : LdsrAddress(next_pc, value) /\ SpareBanksOnly
              \/ \E value \in PswWrites :
                   \/ LdsrPsw(next_pc, value) /\ KeepsDepth(value)
                   \/ LdsrSavedPsw(next_pc, value) /\ SpareBanksOnly
  PROVE  Stack!Next /\ BanksNest' /\ DeadHalts'
<1>0. /\ TypeOK /\ cpu \in CpuState /\ cpu.psw \in Psw
      /\ cpu.psw.ep \in BOOLEAN /\ cpu.psw.np \in BOOLEAN
  BY DEF DInv, Control, TypeOK, CpuState, Psw
<1>1. CASE BitStringPass
  <2>1. ~cpu.halted /\ cpu' = cpu /\ dump' = dump
    BY <1>1 DEF BitStringPass, Fetches, Runs, Continues
  <2>2. QED
    BY <2>1, RunsRefines
<1>2. ASSUME NEW next_pc \in Program,
             Plain(next_pc) \/ StoreToDevice(next_pc) \/ Halt(next_pc)
      PROVE  Stack!Next /\ BanksNest' /\ DeadHalts'
  <2>1. /\ ~cpu.halted /\ dump' = dump
        /\ \/ cpu' = At(next_pc)
           \/ cpu' = [At(next_pc) EXCEPT !.halted = TRUE]
    BY <1>2 DEF Plain, StoreToDevice, Halt, Executes, Fetches, Runs, Continues
  <2>2. cpu'.psw = cpu.psw /\ SameBanks(cpu')
    BY <1>0, <2>1 DEF At, CpuState, SameBanks
  <2>3. QED
    BY <2>1, <2>2, RunsRefines DEF SameBanks
<1>3. ASSUME NEW next_pc \in Program, NEW id \in BOOLEAN,
             SetInterruptDisable(next_pc, id)
      PROVE  Stack!Next /\ BanksNest' /\ DeadHalts'
  <2>1. /\ ~cpu.halted /\ dump' = dump
        /\ cpu' = [At(next_pc) EXCEPT !.psw.id = id]
    BY <1>3 DEF SetInterruptDisable, Executes, Fetches, Runs, Continues
  <2>2. /\ cpu'.psw.ep = cpu.psw.ep /\ cpu'.psw.np = cpu.psw.np
        /\ SameBanks(cpu')
    BY <1>0, <2>1 DEF At, CpuState, Psw, SameBanks
  <2>3. QED
    BY <2>1, <2>2, RunsRefines DEF SameBanks
<1>4. ASSUME NEW next_pc \in Program, NEW value \in Words,
             LdsrAddress(next_pc, value), SpareBanksOnly
      PROVE  Stack!Next /\ BanksNest' /\ DeadHalts'
  <2>1. /\ ~cpu.halted /\ dump' = dump
        /\ \/ cpu' = [At(next_pc) EXCEPT !.eipc = Even(value)]
           \/ cpu' = [At(next_pc) EXCEPT !.fepc = Even(value)]
           \/ cpu' = [At(next_pc) EXCEPT !.adtre = value]
    BY <1>4 DEF LdsrAddress, Executes, Fetches, Runs, Continues
  <2>2. /\ cpu'.psw = cpu.psw /\ cpu'.eicc = cpu.eicc /\ cpu'.fecc = cpu.fecc
    BY <1>0, <2>1 DEF At, CpuState
  <2>3. QED
    BY <1>4, <2>1, <2>2, RunsRefines DEF SpareBanksOnly
<1>5. ASSUME NEW next_pc \in Program, NEW value \in PswWrites,
             LdsrPsw(next_pc, value), KeepsDepth(value)
      PROVE  Stack!Next /\ BanksNest' /\ DeadHalts'
  <2>1. /\ ~cpu.halted /\ dump' = dump
        /\ cpu' = [At(next_pc) EXCEPT !.psw = value]
    BY <1>5 DEF LdsrPsw, Executes, Fetches, Runs, Continues
  <2>2. cpu'.psw = value /\ SameBanks(cpu')
    BY <1>0, <2>1 DEF At, CpuState, SameBanks
  <2>3. value.ep = cpu.psw.ep /\ value.np \in BOOLEAN
    BY <1>5, CpuAssumption DEF KeepsDepth, Psw
  <2>4. CASE value.np = cpu.psw.np
    BY <2>1, <2>2, <2>3, <2>4, RunsRefines DEF SameBanks
  <2>5. CASE Booting /\ ~value.np
    <3>1. cpu'.psw.ep = FALSE /\ cpu'.psw.np = FALSE
      BY <1>0, <2>2, <2>3, <2>5 DEF Booting
    <3>2. QED
      BY <2>1, <2>5, <3>1, BootsRefines
  <2>6. QED
    BY <1>5, <2>4, <2>5 DEF KeepsDepth
<1>6. ASSUME NEW next_pc \in Program, NEW value \in PswWrites,
             LdsrSavedPsw(next_pc, value), SpareBanksOnly
      PROVE  Stack!Next /\ BanksNest' /\ DeadHalts'
  <2>1. /\ ~cpu.halted /\ dump' = dump
        /\ \/ cpu' = [At(next_pc) EXCEPT !.eipsw = value]
           \/ cpu' = [At(next_pc) EXCEPT !.fepsw = value]
    BY <1>6 DEF LdsrSavedPsw, Executes, Fetches, Runs, Continues
  <2>2. /\ cpu'.psw = cpu.psw /\ cpu'.eicc = cpu.eicc /\ cpu'.fecc = cpu.fecc
    BY <1>0, <2>1 DEF At, CpuState
  <2>3. QED
    BY <1>6, <2>1, <2>2, RunsRefines DEF SpareBanksOnly
<1>7. QED
  BY <1>1, <1>2, <1>3, <1>4, <1>5, <1>6

\* A disciplined step is a step, so what CpuProofs says of one holds of it.
LEMMA DisciplinedStepIsStep == DisciplinedStep => Step
  BY DEF DisciplinedStep, DisciplinedReti, Step

\* Every step keeps the invariant and is a step of the stack or none.
LEMMA NextRefines ==
  ASSUME DInv, [DisciplinedStep \/ Elapse]_vars
  PROVE  DInv' /\ [Stack!Next]_(Stack!vars)
<1>0. Control /\ BanksNest /\ DeadHalts /\ TypeOK
  BY DEF DInv, Control
<1>1. ASSUME UNCHANGED <<cpu, dump>>
      PROVE  BanksNest' /\ DeadHalts' /\ UNCHANGED Stack!vars
  BY <1>0, <1>1 DEF BanksNest, DeadHalts, Dead, Stack!vars, Gates, Frames, EiFrame,
                    FeFrame, Mode, Booting
<1>2. CASE DisciplinedStep
  <2>1. Control'
    BY <1>0, <1>2, DisciplinedStepIsStep, StepSound
  <2>2. CASE StopHalted \/ Idle
    <3>1. UNCHANGED <<cpu, dump>>
      BY <2>2 DEF StopHalted, Idle
    <3>2. QED
      BY <1>1, <2>1, <3>1 DEF DInv
  <2>3. CASE DisciplinedReti
    BY <2>1, <2>3, ReturnsRefines DEF DInv
  <2>4. CASE \/ TakeInterrupt \/ AddressTrap \/ IllegalOpcode
             \/ \E next_pc \in Program :
                  \/ \E code \in FaultCodes : Fault(code, next_pc)
                  \/ \E vector \in Vectors : Trap(vector, next_pc)
    BY <2>1, <2>4, RaisesRefine DEF DInv
  <2>5. CASE \/ BitStringPass
             \/ \E next_pc \in Program :
                  \/ Plain(next_pc) \/ StoreToDevice(next_pc) \/ Halt(next_pc)
                  \/ \E id \in BOOLEAN : SetInterruptDisable(next_pc, id)
                  \/ \E value \in Words : LdsrAddress(next_pc, value) /\ SpareBanksOnly
                  \/ \E value \in PswWrites :
                       \/ LdsrPsw(next_pc, value) /\ KeepsDepth(value)
                       \/ LdsrSavedPsw(next_pc, value) /\ SpareBanksOnly
    BY <2>1, <2>5, ContinuesRefine DEF DInv
  <2>6. QED
    BY <1>2, <2>2, <2>3, <2>4, <2>5 DEF DisciplinedStep
<1>3. CASE Elapse
  <2>1. Control' /\ UNCHANGED <<cpu, dump>>
    BY <1>0, <1>3, ElapseSound DEF Elapse
  <2>2. QED
    BY <1>1, <2>1 DEF DInv
<1>4. CASE UNCHANGED vars
  <2>1. UNCHANGED <<cpu, dump, lines, outcome>>
    BY <1>4 DEF vars
  <2>2. Control'
    BY <1>0, <2>1 DEF Control, TypeOK, Permanent, Stopped, IdleHalts, CanWake
  <2>3. QED
    BY <1>1, <2>1, <2>2 DEF DInv
<1>5. QED
  BY <1>2, <1>3, <1>4

-----------------------------------------------------------------------------
(* The theorem.                                                               *)

\* A reset finds an empty stack, and no step breaks the invariant.
LEMMA DisciplinedInvariant == DisciplinedSpec => []DInv
<1>1. Init => DInv
  <2> SUFFICES ASSUME Init PROVE DInv
    OBVIOUS
  <2>1. Control
    BY ResetSound
  <2>2. ~Dead /\ cpu.psw.ep = FALSE
    BY DEF Init, NewCpu, Clear, Dead
  <2>3. QED
    BY <2>1, <2>2 DEF DInv, BanksNest, DeadHalts
<1>2. DInv /\ [DisciplinedStep \/ Elapse]_vars => DInv'
  BY NextRefines
<1>3. QED
  BY <1>1, <1>2, PTL DEF DisciplinedSpec

\* Under a program that plays by the rules the banks EIPC/EIPSW and
\* FEPC/FEPSW, the EP and NP bits and the codes in ECR are a stack of suspended
\* contexts two deep: whatever interrupts, traps and faults nest, a return
\* resumes the context that was suspended, with the gates it had.
THEOREM BanksAreAStack == DisciplinedSpec => ImplementsStack
<1>1. Init => Stack!Init
  <2> SUFFICES ASSUME Init PROVE Stack!Init
    OBVIOUS
  <2>1. cpu.psw.np = TRUE /\ cpu.psw.ep = FALSE /\ ~Dead
    BY DEF Init, NewCpu, Clear, Dead
  <2>2. QED
    BY <2>1 DEF Stack!Init, Frames, Mode, Booting
<1>2. DInv /\ [DisciplinedStep \/ Elapse]_vars => [Stack!Next]_(Stack!vars)
  BY NextRefines
<1>3. QED
  BY <1>1, <1>2, DisciplinedInvariant, PTL DEF DisciplinedSpec, ImplementsStack, Stack!Spec
=============================================================================
