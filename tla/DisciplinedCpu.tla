---------------------------- MODULE DisciplinedCpu ----------------------------
(* The processor under a program that plays by the rules: reti only in a      *)
(* handler, no write to a bank that holds a suspended context, no write that  *)
(* moves the EP and NP bits of PSW but the one that leaves the boot state.    *)
(* Under such a program the two banks of save registers are a stack of        *)
(* suspended contexts.                                                        *)
EXTENDS CpuControl

Booting == cpu.psw.np /\ ~cpu.psw.ep

DisciplinedReti == Reti /\ cpu.psw.ep

KeepsDepth(value) ==
  /\ value.ep = cpu.psw.ep
  /\ value.np = cpu.psw.np \/ (Booting /\ ~value.np)

SpareBanksOnly == /\ cpu.psw.ep => UNCHANGED <<cpu.eipc, cpu.eipsw>>
                  /\ cpu.psw.ep /\ cpu.psw.np => UNCHANGED <<cpu.fepc, cpu.fepsw>>

DisciplinedStep ==
  \/ TakeInterrupt \/ StopHalted \/ Idle \/ AddressTrap \/ IllegalOpcode
  \/ BitStringPass \/ DisciplinedReti
  \/ \E next_pc \in Program :
       \/ Plain(next_pc) \/ StoreToDevice(next_pc) \/ Halt(next_pc)
       \/ \E code \in FaultCodes : Fault(code, next_pc)
       \/ \E vector \in Vectors : Trap(vector, next_pc)
       \/ \E id \in BOOLEAN : SetInterruptDisable(next_pc, id)
       \/ \E value \in Words : LdsrAddress(next_pc, value) /\ SpareBanksOnly
       \/ \E value \in PswWrites :
            \/ LdsrPsw(next_pc, value) /\ KeepsDepth(value)
            \/ LdsrSavedPsw(next_pc, value) /\ SpareBanksOnly

DisciplinedSpec == Init /\ [][DisciplinedStep \/ Elapse]_vars

\* The caller of step keeps calling it, and the devices settle their lines.
DisciplinedFairSpec == /\ DisciplinedSpec
                       /\ WF_vars(DisciplinedStep)
                       /\ \A d \in Device : WF_vars(Settles(d))

-----------------------------------------------------------------------------
Gates(psw, pc) == [pc |-> pc, id |-> psw.id, ae |-> psw.ae, level |-> psw.level]

EiFrame == [pc |-> cpu.eipc, id |-> cpu.eipsw.id, ae |-> cpu.eipsw.ae,
            level |-> cpu.eipsw.level, code |-> cpu.eicc]
FeFrame == [pc |-> cpu.fepc, id |-> cpu.fepsw.id, ae |-> cpu.fepsw.ae,
            level |-> cpu.fepsw.level, code |-> cpu.fecc]

\* A processor with NP set that is halted by a fatal exception never leaves it.
Dead == dump # NoDump

\* EP says that the first bank holds a context, NP that the second does too.
Frames == IF ~cpu.psw.ep THEN <<>>
          ELSE IF cpu.psw.np THEN <<EiFrame, FeFrame>> ELSE <<EiFrame>>

Mode == IF Dead THEN "dead" ELSE IF Booting THEN "booting" ELSE "running"

InterruptCodes == {Code(source) : source \in Source}
TrapCodes      == {EXC_TRAP_BASE + vector : vector \in 0..31}

Stack == INSTANCE ExceptionStack
  WITH context <- Gates(cpu.psw, cpu.pc),
       stack   <- Frames,
       mode    <- Mode,
       InterruptCode <- InterruptCodes,
       SkippingCode  <- TrapCodes

\* The banks EIPC/EIPSW and FEPC/FEPSW, the EP and NP bits, the codes in ECR
\* and the two ways reti goes implement the stack of suspended contexts:
\* whatever interrupts, traps and faults nest, a program resumes where it was
\* suspended, with the gates it had.
ImplementsStack == Stack!Spec
=============================================================================
