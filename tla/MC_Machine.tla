------------------------------ MODULE MC_Machine ------------------------------
(* A small machine: counters of two bits, a pad of three buttons, a program   *)
(* that opens the gates, arms the devices, halts and returns from handlers.   *)
EXTENDS Machine

OneAddress == {\h1000}
OpenGates  == {[np |-> FALSE, ep |-> FALSE, id |-> FALSE, ae |-> FALSE, level |-> 0]}

Tcr(enable, interrupt, clock, clear) ==
  [enable |-> enable, interrupt |-> interrupt, clock |-> clock, clear |-> clear]
FewTimerControls == {Tcr(TRUE, TRUE, TRUE, FALSE), Tcr(TRUE, TRUE, FALSE, TRUE)}

Scr(inhibit, start, abort) ==
  [inhibit |-> inhibit, latch |-> FALSE, clock |-> FALSE, start |-> start, abort |-> abort]
FewPadControls == {Scr(FALSE, TRUE, FALSE), Scr(TRUE, FALSE, FALSE)}

ZeroDivision == {\hFF80}
TwoWords     == {{1}, {2}}

\* A program of every instruction, with a limit of each kind, and one that may
\* run for ever.
Trace(repertoire, steps, limit) ==
  [repertoire |-> repertoire, steps |-> steps, cycles |-> limit]
EveryTrace == {Trace({"plain", "store", "halt", "reti", "ldsr_psw"}, NoLimit, NoLimit),
               Trace(Instructions, 3, NoLimit), Trace(Instructions, NoLimit, 3)}
=============================================================================
