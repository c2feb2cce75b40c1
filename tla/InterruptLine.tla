---------------------------- MODULE InterruptLine ----------------------------
(* What a device promises the processor about its interrupt line.             *)
(*                                                                            *)
(* The processor sees two bits of a device through the bus: `pending', what   *)
(* Bus::raised samples, and `armed', what Bus::may_raise answers.  A halted   *)
(* processor idles only while a line it would accept is armed, so the promise *)
(* has two halves:                                                            *)
(*   - left alone, a line that is not armed never becomes pending, and        *)
(*     nothing but software takes a pending line down;                        *)
(*   - left alone, an armed line does not stay undecided for ever.            *)
(* Timer and GamePad are each shown to implement this specification.          *)
VARIABLES pending,  \* BOOLEAN: the line is raised
          armed,    \* BOOLEAN: the device answers that it may raise
          caller    \* who made the last call: "time" (tick) or "software" (write)

vars == <<pending, armed, caller>>

TypeOK == /\ pending \in BOOLEAN
          /\ armed \in BOOLEAN
          /\ caller \in {"time", "software"}

Init == /\ pending = FALSE
        /\ armed = FALSE
        /\ caller = "time"

\* Time passes in the device: it can spend what was armed, never arm.
Time == /\ caller' = "time"
        /\ pending' \in {pending, armed}
        /\ pending => pending'
        /\ armed' \in {pending', armed}

\* A register write may do anything to the line, except leave it raised
\* while answering that it cannot raise.
Access == /\ caller' = "software"
          /\ pending' \in BOOLEAN
          /\ armed' \in {pending', TRUE}

Next == Time \/ Access

\* Once software leaves the device alone, the line settles: it is raised, or
\* the device admits that it will not raise.
Settles == <>[](caller = "time") => []<>(pending \/ ~armed)

Spec == Init /\ [][Next]_vars /\ Settles
=============================================================================
