---------------------------- MODULE ExceptionStack ----------------------------
(* What exception entry and return promise a program that plays by the rules: *)
(* a stack of suspended contexts, two deep.  An entry suspends the context    *)
(* that was running, a return resumes exactly that context, and an entry with *)
(* both places taken ends the program.                                        *)
(*                                                                            *)
(* A context is [pc, id, ae, level]: where the program is and its gates.  The *)
(* depth is not part of it, it is the length of the stack.                    *)
EXTENDS Integers, Sequences

CONSTANTS InterruptCode,  \* codes of interrupts
          SkippingCode    \* codes of exceptions that resume past the instruction

VARIABLES context,  \* the running context
          stack,    \* the suspended ones, the outermost first, with their cause
          mode      \* "booting", "running" or "dead"

vars == <<context, stack, mode>>

\* After a reset the first exception is fatal, until software says otherwise.
Init == /\ stack = <<>>
        /\ mode = "booting"

Boots == /\ mode = "booting"
         /\ mode' = "running"
         /\ UNCHANGED stack

\* The program moves on, and may move its own gates.
Runs == /\ mode # "dead"
        /\ UNCHANGED <<stack, mode>>

Top == stack[Len(stack)]

\* An interrupt finds nobody else being served; any entry shuts the gates, and
\* an interrupt's raises the level.
Enters == /\ mode = "running"
          /\ Len(stack) < 2
          /\ Len(stack') = Len(stack) + 1
          /\ SubSeq(stack', 1, Len(stack)) = stack
          /\ LET frame == stack'[Len(stack')]
             IN  /\ frame.id = context.id /\ frame.ae = context.ae
                 /\ frame.level = context.level
                 /\ frame.code \notin SkippingCode => frame.pc = context.pc
                 /\ frame.code \in InterruptCode =>
                      /\ stack = <<>> /\ ~context.id
                      /\ context'.level > context.level
          /\ context'.id /\ ~context'.ae
          /\ context'.level >= context.level
          /\ UNCHANGED mode

Returns == /\ stack # <<>>
           /\ context' = [pc |-> Top.pc, id |-> Top.id, ae |-> Top.ae, level |-> Top.level]
           /\ stack' = SubSeq(stack, 1, Len(stack) - 1)
           /\ UNCHANGED mode

Dies == /\ mode = "booting" \/ Len(stack) = 2
        /\ mode' = "dead"
        /\ UNCHANGED stack

Next == Boots \/ Runs \/ Enters \/ Returns \/ Dies

Spec == Init /\ [][Next]_vars
=============================================================================
