------------------------------ MODULE Interrupts ------------------------------
(* The interrupt sources and their priority: src/crates/vb-core/src/          *)
(* interrupt.rs, and the two questions the bus answers about them (bus.rs).   *)
(*                                                                            *)
(* A line is what a device shows: [pending, armed].  Lines are a function     *)
(* from the sources that have a device; the others never raise.               *)
EXTENDS Integers

\* Highest priority first: the bus scan takes the first match.
SOURCES == <<"Vip", "Communication", "GamePak", "TimerZero", "GamePad">>

Source == {SOURCES[i] : i \in 1..5}

Level(source) ==
  CASE source = "Vip"           -> 4
    [] source = "Communication" -> 3
    [] source = "GamePak"       -> 2
    [] source = "TimerZero"     -> 1
    [] source = "GamePad"       -> 0

\* An exception code; the handler of an interrupt is its code in the top page,
\* and addresses of that page are written by their low halfword.
Code(source) == \hFE00 + 16 * Level(source)

\* The vip, the game pak and the communication port do not exist yet.
Device == {"TimerZero", "GamePad"}

Line  == [pending : BOOLEAN, armed : BOOLEAN]
Lines == [Device -> {line \in Line : line.pending => line.armed}]

Raised(lines, source)   == source \in Device /\ lines[source].pending
MayRaise(lines, source) == source \in Device /\ lines[source].armed

AnyRaised(lines) == \E source \in Source : Raised(lines, source)

\* Mutant: the last raised source of the table.
PendingLast(lines) ==
  SOURCES[CHOOSE i \in 1..5 : /\ Raised(lines, SOURCES[i])
                              /\ \A j \in (i + 1)..5 : ~Raised(lines, SOURCES[j])]

\* The first raised source of the table.
PendingInterrupt(lines) ==
  SOURCES[CHOOSE i \in 1..5 : /\ Raised(lines, SOURCES[i])
                              /\ \A j \in 1..(i - 1) : ~Raised(lines, SOURCES[j])]
=============================================================================
