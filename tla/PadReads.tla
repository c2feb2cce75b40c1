------------------------------ MODULE PadReads -------------------------------
(* What a read of the pad may report, with the player's hands moving.         *)
(*                                                                            *)
(* `held' remembers, for each button, every position it was in since the      *)
(* current read began: since the last latch for a software read, and at the   *)
(* one moment a hardware read takes the word.                                 *)
EXTENDS GamePad

VARIABLE held  \* [Bits -> SUBSET BOOLEAN]

readVars == <<pad, caller, held>>

Positions(word) == [bit \in Bits |-> {(bit \in word)}]

ReadsInit == /\ Init
             /\ held = Positions(pad.buttons)

\* The end of a hardware read is a read of its own.
ReadTick(cycles) ==
  /\ Tick(cycles)
  /\ held' = IF pad.reading /\ ~pad'.reading THEN Positions(pad.buttons) ELSE held

ReadScr(control) ==
  /\ WriteScr(control)
  /\ held' = IF control.latch THEN Positions(pad.buttons) ELSE held

ReadSetButtons(word) ==
  /\ SetButtons(word)
  /\ held' = [bit \in Bits |-> held[bit] \cup {(bit \in word)}]

ReadsNext == \/ \E cycles \in 0..MaxCycles : ReadTick(cycles)
             \/ \E control \in ControlWord : ReadScr(control)
             \/ \E word \in ButtonWords : ReadSetButtons(word)
             \/ WriteElsewhere /\ UNCHANGED held

\* The history stands in the way of no step, so the pad is as fair as before.
ReadsTimePasses == \E cycles \in 1..MaxCycles : ReadTick(cycles)

ReadsSpec == ReadsInit /\ [][ReadsNext]_readVars
ReadsFairSpec == ReadsSpec /\ WF_readVars(ReadsTimePasses)

-----------------------------------------------------------------------------
\* Every bit a read has taken is a position its button was in during that
\* read: nothing of an earlier read is left in it, however latches, clocks,
\* aborts and hardware reads overlap.
ReadReportsTheButtons ==
  \A bit \in Bits : bit < pad.shifted => (bit \in pad.shift) \in held[bit]
=============================================================================
