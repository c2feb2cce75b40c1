-------------------------------- MODULE MC_Cpu --------------------------------
(* A program of one address beside the handlers, that may open the gates, or  *)
(* keep level one while it does and turn the address trap on.                 *)
EXTENDS CpuHistory

Watched == [Clear EXCEPT !.ae = TRUE, !.level = 1]

OneAddress  == {\h1000}
SomeWords   == {\h1000, \h1001}
StatusWords == {Clear, Watched}
=============================================================================
