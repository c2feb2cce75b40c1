--------------------------- MODULE MC_DisciplinedCpu ---------------------------
(* One address beside the handlers, and status words for every depth.         *)
EXTENDS DisciplinedCpu

OneAddress   == {\h1000}
OneWord      == {\h1000}
ZeroDivision == {EXC_ZERO_DIVISION}

StatusWords ==
  {[np |-> depth = 2, ep |-> depth > 0, id |-> FALSE, ae |-> depth = 0, level |-> 1] :
     depth \in 0..2}
=============================================================================
