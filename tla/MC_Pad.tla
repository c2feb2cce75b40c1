------------------------------ MODULE MC_Pad ------------------------------
(* Three buttons, moved freely.                                               *)
EXTENDS PadReads

AnyWords == SUBSET {0, 1, 2}
=============================================================================
