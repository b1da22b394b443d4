------------------------------ MODULE MCIrqMon ------------------------------
(* Two vectors, one of them NULL when the program starts, and words of four
   values, so that a counter carries between its words and wraps. *)
EXTENDS IrqMon
=============================================================================
