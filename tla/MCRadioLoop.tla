---------------------------- MODULE MCRadioLoop ----------------------------
(* RadioLoop on a small ring and a stream somewhat longer than it.         *)
EXTENDS RadioLoop
=============================================================================
