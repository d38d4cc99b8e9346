---------------------------- MODULE MCFrontPanel ----------------------------
(* FrontPanel on a knob of three positions and a tuning capacitor whose     *)
(* readings fall on both sides of a station.                                *)
EXTENDS FrontPanel
=============================================================================
