-------------------------- MODULE MCSPIRingBuffer --------------------------
(* SPIRingBuffer on a chip of a few pages: every sequence of calls and every *)
(* moment of a reset, no bound.                                             *)
EXTENDS SPIRingBuffer
=============================================================================
