------------------------- MODULE MCStreamingBuffer --------------------------
(* StreamingBuffer on a small ring: every sequence of calls, no bound.     *)
EXTENDS StreamingBuffer
=============================================================================
