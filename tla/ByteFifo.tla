------------------------------ MODULE ByteFifo ------------------------------
(***************************************************************************)
(* What the radio's byte buffers amount to, seen by their caller: a queue  *)
(* of at most Capacity bytes and the value the last call returned.         *)
(*                                                                         *)
(* Two contracts share the state.  In the PROMISED one a put on a full     *)
(* buffer is refused and changes nothing, which is what "Returns -1 if the *)
(* buffer is full" leads a caller to expect.  In the DELIVERED one the     *)
(* refused put also throws away every byte but the oldest, which is what   *)
(* StreamingBuffer::put and SPIRingBuffer::put do: they advance the head   *)
(* before they notice that the buffer is full.                             *)
(***************************************************************************)
EXTENDS Integers, Sequences

CONSTANTS Capacity,   \* how many bytes the buffer holds
          Byte        \* the values a byte can take

VARIABLES queue,      \* the unread bytes, oldest first
          ret         \* what the last put or get returned

vars == <<queue, ret>>

NoByte == -1          \* returned instead of a byte

Init == queue = << >> /\ ret = NoByte

Accept(d) ==
  /\ Len(queue) < Capacity
  /\ queue' = Append(queue, d)
  /\ ret' = d

\* The promised refusal: nothing but the return value changes.
Refuse ==
  /\ Len(queue) = Capacity
  /\ ret' = NoByte
  /\ UNCHANGED queue

\* The delivered refusal: only the oldest byte survives.
Overrun ==
  /\ Len(queue) = Capacity
  /\ ret' = NoByte
  /\ queue' = << Head(queue) >>

Get ==
  IF queue = << >>
  THEN ret' = NoByte /\ UNCHANGED queue
  ELSE ret' = Head(queue) /\ queue' = Tail(queue)

\* begin() of StreamingBuffer, reset() of SPIRingBuffer.
Clear == queue' = << >> /\ UNCHANGED ret

PromisedNext  == (\E d \in Byte : Accept(d)) \/ Refuse \/ Get \/ Clear
DeliveredNext == (\E d \in Byte : Accept(d)) \/ Overrun \/ Get \/ Clear

Promised  == Init /\ [][PromisedNext]_vars
Delivered == Init /\ [][DeliveredNext]_vars
=============================================================================
