-------------------------- MODULE StreamingBuffer ---------------------------
(***************************************************************************)
(* The ring buffer of libraries/StreamingBuffer, a circular array with the *)
(* index of the last byte put (head) and of the next byte to get (tail),   *)
(* both -1 while the buffer is empty.  libraries/SPIRingBuffer runs the    *)
(* same algorithm over an external RAM; module SPIRingBuffer shows that it *)
(* implements this one.                                                    *)
(*                                                                         *)
(* The class is not reentrant and is only ever called from loop() or       *)
(* setup(), so each call is one atomic step.                               *)
(***************************************************************************)
EXTENDS Integers, Sequences

CONSTANTS Size,       \* _size, the length of the storage
          Byte        \* the values a byte can take

ASSUME SizeAssumption == Size \in Nat \ {0}
ASSUME ByteAssumption == Byte \subseteq Nat /\ Byte # {}

VARIABLES head, tail, \* _head and _tail
          storage,    \* _storage
          ret         \* what the last put or get returned

vars == <<head, tail, storage, ret>>

None  == -1           \* no index, no byte
Index == 0 .. Size - 1

\* The storage belongs to the caller, who need not have cleared it.
Init ==
  /\ head = None
  /\ tail = None
  /\ storage \in [Index -> Byte]
  /\ ret = None

-----------------------------------------------------------------------------
availableData ==
  IF tail = None /\ head = None THEN 0
  ELSE IF tail <= head THEN head - tail + 1
  ELSE Size - (tail - head) + 1

availableSpace == Size - availableData

bufferFull == availableSpace = 0

-----------------------------------------------------------------------------
\* A mutant: the index does not wrap.
Advance_NoWrap(i) == i + 1

\* The index after i; None has 0 as its successor.
Advance(i) == (i + 1) % Size

begin ==
  /\ head' = None
  /\ tail' = None
  /\ UNCHANGED <<storage, ret>>

\* The head moves first, and stays moved when the buffer turns out full.
put(d) ==
  /\ head' = Advance(head)
  /\ IF head' = tail
     THEN ret' = None /\ UNCHANGED <<tail, storage>>
     ELSE /\ storage' = [storage EXCEPT ![head'] = d]
          /\ tail' = IF tail = None THEN 0 ELSE tail
          /\ ret' = d

\* Mutants: reading the last byte resets the head only, or resets nothing.
get_HeadOnly ==
  /\ IF tail = None
     THEN ret' = None /\ UNCHANGED <<head, tail>>
     ELSE /\ ret' = storage[tail]
          /\ head' = IF tail = head THEN None ELSE head
          /\ tail' = Advance(tail)
  /\ UNCHANGED storage

get_NoReset ==
  /\ IF tail = None
     THEN ret' = None /\ UNCHANGED tail
     ELSE ret' = storage[tail] /\ tail' = Advance(tail)
  /\ UNCHANGED <<head, storage>>

get ==
  /\ IF tail = None
     THEN ret' = None /\ UNCHANGED <<head, tail>>
     ELSE /\ ret' = storage[tail]
          /\ IF tail = head
             THEN head' = None /\ tail' = None
             ELSE tail' = Advance(tail) /\ UNCHANGED head
  /\ UNCHANGED storage

Next == begin \/ get \/ \E d \in Byte : put(d)

Spec == Init /\ [][Next]_vars

-----------------------------------------------------------------------------
\* A caller that, like InternetRadio's loop(), puts only while there is space.
GuardedNext == begin \/ get \/ (availableSpace > 0 /\ \E d \in Byte : put(d))

GuardedSpec == Init /\ [][GuardedNext]_vars

-----------------------------------------------------------------------------
(***************************************************************************)
(* Properties.                                                             *)
(***************************************************************************)

\* Every variable has its type.
TypeOK ==
  /\ head \in Index \cup {None}
  /\ tail \in Index \cup {None}
  /\ storage \in [Index -> Byte]
  /\ ret \in Byte \cup {None}

\* head and tail leave and re-enter the empty state together: the test
\* "_tail == -1" that get() and put() make alone then means "empty".
IndicesAgree == (head = None) <=> (tail = None)

\* The slot of the i-th unread byte, oldest first.
Slot(i) == IF tail + i - 1 < Size THEN tail + i - 1 ELSE tail + i - 1 - Size

\* The unread bytes, oldest first.
Unread == [i \in 1 .. availableData |-> storage[Slot(i)]]

Fifo == INSTANCE ByteFifo WITH Capacity <- Size, queue <- Unread

\* Whatever the sequence of calls, the ring is the delivered FIFO: bytes come
\* out in the order they went in, none twice, and none is lost but by a put
\* on a full buffer, which keeps exactly the oldest one.
ImplementsDelivered == Fifo!Delivered

\* "Returns -1 if the buffer is full. Else returns the added data."
\* (SPIRingBuffer.cpp:80): a put on a full ring is refused, and no byte is ever
\* lost.  So it is for a caller that puts only while availableSpace() > 0, but not
\* for any other.
ImplementsPromised == Fifo!Promised
=============================================================================
