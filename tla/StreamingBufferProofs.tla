----------------------- MODULE StreamingBufferProofs ------------------------
(***************************************************************************)
(* The ring buffer for every size and every set of bytes: its types, the   *)
(* agreement of its indices, and that it implements the FIFO of ByteFifo,  *)
(* the delivered one whatever the caller does and the promised one when    *)
(* the caller never puts on a full buffer.                                 *)
(***************************************************************************)
EXTENDS StreamingBuffer, TLAPS

\* What one step of the index does, without the modulo.
LEMMA AdvanceStep ==
  ASSUME NEW i \in Index \cup {None}
  PROVE  Advance(i) = IF i = Size - 1 THEN 0 ELSE i + 1
<1>1. CASE i = Size - 1
  BY <1>1, SizeAssumption DEF Advance
<1>2. CASE i # Size - 1
  BY <1>2, SizeAssumption DEF Advance, Index, None
<1> QED BY <1>1, <1>2
-----------------------------------------------------------------------------
(***************************************************************************)
(* Type correctness.  Neither conjunct of the invariant is inductive by    *)
(* itself: get tests only the tail and then reads and moves the head.      *)
(***************************************************************************)
Inv == TypeOK /\ IndicesAgree

\* The starting state satisfies the invariant.
LEMMA InitInv == Init => Inv
BY SizeAssumption DEF Init, Inv, TypeOK, IndicesAgree, None

\* No call breaks the invariant.
LEMMA StepInv == Inv /\ [Next]_vars => Inv'
<1> SUFFICES ASSUME Inv, [Next]_vars PROVE Inv'
  OBVIOUS
<1> USE DEF Inv, TypeOK, IndicesAgree
<1>1. CASE begin
  BY <1>1 DEF begin
<1>2. CASE get
  <2>1. CASE tail = None
    BY <1>2, <2>1 DEF get
  <2>2. CASE tail # None /\ tail = head
    BY <1>2, <2>2 DEF get
  <2>3. CASE tail # None /\ tail # head
    <3>1. tail' = Advance(tail) /\ head' = head /\ storage' = storage
      BY <1>2, <2>3 DEF get
    <3>2. Advance(tail) \in Index
      BY <2>3, AdvanceStep, SizeAssumption DEF Index, None
    <3>3. ret' \in Byte
      BY <1>2, <2>3 DEF get
    <3> QED BY <3>1, <3>2, <3>3, <2>3 DEF Index, None
  <2> QED BY <2>1, <2>2, <2>3
<1>3. ASSUME NEW d \in Byte, put(d) PROVE Inv'
  <2>1. head' = Advance(head) /\ head' \in Index
    BY <1>3, AdvanceStep, SizeAssumption DEF put, Index, None
  <2>2. CASE head' = tail
    BY <1>3, <2>1, <2>2 DEF put, Index, None
  <2>3. CASE head' # tail
    <3>1. storage' = [storage EXCEPT ![head'] = d] /\ ret' = d
          /\ tail' = IF tail = None THEN 0 ELSE tail
      BY <1>3, <2>3 DEF put
    <3>2. storage' \in [Index -> Byte]
      BY <3>1, <1>3
    <3>3. tail' \in Index
      BY <3>1, SizeAssumption DEF Index, None
    <3> QED BY <1>3, <2>1, <3>1, <3>2, <3>3 DEF Index, None
  <2> QED BY <2>2, <2>3
<1>4. CASE UNCHANGED vars
  BY <1>4 DEF vars
<1> QED BY <1>1, <1>2, <1>3, <1>4 DEF Next

\* Every variable of the ring has its type, for every Size and Byte.
THEOREM TypeCorrect == Spec => []TypeOK
<1>1. Spec => []Inv
  BY InitInv, StepInv, PTL DEF Spec
<1>2. Inv => TypeOK
  BY DEF Inv
<1> QED BY <1>1, <1>2, PTL

\* The two indices agree on whether the ring is empty, for every Size and Byte.
THEOREM IndicesAlwaysAgree == Spec => []IndicesAgree
<1>1. Spec => []Inv
  BY InitInv, StepInv, PTL DEF Spec
<1>2. Inv => IndicesAgree
  BY DEF Inv
<1> QED BY <1>1, <1>2, PTL

-----------------------------------------------------------------------------
(***************************************************************************)
(* The ring as a sequence.                                                 *)
(***************************************************************************)

\* The amount of data is between 0 and Size, and 0 only when the ring is empty.
LEMMA DataBounds ==
  Inv => /\ availableData \in 0 .. Size
         /\ availableData = 0 <=> tail = None
BY SizeAssumption DEF Inv, TypeOK, IndicesAgree, availableData, Index, None

\* Every unread byte has a slot.
LEMMA SlotInRange ==
  ASSUME Inv, NEW i \in 1 .. availableData
  PROVE  Slot(i) \in Index
<1>1. tail \in Index
  BY DataBounds, SizeAssumption DEF Inv, TypeOK
<1> QED BY <1>1, DataBounds, SizeAssumption DEF Slot, Index

\* The unread bytes are a sequence of bytes, as long as availableData says.
UnreadIsSequence ==
  /\ Unread \in Seq(Byte)
  /\ Len(Unread) = availableData
  /\ \A i \in 1 .. availableData : Unread[i] = storage[Slot(i)]

\* The unread bytes are a sequence of bytes.
LEMMA UnreadType == Inv => UnreadIsSequence
<1> SUFFICES ASSUME Inv PROVE UnreadIsSequence
  OBVIOUS
<1>1. availableData \in Nat
  BY DataBounds, SizeAssumption
<1>2. \A i \in 1 .. availableData : storage[Slot(i)] \in Byte
  BY SlotInRange DEF Inv, TypeOK
<1>3. Unread \in [1 .. availableData -> Byte]
  BY <1>2 DEF Unread
<1>4. Unread \in Seq(Byte)
  BY <1>1, <1>3
<1>5. Len(Unread) = availableData
  BY <1>1, <1>3, <1>4
<1> QED BY <1>3, <1>4, <1>5 DEF Unread, UnreadIsSequence
-----------------------------------------------------------------------------
(***************************************************************************)
(* Each call as a step of the FIFO.                                        *)
(***************************************************************************)

\* Two sequences of bytes are equal when their lengths and elements are.
LEMMA SeqEqual ==
  ASSUME NEW S, NEW s \in Seq(S), NEW t \in Seq(S), Len(s) = Len(t),
         \A i \in 1 .. Len(s) : s[i] = t[i]
  PROVE  s = t
OBVIOUS

\* What a put while there is space does to the indices.
LEMMA PutIndices ==
  ASSUME Inv, NEW d \in Byte, put(d), availableData < Size
  PROVE  /\ head' = Advance(head) /\ head' # tail /\ head' \in Index
         /\ tail' = IF tail = None THEN 0 ELSE tail
         /\ storage' = [storage EXCEPT ![head'] = d]
         /\ ret' = d
         /\ availableData' = availableData + 1
         /\ \A i \in 1 .. availableData : Slot(i)' = Slot(i) /\ Slot(i) # head'
         /\ \A i : i = availableData + 1 => Slot(i)' = head'
<1> USE SizeAssumption DEF Index, None
<1>1. head' = Advance(head)
  BY DEF put
<1>2. /\ head \in Index \cup {None} /\ tail \in Index \cup {None}
      /\ (head = None) <=> (tail = None)
  BY DEF Inv, TypeOK, IndicesAgree
<1>3. head' = IF head = Size - 1 THEN 0 ELSE head + 1
  BY <1>1, <1>2, AdvanceStep
<1>4. head' # tail
  BY <1>2, <1>3 DEF availableData
<1>5. /\ tail' = IF tail = None THEN 0 ELSE tail
      /\ storage' = [storage EXCEPT ![head'] = d]
      /\ ret' = d
  BY <1>4 DEF put
<1>6. CASE tail = None
  BY <1>1, <1>2, <1>3, <1>4, <1>5, <1>6 DEF availableData, Slot
<1>7. CASE tail # None /\ tail <= head /\ head # Size - 1
  BY <1>1, <1>2, <1>3, <1>4, <1>5, <1>7 DEF availableData, Slot
<1>8. CASE tail # None /\ tail <= head /\ head = Size - 1
  BY <1>1, <1>2, <1>3, <1>4, <1>5, <1>8 DEF availableData, Slot
<1>9. CASE tail # None /\ ~(tail <= head)
  BY <1>1, <1>2, <1>3, <1>4, <1>5, <1>9 DEF availableData, Slot
<1> QED BY <1>6, <1>7, <1>8, <1>9

\* A put while there is space appends the byte.
LEMMA PutAppends ==
  ASSUME Inv, Inv', NEW d \in Byte, put(d), availableData < Size
  PROVE  Unread' = Append(Unread, d) /\ ret' = d
<1>1. /\ Unread' \in Seq(Byte) /\ Len(Unread') = availableData'
      /\ \A i \in 1 .. availableData' : Unread'[i] = storage'[Slot(i)']
  <2>1. UnreadIsSequence'
    BY UnreadType, PTL
  <2> QED BY <2>1 DEF UnreadIsSequence
<1>2. /\ Unread \in Seq(Byte) /\ Len(Unread) = availableData
      /\ \A i \in 1 .. availableData : Unread[i] = storage[Slot(i)]
  BY UnreadType DEF UnreadIsSequence
<1>3. availableData \in Nat /\ availableData' = availableData + 1
  BY DataBounds, PutIndices, SizeAssumption
<1>4. \A i \in 1 .. availableData : storage'[Slot(i)'] = storage[Slot(i)]
  BY PutIndices, SlotInRange DEF Inv, TypeOK
<1>5. \A i : i = availableData + 1 => storage'[Slot(i)'] = d
  BY PutIndices DEF Inv, TypeOK
<1>6. \A i \in 1 .. availableData : Unread'[i] = Append(Unread, d)[i]
  BY <1>1, <1>2, <1>3, <1>4
<1>7. \A i : i = availableData + 1 => Unread'[i] = Append(Unread, d)[i]
  BY <1>1, <1>2, <1>3, <1>5
<1>8. \A i \in 1 .. Len(Unread') : Unread'[i] = Append(Unread, d)[i]
  <2> SUFFICES ASSUME NEW i \in 1 .. availableData'
               PROVE  Unread'[i] = Append(Unread, d)[i]
    BY <1>1
  <2>1. i \in 1 .. availableData \/ i = availableData + 1
    BY <1>3
  <2> QED BY <2>1, <1>6, <1>7
<1>9. Append(Unread, d) \in Seq(Byte) /\ Len(Append(Unread, d)) = Len(Unread')
  BY <1>1, <1>2, <1>3
<1>10. Unread' = Append(Unread, d)
  BY <1>1, <1>8, <1>9, SeqEqual
<1> QED BY <1>10, PutIndices
\* A put on a full ring leaves only the oldest byte.
LEMMA PutOverruns ==
  ASSUME Inv, Inv', NEW d \in Byte, put(d), availableData = Size
  PROVE  Unread' = << Head(Unread) >> /\ ret' = None
<1> USE SizeAssumption DEF Index, None
<1>1. /\ head \in Index \cup {None} /\ tail \in Index \cup {None}
      /\ (head = None) <=> (tail = None)
  BY DEF Inv, TypeOK, IndicesAgree
<1>2. head' = IF head = Size - 1 THEN 0 ELSE head + 1
  BY <1>1, AdvanceStep DEF put
<1>3. head' = tail
  BY <1>1, <1>2 DEF availableData
<1>4. tail' = tail /\ storage' = storage /\ ret' = None
  BY <1>3 DEF put
<1>5. availableData' = 1 /\ Slot(1)' = Slot(1)
  BY <1>1, <1>3, <1>4 DEF availableData, Slot
<1>6. UnreadIsSequence /\ UnreadIsSequence'
  BY UnreadType, PTL
<1>7. Unread'[1] = Unread[1]
  BY <1>4, <1>5, <1>6 DEF UnreadIsSequence
<1>8. Head(Unread) = Unread[1]
  BY <1>6 DEF UnreadIsSequence
<1>9. /\ << Head(Unread) >> \in Seq(Byte) /\ Len(<< Head(Unread) >>) = 1
      /\ << Head(Unread) >>[1] = Unread[1]
  BY <1>6, <1>8 DEF UnreadIsSequence
<1>10. Unread' \in Seq(Byte) /\ Len(Unread') = 1
  BY <1>5, <1>6 DEF UnreadIsSequence
<1>11. \A i \in 1 .. Len(Unread') : Unread'[i] = << Head(Unread) >>[i]
  BY <1>7, <1>9, <1>10
<1>12. Unread' = << Head(Unread) >>
  BY <1>9, <1>10, <1>11, SeqEqual
<1> QED BY <1>4, <1>12

\* What a get on a ring with data does to the indices.
LEMMA GetIndices ==
  ASSUME Inv, get, availableData > 0
  PROVE  /\ ret' = storage[Slot(1)] /\ storage' = storage
         /\ availableData' = availableData - 1
         /\ \A i \in 1 .. availableData - 1 : Slot(i)' = Slot(i + 1)
<1> USE SizeAssumption DEF Index, None
<1>1. /\ head \in Index /\ tail \in Index
  BY DataBounds DEF Inv, TypeOK, IndicesAgree
<1>2. Slot(1) = tail
  BY <1>1 DEF Slot
<1>3. ret' = storage[Slot(1)] /\ storage' = storage
  BY <1>1, <1>2 DEF get
<1>4. CASE tail = head
  <2>1. head' = None /\ tail' = None
    BY <1>1, <1>4 DEF get
  <2> QED BY <1>1, <1>3, <1>4, <2>1 DEF availableData
<1>5. CASE tail # head
  <2>1. head' = head /\ tail' = Advance(tail)
    BY <1>1, <1>5 DEF get
  <2>2. tail' = IF tail = Size - 1 THEN 0 ELSE tail + 1
    BY <1>1, <2>1, AdvanceStep
  <2>3. CASE tail < head
    BY <1>1, <1>3, <2>1, <2>2, <2>3 DEF availableData, Slot
  <2>4. CASE head < tail
    BY <1>1, <1>3, <2>1, <2>2, <2>4 DEF availableData, Slot
  <2> QED BY <1>1, <1>5, <2>3, <2>4
<1> QED BY <1>4, <1>5

\* A get on a ring with data returns and removes the oldest byte.
LEMMA GetRemoves ==
  ASSUME Inv, Inv', get, availableData > 0
  PROVE  Unread # << >> /\ Unread' = Tail(Unread) /\ ret' = Head(Unread)
<1>1. UnreadIsSequence /\ UnreadIsSequence'
  BY UnreadType, PTL
<1>2. availableData \in Nat
  BY DataBounds, SizeAssumption
<1>3. Unread # << >> /\ Head(Unread) = storage[Slot(1)]
  BY <1>1, <1>2 DEF UnreadIsSequence
<1>4. /\ Tail(Unread) \in Seq(Byte) /\ Len(Tail(Unread)) = Len(Unread')
      /\ \A i \in 1 .. availableData - 1 : Tail(Unread)[i] = Unread[i + 1]
  BY <1>1, <1>2, <1>3, GetIndices DEF UnreadIsSequence
<1>5. \A i \in 1 .. Len(Unread') : Unread'[i] = Tail(Unread)[i]
  <2> SUFFICES ASSUME NEW i \in 1 .. availableData - 1
               PROVE  Unread'[i] = Tail(Unread)[i]
    BY <1>1, GetIndices DEF UnreadIsSequence
  <2>1. Unread'[i] = storage[Slot(i + 1)]
    BY <1>1, <1>2, GetIndices DEF UnreadIsSequence
  <2>2. Tail(Unread)[i] = storage[Slot(i + 1)]
    BY <1>1, <1>2, <1>4 DEF UnreadIsSequence
  <2> QED BY <2>1, <2>2
<1>6. Unread' = Tail(Unread)
  BY <1>1, <1>4, <1>5, SeqEqual DEF UnreadIsSequence
<1> QED BY <1>3, <1>6, GetIndices

\* An empty ring is the empty sequence.
LEMMA EmptyUnread == Inv /\ availableData = 0 => Unread = << >>
BY UnreadType DEF UnreadIsSequence

-----------------------------------------------------------------------------
(***************************************************************************)
(* The ring implements the FIFO.                                           *)
(***************************************************************************)

\* The ring starts as an empty FIFO.
LEMMA InitFifo == Init => Fifo!Init
<1> SUFFICES ASSUME Init PROVE Fifo!Init
  OBVIOUS
<1>1. availableData = 0
  BY DEF Init, availableData
<1> QED BY <1>1, InitInv, EmptyUnread DEF Init, Fifo!Init, Fifo!NoByte, None

\* begin, get and a stuttering step of the ring are steps of either FIFO.
LEMMA BeginClears == ASSUME Inv, Inv', begin PROVE Fifo!Clear
<1>1. availableData' = 0
  BY DEF begin, availableData
<1>2. Unread' = << >>
  <2>1. UnreadIsSequence'
    BY UnreadType, PTL
  <2> QED BY <1>1, <2>1 DEF UnreadIsSequence
<1> QED BY <1>2 DEF begin, Fifo!Clear

\* A get takes the oldest byte, or finds none in either.
LEMMA GetIsGet == ASSUME Inv, Inv', get PROVE Fifo!Get
<1>1. CASE availableData = 0
  <2>1. tail = None
    BY <1>1, DataBounds
  <2>2. ret' = None /\ UNCHANGED <<head, tail, storage>>
    BY <2>1 DEF get
  <2>3. Unread' = Unread
    BY <2>2 DEF Unread, availableData, Slot
  <2> QED BY <1>1, <2>2, <2>3, EmptyUnread DEF Fifo!Get, Fifo!NoByte, None
<1>2. CASE availableData > 0
  BY <1>2, GetRemoves DEF Fifo!Get
<1> QED BY <1>1, <1>2, DataBounds, SizeAssumption

\* What changes nothing in the ring changes nothing in the FIFO.
LEMMA StutterFifo == UNCHANGED vars => UNCHANGED Fifo!vars
BY DEF vars, Fifo!vars, Unread, availableData, Slot

\* A put while there is space is accepted by the FIFO,
LEMMA PutIsAccept ==
  ASSUME Inv, Inv', NEW d \in Byte, put(d), availableData < Size
  PROVE  Fifo!Accept(d)
BY PutAppends, UnreadType DEF UnreadIsSequence, Fifo!Accept

\* and one without is its overrun.
LEMMA PutIsOverrun ==
  ASSUME Inv, Inv', NEW d \in Byte, put(d), availableData = Size
  PROVE  Fifo!Overrun
BY PutOverruns, UnreadType DEF UnreadIsSequence, Fifo!Overrun, Fifo!NoByte, None

\* Whatever its caller does, the ring is the FIFO that loses bytes only when a
\* put finds it full, and then all of them but the oldest.
THEOREM RingIsDeliveredFifo == Spec => ImplementsDelivered
<1>1. Inv /\ Inv' /\ [Next]_vars => [Fifo!DeliveredNext]_(Fifo!vars)
  <2> SUFFICES ASSUME Inv, Inv', [Next]_vars
               PROVE  [Fifo!DeliveredNext]_(Fifo!vars)
    OBVIOUS
  <2>1. CASE begin
    BY <2>1, BeginClears DEF Fifo!DeliveredNext
  <2>2. CASE get
    BY <2>2, GetIsGet DEF Fifo!DeliveredNext
  <2>3. ASSUME NEW d \in Byte, put(d) PROVE Fifo!DeliveredNext
    <3>1. availableData < Size \/ availableData = Size
      BY DataBounds, SizeAssumption
    <3> QED BY <2>3, <3>1, PutIsAccept, PutIsOverrun DEF Fifo!DeliveredNext
  <2>4. CASE UNCHANGED vars
    BY <2>4, StutterFifo
  <2> QED BY <2>1, <2>2, <2>3, <2>4 DEF Next
<1> QED BY <1>1, InitInv, StepInv, InitFifo, PTL
        DEF Spec, ImplementsDelivered, Fifo!Delivered

\* A caller that puts only while availableSpace() > 0 gets the promised FIFO.
THEOREM GuardedRingIsPromisedFifo == GuardedSpec => ImplementsPromised
<1>1. Inv /\ Inv' /\ [GuardedNext]_vars => [Fifo!PromisedNext]_(Fifo!vars)
  <2> SUFFICES ASSUME Inv, Inv', [GuardedNext]_vars
               PROVE  [Fifo!PromisedNext]_(Fifo!vars)
    OBVIOUS
  <2>1. CASE begin
    BY <2>1, BeginClears DEF Fifo!PromisedNext
  <2>2. CASE get
    BY <2>2, GetIsGet DEF Fifo!PromisedNext
  <2>3. ASSUME availableSpace > 0, NEW d \in Byte, put(d)
        PROVE  Fifo!PromisedNext
    <3>1. availableData < Size
      BY <2>3, DataBounds, SizeAssumption DEF availableSpace
    <3> QED BY <2>3, <3>1, PutIsAccept DEF Fifo!PromisedNext
  <2>4. CASE UNCHANGED vars
    BY <2>4, StutterFifo
  <2> QED BY <2>1, <2>2, <2>3, <2>4 DEF GuardedNext
<1>2. [GuardedNext]_vars => [Next]_vars
  BY DEF GuardedNext, Next
<1> QED BY <1>1, <1>2, InitInv, StepInv, InitFifo, PTL
        DEF GuardedSpec, ImplementsPromised, Fifo!Promised
=============================================================================
