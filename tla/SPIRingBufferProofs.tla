------------------------ MODULE SPIRingBufferProofs ------------------------
(***************************************************************************)
(* The ring over the SPI RAM for every chip of up to 256 pages of up to    *)
(* 256 bytes: the chip is in byte mode whenever it is accessed, and the    *)
(* ring implements StreamingBuffer, wherever the microcontroller is reset. *)
(*                                                                         *)
(* Neither holds by itself from step to step.  RingInv says what is known  *)
(* of a transaction in progress: what the chip has received and what is    *)
(* still to be sent are, one after the other, the message of the call.     *)
(* Through StreamingBuffer the ring implements the queue of ByteFifo.      *)
(***************************************************************************)
EXTENDS SPIRingBuffer, TLAPS

-----------------------------------------------------------------------------
(***************************************************************************)
(* Arithmetic: the indices and the address.                                *)
(***************************************************************************)

\* The ring has at least one slot.
LEMMA LengthType == RING_BUFFER_LENGTH \in Nat /\ RING_BUFFER_LENGTH > 0
<1>1. ASSUME NEW p \in Nat, NEW q \in Nat, p > 0, q > 0
      PROVE  p * q \in Nat /\ p * q > 0
  BY <1>1
<1> QED BY <1>1, RamAssumption DEF RING_BUFFER_LENGTH

\* What one step of the index does, without the modulo.
LEMMA AdvanceStep ==
  ASSUME NEW i \in Index \cup {None}
  PROVE  Advance(i) = IF i = RING_BUFFER_LENGTH - 1 THEN 0 ELSE i + 1
<1>1. CASE i = RING_BUFFER_LENGTH - 1
  BY <1>1, LengthType DEF Advance
<1>2. CASE i # RING_BUFFER_LENGTH - 1
  BY <1>2, LengthType DEF Advance, Index, None
<1> QED BY <1>1, <1>2

\* How much space two indices leave, and that there is some unless they meet.
Space(h, t) ==
  RING_BUFFER_LENGTH - (IF t = None /\ h = None THEN 0
                        ELSE IF t <= h THEN h - t + 1
                        ELSE RING_BUFFER_LENGTH - (t - h) + 1)

LEMMA RoomMeansSpace ==
  ASSUME NEW h \in Index \cup {None}, NEW t \in Index \cup {None}, h = None <=> t = None
  PROVE  /\ Space(h, t) \in Nat
         /\ Space(h, t) > 0 <=> Advance(h) # t
<1>1. CASE h = None
  BY <1>1, AdvanceStep, LengthType DEF Space, Index, None
<1>2. CASE h # None
  <2>1. h \in Int /\ t \in Int /\ 0 <= h /\ h < RING_BUFFER_LENGTH
        /\ 0 <= t /\ t < RING_BUFFER_LENGTH /\ RING_BUFFER_LENGTH \in Int /\ t # None
    BY <1>2, LengthType DEF Index, None
  <2>2. Space(h, t) = RING_BUFFER_LENGTH - (IF t <= h THEN h - t + 1
                                            ELSE RING_BUFFER_LENGTH - (t - h) + 1)
    BY <2>1 DEF Space
  <2> QED BY <2>1, <2>2, AdvanceStep
<1> QED BY <1>1, <1>2

\* What a step back does.
LEMMA BackStep ==
  ASSUME NEW i \in Index
  PROVE  (i + RING_BUFFER_LENGTH - 1) % RING_BUFFER_LENGTH
           = IF i = 0 THEN RING_BUFFER_LENGTH - 1 ELSE i - 1
<1>1. CASE i = 0
  BY <1>1, LengthType
<1>2. CASE i # 0
  <2>1. i - 1 \in 0 .. RING_BUFFER_LENGTH - 1 /\ i - 1 < RING_BUFFER_LENGTH
    BY <1>2, LengthType DEF Index
  <2>2. ASSUME NEW n \in Nat, n > 0, NEW j \in Int, 0 <= j, j < n
        PROVE  (j + n) % n = j
    BY <2>2
  <2>3. ((i - 1) + RING_BUFFER_LENGTH) % RING_BUFFER_LENGTH = i - 1
    BY <2>1, <2>2, LengthType
  <2> QED BY <2>3, <1>2, LengthType DEF Index
<1> QED BY <1>1, <1>2

\* Quotient and remainder.
LEMMA DivMod ==
  ASSUME NEW a \in Nat, NEW p \in Nat, p > 0
  PROVE  /\ a \div p \in Nat /\ a % p \in Nat /\ a % p < p
         /\ ((a \div p) * p) + (a % p) = a
  OBVIOUS

\* The two address bytes are bytes, and the chip gets the address they were made of.
LEMMA AddressArrives ==
  ASSUME NEW a \in Index
  PROVE  /\ (a \div PageSize) % 256 \in 0 .. 255
         /\ a % PageSize \in 0 .. 255
         /\ (((a \div PageSize) % 256) * PageSize + (a % PageSize)) % RING_BUFFER_LENGTH = a
<1> DEFINE q == a \div PageSize
<1> DEFINE r == a % PageSize
<1>1. a \in Nat /\ a < RING_BUFFER_LENGTH
  BY LengthType DEF Index
<1>2. /\ q \in Nat /\ r \in Nat /\ r < PageSize
      /\ q * PageSize + r = a
  BY <1>1, DivMod, RamAssumption
<1> HIDE DEF q, r
<1>3. q < Pages
  <2>1. SUFFICES ASSUME q >= Pages PROVE FALSE
    BY <1>2, RamAssumption
  <2>2. ASSUME NEW x \in Nat, NEW y \in Nat, NEW p \in Nat, x >= y
        PROVE  x * p >= p * y
    BY <2>2
  <2>3. q * PageSize >= RING_BUFFER_LENGTH
    BY <2>1, <2>2, <1>2, RamAssumption DEF RING_BUFFER_LENGTH
  <2>4. ASSUME NEW x \in Int, NEW l \in Nat, x >= l, a < l, x + r = a
        PROVE  FALSE
    BY <2>4, <1>1, <1>2
  <2>5. q * PageSize \in Int
    BY <1>2, RamAssumption
  <2> QED BY <1>1, <1>2, <2>3, <2>4, <2>5, LengthType
<1>4. q % 256 = q /\ q \in 0 .. 255
  BY <1>2, <1>3, RamAssumption
<1>5. r \in 0 .. 255
  BY <1>2, RamAssumption
<1>6. a % RING_BUFFER_LENGTH = a
  BY <1>1, LengthType
<1>7. (q % 256) * PageSize + r = a
  BY <1>2, <1>4
<1>8. ((q % 256) * PageSize + r) % RING_BUFFER_LENGTH = a
  BY <1>6, <1>7
<1> QED BY <1>4, <1>5, <1>8 DEF q, r

-----------------------------------------------------------------------------
(***************************************************************************)
(* The inductive invariant.                                                *)
(***************************************************************************)

\* The bytes of the access that the call in progress makes.
message ==
  IF op = "put" THEN << WRITE >> \o AddressBytes(head) \o << data >>
                ELSE << READ >> \o AddressBytes(tail) \o << 255 >>

\* r has been received and o is to be sent, and together they are m.
InTransit(r, o, m) ==
  /\ Len(r) + Len(o) = Len(m)
  /\ \A i \in 1 .. Len(r) : r[i] = m[i]
  /\ \A i \in 1 .. Len(o) : o[i] = m[Len(r) + i]

\* Between transactions nothing is left to be sent, and but for a chip that a reset left
\* selected, none is.
BusQuiet ==
  /\ pc \in {"off", "idle", "mode", "access"} => out = << >>
  /\ pc \in {"idle", "mode", "access"} => ~selected

\* The cached mode is that of the chip, and it is set before the access.
ModeKnown ==
  /\ operationMode = BYTE_MODE => ramMode = BYTE_MODE
  /\ pc \in {"access", "accessTransfer"} => operationMode = BYTE_MODE

\* In the transaction that sets the mode; the mode is set with its last byte.
ModeSent ==
  pc = "modeTransfer" =>
    /\ selected /\ InTransit(received, out, << WRSR, BYTE_MODE >>)
    /\ out = << >> => ramMode = BYTE_MODE

\* In the transaction of the access; the byte got comes with its last byte.
AccessSent ==
  pc = "accessTransfer" =>
    /\ selected /\ InTransit(received, out, message)
    /\ op = "get" /\ out = << >> => data = memory[tail]

\* A put has moved the head to a free slot; otherwise the indices agree on emptiness.
IndicesReady ==
  /\ op = "put" => /\ data \in Byte /\ head \in Index /\ head # tail
                   /\ tail = None => head = 0
  /\ op = "get" => tail # None
  /\ op # "put" => (head = None <=> tail = None)

\* The inductive invariant.
RingInv ==
  /\ TypeOK
  /\ BusQuiet /\ ModeKnown /\ ModeSent /\ AccessSent /\ IndicesReady

\* Four bytes put together.
LEMMA FourBytes ==
  ASSUME NEW S, NEW a \in S, NEW b \in S, NEW c \in S, NEW d \in S
  PROVE  LET m == << a >> \o << b, c >> \o << d >> IN
         m \in Seq(S) /\ Len(m) = 4 /\ m[1] = a /\ m[2] = b /\ m[3] = c /\ m[4] = d
OBVIOUS

\* The message is an instruction, an address and a byte.
LEMMA MessageBytes ==
  ASSUME TypeOK, op \in {"put", "get"}, op = "put" => head # None, op = "get" => tail # None
  PROVE  LET a == IF op = "put" THEN head ELSE tail IN
         /\ message \in Seq(0 .. 255) /\ Len(message) = 4
         /\ message[1] = IF op = "put" THEN WRITE ELSE READ
         /\ message[2] = (a \div PageSize) % 256
         /\ message[3] = a % PageSize
         /\ message[4] = IF op = "put" THEN data ELSE 255
<1>1. data \in 0 .. 255 /\ WRITE \in 0 .. 255 /\ READ \in 0 .. 255 /\ 255 \in 0 .. 255
  BY DEF TypeOK, WRITE, READ
<1>2. CASE op = "put"
  <2>1. head \in Index
    BY <1>2 DEF TypeOK
  <2>2. (head \div PageSize) % 256 \in 0 .. 255 /\ head % PageSize \in 0 .. 255
    BY <2>1, AddressArrives
  <2>3. message = << WRITE >> \o << (head \div PageSize) % 256, head % PageSize >> \o << data >>
    BY <1>2 DEF message, AddressBytes
  <2> QED BY <1>1, <2>2, <2>3, <1>2, FourBytes
<1>3. CASE op = "get"
  <2>1. tail \in Index
    BY <1>3 DEF TypeOK
  <2>2. (tail \div PageSize) % 256 \in 0 .. 255 /\ tail % PageSize \in 0 .. 255
    BY <2>1, AddressArrives
  <2>3. message = << READ >> \o << (tail \div PageSize) % 256, tail % PageSize >> \o << 255 >>
    BY <1>3 DEF message, AddressBytes
  <2> QED BY <1>1, <2>2, <2>3, <1>3, FourBytes
<1> QED BY <1>2, <1>3

\* Only the empty sequence has no length.
LEMMA EmptyLength ==
  ASSUME NEW S, NEW s \in Seq(S)
  PROVE  s = << >> <=> Len(s) = 0
OBVIOUS

\* Before the first byte all of the message is to be sent.
LEMMA TransitStarts ==
  ASSUME NEW S, NEW m \in Seq(S)
  PROVE  InTransit(<< >>, m, m)
BY DEF InTransit

\* One more byte arrives, and it is the next one of the message.
LEMMA TransitStep ==
  ASSUME NEW S, NEW m \in Seq(S), NEW r \in Seq(S), NEW o \in Seq(S),
         o # << >>, InTransit(r, o, m)
  PROVE  /\ Head(o) = m[Len(r) + 1] /\ Head(o) \in S
         /\ Tail(o) \in Seq(S) /\ Len(Tail(o)) = Len(o) - 1
         /\ Append(r, Head(o)) \in Seq(S)
         /\ Len(r) < Len(m)
         /\ InTransit(Append(r, Head(o)), Tail(o), m)
         /\ Tail(o) = << >> <=> Len(r) = Len(m) - 1
<1>1. Len(o) > 0 /\ Len(o) \in Nat /\ Len(r) \in Nat /\ Len(m) \in Nat
  OBVIOUS
<1>2. Head(o) = o[1] /\ o[1] = m[Len(r) + 1]
  BY <1>1 DEF InTransit
<1>3. Tail(o) \in Seq(S) /\ Len(Tail(o)) = Len(o) - 1
      /\ \A i \in 1 .. Len(o) - 1 : Tail(o)[i] = o[i + 1]
  BY <1>1
<1>4. Head(o) \in S
  <2>1. 1 \in 1 .. Len(o)
    BY <1>1
  <2>2. o[1] \in S
    BY <2>1
  <2> QED BY <1>2, <2>2
<1> DEFINE r2 == Append(r, Head(o))
<1>5. r2 \in Seq(S) /\ Len(r2) = Len(r) + 1 /\ r2[Len(r) + 1] = Head(o)
      /\ \A i \in 1 .. Len(r) : r2[i] = r[i]
  BY <1>4
<1> HIDE DEF r2
<1>6. InTransit(r2, Tail(o), m)
  <2>1. Len(r2) + Len(Tail(o)) = Len(m)
    BY <1>1, <1>3, <1>5 DEF InTransit
  <2>2. ASSUME NEW i \in 1 .. Len(r2) PROVE r2[i] = m[i]
    <3>1. CASE i = Len(r) + 1
      BY <1>2, <1>5, <3>1
    <3>2. CASE i # Len(r) + 1
      <4>1. i \in 1 .. Len(r)
        BY <1>1, <1>5, <3>2
      <4> QED BY <4>1, <1>5 DEF InTransit
    <3> QED BY <3>1, <3>2
  <2>3. ASSUME NEW i \in 1 .. Len(Tail(o)) PROVE Tail(o)[i] = m[Len(r2) + i]
    <3>1. i + 1 \in 1 .. Len(o) /\ i \in 1 .. Len(o) - 1 /\ Len(r2) + i = Len(r) + (i + 1)
      BY <1>1, <1>3, <1>5
    <3>2. o[i + 1] = m[Len(r) + (i + 1)]
      BY <3>1 DEF InTransit
    <3> QED BY <1>3, <3>1, <3>2
  <2> QED BY <2>1, <2>2, <2>3 DEF InTransit
<1>7. Len(r) < Len(m) /\ (Tail(o) = << >> <=> Len(r) = Len(m) - 1)
  <2>1. Len(r) + Len(o) = Len(m)
    BY DEF InTransit
  <2>3. Tail(o) = << >> <=> Len(Tail(o)) = 0
    BY <1>3, EmptyLength
  <2>4. Len(Tail(o)) = Len(o) - 1
    BY <1>3
  <2>5. Len(r) < Len(m)
    BY <1>1, <2>1
  <2> DEFINE a == Len(r)
  <2> DEFINE b == Len(o)
  <2> DEFINE c == Len(m)
  <2> DEFINE d == Len(Tail(o))
  <2>6. a \in Int /\ b \in Int /\ c \in Int /\ d \in Int /\ a + b = c /\ d = b - 1
    BY <1>1, <2>1, <2>4
  <2>7. (d = 0 => a = c - 1) /\ (a = c - 1 => d = 0)
    <3> HIDE DEF a, b, c, d
    <3> QED BY <2>6
  <2> QED BY <2>3, <2>5, <2>7
<1> QED BY <1>2, <1>3, <1>4, <1>5, <1>6, <1>7 DEF r2
-----------------------------------------------------------------------------
(***************************************************************************)
(* Every step keeps it.                                                    *)
(***************************************************************************)

\* The invariant holds at power up.
LEMMA InitRing == Init => RingInv
<1> SUFFICES ASSUME Init PROVE RingInv
  OBVIOUS
<1>1. TypeOK
  <2>1. << >> \in Seq(0 .. 255) /\ Len(<< >>) = 0
    OBVIOUS
  <2>2. (op = "none" <=> pc \in {"off", "idle"}) /\ op \in {"none", "put", "get"}
    BY DEF Init
  <2>3. /\ operationMode \in {BYTE_MODE, NO_MODE} /\ ramMode \in {0, BYTE_MODE}
        /\ pc \in {"off", "idle", "mode", "modeTransfer", "access", "accessTransfer"}
        /\ head \in Index \cup {None} /\ tail \in Index \cup {None}
        /\ ret \in Byte \cup {None} /\ selected \in BOOLEAN /\ memory \in [Index -> Byte]
    BY DEF Init, initialMode
  <2>4. out \in Seq(0 .. 255) /\ Len(out) <= 4 /\ received \in Seq(0 .. 255) /\ Len(received) <= 4
    BY <2>1 DEF Init
  <2>5. data \in 0 .. 255
    BY DEF Init
  <2> QED BY <2>2, <2>3, <2>4, <2>5 DEF TypeOK
<1>2. BusQuiet /\ ModeSent /\ AccessSent /\ IndicesReady
  BY DEF Init, BusQuiet, ModeSent, AccessSent, IndicesReady
<1>3. ModeKnown
  BY DEF Init, ModeKnown, initialMode, NO_MODE, BYTE_MODE
<1> QED BY <1>1, <1>2, <1>3 DEF RingInv

\* It is kept by begin, reset, and put and get up to the access.
LEMMA CallsStart ==
  ASSUME RingInv, begin \/ reset \/ get \/ (\E d \in Byte : put(d))
  PROVE  RingInv'
<1> USE DEF RingInv, vars, object, call, chip
<1>1. CASE begin
  <2> USE <1>1 DEF begin, Goto, Deselect
  <2>1. TypeOK'
    BY DEF TypeOK
  <2>2. BusQuiet' /\ ModeKnown'
    BY DEF BusQuiet, ModeKnown
  <2>3. ModeSent' /\ AccessSent'
    BY DEF ModeSent, AccessSent
  <2>4. IndicesReady'
    BY DEF IndicesReady, TypeOK
  <2> QED BY <2>1, <2>2, <2>3, <2>4
<1>2. CASE reset
  <2> USE <1>2 DEF reset
  <2>1. TypeOK'
    BY DEF TypeOK
  <2>2. BusQuiet' /\ ModeKnown'
    BY DEF BusQuiet, ModeKnown
  <2>3. ModeSent' /\ AccessSent'
    BY DEF ModeSent, AccessSent
  <2>4. IndicesReady'
    BY DEF IndicesReady, TypeOK
  <2> QED BY <2>1, <2>2, <2>3, <2>4
<1>3. CASE get
  <2> USE <1>3 DEF get
  <2>1. TypeOK'
    BY DEF TypeOK
  <2>2. BusQuiet' /\ ModeKnown'
    BY DEF BusQuiet, ModeKnown
  <2>3. ModeSent' /\ AccessSent'
    BY DEF ModeSent, AccessSent
  <2>4. IndicesReady'
    BY DEF IndicesReady, TypeOK
  <2> QED BY <2>1, <2>2, <2>3, <2>4
<1>4. ASSUME NEW d \in Byte, put(d)
      PROVE  RingInv'
  <2> USE <1>4 DEF put
  <2>1. Advance(head) \in Index /\ (head = None => Advance(head) = 0)
    BY AdvanceStep, LengthType DEF TypeOK, Index, None
  <2>2. TypeOK'
    <3>1. head' \in Index /\ d \in 0 .. 255
      BY <2>1, BytesAssumption
    <3>2. CASE head' = tail
      BY <3>1, <3>2 DEF TypeOK
    <3>3. CASE head' # tail
      BY <3>1, <3>3 DEF TypeOK
    <3> QED BY <3>2, <3>3
  <2>3. BusQuiet' /\ ModeKnown'
    BY DEF BusQuiet, ModeKnown
  <2>4. ModeSent' /\ AccessSent'
    BY DEF ModeSent, AccessSent
  <2>5. IndicesReady'
    BY <2>1, LengthType DEF IndicesReady, TypeOK, Index, None
  <2> QED BY <2>2, <2>3, <2>4, <2>5
<1> QED BY <1>1, <1>2, <1>3, <1>4
\* It is kept by the steps that begin a transaction or end that of the mode.
LEMMA AccessStarts ==
  ASSUME RingInv, setMode \/ setModeDone \/ access
  PROVE  RingInv'
<1> USE DEF RingInv, object, call, chip, Goto
<1>1. CASE setMode
  <2> USE <1>1 DEF setMode
  <2>1. CASE operationMode # BYTE_MODE
    <3>1. /\ pc = "mode" /\ pc' = "modeTransfer" /\ out' = << WRSR, BYTE_MODE >>
          /\ selected' = TRUE /\ received' = << >>
          /\ UNCHANGED <<memory, ramMode, head, tail, operationMode, op, data, ret>>
      BY <2>1 DEF Select, BusQuiet
    <3>2. << WRSR, BYTE_MODE >> \in Seq(0 .. 255) /\ Len(<< WRSR, BYTE_MODE >>) = 2
      BY DEF WRSR, BYTE_MODE
    <3>3. << >> \in Seq(0 .. 255) /\ Len(<< >>) = 0
      OBVIOUS
    <3>4. out' \in Seq(0 .. 255) /\ Len(out') <= 4 /\ received' \in Seq(0 .. 255) /\ Len(received') <= 4
      BY <3>1, <3>2, <3>3
    <3>5. TypeOK'
      BY <3>1, <3>4 DEF TypeOK
    <3>6. InTransit(received', out', << WRSR, BYTE_MODE >>)
      BY <3>1, <3>2, TransitStarts
    <3>7. out' # << >>
      BY <3>1, <3>2, <3>3
    <3>8. BusQuiet' /\ ModeKnown' /\ ModeSent' /\ AccessSent'
      BY <3>1, <3>6, <3>7 DEF BusQuiet, ModeKnown, ModeSent, AccessSent
    <3>9. IndicesReady'
      BY <3>1 DEF IndicesReady
    <3> QED BY <3>5, <3>8, <3>9
  <2>2. CASE operationMode = BYTE_MODE
    <3>1. /\ pc = "mode" /\ pc' = "access"
          /\ UNCHANGED <<out, selected, received, memory, ramMode, head, tail, operationMode,
                         op, data, ret>>
      BY <2>2
    <3>2. TypeOK'
      BY <3>1 DEF TypeOK
    <3>3. BusQuiet' /\ ModeKnown' /\ ModeSent' /\ AccessSent'
      BY <3>1, <2>2 DEF BusQuiet, ModeKnown, ModeSent, AccessSent
    <3>4. IndicesReady'
      BY <3>1 DEF IndicesReady
    <3> QED BY <3>2, <3>3, <3>4
  <2> QED BY <2>1, <2>2
<1>2. CASE setModeDone
  <2>1. /\ pc = "modeTransfer" /\ pc' = "access" /\ out = << >> /\ selected' = FALSE
        /\ operationMode' = BYTE_MODE
        /\ UNCHANGED <<received, memory, ramMode, head, tail, op, data, out, ret>>
    BY <1>2 DEF setModeDone, Deselect
  <2>2. TypeOK'
    BY <2>1 DEF TypeOK
  <2>3. BusQuiet' /\ ModeKnown' /\ ModeSent' /\ AccessSent'
    BY <2>1 DEF BusQuiet, ModeKnown, ModeSent, AccessSent
  <2>4. IndicesReady'
    BY <2>1 DEF IndicesReady
  <2> QED BY <2>2, <2>3, <2>4
<1>3. CASE access
  <2>1. /\ pc = "access" /\ pc' = "accessTransfer" /\ out' = message
        /\ selected' = TRUE /\ received' = << >>
        /\ UNCHANGED <<memory, ramMode, head, tail, operationMode, op, data, ret>>
    BY <1>3 DEF access, Select, BusQuiet, message
  <2>2. op \in {"put", "get"} /\ (op = "put" => head # None) /\ (op = "get" => tail # None)
    BY <2>1, LengthType DEF TypeOK, IndicesReady, Index, None
  <2>3. message \in Seq(0 .. 255) /\ Len(message) = 4 /\ message' = message
    BY <2>1, <2>2, MessageBytes DEF message
  <2>4. << >> \in Seq(0 .. 255) /\ Len(<< >>) = 0
    OBVIOUS
  <2>5. out' \in Seq(0 .. 255) /\ Len(out') <= 4 /\ received' \in Seq(0 .. 255) /\ Len(received') <= 4
    BY <2>1, <2>3, <2>4
  <2>6. TypeOK'
    BY <2>1, <2>5 DEF TypeOK
  <2>7. InTransit(received', out', message')
    BY <2>1, <2>3, TransitStarts
  <2>8. out' # << >>
    <3>1. message # << >>
      <4>1. message = << >> <=> Len(message) = 0
        BY <2>3, EmptyLength
      <4> QED BY <4>1, <2>3
    <3> QED BY <2>1, <3>1
  <2>9. BusQuiet' /\ ModeKnown' /\ ModeSent' /\ AccessSent'
    BY <2>1, <2>7, <2>8 DEF BusQuiet, ModeKnown, ModeSent, AccessSent
  <2>10. IndicesReady'
    BY <2>1 DEF IndicesReady
  <2> QED BY <2>6, <2>9, <2>10
<1> QED BY <1>1, <1>2, <1>3

\* It is kept by the ends of put and get.
LEMMA CallsEnd ==
  ASSUME RingInv, putDone \/ getDone
  PROVE  RingInv'
<1> USE DEF RingInv, object, call, chip, Goto
<1>1. CASE putDone
  <2>1. /\ pc = "accessTransfer" /\ pc' = "idle" /\ out = << >> /\ op = "put" /\ op' = "none"
        /\ selected' = FALSE /\ tail' = (IF tail = None THEN 0 ELSE tail) /\ ret' = data
        /\ UNCHANGED <<head, operationMode, data, out, received, memory, ramMode>>
    BY <1>1 DEF putDone, Deselect
  <2>2. tail' \in Index /\ head \in Index /\ data \in Byte
    BY <2>1, LengthType DEF TypeOK, IndicesReady, Index
  <2>3. TypeOK'
    BY <2>1, <2>2 DEF TypeOK
  <2>4. BusQuiet' /\ ModeKnown' /\ ModeSent' /\ AccessSent'
    BY <2>1 DEF BusQuiet, ModeKnown, ModeSent, AccessSent
  <2>5. IndicesReady'
    BY <2>1, <2>2, LengthType DEF IndicesReady, Index, None
  <2> QED BY <2>3, <2>4, <2>5
<1>2. CASE getDone
  <2>1. /\ pc = "accessTransfer" /\ pc' = "idle" /\ out = << >> /\ op = "get" /\ op' = "none"
        /\ selected' = FALSE /\ ret' = data
        /\ UNCHANGED <<operationMode, data, out, received, memory, ramMode>>
    BY <1>2 DEF getDone, Deselect
  <2>2. IF tail = head THEN head' = None /\ tail' = None
                       ELSE tail' = Advance(tail) /\ head' = head
    BY <1>2 DEF getDone
  <2>3. tail \in Index /\ head \in Index /\ Advance(tail) \in Index
    BY <2>1, AdvanceStep, LengthType DEF TypeOK, IndicesReady, Index, None
  <2>4. data \in Byte
    BY <2>1, <2>3 DEF TypeOK, AccessSent
  <2>5. TypeOK'
    BY <2>1, <2>2, <2>3, <2>4 DEF TypeOK
  <2>6. BusQuiet' /\ ModeKnown' /\ ModeSent' /\ AccessSent'
    BY <2>1 DEF BusQuiet, ModeKnown, ModeSent, AccessSent
  <2>7. IndicesReady'
    BY <2>1, <2>2, <2>3, LengthType DEF IndicesReady, Index, None
  <2> QED BY <2>5, <2>6, <2>7
<1> QED BY <1>1, <1>2

\* It is kept by a reset of the microcontroller, also in the middle of a transaction.
LEMMA RestartKeeps ==
  ASSUME RingInv, Restart
  PROVE  RingInv'
<1> USE DEF RingInv
<1>1. /\ pc' = "off" /\ op' = "none" /\ out' = << >> /\ head' = None /\ tail' = None
      /\ operationMode' = NO_MODE /\ selected' \in {selected, FALSE} /\ ret' = outcome
      /\ UNCHANGED <<data, received, memory, ramMode>>
  BY DEF Restart, initialMode
<1>2. outcome \in Byte \cup {None}
  BY DEF outcome, Written, TypeOK, IndicesReady
<1>3. << >> \in Seq(0 .. 255) /\ Len(<< >>) = 0
  OBVIOUS
<1>4. out' \in Seq(0 .. 255) /\ Len(out') <= 4
  BY <1>1, <1>3
<1>5. TypeOK'
  BY <1>1, <1>2, <1>4 DEF TypeOK
<1>6. BusQuiet' /\ ModeKnown' /\ ModeSent' /\ AccessSent' /\ IndicesReady'
  BY <1>1 DEF BusQuiet, ModeKnown, ModeSent, AccessSent, IndicesReady, NO_MODE, BYTE_MODE
<1> QED BY <1>5, <1>6
\* What a byte of an access does: the last one of a put writes its slot, and nothing else is
\* written; the last one of a get reads its slot.
LEMMA AccessByte ==
  ASSUME RingInv, transfer, pc = "accessTransfer"
  PROVE  /\ received' = Append(received, Head(out)) /\ Len(received') = Len(received) + 1
         /\ received' \in Seq(0 .. 255) /\ out' \in Seq(0 .. 255)
         /\ Len(received) \in 0 .. 3 /\ Len(out') = 3 - Len(received)
         /\ InTransit(received', out', message') /\ ramMode' = ramMode
         /\ memory' = IF op = "put" /\ out' = << >> THEN [memory EXCEPT ![head] = data] ELSE memory
         /\ data' = IF op = "get" /\ out' = << >> THEN memory[tail] ELSE data
<1> USE DEF RingInv
<1>1. /\ out # << >> /\ ChipGets(Head(out))
      /\ out' = Tail(out) /\ data' = Reply
      /\ UNCHANGED <<head, tail, operationMode, pc, op, ret>>
  BY DEF transfer, object
<1> DEFINE a == IF op = "put" THEN head ELSE tail
<1>2. /\ op \in {"put", "get"} /\ (op = "put" => head # None) /\ (op = "get" => tail # None)
      /\ a \in Index
  BY LengthType DEF TypeOK, IndicesReady, Index, None
<1>3. /\ message \in Seq(0 .. 255) /\ Len(message) = 4
      /\ message[1] = IF op = "put" THEN WRITE ELSE READ
      /\ message[2] = (a \div PageSize) % 256
      /\ message[3] = a % PageSize
      /\ message[4] = IF op = "put" THEN data ELSE 255
  BY <1>2, MessageBytes
<1> HIDE DEF a
<1>4. received \in Seq(0 .. 255) /\ out \in Seq(0 .. 255) /\ InTransit(received, out, message)
  BY DEF TypeOK, AccessSent
<1>5. /\ Head(out) = message[Len(received) + 1]
      /\ Tail(out) \in Seq(0 .. 255) /\ Len(Tail(out)) = Len(out) - 1
      /\ Append(received, Head(out)) \in Seq(0 .. 255)
      /\ Len(received) < Len(message)
      /\ InTransit(Append(received, Head(out)), Tail(out), message)
      /\ Tail(out) = << >> <=> Len(received) = Len(message) - 1
  <2> DEFINE S == 0 .. 255
  <2>1. /\ message \in Seq(S) /\ received \in Seq(S) /\ out \in Seq(S)
        /\ out # << >> /\ InTransit(received, out, message)
    BY <1>1, <1>3, <1>4
  <2> HIDE DEF S
  <2>2. /\ Head(out) = message[Len(received) + 1]
        /\ Tail(out) \in Seq(S) /\ Len(Tail(out)) = Len(out) - 1
        /\ Append(received, Head(out)) \in Seq(S)
        /\ Len(received) < Len(message)
        /\ InTransit(Append(received, Head(out)), Tail(out), message)
        /\ Tail(out) = << >> <=> Len(received) = Len(message) - 1
    BY <2>1, TransitStep
  <2> QED BY <2>2 DEF S
<1> DEFINE n == Len(received)
<1>6. n \in 0 .. 3 /\ (Tail(out) = << >> <=> n = 3) /\ Len(Tail(out)) = 3 - n
  <2>1. n \in Nat /\ n + Len(out) = 4 /\ n < 4 /\ Len(out) \in Nat /\ Len(Tail(out)) = Len(out) - 1
    BY <1>3, <1>4, <1>5 DEF InTransit
  <2>2. n \in 0 .. 3 /\ Len(Tail(out)) = 3 - n
    <3> HIDE DEF n
    <3> QED BY <2>1
  <2>3. Tail(out) = << >> <=> n = 3
    BY <1>3, <1>5
  <2> QED BY <2>2, <2>3
<1>7. received' = Append(received, Head(out)) /\ Len(received') = n + 1
  <2>1. n < 4
    <3> HIDE DEF n
    <3> QED BY <1>6
  <2>2. received' = Append(received, Head(out))
    BY <1>1, <2>1 DEF ChipGets
  <2> QED BY <1>4, <1>5, <2>2
<1>8. ramMode' = ramMode
  <2>1. CASE n = 0
    <3>1. received # << WRSR >>
      BY <2>1
    <3> QED BY <1>1, <3>1 DEF ChipGets
  <2>2. CASE n > 0
    <3>1. 1 \in 1 .. n
      BY <2>2, <1>6
    <3>2. received[1] = message[1]
      BY <3>1, <1>4 DEF InTransit
    <3>3. received # << WRSR >>
      BY <3>2, <1>3 DEF WRSR, WRITE, READ
    <3> QED BY <1>1, <3>3 DEF ChipGets
  <2> QED BY <2>1, <2>2, <1>6
<1>9. CASE n # 3
  <2>1. memory' = memory /\ data' = data
    BY <1>1, <1>9 DEF ChipGets, Reply
  <2>2. Tail(out) # << >>
    BY <1>6, <1>9
  <2>3. message' = message
    BY <2>1, <1>1 DEF message
  <2> QED BY <1>1, <1>5, <1>6, <1>7, <1>8, <2>1, <2>2, <2>3
<1>10. CASE n = 3
  <2>1. received[1] = message[1] /\ received[2] = message[2] /\ received[3] = message[3]
    BY <1>4, <1>10 DEF InTransit
  <2>2. Address = a
    BY <2>1, <1>2, <1>3, AddressArrives DEF Address
  <2>3. Head(out) = message[4]
    BY <1>5, <1>10
  <2>4. CASE op = "put"
    <3>1. received[1] = WRITE /\ received[1] # READ /\ Head(out) = data /\ Address = head
      BY <2>1, <2>2, <2>3, <2>4, <1>3 DEF WRITE, READ, a
    <3>2. memory' = [memory EXCEPT ![head] = data] /\ data' = data
      BY <1>1, <1>10, <3>1 DEF ChipGets, Reply
    <3>3. message' = message
      BY <3>2, <1>1 DEF message
    <3> QED BY <1>1, <1>5, <1>6, <1>7, <1>8, <1>10, <2>4, <3>2, <3>3
  <2>5. CASE op = "get"
    <3>1. received[1] = READ /\ received[1] # WRITE /\ Address = tail
      BY <2>1, <2>2, <2>5, <1>3 DEF WRITE, READ, a
    <3>2. memory' = memory /\ data' = memory[tail]
      BY <1>1, <1>10, <3>1 DEF ChipGets, Reply
    <3>3. message' = message
      BY <2>5, <1>1 DEF message
    <3> QED BY <1>1, <1>5, <1>6, <1>7, <1>8, <1>10, <2>5, <3>2, <3>3
  <2> QED BY <2>4, <2>5, <1>2
<1> QED BY <1>9, <1>10

\* What a byte of the other transaction does: the last one sets the mode.
LEMMA ModeByte ==
  ASSUME RingInv, transfer, pc = "modeTransfer"
  PROVE  /\ received' = Append(received, Head(out)) /\ Len(received') = Len(received) + 1
         /\ received' \in Seq(0 .. 255) /\ out' \in Seq(0 .. 255)
         /\ Len(received) \in 0 .. 1 /\ Len(out') = 1 - Len(received)
         /\ InTransit(received', out', << WRSR, BYTE_MODE >>)
         /\ memory' = memory /\ data' = data
         /\ ramMode' = IF out' = << >> THEN BYTE_MODE ELSE ramMode
<1> USE DEF RingInv
<1>1. out # << >> /\ ChipGets(Head(out)) /\ out' = Tail(out) /\ data' = Reply
  BY DEF transfer
<1> DEFINE m == << WRSR, BYTE_MODE >>
<1>2. m \in Seq(0 .. 255) /\ Len(m) = 2 /\ m[1] = WRSR /\ m[2] = BYTE_MODE
  BY DEF WRSR, BYTE_MODE
<1>3. received \in Seq(0 .. 255) /\ out \in Seq(0 .. 255) /\ InTransit(received, out, m)
  BY DEF TypeOK, ModeSent
<1> HIDE DEF m
<1>4. /\ Head(out) = m[Len(received) + 1]
      /\ Tail(out) \in Seq(0 .. 255) /\ Len(Tail(out)) = Len(out) - 1
      /\ Append(received, Head(out)) \in Seq(0 .. 255)
      /\ Len(received) < Len(m)
      /\ InTransit(Append(received, Head(out)), Tail(out), m)
      /\ Tail(out) = << >> <=> Len(received) = Len(m) - 1
  <2> DEFINE S == 0 .. 255
  <2>1. /\ m \in Seq(S) /\ received \in Seq(S) /\ out \in Seq(S)
        /\ out # << >> /\ InTransit(received, out, m)
    BY <1>1, <1>2, <1>3
  <2> HIDE DEF S
  <2>2. /\ Head(out) = m[Len(received) + 1]
        /\ Tail(out) \in Seq(S) /\ Len(Tail(out)) = Len(out) - 1
        /\ Append(received, Head(out)) \in Seq(S)
        /\ Len(received) < Len(m)
        /\ InTransit(Append(received, Head(out)), Tail(out), m)
        /\ Tail(out) = << >> <=> Len(received) = Len(m) - 1
    BY <2>1, TransitStep
  <2> QED BY <2>2 DEF S
<1> DEFINE n == Len(received)
<1>5. n \in 0 .. 1 /\ (Tail(out) = << >> <=> n = 1) /\ Len(Tail(out)) = 1 - n
  <2>1. n \in Nat /\ n + Len(out) = 2 /\ n < 2 /\ Len(out) \in Nat /\ Len(Tail(out)) = Len(out) - 1
    BY <1>2, <1>3, <1>4 DEF InTransit
  <2>2. n \in 0 .. 1 /\ Len(Tail(out)) = 1 - n
    <3> HIDE DEF n
    <3> QED BY <2>1
  <2>3. Tail(out) = << >> <=> n = 1
    BY <1>2, <1>4
  <2> QED BY <2>2, <2>3
<1>6. n < 4 /\ n # 3
  <2> HIDE DEF n
  <2> QED BY <1>5
<1>7. /\ received' = Append(received, Head(out)) /\ Len(received') = n + 1
      /\ memory' = memory /\ data' = data
  <2>1. received' = Append(received, Head(out)) /\ memory' = memory /\ data' = data
    BY <1>1, <1>6 DEF ChipGets, Reply
  <2> QED BY <1>3, <1>4, <2>1
<1>8. CASE n = 1
  <2>1. received[1] = WRSR
    BY <1>2, <1>3, <1>8 DEF InTransit
  <2>2. received = << WRSR >>
    BY <1>3, <1>8, <2>1
  <2>3. Head(out) = BYTE_MODE
    BY <1>2, <1>4, <1>8
  <2>4. ramMode' = BYTE_MODE
    BY <1>1, <2>2, <2>3 DEF ChipGets
  <2> QED BY <1>1, <1>4, <1>5, <1>7, <1>8, <2>4 DEF m
<1>9. CASE n # 1
  <2>1. received # << WRSR >>
    BY <1>9
  <2>2. ramMode' = ramMode
    BY <1>1, <2>1 DEF ChipGets
  <2> QED BY <1>1, <1>4, <1>5, <1>7, <1>9, <2>2 DEF m
<1> QED BY <1>8, <1>9

\* The invariant is kept by the transfer of a byte.
LEMMA TransferKeeps ==
  ASSUME RingInv, transfer
  PROVE  RingInv'
<1> USE DEF RingInv
<1>1. /\ pc \in {"modeTransfer", "accessTransfer"} /\ out # << >> /\ ChipGets(Head(out))
      /\ out' = Tail(out) /\ data' = Reply /\ selected' = selected
      /\ UNCHANGED <<head, tail, operationMode, pc, op, ret>>
  BY DEF transfer, object, ChipGets
<1>2. CASE pc = "modeTransfer"
  <2> DEFINE S == 0 .. 255
  <2>1. /\ Len(received') = Len(received) + 1
        /\ received' \in Seq(S) /\ out' \in Seq(S)
        /\ Len(received) \in 0 .. 1 /\ Len(out') = 1 - Len(received)
        /\ InTransit(received', out', << WRSR, BYTE_MODE >>)
        /\ memory' = memory /\ data' = data
        /\ ramMode' = IF out' = << >> THEN BYTE_MODE ELSE ramMode
    BY <1>2, ModeByte
  <2>2. TypeOK'
    <3>1. Len(out') <= 4 /\ Len(received') <= 4
      BY <2>1
    <3>2. ramMode' \in {0, BYTE_MODE}
      BY <2>1 DEF TypeOK
    <3> QED BY <1>1, <2>1, <3>1, <3>2 DEF TypeOK
  <2>3. BusQuiet' /\ ModeKnown' /\ AccessSent'
    BY <1>1, <1>2, <2>1 DEF BusQuiet, ModeKnown, AccessSent
  <2>4. ModeSent'
    BY <1>1, <1>2, <2>1 DEF ModeSent
  <2>5. IndicesReady'
    BY <1>1, <2>1 DEF IndicesReady
  <2> QED BY <2>2, <2>3, <2>4, <2>5
<1>3. CASE pc = "accessTransfer"
  <2> DEFINE S == 0 .. 255
  <2>1. /\ received' = Append(received, Head(out)) /\ Len(received') = Len(received) + 1
        /\ received' \in Seq(S) /\ out' \in Seq(S)
        /\ Len(received) \in 0 .. 3 /\ Len(out') = 3 - Len(received)
        /\ InTransit(received', out', message') /\ ramMode' = ramMode
    BY <1>3, AccessByte
  <2>2. /\ memory' = IF op = "put" /\ out' = << >> THEN [memory EXCEPT ![head] = data] ELSE memory
        /\ data' = IF op = "get" /\ out' = << >> THEN memory[tail] ELSE data
    BY <1>3, AccessByte
  <2>3. /\ op \in {"put", "get"}
        /\ op = "put" => head \in Index /\ data \in Byte
        /\ op = "get" => tail \in Index
    BY <1>3 DEF TypeOK, IndicesReady
  <2>4. TypeOK'
    <3>1. memory' \in [Index -> Byte]
      BY <2>2, <2>3 DEF TypeOK
    <3>2. data' \in 0 .. 255
      BY <2>2, <2>3, BytesAssumption DEF TypeOK
    <3>3. Len(out') <= 4 /\ Len(received') <= 4
      BY <2>1
    <3> QED BY <1>1, <2>1, <3>1, <3>2, <3>3 DEF TypeOK
  <2>5. BusQuiet' /\ ModeKnown' /\ ModeSent'
    BY <1>1, <1>3, <2>1 DEF BusQuiet, ModeKnown, ModeSent
  <2>6. AccessSent'
    <3>1. selected'
      BY <1>1, <1>3 DEF AccessSent
    <3>2. op' = "get" /\ out' = << >> => data' = memory'[tail']
      BY <1>1, <2>2
    <3> QED BY <3>1, <3>2, <2>1 DEF AccessSent
  <2>7. IndicesReady'
    BY <1>1, <2>2 DEF IndicesReady
  <2> QED BY <2>4, <2>5, <2>6, <2>7
<1> QED BY <1>1, <1>2, <1>3
\* It is kept by every step.
LEMMA StepKeeps == RingInv /\ [Next]_vars => RingInv'
<1> SUFFICES ASSUME RingInv, [Next]_vars PROVE RingInv'
  OBVIOUS
<1>1. CASE UNCHANGED vars
  <2> USE <1>1 DEF vars, object, call, chip, RingInv
  <2>1. TypeOK'
    BY DEF TypeOK
  <2>2. BusQuiet' /\ ModeKnown' /\ ModeSent'
    BY DEF BusQuiet, ModeKnown, ModeSent
  <2>3. AccessSent'
    BY DEF AccessSent, message
  <2>4. IndicesReady'
    BY DEF IndicesReady
  <2> QED BY <2>1, <2>2, <2>3, <2>4
<1>2. CASE Next
  BY <1>2, CallsStart, AccessStarts, TransferKeeps, CallsEnd, RestartKeeps DEF Next, goesOn
<1> QED BY <1>1, <1>2

\* It holds in every reachable state.
LEMMA RingInvAlways == Spec => []RingInv
<1> QED BY InitRing, StepKeeps, PTL DEF Spec

\* Every variable has its type, for every size of the chip.
THEOREM TypeCorrect == Spec => []TypeOK
<1>1. RingInv => TypeOK
  BY DEF RingInv
<1> QED BY <1>1, RingInvAlways, PTL

\* The chip is in byte mode whenever data is transferred, although the microcontroller may
\* have been reset at any moment and its cache of the mode with it.
THEOREM AccessInByteMode == Spec => []ByteModeWhenAccessed
<1>1. RingInv => ByteModeWhenAccessed
  BY DEF RingInv, ModeKnown, ByteModeWhenAccessed
<1> QED BY <1>1, RingInvAlways, PTL

-----------------------------------------------------------------------------
(***************************************************************************)
(* The refinement.                                                         *)
(***************************************************************************)

\* What the caller of the ring sees.
seen == <<headSeen, tailSeen, memory, outcome>>

\* At power up the ring is a StreamingBuffer before its first call.
LEMMA InitRefines == Init => Ring!Init
<1> SUFFICES ASSUME Init PROVE Ring!Init
  OBVIOUS
<1>1. op = "none" /\ head = None /\ tail = None /\ ret = None /\ memory \in [Index -> Byte]
  BY DEF Init
<1>2. headSeen = None /\ tailSeen = None /\ outcome = None
  BY <1>1 DEF headSeen, tailSeen, outcome, Written
<1> QED BY <1>1, <1>2 DEF Ring!Init, Ring!None, Ring!Index, None, Index

\* A step that changes nothing the caller sees.
LEMMA SameIsStutter == UNCHANGED seen => UNCHANGED Ring!vars
BY DEF seen, Ring!vars

\* A step ahead and a step back.
LEMMA AdvanceBack ==
  ASSUME NEW i \in Index
  PROVE  (Advance(i) + RING_BUFFER_LENGTH - 1) % RING_BUFFER_LENGTH = i
<1>1. Advance(i) \in Index
  BY AdvanceStep, LengthType DEF Index, None
<1> QED BY <1>1, AdvanceStep, BackStep, LengthType DEF Index, None

\* A step back and a step ahead.
LEMMA BackAdvance ==
  ASSUME NEW i \in Index
  PROVE  Advance((i + RING_BUFFER_LENGTH - 1) % RING_BUFFER_LENGTH) = i
<1> DEFINE j == (i + RING_BUFFER_LENGTH - 1) % RING_BUFFER_LENGTH
<1>1. j = IF i = 0 THEN RING_BUFFER_LENGTH - 1 ELSE i - 1
  BY BackStep
<1> HIDE DEF j
<1>2. j \in Index
  BY <1>1, LengthType DEF Index
<1>3. Advance(j) = i
  BY <1>1, <1>2, AdvanceStep, LengthType DEF Index
<1> QED BY <1>3 DEF j

\* reset is a begin of StreamingBuffer, a get of an empty ring a get; the
\* caller sees nothing of a call that goes on to the access.
LEMMA CallsRefine ==
  ASSUME RingInv, begin \/ reset \/ get
  PROVE  [Ring!GuardedNext]_(Ring!vars)
<1> USE DEF RingInv, object, call, chip
<1>1. CASE begin
  <2>1. UNCHANGED seen
    BY <1>1 DEF begin, Goto, Deselect, seen, headSeen, tailSeen, outcome, Written
  <2> QED BY <2>1, SameIsStutter
<1>2. CASE reset
  <2>1. op = "none"
    BY <1>2 DEF reset, TypeOK
  <2>2. headSeen' = None /\ tailSeen' = None /\ memory' = memory /\ outcome' = outcome
    BY <1>2, <2>1 DEF reset, headSeen, tailSeen, outcome, Written
  <2> QED BY <2>2 DEF Ring!GuardedNext, Ring!begin, Ring!None, None
<1>3. CASE get
  <2>1. op = "none" /\ ~Written /\ headSeen = head /\ tailSeen = tail /\ outcome = ret
    BY <1>3 DEF get, TypeOK, headSeen, tailSeen, outcome, Written
  <2>2. CASE tail = None
    <3>1. headSeen' = head /\ tailSeen' = tail /\ outcome' = None /\ memory' = memory
      BY <1>3, <2>1, <2>2 DEF get, headSeen, tailSeen, outcome, Written
    <3>2. Ring!get
      BY <2>1, <2>2, <3>1 DEF Ring!get, Ring!None, None
    <3> QED BY <3>2 DEF Ring!GuardedNext
  <2>3. CASE tail # None
    <3>1. UNCHANGED seen
      BY <1>3, <2>1, <2>3 DEF get, seen, headSeen, tailSeen, outcome, Written
    <3> QED BY <3>1, SameIsStutter
  <2> QED BY <2>2, <2>3
<1> QED BY <1>1, <1>2, <1>3

\* The start of a put is not seen, unless the ring is full.
LEMMA PutRefines ==
  ASSUME RingInv, NEW d \in Byte, put(d)
  PROVE  UNCHANGED Ring!vars \/ (availableSpace = 0 /\ Ring!put(d))
<1> USE DEF RingInv, object, call, chip
<1>1. op = "none" /\ ~Written /\ headSeen = head /\ tailSeen = tail /\ outcome = ret
  BY DEF put, TypeOK, headSeen, tailSeen, outcome, Written
<1>2. head' = Advance(head) /\ tail' = tail /\ memory' = memory
  BY DEF put
<1>3. CASE head' = tail
  <2>1. headSeen' = head' /\ tailSeen' = tail /\ outcome' = None
    BY <1>1, <1>3 DEF put, headSeen, tailSeen, outcome, Written
  <2>2. Ring!put(d)
    BY <1>1, <1>2, <1>3, <2>1 DEF Ring!put, Ring!Advance, Advance, Ring!None, None
  <2>3. availableSpace = 0
    <3>1. availableSpace = Space(head, tail)
      BY DEF availableSpace, availableData, Space
    <3>2. head = None <=> tail = None
      BY <1>1 DEF IndicesReady
    <3>3. Space(head, tail) \in Nat /\ (Space(head, tail) > 0 <=> Advance(head) # tail)
      BY <3>2, RoomMeansSpace DEF TypeOK
    <3> QED BY <3>1, <3>3, <1>2, <1>3
  <2> QED BY <2>2, <2>3
<1>4. CASE head' # tail
  <2>1. op' = "put" /\ ~Written' /\ outcome' = ret /\ tailSeen' = tail
    BY <1>2, <1>4 DEF put, outcome, tailSeen, Written
  <2>2. headSeen' = head
    <3>1. CASE tail = None
      <4>1. head = None
        BY <1>1, <3>1 DEF IndicesReady
      <4> QED BY <2>1, <1>2, <3>1, <4>1 DEF headSeen
    <3>2. CASE tail # None
      <4>1. head \in Index
        BY <1>1, <3>2 DEF IndicesReady, TypeOK
      <4> QED BY <2>1, <1>2, <3>2, <4>1, AdvanceBack DEF headSeen
    <3> QED BY <3>1, <3>2
  <2>3. UNCHANGED seen
    BY <1>1, <1>2, <2>1, <2>2 DEF seen
  <2> QED BY <2>3, SameIsStutter
<1> QED BY <1>3, <1>4

\* Of all bytes transferred only the last one of a put is seen: it is the put.
LEMMA BytesRefine ==
  ASSUME RingInv, setMode \/ setModeDone \/ access \/ transfer
  PROVE  [Ring!GuardedNext]_(Ring!vars)
<1> USE DEF RingInv, object, call, chip, Goto
<1>1. CASE setMode \/ setModeDone \/ access
  <2>1. ~Written
    BY <1>1 DEF setMode, setModeDone, access, Written
  <2>2. ~Written'
    <3>1. CASE access
      <4>1. RingInv' /\ pc' = "accessTransfer"
        BY <3>1, AccessStarts DEF access
      <4>2. received' = << >>
        BY <3>1 DEF access, Select, BusQuiet
      <4>3. op \in {"put", "get"} /\ (op = "put" => head # None) /\ (op = "get" => tail # None)
        BY <3>1, LengthType DEF access, TypeOK, IndicesReady, Index, None
      <4>4. out' = message /\ message \in Seq(0 .. 255) /\ Len(message) = 4
        BY <3>1, <4>3, MessageBytes DEF access, Select, message
      <4>5. message # << >>
        <5>1. message = << >> <=> Len(message) = 0
          BY <4>4, EmptyLength
        <5> QED BY <5>1, <4>4
      <4> QED BY <4>4, <4>5 DEF Written
    <3>2. CASE setMode \/ setModeDone
      BY <3>2 DEF setMode, setModeDone, Written
    <3> QED BY <1>1, <3>1, <3>2
  <2>3. UNCHANGED <<head, tail, op, memory, ret>>
    BY <1>1 DEF setMode, setModeDone, access, Select, Deselect
  <2>4. UNCHANGED seen
    BY <2>1, <2>2, <2>3 DEF seen, headSeen, tailSeen, outcome
  <2> QED BY <2>4, SameIsStutter
<1>2. CASE transfer
  <2>1. UNCHANGED <<head, tail, op, pc, ret>> /\ out # << >>
    BY <1>2 DEF transfer
  <2>2. ~Written
    BY <2>1 DEF Written
  <2>3. CASE pc = "modeTransfer"
    <3>1. ~Written'
      BY <2>1, <2>3 DEF Written
    <3>2. memory' = memory
      BY <1>2, <2>3, ModeByte
    <3>3. UNCHANGED seen
      BY <2>1, <2>2, <3>1, <3>2 DEF seen, headSeen, tailSeen, outcome
    <3> QED BY <3>3, SameIsStutter
  <2>4. CASE pc = "accessTransfer" /\ ~(op = "put" /\ out' = << >>)
    <3>1. ~Written'
      BY <2>1, <2>4 DEF Written
    <3>2. memory' = memory
      BY <1>2, <2>4, AccessByte
    <3>3. UNCHANGED seen
      BY <2>1, <2>2, <3>1, <3>2 DEF seen, headSeen, tailSeen, outcome
    <3> QED BY <3>3, SameIsStutter
  <2>5. CASE pc = "accessTransfer" /\ op = "put" /\ out' = << >>
    <3>1. memory' = [memory EXCEPT ![head] = data] /\ data' = data
      BY <1>2, <2>5, AccessByte
    <3>2. data \in Byte /\ head \in Index /\ head # tail /\ (tail = None => head = 0)
      BY <2>5 DEF IndicesReady
    <3>3. Written'
      BY <2>1, <2>5 DEF Written
    <3>4. headSeen' = head /\ tailSeen' = (IF tail = None THEN 0 ELSE tail) /\ outcome' = data
      BY <2>1, <3>1, <3>3 DEF headSeen, tailSeen, outcome
    <3>5. tailSeen = tail /\ headSeen = IF tail = None THEN None
             ELSE (head + RING_BUFFER_LENGTH - 1) % RING_BUFFER_LENGTH
      BY <2>2, <2>5 DEF headSeen, tailSeen
    <3>6. head = Advance(headSeen)
      <4>1. CASE tail = None
        <5>1. Advance(None) = 0
          BY AdvanceStep, LengthType DEF None
        <5> QED BY <4>1, <5>1, <3>2, <3>5
      <4>2. CASE tail # None
        BY <4>2, <3>2, <3>5, BackAdvance
      <4> QED BY <4>1, <4>2
    <3>7. Ring!put(data)
      BY <3>1, <3>2, <3>4, <3>5, <3>6 DEF Ring!put, Ring!Advance, Advance, Ring!None, None
    <3>8. Ring!availableSpace > 0
      <4>1. headSeen \in Index \cup {None} /\ (headSeen = None <=> tail = None)
        BY <3>2, <3>5, BackStep, LengthType DEF Index, None
      <4>2. Advance(headSeen) # tail
        BY <3>2, <3>6
      <4>3. Ring!availableSpace = Space(headSeen, tail)
        BY <3>5 DEF Ring!availableSpace, Ring!availableData, Ring!None, None, Space
      <4> QED BY <4>1, <4>2, <4>3, RoomMeansSpace DEF TypeOK
    <3> QED BY <3>2, <3>7, <3>8 DEF Ring!GuardedNext
  <2> QED BY <1>2, <2>3, <2>4, <2>5 DEF transfer
<1> QED BY <1>1, <1>2

\* The end of a get is the get, that of a put is not seen, and a reset is a begin.
LEMMA EndsRefine ==
  ASSUME RingInv, putDone \/ getDone \/ Restart
  PROVE  [Ring!GuardedNext]_(Ring!vars)
<1> USE DEF RingInv, object, call, chip, Goto
<1>1. CASE putDone
  <2>1. /\ pc = "accessTransfer" /\ out = << >> /\ op = "put" /\ op' = "none"
        /\ tail' = (IF tail = None THEN 0 ELSE tail) /\ ret' = data
        /\ UNCHANGED <<head, memory>>
    BY <1>1 DEF putDone, Deselect
  <2>2. Written /\ ~Written'
    BY <2>1 DEF Written
  <2>3. UNCHANGED seen
    BY <2>1, <2>2 DEF seen, headSeen, tailSeen, outcome
  <2> QED BY <2>3, SameIsStutter
<1>2. CASE getDone
  <2>1. /\ pc = "accessTransfer" /\ out = << >> /\ op = "get" /\ op' = "none"
        /\ ret' = data /\ memory' = memory
        /\ IF tail = head THEN head' = None /\ tail' = None
                          ELSE tail' = Advance(tail) /\ head' = head
    BY <1>2 DEF getDone, Deselect
  <2>2. tail # None /\ data = memory[tail]
    BY <2>1 DEF IndicesReady, AccessSent
  <2>3. headSeen = head /\ tailSeen = tail /\ headSeen' = head' /\ tailSeen' = tail' /\ outcome' = data
    BY <2>1 DEF headSeen, tailSeen, outcome, Written
  <2>4. Ring!get
    BY <2>1, <2>2, <2>3 DEF Ring!get, Ring!Advance, Advance, Ring!None, None
  <2> QED BY <2>4 DEF Ring!GuardedNext
<1>3. CASE Restart
  <2>1. headSeen' = None /\ tailSeen' = None /\ memory' = memory /\ outcome' = outcome
    BY <1>3 DEF Restart, headSeen, tailSeen, outcome, Written
  <2> QED BY <2>1 DEF Ring!GuardedNext, Ring!begin, Ring!None, None
<1> QED BY <1>1, <1>2, <1>3

\* Every step is a step of StreamingBuffer, or not seen, and only the start of a put can
\* be one that GuardedNext does not allow.
LEMMA StepRefines ==
  ASSUME RingInv, [Next]_vars
  PROVE  \/ [Ring!GuardedNext]_(Ring!vars)
         \/ \E d \in Byte : put(d) /\ availableSpace = 0 /\ Ring!put(d)
<1>1. CASE UNCHANGED vars
  <2>1. UNCHANGED seen
    BY <1>1 DEF vars, object, call, chip, seen, headSeen, tailSeen, outcome, Written
  <2> QED BY <2>1, SameIsStutter
<1>2. CASE Next
  BY <1>2, CallsRefine, PutRefines, BytesRefine, EndsRefine DEF Next, goesOn
<1> QED BY <1>1, <1>2

\* Byte by byte, with a mode to set and a reset at any moment, the ring implements
\* StreamingBuffer, for every size of the chip and every set of bytes.
THEOREM RingIsStreamingBuffer == Spec => ImplementsRing
<1>1. RingInv /\ [Next]_vars => [Ring!Next]_(Ring!vars)
  BY StepRefines DEF Ring!Next, Ring!GuardedNext
<1> QED BY <1>1, InitRefines, RingInvAlways, PTL DEF Spec, ImplementsRing, Ring!Spec

\* So it is for a caller that puts only while there is space.
LEMMA GuardedRefines == RingInv /\ [GuardedNext]_vars => [Ring!GuardedNext]_(Ring!vars)
<1> SUFFICES ASSUME RingInv, [GuardedNext]_vars PROVE [Ring!GuardedNext]_(Ring!vars)
  OBVIOUS
<1>1. CASE UNCHANGED vars
  <2>1. UNCHANGED seen
    BY <1>1 DEF vars, object, call, chip, seen, headSeen, tailSeen, outcome, Written
  <2> QED BY <2>1, SameIsStutter
<1>2. CASE begin \/ reset \/ get \/ goesOn \/ Restart
  BY <1>2, CallsRefine, BytesRefine, EndsRefine DEF goesOn
<1>3. ASSUME availableSpace > 0, NEW d \in Byte, put(d) PROVE UNCHANGED Ring!vars
  BY <1>3, PutRefines
<1> QED BY <1>1, <1>2, <1>3 DEF GuardedNext

-----------------------------------------------------------------------------
(***************************************************************************)
(* The two refinements together: StreamingBuffer implements the queue of   *)
(* ByteFifo, so this ring does.  The theorem about StreamingBuffer is      *)
(* taken for the size of the chip and for the indices, the slots and the   *)
(* outcome that a master sees here.                                        *)
(***************************************************************************)
Buffer == INSTANCE StreamingBufferProofs
          WITH Size <- RING_BUFFER_LENGTH, head <- headSeen, tail <- tailSeen,
               storage <- memory, ret <- outcome

\* What StreamingBuffer assumes of its constants is so for every chip.
LEMMA BufferAssumptions ==
  RING_BUFFER_LENGTH \in Nat \ {0} /\ Byte \subseteq Nat /\ Byte # {}
BY LengthType, BytesAssumption

\* The ring of StreamingBuffer, as large as the chip, implements the queue.
LEMMA BufferIsFifo == Buffer!Spec => Buffer!ImplementsDelivered
BY BufferAssumptions, Buffer!RingIsDeliveredFifo

\* The ring this one implements and the ring of that theorem are the same.
LEMMA SameRing == Ring!Spec => Buffer!Spec
<1>1. Ring!Init <=> Buffer!Init
  BY DEF Ring!Init, Buffer!Init, Ring!None, Buffer!None, Ring!Index, Buffer!Index
<1>2. [Ring!Next]_(Ring!vars) => [Buffer!Next]_(Buffer!vars)
  BY DEF Ring!Next, Buffer!Next, Ring!begin, Buffer!begin, Ring!get, Buffer!get,
         Ring!put, Buffer!put, Ring!Advance, Buffer!Advance, Ring!None, Buffer!None,
         Ring!vars, Buffer!vars
<1> QED BY <1>1, <1>2, PTL DEF Ring!Spec, Buffer!Spec

\* And so are their unread bytes, hence their queues.
LEMMA SameQueue == Buffer!ImplementsDelivered => Ring!ImplementsDelivered
<1>1. Ring!Unread = Buffer!Unread
  BY DEF Ring!Unread, Buffer!Unread, Ring!availableData, Buffer!availableData,
         Ring!Slot, Buffer!Slot, Ring!None, Buffer!None
<1>2. Ring!Unread' = Buffer!Unread'
  BY DEF Ring!Unread, Buffer!Unread, Ring!availableData, Buffer!availableData,
         Ring!Slot, Buffer!Slot, Ring!None, Buffer!None
<1>3. Buffer!Fifo!Init => Ring!Fifo!Init
  BY <1>1 DEF Ring!Fifo!Init, Buffer!Fifo!Init, Ring!Fifo!NoByte, Buffer!Fifo!NoByte
<1>4. [Buffer!Fifo!DeliveredNext]_(Buffer!Fifo!vars) => [Ring!Fifo!DeliveredNext]_(Ring!Fifo!vars)
  BY <1>1, <1>2 DEF Ring!Fifo!DeliveredNext, Buffer!Fifo!DeliveredNext,
     Ring!Fifo!vars, Buffer!Fifo!vars, Ring!Fifo!Accept, Buffer!Fifo!Accept,
     Ring!Fifo!Overrun, Buffer!Fifo!Overrun, Ring!Fifo!Get, Buffer!Fifo!Get,
     Ring!Fifo!Clear, Buffer!Fifo!Clear, Ring!Fifo!NoByte, Buffer!Fifo!NoByte
<1> QED BY <1>3, <1>4, PTL
        DEF Ring!ImplementsDelivered, Buffer!ImplementsDelivered,
            Ring!Fifo!Delivered, Buffer!Fifo!Delivered

\* The bytes put into the ring over the SPI RAM come out of it in their order, none
\* repeated or invented.  None is lost but by a put on a full ring, which keeps only
\* the oldest, and by a reset, which empties the ring: transaction by transaction,
\* with a reset between any two bytes, for every size of the chip and set of bytes.
THEOREM SPIRingIsDeliveredFifo == Spec => Ring!ImplementsDelivered
<1> QED BY RingIsStreamingBuffer, SameRing, BufferIsFifo, SameQueue DEF ImplementsRing

-----------------------------------------------------------------------------
(***************************************************************************)
(* The same for a caller that looks before it puts, as loop() does.        *)
(***************************************************************************)

\* The ring of StreamingBuffer, as large as the chip, is then the promised queue.
LEMMA BufferIsPromised == Buffer!GuardedSpec => Buffer!ImplementsPromised
BY BufferAssumptions, Buffer!GuardedRingIsPromisedFifo

\* The guarded ring and the one of that theorem are the same.
LEMMA SameGuardedRing == Ring!GuardedSpec => Buffer!GuardedSpec
<1>1. Ring!Init <=> Buffer!Init
  BY DEF Ring!Init, Buffer!Init, Ring!None, Buffer!None, Ring!Index, Buffer!Index
<1>2. [Ring!GuardedNext]_(Ring!vars) => [Buffer!GuardedNext]_(Buffer!vars)
  BY DEF Ring!GuardedNext, Buffer!GuardedNext, Ring!begin, Buffer!begin, Ring!get, Buffer!get,
         Ring!put, Buffer!put, Ring!Advance, Buffer!Advance, Ring!None, Buffer!None,
         Ring!availableSpace, Buffer!availableSpace, Ring!availableData, Buffer!availableData,
         Ring!vars, Buffer!vars
<1> QED BY <1>1, <1>2, PTL DEF Ring!GuardedSpec, Buffer!GuardedSpec

\* And so are the queues they promise.
LEMMA SamePromise == Buffer!ImplementsPromised => Ring!ImplementsPromised
<1>1. Ring!Unread = Buffer!Unread
  BY DEF Ring!Unread, Buffer!Unread, Ring!availableData, Buffer!availableData,
         Ring!Slot, Buffer!Slot, Ring!None, Buffer!None
<1>2. Ring!Unread' = Buffer!Unread'
  BY DEF Ring!Unread, Buffer!Unread, Ring!availableData, Buffer!availableData,
         Ring!Slot, Buffer!Slot, Ring!None, Buffer!None
<1>3. Buffer!Fifo!Init => Ring!Fifo!Init
  BY <1>1 DEF Ring!Fifo!Init, Buffer!Fifo!Init, Ring!Fifo!NoByte, Buffer!Fifo!NoByte
<1>4. [Buffer!Fifo!PromisedNext]_(Buffer!Fifo!vars) => [Ring!Fifo!PromisedNext]_(Ring!Fifo!vars)
  BY <1>1, <1>2 DEF Ring!Fifo!PromisedNext, Buffer!Fifo!PromisedNext,
     Ring!Fifo!vars, Buffer!Fifo!vars, Ring!Fifo!Accept, Buffer!Fifo!Accept,
     Ring!Fifo!Refuse, Buffer!Fifo!Refuse, Ring!Fifo!Get, Buffer!Fifo!Get,
     Ring!Fifo!Clear, Buffer!Fifo!Clear, Ring!Fifo!NoByte, Buffer!Fifo!NoByte
<1> QED BY <1>3, <1>4, PTL
        DEF Ring!ImplementsPromised, Buffer!ImplementsPromised,
            Ring!Fifo!Promised, Buffer!Fifo!Promised

\* A caller that puts only while availableSpace() is not 0 loses no byte but by a reset,
\* although that look, the transfer of the byte and the move of the tail are many
\* steps apart, and a reset may come between any two of them.
THEOREM GuardedSPIRingIsPromisedFifo == GuardedSpec => Ring!ImplementsPromised
<1>1. [GuardedNext]_vars => [Next]_vars
  BY DEF GuardedNext, Next
<1>2. GuardedSpec => []RingInv
  BY <1>1, InitRing, StepKeeps, PTL DEF GuardedSpec
<1>3. GuardedSpec => Ring!GuardedSpec
  BY <1>2, InitRefines, GuardedRefines, PTL DEF GuardedSpec, Ring!GuardedSpec
<1> QED BY <1>3, SameGuardedRing, BufferIsPromised, SamePromise
=============================================================================
