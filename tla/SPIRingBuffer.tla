--------------------------- MODULE SPIRingBuffer ---------------------------
(***************************************************************************)
(* The ring buffer of libraries/SPIRingBuffer: the algorithm of            *)
(* StreamingBuffer over a 23K256 RAM chip.  Every byte stored or fetched   *)
(* is a transaction on the SPI bus: the chip is selected, an instruction,  *)
(* two address bytes and the data byte are transferred one by one, and the *)
(* chip is deselected.  The chip tells instruction from data only by       *)
(* counting the bytes since it was selected.                               *)
(*                                                                         *)
(* The microcontroller may be reset between any two of these steps.  The   *)
(* chip is not: it keeps its contents, its mode and its place in the       *)
(* transaction.                                                            *)
(***************************************************************************)
EXTENDS Integers, Sequences

CONSTANTS PageSize,   \* what the low address byte counts, 256
          Pages,      \* what the high address byte counts, 128
          Byte        \* the values a byte of the stream can take

ASSUME RamAssumption ==
  /\ PageSize \in Nat \ {0} /\ PageSize <= 256
  /\ Pages \in Nat \ {0} /\ Pages <= 256
ASSUME BytesAssumption == Byte \subseteq 0 .. 255 /\ Byte # {}

RING_BUFFER_LENGTH == PageSize * Pages

WRSR      == 1
WRITE     == 2
READ      == 3
BYTE_MODE == 1        \* byte mode with the HOLD pin disabled
NO_MODE   == 255      \* operationMode before any mode was set

VARIABLES
  \* the object
  head, tail, operationMode,
  \* the call in progress
  pc,                 \* "off" before begin(), "idle" between calls
  op,                 \* "none", "put" or "get"
  data,               \* the byte put or got
  out,                \* the bytes this transaction still transfers
  ret,                \* what the last put or get returned
  \* the chip
  selected,           \* whether its chip select is low
  received,           \* the bytes it got since it was selected
  memory,
  ramMode             \* its mode register

object == <<head, tail, operationMode>>
call   == <<pc, op, data, out, ret>>
chip   == <<selected, received, memory, ramMode>>
vars   == <<object, call, chip>>

None  == -1
Index == 0 .. RING_BUFFER_LENGTH - 1

\* What operationMode is constructed as.  The mutant takes the mode for set.
initialMode_Set == BYTE_MODE
initialMode == NO_MODE

\* The chip powers up in byte mode, its contents arbitrary.
Init ==
  /\ head = None /\ tail = None /\ operationMode = initialMode
  /\ pc = "off" /\ op = "none" /\ data = 0 /\ out = << >> /\ ret = None
  /\ selected = FALSE /\ received = << >>
  /\ memory \in [Index -> Byte] /\ ramMode = 0

-----------------------------------------------------------------------------
(***************************************************************************)
(* The chip.                                                               *)
(***************************************************************************)

\* Pulling chip select low starts an instruction, unless it was low already.
Select(bytes) ==
  /\ out' = bytes
  /\ selected' = TRUE
  /\ received' = IF selected THEN received ELSE << >>
  /\ UNCHANGED <<memory, ramMode>>

Deselect == selected' = FALSE /\ UNCHANGED <<received, memory, ramMode>>

\* The address the chip has been sent; it does not have more bits than it needs.
Address == (received[2] * PageSize + received[3]) % RING_BUFFER_LENGTH

\* One byte arrives.  The byte after a whole address is the data, and in byte
\* mode the chip ignores what follows it.
ChipGets(b) ==
  /\ received' = IF Len(received) < 4 THEN Append(received, b) ELSE received
  /\ memory' = IF Len(received) = 3 /\ received[1] = WRITE
               THEN [memory EXCEPT ![Address] = b] ELSE memory
  /\ ramMode' = IF received = << WRSR >> THEN b ELSE ramMode
  /\ UNCHANGED selected

\* What spi->transfer() returns with the last byte of a READ; nobody looks at
\* what it returns with another byte.
Reply == IF Len(received) = 3 /\ received[1] = READ THEN memory[Address] ELSE data

-----------------------------------------------------------------------------
(***************************************************************************)
(* The calls.                                                              *)
(***************************************************************************)

Goto(from, to) == pc = from /\ pc' = to

\* A mutant: chip select stays as it is.
begin_NoDeselect ==
  Goto("off", "idle") /\ UNCHANGED <<object, op, data, out, ret, chip>>

\* begin() leaves the indices alone.
begin ==
  /\ Goto("off", "idle")
  /\ Deselect
  /\ UNCHANGED <<object, op, data, out, ret>>

reset ==
  /\ pc = "idle"
  /\ head' = None /\ tail' = None
  /\ UNCHANGED <<operationMode, call, chip>>

\* The index after i; None has 0 as its successor.  The mutant does not wrap.
Advance_NoWrap(i) == i + 1
Advance(i) == (i + 1) % RING_BUFFER_LENGTH

\* put() up to the writeByte; the head stays advanced when the ring is full.
put(d) ==
  /\ pc = "idle"
  /\ head' = Advance(head)
  /\ IF head' = tail
     THEN ret' = None /\ UNCHANGED <<pc, op, data>>
     ELSE pc' = "mode" /\ op' = "put" /\ data' = d /\ UNCHANGED ret
  /\ UNCHANGED <<tail, operationMode, out, chip>>

get ==
  /\ pc = "idle"
  /\ IF tail = None
     THEN ret' = None /\ UNCHANGED <<pc, op>>
     ELSE pc' = "mode" /\ op' = "get" /\ UNCHANGED ret
  /\ UNCHANGED <<object, data, out, chip>>

\* setMode(BYTE_MODE): the chip is told its mode once.
setMode ==
  /\ IF operationMode # BYTE_MODE
     THEN Goto("mode", "modeTransfer") /\ Select(<< WRSR, BYTE_MODE >>)
     ELSE Goto("mode", "access") /\ UNCHANGED <<out, chip>>
  /\ UNCHANGED <<object, op, data, ret>>

setModeDone ==
  /\ Goto("modeTransfer", "access") /\ out = << >>
  /\ Deselect
  /\ operationMode' = BYTE_MODE
  /\ UNCHANGED <<head, tail, op, data, out, ret>>

\* The two bytes of an address.  The mutant forgets the high one.
AddressBytes_LowOnly(a) == << 0, a % PageSize >>
AddressBytes(a) == << (a \div PageSize) % 256, a % PageSize >>

\* readByte and writeByte, after setMode.
access ==
  /\ Goto("access", "accessTransfer")
  /\ Select(IF op = "put" THEN << WRITE >> \o AddressBytes(head) \o << data >>
                          ELSE << READ >> \o AddressBytes(tail) \o << 255 >>)
  /\ UNCHANGED <<object, op, data, ret>>

transfer ==
  /\ pc \in {"modeTransfer", "accessTransfer"} /\ out # << >>
  /\ ChipGets(Head(out))
  /\ out' = Tail(out)
  /\ data' = Reply
  /\ UNCHANGED <<object, pc, op, ret>>

\* put() and get() after the transfer.
putDone ==
  /\ Goto("accessTransfer", "idle") /\ out = << >> /\ op = "put" /\ op' = "none"
  /\ Deselect
  /\ tail' = IF tail = None THEN 0 ELSE tail
  /\ ret' = data
  /\ UNCHANGED <<head, operationMode, data, out>>

getDone ==
  /\ Goto("accessTransfer", "idle") /\ out = << >> /\ op = "get" /\ op' = "none"
  /\ Deselect
  /\ IF tail = head
     THEN head' = None /\ tail' = None
     ELSE tail' = Advance(tail) /\ UNCHANGED head
  /\ ret' = data
  /\ UNCHANGED <<operationMode, data, out>>

-----------------------------------------------------------------------------
\* The byte of a put is in the chip, although the call has not returned.
Written == op = "put" /\ pc = "accessTransfer" /\ out = << >>

outcome == IF Written THEN data ELSE ret

\* The microcontroller is reset, perhaps in the middle of a transaction.  Its chip
\* select output floats until begin(), and may leave the chip selected.
Restart ==
  /\ pc' = "off" /\ op' = "none" /\ out' = << >>
  /\ head' = None /\ tail' = None /\ operationMode' = initialMode
  /\ selected' \in {selected, FALSE}
  /\ ret' = outcome
  /\ UNCHANGED <<data, received, memory, ramMode>>

\* A call in progress goes on.
goesOn == setMode \/ setModeDone \/ access \/ transfer \/ putDone \/ getDone

Next == begin \/ reset \/ get \/ (\E d \in Byte : put(d)) \/ goesOn \/ Restart

Spec == Init /\ [][Next]_vars

-----------------------------------------------------------------------------
availableData ==
  IF tail = None /\ head = None THEN 0
  ELSE IF tail <= head THEN head - tail + 1
  ELSE RING_BUFFER_LENGTH - (tail - head) + 1

availableSpace == RING_BUFFER_LENGTH - availableData

\* A caller that, like InternetRadio's loop(), puts only while there is space.
GuardedNext ==
  \/ begin \/ reset \/ get \/ goesOn \/ Restart
  \/ availableSpace > 0 /\ \E d \in Byte : put(d)

GuardedSpec == Init /\ [][GuardedNext]_vars

-----------------------------------------------------------------------------
(***************************************************************************)
(* Properties.                                                             *)
(***************************************************************************)

\* Every variable has its type, and a call in progress works on the ring's data.
TypeOK ==
  /\ head \in Index \cup {None} /\ tail \in Index \cup {None}
  /\ operationMode \in {BYTE_MODE, NO_MODE}
  /\ pc \in {"off", "idle", "mode", "modeTransfer", "access", "accessTransfer"}
  /\ op \in {"none", "put", "get"} /\ (op = "none" <=> pc \in {"off", "idle"})
  /\ data \in 0 .. 255 /\ ret \in Byte \cup {None}
  /\ out \in Seq(0 .. 255) /\ Len(out) <= 4
  /\ selected \in BOOLEAN
  /\ received \in Seq(0 .. 255) /\ Len(received) <= 4
  /\ memory \in [Index -> Byte] /\ ramMode \in {0, BYTE_MODE}

\* No data is transferred before the chip has been told its mode, however the
\* microcontroller was reset and whatever operationMode was cached.
ByteModeWhenAccessed == pc = "accessTransfer" => ramMode = BYTE_MODE

\* The ring as its caller sees it.  A put happens when its byte reaches the chip:
\* until then the old head counts, from then on the new tail does.
headSeen ==
  IF op # "put" \/ Written THEN head
  ELSE IF tail = None THEN None
  ELSE (head + RING_BUFFER_LENGTH - 1) % RING_BUFFER_LENGTH

tailSeen == IF Written /\ tail = None THEN 0 ELSE tail

Ring == INSTANCE StreamingBuffer
          WITH Size <- RING_BUFFER_LENGTH, head <- headSeen, tail <- tailSeen,
               storage <- memory, ret <- outcome

\* Byte by byte, with a mode to set, two address bytes to send and a reset at any
\* moment, the calls have the effect of the calls of StreamingBuffer: each is a
\* put, a get or a begin of it, and no other cell of the chip is touched.
ImplementsRing == Ring!Spec
=============================================================================
