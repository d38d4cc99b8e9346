------------------------------ MODULE RadioLoop -----------------------------
(***************************************************************************)
(* loop() of InternetRadio.ino: bytes of the MP3 stream are read from the  *)
(* WiFi client into mp3Buffer, put into the ring buffer, and taken from it *)
(* again, a buffer at a time, for the VS1053 codec.                        *)
(*                                                                         *)
(* loop() is the only thread; pc names the statement it is about to run.   *)
(* Between its statements the environment acts: the network delivers bytes *)
(* or drops the connection, and the codec decodes what is in its FIFO.     *)
(* Only statements that read the environment or write shared state are     *)
(* steps of their own.                                                     *)
(*                                                                         *)
(* A byte of the stream is its position, 1 .. StreamLength, so that losing,*)
(* doubling or reordering bytes is visible; 0 is what the ring's memory    *)
(* holds before anything is written to it.                                 *)
(***************************************************************************)
EXTENDS Integers, Sequences

CONSTANTS
  STREAMING_BUFFER_SIZE,   \* the ring's length, 32768 in the code
  DATABUFFERLEN,           \* the most bytes moved at once, 32 in the code
  CODEC_FIFO,              \* the VS1053's stream buffer
  StreamLength             \* bound: how many bytes the server sends

\* The phases of loop() need room for more than one transfer in the ring, and
\* DREQ, which the codec raises when a whole transfer fits, must be able to rise.
ASSUME SizesAssumption ==
  /\ STREAMING_BUFFER_SIZE \in Nat /\ DATABUFFERLEN \in Nat \ {0}
  /\ DATABUFFERLEN < STREAMING_BUFFER_SIZE
  /\ CODEC_FIFO \in Nat /\ DATABUFFERLEN <= CODEC_FIFO
  /\ StreamLength \in Nat

VARIABLES
  \* the sketch's state
  pc,                      \* the statement loop() runs next
  bufferInitialized,
  skip,                    \* whether the last computed skip flag was nonzero
  maxBytesToRead,          \* how many bytes the pending read asks for
  nRead,                   \* how many bytes are still to be taken from the ring
  mp3Buffer,               \* the bytes in transit, in order
  \* streamingBuffer
  head, tail, storage, ret,
  \* the environment
  sent,                    \* how many bytes have reached the WiFi client
  received,                \* how many of them loop() has read
  connected,
  heard,                   \* the bytes handed to the codec, in order
  codecLevel,              \* how many of them it has not decoded yet
  incrementLast            \* which outcome the compiler gave the skip statement

ring == <<head, tail, storage, ret>>
loopVars == <<pc, bufferInitialized, skip, maxBytesToRead, nRead, mp3Buffer>>
network == <<sent, received, connected>>
codec == <<heard, codecLevel>>
vars == <<loopVars, ring, network, codec, incrementLast>>

\* The sketch's ring is an SPIRingBuffer, which implements a StreamingBuffer
\* (module SPIRingBuffer); the sketch has the declaration of either.
Ring == INSTANCE StreamingBuffer
          WITH Size <- STREAMING_BUFFER_SIZE, Byte <- 0 .. StreamLength

THRESHOLD == STREAMING_BUFFER_SIZE \div 5

Smaller(a, b) == IF a < b THEN a ELSE b

-----------------------------------------------------------------------------
\* The state setup() leaves: begin() on a ring whose indices are still those of
\* its constructor, nothing read from the stream, nothing played.  The client may
\* not be connected (module Startup).
Init ==
  /\ pc = "fill"
  /\ bufferInitialized = FALSE
  /\ skip = FALSE
  /\ maxBytesToRead = 0
  /\ nRead = 0
  /\ mp3Buffer = << >>
  /\ head = Ring!None /\ tail = Ring!None /\ ret = Ring!None
  /\ storage = [i \in Ring!Index |-> 0]
  /\ sent = 0 /\ received = 0 /\ connected \in BOOLEAN
  /\ heard = << >> /\ codecLevel = 0
  /\ incrementLast \in BOOLEAN

-----------------------------------------------------------------------------
(***************************************************************************)
(* The environment.                                                        *)
(***************************************************************************)

\* The WiFi client, as the library implements it (modules WiFiSocket and Startup).
\* Of the steps of a ClientStream the reader's calls open and forget a connection,
\* which nothing in loop() does, and take what has arrived (Read); the network's
\* are these two, without any restriction but the length of the stream.
Stream == INSTANCE ClientStream

\* wifiClient.available()
available == sent - received

\* More of the stream reaches the client, one byte or many.
Deliver ==
  /\ \E n \in sent + 1 .. StreamLength : sent' = n
  /\ Stream!Arrive
  /\ UNCHANGED <<loopVars, ring, codec, incrementLast>>

\* The WiFi disconnect event closes the socket and drops what it had buffered.
Disconnect ==
  /\ Stream!Drop
  /\ UNCHANGED <<loopVars, ring, codec, incrementLast>>

\* The codec plays a byte.
Decode ==
  /\ codecLevel > 0
  /\ codecLevel' = codecLevel - 1
  /\ UNCHANGED <<loopVars, ring, network, heard, incrementLast>>

\* player.readyForData(): DREQ is high when a whole transfer fits in the FIFO.
readyForData_AnyRoom == codecLevel < CODEC_FIFO   \* a mutant
readyForData == CODEC_FIFO - codecLevel >= DATABUFFERLEN

-----------------------------------------------------------------------------
(***************************************************************************)
(* Filling the ring, until it is full for the first time.                  *)
(***************************************************************************)

\* How much to read.  One mutant does not look at the space left, the other keeps a
\* byte of it free, as rings that tell full from empty by their indices do.
fillRequest_OneFree ==
  Smaller(Smaller(available, DATABUFFERLEN), Ring!availableSpace - 1)
fillRequest_Unlimited == Smaller(available, DATABUFFERLEN)
fillRequest ==
  IF Ring!availableSpace < DATABUFFERLEN
  THEN Ring!availableSpace
  ELSE Smaller(available, DATABUFFERLEN)

\* Lines 347 to 361: is there data, and how much of it to read?
Fill ==
  /\ pc = "fill"
  /\ IF ~bufferInitialized /\ available > 0
     THEN /\ maxBytesToRead' = fillRequest
          /\ pc' = "fillRead"
     ELSE /\ pc' = "steady"
          /\ UNCHANGED maxBytesToRead
  /\ UNCHANGED <<bufferInitialized, skip, nRead, mp3Buffer,
                 ring, network, codec, incrementLast>>

\* wifiClient.read(mp3Buffer, maxBytesToRead): up to that many of the bytes
\* there are by now, or -1 and hence no byte.
Read(n) ==
  /\ n \in IF available = 0 \/ maxBytesToRead = 0 THEN {0}
           ELSE 1 .. Smaller(available, maxBytesToRead)
  /\ mp3Buffer' = [i \in 1 .. n |-> received + i]
  /\ received' = received + n
  /\ maxBytesToRead' = 0

FillRead ==
  /\ pc = "fillRead"
  /\ \E n \in 0 .. DATABUFFERLEN : Read(n)
  /\ pc' = "fillPut"
  /\ UNCHANGED <<bufferInitialized, skip, nRead,
                 ring, sent, connected, codec, incrementLast>>

\* One turn of the for loop that puts the bytes read into the ring.
PutNext ==
  /\ mp3Buffer # << >>
  /\ Ring!put(Head(mp3Buffer))
  /\ mp3Buffer' = Tail(mp3Buffer)
  /\ UNCHANGED <<pc, bufferInitialized, skip, maxBytesToRead, nRead,
                 network, codec, incrementLast>>

FillPut == pc = "fillPut" /\ PutNext

\* Line 367.  The mutant is content with almost a full ring.
loaded_Almost == Ring!availableSpace < DATABUFFERLEN
loaded == Ring!availableSpace = 0

\* Lines 367 to 370: the end of the for loop and the test for a full ring.
FillDone ==
  /\ pc = "fillPut" /\ mp3Buffer = << >>
  /\ bufferInitialized' = loaded
  /\ pc' = "steady"
  /\ UNCHANGED <<skip, maxBytesToRead, nRead, mp3Buffer,
                 ring, network, codec, incrementLast>>

-----------------------------------------------------------------------------
(***************************************************************************)
(* Topping the ring up, once it has been full.                             *)
(***************************************************************************)

\* Line 383.  The mutant asks for some space, not for that of a transfer.
roomToRead_Any == Ring!availableSpace > 0
roomToRead == Ring!availableSpace > DATABUFFERLEN

Steady ==
  /\ pc = "steady"
  /\ IF bufferInitialized /\ roomToRead /\ available > 0
     THEN /\ maxBytesToRead' = Smaller(available, DATABUFFERLEN)
          /\ pc' = "steadyRead"
     ELSE /\ pc' = "skip"
          /\ UNCHANGED maxBytesToRead
  /\ UNCHANGED <<bufferInitialized, skip, nRead, mp3Buffer,
                 ring, network, codec, incrementLast>>

SteadyRead ==
  /\ pc = "steadyRead"
  /\ \E n \in 0 .. DATABUFFERLEN : Read(n)
  /\ pc' = "steadyPut"
  /\ UNCHANGED <<bufferInitialized, skip, nRead,
                 ring, sent, connected, codec, incrementLast>>

SteadyPut == pc = "steadyPut" /\ PutNext

SteadyDone ==
  /\ pc = "steadyPut" /\ mp3Buffer = << >>
  /\ pc' = "skip"
  /\ UNCHANGED <<bufferInitialized, skip, maxBytesToRead, nRead, mp3Buffer,
                 ring, network, codec, incrementLast>>

-----------------------------------------------------------------------------
(***************************************************************************)
(* Feeding the codec.                                                      *)
(***************************************************************************)

belowThreshold == bufferInitialized /\ Ring!availableData < THRESHOLD

\* skip = belowThreshold ? (skip++)%2 : 0 writes skip twice without an order
\* between the two.  Either the assignment comes last, and skip gets skip % 2,
\* which is 0 from 0 on; or the increment does, and skip counts up.  A build
\* settles which.  Only whether skip is 0 is ever tested.  The mutant never
\* sets it to 0 again.
newSkip_Sticky == skip \/ belowThreshold
newSkip == belowThreshold /\ (skip \/ incrementLast)

ComputeSkip ==
  /\ pc = "skip"
  /\ skip' = newSkip
  /\ pc' = "play"
  /\ UNCHANGED <<bufferInitialized, maxBytesToRead, nRead, mp3Buffer,
                 ring, network, codec, incrementLast>>

\* Line 435.  The mutants take all there is, and a full transfer whatever there is.
bytesToPlay_All == Ring!availableData
bytesToPlay_Fixed == DATABUFFERLEN
bytesToPlay == Smaller(Ring!availableData, DATABUFFERLEN)

Play ==
  /\ pc = "play"
  /\ IF bufferInitialized /\ ~skip /\ readyForData
     THEN /\ nRead' = bytesToPlay
          /\ pc' = "playGet"
     ELSE /\ pc' = "fill"
          /\ UNCHANGED nRead
  /\ UNCHANGED <<bufferInitialized, skip, maxBytesToRead, mp3Buffer,
                 ring, network, codec, incrementLast>>

\* One turn of the for loop that takes bytes from the ring.
PlayGet ==
  /\ pc = "playGet" /\ nRead > 0
  /\ Ring!get
  /\ mp3Buffer' = Append(mp3Buffer, ret')
  /\ nRead' = nRead - 1
  /\ UNCHANGED <<pc, bufferInitialized, skip, maxBytesToRead,
                 network, codec, incrementLast>>

\* player.playData(mp3Buffer, nRead) does not look at DREQ again.
PlayData ==
  /\ pc = "playGet" /\ nRead = 0
  /\ heard' = heard \o mp3Buffer
  /\ codecLevel' = codecLevel + Len(mp3Buffer)
  /\ mp3Buffer' = << >>
  /\ pc' = "fill"
  /\ UNCHANGED <<bufferInitialized, skip, maxBytesToRead, nRead,
                 ring, network, incrementLast>>

-----------------------------------------------------------------------------
loop ==
  \/ Fill \/ FillRead \/ FillPut \/ FillDone
  \/ Steady \/ SteadyRead \/ SteadyPut \/ SteadyDone
  \/ ComputeSkip \/ Play \/ PlayGet \/ PlayData

Next == loop \/ Deliver \/ Disconnect \/ Decode

Spec == Init /\ [][Next]_vars

\* The Arduino core calls loop() for ever and the codec's clock never stops.
\* Nothing is assumed of the network.
FairSpec == Spec /\ WF_vars(loop) /\ WF_vars(Decode)
-----------------------------------------------------------------------------
(***************************************************************************)
(* Properties.                                                             *)
(***************************************************************************)

Locations == {"fill", "fillRead", "fillPut", "steady", "steadyRead",
              "steadyPut", "skip", "play", "playGet"}

\* Every variable has its type, and buffers stay within their arrays.
TypeOK ==
  /\ Ring!TypeOK
  /\ pc \in Locations
  /\ bufferInitialized \in BOOLEAN /\ skip \in BOOLEAN
  /\ maxBytesToRead \in 0 .. DATABUFFERLEN
  /\ nRead \in 0 .. DATABUFFERLEN
  /\ mp3Buffer \in Seq(0 .. StreamLength) /\ Len(mp3Buffer) <= DATABUFFERLEN
  /\ sent \in 0 .. StreamLength /\ received \in 0 .. sent
  /\ connected \in BOOLEAN /\ incrementLast \in BOOLEAN
  /\ heard \in Seq(0 .. StreamLength)
  /\ codecLevel \in 0 .. CODEC_FIFO

\* Every byte read is in exactly one place, and in its place: played, on its way
\* to the codec, in the ring, or on its way there.  mp3Buffer serves both ways,
\* so nothing may remain in it when its role changes.
InTransit(places) == IF pc \in places THEN mp3Buffer ELSE << >>

StreamInOrder ==
  heard \o InTransit({"playGet"}) \o Ring!Unread
        \o InTransit({"fillPut", "steadyPut"})
    = [i \in 1 .. received |-> i]

\* put() is never called on a full ring: what was read still fits, although
\* the space was looked at before the read.
RingNeverOverruns ==
  pc \in {"fillPut", "steadyPut"} => Len(mp3Buffer) <= Ring!availableSpace

\* get() is never called on an empty ring, so -1 never becomes the byte 0xFF.
RingNeverUnderruns == pc = "playGet" => nRead <= Ring!availableData

\* playData never sends more than the codec has room for, although it does not
\* look at DREQ: the codec only gains room between the look and the transfer.
CodecNeverOverflows ==
  pc = "playGet" => codecLevel + Len(mp3Buffer) + nRead <= CODEC_FIFO

\* "Flag to ensure that the ring buffer is fully loaded on startup"
\* (InternetRadio.ino:100): nothing is played before a whole ring has arrived.
PlaysOnlyAfterFullLoad == heard # << >> => received >= STREAMING_BUFFER_SIZE

\* With its puts and gets guarded like this, the ring the radio uses is the
\* promised FIFO, which loses nothing.
RingIsFifo == Ring!ImplementsPromised

\* The ring gets loaded to its last byte: when a whole ring of the stream has reached
\* the client, loop() finds the ring full in the end, whatever the sizes of the reads
\* were and however little is left for the last one, or the connection has dropped.
\* Until then nothing is played.
LoadsTheRing ==
  sent >= STREAMING_BUFFER_SIZE ~> bufferInitialized \/ ~connected

\* Once the ring has been loaded, in a build that never skips, every byte that
\* was read is played, and every byte that arrives is read unless the connection
\* drops.
PlaysTheStream ==
  \A n \in 1 .. StreamLength :
    (bufferInitialized /\ ~incrementLast /\ sent >= n)
      ~> (Len(heard) >= n \/ (~connected /\ Len(heard) = received))

\* "Skip a transfer to the VS1053 to give the buffer a chance to reload if the
\* data amount has fallen below THRESHOLD" (InternetRadio.ino:420): a ring that
\* keeps being found below the threshold makes loop() skip now and then.
SkipsBelowThreshold ==
  []<>(pc = "play" /\ belowThreshold) => []<>skip
=============================================================================
