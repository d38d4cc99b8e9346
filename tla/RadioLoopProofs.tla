-------------------------- MODULE RadioLoopProofs --------------------------
(***************************************************************************)
(* loop() for every ring, every transfer and every stream: the ring and    *)
(* the codec's FIFO never overflow, the ring is never read empty, nothing  *)
(* is played before the ring has been full, and the bytes are played in    *)
(* the order in which they were read, each once.                           *)
(***************************************************************************)
EXTENDS RadioLoop, SequenceTheorems, TLAPS

\* The theorems about the ring, for the ring of the radio.
P == INSTANCE StreamingBufferProofs
       WITH Size <- STREAMING_BUFFER_SIZE, Byte <- 0 .. StreamLength

-----------------------------------------------------------------------------
(***************************************************************************)
(* The ring's calls, as the loop counts them.                              *)
(***************************************************************************)

RingInv == Ring!TypeOK /\ Ring!IndicesAgree

\* The radio's ring meets the assumptions of StreamingBuffer.
LEMMA RingConstants ==
  /\ STREAMING_BUFFER_SIZE \in Nat \ {0}
  /\ 0 .. StreamLength \subseteq Nat /\ 0 .. StreamLength # {}
BY SizesAssumption

\* The ring of the radio is the one its theorems are about.
LEMMA SameRing ==
  /\ RingInv <=> P!Inv
  /\ Ring!availableData = P!availableData
  /\ Ring!availableSpace = P!availableSpace
  /\ \A d : Ring!put(d) <=> P!put(d)
  /\ Ring!get <=> P!get
BY DEF RingInv, P!Inv, Ring!TypeOK, Ring!IndicesAgree, P!TypeOK, P!IndicesAgree,
       Ring!availableData, P!availableData, Ring!availableSpace, P!availableSpace,
       Ring!put, P!put, Ring!get, P!get, Ring!Index, P!Index, Ring!None, P!None,
       Ring!Advance, P!Advance

\* The counts of the ring lie in its bounds, and add up to its size.
LEMMA RingBounds ==
  RingInv => /\ Ring!availableData \in 0 .. STREAMING_BUFFER_SIZE
             /\ Ring!availableSpace = STREAMING_BUFFER_SIZE - Ring!availableData
<1>1. P!Inv => P!availableData \in 0 .. STREAMING_BUFFER_SIZE
  BY P!DataBounds, RingConstants
<1> QED BY <1>1, SameRing DEF Ring!availableSpace

\* ... also after a step.
LEMMA SameRingNext ==
  /\ RingInv' <=> P!Inv'
  /\ Ring!availableData' = P!availableData'
BY DEF RingInv, P!Inv, Ring!TypeOK, Ring!IndicesAgree, P!TypeOK, P!IndicesAgree,
       Ring!availableData, P!availableData, Ring!Index, P!Index, Ring!None, P!None

\* A call preserves the ring's invariant.
LEMMA RingStep ==
  ASSUME RingInv,
         Ring!get \/ (\E d \in 0 .. StreamLength : Ring!put(d)) \/ UNCHANGED ring
  PROVE  RingInv'
<1>1. P!Inv /\ [P!Next]_(P!vars)
  BY SameRing DEF P!Next, P!vars, ring
<1>2. P!Inv'
  BY <1>1, P!StepInv, RingConstants
<1> QED BY <1>2, SameRingNext

\* A put while there is space takes one byte of it.
LEMMA RingPut ==
  ASSUME RingInv, NEW d \in 0 .. StreamLength, Ring!put(d), Ring!availableSpace > 0
  PROVE  Ring!availableData' = Ring!availableData + 1
<1>1. P!Inv /\ P!put(d) /\ P!availableData < STREAMING_BUFFER_SIZE
  BY SameRing, RingBounds, RingConstants
<1>2. P!availableData' = P!availableData + 1
  BY <1>1, P!PutIndices, RingConstants
<1> QED BY <1>2, SameRing, SameRingNext

\* A get while there is data returns one byte of it.
LEMMA RingGet ==
  ASSUME RingInv, Ring!get, Ring!availableData > 0
  PROVE  /\ Ring!availableData' = Ring!availableData - 1
         /\ ret' \in 0 .. StreamLength
<1>1. P!Inv /\ P!get /\ P!availableData > 0
  BY SameRing
<1>2. P!availableData' = P!availableData - 1 /\ ret' = storage[P!Slot(1)]
  BY <1>1, P!GetIndices, RingConstants
<1>3. P!Slot(1) \in P!Index
  <2>1. 1 \in 1 .. P!availableData
    BY <1>1, SameRing, RingBounds, RingConstants
  <2> QED BY <1>1, <2>1, P!SlotInRange, RingConstants
<1>4. storage \in [P!Index -> 0 .. StreamLength]
  BY <1>1 DEF P!Inv, P!TypeOK
<1> QED BY <1>2, <1>3, <1>4, SameRing, SameRingNext

\* A step that does not call the ring leaves its data alone.
LEMMA RingIdle ==
  ASSUME UNCHANGED ring
  PROVE  Ring!availableData' = Ring!availableData
BY DEF ring, Ring!availableData

-----------------------------------------------------------------------------
(***************************************************************************)
(* The invariant of loop().  Between the look at the ring, the network or  *)
(* the codec and the use of what was seen lie other steps, so each         *)
(* conjunct says of one location what still holds of the look.             *)
(***************************************************************************)

\* mp3Buffer and nRead are in use only where they are being filled or emptied.
BuffersIdle ==
  /\ pc \notin {"fillPut", "steadyPut", "playGet"} => mp3Buffer = << >>
  /\ pc # "playGet" => nRead = 0

\* What is about to be read fits into the ring.
RequestFits ==
  pc \in {"fillRead", "steadyRead"} => maxBytesToRead <= Ring!availableSpace

\* What is being taken from the ring fits into mp3Buffer.
TransferFits ==
  pc = "playGet" => Len(mp3Buffer) + nRead <= DATABUFFERLEN

\* Until the ring has been full it holds all that was read; then it has been full.
LoadCounts ==
  /\ pc = "fillRead" => ~bufferInitialized
  /\ pc = "fillPut" => ~bufferInitialized
  /\ pc = "playGet" => bufferInitialized
  /\ bufferInitialized => received >= STREAMING_BUFFER_SIZE
  /\ ~bufferInitialized =>
       /\ heard = << >>
       /\ pc \notin {"steadyRead", "steadyPut"}
       /\ received = Ring!availableData + Len(mp3Buffer)

LoopInv ==
  /\ TypeOK /\ RingInv /\ BuffersIdle /\ RequestFits /\ RingNeverOverruns
  /\ TransferFits /\ RingNeverUnderruns /\ CodecNeverOverflows /\ LoadCounts

\* TypeOK in the three parts that are proved apart.
BooleansOK ==
  /\ bufferInitialized \in BOOLEAN /\ skip \in BOOLEAN
  /\ connected \in BOOLEAN /\ incrementLast \in BOOLEAN

NumbersOK ==
  /\ pc \in Locations
  /\ maxBytesToRead \in 0 .. DATABUFFERLEN
  /\ nRead \in 0 .. DATABUFFERLEN
  /\ mp3Buffer \in Seq(0 .. StreamLength) /\ Len(mp3Buffer) <= DATABUFFERLEN
  /\ sent \in 0 .. StreamLength /\ received \in 0 .. sent
  /\ heard \in Seq(0 .. StreamLength)
  /\ codecLevel \in 0 .. CODEC_FIFO

\* The type invariant in three parts: the ring, the flags and the numbers.
LEMMA TypeParts ==
  /\ TypeOK <=> Ring!TypeOK /\ BooleansOK /\ NumbersOK
  /\ TypeOK' <=> Ring!TypeOK' /\ BooleansOK' /\ NumbersOK'
BY DEF TypeOK, BooleansOK, NumbersOK

\* The invariant holds initially,
LEMMA InitLoopInv == Init => LoopInv
<1> SUFFICES ASSUME Init PROVE LoopInv
  OBVIOUS
<1>1. Ring!availableData = 0
  BY DEF Init, Ring!availableData
<1>2. RingInv
  BY SizesAssumption DEF Init, RingInv, Ring!TypeOK, Ring!IndicesAgree, Ring!None,
                         Ring!Index
<1>3. TypeOK
  <2>1. << >> \in Seq(0 .. StreamLength) /\ Len(<< >>) = 0
    OBVIOUS
  <2>2. BooleansOK
    BY DEF Init, BooleansOK
  <2>3. NumbersOK
    BY <2>1, SizesAssumption DEF Init, NumbersOK, Locations
  <2> QED BY <1>2, <2>2, <2>3, TypeParts DEF RingInv
<1>4. BuffersIdle /\ RequestFits /\ RingNeverOverruns /\ TransferFits
      /\ RingNeverUnderruns /\ CodecNeverOverflows
  BY DEF Init, BuffersIdle, RequestFits, RingNeverOverruns, TransferFits,
         RingNeverUnderruns, CodecNeverOverflows
<1>5. LoadCounts
  BY <1>1 DEF Init, LoadCounts
<1> QED BY <1>2, <1>3, <1>4, <1>5 DEF LoopInv

-----------------------------------------------------------------------------
(***************************************************************************)
(* One lemma for each kind of step.                                        *)
(***************************************************************************)

\* The environment takes and gives: it changes nothing a look of loop() depends
\* on but in the direction that keeps the look valid.
LEMMA EnvironmentKeeps ==
  ASSUME LoopInv, Deliver \/ Disconnect \/ Decode
  PROVE  LoopInv'
<1>1. UNCHANGED <<loopVars, ring, heard, received, incrementLast>>
  BY DEF Deliver, Disconnect, Stream!Arrive, Stream!Drop, Decode, network, codec
<1>2. RingInv' /\ Ring!availableData' = Ring!availableData
  BY <1>1, RingStep, RingIdle DEF LoopInv
<1>3. BooleansOK'
  BY <1>1, TypeParts
     DEF LoopInv, BooleansOK, Deliver, Disconnect, Stream!Arrive, Stream!Drop, Decode, network,
         codec, loopVars
<1>4. NumbersOK'
  <2>1. NumbersOK
    BY TypeParts DEF LoopInv
  <2>2. sent' \in received .. StreamLength
    BY <2>1, SizesAssumption DEF NumbersOK, Deliver, Disconnect, Stream!Arrive, Stream!Drop,
                                 Decode, network
  <2>3. codecLevel' \in 0 .. codecLevel
    BY <2>1, SizesAssumption DEF NumbersOK, Deliver, Disconnect, Stream!Arrive, Stream!Drop,
                                 Decode, codec
  <2> QED BY <1>1, <2>1, <2>2, <2>3, SizesAssumption DEF NumbersOK, loopVars
<1>5. BuffersIdle' /\ RequestFits' /\ RingNeverOverruns' /\ TransferFits'
      /\ RingNeverUnderruns' /\ LoadCounts'
  BY <1>1, <1>2
     DEF LoopInv, loopVars, BuffersIdle, RequestFits, RingNeverOverruns,
         TransferFits, RingNeverUnderruns, LoadCounts, Ring!availableSpace
<1>6. CodecNeverOverflows'
  <2> SUFFICES ASSUME pc = "playGet"
               PROVE  codecLevel' + Len(mp3Buffer) + nRead <= CODEC_FIFO
    BY <1>1 DEF CodecNeverOverflows, loopVars
  <2>1. codecLevel + Len(mp3Buffer) + nRead <= CODEC_FIFO
    BY DEF LoopInv, CodecNeverOverflows
  <2>2. /\ Len(mp3Buffer) \in Nat /\ nRead \in Nat /\ codecLevel \in Nat
        /\ codecLevel' \in Nat /\ codecLevel' <= codecLevel
    BY TypeParts, SizesAssumption
       DEF LoopInv, NumbersOK, Deliver, Disconnect, Stream!Arrive, Stream!Drop, Decode, codec
  <2> QED BY <2>1, <2>2, SizesAssumption
<1> QED BY <1>2, <1>3, <1>4, <1>5, <1>6, TypeParts DEF LoopInv, RingInv

\* What the looks have in common: they leave buffers, ring and environment alone.
LEMMA LookLeaves ==
  ASSUME LoopInv, UNCHANGED <<mp3Buffer, ring, network, codec, incrementLast>>
  PROVE  /\ RingInv' /\ Ring!availableData' = Ring!availableData
         /\ Ring!availableSpace' = Ring!availableSpace
         /\ Ring!availableData \in 0 .. STREAMING_BUFFER_SIZE
         /\ Ring!availableSpace = STREAMING_BUFFER_SIZE - Ring!availableData
         /\ available \in Nat
         /\ BooleansOK /\ NumbersOK
<1>1. RingInv' /\ Ring!availableData' = Ring!availableData
  BY RingStep, RingIdle DEF LoopInv
<1>2. BooleansOK /\ NumbersOK
  BY TypeParts DEF LoopInv
<1>3. available \in Nat
  BY <1>2, SizesAssumption DEF NumbersOK, available
<1> QED BY <1>1, <1>2, <1>3, RingBounds DEF LoopInv, Ring!availableSpace

\* It is kept by the steps of the first filling,
LEMMA FillKeeps == ASSUME LoopInv, Fill PROVE LoopInv'
<1>1. UNCHANGED <<bufferInitialized, skip, nRead, mp3Buffer, ring, network, codec,
                  incrementLast>>
  BY DEF Fill
<1>2. \/ /\ pc' = "fillRead" /\ ~bufferInitialized /\ maxBytesToRead' = fillRequest
      \/ /\ pc' = "steady" /\ UNCHANGED maxBytesToRead
  BY DEF Fill
<1>3. fillRequest \in 0 .. DATABUFFERLEN /\ fillRequest <= Ring!availableSpace
  BY <1>1, LookLeaves, SizesAssumption DEF fillRequest, Smaller
<1>4. BooleansOK'
  BY <1>1, LookLeaves DEF BooleansOK, network
<1>5. NumbersOK'
  BY <1>1, <1>2, <1>3, LookLeaves, SizesAssumption
     DEF NumbersOK, Locations, network, codec
<1>6. RequestFits'
  BY <1>1, <1>2, <1>3, LookLeaves DEF RequestFits
<1>7. BuffersIdle'
  BY <1>1, <1>2 DEF LoopInv, BuffersIdle, Fill
<1>8. RingNeverOverruns' /\ TransferFits' /\ RingNeverUnderruns' /\ CodecNeverOverflows'
  BY <1>2 DEF RingNeverOverruns, TransferFits, RingNeverUnderruns, CodecNeverOverflows
<1>9. LoadCounts'
  BY <1>1, <1>2, LookLeaves DEF LoopInv, LoadCounts, network, codec
<1> QED BY <1>1, <1>4, <1>5, <1>6, <1>7, <1>8, <1>9, LookLeaves, TypeParts
        DEF LoopInv, RingInv

\* by the look at a full ring,
LEMMA SteadyKeeps == ASSUME LoopInv, Steady PROVE LoopInv'
<1>1. UNCHANGED <<bufferInitialized, skip, nRead, mp3Buffer, ring, network, codec,
                  incrementLast>>
  BY DEF Steady
<1>2. \/ /\ pc' = "steadyRead" /\ bufferInitialized /\ Ring!availableSpace > DATABUFFERLEN
         /\ maxBytesToRead' = Smaller(available, DATABUFFERLEN)
      \/ /\ pc' = "skip" /\ UNCHANGED maxBytesToRead
  BY DEF Steady, roomToRead
<1>3. Smaller(available, DATABUFFERLEN) \in 0 .. DATABUFFERLEN
  BY <1>1, LookLeaves, SizesAssumption DEF Smaller
<1>4. BooleansOK'
  BY <1>1, LookLeaves DEF BooleansOK, network
<1>5. NumbersOK'
  BY <1>1, <1>2, <1>3, LookLeaves, SizesAssumption
     DEF NumbersOK, Locations, network, codec
<1>6. RequestFits'
  BY <1>1, <1>2, <1>3, LookLeaves, SizesAssumption DEF RequestFits
<1>7. BuffersIdle'
  BY <1>1, <1>2 DEF LoopInv, BuffersIdle, Steady
<1>8. RingNeverOverruns' /\ TransferFits' /\ RingNeverUnderruns' /\ CodecNeverOverflows'
  BY <1>2 DEF RingNeverOverruns, TransferFits, RingNeverUnderruns, CodecNeverOverflows
<1>9. LoadCounts'
  BY <1>1, <1>2, LookLeaves DEF LoopInv, LoadCounts, network, codec
<1> QED BY <1>1, <1>4, <1>5, <1>6, <1>7, <1>8, <1>9, LookLeaves, TypeParts
        DEF LoopInv, RingInv

\* by the count of what is to be skipped,
LEMMA ComputeSkipKeeps == ASSUME LoopInv, ComputeSkip PROVE LoopInv'
<1>1. /\ UNCHANGED <<bufferInitialized, maxBytesToRead, nRead, mp3Buffer,
                     ring, network, codec, incrementLast>>
      /\ pc = "skip" /\ pc' = "play" /\ skip' = newSkip
  BY DEF ComputeSkip
<1>2. BooleansOK'
  BY <1>1, LookLeaves DEF BooleansOK, network, newSkip, belowThreshold
<1>3. NumbersOK'
  BY <1>1, LookLeaves, SizesAssumption DEF NumbersOK, Locations, network, codec
<1>4. BuffersIdle' /\ RequestFits' /\ RingNeverOverruns' /\ TransferFits'
      /\ RingNeverUnderruns' /\ CodecNeverOverflows'
  BY <1>1 DEF LoopInv, BuffersIdle, RequestFits, RingNeverOverruns, TransferFits,
              RingNeverUnderruns, CodecNeverOverflows
<1>5. LoadCounts'
  BY <1>1, LookLeaves DEF LoopInv, LoadCounts, network, codec
<1> QED BY <1>1, <1>2, <1>3, <1>4, <1>5, LookLeaves, TypeParts DEF LoopInv, RingInv

\* DREQ was high when Play looked, so the transfer it starts fits into the codec.
LEMMA PlayKeeps == ASSUME LoopInv, Play PROVE LoopInv'
<1>1. /\ UNCHANGED <<bufferInitialized, skip, maxBytesToRead, mp3Buffer,
                     ring, network, codec, incrementLast>>
      /\ pc = "play"
  BY DEF Play
<1>2. \/ /\ pc' = "playGet" /\ bufferInitialized /\ readyForData /\ nRead' = bytesToPlay
      \/ /\ pc' = "fill" /\ UNCHANGED nRead
  BY DEF Play
<1>3. bytesToPlay \in 0 .. DATABUFFERLEN /\ bytesToPlay <= Ring!availableData
  BY <1>1, LookLeaves, SizesAssumption DEF bytesToPlay, Smaller
<1>4. mp3Buffer = << >> /\ nRead = 0 /\ Len(mp3Buffer) = 0
  BY <1>1 DEF LoopInv, BuffersIdle
<1>5. BooleansOK'
  BY <1>1, LookLeaves DEF BooleansOK, network
<1>6. NumbersOK'
  BY <1>1, <1>2, <1>3, LookLeaves, SizesAssumption DEF NumbersOK, Locations, network, codec
<1>7. BuffersIdle' /\ RequestFits' /\ RingNeverOverruns'
  BY <1>1, <1>2, <1>4 DEF BuffersIdle, RequestFits, RingNeverOverruns
<1>8. TransferFits' /\ RingNeverUnderruns'
  BY <1>1, <1>2, <1>3, <1>4, LookLeaves, SizesAssumption
     DEF TransferFits, RingNeverUnderruns
<1>9. CodecNeverOverflows'
  <2> SUFFICES ASSUME pc' = "playGet"
               PROVE  codecLevel' + Len(mp3Buffer') + nRead' <= CODEC_FIFO
    BY DEF CodecNeverOverflows
  <2>1. CODEC_FIFO - codecLevel >= DATABUFFERLEN /\ nRead' = bytesToPlay
    BY <1>2 DEF readyForData
  <2>2. codecLevel' = codecLevel /\ codecLevel \in Nat
    BY <1>1, LookLeaves, SizesAssumption DEF NumbersOK, codec
  <2>3. mp3Buffer' = mp3Buffer
    BY <1>1
  <2> QED BY <1>3, <1>4, <2>1, <2>2, <2>3, SizesAssumption
<1>10. LoadCounts'
  BY <1>1, <1>2, <1>4, LookLeaves DEF LoopInv, LoadCounts, network, codec
<1> QED BY <1>1, <1>5, <1>6, <1>7, <1>8, <1>9, <1>10, LookLeaves, TypeParts
        DEF LoopInv, RingInv

\* The ring counts as loaded when it is full: all of it has been read by then.
LEMMA FillDoneKeeps == ASSUME LoopInv, FillDone PROVE LoopInv'
<1>1. /\ UNCHANGED <<skip, maxBytesToRead, nRead, mp3Buffer,
                     ring, network, codec, incrementLast>>
      /\ pc = "fillPut" /\ pc' = "steady" /\ mp3Buffer = << >>
      /\ bufferInitialized' = loaded
  BY DEF FillDone
<1>2. BooleansOK'
  BY <1>1, LookLeaves DEF BooleansOK, network, loaded
<1>3. NumbersOK'
  BY <1>1, LookLeaves, SizesAssumption DEF NumbersOK, Locations, network, codec
<1>4. BuffersIdle' /\ RequestFits' /\ RingNeverOverruns' /\ TransferFits'
      /\ RingNeverUnderruns' /\ CodecNeverOverflows'
  BY <1>1 DEF LoopInv, BuffersIdle, RequestFits, RingNeverOverruns, TransferFits,
              RingNeverUnderruns, CodecNeverOverflows
<1>5. LoadCounts'
  <2>1. heard = << >> /\ received = Ring!availableData + Len(mp3Buffer)
    BY <1>1 DEF LoopInv, LoadCounts
  <2>2. Len(mp3Buffer) = 0
    BY <1>1
  <2>3. received = Ring!availableData
    BY <2>1, <2>2, <1>1, LookLeaves, SizesAssumption
  <2>4. loaded => received >= STREAMING_BUFFER_SIZE
    BY <2>3, <1>1, LookLeaves, SizesAssumption DEF loaded
  <2>5. UNCHANGED <<heard, received>> /\ Ring!availableData' = Ring!availableData
    BY <1>1, LookLeaves DEF network, codec
  <2> QED BY <1>1, <2>1, <2>4, <2>5 DEF LoadCounts
<1> QED BY <1>1, <1>2, <1>3, <1>4, <1>5, LookLeaves, TypeParts DEF LoopInv, RingInv

\* by the end of a refill,
LEMMA SteadyDoneKeeps == ASSUME LoopInv, SteadyDone PROVE LoopInv'
<1>1. /\ UNCHANGED <<bufferInitialized, skip, maxBytesToRead, nRead, mp3Buffer,
                     ring, network, codec, incrementLast>>
      /\ pc = "steadyPut" /\ pc' = "skip" /\ mp3Buffer = << >>
  BY DEF SteadyDone
<1>2. BooleansOK'
  BY <1>1, LookLeaves DEF BooleansOK, network
<1>3. NumbersOK'
  BY <1>1, LookLeaves, SizesAssumption DEF NumbersOK, Locations, network, codec
<1>4. BuffersIdle' /\ RequestFits' /\ RingNeverOverruns' /\ TransferFits'
      /\ RingNeverUnderruns' /\ CodecNeverOverflows'
  BY <1>1 DEF LoopInv, BuffersIdle, RequestFits, RingNeverOverruns, TransferFits,
              RingNeverUnderruns, CodecNeverOverflows
<1>5. LoadCounts'
  BY <1>1, LookLeaves DEF LoopInv, LoadCounts, network, codec
<1> QED BY <1>1, <1>2, <1>3, <1>4, <1>5, LookLeaves, TypeParts DEF LoopInv, RingInv

\* PlayData leaves the ring and the network alone too.
LEMMA PlayDataKeeps == ASSUME LoopInv, PlayData PROVE LoopInv'
<1> USE SizesAssumption
<1>1. /\ UNCHANGED <<bufferInitialized, skip, maxBytesToRead, nRead,
                     ring, network, incrementLast>>
      /\ pc = "playGet" /\ pc' = "fill" /\ nRead = 0
      /\ mp3Buffer' = << >> /\ heard' = heard \o mp3Buffer
      /\ codecLevel' = codecLevel + Len(mp3Buffer)
  BY DEF PlayData
<1>2. RingInv' /\ Ring!availableData' = Ring!availableData
  BY <1>1, RingStep, RingIdle DEF LoopInv
<1>3. BooleansOK /\ NumbersOK
  BY TypeParts DEF LoopInv
<1>4. BooleansOK'
  BY <1>1, <1>3 DEF BooleansOK, network
<1>5. codecLevel + Len(mp3Buffer) + nRead <= CODEC_FIFO
  BY <1>1 DEF LoopInv, CodecNeverOverflows
<1>6. codecLevel' \in 0 .. CODEC_FIFO
  BY <1>1, <1>3, <1>5 DEF NumbersOK
<1>7. /\ heard' \in Seq(0 .. StreamLength)
      /\ mp3Buffer' \in Seq(0 .. StreamLength) /\ Len(mp3Buffer') = 0
  BY <1>1, <1>3 DEF NumbersOK
<1>8. NumbersOK'
  BY <1>1, <1>3, <1>6, <1>7 DEF NumbersOK, Locations, network
<1>9. BuffersIdle' /\ RequestFits' /\ RingNeverOverruns' /\ TransferFits'
      /\ RingNeverUnderruns' /\ CodecNeverOverflows'
  BY <1>1 DEF LoopInv, BuffersIdle, RequestFits, RingNeverOverruns, TransferFits,
              RingNeverUnderruns, CodecNeverOverflows
<1>10. LoadCounts'
  BY <1>1, <1>2 DEF LoopInv, LoadCounts, network
<1> QED BY <1>2, <1>4, <1>8, <1>9, <1>10, TypeParts DEF LoopInv, RingInv

-----------------------------------------------------------------------------
(***************************************************************************)
(* Reading from the client, and moving bytes into and out of the ring.     *)
(***************************************************************************)

\* What a read puts into mp3Buffer: no more than was asked for, all of the stream.
LEMMA ReadFits ==
  ASSUME NumbersOK, mp3Buffer = << >>, NEW n \in 0 .. DATABUFFERLEN, Read(n)
  PROVE  /\ mp3Buffer' \in Seq(0 .. StreamLength) /\ Len(mp3Buffer') = n
         /\ n <= maxBytesToRead /\ received' = received + n /\ received' <= sent
         /\ maxBytesToRead' = 0
<1> USE SizesAssumption
<1>1. mp3Buffer' = [i \in 1 .. n |-> received + i] /\ received' = received + n
      /\ maxBytesToRead' = 0
  BY DEF Read
<1>2. /\ received \in Nat /\ sent \in Nat /\ received <= sent /\ sent <= StreamLength
      /\ available = sent - received /\ maxBytesToRead \in 0 .. DATABUFFERLEN
  BY DEF NumbersOK, available
<1>3. n \in IF available = 0 \/ maxBytesToRead = 0 THEN {0}
           ELSE 1 .. Smaller(available, maxBytesToRead)
  BY DEF Read
<1>4. n <= maxBytesToRead /\ n <= available
  BY <1>2, <1>3 DEF Smaller
<1>5. \A i \in 1 .. n : received + i \in 0 .. StreamLength
  BY <1>2, <1>4
<1>6. mp3Buffer' \in [1 .. n -> 0 .. StreamLength]
  BY <1>1, <1>5
<1>7. mp3Buffer' \in Seq(0 .. StreamLength) /\ Len(mp3Buffer') = n
  BY <1>6
<1> QED BY <1>1, <1>2, <1>4, <1>7

\* and by the reading of bytes from the client.
LEMMA ReadKeeps == ASSUME LoopInv, FillRead \/ SteadyRead PROVE LoopInv'
<1> USE SizesAssumption
<1>1. /\ UNCHANGED <<bufferInitialized, skip, nRead, ring, sent, connected, codec,
                     incrementLast>>
      /\ \/ pc = "fillRead" /\ pc' = "fillPut"
         \/ pc = "steadyRead" /\ pc' = "steadyPut"
  BY DEF FillRead, SteadyRead
<1>2. BooleansOK /\ NumbersOK
  BY TypeParts DEF LoopInv
<1>3. mp3Buffer = << >> /\ nRead = 0 /\ Len(mp3Buffer) = 0
  BY <1>1 DEF LoopInv, BuffersIdle
<1>4. PICK n \in 0 .. DATABUFFERLEN : Read(n)
  BY DEF FillRead, SteadyRead
<1>5. /\ mp3Buffer' \in Seq(0 .. StreamLength) /\ Len(mp3Buffer') = n
      /\ n <= maxBytesToRead /\ received' = received + n /\ received' <= sent
      /\ maxBytesToRead' = 0
  BY <1>2, <1>3, <1>4, ReadFits
<1>6. RingInv' /\ Ring!availableData' = Ring!availableData
  BY <1>1, RingStep, RingIdle DEF LoopInv
<1>7. /\ Ring!availableData \in Nat /\ Ring!availableSpace \in Int
      /\ Ring!availableSpace' = Ring!availableSpace
  BY <1>6, RingBounds DEF LoopInv, Ring!availableSpace
<1>8. BooleansOK'
  BY <1>1, <1>2 DEF BooleansOK
<1>9. NumbersOK'
  BY <1>1, <1>2, <1>5 DEF NumbersOK, Locations, codec
<1>10. RingNeverOverruns'
  <2>1. maxBytesToRead <= Ring!availableSpace /\ maxBytesToRead \in Int
    BY <1>1, <1>2 DEF LoopInv, RequestFits, NumbersOK
  <2>2. Len(mp3Buffer') <= Ring!availableSpace'
    BY <1>5, <1>7, <2>1
  <2> QED BY <2>2 DEF RingNeverOverruns
<1>11. BuffersIdle' /\ RequestFits' /\ TransferFits' /\ RingNeverUnderruns'
       /\ CodecNeverOverflows'
  BY <1>1, <1>3 DEF BuffersIdle, RequestFits, TransferFits, RingNeverUnderruns,
                    CodecNeverOverflows
<1>12. LoadCounts'
  <2>1. CASE bufferInitialized
    <3>1. received' >= STREAMING_BUFFER_SIZE /\ pc' = "steadyPut"
      BY <1>1, <1>2, <1>5, <2>1 DEF LoopInv, LoadCounts, NumbersOK
    <3> QED BY <1>1, <2>1, <3>1 DEF LoadCounts
  <2>2. CASE ~bufferInitialized
    <3>1. heard = << >> /\ received = Ring!availableData + Len(mp3Buffer)
          /\ pc' = "fillPut"
      BY <1>1, <2>2 DEF LoopInv, LoadCounts
    <3>2. received' = Ring!availableData' + Len(mp3Buffer') /\ heard' = << >>
      BY <1>1, <1>3, <1>5, <1>6, <1>7, <3>1 DEF codec
    <3> QED BY <1>1, <2>2, <3>1, <3>2 DEF LoadCounts
  <2> QED BY <2>1, <2>2
<1> QED BY <1>6, <1>8, <1>9, <1>10, <1>11, <1>12, TypeParts DEF LoopInv, RingInv

\* A put takes one byte of the space and one of the bytes to put.
LEMMA PutKeeps == ASSUME LoopInv, FillPut \/ SteadyPut PROVE LoopInv'
<1> USE SizesAssumption
<1>1. /\ UNCHANGED <<pc, bufferInitialized, skip, maxBytesToRead, nRead,
                     network, codec, incrementLast>>
      /\ pc \in {"fillPut", "steadyPut"}
      /\ mp3Buffer # << >> /\ Ring!put(Head(mp3Buffer)) /\ mp3Buffer' = Tail(mp3Buffer)
  BY DEF FillPut, SteadyPut, PutNext
<1>2. BooleansOK /\ NumbersOK
  BY TypeParts DEF LoopInv
<1>3. /\ Head(mp3Buffer) \in 0 .. StreamLength
      /\ mp3Buffer' \in Seq(0 .. StreamLength)
      /\ Len(mp3Buffer) \in Nat \ {0} /\ Len(mp3Buffer') = Len(mp3Buffer) - 1
  BY <1>1, <1>2 DEF NumbersOK
<1>4. Len(mp3Buffer) <= Ring!availableSpace
  BY <1>1 DEF LoopInv, RingNeverOverruns
<1>5. Ring!availableSpace > 0 /\ Ring!availableData \in Nat
      /\ Ring!availableSpace = STREAMING_BUFFER_SIZE - Ring!availableData
  BY <1>3, <1>4, RingBounds DEF LoopInv
<1>6. RingInv' /\ Ring!availableData' = Ring!availableData + 1
  BY <1>1, <1>3, <1>5, RingStep, RingPut DEF LoopInv
<1>7. Ring!availableSpace' = Ring!availableSpace - 1
  BY <1>5, <1>6 DEF Ring!availableSpace
<1>8. BooleansOK'
  BY <1>1, <1>2 DEF BooleansOK, network
<1>9. NumbersOK'
  BY <1>1, <1>2, <1>3 DEF NumbersOK, network, codec
<1>10. RingNeverOverruns'
  BY <1>3, <1>4, <1>5, <1>7 DEF RingNeverOverruns
<1>11. BuffersIdle' /\ RequestFits' /\ TransferFits' /\ RingNeverUnderruns'
       /\ CodecNeverOverflows'
  BY <1>1 DEF LoopInv, BuffersIdle, RequestFits, TransferFits, RingNeverUnderruns,
              CodecNeverOverflows
<1>12. LoadCounts'
  <2>1. UNCHANGED <<received, heard>>
    BY <1>1 DEF network, codec
  <2>2. received \in Nat
    BY <1>2 DEF NumbersOK
  <2>3. ~bufferInitialized => received' = Ring!availableData' + Len(mp3Buffer')
    BY <1>3, <1>5, <1>6, <2>1, <2>2 DEF LoopInv, LoadCounts
  <2> QED BY <1>1, <2>1, <2>3 DEF LoopInv, LoadCounts
<1> QED BY <1>6, <1>8, <1>9, <1>10, <1>11, <1>12, TypeParts DEF LoopInv, RingInv

\* A get takes one byte of the data and one of the bytes to get.
LEMMA PlayGetKeeps == ASSUME LoopInv, PlayGet PROVE LoopInv'
<1> USE SizesAssumption
<1>1. /\ UNCHANGED <<pc, bufferInitialized, skip, maxBytesToRead,
                     network, codec, incrementLast>>
      /\ pc = "playGet" /\ nRead > 0 /\ Ring!get
      /\ mp3Buffer' = Append(mp3Buffer, ret') /\ nRead' = nRead - 1
  BY DEF PlayGet
<1>2. BooleansOK /\ NumbersOK
  BY TypeParts DEF LoopInv
<1>3. nRead \in Nat \ {0} /\ nRead <= Ring!availableData /\ Ring!availableData \in Nat
      /\ Len(mp3Buffer) + nRead <= DATABUFFERLEN
      /\ codecLevel + Len(mp3Buffer) + nRead <= CODEC_FIFO
  BY <1>1, <1>2, RingBounds
     DEF LoopInv, NumbersOK, RingNeverUnderruns, TransferFits, CodecNeverOverflows
<1>4. RingInv' /\ Ring!availableData' = Ring!availableData - 1
      /\ ret' \in 0 .. StreamLength
  BY <1>1, <1>3, RingStep, RingGet DEF LoopInv
<1>5. /\ mp3Buffer' \in Seq(0 .. StreamLength)
      /\ Len(mp3Buffer) \in Nat /\ Len(mp3Buffer') = Len(mp3Buffer) + 1
  BY <1>1, <1>2, <1>4 DEF NumbersOK
<1>6. BooleansOK'
  BY <1>1, <1>2 DEF BooleansOK, network
<1>7. NumbersOK'
  BY <1>1, <1>2, <1>3, <1>5 DEF NumbersOK, network, codec
<1>8. TransferFits' /\ RingNeverUnderruns' /\ CodecNeverOverflows'
  BY <1>1, <1>2, <1>3, <1>4, <1>5
     DEF NumbersOK, TransferFits, RingNeverUnderruns, CodecNeverOverflows, codec
<1>9. BuffersIdle' /\ RequestFits' /\ RingNeverOverruns'
  BY <1>1 DEF BuffersIdle, RequestFits, RingNeverOverruns
<1>10. LoadCounts'
  BY <1>1 DEF LoopInv, LoadCounts, network, codec
<1> QED BY <1>4, <1>6, <1>7, <1>8, <1>9, <1>10, TypeParts DEF LoopInv, RingInv

-----------------------------------------------------------------------------
(***************************************************************************)
(* The theorems.                                                           *)
(***************************************************************************)

\* So every step keeps it,
LEMMA StepLoopInv == LoopInv /\ [Next]_vars => LoopInv'
<1> SUFFICES ASSUME LoopInv, [Next]_vars PROVE LoopInv'
  OBVIOUS
<1>1. CASE Next
  BY <1>1, EnvironmentKeeps, FillKeeps, SteadyKeeps, ComputeSkipKeeps, PlayKeeps,
     FillDoneKeeps, SteadyDoneKeeps, PlayDataKeeps, ReadKeeps, PutKeeps, PlayGetKeeps
     DEF Next, loop
<1>2. CASE UNCHANGED vars
  <2>1. RingInv' /\ Ring!availableData' = Ring!availableData
        /\ Ring!availableSpace' = Ring!availableSpace
    BY <1>2, RingStep, RingIdle DEF LoopInv, vars, Ring!availableSpace
  <2>2. BooleansOK' /\ NumbersOK'
    BY <1>2, TypeParts
       DEF LoopInv, BooleansOK, NumbersOK, vars, loopVars, network, codec
  <2>3. BuffersIdle' /\ RequestFits' /\ RingNeverOverruns' /\ TransferFits'
        /\ RingNeverUnderruns' /\ CodecNeverOverflows' /\ LoadCounts'
    BY <1>2, <2>1
       DEF LoopInv, vars, loopVars, network, codec, BuffersIdle, RequestFits,
           RingNeverOverruns, TransferFits, RingNeverUnderruns, CodecNeverOverflows,
           LoadCounts
  <2> QED BY <2>1, <2>2, <2>3, TypeParts DEF LoopInv, RingInv
<1> QED BY <1>1, <1>2

\* and it holds always.
LEMMA LoopInvHolds == Spec => []LoopInv
BY InitLoopInv, StepLoopInv, PTL DEF Spec

\* Every variable of loop() has its type, for every size.
THEOREM LoopTypeCorrect == Spec => []TypeOK
<1>1. LoopInv => TypeOK
  BY DEF LoopInv
<1> QED BY <1>1, LoopInvHolds, PTL

\* No put ever finds the ring full.
THEOREM NeverOverruns == Spec => []RingNeverOverruns
<1>1. LoopInv => RingNeverOverruns
  BY DEF LoopInv
<1> QED BY <1>1, LoopInvHolds, PTL

\* No get ever finds the ring empty.
THEOREM NeverUnderruns == Spec => []RingNeverUnderruns
<1>1. LoopInv => RingNeverUnderruns
  BY DEF LoopInv
<1> QED BY <1>1, LoopInvHolds, PTL

\* No transfer ever exceeds the room in the codec.
THEOREM CodecHasRoom == Spec => []CodecNeverOverflows
<1>1. LoopInv => CodecNeverOverflows
  BY DEF LoopInv
<1> QED BY <1>1, LoopInvHolds, PTL

\* Nothing is played before a whole ring has been read.
THEOREM PlaysAfterLoad == Spec => []PlaysOnlyAfterFullLoad
<1>1. LoopInv => PlaysOnlyAfterFullLoad
  BY DEF LoopInv, LoadCounts, PlaysOnlyAfterFullLoad
<1> QED BY <1>1, LoopInvHolds, PTL

-----------------------------------------------------------------------------
(***************************************************************************)
(* The stream through loop(): the ring is the FIFO that refuses nothing.   *)
(***************************************************************************)

\* Every step of the radio is a guarded call of the ring, or none.
LEMMA InitOfRing == Init => P!Init
BY SizesAssumption DEF Init, P!Init, Ring!None, P!None, Ring!Index, P!Index

\* A sequence that is not empty has a first element.
LEMMA NonEmptyHead ==
  ASSUME NEW S, NEW s \in Seq(S), s # << >>
  PROVE  Head(s) \in S /\ Len(s) > 0
OBVIOUS

\* Every step calls the ring as its guarded specification allows, or not at all.
LEMMA StepOfRing == LoopInv /\ [Next]_vars => [P!GuardedNext]_(P!vars)
<1> SUFFICES ASSUME LoopInv, Next \/ UNCHANGED vars
             PROVE  P!GuardedNext \/ UNCHANGED P!vars
  OBVIOUS
<1>1. CASE FillPut \/ SteadyPut
  <2>1. /\ pc \in {"fillPut", "steadyPut"}
        /\ mp3Buffer # << >> /\ Ring!put(Head(mp3Buffer))
    BY <1>1 DEF FillPut, SteadyPut, PutNext
  <2>2. mp3Buffer \in Seq(0 .. StreamLength) /\ Len(mp3Buffer) <= Ring!availableSpace
    BY <2>1 DEF LoopInv, TypeOK, RingNeverOverruns
  <2>3. Head(mp3Buffer) \in 0 .. StreamLength /\ Len(mp3Buffer) > 0
    BY <2>1, <2>2, NonEmptyHead
  <2>4. Ring!availableSpace > 0
    BY <2>2, <2>3, RingBounds, SizesAssumption DEF LoopInv
  <2> QED BY <2>1, <2>3, <2>4, SameRing DEF P!GuardedNext
<1>2. CASE PlayGet
  BY <1>2, SameRing DEF PlayGet, P!GuardedNext
<1>3. CASE ~(FillPut \/ SteadyPut \/ PlayGet)
  BY <1>3 DEF Next, loop, Fill, FillRead, FillDone, Steady, SteadyRead, SteadyDone,
              ComputeSkip, Play, PlayData, Deliver, Disconnect, Stream!Arrive, Stream!Drop, Decode, vars, ring, P!vars
<1> QED BY <1>1, <1>2, <1>3

\* The FIFO of the ring is the same, by either name.
LEMMA SameFifo ==
  /\ P!Fifo!Init => Ring!Fifo!Init
  /\ [P!Fifo!PromisedNext]_(P!Fifo!vars) => [Ring!Fifo!PromisedNext]_(Ring!Fifo!vars)
BY DEF P!Fifo!Init, Ring!Fifo!Init, P!Fifo!PromisedNext, Ring!Fifo!PromisedNext,
       P!Fifo!vars, Ring!Fifo!vars, P!Fifo!Accept, Ring!Fifo!Accept,
       P!Fifo!Refuse, Ring!Fifo!Refuse, P!Fifo!Get, Ring!Fifo!Get,
       P!Fifo!Clear, Ring!Fifo!Clear, P!Fifo!NoByte, Ring!Fifo!NoByte,
       P!Unread, Ring!Unread, P!Slot, Ring!Slot, P!availableData, Ring!availableData,
       P!None, Ring!None

\* With its puts and gets guarded as loop() guards them, the ring is the promised
\* FIFO, for every size: it loses nothing.
THEOREM RingIsLossless == Spec => RingIsFifo
<1>1. Spec => P!GuardedSpec
  BY InitOfRing, StepOfRing, LoopInvHolds, PTL DEF Spec, P!GuardedSpec
<1>2. P!GuardedSpec => P!ImplementsPromised
  BY P!GuardedRingIsPromisedFifo, RingConstants
<1>3. P!ImplementsPromised => Ring!ImplementsPromised
  BY SameFifo, PTL DEF P!ImplementsPromised, Ring!ImplementsPromised,
                       P!Fifo!Promised, Ring!Fifo!Promised
<1> QED BY <1>1, <1>2, <1>3, PTL DEF RingIsFifo

-----------------------------------------------------------------------------
(***************************************************************************)
(* The calls of the ring, as what they do to the unread bytes.             *)
(***************************************************************************)

Bytes == 0 .. StreamLength

\* So are the unread bytes.
LEMMA SameUnread ==
  /\ Ring!Unread = P!Unread
  /\ Ring!Unread' = P!Unread'
BY DEF Ring!Unread, P!Unread, Ring!Slot, P!Slot, Ring!availableData, P!availableData,
       Ring!None, P!None

\* The unread bytes are a sequence of bytes of the stream.
LEMMA UnreadIsStream == RingInv => Ring!Unread \in Seq(Bytes)
BY SameRing, SameUnread, P!UnreadType, RingConstants DEF P!UnreadIsSequence, Bytes

\* A put into a ring that is not full appends a byte.
LEMMA RingPutAppends ==
  ASSUME RingInv, NEW d \in Bytes, Ring!put(d), Ring!availableSpace > 0
  PROVE  Ring!Unread' = Append(Ring!Unread, d)
<1>1. P!Inv /\ P!put(d) /\ P!availableData < STREAMING_BUFFER_SIZE
  BY SameRing, RingBounds, RingConstants
<1>2. P!Inv'
  BY RingStep, SameRingNext DEF Bytes
<1> QED BY <1>1, <1>2, P!PutAppends, RingConstants, SameUnread DEF Bytes

\* A get from a ring that is not empty removes and returns the first byte.
LEMMA RingGetRemoves ==
  ASSUME RingInv, Ring!get, Ring!availableData > 0
  PROVE  /\ Ring!Unread # << >> /\ Ring!Unread' = Tail(Ring!Unread)
         /\ ret' = Head(Ring!Unread)
<1>1. P!Inv /\ P!get /\ P!availableData > 0
  BY SameRing
<1>2. P!Inv'
  BY RingStep, SameRingNext
<1> QED BY <1>1, <1>2, P!GetRemoves, RingConstants, SameUnread

\* Without a call of the ring the unread bytes stay.
LEMMA RingIdleUnread == UNCHANGED ring => Ring!Unread' = Ring!Unread
BY DEF ring, Ring!Unread, Ring!Slot, Ring!availableData

-----------------------------------------------------------------------------
(***************************************************************************)
(* Sequences.                                                              *)
(***************************************************************************)

\* Moving the first of b to the end of a.
LEMMA MoveHead ==
  ASSUME NEW S, NEW a \in Seq(S), NEW b \in Seq(S), b # << >>
  PROVE  Append(a, Head(b)) \o Tail(b) = a \o b
<1>1. Head(b) \in S /\ Tail(b) \in Seq(S)
  BY HeadTailProperties
<1>2. Append(a, Head(b)) = a \o << Head(b) >>
  BY <1>1, AppendIsConcat
<1>3. << Head(b) >> \in Seq(S)
  BY <1>1
<1>4. Append(a, Head(b)) \o Tail(b) = a \o (<< Head(b) >> \o Tail(b))
  BY <1>1, <1>2, <1>3, ConcatAssociative
<1>5. << Head(b) >> \o Tail(b) = b
  <2>1. /\ << Head(b) >> \o Tail(b) \in Seq(S)
        /\ Len(<< Head(b) >> \o Tail(b)) = Len(b)
        /\ \A i \in 1 .. Len(b) : (<< Head(b) >> \o Tail(b))[i] = b[i]
    BY <1>1, <1>3
  <2> QED BY <2>1
<1> QED BY <1>4, <1>5

\* The stream up to its n-th byte, and the k bytes after that.
UpTo(n) == [i \in 1 .. n |-> i]
After(n, k) == [i \in 1 .. k |-> n + i]

\* The first n numbers followed by the next k ones are the first n + k.
LEMMA UpToConcat ==
  ASSUME NEW n \in Nat, NEW k \in Nat
  PROVE  UpTo(n) \o After(n, k) = UpTo(n + k)
<1>1. UpTo(n) \in Seq(Nat) /\ Len(UpTo(n)) = n
  BY DEF UpTo
<1>2. After(n, k) \in Seq(Nat) /\ Len(After(n, k)) = k
  BY DEF After
<1>3. UpTo(n + k) \in Seq(Nat) /\ Len(UpTo(n + k)) = n + k
  BY DEF UpTo
<1>4. UpTo(n) \o After(n, k) \in Seq(Nat) /\ Len(UpTo(n) \o After(n, k)) = n + k
  BY <1>1, <1>2, ConcatProperties
<1>5. \A i \in 1 .. n + k :
        (UpTo(n) \o After(n, k))[i] = IF i <= n THEN UpTo(n)[i] ELSE After(n, k)[i - n]
  <2>1. \A i \in 1 .. Len(UpTo(n)) + Len(After(n, k)) :
          (UpTo(n) \o After(n, k))[i]
            = IF i <= Len(UpTo(n)) THEN UpTo(n)[i] ELSE After(n, k)[i - Len(UpTo(n))]
    BY <1>1, <1>2, ConcatProperties
  <2> QED BY <2>1, <1>1, <1>2
<1>6. \A i \in 1 .. n + k : (UpTo(n) \o After(n, k))[i] = UpTo(n + k)[i]
  BY <1>5 DEF UpTo, After
<1> QED BY <1>3, <1>4, <1>6, SeqEqual

-----------------------------------------------------------------------------
(***************************************************************************)
(* The stream in order.  StreamInOrder concatenates four places; which of  *)
(* them can hold bytes depends on the location.                            *)
(***************************************************************************)

\* What StreamInOrder says at each location.
StreamShape ==
  /\ pc = "playGet" =>
       (StreamInOrder <=> (heard \o mp3Buffer) \o Ring!Unread = UpTo(received))
  /\ pc \in {"fillPut", "steadyPut"} =>
       (StreamInOrder <=> (heard \o Ring!Unread) \o mp3Buffer = UpTo(received))
  /\ mp3Buffer = << >> =>
       (StreamInOrder <=> heard \o Ring!Unread = UpTo(received))

\* The places a byte can be at are sequences of bytes,
LEMMA PlacesTyped ==
  LoopInv => /\ heard \in Seq(Bytes) /\ mp3Buffer \in Seq(Bytes)
             /\ Ring!Unread \in Seq(Bytes)
             /\ received \in Nat
<1> SUFFICES ASSUME LoopInv
             PROVE  /\ heard \in Seq(Bytes) /\ mp3Buffer \in Seq(Bytes)
                    /\ Ring!Unread \in Seq(Bytes)
                    /\ received \in Nat
  OBVIOUS
<1>1. NumbersOK
  BY TypeParts DEF LoopInv
<1>2. heard \in Seq(Bytes) /\ mp3Buffer \in Seq(Bytes) /\ received \in Nat
  BY <1>1, SizesAssumption DEF NumbersOK, Bytes
<1>3. Ring!Unread \in Seq(Bytes)
  BY UnreadIsStream DEF LoopInv
<1> QED BY <1>2, <1>3

\* and they are in the order the bytes came in,
LEMMA ShapeOfStream == LoopInv => StreamShape
<1> SUFFICES ASSUME LoopInv PROVE StreamShape
  OBVIOUS
<1>1. /\ heard \in Seq(Bytes) /\ mp3Buffer \in Seq(Bytes) /\ Ring!Unread \in Seq(Bytes)
      /\ heard \o mp3Buffer \in Seq(Bytes) /\ heard \o Ring!Unread \in Seq(Bytes)
      /\ (heard \o mp3Buffer) \o Ring!Unread \in Seq(Bytes)
  BY PlacesTyped, ConcatProperties
<1>2. StreamInOrder <=>
        ((heard \o InTransit({"playGet"})) \o Ring!Unread)
          \o InTransit({"fillPut", "steadyPut"}) = UpTo(received)
  BY DEF StreamInOrder, UpTo
<1>3. heard \o << >> = heard
  BY <1>1, ConcatEmptySeq
<1>4. (heard \o Ring!Unread) \o << >> = heard \o Ring!Unread
  BY <1>1, ConcatEmptySeq
<1>5. ((heard \o mp3Buffer) \o Ring!Unread) \o << >> = (heard \o mp3Buffer) \o Ring!Unread
  BY <1>1, ConcatEmptySeq
<1>6. CASE pc = "playGet"
  <2>1. InTransit({"playGet"}) = mp3Buffer /\ InTransit({"fillPut", "steadyPut"}) = << >>
    BY <1>6 DEF InTransit
  <2>2. StreamInOrder <=> (heard \o mp3Buffer) \o Ring!Unread = UpTo(received)
    BY <1>2, <1>5, <2>1
  <2> QED BY <1>3, <1>6, <2>2 DEF StreamShape
<1>7. CASE pc \in {"fillPut", "steadyPut"}
  <2>1. InTransit({"playGet"}) = << >> /\ InTransit({"fillPut", "steadyPut"}) = mp3Buffer
    BY <1>7 DEF InTransit
  <2>2. StreamInOrder <=> (heard \o Ring!Unread) \o mp3Buffer = UpTo(received)
    BY <1>2, <1>3, <2>1
  <2> QED BY <1>4, <1>7, <2>2 DEF StreamShape
<1>8. CASE pc \notin {"playGet", "fillPut", "steadyPut"}
  <2>1. InTransit({"playGet"}) = << >> /\ InTransit({"fillPut", "steadyPut"}) = << >>
    BY <1>8 DEF InTransit
  <2>2. StreamInOrder <=> heard \o Ring!Unread = UpTo(received)
    BY <1>2, <1>3, <1>4, <2>1
  <2> QED BY <1>8, <2>2 DEF StreamShape
<1> QED BY <1>6, <1>7, <1>8

\* also after a step.
LEMMA ShapeNext == LoopInv' => StreamShape'
BY ShapeOfStream, PTL

\* Their types after a step.
LEMMA PlacesTypedNext ==
  LoopInv' => mp3Buffer' \in Seq(Bytes) /\ Ring!Unread' \in Seq(Bytes)
<1>1. LoopInv' => (mp3Buffer \in Seq(Bytes) /\ Ring!Unread \in Seq(Bytes))'
  BY PlacesTyped, PTL
<1> QED BY <1>1 DEF Bytes

\* A put moves a byte from the buffer to the ring,
LEMMA PutInOrder ==
  ASSUME LoopInv, LoopInv', StreamInOrder, FillPut \/ SteadyPut
  PROVE  StreamInOrder'
<1>1. /\ pc \in {"fillPut", "steadyPut"} /\ pc' = pc
      /\ mp3Buffer # << >> /\ mp3Buffer' = Tail(mp3Buffer)
      /\ heard' = heard /\ received' = received
  BY DEF FillPut, SteadyPut, PutNext, codec, network
<1>2. Ring!put(Head(mp3Buffer))
  BY DEF FillPut, SteadyPut, PutNext
<1>3. Head(mp3Buffer) \in Bytes /\ Len(mp3Buffer) > 0
  BY <1>1, PlacesTyped, NonEmptyHead
<1>4. Ring!availableSpace > 0
  <2>1. Len(mp3Buffer) <= Ring!availableSpace
    BY <1>1 DEF LoopInv, RingNeverOverruns
  <2> QED BY <1>3, <2>1, PlacesTyped, RingBounds, SizesAssumption, LenProperties DEF LoopInv
<1>5. Ring!Unread' = Append(Ring!Unread, Head(mp3Buffer))
  BY <1>2, <1>3, <1>4, RingPutAppends DEF LoopInv
<1>6. (heard \o Ring!Unread') \o mp3Buffer' = (heard \o Ring!Unread) \o mp3Buffer
  <2>1. heard \in Seq(Bytes) /\ Ring!Unread \in Seq(Bytes) /\ mp3Buffer \in Seq(Bytes)
    BY PlacesTyped
  <2>2. Ring!Unread' \in Seq(Bytes) /\ mp3Buffer' \in Seq(Bytes)
    BY PlacesTypedNext
  <2>3. (heard \o Ring!Unread') \o mp3Buffer' = heard \o (Ring!Unread' \o mp3Buffer')
    BY <2>1, <2>2
  <2>4. (heard \o Ring!Unread) \o mp3Buffer = heard \o (Ring!Unread \o mp3Buffer)
    BY <2>1
  <2>5. Ring!Unread' \o mp3Buffer' = Ring!Unread \o mp3Buffer
    BY <1>1, <1>5, <2>1, MoveHead
  <2> QED BY <2>3, <2>4, <2>5
<1>7. (heard \o Ring!Unread) \o mp3Buffer = UpTo(received)
  BY <1>1, ShapeOfStream DEF StreamShape
<1> QED BY <1>1, <1>6, <1>7, ShapeNext DEF StreamShape

\* a get moves it on to the buffer of the codec,
LEMMA GetInOrder ==
  ASSUME LoopInv, LoopInv', StreamInOrder, PlayGet
  PROVE  StreamInOrder'
<1>1. /\ pc = "playGet" /\ pc' = pc /\ nRead > 0
      /\ mp3Buffer' = Append(mp3Buffer, ret')
      /\ heard' = heard /\ received' = received
  BY DEF PlayGet, codec, network
<1>2. Ring!get
  BY DEF PlayGet
<1>3. Ring!availableData > 0
  <2>1. nRead <= Ring!availableData /\ nRead \in Nat
    BY <1>1, TypeParts, SizesAssumption DEF LoopInv, RingNeverUnderruns, NumbersOK
  <2> QED BY <1>1, <2>1, RingBounds, SizesAssumption DEF LoopInv
<1>4. /\ Ring!Unread # << >> /\ Ring!Unread' = Tail(Ring!Unread)
      /\ ret' = Head(Ring!Unread)
  BY <1>2, <1>3, RingGetRemoves DEF LoopInv
<1>5. (heard \o mp3Buffer') \o Ring!Unread' = (heard \o mp3Buffer) \o Ring!Unread
  <2>1. heard \in Seq(Bytes) /\ Ring!Unread \in Seq(Bytes) /\ mp3Buffer \in Seq(Bytes)
    BY PlacesTyped
  <2>2. mp3Buffer' \in Seq(Bytes) /\ Ring!Unread' \in Seq(Bytes)
    BY PlacesTypedNext
  <2>3. (heard \o mp3Buffer') \o Ring!Unread' = heard \o (mp3Buffer' \o Ring!Unread')
    BY <2>1, <2>2
  <2>4. (heard \o mp3Buffer) \o Ring!Unread = heard \o (mp3Buffer \o Ring!Unread)
    BY <2>1
  <2>5. mp3Buffer' \o Ring!Unread' = mp3Buffer \o Ring!Unread
    BY <1>1, <1>4, <2>1, MoveHead
  <2> QED BY <2>3, <2>4, <2>5
<1>6. (heard \o mp3Buffer) \o Ring!Unread = UpTo(received)
  BY <1>1, ShapeOfStream DEF StreamShape
<1> QED BY <1>1, <1>5, <1>6, ShapeNext DEF StreamShape

\* from which it is played,
LEMMA PlayDataInOrder ==
  ASSUME LoopInv, LoopInv', StreamInOrder, PlayData
  PROVE  StreamInOrder'
<1>1. /\ pc = "playGet" /\ mp3Buffer' = << >> /\ heard' = heard \o mp3Buffer
      /\ received' = received /\ UNCHANGED ring
  BY DEF PlayData, network
<1>2. Ring!Unread' = Ring!Unread
  BY <1>1, RingIdleUnread
<1>3. (heard \o mp3Buffer) \o Ring!Unread = UpTo(received)
  BY <1>1, ShapeOfStream DEF StreamShape
<1>4. heard' \o Ring!Unread' = UpTo(received')
  BY <1>1, <1>2, <1>3
<1> QED BY <1>1, <1>4, ShapeNext DEF StreamShape

\* and a read takes new ones from the client.
LEMMA ReadInOrder ==
  ASSUME LoopInv, LoopInv', StreamInOrder, FillRead \/ SteadyRead
  PROVE  StreamInOrder'
<1>1. /\ pc \in {"fillRead", "steadyRead"} /\ pc' \in {"fillPut", "steadyPut"}
      /\ heard' = heard /\ UNCHANGED ring
  BY DEF FillRead, SteadyRead, codec
<1>2. PICK n \in 0 .. DATABUFFERLEN : Read(n)
  BY DEF FillRead, SteadyRead
<1>3. mp3Buffer' = After(received, n) /\ received' = received + n
  BY <1>2 DEF Read, After
<1>4. mp3Buffer = << >>
  BY <1>1 DEF LoopInv, BuffersIdle
<1>5. heard \o Ring!Unread = UpTo(received)
  BY <1>4, ShapeOfStream DEF StreamShape
<1>6. Ring!Unread' = Ring!Unread
  BY <1>1, RingIdleUnread
<1>7. UpTo(received) \o After(received, n) = UpTo(received + n)
  <2>1. n \in Nat /\ received \in Nat
    BY PlacesTyped, SizesAssumption
  <2> QED BY <2>1, UpToConcat
<1>8. (heard' \o Ring!Unread') \o mp3Buffer' = UpTo(received')
  BY <1>1, <1>3, <1>5, <1>6, <1>7
<1> QED BY <1>1, <1>8, ShapeNext DEF StreamShape

\* The other statements find and leave mp3Buffer empty.
LEMMA LookInOrder ==
  ASSUME LoopInv, LoopInv', StreamInOrder, mp3Buffer = << >>,
         UNCHANGED <<mp3Buffer, heard, received, ring>>
  PROVE  StreamInOrder'
<1>1. heard \o Ring!Unread = UpTo(received)
  BY ShapeOfStream DEF StreamShape
<1>2. heard' \o Ring!Unread' = UpTo(received')
  BY <1>1, RingIdleUnread
<1> QED BY <1>2, ShapeNext DEF StreamShape

\* Every step keeps the bytes in order,
LEMMA StepInOrder == LoopInv /\ LoopInv' /\ StreamInOrder /\ [Next]_vars => StreamInOrder'
<1> SUFFICES ASSUME LoopInv, LoopInv', StreamInOrder, [Next]_vars PROVE StreamInOrder'
  OBVIOUS
<1>1. CASE Deliver \/ Disconnect \/ Decode \/ UNCHANGED vars
  <2>1. UNCHANGED <<pc, mp3Buffer, heard, received, ring>>
    BY <1>1 DEF Deliver, Disconnect, Stream!Arrive, Stream!Drop, Decode, vars, loopVars,
                network, codec
  <2>2. Ring!Unread' = Ring!Unread
    BY <2>1, RingIdleUnread
  <2> QED BY <2>1, <2>2 DEF StreamInOrder, InTransit
<1>2. CASE Fill \/ FillDone \/ Steady \/ SteadyDone \/ ComputeSkip \/ Play
  <2>1. UNCHANGED <<mp3Buffer, heard, received, ring>>
    BY <1>2 DEF Fill, FillDone, Steady, SteadyDone, ComputeSkip, Play, network, codec
  <2>2. mp3Buffer = << >>
    BY <1>2 DEF LoopInv, BuffersIdle, Fill, FillDone, Steady, SteadyDone, ComputeSkip, Play
  <2> QED BY <2>1, <2>2, LookInOrder
<1> QED BY <1>1, <1>2, PutInOrder, GetInOrder, PlayDataInOrder, ReadInOrder DEF Next, loop

\* as they are initially.
LEMMA InitInOrder == Init => StreamInOrder
<1> SUFFICES ASSUME Init PROVE StreamInOrder
  OBVIOUS
<1>1. mp3Buffer = << >> /\ heard = << >> /\ received = 0
  BY DEF Init
<1>2. Ring!Unread = << >>
  <2>1. Ring!availableData = 0
    BY DEF Init, Ring!availableData
  <2> QED BY <2>1 DEF Ring!Unread
<1>3. heard \o Ring!Unread = UpTo(received)
  BY <1>1, <1>2 DEF UpTo
<1> QED BY <1>1, <1>3, InitLoopInv, ShapeOfStream DEF StreamShape

\* What the codec has been given, what is on its way to it, what is in the ring
\* and what is on its way there are, in this order, the stream as it was read:
\* no byte is lost, doubled or out of place, for any ring, transfer and stream.
THEOREM StreamStaysInOrder == Spec => []StreamInOrder
BY LoopInvHolds, InitInOrder, StepInOrder, PTL DEF Spec
=============================================================================
