-------------------------- MODULE FrontPanelProofs --------------------------
(***************************************************************************)
(* The front panel controller and its master for every range of the knob,  *)
(* every set of readings, instructions and error codes, every EEPROM and   *)
(* any number of power failures.  Types, the registers and that resets are *)
(* asked for hold whatever instructionTypes[6] reads; that the two sides   *)
(* stay in step is proved for the builds where it reads neither READ nor   *)
(* WRITE, and for masters that do not use it (ResetIsOneByte); run         *)
(* FrontPanelResetType shows that it fails for the others.                 *)
(*                                                                         *)
(* The invariants follow the control flow: each says what a variable is    *)
(* worth from one statement of setup() or loop() to another.  The parts    *)
(* about the panel (KnobInv, RomInv, BitsInv, PulseInv, DialInv) need not  *)
(* know the bytes on the wire, and the one about the wire (FrameInv) not   *)
(* the panel; OutdatedInv and AskedInv relate the two.                     *)
(***************************************************************************)
EXTENDS FrontPanel, WellFoundedInduction, TLAPS

-----------------------------------------------------------------------------
(***************************************************************************)
(* Arithmetic.                                                             *)
(***************************************************************************)

\* A set of readings has a greatest one: what is furthest below 255 is least.
LEMMA MaxOfBytes ==
  ASSUME NEW S, S \subseteq 0 .. 255, S # {}
  PROVE  Max(S) \in S /\ \A y \in S : Max(S) >= y
<1> DEFINE R == OpToRel(<, Nat)
<1> DEFINE T == {255 - x : x \in S}
<1>1. T \subseteq Nat /\ T # {}
  <2>1. PICK s0 : s0 \in S
    OBVIOUS
  <2>2. 255 - s0 \in T
    BY <2>1
  <2>3. ASSUME NEW x \in S PROVE 255 - x \in Nat
    OBVIOUS
  <2> QED BY <2>2, <2>3
<1>2. IsWellFoundedOn(R, Nat)
  BY NatLessThanWellFounded
<1>3. \A x, y \in Nat : x < y => <<x, y>> \in R
  BY SMT DEF OpToRel
<1> HIDE DEF R, T
<1>4. PICK m \in T : \A y \in T : ~(<<y, m>> \in R)
  BY <1>1, <1>2, WFMin
<1>5. \A y \in T : m <= y
  <2> SUFFICES ASSUME NEW y \in T PROVE m <= y
    OBVIOUS
  <2>1. m \in Nat /\ y \in Nat /\ ~(y < m)
    BY <1>1, <1>3, <1>4
  <2> QED BY <2>1
<1>6. PICK x \in S : m = 255 - x
  BY DEF T
<1>7. ASSUME NEW y \in S PROVE x >= y
  <2>1. 255 - y \in T
    BY DEF T
  <2>2. 255 - x <= 255 - y /\ x \in Int /\ y \in Int
    BY <1>5, <1>6, <2>1
  <2> QED BY <2>2
<1> QED BY <1>7 DEF Max

\* map() gives an integer for every reading, although C divides towards 0.
LEMMA StationType ==
  ASSUME NEW x \in Int
  PROVE  mapStation(x) \in Int
<1> DEFINE n == (x - MIN_CAP_VALUE) * NUMBER_STATIONS
<1> DEFINE d == MAX_CAP_VALUE - MIN_CAP_VALUE
<1>1. n \in Int /\ d \in Nat /\ d > 0
  <2>1. x - MIN_CAP_VALUE \in Int /\ NUMBER_STATIONS \in Int
    BY StationAssumption
  <2>2. d \in Nat /\ d > 0
    BY StationAssumption
  <2> QED BY <2>1, <2>2
<1> HIDE DEF n, d
<1>2. n \div d \in Int /\ -((-n) \div d) \in Int
  BY <1>1
<1>3. mapStation(x) = IF n >= 0 THEN n \div d ELSE -((-n) \div d)
  BY DEF mapStation, n, d
<1> QED BY <1>2, <1>3

\* map() puts every reading within the range of the capacitor on a station of the dial,
\* its ends included.
LEMMA StationOnDial ==
  ASSUME NEW x \in MIN_CAP_VALUE .. MAX_CAP_VALUE
  PROVE  mapStation(x) \in 0 .. NUMBER_STATIONS
<1> DEFINE m == x - MIN_CAP_VALUE
<1> DEFINE d == MAX_CAP_VALUE - MIN_CAP_VALUE
<1> DEFINE k == NUMBER_STATIONS
<1>1. m \in Nat /\ d \in Nat /\ d > 0 /\ k \in Nat /\ m <= d
  BY StationAssumption DEF StationAssumption
<1>2. mapStation(x) = IF m * k >= 0 THEN (m * k) \div d ELSE -((-(m * k)) \div d)
  BY DEF mapStation
<1> HIDE DEF m, d, k
<1>3. m * k \in Nat /\ m * k <= d * k
  BY <1>1
<1>4. (m * k) \div d \in 0 .. k
  <2> DEFINE n == m * k
  <2> DEFINE q == n \div d
  <2>1. n \in Nat /\ n <= d * k
    BY <1>3
  <2> HIDE DEF n
  <2>2. q \in Nat /\ d * q <= n
    BY <1>1, <2>1
  <2> HIDE DEF q
  <2>3. d * q <= d * k
    BY <1>1, <2>1, <2>2
  <2>4. q <= k
    BY <1>1, <2>2, <2>3
  <2> QED BY <1>1, <2>2, <2>4 DEF q, n
<1> QED BY <1>1, <1>2, <1>3, <1>4 DEF k

\* bitSet gives a byte, sets its bit and leaves the other alone.
LEMMA BitsType ==
  ASSUME NEW b \in byte, NEW bit \in {CHANGED_VOL_BIT, CHANGED_STATION_BIT}
  PROVE  /\ bitSet(b, bit) \in byte
         /\ (bitSet(b, bit) \div 2^bit) % 2 = 1
         /\ \A other \in {CHANGED_VOL_BIT, CHANGED_STATION_BIT} \ {bit} :
              (bitSet(b, bit) \div 2^other) % 2 = (b \div 2^other) % 2
<1>1. 2^0 = 1 /\ 2^1 = 2
  OBVIOUS
<1>2. CASE bit = CHANGED_VOL_BIT
  <2>1. bitSet(b, bit) = IF b % 2 = 1 THEN b ELSE b + 1
    BY <1>1, <1>2 DEF bitSet, byte, CHANGED_VOL_BIT
  <2>2. /\ bitSet(b, bit) \in byte /\ bitSet(b, bit) % 2 = 1
        /\ (bitSet(b, bit) \div 2) % 2 = (b \div 2) % 2
    BY <2>1 DEF byte
  <2>3. bitSet(b, bit) \div 1 = bitSet(b, bit)
    BY <2>2 DEF byte
  <2> QED BY <1>1, <1>2, <2>2, <2>3 DEF CHANGED_VOL_BIT, CHANGED_STATION_BIT
<1>3. CASE bit = CHANGED_STATION_BIT
  <2>1. bitSet(b, bit) = IF (b \div 2) % 2 = 1 THEN b ELSE b + 2
    BY <1>1, <1>3 DEF bitSet, byte, CHANGED_STATION_BIT
  <2>2. /\ bitSet(b, bit) \in byte /\ (bitSet(b, bit) \div 2) % 2 = 1
        /\ bitSet(b, bit) % 2 = b % 2
    BY <2>1 DEF byte
  <2>3. bitSet(b, bit) \div 1 = bitSet(b, bit) /\ b \div 1 = b
    BY <2>2 DEF byte
  <2> QED BY <1>1, <1>3, <2>2, <2>3 DEF CHANGED_VOL_BIT, CHANGED_STATION_BIT
<1> QED BY <1>2, <1>3


-----------------------------------------------------------------------------
(***************************************************************************)
(* Types, one part for what each statement may touch.                      *)
(***************************************************************************)

\* Control is at a statement of setup() or loop().
PcType == pc \in InSetup \cup InLoop

\* The flags.
FlagTypes ==
  /\ processInstruction \in BOOLEAN /\ SPIF \in BOOLEAN
  /\ changeOccured \in BOOLEAN /\ asked \in BOOLEAN

\* The interrupt routine's state.  It waits for data only of the instructions that
\* may have the type WRITE: no register the master reads is ever written by it.
SpiTypes ==
  /\ instruction \in byte /\ SPDR \in byte
  /\ spiState \in {SPI_STATE_INITIAL, SPI_STATE_RECEIVE_DATA, SPI_STATE_TRANSMIT_DATA}
  /\ spiState # SPI_STATE_INITIAL => instruction < NUMBER_INSTRUCTIONS
  /\ spiState = SPI_STATE_RECEIVE_DATA
       => instruction \in {INST_STATUS_ERROR, INST_RESET_CHANGES}

\* The registers.
BufferType == transferBuffer \in [0 .. NUMBER_INSTRUCTIONS - 1 -> byte]

\* The knob.
KnobTypes == encoderPos \in byte /\ oldVolume \in byte

\* The tuner.
StationTypes ==
  /\ station \in Int /\ oldStation \in Int
  /\ capSamples \in [0 .. MAX_SAMPLES - 1 -> byte]
  /\ sampleIndex \in 0 .. MAX_SAMPLES - 1

\* The error code and what shows it.
DisplayTypes ==
  /\ errorCode \in byte
  /\ leds \in [red : 0 .. 2, green : 0 .. 2]

\* The EEPROM; no cell but one of the two is being written.
RomTypes ==
  /\ eeprom \in [id : byte, pos : byte]
  /\ writing \in [addr : {"none", "id", "pos"}, val : byte]
  /\ writing.addr = "none" => writing = NoWrite

\* The master.
MasterTypes == phase \in {"begin", "idle", "reply", "data"} /\ inst \in byte

\* All of them.
Types == /\ PcType /\ FlagTypes /\ SpiTypes /\ BufferType /\ KnobTypes
         /\ StationTypes /\ DisplayTypes /\ RomTypes /\ MasterTypes

\* The parts make up the type invariant of the specification.
LEMMA TypesImplyTypeOK == Types => TypeOK
  BY DEF Types, PcType, FlagTypes, SpiTypes, BufferType, KnobTypes, StationTypes,
     DisplayTypes,
         RomTypes, MasterTypes, TypeOK

\* RAM as the C run-time leaves it has its types.
LEMMA InitTypes == MasterInit => Types
<1> SUFFICES ASSUME MasterInit PROVE Types
  OBVIOUS
<1>1. PcType /\ MasterTypes
  BY DEF PcType, InSetup, MasterTypes, byte, INST_NULL, MasterInit, FPInit, Init
<1>2. FlagTypes
  BY DEF FlagTypes, MasterInit, FPInit, Init
<1>3. SpiTypes
  <2>1. instruction = 0 /\ SPDR = 0 /\ spiState = 0
    BY DEF MasterInit, FPInit, Init, INST_NULL, SPI_STATE_INITIAL
  <2> QED BY <2>1 DEF SpiTypes, byte, SPI_STATE_INITIAL, SPI_STATE_RECEIVE_DATA
<1>4. BufferType
  <2>1. transferBuffer = NoData
    BY DEF MasterInit, FPInit, Init
  <2> QED BY <2>1 DEF BufferType, NoData, byte
<1>5. KnobTypes
  <2>1. encoderPos = MIN_POS /\ oldVolume = 255
    BY DEF MasterInit, FPInit, Init
  <2> QED BY <2>1, EncoderAssumption DEF KnobTypes, byte, EncoderAssumption
<1>6. StationTypes
  <2>1. station = 0 /\ oldStation = -1 /\ capSamples = NoSamples /\ sampleIndex = 0
    BY DEF MasterInit, FPInit, Init
  <2> QED BY <2>1, StationAssumption DEF StationTypes, NoSamples, byte,
     StationAssumption
<1>7. DisplayTypes
  <2>1. errorCode = 0 /\ leds = [red |-> 0, green |-> 0]
    BY DEF MasterInit, FPInit, Init, LedsOff
  <2> QED BY <2>1 DEF DisplayTypes, byte
<1>8. RomTypes
  <2>1. eeprom \in [id : StoredIds, pos : StoredPositions]
        /\ writing = [addr |-> "none", val |-> 0]
    BY DEF MasterInit, FPInit, Init, NoWrite
  <2>2. eeprom \in [id : byte, pos : byte]
    BY <2>1, PowerAssumption DEF byte, PowerAssumption
  <2> QED BY <2>1, <2>2 DEF RomTypes, NoWrite, byte
<1> QED BY <1>1, <1>2, <1>3, <1>4, <1>5, <1>6, <1>7, <1>8 DEF Types

\* The master transfers bytes.
LEMMA MasterTypesStep ==
  ASSUME Types, Master
  PROVE  Types'
<1> USE DEF Types
<1>1. ASSUME NEW b \in byte, NEW first, Transfer(b, first), phase' \in {"begin",
"idle", "reply", "data"},
             inst' \in byte
      PROVE  Types'
  <2>1. PcType' /\ MasterTypes'
    BY <1>1 DEF Transfer, PcType, MasterTypes
  <2>2. FlagTypes'
    BY <1>1 DEF Transfer, FlagTypes, background, controls
  <2>3. SpiTypes'
    <3>1. SPDR' = b /\ UNCHANGED <<instruction, spiState>>
      BY <1>1 DEF Transfer
    <3> QED BY <3>1, <1>1 DEF SpiTypes
  <2>4. BufferType' /\ KnobTypes' /\ StationTypes' /\ DisplayTypes' /\ RomTypes'
    BY <1>1 DEF Transfer, BufferType, KnobTypes, StationTypes, DisplayTypes, RomTypes,
                background, controls, display, nvram
  <2> QED BY <2>1, <2>2, <2>3, <2>4
<1>2. CASE FP_begin
  <2>1. INST_NULL \in byte
    BY DEF INST_NULL, byte
  <2> QED BY <1>1, <1>2, <2>1 DEF FP_begin
<1>3. CASE GetReply
  <2>1. 0 \in byte
    BY DEF byte
  <2> QED BY <1>1, <1>3, <2>1 DEF GetReply, MasterTypes
<1>4. ASSUME NEW i \in Instructions, SendInstruction(i)
      PROVE  Types'
  <2>1. i \in byte
    BY MasterAssumption DEF MasterAssumption
  <2>2. phase' \in {"begin", "idle", "reply", "data"}
    BY <1>4, Zenon DEF SendInstruction
  <2> QED BY <1>1, <1>4, <2>1, <2>2 DEF SendInstruction
<1>5. ASSUME NEW c \in ErrorCodes, SendErrorCode(c)
      PROVE  Types'
  <2>1. c \in byte
    BY MasterAssumption DEF MasterAssumption
  <2> QED BY <1>1, <1>5, <2>1 DEF SendErrorCode, MasterTypes
<1>6. CASE MasterRestart
  <2>1. MasterTypes'
    BY <1>6 DEF MasterRestart, MasterTypes
  <2> QED BY <1>6, <2>1 DEF MasterRestart, PcType, FlagTypes, SpiTypes, BufferType,
     KnobTypes,
               StationTypes, DisplayTypes, RomTypes, fpVars, allButPc, spi, port,
               background, controls, display, nvram
<1> QED BY <1>2, <1>3, <1>4, <1>5, <1>6 DEF Master

\* The interrupt routine indexes the registers only by an instruction it has checked.
LEMMA ByteTypes ==
  ASSUME Types, SPI_STC_vect
  PROVE  SpiTypes' /\ BufferType'
<1>0. transferBuffer \in [0 .. 6 -> byte] /\ SPDR \in byte /\ instruction \in byte
  BY DEF Types, SpiTypes, BufferType, NUMBER_INSTRUCTIONS
<1>1. CASE ReceiveInstruction
  <2>1. instruction' = SPDR /\ UNCHANGED transferBuffer /\ spiState = 0
    BY <1>1 DEF ReceiveInstruction, SPI_STATE_INITIAL
  <2>2. CASE SPDR >= 7
    <3>1. UNCHANGED <<spiState, SPDR>>
      BY <1>1, <2>2 DEF ReceiveInstruction, NUMBER_INSTRUCTIONS
    <3> QED BY <1>0, <2>1, <3>1 DEF SpiTypes, BufferType, NUMBER_INSTRUCTIONS,
            SPI_STATE_INITIAL, SPI_STATE_RECEIVE_DATA
  <2>3. CASE SPDR < 7
    <3>1. ~(SPDR >= NUMBER_INSTRUCTIONS)
      BY <1>0, <2>3 DEF byte, NUMBER_INSTRUCTIONS
    <3>2. \/ spiState' = 2 /\ SPDR' = transferBuffer[SPDR]
          \/ instructionTypes(SPDR) = WRITE /\ spiState' = 1 /\ SPDR' = SPDR
          \/ UNCHANGED <<spiState, SPDR>>
      BY <1>1, <3>1, Zenon DEF ReceiveInstruction, SPI_STATE_TRANSMIT_DATA,
         SPI_STATE_RECEIVE_DATA
    <3>3. transferBuffer[SPDR] \in byte
      BY <1>0, <2>3 DEF byte
    <3>4. instructionTypes(SPDR) = WRITE => SPDR \in {4, 6}
      <4>1. SPDR \in {0, 1, 2, 3, 4, 5, 6}
        BY <1>0, <2>3 DEF byte
      <4> QED BY <4>1 DEF instructionTypes, WRITE, READ, NO_TRANSFER, INST_NULL,
         INST_GET_STATION,
            INST_GET_VOL, INST_STATUS_OK, INST_STATUS_ERROR, INST_GET_CHANGES,
            INST_RESET_CHANGES
    <3> QED BY <1>0, <2>1, <2>3, <3>2, <3>3, <3>4 DEF SpiTypes, BufferType,
       NUMBER_INSTRUCTIONS,
            SPI_STATE_INITIAL, SPI_STATE_RECEIVE_DATA, SPI_STATE_TRANSMIT_DATA,
            INST_STATUS_ERROR, INST_RESET_CHANGES
  <2> QED BY <1>0, <2>2, <2>3 DEF byte
<1>2. CASE TransmitData
  <2>1. /\ spiState = SPI_STATE_TRANSMIT_DATA /\ spiState' = SPI_STATE_INITIAL
        /\ SPDR' = transferBuffer[instruction] /\ UNCHANGED <<instruction, transferBuffer>>
    BY <1>2 DEF TransmitData
  <2>2. SPDR' \in byte
    BY <1>0, <2>1 DEF Types, SpiTypes, byte, NUMBER_INSTRUCTIONS,
       SPI_STATE_TRANSMIT_DATA, SPI_STATE_INITIAL
  <2> QED BY <1>0, <2>1, <2>2 DEF SpiTypes, BufferType, NUMBER_INSTRUCTIONS,
     SPI_STATE_INITIAL, SPI_STATE_RECEIVE_DATA
<1>3. CASE ReceiveData
  <2>1. /\ transferBuffer' = [transferBuffer EXCEPT ![instruction] = SPDR]
        /\ spiState' = SPI_STATE_INITIAL /\ UNCHANGED <<instruction, SPDR>>
    BY <1>3 DEF ReceiveData
  <2>2. BufferType'
    <3>1. transferBuffer' \in [0 .. 6 -> byte]
      BY <1>0, <2>1
    <3> QED BY <3>1 DEF BufferType, NUMBER_INSTRUCTIONS
  <2> QED BY <1>0, <2>1, <2>2 DEF SpiTypes, SPI_STATE_INITIAL, SPI_STATE_RECEIVE_DATA
<1> QED BY <1>1, <1>2, <1>3 DEF SPI_STC_vect

\* A byte is handled.
LEMMA ByteStepTypes ==
  ASSUME Types, HandleByte
  PROVE  Types'
<1>1. SPI_STC_vect /\ UNCHANGED master
  BY DEF HandleByte
<1>2. SpiTypes' /\ BufferType'
  BY <1>1, ByteTypes
<1>3. FlagTypes'
  <2>1. processInstruction' \in BOOLEAN
    BY <1>1 DEF Types, FlagTypes, SPI_STC_vect, ReceiveInstruction, TransmitData,
       ReceiveData
  <2>2. asked' \in BOOLEAN
    BY <1>1 DEF Types, FlagTypes, SPI_STC_vect
  <2> QED BY <1>1, <2>1, <2>2 DEF Types, FlagTypes, SPI_STC_vect, background, controls
<1>4. PcType' /\ KnobTypes' /\ StationTypes' /\ DisplayTypes' /\ RomTypes' /\ MasterTypes'
  BY <1>1 DEF Types, SPI_STC_vect, PcType, KnobTypes, StationTypes, DisplayTypes,
     RomTypes,
      MasterTypes, background, controls, display, nvram, master
<1> QED BY <1>2, <1>3, <1>4 DEF Types

\* A power failure leaves in a cell its old value, its new one, or an erased one.
LEMMA RestartTypes ==
  ASSUME Types, Restart
  PROVE  Types'
<1>1. MasterTypes'
  BY DEF Restart, master, Types, MasterTypes
<1>2. CASE SetupState
  <2>1. PcType'
    BY <1>2 DEF SetupState, Goto, PcType, InSetup
  <2>2. SpiTypes'
    <3>1. spiState' = SPI_STATE_INITIAL /\ UNCHANGED <<instruction, SPDR>>
      BY <1>2 DEF SetupState, port
    <3> QED BY <3>1 DEF Types, SpiTypes, SPI_STATE_INITIAL, SPI_STATE_RECEIVE_DATA
  <2> QED BY <1>1, <1>2, <2>1, <2>2 DEF SetupState, Types, FlagTypes, BufferType,
     KnobTypes,
        StationTypes, DisplayTypes, RomTypes, port, background, controls, display, nvram
<1>3. CASE PowerCycle
  <2>1. PcType'
    BY <1>3 DEF PcType, InSetup, PowerCycle
  <2>2. FlagTypes'
    BY <1>3 DEF FlagTypes, PowerCycle
  <2>3. SpiTypes'
    <3>1. instruction' = 0 /\ SPDR' = 0 /\ spiState' = 0
      BY <1>3 DEF PowerCycle, INST_NULL, SPI_STATE_INITIAL
    <3> QED BY <3>1 DEF SpiTypes, byte, SPI_STATE_INITIAL, SPI_STATE_RECEIVE_DATA
  <2>4. BufferType'
    <3>1. transferBuffer' = NoData
      BY <1>3 DEF PowerCycle
    <3> QED BY <3>1 DEF BufferType, NoData, byte
  <2>5. KnobTypes'
    <3>1. encoderPos' = MIN_POS /\ oldVolume' = 255
      BY <1>3 DEF PowerCycle
    <3> QED BY <3>1, EncoderAssumption DEF KnobTypes, byte, EncoderAssumption
  <2>6. StationTypes'
    <3>1. station' = 0 /\ oldStation' = -1 /\ capSamples' = NoSamples /\ sampleIndex' = 0
      BY <1>3 DEF PowerCycle
    <3> QED BY <3>1, StationAssumption DEF StationTypes, NoSamples, byte,
       StationAssumption
  <2>7. DisplayTypes'
    <3>1. errorCode' = 0 /\ leds' = [red |-> 0, green |-> 0]
      BY <1>3 DEF PowerCycle, LedsOff
    <3> QED BY <3>1 DEF DisplayTypes, byte
  <2>8. RomTypes'
    <3>1. writing' = [addr |-> "none", val |-> 0]
      BY <1>3 DEF PowerCycle, NoWrite
    <3>2. eeprom' \in [id : byte, pos : byte]
      <4>1. CASE writing = NoWrite
        BY <1>3, <4>1 DEF PowerCycle, Types, RomTypes
      <4>2. CASE writing # NoWrite
        <5>1. writing.addr \in {"id", "pos"} /\ writing.val \in byte
          BY <4>2 DEF Types, RomTypes
        <5>2. PICK v \in {eeprom[writing.addr], writing.val, ERASED} :
                eeprom' = [eeprom EXCEPT ![writing.addr] = v]
          BY <1>3, <4>2 DEF PowerCycle
        <5>3. v \in byte
          BY <5>1, <5>2 DEF Types, RomTypes, ERASED, byte
        <5> QED BY <5>1, <5>2, <5>3 DEF Types, RomTypes
      <4> QED BY <4>1, <4>2
    <3> QED BY <3>1, <3>2 DEF RomTypes, NoWrite, byte
  <2> QED BY <1>1, <2>1, <2>2, <2>3, <2>4, <2>5, <2>6, <2>7, <2>8 DEF Types
<1> QED BY <1>2, <1>3 DEF Restart

\* A write of a cell of the EEPROM is started.
LEMMA StartWriteTypes ==
  ASSUME RomTypes, NEW addr \in {"id", "pos"}, NEW val \in byte, StartWrite(addr, val)
  PROVE  RomTypes'
BY DEF RomTypes, StartWrite, NoWrite

\* The statements of setup().
LEMMA SetupTypes ==
  ASSUME Types, setup, pc # "setupState", UNCHANGED master
  PROVE  Types'
<1> USE DEF Types
<1>1. MasterTypes'
  BY DEF master, MasterTypes
<1>2. PcType'
  BY DEF setup, SetupSpi, SetupState, SetupRead, SetupCheck, SetupWriteId,
     SetupWritePos,
         SetupPublish, SetupVolumeBit, SetupStationBit, Goto, PcType, InSetup, InLoop
<1>3. CASE SetupSpi
  BY <1>1, <1>2, <1>3 DEF SetupSpi, FlagTypes, SpiTypes, BufferType, KnobTypes,
     StationTypes,
     DisplayTypes, RomTypes, port, background, controls, display, nvram
<1>4. CASE SetupRead
  <2>1. KnobTypes'
    BY <1>4 DEF SetupRead, KnobTypes, RomTypes, background, controls
  <2> QED BY <1>1, <1>2, <1>4, <2>1 DEF SetupRead, FlagTypes, SpiTypes, BufferType,
     StationTypes,
     DisplayTypes, RomTypes, spi, port, background, controls, display, nvram
<1>5. CASE SetupCheck
  <2>1. DEFAULT_ENCODER_POS \in byte
    BY EncoderAssumption DEF EncoderAssumption, byte
  <2>2. KnobTypes'
    BY <1>5, <2>1 DEF SetupCheck, KnobTypes, background, controls
  <2> QED BY <1>1, <1>2, <1>5, <2>2 DEF SetupCheck, FlagTypes, SpiTypes, BufferType,
     StationTypes,
     DisplayTypes, RomTypes, spi, port, background, controls, display, nvram
<1>6. CASE SetupWriteId
  <2>1. RomTypes'
    BY <1>6, StartWriteTypes DEF SetupWriteId, EEPROM_ID, byte
  <2> QED BY <1>1, <1>2, <1>6, <2>1 DEF SetupWriteId, FlagTypes, SpiTypes, BufferType,
     KnobTypes,
     StationTypes, DisplayTypes, spi, port, background, controls, display
<1>7. CASE SetupWritePos
  <2>1. DEFAULT_ENCODER_POS \in byte
    BY EncoderAssumption DEF EncoderAssumption, byte
  <2>2. RomTypes'
    BY <1>7, <2>1, StartWriteTypes DEF SetupWritePos
  <2>3. KnobTypes'
    BY <1>7, <2>1 DEF SetupWritePos, KnobTypes, background, controls
  <2> QED BY <1>1, <1>2, <1>7, <2>2, <2>3 DEF SetupWritePos, FlagTypes, SpiTypes,
     BufferType,
     StationTypes, DisplayTypes, spi, port, background, controls, display
<1>8. CASE SetupPublish
  <2>1. toVolume(encoderPos) \in byte
    BY DEF KnobTypes, toVolume, byte
  <2>2. BufferType'
    BY <1>8, <2>1 DEF SetupPublish, BufferType
  <2> QED BY <1>1, <1>2, <1>8, <2>2 DEF SetupPublish, FlagTypes, SpiTypes, KnobTypes,
     StationTypes, DisplayTypes, RomTypes, spi, port, background, controls, display,
     nvram
<1>9. ASSUME NEW bit \in {CHANGED_VOL_BIT, CHANGED_STATION_BIT}, SetBit(bit)
      PROVE  Types'
  <2>1. transferBuffer[INST_GET_CHANGES] \in byte
    BY DEF BufferType, INST_GET_CHANGES, NUMBER_INSTRUCTIONS
  <2>2. BufferType'
    BY <1>9, <2>1, BitsType DEF SetBit, BufferType
  <2> QED BY <1>1, <1>2, <1>9, <2>2 DEF SetBit, FlagTypes, SpiTypes, KnobTypes,
     StationTypes, DisplayTypes, RomTypes, spi, port, background, controls, display,
     nvram
<1> QED
  <2>1. ~SetupState
    BY DEF SetupState, Goto
  <2> QED BY <1>3, <1>4, <1>5, <1>6, <1>7, <1>8, <1>9, <2>1
          DEF setup, SetupVolumeBit, SetupStationBit

\* The statements of loop().
LEMMA LoopTypes ==
  ASSUME Types, loop, UNCHANGED master
  PROVE  Types'
<1> USE DEF Types
<1>1. MasterTypes'
  BY DEF master, MasterTypes
<1>2. PcType'
  BY DEF loop, Dispatch, IsOther, IsNull, IsReset, ResetChanges, IsOK, IsError, SetError, Clear,
     Volume,
         StorePosition, Sample, Pulse, Display, Goto, PcType, InSetup, InLoop
<1>3. transferBuffer \in [0 .. 6 -> byte]
  BY DEF BufferType, NUMBER_INSTRUCTIONS
<1>4. CASE Dispatch \/ IsOther \/ IsReset \/ IsError
  <2>1. UNCHANGED allButPc
    BY <1>4 DEF Dispatch, IsOther, IsReset, IsError
  <2> QED BY <1>1, <1>2, <2>1 DEF FlagTypes, SpiTypes, BufferType, KnobTypes,
     StationTypes,
     DisplayTypes, RomTypes, allButPc, spi, port, background, controls, display, nvram
<1>5. CASE IsNull
  <2>1. StationTypes'
    BY <1>5 DEF IsNull, StationTypes, controls
  <2>2. DisplayTypes'
    BY <1>5 DEF IsNull, DisplayTypes, byte
  <2> QED BY <1>1, <1>2, <1>5, <2>1, <2>2 DEF IsNull, FlagTypes, SpiTypes, BufferType,
     KnobTypes,
     RomTypes, spi, port, controls, nvram
<1>6. CASE ResetChanges
  <2>1. BufferType'
    <3>1. transferBuffer' \in [0 .. 6 -> byte]
      <4>1. transferBuffer' = [transferBuffer EXCEPT ![5] = 0] /\ 0 \in byte
        BY <1>6 DEF ResetChanges, INST_GET_CHANGES, byte
      <4> QED BY <1>3, <4>1
    <3> QED BY <3>1 DEF BufferType, NUMBER_INSTRUCTIONS
  <2> QED BY <1>1, <1>2, <1>6, <2>1 DEF ResetChanges, FlagTypes, SpiTypes, KnobTypes,
     StationTypes,
     DisplayTypes, RomTypes, spi, port, background, controls, display, nvram
<1>7. CASE IsOK
  <2>1. DisplayTypes'
    BY <1>7 DEF IsOK, DisplayTypes, LedsOff
  <2> QED BY <1>1, <1>2, <1>7, <2>1 DEF IsOK, FlagTypes, SpiTypes, BufferType,
     KnobTypes,
     StationTypes, RomTypes, spi, port, controls, nvram
<1>8. CASE SetError
  <2>1. DisplayTypes'
    BY <1>3, <1>8 DEF SetError, DisplayTypes, INST_STATUS_ERROR
  <2> QED BY <1>1, <1>2, <1>8, <2>1 DEF SetError, FlagTypes, SpiTypes, BufferType,
     KnobTypes,
     StationTypes, RomTypes, spi, port, controls, nvram
<1>9. CASE Clear
  <2>1. FlagTypes'
    BY <1>9 DEF Clear, FlagTypes, background, controls, port
  <2> QED BY <1>1, <1>2, <1>9, <2>1 DEF Clear, SpiTypes, BufferType, KnobTypes,
     StationTypes,
     DisplayTypes, RomTypes, port, background, controls, display, nvram
<1>10. CASE Volume
  <2>1. toVolume(encoderPos) \in byte
    BY DEF KnobTypes, toVolume, byte
  <2>2. KnobTypes'
    BY <1>10, <2>1 DEF Volume, KnobTypes
  <2>3. FlagTypes'
    BY <1>10 DEF Volume, FlagTypes, Announce, spi, port
  <2>4. BufferType'
    <3>1. VolumeRegister(toVolume(encoderPos)) \in [0 .. 6 -> byte]
      <4>1. bitSet(transferBuffer[INST_GET_CHANGES], CHANGED_VOL_BIT) \in byte
        BY <1>3, BitsType DEF INST_GET_CHANGES
      <4> QED BY <1>3, <2>1, <4>1 DEF VolumeRegister
    <3>2. transferBuffer' \in [0 .. 6 -> byte]
      BY <1>3, <1>10, <3>1 DEF Volume
    <3> QED BY <3>2 DEF BufferType, NUMBER_INSTRUCTIONS
  <2> QED BY <1>1, <1>2, <1>10, <2>2, <2>3, <2>4 DEF Volume, SpiTypes, StationTypes,
     DisplayTypes,
     RomTypes, spi, port, display, nvram
<1>11. CASE StorePosition
  <2>1. encoderPos % 256 \in byte
    BY DEF KnobTypes, byte
  <2>2. RomTypes'
    BY <1>11, <2>1, StartWriteTypes DEF StorePosition
  <2> QED BY <1>1, <1>2, <1>11, <2>2 DEF StorePosition, FlagTypes, SpiTypes,
     BufferType, KnobTypes,
     StationTypes, DisplayTypes, spi, port, background, controls, display
<1>12. CASE Sample
  <2> DEFINE Samples(v) == [capSamples EXCEPT ![sampleIndex] = v]
             Readings(v) == {Samples(v)[i] : i \in DOMAIN Samples(v)}
             New(v) == mapStation(Max(Readings(v)))
  <2>1. PICK v \in SampleValues :
          /\ capSamples' = Samples(v)
          /\ sampleIndex' = NextSample(sampleIndex)
          /\ station' \in {New(v), station}
          /\ \/ /\ oldStation' = New(v)
                /\ transferBuffer' = StationRegister(New(v)) /\ Announce
             \/ UNCHANGED <<oldStation, transferBuffer, changeOccured>>
    BY <1>12, Zenon DEF Sample
  <2>2. v \in byte /\ Samples(v) \in [0 .. MAX_SAMPLES - 1 -> byte]
    BY StationAssumption DEF StationAssumption, byte, StationTypes
  <2>3. New(v) \in Int
    <3>1. Readings(v) \subseteq 0 .. 255 /\ Readings(v) # {}
      <4>1. Samples(v)[0] \in Readings(v)
        BY <2>2, StationAssumption DEF StationAssumption
      <4>2. Readings(v) \subseteq byte
        BY <2>2
      <4> QED BY <4>1, <4>2 DEF byte
    <3> HIDE DEF Readings
    <3>2. Max(Readings(v)) \in Int
      BY <3>1, MaxOfBytes
    <3> QED BY <3>2, StationType
  <2>4. FlagTypes'
    BY <1>12, <2>1 DEF Sample, FlagTypes, Announce, spi, port
  <2> HIDE DEF Samples, New
  <2>5. BufferType'
    <3>1. StationRegister(New(v)) \in [0 .. 6 -> byte]
      <4>1. bitSet(transferBuffer[INST_GET_CHANGES], CHANGED_STATION_BIT) \in byte
        BY <1>3, BitsType DEF INST_GET_CHANGES
      <4>2. New(v) % 256 \in byte
        BY <2>3 DEF byte
      <4> QED BY <1>3, <4>1, <4>2 DEF StationRegister
    <3>2. transferBuffer' \in [0 .. 6 -> byte]
      BY <1>3, <2>1, <3>1
    <3> QED BY <3>2 DEF BufferType, NUMBER_INSTRUCTIONS
  <2>6. StationTypes'
    <3>1. station' \in Int /\ oldStation' \in Int
      BY <2>1, <2>3 DEF StationTypes
    <3>2. sampleIndex' \in 0 .. MAX_SAMPLES - 1
      <4>1. sampleIndex' = IF sampleIndex + 1 = MAX_SAMPLES THEN 0 ELSE sampleIndex + 1
        BY <2>1 DEF NextSample
      <4> QED BY <4>1, StationAssumption DEF StationTypes, StationAssumption
    <3> QED BY <2>1, <2>2, <3>1, <3>2 DEF StationTypes
  <2> QED BY <1>1, <1>2, <1>12, <2>4, <2>5, <2>6 DEF Sample, SpiTypes, KnobTypes,
     DisplayTypes,
     RomTypes, spi, port, display, nvram
<1>13. CASE Pulse
  <2>1. FlagTypes'
    BY <1>13 DEF Pulse, FlagTypes, spi, port
  <2> QED BY <1>1, <1>2, <1>13, <2>1 DEF Pulse, SpiTypes, BufferType, KnobTypes,
     StationTypes,
     DisplayTypes, RomTypes, spi, port, display, nvram
<1>14. CASE Display
  <2>1. leds' \in [red : 0 .. 2, green : 0 .. 2]
    <3>1. CASE errorCode \in 0 .. 8
      <4>1. leds' = [red |-> errorCode \div 3, green |-> errorCode % 3]
        BY <1>14, <3>1 DEF Display, errorModes
      <4>2. errorCode \div 3 \in 0 .. 2 /\ errorCode % 3 \in 0 .. 2
        BY <3>1
      <4> QED BY <4>1, <4>2
    <3>2. CASE errorCode \notin 0 .. 8
      BY <1>14, <3>2 DEF Display, errorModes
    <3> QED BY <3>1, <3>2
  <2>2. DisplayTypes'
    BY <1>14, <2>1 DEF Display, DisplayTypes
  <2> QED BY <1>1, <1>2, <1>14, <2>2 DEF Display, FlagTypes, SpiTypes, BufferType,
     KnobTypes,
     StationTypes, RomTypes, spi, port, controls, nvram
<1> QED BY <1>4, <1>5, <1>6, <1>7, <1>8, <1>9, <1>10, <1>11, <1>12, <1>13,
   <1>14 DEF loop

\* The knob and the EEPROM.
LEMMA BackgroundTypes ==
  ASSUME Types, doEncoder \/ EEPROMDone, UNCHANGED master
  PROVE  Types'
<1> USE DEF Types
<1>1. MasterTypes'
  BY DEF master, MasterTypes
<1>2. CASE doEncoder
  <2>1. KnobTypes'
    BY <1>2, EncoderAssumption DEF doEncoder, KnobTypes, background, controls, byte,
       EncoderAssumption
  <2> QED BY <1>1, <1>2, <2>1 DEF doEncoder, PcType, FlagTypes, SpiTypes, BufferType,
     StationTypes,
     DisplayTypes, RomTypes, spi, port, background, controls, display, nvram
<1>3. CASE EEPROMDone
  <2>1. RomTypes'
    <3>1. writing.addr \in {"id", "pos"} /\ writing.val \in byte
      BY <1>3 DEF EEPROMDone, RomTypes
    <3> QED BY <1>3, <3>1 DEF EEPROMDone, RomTypes, NoWrite, byte
  <2> QED BY <1>1, <1>3, <2>1 DEF EEPROMDone, PcType, FlagTypes, SpiTypes, BufferType,
     KnobTypes,
     StationTypes, DisplayTypes, spi, port, background, controls, display
<1> QED BY <1>2, <1>3

\* Every step keeps the types.
LEMMA TypesStep ==
  ASSUME Types, [Next]_vars
  PROVE  Types'
<1>1. CASE UNCHANGED vars
  BY <1>1 DEF vars, fpVars, allButPc, master, Types, PcType, FlagTypes, SpiTypes,
     BufferType,
     KnobTypes, StationTypes, DisplayTypes, RomTypes, MasterTypes, spi, port,
     background,
     controls, display, nvram
<1>2. CASE Next
  BY <1>2, MasterTypesStep, ByteStepTypes, RestartTypes, SetupTypes, LoopTypes,
     BackgroundTypes
     DEF Next, Controller, steps
<1> QED BY <1>1, <1>2

\* Every variable has its type and no index leaves its array, whatever bytes the
\* master sends and whatever lies behind instructionTypes.
THEOREM TypeCorrect == Spec => []TypeOK
<1>1. Spec => []Types
  BY InitTypes, TypesStep, PTL DEF Spec
<1> QED BY <1>1, TypesImplyTypeOK, PTL

-----------------------------------------------------------------------------
(***************************************************************************)
(* The panel: which steps change what the controls stand for.              *)
(***************************************************************************)

\* The position of the knob, the registers of the controls, and what is known of them.
Panel == <<encoderPos, transferBuffer[INST_GET_VOL], transferBuffer[INST_GET_STATION],
           transferBuffer[INST_GET_CHANGES], oldVolume, changeOccured, history>>

\* setup() before it publishes, and loop() before it looks at the knob.
Early == {"setupSpi", "setupState", "setupRead", "setupCheck", "setupWriteId",
          "setupWritePos"}
Front == {"dispatch", "isNull", "isReset", "reset", "isOK", "isError", "setError", "clear",
          "volume"}

\* A step that leaves the panel alone.
Walk ==
  /\ UNCHANGED Panel
  /\ \/ pc' = pc
     \/ pc \in Early /\ pc' \in Early
     \/ pc \in Front /\ pc' \in Front
     \/ pc = "eeprom" /\ pc' = "sample"
     \/ pc = "display" /\ pc' = "dispatch"

\* The interrupt routine writes no register of a control.
LEMMA BytesLeaveThePanelAlone ==
  ASSUME Types, SPI_STC_vect
  PROVE  Walk
<1>1. pc' = pc /\ UNCHANGED <<encoderPos, oldVolume, changeOccured, history>>
  BY DEF SPI_STC_vect, background, controls
<1>2. \A r \in {INST_GET_VOL, INST_GET_STATION, INST_GET_CHANGES} :
        transferBuffer'[r] = transferBuffer[r]
  <2>1. CASE ReceiveInstruction \/ TransmitData
    BY <2>1 DEF ReceiveInstruction, TransmitData
  <2>2. CASE ReceiveData
    <3>1. instruction \in {4, 6} /\ transferBuffer \in [0 .. 6 -> byte]
      BY <2>2 DEF ReceiveData, Types, SpiTypes, BufferType, NUMBER_INSTRUCTIONS,
                  INST_STATUS_ERROR, INST_RESET_CHANGES
    <3>2. transferBuffer' = [transferBuffer EXCEPT ![instruction] = SPDR]
      BY <2>2 DEF ReceiveData
    <3> QED BY <3>1, <3>2 DEF INST_GET_VOL, INST_GET_STATION, INST_GET_CHANGES
  <2> QED BY <2>1, <2>2 DEF SPI_STC_vect
<1> QED BY <1>1, <1>2 DEF Walk, Panel

\* Every other step is one of these.
LEMMA PanelCases ==
  ASSUME Types, [Next]_vars
  PROVE  \/ Walk \/ PowerCycle \/ doEncoder
         \/ SetupRead \/ SetupCheck \/ SetupWritePos \/ SetupPublish
         \/ SetupVolumeBit \/ SetupStationBit
         \/ ResetChanges \/ Volume \/ Sample \/ Pulse
<1>1. CASE UNCHANGED vars
  BY <1>1 DEF vars, fpVars, allButPc, Walk, Panel, background, controls
<1>2. CASE Master
  <2>1. ASSUME NEW b, NEW first, Transfer(b, first) PROVE Walk
    BY <2>1 DEF Transfer, Walk, Panel, background, controls
  <2>2. MasterRestart => Walk
    BY DEF MasterRestart, fpVars, allButPc, Walk, Panel, background, controls
  <2> QED BY <1>2, <2>1, <2>2 DEF Master, FP_begin, GetReply, SendInstruction,
     SendErrorCode
<1>3. CASE HandleByte
  BY <1>3, BytesLeaveThePanelAlone DEF HandleByte
<1>4. SetupState => Walk
  BY DEF SetupState, Goto, Walk, Panel, Early, background, controls
<1>5. EEPROMDone => Walk
  BY DEF EEPROMDone, Walk, Panel, background, controls
<1>6. ASSUME SetupSpi \/ SetupWriteId PROVE Walk
  BY <1>6 DEF SetupSpi, SetupWriteId, Goto, Walk, Panel, Early, background, controls
<1>7. ASSUME Dispatch \/ IsOther \/ IsReset \/ IsError PROVE Walk
  BY <1>7 DEF Dispatch, IsOther, IsReset, IsError, Goto, allButPc, Walk, Panel, Front,
     background, controls
<1>8. ASSUME IsNull \/ IsOK \/ SetError \/ Clear PROVE Walk
  BY <1>8 DEF IsNull, IsOK, SetError, Clear, Goto, Walk, Panel, Front, background,
     controls
<1>9. ASSUME StorePosition \/ Display PROVE Walk
  BY <1>9 DEF StorePosition, Display, Goto, Walk, Panel, background, controls
<1>10. CASE Next
  BY <1>2, <1>3, <1>4, <1>5, <1>6, <1>7, <1>8, <1>9, <1>10
     DEF Next, Controller, Restart, setup, loop
<1> QED BY <1>1, <1>10

-----------------------------------------------------------------------------
(***************************************************************************)
(* The volume stays in its range.                                          *)
(***************************************************************************)

\* The position is valid from the check in setup() on, and the register from when it
\* is published.  Before the check the knob may have any position.
KnobInv ==
  /\ pc \in {"setupPublish", "setupVolumeBit", "setupStationBit"} \cup InLoop
       => encoderPos \in MIN_POS .. MAX_POS
  /\ pc \in {"setupVolumeBit", "setupStationBit"} \cup InLoop
       => transferBuffer[INST_GET_VOL] \in MIN_POS .. MAX_POS

\* A valid position is the volume.
LEMMA VolumeOfPosition ==
  ASSUME NEW p \in MIN_POS .. MAX_POS
  PROVE  toVolume(p) = p
BY EncoderAssumption DEF toVolume, EncoderAssumption

\* Every step keeps it: the knob wears off at either end.
LEMMA KnobStep ==
  ASSUME Types, KnobInv, [Next]_vars
  PROVE  KnobInv'
<1>0. transferBuffer \in [0 .. 6 -> byte]
  BY DEF Types, BufferType, NUMBER_INSTRUCTIONS
<1>1. CASE Walk
  BY <1>1 DEF Walk, Panel, Early, Front, KnobInv, InLoop
<1>2. CASE PowerCycle
  <2>1. pc' = "setupSpi"
    BY <1>2 DEF PowerCycle
  <2> QED BY <2>1 DEF KnobInv, InLoop
<1>3. CASE doEncoder
  <2>1. \/ encoderPos > MIN_POS /\ encoderPos' = encoderPos - 1
        \/ encoderPos < MAX_POS /\ encoderPos' = encoderPos + 1
    BY <1>3 DEF doEncoder
  <2>2. encoderPos \in MIN_POS .. MAX_POS => encoderPos' \in MIN_POS .. MAX_POS
    BY <2>1, EncoderAssumption DEF EncoderAssumption
  <2>3. UNCHANGED <<pc, transferBuffer>>
    BY <1>3 DEF doEncoder
  <2> QED BY <2>2, <2>3 DEF KnobInv
<1>4. CASE SetupRead
  <2>1. pc' \in {"setupCheck", "setupWriteId"}
    BY <1>4 DEF SetupRead, Goto
  <2> QED BY <2>1 DEF KnobInv, InLoop
<1>5. CASE SetupCheck
  <2>1. pc' = "setupPublish"
        /\ encoderPos' = IF Invalid(encoderPos) THEN DEFAULT_ENCODER_POS ELSE encoderPos
    BY <1>5 DEF SetupCheck, Goto
  <2>2. encoderPos \in Int
    BY DEF Types, KnobTypes, byte
  <2>3. encoderPos' \in MIN_POS .. MAX_POS
    BY <2>1, <2>2, EncoderAssumption DEF Invalid, EncoderAssumption
  <2> QED BY <2>1, <2>3 DEF KnobInv, InLoop
<1>6. CASE SetupWritePos
  <2>1. pc' = "setupPublish" /\ encoderPos' \in MIN_POS .. MAX_POS
    BY <1>6, EncoderAssumption DEF SetupWritePos, Goto, EncoderAssumption
  <2> QED BY <2>1 DEF KnobInv, InLoop
<1>7. CASE SetupPublish
  <2>1. encoderPos \in MIN_POS .. MAX_POS /\ encoderPos' = encoderPos
    BY <1>7 DEF SetupPublish, Goto, KnobInv
  <2>2. transferBuffer' = [transferBuffer EXCEPT ![INST_GET_VOL] = encoderPos]
    BY <1>7, <2>1, VolumeOfPosition DEF SetupPublish
  <2>3. transferBuffer'[INST_GET_VOL] = encoderPos
    BY <1>0, <2>2 DEF INST_GET_VOL
  <2> QED BY <2>1, <2>3 DEF KnobInv
<1>8. CASE SetupVolumeBit \/ SetupStationBit
  <2>1. pc \in {"setupVolumeBit", "setupStationBit"} /\ encoderPos' = encoderPos
    BY <1>8 DEF SetupVolumeBit, SetupStationBit, SetBit, Goto
  <2>2. transferBuffer'[INST_GET_VOL] = transferBuffer[INST_GET_VOL]
    BY <1>0, <1>8 DEF SetupVolumeBit, SetupStationBit, SetBit, INST_GET_VOL,
       INST_GET_CHANGES
  <2> QED BY <2>1, <2>2 DEF KnobInv
<1>9. CASE ResetChanges
  <2>1. pc \in InLoop /\ encoderPos' = encoderPos
    BY <1>9 DEF ResetChanges, Goto, InLoop
  <2>2. transferBuffer'[INST_GET_VOL] = transferBuffer[INST_GET_VOL]
    BY <1>0, <1>9 DEF ResetChanges, INST_GET_VOL, INST_GET_CHANGES
  <2> QED BY <2>1, <2>2 DEF KnobInv
<1>10. CASE Volume
  <2>1. pc \in InLoop /\ encoderPos' = encoderPos
    BY <1>10 DEF Volume, Goto, InLoop
  <2>2. toVolume(encoderPos) \in MIN_POS .. MAX_POS
    BY <2>1, VolumeOfPosition DEF KnobInv
  <2>3. \/ transferBuffer' = transferBuffer
        \/ transferBuffer' = VolumeRegister(toVolume(encoderPos))
    BY <1>10 DEF Volume
  <2>4. VolumeRegister(toVolume(encoderPos))[INST_GET_VOL] = toVolume(encoderPos)
    BY <1>0 DEF VolumeRegister, INST_GET_VOL, INST_GET_CHANGES
  <2> QED BY <2>1, <2>2, <2>3, <2>4 DEF KnobInv
<1>11. CASE Sample
  <2>1. pc \in InLoop /\ encoderPos' = encoderPos
    BY <1>11 DEF Sample, Goto, InLoop
  <2>2. transferBuffer' = transferBuffer \/ \E new : transferBuffer' = StationRegister(new)
    BY <1>11, Zenon DEF Sample
  <2>3. ASSUME NEW new
        PROVE  StationRegister(new)[INST_GET_VOL] = transferBuffer[INST_GET_VOL]
    BY <1>0 DEF StationRegister, INST_GET_STATION, INST_GET_VOL, INST_GET_CHANGES
  <2>4. transferBuffer'[INST_GET_VOL] = transferBuffer[INST_GET_VOL]
    BY <2>2, <2>3
  <2> QED BY <2>1, <2>4 DEF KnobInv
<1>12. CASE Pulse
  <2>1. pc \in InLoop /\ UNCHANGED <<encoderPos, transferBuffer>>
    BY <1>12 DEF Pulse, Goto, InLoop
  <2> QED BY <2>1 DEF KnobInv
<1> QED BY <1>1, <1>2, <1>3, <1>4, <1>5, <1>6, <1>7, <1>8, <1>9, <1>10, <1>11, <1>12,
   PanelCases

\* From the check in setup() on.
Checked == {"setupPublish", "setupVolumeBit", "setupStationBit"} \cup InLoop

\* Nothing is being written until setup() has found the EEPROM unmarked; from then on the
\* mark is written before any position, and only positions in the range are.
RomInv ==
  /\ pc \in Early \ {"setupWritePos"} => writing = NoWrite
  /\ pc = "setupWritePos" => \/ writing = [addr |-> "id", val |-> EEPROM_ID]
                             \/ writing = NoWrite /\ eeprom.id = EEPROM_ID
  /\ pc \in {"setupCheck"} \cup Checked => eeprom.id = EEPROM_ID
  /\ pc \in Checked =>
       writing = NoWrite \/ writing \in [addr : {"pos"}, val : MIN_POS .. MAX_POS]

\* Only these steps take part in what the EEPROM holds.
LEMMA RomCases ==
  ASSUME [Next]_vars
  PROVE  \/ /\ UNCHANGED nvram
            /\ \/ pc' = pc
               \/ pc = "setupSpi" /\ pc' = "setupState"
               \/ pc = "setupState" /\ pc' = "setupRead"
               \/ pc = "setupCheck" /\ pc' = "setupPublish"
               \/ pc \in Checked /\ pc' \in Checked
         \/ PowerCycle \/ EEPROMDone
         \/ SetupRead \/ SetupWriteId \/ SetupWritePos \/ StorePosition
<1> DEFINE Rests == UNCHANGED nvram /\ (pc' = pc \/ (pc \in Checked /\ pc' \in Checked))
<1>1. CASE UNCHANGED vars
  BY <1>1 DEF vars, fpVars, allButPc
<1>2. CASE Master
  <2>1. ASSUME NEW b, NEW first, Transfer(b, first) PROVE UNCHANGED <<pc, nvram>>
    BY <2>1 DEF Transfer
  <2>2. MasterRestart => UNCHANGED <<pc, nvram>>
    BY DEF MasterRestart, fpVars, allButPc
  <2> QED BY <1>2, <2>1, <2>2 DEF Master, FP_begin, GetReply, SendInstruction,
     SendErrorCode
<1>3. HandleByte \/ doEncoder => UNCHANGED <<pc, nvram>>
  BY DEF HandleByte, SPI_STC_vect, doEncoder
<1>4. SetupSpi \/ SetupState \/ SetupCheck =>
        /\ UNCHANGED nvram
        /\ \/ pc = "setupSpi" /\ pc' = "setupState"
           \/ pc = "setupState" /\ pc' = "setupRead"
           \/ pc = "setupCheck" /\ pc' = "setupPublish"
  BY DEF SetupSpi, SetupState, SetupCheck, Goto
<1>5. SetupPublish \/ SetupVolumeBit \/ SetupStationBit => Rests
  BY DEF SetupPublish, SetupVolumeBit, SetupStationBit, SetBit, Goto, Checked, InLoop
<1>6. ASSUME loop, ~StorePosition PROVE Rests
  <2>1. Dispatch \/ IsOther \/ IsReset \/ IsError => Rests
    BY DEF Dispatch, IsOther, IsReset, IsError, Goto, allButPc, Checked, InLoop
  <2>2. IsNull \/ ResetChanges \/ IsOK \/ SetError \/ Clear => Rests
    BY DEF IsNull, ResetChanges, IsOK, SetError, Clear, Goto, Checked, InLoop
  <2>3. Volume \/ Sample \/ Pulse \/ Display => Rests
    BY DEF Volume, Sample, Pulse, Display, Goto, Checked, InLoop
  <2> QED BY <1>6, <2>1, <2>2, <2>3 DEF loop
<1>7. CASE Next
  BY <1>2, <1>3, <1>4, <1>5, <1>6, <1>7 DEF Next, Controller, Restart, setup
<1> QED BY <1>1, <1>7

\* Every step keeps it.  A power failure damages the cell being written and no other.
LEMMA RomStep ==
  ASSUME Types, KnobInv, RomInv, [Next]_vars
  PROVE  RomInv'
<1>0. /\ eeprom \in [id : byte, pos : byte]
      /\ writing \in [addr : {"none", "id", "pos"}, val : byte]
      /\ writing.addr = "none" => writing = NoWrite
  BY DEF Types, RomTypes
<1>1. CASE UNCHANGED nvram /\ pc' = pc
  BY <1>1 DEF nvram, RomInv
<1>2. CASE UNCHANGED nvram /\ \/ pc = "setupSpi" /\ pc' = "setupState"
                              \/ pc = "setupState" /\ pc' = "setupRead"
                              \/ pc = "setupCheck" /\ pc' = "setupPublish"
  BY <1>2 DEF nvram, RomInv, Early, Checked, InLoop
<1>3. CASE UNCHANGED nvram /\ pc \in Checked /\ pc' \in Checked
  BY <1>3 DEF nvram, RomInv, Early, Checked, InLoop
<1>4. CASE PowerCycle
  <2>1. pc' = "setupSpi" /\ writing' = NoWrite
    BY <1>4 DEF PowerCycle
  <2> QED BY <2>1 DEF RomInv, Checked, InLoop
<1>5. CASE EEPROMDone
  <2>1. /\ writing # NoWrite /\ writing' = NoWrite /\ pc' = pc
        /\ eeprom' = [eeprom EXCEPT ![writing.addr] = writing.val]
    BY <1>5 DEF EEPROMDone
  <2>2. CASE pc = "setupWritePos"
    <3>1. writing = [addr |-> "id", val |-> EEPROM_ID]
      BY <2>1, <2>2 DEF RomInv
    <3>2. eeprom'.id = EEPROM_ID
      BY <1>0, <2>1, <3>1
    <3> QED BY <2>1, <2>2, <3>2 DEF RomInv, Checked, InLoop
  <2>3. CASE pc \in Checked
    <3>1. writing.addr = "pos"
      BY <2>1, <2>3 DEF RomInv
    <3>2. eeprom'.id = eeprom.id
      BY <1>0, <2>1, <3>1
    <3> QED BY <2>1, <2>3, <3>2 DEF RomInv, Early, Checked, InLoop
  <2>4. CASE pc \notin {"setupWritePos"} \cup Checked
    <3>1. pc \in Early
      BY <2>4 DEF Types, PcType, InSetup, Early, Checked
    <3> QED BY <2>1, <2>4, <3>1 DEF RomInv
  <2> QED BY <2>2, <2>3, <2>4
<1>6. CASE SetupRead
  <2>1. pc = "setupRead" /\ UNCHANGED <<eeprom, writing>>
    BY <1>6 DEF SetupRead, Goto, nvram
  <2>2. \/ eeprom.id = EEPROM_ID /\ pc' = "setupCheck"
        \/ pc' = "setupWriteId"
    BY <1>6 DEF SetupRead, Goto
  <2> QED BY <2>1, <2>2 DEF RomInv, Early, Checked, InLoop
<1>7. CASE SetupWriteId
  <2>1. pc' = "setupWritePos" /\ writing' = [addr |-> "id", val |-> EEPROM_ID]
    BY <1>7 DEF SetupWriteId, StartWrite, Goto
  <2> QED BY <2>1 DEF RomInv, Checked, InLoop
<1>8. CASE SetupWritePos
  <2>1. /\ pc = "setupWritePos" /\ pc' = "setupPublish" /\ writing = NoWrite
        /\ writing' = [addr |-> "pos", val |-> DEFAULT_ENCODER_POS] /\ UNCHANGED eeprom
    BY <1>8 DEF SetupWritePos, StartWrite, Goto
  <2>2. NoWrite # [addr |-> "id", val |-> EEPROM_ID]
    BY DEF NoWrite
  <2>3. eeprom'.id = EEPROM_ID
    BY <2>1, <2>2 DEF RomInv
  <2>4. writing' \in [addr : {"pos"}, val : MIN_POS .. MAX_POS]
    BY <2>1, EncoderAssumption DEF EncoderAssumption
  <2> QED BY <2>1, <2>3, <2>4 DEF RomInv, Early, Checked
<1>9. CASE StorePosition
  <2>1. /\ pc = "eeprom" /\ pc' = "sample"
        /\ writing' = [addr |-> "pos", val |-> encoderPos % 256] /\ UNCHANGED eeprom
    BY <1>9 DEF StorePosition, StartWrite, Goto
  <2>2. encoderPos % 256 \in MIN_POS .. MAX_POS
    BY <2>1, VolumeOfPosition DEF KnobInv, InLoop, toVolume
  <2>3. writing' \in [addr : {"pos"}, val : MIN_POS .. MAX_POS]
    BY <2>1, <2>2
  <2> QED BY <2>1, <2>3 DEF RomInv, Early, Checked, InLoop
<1> QED BY <1>1, <1>2, <1>3, <1>4, <1>5, <1>6, <1>7, <1>8, <1>9, RomCases

\* loop() runs with the knob in its range, the master is never told a volume outside it
\* and no position outside it is written, wherever the power failed and whatever the
\* EEPROM held; and the EEPROM is marked as valid.
THEOREM KnobInRange == Spec => []VolumeInRange
<1>1. MasterInit => KnobInv /\ RomInv
  BY DEF MasterInit, FPInit, Init, KnobInv, RomInv, Checked, InLoop
<1>2. Spec => [](Types /\ KnobInv /\ RomInv)
  BY <1>1, InitTypes, TypesStep, KnobStep, RomStep, PTL DEF Spec
<1>3. KnobInv /\ RomInv => VolumeInRange
  BY DEF KnobInv, RomInv, VolumeInRange, Checked
<1> QED BY <1>2, <1>3, PTL

-----------------------------------------------------------------------------
(***************************************************************************)
(* No movement goes without its change bit.                                *)
(***************************************************************************)

\* Nothing has moved before setup() publishes, and only the volume until loop() runs.
BitsInv ==
  /\ pc \in Early \cup {"setupPublish"} => moved = {}
  /\ pc = "setupVolumeBit" => moved \subseteq {INST_GET_VOL}
  /\ pc = "setupStationBit" => moved \subseteq {INST_GET_VOL} /\ BitSet(INST_GET_VOL)
  /\ pc \in InLoop => \A r \in moved : BitSet(r)

\* Setting the bit of one control sets it and clears none.
LEMMA FlaggingOneControl ==
  ASSUME Types, NEW r \in Controls,
         transferBuffer'[INST_GET_CHANGES]
           = bitSet(transferBuffer[INST_GET_CHANGES], BitOf(r))
  PROVE  /\ BitSet(r)'
         /\ \A o : BitSet(o) => BitSet(o)'
<1> DEFINE b == transferBuffer[INST_GET_CHANGES]
           b2 == transferBuffer'[INST_GET_CHANGES]
<1>1. b \in byte
  BY DEF Types, BufferType, NUMBER_INSTRUCTIONS, INST_GET_CHANGES
<1>2. \A o : BitOf(o) \in {CHANGED_VOL_BIT, CHANGED_STATION_BIT}
  BY DEF BitOf
<1>3. b2 = bitSet(b, BitOf(r))
  OBVIOUS
<1>4. \A o : (BitSet(o) <=> (b \div 2^BitOf(o)) % 2 = 1)
             /\ (BitSet(o)' <=> (b2 \div 2^BitOf(o)) % 2 = 1)
  BY DEF BitSet
<1> HIDE DEF b, b2
<1> QED BY <1>1, <1>2, <1>3, <1>4, BitsType

\* The bits depend on their register alone.
LEMMA BitsAreARegister ==
  ASSUME transferBuffer'[INST_GET_CHANGES] = transferBuffer[INST_GET_CHANGES]
  PROVE  \A o : BitSet(o)' <=> BitSet(o)
BY DEF BitSet

\* Where only one register changes, only that control has moved.
LEMMA OnlyOneMoves ==
  ASSUME NEW r \in Controls, NoteMoves,
         \A o \in Controls \ {r} : transferBuffer'[o] = transferBuffer[o]
  PROVE  moved' \subseteq moved \cup {r}
BY DEF NoteMoves

\* The critical section for the knob changes one register and flags it.
LEMMA VolumeFlagged ==
  ASSUME Types, Volume
  PROVE  /\ \A o \in Controls \ {INST_GET_VOL} : transferBuffer'[o] = transferBuffer[o]
         /\ \A o : BitSet(o) => BitSet(o)'
         /\ \/ UNCHANGED <<transferBuffer, changeOccured>> /\ toVolume(encoderPos) = oldVolume
            \/ BitSet(INST_GET_VOL)' /\ changeOccured'
<1>1. transferBuffer \in [0 .. 6 -> byte]
  BY DEF Types, BufferType, NUMBER_INSTRUCTIONS
<1>2. CASE UNCHANGED <<transferBuffer, changeOccured>> /\ toVolume(encoderPos) = oldVolume
  BY <1>2, BitsAreARegister
<1>3. CASE transferBuffer' = VolumeRegister(toVolume(encoderPos)) /\ changeOccured'
  <2>1. /\ transferBuffer'[INST_GET_CHANGES] = bitSet(transferBuffer[INST_GET_CHANGES], 0)
        /\ transferBuffer'[INST_GET_STATION] = transferBuffer[INST_GET_STATION]
    BY <1>1, <1>3 DEF VolumeRegister, INST_GET_VOL, INST_GET_STATION, INST_GET_CHANGES,
                      CHANGED_VOL_BIT
  <2>2. BitOf(INST_GET_VOL) = 0 /\ INST_GET_VOL \in Controls
    BY DEF BitOf, CHANGED_VOL_BIT, Controls
  <2> QED BY <1>3, <2>1, <2>2, FlaggingOneControl DEF Controls
<1> QED BY <1>2, <1>3, Zenon DEF Volume, Announce

\* The critical section for the tuner changes one register and flags it.
LEMMA StationFlagged ==
  ASSUME Types, Sample
  PROVE  /\ \A o \in Controls \ {INST_GET_STATION} : transferBuffer'[o] = transferBuffer[o]
         /\ \A o : BitSet(o) => BitSet(o)'
         /\ \/ UNCHANGED <<transferBuffer, changeOccured>>
            \/ BitSet(INST_GET_STATION)' /\ changeOccured'
<1>1. transferBuffer \in [0 .. 6 -> byte]
  BY DEF Types, BufferType, NUMBER_INSTRUCTIONS
<1>2. CASE UNCHANGED <<transferBuffer, changeOccured>>
  BY <1>2, BitsAreARegister
<1>3. ASSUME NEW new, transferBuffer' = StationRegister(new), changeOccured'
      PROVE  /\ \A o \in Controls \ {INST_GET_STATION} : transferBuffer'[o] = transferBuffer[o]
             /\ \A o : BitSet(o) => BitSet(o)'
             /\ BitSet(INST_GET_STATION)' /\ changeOccured'
  <2>1. /\ transferBuffer'[INST_GET_CHANGES] = bitSet(transferBuffer[INST_GET_CHANGES], 1)
        /\ transferBuffer'[INST_GET_VOL] = transferBuffer[INST_GET_VOL]
    BY <1>1, <1>3 DEF StationRegister, INST_GET_VOL, INST_GET_STATION, INST_GET_CHANGES,
                      CHANGED_STATION_BIT
  <2>2. BitOf(INST_GET_STATION) = 1 /\ INST_GET_STATION \in Controls
    BY DEF BitOf, CHANGED_STATION_BIT, Controls, INST_GET_STATION, INST_GET_VOL
  <2> QED BY <1>3, <2>1, <2>2, FlaggingOneControl DEF Controls
<1>4. \/ UNCHANGED <<transferBuffer, changeOccured>>
      \/ \E new : transferBuffer' = StationRegister(new) /\ changeOccured'
  BY Zenon DEF Sample, Announce
<1> QED BY <1>2, <1>3, <1>4

\* Every step keeps it.
LEMMA BitsStep ==
  ASSUME Types, BitsInv, [Next]_vars
  PROVE  BitsInv'
<1>0. transferBuffer \in [0 .. 6 -> byte]
  BY DEF Types, BufferType, NUMBER_INSTRUCTIONS
<1>1. CASE Walk
  BY <1>1, BitsAreARegister DEF Walk, Panel, history, Early, Front, BitsInv, InLoop
<1>2. CASE PowerCycle
  BY <1>2 DEF PowerCycle, BitsInv
<1>3. CASE doEncoder
  BY <1>3, BitsAreARegister DEF doEncoder, history, BitsInv
<1>4. CASE SetupRead \/ SetupCheck \/ SetupWritePos
  <2>1. /\ pc \in Early /\ pc' \in Early \cup {"setupPublish"}
        /\ moved' = moved
    BY <1>4 DEF SetupRead, SetupCheck, SetupWritePos, Goto, Early, history
  <2> QED BY <2>1 DEF BitsInv, Early
<1>5. CASE SetupPublish
  <2>1. pc = "setupPublish" /\ pc' = "setupVolumeBit"
    BY <1>5 DEF SetupPublish, Goto
  <2>2. transferBuffer'[INST_GET_STATION] = transferBuffer[INST_GET_STATION]
    BY <1>0, <1>5 DEF SetupPublish, INST_GET_STATION, INST_GET_VOL
  <2>3. moved' \subseteq moved \cup {INST_GET_VOL}
    BY <1>5, <2>2, OnlyOneMoves DEF SetupPublish, Controls
  <2> QED BY <2>1, <2>3 DEF BitsInv, Early, InLoop
<1>6. CASE SetupVolumeBit
  <2>1. pc = "setupVolumeBit" /\ pc' = "setupStationBit" /\ moved' = moved
    BY <1>6 DEF SetupVolumeBit, SetBit, Goto, history
  <2>2. BitOf(INST_GET_VOL) = CHANGED_VOL_BIT /\ INST_GET_VOL \in Controls
    BY DEF BitOf, Controls
  <2>3. transferBuffer'[INST_GET_CHANGES]
          = bitSet(transferBuffer[INST_GET_CHANGES], CHANGED_VOL_BIT)
    BY <1>0, <1>6 DEF SetupVolumeBit, SetBit, INST_GET_CHANGES
  <2>4. BitSet(INST_GET_VOL)'
    BY <2>2, <2>3, FlaggingOneControl
  <2> QED BY <2>1, <2>4 DEF BitsInv, Early, InLoop
<1>7. CASE SetupStationBit
  <2>1. pc = "setupStationBit" /\ pc' = "dispatch" /\ moved' = moved
    BY <1>7 DEF SetupStationBit, SetBit, Goto, history
  <2>2. BitOf(INST_GET_STATION) = CHANGED_STATION_BIT /\ INST_GET_STATION \in Controls
    BY DEF BitOf, Controls, INST_GET_STATION, INST_GET_VOL
  <2>3. transferBuffer'[INST_GET_CHANGES]
          = bitSet(transferBuffer[INST_GET_CHANGES], CHANGED_STATION_BIT)
    BY <1>0, <1>7 DEF SetupStationBit, SetBit, INST_GET_CHANGES
  <2>4. BitSet(INST_GET_VOL)'
    BY <2>1, <2>2, <2>3, FlaggingOneControl DEF BitsInv
  <2> QED BY <2>1, <2>4 DEF BitsInv, Early, InLoop
<1>8. CASE ResetChanges
  BY <1>8 DEF ResetChanges, Goto, BitsInv, Early
<1>9. CASE Volume
  <2>1. pc \in InLoop /\ pc' = "eeprom" /\ NoteMoves
    BY <1>9 DEF Volume, Goto, InLoop
  <2>2. CASE UNCHANGED transferBuffer
    <3>1. moved' = moved
      BY <2>1, <2>2 DEF NoteMoves
    <3> QED BY <2>1, <2>2, <3>1, BitsAreARegister DEF BitsInv, Early
  <2>3. CASE BitSet(INST_GET_VOL)'
    <3>1. moved' \subseteq moved \cup {INST_GET_VOL}
      BY <1>9, <2>1, VolumeFlagged, OnlyOneMoves DEF Controls
    <3> QED BY <1>9, <2>1, <2>3, <3>1, VolumeFlagged DEF BitsInv, Early
  <2> QED BY <1>9, <2>2, <2>3, VolumeFlagged
<1>10. CASE Sample
  <2>1. pc \in InLoop /\ pc' = "pulse" /\ NoteMoves
    BY <1>10 DEF Sample, Goto, InLoop
  <2>2. CASE UNCHANGED transferBuffer
    <3>1. moved' = moved
      BY <2>1, <2>2 DEF NoteMoves
    <3> QED BY <2>1, <2>2, <3>1, BitsAreARegister DEF BitsInv, Early
  <2>3. CASE BitSet(INST_GET_STATION)'
    <3>1. moved' \subseteq moved \cup {INST_GET_STATION}
      BY <1>10, <2>1, StationFlagged, OnlyOneMoves DEF Controls
    <3> QED BY <1>10, <2>1, <2>3, <3>1, StationFlagged DEF BitsInv, Early
  <2> QED BY <1>10, <2>2, <2>3, StationFlagged
<1>11. CASE Pulse
  BY <1>11, BitsAreARegister DEF Pulse, Goto, BitsInv, InLoop, Early
<1> QED BY <1>1, <1>2, <1>3, <1>4, <1>5, <1>6, <1>7, <1>8, <1>9, <1>10, <1>11,
   PanelCases

-----------------------------------------------------------------------------
(***************************************************************************)
(* No movement goes without its pulse.                                     *)
(***************************************************************************)

\* What moved in setup() is announced in the first pass, because 255 is no volume: the
\* first comparison with oldVolume finds a change.  What moves in loop() is announced
\* in the same pass.
PulseInv ==
  /\ pc \in InSetup => oldVolume = 255
  /\ pc \in Early \cup {"setupPublish"} => unannounced = {}
  /\ pc \in InSetup \cup Front => unannounced = {} \/ oldVolume = 255
  /\ pc \in {"eeprom", "sample", "pulse"} => unannounced = {} \/ changeOccured
  /\ pc = "display" => unannounced = {}

\* Every step keeps it.
LEMMA PulseStep ==
  ASSUME Types, KnobInv, PulseInv, [Next]_vars
  PROVE  PulseInv'
<1>1. CASE Walk
  BY <1>1 DEF Walk, Panel, history, Early, Front, PulseInv, InSetup
<1>2. CASE PowerCycle
  BY <1>2 DEF PowerCycle, PulseInv
<1>3. CASE doEncoder
  BY <1>3 DEF doEncoder, history, background, controls, PulseInv
<1>4. CASE SetupRead \/ SetupCheck \/ SetupWritePos
  <2>1. /\ pc \in Early /\ pc' \in Early \cup {"setupPublish"}
        /\ UNCHANGED <<oldVolume, unannounced>>
    BY <1>4 DEF SetupRead, SetupCheck, SetupWritePos, Goto, Early, history, background,
       controls
  <2> QED BY <2>1 DEF PulseInv, Early, InSetup
<1>5. CASE SetupPublish \/ SetupVolumeBit \/ SetupStationBit
  <2>1. /\ pc \in {"setupPublish", "setupVolumeBit", "setupStationBit"}
        /\ pc' \in {"setupVolumeBit", "setupStationBit", "dispatch"}
        /\ oldVolume' = oldVolume
    BY <1>5 DEF SetupPublish, SetupVolumeBit, SetupStationBit, SetBit, Goto,
       background, controls
  <2> QED BY <2>1 DEF PulseInv, Early, Front, InSetup
<1>6. CASE ResetChanges
  <2>1. pc \in Front /\ pc' \in Front /\ UNCHANGED <<oldVolume, unannounced>>
    BY <1>6 DEF ResetChanges, Goto, Front, background, controls
  <2> QED BY <2>1 DEF PulseInv, Early, Front, InSetup
<1>7. CASE Volume
  <2>1. pc = "volume" /\ pc' = "eeprom" /\ NoteMoves
    BY <1>7 DEF Volume, Goto
  <2>2. CASE UNCHANGED transferBuffer /\ toVolume(encoderPos) = oldVolume
    <3>1. unannounced' = unannounced
      BY <2>1, <2>2 DEF NoteMoves
    <3>2. oldVolume # 255
      <4>1. encoderPos \in MIN_POS .. MAX_POS
        BY <2>1 DEF KnobInv, InLoop
      <4> QED BY <2>2, <4>1, VolumeOfPosition, EncoderAssumption DEF EncoderAssumption
    <3> QED BY <2>1, <3>1, <3>2 DEF PulseInv, Early, Front, InSetup
  <2>3. CASE changeOccured'
    BY <2>1, <2>3 DEF PulseInv, Early, Front, InSetup
  <2> QED BY <1>7, <2>2, <2>3, VolumeFlagged
<1>8. CASE Sample
  <2>1. pc = "sample" /\ pc' = "pulse" /\ NoteMoves
    BY <1>8 DEF Sample, Goto
  <2>2. CASE UNCHANGED <<transferBuffer, changeOccured>>
    <3>1. unannounced' = unannounced
      BY <2>1, <2>2 DEF NoteMoves
    <3> QED BY <2>1, <2>2, <3>1 DEF PulseInv, Early, Front, InSetup
  <2>3. CASE changeOccured'
    BY <2>1, <2>3 DEF PulseInv, Early, Front, InSetup
  <2> QED BY <1>8, <2>2, <2>3, StationFlagged
<1>9. CASE Pulse
  <2>1. pc = "pulse" /\ pc' = "display"
    BY <1>9 DEF Pulse, Goto
  <2>2. unannounced' = {}
    BY <1>9, <2>1, Zenon DEF Pulse, PulseInv
  <2> QED BY <2>1, <2>2 DEF PulseInv, Early, Front, InSetup
<1> QED BY <1>1, <1>2, <1>3, <1>4, <1>5, <1>6, <1>7, <1>8, <1>9, PanelCases

\* A control that moved since the change bits were reset has its bit set.
THEOREM ChangesAreFlagged == Spec => []ChangedMeansBit
<1>1. MasterInit => BitsInv
  BY DEF MasterInit, FPInit, Init, BitsInv, InLoop
<1>2. Spec => [](Types /\ BitsInv)
  BY <1>1, InitTypes, TypesStep, BitsStep, PTL DEF Spec
<1>3. BitsInv => ChangedMeansBit
  BY DEF BitsInv, ChangedMeansBit
<1> QED BY <1>2, <1>3, PTL

\* No change of a register goes without a pulse in the same pass of loop().
THEOREM PulsesCoverChanges == Spec => []PulseCoversChange
<1>1. MasterInit => KnobInv /\ PulseInv
  BY DEF MasterInit, FPInit, Init, KnobInv, PulseInv, InLoop
<1>2. Spec => [](Types /\ KnobInv /\ PulseInv)
  BY <1>1, InitTypes, TypesStep, KnobStep, PulseStep, PTL DEF Spec
<1>3. PulseInv => PulseCoversChange
  BY DEF PulseInv, PulseCoversChange
<1> QED BY <1>2, <1>3, PTL

-----------------------------------------------------------------------------
(***************************************************************************)
(* The master and the controller stay in step.                             *)
(***************************************************************************)

\* The instructions that are replied to.
Replies == {INST_GET_STATION, INST_GET_VOL, INST_GET_CHANGES}

\* The variables of the two sides' conversation.
Wire == <<instruction, spiState, SPDR, SPIF, resetType, master, steps>>

\* No byte is waited for behind INST_RESET_CHANGES: the table happens to say so, or the
\* master never sends it.
ResetIsOneByte ==
  \/ ResetTypes \subseteq {NO_TRANSFER, OTHER_TYPE}
  \/ INST_RESET_CHANGES \notin Instructions

\* While a byte of a frame waits for the interrupt routine, the controller is one byte
\* behind: it is about to see the instruction the master has sent, or the last byte of
\* a frame the master has left.
FrameInv ==
  /\ resetType \in ResetTypes
  /\ inst \in Instructions \cup {INST_NULL}
  /\ beginSent => SPDR = INST_NULL /\ inst = INST_NULL /\ phase \in {"begin", "idle"}
  /\ phase = "reply" => inst \in Replies
  /\ phase = "data" => inst = INST_STATUS_ERROR
  /\ inStep /\ ~SPIF => /\ spiState = Expected
                        /\ phase \in {"reply", "data"} => instruction = inst
  /\ inStep /\ SPIF =>
       \/ phase \in {"reply", "data"} /\ spiState = SPI_STATE_INITIAL /\ SPDR = inst
       \/ /\ phase = "idle" /\ spiState = SPI_STATE_INITIAL /\ SPDR = inst
          /\ SPDR \notin Replies \cup {INST_STATUS_ERROR}
       \/ phase = "idle" /\ spiState # SPI_STATE_INITIAL

\* Only these steps take part in the conversation.
LEMMA WireCases ==
  ASSUME [Next]_vars
  PROVE  UNCHANGED Wire \/ Master \/ HandleByte \/ Restart
<1>1. CASE UNCHANGED vars
  BY <1>1 DEF vars, fpVars, allButPc, Wire, spi, port, background, world
<1>2. ASSUME UNCHANGED <<master, steps>>, doEncoder \/ EEPROMDone
      PROVE  UNCHANGED Wire
  BY <1>2 DEF doEncoder, EEPROMDone, Wire, spi, port, background, world
<1>3. ASSUME UNCHANGED <<master, steps>>, setup, pc # "setupState"
      PROVE  UNCHANGED Wire
  BY <1>3 DEF setup, SetupSpi, SetupState, SetupRead, SetupCheck, SetupWriteId,
     SetupWritePos,
      SetupPublish, SetupVolumeBit, SetupStationBit, SetBit, Goto, allButPc, Wire, spi,
      port,
      background, world
<1>4. ASSUME UNCHANGED <<master, steps>>, loop
      PROVE  UNCHANGED Wire
  BY <1>4 DEF loop, Dispatch, IsOther, IsNull, IsReset, ResetChanges, IsOK, IsError, SetError, Clear,
     Volume,
      StorePosition, Sample, Pulse, Display, allButPc, Wire, spi, port, background,
      world
<1> QED BY <1>1, <1>2, <1>3, <1>4 DEF Next, Controller

\* The master transfers: only from a state in step does it stay in step.
LEMMA MasterFrames ==
  ASSUME Types, FrameInv, Master
  PROVE  FrameInv'
<1>1. ASSUME NEW b, NEW first \in BOOLEAN, Transfer(b, first)
      PROVE  /\ SPDR' = b /\ SPIF' /\ UNCHANGED <<instruction, spiState, resetType>>
             /\ (beginSent' => first)
             /\ (inStep' => inStep /\ ~SPIF)
  BY <1>1, Zenon DEF Transfer, background, world
<1>2. CASE FP_begin
  <2>1. phase = "begin" /\ phase' = "idle" /\ inst' = INST_NULL /\ Transfer(INST_NULL, TRUE)
    BY <1>2 DEF FP_begin
  <2>2. inStep' => spiState' = SPI_STATE_INITIAL
    BY <1>1, <2>1 DEF FrameInv, Expected
  <2>3. INST_NULL \notin Replies \cup {INST_STATUS_ERROR}
    BY DEF Replies, INST_NULL, INST_GET_STATION, INST_GET_VOL, INST_GET_CHANGES,
       INST_STATUS_ERROR
  <2> QED BY <1>1, <2>1, <2>2, <2>3 DEF FrameInv
<1>3. CASE GetReply
  <2>1. phase = "reply" /\ phase' = "idle" /\ inst' = inst /\ Transfer(0, FALSE)
    BY <1>3 DEF GetReply
  <2>2. inStep' => spiState' = SPI_STATE_TRANSMIT_DATA
    BY <1>1, <2>1 DEF FrameInv, Expected
  <2>3. SPI_STATE_TRANSMIT_DATA # SPI_STATE_INITIAL
    BY DEF SPI_STATE_TRANSMIT_DATA, SPI_STATE_INITIAL
  <2> QED BY <1>1, <2>1, <2>2, <2>3 DEF FrameInv
<1>4. ASSUME NEW i \in Instructions, SendInstruction(i)
      PROVE  FrameInv'
  <2>1. phase = "idle" /\ inst' = i /\ Transfer(i, FALSE)
    BY <1>4 DEF SendInstruction
  <2>2. inStep' => spiState' = SPI_STATE_INITIAL
    BY <1>1, <2>1 DEF FrameInv, Expected
  <2>3. \/ i \in Replies /\ phase' = "reply"
        \/ i = INST_STATUS_ERROR /\ phase' = "data"
        \/ i \notin Replies \cup {INST_STATUS_ERROR} /\ phase' = "idle"
    <3>1. phase' = CASE i \in Replies -> "reply"
                     [] i = INST_STATUS_ERROR -> "data"
                     [] OTHER -> "idle"
      BY <1>4 DEF SendInstruction, Replies
    <3> QED BY <3>1 DEF Replies, INST_GET_STATION, INST_GET_VOL, INST_GET_CHANGES,
       INST_STATUS_ERROR
  <2> QED BY <1>1, <2>1, <2>2, <2>3 DEF FrameInv
<1>5. ASSUME NEW c \in ErrorCodes, SendErrorCode(c)
      PROVE  FrameInv'
  <2>1. phase = "data" /\ phase' = "idle" /\ inst' = inst /\ Transfer(c, FALSE)
    BY <1>5 DEF SendErrorCode
  <2>2. inStep' => spiState' = SPI_STATE_RECEIVE_DATA
    BY <1>1, <2>1 DEF FrameInv, Expected
  <2>3. SPI_STATE_RECEIVE_DATA # SPI_STATE_INITIAL
    BY DEF SPI_STATE_RECEIVE_DATA, SPI_STATE_INITIAL
  <2> QED BY <1>1, <2>1, <2>2, <2>3 DEF FrameInv
<1>6. CASE MasterRestart
  <2>1. phase' = "begin" /\ ~inStep' /\ UNCHANGED <<SPDR, beginSent, inst, resetType>>
    BY <1>6 DEF MasterRestart, fpVars, allButPc, spi, port, background, world
  <2> QED BY <2>1 DEF FrameInv
<1> QED BY <1>2, <1>3, <1>4, <1>5, <1>6 DEF Master

\* The byte is handled.  INST_RESET_CHANGES must not be waited for with data.
LEMMA ByteFrames ==
  ASSUME Types, FrameInv, HandleByte, ResetIsOneByte
  PROVE  FrameInv'
<1>1. /\ SPIF /\ ~SPIF' /\ ~beginSent' /\ UNCHANGED <<resetType, phase, inst>>
      /\ (inStep' => inStep \/ beginSent)
  BY Zenon DEF HandleByte, SPI_STC_vect, master, background, world
<1>2. spiState' = Expected' /\ (phase \in {"reply", "data"} => instruction' = inst)
      => FrameInv'
  BY <1>1 DEF FrameInv
<1>3. ~inStep' => FrameInv'
  BY <1>1 DEF FrameInv
<1>4. /\ INST_NULL \notin Replies \cup {INST_STATUS_ERROR}
      /\ INST_STATUS_ERROR \notin Replies
  BY DEF Replies, INST_NULL, INST_GET_STATION, INST_GET_VOL, INST_GET_CHANGES,
     INST_STATUS_ERROR
<1>5. CASE spiState # SPI_STATE_INITIAL /\ inStep'
  <2>1. spiState' = SPI_STATE_INITIAL
    BY <1>5 DEF HandleByte, SPI_STC_vect, ReceiveInstruction, TransmitData, ReceiveData
  <2>2. phase \in {"begin", "idle"}
    BY <1>1, <1>5 DEF FrameInv
  <2> QED BY <1>1, <1>2, <2>1, <2>2 DEF Expected
<1>6. CASE spiState = SPI_STATE_INITIAL /\ inStep'
  <2>1. ReceiveInstruction
    BY <1>6 DEF HandleByte, SPI_STC_vect, ReceiveInstruction, TransmitData, ReceiveData,
       SPI_STATE_INITIAL, SPI_STATE_RECEIVE_DATA, SPI_STATE_TRANSMIT_DATA
  <2>2. SPDR \in byte
    BY DEF Types, SpiTypes
  <2>3. CASE phase \in {"reply", "data"}
    <3>1. inStep /\ SPDR = inst
      BY <1>1, <1>6, <2>3 DEF FrameInv
    <3>2. instruction' = inst
      BY <2>1, <3>1 DEF ReceiveInstruction
    <3>3. CASE phase = "reply"
      <4>1. SPDR \in Replies
        BY <3>1, <3>3 DEF FrameInv
      <4>2. instructionTypes(SPDR) = READ /\ ~(SPDR >= NUMBER_INSTRUCTIONS)
        BY <4>1 DEF instructionTypes, Replies, INST_NULL, INST_GET_STATION,
           INST_GET_VOL, INST_STATUS_OK,
           INST_STATUS_ERROR, INST_GET_CHANGES, INST_RESET_CHANGES, NUMBER_INSTRUCTIONS
      <4>3. READ # WRITE /\ READ # NO_TRANSFER /\ READ # OTHER_TYPE
        BY DEF READ, WRITE, NO_TRANSFER, OTHER_TYPE
      <4>4. spiState' = SPI_STATE_TRANSMIT_DATA
        BY <2>1, <4>2, <4>3, Zenon DEF ReceiveInstruction
      <4> QED BY <1>1, <1>2, <3>2, <3>3, <4>4 DEF Expected
    <3>4. CASE phase = "data"
      <4>1. SPDR = INST_STATUS_ERROR
        BY <3>1, <3>4 DEF FrameInv
      <4>2. instructionTypes(SPDR) = WRITE /\ ~(SPDR >= NUMBER_INSTRUCTIONS)
        BY <4>1 DEF instructionTypes, INST_NULL, INST_GET_STATION, INST_GET_VOL,
           INST_STATUS_OK,
           INST_STATUS_ERROR, INST_GET_CHANGES, INST_RESET_CHANGES, NUMBER_INSTRUCTIONS
      <4>3. WRITE # READ /\ WRITE # NO_TRANSFER /\ WRITE # OTHER_TYPE
        BY DEF READ, WRITE, NO_TRANSFER, OTHER_TYPE
      <4>4. spiState' = SPI_STATE_RECEIVE_DATA
        BY <2>1, <4>2, <4>3, Zenon DEF ReceiveInstruction
      <4> QED BY <1>1, <1>2, <3>2, <3>4, <4>4 DEF Expected
    <3> QED BY <2>3, <3>3, <3>4
  <2>4. CASE phase \notin {"reply", "data"}
    <3>1. /\ SPDR \notin Replies \cup {INST_STATUS_ERROR}
          /\ SPDR \in Instructions \cup {INST_NULL}
      BY <1>1, <1>4, <1>6, <2>4 DEF FrameInv
    <3>2. SPDR < 7 => instructionTypes(SPDR) \notin {READ, WRITE}
      <4> SUFFICES ASSUME SPDR < 7 PROVE instructionTypes(SPDR) \notin {READ, WRITE}
        OBVIOUS
      <4>1. SPDR \in {0, 3, 6}
        BY <2>2, <3>1 DEF byte, Replies, INST_GET_STATION, INST_GET_VOL,
           INST_GET_CHANGES, INST_STATUS_ERROR
      <4>2. SPDR = 6 => resetType \in {NO_TRANSFER, OTHER_TYPE}
        BY <3>1 DEF FrameInv, ResetIsOneByte, INST_RESET_CHANGES, INST_NULL
      <4> QED BY <4>1, <4>2 DEF instructionTypes, INST_NULL, INST_GET_STATION,
         INST_GET_VOL, INST_STATUS_OK,
           INST_STATUS_ERROR, INST_GET_CHANGES, INST_RESET_CHANGES, READ, WRITE,
           NO_TRANSFER, OTHER_TYPE
    <3>3. SPDR < 7 \/ SPDR >= NUMBER_INSTRUCTIONS
      BY <2>2 DEF byte, NUMBER_INSTRUCTIONS
    <3>4. spiState' = SPI_STATE_INITIAL
      BY <1>6, <2>1, <3>2, <3>3, Zenon DEF ReceiveInstruction
    <3> QED BY <1>1, <1>2, <2>4, <3>4 DEF Expected
  <2> QED BY <2>3, <2>4
<1> QED BY <1>3, <1>5, <1>6

\* A restart of the controller ends the step it was in.
LEMMA RestartFrames ==
  ASSUME FrameInv, Restart
  PROVE  FrameInv'
<1>1. ~inStep' /\ UNCHANGED <<phase, inst, beginSent>>
  BY DEF Restart, master
<1>2. resetType' = resetType /\ (SPDR' = SPDR \/ SPDR' = INST_NULL)
  BY DEF Restart, SetupState, PowerCycle, port, background, world, INST_NULL
<1> QED BY <1>1, <1>2 DEF FrameInv

\* Every step keeps it.
LEMMA FrameStep ==
  ASSUME Types, FrameInv, [Next]_vars, ResetIsOneByte
  PROVE  FrameInv'
<1>1. CASE UNCHANGED Wire
  BY <1>1 DEF Wire, master, steps, FrameInv, Expected
<1> QED BY <1>1, WireCases, MasterFrames, ByteFrames, RestartFrames

\* FP_begin brings the two sides into step from wherever they were, and they stay there,
\* in a build where what lies behind instructionTypes is neither READ nor WRITE, and in
\* every build with a master that does not use INST_RESET_CHANGES.
THEOREM FramesStayTogether ==
  ASSUME ResetIsOneByte
  PROVE  Spec => []FramesAgree
<1>1. MasterInit => FrameInv
  BY DEF MasterInit, FPInit, Init, FrameInv
<1>2. Types /\ FrameInv /\ [Next]_vars => FrameInv'
  BY FrameStep
<1>3. Spec => [](Types /\ FrameInv)
  BY <1>1, <1>2, InitTypes, TypesStep, PTL DEF Spec
<1>4. FrameInv => FramesAgree
  BY DEF FrameInv, FramesAgree
<1> QED BY <1>3, <1>4, PTL

-----------------------------------------------------------------------------
(***************************************************************************)
(* An outdated reply is flagged.                                           *)
(***************************************************************************)

\* While the reply waits in SPDR, it is the register, or the control's bit is set and
\* loop() is not about to reset it.
OutdatedInv ==
  inStep /\ ~SPIF /\ phase = "reply" /\ inst \in Controls /\ pc \in InLoop
    => SPDR = transferBuffer[inst] \/ (BitSet(inst) /\ pc # "reset")

\* The bits are about to be reset only where the test for it has just been passed.
LEMMA OnlyTheTestLeadsToReset ==
  ASSUME [Next]_vars, pc' = "reset", pc # "reset"
  PROVE  IsReset
<1>1. Next
  BY DEF vars, fpVars
<1>2. ~Master
  <2>1. ASSUME NEW b, NEW first, Transfer(b, first) PROVE FALSE
    BY <2>1 DEF Transfer
  <2> QED BY <2>1 DEF Master, FP_begin, GetReply, SendInstruction, SendErrorCode,
             MasterRestart, fpVars
<1>3. ~HandleByte /\ ~Restart /\ ~doEncoder /\ ~EEPROMDone
  BY DEF HandleByte, SPI_STC_vect, Restart, SetupState, PowerCycle, doEncoder, EEPROMDone,
     Goto
<1>4. ~setup
  BY DEF setup, SetupSpi, SetupState, SetupRead, SetupCheck, SetupWriteId,
     SetupWritePos, SetupPublish, SetupVolumeBit, SetupStationBit, Goto
<1>5. loop => IsReset
  BY DEF loop, Dispatch, IsOther, IsNull, ResetChanges, IsOK, IsError, SetError,
     Clear, Volume, StorePosition, Sample, Pulse, Display, Goto
<1> QED BY <1>1, <1>2, <1>3, <1>4, <1>5 DEF Next, Controller

\* Every step keeps it.  loop() may be about to reset the bits when the instruction that is
\* replied to comes, and does so; but then the register has not changed since.  It changes
\* in statements of loop() that lie behind the reset, and to come to another one loop()
\* would have to find INST_RESET_CHANGES in instruction, where the one being replied to is.
LEMMA OutdatedStep ==
  ASSUME Types, FrameInv, BitsInv, OutdatedInv, FrameInv', [Next]_vars
  PROVE  OutdatedInv'
<1>0. transferBuffer \in [0 .. 6 -> byte]
  BY DEF Types, BufferType, NUMBER_INSTRUCTIONS
<1>1. CASE Master
  <2>1. ASSUME NEW b, NEW first, Transfer(b, first) PROVE OutdatedInv'
    BY <2>1 DEF Transfer, OutdatedInv
  <2>2. ASSUME MasterRestart PROVE OutdatedInv'
    BY <2>2 DEF MasterRestart, OutdatedInv
  <2> QED BY <1>1, <2>1, <2>2 DEF Master, FP_begin, GetReply, SendInstruction,
     SendErrorCode
<1>2. CASE Restart
  BY <1>2 DEF Restart, OutdatedInv
<1>3. CASE HandleByte
  <2> SUFFICES ASSUME inStep', phase' = "reply" PROVE SPDR' = transferBuffer'[inst']
    BY DEF OutdatedInv
  <2>1. SPIF /\ ~SPIF' /\ SPI_STC_vect
    BY <1>3 DEF HandleByte, SPI_STC_vect
  <2>2. spiState' = SPI_STATE_TRANSMIT_DATA /\ instruction' = inst'
    BY <2>1 DEF FrameInv, Expected
  <2>3. ReceiveInstruction
    BY <2>1, <2>2 DEF SPI_STC_vect, TransmitData, ReceiveData, SPI_STATE_TRANSMIT_DATA,
       SPI_STATE_INITIAL
  <2>4. spiState = SPI_STATE_INITIAL /\ instruction' = SPDR /\ UNCHANGED transferBuffer
    BY <2>3 DEF ReceiveInstruction
  <2>5. SPDR' = transferBuffer[SPDR]
    <3>1. spiState' # spiState /\ spiState' # SPI_STATE_RECEIVE_DATA
      BY <2>2, <2>4 DEF SPI_STATE_TRANSMIT_DATA, SPI_STATE_INITIAL,
         SPI_STATE_RECEIVE_DATA
    <3> QED BY <2>3, <3>1, Zenon DEF ReceiveInstruction
  <2> QED BY <2>2, <2>4, <2>5
<1>4. CASE UNCHANGED Wire
  <2>1. UNCHANGED <<instruction, SPDR, inst, inStep, SPIF, phase>>
    BY <1>4 DEF Wire, master, steps
  <2> SUFFICES ASSUME NEW r \in Controls, inst = r, inStep, ~SPIF, phase = "reply",
                      pc' \in InLoop
               PROVE  SPDR = transferBuffer'[r] \/ (BitSet(r)' /\ pc' # "reset")
    BY <2>1 DEF OutdatedInv, BitSet
  <2>2. pc \in InLoop => SPDR = transferBuffer[r] \/ (BitSet(r) /\ pc # "reset")
    BY DEF OutdatedInv, BitSet
  <2>3. pc' = "reset" => pc = "reset"
    <3>1. instruction \in Controls
      BY DEF FrameInv
    <3>2. INST_RESET_CHANGES \notin Controls
      BY DEF Controls, INST_RESET_CHANGES, INST_GET_VOL, INST_GET_STATION
    <3> QED BY <3>1, <3>2, OnlyTheTestLeadsToReset DEF IsReset
  <2>4. ASSUME pc \in InLoop, transferBuffer'[r] = transferBuffer[r], BitSet(r) => BitSet(r)'
        PROVE  SPDR = transferBuffer'[r] \/ (BitSet(r)' /\ pc' # "reset")
    BY <2>2, <2>3, <2>4
  <2>5. CASE Walk
    <3>1. pc \in InLoop
      BY <2>5 DEF Walk, Early, Front, InLoop
    <3>2. /\ transferBuffer'[r] = transferBuffer[r]
          /\ transferBuffer'[INST_GET_CHANGES] = transferBuffer[INST_GET_CHANGES]
      BY <2>5 DEF Walk, Panel, Controls
    <3> QED BY <2>4, <3>1, <3>2, BitsAreARegister
  <2>6. CASE doEncoder \/ Pulse
    <3>1. pc \in InLoop /\ UNCHANGED transferBuffer
      BY <2>6 DEF doEncoder, Pulse, Goto, InLoop
    <3> QED BY <2>4, <3>1, BitsAreARegister
  <2>7. ~(\/ PowerCycle \/ SetupRead \/ SetupCheck \/ SetupWritePos \/ SetupPublish
          \/ SetupVolumeBit)
    BY DEF PowerCycle, SetupRead, SetupCheck, SetupWritePos, SetupPublish,
       SetupVolumeBit, Goto, InLoop
  <2>8. CASE SetupStationBit
    <3>1. pc = "setupStationBit" /\ pc' = "dispatch"
      BY <2>8 DEF SetupStationBit, Goto
    <3>2. BitOf(INST_GET_STATION) = CHANGED_STATION_BIT /\ INST_GET_STATION \in Controls
      BY DEF BitOf, Controls, INST_GET_STATION, INST_GET_VOL
    <3>3. transferBuffer'[INST_GET_CHANGES]
            = bitSet(transferBuffer[INST_GET_CHANGES], CHANGED_STATION_BIT)
      BY <1>0, <2>8 DEF SetupStationBit, SetBit, INST_GET_CHANGES
    <3>4. BitSet(INST_GET_VOL)' /\ BitSet(INST_GET_STATION)'
      BY <3>1, <3>2, <3>3, FlaggingOneControl DEF BitsInv
    <3> QED BY <3>1, <3>4 DEF Controls
  <2>9. CASE ResetChanges
    <3>1. pc = "reset" /\ pc \in InLoop
      BY <2>9 DEF ResetChanges, Goto, InLoop
    <3>2. transferBuffer'[r] = transferBuffer[r]
      BY <1>0, <2>9 DEF ResetChanges, Controls, INST_GET_VOL, INST_GET_STATION,
         INST_GET_CHANGES
    <3> QED BY <2>2, <3>1, <3>2
  <2>10. CASE Volume
    <3>1. pc \in InLoop /\ pc' = "eeprom"
      BY <2>10 DEF Volume, Goto, InLoop
    <3>2. r = INST_GET_VOL \/ transferBuffer'[r] = transferBuffer[r]
      BY <2>10, VolumeFlagged
    <3>3. UNCHANGED transferBuffer \/ BitSet(INST_GET_VOL)'
      BY <2>10, VolumeFlagged
    <3>4. BitSet(r) => BitSet(r)'
      BY <2>10, VolumeFlagged
    <3> QED BY <2>2, <3>1, <3>2, <3>3, <3>4
  <2>11. CASE Sample
    <3>1. pc \in InLoop /\ pc' = "pulse"
      BY <2>11 DEF Sample, Goto, InLoop
    <3>2. r = INST_GET_STATION \/ transferBuffer'[r] = transferBuffer[r]
      BY <2>11, StationFlagged
    <3>3. UNCHANGED transferBuffer \/ BitSet(INST_GET_STATION)'
      BY <2>11, StationFlagged
    <3>4. BitSet(r) => BitSet(r)'
      BY <2>11, StationFlagged
    <3> QED BY <2>2, <3>1, <3>2, <3>3, <3>4
  <2> QED BY <2>5, <2>6, <2>7, <2>8, <2>9, <2>10, <2>11, PanelCases
<1> QED BY <1>1, <1>2, <1>3, <1>4, WireCases

\* A reply that is outdated by the time the master gets it has its change bit set,
\* whatever loop() was doing.
THEOREM OutdatedRepliesAreFlagged ==
  ASSUME ResetIsOneByte
  PROVE  Spec => []OutdatedReplyIsFlagged
<1> DEFINE Inv == Types /\ FrameInv /\ BitsInv /\ OutdatedInv
<1>1. MasterInit => Inv
  <2>1. MasterInit => FrameInv /\ BitsInv /\ OutdatedInv
    BY DEF MasterInit, FPInit, Init, FrameInv, BitsInv, OutdatedInv, InLoop
  <2> QED BY <2>1, InitTypes
<1>2. Inv /\ [Next]_vars => Inv'
  BY TypesStep, FrameStep, BitsStep, OutdatedStep
<1>3. Inv => OutdatedReplyIsFlagged
  BY DEF OutdatedInv, OutdatedReplyIsFlagged
<1> QED BY <1>1, <1>2, <1>3, PTL DEF Spec

-----------------------------------------------------------------------------
(***************************************************************************)
(* No report is thrown away unasked.                                       *)
(***************************************************************************)

\* Wherever loop() may still find INST_RESET_CHANGES in instruction, a byte of it has come
\* since the last instruction was done with; and so it has where the bits are about to be
\* reset, whatever instruction is there by then.
AskedInv ==
  /\ /\ processInstruction \/ pc \in {"isNull", "isReset"}
     /\ instruction = INST_RESET_CHANGES
     => asked
  /\ pc = "reset" => asked

\* Every step keeps it.
LEMMA AskedStep ==
  ASSUME Types, AskedInv, [Next]_vars
  PROVE  AskedInv'
<1>0. asked \in BOOLEAN /\ processInstruction \in BOOLEAN
  BY DEF Types, FlagTypes
<1> DEFINE Elsewhere == pc' \notin {"isNull", "isReset", "reset"}
<1>1. ASSUME UNCHANGED <<processInstruction, instruction, asked>>, pc' = pc \/ Elsewhere
      PROVE  AskedInv'
  BY <1>1 DEF AskedInv
<1>2. ASSUME UNCHANGED spi, pc' = pc \/ Elsewhere PROVE AskedInv'
  BY <1>1, <1>2 DEF spi
<1>3. CASE UNCHANGED vars
  BY <1>2, <1>3 DEF vars, fpVars, allButPc
<1>4. CASE Master
  <2>1. ASSUME NEW b, NEW first, Transfer(b, first) PROVE AskedInv'
    BY <1>1, <2>1 DEF Transfer
  <2>2. MasterRestart => AskedInv'
    BY <1>2 DEF MasterRestart, fpVars, allButPc
  <2> QED BY <1>4, <2>1, <2>2 DEF Master, FP_begin, GetReply, SendInstruction,
     SendErrorCode
<1>5. CASE HandleByte
  <2>1. pc' = pc /\ asked' = (asked \/ instruction' = INST_RESET_CHANGES)
    BY <1>5 DEF HandleByte, SPI_STC_vect
  <2> QED BY <1>0, <2>1 DEF AskedInv
<1>6. CASE PowerCycle \/ SetupSpi
  <2>1. ~processInstruction' /\ Elsewhere
    BY <1>6 DEF PowerCycle, SetupSpi, Goto
  <2> QED BY <2>1 DEF AskedInv
<1>7. CASE SetupState
  BY <1>1, <1>7 DEF SetupState, Goto
<1>8. ASSUME setup, ~SetupSpi, ~SetupState PROVE AskedInv'
  BY <1>2, <1>8 DEF setup, SetupRead, SetupCheck, SetupWriteId, SetupWritePos,
     SetupPublish, SetupVolumeBit, SetupStationBit, SetBit, allButPc, Goto
<1>9. CASE doEncoder \/ EEPROMDone
  BY <1>2, <1>9 DEF doEncoder, EEPROMDone
<1>10. CASE Dispatch \/ IsOther \/ IsReset
  <2>1. UNCHANGED <<processInstruction, instruction, asked>>
    BY <1>10 DEF Dispatch, IsOther, IsReset, allButPc, spi
  <2>2. \/ Elsewhere
        \/ pc' = "isNull" /\ processInstruction
        \/ pc' = "isReset" /\ pc = "isNull"
        \/ pc' = "reset" /\ pc = "isReset" /\ instruction = INST_RESET_CHANGES
    BY <1>10 DEF Dispatch, IsOther, IsReset, Goto
  <2> QED BY <2>1, <2>2 DEF AskedInv
<1>11. CASE Clear
  <2>1. ~processInstruction' /\ Elsewhere
    BY <1>11 DEF Clear, Goto
  <2> QED BY <2>1 DEF AskedInv
<1>12. CASE ResetChanges \/ IsNull \/ IsOK \/ IsError \/ SetError
  BY <1>2, <1>12 DEF ResetChanges, IsNull, IsOK, IsError, SetError, allButPc, Goto
<1>13. CASE Volume \/ StorePosition \/ Sample \/ Pulse \/ Display
  BY <1>2, <1>13 DEF Volume, StorePosition, Sample, Pulse, Display, Goto
<1>14. loop => AskedInv'
  BY <1>10, <1>11, <1>12, <1>13 DEF loop
<1> QED BY <1>3, <1>4, <1>5, <1>6, <1>7, <1>8, <1>9, <1>14 DEF Next, Controller, Restart

\* While loop() runs, only carrying out INST_RESET_CHANGES clears a bit.
LEMMA OnlyResetsClear ==
  ASSUME Types, [Next]_vars, NEW r \in Controls, pc' \in InLoop, BitSet(r), ~BitSet(r)'
  PROVE  ResetChanges
<1>0. transferBuffer \in [0 .. 6 -> byte]
  BY DEF Types, BufferType, NUMBER_INSTRUCTIONS
<1>1. transferBuffer'[INST_GET_CHANGES] # transferBuffer[INST_GET_CHANGES]
  BY BitsAreARegister
<1>2. ~(Walk \/ doEncoder \/ SetupRead \/ SetupCheck \/ SetupWritePos \/ Pulse)
  BY <1>1 DEF Walk, Panel, doEncoder, SetupRead, SetupCheck, SetupWritePos, Pulse
<1>3. ~PowerCycle
  BY DEF PowerCycle, InLoop
<1>4. ~SetupPublish
  BY <1>0, <1>1 DEF SetupPublish, INST_GET_VOL, INST_GET_CHANGES
<1>5. ASSUME NEW c \in Controls,
             transferBuffer'[INST_GET_CHANGES]
               = bitSet(transferBuffer[INST_GET_CHANGES], BitOf(c))
      PROVE  FALSE
  BY <1>5, FlaggingOneControl
<1>6. ~(SetupVolumeBit \/ SetupStationBit)
  <2>1. BitOf(INST_GET_VOL) = CHANGED_VOL_BIT /\ BitOf(INST_GET_STATION) = CHANGED_STATION_BIT
        /\ INST_GET_VOL \in Controls /\ INST_GET_STATION \in Controls
    BY DEF BitOf, Controls, INST_GET_STATION, INST_GET_VOL
  <2> QED BY <1>0, <1>5, <2>1 DEF SetupVolumeBit, SetupStationBit, SetBit, INST_GET_CHANGES
<1>7. ~Volume /\ ~Sample
  BY VolumeFlagged, StationFlagged
<1> QED BY <1>2, <1>3, <1>4, <1>6, <1>7, PanelCases

\* loop() throws reports of changes away only when it was asked to, and once for each
\* time, whatever the interrupt routine does between its statements and in every build.
THEOREM NoReportIsThrownAway == Spec => ResetsAreAskedFor
<1> DEFINE Inv == Types /\ AskedInv
<1> DEFINE Asked == \A r \in Controls :
                      pc \in InLoop /\ pc' \in InLoop /\ BitSet(r) /\ ~BitSet(r)' => asked
<1>1. MasterInit => Inv
  <2>1. MasterInit => AskedInv
    BY DEF MasterInit, FPInit, Init, AskedInv
  <2> QED BY <2>1, InitTypes
<1>2. Inv /\ [Next]_vars => Inv'
  BY TypesStep, AskedStep
<1>3. Inv /\ [Next]_vars => [Asked]_vars
  <2> SUFFICES ASSUME Inv, [Next]_vars, NEW r \in Controls,
                      pc' \in InLoop, BitSet(r), ~BitSet(r)'
               PROVE  asked
    OBVIOUS
  <2>1. pc = "reset"
    BY OnlyResetsClear DEF ResetChanges, Goto
  <2> QED BY <2>1 DEF AskedInv
<1>4. Spec => [][Asked]_vars
  BY <1>1, <1>2, <1>3, PTL DEF Spec
<1> QED BY <1>4 DEF ResetsAreAskedFor

-----------------------------------------------------------------------------
(***************************************************************************)
(* The station is one of the dial.                                         *)
(***************************************************************************)

\* Readings are kept as they are; what is not filled yet is 0 and greater than none.
DialInv ==
  /\ \A i \in 0 .. MAX_SAMPLES - 1 : capSamples[i] \in {0} \cup (MIN_CAP_VALUE .. MAX_CAP_VALUE)
  /\ station \in 0 .. NUMBER_STATIONS
  /\ transferBuffer[INST_GET_STATION] \in 0 .. NUMBER_STATIONS

\* The readings and the station are changed by these steps only.
LEMMA TunerCases ==
  ASSUME [Next]_vars
  PROVE  UNCHANGED <<capSamples, station>> \/ IsNull \/ Sample \/ PowerCycle
<1>1. CASE UNCHANGED vars
  BY <1>1 DEF vars, fpVars, allButPc, background, controls
<1>2. CASE Master
  <2>1. ASSUME NEW b, NEW first, Transfer(b, first) PROVE UNCHANGED <<capSamples, station>>
    BY <2>1 DEF Transfer, background, controls
  <2>2. MasterRestart => UNCHANGED <<capSamples, station>>
    BY DEF MasterRestart, fpVars, allButPc, background, controls
  <2> QED BY <1>2, <2>1, <2>2 DEF Master, FP_begin, GetReply, SendInstruction,
     SendErrorCode
<1>3. HandleByte \/ doEncoder \/ EEPROMDone => UNCHANGED <<capSamples, station>>
  BY DEF HandleByte, SPI_STC_vect, doEncoder, EEPROMDone, background, controls
<1>4. setup => UNCHANGED <<capSamples, station>>
  BY DEF setup, SetupSpi, SetupState, SetupRead, SetupCheck, SetupWriteId, SetupWritePos,
     SetupPublish, SetupVolumeBit, SetupStationBit, SetBit, background, controls
<1>5. ASSUME loop, ~IsNull, ~Sample PROVE UNCHANGED <<capSamples, station>>
  <2>1. Dispatch \/ IsOther \/ IsReset \/ IsError => UNCHANGED <<capSamples, station>>
    BY DEF Dispatch, IsOther, IsReset, IsError, allButPc, background, controls
  <2>2. ResetChanges \/ IsOK \/ SetError \/ Clear => UNCHANGED <<capSamples, station>>
    BY DEF ResetChanges, IsOK, SetError, Clear, background, controls
  <2>3. Volume \/ StorePosition \/ Pulse \/ Display => UNCHANGED <<capSamples, station>>
    BY DEF Volume, StorePosition, Pulse, Display, background, controls
  <2> QED BY <1>5, <2>1, <2>2, <2>3 DEF loop
<1>6. SetupState => UNCHANGED <<capSamples, station>>
  BY <1>4 DEF setup
<1> QED BY <1>1, <1>2, <1>3, <1>4, <1>5, <1>6 DEF Next, Controller, Restart

\* A decision is made on the greatest reading, which is at least the newest one.
LEMMA SampleOnDial ==
  ASSUME Types, DialInv, Sample, SampleValues \subseteq MIN_CAP_VALUE .. MAX_CAP_VALUE,
         NUMBER_STATIONS < 256
  PROVE  DialInv'
<1>0. transferBuffer \in [0 .. 6 -> byte]
  BY DEF Types, BufferType, NUMBER_INSTRUCTIONS
<1> DEFINE samples(v) == [capSamples EXCEPT ![sampleIndex] = v]
           readings(v) == {samples(v)[i] : i \in DOMAIN samples(v)}
           new(v) == mapStation(Max(readings(v)))
<1>1. PICK v \in SampleValues :
        /\ capSamples' = samples(v)
        /\ station' = new(v) \/ station' = station
        /\ transferBuffer' = StationRegister(new(v)) \/ transferBuffer' = transferBuffer
  BY Zenon DEF Sample
<1>2. /\ capSamples \in [0 .. MAX_SAMPLES - 1 -> byte] /\ sampleIndex \in 0 .. MAX_SAMPLES - 1
      /\ v \in MIN_CAP_VALUE .. MAX_CAP_VALUE /\ v \in 0 .. 255
  BY StationAssumption DEF StationAssumption, Types, StationTypes
<1>3. /\ samples(v) \in [0 .. MAX_SAMPLES - 1 -> byte] /\ samples(v)[sampleIndex] = v
      /\ \A i \in 0 .. MAX_SAMPLES - 1 :
           samples(v)[i] \in {0} \cup (MIN_CAP_VALUE .. MAX_CAP_VALUE)
  BY <1>2 DEF DialInv, byte
<1> HIDE DEF samples
<1>4. /\ readings(v) \subseteq 0 .. 255 /\ v \in readings(v)
      /\ readings(v) \subseteq {0} \cup (MIN_CAP_VALUE .. MAX_CAP_VALUE)
  <2>1. DOMAIN samples(v) = 0 .. MAX_SAMPLES - 1
    BY <1>3
  <2>2. ASSUME NEW i \in 0 .. MAX_SAMPLES - 1
        PROVE  samples(v)[i] \in 0 .. 255
               /\ samples(v)[i] \in {0} \cup (MIN_CAP_VALUE .. MAX_CAP_VALUE)
    BY <1>3 DEF byte
  <2>3. v \in readings(v)
    BY <1>2, <1>3, <2>1
  <2>4. ASSUME NEW x \in readings(v)
        PROVE  x \in 0 .. 255 /\ x \in {0} \cup (MIN_CAP_VALUE .. MAX_CAP_VALUE)
    <3>1. PICK i \in 0 .. MAX_SAMPLES - 1 : x = samples(v)[i]
      BY <2>1, Zenon
    <3> QED BY <2>2, <3>1
  <2> HIDE DEF readings
  <2> QED BY <2>3, <2>4
<1> HIDE DEF readings
<1>5. Max(readings(v)) \in readings(v) /\ Max(readings(v)) >= v
  BY <1>4, MaxOfBytes
<1>6. Max(readings(v)) \in MIN_CAP_VALUE .. MAX_CAP_VALUE
  BY <1>2, <1>4, <1>5, StationAssumption DEF StationAssumption
<1>7. new(v) \in 0 .. NUMBER_STATIONS
  BY <1>6, StationOnDial
<1> HIDE DEF new
<1>8. StationRegister(new(v))[INST_GET_STATION] = new(v)
  <2>1. new(v) % 256 = new(v)
    BY <1>7, StationAssumption DEF StationAssumption
  <2> QED BY <1>0, <2>1 DEF StationRegister, INST_GET_STATION, INST_GET_CHANGES
<1> QED BY <1>1, <1>3, <1>7, <1>8 DEF DialInv

\* Every step keeps it.
LEMMA DialStep ==
  ASSUME Types, DialInv, [Next]_vars,
         SampleValues \subseteq MIN_CAP_VALUE .. MAX_CAP_VALUE, NUMBER_STATIONS < 256
  PROVE  DialInv'
<1>0. transferBuffer \in [0 .. 6 -> byte]
  BY DEF Types, BufferType, NUMBER_INSTRUCTIONS
<1>1. CASE Sample
  BY <1>1, SampleOnDial
<1>2. CASE PowerCycle
  <2>1. capSamples' = NoSamples /\ station' = 0 /\ transferBuffer' = NoData
    BY <1>2 DEF PowerCycle
  <2>2. transferBuffer'[INST_GET_STATION] = 0
    BY <2>1 DEF NoData, INST_GET_STATION, NUMBER_INSTRUCTIONS
  <2> QED BY <2>1, <2>2, StationAssumption DEF StationAssumption, DialInv, NoSamples
<1>3. CASE ~Sample /\ ~PowerCycle
  <2>1. capSamples' = capSamples /\ station' \in {0, station}
    BY <1>3, TunerCases DEF IsNull, controls
  <2>2. transferBuffer'[INST_GET_STATION] = transferBuffer[INST_GET_STATION]
    <3>1. Walk \/ doEncoder \/ SetupRead \/ SetupCheck \/ SetupWritePos \/ Pulse
          => transferBuffer'[INST_GET_STATION] = transferBuffer[INST_GET_STATION]
      BY DEF Walk, Panel, doEncoder, SetupRead, SetupCheck, SetupWritePos, Pulse
    <3>2. SetupPublish \/ SetupVolumeBit \/ SetupStationBit \/ ResetChanges
          => transferBuffer'[INST_GET_STATION] = transferBuffer[INST_GET_STATION]
      BY <1>0 DEF SetupPublish, SetupVolumeBit, SetupStationBit, SetBit, ResetChanges,
         INST_GET_STATION, INST_GET_VOL, INST_GET_CHANGES
    <3>3. Volume => transferBuffer'[INST_GET_STATION] = transferBuffer[INST_GET_STATION]
      BY VolumeFlagged DEF Controls, INST_GET_STATION, INST_GET_VOL
    <3> QED BY <1>3, <3>1, <3>2, <3>3, PanelCases
  <2> QED BY <2>1, <2>2, StationAssumption DEF StationAssumption, DialInv
<1> QED BY <1>1, <1>2, <1>3

\* While the capacitor reads within its calibrated range, the station that is kept and
\* the one the master is told are stations of the dial, however the readings vary while
\* they are collected.  The last one is NUMBER_STATIONS itself: map() includes both ends.
THEOREM StationStaysOnDial ==
  ASSUME SampleValues \subseteq MIN_CAP_VALUE .. MAX_CAP_VALUE, NUMBER_STATIONS < 256
  PROVE  Spec => [](/\ station \in 0 .. NUMBER_STATIONS
                    /\ transferBuffer[INST_GET_STATION] \in 0 .. NUMBER_STATIONS)
<1>1. MasterInit => DialInv
  <2> SUFFICES ASSUME MasterInit PROVE DialInv
    OBVIOUS
  <2>1. capSamples = NoSamples /\ station = 0 /\ transferBuffer = NoData
    BY DEF MasterInit, FPInit, Init
  <2>2. transferBuffer[INST_GET_STATION] = 0
    BY <2>1 DEF NoData, INST_GET_STATION, NUMBER_INSTRUCTIONS
  <2> QED BY <2>1, <2>2, StationAssumption DEF StationAssumption, DialInv, NoSamples
<1>2. Types /\ DialInv /\ [Next]_vars => DialInv'
  BY DialStep
<1>3. Spec => [](Types /\ DialInv)
  BY <1>1, <1>2, InitTypes, TypesStep, PTL DEF Spec
<1>4. DialInv => /\ station \in 0 .. NUMBER_STATIONS
                 /\ transferBuffer[INST_GET_STATION] \in 0 .. NUMBER_STATIONS
  BY DEF DialInv
<1> QED BY <1>3, <1>4, PTL
=============================================================================
