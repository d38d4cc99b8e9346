---------------------------- MODULE FPController ----------------------------
(***************************************************************************)
(* The front panel controller, FPController.ino: an AVR that is an SPI     *)
(* slave of the radio.  Three things run on it:                            *)
(*                                                                         *)
(*   - setup() and then loop() for ever, pc naming the next statement;     *)
(*   - SPI_STC_vect, the interrupt routine that gets every byte the master *)
(*     transfers;                                                          *)
(*   - doEncoder, the interrupt routine of the volume knob.                *)
(*                                                                         *)
(* An interrupt routine is one step and comes between any two statements   *)
(* once it is attached; noInterrupts() .. interrupts() is one step too.    *)
(* Statements that touch nothing an interrupt routine touches are merged   *)
(* with the next one.  The master's side is in module FrontPanel.          *)
(***************************************************************************)
EXTENDS Integers, FiniteSetsExt

CONSTANTS
  MIN_POS, MAX_POS,             \* range of the volume knob, 1 and 31
  MAX_SAMPLES,                  \* readings of the tuning capacitor per decision
  CAP_NOISE_TOLERANCE, MIN_CAP_VALUE, MAX_CAP_VALUE, NUMBER_STATIONS,
  SampleValues,                 \* bound: the readings the capacitor gives
  EncoderTurns,                 \* bound: whether the knob is turned at all
  StoredIds, StoredPositions,   \* bound: what an earlier run left in the EEPROM
  ResetTypes,                   \* what builds find behind instructionTypes
  MaxPowerCycles                \* bound: how often the power fails

DEFAULT_ENCODER_POS == (MAX_POS - MIN_POS) \div 2

ASSUME EncoderAssumption ==
  /\ MIN_POS \in Nat \ {0} /\ MAX_POS \in Nat /\ MAX_POS < 255
  /\ DEFAULT_ENCODER_POS \in MIN_POS .. MAX_POS
  /\ EncoderTurns \in BOOLEAN

ASSUME StationAssumption ==
  /\ MAX_SAMPLES \in Nat \ {0}
  /\ CAP_NOISE_TOLERANCE \in Nat /\ NUMBER_STATIONS \in Nat
  /\ MIN_CAP_VALUE \in Nat /\ MAX_CAP_VALUE \in Nat
  /\ MIN_CAP_VALUE < MAX_CAP_VALUE
  /\ SampleValues \subseteq 0 .. 255 /\ SampleValues # {}

ASSUME PowerAssumption ==
  /\ MaxPowerCycles \in Nat
  /\ StoredIds \subseteq 0 .. 255 /\ StoredPositions \subseteq 0 .. 255

-----------------------------------------------------------------------------
INST_NULL          == 0
INST_GET_STATION   == 1
INST_GET_VOL       == 2
INST_STATUS_OK     == 3
INST_STATUS_ERROR  == 4
INST_GET_CHANGES   == 5
INST_RESET_CHANGES == 6
NUMBER_INSTRUCTIONS == 7

CHANGED_VOL_BIT     == 0
CHANGED_STATION_BIT == 1

READ        == 0
WRITE       == 1
NO_TRANSFER == 3
OTHER_TYPE  == 2                \* a number that is none of the three

ASSUME ResetTypesAssumption ==
  ResetTypes \subseteq {READ, WRITE, NO_TRANSFER, OTHER_TYPE}

SPI_STATE_INITIAL       == 0
SPI_STATE_RECEIVE_DATA  == 1
SPI_STATE_TRANSMIT_DATA == 2

EEPROM_ID == 153                \* 0x99
ERASED    == 255                \* what an erased EEPROM cell reads as
NoWrite   == [addr |-> "none", val |-> 0]

byte == 0 .. 255

-----------------------------------------------------------------------------
VARIABLES
  pc,                           \* the statement setup() or loop() runs next
  \* shared with the interrupt routines
  processInstruction, instruction, transferBuffer, spiState, encoderPos,
  SPDR,                         \* the SPI data register
  SPIF,                         \* whether a byte waits for SPI_STC_vect
  \* loop()'s own
  errorCode, oldVolume, station, oldStation, capSamples, sampleIndex,
  changeOccured, leds,
  \* survives a power failure
  eeprom,                       \* the two cells in use
  writing,                      \* the cell being written, if any
  \* of the build and the run
  resetType,                    \* what instructionTypes[6] reads
  powerCycles,
  \* history
  moved,                        \* controls that moved since the bits were reset
  unannounced,                  \* controls that moved since the last pulse
  asked                         \* a byte of INST_RESET_CHANGES was handled since
                                \* loop() was last done with an instruction

port     == <<SPDR, SPIF>>
spi      == <<processInstruction, instruction, spiState, port, asked>>
controls == <<oldVolume, oldStation, capSamples, sampleIndex, changeOccured>>
display  == <<errorCode, leds>>
nvram    == <<eeprom, writing>>
history  == <<moved, unannounced>>
world    == <<resetType, powerCycles>>

\* What setup() leaves alone, but for the history of the volume it publishes.
background == <<controls, station, display, world>>
allButPc == <<spi, transferBuffer, encoderPos, nvram, history, background>>
fpVars   == <<pc, allButPc>>

Goto(from, to) == pc = from /\ pc' = to

\* The controls are named by the instructions that read their registers.
Controls == {INST_GET_VOL, INST_GET_STATION}

\* A step that changes a control's register moves that control.
NoteMoves ==
  LET moving == {r \in Controls : transferBuffer'[r] # transferBuffer[r]}
  IN  moved' = moved \cup moving /\ unannounced' = unannounced \cup moving

-----------------------------------------------------------------------------
NoSamples == [i \in 0 .. MAX_SAMPLES - 1 |-> 0]
NoData == [i \in 0 .. NUMBER_INSTRUCTIONS - 1 |-> 0]
LedsOff == [red |-> 0, green |-> 0]

\* RAM as the C run-time initialises it; the EEPROM as an earlier run left it.
Init ==
  /\ pc = "setupSpi"
  /\ processInstruction = FALSE /\ instruction = INST_NULL
  /\ spiState = SPI_STATE_INITIAL /\ SPDR = 0 /\ SPIF = FALSE
  /\ transferBuffer = NoData /\ encoderPos = MIN_POS
  /\ oldVolume = 255 /\ oldStation = -1 /\ capSamples = NoSamples
  /\ sampleIndex = 0 /\ changeOccured = FALSE /\ station = 0
  /\ errorCode = 0 /\ leds = LedsOff
  /\ eeprom \in [id : StoredIds, pos : StoredPositions] /\ writing = NoWrite
  /\ resetType \in ResetTypes /\ powerCycles = 0
  /\ moved = {} /\ unannounced = {} /\ asked = FALSE

\* The power fails and returns.  A cell being written keeps its old value, has
\* its new one, or is left erased.
PowerCycle ==
  /\ powerCycles < MaxPowerCycles /\ powerCycles' = powerCycles + 1
  /\ pc' = "setupSpi"
  /\ processInstruction' = FALSE /\ instruction' = INST_NULL
  /\ spiState' = SPI_STATE_INITIAL /\ SPDR' = 0 /\ SPIF' = FALSE
  /\ transferBuffer' = NoData /\ encoderPos' = MIN_POS
  /\ oldVolume' = 255 /\ oldStation' = -1 /\ capSamples' = NoSamples
  /\ sampleIndex' = 0 /\ changeOccured' = FALSE /\ station' = 0
  /\ errorCode' = 0 /\ leds' = LedsOff
  /\ IF writing = NoWrite
     THEN UNCHANGED eeprom
     ELSE \E v \in {eeprom[writing.addr], writing.val, ERASED} :
            eeprom' = [eeprom EXCEPT ![writing.addr] = v]
  /\ writing' = NoWrite
  /\ moved' = {} /\ unannounced' = {} /\ asked' = FALSE
  /\ UNCHANGED resetType

-----------------------------------------------------------------------------
(***************************************************************************)
(* Interrupt routines.                                                     *)
(***************************************************************************)

\* The type of an instruction.  instructionTypes has no entry for
\* INST_RESET_CHANGES: the read is out of bounds and gets what lies behind it.
instructionTypes(i) ==
  CASE i \in {INST_NULL, INST_STATUS_OK}                        -> NO_TRANSFER
    [] i \in {INST_GET_STATION, INST_GET_VOL, INST_GET_CHANGES} -> READ
    [] i = INST_STATUS_ERROR                                    -> WRITE
    [] i = INST_RESET_CHANGES                                   -> resetType

\* SPI_STATE_INITIAL: the byte is an instruction.  It is stored before it is
\* found to be invalid.
ReceiveInstruction ==
  /\ spiState = SPI_STATE_INITIAL
  /\ instruction' = SPDR
  /\ IF SPDR >= NUMBER_INSTRUCTIONS
     THEN UNCHANGED <<processInstruction, spiState, SPDR>>
     ELSE LET type == instructionTypes(SPDR) IN
          \/ /\ type = READ
             /\ processInstruction' = FALSE
             /\ SPDR' = transferBuffer[SPDR]
             /\ spiState' = SPI_STATE_TRANSMIT_DATA
          \/ /\ type = WRITE
             /\ processInstruction' = FALSE
             /\ spiState' = SPI_STATE_RECEIVE_DATA
             /\ UNCHANGED SPDR
          \/ /\ type = NO_TRANSFER
             /\ processInstruction' = TRUE
             /\ UNCHANGED <<spiState, SPDR>>
          \/ /\ type = OTHER_TYPE
             /\ UNCHANGED <<processInstruction, spiState, SPDR>>
  /\ UNCHANGED transferBuffer

\* A mutant: the state machine stays where it is.
TransmitData_StateKept ==
  /\ spiState = SPI_STATE_TRANSMIT_DATA
  /\ SPDR' = transferBuffer[instruction]
  /\ UNCHANGED <<spiState, processInstruction, instruction, transferBuffer>>

\* SPI_STATE_TRANSMIT_DATA: the master has clocked the data out.
TransmitData ==
  /\ spiState = SPI_STATE_TRANSMIT_DATA
  /\ SPDR' = transferBuffer[instruction]
  /\ spiState' = SPI_STATE_INITIAL
  /\ UNCHANGED <<processInstruction, instruction, transferBuffer>>

\* SPI_STATE_RECEIVE_DATA: the byte is the data of the instruction.
ReceiveData ==
  /\ spiState = SPI_STATE_RECEIVE_DATA
  /\ transferBuffer' = [transferBuffer EXCEPT ![instruction] = SPDR]
  /\ processInstruction' = TRUE
  /\ spiState' = SPI_STATE_INITIAL
  /\ UNCHANGED <<instruction, SPDR>>

SPI_STC_vect ==
  /\ pc # "setupSpi"
  /\ SPIF /\ SPIF' = FALSE
  /\ ReceiveInstruction \/ TransmitData \/ ReceiveData
  /\ asked' = (asked \/ instruction' = INST_RESET_CHANGES)
  /\ UNCHANGED <<pc, encoderPos, nvram, history, background>>

\* The knob is turned by one position, which wears off at either end.
doEncoder ==
  /\ EncoderTurns
  /\ pc # "setupSpi"
  /\ \/ encoderPos > MIN_POS /\ encoderPos' = encoderPos - 1
     \/ encoderPos < MAX_POS /\ encoderPos' = encoderPos + 1
  /\ UNCHANGED <<pc, spi, transferBuffer, nvram, history, background>>

-----------------------------------------------------------------------------
(***************************************************************************)
(* The EEPROM.  EEPROM.write waits for the last write to be over, starts   *)
(* its own and returns.                                                    *)
(***************************************************************************)

StartWrite(addr, val) ==
  /\ writing = NoWrite
  /\ writing' = [addr |-> addr, val |-> val]
  /\ UNCHANGED eeprom

EEPROMDone ==
  /\ writing # NoWrite
  /\ eeprom' = [eeprom EXCEPT ![writing.addr] = writing.val]
  /\ writing' = NoWrite
  /\ UNCHANGED <<pc, spi, transferBuffer, encoderPos, history, background>>

-----------------------------------------------------------------------------
(***************************************************************************)
(* setup(): the interrupt routines are attached before the state they use  *)
(* is initialised.                                                         *)
(***************************************************************************)

\* Lines 200 to 204.  A byte that has already been received interrupts at once.
SetupSpi ==
  /\ Goto("setupSpi", "setupState")
  /\ processInstruction' = FALSE
  /\ UNCHANGED <<instruction, spiState, port, asked, transferBuffer, encoderPos,
                 nvram, history, background>>

SetupState ==
  /\ Goto("setupState", "setupRead")
  /\ spiState' = SPI_STATE_INITIAL
  /\ UNCHANGED <<processInstruction, instruction, port, asked, transferBuffer,
                 encoderPos, nvram, history, background>>

\* Lines 210 to 213: the position stored last, if any was.
SetupRead ==
  /\ \/ /\ eeprom.id = EEPROM_ID
        /\ encoderPos' = eeprom.pos
        /\ Goto("setupRead", "setupCheck")
     \/ /\ eeprom.id # EEPROM_ID
        /\ Goto("setupRead", "setupWriteId")
        /\ UNCHANGED encoderPos
  /\ UNCHANGED <<spi, transferBuffer, nvram, history, background>>

\* A mutant: only the upper bound is checked.
Invalid_UpperOnly(pos) == pos > MAX_POS

Invalid(pos) == pos > MAX_POS \/ pos < MIN_POS

\* Line 215.  The knob may have been turned since the position was read; a turn between
\* the test and the store is overwritten, as if there had been none.
SetupCheck ==
  /\ Goto("setupCheck", "setupPublish")
  /\ encoderPos' = IF Invalid(encoderPos) THEN DEFAULT_ENCODER_POS ELSE encoderPos
  /\ UNCHANGED <<spi, transferBuffer, nvram, history, background>>

\* A mutant: the default position is stored, but not marked as valid.
SetupWriteId_Forgotten ==
  Goto("setupWriteId", "setupWritePos") /\ UNCHANGED allButPc

SetupWriteId ==
  /\ Goto("setupWriteId", "setupWritePos")
  /\ StartWrite("id", EEPROM_ID)
  /\ UNCHANGED <<spi, transferBuffer, encoderPos, history, background>>

\* Lines 220 and 221.
SetupWritePos ==
  /\ Goto("setupWritePos", "setupPublish")
  /\ StartWrite("pos", DEFAULT_ENCODER_POS)
  /\ encoderPos' = DEFAULT_ENCODER_POS
  /\ UNCHANGED <<spi, transferBuffer, history, background>>

\* toVolume takes a byte.
toVolume(anEncoderPos) == anEncoderPos % 256

bitSet(b, bit) == IF (b \div 2^bit) % 2 = 1 THEN b ELSE b + 2^bit

\* Line 224.
SetupPublish ==
  /\ Goto("setupPublish", "setupVolumeBit")
  /\ transferBuffer' = [transferBuffer EXCEPT ![INST_GET_VOL] = toVolume(encoderPos)]
  /\ NoteMoves
  /\ UNCHANGED <<spi, encoderPos, nvram, background>>

\* Lines 227 to 229: everything has changed.
SetBit(bit) ==
  /\ transferBuffer' = [transferBuffer EXCEPT ![INST_GET_CHANGES] = bitSet(@, bit)]
  /\ UNCHANGED <<spi, encoderPos, nvram, history, background>>

SetupVolumeBit ==
  Goto("setupVolumeBit", "setupStationBit") /\ SetBit(CHANGED_VOL_BIT)

SetupStationBit ==
  Goto("setupStationBit", "dispatch") /\ SetBit(CHANGED_STATION_BIT)

setup ==
  \/ SetupSpi \/ SetupState \/ SetupRead \/ SetupCheck
  \/ SetupWriteId \/ SetupWritePos
  \/ SetupPublish \/ SetupVolumeBit \/ SetupStationBit

-----------------------------------------------------------------------------
(***************************************************************************)
(* loop(), first half: carrying out the instruction the interrupt routine  *)
(* left.  Every test of the else-if chain reads instruction anew, and the  *)
(* interrupt routine may have replaced it in between.                      *)
(***************************************************************************)

Dispatch ==
  /\ \/ processInstruction /\ Goto("dispatch", "isNull")
     \/ ~processInstruction /\ Goto("dispatch", "volume")
  /\ UNCHANGED allButPc

\* A test of the chain that fails.
IsOther ==
  /\ \/ instruction # INST_NULL          /\ Goto("isNull", "isReset")
     \/ instruction # INST_RESET_CHANGES /\ Goto("isReset", "isOK")
     \/ instruction # INST_STATUS_OK     /\ Goto("isOK", "isError")
     \/ instruction # INST_STATUS_ERROR  /\ Goto("isError", "clear")
  /\ UNCHANGED allButPc

IsNull ==
  /\ instruction = INST_NULL /\ Goto("isNull", "clear")
  /\ errorCode' = 0
  /\ station' = 0
  /\ UNCHANGED <<spi, transferBuffer, encoderPos, controls, leds, nvram, history, world>>

\* Line 321; the bits are cleared in line 322, whatever instruction has been
\* received by then.
IsReset ==
  /\ instruction = INST_RESET_CHANGES /\ Goto("isReset", "reset")
  /\ UNCHANGED allButPc

ResetChanges ==
  /\ Goto("reset", "clear")
  /\ transferBuffer' = [transferBuffer EXCEPT ![INST_GET_CHANGES] = 0]
  /\ moved' = {}
  /\ UNCHANGED <<spi, encoderPos, nvram, unannounced, background>>

IsOK ==
  /\ instruction = INST_STATUS_OK /\ Goto("isOK", "clear")
  /\ leds' = LedsOff
  /\ UNCHANGED <<spi, transferBuffer, encoderPos, controls, station, errorCode, nvram,
                 history, world>>

\* Line 327; the code is read from the buffer in line 328.
IsError ==
  /\ instruction = INST_STATUS_ERROR /\ Goto("isError", "setError")
  /\ UNCHANGED allButPc

SetError ==
  /\ Goto("setError", "clear")
  /\ errorCode' = transferBuffer[INST_STATUS_ERROR]
  /\ UNCHANGED <<spi, transferBuffer, encoderPos, controls, station, leds, nvram,
                 history, world>>

\* A mutant: the instruction is left to be carried out again.
Clear_Kept ==
  /\ Goto("clear", "volume")
  /\ asked' = FALSE
  /\ UNCHANGED <<processInstruction, instruction, spiState, port, transferBuffer,
                 encoderPos, nvram, history, background>>

\* Line 332, whatever instruction has been received by now.
Clear ==
  /\ Goto("clear", "volume")
  /\ processInstruction' = FALSE
  /\ asked' = FALSE
  /\ UNCHANGED <<instruction, spiState, port, transferBuffer, encoderPos, nvram,
                 history, background>>

-----------------------------------------------------------------------------
(***************************************************************************)
(* loop(), second half: reading the controls.                              *)
(***************************************************************************)

\* Mutants: a new volume that sets no change bit, a new station that sets the
\* wrong one, and a change that raises no pulse.
VolumeRegister_NoBit(volume) == [transferBuffer EXCEPT ![INST_GET_VOL] = volume]

StationRegister_WrongBit(new) ==
  [transferBuffer EXCEPT ![INST_GET_CHANGES] = bitSet(@, CHANGED_VOL_BIT),
                         ![INST_GET_STATION] = new % 256]

Announce_Forgotten == UNCHANGED changeOccured

\* A control's new value in its register, and its change flagged.
VolumeRegister(volume) ==
  [transferBuffer EXCEPT ![INST_GET_CHANGES] = bitSet(@, CHANGED_VOL_BIT),
                         ![INST_GET_VOL] = volume]

StationRegister(new) ==
  [transferBuffer EXCEPT ![INST_GET_CHANGES] = bitSet(@, CHANGED_STATION_BIT),
                         ![INST_GET_STATION] = new % 256]

Announce == changeOccured' = TRUE

\* Lines 338 to 348, in a critical section.
Volume ==
  /\ Goto("volume", "eeprom")
  /\ IF toVolume(encoderPos) = oldVolume
     THEN UNCHANGED <<oldVolume, transferBuffer, changeOccured>>
     ELSE /\ oldVolume' = toVolume(encoderPos)
          /\ transferBuffer' = VolumeRegister(toVolume(encoderPos))
          /\ Announce
  /\ NoteMoves
  /\ UNCHANGED <<spi, encoderPos, oldStation, capSamples, sampleIndex, station,
                 display, nvram, world>>

\* Line 352.  The knob may have been turned since the critical section.
StorePosition ==
  /\ Goto("eeprom", "sample")
  /\ StartWrite("pos", encoderPos % 256)
  /\ UNCHANGED <<spi, transferBuffer, encoderPos, history, background>>

\* map() of the Arduino core: C division, which truncates towards 0.
mapStation(x) ==
  LET n == (x - MIN_CAP_VALUE) * NUMBER_STATIONS
      d == MAX_CAP_VALUE - MIN_CAP_VALUE
  IN  IF n >= 0 THEN n \div d ELSE -((-n) \div d)

\* A mutant: the index is not reset.
NextSample_NoReset(i) == i + 1

\* sampleIndex after a reading.
NextSample(i) == IF i + 1 = MAX_SAMPLES THEN 0 ELSE i + 1

\* Lines 355 to 382, the change of station in a critical section: a decision is
\* made when MAX_SAMPLES readings are in, and only if they are close together.
Sample ==
  /\ Goto("sample", "pulse")
  /\ \E stationVal \in SampleValues :
       LET samples == [capSamples EXCEPT ![sampleIndex] = stationVal]
           readings == {samples[i] : i \in DOMAIN samples}
           decide == sampleIndex + 1 = MAX_SAMPLES
                     /\ Max(readings) - Min(readings) < CAP_NOISE_TOLERANCE
           new == mapStation(Max(readings))
       IN  /\ capSamples' = samples
           /\ sampleIndex' = NextSample(sampleIndex)
           /\ station' = IF decide THEN new ELSE station
           /\ IF decide /\ new # oldStation
              THEN /\ oldStation' = new
                   /\ transferBuffer' = StationRegister(new)
                   /\ Announce
              ELSE UNCHANGED <<oldStation, transferBuffer, changeOccured>>
  /\ NoteMoves
  /\ UNCHANGED <<spi, encoderPos, oldVolume, display, nvram, world>>

\* Lines 390 to 395: a pulse on FP_CHANGE_INTR.
Pulse ==
  /\ Goto("pulse", "display")
  /\ changeOccured' = FALSE
  /\ unannounced' = IF changeOccured THEN {} ELSE unannounced
  /\ UNCHANGED <<spi, transferBuffer, encoderPos, oldVolume, oldStation, capSamples,
                 sampleIndex, station, display, nvram, moved, world>>

-----------------------------------------------------------------------------
\* errorCodeMap: 0 is off, 1 on and 2 blinking.  For a code it has no row for,
\* error() shows whatever lies behind it.
errorModes(code) ==
  IF code \in 0 .. 8 THEN {[red |-> code \div 3, green |-> code % 3]}
  ELSE [red : 0 .. 2, green : 0 .. 2]

Display ==
  /\ Goto("display", "dispatch")
  /\ leds' \in errorModes(errorCode)
  /\ UNCHANGED <<spi, transferBuffer, encoderPos, controls, station, errorCode,
                 nvram, history, world>>

loop ==
  \/ Dispatch \/ IsOther \/ IsNull \/ IsReset \/ ResetChanges \/ IsOK
  \/ IsError \/ SetError \/ Clear
  \/ Volume \/ StorePosition \/ Sample \/ Pulse \/ Display
=============================================================================
