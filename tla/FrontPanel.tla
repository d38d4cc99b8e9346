----------------------------- MODULE FrontPanel -----------------------------
(***************************************************************************)
(* The front panel controller and the SPI master that talks to it: the     *)
(* radio (getVolume, getChanges) or the sketches of FPControllerTest and   *)
(* FPControllerInCircTest.  The wire exchanges SPDR with the master's byte *)
(* and interrupts the controller.  Chip select frames nothing: only the    *)
(* number of bytes tells the two sides where an instruction begins.        *)
(***************************************************************************)
EXTENDS FPController

CONSTANTS
  Instructions,    \* bound: the instructions the master uses
  ErrorCodes,      \* bound: the error codes it sends
  Overruns         \* whether it may transfer before the last byte is handled

ASSUME MasterAssumption ==
  /\ Instructions \subseteq byte
  /\ ErrorCodes \subseteq byte
  /\ Overruns \in BOOLEAN

VARIABLES
  phase,           \* what the master transfers next
  inst,            \* the instruction it is in the middle of, or was last
  \* history
  beginSent,       \* the byte in SPDR is the INST_NULL of FP_begin
  inStep           \* FP_begin was handled, and neither side has slipped since

master == <<phase, inst>>
steps  == <<beginSent, inStep>>
vars == <<fpVars, master, steps>>

FPInit == Init

MasterInit ==
  /\ FPInit
  /\ phase = "begin" /\ inst = INST_NULL
  /\ beginSent = FALSE /\ inStep = FALSE

-----------------------------------------------------------------------------
(***************************************************************************)
(* The master.                                                             *)
(***************************************************************************)

\* SPI.transfer(b).  A byte that arrives before the previous one was handled
\* replaces it.
Transfer(b, isBegin) ==
  /\ SPIF => Overruns
  /\ SPDR' = b
  /\ SPIF' = TRUE
  /\ beginSent' = (isBegin /\ ~SPIF)
  /\ inStep' = (inStep /\ ~SPIF)
  /\ UNCHANGED <<pc, processInstruction, instruction, spiState, asked, transferBuffer,
                 encoderPos, nvram, history, background>>

\* FP_begin(): "Send null instruction to reset".
FP_begin ==
  /\ phase = "begin"
  /\ Transfer(INST_NULL, TRUE)
  /\ phase' = "idle" /\ inst' = INST_NULL

\* The first byte of a frame; which bytes follow is settled by the table of
\* instructions (FPController.ino:9).
SendInstruction(i) ==
  /\ phase = "idle"
  /\ Transfer(i, FALSE)
  /\ inst' = i
  /\ phase' = CASE i \in {INST_GET_STATION, INST_GET_VOL, INST_GET_CHANGES} -> "reply"
                [] i = INST_STATUS_ERROR -> "data"
                [] OTHER -> "idle"

\* SPI.transfer(0x00): the reply is what SPDR held.
GetReply ==
  /\ phase = "reply"
  /\ Transfer(0, FALSE)
  /\ phase' = "idle" /\ UNCHANGED inst

SendErrorCode(c) ==
  /\ phase = "data"
  /\ Transfer(c, FALSE)
  /\ phase' = "idle" /\ UNCHANGED inst

\* The master restarts, perhaps in the middle of a frame.
MasterRestart ==
  /\ phase # "begin"
  /\ phase' = "begin"
  /\ inStep' = FALSE
  /\ UNCHANGED <<inst, beginSent, fpVars>>

Master ==
  \/ FP_begin \/ GetReply \/ MasterRestart
  \/ \E i \in Instructions : SendInstruction(i)
  \/ \E c \in ErrorCodes : SendErrorCode(c)

-----------------------------------------------------------------------------
(***************************************************************************)
(* The controller, with the history of the two sides being in step.        *)
(***************************************************************************)

\* The controller is in step once it has handled an FP_begin.
HandleByte ==
  /\ SPI_STC_vect
  /\ inStep' = (inStep \/ beginSent)
  /\ beginSent' = FALSE
  /\ UNCHANGED master

\* setup() resets spiState after the interrupt routine was attached, and a power
\* failure resets it at any time.
Restart ==
  /\ SetupState \/ PowerCycle
  /\ inStep' = FALSE
  /\ UNCHANGED <<master, beginSent>>

Controller ==
  \/ HandleByte
  \/ Restart
  \/ (doEncoder \/ EEPROMDone \/ loop \/ (setup /\ pc # "setupState"))
     /\ UNCHANGED <<master, steps>>

Next == Master \/ Controller

Spec == MasterInit /\ [][Next]_vars

\* The AVR executes its statements, serves the SPI interrupt and completes the
\* write of an EEPROM cell.  Nothing is assumed of the knob or of the master.
FairSpec ==
  /\ Spec
  /\ WF_vars((loop \/ (setup /\ pc # "setupState")) /\ UNCHANGED <<master, steps>>)
  /\ WF_vars(SetupState /\ Restart)
  /\ WF_vars(EEPROMDone /\ UNCHANGED <<master, steps>>)
  /\ WF_vars(HandleByte)

-----------------------------------------------------------------------------
(***************************************************************************)
(* Properties.                                                             *)
(***************************************************************************)

InSetup == {"setupSpi", "setupState", "setupRead", "setupCheck", "setupWriteId",
            "setupWritePos", "setupPublish", "setupVolumeBit", "setupStationBit"}
InLoop == {"dispatch", "isNull", "isReset", "reset", "isOK", "isError", "setError",
           "clear", "volume", "eeprom", "sample", "pulse", "display"}

\* Every variable has its type; no index leaves its array.
TypeOK ==
  /\ pc \in InSetup \cup InLoop
  /\ processInstruction \in BOOLEAN /\ SPIF \in BOOLEAN
  /\ instruction \in byte /\ SPDR \in byte
  /\ spiState \in {SPI_STATE_INITIAL, SPI_STATE_RECEIVE_DATA, SPI_STATE_TRANSMIT_DATA}
  /\ spiState # SPI_STATE_INITIAL => instruction < NUMBER_INSTRUCTIONS
  /\ transferBuffer \in [0 .. NUMBER_INSTRUCTIONS - 1 -> byte]
  /\ encoderPos \in byte /\ oldVolume \in byte
  /\ station \in Int /\ oldStation \in Int
  /\ capSamples \in [0 .. MAX_SAMPLES - 1 -> byte]
  /\ sampleIndex \in 0 .. MAX_SAMPLES - 1
  /\ changeOccured \in BOOLEAN /\ asked \in BOOLEAN /\ errorCode \in byte
  /\ leds \in [red : 0 .. 2, green : 0 .. 2]
  /\ eeprom \in [id : byte, pos : byte]
  /\ writing \in [addr : {"none", "id", "pos"}, val : byte]
  /\ phase \in {"begin", "idle", "reply", "data"} /\ inst \in byte

\* However setup() was interrupted, by the knob or by a power failure in the
\* middle of writing the EEPROM, loop() runs with the knob in its range, the
\* master is never told a volume outside it, and what is written is a position in
\* the range, into an EEPROM that is marked as valid.
VolumeInRange ==
  pc \in InLoop => /\ encoderPos \in MIN_POS .. MAX_POS
                   /\ transferBuffer[INST_GET_VOL] \in MIN_POS .. MAX_POS
                   /\ eeprom.id = EEPROM_ID
                   /\ writing = NoWrite \/ writing \in [addr : {"pos"}, val : MIN_POS .. MAX_POS]

\* FP_begin brings the two sides into step from wherever they were, and they
\* stay there: whenever no byte is waiting, the controller expects exactly what
\* the master transfers next, of the same instruction.
Expected ==
  CASE phase = "reply" -> SPI_STATE_TRANSMIT_DATA
    [] phase = "data"  -> SPI_STATE_RECEIVE_DATA
    [] OTHER           -> SPI_STATE_INITIAL

FramesAgree ==
  inStep /\ ~SPIF => /\ spiState = Expected
                     /\ phase \in {"reply", "data"} => instruction = inst

\* A control that moved since the change bits were reset has its bit set, so a
\* master that finds the bit clear has missed nothing up to the last reset.
BitOf(r) == IF r = INST_GET_VOL THEN CHANGED_VOL_BIT ELSE CHANGED_STATION_BIT

BitSet(r) == (transferBuffer[INST_GET_CHANGES] \div 2^BitOf(r)) % 2 = 1

ChangedMeansBit == pc \in InLoop => \A r \in moved : BitSet(r)

\* loop() throws reports of changes away only when it was asked to, and once for
\* each time: a bit goes out only between a byte of INST_RESET_CHANGES being
\* handled and the end of the pass that carries it out.  The flag and the
\* instruction are read in different statements, and the interrupt routine writes
\* both.  That the instruction loop() was asked for is still the last one cannot be
\* said: a GET_VOL handled between the test of line 321 and the store of line 322
\* is followed by the reset.
ResetsAreAskedFor ==
  [][\A r \in Controls :
       pc \in InLoop /\ pc' \in InLoop /\ BitSet(r) /\ ~BitSet(r)' => asked]_vars

\* A reply that is outdated by the time the master gets it has its change bit set,
\* whatever loop() was doing.  The bits may well be reset between the register being
\* loaded into SPDR and the master clocking it out, if loop() had found
\* INST_RESET_CHANGES before; but then the reply is not outdated yet, and once it is,
\* loop() cannot pass that test again while the master waits for the reply.
OutdatedReplyIsFlagged ==
  /\ inStep /\ ~SPIF /\ phase = "reply" /\ inst \in Controls
  /\ pc \in InLoop /\ SPDR # transferBuffer[inst]
  => BitSet(inst)

\* No change of a position the master can read goes without a pulse on
\* FP_CHANGE_INTR in the same pass of loop().
PulseCoversChange == pc = "display" => unannounced = {}

\* When the knob is left alone and the power stays, its position gets stored, in
\* an EEPROM marked as valid.
PositionGetsStored ==
  \A p \in MIN_POS .. MAX_POS :
    <>[](encoderPos = p) => []<>(eeprom = [id |-> EEPROM_ID, pos |-> p])

-----------------------------------------------------------------------------
\* "INST_STATUS_ERROR  Used to indicate an error status. One byte with the error
\* code is transmitted" (FPController.ino:17): once the code has been received and
\* the master leaves the controller alone, the error status is indicated.
ErrorIsIndicated ==
  \A c \in ErrorCodes \ {0} :
    <>[](/\ inStep /\ phase = "idle" /\ inst = INST_STATUS_ERROR
         /\ transferBuffer[INST_STATUS_ERROR] = c)
      => <>[](errorCode = c)
=============================================================================
