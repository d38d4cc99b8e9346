# InternetRadioMinibox in TLA+

An internet radio built from a Feather M0 with a WINC1500 WiFi module, a VS1053
MP3 codec, an external SPI RAM used as a ring buffer, and a front panel with a
microcontroller of its own. This directory holds TLA+ models of its software,
the TLC configurations that check them on small instances, and proofs, checked
by TLAPS, that the most important properties hold for every size.

Paths in this file are relative to `src/software/` unless they start with `src/`.

## 1. The system

```
 access point, name server, station
        |
     WINC1500  ---- events, packets ---->  WiFi101: m2m_hif, socket.c, WiFiSocket, WiFi
     (chip)    <--- requests, bus ------          |            |
                                          WiFiClient     HttpClient
                                                  \          /
   InternetRadio.ino:   setup() -> connectWLAN() -> GET -> status line -> loop()
                                                                            |
 WiFiClient --> mp3Buffer --> ring buffer --> mp3Buffer --> VS1053          |
                (32 bytes)    (SPI RAM)       (32 bytes)    (codec)   <-----+
                                          |
                                     SPI (master)
                                          |
                             FPController.ino (AVR, SPI slave)
                       SPI_STC_vect | loop() | doEncoder | EEPROM
                              knob, tuning capacitor, two LEDs
```

### Inventory

**StreamingBuffer** (`libraries/StreamingBuffer`). State: `_head`, `_tail`, both
-1 while it is empty, `_size`, and the caller's array. Operations: `begin`,
`put`, `get`, `availableData`, `availableSpace`, `bufferFull`. Only ever called
from one thread. Hard: indices with two meanings, wrap-around, and a `put` on a full
ring, which has moved the head by the time it is refused. Correct when it is a
FIFO whose two indices agree on what empty means.

**SPIRingBuffer** (`libraries/SPIRingBuffer`). The same algorithm over a 23K256
RAM chip, 32 KiB behind an SPI bus. State: the indices, `operationMode`
(a cache of the chip's mode register), and, in the chip, the contents, the mode
and the place in the running transaction. Operations: `begin`, `reset`,
`put`, `get`, each of the last two being up to seven transfers of a byte. Hard:
the chip survives a reset of the microcontroller, the cache does not; a reset can
come in the middle of a transaction, with the chip left selected. Correct when
its caller cannot tell it from a StreamingBuffer.

**InternetRadio `loop()`** (`InternetRadio/InternetRadio.ino:345-445`). State:
`bufferInitialized`, `skip`, `mp3Buffer` and the locals `maxBytesToRead` and
`nRead`. Reads the client (`available`, `read`), calls the ring, and feeds the codec
(`readyForData`, `playData`). Hard: what it looks at (space, bytes available,
DREQ) is used after other calls have run; one buffer is used in two directions; a
start-up phase that ends only when the ring is exactly full. Correct when what is
played is what was read, in order, each byte once; when neither ring nor codec
overflows; and when it goes on playing.

**InternetRadio `setup()`, `connectWLAN()` and the HTTP request**
(`InternetRadio.ino:188-333, 453-475`). State: where it is, `nTries`, `nAttempts`. Up to
20 tries to start the codec, a wait for it, up to 30 polls for the WLAN, one GET, one
status line; then `loop()`, whatever came of it. Hard: no step that fails keeps the next
from being taken, each of them in a state its author did not think of, and an answer
may come after the wait for it. Correct when it comes to its end, and when what it
tells itself about the connection is true by then.

**FPController** (`FPController/FPController.ino`). State shared by three threads
of control: `instruction`, `processInstruction`, `spiState`, `transferBuffer` (seven
registers, indexed by instruction), `encoderPos`; `loop()`'s own samples,
station, volume and LED state; two cells of EEPROM. Operations: `setup`,
`loop`, `SPI_STC_vect`, `doEncoder`. Hard: the interrupt routine changes what
`loop()` is testing; nothing frames an instruction but the count of bytes;
interrupts are attached before their state is initialised; EEPROM writes outlive
the call and can be cut short. Correct when the two ends of the wire agree on
where an instruction begins, no change of a control is lost, and the volume is
always a volume.

**SPI masters of the front panel** (`InternetRadio.ino` `getVolume`,
`getChanges`; `test/FPControllerTest`, `test/FPControllerInCircTest`). They send
an instruction and, for some, exchange one byte more. They can be reset in the
middle of a frame.

**Lemon_VS1053** (`libraries/Lemon_VS1053_Library`). For `loop()`: `readyForData`
(DREQ) and `playData`. The rest configures the chip.

**WiFi101 client and socket** (`libraries/WiFi101/src/WiFiClient.cpp`,
`utility/WiFiSocket.cpp`, `WiFi.cpp`). State: per socket its state, a buffer, and where in
the chip's packet the rest of its data is; the client's socket number; of the station
`_init`, `_dhcp`, `_status`, `_mode`, `_localip`, `_resolve`. Operations: `connect`, `available`,
`read`, `write`, `stop`; `init`, `begin`, `status`, `hostByName`, `disconnect`; and the
handlers of the chip's events. Hard: every call handles events, a handler may close
sockets, which handles events again, so that a call finds its socket closed,
forgotten or taken again when it goes on; replies outlive the request they answer;
what an event means is decided by what the library believes to be doing when
it is handled. Correct when a reader gets the bytes of the present connection, in order
and each once, when no socket is lost, and when a lost WLAN is noticed.

**WiFi101 firmware interface** (`driver/source/m2m_hif.c`, `m2m_wifi.c`, `nmspi.c`,
`nmasic.c`, `nmdrv.c`, `socket/source/socket.c`, `bsp`, `bus_wrapper`). State:
`u8Interrupt`, the pin's interrupt, `u8HifRXDone`, `hif_receive_blocked`; the sockets'
sessions and pending requests; `gu8Crc_off`, the remembered chip id. Operations: the
interrupt, `hif_handle_isr`, `hif_receive`, RX done, the requests of `socket.c`, and the
start of the chip. Hard: one packet at a time, announced by one interrupt that
must not be lost; a packet may be left in the chip, which blocks every other event;
accesses to the bus fail in between; a start that fails leaves driver and chip in some
state, and is tried again from it. Correct when interrupts and packets match, when
what is left in the chip can be read or discarded, and when driver and chip agree on how
to talk.

**ArduinoHttpClient** (`libraries/ArduinoHttpClient/src/HttpClient.cpp`). State:
`iState`, `iStatusCode`, how much of the prefix has matched. Used: `get`,
`responseStatusCode`. Hard: a parser that reads while the connection may drop and
informational responses come first. Correct when the code reported is the one of the
response's final status line.

**ArduinoSerialCommand, other test sketches, hardware**: not modelled, see section 8.

### How components interact

`setup()` and `loop()` run one after the other in one thread, which calls the ring, the
client and the codec synchronously. The library has no thread of its own: packets of the
chip, announced by an interrupt that only counts, are handled inside its calls; chip,
access point and server act between any two steps. The client's socket, opened in
`setup()`, is what `loop()` reads from; `ClientStream` is the contract between the two
sides. The ring drives the RAM chip over SPI. A master and the front panel controller
share nothing but the SPI data register, which the wire exchanges and whose arrival
interrupts the controller, and a line that pulses when a control has changed.

## 2. The modules

| Module | What it is | Code |
|---|---|---|
| `ByteFifo` | abstract specification: a bounded FIFO of bytes, with two contracts for a put on a full one | what the comments of the buffers promise, and what they deliver |
| `StreamingBuffer` | the ring over an array | `libraries/StreamingBuffer` |
| `SPIRingBuffer` | the ring over the RAM chip, byte by byte, with resets | `libraries/SPIRingBuffer` |
| `ClientStream` | abstract specification: what a reader may rely on of a `WiFiClient` | what `loop()` and `HttpClient` use |
| `RadioLoop` | `loop()`, the network and the codec around a ring | `InternetRadio.ino:345-445`, `Lemon_VS1053.cpp` |
| `Hif` | the host interface of the WiFi chip: interrupts, packets, RX done, calls within calls | `m2m_hif.c` |
| `WiFiSocket` | a client and its sockets over `Hif`: connect, read, write, stop, events, replies | `WiFiClient.cpp`, `WiFiSocket.cpp`, `socket.c` |
| `ChipStart` | `m2m_wifi_init()`: the start of the chip and of the driver | `m2m_wifi.c`, `nmdrv.c`, `nmasic.c`, `nmspi.c`, `nm_bsp_arduino.c` |
| `WiFiStation` | joining, leaving, resolving, and the events that report on them | `WiFi.cpp` |
| `HttpClient` | the request and the status line of the response | `HttpClient.cpp` |
| `Startup` | `setup()` around the last three | `InternetRadio.ino:188-333, 453-475` |
| `FPController` | the front panel controller | `FPController/FPController.ino` |
| `FrontPanel` | the controller composed with an SPI master | the above, and the masters |
| `MC...` | `EXTENDS` one of the above, for the `.cfg` files | |
| `...Proofs` | theorems and proofs about the module of that name (`WiFiSessionProofs` and `WiFiStreamProofs`: about `WiFiSocket`) | |

```
 Startup --extends--> HttpClient --extends--> WiFiStation --extends--> ChipStart
    |                                                      WiFiSocket --extends--> Hif
    |implements                                                |implements
    +-----------------------> ClientStream <-------------------+
                                    ^
                                    | its steps are the environment's
 RadioLoop -------------------------+
    |instantiates
    v
 StreamingBuffer --implements--> ByteFifo
    ^
    | implements (refinement mapping headSeen, tailSeen)
 SPIRingBuffer
                              FrontPanel --extends--> FPController
```

So the path of a byte is covered from end to end by specifications that meet:
`WiFiSocket` (in detail) and `Startup` (with everything that happens before `loop()`)
both implement `ClientStream`; the network of `RadioLoop` is made of `ClientStream`'s own
steps, `Arrive` and `Drop`, with no restriction but the length of the stream, so that what
is shown of `loop()` is shown for every such client; it
drives a `StreamingBuffer` within the promised contract of `ByteFifo`; and
`SPIRingBuffer`, which the radio really uses, implements `StreamingBuffer`.

### State and actions

*StreamingBuffer.* One action per call (`begin`, `put(d)`, `get`), as the class
is only called from one thread; `ret` is the returned value. The storage is
arbitrary at first: it belongs to the caller. `Unread` is the contents as a sequence,
the refinement mapping to `ByteFifo`.

*SPIRingBuffer.* `put` and `get` run up to their access to the chip; `setMode`,
`access` and `transfer` are the transactions, one step per byte; `putDone` and
`getDone` are what follows. The chip (`selected`, `received`, `memory`,
`ramMode`) counts the bytes since it was selected, which is all it knows of a
transaction. `Restart` resets the microcontroller between any two steps. The chip is
not in the repository and is modelled from how the code drives it. The mapping to
`StreamingBuffer` moves a put to the moment its byte reaches the chip
(`Written`): before it the old head counts, after it the new head and tail do, and a
reset there leaves the ring as `begin` would.

*RadioLoop.* `pc` names the next statement of `loop()`. Statements that read the
environment or change the ring are steps of their own: the look (`Fill`,
`Steady`), the read (`FillRead`, `SteadyRead`), each put (`FillPut`, `SteadyPut`),
the end of the loop of puts (`FillDone`, `SteadyDone`), the computation of `skip`
(`ComputeSkip`), the look at DREQ (`Play`), each get (`PlayGet`) and the transfer
(`PlayData`). The environment acts in between: `Deliver` and `Disconnect`, which are
`ClientStream`'s `Arrive` and `Drop`, and `Decode`.
A byte of the stream is its position in it, so that loss, doubling and reordering
are visible. `Init` is the state at the end of a `setup()`, with or without a
connection.
The C++ statement `skip = (...) ? (skip++)%2 : 0` has two unordered writes; which of
them lands last is a choice of the build, `incrementLast`, fixed for a behaviour.

*Hif and WiFiSocket.* The library is a stack of calls, `todo`, innermost first; a step is
what the innermost call does up to its next handling of events. `hif_handle_isr` pushes
`isr`, `hif_isr` pushes the callback and `isrEnd`; callbacks that close sockets
push handlings of events in turn. `Access` is an access to the bus, which may fail;
`lasting` remembers whether one did that no later read makes up for. The chip is `queue`,
`rx` (the packet on offer), `newInterrupt` (bit 0 of the register) and `peers`, its
end of each socket. A byte is its session and its position, so that a byte of an
earlier connection would be seen. `got` is what was read in this session. `misled` is
history: a reply to the `connect()` of one session has changed the state of another.
`send` may fail any number of times, as `write()` tries it again: `MaxFailures` bounds the
other failures only.

*ChipStart.* `step` names the next register access of `m2m_wifi_init()`. `noChecksum` is
what the chip expects, `gu8Crc_off` what the driver does; an access can only
succeed when they agree (`Understands`). A read that fails returns whatever was on the
stack, which is why `nm_read_reg(P)` goes on when the read fails; a write that fails
is reported as a success.

*WiFiStation, HttpClient, Startup.* `pc` names the next statement of `setup()` with the
calls it makes. The chip's reports wait in `events` and are handled in any call that
handles events (`HandlesEvents`). `link` and `asked` are the chip's own state. `_dhcp` is
`initialised`: both are set where `init()` succeeds, and nothing resets them. Until then
events may be handled already, after a start that failed late, and the report of the access
point alone makes the station connected (`HandleConnected`). `print` writes a piece of the
request; when the chip does not take it, `printAgain` is the next round of `write()`'s loop. The
client is what `ClientStream` sees of it. A response is a sequence of tokens, each of
which stands for characters the parser treats alike.

*FPController.* `pc` names the next statement of `setup()` or `loop()`; a critical
section is one step; statements that touch nothing an interrupt routine touches are
merged with their neighbour. `SPI_STC_vect` and `doEncoder` are one step each, and can
come between any two of the others once attached. Each test of the `else if`
chain is a step, as each reads `instruction` anew, and what a test leads to is another
(`IsReset` and `ResetChanges`, `IsError` and `SetError`). `StartWrite` and `EEPROMDone` are
the two ends of `EEPROM.write`; a `PowerCycle` between them leaves the old value, the
new one, or an erased cell. `moved` and `unannounced` are history: which controls
moved since the change bits were reset, and since the last pulse; so is `asked`: a byte of
`INST_RESET_CHANGES` was handled since `loop()` was last done with an instruction.

*FrontPanel.* `phase` is what the master transfers next. `Transfer` is the wire:
SPDR gets the byte, SPIF is set. With `Overruns` a byte may replace one that was
not handled yet. `inStep` is history: `FP_begin` has been handled and neither side has
been reset, nor any byte overwritten, since.

## 3. What is checked

| Run | States | What it shows |
|---|---|---|
| `StreamingBuffer` | 438 | the indices agree on empty; whatever the sequence of calls, the ring is the *delivered* FIFO |
| `SPIRingBuffer` | 18 356 | with a reset between any two bytes, the chip is in byte mode whenever data is transferred, and the ring implements StreamingBuffer |
| `RadioLoop` | 18 488 | the stream is played in order, each byte once; no buffer over- or underflows; the ring gets loaded to its last byte, nothing plays before, and then all that was read is played; the ring is the *promised* FIFO |
| `WiFiSocket` | 475 thousand | with events within events, replies of earlier sessions, a lost WLAN and failures of the bus: the reader gets the stream of its session; a reply never overwrites unread bytes; no socket leaks and blocked events can be unblocked, until a late reply to `connect()` is taken for another connection's; every interrupt leads to its packet; calls return, but for a write that the chip never takes, and a reader that goes on reading gets all, unless a failure happened that nothing makes up for |
| `Startup` | 252 thousand | whatever chip, access point and servers do, `setup()` ends or stays in one of five named places; the status code is the response's; a radio that looks connected is in the mode to notice the loss and, once `init()` has succeeded, is connected or will learn that it is not; the station becomes connected in the wait of `begin()` only; driver and chip agree on checksums; `loop()` gets a `ClientStream` |
| `FrontPanelSpi` | 1.4 million | after `FP_begin`, master and controller agree on the frame, through master restarts, overruns, invalid instructions and the unordered start of `setup()`; no index leaves its array |
| `FrontPanelControls` | 3.5 million | a moved control has its change bit set; an outdated reply is flagged; every change is announced by a pulse in the same pass; change bits are reset only after a byte that asks for it was handled, and once for each time |
| `FrontPanelPower` | 79 thousand | the volume is in its range through power failures, erased and half-written cells, and while `loop()` runs the EEPROM has the id and gets no position outside the range; the knob's position gets stored |
| `StreamingBufferRefusal` | violation | a put on a full ring loses all bytes but one |
| `RadioLoopSkip` | violation | a build exists in which no transfer is ever skipped |
| `FrontPanelResetType` | violation | `INST_RESET_CHANGES` has no entry in `instructionTypes`, and can desynchronise the wire |
| `FrontPanelLostError` | violation | an error code that arrives while an instruction is carried out is never indicated |

For each property of a passing run `PROJECT.json` names a mutant: a
plausible bug in one definition (an index that does not wrap, a look at too little
space, a state that is not reset) under which that run finds the property violated.

### Bounds, and why they are enough

* `StreamingBuffer`: four slots, two byte values, every initial storage. All positions
  of head and tail, wrapped and not, empty, one short of full and full. The proofs
  cover every size.
* `SPIRingBuffer`: two pages of two bytes. Both address bytes matter, the high one
  changes in the middle of the ring, and the ring wraps. A restart is
  possible at every step and any number of times.
* `RadioLoop`: a ring of 10, transfers of at most 3, a codec FIFO of 4, a stream of 15.
  `THRESHOLD` is 2, so a ring of one byte is below it; 3 does not divide 10, so the last
  transfer that fills the ring is a short one; the stream is longer than the ring, which
  wraps; the FIFO holds more than a transfer but not two, so DREQ rises and falls with
  bytes left. `RadioLoopSkip` ends the stream at 12, which is enough to fall below the
  threshold for good.
* `WiFiSocket`: two sockets and three sessions, so that a socket is used again while
  replies to its first session are on their way; a buffer of one byte for packets of up
  to two, so that part of a packet stays in the chip and blocks events; reads of up to
  two bytes, so that a read goes around its loop; a stream of two bytes per session;
  one loss of the WLAN and one failure of the bus, each at any point, besides any number
  of pieces of a write that the chip does not take. A bus that fails for good is beyond this
  bound: `hif_handle_isr` (`m2m_hif.c:643`) would try to handle an interrupt for ever.
* `Startup`: `maxTries` and `maxAttempts` of 2 for 20 and 30 (a first, a repeated and a
  last one), a request of two writes, two failures of the bus, and nine responses: final
  status lines, informational ones with and without the empty line that ends them,
  lines that end too early, no status line, a line that breaks off. Starts of the chip
  are tried again as often as `setup()` does.
* `FrontPanelSpi`: two samples per decision, so that `sampleIndex` goes round; the
  instructions are one of each kind of frame (a READ, a WRITE, an invalid one); the knob
  and the tuner stand still, as neither touches the frame.
* `FrontPanelControls`: three positions of the knob, two readings of the capacitor
  that map to different stations, one sample per decision; a master that reads both
  registers and resets the bits. No power failures and no overruns: those are the
  subject of the other two runs.
* `FrontPanelPower`: EEPROM cells that are valid, erased, and hold a position outside
  the range, one power failure at any point, a knob with three positions, a master
  that sends nothing but `FP_begin`.
* `MaxPowerCycles`, `MAX_SAMPLES`, `SampleValues`, `Instructions`, `ErrorCodes`,
  `StoredIds`, `StoredPositions`, `EncoderTurns`, `Overruns`, `StreamLength`, `MaxRead`,
  `MaxChunk`, `MaxSessions`, `MaxLinkLosses`, `MaxFailures`, `Responses` and
  `RequestPieces` are the
  bounds of the models; everything else has its value from the code or is a size.

### Fairness

* `RadioLoop!FairSpec`: `WF(loop)`, as the Arduino core calls `loop()` for ever and no
  call in it waits for anything that may not come; `WF(Decode)`, as the codec runs
  on its own clock. Nothing is assumed of the network: the stream may stall or
  the connection drop at any time, and `PlaysTheStream` allows for it.
* `WiFiSocket!FairSpec`: `WF(library)`, as a call that was made runs on; `SF(reader)`, as
  the sketch reads again and again whatever else it does; `SF(connectFails)`, as the wait
  of `connect()` looks at a clock and ends after 20 seconds; `WF(OfferPacket)`, as the
  chip offers a packet it has. Nothing is assumed of the peers, which may be silent for
  ever, nor of the WLAN, nor that the chip ever takes what `write()` sends: `CallsReturn` and
  `BytesReachTheReader` make an exception of a write that is in its retries for good
  (`RetriesForEver`), without which both are false.
* `Startup!FairSpec`: `WF(setup)`, with every wait that looks at a clock taken as one that
  may end by its timeout, and `SF(pause(TRUE))` for the wait of `responseStatusCode`, which
  goes on with every byte that arrives. `setup` leaves out the wait for the codec, whose
  DREQ may never rise, and the wait for the eFuses unless the chip has set them
  and can be understood; and it assumes nothing of a call while an event is announced that
  was not handled yet (`EventsPending`), as `hif_handle_isr` does not return before it is.
  Nothing is assumed of chip, access point and servers, nor of a piece of the request, which
  the chip may refuse for ever. So the waits without a limit that `SetupEnds` names are five:
  for the codec, for the eFuses, for a register to be read back, for the chip to take a piece
  of the request, and for an announced event to be handled.
* `FrontPanel!FairSpec`: the AVR executes its statements, serves a pending
  SPI interrupt, and completes the write of an EEPROM cell. Nothing is assumed of
  the knob or of the master, which may be quiet for ever.

Deadlock is checked in every run but `Startup`, where `setup()` comes to its end and the
model with it: what follows is `RadioLoop`. Everything else never stops.

## 4. What is proved

All proofs are for every value of the constants, from the assumptions the modules
name (sizes are at least one and bytes naturals; `SizesAssumption`: a transfer of at least
one byte, smaller than the ring and no larger than the codec's FIFO; `RamAssumption`: at
most 256 pages of at most 256 bytes; `SocketAssumption` and `FailuresAssumption`: at least
one socket with a buffer of at least one byte; `EncoderAssumption`: a range of the knob that fits
a byte other than 255 and holds the default).

| Theorem | States |
|---|---|
| `StreamingBufferProofs!TypeCorrect`, `IndicesAlwaysAgree` | `Spec => []TypeOK`, `Spec => []IndicesAgree` |
| `StreamingBufferProofs!RingIsDeliveredFifo` | `Spec => ImplementsDelivered`: refinement, full puts included |
| `StreamingBufferProofs!GuardedRingIsPromisedFifo` | `GuardedSpec => ImplementsPromised`: a caller that looks before it puts loses nothing |
| `SPIRingBufferProofs!TypeCorrect`, `AccessInByteMode` | `Spec => []TypeOK`, `Spec => []ByteModeWhenAccessed` |
| `SPIRingBufferProofs!RingIsStreamingBuffer` | `Spec => ImplementsRing`: refinement, resets included |
| `SPIRingBufferProofs!SPIRingIsDeliveredFifo` | `Spec => Ring!ImplementsDelivered`: the radio's own ring is the *delivered* FIFO |
| `SPIRingBufferProofs!GuardedSPIRingIsPromisedFifo` | `GuardedSpec => Ring!ImplementsPromised`: for a caller that looks before it puts it is the *promised* one |
| `RadioLoopProofs!LoopTypeCorrect` | every variable of `loop()` has its type |
| `RadioLoopProofs!NeverOverruns`, `NeverUnderruns` | no put on a full ring, no get on an empty one |
| `RadioLoopProofs!CodecHasRoom` | no transfer exceeds the room in the codec |
| `RadioLoopProofs!PlaysAfterLoad` | nothing plays before a whole ring was read |
| `RadioLoopProofs!RingIsLossless` | `Spec => RingIsFifo`: `loop()` is such a caller, so the radio's ring is the promised FIFO |
| `RadioLoopProofs!StreamStaysInOrder` | `Spec => []StreamInOrder` |
| `StartupProofs!TypeCorrect` | `Spec => []TypeOK` |
| `StartupProofs!ChecksumsAlwaysAgree` | `Spec => []ChecksumsAgree` |
| `StartupProofs!ConnectedIsSupervised`, `LossReachesSockets` | `Spec => []ConnectedMeansSupervised`, `Spec => []LossClosesSockets` |
| `StartupProofs!StatusCodeCorrect` | `Spec => []StatusCodeIsTheResponses`, for servers in whose responses `HTTP/` only starts a line |
| `StartupProofs!JoinsOnlyInBegin` | `Spec => OnlyBeginConnects` |
| `StartupProofs!SetupGetsOn` | `Left` is a number that no step makes greater, and every step of `setup()` makes smaller but those of two waits: for a character, and for the chip to take a piece of the request |
| `StartupProofs!SetupLeavesClientStream` | `Spec => ImplementsClientStream` |
| `WiFiSocketProofs!TypeCorrect`, `InterruptsCorrect` | `Spec => []TypeOK`, `Spec => []InterruptMatchesPacket` |
| `WiFiSessionProofs!NoSocketLeaksCorrect`, `BlockedCorrect` | `Spec => []NoSocketLeaks`, `Spec => []BlockedIsReadable` |
| `WiFiStreamProofs!NothingOverwrittenCorrect`, `StreamInOrderCorrect` | `Spec => []ReplyFindsNothingUnread`, `Spec => []StreamInOrder` |
| `WiFiStreamProofs!ClientStreamImplemented` | `Spec => ImplementsClientStream`: refinement, failures and late replies included |
| `FrontPanelProofs!TypeCorrect`, `KnobInRange` | `Spec => []TypeOK`, `Spec => []VolumeInRange` |
| `FrontPanelProofs!ChangesAreFlagged`, `PulsesCoverChanges` | `Spec => []ChangedMeansBit`, `Spec => []PulseCoversChange` |
| `FrontPanelProofs!FramesStayTogether`, `OutdatedRepliesAreFlagged` | `Spec => []FramesAgree`, `Spec => []OutdatedReplyIsFlagged`, if the reset of the changes is no frame of two bytes (`ResetIsOneByte`) |
| `FrontPanelProofs!NoReportIsThrownAway` | `Spec => ResetsAreAskedFor`, in every build |
| `FrontPanelProofs!StationStaysOnDial` | `Spec => []` the station and its register are in 0 .. `NUMBER_STATIONS`, for readings within the calibrated range |

**StreamingBuffer.** `TypeOK` alone is not inductive: `get` tests the tail only
and then reads and moves by the head, so `Inv` adds `IndicesAgree`. From
`Inv` follow `DataBounds` and `SlotInRange`; `AdvanceStep` removes the modulo once and for
all; `PutIndices` and `GetIndices` say what a call does to the indices and
slots, and `PutAppends`, `PutOverruns` and `GetRemoves` turn that into sequences. Each
action is then a step of `ByteFifo`.

**RadioLoop.** None of the invariants is inductive as it stands: each is a fact
about a look that is used later. `LoopInv` adds

* `BuffersIdle`: between the phases `mp3Buffer`, `maxBytesToRead` and `nRead` are empty,
* `RequestFits`: what is about to be read still fits into the ring,
* `TransferFits`: a transfer in progress is at most `DATABUFFERLEN` bytes,
* `LoadCounts`: until the ring has been full it holds all that was read, so that full
  means that a whole ring has been read; from then on that much has been read.

The environment only ever moves these in the safe direction (`EnvironmentKeeps`): bytes
available may shrink to none, but the request was also limited by the space; the codec's
level only falls. One lemma per kind of step shows that `LoopInv` is kept. The
ring's part of it comes from `StreamingBufferProofs`, instantiated for the radio's ring.

**Order of the stream.** `StreamInOrder` says that played, on the way out, in the ring
and on the way in, concatenated, are `1 .. received`. Given `LoopInv` one
of the two ends is always empty (`ShapeOfStream`), and each step either moves a
byte across one of the joints (`MoveHead`) or appends what was read (`UpToConcat`).

**SPIRingBuffer.** No property of a ring in memory says anything about a transaction
that is half sent. `RingInv` therefore says, for each place where the code can be, what the
chip has received and what is still to be sent: the two are, one after the other
(`InTransit`), the message of the call. From that follow the mode (`ModeSent`), the
address (`AddressArrives`: the two bytes of an index are taken together to the same
index, for every geometry of the chip) and that the indices a call has read are the ones
it writes back (`IndicesReady`). A reset at any step leaves the chip with a prefix of a
message, which the next `chipSelect` makes it forget; `ModeKnown` says that the cached
mode is the chip's unless it is `NO_MODE`. The refinement step is the one
transfer that completes the message of a put. `SPIRingIsDeliveredFifo` puts the two
refinements together: `StreamingBufferProofs` is instantiated for the size of the chip and
for what a master sees of the ring (`BufferAssumptions` discharges its assumptions), so
that the ring the radio uses has the contract of `ByteFifo` too. For
`GuardedSPIRingIsPromisedFifo` the refinement is sharper: only the start of a put on a full
ring can be a refusal (`PutRefines`); the byte of a put that was begun always finds room
(`BytesRefine`), as the head it has moved is not the tail (`RoomMeansSpace`).

**Startup.** `DriverInv` says where a start may be found: with an id from an earlier
start, `nm_spi_init()` is the only place that sets `gu8Crc_off` back, and the chip was
reset before it; only then can the id be read at all. `WlanInv` relates `mode`,
`status`, `link` and the events still to come: as long as `mode` is the station's, every
loss of `link` is followed by an event that will be handled in this mode. Of a status from
before the first successful `init()` it says only that the mode is the station's: such a
station has no address, and another start of the chip ends its WLAN without a report.
A socket is only
ever opened behind it (`AfterCheck`); `ClosedIsEmpty` is what `SetupLeavesClientStream`
needs besides. `LineInv` follows the parser: where the line starts that is being read
(`LineFrom`), what has been made of it in each state, and that no final status line
came before it (`NoFinalBefore`). `StatusCodeCorrect` assumes of the server what makes
`LineFrom` true when reading starts anew: see the restart in section 5.

`JoinsOnlyInBegin` is about a step, and needs to know what is absent elsewhere. `Quiet`:
the link is down, and no report of the access point or of an address is to come, either of
which can connect the station (`Rises`). `OnceInv` says where that is so:
behind the report of a lost link or of a refusal, in the
wait of `begin()` once the access point has refused, and after that wait as long as the
mode is the station's and the station is not connected. The two ways out of the wait are a
report, which leaves nothing behind it, and a timeout, which leaves the mode. So the
polls of `connectWLAN()`, which handle events too, find nothing that could connect.

`SetupGetsOn` is the part of `SetupEnds` that needs no fairness. `Left` weighs what may
still be to come: a place of `setup()` is worth more than all that can follow it, so 20
more than the next where a start of the chip may lie between them (its 14 steps, and what
leads to it), and 21 for each round of `connectWLAN()`; added to it are the tries of the codec, the
writes of the request, three for each character not read yet, and two as long as the line
read may turn out to be an informational one that is followed by another. The sum never
grows, whatever the chip, the access point and the server do; so `setup()`
takes at most as many steps as `Left` is at its start, besides the loop of `look`, `read`
and `pause` without a character and that of `print` and `printAgain` without a piece of the
request that the chip takes (`WaitsOn`). What is left to TLC is that the first of these loops
ends, that the second ends or is one of the waits of `SetupEnds`, and that each other step is
taken.

**WiFiSocket.** What makes the library hard to follow is that events are handled within
calls, and calls made within the handling of events. `Shape` brings the stack of pending
calls into order: it says which operations may be pending below which (`Follows`), so that
a step need only be looked at together with what it puts in its place. `Interrupts`
strengthens `InterruptMatchesPacket` by the flags of the driver: at most one socket has
something left in the chip, it is in the packet on offer, and the packet was announced.
For the sockets, `Safe` adds three parts. `Sessions`: a socket in use has a session of
its own, and the chip knows of no session that was not opened. `ConnectOnce`: to the
`connect()` of a session there is at most one reply, be it still to come, in the queue or
on offer; a reply that names no session can therefore only mislead a later connection, and
that is what `misled` records. `Tidy`: a socket in use is the client's, and it is either
connected, being connected by a pending `connecting`, or about to be closed by a pending
`close`; one not in use has nothing to read. Each of these is needed for the next, and
`NoSocketLeaks` and `BlockedIsReadable` are what `Tidy` says between calls.

**The stream of a connection.** `StreamInv` adds to `Safe` what holds of the bytes.
`RecvOnce`: to the requests of a session there is at most one reply, be it still to come,
in the queue or on offer. `Unread`: there is none while something of the socket is unread
or being copied, which is what makes it harmless that `fillRecvBuffer` starts at the
front of the buffer. `PeersApart`: a session has one end in
the chip. `Stream`: what was read, what is in the buffer, the rest of the packet that is
announced and the reply to come follow each other, and that is as much as the chip was
sent. `StreamInOrder` is its first half.

`ClientStreamImplemented` is not about `misled`: bytes are only handed on for the session
they belong to, whatever becomes of replies to `connect()`. It needs four facts more,
which say why what is left over is gone when a connection ends and cannot appear before
one is made. `InTurn`: behind data of a connection there is no answer to an earlier
`connect()` of its socket. `Settles`: while such an answer is outstanding nothing is
unread. `CreateAlone`: `connect()` gives up one connection before it opens another.
`CopyConnected`: bytes are copied for a connected socket only.

**FrontPanel.** Independent parts about the panel and one about the wire.
`KnobInv` follows the position from the check in `setup()` on, `RomInv` the EEPROM: once the
check is behind (`Checked`) the id is written, and what is being written after it is a
position of the knob. `BitsInv` follows the change bits,
from the first movement in `setup()`; `PulseInv` why the first pass of `loop()`
announces what `setup()` published: `oldVolume` is 255, which is no volume. They need
to know of the interrupt routine only that it writes no register of a control, which
`SpiTypes` says: it waits for data only of instructions that may have the type WRITE.
`FrameInv` says what the controller is about to see while a byte waits to be handled.
`OutdatedInv` relates the reply in SPDR to its register and needs all of them: the reply is
the register, or the control's bit is set and `loop()` is not about to reset it. `loop()`
may well be between the test for `INST_RESET_CHANGES` and the reset when the register is loaded into
SPDR, and reset the bits after that; but then the register has not changed since. It
changes in statements that lie behind the reset, and to come to another reset
`loop()` would have to find `INST_RESET_CHANGES` in `instruction`, where the instruction being
replied to is (`OnlyTheTestLeadsToReset`).
`AskedInv` follows a request through the statements that read the flag and the instruction
anew: wherever `loop()` may still find `INST_RESET_CHANGES`, and where it is about to reset
the bits, a byte of it was handled since the last instruction was done with; `OnlyResetsClear` finds
the one step that clears a bit of a register. That the master's last instruction is then
still that one would be false: a GET_VOL handled between lines 321 and 322 is
followed by the reset. Neither the frames nor the build matter for it.
`DialInv` says that every sample is a reading of the calibrated range or not taken yet, so
that their greatest one (`MaxOfBytes`) gives a station of the dial; the samples of a
decision may differ, which those of the runs do not.

**Only model-checked**: liveness (`LoadsTheRing`, `PlaysTheStream`, `PositionGetsStored`,
`BytesReachTheReader`, `CallsReturn`, `SetupEnds`), which is out of the prover's reach; of
the last, `SetupGetsOn` proves that nothing goes in circles but the two waits it names.

## 5. Findings

1. **A refused put destroys the buffer** (`StreamingBuffer.cpp:39`, the same lines at
   `SPIRingBuffer.cpp:89`). The head is advanced before the test for full and
   stays advanced; it then equals the tail, and the buffer holds one byte. The comment
   ("Returns -1 if the buffer is full") promises a refusal. `loop()` never runs into it:
   that is `NeverOverruns`, and `RingIsLossless` is the consequence.
2. **`skip` may never skip** (`InternetRadio.ino:422`). `skip = ... (skip++)%2 ...` is
   unsequenced. In a build that assigns last, `skip` stays 0.
3. **`instructionTypes` is one entry short** (`FPController.ino:67`). The type of
   `INST_RESET_CHANGES` is whatever lies behind the table. With `NO_TRANSFER` there, all
   works and the passing runs assume it; with READ or WRITE the frames slip; with another
   value the instruction is ignored.
4. **An error status can get lost** (`FPController.ino:332`). `processInstruction` is
   cleared unconditionally after the chain, whatever has arrived since it was tested.

Smaller disagreements between text and code, noticed on the way and modelled as
the code has them:

* `FPController.ino:20` says that reading the changes clears the bits and line 21
  introduces an instruction to reset them; only the latter clears them.
* `SPIRingBuffer.h:98` says that `begin()` initialises the indices;
  `SPIRingBuffer.cpp:64-65` has that commented out. `begin` in the model keeps them.
* INST_STATUS_OK turns the LEDs off in `loop()`'s dispatch, and `error(errorCode)` at the
  end of the same pass turns them back on: only INST_NULL resets `errorCode`.
* `map()` does not clamp, so a reading outside the calibrated range gives a station
  outside 0 .. NUMBER_STATIONS, of which the register keeps the low byte.
* `errorCode` comes from the master unchecked and indexes a table of nine rows.
* `HttpClient.cpp:408` expects the status line of the next response right behind an
  informational one. An informational response ends with an empty line, which is taken
  for that status line: the result is `HTTP_ERROR_INVALID_RESPONSE`.
* `HttpClient.cpp:487` starts another pass whenever the code is an informational one, also
  when its line timed out before its end. The pass begins in the middle of the line, and
  takes what follows for a status line if it starts with `HTTP/`.
* `WiFi.cpp:442-447` tests statuses as bit masks; `WL_DISCONNECTED` (6) shares a bit with
  `WL_CONNECTED` (3), so that a refused connection ends the wait of `begin()` like a made
  one. Only a timeout sets the mode back, and after it no event is taken notice of: the
  up to 30 polls of `connectWLAN()` that follow a timeout cannot succeed.
* The result of `get()` is ignored (`InternetRadio.ino:299`), as is that of
  `m2m_wifi_disconnect` (`WiFi.cpp:692`): a chip that did not take the request stays
  joined.
* The headers of the response are read by `loop()` and reach the codec.
* `WiFiSocket.cpp:69` sets up the state of a new socket only if its number is not 0.
* A request for data that could not be sent still counts as pending (`socket.c:925`);
  no other is made, and the stream stalls. `BytesReachTheReader` says so.
* `socket.c:587-588` says of the session ID that it is there to tell a socket from the one
  that used its number before. Replies to `recv()` carry it; the reply to `connect()`
  does not (`socket.c:275-290`). A `connect()` that gives up after its 20 seconds may be
  answered later, when the number is in use again, and the answer is then taken for
  the new connection's: a refusal that was meant for the old one leaves the new socket
  idle though it is connected, and the next `connect()` does not close it. `misled` is
  when that has happened; `NoSocketLeaks` and `BlockedIsReadable` hold until then.
* `_dhcp` is 0 until an `init()` has succeeded (`WiFi.cpp:308`). After one that failed at the
  version read, events are handled already and `begin()` goes on: "connected" from the access
  point then sets WL_CONNECTED (`WiFi.cpp:70`) although the radio has no address.
  `ConnectedMeansSupervised` therefore speaks of the address, and of the report of a loss,
  only from the first successful `init()` on.
* `write()` retries `send()` while it returns `SOCK_ERR_BUFFER_FULL` (`WiFiSocket.cpp:289`,
  "retry if buffer not ready"), and `socket.c:822-826` makes that of every failure: a chip
  that does not take a request keeps the caller for ever.
* A master that sends GET_VOL right behind `INST_RESET_CHANGES` may have it handled between
  the test (`FPController.ino:321`) and the reset (line 322), and the bits are reset after
  its instruction was replied to.
* `hif_isr` clears the interrupt before it reads the packet's header: when that fails
  nothing is left to be tried again.
* `nm_spi_init` returns 0, the value of `M2M_SUCCESS`, when it fails, although its
  comment says `M2M_ERR_BUS_FAIL`; `nm_drv_init` (`nmdrv.c:337`) does not look. A write of
  a register whose response does not come is reported as a success, and a read that
  fails returns an uninitialised value.
* `wait_for_bootrom` (eFuses), `chip_apply_conf` and `hif_handle_isr` wait without a limit.
* A stream that ends, or a connection that drops, before the ring has been full once is
  never played, and nothing connects again.

## 6. Abstractions

* Waiting, LED timing, serial output and formatting are left out. A blinking LED is the
  mode "blinking".
* `RadioLoop`'s `Read(n)` returns at least one byte when bytes are available; failures
  below it are in `WiFiSocket`.
* `WiFiSocket` has one client. UDP, TLS, servers and the reply to a send, which the
  radio does not use or does not look at, are left out. The look in the middle of
  `WiFiClient::read` is merged with its neighbour (see `Read`). `hif_send` is one step.
* `ChipStart`: a register access with its ten tries is one step; of a write to enable
  interrupts that gets lost only the failure to read is kept; the bus is given
  back by the next transaction, so that `nm_bus_deinit` has no lasting effect. The chip is
  modelled from how the driver uses it. Power saving is not used by the radio.
* `Startup`: characters of the response are grouped into tokens. A server closes the
  connection only when all it sent was read: `ReplyFindsNothingUnread` is why the library
  learns of it no sooner.
* The statements of `RadioLoop` under `if (false)` (lines 400-418) cannot run.
* `encoderPos` is a 16-bit variable read by an 8-bit processor; its high byte is 0
  throughout, so a torn read has no other outcome than an atomic one.
* `transferBuffer` is not `volatile`, but every use of it lies between calls and critical
  sections that the compiler treats as barriers, and is taken as a memory access.
* The readings in the runs never reach the branch of `Sample` that finds them too far
  apart: with one sample per decision, or one value, they are always close. It
  changes nothing but the sample index.
* Values of bytes are reduced to what is told apart: positions in the stream, register
  contents that a control can have.

## 7. Hazards

`PROJECT.json` lists them line by line with the properties that watch them. No property
watches: a master that resets change bits it has not seen (a matter of the test
sketch), and unknown error codes (no document says what they should show). Two more
are only named here: an EEPROM cell is written in every pass of `loop()`
(`FPController.ino:352`), which wears it out; and `begin()` of the ring over the SPI
RAM keeps the indices of an earlier use, as the model has it.

## 8. Not modelled

* Of WiFi101: UDP, TLS, servers, access point and provisioning modes, scans, time,
  power saving, firmware update and the SPI flash. The radio uses none of them. The long
  headers of the driver are declarations.
* Of ArduinoHttpClient: the other methods, headers and bodies, chunked transfer.
* `Lemon_VS1053` beyond `readyForData` and `playData`: register writes.
* `ArduinoSerialCommand`, `WebSocketClient`, `b64` and the other test sketches: not part of
  the radio's program, sequential, and without state shared with it.
* The circuit, boards and case.

## 9. Plan

Done: the path of the stream (`ByteFifo`, `StreamingBuffer`, `SPIRingBuffer`, `RadioLoop`,
`ClientStream`), the front panel (`FPController`, `FrontPanel`), the WiFi library (`Hif`,
`WiFiSocket`), the start (`ChipStart`, `WiFiStation`, `HttpClient`, `Startup`), and the
proofs of section 4. Left:

* composing `Startup` and `RadioLoop` in one specification, so that the response's
  headers can be followed into the ring.
