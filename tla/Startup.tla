------------------------------- MODULE Startup -------------------------------
(***************************************************************************)
(* setup() of the radio, InternetRadio.ino: the codec is started, the      *)
(* radio joins the WLAN and asks the station for its stream.  No step that *)
(* fails keeps setup() from going on to the next one, and loop() follows   *)
(* whatever has become of them.                                            *)
(***************************************************************************)
EXTENDS HttpClient

CONSTANTS
  maxTries,      \* 20
  maxAttempts    \* 30

ASSUME AttemptsAssumption == maxTries \in Nat /\ maxAttempts \in Nat

VARIABLES nTries, nAttempts

attempts == <<nTries, nAttempts>>
vars == <<httpVars, stationVars, attempts>>

Init ==
  /\ StationInit /\ HttpInit
  /\ pc = "player"
  /\ nTries = 0 /\ nAttempts = 0

-----------------------------------------------------------------------------
(***************************************************************************)
(* The codec.                                                              *)
(***************************************************************************)

\* begin(), again and again until the codec answers or the tries are used up,
\* and then once more.
player_begin ==
  /\ pc = "player"
  /\ \E ok \in BOOLEAN :
       IF ok \/ nTries = maxTries
       THEN pc' = "dreq" /\ UNCHANGED nTries
       ELSE nTries' = nTries + 1 /\ UNCHANGED pc
  /\ UNCHANGED <<http, request, response, stationVars, nAttempts>>

\* The wait for the codec's DREQ has no limit.
readyForData ==
  /\ pc = "dreq" /\ pc' = "begin"
  /\ UNCHANGED <<http, request, response, stationVars, attempts>>

-----------------------------------------------------------------------------
(***************************************************************************)
(* connectWLAN()                                                           *)
(***************************************************************************)

begin ==
  /\ pc = "begin" /\ pc' = "startConnect"
  /\ init
  /\ UNCHANGED <<http, request, response, attempts>>

beginConnects ==
  /\ pc = "startConnect" /\ step = "returned"
  /\ \/ startConnect /\ pc' = "joining"
     \/ startConnectFails /\ pc' = "poll"
  /\ UNCHANGED <<http, request, response, attempts>>

beginEnds(timedOut) ==
  /\ pc = "joining"
  /\ startConnectEnds(timedOut)
  /\ pc' = "poll"
  /\ UNCHANGED <<http, request, response, attempts>>

\* The attempts are used up.  The mutant polls once more.
GivesUp_Late == nAttempts > maxAttempts
GivesUp == nAttempts = maxAttempts

\* status() calls init() first; its answer comes when that has returned.
poll ==
  /\ pc = "poll" /\ pc' = "polled"
  /\ init
  /\ UNCHANGED <<http, request, response, attempts>>

polled ==
  /\ pc = "polled" /\ step = "returned"
  /\ IF status = WL_CONNECTED \/ GivesUp
     THEN pc' = "check" /\ UNCHANGED nAttempts
     ELSE pc' = "poll" /\ nAttempts' = nAttempts + 1
  /\ UNCHANGED <<stationVars, http, request, response, nTries>>

\* What is done about a WLAN that could not be joined.  The mutant does nothing.
Unconnected_Stays == "get"
Unconnected == "giveUp"

check ==
  /\ pc = "check" /\ pc' = "checked"
  /\ init
  /\ UNCHANGED <<http, request, response, attempts>>

checked ==
  /\ pc = "checked" /\ step = "returned"
  /\ pc' = IF status = WL_CONNECTED THEN "get" ELSE Unconnected
  /\ UNCHANGED <<stationVars, http, request, response, attempts>>

giveUp(ok) ==
  /\ pc = "giveUp"
  /\ disconnect(ok)
  /\ pc' = "get"
  /\ UNCHANGED <<http, request, response, attempts>>

WiFiInit ==
  /\ initResets \/ initReturns \/ (\E timedOut \in BOOLEAN : initGoesOn(timedOut))
  /\ UNCHANGED <<httpVars, attempts>>

-----------------------------------------------------------------------------
(***************************************************************************)
(* The request, after which setup() returns, whatever the answer.          *)
(***************************************************************************)

HttpGet ==
  /\ \/ \E ok \in BOOLEAN : hostByName(ok) \/ connect(ok) \/ print(ok)
     \/ \E timedOut \in BOOLEAN : Resolved(timedOut) \/ Connected(timedOut)
     \/ printAgain \/ finishHeaders
  /\ UNCHANGED attempts

HttpAnswer ==
  /\ \/ responseStatusCode \/ look \/ read \/ readInvalid \/ readNothing \/ endOfLine
     \/ \E timedOut \in BOOLEAN : pause(timedOut)
  /\ UNCHANGED attempts

setupReturns ==
  /\ pc = "answered" /\ pc' = "loop"
  /\ UNCHANGED <<http, request, response, stationVars, attempts>>

-----------------------------------------------------------------------------
(***************************************************************************)
(* What goes on besides: the chip and the server, and the events of the    *)
(* chip and the bytes of the server, which reach the library in any call   *)
(* that handles events.                                                    *)
(***************************************************************************)

HandlesEvents ==
  /\ step = "returned"
  /\ pc \in {"joining", "polled", "checked", "resolving", "connecting", "request",
             "retry", "look", "read", "loop"}

\* A call that handles events does not return before those announced are handled.
EventsPending == HandlesEvents /\ gpfIsr /\ events # << >>

stationHandlesEvent ==
  /\ HandlesEvents /\ HandleEvent
  /\ UNCHANGED <<httpVars, attempts>>

chip ==
  /\ ChipSteps \/ (chipBoots /\ UNCHANGED <<station, client, theChip, refused>>)
  /\ UNCHANGED <<httpVars, attempts>>

\* The server answers a request that it has got.
serverSends ==
  /\ HandlesEvents /\ socket = "connected" /\ link = "online"
  /\ pieces = 0 /\ whole
  /\ sent < Len(response)
  /\ sent' = sent + 1
  /\ UNCHANGED <<httpVars, station, socket, received, theChip, refused, chipStartVars, attempts>>

\* It closes the connection.  The library learns of it when it has read all that
\* had come before.
serverCloses ==
  /\ HandlesEvents /\ socket = "connected" /\ link = "online"
  /\ sent = received
  /\ ClosesSocket
  /\ UNCHANGED <<httpVars, station, theChip, refused, chipStartVars, attempts>>

Next ==
  \/ player_begin \/ readyForData
  \/ begin \/ beginConnects \/ (\E timedOut \in BOOLEAN : beginEnds(timedOut))
  \/ poll \/ polled \/ check \/ checked \/ (\E ok \in BOOLEAN : giveUp(ok))
  \/ WiFiInit
  \/ HttpGet \/ HttpAnswer \/ setupReturns
  \/ stationHandlesEvent \/ chip \/ serverSends \/ serverCloses

Spec == Init /\ [][Next]_vars

\* setup() is run on, and the clock goes on: a wait that comes back to look at it
\* finds in the end that its time is over.  Nothing is assumed of the codec, the
\* server or the chip, nor of what a failed access leaves on the stack, nor that an
\* event announced gets handled: hif_handle_isr() tries for as long as it fails.
setup ==
  \/ player_begin
  \/ begin \/ beginConnects \/ beginEnds(TRUE)
  \/ poll \/ polled \/ check \/ checked \/ (\E ok \in BOOLEAN : giveUp(ok))
  \/ WiFiInit /\ (step = "efuse" => boot # "reset" /\ Understands)
  \/ HttpGet \/ HttpAnswer \/ setupReturns

FairSpec ==
  Spec /\ WF_vars(setup /\ ~EventsPending) /\ SF_vars(pause(TRUE) /\ UNCHANGED attempts)

-----------------------------------------------------------------------------
TypeOK ==
  /\ initialised \in BOOLEAN /\ localip \in BOOLEAN /\ resolve \in BOOLEAN
  /\ status \in {WL_NO_SHIELD, WL_IDLE_STATUS, WL_CONNECTED, WL_CONNECT_FAILED,
                 WL_DISCONNECTED}
  /\ mode \in {WL_RESET_MODE, WL_STA_MODE}
  /\ socket \in {"none", "connecting", "connected"}
  /\ received \in 0 .. sent /\ sent \in 0 .. Len(response)
  /\ boot \in {"reset", "efuse", "rom", "started", "up"} /\ failures \in 0 .. MaxFailures
  /\ gu8Crc_off \in BOOLEAN /\ noChecksum \in BOOLEAN /\ chipid \in BOOLEAN
  /\ gpfIsr \in BOOLEAN
  /\ link \in {"down", "joining", "up", "online"}
  /\ asked \in {"nothing", "name", "connection"}
  /\ \A i \in 1 .. Len(events) :
       events[i] \in {"connected", "disconnected", "address", "resolved",
                      "accepted", "rejected"}
  /\ refused \in BOOLEAN /\ whole \in BOOLEAN
  /\ iState \in {"eIdle", "eRequestStarted", "eRequestSent", "eReadingStatusCode",
                 "eStatusCodeRead"}
  /\ matched \in 0 .. Len(statusPrefix)
  /\ httpCode \in Int /\ iStatusCode \in Nat
  /\ pieces \in 0 .. RequestPieces
  /\ nTries \in 0 .. maxTries /\ nAttempts \in 0 .. maxAttempts

\* The lines of the response up to what has been read, each of which ends with "\n".
LineEnds == {i \in 1 .. received : response[i].kind = "\n"}
LastLine ==
  LET before == LineEnds \ {received}
      first == 1 + (IF before = {} THEN 0 ELSE CHOOSE i \in before : \A j \in before : j <= i)
  IN  SubSeq(response, first, received)

StartsLine(i) == i = 1 \/ response[i - 1].kind = "\n"

\* When responseStatusCode() reports a status code, then that of the line which it has
\* read last, to its end and no further, and none of the lines before it was a final
\* status line: loop() finds all of what follows the status line, and nothing else.
StatusCodeIsTheResponses ==
  httpCode > 0 =>
    /\ received \in LineEnds
    /\ Len(LastLine) >= 4
    /\ LastLine[1].kind = "HTTP/" /\ LastLine[3].kind = "SP"
    /\ LastLine[4] = Token("digits", httpCode)
    /\ \A i \in 1 .. received - Len(LastLine) :
         StartsLine(i) /\ response[i + 3].kind = "digits" =>
           response[i + 3].code < 200 /\ response[i + 3].code # 101

\* While status() says that the radio is connected, the library is in the mode in which
\* it notices the loss of the WLAN; and once an init() has succeeded, the radio has an
\* address, and it is on the WLAN or its loss will be reported.  An address that arrives
\* when begin() has given up must not make it look connected.  Before, a start that
\* failed after hif_init() handles events without DHCP: the access point alone makes it
\* connected, without an address; and status() does not look at what init() returns,
\* so that this status outlives the WLAN.
ConnectedMeansSupervised ==
  status = WL_CONNECTED =>
    /\ mode = WL_STA_MODE
    /\ initialised =>
         /\ localip
         /\ link = "online" \/ \E i \in 1 .. Len(events) : events[i] = "disconnected"

\* Only the wait in begin() can see the WLAN joined: what its time-out or a loss has
\* ended comes to nothing in all the polls of connectWLAN(), neither by an address
\* that is still on its way nor by another start of the chip.
OnlyBeginConnects ==
  [][status # WL_CONNECTED /\ status' = WL_CONNECTED => pc = "joining"]_vars

\* Driver and chip agree on the use of checksums whenever a start tries to find out,
\* whatever an earlier start that failed has left behind, and for good when
\* init() has succeeded, although nobody looks at what nm_spi_init() returns.
ChecksumsAgree ==
  (step = "chipid" /\ ~chipid) \/ step \in {"crcOn", "crcWrite"} \/ initialised
    => Understands

\* A socket does not stay connected without a WLAN: there is a report of the loss to
\* come, which will close it.  The only exception is a chip which has not taken
\* the request to leave a WLAN that begin() had given up.
LossClosesSockets ==
  socket = "connected" /\ link # "online" =>
    \/ mode = WL_STA_MODE /\ \E i \in 1 .. Len(events) : events[i] = "disconnected"
    \/ refused

\* To the reader of the response, and to loop() after it, the client is a connection
\* that delivers bytes and that has none left when it has dropped.
Stream == INSTANCE ClientStream WITH connected <- socket = "connected"
ImplementsClientStream == Stream!Spec

\* Whatever the access point, the name server and the server do or leave undone,
\* setup() comes to its end, and loop() is run.  There are five places where it
\* can stay for ever: the waits for the codec, for the chip's eFuses, and for
\* a register to be read back by a driver that the chip does not understand, a
\* piece of the request that the chip does not take, and an event that is announced
\* and cannot be read.
SetupEnds ==
  \/ <>(pc = "loop")
  \/ <>[](pc = "dreq")
  \/ <>[](step = "efuse" /\ (boot = "reset" \/ ~Understands))
  \/ <>[](step = "conf" /\ ~Understands)
  \/ <>[](pc \in {"request", "retry"} /\ socket = "connected")
  \/ <>[]EventsPending
=============================================================================
