---------------------------- MODULE StartupProofs ----------------------------
(***************************************************************************)
(* setup() for any number of tries and failures, any responses and any     *)
(* length of the request.                                                  *)
(***************************************************************************)
EXTENDS Startup, TLAPS

-----------------------------------------------------------------------------
(***************************************************************************)
(* The start of the chip.                                                  *)
(***************************************************************************)

\* Where m2m_wifi_init() is once it knows the chip's id.
AfterId == {"spi", "crcOn", "crcWrite", "efuse", "rom", "conf", "start", "firmware",
            "interrupts", "hif", "version", "succeeded"}
InInit == AfterId \union {"bsp", "chipid", "failed"}

\* An init() is under way in begin() or status() only, and not after one that has
\* succeeded.  A driver without checksums has seen the chip's id, so that it never
\* asks for it again; and a chip that was reset expects checksums until it is told.
DriverInv ==
  /\ step \in InInit \union {"returned"}
  /\ gu8Crc_off \in BOOLEAN /\ noChecksum \in BOOLEAN /\ chipid \in BOOLEAN
  /\ gpfIsr \in BOOLEAN /\ initialised \in BOOLEAN
  /\ boot \in {"reset", "efuse", "rom", "started", "up"}
  /\ initialised => step = "returned"
  /\ step \in InInit => pc \in {"startConnect", "polled", "checked"}
  /\ gu8Crc_off => chipid
  /\ step \in AfterId => chipid
  /\ step \in {"chipid", "spi", "crcOn", "crcWrite"} => ~noChecksum
  /\ step \in {"crcOn", "crcWrite"} => ~gu8Crc_off
  /\ step = "succeeded" \/ initialised => gu8Crc_off = noChecksum

\* The driver starts as the invariant says,
LEMMA DriverInit == Init => DriverInv
BY DEF Init, StationInit, ChipStartInit, DriverInv, InInit, AfterId

\* The steps of setup() that do not touch the driver and the chip's start.
LEMMA DriverIdle ==
  ASSUME DriverInv, UNCHANGED <<chipStartVars, initialised>>,
         pc' = pc \/ step = "returned"
  PROVE  DriverInv'
BY DEF DriverInv, chipStartVars, driver, chipState, InInit, AfterId

\* and every step keeps it that way.
LEMMA DriverStep == ASSUME DriverInv, [Next]_vars PROVE DriverInv'
<1> USE DEF DriverInv, InInit, AfterId
<1>1. CASE begin \/ poll \/ check
  BY <1>1 DEF begin, poll, check, init, chipState, station
<1>2. CASE WiFiInit
  <2>1. CASE initResets
    BY <1>2, <2>1 DEF WiFiInit, initResets, nm_bsp_init, At, Continues, station, httpVars
  <2>2. CASE initReturns
    BY <1>2, <2>2 DEF WiFiInit, initReturns, chipState, httpVars
  <2>3. ASSUME NEW timedOut \in BOOLEAN, initGoesOn(timedOut) PROVE DriverInv'
    <3>1. pc' = pc /\ initialised' = initialised /\ driverStep(timedOut)
      BY <1>2, <2>3 DEF WiFiInit, initGoesOn, httpVars, station, initResets, initReturns,
                        driverStep, nm_bsp_init, At
    <3> USE DEF At, Continues, Fails, chipState, Understands, spi_read_reg, spi_write_reg,
                nm_read_reg
    <3>2. CASE knownChip
      BY <3>1, <3>2 DEF knownChip, nmi_get_chipid
    <3>3. CASE nm_spi_init
      BY <3>1, <3>3 DEF nm_spi_init
    <3>8. CASE turnCrcOff
      <4>1. noChecksum' \in BOOLEAN
        BY <3>8 DEF turnCrcOff
      <4> QED BY <3>1, <3>8, <4>1 DEF turnCrcOff
    <3>7. CASE readWithCrc
      <4>1. PICK ok \in BOOLEAN : /\ gu8Crc_off' = ~ok
                                  /\ step' = IF ok THEN "crcWrite" ELSE "efuse"
        BY <3>7 DEF readWithCrc
      <4>2. step = "crcOn" /\ UNCHANGED <<chipid, gpfIsr, noChecksum, boot>>
        BY <3>7 DEF readWithCrc
      <4>3. CASE ok
        BY <3>1, <4>1, <4>2, <4>3
      <4>4. CASE ~ok
        BY <3>1, <4>1, <4>2, <4>4
      <4> QED BY <4>3, <4>4
    <3>4. CASE efuse \/ rom(timedOut) \/ chip_apply_conf \/ start
      BY <3>1, <3>4 DEF efuse, rom, chip_apply_conf, start
    <3>5. CASE wait_for_firmware_start(timedOut) \/ enable_interrupts
      BY <3>1, <3>5 DEF wait_for_firmware_start, enable_interrupts
    <3>6. CASE hif_init \/ nm_get_firmware_full_info
      BY <3>1, <3>6 DEF hif_init, nm_get_firmware_full_info
    <3> QED BY <3>1, <3>2, <3>3, <3>4, <3>5, <3>6, <3>7, <3>8 DEF driverStep
  <2> QED BY <1>2, <2>1, <2>2, <2>3 DEF WiFiInit
<1>3. CASE chip
  BY <1>3 DEF chip, ChipSteps, Reports, chipBoots, chipStartVars, driver, chipState, station,
              httpVars
<1>4. CASE ~(begin \/ poll \/ check \/ WiFiInit \/ chip)
  <2>1. UNCHANGED <<chipStartVars, initialised>> /\ (pc' = pc \/ step = "returned")
    <3>1. CASE player_begin \/ readyForData \/ setupReturns
      BY <3>1 DEF player_begin, readyForData, setupReturns, stationVars, station
    <3>2. CASE beginConnects \/ \E timedOut \in BOOLEAN : beginEnds(timedOut)
      BY <3>2 DEF beginConnects, beginEnds, startConnect, startConnectFails, ForgetsAddress,
                  startConnectEnds
    <3>3. CASE polled \/ checked \/ \E ok \in BOOLEAN : giveUp(ok)
      BY <3>3 DEF polled, checked, giveUp, disconnect, stationVars, station
    <3>4. CASE HttpGet
      BY <3>4 DEF HttpGet, hostByName, Resolved, connect, Connected, print, printAgain,
                  finishHeaders, Asks, stationVars, station
    <3>5. CASE HttpAnswer
      BY <3>5 DEF HttpAnswer, responseStatusCode, look, pause, read, readInvalid, readNothing,
                  endOfLine, ReadsOn, stationVars, station
    <3>6. CASE stationHandlesEvent
      BY <3>6 DEF stationHandlesEvent, HandleEvent, HandleConnected, ForgetsAddress,
                  HandleDisconnected, HandleAddress, HandleResolved, HandleAnswer, station,
                  httpVars
    <3>7. CASE serverSends \/ serverCloses \/ UNCHANGED vars
      BY <3>7 DEF serverSends, serverCloses, vars, station, stationVars, httpVars
    <3> QED BY <1>4, <3>1, <3>2, <3>3, <3>4, <3>5, <3>6, <3>7 DEF Next
  <2> QED BY <2>1, DriverIdle
<1> QED BY <1>1, <1>2, <1>3, <1>4

-----------------------------------------------------------------------------
(***************************************************************************)
(* Types.                                                                  *)
(***************************************************************************)

ReadingLines == {"look", "read", "pause", "endOfLine", "answered", "loop"}
Reported == {"connected", "disconnected", "address", "resolved", "accepted", "rejected"}
Tokens == [kind : {"HTTP/", "1.1", "SP", "digits", "text", "\n"}, code : Nat]

StatusTypes == {WL_NO_SHIELD, WL_IDLE_STATUS, WL_CONNECTED, WL_CONNECT_FAILED, WL_DISCONNECTED}

\* The parts of TypeOK by the variables that change together.
StationType ==
  /\ initialised \in BOOLEAN /\ localip \in BOOLEAN /\ resolve \in BOOLEAN
  /\ status \in StatusTypes /\ mode \in {WL_RESET_MODE, WL_STA_MODE}
ClientType ==
  /\ socket \in {"none", "connecting", "connected"}
  /\ received \in 0 .. sent /\ sent \in 0 .. Len(response)
StartType ==
  /\ boot \in {"reset", "efuse", "rom", "started", "up"}
  /\ gu8Crc_off \in BOOLEAN /\ noChecksum \in BOOLEAN /\ chipid \in BOOLEAN
  /\ gpfIsr \in BOOLEAN
ChipType ==
  /\ link \in {"down", "joining", "up", "online"}
  /\ asked \in {"nothing", "name", "connection"}
  /\ events \in Seq(Reported)
PrefixRead == {"eReadingStatusCode", "eStatusCodeRead"}
HttpType ==
  /\ iState \in {"eIdle", "eRequestStarted", "eRequestSent", "eReadingStatusCode",
                 "eStatusCodeRead"}
  /\ matched \in 0 .. 3 /\ (iState \notin PrefixRead => matched < 3)
  /\ iState \in PrefixRead => pc \in ReadingLines
  /\ httpCode \in Int /\ iStatusCode \in Nat
RequestType ==
  /\ refused \in BOOLEAN /\ whole \in BOOLEAN
  /\ response \in Seq(Tokens)
Counts ==
  /\ failures \in 0 .. MaxFailures /\ pieces \in 0 .. RequestPieces
  /\ nTries \in 0 .. maxTries /\ nAttempts \in 0 .. maxAttempts

Types == /\ StationType /\ ClientType /\ StartType /\ ChipType
         /\ HttpType /\ RequestType /\ Counts

\* The parts together say what TypeOK says,
LEMMA TypesAreTypeOK == Types => TypeOK
<1>1. events \in Seq(Reported) =>
        \A i \in 1 .. Len(events) :
          events[i] \in {"connected", "disconnected", "address", "resolved", "accepted", "rejected"}
  BY DEF Reported
<1>2. Len(statusPrefix) = 3
  BY DEF statusPrefix
<1> QED BY <1>1, <1>2 DEF Types, TypeOK, StationType, ClientType, StartType, ChipType, HttpType,
             RequestType, Counts, StatusTypes

\* and hold initially.
LEMMA TypesInit == Init => Types
<1>1. Init => response \in Seq(Tokens)
  BY ResponsesAssumption DEF Init, HttpInit, Tokens
<1>2. Init => StationType
  BY DEF Init, StationInit, StationType, StatusTypes
<1>3. Init => StartType
  BY DEF Init, StationInit, ChipStartInit, StartType
<1>4. Init => ChipType
  BY DEF Init, StationInit, ChipType
<1>5. Init => HttpType
  BY DEF Init, HttpInit, HttpType, PrefixRead
<1>6. Init => RequestType
  BY <1>1 DEF Init, StationInit, HttpInit, RequestType
<1>7. Init => Counts
  <2>1. MaxFailures \in Nat /\ RequestPieces \in Nat /\ maxTries \in Nat /\ maxAttempts \in Nat
    BY AttemptsAssumption, ResponsesAssumption, FailuresAssumption
       DEF AttemptsAssumption, ResponsesAssumption, FailuresAssumption
  <2>2. Init => failures = 0 /\ pieces = RequestPieces /\ nTries = 0 /\ nAttempts = 0
    BY DEF Init, StationInit, ChipStartInit, HttpInit
  <2> QED BY <2>1, <2>2 DEF Counts
<1>8. Init => ClientType
  BY <1>1 DEF Init, StationInit, ClientType
<1> QED BY <1>2, <1>3, <1>4, <1>5, <1>6, <1>7, <1>8 DEF Types

-----------------------------------------------------------------------------
(***************************************************************************)
(* What each kind of step leaves alone.                                    *)
(***************************************************************************)

\* Only init(), begin(), the request for the name and events change the station.
LEMMA StationKept ==
  ASSUME [Next]_vars,
         ~(initReturns \/ startConnect \/ startConnectFails
             \/ (\E timedOut \in BOOLEAN : startConnectEnds(timedOut))
             \/ (\E ok \in BOOLEAN : hostByName(ok))
             \/ (\E timedOut \in BOOLEAN : Resolved(timedOut)) \/ HandleEvent)
  PROVE  UNCHANGED station
<1>1. CASE player_begin \/ readyForData \/ setupReturns
  BY <1>1 DEF player_begin, readyForData, setupReturns, stationVars
<1>2. CASE begin \/ poll \/ check \/ polled \/ checked
  BY <1>2 DEF begin, poll, check, polled, checked, init, stationVars
<1>3. CASE beginConnects \/ \E timedOut \in BOOLEAN : beginEnds(timedOut)
  BY <1>3 DEF beginConnects, beginEnds
<1>4. CASE \E ok \in BOOLEAN : giveUp(ok)
  BY <1>4 DEF giveUp, disconnect
<1>5. CASE WiFiInit
  BY <1>5 DEF WiFiInit, initResets, initGoesOn
<1>6. CASE HttpGet
  BY <1>6 DEF HttpGet, connect, Connected, print, printAgain, finishHeaders, stationVars
<1>7. CASE HttpAnswer
  BY <1>7 DEF HttpAnswer, responseStatusCode, look, pause, read, readInvalid, readNothing,
              endOfLine, ReadsOn, stationVars
<1>8. CASE stationHandlesEvent \/ chip
  BY <1>8 DEF stationHandlesEvent, chip, ChipSteps, Reports
<1>9. CASE serverSends \/ serverCloses \/ UNCHANGED vars
  BY <1>9 DEF serverSends, serverCloses, vars, stationVars
<1> QED BY <1>1, <1>2, <1>3, <1>4, <1>5, <1>6, <1>7, <1>8, <1>9 DEF Next

\* Only the chip, its reset, requests and the handling of events change what it has to
\* report, and what it is doing.
LEMMA ChipKept ==
  ASSUME [Next]_vars,
         ~(initResets \/ startConnect \/ (\E ok \in BOOLEAN : disconnect(ok)) \/ ChipSteps
             \/ (\E ok \in BOOLEAN : hostByName(ok) \/ connect(ok)) \/ HandleEvent)
  PROVE  UNCHANGED theChip
<1>1. CASE player_begin \/ readyForData \/ setupReturns
  BY <1>1 DEF player_begin, readyForData, setupReturns, stationVars
<1>2. CASE begin \/ poll \/ check \/ polled \/ checked
  BY <1>2 DEF begin, poll, check, polled, checked, init, stationVars
<1>3. CASE beginConnects \/ \E timedOut \in BOOLEAN : beginEnds(timedOut)
  BY <1>3 DEF beginConnects, beginEnds, startConnectFails, startConnectEnds
<1>4. CASE \E ok \in BOOLEAN : giveUp(ok)
  BY <1>4 DEF giveUp
<1>5. CASE WiFiInit
  BY <1>5 DEF WiFiInit, initReturns, initGoesOn
<1>6. CASE HttpGet
  BY <1>6 DEF HttpGet, Resolved, Connected, print, printAgain, finishHeaders, stationVars
<1>7. CASE HttpAnswer
  BY <1>7 DEF HttpAnswer, responseStatusCode, look, pause, read, readInvalid, readNothing,
              endOfLine, ReadsOn, stationVars
<1>8. CASE stationHandlesEvent \/ chip
  BY <1>8 DEF stationHandlesEvent, chip
<1>9. CASE serverSends \/ serverCloses \/ UNCHANGED vars
  BY <1>9 DEF serverSends, serverCloses, vars, stationVars
<1> QED BY <1>1, <1>2, <1>3, <1>4, <1>5, <1>6, <1>7, <1>8, <1>9 DEF Next

\* Only a new connection, a read, the server and what closes the socket change the client.
LEMMA ClientKept ==
  ASSUME [Next]_vars,
         ~((\E ok \in BOOLEAN : disconnect(ok) \/ connect(ok))
             \/ (\E timedOut \in BOOLEAN : Connected(timedOut))
             \/ read \/ readInvalid \/ HandleEvent \/ serverSends \/ serverCloses)
  PROVE  UNCHANGED client
<1>1. CASE player_begin \/ readyForData \/ setupReturns
  BY <1>1 DEF player_begin, readyForData, setupReturns, stationVars
<1>2. CASE begin \/ poll \/ check \/ polled \/ checked
  BY <1>2 DEF begin, poll, check, polled, checked, init, stationVars
<1>3. CASE beginConnects \/ \E timedOut \in BOOLEAN : beginEnds(timedOut)
  BY <1>3 DEF beginConnects, beginEnds, startConnect, startConnectFails, ForgetsAddress,
              startConnectEnds
<1>4. CASE \E ok \in BOOLEAN : giveUp(ok)
  BY <1>4 DEF giveUp
<1>5. CASE WiFiInit
  BY <1>5 DEF WiFiInit, initReturns, initGoesOn, initResets
<1>6. CASE HttpGet
  BY <1>6 DEF HttpGet, hostByName, Resolved, print, printAgain, finishHeaders, stationVars
<1>7. CASE HttpAnswer
  BY <1>7 DEF HttpAnswer, responseStatusCode, look, pause, readNothing,
              endOfLine, ReadsOn, stationVars
<1>8. CASE stationHandlesEvent \/ chip
  BY <1>8 DEF stationHandlesEvent, chip, ChipSteps, Reports
<1>9. CASE serverSends \/ serverCloses \/ UNCHANGED vars
  BY <1>9 DEF vars, stationVars
<1> QED BY <1>1, <1>2, <1>3, <1>4, <1>5, <1>6, <1>7, <1>8, <1>9 DEF Next

\* The server has made up its mind.
LEMMA ResponseKept == ASSUME [Next]_vars PROVE response' = response
<1>1. CASE player_begin \/ readyForData \/ setupReturns
  BY <1>1 DEF player_begin, readyForData, setupReturns
<1>2. CASE begin \/ poll \/ check \/ polled \/ checked
  BY <1>2 DEF begin, poll, check, polled, checked
<1>3. CASE beginConnects \/ \E timedOut \in BOOLEAN : beginEnds(timedOut)
  BY <1>3 DEF beginConnects, beginEnds
<1>4. CASE (\E ok \in BOOLEAN : giveUp(ok)) \/ WiFiInit
  BY <1>4 DEF giveUp, WiFiInit, httpVars
<1>5. CASE HttpGet
  BY <1>5 DEF HttpGet, hostByName, Resolved, connect, Connected, print, printAgain, finishHeaders
<1>6. CASE HttpAnswer
  BY <1>6 DEF HttpAnswer, responseStatusCode, look, pause, read, readInvalid, readNothing,
              endOfLine, ReadsOn
<1>7. CASE stationHandlesEvent \/ chip \/ serverSends \/ serverCloses \/ UNCHANGED vars
  BY <1>7 DEF stationHandlesEvent, chip, serverSends, serverCloses, vars, httpVars
<1> QED BY <1>1, <1>2, <1>3, <1>4, <1>5, <1>6, <1>7 DEF Next

-----------------------------------------------------------------------------
(***************************************************************************)
(* Every step keeps the types.                                             *)
(***************************************************************************)

\* The state of the station keeps its types,
LEMMA StationTypeStep == ASSUME StationType, [Next]_vars PROVE StationType'
<1> USE DEF StationType, StatusTypes
<1>1. CASE initReturns
  BY <1>1 DEF initReturns
<1>2. CASE startConnect \/ startConnectFails
  BY <1>2 DEF startConnect, startConnectFails, ForgetsAddress
<1>3. CASE \E timedOut \in BOOLEAN : startConnectEnds(timedOut)
  BY <1>3 DEF startConnectEnds
<1>4. CASE (\E ok \in BOOLEAN : hostByName(ok)) \/ (\E timedOut \in BOOLEAN : Resolved(timedOut))
  BY <1>4 DEF hostByName, Resolved
<1>5. CASE HandleEvent
  BY <1>5 DEF HandleEvent, HandleConnected, ForgetsAddress, HandleDisconnected, HandleAddress,
              HandleResolved, HandleAnswer, station
<1>6. CASE UNCHANGED station
  BY <1>6 DEF station
<1> QED BY <1>1, <1>2, <1>3, <1>4, <1>5, <1>6, StationKept

\* so does what the client has read, which is never more than was sent,
LEMMA ClientTypeStep ==
  ASSUME ClientType, RequestType, [Next]_vars PROVE ClientType'
<1> USE DEF ClientType
<1>1. response' = response
  BY ResponseKept
<1>2. Len(response) \in Nat
  BY DEF RequestType
<1>3. CASE \E ok \in BOOLEAN : disconnect(ok) \/ connect(ok)
  BY <1>1, <1>2, <1>3 DEF disconnect, connect, ClosesSocket
<1>4. CASE \E timedOut \in BOOLEAN : Connected(timedOut)
  BY <1>1, <1>2, <1>4 DEF Connected, ClosesSocket, client
<1>5. CASE read \/ readInvalid
  BY <1>1, <1>2, <1>5 DEF read, readInvalid
<1>6. CASE HandleEvent
  <2>1. \/ ClosesSocket
        \/ UNCHANGED <<sent, received>> /\ socket' \in {socket, "connected", "none"}
    BY <1>6 DEF HandleEvent, HandleConnected, HandleDisconnected, HandleAddress, HandleResolved,
                HandleAnswer, client
  <2> QED BY <1>1, <1>2, <2>1 DEF ClosesSocket
<1>7. CASE serverSends \/ serverCloses
  BY <1>1, <1>2, <1>7 DEF serverSends, serverCloses, ClosesSocket
<1>8. CASE UNCHANGED client
  BY <1>1, <1>8 DEF client
<1> QED BY <1>3, <1>4, <1>5, <1>6, <1>7, <1>8, ClientKept

\* the chip, which only reports what there is to report,
LEMMA ChipTypeStep == ASSUME ChipType, [Next]_vars PROVE ChipType'
<1> USE DEF ChipType, Reported
<1>1. CASE initResets
  BY <1>1 DEF initResets
<1>7. CASE startConnect
  BY <1>7 DEF startConnect
<1>2. CASE \E ok \in BOOLEAN : disconnect(ok)
  BY <1>2 DEF disconnect, theChip
<1>3. CASE ChipSteps
  BY <1>3 DEF ChipSteps, Reports
<1>4. CASE \E ok \in BOOLEAN : hostByName(ok) \/ connect(ok)
  BY <1>4 DEF hostByName, connect, Asks
<1>5. CASE HandleEvent
  BY <1>5 DEF HandleEvent
<1>6. CASE UNCHANGED theChip
  BY <1>6 DEF theChip
<1> QED BY <1>1, <1>2, <1>3, <1>4, <1>5, <1>6, <1>7, ChipKept

\* Only the request and its answer change the HTTP client.
LEMMA HttpKept ==
  ASSUME [Next]_vars,
         ~((\E timedOut \in BOOLEAN : Connected(timedOut)) \/ finishHeaders
             \/ responseStatusCode \/ read \/ readInvalid \/ readNothing \/ endOfLine)
  PROVE  UNCHANGED http
<1>1. CASE player_begin \/ readyForData \/ setupReturns
  BY <1>1 DEF player_begin, readyForData, setupReturns
<1>2. CASE begin \/ poll \/ check \/ polled \/ checked
  BY <1>2 DEF begin, poll, check, polled, checked
<1>3. CASE beginConnects \/ \E timedOut \in BOOLEAN : beginEnds(timedOut)
  BY <1>3 DEF beginConnects, beginEnds
<1>4. CASE (\E ok \in BOOLEAN : giveUp(ok)) \/ WiFiInit
  BY <1>4 DEF giveUp, WiFiInit, httpVars
<1>5. CASE HttpGet
  BY <1>5 DEF HttpGet, hostByName, Resolved, connect, print, printAgain
<1>6. CASE HttpAnswer
  BY <1>6 DEF HttpAnswer, look, pause
<1>7. CASE stationHandlesEvent \/ chip \/ serverSends \/ serverCloses \/ UNCHANGED vars
  BY <1>7 DEF stationHandlesEvent, chip, serverSends, serverCloses, vars, httpVars
<1> QED BY <1>1, <1>2, <1>3, <1>4, <1>5, <1>6, <1>7 DEF Next

\* Once responseStatusCode() has been called, there is no way back.
LEMMA ReadingGoesOn ==
  ASSUME pc \in ReadingLines, [Next]_vars PROVE pc' \in ReadingLines
<1> USE DEF ReadingLines
<1>1. CASE player_begin \/ readyForData \/ setupReturns
  BY <1>1 DEF player_begin, readyForData, setupReturns
<1>2. CASE begin \/ poll \/ check \/ polled \/ checked
  BY <1>2 DEF begin, poll, check, polled, checked
<1>3. CASE beginConnects \/ \E timedOut \in BOOLEAN : beginEnds(timedOut)
  BY <1>3 DEF beginConnects, beginEnds
<1>4. CASE (\E ok \in BOOLEAN : giveUp(ok)) \/ WiFiInit
  BY <1>4 DEF giveUp, WiFiInit, httpVars
<1>5. CASE HttpGet
  BY <1>5 DEF HttpGet, hostByName, Resolved, connect, Connected, print, printAgain, finishHeaders
<1>6. CASE HttpAnswer
  BY <1>6 DEF HttpAnswer, responseStatusCode, look, pause, read, readInvalid, readNothing,
              endOfLine, Answers
<1>7. CASE stationHandlesEvent \/ chip \/ serverSends \/ serverCloses \/ UNCHANGED vars
  BY <1>7 DEF stationHandlesEvent, chip, serverSends, serverCloses, vars, httpVars
<1> QED BY <1>1, <1>2, <1>3, <1>4, <1>5, <1>6, <1>7 DEF Next

\* the reading of the status line, which stays within the prefix it looks for,
LEMMA HttpTypeStep ==
  ASSUME HttpType, ClientType, RequestType, [Next]_vars PROVE HttpType'
<1> USE DEF HttpType, PrefixRead
<1>1. CASE (\E timedOut \in BOOLEAN : Connected(timedOut)) \/ finishHeaders
  BY <1>1 DEF Connected, finishHeaders, ReadingLines
<1>2. CASE responseStatusCode
  BY <1>2 DEF responseStatusCode, StartOfLine, Answers, HTTP_ERROR_API, ReadingLines
<1>3. CASE read
  <2> DEFINE t == response[received + 1]
  <2>1. t.code \in Nat
    <3>1. response \in Seq(Tokens) /\ received + 1 \in 1 .. Len(response)
      BY <1>3 DEF read, ClientType, RequestType
    <3>2. t \in Tokens
      BY <3>1
    <3> QED BY <3>2 DEF Tokens
  <2>2. CASE iState = "eRequestSent"
    <3>1. Len(statusPrefix) = 3
      BY DEF statusPrefix
    <3> QED BY <1>3, <2>2, <3>1 DEF read, ReadingLines
  <2>3. CASE iState = "eReadingStatusCode"
    BY <1>3, <2>1, <2>3 DEF read, ReadingLines
  <2>4. CASE iState = "eStatusCodeRead"
    BY <1>3, <2>4 DEF read, ReadingLines
  <2> QED BY <1>3, <2>2, <2>3, <2>4 DEF read
<1>4. CASE readInvalid \/ readNothing
  BY <1>4 DEF readInvalid, readNothing, Answers, HTTP_ERROR_INVALID_RESPONSE, ReadingLines
<1>5. CASE endOfLine
  BY <1>5 DEF endOfLine, StartOfLine, Answers, HTTP_ERROR_TIMED_OUT,
              HTTP_ERROR_INVALID_RESPONSE, ReadingLines
<1>6. CASE UNCHANGED http
  BY <1>6, ReadingGoesOn DEF http
<1> QED BY <1>1, <1>2, <1>3, <1>4, <1>5, <1>6, HttpKept

\* and the request with its response.
LEMMA RequestTypeStep == ASSUME RequestType, [Next]_vars PROVE RequestType'
<1>1. response' = response
  BY ResponseKept
<1>2. refused' \in BOOLEAN /\ whole' \in BOOLEAN
  <2> USE DEF RequestType
  <2>1. CASE player_begin \/ readyForData \/ setupReturns
    BY <2>1 DEF player_begin, readyForData, setupReturns, stationVars, request
  <2>2. CASE begin \/ poll \/ check \/ polled \/ checked
    BY <2>2 DEF begin, poll, check, polled, checked, init, stationVars, request
  <2>3. CASE beginConnects \/ \E timedOut \in BOOLEAN : beginEnds(timedOut)
    BY <2>3 DEF beginConnects, beginEnds, startConnect, startConnectFails, ForgetsAddress,
                startConnectEnds, request
  <2>4. CASE \E ok \in BOOLEAN : giveUp(ok)
    BY <2>4 DEF giveUp, disconnect, request
  <2>5. CASE WiFiInit
    BY <2>5 DEF WiFiInit, initResets, initReturns, initGoesOn, httpVars, request
  <2>6. CASE HttpGet
    BY <2>6 DEF HttpGet, hostByName, Resolved, connect, Connected, print, printAgain,
                finishHeaders, Asks, stationVars, request
  <2>7. CASE HttpAnswer
    BY <2>7 DEF HttpAnswer, responseStatusCode, look, pause, read, readInvalid, readNothing,
                endOfLine, ReadsOn, stationVars, request
  <2>8. CASE stationHandlesEvent \/ chip \/ serverSends \/ serverCloses \/ UNCHANGED vars
    BY <2>8 DEF stationHandlesEvent, HandleEvent, chip, ChipSteps, Reports, serverSends,
                serverCloses, vars, stationVars, httpVars, request
  <2> QED BY <2>1, <2>2, <2>3, <2>4, <2>5, <2>6, <2>7, <2>8 DEF Next
<1> QED BY <1>1, <1>2 DEF RequestType

\* An access to the chip is counted when it fails.
LEMMA FailuresCounted ==
  ASSUME failures \in 0 .. MaxFailures, NEW ok \in BOOLEAN, spi_read_reg(ok)
  PROVE  failures' \in 0 .. MaxFailures
<1>1. MaxFailures \in Nat
  BY FailuresAssumption DEF FailuresAssumption
<1>2. failures' = failures \/ (failures < MaxFailures /\ failures' = failures + 1)
  BY DEF spi_read_reg
<1> QED BY <1>1, <1>2

\* No more accesses fail than may,
LEMMA FailuresStep ==
  ASSUME failures \in 0 .. MaxFailures, [Next]_vars PROVE failures' \in 0 .. MaxFailures
<1>1. CASE WiFiInit
  <2>1. CASE initResets \/ initReturns
    BY <2>1 DEF initResets, nm_bsp_init, initReturns
  <2>2. ASSUME NEW timedOut \in BOOLEAN, driverStep(timedOut)
        PROVE  failures' = failures \/ \E ok \in BOOLEAN : spi_read_reg(ok)
    BY <2>2 DEF driverStep, knownChip, nmi_get_chipid, nm_spi_init, readWithCrc, turnCrcOff,
                efuse, rom, chip_apply_conf, start, wait_for_firmware_start, enable_interrupts,
                hif_init, nm_get_firmware_full_info, spi_write_reg, nm_read_reg
  <2> QED BY <1>1, <2>1, <2>2, FailuresCounted DEF WiFiInit, initGoesOn
<1>2. CASE ~WiFiInit
  <2>1. CASE player_begin \/ readyForData \/ setupReturns
    BY <2>1 DEF player_begin, readyForData, setupReturns, stationVars, chipStartVars
  <2>2. CASE begin \/ poll \/ check \/ polled \/ checked
    BY <2>2 DEF begin, poll, check, polled, checked, init, stationVars, chipStartVars
  <2>3. CASE beginConnects \/ \E timedOut \in BOOLEAN : beginEnds(timedOut)
    BY <2>3 DEF beginConnects, beginEnds, startConnect, startConnectFails, ForgetsAddress,
                startConnectEnds, chipStartVars
  <2>4. CASE \E ok \in BOOLEAN : giveUp(ok)
    BY <2>4 DEF giveUp, disconnect, chipStartVars
  <2>5. CASE HttpGet
    BY <2>5 DEF HttpGet, hostByName, Resolved, connect, Connected, print, printAgain,
                finishHeaders, Asks, stationVars, chipStartVars
  <2>6. CASE HttpAnswer
    BY <2>6 DEF HttpAnswer, responseStatusCode, look, pause, read, readInvalid, readNothing,
                endOfLine, ReadsOn, stationVars, chipStartVars
  <2>7. CASE stationHandlesEvent \/ chip \/ serverSends \/ serverCloses \/ UNCHANGED vars
    BY <2>7 DEF stationHandlesEvent, HandleEvent, chip, ChipSteps, Reports, chipBoots,
                serverSends, serverCloses, vars, stationVars, chipStartVars
  <2> QED BY <1>2, <2>1, <2>2, <2>3, <2>4, <2>5, <2>6, <2>7 DEF Next
<1> QED BY <1>1, <1>2

\* and no more tries are made.
LEMMA CountsStep == ASSUME Counts, [Next]_vars PROVE Counts'
<1>0. RequestPieces \in Nat /\ maxTries \in Nat /\ maxAttempts \in Nat
  BY AttemptsAssumption, ResponsesAssumption DEF AttemptsAssumption, ResponsesAssumption
<1>1. failures' \in 0 .. MaxFailures
  BY FailuresStep DEF Counts
<1>2. /\ pieces' \in 0 .. RequestPieces
      /\ nTries' \in 0 .. maxTries /\ nAttempts' \in 0 .. maxAttempts
  <2> USE <1>0 DEF Counts
  <2>1. CASE player_begin
    BY <2>1 DEF player_begin, request
  <2>2. CASE polled
    BY <2>2 DEF polled, GivesUp, request
  <2>3. CASE \E ok \in BOOLEAN : print(ok) /\ UNCHANGED attempts
    BY <2>3 DEF print, request, attempts
  <2>4. CASE UNCHANGED <<pieces, attempts>>
    BY <2>4 DEF attempts
  <2>5. ASSUME ~(player_begin \/ polled \/ \E ok \in BOOLEAN : print(ok) /\ UNCHANGED attempts)
        PROVE  UNCHANGED <<pieces, attempts>>
    <3>1. CASE readyForData \/ setupReturns \/ begin \/ poll \/ check \/ checked
      BY <3>1 DEF readyForData, setupReturns, begin, poll, check, checked, request
    <3>2. CASE beginConnects \/ \E timedOut \in BOOLEAN : beginEnds(timedOut)
      BY <3>2 DEF beginConnects, beginEnds, request
    <3>3. CASE (\E ok \in BOOLEAN : giveUp(ok)) \/ WiFiInit
      BY <3>3 DEF giveUp, WiFiInit, httpVars, request
    <3>4. CASE HttpGet
      BY <2>5, <3>4 DEF HttpGet, hostByName, Resolved, connect, Connected, printAgain,
                        finishHeaders, request
    <3>5. CASE HttpAnswer
      BY <3>5 DEF HttpAnswer, responseStatusCode, look, pause, read, readInvalid, readNothing,
                  endOfLine, ReadsOn, request
    <3>6. CASE stationHandlesEvent \/ chip \/ serverSends \/ serverCloses \/ UNCHANGED vars
      BY <3>6 DEF stationHandlesEvent, chip, serverSends, serverCloses, vars, httpVars, request
    <3> QED BY <2>5, <3>1, <3>2, <3>3, <3>4, <3>5, <3>6 DEF Next
  <2> QED BY <2>1, <2>2, <2>3, <2>4, <2>5
<1> QED BY <1>1, <1>2 DEF Counts

\* So every variable keeps its type.
LEMMA TypesStep == ASSUME Types, DriverInv, [Next]_vars PROVE Types'
<1>1. StartType'
  BY DriverStep DEF DriverInv, StartType
<1>2. StationType' /\ ChipType' /\ RequestType' /\ Counts'
  BY StationTypeStep, ChipTypeStep, RequestTypeStep, CountsStep DEF Types
<1>3. ClientType' /\ HttpType'
  BY ClientTypeStep, HttpTypeStep DEF Types
<1> QED BY <1>1, <1>2, <1>3 DEF Types

\* setup() never leaves its types, whatever the tries, the failures and the responses.
THEOREM TypeCorrect == Spec => []TypeOK
<1>1. Init => Types /\ DriverInv
  BY TypesInit, DriverInit
<1>2. Types /\ DriverInv /\ [Next]_vars => (Types /\ DriverInv)'
  BY TypesStep, DriverStep
<1> QED BY <1>1, <1>2, TypesAreTypeOK, PTL DEF Spec

\* Driver and chip agree on checksums whenever a start tries to find out and after one
\* has succeeded: the value that nmi_get_chipid() keeps is what a second start relies on.
THEOREM ChecksumsAlwaysAgree == Spec => []ChecksumsAgree
<1>1. DriverInv => ChecksumsAgree
  BY DEF DriverInv, ChecksumsAgree, Understands, AfterId, InInit
<1> QED BY <1>1, DriverInit, DriverStep, PTL DEF Spec

-----------------------------------------------------------------------------
(***************************************************************************)
(* The WLAN, and the reports of its loss.                                  *)
(***************************************************************************)

\* Past the i-th report either the WLAN is still there or its loss is reported.
Supervised(i) ==
  link = "online" \/ \E j \in i + 1 .. Len(events) : events[j] = "disconnected"

\* A new report hides no loss, and the one that ends the WLAN is one.
LEMMA ReportSupervises ==
  ASSUME ChipType, NEW e \in Reported, events' = Append(events, e),
         link = "online" => link' = "online" \/ e = "disconnected",
         NEW i \in 0 .. Len(events), Supervised(i)
  PROVE  Supervised(i)'
<1>1. Len(events') = Len(events) + 1 /\ events'[Len(events) + 1] = e
      /\ \A j \in 1 .. Len(events) : events'[j] = events[j]
  BY DEF ChipType
<1>2. Len(events) \in Nat
  BY DEF ChipType
<1>3. CASE link' = "online"
  BY <1>3 DEF Supervised
<1>4. CASE link = "online" /\ link' # "online"
  BY <1>1, <1>2, <1>4 DEF Supervised
<1>5. CASE link # "online"
  <2>1. PICK j \in i + 1 .. Len(events) : events[j] = "disconnected"
    BY <1>5 DEF Supervised
  <2>2. j \in i + 1 .. Len(events') /\ events'[j] = "disconnected"
    BY <1>1, <1>2, <2>1
  <2> QED BY <2>2 DEF Supervised
<1> QED BY <1>3, <1>4, <1>5

\* The reports move up by one when the first of them is handled.
LEMMA HandledSupervises ==
  ASSUME ChipType, events # << >>, events' = Tail(events), link' = link,
         NEW i \in 0 .. Len(events) - 1, Supervised(i + 1)
  PROVE  Supervised(i)'
<1>1. Len(events') = Len(events) - 1 /\ \A j \in 1 .. Len(events) - 1 : events'[j] = events[j + 1]
  BY DEF ChipType
<1>2. Len(events) \in Nat
  BY DEF ChipType
<1>3. CASE link = "online"
  BY <1>3 DEF Supervised
<1>4. CASE link # "online"
  <2>1. PICK j \in i + 2 .. Len(events) : events[j] = "disconnected"
    BY <1>4 DEF Supervised
  <2>2. j - 1 \in i + 1 .. Len(events') /\ events'[j - 1] = "disconnected"
    BY <1>1, <1>2, <2>1
  <2> QED BY <2>2 DEF Supervised
<1> QED BY <1>3, <1>4

\* Handling another report than the loss hides no loss.
LEMMA OtherSupervises ==
  ASSUME ChipType, events # << >>, Head(events) # "disconnected", Supervised(0)
  PROVE  Supervised(1)
<1>1. Len(events) \in Nat /\ Head(events) = events[1]
  BY DEF ChipType
<1> QED BY <1>1 DEF Supervised

BeforeJoin == {"player", "dreq", "begin", "startConnect"}
BeforeSocket == BeforeJoin \union {"joining", "poll", "polled", "check", "checked", "giveUp",
                                   "get", "resolving", "connect"}
AfterCheck == {"get", "resolving", "connect", "connecting", "request", "retry", "status"}
                \union ReadingLines

\* Every report that brings something up, an address or a connection, is followed by
\* that of its loss if it has been lost, and so is what the station and the client have
\* made of it.  Without the mode in which a loss would be noticed nothing can come
\* up any more, unless the chip did not take the request to leave.
WlanInv ==
  /\ \A i \in 1 .. Len(events) : events[i] = "address" => Supervised(i)
  /\ \A i \in 1 .. Len(events) : events[i] = "accepted" =>
       pc \in AfterCheck /\ (refused \/ (mode = WL_STA_MODE /\ Supervised(i)))
  /\ pc \in BeforeJoin => link = "down" /\ events = << >>
  /\ status = WL_CONNECTED =>
       mode = WL_STA_MODE /\ (initialised => localip /\ Supervised(0))
  /\ pc \in AfterCheck /\ mode # WL_STA_MODE => refused \/ link = "down"
  /\ socket = "connected" => refused \/ (mode = WL_STA_MODE /\ Supervised(0))
  /\ asked # "nothing" => pc \in AfterCheck
  /\ pc \in BeforeSocket => socket = "none"

\* Initially there is no WLAN to lose.
LEMMA WlanInit == Init => WlanInv
BY DEF Init, StationInit, WlanInv, WL_NO_SHIELD, WL_CONNECTED, AfterCheck, BeforeSocket,
       BeforeJoin, ReadingLines

\* The order of the steps of setup().
LEMMA Order ==
  ASSUME [Next]_vars
  PROVE  /\ pc' \in BeforeJoin => pc \in BeforeJoin
         /\ pc' \in BeforeSocket => pc \in BeforeSocket
         /\ pc \in AfterCheck => pc' \in AfterCheck
         /\ pc \notin AfterCheck /\ pc' \in AfterCheck =>
              (checked /\ status = WL_CONNECTED) \/ \E ok \in BOOLEAN : giveUp(ok)
<1> USE DEF BeforeJoin, BeforeSocket, AfterCheck, ReadingLines
<1>1. CASE player_begin \/ readyForData \/ setupReturns
  BY <1>1 DEF player_begin, readyForData, setupReturns
<1>2. CASE begin \/ poll \/ check \/ polled
  BY <1>2 DEF begin, poll, check, polled
<1>3. CASE checked
  BY <1>3 DEF checked, Unconnected
<1>4. CASE beginConnects \/ \E timedOut \in BOOLEAN : beginEnds(timedOut)
  BY <1>4 DEF beginConnects, beginEnds
<1>5. CASE (\E ok \in BOOLEAN : giveUp(ok))
  BY <1>5 DEF giveUp
<1>6. CASE HttpGet
  BY <1>6 DEF HttpGet, hostByName, Resolved, connect, Connected, print, printAgain, finishHeaders
<1>7. CASE HttpAnswer
  BY <1>7 DEF HttpAnswer, responseStatusCode, look, pause, read, readInvalid, readNothing,
              endOfLine, Answers
<1>8. CASE WiFiInit \/ stationHandlesEvent \/ chip \/ serverSends \/ serverCloses \/ UNCHANGED vars
  BY <1>8 DEF WiFiInit, stationHandlesEvent, chip, serverSends, serverCloses, vars, httpVars
<1> QED BY <1>1, <1>2, <1>3, <1>4, <1>5, <1>6, <1>7, <1>8 DEF Next

\* A step that leaves the station and the chip alone, and at most closes the socket.
LEMMA WlanIdle ==
  ASSUME WlanInv, [Next]_vars, ~\E ok \in BOOLEAN : giveUp(ok),
         UNCHANGED <<theChip, initialised, status, mode, localip, refused>>,
         socket' \in {socket, "none"}
  PROVE  WlanInv'
<1>1. \A i : Supervised(i)' <=> Supervised(i)
  BY DEF Supervised, theChip
<1>2. pc' \in AfterCheck /\ mode # WL_STA_MODE => refused \/ link = "down"
  BY Order DEF WlanInv
<1>3. pc' \in BeforeJoin => link = "down" /\ events = << >>
  BY Order DEF WlanInv
<1>4. pc' \in BeforeSocket => socket' = "none"
  BY Order DEF WlanInv
<1>5. pc \in AfterCheck => pc' \in AfterCheck
  BY Order
<1> QED BY <1>1, <1>2, <1>3, <1>4, <1>5 DEF WlanInv, theChip

\* A report of the chip is behind the ones before it: a loss it made is reported.
LEMMA WlanReports ==
  ASSUME WlanInv, Types, ChipSteps, UNCHANGED pc PROVE WlanInv'
<1>1. PICK e \in Reported : events' = Append(events, e)
  BY DEF ChipSteps, Reports, Reported
<1>2. UNCHANGED <<station, client, refused>>
  BY DEF ChipSteps, Reports
<1>3. link = "online" => link' = "online" \/ e = "disconnected"
  BY <1>1 DEF ChipSteps, Reports, Types, ChipType
<1>4. ASSUME NEW i \in 0 .. Len(events), Supervised(i) PROVE Supervised(i)'
  BY <1>1, <1>3, <1>4, ReportSupervises DEF Types
<1>5. /\ Len(events) \in Nat /\ Len(events') = Len(events) + 1
      /\ events'[Len(events) + 1] = e /\ \A i \in 1 .. Len(events) : events'[i] = events[i]
  BY <1>1 DEF Types, ChipType
<1>6. e \in {"address", "accepted"} => link' = "online"
  BY <1>1, <1>5 DEF ChipSteps, Reports
<1>7. e = "accepted" => pc \in AfterCheck /\ (refused \/ mode = WL_STA_MODE)
  <2>1. e = "accepted" => link = "online" /\ asked = "connection"
    BY <1>1, <1>5 DEF ChipSteps, Reports
  <2> QED BY <2>1 DEF WlanInv
<1>8. link # "down" /\ pc \notin BeforeJoin
  BY DEF ChipSteps, WlanInv
<1>9. asked' # "nothing" => asked # "nothing"
  BY DEF ChipSteps, Reports
<1>10. link' = "online" => \A i : Supervised(i)'
  BY DEF Supervised
<1>11. \A i \in 1 .. Len(events') : events'[i] = "address" => Supervised(i)'
  BY <1>4, <1>5, <1>6, <1>10 DEF WlanInv
<1>12. \A i \in 1 .. Len(events') : events'[i] = "accepted" =>
         pc \in AfterCheck /\ (refused \/ (mode = WL_STA_MODE /\ Supervised(i)'))
  BY <1>4, <1>5, <1>6, <1>7, <1>10 DEF WlanInv
<1>13. Supervised(0) => Supervised(0)'
  BY <1>4, <1>5
<1>14. pc \in AfterCheck /\ mode # WL_STA_MODE => refused
  BY <1>8 DEF WlanInv
<1> QED BY <1>2, <1>8, <1>9, <1>11, <1>12, <1>13, <1>14 DEF WlanInv, station, client

\* Handling a report takes it from the front, and notices the loss if it is one.
LEMMA WlanHandles ==
  ASSUME WlanInv, Types, HandleEvent, UNCHANGED pc PROVE WlanInv'
<1>1. events # << >> /\ events' = Tail(events) /\ UNCHANGED <<link, asked, refused>>
  BY DEF HandleEvent
<1>2. /\ Len(events) \in Nat \ {0} /\ Len(events') = Len(events) - 1
      /\ Head(events) = events[1] /\ \A i \in 1 .. Len(events) - 1 : events'[i] = events[i + 1]
  BY <1>1 DEF Types, ChipType
<1>3. ASSUME NEW i \in 0 .. Len(events) - 1, Supervised(i + 1) PROVE Supervised(i)'
  BY <1>1, <1>3, HandledSupervises DEF Types
<1>4. Head(events) # "disconnected" /\ Supervised(0) => Supervised(0)'
  <2>1. Head(events) # "disconnected" /\ Supervised(0) => Supervised(1)
    BY <1>1, OtherSupervises DEF Types
  <2> QED BY <1>2, <1>3, <2>1
<1>5. UNCHANGED <<initialised, mode>>
  BY DEF HandleEvent, HandleConnected, ForgetsAddress, HandleDisconnected, HandleAddress,
         HandleResolved, HandleAnswer, station
<1>6. \A i \in 1 .. Len(events') : events'[i] = "address" => Supervised(i)'
  BY <1>2, <1>3 DEF WlanInv
<1>7. \A i \in 1 .. Len(events') : events'[i] = "accepted" =>
        pc \in AfterCheck /\ (refused \/ (mode = WL_STA_MODE /\ Supervised(i)'))
  BY <1>2, <1>3 DEF WlanInv
<1>8. status' = WL_CONNECTED =>
        mode = WL_STA_MODE /\ (initialised => localip' /\ Supervised(0)')
  <2>1. CASE Head(events) = "disconnected"
    BY <2>1 DEF HandleEvent, HandleConnected, ForgetsAddress, HandleDisconnected, HandleAddress,
                HandleResolved, HandleAnswer, WlanInv, WL_DISCONNECTED, WL_CONNECTED
  <2>2. CASE Head(events) = "address"
    <3>1. Supervised(1)
      BY <1>2, <2>2 DEF WlanInv
    <3>2. Supervised(0)'
      BY <1>2, <1>3, <3>1
    <3> QED BY <2>2, <3>2 DEF HandleEvent, HandleConnected, ForgetsAddress, HandleDisconnected,
                              HandleAddress, HandleResolved, HandleAnswer, WlanInv
  <2>3. CASE Head(events) \notin {"disconnected", "address"}
    <3>1. /\ localip' = localip
          /\ status' = status \/ (mode = WL_STA_MODE /\ ~initialised)
      BY <2>3 DEF dhcp, HandleEvent, HandleConnected, ForgetsAddress, HandleDisconnected,
                  HandleAddress, HandleResolved, HandleAnswer, station
    <3> QED BY <1>4, <2>3, <3>1 DEF WlanInv
  <2> QED BY <2>1, <2>2, <2>3
<1>9. socket' = "connected" => refused \/ (mode = WL_STA_MODE /\ Supervised(0)')
  <2>1. CASE Head(events) = "disconnected"
    BY <2>1 DEF HandleEvent, HandleConnected, ForgetsAddress, HandleDisconnected, HandleAddress,
                HandleResolved, HandleAnswer, ClosesSocket, WlanInv, client
  <2>2. CASE Head(events) = "accepted"
    BY <1>2, <1>3, <2>2 DEF WlanInv
  <2>3. CASE Head(events) \notin {"disconnected", "accepted"}
    <3>1. socket' = "connected" => socket = "connected"
      BY <2>3 DEF HandleEvent, HandleConnected, ForgetsAddress, HandleDisconnected,
                  HandleAddress, HandleResolved, HandleAnswer, client
    <3> QED BY <1>4, <2>3, <3>1 DEF WlanInv
  <2> QED BY <2>1, <2>2, <2>3
<1>10. socket = "none" => socket' = "none"
  BY DEF HandleEvent, HandleConnected, ForgetsAddress, HandleDisconnected, HandleAddress,
         HandleResolved, HandleAnswer, ClosesSocket, client
<1> QED BY <1>1, <1>5, <1>6, <1>7, <1>8, <1>9, <1>10 DEF WlanInv

\* Leaving the WLAN ends the supervision, and nothing depends on it any more.
LEMMA WlanGivesUp ==
  ASSUME WlanInv, Types, NEW ok \in BOOLEAN, giveUp(ok) PROVE WlanInv'
<1>1. /\ pc = "giveUp" /\ pc' = "get" /\ refused' = (refused \/ ~ok) /\ socket' = "none"
      /\ UNCHANGED <<initialised, status, mode, localip>>
  BY DEF giveUp, disconnect, ClosesSocket, station
<1>2. pc \notin AfterCheck /\ "get" \in AfterCheck /\ "get" \notin BeforeJoin
  BY <1>1 DEF AfterCheck, ReadingLines, BeforeJoin
<1>3. \A i \in 1 .. Len(events) : events[i] # "accepted"
  BY <1>2 DEF WlanInv
<1>4. refused' \/ link' = "down"
  BY <1>1 DEF giveUp, disconnect, theChip
<1>5. CASE events' = Append(events, "disconnected") /\ link' = "down" /\ asked' = "nothing"
  <2>1. /\ Len(events) \in Nat /\ Len(events') = Len(events) + 1
        /\ events'[Len(events) + 1] = "disconnected"
        /\ \A i \in 1 .. Len(events) : events'[i] = events[i]
    BY <1>5 DEF Types, ChipType
  <2>2. ASSUME NEW i \in 0 .. Len(events) PROVE Supervised(i)'
    <3>1. Len(events) + 1 \in i + 1 .. Len(events')
      BY <2>1
    <3> QED BY <2>1, <3>1 DEF Supervised
  <2>3. \A i \in 1 .. Len(events') : events'[i] = "address" => Supervised(i)'
    BY <2>1, <2>2
  <2>4. \A i \in 1 .. Len(events') : events'[i] # "accepted"
    BY <1>3, <2>1
  <2>5. Supervised(0)'
    BY <2>1, <2>2
  <2> QED BY <1>1, <1>2, <1>4, <1>5, <2>3, <2>4, <2>5 DEF WlanInv
<1>6. CASE UNCHANGED theChip
  <2>1. \A i : Supervised(i)' <=> Supervised(i)
    BY <1>6 DEF Supervised, theChip
  <2> QED BY <1>1, <1>2, <1>3, <1>4, <1>6, <2>1 DEF WlanInv, theChip
<1> QED BY <1>5, <1>6 DEF giveUp, disconnect

\* begin() starts the supervision, or sets the mode back when it times out.
LEMMA WlanBegins ==
  ASSUME WlanInv, beginConnects \/ \E timedOut \in BOOLEAN : beginEnds(timedOut)
  PROVE  WlanInv'
<1> USE DEF BeforeJoin, BeforeSocket, AfterCheck, ReadingLines
<1>1. CASE beginConnects
  <2>1. pc = "startConnect" /\ pc' \in {"joining", "poll"} /\ events' = << >> /\ socket' = "none"
        /\ asked' = asked
    BY <1>1 DEF beginConnects, startConnect, startConnectFails, ForgetsAddress, WlanInv, client,
                theChip
  <2>2. status' # WL_CONNECTED
    <3>1. status' \in {WL_CONNECT_FAILED, WL_IDLE_STATUS}
      BY <1>1 DEF beginConnects, startConnect, startConnectFails, ForgetsAddress
    <3> QED BY <3>1 DEF WL_CONNECT_FAILED, WL_IDLE_STATUS, WL_CONNECTED
  <2> QED BY <2>1, <2>2 DEF WlanInv
<1>2. ASSUME NEW timedOut \in BOOLEAN, beginEnds(timedOut) PROVE WlanInv'
  <2>1. /\ pc = "joining" /\ pc' = "poll"
        /\ UNCHANGED <<initialised, status, localip, client, theChip, refused>>
    BY <1>2 DEF beginEnds, startConnectEnds
  <2>2. status = WL_CONNECTED => mode' = mode
    <3>1. status = WL_CONNECTED => isConnected
      BY DEF isConnected, SharesBit, WL_CONNECTED
    <3> QED BY <1>2, <3>1 DEF beginEnds, startConnectEnds
  <2>3. \A i : Supervised(i)' <=> Supervised(i)
    BY <2>1 DEF Supervised, theChip
  <2> QED BY <2>1, <2>2, <2>3 DEF WlanInv, client, theChip
<1> QED BY <1>1, <1>2

\* A start of the chip forgets the WLAN and its reports.
LEMMA WlanStarts ==
  ASSUME WlanInv, DriverInv, WiFiInit, [Next]_vars PROVE WlanInv'
<1>1. pc' = pc
  BY DEF WiFiInit, httpVars
<1>2. CASE initResets
  <2>1. ~initialised /\ pc \in {"startConnect", "polled", "checked"}
    BY <1>2 DEF initResets, nm_bsp_init, At, DriverInv, InInit
  <2>2. socket' = "none" /\ link' = "down" /\ asked' = "nothing" /\ events' = << >>
        /\ UNCHANGED <<station, refused>>
    BY <1>2, <2>1 DEF initResets, WlanInv, client, BeforeSocket, BeforeJoin
  <2>3. pc \notin AfterCheck
    BY <2>1 DEF AfterCheck, ReadingLines
  <2> QED BY <1>1, <2>1, <2>2, <2>3 DEF WlanInv, station
<1>3. CASE initReturns
  <2>1. /\ UNCHANGED <<theChip, mode, refused, client>>
        /\ status' = WL_IDLE_STATUS
             \/ UNCHANGED <<initialised, status, localip>>
    BY <1>3 DEF initReturns
  <2>2. \A i : Supervised(i)' <=> Supervised(i)
    BY <2>1 DEF Supervised, theChip
  <2>3. status' = WL_CONNECTED =>
          status = WL_CONNECTED /\ UNCHANGED <<initialised, localip>>
    BY <2>1 DEF WL_IDLE_STATUS, WL_CONNECTED
  <2> QED BY <1>1, <2>1, <2>2, <2>3 DEF WlanInv, theChip, client
<1>4. CASE \E timedOut \in BOOLEAN : initGoesOn(timedOut)
  <2>1. UNCHANGED <<theChip, initialised, status, mode, localip, refused>> /\ socket' = socket
    BY <1>4 DEF initGoesOn, station, client
  <2>2. ~\E ok \in BOOLEAN : giveUp(ok)
    BY <1>1 DEF giveUp
  <2> QED BY <2>1, <2>2, WlanIdle
<1> QED BY <1>2, <1>3, <1>4 DEF WiFiInit

\* A request to the chip leaves the WLAN as it is.
LEMMA WlanAsks ==
  ASSUME WlanInv, NEW ok \in BOOLEAN, hostByName(ok) \/ connect(ok) PROVE WlanInv'
<1>1. /\ pc \in {"get", "connect"} /\ pc' \in {"resolving", "connecting", "status"}
      /\ UNCHANGED <<link, events, initialised, status, mode, localip, refused>>
  BY DEF hostByName, connect, Asks, station
<1>2. socket = "none" /\ socket' \in {"none", "connecting"} /\ (pc' = "resolving" => socket' = "none")
  BY DEF hostByName, connect, client, WlanInv, BeforeSocket
<1>3. pc \in AfterCheck /\ pc' \in AfterCheck /\ pc' \notin BeforeJoin
  BY <1>1 DEF AfterCheck, BeforeJoin, ReadingLines
<1>4. \A i : Supervised(i)' <=> Supervised(i)
  BY <1>1 DEF Supervised
<1>5. pc' \in BeforeSocket => socket' = "none"
  BY <1>1, <1>2 DEF BeforeSocket, BeforeJoin
<1> QED BY <1>1, <1>2, <1>3, <1>4, <1>5 DEF WlanInv

\* So every step keeps the losses supervised.
LEMMA WlanStep ==
  ASSUME WlanInv, Types, DriverInv, [Next]_vars PROVE WlanInv'
<1>1. CASE chip
  <2>1. CASE ChipSteps
    BY <1>1, <2>1, WlanReports DEF chip, httpVars
  <2>2. CASE UNCHANGED <<station, client, theChip, refused>>
    BY <1>1, <2>2, WlanIdle DEF chip, httpVars, station, client, giveUp
  <2> QED BY <1>1, <2>1, <2>2 DEF chip
<1>2. CASE stationHandlesEvent
  BY <1>2, WlanHandles DEF stationHandlesEvent, httpVars
<1>3. CASE (\E ok \in BOOLEAN : giveUp(ok))
  BY <1>3, WlanGivesUp
<1>4. CASE beginConnects \/ \E timedOut \in BOOLEAN : beginEnds(timedOut)
  BY <1>4, WlanBegins
<1>5. CASE WiFiInit
  BY <1>5, WlanStarts
<1>6. CASE \E ok \in BOOLEAN : hostByName(ok) \/ connect(ok)
  BY <1>6, WlanAsks
<1>7. ASSUME ~chip, ~stationHandlesEvent, ~(\E ok \in BOOLEAN : giveUp(ok)), ~WiFiInit,
             ~(beginConnects \/ \E timedOut \in BOOLEAN : beginEnds(timedOut)),
             ~(\E ok \in BOOLEAN : hostByName(ok) \/ connect(ok))
      PROVE  WlanInv'
  <2>1. /\ UNCHANGED <<theChip, initialised, status, mode, localip, refused>>
        /\ socket' \in {socket, "none"}
    <3>1. CASE player_begin \/ readyForData \/ setupReturns
      BY <3>1 DEF player_begin, readyForData, setupReturns, stationVars, station, client
    <3>2. CASE begin \/ poll \/ check \/ polled \/ checked
      BY <3>2 DEF begin, poll, check, polled, checked, init, stationVars, station, client
    <3>3. CASE HttpGet
      BY <1>7, <3>3 DEF HttpGet, Resolved, Connected, print, printAgain, finishHeaders,
                  ClosesSocket, stationVars, station, client
    <3>4. CASE HttpAnswer
      BY <3>4 DEF HttpAnswer, responseStatusCode, look, pause, read, readInvalid, readNothing,
                  endOfLine, ReadsOn, stationVars, station, client
    <3>5. CASE serverSends \/ serverCloses \/ UNCHANGED vars
      BY <3>5 DEF serverSends, serverCloses, ClosesSocket, vars, stationVars, station, client
    <3> QED BY <1>7, <3>1, <3>2, <3>3, <3>4, <3>5 DEF Next
  <2> QED BY <1>7, <2>1, WlanIdle
<1> QED BY <1>1, <1>2, <1>3, <1>4, <1>5, <1>6, <1>7

StartupInv == Types /\ DriverInv /\ WlanInv

\* The three parts hold together, always.
LEMMA StartupInvHolds == Spec => []StartupInv
<1>1. Init => StartupInv
  BY TypesInit, DriverInit, WlanInit DEF StartupInv
<1>2. StartupInv /\ [Next]_vars => StartupInv'
  BY TypesStep, DriverStep, WlanStep DEF StartupInv
<1> QED BY <1>1, <1>2, PTL DEF Spec

\* A station that says it is connected is in the mode in which it notices the loss of the
\* WLAN; from the first init() that succeeded on, it also has an address, and a loss it
\* has not noticed yet is on its way.
THEOREM ConnectedIsSupervised == Spec => []ConnectedMeansSupervised
<1>1. StartupInv => ConnectedMeansSupervised
  <2>1. Types => Len(events) \in Nat
    BY DEF Types, ChipType
  <2> QED BY <2>1 DEF StartupInv, WlanInv, ConnectedMeansSupervised, Supervised
<1> QED BY <1>1, StartupInvHolds, PTL

\* A socket that has lost its WLAN will be closed, unless the chip did not take
\* the request to leave.
THEOREM LossReachesSockets == Spec => []LossClosesSockets
<1>1. StartupInv => LossClosesSockets
  <2>1. Types => Len(events) \in Nat
    BY DEF Types, ChipType
  <2> QED BY <2>1 DEF StartupInv, WlanInv, LossClosesSockets, Supervised
<1> QED BY <1>1, StartupInvHolds, PTL

-----------------------------------------------------------------------------
(***************************************************************************)
(* The WLAN is joined once, by begin().                                    *)
(***************************************************************************)

\* What a library that waits for the WLAN takes as its being joined, and that it
\* cannot come any more.
Rises == {"connected", "address"}
Quiet == link = "down" /\ \A i \in 1 .. Len(events) : events[i] \notin Rises

\* A loss ends what begin() has started, and is the last that is reported of it; a wait
\* that timed out takes the mode away; and another start of the chip empties its reports
\* before it resets the status.
OnceInv ==
  /\ \A i \in 1 .. Len(events) : events[i] = "disconnected" =>
       link = "down" /\ \A j \in i + 1 .. Len(events) : events[j] \notin Rises
  /\ pc = "joining" /\ status \notin {WL_IDLE_STATUS, WL_CONNECTED} => Quiet
  /\ pc \notin BeforeJoin \union {"joining"} /\ mode = WL_STA_MODE /\ status # WL_CONNECTED
       => Quiet
  /\ step \in InInit \ {"bsp"} => link = "down" /\ events = << >>

\* begin() is entered and left by these steps only.
LEMMA JoinOrder ==
  ASSUME [Next]_vars, ~beginConnects, ~\E timedOut \in BOOLEAN : beginEnds(timedOut)
  PROVE  /\ pc \in BeforeJoin <=> pc' \in BeforeJoin
         /\ pc = "joining" <=> pc' = "joining"
<1> USE DEF BeforeJoin
<1>1. CASE player_begin \/ readyForData \/ setupReturns
  BY <1>1 DEF player_begin, readyForData, setupReturns
<1>2. CASE begin \/ poll \/ check \/ polled
  BY <1>2 DEF begin, poll, check, polled
<1>3. CASE checked \/ \E ok \in BOOLEAN : giveUp(ok)
  BY <1>3 DEF checked, Unconnected, giveUp
<1>4. CASE HttpGet
  BY <1>4 DEF HttpGet, hostByName, Resolved, connect, Connected, print, printAgain, finishHeaders
<1>5. CASE HttpAnswer
  BY <1>5 DEF HttpAnswer, responseStatusCode, look, pause, read, readInvalid, readNothing,
              endOfLine, Answers
<1>6. CASE WiFiInit \/ stationHandlesEvent \/ chip \/ serverSends \/ serverCloses \/ UNCHANGED vars
  BY <1>6 DEF WiFiInit, stationHandlesEvent, chip, serverSends, serverCloses, vars, httpVars
<1> QED BY <1>1, <1>2, <1>3, <1>4, <1>5, <1>6 DEF Next

\* A step that leaves alone what the library and the chip know of the WLAN.
LEMMA OnceIdle ==
  ASSUME OnceInv, UNCHANGED <<link, events, status, mode>>,
         pc \in BeforeJoin <=> pc' \in BeforeJoin, pc = "joining" <=> pc' = "joining",
         step' \in {step, "returned", "bsp"}
  PROVE  OnceInv'
<1>1. "returned" \notin InInit
  BY DEF InInit, AfterId
<1> QED BY <1>1 DEF OnceInv, Quiet

\* The chip reports nothing when it is down, and with a loss it is.
LEMMA OnceReports ==
  ASSUME OnceInv, Types, ChipSteps, UNCHANGED pc PROVE OnceInv'
<1>1. link # "down" /\ UNCHANGED <<station, chipStartVars>>
  BY DEF ChipSteps, Reports
<1>2. PICK e \in Reported : events' = Append(events, e) /\ (e = "disconnected" => link' = "down")
  <2>1. \/ events' = Append(events, "connected") \/ events' = Append(events, "address")
        \/ events' = Append(events, "disconnected") /\ link' = "down"
        \/ events' = Append(events, "resolved") \/ events' = Append(events, "accepted")
        \/ events' = Append(events, "rejected")
    BY DEF ChipSteps, Reports
  <2> QED BY <2>1 DEF Reported
<1>3. /\ Len(events) \in Nat /\ Len(events') = Len(events) + 1
      /\ events'[Len(events) + 1] = e /\ \A i \in 1 .. Len(events) : events'[i] = events[i]
  BY <1>2 DEF Types, ChipType
<1>4. \A i \in 1 .. Len(events) : events[i] # "disconnected"
  BY <1>1 DEF OnceInv
<1>5. ASSUME NEW i \in 1 .. Len(events'), events'[i] = "disconnected"
      PROVE  link' = "down" /\ i = Len(events')
  BY <1>2, <1>3, <1>4, <1>5
<1>6. \A i \in 1 .. Len(events') : events'[i] = "disconnected" =>
        link' = "down" /\ \A j \in i + 1 .. Len(events') : events'[j] \notin Rises
  BY <1>3, <1>5
<1>7. ~Quiet /\ step \notin InInit \ {"bsp"}
  BY <1>1 DEF OnceInv, Quiet
<1> QED BY <1>1, <1>6, <1>7 DEF OnceInv, station, chipStartVars, driver

\* When a report is handled, the ones behind it move up, and a loss leaves nothing that joins.
LEMMA OnceHandles ==
  ASSUME OnceInv, Types, HandleEvent, UNCHANGED pc PROVE OnceInv'
<1>1. events # << >> /\ events' = Tail(events) /\ UNCHANGED <<link, mode, chipStartVars>>
  BY DEF HandleEvent, HandleConnected, ForgetsAddress, HandleDisconnected, HandleAddress,
         HandleResolved, HandleAnswer, station
<1>2. /\ Len(events) \in Nat \ {0} /\ Len(events') = Len(events) - 1
      /\ Head(events) = events[1] /\ \A i \in 1 .. Len(events) - 1 : events'[i] = events[i + 1]
  BY <1>1 DEF Types, ChipType
<1>3. ASSUME NEW i \in 1 .. Len(events'), events'[i] = "disconnected"
      PROVE  link' = "down" /\ \A j \in i + 1 .. Len(events') : events'[j] \notin Rises
  <2>1. i + 1 \in 1 .. Len(events) /\ events[i + 1] = "disconnected"
    BY <1>2, <1>3
  <2>2. link = "down" /\ \A j \in i + 2 .. Len(events) : events[j] \notin Rises
    BY <1>2, <2>1 DEF OnceInv
  <2>3. ASSUME NEW j \in i + 1 .. Len(events') PROVE events'[j] \notin Rises
    <3>1. j + 1 \in i + 2 .. Len(events) /\ events'[j] = events[j + 1]
      BY <1>2
    <3> QED BY <2>2, <3>1
  <2> QED BY <1>1, <2>2, <2>3
<1>4. Quiet => Quiet'
  BY <1>1, <1>2 DEF Quiet
<1>5. CASE Head(events) = "disconnected"
  <2>1. Quiet'
    <3>1. link = "down" /\ \A j \in 2 .. Len(events) : events[j] \notin Rises
      BY <1>2, <1>5 DEF OnceInv
    <3> QED BY <1>1, <1>2, <3>1 DEF Quiet
  <2> QED BY <1>1, <1>3, <2>1 DEF OnceInv, chipStartVars, driver
<1>6. CASE Head(events) # "disconnected"
  <2>1. status' = status \/ status' = WL_CONNECTED
    BY <1>6 DEF HandleEvent, HandleConnected, ForgetsAddress, HandleDisconnected, HandleAddress,
                HandleResolved, HandleAnswer, station
  <2> QED BY <1>1, <1>3, <1>4, <2>1 DEF OnceInv, chipStartVars, driver
<1> QED BY <1>5, <1>6

\* Giving up ends what is left of the WLAN with one more loss.
LEMMA OnceGivesUp ==
  ASSUME OnceInv, Types, DriverInv, NEW ok \in BOOLEAN, giveUp(ok) PROVE OnceInv'
<1>1. pc = "giveUp" /\ pc' = "get" /\ UNCHANGED <<status, mode, step>>
  BY DEF giveUp, disconnect, station, chipStartVars, driver
<1>2. step \notin InInit
  BY <1>1 DEF DriverInv
<1>3. pc \notin BeforeJoin \union {"joining"} /\ pc' # "joining"
  BY <1>1 DEF BeforeJoin
<1>4. CASE events' = Append(events, "disconnected") /\ link' = "down"
  <2>1. /\ Len(events) \in Nat /\ Len(events') = Len(events) + 1
        /\ events'[Len(events) + 1] = "disconnected"
        /\ \A i \in 1 .. Len(events) : events'[i] = events[i]
    BY <1>4 DEF Types, ChipType
  <2>2. ASSUME NEW i \in 1 .. Len(events'), events'[i] = "disconnected"
        PROVE  link' = "down" /\ \A j \in i + 1 .. Len(events') : events'[j] \notin Rises
    <3>1. CASE i = Len(events) + 1
      BY <1>4, <2>1, <3>1
    <3>2. CASE i # Len(events) + 1
      <4>1. i \in 1 .. Len(events) /\ events[i] = "disconnected"
        BY <2>1, <2>2, <3>2
      <4>2. \A j \in i + 1 .. Len(events) : events[j] \notin Rises
        BY <4>1 DEF OnceInv
      <4>3. ASSUME NEW j \in i + 1 .. Len(events') PROVE events'[j] \notin Rises
        <5>1. j = Len(events) + 1 \/ (j \in i + 1 .. Len(events) /\ events'[j] = events[j])
          BY <2>1, <4>1
        <5> QED BY <2>1, <4>2, <5>1 DEF Rises
      <4> QED BY <1>4, <4>3
    <3> QED BY <3>1, <3>2
  <2>3. Quiet => Quiet'
    BY <1>4, <2>1 DEF Quiet, Rises
  <2> QED BY <1>1, <1>2, <1>3, <2>2, <2>3 DEF OnceInv
<1>5. CASE UNCHANGED theChip
  BY <1>1, <1>2, <1>3, <1>5 DEF OnceInv, Quiet, theChip
<1> QED BY <1>4, <1>5 DEF giveUp, disconnect

\* begin() starts with nothing reported, and ends with an address, a loss, or a time-out
\* that takes the mode away.
LEMMA OnceBegins ==
  ASSUME OnceInv, WlanInv, beginConnects \/ \E timedOut \in BOOLEAN : beginEnds(timedOut)
  PROVE  OnceInv'
<1>1. "returned" \notin InInit
  BY DEF InInit, AfterId
<1>2. CASE beginConnects
  <2>1. pc \in BeforeJoin /\ step = "returned" /\ step' = step
    BY <1>2 DEF beginConnects, startConnect, startConnectFails, ForgetsAddress, chipStartVars,
                driver, BeforeJoin
  <2>2. link = "down" /\ events = << >> /\ events' = events
    BY <1>2, <2>1 DEF beginConnects, startConnect, startConnectFails, ForgetsAddress, theChip,
                      WlanInv
  <2>3. \/ pc' = "joining" /\ status' = WL_IDLE_STATUS
        \/ pc' = "poll" /\ link' = link
    BY <1>2 DEF beginConnects, startConnect, startConnectFails, ForgetsAddress, theChip
  <2> QED BY <1>1, <2>1, <2>2, <2>3 DEF OnceInv, Quiet
<1>3. ASSUME NEW timedOut \in BOOLEAN, beginEnds(timedOut) PROVE OnceInv'
  <2>1. /\ pc = "joining" /\ pc' = "poll" /\ UNCHANGED <<status, link, events, step>>
        /\ mode' = IF isConnected THEN mode ELSE WL_RESET_MODE
    BY <1>3 DEF beginEnds, startConnectEnds, theChip, chipStartVars, driver
  <2>2. status = WL_IDLE_STATUS => ~isConnected
    BY DEF isConnected, SharesBit, WL_IDLE_STATUS
  <2>3. mode' = WL_STA_MODE => isConnected
    BY <2>1 DEF WL_STA_MODE, WL_RESET_MODE
  <2>4. mode' = WL_STA_MODE /\ status # WL_CONNECTED => Quiet
    BY <2>1, <2>2, <2>3 DEF OnceInv
  <2> QED BY <2>1, <2>4 DEF OnceInv, Quiet
<1> QED BY <1>2, <1>3

\* Another start of the chip resets the status only after the chip.
LEMMA OnceStarts ==
  ASSUME OnceInv, WiFiInit PROVE OnceInv'
<1>1. pc' = pc
  BY DEF WiFiInit, httpVars
<1>2. CASE initResets
  <2>1. link' = "down" /\ events' = << >> /\ UNCHANGED <<status, mode>>
    BY <1>2 DEF initResets, station
  <2> QED BY <1>1, <2>1 DEF OnceInv, Quiet
<1>3. CASE initReturns
  <2>1. /\ UNCHANGED <<link, events, mode>> /\ step' = "returned"
        /\ step \in {"succeeded", "failed"}
        /\ status' = WL_IDLE_STATUS \/ status' = status
    BY <1>3 DEF initReturns, theChip
  <2>2. step \in InInit \ {"bsp"} /\ step' \notin InInit
    BY <2>1 DEF InInit, AfterId
  <2>3. Quiet /\ link = "down" /\ events = << >>
    BY <2>2 DEF OnceInv, Quiet
  <2> QED BY <1>1, <2>1, <2>2, <2>3 DEF OnceInv, Quiet
<1>4. ASSUME NEW timedOut \in BOOLEAN, initGoesOn(timedOut) PROVE OnceInv'
  <2>1. UNCHANGED <<link, events, status, mode>>
    BY <1>4 DEF initGoesOn, station, theChip
  <2>2. step \in InInit \ {"bsp"}
    BY <1>4 DEF initGoesOn, driverStep, knownChip, nm_spi_init, readWithCrc, turnCrcOff,
       efuse, rom, chip_apply_conf, start, wait_for_firmware_start, enable_interrupts,
       hif_init, nm_get_firmware_full_info, At, InInit, AfterId
  <2> QED BY <1>1, <2>1, <2>2 DEF OnceInv, Quiet
<1> QED BY <1>2, <1>3, <1>4 DEF WiFiInit

\* Every step keeps it.
LEMMA OnceStep ==
  ASSUME OnceInv, StartupInv, [Next]_vars PROVE OnceInv'
<1> USE DEF StartupInv
<1>1. CASE chip
  <2>1. CASE ChipSteps
    BY <1>1, <2>1, OnceReports DEF chip, httpVars
  <2>2. CASE chipBoots /\ UNCHANGED <<station, theChip>>
    BY <1>1, <2>2, OnceIdle DEF chip, chipBoots, driver, station, theChip, httpVars
  <2> QED BY <1>1, <2>1, <2>2 DEF chip
<1>2. CASE stationHandlesEvent
  BY <1>2, OnceHandles DEF stationHandlesEvent, httpVars
<1>3. CASE \E ok \in BOOLEAN : giveUp(ok)
  BY <1>3, OnceGivesUp
<1>4. CASE beginConnects \/ \E timedOut \in BOOLEAN : beginEnds(timedOut)
  BY <1>4, OnceBegins
<1>5. CASE WiFiInit
  BY <1>5, OnceStarts
<1>6. ASSUME ~chip, ~stationHandlesEvent, ~(\E ok \in BOOLEAN : giveUp(ok)), ~WiFiInit,
             ~(beginConnects \/ \E timedOut \in BOOLEAN : beginEnds(timedOut))
      PROVE  OnceInv'
  <2>1. UNCHANGED <<link, events, status, mode>> /\ step' \in {step, "returned", "bsp"}
    <3>1. CASE player_begin \/ readyForData \/ setupReturns
      BY <3>1 DEF player_begin, readyForData, setupReturns, stationVars, station, theChip,
                  chipStartVars, driver
    <3>2. CASE begin \/ poll \/ check \/ polled \/ checked
      BY <3>2 DEF begin, poll, check, polled, checked, init, stationVars, station, theChip,
                  chipStartVars, driver
    <3>3. CASE HttpGet
      BY <3>3 DEF HttpGet, hostByName, connect, Asks, Resolved, Connected, print, printAgain,
                  finishHeaders, stationVars, station, theChip, chipStartVars, driver
    <3>4. CASE HttpAnswer
      BY <3>4 DEF HttpAnswer, responseStatusCode, look, pause, read, readInvalid, readNothing,
                  endOfLine, ReadsOn, stationVars, station, theChip, chipStartVars, driver
    <3>5. CASE serverSends \/ serverCloses \/ UNCHANGED vars
      BY <3>5 DEF serverSends, serverCloses, vars, stationVars, station, theChip, chipStartVars,
                  driver
    <3> QED BY <1>6, <3>1, <3>2, <3>3, <3>4, <3>5 DEF Next
  <2> QED BY <1>6, <2>1, JoinOrder, OnceIdle
<1> QED BY <1>1, <1>2, <1>3, <1>4, <1>5, <1>6

\* Only the wait in begin() sees the WLAN joined: all the polls of connectWLAN() are in
\* vain when it has not.
THEOREM JoinsOnlyInBegin == Spec => OnlyBeginConnects
<1> DEFINE Once == status # WL_CONNECTED /\ status' = WL_CONNECTED => pc = "joining"
<1>1. Init => OnceInv
  BY DEF Init, StationInit, ChipStartInit, OnceInv, BeforeJoin, InInit, AfterId
<1>2. StartupInv /\ OnceInv /\ [Next]_vars => OnceInv'
  BY OnceStep
<1>3. StartupInv /\ OnceInv /\ [Next]_vars => [Once]_vars
  <2> SUFFICES ASSUME StartupInv, OnceInv, [Next]_vars,
                      status # WL_CONNECTED, status' = WL_CONNECTED
               PROVE  pc = "joining"
    OBVIOUS
  <2>1. ~UNCHANGED station
    BY DEF station
  <2>2. ~(initReturns \/ startConnect \/ startConnectFails)
    BY DEF initReturns, startConnect, startConnectFails, ForgetsAddress, WL_IDLE_STATUS,
           WL_CONNECTED, WL_CONNECT_FAILED
  <2>3. ~((\E timedOut \in BOOLEAN : startConnectEnds(timedOut))
            \/ (\E ok \in BOOLEAN : hostByName(ok))
            \/ (\E timedOut \in BOOLEAN : Resolved(timedOut)))
    BY DEF startConnectEnds, hostByName, Resolved, stationVars, station
  <2>4. HandleEvent
    BY <2>1, <2>2, <2>3, StationKept
  <2>5. /\ events # << >> /\ Head(events) \in Rises /\ mode = WL_STA_MODE
    BY <2>4 DEF HandleEvent, HandleConnected, ForgetsAddress, HandleDisconnected, HandleAddress,
                HandleResolved, HandleAnswer, station, WL_DISCONNECTED, WL_CONNECTED, Rises
  <2>6. Len(events) \in Nat \ {0} /\ events[1] \in Rises
    BY <2>5 DEF StartupInv, Types, ChipType
  <2>7. ~Quiet
    BY <2>6 DEF Quiet
  <2>8. pc \notin BeforeJoin
    BY <2>5 DEF StartupInv, WlanInv
  <2> QED BY <2>5, <2>7, <2>8 DEF OnceInv
<1>4. Spec => []StartupInv
  BY StartupInvHolds
<1>5. Spec => [][Once]_vars
  BY <1>1, <1>2, <1>3, <1>4, PTL DEF Spec
<1> QED BY <1>5 DEF OnlyBeginConnects

-----------------------------------------------------------------------------
(***************************************************************************)
(* setup() makes progress.                                                 *)
(***************************************************************************)

\* How much is left of setup() from each place on, of the start of the chip that it may
\* be in, and in all: with the tries, the rounds of polling, the writes and the
\* characters still to come.
SetupLeft ==
  [player |-> 76, dreq |-> 75, begin |-> 74, startConnect |-> 54, joining |-> 53,
   poll |-> 52, polled |-> 32, check |-> 31, checked |-> 11, giveUp |-> 10, get |-> 9,
   resolving |-> 8, connect |-> 7, connecting |-> 6, request |-> 5, retry |-> 5, status |-> 4,
   look |-> 3, read |-> 3, pause |-> 3, endOfLine |-> 2, answered |-> 1, loop |-> 0]
InitLeft ==
  [bsp |-> 14, chipid |-> 13, spi |-> 12, crcOn |-> 11, crcWrite |-> 10, efuse |-> 9,
   rom |-> 8, conf |-> 7, start |-> 6, firmware |-> 5, interrupts |-> 4, hif |-> 3,
   version |-> 2, succeeded |-> 1, failed |-> 1, returned |-> 0]
SetupRest == SetupLeft[pc]
InitRest == InitLeft[step]
Unheard == Len(response) - (IF pc \in ReadingLines THEN received ELSE 0)
CodeLeft == IF iState = "eStatusCodeRead" THEN 2 ELSE 0
Left == SetupRest + InitRest + (maxTries - nTries) + 21 * (maxAttempts - nAttempts)
          + pieces + 3 * Unheard + CodeLeft

\* The places of setup().
Places == DOMAIN SetupLeft

\* What is left is a number, and so is each part of it.
LeftType ==
  /\ SetupRest \in 0 .. 76 /\ InitRest \in 0 .. 14
  /\ Len(response) \in Nat /\ Unheard \in Nat /\ received \in Nat /\ CodeLeft \in 0 .. 2
  /\ nTries \in Int /\ nAttempts \in Int /\ maxTries \in Int /\ maxAttempts \in Int
  /\ maxTries - nTries \in Nat /\ maxAttempts - nAttempts \in Nat /\ pieces \in Nat
  /\ Left \in Nat

\* Tries and attempts stop at their limits, and no more is read than the response holds.
LEMMA LeftIsNat == Types /\ DriverInv /\ pc \in Places => LeftType
<1> SUFFICES ASSUME Types, DriverInv, pc \in Places PROVE LeftType
  OBVIOUS
<1>1. SetupRest \in 0 .. 76
  BY DEF Places, SetupLeft, SetupRest
<1>2. InitRest \in 0 .. 14
  BY DEF InitLeft, InitRest, DriverInv, InInit, AfterId
<1>3. Len(response) \in Nat /\ received \in Nat /\ received <= Len(response)
  BY DEF Types, RequestType, ClientType
<1>4. /\ nTries \in Int /\ nAttempts \in Int /\ maxTries \in Int /\ maxAttempts \in Int
      /\ maxTries - nTries \in Nat /\ maxAttempts - nAttempts \in Nat /\ pieces \in Nat
  BY AttemptsAssumption, ResponsesAssumption
     DEF AttemptsAssumption, ResponsesAssumption, Types, Counts
<1>5. Unheard \in Nat
  BY <1>3 DEF Unheard
<1>6. CodeLeft \in 0 .. 2
  BY DEF CodeLeft
<1>7. Left \in Nat
  BY <1>1, <1>2, <1>4, <1>5, <1>6 DEF Left
<1> QED BY <1>1, <1>2, <1>3, <1>4, <1>5, <1>6, <1>7 DEF LeftType

\* What setup() does is seen in one of these.  It waits for a character in a loop of three
\* statements, and for the chip to take a piece of the request in one of two.
progress == <<pc, step, attempts, pieces, received>>
Awaiting == {"look", "read", "pause"}
Sending == {"request", "retry"}
WaitsOn ==
  \/ pc \in Awaiting /\ pc' \in Awaiting /\ received' = received
  \/ pc \in Sending /\ pc' \in Sending /\ pieces' = pieces
Falls == Left' <= Left /\ (progress' # progress /\ ~WaitsOn => Left' < Left)

\* setup() goes from one of its places to another.
LEMMA PlacesStep == ASSUME pc \in Places, [Next]_vars PROVE pc' \in Places
<1> USE DEF Places, SetupLeft
<1>1. CASE player_begin \/ readyForData \/ setupReturns
  BY <1>1 DEF player_begin, readyForData, setupReturns
<1>2. CASE begin \/ poll \/ check \/ polled \/ checked
  BY <1>2 DEF begin, poll, check, polled, checked, Unconnected
<1>3. CASE beginConnects \/ \E timedOut \in BOOLEAN : beginEnds(timedOut)
  BY <1>3 DEF beginConnects, beginEnds
<1>4. CASE (\E ok \in BOOLEAN : giveUp(ok)) \/ WiFiInit
  BY <1>4 DEF giveUp, WiFiInit, httpVars
<1>5. CASE HttpGet
  BY <1>5 DEF HttpGet, hostByName, Resolved, connect, Connected, print, printAgain, finishHeaders
<1>6. CASE HttpAnswer
  BY <1>6 DEF HttpAnswer, responseStatusCode, look, pause, read, readInvalid, readNothing,
              endOfLine, Answers
<1>7. CASE stationHandlesEvent \/ chip \/ serverSends \/ serverCloses \/ UNCHANGED vars
  BY <1>7 DEF stationHandlesEvent, chip, serverSends, serverCloses, vars, httpVars
<1> QED BY <1>1, <1>2, <1>3, <1>4, <1>5, <1>6, <1>7 DEF Next

\* What is left after a step, in numbers.
LEMMA LeftAfter ==
  ASSUME LeftType'
  PROVE  \E s \in 0 .. 76, i \in 0 .. 14, u \in Nat, k \in 0 .. 2 :
           /\ s = SetupRest' /\ i = InitRest' /\ u = Unheard' /\ k = CodeLeft'
           /\ Left' = s + i + (maxTries - nTries') + 21 * (maxAttempts - nAttempts')
                        + pieces' + 3 * u + k
BY DEF LeftType, Left

\* A step to a later place, that may start an init() if that is 20 further on.
LEMMA FurtherFalls ==
  ASSUME LeftType, LeftType', UNCHANGED <<attempts, pieces, response>>,
         pc \in ReadingLines => pc' \in ReadingLines /\ received' >= received,
         iState' = "eStatusCodeRead" => iState = "eStatusCodeRead",
         NEW a \in Nat, NEW b \in Nat, SetupRest = a, SetupRest' = b,
         (b < a /\ step' = step) \/ b + 20 <= a
  PROVE  Left' < Left
<1>1. PICK s \in 0 .. 76, i \in 0 .. 14, u \in Nat, k \in 0 .. 2 :
           /\ s = SetupRest' /\ i = InitRest' /\ u = Unheard' /\ k = CodeLeft'
           /\ Left' = s + i + (maxTries - nTries') + 21 * (maxAttempts - nAttempts')
                        + pieces' + 3 * u + k
  BY LeftAfter
<1>2. nTries' = nTries /\ nAttempts' = nAttempts /\ pieces' = pieces
  BY DEF attempts
<1>3. u <= Unheard
  <2>1. u = Len(response) - (IF pc' \in ReadingLines THEN received' ELSE 0)
    BY <1>1 DEF Unheard
  <2>2. received' \in Nat /\ received \in Nat /\ Len(response) \in Nat
    BY DEF LeftType
  <2> QED BY <2>1, <2>2 DEF Unheard
<1>4. k <= CodeLeft
  BY <1>1 DEF CodeLeft
<1>5. s + i < a + InitRest
  <2>1. step' = step => i = InitRest
    BY <1>1 DEF InitRest
  <2>2. s = b /\ i \in 0 .. 14
    BY <1>1
  <2>3. InitRest \in 0 .. 14
    BY DEF LeftType
  <2> QED BY <2>1, <2>2, <2>3
<1>6. s + i + (maxTries - nTries) + 21 * (maxAttempts - nAttempts) + pieces + 3 * u + k < Left
  BY <1>3, <1>4, <1>5 DEF Left, LeftType
<1> QED BY <1>1, <1>2, <1>6

\* A step of a start of the chip.
LEMMA InitFalls ==
  ASSUME LeftType, LeftType', UNCHANGED <<attempts, pieces, response, pc, received, iState>>,
         NEW a \in Nat, NEW b \in Nat, InitRest = a, InitRest' = b, b < a
  PROVE  Left' < Left
<1>1. PICK s \in 0 .. 76, i \in 0 .. 14, u \in Nat, k \in 0 .. 2 :
           /\ s = SetupRest' /\ i = InitRest' /\ u = Unheard' /\ k = CodeLeft'
           /\ Left' = s + i + (maxTries - nTries') + 21 * (maxAttempts - nAttempts')
                        + pieces' + 3 * u + k
  BY LeftAfter
<1>2. nTries' = nTries /\ nAttempts' = nAttempts /\ pieces' = pieces
  BY DEF attempts
<1>3. u = Unheard /\ k = CodeLeft /\ s = SetupRest
  BY <1>1 DEF Unheard, CodeLeft, SetupRest
<1>6. s + i + (maxTries - nTries) + 21 * (maxAttempts - nAttempts) + pieces + 3 * u + k < Left
  BY <1>1, <1>3 DEF Left, LeftType
<1> QED BY <1>1, <1>2, <1>6

\* Another try of the codec, another poll, another write.
LEMMA RoundFalls ==
  ASSUME LeftType, LeftType', UNCHANGED <<response, received, iState, step>>,
         pc \notin ReadingLines, pc' \notin ReadingLines,
         \/ player_begin /\ pc' = pc
         \/ polled /\ pc' = "poll"
         \/ (\E ok \in BOOLEAN : print(ok) /\ UNCHANGED attempts) /\ pc' = pc
  PROVE  Left' < Left
<1>1. PICK s \in 0 .. 76, i \in 0 .. 14, u \in Nat, k \in 0 .. 2 :
           /\ s = SetupRest' /\ i = InitRest' /\ u = Unheard' /\ k = CodeLeft'
           /\ Left' = s + i + (maxTries - nTries') + 21 * (maxAttempts - nAttempts')
                        + pieces' + 3 * u + k
  BY LeftAfter
<1>2. i = InitRest /\ u = Unheard /\ k = CodeLeft
  BY <1>1 DEF Unheard, CodeLeft, InitRest
<1>3. CASE player_begin /\ pc' = pc
  <2>1. nTries' = nTries + 1 /\ nAttempts' = nAttempts /\ pieces' = pieces
    BY <1>3 DEF player_begin, request
  <2>2. s = SetupRest
    BY <1>1, <1>3 DEF SetupRest
  <2>3. s + i + (maxTries - (nTries + 1)) + 21 * (maxAttempts - nAttempts) + pieces + 3 * u + k < Left
    BY <1>2, <2>2 DEF Left, LeftType
  <2> QED BY <1>1, <2>1, <2>3
<1>4. CASE polled /\ pc' = "poll"
  <2>1. nTries' = nTries /\ nAttempts' = nAttempts + 1 /\ pieces' = pieces
    BY <1>4 DEF polled, request
  <2>2. s = 52 /\ SetupRest = 32
    BY <1>1, <1>4 DEF SetupRest, SetupLeft, polled
  <2>3. s + i + (maxTries - nTries) + 21 * (maxAttempts - (nAttempts + 1)) + pieces + 3 * u + k < Left
    BY <1>2, <2>2 DEF Left, LeftType
  <2> QED BY <1>1, <2>1, <2>3
<1>5. CASE (\E ok \in BOOLEAN : print(ok) /\ UNCHANGED attempts) /\ pc' = pc
  <2>1. nTries' = nTries /\ nAttempts' = nAttempts /\ pieces' = pieces - 1 /\ pc' = pc
    BY <1>5 DEF print, attempts
  <2>2. s = SetupRest
    BY <1>1, <2>1 DEF SetupRest
  <2>3. s + i + (maxTries - nTries) + 21 * (maxAttempts - nAttempts) + (pieces - 1) + 3 * u + k < Left
    BY <1>2, <2>2 DEF Left, LeftType
  <2> QED BY <1>1, <2>1, <2>3
<1> QED BY <1>3, <1>4, <1>5

\* A character that is read, or another line after an informational one.
LEMMA ReadFalls ==
  ASSUME LeftType, LeftType', read \/ (endOfLine /\ pc' = "look"), UNCHANGED <<attempts, response>>
  PROVE  Left' < Left
<1>1. PICK s \in 0 .. 76, i \in 0 .. 14, u \in Nat, k \in 0 .. 2 :
           /\ s = SetupRest' /\ i = InitRest' /\ u = Unheard' /\ k = CodeLeft'
           /\ Left' = s + i + (maxTries - nTries') + 21 * (maxAttempts - nAttempts')
                        + pieces' + 3 * u + k
  BY LeftAfter
<1>2. nTries' = nTries /\ nAttempts' = nAttempts /\ pieces' = pieces /\ step' = step
  BY DEF attempts, read, endOfLine, request, ReadsOn, stationVars, chipStartVars, driver
<1>3. i = InitRest
  BY <1>1, <1>2 DEF InitRest
<1>4. CASE read
  <2>1. s = 3 /\ SetupRest = 3
    BY <1>1, <1>4 DEF read, SetupRest, SetupLeft
  <2>2. u = Unheard - 1
    <3>1. pc \in ReadingLines /\ pc' \in ReadingLines /\ received' = received + 1
      BY <1>4 DEF read, ReadingLines
    <3>2. u = Len(response) - (received + 1) /\ Unheard = Len(response) - received
      BY <1>1, <3>1 DEF Unheard
    <3> QED BY <3>2 DEF LeftType
  <2>3. s + i + (maxTries - nTries) + 21 * (maxAttempts - nAttempts) + pieces + 3 * u + k < Left
    <3>1. CodeLeft \in 0 .. 2 /\ Unheard \in Nat
      BY DEF LeftType
    <3>2. 3 * u + k < 3 * Unheard + CodeLeft
      BY <2>2, <3>1
    <3> QED BY <1>3, <2>1, <3>2 DEF Left, LeftType
  <2> QED BY <1>1, <1>2, <2>3
<1>5. CASE endOfLine /\ pc' = "look"
  <2>1. s = 3 /\ SetupRest = 2
    BY <1>1, <1>5 DEF endOfLine, SetupRest, SetupLeft
  <2>2. iState = "eStatusCodeRead" /\ iState' = "eRequestSent"
    BY <1>5 DEF endOfLine, Answers, anotherLine, StartOfLine
  <2>3. k = 0 /\ CodeLeft = 2
    BY <1>1, <2>2 DEF CodeLeft
  <2>4. u = Unheard
    <3>1. pc \in ReadingLines /\ pc' \in ReadingLines /\ received' = received
      BY <1>5 DEF endOfLine, ReadingLines, ReadsOn, stationVars, client
    <3> QED BY <1>1, <3>1 DEF Unheard
  <2>5. s + i + (maxTries - nTries) + 21 * (maxAttempts - nAttempts) + pieces + 3 * u + k < Left
    BY <1>3, <2>1, <2>3, <2>4 DEF Left, LeftType
  <2> QED BY <1>1, <1>2, <2>5
<1> QED BY <1>4, <1>5

\* What else goes on takes nothing away.
LEMMA OthersKeepLeft ==
  ASSUME stationHandlesEvent \/ chip \/ serverSends \/ serverCloses \/ UNCHANGED vars
  PROVE  Left' = Left /\ progress' = progress
<1>1. UNCHANGED <<pc, step, attempts, pieces, received, response, iState>>
  <2>1. CASE stationHandlesEvent
    BY <2>1 DEF stationHandlesEvent, HandleEvent, HandleConnected, ForgetsAddress,
                HandleDisconnected, HandleAddress, HandleResolved, HandleAnswer, ClosesSocket,
                client, httpVars, http,
                request, chipStartVars, driver
  <2>2. CASE chip
    BY <2>2 DEF chip, ChipSteps, Reports, chipBoots, client, httpVars, http, request,
                chipStartVars, driver
  <2>3. CASE serverSends \/ serverCloses \/ UNCHANGED vars
    BY <2>3 DEF serverSends, serverCloses, ClosesSocket, vars, stationVars, client, httpVars,
                http, request, chipStartVars, driver
  <2> QED BY <2>1, <2>2, <2>3
<1>2. /\ SetupRest' = SetupRest /\ InitRest' = InitRest /\ Unheard' = Unheard
      /\ CodeLeft' = CodeLeft /\ nTries' = nTries /\ nAttempts' = nAttempts
  BY <1>1 DEF SetupRest, InitRest, Unheard, CodeLeft, attempts
<1>3. Left' = Left
  BY <1>1, <1>2 DEF Left
<1> QED BY <1>1, <1>3 DEF progress

\* The start of the chip comes closer to its end with each step.
LEMMA WiFiInitFalls ==
  ASSUME LeftType, LeftType', WiFiInit
  PROVE  Left' < Left
<1>1. UNCHANGED <<attempts, pieces, response, pc, received, iState>>
  BY DEF WiFiInit, initResets, initReturns, initGoesOn, client, httpVars, http, request
<1>2. \E a, b \in Nat : InitRest = a /\ InitRest' = b /\ b < a
  <2> USE DEF InitRest, InitLeft, At, Continues, Fails
  <2>1. CASE initResets
    BY <2>1 DEF initResets, nm_bsp_init
  <2>2. CASE initReturns
    BY <2>2 DEF initReturns
  <2>3. ASSUME NEW timedOut \in BOOLEAN, driverStep(timedOut)
        PROVE  \E a, b \in Nat : InitRest = a /\ InitRest' = b /\ b < a
    <3>1. CASE knownChip
      <4>1. step = "chipid" /\ step' \in {"spi", "failed"}
        BY <3>1 DEF knownChip, nmi_get_chipid
      <4> QED BY <4>1
    <3>2. CASE nm_spi_init \/ turnCrcOff
      BY <3>2 DEF nm_spi_init, turnCrcOff
    <3>3. CASE readWithCrc
      <4>1. step = "crcOn" /\ step' \in {"crcWrite", "efuse"}
        BY <3>3 DEF readWithCrc
      <4> QED BY <4>1
    <3>4. CASE efuse \/ rom(timedOut)
      <4>1. \/ step = "efuse" /\ step' \in {"rom", "conf"}
            \/ step = "rom" /\ step' \in {"failed", "conf"}
        BY <3>4 DEF efuse, rom
      <4> QED BY <4>1
    <3>5. CASE chip_apply_conf \/ start \/ hif_init
      <4>1. \/ step = "conf" /\ step' = "start"
            \/ step = "start" /\ step' = "firmware"
            \/ step = "hif" /\ step' = "version"
        BY <3>5 DEF chip_apply_conf, start, hif_init
      <4> QED BY <4>1
    <3>6. CASE wait_for_firmware_start(timedOut)
      <4>1. step = "firmware" /\ step' \in {"failed", "interrupts"}
        BY <3>6 DEF wait_for_firmware_start
      <4> QED BY <4>1
    <3>7. CASE enable_interrupts
      <4>1. step = "interrupts" /\ step' \in {"failed", "hif"}
        BY <3>7 DEF enable_interrupts
      <4> QED BY <4>1
    <3>8. CASE nm_get_firmware_full_info
      <4>1. step = "version" /\ step' \in {"failed", "succeeded"}
        BY <3>8 DEF nm_get_firmware_full_info
      <4> QED BY <4>1
    <3> QED BY <2>3, <3>1, <3>2, <3>3, <3>4, <3>5, <3>6, <3>7, <3>8 DEF driverStep
  <2> QED BY <2>1, <2>2, <2>3 DEF WiFiInit, initGoesOn
<1> QED BY <1>1, <1>2, InitFalls

\* Bytes that were read stay read.
LEMMA ReadStaysRead ==
  ASSUME LeftType, received' \in {received, received + 1}
  PROVE  received' >= received
<1>1. received \in Nat
  BY DEF LeftType
<1> QED BY <1>1

\* So does setup() up to the answer to its request, but for a piece that the chip does
\* not take,
LEMMA SetupFalls ==
  ASSUME LeftType, LeftType',
         \/ player_begin \/ readyForData \/ setupReturns
         \/ begin \/ poll \/ check \/ polled \/ checked
         \/ beginConnects \/ (\E timedOut \in BOOLEAN : beginEnds(timedOut))
         \/ (\E ok \in BOOLEAN : giveUp(ok)) \/ HttpGet
  PROVE  Left' < Left \/ (Left' = Left /\ WaitsOn)
<1> DEFINE Further == \E a, b \in Nat : /\ SetupRest = a /\ SetupRest' = b
                                        /\ (b < a /\ step' = step) \/ b + 20 <= a
<1> USE DEF SetupRest, SetupLeft, ReadingLines, http, request, stationVars, chipStartVars, driver,
            client
<1>1. CASE player_begin /\ pc' = pc
  BY <1>1, RoundFalls DEF player_begin
<1>2. CASE (player_begin /\ pc' # pc) \/ readyForData \/ setupReturns
  <2>1. /\ UNCHANGED <<attempts, pieces, response, iState, received>>
        /\ \/ pc = "player" /\ pc' = "dreq"
           \/ pc = "dreq" /\ pc' = "begin"
           \/ pc = "answered" /\ pc' = "loop"
        /\ step' = step
    BY <1>2 DEF player_begin, readyForData, setupReturns, attempts
  <2>4. \/ SetupRest = 76 /\ SetupRest' = 75
        \/ SetupRest = 75 /\ SetupRest' = 74
        \/ SetupRest = 1 /\ SetupRest' = 0
    BY <2>1
  <2>2. Further
    BY <2>1, <2>4
  <2>3. received' >= received
    BY <2>1, ReadStaysRead
  <2> QED BY <2>1, <2>2, <2>3, FurtherFalls
<1>3. CASE begin \/ poll \/ check
  <2>1. /\ UNCHANGED <<attempts, pieces, response, iState>>
        /\ \/ pc = "begin" /\ pc' = "startConnect"
           \/ pc = "poll" /\ pc' = "polled"
           \/ pc = "check" /\ pc' = "checked"
    BY <1>3 DEF begin, poll, check
  <2>2. Further
    BY <2>1
  <2> QED BY <2>1, <2>2, FurtherFalls
<1>4. CASE polled /\ pc' = "poll"
  BY <1>4, RoundFalls DEF polled
<1>5. CASE (polled /\ pc' # "poll") \/ checked
  <2>1. /\ UNCHANGED <<attempts, pieces, response, iState, step>>
        /\ \/ pc = "polled" /\ pc' = "check"
           \/ pc = "checked" /\ pc' \in {"get", "giveUp"}
    BY <1>5 DEF polled, checked, Unconnected, attempts
  <2>2. Further
    BY <2>1
  <2> QED BY <2>1, <2>2, FurtherFalls
<1>6. CASE beginConnects \/ (\E timedOut \in BOOLEAN : beginEnds(timedOut))
             \/ (\E ok \in BOOLEAN : giveUp(ok))
  <2>1. /\ UNCHANGED <<attempts, pieces, response, iState, step>>
        /\ \/ pc = "startConnect" /\ pc' \in {"joining", "poll"}
           \/ pc = "joining" /\ pc' = "poll"
           \/ pc = "giveUp" /\ pc' = "get"
    BY <1>6 DEF beginConnects, startConnect, startConnectFails, ForgetsAddress, beginEnds,
                startConnectEnds, giveUp, disconnect
  <2>2. Further
    BY <2>1
  <2> QED BY <2>1, <2>2, FurtherFalls
<1>7. CASE (\E ok \in BOOLEAN : print(ok) /\ UNCHANGED attempts) /\ pc' = pc
  BY <1>7, RoundFalls DEF print
<1>9. CASE ((\E ok \in BOOLEAN : print(ok) /\ UNCHANGED attempts) /\ pc' # pc)
             \/ (printAgain /\ UNCHANGED attempts)
  <2>1. /\ UNCHANGED <<attempts, pieces, response, iState, received, step>>
        /\ pc \in Sending /\ pc' \in Sending
    BY <1>9 DEF print, printAgain, Sending
  <2>2. /\ SetupRest' = SetupRest /\ InitRest' = InitRest /\ Unheard' = Unheard
        /\ CodeLeft' = CodeLeft /\ nTries' = nTries /\ nAttempts' = nAttempts /\ pieces' = pieces
    BY <2>1 DEF InitRest, Unheard, CodeLeft, attempts, Sending
  <2>3. Left' = Left
    BY <2>2 DEF Left
  <2> QED BY <2>1, <2>3 DEF WaitsOn
<1>8. CASE HttpGet /\ ~printAgain /\ ~\E ok \in BOOLEAN : print(ok)
  <2>1. /\ UNCHANGED <<attempts, pieces, response, step>>
        /\ (iState' = "eStatusCodeRead" => iState = "eStatusCodeRead")
        /\ \/ pc = "get" /\ pc' \in {"resolving", "status"}
           \/ pc = "resolving" /\ pc' \in {"connect", "status"}
           \/ pc = "connect" /\ pc' \in {"connecting", "status"}
           \/ pc = "connecting" /\ pc' \in {"request", "status"}
           \/ pc = "request" /\ pc' = "status"
    BY <1>8 DEF HttpGet, hostByName, Resolved, connect, Connected, finishHeaders, Asks
  <2>2. Further
    BY <2>1
  <2> QED BY <2>1, <2>2, FurtherFalls
<1> QED BY <1>1, <1>2, <1>3, <1>4, <1>5, <1>6, <1>7, <1>8, <1>9 DEF HttpGet

\* and after it, but for the wait for a character, which stays where it is.
LEMMA AnswerFalls ==
  ASSUME LeftType, LeftType', HttpAnswer
  PROVE  Left' < Left \/ (Left' = Left /\ WaitsOn)
<1> DEFINE Further == \E a, b \in Nat : /\ SetupRest = a /\ SetupRest' = b
                                        /\ (b < a /\ step' = step) \/ b + 20 <= a
<1>0. UNCHANGED <<attempts, response, pieces, step>>
  BY DEF HttpAnswer, responseStatusCode, look, pause, read, readInvalid, readNothing, endOfLine,
         ReadsOn, request, stationVars, chipStartVars, driver
<1>1. CASE read
  BY <1>0, <1>1, ReadFalls
<1>2. CASE endOfLine /\ pc' = "look"
  BY <1>0, <1>2, ReadFalls
<1>3. CASE responseStatusCode \/ readInvalid \/ (endOfLine /\ pc' # "look")
             \/ (look /\ pc' = "endOfLine") \/ ((\E timedOut \in BOOLEAN : pause(timedOut)) /\ pc' = "endOfLine")
  <2>1. /\ (received' = received \/ received' = received + 1)
        /\ (iState' = "eStatusCodeRead" => iState = "eStatusCodeRead")
        /\ \/ pc = "status" /\ pc' \in {"look", "answered"}
           \/ pc = "read" /\ pc' = "answered"
           \/ pc = "endOfLine" /\ pc' = "answered"
           \/ pc \in {"look", "pause"} /\ pc' = "endOfLine"
    BY <1>3 DEF responseStatusCode, readInvalid, endOfLine, look, pause, Answers, StartOfLine,
                ReadsOn, stationVars, client, http
  <2>2. Further
    BY <1>0, <2>1 DEF SetupRest, SetupLeft
  <2>3. received' >= received
    BY <2>1, ReadStaysRead
  <2>4. pc' \in ReadingLines
    BY <2>1 DEF ReadingLines
  <2> QED BY <1>0, <2>1, <2>2, <2>3, <2>4, FurtherFalls
<1>4. CASE readNothing \/ (look /\ pc' # "endOfLine")
             \/ ((\E timedOut \in BOOLEAN : pause(timedOut)) /\ pc' # "endOfLine")
  <2>1. pc \in Awaiting /\ pc' \in Awaiting /\ received' = received /\ iState' = iState
    BY <1>4 DEF readNothing, look, pause, Awaiting, ReadsOn, stationVars, client, http
  <2>2. SetupRest = 3 /\ SetupRest' = 3
    BY <2>1 DEF SetupRest, SetupLeft, Awaiting
  <2>3. pc \in ReadingLines /\ pc' \in ReadingLines
    BY <2>1 DEF Awaiting, ReadingLines
  <2>4. /\ SetupRest' = SetupRest /\ InitRest' = InitRest /\ Unheard' = Unheard
        /\ CodeLeft' = CodeLeft /\ nTries' = nTries /\ nAttempts' = nAttempts /\ pieces' = pieces
    BY <1>0, <2>1, <2>2, <2>3 DEF InitRest, Unheard, CodeLeft, attempts
  <2>5. Left' = Left
    BY <2>4 DEF Left
  <2> QED BY <2>1, <2>5 DEF WaitsOn
<1> QED BY <1>1, <1>2, <1>3, <1>4 DEF HttpAnswer

\* Nothing that happens makes what is left of setup() more, and every step of setup() makes
\* it less, but for its two waits in circles: the one for a character of the response, and
\* the one for the chip to take a piece of the request, which has no limit.  So setup() is
\* at its end after no more steps than Left says at its start, besides these two: no other
\* failure, late answer or order of events has it go in circles.
THEOREM SetupGetsOn ==
  Spec => /\ [](Left \in Nat)
          /\ [][/\ Left' <= Left
                /\ progress' # progress /\ ~WaitsOn => Left' < Left]_vars
<1>1. Init => pc \in Places
  BY DEF Init, Places, SetupLeft
<1>2. Spec => []LeftType
  <2>1. pc \in Places /\ [Next]_vars => (pc \in Places)'
    BY PlacesStep
  <2>2. StartupInv /\ pc \in Places => LeftType
    BY LeftIsNat DEF StartupInv
  <2> QED BY <1>1, <2>1, <2>2, StartupInvHolds, PTL DEF Spec
<1>3. LeftType => Left \in Nat
  BY DEF LeftType
<1>4. LeftType /\ LeftType' /\ [Next]_vars => [Falls]_vars
  <2> SUFFICES ASSUME LeftType, LeftType', [Next]_vars PROVE Falls
    OBVIOUS
  <2>1. Left' < Left => Falls
    <3>1. PICK m \in Nat : m = Left'
      BY DEF LeftType
    <3>2. Left' < Left => m <= Left
      BY <3>1 DEF LeftType
    <3> QED BY <3>1, <3>2 DEF Falls
  <2>2. Left' = Left /\ (WaitsOn \/ progress' = progress) => Falls
    <3>1. Left <= Left
      BY DEF LeftType
    <3> QED BY <3>1 DEF Falls
  <2>3. CASE stationHandlesEvent \/ chip \/ serverSends \/ serverCloses \/ UNCHANGED vars
    BY <2>2, <2>3, OthersKeepLeft
  <2>4. CASE WiFiInit
    BY <2>1, <2>4, WiFiInitFalls
  <2>5. CASE HttpAnswer
    BY <2>1, <2>2, <2>5, AnswerFalls
  <2>6. CASE ~(stationHandlesEvent \/ chip \/ serverSends \/ serverCloses \/ UNCHANGED vars
                 \/ WiFiInit \/ HttpAnswer)
    BY <2>1, <2>2, <2>6, SetupFalls DEF Next
  <2> QED BY <2>3, <2>4, <2>5, <2>6
<1> QED BY <1>2, <1>3, <1>4, PTL DEF Spec, Falls

-----------------------------------------------------------------------------
(***************************************************************************)
(* The client is a ClientStream.                                           *)
(***************************************************************************)

\* A client without a connection has nothing to read.
ClosedIsEmpty == socket # "connected" => sent = received

\* Every step of setup() is one of a ClientStream, from the connection on.
LEMMA StreamStep ==
  ASSUME StartupInv, ClosedIsEmpty, [Next]_vars
  PROVE  ClosedIsEmpty' /\ [Stream!Next]_(Stream!streamVars)
<1>1. sent \in Int /\ received \in 0 .. sent
  <2>1. received \in 0 .. sent /\ sent \in 0 .. Len(response) /\ Len(response) \in Nat
    BY DEF StartupInv, Types, ClientType, RequestType
  <2> QED BY <2>1
<1> USE <1>1 DEF ClosedIsEmpty, Stream!Next, Stream!streamVars
<1>2. CASE \E ok \in BOOLEAN : disconnect(ok)
  BY <1>2 DEF disconnect, ClosesSocket, Stream!Drop
<1>3. CASE \E ok \in BOOLEAN : connect(ok)
  <2>1. socket = "none"
    BY <1>3 DEF connect, StartupInv, WlanInv, BeforeSocket
  <2> QED BY <1>3, <2>1 DEF connect, Stream!Forget
<1>4. CASE \E timedOut \in BOOLEAN : Connected(timedOut)
  BY <1>4 DEF Connected, ClosesSocket, client
<1>5. CASE read \/ readInvalid
  BY <1>5 DEF read, readInvalid, Stream!Take
<1>6. CASE HandleEvent
  <2>1. CASE socket' = socket /\ UNCHANGED <<sent, received>>
    BY <2>1
  <2>2. CASE ClosesSocket
    BY <2>2 DEF ClosesSocket, Stream!Drop
  <2>3. CASE socket = "connecting" /\ socket' \in {"connected", "none"} /\ UNCHANGED <<sent, received>>
    BY <2>3 DEF Stream!Open
  <2>4. \/ socket' = socket /\ UNCHANGED <<sent, received>>
        \/ ClosesSocket
        \/ socket = "connecting" /\ socket' \in {"connected", "none"} /\ UNCHANGED <<sent, received>>
    BY <1>6 DEF HandleEvent, HandleConnected, ForgetsAddress, HandleDisconnected, HandleAddress,
                HandleResolved, HandleAnswer, client
  <2> QED BY <2>1, <2>2, <2>3, <2>4
<1>7. CASE serverSends
  BY <1>7 DEF serverSends, Stream!Arrive
<1>8. CASE serverCloses
  BY <1>8 DEF serverCloses, ClosesSocket, Stream!Drop
<1>9. CASE UNCHANGED client
  BY <1>9 DEF client
<1> QED BY <1>2, <1>3, <1>4, <1>5, <1>6, <1>7, <1>8, <1>9, ClientKept

\* To whoever reads from it the client is a ClientStream, as loop() needs it.
THEOREM SetupLeavesClientStream == Spec => ImplementsClientStream
<1>1. Init => Stream!Init /\ ClosedIsEmpty
  BY DEF Init, StationInit, Stream!Init, ClosedIsEmpty
<1>2. StartupInv /\ ClosedIsEmpty /\ [Next]_vars =>
        ClosedIsEmpty' /\ [Stream!Next]_(Stream!streamVars)
  BY StreamStep
<1> QED BY <1>1, <1>2, StartupInvHolds, PTL DEF Spec, ImplementsClientStream, Stream!Spec

-----------------------------------------------------------------------------
(***************************************************************************)
(* The status line.                                                        *)
(***************************************************************************)

InLine == {"look", "read", "pause", "endOfLine"}
IsFinal(code) == code >= 200 \/ code = 101

\* None of the lines that start before n is a final status line.
NoFinalBefore(n) ==
  \A i \in 1 .. n - 1 :
    StartsLine(i) /\ i + 3 <= Len(response) /\ response[i + 3].kind = "digits" =>
      ~IsFinal(response[i + 3].code)

\* The line that is being read starts at n; what has been made of it so far.
CodeOf(n) ==
  iStatusCode = IF response[n + 3].kind = "digits" THEN response[n + 3].code ELSE 0
PrefixFrom(n) == matched \in 1 .. 2 /\ received = n + matched - 1 /\ iStatusCode = 0
CodeFrom(n) ==
  /\ matched = 3 /\ response[n + 2].kind = "SP"
  /\ \/ received = n + 2 /\ iStatusCode = 0
     \/ received = n + 3 /\ response[n + 3].kind = "digits" /\ CodeOf(n)
RestFrom(n) ==
  /\ matched = 3 /\ response[n + 2].kind = "SP"
  /\ received >= n + 3 /\ CodeOf(n)
LineFrom(n) ==
  /\ StartsLine(n) /\ NoFinalBefore(n)
  /\ response[n].kind = "HTTP/"
  /\ \A i \in n .. received - 1 : response[i].kind # "\n"
  /\ response[received].kind = "\n" <=> c.kind = "\n"
  /\ \/ iState = "eRequestSent" /\ PrefixFrom(n)
     \/ iState = "eReadingStatusCode" /\ CodeFrom(n)
     \/ iState = "eStatusCodeRead" /\ RestFrom(n)

NoLineYet ==
  /\ matched = 0 /\ iState = "eRequestSent" /\ iStatusCode = 0
  /\ NoFinalBefore(received + 1) /\ c.kind # "\n"

LineInv ==
  /\ pc \notin ReadingLines => received = 0 /\ httpCode <= 0 /\ c.kind # "\n"
  /\ pc \in InLine => httpCode <= 0 /\ (NoLineYet \/ \E n \in 1 .. received : LineFrom(n))
  /\ pc \in {"read", "pause"} => c.kind # "\n"
  /\ StatusCodeIsTheResponses

\* In a response the name of the protocol only starts a line.
NameStartsLine ==
  \A i \in 2 .. Len(response) : response[i].kind = "HTTP/" => response[i - 1].kind = "\n"
DigitsAreOne ==
  \A i \in 2 .. Len(response) : response[i].kind = "digits" => response[i - 1].kind # "digits"

\* Only responseStatusCode() reads; a new connection is made before it is called.
LEMMA OutsideAnswer ==
  ASSUME [Next]_vars, ~HttpAnswer
  PROVE  /\ UNCHANGED <<iStatusCode, matched, c, httpCode, response>>
         /\ IF pc \in ReadingLines
            THEN /\ UNCHANGED <<received, iState>>
                 /\ pc' = pc \/ (pc = "answered" /\ pc' = "loop")
            ELSE pc' \notin ReadingLines /\ received' \in {received, 0}
<1> USE DEF ReadingLines, http, client
<1>1. CASE player_begin \/ readyForData \/ setupReturns
  BY <1>1 DEF player_begin, readyForData, setupReturns, stationVars
<1>2. CASE begin \/ poll \/ check \/ polled \/ checked
  BY <1>2 DEF begin, poll, check, polled, checked, init, stationVars, Unconnected
<1>3. CASE beginConnects \/ \E timedOut \in BOOLEAN : beginEnds(timedOut)
  BY <1>3 DEF beginConnects, beginEnds, startConnect, startConnectFails, ForgetsAddress,
              startConnectEnds
<1>4. CASE \E ok \in BOOLEAN : giveUp(ok)
  BY <1>4 DEF giveUp, disconnect, ClosesSocket
<1>5. CASE WiFiInit
  BY <1>5 DEF WiFiInit, httpVars, initResets, initReturns, initGoesOn
<1>6. CASE HttpGet
  BY <1>6 DEF HttpGet, hostByName, Resolved, connect, Connected, print, printAgain, finishHeaders,
              ClosesSocket, stationVars
<1>7. CASE stationHandlesEvent
  BY <1>7 DEF stationHandlesEvent, httpVars, HandleEvent, HandleConnected, ForgetsAddress,
              HandleDisconnected, HandleAddress, HandleResolved, HandleAnswer, ClosesSocket
<1>8. CASE chip \/ serverSends \/ serverCloses \/ UNCHANGED vars
  BY <1>8 DEF chip, ChipSteps, Reports, httpVars, serverSends, serverCloses, ClosesSocket,
              vars, stationVars
<1> QED BY <1>1, <1>2, <1>3, <1>4, <1>5, <1>6, <1>7, <1>8 DEF Next

\* What has been read, and made of it, stays as it is.
LEMMA LineFromKept ==
  ASSUME UNCHANGED <<received, iState, iStatusCode, matched, response>>,
         c' = c \/ (c.kind # "\n" /\ c'.kind # "\n"), NEW n, LineFrom(n)
  PROVE  LineFrom(n)'
BY DEF LineFrom, PrefixFrom, CodeFrom, RestFrom, CodeOf, NoFinalBefore, StartsLine

\* As long as no line has been begun, too.
LEMMA NoLineKept ==
  ASSUME UNCHANGED <<received, iState, iStatusCode, matched, response>>,
         c' = c \/ (c.kind # "\n" /\ c'.kind # "\n"), NoLineYet
  PROVE  NoLineYet'
BY DEF NoLineYet, NoFinalBefore, StartsLine

\* So does what was reported, and what it was taken from.
LEMMA ReportKept ==
  ASSUME UNCHANGED <<received, httpCode, response>>, StatusCodeIsTheResponses
  PROVE  StatusCodeIsTheResponses'
<1>1. UNCHANGED <<LineEnds, LastLine>>
  BY DEF LineEnds, LastLine
<1> QED BY <1>1 DEF StatusCodeIsTheResponses, StartsLine

\* Nothing is said of a call that has not reported a status code.
LEMMA NothingReported ==
  ASSUME httpCode' \in Int, httpCode' <= 0
  PROVE  StatusCodeIsTheResponses'
BY DEF StatusCodeIsTheResponses

\* A step that neither reads nor makes anything of what has been read keeps it all.
LEMMA LineKept ==
  ASSUME LineInv, UNCHANGED <<received, iState, iStatusCode, matched, httpCode, response>>,
         c' = c \/ (c.kind # "\n" /\ c'.kind # "\n"),
         pc \in ReadingLines, pc' \in ReadingLines, pc' \in InLine => pc \in InLine,
         pc' \in {"read", "pause"} => c'.kind # "\n"
  PROVE  LineInv'
<1>1. StatusCodeIsTheResponses'
  BY ReportKept DEF LineInv
<1>2. pc \in InLine => httpCode' <= 0 /\ (NoLineYet' \/ \E n \in 1 .. received' : LineFrom(n)')
  BY LineFromKept, NoLineKept DEF LineInv
<1> QED BY <1>1, <1>2 DEF LineInv

\* A line begins with the name of the protocol, as nothing else of the response has it,
LEMMA ReadsName ==
  ASSUME Types, NoLineYet, read, NameStartsLine, NEW n, n = received + 1
  PROVE  LineFrom(n)'
<1>1. /\ received \in Nat /\ received' = received + 1 /\ response' = response
      /\ c' = response[received + 1]
      /\ response[received + 1].kind = "HTTP/" /\ matched' = 1 /\ iState' = "eRequestSent"
      /\ iStatusCode' = iStatusCode
  BY DEF read, NoLineYet, statusPrefix, request, Types, ClientType
<1>2. received + 1 \in 1 .. Len(response)
  BY DEF read, Types, ClientType, RequestType
<1>3. StartsLine(received + 1)
  BY <1>1, <1>2 DEF NameStartsLine, StartsLine
<1> QED BY <1>1, <1>2, <1>3 DEF LineFrom, PrefixFrom, NoLineYet, NoFinalBefore, StartsLine

\* and goes on with the next character.
LEMMA ReadsOnLine ==
  ASSUME Types, NEW n \in 1 .. received, LineFrom(n), read, c.kind # "\n", DigitsAreOne
  PROVE  LineFrom(n)'
<1>0. /\ received \in Nat /\ sent \in Nat /\ sent <= Len(response) /\ Len(response) \in Nat
      /\ n \in Nat /\ n <= received
  BY DEF Types, ClientType, RequestType
<1>1. /\ received' = received + 1 /\ response' = response
      /\ c' = response[received + 1] /\ received + 1 \in 1 .. Len(response)
  BY <1>0 DEF read, request
<1>2. /\ StartsLine(n)' /\ NoFinalBefore(n)'
      /\ response'[n].kind = "HTTP/"
      /\ \A i \in n .. received' - 1 : response'[i].kind # "\n"
      /\ response'[received'].kind = "\n" <=> c'.kind = "\n"
  BY <1>0, <1>1 DEF LineFrom, StartsLine, NoFinalBefore
<1>3. CASE iState = "eRequestSent"
  <2>1. /\ matched \in 1 .. 2 /\ received = n + matched - 1
        /\ matched' = matched + 1 /\ iStatusCode' = iStatusCode
        /\ statusPrefix[matched + 1] \in {"*", response[received + 1].kind}
        /\ iState' = IF matched + 1 = 3 THEN "eReadingStatusCode" ELSE iState
    BY <1>3 DEF LineFrom, PrefixFrom, read, statusPrefix
  <2>2. iStatusCode = 0
    BY <1>3 DEF LineFrom, PrefixFrom
  <2>3. CASE matched = 1
    BY <1>0, <1>1, <1>2, <1>3, <2>1, <2>2, <2>3 DEF LineFrom, PrefixFrom
  <2>4. CASE matched = 2
    <3>1. response[n + 2].kind = "SP" /\ iState' = "eReadingStatusCode"
      <4>1. statusPrefix[3] = "SP" /\ matched + 1 = 3 /\ received + 1 = n + 2
        BY <1>0, <2>1, <2>4 DEF statusPrefix
      <4> QED BY <2>1, <4>1
    <3>2. CodeFrom(n)'
      BY <1>0, <1>1, <2>1, <2>2, <2>4, <3>1 DEF CodeFrom
    <3> QED BY <1>2, <3>1, <3>2 DEF LineFrom
  <2> QED BY <2>1, <2>3, <2>4
<1>4. CASE iState = "eReadingStatusCode"
  <2>1. /\ matched = 3 /\ matched' = 3 /\ response[n + 2].kind = "SP"
        /\ \/ received = n + 2 /\ iStatusCode = 0
           \/ received = n + 3 /\ response[n + 3].kind = "digits" /\ CodeOf(n)
    BY <1>4 DEF LineFrom, CodeFrom, read
  <2>2. CASE received = n + 2 /\ iStatusCode = 0
    <3>1. CASE response[received + 1].kind = "digits"
      <4>1. iStatusCode' = response[n + 3].code /\ iState' = iState
        <5>1. response[received + 1].code \in Nat
          <6>1. response[received + 1] \in Tokens
            BY <1>1 DEF Types, RequestType
          <6> QED BY <6>1 DEF Tokens
        <5> QED BY <1>0, <1>1, <1>4, <2>2, <3>1, <5>1 DEF read
      <4>2. CodeFrom(n)'
        BY <1>0, <1>1, <2>1, <2>2, <3>1, <4>1 DEF CodeFrom, CodeOf
      <4> QED BY <1>2, <1>4, <4>1, <4>2 DEF LineFrom
    <3>2. CASE response[received + 1].kind # "digits"
      <4>1. iStatusCode' = 0 /\ iState' = "eStatusCodeRead"
        BY <1>1, <1>4, <2>2, <3>2 DEF read
      <4>2. RestFrom(n)'
        BY <1>0, <1>1, <2>1, <2>2, <3>2, <4>1 DEF RestFrom, CodeOf
      <4> QED BY <1>2, <4>1, <4>2 DEF LineFrom
    <3> QED BY <3>1, <3>2
  <2>3. CASE received = n + 3 /\ response[n + 3].kind = "digits" /\ CodeOf(n)
    <3>1. response[received + 1].kind # "digits"
      BY <1>1, <2>3 DEF DigitsAreOne
    <3>2. iStatusCode' = iStatusCode /\ iState' = "eStatusCodeRead"
      BY <1>1, <1>4, <3>1 DEF read
    <3>3. RestFrom(n)'
      BY <1>0, <1>1, <2>1, <2>3, <3>2 DEF RestFrom, CodeOf
    <3> QED BY <1>2, <3>2, <3>3 DEF LineFrom
  <2> QED BY <2>1, <2>2, <2>3
<1>5. CASE iState = "eStatusCodeRead"
  <2>1. UNCHANGED <<iState, iStatusCode, matched>>
    BY <1>5 DEF read
  <2>2. RestFrom(n)'
    <3>1. RestFrom(n)
      BY <1>5 DEF LineFrom
    <3>2. CodeOf(n)'
      BY <1>1, <2>1, <3>1 DEF RestFrom, CodeOf
    <3>3. received' >= n + 3
      BY <1>0, <1>1, <3>1 DEF RestFrom, CodeOf
    <3>4. matched' = 3 /\ response'[n + 2].kind = "SP"
      BY <1>1, <2>1, <3>1 DEF RestFrom
    <3> QED BY <3>2, <3>3, <3>4 DEF RestFrom
  <2> QED BY <1>2, <1>5, <2>1, <2>2 DEF LineFrom
<1> QED BY <1>3, <1>4, <1>5 DEF LineFrom

\* The line is the last of those read.
LEMMA LineIsLast ==
  ASSUME Types, NEW n \in 1 .. received, LineFrom(n)
  PROVE  LastLine = SubSeq(response, n, received)
<1> DEFINE before == LineEnds \ {received}
<1> DEFINE Latest(i) == i \in before /\ \A j \in before : j <= i
<1>1. received \in Nat /\ n \in Nat /\ n <= received
  BY DEF Types, ClientType
<1>2. \A i \in before : i \in Nat /\ i <= n - 1
  BY <1>1 DEF LineEnds, LineFrom
<1>3. CASE n = 1
  <2>1. before = {}
    BY <1>1, <1>2, <1>3 DEF LineEnds
  <2> HIDE DEF before
  <2>2. LastLine = SubSeq(response, 1 + 0, received)
    BY <2>1 DEF LastLine, before
  <2> QED BY <1>3, <2>2
<1>4. CASE n # 1
  <2>1. n - 1 \in before
    BY <1>1, <1>4 DEF LineEnds, LineFrom, StartsLine
  <2>2. \A i : Latest(i) => i = n - 1
    BY <1>1, <1>2, <2>1
  <2>3. Latest(n - 1)
    BY <1>2, <2>1
  <2>4. (CHOOSE i \in before : \A j \in before : j <= i) = n - 1
    BY <2>2, <2>3
  <2>5. before # {}
    BY <2>1
  <2> HIDE DEF before
  <2>6. LastLine = SubSeq(response, 1 + (CHOOSE i \in before : \A j \in before : j <= i), received)
    BY <2>5 DEF LastLine, before
  <2>7. 1 + (n - 1) = n
    BY <1>1
  <2> QED BY <2>4, <2>6, <2>7, Zenon
<1> QED BY <1>3, <1>4

\* At its end the line is one more that is not a final status line,
LEMMA LineEndsInformational ==
  ASSUME Types, NEW n \in 1 .. received, LineFrom(n), anotherLine
  PROVE  NoFinalBefore(received + 1)
<1>1. received \in Nat /\ n \in Nat /\ n <= received
  BY DEF Types, ClientType
<1>2. RestFrom(n) /\ NoFinalBefore(n) /\ \A i \in n .. received - 1 : response[i].kind # "\n"
  BY DEF LineFrom, anotherLine
<1> SUFFICES ASSUME NEW i \in 1 .. received, StartsLine(i), i + 3 <= Len(response),
                    response[i + 3].kind = "digits"
             PROVE  ~IsFinal(response[i + 3].code)
  BY <1>1 DEF NoFinalBefore
<1>3. CASE i < n
  BY <1>1, <1>2, <1>3 DEF NoFinalBefore
<1>4. CASE i = n
  <2>1. response[i + 3].code = iStatusCode
    BY <1>2, <1>4 DEF RestFrom, CodeOf
  <2>2. iStatusCode \in Nat
    BY DEF Types, HttpType
  <2> QED BY <2>1, <2>2 DEF anotherLine, Informational, IsFinal
<1>5. ~(i > n)
  BY <1>1, <1>2 DEF StartsLine
<1> QED BY <1>1, <1>3, <1>4, <1>5

\* or its code is the one to be reported.
LEMMA LineEndsFinal ==
  ASSUME Types, NEW n \in 1 .. received, LineFrom(n), iState = "eStatusCodeRead",
         c.kind = "\n", ~Informational, httpCode' = iStatusCode, UNCHANGED <<received, response>>
  PROVE  StatusCodeIsTheResponses'
<1>1. /\ received \in Nat /\ n \in Nat /\ n <= received /\ received <= Len(response)
      /\ Len(response) \in Nat /\ iStatusCode \in Nat /\ response \in Seq(Tokens)
  BY DEF Types, ClientType, RequestType, HttpType
<1>2. RestFrom(n) /\ NoFinalBefore(n) /\ response[n].kind = "HTTP/" /\ received \in LineEnds
  BY <1>1 DEF LineFrom, LineEnds
<1>3. response[n + 3] = Token("digits", iStatusCode)
  <2>1. iStatusCode # 0
    BY <1>1 DEF Informational
  <2>2. response[n + 3].kind = "digits" /\ response[n + 3].code = iStatusCode
    BY <1>2, <2>1 DEF RestFrom, CodeOf
  <2>3. response[n + 3] \in Tokens
    BY <1>1, <1>2 DEF RestFrom, CodeOf
  <2> QED BY <2>2, <2>3 DEF Token, Tokens
<1>4. LastLine = SubSeq(response, n, received)
  BY LineIsLast
<1>5. /\ Len(LastLine) = received - n + 1 /\ received >= n + 3
      /\ \A i \in 1 .. received - n + 1 : LastLine[i] = response[n + i - 1]
  <2>1. received >= n + 3
    BY <1>2 DEF RestFrom, CodeOf
  <2> QED BY <1>1, <1>4, <2>1
<1>6. LastLine[1] = response[n] /\ LastLine[3] = response[n + 2] /\ LastLine[4] = response[n + 3]
  BY <1>1, <1>5
<1>7. \A i \in 1 .. received - Len(LastLine) :
        StartsLine(i) /\ response[i + 3].kind = "digits" =>
          response[i + 3].code < 200 /\ response[i + 3].code # 101
  <2> SUFFICES ASSUME NEW i \in 1 .. n - 1, StartsLine(i), response[i + 3].kind = "digits"
               PROVE  response[i + 3].code < 200 /\ response[i + 3].code # 101
    BY <1>1, <1>5
  <2>1. i + 3 \in 1 .. Len(response)
    BY <1>1, <1>5
  <2>2. response[i + 3] \in Tokens
    BY <1>1, <2>1
  <2>3. response[i + 3].code \in Nat
    BY <2>2 DEF Tokens
  <2> QED BY <1>2, <2>1, <2>3 DEF NoFinalBefore, IsFinal
<1>8. StatusCodeIsTheResponses'
  <2>1. UNCHANGED <<LineEnds, LastLine>> /\ \A i : StartsLine(i)' <=> StartsLine(i)
    BY DEF LineEnds, LastLine, StartsLine
  <2>2. response[n + 2].kind = "SP"
    BY <1>2 DEF RestFrom, CodeOf
  <2>3. /\ received' \in LineEnds' /\ Len(LastLine') >= 4
        /\ LastLine'[1].kind = "HTTP/" /\ LastLine'[3].kind = "SP"
    BY <1>1, <1>2, <1>5, <1>6, <2>1, <2>2
  <2>4. LastLine'[4] = Token("digits", httpCode')
    BY <1>3, <1>6, <2>1
  <2>5. \A i \in 1 .. received' - Len(LastLine') :
          StartsLine(i)' /\ response'[i + 3].kind = "digits" =>
            response'[i + 3].code < 200 /\ response'[i + 3].code # 101
    <3>1. received' = received /\ response' = response /\ LastLine' = LastLine
      BY <2>1
    <3> QED BY <1>7, <2>1, <3>1, Zenon
  <2>6. Token("digits", httpCode)' = Token("digits", httpCode')
    BY DEF Token
  <2> QED BY <2>1, <2>3, <2>4, <2>5, <2>6 DEF StatusCodeIsTheResponses
<1> QED BY <1>8

\* Every step keeps the line, what has been made of it and what was reported.
LEMMA LineStep ==
  ASSUME Types, LineInv, NameStartsLine, DigitsAreOne, [Next]_vars
  PROVE  LineInv'
<1>1. CASE ~HttpAnswer
  <2>1. /\ UNCHANGED <<iStatusCode, matched, c, httpCode, response>>
        /\ IF pc \in ReadingLines
           THEN /\ UNCHANGED <<received, iState>>
                /\ pc' = pc \/ (pc = "answered" /\ pc' = "loop")
           ELSE pc' \notin ReadingLines /\ received' \in {received, 0}
    BY <1>1, OutsideAnswer
  <2>2. CASE pc \in ReadingLines
    BY <2>1, <2>2, LineKept DEF ReadingLines, InLine, LineInv
  <2>3. CASE pc \notin ReadingLines
    <3>1. received = 0 /\ httpCode <= 0 /\ c.kind # "\n"
      BY <2>3 DEF LineInv
    <3>2. StatusCodeIsTheResponses'
      BY <2>1, <3>1, NothingReported DEF Types, HttpType
    <3> QED BY <2>1, <2>3, <3>1, <3>2 DEF LineInv, ReadingLines, InLine
  <2> QED BY <2>2, <2>3
<1>2. CASE responseStatusCode
  <2>1. received = 0 /\ httpCode <= 0 /\ c.kind # "\n" /\ UNCHANGED <<received, c, response>>
    BY <1>2 DEF responseStatusCode, LineInv, ReadingLines, ReadsOn, stationVars, client
  <2>2. CASE pc' = "answered"
    <3>1. httpCode' = -2
      BY <1>2, <2>2 DEF responseStatusCode, Answers, HTTP_ERROR_API
    <3> QED BY <2>2, <3>1 DEF LineInv, ReadingLines, InLine, StatusCodeIsTheResponses
  <2>3. CASE pc' = "look"
    <3>1. matched' = 0 /\ iState' = "eRequestSent" /\ iStatusCode' = 0 /\ httpCode' = httpCode
      BY <1>2, <2>3 DEF responseStatusCode, Answers, StartOfLine
    <3>2. NoLineYet'
      BY <2>1, <3>1 DEF NoLineYet, NoFinalBefore
    <3>3. StatusCodeIsTheResponses'
      BY <2>1, <3>1, NothingReported DEF Types, HttpType
    <3> QED BY <2>1, <2>3, <3>1, <3>2, <3>3 DEF LineInv, ReadingLines, InLine
  <2> QED BY <1>2, <2>2, <2>3 DEF responseStatusCode, Answers
<1>3. CASE look \/ (\E timedOut \in BOOLEAN : pause(timedOut)) \/ readNothing
  <2>1. UNCHANGED <<received, iState, iStatusCode, matched, httpCode, response>>
    BY <1>3 DEF look, pause, readNothing, ReadsOn, http, stationVars, client
  <2>2. pc \in InLine /\ pc' \in InLine
    BY <1>3 DEF look, pause, readNothing, InLine
  <2>3. c' = c \/ (c.kind # "\n" /\ c'.kind # "\n")
    BY <1>3 DEF look, pause, readNothing, http, LineInv, Nothing, Char, Token
  <2>4. pc' \in {"read", "pause"} => c'.kind # "\n"
    BY <1>3 DEF look, pause, readNothing, http
  <2> QED BY <2>1, <2>2, <2>3, <2>4, LineKept DEF InLine, ReadingLines
<1>4. CASE readInvalid
  <2>1. pc' = "answered" /\ httpCode' = -4
    BY <1>4 DEF readInvalid, Answers, HTTP_ERROR_INVALID_RESPONSE
  <2> QED BY <2>1 DEF LineInv, ReadingLines, InLine, StatusCodeIsTheResponses
<1>5. CASE read
  <2>1. /\ httpCode' = httpCode /\ httpCode <= 0 /\ pc' = "look" /\ c.kind # "\n"
        /\ NoLineYet \/ \E n \in 1 .. received : LineFrom(n)
    BY <1>5 DEF read, LineInv, InLine
  <2>2. received \in Nat /\ received' = received + 1
    BY <1>5 DEF read, Types, ClientType
  <2>3. \E n \in 1 .. received' : LineFrom(n)'
    <3>1. CASE NoLineYet
      <4>1. PICK n \in Nat : n = received + 1
        BY <2>2
      <4>2. LineFrom(n)'
        BY <1>5, <3>1, <4>1, ReadsName
      <4> QED BY <2>2, <4>1, <4>2
    <3>2. CASE \E n \in 1 .. received : LineFrom(n)
      <4>1. PICK n \in 1 .. received : LineFrom(n)
        BY <3>2
      <4>2. LineFrom(n)'
        BY <1>5, <2>1, <4>1, ReadsOnLine
      <4> QED BY <2>2, <4>2
    <3> QED BY <2>1, <3>1, <3>2
  <2>4. StatusCodeIsTheResponses'
    BY <2>1, NothingReported DEF Types, HttpType
  <2> QED BY <2>1, <2>3, <2>4 DEF LineInv, ReadingLines, InLine
<1>6. CASE endOfLine
  <2>1. /\ UNCHANGED <<received, response>> /\ httpCode <= 0
        /\ NoLineYet \/ \E n \in 1 .. received : LineFrom(n)
    BY <1>6 DEF endOfLine, ReadsOn, stationVars, client, LineInv, InLine
  <2>2. iState = "eStatusCodeRead" => \E n \in 1 .. received : LineFrom(n)
    BY <2>1 DEF NoLineYet
  <2>3. CASE anotherLine
    <3>1. /\ matched' = 0 /\ iState' = "eRequestSent" /\ iStatusCode' = 0 /\ httpCode' = httpCode
          /\ pc' = "look" /\ c'.kind # "\n"
      BY <1>6, <2>3 DEF endOfLine, StartOfLine, anotherLine, Nothing, Char, Token
    <3>2. NoFinalBefore(received + 1)
      BY <2>2, <2>3, LineEndsInformational DEF anotherLine
    <3>3. NoLineYet'
      BY <2>1, <3>1, <3>2 DEF NoLineYet, NoFinalBefore, StartsLine
    <3>4. StatusCodeIsTheResponses'
      BY <2>1, <3>1, NothingReported DEF Types, HttpType
    <3> QED BY <2>1, <3>1, <3>3, <3>4 DEF LineInv, ReadingLines, InLine
  <2>4. CASE ~anotherLine
    <3>1. pc' = "answered"
      BY <1>6, <2>4 DEF endOfLine, Answers
    <3>2. \/ httpCode' \in {-3, -4}
          \/ httpCode' = iStatusCode /\ iState = "eStatusCodeRead" /\ c.kind = "\n" /\ ~Informational
      BY <1>6, <2>4 DEF endOfLine, Answers, HTTP_ERROR_TIMED_OUT, HTTP_ERROR_INVALID_RESPONSE,
                        Nothing, Char, Token
    <3>3. StatusCodeIsTheResponses'
      <4>1. CASE httpCode' \in {-3, -4}
        BY <4>1 DEF StatusCodeIsTheResponses
      <4>2. CASE /\ httpCode' = iStatusCode /\ iState = "eStatusCodeRead"
                 /\ c.kind = "\n" /\ ~Informational
        BY <2>1, <2>2, <4>2, LineEndsFinal
      <4> QED BY <3>2, <4>1, <4>2
    <3> QED BY <3>1, <3>3 DEF LineInv, ReadingLines, InLine
  <2> QED BY <2>3, <2>4
<1> QED BY <1>1, <1>2, <1>3, <1>4, <1>5, <1>6 DEF HttpAnswer

\* When responseStatusCode() reports a status code, it is that of the line read last, and
\* the lines before it were no final status lines; for servers in whose responses
\* the name of the protocol only starts a line.
THEOREM StatusCodeCorrect ==
  ASSUME \A r \in Responses : \A i \in 2 .. Len(r) : r[i].kind = "HTTP/" => r[i - 1].kind = "\n"
  PROVE  Spec => []StatusCodeIsTheResponses
<1> DEFINE Well == NameStartsLine /\ DigitsAreOne
<1>1. Init => Well /\ LineInv
  <2>1. Init => Well
    BY ResponsesAssumption DEF Init, HttpInit, NameStartsLine, DigitsAreOne
  <2>2. Init => LineInv
    BY DEF Init, HttpInit, StationInit, LineInv, ReadingLines, InLine, Nothing, Char, Token,
           StatusCodeIsTheResponses
  <2> QED BY <2>1, <2>2
<1>2. Well /\ [Next]_vars => Well'
  BY ResponseKept DEF NameStartsLine, DigitsAreOne
<1>3. Types /\ LineInv /\ Well /\ [Next]_vars => LineInv'
  BY LineStep
<1>4. LineInv => StatusCodeIsTheResponses
  BY DEF LineInv
<1>5. StartupInv => Types
  BY DEF StartupInv
<1> QED BY <1>1, <1>2, <1>3, <1>4, <1>5, StartupInvHolds, PTL DEF Spec
=============================================================================
