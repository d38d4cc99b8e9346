----------------------------- MODULE WiFiStation -----------------------------
(***************************************************************************)
(* The WiFi library as a station, WiFi.cpp: joining an access point,       *)
(* leaving it, resolving a name, and the events by which the chip reports  *)
(* what has become of a request.  An event is handled in some call of the  *)
(* library; whether it has any effect depends on what the library takes    *)
(* itself to be doing (_mode) by then, not on what it was sent for.        *)
(*                                                                         *)
(* The one client is seen as in module ClientStream: its socket, how many  *)
(* bytes have become available, and how many of them have been read.       *)
(***************************************************************************)
EXTENDS ChipStart, Integers, Sequences

VARIABLES
  initialised,   \* WiFiClass::_init
  status,        \* WiFiClass::_status
  mode,          \* WiFiClass::_mode
  localip,       \* whether WiFiClass::_localip is not 0
  resolve,       \* whether WiFiClass::_resolve is not 0
  socket,        \* the client's: "none", "connecting" or "connected"
  sent, received,
  link,          \* the chip: "down", "joining", "up", or "online" with an address
  asked,         \* the chip: "nothing", a "name" or a "connection"
  events,        \* the chip: what it has to report
  refused        \* whether the chip did not take the request to leave

station == <<initialised, status, mode, localip, resolve>>
client == <<socket, sent, received>>
theChip == <<link, asked, events>>
stationVars == <<station, client, theChip, refused, chipStartVars>>

WL_NO_SHIELD == 255
WL_IDLE_STATUS == 0
WL_CONNECTED == 3
WL_CONNECT_FAILED == 4
WL_DISCONNECTED == 6

WL_RESET_MODE == 0
WL_STA_MODE == 1

StationInit ==
  /\ ChipStartInit
  /\ initialised = FALSE /\ status = WL_NO_SHIELD /\ mode = WL_RESET_MODE
  /\ localip = FALSE /\ resolve = FALSE
  /\ socket = "none" /\ sent = 0 /\ received = 0
  /\ link = "down" /\ asked = "nothing" /\ events = << >>
  /\ refused = FALSE

-----------------------------------------------------------------------------
(***************************************************************************)
(* The chip, once its firmware runs, and the access point.                 *)
(***************************************************************************)

Reports(event, newLink, newAsked) ==
  /\ events' = Append(events, event)
  /\ link' = newLink /\ asked' = newAsked
  /\ UNCHANGED <<station, client, refused, chipStartVars>>

ChipSteps ==
  \/ link = "joining" /\ Reports("connected", "up", asked)
  \/ link = "up" /\ Reports("address", "online", asked)
  \/ link # "down" /\ Reports("disconnected", "down", "nothing")
  \/ link = "online" /\ asked = "name" /\ Reports("resolved", link, "nothing")
  \/ link = "online" /\ asked = "connection"
       /\ \E e \in {"accepted", "rejected"} : Reports(e, link, "nothing")

\* A request reaches the chip, or it fails.
Asks(what, ok) ==
  /\ Reaches(ok)
  /\ asked' = IF ok THEN what ELSE asked
  /\ UNCHANGED <<link, events, refused, chipStartVars>>

-----------------------------------------------------------------------------
(***************************************************************************)
(* handleEvent(), handleResolve(), and the socket's handleEvent().         *)
(***************************************************************************)

\* An address comes from DHCP, unless no init() has succeeded yet: only that sets
\* _dhcp, and then for good.
dhcp == initialised
ForgetsAddress == localip' = IF dhcp THEN FALSE ELSE localip

\* A closed socket has lost what it held unread.  The mutant keeps it.
ClosesSocket_KeepsUnread == socket' = "none" /\ UNCHANGED <<sent, received>>
ClosesSocket == socket' = "none" /\ sent' = received /\ UNCHANGED received

HandleDisconnected ==
  /\ Head(events) = "disconnected"
  /\ IF mode = WL_STA_MODE
     THEN /\ status' = WL_DISCONNECTED /\ ForgetsAddress
          /\ ClosesSocket
     ELSE UNCHANGED <<status, localip, client>>
  /\ UNCHANGED <<initialised, mode, resolve>>

\* The mutant does not look at the mode.
HandleAddress_AnyMode ==
  /\ Head(events) = "address"
  /\ status' = WL_CONNECTED /\ localip' = TRUE
  /\ UNCHANGED <<initialised, mode, resolve, client>>
HandleAddress ==
  /\ Head(events) = "address"
  /\ IF mode = WL_STA_MODE
     THEN status' = WL_CONNECTED /\ localip' = TRUE
     ELSE UNCHANGED <<status, localip>>
  /\ UNCHANGED <<initialised, mode, resolve, client>>

HandleResolved ==
  /\ Head(events) = "resolved"
  /\ resolve' = TRUE
  /\ UNCHANGED <<initialised, status, mode, localip, client>>

\* The answer to a request for a connection that was given up has no effect on
\* the client.
HandleAnswer ==
  /\ Head(events) \in {"accepted", "rejected"}
  /\ socket' = IF socket # "connecting" THEN socket
               ELSE IF Head(events) = "accepted" THEN "connected" ELSE "none"
  /\ UNCHANGED <<station, sent, received>>

\* To a library that waits for an address from DHCP the access point alone is no news.
HandleConnected ==
  /\ Head(events) = "connected"
  /\ status' = IF mode = WL_STA_MODE /\ ~dhcp THEN WL_CONNECTED ELSE status
  /\ UNCHANGED <<initialised, mode, localip, resolve, client>>

\* The interrupt announces an event.  Those of the sockets and the resolver have no
\* callback before init() has succeeded.
HandleEvent ==
  /\ gpfIsr /\ events # << >>
  /\ IF initialised \/ Head(events) \in {"connected", "disconnected", "address"}
     THEN HandleConnected \/ HandleDisconnected \/ HandleAddress
            \/ HandleResolved \/ HandleAnswer
     ELSE UNCHANGED <<station, client>>
  /\ events' = Tail(events)
  /\ UNCHANGED <<link, asked, refused, chipStartVars>>

-----------------------------------------------------------------------------
(***************************************************************************)
(* init(), begin(), status() and disconnect().                             *)
(***************************************************************************)

\* Whoever finds that init() has not succeeded yet calls it.
init ==
  /\ step' = IF initialised THEN "returned" ELSE "bsp"
  /\ UNCHANGED <<gu8Crc_off, chipid, gpfIsr, chipState, failures,
                 station, client, theChip, refused>>

\* With its reset the chip forgets what it was asked for and has not reported.
initResets ==
  /\ nm_bsp_init
  /\ link' = "down" /\ asked' = "nothing" /\ events' = << >>
  /\ UNCHANGED <<station, client, refused>>

initGoesOn(timedOut) ==
  driverStep(timedOut) /\ UNCHANGED <<station, client, theChip, refused>>

\* A failure changes nothing.
initReturns ==
  /\ step \in {"succeeded", "failed"} /\ step' = "returned"
  /\ IF step = "succeeded"
     THEN /\ initialised' = TRUE /\ status' = WL_IDLE_STATUS
          /\ localip' = FALSE /\ resolve' = FALSE
     ELSE UNCHANGED <<initialised, status, localip, resolve>>
  /\ UNCHANGED <<mode, gu8Crc_off, chipid, gpfIsr, chipState, failures,
                 client, theChip, refused>>

\* startConnect(), up to the wait, whatever has come of init().
startConnectFails ==
  /\ ForgetsAddress
  /\ status' = WL_CONNECT_FAILED
  /\ UNCHANGED <<initialised, mode, resolve, client, theChip, refused, chipStartVars>>

startConnect ==
  /\ Reaches(TRUE)
  /\ ForgetsAddress
  /\ status' = WL_IDLE_STATUS /\ mode' = WL_STA_MODE
  /\ link' = "joining"
  /\ UNCHANGED <<initialised, resolve, client, asked, events, refused, chipStartVars>>

\* The wait is over when a bit of the status is set that WL_CONNECTED or
\* WL_DISCONNECTED has too.  DISCONNECTED shares a bit with CONNECTED, so that
\* only a wait that timed out resets the mode.
SharesBit(a, b) ==
  \E bit \in {1, 2, 4, 8, 16, 32, 64, 128} :
    (a \div bit) % 2 = 1 /\ (b \div bit) % 2 = 1

isConnected == SharesBit(status, WL_CONNECTED)
isDisconnected == SharesBit(status, WL_DISCONNECTED)

startConnectEnds(timedOut) ==
  /\ isConnected \/ isDisconnected \/ timedOut
  /\ mode' = IF isConnected THEN mode ELSE WL_RESET_MODE
  /\ UNCHANGED <<initialised, status, localip, resolve, client, theChip, refused,
                 chipStartVars>>

\* disconnect(): the sockets are closed and the chip is told, or not; nothing
\* else is changed until the chip reports it.
disconnect(ok) ==
  /\ Reaches(ok)
  /\ ClosesSocket
  /\ refused' = (refused \/ ~ok)
  /\ IF ok /\ link # "down"
     THEN link' = "down" /\ asked' = "nothing" /\ events' = Append(events, "disconnected")
     ELSE UNCHANGED theChip
  /\ UNCHANGED <<station, chipStartVars>>
=============================================================================
