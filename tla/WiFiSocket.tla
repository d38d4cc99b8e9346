----------------------------- MODULE WiFiSocket -----------------------------
(***************************************************************************)
(* A WiFiClient of the WiFi library, down to the chip: WiFiClient.cpp,     *)
(* WiFiSocket.cpp and socket.c over the host interface (module Hif).       *)
(*                                                                         *)
(* The library has one thread.  Its calls handle events, and the handler   *)
(* of an event may close sockets, which handles events: a call may find    *)
(* its socket closed by the time it goes on.  The chip acts at any time.   *)
(*                                                                         *)
(* Received data stays in the chip until it fits the socket's buffer; only *)
(* when both are empty is the chip asked for more.  A byte is its session  *)
(* and its position in what the peer sent in that session.                 *)
(***************************************************************************)
EXTENDS Hif

CONSTANTS
  TCP_SOCK_MAX,         \* sockets, 7 in the code
  SOCKET_BUFFER_SIZE,   \* 1472 in the code, 64 on small boards
  MaxRead,              \* bound: the most a caller reads at once
  MaxChunk,             \* bound: the most bytes in one packet
  StreamLength,         \* bound: how many bytes a peer sends
  MaxSessions,          \* bound: how many connections are tried
  MaxLinkLosses         \* bound: how often the WiFi connection is lost

ASSUME SocketAssumption ==
  /\ TCP_SOCK_MAX \in Nat \ {0} /\ SOCKET_BUFFER_SIZE \in Nat \ {0}
  /\ MaxRead \in Nat \ {0} /\ MaxChunk \in Nat \ {0}
  /\ StreamLength \in Nat /\ MaxSessions \in Nat /\ MaxLinkLosses \in Nat

VARIABLES
  gastrSockets,    \* socket.c: bIsUsed, u16SessionID, bIsRecvPending
  gu16SessionID,
  u8NextTcpSock,
  info,            \* WiFiSocketClass::_info: state, recvMsg, buffer
  theSocket,       \* WiFiClient::_socket
  peers,           \* the chip: its end of each socket
  losses,          \* the chip: how often the WiFi connection was lost
  got,             \* history: the bytes read in this session, in order
  misled           \* history: a connection was taken for another (ConnectReply)

socketVars == <<gastrSockets, gu16SessionID, u8NextTcpSock, info, theSocket>>
chipVars == <<peers, losses>>
history == <<got, misled>>
vars == <<hifVars, socketVars, chipVars, history>>

Sockets == 0 .. TCP_SOCK_MAX - 1
None == -1

\* recvMsg: from where in the packet, and how many bytes of it, are to be read.
NoMessage == [pu8Buffer |-> 0, s16BufferSize |-> 0]
Unused == [bIsUsed |-> FALSE, u16SessionID |-> 0, bIsRecvPending |-> FALSE]
Invalid == [state |-> "INVALID", recvMsg |-> NoMessage, buffer |-> << >>]
NoPeer == [session |-> 0, phase |-> "none", asked |-> FALSE, sent |-> 0]

Smaller(a, b) == IF a < b THEN a ELSE b

Connected(s) == info[s].state = "CONNECTED"
Remaining(s) == info[s].recvMsg.s16BufferSize

\* What WiFiSocket.available returns.
availableOn(s) ==
  IF Connected(s) THEN Len(info[s].buffer) + Remaining(s) ELSE 0

-----------------------------------------------------------------------------
Init ==
  /\ HifInit
  /\ gastrSockets = [s \in Sockets |-> Unused]
  /\ gu16SessionID = 0 /\ u8NextTcpSock = 0
  /\ info = [s \in Sockets |-> Invalid]
  /\ theSocket = None
  /\ peers = [s \in Sockets |-> NoPeer] /\ losses = 0
  /\ got = << >> /\ misled = FALSE

-----------------------------------------------------------------------------
(***************************************************************************)
(* The chip and the peers.                                                 *)
(***************************************************************************)

\* Every packet has the same fields, used or not.
Packet(type, s, session, ok, data) ==
  [type |-> type, sock |-> s, session |-> session, ok |-> ok, data |-> data]

Queues(p) ==
  /\ queue' = Append(queue, p)
  /\ UNCHANGED <<context, todo, rx, newInterrupt, faults, socketVars, history>>

\* The peer accepts or refuses the connection.  The reply names no session; the
\* packet has it for misled only.
Answer(s, ok) ==
  /\ peers[s].phase = "connecting"
  /\ peers' = [peers EXCEPT ![s] = IF ok THEN [@ EXCEPT !.phase = "open"] ELSE NoPeer]
  /\ Queues(Packet("connect", s, peers[s].session, ok, << >>))
  /\ UNCHANGED losses

\* The chip answers a request for data with some of what the peer sends.
Data(s, n) == [i \in 1 .. n |-> <<peers[s].session, peers[s].sent + i>>]

Arrive(s, n) ==
  /\ peers[s].phase = "open" /\ peers[s].asked
  /\ peers[s].sent + n <= StreamLength
  /\ peers' = [peers EXCEPT ![s].asked = FALSE, ![s].sent = @ + n]
  /\ Queues(Packet("recv", s, peers[s].session, TRUE, Data(s, n)))
  /\ UNCHANGED losses

\* ... or, when the peer has closed or aborted the connection, with a status of
\* 0 or less.
Finish(s) ==
  /\ peers[s].phase = "open" /\ peers[s].asked
  /\ peers' = [peers EXCEPT ![s] = NoPeer]
  /\ Queues(Packet("recv", s, peers[s].session, FALSE, << >>))
  /\ UNCHANGED losses

\* The WiFi connection is lost, and every connection with it.
LoseLink ==
  /\ losses < MaxLinkLosses
  /\ losses' = losses + 1
  /\ peers' = [s \in Sockets |-> NoPeer]
  /\ Queues(Packet("disconnected", 0, 0, FALSE, << >>))

OfferPacket == Offer /\ UNCHANGED <<socketVars, chipVars, history>>

chip ==
  \/ OfferPacket
  \/ LoseLink
  \/ \E s \in Sockets :
       \/ \E ok \in BOOLEAN : Answer(s, ok)
       \/ \E n \in 1 .. MaxChunk : Arrive(s, n)
       \/ Finish(s)

-----------------------------------------------------------------------------
(***************************************************************************)
(* socket.c: requests to the chip.                                         *)
(***************************************************************************)

\* A request reaches the chip, which changes its end, or it fails.
Request(s, peer) ==
  \E ok \in BOOLEAN :
    /\ Access("request", ok)
    /\ peers' = IF ok THEN [peers EXCEPT ![s] = peer] ELSE peers

\* recv(): one request at a time.  It counts as pending even if it failed.
recv(s) ==
  IF gastrSockets[s].bIsUsed /\ ~gastrSockets[s].bIsRecvPending
  THEN /\ gastrSockets' = [gastrSockets EXCEPT ![s].bIsRecvPending = TRUE]
       /\ Request(s, IF peers[s].session = gastrSockets[s].u16SessionID
                     THEN [peers[s] EXCEPT !.asked = TRUE] ELSE peers[s])
  ELSE UNCHANGED <<gastrSockets, faults, peers>>

\* socket() takes the first free socket from the one after the last taken on,
\* with a session ID of its own.
FreeSocket(s) ==
  /\ ~gastrSockets[s].bIsUsed
  /\ \A d \in 0 .. ((s - u8NextTcpSock + TCP_SOCK_MAX) % TCP_SOCK_MAX) - 1 :
       gastrSockets[(u8NextTcpSock + d) % TCP_SOCK_MAX].bIsUsed

newSession == gu16SessionID' = gu16SessionID + 1

\* close() frees the socket, whether or not the chip learns of it.
closeSocket(s) ==
  IF gastrSockets[s].bIsUsed
  THEN /\ gastrSockets' = [gastrSockets EXCEPT ![s] = Unused]
       /\ Request(s, IF peers[s].session = gastrSockets[s].u16SessionID
                     THEN NoPeer ELSE peers[s])
  ELSE UNCHANGED <<gastrSockets, faults, peers>>

-----------------------------------------------------------------------------
(***************************************************************************)
(* fillRecvBuffer() and handleEvent().                                     *)
(***************************************************************************)

\* What fillRecvBuffer(s) makes of i, the socket's info, when it succeeds.  The
\* mutants forget the buffer's size, and to move on in the packet.
Filled_Whole(i, data) ==
  LET m == i.recvMsg
  IN [i EXCEPT !.buffer = SubSeq(data, m.pu8Buffer + 1, m.pu8Buffer + m.s16BufferSize),
               !.recvMsg = NoMessage]
Filled_SameAddress(i, data) ==
  LET m == i.recvMsg
      size == Smaller(m.s16BufferSize, SOCKET_BUFFER_SIZE)
  IN [i EXCEPT !.buffer = SubSeq(data, m.pu8Buffer + 1, m.pu8Buffer + size),
               !.recvMsg.s16BufferSize = @ - size]
Filled(i, data) ==
  LET m == i.recvMsg
      size == Smaller(m.s16BufferSize, SOCKET_BUFFER_SIZE)
  IN [i EXCEPT !.buffer = SubSeq(data, m.pu8Buffer + 1, m.pu8Buffer + size),
               !.recvMsg = [pu8Buffer |-> m.pu8Buffer + size,
                            s16BufferSize |-> m.s16BufferSize - size]]

\* The last transfer of a packet ends it.
lastTransfer(i) == i.recvMsg.s16BufferSize <= SOCKET_BUFFER_SIZE

\* fillRecvBuffer(s), with i the socket's info and blocked the flag before the
\* call.  If the chip cannot be read, or told, nothing has been filled.
fillRecvBuffer(s, i, blocked) ==
  \/ /\ info' = [info EXCEPT ![s] = Filled(i, Head(rx).data)]
     /\ IF lastTransfer(i)
        THEN hif_set_rx_done("fill", TRUE)
        ELSE /\ hif_receive_blocked' = blocked
             /\ UNCHANGED <<u8Interrupt, enabled, u8HifRXDone,
                            queue, rx, newInterrupt, faults>>
  \/ /\ info' = [info EXCEPT ![s] = i]
     /\ \/ /\ Access("fill", FALSE)
           /\ hif_receive_blocked' = blocked
           /\ UNCHANGED <<u8Interrupt, enabled, u8HifRXDone,
                          queue, rx, newInterrupt>>
        \/ lastTransfer(i) /\ hif_set_rx_done("fill", FALSE)

\* hif_receive(0, NULL, 0, 1): the rest of the packet is not wanted.
Discard == \E ok \in BOOLEAN : hif_set_rx_done("done", ok)

Handling(type) == Running("callback") /\ Head(rx).type = type

\* A packet whose reply cannot be read, or finished, is not handled.
CallbackFails ==
  /\ Running("callback")
  /\ ReceiveFails(Head(rx).data = << >>)
  /\ Returns
  /\ UNCHANGED <<socketVars, chipVars, history>>

sameSession(p) == p.session = gastrSockets[p.sock].u16SessionID

\* SOCKET_CMD_CONNECT: the state changes whatever session it was meant for.
ConnectReply ==
  /\ Handling("connect")
  /\ Received(TRUE) /\ Returns
  /\ info' = [info EXCEPT ![Head(rx).sock].state =
                IF Head(rx).ok THEN "CONNECTED" ELSE "IDLE"]
  /\ misled' = (misled \/ (gastrSockets[Head(rx).sock].bIsUsed /\ ~sameSession(Head(rx))))
  /\ UNCHANGED <<gastrSockets, gu16SessionID, u8NextTcpSock, theSocket, chipVars, got>>

\* SOCKET_CMD_RECV: the request is no longer pending, even if the reply turns
\* out to belong to an earlier session.
NotPending(s) == gastrSockets' = [gastrSockets EXCEPT ![s].bIsRecvPending = FALSE]

\* Data for a connected socket is announced, and as much of it as fits is read.
DataReply ==
  LET p == Head(rx) IN
  /\ Handling("recv") /\ p.data # << >> /\ sameSession(p) /\ Connected(p.sock)
  /\ NotPending(p.sock)
  /\ fillRecvBuffer(p.sock,
       [info[p.sock] EXCEPT !.recvMsg =
          [pu8Buffer |-> 0, s16BufferSize |-> Len(p.data)]], TRUE)
  /\ Returns
  /\ UNCHANGED <<gu16SessionID, u8NextTcpSock, theSocket, chipVars, history>>

\* Data of an earlier session, or for a socket that is not connected any more.
DiscardReply ==
  LET p == Head(rx) IN
  /\ Handling("recv") /\ p.data # << >> /\ ~(sameSession(p) /\ Connected(p.sock))
  /\ NotPending(p.sock)
  /\ Discard /\ Returns
  /\ UNCHANGED <<gu16SessionID, u8NextTcpSock, info, theSocket, chipVars, history>>

\* The end of the connection: the socket is closed, from within the handler.
StatusReply ==
  LET p == Head(rx) IN
  /\ Handling("recv") /\ p.data = << >>
  /\ NotPending(p.sock)
  /\ Received(TRUE)
  /\ IF sameSession(p) THEN GoesOnWith(<<Events, Call("close", p.sock)>>) ELSE Returns
  /\ UNCHANGED <<gu16SessionID, u8NextTcpSock, info, theSocket, chipVars, history>>

\* M2M_WIFI_RESP_CON_STATE_CHANGED: all sockets are closed, one after another.
AllClosed ==
  [i \in 1 .. 2 * TCP_SOCK_MAX |->
     IF i % 2 = 1 THEN Events ELSE Call("close", i \div 2 - 1)]

Disconnected ==
  /\ Handling("disconnected")
  /\ Received(TRUE)
  /\ GoesOnWith(AllClosed)
  /\ UNCHANGED <<socketVars, chipVars, history>>

m2m_ip_cb ==
  \/ CallbackFails \/ ConnectReply \/ DataReply \/ DiscardReply
  \/ StatusReply \/ Disconnected

-----------------------------------------------------------------------------
(***************************************************************************)
(* WiFiSocket.close(), after it has handled events.                        *)
(***************************************************************************)

\* What it makes of i, the socket's info.  The mutants forget the state, and
\* what was read from the chip.
closed_Connected(i) == [Invalid EXCEPT !.state = i.state]
closed_KeepsBuffer(i) == [Invalid EXCEPT !.buffer = i.buffer]
closed(i) == Invalid

\* Data left in the chip is discarded.  The mutant leaves it there.
flushes_Never(s) == FALSE
flushes(s) == Connected(s) /\ Remaining(s) > 0

close ==
  /\ Running("close")
  /\ LET s == Head(todo).arg IN
     /\ IF flushes(s)
        THEN Discard
        ELSE UNCHANGED <<context, queue, rx, newInterrupt, faults>>
     /\ info' = [info EXCEPT ![s] = closed(@)]
     /\ GoesOnWith(<<Call("release", s)>>)
  /\ UNCHANGED <<gastrSockets, gu16SessionID, u8NextTcpSock, theSocket, chipVars, history>>

\* The call of socket.c's close() that ends it.
release ==
  /\ Running("release")
  /\ closeSocket(Head(todo).arg)
  /\ Returns
  /\ UNCHANGED <<context, queue, rx, newInterrupt,
                 gu16SessionID, u8NextTcpSock, info, theSocket, losses, history>>

-----------------------------------------------------------------------------
(***************************************************************************)
(* The calls of a sketch.  Each is the list of what it does in turn; a     *)
(* step that returns early drops what is left of it.                       *)
(***************************************************************************)

Idle == todo = << >>
hifQuiet == UNCHANGED <<context, queue, rx, newInterrupt>>

Calls(calls) ==
  /\ Idle /\ todo' = calls
  /\ hifQuiet /\ UNCHANGED <<faults, socketVars, chipVars, history>>

\* available(), connected(), peek(), WiFi.status(): the answer is a function of
\* the state once events have been handled.
PollEvents == Calls(<<Events>>)

\* stop()
Stop == theSocket # None /\ Calls(<<Events, Call("close", theSocket), Call("forget", 0)>>)

\* connect(): a connection there is gets closed first.
Connect ==
  /\ gu16SessionID < MaxSessions
  /\ Calls(IF theSocket = None THEN <<Call("create", 0)>>
           ELSE <<Events, Call("stopFirst", 0)>>)

\* read(buf, n): available(), then read() of the socket, which looks at its state
\* and calls available() itself.  Nothing it does before can make up for a look
\* that fails, so that the look between the last two handlings of events is left
\* out with one of them.
Read(n) ==
  /\ theSocket # None
  /\ Calls(<<Events, Call("look", 0), Events, Call("readStart", n)>>)

\* write(): connected() and write() of the socket each look at its state.
Write ==
  /\ theSocket # None
  /\ Calls(<<Events, Call("lookOpen", 0), Events, Call("lookOpen", 0), Call("send", 0)>>)

-----------------------------------------------------------------------------
(***************************************************************************)
(* connect()                                                               *)
(***************************************************************************)

stopFirst ==
  /\ Running("stopFirst")
  /\ GoesOnWith(IF Connected(theSocket)
                THEN <<Events, Call("close", theSocket), Call("forget", 0), Call("create", 0)>>
                ELSE <<Call("create", 0)>>)
  /\ hifQuiet /\ UNCHANGED <<faults, socketVars, chipVars, history>>

forget ==
  /\ Running("forget")
  /\ theSocket' = None
  /\ Returns
  /\ hifQuiet
  /\ UNCHANGED <<faults, gastrSockets, gu16SessionID, u8NextTcpSock, info, chipVars, history>>

\* WiFiSocket.create() and the request of WiFiSocket.connect().  The state of a
\* socket is only set to idle if its number is not 0, and becomes connecting
\* when the request could be made.
Created(s) == IF s > 0 THEN [info[s] EXCEPT !.state = "IDLE"] ELSE info[s]

createOn(s) ==
  /\ FreeSocket(s)
  /\ newSession
  /\ gastrSockets' = [gastrSockets EXCEPT ![s] =
       [bIsUsed |-> TRUE, u16SessionID |-> gu16SessionID', bIsRecvPending |-> FALSE]]
  /\ u8NextTcpSock' = (s + 1) % TCP_SOCK_MAX
  /\ theSocket' = s
  /\ \E ok \in BOOLEAN :
       /\ Access("request", ok)
       /\ peers' = IF ok THEN [peers EXCEPT ![s] =
                     [session |-> gu16SessionID', phase |-> "connecting",
                      asked |-> FALSE, sent |-> 0]] ELSE peers
       /\ info' = [info EXCEPT ![s] =
            IF ok THEN [Created(s) EXCEPT !.state = "CONNECTING"] ELSE Created(s)]
       /\ GoesOnWith(IF ok THEN <<Events, Call("connecting", 0)>>
                     ELSE <<Events, Call("close", s), Call("forget", 0)>>)

\* Without a free socket there is no connection.
createFails ==
  /\ theSocket' = None
  /\ Returns
  /\ UNCHANGED <<faults, gastrSockets, gu16SessionID, u8NextTcpSock, info, peers>>

create ==
  /\ Running("create")
  /\ IF \A s \in Sockets : gastrSockets[s].bIsUsed
     THEN createFails
     ELSE \E s \in Sockets : createOn(s)
  /\ got' = << >>
  /\ hifQuiet /\ UNCHANGED <<losses, misled>>

\* The loop that waits for the connection, for 20 seconds at most.
connecting ==
  /\ Running("connecting") /\ info[theSocket].state = "CONNECTING"
  /\ GoesOnWith(<<Events, Call("connecting", 0)>>)
  /\ hifQuiet /\ UNCHANGED <<faults, socketVars, chipVars, history>>

\* Time is up, or the peer refused.  The mutant does not close the socket.
connectFails_NoClose ==
  /\ Running("connecting") /\ ~Connected(theSocket)
  /\ info' = [info EXCEPT ![theSocket].state = "IDLE"]
  /\ GoesOnWith(<<Events, Call("forget", 0)>>)
  /\ hifQuiet
  /\ UNCHANGED <<faults, gastrSockets, gu16SessionID, u8NextTcpSock, theSocket, chipVars, history>>
connectFails ==
  /\ Running("connecting") /\ ~Connected(theSocket)
  /\ info' = [info EXCEPT ![theSocket].state = "IDLE"]
  /\ GoesOnWith(<<Events, Call("close", theSocket), Call("forget", 0)>>)
  /\ hifQuiet
  /\ UNCHANGED <<faults, gastrSockets, gu16SessionID, u8NextTcpSock, theSocket, chipVars, history>>

connectDone ==
  /\ Running("connecting") /\ Connected(theSocket)
  /\ info' = [info EXCEPT ![theSocket].recvMsg.s16BufferSize = 0]
  /\ recv(theSocket)
  /\ Returns
  /\ hifQuiet /\ UNCHANGED <<gu16SessionID, u8NextTcpSock, theSocket, losses, history>>

-----------------------------------------------------------------------------
(***************************************************************************)
(* read() and write()                                                      *)
(***************************************************************************)

Looks(op, goesOn) ==
  /\ Running(op)
  /\ IF goesOn THEN Returns ELSE todo' = << >>
  /\ hifQuiet /\ UNCHANGED <<faults, socketVars, chipVars, history>>

look == Looks("look", availableOn(theSocket) > 0)
lookOpen == Looks("lookOpen", Connected(theSocket))

\* What is asked for is cut to what there is.
readSize_Uncut(n) == n
readSize(n) == Smaller(n, availableOn(theSocket))

readStart ==
  /\ Running("readStart")
  /\ IF availableOn(theSocket) > 0
     THEN GoesOnWith(<<Call("copy", readSize(Head(todo).arg)), Call("readEnd", 0)>>)
     ELSE Returns
  /\ hifQuiet /\ UNCHANGED <<faults, socketVars, chipVars, history>>

\* One turn of the loop: the buffer is refilled if it is empty, unless that fails,
\* which ends the loop; and copied to the caller.
copyFill ==
  LET s == theSocket IN
  /\ Running("copy") /\ Head(todo).arg > 0
  /\ info[s].buffer = << >> /\ Remaining(s) > 0
  /\ fillRecvBuffer(s, info[s], hif_receive_blocked)
  /\ IF failures' = failures THEN UNCHANGED todo ELSE Returns
  /\ UNCHANGED <<gastrSockets, gu16SessionID, u8NextTcpSock, theSocket, chipVars, history>>

copy ==
  LET s == theSocket
      size == Head(todo).arg
      toCopy == Smaller(size, Len(info[s].buffer))
  IN
  /\ Running("copy")
  /\ size = 0 \/ info[s].buffer # << >> \/ Remaining(s) = 0
  /\ got' = got \o SubSeq(info[s].buffer, 1, toCopy)
  /\ info' = [info EXCEPT ![s].buffer = SubSeq(@, toCopy + 1, Len(@))]
  /\ IF size = toCopy THEN Returns ELSE GoesOnWith(<<Call("copy", size - toCopy)>>)
  /\ hifQuiet
  /\ UNCHANGED <<faults, gastrSockets, gu16SessionID, u8NextTcpSock, theSocket, chipVars, misled>>

\* More is asked for when all of it has been read.  The mutant never asks.
consumed_Never(s) == FALSE
consumed(s) == info[s].buffer = << >> /\ Remaining(s) = 0

readEnd ==
  /\ Running("readEnd")
  /\ IF consumed(theSocket)
     THEN recv(theSocket) /\ GoesOnWith(<<Events>>)
     ELSE Returns /\ UNCHANGED <<gastrSockets, faults, peers>>
  /\ hifQuiet
  /\ UNCHANGED <<gu16SessionID, u8NextTcpSock, info, theSocket, losses, history>>

\* send() is tried again after a failure, unless nothing can come of it: the
\* socket is gone, or events are blocked.  The chip may refuse it any number of
\* times, which MaxFailures does not count.
send ==
  /\ Running("send")
  /\ \/ Returns
     \/ /\ gastrSockets[theSocket].bIsUsed /\ ~hif_receive_blocked
        /\ GoesOnWith(<<Events, Call("send", 0)>>)
  /\ hifQuiet /\ UNCHANGED <<faults, socketVars, chipVars, history>>

-----------------------------------------------------------------------------
hif == HifStep /\ UNCHANGED <<socketVars, chipVars, history>>

library ==
  \/ hif \/ m2m_ip_cb \/ close \/ release
  \/ stopFirst \/ forget \/ create
  \/ connecting \/ connectFails \/ connectDone
  \/ look \/ lookOpen \/ readStart \/ copyFill \/ copy \/ readEnd \/ send

reader == \E n \in 1 .. MaxRead : Read(n)
sketch == PollEvents \/ Connect \/ Stop \/ Write \/ reader

Next == library \/ sketch \/ chip

Spec == Init /\ [][Next]_vars

\* The sketch goes on reading and its calls run; the wait of connect() ends; the
\* chip offers what it has.  Nothing is assumed of the peers.
FairSpec ==
  /\ Spec
  /\ WF_vars(library) /\ SF_vars(connectFails) /\ SF_vars(reader)
  /\ WF_vars(OfferPacket)
-----------------------------------------------------------------------------
(***************************************************************************)
(* Properties.                                                             *)
(***************************************************************************)

Bytes == (1 .. MaxSessions) \X (1 .. StreamLength)

TypeOK ==
  /\ u8Interrupt \in 0 .. 255
  /\ enabled \in BOOLEAN /\ u8HifRXDone \in BOOLEAN /\ hif_receive_blocked \in BOOLEAN
  /\ newInterrupt \in BOOLEAN /\ misled \in BOOLEAN /\ failures \in 0 .. MaxFailures /\ lasting \in BOOLEAN
  /\ Len(rx) <= 1
  /\ gastrSockets \in [Sockets -> [bIsUsed : BOOLEAN, u16SessionID : 0 .. MaxSessions,
                                   bIsRecvPending : BOOLEAN]]
  /\ gu16SessionID \in 0 .. MaxSessions /\ u8NextTcpSock \in Sockets
  /\ theSocket \in Sockets \union {None}
  /\ \A s \in Sockets :
       /\ info[s].state \in {"INVALID", "IDLE", "CONNECTING", "CONNECTED"}
       /\ Remaining(s) \in 0 .. MaxChunk
       /\ Len(info[s].buffer) <= SOCKET_BUFFER_SIZE
       /\ \A i \in 1 .. Len(info[s].buffer) : info[s].buffer[i] \in Bytes
  /\ \A i \in 1 .. Len(got) : got[i] \in Bytes

\* The bytes of the socket that were announced and are still in the chip.
InChip(s) ==
  LET m == info[s].recvMsg IN
  IF m.s16BufferSize = 0 THEN << >>
  ELSE SubSeq(Head(rx).data, m.pu8Buffer + 1, m.pu8Buffer + m.s16BufferSize)

\* Whatever fails, and whatever an earlier session left behind in the chip: what
\* is read, what is in the buffer and what is still in the chip are, in order and
\* each once, the first bytes of the present session.
StreamInOrder ==
  theSocket # None =>
    LET stream == got \o info[theSocket].buffer \o InChip(theSocket)
        session == gastrSockets[theSocket].u16SessionID
    IN /\ \A i \in 1 .. Len(stream) : stream[i][2] = i
       /\ session # 0 => \A i \in 1 .. Len(stream) : stream[i][1] = session

\* fillRecvBuffer overwrites the buffer, and the end of a connection empties it:
\* when a reply of the present session is handled nothing is left unread.
ReplyFindsNothingUnread ==
  Handling("recv") /\ sameSession(Head(rx)) =>
    LET s == Head(rx).sock IN info[s].buffer = << >> /\ Remaining(s) = 0

\* The library has few sockets, and a radio that connects again and again must not
\* use them up: whatever a connection ended of, its socket is free by the time the
\* client has forgotten its number; and between calls the client's socket, if in use,
\* is connected, or the next connect() would not close it.  A reply to the connect()
\* of an earlier session, which no one compares session IDs for, breaks this.
NoSocketLeaks ==
  ~misled =>
    \A s \in Sockets : gastrSockets[s].bIsUsed => s = theSocket /\ (Idle => Connected(s))

\* While events are blocked no connection can be made, and no loss noticed.
\* Only a read or a close of the right socket unblocks them: it is the one the
\* sketch has, and it says that there is something to read.
BlockedIsReadable ==
  ~misled /\ hif_receive_blocked =>
    theSocket # None /\ Remaining(theSocket) > 0 /\ Connected(theSocket)

\* What a reader such as loop() relies on.
ClientConnected == theSocket # None /\ Connected(theSocket)
Client == INSTANCE ClientStream WITH
            connected <- ClientConnected,
            received <- Len(got),
            sent <- Len(got) + IF ClientConnected THEN availableOn(theSocket) ELSE 0
ImplementsClientStream == Client!Spec

\* Past its looks, write() on a socket in use tries for as long as the chip does not
\* take what is written, and handles events in between.
Retrying ==
  /\ ~Idle /\ todo[Len(todo)].op = "send" /\ gastrSockets[theSocket].bIsUsed
  /\ \A i \in 1 .. Len(todo) : todo[i].op # "lookOpen"
RetriesForEver == <>[]Retrying

\* A sketch that goes on reading again and again has read all the chip has sent,
\* or has no connection, or is held up by a write.  A failure to read a byte, or to tell the chip
\* that it was, is made up for by the next read; only a failure in handling a
\* packet's header or in making a request is not.
PeerOpen ==
  /\ ClientConnected /\ peers[theSocket].phase = "open"
  /\ peers[theSocket].session = gastrSockets[theSocket].u16SessionID
AllRead ==
  PeerOpen => Len(got) >= peers[theSocket].sent /\ peers[theSocket].asked
BytesReachTheReader == []<>(AllRead \/ lasting) \/ RetriesForEver

\* Every call returns, although events are handled within events, but for the one
\* that tries again without limit.
CallsReturn == []<>Idle \/ RetriesForEver
=============================================================================
