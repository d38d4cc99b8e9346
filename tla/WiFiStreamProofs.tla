--------------------------- MODULE WiFiStreamProofs ---------------------------
(***************************************************************************)
(* Theorems about what is read from a connection: the bytes of the present *)
(* session, in order and each once, as a ClientStream has them.            *)
(*                                                                         *)
(* To the requests of a session there is one reply at a time, and none     *)
(* while something is unread.  So what was read, what is in the buffer,    *)
(* the rest of the packet in the chip and the reply to come follow each    *)
(* other, and the chip has been sent as much.  The refinement also needs   *)
(* that behind the data of a connection there is no answer to an earlier   *)
(* connect() of its socket, and that one connection is given up before     *)
(* another is made.                                                        *)
(***************************************************************************)
EXTENDS WiFiSessionProofs

-----------------------------------------------------------------------------
(***************************************************************************)
(* What a step leaves alone.                                               *)
(***************************************************************************)

\* Only the opening of a socket gives the client another one; stop() takes it away.
LEMMA ClientKept ==
  ASSUME [Next]_vars, ~create
  PROVE  theSocket' = theSocket \/ (forget /\ theSocket' = None)
<1>1. CASE hif \/ m2m_ip_cb \/ sketch \/ chip \/ UNCHANGED vars
  BY <1>1 DEF hif, sketch, reader, PollEvents, Connect, Stop, Write, Read, Calls, chip,
              OfferPacket, LoseLink, Answer, Arrive, Finish, Queues, m2m_ip_cb, CallbackFails,
              ConnectReply, DataReply, DiscardReply, StatusReply, Disconnected, vars, socketVars
<1>2. CASE close \/ release \/ stopFirst \/ forget \/ connecting \/ connectFails
           \/ connectDone \/ look \/ lookOpen \/ readStart \/ copyFill \/ copy \/ readEnd \/ send
  BY <1>2 DEF close, release, stopFirst, forget, connecting, connectFails, connectDone,
              look, lookOpen, Looks, readStart, copyFill, copy, readEnd, send, socketVars
<1> QED BY <1>1, <1>2 DEF Next, library

\* ... and only then, or when bytes are copied, does what was read change.
LEMMA GotKept ==
  ASSUME [Next]_vars, ~create, ~copy
  PROVE  UNCHANGED got
<1>1. CASE hif \/ m2m_ip_cb \/ sketch \/ chip \/ UNCHANGED vars
  BY <1>1 DEF hif, sketch, reader, PollEvents, Connect, Stop, Write, Read, Calls, chip,
              OfferPacket, LoseLink, Answer, Arrive, Finish, Queues, m2m_ip_cb, CallbackFails,
              ConnectReply, DataReply, DiscardReply, StatusReply, Disconnected, vars, history
<1>2. CASE close \/ release \/ stopFirst \/ forget \/ connecting \/ connectFails
           \/ connectDone \/ look \/ lookOpen \/ readStart \/ copyFill \/ readEnd \/ send
  BY <1>2 DEF close, release, stopFirst, forget, connecting, connectFails, connectDone,
              look, lookOpen, Looks, readStart, copyFill, readEnd, send, history
<1> QED BY <1>1, <1>2 DEF Next, library

\* Only the opening of a socket begins a session.
LEMMA TableKept ==
  ASSUME Base, [Next]_vars, ~create, NEW r \in Sockets
  PROVE  (Used(r)' => Used(r) /\ Session(r)' = Session(r)) /\ Session(r)' \in {Session(r), 0}
<1>1. CallTypes /\ SocketTypes /\ Shape /\ Types /\ Interrupts
  BY DEF Base, Types
<1>2. CASE UNCHANGED gastrSockets
  BY <1>2 DEF Used, Session
<1>3. ASSUME NEW s \in Sockets, gastrSockets' = [gastrSockets EXCEPT ![s].bIsRecvPending = TRUE]
      PROVE  (Used(r)' => Used(r)) /\ Session(r)' = Session(r)
  <2>1. gastrSockets'[r] = IF r = s THEN [gastrSockets[s] EXCEPT !.bIsRecvPending = TRUE]
                                    ELSE gastrSockets[r]
    BY <1>3, <1>1 DEF SocketTypes
  <2>2. /\ gastrSockets'[r].bIsUsed = gastrSockets[r].bIsUsed
        /\ gastrSockets'[r].u16SessionID = gastrSockets[r].u16SessionID
    BY <2>1, <1>1 DEF SocketTypes
  <2> QED BY <2>2 DEF Used, Session
<1>4. CASE hif \/ CallbackFails \/ ConnectReply \/ Disconnected \/ sketch \/ chip \/ UNCHANGED vars
  BY <1>4, <1>2
  DEF hif, sketch, reader, PollEvents, Connect, Stop, Write, Read, Calls, chip, OfferPacket, LoseLink,
      Answer, Arrive, Finish, Queues, CallbackFails, ConnectReply, Disconnected, vars, socketVars
<1>5. CASE close \/ stopFirst \/ forget \/ connecting \/ connectFails \/ look \/ lookOpen
           \/ readStart \/ copyFill \/ copy \/ send
  BY <1>5, <1>2
  DEF close, stopFirst, forget, connecting, connectFails, look, lookOpen, Looks, readStart, copyFill,
      copy, send, socketVars
<1>6. CASE DataReply \/ DiscardReply \/ StatusReply
  <2>1. NotPending(Head(rx).sock) /\ Running("callback")
    BY <1>6 DEF DataReply, DiscardReply, StatusReply, Handling
  <2>2. Head(rx).sock \in Sockets
    BY <2>1, <1>1, HeadPacket DEF Types
  <2> QED BY <2>1, <2>2, <1>1, NotPendingKeeps
<1>7. CASE connectDone \/ readEnd
  <2>1. UNCHANGED gastrSockets \/ recv(theSocket)
    BY <1>7 DEF connectDone, readEnd
  <2>2. theSocket \in Sockets
    BY <1>7, <1>1, RunningFacts DEF connectDone, readEnd, UsesSocket, Reading
  <2>3. UNCHANGED gastrSockets
        \/ gastrSockets' = [gastrSockets EXCEPT ![theSocket].bIsRecvPending = TRUE]
    BY <2>1 DEF recv
  <2> QED BY <2>2, <2>3, <1>2, <1>3
<1>8. CASE release
  <2> DEFINE s == Head(todo).arg
  <2>1. s \in Sockets /\ closeSocket(s)
    BY <1>8, <1>1, RunningFacts DEF release, Closing
  <2> HIDE DEF s
  <2>2. CASE gastrSockets' = [gastrSockets EXCEPT ![s] = Unused]
    <3>1. gastrSockets'[r] = IF r = s THEN Unused ELSE gastrSockets[r]
      BY <2>1, <2>2, <1>1 DEF SocketTypes
    <3> QED BY <3>1 DEF Used, Session, Unused
  <2> QED BY <2>1, <2>2, <1>2 DEF closeSocket
<1> QED BY <1>4, <1>5, <1>6, <1>7, <1>8 DEF Next, library, m2m_ip_cb

\* What a socket has to be read stays as it is,
SameData(s) ==
  /\ info'[s].buffer = info[s].buffer /\ Remaining(s)' = Remaining(s)
  /\ info'[s].recvMsg.pu8Buffer = info[s].recvMsg.pu8Buffer

\* except by a reply with data, a read, and the end of the connection.
LEMMA InfoKept ==
  ASSUME Base, Tidy, [Next]_vars, NEW s \in Sockets, ~create, ~DataReply, ~copyFill, ~copy
  PROVE  SameData(s) \/ (close /\ s = Head(todo).arg /\ info'[s] = Invalid)
<1>1. CallTypes /\ SocketTypes /\ Shape /\ Types /\ Interrupts /\ info \in [Sockets -> InfoSet]
  BY DEF Base, Types, InfoTypes
<1>2. CASE UNCHANGED info
  BY <1>2 DEF SameData, Remaining
<1>3. ASSUME NEW r \in Sockets, NEW st, info' = [info EXCEPT ![r].state = st] PROVE SameData(s)
  <2>1. info'[s] = IF s = r THEN [info[s] EXCEPT !.state = st] ELSE info[s]
    BY <1>3, <1>1
  <2>2. info'[s].buffer = info[s].buffer /\ info'[s].recvMsg = info[s].recvMsg
    BY <2>1, <1>1 DEF InfoSet
  <2> QED BY <2>2 DEF SameData, Remaining
<1>4. CASE hif \/ CallbackFails \/ DiscardReply \/ StatusReply \/ Disconnected \/ sketch \/ chip
           \/ UNCHANGED vars
  BY <1>4, <1>2
  DEF hif, sketch, reader, PollEvents, Connect, Stop, Write, Read, Calls, chip, OfferPacket, LoseLink,
      Answer, Arrive, Finish, Queues, CallbackFails, DiscardReply, StatusReply, Disconnected, vars,
      socketVars
<1>5. CASE release \/ stopFirst \/ forget \/ connecting \/ look \/ lookOpen \/ readStart \/ readEnd
           \/ send
  BY <1>5, <1>2
  DEF release, stopFirst, forget, connecting, look, lookOpen, Looks, readStart, readEnd, send, socketVars
<1>6. CASE ConnectReply
  <2>1. Head(rx).sock \in Sockets
    BY <1>6, <1>1, HeadPacket DEF ConnectReply, Handling, Types
  <2>2. \E st : info' = [info EXCEPT ![Head(rx).sock].state = st]
    BY <1>6 DEF ConnectReply
  <2> QED BY <2>1, <2>2, <1>3
<1>7. CASE connectFails
  <2>1. theSocket \in Sockets
    BY <1>7, <1>1, RunningFacts DEF connectFails, UsesSocket
  <2> QED BY <2>1, <1>7, <1>3 DEF connectFails
<1>8. CASE connectDone
  <2> DEFINE r == theSocket
  <2>1. r \in Sockets /\ Running("connecting")
    BY <1>8, <1>1, RunningFacts DEF connectDone, UsesSocket
  <2>2. PendingOp("connecting")
    BY <2>1, <1>1, Below DEF PendingOp
  <2>3. Remaining(r) = 0
    BY <2>2 DEF Tidy, WhileConnecting, Clean
  <2>4. info' = [info EXCEPT ![r].recvMsg.s16BufferSize = 0]
    BY <1>8 DEF connectDone
  <2> HIDE DEF r
  <2>5. info'[s] = IF s = r THEN [info[s] EXCEPT !.recvMsg.s16BufferSize = 0] ELSE info[s]
    BY <2>1, <2>4, <1>1
  <2>6. CASE s = r
    <3>1. info[s] \in InfoSet /\ info'[s] = [info[s] EXCEPT !.recvMsg.s16BufferSize = 0]
      BY <2>5, <2>6, <1>1
    <3>2. /\ info'[s].buffer = info[s].buffer /\ info'[s].recvMsg.s16BufferSize = 0
          /\ info'[s].recvMsg.pu8Buffer = info[s].recvMsg.pu8Buffer
      BY <3>1 DEF InfoSet
    <3> QED BY <3>2, <2>3, <2>6 DEF SameData, Remaining
  <2> QED BY <2>5, <2>6 DEF SameData, Remaining
<1>9. CASE close
  <2> DEFINE r == Head(todo).arg
  <2>1. r \in Sockets
    BY <1>9, <1>1, RunningFacts DEF close, Closing
  <2>2. info' = [info EXCEPT ![r] = Invalid]
    BY <1>9 DEF close, closed
  <2> HIDE DEF r
  <2>3. info'[s] = IF s = r THEN Invalid ELSE info[s]
    BY <2>1, <2>2, <1>1
  <2> QED BY <2>3, <1>9 DEF SameData, Remaining, r
<1> QED BY <1>4, <1>5, <1>6, <1>7, <1>8, <1>9 DEF Next, library, m2m_ip_cb

\* A session goes on as long as the chip has it, and is sent no more than what arrives.
LEMMA PeersKept ==
  ASSUME Base, [Next]_vars, ~create, NEW r \in Sockets, NEW c \in Nat \ {0}, peers'[r].session = c
  PROVE  /\ peers[r].session = c
         /\ peers'[r].sent = peers[r].sent \/ \E n \in 1 .. MaxChunk : Arrive(r, n)
<1> DEFINE Peer == [session : 0 .. MaxSessions, phase : {"none", "connecting", "open"},
                    asked : BOOLEAN, sent : 0 .. StreamLength]
           Same(e, d) == e.session = c => d.session = c /\ e.sent = d.sent
<1>1. CallTypes /\ SocketTypes /\ Shape /\ Types /\ Interrupts /\ peers \in [Sockets -> Peer]
  BY DEF Base, Types, ChipTypes
<1>2. CASE UNCHANGED peers
  BY <1>2
<1>3. ASSUME NEW s \in Sockets, NEW e, peers' = [peers EXCEPT ![s] = e], Same(e, peers[s])
      PROVE  Same(peers'[r], peers[r])
  <2>1. peers'[r] = IF r = s THEN e ELSE peers[r]
    BY <1>3, <1>1
  <2> QED BY <2>1, <1>3
<1>4. ASSUME NEW d PROVE Same(NoPeer, d)
  BY DEF NoPeer
<1>5. CASE hif \/ m2m_ip_cb \/ sketch \/ OfferPacket \/ UNCHANGED vars
  BY <1>5, <1>2
  DEF hif, sketch, reader, PollEvents, Connect, Stop, Write, Read, Calls, OfferPacket, m2m_ip_cb,
      CallbackFails, ConnectReply, DataReply, DiscardReply, StatusReply, Disconnected, vars, chipVars
<1>6. CASE close \/ stopFirst \/ forget \/ connecting \/ connectFails \/ look \/ lookOpen
           \/ readStart \/ copyFill \/ copy \/ send
  BY <1>6, <1>2
  DEF close, stopFirst, forget, connecting, connectFails, look, lookOpen, Looks, readStart, copyFill,
      copy, send, chipVars
<1>7. CASE LoseLink
  <2>1. peers'[r] = NoPeer
    BY <1>7 DEF LoseLink
  <2> QED BY <2>1 DEF NoPeer
<1>8. ASSUME NEW s \in Sockets, NEW ok \in BOOLEAN, Answer(s, ok) PROVE Same(peers'[r], peers[r])
  <2> DEFINE e == [peers[s] EXCEPT !.phase = "open"]
  <2>1. peers' = [peers EXCEPT ![s] = e] \/ peers' = [peers EXCEPT ![s] = NoPeer]
    BY <1>8 DEF Answer
  <2>2. Same(e, peers[s])
    <3>1. e.session = peers[s].session /\ e.sent = peers[s].sent
      BY <1>1
    <3> QED BY <3>1
  <2> HIDE DEF e, Same
  <2> QED BY <2>1, <2>2, <1>3, <1>4
<1>9. ASSUME NEW s \in Sockets, NEW n \in 1 .. MaxChunk, Arrive(s, n)
      PROVE  peers[r].session = c /\ (r = s \/ peers'[r].sent = peers[r].sent)
  <2> DEFINE e == [peers[s] EXCEPT !.asked = FALSE, !.sent = @ + n]
  <2>1. peers' = [peers EXCEPT ![s] = e]
    BY <1>9 DEF Arrive
  <2>2. e.session = peers[s].session
    BY <1>1
  <2> HIDE DEF e
  <2>3. peers'[r] = IF r = s THEN e ELSE peers[r]
    BY <2>1, <1>1
  <2> QED BY <2>2, <2>3
<1>10. ASSUME NEW s \in Sockets, Finish(s) PROVE Same(peers'[r], peers[r])
  <2>1. peers' = [peers EXCEPT ![s] = NoPeer]
    BY <1>10 DEF Finish
  <2> HIDE DEF Same
  <2> QED BY <2>1, <1>3, <1>4
<1>11. CASE connectDone \/ readEnd
  <2> DEFINE e == [peers[theSocket] EXCEPT !.asked = TRUE]
  <2>1. theSocket \in Sockets
    BY <1>11, <1>1, RunningFacts DEF connectDone, readEnd, UsesSocket, Reading
  <2>2. \/ UNCHANGED peers
        \/ peers' = [peers EXCEPT ![theSocket] = e]
        \/ peers' = [peers EXCEPT ![theSocket] = peers[theSocket]]
    BY <1>11 DEF connectDone, readEnd, recv, Request
  <2>3. Same(e, peers[theSocket])
    <3>1. e.session = peers[theSocket].session /\ e.sent = peers[theSocket].sent
      BY <2>1, <1>1
    <3> QED BY <3>1
  <2>4. Same(peers[theSocket], peers[theSocket])
    OBVIOUS
  <2>5. UNCHANGED peers \/ Same(peers'[r], peers[r])
    <3> HIDE DEF Same, e
    <3> QED BY <2>1, <2>2, <2>3, <2>4, <1>3
  <2> QED BY <2>5, <1>2
<1>12. CASE release
  <2> DEFINE s == Head(todo).arg
  <2>1. s \in Sockets /\ closeSocket(s)
    BY <1>12, <1>1, RunningFacts DEF release, Closing
  <2> HIDE DEF s
  <2>2. \/ UNCHANGED peers
        \/ peers' = [peers EXCEPT ![s] = NoPeer]
        \/ peers' = [peers EXCEPT ![s] = peers[s]]
    BY <2>1 DEF closeSocket, Request
  <2>3. Same(peers[s], peers[s])
    OBVIOUS
  <2>4. UNCHANGED peers \/ Same(peers'[r], peers[r])
    <3> HIDE DEF Same
    <3> QED BY <2>1, <2>2, <2>3, <1>3, <1>4
  <2> QED BY <2>4, <1>2
<1> QED BY <1>5, <1>6, <1>7, <1>8, <1>9, <1>10, <1>11, <1>12 DEF Next, library, chip

\* What the chip has for the host, and has not handed over, of the data of a session.
Replies(c) ==
  {p \in PacketSet : \/ \E i \in InQueue("recv", c) : queue[i] = p
                     \/ InRx("recv", c) /\ p = Head(rx)}

\* Where none is in the queue or on offer there is no reply.
LEMMA NoneWithoutReply == \A c : NoReply("recv", c) => Replies(c) = {}
BY DEF NoReply, Replies

\* New data of a session only comes from the socket of the chip it belongs to.
LEMMA RepliesFrom ==
  ASSUME Base, [Next]_vars, NEW c \in Nat \ {0}
  PROVE  /\ \A r \in Sockets : peers[r].session = c =>
              /\ Finish(r) =>
                   Replies(c)' \subseteq Replies(c) \cup {Packet("recv", r, c, FALSE, << >>)}
              /\ \A n \in 1 .. MaxChunk : Arrive(r, n) =>
                   Replies(c)' \subseteq Replies(c) \cup {Packet("recv", r, c, TRUE, Data(r, n))}
         /\ \/ Replies(c)' \subseteq Replies(c)
            \/ \E r \in Sockets : /\ peers[r].session = c
                                  /\ Finish(r) \/ \E n \in 1 .. MaxChunk : Arrive(r, n)
<1>1. QueueTypes /\ Types /\ Interrupts /\ queue \in Seq(PacketSet) /\ Len(queue) \in Nat
  BY DEF Base, Types, QueueTypes
<1>2. CASE library \/ sketch \/ UNCHANGED vars
  <2>1. UNCHANGED queue /\ (Unhandled' => Unhandled /\ UNCHANGED rx)
    BY <1>2, LibraryPackets
  <2>2. InQueue("recv", c)' = InQueue("recv", c) /\ (InRx("recv", c)' => InRx("recv", c) /\ UNCHANGED rx)
    BY <2>1 DEF InQueue, InRx, Matches
  <2> QED BY <2>1, <2>2 DEF Replies
<1>3. CASE OfferPacket
  <2>1. queue # << >> /\ rx' = <<Head(queue)>> /\ queue' = Tail(queue)
    BY <1>3 DEF OfferPacket, Offer
  <2>2. /\ Head(rx') = queue[1] /\ Len(queue) > 0 /\ Len(queue') = Len(queue) - 1
        /\ \A i \in 1 .. Len(queue) - 1 : queue'[i] = queue[i + 1]
    BY <2>1, <1>1, TailFacts
  <2>3. ASSUME NEW p \in Replies(c)' PROVE p \in Replies(c)
    <3>1. CASE \E i \in InQueue("recv", c)' : queue'[i] = p
      <4>1. PICK i \in 1 .. Len(queue) - 1 : Matches(queue'[i], "recv", c) /\ queue'[i] = p
        BY <3>1, <2>2 DEF InQueue, Matches
      <4>2. i + 1 \in 1 .. Len(queue) /\ queue[i + 1] = p /\ Matches(p, "recv", c)
        BY <4>1, <2>2, <1>1
      <4>3. p \in PacketSet
        BY <4>2, <1>1
      <4> QED BY <4>2, <4>3 DEF Replies, InQueue
    <3>2. CASE InRx("recv", c)' /\ p = Head(rx')
      <4>1. 1 \in 1 .. Len(queue) /\ p = queue[1] /\ Matches(p, "recv", c)
        BY <3>2, <2>2, <1>1 DEF InRx, Matches
      <4>2. p \in PacketSet
        BY <4>1, <1>1
      <4> QED BY <4>1, <4>2 DEF Replies, InQueue
    <3> QED BY <3>1, <3>2 DEF Replies
  <2> QED BY <2>3
<1>4. ASSUME NEW p, p \in PacketSet, Queues(p)
      PROVE  /\ Replies(c)' \subseteq Replies(c) \cup {p}
             /\ ~Matches(p, "recv", c) => Replies(c)' \subseteq Replies(c)
  <2>1. /\ Len(queue') = Len(queue) + 1 /\ queue'[Len(queue) + 1] = p
        /\ \A i \in 1 .. Len(queue) : queue'[i] = queue[i]
    BY <1>4, <1>1, AppendFacts DEF Queues
  <2>2. InRx("recv", c)' => InRx("recv", c) /\ UNCHANGED rx
    BY <1>4 DEF Queues, InRx, Unhandled, Running, Matches
  <2>3. ASSUME NEW x \in Replies(c)' PROVE x \in Replies(c) \/ (x = p /\ Matches(p, "recv", c))
    <3>1. CASE \E i \in InQueue("recv", c)' : queue'[i] = x
      <4>1. PICK i \in 1 .. Len(queue) + 1 : Matches(queue'[i], "recv", c) /\ queue'[i] = x
        BY <3>1, <2>1 DEF InQueue, Matches
      <4>2. CASE i = Len(queue) + 1
        BY <4>1, <4>2, <2>1
      <4>3. CASE i \in 1 .. Len(queue)
        <5>1. queue[i] = x /\ Matches(queue[i], "recv", c) /\ x \in PacketSet
          BY <4>1, <4>3, <2>1, <1>1
        <5> QED BY <5>1, <4>3 DEF Replies, InQueue
      <4> QED BY <4>1, <4>2, <4>3, <1>1
    <3>2. CASE InRx("recv", c)' /\ x = Head(rx')
      BY <3>2, <2>2 DEF Replies
    <3> QED BY <3>1, <3>2 DEF Replies
  <2> QED BY <2>3
<1>5. CASE LoseLink
  <2> DEFINE p == Packet("disconnected", 0, 0, FALSE, << >>)
  <2>1. p \in PacketSet /\ Queues(p)
    BY <1>5, <1>1, PacketTypes DEF LoseLink
  <2>2. ~Matches(p, "recv", c)
    BY DEF Matches, Packet
  <2> HIDE DEF p
  <2> QED BY <2>1, <2>2, <1>4
<1>6. ASSUME NEW r \in Sockets, NEW ok \in BOOLEAN, Answer(r, ok) PROVE Replies(c)' \subseteq Replies(c)
  <2> DEFINE p == Packet("connect", r, peers[r].session, ok, << >>)
  <2>1. p \in PacketSet /\ Queues(p)
    BY <1>6, <1>1, PacketTypes DEF Answer
  <2>2. ~Matches(p, "recv", c)
    BY DEF Matches, Packet
  <2> HIDE DEF p
  <2> QED BY <2>1, <2>2, <1>4
<1>7. ASSUME NEW r \in Sockets, Finish(r)
      PROVE  /\ Replies(c)' \subseteq Replies(c) \cup {Packet("recv", r, peers[r].session, FALSE, << >>)}
             /\ Replies(c)' \subseteq Replies(c) \/ peers[r].session = c
  <2> DEFINE p == Packet("recv", r, peers[r].session, FALSE, << >>)
  <2>1. p \in PacketSet /\ Queues(p)
    BY <1>7, <1>1, PacketTypes DEF Finish
  <2>2. Matches(p, "recv", c) <=> peers[r].session = c
    BY DEF Matches, Packet
  <2> HIDE DEF p
  <2>3. Replies(c)' \subseteq Replies(c) \cup {p}
    BY <2>1, <1>4
  <2>4. Replies(c)' \subseteq Replies(c) \/ peers[r].session = c
    BY <2>1, <2>2, <1>4
  <2> QED BY <2>3, <2>4 DEF p
<1>8. ASSUME NEW r \in Sockets, NEW n \in 1 .. MaxChunk, Arrive(r, n)
      PROVE  /\ Replies(c)' \subseteq
                  Replies(c) \cup {Packet("recv", r, peers[r].session, TRUE, Data(r, n))}
             /\ Replies(c)' \subseteq Replies(c) \/ peers[r].session = c
  <2> DEFINE p == Packet("recv", r, peers[r].session, TRUE, Data(r, n))
  <2>1. p \in PacketSet /\ Queues(p)
    <3>1. p \in PacketSet
      BY <1>8, <1>1, PacketTypes
    <3>2. Queues(p)
      BY <1>8 DEF Arrive
    <3> QED BY <3>1, <3>2
  <2>2. Matches(p, "recv", c) <=> peers[r].session = c
    BY DEF Matches, Packet
  <2> HIDE DEF p
  <2>3. Replies(c)' \subseteq Replies(c) \cup {p}
    BY <2>1, <1>4
  <2>4. Replies(c)' \subseteq Replies(c) \/ peers[r].session = c
    BY <2>1, <2>2, <1>4
  <2> QED BY <2>3, <2>4 DEF p
<1>9. ASSUME NEW r \in Sockets, peers[r].session = c
      PROVE  /\ Finish(r) =>
                  Replies(c)' \subseteq Replies(c) \cup {Packet("recv", r, c, FALSE, << >>)}
             /\ \A n \in 1 .. MaxChunk : Arrive(r, n) =>
                  Replies(c)' \subseteq Replies(c) \cup {Packet("recv", r, c, TRUE, Data(r, n))}
  <2>1. Finish(r) => Replies(c)' \subseteq Replies(c) \cup {Packet("recv", r, c, FALSE, << >>)}
    BY <1>9, <1>7
  <2>2. ASSUME NEW n \in 1 .. MaxChunk, Arrive(r, n)
        PROVE  Replies(c)' \subseteq Replies(c) \cup {Packet("recv", r, c, TRUE, Data(r, n))}
    BY <2>2, <1>9, <1>8
  <2> QED BY <2>1, <2>2
<1>10. \/ Replies(c)' \subseteq Replies(c)
       \/ \E r \in Sockets : /\ peers[r].session = c
                             /\ Finish(r) \/ \E n \in 1 .. MaxChunk : Arrive(r, n)
  <2>1. CASE \E r \in Sockets : \E ok \in BOOLEAN : Answer(r, ok)
    BY <2>1, <1>6
  <2>2. CASE \E r \in Sockets : Finish(r)
    BY <2>2, <1>7
  <2>3. CASE \E r \in Sockets : \E n \in 1 .. MaxChunk : Arrive(r, n)
    BY <2>3, <1>8
  <2>4. \/ library \/ sketch \/ UNCHANGED vars \/ OfferPacket \/ LoseLink
        \/ \E r \in Sockets : \E ok \in BOOLEAN : Answer(r, ok)
        \/ \E r \in Sockets : Finish(r)
        \/ \E r \in Sockets : \E n \in 1 .. MaxChunk : Arrive(r, n)
    BY DEF Next, chip
  <2> QED BY <2>1, <2>2, <2>3, <2>4, <1>2, <1>3, <1>5
<1> QED BY <1>9, <1>10

-----------------------------------------------------------------------------
(***************************************************************************)
(* Reading.                                                                *)
(***************************************************************************)

\* A read is not inside a connect().
LEMMA CopyingAlone ==
  ASSUME Base, Copying
  PROVE  /\ ~PendingOp("connecting") /\ theSocket \in Sockets
         /\ \A c \in Rest : c.op \in Reading \cup {"events"}
<1>1. CallTypes /\ SocketTypes /\ Shape
  BY DEF Base, Types
<1>2. PICK op \in {"copy", "readEnd"} : Running(op)
  BY DEF Copying
<1>3. \A c \in Pending : c.op \in Reading \cup {"events"}
  BY <1>2, <1>1, Below DEF Follows, Reading
<1>4. theSocket \in Sockets
  BY <1>2, <1>1, RunningFacts DEF UsesSocket, Reading
<1>5. Rest \subseteq Pending
  BY <1>2, <1>1, Below
<1> QED BY <1>3, <1>4, <1>5 DEF PendingOp, Reading

\* No read goes on, and no wait for a connection begins.
NoReading == ~Copying' /\ (PendingOp("connecting")' => PendingOp("connecting"))

\* So it is after a step that returns, or that goes on with something else.
LEMMA NoReadingAfter ==
  ASSUME CallTypes, Shape, NEW op, Running(op)
  PROVE  /\ Returns /\ op # "copy" => NoReading
         /\ \A calls \in Seq(CallSet) :
              /\ GoesOnWith(calls) /\ calls # << >> /\ calls[1].op \notin {"copy", "readEnd"}
              /\ \A c \in CallsOf(calls) : c.op # "connecting"
              => NoReading
<1>1. todo # << >> /\ Head(todo).op = op /\ Rest \subseteq Pending
  BY Below
<1>2. ASSUME Returns, op # "copy" PROVE NoReading
  <2>1. Pending' = Rest
    BY <1>1, <1>2, After
  <2>2. ~Copying'
    BY <1>1, <1>2, NextReturns DEF Inner, Copying
  <2> QED BY <2>1, <2>2, <1>1 DEF NoReading, PendingOp
<1>3. ASSUME NEW calls \in Seq(CallSet), GoesOnWith(calls), calls # << >>,
             calls[1].op \notin {"copy", "readEnd"}, \A c \in CallsOf(calls) : c.op # "connecting"
      PROVE  NoReading
  <2>1. Pending' = CallsOf(calls) \cup Rest
    BY <1>1, <1>3, GoesPending
  <2>2. ~Copying'
    BY <1>1, <1>3, NextGoesOn DEF Copying
  <2> QED BY <2>1, <2>2, <1>1, <1>3 DEF NoReading, PendingOp
<1> QED BY <1>2, <1>3

\* The same for the lists of calls there are.
LEMMA NoReadingAfterTuples ==
  ASSUME CallTypes, Shape, NEW op, Running(op),
         NEW a \in CallSet, a.op \notin {"copy", "readEnd", "connecting"}
  PROVE  /\ GoesOnWith(<<a>>) => NoReading
         /\ \A b \in CallSet : GoesOnWith(<<a, b>>) /\ b.op # "connecting" => NoReading
         /\ \A b, c \in CallSet :
              GoesOnWith(<<a, b, c>>) /\ b.op # "connecting" /\ c.op # "connecting" => NoReading
         /\ \A b, c, d \in CallSet :
              /\ GoesOnWith(<<a, b, c, d>>)
              /\ b.op # "connecting" /\ c.op # "connecting" /\ d.op # "connecting"
              => NoReading
<1>1. ASSUME NEW calls \in Seq(CallSet), GoesOnWith(calls), calls # << >>,
             calls[1].op \notin {"copy", "readEnd"}, \A c \in CallsOf(calls) : c.op # "connecting"
      PROVE  NoReading
  BY <1>1, NoReadingAfter
<1>2. ASSUME GoesOnWith(<<a>>) PROVE NoReading
  <2>1. <<a>> \in Seq(CallSet) /\ <<a>> # << >> /\ <<a>>[1] = a
    OBVIOUS
  <2> QED BY <2>1, <1>1, <1>2, CallsOfTuples
<1>3. ASSUME NEW b \in CallSet, GoesOnWith(<<a, b>>), b.op # "connecting" PROVE NoReading
  <2>1. <<a, b>> \in Seq(CallSet) /\ <<a, b>> # << >> /\ <<a, b>>[1] = a
    OBVIOUS
  <2>2. CallsOf(<<a, b>>) = {a, b}
    BY CallsOfTuples
  <2> QED BY <2>1, <2>2, <1>1, <1>3
<1>4. ASSUME NEW b \in CallSet, NEW c \in CallSet, GoesOnWith(<<a, b, c>>),
             b.op # "connecting", c.op # "connecting"
      PROVE  NoReading
  <2>1. <<a, b, c>> \in Seq(CallSet) /\ <<a, b, c>> # << >> /\ <<a, b, c>>[1] = a
    OBVIOUS
  <2>2. CallsOf(<<a, b, c>>) = {a, b, c}
    BY CallsOfTuples
  <2> QED BY <2>1, <2>2, <1>1, <1>4
<1>5. ASSUME NEW b \in CallSet, NEW c \in CallSet, NEW d \in CallSet, GoesOnWith(<<a, b, c, d>>),
             b.op # "connecting", c.op # "connecting", d.op # "connecting"
      PROVE  NoReading
  <2>1. <<a, b, c, d>> \in Seq(CallSet) /\ <<a, b, c, d>> # << >> /\ <<a, b, c, d>>[1] = a
    OBVIOUS
  <2>2. CallsOf(<<a, b, c, d>>) = {a, b, c, d}
    BY CallsOfTuples
  <2> QED BY <2>1, <2>2, <1>1, <1>5
<1> QED BY <1>2, <1>3, <1>4, <1>5

\* A read begins when there is something to be read, and goes on by copying; and only
\* the opening of a socket begins a wait.
LEMMA ReadingKept ==
  ASSUME Base, [Next]_vars, ~create
  PROVE  /\ Copying' => /\ theSocket' = theSocket /\ ~readEnd /\ ~connectDone
                        /\ Copying \/ availableOn(theSocket) > 0
         /\ PendingOp("connecting")' => PendingOp("connecting") /\ ~Copying
<1>1. CallTypes /\ SocketTypes /\ Shape /\ Types /\ Interrupts
  BY DEF Base, Types
<1>2. /\ Events \in CallSet /\ Events.op = "events"
      /\ \A o \in {"forget", "create"} : Call(o, 0) \in CallSet /\ Call(o, 0).op = o
      /\ \A o \in {"close", "release"} : \A s \in Sockets : Call(o, s) \in CallSet /\ Call(o, s).op = o
  BY CallTyped DEF Ops, Closing, Final
<1>3. ASSUME NoReading PROVE /\ ~Copying'
                             /\ PendingOp("connecting")' => PendingOp("connecting") /\ ~Copying
  BY <1>3, CopyingAlone DEF NoReading
<1>4. ASSUME NEW op, Running(op), op # "copy", Returns PROVE NoReading
  BY <1>4, <1>1, NoReadingAfter
<1>5. CASE readEnd
  <2>1. Running("readEnd") /\ (Returns \/ GoesOnWith(<<Events>>))
    BY <1>5 DEF readEnd
  <2>2. NoReading
    BY <2>1, <1>1, <1>2, <1>4, NoReadingAfterTuples
  <2> QED BY <2>2, <1>3
<1>6. CASE connectDone
  BY <1>6, <1>3, <1>4 DEF connectDone
<1>7. CASE \/ hif \/ CallbackFails \/ connecting \/ look \/ lookOpen \/ readStart \/ send
           \/ PollEvents \/ Write \/ reader \/ (Connect /\ theSocket # None)
           \/ UNCHANGED vars
  <2>1. Passive
    BY <1>7, PassiveSteps
  <2> QED BY <2>1, <1>5, <1>6, CopyingAlone DEF Passive, Keeps
<1>8. CASE chip
  <2>1. UNCHANGED <<todo, theSocket>>
    <3>1. "recv" \in {"connect", "recv"} /\ 1 \in Nat \ {0}
      OBVIOUS
    <3> QED BY <3>1, <1>8, ChipPackets
  <2>2. Copying' = Copying /\ PendingOp("connecting")' = PendingOp("connecting")
    BY <2>1 DEF Copying, Running, PendingOp, Pending
  <2> QED BY <2>1, <2>2, <1>5, <1>6, CopyingAlone
<1>9. CASE copyFill \/ copy
  <2>1. UNCHANGED theSocket /\ Copying /\ Running("copy")
    BY <1>9 DEF copyFill, copy, Copying
  <2>2. ~PendingOp("connecting")'
    <3>1. CASE UNCHANGED todo
      BY <3>1, <2>1, CopyingAlone DEF PendingOp, Pending
    <3>2. CASE Returns
      BY <3>2, <2>1, <1>1, Below, After, CopyingAlone DEF PendingOp, Reading
    <3>3. ASSUME NEW n \in Nat, GoesOnWith(<<Call("copy", n)>>) PROVE ~PendingOp("connecting")'
      <4>1. Call("copy", n) \in CallSet /\ Call("copy", n).op = "copy"
        BY CallTyped DEF Ops, Closing, Reading
      <4>2. Pending' = {Call("copy", n)} \cup Rest
        BY <3>3, <4>1, <2>1, <1>1, Below, After
      <4> QED BY <4>1, <4>2, <2>1, CopyingAlone DEF PendingOp, Reading
    <3>4. CASE copy
      <4> DEFINE n == Head(todo).arg - Smaller(Head(todo).arg, Len(info[theSocket].buffer))
      <4>1. Returns \/ GoesOnWith(<<Call("copy", n)>>)
        BY <3>4 DEF copy
      <4>2. n \in Nat
        <5>1. Head(todo).arg \in Nat
          BY <2>1, <1>1, RunningFacts, CallOps
        <5> QED BY <5>1, <2>1, <1>1, CopyingAlone, Lengths DEF Smaller, Types
      <4> HIDE DEF n
      <4> QED BY <4>1, <4>2, <3>2, <3>3
    <3> QED BY <3>1, <3>2, <3>4, <1>9 DEF copyFill
  <2> QED BY <2>1, <2>2, <1>5, <1>6, <1>3
<1>10. CASE ConnectReply \/ DataReply \/ DiscardReply \/ StatusReply \/ Disconnected
  <2>1. Running("callback")
    BY <1>10 DEF ConnectReply, DataReply, DiscardReply, StatusReply, Disconnected, Handling
  <2>2. Returns => NoReading
    BY <2>1, <1>4
  <2>3. CASE GoesOnWith(<<Events, Call("close", Head(rx).sock)>>)
    <3>1. Head(rx).sock \in Sockets
      BY <2>1, <1>1, HeadPacket DEF Types
    <3>2. Call("close", Head(rx).sock) \in CallSet /\ Call("close", Head(rx).sock).op = "close"
      BY <3>1, <1>2
    <3> DEFINE b == Call("close", Head(rx).sock)
    <3>3. GoesOnWith(<<Events, b>>) /\ b \in CallSet /\ b.op # "connecting"
      BY <3>2, <2>3
    <3>4. Events \in CallSet /\ Events.op \notin {"copy", "readEnd", "connecting"}
      BY <1>2
    <3> HIDE DEF b
    <3>5. NoReading
      BY <3>3, <3>4, <2>1, <1>1, NoReadingAfterTuples
    <3> QED BY <3>5, <1>3
  <2>4. CASE GoesOnWith(AllClosed)
    <3>1. \A c \in CallsOf(AllClosed) : c.op # "connecting"
      BY AllClosedFacts DEF CallsOf
    <3>2. NoReading
      BY <3>1, <2>1, <2>4, <1>1, AllClosedFacts, NoReadingAfter
    <3> QED BY <3>2, <1>3
  <2> QED BY <2>2, <2>3, <2>4, <1>3, <1>10
      DEF ConnectReply, DataReply, DiscardReply, StatusReply, Disconnected
<1>11. CASE close
  <2>1. Head(todo).arg \in Sockets /\ Running("close")
    BY <1>11, <1>1, RunningFacts DEF close, Closing
  <2>2. GoesOnWith(<<Call("release", Head(todo).arg)>>)
    BY <1>11 DEF close
  <2>3. NoReading
    BY <2>1, <2>2, <1>1, <1>2, NoReadingAfterTuples
  <2> QED BY <2>3, <1>3
<1>12. CASE release \/ forget
  BY <1>12, <1>3, <1>4 DEF release, forget
<1>13. CASE stopFirst \/ connectFails
  <2>1. PICK op \in {"stopFirst", "connecting"} : Running(op)
    BY <1>13 DEF stopFirst, connectFails
  <2>2. Call("close", theSocket) \in CallSet /\ Call("close", theSocket).op = "close"
    <3>1. theSocket \in Sockets
      BY <2>1, <1>1, RunningFacts DEF UsesSocket
    <3> QED BY <3>1, <1>2
  <2>3. \/ GoesOnWith(<<Call("create", 0)>>)
        \/ GoesOnWith(<<Events, Call("close", theSocket), Call("forget", 0)>>)
        \/ GoesOnWith(<<Events, Call("close", theSocket), Call("forget", 0), Call("create", 0)>>)
    BY <1>13 DEF stopFirst, connectFails
  <2>4. NoReading
    BY <2>1, <2>2, <2>3, <1>1, <1>2, NoReadingAfterTuples
  <2> QED BY <2>4, <1>3
<1>14. CASE Stop \/ (Connect /\ theSocket = None)
  <2>1. /\ Idle
        /\ \/ todo' = <<Events, Call("close", theSocket), Call("forget", 0)>>
           \/ todo' = <<Call("create", 0)>>
    BY <1>14 DEF Stop, Connect, Calls
  <2>2. /\ Head(todo') = Events \/ Head(todo') = Call("create", 0)
        /\ Pending' \subseteq {Events, Call("close", theSocket), Call("forget", 0), Call("create", 0)}
    BY <2>1, Started
  <2>3. \A c \in Pending' : c.op # "connecting"
    BY <2>2 DEF Call, Events
  <2>4. ~Copying'
    BY <2>2 DEF Copying, Running, Call, Events
  <2> QED BY <2>3, <2>4, <1>3 DEF NoReading, PendingOp
<1>15. (Connect /\ theSocket # None) \/ (Connect /\ theSocket = None) \/ ~Connect
  OBVIOUS
<1> QED BY <1>7, <1>5, <1>6, <1>8, <1>9, <1>10, <1>11, <1>12, <1>13, <1>14, <1>15
    DEF Next, library, sketch, m2m_ip_cb

\* What the opening of a socket does: nothing, or its session is new, the chip has sent
\* nothing of it, and there is nothing to be read.
NewSocket(s) ==
  /\ theSocket' = s /\ ~Used(s) /\ Used(s)' /\ Session(s)' = gu16SessionID + 1
  /\ info'[s].buffer = << >> /\ Remaining(s)' = 0
  /\ NoReply("recv", Session(s))'
  /\ peers'[s] = peers[s] \/ (peers'[s].session = gu16SessionID + 1 /\ peers'[s].sent = 0)
  /\ \A r \in Sockets : r # s => /\ (Used(r)' <=> Used(r)) /\ Session(r)' = Session(r)
                                 /\ SameData(r) /\ peers'[r] = peers[r]

\* An opened socket is of a new session and empty; or none is free and nothing changes.
LEMMA CreateResult ==
  ASSUME Base, Sessions, Tidy, [Next]_vars, create
  PROVE  /\ ~Copying' /\ got' = << >>
         /\ \/ theSocket' = None /\ UNCHANGED <<gastrSockets, info, peers>>
            \/ \E s \in Sockets : NewSocket(s)
<1>1. CallTypes /\ SocketTypes /\ Shape /\ Types
  BY DEF Base, Types
<1>2. Running("create") /\ got' = << >>
  BY DEF create
<1>3. todo # << >> /\ Head(todo).op = "create"
  BY <1>2, <1>1, Below
<1>4. CASE createFails
  <2>1. Returns /\ theSocket' = None /\ UNCHANGED <<gastrSockets, info, peers>>
    BY <1>4 DEF createFails
  <2>2. ~Copying'
    BY <2>1, <1>1, <1>3, NextReturns DEF Inner, Copying
  <2> QED BY <2>1, <2>2, <1>2
<1>5. ASSUME NEW s \in Sockets, createOn(s) PROVE ~Copying' /\ NewSocket(s)
  <2>1. PICK c \in Nat \ {0} : c = gu16SessionID + 1 /\ c > gu16SessionID
    BY SocketAssumption, <1>1 DEF SocketTypes
  <2>2. /\ ~Used(s) /\ theSocket' = s
        /\ gastrSockets' = [gastrSockets EXCEPT ![s] =
             [bIsUsed |-> TRUE, u16SessionID |-> c, bIsRecvPending |-> FALSE]]
    BY <2>1, <1>5 DEF createOn, FreeSocket, newSession, Used
  <2>3. PICK ok \in BOOLEAN :
          /\ peers' = IF ok THEN [peers EXCEPT ![s] = [session |-> gu16SessionID',
                            phase |-> "connecting", asked |-> FALSE, sent |-> 0]] ELSE peers
          /\ info' = [info EXCEPT ![s] = IF ok THEN [Created(s) EXCEPT !.state = "CONNECTING"]
                                               ELSE Created(s)]
          /\ GoesOnWith(IF ok THEN <<Events, Call("connecting", 0)>>
                        ELSE <<Events, Call("close", s), Call("forget", 0)>>)
    BY <1>5 DEF createOn
  <2>4. PICK j :
          /\ info' = [info EXCEPT ![s] = j]
          /\ j = IF ok THEN [Created(s) EXCEPT !.state = "CONNECTING"] ELSE Created(s)
    BY <2>3
  <2>5. /\ Created(s).buffer = info[s].buffer /\ Created(s).recvMsg = info[s].recvMsg
        /\ Created(s) \in InfoSet
    BY <1>1 DEF Created, Types, InfoTypes, InfoSet
  <2>6. j.buffer = info[s].buffer /\ j.recvMsg = info[s].recvMsg
    BY <2>4, <2>5 DEF InfoSet
  <2>7. info'[s] = j /\ \A r \in Sockets : r # s => info'[r] = info[r]
    BY <2>4, <1>1 DEF Types, InfoTypes
  <2>8. Clean(s)
    BY <2>2 DEF Tidy, UnusedClean
  <2>9. info'[s].buffer = << >> /\ Remaining(s)' = 0 /\ \A r \in Sockets : r # s => SameData(r)
    BY <2>6, <2>7, <2>8 DEF Clean, Remaining, SameData
  <2>10. /\ Used(s)' /\ Session(s)' = c
         /\ \A r \in Sockets : r # s => (Used(r)' <=> Used(r)) /\ Session(r)' = Session(r)
    <3>1. /\ gastrSockets'[s] = [bIsUsed |-> TRUE, u16SessionID |-> c, bIsRecvPending |-> FALSE]
          /\ \A r \in Sockets : r # s => gastrSockets'[r] = gastrSockets[r]
      BY <2>2, <1>1 DEF SocketTypes
    <3> QED BY <3>1 DEF Used, Session
  <2>11. NoReply("recv", Session(s))'
    <3>1. NoReply("recv", c)
      BY <2>1, FutureReply
    <3>2. ~readEnd /\ ~connectDone
      BY <1>3 DEF readEnd, connectDone, Running
    <3>3. ~Asks("recv", c)
      BY <3>2 DEF Asks
    <3>4. NoReply("recv", c)'
      BY <3>1, <3>3, NoReplyStep
    <3> QED BY <3>4, <2>10 DEF NoReply, InRx, InQueue, Awaits, Matches
  <2>12. /\ \A r \in Sockets : r # s => peers'[r] = peers[r]
         /\ peers'[s] = peers[s] \/ (peers'[s].session = c /\ peers'[s].sent = 0)
    <3>1. peers \in [Sockets -> [session : 0 .. MaxSessions, phase : {"none", "connecting", "open"},
                                 asked : BOOLEAN, sent : 0 .. StreamLength]]
      BY <1>1 DEF Types, ChipTypes
    <3>2. gu16SessionID' = c
      BY <2>1, <1>5 DEF createOn, newSession
    <3> QED BY <3>1, <3>2, <2>3
  <2>13. /\ Events \in CallSet /\ Events.op = "events"
         /\ Call("forget", 0) \in CallSet
         /\ Call("connecting", 0) \in CallSet
         /\ Call("close", s) \in CallSet
    BY CallTyped DEF Ops, Closing, Final
  <2>14. ~Copying'
    <3>1. \/ GoesOnWith(<<Events, Call("connecting", 0)>>)
          \/ GoesOnWith(<<Events, Call("close", s), Call("forget", 0)>>)
      BY <2>3
    <3> QED BY <3>1, <2>13, <1>1, <1>3, NextIs DEF Copying, Running
  <2> QED BY <2>1, <2>2, <2>9, <2>10, <2>11, <2>12, <2>14 DEF NewSocket
<1> QED BY <1>2, <1>4, <1>5 DEF create

-----------------------------------------------------------------------------
(***************************************************************************)
(* A reply finds nothing unread.                                           *)
(***************************************************************************)

\* To the requests for data of a session there is at most one reply at a time,
RecvOnce == \A c \in 1 .. MaxSessions : OneReply("recv", c)

\* and none while there is still something to read.
Unread ==
  \A s \in Sockets : Used(s) /\ (~Clean(s) \/ (Copying /\ s = theSocket)) =>
     NoReply("recv", Session(s))

\* Data is asked for when none is left, and by a new connection.
LEMMA RecvOnceStep ==
  Base /\ Sessions /\ Tidy /\ Unread /\ RecvOnce /\ [Next]_vars => RecvOnce'
<1> SUFFICES ASSUME Base, Sessions, Tidy, Unread, RecvOnce, [Next]_vars, NEW c \in 1 .. MaxSessions
             PROVE  OneReply("recv", c)'
  BY DEF RecvOnce
<1>1. CallTypes /\ SocketTypes /\ Shape /\ c \in Nat \ {0}
  BY SocketAssumption DEF Base, Types
<1>2. ASSUME Asks("recv", c) PROVE NoReply("recv", c)
  <2>1. Used(theSocket) /\ Session(theSocket) = c
    BY <1>2 DEF Asks
  <2>2. CASE connectDone
    <3>1. Running("connecting")
      BY <2>2 DEF connectDone
    <3>2. PendingOp("connecting")
      BY <3>1, <1>1, Below DEF PendingOp
    <3> QED BY <3>2, <2>1 DEF Tidy, WhileConnecting
  <2>3. CASE readEnd
    <3>1. Copying
      BY <2>3 DEF readEnd, Copying
    <3>2. theSocket \in Sockets
      BY <3>1, CopyingAlone
    <3> QED BY <3>1, <3>2, <2>1 DEF Unread
  <2> QED BY <2>2, <2>3, <1>2 DEF Asks
<1> QED BY <1>1, <1>2, OneReplyStep DEF RecvOnce

\* As long as a session goes on there is no reply after a step if there was none before,
\* unless the step asks for data.
LEMMA StillNoReply ==
  ASSUME Base, Sessions, [Next]_vars, NEW s \in Sockets, Used(s), Session(s)' = Session(s),
         NoReply("recv", Session(s)), Asks("recv", Session(s)) => UNCHANGED peers
  PROVE  NoReply("recv", Session(s))'
<1>1. PICK c \in Nat \ {0} : Session(s) = c
  <2>1. Session(s) \in Nat /\ Session(s) > 0
    BY SocketAssumption DEF Base, Types, SocketTypes, Session, Sessions, TableSessions
  <2> QED BY <2>1
<1>2. Asks("recv", c) => UNCHANGED peers
  BY <1>1
<1>3. NoReply("recv", c)'
  BY <1>1, <1>2, NoReplyStep
<1> QED BY <1>1, <1>3 DEF NoReply, InRx, InQueue, Awaits, Matches

\* The reply that is handled was the only one.
LEMMA HandledOnce ==
  ASSUME Base, Sessions, RecvOnce, DataReply, NEW s, s = Head(rx).sock
  PROVE  /\ s \in Sockets /\ Used(s) /\ Session(s) > 0
         /\ InRx("recv", Session(s)) /\ Head(rx) \in Replies(Session(s))
         /\ Session(s)' = Session(s) /\ UNCHANGED <<peers, queue, newInterrupt>>
         /\ ~newInterrupt /\ ~Copying
         /\ NoReply("recv", Session(s))'
<1>1. CallTypes /\ SocketTypes /\ Shape /\ Types /\ Interrupts /\ QueueTypes
  BY DEF Base, Types
<1>2. /\ Running("callback") /\ Head(rx).type = "recv" /\ sameSession(Head(rx))
      /\ NotPending(s) /\ Returns /\ UNCHANGED <<peers, queue, newInterrupt>>
  <2>1. UNCHANGED queue /\ UNCHANGED newInterrupt
    BY DEF DataReply, fillRecvBuffer, hif_set_rx_done
  <2> QED BY <2>1 DEF DataReply, Handling, chipVars
<1>3. rx # << >> /\ Head(rx) \in PacketSet /\ s \in Sockets /\ Session(s) = Head(rx).session
  BY <1>1, <1>2, HeadPacket DEF sameSession, Session
<1>4. Session(s) \in 1 .. MaxSessions /\ Used(s)
  <2>1. Head(rx).session > 0
    BY <1>2, <1>3 DEF Sessions, PacketSessions, Known
  <2>2. Session(s) \in 0 .. MaxSessions
    BY <1>1, <1>3 DEF SocketTypes, Session
  <2>3. Used(s)
    BY <2>1, <1>3 DEF Sessions, TableSessions, Unused, Session
  <2> QED BY <2>1, <2>2, <2>3, <1>3, SocketAssumption
<1>5. Session(s)' = Session(s)
  BY <1>1, <1>2, <1>3, NotPendingKeeps
<1>6. InRx("recv", Session(s))
  BY <1>2, <1>3 DEF InRx, Unhandled, Matches
<1>7. InQueue("recv", Session(s)) = {} /\ Awaits("recv", Session(s)) = {}
  BY <1>4, <1>6 DEF RecvOnce, OneReply
<1>8. ~newInterrupt /\ ~Running("callback")' /\ ~Copying
  <2>1. todo # << >> /\ Head(todo).op = "callback"
    BY <1>2 DEF Running
  <2> QED BY <2>1, <1>1, <1>2, NextReturns DEF Inner, Interrupts, Copying, Running
<1>9. NoReply("recv", Session(s))'
  BY <1>2, <1>5, <1>7, <1>8 DEF NoReply, InRx, Unhandled, InQueue, Awaits, Matches
<1>10. Head(rx) \in Replies(Session(s))
  BY <1>3, <1>6 DEF Replies
<1> QED BY <1>2, <1>3, <1>4, <1>5, <1>6, <1>8, <1>9, <1>10, SocketAssumption

\* Unread bytes come of a reply, and a read begins when there are some.
LEMMA UnreadFrom ==
  ASSUME Base, Tidy, [Next]_vars, ~create, NEW s \in Sockets,
         ~Clean(s)' \/ (Copying' /\ s = theSocket')
  PROVE  ~Clean(s) \/ (Copying /\ s = theSocket) \/ (DataReply /\ s = Head(rx).sock)
<1>1. CallTypes /\ Shape /\ Types
  BY DEF Base, Types
<1>2. CASE DataReply
  <2> SUFFICES ASSUME s # Head(rx).sock PROVE ~Clean(s)
    BY <1>2
  <2>1. ~Copying'
    <3>1. Running("callback") /\ Returns
      BY <1>2 DEF DataReply, Handling
    <3>2. todo # << >> /\ Head(todo).op = "callback"
      BY <3>1 DEF Running
    <3> QED BY <3>1, <3>2, <1>1, NextReturns DEF Inner, Copying
  <2>2. info'[s] = info[s]
    BY <1>1, <1>2 DEF DataReply, fillRecvBuffer, Types, InfoTypes
  <2> QED BY <2>1, <2>2 DEF Clean, Remaining
<1>3. CASE copyFill \/ copy
  <2>1. Copying /\ theSocket' = theSocket
    BY <1>3 DEF Copying, copyFill, copy, Running
  <2>2. s # theSocket => info'[s] = info[s]
    BY <1>1, <1>3 DEF copyFill, copy, fillRecvBuffer, Types, InfoTypes
  <2> QED BY <2>1, <2>2 DEF Clean, Remaining
<1>4. CASE ~DataReply /\ ~copyFill /\ ~copy
  <2>1. Clean(s) => Clean(s)'
    <3>1. SameData(s) \/ info'[s] = Invalid
      BY <1>4, InfoKept
    <3> QED BY <3>1 DEF SameData, Clean, Remaining, Invalid, NoMessage
  <2>2. ASSUME Clean(s), Copying', s = theSocket' PROVE Copying /\ s = theSocket
    <3>1. theSocket' = theSocket /\ (Copying \/ availableOn(theSocket) > 0)
      BY <2>2, ReadingKept
    <3>2. availableOn(s) = 0
      BY <2>2 DEF Clean, availableOn
    <3> QED BY <3>1, <3>2, <2>2
  <2> QED BY <2>1, <2>2
<1> QED BY <1>2, <1>3, <1>4

\* A reply is handled before more is asked for.
LEMMA UnreadStep ==
  Base /\ Sessions /\ Tidy /\ Unread /\ RecvOnce /\ [Next]_vars => Unread'
<1> SUFFICES ASSUME Base, Sessions, Tidy, Unread, RecvOnce, [Next]_vars,
                    NEW s \in Sockets, Used(s)', ~Clean(s)' \/ (Copying' /\ s = theSocket')
             PROVE  NoReply("recv", Session(s))'
  BY DEF Unread
<1>1. CallTypes /\ SocketTypes /\ Shape /\ Types /\ Interrupts
  BY DEF Base, Types
<1>2. ASSUME Used(s), Session(s)' = Session(s), ~Clean(s) \/ (Copying /\ s = theSocket),
             Asks("recv", Session(s)) => UNCHANGED peers
      PROVE  NoReply("recv", Session(s))'
  BY <1>2, StillNoReply DEF Unread
<1>3. CASE create
  <2>1. ~Copying' /\ ~Clean(s)'
    BY <1>3, CreateResult
  <2>2. ~Asks("recv", Session(s))
    BY <1>3 DEF Asks, create, connectDone, readEnd, Running
  <2>3. CASE UNCHANGED <<gastrSockets, info>>
    BY <2>1, <2>2, <2>3, <1>2 DEF Clean, Remaining, Used, Session
  <2>4. ASSUME NEW r \in Sockets, NewSocket(r) PROVE NoReply("recv", Session(s))'
    <3>1. CASE s = r
      BY <3>1, <2>4 DEF NewSocket
    <3>2. CASE s # r
      BY <3>2, <2>1, <2>2, <2>4, <1>2 DEF NewSocket, SameData, Clean, Remaining
    <3> QED BY <3>1, <3>2
  <2> QED BY <2>3, <2>4, <1>3, CreateResult
<1>4. CASE ~create
  <2>1. Used(s) /\ Session(s)' = Session(s)
    BY <1>4, TableKept
  <2>2. CASE DataReply /\ s = Head(rx).sock
    BY <2>2, HandledOnce
  <2>3. CASE ~Clean(s) \/ (Copying /\ s = theSocket)
    <3>1. Asks("recv", Session(s)) => UNCHANGED peers
      <4> SUFFICES ASSUME connectDone \/ readEnd, Used(theSocket), Session(theSocket) = Session(s)
                   PROVE  UNCHANGED peers
        BY DEF Asks
      <4>1. theSocket \in Sockets /\ UNCHANGED theSocket
        BY <1>1, RunningFacts DEF connectDone, readEnd, UsesSocket, Reading
      <4>2. theSocket = s
        BY <4>1, <2>1 DEF Sessions, TableSessions
      <4>3. ~Clean(s)
        <5>1. ~Copying' /\ ~DataReply /\ ~copyFill /\ ~copy /\ ~close
          BY <1>4, ReadingKept
          DEF DataReply, Handling, copyFill, copy, close, connectDone, readEnd, Running
        <5>2. SameData(s)
          BY <5>1, <1>4, InfoKept
        <5> QED BY <5>1, <5>2 DEF SameData, Clean
      <4>4. ~connectDone
        <5>1. connectDone => PendingOp("connecting")
          BY <1>1, Below DEF connectDone, PendingOp
        <5> QED BY <5>1, <4>2, <4>3 DEF Tidy, WhileConnecting
      <4> QED BY <4>2, <4>3, <4>4 DEF readEnd, consumed, Clean
    <3> QED BY <3>1, <2>1, <2>3, <1>2
  <2> QED BY <2>2, <2>3, <1>4, UnreadFrom
<1> QED BY <1>3, <1>4

\* So a reply overwrites nothing.
LEMMA NothingOverwritten ==
  Base /\ Sessions /\ Tidy /\ Unread => ReplyFindsNothingUnread
<1> SUFFICES ASSUME Base, Sessions, Tidy, Unread, Handling("recv"), sameSession(Head(rx)),
                    NEW s, s = Head(rx).sock
             PROVE  Clean(s)
  BY DEF ReplyFindsNothingUnread, Clean
<1>1. SocketTypes /\ QueueTypes /\ Interrupts /\ Running("callback")
  BY DEF Base, Types, Handling
<1>2. rx # << >> /\ Head(rx) \in PacketSet /\ s \in Sockets /\ Session(s) = Head(rx).session
  BY <1>1, HeadPacket DEF sameSession, Session
<1>3. InRx("recv", Session(s))
  BY <1>1, <1>2 DEF InRx, Unhandled, Matches, Handling
<1>4. ~NoReply("recv", Session(s))
  BY <1>3 DEF NoReply
<1>5. Used(s)
  <2>1. Head(rx).session > 0
    BY <1>2 DEF Sessions, PacketSessions, Known, Handling
  <2> QED BY <2>1, <1>2 DEF Sessions, TableSessions, Unused, Session
<1> QED BY <1>2, <1>4, <1>5 DEF Unread

-----------------------------------------------------------------------------
(***************************************************************************)
(* The stream.  What was read, what is in the buffer, what was announced   *)
(* of the packet on offer, and the data of the reply to come follow each   *)
(* other, and the chip has been sent as much.                              *)
(***************************************************************************)

\* The n-th byte of session c; of any session, if c is 0.
From(b, c, n) == b[2] = n /\ (c # 0 => b[1] = c)
\* Bytes that follow the first n ones.
Runs(d, c, n) == \A k \in 1 .. Len(d) : From(d[k], c, n + k)

\* What has come of the stream of a socket's session.
Total(s) == Len(got) + Len(info[s].buffer) + Remaining(s)
\* The chip has been sent n bytes of session c.
SentIs(c, n) == \A r \in Sockets : peers[r].session = c => peers[r].sent = n

GotRuns(s) == Runs(got, Session(s), 0)
BufferRuns(s) == Runs(info[s].buffer, Session(s), Len(got))
RestRuns(s) ==
  \A k \in 1 .. Remaining(s) :
    From(Head(rx).data[info[s].recvMsg.pu8Buffer + k], Session(s), Len(got) + Len(info[s].buffer) + k)
RepliesContinue(s) ==
  Used(s) => \A p \in Replies(Session(s)) :
               /\ Runs(p.data, Session(s), Total(s))
               /\ SentIs(Session(s), Total(s) + Len(p.data))
SentSoFar(s) ==
  Used(s) /\ (Awaits("recv", Session(s)) # {} \/ ~Clean(s) \/ Copying) =>
    SentIs(Session(s), Total(s))
FirstBytes(s) ==
  PendingOp("connecting") => got = << >> /\ (Used(s) => SentIs(Session(s), 0))

StreamOf(s) ==
  GotRuns(s) /\ BufferRuns(s) /\ RestRuns(s) /\ RepliesContinue(s) /\ SentSoFar(s) /\ FirstBytes(s)

\* Each session has one end in the chip.
PeersApart ==
  \A r, s \in Sockets : peers[r].session # 0 /\ peers[r].session = peers[s].session => r = s

\* It stays so, since a session that is opened is new.
LEMMA PeersApartStep ==
  Base /\ Base' /\ Sessions /\ Tidy /\ PeersApart /\ [Next]_vars => PeersApart'
<1> SUFFICES ASSUME Base, Base', Sessions, Tidy, PeersApart, [Next]_vars,
                    NEW r \in Sockets, NEW q \in Sockets,
                    peers'[r].session # 0, peers'[r].session = peers'[q].session
             PROVE  r = q
  BY DEF PeersApart
<1>1. PICK c \in Nat \ {0} : peers'[r].session = c /\ peers'[q].session = c
  <2>1. peers'[r].session \in Nat
    BY SocketAssumption DEF Base, Types, ChipTypes
  <2> QED BY <2>1
<1>2. CASE ~create
  <2>1. peers[r].session = c /\ peers[q].session = c
    BY <1>1, <1>2, PeersKept
  <2> QED BY <2>1, <1>1 DEF PeersApart
<1>3. CASE create
  <2>1. \A s \in Sockets : peers[s].session # gu16SessionID + 1
    <3> SUFFICES ASSUME NEW s \in Sockets PROVE peers[s].session # gu16SessionID + 1
      OBVIOUS
    <3>1. peers[s].session \in Nat /\ peers[s].session <= gu16SessionID /\ gu16SessionID \in Nat
      BY SocketAssumption DEF Base, Types, ChipTypes, SocketTypes, Sessions, PeerSessions
    <3> QED BY <3>1
  <2>2. CASE UNCHANGED peers
    BY <2>2, <1>1 DEF PeersApart
  <2>3. ASSUME NEW s \in Sockets, NewSocket(s) PROVE r = q
    <3>1. CASE peers'[s] = peers[s]
      <4>1. peers'[r] = peers[r] /\ peers'[q] = peers[q]
        BY <2>3, <3>1 DEF NewSocket
      <4> QED BY <4>1, <1>1 DEF PeersApart
    <3>2. CASE peers'[s].session = gu16SessionID + 1
      <4>1. r # s => peers'[r] = peers[r]
        BY <2>3 DEF NewSocket
      <4>2. q # s => peers'[q] = peers[q]
        BY <2>3 DEF NewSocket
      <4> QED BY <4>1, <4>2, <3>2, <2>1, <1>1 DEF PeersApart
    <3> QED BY <3>1, <3>2, <2>3 DEF NewSocket
  <2> QED BY <2>2, <2>3, <1>3, CreateResult
<1> QED BY <1>2, <1>3

\* A packet of which something is left stays in the chip.
LEMMA RxKept ==
  ASSUME Base, Base', [Next]_vars, NEW s \in Sockets, Remaining(s) > 0, Remaining(s)' > 0
  PROVE  UNCHANGED rx
<1>1. rx # << >> /\ rx' # << >>
  BY DEF Base, Interrupts
<1> QED BY <1>1, PacketStep DEF Base

\* Nothing more of a session is sent than what arrives.
LEMMA SentKept ==
  ASSUME Base, [Next]_vars, ~create, NEW c \in Nat \ {0}, NEW n, SentIs(c, n),
         \A r \in Sockets : \A m \in 1 .. MaxChunk : Arrive(r, m) => peers[r].session # c
  PROVE  SentIs(c, n)'
BY PeersKept DEF SentIs

\* What is known of a byte of a session stays true when the session has ended.
LEMMA RunsKept ==
  ASSUME NEW d, NEW c, NEW e \in {c, 0}, NEW n, Runs(d, c, n)
  PROVE  Runs(d, e, n)
BY DEF Runs, From

\* The bytes that come and the bytes that came follow each other after a step, if it leaves
\* as many of them to be read, or read, as there were.
LEMMA RepliesStep ==
  ASSUME Safe, Unread, RecvOnce, PeersApart, [Next]_vars, ~create,
         NEW s \in Sockets, s = theSocket, RepliesContinue(s), SentSoFar(s), FirstBytes(s),
         Used(s), Used(s)', NEW c \in Nat \ {0}, Session(s) = c, Session(s)' = c,
         NEW t \in Nat, Total(s) = t, Total(s)' = t, Clean(s) => Clean(s)'
  PROVE  /\ \A p \in Replies(c)' : Runs(p.data, c, t) /\ SentIs(c, t + Len(p.data))'
         /\ Awaits("recv", c)' # {} \/ ~Clean(s)' \/ Copying' => SentIs(c, t)'
         /\ PendingOp("connecting")' => SentIs(c, 0)'
<1>1. Base /\ Sessions /\ Tidy /\ CallTypes /\ SocketTypes /\ Shape /\ Types
  BY DEF Safe, Base, Types
<1>2. c \in 1 .. MaxSessions
  BY <1>1, SocketAssumption DEF SocketTypes, Session
<1>3. /\ \A p \in Replies(c) : Runs(p.data, c, t) /\ SentIs(c, t + Len(p.data))
      /\ Awaits("recv", c) # {} \/ ~Clean(s) \/ Copying => SentIs(c, t)
      /\ PendingOp("connecting") => SentIs(c, 0)
  BY DEF RepliesContinue, SentSoFar, FirstBytes
<1>4. PendingOp("connecting") => Clean(s) /\ NoReply("recv", c) /\ got = << >>
  BY <1>1 DEF Tidy, WhileConnecting, FirstBytes
<1>5. PendingOp("connecting")' => PendingOp("connecting")
  BY <1>1, ReadingKept
<1>6. ASSUME NEW r \in Sockets, NEW n \in 1 .. MaxChunk, Arrive(r, n), peers[r].session = c
      PROVE  /\ \A p \in Replies(c)' : Runs(p.data, c, t) /\ SentIs(c, t + Len(p.data))'
             /\ Awaits("recv", c)' # {} \/ ~Clean(s)' \/ Copying' => SentIs(c, t)'
             /\ PendingOp("connecting")' => SentIs(c, 0)'
  <2>1. r \in Awaits("recv", c)
    BY <1>6 DEF Arrive, Awaits
  <2>2. SentIs(c, t) /\ peers[r].sent = t
    BY <2>1, <1>3, <1>6 DEF SentIs
  <2>3. ~NoReply("recv", c)
    BY <2>1 DEF NoReply
  <2>4. Clean(s) /\ ~Copying /\ ~PendingOp("connecting")'
    BY <2>3, <1>4, <1>5 DEF Unread
  <2>5. Replies(c) = {}
    BY <2>1, <1>2 DEF RecvOnce, OneReply, Replies
  <2> DEFINE p == Packet("recv", r, c, TRUE, Data(r, n))
             e == [peers[r] EXCEPT !.asked = FALSE, !.sent = @ + n]
  <2>6. Replies(c)' \subseteq {p}
    BY <2>5, <1>1, <1>6, RepliesFrom
  <2>7. Len(p.data) = n /\ Runs(p.data, c, t)
    <3>1. p.data = Data(r, n)
      BY DEF Packet
    <3>2. Len(Data(r, n)) = n /\ \A k \in 1 .. n : Data(r, n)[k] = <<c, t + k>>
      <4>1. Len(Data(r, n)) = n
        BY <1>1, <1>6, PacketTypes
      <4>2. \A k \in 1 .. n : Data(r, n)[k] = <<c, t + k>>
        BY <2>2, <1>6 DEF Data
      <4> QED BY <4>1, <4>2
    <3> HIDE DEF p
    <3>3. \A k \in 1 .. n : p.data[k][2] = t + k /\ p.data[k][1] = c
      BY <3>1, <3>2
    <3> QED BY <3>1, <3>2, <3>3 DEF Runs, From
  <2>8. peers' = [peers EXCEPT ![r] = e]
    BY <1>6 DEF Arrive
  <2>9. e.sent = t + n /\ e.session = c /\ ~e.asked
    BY <2>2, <1>1, <1>6 DEF Types, ChipTypes
  <2>10. peers'[r] = e /\ \A q \in Sockets : q # r => peers'[q] = peers[q]
    <3> HIDE DEF e
    <3> QED BY <2>8, <1>1 DEF Types, ChipTypes
  <2>11. \A q \in Sockets : q # r => peers'[q].session # c
    BY <2>10, <1>6 DEF PeersApart
  <2>12. SentIs(c, t + n)' /\ Awaits("recv", c)' = {}
    <3> HIDE DEF e
    <3> QED BY <2>9, <2>10, <2>11 DEF SentIs, Awaits
  <2>13. ~Copying'
    <3>1. availableOn(s) = 0
      BY <2>4 DEF Clean, availableOn
    <3> QED BY <3>1, <2>4, <1>1, ReadingKept
  <2> HIDE DEF p, e
  <2> QED BY <2>4, <2>6, <2>7, <2>12, <2>13
<1>7. ASSUME \A r \in Sockets : \A n \in 1 .. MaxChunk : Arrive(r, n) => peers[r].session # c
      PROVE  /\ \A p \in Replies(c)' : Runs(p.data, c, t) /\ SentIs(c, t + Len(p.data))'
             /\ Awaits("recv", c)' # {} \/ ~Clean(s)' \/ Copying' => SentIs(c, t)'
             /\ PendingOp("connecting")' => SentIs(c, 0)'
  <2>1. \A n : SentIs(c, n) => SentIs(c, n)'
    BY <1>1, <1>7, SentKept
  <2>2. ASSUME NEW p \in Replies(c)' PROVE Runs(p.data, c, t) /\ SentIs(c, t + Len(p.data))'
    <3>1. CASE p \in Replies(c)
      BY <3>1, <2>1, <1>3
    <3>2. ASSUME NEW r \in Sockets, peers[r].session = c, Finish(r), p \notin Replies(c)
          PROVE  Runs(p.data, c, t) /\ SentIs(c, t + Len(p.data))'
      <4>1. p = Packet("recv", r, c, FALSE, << >>)
        BY <3>2, <2>2, <1>1, RepliesFrom
      <4>2. Len(p.data) = 0 /\ Runs(p.data, c, t)
        BY <4>1 DEF Packet, Runs
      <4>3. r \in Awaits("recv", c)
        BY <3>2 DEF Finish, Awaits
      <4>4. SentIs(c, t)' /\ t + 0 = t
        BY <4>3, <2>1, <1>3
      <4> QED BY <4>2, <4>4
    <3> QED BY <3>1, <3>2, <2>2, <1>1, <1>7, RepliesFrom
  <2>3. ASSUME Awaits("recv", c)' # {} \/ ~Clean(s)' \/ Copying' PROVE SentIs(c, t)'
    <3>1. CASE ~Clean(s)' \/ Copying'
      <4>1. availableOn(s) > 0 => ~Clean(s)
        BY DEF Clean, availableOn
      <4>2. ~Clean(s) \/ Copying
        BY <4>1, <3>1, <1>1, ReadingKept
      <4> QED BY <4>2, <2>1, <1>3
    <3>2. CASE Awaits("recv", c) # {}
      BY <3>2, <2>1, <1>3
    <3>3. CASE Asks("recv", c)
      <4>1. CASE readEnd
        <5>1. Copying
          BY <4>1 DEF readEnd, Copying
        <5> QED BY <5>1, <2>1, <1>3
      <4>2. CASE connectDone
        <5>1. PendingOp("connecting")
          BY <4>2, <1>1, Below DEF connectDone, PendingOp
        <5>2. t = 0
          BY <5>1, <1>4 DEF Total, Clean
        <5> QED BY <5>1, <5>2, <2>1, <1>3
      <4> QED BY <4>1, <4>2, <3>3 DEF Asks
    <3>4. Awaits("recv", c)' \subseteq Awaits("recv", c) \/ Asks("recv", c)
      <4>1. "recv" \in {"connect", "recv"}
        OBVIOUS
      <4> QED BY <4>1, <1>1, LibraryAwaits, ChipPackets DEF Next
    <3> QED BY <3>1, <3>2, <3>3, <3>4, <2>3
  <2> QED BY <2>1, <2>2, <2>3, <1>3, <1>5
<1> QED BY <1>6, <1>7

\* The same for the parts of the invariant.
LEMMA RepliesParts ==
  ASSUME Safe, Unread, RecvOnce, PeersApart, [Next]_vars, ~create,
         NEW s \in Sockets, s = theSocket, StreamOf(s), Total(s)' = Total(s), Clean(s) => Clean(s)'
  PROVE  /\ RepliesContinue(s)' /\ SentSoFar(s)'
         /\ PendingOp("connecting")' /\ Used(s)' => SentIs(Session(s), 0)'
<1>1. Base /\ Sessions /\ SocketTypes /\ InfoTypes /\ got \in Seq(Bytes)
  BY DEF Safe, Base, Types, HistoryTypes
<1>2. Used(s)' => Used(s) /\ Session(s)' = Session(s)
  BY <1>1, TableKept
<1>3. CASE ~Used(s)'
  BY <1>3 DEF RepliesContinue, SentSoFar
<1>4. CASE Used(s)'
  <2>1. PICK c \in Nat \ {0} : Session(s) = c
    <3>1. Session(s) \in Nat /\ Session(s) > 0
      BY <1>1, <1>2, <1>4, SocketAssumption DEF SocketTypes, Session, Sessions, TableSessions
    <3> QED BY <3>1
  <2>2. PICK t \in Nat : Total(s) = t
    BY <1>1, Lengths DEF Total
  <2>3. RepliesContinue(s) /\ SentSoFar(s) /\ FirstBytes(s)
    BY DEF StreamOf
  <2>4. /\ \A p \in Replies(c)' : Runs(p.data, c, t) /\ SentIs(c, t + Len(p.data))'
        /\ Awaits("recv", c)' # {} \/ ~Clean(s)' \/ Copying' => SentIs(c, t)'
        /\ PendingOp("connecting")' => SentIs(c, 0)'
    BY <2>1, <2>2, <2>3, <1>2, <1>4, RepliesStep
  <2>5. Session(s)' = c /\ Total(s)' = t
    BY <2>1, <2>2, <1>2, <1>4
  <2>6. RepliesContinue(s)'
    <3>1. \A p \in Replies(Session(s))' : p \in Replies(c)'
      BY <2>5 DEF Replies, InRx, InQueue, Matches
    <3>2. \A n : SentIs(c, n)' => SentIs(Session(s), n)'
      BY <2>5 DEF SentIs
    <3> QED BY <3>1, <3>2, <2>4, <2>5 DEF RepliesContinue, SentIs
  <2>7. SentSoFar(s)'
    BY <2>4, <2>5 DEF SentSoFar, SentIs, Awaits
  <2> QED BY <2>4, <2>5, <2>6, <2>7 DEF SentIs
<1> QED BY <1>3, <1>4

\* A step that leaves alone what was read and what is to be read.
LEMMA StreamKept ==
  ASSUME Safe, Safe', Unread, RecvOnce, PeersApart, [Next]_vars, ~create,
         NEW s \in Sockets, s = theSocket, StreamOf(s), UNCHANGED got, SameData(s)
  PROVE  StreamOf(s)'
<1>1. Base /\ Base' /\ Tidy /\ InfoTypes
  BY DEF Safe, Base, Types
<1>2. Session(s)' \in {Session(s), 0}
  BY <1>1, TableKept
<1>3. Total(s)' = Total(s) /\ (Clean(s) => Clean(s)')
  BY DEF SameData, Total, Clean
<1>4. RepliesContinue(s)' /\ SentSoFar(s)' /\ FirstBytes(s)'
  BY <1>1, <1>3, RepliesParts, ReadingKept DEF FirstBytes, StreamOf
<1>5. GotRuns(s)' /\ BufferRuns(s)'
  BY <1>2, RunsKept DEF StreamOf, GotRuns, BufferRuns, SameData
<1>6. RestRuns(s)'
  <2> SUFFICES ASSUME NEW k \in 1 .. Remaining(s)'
               PROVE  From(Head(rx').data[info'[s].recvMsg.pu8Buffer + k], Session(s)',
                           Len(got') + Len(info'[s].buffer) + k)
    BY DEF RestRuns
  <2>1. Remaining(s)' = Remaining(s) /\ Remaining(s) > 0
    BY <1>1, Lengths DEF SameData
  <2>2. UNCHANGED rx
    BY <2>1, <1>1, RxKept
  <2>3. From(Head(rx).data[info[s].recvMsg.pu8Buffer + k], Session(s),
             Len(got) + Len(info[s].buffer) + k)
    BY <2>1 DEF StreamOf, RestRuns
  <2> QED BY <2>2, <2>3, <1>2 DEF SameData, From
<1> QED BY <1>4, <1>5, <1>6 DEF StreamOf

\* While there is no reply to come, and none to be asked for, little is to be said.
LEMMA NoRepliesParts ==
  ASSUME NEW s, NoReply("recv", Session(s))'
  PROVE  /\ RepliesContinue(s)'
         /\ Clean(s)' /\ ~Copying' => SentSoFar(s)'
<1>1. Replies(Session(s))' = {}
  BY DEF NoReply, Replies
<1>2. Awaits("recv", Session(s))' = {}
  BY DEF NoReply
<1> QED BY <1>1, <1>2 DEF RepliesContinue, SentSoFar

\* The end of a connection, with what is left to be read lost.
LEMMA StreamClosed ==
  ASSUME Safe, Safe', Unread, RecvOnce, PeersApart, [Next]_vars, close,
         NEW s \in Sockets, s = theSocket, StreamOf(s), s = Head(todo).arg, info'[s] = Invalid
  PROVE  StreamOf(s)'
<1>1. Base /\ Base' /\ Sessions /\ Tidy /\ CallTypes /\ SocketTypes /\ Shape /\ InfoTypes
  BY DEF Safe, Base, Types
<1>2. /\ Running("close") /\ GoesOnWith(<<Call("release", s)>>)
      /\ UNCHANGED <<gastrSockets, peers, got>>
  BY DEF close, chipVars, history
<1>3. ~create /\ ~connectDone /\ ~readEnd
  BY <1>2 DEF create, connectDone, readEnd, Running
<1>4. info'[s].buffer = << >> /\ Remaining(s)' = 0 /\ Clean(s)'
  BY DEF Invalid, NoMessage, Remaining, Clean
<1>5. ~Copying'
  <2>1. Call("release", s) \in CallSet /\ Call("release", s).op = "release"
    BY CallTyped DEF Closing
  <2> QED BY <2>1, <1>1, <1>2, NoReadingAfterTuples DEF NoReading
<1>6. (Used(s)' <=> Used(s)) /\ Session(s)' = Session(s)
  BY <1>2 DEF Used, Session
<1>7. GotRuns(s)' /\ BufferRuns(s)' /\ RestRuns(s)'
  BY <1>2, <1>4, <1>6 DEF StreamOf, GotRuns, BufferRuns, RestRuns, Runs
<1>8. CASE Clean(s)
  <2>1. Total(s)' = Total(s)
    BY <1>2, <1>4, <1>8 DEF Total, Clean
  <2>2. RepliesContinue(s)' /\ SentSoFar(s)' /\ FirstBytes(s)'
    BY <1>1, <1>2, <1>3, <1>4, <2>1, RepliesParts, ReadingKept DEF FirstBytes, StreamOf
  <2> QED BY <2>2, <1>7 DEF StreamOf
<1>9. CASE ~Clean(s)
  <2>1. Used(s) /\ ~PendingOp("connecting")'
    <3>1. Used(s)
      BY <1>9, <1>1 DEF Tidy, UnusedClean
    <3> QED BY <3>1, <1>1, <1>3, <1>9, ReadingKept DEF Tidy, WhileConnecting
  <2>2. NoReply("recv", Session(s))'
    BY <2>1, <1>1, <1>2, <1>6, <1>9, StillNoReply DEF Unread
  <2>3. RepliesContinue(s)' /\ SentSoFar(s)'
    BY <2>2, <1>4, <1>5, NoRepliesParts
  <2> QED BY <2>1, <2>3, <1>7 DEF StreamOf, FirstBytes
<1> QED BY <1>8, <1>9

\* Filling an empty buffer moves bytes from the chip to the buffer, if it does anything.
LEMMA FillMoves ==
  ASSUME Types, NEW s \in Sockets, NEW i \in InfoSet, i.buffer = << >>, NEW blocked,
         Announced(i, Head(rx).data), Head(rx).data \in Seq(Bytes), fillRecvBuffer(s, i, blocked)
  PROVE  /\ Len(info'[s].buffer) \in Nat /\ Remaining(s)' \in Nat
         /\ Len(info'[s].buffer) + Remaining(s)' = i.recvMsg.s16BufferSize
         /\ info'[s].recvMsg.pu8Buffer = i.recvMsg.pu8Buffer + Len(info'[s].buffer)
         /\ \A k \in 1 .. Len(info'[s].buffer) :
              info'[s].buffer[k] = Head(rx).data[i.recvMsg.pu8Buffer + k]
         /\ Remaining(s)' > 0 => UNCHANGED rx
<1> DEFINE j == Filled(i, Head(rx).data)
<1>1. info \in [Sockets -> InfoSet]
  BY DEF Types, InfoTypes
<1>2. /\ j \in InfoSet /\ (lastTransfer(i) <=> j.recvMsg.s16BufferSize = 0)
      /\ j.recvMsg.pu8Buffer = i.recvMsg.pu8Buffer + Len(j.buffer)
      /\ Len(j.buffer) + j.recvMsg.s16BufferSize = i.recvMsg.s16BufferSize
      /\ \A k \in 1 .. Len(j.buffer) : j.buffer[k] = Head(rx).data[i.recvMsg.pu8Buffer + k]
  BY FilledFacts
<1>3. CASE /\ info' = [info EXCEPT ![s] = j]
           /\ ~lastTransfer(i) => UNCHANGED rx
  <2> HIDE DEF j
  <2>1. info'[s] = j /\ Len(j.buffer) \in Nat /\ j.recvMsg.s16BufferSize \in Nat
    BY <1>1, <1>2, <1>3 DEF InfoSet
  <2> QED BY <2>1, <1>2, <1>3 DEF Remaining
<1>4. CASE info' = [info EXCEPT ![s] = i] /\ UNCHANGED rx
  <2>1. info'[s] = i /\ Len(i.buffer) = 0
    BY <1>1, <1>4
  <2>2. i.recvMsg.s16BufferSize \in Nat /\ i.recvMsg.pu8Buffer \in Nat
    BY DEF InfoSet
  <2> QED BY <2>1, <2>2, <1>4 DEF Remaining
<1> QED BY <1>3, <1>4 DEF fillRecvBuffer, hif_set_rx_done

\* So bytes that followed the first n ones in the chip still do.
LEMMA FillRuns ==
  ASSUME Types, NEW s \in Sockets, NEW i \in InfoSet, i.buffer = << >>, NEW blocked,
         Announced(i, Head(rx).data), Head(rx).data \in Seq(Bytes), fillRecvBuffer(s, i, blocked),
         NEW c, NEW n \in Nat,
         \A k \in 1 .. i.recvMsg.s16BufferSize :
           From(Head(rx).data[i.recvMsg.pu8Buffer + k], c, n + k)
  PROVE  /\ Runs(info'[s].buffer, c, n)
         /\ \A k \in 1 .. Remaining(s)' :
              From(Head(rx').data[info'[s].recvMsg.pu8Buffer + k], c, n + Len(info'[s].buffer) + k)
<1>1. PICK a \in Nat, m \in Nat : a = i.recvMsg.pu8Buffer /\ m = i.recvMsg.s16BufferSize
  BY DEF InfoSet
<1>2. PICK b \in Nat, r \in Nat : b = Len(info'[s].buffer) /\ r = Remaining(s)' /\ b + r = m
  BY <1>1, FillMoves
<1>3. ASSUME NEW k \in 1 .. b PROVE From(info'[s].buffer[k], c, n + k)
  <2>1. info'[s].buffer[k] = Head(rx).data[a + k]
    BY <1>1, <1>2, FillMoves
  <2>2. k \in 1 .. m
    BY <1>2
  <2> QED BY <2>1, <2>2, <1>1
<1>4. ASSUME NEW k \in 1 .. r
      PROVE  From(Head(rx').data[info'[s].recvMsg.pu8Buffer + k], c, n + b + k)
  <2>1. rx' = rx /\ info'[s].recvMsg.pu8Buffer = a + b
    BY <1>1, <1>2, FillMoves
  <2>2. b + k \in 1 .. m /\ a + (b + k) = a + b + k /\ n + (b + k) = n + b + k
    <3>1. b \in Nat /\ r \in Nat /\ b + r = m
      BY <1>2
    <3> QED BY <3>1
  <2>3. From(Head(rx).data[a + (b + k)], c, n + (b + k))
    BY <2>2, <1>1
  <2> QED BY <2>1, <2>2, <2>3
<1> QED BY <1>2, <1>3, <1>4 DEF Runs

\* A turn of the loop of a read that fills the buffer.
LEMMA StreamFill ==
  ASSUME Safe, Safe', Unread, RecvOnce, PeersApart, [Next]_vars, copyFill,
         NEW s \in Sockets, s = theSocket, StreamOf(s)
  PROVE  StreamOf(s)'
<1>1. Base /\ Base' /\ CallTypes /\ Types /\ Interrupts /\ got \in Seq(Bytes) /\ Len(got) \in Nat
  BY DEF Safe, Base, Types, HistoryTypes
<1>2. /\ Running("copy") /\ info[s].buffer = << >> /\ Remaining(s) > 0
      /\ fillRecvBuffer(s, info[s], hif_receive_blocked) /\ UNCHANGED <<gastrSockets, got>>
  BY DEF copyFill, history
<1>3. /\ info[s] \in InfoSet /\ Head(rx).data \in Seq(Bytes) /\ Announced(info[s], Head(rx).data)
  BY <1>1, <1>2, WantedFacts
<1>4. /\ Len(info'[s].buffer) + Remaining(s)' = Remaining(s)
      /\ Len(info'[s].buffer) \in Nat /\ Remaining(s)' \in Nat
  BY <1>1, <1>2, <1>3, FillMoves DEF Remaining
<1>5. Session(s)' = Session(s)
  BY <1>2 DEF Session
<1>6. ~create /\ Copying
  BY <1>2 DEF create, Running, Copying
<1>7. Total(s)' = Total(s)
  <2>1. Len(info[s].buffer) = 0
    BY <1>2
  <2>2. Total(s)' = Len(got) + Len(info'[s].buffer) + Remaining(s)'
    BY <1>2 DEF Total
  <2>3. Total(s) = Len(got) + 0 + Remaining(s)
    BY <2>1 DEF Total
  <2> QED BY <2>2, <2>3, <1>1, <1>4
<1>8. RepliesContinue(s)' /\ SentSoFar(s)'
  BY <1>2, <1>6, <1>7, RepliesParts DEF Clean
<1>9. FirstBytes(s)'
  BY <1>1, <1>6, ReadingKept DEF FirstBytes
<1>10. GotRuns(s)'
  BY <1>2, <1>5 DEF StreamOf, GotRuns
<1>11. BufferRuns(s)' /\ RestRuns(s)'
  <2> DEFINE c == Session(s)
             n == Len(got)
  <2>1. n \in Nat
    BY <1>1
  <2>2. \A k \in 1 .. info[s].recvMsg.s16BufferSize :
          From(Head(rx).data[info[s].recvMsg.pu8Buffer + k], c, n + k)
    BY <1>2 DEF StreamOf, RestRuns, Remaining
  <2> HIDE DEF c, n
  <2>3. /\ Runs(info'[s].buffer, c, n)
        /\ \A k \in 1 .. Remaining(s)' :
             From(Head(rx').data[info'[s].recvMsg.pu8Buffer + k], c, n + Len(info'[s].buffer) + k)
    BY <2>1, <2>2, <1>1, <1>2, <1>3, FillRuns
  <2> QED BY <2>3, <1>2, <1>5 DEF BufferRuns, RestRuns, c, n
<1> QED BY <1>8, <1>9, <1>10, <1>11 DEF StreamOf

\* A reply with the next bytes of the session.
LEMMA StreamDataReply ==
  ASSUME Safe, Safe', Unread, RecvOnce, PeersApart, [Next]_vars, DataReply,
         NEW s \in Sockets, s = theSocket, s = Head(rx).sock, StreamOf(s)
  PROVE  StreamOf(s)'
<1> DEFINE data == Head(rx).data
           i == [info[s] EXCEPT !.recvMsg = [pu8Buffer |-> 0, s16BufferSize |-> Len(data)]]
<1>1. /\ Base /\ Base' /\ Sessions /\ Tidy /\ CallTypes /\ SocketTypes /\ Shape /\ Types /\ Interrupts
      /\ got \in Seq(Bytes) /\ Len(got) \in Nat
  BY DEF Safe, Base, Types, HistoryTypes
<1>2. Handling("recv") /\ fillRecvBuffer(s, i, TRUE) /\ UNCHANGED <<got, peers>>
  BY DEF DataReply, history, chipVars
<1>3. /\ i \in InfoSet /\ data \in Seq(Bytes) /\ Announced(i, data)
      /\ i.recvMsg = [pu8Buffer |-> 0, s16BufferSize |-> Len(data)]
  BY <1>1, <1>2, DataFacts
<1>4. /\ Used(s) /\ Session(s)' = Session(s) /\ NoReply("recv", Session(s))'
      /\ ~NoReply("recv", Session(s)) /\ Head(rx) \in Replies(Session(s))
  BY <1>1, HandledOnce DEF NoReply
<1>5. Clean(s) /\ ~PendingOp("connecting")
  BY <1>1, <1>4 DEF Unread, Tidy, WhileConnecting
<1>6. i.buffer = << >>
  <2>1. info[s] \in InfoSet
    BY <1>1 DEF Types, InfoTypes
  <2> QED BY <2>1, <1>5 DEF Clean, InfoSet
<1>7. Len(data) \in Nat /\ Total(s) = Len(got)
  <2>1. Len(info[s].buffer) = 0 /\ Remaining(s) = 0
    BY <1>5 DEF Clean
  <2>2. Total(s) = Len(got) + 0 + 0
    BY <2>1 DEF Total
  <2> QED BY <2>2, <1>1, <1>3
<1>8. Runs(data, Session(s), Len(got)) /\ SentIs(Session(s), Len(got) + Len(data))
  BY <1>4, <1>7 DEF StreamOf, RepliesContinue
<1> HIDE DEF i
<1>9. /\ Len(info'[s].buffer) \in Nat /\ Remaining(s)' \in Nat
      /\ Len(info'[s].buffer) + Remaining(s)' = Len(data)
  <2>1. i.recvMsg.s16BufferSize = Len(data)
    BY <1>3
  <2> QED BY <2>1, <1>1, <1>2, <1>3, <1>6, FillMoves
<1>10. GotRuns(s)'
  BY <1>2, <1>4 DEF StreamOf, GotRuns
<1>11. BufferRuns(s)' /\ RestRuns(s)'
  <2> DEFINE c == Session(s)
             n == Len(got)
  <2>1. n \in Nat
    BY <1>1
  <2>2. \A k \in 1 .. i.recvMsg.s16BufferSize : From(data[i.recvMsg.pu8Buffer + k], c, n + k)
    <3> SUFFICES ASSUME NEW k \in 1 .. Len(data) PROVE From(data[0 + k], c, n + k)
      BY <1>3
    <3> QED BY <1>8 DEF Runs
  <2> HIDE DEF c, n
  <2>3. /\ Runs(info'[s].buffer, c, n)
        /\ \A k \in 1 .. Remaining(s)' :
             From(Head(rx').data[info'[s].recvMsg.pu8Buffer + k], c, n + Len(info'[s].buffer) + k)
    BY <2>1, <2>2, <1>1, <1>2, <1>3, <1>6, FillRuns
  <2> QED BY <2>3, <1>2, <1>4 DEF BufferRuns, RestRuns, c, n
<1>12. RepliesContinue(s)'
  BY <1>4, NoRepliesParts
<1>13. SentSoFar(s)'
  <2>1. Total(s)' = Len(got) + Len(data)
    <3>1. Total(s)' = Len(got) + Len(info'[s].buffer) + Remaining(s)'
      BY <1>2 DEF Total
    <3>2. PICK g \in Nat, b \in Nat, r \in Nat :
            g = Len(got) /\ b = Len(info'[s].buffer) /\ r = Remaining(s)'
      BY <1>1, <1>9
    <3>3. \A h, m, n \in Nat : h + m + n = h + (m + n)
      OBVIOUS
    <3>4. g + b + r = g + (b + r)
      BY <3>3
    <3> QED BY <3>1, <3>2, <3>4, <1>9
  <2>2. \A r \in Sockets : peers'[r].session = Session(s)' =>
                            peers'[r].sent = Len(got) + Len(data)
    BY <1>2, <1>4, <1>8 DEF SentIs
  <2> QED BY <2>1, <2>2 DEF SentSoFar, SentIs
<1>14. FirstBytes(s)'
  <2>1. ~create
    BY <1>2 DEF create, Handling, Running
  <2> QED BY <2>1, <1>1, <1>5, ReadingKept DEF FirstBytes
<1> QED BY <1>10, <1>11, <1>12, <1>13, <1>14 DEF StreamOf

\* The first t bytes of b are moved to the end of g, which gives d and h.
Moved(g, b, t, h, d) == h = g \o SubSeq(b, 1, t) /\ d = SubSeq(b, t + 1, Len(b))

\* ... and none is lost, and their order stays.
LEMMA MovedRuns ==
  ASSUME NEW g \in Seq(Bytes), NEW b \in Seq(Bytes), NEW t \in Nat, t <= Len(b),
         NEW c, Runs(g, c, 0), Runs(b, c, Len(g)), NEW h, NEW d, Moved(g, b, t, h, d)
  PROVE  /\ Len(h) = Len(g) + t /\ Len(d) = Len(b) - t
         /\ Runs(h, c, 0) /\ Runs(d, c, Len(h))
<1>1. Len(g) \in Nat /\ Len(b) \in Nat
  OBVIOUS
<1>2. /\ SubSeq(b, 1, t) \in Seq(Bytes) /\ Len(SubSeq(b, 1, t)) = t
      /\ \A k \in 1 .. t : SubSeq(b, 1, t)[k] = b[k]
  <2>1. 1 \in Nat \ {0} /\ t - 1 + 1 = t /\ (~(1 <= t) => t = 0)
    OBVIOUS
  <2>2. /\ SubSeq(b, 1, t) \in Seq(Bytes)
        /\ Len(SubSeq(b, 1, t)) = IF 1 <= t THEN t - 1 + 1 ELSE 0
        /\ \A k \in 1 .. t - 1 + 1 : SubSeq(b, 1, t)[k] = b[1 + k - 1]
    BY <2>1, SubSeqFacts
  <2> QED BY <2>1, <2>2
<1>3. Len(d) = Len(b) - t /\ \A k \in 1 .. Len(b) - t : d[k] = b[t + k]
  <2>1. t + 1 \in Nat \ {0} /\ Len(b) \in Nat /\ Len(b) <= Len(b)
    BY <1>1
  <2>2. /\ Len(d) = IF t + 1 <= Len(b) THEN Len(b) - (t + 1) + 1 ELSE 0
        /\ \A k \in 1 .. Len(b) - (t + 1) + 1 : d[k] = b[(t + 1) + k - 1]
    BY <2>1, SubSeqFacts DEF Moved
  <2>3. Len(d) = Len(b) - t
    BY <2>2, <1>1
  <2>4. ASSUME NEW k \in 1 .. Len(b) - t PROVE d[k] = b[t + k]
    <3>1. k \in 1 .. Len(b) - (t + 1) + 1 /\ (t + 1) + k - 1 = t + k
      BY <1>1
    <3> QED BY <3>1, <2>2
  <2> QED BY <2>3, <2>4
<1>4. /\ Len(h) = Len(g) + t
      /\ \A k \in 1 .. Len(g) : h[k] = g[k]
      /\ \A k \in Len(g) + 1 .. Len(g) + t : h[k] = b[k - Len(g)]
  <2> DEFINE e == SubSeq(b, 1, t)
  <2> HIDE DEF e
  <2>1. /\ Len(g \o e) = Len(g) + Len(e)
        /\ \A k \in 1 .. Len(g) : (g \o e)[k] = g[k]
        /\ \A k \in Len(g) + 1 .. Len(g) + Len(e) : (g \o e)[k] = e[k - Len(g)]
    BY <1>2, ConcatFacts DEF e
  <2>2. Len(e) = t /\ h = g \o e
    BY <1>2 DEF e, Moved
  <2>3. ASSUME NEW k \in Len(g) + 1 .. Len(g) + t PROVE h[k] = b[k - Len(g)]
    <3>1. k - Len(g) \in 1 .. t
      BY <1>1
    <3> QED BY <3>1, <2>1, <2>2, <1>2 DEF e
  <2> QED BY <2>1, <2>2, <2>3
<1>5. Runs(h, c, 0)
  <2> SUFFICES ASSUME NEW k \in 1 .. Len(g) + t PROVE From(h[k], c, 0 + k)
    BY <1>4 DEF Runs
  <2>1. CASE k \in 1 .. Len(g)
    BY <2>1, <1>4 DEF Runs
  <2>2. CASE k \in Len(g) + 1 .. Len(g) + t
    <3>1. k - Len(g) \in 1 .. Len(b) /\ Len(g) + (k - Len(g)) = 0 + k
      BY <2>2, <1>1
    <3>2. From(b[k - Len(g)], c, Len(g) + (k - Len(g)))
      BY <3>1 DEF Runs
    <3> QED BY <3>1, <3>2, <2>2, <1>4
  <2> QED BY <2>1, <2>2, <1>1
<1>6. Runs(d, c, Len(h))
  <2> SUFFICES ASSUME NEW k \in 1 .. Len(b) - t PROVE From(d[k], c, Len(h) + k)
    BY <1>3 DEF Runs
  <2>1. t + k \in 1 .. Len(b) /\ Len(g) + (t + k) = Len(h) + k
    <3>1. PICK m \in Nat, n \in Nat : m = Len(b) /\ n = Len(g) /\ Len(h) = n + t
      BY <1>1, <1>4
    <3>2. k \in 1 .. m - t
      BY <3>1
    <3>3. t + k \in 1 .. m /\ n + (t + k) = n + t + k
      BY <3>2
    <3> QED BY <3>1, <3>3
  <2>2. From(b[t + k], c, Len(g) + (t + k))
    BY <2>1 DEF Runs
  <2> QED BY <2>1, <2>2, <1>3
<1> QED BY <1>3, <1>4, <1>5, <1>6

\* A turn of the loop of a read that copies bytes to the caller.
LEMMA StreamCopy ==
  ASSUME Safe, Safe', Unread, RecvOnce, PeersApart, [Next]_vars, copy,
         NEW s \in Sockets, s = theSocket, StreamOf(s)
  PROVE  StreamOf(s)'
<1> DEFINE b == info[s].buffer
           t == Smaller(Head(todo).arg, Len(b))
<1>1. /\ Base /\ Base' /\ CallTypes /\ SocketTypes /\ Shape /\ InfoTypes
      /\ got \in Seq(Bytes) /\ Len(got) \in Nat
  BY DEF Safe, Base, Types, HistoryTypes
<1>2. /\ Running("copy") /\ got' = got \o SubSeq(b, 1, t)
      /\ info' = [info EXCEPT ![s].buffer = SubSeq(@, t + 1, Len(@))]
      /\ UNCHANGED <<gastrSockets, rx>>
  BY DEF copy, hifQuiet
<1>3. b \in Seq(Bytes) /\ Len(b) \in Nat /\ Remaining(s) \in Nat
  BY <1>1, Lengths
<1>4. t \in Nat /\ t <= Len(b)
  <2>1. Head(todo).arg \in Nat
    BY <1>1, <1>2, RunningFacts, CallOps
  <2> QED BY <2>1, <1>3 DEF Smaller
<1> HIDE DEF t
<1>5. /\ info'[s].buffer = SubSeq(b, t + 1, Len(b)) /\ info'[s].recvMsg = info[s].recvMsg
      /\ Remaining(s)' = Remaining(s)
  <2>1. info'[s] = [info[s] EXCEPT !.buffer = SubSeq(b, t + 1, Len(b))]
    BY <1>1, <1>2 DEF InfoTypes
  <2>2. info[s] \in InfoSet
    BY <1>1 DEF InfoTypes
  <2> QED BY <2>1, <2>2 DEF InfoSet, Remaining
<1>6. Session(s)' = Session(s)
  BY <1>2 DEF Session
<1>7. /\ Len(got') = Len(got) + t /\ Len(info'[s].buffer) = Len(b) - t
      /\ Runs(got', Session(s), 0) /\ Runs(info'[s].buffer, Session(s), Len(got'))
  <2> DEFINE c == Session(s)
  <2>1. Runs(got, c, 0) /\ Runs(b, c, Len(got))
    BY DEF StreamOf, GotRuns, BufferRuns
  <2> HIDE DEF b, c
  <2>2. got \in Seq(Bytes) /\ b \in Seq(Bytes) /\ t \in Nat /\ t <= Len(b)
    BY <1>1, <1>3, <1>4
  <2>3. Moved(got, b, t, got', info'[s].buffer)
    BY <1>2, <1>5 DEF Moved
  <2>4. /\ Len(got') = Len(got) + t /\ Len(info'[s].buffer) = Len(b) - t
        /\ Runs(got', c, 0) /\ Runs(info'[s].buffer, c, Len(got'))
    BY <2>1, <2>2, <2>3, MovedRuns
  <2> QED BY <2>4 DEF c
<1>8. Len(got') + Len(info'[s].buffer) = Len(got) + Len(b)
  <2> HIDE DEF b
  <2>1. Len(got') = Len(got) + t /\ Len(info'[s].buffer) = Len(b) - t
    BY <1>7
  <2> QED BY <2>1, <1>1, <1>3, <1>4
<1>9. Total(s)' = Total(s) /\ (Clean(s) => Clean(s)')
  <2>1. Total(s)' = Total(s)
    BY <1>5, <1>8 DEF Total
  <2>2. ASSUME b = << >> PROVE info'[s].buffer = << >>
    <3>1. Len(info'[s].buffer) = 0
      BY <2>2, <1>4, <1>7
    <3>2. info'[s].buffer \in Seq(Bytes)
      <4>1. t + 1 \in Nat \ {0}
        BY <1>4
      <4> QED BY <4>1, <1>3, <1>5, SubSeqFacts
    <3> QED BY <3>1, <3>2
  <2> QED BY <2>1, <2>2, <1>5 DEF Clean
<1>10. ~create
  BY <1>2 DEF create, Running
<1>11. RepliesContinue(s)' /\ SentSoFar(s)'
  BY <1>9, <1>10, RepliesParts
<1>12. FirstBytes(s)'
  <2>1. Copying
    BY <1>2 DEF Copying
  <2> QED BY <2>1, <1>1, <1>10, ReadingKept DEF FirstBytes
<1>13. GotRuns(s)' /\ BufferRuns(s)'
  BY <1>6, <1>7 DEF GotRuns, BufferRuns
<1>14. RestRuns(s)'
  BY <1>2, <1>5, <1>6, <1>8 DEF StreamOf, RestRuns
<1> QED BY <1>11, <1>12, <1>13, <1>14 DEF StreamOf

\* A new connection begins with nothing.
LEMMA StreamCreate ==
  ASSUME Safe, [Next]_vars, create, NEW s \in Sockets, s = theSocket'
  PROVE  StreamOf(s)'
<1>1. Base /\ Sessions /\ Tidy /\ SocketTypes /\ ChipTypes
  BY DEF Safe, Base, Types
<1>2. ~Copying' /\ got' = << >> /\ NewSocket(s)
  <2>1. None \notin Sockets
    BY DEF None, Sockets
  <2>2. \A r : NewSocket(r) => r = s
    BY DEF NewSocket
  <2> QED BY <2>1, <2>2, <1>1, CreateResult
<1>3. info'[s].buffer = << >> /\ Remaining(s)' = 0 /\ Clean(s)'
  BY <1>2 DEF NewSocket, Clean
<1>4. GotRuns(s)' /\ BufferRuns(s)' /\ RestRuns(s)'
  BY <1>2, <1>3 DEF GotRuns, BufferRuns, RestRuns, Runs
<1>5. RepliesContinue(s)' /\ SentSoFar(s)'
  BY <1>2, <1>3, NoRepliesParts DEF NewSocket
<1>6. FirstBytes(s)'
  <2> SUFFICES ASSUME NEW r \in Sockets, peers'[r].session = gu16SessionID + 1
               PROVE  peers'[r].sent = 0
    BY <1>2 DEF FirstBytes, SentIs, NewSocket
  <2>1. peers[r].session # gu16SessionID + 1
    <3>1. peers[r].session \in Nat /\ peers[r].session <= gu16SessionID /\ gu16SessionID \in Nat
      BY <1>1, SocketAssumption DEF ChipTypes, SocketTypes, Sessions, PeerSessions
    <3> QED BY <3>1
  <2>2. r = s
    BY <2>1, <1>2 DEF NewSocket
  <2> QED BY <2>1, <2>2, <1>2 DEF NewSocket
<1> QED BY <1>4, <1>5, <1>6 DEF StreamOf

-----------------------------------------------------------------------------
(***************************************************************************)
(* The invariant.                                                          *)
(***************************************************************************)

Stream == \A s \in Sockets : s = theSocket => StreamOf(s)

\* Every step keeps the stream of the client's socket in order.
LEMMA StreamStep ==
  Safe /\ Safe' /\ Unread /\ RecvOnce /\ PeersApart /\ Stream /\ [Next]_vars => Stream'
<1> SUFFICES ASSUME Safe, Safe', Unread, RecvOnce, PeersApart, Stream, [Next]_vars,
                    NEW s \in Sockets, s = theSocket'
             PROVE  StreamOf(s)'
  BY DEF Stream
<1>1. Base /\ Tidy /\ Types
  BY DEF Safe, Base
<1>2. CASE create
  BY <1>2, StreamCreate
<1>3. CASE ~create
  <2>1. s = theSocket /\ StreamOf(s)
    <3>1. None \notin Sockets
      BY DEF None, Sockets
    <3> QED BY <3>1, <1>3, ClientKept DEF Stream
  <2>2. CASE copyFill
    BY <2>1, <2>2, StreamFill
  <2>3. CASE copy
    BY <2>1, <2>3, StreamCopy
  <2>4. CASE DataReply
    <3>1. CASE s = Head(rx).sock
      BY <3>1, <2>1, <2>4, StreamDataReply
    <3>2. CASE s # Head(rx).sock
      <4>1. info'[s] = info[s] /\ UNCHANGED got
        BY <3>2, <2>4, <1>1 DEF DataReply, fillRecvBuffer, history, Types, InfoTypes
      <4>2. SameData(s)
        BY <4>1 DEF SameData, Remaining
      <4> QED BY <4>1, <4>2, <2>1, <1>3, StreamKept
    <3> QED BY <3>1, <3>2
  <2>5. CASE ~copyFill /\ ~copy /\ ~DataReply
    <3>1. UNCHANGED got
      BY <2>5, <1>3, GotKept
    <3>2. SameData(s) \/ (close /\ s = Head(todo).arg /\ info'[s] = Invalid)
      BY <2>5, <1>1, <1>3, InfoKept
    <3> QED BY <3>1, <3>2, <2>1, <1>3, StreamKept, StreamClosed
  <2> QED BY <2>2, <2>3, <2>4, <2>5
<1> QED BY <1>2, <1>3

StreamInv == Safe /\ RecvOnce /\ Unread /\ PeersApart /\ Stream

\* The invariant holds initially,
LEMMA StreamInit == Init => StreamInv
<1> SUFFICES ASSUME Init PROVE StreamInv
  OBVIOUS
<1>1. Safe
  BY SafeInit
<1>2. /\ \A s \in Sockets : peers[s] = NoPeer /\ ~Used(s)
      /\ queue = << >> /\ rx = << >> /\ theSocket = None /\ todo = << >>
  BY DEF Init, HifInit, Unused, Used
<1>3. RecvOnce
  <2> SUFFICES ASSUME NEW c \in 1 .. MaxSessions PROVE OneReply("recv", c)
    BY DEF RecvOnce
  <2>1. InQueue("recv", c) = {} /\ ~InRx("recv", c) /\ Awaits("recv", c) = {}
    BY <1>2 DEF InQueue, InRx, Awaits, NoPeer
  <2> QED BY <2>1 DEF OneReply
<1>4. Unread /\ PeersApart /\ Stream
  BY <1>2 DEF Unread, PeersApart, Stream, NoPeer, None, Sockets
<1> QED BY <1>1, <1>3, <1>4 DEF StreamInv

\* is kept by every step,
LEMMA StreamInvStep == StreamInv /\ [Next]_vars => StreamInv'
<1> SUFFICES ASSUME StreamInv, [Next]_vars PROVE StreamInv'
  OBVIOUS
<1>1. Safe /\ RecvOnce /\ Unread /\ PeersApart /\ Stream /\ Base /\ Sessions /\ Tidy
  BY DEF StreamInv, Safe
<1>2. Safe' /\ Base'
  BY <1>1, SafeStep DEF Safe
<1> QED BY <1>1, <1>2, RecvOnceStep, UnreadStep, PeersApartStep, StreamStep DEF StreamInv

\* and so holds always.
LEMMA StreamInvHolds == Spec => []StreamInv
BY StreamInit, StreamInvStep, PTL DEF Spec

\* No reply with data, and no end of a connection, loses bytes of the present session that
\* the sketch could still have read: whatever failed, and whatever earlier sessions left in
\* the chip, the reply is only handled when all that came before it has been read.
THEOREM NothingOverwrittenCorrect == Spec => []ReplyFindsNothingUnread
<1>1. StreamInv => ReplyFindsNothingUnread
  BY NothingOverwritten DEF StreamInv, Safe
<1> QED BY <1>1, StreamInvHolds, PTL

\* The bytes still in the chip are a sequence.
LEMMA InChipFacts ==
  ASSUME Base, NEW s \in Sockets
  PROVE  /\ InChip(s) \in Seq(Bytes) /\ Len(InChip(s)) = Remaining(s) /\ Remaining(s) \in Nat
         /\ \A k \in 1 .. Remaining(s) :
              InChip(s)[k] = Head(rx).data[info[s].recvMsg.pu8Buffer + k]
<1>1. Types /\ Interrupts /\ Remaining(s) \in Nat /\ info[s].recvMsg.pu8Buffer \in Nat
  BY Lengths DEF Base, Types
<1>2. CASE Remaining(s) = 0
  <2>1. InChip(s) = << >>
    BY <1>2 DEF InChip, Remaining
  <2> QED BY <2>1, <1>2
<1>3. CASE Remaining(s) > 0
  <2>1. PICK a \in Nat, n \in Nat : a = info[s].recvMsg.pu8Buffer /\ n = Remaining(s)
    BY <1>1
  <2>2. PICK data \in Seq(Bytes) : data = Head(rx).data /\ a + n <= Len(data) /\ Len(data) \in Nat
    BY <2>1, <1>1, <1>3, WantedFacts DEF Announced, Remaining
  <2>3. InChip(s) = SubSeq(data, a + 1, a + n)
    <3>1. Remaining(s) # 0
      BY <1>3
    <3>2. InChip(s) = SubSeq(Head(rx).data, info[s].recvMsg.pu8Buffer + 1,
                             info[s].recvMsg.pu8Buffer + Remaining(s))
      BY <3>1 DEF InChip, Remaining
    <3> QED BY <3>2, <2>1, <2>2
  <2>4. a + 1 \in Nat \ {0} /\ a + n \in Nat /\ a + 1 <= a + n /\ (a + n) - (a + 1) + 1 = n
    <3>1. n \in Nat /\ n > 0
      BY <2>1, <1>3
    <3> QED BY <3>1
  <2>5. /\ InChip(s) \in Seq(Bytes) /\ Len(InChip(s)) = n
        /\ \A k \in 1 .. n : InChip(s)[k] = data[(a + 1) + k - 1]
    BY <2>2, <2>3, <2>4, SubSeqFacts
  <2>6. ASSUME NEW k \in 1 .. n PROVE InChip(s)[k] = data[a + k]
    <3>1. (a + 1) + k - 1 = a + k
      BY <2>6
    <3> QED BY <3>1, <2>5
  <2> QED BY <2>1, <2>2, <2>5, <2>6
<1> QED BY <1>1, <1>2, <1>3

\* Bytes that follow each other.
LEMMA JoinedRuns ==
  ASSUME NEW p \in Seq(Bytes), NEW q \in Seq(Bytes), NEW c, Runs(p, c, 0), Runs(q, c, Len(p))
  PROVE  p \o q \in Seq(Bytes) /\ Len(p \o q) = Len(p) + Len(q) /\ Runs(p \o q, c, 0)
<1>1. /\ p \o q \in Seq(Bytes) /\ Len(p \o q) = Len(p) + Len(q)
      /\ \A i \in 1 .. Len(p) : (p \o q)[i] = p[i]
      /\ \A i \in Len(p) + 1 .. Len(p) + Len(q) : (p \o q)[i] = q[i - Len(p)]
  BY ConcatFacts
<1>2. ASSUME NEW k \in 1 .. Len(p \o q) PROVE From((p \o q)[k], c, 0 + k)
  <2>1. PICK m \in Nat, n \in Nat : m = Len(p) /\ n = Len(q) /\ k \in 1 .. m + n
    BY <1>1
  <2>2. CASE k <= m
    <3>1. k \in 1 .. m
      BY <2>1, <2>2
    <3> QED BY <3>1, <2>1, <1>1 DEF Runs
  <2>3. CASE k > m
    <3>1. k \in m + 1 .. m + n /\ k - m \in 1 .. n /\ m + (k - m) = 0 + k
      BY <2>1, <2>3
    <3>2. From(q[k - m], c, m + (k - m))
      BY <3>1, <2>1 DEF Runs
    <3> QED BY <3>1, <3>2, <2>1, <1>1
  <2> QED BY <2>1, <2>2, <2>3
<1> QED BY <1>1, <1>2 DEF Runs

\* What the sketch has read, what is in the buffer and what is still in the chip are the
\* first bytes of the present session, in order and each once: whatever failed, whenever
\* a connection ended, and whatever replies of earlier sessions are still to come.
THEOREM StreamInOrderCorrect == Spec => []StreamInOrder
<1>1. StreamInv => StreamInOrder
  <2> SUFFICES ASSUME StreamInv, theSocket # None
               PROVE  LET stream == got \o info[theSocket].buffer \o InChip(theSocket)
                          session == gastrSockets[theSocket].u16SessionID
                      IN /\ \A i \in 1 .. Len(stream) : stream[i][2] = i
                         /\ session # 0 => \A i \in 1 .. Len(stream) : stream[i][1] = session
    BY DEF StreamInOrder
  <2>1. Base /\ InfoTypes /\ SocketTypes /\ got \in Seq(Bytes)
    BY DEF StreamInv, Safe, Base, Types, HistoryTypes
  <2> PICK s \in Sockets : s = theSocket
    BY <2>1, Sock
  <2> DEFINE b == info[s].buffer
             c == Session(s)
             first == got \o b
             stream == first \o InChip(s)
  <2>2. b \in Seq(Bytes) /\ StreamOf(s)
    BY <2>1, Lengths DEF StreamInv, Stream
  <2>3. Runs(got, c, 0) /\ Runs(b, c, Len(got))
    BY <2>2 DEF StreamOf, GotRuns, BufferRuns
  <2>4. InChip(s) \in Seq(Bytes) /\ Runs(InChip(s), c, Len(got) + Len(b))
    BY <2>1, <2>2, InChipFacts DEF StreamOf, RestRuns, Runs
  <2> HIDE DEF b, c
  <2>5. first \in Seq(Bytes) /\ Len(first) = Len(got) + Len(b) /\ Runs(first, c, 0)
    BY <2>1, <2>2, <2>3, JoinedRuns
  <2> HIDE DEF first
  <2>6. Runs(stream, c, 0) /\ stream \in Seq(Bytes)
    BY <2>4, <2>5, JoinedRuns
  <2> HIDE DEF stream
  <2>7. \A i \in 1 .. Len(stream) : stream[i][2] = i /\ (c # 0 => stream[i][1] = c)
    BY <2>6 DEF Runs, From
  <2> QED BY <2>7 DEF stream, first, b, c, Session
<1> QED BY <1>1, StreamInvHolds, PTL

-----------------------------------------------------------------------------
(***************************************************************************)
(* The replies to connect().  The chip answers in the order in which       *)
(* things happen: once data of a connection has come there is no answer to *)
(* an earlier connect() of the same socket behind it, which could take its *)
(* bytes away from the client and give them back.                          *)
(***************************************************************************)

\* The packets that are still to be handled, the one on offer at place 0.
Places == (IF Unhandled /\ rx # << >> THEN {0} ELSE {}) \cup 1 .. Len(queue)
PacketAt(i) == IF i = 0 THEN Head(rx) ELSE queue[i]

Answers(p, s) == p.type = "connect" /\ p.sock = s
Feeds(p, s) == p.type = "recv" /\ p.sock = s /\ p.session = Session(s)
Connecting(s) == peers[s].phase = "connecting"

Settled(s) == ~Connecting(s) /\ \A j \in Places : ~Answers(PacketAt(j), s)

InTurn ==
  \A s \in Sockets : \A i \in Places : Feeds(PacketAt(i), s) =>
    ~Connecting(s) /\ \A j \in Places : j > i => ~Answers(PacketAt(j), s)
Settles ==
  \A s \in Sockets : Used(s) /\ (~Clean(s) \/ (Copying /\ s = theSocket)) => Settled(s)

\* Only the opening of a socket makes the chip connect.
LEMMA PhaseKept ==
  ASSUME Base, [Next]_vars, ~create, NEW r \in Sockets, Connecting(r)'
  PROVE  Connecting(r)
<1> DEFINE Same(e, d) == e.phase = "connecting" => d.phase = "connecting"
<1>1. CallTypes /\ SocketTypes /\ Shape
      /\ peers \in [Sockets -> [session : 0 .. MaxSessions, phase : {"none", "connecting", "open"},
                                asked : BOOLEAN, sent : 0 .. StreamLength]]
  BY DEF Base, Types, ChipTypes
<1>2. CASE UNCHANGED peers
  BY <1>2 DEF Connecting
<1>3. ASSUME NEW s \in Sockets, NEW e, peers' = [peers EXCEPT ![s] = e], Same(e, peers[s])
      PROVE  Connecting(r)
  <2>1. peers'[r] = IF r = s THEN e ELSE peers[r]
    BY <1>3, <1>1
  <2> QED BY <2>1, <1>3 DEF Connecting
<1>4. ASSUME NEW d PROVE Same(NoPeer, d) /\ Same(d, d)
  BY DEF NoPeer
<1>5. CASE hif \/ m2m_ip_cb \/ sketch \/ OfferPacket \/ UNCHANGED vars
  BY <1>5, <1>2
  DEF hif, sketch, reader, PollEvents, Connect, Stop, Write, Read, Calls, OfferPacket, m2m_ip_cb,
      CallbackFails, ConnectReply, DataReply, DiscardReply, StatusReply, Disconnected, vars, chipVars
<1>6. CASE close \/ stopFirst \/ forget \/ connecting \/ connectFails \/ look \/ lookOpen
           \/ readStart \/ copyFill \/ copy \/ send
  BY <1>6, <1>2
  DEF close, stopFirst, forget, connecting, connectFails, look, lookOpen, Looks, readStart, copyFill,
      copy, send, chipVars
<1>7. CASE LoseLink
  <2>1. peers'[r] = NoPeer
    BY <1>7 DEF LoseLink
  <2> QED BY <2>1 DEF NoPeer, Connecting
<1>8. ASSUME NEW s \in Sockets, NEW ok \in BOOLEAN, Answer(s, ok) PROVE Connecting(r)
  <2>1. Connecting(s)
    BY <1>8 DEF Answer, Connecting
  <2>2. r # s => peers'[r] = peers[r]
    BY <1>8, <1>1 DEF Answer
  <2> QED BY <2>1, <2>2 DEF Connecting
<1>9. ASSUME NEW s \in Sockets, NEW n \in 1 .. MaxChunk, Arrive(s, n) PROVE Connecting(r)
  <2>1. peers' = [peers EXCEPT ![s] = [peers[s] EXCEPT !.asked = FALSE, !.sent = @ + n]]
    BY <1>9 DEF Arrive
  <2>2. Same([peers[s] EXCEPT !.asked = FALSE, !.sent = @ + n], peers[s])
    BY <1>1
  <2> HIDE DEF Same
  <2> QED BY <2>1, <2>2, <1>3
<1>10. ASSUME NEW s \in Sockets, Finish(s) PROVE Connecting(r)
  <2>1. peers' = [peers EXCEPT ![s] = NoPeer]
    BY <1>10 DEF Finish
  <2> HIDE DEF Same
  <2> QED BY <2>1, <1>3, <1>4
<1>11. ASSUME NEW s \in Sockets,
              \/ UNCHANGED peers
              \/ peers' = [peers EXCEPT ![s] = [peers[s] EXCEPT !.asked = TRUE]]
              \/ peers' = [peers EXCEPT ![s] = NoPeer]
              \/ peers' = [peers EXCEPT ![s] = peers[s]]
       PROVE  Connecting(r)
  <2>1. Same([peers[s] EXCEPT !.asked = TRUE], peers[s])
    BY <1>1
  <2> HIDE DEF Same
  <2> QED BY <2>1, <1>2, <1>3, <1>4, <1>11
<1>12. CASE connectDone \/ readEnd
  <2>1. theSocket \in Sockets
    BY <1>12, <1>1, RunningFacts DEF connectDone, readEnd, UsesSocket, Reading
  <2>2. \/ UNCHANGED peers
        \/ peers' = [peers EXCEPT ![theSocket] = [peers[theSocket] EXCEPT !.asked = TRUE]]
        \/ peers' = [peers EXCEPT ![theSocket] = peers[theSocket]]
    BY <1>12 DEF connectDone, readEnd, recv, Request
  <2> QED BY <2>1, <2>2, <1>11
<1>13. CASE release
  <2> DEFINE s == Head(todo).arg
  <2>1. s \in Sockets /\ closeSocket(s)
    BY <1>13, <1>1, RunningFacts DEF release, Closing
  <2> HIDE DEF s
  <2>2. \/ UNCHANGED peers
        \/ peers' = [peers EXCEPT ![s] = NoPeer]
        \/ peers' = [peers EXCEPT ![s] = peers[s]]
    BY <2>1 DEF closeSocket, Request
  <2> QED BY <2>1, <2>2, <1>11
<1> QED BY <1>5, <1>6, <1>7, <1>8, <1>9, <1>10, <1>12, <1>13 DEF Next, library, chip

\* What is to be handled after a step: what was before; or the same, each at the place
\* before its own; or the same and one more packet, at the end.
LEMMA PlacesStep ==
  ASSUME Base, [Next]_vars
  PROVE  \/ \A j \in Places' : j \in Places /\ PacketAt(j)' = PacketAt(j)
         \/ \A j \in Places' : j + 1 \in Places /\ PacketAt(j)' = PacketAt(j + 1)
         \/ \E p \in PacketSet :
              /\ \A j \in Places' : \/ j \in Places /\ PacketAt(j)' = PacketAt(j)
                                    \/ j = Len(queue) + 1 /\ PacketAt(j)' = p
              /\ p.type = "connect" => Connecting(p.sock)
              /\ p.type = "recv" => ~Connecting(p.sock)
<1>1. QueueTypes /\ Types /\ Interrupts /\ queue \in Seq(PacketSet) /\ Len(queue) \in Nat
  BY DEF Base, Types, QueueTypes
<1>2. CASE library \/ sketch \/ UNCHANGED vars
  <2>1. UNCHANGED queue /\ (Unhandled' => Unhandled /\ UNCHANGED rx)
    BY <1>2, LibraryPackets
  <2> QED BY <2>1 DEF Places, PacketAt
<1>3. CASE OfferPacket
  <2>1. queue # << >> /\ rx' = <<Head(queue)>> /\ queue' = Tail(queue)
    BY <1>3 DEF OfferPacket, Offer
  <2>2. /\ Head(rx') = queue[1] /\ Len(queue) > 0 /\ Len(queue') = Len(queue) - 1
        /\ \A i \in 1 .. Len(queue) - 1 : queue'[i] = queue[i + 1]
    BY <2>1, <1>1, TailFacts
  <2>3. ASSUME NEW j \in Places' PROVE j + 1 \in Places /\ PacketAt(j)' = PacketAt(j + 1)
    <3>1. CASE j = 0
      <4>1. 0 + 1 = 1 /\ 1 \in 1 .. Len(queue) /\ 1 # 0
        BY <2>2, <1>1
      <4> QED BY <4>1, <3>1, <2>2 DEF Places, PacketAt
    <3>2. CASE j \in 1 .. Len(queue) - 1
      <4>1. j + 1 \in 1 .. Len(queue) /\ j + 1 # 0 /\ j # 0
        BY <3>2, <1>1
      <4> QED BY <4>1, <3>2, <2>2 DEF Places, PacketAt
    <3> QED BY <3>1, <3>2, <2>2 DEF Places
  <2> QED BY <2>3
<1>4. ASSUME NEW p, p \in PacketSet, Queues(p),
             p.type = "connect" => Connecting(p.sock), p.type = "recv" => ~Connecting(p.sock)
      PROVE  \E q \in PacketSet :
               /\ \A j \in Places' : \/ j \in Places /\ PacketAt(j)' = PacketAt(j)
                                     \/ j = Len(queue) + 1 /\ PacketAt(j)' = q
               /\ q.type = "connect" => Connecting(q.sock)
               /\ q.type = "recv" => ~Connecting(q.sock)
  <2>1. /\ Len(queue') = Len(queue) + 1 /\ queue'[Len(queue) + 1] = p
        /\ \A i \in 1 .. Len(queue) : queue'[i] = queue[i]
        /\ UNCHANGED <<rx, newInterrupt, todo>>
    BY <1>1, <1>4, AppendFacts DEF Queues
  <2>2. Unhandled' = Unhandled
    BY <2>1 DEF Unhandled, Running
  <2>3. ASSUME NEW j \in Places' PROVE \/ j \in Places /\ PacketAt(j)' = PacketAt(j)
                                       \/ j = Len(queue) + 1 /\ PacketAt(j)' = p
    <3>1. j = 0 \/ j \in 1 .. Len(queue) \/ j = Len(queue) + 1
      BY <2>1, <1>1 DEF Places
    <3>2. CASE j = 0
      BY <3>2, <2>1, <2>2 DEF Places, PacketAt
    <3>3. CASE j \in 1 .. Len(queue)
      BY <3>3, <2>1 DEF Places, PacketAt
    <3>4. CASE j = Len(queue) + 1
      <4>1. j # 0
        BY <3>4, <1>1
      <4> QED BY <4>1, <3>4, <2>1 DEF PacketAt
    <3> QED BY <3>1, <3>2, <3>3, <3>4
  <2> QED BY <2>3, <1>4
<1>5. CASE LoseLink
  <2> DEFINE p == Packet("disconnected", 0, 0, FALSE, << >>)
  <2>1. p \in PacketSet /\ Queues(p)
    BY <1>5, <1>1, PacketTypes DEF LoseLink
  <2>2. p.type # "connect" /\ p.type # "recv"
    BY DEF Packet
  <2> HIDE DEF p
  <2> QED BY <2>1, <2>2, <1>4
<1>6. ASSUME NEW r \in Sockets, NEW ok \in BOOLEAN, Answer(r, ok)
      PROVE  \E p \in PacketSet : Queues(p) /\ p.type = "connect" /\ Connecting(p.sock)
  <2> DEFINE p == Packet("connect", r, peers[r].session, ok, << >>)
  <2>1. p \in PacketSet /\ Queues(p)
    BY <1>6, <1>1, PacketTypes DEF Answer
  <2>2. p.type = "connect" /\ Connecting(p.sock)
    BY <1>6 DEF Packet, Answer, Connecting
  <2> HIDE DEF p
  <2> QED BY <2>1, <2>2
<1>7. ASSUME NEW r \in Sockets, NEW p, p \in PacketSet, Queues(p), p.type = "recv", p.sock = r,
             peers[r].phase = "open"
      PROVE  \E q \in PacketSet : Queues(q) /\ q.type = "recv" /\ ~Connecting(q.sock)
  BY <1>7 DEF Connecting
<1>8. ASSUME NEW r \in Sockets, Finish(r)
      PROVE  \E p \in PacketSet : Queues(p) /\ p.type = "recv" /\ ~Connecting(p.sock)
  <2> DEFINE p == Packet("recv", r, peers[r].session, FALSE, << >>)
  <2>1. p \in PacketSet /\ Queues(p) /\ peers[r].phase = "open"
    BY <1>8, <1>1, PacketTypes DEF Finish
  <2>2. p.type = "recv" /\ p.sock = r
    BY DEF Packet
  <2> HIDE DEF p
  <2> QED BY <2>1, <2>2, <1>7
<1>9. ASSUME NEW r \in Sockets, NEW n \in 1 .. MaxChunk, Arrive(r, n)
      PROVE  \E p \in PacketSet : Queues(p) /\ p.type = "recv" /\ ~Connecting(p.sock)
  <2> DEFINE p == Packet("recv", r, peers[r].session, TRUE, Data(r, n))
  <2>1. p \in PacketSet /\ Queues(p) /\ peers[r].phase = "open"
    BY <1>9, <1>1, PacketTypes DEF Arrive
  <2>2. p.type = "recv" /\ p.sock = r
    BY DEF Packet
  <2> HIDE DEF p
  <2> QED BY <2>1, <2>2, <1>7
<1> QED BY <1>2, <1>3, <1>4, <1>5, <1>6, <1>8, <1>9 DEF Next, chip

\* A socket keeps its session until it is free, unless it is taken, and then it has nothing
\* to read and no data to come.
LEMMA SocketKept ==
  ASSUME Base, Sessions, Tidy, [Next]_vars, NEW s \in Sockets
  PROVE  \/ /\ Session(s)' \in {Session(s), 0} /\ (Used(s)' => Used(s))
            /\ Connecting(s)' => Connecting(s)
            /\ create => ~Copying' /\ (Clean(s) => Clean(s)')
         \/ create /\ NoReply("recv", Session(s))' /\ Clean(s)' /\ ~Copying'
<1>1. CASE ~create
  BY <1>1, TableKept, PhaseKept
<1>2. CASE create /\ UNCHANGED <<gastrSockets, info, peers>>
  BY <1>2, CreateResult DEF Session, Used, Connecting, Clean, Remaining
<1>3. CASE create /\ NewSocket(s)
  BY <1>3, CreateResult DEF NewSocket, Clean
<1>4. ASSUME create, NEW r \in Sockets, NewSocket(r), r # s
      PROVE  /\ Session(s)' = Session(s) /\ (Used(s)' => Used(s))
             /\ Connecting(s)' => Connecting(s)
             /\ Clean(s) => Clean(s)'
  BY <1>4 DEF NewSocket, Connecting, Clean, SameData
<1> QED BY <1>1, <1>2, <1>3, <1>4, CreateResult

\* A packet to be handled is of a session that is or was there.
PlacesKnown ==
  \A i \in Places :
    /\ PacketAt(i) \in PacketSet /\ Known(PacketAt(i))
    /\ i \in Nat /\ i <= Len(queue) /\ Len(queue) \in Nat
    /\ \A s \in Sockets : NoReply("recv", Session(s)) => ~Feeds(PacketAt(i), s)

\* Every packet to be handled is typed, its session has begun, and it counts as a reply.
LEMMA PlaceFacts == Base /\ Sessions => PlacesKnown
<1> SUFFICES ASSUME Base, Sessions, NEW i \in Places
             PROVE  /\ PacketAt(i) \in PacketSet /\ Known(PacketAt(i))
                    /\ i \in Nat /\ i <= Len(queue) /\ Len(queue) \in Nat
                    /\ \A s \in Sockets : NoReply("recv", Session(s)) => ~Feeds(PacketAt(i), s)
  BY DEF PlacesKnown
<1>1. queue \in Seq(PacketSet) /\ rx \in Seq(PacketSet) /\ Len(queue) \in Nat
  BY DEF Base, Types, QueueTypes
<1>2. CASE i = 0 /\ Unhandled /\ rx # << >>
  <2>1. Head(rx) \in PacketSet
    BY <1>1, <1>2, TailFacts
  <2> QED BY <1>1, <1>2, <2>1
      DEF PacketAt, Sessions, PacketSessions, NoReply, InRx, Feeds, Matches
<1>3. CASE i \in 1 .. Len(queue)
  <2>1. i # 0 /\ i \in Nat /\ i <= Len(queue) /\ queue[i] \in PacketSet
    BY <1>1, <1>3
  <2>2. PacketAt(i) = queue[i] /\ Known(queue[i])
    BY <1>3, <2>1 DEF PacketAt, Sessions, PacketSessions
  <2>3. \A s \in Sockets : NoReply("recv", Session(s)) => ~Feeds(queue[i], s)
    BY <1>3 DEF NoReply, InQueue, Feeds, Matches
  <2> QED BY <1>1, <2>1, <2>2, <2>3
<1> QED BY <1>2, <1>3 DEF Places

\* The same after a step.
LEMMA PlaceFactsAfter == Base' /\ Sessions' => PlacesKnown'
<1>1. Base /\ Sessions => PlacesKnown
  BY PlaceFacts
<1> QED BY <1>1, PTL

\* Where nothing is to be answered, nothing will be.
LEMMA SettledStep ==
  ASSUME Base, Sessions, [Next]_vars, NEW s \in Sockets, Settled(s), Connecting(s)' => Connecting(s)
  PROVE  Settled(s)'
<1>1. ~Connecting(s)'
  BY DEF Settled
<1>2. ASSUME NEW j \in Places' PROVE ~Answers(PacketAt(j)', s)
  <2>1. CASE j \in Places /\ PacketAt(j)' = PacketAt(j)
    BY <2>1 DEF Settled
  <2>2. CASE j + 1 \in Places /\ PacketAt(j)' = PacketAt(j + 1)
    BY <2>2 DEF Settled
  <2>3. ASSUME NEW p, PacketAt(j)' = p, p.type = "connect" => Connecting(p.sock)
        PROVE  ~Answers(PacketAt(j)', s)
    BY <2>3 DEF Settled, Answers
  <2> QED BY <2>1, <2>2, <2>3, PlacesStep
<1> QED BY <1>1, <1>2 DEF Settled, Answers

\* The chip answers in turn.
LEMMA InTurnStep ==
  Base /\ Base' /\ Sessions /\ Sessions' /\ Tidy /\ InTurn /\ [Next]_vars => InTurn'
<1> SUFFICES ASSUME Base, Base', Sessions, Sessions', Tidy, InTurn, [Next]_vars,
                    NEW s \in Sockets, NEW i \in Places', Feeds(PacketAt(i), s)'
             PROVE  /\ ~Connecting(s)'
                    /\ \A j \in Places' : j > i => ~Answers(PacketAt(j), s)'
  BY DEF InTurn
<1>1. PlacesKnown /\ PlacesKnown'
  BY PlaceFacts, PlaceFactsAfter
<1>2. \A j \in Places : j \in Nat /\ j <= Len(queue) /\ Len(queue) \in Nat
  BY <1>1 DEF PlacesKnown
<1> DEFINE p == PacketAt(i)'
<1>3. p.type = "recv" /\ p.sock = s /\ p.session = Session(s)' /\ p.session # 0
  <2>1. Known(PacketAt(i))'
    BY <1>1 DEF PlacesKnown
  <2> QED BY <2>1 DEF Feeds, Known
<1>4. Session(s)' = Session(s) /\ (Connecting(s)' => Connecting(s))
  <2>1. ~NoReply("recv", Session(s))'
    BY <1>1 DEF PlacesKnown
  <2> QED BY <2>1, <1>3, SocketKept
<1>5. ASSUME NEW k \in Places, PacketAt(k) = p
      PROVE  ~Connecting(s) /\ \A j \in Places : j > k => ~Answers(PacketAt(j), s)
  <2>1. Feeds(PacketAt(k), s)
    BY <1>3, <1>4, <1>5 DEF Feeds
  <2> QED BY <2>1 DEF InTurn
<1> HIDE DEF p
<1>6. PacketAt(i)' = p
  BY DEF p
<1>7. CASE \A j \in Places' : j \in Places /\ PacketAt(j)' = PacketAt(j)
  <2>1. PacketAt(i) = p /\ i \in Places
    BY <1>6, <1>7
  <2>2. ~Connecting(s) /\ \A j \in Places : j > i => ~Answers(PacketAt(j), s)
    BY <2>1, <1>5
  <2> QED BY <2>2, <1>4, <1>7 DEF Answers
<1>8. CASE \A j \in Places' : j + 1 \in Places /\ PacketAt(j)' = PacketAt(j + 1)
  <2>1. PacketAt(i + 1) = p /\ i + 1 \in Places
    BY <1>6, <1>8
  <2>2. ~Connecting(s) /\ \A j \in Places : j > i + 1 => ~Answers(PacketAt(j), s)
    BY <2>1, <1>5
  <2>3. ASSUME NEW j \in Places', j > i PROVE ~Answers(PacketAt(j), s)'
    <3>1. j \in Nat /\ i \in Nat
      BY <1>1 DEF PlacesKnown
    <3>2. j + 1 > i + 1 /\ j + 1 \in Places
      BY <3>1, <2>3, <1>8
    <3> QED BY <3>2, <2>2, <1>8 DEF Answers
  <2> QED BY <2>2, <2>3, <1>4
<1>9. ASSUME NEW q,
             \A j \in Places' : \/ j \in Places /\ PacketAt(j)' = PacketAt(j)
                                \/ j = Len(queue) + 1 /\ PacketAt(j)' = q,
             q.type = "connect" => Connecting(q.sock), q.type = "recv" => ~Connecting(q.sock)
      PROVE  ~Connecting(s)' /\ \A j \in Places' : j > i => ~Answers(PacketAt(j), s)'
  <2>1. CASE i \in Places /\ PacketAt(i) = p
    <3>1. ~Connecting(s) /\ \A j \in Places : j > i => ~Answers(PacketAt(j), s)
      BY <2>1, <1>5
    <3>2. ~Answers(q, s)
      BY <3>1, <1>9 DEF Answers
    <3> QED BY <3>1, <3>2, <1>4, <1>9 DEF Answers
  <2>2. CASE i = Len(queue) + 1 /\ p = q
    <3>1. ~Connecting(s)
      BY <2>2, <1>3, <1>9
    <3>2. ASSUME NEW j \in Places', j > i PROVE FALSE
      <4>1. Len(queue) \in Nat
        BY DEF Base, Types, QueueTypes
      <4>2. j \in Places \/ j = Len(queue) + 1
        BY <1>9
      <4> QED BY <4>1, <4>2, <3>2, <2>2, <1>2
    <3> QED BY <3>1, <3>2, <1>4
  <2> QED BY <2>1, <2>2, <1>6, <1>9
<1> QED BY <1>7, <1>8, <1>9, PlacesStep

\* Unread bytes came of a reply, behind which there is no answer to a connect().
LEMMA SettlesStep ==
  Base /\ Sessions /\ Tidy /\ InTurn /\ Settles /\ [Next]_vars => Settles'
<1> SUFFICES ASSUME Base, Sessions, Tidy, InTurn, Settles, [Next]_vars, NEW s \in Sockets,
                    Used(s)', ~Clean(s)' \/ (Copying' /\ s = theSocket')
             PROVE  Settled(s)'
  BY DEF Settles
<1>1. /\ Used(s) /\ (Connecting(s)' => Connecting(s))
      /\ create => ~Copying' /\ (Clean(s) => Clean(s)')
  BY SocketKept
<1>2. CASE ~Clean(s) \/ (Copying /\ s = theSocket)
  BY <1>1, <1>2, SettledStep DEF Settles
<1>3. CASE DataReply /\ s = Head(rx).sock
  <2>1. /\ Running("callback") /\ rx # << >> /\ Head(rx).type = "recv"
        /\ Head(rx).session = Session(s)
    BY <1>3, HeadPacket DEF DataReply, Handling, sameSession, Session, Base, Types
  <2>2. 0 \in Places /\ PacketAt(0) = Head(rx) /\ \A j \in Places : j = 0 \/ j > 0
    <3>1. \A j \in Places : j \in Nat
      BY PlaceFacts DEF PlacesKnown
    <3> QED BY <2>1, <3>1 DEF Places, PacketAt, Unhandled
  <2>3. Feeds(PacketAt(0), s)
    BY <2>1, <2>2, <1>3 DEF Feeds
  <2>4. ~Connecting(s) /\ \A j \in Places : j > 0 => ~Answers(PacketAt(j), s)
    BY <2>2, <2>3 DEF InTurn
  <2>5. ~Answers(PacketAt(0), s)
    BY <2>1, <2>2 DEF Answers
  <2>6. Settled(s)
    BY <2>2, <2>4, <2>5 DEF Settled
  <2> QED BY <2>6, <1>1, SettledStep
<1>4. create \/ ~create
  OBVIOUS
<1> QED BY <1>1, <1>2, <1>3, <1>4, UnreadFrom

\* A connection is only made when the one before has been given up.
CreateAlone ==
  PendingOp("create") => PendingOp("forget") \/ (Running("create") /\ ~ClientConnected)
\* The pending calls stay, and none of those before them opens a socket.
Carries == Rest \subseteq Pending' /\ \A c \in Pending' : c \in Rest \/ c.op # "create"

\* So it is after a step that returns, or goes on with something else.
LEMMA CarriesOn ==
  ASSUME CallTypes, Shape, todo # << >>
  PROVE  /\ Returns \/ GoesOnWith(AllClosed) => Carries
         /\ \A a \in CallSet : GoesOnWith(<<a>>) /\ a.op # "create" => Carries
         /\ \A a, b \in CallSet :
              GoesOnWith(<<a, b>>) /\ a.op # "create" /\ b.op # "create" => Carries
         /\ \A a, b, c \in CallSet :
              /\ GoesOnWith(<<a, b, c>>) /\ a.op # "create" /\ b.op # "create" /\ c.op # "create"
              => Carries
<1>1. Returns \/ GoesOnWith(AllClosed) => Carries
  BY After DEF Carries
<1>2. ASSUME NEW a \in CallSet, GoesOnWith(<<a>>), a.op # "create" PROVE Carries
  BY <1>2, After DEF Carries
<1>3. ASSUME NEW a \in CallSet, NEW b \in CallSet, GoesOnWith(<<a, b>>),
             a.op # "create", b.op # "create"
      PROVE  Carries
  BY <1>3, After DEF Carries
<1>4. ASSUME NEW a \in CallSet, NEW b \in CallSet, NEW c \in CallSet, GoesOnWith(<<a, b, c>>),
             a.op # "create", b.op # "create", c.op # "create"
      PROVE  Carries
  BY <1>4, After DEF Carries
<1> QED BY <1>1, <1>2, <1>3, <1>4

\* It stays so: a connect() closes the connection there is before it opens another one.
LEMMA CreateAloneStep ==
  ASSUME Base, [Next]_vars, CreateAlone
  PROVE  CreateAlone'
<1>1. CallTypes /\ SocketTypes /\ Shape /\ Types /\ Interrupts
  BY DEF Base, Types
<1>2. /\ Events \in CallSet /\ Events.op = "events"
      /\ \A o \in {"forget", "create", "connecting"} :
           Call(o, 0) \in CallSet /\ Call(o, 0).op = o
      /\ \A o \in {"close", "release"} : \A s \in Sockets : Call(o, s) \in CallSet /\ Call(o, s).op = o
  BY CallTyped DEF Ops, Closing, Final
<1>3. ASSUME NEW op, Running(op), op \notin {"forget", "create"}, Carries, PendingOp("create")'
      PROVE  PendingOp("forget")'
  <2>1. Head(todo).op = op /\ Pending = {Head(todo)} \cup Rest
    BY <1>3, <1>1, Below
  <2>2. PendingOp("create") /\ ~Running("create")
    BY <2>1, <1>3 DEF Carries, PendingOp, Running
  <2>3. PendingOp("forget")
    BY <2>2 DEF CreateAlone
  <2> QED BY <2>1, <2>3, <1>3 DEF Carries, PendingOp
<1>4. CASE \/ hif \/ CallbackFails \/ connecting \/ look \/ lookOpen \/ readStart \/ send
           \/ PollEvents \/ Write \/ reader \/ (Connect /\ theSocket # None)
  <2>1. Keeps
    BY <1>4, PassiveSteps DEF Passive
  <2>2. ~Running("create")
    BY <1>4
    DEF hif, HifStep, hif_handle_isr, FalseInterrupt, ClearFails, hif_isr, hif_isrEnd, CallbackFails,
        connecting, look, lookOpen, Looks, readStart, send, PollEvents, Write, reader, Read, Connect,
        Calls, Idle, Running
  <2> QED BY <2>1, <2>2 DEF Keeps, CreateAlone
<1>5. CASE chip \/ UNCHANGED vars
  <2>1. UNCHANGED <<todo, theSocket, info>>
    <3>1. "recv" \in {"connect", "recv"} /\ 1 \in Nat \ {0}
      OBVIOUS
    <3>2. chip => UNCHANGED <<todo, theSocket, info>>
      BY <3>1, ChipPackets
    <3> QED BY <3>2, <1>5 DEF vars, hifVars, socketVars
  <2> QED BY <2>1 DEF CreateAlone, PendingOp, Pending, Running, ClientConnected, Connected
<1>6. CASE ConnectReply \/ DataReply \/ DiscardReply \/ StatusReply \/ Disconnected
  <2>1. Running("callback") /\ todo # << >>
    BY <1>6 DEF ConnectReply, DataReply, DiscardReply, StatusReply, Disconnected, Handling, Running
  <2>2. Head(rx).sock \in Sockets
    BY <2>1, <1>1, HeadPacket DEF Types
  <2>3. Returns \/ GoesOnWith(AllClosed) \/ GoesOnWith(<<Events, Call("close", Head(rx).sock)>>)
    BY <1>6 DEF ConnectReply, DataReply, DiscardReply, StatusReply, Disconnected
  <2>4. Carries
    BY <2>1, <2>2, <2>3, <1>1, <1>2, CarriesOn
  <2> QED BY <2>1, <2>4, <1>3 DEF CreateAlone
<1>7. CASE close
  <2>1. /\ Running("close") /\ todo # << >> /\ Head(todo).arg \in Sockets
        /\ GoesOnWith(<<Call("release", Head(todo).arg)>>)
    BY <1>7, <1>1, RunningFacts DEF close, Closing
  <2>2. Carries
    BY <2>1, <1>1, <1>2, CarriesOn
  <2> QED BY <2>1, <2>2, <1>3 DEF CreateAlone
<1>8. CASE release \/ connectDone
  <2>1. PICK op \in {"release", "connecting"} : Running(op) /\ todo # << >> /\ Returns
    BY <1>8 DEF release, connectDone, Running
  <2>2. Carries
    BY <2>1, <1>1, CarriesOn
  <2> QED BY <2>1, <2>2, <1>3 DEF CreateAlone
<1>9. CASE connectFails
  <2>1. Running("connecting") /\ todo # << >> /\ theSocket \in Sockets
    BY <1>9, <1>1, RunningFacts DEF connectFails, UsesSocket
  <2>2. GoesOnWith(<<Events, Call("close", theSocket), Call("forget", 0)>>)
    BY <1>9 DEF connectFails
  <2>3. Carries
    BY <2>1, <2>2, <1>1, <1>2, CarriesOn
  <2> QED BY <2>1, <2>3, <1>3 DEF CreateAlone
<1>10. CASE copyFill \/ copy \/ readEnd
  <2>1. PICK op \in {"copy", "readEnd"} : Running(op) /\ todo # << >>
    BY <1>10 DEF copyFill, copy, readEnd, Running
  <2>2. CASE UNCHANGED todo
    <3>1. Pending' = {Head(todo)} \cup Rest /\ Head(todo).op = op
      BY <2>1, <2>2, <1>1, Below DEF Pending
    <3> QED BY <3>1, <2>1, <2>2, <1>3 DEF Carries, CreateAlone
  <2>3. CASE Returns
    <3>1. Carries
      BY <2>1, <2>3, <1>1, CarriesOn
    <3> QED BY <3>1, <2>1, <1>3 DEF CreateAlone
  <2>4. CASE GoesOnWith(<<Events>>)
    <3>1. Carries
      BY <2>1, <2>4, <1>1, <1>2, CarriesOn
    <3> QED BY <3>1, <2>1, <1>3 DEF CreateAlone
  <2>5. CASE copy
    <3> DEFINE n == Head(todo).arg - Smaller(Head(todo).arg, Len(info[theSocket].buffer))
    <3>1. Returns \/ GoesOnWith(<<Call("copy", n)>>)
      BY <2>5 DEF copy
    <3>2. n \in Nat
      <4>1. Head(todo).arg \in Nat /\ theSocket \in Sockets
        BY <2>1, <1>1, RunningFacts, CallOps DEF UsesSocket, Reading
      <4> QED BY <4>1, <1>1, Lengths DEF Smaller, Types
    <3> HIDE DEF n
    <3>3. Call("copy", n) \in CallSet /\ Call("copy", n).op = "copy"
      BY <3>2, CallTyped DEF Ops, Closing, Reading
    <3>4. Carries
      BY <3>1, <3>3, <2>1, <1>1, CarriesOn
    <3> QED BY <3>4, <2>1, <1>3 DEF CreateAlone
  <2> QED BY <2>2, <2>3, <2>4, <2>5, <1>10 DEF copyFill, readEnd
<1>11. CASE forget
  <2>1. /\ Running("forget") /\ todo # << >> /\ Pending' = Rest
        /\ todo' # << >> => Head(todo') \in Rest
    BY <1>11, <1>1, ReturnsPending DEF forget, Running
  <2>2. \A c \in Rest : c.op = "create"
    BY <2>1, <1>1, Below DEF Follows
  <2>3. PendingOp("create")' => todo' # << >>
    BY DEF PendingOp, Pending
  <2>4. ~ClientConnected'
    BY <1>11 DEF forget, ClientConnected
  <2> QED BY <2>1, <2>2, <2>3, <2>4 DEF CreateAlone, Running
<1>12. CASE stopFirst
  <2>1. Running("stopFirst") /\ todo # << >> /\ theSocket \in Sockets
    BY <1>12, <1>1, RunningFacts DEF stopFirst, UsesSocket
  <2>2. CASE GoesOnWith(<<Events, Call("close", theSocket), Call("forget", 0), Call("create", 0)>>)
    <3>1. Call("forget", 0) \in Pending'
      BY <2>1, <2>2, <1>1, <1>2, After
    <3> QED BY <3>1, <1>2 DEF CreateAlone, PendingOp
  <2>3. CASE ~Connected(theSocket)
    <3>1. GoesOnWith(<<Call("create", 0)>>)
      BY <2>3, <1>12 DEF stopFirst
    <3>2. todo' # << >> /\ Head(todo') = Call("create", 0)
      BY <3>1, <2>1, <1>1, <1>2, NextIs
    <3>3. Running("create")'
      BY <3>2, <1>2 DEF Running
    <3>4. UNCHANGED <<theSocket, info>>
      BY <1>12 DEF stopFirst, socketVars
    <3> QED BY <3>3, <3>4, <2>3 DEF CreateAlone, ClientConnected, Connected
  <2> QED BY <2>2, <2>3, <1>12 DEF stopFirst
<1>13. CASE Stop \/ (Connect /\ theSocket = None)
  <2>1. /\ Idle /\ UNCHANGED theSocket
        /\ \/ todo' = <<Events, Call("close", theSocket), Call("forget", 0)>>
           \/ todo' = <<Call("create", 0)>> /\ theSocket = None
    BY <1>13 DEF Stop, Connect, Calls, socketVars
  <2>2. CASE todo' = <<Call("create", 0)>> /\ theSocket = None
    <3>1. Running("create")'
      BY <2>2 DEF Running, Call
    <3> QED BY <3>1, <2>1, <2>2 DEF CreateAlone, ClientConnected
  <2>3. CASE todo' = <<Events, Call("close", theSocket), Call("forget", 0)>>
    <3>1. Call("forget", 0) \in Pending'
      BY <2>1, <2>3, Started
    <3> QED BY <3>1, <1>2 DEF CreateAlone, PendingOp
  <2> QED BY <2>1, <2>2, <2>3
<1>14. CASE create
  <2>1. Running("create") /\ todo # << >> /\ Rest = {}
    BY <1>14, <1>1, Below DEF create, Final
  <2>2. CASE Returns
    BY <2>1, <2>2, <1>1, After DEF CreateAlone, PendingOp
  <2>3. CASE GoesOnWith(<<Events, Call("connecting", 0)>>)
    <3>1. Carries
      BY <2>1, <2>3, <1>1, <1>2, CarriesOn
    <3> QED BY <3>1, <2>1 DEF Carries, CreateAlone, PendingOp
  <2>4. ASSUME NEW s \in Sockets, GoesOnWith(<<Events, Call("close", s), Call("forget", 0)>>)
        PROVE  CreateAlone'
    <3>1. Carries
      BY <2>1, <2>4, <1>1, <1>2, CarriesOn
    <3> QED BY <3>1, <2>1 DEF Carries, CreateAlone, PendingOp
  <2> QED BY <2>2, <2>3, <2>4, <1>14 DEF create, createFails, createOn
<1>15. (Connect /\ theSocket # None) \/ (Connect /\ theSocket = None) \/ ~Connect
  OBVIOUS
<1> QED BY <1>4, <1>5, <1>6, <1>7, <1>8, <1>9, <1>10, <1>11, <1>12, <1>13, <1>14, <1>15
    DEF Next, library, sketch, m2m_ip_cb

\* A socket stays connected, or not, except by the answer to a connect(), the end of the
\* wait for it, a close and the opening of a socket.
LEMMA StateKept ==
  ASSUME Base, [Next]_vars, NEW s \in Sockets, ~create, ~close, ~connectFails,
         ConnectReply => s # Head(rx).sock
  PROVE  Connected(s)' <=> Connected(s)
<1>1. /\ CallTypes /\ SocketTypes /\ Shape /\ Types /\ Interrupts
      /\ info \in [Sockets -> InfoSet]
  BY DEF Base, Types, InfoTypes
<1>2. CASE UNCHANGED info
  BY <1>2 DEF Connected
<1>3. ASSUME NEW r \in Sockets, NEW i, info' = [info EXCEPT ![r] = i], i.state = info[r].state
      PROVE  Connected(s)' <=> Connected(s)
  <2>1. info'[s] = IF s = r THEN i ELSE info[s]
    BY <1>1, <1>3
  <2> QED BY <2>1, <1>3 DEF Connected
<1>4. CASE hif \/ CallbackFails \/ DiscardReply \/ StatusReply \/ Disconnected \/ sketch \/ chip
           \/ UNCHANGED vars
  BY <1>4, <1>2
  DEF hif, sketch, reader, PollEvents, Connect, Stop, Write, Read, Calls, chip, OfferPacket, LoseLink,
      Answer, Arrive, Finish, Queues, CallbackFails, DiscardReply, StatusReply, Disconnected, vars,
      socketVars
<1>5. CASE release \/ stopFirst \/ forget \/ connecting \/ look \/ lookOpen \/ readStart \/ readEnd
           \/ send
  BY <1>5, <1>2
  DEF release, stopFirst, forget, connecting, look, lookOpen, Looks, readStart, readEnd, send, socketVars
<1>6. CASE ConnectReply
  <2>1. info'[s] = info[s]
    BY <1>6, <1>1 DEF ConnectReply
  <2> QED BY <2>1 DEF Connected
<1>7. CASE connectDone
  <2>1. theSocket \in Sockets
    BY <1>7, <1>1, RunningFacts DEF connectDone, UsesSocket
  <2>2. [info[theSocket] EXCEPT !.recvMsg.s16BufferSize = 0].state = info[theSocket].state
    BY <2>1, <1>1 DEF InfoSet
  <2> QED BY <2>1, <2>2, <1>3, <1>7 DEF connectDone
<1>8. CASE copy
  <2>1. theSocket \in Sockets
    BY <1>8, <1>1, RunningFacts DEF copy, UsesSocket, Reading
  <2> DEFINE r == theSocket
             toCopy == Smaller(Head(todo).arg, Len(info[r].buffer))
             b == SubSeq(info[r].buffer, toCopy + 1, Len(info[r].buffer))
  <2>2. info' = [info EXCEPT ![r] = [info[r] EXCEPT !.buffer = b]]
    BY <1>8 DEF copy
  <2> HIDE DEF b
  <2>3. [info[r] EXCEPT !.buffer = b].state = info[r].state
    BY <2>1, <1>1 DEF InfoSet
  <2> QED BY <2>1, <2>2, <2>3, <1>3
<1>9. CASE copyFill
  <2>1. /\ theSocket \in Sockets /\ Remaining(theSocket) > 0
        /\ fillRecvBuffer(theSocket, info[theSocket], hif_receive_blocked)
    BY <1>9, <1>1, RunningFacts DEF copyFill, UsesSocket, Reading
  <2>2. /\ info[theSocket] \in InfoSet /\ Head(rx).data \in Seq(Bytes)
        /\ Announced(info[theSocket], Head(rx).data)
    BY <2>1, <1>1, WantedFacts
  <2>3. \E j \in InfoSet : info' = [info EXCEPT ![theSocket] = j] /\ j.state = info[theSocket].state
    BY <2>1, <2>2, <1>1, FillResult
  <2> QED BY <2>1, <2>3, <1>3
<1>10. CASE DataReply
  <2> DEFINE q == Head(rx)
             i == [info[q.sock] EXCEPT !.recvMsg =
                     [pu8Buffer |-> 0, s16BufferSize |-> Len(q.data)]]
  <2>1. Handling("recv") /\ fillRecvBuffer(q.sock, i, TRUE)
    BY <1>10 DEF DataReply
  <2>2. /\ q.sock \in Sockets /\ q.data \in Seq(Bytes) /\ i \in InfoSet /\ Announced(i, q.data)
        /\ i.state = info[q.sock].state
    BY <2>1, <1>1, DataFacts
  <2>3. PICK r \in Sockets : r = q.sock
    BY <2>2
  <2>4. i \in InfoSet /\ Head(rx).data \in Seq(Bytes) /\ Announced(i, Head(rx).data)
        /\ fillRecvBuffer(r, i, TRUE) /\ i.state = info[r].state
    BY <2>1, <2>2, <2>3
  <2> HIDE DEF i
  <2>5. PICK blocked : fillRecvBuffer(r, i, blocked)
    BY <2>4
  <2>6. \E j \in InfoSet : info' = [info EXCEPT ![r] = j] /\ j.state = i.state
    BY <2>4, <2>5, <1>1, FillResult
  <2> QED BY <2>4, <2>6, <1>3
<1> QED BY <1>4, <1>5, <1>6, <1>7, <1>8, <1>9, <1>10 DEF Next, library, m2m_ip_cb

\* A read goes on only while the socket is connected.
CopyConnected == Copying => Connected(theSocket)

\* It begins when the socket is connected, and no event is handled until it ends.
LEMMA CopyConnectedStep ==
  ASSUME Base, Sessions, Tidy, [Next]_vars, CopyConnected
  PROVE  CopyConnected'
<1>1. CallTypes /\ SocketTypes /\ Shape /\ Types /\ Interrupts
  BY DEF Base, Types
<1>2. CASE create
  BY <1>2, CreateResult DEF CopyConnected
<1>3. CASE ConnectReply
  <2>1. Running("callback") /\ Returns
    BY <1>3 DEF ConnectReply, Handling
  <2> QED BY <2>1, <1>1, NoReadingAfter DEF NoReading, CopyConnected
<1>4. CASE close
  <2>1. /\ Running("close") /\ Head(todo).arg \in Sockets
        /\ GoesOnWith(<<Call("release", Head(todo).arg)>>)
    BY <1>4, <1>1, RunningFacts DEF close, Closing
  <2>2. /\ Call("release", Head(todo).arg) \in CallSet
        /\ Call("release", Head(todo).arg).op = "release"
    BY <2>1, CallTyped DEF Closing
  <2> QED BY <2>1, <2>2, <1>1, NoReadingAfterTuples DEF NoReading, CopyConnected
<1>5. CASE connectFails
  <2>1. /\ Running("connecting") /\ theSocket \in Sockets
        /\ GoesOnWith(<<Events, Call("close", theSocket), Call("forget", 0)>>)
    BY <1>5, <1>1, RunningFacts DEF connectFails, UsesSocket
  <2>2. /\ Events \in CallSet /\ Events.op = "events"
        /\ Call("close", theSocket) \in CallSet /\ Call("close", theSocket).op = "close"
        /\ Call("forget", 0) \in CallSet /\ Call("forget", 0).op = "forget"
    BY <2>1, CallTyped DEF Ops, Closing
  <2> QED BY <2>1, <2>2, <1>1, NoReadingAfterTuples DEF NoReading, CopyConnected
<1>6. CASE ~create /\ ~ConnectReply /\ ~close /\ ~connectFails
  <2> SUFFICES ASSUME Copying' PROVE Connected(theSocket)'
    BY DEF CopyConnected
  <2>1. theSocket' = theSocket /\ (Copying \/ availableOn(theSocket) > 0)
    BY <1>6, ReadingKept
  <2>2. Connected(theSocket)
    BY <2>1 DEF CopyConnected, availableOn
  <2>3. theSocket \in Sockets
    <3>1. PICK op \in {"copy", "readEnd"} : Running(op)'
      BY DEF Copying
    <3>2. (CallTypes /\ SocketTypes /\ Shape)'
      BY BaseStep DEF Base, Types
    <3>3. theSocket' # None
      BY <3>1, <3>2 DEF Running, CallTypes, Shape, UsesSocket, Reading
    <3> QED BY <2>1, <3>3, <1>1, Sock
  <2>4. Connected(theSocket)' <=> Connected(theSocket)
    <3>1. PICK s \in Sockets : s = theSocket
      BY <2>3
    <3>2. Connected(s)' <=> Connected(s)
      BY <1>6, StateKept
    <3> QED BY <3>1, <3>2, <2>1 DEF Connected
  <2> QED BY <2>2, <2>4
<1> QED BY <1>2, <1>3, <1>4, <1>5, <1>6

-----------------------------------------------------------------------------
(***************************************************************************)
(* The client's connection is a ClientStream.                              *)
(***************************************************************************)

ClientSent == Len(got) + IF ClientConnected THEN availableOn(theSocket) ELSE 0

\* A new connection begins with nothing, and the one before was given up.
LEMMA ClientCreate ==
  ASSUME Safe, CreateAlone, [Next]_vars, create
  PROVE  Client!Next
<1>1. Base /\ Sessions /\ Tidy /\ CallTypes /\ SocketTypes /\ Shape
  BY DEF Safe, Base, Types
<1>2. ~ClientConnected
  <2>1. Running("create") /\ Pending = {Head(todo)} /\ Head(todo).op = "create"
    BY <1>1, Below DEF create, Final
  <2> QED BY <2>1 DEF CreateAlone, PendingOp
<1>3. Len(got') = 0
  BY <1>1, CreateResult
<1>4. ClientConnected' => availableOn(theSocket)' = 0
  <2>1. CASE theSocket' = None
    BY <2>1 DEF ClientConnected
  <2>2. ASSUME NEW s \in Sockets, NewSocket(s) PROVE availableOn(theSocket)' = 0
    <3>1. theSocket' = s /\ Len(info'[s].buffer) = 0 /\ Remaining(s)' = 0
      BY <2>2 DEF NewSocket
    <3> QED BY <3>1 DEF availableOn, Remaining
  <2> QED BY <2>1, <2>2, <1>1, CreateResult
<1>5. ClientSent' = 0
  BY <1>3, <1>4 DEF ClientSent
<1>6. ClientConnected' \in BOOLEAN
  BY DEF ClientConnected, Connected
<1>7. CASE ClientConnected'
  BY <1>2, <1>3, <1>5, <1>7 DEF ClientSent, Client!Next, Client!Open
<1>8. CASE ~ClientConnected'
  <2>1. ClientConnected' = ClientConnected
    BY <1>2, <1>8 DEF ClientConnected, Connected
  <2> QED BY <2>1, <1>2, <1>3, <1>5, <1>8 DEF ClientSent, Client!Next, Client!Forget
<1> QED BY <1>7, <1>8

\* What is copied had arrived.
LEMMA ClientCopy ==
  ASSUME Safe, CopyConnected, [Next]_vars, copy
  PROVE  [Client!Next]_(Client!streamVars)
<1>1. /\ Base /\ CallTypes /\ SocketTypes /\ Shape /\ InfoTypes
      /\ got \in Seq(Bytes) /\ Len(got) \in Nat
  BY DEF Safe, Base, Types, HistoryTypes
<1>2. PICK s \in Sockets : s = theSocket
  BY <1>1, RunningFacts DEF copy, UsesSocket, Reading
<1> DEFINE b == info[s].buffer
           t == Smaller(Head(todo).arg, Len(b))
<1>3. /\ Running("copy") /\ got' = got \o SubSeq(b, 1, t)
      /\ info' = [info EXCEPT ![s].buffer = SubSeq(@, t + 1, Len(@))]
      /\ UNCHANGED theSocket
  BY <1>2 DEF copy, hifQuiet
<1>4. b \in Seq(Bytes) /\ Len(b) \in Nat /\ Remaining(s) \in Nat
  BY <1>1, Lengths
<1>5. t \in Nat /\ t <= Len(b)
  <2>1. Head(todo).arg \in Nat
    BY <1>1, <1>3, RunningFacts, CallOps
  <2> QED BY <2>1, <1>4 DEF Smaller
<1> HIDE DEF t
<1>6. /\ info'[s].buffer = SubSeq(b, t + 1, Len(b)) /\ Remaining(s)' = Remaining(s)
      /\ Connected(s)' = Connected(s)
  <2>1. info'[s] = [info[s] EXCEPT !.buffer = SubSeq(b, t + 1, Len(b))]
    BY <1>1, <1>3 DEF InfoTypes
  <2>2. info[s] \in InfoSet
    BY <1>1 DEF InfoTypes
  <2> QED BY <2>1, <2>2 DEF InfoSet, Remaining, Connected
<1> HIDE DEF b
<1>7. Len(got') = Len(got) + t /\ Len(info'[s].buffer) = Len(b) - t
  <2>1. 1 \in Nat \ {0} /\ t + 1 \in Nat \ {0} /\ t - 1 + 1 = t /\ (t + 1 <= Len(b) <=> t # Len(b))
    BY <1>4, <1>5
  <2>2. SubSeq(b, 1, t) \in Seq(Bytes) /\ Len(SubSeq(b, 1, t)) = t
    BY <2>1, <1>4, <1>5, SubSeqFacts
  <2>3. Len(got \o SubSeq(b, 1, t)) = Len(got) + t
    BY <2>2, <1>1, ConcatFacts
  <2>4. Len(SubSeq(b, t + 1, Len(b))) = IF t + 1 <= Len(b) THEN Len(b) - (t + 1) + 1 ELSE 0
    BY <2>1, <1>4, SubSeqFacts
  <2>5. \A l, k \in Nat : k <= l => (IF k + 1 <= l THEN l - (k + 1) + 1 ELSE 0) = l - k
    OBVIOUS
  <2>6. Len(SubSeq(b, t + 1, Len(b))) = Len(b) - t
    BY <2>4, <2>5, <1>4, <1>5
  <2> QED BY <2>3, <2>6, <1>3, <1>6
<1>8. ClientConnected /\ ClientConnected'
  <2>1. Connected(s)
    BY <1>2, <1>3 DEF CopyConnected, Copying
  <2>2. s # None
    BY DEF Sockets, None
  <2> QED BY <2>1, <2>2, <1>2, <1>3, <1>6 DEF ClientConnected, Connected
<1>9. /\ ClientSent = Len(got) + (Len(b) + Remaining(s))
      /\ ClientSent' = Len(got') + (Len(info'[s].buffer) + Remaining(s))
  BY <1>2, <1>3, <1>6, <1>8 DEF ClientSent, ClientConnected, availableOn, Connected, Remaining, b
<1>10. ClientSent' = ClientSent /\ Len(got') <= ClientSent /\ ClientSent \in Nat
  <2>1. \A g, l, m, k \in Nat : k <= l =>
          g + k + (l - k + m) = g + (l + m) /\ g + k <= g + (l + m) /\ g + (l + m) \in Nat
    OBVIOUS
  <2>2. ClientSent' = Len(got) + t + (Len(b) - t + Remaining(s)) /\ Len(got') = Len(got) + t
    BY <1>7, <1>9
  <2>3. /\ Len(got) + t + (Len(b) - t + Remaining(s)) = Len(got) + (Len(b) + Remaining(s))
        /\ Len(got) + t <= Len(got) + (Len(b) + Remaining(s))
        /\ Len(got) + (Len(b) + Remaining(s)) \in Nat
    BY <2>1, <1>1, <1>4, <1>5
  <2> QED BY <2>2, <2>3, <1>9
<1>11. CASE t = 0
  <2>1. Len(got') = Len(got)
    BY <1>1, <1>7, <1>11
  <2> QED BY <2>1, <1>8, <1>10 DEF ClientSent, Client!streamVars
<1>12. CASE t > 0
  <2>1. Len(got') \in Len(got) + 1 .. ClientSent
    BY <1>1, <1>5, <1>7, <1>10, <1>12
  <2> QED BY <2>1, <1>8, <1>10 DEF ClientSent, Client!Next, Client!Take
<1> QED BY <1>5, <1>11, <1>12

\* The bytes of a packet, or the rest of one, move on; the reply is handled when there is
\* nothing unread.
LEMMA ClientFills ==
  ASSUME Safe, Unread, RecvOnce, [Next]_vars, DataReply \/ copyFill,
         NEW s \in Sockets, s = theSocket
  PROVE  LET a == Len(info[s].buffer) + Remaining(s)
             b == Len(info'[s].buffer) + Remaining(s)'
         IN a \in Nat /\ b \in Nat /\ a <= b
<1>1. /\ Base /\ Sessions /\ Tidy /\ Types /\ Interrupts /\ InfoTypes
  BY DEF Safe, Base, Types
<1>2. Len(info[s].buffer) \in Nat /\ Remaining(s) \in Nat
  BY <1>1, Lengths
<1>3. CASE copyFill
  <2>1. /\ info[s].buffer = << >> /\ Remaining(s) > 0
        /\ fillRecvBuffer(s, info[s], hif_receive_blocked)
    BY <1>3 DEF copyFill
  <2>2. /\ info[s] \in InfoSet /\ Head(rx).data \in Seq(Bytes) /\ Announced(info[s], Head(rx).data)
    BY <2>1, <1>1, WantedFacts
  <2>3. /\ Len(info'[s].buffer) + Remaining(s)' = Remaining(s)
        /\ Len(info'[s].buffer) \in Nat /\ Remaining(s)' \in Nat
    BY <2>1, <2>2, <1>1, FillMoves DEF Remaining
  <2>4. Len(info[s].buffer) = 0
    BY <2>1
  <2> QED BY <2>3, <2>4, <1>2
<1>4. CASE DataReply /\ s # Head(rx).sock
  <2>1. info'[s] = info[s]
    BY <1>1, <1>4 DEF DataReply, fillRecvBuffer, InfoTypes
  <2> QED BY <2>1, <1>2 DEF Remaining
<1>5. CASE DataReply /\ s = Head(rx).sock
  <2> DEFINE data == Head(rx).data
             i == [info[s] EXCEPT !.recvMsg = [pu8Buffer |-> 0, s16BufferSize |-> Len(data)]]
  <2>1. Handling("recv") /\ fillRecvBuffer(s, i, TRUE)
    BY <1>5 DEF DataReply
  <2>2. /\ i \in InfoSet /\ data \in Seq(Bytes) /\ Announced(i, data)
        /\ i.recvMsg = [pu8Buffer |-> 0, s16BufferSize |-> Len(data)]
    BY <2>1, <1>1, <1>5, DataFacts
  <2>3. Clean(s)
    <3>1. sameSession(Head(rx))
      BY <1>5 DEF DataReply
    <3> QED BY <2>1, <3>1, <1>1, <1>5, NothingOverwritten DEF ReplyFindsNothingUnread, Clean
  <2>4. i.buffer = << >>
    <3>1. info[s] \in InfoSet
      BY <1>1 DEF InfoTypes
    <3> QED BY <3>1, <2>3 DEF Clean, InfoSet
  <2>5. i.recvMsg.s16BufferSize = Len(data)
    BY <2>2
  <2> HIDE DEF i
  <2>6. /\ Len(info'[s].buffer) \in Nat /\ Remaining(s)' \in Nat
        /\ Len(info'[s].buffer) + Remaining(s)' = Len(data)
    BY <2>1, <2>2, <2>4, <2>5, <1>1, FillMoves
  <2>7. Len(info[s].buffer) = 0 /\ Remaining(s) = 0
    BY <2>3 DEF Clean
  <2> QED BY <2>6, <2>7
<1> QED BY <1>3, <1>4, <1>5

\* An answer to connect() finds nothing unread.
LEMMA ClientConnects ==
  ASSUME Safe, Settles, [Next]_vars, ConnectReply, NEW s \in Sockets, s = Head(rx).sock
  PROVE  Clean(s) /\ Clean(s)'
<1>1. Base /\ Tidy /\ Types /\ Interrupts
  BY DEF Safe, Base
<1>2. Clean(s)
  <2> SUFFICES ASSUME ~Clean(s) PROVE FALSE
    OBVIOUS
  <2>1. Used(s)
    BY <1>1 DEF Tidy, UnusedClean
  <2>2. Settled(s)
    BY <2>1 DEF Settles
  <2>3. Running("callback") /\ rx # << >> /\ Head(rx).type = "connect"
    BY <1>1, HeadPacket DEF ConnectReply, Handling, Types
  <2>4. 0 \in Places /\ PacketAt(0) = Head(rx)
    BY <2>3 DEF Places, PacketAt, Unhandled
  <2> QED BY <2>2, <2>3, <2>4 DEF Settled, Answers
<1>3. ~create /\ ~DataReply /\ ~copyFill /\ ~copy /\ ~close
  BY DEF ConnectReply, create, DataReply, Handling, copyFill, copy, close, Running
<1>4. SameData(s)
  BY <1>1, <1>3, InfoKept
<1> QED BY <1>2, <1>4 DEF SameData, Clean

\* Every step is one of a ClientStream, or leaves it alone.
LEMMA ClientStep ==
  ASSUME Safe, Unread, RecvOnce, Settles, CreateAlone, CopyConnected, [Next]_vars
  PROVE  [Client!Next]_(Client!streamVars)
<1>1. Base /\ Tidy /\ SocketTypes /\ InfoTypes /\ got \in Seq(Bytes) /\ Len(got) \in Nat
  BY DEF Safe, Base, Types, HistoryTypes
<1> SUFFICES ASSUME ~create, ~copy PROVE [Client!Next]_(Client!streamVars)
  BY ClientCreate, ClientCopy
<1>2. UNCHANGED got
  BY GotKept
<1>3. CASE ~ClientConnected'
  <2>1. ClientSent' = Len(got)
    BY <1>1, <1>2, <1>3 DEF ClientSent
  <2>2. CASE ClientConnected
    BY <2>1, <2>2, <1>2, <1>3 DEF ClientSent, Client!Next, Client!Drop
  <2>3. CASE ~ClientConnected
    <3>1. ClientSent = Len(got) /\ ClientConnected' = ClientConnected
      BY <2>3, <1>1, <1>3 DEF ClientSent, ClientConnected, Connected
    <3> QED BY <3>1, <2>1, <1>2 DEF ClientSent, Client!streamVars
  <2> QED BY <2>2, <2>3
<1>4. CASE ClientConnected'
  <2>1. PICK s \in Sockets : s = theSocket /\ theSocket' = s /\ Connected(s)'
    <3>1. theSocket' # None /\ Connected(theSocket)'
      BY <1>4 DEF ClientConnected
    <3>2. theSocket' = theSocket
      BY <3>1, ClientKept
    <3>3. theSocket \in Sockets
      BY <3>1, <3>2, <1>1, Sock
    <3> QED BY <3>1, <3>2, <3>3 DEF Connected
  <2> DEFINE a == Len(info[s].buffer) + Remaining(s)
  <2>2. s # None
    BY DEF Sockets, None
  <2>3. ClientSent' = Len(got) + (Len(info'[s].buffer) + Remaining(s)')
    BY <2>1, <1>2, <1>4 DEF ClientSent, availableOn, Connected, Remaining
  <2>4. CASE Connected(s)
    <3>1. ClientConnected /\ ClientConnected' = ClientConnected
      BY <2>1, <2>2, <2>4, <1>4 DEF ClientConnected, Connected
    <3>2. ClientSent = Len(got) + a
      BY <2>1, <2>4, <3>1 DEF ClientSent, availableOn
    <3>3. ASSUME NEW b \in Nat, b = Len(info'[s].buffer) + Remaining(s)', a \in Nat, a <= b
          PROVE  [Client!Next]_(Client!streamVars)
      <4> HIDE DEF a
      <4>1. CASE a = b
        <5>1. ClientSent' = ClientSent
          BY <4>1, <3>2, <3>3, <2>3
        <5> QED BY <5>1, <3>1, <1>2 DEF ClientSent, Client!streamVars
      <4>2. CASE a < b
        <5>1. ClientSent' > ClientSent
          BY <4>2, <3>2, <3>3, <2>3, <1>1
        <5> QED BY <5>1, <3>1, <1>2 DEF ClientSent, Client!Next, Client!Arrive
      <4> QED BY <4>1, <4>2, <3>3
    <3>4. CASE DataReply \/ copyFill
      <4>1. PICK b : b = Len(info'[s].buffer) + Remaining(s)'
        OBVIOUS
      <4>2. a \in Nat /\ b \in Nat /\ a <= b
        BY <4>1, <3>4, <2>1, ClientFills
      <4> HIDE DEF a
      <4> QED BY <4>1, <4>2, <3>3
    <3>5. CASE ~DataReply /\ ~copyFill
      <4>1. SameData(s) \/ info'[s] = Invalid
        BY <3>5, <1>1, InfoKept
      <4>2. info'[s] # Invalid
        BY <2>1 DEF Connected, Invalid
      <4>3. a \in Nat
        BY <1>1, Lengths
      <4>4. a = Len(info'[s].buffer) + Remaining(s)' /\ a <= a
        BY <4>1, <4>2, <4>3 DEF SameData
      <4> HIDE DEF a
      <4> QED BY <4>3, <4>4, <3>3
    <3> QED BY <3>4, <3>5
  <2>5. CASE ~Connected(s)
    <3>1. ~ClientConnected
      BY <2>1, <2>5 DEF ClientConnected
    <3>2. ~close
      <4>1. ASSUME close PROVE info'[s] = info[s] \/ info'[s] = Invalid
        BY <4>1, <1>1 DEF close, closed, InfoTypes
      <4> QED BY <4>1, <2>1, <2>5 DEF Connected, Invalid
    <3>3. ~connectFails
      <4>1. ASSUME connectFails PROVE info'[s] = [info[s] EXCEPT !.state = "IDLE"]
        BY <4>1, <2>1, <1>1 DEF connectFails, InfoTypes
      <4>2. [info[s] EXCEPT !.state = "IDLE"].state = "IDLE"
        BY <1>1 DEF InfoTypes, InfoSet
      <4> QED BY <4>1, <4>2, <2>1 DEF Connected
    <3>4. ConnectReply /\ s = Head(rx).sock
      BY <3>2, <3>3, <2>1, <2>5, <1>1, StateKept
    <3>5. Clean(s)'
      BY <3>4, ClientConnects
    <3>6. Len(info'[s].buffer) = 0 /\ Remaining(s)' = 0
      BY <3>5 DEF Clean
    <3>7. ClientSent' = Len(got')
      BY <3>6, <2>3, <1>1, <1>2
    <3> QED BY <3>1, <3>7, <1>2, <1>4 DEF ClientSent, Client!Next, Client!Open
  <2> QED BY <2>4, <2>5
<1> QED BY <1>3, <1>4

ClientInv == StreamInv /\ InTurn /\ Settles /\ CreateAlone /\ CopyConnected

\* The invariant holds initially, and there is no connection yet,
LEMMA ClientInit == Init => ClientInv /\ Client!Init
<1> SUFFICES ASSUME Init PROVE ClientInv /\ Client!Init
  OBVIOUS
<1>1. StreamInv
  BY StreamInit
<1>2. /\ todo = << >> /\ queue = << >> /\ rx = << >> /\ theSocket = None /\ got = << >>
      /\ \A s \in Sockets : info[s] = Invalid /\ ~Used(s)
  BY DEF Init, HifInit, Used, Unused
<1>3. InTurn /\ Settles
  <2>1. Places = {}
    BY <1>2 DEF Places
  <2> QED BY <2>1, <1>2 DEF InTurn, Settles
<1>4. CreateAlone /\ CopyConnected
  BY <1>2, NothingPending DEF Idle, CreateAlone, PendingOp, CopyConnected, Copying, Running
<1>5. ~ClientConnected /\ Len(got) = 0
  BY <1>2 DEF ClientConnected
<1>6. ClientSent = 0
  BY <1>5 DEF ClientSent
<1>7. ClientConnected \in BOOLEAN
  BY DEF ClientConnected, Connected
<1>8. Client!Init
  BY <1>5, <1>6, <1>7 DEF ClientSent, Client!Init
<1> QED BY <1>1, <1>3, <1>4, <1>8 DEF ClientInv

\* and is kept by every step.
LEMMA ClientInvStep == ClientInv /\ [Next]_vars => ClientInv'
<1> SUFFICES ASSUME ClientInv, [Next]_vars PROVE ClientInv'
  OBVIOUS
<1>1. Safe /\ Base /\ Sessions /\ Tidy
  BY DEF ClientInv, StreamInv, Safe
<1>2. StreamInv'
  BY StreamInvStep DEF ClientInv
<1>3. Base' /\ Sessions'
  BY <1>2 DEF StreamInv, Safe
<1>4. InTurn' /\ Settles'
  BY <1>1, <1>3, InTurnStep, SettlesStep DEF ClientInv
<1>5. CreateAlone' /\ CopyConnected'
  BY <1>1, CreateAloneStep, CopyConnectedStep DEF ClientInv
<1> QED BY <1>2, <1>4, <1>5 DEF ClientInv

\* A client of the library is a ClientStream, whatever fails and whatever becomes of its
\* connections: bytes become available only while it is connected, each is read once and
\* after it has become available, and when the connection ends, what is left is gone.
THEOREM ClientStreamImplemented == Spec => ImplementsClientStream
<1>1. Init => ClientInv /\ Client!Init
  BY ClientInit
<1>2. ClientInv /\ [Next]_vars => ClientInv'
  BY ClientInvStep
<1>3. ClientInv /\ [Next]_vars => [Client!Next]_(Client!streamVars)
  BY ClientStep DEF ClientInv, StreamInv
<1> QED BY <1>1, <1>2, <1>3, PTL DEF Spec, ImplementsClientStream, Client!Spec
=============================================================================
