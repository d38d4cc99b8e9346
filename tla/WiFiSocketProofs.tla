-------------------------- MODULE WiFiSocketProofs --------------------------
(***************************************************************************)
(* Theorems about the WiFi library: its types, and the host interface.     *)
(*                                                                         *)
(* The invariant has three parts.  Types are those of TypeOK, with what is *)
(* left to be read of a packet inside that packet.  Shape says which calls *)
(* may be pending below which, so that a step that returns is known not to *)
(* go on with, say, another callback.  Interrupts is InterruptMatchesPacket*)
(* and, of the flags and the packet, what the functions of m2m_hif.c rely  *)
(* on when they call each other.                                           *)
(***************************************************************************)
EXTENDS WiFiSocket, SequenceTheorems, TLAPS

-----------------------------------------------------------------------------
(***************************************************************************)
(* Sequences.                                                              *)
(***************************************************************************)

\* A sequence without its first element, and that element.
LEMMA TailFacts ==
  ASSUME NEW S, NEW q \in Seq(S), q # << >>
  PROVE  /\ Tail(q) \in Seq(S) /\ Len(Tail(q)) = Len(q) - 1
         /\ \A i \in 1 .. Len(q) - 1 : Tail(q)[i] = q[i + 1]
         /\ Head(q) = q[1] /\ Head(q) \in S /\ Len(q) \in Nat /\ Len(q) > 0
OBVIOUS

\* A sequence followed by another.
LEMMA ConcatFacts ==
  ASSUME NEW S, NEW p \in Seq(S), NEW q \in Seq(S)
  PROVE  /\ p \o q \in Seq(S) /\ Len(p \o q) = Len(p) + Len(q)
         /\ \A i \in 1 .. Len(p) : (p \o q)[i] = p[i]
         /\ \A i \in Len(p) + 1 .. Len(p) + Len(q) : (p \o q)[i] = q[i - Len(p)]
BY ConcatProperties

\* A sequence with one more element.
LEMMA AppendFacts ==
  ASSUME NEW S, NEW q \in Seq(S), NEW a \in S
  PROVE  /\ Append(q, a) \in Seq(S) /\ Len(Append(q, a)) = Len(q) + 1
         /\ \A i \in 1 .. Len(q) : Append(q, a)[i] = q[i]
         /\ Append(q, a)[Len(q) + 1] = a
OBVIOUS

\* A part of a sequence.
LEMMA SubSeqFacts ==
  ASSUME NEW S, NEW q \in Seq(S), NEW a \in Nat \ {0}, NEW b \in Nat, b <= Len(q)
  PROVE  /\ SubSeq(q, a, b) \in Seq(S)
         /\ Len(SubSeq(q, a, b)) = IF a <= b THEN b - a + 1 ELSE 0
         /\ \A i \in 1 .. b - a + 1 : SubSeq(q, a, b)[i] = q[a + i - 1]
BY SubSeqProperties

-----------------------------------------------------------------------------
(***************************************************************************)
(* The pending calls.                                                      *)
(***************************************************************************)

Reading == {"look", "lookOpen", "readStart", "copy", "readEnd", "send"}
Final == {"connecting", "stopFirst", "create"}
Closing == {"close", "release"}
Ops == {"events", "isr", "callback", "isrEnd", "forget"} \cup Closing \cup Reading \cup Final

CallSet == [op : Ops \ Closing, arg : Nat] \cup [op : Closing, arg : Sockets]

CallTypes == todo \in Seq(CallSet)

\* Calls of which b may be pending after a, however far.
Follows(a, b) ==
  /\ b \notin {"isr", "callback", "release", "copy"}
  /\ b = "readEnd" => a = "copy"
  /\ a \notin Final
  /\ a \in Reading => b \in Reading \cup {"events"}
  /\ a = "forget" => b = "create"

Ordered(q) == \A i, j \in 1 .. Len(q) : i < j => Follows(q[i].op, q[j].op)

UsesSocket == Reading \cup {"connecting", "stopFirst", "forget"}
MakesSocket == {"stopFirst", "create"}

Shape ==
  /\ Ordered(todo)
  /\ \A i \in 1 .. Len(todo) :
       /\ todo[i].op \in UsesSocket => theSocket # None
       /\ todo[i].op \in MakesSocket => gu16SessionID < MaxSessions

\* What may take the place of the head h of the list, whose socket is there.
Replaces(calls, h) ==
  /\ calls \in Seq(CallSet)
  /\ Ordered(calls)
  /\ \A i \in 1 .. Len(calls) :
       \A b \in Ops : Follows(h, b) => Follows(calls[i].op, b)
  /\ \A i \in 1 .. Len(calls) :
       /\ calls[i].op \in UsesSocket => theSocket' # None
       /\ calls[i].op \in MakesSocket => gu16SessionID' < MaxSessions

\* What a pending call is made of.
LEMMA CallOps ==
  ASSUME NEW c \in CallSet
  PROVE  c.op \in Ops /\ c.arg \in Nat /\ (c.op \in Closing => c.arg \in Sockets)
BY SocketAssumption DEF CallSet, Sockets, Ops, Closing

\* A step that puts calls before what is left to do keeps the order of the calls, if
\* they may come where the present one is, and if the client has the socket they use.
LEMMA GoesOn ==
  ASSUME CallTypes, Shape, todo # << >>, NEW calls, Replaces(calls, Head(todo).op),
         GoesOnWith(calls),
         theSocket # None => theSocket' # None \/ \A i \in 2 .. Len(todo) : todo[i].op = "create",
         gu16SessionID' = gu16SessionID \/ Len(todo) = 1
  PROVE  CallTypes' /\ Shape'
<1> DEFINE t == Tail(todo)
<1>1. /\ t \in Seq(CallSet) /\ Len(t) = Len(todo) - 1 /\ Len(t) \in Nat
      /\ \A i \in 1 .. Len(t) : t[i] = todo[i + 1]
      /\ Head(todo) = todo[1] /\ Head(todo) \in CallSet /\ Len(todo) \in Nat /\ Len(todo) > 0
  BY TailFacts DEF CallTypes
<1>2. calls \in Seq(CallSet) /\ Len(calls) \in Nat
  BY DEF Replaces
<1>3. /\ calls \o t \in Seq(CallSet) /\ Len(calls \o t) = Len(calls) + Len(t)
      /\ \A i \in 1 .. Len(calls) : (calls \o t)[i] = calls[i]
      /\ \A i \in Len(calls) + 1 .. Len(calls) + Len(t) : (calls \o t)[i] = t[i - Len(calls)]
  BY <1>1, <1>2, ConcatFacts
<1> HIDE DEF t
<1>4. todo' = calls \o t
  BY DEF GoesOnWith, t
<1>5. CallTypes'
  BY <1>3, <1>4 DEF CallTypes
<1>6. \A i \in 2 .. Len(todo) : todo[i].op \in Ops /\ Follows(Head(todo).op, todo[i].op)
  <2> TAKE i \in 2 .. Len(todo)
  <2>1. i \in 1 .. Len(todo) /\ 1 \in 1 .. Len(todo) /\ 1 < i
    BY <1>1
  <2>2. todo[i] \in CallSet
    BY <2>1, <1>1 DEF CallTypes
  <2> QED BY <2>1, <2>2, <1>1, CallOps DEF Shape, Ordered
<1>7. ASSUME NEW i \in 1 .. Len(calls \o t), i > Len(calls)
      PROVE  /\ (calls \o t)[i] = todo[i - Len(calls) + 1]
             /\ i - Len(calls) + 1 \in 2 .. Len(todo)
  <2>1. i \in Len(calls) + 1 .. Len(calls) + Len(t) /\ i - Len(calls) \in 1 .. Len(t)
    BY <1>1, <1>2, <1>3, <1>7
  <2>2. (calls \o t)[i] = t[i - Len(calls)]
    BY <2>1, <1>3
  <2>3. t[i - Len(calls)] = todo[(i - Len(calls)) + 1]
    BY <2>1, <1>1
  <2>4. (i - Len(calls)) + 1 \in 2 .. Len(todo)
    BY <2>1, <1>1, <1>2
  <2> QED BY <2>2, <2>3, <2>4
<1>8. ASSUME NEW i \in 1 .. Len(calls \o t), NEW j \in 1 .. Len(calls \o t), i < j
      PROVE  Follows((calls \o t)[i].op, (calls \o t)[j].op)
  <2>1. CASE j <= Len(calls)
    BY <1>2, <1>3, <1>8, <2>1 DEF Replaces, Ordered
  <2>2. CASE i <= Len(calls) /\ j > Len(calls)
    <3>1. (calls \o t)[j] = todo[j - Len(calls) + 1] /\ j - Len(calls) + 1 \in 2 .. Len(todo)
      BY <2>2, <1>7
    <3>2. (calls \o t)[i] = calls[i] /\ i \in 1 .. Len(calls)
      BY <1>2, <1>3, <1>8, <2>2
    <3> QED BY <3>1, <3>2, <1>6 DEF Replaces
  <2>3. CASE i > Len(calls)
    <3>1. (calls \o t)[j] = todo[j - Len(calls) + 1] /\ j - Len(calls) + 1 \in 2 .. Len(todo)
      BY <2>3, <1>8, <1>7, <1>2, <1>3, <1>1
    <3>2. (calls \o t)[i] = todo[i - Len(calls) + 1] /\ i - Len(calls) + 1 \in 2 .. Len(todo)
      BY <2>3, <1>7
    <3> DEFINE k == i - Len(calls) + 1
               l == j - Len(calls) + 1
    <3>3. k < l /\ k \in 1 .. Len(todo) /\ l \in 1 .. Len(todo)
      BY <1>2, <1>8, <1>3, <1>1, <3>1, <3>2
    <3> HIDE DEF k, l
    <3>4. Follows(todo[k].op, todo[l].op)
      BY <3>3 DEF Shape, Ordered
    <3> QED BY <3>1, <3>2, <3>4 DEF k, l
  <2> QED BY <2>1, <2>2, <2>3, <1>2, <1>8, <1>3
<1>9. ASSUME NEW i \in 1 .. Len(calls \o t)
      PROVE  /\ (calls \o t)[i].op \in UsesSocket => theSocket' # None
             /\ (calls \o t)[i].op \in MakesSocket => gu16SessionID' < MaxSessions
  <2>1. CASE i <= Len(calls)
    BY <1>2, <1>3, <2>1 DEF Replaces
  <2>2. CASE i > Len(calls)
    <3> DEFINE k == i - Len(calls) + 1
    <3>1. (calls \o t)[i] = todo[k] /\ k \in 2 .. Len(todo)
      BY <1>7, <2>2
    <3> HIDE DEF k
    <3>2. k \in 1 .. Len(todo) /\ Len(todo) # 1
      BY <3>1, <1>1
    <3>3. /\ todo[k].op \in UsesSocket => theSocket # None
          /\ todo[k].op \in MakesSocket => gu16SessionID < MaxSessions
      BY <3>2 DEF Shape
    <3>4. todo[k].op \in UsesSocket => theSocket' # None
      BY <3>1, <3>3 DEF UsesSocket, Reading
    <3> QED BY <3>1, <3>2, <3>3, <3>4
  <2> QED BY <2>1, <2>2, <1>2, <1>3
<1> QED BY <1>4, <1>5, <1>8, <1>9 DEF Shape, Ordered

\* So does a step that only returns.
LEMMA Return ==
  ASSUME CallTypes, Shape, todo # << >>, Returns,
         theSocket # None => theSocket' # None \/ \A i \in 2 .. Len(todo) : todo[i].op = "create",
         gu16SessionID' = gu16SessionID \/ Len(todo) = 1
  PROVE  CallTypes' /\ Shape'
<1>1. Replaces(<< >>, Head(todo).op)
  BY DEF Replaces, Ordered
<1>2. Tail(todo) \in Seq(CallSet)
  BY TailFacts DEF CallTypes
<1>3. GoesOnWith(<< >>)
  BY <1>2, ConcatEmptySeq DEF GoesOnWith, Returns
<1> QED BY <1>1, <1>3, GoesOn

\* So does a call of the sketch.
LEMMA Calling ==
  ASSUME NEW calls, Replaces(calls, "create"), todo' = calls
  PROVE  CallTypes' /\ Shape'
BY DEF Replaces, CallTypes, Shape

\* The lists of calls there are.
LEMMA CallTyped ==
  /\ Events \in CallSet /\ Events.op = "events"
  /\ \A op \in Ops \ Closing : \A n \in Nat :
       Call(op, n) \in CallSet /\ Call(op, n).op = op /\ Call(op, n).arg = n
  /\ \A op \in Closing : \A s \in Sockets :
       Call(op, s) \in CallSet /\ Call(op, s).op = op /\ Call(op, s).arg = s
BY DEF Events, Call, CallSet, Ops, Closing, Reading, Final

\* One call that may come where h is, and likewise for two and more.
LEMMA One ==
  ASSUME NEW a \in CallSet, NEW h,
         \A b \in Ops : Follows(h, b) => Follows(a.op, b),
         a.op \in UsesSocket => theSocket' # None,
         a.op \in MakesSocket => gu16SessionID' < MaxSessions
  PROVE  Replaces(<<a>>, h)
<1>1. <<a>> \in Seq(CallSet) /\ Len(<<a>>) = 1 /\ <<a>>[1] = a
  OBVIOUS
<1> QED BY <1>1 DEF Replaces, Ordered

\* Two calls, in order, that may come where h is.
LEMMA Two ==
  ASSUME NEW a \in CallSet, NEW b \in CallSet, NEW h,
         Follows(a.op, b.op),
         \A x \in Ops : Follows(h, x) => Follows(a.op, x) /\ Follows(b.op, x),
         a.op \in UsesSocket \/ b.op \in UsesSocket => theSocket' # None,
         a.op \in MakesSocket \/ b.op \in MakesSocket => gu16SessionID' < MaxSessions
  PROVE  Replaces(<<a, b>>, h)
<1>1. <<a, b>> \in Seq(CallSet) /\ Len(<<a, b>>) = 2 /\ <<a, b>>[1] = a /\ <<a, b>>[2] = b
  OBVIOUS
<1> QED BY <1>1 DEF Replaces, Ordered

\* Three calls, in order, none of which opens a socket.
LEMMA Three ==
  ASSUME NEW a \in CallSet, NEW b \in CallSet, NEW c \in CallSet, NEW h,
         Follows(a.op, b.op), Follows(a.op, c.op), Follows(b.op, c.op),
         \A x \in Ops : Follows(h, x) =>
            Follows(a.op, x) /\ Follows(b.op, x) /\ Follows(c.op, x),
         theSocket' # None, {a.op, b.op, c.op} \cap MakesSocket = {}
  PROVE  Replaces(<<a, b, c>>, h)
<1>1. /\ <<a, b, c>> \in Seq(CallSet) /\ Len(<<a, b, c>>) = 3
      /\ <<a, b, c>>[1] = a /\ <<a, b, c>>[2] = b /\ <<a, b, c>>[3] = c
  OBVIOUS
<1> QED BY <1>1 DEF Replaces, Ordered

\* Four calls, in order, of which only the last may open a socket.
LEMMA Four ==
  ASSUME NEW a \in CallSet, NEW b \in CallSet, NEW c \in CallSet, NEW d \in CallSet, NEW h,
         Follows(a.op, b.op), Follows(a.op, c.op), Follows(a.op, d.op),
         Follows(b.op, c.op), Follows(b.op, d.op), Follows(c.op, d.op),
         \A x \in Ops : Follows(h, x) =>
            Follows(a.op, x) /\ Follows(b.op, x) /\ Follows(c.op, x) /\ Follows(d.op, x),
         theSocket' # None,
         {a.op, b.op, c.op, d.op} \cap MakesSocket = {} \/ gu16SessionID' < MaxSessions
  PROVE  Replaces(<<a, b, c, d>>, h)
<1>1. /\ <<a, b, c, d>> \in Seq(CallSet) /\ Len(<<a, b, c, d>>) = 4
      /\ <<a, b, c, d>>[1] = a /\ <<a, b, c, d>>[2] = b
      /\ <<a, b, c, d>>[3] = c /\ <<a, b, c, d>>[4] = d
  OBVIOUS
<1> QED BY <1>1 DEF Replaces, Ordered

\* Five calls that only handle events, look and send.
LEMMA Five ==
  ASSUME NEW a \in CallSet, NEW b \in CallSet, NEW c \in CallSet, NEW d \in CallSet,
         NEW e \in CallSet, {a.op, b.op, c.op, d.op, e.op} \subseteq {"events", "lookOpen", "send"},
         theSocket' # None
  PROVE  Replaces(<<a, b, c, d, e>>, "create")
<1>1. /\ <<a, b, c, d, e>> \in Seq(CallSet) /\ Len(<<a, b, c, d, e>>) = 5
      /\ <<a, b, c, d, e>>[1] = a /\ <<a, b, c, d, e>>[2] = b
      /\ <<a, b, c, d, e>>[3] = c /\ <<a, b, c, d, e>>[4] = d /\ <<a, b, c, d, e>>[5] = e
  OBVIOUS
<1>2. \A i \in 1 .. 5 : <<a, b, c, d, e>>[i].op \in {"events", "lookOpen", "send"}
  BY <1>1
<1> QED BY <1>1, <1>2 DEF Replaces, Ordered, Follows, Reading, Final, MakesSocket

\* A stop of the client.
LEMMA Stopping ==
  ASSUME NEW s \in Sockets, theSocket' # None, NEW h \in Final
  PROVE  /\ Replaces(<<Events, Call("close", s), Call("forget", 0)>>, h)
         /\ gu16SessionID' < MaxSessions =>
              Replaces(<<Events, Call("close", s), Call("forget", 0), Call("create", 0)>>, h)
<1>1. Call("close", s) \in CallSet /\ Call("close", s).op = "close"
  BY CallTyped DEF Closing
<1>2. /\ Call("forget", 0) \in CallSet /\ Call("forget", 0).op = "forget"
      /\ Call("create", 0) \in CallSet /\ Call("create", 0).op = "create"
  BY CallTyped DEF Ops, Closing, Final
<1>3. \A x : ~Follows(h, x)
  BY DEF Follows
<1>4. /\ Follows("events", "close") /\ Follows("events", "forget") /\ Follows("events", "create")
      /\ Follows("close", "forget") /\ Follows("close", "create") /\ Follows("forget", "create")
  BY DEF Follows, Reading, Final
<1>5. {"events", "close", "forget"} \cap MakesSocket = {}
  BY DEF MakesSocket
<1>6. Replaces(<<Events, Call("close", s), Call("forget", 0)>>, h)
  BY <1>1, <1>2, <1>3, <1>4, <1>5, CallTyped, Three
<1> QED BY <1>1, <1>2, <1>3, <1>4, <1>6, CallTyped, Four

\* What a read of the sketch does.
LEMMA StartsReading ==
  ASSUME NEW n \in Nat, theSocket' # None
  PROVE  Replaces(<<Events, Call("look", 0), Events, Call("readStart", n)>>, "create")
<1>1. /\ Call("look", 0) \in CallSet /\ Call("look", 0).op = "look"
      /\ Call("readStart", n) \in CallSet /\ Call("readStart", n).op = "readStart"
  BY CallTyped DEF Ops, Closing, Reading
<1>2. \A x : ~Follows("create", x)
  BY DEF Follows, Final
<1>3. \A a, b \in {"events", "look", "readStart"} : Follows(a, b)
  BY DEF Follows, Reading, Final
<1>4. {"events", "look", "readStart"} \cap MakesSocket = {}
  BY DEF MakesSocket
<1> QED BY <1>1, <1>2, <1>3, <1>4, CallTyped, Four

\* What a write of the sketch does.
LEMMA Writing ==
  ASSUME theSocket' # None
  PROVE  Replaces(<<Events, Call("lookOpen", 0), Events, Call("lookOpen", 0), Call("send", 0)>>,
                  "create")
<1>1. /\ Call("lookOpen", 0) \in CallSet /\ Call("lookOpen", 0).op = "lookOpen"
      /\ Call("send", 0) \in CallSet /\ Call("send", 0).op = "send"
  BY CallTyped DEF Ops, Closing, Reading
<1> QED BY <1>1, CallTyped, Five

\* The list that closes all sockets has the length of its definition.
LEMMA AllClosedFacts ==
  /\ AllClosed \in Seq(CallSet) /\ Len(AllClosed) = 2 * TCP_SOCK_MAX
  /\ \A i \in 1 .. 2 * TCP_SOCK_MAX : AllClosed[i].op \in {"events", "close"}
  /\ AllClosed # << >> /\ AllClosed[1].op = "events"
<1>1. \A i \in 1 .. 2 * TCP_SOCK_MAX :
        AllClosed[i] \in CallSet /\ AllClosed[i].op \in {"events", "close"}
  <2> TAKE i \in 1 .. 2 * TCP_SOCK_MAX
  <2>1. CASE i % 2 = 1
    BY <2>1, CallTyped DEF AllClosed
  <2>2. CASE i % 2 # 1
    <3>1. i \div 2 - 1 \in Sockets
      BY <2>2, SocketAssumption DEF Sockets
    <3>2. AllClosed[i] = Call("close", i \div 2 - 1)
      BY <2>2 DEF AllClosed
    <3> QED BY <3>1, <3>2, CallTyped DEF Closing
  <2> QED BY <2>1, <2>2
<1>2. 2 * TCP_SOCK_MAX \in Nat /\ 2 * TCP_SOCK_MAX > 0 /\ 1 \in 1 .. 2 * TCP_SOCK_MAX
  BY SocketAssumption
<1>3. AllClosed \in Seq(CallSet) /\ Len(AllClosed) = 2 * TCP_SOCK_MAX
  BY <1>1, <1>2 DEF AllClosed
<1>4. AllClosed[1] = Events
  BY <1>2 DEF AllClosed
<1>5. AllClosed # << >>
  BY <1>2, <1>3
<1> QED BY <1>1, <1>3, <1>4, <1>5, CallTyped

\* That list may come where the callback is that made it.
LEMMA AllClosedReplaces == Replaces(AllClosed, "callback")
BY AllClosedFacts DEF Replaces, Ordered, Follows, Reading, Final, UsesSocket, MakesSocket

-----------------------------------------------------------------------------
(***************************************************************************)
(* Types.                                                                  *)
(***************************************************************************)

PacketSet ==
  [type : {"connect", "recv", "disconnected"}, sock : Sockets, session : 0 .. MaxSessions,
   ok : BOOLEAN, data : {d \in Seq(Bytes) : Len(d) <= MaxChunk}]

FlagTypes ==
  /\ u8Interrupt \in Int /\ enabled \in BOOLEAN
  /\ u8HifRXDone \in BOOLEAN /\ hif_receive_blocked \in BOOLEAN
  /\ newInterrupt \in BOOLEAN /\ misled \in BOOLEAN
  /\ failures \in 0 .. MaxFailures /\ lasting \in BOOLEAN

QueueTypes == queue \in Seq(PacketSet) /\ rx \in Seq(PacketSet) /\ Len(rx) <= 1

SocketTypes ==
  /\ gastrSockets \in [Sockets -> [bIsUsed : BOOLEAN, u16SessionID : 0 .. MaxSessions,
                                   bIsRecvPending : BOOLEAN]]
  /\ gu16SessionID \in 0 .. MaxSessions /\ u8NextTcpSock \in Sockets
  /\ theSocket \in Sockets \cup {None}

InfoSet ==
  {i \in [state : {"INVALID", "IDLE", "CONNECTING", "CONNECTED"},
          recvMsg : [pu8Buffer : Nat, s16BufferSize : Nat],
          buffer : Seq(Bytes)] :
     Len(i.buffer) <= SOCKET_BUFFER_SIZE /\ i.recvMsg.s16BufferSize <= MaxChunk}

InfoTypes == info \in [Sockets -> InfoSet]

ChipTypes ==
  /\ peers \in [Sockets -> [session : 0 .. MaxSessions, phase : {"none", "connecting", "open"},
                            asked : BOOLEAN, sent : 0 .. StreamLength]]
  /\ \A s \in Sockets : peers[s].phase # "none" => peers[s].session # 0

HistoryTypes == got \in Seq(Bytes)

Types ==
  /\ CallTypes /\ FlagTypes /\ QueueTypes /\ SocketTypes
  /\ InfoTypes /\ ChipTypes /\ HistoryTypes

\* What there is to read is counted in natural numbers.
LEMMA Lengths ==
  ASSUME InfoTypes, NEW s \in Sockets
  PROVE  /\ info[s].buffer \in Seq(Bytes) /\ Len(info[s].buffer) \in Nat
         /\ Remaining(s) \in Nat /\ info[s].recvMsg.pu8Buffer \in Nat
         /\ availableOn(s) \in Nat
BY DEF InfoTypes, InfoSet, Remaining, availableOn

-----------------------------------------------------------------------------
\* Packets and interrupts.  A packet is handled once it has been announced and its
\* callback run; one of which something is left in the chip stays until it is read.
Interrupts ==
  /\ newInterrupt => rx # << >>
  /\ u8Interrupt = IF newInterrupt /\ ~Running("isr") THEN 1 ELSE 0
  /\ rx = << >> => enabled
  /\ Running("isr") => rx # << >>
  /\ u8HifRXDone => ~newInterrupt /\ rx # << >>
  /\ Running("callback") => u8HifRXDone
  /\ Running("isr") \/ Running("callback") => ~hif_receive_blocked
  /\ \A s \in Sockets : Remaining(s) > 0 =>
       /\ rx # << >> /\ ~newInterrupt /\ ~Running("callback")
       /\ info[s].recvMsg.pu8Buffer + Remaining(s) <= Len(Head(rx).data)
       /\ u8HifRXDone => hif_receive_blocked
       /\ \A r \in Sockets : Remaining(r) > 0 => r = s

\* A client that has a socket has one of the table.
LEMMA Sock == SocketTypes /\ theSocket # None => theSocket \in Sockets
BY DEF SocketTypes

\* A callback has a packet to handle.
LEMMA HeadPacket ==
  ASSUME QueueTypes, Interrupts, Running("callback")
  PROVE  rx # << >> /\ Head(rx) \in PacketSet /\ Head(rx).sock \in Sockets
<1>1. rx # << >>
  BY DEF Interrupts
<1>2. Head(rx) \in PacketSet
  BY <1>1, TailFacts DEF QueueTypes
<1> QED BY <1>1, <1>2 DEF PacketSet

\* What is known of the call that is running, and of those below it.
LEMMA RunningFacts ==
  ASSUME CallTypes, SocketTypes, Shape, NEW op, Running(op)
  PROVE  /\ todo # << >> /\ Head(todo).op = op /\ Head(todo) \in CallSet /\ Head(todo) = todo[1]
         /\ op \in UsesSocket => theSocket \in Sockets
         /\ op \in MakesSocket => gu16SessionID < MaxSessions
         /\ op \in Final => Len(todo) = 1
         /\ op = "forget" => \A i \in 2 .. Len(todo) : todo[i].op = "create"
         /\ op \in Closing => Head(todo).arg \in Sockets
<1>1. /\ todo # << >> /\ Head(todo).op = op /\ Head(todo) \in CallSet /\ Head(todo) = todo[1]
      /\ Len(todo) \in Nat /\ Len(todo) > 0
  BY TailFacts DEF Running, CallTypes
<1>2. 1 \in 1 .. Len(todo) /\ todo[1].op = op
  BY <1>1
<1>3. /\ op \in UsesSocket => theSocket \in Sockets
      /\ op \in MakesSocket => gu16SessionID < MaxSessions
  BY <1>2, Sock DEF Shape
<1>4. \A i \in 2 .. Len(todo) : Follows(op, todo[i].op)
  BY <1>1, <1>2 DEF Shape, Ordered
<1>5. op \in Final => Len(todo) = 1
  <2> SUFFICES ASSUME op \in Final, Len(todo) # 1 PROVE FALSE
    OBVIOUS
  <2>1. Len(todo) \in Nat /\ Len(todo) > 0 /\ Len(todo) # 1
    BY <1>1
  <2>2. 2 \in 2 .. Len(todo)
    BY <2>1
  <2> QED BY <2>2, <1>4 DEF Follows
<1>6. op \in Closing => Head(todo).arg \in Sockets
  BY <1>1, CallOps
<1> QED BY <1>1, <1>3, <1>4, <1>5, <1>6 DEF Follows

\* The pending calls keep their types and their order.
LEMMA CallsStep == Types /\ Shape /\ Interrupts /\ [Next]_vars => CallTypes' /\ Shape'
<1> SUFFICES ASSUME Types, Shape, Interrupts, [Next]_vars PROVE CallTypes' /\ Shape'
  OBVIOUS
<1> USE DEF Types
<1> DEFINE h == Head(todo).op
<1>1. ASSUME NEW op, Running(op)
      PROVE  /\ todo # << >> /\ h = op /\ Head(todo) \in CallSet /\ Head(todo) = todo[1]
             /\ op \in UsesSocket => theSocket \in Sockets
             /\ op \in MakesSocket => gu16SessionID < MaxSessions
             /\ op \in Final => Len(todo) = 1
             /\ op = "forget" => \A i \in 2 .. Len(todo) : todo[i].op = "create"
  BY <1>1, RunningFacts
<1> HIDE DEF h
<1>2. /\ UNCHANGED <<theSocket, gu16SessionID>> =>
           /\ theSocket # None => theSocket' # None \/ \A i \in 2 .. Len(todo) : todo[i].op = "create"
           /\ gu16SessionID' = gu16SessionID \/ Len(todo) = 1
  OBVIOUS
<1>3. UNCHANGED <<todo, theSocket, gu16SessionID>> => CallTypes' /\ Shape'
  BY DEF CallTypes, Shape
<1>4. ASSUME NEW op, Running(op), Returns, UNCHANGED <<theSocket, gu16SessionID>>
      PROVE  CallTypes' /\ Shape'
  BY <1>1, <1>2, <1>4, Return
<1>5. ASSUME NEW op, Running(op), NEW calls, Replaces(calls, op), GoesOnWith(calls),
             UNCHANGED <<theSocket, gu16SessionID>>
      PROVE  CallTypes' /\ Shape'
  BY <1>1, <1>2, <1>5, GoesOn DEF h
<1> USE DEF Follows, Reading, Final, Closing, Ops, UsesSocket, MakesSocket
\* The host interface.
<1>6. CASE hif_handle_isr /\ UNCHANGED <<socketVars, chipVars, history>>
  <2>1. Replaces(<<Call("isr", 0), Events>>, "events")
    BY CallTyped, Two
  <2> QED BY <2>1, <1>6, <1>4, <1>5 DEF hif_handle_isr, socketVars
<1>7. CASE FalseInterrupt /\ UNCHANGED <<socketVars, chipVars, history>>
  BY <1>7, <1>4 DEF FalseInterrupt, socketVars
<1>8. CASE ClearFails /\ UNCHANGED <<socketVars, chipVars, history>>
  BY <1>8, <1>3 DEF ClearFails, socketVars
<1>9. ASSUME NEW ok \in BOOLEAN, hif_isr(ok), UNCHANGED <<socketVars, chipVars, history>>
      PROVE  CallTypes' /\ Shape'
  <2>1. Replaces(<<Call("callback", 0), Call("isrEnd", 0)>>, "isr")
    BY CallTyped, Two
  <2> QED BY <2>1, <1>9, <1>3, <1>5 DEF hif_isr, socketVars
<1>10. CASE hif_isrEnd /\ UNCHANGED <<socketVars, chipVars, history>>
  <2>1. Replaces(<<Call("isr", 0)>>, "isrEnd")
    BY CallTyped, One
  <2> QED BY <2>1, <1>10, <1>4, <1>5 DEF hif_isrEnd, socketVars
\* Callbacks.
<1>11. CASE CallbackFails
  BY <1>11, <1>4 DEF CallbackFails, socketVars
<1>12. CASE ConnectReply
  BY <1>12, <1>4 DEF ConnectReply, Handling
<1>13. CASE DataReply
  BY <1>13, <1>4 DEF DataReply, Handling
<1>14. CASE DiscardReply
  BY <1>14, <1>4 DEF DiscardReply, Handling
<1>15. CASE StatusReply
  <2>1. Head(rx).sock \in Sockets
    BY <1>15, HeadPacket DEF StatusReply, Handling
  <2>2. Replaces(<<Events, Call("close", Head(rx).sock)>>, "callback")
    BY <2>1, CallTyped, Two
  <2> QED BY <2>2, <1>15, <1>4, <1>5 DEF StatusReply, Handling
<1>16. CASE Disconnected
  <2>1. Replaces(AllClosed, "callback")
    BY AllClosedReplaces
  <2> QED BY <2>1, <1>16, <1>5 DEF Disconnected, Handling, socketVars
<1>17. CASE close
  <2>1. Head(todo).arg \in Sockets
    BY <1>17, <1>1, CallOps DEF close, h
  <2>2. Replaces(<<Call("release", Head(todo).arg)>>, "close")
    BY <2>1, CallTyped, One
  <2> QED BY <2>2, <1>17, <1>5 DEF close
<1>18. CASE release
  BY <1>18, <1>4 DEF release
\* Connecting.
<1>19. CASE stopFirst
  <2>1. theSocket \in Sockets /\ gu16SessionID < MaxSessions
    BY <1>19, <1>1 DEF stopFirst
  <2>2. UNCHANGED <<theSocket, gu16SessionID>>
    BY <1>19 DEF stopFirst, socketVars
  <2>3. Replaces(<<Call("create", 0)>>, "stopFirst")
    BY <2>1, <2>2, CallTyped, One
  <2>4. Replaces(<<Events, Call("close", theSocket), Call("forget", 0), Call("create", 0)>>, "stopFirst")
    <3>1. theSocket' # None /\ gu16SessionID' < MaxSessions
      BY <2>1, <2>2, SocketAssumption DEF Sockets, None
    <3> QED BY <2>1, <3>1, Stopping
  <2> QED BY <2>2, <2>3, <2>4, <1>19, <1>5 DEF stopFirst
<1>20. CASE forget
  BY <1>20, <1>1, Return DEF forget
<1>21. CASE create
  <2>1. Len(todo) = 1 /\ todo # << >> /\ h = "create"
    BY <1>21, <1>1 DEF create
  <2>2. \A i \in 2 .. Len(todo) : todo[i].op = "create"
    BY <2>1
  <2>3. CASE createFails
    BY <2>1, <2>2, <2>3, Return DEF createFails
  <2>4. ASSUME NEW s \in Sockets, createOn(s) PROVE CallTypes' /\ Shape'
    <3>1. theSocket' = s /\ s # None
      BY <2>4, SocketAssumption DEF createOn, Sockets, None
    <3>2. Replaces(<<Events, Call("connecting", 0)>>, "create")
      BY <3>1, CallTyped, Two
    <3>3. Replaces(<<Events, Call("close", s), Call("forget", 0)>>, "create")
      BY <3>1, Stopping
    <3> QED BY <2>1, <2>2, <2>4, <3>1, <3>2, <3>3, GoesOn DEF createOn, h
  <2> QED BY <1>21, <2>3, <2>4 DEF create
<1>22. CASE connecting
  <2>1. theSocket \in Sockets /\ UNCHANGED <<theSocket, gu16SessionID>> /\ theSocket # None
    BY <1>22, <1>1 DEF connecting, socketVars, Sockets, None
  <2>2. Replaces(<<Events, Call("connecting", 0)>>, "connecting")
    BY <2>1, CallTyped, Two
  <2> QED BY <2>1, <2>2, <1>22, <1>5 DEF connecting
<1>23. CASE connectFails
  <2>1. theSocket \in Sockets /\ UNCHANGED <<theSocket, gu16SessionID>> /\ theSocket # None
    BY <1>23, <1>1 DEF connectFails, Sockets, None
  <2>2. Replaces(<<Events, Call("close", theSocket), Call("forget", 0)>>, "connecting")
    BY <2>1, Stopping
  <2> QED BY <2>1, <2>2, <1>23, <1>5 DEF connectFails
<1>24. CASE connectDone
  BY <1>24, <1>4 DEF connectDone
\* Reading and writing.
<1>25. CASE look \/ lookOpen
  <2>1. todo' = << >> \/ Returns
    BY <1>25 DEF look, lookOpen, Looks
  <2>2. UNCHANGED <<theSocket, gu16SessionID>> /\ (Running("look") \/ Running("lookOpen"))
    BY <1>25 DEF look, lookOpen, Looks, socketVars
  <2>3. CASE todo' = << >>
    <3>1. Replaces(<< >>, "create")
      BY DEF Replaces, Ordered
    <3> QED BY <2>3, <3>1, Calling
  <2> QED BY <2>1, <2>2, <2>3, <1>4
<1>26. CASE readStart
  <2>1. /\ theSocket \in Sockets /\ UNCHANGED <<theSocket, gu16SessionID>> /\ theSocket # None
        /\ Head(todo).arg \in Nat
    BY <1>26, <1>1, CallOps DEF readStart, socketVars, Sockets, None
  <2>2. readSize(Head(todo).arg) \in Nat
    BY <2>1, Lengths DEF readSize, Smaller
  <2>3. Replaces(<<Call("copy", readSize(Head(todo).arg)), Call("readEnd", 0)>>, "readStart")
    BY <2>1, <2>2, CallTyped, Two
  <2> QED BY <2>1, <2>3, <1>26, <1>4, <1>5 DEF readStart
<1>27. CASE copyFill
  BY <1>27, <1>4, <1>3 DEF copyFill
<1>28. CASE copy
  <2>1. /\ theSocket \in Sockets /\ UNCHANGED <<theSocket, gu16SessionID>> /\ theSocket # None
        /\ Head(todo).arg \in Nat
    BY <1>28, <1>1, CallOps DEF copy, Sockets, None
  <2>2. Head(todo).arg - Smaller(Head(todo).arg, Len(info[theSocket].buffer)) \in Nat
    BY <2>1, Lengths DEF Smaller
  <2>3. Replaces(<<Call("copy", Head(todo).arg
                          - Smaller(Head(todo).arg, Len(info[theSocket].buffer)))>>, "copy")
    BY <2>1, <2>2, CallTyped, One
  <2> QED BY <2>1, <2>3, <1>28, <1>4, <1>5 DEF copy
<1>29. CASE readEnd
  <2>1. Replaces(<<Events>>, "readEnd")
    BY CallTyped, One
  <2> QED BY <2>1, <1>29, <1>4, <1>5 DEF readEnd
<1>30. CASE send
  <2>1. theSocket \in Sockets /\ UNCHANGED <<theSocket, gu16SessionID>> /\ theSocket # None
    BY <1>30, <1>1 DEF send, socketVars, Sockets, None
  <2>2. Replaces(<<Events, Call("send", 0)>>, "send")
    BY <2>1, CallTyped, Two
  <2> QED BY <2>1, <2>2, <1>30, <1>4, <1>5 DEF send
\* The calls of a sketch.
<1>31. CASE PollEvents
  <2>1. Replaces(<<Events>>, "create")
    BY CallTyped, One
  <2> QED BY <2>1, <1>31, Calling DEF PollEvents, Calls
<1>32. CASE Stop
  <2>1. theSocket \in Sockets /\ UNCHANGED theSocket /\ theSocket # None
    BY <1>32, Sock DEF Stop, Calls, socketVars
  <2>2. Replaces(<<Events, Call("close", theSocket), Call("forget", 0)>>, "create")
    BY <2>1, Stopping
  <2> QED BY <2>2, <1>32, Calling DEF Stop, Calls
<1>33. CASE Connect
  <2>1. gu16SessionID < MaxSessions /\ UNCHANGED <<theSocket, gu16SessionID>>
    BY <1>33 DEF Connect, Calls, socketVars
  <2>2. Replaces(<<Call("create", 0)>>, "create")
    BY <2>1, CallTyped, One
  <2>3. theSocket # None => Replaces(<<Events, Call("stopFirst", 0)>>, "create")
    BY <2>1, CallTyped, Two
  <2> QED BY <2>2, <2>3, <1>33, Calling DEF Connect, Calls
<1>34. ASSUME NEW n \in 1 .. MaxRead, Read(n) PROVE CallTypes' /\ Shape'
  <2>1. theSocket # None /\ UNCHANGED theSocket /\ n \in Nat
    BY <1>34, SocketAssumption DEF Read, Calls, socketVars
  <2>2. Replaces(<<Events, Call("look", 0), Events, Call("readStart", n)>>, "create")
    BY <2>1, StartsReading
  <2> QED BY <2>2, <1>34, Calling DEF Read, Calls
<1>35. CASE Write
  <2>1. theSocket # None /\ UNCHANGED theSocket
    BY <1>35 DEF Write, Calls, socketVars
  <2>2. Replaces(<<Events, Call("lookOpen", 0), Events, Call("lookOpen", 0), Call("send", 0)>>, "create")
    BY <2>1, Writing
  <2> QED BY <2>2, <1>35, Calling DEF Write, Calls
\* The chip.
<1>36. CASE chip
  BY <1>36, <1>3 DEF chip, OfferPacket, Offer, LoseLink, Answer, Arrive, Finish, Queues, socketVars
<1>37. CASE UNCHANGED vars
  BY <1>37, <1>3 DEF vars, hifVars, socketVars
<1> QED
  BY <1>6, <1>7, <1>8, <1>9, <1>10, <1>11, <1>12, <1>13, <1>14, <1>15, <1>16, <1>17, <1>18,
     <1>19, <1>20, <1>21, <1>22, <1>23, <1>24, <1>25, <1>26, <1>27, <1>28, <1>29, <1>30,
     <1>31, <1>32, <1>33, <1>34, <1>35, <1>36, <1>37
  DEF Next, library, hif, HifStep, m2m_ip_cb, sketch, reader

-----------------------------------------------------------------------------
(***************************************************************************)
(* Which calls are pending.                                                *)
(***************************************************************************)

Pending == {todo[i] : i \in 1 .. Len(todo)}
Rest == {todo[i] : i \in 2 .. Len(todo)}
CallsOf(calls) == {calls[i] : i \in 1 .. Len(calls)}

PendingOp(op) == \E c \in Pending : c.op = op
PendingClose(s) == \E c \in Pending : c.op \in Closing /\ c.arg = s

\* The pending calls are the running one and the rest, which may follow it.
LEMMA HeadAndRest ==
  ASSUME CallTypes, Shape, todo # << >>
  PROVE  /\ Pending = {Head(todo)} \cup Rest
         /\ \A c \in Rest : c \in CallSet /\ Follows(Head(todo).op, c.op)
<1>1. /\ Head(todo) = todo[1] /\ Head(todo) \in CallSet /\ Len(todo) \in Nat /\ Len(todo) > 0
  BY TailFacts DEF CallTypes
<1>2. Pending = {Head(todo)} \cup Rest
  <2>1. \A i \in 1 .. Len(todo) : i = 1 \/ i \in 2 .. Len(todo)
    BY <1>1
  <2>2. 1 \in 1 .. Len(todo) /\ \A i \in 2 .. Len(todo) : i \in 1 .. Len(todo)
    BY <1>1
  <2> QED BY <1>1, <2>1, <2>2 DEF Pending, Rest
<1>3. ASSUME NEW i \in 2 .. Len(todo)
      PROVE  todo[i] \in CallSet /\ Follows(Head(todo).op, todo[i].op)
  <2>1. i \in 1 .. Len(todo) /\ 1 \in 1 .. Len(todo) /\ 1 < i
    BY <1>1, <1>3
  <2> QED BY <2>1, <1>1 DEF CallTypes, Shape, Ordered
<1> QED BY <1>2, <1>3 DEF Rest

\* After a step that puts calls before the rest, these and the rest are pending.
LEMMA GoesPending ==
  ASSUME CallTypes, todo # << >>, NEW calls \in Seq(CallSet), GoesOnWith(calls)
  PROVE  /\ Pending' = CallsOf(calls) \cup Rest
         /\ calls # << >> => todo' # << >> /\ Head(todo') = calls[1]
<1> DEFINE t == Tail(todo)
<1>1. /\ t \in Seq(CallSet) /\ Len(t) = Len(todo) - 1 /\ Len(t) \in Nat
      /\ \A i \in 1 .. Len(t) : t[i] = todo[i + 1]
  BY TailFacts DEF CallTypes
<1>2. todo' = calls \o t
  BY DEF GoesOnWith
<1> HIDE DEF t
<1>3. Len(calls) \in Nat
  OBVIOUS
<1>4. /\ calls \o t \in Seq(CallSet) /\ Len(calls \o t) = Len(calls) + Len(t) /\ Len(calls) \in Nat
      /\ \A i \in 1 .. Len(calls) : (calls \o t)[i] = calls[i]
      /\ \A i \in Len(calls) + 1 .. Len(calls) + Len(t) : (calls \o t)[i] = t[i - Len(calls)]
  <2>1. t \in Seq(CallSet)
    BY <1>1
  <2> QED BY <2>1, <1>3, ConcatFacts
<1>5. Len(todo) \in Nat
  BY DEF CallTypes
<1>6. ASSUME NEW i \in 1 .. Len(calls \o t)
      PROVE  (calls \o t)[i] \in CallsOf(calls) \cup Rest
  <2>1. CASE i <= Len(calls)
    BY <1>4, <2>1 DEF CallsOf
  <2>2. CASE i > Len(calls)
    <3>1. i - Len(calls) \in 1 .. Len(t) /\ i \in Len(calls) + 1 .. Len(calls) + Len(t)
      BY <1>1, <1>4, <2>2
    <3>2. (calls \o t)[i] = todo[(i - Len(calls)) + 1] /\ (i - Len(calls)) + 1 \in 2 .. Len(todo)
      BY <1>1, <1>4, <1>5, <3>1
    <3> QED BY <3>2 DEF Rest
  <2> QED BY <2>1, <2>2, <1>4
<1>7. ASSUME NEW i \in 1 .. Len(calls)
      PROVE  calls[i] \in {(calls \o t)[j] : j \in 1 .. Len(calls \o t)}
  <2>1. i \in 1 .. Len(calls \o t) /\ (calls \o t)[i] = calls[i]
    BY <1>1, <1>4
  <2> QED BY <2>1
<1>8. ASSUME NEW i \in 2 .. Len(todo)
      PROVE  todo[i] \in {(calls \o t)[j] : j \in 1 .. Len(calls \o t)}
  <2> DEFINE k == i - 1
  <2>1. k \in 1 .. Len(t) /\ k + 1 = i
    BY <1>1, <1>5
  <2> HIDE DEF k
  <2>2. Len(calls) + k \in Len(calls) + 1 .. Len(calls) + Len(t) /\ (Len(calls) + k) - Len(calls) = k
        /\ Len(calls) + k \in 1 .. Len(calls \o t)
    BY <1>1, <1>4, <2>1
  <2>3. (calls \o t)[Len(calls) + k] = t[k]
    BY <1>4, <2>2
  <2> QED BY <2>1, <2>2, <2>3, <1>1
<1>9. Pending' = CallsOf(calls) \cup Rest
  <2>1. Pending' = {(calls \o t)[j] : j \in 1 .. Len(calls \o t)}
    BY <1>2 DEF Pending
  <2>2. CallsOf(calls) \subseteq Pending'
    BY <2>1, <1>7 DEF CallsOf
  <2>3. Rest \subseteq Pending'
    BY <2>1, <1>8 DEF Rest
  <2>4. Pending' \subseteq CallsOf(calls) \cup Rest
    BY <2>1, <1>6
  <2> QED BY <2>2, <2>3, <2>4
<1>10. calls # << >> => todo' # << >> /\ Head(todo') = calls[1]
  BY <1>1, <1>2, <1>4
<1> QED BY <1>9, <1>10

\* After a return the rest is pending.
LEMMA ReturnsPending ==
  ASSUME CallTypes, Shape, todo # << >>, Returns
  PROVE  Pending' = Rest /\ (todo' # << >> => Head(todo') \in Rest)
<1>1. Tail(todo) \in Seq(CallSet) /\ << >> \in Seq(CallSet)
  BY TailFacts DEF CallTypes
<1>2. GoesOnWith(<< >>)
  BY <1>1, ConcatEmptySeq DEF GoesOnWith, Returns
<1>3. Pending' = CallsOf(<< >>) \cup Rest
  BY <1>1, <1>2, GoesPending
<1>4. CallsOf(<< >>) = {}
  BY DEF CallsOf
<1>5. ASSUME todo' # << >> PROVE Head(todo') \in Pending'
  <2>1. todo' \in Seq(CallSet)
    BY <1>1 DEF Returns
  <2>2. Head(todo') = todo'[1] /\ Len(todo') \in Nat /\ Len(todo') > 0
    BY <1>5, <2>1, TailFacts
  <2> QED BY <2>2 DEF Pending
<1> QED BY <1>3, <1>4, <1>5

-----------------------------------------------------------------------------
(***************************************************************************)
(* Types are kept.                                                         *)
(***************************************************************************)

\* The flags and the counts keep their types.
LEMMA FlagStep == Types /\ Interrupts /\ [Next]_vars => FlagTypes'
<1> SUFFICES ASSUME Types, Interrupts, [Next]_vars PROVE FlagTypes'
  OBVIOUS
<1> DEFINE FaultTypes == failures \in 0 .. MaxFailures /\ lasting \in BOOLEAN
           ContextTypes == /\ u8Interrupt \in Int /\ enabled \in BOOLEAN
                           /\ u8HifRXDone \in BOOLEAN /\ hif_receive_blocked \in BOOLEAN
<1>1. FaultTypes /\ ContextTypes /\ newInterrupt \in BOOLEAN /\ misled \in BOOLEAN
  BY DEF Types, FlagTypes
<1>2. FaultTypes' /\ ContextTypes' /\ newInterrupt' \in BOOLEAN /\ misled' \in BOOLEAN => FlagTypes'
  BY DEF FlagTypes
<1>3. UNCHANGED faults => FaultTypes'
  BY <1>1 DEF faults
<1>4. ASSUME NEW kind, NEW ok, Access(kind, ok) PROVE FaultTypes'
  <2>1. CASE ok
    BY <1>4, <1>3, <2>1 DEF Access
  <2>2. CASE ~ok
    <3>1. failures < MaxFailures /\ failures' = failures + 1
      BY <1>4, <2>2 DEF Access
    <3>2. lasting' = (lasting \/ kind \notin Recoverable)
      BY <1>4, <2>2 DEF Access
    <3>3. failures' \in 0 .. MaxFailures
      BY <3>1, <1>1, FailuresAssumption
    <3> QED BY <3>2, <3>3
  <2> QED BY <2>1, <2>2
<1>5. UNCHANGED context => ContextTypes'
  BY <1>1 DEF context
<1>6. ASSUME NEW kind, NEW ok, hif_set_rx_done(kind, ok)
      PROVE  FaultTypes' /\ ContextTypes' /\ UNCHANGED newInterrupt
  BY <1>6, <1>4, <1>1 DEF hif_set_rx_done
<1> HIDE DEF FaultTypes
<1>7. misled' = misled \/ misled' \in BOOLEAN => misled' \in BOOLEAN
  BY <1>1
<1>8. hifQuiet => ContextTypes' /\ newInterrupt' \in BOOLEAN
  BY <1>5, <1>1 DEF hifQuiet
<1>9. ASSUME UNCHANGED <<newInterrupt, misled>>, FaultTypes', ContextTypes' PROVE FlagTypes'
  BY <1>9, <1>2, <1>1
<1>10. CASE hif
  <2> UNCHANGED misled
    BY <1>10 DEF hif, history
  <2>1. CASE hif_handle_isr
    BY <2>1, <1>3, <1>1, <1>9 DEF hif_handle_isr
  <2>2. CASE FalseInterrupt
    BY <2>2, <1>3, <1>5, <1>9 DEF FalseInterrupt
  <2>3. CASE ClearFails
    BY <2>3, <1>4, <1>1, <1>9 DEF ClearFails
  <2>4. ASSUME NEW ok \in BOOLEAN, hif_isr(ok) PROVE FlagTypes'
    <3>1. FaultTypes' /\ newInterrupt' = FALSE
      BY <2>4, <1>4 DEF hif_isr
    <3>2. ContextTypes'
      BY <2>4, <1>1 DEF hif_isr
    <3> QED BY <3>1, <3>2, <1>2, <1>1
  <2>5. CASE hif_isrEnd
    BY <2>5, <1>6, <1>3, <1>5, <1>9 DEF hif_isrEnd
  <2> QED BY <1>10, <2>1, <2>2, <2>3, <2>4, <2>5 DEF hif, HifStep
<1>11. CASE CallbackFails
  BY <1>11, <1>4, <1>5, <1>6, <1>9 DEF CallbackFails, ReceiveFails, history
<1>12. CASE StatusReply \/ Disconnected
  BY <1>12, <1>6, <1>9 DEF StatusReply, Disconnected, Received, history
<1>13. CASE ConnectReply
  <2>1. misled' \in BOOLEAN
    BY <1>13 DEF ConnectReply
  <2>2. FaultTypes' /\ ContextTypes' /\ UNCHANGED newInterrupt
    BY <1>13, <1>6 DEF ConnectReply, Received
  <2> QED BY <2>1, <2>2, <1>2, <1>1
<1>14. ASSUME NEW s, NEW i, NEW blocked \in BOOLEAN, fillRecvBuffer(s, i, blocked)
       PROVE FaultTypes' /\ ContextTypes' /\ UNCHANGED newInterrupt
  BY <1>14, <1>4, <1>6, <1>3, <1>1 DEF fillRecvBuffer
<1>15. CASE DataReply
  <2>1. FaultTypes' /\ ContextTypes' /\ UNCHANGED newInterrupt
    BY <1>15, <1>14 DEF DataReply
  <2> QED BY <1>15, <2>1, <1>9 DEF DataReply, history
<1>16. CASE DiscardReply
  BY <1>16, <1>6, <1>9 DEF DiscardReply, Discard, history
<1>17. CASE close
  BY <1>17, <1>6, <1>5, <1>3, <1>9 DEF close, Discard, history
<1>18. ASSUME NEW s, recv(s) \/ closeSocket(s) PROVE FaultTypes'
  BY <1>18, <1>4, <1>3 DEF recv, closeSocket, Request
<1>19. CASE release
  BY <1>19, <1>18, <1>5, <1>9 DEF release, history
<1>20. CASE stopFirst \/ forget \/ connecting \/ connectFails
  BY <1>20, <1>3, <1>8, <1>2, <1>1 DEF stopFirst, forget, connecting, connectFails, history
<1>21. CASE create
  BY <1>21, <1>4, <1>3, <1>8, <1>2, <1>1 DEF create, createOn, createFails
<1>22. CASE connectDone
  BY <1>22, <1>18, <1>8, <1>2, <1>1 DEF connectDone, history
<1>23. CASE look \/ lookOpen \/ readStart \/ copy
  BY <1>23, <1>3, <1>8, <1>2, <1>1 DEF look, lookOpen, Looks, readStart, copy, history
<1>24. CASE copyFill
  <2>1. FaultTypes' /\ ContextTypes' /\ UNCHANGED newInterrupt
    BY <1>24, <1>14, <1>1 DEF copyFill
  <2> QED BY <1>24, <2>1, <1>9 DEF copyFill, history
<1>25. CASE readEnd
  BY <1>25, <1>18, <1>3, <1>8, <1>2, <1>1 DEF readEnd, history
<1>26. CASE send
  BY <1>26, <1>4, <1>3, <1>8, <1>2, <1>1 DEF send, history
<1>27. CASE sketch
  BY <1>27, <1>3, <1>8, <1>2, <1>1
  DEF sketch, reader, PollEvents, Connect, Stop, Write, Read, Calls, history
<1>28. CASE OfferPacket
  <2>1. FaultTypes' /\ newInterrupt' = TRUE /\ UNCHANGED misled
    BY <1>28, <1>3 DEF OfferPacket, Offer, history
  <2>2. ContextTypes'
    BY <1>28, <1>1 DEF OfferPacket, Offer
  <2> QED BY <2>1, <2>2, <1>2, <1>1
<1>29. CASE LoseLink \/ \E s \in Sockets : (\E ok \in BOOLEAN : Answer(s, ok))
                          \/ (\E n \in 1 .. MaxChunk : Arrive(s, n)) \/ Finish(s)
  <2>1. UNCHANGED <<context, newInterrupt, faults, misled>>
    BY <1>29 DEF LoseLink, Answer, Arrive, Finish, Queues, history
  <2> QED BY <2>1, <1>5, <1>3, <1>9
<1>30. CASE UNCHANGED vars
  BY <1>30, <1>5, <1>3, <1>9 DEF vars, hifVars, history
<1> QED
  BY <1>10, <1>11, <1>12, <1>13, <1>15, <1>16, <1>17, <1>19, <1>20, <1>21, <1>22, <1>23, <1>24,
     <1>25, <1>26, <1>27, <1>28, <1>29, <1>30
  DEF Next, library, m2m_ip_cb, chip

\* The packets of the chip.
LEMMA PacketTypes ==
  ASSUME Types
  PROVE  /\ Packet("disconnected", 0, 0, FALSE, << >>) \in PacketSet
         /\ \A s \in Sockets :
              /\ \A ok \in BOOLEAN : Packet("connect", s, peers[s].session, ok, << >>) \in PacketSet
              /\ Packet("recv", s, peers[s].session, FALSE, << >>) \in PacketSet
              /\ \A n \in 1 .. MaxChunk : Arrive(s, n) =>
                   /\ Packet("recv", s, peers[s].session, TRUE, Data(s, n)) \in PacketSet
                   /\ n \in Nat /\ Len(Data(s, n)) = n /\ peers[s].sent \in Nat
<1>1. Packet("disconnected", 0, 0, FALSE, << >>) \in PacketSet
  BY SocketAssumption DEF Packet, PacketSet, Sockets
<1>2. ASSUME NEW s \in Sockets, NEW ok \in BOOLEAN
      PROVE  /\ Packet("connect", s, peers[s].session, ok, << >>) \in PacketSet
             /\ Packet("recv", s, peers[s].session, FALSE, << >>) \in PacketSet
  BY SocketAssumption DEF Packet, PacketSet, Types, ChipTypes
<1>3. ASSUME NEW s \in Sockets, NEW n \in 1 .. MaxChunk, Arrive(s, n)
      PROVE  /\ Packet("recv", s, peers[s].session, TRUE, Data(s, n)) \in PacketSet
             /\ n \in Nat /\ Len(Data(s, n)) = n /\ peers[s].sent \in Nat
  <2>1. /\ peers[s].session \in 1 .. MaxSessions /\ peers[s].sent \in 0 .. StreamLength
        /\ peers[s].sent + n <= StreamLength /\ n \in Nat /\ n <= MaxChunk
    BY <1>3, SocketAssumption DEF Arrive, Types, ChipTypes
  <2>2. \A i \in 1 .. n : <<peers[s].session, peers[s].sent + i>> \in Bytes
    BY <2>1, SocketAssumption DEF Bytes
  <2>3. Data(s, n) \in Seq(Bytes) /\ Len(Data(s, n)) = n
    BY <2>1, <2>2 DEF Data
  <2>4. Packet("recv", s, peers[s].session, TRUE, Data(s, n)) \in PacketSet
    BY <2>1, <2>3, SocketAssumption DEF Packet, PacketSet
  <2>5. n \in Nat /\ peers[s].sent \in Nat
    BY <2>1, SocketAssumption
  <2> QED BY <2>3, <2>4, <2>5
<1> QED BY <1>1, <1>2, <1>3

\* What a step leaves of the packet the chip offers: the same one, none, or the next.
LEMMA PacketStep ==
  ASSUME Types, [Next]_vars
  PROVE  \/ UNCHANGED <<queue, rx>>
         \/ rx' = << >> /\ UNCHANGED queue
         \/ rx = << >> /\ queue # << >> /\ rx' = <<Head(queue)>> /\ queue' = Tail(queue)
         \/ UNCHANGED rx /\ \E p \in PacketSet : queue' = Append(queue, p)
<1> USE DEF hif_set_rx_done
<1>1. CASE hif
  BY <1>1 DEF hif, HifStep, hif_handle_isr, FalseInterrupt, ClearFails, hif_isr, hif_isrEnd
<1>2. CASE m2m_ip_cb
  BY <1>2 DEF m2m_ip_cb, CallbackFails, ConnectReply, StatusReply, Disconnected, Received,
              ReceiveFails, DataReply, DiscardReply, Discard, fillRecvBuffer
<1>3. CASE close \/ release \/ copyFill
  BY <1>3 DEF close, release, Discard, copyFill, fillRecvBuffer
<1>4. CASE stopFirst \/ forget \/ create \/ connecting \/ connectFails \/ connectDone
  BY <1>4 DEF stopFirst, forget, create, createOn, createFails, connecting, connectFails,
              connectDone, hifQuiet
<1>5. CASE look \/ lookOpen \/ readStart \/ copy \/ readEnd \/ send
  BY <1>5 DEF look, lookOpen, Looks, readStart, copy, readEnd, send, hifQuiet
<1>6. CASE sketch
  BY <1>6 DEF sketch, reader, PollEvents, Connect, Stop, Write, Read, Calls, hifQuiet
<1>7. CASE OfferPacket
  BY <1>7 DEF OfferPacket, Offer
<1>8. CASE LoseLink
  BY <1>8, PacketTypes DEF LoseLink, Queues
<1>9. ASSUME NEW s \in Sockets, NEW ok \in BOOLEAN, Answer(s, ok)
      PROVE UNCHANGED rx /\ \E p \in PacketSet : queue' = Append(queue, p)
  BY <1>9, PacketTypes DEF Answer, Queues
<1>10. ASSUME NEW s \in Sockets, NEW n \in 1 .. MaxChunk, Arrive(s, n)
      PROVE UNCHANGED rx /\ \E p \in PacketSet : queue' = Append(queue, p)
  BY <1>10, PacketTypes DEF Arrive, Queues
<1>11. ASSUME NEW s \in Sockets, Finish(s)
      PROVE UNCHANGED rx /\ \E p \in PacketSet : queue' = Append(queue, p)
  BY <1>11, PacketTypes DEF Finish, Queues
<1>12. CASE UNCHANGED vars
  BY <1>12 DEF vars, hifVars
<1> QED
  BY <1>1, <1>2, <1>3, <1>4, <1>5, <1>6, <1>7, <1>8, <1>9, <1>10, <1>11, <1>12
  DEF Next, library, chip

\* The packets keep their types.
LEMMA QueueStep == Types /\ [Next]_vars => QueueTypes'
<1> SUFFICES ASSUME Types, [Next]_vars PROVE QueueTypes'
  OBVIOUS
<1> USE DEF Types, QueueTypes
<1>1. CASE UNCHANGED <<queue, rx>>
  BY <1>1
<1>2. CASE rx' = << >> /\ UNCHANGED queue
  BY <1>2
<1>3. CASE queue # << >> /\ rx' = <<Head(queue)>> /\ queue' = Tail(queue)
  BY <1>3, TailFacts
<1>4. CASE UNCHANGED rx /\ \E p \in PacketSet : queue' = Append(queue, p)
  BY <1>4, AppendFacts
<1> QED BY <1>1, <1>2, <1>3, <1>4, PacketStep

\* The table of sockets keeps its type.
LEMMA SocketStep == Types /\ Shape /\ Interrupts /\ [Next]_vars => SocketTypes'
<1> SUFFICES ASSUME Types, Shape, Interrupts, [Next]_vars PROVE SocketTypes'
  OBVIOUS
<1> DEFINE Table == [Sockets -> [bIsUsed : BOOLEAN, u16SessionID : 0 .. MaxSessions,
                                 bIsRecvPending : BOOLEAN]]
<1>1. /\ gastrSockets \in Table /\ gu16SessionID \in 0 .. MaxSessions
      /\ u8NextTcpSock \in Sockets /\ theSocket \in Sockets \cup {None}
  BY DEF Types, SocketTypes
<1>2. ASSUME gastrSockets' \in Table, gu16SessionID' \in 0 .. MaxSessions,
             u8NextTcpSock' \in Sockets, theSocket' \in Sockets \cup {None}
      PROVE  SocketTypes'
  BY <1>2 DEF SocketTypes
<1>3. UNCHANGED socketVars => SocketTypes'
  BY <1>1, <1>2 DEF socketVars
<1>4. ASSUME NEW op, Running(op) PROVE op \in UsesSocket => theSocket \in Sockets
  BY <1>4, RunningFacts DEF Types
<1>5. ASSUME NEW s, NotPending(s) PROVE gastrSockets' \in Table
  BY <1>5, <1>1 DEF NotPending
<1>6. ASSUME NEW s, recv(s) PROVE gastrSockets' \in Table
  BY <1>6, <1>1 DEF recv
<1>7. ASSUME NEW s, closeSocket(s) PROVE gastrSockets' \in Table
  <2>1. Unused \in [bIsUsed : BOOLEAN, u16SessionID : 0 .. MaxSessions, bIsRecvPending : BOOLEAN]
    BY SocketAssumption DEF Unused
  <2> QED BY <1>7, <2>1, <1>1 DEF closeSocket
<1> HIDE DEF Table
<1>8. CASE hif \/ sketch \/ chip \/ UNCHANGED vars
  <2>1. UNCHANGED socketVars
    BY <1>8 DEF hif, sketch, reader, PollEvents, Connect, Stop, Write, Read, Calls, chip,
                OfferPacket, LoseLink, Answer, Arrive, Finish, Queues, vars
  <2> QED BY <2>1, <1>3
<1>9. CASE CallbackFails \/ Disconnected \/ stopFirst \/ connecting \/ look \/ lookOpen
           \/ readStart \/ send
  <2>1. UNCHANGED socketVars
    BY <1>9 DEF CallbackFails, Disconnected, stopFirst, connecting, look, lookOpen, Looks,
                readStart, send
  <2> QED BY <2>1, <1>3
<1>10. CASE ConnectReply \/ close \/ connectFails \/ copyFill \/ copy
  BY <1>10, <1>1, <1>2 DEF ConnectReply, close, connectFails, copyFill, copy
<1>11. CASE DataReply \/ DiscardReply \/ StatusReply
  BY <1>11, <1>1, <1>2, <1>5 DEF DataReply, DiscardReply, StatusReply
<1>12. CASE release
  BY <1>12, <1>1, <1>2, <1>7 DEF release
<1>13. CASE forget
  BY <1>13, <1>1, <1>2 DEF forget
<1>14. CASE create
  <2>1. CASE createFails
    BY <2>1, <1>1, <1>2 DEF createFails
  <2>2. ASSUME NEW s \in Sockets, createOn(s) PROVE SocketTypes'
    <3>1. gu16SessionID' = gu16SessionID + 1 /\ gu16SessionID < MaxSessions
      BY <2>2, <1>14, RunningFacts DEF createOn, newSession, create, MakesSocket, Types
    <3>2. gu16SessionID' \in 0 .. MaxSessions
      BY <3>1, <1>1, SocketAssumption
    <3>3. gastrSockets' \in Table
      BY <2>2, <3>2, <1>1 DEF createOn, Table
    <3>4. u8NextTcpSock' \in Sockets
      BY <2>2, SocketAssumption DEF createOn, Sockets
    <3> QED BY <2>2, <3>2, <3>3, <3>4, <1>2 DEF createOn
  <2> QED BY <2>1, <2>2, <1>14 DEF create
<1>15. CASE connectDone \/ readEnd
  BY <1>15, <1>1, <1>2, <1>6 DEF connectDone, readEnd
<1> QED
  BY <1>8, <1>9, <1>10, <1>11, <1>12, <1>13, <1>14, <1>15 DEF Next, library, m2m_ip_cb

\* The ends of the chip keep their types: one with a connection has a session.
LEMMA ChipStep == Types /\ Shape /\ Interrupts /\ SocketTypes' /\ [Next]_vars => ChipTypes'
<1> SUFFICES ASSUME Types, Shape, Interrupts, SocketTypes', [Next]_vars PROVE ChipTypes'
  OBVIOUS
<1> DEFINE Peer == [session : 0 .. MaxSessions, phase : {"none", "connecting", "open"},
                    asked : BOOLEAN, sent : 0 .. StreamLength]
           Good(p) == p \in Peer /\ (p.phase # "none" => p.session # 0)
<1>1. peers \in [Sockets -> Peer] /\ \A s \in Sockets : Good(peers[s])
  BY DEF Types, ChipTypes
<1>2. ASSUME NEW s \in Sockets, NEW p, Good(p), peers' = [peers EXCEPT ![s] = p]
      PROVE  ChipTypes'
  BY <1>2, <1>1 DEF ChipTypes
<1>3. Good(NoPeer)
  BY SocketAssumption DEF NoPeer
<1>4. UNCHANGED peers => ChipTypes'
  BY <1>1 DEF ChipTypes
<1>5. ASSUME NEW s \in Sockets, NEW p, Good(p), Request(s, p) PROVE ChipTypes'
  BY <1>5, <1>2, <1>4 DEF Request
<1>6. ASSUME NEW s \in Sockets, recv(s) PROVE ChipTypes'
  <2>1. Good([peers[s] EXCEPT !.asked = TRUE]) /\ Good(peers[s])
    BY <1>1
  <2> QED BY <2>1, <1>6, <1>5, <1>4 DEF recv
<1>7. ASSUME NEW s \in Sockets, closeSocket(s) PROVE ChipTypes'
  BY <1>7, <1>5, <1>3, <1>4, <1>1 DEF closeSocket
<1>8. CASE hif \/ sketch \/ OfferPacket \/ UNCHANGED vars
  <2>1. UNCHANGED peers
    BY <1>8 DEF hif, sketch, reader, PollEvents, Connect, Stop, Write, Read, Calls,
                OfferPacket, vars, chipVars
  <2> QED BY <2>1, <1>4
<1>9. CASE m2m_ip_cb
  <2>1. UNCHANGED peers
    BY <1>9 DEF m2m_ip_cb, CallbackFails, ConnectReply, DataReply, DiscardReply, StatusReply,
                Disconnected, chipVars
  <2> QED BY <2>1, <1>4
<1>10. CASE close \/ stopFirst \/ forget \/ connecting \/ connectFails \/ look \/ lookOpen
            \/ readStart \/ copyFill \/ copy \/ send
  <2>1. UNCHANGED peers
    BY <1>10 DEF close, stopFirst, forget, connecting, connectFails, look, lookOpen, Looks,
                readStart, copyFill, copy, send, chipVars
  <2> QED BY <2>1, <1>4
<1>11. CASE release
  <2>1. Head(todo).arg \in Sockets
    BY <1>11, RunningFacts DEF release, Types, Closing
  <2> QED BY <2>1, <1>11, <1>7 DEF release
<1>12. CASE create
  <2>1. CASE createFails
    BY <2>1, <1>4 DEF createFails
  <2>2. ASSUME NEW s \in Sockets, createOn(s) PROVE ChipTypes'
    <3>1. gu16SessionID' = gu16SessionID + 1 /\ gu16SessionID' \in 0 .. MaxSessions
          /\ gu16SessionID \in 0 .. MaxSessions
      BY <2>2 DEF createOn, newSession, SocketTypes, Types
    <3>2. Good([session |-> gu16SessionID', phase |-> "connecting", asked |-> FALSE, sent |-> 0])
      BY <3>1, SocketAssumption
    <3> QED BY <2>2, <3>2, <1>2, <1>4 DEF createOn
  <2> QED BY <2>1, <2>2, <1>12 DEF create
<1>13. CASE connectDone \/ readEnd
  <2>1. theSocket \in Sockets
    BY <1>13, RunningFacts DEF connectDone, readEnd, Types, UsesSocket, Reading
  <2> QED BY <2>1, <1>13, <1>6, <1>4 DEF connectDone, readEnd
<1>14. CASE LoseLink
  BY <1>14, <1>3 DEF LoseLink, ChipTypes
<1>15. ASSUME NEW s \in Sockets, NEW ok \in BOOLEAN, Answer(s, ok) PROVE ChipTypes'
  <2>1. Good([peers[s] EXCEPT !.phase = "open"])
    BY <1>15, <1>1 DEF Answer
  <2> QED BY <2>1, <1>15, <1>3, <1>2, <1>1 DEF Answer
<1>16. ASSUME NEW s \in Sockets, NEW n \in 1 .. MaxChunk, Arrive(s, n) PROVE ChipTypes'
  <2>1. peers[s].sent + n \in 0 .. StreamLength
    BY <1>16, <1>1, SocketAssumption DEF Arrive
  <2>2. Good([peers[s] EXCEPT !.asked = FALSE, !.sent = @ + n])
    BY <2>1, <1>1
  <2>3. peers' = [peers EXCEPT ![s] = [peers[s] EXCEPT !.asked = FALSE, !.sent = @ + n]]
    BY <1>16, <1>1 DEF Arrive
  <2> QED BY <2>2, <2>3, <1>2
<1>17. ASSUME NEW s \in Sockets, Finish(s) PROVE ChipTypes'
  BY <1>17, <1>3, <1>2 DEF Finish
<1> QED
  BY <1>8, <1>9, <1>10, <1>11, <1>12, <1>13, <1>14, <1>15, <1>16, <1>17
  DEF Next, library, chip

-----------------------------------------------------------------------------
(***************************************************************************)
(* The buffers.                                                            *)
(***************************************************************************)

\* What is announced is in the packet.
Announced(i, data) == i.recvMsg.pu8Buffer + i.recvMsg.s16BufferSize <= Len(data)

\* Filling a buffer fills no more than it holds, moves on in the packet by as much,
\* and is the last transfer exactly when nothing of the packet remains.
LEMMA FilledFacts ==
  ASSUME NEW i \in InfoSet, NEW data \in Seq(Bytes), Announced(i, data)
  PROVE  /\ Filled(i, data) \in InfoSet /\ Announced(Filled(i, data), data)
         /\ Filled(i, data).state = i.state
         /\ lastTransfer(i) <=> Filled(i, data).recvMsg.s16BufferSize = 0
         /\ Filled(i, data).recvMsg.pu8Buffer = i.recvMsg.pu8Buffer + Len(Filled(i, data).buffer)
         /\ Len(Filled(i, data).buffer) + Filled(i, data).recvMsg.s16BufferSize
              = i.recvMsg.s16BufferSize
         /\ \A k \in 1 .. Len(Filled(i, data).buffer) :
              Filled(i, data).buffer[k] = data[i.recvMsg.pu8Buffer + k]
<1> DEFINE a == i.recvMsg.pu8Buffer
           n == i.recvMsg.s16BufferSize
           size == Smaller(n, SOCKET_BUFFER_SIZE)
           buffer == SubSeq(data, a + 1, a + size)
<1>1. a \in Nat /\ n \in Nat /\ n <= MaxChunk /\ i.buffer \in Seq(Bytes)
      /\ i.state \in {"INVALID", "IDLE", "CONNECTING", "CONNECTED"}
  BY DEF InfoSet
<1>2. size \in Nat /\ size <= n /\ size <= SOCKET_BUFFER_SIZE /\ (size = n <=> n <= SOCKET_BUFFER_SIZE)
  BY <1>1, SocketAssumption DEF Smaller
<1>3. a + n <= Len(data) /\ Len(data) \in Nat
  BY DEF Announced
<1> HIDE DEF size
<1>4. a + 1 \in Nat \ {0} /\ a + size \in Nat /\ a + size <= Len(data)
  BY <1>1, <1>2, <1>3
<1>5. /\ buffer \in Seq(Bytes) /\ Len(buffer) = size
      /\ \A k \in 1 .. size : buffer[k] = data[a + k]
  <2> HIDE DEF a
  <2>1. /\ buffer \in Seq(Bytes)
        /\ Len(buffer) = IF a + 1 <= a + size THEN (a + size) - (a + 1) + 1 ELSE 0
        /\ \A k \in 1 .. (a + size) - (a + 1) + 1 : buffer[k] = data[(a + 1) + k - 1]
    BY <1>4, SubSeqFacts
  <2> HIDE DEF buffer
  <2>2. Len(buffer) = size
    BY <2>1, <1>1, <1>2
  <2>3. ASSUME NEW k \in 1 .. size PROVE buffer[k] = data[a + k]
    <3>1. k \in 1 .. (a + size) - (a + 1) + 1 /\ (a + 1) + k - 1 = a + k
      BY <1>1, <1>2
    <3> QED BY <2>1, <3>1
  <2> QED BY <2>1, <2>2, <2>3
<1> DEFINE j == Filled(i, data)
<1>6. /\ j = [i EXCEPT !.buffer = buffer,
                      !.recvMsg = [pu8Buffer |-> a + size, s16BufferSize |-> n - size]]
  BY DEF Filled, size
<1> HIDE DEF a, n, buffer
<1>7. /\ j.buffer = buffer /\ j.state = i.state
      /\ j.recvMsg = [pu8Buffer |-> a + size, s16BufferSize |-> n - size]
  BY <1>6 DEF InfoSet
<1>8. j = [state |-> i.state, recvMsg |-> [pu8Buffer |-> a + size, s16BufferSize |-> n - size],
           buffer |-> buffer]
  BY <1>6 DEF InfoSet
<1> HIDE DEF j
<1>9. /\ a + size \in Nat /\ n - size \in Nat /\ n - size <= MaxChunk
      /\ (a + size) + (n - size) <= Len(data)
  BY <1>1, <1>2, <1>3, SocketAssumption
<1>10. j \in InfoSet
  BY <1>1, <1>2, <1>5, <1>8, <1>9 DEF InfoSet
<1>11. Announced(j, data)
  BY <1>7, <1>9 DEF Announced
<1>12. lastTransfer(i) <=> j.recvMsg.s16BufferSize = 0
  BY <1>1, <1>2, <1>7 DEF lastTransfer, n
<1>13. /\ j.recvMsg.pu8Buffer = a + Len(j.buffer) /\ Len(j.buffer) + j.recvMsg.s16BufferSize = n
       /\ \A k \in 1 .. Len(j.buffer) : j.buffer[k] = data[a + k]
  <2>1. j.recvMsg.pu8Buffer = a + size /\ j.recvMsg.s16BufferSize = n - size
    BY <1>7
  <2>2. Len(j.buffer) = size /\ \A k \in 1 .. size : j.buffer[k] = data[a + k]
    BY <1>5, <1>7
  <2> QED BY <2>1, <2>2, <1>1, <1>2
<1> QED BY <1>7, <1>10, <1>11, <1>12, <1>13 DEF j, a, n

\* What the library has read and what it still wants of the packet being handled.
LEMMA DataFacts ==
  ASSUME Types, Interrupts, Handling("recv")
  PROVE  LET p == Head(rx)
             i == [info[p.sock] EXCEPT !.recvMsg =
                     [pu8Buffer |-> 0, s16BufferSize |-> Len(p.data)]]
         IN p.sock \in Sockets /\ p.data \in Seq(Bytes) /\ i \in InfoSet
            /\ Announced(i, p.data) /\ i.state = info[p.sock].state
            /\ i.recvMsg = [pu8Buffer |-> 0, s16BufferSize |-> Len(p.data)]
<1>1. Head(rx) \in PacketSet /\ Head(rx).sock \in Sockets
  BY HeadPacket DEF Handling, Types
<1>2. /\ Head(rx).data \in Seq(Bytes) /\ Len(Head(rx).data) <= MaxChunk
      /\ Len(Head(rx).data) \in Nat
  BY <1>1 DEF PacketSet
<1>3. info[Head(rx).sock] \in InfoSet
  BY <1>1 DEF Types, InfoTypes
<1> QED BY <1>1, <1>2, <1>3 DEF InfoSet, Announced

\* What remains to be read is in the packet that the chip offers.
LEMMA WantedFacts ==
  ASSUME Types, Interrupts, NEW s \in Sockets, Remaining(s) > 0
  PROVE  /\ info[s] \in InfoSet /\ rx # << >> /\ Head(rx) \in PacketSet
         /\ Head(rx).data \in Seq(Bytes) /\ Announced(info[s], Head(rx).data)
<1>1. /\ rx # << >>
      /\ info[s].recvMsg.pu8Buffer + Remaining(s) <= Len(Head(rx).data)
  BY DEF Interrupts
<1>2. Head(rx) \in PacketSet
  BY <1>1, TailFacts DEF Types, QueueTypes
<1> QED BY <1>1, <1>2 DEF PacketSet, Announced, Remaining, Types, InfoTypes

\* A new connection has nothing left to be read.
LEMMA NoneRemaining ==
  ASSUME NEW i \in InfoSet
  PROVE  [i EXCEPT !.recvMsg.s16BufferSize = 0] \in InfoSet
<1> DEFINE m == i.recvMsg
           none == [m EXCEPT !.s16BufferSize = 0]
<1>1. m \in [pu8Buffer : Nat, s16BufferSize : Nat]
  BY DEF InfoSet
<1>2. none = [pu8Buffer |-> m.pu8Buffer, s16BufferSize |-> 0]
  BY <1>1
<1>3. [i EXCEPT !.recvMsg.s16BufferSize = 0] = [i EXCEPT !.recvMsg = none]
  OBVIOUS
<1>4. [i EXCEPT !.recvMsg = none] = [state |-> i.state, recvMsg |-> none, buffer |-> i.buffer]
  <2> HIDE DEF none
  <2> QED BY DEF InfoSet
<1>5. none \in [pu8Buffer : Nat, s16BufferSize : Nat] /\ none.s16BufferSize = 0 /\ 0 <= MaxChunk
  BY <1>1, <1>2, SocketAssumption
<1> HIDE DEF none
<1> QED BY <1>3, <1>4, <1>5 DEF InfoSet

\* The sockets' states and buffers keep their types, and the buffers their size.
LEMMA InfoStep == Types /\ Shape /\ Interrupts /\ [Next]_vars => InfoTypes'
<1> SUFFICES ASSUME Types, Shape, Interrupts, [Next]_vars PROVE InfoTypes'
  OBVIOUS
<1>1. info \in [Sockets -> InfoSet] /\ \A s \in Sockets : info[s] \in InfoSet
  BY DEF Types, InfoTypes
<1>2. UNCHANGED info => InfoTypes'
  BY <1>1 DEF InfoTypes
<1>3. ASSUME NEW s \in Sockets, NEW i \in InfoSet, info' = [info EXCEPT ![s] = i]
      PROVE  InfoTypes'
  BY <1>3, <1>1 DEF InfoTypes
<1>4. ASSUME NEW s \in Sockets, NEW st \in {"INVALID", "IDLE", "CONNECTING", "CONNECTED"}
      PROVE  [info[s] EXCEPT !.state = st] \in InfoSet
  BY <1>1 DEF InfoSet
<1>5. ASSUME NEW s \in Sockets, NEW i \in InfoSet, NEW blocked, Announced(i, Head(rx).data),
             Head(rx).data \in Seq(Bytes), fillRecvBuffer(s, i, blocked)
      PROVE  InfoTypes'
  BY <1>5, <1>3, FilledFacts DEF fillRecvBuffer
<1>6. ASSUME NEW op, Running(op)
      PROVE  /\ op \in UsesSocket => theSocket \in Sockets
             /\ op \in Closing => Head(todo).arg \in Sockets
  BY <1>6, RunningFacts DEF Types
<1>7. CASE hif \/ sketch \/ chip \/ UNCHANGED vars
  <2>1. UNCHANGED info
    BY <1>7 DEF hif, sketch, reader, PollEvents, Connect, Stop, Write, Read, Calls, chip,
                OfferPacket, LoseLink, Answer, Arrive, Finish, Queues, vars, socketVars
  <2> QED BY <2>1, <1>2
<1>8. CASE CallbackFails \/ Disconnected \/ stopFirst \/ connecting \/ look \/ lookOpen
           \/ readStart \/ send \/ DiscardReply \/ StatusReply \/ release \/ forget \/ readEnd
  <2>1. UNCHANGED info
    BY <1>8 DEF CallbackFails, Disconnected, stopFirst, connecting, look, lookOpen, Looks,
                readStart, send, DiscardReply, StatusReply, release, forget, readEnd, socketVars
  <2> QED BY <2>1, <1>2
<1>9. CASE ConnectReply
  <2>1. Head(rx).sock \in Sockets
    BY <1>9, HeadPacket DEF ConnectReply, Handling, Types
  <2>2. info' = [info EXCEPT ![Head(rx).sock] = [info[Head(rx).sock] EXCEPT !.state =
                   IF Head(rx).ok THEN "CONNECTED" ELSE "IDLE"]]
    BY <1>9, <1>1 DEF ConnectReply
  <2> QED BY <2>1, <2>2, <1>4, <1>3
<1>10. CASE DataReply
  BY <1>10, <1>5, DataFacts DEF DataReply
<1>11. CASE close
  <2>1. Invalid \in InfoSet
    BY SocketAssumption DEF Invalid, NoMessage, InfoSet
  <2> QED BY <2>1, <1>11, <1>6, <1>3 DEF close, closed, Closing
<1>12. CASE create
  <2>1. CASE createFails
    BY <2>1, <1>2 DEF createFails
  <2>2. ASSUME NEW s \in Sockets, createOn(s) PROVE InfoTypes'
    <3>1. Created(s) \in InfoSet
      BY <1>4, <1>1 DEF Created
    <3>2. [Created(s) EXCEPT !.state = "CONNECTING"] \in InfoSet
      BY <3>1 DEF InfoSet
    <3> QED BY <2>2, <3>1, <3>2, <1>3 DEF createOn
  <2> QED BY <2>1, <2>2, <1>12 DEF create
<1>13. CASE connectFails
  <2>1. theSocket \in Sockets
    BY <1>13, <1>6 DEF connectFails, UsesSocket
  <2>2. info' = [info EXCEPT ![theSocket] = [info[theSocket] EXCEPT !.state = "IDLE"]]
    BY <1>13, <1>1 DEF connectFails
  <2> QED BY <2>1, <2>2, <1>4, <1>3
<1>14. CASE connectDone
  <2>1. theSocket \in Sockets
    BY <1>14, <1>6 DEF connectDone, UsesSocket
  <2>2. info' = [info EXCEPT ![theSocket] = [info[theSocket] EXCEPT !.recvMsg.s16BufferSize = 0]]
    BY <1>14, <1>1 DEF connectDone
  <2>3. [info[theSocket] EXCEPT !.recvMsg.s16BufferSize = 0] \in InfoSet
    BY <2>1, <1>1, NoneRemaining
  <2> QED BY <2>1, <2>2, <2>3, <1>3
<1>15. CASE copyFill
  <2>1. theSocket \in Sockets
    BY <1>15, <1>6 DEF copyFill, UsesSocket, Reading
  <2>2. Remaining(theSocket) > 0
    BY <1>15 DEF copyFill
  <2> QED BY <2>1, <2>2, <1>15, <1>5, WantedFacts DEF copyFill
<1>16. CASE copy
  <2>1. theSocket \in Sockets /\ Head(todo).arg \in Nat
    BY <1>16, <1>6, RunningFacts, CallOps DEF copy, UsesSocket, Reading, Types
  <2> DEFINE b == info[theSocket].buffer
             n == Smaller(Head(todo).arg, Len(b))
  <2>2. b \in Seq(Bytes) /\ Len(b) \in Nat /\ Len(b) <= SOCKET_BUFFER_SIZE
    BY <2>1, <1>1 DEF InfoSet
  <2>3. n \in Nat /\ n <= Len(b)
    BY <2>1, <2>2 DEF Smaller
  <2>4. info' = [info EXCEPT ![theSocket] =
                   [info[theSocket] EXCEPT !.buffer = SubSeq(b, n + 1, Len(b))]]
    BY <1>16, <1>1 DEF copy
  <2> HIDE DEF b, n
  <2>5. SubSeq(b, n + 1, Len(b)) \in Seq(Bytes)
        /\ Len(SubSeq(b, n + 1, Len(b))) <= SOCKET_BUFFER_SIZE
    <3>1. n + 1 \in Nat \ {0} /\ Len(b) \in Nat /\ Len(b) <= Len(b)
      BY <2>2, <2>3
    <3>2. /\ SubSeq(b, n + 1, Len(b)) \in Seq(Bytes)
          /\ Len(SubSeq(b, n + 1, Len(b))) = IF n + 1 <= Len(b) THEN Len(b) - (n + 1) + 1 ELSE 0
      BY <2>2, <3>1, SubSeqFacts
    <3> QED BY <2>2, <2>3, <3>2, SocketAssumption
  <2>6. [info[theSocket] EXCEPT !.buffer = SubSeq(b, n + 1, Len(b))] \in InfoSet
    BY <2>1, <2>5, <1>1 DEF InfoSet
  <2> QED BY <2>1, <2>4, <2>6, <1>3
<1> QED
  BY <1>7, <1>8, <1>9, <1>10, <1>11, <1>12, <1>13, <1>14, <1>15, <1>16
  DEF Next, library, m2m_ip_cb

\* What has been read is bytes.
LEMMA HistoryStep == Types /\ Shape /\ [Next]_vars => HistoryTypes'
<1> SUFFICES ASSUME Types, Shape, [Next]_vars PROVE HistoryTypes'
  OBVIOUS
<1>1. UNCHANGED got => HistoryTypes'
  BY DEF Types, HistoryTypes
<1>2. CASE hif \/ m2m_ip_cb \/ sketch \/ chip \/ UNCHANGED vars
  <2>1. UNCHANGED got
    BY <1>2 DEF hif, sketch, reader, PollEvents, Connect, Stop, Write, Read, Calls, chip,
                OfferPacket, LoseLink, Answer, Arrive, Finish, Queues, m2m_ip_cb, CallbackFails,
                ConnectReply, DataReply, DiscardReply, StatusReply, Disconnected, vars, history
  <2> QED BY <2>1, <1>1
<1>3. CASE close \/ release \/ stopFirst \/ forget \/ connecting \/ connectFails
           \/ connectDone \/ look \/ lookOpen \/ readStart \/ copyFill \/ readEnd \/ send
  <2>1. UNCHANGED got
    BY <1>3 DEF close, release, stopFirst, forget, connecting, connectFails, connectDone,
                look, lookOpen, Looks, readStart, copyFill, readEnd, send, history
  <2> QED BY <2>1, <1>1
<1>4. CASE create
  BY <1>4 DEF create, HistoryTypes
<1>5. CASE copy
  <2>1. theSocket \in Sockets /\ Head(todo).arg \in Nat
    BY <1>5, RunningFacts, CallOps DEF copy, UsesSocket, Reading, Types
  <2> DEFINE b == info[theSocket].buffer
             n == Smaller(Head(todo).arg, Len(b))
  <2>2. b \in Seq(Bytes) /\ Len(b) \in Nat
    BY <2>1, Lengths DEF Types
  <2>3. n \in Nat /\ n <= Len(b)
    BY <2>1, <2>2 DEF Smaller
  <2>4. got' = got \o SubSeq(b, 1, n)
    BY <1>5 DEF copy
  <2> HIDE DEF b, n
  <2>5. SubSeq(b, 1, n) \in Seq(Bytes)
    BY <2>2, <2>3, SubSeqFacts
  <2> QED BY <2>4, <2>5, ConcatFacts DEF Types, HistoryTypes
<1> QED BY <1>2, <1>3, <1>4, <1>5 DEF Next, library

-----------------------------------------------------------------------------
(***************************************************************************)
(* The host interface.                                                     *)
(***************************************************************************)

\* Which operation is next.  These are never pending below another one.
Inner == {"isr", "callback", "release", "copy"}

\* After a return none of the inner operations runs.
LEMMA NextReturns ==
  ASSUME CallTypes, Shape, todo # << >>, Returns
  PROVE  /\ \A op \in Inner : ~Running(op)'
         /\ Running("readEnd")' => Head(todo).op = "copy"
<1> SUFFICES ASSUME todo' # << >>
             PROVE  Head(todo').op \notin Inner /\ (Head(todo').op = "readEnd" => Head(todo).op = "copy")
  BY DEF Running
<1>1. Head(todo') \in Rest
  BY ReturnsPending
<1>2. Follows(Head(todo).op, Head(todo').op)
  BY <1>1, HeadAndRest
<1> QED BY <1>2 DEF Follows, Inner

\* After a step that puts calls before the rest the first of them runs.
LEMMA NextGoesOn ==
  ASSUME CallTypes, todo # << >>, NEW calls \in Seq(CallSet), calls # << >>, GoesOnWith(calls)
  PROVE  todo' # << >> /\ \A op : Running(op)' <=> calls[1].op = op
<1>1. todo' # << >> /\ Head(todo') = calls[1]
  BY GoesPending
<1> QED BY <1>1 DEF Running

\* ... for the lists of calls there are.
LEMMA NextIs ==
  ASSUME CallTypes, todo # << >>, NEW a \in CallSet
  PROVE  /\ GoesOnWith(<<a>>) => todo' # << >> /\ Head(todo') = a
         /\ \A b \in CallSet : GoesOnWith(<<a, b>>) => todo' # << >> /\ Head(todo') = a
         /\ \A b, c \in CallSet : GoesOnWith(<<a, b, c>>) => todo' # << >> /\ Head(todo') = a
         /\ \A b, c, d \in CallSet :
              GoesOnWith(<<a, b, c, d>>) => todo' # << >> /\ Head(todo') = a
<1>1. ASSUME NEW calls \in Seq(CallSet), calls # << >>, GoesOnWith(calls)
      PROVE  todo' # << >> /\ Head(todo') = calls[1]
  BY <1>1, GoesPending
<1>2. ASSUME GoesOnWith(<<a>>) PROVE todo' # << >> /\ Head(todo') = a
  <2> DEFINE q == <<a>>
  <2>1. q \in Seq(CallSet) /\ q # << >> /\ q[1] = a /\ GoesOnWith(q)
    BY <1>2
  <2> HIDE DEF q
  <2> QED BY <2>1, <1>1
<1>3. ASSUME NEW b \in CallSet, GoesOnWith(<<a, b>>) PROVE todo' # << >> /\ Head(todo') = a
  <2> DEFINE q == <<a, b>>
  <2>1. q \in Seq(CallSet) /\ q # << >> /\ q[1] = a /\ GoesOnWith(q)
    BY <1>3
  <2> HIDE DEF q
  <2> QED BY <2>1, <1>1
<1>4. ASSUME NEW b \in CallSet, NEW c \in CallSet, GoesOnWith(<<a, b, c>>)
      PROVE  todo' # << >> /\ Head(todo') = a
  <2> DEFINE q == <<a, b, c>>
  <2>1. q \in Seq(CallSet) /\ q # << >> /\ q[1] = a /\ GoesOnWith(q)
    BY <1>4
  <2> HIDE DEF q
  <2> QED BY <2>1, <1>1
<1>5. ASSUME NEW b \in CallSet, NEW c \in CallSet, NEW d \in CallSet, GoesOnWith(<<a, b, c, d>>)
      PROVE  todo' # << >> /\ Head(todo') = a
  <2> DEFINE q == <<a, b, c, d>>
  <2>1. q \in Seq(CallSet) /\ q # << >> /\ q[1] = a /\ GoesOnWith(q)
    BY <1>5
  <2> HIDE DEF q
  <2> QED BY <2>1, <1>1
<1> QED BY <1>2, <1>3, <1>4, <1>5

\* A step that leaves the host interface alone.
LEMMA Quiet ==
  ASSUME Interrupts, ~Running("isr"), ~Running("isr")', ~Running("callback")', hifQuiet,
         \A s \in Sockets : Remaining(s)' > 0 => info'[s].recvMsg = info[s].recvMsg
  PROVE  Interrupts'
<1>1. UNCHANGED <<u8Interrupt, enabled, u8HifRXDone, hif_receive_blocked, rx, newInterrupt>>
  BY DEF hifQuiet, context
<1>2. ASSUME NEW s \in Sockets, Remaining(s)' > 0
      PROVE  Remaining(s)' = Remaining(s) /\ UNCHANGED info[s].recvMsg /\ Remaining(s) > 0
  BY <1>2 DEF Remaining
<1> QED BY <1>1, <1>2 DEF Interrupts

\* A step that ends a packet.
LEMMA Done ==
  ASSUME Interrupts, ~newInterrupt, NEW kind, NEW ok, hif_set_rx_done(kind, ok),
         ~Running("callback")', Running("isr")' => rx' # << >>,
         \A s \in Sockets : ~(Remaining(s)' > 0)
  PROVE  Interrupts'
<1>1. /\ u8Interrupt' = 0 /\ enabled' = TRUE /\ u8HifRXDone' = FALSE
      /\ hif_receive_blocked' = FALSE /\ newInterrupt' = newInterrupt
  BY DEF Interrupts, hif_set_rx_done
<1> QED BY <1>1 DEF Interrupts

\* A step that fills a buffer.
LEMMA Fill ==
  ASSUME Types, Interrupts, ~Running("isr"), ~Running("isr")', ~Running("callback")',
         NEW s \in Sockets, NEW i \in InfoSet, NEW blocked,
         Announced(i, Head(rx).data), Head(rx).data \in Seq(Bytes),
         rx # << >>, ~newInterrupt, u8HifRXDone => blocked,
         \A r \in Sockets : Remaining(r) > 0 => r = s,
         fillRecvBuffer(s, i, blocked)
  PROVE  Interrupts'
<1>1. /\ info \in [Sockets -> InfoSet]
  BY DEF Types, InfoTypes
<1>2. ASSUME NEW j \in InfoSet, info' = [info EXCEPT ![s] = j]
      PROVE  /\ \A r \in Sockets : Remaining(r)' > 0 => r = s
             /\ info'[s] = j
  BY <1>1, <1>2 DEF Remaining
<1>3. ASSUME NEW j \in InfoSet, info' = [info EXCEPT ![s] = j], Announced(j, Head(rx).data),
             UNCHANGED <<u8Interrupt, enabled, u8HifRXDone, rx, newInterrupt>>,
             hif_receive_blocked' = blocked
      PROVE  Interrupts'
  <2>1. /\ info'[s].recvMsg.pu8Buffer + Remaining(s)' <= Len(Head(rx').data)
    BY <1>2, <1>3 DEF Announced, Remaining
  <2> QED BY <1>2, <1>3, <2>1 DEF Interrupts
<1>4. CASE /\ info' = [info EXCEPT ![s] = Filled(i, Head(rx).data)]
           /\ lastTransfer(i) /\ hif_set_rx_done("fill", TRUE)
  <2>1. Filled(i, Head(rx).data) \in InfoSet
        /\ Filled(i, Head(rx).data).recvMsg.s16BufferSize = 0
    BY <1>4, FilledFacts
  <2>2. info'[s] = Filled(i, Head(rx).data) /\ \A r \in Sockets : Remaining(r)' > 0 => r = s
    BY <2>1, <1>2, <1>4
  <2>3. \A r \in Sockets : ~(Remaining(r)' > 0)
    BY <2>1, <2>2 DEF Remaining
  <2> QED BY <2>3, <1>4, Done
<1>5. CASE /\ info' = [info EXCEPT ![s] = Filled(i, Head(rx).data)]
           /\ ~lastTransfer(i) /\ hif_receive_blocked' = blocked
           /\ UNCHANGED <<u8Interrupt, enabled, u8HifRXDone, queue, rx, newInterrupt, faults>>
  BY <1>5, <1>3, FilledFacts
<1>6. CASE /\ info' = [info EXCEPT ![s] = i]
           /\ hif_receive_blocked' = blocked
           /\ UNCHANGED <<u8Interrupt, enabled, u8HifRXDone, queue, rx, newInterrupt>>
  BY <1>6, <1>3
<1>7. CASE info' = [info EXCEPT ![s] = i] /\ hif_set_rx_done("fill", FALSE)
  <2>1. /\ u8Interrupt' = 0 /\ enabled' = TRUE /\ u8HifRXDone' = FALSE
        /\ hif_receive_blocked' = FALSE /\ newInterrupt' = newInterrupt /\ rx' = rx
    BY <1>7 DEF Interrupts, hif_set_rx_done
  <2>2. /\ info'[s].recvMsg.pu8Buffer + Remaining(s)' <= Len(Head(rx').data)
    BY <1>2, <1>7, <2>1 DEF Announced, Remaining
  <2> QED BY <1>2, <1>7, <2>1, <2>2 DEF Interrupts
<1> QED BY <1>4, <1>5, <1>6, <1>7 DEF fillRecvBuffer

\* The host interface keeps its invariant.
LEMMA InterruptsStep == Types /\ Shape /\ Interrupts /\ [Next]_vars => Interrupts'
<1> SUFFICES ASSUME Types, Shape, Interrupts, [Next]_vars PROVE Interrupts'
  OBVIOUS
<1>1. ASSUME NEW op, Running(op)
      PROVE  /\ todo # << >> /\ Head(todo).op = op
             /\ \A o \in Inner : ~Running(o)' \/ ~Returns
             /\ op \in UsesSocket => theSocket \in Sockets
             /\ op \in Closing => Head(todo).arg \in Sockets
  BY <1>1, RunningFacts, NextReturns DEF Types
<1>2. ASSUME NEW op, Running(op), Returns PROVE ~Running("isr")' /\ ~Running("callback")'
  BY <1>2, <1>1 DEF Inner
<1>3. ASSUME NEW op, Running(op), NEW calls \in Seq(CallSet), calls # << >>, GoesOnWith(calls)
      PROVE  \A o : Running(o)' <=> calls[1].op = o
  BY <1>3, <1>1, NextGoesOn DEF Types
<1>4. ASSUME NEW op, Running(op), op # "isr" PROVE ~Running("isr")
  BY <1>4 DEF Running
<1>5. ASSUME UNCHANGED <<u8Interrupt, enabled, u8HifRXDone, hif_receive_blocked,
                         rx, newInterrupt, todo, info>>
      PROVE  Interrupts'
  BY <1>5 DEF Interrupts, Running, Remaining
<1>6. info \in [Sockets -> InfoSet]
  BY DEF Types, InfoTypes
<1>7. /\ Events \in CallSet /\ Events.op = "events"
      /\ Call("isr", 0) \in CallSet /\ Call("isr", 0).op = "isr"
      /\ Call("create", 0) \in CallSet /\ Call("create", 0).op = "create"
      /\ Call("forget", 0) \in CallSet /\ Call("connecting", 0) \in CallSet
      /\ Call("send", 0) \in CallSet /\ Call("readEnd", 0) \in CallSet
      /\ \A s \in Sockets : Call("close", s) \in CallSet
      /\ \A s \in Sockets : Call("release", s) \in CallSet /\ Call("release", s).op = "release"
      /\ \A n \in Nat : Call("copy", n) \in CallSet /\ Call("copy", n).op = "copy"
  BY CallTyped DEF Ops, Closing, Reading, Final
\* The host interface.
<1>8. CASE hif_handle_isr /\ UNCHANGED info
  <2>1. Running("events")
    BY <1>8 DEF hif_handle_isr
  <2>2. CASE hif_receive_blocked \/ u8Interrupt = 0
    <3>1. ~Running("isr")' /\ ~Running("callback")' /\ hifQuiet
      BY <2>1, <2>2, <1>8, <1>2 DEF hif_handle_isr, hifQuiet, context
    <3> QED BY <3>1, <2>1, <1>8, <1>4, Quiet DEF Remaining
  <2>3. CASE ~(hif_receive_blocked \/ u8Interrupt = 0)
    <3>1. GoesOnWith(<<Call("isr", 0), Events>>) /\ u8Interrupt' = u8Interrupt - 1
          /\ UNCHANGED <<enabled, u8HifRXDone, hif_receive_blocked, rx, newInterrupt>>
      BY <2>3, <1>8 DEF hif_handle_isr
    <3>2. \A o : Running(o)' <=> o = "isr"
      BY <3>1, <2>1, <1>1, <1>7, NextIs DEF Running, Types
    <3>3. newInterrupt /\ u8Interrupt = 1 /\ rx # << >> /\ ~u8HifRXDone
      BY <2>1, <2>3, <1>4 DEF Interrupts
    <3> QED BY <3>1, <3>2, <3>3, <2>3, <1>8 DEF Interrupts, Remaining
  <2> QED BY <2>2, <2>3
<1>9. CASE FalseInterrupt /\ UNCHANGED info
  <2>1. /\ ~newInterrupt /\ u8Interrupt = 0 /\ Running("isr")
        /\ UNCHANGED <<u8Interrupt, enabled, u8HifRXDone, hif_receive_blocked, rx, newInterrupt>>
    BY <1>9 DEF FalseInterrupt, Interrupts, context
  <2>2. ~Running("isr")' /\ ~Running("callback")'
    BY <1>9, <1>2 DEF FalseInterrupt
  <2> QED BY <2>1, <2>2, <1>9 DEF Interrupts, Remaining
<1>10. CASE ClearFails /\ UNCHANGED info
  <2>1. /\ Running("isr") /\ Running("isr")' /\ (Running("callback") <=> Running("callback")')
        /\ UNCHANGED <<u8Interrupt, u8HifRXDone, hif_receive_blocked, rx, newInterrupt>>
    BY <1>10 DEF ClearFails, Running
  <2> QED BY <2>1, <1>10 DEF Interrupts, Remaining
<1>11. ASSUME NEW ok \in BOOLEAN, hif_isr(ok), UNCHANGED info PROVE Interrupts'
  <2>1. /\ Running("isr") /\ newInterrupt /\ u8Interrupt = 0 /\ rx # << >> /\ ~hif_receive_blocked
        /\ \A s \in Sockets : ~(Remaining(s) > 0)
    BY <1>11 DEF hif_isr, Interrupts
  <2>2. /\ newInterrupt' = FALSE /\ u8HifRXDone' = TRUE
        /\ UNCHANGED <<u8Interrupt, hif_receive_blocked, rx>>
    BY <1>11 DEF hif_isr
  <2>3. \A s \in Sockets : ~(Remaining(s)' > 0)
    BY <2>1, <1>11 DEF Remaining
  <2> QED BY <2>1, <2>2, <2>3 DEF Interrupts
<1>12. CASE hif_isrEnd /\ UNCHANGED info
  <2>1. Running("isrEnd")
    BY <1>12 DEF hif_isrEnd
  <2>2. CASE ~hif_receive_blocked /\ u8HifRXDone
    <3>1. PICK ok \in BOOLEAN : /\ hif_set_rx_done("done", ok)
                               /\ IF ok THEN Returns ELSE GoesOnWith(<<Call("isr", 0)>>)
      BY <2>2, <1>12 DEF hif_isrEnd
    <3>2. ~newInterrupt /\ rx # << >> /\ \A s \in Sockets : ~(Remaining(s) > 0)
      BY <2>2 DEF Interrupts
    <3>3. \A s \in Sockets : ~(Remaining(s)' > 0)
      BY <3>2, <1>12 DEF Remaining
    <3>4. CASE ok
      BY <3>1, <3>2, <3>3, <3>4, <2>1, <1>2, Done
    <3>5. CASE ~ok
      <4>1. Head(todo') = Call("isr", 0)
        BY <3>1, <3>5, <2>1, <1>1, <1>7, NextIs DEF Types
      <4>2. ~Running("callback")' /\ rx' = rx
        BY <3>1, <3>5, <4>1, <1>7 DEF hif_set_rx_done, Running
      <4> QED BY <3>1, <3>2, <3>3, <4>2, Done
    <3> QED BY <3>4, <3>5
  <2>3. CASE ~(~hif_receive_blocked /\ u8HifRXDone)
    <3>1. Returns /\ hifQuiet
      BY <2>3, <1>12 DEF hif_isrEnd, hifQuiet
    <3> QED BY <3>1, <2>1, <1>12, <1>2, <1>4, Quiet DEF Remaining
  <2> QED BY <2>2, <2>3
\* Callbacks.
<1>13. ASSUME Running("callback")
       PROVE  /\ ~newInterrupt /\ rx # << >> /\ ~Running("isr")
              /\ \A s \in Sockets : ~(Remaining(s) > 0)
  BY <1>13, <1>4 DEF Interrupts
<1>14. ASSUME Running("callback"), \A s \in Sockets : info'[s].recvMsg = info[s].recvMsg
       PROVE  \A s \in Sockets : ~(Remaining(s)' > 0)
  BY <1>13, <1>14 DEF Remaining
<1>15. CASE CallbackFails
  <2>1. Running("callback") /\ Returns /\ UNCHANGED info
    BY <1>15 DEF CallbackFails, socketVars
  <2>2. ~Running("isr")' /\ ~Running("callback")'
    BY <2>1, <1>2
  <2>3. CASE hifQuiet
    BY <2>1, <2>2, <2>3, <1>13, Quiet
  <2>4. CASE hif_set_rx_done("done", FALSE)
    BY <2>1, <2>2, <2>4, <1>13, <1>14, Done
  <2> QED BY <1>15, <2>3, <2>4 DEF CallbackFails, ReceiveFails, hifQuiet
<1>16. CASE ConnectReply
  <2>1. Running("callback") /\ Returns /\ hif_set_rx_done("done", TRUE)
    BY <1>16 DEF ConnectReply, Handling, Received
  <2>2. ~Running("isr")' /\ ~Running("callback")'
    BY <2>1, <1>2
  <2>3. \A s \in Sockets : info'[s].recvMsg = info[s].recvMsg
    BY <1>16, <1>6 DEF ConnectReply, InfoSet
  <2> QED BY <2>1, <2>2, <2>3, <1>13, <1>14, Done
<1>17. CASE DataReply
  <2>1. Running("callback") /\ Returns /\ Handling("recv")
    BY <1>17 DEF DataReply, Handling
  <2>2. ~Running("isr")' /\ ~Running("callback")'
    BY <2>1, <1>2
  <2> QED BY <1>17, <2>1, <2>2, <1>13, DataFacts, Fill DEF DataReply
<1>18. CASE DiscardReply
  <2>1. Running("callback") /\ Returns /\ UNCHANGED info
        /\ \E ok \in BOOLEAN : hif_set_rx_done("done", ok)
    BY <1>18 DEF DiscardReply, Handling, Discard
  <2>2. ~Running("isr")' /\ ~Running("callback")'
    BY <2>1, <1>2
  <2> QED BY <2>1, <2>2, <1>13, <1>14, Done
<1>19. CASE StatusReply
  <2>1. Running("callback") /\ UNCHANGED info /\ hif_set_rx_done("done", TRUE)
    BY <1>19 DEF StatusReply, Handling, Received
  <2>2. ~Running("isr")' /\ ~Running("callback")'
    <3>1. Head(rx).sock \in Sockets
      BY <2>1, HeadPacket DEF Types
    <3>2. Returns \/ GoesOnWith(<<Events, Call("close", Head(rx).sock)>>)
      BY <1>19 DEF StatusReply
    <3>3. ASSUME GoesOnWith(<<Events, Call("close", Head(rx).sock)>>) PROVE Head(todo') = Events
      BY <3>1, <3>3, <2>1, <1>1, <1>7, NextIs DEF Types
    <3> QED BY <3>2, <3>3, <2>1, <1>2, <1>7 DEF Running
  <2> QED BY <2>1, <2>2, <1>13, <1>14, Done
<1>20. CASE Disconnected
  <2>1. Running("callback") /\ UNCHANGED info /\ hif_set_rx_done("done", TRUE)
        /\ GoesOnWith(AllClosed)
    BY <1>20 DEF Disconnected, Handling, Received, socketVars
  <2>2. ~Running("isr")' /\ ~Running("callback")'
    <3>1. AllClosed \in Seq(CallSet) /\ AllClosed # << >> /\ AllClosed[1].op = "events"
      BY AllClosedFacts
    <3> QED BY <3>1, <2>1, <1>3
  <2> QED BY <2>1, <2>2, <1>13, <1>14, Done
\* Closing a socket.
<1>21. CASE close
  <2> DEFINE s == Head(todo).arg
  <2>1. Running("close") /\ s \in Sockets /\ info' = [info EXCEPT ![s] = Invalid]
        /\ GoesOnWith(<<Call("release", s)>>)
    BY <1>21, <1>1 DEF close, closed, Closing
  <2> HIDE DEF s
  <2>2. ~Running("isr")' /\ ~Running("callback")' /\ ~Running("isr")
    <3>1. Head(todo') = Call("release", s) /\ Call("release", s).op = "release"
      BY <2>1, <1>1, <1>7, NextIs DEF Types
    <3> QED BY <3>1, <2>1, <1>4 DEF Running
  <2>3. \A r \in Sockets : Remaining(r)' = IF r = s THEN 0 ELSE Remaining(r)
    BY <2>1, <1>6 DEF Remaining, Invalid, NoMessage
  <2>4. CASE flushes(s)
    <3>1. Remaining(s) > 0 /\ \E ok \in BOOLEAN : hif_set_rx_done("done", ok)
      BY <2>4, <1>21 DEF close, Discard, s, flushes
    <3>2. ~newInterrupt /\ \A r \in Sockets : Remaining(r) > 0 => r = s
      BY <3>1, <2>1 DEF Interrupts
    <3>3. \A r \in Sockets : ~(Remaining(r)' > 0)
      BY <2>3, <3>2
    <3> QED BY <2>2, <3>1, <3>2, <3>3, Done
  <2>5. CASE ~flushes(s)
    <3>1. hifQuiet
      BY <2>5, <1>21 DEF close, s, hifQuiet
    <3>2. \A r \in Sockets : Remaining(r)' > 0 => info'[r].recvMsg = info[r].recvMsg
      BY <2>1, <2>3, <1>6
    <3> QED BY <2>2, <3>1, <3>2, Quiet
  <2> QED BY <2>4, <2>5
<1>22. CASE release
  BY <1>22, <1>2, <1>4, Quiet DEF release, hifQuiet
\* Connecting, reading and writing.
<1>23. ASSUME NEW op, Running(op), op # "isr", todo' # << >>, hifQuiet,
              Head(todo').op \notin {"isr", "callback"},
              \A s \in Sockets : Remaining(s)' > 0 => info'[s].recvMsg = info[s].recvMsg
       PROVE  Interrupts'
  BY <1>23, <1>4, Quiet DEF Running
<1>24. ASSUME NEW op, Running(op), NEW a \in CallSet
       PROVE  /\ GoesOnWith(<<a>>) => todo' # << >> /\ Head(todo') = a
              /\ \A b \in CallSet : GoesOnWith(<<a, b>>) => todo' # << >> /\ Head(todo') = a
              /\ \A b, c \in CallSet : GoesOnWith(<<a, b, c>>) => todo' # << >> /\ Head(todo') = a
              /\ \A b, c, d \in CallSet :
                   GoesOnWith(<<a, b, c, d>>) => todo' # << >> /\ Head(todo') = a
  BY <1>24, <1>1, NextIs DEF Types
<1>25. ASSUME NEW op, Running(op), op # "isr", Returns, hifQuiet,
              \A s \in Sockets : Remaining(s)' > 0 => info'[s].recvMsg = info[s].recvMsg
       PROVE  Interrupts'
  BY <1>25, <1>2, <1>4, Quiet
<1>26. CASE stopFirst
  <2>1. Running("stopFirst") /\ theSocket \in Sockets /\ hifQuiet /\ UNCHANGED info
    BY <1>26, <1>1 DEF stopFirst, UsesSocket, socketVars
  <2>2. CASE Connected(theSocket)
    BY <2>1, <2>2, <1>26, <1>23, <1>24, <1>7 DEF stopFirst
  <2>3. CASE ~Connected(theSocket)
    BY <2>1, <2>3, <1>26, <1>23, <1>24, <1>7 DEF stopFirst
  <2> QED BY <2>2, <2>3
<1>27. CASE forget
  BY <1>27, <1>25 DEF forget
<1>28. CASE create
  <2>1. Running("create") /\ hifQuiet
    BY <1>28 DEF create
  <2>2. CASE createFails
    BY <2>1, <2>2, <1>25 DEF createFails
  <2>3. ASSUME NEW s \in Sockets, createOn(s) PROVE Interrupts'
    <3>1. PICK ok \in BOOLEAN :
            /\ info' = [info EXCEPT ![s] =
                 IF ok THEN [Created(s) EXCEPT !.state = "CONNECTING"] ELSE Created(s)]
            /\ GoesOnWith(IF ok THEN <<Events, Call("connecting", 0)>>
                          ELSE <<Events, Call("close", s), Call("forget", 0)>>)
      BY <2>3 DEF createOn
    <3>2. \A r \in Sockets : info'[r].recvMsg = info[r].recvMsg
      BY <3>1, <1>6 DEF Created, InfoSet
    <3>3. CASE ok
      BY <3>1, <3>2, <3>3, <2>1, <1>23, <1>24, <1>7
    <3>4. CASE ~ok
      BY <3>1, <3>2, <3>4, <2>1, <1>23, <1>24, <1>7
    <3> QED BY <3>3, <3>4
  <2> QED BY <2>2, <2>3, <1>28 DEF create
<1>29. CASE connecting
  BY <1>29, <1>23, <1>24, <1>7 DEF connecting, socketVars
<1>30. CASE connectFails
  <2>1. Running("connecting") /\ theSocket \in Sockets
    BY <1>30, <1>1 DEF connectFails, UsesSocket
  <2>2. \A s \in Sockets : info'[s].recvMsg = info[s].recvMsg
    BY <1>30, <1>6 DEF connectFails, InfoSet
  <2> QED BY <2>1, <2>2, <1>30, <1>23, <1>24, <1>7 DEF connectFails
<1>31. CASE connectDone
  <2>1. theSocket \in Sockets /\ Running("connecting")
    BY <1>31, <1>1 DEF connectDone, UsesSocket
  <2>2. /\ info'[theSocket].recvMsg.s16BufferSize = 0
        /\ \A s \in Sockets : s # theSocket => info'[s] = info[s]
    BY <2>1, <1>31, <1>6 DEF connectDone, InfoSet
  <2>3. \A s \in Sockets : Remaining(s)' > 0 => info'[s].recvMsg = info[s].recvMsg
    BY <2>1, <2>2 DEF Remaining
  <2> QED BY <2>1, <2>3, <1>31, <1>25 DEF connectDone
<1>32. CASE look \/ lookOpen
  <2>1. hifQuiet /\ UNCHANGED info /\ (Running("look") \/ Running("lookOpen"))
        /\ (todo' = << >> \/ Returns)
    BY <1>32 DEF look, lookOpen, Looks, socketVars
  <2>2. CASE todo' = << >>
    <3>1. ~Running("isr") /\ ~Running("isr")' /\ ~Running("callback")'
      BY <2>1, <2>2, <1>4 DEF Running
    <3> QED BY <2>1, <3>1, Quiet
  <2> QED BY <2>1, <2>2, <1>25
<1>33. CASE readStart
  <2>1. Running("readStart") /\ hifQuiet /\ UNCHANGED info /\ theSocket \in Sockets
        /\ Head(todo).arg \in Nat
    BY <1>33, <1>1, RunningFacts, CallOps DEF readStart, socketVars, UsesSocket, Reading, Types
  <2>2. readSize(Head(todo).arg) \in Nat
    BY <2>1, Lengths DEF readSize, Smaller, Types
  <2> DEFINE n == readSize(Head(todo).arg)
  <2>3. \/ Returns
        \/ GoesOnWith(<<Call("copy", n), Call("readEnd", 0)>>)
    BY <1>33 DEF readStart
  <2> HIDE DEF n
  <2>4. CASE GoesOnWith(<<Call("copy", n), Call("readEnd", 0)>>)
    <3>1. n \in Nat
      BY <2>2 DEF n
    <3> QED BY <3>1, <2>1, <2>4, <1>23, <1>24, <1>7
  <2> QED BY <2>1, <2>3, <2>4, <1>25
<1>34. CASE copyFill
  <2> DEFINE s == theSocket
  <2>1. Running("copy") /\ s \in Sockets /\ Remaining(s) > 0 /\ (UNCHANGED todo \/ Returns)
    BY <1>34, <1>1 DEF copyFill, UsesSocket, Reading
  <2>2. ~Running("isr") /\ ~Running("isr")' /\ ~Running("callback")'
    <3>1. CASE UNCHANGED todo
      BY <3>1, <2>1 DEF Running
    <3> QED BY <3>1, <2>1, <1>2, <1>4
  <2>3. ~newInterrupt /\ (u8HifRXDone => hif_receive_blocked)
        /\ \A r \in Sockets : Remaining(r) > 0 => r = s
    BY <2>1 DEF Interrupts
  <2>4. fillRecvBuffer(s, info[s], hif_receive_blocked)
    BY <1>34 DEF copyFill
  <2> HIDE DEF s
  <2> QED BY <2>1, <2>2, <2>3, <2>4, WantedFacts, Fill
<1>35. CASE copy
  <2>1. Running("copy") /\ theSocket \in Sockets /\ hifQuiet
    BY <1>35, <1>1 DEF copy, UsesSocket, Reading
  <2>2. \A s \in Sockets : info'[s].recvMsg = info[s].recvMsg
    BY <1>35, <1>6 DEF copy, InfoSet
  <2> DEFINE m == Head(todo).arg - Smaller(Head(todo).arg, Len(info[theSocket].buffer))
  <2>3. Returns \/ GoesOnWith(<<Call("copy", m)>>)
    BY <1>35 DEF copy
  <2>4. m \in Nat
    <3>1. Head(todo).arg \in Nat
      BY <2>1, RunningFacts, CallOps DEF Types
    <3> QED BY <3>1, <2>1, Lengths DEF Smaller, Types
  <2> HIDE DEF m
  <2> QED BY <2>1, <2>2, <2>3, <2>4, <1>23, <1>25, <1>24, <1>7
<1>36. CASE readEnd
  <2>1. Running("readEnd") /\ hifQuiet /\ UNCHANGED info /\ (Returns \/ GoesOnWith(<<Events>>))
    BY <1>36 DEF readEnd
  <2> QED BY <2>1, <1>23, <1>25, <1>24, <1>7
<1>37. CASE send
  <2>1. Running("send") /\ hifQuiet /\ UNCHANGED info
        /\ (Returns \/ GoesOnWith(<<Events, Call("send", 0)>>))
    BY <1>37 DEF send, socketVars
  <2> QED BY <2>1, <1>23, <1>25, <1>24, <1>7
\* The calls of a sketch, and the chip.
<1>38. CASE sketch
  <2>1. hifQuiet /\ UNCHANGED info /\ ~Running("isr")
    BY <1>38 DEF sketch, reader, PollEvents, Connect, Stop, Write, Read, Calls, Idle, Running,
                 socketVars
  <2>2. todo' # << >> /\ (todo'[1] = Events \/ todo'[1] = Call("create", 0))
    BY <1>38 DEF sketch, reader, PollEvents, Connect, Stop, Write, Read, Calls
  <2>3. Head(todo') = todo'[1]
    BY <2>2, CallsStep, TailFacts DEF CallTypes
  <2>4. ~Running("isr")' /\ ~Running("callback")'
    BY <2>2, <2>3, <1>7 DEF Running
  <2> QED BY <2>1, <2>4, Quiet
<1>39. CASE OfferPacket
  <2>1. /\ rx = << >> /\ queue # << >> /\ rx' = <<Head(queue)>> /\ newInterrupt' = TRUE
        /\ u8Interrupt' = (IF enabled THEN u8Interrupt + 1 ELSE u8Interrupt)
        /\ UNCHANGED <<enabled, u8HifRXDone, hif_receive_blocked, todo, info>>
    BY <1>39 DEF OfferPacket, Offer, socketVars
  <2>2. /\ enabled /\ ~newInterrupt /\ u8Interrupt = 0 /\ ~u8HifRXDone
        /\ ~Running("isr") /\ ~Running("callback")
        /\ \A s \in Sockets : ~(Remaining(s) > 0)
    BY <2>1 DEF Interrupts
  <2>3. /\ ~Running("isr")' /\ ~Running("callback")' /\ rx' # << >>
        /\ \A s \in Sockets : ~(Remaining(s)' > 0)
    BY <2>1, <2>2 DEF Running, Remaining
  <2> QED BY <2>1, <2>2, <2>3 DEF Interrupts
<1>40. CASE LoseLink \/ \E s \in Sockets : (\E ok \in BOOLEAN : Answer(s, ok))
                          \/ (\E n \in 1 .. MaxChunk : Arrive(s, n)) \/ Finish(s)
  <2>1. UNCHANGED <<u8Interrupt, enabled, u8HifRXDone, hif_receive_blocked,
                    rx, newInterrupt, todo, info>>
    BY <1>40 DEF LoseLink, Answer, Arrive, Finish, Queues, context, socketVars
  <2> QED BY <2>1, <1>5
<1>41. CASE UNCHANGED vars
  BY <1>41, <1>5 DEF vars, hifVars, context, socketVars
<1> QED
  BY <1>8, <1>9, <1>10, <1>11, <1>12, <1>15, <1>16, <1>17, <1>18, <1>19, <1>20, <1>21, <1>22, <1>26,
     <1>27, <1>28, <1>29, <1>30, <1>31, <1>32, <1>33, <1>34, <1>35, <1>36, <1>37, <1>38,
     <1>39, <1>40, <1>41
  DEF Next, library, hif, HifStep, m2m_ip_cb, chip, socketVars

-----------------------------------------------------------------------------
(***************************************************************************)
(* Types and the host interface.                                           *)
(***************************************************************************)

Base == Types /\ Shape /\ Interrupts

\* They hold initially,
LEMMA BaseInit == Init => Base
<1> SUFFICES ASSUME Init PROVE Base
  OBVIOUS
<1> USE SocketAssumption, FailuresAssumption DEF Init, HifInit
<1>1. CallTypes /\ Shape /\ QueueTypes /\ HistoryTypes
  BY DEF CallTypes, Shape, Ordered, QueueTypes, HistoryTypes
<1>2. FlagTypes
  <2>1. failures \in 0 .. MaxFailures /\ u8Interrupt \in Int
    OBVIOUS
  <2> QED BY <2>1 DEF FlagTypes
<1>3. SocketTypes
  BY DEF SocketTypes, Unused, Sockets, None
<1>4. InfoTypes
  <2>1. Invalid \in InfoSet
    BY DEF InfoSet, Invalid, NoMessage
  <2> QED BY <2>1 DEF InfoTypes
<1>5. ChipTypes
  BY DEF ChipTypes, NoPeer
<1>6. Interrupts
  BY DEF Interrupts, Running, Remaining, Invalid, NoMessage
<1> QED BY <1>1, <1>2, <1>3, <1>4, <1>5, <1>6 DEF Base, Types

\* are kept by every step,
LEMMA BaseStep == Base /\ [Next]_vars => Base'
BY CallsStep, FlagStep, QueueStep, SocketStep, InfoStep, ChipStep, HistoryStep, InterruptsStep
DEF Base, Types

\* and so hold always.
LEMMA BaseHolds == Spec => []Base
BY BaseInit, BaseStep, PTL DEF Spec

\* Whatever the chip and the peers do and however accesses to the bus fail, every
\* variable of the library keeps its type and its bounds: the count of interrupts
\* never leaves a byte, and no buffer is ever filled beyond its size.
THEOREM TypeCorrect == Spec => []TypeOK
<1>1. Base => TypeOK
  <2> SUFFICES ASSUME Base PROVE TypeOK
    OBVIOUS
  <2>1. u8Interrupt \in 0 .. 255
    BY DEF Base, Interrupts
  <2>2. FlagTypes /\ QueueTypes /\ SocketTypes
    BY DEF Base, Types
  <2>3. ASSUME NEW s \in Sockets
        PROVE  /\ info[s].state \in {"INVALID", "IDLE", "CONNECTING", "CONNECTED"}
               /\ Remaining(s) \in 0 .. MaxChunk
               /\ Len(info[s].buffer) <= SOCKET_BUFFER_SIZE
               /\ \A i \in 1 .. Len(info[s].buffer) : info[s].buffer[i] \in Bytes
    <3>1. info[s] \in InfoSet
      BY DEF Base, Types, InfoTypes
    <3> QED BY <3>1, SocketAssumption DEF InfoSet, Remaining
  <2>4. \A i \in 1 .. Len(got) : got[i] \in Bytes
    BY DEF Base, Types, HistoryTypes
  <2> QED BY <2>1, <2>2, <2>3, <2>4 DEF TypeOK, FlagTypes, QueueTypes, SocketTypes
<1> QED BY <1>1, BaseHolds, PTL

\* Every interrupt is served once and for the packet it was raised for, whichever
\* call handles events and however deep its handlers handle events in turn.
THEOREM InterruptsCorrect == Spec => []InterruptMatchesPacket
<1>1. Base => InterruptMatchesPacket
  BY DEF Base, Interrupts, InterruptMatchesPacket
<1> QED BY <1>1, BaseHolds, PTL
=============================================================================
