-------------------------- MODULE WiFiSessionProofs --------------------------
(***************************************************************************)
(* Theorems about the connections of the WiFi library: no socket is lost,  *)
(* and events are only blocked for the client's own socket.                *)
(*                                                                         *)
(* To the invariant of WiFiSocketProofs this one adds what ties the calls  *)
(* in progress, the table of sockets and the packets of the chip to each   *)
(* other.  Sessions: a socket in use has a session of its own.             *)
(* ConnectOnce: to the connect() of a session there is at most one reply,  *)
(* on its way in the chip, in the queue, or offered.  Tidy: a socket in    *)
(* use is the client's, and is connected, being connected or about to be   *)
(* closed; one not in use has nothing to read; the wait of a connect()     *)
(* finds no data.                                                          *)
(***************************************************************************)
EXTENDS WiFiSocketProofs

-----------------------------------------------------------------------------
(***************************************************************************)
(* What a step does to the pending calls.                                  *)
(***************************************************************************)

Copying == Running("copy") \/ Running("readEnd")
Unhandled == newInterrupt \/ Running("callback")

\* The calls of a list that is written out.
LEMMA CallsOfTuples ==
  /\ \A a : CallsOf(<<a>>) = {a}
  /\ \A a, b : CallsOf(<<a, b>>) = {a, b}
  /\ \A a, b, c : CallsOf(<<a, b, c>>) = {a, b, c}
  /\ \A a, b, c, d : CallsOf(<<a, b, c, d>>) = {a, b, c, d}
  /\ \A a, b, c, d, e : CallsOf(<<a, b, c, d, e>>) = {a, b, c, d, e}
<1>1. ASSUME NEW a PROVE CallsOf(<<a>>) = {a}
  BY DEF CallsOf
<1>2. ASSUME NEW a, NEW b PROVE CallsOf(<<a, b>>) = {a, b}
  <2>1. \A i \in 1 .. 2 : i = 1 \/ i = 2
    OBVIOUS
  <2> QED BY <2>1 DEF CallsOf
<1>3. ASSUME NEW a, NEW b, NEW c PROVE CallsOf(<<a, b, c>>) = {a, b, c}
  <2>1. \A i \in 1 .. 3 : i = 1 \/ i = 2 \/ i = 3
    OBVIOUS
  <2> QED BY <2>1 DEF CallsOf
<1>4. ASSUME NEW a, NEW b, NEW c, NEW d PROVE CallsOf(<<a, b, c, d>>) = {a, b, c, d}
  <2>1. \A i \in 1 .. 4 : i = 1 \/ i = 2 \/ i = 3 \/ i = 4
    OBVIOUS
  <2> QED BY <2>1 DEF CallsOf
<1>5. ASSUME NEW a, NEW b, NEW c, NEW d, NEW e
      PROVE  CallsOf(<<a, b, c, d, e>>) = {a, b, c, d, e}
  <2>1. \A i \in 1 .. 5 : i = 1 \/ i = 2 \/ i = 3 \/ i = 4 \/ i = 5
    OBVIOUS
  <2> QED BY <2>1 DEF CallsOf
<1> QED BY <1>1, <1>2, <1>3, <1>4, <1>5

\* What is pending after a step, for the lists of calls there are.
LEMMA After ==
  ASSUME CallTypes, Shape, todo # << >>
  PROVE  /\ Returns => Pending' = Rest
         /\ \A a \in CallSet : GoesOnWith(<<a>>) => Pending' = {a} \cup Rest
         /\ \A a, b \in CallSet : GoesOnWith(<<a, b>>) => Pending' = {a, b} \cup Rest
         /\ \A a, b, c \in CallSet : GoesOnWith(<<a, b, c>>) => Pending' = {a, b, c} \cup Rest
         /\ \A a, b, c, d \in CallSet :
              GoesOnWith(<<a, b, c, d>>) => Pending' = {a, b, c, d} \cup Rest
         /\ GoesOnWith(AllClosed) =>
              Rest \subseteq Pending' /\ \A c \in Pending' : c \in Rest \/ c.op \in {"events", "close"}
<1>1. ASSUME NEW calls \in Seq(CallSet), GoesOnWith(calls) PROVE Pending' = CallsOf(calls) \cup Rest
  BY <1>1, GoesPending
<1>2. Returns => Pending' = Rest
  BY ReturnsPending
<1>3. ASSUME NEW a \in CallSet, GoesOnWith(<<a>>) PROVE Pending' = {a} \cup Rest
  <2>1. <<a>> \in Seq(CallSet)
    OBVIOUS
  <2> QED BY <2>1, <1>1, <1>3, CallsOfTuples
<1>4. ASSUME NEW a \in CallSet, NEW b \in CallSet, GoesOnWith(<<a, b>>)
      PROVE  Pending' = {a, b} \cup Rest
  <2>1. <<a, b>> \in Seq(CallSet)
    OBVIOUS
  <2>2. Pending' = CallsOf(<<a, b>>) \cup Rest
    BY <2>1, <1>1, <1>4
  <2> QED BY <2>2, CallsOfTuples
<1>5. ASSUME NEW a \in CallSet, NEW b \in CallSet, NEW c \in CallSet, GoesOnWith(<<a, b, c>>)
      PROVE  Pending' = {a, b, c} \cup Rest
  <2>1. <<a, b, c>> \in Seq(CallSet)
    OBVIOUS
  <2>2. Pending' = CallsOf(<<a, b, c>>) \cup Rest
    BY <2>1, <1>1, <1>5
  <2> QED BY <2>2, CallsOfTuples
<1>6. ASSUME NEW a \in CallSet, NEW b \in CallSet, NEW c \in CallSet, NEW d \in CallSet,
             GoesOnWith(<<a, b, c, d>>)
      PROVE  Pending' = {a, b, c, d} \cup Rest
  <2>1. <<a, b, c, d>> \in Seq(CallSet)
    OBVIOUS
  <2>2. Pending' = CallsOf(<<a, b, c, d>>) \cup Rest
    BY <2>1, <1>1, <1>6
  <2> QED BY <2>2, CallsOfTuples
<1>7. ASSUME GoesOnWith(AllClosed)
      PROVE  Rest \subseteq Pending' /\ \A c \in Pending' : c \in Rest \/ c.op \in {"events", "close"}
  <2>1. Pending' = CallsOf(AllClosed) \cup Rest
    BY <1>1, <1>7, AllClosedFacts
  <2>2. \A c \in CallsOf(AllClosed) : c.op \in {"events", "close"}
    BY AllClosedFacts DEF CallsOf
  <2> QED BY <2>1, <2>2
<1> QED BY <1>2, <1>3, <1>4, <1>5, <1>6, <1>7

\* Below an operation there are only ones that may follow it.
LEMMA Below ==
  ASSUME CallTypes, Shape, NEW op, Running(op)
  PROVE  /\ todo # << >> /\ Head(todo).op = op /\ Head(todo) \in CallSet
         /\ Pending = {Head(todo)} \cup Rest
         /\ \A c \in Rest : c \in CallSet /\ Follows(op, c.op)
         /\ op \in Final => Rest = {}
<1>1. /\ todo # << >> /\ Head(todo).op = op /\ Head(todo) \in CallSet
      /\ Pending = {Head(todo)} \cup Rest
      /\ \A c \in Rest : c \in CallSet /\ Follows(op, c.op)
  BY HeadAndRest, TailFacts DEF Running, CallTypes
<1> QED BY <1>1 DEF Follows

\* Between calls nothing is pending.
LEMMA NothingPending == Idle => Pending = {}
BY DEF Idle, Pending

\* What is pending after a call of the sketch.
LEMMA Started ==
  ASSUME Idle
  PROVE  /\ Pending = {}
         /\ \A a : todo' = <<a>> => Pending' = {a}
         /\ \A a, b : todo' = <<a, b>> => Pending' = {a, b}
         /\ \A a, b, c : todo' = <<a, b, c>> => Pending' = {a, b, c}
         /\ \A a, b, c, d : todo' = <<a, b, c, d>> => Pending' = {a, b, c, d}
         /\ \A a, b, c, d, e : todo' = <<a, b, c, d, e>> => Pending' = {a, b, c, d, e}
<1>1. \A calls : todo' = calls => Pending' = CallsOf(calls)
  BY DEF Pending, CallsOf
<1> QED BY <1>1, CallsOfTuples, NothingPending

\* The pending calls that matter to the use of the sockets stay.
Keeps ==
  /\ \A op \in {"connecting", "forget", "create"} : PendingOp(op)' <=> PendingOp(op)
  /\ \A s \in Sockets : PendingClose(s) => PendingClose(s)'

\* A step of little interest.
Passive ==
  /\ UNCHANGED <<gastrSockets, gu16SessionID, info, theSocket, peers, queue, got, misled>>
  /\ Keeps
  /\ Unhandled' => Unhandled /\ UNCHANGED rx
  /\ hif_receive_blocked' => hif_receive_blocked
  /\ Running("release")' => UNCHANGED todo
  /\ Copying' => Copying \/ availableOn(theSocket) > 0

\* Neutral operations.
Neutral == {"events", "isr", "callback", "isrEnd"} \cup Reading

\* A neutral operation that returns, or goes on with neutral ones or a close, keeps the
\* pending calls that matter.
LEMMA KeepsReturning ==
  ASSUME CallTypes, Shape, NEW op \in Neutral, Running(op),
         NEW calls \in SUBSET CallSet, \A c \in calls : c.op \in Neutral \cup {"close"},
         Pending' = calls \cup Rest
  PROVE  Keeps
<1>1. Pending = {Head(todo)} \cup Rest /\ Head(todo).op = op
  BY Below
<1> QED BY <1>1 DEF Keeps, PendingOp, PendingClose, Neutral, Reading, Closing

\* The steps of the host interface, those that look, wait, write or return early, and the
\* calls that begin with the handling of events, are passive.
LEMMA PassiveSteps ==
  ASSUME Base,
         \/ hif \/ CallbackFails \/ connecting \/ look \/ lookOpen \/ readStart \/ send
         \/ PollEvents \/ Write \/ reader \/ (Connect /\ theSocket # None)
         \/ UNCHANGED vars
  PROVE  Passive
<1>1. CallTypes /\ Shape /\ Types /\ Interrupts
  BY DEF Base, Types
<1>2. /\ Events \in CallSet /\ Events.op = "events"
      /\ \A op \in {"isr", "callback", "isrEnd", "connecting", "stopFirst",
                   "look", "lookOpen", "readEnd", "send"} :
           Call(op, 0) \in CallSet /\ Call(op, 0).op = op
      /\ \A n \in Nat : /\ Call("copy", n) \in CallSet /\ Call("copy", n).op = "copy"
                        /\ Call("readStart", n) \in CallSet /\ Call("readStart", n).op = "readStart"
  BY CallTyped DEF Ops, Closing, Reading, Final
\* The parts of a passive step.
<1>3. ASSUME NEW op \in Neutral, Running(op), Returns PROVE Keeps
  <2>1. todo # << >>
    BY <1>3 DEF Running
  <2>2. Pending' = {} \cup Rest
    BY <2>1, <1>3, <1>1, After
  <2>3. {} \in SUBSET CallSet /\ \A c \in {} : c.op \in Neutral \cup {"close"}
    OBVIOUS
  <2> QED BY <2>2, <2>3, <1>3, <1>1, KeepsReturning
<1>4. ASSUME NEW op, Running(op), Returns
      PROVE  /\ ~Running("release")' /\ ~Running("callback")' /\ (op # "copy" => ~Copying')
  <2>1. todo # << >> /\ Head(todo).op = op
    BY <1>4 DEF Running
  <2> QED BY <2>1, <1>4, <1>1, NextReturns DEF Inner, Copying
<1>5. ASSUME NEW op, Running(op), NEW a \in CallSet, NEW b \in CallSet,
             GoesOnWith(<<a>>) \/ GoesOnWith(<<a, b>>)
      PROVE  \A o : Running(o)' <=> a.op = o
  BY <1>5, <1>1, NextIs DEF Running
<1>6. ASSUME NEW op \in Neutral, Running(op), NEW a \in CallSet, NEW b \in CallSet,
             GoesOnWith(<<a>>) \/ GoesOnWith(<<a, b>>),
             a.op \in Neutral, b.op \in Neutral
      PROVE  Keeps
  <2>1. todo # << >>
    BY <1>6 DEF Running
  <2>2. \/ Pending' = {a} \cup Rest
        \/ Pending' = {a, b} \cup Rest
    BY <2>1, <1>6, <1>1, After
  <2> QED BY <2>2, <1>6, <1>1, KeepsReturning
<1>7. CASE hif
  <2>1. UNCHANGED <<gastrSockets, gu16SessionID, info, theSocket, peers, queue, got, misled>>
    BY <1>7 DEF hif, HifStep, hif_handle_isr, FalseInterrupt, ClearFails, hif_isr, hif_isrEnd,
                hif_set_rx_done, socketVars, chipVars, history
  <2>2. CASE hif_handle_isr
    <3>1. Running("events") /\ UNCHANGED <<rx, newInterrupt, hif_receive_blocked>>
      BY <2>2 DEF hif_handle_isr
    <3>2. CASE Returns
      BY <3>1, <3>2, <2>1, <1>3, <1>4 DEF Passive, Neutral, Unhandled
    <3>3. CASE GoesOnWith(<<Call("isr", 0), Events>>)
      <4>1. Keeps
        BY <3>1, <3>3, <1>2, <1>6 DEF Neutral
      <4>2. \A o : Running(o)' <=> o = "isr"
        BY <3>1, <3>3, <1>2, <1>5
      <4> QED BY <3>1, <4>1, <4>2, <2>1 DEF Passive, Unhandled, Copying
    <3> QED BY <3>2, <3>3, <2>2 DEF hif_handle_isr
  <2>3. CASE FalseInterrupt
    BY <2>3, <2>1, <1>3, <1>4 DEF FalseInterrupt, Passive, Neutral, Unhandled, context
  <2>4. CASE ClearFails
    BY <2>4, <2>1 DEF ClearFails, Passive, Keeps, PendingOp, PendingClose, Pending, Unhandled,
                      Copying, Running
  <2>5. ASSUME NEW ok \in BOOLEAN, hif_isr(ok) PROVE Passive
    <3>1. Running("isr") /\ newInterrupt /\ UNCHANGED <<rx, hif_receive_blocked>>
      BY <2>5 DEF hif_isr
    <3>2. CASE UNCHANGED todo
      BY <3>1, <3>2, <2>1 DEF Passive, Keeps, PendingOp, PendingClose, Pending, Unhandled,
                              Copying, Running
    <3>3. CASE GoesOnWith(<<Call("callback", 0), Call("isrEnd", 0)>>)
      <4>1. Keeps
        BY <3>1, <3>3, <1>2, <1>6 DEF Neutral
      <4>2. \A o : Running(o)' <=> o = "callback"
        BY <3>1, <3>3, <1>2, <1>5
      <4> QED BY <3>1, <4>1, <4>2, <2>1 DEF Passive, Unhandled, Copying
    <3> QED BY <3>2, <3>3, <2>5 DEF hif_isr
  <2>6. CASE hif_isrEnd
    <3>1. Running("isrEnd") /\ UNCHANGED newInterrupt /\ (hif_receive_blocked' => hif_receive_blocked)
          /\ (UNCHANGED rx \/ ~newInterrupt)
      BY <2>6, <1>1 DEF hif_isrEnd, hif_set_rx_done, context, Interrupts
    <3>2. CASE Returns
      BY <3>1, <3>2, <2>1, <1>3, <1>4 DEF Passive, Neutral, Unhandled
    <3>3. CASE GoesOnWith(<<Call("isr", 0)>>)
      <4>1. Keeps
        BY <3>1, <3>3, <1>2, <1>6 DEF Neutral
      <4>2. \A o : Running(o)' <=> o = "isr"
        BY <3>1, <3>3, <1>2, <1>5
      <4> QED BY <3>1, <4>1, <4>2, <2>1 DEF Passive, Unhandled, Copying
    <3> QED BY <3>2, <3>3, <2>6 DEF hif_isrEnd
  <2> QED BY <1>7, <2>2, <2>3, <2>4, <2>5, <2>6 DEF hif, HifStep
<1>8. CASE CallbackFails
  <2>1. /\ Running("callback") /\ Returns /\ UNCHANGED <<newInterrupt, queue>>
        /\ (hif_receive_blocked' => hif_receive_blocked)
        /\ UNCHANGED <<gastrSockets, gu16SessionID, info, theSocket, peers, got, misled>>
    <3>1. /\ Running("callback") /\ Returns
          /\ UNCHANGED <<gastrSockets, gu16SessionID, info, theSocket, peers, got, misled>>
      BY <1>8 DEF CallbackFails, socketVars, chipVars, history
    <3>2. UNCHANGED <<newInterrupt, queue>> /\ (hif_receive_blocked' => hif_receive_blocked)
      <4>1. CASE UNCHANGED <<context, queue, rx, newInterrupt>>
        BY <4>1 DEF context
      <4>2. CASE hif_set_rx_done("done", FALSE)
        BY <4>2 DEF hif_set_rx_done
      <4> QED BY <4>1, <4>2, <1>8 DEF CallbackFails, ReceiveFails
    <3> QED BY <3>1, <3>2
  <2>2. ~newInterrupt
    BY <2>1, <1>1 DEF Interrupts
  <2> QED BY <2>1, <2>2, <1>3, <1>4 DEF Passive, Neutral, Unhandled
\* The rest leaves the host interface alone.
<1>9. ASSUME hifQuiet, UNCHANGED <<gastrSockets, gu16SessionID, info, theSocket, peers, got, misled>>,
             Keeps, Running("callback")' => Running("callback"),
             Running("release")' => UNCHANGED todo, Copying' => Copying \/ availableOn(theSocket) > 0
      PROVE  Passive
  BY <1>9 DEF Passive, hifQuiet, context, Unhandled
<1>10. CASE connecting
  <2>1. Running("connecting") /\ hifQuiet /\ GoesOnWith(<<Events, Call("connecting", 0)>>)
        /\ UNCHANGED <<gastrSockets, gu16SessionID, info, theSocket, peers, got, misled>>
    BY <1>10 DEF connecting, socketVars, chipVars, history
  <2>2. Pending = {Head(todo)} /\ Head(todo).op = "connecting" /\ todo # << >> /\ Rest = {}
    BY <2>1, <1>1, Below DEF Final
  <2>3. Pending' = {Events, Call("connecting", 0)}
    BY <2>1, <2>2, <1>1, <1>2, After
  <2>4. Keeps
    BY <2>2, <2>3, <1>2 DEF Keeps, PendingOp, PendingClose, Closing
  <2>5. \A o : Running(o)' <=> o = "events"
    BY <2>1, <1>2, <1>5
  <2> QED BY <2>1, <2>4, <2>5, <1>9 DEF Copying
<1>11. CASE look \/ lookOpen
  <2>1. (Running("look") \/ Running("lookOpen")) /\ hifQuiet /\ (Returns \/ todo' = << >>)
        /\ UNCHANGED <<gastrSockets, gu16SessionID, info, theSocket, peers, got, misled>>
    BY <1>11 DEF look, lookOpen, Looks, socketVars, chipVars, history
  <2>2. CASE todo' = << >>
    <3>1. Pending' = {}
      BY <2>2 DEF Pending
    <3>2. \A c \in Pending : c.op \in Reading \cup {"events"}
      BY <2>1, <1>1, Below DEF Follows, Reading
    <3>3. Keeps
      BY <3>1, <3>2 DEF Keeps, PendingOp, PendingClose, Reading, Closing
    <3>4. \A o : ~Running(o)'
      BY <2>2 DEF Running
    <3> QED BY <2>1, <3>3, <3>4, <1>9 DEF Copying
  <2> QED BY <2>1, <2>2, <1>3, <1>4, <1>9 DEF Neutral, Reading
<1>12. CASE readStart
  <2>1. Running("readStart") /\ hifQuiet
        /\ UNCHANGED <<gastrSockets, gu16SessionID, info, theSocket, peers, got, misled>>
    BY <1>12 DEF readStart, socketVars, chipVars, history
  <2>2. CASE Returns
    BY <2>1, <2>2, <1>3, <1>4, <1>9 DEF Neutral, Reading
  <2> DEFINE n == readSize(Head(todo).arg)
  <2>3. CASE GoesOnWith(<<Call("copy", n), Call("readEnd", 0)>>) /\ availableOn(theSocket) > 0
    <3>1. Head(todo).arg \in Nat /\ theSocket \in Sockets
      BY <2>1, <1>1, RunningFacts, CallOps DEF Types, UsesSocket, Reading
    <3>2. n \in Nat
      BY <3>1, <1>1, Lengths DEF readSize, Smaller, Types
    <3> HIDE DEF n
    <3>3. Keeps
      BY <2>1, <2>3, <3>2, <1>2, <1>6 DEF Neutral, Reading
    <3>4. \A o : Running(o)' <=> o = "copy"
      <4>1. /\ Call("copy", n) \in CallSet /\ Call("copy", n).op = "copy"
            /\ Call("readEnd", 0) \in CallSet
        BY <3>2, <1>2
      <4> QED BY <2>1, <2>3, <4>1, <1>5
    <3> QED BY <2>1, <2>3, <3>3, <3>4, <1>9 DEF Copying
  <2> QED BY <2>2, <2>3, <1>12 DEF readStart
<1>13. CASE send
  <2>1. Running("send") /\ hifQuiet /\ (Returns \/ GoesOnWith(<<Events, Call("send", 0)>>))
        /\ UNCHANGED <<gastrSockets, gu16SessionID, info, theSocket, peers, got, misled>>
    BY <1>13 DEF send, socketVars, chipVars, history
  <2>2. CASE Returns
    BY <2>1, <2>2, <1>3, <1>4, <1>9 DEF Neutral, Reading
  <2>3. CASE GoesOnWith(<<Events, Call("send", 0)>>)
    <3>1. Keeps
      BY <2>1, <2>3, <1>2, <1>6 DEF Neutral, Reading
    <3>2. \A o : Running(o)' <=> o = "events"
      BY <2>1, <2>3, <1>2, <1>5
    <3> QED BY <2>1, <3>1, <3>2, <1>9 DEF Copying
  <2> QED BY <2>1, <2>2, <2>3
<1>14. CASE PollEvents \/ Write \/ reader \/ (Connect /\ theSocket # None)
  <2>1. Idle /\ hifQuiet
        /\ UNCHANGED <<gastrSockets, gu16SessionID, info, theSocket, peers, got, misled>>
    BY <1>14 DEF PollEvents, Write, reader, Read, Connect, Calls, socketVars, chipVars, history
  <2>2. /\ Pending = {}
        /\ \A c \in Pending' :
             c.op \in {"events", "look", "lookOpen", "readStart", "send", "stopFirst"}
    <3>1. CASE PollEvents
      BY <3>1, <2>1, <1>2, Started DEF PollEvents, Calls
    <3>2. CASE Write
      <4>1. todo' = <<Events, Call("lookOpen", 0), Events, Call("lookOpen", 0), Call("send", 0)>>
        BY <3>2 DEF Write, Calls
      <4>2. Pending' = {Events, Call("lookOpen", 0), Events, Call("lookOpen", 0), Call("send", 0)}
        BY <4>1, <2>1, Started
      <4> QED BY <4>2, <2>1, <1>2, NothingPending
    <3>3. ASSUME NEW n \in 1 .. MaxRead, Read(n)
          PROVE  /\ Pending = {}
                 /\ \A c \in Pending' :
                      c.op \in {"events", "look", "lookOpen", "readStart", "send", "stopFirst"}
      <4>1. todo' = <<Events, Call("look", 0), Events, Call("readStart", n)>> /\ n \in Nat
        BY <3>3, SocketAssumption DEF Read, Calls
      <4>2. Pending' = {Events, Call("look", 0), Events, Call("readStart", n)}
        BY <4>1, <2>1, Started
      <4> QED BY <4>1, <4>2, <2>1, <1>2, NothingPending
    <3>4. CASE (Connect /\ theSocket # None)
      <4>1. todo' = <<Events, Call("stopFirst", 0)>>
        BY <3>4 DEF Connect, Calls
      <4>2. Pending' = {Events, Call("stopFirst", 0)}
        BY <4>1, <2>1, Started
      <4> QED BY <4>2, <2>1, <1>2, NothingPending
    <3> QED BY <3>1, <3>2, <3>3, <3>4, <1>14 DEF reader
  <2>3. Keeps
    BY <2>2 DEF Keeps, PendingOp, PendingClose, Closing
  <2>4. todo' # << >> /\ todo'[1] = Events
    BY <1>14 DEF PollEvents, Write, reader, Read, Connect, Calls
  <2>5. todo' \in Seq(CallSet)
    <3>1. [Next]_vars
      BY <1>14 DEF Next, sketch
    <3> QED BY <3>1, <1>1, CallsStep DEF CallTypes
  <2>6. \A o : Running(o)' => o = "events"
    BY <2>4, <2>5, <1>2, TailFacts DEF Running
  <2> QED BY <2>1, <2>3, <2>6, <1>9 DEF Copying
<1>15. CASE UNCHANGED vars
  BY <1>15 DEF vars, hifVars, socketVars, chipVars, history, context, Passive, Keeps, PendingOp,
              PendingClose, Pending, Unhandled, Copying, Running
<1> QED BY <1>7, <1>8, <1>10, <1>11, <1>12, <1>13, <1>14, <1>15

-----------------------------------------------------------------------------
(***************************************************************************)
(* Sessions.  A socket in use has one of its own; no packet and no peer is *)
(* of a session that has not begun.                                        *)
(***************************************************************************)

Used(s) == gastrSockets[s].bIsUsed
Session(s) == gastrSockets[s].u16SessionID

Known(p) == p.session <= gu16SessionID /\ (p.type = "recv" => p.session > 0)

TableSessions ==
  \A s \in Sockets : /\ IF Used(s) THEN Session(s) > 0 ELSE gastrSockets[s] = Unused
                     /\ Session(s) <= gu16SessionID
                     /\ \A r \in Sockets : Used(r) /\ Used(s) /\ Session(r) = Session(s) => r = s
PeerSessions ==
  \A s \in Sockets : /\ peers[s].session <= gu16SessionID
                     /\ peers[s].asked => peers[s].session > 0
PacketSessions ==
  /\ \A i \in 1 .. Len(queue) : Known(queue[i])
  /\ rx # << >> => Known(Head(rx))

Sessions == TableSessions /\ PeerSessions /\ PacketSessions

\* The chip hands packets on.
LEMMA PacketsKnown ==
  ASSUME Types, Types', Sessions, gu16SessionID' >= gu16SessionID,
         \/ UNCHANGED <<queue, rx>>
         \/ rx' = << >> /\ UNCHANGED queue
         \/ rx = << >> /\ queue # << >> /\ rx' = <<Head(queue)>> /\ queue' = Tail(queue)
         \/ \E p \in PacketSet : Known(p) /\ UNCHANGED rx /\ queue' = Append(queue, p)
  PROVE  PacketSessions'
<1>1. /\ queue \in Seq(PacketSet) /\ rx \in Seq(PacketSet) /\ gu16SessionID \in Nat
      /\ gu16SessionID' \in Nat
  BY SocketAssumption DEF Types, QueueTypes, SocketTypes
<1> DEFINE Knows(p) == p.session <= gu16SessionID' /\ (p.type = "recv" => p.session > 0)
<1>2. ASSUME NEW p \in PacketSet, Known(p) PROVE Knows(p)
  BY <1>1, <1>2 DEF Known, PacketSet
<1>3. ASSUME \A i \in 1 .. Len(queue') : Knows(queue'[i]), rx' # << >> => Knows(Head(rx'))
      PROVE  PacketSessions'
  BY <1>3 DEF PacketSessions, Known
<1>4. \A i \in 1 .. Len(queue) : queue[i] \in PacketSet /\ Knows(queue[i])
  BY <1>1, <1>2 DEF Sessions, PacketSessions
<1>5. rx # << >> => Knows(Head(rx))
  BY <1>1, <1>2, TailFacts DEF Sessions, PacketSessions
<1> HIDE DEF Knows
<1>6. CASE UNCHANGED rx /\ UNCHANGED queue
  BY <1>4, <1>5, <1>6, <1>3
<1>7. CASE rx' = << >> /\ UNCHANGED queue
  BY <1>4, <1>7, <1>3
<1>8. CASE queue # << >> /\ rx' = <<Head(queue)>> /\ queue' = Tail(queue)
  <2>1. /\ Head(queue) = queue[1] /\ Len(Tail(queue)) = Len(queue) - 1 /\ Len(queue) \in Nat /\ Len(queue) > 0
        /\ \A i \in 1 .. Len(queue) - 1 : Tail(queue)[i] = queue[i + 1]
    BY <1>1, <1>8, TailFacts
  <2>2. Head(rx') = queue[1]
    <3>1. rx' = <<queue[1]>>
      BY <1>8, <2>1
    <3> QED BY <3>1
  <2>3. 1 \in 1 .. Len(queue)
    BY <2>1
  <2>4. ASSUME NEW i \in 1 .. Len(queue') PROVE Knows(queue'[i])
    <3>1. Len(queue') = Len(queue) - 1 /\ queue' = Tail(queue)
      BY <1>8, <2>1
    <3>2. Len(queue) \in Nat
      BY <2>1
    <3>3. i \in 1 .. Len(queue) - 1 /\ i + 1 \in 1 .. Len(queue)
      BY <3>1, <3>2
    <3> QED BY <3>1, <3>3, <2>1, <1>4
  <2> QED BY <2>2, <2>4, <2>3, <1>4, <1>3
<1>9. ASSUME NEW p \in PacketSet, Known(p), UNCHANGED rx, queue' = Append(queue, p)
      PROVE  PacketSessions'
  <2>1. /\ Len(queue') = Len(queue) + 1 /\ Len(queue) \in Nat
        /\ \A i \in 1 .. Len(queue) : queue'[i] = queue[i]
        /\ queue'[Len(queue) + 1] = p
    BY <1>1, <1>9, AppendFacts
  <2>2. ASSUME NEW i \in 1 .. Len(queue') PROVE Knows(queue'[i])
    <3>1. i \in 1 .. Len(queue) \/ i = Len(queue) + 1
      BY <2>1
    <3> QED BY <3>1, <2>1, <1>2, <1>4, <1>9
  <2> QED BY <1>5, <1>9, <2>2, <1>3
<1> QED BY <1>6, <1>7, <1>8, <1>9

\* The sessions of the table, of the peers and of the packets stay as they should be.
LEMMA SessionsStep == Base /\ Base' /\ Sessions /\ [Next]_vars => Sessions'
<1> SUFFICES ASSUME Base, Base', Sessions, [Next]_vars PROVE Sessions'
  OBVIOUS
<1>1. Types /\ Types' /\ Shape /\ Interrupts
  BY DEF Base
<1>2. /\ gastrSockets \in [Sockets -> [bIsUsed : BOOLEAN, u16SessionID : 0 .. MaxSessions,
                                      bIsRecvPending : BOOLEAN]]
      /\ peers \in [Sockets -> [session : 0 .. MaxSessions, phase : {"none", "connecting", "open"},
                               asked : BOOLEAN, sent : 0 .. StreamLength]]
      /\ gu16SessionID \in Nat /\ \A s \in Sockets : Session(s) \in Nat /\ peers[s].session \in Nat
  BY <1>1, SocketAssumption DEF Types, SocketTypes, ChipTypes, Session
<1>3. UNCHANGED <<gastrSockets, gu16SessionID>> => TableSessions'
  BY DEF Sessions, TableSessions, Used, Session
<1>4. UNCHANGED <<peers, gu16SessionID>> => PeerSessions'
  BY DEF Sessions, PeerSessions
<1>5. \/ UNCHANGED <<queue, rx>>
      \/ rx' = << >> /\ UNCHANGED queue
      \/ rx = << >> /\ queue # << >> /\ rx' = <<Head(queue)>> /\ queue' = Tail(queue)
      \/ UNCHANGED rx /\ \E p \in PacketSet : queue' = Append(queue, p)
  BY <1>1, PacketStep
<1>6. ASSUME gu16SessionID' = gu16SessionID \/ gu16SessionID' = gu16SessionID + 1,
             \A p \in PacketSet : queue' # Append(queue, p)
      PROVE  PacketSessions'
  <2>1. gu16SessionID' >= gu16SessionID
    BY <1>6, <1>2
  <2> QED BY <2>1, <1>5, <1>6, <1>1, PacketsKnown
<1>7. ASSUME UNCHANGED queue PROVE \A p \in PacketSet : queue' # Append(queue, p)
  <2> SUFFICES ASSUME NEW p \in PacketSet, queue = Append(queue, p) PROVE FALSE
    BY <1>7
  <2>1. queue \in Seq(PacketSet)
    BY <1>1 DEF Types, QueueTypes
  <2>2. Len(queue) = Len(queue) + 1 /\ Len(queue) \in Nat
    BY <2>1, AppendFacts
  <2> QED BY <2>2
<1>8. ASSUME UNCHANGED queue, gu16SessionID' = gu16SessionID \/ gu16SessionID' = gu16SessionID + 1
      PROVE  PacketSessions'
  BY <1>8, <1>6, <1>7
\* The library changes the chip's end of a socket by a request.
<1>9. ASSUME NEW s \in Sockets, NEW p, Request(s, p), UNCHANGED gu16SessionID,
             p.session <= gu16SessionID, p.asked => p.session > 0
      PROVE  PeerSessions'
  BY <1>9, <1>2 DEF Request, Sessions, PeerSessions
<1>10. CASE hif \/ CallbackFails \/ ConnectReply \/ Disconnected \/ close \/ stopFirst \/ forget
            \/ connecting \/ connectFails \/ look \/ lookOpen \/ readStart \/ copyFill \/ copy
            \/ send \/ sketch \/ UNCHANGED vars
  <2>1. UNCHANGED <<gastrSockets, gu16SessionID, peers, queue>>
    <3>1. CASE hif
      BY <3>1 DEF hif, HifStep, hif_handle_isr, FalseInterrupt, ClearFails, hif_isr, hif_isrEnd,
                  hif_set_rx_done, socketVars, chipVars
    <3>2. CASE CallbackFails \/ ConnectReply \/ Disconnected \/ close
      BY <3>2 DEF CallbackFails, ReceiveFails, ConnectReply, Disconnected, Received, close,
                  Discard, hif_set_rx_done, socketVars, chipVars
    <3>3. CASE copyFill
      BY <3>3 DEF copyFill, fillRecvBuffer, hif_set_rx_done, chipVars
    <3>4. CASE stopFirst \/ forget \/ connecting \/ connectFails \/ look \/ lookOpen
               \/ readStart \/ copy \/ send \/ sketch \/ UNCHANGED vars
      BY <3>4 DEF stopFirst, forget, connecting, connectFails, look, lookOpen, Looks, readStart,
                  copy, send, sketch, reader, PollEvents, Connect, Stop, Write, Read, Calls,
                  hifQuiet, socketVars, chipVars, vars, hifVars
    <3> QED BY <1>10, <3>1, <3>2, <3>3, <3>4
  <2> QED BY <2>1, <1>3, <1>4, <1>8 DEF Sessions
<1>11. CASE DataReply \/ DiscardReply \/ StatusReply
  <2>1. UNCHANGED <<gu16SessionID, peers, queue>> /\ Running("callback") /\ NotPending(Head(rx).sock)
    BY <1>11 DEF DataReply, DiscardReply, StatusReply, Discard, Received, fillRecvBuffer,
                hif_set_rx_done, Handling, chipVars
  <2>2. Head(rx).sock \in Sockets
    BY <2>1, <1>1, HeadPacket DEF Types
  <2>3. \A s \in Sockets : /\ Used(s)' = Used(s) /\ Session(s)' = Session(s)
                           /\ gastrSockets[s] = Unused => gastrSockets'[s] = Unused
    <3> DEFINE s == Head(rx).sock
    <3>1. gastrSockets' = [gastrSockets EXCEPT ![s].bIsRecvPending = FALSE] /\ s \in Sockets
      BY <2>1, <2>2 DEF NotPending
    <3> HIDE DEF s
    <3>2. /\ gastrSockets'[s] = [gastrSockets[s] EXCEPT !.bIsRecvPending = FALSE]
          /\ \A r \in Sockets : r # s => gastrSockets'[r] = gastrSockets[r]
      BY <3>1, <1>2
    <3>3. gastrSockets[s] = Unused => [gastrSockets[s] EXCEPT !.bIsRecvPending = FALSE] = Unused
      <4> SUFFICES ASSUME gastrSockets[s] = Unused
                   PROVE  [gastrSockets[s] EXCEPT !.bIsRecvPending = FALSE] = Unused
        OBVIOUS
      <4> DEFINE t == gastrSockets[s]
      <4>1. t.bIsRecvPending = FALSE
            /\ t \in [bIsUsed : BOOLEAN, u16SessionID : 0 .. MaxSessions, bIsRecvPending : BOOLEAN]
        BY <3>1, <1>2 DEF Unused
      <4> HIDE DEF t
      <4>2. [t EXCEPT !.bIsRecvPending = FALSE] = t
        BY <4>1
      <4> QED BY <4>2 DEF t
    <3> QED BY <3>1, <3>2, <3>3, <1>2 DEF Used, Session
  <2>4. TableSessions'
    BY <2>1, <2>3 DEF Sessions, TableSessions
  <2> QED BY <2>1, <2>4, <1>4, <1>8 DEF Sessions
<1>12. CASE release
  <2>1. PICK s \in Sockets : closeSocket(s) /\ UNCHANGED <<gu16SessionID, queue>>
    BY <1>12, <1>1, RunningFacts DEF release, Types, Closing
  <2>2. CASE Used(s)
    <3>1. gastrSockets' = [gastrSockets EXCEPT ![s] = Unused]
      BY <2>1, <2>2 DEF closeSocket, Used
    <3>2. \A r \in Sockets : IF r = s THEN gastrSockets'[r] = Unused ELSE gastrSockets'[r] = gastrSockets[r]
      BY <3>1, <2>1, <1>2
    <3>3. TableSessions'
      <4>1. ~Used(s)' /\ Session(s)' = 0
        <5>1. gastrSockets'[s] = Unused /\ ~Unused.bIsUsed /\ Unused.u16SessionID = 0
          BY <3>2, <2>1 DEF Unused
        <5> QED BY <5>1 DEF Used, Session
      <4>2. \A r \in Sockets : r # s => Used(r)' = Used(r) /\ Session(r)' = Session(r)
        BY <3>2 DEF Used, Session
      <4>3. ASSUME NEW r \in Sockets
            PROVE  IF Used(r)' THEN Session(r)' > 0 ELSE gastrSockets'[r] = Unused
        BY <3>2, <4>1, <4>2 DEF Sessions, TableSessions
      <4>4. ASSUME NEW r \in Sockets
            PROVE  Session(r)' <= gu16SessionID'
        BY <4>1, <4>2, <2>1, <1>2 DEF Sessions, TableSessions
      <4>5. ASSUME NEW r \in Sockets, NEW t \in Sockets, Used(r)', Used(t)', Session(r)' = Session(t)'
            PROVE  r = t
        BY <4>1, <4>2, <4>5 DEF Sessions, TableSessions
      <4> QED BY <4>3, <4>4, <4>5 DEF TableSessions
    <3>4. PICK p : Request(s, p) /\ (p = NoPeer \/ p = peers[s])
      BY <2>1, <2>2 DEF closeSocket, Used
    <3>5. p.session <= gu16SessionID /\ (p.asked => p.session > 0)
      BY <3>4, <2>1, <1>2 DEF Sessions, PeerSessions, NoPeer
    <3>6. PeerSessions'
      BY <3>4, <3>5, <2>1, <1>9
    <3> QED BY <3>3, <3>6, <2>1, <1>8 DEF Sessions
  <2>3. CASE ~Used(s)
    BY <2>1, <2>3, <1>3, <1>4, <1>8 DEF closeSocket, Used, Sessions
  <2> QED BY <2>2, <2>3
<1>13. CASE create
  <2>1. UNCHANGED queue
    BY <1>13 DEF create, hifQuiet
  <2>2. CASE createFails
    BY <2>1, <2>2, <1>3, <1>4, <1>8 DEF createFails, Sessions
  <2>3. ASSUME NEW s \in Sockets, createOn(s) PROVE Sessions'
    <3>1. gu16SessionID' = gu16SessionID + 1
      BY <2>3 DEF createOn, newSession
    <3>2. gastrSockets' = [gastrSockets EXCEPT ![s] =
            [bIsUsed |-> TRUE, u16SessionID |-> gu16SessionID', bIsRecvPending |-> FALSE]]
      BY <2>3 DEF createOn
    <3>3. /\ Used(s)' /\ Session(s)' = gu16SessionID + 1
          /\ \A r \in Sockets : r # s => gastrSockets'[r] = gastrSockets[r]
      BY <3>1, <3>2, <1>2 DEF Used, Session
    <3>4. TableSessions'
      <4>1. \A r \in Sockets : r # s => (Used(r)' <=> Used(r)) /\ Session(r)' = Session(r)
        BY <3>3 DEF Used, Session
      <4>2. ASSUME NEW r \in Sockets
            PROVE  /\ IF Used(r)' THEN Session(r)' > 0 ELSE gastrSockets'[r] = Unused
                   /\ Session(r)' <= gu16SessionID'
        BY <4>1, <3>1, <3>3, <1>2 DEF Sessions, TableSessions
      <4>3. \A r \in Sockets : r # s => Session(r)' # Session(s)'
        BY <4>1, <3>3, <1>2 DEF Sessions, TableSessions
      <4>4. ASSUME NEW r \in Sockets, NEW q \in Sockets, Used(r)', Used(q)', Session(r)' = Session(q)'
            PROVE  r = q
        BY <4>1, <4>3, <4>4 DEF Sessions, TableSessions
      <4> QED BY <4>2, <4>4 DEF TableSessions
    <3>5. \A r \in Sockets : \/ peers'[r] = peers[r]
                             \/ peers'[r].session = gu16SessionID + 1
      BY <2>3, <3>1, <1>2 DEF createOn
    <3>6. PeerSessions'
      BY <3>1, <3>5, <1>2 DEF Sessions, PeerSessions
    <3> QED BY <2>1, <3>1, <3>4, <3>6, <1>8 DEF Sessions
  <2> QED BY <2>2, <2>3, <1>13 DEF create
<1>14. CASE connectDone \/ readEnd
  <2> DEFINE s == theSocket
  <2>1. s \in Sockets /\ UNCHANGED <<gu16SessionID, queue>>
        /\ (recv(s) \/ UNCHANGED <<gastrSockets, peers>>)
    BY <1>14, <1>1, RunningFacts DEF connectDone, readEnd, Types, UsesSocket, Reading, hifQuiet
  <2> HIDE DEF s
  <2>2. CASE recv(s) /\ ~UNCHANGED <<gastrSockets, peers>>
    <3>1. /\ gastrSockets' = [gastrSockets EXCEPT ![s].bIsRecvPending = TRUE] /\ Used(s)
      BY <2>2 DEF recv, Used
    <3>2. \A r \in Sockets : /\ Used(r)' = Used(r) /\ Session(r)' = Session(r)
                             /\ r # s => gastrSockets'[r] = gastrSockets[r]
      BY <3>1, <2>1, <1>2 DEF Used, Session
    <3>3. TableSessions'
      BY <3>1, <3>2, <2>1 DEF Sessions, TableSessions
    <3>4. PICK p : /\ Request(s, p)
                   /\ p = IF peers[s].session = Session(s)
                          THEN [peers[s] EXCEPT !.asked = TRUE] ELSE peers[s]
      BY <2>2 DEF recv, Session
    <3>5. p.session <= gu16SessionID /\ (p.asked => p.session > 0)
      BY <3>1, <3>4, <2>1, <1>2 DEF Sessions, TableSessions, PeerSessions
    <3>6. PeerSessions'
      BY <3>4, <3>5, <2>1, <1>9
    <3> QED BY <3>3, <3>6, <2>1, <1>8 DEF Sessions
  <2> QED BY <2>1, <2>2, <1>3, <1>4, <1>8 DEF Sessions
\* The chip.
<1>15. ASSUME NEW p \in PacketSet, Queues(p), Known(p) PROVE TableSessions' /\ PacketSessions'
  <2>1. UNCHANGED <<gastrSockets, gu16SessionID, rx>> /\ queue' = Append(queue, p)
    BY <1>15 DEF Queues, socketVars
  <2>2. gu16SessionID' >= gu16SessionID
    BY <2>1, <1>2
  <2> QED BY <2>1, <2>2, <1>3, <1>1, <1>15, PacketsKnown
<1>16. CASE LoseLink
  <2> DEFINE p == Packet("disconnected", 0, 0, FALSE, << >>)
  <2>1. p \in PacketSet /\ Known(p)
    BY <1>2, SocketAssumption DEF Packet, PacketSet, Sockets, Known
  <2>2. PeerSessions'
    BY <1>16, <1>2 DEF LoseLink, PeerSessions, NoPeer, Queues, socketVars
  <2> QED BY <2>1, <2>2, <1>16, <1>15 DEF LoseLink, Sessions
<1>17. ASSUME NEW s \in Sockets, NEW p, peers' = [peers EXCEPT ![s] = p], UNCHANGED gu16SessionID,
              p.session <= gu16SessionID, p.asked => p.session > 0
       PROVE  PeerSessions'
  BY <1>17, <1>2 DEF Sessions, PeerSessions
<1>18. ASSUME NEW s \in Sockets, NEW ok \in BOOLEAN, Answer(s, ok) PROVE Sessions'
  <2> DEFINE p == Packet("connect", s, peers[s].session, ok, << >>)
  <2>1. p \in PacketSet /\ Known(p)
    BY <1>2, SocketAssumption DEF Packet, PacketSet, Known, Sessions, PeerSessions
  <2>2. PICK q : peers' = [peers EXCEPT ![s] = q] /\ (q = NoPeer \/ q = [peers[s] EXCEPT !.phase = "open"])
    BY <1>18, <1>2 DEF Answer
  <2>3. q.session <= gu16SessionID /\ (q.asked => q.session > 0)
    BY <2>2, <1>2 DEF Sessions, PeerSessions, NoPeer
  <2>4. PeerSessions'
    BY <2>2, <2>3, <1>18, <1>17 DEF Answer, Queues, socketVars
  <2> QED BY <2>1, <2>4, <1>18, <1>15 DEF Answer, Sessions
<1>19. ASSUME NEW s \in Sockets, NEW n \in 1 .. MaxChunk, Arrive(s, n) PROVE Sessions'
  <2> DEFINE p == Packet("recv", s, peers[s].session, TRUE, Data(s, n))
  <2>1. p \in PacketSet
    BY <1>19, <1>1, PacketTypes
  <2>2. Known(p)
    BY <1>19, <1>2 DEF Arrive, Packet, Known, Sessions, PeerSessions
  <2> DEFINE q == [peers[s] EXCEPT !.asked = FALSE, !.sent = @ + n]
  <2>3. peers' = [peers EXCEPT ![s] = q]
    BY <1>19, <1>2 DEF Arrive
  <2>4. q.session <= gu16SessionID /\ ~q.asked
    BY <1>2 DEF Sessions, PeerSessions
  <2>5. PeerSessions'
    <3> HIDE DEF q
    <3> QED BY <2>3, <2>4, <1>19, <1>17 DEF Arrive, Queues, socketVars
  <2> QED BY <2>1, <2>2, <2>5, <1>19, <1>15 DEF Arrive, Sessions
<1>20. ASSUME NEW s \in Sockets, Finish(s) PROVE Sessions'
  <2> DEFINE p == Packet("recv", s, peers[s].session, FALSE, << >>)
  <2>1. p \in PacketSet
    BY <1>1, PacketTypes
  <2>2. Known(p)
    BY <1>20, <1>2 DEF Finish, Packet, Known, Sessions, PeerSessions
  <2>3. PeerSessions'
    <3>1. peers' = [peers EXCEPT ![s] = NoPeer] /\ UNCHANGED gu16SessionID
      BY <1>20 DEF Finish, Queues, socketVars
    <3>2. NoPeer.session = 0 /\ ~NoPeer.asked /\ NoPeer.session <= gu16SessionID
      BY <1>2 DEF NoPeer
    <3> QED BY <3>1, <3>2, <1>17
  <2> QED BY <2>1, <2>2, <2>3, <1>20, <1>15 DEF Finish, Sessions
<1>21. CASE OfferPacket
  <2>1. UNCHANGED <<gastrSockets, gu16SessionID, peers>> /\ queue' = Tail(queue) /\ queue # << >>
    BY <1>21 DEF OfferPacket, Offer, socketVars, chipVars
  <2>2. \A p \in PacketSet : queue' # Append(queue, p)
    <3> SUFFICES ASSUME NEW p \in PacketSet, Tail(queue) = Append(queue, p) PROVE FALSE
      BY <2>1
    <3>1. Len(Tail(queue)) = Len(queue) - 1 /\ Len(Append(queue, p)) = Len(queue) + 1 /\ Len(queue) \in Nat
      BY <2>1, <1>1, TailFacts, AppendFacts DEF Types, QueueTypes
    <3> QED BY <3>1
  <2> QED BY <2>1, <2>2, <1>3, <1>4, <1>6 DEF Sessions
<1> QED
  BY <1>10, <1>11, <1>12, <1>13, <1>14, <1>16, <1>18, <1>19, <1>20, <1>21
  DEF Next, library, m2m_ip_cb, chip

-----------------------------------------------------------------------------
(***************************************************************************)
(* Replies.  To a request of a session there is at most one reply: on its  *)
(* way in the chip, in the queue, or offered and not yet handled.          *)
(***************************************************************************)

Matches(p, t, c) == p.type = t /\ p.session = c
InRx(t, c) == Unhandled /\ rx # << >> /\ Matches(Head(rx), t, c)
InQueue(t, c) == {i \in 1 .. Len(queue) : Matches(queue[i], t, c)}
Awaits(t, c) ==
  {s \in Sockets : peers[s].session = c /\ IF t = "connect" THEN peers[s].phase = "connecting"
                                           ELSE peers[s].asked}

NoReply(t, c) == ~InRx(t, c) /\ InQueue(t, c) = {} /\ Awaits(t, c) = {}

OneReply(t, c) ==
  /\ InRx(t, c) => InQueue(t, c) = {} /\ Awaits(t, c) = {}
  /\ InQueue(t, c) # {} => Awaits(t, c) = {}
  /\ \A i, j \in InQueue(t, c) : i = j
  /\ \A r, s \in Awaits(t, c) : r = s

\* The library hands no packet back, and handles none twice.
LEMMA LibraryPackets ==
  ASSUME Base, library \/ sketch \/ UNCHANGED vars
  PROVE  UNCHANGED queue /\ (Unhandled' => Unhandled /\ UNCHANGED rx)
<1>1. CallTypes /\ Shape /\ Types /\ Interrupts
  BY DEF Base, Types
<1>2. ASSUME NEW op, Running(op)
      PROVE  /\ todo # << >> /\ (Returns => ~Running("callback")')
             /\ op \in Closing => Head(todo).arg \in Sockets
             /\ op \in UsesSocket => theSocket \in Sockets
  <2>1. todo # << >>
    BY <1>2 DEF Running
  <2> QED BY <2>1, <1>2, <1>1, NextReturns, RunningFacts DEF Inner, Types
<1>3. ASSUME hifQuiet, Running("callback")' => Running("callback")
      PROVE  UNCHANGED queue /\ (Unhandled' => Unhandled /\ UNCHANGED rx)
  BY <1>3 DEF hifQuiet, Unhandled
<1>4. ASSUME ~newInterrupt, UNCHANGED <<newInterrupt, queue>>, ~Running("callback")'
      PROVE  UNCHANGED queue /\ (Unhandled' => Unhandled /\ UNCHANGED rx)
  BY <1>4 DEF Unhandled
<1>5. /\ Events \in CallSet /\ Events.op = "events"
      /\ \A op \in {"forget", "create", "connecting"} :
           Call(op, 0) \in CallSet /\ Call(op, 0).op = op
      /\ \A s \in Sockets : /\ Call("close", s) \in CallSet
                            /\ Call("release", s) \in CallSet /\ Call("release", s).op = "release"
      /\ \A n \in Nat : Call("copy", n) \in CallSet /\ Call("copy", n).op = "copy"
  BY CallTyped DEF Ops, Closing, Reading, Final
<1>6. ASSUME NEW op, Running(op), NEW a \in CallSet
      PROVE  /\ GoesOnWith(<<a>>) => (Running("callback")' <=> a.op = "callback")
             /\ \A b \in CallSet : GoesOnWith(<<a, b>>) => (Running("callback")' <=> a.op = "callback")
             /\ \A b, e \in CallSet : GoesOnWith(<<a, b, e>>) => (Running("callback")' <=> a.op = "callback")
             /\ \A b, e, d \in CallSet :
                  GoesOnWith(<<a, b, e, d>>) => (Running("callback")' <=> a.op = "callback")
  BY <1>6, <1>1, NextIs DEF Running
<1>7. CASE \/ hif \/ CallbackFails \/ connecting \/ look \/ lookOpen \/ readStart \/ send
           \/ PollEvents \/ Write \/ reader \/ (Connect /\ theSocket # None)
           \/ UNCHANGED vars
  BY <1>7, PassiveSteps DEF Passive
<1>8. CASE ConnectReply \/ DataReply \/ DiscardReply \/ StatusReply \/ Disconnected
  <2>1. Running("callback") /\ ~newInterrupt
    BY <1>8, <1>1 DEF ConnectReply, DataReply, DiscardReply, StatusReply, Disconnected, Handling,
                      Interrupts
  <2>2. UNCHANGED <<newInterrupt, queue>>
    BY <1>8 DEF ConnectReply, DataReply, DiscardReply, StatusReply, Disconnected,
                Received, Discard, fillRecvBuffer, hif_set_rx_done
  <2>3. Returns \/ GoesOnWith(<<Events, Call("close", Head(rx).sock)>>) \/ GoesOnWith(AllClosed)
    BY <1>8 DEF ConnectReply, DataReply, DiscardReply, StatusReply, Disconnected
  <2>4. Head(rx).sock \in Sockets
    BY <2>1, <1>1, HeadPacket DEF Types
  <2>5. GoesOnWith(AllClosed) => ~Running("callback")'
    BY <2>1, <1>2, <1>1, AllClosedFacts, NextGoesOn
  <2>6. ~Running("callback")'
    BY <2>1, <2>3, <2>4, <2>5, <1>2, <1>5, <1>6
  <2> QED BY <2>1, <2>2, <2>6, <1>4
<1>9. CASE close
  <2>1. Running("close") /\ Head(todo).arg \in Sockets /\ GoesOnWith(<<Call("release", Head(todo).arg)>>)
    BY <1>9, <1>2 DEF close, Closing
  <2>2. ~Running("callback")'
    BY <2>1, <1>5, <1>6
  <2>3. CASE flushes(Head(todo).arg)
    <3>1. Remaining(Head(todo).arg) > 0 /\ UNCHANGED <<newInterrupt, queue>>
      BY <2>3, <1>9 DEF close, flushes, Discard, hif_set_rx_done
    <3>2. ~newInterrupt
      BY <3>1, <2>1, <1>1 DEF Interrupts
    <3> QED BY <3>1, <3>2, <2>2, <1>4
  <2>4. CASE ~flushes(Head(todo).arg)
    BY <2>4, <2>2, <1>9, <1>3 DEF close, hifQuiet
  <2> QED BY <2>3, <2>4
<1>10. CASE release
  BY <1>10, <1>2, <1>3 DEF release, hifQuiet
<1>11. CASE stopFirst
  <2>1. theSocket \in Sockets
    BY <1>11, <1>2 DEF stopFirst, UsesSocket
  <2>2. \/ GoesOnWith(<<Call("create", 0)>>)
        \/ GoesOnWith(<<Events, Call("close", theSocket), Call("forget", 0), Call("create", 0)>>)
    BY <1>11 DEF stopFirst
  <2>3. ~Running("callback")'
    BY <2>1, <2>2, <1>11, <1>5, <1>6 DEF stopFirst
  <2> QED BY <2>3, <1>11, <1>3 DEF stopFirst
<1>12. CASE forget \/ connectDone
  BY <1>12, <1>2, <1>3 DEF forget, connectDone
<1>13. CASE create
  <2>1. CASE createFails
    BY <2>1, <1>13, <1>2, <1>3 DEF create, createFails
  <2>2. ASSUME NEW s \in Sockets, createOn(s)
        PROVE  UNCHANGED queue /\ (Unhandled' => Unhandled /\ UNCHANGED rx)
    <3>1. \/ GoesOnWith(<<Events, Call("connecting", 0)>>)
          \/ GoesOnWith(<<Events, Call("close", s), Call("forget", 0)>>)
      BY <2>2 DEF createOn
    <3>2. ~Running("callback")'
      BY <3>1, <1>13, <1>5, <1>6 DEF create
    <3> QED BY <3>2, <1>13, <1>3 DEF create
  <2> QED BY <2>1, <2>2, <1>13 DEF create
<1>14. CASE connectFails
  <2>1. theSocket \in Sockets /\ GoesOnWith(<<Events, Call("close", theSocket), Call("forget", 0)>>)
    BY <1>14, <1>2 DEF connectFails, UsesSocket
  <2>2. ~Running("callback")'
    BY <2>1, <1>14, <1>5, <1>6 DEF connectFails
  <2> QED BY <2>2, <1>14, <1>3 DEF connectFails
<1>15. CASE copyFill
  <2>1. Running("copy") /\ theSocket \in Sockets /\ Remaining(theSocket) > 0
        /\ (UNCHANGED todo \/ Returns)
    BY <1>15, <1>2 DEF copyFill, UsesSocket, Reading
  <2>2. ~newInterrupt
    BY <2>1, <1>1 DEF Interrupts
  <2>3. ~Running("callback")'
    BY <2>1, <1>2 DEF Running
  <2>4. UNCHANGED <<newInterrupt, queue>>
    BY <1>15 DEF copyFill, fillRecvBuffer, hif_set_rx_done
  <2> QED BY <2>2, <2>3, <2>4, <1>4
<1>16. CASE copy
  <2> DEFINE m == Head(todo).arg - Smaller(Head(todo).arg, Len(info[theSocket].buffer))
  <2>1. Running("copy") /\ hifQuiet /\ (Returns \/ GoesOnWith(<<Call("copy", m)>>))
    BY <1>16 DEF copy
  <2>2. m \in Nat
    <3>1. theSocket \in Sockets /\ Head(todo).arg \in Nat
      BY <2>1, <1>1, RunningFacts, CallOps DEF Types, UsesSocket, Reading
    <3> QED BY <3>1, <1>1, Lengths DEF Smaller, Types
  <2> HIDE DEF m
  <2>3. ~Running("callback")'
    BY <2>1, <2>2, <1>2, <1>5, <1>6
  <2> QED BY <2>1, <2>3, <1>3
<1>17. CASE readEnd
  <2>1. Running("readEnd") /\ hifQuiet /\ (Returns \/ GoesOnWith(<<Events>>))
    BY <1>17 DEF readEnd
  <2>2. ~Running("callback")'
    BY <2>1, <1>2, <1>5, <1>6
  <2> QED BY <2>1, <2>2, <1>3
<1>18. CASE Stop \/ (Connect /\ theSocket = None)
  <2>1. hifQuiet /\ todo' # << >> /\ todo'[1] \in {Events, Call("create", 0)}
    BY <1>18 DEF Stop, Connect, Calls
  <2>2. [Next]_vars
    BY <1>18 DEF Next, sketch
  <2>3. todo' \in Seq(CallSet)
    BY <2>2, <1>1, CallsStep DEF CallTypes
  <2>4. ~Running("callback")'
    BY <2>1, <2>3, <1>5, TailFacts DEF Running
  <2> QED BY <2>1, <2>4, <1>3
<1>19. CASE library
  BY <1>19, <1>7, <1>8, <1>9, <1>10, <1>11, <1>12, <1>13, <1>14, <1>15, <1>16, <1>17
  DEF library, m2m_ip_cb
<1>20. CASE sketch
  <2>1. CASE PollEvents \/ Write \/ reader
    BY <2>1, <1>7
  <2>2. CASE Stop
    BY <2>2, <1>18
  <2>3. CASE Connect
    <3>1. CASE theSocket = None
      BY <2>3, <3>1, <1>18
    <3>2. CASE theSocket # None
      BY <2>3, <3>2, <1>7
    <3> QED BY <3>1, <3>2
  <2> QED BY <1>20, <2>1, <2>2, <2>3 DEF sketch
<1> QED
  BY <1>7, <1>19, <1>20

\* What the chip does to the replies that are on their way.
LEMMA ChipPackets ==
  ASSUME Base, chip, NEW t \in {"connect", "recv"}, NEW c \in Nat \ {0}
  PROVE  /\ UNCHANGED <<todo, gastrSockets, gu16SessionID, info, theSocket, got, misled,
                        hif_receive_blocked>>
         /\ Awaits(t, c)' \subseteq Awaits(t, c)
         /\ \/ /\ ~Unhandled /\ queue # << >> /\ rx' = <<Head(queue)>> /\ queue' = Tail(queue)
            \/ /\ UNCHANGED <<rx, newInterrupt>>
               /\ \E p \in PacketSet :
                    /\ queue' = Append(queue, p)
                    /\ Matches(p, t, c) => Awaits(t, c) \ Awaits(t, c)' # {}
<1>1. /\ peers \in [Sockets -> [session : 0 .. MaxSessions, phase : {"none", "connecting", "open"},
                                asked : BOOLEAN, sent : 0 .. StreamLength]]
      /\ Types /\ Interrupts
  BY DEF Base, Types, ChipTypes
<1>2. CASE OfferPacket
  <2>1. /\ rx = << >> /\ queue # << >> /\ rx' = <<Head(queue)>> /\ queue' = Tail(queue)
        /\ UNCHANGED <<todo, gastrSockets, gu16SessionID, info, theSocket, got, misled, peers,
                       hif_receive_blocked>>
    BY <1>2 DEF OfferPacket, Offer, socketVars, chipVars, history
  <2>2. ~Unhandled
    BY <2>1, <1>1 DEF Unhandled, Interrupts
  <2> QED BY <2>1, <2>2 DEF Awaits
\* A packet is put into the queue, and one end changes.
<1>3. ASSUME NEW p \in PacketSet, Queues(p)
      PROVE  /\ UNCHANGED <<todo, gastrSockets, gu16SessionID, info, theSocket, got, misled,
                            hif_receive_blocked>>
             /\ UNCHANGED <<rx, newInterrupt>> /\ queue' = Append(queue, p)
  BY <1>3 DEF Queues, socketVars, history, context
<1>4. ASSUME NEW s \in Sockets, NEW e, peers' = [peers EXCEPT ![s] = e]
      PROVE  /\ peers'[s] = e /\ \A r \in Sockets : r # s => peers'[r] = peers[r]
  BY <1>4, <1>1
<1>5. CASE LoseLink
  <2> DEFINE p == Packet("disconnected", 0, 0, FALSE, << >>)
  <2>1. p \in PacketSet /\ Queues(p) /\ ~Matches(p, t, c)
    BY <1>5, <1>1, PacketTypes DEF LoseLink, Matches, Packet
  <2>2. Awaits(t, c)' = {}
    BY <1>5 DEF LoseLink, Awaits, NoPeer
  <2> HIDE DEF p
  <2> QED BY <2>1, <2>2, <1>3
<1>6. ASSUME NEW s \in Sockets, NEW ok \in BOOLEAN, Answer(s, ok)
      PROVE  /\ Awaits(t, c)' \subseteq Awaits(t, c)
             /\ \E p \in PacketSet : Queues(p) /\ (Matches(p, t, c) => Awaits(t, c) \ Awaits(t, c)' # {})
  <2> DEFINE p == Packet("connect", s, peers[s].session, ok, << >>)
  <2>1. p \in PacketSet /\ Queues(p)
    BY <1>6, <1>1, PacketTypes DEF Answer
  <2>2. peers[s].phase = "connecting"
    BY <1>6 DEF Answer
  <2>3. PICK e : peers' = [peers EXCEPT ![s] = e] /\ (e = NoPeer \/ e = [peers[s] EXCEPT !.phase = "open"])
    BY <1>6, <1>1 DEF Answer
  <2>4. e.phase # "connecting" /\ (e.session = c => peers[s].session = c /\ e.asked = peers[s].asked)
    BY <2>3, <1>1 DEF NoPeer
  <2>5. Awaits(t, c)' \subseteq Awaits(t, c)
    BY <2>3, <2>4, <1>4 DEF Awaits
  <2>6. ASSUME Matches(p, t, c) PROVE s \in Awaits(t, c) \ Awaits(t, c)'
    <3>1. t = "connect" /\ peers[s].session = c
      BY <2>6 DEF Matches, Packet
    <3> QED BY <3>1, <2>2, <2>3, <2>4, <1>4 DEF Awaits
  <2> HIDE DEF p
  <2> QED BY <2>1, <2>5, <2>6
<1>7. ASSUME NEW s \in Sockets, NEW n \in 1 .. MaxChunk, Arrive(s, n)
      PROVE  /\ Awaits(t, c)' \subseteq Awaits(t, c)
             /\ \E p \in PacketSet : Queues(p) /\ (Matches(p, t, c) => Awaits(t, c) \ Awaits(t, c)' # {})
  <2> DEFINE p == Packet("recv", s, peers[s].session, TRUE, Data(s, n))
             e == [peers[s] EXCEPT !.asked = FALSE, !.sent = @ + n]
  <2>1. p \in PacketSet /\ Queues(p)
    BY <1>7, <1>1, PacketTypes DEF Arrive
  <2>2. peers[s].asked /\ peers' = [peers EXCEPT ![s] = e]
    BY <1>7, <1>1 DEF Arrive
  <2>3. ~e.asked /\ e.session = peers[s].session /\ e.phase = peers[s].phase
    BY <1>1
  <2> HIDE DEF e
  <2>4. Awaits(t, c)' \subseteq Awaits(t, c)
    BY <2>2, <2>3, <1>4 DEF Awaits
  <2>5. ASSUME Matches(p, t, c) PROVE s \in Awaits(t, c) \ Awaits(t, c)'
    <3>1. t = "recv" /\ peers[s].session = c
      BY <2>5 DEF Matches, Packet
    <3> QED BY <3>1, <2>2, <2>3, <1>4 DEF Awaits
  <2> HIDE DEF p
  <2> QED BY <2>1, <2>4, <2>5
<1>8. ASSUME NEW s \in Sockets, Finish(s)
      PROVE  /\ Awaits(t, c)' \subseteq Awaits(t, c)
             /\ \E p \in PacketSet : Queues(p) /\ (Matches(p, t, c) => Awaits(t, c) \ Awaits(t, c)' # {})
  <2> DEFINE p == Packet("recv", s, peers[s].session, FALSE, << >>)
  <2>1. p \in PacketSet /\ Queues(p)
    BY <1>8, <1>1, PacketTypes DEF Finish
  <2>2. peers[s].asked /\ peers' = [peers EXCEPT ![s] = NoPeer]
    BY <1>8 DEF Finish
  <2>3. NoPeer.session # c
    BY DEF NoPeer
  <2>4. Awaits(t, c)' \subseteq Awaits(t, c)
    BY <2>2, <2>3, <1>4 DEF Awaits
  <2>5. ASSUME Matches(p, t, c) PROVE s \in Awaits(t, c) \ Awaits(t, c)'
    <3>1. t = "recv" /\ peers[s].session = c
      BY <2>5 DEF Matches, Packet
    <3> QED BY <3>1, <2>2, <2>3, <1>4 DEF Awaits
  <2> HIDE DEF p
  <2> QED BY <2>1, <2>4, <2>5
<1>9. CASE \E s \in Sockets : \/ \E ok \in BOOLEAN : Answer(s, ok)
                              \/ \E n \in 1 .. MaxChunk : Arrive(s, n)
                              \/ Finish(s)
  BY <1>9, <1>3, <1>6, <1>7, <1>8
<1>10. CASE LoseLink
  BY <1>5, <1>10
<1> QED BY <1>2, <1>9, <1>10 DEF chip

\* When the library asks the chip, and of what session the reply will be.
Asks(t, c) ==
  IF t = "connect" THEN create /\ gu16SessionID' = gu16SessionID + 1 /\ c = gu16SessionID'
  ELSE (connectDone \/ readEnd) /\ Used(theSocket) /\ Session(theSocket) = c

\* Only then is a reply awaited that was not before, and only one.
LEMMA LibraryAwaits ==
  ASSUME Base, library \/ sketch \/ UNCHANGED vars, NEW t \in {"connect", "recv"}, NEW c \in Nat \ {0}
  PROVE  \/ Awaits(t, c)' \subseteq Awaits(t, c)
         \/ Asks(t, c) /\ \E s \in Sockets : Awaits(t, c)' \subseteq Awaits(t, c) \cup {s}
<1>1. /\ peers \in [Sockets -> [session : 0 .. MaxSessions, phase : {"none", "connecting", "open"},
                                asked : BOOLEAN, sent : 0 .. StreamLength]]
      /\ CallTypes /\ SocketTypes /\ Shape /\ Types /\ Interrupts
  BY DEF Base, Types, ChipTypes
<1>2. CASE UNCHANGED peers
  BY <1>2 DEF Awaits
<1>3. ASSUME NEW s \in Sockets, NEW e, peers' = [peers EXCEPT ![s] = e]
      PROVE  /\ peers'[s] = e /\ \A r \in Sockets : r # s => peers'[r] = peers[r]
             /\ Awaits(t, c)' \subseteq Awaits(t, c) \cup {s}
  <2>1. peers'[s] = e /\ \A r \in Sockets : r # s => peers'[r] = peers[r]
    BY <1>3, <1>1
  <2> QED BY <2>1 DEF Awaits
<1>4. CASE release
  <2>1. PICK s \in Sockets : closeSocket(s)
    BY <1>4, <1>1, RunningFacts DEF release, Closing
  <2>2. PICK e : UNCHANGED peers \/ (peers' = [peers EXCEPT ![s] = e] /\ (e = NoPeer \/ e = peers[s]))
    BY <2>1 DEF closeSocket, Request
  <2>3. CASE peers' = [peers EXCEPT ![s] = e] /\ (e = NoPeer \/ e = peers[s])
    <3>1. peers'[s] = e /\ \A r \in Sockets : r # s => peers'[r] = peers[r]
      BY <2>3, <1>3
    <3>2. NoPeer.session # c
      BY DEF NoPeer
    <3> QED BY <3>1, <3>2, <2>3 DEF Awaits
  <2> QED BY <2>2, <2>3, <1>2
<1>5. CASE create
  <2>1. CASE createFails
    BY <2>1, <1>2 DEF createFails
  <2>2. ASSUME NEW s \in Sockets, createOn(s) PROVE
          \/ Awaits(t, c)' \subseteq Awaits(t, c)
          \/ Asks(t, c) /\ \E r \in Sockets : Awaits(t, c)' \subseteq Awaits(t, c) \cup {r}
    <3> DEFINE e == [session |-> gu16SessionID', phase |-> "connecting", asked |-> FALSE, sent |-> 0]
    <3>1. UNCHANGED peers \/ peers' = [peers EXCEPT ![s] = e]
      BY <2>2 DEF createOn
    <3>2. gu16SessionID' = gu16SessionID + 1
      BY <2>2 DEF createOn, newSession
    <3>3. CASE peers' = [peers EXCEPT ![s] = e] /\ t = "connect" /\ c = gu16SessionID'
      <4>1. Asks(t, c)
        BY <3>2, <3>3, <1>5 DEF Asks
      <4> HIDE DEF e
      <4>2. Awaits(t, c)' \subseteq Awaits(t, c) \cup {s}
        BY <3>3, <1>3
      <4> QED BY <4>1, <4>2
    <3>4. CASE peers' = [peers EXCEPT ![s] = e] /\ ~(t = "connect" /\ c = gu16SessionID')
      <4>1. ~e.asked /\ e.session = gu16SessionID'
        OBVIOUS
      <4> HIDE DEF e
      <4>2. peers'[s] = e /\ \A r \in Sockets : r # s => peers'[r] = peers[r]
        BY <3>4, <1>3
      <4>3. s \notin Awaits(t, c)'
        BY <4>1, <4>2, <3>4 DEF Awaits
      <4> QED BY <4>2, <4>3 DEF Awaits
    <3> QED BY <3>1, <3>3, <3>4, <1>2
  <2> QED BY <1>5, <2>1, <2>2 DEF create
<1>6. CASE connectDone \/ readEnd
  <2>1. theSocket \in Sockets /\ (recv(theSocket) \/ UNCHANGED peers)
    BY <1>6, <1>1, RunningFacts DEF connectDone, readEnd, UsesSocket, Reading
  <2>2. CASE recv(theSocket) /\ ~UNCHANGED peers
    <3> DEFINE s == theSocket
               e == IF peers[s].session = Session(s) THEN [peers[s] EXCEPT !.asked = TRUE] ELSE peers[s]
    <3>1. Used(s) /\ peers' = [peers EXCEPT ![s] = e]
      BY <2>2 DEF recv, Request, Used, Session
    <3>2. e.session = peers[s].session /\ e.phase = peers[s].phase
          /\ (e.asked => peers[s].asked \/ peers[s].session = Session(s))
      BY <2>1, <1>1
    <3> HIDE DEF e, s
    <3>3. s \in Sockets
      BY <2>1 DEF s
    <3>4. peers'[s] = e /\ (\A r \in Sockets : r # s => peers'[r] = peers[r])
          /\ Awaits(t, c)' \subseteq Awaits(t, c) \cup {s}
      BY <3>1, <3>3, <1>3
    <3>5. CASE t = "recv" /\ Session(s) = c
      BY <3>1, <3>3, <3>4, <3>5, <1>6 DEF Asks, s
    <3>6. CASE ~(t = "recv" /\ Session(s) = c)
      <4>1. s \in Awaits(t, c)' => s \in Awaits(t, c)
        BY <3>2, <3>3, <3>4, <3>6 DEF Awaits
      <4> QED BY <3>4, <4>1
    <3> QED BY <3>5, <3>6
  <2> QED BY <2>1, <2>2, <1>2
<1>7. CASE \/ hif \/ m2m_ip_cb \/ close \/ stopFirst \/ forget \/ connecting \/ connectFails
           \/ look \/ lookOpen \/ readStart \/ copyFill \/ copy \/ send \/ sketch \/ UNCHANGED vars
  <2>1. UNCHANGED peers
    BY <1>7 DEF hif, m2m_ip_cb, CallbackFails, ConnectReply, DataReply, DiscardReply, StatusReply,
                Disconnected, close, stopFirst, forget, connecting, connectFails, look, lookOpen,
                Looks, readStart, copyFill, copy, send, sketch, reader, PollEvents, Connect, Stop,
                Write, Read, Calls, chipVars, vars
  <2> QED BY <2>1, <1>2
<1> QED BY <1>4, <1>5, <1>6, <1>7 DEF library

\* The places of the queue a reply can be at, before and after a step of the chip.
LEMMA QueueFacts ==
  ASSUME QueueTypes, NEW t, NEW c
  PROVE  /\ UNCHANGED queue => InQueue(t, c)' = InQueue(t, c)
         /\ InQueue(t, c) \subseteq 1 .. Len(queue) /\ Len(queue) \in Nat
         /\ queue # << >> /\ queue' = Tail(queue) =>
              /\ \A i \in InQueue(t, c)' : i \in Nat /\ i > 0 /\ i + 1 \in InQueue(t, c)
              /\ Matches(Head(queue), t, c) => 1 \in InQueue(t, c)
         /\ \A p \in PacketSet : queue' = Append(queue, p) =>
              /\ ~Matches(p, t, c) => InQueue(t, c)' = InQueue(t, c)
              /\ Matches(p, t, c) => InQueue(t, c)' = InQueue(t, c) \cup {Len(queue) + 1}
<1>1. queue \in Seq(PacketSet) /\ Len(queue) \in Nat
  BY DEF QueueTypes
<1>2. UNCHANGED queue => InQueue(t, c)' = InQueue(t, c)
  BY DEF InQueue
<1>3. ASSUME queue # << >>, queue' = Tail(queue)
      PROVE  /\ \A i \in InQueue(t, c)' : i \in Nat /\ i > 0 /\ i + 1 \in InQueue(t, c)
             /\ Matches(Head(queue), t, c) => 1 \in InQueue(t, c)
  <2>1. /\ Len(Tail(queue)) = Len(queue) - 1 /\ Len(queue) > 0 /\ Head(queue) = queue[1]
        /\ \A i \in 1 .. Len(queue) - 1 : Tail(queue)[i] = queue[i + 1]
    BY <1>1, <1>3, TailFacts
  <2>2. ASSUME NEW i \in InQueue(t, c)' PROVE i \in Nat /\ i > 0 /\ i + 1 \in InQueue(t, c)
    <3>1. i \in 1 .. Len(queue) - 1 /\ Matches(queue'[i], t, c)
      BY <2>1, <2>2, <1>3 DEF InQueue
    <3>2. queue'[i] = queue[i + 1] /\ i + 1 \in 1 .. Len(queue) /\ i \in Nat /\ i > 0
      BY <2>1, <3>1, <1>1, <1>3
    <3> QED BY <3>1, <3>2 DEF InQueue
  <2>3. 1 \in 1 .. Len(queue)
    BY <2>1, <1>1
  <2> QED BY <2>1, <2>2, <2>3 DEF InQueue
<1>4. ASSUME NEW p \in PacketSet, queue' = Append(queue, p)
      PROVE  /\ ~Matches(p, t, c) => InQueue(t, c)' = InQueue(t, c)
             /\ Matches(p, t, c) => InQueue(t, c)' = InQueue(t, c) \cup {Len(queue) + 1}
  <2>1. /\ Len(queue') = Len(queue) + 1 /\ queue'[Len(queue) + 1] = p
        /\ \A i \in 1 .. Len(queue) : queue'[i] = queue[i]
    BY <1>1, <1>4, AppendFacts
  <2>2. 1 .. Len(queue') = (1 .. Len(queue)) \cup {Len(queue) + 1}
    BY <2>1, <1>1
  <2> QED BY <2>1, <2>2 DEF InQueue
<1>5. InQueue(t, c) \subseteq 1 .. Len(queue)
  BY DEF InQueue
<1> QED BY <1>1, <1>2, <1>3, <1>4, <1>5

\* Without a request that reaches the chip there is no reply.
LEMMA NoReplyStep ==
  ASSUME Base, [Next]_vars, NEW t \in {"connect", "recv"}, NEW c \in Nat \ {0},
         NoReply(t, c), Asks(t, c) => chip \/ UNCHANGED peers
  PROVE  NoReply(t, c)'
<1>1. QueueTypes
  BY DEF Base, Types
<1>2. CASE (library \/ sketch \/ UNCHANGED vars) /\ ~chip
  <2>1. UNCHANGED queue /\ (Unhandled' => Unhandled /\ UNCHANGED rx)
    BY <1>2, LibraryPackets
  <2>2. Awaits(t, c)' \subseteq Awaits(t, c)
    <3>1. UNCHANGED peers => Awaits(t, c)' = Awaits(t, c)
      BY DEF Awaits
    <3> QED BY <3>1, <1>2, LibraryAwaits
  <2>3. ~InRx(t, c)'
    BY <2>1 DEF InRx, NoReply, Matches
  <2> QED BY <2>1, <2>2, <2>3, <1>1, QueueFacts DEF NoReply
<1>3. CASE chip
  <2>1. Awaits(t, c)' = {}
    BY <1>3, ChipPackets DEF NoReply
  <2>2. CASE ~Unhandled /\ queue # << >> /\ rx' = <<Head(queue)>> /\ queue' = Tail(queue)
    <3>1. InQueue(t, c)' = {} /\ ~Matches(Head(queue), t, c)
      BY <2>2, <1>1, QueueFacts DEF NoReply
    <3>2. Head(rx') = Head(queue)
      BY <2>2
    <3>3. ~InRx(t, c)'
      BY <3>1, <3>2 DEF InRx, Matches
    <3> QED BY <2>1, <3>1, <3>3 DEF NoReply
  <2>3. CASE /\ UNCHANGED <<rx, newInterrupt>>
             /\ \E p \in PacketSet :
                  /\ queue' = Append(queue, p)
                  /\ Matches(p, t, c) => Awaits(t, c) \ Awaits(t, c)' # {}
    <3>1. InQueue(t, c)' = {}
      BY <2>3, <1>1, QueueFacts DEF NoReply
    <3>2. UNCHANGED todo
      BY <1>3, ChipPackets
    <3>3. ~InRx(t, c)'
      BY <2>3, <3>2 DEF InRx, NoReply, Matches, Unhandled, Running
    <3> QED BY <2>1, <3>1, <3>3 DEF NoReply
  <2> QED BY <2>2, <2>3, <1>3, ChipPackets
<1> QED BY <1>2, <1>3 DEF Next

\* With one at a time there is at most one.
LEMMA OneReplyStep ==
  ASSUME Base, [Next]_vars, NEW t \in {"connect", "recv"}, NEW c \in Nat \ {0},
         OneReply(t, c), Asks(t, c) => NoReply(t, c)
  PROVE  OneReply(t, c)'
<1>1. QueueTypes
  BY DEF Base, Types
<1>2. CASE library \/ sketch \/ UNCHANGED vars
  <2>1. UNCHANGED queue /\ (Unhandled' => Unhandled /\ UNCHANGED rx)
    BY <1>2, LibraryPackets
  <2>2. InQueue(t, c)' = InQueue(t, c)
    BY <2>1, <1>1, QueueFacts
  <2>3. InRx(t, c)' => InRx(t, c)
    BY <2>1 DEF InRx, Matches
  <2>4. CASE Awaits(t, c)' \subseteq Awaits(t, c)
    BY <2>2, <2>3, <2>4 DEF OneReply
  <2>5. ASSUME Asks(t, c), NEW s \in Sockets, Awaits(t, c)' \subseteq Awaits(t, c) \cup {s}
        PROVE  OneReply(t, c)'
    <3>1. ~InRx(t, c)' /\ InQueue(t, c)' = {} /\ Awaits(t, c)' \subseteq {s}
      BY <2>2, <2>3, <2>5 DEF NoReply
    <3> QED BY <3>1 DEF OneReply
  <2> QED BY <2>4, <2>5, <1>2, LibraryAwaits
<1>3. CASE chip
  <2>1. Awaits(t, c)' \subseteq Awaits(t, c) /\ UNCHANGED todo
    BY <1>3, ChipPackets
  <2>2. CASE ~Unhandled /\ queue # << >> /\ rx' = <<Head(queue)>> /\ queue' = Tail(queue)
    <3>1. Head(rx') = Head(queue)
      BY <2>2
    <3>2. /\ \A i \in InQueue(t, c)' : i \in Nat /\ i > 0 /\ i + 1 \in InQueue(t, c)
          /\ Matches(Head(queue), t, c) => 1 \in InQueue(t, c)
      BY <2>2, <1>1, QueueFacts
    <3>3. InRx(t, c)' => 1 \in InQueue(t, c)
      BY <3>1, <3>2 DEF InRx, Matches
    <3>4. \A i, j \in InQueue(t, c) : i = j
      BY DEF OneReply
    <3>5. InRx(t, c)' => InQueue(t, c)' = {} /\ Awaits(t, c)' = {}
      <4>1. ASSUME 1 \in InQueue(t, c), NEW i \in InQueue(t, c)' PROVE FALSE
        <5>1. i + 1 = 1 /\ i \in Nat /\ i > 0
          BY <3>2, <3>4, <4>1
        <5> QED BY <5>1
      <4>2. 1 \in InQueue(t, c) => Awaits(t, c)' = {}
        BY <2>1 DEF OneReply
      <4> QED BY <3>3, <4>1, <4>2
    <3>6. InQueue(t, c)' # {} => Awaits(t, c)' = {}
      BY <3>2, <2>1 DEF OneReply
    <3>7. \A i, j \in InQueue(t, c)' : i = j
      <4> SUFFICES ASSUME NEW i \in InQueue(t, c)', NEW j \in InQueue(t, c)' PROVE i = j
        OBVIOUS
      <4>1. i \in Nat /\ j \in Nat /\ i + 1 = j + 1
        BY <3>2, <3>4
      <4> QED BY <4>1
    <3>8. \A r, s \in Awaits(t, c)' : r = s
      BY <2>1 DEF OneReply
    <3> QED BY <3>5, <3>6, <3>7, <3>8 DEF OneReply
  <2>3. ASSUME UNCHANGED <<rx, newInterrupt>>, NEW p \in PacketSet, queue' = Append(queue, p),
               Matches(p, t, c) => Awaits(t, c) \ Awaits(t, c)' # {}
        PROVE  OneReply(t, c)'
    <3>1. InRx(t, c)' <=> InRx(t, c)
      BY <2>1, <2>3 DEF InRx, Matches, Unhandled, Running
    <3>2. CASE ~Matches(p, t, c)
      <4>1. InQueue(t, c)' = InQueue(t, c)
        BY <3>2, <2>3, <1>1, QueueFacts
      <4> QED BY <4>1, <3>1, <2>1 DEF OneReply
    <3>3. CASE Matches(p, t, c)
      <4>1. PICK s : s \in Awaits(t, c) /\ s \notin Awaits(t, c)'
        BY <3>3, <2>3
      <4>2. ~InRx(t, c) /\ InQueue(t, c) = {} /\ Awaits(t, c)' = {}
        BY <4>1, <2>1 DEF OneReply
      <4>3. InQueue(t, c)' = {Len(queue) + 1}
        BY <4>2, <3>3, <2>3, <1>1, QueueFacts
      <4> QED BY <4>2, <4>3, <3>1 DEF OneReply
    <3> QED BY <3>2, <3>3
  <2> QED BY <2>2, <2>3, <1>3, ChipPackets
<1> QED BY <1>2, <1>3 DEF Next

\* Of a session that has not begun there is no reply.
LEMMA FutureReply ==
  ASSUME Base, Sessions, NEW t \in {"connect", "recv"}, NEW c \in Nat, c > gu16SessionID
  PROVE  NoReply(t, c)
<1>1. gu16SessionID \in Nat /\ QueueTypes /\ queue \in Seq(PacketSet) /\ rx \in Seq(PacketSet)
  BY SocketAssumption DEF Base, Types, SocketTypes, QueueTypes
<1>2. ~InRx(t, c)
  BY <1>1, TailFacts DEF InRx, Matches, Sessions, PacketSessions, Known, PacketSet
<1>3. ASSUME NEW i \in 1 .. Len(queue) PROVE ~Matches(queue[i], t, c)
  <2>1. queue[i] \in PacketSet /\ queue[i].session <= gu16SessionID
    BY <1>1 DEF Sessions, PacketSessions, Known
  <2> QED BY <2>1, <1>1 DEF Matches, PacketSet
<1>4. ASSUME NEW s \in Sockets PROVE peers[s].session # c
  <2>1. peers[s].session \in Nat /\ peers[s].session <= gu16SessionID
    BY SocketAssumption DEF Base, Types, ChipTypes, Sessions, PeerSessions
  <2> QED BY <2>1, <1>1
<1> QED BY <1>2, <1>3, <1>4 DEF NoReply, InQueue, Awaits

-----------------------------------------------------------------------------
(***************************************************************************)
(* No socket is lost.                                                      *)
(***************************************************************************)

\* To the connect() of a session there is at most one reply.
ConnectOnce == \A c \in 1 .. MaxSessions : OneReply("connect", c)

\* A request is only made for a new session, to which there is no reply yet.
LEMMA ConnectOnceStep ==
  Base /\ Sessions /\ ConnectOnce /\ [Next]_vars => ConnectOnce'
<1> SUFFICES ASSUME Base, Sessions, ConnectOnce, [Next]_vars, NEW c \in 1 .. MaxSessions
             PROVE  OneReply("connect", c)'
  BY DEF ConnectOnce
<1>1. c \in Nat \ {0} /\ gu16SessionID \in Nat
  BY SocketAssumption DEF Base, Types, SocketTypes
<1>2. ASSUME Asks("connect", c) PROVE NoReply("connect", c)
  <2>1. c > gu16SessionID
    BY <1>1, <1>2 DEF Asks
  <2> QED BY <1>1, <2>1, FutureReply
<1> QED BY <1>1, <1>2, OneReplyStep DEF ConnectOnce

Clean(s) == info[s].buffer = << >> /\ Remaining(s) = 0

Released == Running("release") => info[Head(todo).arg] = Invalid
UnusedClean == \A s \in Sockets : ~Used(s) => Clean(s)
Forgets == PendingOp("forget") => ~Used(theSocket) \/ PendingClose(theSocket)
Blocked == hif_receive_blocked => \E s \in Sockets : Connected(s) /\ Remaining(s) > 0
WhileConnecting ==
  PendingOp("connecting") =>
    Clean(theSocket) /\ (Used(theSocket) => NoReply("recv", Session(theSocket)))

\* What holds as long as no connection was taken for another.
Owned(s) == s = theSocket /\ (Connected(s) \/ PendingOp("connecting") \/ PendingClose(s))
Owns ==
  /\ \A s \in Sockets : Used(s) => Owned(s)
  /\ PendingOp("create") => PendingOp("forget") \/ \A s \in Sockets : ~Used(s)
  /\ \A s \in Sockets : Used(s) /\ Connected(s) => NoReply("connect", Session(s))

Tidy ==
  /\ Released /\ UnusedClean /\ Forgets /\ Blocked /\ WhileConnecting
  /\ ~misled => Owns

\* A pending call that uses the socket has one.
LEMMA PendingUses ==
  ASSUME CallTypes, SocketTypes, Shape, NEW op \in UsesSocket, PendingOp(op)
  PROVE  theSocket \in Sockets
<1>1. PICK i \in 1 .. Len(todo) : todo[i].op = op
  BY DEF PendingOp, Pending
<1> QED BY <1>1, Sock DEF Shape

\* What filling a buffer does to the socket's info, and to the flag.
LEMMA FillResult ==
  ASSUME Types, NEW s \in Sockets, NEW i \in InfoSet, NEW blocked,
         Announced(i, Head(rx).data), Head(rx).data \in Seq(Bytes), fillRecvBuffer(s, i, blocked)
  PROVE  \E j \in InfoSet :
           /\ info' = [info EXCEPT ![s] = j] /\ j.state = i.state
           /\ hif_receive_blocked' => blocked
           /\ hif_receive_blocked' /\ i.recvMsg.s16BufferSize > 0 => j.recvMsg.s16BufferSize > 0
<1> DEFINE j == Filled(i, Head(rx).data)
<1>1. /\ j \in InfoSet /\ j.state = i.state
      /\ lastTransfer(i) <=> j.recvMsg.s16BufferSize = 0
      /\ j.recvMsg.s16BufferSize \in Nat
  BY FilledFacts DEF InfoSet
<1>2. CASE info' = [info EXCEPT ![s] = j] /\ lastTransfer(i) /\ hif_set_rx_done("fill", TRUE)
  BY <1>1, <1>2 DEF hif_set_rx_done
<1>3. CASE info' = [info EXCEPT ![s] = j] /\ ~lastTransfer(i) /\ hif_receive_blocked' = blocked
  <2>1. j.recvMsg.s16BufferSize > 0
    BY <1>1, <1>3
  <2> QED BY <1>1, <1>3, <2>1
<1>4. CASE info' = [info EXCEPT ![s] = i] /\ hif_receive_blocked' = blocked
  BY <1>4
<1>5. CASE info' = [info EXCEPT ![s] = i] /\ hif_set_rx_done("fill", FALSE)
  BY <1>5 DEF hif_set_rx_done
<1> QED BY <1>2, <1>3, <1>4, <1>5 DEF fillRecvBuffer

\* A call that returns, or that reads on, keeps what is pending.
LEMMA ReturnKeeps ==
  ASSUME CallTypes, Shape, NEW op \in Neutral, Running(op), Returns
  PROVE  Keeps /\ ~Running("release")'
<1>1. todo # << >>
  BY DEF Running
<1>2. Pending' = {} \cup Rest
  BY <1>1, After
<1>3. {} \in SUBSET CallSet /\ \A c \in {} : c.op \in Neutral \cup {"close"}
  OBVIOUS
<1>4. Keeps
  BY <1>2, <1>3, KeepsReturning
<1> QED BY <1>1, <1>4, NextReturns DEF Inner

\* While a session goes on and makes no request, a reply that is not awaited is not
\* awaited after a step either.
LEMMA RepliesKept ==
  ASSUME Base, Sessions, [Next]_vars, UNCHANGED gu16SessionID, NEW s \in Sockets, Used(s),
         Session(s)' = Session(s)
  PROVE  /\ NoReply("connect", Session(s)) => NoReply("connect", Session(s))'
         /\ PendingOp("connecting") /\ PendingOp("connecting")' =>
              (NoReply("recv", Session(s)) => NoReply("recv", Session(s))')
<1>1. PICK c \in Nat \ {0} : Session(s) = c
  <2>1. Session(s) \in Nat /\ Session(s) > 0
    BY SocketAssumption DEF Base, Types, SocketTypes, Session, Sessions, TableSessions
  <2> QED BY <2>1
<1>2. \A t : NoReply(t, c)' => NoReply(t, Session(s))'
  BY <1>1 DEF NoReply, InRx, InQueue, Awaits, Matches
<1>3. ~Asks("connect", c)
  BY SocketAssumption DEF Asks, Base, Types, SocketTypes
<1>4. ASSUME PendingOp("connecting"), PendingOp("connecting")' PROVE ~Asks("recv", c)
  <2>1. CASE readEnd
    <3>1. Running("readEnd") /\ CallTypes /\ Shape
      BY <2>1 DEF readEnd, Base, Types
    <3>2. \A x \in Pending : x.op \in Reading \cup {"events"}
      BY <3>1, Below DEF Follows, Reading
    <3> QED BY <3>2, <1>4 DEF PendingOp, Reading
  <2>2. CASE connectDone
    <3>1. Running("connecting") /\ Returns /\ CallTypes /\ Shape
      BY <2>2 DEF connectDone, Base, Types
    <3>2. todo # << >> /\ Rest = {}
      BY <3>1, Below DEF Final
    <3>3. Pending' = {}
      BY <3>1, <3>2, After
    <3> QED BY <3>3, <1>4 DEF PendingOp
  <2> QED BY <2>1, <2>2 DEF Asks
<1>5. NoReply("connect", c) => NoReply("connect", c)'
  BY <1>3, NoReplyStep
<1>6. PendingOp("connecting") /\ PendingOp("connecting")' => (NoReply("recv", c) => NoReply("recv", c)')
  BY <1>4, NoReplyStep
<1> QED BY <1>1, <1>2, <1>5, <1>6

\* A step that changes neither which sockets are in use nor the calls that matter.
LEMMA TidyParts ==
  ASSUME Base, Sessions, Tidy, [Next]_vars, UNCHANGED <<theSocket, gu16SessionID>>, Keeps,
         \A s \in Sockets : /\ (Used(s)' <=> Used(s)) /\ Session(s)' = Session(s)
                            /\ ~Used(s) \/ (PendingOp("connecting") /\ s = theSocket) =>
                                 (Clean(s) => Clean(s)')
  PROVE  UnusedClean' /\ Forgets' /\ WhileConnecting'
<1>1. CallTypes /\ SocketTypes /\ Shape
  BY DEF Base, Types
<1>2. UnusedClean'
  BY DEF Tidy, UnusedClean
<1>3. Forgets'
  <2> SUFFICES ASSUME PendingOp("forget")' PROVE ~Used(theSocket)' \/ PendingClose(theSocket)'
    BY DEF Forgets
  <2>1. PendingOp("forget")
    BY DEF Keeps
  <2>2. theSocket \in Sockets
    BY <2>1, <1>1, PendingUses DEF UsesSocket
  <2>3. Used(theSocket)' <=> Used(theSocket)
    BY <2>2 DEF Used
  <2>4. PendingClose(theSocket) => PendingClose(theSocket)'
    BY <2>2 DEF Keeps, PendingClose
  <2> QED BY <2>1, <2>3, <2>4 DEF Tidy, Forgets
<1>4. WhileConnecting'
  <2> SUFFICES ASSUME PendingOp("connecting")'
               PROVE  Clean(theSocket)' /\ (Used(theSocket)' => NoReply("recv", Session(theSocket))')
    BY DEF WhileConnecting
  <2>1. PendingOp("connecting")
    BY DEF Keeps
  <2> PICK s \in Sockets : s = theSocket
    BY <2>1, <1>1, PendingUses DEF UsesSocket
  <2>2. Clean(s) /\ (Used(s) => NoReply("recv", Session(s)))
    BY <2>1 DEF Tidy, WhileConnecting
  <2>3. Clean(s)' /\ (Used(s)' => NoReply("recv", Session(s))')
    BY <2>1, <2>2, RepliesKept
  <2>4. theSocket' = s
    OBVIOUS
  <2> QED BY <2>3, <2>4 DEF Clean, Remaining, Used, Session
<1> QED BY <1>2, <1>3, <1>4

\* ... nor which sockets are connected.
LEMMA TidyQuiet ==
  ASSUME Base, Sessions, Tidy, [Next]_vars, UNCHANGED <<theSocket, misled, gu16SessionID>>, Keeps,
         \A s \in Sockets : /\ (Used(s)' <=> Used(s)) /\ Session(s)' = Session(s)
                            /\ (Connected(s)' <=> Connected(s))
                            /\ ~Used(s) \/ (PendingOp("connecting") /\ s = theSocket) =>
                                 (Clean(s) => Clean(s)'),
         Blocked',
         Running("release")' => UNCHANGED <<todo, info>>
  PROVE  Tidy'
<1>1. Released'
  <2> SUFFICES ASSUME Running("release")' PROVE info'[Head(todo').arg] = Invalid
    BY DEF Released
  <2>1. UNCHANGED <<todo, info>>
    OBVIOUS
  <2> QED BY <2>1 DEF Tidy, Released, Running
<1>2. UnusedClean' /\ Forgets' /\ WhileConnecting'
  BY TidyParts
<1>3. ASSUME ~misled' PROVE Owns'
  <2>1. Owns
    BY <1>3 DEF Tidy
  <2>2. ASSUME NEW s \in Sockets, Used(s)' PROVE Owned(s)'
    BY <2>1, <2>2 DEF Owns, Owned, Keeps
  <2>3. PendingOp("create")' => PendingOp("forget")' \/ \A s \in Sockets : ~Used(s)'
    BY <2>1 DEF Owns, Keeps
  <2>4. ASSUME NEW s \in Sockets, Used(s)', Connected(s)' PROVE NoReply("connect", Session(s))'
    BY <2>1, <2>4, RepliesKept DEF Owns
  <2> QED BY <2>2, <2>3, <2>4 DEF Owns
<1> QED BY <1>1, <1>2, <1>3 DEF Tidy

\* The passive steps, and those of the chip.
LEMMA TidyPassive ==
  ASSUME Base, Sessions, Tidy, [Next]_vars, Passive \/ chip
  PROVE  Tidy'
<1>1. /\ UNCHANGED <<gastrSockets, gu16SessionID, info, theSocket, misled>> /\ Keeps
      /\ hif_receive_blocked' => hif_receive_blocked
      /\ Running("release")' => UNCHANGED <<todo, info>>
  <2>1. CASE Passive
    BY <2>1 DEF Passive
  <2>2. CASE chip
    <3>1. UNCHANGED <<todo, gastrSockets, gu16SessionID, info, theSocket, misled, hif_receive_blocked>>
      BY <2>2, ChipPackets
    <3> QED BY <3>1 DEF Keeps, PendingOp, PendingClose, Pending
  <2> QED BY <2>1, <2>2
<1>2. \A s \in Sockets : /\ (Used(s)' <=> Used(s)) /\ Session(s)' = Session(s)
                         /\ (Connected(s)' <=> Connected(s)) /\ (Clean(s)' <=> Clean(s))
                         /\ Remaining(s)' = Remaining(s)
  BY <1>1 DEF Used, Session, Clean, Remaining, Connected
<1>3. Blocked'
  BY <1>1, <1>2 DEF Tidy, Blocked
<1> QED BY <1>1, <1>2, <1>3, TidyQuiet

\* The socket of a reply keeps its session, and its place in the table.
LEMMA NotPendingKeeps ==
  ASSUME SocketTypes, NEW s \in Sockets, NotPending(s)
  PROVE  \A r \in Sockets : (Used(r)' <=> Used(r)) /\ Session(r)' = Session(r)
<1>1. /\ gastrSockets'[s] = [gastrSockets[s] EXCEPT !.bIsRecvPending = FALSE]
      /\ \A r \in Sockets : r # s => gastrSockets'[r] = gastrSockets[r]
  BY DEF NotPending, SocketTypes
<1>2. /\ gastrSockets'[s].bIsUsed = gastrSockets[s].bIsUsed
      /\ gastrSockets'[s].u16SessionID = gastrSockets[s].u16SessionID
  BY <1>1 DEF SocketTypes
<1> QED BY <1>1, <1>2 DEF Used, Session

\* The replies to recv(), and the loss of the WiFi connection.
LEMMA TidyReplies ==
  ASSUME Base, Sessions, Tidy, [Next]_vars,
         DataReply \/ DiscardReply \/ StatusReply \/ Disconnected
  PROVE  Tidy'
<1>1. CallTypes /\ SocketTypes /\ Shape /\ Types /\ Interrupts
  BY DEF Base, Types
<1>2. Running("callback") /\ ~hif_receive_blocked /\ todo # << >> /\ Head(rx).sock \in Sockets
      /\ rx # << >> /\ Head(rx) \in PacketSet
  <2>1. Running("callback")
    BY DEF DataReply, DiscardReply, StatusReply, Disconnected, Handling
  <2>2. ~hif_receive_blocked /\ todo # << >>
    BY <2>1, <1>1 DEF Interrupts, Running
  <2>3. rx # << >> /\ Head(rx) \in PacketSet /\ Head(rx).sock \in Sockets
    BY <2>1, <1>1, HeadPacket DEF Types
  <2> QED BY <2>1, <2>2, <2>3
<1>3. UNCHANGED <<theSocket, misled, gu16SessionID>>
  BY DEF DataReply, DiscardReply, StatusReply, Disconnected, history, socketVars
<1>4. Keeps /\ ~Running("release")'
  <2>1. CASE Returns
    BY <2>1, <1>2, <1>1, ReturnKeeps DEF Neutral
  <2>2. CASE GoesOnWith(<<Events, Call("close", Head(rx).sock)>>)
    <3> DEFINE b == Call("close", Head(rx).sock)
    <3>1. Events \in CallSet /\ b \in CallSet /\ Events.op = "events" /\ b.op = "close"
      BY <1>2, CallTyped DEF Closing
    <3>2. Pending' = {Events, b} \cup Rest
      BY <3>1, <2>2, <1>2, <1>1, After
    <3>3. Keeps
      <4> HIDE DEF b
      <4>1. {Events, b} \in SUBSET CallSet /\ \A c \in {Events, b} : c.op \in Neutral \cup {"close"}
        BY <3>1 DEF Neutral
      <4>2. "callback" \in Neutral
        BY DEF Neutral
      <4> QED BY <3>2, <4>1, <4>2, <1>2, <1>1, KeepsReturning
    <3> HIDE DEF b
    <3>4. \A o : Running(o)' => o = "events"
      BY <3>1, <2>2, <1>2, <1>1, NextIs DEF Running, b
    <3> QED BY <3>3, <3>4
  <2>3. CASE GoesOnWith(AllClosed)
    <3>1. Rest \subseteq Pending' /\ \A c \in Pending' : c \in Rest \/ c.op \in {"events", "close"}
      BY <2>3, <1>2, <1>1, After
    <3>2. Pending = {Head(todo)} \cup Rest /\ Head(todo).op = "callback"
      BY <1>2, <1>1, Below
    <3>3. Keeps
      BY <3>1, <3>2 DEF Keeps, PendingOp, PendingClose, Closing
    <3>4. \A o : Running(o)' => o = "events"
      BY <2>3, <1>2, <1>1, AllClosedFacts, NextGoesOn
    <3> QED BY <3>3, <3>4
  <2> QED BY <2>1, <2>2, <2>3 DEF DataReply, DiscardReply, StatusReply, Disconnected
<1>5. \A s \in Sockets : (Used(s)' <=> Used(s)) /\ Session(s)' = Session(s)
  <2>1. CASE Disconnected
    BY <2>1 DEF Disconnected, socketVars, Used, Session
  <2>2. CASE NotPending(Head(rx).sock)
    BY <2>2, <1>2, <1>1, NotPendingKeeps
  <2> QED BY <2>1, <2>2 DEF DataReply, DiscardReply, StatusReply
<1>6. CASE DiscardReply \/ StatusReply \/ Disconnected
  <2>1. UNCHANGED info /\ ~hif_receive_blocked'
    BY <1>6, <1>2 DEF DiscardReply, StatusReply, Disconnected, Discard, Received, hif_set_rx_done,
                      socketVars
  <2>2. \A s \in Sockets : (Connected(s)' <=> Connected(s)) /\ (Clean(s)' <=> Clean(s))
    BY <2>1 DEF Connected, Clean, Remaining
  <2>3. Blocked'
    BY <2>1 DEF Blocked
  <2> QED BY <1>3, <1>4, <1>5, <2>2, <2>3, TidyQuiet
<1>7. CASE DataReply
  <2>1. PICK s : s = Head(rx).sock
    OBVIOUS
  <2>2. PICK i : i = [info[s] EXCEPT !.recvMsg =
                       [pu8Buffer |-> 0, s16BufferSize |-> Len(Head(rx).data)]]
    OBVIOUS
  <2>3. /\ Handling("recv") /\ Head(rx).data # << >> /\ sameSession(Head(rx)) /\ Connected(s)
        /\ fillRecvBuffer(s, i, TRUE)
    BY <1>7, <2>1, <2>2 DEF DataReply
  <2>4. /\ s \in Sockets /\ Head(rx).data \in Seq(Bytes) /\ i \in InfoSet
        /\ Announced(i, Head(rx).data) /\ i.state = info[s].state
        /\ i.recvMsg.s16BufferSize = Len(Head(rx).data)
    BY <2>3, <1>1, <2>1, <2>2, DataFacts
  <2>5. Len(Head(rx).data) > 0
    BY <2>3, <2>4, TailFacts
  <2>6. Used(s)
    <3>1. Head(rx).session > 0
      BY <2>3, <1>2 DEF Handling, Sessions, PacketSessions, Known
    <3>2. Session(s) = Head(rx).session
      BY <2>3, <2>1 DEF sameSession, Session
    <3>3. gastrSockets[s] # Unused
      BY <3>1, <3>2 DEF Session, Unused
    <3> QED BY <2>4, <3>3 DEF Sessions, TableSessions
  <2>7. ASSUME PendingOp("connecting"), s = theSocket PROVE FALSE
    <3>1. NoReply("recv", Session(s))
      BY <2>6, <2>7 DEF Tidy, WhileConnecting
    <3>2. Head(rx).type = "recv" /\ Head(rx).session = Session(s)
      BY <2>3, <2>1 DEF Handling, sameSession, Session
    <3>3. InRx("recv", Session(s))
      BY <3>2, <1>2 DEF InRx, Matches, Unhandled
    <3> QED BY <3>1, <3>3 DEF NoReply
  <2>8. PICK j \in InfoSet :
           /\ info' = [info EXCEPT ![s] = j] /\ j.state = i.state
           /\ hif_receive_blocked' => j.recvMsg.s16BufferSize > 0
    <3>1. i.recvMsg.s16BufferSize > 0
      BY <2>4, <2>5
    <3>2. \E j \in InfoSet :
            /\ info' = [info EXCEPT ![s] = j] /\ j.state = i.state
            /\ hif_receive_blocked' /\ i.recvMsg.s16BufferSize > 0 => j.recvMsg.s16BufferSize > 0
      <4>1. PICK blocked : fillRecvBuffer(s, i, blocked)
        BY <2>3
      <4>2. Types /\ s \in Sockets /\ i \in InfoSet /\ Announced(i, Head(rx).data)
            /\ Head(rx).data \in Seq(Bytes)
        BY <2>4, <1>1
      <4>3. \E j \in InfoSet :
            /\ info' = [info EXCEPT ![s] = j] /\ j.state = i.state
            /\ hif_receive_blocked' => blocked
            /\ hif_receive_blocked' /\ i.recvMsg.s16BufferSize > 0 => j.recvMsg.s16BufferSize > 0
        BY <4>1, <4>2, FillResult
      <4> QED BY <4>3
    <3> QED BY <3>1, <3>2
  <2>9. info'[s] = j /\ \A r \in Sockets : r # s => info'[r] = info[r]
    BY <2>4, <2>8, <1>1 DEF Types, InfoTypes
  <2>10. \A r \in Sockets : /\ Connected(r)' <=> Connected(r)
                            /\ r # s => (Clean(r)' <=> Clean(r))
    BY <2>4, <2>8, <2>9 DEF Connected, Clean, Remaining
  <2>11. Blocked'
    <3>1. Connected(s)'
      BY <2>3, <2>4, <2>10
    <3>2. Remaining(s)' = j.recvMsg.s16BufferSize
      BY <2>9 DEF Remaining
    <3> QED BY <2>4, <2>8, <3>1, <3>2 DEF Blocked
  <2>12. \A r \in Sockets : ~Used(r) \/ (PendingOp("connecting") /\ r = theSocket) => r # s
    BY <2>6, <2>7
  <2> QED BY <1>3, <1>4, <1>5, <2>10, <2>11, <2>12, TidyQuiet
<1> QED BY <1>6, <1>7

\* The steps of a read.
LEMMA TidyReads ==
  ASSUME Base, Sessions, Tidy, [Next]_vars, copyFill \/ copy \/ readEnd
  PROVE  Tidy'
<1>1. CallTypes /\ SocketTypes /\ Shape /\ Types /\ Interrupts
  BY DEF Base, Types
<1> PICK s : s = theSocket
  OBVIOUS
<1>2. /\ s \in Sockets /\ todo # << >>
      /\ \/ Running("copy") /\ Head(todo).op = "copy" /\ Head(todo).arg \in Nat
         \/ Running("readEnd") /\ Head(todo).op = "readEnd"
      /\ ~PendingOp("connecting")
  <2>1. PICK op \in {"copy", "readEnd"} : Running(op)
    BY DEF copyFill, copy, readEnd
  <2>2. s \in Sockets /\ todo # << >> /\ Head(todo).op = op /\ Head(todo).arg \in Nat
    BY <2>1, <1>1, RunningFacts, CallOps DEF UsesSocket, Reading
  <2>3. \A c \in Pending : c.op \in Reading \cup {"events"}
    BY <2>1, <1>1, Below DEF Follows, Reading
  <2> QED BY <2>1, <2>2, <2>3 DEF PendingOp, Reading
<1>3. UNCHANGED <<theSocket, misled, gu16SessionID>>
  BY DEF copyFill, copy, readEnd, history
<1>4. Keeps /\ ~Running("release")'
  <2>1. CASE Returns
    BY <2>1, <1>2, <1>1, ReturnKeeps DEF Neutral, Reading
  <2>2. CASE UNCHANGED todo
    BY <2>2, <1>2 DEF Keeps, PendingOp, PendingClose, Pending, Running
  <2>3. ASSUME NEW a \in CallSet, a.op \in {"copy", "events"}, GoesOnWith(<<a>>)
        PROVE  Keeps /\ ~Running("release")'
    <3>1. Pending' = {a} \cup Rest
      BY <2>3, <1>2, <1>1, After
    <3>2. Keeps
      <4>1. {a} \in SUBSET CallSet /\ \A c \in {a} : c.op \in Neutral \cup {"close"}
        BY <2>3 DEF Neutral, Reading
      <4>2. {"copy", "readEnd"} \subseteq Neutral
        BY DEF Neutral, Reading
      <4> QED BY <3>1, <4>1, <4>2, <1>2, <1>1, KeepsReturning
    <3>3. \A o : Running(o)' => o = a.op
      BY <2>3, <1>2, <1>1, NextIs DEF Running
    <3> QED BY <3>2, <3>3, <2>3
  <2>4. CASE copyFill
    BY <2>1, <2>2, <2>4 DEF copyFill
  <2>5. CASE copy
    <3> DEFINE n == Head(todo).arg - Smaller(Head(todo).arg, Len(info[theSocket].buffer))
    <3>1. Returns \/ GoesOnWith(<<Call("copy", n)>>)
      BY <2>5 DEF copy
    <3>2. n \in Nat
      <4>1. Head(todo).arg \in Nat
        BY <2>5, <1>2 DEF copy, Running
      <4> QED BY <4>1, <1>2, <1>1, Lengths DEF Smaller, Types
    <3> HIDE DEF n
    <3>3. Call("copy", n) \in CallSet /\ Call("copy", n).op = "copy"
      BY <3>2, CallTyped DEF Ops, Closing, Reading
    <3> QED BY <3>1, <3>3, <2>1, <2>3
  <2>6. CASE readEnd
    BY <2>1, <2>3, <2>6, CallTyped DEF readEnd
  <2> QED BY <2>4, <2>5, <2>6
<1>5. \A r \in Sockets : (Used(r)' <=> Used(r)) /\ Session(r)' = Session(r)
  <2>1. CASE UNCHANGED gastrSockets
    BY <2>1 DEF Used, Session
  <2>2. CASE recv(s) /\ ~UNCHANGED gastrSockets
    <3>1. gastrSockets' = [gastrSockets EXCEPT ![s].bIsRecvPending = TRUE]
      BY <2>2 DEF recv
    <3>2. /\ gastrSockets'[s] = [gastrSockets[s] EXCEPT !.bIsRecvPending = TRUE]
          /\ \A r \in Sockets : r # s => gastrSockets'[r] = gastrSockets[r]
      BY <3>1, <1>2, <1>1 DEF SocketTypes
    <3>3. /\ gastrSockets'[s].bIsUsed = gastrSockets[s].bIsUsed
          /\ gastrSockets'[s].u16SessionID = gastrSockets[s].u16SessionID
      BY <3>2, <1>2, <1>1 DEF SocketTypes
    <3> QED BY <3>2, <3>3 DEF Used, Session
  <2> QED BY <2>1, <2>2 DEF copyFill, copy, readEnd
\* What the rest of the proof needs of a change of the socket's info.
<1>6. ASSUME NEW j \in InfoSet, info' = [info EXCEPT ![s] = j], j.state = info[s].state,
             Clean(s) => j.buffer = << >> /\ j.recvMsg.s16BufferSize = 0,
             hif_receive_blocked' => hif_receive_blocked,
             hif_receive_blocked' => (Remaining(s) > 0 => j.recvMsg.s16BufferSize > 0)
      PROVE  Tidy'
  <2>1. info'[s] = j /\ \A r \in Sockets : r # s => info'[r] = info[r]
    BY <1>2, <1>6, <1>1 DEF Types, InfoTypes
  <2>2. \A r \in Sockets : (Connected(r)' <=> Connected(r)) /\ (Clean(r) => Clean(r)')
    BY <2>1, <1>2, <1>6 DEF Connected, Clean, Remaining
  <2>3. Blocked'
    <3> SUFFICES ASSUME hif_receive_blocked' PROVE \E r \in Sockets : Connected(r)' /\ Remaining(r)' > 0
      BY DEF Blocked
    <3>1. PICK r \in Sockets : Connected(r) /\ Remaining(r) > 0
      BY <1>6 DEF Tidy, Blocked
    <3>2. Connected(r)'
      BY <3>1, <2>2
    <3>3. Remaining(r)' > 0
      BY <3>1, <2>1, <1>2, <1>6 DEF Remaining
    <3> QED BY <3>2, <3>3
  <2> QED BY <1>3, <1>4, <1>5, <2>2, <2>3, TidyQuiet
<1>7. CASE copyFill
  <2>1. Remaining(s) > 0 /\ fillRecvBuffer(s, info[s], hif_receive_blocked)
    BY <1>7 DEF copyFill
  <2>2. /\ info[s] \in InfoSet /\ Head(rx).data \in Seq(Bytes) /\ Announced(info[s], Head(rx).data)
    BY <2>1, <1>2, <1>1, WantedFacts
  <2>3. PICK j \in InfoSet :
           /\ info' = [info EXCEPT ![s] = j] /\ j.state = info[s].state
           /\ hif_receive_blocked' => hif_receive_blocked
           /\ hif_receive_blocked' /\ info[s].recvMsg.s16BufferSize > 0 => j.recvMsg.s16BufferSize > 0
    BY <2>1, <2>2, <1>2, <1>1, FillResult
  <2>4. ~Clean(s) /\ Remaining(s) = info[s].recvMsg.s16BufferSize
    BY <2>1 DEF Clean, Remaining
  <2> QED BY <2>3, <2>4, <1>6
<1>8. CASE copy
  <2> DEFINE b == info[s].buffer
             n == Smaller(Head(todo).arg, Len(b))
             j == [info[s] EXCEPT !.buffer = SubSeq(b, n + 1, Len(b))]
  <2>1. info' = [info EXCEPT ![s] = j] /\ UNCHANGED hif_receive_blocked /\ Head(todo).arg \in Nat
    BY <1>8, <1>2, <1>1 DEF copy, hifQuiet, context, Types, InfoTypes, Running
  <2>2. b \in Seq(Bytes) /\ Len(b) \in Nat /\ info[s] \in InfoSet
    BY <1>2, <1>1, Lengths DEF Types, InfoTypes
  <2>3. j.state = info[s].state /\ j.recvMsg = info[s].recvMsg /\ j.buffer = SubSeq(b, n + 1, Len(b))
    BY <2>2 DEF InfoSet
  <2>4. n \in Nat /\ n <= Len(b)
    BY <2>1, <2>2 DEF Smaller
  <2>5. b = << >> => SubSeq(b, n + 1, Len(b)) = << >>
    <3> SUFFICES ASSUME b = << >> PROVE SubSeq(b, n + 1, Len(b)) = << >>
      OBVIOUS
    <3>1. Len(b) = 0
      BY DEF b
    <3>2. n = 0
      BY <2>2, <2>4, <3>1
    <3> HIDE DEF n, b
    <3> QED BY <3>1, <3>2, <2>2
  <2>6. j \in InfoSet
    <3>1. Types'
      BY BaseStep DEF Base
    <3>2. info'[s] \in InfoSet
      BY <3>1, <1>2 DEF Types, InfoTypes
    <3> HIDE DEF j
    <3> QED BY <2>1, <3>2, <1>2, <1>1 DEF Types, InfoTypes
  <2> HIDE DEF j
  <2> QED BY <2>1, <2>3, <2>5, <2>6, <1>6 DEF Clean, Remaining, b
<1>9. CASE readEnd
  <2>1. UNCHANGED info /\ UNCHANGED hif_receive_blocked
    BY <1>9 DEF readEnd, hifQuiet, context
  <2>2. \A r \in Sockets : /\ Connected(r)' <=> Connected(r)
                           /\ Clean(r) => Clean(r)'
                           /\ Remaining(r)' = Remaining(r)
    BY <2>1 DEF Connected, Clean, Remaining
  <2>3. Blocked'
    BY <2>1, <2>2 DEF Tidy, Blocked
  <2> QED BY <1>3, <1>4, <1>5, <2>2, <2>3, TidyQuiet
<1> QED BY <1>7, <1>8, <1>9

\* The reply to connect().
LEMMA TidyConnectReply ==
  ASSUME Base, Sessions, ConnectOnce, Tidy, [Next]_vars, ConnectReply
  PROVE  Tidy'
<1>1. CallTypes /\ SocketTypes /\ Shape /\ Types /\ Interrupts
  BY DEF Base, Types
<1>2. PICK s : s = Head(rx).sock
  OBVIOUS
<1>3. /\ Handling("connect") /\ Running("callback") /\ Returns
      /\ rx' = << >> /\ ~hif_receive_blocked' /\ UNCHANGED <<newInterrupt, queue>>
      /\ UNCHANGED <<gastrSockets, gu16SessionID, theSocket, peers>>
  BY DEF ConnectReply, Handling, Received, hif_set_rx_done, chipVars
<1>4. s \in Sockets /\ rx # << >> /\ Head(rx) \in PacketSet
  BY <1>3, <1>2, <1>1, HeadPacket DEF Types
<1>5. PICK st : /\ info' = [info EXCEPT ![s].state = st]
                /\ st = IF Head(rx).ok THEN "CONNECTED" ELSE "IDLE"
  BY <1>2 DEF ConnectReply
<1>6. Keeps /\ ~Running("release")'
  BY <1>3, <1>1, ReturnKeeps DEF Neutral
<1>7. /\ info'[s] = [info[s] EXCEPT !.state = st]
      /\ \A r \in Sockets : r # s => info'[r] = info[r]
  BY <1>4, <1>5, <1>1 DEF Types, InfoTypes
<1>8. /\ \A r \in Sockets : Clean(r)' <=> Clean(r)
      /\ Connected(s)' <=> st = "CONNECTED"
      /\ \A r \in Sockets : r # s => (Connected(r)' <=> Connected(r))
  <2>1. info[s] \in InfoSet
    BY <1>1, <1>4 DEF Types, InfoTypes
  <2>2. /\ info'[s].state = st /\ info'[s].buffer = info[s].buffer
        /\ info'[s].recvMsg = info[s].recvMsg
    BY <2>1, <1>7 DEF InfoSet
  <2> QED BY <2>2, <1>4, <1>7 DEF Connected, Clean, Remaining
<1>9. \A r \in Sockets : (Used(r)' <=> Used(r)) /\ Session(r)' = Session(r)
  BY <1>3 DEF Used, Session
<1>10. UnusedClean' /\ Forgets' /\ WhileConnecting'
  BY <1>3, <1>6, <1>8, <1>9, TidyParts
<1>11. ASSUME ~misled' PROVE Owns'
  <2>1. Owns
    BY <1>11 DEF Tidy, ConnectReply
  <2>2. Used(s) => Head(rx).session = Session(s)
    BY <1>11, <1>2 DEF ConnectReply, sameSession, Used, Session
  \* This was the one reply of the session.
  <2>3. ASSUME Used(s) PROVE ~Connected(s) /\ NoReply("connect", Session(s))'
    <3>1. Session(s) \in 1 .. MaxSessions
      BY <2>3, <1>4, SocketAssumption DEF Base, Types, SocketTypes, Session, Sessions, TableSessions
    <3>2. InRx("connect", Session(s))
      BY <2>2, <2>3, <1>3, <1>4 DEF InRx, Matches, Unhandled, Handling
    <3>3. ~Connected(s)
      BY <2>1, <2>3, <3>2, <1>4 DEF Owns, NoReply
    <3>4. InQueue("connect", Session(s)) = {} /\ Awaits("connect", Session(s)) = {}
      BY <3>1, <3>2 DEF ConnectOnce, OneReply
    <3>5. InQueue("connect", Session(s))' = {} /\ Awaits("connect", Session(s))' = {}
      BY <3>4, <1>3, <1>4, <1>9 DEF InQueue, Awaits, Matches
    <3>6. ~InRx("connect", Session(s))'
      BY <1>3 DEF InRx
    <3> QED BY <3>3, <3>5, <3>6 DEF NoReply
  <2>4. ASSUME NEW r \in Sockets, Used(r)' PROVE Owned(r)'
    <3>1. Owned(r) /\ Used(r)
      BY <2>1, <2>4, <1>9 DEF Owns
    <3> QED BY <2>3, <3>1, <1>3, <1>6, <1>8 DEF Owned, Keeps
  <2>5. PendingOp("create")' => PendingOp("forget")' \/ \A r \in Sockets : ~Used(r)'
    BY <2>1, <1>6, <1>9 DEF Owns, Keeps
  <2>6. ASSUME NEW r \in Sockets, Used(r)', Connected(r)' PROVE NoReply("connect", Session(r))'
    <3>1. Used(r)
      BY <2>6, <1>9
    <3>2. CASE r = s
      BY <3>1, <3>2, <2>3
    <3>3. CASE r # s
      <4>1. NoReply("connect", Session(r))
        BY <3>1, <3>3, <2>1, <2>6, <1>8 DEF Owns
      <4> QED BY <3>1, <4>1, <1>3, <1>9, RepliesKept
    <3> QED BY <3>2, <3>3
  <2> QED BY <2>4, <2>5, <2>6 DEF Owns
<1> QED BY <1>3, <1>6, <1>10, <1>11 DEF Tidy, Released, Blocked

\* The end of a connection.
LEMMA TidyClose ==
  ASSUME Base, Sessions, Tidy, [Next]_vars, close
  PROVE  Tidy'
<1>1. CallTypes /\ SocketTypes /\ Shape /\ Types /\ Interrupts
  BY DEF Base, Types
<1>2. PICK s : s = Head(todo).arg
  OBVIOUS
<1>3. /\ Running("close") /\ GoesOnWith(<<Call("release", s)>>)
      /\ UNCHANGED <<gastrSockets, gu16SessionID, theSocket, misled>>
      /\ info' = [info EXCEPT ![s] = Invalid]
      /\ ~flushes(s) => UNCHANGED hif_receive_blocked
      /\ flushes(s) => ~hif_receive_blocked'
  BY <1>2 DEF close, closed, Discard, hif_set_rx_done, context, history
<1>4. todo # << >> /\ Head(todo).op = "close" /\ s \in Sockets
  BY <1>3, <1>2, <1>1, RunningFacts DEF Closing
<1>5. /\ Call("release", s) \in CallSet /\ Call("release", s).op = "release"
      /\ Call("release", s).arg = s
  BY <1>4, CallTyped DEF Closing
<1>6. Pending' = {Call("release", s)} \cup Rest /\ Head(todo') = Call("release", s)
  BY <1>3, <1>4, <1>5, <1>1, After, NextIs
<1>7. Pending = {Head(todo)} \cup Rest
  BY <1>3, <1>1, Below
<1>8. Keeps /\ PendingClose(s)'
  BY <1>2, <1>4, <1>5, <1>6, <1>7 DEF Keeps, PendingOp, PendingClose, Closing
<1>9. info'[s] = Invalid /\ \A r \in Sockets : r # s => info'[r] = info[r]
  BY <1>3, <1>4, <1>1 DEF Types, InfoTypes
<1>10. /\ Clean(s)' /\ ~Connected(s)'
       /\ \A r \in Sockets : r # s => /\ Clean(r)' <=> Clean(r)
                                      /\ Connected(r)' <=> Connected(r)
                                      /\ Remaining(r)' = Remaining(r)
  BY <1>9 DEF Clean, Connected, Remaining, Invalid, NoMessage
<1>11. \A r \in Sockets : (Used(r)' <=> Used(r)) /\ Session(r)' = Session(r)
  BY <1>3 DEF Used, Session
<1>12. UnusedClean' /\ Forgets' /\ WhileConnecting'
  BY <1>3, <1>8, <1>10, <1>11, TidyParts
<1>13. Released'
  BY <1>5, <1>6, <1>9 DEF Released
<1>14. Blocked'
  <2> SUFFICES ASSUME hif_receive_blocked' PROVE \E r \in Sockets : Connected(r)' /\ Remaining(r)' > 0
    BY DEF Blocked
  <2>1. ~flushes(s) /\ hif_receive_blocked
    BY <1>3
  <2>2. PICK r \in Sockets : Connected(r) /\ Remaining(r) > 0
    BY <2>1 DEF Tidy, Blocked
  <2>3. r # s
    BY <2>1, <2>2 DEF flushes
  <2> QED BY <2>2, <2>3, <1>10
<1>15. ASSUME ~misled' PROVE Owns'
  <2>1. Owns
    BY <1>3, <1>15 DEF Tidy
  <2>2. ASSUME NEW r \in Sockets, Used(r)' PROVE Owned(r)'
    BY <2>1, <2>2, <1>3, <1>8, <1>10, <1>11 DEF Owns, Owned, Keeps
  <2>3. PendingOp("create")' => PendingOp("forget")' \/ \A r \in Sockets : ~Used(r)'
    BY <2>1, <1>8, <1>11 DEF Owns, Keeps
  <2>4. ASSUME NEW r \in Sockets, Used(r)', Connected(r)' PROVE NoReply("connect", Session(r))'
    BY <2>1, <2>4, <1>3, <1>10, <1>11, RepliesKept DEF Owns
  <2> QED BY <2>2, <2>3, <2>4 DEF Owns
<1> QED BY <1>12, <1>13, <1>14, <1>15 DEF Tidy

\* The end of a close: the socket is free.
LEMMA TidyRelease ==
  ASSUME Base, Sessions, Tidy, [Next]_vars, release
  PROVE  Tidy'
<1>1. CallTypes /\ SocketTypes /\ Shape /\ Types
  BY DEF Base, Types
<1>2. PICK s : s = Head(todo).arg
  OBVIOUS
<1>3. /\ Running("release") /\ closeSocket(s) /\ Returns
      /\ UNCHANGED <<gu16SessionID, info, theSocket, misled, hif_receive_blocked>>
  BY <1>2 DEF release, context, history
<1>4. todo # << >> /\ Head(todo).op = "release" /\ s \in Sockets
  BY <1>3, <1>2, <1>1, RunningFacts DEF Closing
<1>5. Pending' = Rest /\ Pending = {Head(todo)} \cup Rest /\ ~Running("release")'
  BY <1>3, <1>4, <1>1, After, Below, NextReturns DEF Inner
<1>6. /\ \A op : op # "release" => (PendingOp(op)' <=> PendingOp(op))
      /\ \A r : r # s => (PendingClose(r)' <=> PendingClose(r))
  BY <1>2, <1>4, <1>5 DEF PendingOp, PendingClose
<1>7. ~Used(s)' /\ \A r \in Sockets : r # s => (Used(r)' <=> Used(r)) /\ Session(r)' = Session(r)
  <2>1. CASE Used(s)
    <3>1. gastrSockets' = [gastrSockets EXCEPT ![s] = Unused]
      BY <2>1, <1>3 DEF closeSocket, Used
    <3>2. gastrSockets'[s] = Unused /\ \A r \in Sockets : r # s => gastrSockets'[r] = gastrSockets[r]
      BY <3>1, <1>4, <1>1 DEF SocketTypes
    <3> QED BY <3>2 DEF Used, Session, Unused
  <2>2. CASE ~Used(s)
    BY <2>2, <1>3 DEF closeSocket, Used, Session
  <2> QED BY <2>1, <2>2
<1>8. \A r \in Sockets : /\ Clean(r)' <=> Clean(r)
                         /\ Connected(r)' <=> Connected(r)
                         /\ Remaining(r)' = Remaining(r)
  BY <1>3 DEF Clean, Connected, Remaining
<1>9. UnusedClean'
  <2>1. info[s] = Invalid
    BY <1>3, <1>2 DEF Tidy, Released
  <2>2. Clean(s)
    BY <2>1 DEF Clean, Remaining, Invalid, NoMessage
  <2> QED BY <2>2, <1>7, <1>8 DEF Tidy, UnusedClean
<1>10. Blocked'
  BY <1>3, <1>8 DEF Tidy, Blocked
\* The client's socket, where a pending call uses it.
<1>11. ASSUME NEW op \in UsesSocket, op # "release", PendingOp(op)'
       PROVE  \E r \in Sockets : /\ r = theSocket /\ r = theSocket' /\ PendingOp(op)
                                 /\ Used(r)' => r # s /\ Used(r)
  <2>1. PendingOp(op)
    BY <1>6, <1>11
  <2>2. theSocket \in Sockets
    BY <2>1, <1>1, <1>11, PendingUses
  <2> QED BY <2>1, <2>2, <1>3, <1>7
<1>12. Forgets'
  <2> SUFFICES ASSUME PendingOp("forget")' PROVE ~Used(theSocket)' \/ PendingClose(theSocket)'
    BY DEF Forgets
  <2>1. PICK r \in Sockets : /\ r = theSocket /\ r = theSocket' /\ PendingOp("forget")
                             /\ Used(r)' => r # s /\ Used(r)
    BY <1>11 DEF UsesSocket
  <2>2. ~Used(r) \/ PendingClose(r)
    BY <2>1 DEF Tidy, Forgets
  <2>3. ~Used(r)' \/ PendingClose(r)'
    BY <2>1, <2>2, <1>6, <1>7
  <2> QED BY <2>1, <2>3 DEF Used, PendingClose
<1>13. WhileConnecting'
  <2> SUFFICES ASSUME PendingOp("connecting")'
               PROVE  Clean(theSocket)' /\ (Used(theSocket)' => NoReply("recv", Session(theSocket))')
    BY DEF WhileConnecting
  <2>1. PICK r \in Sockets : /\ r = theSocket /\ r = theSocket' /\ PendingOp("connecting")
                             /\ Used(r)' => r # s /\ Used(r)
    BY <1>11 DEF UsesSocket
  <2>2. Clean(r) /\ (Used(r) => NoReply("recv", Session(r)))
    BY <2>1 DEF Tidy, WhileConnecting
  <2>3. Clean(r)' /\ (Used(r)' => NoReply("recv", Session(r))')
    BY <2>1, <2>2, <1>3, <1>7, <1>8, RepliesKept
  <2> QED BY <2>1, <2>3 DEF Clean, Remaining, Used, Session
<1>14. ASSUME ~misled' PROVE Owns'
  <2>1. Owns
    BY <1>3, <1>14 DEF Tidy
  <2>2. ASSUME NEW r \in Sockets, Used(r)' PROVE Owned(r)'
    <3>1. r # s /\ Used(r)
      BY <2>2, <1>7
    <3>2. Owned(r)
      BY <3>1, <2>1 DEF Owns
    <3> QED BY <3>1, <3>2, <1>3, <1>6, <1>8 DEF Owned
  <2>3. PendingOp("create")' => PendingOp("forget")' \/ \A r \in Sockets : ~Used(r)'
    BY <2>1, <1>6, <1>7 DEF Owns
  <2>4. ASSUME NEW r \in Sockets, Used(r)', Connected(r)' PROVE NoReply("connect", Session(r))'
    BY <2>1, <2>4, <1>3, <1>7, <1>8, RepliesKept DEF Owns
  <2> QED BY <2>2, <2>3, <2>4 DEF Owns
<1> QED BY <1>5, <1>9, <1>10, <1>12, <1>13, <1>14 DEF Tidy, Released

\* The start of a call that closes the client's socket or opens one.
LEMMA TidyCalls ==
  ASSUME Base, Sessions, Tidy, [Next]_vars,
         UNCHANGED <<gastrSockets, gu16SessionID, info, theSocket, misled, hif_receive_blocked>>,
         ~Running("release")', ~PendingOp("connecting")',
         PendingOp("forget")' => PendingClose(theSocket)',
         Owns => \A s \in Sockets : Used(s) => Owned(s)',
         Owns => (PendingOp("create")' => PendingOp("forget")' \/ \A s \in Sockets : ~Used(s))
  PROVE  Tidy'
<1>1. \A s \in Sockets : /\ (Used(s)' <=> Used(s)) /\ Session(s)' = Session(s)
                         /\ (Connected(s)' <=> Connected(s)) /\ (Clean(s)' <=> Clean(s))
                         /\ Remaining(s)' = Remaining(s)
  BY DEF Used, Session, Clean, Remaining, Connected
<1>2. Released' /\ Forgets' /\ WhileConnecting'
  BY DEF Released, Forgets, WhileConnecting
<1>3. UnusedClean' /\ Blocked'
  BY <1>1 DEF Tidy, UnusedClean, Blocked
<1>4. ASSUME ~misled' PROVE Owns'
  <2>1. Owns
    BY <1>4 DEF Tidy
  <2>2. \A s \in Sockets : Used(s)' => Owned(s)'
    BY <2>1, <1>1
  <2>3. PendingOp("create")' => PendingOp("forget")' \/ \A s \in Sockets : ~Used(s)'
    BY <2>1, <1>1
  <2>4. ASSUME NEW s \in Sockets, Used(s)', Connected(s)' PROVE NoReply("connect", Session(s))'
    BY <2>1, <2>4, <1>1, RepliesKept DEF Owns
  <2> QED BY <2>2, <2>3, <2>4 DEF Owns
<1> QED BY <1>2, <1>3, <1>4 DEF Tidy

\* The calls that close a connection, or begin one.
LEMMA TidyStops ==
  ASSUME Base, Sessions, Tidy, [Next]_vars, stopFirst \/ Stop \/ (Connect /\ theSocket = None)
  PROVE  Tidy'
<1>1. CallTypes /\ SocketTypes /\ Shape /\ Types
  BY DEF Base, Types
<1>2. PICK s : s = theSocket
  OBVIOUS
<1>3. UNCHANGED <<gastrSockets, gu16SessionID, info, theSocket, misled, hif_receive_blocked>>
  BY DEF stopFirst, Stop, Connect, Calls, hifQuiet, context, socketVars, history
<1>4. /\ Events \in CallSet /\ Events.op = "events"
      /\ Call("forget", 0) \in CallSet /\ Call("forget", 0).op = "forget"
      /\ Call("create", 0) \in CallSet /\ Call("create", 0).op = "create"
      /\ s \in Sockets => /\ Call("close", s) \in CallSet /\ Call("close", s).op = "close"
                          /\ Call("close", s).arg = s
  BY CallTyped DEF Ops, Closing, Final
<1>5. ASSUME s \in Sockets, ~Running("release")',
             \/ Pending' = {Events, Call("close", s), Call("forget", 0)}
             \/ Pending' = {Events, Call("close", s), Call("forget", 0), Call("create", 0)}
      PROVE  Tidy'
  <2>1. PendingClose(s)' /\ ~PendingOp("connecting")' /\ PendingOp("forget")'
    BY <1>4, <1>5 DEF PendingClose, PendingOp, Closing
  <2>2. Owns => \A r \in Sockets : Used(r) => Owned(r)'
    BY <2>1, <1>3, <1>2 DEF Owns, Owned
  <2>3. PendingClose(theSocket)'
    BY <2>1, <1>3, <1>2 DEF PendingClose
  <2> QED BY <2>1, <2>2, <2>3, <1>3, <1>5, TidyCalls
<1>6. ASSUME Pending' = {Call("create", 0)}, ~Running("release")',
             Owns => \A r \in Sockets : ~Used(r)
      PROVE  Tidy'
  <2>1. ~PendingOp("connecting")' /\ ~PendingOp("forget")'
    BY <1>4, <1>6 DEF PendingOp
  <2> QED BY <2>1, <1>3, <1>6, TidyCalls
<1>7. CASE stopFirst
  <2>1. Running("stopFirst") /\ s \in Sockets /\ todo # << >>
        /\ Pending = {Head(todo)} /\ Head(todo).op = "stopFirst" /\ Rest = {}
    BY <1>7, <1>2, <1>1, RunningFacts, Below DEF stopFirst, UsesSocket, Final
  <2>2. CASE Connected(s)
    <3>1. GoesOnWith(<<Events, Call("close", s), Call("forget", 0), Call("create", 0)>>)
      BY <2>2, <1>7, <1>2 DEF stopFirst
    <3>2. Pending' = {Events, Call("close", s), Call("forget", 0), Call("create", 0)}
      BY <3>1, <2>1, <1>4, <1>1, After
    <3>3. ~Running("release")'
      BY <3>1, <2>1, <1>4, <1>1, NextIs DEF Running
    <3> QED BY <3>2, <3>3, <2>1, <1>5
  <2>3. CASE ~Connected(s)
    <3>1. GoesOnWith(<<Call("create", 0)>>)
      BY <2>3, <1>7, <1>2 DEF stopFirst
    <3>2. Pending' = {Call("create", 0)} /\ ~Running("release")'
      BY <3>1, <2>1, <1>4, <1>1, After, NextIs DEF Running
    <3>3. ~PendingOp("connecting") /\ ~PendingClose(s)
      BY <2>1 DEF PendingOp, PendingClose, Closing
    <3>4. Owns => \A r \in Sockets : ~Used(r)
      BY <3>3, <2>3, <1>2 DEF Owns, Owned
    <3> QED BY <3>2, <3>4, <1>6
  <2> QED BY <2>2, <2>3
\* Calls that are begun.
<1>8. ASSUME Idle, todo' # << >>, todo'[1] \in {Events, Call("create", 0)} PROVE ~Running("release")'
  <2>1. todo' \in Seq(CallSet)
    BY <1>1, CallsStep DEF CallTypes, Base
  <2> QED BY <2>1, <1>4, <1>8, TailFacts DEF Running
<1>9. CASE Stop
  <2>1. Idle /\ todo' = <<Events, Call("close", s), Call("forget", 0)>> /\ s \in Sockets
    BY <1>9, <1>2, <1>1, Sock DEF Stop, Calls
  <2>2. Pending' = {Events, Call("close", s), Call("forget", 0)}
    BY <2>1, Started
  <2>3. ~Running("release")'
    BY <2>1, <1>8
  <2> QED BY <2>1, <2>2, <2>3, <1>5
<1>10. CASE Connect /\ theSocket = None
  <2>1. Idle /\ todo' = <<Call("create", 0)>>
    BY <1>10 DEF Connect, Calls
  <2>2. Pending' = {Call("create", 0)} /\ ~Running("release")'
    BY <2>1, <1>8, Started
  <2>3. None \notin Sockets
    BY DEF None, Sockets
  <2>4. Owns => \A r \in Sockets : ~Used(r)
    BY <2>3, <1>10 DEF Owns, Owned
  <2> QED BY <2>2, <2>4, <1>6
<1> QED BY <1>7, <1>9, <1>10

\* The client forgets a socket that is free by then.
LEMMA TidyForget ==
  ASSUME Base, Sessions, Tidy, [Next]_vars, forget
  PROVE  Tidy'
<1>1. CallTypes /\ SocketTypes /\ Shape /\ Types
  BY DEF Base, Types
<1>2. /\ Running("forget") /\ Returns /\ theSocket' = None
      /\ UNCHANGED <<gastrSockets, gu16SessionID, info, misled, hif_receive_blocked>>
  BY DEF forget, hifQuiet, context, history
<1>3. /\ todo # << >> /\ Pending = {Head(todo)} \cup Rest /\ Head(todo).op = "forget"
      /\ Pending' = Rest /\ \A c \in Rest : c.op = "create"
  BY <1>2, <1>1, Below, After DEF Follows
<1>4. PendingOp("forget") /\ ~PendingClose(theSocket)
  BY <1>3 DEF PendingOp, PendingClose, Closing
<1>5. ~Used(theSocket)
  BY <1>4 DEF Tidy, Forgets
<1>6. ~PendingOp("forget")' /\ ~PendingOp("connecting")' /\ ~Running("release")'
  BY <1>2, <1>3, <1>1, NextReturns DEF PendingOp, Inner
<1>7. \A s \in Sockets : /\ (Used(s)' <=> Used(s)) /\ (Connected(s)' <=> Connected(s))
                         /\ (Clean(s)' <=> Clean(s)) /\ Remaining(s)' = Remaining(s)
  BY <1>2 DEF Used, Connected, Clean, Remaining
<1>8. Released' /\ UnusedClean' /\ Forgets' /\ Blocked' /\ WhileConnecting'
  BY <1>2, <1>6, <1>7 DEF Tidy, Released, UnusedClean, Forgets, Blocked, WhileConnecting
<1>9. ASSUME ~misled' PROVE Owns'
  <2>1. \A s \in Sockets : ~Used(s)
    BY <1>2, <1>5, <1>9 DEF Tidy, Owns, Owned
  <2> QED BY <2>1, <1>7 DEF Owns
<1> QED BY <1>8, <1>9 DEF Tidy

\* A socket is taken, when the client has none.
LEMMA TidyCreate ==
  ASSUME Base, Sessions, Tidy, [Next]_vars, create
  PROVE  Tidy'
<1>1. CallTypes /\ SocketTypes /\ Shape /\ Types
  BY DEF Base, Types
<1>2. Running("create") /\ UNCHANGED <<hif_receive_blocked, misled>>
  BY DEF create, hifQuiet, context
<1>3. /\ todo # << >> /\ Pending = {Head(todo)} /\ Head(todo).op = "create" /\ Rest = {}
  BY <1>2, <1>1, Below DEF Final
<1>4. ASSUME ~misled PROVE \A s \in Sockets : ~Used(s)
  BY <1>3, <1>4 DEF Tidy, Owns, PendingOp
<1>5. CASE createFails
  <2>1. UNCHANGED <<gastrSockets, info>> /\ Returns /\ theSocket' = None
    BY <1>5 DEF createFails
  <2>2. Pending' = {} /\ ~Running("release")'
    BY <2>1, <1>3, <1>1, After, NextReturns DEF Inner
  <2>3. \A s \in Sockets : /\ (Used(s)' <=> Used(s)) /\ (Connected(s)' <=> Connected(s))
                           /\ (Clean(s)' <=> Clean(s)) /\ Remaining(s)' = Remaining(s)
    BY <2>1 DEF Used, Connected, Clean, Remaining
  <2>4. ASSUME ~misled' PROVE Owns'
    BY <1>2, <1>4, <2>2, <2>3, <2>4 DEF Owns, PendingOp
  <2> QED BY <1>2, <2>2, <2>3, <2>4
      DEF Tidy, Released, UnusedClean, Forgets, Blocked, WhileConnecting, PendingOp
<1>6. ASSUME NEW s \in Sockets, createOn(s) PROVE Tidy'
  <2>1. PICK c \in Nat \ {0} : c = gu16SessionID + 1 /\ c > gu16SessionID
    BY SocketAssumption, <1>1 DEF SocketTypes
  <2>2. /\ ~Used(s) /\ theSocket' = s /\ gu16SessionID' = c
        /\ gastrSockets' = [gastrSockets EXCEPT ![s] =
             [bIsUsed |-> TRUE, u16SessionID |-> c, bIsRecvPending |-> FALSE]]
    BY <2>1, <1>6 DEF createOn, FreeSocket, newSession, Used
  <2>3. PICK ok \in BOOLEAN : \E j :
          /\ ~ok => UNCHANGED peers
          /\ info' = [info EXCEPT ![s] = j]
          /\ j = IF ok THEN [Created(s) EXCEPT !.state = "CONNECTING"] ELSE Created(s)
          /\ GoesOnWith(IF ok THEN <<Events, Call("connecting", 0)>>
                        ELSE <<Events, Call("close", s), Call("forget", 0)>>)
    BY <1>6 DEF createOn
  <2>4. PICK j :
          /\ info' = [info EXCEPT ![s] = j]
          /\ j = IF ok THEN [Created(s) EXCEPT !.state = "CONNECTING"] ELSE Created(s)
    BY <2>3
  <2>5. /\ Created(s).buffer = info[s].buffer /\ Created(s).recvMsg = info[s].recvMsg
        /\ Created(s) \in InfoSet
    BY <1>1 DEF Created, Types, InfoTypes, InfoSet
  <2>6. j.buffer = info[s].buffer /\ j.recvMsg = info[s].recvMsg /\ (ok => j.state = "CONNECTING")
    BY <2>4, <2>5 DEF InfoSet
  <2>7. info'[s] = j /\ \A r \in Sockets : r # s => info'[r] = info[r]
    BY <2>4, <1>1 DEF Types, InfoTypes
  <2>8. Clean(s) /\ Clean(s)' /\ (ok => ~Connected(s)')
        /\ \A r \in Sockets : r # s => /\ (Clean(r)' <=> Clean(r)) /\ Remaining(r)' = Remaining(r)
                                       /\ (Connected(r)' <=> Connected(r))
    BY <2>2, <2>6, <2>7 DEF Clean, Remaining, Connected, Tidy, UnusedClean
  <2>9. /\ Used(s)' /\ Session(s)' = c
        /\ \A r \in Sockets : r # s => (Used(r)' <=> Used(r))
    <3>1. /\ gastrSockets'[s] = [bIsUsed |-> TRUE, u16SessionID |-> c, bIsRecvPending |-> FALSE]
          /\ \A r \in Sockets : r # s => gastrSockets'[r] = gastrSockets[r]
      BY <2>2, <1>1 DEF SocketTypes
    <3> QED BY <3>1 DEF Used, Session
  <2>10. /\ Events \in CallSet /\ Events.op = "events"
         /\ Call("forget", 0) \in CallSet /\ Call("forget", 0).op = "forget"
         /\ Call("connecting", 0) \in CallSet /\ Call("connecting", 0).op = "connecting"
         /\ Call("close", s) \in CallSet /\ Call("close", s).op = "close" /\ Call("close", s).arg = s
    BY CallTyped DEF Ops, Closing, Final
  <2>11. /\ Pending' = IF ok THEN {Events, Call("connecting", 0)}
                       ELSE {Events, Call("close", s), Call("forget", 0)}
         /\ ~Running("release")'
    <3>1. CASE ok
      <4>1. GoesOnWith(<<Events, Call("connecting", 0)>>)
        BY <3>1, <2>3
      <4>2. Pending' = {Events, Call("connecting", 0)}
        BY <4>1, <2>10, <1>3, <1>1, After
      <4>3. ~Running("release")'
        BY <4>1, <2>10, <1>3, <1>1, NextIs DEF Running
      <4> QED BY <3>1, <4>2, <4>3
    <3>2. CASE ~ok
      <4>1. GoesOnWith(<<Events, Call("close", s), Call("forget", 0)>>)
        BY <3>2, <2>3
      <4>2. Pending' = {Events, Call("close", s), Call("forget", 0)}
        BY <4>1, <2>10, <1>3, <1>1, After
      <4>3. ~Running("release")'
        BY <4>1, <2>10, <1>3, <1>1, NextIs DEF Running
      <4> QED BY <3>2, <4>2, <4>3
    <3> QED BY <3>1, <3>2
  <2>12. /\ PendingOp("connecting")' <=> ok
         /\ ~ok => PendingClose(s)'
         /\ PendingOp("forget")' <=> ~ok
         /\ ~PendingOp("create")'
    BY <2>10, <2>11 DEF PendingOp, PendingClose, Closing
  \* The session is new: there is no reply yet.
  <2>13. /\ NoReply("recv", c)'
         /\ ~ok => NoReply("connect", c)'
    <3>1. NoReply("recv", c) /\ NoReply("connect", c)
      BY <2>1, FutureReply
    <3>2. ~readEnd /\ ~connectDone
      BY <1>3 DEF readEnd, connectDone, Running
    <3>3. ~Asks("recv", c)
      BY <3>2 DEF Asks
    <3> QED BY <3>1, <3>3, <2>3, NoReplyStep
  <2>14. UnusedClean'
    BY <2>8, <2>9 DEF Tidy, UnusedClean
  <2>15. Forgets'
    BY <2>2, <2>12 DEF Forgets, PendingClose
  <2>16. Blocked'
    <3> SUFFICES ASSUME hif_receive_blocked' PROVE \E r \in Sockets : Connected(r)' /\ Remaining(r)' > 0
      BY DEF Blocked
    <3>1. PICK r \in Sockets : Connected(r) /\ Remaining(r) > 0
      BY <1>2 DEF Tidy, Blocked
    <3>2. r # s
      BY <3>1, <2>8 DEF Clean
    <3> QED BY <3>1, <3>2, <2>8
  <2>17. NoReply("recv", Session(s))' /\ (~ok => NoReply("connect", Session(s))')
    BY <2>9, <2>13 DEF NoReply, InRx, InQueue, Awaits, Matches
  <2>18. WhileConnecting'
    BY <2>2, <2>8, <2>17 DEF WhileConnecting, Clean, Remaining, Session
  <2>19. ASSUME ~misled' PROVE Owns'
    <3>1. \A r \in Sockets : Used(r)' => r = s
      BY <1>2, <1>4, <2>9, <2>19
    <3>2. Owned(s)'
      BY <2>2, <2>12 DEF Owned
    <3>3. Connected(s)' => NoReply("connect", Session(s))'
      BY <2>8, <2>17
    <3> QED BY <3>1, <3>2, <3>3, <2>12 DEF Owns
  <2> QED BY <2>11, <2>14, <2>15, <2>16, <2>18, <2>19 DEF Tidy, Released
<1> QED BY <1>5, <1>6 DEF create

\* The end of the wait for a connection.
LEMMA TidyConnects ==
  ASSUME Base, Sessions, Tidy, [Next]_vars, connectFails \/ connectDone
  PROVE  Tidy'
<1>1. CallTypes /\ SocketTypes /\ Shape /\ Types
  BY DEF Base, Types
<1>2. PICK s : s = theSocket
  OBVIOUS
<1>3. /\ Running("connecting")
      /\ UNCHANGED <<gu16SessionID, theSocket, misled, hif_receive_blocked>>
  BY DEF connectFails, connectDone, hifQuiet, context, history
<1>4. /\ todo # << >> /\ Pending = {Head(todo)} /\ Head(todo).op = "connecting" /\ Rest = {}
      /\ s \in Sockets
  BY <1>3, <1>2, <1>1, Below, RunningFacts DEF Final, UsesSocket
<1>5. PendingOp("connecting") /\ ~PendingOp("create") /\ \A r : ~PendingClose(r)
  BY <1>4 DEF PendingOp, PendingClose, Closing
<1>6. Clean(s)
  BY <1>5, <1>2 DEF Tidy, WhileConnecting
<1>7. CASE connectFails
  <2>1. /\ UNCHANGED gastrSockets /\ ~Connected(s)
        /\ info' = [info EXCEPT ![s].state = "IDLE"]
        /\ GoesOnWith(<<Events, Call("close", s), Call("forget", 0)>>)
    BY <1>7, <1>2 DEF connectFails
  <2>2. /\ Events \in CallSet /\ Events.op = "events"
        /\ Call("forget", 0) \in CallSet /\ Call("forget", 0).op = "forget"
        /\ Call("close", s) \in CallSet /\ Call("close", s).op = "close" /\ Call("close", s).arg = s
    BY <1>4, CallTyped DEF Ops, Closing, Final
  <2>3. Pending' = {Events, Call("close", s), Call("forget", 0)} /\ ~Running("release")'
    <3>1. Pending' = {Events, Call("close", s), Call("forget", 0)}
      BY <2>1, <2>2, <1>4, <1>1, After
    <3>2. ~Running("release")'
      BY <2>1, <2>2, <1>4, <1>1, NextIs DEF Running
    <3> QED BY <3>1, <3>2
  <2>4. PendingClose(s)' /\ ~PendingOp("connecting")' /\ ~PendingOp("create")'
    BY <2>2, <2>3 DEF PendingClose, PendingOp, Closing
  <2>5. info'[s] = [info[s] EXCEPT !.state = "IDLE"] /\ \A r \in Sockets : r # s => info'[r] = info[r]
    BY <2>1, <1>4, <1>1 DEF Types, InfoTypes
  <2>6. /\ ~Connected(s)' /\ \A r \in Sockets : r # s => (Connected(r)' <=> Connected(r))
        /\ \A r \in Sockets : (Clean(r)' <=> Clean(r)) /\ Remaining(r)' = Remaining(r)
    <3>1. /\ info'[s].state = "IDLE" /\ info'[s].buffer = info[s].buffer
          /\ info'[s].recvMsg = info[s].recvMsg
      BY <2>5, <1>4, <1>1 DEF Types, InfoTypes, InfoSet
    <3> QED BY <3>1, <2>5 DEF Connected, Clean, Remaining
  <2>7. \A r \in Sockets : (Used(r)' <=> Used(r)) /\ Session(r)' = Session(r)
    BY <2>1 DEF Used, Session
  <2>8. UnusedClean' /\ Blocked'
    BY <1>3, <2>1, <2>6, <2>7 DEF Tidy, UnusedClean, Blocked
  <2>9. Forgets'
    BY <2>4, <1>3, <1>2 DEF Forgets, PendingClose
  <2>10. ASSUME ~misled' PROVE Owns'
    <3>1. \A r \in Sockets : Used(r) => r = s
      BY <1>3, <1>2, <2>10 DEF Tidy, Owns, Owned
    <3>2. Owned(s)'
      BY <1>3, <1>2, <2>4 DEF Owned
    <3> QED BY <3>1, <3>2, <2>4, <2>6, <2>7 DEF Owns
  <2> QED BY <2>3, <2>4, <2>8, <2>9, <2>10 DEF Tidy, Released, WhileConnecting
<1>8. CASE connectDone
  <2>1. /\ info' = [info EXCEPT ![s].recvMsg.s16BufferSize = 0] /\ Connected(s)
        /\ recv(s) /\ Returns
    BY <1>8, <1>2 DEF connectDone
  <2>2. Pending' = {} /\ ~Running("release")'
    BY <2>1, <1>4, <1>1, After, NextReturns DEF Inner
  <2>3. ~PendingOp("connecting")' /\ ~PendingOp("create")' /\ ~PendingOp("forget")'
    BY <2>2 DEF PendingOp
  <2>4. /\ info'[s] = [info[s] EXCEPT !.recvMsg.s16BufferSize = 0]
        /\ \A r \in Sockets : r # s => info'[r] = info[r]
    BY <2>1, <1>4, <1>1 DEF Types, InfoTypes
  <2>5. /\ info'[s].state = info[s].state /\ info'[s].buffer = info[s].buffer
        /\ info'[s].recvMsg.s16BufferSize = 0
    BY <2>4, <1>4, <1>1 DEF Types, InfoTypes, InfoSet
  <2>6. \A r \in Sockets : /\ Connected(r)' <=> Connected(r)
                           /\ (Clean(r)' <=> Clean(r)) /\ Remaining(r)' = Remaining(r)
    <3>1. Connected(s)' /\ Clean(s)' /\ Remaining(s)' = 0 /\ Remaining(s) = 0
      BY <2>1, <2>5, <1>6 DEF Connected, Clean, Remaining
    <3> QED BY <3>1, <2>1, <2>4, <1>6 DEF Connected, Clean, Remaining
  <2>7. \A r \in Sockets : (Used(r)' <=> Used(r)) /\ Session(r)' = Session(r)
    <3>1. CASE UNCHANGED gastrSockets
      BY <3>1 DEF Used, Session
    <3>2. CASE gastrSockets' = [gastrSockets EXCEPT ![s].bIsRecvPending = TRUE]
      <4>1. /\ gastrSockets'[s] = [gastrSockets[s] EXCEPT !.bIsRecvPending = TRUE]
            /\ \A r \in Sockets : r # s => gastrSockets'[r] = gastrSockets[r]
        BY <3>2, <1>4, <1>1 DEF SocketTypes
      <4>2. /\ gastrSockets'[s].bIsUsed = gastrSockets[s].bIsUsed
            /\ gastrSockets'[s].u16SessionID = gastrSockets[s].u16SessionID
        BY <4>1, <1>4, <1>1 DEF SocketTypes
      <4> QED BY <4>1, <4>2 DEF Used, Session
    <3> QED BY <3>1, <3>2, <2>1 DEF recv
  <2>8. UnusedClean' /\ Blocked'
    BY <1>3, <2>6, <2>7 DEF Tidy, UnusedClean, Blocked
  <2>9. ASSUME ~misled' PROVE Owns'
    <3>1. Owns
      BY <1>3, <2>9 DEF Tidy
    <3>2. \A r \in Sockets : Used(r)' => Owned(r)'
      BY <3>1, <1>3, <1>2, <2>1, <2>6, <2>7 DEF Owns, Owned
    <3>3. ASSUME NEW r \in Sockets, Used(r)', Connected(r)' PROVE NoReply("connect", Session(r))'
      BY <3>1, <3>3, <1>3, <2>6, <2>7, RepliesKept DEF Owns
    <3> QED BY <3>2, <3>3, <2>3 DEF Owns
  <2> QED BY <2>2, <2>3, <2>8, <2>9 DEF Tidy, Released, Forgets, WhileConnecting
<1> QED BY <1>7, <1>8

\* No step loses a socket.
LEMMA TidyStep == Base /\ Sessions /\ ConnectOnce /\ Tidy /\ [Next]_vars => Tidy'
<1> SUFFICES ASSUME Base, Sessions, ConnectOnce, Tidy, [Next]_vars PROVE Tidy'
  OBVIOUS
<1>1. CASE \/ hif \/ CallbackFails \/ connecting \/ look \/ lookOpen \/ readStart \/ send
           \/ PollEvents \/ Write \/ reader \/ (Connect /\ theSocket # None)
           \/ UNCHANGED vars
  BY <1>1, PassiveSteps, TidyPassive
<1>2. CASE chip
  BY <1>2, TidyPassive
<1>3. CASE DataReply \/ DiscardReply \/ StatusReply \/ Disconnected
  BY <1>3, TidyReplies
<1>4. CASE ConnectReply
  BY <1>4, TidyConnectReply
<1>5. CASE copyFill \/ copy \/ readEnd
  BY <1>5, TidyReads
<1>6. CASE close \/ release
  BY <1>6, TidyClose, TidyRelease
<1>7. CASE stopFirst \/ Stop \/ (Connect /\ theSocket = None)
  BY <1>7, TidyStops
<1>8. CASE forget \/ create
  BY <1>8, TidyForget, TidyCreate
<1>9. CASE connectFails \/ connectDone
  BY <1>9, TidyConnects
<1>10. (Connect /\ theSocket # None) \/ (Connect /\ theSocket = None) \/ ~Connect
  OBVIOUS
<1> QED BY <1>1, <1>2, <1>3, <1>4, <1>5, <1>6, <1>7, <1>8, <1>9, <1>10
    DEF Next, library, sketch, m2m_ip_cb

-----------------------------------------------------------------------------
(***************************************************************************)
(* The invariant.                                                          *)
(***************************************************************************)

Safe == Base /\ Sessions /\ ConnectOnce /\ Tidy

\* The invariant holds initially,
LEMMA SafeInit == Init => Safe
<1> SUFFICES ASSUME Init PROVE Safe
  OBVIOUS
<1> USE SocketAssumption DEF Init, HifInit
<1>1. Base
  BY BaseInit
<1>2. /\ \A s \in Sockets : /\ gastrSockets[s] = Unused /\ ~Used(s) /\ Session(s) = 0
                            /\ info[s] = Invalid /\ Clean(s) /\ peers[s] = NoPeer
      /\ Pending = {} /\ Idle /\ queue = << >> /\ rx = << >> /\ ~hif_receive_blocked
      /\ \A op : ~Running(op)
  BY DEF Unused, Used, Session, Invalid, NoMessage, Clean, Remaining, Pending, Idle, Running
<1>3. Sessions
  BY <1>2 DEF Sessions, TableSessions, PeerSessions, PacketSessions, NoPeer
<1>4. ConnectOnce
  <2> SUFFICES ASSUME NEW c \in 1 .. MaxSessions PROVE OneReply("connect", c)
    BY DEF ConnectOnce
  <2>1. InQueue("connect", c) = {} /\ ~InRx("connect", c)
    BY <1>2 DEF InQueue, InRx
  <2>2. Awaits("connect", c) = {}
    BY <1>2 DEF Awaits, NoPeer
  <2> QED BY <2>1, <2>2 DEF OneReply
<1>5. Tidy
  <2>1. Released /\ Blocked /\ UnusedClean
    BY <1>2 DEF Released, Blocked, UnusedClean
  <2>2. Forgets /\ WhileConnecting /\ Owns
    BY <1>2 DEF Forgets, WhileConnecting, Owns, PendingOp
  <2> QED BY <2>1, <2>2 DEF Tidy
<1> QED BY <1>1, <1>3, <1>4, <1>5 DEF Safe

\* is kept by every step,
LEMMA SafeStep == Safe /\ [Next]_vars => Safe'
BY BaseStep, SessionsStep, ConnectOnceStep, TidyStep DEF Safe

\* and so holds always.
LEMMA SafeHolds == Spec => []Safe
BY SafeInit, SafeStep, PTL DEF Spec

\* As long as no reply to a connect() is taken for another connection's, every
\* socket in use is the client's, and between its calls the client's socket is
\* connected: the next connect() or stop() will free it.
THEOREM NoSocketLeaksCorrect == Spec => []NoSocketLeaks
<1>1. Safe => NoSocketLeaks
  <2> SUFFICES ASSUME Safe, ~misled, NEW s \in Sockets, Used(s)
               PROVE  s = theSocket /\ (Idle => Connected(s))
    BY DEF NoSocketLeaks, Used
  <2>1. Owned(s)
    BY DEF Safe, Tidy, Owns
  <2>2. Idle => ~PendingOp("connecting") /\ ~PendingClose(s)
    BY NothingPending DEF PendingOp, PendingClose
  <2> QED BY <2>1, <2>2 DEF Owned
<1> QED BY <1>1, SafeHolds, PTL

\* ... and while the rest of a packet waits in the chip, and blocks all events, the
\* client has the socket it is for, which says that there is something to read.
THEOREM BlockedCorrect == Spec => []BlockedIsReadable
<1>1. Safe => BlockedIsReadable
  <2> SUFFICES ASSUME Safe, ~misled, hif_receive_blocked
               PROVE  theSocket # None /\ Remaining(theSocket) > 0 /\ Connected(theSocket)
    BY DEF BlockedIsReadable
  <2>1. PICK s \in Sockets : Connected(s) /\ Remaining(s) > 0
    BY DEF Safe, Tidy, Blocked
  <2>2. Used(s)
    BY <2>1 DEF Safe, Tidy, UnusedClean, Clean
  <2>3. s = theSocket
    BY <2>2 DEF Safe, Tidy, Owns, Owned
  <2>4. None \notin Sockets
    BY DEF None, Sockets
  <2> QED BY <2>1, <2>3, <2>4
<1> QED BY <1>1, SafeHolds, PTL
=============================================================================
