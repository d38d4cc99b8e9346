---------------------------- MODULE ClientStream ----------------------------
(***************************************************************************)
(* What a reader may rely on of a WiFiClient: a connection delivers bytes, *)
(* which can be read once, and after it has dropped there are none left.   *)
(* The radio's loop() relies on no more than this of the network, and the  *)
(* WiFi library provides it.                                               *)
(***************************************************************************)
EXTENDS Integers

VARIABLES
  connected,
  sent,       \* how many bytes of this connection have become available
  received    \* how many of them have been read

streamVars == <<connected, sent, received>>

Init == connected \in BOOLEAN /\ sent = 0 /\ received = 0

\* The last connection is forgotten, and a connection is made.
Forget == ~connected /\ sent' = 0 /\ received' = 0 /\ UNCHANGED connected
Open == /\ ~connected /\ connected' = TRUE
        /\ received' \in {0, received} /\ sent' = received'

Arrive == connected /\ sent' > sent /\ UNCHANGED <<connected, received>>

\* What is read had arrived.
Take == /\ connected
        /\ received' \in received + 1 .. sent
        /\ UNCHANGED <<connected, sent>>

\* The connection drops, and with it what was not read.
Drop == connected /\ connected' = FALSE /\ sent' = received /\ UNCHANGED received

Next == Forget \/ Open \/ Arrive \/ Take \/ Drop

Spec == Init /\ [][Next]_streamVars
=============================================================================
