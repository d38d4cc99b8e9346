------------------------------ MODULE HttpClient ------------------------------
(***************************************************************************)
(* ArduinoHttpClient over the WiFi client: get(), which connects and sends *)
(* the request, and responseStatusCode(), which reads the response up to   *)
(* the end of its status line.  No result is looked at by the next call.   *)
(*                                                                         *)
(* The response is a sequence of tokens, each of which stands for the      *)
(* characters that are treated alike, and is read like one character.      *)
(***************************************************************************)
EXTENDS WiFiStation

CONSTANTS
  Responses,      \* bound: the responses a server may give
  RequestPieces   \* bound: in how many writes the request is sent

VARIABLES
  pc,             \* what the sketch is about to do
  iState, iStatusCode,
  matched,        \* statusPtr: how much of statusPrefix has been matched
  c,              \* the character read last
  httpCode,       \* what responseStatusCode() returned
  pieces,         \* how many writes of the request are still to come
  whole,          \* whether the server has got all of it so far
  response        \* the server: what it answers

http == <<iState, iStatusCode, matched, c, httpCode>>
request == <<pieces, whole>>
httpVars == <<pc, http, request, response>>

\* Digits that follow each other, as those of a status code do, are one token.
Token(kind, code) == [kind |-> kind, code |-> code]
Char(kind) == Token(kind, 0)
Nothing == Char("nothing")

ASSUME ResponsesAssumption ==
  /\ RequestPieces \in Nat
  /\ \A r \in Responses :
       /\ r \in Seq([kind : {"HTTP/", "1.1", "SP", "digits", "text", "\n"}, code : Nat])
       /\ \A i \in 2 .. Len(r) : r[i].kind = "digits" => r[i - 1].kind # "digits"

HTTP_ERROR_API == -2
HTTP_ERROR_TIMED_OUT == -3
HTTP_ERROR_INVALID_RESPONSE == -4

HttpInit ==
  /\ iState = "eIdle" /\ iStatusCode = 0 /\ matched = 0 /\ c = Nothing
  /\ httpCode = 0
  /\ pieces = RequestPieces /\ whole = TRUE
  /\ response \in Responses

-----------------------------------------------------------------------------
(***************************************************************************)
(* get(): the name is resolved, the client connected, the request sent.    *)
(***************************************************************************)

\* hostByName() asks the chip.
hostByName(ok) ==
  /\ pc = "get"
  /\ Asks("name", ok)
  /\ resolve' = FALSE
  /\ pc' = IF ok THEN "resolving" ELSE "status"
  /\ UNCHANGED <<initialised, status, mode, localip, client, http, request, response>>

\* The wait for the answer ends with it or after 20 seconds.
Resolved(timedOut) ==
  /\ pc = "resolving"
  /\ resolve \/ timedOut
  /\ resolve' = FALSE
  /\ pc' = IF resolve THEN "connect" ELSE "status"
  /\ UNCHANGED <<initialised, status, mode, localip, client, theChip, refused,
                 chipStartVars, http, request, response>>

connect(ok) ==
  /\ pc = "connect"
  /\ Asks("connection", ok)
  /\ socket' = IF ok THEN "connecting" ELSE socket
  /\ sent' = 0 /\ received' = 0
  /\ pc' = IF ok THEN "connecting" ELSE "status"
  /\ UNCHANGED <<station, http, request, response>>

\* So does the wait for the connection.
Connected(timedOut) ==
  /\ pc = "connecting"
  /\ socket # "connecting" \/ timedOut
  /\ IF socket = "connected"
     THEN pc' = "request" /\ iState' = "eRequestStarted" /\ UNCHANGED client
     ELSE pc' = "status" /\ ClosesSocket /\ UNCHANGED iState
  /\ UNCHANGED <<station, theChip, refused, chipStartVars, iStatusCode, matched, c, httpCode,
                 request, response>>

\* The pieces are written one by one; what write() returns is not looked at.  On a
\* socket that is not connected a piece is lost.  On one that is, write() sends it
\* again and again, with events handled in between, until the chip takes it: send()
\* makes of every failure that its buffer is full.  (The other way out, events that
\* are blocked by data, needs an answer to come before the request is whole.)
print(ok) ==
  /\ pc = "request" /\ pieces > 0
  /\ \/ socket # "connected" /\ pieces' = pieces - 1 /\ whole' = FALSE /\ UNCHANGED pc
     \/ socket = "connected" /\ ok /\ pieces' = pieces - 1 /\ UNCHANGED <<whole, pc>>
     \/ socket = "connected" /\ ~ok /\ pc' = "retry" /\ UNCHANGED request
  /\ Reaches(ok)
  /\ UNCHANGED <<stationVars, http, response>>

printAgain ==
  /\ pc = "retry" /\ pc' = "request"
  /\ UNCHANGED <<stationVars, http, request, response>>

finishHeaders ==
  /\ pc = "request" /\ pieces = 0
  /\ iState' = "eRequestSent"
  /\ pc' = "status"
  /\ UNCHANGED <<stationVars, iStatusCode, matched, c, httpCode, request, response>>

-----------------------------------------------------------------------------
(***************************************************************************)
(* responseStatusCode()                                                    *)
(***************************************************************************)

statusPrefix == <<"HTTP/", "*", "SP">>

\* A new status line.  The mutant keeps the code of the one before.
StartOfLine_KeepsCode == iState' = "eRequestSent" /\ matched' = 0 /\ UNCHANGED iStatusCode
StartOfLine == iState' = "eRequestSent" /\ matched' = 0 /\ iStatusCode' = 0

ReadsOn == UNCHANGED <<stationVars, request, response>>
Answers(code) == httpCode' = code /\ pc' = "answered"

responseStatusCode ==
  /\ pc = "status"
  /\ IF iState \in {"eIdle", "eRequestStarted"}
     THEN Answers(HTTP_ERROR_API) /\ UNCHANGED <<iState, iStatusCode, matched>>
     ELSE StartOfLine /\ pc' = "look" /\ UNCHANGED httpCode
  /\ UNCHANGED c
  /\ ReadsOn

\* The head of the inner loop: the line has ended, or there is something to read,
\* or there is not, in which case the clock is looked at after a while.
look ==
  /\ pc = "look"
  /\ pc' = IF c.kind = "\n" THEN "endOfLine"
           ELSE IF sent > received THEN "read" ELSE "pause"
  /\ UNCHANGED http /\ ReadsOn

pause(timedOut) ==
  /\ pc = "pause"
  /\ pc' = IF timedOut THEN "endOfLine" ELSE "look"
  /\ UNCHANGED http /\ ReadsOn

\* The character is read, unless the connection has dropped since it was there.
read ==
  LET t == response[received + 1] IN
  /\ pc = "read" /\ sent > received
  /\ received' = received + 1
  /\ c' = t
  /\ pc' = "look"
  /\ \/ /\ iState = "eRequestSent"
        /\ statusPrefix[matched + 1] \in {"*", t.kind}
        /\ matched' = matched + 1
        /\ iState' = IF matched + 1 = Len(statusPrefix) THEN "eReadingStatusCode" ELSE iState
        /\ UNCHANGED iStatusCode
     \/ /\ iState = "eReadingStatusCode"
        /\ IF t.kind = "digits"
           THEN iStatusCode' = 1000 * iStatusCode + t.code /\ UNCHANGED iState
           ELSE iState' = "eStatusCodeRead" /\ UNCHANGED iStatusCode
        /\ UNCHANGED matched
     \/ iState = "eStatusCodeRead" /\ UNCHANGED <<iState, iStatusCode, matched>>
  /\ UNCHANGED <<station, socket, sent, theChip, refused, chipStartVars, httpCode, request, response>>

readInvalid ==
  LET t == response[received + 1] IN
  /\ pc = "read" /\ sent > received
  /\ iState = "eRequestSent" /\ statusPrefix[matched + 1] \notin {"*", t.kind}
  /\ received' = received + 1
  /\ c' = t
  /\ Answers(HTTP_ERROR_INVALID_RESPONSE)
  /\ UNCHANGED <<station, socket, sent, theChip, refused, chipStartVars, iState, iStatusCode,
                 matched, request, response>>

readNothing ==
  /\ pc = "read" /\ sent = received
  /\ c' = Nothing /\ pc' = "look"
  /\ UNCHANGED <<iState, iStatusCode, matched, httpCode>> /\ ReadsOn

Informational == iStatusCode < 200 /\ iStatusCode # 101

\* Another line follows if this one was read up to its code and that was
\* informational.  The mutant does not ask whether it was read.
anotherLine_NoState == Informational
anotherLine == iState = "eStatusCodeRead" /\ Informational

endOfLine ==
  LET last == IF Informational /\ c.kind = "\n" THEN Nothing ELSE c IN
  /\ pc = "endOfLine"
  /\ c' = last
  /\ \/ anotherLine /\ StartOfLine /\ pc' = "look" /\ UNCHANGED httpCode
     \/ /\ ~anotherLine
        /\ Answers(IF last.kind # "\n" THEN HTTP_ERROR_TIMED_OUT
                   ELSE IF iState = "eStatusCodeRead" THEN iStatusCode
                   ELSE HTTP_ERROR_INVALID_RESPONSE)
        /\ UNCHANGED <<iState, iStatusCode, matched>>
  /\ ReadsOn
=============================================================================
