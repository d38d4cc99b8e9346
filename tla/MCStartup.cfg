\* Fewer tries and attempts than the 20 and 30 of setup(), and a request in two writes,
\* of which either may fail.  The model ends where loop() begins.
CONSTANTS
  Responses <- MCResponses
  RequestPieces = 2
  MaxFailures = 2
  maxTries = 2
  maxAttempts = 2
SPECIFICATION FairSpec
INVARIANT TypeOK
INVARIANT StatusCodeIsTheResponses
INVARIANT ConnectedMeansSupervised
INVARIANT ChecksumsAgree
INVARIANT LossClosesSockets
PROPERTY ImplementsClientStream
PROPERTY OnlyBeginConnects
PROPERTY SetupEnds
CHECK_DEADLOCK FALSE
