\* Two sockets and three sessions, so that a socket is used again while replies
\* to its first session are on their way; a packet of two bytes for a buffer of
\* one, so that part of it stays in the chip; and one failure of the bus and one
\* loss of the WiFi connection, each at any point.
CONSTANTS
  TCP_SOCK_MAX = 2
  SOCKET_BUFFER_SIZE = 1
  MaxRead = 2
  MaxChunk = 2
  StreamLength = 2
  MaxSessions = 3
  MaxLinkLosses = 1
  MaxFailures = 1
SPECIFICATION FairSpec
INVARIANT TypeOK
INVARIANT StreamInOrder
INVARIANT ReplyFindsNothingUnread
INVARIANT NoSocketLeaks
INVARIANT BlockedIsReadable
INVARIANT InterruptMatchesPacket
PROPERTY ImplementsClientStream
PROPERTY BytesReachTheReader
PROPERTY CallsReturn
