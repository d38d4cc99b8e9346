\* A ring of 10, so that THRESHOLD = 2 and one byte in the ring is below it, and
\* transfers of up to 3 bytes, so that the last one to fill the ring is short.
\* The stream is longer than the ring, which therefore wraps, and the codec's
\* FIFO is longer than a transfer, so DREQ rises before the FIFO is empty.
CONSTANTS
  STREAMING_BUFFER_SIZE = 10
  DATABUFFERLEN = 3
  CODEC_FIFO = 4
  StreamLength = 15
SPECIFICATION FairSpec
INVARIANT TypeOK
INVARIANT StreamInOrder
INVARIANT RingNeverOverruns
INVARIANT RingNeverUnderruns
INVARIANT CodecNeverOverflows
INVARIANT PlaysOnlyAfterFullLoad
PROPERTY RingIsFifo
PROPERTY LoadsTheRing
PROPERTY PlaysTheStream
