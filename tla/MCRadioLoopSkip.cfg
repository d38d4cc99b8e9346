\* The constants of MCRadioLoop.cfg.  A stream that has ended leaves the ring
\* below the threshold for good.
CONSTANTS
  STREAMING_BUFFER_SIZE = 10
  DATABUFFERLEN = 3
  CODEC_FIFO = 4
  StreamLength = 12
SPECIFICATION FairSpec
PROPERTY SkipsBelowThreshold
