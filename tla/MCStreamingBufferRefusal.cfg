\* The constants of MCStreamingBuffer.cfg, and a caller that also puts when the
\* ring is full.
CONSTANTS
  Size = 4
  Byte = {0, 1}
SPECIFICATION Spec
PROPERTY ImplementsPromised
