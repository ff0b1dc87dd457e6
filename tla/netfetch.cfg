\* Four chunks through a two-slot exchange with recycling; the consumer
\* may disconnect.  The run ends when the transfer is over, so a final
\* state with nothing left to do is expected.
CONSTANTS
  b1 = b1
  b2 = b2
  b3 = b3
  b4 = b4
  Bufs = {b1, b2, b3, b4}
  Sizes <- MCSizes
  MinAlloc = 4096
  Capacity = 2
  MaxChunks = 4
SPECIFICATION Spec
INVARIANT ChunksFit
CHECK_DEADLOCK FALSE
