CONSTANTS
  BLOCK_LEN = 8
  LEN_FIELD = 2
  BITS = 2
  Handle = {h1}
  Chunks <- MCChunksLong
  MaxLen = 24
SPECIFICATION Spec
INVARIANTS
  CountersTrackMessage
  ScratchCleared
PROPERTY ImplementsStreamingHash
