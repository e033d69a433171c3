CONSTANTS
  BLOCK_LEN = 4
  LEN_FIELD = 1
  BITS = 4
  Handle = {h1}
  Chunks <- MCChunks
  MaxLen = 8
SPECIFICATION Spec
INVARIANT HighHalfZero
