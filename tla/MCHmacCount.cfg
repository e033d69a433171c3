CONSTANTS
  BLOCK_LEN = 4
  LEN_FIELD = 2
  BITS = 2
  DIGEST_LEN = 2
  Handle = {h1}
  Keys <- MCKeys
  Chunks <- MCChunks
  MaxLen = 5
SPECIFICATION Spec
INVARIANT CountIsMessageLength
