CONSTANTS
  BLOCK_LEN = 4
  LEN_FIELD = 1
  BITS = 4
  Handle = {h1, h2}
  Chunks <- MCChunks
  MaxLen = 8
SPECIFICATION Spec
SYMMETRY MCSymmetry
INVARIANTS
  TypeOK
  WipedMemoryClean
  ScratchCleared
PROPERTY ImplementsStreamingHash
