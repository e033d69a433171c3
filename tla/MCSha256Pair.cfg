CONSTANTS
  BLOCK_LEN = 4
  LEN_FIELD = 1
  BITS = 3
  Handle = {h1, h2}
  Chunks <- MCChunksShort
  MaxLen = 9
SPECIFICATION Spec
SYMMETRY MCSymmetry
INVARIANTS
  TypeOK
  CountersTrackMessage
  ResidueBelowMark
  WipedMemoryClean
  ScratchCleared
PROPERTY ImplementsStreamingHash
