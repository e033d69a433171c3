CONSTANTS
  BLOCK_LEN = 8
  LEN_FIELD = 3
  BITS = 2
  DIGEST_LEN = 3
  SHA384_DIGEST_LEN = 2
  Handle = {h1, h2}
  Keys <- MCKeys
  Chunks <- MCChunks
  MaxLen = 6
  Salts <- MCSalts
  Ikms <- MCIkms
  Prks <- MCPrks
  Infos <- MCInfos
  Lengths <- MCLengths
SPECIFICATION Spec
SYMMETRY MCSymmetry
INVARIANTS
  TypeOK
  SecretsErased
  CountIsMessageLength
PROPERTIES
  ImplementsHmacSha512
  ImplementsHmacSha384
  ImplementsRfc5869
