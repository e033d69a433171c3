CONSTANTS
  BLOCK_LEN = 4
  LEN_FIELD = 2
  BITS = 2
  DIGEST_LEN = 2
  Expander = {e1}
  Salts <- MCSalts
  Ikms <- MCIkms
  Prks <- MCPrks
  Infos <- MCInfos
  Lengths <- MCLengths
SPECIFICATION Spec
INVARIANTS
  TypeOK
  RefusalWritesNothing
  SecretsErased
PROPERTIES
  RefusalKeepsExpander
  ImplementsRfc5869
