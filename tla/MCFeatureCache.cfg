CONSTANTS
  Thread = {t1, t2, t3}
  Feature = {sha_ni, adx}
  MaxResets = 2
SPECIFICATION FairSpec
INVARIANTS
  CacheTypeOK
  NeverDisagree
  ProbesBounded
PROPERTY EveryProbeReturns
