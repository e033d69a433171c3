CONSTANTS
  Thread = {t1, t2}
  Feature = {sha_ni}
  MaxResets = 0
SPECIFICATION CacheSpec
INVARIANT ProbesOncePerProcess
