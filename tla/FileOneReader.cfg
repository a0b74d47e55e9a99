\* One request at a time, with and without the cache; failed reads are repeated.
SPECIFICATION PersistentSpec
CONSTANTS
  r1 = r1
  r2 = r2
  NoBody = NoBody
  NoBlock = NoBlock
  Readers = {r1}
  ContentSize = 4
  Offsets = {0, 1, 2, 4, 5}
  Sizes = {1, 2, 3}
  BlockSize = 2
  MaxFwdBytes = 3
  LruSettings = {TRUE, FALSE}
  MaxFaults = 2
INVARIANTS
  TypeOK
  OffsetIsStreamPos
  ReadsReturnTheFile
  ReadsAreComplete
  ErrorsHaveACause
  EmptyOnlyAtTheEnd
  CacheHoldsTheFile
PROPERTY
  MovedHandlesRecover
