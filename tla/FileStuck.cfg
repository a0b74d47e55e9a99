SPECIFICATION PersistentSpec
CONSTANTS
  r1 = r1
  r2 = r2
  NoBody = NoBody
  NoBlock = NoBlock
  Readers = {r1}
  ContentSize = 5
  Offsets = {0, 1, 3}
  Sizes = {1, 3}
  BlockSize = 2
  MaxFwdBytes = 3
  LruSettings = {FALSE}
  MaxFaults = 1
PROPERTY
  RetriesRecover
