SPECIFICATION Spec
CONSTANTS
  r1 = r1
  r2 = r2
  NoBody = NoBody
  NoBlock = NoBlock
  Readers = {r1, r2}
  ContentSize = 3
  Offsets = {0, 2}
  Sizes = {1, 3}
  BlockSize = 2
  MaxFwdBytes = 3
  LruSettings = {FALSE}
  MaxFaults = 0
INVARIANT
  ReadsReturnTheFile
