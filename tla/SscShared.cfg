SPECIFICATION Spec
CONSTANTS
  c1 = c1
  c2 = c2
  n1 = n1
  n2 = n2
  f1 = f1
  f2 = f2
  Zeros = Zeros
  NoBlock = NoBlock
  NoCaller = NoCaller
  Callers = {c1, c2}
  Names = {n1, n2}
  Fakes = {f1, f2}
  ChunkCount = 2
CHECK_DEADLOCK FALSE
INVARIANT
  HitsAreTheKeys
