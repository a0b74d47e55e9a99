\* A ring of three chunks, four keys, a hint period shorter than the ring.
SPECIFICATION Spec
CONSTANTS
  k1 = k1
  k2 = k2
  k3 = k3
  f1 = f1
  f2 = f2
  v1 = v1
  v2 = v2
  k4 = k4
  k5 = k5
  f3 = f3
  f4 = f4
  ZeroKey = ZeroKey
  Empty = Empty
  Torn = Torn
  Missing = Missing
  Nothing = Nothing
  Keys = {k1, k2, k3, k4}
  FakeKeys = {f1, f2}
  Values = {Empty, v1}
  ChunkCount = 3
  HintPeriod = 2
  HintSlack = 2
SYMMETRY Symmetry
INVARIANTS
  TypeOK
  IndexMatches
  NeverPanics
  CleanIsIntact
  KeysOnceOnDisk
  LastAddsAreServed
  HintSkipsNewData
PROPERTY
  ImplementsLossyStore
