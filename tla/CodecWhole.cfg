\* The same instance: does every blob come back?
SPECIFICATION Spec
CONSTANTS
  Block = 2
  Buf = 8
  Feed = 4
  Bpp = 3
  Sizes <- MCSizes
  Skips <- MCSkips
INVARIANTS
  BlobsComeBack
CHECK_DEADLOCK FALSE
