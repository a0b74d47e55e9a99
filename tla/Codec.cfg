\* Blocks of 2 bytes, buffers of 8: sizes on both sides of three buffers.
SPECIFICATION Spec
CONSTANTS
  Block = 2
  Buf = 8
  Feed = 4
  Bpp = 3
  Sizes <- MCSizes
  Skips <- MCSkips
INVARIANTS
  TypeOK
  ReadsAreAligned
  NothingInvented
  EndsOnlyWhenWhole
  CompleteWithRoom
  FileComesBack
  BufferBounded
PROPERTIES
  RequestEnds
CHECK_DEADLOCK FALSE
