\* Small blobs: does InitReader always come to the pixels?
SPECIFICATION Spec
CONSTANTS
  Block = 2
  Buf = 8
  Feed = 4
  Bpp = 3
  Sizes <- MCSizes
  Skips <- MCSkips
PROPERTY
  HeaderIsRead
CHECK_DEADLOCK FALSE
