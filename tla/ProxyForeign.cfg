SPECIFICATION Spec
CONSTANTS
  c1 = c1
  c2 = c2
  NoReplica = NoReplica
  Padding = Padding
  Replicas = {c1, c2}
  ContentSize = 5
  BlobSize = 3
  Froms = {0, 2, 4}
  Block = 1
  DecodeBytes = 2
  Kinds = {"good", "foreign"}
CHECK_DEADLOCK FALSE
INVARIANT
  AcceptedImagesAreTagged
