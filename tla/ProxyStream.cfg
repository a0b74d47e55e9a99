SPECIFICATION FairSpec
CONSTANTS
  c1 = c1
  c2 = c2
  NoReplica = NoReplica
  Padding = Padding
  Replicas = {c1, c2}
  ContentSize = 5
  BlobSize = 2
  Froms = {0, 3, 5, 6}
  Block = 1
  DecodeBytes = 2
  Kinds = {"good", "full", "unusable", "clipped", "truncated"}
CHECK_DEADLOCK FALSE
INVARIANTS
  TypeOK
  LengthIsKept
  AbortHasACause
PROPERTY
  ImplementsRangeStream
  FailoverServes
