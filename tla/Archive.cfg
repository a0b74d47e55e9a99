\* Two files of up to two parts, two runs, one fault.
SPECIFICATION Spec
CONSTANTS
  f1 = f1
  f2 = f2
  Files = {f1, f2}
  Batches <- MCBatches
  Options <- MCOptions
  Sizes <- MCSizes
  MinSize = 1
  BlobSizes = {3}
  MaxRuns = 2
  MaxFaults = 1
  Absent = Absent
  Torn = Torn
  NoJob = NoJob
  Media = {f1}
  IndexFile = f2
  FullSizes = {1}
INVARIANTS
  TypeOK
  KeyOpensEveryImage
  HangupStops
  FaultsTearOneFileEach
  
  ListedNamesAreFound
  
  BrokenHasACause

  
CHECK_DEADLOCK FALSE
