CONSTANTS
  Writer = {w1, w2}
  NoFile = NoFile
  STALE = 2
  WAIT = 5
  MaxCrashes = 1
  MaxUpdates = 2
  Prompt = TRUE
SPECIFICATION FairSpec
INVARIANTS
  TypeOK
  ExclusiveRight
  NoLostUpdate
PROPERTIES
  CallsReturn
  RefinesAtomicRecord
