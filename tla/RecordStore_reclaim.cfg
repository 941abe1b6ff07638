CONSTANTS
  Writer = {w1, w2, w3}
  NoFile = NoFile
  STALE = 2
  WAIT = 5
  MaxCrashes = 1
  MaxUpdates = 1
  Prompt = TRUE
SPECIFICATION Spec
INVARIANTS
  ExclusiveRight
