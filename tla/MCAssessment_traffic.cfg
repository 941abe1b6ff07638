CONSTANTS
  Foci = {"written"}
  NoProcess = NoProcess
  Nothing = Nothing
  Unreadable = Unreadable
  fact1 = fact1
  fact2 = fact2
  elsewhere = elsewhere
  k1 = k1
  k2 = k2
  k3 = k3
  Fact = {fact1}
  Origin = {here, elsewhere}
  Here = here
  Key = {k1, k2, k3}
  Root = k1
  MaxSequence = 3
  MaxClaims = 1
  MaxSeals = 2
  MaxRotations = 2
  MaxRestores = 1
  MaxDamage = 0
  Unreachable = 9
  Maker = {1, 2}
  MaxStarts = 4
  Collector = {"socket", "reach"}
  AgentId = {"a"}
  AssetId = {"m"}
  Rule <- TwoRules
  Former <- OneRule
  MaxLosses = 1
SPECIFICATION MCSpec
CHECK_DEADLOCK FALSE
INVARIANT WrittenIsRead
