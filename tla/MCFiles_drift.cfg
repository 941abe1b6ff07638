CONSTANTS
  Foci = {"network"}
  q1 = q1
  q2 = q2
  q3 = q3
  agent = agent
  other = other
  app = app
  e1 = e1
  r1 = r1
  a1 = a1
  h1 = h1
  h2 = h2
  Editor = {e1, e2}
  Rule = {r1, r2}
  Response = {"alert", "kill"}
  Alert = "alert"
  Asset = {a1}
  HandMade <- ByPerson
  NoFile = NoFile
  Broken = Broken
  NoCall = NoCall
  MaxPlace = 2
  MaxEdits = 2
  MaxHands = 1
  MaxFaults = 1
  Request = {q1, q2}
  TTL = 2
  MaxRecords = 1
  MaxTime = 3
  MaxStepsBack = 1
  EdgeKey = {1}
  MaxTransitions = 1
  MaxSweptAt = 0
  MaxEdges = 2
  MaxSetBacks = 0
  Sensor = {1}
  MaxSensors = 1
  MaxObservedAt = 0
  MaxDropped = 0
  MaxHealthBacks = 0
  Sweeper = {app, e1}
  Tool = {1}
  Candidates = 1
  Kind = {"directory", "user file"}
  MaxAttested = 1
  MaxInstant = 3
  MaxSpoils = 1
  Surface = {app}
  Agent = {agent, other}
  Key = {1, 2, 3}
  AgentOf <- ThreeEndpoints
  MaxEndpoints = 2
  MaxSamples = 2
  Warmup = 2
  Expiry = 1
  Retention = 4
  MaxScans = 4
  MaxNetworkBacks = 0
SPECIFICATION MCSpec
INVARIANT BaselineFrozen
