CONSTANTS
  Foci = {"approvals", "tight approvals", "transitions", "tight transitions", "health", "tight health", "network", "one sweeper", "policy", "one editor", "attestation", "places", "tools", "hook", "hooks"}
  q1 = q1
  q2 = q2
  q3 = q3
  agent = agent
  other = other
  app = app
  e1 = e1
  r1 = r1
  a1 = a1
  h1 = h1
  h2 = h2
  Editor = {e1, e2}
  Rule = {r1, r2}
  Response = {"alert", "kill"}
  Alert = "alert"
  Asset = {a1}
  HandMade <- ByPerson
  NoFile = NoFile
  Broken = Broken
  NoCall = NoCall
  MaxPlace = 2
  MaxEdits = 2
  MaxHands = 1
  MaxFaults = 1
  Request = {q1, q2}
  TTL = 2
  MaxRecords = 1
  MaxTime = 3
  MaxStepsBack = 1
  EdgeKey = {1, 2}
  MaxTransitions = 2
  MaxSweptAt = 2
  MaxEdges = 2
  MaxSetBacks = 1
  Sensor = {1, 2}
  MaxSensors = 2
  MaxObservedAt = 2
  MaxDropped = 0
  MaxHealthBacks = 1
  Sweeper = {app, e1}
  Tool = {1}
  Candidates = 1
  Kind = {"directory", "user file"}
  MaxAttested = 1
  MaxInstant = 3
  MaxSpoils = 1
  Surface = {app, e1}
  Agent = {agent, other}
  Key = {1, 2, 3}
  AgentOf <- ThreeEndpoints
  MaxEndpoints = 2
  MaxSamples = 3
  Warmup = 2
  Expiry = 1
  Retention = 2
  MaxScans = 2
  MaxNetworkBacks = 1
SPECIFICATION MCSpec
CHECK_DEADLOCK FALSE
INVARIANTS
  NetworkHolds
  PolicyHolds
  FindingsHold
  HealthHolds
PROPERTIES
  DecisionStands
  HistoriesHold
  AttestationHolds
