CONSTANTS
  Foci = {"direct", "helped", "table", "listing", "sockets", "packets", "calls", "reused", "attempts", "catalogue", "home", "touches", "audited", "editors", "mac"}
  t1 = t1
  t2 = t2
  h1 = h1
  h2 = h2
  p1 = p1
  Other = Other
  Thread = {t1, t2}
  Host = {h1, h2}
  Port <- Ports
  Process = {p1}
  Pid <- Pids
  Family = {"a", "b"}
  Helped = FALSE
  MaxFlows = 2
  ScanPorts = 2
  MaxProbed = 1
  MaxPortsPerHost = 2
  MaxFrames = 3
  MaxDrains = 2
  Nothing = Nothing
  Icmp = Icmp
SPECIFICATION Spec
CHECK_DEADLOCK FALSE
SYMMETRY Alike
INVARIANTS
  TreesHold
  NobodyElses
PROPERTY FlowsHold
