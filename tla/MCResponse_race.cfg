CONSTANTS
  Foci = {"pair"}
  ui = ui
  cli = cli
  r1 = r1
  r2 = r2
  NoRun = NoRun
  Surface = {ui, cli}
  Run = {r1}
  COOLDOWN = 2
  MaxRecords = 2
  MaxTime = 3
  MaxStops = 2
  MaxCrashes = 1
  Pid = {1, 2, 3}
  Root = 1
  MaxRuns = 4
  MayDeny = TRUE
  MaxPid = 2
  MaxAgents = 3
  MaxTasks = 2
  MaxLooks = 2
  MaxChanges = 1
  MaxActs = 1
  MaxRules = 0
  Container = {"a", "b"}
  HostPid = {1, 2}
  ChosenPid = 1
  MaxStarted = 5
  Path = {"a", "b"}
  Hosts <- AbleHosts
  TTL = 1
  MaxClock = 1
  MaxPolicy = 2
  MaxSweeps = 2
  MaxEdits = 3
SPECIFICATION MCSpec
CHECK_DEADLOCK FALSE
INVARIANT OneStopPerCooldown
