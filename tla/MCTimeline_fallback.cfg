CONSTANTS
  Foci = {"capture"}
  app = app
  cli = cli
  r1 = r1
  NoOne = NoOne
  NoClaim = NoClaim
  Surface = {app, cli}
  Run = {r1}
  MaxMoves = 0
  MaxCount = 1
  MaxFailures = 1
  Writer = {app}
  MaxLines = 4
  MaxEntries = 9
  MaxClears = 2
  MaxKills = 2
  Prompt = TRUE
  Wire = {1, 2}
  HelperIs = {"denied"}
  Granted = {TRUE}
  MaxLaunches = 1
  MaxSwitches = 0
  Platforms = {"linux"}
  MaxChanges = 0
  MaxUses = 0
  Watcher = {app}
  Scenes <- Scenery
  MaxEvents = 4
  Retention = 2
  MinEvents = 3
  MinInterval = 1
  MaxInterval = 2
  MaxJitter = 20
  MaxNow = 5
  StepsBack = 0
  MaxSweeps = 6
SPECIFICATION MCSpec
CHECK_DEADLOCK FALSE
INVARIANT FallsBack
