SPECIFICATION MCFairSpec
CONSTANTS
  Cli = {c1, c2}
  Key = {k1}
  Upstream = {"system"}
  SystemUpstream = "system"
  Kinds = {"init"}
  NoConfig = NoConfig
  Unread = Unread
  MaxSpawns = 1
  MaxClaims = 0
  Interrupted = FALSE
  Env = {"default", "isolated"}
  Isolated = {"isolated"}
  Pid = {1, 2, 3}
  Nobody = Nobody
  MaxIssued = 2
  MaxBorn = 2
  Program = {"older", "current"}
  Current = "current"
  Port = {1, 2}
  None = None
  MaxCommands = 2
  MaxDeaths = 1
  LaunchctlFails = FALSE
  MaxSwitches = 4
  MaxWrites = 2
  MaxCrashes = 2
  Platforms = {"macos", "windows"}
  Own = "default"
  MaxUser = 2
  Crashes = TRUE
  LineLimit = 2
  MaxOutput = 3
INVARIANTS
  RunsWhatIsOnRecord
PROPERTIES
  WindowsStopsItsOwn
  CommandsAndProbesEnd
  AgentIsRefreshed
  EitherManagerAgrees
  ReportsAreTrue
CHECK_DEADLOCK FALSE
