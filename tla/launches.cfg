SPECIFICATION MCSpec
CONSTANTS
  None = None
  Dir = {"p"}
  Port = {1, 2, 3}
  MaxCommands = 2
  MaxClaims = 1
  Launch = {l1, l2}
  PackagedPort = {1, 2}
  MaxCA = 2
  MaxVersion = 2
  MaxWindows = 2
  PackagedMoves = 2
  Platform = {"linux", "macos", "windows"}
  Account = {a1, a2}
  Bundle = {b1, b2}
  MaxTime = 1
  IsolatedMoves = 1
  MaxLogins = 2
  MaxEdits = 1
  Opaque = Opaque
  ServerVersion = {1, 2, 3, 4}
  Odd = {3}
  Silent = {1}
  Thread = {t1}
  MaxOutside = 1
  MaxRefreshes = 2
SYMMETRY Symmetry
CONSTRAINT FewWrites
INVARIANT
  LoginsSurvive
PROPERTIES
  ClientsReachTheirEnvironment
  DesktopReportIsTrue
  DesktopIsPrepared
  DaemonIsRefreshed
CHECK_DEADLOCK FALSE
