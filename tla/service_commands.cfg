SPECIFICATION Spec
CONSTANTS
    c1 = c1
    c2 = c2
    p1 = p1
    p2 = p2
    p3 = p3
    Cli = {c1, c2}
    Env = {"default", "isolated"}
    Port = {p1, p2, p3}
    Key = {"k1"}
    Upstream = {"system", "direct"}
    SystemUpstream = "system"
    Pid = {1, 2}
    Kinds = {"init", "start", "stop", "upstream"}
    NoConfig = NoConfig
    Nobody = Nobody
    Unread = Unread
    MaxCommands = 3
    MaxSpawns = 2
    MaxClaims = 1
    MaxCrashes = 1
    Interrupted = TRUE
SYMMETRY Symmetry
INVARIANTS
    WorkersAreKnown
PROPERTIES
    CommandsKeepToTheirOwn
CHECK_DEADLOCK FALSE
