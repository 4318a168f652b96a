SPECIFICATION FairSpec
CONSTANTS
    c1 = c1
    c2 = c2
    p1 = p1
    p2 = p2
    p3 = p3
    Cli = {c1, c2}
    Env = {"default"}
    Port = {p1, p2}
    Key = {"k1", "k2"}
    Upstream = {"system", "direct"}
    SystemUpstream = "system"
    Pid = {1, 2}
    Kinds = {"init", "start", "stop"}
    NoConfig = NoConfig
    Nobody = Nobody
    Unread = Unread
    MaxCommands = 3
    MaxSpawns = 2
    MaxClaims = 0
    MaxCrashes = 0
    Interrupted = FALSE
PROPERTIES
    LeftRunningIsCurrent
    CommandsEnd
CHECK_DEADLOCK FALSE
