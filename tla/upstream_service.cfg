SPECIFICATION FairSpec
CONSTANTS
    p1 = p1
    p2 = p2
    t1 = t1
    t2 = t2
    t3 = t3
    site = site
    localhost = localhost
    Proxy = {p1, p2}
    Self = Self
    Bad = Bad
    Unset = Unset
    Target = {site}
    Loopback = {}
    Direct = Direct
    Failed = Failed
    Task = {t1, t2}
    Refresher = Refresher
    Nobody = Nobody
    Setting = "system"
    Environment <- NoProxyVariables
    Reading <- Readings
    Prewarm = {site}
    Permits = 1
    MaxChanges = 1
INVARIANTS
    ConnectionsAgree
PROPERTIES
    ServiceGoesOn
CHECK_DEADLOCK FALSE
