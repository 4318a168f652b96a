SPECIFICATION FairSpec
CONSTANTS
    Product = {Claude}
    Identifier = {i1, i2}
    Gateway = {g1}
    Process = {p1, p2}
    NoRef = NoRef
    NoGateway = NoGateway
    NoSession = NoSession
    Nobody = Nobody
    MayCrash = TRUE
    RemovalMayFail = TRUE
INVARIANTS
    RunningClientKeepsHome
PROPERTIES
    ImplementsInstallation
    TransactionsEnd
CHECK_DEADLOCK FALSE
