SPECIFICATION MCSpec
CONSTANTS
    Product = {Claude, Codex}
    Identifier = {i1}
    Gateway = {g1, g2}
    Process = {p1, p2}
    NoRef = NoRef
    NoGateway = NoGateway
    NoSession = NoSession
    Nobody = Nobody
    MayCrash = TRUE
    RemovalMayFail = FALSE
SYMMETRY Symmetry
INVARIANTS
    HomeMatchesGateway
    CommitsAreTrue
    TransactionsAreAtomic
PROPERTIES
    OnlyARevokeTakesAway
CHECK_DEADLOCK FALSE
