\* Two calls share one backend, and wait for it.
CONSTANTS
    DEFAULT_LIMIT = 1
    HARD_LIMIT = 1
    NoLimit = NoLimit
    Profiles = {"p", "q"}
    Contexts = {"x"}
    NoContext = NoContext
    LoginRole = LoginRole
    Calls = {c1, c2}
    Backends = {b1}
    NoBackend = NoBackend
    ToolLimits <- RowsOrNone
    SqlLimits = {}
    MaxRows = 1
    RejectReasons = {"disallowed_table"}
    NULL = NULL
SPECIFICATION FairSpec
INVARIANTS
    TypeOK
    StatementConfined
    PooledBackendsClean
    BackendsExclusive
    DecisionTellsReach
    VolumeNeverAheadOfLog
PROPERTIES
    AuditTrailImplemented
    CallsFinish
