\* Which calls end without an audit row.
CONSTANTS
    DEFAULT_LIMIT = 1
    HARD_LIMIT = 1
    NoLimit = NoLimit
    Profiles = {"p"}
    Contexts = {"x"}
    NoContext = NoContext
    LoginRole = LoginRole
    Calls = {c1}
    Backends = {b1}
    NoBackend = NoBackend
    ToolLimits <- RowsOrNone
    SqlLimits = {}
    MaxRows = 1
    RejectReasons = {"disallowed_table"}
    NULL = NULL
SPECIFICATION Spec
INVARIANT EveryCallAudited
