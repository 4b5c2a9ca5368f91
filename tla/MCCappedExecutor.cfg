\* One call, every text of the families, and on one of them every combination
\* of limits around DEFAULT_LIMIT and HARD_LIMIT, and rows around BYTES_LIMIT.
CONSTANTS
    DEFAULT_LIMIT = 2
    HARD_LIMIT = 3
    NoLimit = NoLimit
    LimitExpr = LimitExpr
    Profiles = {"p"}
    Contexts = {}
    NoContext = NoContext
    LoginRole = LoginRole
    Calls = {c1}
    Backends = {b1}
    NoBackend = NoBackend
    ToolLimits <- ManyToolLimits
    SqlLimits <- ManySqlLimits
    MaxRows = 5
    RejectReasons <- ParserReasons
    NULL = NULL
    DeclaredTables = {"a"}
    SystemNames = {"pg_class"}
    BareKeywords = {"current_user"}
    BAN_SELECT_STAR = TRUE
    Submissions <- ManySubmissions
    PER_CELL_BYTE_CAP = 3
    BYTES_LIMIT = 40
    RowsOf <- ManyRows
SPECIFICATION CappedSpec
INVARIANTS
    AnswerWithinLimits
    TruncatedIffRowsHeldBack
    AnswerIsLongestPrefix
    ReadsDeclaredTables
    CteReadsPass
    NoWholeRow
