\* The rejection rows where the default database is ATOMIC_REQUESTS.
CONSTANTS
    Profiles = {p, q}
    NoProfile = NoProfile
    TokenIds = {k1}
    NoToken = NoToken
    Requests = {r1, r2}
    SESSION_GATE = TRUE
    ATOMIC_REQUESTS = TRUE
    MaxSessions = 2
    MaxChanges = 2
SPECIFICATION Spec
INVARIANT RejectionsLogged
