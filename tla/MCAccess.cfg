\* Two requests (a consent and then a bearer request, two at once, ...) while the
\* records change twice; the session gate is on, ATOMIC_REQUESTS is off.
CONSTANTS
    Profiles = {p, q}
    NoProfile = NoProfile
    TokenIds = {k1}
    NoToken = NoToken
    Requests = {r1, r2}
    SESSION_GATE = TRUE
    ATOMIC_REQUESTS = FALSE
    MaxSessions = 2
    MaxChanges = 2
SYMMETRY Symmetry
SPECIFICATION Spec
INVARIANTS
    TypeOK
    GatesHeldSinceArrival
    LogoutRevokes
    RejectionsLogged
