\* Two workers on the three surfaces, with more requests than a budget of two;
\* the cache fails, in the class the code catches and in redis-py's, and a window
\* runs out.
CONSTANTS
    Workers = {w1, w2}
    Scopes = {"register", "bad_token", "volume"}
    THRESHOLD = 2
    CacheErrors = {"ConnectionError", "RedisError"}
    MaxRequests = 4
    MaxExpiries = 1
    Absent = Absent
    Servers = {s1, s2}
    Slugs = {"claude", "chatgpt"}
    Minted = {"dcr"}
    Releases <- MCReleases
    Bodies <- MCBodies
    Requests <- MCRequests
    OAUTH_REQUEST_BODY_MAX_BYTES = 64
    MaxEdits = 2
SYMMETRY Symmetry
SPECIFICATION PublicSpec
INVARIANTS
    CounterExact
    OneWarningPerWindow
    OvershootBounded
    CodesGoWhereDeclared
PROPERTIES
    NewCodesFollowRelease
