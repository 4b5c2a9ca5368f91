\* redis-py raises its own ConnectionError, a subclass of RedisError.
CONSTANTS
    Workers = {w1, w2}
    Scopes = {"register"}
    THRESHOLD = 2
    CacheErrors = {"RedisError"}
    MaxRequests = 7
    MaxExpiries = 2
    Absent = Absent
SPECIFICATION Spec
INVARIANTS
    FailsOpen
