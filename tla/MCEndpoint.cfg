CONSTANTS
    Threads = {t1, t2, t3}
    Loops = {l1, l2, l3}
    MaxCalls = 1
    None = None
    Pool = {p1, p2}
    Slow = {t1}
SPECIFICATION FairEndpointSpec
INVARIANTS
    EndpointTypeOK
    OneRunningLoop
    LeaksOnlyOnTimeout
    PoolThreadsClean
    LifespanAroundDispatch
PROPERTIES
    HolderStable
    EveryCallEnds
    SlowToolsDelayNobody
