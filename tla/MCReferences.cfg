\* Two invocations share the cache, while the hub lists and yanks a version.
CONSTANTS
    p1 = p1
    p2 = p2
    m = m
    a = a
    b = b
    c = c
    d = d
    mit = mit
    Procs = {p1, p2}
    Coords = {m, a, b, c, d}
    Content <- Mixed
    License <- Licensed
    Moving = {a}
    NoLicense = NoLicense
    Elsewhere = Elsewhere
    Jobs <- MCJobs
    User = User
    NoToken = NoToken
    NoEntry = NoEntry
SPECIFICATION Spec

INVARIANTS TypeOK EveryReferenceAccounted LicenseIsWhatTheHubSaid CacheDropsNothing TokenFitsRepository IndexMatchesDisk
PROPERTIES ConfirmationsAreKept DiscoveryIsFinal
CHECK_DEADLOCK FALSE
