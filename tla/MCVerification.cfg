\* One call, any flags, and everybody who can change what it looks at.
CONSTANTS
    gha = gha
    gitlab = gitlab
    w = w
    v = v
    main = main
    rel = rel
    d1 = d1
    d2 = d2
    Calls = {c1}
    c1 = c1
    Requests <- MCRequests
    Issuers = {gha, gitlab}
    DefaultIssuer = gha
    Paths = {w, v}
    Refs = {main, rel}
    Digests = {d1, d2}
    Referrers <- MCReferrers
    MaxAttached = 2
    HubRecords <- MCHubRecords
    None = None
    NoBundle = NoBundle
SPECIFICATION FairSpec
INVARIANTS TypeOK AcceptedIsAuthentic SignedIsNotCalledUnsigned RejectedForACause PolicyIsBuildable
PROPERTIES VerifyReturns WorkerEnds
CHECK_DEADLOCK FALSE
