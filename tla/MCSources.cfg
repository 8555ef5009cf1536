\* A pipeline that validates and publishes, and an author who goes on writing.
CONSTANTS
    f = f
    g = g
    catalog = catalog
    policy = policy
    id1 = id1
    id2 = id2
    v1 = v1
    v2 = v2
    Files = {f, g}
    Contents <- MCContents
    Jobs <- MCJobs
    Types = {catalog, policy}
    Ids = {id1, id2}
    Versions = {v1, v2}
    Mergeable = {catalog}
    None = None
    NoFile = NoFile
SPECIFICATION Spec
INVARIANTS TypeOK TagIsBodyVersion ReadingsAgree NonconformingIsRefused ValidatedIsPublished
CHECK_DEADLOCK FALSE
