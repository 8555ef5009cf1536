\* Every clash of names, and a failure of any write.
CONSTANTS
    body = body
    other = other
    meta = meta
    old = old
    Segments <- MCSegments
    Data = {body, other, meta, old}
    IndexData = IndexData
    Torn = Torn
    Dir = Dir
    NoManifest = NoManifest
    Jobs <- MCJobs
SPECIFICATION Spec
INVARIANTS TypeOK EachPathIsItsOwners WrittenIsWhole RefusedLeavesNothing
CHECK_DEADLOCK FALSE
