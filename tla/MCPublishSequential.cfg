\* Runs that do not overlap, every one asking the hub first.
CONSTANTS
    r1 = r1
    r2 = r2
    r3 = r3
    Runs = {r1, r2, r3}
    Configs <- CheckedConfigs
    Concurrent = FALSE
    NoManifest = NoManifest
SPECIFICATION Spec
INVARIANTS TypeOK SuccessListsOwnBytes ListedIsSigned
PROPERTY ImplementsCoordinate
CHECK_DEADLOCK FALSE
