\* Overlapping runs of every kind.
CONSTANTS
    r1 = r1
    r2 = r2
    r3 = r3
    Runs = {r1, r2, r3}
    Configs <- RaceConfigs
    Concurrent = TRUE
    NoManifest = NoManifest
SPECIFICATION Spec
INVARIANTS NoSilentDowngrade TagMatchesIndex
PROPERTY OnlyOvertakenRunsMoveAListedTag
CHECK_DEADLOCK FALSE
