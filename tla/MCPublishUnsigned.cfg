CONSTANTS
    r1 = r1
    r2 = r2
    Runs = {r1, r2}
    Configs <- SigningConfigs
    Concurrent = FALSE
    NoManifest = NoManifest
SPECIFICATION Spec
INVARIANT NothingUnsignedIsLeftBehind
CHECK_DEADLOCK FALSE
