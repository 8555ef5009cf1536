CONSTANTS
    r1 = r1
    r2 = r2
    Runs = {r1, r2}
    Configs <- SigningConfigs
    Concurrent = TRUE
    NoManifest = NoManifest
SPECIFICATION Spec
PROPERTY RepublishNeverClobbers
CHECK_DEADLOCK FALSE
