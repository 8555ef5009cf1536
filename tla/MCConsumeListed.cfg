\* Publishers that may overlap, readers of listed versions.
CONSTANTS
    r1 = r1
    r2 = r2
    u1 = u1
    u2 = u2
    Runs = {r1, r2}
    Configs <- MixedConfigs
    Concurrent = TRUE
    NoManifest = NoManifest
    Readers = {u1, u2}
    Commands <- AllCommands
    Pinned = {r1}
    ListedOnly = TRUE
    NoSig = NoSig
SPECIFICATION ConsumeSpec
SYMMETRY ReaderSymmetry
INVARIANTS ReadTypeOK ListedReadsAreFrozen ListedBytesAreVerified UnpackFailsClosed
CHECK_DEADLOCK FALSE
