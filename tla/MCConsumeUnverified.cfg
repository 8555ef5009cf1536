\* A draft is cached, its replacement is signed, the draft is unpacked.
CONSTANTS
    r1 = r1
    r2 = r2
    u1 = u1
    u2 = u2
    Runs = {r1, r2}
    Configs <- CIOnly
    Concurrent = FALSE
    NoManifest = NoManifest
    Readers = {u1, u2}
    Commands <- CachedCommands
    Pinned = {r1, r2}
    ListedOnly = FALSE
    NoSig = NoSig
SPECIFICATION ConsumeSpec
SYMMETRY ReaderSymmetry
INVARIANT UnsignedIsNeverWritten
CHECK_DEADLOCK FALSE
