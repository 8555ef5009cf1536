\* Two processes, any Put may be killed, three entries.
CONSTANTS
    p1 = p1
    p2 = p2
    p3 = p3
    a = a
    b = b
    plain = plain
    licensed = licensed
    Procs = {p1, p2}
    Blobs = {a, b}
    NoBlob = NoBlob
    Last = 2
    Infos = {plain, licensed}
    Entries <- AllEntries
    NoEntry = NoEntry
    Missing = Missing
    Empty = Empty
    Torn = Torn
SPECIFICATION Spec
SYMMETRY ProcSymmetry
INVARIANTS TypeOK HitWasPut LonePutIsReadable AgreeingPutsConverge
PROPERTY ImplementsStore
