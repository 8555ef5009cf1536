--------------------------- MODULE MCArtifactCache ---------------------------
(***************************************************************************)
(* Small caches for TLC: one file and bundle.json per entry.               *)
(***************************************************************************)
EXTENDS ArtifactCache, TLC

CONSTANTS a, b, plain, licensed

Both == [blobs |-> <<a, b>>, info |-> plain]
\* The same bytes with a license recorded, as a heal writes them in place.
Healed == [blobs |-> <<a, b>>, info |-> licensed]
\* Other bytes, and no bundle.json.
Other == [blobs |-> <<b, NoBlob>>, info |-> plain]

MovedTag == {Both, Other}
AllEntries == {Both, Healed, Other}
SameBytes == {Both, Healed}

ProcSymmetry == Permutations(Procs)
=============================================================================
