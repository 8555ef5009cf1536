----------------------------- MODULE OutputTree -----------------------------
(***************************************************************************)
(* What unpack leaves in the output directory (writeBundle, writeReference *)
(* and the index of resolveReferences in cmd/unpack.go), down to the       *)
(* single file.  The names come from the bundles, so that they may clash   *)
(* with each other, with bundle.json and with the directories that unpack  *)
(* makes; the directory may hold an earlier unpack; any write may fail and *)
(* leave a torn file.                                                      *)
(*                                                                         *)
(* References models which bundles are fetched, Consume when anything may  *)
(* be written at all.                                                      *)
(***************************************************************************)
EXTENDS Naturals, SequencesExt

CONSTANTS Segments,   \* what file and directory names are made of
          Data,       \* the contents of files
          IndexData,  \* that of references/index.json
          Torn,       \* what a failed write leaves
          Dir,        \* a directory
          NoManifest, \* the bundle manifest is empty
          Jobs        \* what there is to write, and where

\* A name is the sequence of its segments, a leading "/" being one; a path is
\* one that was cleaned.
Path == Seq(Segments)
File == [name : Path, data : Data]

\* The bundle, the references that were fetched, in order, and the directory as
\* it was.  A reference is written to references/<category>/<ns>/<id>@<version>.
Ref == [dir : {d \in Path : Len(d) = 3}, files : Seq(File),
        manifest : Data \cup {NoManifest}]
Job == [files : Seq(File), imports : Seq(File),
        manifest : Data \cup {NoManifest}, refs : Seq(Ref)]

\* A tree maps the paths that exist to a content or Dir.
Contents == Data \cup {IndexData, Torn, Dir}
Tree(t) == /\ \A p \in DOMAIN t : p \in Path /\ t[p] \in Contents
           /\ <<>> \in DOMAIN t /\ t[<<>>] = Dir

ASSUME SegmentsAssumption ==
    {"references", "imports", "bundle.json", "index.json"} \subseteq Segments
ASSUME JobsAssumption ==
    \A j \in Jobs :
        /\ j.job \in Job /\ Tree(j.tree)
        /\ \A q, s \in DOMAIN j.job.refs : q # s => j.job.refs[q].dir # j.job.refs[s].dir
ASSUME DataAssumption ==
    /\ IndexData \notin Data \cup {Torn, Dir} /\ Torn \notin Data \cup {Dir}
    /\ Dir \notin Data /\ NoManifest \notin Data

VARIABLES
    tree,    \* the output directory
    job,
    at,      \* the next step
    k,       \* the next file of a list
    r,       \* the reference that is worked on
    index,   \* the references that were written
    before,  \* the directory as it was (history)
    primary  \* and when the primary was written (history)

vars == <<tree, job, at, k, r, index, before, primary>>

-----------------------------------------------------------------------------
(* Paths.                                                                  *)

Parent(p) == IF p = <<>> THEN <<>> ELSE Front(p)

\* filepath.Clean, one segment at a time.
Step(clean, s) ==
    CASE s = "." \/ (s = "/" /\ clean # <<>>) -> clean
      [] s = ".." /\ clean # <<>> /\ Last(clean) = "/" -> clean
      [] s = ".." /\ clean # <<>> /\ Last(clean) # ".." -> Front(clean)
      [] OTHER -> Append(clean, s)
Clean(name) == FoldLeft(Step, <<>>, name)

\* What it returns is a path.
ASSUME CleanAssumption ==
    \A j \in Jobs :
        /\ \A n \in DOMAIN j.job.files : Clean(j.job.files[n].name) \in Path
        /\ \A n \in DOMAIN j.job.imports : Clean(j.job.imports[n].name) \in Path
        /\ \A q \in DOMAIN j.job.refs : \A n \in DOMAIN j.job.refs[q].files :
              Clean(<<"references">> \o j.job.refs[q].dir \o j.job.refs[q].files[n].name)
                  \in Path

\* filepath.IsAbs, or it begins with "..".
Escapes(p) == p # <<>> /\ Head(p) \in {"/", ".."}

-----------------------------------------------------------------------------
(* What there is to write: the writers, where each writes and what.        *)

RefDir(q) == <<"references">> \o job.refs[q].dir

FileWriters == {<<"file", 0, n>> : n \in DOMAIN job.files}
ImportWriters == {<<"import", 0, n>> : n \in DOMAIN job.imports}
ManifestWriter == <<"manifest", 0, 0>>
RefWriters(q) == {<<"ref", q, n>> : n \in DOMAIN job.refs[q].files}
RefManifestWriter(q) == <<"refManifest", q, 0>>
IndexWriter == <<"index", 0, 0>>

NameOf(w) == CASE w[1] = "file" -> job.files[w[3]].name
               [] w[1] = "import" -> job.imports[w[3]].name
               [] w[1] = "ref" -> job.refs[w[2]].files[w[3]].name

PathOf(w) == CASE w[1] = "file" -> Clean(NameOf(w))
               [] w[1] = "import" -> <<"imports">> \o Clean(NameOf(w))
               [] w[1] = "manifest" -> <<"bundle.json">>
               [] w[1] = "ref" -> Clean(RefDir(w[2]) \o NameOf(w))
               [] w[1] = "refManifest" -> Append(RefDir(w[2]), "bundle.json")
               [] w[1] = "index" -> <<"references", "index.json">>

DataOf(w) == CASE w[1] = "file" -> job.files[w[3]].data
               [] w[1] = "import" -> job.imports[w[3]].data
               [] w[1] = "manifest" -> job.manifest
               [] w[1] = "ref" -> job.refs[w[2]].files[w[3]].data
               [] w[1] = "refManifest" -> job.refs[w[2]].manifest
               [] w[1] = "index" -> IndexData

\* safeWriteFile checks the name before it is joined to the directory.
SafeName(w) == NameOf(w) # <<>> /\ ~Escapes(Clean(NameOf(w)))

\* refRelPath: the joined path lies within the reference's own directory.
SafeRefName_InOutput(w) == NameOf(w) # <<>> /\ ~Escapes(PathOf(w))
SafeRefName(w) == NameOf(w) # <<>> /\ IsStrictPrefix(RefDir(w[2]), PathOf(w))

-----------------------------------------------------------------------------
(* os.MkdirAll and os.WriteFile.                                           *)

CanMake(d) == \A x \in Prefixes(d) : x \in DOMAIN tree => tree[x] = Dir
Made(d) == [x \in DOMAIN tree \cup Prefixes(d) |-> IF x \in DOMAIN tree THEN tree[x] ELSE Dir]

CanWrite(p) == CanMake(Parent(p)) /\ (p \in DOMAIN tree => tree[p] # Dir)
Written(p, c) ==
    [x \in {p} \cup DOMAIN Made(Parent(p)) |-> IF x = p THEN c ELSE Made(Parent(p))[x]]

\* A failure may leave some of the directories, or a torn file.
Damaged(p) ==
    {tree} \cup {Made(d) : d \in {x \in Prefixes(Parent(p)) : CanMake(x)}}
           \cup (IF CanWrite(p) THEN {Written(p, Torn)} ELSE {})

Succeeds(w) == CanWrite(PathOf(w)) /\ tree' = Written(PathOf(w), DataOf(w))
Fails(w) == tree' \in Damaged(PathOf(w))

-----------------------------------------------------------------------------
Init ==
    /\ \E j \in Jobs : job = j.job /\ tree = j.tree
    /\ before = tree
    /\ primary = tree
    /\ at = "files"
    /\ k = 1
    /\ r = 1
    /\ index = <<>>

(***************************************************************************)
(* writeBundle.  Its first error ends the command.                         *)
(***************************************************************************)
Abort == at' = "failed" /\ UNCHANGED <<job, k, r, index, before, primary>>

WriteNamed(w) ==
    \/ /\ SafeName(w) /\ Succeeds(w)
       /\ k' = k + 1
       /\ UNCHANGED <<job, at, r, index, before, primary>>
    \/ SafeName(w) /\ Fails(w) /\ Abort
    \/ ~SafeName(w) /\ UNCHANGED tree /\ Abort

WriteSource == at = "files" /\ k \in DOMAIN job.files /\ WriteNamed(<<"file", 0, k>>)

MakeImports ==
    /\ at = "files" /\ k \notin DOMAIN job.files /\ job.imports # <<>>
    /\ \/ /\ CanMake(<<"imports">>)
          /\ tree' = Made(<<"imports">>)
          /\ at' = "imports" /\ k' = 1
          /\ UNCHANGED <<job, r, index, before, primary>>
       \/ UNCHANGED tree /\ Abort

WriteImport ==
    at = "imports" /\ k \in DOMAIN job.imports /\ WriteNamed(<<"import", 0, k>>)

WriteManifest ==
    /\ \/ at = "files" /\ k \notin DOMAIN job.files /\ job.imports = <<>>
       \/ at = "imports" /\ k \notin DOMAIN job.imports
    /\ \/ /\ IF job.manifest = NoManifest THEN UNCHANGED tree
                                       ELSE Succeeds(ManifestWriter)
          /\ at' = "names"
          /\ primary' = tree'
          /\ UNCHANGED <<job, k, r, index, before>>
       \/ job.manifest # NoManifest /\ Fails(ManifestWriter) /\ Abort

(***************************************************************************)
(* writeReference.  Its error only skips the reference.                    *)
(***************************************************************************)
SkipReference == at' = "names" /\ r' = r + 1 /\ UNCHANGED <<job, k, index, before, primary>>

CheckNames_AsItGoes ==
    /\ at = "names" /\ r \in DOMAIN job.refs
    /\ IF job.refs[r].files # <<>>
       THEN /\ at' = "refFiles" /\ k' = 1
            /\ UNCHANGED <<job, r, index, before, primary>>
       ELSE SkipReference
    /\ UNCHANGED tree

\* A reference without files is skipped, and every name is checked before any
\* file is written.
CheckNames ==
    /\ at = "names" /\ r \in DOMAIN job.refs
    /\ IF job.refs[r].files # <<>> /\ \A w \in RefWriters(r) : SafeRefName(w)
       THEN /\ at' = "refFiles" /\ k' = 1
            /\ UNCHANGED <<job, r, index, before, primary>>
       ELSE SkipReference
    /\ UNCHANGED tree

WriteReferenceFile_GoesOn ==
    /\ at = "refFiles" /\ k \in DOMAIN job.refs[r].files
    /\ Succeeds(<<"ref", r, k>>) \/ Fails(<<"ref", r, k>>)
    /\ k' = k + 1
    /\ UNCHANGED <<job, at, r, index, before, primary>>

\* safeWriteFile, which checks the joined path again, to no effect.
WriteReferenceFile ==
    /\ at = "refFiles" /\ k \in DOMAIN job.refs[r].files
    /\ LET w == <<"ref", r, k>> IN
       \/ /\ ~Escapes(PathOf(w)) /\ Succeeds(w)
          /\ k' = k + 1
          /\ UNCHANGED <<job, at, r, index, before, primary>>
       \/ ~Escapes(PathOf(w)) /\ Fails(w) /\ SkipReference
       \/ Escapes(PathOf(w)) /\ UNCHANGED tree /\ SkipReference

FinishReference_IndexesNext ==
    /\ at = "refFiles" /\ k \notin DOMAIN job.refs[r].files
    /\ \/ /\ IF job.refs[r].manifest = NoManifest THEN UNCHANGED tree
                                               ELSE Succeeds(RefManifestWriter(r))
          /\ index' = Append(index, r + 1)
          /\ at' = "names" /\ r' = r + 1
          /\ UNCHANGED <<job, k, before, primary>>
       \/ /\ job.refs[r].manifest # NoManifest
          /\ Fails(RefManifestWriter(r)) /\ SkipReference

FinishReference ==
    /\ at = "refFiles" /\ k \notin DOMAIN job.refs[r].files
    /\ \/ /\ IF job.refs[r].manifest = NoManifest THEN UNCHANGED tree
                                               ELSE Succeeds(RefManifestWriter(r))
          /\ index' = Append(index, r)
          /\ at' = "names" /\ r' = r + 1
          /\ UNCHANGED <<job, k, before, primary>>
       \/ /\ job.refs[r].manifest # NoManifest
          /\ Fails(RefManifestWriter(r)) /\ SkipReference

WriteIndex ==
    /\ at = "names" /\ r \notin DOMAIN job.refs
    /\ \/ /\ IF index = <<>> THEN UNCHANGED tree ELSE Succeeds(IndexWriter)
          /\ at' = "done"
          /\ UNCHANGED <<job, k, r, index, before, primary>>
       \/ index # <<>> /\ Fails(IndexWriter) /\ Abort

Next ==
    \/ WriteSource \/ MakeImports \/ WriteImport \/ WriteManifest
    \/ CheckNames \/ WriteReferenceFile \/ FinishReference \/ WriteIndex

Spec == Init /\ [][Next]_vars

-----------------------------------------------------------------------------
(* Properties.                                                             *)

Rooted(t) == \A p \in DOMAIN t : Parent(p) \in DOMAIN t /\ t[Parent(p)] = Dir

TypeOK ==
    /\ Tree(tree) /\ Tree(before) /\ Tree(primary)
    /\ Rooted(before) => Rooted(tree)
    /\ \E j \in Jobs : job = j.job /\ before = j.tree
    /\ at \in {"files", "imports", "names", "refFiles", "done", "failed"}
    /\ k \in Nat \ {0}
    /\ r \in 1..Len(job.refs) + 1
    /\ at = "refFiles" => r \in DOMAIN job.refs
    /\ index \in Seq(Nat) /\ \A n \in DOMAIN index : index[n] \in 1..r - 1

\* The manifests are written if there are any.
ManifestWriters == {w \in {ManifestWriter} : job.manifest # NoManifest}
BundleWriters(q) ==
    RefWriters(q) \cup {w \in {RefManifestWriter(q)} : job.refs[q].manifest # NoManifest}
Writers ==
    FileWriters \cup ImportWriters \cup ManifestWriters \cup {IndexWriter}
        \cup UNION {BundleWriters(q) : q \in DOMAIN job.refs}

\* Where a writer belongs.
Home(w) == CASE w[1] = "import" -> <<"imports">>
             [] w[1] \in {"ref", "refManifest"} -> RefDir(w[2])
             [] OTHER -> <<>>

\* Whatever the names are, and wherever it stops: what the directory held stays,
\* or is replaced by a file that belongs at this very path; nothing appears
\* outside of the output directory (unpack.go:304, 646).
EachPathIsItsOwners ==
    /\ DOMAIN before \subseteq DOMAIN tree
    /\ \A p \in DOMAIN tree :
           \/ p \in DOMAIN before /\ tree[p] = before[p]
           \/ /\ ~Escapes(p)
              /\ \E w \in Writers :
                     \/ /\ PathOf(w) = p /\ IsStrictPrefix(Home(w), p)
                        /\ tree[p] \in {DataOf(w), Torn}
                     \/ tree[p] = Dir /\ (IsPrefix(p, Home(w)) \/ IsStrictPrefix(p, PathOf(w)))

Holds(w) == PathOf(w) \in DOMAIN tree /\ tree[PathOf(w)] = DataOf(w)
Alone(w, others) == \A v \in others : PathOf(v) = PathOf(w) => v = w

PrimaryIsWhole ==
    \A w \in FileWriters \cup ImportWriters \cup ManifestWriters :
        w \in ManifestWriters \/ Alone(w, Writers) => Holds(w)

IndexedIsWhole ==
    \A n \in DOMAIN index : \A w \in BundleWriters(index[n]) :
        w \notin RefWriters(index[n]) \/ Alone(w, BundleWriters(index[n])) => Holds(w)

\* After a success every file of the bundle and of each indexed reference is on
\* disk, unless something else of the same unpack has the same path; manifests
\* and the index always are, whatever the directory held and whichever of the
\* other references failed (unpack.go:266, 613).
WrittenIsWhole ==
    at = "done" => /\ PrimaryIsWhole
                   /\ IndexedIsWhole
                   /\ index # <<>> => Holds(IndexWriter)

\* A reference refused for one of its names leaves nothing on disk, not even the
\* files whose names were fine (unpack.go:618).
RefusedLeavesNothing ==
    at \in {"names", "refFiles", "done"} =>
        \A q \in DOMAIN job.refs :
            (\E w \in RefWriters(q) : ~IsStrictPrefix(RefDir(q), PathOf(w))) =>
                \A p \in DOMAIN tree :
                    IsStrictPrefix(RefDir(q), p) =>
                        p \in DOMAIN primary /\ tree[p] = primary[p]
=============================================================================
