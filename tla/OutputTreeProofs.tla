-------------------------- MODULE OutputTreeProofs --------------------------
(***************************************************************************)
(* Proofs about module OutputTree, for any bundles, names and directories. *)
(*                                                                         *)
(* Whether it succeeds or fails, a write changes one path, that of its     *)
(* file, and makes directories above it that were not there (Effect).      *)
(***************************************************************************)
EXTENDS OutputTree, SequenceTheorems, TLAPS

-----------------------------------------------------------------------------
(* Paths.                                                                  *)

LEMMA PrefixesOfPath ==
    ASSUME NEW p \in Path
    PROVE  /\ Prefixes(p) \subseteq Path
           /\ p \in Prefixes(p)
           /\ <<>> \in Prefixes(p)
<1>1. \A l \in 0..Len(p) : SubSeq(p, 1, l) \in Path
  BY DEF Path
<1>2. SubSeq(p, 1, Len(p)) = p /\ SubSeq(p, 1, 0) = <<>>
  BY DEF Path
<1>3. Len(p) \in 0..Len(p) /\ 0 \in 0..Len(p)
  BY DEF Path
<1> QED BY <1>1, <1>2, <1>3 DEF Prefixes

LEMMA ParentOfPath ==
    ASSUME NEW p \in Path
    PROVE  /\ Parent(p) \in Path
           /\ p # <<>> => Len(Parent(p)) = Len(p) - 1
<1>1. CASE p = <<>>
  BY <1>1 DEF Parent
<1>2. CASE p # <<>>
  <2>1. Len(p) \in Nat /\ Len(p) > 0
    BY <1>2 DEF Path
  <2>2. Parent(p) = SubSeq(p, 1, Len(p) - 1)
    BY <1>2 DEF Parent, Front
  <2>3. \A l \in 0..Len(p) : SubSeq(p, 1, l) \in Path /\ Len(SubSeq(p, 1, l)) = l
    BY DEF Path
  <2>4. Len(p) - 1 \in 0..Len(p)
    BY <2>1
  <2> QED BY <2>2, <2>3, <2>4
<1> QED BY <1>1, <1>2

LEMMA ParentOfPrefix ==
    ASSUME NEW p \in Path, NEW x \in Prefixes(p)
    PROVE  Parent(x) \in Prefixes(p)
<1>1. PICK l \in 0..Len(p) : x = SubSeq(p, 1, l)
  BY DEF Prefixes
<1>2. CASE l = 0
  <2>1. x = <<>>
    BY <1>1, <1>2 DEF Path
  <2> QED BY <2>1, PrefixesOfPath DEF Parent
<1>3. CASE l > 0
  <2>1. x # <<>> /\ Len(x) = l
    BY <1>1, <1>3 DEF Path
  <2>2. Parent(x) = SubSeq(SubSeq(p, 1, l), 1, l - 1)
    BY <2>1, <1>1 DEF Parent, Front
  <2>3. SubSeq(SubSeq(p, 1, l), 1, l - 1) = SubSeq(p, 1, l - 1)
    BY <1>3 DEF Path
  <2>4. l - 1 \in 0..Len(p)
    BY <1>3 DEF Path
  <2> QED BY <2>2, <2>3, <2>4 DEF Prefixes
<1> QED BY <1>2, <1>3

LEMMA PrefixOfParent ==
    ASSUME NEW p \in Path, p # <<>>, NEW x \in Prefixes(Parent(p))
    PROVE  x \in Path /\ IsStrictPrefix(x, p) /\ Len(x) < Len(p)
<1>1. PICK l \in 0..Len(Parent(p)) : x = SubSeq(Parent(p), 1, l)
  BY DEF Prefixes
<1>2. Parent(p) = SubSeq(p, 1, Len(p) - 1) /\ Len(Parent(p)) = Len(p) - 1
  BY ParentOfPath DEF Parent, Front
<1>3. l \in 0..(Len(p) - 1)
  BY <1>1, <1>2
<1>4. x = SubSeq(p, 1, l)
  BY <1>1, <1>2, <1>3 DEF Path
<1>5. x \in Path /\ Len(x) = l
  BY <1>3, <1>4 DEF Path
<1>6. SubSeq(x, 1, Len(x)) = x
  BY <1>5 DEF Path
<1>7. l < Len(p) /\ l <= Len(p)
  BY <1>3 DEF Path
<1> QED BY <1>4, <1>5, <1>6, <1>7 DEF IsStrictPrefix, IsPrefix

-----------------------------------------------------------------------------
(* One write.                                                              *)

\* What os.WriteFile of c to p, successful or not, does to the tree.
Effect(p, c) ==
    /\ Tree(tree')
    /\ Rooted(tree) => Rooted(tree')
    /\ DOMAIN tree \subseteq DOMAIN tree'
    /\ \A x \in DOMAIN tree' :
           \/ x \in DOMAIN tree /\ tree'[x] = tree[x]
           \/ x = p /\ p # <<>> /\ tree'[x] \in {c, Torn} /\ (x \in DOMAIN tree => tree[x] # Dir)
           \/ x \notin DOMAIN tree /\ tree'[x] = Dir /\ x \in Prefixes(Parent(p)) /\ p # <<>>

LEMMA MadeTree ==
    ASSUME Tree(tree), NEW d \in Path, CanMake(d)
    PROVE  /\ Tree(Made(d))
           /\ Rooted(tree) => Rooted(Made(d))
           /\ DOMAIN tree \subseteq DOMAIN Made(d)
           /\ \A x \in Prefixes(d) : x \in DOMAIN Made(d) /\ Made(d)[x] = Dir
           /\ \A x \in DOMAIN tree : Made(d)[x] = tree[x]
           /\ \A x \in DOMAIN Made(d) : x \in DOMAIN tree \/ x \in Prefixes(d)
<1>1. /\ DOMAIN Made(d) = DOMAIN tree \cup Prefixes(d)
      /\ \A x \in DOMAIN Made(d) :
             Made(d)[x] = IF x \in DOMAIN tree THEN tree[x] ELSE Dir
  BY DEF Made
<1>2. \A x \in Prefixes(d) : x \in DOMAIN Made(d) /\ Made(d)[x] = Dir
  BY <1>1 DEF CanMake
<1>3. Tree(Made(d))
  BY <1>1, PrefixesOfPath DEF Tree, Contents, Path
<1>4. ASSUME Rooted(tree) PROVE Rooted(Made(d))
  <2> SUFFICES ASSUME NEW x \in DOMAIN Made(d)
               PROVE  Parent(x) \in DOMAIN Made(d) /\ Made(d)[Parent(x)] = Dir
    BY DEF Rooted
  <2>1. CASE x \in DOMAIN tree
    BY <2>1, <1>1, <1>4 DEF Rooted
  <2>2. CASE x \in Prefixes(d)
    BY <2>2, <1>2, ParentOfPrefix
  <2> QED BY <2>1, <2>2, <1>1
<1> QED BY <1>1, <1>2, <1>3, <1>4

LEMMA WrittenTree ==
    ASSUME Tree(tree), NEW p \in Path, NEW c \in Contents, NEW e \in {c, Torn}, CanWrite(p),
           tree' = Written(p, e)
    PROVE  /\ Effect(p, c)
           /\ p \in DOMAIN tree' /\ tree'[p] = e
<1> DEFINE m == Made(Parent(p))
<1>1. p # <<>>
  BY DEF Tree, CanWrite
<1>2. Parent(p) \in Path /\ CanMake(Parent(p))
  BY ParentOfPath DEF CanWrite
<1>3. /\ Tree(m) /\ (Rooted(tree) => Rooted(m))
      /\ DOMAIN tree \subseteq DOMAIN m
      /\ \A x \in Prefixes(Parent(p)) : x \in DOMAIN m /\ m[x] = Dir
      /\ \A x \in DOMAIN tree : m[x] = tree[x]
      /\ \A x \in DOMAIN m : x \in DOMAIN tree \/ x \in Prefixes(Parent(p))
  BY <1>2, MadeTree
<1>4. /\ DOMAIN tree' = {p} \cup DOMAIN m
      /\ \A x \in DOMAIN tree' : tree'[x] = IF x = p THEN e ELSE m[x]
  BY DEF Written
<1>5. Tree(tree')
  BY <1>1, <1>3, <1>4 DEF Tree, Contents, Path
<1>6. p \notin DOMAIN tree \/ tree[p] # Dir
  BY DEF CanWrite
<1>7. p \notin Prefixes(Parent(p))
  <2> SUFFICES ASSUME p \in Prefixes(Parent(p)) PROVE FALSE
    OBVIOUS
  <2>1. Len(p) < Len(p)
    BY <1>1, PrefixOfParent
  <2> QED BY <2>1 DEF Path
<1>8. ASSUME Rooted(tree) PROVE Rooted(tree')
  <2> SUFFICES ASSUME NEW x \in DOMAIN tree'
               PROVE  Parent(x) \in DOMAIN tree' /\ tree'[Parent(x)] = Dir
    BY DEF Rooted
  <2>1. Parent(p) \in DOMAIN m /\ m[Parent(p)] = Dir
    BY <1>2, <1>3, PrefixesOfPath
  <2>2. Parent(x) \in DOMAIN m /\ m[Parent(x)] = Dir
    BY <1>3, <1>4, <1>8, <2>1 DEF Rooted
  <2>3. Parent(x) # p
    BY <2>2, <1>3, <1>6, <1>7
  <2> QED BY <2>2, <2>3, <1>4
<1>9. \A x \in DOMAIN tree' :
          \/ x \in DOMAIN tree /\ tree'[x] = tree[x]
          \/ x = p /\ p # <<>> /\ tree'[x] \in {c, Torn} /\ (x \in DOMAIN tree => tree[x] # Dir)
          \/ x \notin DOMAIN tree /\ tree'[x] = Dir /\ x \in Prefixes(Parent(p)) /\ p # <<>>
  BY <1>1, <1>3, <1>4, <1>6
<1> QED BY <1>3, <1>4, <1>5, <1>8, <1>9 DEF Effect

LEMMA DamagedTree ==
    ASSUME Tree(tree), NEW p \in Path, NEW c \in Contents, tree' \in Damaged(p)
    PROVE  Effect(p, c)
<1>1. CASE tree' = tree
  BY <1>1 DEF Effect
<1>2. ASSUME NEW d \in Prefixes(Parent(p)), CanMake(d), tree' = Made(d)
      PROVE  Effect(p, c)
  <2>1. Parent(p) \in Path /\ d \in Path
    BY <1>2, ParentOfPath, PrefixesOfPath
  <2>2. Prefixes(d) \subseteq Prefixes(Parent(p))
    <3>1. PICK l \in 0..Len(Parent(p)) : d = SubSeq(Parent(p), 1, l)
      BY DEF Prefixes
    <3> SUFFICES ASSUME NEW n \in 0..Len(d)
                 PROVE  SubSeq(d, 1, n) \in Prefixes(Parent(p))
      BY DEF Prefixes
    <3>2. n \in 0..l
      BY <3>1, <2>1 DEF Path
    <3>3. SubSeq(d, 1, n) = SubSeq(Parent(p), 1, n)
      BY <3>1, <3>2, <2>1 DEF Path
    <3>4. n \in 0..Len(Parent(p))
      BY <3>1, <3>2, <2>1 DEF Path
    <3> QED BY <3>3, <3>4 DEF Prefixes
  <2>3. /\ Tree(tree') /\ (Rooted(tree) => Rooted(tree'))
        /\ DOMAIN tree \subseteq DOMAIN tree'
        /\ \A x \in Prefixes(d) : x \in DOMAIN tree' /\ tree'[x] = Dir
        /\ \A x \in DOMAIN tree : tree'[x] = tree[x]
        /\ \A x \in DOMAIN tree' : x \in DOMAIN tree \/ x \in Prefixes(d)
    BY <1>2, <2>1, MadeTree
  <2>4. CASE p # <<>>
    BY <2>2, <2>3, <2>4 DEF Effect
  <2>5. CASE p = <<>>
    <3>1. \A l \in 0..Len(<<>>) : SubSeq(<<>>, 1, l) = <<>>
      OBVIOUS
    <3>2. \A x \in Prefixes(Parent(p)) : x \in DOMAIN tree
      BY <2>5, <3>1 DEF Prefixes, Parent, Tree
    <3> QED BY <2>2, <2>3, <3>2 DEF Effect
  <2> QED BY <2>4, <2>5
<1>3. CASE CanWrite(p) /\ tree' = Written(p, Torn)
  BY <1>3, WrittenTree
<1> QED BY <1>1, <1>2, <1>3 DEF Damaged

-----------------------------------------------------------------------------
(* The writers.                                                            *)

LEMMA JobFacts ==
    ASSUME TypeOK
    PROVE  /\ job \in Job
           /\ \A q, s \in DOMAIN job.refs : q # s => job.refs[q].dir # job.refs[s].dir
           /\ \A n \in DOMAIN job.files : Clean(job.files[n].name) \in Path
           /\ \A n \in DOMAIN job.imports : Clean(job.imports[n].name) \in Path
           /\ \A q \in DOMAIN job.refs : \A n \in DOMAIN job.refs[q].files :
                 Clean(RefDir(q) \o job.refs[q].files[n].name) \in Path
<1>1. PICK j \in Jobs : job = j.job
  BY DEF TypeOK
<1>2. /\ j.job \in Job
      /\ \A q, s \in DOMAIN j.job.refs : q # s => j.job.refs[q].dir # j.job.refs[s].dir
  BY JobsAssumption
<1>3. /\ \A n \in DOMAIN j.job.files : Clean(j.job.files[n].name) \in Path
      /\ \A n \in DOMAIN j.job.imports : Clean(j.job.imports[n].name) \in Path
      /\ \A q \in DOMAIN j.job.refs : \A n \in DOMAIN j.job.refs[q].files :
            Clean(<<"references">> \o j.job.refs[q].dir \o j.job.refs[q].files[n].name)
                \in Path
  BY CleanAssumption
<1> QED BY <1>1, <1>2, <1>3 DEF RefDir, Path

LEMMA SeqElement ==
    ASSUME NEW S, NEW s \in Seq(S), NEW n \in DOMAIN s
    PROVE  s[n] \in S
OBVIOUS

LEMMA JobTypes ==
    ASSUME TypeOK
    PROVE  /\ job.manifest \in Data \cup {NoManifest}
           /\ job.files \in Seq(File) /\ job.imports \in Seq(File) /\ job.refs \in Seq(Ref)
           /\ \A n \in DOMAIN job.files : job.files[n].data \in Data
           /\ \A n \in DOMAIN job.imports : job.imports[n].data \in Data
           /\ \A q \in DOMAIN job.refs :
                 /\ job.refs[q].dir \in Path /\ Len(job.refs[q].dir) = 3
                 /\ job.refs[q].manifest \in Data \cup {NoManifest}
                 /\ job.refs[q].files \in Seq(File)
                 /\ \A n \in DOMAIN job.refs[q].files : job.refs[q].files[n].data \in Data
<1>1. /\ job.files \in Seq(File) /\ job.imports \in Seq(File) /\ job.refs \in Seq(Ref)
      /\ job.manifest \in Data \cup {NoManifest}
  BY JobFacts DEF Job
<1>2. \A f \in File : f.data \in Data
  BY DEF File
<1>3. \A f \in Ref : /\ f.dir \in Path /\ Len(f.dir) = 3
                     /\ f.manifest \in Data \cup {NoManifest}
                     /\ f.files \in Seq(File)
  BY DEF Ref
<1>4. /\ \A n \in DOMAIN job.files : job.files[n] \in File
      /\ \A n \in DOMAIN job.imports : job.imports[n] \in File
      /\ \A q \in DOMAIN job.refs : job.refs[q] \in Ref
  BY <1>1, SeqElement
<1>5. ASSUME NEW q \in DOMAIN job.refs, NEW n \in DOMAIN job.refs[q].files
      PROVE  job.refs[q].files[n] \in File
  BY <1>3, <1>4, SeqElement
<1> QED BY <1>1, <1>2, <1>3, <1>4, <1>5

LEMMA Prepend ==
    ASSUME NEW S, NEW s \in S, NEW d \in Seq(S), Len(d) = 3
    PROVE  LET e == <<s>> \o d IN
           /\ e \in Seq(S) /\ Len(e) = 4 /\ e[1] = s
           /\ e[2] = d[1] /\ e[3] = d[2] /\ e[4] = d[3]
<1> DEFINE t == <<s>>
           e == t \o d
<1>1. t \in Seq(S) /\ Len(t) = 1 /\ t[1] = s
  OBVIOUS
<1> HIDE DEF t
<1>2. /\ e \in Seq(S) /\ Len(e) = Len(t) + Len(d)
      /\ \A n \in 1..Len(t) + Len(d) : e[n] = IF n <= Len(t) THEN t[n] ELSE d[n - Len(t)]
  BY <1>1, ConcatProperties
<1> HIDE DEF e
<1>3. e \in Seq(S) /\ Len(e) = 4
  BY <1>1, <1>2
<1>4. e[1] = s /\ e[2] = d[1] /\ e[3] = d[2] /\ e[4] = d[3]
  BY <1>1, <1>2
<1> QED BY <1>3, <1>4 DEF e, t

LEMMA RefDirs ==
    ASSUME TypeOK, NEW q \in DOMAIN job.refs
    PROVE  /\ RefDir(q) \in Path /\ Len(RefDir(q)) = 4
           /\ RefDir(q)[1] = "references"
           /\ \A s \in DOMAIN job.refs : q # s => RefDir(q) # RefDir(s)
<1>1. \A s \in DOMAIN job.refs : job.refs[s].dir \in Path /\ Len(job.refs[s].dir) = 3
  BY JobTypes
<1>2. \A d \in Path : Len(d) = 3 =>
          LET e == <<"references">> \o d IN
          /\ e \in Path /\ Len(e) = 4 /\ e[1] = "references"
          /\ e[2] = d[1] /\ e[3] = d[2] /\ e[4] = d[3]
  BY SegmentsAssumption, Prepend DEF Path
<1>3. \A d, e \in Path :
          Len(d) = 3 /\ Len(e) = 3 /\ d[1] = e[1] /\ d[2] = e[2] /\ d[3] = e[3] => d = e
  BY DEF Path
<1>4. ASSUME NEW s \in DOMAIN job.refs, q # s, RefDir(q) = RefDir(s) PROVE FALSE
  <2>1. job.refs[q].dir # job.refs[s].dir
    BY <1>4, JobFacts
  <2> QED BY <1>1, <1>2, <1>3, <1>4, <2>1 DEF RefDir
<1> QED BY <1>1, <1>2, <1>4 DEF RefDir

LEMMA WriterPaths ==
    ASSUME TypeOK, NEW w \in Writers
    PROVE  PathOf(w) \in Path /\ DataOf(w) \in Contents
<1>1. ASSUME w \in FileWriters PROVE PathOf(w) \in Path /\ DataOf(w) \in Contents
  <2>1. PICK n \in DOMAIN job.files : w = <<"file", 0, n>>
    BY <1>1 DEF FileWriters
  <2>2. job.files[n].data \in Data
    BY JobTypes
  <2> QED BY <2>1, <2>2, JobFacts DEF PathOf, NameOf, DataOf, Contents
<1>2. ASSUME w \in ImportWriters PROVE PathOf(w) \in Path /\ DataOf(w) \in Contents
  <2>1. PICK n \in DOMAIN job.imports : w = <<"import", 0, n>>
    BY <1>2 DEF ImportWriters
  <2>2. job.imports[n].data \in Data
    BY JobTypes
  <2>3. PathOf(w) = <<"imports">> \o Clean(job.imports[n].name)
    BY <2>1 DEF PathOf, NameOf
  <2>4. \A p \in Path : <<"imports">> \o p \in Path
    <3>1. <<"imports">> \in Path
      BY SegmentsAssumption DEF Path
    <3> QED BY <3>1 DEF Path
  <2> QED BY <2>1, <2>2, <2>3, <2>4, JobFacts DEF DataOf, Contents
<1>3. ASSUME w \in ManifestWriters PROVE PathOf(w) \in Path /\ DataOf(w) \in Contents
  <2>1. w = <<"manifest", 0, 0>> /\ job.manifest \in Data
    BY <1>3, JobTypes DEF ManifestWriters, ManifestWriter
  <2>2. PathOf(w) = <<"bundle.json">> /\ DataOf(w) = job.manifest
    BY <2>1 DEF PathOf, DataOf
  <2>3. <<"bundle.json">> \in Path
    BY SegmentsAssumption DEF Path
  <2> QED BY <2>1, <2>2, <2>3 DEF Contents
<1>4. ASSUME NEW q \in DOMAIN job.refs, w \in RefWriters(q)
      PROVE  PathOf(w) \in Path /\ DataOf(w) \in Contents
  <2>1. PICK n \in DOMAIN job.refs[q].files : w = <<"ref", q, n>>
    BY <1>4 DEF RefWriters
  <2>2. job.refs[q].files[n].data \in Data
    BY JobTypes
  <2> QED BY <2>1, <2>2, JobFacts DEF PathOf, NameOf, DataOf, Contents
<1>5. ASSUME NEW q \in DOMAIN job.refs, w = RefManifestWriter(q), job.refs[q].manifest # NoManifest
      PROVE  PathOf(w) \in Path /\ DataOf(w) \in Contents
  <2>1. PathOf(w) = Append(RefDir(q), "bundle.json") /\ DataOf(w) = job.refs[q].manifest
    BY <1>5 DEF PathOf, DataOf, RefManifestWriter
  <2>2. job.refs[q].manifest \in Data
    BY <1>5, JobTypes
  <2>3. \A p \in Path : Append(p, "bundle.json") \in Path
    BY SegmentsAssumption DEF Path
  <2> QED BY <2>1, <2>2, <2>3, RefDirs DEF Contents
<1>6. ASSUME w = IndexWriter PROVE PathOf(w) \in Path /\ DataOf(w) \in Contents
  <2>1. PathOf(w) = <<"references", "index.json">> /\ DataOf(w) = IndexData
    BY <1>6 DEF IndexWriter, PathOf, DataOf
  <2>2. <<"references", "index.json">> \in Path
    BY SegmentsAssumption DEF Path
  <2> QED BY <2>1, <2>2 DEF Contents
<1> QED BY <1>1, <1>2, <1>3, <1>4, <1>5, <1>6 DEF Writers, BundleWriters

-----------------------------------------------------------------------------
(* Where each of them writes.                                              *)

LEMMA StrictPrefix ==
    ASSUME NEW d \in Path, NEW p \in Path, IsStrictPrefix(d, p)
    PROVE  /\ Len(d) < Len(p)
           /\ SubSeq(p, 1, Len(d)) = d
           /\ d # <<>> => p # <<>> /\ p[1] = d[1]
<1>1. SubSeq(d, 1, Len(d)) = d /\ SubSeq(p, 1, Len(p)) = p
  BY DEF Path
<1>2. Len(d) <= Len(p) /\ SubSeq(p, 1, Len(d)) = d /\ d # p
  BY <1>1 DEF IsStrictPrefix, IsPrefix
<1>3. Len(d) # Len(p)
  BY <1>1, <1>2
<1>4. Len(d) < Len(p)
  BY <1>2, <1>3 DEF Path
<1>5. ASSUME d # <<>> PROVE p # <<>> /\ p[1] = d[1]
  <2>1. Len(d) \in Nat /\ Len(d) > 0
    BY <1>5 DEF Path
  <2>2. SubSeq(p, 1, Len(d))[1] = p[1]
    BY <2>1, <1>4 DEF Path
  <2> QED BY <2>1, <2>2, <1>2, <1>4 DEF Path
<1> QED BY <1>2, <1>4, <1>5

LEMMA BelowRoot ==
    ASSUME NEW p \in Path, p # <<>>
    PROVE  IsStrictPrefix(<<>>, p)
<1>1. SubSeq(p, 1, 0) = <<>> /\ SubSeq(<<>>, 1, 0) = <<>> /\ Len(<<>>) = 0 /\ 0 <= Len(p)
  BY DEF Path
<1> QED BY <1>1 DEF IsStrictPrefix, IsPrefix

LEMMA Joined ==
    ASSUME NEW d \in Path, NEW c \in Path, c # <<>>
    PROVE  d \o c \in Path /\ IsStrictPrefix(d, d \o c)
<1> DEFINE p == d \o c
<1>1. /\ p \in Path /\ Len(p) = Len(d) + Len(c)
      /\ \A i \in 1..Len(d) + Len(c) : p[i] = IF i <= Len(d) THEN d[i] ELSE c[i - Len(d)]
  BY ConcatProperties DEF Path
<1> HIDE DEF p
<1>2. Len(d) \in Nat /\ Len(c) \in Nat /\ Len(c) > 0
  BY DEF Path
<1>3. Len(d) <= Len(p) /\ p # d
  BY <1>1, <1>2
<1>4. \A i \in 1..Len(d) : p[i] = d[i]
  BY <1>1, <1>2
<1>5. SubSeq(d, 1, Len(d)) = SubSeq(p, 1, Len(d))
  BY <1>1, <1>2, <1>3, <1>4 DEF Path
<1> QED BY <1>1, <1>3, <1>5 DEF p, IsStrictPrefix, IsPrefix

\* The writer stays where it belongs, or finds a directory in its way.
Proper(w) ==
    /\ ~Escapes(PathOf(w))
    /\ \/ IsStrictPrefix(Home(w), PathOf(w))
       \/ PathOf(w) \in DOMAIN tree /\ tree[PathOf(w)] = Dir

ImportsInv ==
    at = "imports" => <<"imports">> \in DOMAIN tree /\ tree[<<"imports">>] = Dir

NamesInv ==
    /\ at = "refFiles" => \A w \in RefWriters(r) : SafeRefName(w)
    /\ \A n \in DOMAIN index : \A w \in RefWriters(index[n]) : SafeRefName(w)

LEMMA ProperFile ==
    ASSUME TypeOK, NEW n \in DOMAIN job.files, SafeName(<<"file", 0, n>>)
    PROVE  <<"file", 0, n>> \in Writers /\ Proper(<<"file", 0, n>>)
<1> DEFINE w == <<"file", 0, n>>
<1>1. w \in Writers
  BY DEF Writers, FileWriters
<1>2. PathOf(w) = Clean(NameOf(w)) /\ Home(w) = <<>>
  BY DEF PathOf, Home
<1>3. ~Escapes(PathOf(w))
  BY <1>2 DEF SafeName
<1>4. PathOf(w) \in Path
  BY <1>1, WriterPaths
<1>5. PathOf(w) # <<>> => IsStrictPrefix(Home(w), PathOf(w))
  BY <1>2, <1>4, BelowRoot
<1>6. <<>> \in DOMAIN tree /\ tree[<<>>] = Dir
  BY DEF TypeOK, Tree
<1> QED BY <1>1, <1>3, <1>5, <1>6 DEF Proper

LEMMA ProperImport ==
    ASSUME TypeOK, ImportsInv, at = "imports", NEW n \in DOMAIN job.imports
    PROVE  <<"import", 0, n>> \in Writers /\ Proper(<<"import", 0, n>>)
<1> DEFINE w == <<"import", 0, n>>
           c == Clean(job.imports[n].name)
<1>1. w \in Writers
  BY DEF Writers, ImportWriters
<1>2. PathOf(w) = <<"imports">> \o c /\ Home(w) = <<"imports">>
  BY DEF PathOf, NameOf, Home
<1>3. <<"imports">> \in Path /\ <<"imports">> # <<>> /\ <<"imports">>[1] = "imports" /\ c \in Path
  BY SegmentsAssumption, JobFacts DEF Path
<1> HIDE DEF c
<1>4. CASE c = <<>>
  <2>1. <<"imports">> \o c = <<"imports">>
    BY <1>3, <1>4 DEF Path
  <2>2. ~Escapes(<<"imports">>)
    BY DEF Escapes
  <2> QED BY <1>1, <1>2, <2>1, <2>2 DEF Proper, ImportsInv
<1>5. CASE c # <<>>
  <2>1. PathOf(w) \in Path /\ IsStrictPrefix(<<"imports">>, PathOf(w))
    BY <1>2, <1>3, <1>5, Joined
  <2>2. PathOf(w)[1] = "imports"
    BY <2>1, <1>3, StrictPrefix
  <2>3. ~Escapes(PathOf(w))
    BY <2>2 DEF Escapes
  <2> QED BY <1>1, <1>2, <2>1, <2>3 DEF Proper
<1> QED BY <1>4, <1>5

LEMMA ProperManifest ==
    ASSUME TypeOK, job.manifest # NoManifest
    PROVE  ManifestWriter \in Writers /\ Proper(ManifestWriter)
<1>1. ManifestWriter \in Writers
  BY DEF Writers, ManifestWriters
<1>2. PathOf(ManifestWriter) = <<"bundle.json">> /\ Home(ManifestWriter) = <<>>
  BY DEF PathOf, Home, ManifestWriter
<1>3. ~Escapes(<<"bundle.json">>) /\ <<"bundle.json">> # <<>>
  BY DEF Escapes
<1> QED BY <1>1, <1>2, <1>3, WriterPaths, BelowRoot DEF Proper

LEMMA ProperIndex ==
    ASSUME TypeOK
    PROVE  IndexWriter \in Writers /\ Proper(IndexWriter)
<1>1. IndexWriter \in Writers
  BY DEF Writers
<1>2. PathOf(IndexWriter) = <<"references", "index.json">> /\ Home(IndexWriter) = <<>>
  BY DEF PathOf, Home, IndexWriter
<1>3. ~Escapes(<<"references", "index.json">>) /\ <<"references", "index.json">> # <<>>
  BY DEF Escapes
<1> QED BY <1>1, <1>2, <1>3, WriterPaths, BelowRoot DEF Proper

LEMMA ProperRef ==
    ASSUME TypeOK, NEW q \in DOMAIN job.refs, NEW w \in RefWriters(q), SafeRefName(w)
    PROVE  w \in Writers /\ Proper(w) /\ IsStrictPrefix(RefDir(q), PathOf(w))
<1>1. w \in Writers
  BY DEF Writers, BundleWriters
<1>2. PICK n \in DOMAIN job.refs[q].files : w = <<"ref", q, n>>
  BY DEF RefWriters
<1>3. Home(w) = RefDir(q) /\ IsStrictPrefix(RefDir(q), PathOf(w))
  BY <1>2 DEF Home, SafeRefName
<1>4. PathOf(w) \in Path /\ RefDir(q) \in Path /\ RefDir(q) # <<>> /\ RefDir(q)[1] = "references"
  BY <1>1, WriterPaths, RefDirs DEF Path
<1>5. PathOf(w)[1] = "references"
  BY <1>3, <1>4, StrictPrefix
<1> QED BY <1>1, <1>3, <1>5 DEF Proper, Escapes

LEMMA ProperRefManifest ==
    ASSUME TypeOK, NEW q \in DOMAIN job.refs, job.refs[q].manifest # NoManifest
    PROVE  LET w == RefManifestWriter(q) IN
           w \in Writers /\ Proper(w) /\ IsStrictPrefix(RefDir(q), PathOf(w))
<1> DEFINE w == RefManifestWriter(q)
<1>1. w \in Writers
  BY DEF Writers, BundleWriters
<1>2. PathOf(w) = Append(RefDir(q), "bundle.json") /\ Home(w) = RefDir(q)
  BY DEF PathOf, Home, RefManifestWriter
<1>3. RefDir(q) \in Path /\ RefDir(q) # <<>> /\ RefDir(q)[1] = "references"
  BY RefDirs DEF Path
<1>4. \A d \in Path : Append(d, "bundle.json") = d \o <<"bundle.json">>
  BY SegmentsAssumption DEF Path
<1>5. <<"bundle.json">> \in Path /\ <<"bundle.json">> # <<>>
  BY SegmentsAssumption DEF Path
<1>6. IsStrictPrefix(RefDir(q), PathOf(w)) /\ PathOf(w) \in Path
  BY <1>2, <1>3, <1>4, <1>5, Joined
<1>7. PathOf(w)[1] = "references"
  BY <1>3, <1>6, StrictPrefix
<1> QED BY <1>1, <1>2, <1>6, <1>7 DEF Proper, Escapes

-----------------------------------------------------------------------------
(* One step.                                                               *)

Wrote(w) == Proper(w) /\ Effect(PathOf(w), DataOf(w))

LEMMA Rigid ==
    ASSUME job' = job
    PROVE  /\ Writers' = Writers /\ FileWriters' = FileWriters
           /\ ImportWriters' = ImportWriters /\ ManifestWriters' = ManifestWriters
           /\ \A q : /\ RefDir(q)' = RefDir(q) /\ RefWriters(q)' = RefWriters(q)
                    /\ BundleWriters(q)' = BundleWriters(q)
           /\ \A w : /\ PathOf(w)' = PathOf(w) /\ DataOf(w)' = DataOf(w) /\ Home(w)' = Home(w)
                    /\ SafeRefName(w)' = SafeRefName(w)
<1>1. \A q : /\ RefDir(q)' = RefDir(q) /\ RefWriters(q)' = RefWriters(q)
             /\ BundleWriters(q)' = BundleWriters(q)
  BY DEF RefDir, RefWriters, BundleWriters, RefManifestWriter
<1>2. \A w : NameOf(w)' = NameOf(w)
  BY DEF NameOf
<1>3. \A w : PathOf(w)' = PathOf(w)
  BY <1>1, <1>2 DEF PathOf
<1>4. \A w : DataOf(w)' = DataOf(w)
  BY DEF DataOf
<1>5. \A w : Home(w)' = Home(w)
  BY <1>1 DEF Home
<1>6. \A w : SafeRefName(w)' = SafeRefName(w)
  BY <1>1, <1>2, <1>3 DEF SafeRefName
<1>7. /\ FileWriters' = FileWriters
      /\ ImportWriters' = ImportWriters /\ ManifestWriters' = ManifestWriters
  BY DEF FileWriters, ImportWriters, ManifestWriters, ManifestWriter
<1>8. Writers' = Writers
  BY <1>1, <1>7 DEF Writers, IndexWriter
<1> QED BY <1>1, <1>3, <1>4, <1>5, <1>6, <1>7, <1>8

LEMMA OneWrite ==
    ASSUME TypeOK, NEW w \in Writers, Proper(w), Succeeds(w) \/ Fails(w)
    PROVE  Wrote(w)
<1>1. PathOf(w) \in Path /\ DataOf(w) \in Contents /\ Tree(tree)
  BY WriterPaths DEF TypeOK
<1>2. CASE Succeeds(w)
  BY <1>1, <1>2, WrittenTree DEF Succeeds, Wrote
<1>3. CASE Fails(w)
  BY <1>1, <1>3, DamagedTree DEF Fails, Wrote
<1> QED BY <1>2, <1>3

LEMMA Success ==
    ASSUME TypeOK, NEW w \in Writers, Succeeds(w), job' = job
    PROVE  Holds(w)'
<1>1. PathOf(w) \in Path /\ DataOf(w) \in Contents /\ Tree(tree)
  BY WriterPaths DEF TypeOK
<1>2. PathOf(w) \in DOMAIN tree' /\ tree'[PathOf(w)] = DataOf(w)
  BY <1>1, WrittenTree DEF Succeeds
<1> QED BY <1>2, Rigid DEF Holds

\* What the directory made for the imports changes.
ImportsMade ==
    /\ job.imports # <<>>
    /\ CanMake(<<"imports">>) /\ tree' = Made(<<"imports">>)

Inv == TypeOK /\ ImportsInv /\ NamesInv

\* Every step leaves the tree, makes the directory of the imports, or is a write
\* of one of the writers, which stays where it belongs.
LEMMA StepWrites ==
    ASSUME Inv, Next
    PROVE  /\ job' = job /\ before' = before
           /\ tree' = tree \/ ImportsMade \/ \E w \in Writers : Wrote(w)
<1> USE DEF Inv
<1>1. CASE WriteSource
  <2> DEFINE w == <<"file", 0, k>>
  <2>1. k \in DOMAIN job.files /\ WriteNamed(w)
    BY <1>1 DEF WriteSource
  <2>2. SafeName(w) => w \in Writers /\ Proper(w)
    BY <2>1, ProperFile
  <2> HIDE DEF w
  <2> QED BY <2>1, <2>2, OneWrite DEF WriteNamed, Abort
<1>2. CASE MakeImports
  BY <1>2 DEF MakeImports, Abort, ImportsMade
<1>3. CASE WriteImport
  <2> DEFINE w == <<"import", 0, k>>
  <2>1. at = "imports" /\ k \in DOMAIN job.imports /\ WriteNamed(w)
    BY <1>3 DEF WriteImport
  <2>2. w \in Writers /\ Proper(w)
    BY <2>1, ProperImport
  <2> HIDE DEF w
  <2> QED BY <2>1, <2>2, OneWrite DEF WriteNamed, Abort
<1>4. CASE WriteManifest
  <2>1. job.manifest # NoManifest => ManifestWriter \in Writers /\ Proper(ManifestWriter)
    BY ProperManifest
  <2> QED BY <1>4, <2>1, OneWrite DEF WriteManifest, Abort
<1>5. CASE CheckNames
  BY <1>5 DEF CheckNames, SkipReference
<1>6. CASE WriteReferenceFile
  <2> DEFINE w == <<"ref", r, k>>
  <2>1. at = "refFiles" /\ r \in DOMAIN job.refs /\ k \in DOMAIN job.refs[r].files
    BY <1>6 DEF WriteReferenceFile, TypeOK
  <2>2. w \in RefWriters(r)
    BY <2>1 DEF RefWriters
  <2>3. w \in Writers /\ Proper(w)
    BY <2>1, <2>2, ProperRef DEF NamesInv
  <2>4. tree' = tree \/ Succeeds(w) \/ Fails(w)
    BY <1>6 DEF WriteReferenceFile
  <2>5. job' = job /\ before' = before
    BY <1>6 DEF WriteReferenceFile, SkipReference
  <2> HIDE DEF w
  <2> QED BY <2>3, <2>4, <2>5, OneWrite
<1>7. CASE FinishReference
  <2> DEFINE w == RefManifestWriter(r)
  <2>1. r \in DOMAIN job.refs
    BY <1>7 DEF FinishReference, TypeOK
  <2>2. job.refs[r].manifest # NoManifest => w \in Writers /\ Proper(w)
    BY <2>1, ProperRefManifest
  <2>3. tree' = tree \/ (job.refs[r].manifest # NoManifest /\ (Succeeds(w) \/ Fails(w)))
    BY <1>7 DEF FinishReference
  <2>4. job' = job /\ before' = before
    BY <1>7 DEF FinishReference, SkipReference
  <2> HIDE DEF w
  <2> QED BY <2>2, <2>3, <2>4, OneWrite
<1>8. CASE WriteIndex
  BY <1>8, ProperIndex, OneWrite DEF WriteIndex, Abort
<1> QED BY <1>1, <1>2, <1>3, <1>4, <1>5, <1>6, <1>7, <1>8 DEF Next

LEMMA TreeGrows ==
    ASSUME Inv, Next
    PROVE  /\ Tree(tree') /\ (Rooted(tree) => Rooted(tree'))
           /\ DOMAIN tree \subseteq DOMAIN tree'
           /\ \A x \in DOMAIN tree : tree[x] = Dir => tree'[x] = Dir
<1>1. Tree(tree)
  BY DEF Inv, TypeOK
<1>2. CASE tree' = tree
  BY <1>1, <1>2
<1>3. CASE ImportsMade
  <2>1. <<"imports">> \in Path
    BY SegmentsAssumption DEF Path
  <2> QED BY <1>1, <1>3, <2>1, MadeTree DEF ImportsMade
<1>4. CASE \E w \in Writers : Wrote(w)
  BY <1>4 DEF Wrote, Effect
<1> QED BY <1>2, <1>3, <1>4, StepWrites

-----------------------------------------------------------------------------
(* Types, and what the writers rely on.                                    *)

LEMMA InitInv == Init => Inv
<1> SUFFICES ASSUME Init PROVE Inv
  OBVIOUS
<1>1. PICK j \in Jobs : job = j.job /\ tree = j.tree
  BY DEF Init
<1>2. j.job \in Job /\ Tree(j.tree)
  BY JobsAssumption
<1>3. job.refs \in Seq(Ref)
  BY <1>1, <1>2 DEF Job
<1>4. Len(job.refs) \in Nat
  BY <1>3
<1>5. r \in 1..Len(job.refs) + 1
  BY <1>4 DEF Init
<1>6. index \in Seq(Nat) /\ DOMAIN index = {}
  BY DEF Init
<1>7. TypeOK
  BY <1>1, <1>2, <1>5, <1>6 DEF Init, TypeOK
<1> QED BY <1>6, <1>7 DEF Init, Inv, ImportsInv, NamesInv

LEMMA NextRef ==
    ASSUME TypeOK, NEW q \in Nat, q \in DOMAIN job.refs
    PROVE  q + 1 \in 1..Len(job.refs) + 1
<1>1. job.refs \in Seq(Ref)
  BY JobTypes
<1> QED BY <1>1

LEMMA Indexed ==
    ASSUME TypeOK, r \in DOMAIN job.refs
    PROVE  LET i == Append(index, r) IN
           /\ i \in Seq(Nat) /\ DOMAIN i = DOMAIN index \cup {Len(index) + 1}
           /\ i[Len(index) + 1] = r /\ \A n \in DOMAIN index : i[n] = index[n]
<1>1. r \in Nat /\ index \in Seq(Nat)
  BY JobTypes DEF TypeOK
<1> QED BY <1>1

LEMMA NextTypeOK == Inv /\ [Next]_vars => TypeOK'
<1> SUFFICES ASSUME Inv, [Next]_vars PROVE TypeOK'
  OBVIOUS
<1> USE DEF Inv
<1>1. CASE UNCHANGED vars
  BY <1>1 DEF vars, TypeOK, Tree, Rooted
<1>2. CASE Next
  <2>1. job' = job /\ before' = before
    BY <1>2, StepWrites
  <2>2. Tree(tree') /\ (Rooted(tree) => Rooted(tree'))
    BY <1>2, TreeGrows
  <2>3. Tree(before)' /\ (Rooted(before) => Rooted(tree))'
    BY <2>1, <2>2 DEF TypeOK, Tree, Rooted
  <2>4. (\E j \in Jobs : job = j.job /\ before = j.tree)'
    BY <2>1 DEF TypeOK
  <2>5. primary' \in {primary, tree'}
    BY <1>2 DEF Next, WriteSource, MakeImports, WriteImport, WriteNamed, WriteManifest,
                CheckNames, WriteReferenceFile, FinishReference, WriteIndex, Abort,
                SkipReference
  <2>6. Tree(primary)'
    BY <2>2, <2>5 DEF TypeOK, Tree
  <2>7. k \in Nat \ {0} /\ r \in Nat /\ r \in 1..Len(job.refs) + 1 /\ Len(job.refs) \in Nat
    BY JobTypes DEF TypeOK
  <2>8. /\ at' \in {"files", "imports", "names", "refFiles", "done", "failed"}
        /\ k' \in Nat \ {0}
        /\ r' = r \/ (r \in DOMAIN job.refs /\ r' = r + 1)
        /\ at' = "refFiles" => r' = r /\ r \in DOMAIN job.refs
        /\ index' = index \/ (r' = r + 1 /\ r \in DOMAIN job.refs /\ index' = Append(index, r))
    <3> USE <2>7
    <3>1. CASE WriteSource
      BY <3>1 DEF WriteSource, WriteNamed, Abort
    <3>2. CASE MakeImports
      BY <3>2 DEF MakeImports, Abort
    <3>3. CASE WriteImport
      BY <3>3 DEF WriteImport, WriteNamed, Abort
    <3>4. CASE WriteManifest
      BY <3>4 DEF WriteManifest, Abort
    <3>5. CASE CheckNames
      BY <3>5 DEF CheckNames, SkipReference
    <3>6. CASE WriteReferenceFile
      BY <3>6 DEF WriteReferenceFile, SkipReference, TypeOK
    <3>7. CASE FinishReference
      BY <3>7 DEF FinishReference, SkipReference, TypeOK
    <3>8. CASE WriteIndex
      BY <3>8 DEF WriteIndex, Abort
    <3> QED BY <1>2, <3>1, <3>2, <3>3, <3>4, <3>5, <3>6, <3>7, <3>8 DEF Next
  <2>9. r' \in 1..Len(job'.refs) + 1
    BY <2>1, <2>7, <2>8, NextRef
  <2>10. index' \in Seq(Nat) /\ \A n \in DOMAIN index' : index'[n] \in 1..r' - 1
    <3>1. index \in Seq(Nat) /\ \A n \in DOMAIN index : index[n] \in 1..r - 1
      BY DEF TypeOK
    <3>2. CASE index' = index
      BY <3>1, <3>2, <2>7, <2>8
    <3>3. CASE r' = r + 1 /\ r \in DOMAIN job.refs /\ index' = Append(index, r)
      <4>1. r \in 1..r' - 1 /\ \A n \in DOMAIN index : index[n] \in 1..r' - 1
        BY <3>1, <3>3, <2>7
      <4>2. /\ index' \in Seq(Nat) /\ DOMAIN index' = DOMAIN index \cup {Len(index) + 1}
            /\ index'[Len(index) + 1] = r /\ \A n \in DOMAIN index : index'[n] = index[n]
        BY <3>3, Indexed
      <4> QED BY <4>1, <4>2
    <3> QED BY <3>2, <3>3, <2>8
  <2> QED BY <2>1, <2>2, <2>3, <2>4, <2>6, <2>8, <2>9, <2>10 DEF TypeOK
<1> QED BY <1>1, <1>2

LEMMA NextImportsInv == Inv /\ [Next]_vars => ImportsInv'
<1> SUFFICES ASSUME Inv, [Next]_vars, at' = "imports"
             PROVE  <<"imports">> \in DOMAIN tree' /\ tree'[<<"imports">>] = Dir
  BY DEF ImportsInv
<1>1. CASE UNCHANGED vars
  BY <1>1 DEF vars, Inv, ImportsInv
<1>2. CASE Next /\ at = "imports"
  BY <1>2, TreeGrows DEF Inv, ImportsInv
<1>3. CASE Next /\ at # "imports"
  <2>1. CanMake(<<"imports">>) /\ tree' = Made(<<"imports">>)
    BY <1>3 DEF Next, WriteSource, MakeImports, WriteImport, WriteNamed, WriteManifest,
                CheckNames, WriteReferenceFile, FinishReference, WriteIndex, Abort,
                SkipReference
  <2>2. <<"imports">> \in Path
    BY SegmentsAssumption DEF Path
  <2> QED BY <2>1, <2>2, MadeTree, PrefixesOfPath DEF Inv, TypeOK
<1> QED BY <1>1, <1>2, <1>3

LEMMA NextNamesInv == Inv /\ [Next]_vars => NamesInv'
<1> SUFFICES ASSUME Inv, [Next]_vars PROVE NamesInv'
  OBVIOUS
<1>1. CASE UNCHANGED vars
  <2>1. job' = job
    BY <1>1 DEF vars
  <2> QED BY <1>1, <2>1, Rigid DEF vars, Inv, NamesInv
<1>2. CASE Next
  <2>1. job' = job
    BY <1>2, StepWrites
  <2>2. at' = "refFiles" => r' = r /\ \A w \in RefWriters(r) : SafeRefName(w)
    BY <1>2 DEF Next, WriteSource, MakeImports, WriteImport, WriteNamed, WriteManifest,
                CheckNames, WriteReferenceFile, FinishReference, WriteIndex, Abort,
                SkipReference, Inv, NamesInv
  <2>3. \/ index' = index
        \/ at = "refFiles" /\ r \in DOMAIN job.refs /\ index' = Append(index, r)
    BY <1>2 DEF Next, WriteSource, MakeImports, WriteImport, WriteNamed, WriteManifest,
                CheckNames, WriteReferenceFile, FinishReference, WriteIndex, Abort,
                SkipReference, Inv, TypeOK
  <2>4. \A n \in DOMAIN index' : \A w \in RefWriters(index'[n]) : SafeRefName(w)
    <3>1. CASE index' = index
      BY <3>1 DEF Inv, NamesInv
    <3>2. CASE at = "refFiles" /\ r \in DOMAIN job.refs /\ index' = Append(index, r)
      BY <3>2, Indexed DEF Inv, NamesInv
    <3> QED BY <2>3, <3>1, <3>2
  <2> QED BY <2>1, <2>2, <2>4, Rigid DEF NamesInv
<1> QED BY <1>1, <1>2

LEMMA NextInv == Inv /\ [Next]_vars => Inv'
BY NextTypeOK, NextImportsInv, NextNamesInv DEF Inv

\* The types, at every moment of every unpack.
THEOREM OutputTreeTypeOK == Spec => []TypeOK
<1>1. Inv => TypeOK
  BY DEF Inv
<1> QED BY <1>1, InitInv, NextInv, PTL DEF Spec

-----------------------------------------------------------------------------
(* Nothing is lost, and nothing appears where it does not belong.          *)

LEMMA InitOwners == Init => EachPathIsItsOwners
BY DEF Init, EachPathIsItsOwners

\* The property of one path, as it is proved about the tree of the next state.
Owned(x) ==
    \/ x \in DOMAIN before /\ tree'[x] = before[x]
    \/ /\ ~Escapes(x)
       /\ \E w \in Writers :
              \/ /\ PathOf(w) = x /\ IsStrictPrefix(Home(w), x)
                 /\ tree'[x] \in {DataOf(w), Torn}
              \/ tree'[x] = Dir /\ (IsPrefix(x, Home(w)) \/ IsStrictPrefix(x, PathOf(w)))

LEMMA NextOwners == Inv /\ EachPathIsItsOwners /\ [Next]_vars => EachPathIsItsOwners'
<1> SUFFICES ASSUME Inv, EachPathIsItsOwners, [Next]_vars PROVE EachPathIsItsOwners'
  OBVIOUS
<1>1. job' = job /\ before' = before
  BY StepWrites DEF vars
<1>2. DOMAIN tree \subseteq DOMAIN tree'
  BY TreeGrows DEF vars
<1>3. ASSUME NEW x \in DOMAIN tree', x \in DOMAIN tree, tree'[x] = tree[x]
      PROVE  Owned(x)
  BY <1>3 DEF EachPathIsItsOwners, Owned
<1>4. ASSUME NEW x \in DOMAIN tree' PROVE Owned(x)
  <2>1. CASE tree' = tree
    BY <1>3, <1>4, <2>1
  <2>2. CASE ImportsMade
    <3> DEFINE w == <<"import", 0, 1>>
               d == <<"imports">>
    <3>1. job.imports # <<>> /\ CanMake(d) /\ tree' = Made(d)
      BY <2>2 DEF ImportsMade
    <3>2. w \in Writers /\ Home(w) = d
      <4>1. job.imports \in Seq(File)
        BY JobTypes DEF Inv
      <4>2. 1 \in DOMAIN job.imports
        BY <4>1, <3>1
      <4> QED BY <4>2 DEF Writers, ImportWriters, Home
    <3>3. CASE x \in DOMAIN tree
      <4>1. tree'[x] = tree[x]
        BY <3>1, <3>3 DEF Made
      <4> QED BY <1>3, <3>3, <4>1
    <3>4. CASE x \notin DOMAIN tree
      <4>1. x \in Prefixes(d) /\ tree'[x] = Dir
        BY <3>1, <3>4 DEF Made
      <4>2. PICK l \in 0..1 : x = SubSeq(d, 1, l)
        BY <4>1 DEF Prefixes
      <4>3. x = <<>> \/ x = d
        <5>1. \A e \in Path : Len(e) = 1 => SubSeq(e, 1, 0) = <<>> /\ SubSeq(e, 1, 1) = e
          BY DEF Path
        <5>2. d \in Path /\ Len(d) = 1
          BY SegmentsAssumption DEF Path
        <5>3. l = 0 \/ l = 1
          OBVIOUS
        <5> QED BY <4>2, <5>1, <5>2, <5>3
      <4>4. ~Escapes(x)
        BY <4>3 DEF Escapes
      <4>5. IsPrefix(x, d)
        <5>1. CASE x = <<>>
          <6>1. Len(x) = 0 /\ Len(d) = 1 /\ SubSeq(x, 1, 0) = <<>> /\ SubSeq(d, 1, 0) = <<>>
            BY <5>1
          <6> QED BY <6>1 DEF IsPrefix
        <5>2. CASE x = d
          <6>1. Len(d) = 1
            OBVIOUS
          <6> QED BY <5>2, <6>1 DEF IsPrefix
        <5> QED BY <4>3, <5>1, <5>2
      <4> QED BY <3>2, <4>1, <4>4, <4>5 DEF Owned
    <3> QED BY <3>3, <3>4
  <2>3. ASSUME NEW w \in Writers, Wrote(w) PROVE Owned(x)
    <3> DEFINE p == PathOf(w)
    <3>1. /\ p \in Path /\ ~Escapes(p)
          /\ IsStrictPrefix(Home(w), p) \/ (p \in DOMAIN tree /\ tree[p] = Dir)
      BY <2>3, WriterPaths DEF Inv, Wrote, Proper
    <3>2. \/ x \in DOMAIN tree /\ tree'[x] = tree[x]
          \/ x = p /\ tree'[x] \in {DataOf(w), Torn} /\ (x \in DOMAIN tree => tree[x] # Dir)
          \/ tree'[x] = Dir /\ x \in Prefixes(Parent(p)) /\ p # <<>>
      BY <1>4, <2>3 DEF Wrote, Effect
    <3>3. CASE x = p /\ tree'[x] \in {DataOf(w), Torn} /\ (x \in DOMAIN tree => tree[x] # Dir)
      BY <3>1, <3>3 DEF Owned
    <3>4. CASE tree'[x] = Dir /\ x \in Prefixes(Parent(p)) /\ p # <<>>
      <4>1. x \in Path /\ IsStrictPrefix(x, p)
        BY <3>1, <3>4, PrefixOfParent
      <4>2. ~Escapes(x)
        <5>1. x # <<>> => p # <<>> /\ p[1] = x[1]
          BY <3>1, <4>1, StrictPrefix
        <5> QED BY <3>1, <5>1 DEF Escapes
      <4> QED BY <3>4, <4>1, <4>2 DEF Owned
    <3> QED BY <1>3, <1>4, <3>2, <3>3, <3>4
  <2> QED BY <1>2, <2>1, <2>2, <2>3, StepWrites DEF vars
<1>5. DOMAIN before' \subseteq DOMAIN tree'
  BY <1>1, <1>2 DEF EachPathIsItsOwners
<1> QED BY <1>1, <1>4, <1>5, Rigid DEF Owned, EachPathIsItsOwners

\* Whatever the bundles, their names and the directory: what was there stays or is
\* replaced by a file that belongs at its path, and nothing escapes.
THEOREM OutputTreeEachPathIsItsOwners == Spec => []EachPathIsItsOwners
BY InitInv, NextInv, InitOwners, NextOwners, PTL DEF Spec

-----------------------------------------------------------------------------
(* References do not touch each other.                                     *)

\* Two directories of the same depth above one path are one directory.
LEMMA UnderOne ==
    ASSUME NEW d \in Path, NEW e \in Path, Len(d) = Len(e),
           NEW p \in Path, IsStrictPrefix(d, p), IsStrictPrefix(e, p)
    PROVE  d = e
BY StrictPrefix

LEMMA PrefixTransitive ==
    ASSUME NEW d \in Path, NEW x \in Path, NEW p \in Path,
           IsStrictPrefix(d, x), IsStrictPrefix(x, p)
    PROVE  IsStrictPrefix(d, p)
<1>1. /\ Len(d) < Len(x) /\ SubSeq(x, 1, Len(d)) = d
      /\ Len(x) < Len(p) /\ SubSeq(p, 1, Len(x)) = x
  BY StrictPrefix
<1>2. Len(d) \in Nat /\ Len(x) \in Nat /\ Len(p) \in Nat
  BY DEF Path
<1>3. SubSeq(SubSeq(p, 1, Len(x)), 1, Len(d)) = SubSeq(p, 1, Len(d))
  BY <1>1, <1>2 DEF Path
<1>4. SubSeq(d, 1, Len(d)) = d
  BY DEF Path
<1> QED BY <1>1, <1>2, <1>3, <1>4 DEF IsStrictPrefix, IsPrefix

\* A write elsewhere changes nothing below a directory.
LEMMA WroteElsewhere ==
    ASSUME Inv, NEW w \in Writers, Wrote(w), NEW d \in Path, ~IsStrictPrefix(d, PathOf(w)),
           NEW x \in DOMAIN tree', IsStrictPrefix(d, x)
    PROVE  x \in DOMAIN tree /\ tree'[x] = tree[x]
<1> DEFINE p == PathOf(w)
<1>1. p \in Path
  BY WriterPaths DEF Inv
<1>2. \/ x \in DOMAIN tree /\ tree'[x] = tree[x]
      \/ x = p
      \/ x \in Prefixes(Parent(p)) /\ p # <<>>
  BY DEF Wrote, Effect
<1>3. CASE x \in Prefixes(Parent(p)) /\ p # <<>>
  <2>1. x \in Path /\ IsStrictPrefix(x, p)
    BY <1>1, <1>3, PrefixOfParent
  <2> QED BY <1>1, <2>1, PrefixTransitive
<1> QED BY <1>2, <1>3

LEMMA IndexOutside ==
    ASSUME TypeOK, NEW q \in DOMAIN job.refs
    PROVE  ~IsStrictPrefix(RefDir(q), PathOf(IndexWriter))
<1> SUFFICES ASSUME IsStrictPrefix(RefDir(q), PathOf(IndexWriter)) PROVE FALSE
  OBVIOUS
<1>1. PathOf(IndexWriter) \in Path
  BY ProperIndex, WriterPaths
<1>2. 4 < Len(PathOf(IndexWriter))
  BY <1>1, StrictPrefix, RefDirs
<1>3. PathOf(IndexWriter) = <<"references", "index.json">>
  BY DEF PathOf, IndexWriter
<1> QED BY <1>2, <1>3

LEMMA InitRefused == Init => RefusedLeavesNothing
BY DEF Init, RefusedLeavesNothing

Refused(q) == \E w \in RefWriters(q) : ~IsStrictPrefix(RefDir(q), PathOf(w))

\* After the primary bundle, whatever a step writes is not below the directory of
\* a refused reference.
LEMMA WritesNotRefused ==
    ASSUME Inv, Next, at \in {"names", "refFiles", "done"}, NEW q \in DOMAIN job.refs, Refused(q)
    PROVE  /\ primary' = primary
           /\ tree' = tree \/ \E w \in Writers : Wrote(w) /\ ~IsStrictPrefix(RefDir(q), PathOf(w))
<1>1. CASE CheckNames
  BY <1>1 DEF CheckNames, SkipReference
<1>2. ASSUME at = "refFiles" PROVE r \in DOMAIN job.refs /\ q # r
  BY <1>2 DEF Inv, TypeOK, NamesInv, Refused, SafeRefName, RefWriters
<1>3. ASSUME at = "refFiles", NEW w \in Writers, IsStrictPrefix(RefDir(r), PathOf(w))
      PROVE  ~IsStrictPrefix(RefDir(q), PathOf(w))
  <2>1. r \in DOMAIN job.refs /\ q # r
    BY <1>2, <1>3
  <2>2. RefDir(q) \in Path /\ RefDir(r) \in Path /\ Len(RefDir(q)) = 4 /\ Len(RefDir(r)) = 4
    BY <2>1, RefDirs DEF Inv
  <2>3. RefDir(q) # RefDir(r)
    BY <2>1, RefDirs DEF Inv
  <2>4. PathOf(w) \in Path
    BY <1>3, WriterPaths DEF Inv
  <2> QED BY <1>3, <2>2, <2>3, <2>4, UnderOne
<1>4. CASE WriteReferenceFile
  <2> DEFINE w == <<"ref", r, k>>
  <2>1. at = "refFiles" /\ k \in DOMAIN job.refs[r].files
    BY <1>4 DEF WriteReferenceFile
  <2>2. w \in RefWriters(r) /\ r \in DOMAIN job.refs
    BY <1>2, <2>1 DEF RefWriters
  <2>3. w \in Writers /\ Proper(w) /\ IsStrictPrefix(RefDir(r), PathOf(w))
    BY <2>1, <2>2, ProperRef DEF Inv, NamesInv
  <2>4. tree' = tree \/ Succeeds(w) \/ Fails(w)
    BY <1>4 DEF WriteReferenceFile
  <2>5. primary' = primary
    BY <1>4 DEF WriteReferenceFile, SkipReference
  <2> HIDE DEF w
  <2> QED BY <1>3, <2>1, <2>3, <2>4, <2>5, OneWrite DEF Inv
<1>5. CASE FinishReference
  <2> DEFINE w == RefManifestWriter(r)
  <2>1. at = "refFiles" /\ r \in DOMAIN job.refs
    BY <1>2, <1>5 DEF FinishReference
  <2>2. job.refs[r].manifest # NoManifest =>
            w \in Writers /\ Proper(w) /\ IsStrictPrefix(RefDir(r), PathOf(w))
    BY <2>1, ProperRefManifest DEF Inv
  <2>3. tree' = tree \/ (job.refs[r].manifest # NoManifest /\ (Succeeds(w) \/ Fails(w)))
    BY <1>5 DEF FinishReference
  <2>4. primary' = primary
    BY <1>5 DEF FinishReference, SkipReference
  <2> HIDE DEF w
  <2> QED BY <1>3, <2>1, <2>2, <2>3, <2>4, OneWrite DEF Inv
<1>6. CASE WriteIndex
  BY <1>6, ProperIndex, IndexOutside, OneWrite DEF WriteIndex, Abort, Inv
<1> QED BY <1>1, <1>4, <1>5, <1>6
        DEF Next, WriteSource, MakeImports, WriteImport, WriteManifest

LEMMA NextRefused == Inv /\ RefusedLeavesNothing /\ [Next]_vars => RefusedLeavesNothing'
<1> SUFFICES ASSUME Inv, RefusedLeavesNothing, [Next]_vars
             PROVE  RefusedLeavesNothing'
  OBVIOUS
<1>0. job' = job
  BY StepWrites DEF vars
<1> SUFFICES ASSUME at' \in {"names", "refFiles", "done"},
                    NEW q \in DOMAIN job.refs, Refused(q),
                    NEW x \in DOMAIN tree', IsStrictPrefix(RefDir(q), x)
             PROVE  x \in DOMAIN primary' /\ tree'[x] = primary'[x]
  BY <1>0, Rigid DEF RefusedLeavesNothing, Refused
<1>1. CASE UNCHANGED vars
  BY <1>1 DEF vars, RefusedLeavesNothing, Refused
<1>2. CASE Next /\ at \in {"names", "refFiles", "done"}
  <2>1. /\ primary' = primary
        /\ tree' = tree \/ \E w \in Writers : Wrote(w) /\ ~IsStrictPrefix(RefDir(q), PathOf(w))
    BY <1>2, WritesNotRefused
  <2>2. RefDir(q) \in Path
    BY RefDirs DEF Inv
  <2>3. x \in DOMAIN tree /\ tree'[x] = tree[x]
    BY <2>1, <2>2, WroteElsewhere
  <2> QED BY <1>2, <2>1, <2>3 DEF RefusedLeavesNothing, Refused
<1>3. CASE Next /\ at \notin {"names", "refFiles", "done"}
  <2>1. primary' = tree'
    BY <1>3 DEF Next, WriteSource, MakeImports, WriteImport, WriteNamed, WriteManifest,
                CheckNames, WriteReferenceFile, FinishReference, WriteIndex, Abort,
                SkipReference
  <2> QED BY <2>1
<1> QED BY <1>1, <1>2, <1>3

\* A reference one of whose names is refused leaves nothing below its directory,
\* whatever else the bundles name.
THEOREM OutputTreeRefusedLeavesNothing == Spec => []RefusedLeavesNothing
BY InitInv, NextInv, InitRefused, NextRefused, PTL DEF Spec

-----------------------------------------------------------------------------
(* What was written is there at the end.                                   *)

Kept(w) == Alone(w, Writers) => Holds(w)
KeptIn(w, q) == w \notin RefWriters(q) \/ Alone(w, BundleWriters(q)) => Holds(w)

PrimaryKept ==
    /\ \A w \in FileWriters \cup ImportWriters : Kept(w)
    /\ \A w \in ManifestWriters : Holds(w)

\* How far the unpack is, and what holds already.
Progress ==
    /\ at \in {"files", "imports"} => index = <<>>
    /\ at = "files" => \A n \in DOMAIN job.files : n < k => Kept(<<"file", 0, n>>)
    /\ at = "imports" => /\ \A w \in FileWriters : Kept(w)
                         /\ \A n \in DOMAIN job.imports : n < k => Kept(<<"import", 0, n>>)
    /\ at \in {"names", "refFiles", "done"} => PrimaryKept /\ IndexedIsWhole
    /\ at = "refFiles" =>
           \A q \in DOMAIN job.refs : q = r =>
               \A n \in DOMAIN job.refs[q].files : n < k => KeptIn(<<"ref", q, n>>, q)
    /\ at = "done" /\ index # <<>> => Holds(IndexWriter)

LEMMA ProgressIsEnough == Progress => WrittenIsWhole
<1> SUFFICES ASSUME Progress, at = "done" PROVE PrimaryIsWhole
  BY DEF Progress, WrittenIsWhole
<1> QED BY DEF Progress, PrimaryKept, PrimaryIsWhole, Kept

LEMMA InitProgress == Init => Progress
<1> SUFFICES ASSUME Init PROVE Progress
  OBVIOUS
<1>1. Inv
  BY InitInv
<1>2. \A n \in DOMAIN job.files : n \in Nat \ {0}
  BY <1>1, JobTypes DEF Inv
<1>3. at = "files" /\ k = 1 /\ index = <<>>
  BY DEF Init
<1> QED BY <1>2, <1>3 DEF Progress

\* A file holds its content until another writer has its path.
LEMMA Stays ==
    ASSUME Inv, job' = job, NEW w, Holds(w),
           \/ tree' = tree \/ ImportsMade
           \/ \E v \in Writers : Wrote(v) /\ PathOf(v) # PathOf(w)
    PROVE  Holds(w)'
<1> DEFINE x == PathOf(w)
<1>1. x \in DOMAIN tree /\ tree[x] = DataOf(w)
  BY DEF Holds
<1>2. x \in DOMAIN tree' /\ tree'[x] = tree[x]
  <2>1. CASE tree' = tree
    BY <1>1, <2>1
  <2>2. CASE ImportsMade
    BY <1>1, <2>2 DEF ImportsMade, Made
  <2>3. CASE \E v \in Writers : Wrote(v) /\ PathOf(v) # x
    BY <1>1, <2>3 DEF Wrote, Effect
  <2> QED BY <2>1, <2>2, <2>3
<1> QED BY <1>1, <1>2, Rigid DEF Holds

LEMMA Kinds ==
    /\ \A w \in FileWriters : w[1] = "file" /\ w \in Writers
    /\ \A w \in ImportWriters : w[1] = "import" /\ w \in Writers
    /\ \A w \in ManifestWriters : w = ManifestWriter /\ w \in Writers
    /\ ManifestWriter[1] = "manifest" /\ IndexWriter[1] = "index"
    /\ \A q : \A w \in BundleWriters(q) : w[1] \in {"ref", "refManifest"}
<1>1. \A w \in FileWriters : w[1] = "file" /\ w \in Writers
  BY DEF FileWriters, Writers
<1>2. \A w \in ImportWriters : w[1] = "import" /\ w \in Writers
  BY DEF ImportWriters, Writers
<1>3. \A w \in ManifestWriters : w = ManifestWriter /\ w \in Writers
  BY DEF ManifestWriters, Writers
<1>4. ManifestWriter[1] = "manifest" /\ IndexWriter[1] = "index"
  BY DEF ManifestWriter, IndexWriter
<1>5. \A q : \A w \in BundleWriters(q) : w[1] \in {"ref", "refManifest"}
  BY DEF BundleWriters, RefWriters, RefManifestWriter
<1> QED BY <1>1, <1>2, <1>3, <1>4, <1>5

\* What is kept stays kept when another writer writes.
LEMMA KeptStays ==
    ASSUME Inv, job' = job, NEW w \in Writers, Kept(w),
           tree' = tree \/ ImportsMade \/ \E v \in Writers : Wrote(v) /\ v # w
    PROVE  Kept(w)'
<1>1. SUFFICES ASSUME Alone(w, Writers) PROVE Holds(w)'
  BY Rigid DEF Kept, Alone
<1>2. Holds(w)
  BY <1>1 DEF Kept
<1>3. \A v \in Writers : v # w => PathOf(v) # PathOf(w)
  BY <1>1 DEF Alone
<1> QED BY <1>2, <1>3, Stays

LEMMA IndexedRef ==
    ASSUME TypeOK, NEW n \in DOMAIN index
    PROVE  index[n] \in DOMAIN job.refs /\ index[n] # r
<1>1. job.refs \in Seq(Ref) /\ r \in 1..Len(job.refs) + 1 /\ index[n] \in 1..r - 1
  BY JobTypes DEF TypeOK
<1> QED BY <1>1

\* Where the writers of an indexed reference write.
LEMMA IndexedBelow ==
    ASSUME Inv, NEW n \in DOMAIN index, NEW w \in BundleWriters(index[n])
    PROVE  w \in Writers /\ IsStrictPrefix(RefDir(index[n]), PathOf(w))
<1> DEFINE q == index[n]
<1>1. q \in DOMAIN job.refs
  BY IndexedRef DEF Inv
<1>2. CASE w \in RefWriters(q)
  BY <1>1, <1>2, ProperRef DEF Inv, NamesInv
<1>3. CASE w = RefManifestWriter(q) /\ job.refs[q].manifest # NoManifest
  BY <1>1, <1>3, ProperRefManifest DEF Inv
<1> QED BY <1>2, <1>3 DEF BundleWriters

\* The references' writers and the index disturb neither the primary bundle nor the
\* references before.
LEMMA LaterWrites ==
    ASSUME Inv, Progress, at \in {"names", "refFiles", "done"}, job' = job,
           \/ tree' = tree
           \/ \E v \in Writers :
                 /\ Wrote(v)
                 /\ \/ v = IndexWriter
                    \/ /\ r \in DOMAIN job.refs /\ v \in BundleWriters(r)
                       /\ IsStrictPrefix(RefDir(r), PathOf(v))
    PROVE  /\ PrimaryKept'
           /\ \A q \in {index[n] : n \in DOMAIN index} : \A w \in BundleWriters(q) : KeptIn(w, q)'
<1> DEFINE Later(v) == \/ v = IndexWriter
                       \/ /\ r \in DOMAIN job.refs /\ v \in BundleWriters(r)
                          /\ IsStrictPrefix(RefDir(r), PathOf(v))
<1>1. ASSUME NEW v \in Writers, Later(v)
      PROVE  v \notin FileWriters \cup ImportWriters /\ PathOf(v) # PathOf(ManifestWriter)
  <2>1. v[1] \in {"index", "ref", "refManifest"}
    BY <1>1, Kinds
  <2>2. PathOf(v) # <<"bundle.json">>
    <3>1. CASE v = IndexWriter
      BY <3>1 DEF PathOf, IndexWriter
    <3>2. CASE r \in DOMAIN job.refs /\ IsStrictPrefix(RefDir(r), PathOf(v))
      <4>1. PathOf(v) \in Path /\ RefDir(r) \in Path /\ Len(RefDir(r)) = 4
        BY <3>2, WriterPaths, RefDirs DEF Inv
      <4>2. 4 < Len(PathOf(v))
        BY <3>2, <4>1, StrictPrefix
      <4>3. ASSUME PathOf(v) = <<"bundle.json">> PROVE FALSE
        BY <4>2, <4>3
      <4> QED BY <4>3
    <3> QED BY <1>1, <3>1, <3>2
  <2> QED BY <2>1, <2>2, Kinds DEF PathOf, ManifestWriter
<1>2. PrimaryKept
  BY DEF Progress
<1>3. ASSUME NEW w \in FileWriters \cup ImportWriters PROVE Kept(w)'
  BY <1>1, <1>2, <1>3, KeptStays, Kinds DEF PrimaryKept
<1>4. ASSUME NEW w \in ManifestWriters PROVE Holds(w)'
  BY <1>1, <1>2, <1>4, Stays, Kinds DEF PrimaryKept
<1>5. PrimaryKept'
  BY <1>3, <1>4, Rigid DEF PrimaryKept
<1>6. ASSUME NEW q \in {index[n] : n \in DOMAIN index}, NEW w \in BundleWriters(q)
      PROVE  KeptIn(w, q)'
  <2>0. PICK n \in DOMAIN index : q = index[n]
    OBVIOUS
  <2>1. q \in DOMAIN job.refs /\ q # r
    BY <2>0, IndexedRef DEF Inv
  <2>2. w \in Writers /\ IsStrictPrefix(RefDir(q), PathOf(w)) /\ PathOf(w) \in Path
    BY <2>0, IndexedBelow, WriterPaths DEF Inv
  <2>3. ASSUME NEW v \in Writers, Later(v) PROVE PathOf(v) # PathOf(w)
    <3>1. CASE v = IndexWriter
      BY <2>1, <2>2, <3>1, IndexOutside DEF Inv
    <3>2. CASE r \in DOMAIN job.refs /\ IsStrictPrefix(RefDir(r), PathOf(v))
      <4>1. RefDir(q) \in Path /\ RefDir(r) \in Path /\ Len(RefDir(q)) = Len(RefDir(r))
        BY <2>1, <3>2, RefDirs DEF Inv
      <4>2. RefDir(q) # RefDir(r)
        BY <2>1, <3>2, RefDirs DEF Inv
      <4> QED BY <2>2, <3>2, <4>1, <4>2, UnderOne
    <3> QED BY <2>3, <3>1, <3>2
  <2>4. KeptIn(w, q)
    BY <2>0 DEF Progress, IndexedIsWhole, KeptIn
  <2>5. Holds(w) => Holds(w)'
    BY <2>3, Stays
  <2> QED BY <2>4, <2>5, Rigid DEF KeptIn, Alone
<1> QED BY <1>5, <1>6

LEMMA IndexedNext ==
    ASSUME job' = job,
           \A q \in {index'[n] : n \in DOMAIN index'} : \A w \in BundleWriters(q) : KeptIn(w, q)'
    PROVE  IndexedIsWhole'
<1> SUFFICES ASSUME NEW n \in DOMAIN index', NEW q, q = index'[n],
                    NEW w \in BundleWriters(q),
                    w \notin RefWriters(q) \/ Alone(w, BundleWriters(q))'
             PROVE  Holds(w)'
  BY Rigid DEF IndexedIsWhole, BundleWriters, RefWriters, RefManifestWriter, Alone
<1>1. KeptIn(w, q)'
  OBVIOUS
<1> QED BY <1>1, Rigid DEF KeptIn

LEMMA NextProgress == Inv /\ Progress /\ [Next]_vars => Progress'
<1> SUFFICES ASSUME Inv, Progress, [Next]_vars PROVE Progress'
  OBVIOUS
<1>1. job' = job
  BY StepWrites DEF vars
<1>2. /\ job.files \in Seq(File) /\ job.imports \in Seq(File) /\ k \in Nat \ {0}
      /\ \A q \in DOMAIN job.refs : job.refs[q].files \in Seq(File)
  BY JobTypes DEF Inv, TypeOK
<1>3. CASE UNCHANGED vars
  <2>1. \A w : Holds(w) => Holds(w)'
    BY <1>3, <1>1, Rigid DEF Holds, vars
  <2>2. \A w : (Kept(w) => Kept(w)') /\ \A q : KeptIn(w, q) => KeptIn(w, q)'
    BY <1>1, <2>1, Rigid DEF Kept, KeptIn, Alone
  <2>3. PrimaryKept => PrimaryKept'
    BY <1>1, <2>1, <2>2, Rigid DEF PrimaryKept
  <2>4. IndexedIsWhole => IndexedIsWhole'
    BY <1>1, <1>3, <2>2, IndexedNext DEF IndexedIsWhole, KeptIn, vars
  <2> QED BY <1>1, <1>3, <2>1, <2>2, <2>3, <2>4, Rigid DEF Progress, vars
<1>4. CASE WriteSource
  <2> SUFFICES ASSUME at' # "failed" PROVE Progress'
    BY DEF Progress
  <2>0. PICK i : i = k
    OBVIOUS
  <2> DEFINE v == <<"file", 0, i>>
  <2>1. /\ at = "files" /\ at' = "files" /\ i \in DOMAIN job.files /\ k' = k + 1
        /\ index' = index /\ SafeName(v) /\ Succeeds(v)
    BY <1>4, <2>0 DEF WriteSource, WriteNamed, Abort
  <2>2. v \in Writers /\ Proper(v)
    BY <2>1, ProperFile DEF Inv
  <2>3. Wrote(v) /\ Holds(v)'
    <3> HIDE DEF v
    <3> QED BY <1>1, <2>1, <2>2, OneWrite, Success DEF Inv
  <2>4. ASSUME NEW n \in DOMAIN job.files, n < k + 1 PROVE Kept(<<"file", 0, n>>)'
    <3> DEFINE w == <<"file", 0, n>>
    <3>1. CASE n = i
      BY <2>3, <3>1 DEF Kept
    <3>2. CASE n # i
      <4>1. n < k
        BY <1>2, <2>0, <2>4, <3>2
      <4>2. Kept(w) /\ w \in Writers /\ v # w
        BY <2>1, <3>2, <4>1 DEF Progress, Writers, FileWriters
      <4> HIDE DEF v, w
      <4>3. Kept(w)'
        BY <1>1, <2>2, <2>3, <4>2, KeptStays
      <4> QED BY <4>3 DEF w
    <3> QED BY <3>1, <3>2
  <2> QED BY <1>1, <2>1, <2>4 DEF Progress
<1>5. CASE MakeImports
  <2> SUFFICES ASSUME at' # "failed" PROVE Progress'
    BY DEF Progress
  <2>1. /\ at = "files" /\ at' = "imports" /\ k \notin DOMAIN job.files /\ k' = 1
        /\ index' = index /\ ImportsMade
    BY <1>5 DEF MakeImports, Abort, ImportsMade
  <2>2. ASSUME NEW w \in FileWriters PROVE Kept(w)'
    <3>1. PICK n \in DOMAIN job.files : w = <<"file", 0, n>>
      BY <2>2 DEF FileWriters
    <3>2. n < k
      BY <1>2, <2>1
    <3>3. Kept(w) /\ w \in Writers
      BY <2>1, <2>2, <3>1, <3>2, Kinds DEF Progress
    <3> QED BY <1>1, <2>1, <3>3, KeptStays
  <2>3. \A n \in DOMAIN job.imports : ~(n < 1)
    BY <1>2
  <2> QED BY <1>1, <2>1, <2>2, <2>3, Rigid DEF Progress
<1>6. CASE WriteImport
  <2> SUFFICES ASSUME at' # "failed" PROVE Progress'
    BY DEF Progress
  <2>0. PICK i : i = k
    OBVIOUS
  <2> DEFINE v == <<"import", 0, i>>
  <2>1. /\ at = "imports" /\ at' = "imports" /\ i \in DOMAIN job.imports /\ k' = k + 1
        /\ index' = index /\ Succeeds(v)
    BY <1>6, <2>0 DEF WriteImport, WriteNamed, Abort
  <2>2. v \in Writers /\ Proper(v) /\ v \notin FileWriters
    BY <2>1, ProperImport DEF Inv, FileWriters
  <2>3. Wrote(v) /\ Holds(v)'
    <3> HIDE DEF v
    <3> QED BY <1>1, <2>1, <2>2, OneWrite, Success DEF Inv
  <2>4. ASSUME NEW n \in DOMAIN job.imports, n < k + 1 PROVE Kept(<<"import", 0, n>>)'
    <3> DEFINE w == <<"import", 0, n>>
    <3>1. CASE n = i
      BY <2>3, <3>1 DEF Kept
    <3>2. CASE n # i
      <4>1. n < k
        BY <1>2, <2>0, <2>4, <3>2
      <4>2. Kept(w) /\ w \in Writers /\ v # w
        BY <2>1, <3>2, <4>1 DEF Progress, Writers, ImportWriters
      <4> HIDE DEF v, w
      <4>3. Kept(w)'
        BY <1>1, <2>2, <2>3, <4>2, KeptStays
      <4> QED BY <4>3 DEF w
    <3> QED BY <3>1, <3>2
  <2>5. ASSUME NEW w \in FileWriters PROVE Kept(w)'
    <3>1. Kept(w) /\ w \in Writers /\ v # w
      BY <2>1, <2>2, <2>5, Kinds DEF Progress
    <3> HIDE DEF v
    <3> QED BY <1>1, <2>2, <2>3, <3>1, KeptStays
  <2> QED BY <1>1, <2>1, <2>4, <2>5, Rigid DEF Progress
<1>7. CASE WriteManifest
  <2> SUFFICES ASSUME at' # "failed" PROVE Progress'
    BY DEF Progress
  <2> DEFINE v == ManifestWriter
  <2>1. /\ at' = "names" /\ index' = index /\ index = <<>>
        /\ \/ at = "files" /\ k \notin DOMAIN job.files /\ job.imports = <<>>
           \/ at = "imports" /\ k \notin DOMAIN job.imports
        /\ IF job.manifest = NoManifest THEN tree' = tree ELSE Succeeds(v)
    BY <1>7 DEF WriteManifest, Abort, Progress
  <2>2. job.manifest # NoManifest => v \in Writers /\ Wrote(v) /\ Holds(v)'
    BY <1>1, <2>1, ProperManifest, OneWrite, Success DEF Inv
  <2>3. ASSUME NEW w \in FileWriters \cup ImportWriters PROVE Kept(w)'
    <3>1. Kept(w)
      <4>1. CASE w \in FileWriters
        <5>1. PICK n \in DOMAIN job.files : w = <<"file", 0, n>>
          BY <4>1 DEF FileWriters
        <5>2. CASE at = "files"
          BY <1>2, <2>1, <5>1, <5>2 DEF Progress
        <5>3. CASE at = "imports"
          BY <4>1, <5>3 DEF Progress
        <5> QED BY <2>1, <5>2, <5>3
      <4>2. CASE w \in ImportWriters
        <5>1. PICK n \in DOMAIN job.imports : w = <<"import", 0, n>>
          BY <4>2 DEF ImportWriters
        <5>2. at = "imports"
          BY <2>1, <5>1
        <5> QED BY <1>2, <2>1, <5>1, <5>2 DEF Progress
      <4> QED BY <2>3, <4>1, <4>2
    <3>2. w \in Writers /\ v # w
      BY <2>3, Kinds
    <3> QED BY <1>1, <2>1, <2>2, <3>1, <3>2, KeptStays
  <2>4. \A w \in ManifestWriters : Holds(w)'
    BY <2>2 DEF ManifestWriters
  <2>5. IndexedIsWhole'
    BY <2>1 DEF IndexedIsWhole
  <2> QED BY <1>1, <2>1, <2>3, <2>4, <2>5, Rigid DEF Progress, PrimaryKept
<1>8. CASE CheckNames
  <2>1. /\ at = "names" /\ at' \in {"names", "refFiles"} /\ tree' = tree /\ index' = index
        /\ at' = "refFiles" => k' = 1 /\ r' = r /\ r \in DOMAIN job.refs
    BY <1>8 DEF CheckNames, SkipReference
  <2>2. /\ PrimaryKept'
        /\ \A q \in {index[n] : n \in DOMAIN index} : \A w \in BundleWriters(q) : KeptIn(w, q)'
    BY <1>1, <2>1, LaterWrites
  <2>3. IndexedIsWhole'
    BY <1>1, <2>1, <2>2, IndexedNext
  <2>4. \A q \in DOMAIN job.refs : \A n \in DOMAIN job.refs[q].files : ~(n < 1)
    BY <1>2
  <2> QED BY <1>1, <2>1, <2>2, <2>3, <2>4 DEF Progress
<1>9. ASSUME at = "refFiles", NEW q, q = r
      PROVE  q \in DOMAIN job.refs
  BY <1>9 DEF Inv, TypeOK
<1>10. CASE WriteReferenceFile
  <2>0. PICK q, i : q = r /\ i = k
    OBVIOUS
  <2> DEFINE v == <<"ref", q, i>>
  <2>1. /\ at = "refFiles" /\ q \in DOMAIN job.refs /\ i \in DOMAIN job.refs[q].files
        /\ index' = index
    BY <1>9, <1>10, <2>0 DEF WriteReferenceFile, SkipReference
  <2>2. v \in RefWriters(q)
    BY <2>1 DEF RefWriters
  <2>3. /\ v \in Writers /\ Proper(v) /\ v \in BundleWriters(q)
        /\ IsStrictPrefix(RefDir(q), PathOf(v))
    BY <2>0, <2>1, <2>2, ProperRef DEF Inv, NamesInv, BundleWriters
  <2>4. \/ Succeeds(v) /\ at' = "refFiles" /\ r' = q /\ k' = i + 1
        \/ tree' = tree /\ at' = "names"
        \/ Fails(v) /\ at' = "names"
    BY <1>10, <2>0, <2>1 DEF WriteReferenceFile, SkipReference
  <2> HIDE DEF v
  <2>5. tree' = tree \/ Wrote(v)
    BY <2>3, <2>4, OneWrite DEF Inv
  <2>6. /\ PrimaryKept'
        /\ \A s \in {index[n] : n \in DOMAIN index} : \A w \in BundleWriters(s) : KeptIn(w, s)'
    BY <1>1, <2>0, <2>1, <2>3, <2>5, LaterWrites
  <2>7. IndexedIsWhole'
    BY <1>1, <2>1, <2>6, IndexedNext
  <2>8. CASE at' = "names"
    BY <2>6, <2>7, <2>8 DEF Progress
  <2>9. CASE Succeeds(v) /\ at' = "refFiles" /\ r' = q /\ k' = i + 1
    <3>1. Wrote(v) /\ Holds(v)'
      BY <1>1, <2>3, <2>9, OneWrite, Success DEF Inv
    <3>2. ASSUME NEW n \in DOMAIN job.refs[q].files, n < i + 1 PROVE KeptIn(<<"ref", q, n>>, q)'
      <4> DEFINE w == <<"ref", q, n>>
      <4>1. CASE n = i
        BY <3>1, <4>1 DEF KeptIn, v
      <4>2. CASE n # i
        <5>1. n < k
          BY <1>2, <2>0, <2>1, <3>2, <4>2
        <5>2. KeptIn(w, q) /\ w \in RefWriters(q) /\ v # w
          BY <2>0, <2>1, <4>2, <5>1 DEF Progress, RefWriters, v
        <5> HIDE DEF w
        <5>3. SUFFICES ASSUME Alone(w, BundleWriters(q)) PROVE Holds(w)'
          BY <1>1, <5>2, Rigid DEF KeptIn, Alone, w
        <5>4. PathOf(v) # PathOf(w) /\ Holds(w)
          BY <2>3, <5>2, <5>3 DEF Alone, KeptIn
        <5> QED BY <1>1, <2>3, <3>1, <5>4, Stays
      <4> QED BY <4>1, <4>2
    <3> QED BY <1>1, <2>0, <2>6, <2>7, <2>9, <3>2 DEF Progress
  <2> QED BY <2>4, <2>8, <2>9
<1>11. CASE FinishReference
  <2>0. PICK q : q = r
    OBVIOUS
  <2> DEFINE v == RefManifestWriter(q)
             m == job.refs[q].manifest # NoManifest
  <2>1. /\ at = "refFiles" /\ at' = "names"
        /\ q \in DOMAIN job.refs /\ k \notin DOMAIN job.refs[q].files
    BY <1>9, <1>11, <2>0 DEF FinishReference, SkipReference
  <2>2. m => /\ v \in Writers /\ Proper(v) /\ v \in BundleWriters(q)
             /\ IsStrictPrefix(RefDir(q), PathOf(v))
    BY <2>1, ProperRefManifest DEF Inv, BundleWriters
  <2>3. \/ m /\ Fails(v) /\ index' = index
        \/ (IF m THEN Succeeds(v) ELSE tree' = tree) /\ index' = Append(index, q)
    BY <1>11, <2>0 DEF FinishReference, SkipReference
  <2>4. tree' = tree \/ (m /\ Wrote(v))
    <3> HIDE DEF v
    <3> QED BY <2>2, <2>3, OneWrite DEF Inv
  <2>5. /\ PrimaryKept'
        /\ \A s \in {index[n] : n \in DOMAIN index} : \A w \in BundleWriters(s) : KeptIn(w, s)'
    <3> HIDE DEF v
    <3> QED BY <1>1, <2>0, <2>1, <2>2, <2>4, LaterWrites
  <2>6. ASSUME index' = Append(index, q), NEW w \in BundleWriters(q) PROVE KeptIn(w, q)'
    <3>1. IF m THEN Succeeds(v) ELSE tree' = tree
      <4>1. index' # index
        BY <2>0, <2>1, <2>6, Indexed DEF Inv, TypeOK
      <4> QED BY <2>3, <4>1
    <3>2. CASE w \in RefWriters(q)
      <4>1. PICK n \in DOMAIN job.refs[q].files : w = <<"ref", q, n>>
        BY <3>2 DEF RefWriters
      <4>2. KeptIn(w, q)
        BY <1>2, <2>0, <2>1, <4>1 DEF Progress
      <4>3. SUFFICES ASSUME Alone(w, BundleWriters(q)) PROVE Holds(w)'
        BY <1>1, <3>2, Rigid DEF KeptIn, Alone
      <4>4. Holds(w)
        BY <4>2, <4>3 DEF KeptIn
      <4>5. w # v
        BY <4>1 DEF RefManifestWriter
      <4>6. m => PathOf(v) # PathOf(w)
        BY <2>2, <4>3, <4>5 DEF Alone
      <4> HIDE DEF v
      <4> QED BY <1>1, <2>2, <2>4, <4>4, <4>6, Stays
    <3>3. CASE w = v /\ m
      <4> HIDE DEF v
      <4> QED BY <1>1, <2>2, <3>1, <3>3, Success DEF Inv, KeptIn
    <3> QED BY <2>6, <3>2, <3>3 DEF BundleWriters
  <2>7. IndexedIsWhole'
    <3>1. CASE index' = index
      BY <1>1, <2>5, <3>1, IndexedNext
    <3>2. CASE index' = Append(index, q)
      <4>1. {index'[n] : n \in DOMAIN index'} = {index[n] : n \in DOMAIN index} \cup {q}
        BY <2>0, <2>1, <3>2, Indexed DEF Inv
      <4> QED BY <1>1, <2>5, <2>6, <3>2, <4>1, IndexedNext
    <3> QED BY <2>3, <3>1, <3>2
  <2> QED BY <2>1, <2>5, <2>7 DEF Progress
<1>12. CASE WriteIndex
  <2> SUFFICES ASSUME at' # "failed" PROVE Progress'
    BY DEF Progress
  <2>1. /\ at = "names" /\ at' = "done" /\ index' = index
        /\ IF index = <<>> THEN tree' = tree ELSE Succeeds(IndexWriter)
    BY <1>12 DEF WriteIndex, Abort
  <2>2. tree' = tree \/ Wrote(IndexWriter)
    BY <2>1, ProperIndex, OneWrite DEF Inv
  <2>3. /\ PrimaryKept'
        /\ \A q \in {index[n] : n \in DOMAIN index} : \A w \in BundleWriters(q) : KeptIn(w, q)'
    BY <1>1, <2>1, <2>2, ProperIndex, LaterWrites DEF Inv
  <2>4. IndexedIsWhole'
    BY <1>1, <2>1, <2>3, IndexedNext
  <2>5. index # <<>> => Holds(IndexWriter)'
    BY <1>1, <2>1, ProperIndex, Success DEF Inv
  <2> QED BY <2>1, <2>3, <2>4, <2>5 DEF Progress
<1> QED BY <1>3, <1>4, <1>5, <1>6, <1>7, <1>8, <1>10, <1>11, <1>12 DEF Next

\* After a success the manifests are on disk, and every file of the bundle and of
\* each indexed reference unless the same unpack wrote its path again.
THEOREM OutputTreeWrittenIsWhole == Spec => []WrittenIsWhole
BY InitInv, NextInv, InitProgress, NextProgress, ProgressIsEnough, PTL DEF Spec
=============================================================================
