---------------------------- MODULE SourcesProofs ----------------------------
(***************************************************************************)
(* Proofs about module Sources, for any files, contents and invocations.   *)
(*                                                                         *)
(* What was read of a file that nobody saved since is what the file still  *)
(* holds.  Inv says so of each of the readings, and how far each has got;  *)
(* the properties compare two of them.                                     *)
(***************************************************************************)
EXTENDS Sources, TLAPS

File(k) == job.files[k]
Late == {"stamp", "target", "packed"}

\* How many of the files each step has gone through.
Vetted == IF at \in Validating THEN i - 1 ELSE Last
Digested == CASE at = "digest" -> i - 1
              [] at \in {"peek", "body"} \cup Late -> Last
              [] OTHER -> 0
Peeked == CASE at = "peek" -> i - 1
            [] at \in {"body"} \cup Late -> Last
            [] OTHER -> 0
Taken == CASE at = "body" -> i - 1
           [] at \in Late -> Last
           [] OTHER -> 0

ValidateInv ==
    /\ at \in Validating => job.validates
    /\ at = "vet" => /\ meta \in Contents /\ meta.parses /\ meta.gemara
                     /\ ~Touched(Path) => meta = disk[Path]
    /\ job.validates => /\ at \in Publishing \cup {"packed"} => refused = {}
                        /\ \A k \in 1..Vetted :
                               ~Touched(File(k)) /\ ~Conforms(disk[File(k)]) => k \in refused

DigestInv ==
    \A k \in 1..Digested : ~Saved(File(k)) => digests[File(k)] = disk[File(k)]

PeekInv ==
    /\ at \in Validating \cup {"digest", "peek", "body", "stamp"} => ~stamped
    /\ Peeked > 0 => /\ meta \in Contents /\ meta.type \in Types /\ meta.id \in Ids
                     /\ ~stamped => version = meta.version
                     /\ ~Saved(File(1)) => disk[File(1)] = meta
    /\ \A k \in 1..Peeked :
           ~Saved(File(k)) => /\ disk[File(k)].type = meta.type
                              /\ disk[File(k)].id = meta.id

BodyInv ==
    /\ at # "failed" => Len(parts) = Taken
    /\ \A k \in 1..Taken : ~Saved(File(k)) => parts[k] = disk[File(k)]

BundleInv ==
    at = "packed" =>
        \E v \in BodyVersions :
            pushed = [type |-> meta.type, id |-> meta.id, tag |-> version,
                      parts |-> parts, version |-> v, sources |-> digests]

Inv == TypeOK /\ ValidateInv /\ DigestInv /\ PeekInv /\ BodyInv /\ BundleInv

(***************************************************************************)
(* Type correctness.                                                       *)
(***************************************************************************)
LEMMA JobTyped ==
    ASSUME TypeOK
    PROVE  /\ Last \in Nat /\ Last > 0
           /\ \A k \in 1..Last : File(k) \in Files
           /\ Path \in Files /\ Path = File(i) /\ i \in 1..Last
           /\ job.want \in Versions \cup {None}
           /\ \A f \in Files : disk[f] \in Contents \cup {NoFile}
<1>1. job \in Job /\ job.files # <<>>
  BY JobsAssumption DEF TypeOK
<1>2. job.files \in Seq(Files) /\ job.want \in Versions \cup {None}
  BY <1>1 DEF Job
<1>3. Last \in Nat /\ Last > 0 /\ \A k \in 1..Last : File(k) \in Files
  BY <1>1, <1>2 DEF Last, File
<1> QED
  BY <1>2, <1>3 DEF TypeOK, Path, File

LEMMA ContentTyped ==
    ASSUME NEW c \in Contents
    PROVE  /\ c # NoFile
           /\ c.type \in Types \cup {None} /\ c.id \in Ids \cup {None}
           /\ c.version \in Versions \cup {None}
           /\ c.parses \in BOOLEAN /\ c.gemara \in BOOLEAN
BY ContentsAssumption DEF Content

LEMMA InitTypeOK == Init => TypeOK
<1> SUFFICES ASSUME Init PROVE TypeOK
  OBVIOUS
<1>1. job \in Job /\ job.files # <<>>
  BY JobsAssumption DEF Init
<1>2. Last \in Nat /\ Last > 0
  BY <1>1 DEF Job, Last
<1>3. i \in 1..Last /\ refused \subseteq 1..Last
  BY <1>2 DEF Init
<1>4. digests \in [Files -> Contents \cup {NoFile}] /\ parts \in Seq(Contents)
  BY DEF Init
<1>5. /\ at \in Validating \cup Publishing \cup Ended
      /\ pushed \in Bundle \cup {NoBundle} /\ at = "packed" <=> pushed # NoBundle
  BY Zenon DEF Init, Validating, Publishing, Ended
<1> QED
  BY <1>3, <1>4, <1>5 DEF Init, TypeOK

\* A bundle is a record of Bundle when it is packed.
LEMMA PackedTyped ==
    ASSUME TypeOK, PeekInv, BodyInv, PackBundle
    PROVE  pushed' \in Bundle \cup {NoBundle} /\ (at' = "packed" <=> pushed' # NoBundle)
<1>1. CASE version = None
  BY <1>1 DEF PackBundle, TypeOK
<1>2. CASE version # None
  <2>1. PICK v \in BodyVersions :
            pushed' = [type |-> meta.type, id |-> meta.id, tag |-> version,
                       parts |-> parts, version |-> v, sources |-> digests]
    BY <1>2 DEF PackBundle
  <2>2. v \in Versions \cup {None}
    <3>1. \A k \in DOMAIN parts : parts[k].version \in Versions \cup {None}
      BY ContentTyped DEF TypeOK
    <3> QED
      BY <3>1 DEF BodyVersions, TypeOK
  <2>3. Peeked > 0
    BY JobTyped DEF PackBundle, Peeked, Late
  <2>4. meta.type \in Types /\ meta.id \in Ids
    BY <2>3 DEF PeekInv
  <2>5. version \in Versions
    BY <1>2 DEF TypeOK
  <2>6. pushed' \in Bundle
    BY <2>1, <2>2, <2>4, <2>5 DEF Bundle, TypeOK
  <2>7. pushed'.tag # NoBundle.tag
    BY <2>1, <2>5, NoneAssumption DEF NoBundle
  <2> QED
    BY <1>2, <2>6, <2>7 DEF PackBundle
<1> QED
  BY <1>1, <1>2

LEMMA NextTypeOK == TypeOK /\ PeekInv /\ BodyInv /\ [Next]_vars => TypeOK'
<1> SUFFICES ASSUME TypeOK, PeekInv, BodyInv, [Next]_vars PROVE TypeOK'
  OBVIOUS
<1> USE DEF Validating, Publishing, Ended
<1>0. Last \in Nat /\ Last > 0 /\ i \in 1..Last /\ Path \in Files
  BY JobTyped
<1>1. CASE ReadArtifactMeta
  <2>1. meta' \in Contents \cup {NoFile}
    BY <1>0, <1>1 DEF ReadArtifactMeta, TypeOK
  <2>2. /\ at' \in {"meta", "vet", "digest", "failed"}
        /\ i' \in 1..Last /\ refused' \subseteq 1..Last
    <3>1. CASE Judge(FALSE)
      BY <1>0, <3>1 DEF Judge, TypeOK
    <3>2. CASE at' = "vet" /\ UNCHANGED <<i, refused>>
      BY <1>0, <3>2 DEF TypeOK
    <3> QED
      BY <1>1, <3>1, <3>2, Zenon DEF ReadArtifactMeta
  <2> QED
    BY <1>1, <2>1, <2>2 DEF ReadArtifactMeta, TypeOK, Last
<1>2. CASE VetFile
  BY <1>0, <1>2 DEF VetFile, Judge, TypeOK, Last
<1>3. CASE DigestFile
  BY <1>0, <1>3 DEF DigestFile, Advance, Fail, TypeOK, Last
<1>4. CASE PeekFirst
  <2>1. disk[Path] \in Contents =>
            disk[Path].version \in Versions \cup {None}
    BY ContentTyped
  <2> QED
    BY <1>0, <1>4, <2>1 DEF PeekFirst, Advance, Fail, TypeOK, Last
<1>5. CASE PeekNext
  BY <1>0, <1>5 DEF PeekNext, Advance, Fail, TypeOK, Last
<1>6. CASE ReadBody
  <2>1. CASE Fail /\ UNCHANGED parts
    BY <1>0, <1>6, <2>1 DEF ReadBody, Fail, TypeOK, Last
  <2>2. CASE disk[Path] # NoFile /\ parts' = Append(parts, disk[Path]) /\ Advance("stamp")
    <3>1. parts' \in Seq(Contents)
      BY <1>0, <2>2 DEF TypeOK
    <3>2. at' \in {"body", "stamp"} /\ i' \in 1..Last
      BY <1>0, <1>6, <2>2 DEF ReadBody, Advance
    <3> QED
      BY <1>6, <3>1, <3>2 DEF ReadBody, TypeOK, Last
  <2> QED
    BY <1>6, <2>1, <2>2, Zenon DEF ReadBody
<1>7. CASE ApplyVersionFlag
  <2>1. job.want \in Versions \cup {None}
    BY JobTyped
  <2> QED
    BY <1>0, <1>7, <2>1 DEF ApplyVersionFlag, TypeOK, Last
<1>8. CASE PackBundle
  BY <1>0, <1>8, PackedTyped DEF PackBundle, TypeOK, Last
<1>9. CASE Save
  BY <1>0, <1>9 DEF Save, TypeOK, Last
<1>10. CASE UNCHANGED vars
  BY <1>10 DEF vars, TypeOK, Last
<1> QED
  BY <1>1, <1>2, <1>3, <1>4, <1>5, <1>6, <1>7, <1>8, <1>9, <1>10 DEF Next

(***************************************************************************)
(* A save leaves the other files as they are, and is remembered.           *)
(***************************************************************************)
LEMMA SaveKeeps ==
    ASSUME TypeOK, Save, NEW f \in Files
    PROVE  /\ ~Touched(f)' => ~Touched(f) /\ disk'[f] = disk[f]
           /\ ~Saved(f)' => ~Saved(f)
           /\ ~Saved(f)' /\ at \notin Validating => disk'[f] = disk[f]
BY DEF Save, TypeOK, Touched, Saved

LEMMA OthersKeepFiles ==
    ASSUME [Next]_vars, ~Save
    PROVE  UNCHANGED <<disk, edits, job>>
BY DEF Next, ReadArtifactMeta, VetFile, DigestFile, PeekFirst, PeekNext,
       ReadBody, ApplyVersionFlag, PackBundle, vars

LEMMA NextKeepsJob == [Next]_vars => UNCHANGED job
BY DEF Next, ReadArtifactMeta, VetFile, DigestFile, PeekFirst, PeekNext,
       ReadBody, ApplyVersionFlag, PackBundle, Save, vars

(***************************************************************************)
(* The invariant.                                                          *)
(***************************************************************************)
LEMMA InitInv == Init => Inv
<1> SUFFICES ASSUME Init PROVE Inv
  OBVIOUS
<1>1. TypeOK
  BY InitTypeOK
<1>2. i = 1 /\ at \in {"meta", "digest"} /\ (at = "meta" => job.validates)
      /\ (at = "digest" => ~job.validates)
  <2>1. job \in Job
    BY JobsAssumption DEF Init
  <2> QED
    BY <2>1 DEF Init, Job
<1>3. Vetted = IF at = "meta" THEN 0 ELSE Last
  BY <1>2 DEF Vetted, Validating
<1>4. Digested = 0 /\ Peeked = 0 /\ Taken = 0
  BY <1>2 DEF Digested, Peeked, Taken, Late
<1>5. ValidateInv
  BY <1>2, <1>3 DEF ValidateInv, Validating, Publishing
<1>6. PeekInv /\ DigestInv
  BY <1>4 DEF Init, PeekInv, DigestInv
<1>7. BodyInv /\ BundleInv
  BY <1>2, <1>4 DEF Init, BodyInv, BundleInv
<1> QED
  BY <1>1, <1>5, <1>6, <1>7 DEF Inv

LEMMA NextValidateInv == Inv /\ [Next]_vars => ValidateInv'
<1> SUFFICES ASSUME Inv, [Next]_vars PROVE ValidateInv'
  OBVIOUS
<1>0. /\ TypeOK /\ ValidateInv
      /\ Last \in Nat /\ Last > 0 /\ i \in 1..Last
      /\ \A k \in 1..Last : File(k) \in Files
      /\ Path \in Files /\ Path = File(i) /\ Last' = Last
      /\ \A k : File(k)' = File(k)
      /\ refused \subseteq 1..Last
  BY JobTyped, NextKeepsJob DEF Inv, TypeOK, Last, File
<1> USE DEF Validating, Publishing
\* A file is judged by what it holds, unless it was touched.
<1>1. ASSUME NEW ok \in BOOLEAN, Judge(ok), at \in Validating,
             UNCHANGED <<disk, edits, job>>,
             ok /\ ~Touched(Path) => Conforms(disk[Path])
      PROVE  ValidateInv'
  <2>1. job.validates
    BY <1>1, <1>0 DEF ValidateInv
  <2>2. \A f : Touched(f)' = Touched(f)
    BY <1>1 DEF Touched, Saved
  <2>3. at' \in {"meta", "digest", "failed"} /\ (at' = "digest" => refused' = {})
    BY <1>1 DEF Judge
  <2>4. Vetted = i - 1 /\ Vetted' = i
    BY <1>0, <1>1 DEF Judge, Vetted
  <2>5. \A k \in 1..Vetted' :
           ~Touched(File(k)) /\ ~Conforms(disk[File(k)]) => k \in refused'
    <3> TAKE k \in 1..Vetted'
    <3> HAVE ~Touched(File(k)) /\ ~Conforms(disk[File(k)])
    <3>1. CASE k = i
      BY <1>0, <1>1, <3>1 DEF Judge
    <3>2. CASE k # i
      <4>1. k \in 1..Vetted
        BY <1>0, <2>4, <3>2
      <4> QED
        BY <1>0, <1>1, <2>1, <4>1 DEF Judge, ValidateInv
    <3> QED
      BY <3>1, <3>2
  <2>6. \A k \in 1..Vetted' :
           (~Touched(File(k)) /\ ~Conforms(disk[File(k)]))' => k \in refused'
    BY <1>0, <1>1, <2>2, <2>5 DEF Conforms
  <2> QED
    BY <1>1, <2>1, <2>3, <2>6 DEF ValidateInv
<1>2. CASE ReadArtifactMeta
  <2>1. CASE Judge(FALSE)
    BY <1>1, <1>2, <2>1 DEF ReadArtifactMeta
  <2>2. CASE /\ meta' # NoFile /\ meta'.parses /\ meta'.gemara
             /\ at' = "vet" /\ UNCHANGED <<i, refused>>
    <3>1. Vetted' = Vetted /\ job.validates
      BY <1>0, <1>2, <2>2 DEF ReadArtifactMeta, Vetted, ValidateInv
    <3>2. /\ meta' = disk[Path] /\ disk' = disk /\ Path' = Path
          /\ meta' \in Contents
      BY <1>0, <1>2, <2>2 DEF ReadArtifactMeta, Path, TypeOK
    <3>3. \A f : Touched(f)' = Touched(f)
      BY <1>2 DEF ReadArtifactMeta, Touched, Saved
    <3> QED
      BY <1>0, <1>2, <2>2, <3>1, <3>2, <3>3 DEF ReadArtifactMeta, ValidateInv, Conforms
  <2> QED
    BY <1>2, <2>1, <2>2, Zenon DEF ReadArtifactMeta
<1>3. CASE VetFile
  <2>1. PICK ok \in {FALSE, disk[Path] # NoFile /\ disk[Path].parses
                            /\ meta.type \in disk[Path].fits} : Judge(ok)
    BY <1>3 DEF VetFile
  <2>2. ok \in BOOLEAN
    <3>1. disk[Path] # NoFile => disk[Path].parses \in BOOLEAN
      BY <1>0, ContentTyped, JobTyped
    <3> QED
      BY <2>1, <3>1
  <2>3. ok /\ ~Touched(Path) => Conforms(disk[Path])
    BY <1>0, <1>3, <2>1, <2>2, Zenon DEF VetFile, ValidateInv, Conforms
  <2> QED
    BY <1>1, <1>3, <2>1, <2>2, <2>3 DEF VetFile
<1>4. CASE Save
  <2>1. UNCHANGED <<at, i, meta, refused, job>> /\ Vetted' = Vetted /\ Path' = Path
    BY <1>0, <1>4 DEF Save, Vetted, Path
  <2>2. Vetted \in 0..Last
    BY <1>0 DEF Vetted
  <2>3. \A f \in Files : ~Touched(f)' => ~Touched(f) /\ disk'[f] = disk[f]
    BY <1>0, <1>4, SaveKeeps
  <2>4. \A f \in Files : at = "vet" /\ f = Path /\ ~Touched(f)' => meta = disk'[f]
    BY <1>0, <2>3 DEF ValidateInv
  <2>5. \A k \in 1..Vetted : job.validates /\ ~Touched(File(k))' /\ ~Conforms(disk'[File(k)])
                               => k \in refused
    BY <1>0, <2>2, <2>3 DEF ValidateInv
  <2>6. (at = "vet" /\ ~Touched(Path) => meta = disk[Path])'
    BY <1>0, <2>1, <2>4 DEF Touched, Saved
  <2>7. \A k \in 1..Vetted' :
           (job.validates /\ ~Touched(File(k)) /\ ~Conforms(disk[File(k)]))' => k \in refused'
    BY <1>0, <2>1, <2>5 DEF Conforms
  <2> QED
    BY <1>0, <2>1, <2>6, <2>7 DEF ValidateInv
<1>5. CASE at \notin Validating /\ at' \in Publishing \cup Ended /\ ~Save
  <2>1. /\ UNCHANGED <<disk, edits, job>>
        /\ at' \in Publishing \cup {"packed"} => at \in Publishing \cup {"packed"}
    <3>1. UNCHANGED <<disk, edits, job>>
      BY <1>5, OthersKeepFiles
    <3>2. at' \in Publishing \cup {"packed"} => at \in Publishing \cup {"packed"}
      BY <1>5 DEF Next, ReadArtifactMeta, VetFile, DigestFile, PeekFirst,
                  PeekNext, ReadBody, ApplyVersionFlag, PackBundle, vars
    <3> QED
      BY <3>1, <3>2
  <2>2. UNCHANGED refused
    BY <1>5 DEF Next, ReadArtifactMeta, VetFile, DigestFile, PeekFirst,
                PeekNext, ReadBody, ApplyVersionFlag, PackBundle, vars
  <2>3. Vetted = Last /\ Vetted' = Last
    BY <1>0, <1>5 DEF Vetted, Ended
  <2>4. \A f : Touched(f)' = Touched(f)
    BY <2>1 DEF Touched, Saved
  <2> QED
    BY <1>0, <1>5, <2>1, <2>2, <2>3, <2>4 DEF ValidateInv, Conforms, Ended
<1>6. CASE UNCHANGED vars
  BY <1>0, <1>6 DEF vars, ValidateInv, Vetted, Last, Path, File, Touched, Saved, Conforms
<1> QED
  BY <1>0, <1>2, <1>3, <1>4, <1>5, <1>6
  DEF Next, DigestFile, PeekFirst, PeekNext, ReadBody, ApplyVersionFlag,
      PackBundle, Advance, Fail, Ended

\* Validating leaves no trace but the verdict.
LEMMA ValidateKeeps ==
    ASSUME ReadArtifactMeta \/ VetFile
    PROVE  /\ at \in Validating
           /\ at' \in Validating \cup {"failed"} \/ (at' = "digest" /\ i' = 1)
           /\ UNCHANGED <<disk, edits, digests, parts, version, stamped, pushed>>
<1>1. ASSUME NEW ok, Judge(ok)
      PROVE  at' \in Validating \cup {"failed"} \/ (at' = "digest" /\ i' = 1)
  BY <1>1 DEF Judge, Validating
<1>2. CASE ReadArtifactMeta
  <2>1. at' = "vet" \/ Judge(FALSE)
    BY <1>2, Zenon DEF ReadArtifactMeta
  <2> QED
    BY <1>1, <1>2, <2>1 DEF ReadArtifactMeta, Validating
<1>3. CASE VetFile
  <2>1. \E ok : Judge(ok)
    BY <1>3, Zenon DEF VetFile
  <2> QED
    BY <1>1, <1>3, <2>1 DEF VetFile, Validating
<1> QED
  BY <1>2, <1>3

\* How far the readings of the publish have got.
LEMMA Progress ==
    ASSUME TypeOK
    PROVE  /\ Digested \in 0..Last /\ Peeked \in 0..Last /\ Taken \in 0..Last
           /\ Taken > 0 => Peeked = Last
           /\ Peeked > 0 => Digested = Last
BY JobTyped DEF Digested, Peeked, Taken, Late

LEMMA NextDigestInv == Inv /\ [Next]_vars => DigestInv'
<1> SUFFICES ASSUME Inv, [Next]_vars PROVE DigestInv'
  OBVIOUS
<1>0. /\ TypeOK /\ DigestInv
      /\ Last \in Nat /\ Last > 0 /\ i \in 1..Last
      /\ \A k \in 1..Last : File(k) \in Files
      /\ Path \in Files /\ Path = File(i) /\ Last' = Last
      /\ \A k : File(k)' = File(k)
      /\ Digested \in 0..Last
  BY JobTyped, NextKeepsJob, Progress DEF Inv, TypeOK, Last, File
<1>1. CASE DigestFile
  <2>1. UNCHANGED <<disk, edits>> /\ at = "digest" /\ Digested = i - 1
    <3>1. UNCHANGED <<disk, edits>> /\ at = "digest"
      BY <1>1 DEF DigestFile
    <3>2. Digested = i - 1
      BY <3>1 DEF Digested, Late
    <3> QED
      BY <3>1, <3>2
  <2>2. CASE at' = "failed"
    BY <2>2 DEF DigestInv, Digested, Late
  <2>3. CASE digests' = [digests EXCEPT ![Path] = disk[Path]] /\ Advance("peek")
    <3>1. Digested' = i
      BY <1>0, <2>1, <2>3 DEF Advance, Digested, Late
    <3>2. \A k \in 1..i : ~Saved(File(k)) => digests'[File(k)] = disk[File(k)]
      BY <1>0, <2>1, <2>3 DEF DigestInv, TypeOK
    <3> QED
      BY <1>0, <2>1, <3>1, <3>2 DEF DigestInv, Saved
  <2> QED
    BY <1>1, <2>2, <2>3, Zenon DEF DigestFile, Fail
<1>2. CASE Save
  <2>1. UNCHANGED <<digests, at, i>> /\ Digested' = Digested
    BY <1>0, <1>2 DEF Save, Digested
  <2>2. \A f \in Files : ~Saved(f)' /\ at \notin Validating => ~Saved(f) /\ disk'[f] = disk[f]
    BY <1>0, <1>2, SaveKeeps
  <2>3. at \in Validating => Digested = 0
    BY DEF Validating, Digested, Late
  <2>4. \A k \in 1..Digested : ~Saved(File(k))' => digests[File(k)] = disk'[File(k)]
    BY <1>0, <2>2, <2>3 DEF DigestInv
  <2>5. \A k \in 1..Digested' : (~Saved(File(k)) => digests[File(k)] = disk[File(k)])'
    BY <1>0, <2>1, <2>4
  <2> QED
    BY <2>5 DEF DigestInv
<1>3. CASE UNCHANGED <<disk, edits, digests>> /\ (Digested' = Digested \/ Digested' = 0)
  BY <1>0, <1>3 DEF DigestInv, Saved
<1>4. CASE ReadArtifactMeta \/ VetFile
  <2>1. at \in Validating /\ (at' \in Validating \cup {"failed"} \/ (at' = "digest" /\ i' = 1))
    BY <1>4, ValidateKeeps
  <2>2. Digested' = 0
    BY <2>1 DEF Digested, Validating, Late
  <2> QED
    BY <2>2 DEF DigestInv
<1>5. CASE PeekFirst \/ PeekNext \/ ReadBody \/ ApplyVersionFlag \/ PackBundle
  <2>1. UNCHANGED <<disk, edits, digests>>
    BY <1>5 DEF PeekFirst, PeekNext, ReadBody, ApplyVersionFlag, PackBundle
  <2>2. at \in {"peek", "body", "stamp", "target"} /\ at' \in {"peek", "body", "failed"} \cup Late
    BY <1>5 DEF PeekFirst, PeekNext, ReadBody, ApplyVersionFlag, PackBundle,
                Advance, Fail, Late
  <2>3. Digested' = Digested \/ Digested' = 0
    BY <1>0, <2>2 DEF Digested, Late
  <2> QED
    BY <1>3, <2>1, <2>3
<1>6. CASE UNCHANGED vars
  BY <1>0, <1>6 DEF vars, DigestInv, Digested, Saved
<1> QED
  BY <1>1, <1>2, <1>4, <1>5, <1>6 DEF Next

LEMMA NextPeekInv == Inv /\ [Next]_vars => PeekInv'
<1> SUFFICES ASSUME Inv, [Next]_vars PROVE PeekInv'
  OBVIOUS
<1>0. /\ TypeOK /\ PeekInv
      /\ Last \in Nat /\ Last > 0 /\ i \in 1..Last
      /\ \A k \in 1..Last : File(k) \in Files
      /\ Path \in Files /\ Path = File(i) /\ Last' = Last
      /\ \A k : File(k)' = File(k)
      /\ Peeked \in 0..Last
  BY JobTyped, NextKeepsJob, Progress DEF Inv, TypeOK, Last, File
<1>1. CASE at' = "failed"
  <2>1. Peeked' = 0
    BY <1>1 DEF Peeked, Late
  <2> QED
    BY <1>1, <2>1 DEF PeekInv, Validating
<1>2. CASE ReadArtifactMeta \/ VetFile
  <2>1. /\ at \in Validating /\ (at' \in Validating \cup {"failed"} \/ (at' = "digest" /\ i' = 1))
        /\ stamped' = stamped
    BY <1>2, ValidateKeeps
  <2>2. Peeked' = 0
    BY <2>1 DEF Peeked, Validating, Late
  <2>3. ~stamped
    BY <1>0, <2>1 DEF PeekInv
  <2> QED
    BY <2>1, <2>2, <2>3 DEF PeekInv
<1>3. CASE DigestFile /\ at' # "failed"
  <2>1. Peeked' = 0 /\ ~stamped' /\ stamped' = stamped
    BY <1>0, <1>3 DEF DigestFile, Advance, Fail, Peeked, PeekInv, Late
  <2> QED
    BY <2>1 DEF PeekInv
<1>4. CASE PeekFirst /\ at' # "failed"
  <2>1. /\ meta' = disk[Path] /\ version' = meta'.version /\ Advance("body")
        /\ disk[Path] # NoFile /\ disk[Path].type # None /\ disk[Path].id # None
    BY <1>4, Zenon DEF PeekFirst, Fail
  <2>2. meta' \in Contents /\ meta'.type \in Types /\ meta'.id \in Ids
    BY <1>0, <2>1, ContentTyped, JobTyped
  <2>3. Peeked' = 1 /\ i = 1 /\ ~stamped' /\ UNCHANGED <<disk, edits>>
    BY <1>0, <1>4, <2>1 DEF PeekFirst, Advance, Peeked, Late, PeekInv
  <2>4. disk'[File(1)] = meta'
    BY <1>0, <2>1, <2>3
  <2> QED
    BY <1>0, <2>1, <2>2, <2>3, <2>4 DEF PeekInv
<1>5. CASE PeekNext /\ at' # "failed"
  <2>1. disk[Path] # NoFile /\ Describes(disk[Path]) /\ Advance("body")
    BY <1>5, Zenon DEF PeekNext, Fail
  <2>2. /\ Peeked' = i /\ i > 1 /\ Peeked = i - 1 /\ ~stamped /\ at = "peek"
        /\ UNCHANGED <<disk, edits, meta, version, stamped>>
    BY <1>0, <1>5, <2>1 DEF PeekNext, Advance, Peeked, Late, PeekInv
  <2>3. \A k \in 1..i : ~Saved(File(k)) => /\ disk[File(k)].type = meta.type
                                           /\ disk[File(k)].id = meta.id
    BY <1>0, <2>1, <2>2 DEF PeekInv, Describes
  <2>4. \A f : Saved(f)' = Saved(f)
    BY <2>2 DEF Saved
  <2> QED
    BY <1>0, <2>2, <2>3, <2>4 DEF PeekInv
<1>6. CASE (ReadBody \/ ApplyVersionFlag \/ PackBundle) /\ at' # "failed"
  <2>1. UNCHANGED <<disk, edits, meta>> /\ Peeked = Last /\ Peeked' = Last
    BY <1>0, <1>6 DEF ReadBody, ApplyVersionFlag, PackBundle, Advance, Fail, Peeked, Late
  <2>2. \A f : Saved(f)' = Saved(f)
    BY <2>1 DEF Saved
  <2>3. ~stamped' => ~stamped /\ version' = version
    BY <1>0, <1>6 DEF ReadBody, ApplyVersionFlag, PackBundle, PeekInv
  <2>4. at' \in Validating \cup {"digest", "peek", "body", "stamp"} => ~stamped'
    BY <1>0, <1>6 DEF ReadBody, ApplyVersionFlag, PackBundle, PeekInv, Advance, Validating
  <2> QED
    BY <1>0, <2>1, <2>2, <2>3, <2>4 DEF PeekInv
<1>7. CASE Save
  <2>1. UNCHANGED <<at, i, meta, version, stamped>> /\ Peeked' = Peeked
    BY <1>0, <1>7 DEF Save, Peeked
  <2>2. \A f \in Files : ~Saved(f)' /\ at \notin Validating => ~Saved(f) /\ disk'[f] = disk[f]
    BY <1>0, <1>7, SaveKeeps
  <2>3. at \in Validating => Peeked = 0
    BY DEF Validating, Peeked, Late
  <2>4. \A k \in 1..Peeked : ~Saved(File(k))' =>
            /\ disk'[File(k)].type = meta.type /\ disk'[File(k)].id = meta.id
            /\ (k = 1 => disk'[File(k)] = meta)
    BY <1>0, <2>2, <2>3 DEF PeekInv
  <2>5. \A k \in 1..Peeked' : (~Saved(File(k)) => /\ disk[File(k)].type = meta.type
                                                   /\ disk[File(k)].id = meta.id)'
    BY <1>0, <2>1, <2>4
  <2>6. Peeked > 0 => (~Saved(File(1)) => disk[File(1)] = meta)'
    BY <1>0, <2>1, <2>4
  <2> QED
    BY <1>0, <2>1, <2>5, <2>6 DEF PeekInv
<1>8. CASE UNCHANGED vars
  BY <1>0, <1>8 DEF vars, PeekInv, Peeked, Saved
<1> QED
  BY <1>1, <1>2, <1>3, <1>4, <1>5, <1>6, <1>7, <1>8 DEF Next

LEMMA NextBodyInv == Inv /\ [Next]_vars => BodyInv'
<1> SUFFICES ASSUME Inv, [Next]_vars PROVE BodyInv'
  OBVIOUS
<1>0. /\ TypeOK /\ BodyInv
      /\ Last \in Nat /\ Last > 0 /\ i \in 1..Last
      /\ \A k \in 1..Last : File(k) \in Files
      /\ Path \in Files /\ Path = File(i) /\ Last' = Last
      /\ \A k : File(k)' = File(k)
      /\ Taken \in 0..Last
  BY JobTyped, NextKeepsJob, Progress DEF Inv, TypeOK, Last, File
<1>1. CASE at' = "failed"
  <2>1. Taken' = 0
    BY <1>1 DEF Taken, Late
  <2> QED
    BY <1>1, <2>1 DEF BodyInv
<1>2. CASE at # "failed" /\ UNCHANGED <<disk, edits, parts>> /\ Taken' = Taken
  BY <1>0, <1>2 DEF BodyInv, Saved
<1>3. CASE ReadArtifactMeta \/ VetFile
  <2>1. /\ at \in Validating /\ UNCHANGED <<disk, edits, parts>>
        /\ at' \in Validating \cup {"failed"} \/ (at' = "digest" /\ i' = 1)
    BY <1>3, ValidateKeeps
  <2>2. Taken = 0 /\ Taken' = 0
    BY <2>1 DEF Taken, Validating, Late
  <2> QED
    BY <1>2, <2>1, <2>2 DEF Validating
<1>4. CASE (DigestFile \/ PeekFirst \/ PeekNext) /\ at' # "failed"
  <2>1. /\ UNCHANGED <<disk, edits, parts>> /\ at \in {"digest", "peek"}
        /\ at' \in {"digest", "peek"} \/ (at' = "body" /\ i' = 1)
    <3>1. CASE DigestFile
      BY <1>4, <3>1 DEF DigestFile, Advance, Fail
    <3>2. CASE PeekFirst
      BY <1>4, <3>2 DEF PeekFirst, Advance, Fail
    <3>3. CASE PeekNext
      BY <1>4, <3>3 DEF PeekNext, Advance, Fail
    <3> QED
      BY <1>4, <3>1, <3>2, <3>3
  <2>2. Taken = 0 /\ Taken' = 0
    BY <2>1 DEF Taken, Late
  <2> QED
    BY <1>2, <2>1, <2>2
<1>5. CASE ReadBody /\ at' # "failed"
  <2>1. parts' = Append(parts, disk[Path]) /\ Advance("stamp") /\ disk[Path] \in Contents
    BY <1>0, <1>5, JobTyped, Zenon DEF ReadBody, Fail
  <2>2. at = "body" /\ UNCHANGED <<disk, edits>> /\ Len(parts) = i - 1 /\ Taken = i - 1
    <3>1. at = "body" /\ UNCHANGED <<disk, edits>>
      BY <1>5 DEF ReadBody
    <3>2. Taken = i - 1
      BY <3>1 DEF Taken, Late
    <3> QED
      BY <1>0, <3>1, <3>2 DEF BodyInv
  <2>3. Taken' = i
    BY <1>0, <2>1, <2>2 DEF Advance, Taken, Late
  <2>4. Len(parts') = i /\ \A k \in 1..i : parts'[k] = IF k = i THEN disk[Path] ELSE parts[k]
    BY <1>0, <2>1, <2>2 DEF TypeOK
  <2>5. \A f : Saved(f)' = Saved(f)
    BY <2>2 DEF Saved
  <2> QED
    BY <1>0, <2>2, <2>3, <2>4, <2>5 DEF BodyInv
<1>6. CASE (ApplyVersionFlag \/ PackBundle) /\ at' # "failed"
  <2>1. UNCHANGED <<disk, edits, parts>> /\ at \in Late /\ at' \in Late
    BY <1>6 DEF ApplyVersionFlag, PackBundle, Late
  <2>2. Taken' = Taken
    BY <1>0, <2>1 DEF Taken, Late
  <2> QED
    BY <1>2, <2>1, <2>2 DEF Late
<1>7. CASE Save
  <2>1. UNCHANGED <<at, i, parts>> /\ Taken' = Taken
    BY <1>0, <1>7 DEF Save, Taken
  <2>2. \A f \in Files : ~Saved(f)' /\ at \notin Validating => ~Saved(f) /\ disk'[f] = disk[f]
    BY <1>0, <1>7, SaveKeeps
  <2>3. at \in Validating => Taken = 0
    BY DEF Validating, Taken, Late
  <2>4. \A k \in 1..Taken : ~Saved(File(k))' => parts[k] = disk'[File(k)]
    BY <1>0, <2>2, <2>3 DEF BodyInv
  <2>5. \A k \in 1..Taken' : (~Saved(File(k)) => parts[k] = disk[File(k)])'
    BY <1>0, <2>1, <2>4
  <2> QED
    BY <1>0, <2>1, <2>5 DEF BodyInv
<1>8. CASE UNCHANGED vars
  BY <1>0, <1>8 DEF vars, BodyInv, Taken, Saved
<1> QED
  BY <1>1, <1>3, <1>4, <1>5, <1>6, <1>7, <1>8 DEF Next

LEMMA NextBundleInv == Inv /\ [Next]_vars => BundleInv'
<1> SUFFICES ASSUME Inv, [Next]_vars, at' = "packed" PROVE BundleInv'
  BY DEF BundleInv
<1>1. CASE PackBundle
  <2>1. UNCHANGED <<meta, version, parts, digests, stamped>> /\ BodyVersions' = BodyVersions
    BY <1>1 DEF PackBundle, BodyVersions
  <2>2. \E v \in BodyVersions :
            pushed' = [type |-> meta.type, id |-> meta.id, tag |-> version,
                       parts |-> parts, version |-> v, sources |-> digests]
    BY <1>1 DEF PackBundle
  <2> QED
    BY <2>1, <2>2 DEF BundleInv
<1>2. CASE UNCHANGED vars
  BY <1>2 DEF Inv, vars, BundleInv, BodyVersions
<1>3. CASE ReadArtifactMeta \/ VetFile
  BY <1>3, ValidateKeeps DEF Validating
<1> QED
  BY <1>1, <1>2, <1>3 DEF Next, DigestFile, PeekFirst, PeekNext, ReadBody,
     ApplyVersionFlag, Save, Advance, Fail, Ended

\* What each step has read is what the disk still holds, unless it was saved since.
THEOREM SourcesInv == Spec => []Inv
<1>1. Inv /\ [Next]_vars => Inv'
  BY NextTypeOK, NextValidateInv, NextDigestInv, NextPeekInv, NextBodyInv,
     NextBundleInv DEF Inv
<1> QED
  BY <1>1, InitInv, PTL DEF Spec

(***************************************************************************)
(* The properties.                                                         *)
(***************************************************************************)

\* Every state is a state of the program, and a packed bundle has a tag.
THEOREM SourcesTypeOK == Spec => []TypeOK
<1>1. Inv => TypeOK
  BY DEF Inv
<1> QED
  BY <1>1, SourcesInv, PTL

\* What the invariant says of a bundle.
LEMMA Packed ==
    ASSUME Inv, at = "packed"
    PROVE  /\ Last \in Nat /\ Last > 0 /\ Taken = Last /\ Peeked = Last /\ Digested = Last
           /\ Vetted = Last /\ Len(parts) = Last /\ parts \in Seq(Contents)
           /\ \A k \in 1..Last : File(k) = job.files[k] /\ File(k) \in Inputs
           /\ DOMAIN job.files = 1..Last
           /\ pushed.type = meta.type /\ pushed.id = meta.id /\ pushed.tag = version
           /\ pushed.parts = parts /\ pushed.sources = digests
           /\ pushed.version \in BodyVersions
<1>1. Last \in Nat /\ Last > 0 /\ job.files \in Seq(Files) /\ DOMAIN job.files = 1..Last
  <2>1. job \in Job
    BY JobsAssumption DEF Inv, TypeOK
  <2> QED
    BY <2>1, JobTyped DEF Inv, Job, Last
<1>2. Taken = Last /\ Peeked = Last /\ Digested = Last /\ Vetted = Last
  BY DEF Taken, Peeked, Digested, Vetted, Late, Validating
<1>3. Len(parts) = Last /\ parts \in Seq(Contents)
  BY <1>2 DEF Inv, BodyInv, TypeOK
<1>4. \A k \in 1..Last : File(k) = job.files[k] /\ File(k) \in Inputs
  BY <1>1 DEF File, Inputs
<1>5. PICK v \in BodyVersions :
          pushed = [type |-> meta.type, id |-> meta.id, tag |-> version,
                    parts |-> parts, version |-> v, sources |-> digests]
  BY DEF Inv, BundleInv
<1>6. /\ pushed.type = meta.type /\ pushed.id = meta.id /\ pushed.tag = version
      /\ pushed.parts = parts /\ pushed.sources = digests
      /\ pushed.version = v
  BY <1>5
<1> QED
  BY <1>1, <1>2, <1>3, <1>4, <1>5, <1>6

\* The tag is the version in the body, unless nothing was stamped and an input
\* was saved or the merged files disagree (publish.go:236).
THEOREM SourcesTagIsBodyVersion == Spec => []TagIsBodyVersion
<1>1. Inv => TagIsBodyVersion
  <2> SUFFICES ASSUME Inv, at = "packed", pushed.tag # pushed.version
               PROVE  /\ ~stamped
                      /\ \/ \E f \in Inputs : Saved(f)
                         \/ \E k \in DOMAIN pushed.parts :
                                pushed.parts[k].version # pushed.parts[1].version
    BY DEF TagIsBodyVersion
  <2>0. Inv /\ at = "packed"
    OBVIOUS
  <2>1. ~stamped
    <3>1. stamped => BodyVersions = {version}
      BY DEF BodyVersions
    <3> QED
      BY <2>0, <3>1, Packed
  <2>2. PICK k \in DOMAIN parts : pushed.version = parts[k].version
    BY <2>0, <2>1, Packed DEF BodyVersions
  <2>3. CASE ~Saved(File(1))
    <3>1. parts[1] = meta /\ version = meta.version
      BY <2>0, <2>1, <2>3, Packed DEF Inv, PeekInv, BodyInv
    <3> QED
      BY <2>0, <2>1, <2>2, <3>1, Packed
  <2>4. CASE Saved(File(1))
    BY <2>0, <2>1, <2>4, Packed
  <2> QED
    BY <2>3, <2>4
<1> QED
  BY <1>1, SourcesInv, PTL

\* The three readings of a file agree, unless it was saved during the publish
\* (source.go:41, 60).
THEOREM SourcesReadingsAgree == Spec => []ReadingsAgree
<1>1. Inv => ReadingsAgree
  <2> SUFFICES ASSUME Inv, at = "packed"
               PROVE  /\ Len(pushed.parts) = Last
                      /\ \A k \in DOMAIN job.files :
                             ~Saved(job.files[k]) =>
                                 /\ pushed.sources[job.files[k]] = pushed.parts[k]
                                 /\ pushed.parts[k].type = pushed.type
                                 /\ pushed.parts[k].id = pushed.id
    BY DEF ReadingsAgree
  <2>1. \A k \in 1..Last : ~Saved(File(k)) =>
            /\ digests[File(k)] = disk[File(k)] /\ parts[k] = disk[File(k)]
            /\ disk[File(k)].type = meta.type /\ disk[File(k)].id = meta.id
    BY Packed DEF Inv, DigestInv, PeekInv, BodyInv
  <2> QED
    BY <2>1, Packed
<1> QED
  BY <1>1, SourcesInv, PTL

\* A file that does not conform is refused when validate is through, unless it
\* was touched meanwhile (validate.go:118).
THEOREM SourcesNonconformingIsRefused == Spec => []NonconformingIsRefused
<1>1. Inv => NonconformingIsRefused
  <2> SUFFICES ASSUME Inv, job.validates, at \notin Validating, NEW k \in DOMAIN job.files,
                      ~Touched(job.files[k]) /\ ~Conforms(disk[job.files[k]])
               PROVE  k \in refused
    BY DEF NonconformingIsRefused
  <2>1. job \in Job
    BY JobsAssumption DEF Inv, TypeOK
  <2>2. k \in 1..Vetted /\ File(k) = job.files[k]
    BY <2>1 DEF Job, Vetted, Last, File
  <2> QED
    BY <2>2 DEF Inv, ValidateInv
<1> QED
  BY <1>1, SourcesInv, PTL

\* What is published of a file validated first, and not touched since, conforms
\* to the type it is published as.
THEOREM SourcesValidatedIsPublished == Spec => []ValidatedIsPublished
<1>1. Inv => ValidatedIsPublished
  <2> SUFFICES ASSUME Inv, at = "packed", job.validates, NEW k \in DOMAIN job.files,
                      ~Touched(job.files[k])
               PROVE  pushed.type \in pushed.parts[k].fits
    BY DEF ValidatedIsPublished
  <2>1. k \in 1..Last /\ File(k) = job.files[k] /\ ~Saved(File(k))
    BY Packed DEF Touched
  <2>2. Conforms(disk[File(k)])
    BY <2>1, Packed DEF Inv, ValidateInv
  <2>3. parts[k] = disk[File(k)] /\ disk[File(k)].type = meta.type
    BY <2>1, Packed DEF Inv, PeekInv, BodyInv
  <2> QED
    BY <2>1, <2>2, <2>3, Packed DEF Conforms
<1> QED
  BY <1>1, SourcesInv, PTL
=============================================================================
