------------------------------ MODULE Sources -------------------------------
(***************************************************************************)
(* `grcli validate -f ... && grcli publish ...` over the author's files,   *)
(* up to the point where the bundle is assembled (cmd/validate.go,         *)
(* internal/source, internal/provenance and the front half of runPublish), *)
(* while the author, or a build step, may still be writing the files.      *)
(*                                                                         *)
(* validate reads a file to learn its type and cue reads it again; publish *)
(* reads it for the digest, for the metadata and for the body.             *)
(***************************************************************************)
EXTENDS Naturals, Sequences

CONSTANTS Files,      \* paths
          Contents,   \* what a file may contain
          Jobs,       \* the invocations
          Types, Ids, Versions,
          Mergeable,  \* the types that several files may be merged into
          None,       \* a field or flag that is not set
          NoFile      \* there is no such file

\* A file's content: does it parse, what does its metadata say, is its
\* gemara-version one that validate accepts, and which schemas does it satisfy.
\* With a local spec every gemara-version is accepted unread: gemara is TRUE then.
Content == [parses : BOOLEAN, type : Types \cup {None}, id : Ids \cup {None},
            version : Versions \cup {None}, gemara : BOOLEAN, fits : SUBSET Types]

\* The files, --version, and whether validate runs first.
Job == [files : Seq(Files), want : Versions \cup {None}, validates : BOOLEAN]

ASSUME ContentsAssumption == Contents \subseteq Content /\ NoFile \notin Contents
ASSUME JobsAssumption ==
    Jobs \subseteq Job /\ \A j \in Jobs : j.files # <<>>
ASSUME MergeableAssumption == Mergeable \subseteq Types
ASSUME NoneAssumption == None \notin Types /\ None \notin Ids /\ None \notin Versions

VARIABLES
    disk,     \* what each path holds
    edits,    \* which files were saved, during which command (history)
    job,
    at,       \* the next step
    i,        \* the index into the list of files
    meta,     \* the content validate, or publish's first peek, read
    refused,  \* the indexes of the files that failed validation
    digests,  \* Loaded.SourceDigests; a content stands for its digest
    parts,    \* the contents the body is made of
    version,  \* Loaded.Version
    stamped,  \* did SetVersion write the version into the body?
    pushed    \* the bundle that is handed to the registry

vars == <<disk, edits, job, at, i, meta, refused, digests, parts, version,
          stamped, pushed>>

Validating == {"meta", "vet"}
Publishing == {"digest", "peek", "body", "stamp", "target"}
Ended == {"packed", "failed"}

\* The layer, the tag, and the provenance record of a bundle.
Bundle == [type : Types, id : Ids, tag : Versions,
           parts : Seq(Contents), version : Versions \cup {None},
           sources : [Files -> Contents \cup {NoFile}]]

NoBundle == [tag |-> None]

Path == job.files[i]
Last == Len(job.files)

TypeOK ==
    /\ disk \in [Files -> Contents \cup {NoFile}]
    /\ edits \subseteq {"validate", "publish"} \X Files
    /\ job \in Jobs
    /\ at \in Validating \cup Publishing \cup Ended
    /\ i \in 1..Last
    /\ meta \in Contents \cup {NoFile}
    /\ refused \subseteq 1..Last
    /\ digests \in [Files -> Contents \cup {NoFile}]
    /\ parts \in Seq(Contents)
    /\ version \in Versions \cup {None}
    /\ stamped \in BOOLEAN
    /\ pushed \in Bundle \cup {NoBundle}
    /\ at = "packed" <=> pushed # NoBundle

Init ==
    /\ disk \in [Files -> Contents \cup {NoFile}]
    /\ edits = {}
    /\ job \in Jobs
    /\ at = IF job.validates THEN "meta" ELSE "digest"
    /\ i = 1
    /\ meta = NoFile
    /\ refused = {}
    /\ digests = [f \in Files |-> NoFile]
    /\ parts = <<>>
    /\ version = None
    /\ stamped = FALSE
    /\ pushed = NoBundle

Fail == at' = "failed" /\ UNCHANGED i

\* The loop over the files goes on with the next one, or to the next step.
Advance(next) ==
    IF i < Last THEN i' = i + 1 /\ UNCHANGED at
                ELSE i' = 1 /\ at' = next

-----------------------------------------------------------------------------
(* runValidate.                                                            *)

Judge_StopsAtFirst(ok) ==
    /\ refused' = IF ok THEN refused ELSE refused \cup {i}
    /\ IF ok /\ i < Last
       THEN at' = "meta" /\ i' = i + 1
       ELSE at' = (IF refused' = {} THEN "digest" ELSE "failed") /\ i' = 1

\* A file that fails is counted, and the loop goes on.
Judge(ok) ==
    /\ refused' = IF ok THEN refused ELSE refused \cup {i}
    /\ IF i < Last
       THEN at' = "meta" /\ i' = i + 1
       ELSE at' = (IF refused' = {} THEN "digest" ELSE "failed") /\ i' = 1

\* readArtifactMeta and gemaraVersion, which is skipped for a local spec.
ReadArtifactMeta ==
    /\ at = "meta"
    /\ meta' = disk[Path]
    /\ IF meta' # NoFile /\ meta'.parses /\ meta'.type # None /\ meta'.gemara
       THEN at' = "vet" /\ UNCHANGED <<i, refused>>
       ELSE Judge(FALSE)
    /\ UNCHANGED <<disk, edits, job, digests, parts, version, stamped, pushed>>

VetFile_IgnoresExit ==
    /\ at = "vet"
    /\ Judge(TRUE)
    /\ UNCHANGED <<disk, edits, job, meta, digests, parts, version, stamped, pushed>>

\* cue vet reads the file anew and checks it against the type read before.  It
\* may also time out, or find no registry.
VetFile ==
    /\ at = "vet"
    /\ \E ok \in {FALSE, disk[Path] # NoFile /\ disk[Path].parses
                            /\ meta.type \in disk[Path].fits} : Judge(ok)
    /\ UNCHANGED <<disk, edits, job, meta, digests, parts, version, stamped, pushed>>

-----------------------------------------------------------------------------
(* source.Load.                                                            *)

DigestFile_FirstOnly ==
    /\ at = "digest"
    /\ disk[Path] # NoFile
    /\ digests' = [digests EXCEPT ![Path] = disk[Path]]
    /\ at' = "peek" /\ UNCHANGED i
    /\ UNCHANGED <<disk, edits, job, meta, refused, parts, version, stamped, pushed>>

\* digestAll.
DigestFile ==
    /\ at = "digest"
    /\ IF disk[Path] = NoFile
       THEN Fail /\ UNCHANGED digests
       ELSE /\ digests' = [digests EXCEPT ![Path] = disk[Path]]
            /\ Advance("peek")
    /\ UNCHANGED <<disk, edits, job, meta, refused, parts, version, stamped, pushed>>

\* The first file says what the artifact is.
PeekFirst ==
    /\ at = "peek" /\ i = 1
    /\ LET c == disk[Path] IN
       IF c = NoFile \/ ~c.parses \/ c.type = None \/ c.id = None
       THEN Fail /\ UNCHANGED <<meta, version>>
       ELSE meta' = c /\ version' = c.version /\ Advance("body")
    /\ UNCHANGED <<disk, edits, job, refused, digests, parts, stamped, pushed>>

Describes_TypeOnly(c) == c.type = meta.type

\* The others must describe the same artifact.
Describes(c) == c.type = meta.type /\ c.id = meta.id

PeekNext ==
    /\ at = "peek" /\ i > 1
    /\ LET c == disk[Path] IN
       IF c = NoFile \/ ~c.parses \/ ~Describes(c) THEN Fail ELSE Advance("body")
    /\ UNCHANGED <<disk, edits, job, meta, refused, digests, parts, version,
                   stamped, pushed>>

\* mergeOrPassThrough.  A single file passes through unread; several are parsed
\* and merged, which only catalogs can be.
ReadBody ==
    /\ at = "body"
    /\ IF \/ disk[Path] = NoFile
          \/ Last > 1 /\ (meta.type \notin Mergeable \/ ~disk[Path].parses)
       THEN Fail /\ UNCHANGED parts
       ELSE parts' = Append(parts, disk[Path]) /\ Advance("stamp")
    /\ UNCHANGED <<disk, edits, job, meta, refused, digests, version, stamped, pushed>>

-----------------------------------------------------------------------------
(* applyVersionFlag, resolveTarget and the assembly of the bundle.         *)

ApplyVersionFlag_TagOnly ==
    /\ at = "stamp"
    /\ version' = IF job.want = None THEN version ELSE job.want
    /\ at' = "target"
    /\ UNCHANGED <<disk, edits, job, i, meta, refused, digests, parts, stamped, pushed>>

\* --version is written into the body, unless it is the version that was read.
\* The body must parse for that, and have metadata: without a type it may not.
ApplyVersionFlag ==
    /\ at = "stamp"
    /\ IF job.want \in {None, version}
       THEN at' = "target" /\ UNCHANGED <<version, stamped>>
       ELSE \/ /\ parts[1].parses
               /\ at' = "target" /\ version' = job.want /\ stamped' = TRUE
            \/ /\ ~parts[1].parses \/ parts[1].type = None
               /\ at' = "failed" /\ UNCHANGED <<version, stamped>>
    /\ UNCHANGED <<disk, edits, job, i, meta, refused, digests, parts, pushed>>

\* go-gemara's LoadFiles keeps the metadata of one of the files.
BodyVersions == IF stamped THEN {version} ELSE {parts[k].version : k \in DOMAIN parts}

PackBundle_AnyTag ==
    /\ at = "target"
    /\ \E v \in BodyVersions :
           pushed' = [type |-> meta.type, id |-> meta.id, tag |-> version,
                      parts |-> parts, version |-> v, sources |-> digests]
    /\ at' = "packed"
    /\ UNCHANGED <<disk, edits, job, i, meta, refused, digests, parts, version, stamped>>

\* resolveTarget takes the tag from the metadata; provenance.Build records what
\* was digested.  The steps in between do not touch the files: see Publish.
PackBundle ==
    /\ at = "target"
    /\ IF version = None
       THEN at' = "failed" /\ UNCHANGED pushed
       ELSE /\ \E v \in BodyVersions :
                   pushed' = [type |-> meta.type, id |-> meta.id, tag |-> version,
                              parts |-> parts, version |-> v, sources |-> digests]
            /\ at' = "packed"
    /\ UNCHANGED <<disk, edits, job, i, meta, refused, digests, parts, version, stamped>>

-----------------------------------------------------------------------------
\* Somebody writes, replaces or removes a file.
Save ==
    /\ at \notin Ended
    /\ \E f \in Files, c \in Contents \cup {NoFile} :
           /\ c # disk[f]
           /\ disk' = [disk EXCEPT ![f] = c]
           /\ edits' = edits \cup {<<IF at \in Validating THEN "validate" ELSE "publish", f>>}
    /\ UNCHANGED <<job, at, i, meta, refused, digests, parts, version, stamped, pushed>>

Next ==
    \/ ReadArtifactMeta \/ VetFile
    \/ DigestFile \/ PeekFirst \/ PeekNext \/ ReadBody
    \/ ApplyVersionFlag \/ PackBundle
    \/ Save

Spec == Init /\ [][Next]_vars

-----------------------------------------------------------------------------
(* Properties.                                                             *)

Saved(f) == <<"publish", f>> \in edits
Touched(f) == Saved(f) \/ <<"validate", f>> \in edits

Inputs == {job.files[k] : k \in DOMAIN job.files}

\* The tag is the version in the body, which the hub insists on (publish.go:236).
\* It can differ only where nothing was stamped into the body, and an input was
\* saved during the publish or the merged files disagree about their version.
TagIsBodyVersion ==
    at = "packed" /\ pushed.tag # pushed.version =>
        /\ ~stamped
        /\ \/ \E f \in Inputs : Saved(f)
           \/ \E k \in DOMAIN pushed.parts :
                  pushed.parts[k].version # pushed.parts[1].version

\* The three readings of a file agree, unless it was saved during the publish:
\* the provenance names it with the bytes that went into the body
\* (source.go:41), and those describe the artifact on the label (source.go:60).
ReadingsAgree ==
    at = "packed" =>
        /\ Len(pushed.parts) = Last
        /\ \A k \in DOMAIN job.files :
               ~Saved(job.files[k]) =>
                   /\ pushed.sources[job.files[k]] = pushed.parts[k]
                   /\ pushed.parts[k].type = pushed.type
                   /\ pushed.parts[k].id = pushed.id

Conforms(c) == c # NoFile /\ c.parses /\ c.gemara /\ c.type \in c.fits

\* When validate has gone through the files, each one that does not conform and
\* was not touched meanwhile is among the refused, also after another failed
\* (validate.go:118).
NonconformingIsRefused ==
    job.validates /\ at \notin Validating =>
        \A k \in DOMAIN job.files :
            ~Touched(job.files[k]) /\ ~Conforms(disk[job.files[k]]) => k \in refused

\* What is published of a file that was validated first and not touched since
\* conforms to the type it is published as.
ValidatedIsPublished ==
    at = "packed" /\ job.validates =>
        \A k \in DOMAIN job.files :
            ~Touched(job.files[k]) => pushed.type \in pushed.parts[k].fits
=============================================================================
