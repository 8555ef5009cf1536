------------------------------- MODULE Publish -------------------------------
(***************************************************************************)
(* `grcli publish` (cmd/publish.go, internal/sign, internal/registry): a   *)
(* set of runs that all publish the same coordinate, the registry they     *)
(* push to and the hub that indexes it.                                    *)
(*                                                                         *)
(* Each run is a sequential program.  The steps of two runs interleave     *)
(* (two CI jobs, or a retry started while the first run still hangs), and  *)
(* a run may stop at any point: a call fails, its answer is lost, or the   *)
(* process is killed.                                                      *)
(*                                                                         *)
(* The provenance record carries the run's start time and invocation id,   *)
(* so every run pushes a manifest of its own: manifest r is the one run r  *)
(* packs.                                                                  *)
(***************************************************************************)
CONSTANTS Runs,        \* the runs of `grcli publish` for this coordinate
          Configs,     \* the flag and environment combinations they may use
          Concurrent,  \* may a run start while another one is active?
          NoManifest   \* the tag or the index entry does not exist

(***************************************************************************)
(* A run's flags and environment.                                          *)
(*   dryRun    --dry-run                                                   *)
(*   url       --url is not empty                                          *)
(*   plain     the repository is a plain <namespace>/<id>                  *)
(*   noSign    --no-sign                                                   *)
(*   gha       GITHUB_ACTIONS is "true"                                    *)
(*   idToken   ACTIONS_ID_TOKEN_REQUEST_TOKEN is set                       *)
(*   key       --cosign-key is set                                         *)
(*   cosign    a cosign of a supported version is on PATH                  *)
(*   regCreds  GRCLI_REGISTRY_TOKEN, or _USERNAME and _PASSWORD, are set   *)
(***************************************************************************)
Config == [dryRun : BOOLEAN, url : BOOLEAN, plain : BOOLEAN,
           noSign : BOOLEAN, gha : BOOLEAN, idToken : BOOLEAN,
           key : BOOLEAN, cosign : BOOLEAN, regCreds : BOOLEAN]

ASSUME ConfigsAssumption == Configs \subseteq Config
ASSUME NoManifestAssumption == NoManifest \notin Runs
ASSUME ConcurrentAssumption == Concurrent \in BOOLEAN

VARIABLES
    cfg,        \* cfg[r]: the configuration of run r
    pc,         \* pc[r]: the next step of run r
    manifests,  \* the manifests present in the registry
    tag,        \* the manifest the tag resolves to
    sigs,       \* signature referrers: the manifest signed, the run signing it
    index,      \* the hub's record of the version
    overtaken   \* history: runs past the availability check, and not yet done
                \* tagging, when the hub first listed the version

vars == <<cfg, pc, manifests, tag, sigs, index, overtaken>>

Ended == {"done", "failed"}
Passed == {"auth", "pack", "tag", "sign", "token", "sync"}   \* past the check
Writing == {"auth", "pack", "tag"}      \* past the check, tag not set yet
Active == {"preflight", "check"} \cup Passed

TypeOK ==
    /\ cfg \in [Runs -> Configs]
    /\ pc \in [Runs -> {"idle"} \cup Active \cup Ended]
    /\ manifests \subseteq Runs
    /\ tag \in manifests \cup {NoManifest}
    /\ sigs \subseteq [subject : manifests, by : Runs]
    /\ index \in [status : {"absent", "present", "tombstoned"},
                  digest : manifests \cup {NoManifest}]
    /\ overtaken \subseteq Runs

Init ==
    /\ cfg \in [Runs -> Configs]
    /\ pc = [r \in Runs |-> "idle"]
    /\ manifests = {}
    /\ tag = NoManifest
    /\ sigs = {}
    /\ index = [status |-> "absent", digest |-> NoManifest]
    /\ overtaken = {}

registry == <<manifests, tag, sigs>>

Goto(r, l) == pc' = [pc EXCEPT ![r] = l]

-----------------------------------------------------------------------------
(* The decisions of one run.                                               *)

\* sign.Preflight: --no-sign, or CI with an id token, or a key and a cosign.
CanSign(c) ==
    \/ c.noSign
    \/ c.gha /\ c.idToken
    \/ ~c.gha /\ c.key /\ c.cosign

\* checkVersionAvailable asks the hub only when there is one to ask and the
\* repository is a coordinate it can be asked about.
Checked(c) == c.url /\ c.plain

\* authenticatePush has nothing to mint without a hub or under an override.
MintsToken(c) == c.url /\ ~c.regCreds

\* resolveTarget: no registry host is known without a hub URL.
HasTarget(c) == c.dryRun \/ c.url

SubjectFor_ByTag(r) == tag

\* What a key-mode signature covers: cosign is given the tag and resolves it;
\* the in-process signer is given the digest this run pushed.
SubjectFor(r) == IF cfg[r].gha THEN r ELSE tag

Quiet == \A q \in Runs : pc[q] \in {"idle"} \cup Ended

-----------------------------------------------------------------------------
(* The steps of one run, in the order runPublish takes them.               *)

\* Load the sources, resolve the target, validate the license; a dry run
\* writes a local layout and is over.
Start(r) ==
    /\ pc[r] = "idle"
    /\ Concurrent \/ Quiet
    /\ Goto(r, IF ~HasTarget(cfg[r]) THEN "failed"
               ELSE IF cfg[r].dryRun THEN "done" ELSE "preflight")
    /\ UNCHANGED <<cfg, registry, index, overtaken>>

Preflight(r) ==
    /\ pc[r] = "preflight"
    /\ Goto(r, IF CanSign(cfg[r]) THEN "check" ELSE "failed")
    /\ UNCHANGED <<cfg, registry, index, overtaken>>

CheckVersionAvailable_OnlyYanked(r) ==
    /\ pc[r] = "check"
    /\ Goto(r, IF Checked(cfg[r]) /\ index.status = "tombstoned"
               THEN "failed" ELSE "auth")
    /\ UNCHANGED <<cfg, registry, index, overtaken>>

\* Present and tombstoned versions both halt the run before it writes.
CheckVersionAvailable(r) ==
    /\ pc[r] = "check"
    /\ Goto(r, IF Checked(cfg[r]) /\ index.status # "absent"
               THEN "failed" ELSE "auth")
    /\ UNCHANGED <<cfg, registry, index, overtaken>>

\* A login that resolves to no token, or a hub that mints none, ends the run.
AuthenticatePush(r) ==
    /\ pc[r] = "auth"
    /\ \/ Goto(r, "pack")
       \/ MintsToken(cfg[r]) /\ Goto(r, "failed")
    /\ UNCHANGED <<cfg, registry, index, overtaken>>

Pack_TagOnly(r) ==
    /\ pc[r] = "pack"
    /\ Goto(r, "tag")
    /\ UNCHANGED <<cfg, registry, index, overtaken>>

\* bundle.Pack: the blobs and the manifest, addressed by digest.
Pack(r) ==
    /\ pc[r] = "pack"
    /\ manifests' = manifests \cup {r}
    /\ Goto(r, "tag")
    /\ UNCHANGED <<cfg, tag, sigs, index, overtaken>>

Tag_KeepsExisting(r) ==
    /\ pc[r] = "tag"
    /\ tag' = IF tag = NoManifest THEN r ELSE tag
    /\ Goto(r, "sign")
    /\ UNCHANGED <<cfg, manifests, sigs, index, overtaken>>

\* target.Tag: the registry accepts the move whatever the tag held before.
Tag(r) ==
    /\ pc[r] = "tag"
    /\ tag' = r
    /\ Goto(r, "sign")
    /\ UNCHANGED <<cfg, manifests, sigs, index, overtaken>>

Sign_Downgrade(r) ==
    /\ pc[r] = "sign"
    /\ Goto(r, "token")
    /\ UNCHANGED <<cfg, registry, index, overtaken>>

\* sign.Sign: repeats the preflight, then attaches a signature referrer.
Sign(r) ==
    /\ pc[r] = "sign"
    /\ CanSign(cfg[r])
    /\ sigs' = IF cfg[r].noSign THEN sigs
               ELSE sigs \cup {[subject |-> SubjectFor(r), by |-> r]}
    /\ Goto(r, IF cfg[r].url THEN "token" ELSE "done")
    /\ UNCHANGED <<cfg, manifests, tag, index, overtaken>>

\* The login token is resolved a second time, after the push: it may be gone.
ResolveBearerToken(r) ==
    /\ pc[r] = "token"
    /\ \E l \in {"sync", "failed"} : Goto(r, l)
    /\ UNCHANGED <<cfg, registry, index, overtaken>>

\* POST /v1/bundles/sync: the hub resolves the tag itself, and lists what it
\* finds unless the version is already taken by other bytes or yanked.  The
\* answer may be lost after the hub has acted.
Accepts(i) == i.status = "absent" \/ (i.status = "present" /\ i.digest = tag)

Sync(r) ==
    /\ pc[r] = "sync"
    /\ \/ /\ Accepts(index)
          /\ index' = [status |-> "present", digest |-> tag]
          /\ overtaken' = IF index.status = "absent"
                          THEN {q \in Runs : pc[q] \in Writing} ELSE overtaken
          /\ \E l \in Ended : Goto(r, l)
       \/ /\ ~Accepts(index)
          /\ Goto(r, "failed")
          /\ UNCHANGED <<index, overtaken>>
    /\ UNCHANGED <<cfg, registry>>

-----------------------------------------------------------------------------
(* The environment.                                                        *)

\* A call that fails without effect, a cancelled context, a killed process.
Abort(r) ==
    /\ pc[r] \in Active
    /\ Goto(r, "failed")
    /\ UNCHANGED <<cfg, registry, index, overtaken>>

\* The owner yanks the listed version on the hub.
Yank ==
    /\ index.status = "present"
    /\ index' = [index EXCEPT !.status = "tombstoned"]
    /\ UNCHANGED <<cfg, pc, registry, overtaken>>

Step(r) ==
    \/ Start(r) \/ Preflight(r) \/ CheckVersionAvailable(r)
    \/ AuthenticatePush(r) \/ Pack(r) \/ Tag(r)
    \/ Sign(r) \/ ResolveBearerToken(r) \/ Sync(r)

Next ==
    \/ \E r \in Runs : Step(r) \/ Abort(r)
    \/ Yank

Spec == Init /\ [][Next]_vars

-----------------------------------------------------------------------------
(* Properties.                                                             *)

Signed(m) == \E s \in sigs : s.subject = m

Uploaded(r) == pc[r] = "done" /\ ~cfg[r].dryRun

\* Every run asks the hub before it writes, as the default flags make it do.
AllChecked == \A r \in Runs : Checked(cfg[r])

\* A listed version's tag resolves to the bytes the hub listed, whatever fails
\* and however runs overlap, as long as the listing overtook no run between
\* its availability check (publish.go:172) and its tag.  Runs that do not
\* overlap are never overtaken.
TagMatchesIndex ==
    AllChecked /\ overtaken = {} /\ index.status # "absent" => tag = index.digest

\* A run that reports success has its own bytes listed, not another run's:
\* Sync names the tag, and the hub resolves it (publish.go:346).
SuccessListsOwnBytes ==
    ~Concurrent /\ AllChecked =>
        \A r \in Runs : Uploaded(r) => index.digest = r

\* When every publisher signs, the version the hub lists carries a signature,
\* though earlier runs may have left unsigned bytes at the tag (publish.go:327).
ListedIsSigned ==
    (~Concurrent /\ AllChecked /\ \A r \in Runs : ~cfg[r].noSign)
        => (index.status # "absent" => Signed(index.digest))

\* A publish never silently downgrades to unsigned (sign.go:230): a run that
\* succeeds without --no-sign attached a signature, and a keyless one attached
\* it to the very manifest it pushed, however many other runs moved the tag.
NoSilentDowngrade ==
    \A r \in Runs :
        Uploaded(r) /\ ~cfg[r].noSign =>
            \E s \in sigs : /\ s.by = r
                            /\ cfg[r].gha => s.subject = r

\* Once the hub lists a version the tag moves only under a run that had passed
\* the availability check before the listing, or one that never asked.
OnlyOvertakenRunsMoveAListedTag ==
    [][index.status # "absent" /\ tag' # tag =>
          tag' \in overtaken \/ ~Checked(cfg[tag'])]_vars

\* While no run is overtaken, as when runs do not overlap, readers get the
\* coordinate of module Coordinate: a draft until it is listed, frozen bytes
\* from then on.
C == INSTANCE Coordinate WITH Manifests <- Runs, bytes <- tag,
                              state <- index.status
ImplementsCoordinate == C!Spec

-----------------------------------------------------------------------------
(* What the documentation says and interleavings or failures refute.       *)

\* publish.go:167: the check "is what stops a re-publish from clobbering
\* existing bytes in the registry".
RepublishNeverClobbers ==
    [][index.status # "absent" => tag' = tag]_vars

\* README.md:230: publish "fails before pushing when it can't sign, so nothing
\* unsigned reaches the registry".
NothingUnsignedIsLeftBehind ==
    \A r \in Runs :
        pc[r] \in Ended /\ tag = r /\ ~cfg[r].noSign => Signed(r)

\* sign.go:230: "Sign attaches a cosign signature to the pushed manifest".
SignsThePushedManifest ==
    \A s \in sigs : s.subject = s.by
=============================================================================
