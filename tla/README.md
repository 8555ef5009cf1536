# A TLA+ development for grcli

grcli publishes, reads and verifies Gemara artifacts. It is a sequential Go
program, run by people and by CI jobs; what is hard about it is not inside one
process but between processes. Several invocations work on the same coordinate
`<namespace>/<id>:<version>` of one registry, one hub and one cache directory,
none takes a lock, and every call to the outside may fail or never answer. This
directory models those interactions, checks them with TLC on small instances, and
proves the main results with TLAPS for instances of any size.

Paths below are relative to `src/`.

## 1. Inventory

| Component | State it keeps | Operations | What is hard | What makes it correct |
|---|---|---|---|---|
| publish (`cmd/publish.go`) | none of its own; writes the tag, the manifests, the hub's index | `runPublish`: load, resolve, preflight, availability check, push token, pack, tag, sign, login token, sync | check and push are separate; any step may fail; runs overlap or are retried | listed bytes never change; a success lists the run's own bytes; nothing listed is unsigned unless asked |
| signing (`internal/sign`) | signature referrers in the registry | `Preflight`, `Sign`, in CI keyless, with a cosign key, or skipped | key mode signs a tag, not a digest | never a silent downgrade to unsigned |
| registry client (`internal/registry`) | none | `Push`, `UnpackRemote`, `FetchSignatureBundle`, `discoverSignatureBundle` | a tag is resolved again by every call | the reader gets a bundle the registry holds |
| hub client (`internal/hub`) | the discovery memo of the process | `VersionExists`, `Sync`, license and identity lookups, `Discover`, token minting | answers lost after the hub acted; answers that later events outdate | what the hub said is kept as it was said |
| registry tokens (`cmd/regtoken.go`) | one environment variable | `ensureRegistryToken`, `mintRefPullToken` | the variable is shared by every repository one run pulls from | each pull presents a token for its own repository |
| reading (`cmd/fetch.go`, `cmd/cat.go`) | the cache entry | `resolveBundle`, `putBundle` | cached bytes are older than the tag | what a reader gets is what is listed |
| unpack (`cmd/unpack.go`) | the output directory, `references/index.json` | `runUnpack`, `verifyBeforeUnpack`, `writeBundle`, `resolveReferences`, `fetchReference`, `writeReference` | verify and write act on two reads of one tag; references fail one at a time; file names come from the bundles, and the directory may be in use | nothing unverified is written; the index says what is on disk; every path is its owner's; a success is complete |
| verify (`cmd/verify.go`) | none | `runVerify`, `resolveVerifyPolicy`, `resolveHubIdentity`, `runCosignVerify` | the recorded signer, the tag and the signatures are read one after the other, while all of them change | accepts only what the wanted signer signed, rejects only for a cause |
| signature verification (`internal/sigverify`) | none | `Verify` | a goroutine raced by a timeout, which may outlive its caller; nothing else has one | `Verify` returns once it is called, and the goroutine ends once it has its answer |
| artifact cache (`internal/cache`) | a directory per coordinate | `Get`, `Put` | file by file, in place, no lock; crashes | a hit is one entry somebody stored, whole |
| source loading (`internal/source`, `internal/digest`) | none | `Load`, `SetVersion` | each file is read three times, and may be saved in between | tag, label, provenance and body agree about what was left alone |
| reference scanning (`internal/refs`, `cmd/reflint.go`) | none | `Scan`, `Recognize`, `Select`, `Lint` | | |
| provenance (`internal/provenance`) | none | `Build` | | names the bytes that were packed |
| validate (`cmd/validate.go`) | the count of failures | `runValidate`, `readArtifactMeta`, `vetFile` | validate and cue read the file separately; the loop goes on after a failure | no bad file passes |
| versions, login and logout, configuration | none of their own | one call each | | |

The components meet at five pieces of shared state: the tag and the manifests
(publish writes, every reader and cosign resolve), the signature referrers (sign
attaches, verify looks up), the hub's index (sync writes, the availability check
reads), the cache entry (readers read and write, uninvited), and the token
variable (written by each pull of one process). `PROJECT.json` lists every
component with its status, and under `hazards` each place where these
interactions can go wrong.

## 2. Modules

```
Coordinate  <-- refines --  Publish   <-- extends --  Consume
EntryStore  <-- refines --  ArtifactCache
Sources     Verification    References    OutputTree
```

The last row are views of one command each, at a finer grain than `Publish` and
`Consume`: `Sources` is what `Start` of `Publish` hands over, `Verification` what
`Consume` calls a trusted signature, `References` and `OutputTree` what its write
step does.

**`Publish`** models any number of runs of `grcli publish` for one coordinate.
`pc[r]` is the next step of run r, one action per call of `runPublish` that can
fail or changes shared state, in the order of the code: `Start`, `Preflight`,
`CheckVersionAvailable`, `AuthenticatePush`, `Pack`, `Tag`, `Sign`,
`ResolveBearerToken`, `Sync`. `registry.pack` is two writes, `Pack` (blobs and
manifest) and `Tag`. A run's flags and environment are one record, chosen
initially; the decisions they take are operators named after the functions
(`CanSign`, `Checked`, `MintsToken`, `HasTarget`). A manifest is identified with
the run that packed it, because the provenance record in it holds the start time
and the invocation id. `Abort` is a call that fails without effect, a cancelled
context or a killed process; `Sync` may act and still fail, which is the lost
answer; `Yank` is the hub's own. The hub's rule for a sync (`Accepts`) is
external: it is modelled from what `checkVersionAvailable` and the client say of
it, a version already taken by other bytes or yanked is rejected. The constant
`Concurrent` decides whether runs may overlap.

**`Coordinate`** is the promise: a draft may be replaced until it is listed, then
its bytes are frozen, and a yank is final.

**`Consume`** adds readers to `Publish`: `cat`, `unpack` and `verify`, each a
command record in the configurations that matter (`--no-cache`, `--no-verify` or
not, keyless or key). `hand[u]` is the manifest whose bytes the reader holds,
`subj[u]` the manifest its signature lookup resolved the tag to, `found[u]` the
signature it chose. That these are separate variables, as they are separate
registry calls in the code, is the point of the module. The signature a lookup
picks among several is any of them. The identity a verifier pins is a set of
trusted runs, `Pinned`. `ListedOnly` restricts readers to versions the hub lists,
which is what a user who found the version on the hub does.

**`ArtifactCache`** models one entry's directory at the level of single files.
`os.WriteFile` is two steps, `Truncate` and `Fill`; a file is missing, empty,
whole or torn, and torn also when two writers overlay each other. Slots
`1..Last` are the entry's files and `bundle.json`, written in this order, slot
`Meta` is `meta.json`, written last. A blob stands for its digest, so that
`Intact` is the digest comparison of `readBlob`. `AbandonPut` is a failed write
or a kill. Four history variables record what was stored, by whom, undisturbed or
not, and who was interrupted.

**`EntryStore`** is the cache's promise to its clients: a register for which puts and
lookups, which may overlap, take effect at one moment each. It may lose what it holds
while a put is under way and may fail to answer, but an answer is the entry it held at
some moment of that very lookup. `ArtifactCache` implements it with `Current`, what
`meta.json` decodes to, as the register: a put takes effect when the last file is
whole, a lookup when it opens that file. This is what lets `Consume` and `References`
treat the cache as one variable per coordinate with atomic reads and writes, puts that
may have no effect, and losses.

**`References`** models `unpack --with-references` after the fetch of the
primary: the loop of `resolveReferences` with its four ways to go on,
`fetchReference` with the healing of licenses, the memo of the registry
discovery, the token variable, the write of each reference and the index. Which
license the hub has for a version is a constant (`License`), but whether it lists the
version is not (`listing`, changed by `List` and `Yank`): `referenceLicense` answers
"no license" for a version that is not listed, and `Confirmed` does so too. Two
history variables say what made an entry what it is: `blank`, the versions somebody
asked about while they were not listed, and `late`, the invocations that read the
cache before an answer of the hub was stored in it. Once `hub.Discover` has succeeded,
for the primary or for a reference, the process remembers it; its failure is
remembered by `resolveRegistryHost` (`host`). The
invocations share a cache, one record per coordinate (how a record is stored is
`ArtifactCache`). A `cat` of the same coordinates is a job too, because
`putBundle` writes the same entries with different metadata. What the registry
holds at a coordinate is one of five kinds of bundle: with a file, without, with
an unsafe name, with imports, or nothing.

**`Verification`** follows `verify`, and the verification of `unpack`, from the
flags to the verdict: `CheckFlags`, `Discover`, `LookUpIdentity`,
`EnsureRegistryToken`, `ResolveTag`, `DiscoverSignatureBundle`, `BeginVerify`, and
`RunCosignVerify` for a key. Where `Consume` has a set of trusted runs, here an
identity is a workflow path at a ref, and an issuer; the policy pins what the flags
or the hub's record say (`Matches`). A referrer may be of either artifact type,
malformed, signed with a key, or copied from another manifest (`over`). `Attach`,
`Retag` and `Record` are everybody else's. The goroutine of `Verify` is three
actions of its own: `Compute` may never happen, `Send` puts the answer into the
channel, and `Receive` and `TimeOut` compete for it, both possible when answer and
timer are there. The goroutine runs on after its caller is gone, as it does in the
package; that the command exits soon after only cuts behaviours short.

**`Sources`** models `grcli validate -f ... && grcli publish ...` over the author's
files until the bundle is assembled. Every reading of a file is an action:
`ReadArtifactMeta` and `VetFile` (cue opens the file anew), `DigestFile`,
`PeekFirst` and `PeekNext`, `ReadBody`; `ApplyVersionFlag` and `PackBundle` follow.
`Save` changes, creates or removes a file at any moment in between, and `edits`
remembers it. A content stands for its own digest. Which metadata go-gemara keeps
when it merges files is left open (`BodyVersions`).

**`OutputTree`** is the output directory of `unpack`, path by path. A name is the
sequence of its segments, `Clean` is `filepath.Clean` as a fold over them, and the
writers (`PathOf`, `DataOf`) are the files of the bundle, its imports, its
`bundle.json`, those of each reference, and the index. `Made` and `Written` are
`os.MkdirAll` and `os.WriteFile`; a file or directory in the way makes them fail,
and a failure may leave some directories or a torn file (`Damaged`). The directory
may hold an earlier unpack. An entry of the cache may list several files, so a
reference may have any number, though `pack` writes one.

The `MC*` modules give the constants their values for TLC; a `.cfg` per run.
`*Proofs` modules hold the theorems. `map` in `PROJECT.json` relates each
definition to the lines it stands for.

Definitions with a suffix, such as `CheckVersionAvailable_OnlyYanked`, are faulty
variants of the definition they are named after. No specification uses them; they
document, with `mutants` in `PROJECT.json`, which mistake in the code each
property would reveal.

## 3. Runs

| Run | Instance | Shows |
|---|---|---|
| `MCPublishSequential` | three successive runs, six configurations, yank, failures anywhere | a success lists its own bytes, what is listed is signed, `Coordinate` is implemented |
| `MCPublishConcurrent` | three overlapping runs, four configurations | no silent downgrade; a listed tag is moved only by a run the listing overtook, or one that never asked, and keeps the listed bytes if there is no such run |
| `MCArtifactCache` | two processes, two slots and `meta.json`, three entries, kills | hits are stored entries, an undisturbed put reads back, puts of equal bytes converge, the files implement the register of `EntryStore` |
| `MCConsumeListed` | two publishers that may overlap, some of them unsigned, two readers of listed versions, five commands | unless a publisher is overtaken, reads are of the listed bytes and written bytes are the verified ones; and unpack writes nothing unless the manifest it looked up carries a trusted signature |
| `MCReferences` | two invocations, three jobs, one of them a `cat`; one lists the other's primary; one cache; one version listed and yanked meanwhile | accounting, index, tokens, what may be cached; a license is what the hub said, and is kept; discovery is final |
| `MCVerification` | one call in seven configurations of flags, two attachments of nine kinds, two manifests, three records | what is accepted is authentic, what is signed is not called unsigned, a rejection has a cause, every policy can be built, `Verify` returns, and its goroutine ends |
| `MCSources` | one or two files, five contents, four jobs, saves anywhere | tag, label, provenance and body agree about what was left alone; validate lets nothing bad through |
| `MCOutputTree` | eight sets of files, four of imports, four lists of references, three directories, with and without a manifest | every path is its owner's, a success is complete, a refused reference leaves nothing |
| `MCPublishClobber`, `MCPublishUnsigned`, `MCPublishWrongManifest`, `MCConsumeUnverified` | two runs, two readers | a claim of the documentation is refuted (section 5) |

**Bounds.** Three runs of publish are what the history arguments need: one that
leaves a draft, one that is overtaken, one that lists. Two readers share the
cache, since every property relates one reader's step to one other actor's.
Two processes are the fewest that interleave puts, with two blob slots so that one
process can be ahead of the other inside an entry; three entries are two with the
same bytes and different metadata (as healing produces) and one with other bytes
and a missing slot. The reference lists hold a repetition, the invocation's own
primary, an unrecognized URL, and each refused kind. One version may be listed and
yanked (`Moving`), the one both invocations work on: the entry of a version is not
related to that of another. One call of a verification is
enough for its safety, because calls share nothing but the registry and the hub,
which the other actions change at will; `MaxAttached`, two, lets a good signature
stand beside a bad one. Two files are the fewest that can disagree, and a file can
be saved any number of times. The bundles of `MCOutputTree` have one file under
each name that matters: plain, leading upwards, absolute, the directory itself,
`bundle.json`, inside `imports/` and inside a reference's directory; the
directories are empty, left by an earlier unpack, and blocked by files where
directories are needed and the other way round. No other counter is bounded
artificially: every behaviour is finite because a command ends, except for the
cache module, where processes work for ever and the state space is finite by
itself. The theorems of section 4 remove the bounds for every property the passing
runs check.

**Symmetry** is used in safety runs only, over readers or processes, whose names
no definition mentions. **Deadlock** is not checked where the system may stop:
commands end, and when all have, nothing is left to do. The cache run checks it.

**Fairness.** Nothing in the code makes a publish, an unpack or a verify end: the
requests of oras go through `retry.DefaultClient` (`internal/registry/registry.go:131`),
the token request through `http.DefaultClient` (`internal/sign/keyless.go:153`), cosign
runs in a context without a deadline (`internal/sign/sign.go:290`), and a server that
accepts and never answers holds the command forever. So no fairness is assumed of any
step that waits for one of them, and no module but `Verification` claims liveness. There
`FairSpec` asks for weak fairness of what depends on the process alone: `Verify`, once
called with its bundle, starts its goroutine or refuses (`BeginVerify`); `select` takes
an answer or the timer's tick (`Receive` or `TimeOut`); a goroutine that has its answer
goes on (`Send`). `Compute` is not fair, since nothing bounds the library's work.
`VerifyReturns` says that this cannot hold `Verify` up, `WorkerEnds` that the goroutine
is not stuck on a channel nobody reads.

## 4. Theorems

All are for any number of runs, readers, processes, slots, entries and
configurations, under the assumptions on the constants that the modules name
(`ConfigsAssumption` and so on: the constants have the shapes described, and the
values that stand for "none" are no values).

`PublishProofs`
- `PublishTypeOK`, from the inductive `TypeInv`: beyond types, a run past `Pack`
  has its manifest in the registry, without which the tag could not be typed.
- `PublishNeverDowngrades`, from `SignInv`: a run past `Sign` attached its
  signature. No assumption about overlap.
- `PublishOvertaken`: a run about to tag a listed version passed the check before
  the listing (it is in `overtaken`) or was never checked; hence the action
  property.
- `PublishTagMatchesIndex` and `PublishImplementsCoordinate`, from `CalmInv`, for runs
  that overlap in any way: what breaks the promise of a coordinate is not an overlap
  as such, but that the listing overtakes a run between its availability check and its
  tag. Until it has overtaken one (`Calm`), nobody is left who may still move the tag,
  and the tag is the listed one. `overtaken` is a history variable that only the first
  listing writes, so that calm, once lost, is lost for good (`CalmBefore`).
- `PublishSuccessListsOwnBytes` and `PublishListedIsSigned` do need runs that do not
  overlap, because `Sync` names the tag, and another run may have moved it before
  anything is listed. `SeqInv`: at most one run is active; if it is past the check,
  the version is not listed; if it is past `Tag`, the tag is its own. The properties
  themselves are not inductive, since none says where the active run is.
  `PublishSequentialImplements` follows: such runs are never overtaken.
- Three theorems say what is left of claims that section 5 refutes:
  `PublishCalmNeverClobbers`, which follows from the refinement;
  `PublishSignsOwnManifest`, if runs do not overlap or all sign in CI, from the
  invariant that a run which does not overlap another still owns the tag when it signs
  (`OwnsTag`); `PublishPushersCanSign`, that nothing is pushed by a run whose
  configuration cannot sign, from `ReadyInv`.

`ArtifactCacheProofs`
- `CacheTypeOK` and `CacheHitWasPut`, from `HitInv`: the `meta.json` a lookup decoded
  was stored, and the blobs it has read are the ones that file records. The digest
  check makes this inductive: nothing is needed of the files themselves.
- `CacheImplementsStore`, for any number of files and of processes that overlap and are
  killed anywhere. Of the many writes of a put two show, those to `meta.json`: at the
  truncation the register loses its entry, at the fill the put takes effect, unless
  another put spoils it; the writes of blobs are stutters (`PutStutters`). A lookup has
  read the register when it has decoded `meta.json`; what happens to the files
  afterwards can only turn its answer into an error (`ReturnAnswers`), and here `HitInv`
  is needed: the blobs it assembles are those of the entry it decoded.
- `CacheLonePutIsReadable`, from `LoneInv`: an undisturbed put has its slots
  before `pos` on disk.
- `CacheAgreeingPutsConverge`, from `AgreeInv`: while all puts agree, a blob slot
  is missing, empty with a writer about to fill it, or the common blob.

`ConsumeProofs`
- `ConsumeTypeOK`, and `ConsumeFailsClosed` from `CheckInv`: the signature a
  writing reader accepted is trusted and on the manifest it looked up, however
  publishers and readers interleave.
- `ConsumeListedReadsAreFrozen` and `ConsumeListedBytesAreVerified`, from
  `FrozenInv`: while no publisher is overtaken, however publishers and readers overlap,
  and readers read what is listed, everything in a reader's hand, in its lookup and in
  the cache is the listed manifest. That calm is lost for good once it is lost is what
  lets the invariant be conditional on the calm of the present state. Every step of
  `Consume` is a step or a stutter of `Publish` (`ConsumeIsPublish`), so the theorems
  about `Publish` are used as they are.

`ReferencesProofs`
- `ReferencesTypeOK`: beyond types, an invocation in the middle of a reference is
  within its list.
- `ReferencesTokens`, `ReferencesLicenseIsWhatTheHubSaid` and
  `ReferencesCacheDropsNothing`, from `Carried`: what an invocation may hold between
  reading the cache and storing. None of the three is inductive: a put stores what was
  decided several steps earlier, so the invariant says of each intermediate value what
  the property says of the stored one, while the hub goes on listing and yanking. That
  `blank` only grows is why a later listing does not falsify an earlier answer.
- `ReferencesConfirmationsAreKept`, from `LateInv`: an invocation that may be about to
  store something for a coordinate either found no confirmed entry when it read the
  cache, and the cache still has none, or is `late`. So a put that takes a confirmed
  license back is one of an invocation that read before the answer was stored, the
  only loss that the missing lock costs.
- `ReferencesDiscoveryIsFinal`, from `Discovered`: an invocation between discovery and
  the pull has a registry.
- `ReferencesIndexMatchesDisk` and `ReferencesEveryReferenceAccounted`, from
  `Accounted`: a reference that is taken up is met for the first time and nothing
  of it is on disk, indexed or skipped; every reference before the current one is
  accounted for. It builds on `Carried` and needs no induction over the list,
  since each step accounts for one reference.

`VerificationProofs`
- `VerificationTypeOK`: beyond types, a call has resolved a manifest before it
  looks for signatures, the goroutine was started with a bundle, and its channel
  never holds more than one answer.
- `VerificationAcceptedIsAuthentic`, `VerificationSignedIsNotCalledUnsigned`,
  `VerificationRejectedForACause` and `VerificationPolicyIsBuildable`, from
  `CallInv`, for any number of calls and attachments. The properties speak of
  outcomes only; the invariant carries what is behind them through the steps: the
  policy is that of the flags or of a record the hub had (`PolicyInv`), the bundle
  in hand is attached to the manifest that was resolved (`LookupInv`), and the
  channel is empty or holds the verdict on that bundle (`WorkerInv`). The world
  only adds attachments and records, so it cannot take any of this back.

`SourcesProofs`
- `SourcesTypeOK`, `SourcesTagIsBodyVersion`, `SourcesReadingsAgree`,
  `SourcesNonconformingIsRefused` and `SourcesValidatedIsPublished`, for lists of
  files of any length, a file perhaps several times. Each loop has its part of the
  invariant: for the files it has gone through, unless they were saved since, what
  it read is what the disk still holds (`ValidateInv`, `DigestInv`, `PeekInv`,
  `BodyInv`). Comparing every reading with the disk, and not with each other, is
  what makes a save easy: it exempts its file from all of them at once.

`OutputTreeProofs`
- The central lemma is `Effect`: whether it succeeds or fails, a write changes one
  path, its own, and makes directories above it that were not there. Every step
  leaves the tree alone, makes `imports/`, or is such a write by a writer that stays
  where it belongs (`StepWrites`); that `imports/` is a directory while imports are
  written (`ImportsInv`) and that the names of the current and the indexed
  references were checked (`NamesInv`) is needed for that.
- `OutputTreeTypeOK` and `OutputTreeEachPathIsItsOwners` follow from it, and
  `OutputTreeRefusedLeavesNothing` because the directories of two references have
  the same depth, so that no path is below both.
- `OutputTreeWrittenIsWhole`, from `Progress`, which says at each step which files
  must be whole already.
- That `filepath.Clean` of a name is a path is an assumption (`CleanAssumption`),
  which TLC evaluates for the names of the run: a fold over a sequence of any
  length needs induction over data, which the provers cannot do. What `Clean`
  computes is not used otherwise; the guards of the code decide on its result.

Progress (`VerificationVerifyReturns`, `VerificationWorkerEnds`)
- The temporal backend reasons about weak fairness, but no backend can compute
  ENABLED. So each theorem has a hypothesis for each fair action (`BeginEnabling`,
  `AnswerEnabling`, `SendEnabling`): where its guard holds, it is enabled. This is
  read off the actions, each of which is a guard and assignments. It assumes nothing of
  the environment; TLC, which computes ENABLED, finds it true of the instance of the run
  and checks the properties there without it.
- Everything else is proved: that nobody else, neither the goroutine nor another call nor
  the world, moves a call that is in `Verify` (`VerifyIsItsOwn`), and that a goroutine
  that has its answer finds room in the channel, because it is the only one to send and
  sends once (`RoomToSend`).

Only model-checked: what the fold in `Clean` computes, which the runs evaluate; and
ENABLED, as just said.

## 5. Where code and documentation disagree

- **A republish can clobber** (`MCPublishClobber`). `cmd/publish.go:167` says of
  the availability check that it "is what stops a re-publish from clobbering
  existing bytes in the registry". Two overlapping runs both find the version
  absent; the later push moves the tag of the version listed for the earlier one.
  `OnlyOvertakenRunsMoveAListedTag` is what holds instead, and without such a run the
  sentence is true (`PublishCalmNeverClobbers`).
- **Unsigned bytes can reach the registry** (`MCPublishUnsigned`). `README.md:230`
  says publish fails before pushing when it cannot sign, "so nothing unsigned
  reaches the registry". Preflight finds a misconfiguration; a failure of the
  signature after the push leaves the unsigned bytes at the tag. What a run pushes it
  was configured to sign, though (`PublishPushersCanSign`).
- **A key-mode signature may cover another manifest** (`MCPublishWrongManifest`).
  `internal/sign/sign.go:230` says Sign attaches a signature "to the pushed
  manifest"; in key mode cosign gets the tag. Another run may have moved it, and only
  then is the sentence wrong (`PublishSignsOwnManifest`).
- **Bytes can be written that nobody signed** (`MCConsumeUnverified`).
  `cmd/unpack.go:59` says unpack verifies "before writing anything, and fails
  closed". It verifies the manifest the tag resolves to at that moment, and writes
  the bytes it fetched earlier, perhaps from the cache; the two digests are not
  compared. `ListedBytesAreVerified` says when they are the same.

Smaller things met on the way, none with a run of its own: `cmd/unpack.go:587` says
that an answer without a license "means the catalog genuinely records none for that
version", and `internal/cache/cache.go:60` calls the mark it leaves "hub confirmed no
license — stop asking", but for a version that is in the registry and that the hub does
not list, not yet or not any more, `ReleaseFor` finds nothing and the answer is the same
(`cmd/unpack.go:602`): the entry is never looked up again, and the license that the hub
lists later reaches neither the mismatch warning nor the index until the cache is
cleared (the case that `blank` is for in `LicenseIsWhatTheHubSaid`; `MCReferences`
reaches it); `README.md:187` says
tags are immutable, "so a cache hit can never be stale"; until the hub lists the
version they are not, a failed publish is cached and its retry replaces the bytes,
and `ListedReadsAreFrozen` says when the sentence is true; a kill inside the write
of `meta.json` makes `Get` return an error, not the "clean miss" its comment
promises (every caller treats both alike); `putBundle` can replace an entry whose
license was confirmed by one whose license was never looked up, so that
"healed at most once" (`internal/cache/cache.go:62`) is true only of one
invocation at a time (`ConfirmationsAreKept`); `fetchReference` also caches a bundle
without files, which `putBundle` refuses and which `cat` and `unpack` then pull anew
each time; every call without a deadline named under "Fairness" can hang a command; the branches of `checkVersionAvailable`,
`authenticatePush` and `signAndNotify` for an empty hub URL are not reachable on
a real publish, since `resolveTarget` refuses it; `--version` is not written into
the body when it equals the version that was peeked, so that an edit in between, or
merged files that disagree, can leave another version there (`TagIsBodyVersion`
names exactly these cases); `unpack` accepts `--key` up to the policy, where it
fails for want of an identity; `unpack` into a used directory leaves an earlier
`bundle.json` or `references/index.json` in place when it writes none itself.

## 6. Not modelled, and why

- Inside the hub: that it resolves the tag and lists the version is one step of `Sync`,
  and a request that is still under way after the client has given up on it is one that
  took effect before, or not at all. How the catalog shows a yanked version is taken
  to be by not listing it among its releases.
- Certificate chains and transparency log entries: a library's cryptography; here a
  signature is over a manifest, by an identity, or invalid. That the regular
  expression for a recorded identity admits exactly one workflow path is taken from
  the quoting and anchoring in the code.
- `ctx.Done()` in `Verify`: no caller's context is ever cancelled, as `main` installs
  no signal handler. A blob of zero bytes as a signature bundle.
- Parsing and formatting: YAML, JSON, SPDX expressions, reference URLs, output. Hence
  of `internal/refs` only whether a reference names a coordinate is modelled, and
  of `internal/provenance` only the artifact and its sources.
- `--source` layouts: they touch none of the shared state.
- `versions`, `login`, `logout`, configuration: each is one call to the hub or to a
  library, with no state between steps and nothing that another process could
  interleave with.
- Whether a body still conforms after `--version` is stamped into it, which happens after
  validation: the schemas a content fits are a field of it, and a stamp leaves them
  alone. With a local spec, `validate` does not read the gemara-version; the contents of
  such a project have `gemara = TRUE`.
- The mapping of coordinates to cache directories (`sanitize`): the cache modules
  know coordinates, not their spelling. The hazard is listed without a property.
- In the output directory: symbolic links, file systems that fold case, two processes
  unpacking into one directory, and a version containing "/", which would make the
  directory of its reference deeper.

## 7. Plan

Done, in this order: `Coordinate`, `Publish`; `EntryStore`, `ArtifactCache`;
`Consume`; `References`; `Verification`; `Sources`; `OutputTree`; each with its
proofs.

Left, the most useful first:

1. Compositions that are now made by reading the modules side by side: `Sources` in
   place of `Start` in `Publish`, `Verification` in place of the trusted runs of
   `Consume`, and a refinement of the store of `References` by `ArtifactCache`.
2. Pure operators: `refs.Select` (preference and deduplication) and `sanitize`,
   checked against a reference definition over bounded inputs.
