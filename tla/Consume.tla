------------------------------- MODULE Consume -------------------------------
(***************************************************************************)
(* The readers of a coordinate: `grcli cat`, `unpack` and `verify`         *)
(* (cmd/cat.go, fetch.go, unpack.go, verify.go), composed with the         *)
(* publishers, the registry and the hub of module Publish.                 *)
(*                                                                         *)
(* The readers of one machine share its artifact cache.  The cache is the  *)
(* store of module EntryStore: a lookup finds what was stored last, or     *)
(* nothing.  Bytes and signature are fetched by two separate walks from    *)
(* the tag, and the cache is asked before either.                          *)
(***************************************************************************)
EXTENDS Publish

CONSTANTS Readers,     \* the invocations that read the coordinate
          Commands,    \* the commands and flags they may use
          Pinned,      \* the runs of the workflow a verifier expects
          ListedOnly,  \* do readers ask only for versions the hub lists?
          NoSig        \* no signature referrer was found

(***************************************************************************)
(* A reader's command and flags.                                           *)
(*   name      the subcommand                                              *)
(*   caching   cache-enabled, and no --no-cache                            *)
(*   noVerify  --no-verify                                                 *)
(*   key       --cosign-key, or its environment or config equivalent       *)
(***************************************************************************)
Command == [name : {"cat", "unpack", "verify"}, caching : BOOLEAN,
            noVerify : BOOLEAN, key : BOOLEAN]

Signature == [subject : Runs, by : Runs]

ASSUME CommandsAssumption == Commands \subseteq Command
ASSUME PinnedAssumption == Pinned \subseteq Runs
ASSUME ListedOnlyAssumption == ListedOnly \in BOOLEAN
ASSUME NoSigAssumption == NoSig \notin Signature

VARIABLES
    cmd,     \* cmd[u]: the command of reader u
    at,      \* at[u]: its next step
    hand,    \* hand[u]: the manifest whose bytes it holds
    subj,    \* subj[u]: the manifest its signature lookup resolved the tag to
    found,   \* found[u]: the signature it found there
    out,     \* out[u]: the manifest whose bytes it has begun to write or print
    stored   \* the manifest whose bytes the machine's cache holds

readers == <<cmd, at, hand, subj, found, out, stored>>

Reading == {"cache", "pull", "put"}
Checking == {"policy", "resolve", "referrers", "verify", "cosign"}
Busy == Reading \cup Checking \cup {"write"}

ReadTypeOK ==
    /\ cmd \in [Readers -> Commands]
    /\ at \in [Readers -> {"idle"} \cup Busy \cup Ended]
    /\ hand \in [Readers -> manifests \cup {NoManifest}]
    /\ subj \in [Readers -> manifests \cup {NoManifest}]
    /\ found \in [Readers -> sigs \cup {NoSig}]
    /\ out \in [Readers -> manifests \cup {NoManifest}]
    /\ stored \in manifests \cup {NoManifest}

ReadInit ==
    /\ cmd \in [Readers -> Commands]
    /\ at = [u \in Readers |-> "idle"]
    /\ hand = [u \in Readers |-> NoManifest]
    /\ subj = [u \in Readers |-> NoManifest]
    /\ found = [u \in Readers |-> NoSig]
    /\ out = [u \in Readers |-> NoManifest]
    /\ stored = NoManifest

Move(u, l) == at' = [at EXCEPT ![u] = l]

\* planUnpackVerify: unpack verifies unless told not to; cat never does.
Verifies(c) == c.name = "unpack" /\ ~c.noVerify

\* What follows the shared fetch stage.
Fetched(u) == IF Verifies(cmd[u]) THEN "policy" ELSE "write"

\* The pinned policy accepts a keyless signature by the expected workflow.
Trusted(s) == s.by \in Pinned /\ cfg[s.by].gha

-----------------------------------------------------------------------------
(* resolveBundle.                                                          *)

Begin(u) ==
    /\ at[u] = "idle"
    /\ ListedOnly => index.status # "absent"
    /\ Move(u, IF cmd[u].name = "verify" THEN "policy" ELSE "cache")
    /\ UNCHANGED <<cmd, hand, subj, found, out, stored>>

\* The cache is asked first; a hit needs no network.  An entry that is not
\* there, or cannot be read, is fetched.
ReadCache(u) ==
    /\ at[u] = "cache"
    /\ \/ /\ cmd[u].caching /\ stored # NoManifest
          /\ hand' = [hand EXCEPT ![u] = stored]
          /\ Move(u, Fetched(u))
       \/ /\ Move(u, "pull")
          /\ UNCHANGED hand
    /\ UNCHANGED <<cmd, subj, found, out, stored>>

\* Discover the registry, mint a pull token, resolve the tag and unpack.
Pull(u) ==
    /\ at[u] = "pull"
    /\ tag # NoManifest
    /\ hand' = [hand EXCEPT ![u] = tag]
    /\ Move(u, IF cmd[u].caching THEN "put" ELSE Fetched(u))
    /\ UNCHANGED <<cmd, subj, found, out, stored>>

\* A cache write that fails is only reported.
PutBundle(u) ==
    /\ at[u] = "put"
    /\ stored' \in {hand[u], stored}
    /\ Move(u, Fetched(u))
    /\ UNCHANGED <<cmd, hand, subj, found, out>>

-----------------------------------------------------------------------------
(* verifyBeforeUnpack and runVerify.                                       *)

\* resolveVerifyPolicy and ensureRegistryToken.  Only the verify command runs
\* cosign for a key; unpack takes the in-process path whatever it is given.
ResolveVerifyPolicy(u) ==
    /\ at[u] = "policy"
    /\ Move(u, IF cmd[u].name = "verify" /\ cmd[u].key THEN "cosign" ELSE "resolve")
    /\ UNCHANGED <<cmd, hand, subj, found, out, stored>>

\* FetchSignatureBundle resolves the tag anew ...
ResolveSubject(u) ==
    /\ at[u] = "resolve"
    /\ tag # NoManifest
    /\ subj' = [subj EXCEPT ![u] = tag]
    /\ Move(u, "referrers")
    /\ UNCHANGED <<cmd, hand, found, out, stored>>

\* ... and returns the first signature the registry lists for the manifest.
DiscoverSignatureBundle(u) ==
    /\ at[u] = "referrers"
    /\ LET refs == {s \in sigs : s.subject = subj[u]} IN
           found' \in {[found EXCEPT ![u] = s] :
                           s \in IF refs = {} THEN {NoSig} ELSE refs}
    /\ Move(u, "verify")
    /\ UNCHANGED <<cmd, hand, subj, out, stored>>

Verify_NilPasses(u) ==
    /\ at[u] = "verify"
    /\ Move(u, IF ~cmd[u].key /\ (found[u] = NoSig \/ Trusted(found[u]))
               THEN IF cmd[u].name = "verify" THEN "done" ELSE "write"
               ELSE "failed")
    /\ UNCHANGED <<cmd, hand, subj, found, out, stored>>

Verify_AnySigner(u) ==
    /\ at[u] = "verify"
    /\ Move(u, IF ~cmd[u].key /\ found[u] # NoSig
               THEN IF cmd[u].name = "verify" THEN "done" ELSE "write"
               ELSE "failed")
    /\ UNCHANGED <<cmd, hand, subj, found, out, stored>>

\* Verifier.Verify: no bundle is ErrUnsigned, and a policy without an identity
\* (a key was given) cannot be built.
Verify(u) ==
    /\ at[u] = "verify"
    /\ Move(u, IF ~cmd[u].key /\ found[u] # NoSig /\ Trusted(found[u])
               THEN IF cmd[u].name = "verify" THEN "done" ELSE "write"
               ELSE "failed")
    /\ UNCHANGED <<cmd, hand, subj, found, out, stored>>

\* cosign verify --key resolves the tag itself and tries every signature.
RunCosignVerify(u) ==
    /\ at[u] = "cosign"
    /\ tag # NoManifest
    /\ subj' = [subj EXCEPT ![u] = tag]
    /\ Move(u, IF \E s \in sigs : s.subject = tag /\ ~cfg[s.by].gha
               THEN "done" ELSE "failed")
    /\ UNCHANGED <<cmd, hand, found, out, stored>>

-----------------------------------------------------------------------------
(* writeBundle or catBundle.                                               *)

\* Writing may fail half way: what is out stays.
WriteBundle(u) ==
    /\ at[u] = "write"
    /\ out' = [out EXCEPT ![u] = hand[u]]
    /\ \E l \in Ended : Move(u, l)
    /\ UNCHANGED <<cmd, hand, subj, found, stored>>

\* Any network call or subprocess may fail, and the process may be killed.
GiveUp(u) ==
    /\ at[u] \in Busy
    /\ Move(u, "failed")
    /\ UNCHANGED <<cmd, hand, subj, found, out, stored>>

ReadStep(u) ==
    \/ Begin(u) \/ ReadCache(u) \/ Pull(u) \/ PutBundle(u)
    \/ ResolveVerifyPolicy(u) \/ ResolveSubject(u)
    \/ DiscoverSignatureBundle(u) \/ Verify(u) \/ RunCosignVerify(u)
    \/ WriteBundle(u) \/ GiveUp(u)

ConsumeInit == Init /\ ReadInit

ConsumeNext ==
    \/ Next /\ UNCHANGED readers
    \/ \E u \in Readers : ReadStep(u) /\ UNCHANGED vars

ConsumeSpec == ConsumeInit /\ [][ConsumeNext]_<<vars, readers>>

-----------------------------------------------------------------------------
(* Properties.                                                             *)

\* Publishers that ask the hub first, none of them overtaken by the listing
\* (those that do not overlap never are), and readers that ask only for what
\* the hub lists.
Disciplined == AllChecked /\ overtaken = {} /\ ListedOnly

\* Whatever publishers left behind and however publishers and readers
\* interleave, the bytes pulled, the bytes cached and the manifest whose
\* signature is checked are then the ones the hub listed: a cache hit is never
\* stale (README.md:187).
ListedReadsAreFrozen ==
    Disciplined =>
        \A u \in Readers :
            {hand[u], subj[u], stored} \subseteq {NoManifest, index.digest}

\* unpack fails closed (unpack.go:214): it writes nothing unless it found a
\* signature by the pinned workflow on the manifest the tag named.
UnpackFailsClosed ==
    \A u \in Readers :
        Verifies(cmd[u]) /\ out[u] # NoManifest =>
            \E s \in sigs : s.subject = subj[u] /\ Trusted(s)

\* The manifest a verifying unpack writes carries such a signature itself.
VerifiedBytes ==
    \A u \in Readers :
        Verifies(cmd[u]) /\ out[u] # NoManifest =>
            \E s \in sigs : s.subject = out[u] /\ Trusted(s)

\* It does when everybody is disciplined, though bytes and signature come from
\* two resolutions of the tag, and the bytes perhaps from the cache.
ListedBytesAreVerified == Disciplined => VerifiedBytes

\* unpack.go:59: unpack "VERIFIES the artifact's Sigstore signature in-process
\* before writing anything, and fails closed -- an unsigned, mis-signed, or
\* unverifiable artifact is refused and no files are written".
UnsignedIsNeverWritten == VerifiedBytes
=============================================================================
