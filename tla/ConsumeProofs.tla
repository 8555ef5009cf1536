---------------------------- MODULE ConsumeProofs ----------------------------
(***************************************************************************)
(* Proofs about module Consume.  Readers leave the publishers' variables   *)
(* alone, so what PublishProofs proves of them holds of the composition,   *)
(* and the invariants of the readers are proved on top of it.              *)
(***************************************************************************)
EXTENDS Consume, PublishProofs

allVars == <<vars, readers>>

\* A step of the composition is a step of the publishers or leaves them alone.
LEMMA ConsumeIsPublish == ConsumeSpec => Spec
<1>1. ConsumeInit => Init
  BY DEF ConsumeInit
<1>2. [ConsumeNext]_<<vars, readers>> => [Next]_vars
  BY DEF ConsumeNext
<1> QED
  BY <1>1, <1>2, PTL DEF ConsumeSpec, Spec

LEMMA ConsumeTypeInv == ConsumeSpec => []TypeInv
BY ConsumeIsPublish, PublishTypeInv, PTL

\* The registry forgets nothing, and no run changes its configuration.
LEMMA RegistryGrows ==
    ASSUME TypeInv, [Next]_vars
    PROVE  manifests \subseteq manifests' /\ sigs \subseteq sigs' /\ cfg' = cfg
BY DEF Next, Step, Start, Preflight, CheckVersionAvailable, AuthenticatePush,
       Pack, Tag, Sign, ResolveBearerToken, Sync, Abort, Yank, registry, vars

(***************************************************************************)
(* Type correctness of the readers.                                        *)
(***************************************************************************)
LEMMA NextReadTypeOK ==
    TypeInv /\ ReadTypeOK /\ [ConsumeNext]_<<vars, readers>> => ReadTypeOK'
<1> SUFFICES ASSUME TypeInv, ReadTypeOK, [ConsumeNext]_<<vars, readers>>
             PROVE  ReadTypeOK'
  OBVIOUS
<1> USE DEF ReadTypeOK, Busy, Reading, Checking, Ended, Move, Fetched
<1>0. TypeOK
  BY DEF TypeInv
<1>1. CASE Next /\ UNCHANGED readers
  <2>1. manifests \subseteq manifests' /\ sigs \subseteq sigs'
    BY <1>1, RegistryGrows
  <2>2. UNCHANGED readers
    BY <1>1
  <2> QED
    BY <2>1, <2>2 DEF readers
<1>2. ASSUME NEW u \in Readers, ReadStep(u), UNCHANGED vars PROVE ReadTypeOK'
  <2>0. manifests' = manifests /\ sigs' = sigs /\ tag' = tag
    BY <1>2 DEF vars
  <2>1. CASE Begin(u)
    BY <2>0, <2>1 DEF Begin
  <2>2. CASE ReadCache(u)
    BY <2>0, <2>2 DEF ReadCache
  <2>3. CASE Pull(u)
    BY <1>0, <2>0, <2>3 DEF Pull, TypeOK
  <2>4. CASE PutBundle(u)
    BY <2>0, <2>4 DEF PutBundle
  <2>5. CASE ResolveVerifyPolicy(u)
    BY <2>0, <2>5 DEF ResolveVerifyPolicy
  <2>6. CASE ResolveSubject(u)
    BY <1>0, <2>0, <2>6 DEF ResolveSubject, TypeOK
  <2>7. CASE DiscoverSignatureBundle(u)
    <3>1. PICK s \in sigs \cup {NoSig} : found' = [found EXCEPT ![u] = s]
      BY <2>7 DEF DiscoverSignatureBundle
    <3> QED
      BY <2>0, <2>7, <3>1 DEF DiscoverSignatureBundle
  <2>8. CASE Verify(u)
    BY <2>0, <2>8 DEF Verify
  <2>9. CASE RunCosignVerify(u)
    BY <1>0, <2>0, <2>9 DEF RunCosignVerify, TypeOK
  <2>10. CASE WriteBundle(u)
    BY <2>0, <2>10 DEF WriteBundle
  <2>11. CASE GiveUp(u)
    BY <2>0, <2>11 DEF GiveUp
  <2> QED
    BY <1>2, <2>1, <2>2, <2>3, <2>4, <2>5, <2>6, <2>7, <2>8, <2>9, <2>10, <2>11
    DEF ReadStep
<1>3. CASE UNCHANGED <<vars, readers>>
  BY <1>3 DEF vars, readers
<1> QED
  BY <1>1, <1>2, <1>3 DEF ConsumeNext

LEMMA InitReadTypeOK == ConsumeInit => ReadTypeOK
BY DEF ConsumeInit, ReadInit, ReadTypeOK

\* Whatever publishers and readers do, what a reader holds and what the cache
\* stores are manifests the registry has, and signatures it has.
THEOREM ConsumeTypeOK == ConsumeSpec => []ReadTypeOK
BY ConsumeTypeInv, InitReadTypeOK, NextReadTypeOK, PTL DEF ConsumeSpec

(***************************************************************************)
(* unpack fails closed.  The invariant follows the signature from the      *)
(* lookup that found it to the write it allows.                            *)
(***************************************************************************)
Unchecked == {"idle", "policy", "resolve", "referrers", "cosign"} \cup Reading

CheckInv ==
    \A u \in Readers :
        /\ at[u] \in Unchecked => found[u] = NoSig
        /\ at[u] \in Unchecked \cup {"verify"} => out[u] = NoManifest
        /\ found[u] # NoSig => found[u].subject = subj[u]
        /\ Verifies(cmd[u]) /\ (at[u] = "write" \/ out[u] # NoManifest) =>
               found[u] # NoSig /\ Trusted(found[u])

LEMMA InitCheckInv == ConsumeInit => CheckInv
BY DEF ConsumeInit, ReadInit, CheckInv, Verifies

LEMMA NextCheckInv ==
    /\ TypeInv /\ ReadTypeOK /\ CheckInv
    /\ [ConsumeNext]_<<vars, readers>>
    => CheckInv'
<1> SUFFICES ASSUME TypeInv, ReadTypeOK, CheckInv,
                    [ConsumeNext]_<<vars, readers>>
             PROVE  CheckInv'
  OBVIOUS
<1>0. cfg' = cfg
  BY RegistryGrows DEF ConsumeNext
<1> USE DEF CheckInv, Unchecked, Reading, Move, Trusted, Verifies, ReadTypeOK
<1>1. CASE UNCHANGED readers
  BY <1>0, <1>1 DEF readers
<1>2. ASSUME NEW u \in Readers, ReadStep(u), UNCHANGED vars PROVE CheckInv'
  <2>1. CASE Begin(u)
    BY <1>0, <2>1 DEF Begin
  <2>2. CASE ReadCache(u)
    BY <1>0, <2>2 DEF ReadCache, Fetched
  <2>3. CASE Pull(u)
    BY <1>0, <2>3 DEF Pull, Fetched
  <2>4. CASE PutBundle(u)
    BY <1>0, <2>4 DEF PutBundle, Fetched
  <2>5. CASE ResolveVerifyPolicy(u)
    BY <1>0, <2>5 DEF ResolveVerifyPolicy
  <2>6. CASE ResolveSubject(u)
    BY <1>0, <2>6 DEF ResolveSubject
  <2>7. CASE DiscoverSignatureBundle(u)
    <3>1. PICK s : /\ found' = [found EXCEPT ![u] = s]
                   /\ s # NoSig => s.subject = subj[u]
      BY <2>7 DEF DiscoverSignatureBundle
    <3> QED
      BY <1>0, <2>7, <3>1 DEF DiscoverSignatureBundle
  <2>8. CASE Verify(u)
    BY <1>0, <2>8 DEF Verify
  <2>9. CASE RunCosignVerify(u)
    BY <1>0, <2>9 DEF RunCosignVerify
  <2>10. CASE WriteBundle(u)
    BY <1>0, <2>10 DEF WriteBundle, Ended
  <2>11. CASE GiveUp(u)
    BY <1>0, <2>11 DEF GiveUp
  <2> QED
    BY <1>2, <2>1, <2>2, <2>3, <2>4, <2>5, <2>6, <2>7, <2>8, <2>9, <2>10, <2>11
    DEF ReadStep
<1> QED
  BY <1>1, <1>2 DEF ConsumeNext, readers

LEMMA ConsumeCheckInv == ConsumeSpec => [](TypeInv /\ ReadTypeOK /\ CheckInv)
BY ConsumeTypeInv, ConsumeTypeOK, InitCheckInv, NextCheckInv, PTL DEF ConsumeSpec

\* A verifying unpack has written something only if the manifest its signature
\* lookup resolved carries a signature by the pinned workflow.
THEOREM ConsumeFailsClosed == ConsumeSpec => []UnpackFailsClosed
<1>1. ReadTypeOK /\ CheckInv => UnpackFailsClosed
  BY DEF ReadTypeOK, CheckInv, UnpackFailsClosed
<1> QED
  BY ConsumeCheckInv, <1>1, PTL

(***************************************************************************)
(* Disciplined publishers and readers.  Nothing is read before the hub     *)
(* lists the version, and from then on the tag does not move.              *)
(***************************************************************************)
Frozen ==
    /\ index.status = "absent" =>
           /\ \A u \in Readers : /\ at[u] = "idle"
                                 /\ hand[u] = NoManifest /\ subj[u] = NoManifest
                                 /\ out[u] = NoManifest
           /\ stored = NoManifest
    /\ \A u \in Readers :
           {hand[u], subj[u], out[u]} \subseteq {NoManifest, index.digest}
    /\ stored \in {NoManifest, index.digest}

FrozenInv == Disciplined => Frozen

LEMMA InitFrozenInv == ConsumeInit => FrozenInv
BY DEF ConsumeInit, ReadInit, FrozenInv, Frozen

\* What the hub has listed it keeps.
LEMMA ListedStays ==
    ASSUME TypeInv, CalmInv, Calm, [Next]_vars, index.status # "absent"
    PROVE  index'.digest = index.digest /\ index'.status # "absent"
<1>1. ASSUME NEW r \in Runs, Sync(r)
      PROVE  index'.digest = index.digest /\ index'.status # "absent"
  BY <1>1 DEF Sync, Accepts, CalmInv
<1>2. CASE Yank
  BY <1>2 DEF Yank, TypeInv, TypeOK
<1>3. CASE UNCHANGED index
  BY <1>3
<1> QED
  BY <1>1, <1>2, <1>3 DEF Next, Step, vars, Start, Preflight,
     CheckVersionAvailable, AuthenticatePush, Pack, Tag, Sign,
     ResolveBearerToken, Abort

LEMMA NextFrozenInv ==
    /\ TypeInv /\ OvertakenInv /\ CalmInv /\ ReadTypeOK /\ FrozenInv
    /\ [ConsumeNext]_<<vars, readers>>
    => FrozenInv'
<1> SUFFICES ASSUME TypeInv, OvertakenInv, CalmInv, ReadTypeOK, FrozenInv,
                    [ConsumeNext]_<<vars, readers>>, Disciplined'
             PROVE  Frozen'
  BY DEF FrozenInv
<1>0. [Next]_vars
  BY DEF ConsumeNext
<1>a. Calm /\ ListedOnly /\ Frozen
  BY <1>0, CalmBefore DEF Disciplined, Calm, FrozenInv
<1> USE <1>a DEF Frozen
<1>1. CASE [Next]_vars /\ UNCHANGED readers
  <2>1. CASE index.status # "absent"
    BY <1>1, <2>1, ListedStays DEF readers
  <2>2. CASE index.status = "absent"
    BY <1>1, <2>2 DEF readers
  <2> QED
    BY <2>1, <2>2
<1>2. ASSUME NEW u \in Readers, ReadStep(u), UNCHANGED vars PROVE Frozen'
  <2>0. index' = index
    BY <1>2 DEF vars
  <2>1. CASE Begin(u)
    BY <2>0, <2>1 DEF Begin, Move
  <2>2. index.status = "absent" => Begin(u)
    BY <1>2 DEF ReadStep, ReadCache, Pull, PutBundle, ResolveVerifyPolicy,
       ResolveSubject, DiscoverSignatureBundle, Verify, RunCosignVerify,
       WriteBundle, GiveUp, Busy, Reading, Checking
  <2> USE DEF ReadTypeOK
  <2>3. ASSUME index.status # "absent", ~Begin(u) PROVE Frozen'
    <3>0. tag = index.digest
      BY <2>3 DEF CalmInv
    <3>1. CASE ReadCache(u)
      BY <2>0, <2>3, <3>1 DEF ReadCache
    <3>2. CASE Pull(u)
      BY <2>0, <2>3, <3>0, <3>2 DEF Pull
    <3>3. CASE PutBundle(u)
      BY <2>0, <2>3, <3>3 DEF PutBundle
    <3>4. CASE ResolveVerifyPolicy(u) \/ Verify(u) \/ GiveUp(u)
               \/ DiscoverSignatureBundle(u)
      BY <2>0, <2>3, <3>4 DEF ResolveVerifyPolicy, Verify, GiveUp,
         DiscoverSignatureBundle
    <3>5. CASE ResolveSubject(u) \/ RunCosignVerify(u)
      BY <2>0, <2>3, <3>0, <3>5 DEF ResolveSubject, RunCosignVerify
    <3>6. CASE WriteBundle(u)
      BY <2>0, <2>3, <3>6 DEF WriteBundle
    <3> QED
      BY <1>2, <2>3, <3>1, <3>2, <3>3, <3>4, <3>5, <3>6 DEF ReadStep
  <2> QED
    BY <2>1, <2>2, <2>3
<1>3. CASE UNCHANGED <<vars, readers>>
  BY <1>1, <1>3
<1> QED
  BY <1>1, <1>2, <1>3 DEF ConsumeNext

LEMMA ConsumeFrozenInv ==
    ConsumeSpec => [](TypeInv /\ ReadTypeOK /\ CheckInv /\ FrozenInv)
BY ConsumeIsPublish, PublishCalmInv, ConsumeCheckInv, InitFrozenInv, NextFrozenInv, PTL
DEF ConsumeSpec

\* With publishers that ask the hub first and are not overtaken, and readers of
\* listed versions, every byte read, from the registry or from the cache, and
\* every manifest verified is the one the hub listed.
THEOREM ConsumeListedReadsAreFrozen == ConsumeSpec => []ListedReadsAreFrozen
<1>1. FrozenInv => ListedReadsAreFrozen
  BY DEF FrozenInv, Frozen, ListedReadsAreFrozen
<1> QED
  BY <1>1, ConsumeFrozenInv, PTL

\* Under the same conditions the bytes a verifying unpack writes are the bytes
\* whose signature it verified.
THEOREM ConsumeListedBytesAreVerified == ConsumeSpec => []ListedBytesAreVerified
<1>1. ReadTypeOK /\ TypeInv /\ CheckInv /\ FrozenInv => ListedBytesAreVerified
  <2> SUFFICES ASSUME ReadTypeOK, TypeInv, CheckInv, FrozenInv, Disciplined,
                      NEW u \in Readers, Verifies(cmd[u]), out[u] # NoManifest
               PROVE  \E s \in sigs : s.subject = out[u] /\ Trusted(s)
    BY DEF ListedBytesAreVerified, VerifiedBytes
  <2>1. found[u] \in sigs /\ found[u].subject = subj[u] /\ Trusted(found[u])
    BY DEF ReadTypeOK, CheckInv
  <2>2. subj[u] # NoManifest
    BY <2>1, NoManifestAssumption DEF TypeInv, TypeOK
  <2>3. subj[u] = out[u]
    BY <2>2 DEF FrozenInv, Frozen
  <2> QED
    BY <2>1, <2>3
<1> QED
  BY <1>1, ConsumeFrozenInv, PTL
=============================================================================
