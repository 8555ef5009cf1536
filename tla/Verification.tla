---------------------------- MODULE Verification ----------------------------
(***************************************************************************)
(* Signature verification from the flags to the verdict (cmd/verify.go,    *)
(* verifyBeforeUnpack in cmd/unpack.go, internal/registry, and             *)
(* internal/sigverify), while others attach signatures, move the tag and   *)
(* change the identity the hub has on record.                              *)
(*                                                                         *)
(* Verify hands the cryptography to a goroutine and waits for its answer   *)
(* or a timeout, whichever comes first.  Here the goroutine runs on after  *)
(* Verify has returned, as it does in the package; the command exits soon  *)
(* after, which only cuts behaviours short.                                *)
(***************************************************************************)
EXTENDS Naturals, Sequences, FiniteSets

CONSTANTS Calls,          \* the invocations of verify and unpack
          Requests,       \* the flags they may use
          Issuers, DefaultIssuer,
          Paths, Refs,    \* workflow paths and the git refs they run at
          Digests,        \* the manifests the tag may name
          Referrers,      \* what may get attached to them
          MaxAttached,    \* how many of them do
          HubRecords,     \* what the hub may have on record
          None,           \* a flag not given, a field not set
          NoBundle        \* no signature referrer was found

\* The subject alternative name of a certificate is <path>@<ref>.
SANs == [path : Paths, ref : Refs]

Request == [name : {"verify", "unpack"}, key : BOOLEAN,
            identity : SANs \cup {None}, issuer : Issuers \cup {None}]

\* An attachment of a manifest.  A certified bundle carries a certificate, one
\* signed with a key does not; an invalid one fails the cryptography.
Referrer == [subject : Digests, type : {"cosign", "bundle", "other"},
             form : {"noLayer", "garbled", "invalid", "keySigned", "certified"},
             over : Digests, san : SANs, issuer : Issuers]

HubRecord == [scheme : {"none", "keyless", "other"},
              path : Paths \cup {None}, issuer : Issuers \cup {None}]

\* IdentityPolicy: SAN, SANRegexp (a path at any ref) and Issuer.
Policy == [san : SANs \cup {None}, path : Paths \cup {None},
           issuer : Issuers \cup {None}]

ASSUME RequestsAssumption == Requests \subseteq Request
ASSUME IssuersAssumption == DefaultIssuer \in Issuers
ASSUME ReferrersAssumption == Referrers \subseteq Referrer
ASSUME MaxAttachedAssumption == MaxAttached \in Nat
ASSUME HubRecordsAssumption == HubRecords \subseteq HubRecord
ASSUME NoneAssumption ==
    None \notin SANs /\ None \notin Paths /\ None \notin Issuers
ASSUME NoBundleAssumption == NoBundle \notin Referrer

VARIABLES
    tag,       \* the manifest the tag names
    attached,  \* the referrers in the registry
    record,    \* the signer the hub has on record
    recorded,  \* every record the hub has had (history)
    req,       \* req[c]: the flags of call c
    at,        \* at[c]: its next step
    policy,    \* policy[c]: the identity it pins
    subject,   \* subject[c]: the manifest its tag resolved to
    before,    \* before[c]: the referrers of that manifest then (history)
    bundle,    \* bundle[c]: the referrer it took the bundle from
    worker,    \* worker[c]: the goroutine of Verify
    chan,      \* chan[c]: the channel the goroutine answers on
    outcome    \* outcome[c]: how the call ended

hub == <<record, recorded>>
world == <<tag, attached, record, recorded>>
vars == <<tag, attached, record, recorded, req, at, policy, subject, before,
          bundle, worker, chan, outcome>>

Network == {"discover", "lookup", "token", "resolve", "referrers", "cosign"}
Steps == {"flags", "check", "waiting", "ended"} \cup Network
Outcomes == {"pending", "accepted", "flags", "record", "unsigned", "malformed",
             "policy", "rejected", "timeout", "failure"}

ChanCapacity == 1

\* A call has resolved the tag before it looks for signatures, and found a
\* bundle before it starts the goroutine.
Ordered(c) ==
    /\ Len(chan[c]) <= ChanCapacity
    /\ at[c] = "ended" <=> outcome[c] # "pending"
    /\ at[c] \in {"referrers", "check", "waiting"} => subject[c] \in Digests
    /\ at[c] = "waiting" \/ worker[c] # "none" => bundle[c] \in Referrers

TypeOK ==
    /\ tag \in Digests
    /\ attached \subseteq Referrers
    /\ record \in HubRecords
    /\ recorded \subseteq HubRecords
    /\ req \in [Calls -> Requests]
    /\ at \in [Calls -> Steps]
    /\ policy \in [Calls -> Policy]
    /\ subject \in [Calls -> Digests \cup {None}]
    /\ before \in [Calls -> SUBSET Referrers]
    /\ bundle \in [Calls -> Referrers \cup {NoBundle}]
    /\ worker \in [Calls -> {"none", "running", "sending", "gone"}]
    /\ chan \in [Calls -> Seq(BOOLEAN)]
    /\ outcome \in [Calls -> Outcomes]
    /\ \A c \in Calls : Ordered(c)

Init ==
    /\ tag \in Digests
    /\ attached = {}
    /\ record \in HubRecords
    /\ recorded = {record}
    /\ req \in [Calls -> Requests]
    /\ at = [c \in Calls |-> "flags"]
    /\ policy = [c \in Calls |-> [san |-> None, path |-> None, issuer |-> None]]
    /\ subject = [c \in Calls |-> None]
    /\ before = [c \in Calls |-> {}]
    /\ bundle = [c \in Calls |-> NoBundle]
    /\ worker = [c \in Calls |-> "none"]
    /\ chan = [c \in Calls |-> <<>>]
    /\ outcome = [c \in Calls |-> "pending"]

Move(c, l) == at' = [at EXCEPT ![c] = l] /\ UNCHANGED outcome

End(c, o) ==
    /\ at' = [at EXCEPT ![c] = "ended"]
    /\ outcome' = [outcome EXCEPT ![c] = o]

-----------------------------------------------------------------------------
(* resolveVerifyPolicy.                                                    *)

HubLookup(q) == ~q.key /\ q.identity = None

\* Combinations of flags that are refused before any call is made.
Conflicting(q) ==
    \/ q.key /\ (q.identity # None \/ q.issuer # None)
    \/ q.issuer # None /\ q.identity = None

\* The issuer has a default in keyless mode only, so that a key is not taken
\* for a keyless request.
ExpectedIssuer(q) ==
    IF q.identity # None /\ q.issuer = None THEN DefaultIssuer ELSE q.issuer

CheckFlags(c) ==
    /\ at[c] = "flags"
    /\ IF Conflicting(req[c]) THEN End(c, "flags") ELSE Move(c, "discover")
    /\ policy' = [policy EXCEPT ![c] =
           [san |-> req[c].identity, path |-> None, issuer |-> ExpectedIssuer(req[c])]]
    /\ UNCHANGED <<world, req, subject, before, bundle, worker, chan>>

Discover(c) ==
    /\ at[c] = "discover"
    /\ Move(c, IF HubLookup(req[c]) THEN "lookup" ELSE "token")
    /\ UNCHANGED <<world, req, policy, subject, before, bundle, worker, chan>>

LookUpIdentity_EmptyHalves(c) ==
    /\ at[c] = "lookup"
    /\ IF record.scheme = "keyless"
       THEN /\ Move(c, "token")
            /\ policy' = [policy EXCEPT ![c].path = record.path,
                                        ![c].issuer = record.issuer]
       ELSE End(c, "record") /\ UNCHANGED policy
    /\ UNCHANGED <<world, req, subject, before, bundle, worker, chan>>

\* resolveHubIdentity: the hub's record must name a keyless signer, both
\* halves of it.  The pin admits the workflow path at any ref.
LookUpIdentity(c) ==
    /\ at[c] = "lookup"
    /\ IF record.scheme = "keyless" /\ record.path # None /\ record.issuer # None
       THEN /\ Move(c, "token")
            /\ policy' = [policy EXCEPT ![c].path = record.path,
                                        ![c].issuer = record.issuer]
       ELSE End(c, "record") /\ UNCHANGED policy
    /\ UNCHANGED <<world, req, subject, before, bundle, worker, chan>>

-----------------------------------------------------------------------------
(* runVerify, verifyBeforeUnpack and FetchSignatureBundle.                 *)

\* Only the verify command has a path of its own for a key.
EnsureRegistryToken(c) ==
    /\ at[c] = "token"
    /\ Move(c, IF req[c].name = "verify" /\ req[c].key THEN "cosign" ELSE "resolve")
    /\ UNCHANGED <<world, req, policy, subject, before, bundle, worker, chan>>

ResolveTag(c) ==
    /\ at[c] = "resolve"
    /\ subject' = [subject EXCEPT ![c] = tag]
    /\ before' = [before EXCEPT ![c] = {r \in attached : r.subject = tag}]
    /\ Move(c, "referrers")
    /\ UNCHANGED <<world, req, policy, bundle, worker, chan>>

SignatureTypes_CosignOnly == {"cosign"}

\* Both artifact types a signer may stamp, depending on its version.
SignatureTypes == {"cosign", "bundle"}

\* The first signature the registry lists is used; the registry chooses the
\* order.  One without a bundle layer is an error, not an unsigned manifest.
DiscoverSignatureBundle(c) ==
    /\ at[c] = "referrers"
    /\ LET refs == {r \in attached : r.subject = subject[c]
                                       /\ r.type \in SignatureTypes} IN
           \/ /\ refs = {}
              /\ Move(c, "check")
              /\ UNCHANGED bundle
           \/ \E first \in refs :
                  /\ IF first.form = "noLayer" THEN End(c, "malformed")
                                               ELSE Move(c, "check")
                  /\ bundle' = [bundle EXCEPT ![c] = first]
    /\ UNCHANGED <<world, req, policy, subject, before, worker, chan>>

\* cosign verify --key: a subprocess that resolves the tag and tries every
\* signature.
RunCosignVerify(c) ==
    /\ at[c] = "cosign"
    /\ subject' = [subject EXCEPT ![c] = tag]
    /\ End(c, IF \E r \in attached : /\ r.subject = tag /\ r.over = tag
                                     /\ r.type \in {"cosign", "bundle"}
                                     /\ r.form = "keySigned"
              THEN "accepted" ELSE "rejected")
    /\ UNCHANGED <<world, req, policy, before, bundle, worker, chan>>

\* A call to the hub, the registry or cosign fails; the trust root is not
\* readable; cosign is not installed; the process is killed.
GiveUp(c) ==
    /\ at[c] \in Network
    /\ End(c, "failure")
    /\ UNCHANGED <<world, req, policy, subject, before, bundle, worker, chan>>

-----------------------------------------------------------------------------
(* Verifier.Verify.                                                        *)

\* certificateIdentity: an issuer, and exactly one of SAN and SANRegexp.
Buildable(p) == p.issuer # None /\ (p.san = None) # (p.path = None)

BeginVerify_NilGoesOn(c) ==
    /\ at[c] = "check"
    /\ IF ~Buildable(policy[c])
       THEN End(c, "policy") /\ UNCHANGED worker
       ELSE Move(c, "waiting") /\ worker' = [worker EXCEPT ![c] = "running"]
    /\ UNCHANGED <<world, req, policy, subject, before, bundle, chan>>

BeginVerify(c) ==
    /\ at[c] = "check"
    /\ CASE bundle[c] = NoBundle -> End(c, "unsigned") /\ UNCHANGED worker
         [] bundle[c] # NoBundle /\ ~Buildable(policy[c]) ->
                End(c, "policy") /\ UNCHANGED worker
         [] OTHER ->
                IF bundle[c].form = "garbled"
                THEN End(c, "malformed") /\ UNCHANGED worker
                ELSE Move(c, "waiting") /\ worker' = [worker EXCEPT ![c] = "running"]
    /\ UNCHANGED <<world, req, policy, subject, before, bundle, chan>>

Matches_AnyIssuer(p, b) ==
    /\ p.san # None => b.san = p.san
    /\ p.path # None => b.san.path = p.path

Matches_ThisRefOnly(p, b) ==
    /\ b.issuer = p.issuer
    /\ b.san = [path |-> IF p.san # None THEN p.san.path ELSE p.path,
                ref |-> IF p.san # None THEN p.san.ref ELSE CHOOSE r \in Refs : TRUE]

\* The certificate is the pinned identity's.
Matches(p, b) ==
    /\ b.issuer = p.issuer
    /\ p.san # None => b.san = p.san
    /\ p.path # None => b.san.path = p.path

\* verifyEntity: the bundle is for this digest, by the pinned identity, and
\* carries a certificate.
Verdict(c) ==
    /\ bundle[c].form = "certified"
    /\ bundle[c].over = subject[c]
    /\ Matches(policy[c], bundle[c])

Compute(c) ==
    /\ worker[c] = "running"
    /\ worker' = [worker EXCEPT ![c] = "sending"]
    /\ UNCHANGED <<world, req, at, policy, subject, before, bundle, chan, outcome>>

Send_Unbuffered(c) ==
    /\ worker[c] = "sending"
    /\ at[c] = "waiting"
    /\ chan' = [chan EXCEPT ![c] = Append(@, Verdict(c))]
    /\ worker' = [worker EXCEPT ![c] = "gone"]
    /\ UNCHANGED <<world, req, at, policy, subject, before, bundle, outcome>>

\* The channel holds one answer, so that the goroutine ends though nobody
\* listens any more.
Send(c) ==
    /\ worker[c] = "sending"
    /\ Len(chan[c]) < ChanCapacity
    /\ chan' = [chan EXCEPT ![c] = Append(@, Verdict(c))]
    /\ worker' = [worker EXCEPT ![c] = "gone"]
    /\ UNCHANGED <<world, req, at, policy, subject, before, bundle, outcome>>

Receive(c) ==
    /\ at[c] = "waiting"
    /\ chan[c] # <<>>
    /\ End(c, IF Head(chan[c]) THEN "accepted" ELSE "rejected")
    /\ chan' = [chan EXCEPT ![c] = Tail(@)]
    /\ UNCHANGED <<world, req, policy, subject, before, bundle, worker>>

TimeOut_WhenAnswered(c) ==
    /\ at[c] = "waiting"
    /\ chan[c] # <<>>
    /\ End(c, "timeout")
    /\ UNCHANGED <<world, req, policy, subject, before, bundle, worker, chan>>

\* The timer fires.  When an answer is there as well, select picks either.
TimeOut(c) ==
    /\ at[c] = "waiting"
    /\ End(c, "timeout")
    /\ UNCHANGED <<world, req, policy, subject, before, bundle, worker, chan>>

-----------------------------------------------------------------------------
(* Everybody else.                                                         *)

calls == <<req, at, policy, subject, before, bundle, worker, chan, outcome>>

\* Anybody who may push attaches a signature, or something else.
Attach ==
    /\ Cardinality(attached) < MaxAttached
    /\ \E r \in Referrers \ attached : attached' = attached \cup {r}
    /\ UNCHANGED <<tag, hub, calls>>

\* A publish moves the tag.
Retag ==
    /\ \E d \in Digests \ {tag} : tag' = d
    /\ UNCHANGED <<attached, hub, calls>>

\* The hub ingests a version signed by somebody else.
Record ==
    /\ \E h \in HubRecords \ {record} :
           record' = h /\ recorded' = recorded \cup {h}
    /\ UNCHANGED <<tag, attached, calls>>

CallStep(c) ==
    \/ CheckFlags(c) \/ Discover(c) \/ LookUpIdentity(c)
    \/ EnsureRegistryToken(c) \/ ResolveTag(c) \/ DiscoverSignatureBundle(c)
    \/ RunCosignVerify(c) \/ GiveUp(c)
    \/ BeginVerify(c) \/ Receive(c) \/ TimeOut(c)

Next ==
    \/ \E c \in Calls : CallStep(c) \/ Compute(c) \/ Send(c)
    \/ Attach \/ Retag \/ Record

Spec == Init /\ [][Next]_vars

\* Verify is called with its bundle and returns by its own means: it starts its
\* goroutine, and select takes an answer or the timer's tick.  A goroutine that
\* has its answer goes on; one that computes may hang.  Nothing is assumed of the
\* steps before: a request to the registry, or cosign, may keep a call forever.
Fair(c) ==
    /\ WF_vars(BeginVerify(c))
    /\ WF_vars(Receive(c) \/ TimeOut(c))
    /\ WF_vars(Send(c))

FairSpec == Spec /\ \A c \in Calls : Fair(c)

-----------------------------------------------------------------------------
(* Properties.                                                             *)

\* The signer a request asks for, h being what the hub had on record.
Wanted(q, b, h) ==
    IF HubLookup(q)
    THEN h.scheme = "keyless" /\ b.issuer = h.issuer /\ b.san.path = h.path
    ELSE b.issuer = ExpectedIssuer(q) /\ b.san = q.identity

\* verify and unpack accept a manifest only if a signature attached to it covers
\* it and is by the key, the identity of the flags, or one the hub recorded,
\* whatever was attached, retagged or recorded meanwhile (verify.go:196).
AcceptedIsAuthentic ==
    \A c \in Calls : outcome[c] = "accepted" =>
        \E r \in attached :
            /\ r.subject = subject[c] /\ r.over = subject[c]
            /\ r.type \in {"cosign", "bundle"}
            /\ IF req[c].key
               THEN req[c].name = "verify" /\ r.form = "keySigned"
               ELSE r.form = "certified" /\ \E h \in recorded : Wanted(req[c], r, h)

\* A manifest that carried a signature when the tag was resolved, of either
\* artifact type, is never reported as unsigned (registry.go:305).
SignedIsNotCalledUnsigned ==
    \A c \in Calls : outcome[c] = "unsigned" =>
        \A r \in before[c] : r.type \notin {"cosign", "bundle"}

\* A verdict against a manifest is due to a signature on it that is not of the
\* wanted signer: one signature alone, by whom the hub or the flags name, at any
\* ref if the hub names it, is never rejected (verify.go:103).
RejectedForACause ==
    \A c \in Calls : outcome[c] = "rejected" /\ ~req[c].key =>
        \E r \in attached :
            /\ r.subject = subject[c] /\ r.type \in {"cosign", "bundle"}
            /\ ~ /\ r.form = "certified" /\ r.over = subject[c]
                 /\ \A h \in recorded : Wanted(req[c], r, h)

\* Policy resolution hands Verify an identity it can build a policy from
\* (verify.go:98), except that unpack ignores a key it is given.
PolicyIsBuildable ==
    \A c \in Calls : outcome[c] = "policy" => req[c].name = "unpack" /\ req[c].key

\* Verify returns, though its goroutine may hang (verify.go:217): once called it
\* refuses, or it waits for an answer and has one or a timeout.
VerifyReturns ==
    \A c \in Calls : at[c] \in {"check", "waiting"} ~> at[c] = "ended"

\* A goroutine that has its answer ends, though its caller is gone (verify.go:213).
WorkerEnds == \A c \in Calls : worker[c] = "sending" ~> worker[c] = "gone"
=============================================================================
