------------------------- MODULE VerificationProofs -------------------------
(***************************************************************************)
(* Proofs about module Verification, for any number of calls, signatures,  *)
(* manifests and identities.                                               *)
(***************************************************************************)
EXTENDS Verification, TLAPS

(***************************************************************************)
(* What a call does only concerns itself, and leaves the world alone;      *)
(* the world leaves the calls alone, and forgets nothing.                  *)
(***************************************************************************)
CallAction(c) == CallStep(c) \/ Compute(c) \/ Send(c)
WorldStep == Attach \/ Retag \/ Record

LEMMA NextIsCallOrWorld ==
    [Next]_vars <=> (\E c \in Calls : CallAction(c)) \/ WorldStep \/ UNCHANGED vars
BY DEF Next, CallAction, WorldStep

LEMMA WorldStepKeeps ==
    ASSUME TypeOK, WorldStep
    PROVE  /\ UNCHANGED calls
           /\ attached \subseteq attached' /\ attached' \subseteq Referrers
           /\ recorded \subseteq recorded' /\ recorded' \subseteq HubRecords
           /\ record' \in HubRecords /\ (record \in recorded => record' \in recorded')
           /\ tag' \in Digests
BY DEF WorldStep, Attach, Retag, Record, hub, TypeOK

LEMMA CallActionKeeps ==
    ASSUME NEW c \in Calls, CallAction(c)
    PROVE  UNCHANGED <<world, req>>
BY DEF CallAction, CallStep, CheckFlags, Discover, LookUpIdentity,
       EnsureRegistryToken, ResolveTag, DiscoverSignatureBundle,
       RunCosignVerify, GiveUp, BeginVerify, Receive, TimeOut, Compute, Send,
       world

LEMMA CallsAreVars == UNCHANGED vars => UNCHANGED calls /\ UNCHANGED world
BY DEF vars, calls, world

(***************************************************************************)
(* Type correctness.                                                       *)
(***************************************************************************)
LEMMA InitTypeOK == Init => TypeOK
<1> SUFFICES ASSUME Init PROVE TypeOK
  OBVIOUS
<1>1. policy \in [Calls -> Policy]
  BY DEF Init, Policy
<1>2. chan \in [Calls -> Seq(BOOLEAN)] /\ \A c \in Calls : Len(chan[c]) = 0
  BY DEF Init
<1> QED
  BY <1>1, <1>2, HubRecordsAssumption
  DEF Init, TypeOK, Ordered, Steps, Network, Outcomes, ChanCapacity

\* The fields a call's step may change, one by one.
LEMMA CallTyped ==
    ASSUME TypeOK, NEW c \in Calls, CallAction(c)
    PROVE  /\ at' \in [Calls -> Steps] /\ outcome' \in [Calls -> Outcomes]
           /\ policy' \in [Calls -> Policy]
           /\ subject' \in [Calls -> Digests \cup {None}]
           /\ before' \in [Calls -> SUBSET Referrers]
           /\ bundle' \in [Calls -> Referrers \cup {NoBundle}]
           /\ worker' \in [Calls -> {"none", "running", "sending", "gone"}]
           /\ chan' \in [Calls -> Seq(BOOLEAN)]
<1> USE DEF TypeOK
<1>0. CallAction(c)
  OBVIOUS
<1> USE DEF CallAction, CallStep
<1>1. at' \in [Calls -> Steps] /\ outcome' \in [Calls -> Outcomes]
  <2> USE DEF Move, End, Steps, Network, Outcomes
  <2>1. \A l \in Steps : Move(c, l) => at' \in [Calls -> Steps] /\ outcome' = outcome
    OBVIOUS
  <2>2. \A o \in Outcomes : End(c, o) => /\ at' \in [Calls -> Steps]
                                       /\ outcome' \in [Calls -> Outcomes]
    OBVIOUS
  <2> QED
    BY <1>0, <2>1, <2>2, Zenon
    DEF CheckFlags, Discover, LookUpIdentity, EnsureRegistryToken, ResolveTag,
       DiscoverSignatureBundle, RunCosignVerify, GiveUp, BeginVerify, Receive,
       TimeOut, Compute, Send
<1>2. policy' \in [Calls -> Policy]
  <2>1. CASE UNCHANGED policy
    BY <2>1
  <2>2. CASE CheckFlags(c)
    <3>1. req[c] \in Request
      BY RequestsAssumption
    <3>2. [san |-> req[c].identity, path |-> None, issuer |-> ExpectedIssuer(req[c])] \in Policy
      BY <3>1, IssuersAssumption DEF Request, Policy, ExpectedIssuer
    <3> QED
      BY <2>2, <3>2 DEF CheckFlags
  <2>3. CASE policy' = [policy EXCEPT ![c].path = record.path, ![c].issuer = record.issuer]
    <3>1. record \in HubRecord
      BY HubRecordsAssumption
    <3>2. record.path \in Paths \cup {None} /\ record.issuer \in Issuers \cup {None}
      BY <3>1 DEF HubRecord
    <3>3. \A q \in Policy, x \in Paths \cup {None}, y \in Issuers \cup {None} :
              [q EXCEPT !.path = x, !.issuer = y] \in Policy
      BY DEF Policy
    <3> DEFINE q == [policy[c] EXCEPT !.path = record.path, !.issuer = record.issuer]
    <3>4. policy \in [Calls -> Policy] /\ policy' = [policy EXCEPT ![c] = q]
      BY <2>3
    <3>5. q \in Policy
      BY <3>2, <3>3, <3>4
    <3> HIDE DEF q, TypeOK
    <3> QED
      BY <3>4, <3>5
  <2> QED
    BY <1>0, <2>1, <2>2, <2>3
    DEF Discover, LookUpIdentity, EnsureRegistryToken, ResolveTag,
        DiscoverSignatureBundle, RunCosignVerify, GiveUp, BeginVerify, Receive,
        TimeOut, Compute, Send
<1>3. /\ subject' \in [Calls -> Digests \cup {None}]
      /\ before' \in [Calls -> SUBSET Referrers]
  BY <1>0, ZenonT(60) DEF CheckFlags, Discover, LookUpIdentity, EnsureRegistryToken, ResolveTag,
     DiscoverSignatureBundle, RunCosignVerify, GiveUp, BeginVerify, Receive,
     TimeOut, Compute, Send
<1>4. bundle' \in [Calls -> Referrers \cup {NoBundle}]
  <2>1. CASE DiscoverSignatureBundle(c)
    <3>1. CASE UNCHANGED bundle
      BY <3>1
    <3>2. ASSUME NEW r \in attached, bundle' = [bundle EXCEPT ![c] = r]
          PROVE  bundle' \in [Calls -> Referrers \cup {NoBundle}]
      BY <3>2
    <3> QED
      BY <2>1, <3>1, <3>2 DEF DiscoverSignatureBundle
  <2> QED
    BY <1>0, <2>1 DEF CheckFlags, Discover, LookUpIdentity, EnsureRegistryToken,
       ResolveTag, RunCosignVerify, GiveUp, BeginVerify, Receive, TimeOut,
       Compute, Send
<1>5. worker' \in [Calls -> {"none", "running", "sending", "gone"}]
  <2>1. CASE BeginVerify(c)
    <3>1. CASE UNCHANGED worker
      BY <3>1
    <3>2. CASE worker' = [worker EXCEPT ![c] = "running"]
      BY <3>2
    <3> QED
      BY <2>1, <3>1, <3>2, Zenon DEF BeginVerify
  <2> QED
    BY <1>0, <2>1 DEF CheckFlags, Discover, LookUpIdentity, EnsureRegistryToken,
       ResolveTag, DiscoverSignatureBundle, RunCosignVerify, GiveUp, Receive,
       TimeOut, Compute, Send
<1>6. chan' \in [Calls -> Seq(BOOLEAN)]
  <2>1. CASE Receive(c)
    <3>1. chan[c] \in Seq(BOOLEAN) /\ chan[c] # <<>>
      BY <2>1 DEF Receive
    <3>2. Tail(chan[c]) \in Seq(BOOLEAN)
      BY <3>1
    <3> QED
      BY <2>1, <3>2 DEF Receive
  <2>2. CASE Send(c)
    <3>1. Verdict(c) \in BOOLEAN
      BY DEF Verdict
    <3>2. Append(chan[c], Verdict(c)) \in Seq(BOOLEAN)
      BY <3>1
    <3> QED
      BY <2>2, <3>2 DEF Send
  <2> QED
    BY <1>0, <2>1, <2>2 DEF CheckFlags, Discover, LookUpIdentity,
       EnsureRegistryToken, ResolveTag, DiscoverSignatureBundle,
       RunCosignVerify, GiveUp, BeginVerify, TimeOut, Compute
<1> QED
  BY <1>1, <1>2, <1>3, <1>4, <1>5, <1>6

\* A call's step leaves the other calls alone.
LEMMA CallActionIsLocal ==
    ASSUME TypeOK, NEW c \in Calls, CallAction(c), NEW x \in Calls, x # c
    PROVE  /\ at'[x] = at[x] /\ outcome'[x] = outcome[x]
           /\ policy'[x] = policy[x] /\ subject'[x] = subject[x]
           /\ before'[x] = before[x] /\ bundle'[x] = bundle[x]
           /\ worker'[x] = worker[x] /\ chan'[x] = chan[x]
<1> USE DEF TypeOK
<1>1. \A l : Move(c, l) => at'[x] = at[x] /\ outcome'[x] = outcome[x]
  BY DEF Move
<1>2. \A o : End(c, o) => at'[x] = at[x] /\ outcome'[x] = outcome[x]
  BY DEF End
<1>3. CASE CheckFlags(c)
  BY <1>1, <1>2, <1>3 DEF CheckFlags
<1>4. CASE Discover(c) \/ EnsureRegistryToken(c) \/ ResolveTag(c)
  BY <1>1, <1>4 DEF Discover, EnsureRegistryToken, ResolveTag
<1>5. CASE LookUpIdentity(c)
  BY <1>1, <1>2, <1>5 DEF LookUpIdentity
<1>6. CASE DiscoverSignatureBundle(c)
  BY <1>1, <1>2, <1>6 DEF DiscoverSignatureBundle
<1>7. CASE RunCosignVerify(c) \/ GiveUp(c) \/ TimeOut(c) \/ Receive(c)
  BY <1>2, <1>7 DEF RunCosignVerify, GiveUp, TimeOut, Receive
<1>8. CASE BeginVerify(c)
  <2>1. worker'[x] = worker[x]
    <3>1. CASE UNCHANGED worker
      BY <3>1
    <3>2. CASE worker' = [worker EXCEPT ![c] = "running"]
      BY <3>2
    <3> QED
      BY <1>8, <3>1, <3>2, Zenon DEF BeginVerify
  <2>2. (\E l : Move(c, l)) \/ (\E o : End(c, o))
    BY <1>8, Zenon DEF BeginVerify
  <2> QED
    BY <1>1, <1>2, <1>8, <2>1, <2>2 DEF BeginVerify
<1>9. CASE Compute(c) \/ Send(c)
  BY <1>9 DEF Compute, Send
<1> QED
  BY <1>3, <1>4, <1>5, <1>6, <1>7, <1>8, <1>9 DEF CallAction, CallStep

LEMMA CallOrdered ==
    ASSUME TypeOK, NEW c \in Calls, CallAction(c)
    PROVE  Ordered(c)'
<1> USE DEF TypeOK, Ordered
<1>0. UNCHANGED <<world, req>>
  BY CallActionKeeps
<1>1. CASE CheckFlags(c) \/ Discover(c) \/ EnsureRegistryToken(c) \/ ResolveTag(c)
  BY <1>1 DEF CheckFlags, Discover, EnsureRegistryToken, ResolveTag, Move, End, Steps
<1>2. CASE LookUpIdentity(c)
  BY <1>2 DEF LookUpIdentity, Move, End
<1>3. CASE DiscoverSignatureBundle(c)
  <2>1. CASE Move(c, "check") /\ UNCHANGED bundle
    BY <1>3, <2>1 DEF DiscoverSignatureBundle, Move
  <2>2. ASSUME NEW r \in attached, bundle' = [bundle EXCEPT ![c] = r],
               Move(c, "check") \/ End(c, "malformed")
        PROVE  Ordered(c)'
    BY <1>3, <2>2 DEF DiscoverSignatureBundle, Move, End
  <2> QED
    BY <1>3, <2>1, <2>2 DEF DiscoverSignatureBundle
<1>4. CASE RunCosignVerify(c) \/ GiveUp(c) \/ TimeOut(c)
  BY <1>4 DEF RunCosignVerify, GiveUp, TimeOut, End
<1>5. CASE BeginVerify(c)
  <2>1. CASE UNCHANGED worker /\ \E o \in {"unsigned", "policy", "malformed"} : End(c, o)
    BY <1>5, <2>1 DEF BeginVerify, End
  <2>2. CASE /\ bundle[c] # NoBundle
             /\ Move(c, "waiting") /\ worker' = [worker EXCEPT ![c] = "running"]
    BY <1>5, <2>2 DEF BeginVerify, Move
  <2> QED
    BY <1>5, <2>1, <2>2, Zenon DEF BeginVerify
<1>6. CASE Receive(c)
  <2>1. chan[c] \in Seq(BOOLEAN) /\ chan[c] # <<>> /\ Len(chan[c]) <= 1
    BY <1>6 DEF Receive, ChanCapacity
  <2>2. Len(Tail(chan[c])) <= 1
    BY <2>1
  <2> QED
    BY <1>6, <2>2 DEF Receive, End, ChanCapacity
<1>7. CASE Compute(c)
  BY <1>7 DEF Compute
<1>8. CASE Send(c)
  <2>1. chan[c] \in Seq(BOOLEAN) /\ Len(chan[c]) < 1
    BY <1>8 DEF Send, ChanCapacity
  <2>2. Len(Append(chan[c], Verdict(c))) <= 1
    BY <2>1
  <2> QED
    BY <1>8, <2>2 DEF Send, ChanCapacity
<1> QED
  BY <1>1, <1>2, <1>3, <1>4, <1>5, <1>6, <1>7, <1>8 DEF CallAction, CallStep

LEMMA CallTypeOK ==
    ASSUME TypeOK, NEW c \in Calls, CallAction(c)
    PROVE  TypeOK'
<1>1. UNCHANGED <<world, req>>
  BY CallActionKeeps
<1>2. \A x \in Calls : Ordered(x)'
  <2> TAKE x \in Calls
  <2>1. CASE x = c
    <3>1. Ordered(c)'
      BY CallOrdered
    <3> QED
      BY <2>1, <3>1 DEF Ordered
  <2>2. CASE x # c
    <3>1. Ordered(x)
      BY DEF TypeOK
    <3> QED
      BY <2>2, <3>1, CallActionIsLocal DEF Ordered
  <2> QED
    BY <2>1, <2>2
<1> QED
  BY <1>1, <1>2, CallTyped DEF TypeOK, world

LEMMA NextTypeOK == TypeOK /\ [Next]_vars => TypeOK'
<1> SUFFICES ASSUME TypeOK, [Next]_vars PROVE TypeOK'
  OBVIOUS
<1>1. CASE \E c \in Calls : CallAction(c)
  BY <1>1, CallTypeOK
<1>2. CASE WorldStep
  BY <1>2, WorldStepKeeps DEF TypeOK, Ordered, calls
<1>3. CASE UNCHANGED vars
  BY <1>3 DEF vars, TypeOK, Ordered
<1> QED
  BY <1>1, <1>2, <1>3, NextIsCallOrWorld

\* What calls hold is of its type, the channel never holds more than one answer,
\* and nobody waits for a goroutine that was given nothing to check.
THEOREM VerificationTypeOK == Spec => []TypeOK
BY InitTypeOK, NextTypeOK, PTL DEF Spec

(***************************************************************************)
(* What a call relies on between its steps.                                *)
(***************************************************************************)

\* What the flags say of the signer.
FlagPolicy(q) == [san |-> q.identity, path |-> None, issuer |-> ExpectedIssuer(q)]

\* The policy is what the flags ask for, or what the hub had on record.
Pinned(c) ==
    IF HubLookup(req[c])
    THEN /\ policy[c].san = None /\ policy[c].path # None /\ policy[c].issuer # None
         /\ \E h \in recorded : /\ h.scheme = "keyless"
                                /\ h.path = policy[c].path
                                /\ h.issuer = policy[c].issuer
    ELSE policy[c] = FlagPolicy(req[c])

InProcess == {"resolve", "referrers", "check", "waiting"}

PolicyInv(c) ==
    /\ at[c] # "flags" /\ outcome[c] # "flags" => ~Conflicting(req[c])
    /\ at[c] \in {"discover", "lookup"} => policy[c] = FlagPolicy(req[c])
    /\ at[c] = "lookup" => HubLookup(req[c])
    /\ at[c] \in {"token", "cosign"} \cup InProcess => Pinned(c)
    /\ at[c] = "cosign" => req[c].key /\ req[c].name = "verify"
    /\ at[c] \in InProcess /\ req[c].key => req[c].name = "unpack"
    /\ at[c] = "waiting" => Buildable(policy[c])

\* The bundle in hand is a signature on the manifest that was looked up.
LookupInv(c) ==
    /\ at[c] \notin {"check", "waiting", "ended"} => bundle[c] = NoBundle
    /\ at[c] = "referrers" =>
           \A r \in before[c] : r \in attached /\ r.subject = subject[c]
    /\ at[c] = "check" /\ bundle[c] = NoBundle =>
           \A r \in before[c] : r.type \notin SignatureTypes
    /\ bundle[c] # NoBundle =>
           /\ bundle[c] \in attached
           /\ bundle[c].subject = subject[c]
           /\ bundle[c].type \in SignatureTypes

\* The channel is empty or holds the verdict on what is in hand.
WorkerInv(c) ==
    /\ at[c] \notin {"waiting", "ended"} => worker[c] = "none"
    /\ worker[c] # "gone" => chan[c] = <<>>
    /\ chan[c] # <<>> => Head(chan[c]) = Verdict(c)

\* The properties, of one call.
Claims(c) ==
    /\ outcome[c] = "accepted" =>
          \E r \in attached :
              /\ r.subject = subject[c] /\ r.over = subject[c]
              /\ r.type \in {"cosign", "bundle"}
              /\ IF req[c].key
                 THEN req[c].name = "verify" /\ r.form = "keySigned"
                 ELSE r.form = "certified" /\ \E h \in recorded : Wanted(req[c], r, h)
    /\ outcome[c] = "unsigned" =>
          \A r \in before[c] : r.type \notin {"cosign", "bundle"}
    /\ outcome[c] = "rejected" /\ ~req[c].key =>
          \E r \in attached :
              /\ r.subject = subject[c] /\ r.type \in {"cosign", "bundle"}
              /\ ~ /\ r.form = "certified" /\ r.over = subject[c]
                   /\ \A h \in recorded : Wanted(req[c], r, h)
    /\ outcome[c] = "policy" => req[c].name = "unpack" /\ req[c].key

CallInv(c) == PolicyInv(c) /\ LookupInv(c) /\ WorkerInv(c) /\ Claims(c)

Inv == record \in recorded /\ \A c \in Calls : CallInv(c)

\* A call that does nothing keeps all this: attachments and records are only
\* added.
LEMMA CallInvStable ==
    ASSUME NEW x \in Calls, CallInv(x), req' = req,
           attached \subseteq attached', recorded \subseteq recorded',
           at'[x] = at[x], outcome'[x] = outcome[x], policy'[x] = policy[x],
           subject'[x] = subject[x], before'[x] = before[x],
           bundle'[x] = bundle[x], worker'[x] = worker[x], chan'[x] = chan[x]
    PROVE  CallInv(x)'
<1>1. PolicyInv(x)'
  BY DEF CallInv, PolicyInv, Pinned
<1>2. LookupInv(x)'
  BY DEF CallInv, LookupInv
<1>3. WorkerInv(x)'
  BY DEF CallInv, WorkerInv, Verdict
<1>4. Claims(x)'
  BY DEF CallInv, Claims
<1> QED
  BY <1>1, <1>2, <1>3, <1>4 DEF CallInv

LEMMA InitInv == Init => Inv
BY DEF Init, Inv, CallInv, PolicyInv, LookupInv, WorkerInv, Claims, InProcess

LEMMA CallPolicyInv ==
    ASSUME TypeOK, Inv, NEW c \in Calls, CallAction(c)
    PROVE  PolicyInv(c)'
<1> USE DEF TypeOK, PolicyInv, InProcess, Move, End
<1>0. UNCHANGED <<world, req>> /\ PolicyInv(c) /\ record \in recorded
  BY CallActionKeeps DEF Inv, CallInv
<1>00. at[c] # "ended" => outcome[c] = "pending"
  BY DEF Ordered
<1>1. CASE CheckFlags(c)
  BY <1>0, <1>00, <1>1 DEF CheckFlags, FlagPolicy
<1>2. CASE Discover(c)
  BY <1>0, <1>00, <1>2 DEF Discover, Pinned, FlagPolicy
<1>3. CASE LookUpIdentity(c)
  <2>1. CASE /\ record.scheme = "keyless" /\ record.path # None /\ record.issuer # None
             /\ Move(c, "token")
             /\ policy' = [policy EXCEPT ![c].path = record.path,
                                         ![c].issuer = record.issuer]
    <3>1. policy[c] = FlagPolicy(req[c]) /\ HubLookup(req[c]) /\ at[c] = "lookup"
      BY <1>0, <1>00, <1>3 DEF LookUpIdentity
    <3>2. /\ policy'[c].san = None /\ policy'[c].path = record.path
          /\ policy'[c].issuer = record.issuer
      BY <2>1, <3>1 DEF FlagPolicy, HubLookup, Policy
    <3>3. Pinned(c)'
      BY <1>0, <1>00, <2>1, <3>1, <3>2 DEF Pinned, world
    <3> QED
      BY <1>0, <1>00, <2>1, <3>1, <3>3
  <2>2. CASE End(c, "record") /\ UNCHANGED policy
    BY <1>0, <1>00, <1>3, <2>2 DEF LookUpIdentity
  <2> QED
    BY <1>3, <2>1, <2>2, Zenon DEF LookUpIdentity
<1>4. CASE EnsureRegistryToken(c)
  BY <1>0, <1>00, <1>4, RequestsAssumption DEF EnsureRegistryToken, Pinned, world, Request
<1>5. CASE ResolveTag(c)
  BY <1>0, <1>00, <1>5 DEF ResolveTag, Pinned, world
<1>6. CASE DiscoverSignatureBundle(c)
  <2>1. at[c] = "referrers" /\ policy' = policy /\ (Move(c, "check") \/ End(c, "malformed"))
    BY <1>6 DEF DiscoverSignatureBundle
  <2> QED
    BY <1>0, <1>00, <2>1 DEF Pinned, world
<1>7. CASE RunCosignVerify(c) \/ GiveUp(c) \/ TimeOut(c) \/ Receive(c)
  BY <1>0, <1>00, <1>7 DEF RunCosignVerify, GiveUp, TimeOut, Receive, Network
<1>8. CASE BeginVerify(c)
  <2>1. at[c] = "check" /\ policy' = policy
    BY <1>8 DEF BeginVerify
  <2>2. \/ Move(c, "waiting") /\ Buildable(policy[c])
        \/ \E o \in {"unsigned", "policy", "malformed"} : End(c, o)
    BY <1>8 DEF BeginVerify
  <2> QED
    BY <1>0, <1>00, <2>1, <2>2 DEF Pinned, world, Buildable
<1>9. CASE Compute(c) \/ Send(c)
  BY <1>0, <1>00, <1>9, ZenonT(60) DEF Compute, Send, Pinned, world, Buildable
<1> QED
  BY <1>1, <1>2, <1>3, <1>4, <1>5, <1>6, <1>7, <1>8, <1>9 DEF CallAction, CallStep

LEMMA CallLookupInv ==
    ASSUME TypeOK, Inv, NEW c \in Calls, CallAction(c)
    PROVE  LookupInv(c)'
<1> USE DEF TypeOK, LookupInv, Move, End
<1>0. UNCHANGED <<world, req>> /\ LookupInv(c)
  BY CallActionKeeps DEF Inv, CallInv
<1>1. CASE CheckFlags(c) \/ Discover(c) \/ EnsureRegistryToken(c)
  BY <1>0, <1>1 DEF CheckFlags, Discover, EnsureRegistryToken, world
<1>2. CASE LookUpIdentity(c)
  BY <1>0, <1>2 DEF LookUpIdentity, world
<1>3. CASE ResolveTag(c)
  BY <1>0, <1>3 DEF ResolveTag, world
<1>4. CASE DiscoverSignatureBundle(c)
  <2> DEFINE refs == {r \in attached : r.subject = subject[c] /\ r.type \in SignatureTypes}
  <2>0. at[c] = "referrers" /\ subject' = subject /\ before' = before /\ bundle[c] = NoBundle
    BY <1>0, <1>4 DEF DiscoverSignatureBundle
  <2>1. CASE refs = {} /\ Move(c, "check") /\ UNCHANGED bundle
    BY <1>0, <2>0, <2>1 DEF world
  <2>2. ASSUME NEW r \in refs, bundle' = [bundle EXCEPT ![c] = r],
               Move(c, "check") \/ End(c, "malformed")
        PROVE  LookupInv(c)'
    <3>1. bundle'[c] = r /\ r # NoBundle
      BY <2>2, NoBundleAssumption, ReferrersAssumption
    <3> QED
      BY <1>0, <2>0, <2>2, <3>1 DEF world
  <2> QED
    BY <1>4, <2>1, <2>2 DEF DiscoverSignatureBundle
<1>5. CASE RunCosignVerify(c) \/ GiveUp(c) \/ TimeOut(c) \/ Receive(c)
  BY <1>0, <1>5 DEF RunCosignVerify, GiveUp, TimeOut, Receive, Network, world
<1>6. CASE BeginVerify(c)
  <2>1. /\ at[c] = "check" /\ UNCHANGED <<subject, before, bundle>>
        /\ at'[c] \in {"waiting", "ended"}
    BY <1>6 DEF BeginVerify
  <2> QED
    BY <1>0, <2>1 DEF world
<1>7. CASE Compute(c) \/ Send(c)
  BY <1>0, <1>7 DEF Compute, Send, world
<1> QED
  BY <1>1, <1>2, <1>3, <1>4, <1>5, <1>6, <1>7 DEF CallAction, CallStep

LEMMA CallWorkerInv ==
    ASSUME TypeOK, Inv, NEW c \in Calls, CallAction(c)
    PROVE  WorkerInv(c)'
<1> USE DEF TypeOK, WorkerInv, Move, End
<1>0. UNCHANGED <<world, req>> /\ WorkerInv(c)
  BY CallActionKeeps DEF Inv, CallInv
<1>1. CASE CheckFlags(c) \/ Discover(c) \/ EnsureRegistryToken(c) \/ ResolveTag(c)
           \/ RunCosignVerify(c) \/ GiveUp(c)
  BY <1>0, <1>1 DEF CheckFlags, Discover, EnsureRegistryToken, ResolveTag,
     RunCosignVerify, GiveUp, Network
<1>2. CASE LookUpIdentity(c)
  BY <1>0, <1>2 DEF LookUpIdentity
<1>3. CASE DiscoverSignatureBundle(c)
  BY <1>0, <1>3 DEF DiscoverSignatureBundle
<1>4. CASE BeginVerify(c)
  <2>1. at[c] = "check" /\ chan' = chan /\ at'[c] \in {"waiting", "ended"}
    BY <1>4 DEF BeginVerify
  <2>2. chan[c] = <<>>
    BY <1>0, <2>1
  <2> QED
    BY <2>1, <2>2
<1>5. CASE Receive(c)
  <2>1. chan[c] \in Seq(BOOLEAN) /\ chan[c] # <<>> /\ Len(chan[c]) <= 1
    BY <1>5 DEF Receive, Ordered, ChanCapacity
  <2>2. Tail(chan[c]) = <<>>
    BY <2>1
  <2> QED
    BY <1>0, <1>5, <2>2 DEF Receive
<1>6. CASE TimeOut(c)
  BY <1>0, <1>6 DEF TimeOut, Verdict
<1>7. CASE Compute(c)
  BY <1>0, <1>7 DEF Compute, Verdict
<1>8. CASE Send(c)
  <2>1. chan[c] = <<>> /\ worker'[c] = "gone"
    BY <1>0, <1>8 DEF Send
  <2>2. chan'[c] = <<Verdict(c)>>
    BY <1>8, <2>1 DEF Send
  <2>3. Verdict(c)' = Verdict(c)
    BY <1>8 DEF Send, Verdict
  <2>4. Head(chan'[c]) = Verdict(c)
    BY <2>2
  <2> QED
    BY <1>0, <1>8, <2>1, <2>3, <2>4 DEF Send
<1> QED
  BY <1>1, <1>2, <1>3, <1>4, <1>5, <1>6, <1>7, <1>8 DEF CallAction, CallStep

\* A keyless policy can always be built: the other half of Buildable's contract.
LEMMA KeylessIsBuildable ==
    ASSUME NEW c \in Calls, Pinned(c), ~req[c].key
    PROVE  Buildable(policy[c])
<1>1. CASE HubLookup(req[c])
  BY <1>1 DEF Pinned, Buildable
<1>2. CASE ~HubLookup(req[c])
  <2>1. req[c].identity # None
    BY <1>2 DEF HubLookup
  <2>2. ExpectedIssuer(req[c]) # None
    BY <2>1, IssuersAssumption, NoneAssumption DEF ExpectedIssuer
  <2> QED
    BY <1>2, <2>1, <2>2 DEF Pinned, FlagPolicy, Buildable
<1> QED
  BY <1>1, <1>2

\* A key alone pins nobody.
LEMMA KeyIsNotBuildable ==
    ASSUME NEW c \in Calls, Pinned(c), req[c].key, ~Conflicting(req[c])
    PROVE  ~Buildable(policy[c])
BY DEF Pinned, HubLookup, FlagPolicy, Buildable, Conflicting, ExpectedIssuer

\* What the pinned policy matches is what the request wants, of some record; and
\* what every record and the request want, the policy matches.
LEMMA MatchesIsWanted ==
    ASSUME NEW c \in Calls, Pinned(c), ~req[c].key, NEW b \in Referrer
    PROVE  /\ Matches(policy[c], b) /\ recorded # {} =>
                  \E h \in recorded : Wanted(req[c], b, h)
           /\ recorded # {} /\ (\A h \in recorded : Wanted(req[c], b, h)) =>
                  Matches(policy[c], b)
<1>1. CASE HubLookup(req[c])
  BY <1>1 DEF Pinned, Matches, Wanted
<1>2. CASE ~HubLookup(req[c])
  BY <1>2 DEF Pinned, Matches, Wanted, FlagPolicy, HubLookup
<1> QED
  BY <1>1, <1>2

LEMMA CallClaims ==
    ASSUME TypeOK, Inv, NEW c \in Calls, CallAction(c)
    PROVE  Claims(c)'
<1> USE DEF TypeOK, Move, End
<1>0. UNCHANGED <<world, req>> /\ CallInv(c) /\ recorded # {}
  BY CallActionKeeps DEF Inv
<1>00. at[c] # "ended" => outcome[c] = "pending"
  BY DEF Ordered
<1>h. outcome'[c] \notin {"accepted", "unsigned", "rejected", "policy"} => Claims(c)'
  BY DEF Claims
<1>1. CASE CheckFlags(c) \/ Discover(c) \/ EnsureRegistryToken(c) \/ ResolveTag(c)
           \/ GiveUp(c) \/ TimeOut(c)
  BY <1>00, <1>h, <1>1, Zenon DEF CheckFlags, Discover, EnsureRegistryToken,
     ResolveTag, GiveUp, TimeOut, Network
<1>2. CASE LookUpIdentity(c)
  BY <1>00, <1>h, <1>2 DEF LookUpIdentity
<1>3. CASE DiscoverSignatureBundle(c)
  BY <1>00, <1>h, <1>3 DEF DiscoverSignatureBundle
<1>4. CASE RunCosignVerify(c)
  <2>1. at[c] = "cosign" /\ req[c].key /\ req[c].name = "verify"
    BY <1>0, <1>4 DEF RunCosignVerify, CallInv, PolicyInv
  <2>2. subject'[c] = tag
    BY <1>4 DEF RunCosignVerify
  <2>3. CASE \E r \in attached : /\ r.subject = tag /\ r.over = tag
                                 /\ r.type \in {"cosign", "bundle"}
                                 /\ r.form = "keySigned"
    <3>1. outcome'[c] = "accepted"
      BY <1>4, <2>3 DEF RunCosignVerify
    <3> QED
      BY <1>0, <2>1, <2>2, <2>3, <3>1 DEF Claims, world
  <2>4. CASE ~\E r \in attached : /\ r.subject = tag /\ r.over = tag
                                  /\ r.type \in {"cosign", "bundle"}
                                  /\ r.form = "keySigned"
    <3>1. outcome'[c] = "rejected"
      BY <1>4, <2>4 DEF RunCosignVerify
    <3> QED
      BY <1>0, <2>1, <3>1 DEF Claims
  <2> QED
    BY <2>3, <2>4
<1>5. CASE BeginVerify(c)
  <2>0. at[c] = "check" /\ before' = before
    BY <1>5 DEF BeginVerify
  <2>1. Pinned(c) /\ (req[c].key => req[c].name = "unpack")
    BY <1>0, <2>0 DEF CallInv, PolicyInv, InProcess
  <2>2. \/ outcome'[c] \in {"pending", "malformed"}
        \/ outcome'[c] = "unsigned" /\ bundle[c] = NoBundle
        \/ outcome'[c] = "policy" /\ ~Buildable(policy[c])
    BY <1>00, <1>5, <2>0 DEF BeginVerify
  <2>3. CASE outcome'[c] = "unsigned" /\ bundle[c] = NoBundle
    BY <1>0, <2>0, <2>3 DEF Claims, CallInv, LookupInv, SignatureTypes
  <2>4. CASE outcome'[c] = "policy" /\ ~Buildable(policy[c])
    <3>1. req[c].key \/ ~req[c].key
      BY RequestsAssumption DEF Request
    <3> QED
      BY <1>0, <2>1, <2>4, <3>1, KeylessIsBuildable DEF Claims
  <2> QED
    BY <1>h, <2>2, <2>3, <2>4
<1>6. CASE Receive(c)
  <2>0. at[c] = "waiting" /\ chan[c] # <<>> /\ subject' = subject
    BY <1>6 DEF Receive
  <2>1. Pinned(c) /\ Buildable(policy[c]) /\ ~Conflicting(req[c]) /\ ~req[c].key
    <3>1. Pinned(c) /\ Buildable(policy[c]) /\ ~Conflicting(req[c])
      BY <1>0, <1>00, <2>0 DEF CallInv, PolicyInv, InProcess
    <3> QED
      BY <3>1, KeyIsNotBuildable
  <2>2. bundle[c] # NoBundle /\ bundle[c] \in Referrer
    BY <2>0, NoBundleAssumption, ReferrersAssumption DEF Ordered
  <2>3. /\ bundle[c] \in attached /\ bundle[c].subject = subject[c]
        /\ bundle[c].type \in SignatureTypes
    BY <1>0, <2>2 DEF CallInv, LookupInv
  <2>4. Head(chan[c]) = Verdict(c)
    BY <1>0, <2>0 DEF CallInv, WorkerInv
  <2>5. CASE Verdict(c)
    <3>1. outcome'[c] = "accepted"
      BY <1>6, <2>4, <2>5 DEF Receive
    <3>2. \E h \in recorded : Wanted(req[c], bundle[c], h)
      BY <1>0, <2>1, <2>2, <2>5, MatchesIsWanted DEF Verdict
    <3> QED
      BY <1>0, <2>0, <2>1, <2>3, <2>5, <3>1, <3>2
      DEF Claims, Verdict, SignatureTypes, world
  <2>6. CASE ~Verdict(c)
    <3>1. outcome'[c] = "rejected"
      BY <1>6, <2>4, <2>6 DEF Receive
    <3>2. ~ /\ bundle[c].form = "certified" /\ bundle[c].over = subject[c]
            /\ \A h \in recorded : Wanted(req[c], bundle[c], h)
      BY <1>0, <2>1, <2>2, <2>6, MatchesIsWanted DEF Verdict
    <3> QED
      BY <1>0, <2>0, <2>3, <3>1, <3>2 DEF Claims, SignatureTypes, world
  <2> QED
    BY <2>5, <2>6
<1>7. CASE Compute(c) \/ Send(c)
  BY <1>0, <1>7, ZenonT(60) DEF Compute, Send, CallInv, Claims, world
<1> QED
  BY <1>1, <1>2, <1>3, <1>4, <1>5, <1>6, <1>7 DEF CallAction, CallStep

LEMMA NextInv == TypeOK /\ Inv /\ [Next]_vars => Inv'
<1> SUFFICES ASSUME TypeOK, Inv, [Next]_vars PROVE Inv'
  OBVIOUS
<1>0. record \in recorded /\ \A x \in Calls : CallInv(x)
  BY DEF Inv
<1>1. ASSUME NEW c \in Calls, CallAction(c) PROVE Inv'
  <2>0. UNCHANGED <<world, req>>
    BY <1>1, CallActionKeeps
  <2>1. CallInv(c)'
    BY <1>1, CallPolicyInv, CallLookupInv, CallWorkerInv, CallClaims DEF CallInv
  <2>2. ASSUME NEW x \in Calls, x # c PROVE CallInv(x)'
    <3>1. CallInv(x)
      BY <1>0
    <3>2. attached \subseteq attached' /\ recorded \subseteq recorded' /\ req' = req
      BY <2>0 DEF world
    <3> HIDE DEF CallInv
    <3> QED
      BY <1>1, <2>2, <3>1, <3>2, CallActionIsLocal, CallInvStable
  <2>3. record' \in recorded'
    BY <1>0, <2>0 DEF world
  <2>4. ASSUME NEW x \in Calls PROVE CallInv(x)'
    BY <2>1, <2>2
  <2> QED
    BY <2>3, <2>4 DEF Inv
<1>2. ASSUME WorldStep \/ UNCHANGED vars PROVE Inv'
  <2>1. /\ attached \subseteq attached' /\ recorded \subseteq recorded'
        /\ record' \in recorded' /\ UNCHANGED calls
    BY <1>0, <1>2, WorldStepKeeps, CallsAreVars DEF world
  <2>2. ASSUME NEW x \in Calls PROVE CallInv(x)'
    <3>1. CallInv(x)
      BY <1>0
    <3> QED
      BY <2>1, <3>1, CallInvStable DEF calls
  <2> QED
    BY <2>1, <2>2 DEF Inv
<1> QED
  BY <1>1, <1>2, NextIsCallOrWorld

LEMMA VerificationInv == Spec => []Inv
BY InitInv, NextInv, VerificationTypeOK, PTL DEF Spec

\* Nothing is accepted but on a signature that covers the manifest and is by
\* the key, the identity of the flags, or one the hub recorded.
THEOREM VerificationAcceptedIsAuthentic == Spec => []AcceptedIsAuthentic
<1>1. Inv => AcceptedIsAuthentic
  BY DEF Inv, CallInv, Claims, AcceptedIsAuthentic
<1> QED
  BY <1>1, VerificationInv, PTL

\* A manifest signed before its tag was resolved is never called unsigned.
THEOREM VerificationSignedIsNotCalledUnsigned == Spec => []SignedIsNotCalledUnsigned
<1>1. Inv => SignedIsNotCalledUnsigned
  BY DEF Inv, CallInv, Claims, SignedIsNotCalledUnsigned
<1> QED
  BY <1>1, VerificationInv, PTL

\* A rejection is due to a signature that is not the wanted signer's.
THEOREM VerificationRejectedForACause == Spec => []RejectedForACause
<1>1. Inv => RejectedForACause
  BY DEF Inv, CallInv, Claims, RejectedForACause
<1> QED
  BY <1>1, VerificationInv, PTL

\* Only unpack with a key reaches Verify with a policy it cannot build.
THEOREM VerificationPolicyIsBuildable == Spec => []PolicyIsBuildable
<1>1. Inv => PolicyIsBuildable
  BY DEF Inv, CallInv, Claims, PolicyIsBuildable
<1> QED
  BY <1>1, VerificationInv, PTL

(***************************************************************************)
(***************************************************************************)
(* Progress.  The provers cannot compute ENABLED, so the theorems below    *)
(* take as a hypothesis what it is for the fair actions, read off their    *)
(* guards; that the guards hold when they must is proved, and that nobody  *)
(* else moves a call that is in Verify.                                    *)
(***************************************************************************)
BeginEnabling(c) == at[c] = "check" => ENABLED <<BeginVerify(c)>>_vars
AnswerEnabling(c) ==
    at[c] = "waiting" => ENABLED <<Receive(c) \/ TimeOut(c)>>_vars
SendEnabling(c) ==
    worker[c] = "sending" /\ Len(chan[c]) < ChanCapacity => ENABLED <<Send(c)>>_vars

\* Of all that happens to a call in Verify, its own steps alone move it.
LEMMA VerifyIsItsOwn ==
    ASSUME TypeOK, NEW c \in Calls, [Next]_vars, at[c] \in {"check", "waiting"}
    PROVE  \/ at'[c] = at[c]
           \/ BeginVerify(c) \/ Receive(c) \/ TimeOut(c)
<1>1. CASE CallStep(c)
  BY <1>1 DEF CallStep, CheckFlags, Discover, LookUpIdentity, EnsureRegistryToken,
              ResolveTag, DiscoverSignatureBundle, RunCosignVerify, GiveUp, Network
<1>2. CASE Compute(c) \/ Send(c)
  BY <1>2 DEF Compute, Send
<1>3. ASSUME NEW x \in Calls, x # c, CallAction(x) PROVE at'[c] = at[c]
  BY <1>3, CallActionIsLocal
<1>4. CASE WorldStep \/ UNCHANGED vars
  BY <1>4, WorldStepKeeps, CallsAreVars DEF calls
<1> QED
  BY <1>1, <1>2, <1>3, <1>4, NextIsCallOrWorld DEF CallAction

LEMMA BeginLeavesCheck ==
    ASSUME TypeOK, NEW c \in Calls, BeginVerify(c)
    PROVE  at'[c] \in {"waiting", "ended"}
BY DEF BeginVerify, Move, End, TypeOK

LEMMA AnswerEnds ==
    ASSUME TypeOK, NEW c \in Calls, Receive(c) \/ TimeOut(c)
    PROVE  at[c] = "waiting" /\ at'[c] = "ended"
BY DEF Receive, TimeOut, End, TypeOK

LEMMA OneCallReturns ==
    ASSUME NEW c \in Calls
    PROVE  Spec /\ Fair(c) /\ []BeginEnabling(c) /\ []AnswerEnabling(c)
               => ((at[c] \in {"check", "waiting"}) ~> (at[c] = "ended"))
<1> DEFINE Checks == at[c] = "check"
           Waits == at[c] = "waiting"
           Ended == at[c] = "ended"
<1>1. TypeOK /\ [Next]_vars
      => /\ Checks => Checks' \/ Waits' \/ Ended'
         /\ Waits => Waits' \/ Ended'
  <2> SUFFICES ASSUME TypeOK, [Next]_vars, at[c] \in {"check", "waiting"}
               PROVE  /\ Checks => at'[c] \in {"check", "waiting", "ended"}
                      /\ Waits => at'[c] \in {"waiting", "ended"}
    OBVIOUS
  <2>1. CASE BeginVerify(c)
    BY <2>1, BeginLeavesCheck DEF BeginVerify
  <2>2. CASE Receive(c) \/ TimeOut(c)
    BY <2>2, AnswerEnds
  <2> QED
    BY <2>1, <2>2, VerifyIsItsOwn
<1>2. TypeOK /\ <<BeginVerify(c)>>_vars => Waits' \/ Ended'
  BY BeginLeavesCheck
<1>3. TypeOK /\ <<Receive(c) \/ TimeOut(c)>>_vars => Ended'
  BY AnswerEnds
<1>4. /\ BeginEnabling(c) => (Checks => ENABLED <<BeginVerify(c)>>_vars)
      /\ AnswerEnabling(c) => (Waits => ENABLED <<Receive(c) \/ TimeOut(c)>>_vars)
  BY DEF BeginEnabling, AnswerEnabling
<1>5. (at[c] \in {"check", "waiting"}) <=> Checks \/ Waits
  OBVIOUS
<1> HIDE DEF Checks, Waits, Ended
<1>6. Ended <=> at[c] = "ended"
  BY DEF Ended
<1> QED
  BY <1>1, <1>2, <1>3, <1>4, <1>5, <1>6, VerificationTypeOK, PTL DEF Spec, Fair

\* Verify returns, whatever happens to its goroutine and around it.
THEOREM VerificationVerifyReturns ==
    FairSpec /\ (\A c \in Calls : []BeginEnabling(c) /\ []AnswerEnabling(c))
        => VerifyReturns
BY OneCallReturns DEF FairSpec, VerifyReturns

\* A goroutine that has its answer finds the channel empty, whether its caller
\* still listens or not.
LEMMA RoomToSend ==
    ASSUME TypeOK, Inv, NEW c \in Calls, worker[c] = "sending"
    PROVE  Len(chan[c]) < ChanCapacity
BY DEF Inv, CallInv, WorkerInv, ChanCapacity

LEMMA SendingUntilSent ==
    ASSUME TypeOK, Inv, NEW c \in Calls, worker[c] = "sending", [Next]_vars
    PROVE  worker'[c] \in {"sending", "gone"}
<1>0. at[c] \in {"waiting", "ended"}
  BY DEF Inv, CallInv, WorkerInv
<1>1. CASE CallStep(c)
  <2>1. Receive(c) \/ TimeOut(c)
    BY <1>0, <1>1 DEF CallStep, CheckFlags, Discover, LookUpIdentity,
       EnsureRegistryToken, ResolveTag, DiscoverSignatureBundle, RunCosignVerify,
       GiveUp, Network, BeginVerify
  <2> QED
    BY <2>1 DEF Receive, TimeOut
<1>2. CASE Compute(c) \/ Send(c)
  BY <1>2 DEF Compute, Send, TypeOK
<1>3. ASSUME NEW x \in Calls, x # c, CallAction(x) PROVE worker'[c] = worker[c]
  BY <1>3, CallActionIsLocal
<1>4. CASE WorldStep \/ UNCHANGED vars
  BY <1>4, WorldStepKeeps, CallsAreVars DEF calls
<1> QED
  BY <1>1, <1>2, <1>3, <1>4, NextIsCallOrWorld DEF CallAction

LEMMA OneWorkerEnds ==
    ASSUME NEW c \in Calls
    PROVE  Spec /\ Fair(c) /\ []SendEnabling(c)
           => (worker[c] = "sending" ~> worker[c] = "gone")
<1>1. TypeOK /\ Inv /\ worker[c] = "sending" /\ [Next]_vars
      => (worker[c] = "sending")' \/ (worker[c] = "gone")'
  BY SendingUntilSent
<1>2. TypeOK /\ <<Send(c)>>_vars => (worker[c] = "gone")'
  BY DEF Send, TypeOK
<1>3. TypeOK /\ Inv /\ SendEnabling(c) /\ worker[c] = "sending" => ENABLED <<Send(c)>>_vars
  BY RoomToSend DEF SendEnabling
<1> QED
  BY <1>1, <1>2, <1>3, VerificationTypeOK, VerificationInv, PTL DEF Spec, Fair

\* A goroutine that has its answer ends, though its caller be gone.
THEOREM VerificationWorkerEnds ==
    FairSpec /\ (\A c \in Calls : []SendEnabling(c)) => WorkerEnds
BY OneWorkerEnds DEF FairSpec, WorkerEnds
=============================================================================
