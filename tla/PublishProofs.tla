---------------------------- MODULE PublishProofs ----------------------------
(***************************************************************************)
(* Proofs about module Publish, for every set of runs and every set of     *)
(* configurations.                                                         *)
(***************************************************************************)
EXTENDS Publish, Integers, TLAPS

(***************************************************************************)
(* Type correctness.  TypeOK says that the tag, the signatures and the     *)
(* index name manifests the registry holds, which needs to know how far    *)
(* each run has come.                                                      *)
(***************************************************************************)
Pushed ==
    \A r \in Runs :
        /\ pc[r] \in {"tag", "sign", "token", "sync"} => r \in manifests
        /\ pc[r] \in {"sign", "token", "sync"} => tag # NoManifest

TypeInv == TypeOK /\ Pushed

LEMMA InitTypeInv == Init => TypeInv
BY DEF Init, TypeInv, TypeOK, Pushed

LEMMA NextTypeInv == TypeInv /\ [Next]_vars => TypeInv'
<1> SUFFICES ASSUME TypeInv, [Next]_vars PROVE TypeInv'
  OBVIOUS
<1> USE NoManifestAssumption DEF TypeInv, TypeOK, Pushed, Active, Passed, Ended, Goto, registry
<1>1. ASSUME NEW r \in Runs, Start(r) PROVE TypeInv'
  BY <1>1 DEF Start
<1>2. ASSUME NEW r \in Runs, Preflight(r) PROVE TypeInv'
  BY <1>2 DEF Preflight
<1>3. ASSUME NEW r \in Runs, CheckVersionAvailable(r) PROVE TypeInv'
  BY <1>3 DEF CheckVersionAvailable
<1>4. ASSUME NEW r \in Runs, AuthenticatePush(r) PROVE TypeInv'
  BY <1>4 DEF AuthenticatePush
<1>5. ASSUME NEW r \in Runs, Pack(r) PROVE TypeInv'
  BY <1>5 DEF Pack
<1>6. ASSUME NEW r \in Runs, Tag(r) PROVE TypeInv'
  BY <1>6 DEF Tag
<1>7. ASSUME NEW r \in Runs, Sign(r) PROVE TypeInv'
  <2>1. SubjectFor(r) \in manifests
    BY <1>7 DEF Sign, SubjectFor
  <2>2. sigs' \subseteq [subject : manifests, by : Runs]
    BY <1>7, <2>1 DEF Sign
  <2> QED
    BY <1>7, <2>2 DEF Sign
<1>8. ASSUME NEW r \in Runs, ResolveBearerToken(r) PROVE TypeInv'
  BY <1>8 DEF ResolveBearerToken
<1>9. ASSUME NEW r \in Runs, Sync(r) PROVE TypeInv'
  BY <1>9 DEF Sync
<1>10. ASSUME NEW r \in Runs, Abort(r) PROVE TypeInv'
  BY <1>10 DEF Abort
<1>11. CASE Yank
  BY <1>11 DEF Yank
<1>12. CASE UNCHANGED vars
  BY <1>12 DEF vars
<1> QED
  BY <1>1, <1>2, <1>3, <1>4, <1>5, <1>6, <1>7, <1>8, <1>9, <1>10, <1>11, <1>12
  DEF Next, Step

\* Whatever the interleaving and the failures, the tag, the signatures and the
\* hub's index only ever name manifests the registry holds.
THEOREM PublishTypeOK == Spec => []TypeOK
<1>1. TypeInv => TypeOK
  BY DEF TypeInv
<1> QED
  BY InitTypeInv, NextTypeInv, <1>1, PTL DEF Spec

LEMMA PublishTypeInv == Spec => []TypeInv
BY InitTypeInv, NextTypeInv, PTL DEF Spec

(***************************************************************************)
(* Signatures.  A run past the signing step has a signature of its own,    *)
(* unless it was told not to sign.                                         *)
(***************************************************************************)
HasSigned(r) ==
    \E s \in sigs : s.by = r /\ (cfg[r].gha => s.subject = r)

SignInv ==
    \A r \in Runs :
        /\ pc[r] \in {"token", "sync"} /\ ~cfg[r].noSign => HasSigned(r)
        /\ Uploaded(r) /\ ~cfg[r].noSign => HasSigned(r)

LEMMA InitSignInv == Init => SignInv
BY DEF Init, SignInv, Uploaded, Passed

\* Signatures are never removed, so a run that has signed stays signed.
LEMMA SignedStays ==
    ASSUME NEW r \in Runs, HasSigned(r), sigs \subseteq sigs', cfg' = cfg
    PROVE  HasSigned(r)'
BY DEF HasSigned

LEMMA NextSignInv == TypeInv /\ SignInv /\ [Next]_vars => SignInv'
<1> SUFFICES ASSUME TypeInv, SignInv, [Next]_vars PROVE SignInv'
  OBVIOUS
<1> USE DEF TypeInv, TypeOK, SignInv, Uploaded, Active, Passed, Ended, Goto, registry
<1>0. cfg' = cfg
  BY DEF Next, Step, vars, Start, Preflight, CheckVersionAvailable, AuthenticatePush,
     Pack, Tag, Sign, ResolveBearerToken, Sync, Abort, Yank
<1>1. ASSUME NEW r \in Runs, Start(r) PROVE SignInv'
  BY <1>0, <1>1, SignedStays DEF Start
<1>2. ASSUME NEW r \in Runs, Preflight(r) PROVE SignInv'
  BY <1>0, <1>2, SignedStays DEF Preflight
<1>3. ASSUME NEW r \in Runs, CheckVersionAvailable(r) PROVE SignInv'
  BY <1>0, <1>3, SignedStays DEF CheckVersionAvailable
<1>4. ASSUME NEW r \in Runs, AuthenticatePush(r) PROVE SignInv'
  BY <1>0, <1>4, SignedStays DEF AuthenticatePush
<1>5. ASSUME NEW r \in Runs, Pack(r) PROVE SignInv'
  BY <1>0, <1>5, SignedStays DEF Pack
<1>6. ASSUME NEW r \in Runs, Tag(r) PROVE SignInv'
  BY <1>0, <1>6, SignedStays DEF Tag
<1>7. ASSUME NEW r \in Runs, Sign(r) PROVE SignInv'
  <2>1. sigs \subseteq sigs'
    BY <1>7 DEF Sign
  <2>2. ~cfg[r].noSign => HasSigned(r)'
    <3> SUFFICES ASSUME ~cfg[r].noSign PROVE HasSigned(r)'
      OBVIOUS
    <3> DEFINE s == [subject |-> SubjectFor(r), by |-> r]
    <3>1. s \in sigs'
      BY <1>7 DEF Sign
    <3>2. s.by = r /\ (cfg'[r].gha => s.subject = r)
      BY <1>0 DEF SubjectFor
    <3> HIDE DEF s
    <3> QED
      BY <3>1, <3>2 DEF HasSigned
  <2>3. pc[r] = "sign" /\ pc' \in {[pc EXCEPT ![r] = "token"], [pc EXCEPT ![r] = "done"]}
    BY <1>7 DEF Sign
  <2> QED
    BY <1>0, <2>1, <2>2, <2>3, SignedStays
<1>8. ASSUME NEW r \in Runs, ResolveBearerToken(r) PROVE SignInv'
  BY <1>0, <1>8, SignedStays DEF ResolveBearerToken
<1>9. ASSUME NEW r \in Runs, Sync(r) PROVE SignInv'
  BY <1>0, <1>9, SignedStays DEF Sync
<1>10. ASSUME NEW r \in Runs, Abort(r) PROVE SignInv'
  BY <1>0, <1>10, SignedStays DEF Abort
<1>11. CASE Yank
  BY <1>0, <1>11, SignedStays DEF Yank
<1>12. CASE UNCHANGED vars
  BY <1>0, <1>12, SignedStays DEF vars
<1> QED
  BY <1>1, <1>2, <1>3, <1>4, <1>5, <1>6, <1>7, <1>8, <1>9, <1>10, <1>11, <1>12
  DEF Next, Step

\* However many runs interleave, one that succeeds without --no-sign attached
\* a signature, and in CI attached it to the manifest it pushed.
THEOREM PublishNeverDowngrades == Spec => []NoSilentDowngrade
<1>1. SignInv => NoSilentDowngrade
  BY DEF SignInv, NoSilentDowngrade, HasSigned
<1> QED
  BY PublishTypeInv, InitSignInv, NextSignInv, <1>1, PTL DEF Spec

(***************************************************************************)
(* Overlapping runs.  Once the version is listed, the only runs that can   *)
(* still set the tag are those the listing overtook.                       *)
(***************************************************************************)
OvertakenInv ==
    index.status # "absent" =>
        \A r \in Runs : pc[r] \in Writing /\ Checked(cfg[r]) => r \in overtaken

LEMMA InitOvertakenInv == Init => OvertakenInv
BY DEF Init, OvertakenInv

LEMMA NextOvertakenInv == TypeInv /\ OvertakenInv /\ [Next]_vars => OvertakenInv'
<1> SUFFICES ASSUME TypeInv, OvertakenInv, [Next]_vars PROVE OvertakenInv'
  OBVIOUS
<1> USE DEF TypeInv, TypeOK, OvertakenInv, Checked, Writing, Goto, registry
<1>1. ASSUME NEW r \in Runs, Start(r) \/ Preflight(r) PROVE OvertakenInv'
  BY <1>1 DEF Start, Preflight
<1>2. ASSUME NEW r \in Runs, CheckVersionAvailable(r) PROVE OvertakenInv'
  BY <1>2 DEF CheckVersionAvailable
<1>3. ASSUME NEW r \in Runs, AuthenticatePush(r) \/ Pack(r) PROVE OvertakenInv'
  BY <1>3 DEF AuthenticatePush, Pack
<1>4. ASSUME NEW r \in Runs, Tag(r) \/ Sign(r) \/ ResolveBearerToken(r)
      PROVE OvertakenInv'
  BY <1>4 DEF Tag, Sign, ResolveBearerToken
<1>5. ASSUME NEW r \in Runs, Sync(r) PROVE OvertakenInv'
  <2>1. CASE index.status = "absent" /\ Accepts(index)
    <3>1. overtaken' = {q \in Runs : pc[q] \in Writing} /\ cfg' = cfg
          /\ \E l \in Ended : pc' = [pc EXCEPT ![r] = l]
      BY <1>5, <2>1 DEF Sync
    <3>2. \A q \in Runs : pc'[q] \in Writing => pc[q] \in Writing
      BY <3>1 DEF Ended
    <3> QED
      BY <3>1, <3>2
  <2>2. CASE ~(index.status = "absent" /\ Accepts(index))
    <3>1. overtaken' = overtaken /\ cfg' = cfg /\ index.status # "absent"
      BY <1>5, <2>2 DEF Sync, Accepts
    <3>2. \A q \in Runs : pc'[q] \in Writing => pc[q] \in Writing
      BY <1>5 DEF Sync, Ended
    <3> QED
      BY <3>1, <3>2
  <2> QED
    BY <2>1, <2>2
<1>6. ASSUME NEW r \in Runs, Abort(r) PROVE OvertakenInv'
  BY <1>6 DEF Abort
<1>7. CASE Yank
  BY <1>7 DEF Yank
<1>8. CASE UNCHANGED vars
  BY <1>8 DEF vars
<1> QED
  BY <1>1, <1>2, <1>3, <1>4, <1>5, <1>6, <1>7, <1>8 DEF Next, Step

\* The tag of a listed version moves only under a run whose availability check
\* preceded the listing, or one that never asked the hub.
THEOREM PublishOvertaken == Spec => OnlyOvertakenRunsMoveAListedTag
<1> DEFINE A == index.status # "absent" /\ tag' # tag =>
                    tag' \in overtaken \/ ~Checked(cfg[tag'])
<1>1. TypeInv /\ OvertakenInv /\ [Next]_vars => [A]_vars
  <2> SUFFICES ASSUME TypeInv, OvertakenInv, Next, tag' # tag,
                      index.status # "absent"
               PROVE  tag' \in overtaken \/ ~Checked(cfg[tag'])
    OBVIOUS
  <2>1. PICK r \in Runs : Tag(r)
    BY DEF Next, Step, registry, Start, Preflight, CheckVersionAvailable,
       AuthenticatePush, Pack, Sign, ResolveBearerToken, Sync, Abort, Yank
  <2> QED
    BY <2>1 DEF Tag, OvertakenInv, Writing
<1> QED
  BY PublishTypeInv, InitOvertakenInv, NextOvertakenInv, <1>1, PTL
  DEF Spec, OnlyOvertakenRunsMoveAListedTag

(***************************************************************************)
(* Runs that overlap without harm.  As long as the listing overtook no run *)
(* that was about to tag, nobody is left who may still move the tag.       *)
(***************************************************************************)
Calm == AllChecked /\ overtaken = {}

CalmInv ==
    /\ index.status = "absent" => overtaken = {}
    /\ Calm /\ index.status # "absent" => tag = index.digest

LEMMA InitCalmInv == Init => CalmInv
BY DEF Init, CalmInv

\* No run changes its configuration.
LEMMA ConfigsStay == [Next]_vars => cfg' = cfg
BY DEF Next, Step, vars, Start, Preflight, CheckVersionAvailable, AuthenticatePush,
   Pack, Tag, Sign, ResolveBearerToken, Sync, Abort, Yank

\* Once calm is lost it stays lost, and a listed version stays listed: only
\* the first listing writes the history of the overtaken runs.
LEMMA CalmBefore ==
    ASSUME TypeInv, CalmInv, [Next]_vars, Calm'
    PROVE  Calm /\ (index.status # "absent" => index'.status # "absent")
<1>1. AllChecked
  BY ConfigsStay DEF Calm, AllChecked
<1>2. ASSUME NEW r \in Runs, Sync(r)
      PROVE  overtaken = {} /\ (index.status # "absent" => index'.status # "absent")
  BY <1>2 DEF Sync, Calm, CalmInv
<1>3. CASE Yank
  BY <1>1, <1>3 DEF Yank, Calm, TypeInv, TypeOK
<1>4. CASE UNCHANGED <<index, overtaken>>
  BY <1>1, <1>4 DEF Calm
<1> QED
  BY <1>1, <1>2, <1>3, <1>4 DEF Calm, Next, Step, vars, Start, Preflight,
     CheckVersionAvailable, AuthenticatePush, Pack, Tag, Sign, ResolveBearerToken, Abort

LEMMA NextCalmInv ==
    TypeInv /\ OvertakenInv /\ CalmInv /\ [Next]_vars => CalmInv'
<1> SUFFICES ASSUME TypeInv, OvertakenInv, CalmInv, [Next]_vars
             PROVE  CalmInv'
  OBVIOUS
<1>1. index'.status = "absent" => overtaken' = {}
  <2>1. ASSUME NEW r \in Runs, Sync(r) PROVE index'.status # "absent"
    BY <2>1 DEF Sync, Accepts
  <2>2. CASE Yank
    BY <2>2 DEF Yank, TypeInv, TypeOK
  <2>3. CASE UNCHANGED <<index, overtaken>>
    BY <2>3 DEF CalmInv
  <2> QED
    BY <2>1, <2>2, <2>3 DEF Next, Step, vars, Start, Preflight,
       CheckVersionAvailable, AuthenticatePush, Pack, Tag, Sign, ResolveBearerToken, Abort
<1>2. ASSUME Calm', index'.status # "absent" PROVE tag' = index'.digest
  <2>1. Calm
    BY <1>2, CalmBefore
  <2>2. ASSUME NEW r \in Runs, Sync(r) PROVE tag' = index'.digest
    BY <2>1, <2>2 DEF Sync, Accepts, CalmInv, registry
  <2>3. ASSUME NEW r \in Runs, Tag(r) PROVE FALSE
    <3>1. index.status # "absent" /\ pc[r] \in Writing /\ Checked(cfg[r])
      BY <1>2, <2>1, <2>3 DEF Tag, Writing, Calm, AllChecked
    <3> QED
      BY <2>1, <3>1 DEF OvertakenInv, Calm
  <2>4. CASE Yank
    BY <2>1, <2>4 DEF Yank, CalmInv, registry, TypeInv, TypeOK
  <2>5. CASE UNCHANGED <<tag, index>>
    BY <1>2, <2>1, <2>5 DEF CalmInv
  <2> QED
    BY <2>2, <2>3, <2>4, <2>5 DEF Next, Step, vars, registry, Start, Preflight,
       CheckVersionAvailable, AuthenticatePush, Pack, Sign, ResolveBearerToken, Abort
<1> QED
  BY <1>1, <1>2 DEF CalmInv

LEMMA PublishCalmInv == Spec => [](TypeInv /\ OvertakenInv /\ CalmInv)
BY PublishTypeInv, InitOvertakenInv, NextOvertakenInv, InitCalmInv, NextCalmInv, PTL
DEF Spec

\* However runs overlap and fail, as long as the listing overtook no run
\* between its availability check and its tag, the tag of a listed version
\* resolves to the bytes the hub listed.
THEOREM PublishTagMatchesIndex == Spec => []TagMatchesIndex
<1>1. CalmInv => TagMatchesIndex
  BY DEF CalmInv, Calm, TagMatchesIndex
<1> QED
  BY PublishCalmInv, <1>1, PTL

(***************************************************************************)
(* Runs that do not overlap.  The inductive invariant says that at most    *)
(* one run is active, that the version is not listed while a run is past   *)
(* the availability check, and what that run has left in the registry.     *)
(***************************************************************************)
Sequential == ~Concurrent /\ AllChecked

OneActive == \A q, r \in Runs : pc[q] \in Active /\ pc[r] \in Active => q = r

SeqInv ==
    /\ OneActive
    /\ overtaken = {}
    /\ \A r \in Runs :
          /\ pc[r] \in Passed => index.status = "absent"
          /\ pc[r] \in {"sign", "token", "sync"} => tag = r
          /\ pc[r] \in {"token", "sync"} /\ ~cfg[r].noSign => Signed(r)
          /\ Uploaded(r) => index.status # "absent" /\ index.digest = r
    /\ index.status # "absent" =>
          /\ tag = index.digest
          /\ index.digest \in Runs
          /\ ~cfg[index.digest].noSign => Signed(index.digest)

LEMMA InitSeqInv == Init => SeqInv
BY DEF Init, SeqInv, OneActive, Uploaded, Active, Passed

\* Only a run that starts becomes active, and it starts alone.
LEMMA NextOneActive ==
    ~Concurrent /\ TypeOK /\ OneActive /\ [Next]_vars => OneActive'
<1> SUFFICES ASSUME ~Concurrent, TypeOK, OneActive, [Next]_vars PROVE OneActive'
  OBVIOUS
<1> USE DEF TypeOK, OneActive, Active, Passed, Ended, Goto
<1>1. ASSUME NEW r \in Runs, Start(r) PROVE OneActive'
  BY <1>1 DEF Start, Quiet
<1>2. ASSUME NEW r \in Runs, Preflight(r) \/ CheckVersionAvailable(r)
                             \/ AuthenticatePush(r) \/ Pack(r) \/ Tag(r)
      PROVE OneActive'
  BY <1>2 DEF Preflight, CheckVersionAvailable, AuthenticatePush, Pack, Tag
<1>3. ASSUME NEW r \in Runs, Sign(r) \/ ResolveBearerToken(r) \/ Sync(r) \/ Abort(r)
      PROVE OneActive'
  BY <1>3 DEF Sign, ResolveBearerToken, Sync, Abort
<1>4. CASE Yank \/ UNCHANGED vars
  BY <1>4 DEF Yank, vars
<1> QED
  BY <1>1, <1>2, <1>3, <1>4 DEF Next, Step

LEMMA NextSeqInv ==
    TypeInv /\ Sequential /\ SeqInv /\ [Next]_vars => Sequential' /\ SeqInv'
<1> SUFFICES ASSUME TypeInv, Sequential, SeqInv, [Next]_vars
             PROVE  Sequential' /\ SeqInv'
  OBVIOUS
<1>1. cfg' = cfg
  BY ConfigsStay
<1>2. Sequential'
  BY <1>1 DEF Sequential, AllChecked, Checked
<1>3. OneActive'
  BY NextOneActive DEF Sequential, SeqInv, TypeInv
<1> USE DEF TypeInv, TypeOK, OneActive, SeqInv, Signed, Uploaded, Active, Passed, Ended,
            Goto, registry
<1>4. ASSUME NEW r \in Runs, Start(r) PROVE SeqInv'
  BY <1>1, <1>3, <1>4 DEF Start, Sequential, AllChecked, Checked, HasTarget
<1>5. ASSUME NEW r \in Runs, Preflight(r) \/ AuthenticatePush(r) \/ Abort(r)
      PROVE SeqInv'
  BY <1>1, <1>3, <1>5 DEF Preflight, AuthenticatePush, Abort
<1>6. ASSUME NEW r \in Runs, CheckVersionAvailable(r) PROVE SeqInv'
  BY <1>1, <1>3, <1>6 DEF CheckVersionAvailable, Sequential, AllChecked
<1>7. ASSUME NEW r \in Runs, Pack(r) PROVE SeqInv'
  BY <1>1, <1>3, <1>7 DEF Pack
<1>8. ASSUME NEW r \in Runs, Tag(r) PROVE SeqInv'
  BY <1>1, <1>3, <1>8 DEF Tag
<1>9. ASSUME NEW r \in Runs, Sign(r) PROVE SeqInv'
  <2>1. SubjectFor(r) = r
    BY <1>9 DEF Sign, SubjectFor
  <2>2. ~cfg[r].noSign => Signed(r)'
    <3> SUFFICES ASSUME ~cfg[r].noSign PROVE Signed(r)'
      OBVIOUS
    <3> DEFINE s == [subject |-> r, by |-> r]
    <3>1. s \in sigs' /\ s.subject = r
      BY <1>9, <2>1 DEF Sign
    <3> HIDE DEF s
    <3> QED
      BY <3>1
  <2>3. cfg[r].url
    BY DEF Sequential, AllChecked, Checked
  <2>4. pc[r] = "sign" /\ pc' = [pc EXCEPT ![r] = "token"]
        /\ sigs \subseteq sigs' /\ UNCHANGED <<tag, index, overtaken>>
    BY <1>9, <2>3 DEF Sign
  <2> QED
    BY <1>1, <1>3, <2>2, <2>4
<1>10. ASSUME NEW r \in Runs, ResolveBearerToken(r) PROVE SeqInv'
  BY <1>1, <1>3, <1>10 DEF ResolveBearerToken
<1>11. ASSUME NEW r \in Runs, Sync(r) PROVE SeqInv'
  <2>1. pc[r] = "sync" /\ index.status = "absent" /\ tag = r
    BY <1>11 DEF Sync
  <2>2. /\ index' = [status |-> "present", digest |-> r]
        /\ tag' = r /\ sigs' = sigs
        /\ \E l \in Ended : pc' = [pc EXCEPT ![r] = l]
        /\ overtaken' = {q \in Runs : pc[q] \in Writing}
    BY <1>11, <2>1 DEF Sync, Accepts
  <2>3. \A q \in Runs \ {r} : pc[q] \notin Active /\ ~Uploaded(q)
    BY <2>1
  <2>4. overtaken' = {}
    BY <2>1, <2>2, <2>3 DEF Writing
  <2> QED
    BY <1>1, <1>3, <2>1, <2>2, <2>3, <2>4
<1>12. CASE Yank
  BY <1>1, <1>2, <1>3, <1>12 DEF Yank
<1>13. CASE UNCHANGED vars
  BY <1>1, <1>2, <1>3, <1>13 DEF vars
<1> QED
  BY <1>2, <1>4, <1>5, <1>6, <1>7, <1>8, <1>9, <1>10, <1>11, <1>12, <1>13
  DEF Next, Step

\* A fact about the first state of a behaviour decides whether its runs are
\* sequential, so an invariant may assume that they are.
LEMMA SequentialInv == Spec /\ Sequential => [](TypeInv /\ Sequential /\ SeqInv)
BY PublishTypeInv, InitSeqInv, NextSeqInv, PTL DEF Spec

LEMMA NeverSequential == Spec /\ ~Sequential => []~Sequential
<1>1. ~Sequential /\ [Next]_vars => ~Sequential'
  BY ConfigsStay DEF Sequential, AllChecked, Checked
<1> QED
  BY <1>1, PTL DEF Spec

\* When runs do not overlap and each asks the hub first, a run that reports
\* success had its own bytes listed.
THEOREM PublishSuccessListsOwnBytes == Spec => []SuccessListsOwnBytes
<1>1. Sequential /\ SeqInv => SuccessListsOwnBytes
  BY DEF SeqInv, SuccessListsOwnBytes
<1>2. ~Sequential => SuccessListsOwnBytes
  BY DEF Sequential, SuccessListsOwnBytes
<1> QED
  BY SequentialInv, NeverSequential, <1>1, <1>2, PTL

\* And when every publisher signs, the listed version is a signed one.
THEOREM PublishListedIsSigned == Spec => []ListedIsSigned
<1>1. Sequential /\ SeqInv => ListedIsSigned
  BY DEF SeqInv, ListedIsSigned
<1>2. ~Sequential => ListedIsSigned
  BY DEF Sequential, ListedIsSigned
<1> QED
  BY SequentialInv, NeverSequential, <1>1, <1>2, PTL

(***************************************************************************)
(* Refinement.                                                             *)
(***************************************************************************)
\* However runs overlap, as long as none is overtaken the registry and the hub
\* behave as the coordinate readers are promised: draft bytes until the version
\* is listed, frozen bytes afterwards.
THEOREM PublishImplementsCoordinate == Spec /\ []Calm => ImplementsCoordinate
<1>1. Init => C!Init
  BY DEF Init, C!Init
<1>2. TypeInv /\ OvertakenInv /\ CalmInv /\ Calm /\ [Next]_vars => [C!Next]_C!vars
  <2> SUFFICES ASSUME TypeInv, OvertakenInv, CalmInv, Calm, [Next]_vars
               PROVE  C!Next \/ (tag' = tag /\ index'.status = index.status)
    BY DEF C!vars
  <2> USE DEF TypeInv, TypeOK, registry
  <2>1. ASSUME NEW r \in Runs, Tag(r) PROVE C!Draft
    <3>1. index.status = "absent"
      BY <2>1 DEF Tag, OvertakenInv, Calm, AllChecked, Writing
    <3> QED
      BY <2>1, <3>1 DEF Tag, C!Draft
  <2>2. ASSUME NEW r \in Runs, Sync(r), index.status = "absent" PROVE C!Freeze
    <3>1. index' = [status |-> "present", digest |-> tag] /\ tag' = tag
      BY <2>2 DEF Sync, Accepts
    <3>2. tag # NoManifest
      BY <2>2 DEF Sync, Pushed
    <3> QED
      BY <2>2, <3>1, <3>2 DEF C!Freeze
  <2>3. ASSUME NEW r \in Runs, Sync(r), index.status # "absent"
        PROVE  tag' = tag /\ index'.status = index.status
    BY <2>3 DEF Sync, Accepts
  <2>4. CASE Yank
    BY <2>4 DEF Yank, C!Next, C!Yank
  <2>5. CASE UNCHANGED vars
    BY <2>5 DEF vars
  <2>6. ASSUME NEW r \in Runs,
               \/ Start(r) \/ Preflight(r) \/ CheckVersionAvailable(r) \/ AuthenticatePush(r)
               \/ Pack(r) \/ Sign(r) \/ ResolveBearerToken(r) \/ Abort(r)
        PROVE  tag' = tag /\ index' = index
    BY <2>6 DEF Start, Preflight, CheckVersionAvailable, AuthenticatePush, Pack, Sign,
                ResolveBearerToken, Abort
  <2> QED
    BY <2>1, <2>2, <2>3, <2>4, <2>5, <2>6 DEF Next, Step, C!Next
<1> QED
  BY PublishCalmInv, <1>1, <1>2, PTL DEF Spec, ImplementsCoordinate, C!Spec

\* Runs that do not overlap are never overtaken, so they keep the promise.
COROLLARY PublishSequentialImplements == Spec /\ Sequential => ImplementsCoordinate
<1>1. Sequential /\ SeqInv => Calm
  BY DEF Sequential, SeqInv, Calm
<1> QED
  BY SequentialInv, PublishImplementsCoordinate, <1>1, PTL

\* What publish.go:167 says of the availability check is true as long as the
\* listing overtakes no run: then no step moves the tag of a listed version.
COROLLARY PublishCalmNeverClobbers == Spec /\ []Calm => RepublishNeverClobbers
<1>1. [C!Next]_C!vars => [index.status # "absent" => tag' = tag]_vars
  BY DEF C!Next, C!Draft, C!Freeze, C!Yank, C!vars
<1> QED
  BY PublishImplementsCoordinate, <1>1, PTL
  DEF ImplementsCoordinate, C!Spec, RepublishNeverClobbers

(***************************************************************************)
(* What a signature covers.  cosign resolves the tag when it signs, so a   *)
(* run that signs with a key must still own the tag then.                  *)
(***************************************************************************)
OwnsTag ==
    ~Concurrent => OneActive /\ \A r \in Runs : pc[r] = "sign" => tag = r

CoversOwn == \A s \in sigs : ~Concurrent \/ cfg[s.by].gha => s.subject = s.by

LEMMA NextOwnsTag == TypeInv /\ OwnsTag /\ [Next]_vars => OwnsTag'
<1> SUFFICES ASSUME TypeInv, OwnsTag, [Next]_vars, ~Concurrent
             PROVE  OneActive' /\ \A r \in Runs : pc'[r] = "sign" => tag' = r
  BY DEF OwnsTag
<1> USE DEF TypeInv, TypeOK, Goto
<1>1. OneActive'
  BY NextOneActive DEF OwnsTag
<1>2. ASSUME NEW r \in Runs, pc'[r] = "sign" PROVE tag' = r
  <2>1. ASSUME NEW q \in Runs, Tag(q) PROVE tag' = r
    <3>1. pc[q] = "tag" /\ pc' = [pc EXCEPT ![q] = "sign"] /\ tag' = q
      BY <2>1 DEF Tag
    <3>2. pc[r] \in {"sign", "tag"} /\ (q # r => pc[r] = "sign")
      BY <1>2, <3>1
    <3> QED
      BY <3>1, <3>2 DEF OwnsTag, OneActive, Active, Passed
  <2>2. ASSUME UNCHANGED tag, pc[r] = "sign" PROVE tag' = r
    BY <2>2 DEF OwnsTag
  <2>3. CASE UNCHANGED vars \/ Yank
    BY <1>2, <2>2, <2>3 DEF vars, Yank, registry
  <2>4. ASSUME NEW q \in Runs,
               \/ Start(q) \/ Preflight(q) \/ CheckVersionAvailable(q)
               \/ AuthenticatePush(q) \/ Pack(q) \/ Sign(q)
               \/ ResolveBearerToken(q) \/ Sync(q) \/ Abort(q)
        PROVE  UNCHANGED tag /\ pc[r] = "sign"
    BY <1>2, <2>4 DEF Start, Preflight, CheckVersionAvailable, AuthenticatePush, Pack,
       Sign, ResolveBearerToken, Sync, Abort, registry, Ended
  <2> QED
    BY <2>1, <2>2, <2>3, <2>4 DEF Next, Step
<1> QED
  BY <1>1, <1>2

LEMMA NextCoversOwn == TypeInv /\ OwnsTag /\ CoversOwn /\ [Next]_vars => CoversOwn'
<1> SUFFICES ASSUME TypeInv, OwnsTag, CoversOwn, [Next]_vars PROVE CoversOwn'
  OBVIOUS
<1>1. cfg' = cfg
  BY ConfigsStay
<1>2. ASSUME NEW r \in Runs, Sign(r) PROVE CoversOwn'
  <2> DEFINE own == [subject |-> SubjectFor(r), by |-> r]
  <2>1. own.by = r /\ own.subject = SubjectFor(r) /\ pc[r] = "sign"
    BY <1>2 DEF Sign
  <2>2. ~Concurrent \/ cfg[r].gha => SubjectFor(r) = r
    BY <2>1 DEF OwnsTag, SubjectFor
  <2>3. sigs' \subseteq sigs \cup {own}
    BY <1>2 DEF Sign
  <2> HIDE DEF own
  <2> QED
    BY <1>1, <2>1, <2>2, <2>3 DEF CoversOwn
<1>3. CASE UNCHANGED sigs
  BY <1>1, <1>3 DEF CoversOwn
<1> QED
  BY <1>2, <1>3 DEF Next, Step, vars, registry, Start, Preflight, CheckVersionAvailable,
     AuthenticatePush, Pack, Tag, ResolveBearerToken, Sync, Abort, Yank

\* What sign.go:230 says, that the signature is attached to the manifest that was
\* pushed, is true if runs do not overlap, or if all of them sign in CI, by digest.
THEOREM PublishSignsOwnManifest ==
    Spec /\ (~Concurrent \/ \A r \in Runs : cfg[r].gha) => []SignsThePushedManifest
<1> DEFINE Apart == ~Concurrent \/ \A r \in Runs : cfg[r].gha
<1>1. Init => OwnsTag /\ CoversOwn
  BY DEF Init, OwnsTag, CoversOwn, OneActive, Active, Passed
<1>2. Apart /\ [Next]_vars => Apart'
  BY ConfigsStay
<1>3. TypeInv /\ CoversOwn /\ Apart => SignsThePushedManifest
  BY DEF TypeInv, TypeOK, CoversOwn, SignsThePushedManifest
<1> QED
  BY PublishTypeInv, NextOwnsTag, NextCoversOwn, <1>1, <1>2, <1>3, PTL DEF Spec

(***************************************************************************)
(* Preflight.  A run that pushes has passed it, and nothing a run signs    *)
(* with changes afterwards.                                                *)
(***************************************************************************)
\* Between its preflight and its signature a run has something to sign with.
ReadyInv ==
    \A r \in Runs :
        pc[r] \in {"check", "auth", "pack", "tag", "sign"} => CanSign(cfg[r])

LEMMA RunMoves ==
    ASSUME TypeInv, NEW r \in Runs, Step(r) \/ Abort(r)
    PROVE  \A q \in Runs \ {r} : pc'[q] = pc[q]
<1>1. \E l : Goto(r, l)
  BY DEF Step, Start, Preflight, CheckVersionAvailable, AuthenticatePush, Pack, Tag,
     Sign, ResolveBearerToken, Sync, Abort
<1> QED
  BY <1>1 DEF Goto, TypeInv, TypeOK

LEMMA NextReadyInv == TypeInv /\ ReadyInv /\ [Next]_vars => ReadyInv'
<1> SUFFICES ASSUME TypeInv, ReadyInv, [Next]_vars PROVE ReadyInv'
  OBVIOUS
<1>0. cfg' = cfg
  BY ConfigsStay
<1>1. ASSUME NEW r \in Runs, Step(r) \/ Abort(r) PROVE ReadyInv'
  <2>1. \A q \in Runs \ {r} : pc'[q] = pc[q]
    BY <1>1, RunMoves
  <2>2. pc'[r] \in {"check", "auth", "pack", "tag", "sign"} => CanSign(cfg[r])
    BY <1>1 DEF TypeInv, TypeOK, ReadyInv, Step, Goto, Start, Preflight,
       CheckVersionAvailable, AuthenticatePush, Pack, Tag, Sign, ResolveBearerToken,
       Sync, Abort, Ended
  <2> QED
    BY <1>0, <2>1, <2>2 DEF ReadyInv, CanSign
<1>2. CASE Yank \/ UNCHANGED vars
  BY <1>0, <1>2 DEF Yank, vars, ReadyInv, CanSign
<1> QED
  BY <1>1, <1>2 DEF Next

LEMMA PublishReadyInv == Spec => [](TypeInv /\ ReadyInv)
<1>1. Init => ReadyInv
  BY DEF Init, ReadyInv
<1> QED
  BY PublishTypeInv, NextReadyInv, <1>1, PTL DEF Spec

\* The part of README.md:230 that failures leave true: what a run pushes it can
\* sign, unless it was told not to, because Preflight comes before the push.
PushersCanSign == \A m \in manifests : CanSign(cfg[m])

THEOREM PublishPushersCanSign == Spec => []PushersCanSign
<1>1. Init => PushersCanSign
  BY DEF Init, PushersCanSign
<1>2. TypeInv /\ ReadyInv /\ PushersCanSign /\ [Next]_vars => PushersCanSign'
  <2> SUFFICES ASSUME TypeInv, ReadyInv, PushersCanSign, [Next]_vars
               PROVE  PushersCanSign'
    OBVIOUS
  <2>1. cfg' = cfg
    BY ConfigsStay
  <2>2. ASSUME NEW r \in Runs, Pack(r) PROVE PushersCanSign'
    <3>1. CanSign(cfg[r]) /\ manifests' \subseteq manifests \cup {r}
      BY <2>2 DEF Pack, ReadyInv
    <3> QED
      BY <2>1, <3>1 DEF PushersCanSign, CanSign
  <2>3. CASE UNCHANGED manifests
    BY <2>1, <2>3 DEF PushersCanSign, CanSign
  <2> QED
    BY <2>2, <2>3 DEF Next, Step, vars, registry, Start, Preflight, CheckVersionAvailable,
       AuthenticatePush, Tag, Sign, ResolveBearerToken, Sync, Abort, Yank
<1> QED
  BY PublishReadyInv, <1>1, <1>2, PTL DEF Spec
=============================================================================
