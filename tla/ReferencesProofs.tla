--------------------------- MODULE ReferencesProofs ---------------------------
(***************************************************************************)
(* Proofs about module References, for any number of invocations, lists of *)
(* references, contents of the registry and licenses.                      *)
(***************************************************************************)
EXTENDS References, SequenceTheorems, TLAPS

USE ContentAssumption, MovingAssumption, JobsAssumption, TokenAssumption, ElsewhereAssumption,
    NoEntryAssumption

(***************************************************************************)
(* Types.                                                                  *)
(***************************************************************************)
LEMMA Licenses ==
    /\ Unchecked \in Entry
    /\ \A c \in Coords : Confirmed(c) \in Entry
BY DEF Unchecked, Confirmed, Entry

\* The list of an invocation, and the reference it is at.
LEMMA JobType ==
    ASSUME TypeOK, NEW p \in Procs
    PROVE  /\ job[p] \in Job /\ job[p].primary \in Coords
           /\ job[p].refs \in Seq(Coords \cup {Elsewhere})
           /\ Len(job[p].refs) \in Nat
           /\ \A n \in 1..Len(job[p].refs) : job[p].refs[n] \in Coords \cup {Elsewhere}
BY DEF TypeOK, Job

LEMMA RefType ==
    ASSUME TypeOK, NEW p \in Procs
    PROVE  /\ i[p] \leq Len(job[p].refs) => Ref(p) \in Coords \cup {Elsewhere}
           /\ at[p] \in Fetching \cup {"get", "license"} =>
                 Ref(p) \in Coords /\ i[p] \leq Len(job[p].refs)
<1>1. i[p] \in Nat \ {0}
  BY DEF TypeOK
<1> QED
  BY <1>1, JobType DEF TypeOK, Ref

LEMMA InitTypeOK == Init => TypeOK
<1> SUFFICES ASSUME Init PROVE TypeOK
  OBVIOUS
<1>1. job \in [Procs -> Job]
  BY DEF Init
<1>2. \A p \in Procs : Len(job[p].refs) \in Nat
  BY <1>1 DEF Job
<1> QED
  BY <1>1, <1>2 DEF Init, TypeOK, Steps, Ended, Fetching

LEMMA StoreType ==
    ASSUME TypeOK, NEW p \in Procs, NEW c \in Coords, NEW e \in Entry, Store(p, c, e)
    PROVE  cache' \in [Coords -> Entry \cup {NoEntry}] /\ late' \subseteq Procs \X Coords
<1> DEFINE Others == {<<q, c>> : q \in {q \in Procs \ {p} : Working(q, c)}}
<1>1. Others \subseteq Procs \X Coords
  OBVIOUS
<1>2. late' = late \/ late' = late \cup Others
  BY DEF Store
<1> HIDE DEF Others
<1>3. late' \subseteq Procs \X Coords
  BY <1>1, <1>2 DEF TypeOK
<1>4. cache' = cache \/ cache' = [cache EXCEPT ![c] = e]
  BY DEF Store
<1>5. cache' \in [Coords -> Entry \cup {NoEntry}]
  BY <1>4 DEF TypeOK
<1> QED
  BY <1>3, <1>5

LEMMA AskedType ==
    ASSUME TypeOK, NEW c \in Coords, Asked(c) \/ UNCHANGED blank
    PROVE  blank' \subseteq Coords
BY DEF TypeOK, Asked

\* The loop moves on to the next reference.
LEMMA AdvanceType ==
    ASSUME TypeOK, NEW p \in Procs, i[p] \leq Len(job[p].refs),
           i' = [i EXCEPT ![p] = @ + 1]
    PROVE  /\ i' \in [Procs -> Nat \ {0}] /\ i'[p] = i[p] + 1
           /\ i'[p] \leq Len(job[p].refs) + 1
           /\ \A q \in Procs \ {p} : i'[q] = i[q]
<1>1. i[p] \in Nat \ {0} /\ Len(job[p].refs) \in Nat
  BY JobType DEF TypeOK
<1>2. i' \in [Procs -> Nat \ {0}] /\ i'[p] = i[p] + 1
  BY <1>1 DEF TypeOK
<1> QED
  BY <1>1, <1>2 DEF TypeOK

LEMMA SkipType ==
    ASSUME TypeOK, NEW p \in Procs, i[p] \leq Len(job[p].refs), SkipReference(p)
    PROVE  /\ skipped' \in [Procs -> SUBSET (Nat \ {0})]
           /\ i' \in [Procs -> Nat \ {0}] /\ i'[p] = i[p] + 1
           /\ i'[p] \leq Len(job[p].refs) + 1
           /\ at' \in [Procs -> {"idle"} \cup Steps \cup Ended] /\ at'[p] = "next"
           /\ \A q \in Procs \ {p} : i'[q] = i[q] /\ at'[q] = at[q]
<1>1. /\ skipped' = [skipped EXCEPT ![p] = @ \cup {i[p]}]
      /\ i' = [i EXCEPT ![p] = @ + 1] /\ at' = [at EXCEPT ![p] = "next"]
  BY DEF SkipReference, Goto
<1>2. skipped' \in [Procs -> SUBSET (Nat \ {0})]
  BY <1>1 DEF TypeOK
<1>3. /\ at' \in [Procs -> {"idle"} \cup Steps \cup Ended] /\ at'[p] = "next"
      /\ \A q \in Procs \ {p} : at'[q] = at[q]
  BY <1>1 DEF TypeOK, Steps
<1> QED
  BY <1>1, <1>2, <1>3, AdvanceType

LEMMA OnDiskType ==
    ASSUME TypeOK, NEW p \in Procs, Ref(p) \in Coords,
           NEW amount \in {"part", "whole"}, OnDisk(p, amount)
    PROVE  dirs' \in [Procs -> [Coords -> {"none", "part", "whole"}]]
<1>1. dirs[p] \in [Coords -> {"none", "part", "whole"}]
  BY DEF TypeOK
<1>2. dirs' = [dirs EXCEPT ![p] = [@ EXCEPT ![Ref(p)] = amount]]
  BY DEF OnDisk
<1> QED
  BY <1>1, <1>2 DEF TypeOK

LEMMA StepTypeOK == ASSUME TypeOK, NEW p \in Procs, Step(p) \/ Abort(p) PROVE TypeOK'
<1> USE JobType, RefType DEF hub
<1>1. CASE Begin(p)
  BY <1>1 DEF Begin, TypeOK, Goto, Steps, Ended, Fetching
<1>2. CASE PrimaryHit(p)
  BY <1>2, ZenonT(60)
  DEF PrimaryHit, TypeOK, Goto, Steps, Ended, Fetching, AfterPrimary,
      EnsureRegistryToken, Discover, hub
<1>3. CASE PrimaryPull(p)
  BY <1>3 DEF PrimaryPull, TypeOK, Goto, Steps, Ended, Fetching, AfterPrimary,
               EnsureRegistryToken, Discover
<1>4. CASE PutPrimary(p)
  BY <1>4, StoreType, Licenses DEF PutPrimary, TypeOK, Goto, Steps, Ended, Fetching, AfterPrimary
<1>5. CASE EndLoop(p)
  BY <1>5 DEF EndLoop, TypeOK, Goto, Steps, Ended, Fetching
<1>6. CASE NotRecognized(p)
  BY <1>6, SkipType DEF NotRecognized, TypeOK, Fetching
<1>7. CASE PassOver(p)
  <2>1. /\ i' = [i EXCEPT ![p] = @ + 1] /\ seen' = [seen EXCEPT ![p] = @ \cup {Ref(p)}]
        /\ at[p] = "next" /\ i[p] \leq Len(job[p].refs) /\ Ref(p) \in Coords
        /\ UNCHANGED <<job, at, token, host, entry, skipped, index, dirs, cache, late, hub>>
    BY <1>7 DEF PassOver
  <2>2. seen' \in [Procs -> SUBSET Coords]
    BY <2>1 DEF TypeOK
  <2> QED
    BY <2>1, <2>2, AdvanceType, ZenonT(60) DEF TypeOK, Fetching
<1>8. CASE TakeUp(p)
  BY <1>8, ZenonT(60) DEF TakeUp, TypeOK, Goto, Steps, Ended, Fetching, Ref
<1>9. CASE GetReference(p)
  <2>1. Ref(p) \in Coords /\ i[p] \leq Len(job[p].refs) /\ at[p] = "get"
    BY <1>9 DEF GetReference
  <2>2. CASE /\ Cached(p, Ref(p)) /\ entry' = [entry EXCEPT ![p] = cache[Ref(p)]]
             /\ \E l \in {"heal", "write"} : at' = [at EXCEPT ![p] = l]
    <3>1. cache[Ref(p)] \in Entry
      BY <2>1, <2>2 DEF Cached, TypeOK
    <3>2. /\ entry' \in [Procs -> Entry \cup {NoEntry}] /\ entry'[p] # NoEntry
          /\ \A q \in Procs \ {p} : entry'[q] = entry[q]
      BY <2>2, <3>1 DEF TypeOK
    <3> QED
      <4>1. PICK l \in {"heal", "write"} : at' = [at EXCEPT ![p] = l]
        BY <2>2
      <4>2. UNCHANGED <<job, token, host, i, seen, skipped, index, dirs, cache, late, hub>>
        BY <1>9 DEF GetReference
      <4> QED
        BY <2>1, <3>2, <4>1, <4>2 DEF TypeOK, Steps, Fetching, Ref
  <2>3. CASE entry' = entry /\ at' = [at EXCEPT ![p] = "license"]
    BY <1>9, <2>1, <2>3 DEF GetReference, TypeOK, Steps, Fetching, Ref
  <2> QED
    BY <1>9, <2>2, <2>3 DEF GetReference, Goto
<1>10. CASE HealLicense(p)
  <2>1. Ref(p) \in Coords /\ i[p] \leq Len(job[p].refs) /\ at[p] = "heal" /\ entry[p] # NoEntry
    BY <1>10 DEF HealLicense, Fetching, TypeOK
  <2>2. PICK e \in Entry : entry' = [entry EXCEPT ![p] = e]
    <3>1. entry[p] \in Entry /\ entry = [entry EXCEPT ![p] = entry[p]]
      BY <2>1 DEF TypeOK
    <3> QED
      BY <1>10, <2>1, <3>1, Licenses DEF HealLicense
  <2>3. PICK l \in {"putHealed", "write"} : at' = [at EXCEPT ![p] = l]
    BY <1>10 DEF HealLicense, Goto
  <2>4. blank' \subseteq Coords
    BY <1>10, <2>1, AskedType DEF HealLicense
  <2> QED
    BY <1>10, <2>1, <2>2, <2>3, <2>4 DEF HealLicense, TypeOK, Steps, Fetching, Ref
<1>11. CASE PutHealed(p)
  BY <1>11, StoreType DEF PutHealed, TypeOK, Goto, Steps, Ended, Fetching, Ref
<1>12. CASE LookUpLicense(p)
  <2>1. Ref(p) \in Coords /\ i[p] \leq Len(job[p].refs) /\ at[p] = "license"
    BY <1>12 DEF LookUpLicense
  <2>2. PICK e \in Entry : entry' = [entry EXCEPT ![p] = e]
    BY <1>12, <2>1, Licenses DEF LookUpLicense
  <2>3. blank' \subseteq Coords
    BY <1>12, <2>1, AskedType DEF LookUpLicense
  <2>4. /\ at' = [at EXCEPT ![p] = "host"]
        /\ UNCHANGED <<job, token, host, i, seen, skipped, index, dirs, cache, late, listing>>
    BY <1>12 DEF LookUpLicense, Goto
  <2>5. /\ entry' \in [Procs -> Entry \cup {NoEntry}] /\ entry'[p] # NoEntry
        /\ \A q \in Procs \ {p} : entry'[q] = entry[q]
    BY <2>2 DEF TypeOK
  <2> QED
    BY <2>1, <2>3, <2>4, <2>5 DEF TypeOK, Steps, Fetching, Ref
<1>13. CASE ResolveRegistryHost(p)
  <2>1. CASE SkipReference(p)
    BY <1>13, <2>1, SkipType DEF ResolveRegistryHost, Discover, TypeOK, Fetching
  <2>2. CASE ~SkipReference(p)
    BY <1>13, <2>2 DEF ResolveRegistryHost, Discover, TypeOK, Goto, Steps, Ended, Fetching, Ref
  <2> QED
    BY <2>1, <2>2
<1>14. CASE MintRefPullToken(p)
  <2>1. CASE SkipReference(p)
    BY <1>14, <2>1, SkipType DEF MintRefPullToken, TypeOK, Fetching, Goto, Steps
  <2>2. CASE ~SkipReference(p)
    <3>1. /\ Ref(p) \in Coords /\ i[p] \leq Len(job[p].refs) /\ at[p] = "mint"
          /\ entry[p] # NoEntry
      BY <1>14 DEF MintRefPullToken, Fetching, TypeOK
    <3>2. token' \in [Procs -> Coords \cup {User, NoToken}]
      <4>1. token' = [token EXCEPT ![p] = IF job[p].userCreds THEN @ ELSE Ref(p)]
        BY <1>14, <2>2 DEF MintRefPullToken
      <4>2. \E t \in Coords \cup {User, NoToken} : token' = [token EXCEPT ![p] = t]
        <5>1. CASE job[p].userCreds
          BY <4>1, <5>1 DEF TypeOK
        <5>2. CASE ~job[p].userCreds
          BY <3>1, <4>1, <5>2
        <5> QED
          BY <5>1, <5>2
      <4> QED
        BY <4>2 DEF TypeOK
    <3> QED
      BY <1>14, <2>2, <3>1, <3>2 DEF MintRefPullToken, TypeOK, Goto, Steps, Fetching, Ref
  <2> QED
    BY <2>1, <2>2
<1>15. CASE PullReference(p)
  <2>1. CASE SkipReference(p)
    BY <1>15, <2>1, SkipType DEF PullReference, TypeOK, Fetching
  <2>2. CASE ~SkipReference(p)
    BY <1>15, <2>2 DEF PullReference, TypeOK, Goto, Steps, Ended, Fetching, Ref
  <2> QED
    BY <2>1, <2>2
<1>16. CASE PutReference(p)
  BY <1>16, StoreType DEF PutReference, TypeOK, Goto, Steps, Ended, Fetching, Ref
<1>17. CASE WriteReference(p)
  <2>1. dirs' \in [Procs -> [Coords -> {"none", "part", "whole"}]]
    <3>1. Ref(p) \in Coords
      BY <1>17 DEF WriteReference, Fetching
    <3>2. CASE OnDisk(p, "part")
      BY <3>1, <3>2, OnDiskType
    <3> QED
      BY <1>17, <3>2 DEF WriteReference, TypeOK
  <2>2. CASE SkipReference(p)
    BY <1>17, <2>1, <2>2, SkipType DEF WriteReference, TypeOK, Fetching
  <2>3. CASE ~SkipReference(p)
    BY <1>17, <2>1, <2>3 DEF WriteReference, TypeOK, Goto, Steps, Ended, Fetching, Ref
  <2> QED
    BY <2>2, <2>3
<1>18. CASE FinishReference(p)
  <2>1. Ref(p) \in Coords /\ i[p] \leq Len(job[p].refs) /\ at[p] = "finish"
    BY <1>18 DEF FinishReference, Fetching
  <2>2. CASE SkipReference(p) /\ UNCHANGED <<index, dirs>>
    BY <1>18, <2>1, <2>2, SkipType DEF FinishReference, TypeOK, Fetching
  <2>3. CASE /\ OnDisk(p, "whole") /\ index' = [index EXCEPT ![p] = Append(@, Ref(p))]
             /\ i' = [i EXCEPT ![p] = @ + 1] /\ Goto(p, "next") /\ skipped' = skipped
    <3>1. index' \in [Procs -> Seq(Coords)]
      BY <2>1, <2>3 DEF TypeOK
    <3>2. dirs' \in [Procs -> [Coords -> {"none", "part", "whole"}]]
      BY <2>1, <2>3, OnDiskType
    <3> QED
      BY <1>18, <2>1, <2>3, <3>1, <3>2, AdvanceType
      DEF FinishReference, TypeOK, Goto, Steps, Ended, Fetching
  <2> QED
    BY <1>18, <2>2, <2>3 DEF FinishReference
<1>19. CASE WriteIndex(p)
  BY <1>19, ZenonT(60) DEF WriteIndex, TypeOK, Goto, Steps, Ended, Fetching
<1>20. CASE Abort(p)
  BY <1>20 DEF Abort, TypeOK, Goto, Steps, Ended, Fetching
<1> QED
  BY <1>1, <1>2, <1>3, <1>4, <1>5, <1>6, <1>7, <1>8, <1>9, <1>10, <1>11, <1>12,
     <1>13, <1>14, <1>15, <1>16, <1>17, <1>18, <1>19, <1>20 DEF Step

LEMMA NextTypeOK == TypeOK /\ [Next]_vars => TypeOK'
<1> SUFFICES ASSUME TypeOK, [Next]_vars PROVE TypeOK'
  OBVIOUS
<1>1. ASSUME NEW c \in Coords, Lose(c) PROVE TypeOK'
  BY <1>1 DEF Lose, local, hub, TypeOK, Fetching
<1>2. ASSUME NEW c \in Coords, List(c) \/ Yank(c) PROVE TypeOK'
  <2>1. listing' \in [Coords -> {"unlisted", "listed", "yanked"}]
    BY <1>2 DEF List, Yank, TypeOK
  <2> QED
    BY <1>2, <2>1 DEF List, Yank, local, TypeOK, Fetching
<1>3. CASE UNCHANGED vars
  BY <1>3 DEF vars, local, hub, TypeOK, Fetching
<1> QED
  BY <1>1, <1>2, <1>3, StepTypeOK DEF Next

\* Every invocation stays within its list, and holds an entry while it works on
\* a reference (fetchReference returns an entry or an error).
THEOREM ReferencesTypeOK == Spec => []TypeOK
BY InitTypeOK, NextTypeOK, PTL DEF Spec

(***************************************************************************)
(* What one invocation does leaves the locals of the others alone: they    *)
(* meet in the cache only.                                                 *)
(***************************************************************************)
Same(q) ==
    /\ at'[q] = at[q] /\ token'[q] = token[q] /\ i'[q] = i[q] /\ seen'[q] = seen[q]
    /\ entry'[q] = entry[q] /\ skipped'[q] = skipped[q] /\ index'[q] = index[q]
    /\ dirs'[q] = dirs[q] /\ host'[q] = host[q]

LEMMA Frame ==
    ASSUME TypeOK, NEW p \in Procs, Step(p) \/ Abort(p)
    PROVE  job' = job /\ \A q \in Procs \ {p} : Same(q)
<1> USE DEF TypeOK, Same, Goto
<1>1. CASE Begin(p) \/ PrimaryHit(p) \/ PrimaryPull(p) \/ PutPrimary(p) \/ EndLoop(p)
  BY <1>1 DEF Begin, PrimaryHit, PrimaryPull, PutPrimary, EndLoop, EnsureRegistryToken,
              Discover
<1>2. CASE NotRecognized(p) \/ PassOver(p) \/ TakeUp(p) \/ GetReference(p)
  BY <1>2 DEF NotRecognized, PassOver, TakeUp, GetReference, SkipReference
<1>3. CASE HealLicense(p) \/ PutHealed(p) \/ LookUpLicense(p)
  BY <1>3 DEF HealLicense, PutHealed, LookUpLicense
<1>4. CASE ResolveRegistryHost(p) \/ MintRefPullToken(p) \/ PullReference(p) \/ PutReference(p)
  BY <1>4 DEF ResolveRegistryHost, MintRefPullToken, PullReference, PutReference, SkipReference,
              Discover
<1>5. CASE WriteReference(p) \/ WriteIndex(p) \/ Abort(p)
  BY <1>5 DEF WriteReference, WriteIndex, Abort, SkipReference, OnDisk
<1>6. CASE FinishReference(p)
  BY <1>6 DEF FinishReference, SkipReference, OnDisk
<1> QED
  BY <1>1, <1>2, <1>3, <1>4, <1>5, <1>6 DEF Step

(***************************************************************************)
(* Tokens and the cache.  An invocation carries what it read from the      *)
(* cache, or from the hub and the registry, over several steps, and then   *)
(* stores it: the invariant says what it may carry at each step.           *)
(***************************************************************************)
FetchInv(p) ==
    /\ job[p].userCreds => token[p] = User
    /\ at[p] = "pull" /\ ~job[p].userCreds => token[p] = Ref(p)
    /\ at[p] \in Fetching => Truthful(Ref(p), entry[p])
    /\ at[p] \in {"heal", "putHealed"} => Content[Ref(p)] \notin {"imports", "absent"}
    /\ at[p] \in {"put", "write", "finish"} => Content[Ref(p)] # "absent"
    /\ at[p] = "putPrimary" => Content[job[p].primary] \notin {"imports", "absent"}

CacheInv ==
    \A c \in Coords : cache[c] # NoEntry =>
        Truthful(c, cache[c]) /\ Content[c] \notin {"imports", "absent"}

\* What the hub was asked before it listed a version stays asked.
LEMMA BlankGrows ==
    ASSUME NEW p \in Procs, Step(p) \/ Abort(p)
    PROVE  blank \subseteq blank'
<1> USE DEF hub
<1>1. CASE Begin(p) \/ PrimaryHit(p) \/ PrimaryPull(p) \/ PutPrimary(p) \/ EndLoop(p)
  BY <1>1 DEF Begin, PrimaryHit, PrimaryPull, PutPrimary, EndLoop
<1>2. CASE NotRecognized(p) \/ PassOver(p) \/ TakeUp(p) \/ GetReference(p)
  BY <1>2 DEF NotRecognized, PassOver, TakeUp, GetReference
<1>3. CASE HealLicense(p) \/ PutHealed(p) \/ LookUpLicense(p)
  BY <1>3 DEF HealLicense, PutHealed, LookUpLicense, Asked
<1>4. CASE ResolveRegistryHost(p) \/ MintRefPullToken(p) \/ PullReference(p) \/ PutReference(p)
  BY <1>4 DEF ResolveRegistryHost, MintRefPullToken, PullReference, PutReference
<1>5. CASE WriteReference(p) \/ FinishReference(p) \/ WriteIndex(p) \/ Abort(p)
  BY <1>5 DEF WriteReference, FinishReference, WriteIndex, Abort
<1> QED
  BY <1>1, <1>2, <1>3, <1>4, <1>5 DEF Step

\* An answer of the hub is true once it is known who asked.
LEMMA AnswerIsTruthful ==
    ASSUME NEW c \in Coords, Asked(c), NEW e, e = Confirmed(c)
    PROVE  Truthful(c, e)'
BY DEF Truthful, Confirmed, Asked

LEMMA CacheStays ==
    ASSUME CacheInv, blank \subseteq blank',
           \A c \in Coords : cache'[c] = cache[c] \/ cache'[c] = NoEntry
    PROVE  CacheInv'
BY DEF CacheInv, Truthful

LEMMA InitFetchInv == Init => CacheInv /\ \A p \in Procs : FetchInv(p)
<1> SUFFICES ASSUME Init PROVE CacheInv /\ \A p \in Procs : FetchInv(p)
  OBVIOUS
<1>1. CacheInv
  BY DEF Init, CacheInv
<1>2. ASSUME NEW p \in Procs PROVE FetchInv(p)
  <2>1. at[p] = "idle" /\ (job[p].userCreds => token[p] = User)
    BY DEF Init
  <2> QED
    BY <2>1 DEF FetchInv, Fetching
<1> QED
  BY <1>1, <1>2

LEMMA StoreCacheInv ==
    ASSUME TypeOK, CacheInv, NEW p \in Procs, NEW c \in Coords, NEW e \in Entry,
           Store(p, c, e), Truthful(c, e), Content[c] \notin {"imports", "absent"},
           blank \subseteq blank'
    PROVE  CacheInv'
<1>1. \A d \in Coords : cache'[d] = cache[d] \/ (d = c /\ cache'[d] = e)
  BY DEF Store, TypeOK
<1> QED
  BY <1>1 DEF CacheInv, Truthful

\* A step to one of the other places of the loop.
LEMMA LeftFetch ==
    ASSUME NEW p \in Procs, FetchInv(p), job' = job,
           job[p].userCreds => token'[p] = User,
           at'[p] \notin Fetching \cup {"putPrimary"}
    PROVE  FetchInv(p)'
BY DEF FetchInv, Fetching

LEMMA StepFetchInv ==
    ASSUME TypeOK, CacheInv, NEW p \in Procs, FetchInv(p), Step(p) \/ Abort(p)
    PROVE  CacheInv' /\ FetchInv(p)'
<1> USE JobType, RefType
<1>0. blank \subseteq blank'
  BY BlankGrows
<1>00. cache' = cache => CacheInv'
  BY <1>0, CacheStays
<1>1. CASE Begin(p)
  <2>1. at'[p] = "primary" /\ job' = job /\ token' = token /\ cache' = cache
    BY <1>1 DEF Begin, Goto, TypeOK
  <2> QED
    BY <1>00, <2>1, LeftFetch DEF FetchInv, Fetching
<1>2. CASE PrimaryHit(p)
  <2>1. job[p].userCreds => token'[p] = User
    BY <1>2 DEF PrimaryHit, EnsureRegistryToken, FetchInv, TypeOK
  <2>2. at'[p] \in {"done", "next"} /\ job' = job /\ cache' = cache
    BY <1>2 DEF PrimaryHit, AfterPrimary, Goto, TypeOK
  <2> QED
    BY <1>00, <2>1, <2>2, LeftFetch DEF Fetching
<1>3. CASE PrimaryPull(p)
  <2>1. job[p].userCreds => token'[p] = User
    BY <1>3 DEF PrimaryPull, EnsureRegistryToken, FetchInv, TypeOK
  <2>2. job' = job /\ cache' = cache /\ i' = i
    BY <1>3 DEF PrimaryPull
  <2>3. CASE at'[p] = "putPrimary"
    <3>1. Content[job[p].primary] \notin {"imports", "absent"}
      BY <1>3, <2>3 DEF PrimaryPull, Storable, Goto, AfterPrimary, TypeOK
    <3> QED
      BY <1>00, <2>1, <2>2, <2>3, <3>1 DEF FetchInv, Fetching
  <2>4. CASE at'[p] # "putPrimary"
    <3>1. at'[p] \in {"failed", "done", "next"}
      BY <1>3, <2>4 DEF PrimaryPull, Goto, AfterPrimary, TypeOK
    <3> QED
      BY <1>00, <2>1, <2>2, <3>1, LeftFetch DEF Fetching
  <2> QED
    BY <2>3, <2>4
<1>4. CASE PutPrimary(p)
  <2>1. at[p] = "putPrimary" /\ at'[p] \in {"done", "next"} /\ job' = job /\ token' = token
    BY <1>4 DEF PutPrimary, AfterPrimary, Goto, TypeOK
  <2>2. CacheInv'
    <3>1. Truthful(job[p].primary, Unchecked)
      BY DEF Truthful, Unchecked
    <3> QED
      BY <1>0, <1>4, <2>1, <3>1, StoreCacheInv, Licenses DEF PutPrimary, FetchInv
  <2>3. FetchInv(p)'
    BY <2>1, LeftFetch DEF FetchInv, Fetching
  <2> QED
    BY <2>2, <2>3
<1>5. CASE EndLoop(p) \/ NotRecognized(p) \/ PassOver(p) \/ TakeUp(p) \/ WriteIndex(p) \/ Abort(p)
  <2>1. job' = job /\ token' = token /\ cache' = cache
    BY <1>5 DEF EndLoop, NotRecognized, PassOver, TakeUp, WriteIndex, Abort
  <2>2. at'[p] \in {"done", "failed", "index", "next", "get"}
    BY <1>5 DEF EndLoop, NotRecognized, PassOver, TakeUp, WriteIndex, Abort, SkipReference,
                Goto, Ended, TypeOK
  <2> QED
    BY <1>00, <2>1, <2>2, LeftFetch DEF FetchInv, Fetching
<1>6. CASE GetReference(p)
  <2>1. /\ Ref(p) \in Coords /\ at[p] = "get"
        /\ job' = job /\ token' = token /\ cache' = cache /\ i' = i
    BY <1>6 DEF GetReference
  <2>2. CASE Cached(p, Ref(p))
    <3>1. entry'[p] = cache[Ref(p)] /\ at'[p] \in {"heal", "write"} /\ cache[Ref(p)] # NoEntry
      BY <1>6, <2>2 DEF GetReference, Cached, Goto, TypeOK
    <3>2. Truthful(Ref(p), cache[Ref(p)]) /\ Content[Ref(p)] \notin {"imports", "absent"}
      BY <2>1, <3>1 DEF CacheInv
    <3>3. Ref(p)' = Ref(p)
      BY <2>1 DEF Ref
    <3> QED
      BY <1>0, <1>00, <2>1, <3>1, <3>2, <3>3 DEF FetchInv, Truthful
  <2>3. CASE ~Cached(p, Ref(p))
    <3>1. at'[p] = "license"
      BY <1>6, <2>3 DEF GetReference, Goto, TypeOK
    <3> QED
      BY <1>00, <2>1, <3>1, LeftFetch DEF FetchInv, Fetching
  <2> QED
    BY <2>2, <2>3
<1>7. CASE HealLicense(p) \/ LookUpLicense(p)
  <2>1. /\ Ref(p) \in Coords /\ at[p] \in {"heal", "license"}
        /\ job' = job /\ token' = token /\ cache' = cache /\ i' = i /\ Ref(p)' = Ref(p)
    BY <1>7 DEF HealLicense, LookUpLicense, Fetching, Ref
  <2>2. Truthful(Ref(p), entry[p])'
    <3>1. CASE Asked(Ref(p)) /\ entry'[p] = Confirmed(Ref(p))
      BY <2>1, <3>1 DEF Truthful, Confirmed, Asked
    <3>2. CASE entry'[p] = Unchecked
      BY <3>2 DEF Truthful, Unchecked
    <3>3. CASE at[p] = "heal" /\ entry'[p] = entry[p]
      BY <1>0, <2>1, <3>3 DEF FetchInv, Fetching, Truthful
    <3> QED
      BY <1>7, <3>1, <3>2, <3>3 DEF HealLicense, LookUpLicense, TypeOK
  <2>3. \/ at[p] = "heal" /\ at'[p] \in {"putHealed", "write"}
        \/ at'[p] = "host"
    BY <1>7 DEF HealLicense, LookUpLicense, Goto, TypeOK
  <2> QED
    BY <1>00, <2>1, <2>2, <2>3 DEF FetchInv
<1>8. CASE PutHealed(p) \/ PutReference(p)
  <2>1. /\ Ref(p) \in Coords /\ at[p] \in {"putHealed", "put"} /\ at'[p] = "write"
        /\ UNCHANGED <<job, token, i, entry>> /\ Ref(p)' = Ref(p)
    BY <1>8 DEF PutHealed, PutReference, Fetching, Ref, Goto, TypeOK
  <2>2. entry[p] \in Entry /\ Truthful(Ref(p), entry[p]) /\ Content[Ref(p)] # "absent"
    BY <2>1 DEF FetchInv, TypeOK, Fetching
  <2>3. CacheInv'
    <3>1. CASE cache' = cache
      BY <1>00, <3>1
    <3>2. CASE Store(p, Ref(p), entry[p]) /\ Content[Ref(p)] # "imports"
      BY <1>0, <2>1, <2>2, <3>2, StoreCacheInv
    <3> QED
      BY <1>8, <3>1, <3>2 DEF PutHealed, PutReference, FetchInv
  <2>4. FetchInv(p)'
    BY <1>0, <2>1, <2>2 DEF FetchInv, Truthful
  <2> QED
    BY <2>3, <2>4
<1>9. CASE ResolveRegistryHost(p) \/ MintRefPullToken(p) \/ PullReference(p)
           \/ WriteReference(p) \/ FinishReference(p)
  <2>1. /\ at[p] \in {"host", "mint", "pull", "write", "finish"} /\ Ref(p) \in Coords
        /\ job' = job /\ cache' = cache /\ entry' = entry
    BY <1>9 DEF ResolveRegistryHost, MintRefPullToken, PullReference, WriteReference,
                FinishReference, Fetching
  <2>2. job[p].userCreds => token'[p] = User
    BY <1>9 DEF ResolveRegistryHost, MintRefPullToken, PullReference, WriteReference,
                FinishReference, FetchInv, TypeOK
  <2>3. CASE at'[p] = "next"
    BY <1>00, <2>1, <2>2, <2>3, LeftFetch DEF Fetching
  <2>4. CASE at'[p] # "next"
    <3>1. /\ i' = i /\ Ref(p)' = Ref(p)
          /\ \/ at[p] = "host" /\ at'[p] = "mint"
             \/ at[p] = "mint" /\ at'[p] = "pull" /\ (~job[p].userCreds => token'[p] = Ref(p))
             \/ at[p] = "pull" /\ at'[p] = "put" /\ Content[Ref(p)] # "absent"
             \/ at[p] = "write" /\ at'[p] = "finish"
      BY <1>9, <2>4 DEF ResolveRegistryHost, MintRefPullToken, PullReference, WriteReference,
                FinishReference, SkipReference, Goto, Ref, TypeOK
    <3> QED
      BY <1>0, <1>00, <2>1, <2>2, <3>1 DEF FetchInv, Fetching, Truthful
  <2> QED
    BY <2>3, <2>4
<1> QED
  BY <1>1, <1>2, <1>3, <1>4, <1>5, <1>6, <1>7, <1>8, <1>9 DEF Step

LEMMA NextFetchInv ==
    ASSUME TypeOK, CacheInv, \A p \in Procs : FetchInv(p), [Next]_vars
    PROVE  CacheInv' /\ \A p \in Procs : FetchInv(p)'
<1>1. ASSUME NEW p \in Procs, Step(p) \/ Abort(p)
      PROVE  CacheInv' /\ \A q \in Procs : FetchInv(q)'
  <2>1. CacheInv' /\ FetchInv(p)'
    BY <1>1, StepFetchInv
  <2>2. ASSUME NEW q \in Procs \ {p} PROVE FetchInv(q)'
    <3>1. job' = job /\ Same(q) /\ FetchInv(q)
      BY <1>1, Frame
    <3>2. Ref(q)' = Ref(q)
      BY <3>1 DEF Ref, Same
    <3>3. blank \subseteq blank'
      BY <1>1, BlankGrows
    <3> QED
      BY ONLY <3>1, <3>2, <3>3 DEF FetchInv, Same, Truthful
  <2> QED
    BY <2>1, <2>2
<1>2. ASSUME UNCHANGED local, blank' = blank,
             \A c \in Coords : cache'[c] = cache[c] \/ cache'[c] = NoEntry
      PROVE  CacheInv' /\ \A q \in Procs : FetchInv(q)'
  BY <1>2, CacheStays DEF FetchInv, local, Truthful, Ref
<1>3. ASSUME NEW c \in Coords, Lose(c) PROVE CacheInv' /\ \A q \in Procs : FetchInv(q)'
  BY <1>2, <1>3 DEF Lose, hub, TypeOK
<1>4. CASE UNCHANGED vars \/ \E c \in Coords : List(c) \/ Yank(c)
  BY <1>2, <1>4 DEF List, Yank, vars, hub
<1> QED
  BY <1>1, <1>3, <1>4 DEF Next

Carried == CacheInv /\ \A p \in Procs : FetchInv(p)

LEMMA ReferencesCarried == Spec => []Carried
<1>1. Init => Carried
  BY InitFetchInv DEF Carried
<1>2. TypeOK /\ Carried /\ [Next]_vars => Carried'
  BY NextFetchInv DEF Carried
<1> QED
  BY <1>1, <1>2, ReferencesTypeOK, PTL DEF Spec

\* A reference is pulled with the user's credential, or with a token for its
\* own repository (mintRefPullToken).
THEOREM ReferencesTokens == Spec => []TokenFitsRepository
<1>1. Carried => TokenFitsRepository
  BY DEF Carried, FetchInv, TokenFitsRepository
<1> QED
  BY <1>1, ReferencesCarried, PTL

\* No interleaving of puts and heals makes an entry claim a license the hub did
\* not give, and none confirms that there is no license unless the hub has none or
\* was asked too early (fetchReference, putBundle).
THEOREM ReferencesLicenseIsWhatTheHubSaid == Spec => []LicenseIsWhatTheHubSaid
<1>1. Carried => LicenseIsWhatTheHubSaid
  BY DEF Carried, CacheInv, FetchInv, Fetching, LicenseIsWhatTheHubSaid
<1> QED
  BY <1>1, ReferencesCarried, PTL

\* A bundle with imports is never cached (fetchReference, putBundle).
THEOREM ReferencesCacheDropsNothing == Spec => []CacheDropsNothing
<1>1. Carried => CacheDropsNothing
  BY DEF Carried, CacheInv, CacheDropsNothing
<1> QED
  BY <1>1, ReferencesCarried, PTL

(***************************************************************************)
(* What is kept.  An invocation that works from a reading of the cache has *)
(* found no answer of the hub there; if there is one now, it was stored    *)
(* meanwhile, and the history says so.                                     *)
(***************************************************************************)
LateInv ==
    \A p \in Procs, c \in Coords :
        Working(p, c) /\ cache[c] # NoEntry /\ cache[c].checked => <<p, c>> \in late

\* Only the three puts write the cache, for the coordinate at hand, and they are
\* the last thing done with that reading.
StoresAtHand(p) ==
    \E c \in Coords, e \in Entry :
        /\ Store(p, c, e) /\ Working(p, c) /\ at'[p] # at[p]
        /\ \A d \in Coords : ~Working(p, d)'

LEMMA StoreOrNot ==
    ASSUME TypeOK, NEW p \in Procs, Step(p) \/ Abort(p)
    PROVE  UNCHANGED <<cache, late>> \/ StoresAtHand(p)
<1> USE JobType, RefType
<1>1. CASE PutPrimary(p)
  <2>1. /\ Store(p, job[p].primary, Unchecked) /\ at[p] = "putPrimary"
        /\ at'[p] \in {"done", "next"}
    BY <1>1 DEF PutPrimary, AfterPrimary, Goto, TypeOK
  <2>2. Working(p, job[p].primary) /\ \A d \in Coords : ~Working(p, d)'
    BY <2>1 DEF Working
  <2> QED
    BY <2>1, <2>2, Licenses DEF StoresAtHand
<1>2. CASE PutHealed(p) \/ PutReference(p)
  <2>1. /\ at[p] \in {"putHealed", "put"} /\ at'[p] = "write"
        /\ UNCHANGED <<cache, late>> \/ Store(p, Ref(p), entry[p])
        /\ Store(p, Ref(p), entry[p]) /\ ~UNCHANGED <<cache, late>> =>
               at[p] = "putHealed" \/ job[p].caching
    BY <1>2 DEF PutHealed, PutReference, Goto, TypeOK
  <2>2. Ref(p) \in Coords /\ entry[p] \in Entry
    BY <2>1 DEF TypeOK, Fetching
  <2>3. \A d \in Coords : ~Working(p, d)'
    BY <2>1 DEF Working
  <2>4. CASE UNCHANGED <<cache, late>>
    BY <2>4
  <2>5. CASE ~UNCHANGED <<cache, late>>
    <3>1. Working(p, Ref(p))
      BY <2>1, <2>5 DEF Working
    <3> QED
      BY <2>1, <2>2, <2>3, <2>5, <3>1 DEF StoresAtHand
  <2> QED
    BY <2>4, <2>5
<1>3. CASE Begin(p) \/ PrimaryHit(p) \/ PrimaryPull(p) \/ EndLoop(p) \/ NotRecognized(p)
           \/ PassOver(p) \/ TakeUp(p) \/ GetReference(p) \/ HealLicense(p) \/ LookUpLicense(p)
  BY <1>3 DEF Begin, PrimaryHit, PrimaryPull, EndLoop, NotRecognized, PassOver, TakeUp,
     GetReference, HealLicense, LookUpLicense
<1>4. CASE ResolveRegistryHost(p) \/ MintRefPullToken(p) \/ PullReference(p)
           \/ WriteReference(p) \/ FinishReference(p) \/ WriteIndex(p) \/ Abort(p)
  BY <1>4 DEF ResolveRegistryHost, MintRefPullToken, PullReference, WriteReference,
     FinishReference, WriteIndex, Abort
<1> QED
  BY <1>1, <1>2, <1>3, <1>4 DEF Step

\* Whoever begins to work from a reading has just read, and found no answer.
LEMMA WorkBegins ==
    ASSUME TypeOK, NEW p \in Procs, Step(p) \/ Abort(p), UNCHANGED <<cache, late>>,
           NEW c \in Coords, Working(p, c)'
    PROVE  Working(p, c) \/ cache[c] = NoEntry \/ ~cache[c].checked
<1> USE JobType, RefType DEF Working, Goto
<1>1. job' = job
  BY Frame
<1>2. CASE PrimaryPull(p)
  <2>1. at'[p] = "putPrimary" /\ job[p].primary = c
    BY <1>1, <1>2 DEF PrimaryPull, AfterPrimary, TypeOK
  <2>2. job[p].caching /\ Storable(job[p].primary)
    BY <1>2, <2>1 DEF PrimaryPull, AfterPrimary, TypeOK
  <2> QED
    BY <1>2, <2>1, <2>2 DEF PrimaryPull, Storable, Cached
<1>3. CASE GetReference(p)
  <2>1. Ref(p)' = Ref(p)
    BY <1>3 DEF GetReference, Ref
  <2>2. CASE at'[p] = "heal"
    BY <1>3, <2>1, <2>2 DEF GetReference, TypeOK
  <2>3. CASE at'[p] = "license"
    BY <1>1, <1>3, <2>1, <2>3 DEF GetReference, Cached, TypeOK
  <2>4. at'[p] \in {"heal", "license", "write"}
    BY <1>3 DEF GetReference, TypeOK
  <2> QED
    BY <2>2, <2>3, <2>4
<1>4. CASE HealLicense(p) \/ LookUpLicense(p)
  <2>1. Ref(p)' = Ref(p)
    BY <1>4 DEF HealLicense, LookUpLicense, Ref
  <2> QED
    BY <1>1, <1>4, <2>1 DEF HealLicense, LookUpLicense, TypeOK
<1>5. CASE ResolveRegistryHost(p) \/ MintRefPullToken(p) \/ PullReference(p)
  <2>1. at[p] \in {"host", "mint", "pull"}
    BY <1>5 DEF ResolveRegistryHost, MintRefPullToken, PullReference
  <2>2. CASE at'[p] = "next"
    BY <2>2
  <2>3. CASE at'[p] # "next"
    <3>1. i' = i
      BY <1>5, <2>3 DEF ResolveRegistryHost, MintRefPullToken, PullReference,
                        SkipReference, TypeOK
    <3>2. Ref(p)' = Ref(p) /\ at'[p] \in {"mint", "pull", "put"}
      BY <1>1, <1>5, <2>3, <3>1 DEF ResolveRegistryHost, MintRefPullToken, PullReference,
                        SkipReference, TypeOK, Ref
    <3> QED
      BY <1>1, <2>1, <3>2
  <2> QED
    BY <2>2, <2>3
<1>6. CASE Begin(p) \/ PrimaryHit(p) \/ PutPrimary(p) \/ EndLoop(p) \/ NotRecognized(p)
           \/ PassOver(p) \/ TakeUp(p) \/ PutHealed(p) \/ PutReference(p)
  <2>1. at'[p] \in {"primary", "done", "next", "index", "get", "write"}
    BY <1>6 DEF Begin, PrimaryHit, PutPrimary, EndLoop, NotRecognized, PassOver, TakeUp,
       PutHealed, PutReference, AfterPrimary, SkipReference, TypeOK
  <2> QED
    BY <2>1
<1>7. CASE WriteReference(p) \/ FinishReference(p) \/ WriteIndex(p) \/ Abort(p)
  <2>1. at'[p] \in {"finish", "next", "done", "failed"}
    BY <1>7 DEF WriteReference, FinishReference, WriteIndex, Abort, SkipReference, Ended, TypeOK
  <2> QED
    BY <2>1
<1> QED
  BY <1>2, <1>3, <1>4, <1>5, <1>6, <1>7 DEF Step

LEMMA NextLateInv == TypeOK /\ LateInv /\ [Next]_vars => LateInv'
<1> SUFFICES ASSUME TypeOK, LateInv, [Next]_vars PROVE LateInv'
  OBVIOUS
<1>1. ASSUME NEW p \in Procs, Step(p) \/ Abort(p), NEW q \in Procs, NEW c \in Coords,
             Working(q, c)', cache'[c] # NoEntry, cache'[c].checked
      PROVE  <<q, c>> \in late'
  <2>1. q # p => (Working(q, c)' <=> Working(q, c))
    BY <1>1, Frame DEF Same, Working, Ref
  <2>2. CASE UNCHANGED <<cache, late>>
    BY <1>1, <2>1, <2>2, WorkBegins DEF LateInv
  <2>3. CASE StoresAtHand(p)
    <3>1. PICK d \in Coords, e \in Entry :
              Store(p, d, e) /\ \A x \in Coords : ~Working(p, x)'
      BY <2>3 DEF StoresAtHand
    <3>2. q # p /\ Working(q, c)
      BY <1>1, <2>1, <3>1
    <3>3. CASE UNCHANGED <<cache, late>>
      BY <1>1, <3>2, <3>3 DEF LateInv
    <3>4. CASE /\ cache' = [cache EXCEPT ![d] = e]
               /\ late' = IF e.checked
                          THEN late \cup {<<r, d>> : r \in {r \in Procs \ {p} : Working(r, d)}}
                          ELSE late
      <4>1. CASE c = d
        BY <1>1, <3>2, <3>4, <4>1 DEF TypeOK
      <4>2. CASE c # d
        <5>1. cache'[c] = cache[c] /\ late \subseteq late'
          BY <3>4, <4>2 DEF TypeOK
        <5> QED
          BY <1>1, <3>2, <5>1 DEF LateInv
      <4> QED
        BY <4>1, <4>2
    <3> QED
      BY <3>1, <3>3, <3>4 DEF Store
  <2> QED
    BY <1>1, <2>2, <2>3, StoreOrNot
<1>2. ASSUME UNCHANGED <<local, late>>,
             \A c \in Coords : cache'[c] = cache[c] \/ cache'[c] = NoEntry
      PROVE  LateInv'
  BY <1>2 DEF LateInv, local, Working, Ref
<1>3. ASSUME NEW c \in Coords, Lose(c) PROVE LateInv'
  BY <1>2, <1>3 DEF Lose, TypeOK
<1>4. CASE UNCHANGED vars \/ \E c \in Coords : List(c) \/ Yank(c)
  BY <1>2, <1>4 DEF List, Yank, vars
<1>5. CASE \E p \in Procs : Step(p) \/ Abort(p)
  BY <1>1, <1>5 DEF LateInv
<1> QED
  BY <1>3, <1>4, <1>5 DEF Next

\* What the hub answered is taken back only by an invocation that had read the
\* cache before (fetchReference, putBundle).
THEOREM ReferencesConfirmationsAreKept == Spec => ConfirmationsAreKept
<1> DEFINE A == \A c \in Coords :
                   cache[c] # NoEntry /\ cache'[c] # NoEntry /\ Forgets(cache'[c], cache[c]) =>
                       \E p \in Procs : <<p, c>> \in late /\ at'[p] # at[p]
<1>1. Init => LateInv
  BY DEF Init, LateInv
<1>2. TypeOK /\ Carried /\ LateInv /\ [Next]_vars => [A]_vars
  <2> SUFFICES ASSUME TypeOK, Carried, LateInv, Next, NEW c \in Coords, cache[c] # NoEntry,
                      cache'[c] # NoEntry, Forgets(cache'[c], cache[c])
               PROVE  \E p \in Procs : <<p, c>> \in late /\ at'[p] # at[p]
    OBVIOUS
  <2>1. cache[c].checked
    BY DEF Carried, CacheInv, Truthful, Forgets
  <2>2. cache'[c] # cache[c]
    BY DEF Forgets
  <2>3. PICK p \in Procs : Step(p) \/ Abort(p)
    BY <2>2 DEF Next, Lose, List, Yank, TypeOK
  <2>4. PICK d \in Coords, e \in Entry : Store(p, d, e) /\ Working(p, d) /\ at'[p] # at[p]
    BY <2>2, <2>3, StoreOrNot DEF StoresAtHand
  <2>5. d = c
    BY <2>2, <2>4 DEF Store, TypeOK
  <2> QED
    BY <2>1, <2>4, <2>5 DEF LateInv
<1> QED
  BY <1>1, <1>2, NextLateInv, ReferencesTypeOK, ReferencesCarried, PTL
  DEF Spec, ConfirmationsAreKept

(***************************************************************************)
(* Discovery.                                                              *)
(***************************************************************************)
Discovered ==
    \A p \in Procs :
        /\ at[p] \in {"idle", "primary"} => host[p] = "unknown"
        /\ at[p] \in {"mint", "pull"} => host[p] = "known"

\* Nobody forgets what discovery found, and whoever goes on to a pull knows it.
LEMMA StepDiscovered ==
    ASSUME TypeOK, Discovered, NEW p \in Procs, Step(p) \/ Abort(p)
    PROVE  /\ host[p] # "unknown" => host'[p] = host[p]
           /\ at'[p] = "primary" => host'[p] = "unknown"
           /\ at'[p] \in {"mint", "pull"} => host'[p] = "known"
           /\ at'[p] # "idle"
<1> USE DEF Discovered, TypeOK, Goto
<1>1. CASE Begin(p) \/ PrimaryHit(p) \/ PrimaryPull(p) \/ PutPrimary(p) \/ EndLoop(p)
  BY <1>1 DEF Begin, PrimaryHit, PrimaryPull, PutPrimary, EndLoop, AfterPrimary, Discover
<1>2. CASE NotRecognized(p) \/ PassOver(p) \/ TakeUp(p) \/ GetReference(p)
  BY <1>2 DEF NotRecognized, PassOver, TakeUp, GetReference, SkipReference
<1>3. CASE HealLicense(p) \/ PutHealed(p) \/ LookUpLicense(p) \/ PutReference(p)
  BY <1>3 DEF HealLicense, PutHealed, LookUpLicense, PutReference
<1>4. CASE ResolveRegistryHost(p) \/ MintRefPullToken(p) \/ PullReference(p)
  BY <1>4 DEF ResolveRegistryHost, MintRefPullToken, PullReference, SkipReference, Discover
<1>5. CASE WriteReference(p) \/ FinishReference(p) \/ WriteIndex(p) \/ Abort(p)
  BY <1>5 DEF WriteReference, FinishReference, WriteIndex, Abort, SkipReference, Ended
<1> QED
  BY <1>1, <1>2, <1>3, <1>4, <1>5 DEF Step

LEMMA NextDiscovered == TypeOK /\ Discovered /\ [Next]_vars => Discovered'
<1> SUFFICES ASSUME TypeOK, Discovered, [Next]_vars PROVE Discovered'
  OBVIOUS
<1>1. ASSUME NEW p \in Procs, Step(p) \/ Abort(p) PROVE Discovered'
  BY <1>1, StepDiscovered, Frame DEF Discovered, Same
<1>2. CASE UNCHANGED local
  BY <1>2 DEF local, Discovered
<1> QED
  BY <1>1, <1>2 DEF Next, Lose, List, Yank, vars

\* Discovery is done once, its failure is not retried, and without it nothing is
\* pulled (resolveRegistryHost, hub.Discover).
THEOREM ReferencesDiscoveryIsFinal == Spec => DiscoveryIsFinal
<1> DEFINE A == \A p \in Procs :
                   /\ host[p] # "unknown" => host'[p] = host[p]
                   /\ at'[p] = "pull" => host'[p] = "known"
<1>1. Init => Discovered
  BY DEF Init, Discovered
<1>2. TypeOK /\ Discovered /\ [Next]_vars => [A]_vars
  <2> SUFFICES ASSUME TypeOK, Discovered, Next, NEW p \in Procs
               PROVE  /\ host[p] # "unknown" => host'[p] = host[p]
                      /\ at'[p] = "pull" => host'[p] = "known"
    OBVIOUS
  <2>1. ASSUME NEW q \in Procs, Step(q) \/ Abort(q), q # p
        PROVE  host'[p] = host[p] /\ at'[p] = at[p]
    BY <2>1, Frame DEF Same
  <2>2. CASE UNCHANGED local
    BY <2>2 DEF local, Discovered
  <2> QED
    BY <2>1, <2>2, StepDiscovered DEF Next, Lose, List, Yank, Discovered
<1> QED
  BY <1>1, <1>2, NextDiscovered, ReferencesTypeOK, PTL DEF Spec, DiscoveryIsFinal

(***************************************************************************)
(* The loop.  While a reference is taken up, from TakeUp until its row or  *)
(* its skip, its coordinate is met for the first time, so nothing of it is *)
(* on disk or in the index until WriteReference starts; and the references *)
(* before position i are accounted for already.                            *)
(***************************************************************************)
Taken == Fetching \cup {"get", "license"}

DiskInv(p) ==
    /\ \A c \in Coords : Indexed(p, c) <=> dirs[p][c] = "whole"
    /\ \A c \in Coords : dirs[p][c] # "none" => Content[c] \in {"file", "imports"} /\ c \in seen[p]
    /\ at[p] \in Taken => /\ Ref(p) \in seen[p] /\ Ref(p) # job[p].primary
                          /\ First(p, i[p])
                          /\ dirs[p][Ref(p)] = IF at[p] = "finish" THEN "part" ELSE "none"

Counted(p, n) ==
    n \in skipped[p] <=>
        \/ job[p].refs[n] = Elsewhere
        \/ First(p, n) /\ job[p].refs[n] # job[p].primary /\ ~Indexed(p, job[p].refs[n])

LoopInv(p) ==
    /\ \A n \in 1..Len(job[p].refs) : n < i[p] =>
          job[p].refs[n] \in seen[p] \cup {Elsewhere} /\ Counted(p, n)
    /\ \A n \in skipped[p] : n < i[p]
    /\ at[p] # "failed" =>
          \A c \in seen[p] : \E n \in 1..Len(job[p].refs) :
              job[p].refs[n] = c /\ (n < i[p] \/ (n = i[p] /\ at[p] \in Taken))
    /\ \A k, m \in 1..Len(index[p]) : index[p][k] = index[p][m] => k = m
    /\ at[p] = "index" \/ (at[p] = "done" /\ job[p].name = "unpack") => i[p] > Len(job[p].refs)

LEMMA InitLoop == Init => \A p \in Procs : DiskInv(p) /\ LoopInv(p)
<1> SUFFICES ASSUME Init, NEW p \in Procs PROVE DiskInv(p) /\ LoopInv(p)
  OBVIOUS
<1>1. /\ at[p] = "idle" /\ i[p] = 1 /\ seen[p] = {} /\ skipped[p] = {} /\ index[p] = <<>>
      /\ \A c \in Coords : dirs[p][c] = "none"
  BY DEF Init
<1>2. Len(index[p]) = 0 /\ \A c \in Coords : ~Indexed(p, c)
  BY <1>1 DEF Indexed
<1>3. DiskInv(p)
  BY <1>1, <1>2 DEF DiskInv, Taken, Fetching
<1>4. LoopInv(p)
  BY <1>1, <1>2 DEF LoopInv
<1> QED
  BY <1>3, <1>4

\* Steps that stay at the same reference and write nothing, and the steps of
\* other invocations.
LEMMA QuietLoop ==
    ASSUME NEW p \in Procs, DiskInv(p), LoopInv(p), job' = job,
           i'[p] = i[p], seen'[p] = seen[p], skipped'[p] = skipped[p],
           index'[p] = index[p], dirs'[p] = dirs[p],
           at'[p] \in Taken => at[p] \in Taken,
           at'[p] # "failed" => at[p] # "failed" /\ (at[p] \in Taken => at'[p] \in Taken),
           at'[p] = "finish" <=> at[p] = "finish",
           at'[p] = "index" \/ (at'[p] = "done" /\ job[p].name = "unpack")
               => i[p] > Len(job[p].refs)
    PROVE  DiskInv(p)' /\ LoopInv(p)'
<1>1. Ref(p)' = Ref(p) /\ \A c : Indexed(p, c)' = Indexed(p, c)
  BY DEF Ref, Indexed
<1>2. \A n : First(p, n)' = First(p, n)
  BY DEF First
<1>3. DiskInv(p)'
  BY <1>1, <1>2 DEF DiskInv
<1>4. \A n : Counted(p, n)' = Counted(p, n)
  BY <1>1, <1>2 DEF Counted
<1>5. LoopInv(p)'
  BY <1>4 DEF LoopInv
<1> QED
  BY <1>3, <1>5

LEMMA FailLoop ==
    ASSUME NEW p \in Procs, DiskInv(p), LoopInv(p), at'[p] = "failed",
           UNCHANGED <<job, i, seen, skipped, index, dirs>>
    PROVE  DiskInv(p)' /\ LoopInv(p)'
<1>1. /\ \A c : Indexed(p, c)' = Indexed(p, c)
      /\ \A n : First(p, n)' = First(p, n)
  BY DEF Indexed, First
<1>2. DiskInv(p)'
  BY <1>1 DEF DiskInv, Taken, Fetching
<1>3. \A n : Counted(p, n)' = Counted(p, n)
  BY <1>1 DEF Counted
<1>4. LoopInv(p)'
  BY <1>3 DEF LoopInv, Taken, Fetching
<1> QED
  BY <1>2, <1>4

\* What is known of the reference at hand when its turn is over.
LEMMA TakenFacts ==
    ASSUME TypeOK, NEW p \in Procs, DiskInv(p), LoopInv(p), at[p] \in Taken
    PROVE  /\ i[p] \in 1..Len(job[p].refs) /\ job[p].refs[i[p]] = Ref(p)
           /\ Ref(p) \in Coords /\ ~Indexed(p, Ref(p)) /\ i[p] \notin skipped[p]
           /\ \A n \in 1..Len(job[p].refs) : n < i[p] => job[p].refs[n] # Ref(p)
<1>1. i[p] \in Nat \ {0} /\ Len(job[p].refs) \in Nat
  BY JobType DEF TypeOK
<1>2. Ref(p) \in Coords /\ i[p] \leq Len(job[p].refs)
  BY RefType DEF Taken
<1>3. ~Indexed(p, Ref(p))
  BY <1>2 DEF DiskInv
<1>4. \A n \in 1..(i[p] - 1) : job[p].refs[n] # job[p].refs[i[p]]
  BY DEF DiskInv, First
<1> QED
  BY <1>1, <1>2, <1>3, <1>4 DEF LoopInv, Ref

\* A reference that was taken up is skipped.
LEMMA SkipLoop ==
    ASSUME TypeOK, NEW p \in Procs, DiskInv(p), LoopInv(p), at[p] \in Taken,
           SkipReference(p), UNCHANGED <<job, seen, index>>,
           \/ dirs' = dirs
           \/ OnDisk(p, "part") /\ Content[Ref(p)] \in {"file", "imports"}
    PROVE  DiskInv(p)' /\ LoopInv(p)'
<1>1. /\ i'[p] = i[p] + 1 /\ at'[p] = "next" /\ skipped'[p] = skipped[p] \cup {i[p]}
  BY DEF SkipReference, Goto, TypeOK
<1>2. i[p] \in Nat /\ Len(job[p].refs) \in Nat
  BY JobType DEF TypeOK
<1>3. /\ \A c : Indexed(p, c)' = Indexed(p, c)
      /\ \A n : First(p, n)' = First(p, n)
  BY DEF Indexed, First
<1>4. \A c \in Coords :
          dirs'[p][c] = dirs[p][c] \/ (c = Ref(p) /\ dirs'[p][c] = "part")
  BY DEF OnDisk, TypeOK
<1>5. DiskInv(p)'
  <2>1. ASSUME NEW c \in Coords PROVE (dirs'[p][c] = "whole" <=> dirs[p][c] = "whole")
    BY <1>4, TakenFacts DEF DiskInv
  <2>2. ASSUME NEW c \in Coords, dirs'[p][c] # "none"
        PROVE  Content[c] \in {"file", "imports"} /\ c \in seen[p]
    BY <1>4, <2>2 DEF DiskInv, OnDisk, TypeOK
  <2> QED
    BY <1>1, <1>3, <2>1, <2>2 DEF DiskInv, Taken, Fetching
<1>6. ASSUME NEW n \in 1..Len(job[p].refs), n < i[p] + 1
      PROVE  job[p].refs[n] \in seen[p] \cup {Elsewhere} /\ Counted(p, n)'
  <2>1. CASE n < i[p]
    BY <1>1, <1>2, <1>3, <2>1 DEF LoopInv, Counted
  <2>2. CASE n = i[p]
    <3>1. First(p, n) /\ job[p].refs[n] \in seen[p] /\ job[p].refs[n] # job[p].primary
      BY <2>2, TakenFacts DEF DiskInv
    <3> QED
      BY <1>1, <1>3, <2>2, <3>1, TakenFacts DEF Counted
  <2> QED
    BY <1>2, <1>6, <2>1, <2>2
<1>7. \A n \in skipped'[p] : n < i'[p]
  BY <1>1, <1>2 DEF LoopInv, TypeOK
<1>8. \A c \in seen[p] : \E n \in 1..Len(job[p].refs) : job[p].refs[n] = c /\ n < i'[p]
  <2>1. at[p] # "failed"
    BY DEF Taken, Fetching
  <2> QED
    BY <1>1, <1>2, <2>1 DEF LoopInv
<1>9. LoopInv(p)'
  BY <1>1, <1>6, <1>7, <1>8 DEF LoopInv
<1> QED
  BY <1>5, <1>9

LEMMA NotRecognizedLoop ==
    ASSUME TypeOK, NEW p \in Procs, DiskInv(p), LoopInv(p), NotRecognized(p)
    PROVE  DiskInv(p)' /\ LoopInv(p)'
<1>1. /\ i'[p] = i[p] + 1 /\ at[p] = "next" /\ at'[p] = "next"
      /\ skipped'[p] = skipped[p] \cup {i[p]} /\ UNCHANGED <<job, seen, index, dirs>>
      /\ job[p].refs[i[p]] = Elsewhere
  BY DEF NotRecognized, SkipReference, Goto, TypeOK, Ref
<1>2. i[p] \in Nat /\ Len(job[p].refs) \in Nat
  BY JobType DEF TypeOK
<1>3. /\ \A c : Indexed(p, c)' = Indexed(p, c)
      /\ \A n : First(p, n)' = First(p, n)
  BY <1>1 DEF Indexed, First
<1>4. DiskInv(p)'
  BY <1>1, <1>3 DEF DiskInv, Taken, Fetching
<1>5. ASSUME NEW n \in 1..Len(job[p].refs), n < i[p] + 1
      PROVE  job[p].refs[n] \in seen[p] \cup {Elsewhere} /\ Counted(p, n)'
  <2>1. CASE n < i[p]
    BY <1>1, <1>2, <1>3, <2>1 DEF LoopInv, Counted
  <2>2. CASE n = i[p]
    BY <1>1, <2>2 DEF Counted
  <2> QED
    BY <1>2, <1>5, <2>1, <2>2
<1>6. \A n \in skipped'[p] : n < i'[p]
  BY <1>1, <1>2 DEF LoopInv, TypeOK
<1>7. \A c \in seen[p] : \E n \in 1..Len(job[p].refs) : job[p].refs[n] = c /\ n < i'[p]
  BY <1>1, <1>2 DEF LoopInv, Taken, Fetching
<1>8. LoopInv(p)'
  BY <1>1, <1>5, <1>6, <1>7 DEF LoopInv
<1> QED
  BY <1>4, <1>8

\* A reference passed over is no first mention, or the primary.
LEMMA PassOverLoop ==
    ASSUME TypeOK, NEW p \in Procs, DiskInv(p), LoopInv(p), PassOver(p)
    PROVE  DiskInv(p)' /\ LoopInv(p)'
<1>1. /\ i'[p] = i[p] + 1 /\ at[p] = "next" /\ at'[p] = "next"
      /\ seen'[p] = seen[p] \cup {Ref(p)} /\ UNCHANGED <<job, skipped, index, dirs>>
      /\ i[p] \leq Len(job[p].refs) /\ Ref(p) # Elsewhere
      /\ Ref(p) \in seen[p] \/ Ref(p) = job[p].primary
  BY DEF PassOver, TypeOK
<1>2. i[p] \in Nat \ {0} /\ Len(job[p].refs) \in Nat
  BY JobType DEF TypeOK
<1>3. /\ \A c : Indexed(p, c)' = Indexed(p, c)
      /\ \A n : First(p, n)' = First(p, n)
  BY <1>1 DEF Indexed, First
<1>4. DiskInv(p)'
  BY <1>1, <1>3 DEF DiskInv, Taken, Fetching
<1>5. First(p, i[p]) => Ref(p) = job[p].primary
  <2> SUFFICES ASSUME Ref(p) \in seen[p] PROVE ~First(p, i[p])
    BY <1>1
  <2>1. PICK n \in 1..Len(job[p].refs) : job[p].refs[n] = Ref(p) /\ n < i[p]
    BY <1>1 DEF LoopInv, Taken, Fetching
  <2> QED
    BY <1>2, <2>1 DEF First, Ref
<1>6. ASSUME NEW n \in 1..Len(job[p].refs), n < i[p] + 1
      PROVE  job[p].refs[n] \in seen'[p] \cup {Elsewhere} /\ Counted(p, n)'
  <2>1. CASE n < i[p]
    BY <1>1, <1>2, <1>3, <2>1 DEF LoopInv, Counted
  <2>2. CASE n = i[p]
    <3>1. n \notin skipped[p]
      BY <1>2, <2>2 DEF LoopInv
    <3> QED
      BY <1>1, <1>3, <1>5, <2>2, <3>1 DEF Counted, Ref
  <2> QED
    BY <1>2, <1>6, <2>1, <2>2
<1>7. \A n \in skipped'[p] : n < i'[p]
  BY <1>1, <1>2 DEF LoopInv, TypeOK
<1>8. \A c \in seen'[p] : \E n \in 1..Len(job[p].refs) : job[p].refs[n] = c /\ n < i'[p]
  <2>1. i[p] \in 1..Len(job[p].refs) /\ job[p].refs[i[p]] = Ref(p) /\ i[p] < i'[p]
    BY <1>1, <1>2 DEF Ref
  <2>2. \A c \in seen[p] : \E n \in 1..Len(job[p].refs) : job[p].refs[n] = c /\ n < i'[p]
    BY <1>1, <1>2 DEF LoopInv, Taken, Fetching
  <2> QED
    BY <1>1, <2>1, <2>2
<1>9. LoopInv(p)'
  BY <1>1, <1>6, <1>7, <1>8 DEF LoopInv
<1> QED
  BY <1>4, <1>9

LEMMA TakeUpLoop ==
    ASSUME TypeOK, NEW p \in Procs, DiskInv(p), LoopInv(p), TakeUp(p)
    PROVE  DiskInv(p)' /\ LoopInv(p)'
<1>1. /\ at[p] = "next" /\ at'[p] = "get"
      /\ seen'[p] = seen[p] \cup {Ref(p)} /\ UNCHANGED <<job, i, skipped, index, dirs>>
      /\ i[p] \leq Len(job[p].refs) /\ Ref(p) # Elsewhere
      /\ Ref(p) \notin seen[p] /\ Ref(p) # job[p].primary
  BY DEF TakeUp, Goto, TypeOK
<1>2. i[p] \in Nat \ {0} /\ Len(job[p].refs) \in Nat /\ Ref(p) \in Coords
  BY <1>1, JobType, RefType DEF TypeOK
<1>3. /\ \A c : Indexed(p, c)' = Indexed(p, c)
      /\ \A n : First(p, n)' = First(p, n)
      /\ \A n : Counted(p, n)' = Counted(p, n)
      /\ Ref(p)' = Ref(p)
  BY <1>1 DEF Indexed, First, Counted, Ref
<1>4. First(p, i[p])
  <2> SUFFICES ASSUME NEW n \in 1..(i[p] - 1) PROVE job[p].refs[n] # Ref(p)
    BY DEF First, Ref
  <2>1. n \in 1..Len(job[p].refs) /\ n < i[p]
    BY <1>1, <1>2
  <2> QED
    BY <1>1, <2>1 DEF LoopInv
<1>5. dirs[p][Ref(p)] = "none"
  BY <1>1, <1>2 DEF DiskInv
<1>6. DiskInv(p)'
  BY <1>1, <1>3, <1>4, <1>5 DEF DiskInv
<1>7. \A c \in seen'[p] : \E n \in 1..Len(job[p].refs) :
          job[p].refs[n] = c /\ (n < i[p] \/ n = i[p])
  <2>1. i[p] \in 1..Len(job[p].refs) /\ job[p].refs[i[p]] = Ref(p)
    BY <1>1, <1>2 DEF Ref
  <2>2. \A c \in seen[p] : \E n \in 1..Len(job[p].refs) : job[p].refs[n] = c /\ n < i[p]
    BY <1>1 DEF LoopInv, Taken, Fetching
  <2> QED
    BY <1>1, <2>1, <2>2
<1>8. LoopInv(p)'
  BY <1>1, <1>3, <1>7 DEF LoopInv, Taken
<1> QED
  BY <1>6, <1>8

\* What a bundle that is being written contains.
LEMMA WritableContent ==
    ASSUME NEW c \in Coords, Content[c] \notin {"empty", "unsafe", "absent"}
    PROVE  Content[c] \in {"file", "imports"}
BY DEF Kinds

LEMMA WriteLoop ==
    ASSUME TypeOK, NEW p \in Procs, FetchInv(p), DiskInv(p), LoopInv(p), WriteReference(p)
    PROVE  DiskInv(p)' /\ LoopInv(p)'
<1>1. at[p] = "write" /\ at[p] \in Taken /\ UNCHANGED <<job, seen, index>>
  BY DEF WriteReference, Taken, Fetching
<1>2. Content[Ref(p)] \notin {"empty", "unsafe"} => Content[Ref(p)] \in {"file", "imports"}
  BY <1>1, WritableContent, TakenFacts DEF FetchInv
<1>3. CASE SkipReference(p)
  BY <1>1, <1>2, <1>3, SkipLoop DEF WriteReference
<1>4. CASE /\ OnDisk(p, "part") /\ Goto(p, "finish") /\ UNCHANGED <<i, skipped>>
           /\ Content[Ref(p)] \in {"file", "imports"}
  <2>1. /\ at'[p] = "finish" /\ Ref(p)' = Ref(p) /\ Ref(p) \in Coords
        /\ \A c \in Coords : dirs'[p][c] = IF c = Ref(p) THEN "part" ELSE dirs[p][c]
    BY <1>1, <1>4, TakenFacts DEF Goto, OnDisk, TypeOK, Ref
  <2>2. /\ \A c : Indexed(p, c)' = Indexed(p, c)
        /\ \A n : First(p, n)' = First(p, n)
        /\ \A n : Counted(p, n)' = Counted(p, n)
    BY <1>1, <1>4 DEF Indexed, First, Counted
  <2>3. DiskInv(p)'
    <3>1. /\ Ref(p) \in seen[p] /\ Ref(p) # job[p].primary /\ First(p, i[p])
          /\ dirs[p][Ref(p)] = "none"
      BY <1>1 DEF DiskInv
    <3> QED
      BY <1>1, <1>4, <2>1, <2>2, <3>1 DEF DiskInv
  <2>4. LoopInv(p)'
    BY <1>1, <1>4, <2>1, <2>2 DEF LoopInv, Taken, Fetching
  <2> QED
    BY <2>3, <2>4
<1> QED
  BY <1>2, <1>3, <1>4 DEF WriteReference

\* A reference that was taken up gets its row.
LEMMA FinishLoop ==
    ASSUME TypeOK, NEW p \in Procs, DiskInv(p), LoopInv(p), FinishReference(p)
    PROVE  DiskInv(p)' /\ LoopInv(p)'
<1>1. at[p] = "finish" /\ at[p] \in Taken /\ UNCHANGED <<job, seen>>
  BY DEF FinishReference, Taken, Fetching
<1>2. CASE SkipReference(p) /\ UNCHANGED <<index, dirs>>
  BY <1>1, <1>2, SkipLoop
<1>3. CASE /\ OnDisk(p, "whole") /\ index' = [index EXCEPT ![p] = Append(@, Ref(p))]
           /\ i' = [i EXCEPT ![p] = @ + 1] /\ Goto(p, "next") /\ skipped' = skipped
  <2> DEFINE ref == Ref(p)
             n0 == i[p]
             rows == index[p]
  <2>1. /\ n0 \in 1..Len(job[p].refs) /\ job[p].refs[n0] = ref /\ ref \in Coords
        /\ n0 \notin skipped[p]
        /\ \A n \in 1..Len(job[p].refs) : n < n0 => job[p].refs[n] # ref
    BY <1>1, TakenFacts
  <2>2. n0 \in Nat /\ Len(job[p].refs) \in Nat /\ rows \in Seq(Coords) /\ Len(rows) \in Nat
    BY JobType DEF TypeOK
  <2>3. /\ i'[p] = n0 + 1 /\ at'[p] = "next" /\ index'[p] = Append(rows, ref)
        /\ \A c \in Coords : dirs'[p][c] = IF c = ref THEN "whole" ELSE dirs[p][c]
    BY <1>3, <2>1 DEF Goto, OnDisk, TypeOK
  <2>4. /\ Len(index'[p]) = Len(rows) + 1 /\ index'[p][Len(rows) + 1] = ref
        /\ \A k \in 1..Len(rows) : index'[p][k] = rows[k]
    BY <2>2, <2>3
  <2>5. \A c \in Coords : Indexed(p, c)' <=> Indexed(p, c) \/ c = ref
    BY <2>2, <2>4, SMTT(30) DEF Indexed
  <2>6. \A n : First(p, n)' = First(p, n)
    BY <1>1 DEF First
  <2>7. DiskInv(p)'
    <3>1. ref \in seen[p] /\ Content[ref] \in {"file", "imports"}
      BY <1>1, <2>1 DEF DiskInv
    <3> QED
      BY <1>1, <2>3, <2>5, <3>1 DEF DiskInv, Taken, Fetching
  <2>8. ASSUME NEW n \in 1..Len(job[p].refs), n < n0 + 1
        PROVE  job[p].refs[n] \in seen[p] \cup {Elsewhere} /\ Counted(p, n)'
    <3>1. CASE n < n0
      <4>1. job[p].refs[n] # ref /\ job[p].refs[n] \in Coords \cup {Elsewhere}
        BY <2>1, <3>1, JobType
      <4>2. job[p].refs[n] # Elsewhere =>
                (Indexed(p, job[p].refs[n])' <=> Indexed(p, job[p].refs[n]))
        BY <1>1, <2>5, <4>1 DEF Indexed
      <4>3. job[p].refs[n] \in seen[p] \cup {Elsewhere} /\ Counted(p, n)
        BY <3>1 DEF LoopInv
      <4> QED
        BY <1>1, <1>3, <2>6, <4>2, <4>3 DEF Counted, Indexed
    <3>2. CASE n = n0
      <4>1. ref \in seen[p] /\ ref # Elsewhere /\ ref # job[p].primary /\ First(p, n)
        BY <1>1, <2>1, <3>2 DEF DiskInv
      <4>2. Indexed(p, job[p].refs[n])'
        BY <1>1, <2>1, <2>4, <3>2 DEF Indexed
      <4> QED
        BY <1>1, <1>3, <2>1, <3>2, <4>1, <4>2 DEF Counted
    <3> QED
      BY <2>2, <2>8, <3>1, <3>2
  <2>9. \A n \in skipped[p] : n < i'[p]
    BY <2>2, <2>3 DEF LoopInv, TypeOK
  <2>10. \A c \in seen[p] : \E n \in 1..Len(job[p].refs) : job[p].refs[n] = c /\ n < i'[p]
    BY <1>1, <2>2, <2>3 DEF LoopInv
  <2>11. \A k, m \in 1..Len(index'[p]) : index'[p][k] = index'[p][m] => k = m
    <3>1. ~Indexed(p, ref)
      BY <1>1, TakenFacts
    <3>2. \A k \in 1..Len(rows) : index'[p][k] # ref
      BY <2>4, <3>1 DEF Indexed
    <3>3. \A k, m \in 1..Len(rows) : rows[k] = rows[m] => k = m
      BY DEF LoopInv
    <3> QED
      BY <2>2, <2>4, <3>2, <3>3, SMTT(30)
  <2>12. LoopInv(p)'
    BY <1>1, <1>3, <2>3, <2>8, <2>9, <2>10, <2>11 DEF LoopInv
  <2> QED
    BY <2>7, <2>12
<1> QED
  BY <1>2, <1>3 DEF FinishReference

LEMMA StepLoop ==
    ASSUME TypeOK, NEW p \in Procs, FetchInv(p), DiskInv(p), LoopInv(p), Step(p) \/ Abort(p)
    PROVE  DiskInv(p)' /\ LoopInv(p)'
<1> USE DEF Goto, Taken, Fetching
<1>1. CASE Begin(p) \/ PrimaryHit(p) \/ PrimaryPull(p) \/ PutPrimary(p)
  <2>1. /\ UNCHANGED <<job, i, seen, skipped, index, dirs>>
        /\ at[p] \in {"idle", "primary", "putPrimary"}
        /\ \/ at'[p] \in {"primary", "putPrimary", "next", "failed"}
           \/ at'[p] = "done" /\ job[p].name # "unpack"
    BY <1>1 DEF Begin, PrimaryHit, PrimaryPull, PutPrimary, AfterPrimary, TypeOK
  <2> QED
    BY <2>1, QuietLoop
<1>2. CASE EndLoop(p)
  <2>1. /\ UNCHANGED <<job, i, seen, skipped, index, dirs>>
        /\ at[p] = "next" /\ at'[p] \in {"done", "index"} /\ i[p] > Len(job[p].refs)
    BY <1>2 DEF EndLoop, TypeOK
  <2> QED
    BY <2>1, QuietLoop
<1>3. CASE WriteIndex(p) \/ Abort(p)
  <2>1. /\ UNCHANGED <<job, i, seen, skipped, index, dirs>>
        /\ at'[p] = "failed" \/ (at[p] = "index" /\ at'[p] = "done")
        /\ at[p] = "failed" => at'[p] = "failed"
    BY <1>3 DEF WriteIndex, Abort, TypeOK, Ended
  <2>2. CASE at'[p] = "failed"
    BY <2>1, <2>2, FailLoop
  <2>3. CASE at[p] = "index" /\ at'[p] = "done"
    <3>1. i[p] > Len(job[p].refs)
      BY <2>3 DEF LoopInv
    <3> QED
      BY <2>1, <2>3, <3>1, QuietLoop
  <2> QED
    BY <2>1, <2>2, <2>3
<1>4. CASE GetReference(p) \/ HealLicense(p) \/ PutHealed(p) \/ LookUpLicense(p) \/ PutReference(p)
  <2>1. /\ UNCHANGED <<job, i, seen, skipped, index, dirs>>
        /\ at[p] \in {"get", "heal", "putHealed", "license", "put"}
        /\ at'[p] \in {"heal", "putHealed", "license", "host", "write"}
    BY <1>4 DEF GetReference, HealLicense, PutHealed, LookUpLicense, PutReference, TypeOK
  <2> QED
    BY <2>1, QuietLoop
<1>5. CASE ResolveRegistryHost(p) \/ MintRefPullToken(p) \/ PullReference(p)
  <2>1. UNCHANGED <<job, seen, index, dirs>> /\ at[p] \in {"host", "mint", "pull"}
    BY <1>5 DEF ResolveRegistryHost, MintRefPullToken, PullReference
  <2>2. CASE SkipReference(p)
    BY <2>1, <2>2, SkipLoop
  <2>3. CASE UNCHANGED <<i, skipped>> /\ at'[p] \in {"mint", "pull", "put"}
    BY <2>1, <2>3, QuietLoop
  <2> QED
    BY <1>5, <2>2, <2>3 DEF ResolveRegistryHost, MintRefPullToken, PullReference, TypeOK
<1> QED
  BY <1>1, <1>2, <1>3, <1>4, <1>5, NotRecognizedLoop, PassOverLoop, TakeUpLoop,
     WriteLoop, FinishLoop DEF Step

LEMMA NextLoop ==
    ASSUME TypeOK, Carried, \A p \in Procs : DiskInv(p) /\ LoopInv(p), [Next]_vars
    PROVE  \A p \in Procs : DiskInv(p)' /\ LoopInv(p)'
<1>1. ASSUME NEW p \in Procs, Step(p) \/ Abort(p), NEW q \in Procs
      PROVE  DiskInv(q)' /\ LoopInv(q)'
  <2>1. CASE q = p
    BY <1>1, <2>1, StepLoop DEF Carried
  <2>2. CASE q # p
    <3>1. job' = job /\ Same(q)
      BY <1>1, <2>2, Frame
    <3> QED
      BY <3>1, QuietLoop DEF Same, LoopInv
  <2> QED
    BY <2>1, <2>2
<1>2. ASSUME UNCHANGED local, NEW q \in Procs PROVE DiskInv(q)' /\ LoopInv(q)'
  BY <1>2, QuietLoop DEF local, LoopInv
<1> QED
  BY <1>1, <1>2 DEF Next, Lose, List, Yank, vars

Accounted == \A p \in Procs : DiskInv(p) /\ LoopInv(p)

LEMMA ReferencesAccounted == Spec => []Accounted
<1>1. Init => Accounted
  BY InitLoop DEF Accounted
<1>2. TypeOK /\ Carried /\ Accounted /\ [Next]_vars => Accounted'
  BY NextLoop DEF Accounted
<1> QED
  BY <1>1, <1>2, ReferencesTypeOK, ReferencesCarried, PTL DEF Spec

\* The index lists exactly the references that are whole on disk, and nothing
\* of a refused bundle is ever written (writeReference).
THEOREM ReferencesIndexMatchesDisk == Spec => []IndexMatchesDisk
<1>1. Accounted => IndexMatchesDisk
  BY DEF Accounted, DiskInv, IndexMatchesDisk
<1> QED
  BY <1>1, ReferencesAccounted, PTL

\* When resolution has ended, every reference is in the index, skipped, a
\* repetition or the primary, for lists of any length (resolveReferences).
THEOREM ReferencesEveryReferenceAccounted == Spec => []EveryReferenceAccounted
<1>1. TypeOK /\ Accounted => EveryReferenceAccounted
  <2> SUFFICES ASSUME TypeOK, Accounted, NEW p \in Procs, at[p] = "done", job[p].name = "unpack"
               PROVE  /\ \A n \in 1..Len(job[p].refs) : Counted(p, n)
                      /\ \A k, m \in 1..Len(index[p]) : index[p][k] = index[p][m] => k = m
    BY DEF EveryReferenceAccounted, Counted
  <2>1. i[p] \in Nat /\ Len(job[p].refs) \in Nat /\ i[p] > Len(job[p].refs) /\ LoopInv(p)
    BY JobType, ZenonT(60) DEF TypeOK, Accounted, LoopInv
  <2>2. ASSUME NEW n \in 1..Len(job[p].refs) PROVE Counted(p, n)
    <3>1. n < i[p]
      BY <2>1
    <3> QED
      BY <2>1, <3>1 DEF LoopInv
  <2> QED
    BY <2>1, <2>2 DEF LoopInv
<1> QED
  BY <1>1, ReferencesTypeOK, ReferencesAccounted, PTL
=============================================================================
