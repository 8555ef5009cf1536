------------------------- MODULE ArtifactCacheProofs -------------------------
(***************************************************************************)
(* Proofs about module ArtifactCache, for any number of processes, slots,  *)
(* blobs and entries.                                                      *)
(***************************************************************************)
EXTENDS ArtifactCache, TLAPS

USE LastAssumption, EntriesAssumption, DistinctAssumption

(***************************************************************************)
(* Hits.  The inductive invariant follows a lookup: the meta.json it       *)
(* decoded is an entry somebody put, and the blobs it has read so far are  *)
(* the ones that meta.json records.                                        *)
(***************************************************************************)
Types ==
    /\ disk \in [1..Meta -> Blobs \cup Entries \cup Junk]
    /\ \A i \in Slots : disk[i] \in Blobs \cup Junk
    /\ disk[Meta] \in offered \cup Junk
    /\ op \in [Procs -> {"idle", "truncate", "fill", "open", "read"}]
    /\ pos \in [Procs -> 1..Meta]
    /\ arg \in [Procs -> Entries \cup {NoEntry}]
    /\ got \in [Procs -> [Slots -> Blobs \cup {NoBlob}]]
    /\ offered \subseteq Entries
    /\ alone \subseteq Procs
    /\ settled \in Entries \cup {NoEntry}
    /\ broken \subseteq Procs

ProcInv(p) ==
    /\ op[p] \in {"truncate", "fill", "read"} => arg[p] \in offered
    /\ op[p] = "fill" => Want(arg[p], pos[p]) # NoBlob
    /\ op[p] = "read" =>
          \A i \in Slots : got[p][i] = IF i < pos[p] THEN arg[p].blobs[i] ELSE NoBlob
    /\ \/ res[p] \in {NoAnswer, Miss, Corrupt}
       \/ \E e \in offered : res[p] = Hit(e)

GetInv ==
    /\ DOMAIN res = Procs
    /\ \A p \in Procs : ProcInv(p)

HitInv == Types /\ GetInv

LEMMA InitHitInv == Init => HitInv
BY DEF Init, HitInv, Types, GetInv, ProcInv, NothingRead, Slots, Meta, Junk

\* A lookup that has read every recorded blob returns the entry it decoded.
LEMMA WholeEntry ==
    ASSUME NEW e \in Entry, NEW g \in [Slots -> Blobs \cup {NoBlob}],
           \A i \in Slots : g[i] = e.blobs[i]
    PROVE  [blobs |-> g, info |-> e.info] = e
<1>1. e = [blobs |-> e.blobs, info |-> e.info] /\ e.blobs \in [Slots -> Blobs \cup {NoBlob}]
  BY DEF Entry
<1>2. g = e.blobs
  BY <1>1
<1> QED
  BY <1>1, <1>2

\* The part of the invariant about a process is disturbed only by that process.
LEMMA OtherProc ==
    ASSUME NEW q \in Procs, ProcInv(q), offered \subseteq offered',
           op'[q] = op[q], pos'[q] = pos[q], arg'[q] = arg[q],
           got'[q] = got[q], res'[q] = res[q]
    PROVE  ProcInv(q)'
BY DEF ProcInv, Want

\* A call that returns resets the process's locals.
LEMMA LeaveHitInv ==
    ASSUME HitInv, NEW p \in Procs, Leave(p),
           offered' = offered, alone' = alone,
           settled' \in Entries \cup {NoEntry}, broken' \subseteq Procs,
           disk' \in [1..Meta -> Blobs \cup Entries \cup Junk],
           \A i \in Slots : disk'[i] \in Blobs \cup Junk,
           disk'[Meta] \in offered \cup Junk,
           DOMAIN res' = Procs,
           \A q \in Procs \ {p} : res'[q] = res[q],
           \/ res'[p] \in {NoAnswer, Miss, Corrupt}
           \/ \E e \in offered : res'[p] = Hit(e)
    PROVE  HitInv'
<1> USE DEF HitInv, Types, GetInv, Leave
<1>1. Types'
  BY DEF NothingRead, Slots, Meta
<1>2. ProcInv(p)'
  BY DEF ProcInv
<1>3. \A q \in Procs \ {p} : ProcInv(q)'
  BY OtherProc
<1> QED
  BY <1>1, <1>2, <1>3

LEMMA NextHitInv == HitInv /\ [Next]_vars => HitInv'
<1> SUFFICES ASSUME HitInv, [Next]_vars PROVE HitInv'
  OBVIOUS
<1> USE DEF HitInv, Types, GetInv, history, Slots, Meta
<1>1. ASSUME NEW p \in Procs, NEW e \in Entries, BeginPut(p, e) PROVE HitInv'
  <2>1. ProcInv(p)'
    BY <1>1 DEF BeginPut, ProcInv
  <2>2. \A q \in Procs \ {p} : ProcInv(q)'
    BY <1>1, OtherProc DEF BeginPut
  <2> QED
    BY <1>1, <2>1, <2>2 DEF BeginPut
<1>2. ASSUME NEW p \in Procs, BeginGet(p) PROVE HitInv'
  <2>1. ProcInv(p)'
    BY <1>2 DEF BeginGet, ProcInv
  <2>2. \A q \in Procs \ {p} : ProcInv(q)'
    BY <1>2, OtherProc DEF BeginGet
  <2> QED
    BY <1>2, <2>1, <2>2 DEF BeginGet
<1>3. ASSUME NEW p \in Procs, SkipSlot(p) PROVE HitInv'
  <2>1. ProcInv(p)'
    BY <1>3 DEF SkipSlot, ProcInv
  <2>2. \A q \in Procs \ {p} : ProcInv(q)'
    BY <1>3, OtherProc DEF SkipSlot
  <2> QED
    BY <1>3, <2>1, <2>2 DEF SkipSlot
<1>4. ASSUME NEW p \in Procs, Truncate(p) PROVE HitInv'
  <2>1. ProcInv(p)'
    BY <1>4 DEF Truncate, ProcInv, Want
  <2>2. \A q \in Procs \ {p} : ProcInv(q)'
    BY <1>4, OtherProc DEF Truncate
  <2> QED
    BY <1>4, <2>1, <2>2 DEF Truncate, Junk
<1>5. ASSUME NEW p \in Procs, Fill(p) PROVE HitInv'
  <2>1. PICK c \in Overlay(disk[pos[p]], Want(arg[p], pos[p])) :
            disk' = [disk EXCEPT ![pos[p]] = c]
    BY <1>5 DEF Fill
  <2>2. c = Want(arg[p], pos[p]) \/ c = Torn
    BY DEF Overlay
  <2>3. arg[p] \in offered /\ arg[p] \in Entry /\ Want(arg[p], pos[p]) # NoBlob
    BY <1>5 DEF Fill, ProcInv
  <2>4. /\ disk' \in [1..Meta -> Blobs \cup Entries \cup Junk]
        /\ \A i \in Slots : disk'[i] \in Blobs \cup Junk
        /\ disk'[Meta] \in offered \cup Junk
    <3>1. CASE pos[p] = Meta
      BY <2>1, <2>2, <2>3, <3>1 DEF Want, Junk
    <3>2. CASE pos[p] # Meta
      <4>1. pos[p] \in Slots /\ arg[p].blobs[pos[p]] \in Blobs
        BY <2>3, <3>2 DEF Want, Entry
      <4> QED
        BY <2>1, <2>2, <3>2, <4>1 DEF Want, Junk
    <3> QED
      BY <3>1, <3>2
  <2>5. CASE pos[p] = Meta
    <3>1. /\ Leave(p) /\ offered' = offered /\ alone' = alone /\ res' = res
          /\ broken' = broken
          /\ settled' \in Entries \cup {NoEntry}
      BY <1>5, <2>3, <2>5 DEF Fill
    <3>2. res[p] \in {NoAnswer, Miss, Corrupt} \/ \E e \in offered : res[p] = Hit(e)
      BY DEF ProcInv
    <3> QED
      BY <2>4, <3>1, <3>2, LeaveHitInv
  <2>6. CASE pos[p] # Meta
    <3>1. ProcInv(p)'
      BY <1>5, <2>6 DEF Fill, ProcInv
    <3>2. \A q \in Procs \ {p} : ProcInv(q)'
      BY <1>5, <2>6, OtherProc DEF Fill
    <3>3. /\ op' = [op EXCEPT ![p] = "truncate"]
          /\ pos' = [pos EXCEPT ![p] = @ + 1]
          /\ UNCHANGED <<arg, got, res, history>>
      BY <1>5, <2>6 DEF Fill
    <3>4. Types'
      BY <2>4, <2>6, <3>3
    <3> QED
      BY <3>1, <3>2, <3>3, <3>4
  <2> QED
    BY <2>5, <2>6
<1>6. ASSUME NEW p \in Procs, AbandonPut(p) PROVE HitInv'
  <2>1. /\ disk' \in [1..Meta -> Blobs \cup Entries \cup Junk]
        /\ \A i \in Slots : disk'[i] \in Blobs \cup Junk
        /\ disk'[Meta] \in offered \cup Junk
    <3>1. CASE UNCHANGED disk
      BY <3>1
    <3>2. CASE disk' = [disk EXCEPT ![pos[p]] = Torn]
      BY <3>2 DEF Junk
    <3> QED
      BY <1>6, <3>1, <3>2 DEF AbandonPut
  <2>2. res[p] \in {NoAnswer, Miss, Corrupt} \/ \E e \in offered : res[p] = Hit(e)
    BY DEF ProcInv
  <2> QED
    BY <1>6, <2>1, <2>2, LeaveHitInv DEF AbandonPut
<1>7. ASSUME NEW p \in Procs, ReadMeta(p) PROVE HitInv'
  <2>1. CASE Return(p, Miss) \/ Return(p, Corrupt)
    BY <1>7, <2>1, LeaveHitInv DEF ReadMeta, Return
  <2>2. CASE /\ disk[Meta] \in Entry
             /\ op' = [op EXCEPT ![p] = "read"]
             /\ pos' = [pos EXCEPT ![p] = 1]
             /\ arg' = [arg EXCEPT ![p] = disk[Meta]]
             /\ got' = [got EXCEPT ![p] = NothingRead]
             /\ UNCHANGED res
    <3>1. disk[Meta] \in offered
      BY <2>2 DEF Junk
    <3>2. UNCHANGED <<disk, history>>
      BY <1>7 DEF ReadMeta
    <3>3. ProcInv(p)'
      BY <2>2, <3>1, <3>2 DEF ProcInv, NothingRead
    <3>4. \A q \in Procs \ {p} : ProcInv(q)'
      BY <2>2, <3>2, OtherProc
    <3> QED
      BY <2>2, <3>1, <3>2, <3>3, <3>4 DEF NothingRead
  <2> QED
    BY <1>7, <2>1, <2>2 DEF ReadMeta
<1>8. ASSUME NEW p \in Procs, ReadBlob(p) PROVE HitInv'
  <2> DEFINE i == pos[p]
             blob == arg[p].blobs[i]
  <2>1. i \in Slots /\ arg[p] \in offered /\ blob \in Blobs \cup {NoBlob}
    BY <1>8 DEF ReadBlob, Entry, ProcInv
  <2>2. op[p] = "read" /\ UNCHANGED <<disk, history>>
    BY <1>8 DEF ReadBlob
  <2>3. CASE /\ blob = NoBlob \/ (blob # NoBlob /\ disk[i] = blob)
             /\ got' = [got EXCEPT ![p][i] = blob]
             /\ pos' = [pos EXCEPT ![p] = @ + 1]
             /\ UNCHANGED <<op, arg, res>>
    <3>1. \A j \in Slots : got'[p][j] = IF j < pos'[p] THEN arg[p].blobs[j] ELSE NoBlob
      BY <2>1, <2>2, <2>3 DEF ProcInv
    <3>2. ProcInv(p)'
      BY <2>1, <2>2, <2>3, <3>1 DEF ProcInv
    <3>3. \A q \in Procs \ {p} : ProcInv(q)'
      BY <2>2, <2>3, OtherProc
    <3> QED
      BY <2>1, <2>2, <2>3, <3>2, <3>3
  <2>4. CASE Return(p, Corrupt)
    BY <2>2, <2>4, LeaveHitInv DEF Return
  <2>5. blob = NoBlob => got[p] = [got[p] EXCEPT ![i] = blob]
    BY <2>1, <2>2 DEF ProcInv
  <2>6. CASE blob = NoBlob /\ pos' = [pos EXCEPT ![p] = @ + 1]
             /\ UNCHANGED <<op, arg, got, res>>
    BY <2>3, <2>5, <2>6
  <2>7. CASE blob # NoBlob /\ disk[i] = blob /\ got' = [got EXCEPT ![p][i] = disk[i]]
             /\ pos' = [pos EXCEPT ![p] = @ + 1] /\ UNCHANGED <<op, arg, res>>
    BY <2>3, <2>7
  <2> QED
    BY ONLY <1>8, <2>4, <2>6, <2>7 DEF ReadBlob, Intact
<1>9. ASSUME NEW p \in Procs, FinishGet(p) PROVE HitInv'
  <2>1. arg[p] \in offered /\ \A i \in Slots : got[p][i] = arg[p].blobs[i]
    BY <1>9 DEF FinishGet, ProcInv
  <2>2. [blobs |-> got[p], info |-> arg[p].info] = arg[p]
    BY <2>1, WholeEntry
  <2> QED
    BY <1>9, <2>1, <2>2, LeaveHitInv DEF FinishGet, Return
<1>10. ASSUME NEW p \in Procs, FailGet(p) PROVE HitInv'
  BY <1>10, LeaveHitInv DEF FailGet, Return
<1>11. CASE UNCHANGED vars
  BY <1>11, OtherProc DEF vars
<1> QED
  BY <1>1, <1>2, <1>3, <1>4, <1>5, <1>6, <1>7, <1>8, <1>9, <1>10, <1>11
  DEF Next, Work

LEMMA CacheHitInv == Spec => []HitInv
BY InitHitInv, NextHitInv, PTL DEF Spec

\* The directory, and the locals of every process, hold what they should.
THEOREM CacheTypeOK == Spec => []TypeOK
<1>1. HitInv => TypeOK
  BY DEF HitInv, Types, GetInv, ProcInv, TypeOK
<1> QED
  BY CacheHitInv, <1>1, PTL

\* However many processes share the entry, and whatever is killed half way, a
\* hit is an entry that was put, whole.
THEOREM CacheHitWasPut == Spec => []HitWasPut
<1>1. HitInv => HitWasPut
  BY DEF HitInv, GetInv, ProcInv, HitWasPut, Hit, NoAnswer, Miss, Corrupt
<1> QED
  BY CacheHitInv, <1>1, PTL

(***************************************************************************)
(* Refinement: the directory with its unlocked readers and writers is the  *)
(* register of module EntryStore.  A put takes effect when meta.json is    *)
(* whole; a lookup reads the register when it decodes meta.json, and the   *)
(* digests it then checks make the files it returns that entry's.          *)
(***************************************************************************)
Calls == [p \in Procs |-> Call(p)]

\* A step of p that changes its call to c, and no other process's.
LEMMA CallBecomes ==
    ASSUME NEW p \in Procs, NEW c, Call(p)' = c,
           \A q \in Procs \ {p} : op'[q] = op[q] /\ arg'[q] = arg[q]
    PROVE  Calls' = [Calls EXCEPT ![p] = c]
<1>1. \A q \in Procs \ {p} : Call(q)' = Call(q)
  BY DEF Call, Putting
<1> QED
  BY <1>1 DEF Calls

\* A step that changes no process's call.
LEMMA CallsStay ==
    ASSUME \A q \in Procs : Call(q)' = Call(q)
    PROVE  Calls' = Calls
BY DEF Calls

\* What each kind of call maps to.
LEMMA CallKinds ==
    ASSUME NEW p \in Procs
    PROVE  /\ op[p] = "idle" => Calls[p] = S!Idle
           /\ Putting(p) => Calls[p] = S!Storing(arg[p])
           /\ op[p] = "open" => Calls[p] = S!Asking
           /\ op[p] = "read" => Calls[p] = S!Found(arg[p])
BY DEF Calls, Call, Putting, S!Idle, S!Storing, S!Asking, S!Found

\* A put step that leaves meta.json alone and stays a put of the same entry.
LEMMA PutStutters ==
    ASSUME NEW p \in Procs, Putting(p), Putting(p)', arg'[p] = arg[p],
           \A q \in Procs \ {p} : op'[q] = op[q] /\ arg'[q] = arg[q],
           disk'[Meta] = disk[Meta], res' = res
    PROVE  UNCHANGED S!vars
<1>1. \A q \in Procs : Call(q)' = Call(q)
  BY DEF Call, Putting
<1>2. Calls' = Calls /\ Current' = Current
  BY <1>1, CallsStay DEF Current
<1> QED
  BY <1>2 DEF S!vars, Calls

\* A return of a lookup that answers nothing, or the entry it found.
LEMMA ReturnAnswers ==
    ASSUME HitInv, NEW p \in Procs, Getting(p), NEW a, Return(p, a), disk' = disk,
           \/ a \in {Miss, Corrupt}
           \/ op[p] = "read" /\ a = Hit(arg[p])
    PROVE  S!Answer(p)
<1>1. /\ op' = [op EXCEPT ![p] = "idle"] /\ arg' = [arg EXCEPT ![p] = NoEntry]
      /\ res' = [res EXCEPT ![p] = a]
  BY DEF Return, Leave
<1>2. Call(p)' = S!Idle
  BY <1>1 DEF HitInv, Types, Call, Putting, S!Idle
<1>3. Calls' = [Calls EXCEPT ![p] = S!Idle]
  BY <1>1, <1>2, CallBecomes
<1>4. Current' = Current
  BY DEF Current
<1>5. \/ Calls[p] = S!Asking /\ a \in S!Nothing
      \/ /\ arg[p] \in Entries /\ Calls[p] = S!Found(arg[p])
         /\ a \in S!Nothing \cup {S!Hit(arg[p])}
  <2>1. Miss \in S!Nothing /\ Corrupt \in S!Nothing /\ Hit(arg[p]) = S!Hit(arg[p])
    BY DEF Miss, Corrupt, S!Nothing, Hit, S!Hit
  <2>2. op[p] = "read" => arg[p] \in Entries
    BY DEF HitInv, Types, GetInv, ProcInv
  <2> QED
    BY <2>1, <2>2, CallKinds DEF Getting
<1> QED
  BY <1>1, <1>3, <1>4, <1>5 DEF S!Answer, S!Become, Calls

\* Every step of the detailed cache is a step of the register, or none.
LEMMA StepsImplement ==
    ASSUME HitInv, [Next]_vars
    PROVE  [S!Next]_S!vars
<1> SUFFICES S!Next \/ UNCHANGED S!vars
  OBVIOUS
<1> USE DEF HitInv, Types, GetInv, history
<1>1. ASSUME NEW p \in Procs, NEW e \in Entries, BeginPut(p, e) PROVE S!Begin(p)
  <2>1. Call(p)' = S!Storing(e) /\ Current' = Current /\ Calls[p] = S!Idle
    BY <1>1, CallKinds DEF BeginPut, Call, Putting, S!Storing, Current
  <2>2. Calls' = [Calls EXCEPT ![p] = S!Storing(e)]
    BY <1>1, <2>1, CallBecomes DEF BeginPut
  <2> QED
    BY <1>1, <2>1, <2>2 DEF BeginPut, S!Begin, S!Become, Calls
<1>2. ASSUME NEW p \in Procs, BeginGet(p) PROVE S!Ask(p)
  <2>1. Call(p)' = S!Asking /\ Current' = Current /\ Calls[p] = S!Idle
    BY <1>2, CallKinds DEF BeginGet, Call, Putting, S!Asking, Current
  <2>2. Calls' = [Calls EXCEPT ![p] = S!Asking]
    BY <1>2, <2>1, CallBecomes DEF BeginGet
  <2> QED
    BY <1>2, <2>1, <2>2 DEF BeginGet, S!Ask, S!Become, Calls, NoAnswer, S!NoAnswer
<1>3. ASSUME NEW p \in Procs, SkipSlot(p) PROVE UNCHANGED S!vars
  BY <1>3, PutStutters DEF SkipSlot, Putting
<1>4. ASSUME NEW p \in Procs, Truncate(p) PROVE UNCHANGED S!vars \/ S!Lose
  <2>1. CASE pos[p] # Meta
    <3>1. disk'[Meta] = disk[Meta]
      BY <1>4, <2>1 DEF Truncate, Meta
    <3> QED
      BY <1>4, <3>1, PutStutters DEF Truncate, Putting
  <2>2. CASE pos[p] = Meta
    <3>1. disk'[Meta] = Empty
      BY <1>4, <2>2 DEF Truncate, Meta
    <3>2. Current' = NoEntry
      BY <3>1 DEF Current
    <3>3. \A q \in Procs : Call(q)' = Call(q)
      BY <1>4 DEF Truncate, Call, Putting
    <3>4. Calls[p] = S!Storing(arg[p]) /\ arg[p] \in Entries
      BY <1>4, CallKinds DEF Truncate, Putting, ProcInv
    <3> QED
      BY <1>4, <3>2, <3>3, <3>4, CallsStay DEF Truncate, S!Lose, Calls
  <2> QED
    BY <2>1, <2>2
<1>5. ASSUME NEW p \in Procs, Fill(p)
      PROVE  UNCHANGED S!vars \/ S!Finish(p) \/ S!GiveUp(p)
  <2>1. PICK c \in Overlay(disk[pos[p]], Want(arg[p], pos[p])) :
            disk' = [disk EXCEPT ![pos[p]] = c]
    BY <1>5 DEF Fill
  <2>2. CASE pos[p] # Meta
    <3>1. disk'[Meta] = disk[Meta]
      BY <2>1, <2>2 DEF Meta
    <3> QED
      BY <1>5, <2>2, <3>1, PutStutters DEF Fill, Putting
  <2>3. CASE pos[p] = Meta
    <3>1. /\ op' = [op EXCEPT ![p] = "idle"] /\ arg' = [arg EXCEPT ![p] = NoEntry]
          /\ res' = res
      BY <1>5, <2>3 DEF Fill, Leave
    <3>2. Calls' = [Calls EXCEPT ![p] = S!Idle]
      BY <3>1, CallBecomes DEF Call, Putting, S!Idle
    <3>3. Calls[p] = S!Storing(arg[p]) /\ arg[p] \in Entries
      BY <1>5, CallKinds DEF Fill, Putting, ProcInv
    <3>4. disk'[Meta] = c /\ c \in {arg[p], Torn}
      BY <2>1, <2>3 DEF Overlay, Want, Meta
    <3>5. Current' \in {arg[p], NoEntry}
      BY <3>3, <3>4 DEF Current
    <3>6. CASE Current' = arg[p]
      BY <3>1, <3>2, <3>3, <3>6 DEF S!Finish, S!Become, Calls
    <3>7. CASE Current' = NoEntry
      BY <3>1, <3>2, <3>3, <3>7 DEF S!GiveUp, S!Become, Calls
    <3> QED
      BY <3>5, <3>6, <3>7
  <2> QED
    BY <2>2, <2>3
<1>6. ASSUME NEW p \in Procs, AbandonPut(p) PROVE S!GiveUp(p)
  <2>1. /\ op' = [op EXCEPT ![p] = "idle"] /\ arg' = [arg EXCEPT ![p] = NoEntry]
        /\ res' = res
    BY <1>6 DEF AbandonPut, Leave
  <2>2. Calls' = [Calls EXCEPT ![p] = S!Idle]
    BY <2>1, CallBecomes DEF Call, Putting, S!Idle
  <2>3. Calls[p] = S!Storing(arg[p]) /\ arg[p] \in Entries
    BY <1>6, CallKinds DEF AbandonPut, Putting, ProcInv
  <2>4. disk'[Meta] \in {disk[Meta], Torn}
    BY <1>6 DEF AbandonPut, Meta
  <2>5. Current' \in {Current, NoEntry}
    BY <2>4 DEF Current
  <2> QED
    BY <2>1, <2>2, <2>3, <2>5 DEF S!GiveUp, S!Become, Calls
<1>7. ASSUME NEW p \in Procs, ReadMeta(p) PROVE S!Look(p) \/ S!Answer(p)
  <2>1. CASE Return(p, Miss) \/ Return(p, Corrupt)
    BY <1>7, <2>1, ReturnAnswers DEF ReadMeta, Getting
  <2>2. CASE ~(Return(p, Miss) \/ Return(p, Corrupt))
    <3>1. /\ disk[Meta] \in Entry
          /\ op' = [op EXCEPT ![p] = "read"]
          /\ arg' = [arg EXCEPT ![p] = disk[Meta]]
          /\ UNCHANGED <<disk, res>>
      BY <1>7, <2>2 DEF ReadMeta
    <3>2. Current = disk[Meta] /\ Current' = Current /\ Current # NoEntry
      BY <3>1 DEF Current
    <3>3. Call(p)' = S!Found(Current)
      BY <3>1, <3>2 DEF Call, Putting, S!Found
    <3>4. Calls' = [Calls EXCEPT ![p] = S!Found(Current)]
      BY <3>1, <3>3, CallBecomes
    <3>5. Calls[p] = S!Asking
      BY <1>7, CallKinds DEF ReadMeta
    <3> QED
      BY <3>1, <3>2, <3>4, <3>5 DEF S!Look, S!Become, Calls
  <2> QED
    BY <2>1, <2>2
<1>8. ASSUME NEW p \in Procs, ReadBlob(p) PROVE UNCHANGED S!vars \/ S!Answer(p)
  <2>1. CASE Return(p, Corrupt)
    BY <1>8, <2>1, ReturnAnswers DEF ReadBlob, Getting
  <2>2. CASE ~Return(p, Corrupt)
    <3>1. UNCHANGED <<disk, op, arg, res>>
      BY <1>8, <2>2 DEF ReadBlob
    <3>2. Calls' = Calls /\ Current' = Current
      BY <3>1, CallsStay DEF Call, Putting, Current
    <3> QED
      BY <3>1, <3>2 DEF S!vars, Calls
  <2> QED
    BY <2>1, <2>2
<1>9. ASSUME NEW p \in Procs, FinishGet(p) PROVE S!Answer(p)
  <2>1. op[p] = "read" /\ pos[p] = Meta /\ arg[p] \in Entry
    BY <1>9 DEF FinishGet, ProcInv
  <2>2. \A i \in Slots : got[p][i] = arg[p].blobs[i]
    BY <2>1 DEF ProcInv, Slots, Meta
  <2>3. [blobs |-> got[p], info |-> arg[p].info] = arg[p]
    BY <2>1, <2>2, WholeEntry
  <2> QED
    BY <1>9, <2>1, <2>3, ReturnAnswers DEF FinishGet, Getting
<1>10. ASSUME NEW p \in Procs, FailGet(p) PROVE S!Answer(p)
  BY <1>10, ReturnAnswers DEF FailGet
<1>11. CASE UNCHANGED vars
  BY <1>11, CallsStay DEF vars, S!vars, Current, Call, Putting, Calls
<1> QED
  BY <1>1, <1>2, <1>3, <1>4, <1>5, <1>6, <1>7, <1>8, <1>9, <1>10, <1>11
     DEF Next, Work, S!Next

\* Unlocked, overlapped and killed anywhere, the cache is a register that may
\* lose its entry but answers only with what it held during the lookup.
THEOREM CacheImplementsStore == Spec => ImplementsStore
<1>1. Init => S!Init
  <2> SUFFICES ASSUME Init PROVE S!Init
    OBVIOUS
  <2>1. Current = NoEntry
    BY DEF Init, Current, Meta
  <2>2. Calls = [p \in Procs |-> S!Idle]
    BY DEF Init, Calls, Call, Putting, S!Idle
  <2> QED
    BY <2>1, <2>2 DEF Init, S!Init, Calls, NoAnswer, S!NoAnswer
<1>2. HitInv /\ [Next]_vars => [S!Next]_S!vars
  BY StepsImplement
<1> QED
  BY CacheHitInv, <1>1, <1>2, PTL DEF Spec, ImplementsStore, S!Spec

(***************************************************************************)
(* A Put that overlaps no other.  While it runs, the slots behind it hold  *)
(* what it wrote; the one it is filling is empty, so the write is exact.   *)
(***************************************************************************)
Alone(p) == p \in alone /\ Putting(p)

LoneInv ==
    /\ \A p \in Procs : Alone(p) =>
          /\ \A q \in Procs : Putting(q) => q = p
          /\ \A i \in Slots : i < pos[p] /\ arg[p].blobs[i] # NoBlob
                               => disk[i] = arg[p].blobs[i]
          /\ op[p] = "fill" => disk[pos[p]] = Empty
    /\ settled # NoEntry =>
          /\ Readable(settled)
          /\ \A q \in Procs : ~Putting(q)

LEMMA InitLoneInv == Init => LoneInv
BY DEF Init, LoneInv, Alone, Putting

\* Steps that write nothing and start nothing keep it.
LEMMA QuietLoneInv ==
    ASSUME LoneInv, UNCHANGED <<disk, alone, settled>>,
           \A q \in Procs : Putting(q)' =>
               /\ Putting(q) /\ op'[q] = op[q]
               /\ pos'[q] = pos[q] /\ arg'[q] = arg[q]
    PROVE  LoneInv'
BY DEF LoneInv, Alone, Readable

LEMMA NextLoneInv == HitInv /\ LoneInv /\ [Next]_vars => LoneInv'
<1> SUFFICES ASSUME HitInv, LoneInv, [Next]_vars PROVE LoneInv'
  OBVIOUS
<1> USE DEF HitInv, Types, history, Slots, Meta, Putting
<1>1. ASSUME NEW p \in Procs, NEW e \in Entries, BeginPut(p, e) PROVE LoneInv'
  BY <1>1 DEF BeginPut, LoneInv, Alone
<1>2. ASSUME NEW p \in Procs, BeginGet(p) PROVE LoneInv'
  BY <1>2, QuietLoneInv DEF BeginGet
<1>3. ASSUME NEW p \in Procs, SkipSlot(p) PROVE LoneInv'
  BY <1>3 DEF SkipSlot, LoneInv, Alone
<1>4. ASSUME NEW p \in Procs, Truncate(p) PROVE LoneInv'
  BY <1>4 DEF Truncate, LoneInv, Alone
<1>5. ASSUME NEW p \in Procs, Fill(p) PROVE LoneInv'
  <2>1. settled = NoEntry /\ op[p] = "fill"
    BY <1>5 DEF Fill, LoneInv
  <2>2. CASE p \notin alone
    <3>1. \A q \in Procs : ~Alone(q)
      BY <2>1, <2>2 DEF LoneInv, Alone
    <3>2. \A q \in Procs : Putting(q)' => Putting(q)
      BY <1>5 DEF Fill, Leave
    <3>3. alone' = alone /\ settled' = NoEntry
      BY <1>5, <2>1, <2>2 DEF Fill
    <3> QED
      BY <3>1, <3>2, <3>3 DEF LoneInv, Alone
  <2>3. CASE p \in alone
    <3>1. /\ \A q \in Procs : Putting(q) => q = p
          /\ \A i \in Slots : i < pos[p] /\ arg[p].blobs[i] # NoBlob
                               => disk[i] = arg[p].blobs[i]
          /\ disk[pos[p]] = Empty
      BY <2>1, <2>3 DEF LoneInv, Alone
    <3>2. disk' = [disk EXCEPT ![pos[p]] = Want(arg[p], pos[p])] /\ alone' = alone
      BY <1>5, <3>1 DEF Fill, Overlay
    <3>3. CASE pos[p] = Meta
      <4>1. /\ op' = [op EXCEPT ![p] = "idle"]
            /\ settled' = arg[p]
        BY <1>5, <2>3, <3>3 DEF Fill, Leave
      <4>2. disk'[Meta] = arg[p] /\ \A i \in Slots : disk'[i] = disk[i] /\ i < pos[p]
        BY <3>2, <3>3 DEF Want
      <4>3. Readable(settled)'
        BY <3>1, <4>1, <4>2 DEF Readable
      <4> QED
        BY <3>1, <4>1, <4>3 DEF LoneInv, Alone
    <3>4. CASE pos[p] # Meta
      <4>1. /\ op' = [op EXCEPT ![p] = "truncate"]
            /\ pos' = [pos EXCEPT ![p] = @ + 1]
            /\ arg' = arg /\ settled' = NoEntry
        BY <1>5, <2>1, <3>4 DEF Fill
      <4>2. \A i \in Slots : i < pos'[p] /\ arg[p].blobs[i] # NoBlob
                               => disk'[i] = arg[p].blobs[i]
        <5>1. pos[p] \in Slots /\ disk'[pos[p]] = arg[p].blobs[pos[p]]
          BY <3>2, <3>4 DEF Want
        <5>2. \A i \in Slots : i < pos'[p] => i < pos[p] \/ i = pos[p]
          BY <4>1
        <5>3. \A i \in Slots : i # pos[p] => disk'[i] = disk[i]
          BY <3>2
        <5> QED
          BY <3>1, <5>1, <5>2, <5>3
      <4> QED
        BY <3>1, <4>1, <4>2 DEF LoneInv, Alone
    <3> QED
      BY <3>3, <3>4
  <2> QED
    BY <2>2, <2>3
<1>6. ASSUME NEW p \in Procs, AbandonPut(p) PROVE LoneInv'
  <2>1. settled = NoEntry
    BY <1>6 DEF AbandonPut, LoneInv
  <2>2. /\ op' = [op EXCEPT ![p] = "idle"]
        /\ pos' = [pos EXCEPT ![p] = 1]
        /\ arg' = [arg EXCEPT ![p] = NoEntry]
        /\ alone' = alone /\ settled' = settled
    BY <1>6 DEF AbandonPut, Leave
  <2>3. \A q \in Procs : ~Alone(q)'
    BY <1>6, <2>2 DEF AbandonPut, LoneInv, Alone
  <2> QED
    BY <2>1, <2>2, <2>3 DEF LoneInv
<1>7. ASSUME NEW p \in Procs, ReadMeta(p) \/ ReadBlob(p) \/ FinishGet(p) \/ FailGet(p)
      PROVE LoneInv'
  <2>1. ~Putting(p) /\ ~Putting(p)' /\ UNCHANGED <<disk, history>>
    BY <1>7 DEF ReadMeta, ReadBlob, FinishGet, FailGet, Return, Leave, Getting
  <2>2. \A q \in Procs \ {p} : op'[q] = op[q] /\ pos'[q] = pos[q] /\ arg'[q] = arg[q]
    BY <1>7 DEF ReadMeta, ReadBlob, FinishGet, FailGet, Return, Leave
  <2> QED
    BY <2>1, <2>2, QuietLoneInv
<1>8. CASE UNCHANGED vars
  BY <1>8, QuietLoneInv DEF vars
<1> QED
  BY <1>1, <1>2, <1>3, <1>4, <1>5, <1>6, <1>7, <1>8 DEF Next, Work

\* A Put that overlapped no other reads back whole until the next one begins.
THEOREM CacheLonePutIsReadable == Spec => []LonePutIsReadable
<1>1. LoneInv => LonePutIsReadable
  BY DEF LoneInv, LonePutIsReadable
<1> QED
  BY CacheHitInv, InitLoneInv, NextLoneInv, <1>1, PTL DEF Spec

(***************************************************************************)
(* Puts of the same bytes.  A blob slot holds nothing yet, the common      *)
(* blob, or the emptiness left by a Put that is about to fill it.          *)
(***************************************************************************)
Agreeing == broken = {} /\ \A e, f \in offered : e.blobs = f.blobs

AgreeInv ==
    /\ \A i \in Slots :
          disk[i] \in {Missing, Empty} \/ \E e \in offered : disk[i] = e.blobs[i]
    /\ \A i \in Slots : disk[i] = Empty =>
          \E p \in Procs : op[p] = "fill" /\ pos[p] = i
    /\ \A p \in Procs : Putting(p) =>
          \A i \in Slots : arg[p].blobs[i] # NoBlob /\ i < pos[p] => disk[i] # Missing
    /\ \A p \in Procs : op[p] = "fill" => disk[pos[p]] # Missing
    /\ disk[Meta] # Missing =>
          /\ offered # {}
          /\ \A i \in Slots, e \in offered : e.blobs[i] # NoBlob => disk[i] # Missing

LEMMA InitAgreeInv == Init => AgreeInv
BY DEF Init, AgreeInv, Putting, Slots, Meta

\* Steps that write nothing and move no Put keep it.
LEMMA QuietAgreeInv ==
    ASSUME AgreeInv, UNCHANGED <<disk, offered>>,
           \A q \in Procs : Putting(q)' => op'[q] = op[q] /\ pos'[q] = pos[q] /\ arg'[q] = arg[q],
           \A q \in Procs : op[q] = "fill" => op'[q] = "fill" /\ pos'[q] = pos[q]
    PROVE  AgreeInv'
BY DEF AgreeInv, Putting

\* What is handed to Put only grows, so agreement once lost is lost for good.
LEMMA AgreedBefore == ASSUME [Next]_vars, Agreeing' PROVE Agreeing /\ offered \subseteq offered'
<1>1. ASSUME NEW p \in Procs, NEW e \in Entries, BeginPut(p, e)
      PROVE  offered \subseteq offered' /\ broken \subseteq broken'
  BY <1>1 DEF BeginPut
<1>2. ASSUME NEW p \in Procs, AbandonPut(p)
      PROVE  offered \subseteq offered' /\ broken \subseteq broken'
  BY <1>2 DEF AbandonPut
<1>3. ASSUME NEW p \in Procs, BeginGet(p) \/ Work(p) \/ FailGet(p)
      PROVE  offered' = offered /\ broken' = broken
  BY <1>3 DEF BeginGet, Work, SkipSlot, Truncate, Fill, ReadMeta, ReadBlob,
              FinishGet, FailGet, history
<1>4. offered \subseteq offered' /\ broken \subseteq broken'
  BY <1>1, <1>2, <1>3 DEF Next, vars
<1> QED
  BY <1>4 DEF Agreeing

LEMMA NextAgreeInv ==
    HitInv /\ (Agreeing => AgreeInv) /\ [Next]_vars => (Agreeing => AgreeInv)'
<1> SUFFICES ASSUME HitInv, Agreeing => AgreeInv, [Next]_vars, Agreeing' PROVE AgreeInv'
  OBVIOUS
<1>0. Agreeing /\ AgreeInv /\ offered \subseteq offered'
  BY AgreedBefore
<1> USE <1>0 DEF Agreeing, HitInv, Types, history, Slots, Meta, Putting
<1>1. ASSUME NEW p \in Procs, NEW e \in Entries, BeginPut(p, e) PROVE AgreeInv'
  <2>1. /\ offered' = offered \cup {e} /\ \A f, g \in offered' : f.blobs = g.blobs
        /\ op' = [op EXCEPT ![p] = "truncate"] /\ pos' = [pos EXCEPT ![p] = 1]
        /\ arg' = [arg EXCEPT ![p] = e] /\ disk' = disk /\ op[p] = "idle"
    BY <1>1 DEF BeginPut
  <2>2. /\ \A i \in Slots : disk'[i] \in {Missing, Empty}
              \/ \E f \in offered' : disk'[i] = f.blobs[i]
        /\ \A i \in Slots : disk'[i] = Empty =>
              \E q \in Procs : op'[q] = "fill" /\ pos'[q] = i
    BY <2>1 DEF AgreeInv
  <2>3. /\ \A q \in Procs : op'[q] \in {"truncate", "fill"} =>
              \A i \in Slots : arg'[q].blobs[i] # NoBlob /\ i < pos'[q] => disk'[i] # Missing
        /\ \A q \in Procs : op'[q] = "fill" => disk'[pos'[q]] # Missing
    BY <2>1 DEF AgreeInv
  <2>4. disk'[Meta] # Missing =>
          /\ offered' # {}
          /\ \A i \in Slots, f \in offered' : f.blobs[i] # NoBlob => disk'[i] # Missing
    BY <2>1, SMTT(30) DEF AgreeInv
  <2> QED
    BY <2>2, <2>3, <2>4 DEF AgreeInv
<1>2. ASSUME NEW p \in Procs, BeginGet(p) PROVE AgreeInv'
  BY <1>2, QuietAgreeInv DEF BeginGet
<1>3. ASSUME NEW p \in Procs, SkipSlot(p) PROVE AgreeInv'
  BY <1>3 DEF SkipSlot, AgreeInv
<1>4. ASSUME NEW p \in Procs, Truncate(p) PROVE AgreeInv'
  <2>1. /\ disk' = [disk EXCEPT ![pos[p]] = Empty]
        /\ op' = [op EXCEPT ![p] = "fill"]
        /\ pos' = pos /\ arg' = arg /\ offered' = offered /\ op[p] = "truncate"
    BY <1>4 DEF Truncate
  <2>2. /\ \A i \in Slots : disk'[i] \in {Missing, Empty}
              \/ \E e \in offered : disk'[i] = e.blobs[i]
        /\ \A i \in Slots : disk'[i] = Empty =>
              \E q \in Procs : op'[q] = "fill" /\ pos'[q] = i
    BY <2>1 DEF AgreeInv
  <2>3. \A i \in 1..Meta : disk[i] # Missing => disk'[i] # Missing
    BY <2>1
  <2>4. \A q \in Procs : op'[q] = "fill" => disk'[pos[q]] # Missing
    BY <2>1, <2>3 DEF AgreeInv
  <2>5. \A q \in Procs : op'[q] \in {"truncate", "fill"} =>
          \A i \in Slots : arg[q].blobs[i] # NoBlob /\ i < pos[q] => disk'[i] # Missing
    BY <2>1, <2>3 DEF AgreeInv
  <2>6. disk'[Meta] # Missing =>
          /\ offered # {}
          /\ \A i \in Slots, e \in offered : e.blobs[i] # NoBlob => disk'[i] # Missing
    <3>1. CASE pos[p] = Meta
      <4>1. arg[p] \in offered
        BY <2>1 DEF GetInv, ProcInv
      <4>2. \A i \in Slots : arg[p].blobs[i] # NoBlob => disk'[i] # Missing
        BY <2>1, <2>5, <3>1
      <4> QED
        BY <4>1, <4>2
    <3>2. CASE pos[p] # Meta
      BY <2>1, <2>3, <3>2 DEF AgreeInv
    <3> QED
      BY <3>1, <3>2
  <2> QED
    BY <2>1, <2>2, <2>4, <2>5, <2>6 DEF AgreeInv
<1>5. ASSUME NEW p \in Procs, Fill(p) PROVE AgreeInv'
  <2>1. PICK c \in Overlay(disk[pos[p]], Want(arg[p], pos[p])) :
            disk' = [disk EXCEPT ![pos[p]] = c] /\ offered' = offered
    BY <1>5 DEF Fill
  <2>2. op[p] = "fill" /\ arg[p] \in offered /\ arg[p] \in Entry
    BY <1>5 DEF Fill, GetInv, ProcInv
  <2>3. c # Missing /\ c # Empty
    BY <2>2 DEF Overlay, Want, Entry
  <2>4. pos[p] \in Slots => c = arg[p].blobs[pos[p]]
    <3> SUFFICES ASSUME pos[p] \in Slots PROVE c = arg[p].blobs[pos[p]]
      OBVIOUS
    <3>1. Want(arg[p], pos[p]) = arg[p].blobs[pos[p]]
      BY DEF Want
    <3>2. disk[pos[p]] \in {Empty, arg[p].blobs[pos[p]]}
      BY <2>2 DEF AgreeInv
    <3> QED
      BY <3>1, <3>2 DEF Overlay
  <2>5. \A q \in Procs \ {p} : op'[q] = op[q] /\ pos'[q] = pos[q] /\ arg'[q] = arg[q]
    BY <1>5 DEF Fill, Leave
  <2>6. \A i \in 1..Meta : disk[i] # Missing => disk'[i] # Missing
    BY <2>1, <2>3
  <2>7. \A i \in Slots : disk'[i] \in {Missing, Empty}
            \/ \E e \in offered : disk'[i] = e.blobs[i]
    BY <2>1, <2>2, <2>4 DEF AgreeInv
  <2>8. ASSUME NEW i \in Slots, disk'[i] = Empty
        PROVE  \E q \in Procs : op'[q] = "fill" /\ pos'[q] = i
    <3>1. i # pos[p] /\ disk[i] = Empty
      BY <2>1, <2>3, <2>8
    <3>2. PICK q \in Procs : op[q] = "fill" /\ pos[q] = i
      BY <3>1 DEF AgreeInv
    <3> QED
      BY <2>5, <3>1, <3>2
  <2>9. /\ op'[p] # "fill"
        /\ op'[p] = "truncate" => pos'[p] = pos[p] + 1 /\ arg'[p] = arg[p] /\ pos[p] \in Slots
    BY <1>5 DEF Fill, Leave
  <2>10. \A q \in Procs : op'[q] = "fill" => disk'[pos'[q]] # Missing
    BY <2>5, <2>6, <2>9 DEF AgreeInv
  <2>11. \A q \in Procs : op'[q] \in {"truncate", "fill"} =>
          \A i \in Slots : arg'[q].blobs[i] # NoBlob /\ i < pos'[q] => disk'[i] # Missing
    <3>1. ASSUME NEW i \in Slots, op'[p] = "truncate", arg'[p].blobs[i] # NoBlob, i < pos'[p]
          PROVE  disk'[i] # Missing
      <4>1. i < pos[p] \/ i = pos[p]
        BY <2>9, <3>1
      <4>2. disk'[pos[p]] = c
        BY <2>1
      <4> QED
        BY <2>2, <2>3, <2>6, <2>9, <3>1, <4>1, <4>2 DEF AgreeInv
    <3> QED
      BY <2>5, <2>6, <2>9, <3>1 DEF AgreeInv
  <2>12. disk'[Meta] # Missing =>
          /\ offered # {}
          /\ \A i \in Slots, e \in offered : e.blobs[i] # NoBlob => disk'[i] # Missing
    <3>1. disk'[Meta] # Missing => disk[Meta] # Missing
      BY <2>1, <2>2 DEF AgreeInv
    <3> QED
      BY <2>6, <3>1 DEF AgreeInv
  <2> QED
    BY <2>1, <2>7, <2>8, <2>10, <2>11, <2>12 DEF AgreeInv
<1>6. ASSUME NEW p \in Procs, AbandonPut(p) PROVE AgreeInv'
  BY <1>6 DEF AbandonPut
<1>7. ASSUME NEW p \in Procs, ReadMeta(p) \/ ReadBlob(p) \/ FinishGet(p) \/ FailGet(p)
      PROVE AgreeInv'
  <2>1. ~Putting(p) /\ ~Putting(p)' /\ UNCHANGED <<disk, history>>
    BY <1>7 DEF ReadMeta, ReadBlob, FinishGet, FailGet, Return, Leave, Getting
  <2>2. \A q \in Procs \ {p} : op'[q] = op[q] /\ pos'[q] = pos[q] /\ arg'[q] = arg[q]
    BY <1>7 DEF ReadMeta, ReadBlob, FinishGet, FailGet, Return, Leave
  <2> QED
    BY <2>1, <2>2, QuietAgreeInv
<1>8. CASE UNCHANGED vars
  BY <1>8, QuietAgreeInv DEF vars
<1> QED
  BY <1>1, <1>2, <1>3, <1>4, <1>5, <1>6, <1>7, <1>8 DEF Next, Work

\* Processes that cache the same immutable bytes never spoil each other's blobs:
\* once all their Puts have returned, a meta.json that decodes is a hit.
THEOREM CacheAgreeingPutsConverge == Spec => []AgreeingPutsConverge
<1>1. Agreeing /\ HitInv /\ AgreeInv => AgreeingPutsConverge
  <2> SUFFICES ASSUME Agreeing, HitInv, AgreeInv, disk[Meta] \in Entry,
                      \A p \in Procs : ~Putting(p)
               PROVE  Readable(disk[Meta])
    BY DEF AgreeingPutsConverge
  <2>1. disk[Meta] \in Entries /\ disk[Meta] # Missing
    BY DEF HitInv, Types, Junk
  <2>2. \A i \in Slots : disk[i] # Empty
    BY DEF AgreeInv, Putting
  <2>3. ASSUME NEW i \in Slots, disk[Meta].blobs[i] # NoBlob
        PROVE  disk[i] = disk[Meta].blobs[i]
    <3>1. disk[Meta] \in offered /\ disk[i] # Missing /\ disk[i] # Empty
      BY <2>1, <2>2, <2>3 DEF AgreeInv, HitInv, Types, Junk
    <3>2. PICK e \in offered : disk[i] = e.blobs[i]
      BY <3>1 DEF AgreeInv
    <3> QED
      BY <3>1, <3>2 DEF Agreeing
  <2> QED
    BY <2>3 DEF Readable
<1>2. Init => (Agreeing => AgreeInv)
  BY InitAgreeInv
<1>3. (Agreeing => AgreeInv) /\ HitInv => AgreeingPutsConverge
  BY <1>1 DEF Agreeing, AgreeingPutsConverge
<1> QED
  BY CacheHitInv, NextAgreeInv, <1>2, <1>3, PTL DEF Spec
=============================================================================
