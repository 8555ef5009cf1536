---------------------------- MODULE ArtifactCache ----------------------------
(***************************************************************************)
(* internal/cache/cache.go: the on-disk cache entry of one coordinate,     *)
(* read and written by several grcli processes that share the cache root   *)
(* and take no lock.                                                       *)
(*                                                                         *)
(* An entry's directory holds files/0, files/1, ..., bundle.json and       *)
(* meta.json.  The first ones are the slots 1..Last here (Last stands for  *)
(* bundle.json), meta.json is slot Meta.  os.WriteFile truncates the file  *)
(* in place and then writes it, so a file is seen missing, empty, whole,   *)
(* or torn: part of one write, or the overlay of two.  A torn or empty     *)
(* file never has the digest of a stored blob, and never decodes as JSON.  *)
(***************************************************************************)
EXTENDS Integers

CONSTANTS Procs,     \* grcli processes
          Blobs,     \* file contents; a blob stands for its digest too
          NoBlob,    \* the entry has no file in this slot
          Last,      \* number of blob slots
          Infos,     \* names, etag, license, LicenseChecked, ... of meta.json
          Entries,   \* the entries the processes put
          NoEntry,   \* no entry
          Missing, Empty, Torn   \* states of a file that is not whole

Slots == 1..Last
Meta == Last + 1

Entry == [blobs : [Slots -> Blobs \cup {NoBlob}], info : Infos]

ASSUME LastAssumption == Last \in Nat \ {0}
ASSUME EntriesAssumption == Entries \subseteq Entry
ASSUME DistinctAssumption ==
    /\ NoBlob \notin Blobs \cup Entry
    /\ NoEntry \notin Entry
    /\ Missing # Empty /\ Missing # Torn /\ Empty # Torn
    /\ \A x \in {Missing, Empty, Torn} : x \notin Blobs \cup {NoBlob} \cup Entry

VARIABLES
    disk,     \* disk[i]: the content of the file in slot i
    op,       \* op[p]: what process p is doing
    pos,      \* pos[p]: the slot it is at
    arg,      \* arg[p]: the entry it puts, or the meta.json it decoded
    got,      \* got[p]: the blobs its Get has read
    res,      \* res[p]: what its last Get returned
    offered,  \* history: the entries handed to Put so far
    alone,    \* history: processes whose Put overlapped no other so far
    settled,  \* history: the entry a Put completed alone, and no Put since
    broken    \* history: processes a Put of which stopped half way

vars == <<disk, op, pos, arg, got, res, offered, alone, settled, broken>>
history == <<offered, alone, settled, broken>>

Junk == {Missing, Empty, Torn}

Hit(e) == [kind |-> "hit", entry |-> e]
NoAnswer == [kind |-> "none"]
Miss == [kind |-> "miss"]
Corrupt == [kind |-> "error"]

TypeOK ==
    /\ disk \in [1..Meta -> Blobs \cup Entries \cup Junk]
    /\ \A i \in Slots : disk[i] \in Blobs \cup Junk
    /\ disk[Meta] \in Entries \cup Junk
    /\ op \in [Procs -> {"idle", "truncate", "fill", "open", "read"}]
    /\ pos \in [Procs -> 1..Meta]
    /\ arg \in [Procs -> Entries \cup {NoEntry}]
    /\ got \in [Procs -> [Slots -> Blobs \cup {NoBlob}]]
    /\ \A p \in Procs : \/ res[p] \in {NoAnswer, Miss, Corrupt}
                          \/ \E e \in Entries : res[p] = Hit(e)
    /\ offered \subseteq Entries
    /\ alone \subseteq Procs
    /\ settled \in Entries \cup {NoEntry}
    /\ broken \subseteq Procs

Putting(p) == op[p] \in {"truncate", "fill"}
Getting(p) == op[p] \in {"open", "read"}

\* What slot i holds once entry e has been put.
Want(e, i) == IF i = Meta THEN e ELSE e.blobs[i]

Overlay_Append(old, b) == IF old = Empty THEN {b} ELSE {Torn}

\* The content left by writing b over a file whose content is old.  The file
\* was truncated before, but another process may have filled it since: a
\* longer old content then survives past the end of the new one.
Overlay(old, b) == IF old \in {Empty, b} THEN {b} ELSE {b, Torn}

NothingRead == [i \in Slots |-> NoBlob]

Init ==
    /\ disk = [i \in 1..Meta |-> Missing]
    /\ op = [p \in Procs |-> "idle"]
    /\ pos = [p \in Procs |-> 1]
    /\ arg = [p \in Procs |-> NoEntry]
    /\ got = [p \in Procs |-> NothingRead]
    /\ res = [p \in Procs |-> NoAnswer]
    /\ offered = {}
    /\ alone = {}
    /\ settled = NoEntry
    /\ broken = {}

\* The call returns and its locals are gone.
Leave(p) ==
    /\ op' = [op EXCEPT ![p] = "idle"]
    /\ pos' = [pos EXCEPT ![p] = 1]
    /\ arg' = [arg EXCEPT ![p] = NoEntry]
    /\ got' = [got EXCEPT ![p] = NothingRead]

-----------------------------------------------------------------------------
(* Put.                                                                    *)

BeginPut(p, e) ==
    /\ op[p] = "idle"
    /\ op' = [op EXCEPT ![p] = "truncate"]
    /\ pos' = [pos EXCEPT ![p] = 1]
    /\ arg' = [arg EXCEPT ![p] = e]
    /\ offered' = offered \cup {e}
    /\ alone' = IF \E q \in Procs : Putting(q) THEN {} ELSE {p}
    /\ settled' = NoEntry
    /\ UNCHANGED <<disk, got, res, broken>>

\* The entry has no such file, or no bundle.json: nothing is written.
SkipSlot(p) ==
    /\ op[p] = "truncate"
    /\ pos[p] # Meta /\ arg[p].blobs[pos[p]] = NoBlob
    /\ pos' = [pos EXCEPT ![p] = @ + 1]
    /\ UNCHANGED <<disk, op, arg, got, res, history>>

Truncate_InPlace(p) ==
    /\ op[p] = "truncate"
    /\ Want(arg[p], pos[p]) # NoBlob
    /\ disk' = [disk EXCEPT ![pos[p]] = IF @ = Missing THEN Empty ELSE @]
    /\ op' = [op EXCEPT ![p] = "fill"]
    /\ UNCHANGED <<pos, arg, got, res, history>>

\* os.WriteFile opens the file with O_CREATE and O_TRUNC ...
Truncate(p) ==
    /\ op[p] = "truncate"
    /\ Want(arg[p], pos[p]) # NoBlob
    /\ disk' = [disk EXCEPT ![pos[p]] = Empty]
    /\ op' = [op EXCEPT ![p] = "fill"]
    /\ UNCHANGED <<pos, arg, got, res, history>>

\* ... and writes the content; after meta.json Put returns.
Fill(p) ==
    /\ op[p] = "fill"
    /\ \E c \in Overlay(disk[pos[p]], Want(arg[p], pos[p])) :
           disk' = [disk EXCEPT ![pos[p]] = c]
    /\ IF pos[p] = Meta
       THEN /\ Leave(p)
            /\ settled' = IF p \in alone THEN arg[p] ELSE settled
       ELSE /\ op' = [op EXCEPT ![p] = "truncate"]
            /\ pos' = [pos EXCEPT ![p] = @ + 1]
            /\ UNCHANGED <<arg, got, settled>>
    /\ UNCHANGED <<res, offered, alone, broken>>

\* A write fails and Put returns its error, or the process is killed: the
\* files written so far stay, the current one possibly in part.
AbandonPut(p) ==
    /\ Putting(p)
    /\ Leave(p)
    /\ broken' = broken \cup {p}
    /\ \/ UNCHANGED disk
       \/ op[p] = "fill" /\ disk' = [disk EXCEPT ![pos[p]] = Torn]
    /\ UNCHANGED <<res, offered, alone, settled>>

-----------------------------------------------------------------------------
(* Get.                                                                    *)

BeginGet(p) ==
    /\ op[p] = "idle"
    /\ op' = [op EXCEPT ![p] = "open"]
    /\ res' = [res EXCEPT ![p] = NoAnswer]
    /\ UNCHANGED <<disk, pos, arg, got, history>>

Return(p, answer) ==
    /\ Leave(p)
    /\ res' = [res EXCEPT ![p] = answer]

\* No meta.json is a clean miss; one that does not decode is an error.
ReadMeta(p) ==
    /\ op[p] = "open"
    /\ \/ /\ disk[Meta] = Missing
          /\ Return(p, Miss)
       \/ /\ disk[Meta] \in {Empty, Torn}
          /\ Return(p, Corrupt)
       \/ /\ disk[Meta] \in Entry
          /\ op' = [op EXCEPT ![p] = "read"]
          /\ pos' = [pos EXCEPT ![p] = 1]
          /\ arg' = [arg EXCEPT ![p] = disk[Meta]]
          /\ got' = [got EXCEPT ![p] = NothingRead]
          /\ UNCHANGED res
    /\ UNCHANGED <<disk, history>>

Intact_Exists(content, blob) == content # Missing

\* readBlob: a recorded blob must be there with the recorded digest.
Intact(content, blob) == content = blob

ReadBlob(p) ==
    /\ op[p] = "read" /\ pos[p] # Meta
    /\ LET blob == arg[p].blobs[pos[p]] IN
       \/ /\ blob = NoBlob
          /\ pos' = [pos EXCEPT ![p] = @ + 1]
          /\ UNCHANGED <<op, arg, got, res>>
       \/ /\ blob # NoBlob /\ Intact(disk[pos[p]], blob)
          /\ got' = [got EXCEPT ![p][pos[p]] = disk[pos[p]]]
          /\ pos' = [pos EXCEPT ![p] = @ + 1]
          /\ UNCHANGED <<op, arg, res>>
       \/ /\ blob # NoBlob /\ ~Intact(disk[pos[p]], blob)
          /\ Return(p, Corrupt)
    /\ UNCHANGED <<disk, history>>

FinishGet(p) ==
    /\ op[p] = "read" /\ pos[p] = Meta
    /\ Return(p, Hit([blobs |-> got[p], info |-> arg[p].info]))
    /\ UNCHANGED <<disk, history>>

\* A read fails, or spans a rewrite of the file it reads.
FailGet(p) ==
    /\ Getting(p)
    /\ Return(p, Corrupt)
    /\ UNCHANGED <<disk, history>>

-----------------------------------------------------------------------------

Work(p) ==
    \/ SkipSlot(p) \/ Truncate(p) \/ Fill(p)
    \/ ReadMeta(p) \/ ReadBlob(p) \/ FinishGet(p)

Next ==
    \E p \in Procs :
        \/ \E e \in Entries : BeginPut(p, e)
        \/ BeginGet(p)
        \/ Work(p)
        \/ AbandonPut(p) \/ FailGet(p)

Spec == Init /\ [][Next]_vars

-----------------------------------------------------------------------------
(* Properties.                                                             *)

\* A reader of the directory as it stands finds entry e, whole.
Readable(e) ==
    /\ disk[Meta] = e
    /\ \A i \in Slots : e.blobs[i] # NoBlob => disk[i] = e.blobs[i]

\* A hit is an entry some Put was given, with all of its files: never a mix of
\* two entries, never a torn file, whatever overlaps and whatever is killed
\* (cache.go:179, the digest check of readBlob).
HitWasPut ==
    \A p \in Procs : res[p].kind = "hit" => res[p].entry \in offered

\* A Put that overlapped no other leaves an entry that reads back whole, until
\* the next Put, even over what killed or overlapping Puts left behind.
LonePutIsReadable == settled # NoEntry => Readable(settled)

\* Puts of the same bytes do not spoil each other's blobs: as long as all Puts
\* were given the same bytes and none stopped half way, then once all have
\* returned the recorded blobs are all there, unless two meta.json of different
\* length overlaid (cache.go:199).
AgreeingPutsConverge ==
    /\ broken = {}
    /\ \A e, f \in offered : e.blobs = f.blobs
    /\ \A p \in Procs : ~Putting(p)
    /\ disk[Meta] \in Entry
    => Readable(disk[Meta])

\* The register the files stand for: meta.json is written last and names the
\* blobs, so what a lookup may find is the entry meta.json decodes to.
Current == IF disk[Meta] \in Entry THEN disk[Meta] ELSE NoEntry

Call(p) ==
    CASE Putting(p) -> [kind |-> "store", entry |-> arg[p]]
      [] op[p] = "open" -> [kind |-> "ask"]
      [] op[p] = "read" -> [kind |-> "found", entry |-> arg[p]]
      [] OTHER -> [kind |-> "idle"]

\* The cache is the store module EntryStore promises its clients: file by file,
\* unlocked and killed anywhere, it is a register that may lose its entry but
\* never answers with one it did not hold during the lookup (cache.go:126).
S == INSTANCE EntryStore WITH
         current <- Current,
         call <- [p \in Procs |-> Call(p)]
ImplementsStore == S!Spec
=============================================================================
