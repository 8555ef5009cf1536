----------------------------- MODULE References -----------------------------
(***************************************************************************)
(* `grcli unpack --with-references` (resolveReferences and fetchReference  *)
(* in cmd/unpack.go): after the primary artifact, the loop that pulls the  *)
(* artifacts it refers to, one registry token per repository, through an   *)
(* artifact cache that other invocations of grcli read and write as well.  *)
(*                                                                         *)
(* One cache entry is one record here: ArtifactCache models how it is      *)
(* stored in files, Consume how the primary's signature is verified.       *)
(***************************************************************************)
EXTENDS Integers, Sequences

CONSTANTS Procs,      \* the invocations sharing the cache
          Coords,     \* coordinates <namespace>/<id>@<version>
          Content,    \* Content[c]: what the registry holds at coordinate c
          License,    \* License[c]: the license the hub records for c, once listed
          Moving,     \* the coordinates the hub lists, or yanks, meanwhile
          NoLicense,  \* the empty license
          Elsewhere,  \* a reference no coordinate is recognized in
          Jobs,       \* the commands the invocations may be
          User,       \* a registry credential the user supplied
          NoToken,    \* no registry credential
          NoEntry     \* no cache entry

(***************************************************************************)
(* What a repository holds: a bundle with one file, one without files, one *)
(* with a file name that leaves its directory, one that carries imports of *)
(* its own, or nothing.                                                    *)
(***************************************************************************)
Kinds == {"file", "empty", "unsafe", "imports", "absent"}

(***************************************************************************)
(* An invocation: cat, or unpack with references, of coordinate primary,   *)
(* whose artifact lists the references refs, in order.                     *)
(*   caching    cache-enabled, and no --no-cache                           *)
(*   verifies   the primary's signature is verified after the fetch        *)
(*   userCreds  GRCLI_REGISTRY_TOKEN, or _USERNAME and _PASSWORD, are set  *)
(***************************************************************************)
Job == [name : {"cat", "unpack"}, primary : Coords, refs : Seq(Coords \cup {Elsewhere}),
        caching : BOOLEAN, verifies : BOOLEAN, userCreds : BOOLEAN]

ASSUME ContentAssumption == Content \in [Coords -> Kinds]
ASSUME MovingAssumption == Moving \subseteq Coords
ASSUME JobsAssumption == Jobs \subseteq Job
ASSUME TokenAssumption == User \notin Coords /\ NoToken \notin Coords \cup {User}
ASSUME ElsewhereAssumption == Elsewhere \notin Coords

\* The license of an entry, and whether the hub confirmed it.
Entry == [license : {NoLicense} \cup {License[c] : c \in Coords}, checked : BOOLEAN]

ASSUME NoEntryAssumption == NoEntry \notin Entry

VARIABLES
    job,      \* job[p]: the command line of p
    at,       \* at[p]: its next step
    token,    \* token[p]: the repository GRCLI_REGISTRY_TOKEN is good for
    host,     \* host[p]: the memoized registry discovery
    i,        \* i[p]: the reference it is at
    seen,     \* seen[p]: the coordinates met so far
    entry,    \* entry[p]: the entry of the current reference
    skipped,  \* skipped[p]: the references reported and skipped
    index,    \* index[p]: the rows of references/index.json
    dirs,     \* dirs[p][c]: how much of c is written below references/
    cache,    \* cache[c]: the entry stored for coordinate c
    late,     \* history: <<p, c>> if an answer of the hub about c was stored
              \* while p worked from an older reading of the cache
    listing,  \* listing[c]: what the hub says of coordinate c
    blank     \* history: the coordinates somebody asked the hub about while it
              \* did not list them

hub == <<listing, blank>>
local == <<job, at, token, host, i, seen, entry, skipped, index, dirs>>
vars == <<local, cache, late, hub>>

Steps == {"primary", "putPrimary", "next", "get", "heal", "putHealed", "license",
          "host", "mint", "pull", "put", "write", "finish", "index"}
Ended == {"done", "failed"}
Fetching == {"heal", "putHealed", "host", "mint", "pull", "put", "write", "finish"}

TypeOK ==
    /\ job \in [Procs -> Jobs]
    /\ at \in [Procs -> {"idle"} \cup Steps \cup Ended]
    /\ token \in [Procs -> Coords \cup {User, NoToken}]
    /\ host \in [Procs -> {"unknown", "known", "failed"}]
    /\ i \in [Procs -> Nat \ {0}]
    /\ seen \in [Procs -> SUBSET Coords]
    /\ entry \in [Procs -> Entry \cup {NoEntry}]
    /\ skipped \in [Procs -> SUBSET (Nat \ {0})]
    /\ index \in [Procs -> Seq(Coords)]
    /\ dirs \in [Procs -> [Coords -> {"none", "part", "whole"}]]
    /\ cache \in [Coords -> Entry \cup {NoEntry}]
    /\ late \subseteq Procs \X Coords
    /\ listing \in [Coords -> {"unlisted", "listed", "yanked"}]
    /\ blank \subseteq Coords
    /\ \A p \in Procs :
          /\ i[p] \leq Len(job[p].refs) + 1
          /\ at[p] \in Fetching \cup {"get", "license"} =>
                 i[p] \leq Len(job[p].refs) /\ job[p].refs[i[p]] \in Coords
          /\ at[p] \in Fetching => entry[p] # NoEntry

Init ==
    /\ job \in [Procs -> Jobs]
    /\ at = [p \in Procs |-> "idle"]
    /\ token = [p \in Procs |-> IF job[p].userCreds THEN User ELSE NoToken]
    /\ host = [p \in Procs |-> "unknown"]
    /\ i = [p \in Procs |-> 1]
    /\ seen = [p \in Procs |-> {}]
    /\ entry = [p \in Procs |-> NoEntry]
    /\ skipped = [p \in Procs |-> {}]
    /\ index = [p \in Procs |-> <<>>]
    /\ dirs = [p \in Procs |-> [c \in Coords |-> "none"]]
    /\ cache = [c \in Coords |-> NoEntry]
    /\ late = {}
    /\ listing = [c \in Coords |-> IF c \in Moving THEN "unlisted" ELSE "listed"]
    /\ blank = {}

Goto(p, l) == at' = [at EXCEPT ![p] = l]

\* The reference p is at.
Ref(p) == job[p].refs[i[p]]

\* An entry made of bytes only, before any license lookup.
Unchecked == [license |-> NoLicense, checked |-> FALSE]

\* referenceLicense, when the hub answers: for a version the catalog does not
\* list, no license is an answer as good as any.
Confirmed(c) ==
    [license |-> IF listing[c] = "listed" THEN License[c] ELSE NoLicense,
     checked |-> TRUE]

Asked(c) == blank' = IF listing[c] = "listed" THEN blank ELSE blank \cup {c}

Cached(p, c) == job[p].caching /\ cache[c] # NoEntry

\* p has read the cache for c, and may be about to store something for c.
Working(p, c) ==
    \/ at[p] = "putPrimary" /\ job[p].primary = c
    \/ at[p] \in {"heal", "putHealed"} /\ Ref(p) = c
    \/ job[p].caching /\ at[p] \in {"license", "host", "mint", "pull", "put"} /\ Ref(p) = c

\* cache.Put by p, whose failure is only reported.
Store(p, c, e) ==
    \/ /\ cache' = [cache EXCEPT ![c] = e]
       /\ late' = IF e.checked THEN late \cup {<<q, c>> : q \in {q \in Procs \ {p} : Working(q, c)}}
                               ELSE late
    \/ UNCHANGED <<cache, late>>

\* The reference is reported and left out; the loop goes on.
SkipReference(p) ==
    /\ skipped' = [skipped EXCEPT ![p] = @ \cup {i[p]}]
    /\ i' = [i EXCEPT ![p] = @ + 1]
    /\ Goto(p, "next")

-----------------------------------------------------------------------------
(* The primary artifact (resolveBundle, ensureRegistryToken).              *)

Begin(p) ==
    /\ at[p] = "idle"
    /\ Goto(p, "primary")
    /\ UNCHANGED <<job, token, host, i, seen, entry, skipped, index, dirs, cache, late, hub>>

AfterPrimary(p) == IF job[p].name = "cat" THEN "done" ELSE "next"

\* A token already exported, by the user or by an earlier call, is kept.
EnsureRegistryToken(p) ==
    token' = [token EXCEPT ![p] = IF @ = NoToken THEN job[p].primary ELSE @]

\* Whoever asks the registry has discovered it first, or failed; hub.Discover
\* remembers a success for the life of the process.
Discover(p) == host' = [host EXCEPT ![p] = "known"]

\* A hit needs the registry only to verify.  An entry without files is no hit.
PrimaryHit(p) ==
    /\ at[p] = "primary"
    /\ Cached(p, job[p].primary) /\ Content[job[p].primary] # "empty"
    /\ IF job[p].verifies THEN EnsureRegistryToken(p) /\ Discover(p)
                          ELSE UNCHANGED <<token, host>>
    /\ Goto(p, AfterPrimary(p))
    /\ UNCHANGED <<job, i, seen, entry, skipped, index, dirs, cache, late, hub>>

\* putBundle refuses a bundle without a named file, or with imports.
Storable(c) == Content[c] \notin {"empty", "imports"}

PrimaryPull(p) ==
    /\ at[p] = "primary"
    /\ ~Cached(p, job[p].primary) \/ Content[job[p].primary] = "empty"
    /\ EnsureRegistryToken(p)
    /\ Discover(p)
    /\ Goto(p, IF Content[job[p].primary] = "absent" THEN "failed"
               ELSE IF job[p].caching /\ Storable(job[p].primary)
                    THEN "putPrimary" ELSE AfterPrimary(p))
    /\ UNCHANGED <<job, i, seen, entry, skipped, index, dirs, cache, late, hub>>

\* The primary is cached without asking the hub for its license.
PutPrimary(p) ==
    /\ at[p] = "putPrimary"
    /\ Store(p, job[p].primary, Unchecked)
    /\ Goto(p, AfterPrimary(p))
    /\ UNCHANGED <<job, token, host, i, seen, entry, skipped, index, dirs, hub>>

-----------------------------------------------------------------------------
(* The loop of resolveReferences.                                          *)

EndLoop(p) ==
    /\ at[p] = "next" /\ i[p] > Len(job[p].refs)
    /\ Goto(p, IF index[p] = <<>> THEN "done" ELSE "index")
    /\ UNCHANGED <<job, token, host, i, seen, entry, skipped, index, dirs, cache, late, hub>>

\* refs.Recognize finds no coordinate of the targeted hub in the URL.
NotRecognized(p) ==
    /\ at[p] = "next" /\ i[p] \leq Len(job[p].refs)
    /\ Ref(p) = Elsewhere
    /\ SkipReference(p)
    /\ UNCHANGED <<job, token, host, seen, entry, index, dirs, cache, late, hub>>

\* A repetition, or the artifact referring to itself, is passed over silently.
PassOver(p) ==
    /\ at[p] = "next" /\ i[p] \leq Len(job[p].refs)
    /\ Ref(p) # Elsewhere
    /\ Ref(p) \in seen[p] \/ Ref(p) = job[p].primary
    /\ seen' = [seen EXCEPT ![p] = @ \cup {Ref(p)}]
    /\ i' = [i EXCEPT ![p] = @ + 1]
    /\ UNCHANGED <<job, at, token, host, entry, skipped, index, dirs, cache, late, hub>>

TakeUp_NotSeen(p) ==
    /\ at[p] = "next" /\ i[p] \leq Len(job[p].refs)
    /\ Ref(p) # Elsewhere
    /\ Ref(p) \notin seen[p] /\ Ref(p) # job[p].primary
    /\ Goto(p, "get")
    /\ UNCHANGED <<job, token, host, i, seen, entry, skipped, index, dirs, cache, late, hub>>

TakeUp(p) ==
    /\ at[p] = "next" /\ i[p] \leq Len(job[p].refs)
    /\ Ref(p) # Elsewhere
    /\ Ref(p) \notin seen[p] /\ Ref(p) # job[p].primary
    /\ seen' = [seen EXCEPT ![p] = @ \cup {Ref(p)}]
    /\ Goto(p, "get")
    /\ UNCHANGED <<job, token, host, i, entry, skipped, index, dirs, cache, late, hub>>

-----------------------------------------------------------------------------
(* fetchReference.                                                         *)

GetReference_NeedsLicense(p) ==
    /\ at[p] = "get"
    /\ IF Cached(p, Ref(p)) /\ cache[Ref(p)].license # NoLicense
       THEN entry' = [entry EXCEPT ![p] = cache[Ref(p)]] /\ Goto(p, "write")
       ELSE Goto(p, "license") /\ UNCHANGED entry
    /\ UNCHANGED <<job, token, host, i, seen, skipped, index, dirs, cache, late, hub>>

\* A hit is served as it is, unless its license was never confirmed.
GetReference(p) ==
    /\ at[p] = "get"
    /\ \/ /\ Cached(p, Ref(p))
          /\ entry' = [entry EXCEPT ![p] = cache[Ref(p)]]
          /\ Goto(p, IF cache[Ref(p)].license = NoLicense /\ ~cache[Ref(p)].checked
                     THEN "heal" ELSE "write")
       \/ /\ ~Cached(p, Ref(p))
          /\ Goto(p, "license")
          /\ UNCHANGED entry
    /\ UNCHANGED <<job, token, host, i, seen, skipped, index, dirs, cache, late, hub>>

HealLicense_Always(p) ==
    /\ at[p] = "heal"
    /\ \/ /\ entry' = [entry EXCEPT ![p] = Confirmed(Ref(p))]
          /\ Asked(Ref(p))
       \/ /\ entry' = [entry EXCEPT ![p].checked = TRUE]
          /\ UNCHANGED blank
    /\ Goto(p, "putHealed")
    /\ UNCHANGED <<job, token, host, i, seen, skipped, index, dirs, cache, late, listing>>

\* Only a lookup the hub answers marks the entry as checked.
HealLicense(p) ==
    /\ at[p] = "heal"
    /\ \/ /\ entry' = [entry EXCEPT ![p] = Confirmed(Ref(p))]
          /\ Asked(Ref(p))
          /\ Goto(p, "putHealed")
       \/ /\ Goto(p, "write")
          /\ UNCHANGED <<entry, blank>>
    /\ UNCHANGED <<job, token, host, i, seen, skipped, index, dirs, cache, late, listing>>

PutHealed(p) ==
    /\ at[p] = "putHealed"
    /\ Store(p, Ref(p), entry[p])
    /\ Goto(p, "write")
    /\ UNCHANGED <<job, token, host, i, seen, entry, skipped, index, dirs, hub>>

LookUpLicense_OrNothing(p) ==
    /\ at[p] = "license"
    /\ \/ /\ entry' = [entry EXCEPT ![p] = Confirmed(Ref(p))]
          /\ Asked(Ref(p))
       \/ /\ entry' = [entry EXCEPT ![p] = NoEntry]
          /\ UNCHANGED blank
    /\ Goto(p, "host")
    /\ UNCHANGED <<job, token, host, i, seen, skipped, index, dirs, cache, late, listing>>

\* On a miss the license is looked up first; not knowing it stops nothing.
LookUpLicense(p) ==
    /\ at[p] = "license"
    /\ \/ /\ entry' = [entry EXCEPT ![p] = Confirmed(Ref(p))]
          /\ Asked(Ref(p))
       \/ /\ entry' = [entry EXCEPT ![p] = Unchecked]
          /\ UNCHANGED blank
    /\ Goto(p, "host")
    /\ UNCHANGED <<job, token, host, i, seen, skipped, index, dirs, cache, late, listing>>

ResolveRegistryHost_LosesTheError(p) ==
    /\ at[p] = "host"
    /\ \/ /\ host' = [host EXCEPT ![p] = IF @ = "unknown" THEN "known" ELSE @]
          /\ Goto(p, "mint")
          /\ UNCHANGED <<i, skipped>>
       \/ /\ host[p] = "unknown"
          /\ host' = [host EXCEPT ![p] = "failed"]
          /\ SkipReference(p)
    /\ UNCHANGED <<job, token, seen, entry, index, dirs, cache, late, hub>>

\* Discovery happens at the first miss, unless the primary has done it, and
\* once; its failure is remembered too.
ResolveRegistryHost(p) ==
    /\ at[p] = "host"
    /\ \/ /\ host[p] # "failed"
          /\ Discover(p)
          /\ Goto(p, "mint")
          /\ UNCHANGED <<i, skipped>>
       \/ /\ host[p] # "known"
          /\ host' = [host EXCEPT ![p] = "failed"]
          /\ SkipReference(p)
    /\ UNCHANGED <<job, token, seen, entry, index, dirs, cache, late, hub>>

MintRefPullToken_Reuses(p) ==
    /\ at[p] = "mint"
    /\ token' = [token EXCEPT ![p] = IF @ = NoToken THEN Ref(p) ELSE @]
    /\ Goto(p, "pull")
    /\ UNCHANGED <<job, host, i, seen, entry, skipped, index, dirs, cache, late, hub>>

\* Each repository needs a token of its own; the user's credential wins.
MintRefPullToken(p) ==
    /\ at[p] = "mint"
    /\ \/ /\ token' = [token EXCEPT ![p] = IF job[p].userCreds THEN @ ELSE Ref(p)]
          /\ Goto(p, "pull")
          /\ UNCHANGED <<i, skipped>>
       \/ /\ ~job[p].userCreds
          /\ SkipReference(p)
          /\ UNCHANGED token
    /\ UNCHANGED <<job, host, seen, entry, index, dirs, cache, late, hub>>

\* registry.UnpackRemote: not there, or not to be had now.
PullReference(p) ==
    /\ at[p] = "pull"
    /\ \/ /\ Content[Ref(p)] # "absent"
          /\ Goto(p, "put")
          /\ UNCHANGED <<i, skipped>>
       \/ SkipReference(p)
    /\ UNCHANGED <<job, token, host, seen, entry, index, dirs, cache, late, hub>>

PutReference_WithImports(p) ==
    /\ at[p] = "put"
    /\ IF job[p].caching THEN Store(p, Ref(p), entry[p]) ELSE UNCHANGED <<cache, late>>
    /\ Goto(p, "write")
    /\ UNCHANGED <<job, token, host, i, seen, entry, skipped, index, dirs, hub>>

\* An entry cannot hold imports: such a bundle is served, not cached.
PutReference(p) ==
    /\ at[p] = "put"
    /\ IF job[p].caching /\ Content[Ref(p)] # "imports"
       THEN Store(p, Ref(p), entry[p]) ELSE UNCHANGED <<cache, late>>
    /\ Goto(p, "write")
    /\ UNCHANGED <<job, token, host, i, seen, entry, skipped, index, dirs, hub>>

-----------------------------------------------------------------------------
(* Writing.                                                                *)

OnDisk(p, amount) == dirs' = [dirs EXCEPT ![p][Ref(p)] = amount]

WriteReference_Lazily(p) ==
    /\ at[p] = "write"
    /\ \/ /\ Content[Ref(p)] \notin {"empty", "unsafe"}
          /\ OnDisk(p, "part")
          /\ Goto(p, "finish")
          /\ UNCHANGED <<i, skipped>>
       \/ /\ Content[Ref(p)] # "empty"
          /\ OnDisk(p, "part")
          /\ SkipReference(p)
       \/ /\ SkipReference(p)
          /\ UNCHANGED dirs
    /\ UNCHANGED <<job, token, host, seen, entry, index, cache, late, hub>>

\* A bundle without files, or with an unsafe name among them, is skipped before
\* anything is written; a failing write may leave files behind.
WriteReference(p) ==
    /\ at[p] = "write"
    /\ \/ /\ Content[Ref(p)] \notin {"empty", "unsafe"}
          /\ OnDisk(p, "part")
          /\ \/ Goto(p, "finish") /\ UNCHANGED <<i, skipped>>
             \/ SkipReference(p)
       \/ /\ SkipReference(p)
          /\ UNCHANGED dirs
    /\ UNCHANGED <<job, token, host, seen, entry, index, cache, late, hub>>

\* The last of the files and bundle.json; then the reference gets its row.
FinishReference(p) ==
    /\ at[p] = "finish"
    /\ \/ /\ OnDisk(p, "whole")
          /\ index' = [index EXCEPT ![p] = Append(@, Ref(p))]
          /\ i' = [i EXCEPT ![p] = @ + 1]
          /\ Goto(p, "next")
          /\ UNCHANGED skipped
       \/ /\ SkipReference(p)
          /\ UNCHANGED <<index, dirs>>
    /\ UNCHANGED <<job, token, host, seen, entry, cache, late, hub>>

\* Writing references/index.json is the one step of the loop that is fatal.
WriteIndex(p) ==
    /\ at[p] = "index"
    /\ \E l \in Ended : Goto(p, l)
    /\ UNCHANGED <<job, token, host, i, seen, entry, skipped, index, dirs, cache, late, hub>>

-----------------------------------------------------------------------------
(* The environment.                                                        *)

Abort(p) ==
    /\ at[p] \in Steps
    /\ Goto(p, "failed")
    /\ UNCHANGED <<job, token, host, i, seen, entry, skipped, index, dirs, cache, late, hub>>

\* The user clears the cache, or an entry no longer reads back whole.
Lose(c) ==
    /\ cache[c] # NoEntry
    /\ cache' = [cache EXCEPT ![c] = NoEntry]
    /\ UNCHANGED <<local, late, hub>>

\* Somebody publishes the version, and the hub lists it with its license.
List(c) ==
    /\ c \in Moving /\ listing[c] = "unlisted"
    /\ listing' = [listing EXCEPT ![c] = "listed"]
    /\ UNCHANGED <<local, cache, late, blank>>

\* Its owner yanks it: the catalog does not list it any more.
Yank(c) ==
    /\ c \in Moving /\ listing[c] = "listed"
    /\ listing' = [listing EXCEPT ![c] = "yanked"]
    /\ UNCHANGED <<local, cache, late, blank>>

Step(p) ==
    \/ Begin(p) \/ PrimaryHit(p) \/ PrimaryPull(p) \/ PutPrimary(p)
    \/ EndLoop(p) \/ NotRecognized(p) \/ PassOver(p) \/ TakeUp(p)
    \/ GetReference(p) \/ HealLicense(p) \/ PutHealed(p) \/ LookUpLicense(p)
    \/ ResolveRegistryHost(p) \/ MintRefPullToken(p) \/ PullReference(p)
    \/ PutReference(p) \/ WriteReference(p) \/ FinishReference(p)
    \/ WriteIndex(p)

Next ==
    \/ \E p \in Procs : Step(p) \/ Abort(p)
    \/ \E c \in Coords : Lose(c) \/ List(c) \/ Yank(c)

Spec == Init /\ [][Next]_vars

-----------------------------------------------------------------------------
(* Properties.                                                             *)

\* A pull of a reference presents the user's credential if there is one, and
\* otherwise a token for that very repository, whatever the primary and the
\* earlier references left in the environment (unpack.go:694).
TokenFitsRepository ==
    \A p \in Procs :
        at[p] = "pull" =>
            token[p] = IF job[p].userCreds THEN User ELSE Ref(p)

\* The position at which a coordinate is referred to first.
First(p, n) ==
    \A m \in 1..(n - 1) : job[p].refs[m] # job[p].refs[n]

Indexed(p, c) == \E k \in 1..Len(index[p]) : index[p][k] = c

\* When the loop is over every reference is accounted for: an unrecognized one
\* is skipped, and of each coordinate the first mention is either indexed or
\* skipped, never both, unless it is the primary, and no mention is counted
\* twice (unpack.go:421).
EveryReferenceAccounted ==
    \A p \in Procs :
        at[p] = "done" /\ job[p].name = "unpack" =>
            /\ \A n \in 1..Len(job[p].refs) :
                  LET ref == job[p].refs[n] IN
                  n \in skipped[p] <=>
                      \/ ref = Elsewhere
                      \/ /\ First(p, n)
                         /\ ref # job[p].primary /\ ~Indexed(p, ref)
            /\ \A k, m \in 1..Len(index[p]) : index[p][k] = index[p][m] => k = m

\* A row of the index names a reference whose files are all on disk; files
\* without a row are left only by a write that failed, never by a bundle that
\* was refused (unpack.go:618).
IndexMatchesDisk ==
    \A p \in Procs, c \in Coords :
        /\ Indexed(p, c) <=> dirs[p][c] = "whole"
        /\ dirs[p][c] # "none" => Content[c] \in {"file", "imports"}

\* What an entry may say of a license.
Truthful(c, e) ==
    IF e.checked THEN e.license = License[c] \/ (e.license = NoLicense /\ c \in blank)
                 ELSE e.license = NoLicense

\* An entry that is stored or served is marked as checked only after the hub
\* answered, and carries no license but the one the hub gave: none is confirmed
\* only if the version has none or was not listed when somebody asked, though
\* several invocations write the entry and lookups fail (cache.go:58).
LicenseIsWhatTheHubSaid ==
    /\ \A c \in Coords : cache[c] # NoEntry => Truthful(c, cache[c])
    /\ \A p \in Procs : at[p] \in {"write", "finish"} => Truthful(Ref(p), entry[p])

\* e says less of the license than f.
Forgets(e, f) == (f.checked /\ ~e.checked) \/ (f.license # NoLicense /\ e.license = NoLicense)

\* What the hub answered is kept: a put takes it back only if its invocation had
\* read the cache before the answer was stored there (fetch.go:194, unpack.go:576).
ConfirmationsAreKept ==
    [][\A c \in Coords :
          cache[c] # NoEntry /\ cache'[c] # NoEntry /\ Forgets(cache'[c], cache[c]) =>
              \E p \in Procs : <<p, c>> \in late /\ at'[p] # at[p]]_vars

\* What discovery has found is not asked again, its failure no more than its
\* result, and no reference is pulled from a registry that was not discovered
\* (unpack.go:388).
DiscoveryIsFinal ==
    [][\A p \in Procs :
          /\ host[p] # "unknown" => host'[p] = host[p]
          /\ at'[p] = "pull" => host'[p] = "known"]_vars

\* What is cached reads back as what was pulled: a bundle with imports, which
\* an entry cannot hold, is never stored (unpack.go:573, fetch.go:181).
CacheDropsNothing ==
    \A c \in Coords : cache[c] # NoEntry => Content[c] \notin {"imports", "absent"}
=============================================================================
