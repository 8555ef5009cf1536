----------------------------- MODULE Coordinate -----------------------------
(***************************************************************************)
(* What publishing promises the readers of ONE coordinate                  *)
(* <namespace>/<id>:<version>: until the hub lists the version its bytes   *)
(* are a draft that may still be replaced; once listed they never change   *)
(* again, and a yanked version is never listed a second time.              *)
(***************************************************************************)
CONSTANTS Manifests,   \* manifests a publisher may upload
          NoManifest   \* the tag does not exist

VARIABLES bytes,       \* the manifest the tag resolves to
          state        \* "absent", "present" or "tombstoned" at the hub

vars == <<bytes, state>>

TypeOK ==
    /\ bytes \in Manifests \cup {NoManifest}
    /\ state \in {"absent", "present", "tombstoned"}

Init ==
    /\ bytes = NoManifest
    /\ state = "absent"

\* A draft is uploaded, or replaced by another one.
Draft ==
    /\ state = "absent"
    /\ bytes' \in Manifests
    /\ UNCHANGED state

\* The hub lists the version; its bytes are frozen from here on.
Freeze ==
    /\ state = "absent"
    /\ bytes # NoManifest
    /\ state' = "present"
    /\ UNCHANGED bytes

\* The owner withdraws a listed version.
Yank ==
    /\ state = "present"
    /\ state' = "tombstoned"
    /\ UNCHANGED bytes

Next == Draft \/ Freeze \/ Yank

Spec == Init /\ [][Next]_vars
=============================================================================
