---------------------------- MODULE MCReferences ----------------------------
(***************************************************************************)
(* Reference resolution for TLC: an artifact m that lists references, the  *)
(* artifacts it lists, and a cat that shares the cache.                    *)
(***************************************************************************)
EXTENDS References, TLC

CONSTANTS p1, p2,         \* invocations
          m, a, b, c, d,  \* coordinates: the primary, and its references
          mit             \* a license

Mixed == [x \in Coords |-> CASE x = b -> "unsafe" [] x = c -> "empty"
                             [] x = d -> "imports" [] OTHER -> "file"]

Licensed == [x \in Coords |-> IF x = b THEN NoLicense ELSE mit]

\* It lists itself, and another artifact twice.
Unpack == [name |-> "unpack", primary |-> m, refs |-> <<a, m, a>>,
           caching |-> TRUE, verifies |-> TRUE, userCreds |-> FALSE]
\* Its primary is the reference of Unpack, cached without its license.
Back == [Unpack EXCEPT !.primary = a, !.refs = <<Elsewhere, b, d>>,
                       !.verifies = FALSE, !.userCreds = TRUE]
Cat == [Unpack EXCEPT !.name = "cat", !.refs = <<>>, !.primary = c,
                       !.caching = FALSE, !.verifies = FALSE]
MCJobs == {Unpack, Back, Cat}
=============================================================================
