----------------------------- MODULE MCSources ------------------------------
(***************************************************************************)
(* One or two files and an author, for TLC.                                *)
(***************************************************************************)
EXTENDS Sources

CONSTANTS f, g,                \* paths
          catalog, policy,     \* types: a mergeable one, one that is not
          id1, id2, v1, v2

Whole == [parses |-> TRUE, type |-> catalog, id |-> id1, version |-> v1,
          gemara |-> TRUE, fits |-> {catalog}]
MCContents ==
    {Whole,
     [Whole EXCEPT !.version = v2],
     [Whole EXCEPT !.id = id2, !.version = None],
     [Whole EXCEPT !.type = policy],               \* a policy in name only
     [Whole EXCEPT !.parses = FALSE, !.type = None]}

Single == [files |-> <<f>>, want |-> None, validates |-> TRUE]
Two == [Single EXCEPT !.files = <<f, g>>]
MCJobs == {Single, Two,
           [Single EXCEPT !.want = v1], [Two EXCEPT !.want = v2, !.validates = FALSE]}
=============================================================================
