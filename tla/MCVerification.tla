--------------------------- MODULE MCVerification ---------------------------
(***************************************************************************)
(* One call for TLC: calls share nothing but what others do to the         *)
(* registry and the hub.                                                   *)
(***************************************************************************)
EXTENDS Verification

CONSTANTS c1, gha, gitlab,  \* issuers
          w, v,         \* workflow paths
          main, rel,    \* git refs
          d1, d2        \* manifests

WMain == [path |-> w, ref |-> main]
WRel == [path |-> w, ref |-> rel]
VMain == [path |-> v, ref |-> main]

Good == [subject |-> d1, type |-> "bundle", form |-> "certified", over |-> d1,
         san |-> WMain, issuer |-> gha]
MCReferrers ==
    {Good,
     [Good EXCEPT !.type = "cosign", !.san = WRel],
     [Good EXCEPT !.issuer = gitlab],
     [Good EXCEPT !.san = VMain, !.subject = d2, !.over = d2],
     [Good EXCEPT !.subject = d2],                        \* copied from d1
     [Good EXCEPT !.type = "cosign", !.form = "keySigned"],
     [Good EXCEPT !.form = "garbled"],
     [Good EXCEPT !.type = "other", !.form = "noLayer"],
     [Good EXCEPT !.subject = d2, !.form = "noLayer"]}

Keyless == [name |-> "unpack", key |-> FALSE, identity |-> WMain, issuer |-> None]
ZeroFlag == [Keyless EXCEPT !.identity = None]
WithKey == [ZeroFlag EXCEPT !.key = TRUE]
MCRequests ==
    {Keyless, ZeroFlag, WithKey,
     [Keyless EXCEPT !.issuer = gitlab],
     [ZeroFlag EXCEPT !.issuer = gitlab],
     [WithKey EXCEPT !.name = "verify"],
     [WithKey EXCEPT !.identity = WMain]}

Recorded == [scheme |-> "keyless", path |-> w, issuer |-> gha]
MCHubRecords ==
    {Recorded, [Recorded EXCEPT !.path = v], [Recorded EXCEPT !.issuer = None]}
=============================================================================
