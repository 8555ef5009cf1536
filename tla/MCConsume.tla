------------------------------ MODULE MCConsume ------------------------------
(***************************************************************************)
(* Publishers and readers of one coordinate for TLC.                       *)
(***************************************************************************)
EXTENDS Consume, TLC

CI == [dryRun |-> FALSE, url |-> TRUE, plain |-> TRUE,
       noSign |-> FALSE, gha |-> TRUE, idToken |-> TRUE,
       key |-> FALSE, cosign |-> FALSE, regCreds |-> FALSE]
Local == [CI EXCEPT !.gha = FALSE, !.idToken = FALSE,
                    !.key = TRUE, !.cosign = TRUE]
Unsigned == [CI EXCEPT !.noSign = TRUE]

CIOnly == {CI}
MixedConfigs == {CI, Local, Unsigned}

Unpack == [name |-> "unpack", caching |-> TRUE, noVerify |-> FALSE, key |-> FALSE]
Cat == [Unpack EXCEPT !.name = "cat"]
\* After its fetch it does what cat does.
Insecure == [Unpack EXCEPT !.noVerify = TRUE]
WithKey == [Unpack EXCEPT !.key = TRUE, !.caching = FALSE]
VerifyKeyless == [Unpack EXCEPT !.name = "verify"]
VerifyKey == [VerifyKeyless EXCEPT !.key = TRUE]

AllCommands == {Unpack, Insecure, WithKey, VerifyKeyless, VerifyKey}
CachedCommands == {Unpack, Cat}

ReaderSymmetry == Permutations(Readers)
=============================================================================
