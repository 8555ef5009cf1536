------------------------------ MODULE MCPublish ------------------------------
(***************************************************************************)
(* Configurations of `grcli publish` for TLC.                              *)
(***************************************************************************)
EXTENDS Publish, TLC

\* The defaults of a run with nothing to sign with.
Bare == [dryRun |-> FALSE, url |-> TRUE, plain |-> TRUE,
         noSign |-> FALSE, gha |-> FALSE, idToken |-> FALSE,
         key |-> FALSE, cosign |-> FALSE, regCreds |-> FALSE]

CI == [Bare EXCEPT !.gha = TRUE, !.idToken = TRUE]
Local == [Bare EXCEPT !.key = TRUE, !.cosign = TRUE]
Unsigned == [Bare EXCEPT !.noSign = TRUE, !.regCreds = TRUE]
CINoToken == [Bare EXCEPT !.gha = TRUE, !.key = TRUE, !.cosign = TRUE]
DryRun == [Bare EXCEPT !.dryRun = TRUE]
NoURL == [Local EXCEPT !.url = FALSE]
Nested == [CI EXCEPT !.plain = FALSE]

CheckedConfigs == {CI, Local, Unsigned, CINoToken, Bare, DryRun}
SigningConfigs == {CI, Local}
RaceConfigs == {CI, Local, Nested, NoURL}

=============================================================================
