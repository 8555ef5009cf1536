---------------------------- MODULE MCOutputTree ----------------------------
(***************************************************************************)
(* Bundles with clashing names, references good and bad, and directories   *)
(* that are empty, left by an earlier unpack or in the way, for TLC.       *)
(***************************************************************************)
EXTENDS OutputTree, TLC

CONSTANTS body, other, meta,  \* contents of this unpack
          old                 \* and of an earlier one

Named(n, c) == [name |-> n, data |-> c]
A == <<"a">>
RoundAbout == <<"x", "..", ".", "a">>
Upwards == <<"..", "a">>

Sources == {<<>>} \cup {<<Named(n, body)>> :
               n \in {A, Upwards, <<"/", "a">>, <<".">>, <<"imports", "a">>, <<"bundle.json">>,
                     <<"references", "imports", "n", "g", "a">>}}
Imports == {<<>>, <<Named(A, other)>>, <<Named(RoundAbout, other), Named(A, body)>>,
            <<Named(Upwards, other)>>}

Good == [dir |-> <<"imports", "n", "g">>, files |-> <<Named(A, body)>>, manifest |-> meta]
\* The second name is refused; an entry of the cache may list several files.
Bad == [dir |-> <<"extends", "n", "b">>, manifest |-> meta,
        files |-> <<Named(A, body), Named(<<"..", "..", "a">>, other)>>]
Odd == [dir |-> <<"lexicon", "n", "o">>, manifest |-> NoManifest,
        files |-> <<Named(<<"bundle.json">>, body)>>]
RefLists == {<<>>, <<Good, [Odd EXCEPT !.manifest = meta]>>, <<Bad, Odd>>,
             <<[Odd EXCEPT !.files = <<>>], Good>>}

Root == <<>> :> Dir
Left == Root @@ (A :> old) @@ (<<"bundle.json">> :> old)
             @@ (<<"references">> :> Dir) @@ (<<"references", "index.json">> :> IndexData)
InTheWay == Root @@ (<<"imports">> :> old) @@ (<<"references">> :> Dir)
                 @@ (<<"references", "imports">> :> old) @@ (<<"a">> :> Dir)

MCSegments == {"references", "imports", "bundle.json", "index.json", "/", ".", "..",
               "a", "b", "g", "n", "o", "x", "extends", "lexicon"}

MCJobs == {[job |-> [files |-> f, imports |-> i, manifest |-> m, refs |-> l], tree |-> t] :
              f \in Sources, i \in Imports, m \in {meta, NoManifest},
              l \in RefLists, t \in {Root, Left, InTheWay}}
=============================================================================
