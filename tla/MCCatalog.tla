----------------------------- MODULE MCCatalog -----------------------------
(* The catalog with two table names, one a prefix of the other, and two    *)
(* schemas of different lengths for the first.  8 bytes stand for the 256. *)
EXTENDS Catalog, TLC

MCTableNames == {<<1>>, <<1, 0>>}
MCSchemas ==
    (<<1>> :> {<<"int">>, <<"text", "int">>}) @@ (<<1, 0>> :> {<<"int">>})
MCUserKeys == {<<7>>}
MCScanPrefixes == {<< >>, <<6, 7>>, <<7>>}
MCProjectName == <<3>>
MCDatasetName == <<4>>
============================================================================
