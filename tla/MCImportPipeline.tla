-------------------------- MODULE MCImportPipeline --------------------------
(***************************************************************************)
(* Instances of the import pipeline for TLC.                               *)
(***************************************************************************)
EXTENDS ImportProperties, TLC

\* A download in a folder further down, and a folder of the library.
TwoFolders == {<<"nested", "away">>, <<"shelf", "home">>}

\* A folder of the library alone, or audio files that lie in the root itself.
HomeFolder == {<<"shelf", "home">>}
LooseFolder == {<<"shelf", "away">>}

\* Both folders hold the same book for a search, and the nested one carries
\* its ASIN; an operator's match may name another book for either.
HitsOf == [n \in Name |-> {"b1"}]
AsinInName == [n \in Name |-> IF n = "nested" THEN "b1" ELSE NoBook]

ClientOfItem == [i \in Item |-> IF i = "torrent" THEN "qb" ELSE "sab"]
FolderOfItem == [i \in Item |-> CASE i = "torrent" -> <<"nested", "away">>
                                  [] i = "stray" -> <<"shelf", "outside">>
                                  [] OTHER -> <<"shelf", "home">>]
=============================================================================
