----------------------------- MODULE MCOrganizer -----------------------------
(* A book of three files whose title is cleaned to that of a folder in     *)
(* use, a second book with two names that are cleaned to one, and a title  *)
(* that is a symbolic link.                                                *)
EXTENDS OrganizerProperties

At(root, folder, stem) ==
  [root |-> root, folder |-> folder, stem |-> stem, suffix |-> ".m4b"]

MCBook == {1, 2}
MCFile == 1 .. 5
MCRoot == {1, 2}
MCBookOf == (1 :> 1 @@ 2 :> 1 @@ 3 :> 2 @@ 4 :> 2 @@ 5 :> 1)
MCAuthor == (1 :> "A" @@ 2 :> "")
MCFirstTitle == (1 :> "Dune?" @@ 2 :> "Emma")
MCTitle == {"Dune?", "Dune", "Emma", "link"}
MCFirstPath ==
  (1 :> At(1, <<"in">>, "part1") @@ 2 :> At(1, <<"in">>, "part2")
     @@ 3 :> At(1, <<"Dune">>, "part1") @@ 4 :> At(1, <<"in">>, "part1?")
     @@ 5 :> At(1, <<"in">>, "part3"))
MCPattern == {<<"title">>, <<"author", "series">>}
MCClean == ("Dune?" :> "Dune" @@ "part1?" :> "part1")
MCLinks == {"link"}
=============================================================================
