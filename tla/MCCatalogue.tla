----------------------------- MODULE MCCatalogue -----------------------------
(* Two ids, known to both providers; one follow.                           *)
EXTENDS CatalogueProperties

Hit(provider, id) == [provider |-> provider, id |-> id]
Sel(key, provider, id) ==
  [key |-> key, provider |-> provider, id |-> id, locale |-> "us"]

MCProvider == {"audible", "audnexus"}
MCId == {1, 2}
MCLocale == {"us", "de"}
MCDate == {0, 2}
MCName == {"author"}
MCHits == [n \in MCName |-> {Hit("audible", 1), Hit("audible", 2)}]
MCSelections == {<<Sel("k", "audible", 1), Sel("k", "audible", 2)>>,
                 <<Sel("k", "none", 0), Sel("l", "audnexus", 1)>>}
=============================================================================
