------------------------------ MODULE MCWanted ------------------------------
(* A profile of three tiers like the default one with the cutoff at the    *)
(* second, a book in each of its lower tiers, and offers with a blocked    *)
(* term, a torrent and a bitrate out of every band.                        *)
EXTENDS WantedProperties, TLC

Name(words, rate, chapters, terms) ==
  [words |-> words, rate |-> rate, chapters |-> chapters, terms |-> terms]

MCSignals ==
  [best |-> Name({"m4b"}, 128, TRUE, {"unabridged"}),
   good |-> Name({"m4b"}, 64, FALSE, {}),
   abridged |-> Name({"m4b", "aac"}, 128, TRUE, {"abridged"}),
   large |-> Name({"mp3"}, 320, FALSE, {}),
   small |-> Name({"mp3"}, 96, FALSE, {"unabridged"})]

Rel(name, protocol, link, seeders) ==
  [name |-> name, protocol |-> protocol, link |-> link, seeders |-> seeders]

MCOffers ==
  {<<Rel("good", "torrent", "elsewhere", 5),
     Rel("abridged", "none", "magnet", 9)>>,
   <<Rel("small", "usenet", "nzb", 0), Rel("best", "usenet", "nzb", 1)>>}

MCDefinitions ==
  [high |-> [container |-> "m4b", codec |-> "aac", min |-> 96, max |-> 160,
             chapters |-> "required"],
   mid  |-> [container |-> "m4b", codec |-> "aac", min |-> 32, max |-> 96,
             chapters |-> "preferred"],
   low  |-> [container |-> "mp3", codec |-> "mp3", min |-> 192, max |-> 320,
             chapters |-> "not_required"]]

Profile(name, cutoff, upgrade) ==
  [name |-> name, quality_ids |-> <<"high", "mid", "low">>,
   cutoff_quality_id |-> cutoff, allowed_formats |-> {"m4b", "mp3", "flac"},
   upgrade_allowed |-> upgrade]

MCPreferences ==
  [preferred |-> <<[term |-> "unabridged", score |-> 10, enabled |-> TRUE]>>,
   blocked |-> <<[term |-> "abridged", enabled |-> TRUE],
                 [term |-> "unabridged", enabled |-> FALSE]>>,
   minimum |-> 0]

Doc(sab, profiles) ==
  [indexer |-> TRUE, sab |-> sab, qb |-> TRUE, profiles |-> profiles,
   definitions |-> MCDefinitions, preferences |-> MCPreferences]

MCSettings ==
  [on |-> Doc(TRUE, <<Profile("first", "mid", TRUE),
                      Profile("strict", "high", TRUE)>>),
   off |-> Doc(FALSE, <<Profile("first", "mid", FALSE)>>)]
MCProfileOf == (1 :> "lost" @@ 2 :> "strict")
MCFiles == (1 :> {"large"} @@ 2 :> {"good"})
MCBook == {1, 2}
=============================================================================
