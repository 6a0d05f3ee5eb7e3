------------------------------ MODULE Quality ------------------------------
(***************************************************************************)
(* How Audiarr judges a release or a file by its name (quality.py,         *)
(* release_preferences.py).  A name is what the two modules find in it:    *)
(* the format words, the bitrate (0 without one), whether it speaks of     *)
(* chapters, and the terms of the release preferences it contains.         *)
(* A tier of a profile is a position in its quality_ids; 0 is no tier.     *)
(***************************************************************************)
EXTENDS Integers, Sequences, FiniteSetsExt

NoSignal == "none"
ContainerTokens == <<"m4b", "m4a", "flac", "mp3">>
CodecTokens == <<"aac", "mp3", "flac">>

FirstToken(tokens, words) ==
  LET found == SelectSeq(tokens, LAMBDA t : t \in words)
  IN  IF found = <<>> THEN NoSignal ELSE Head(found)

DefaultCodec(container) == IF container \in {"m4b", "m4a"} THEN "aac"
                                                           ELSE container

infer_quality_from_name(name) ==
  LET container == FirstToken(ContainerTokens, name.words)
      codec == FirstToken(CodecTokens, name.words)
  IN  [container |-> container,
       codec |-> IF codec = NoSignal THEN DefaultCodec(container) ELSE codec,
       rate |-> name.rate,
       chapters |-> name.chapters]

\* A signal that is missing speaks against nothing, except for chapters.
DefinitionFits(inferred, definition) ==
  /\ inferred.container = definition.container
  /\ inferred.codec \in {NoSignal, definition.codec}
  /\ inferred.rate = 0 \/ inferred.rate \in definition.min .. definition.max
  /\ definition.chapters = "required" => inferred.chapters

FittingTiers(inferred, profile, definitions) ==
  {i \in DOMAIN profile.quality_ids :
     /\ profile.quality_ids[i] \in DOMAIN definitions
     /\ DefinitionFits(inferred, definitions[profile.quality_ids[i]])}

\* A cutoff the list does not name is its last tier.
CutoffTier(profile) ==
  LET named == {i \in DOMAIN profile.quality_ids :
                  profile.quality_ids[i] = profile.cutoff_quality_id}
  IN  IF named = {} THEN Len(profile.quality_ids) ELSE Min(named)

TierStatus(tier, profile) ==
  CASE tier = 1 -> "preferred"
    [] tier # 1 /\ tier <= CutoffTier(profile) -> "accepted"
    [] OTHER -> "below_cutoff"

evaluate_quality_for_profile(inferred, profile, definitions) ==
  LET fitting == FittingTiers(inferred, profile, definitions)
  IN  CASE inferred.container = NoSignal ->
             [tier |-> 0, status |-> "unknown"]
        [] inferred.container # NoSignal /\ fitting # {} ->
             [tier |-> Min(fitting),
              status |-> TierStatus(Min(fitting), profile)]
        [] OTHER ->
             [tier |-> 0,
              status |-> IF inferred.container \in profile.allowed_formats
                         THEN "accepted" ELSE "rejected"]

FitOf(name, profile, definitions) ==
  evaluate_quality_for_profile(infer_quality_from_name(name), profile,
                               definitions)

Matching(terms, name) ==
  {i \in DOMAIN terms : terms[i].enabled /\ terms[i].term \in name.terms}

score_release(name, preferences) ==
  LET score == MapThenSumSet(LAMBDA i : preferences.preferred[i].score,
                             Matching(preferences.preferred, name))
  IN  CASE Matching(preferences.blocked, name) # {} ->
             [score |-> 0, status |-> "rejected"]
        [] OTHER ->
             [score |-> score,
              status |-> IF score < preferences.minimum
                         THEN "rejected" ELSE "accepted"]
=============================================================================
