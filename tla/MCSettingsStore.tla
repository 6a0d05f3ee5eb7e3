-------------------------- MODULE MCSettingsStore --------------------------
(* The names of download clients are interchangeable, and so are pages.    *)
EXTENDS SettingsProperties, TLC
Symmetry == Permutations(Names) \cup Permutations(Page)
=============================================================================
