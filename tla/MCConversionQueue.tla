-------------------------- MODULE MCConversionQueue --------------------------
(***************************************************************************)
(* Instances of the conversion queue for TLC.                              *)
(***************************************************************************)
EXTENDS ConversionProperties, TLC

\* Books whose titles have little in common: a title recognises its book.
DistinctTitles == [t \in Book |-> [b \in Book |-> IF t = b THEN 100 ELSE 20]]

\* Volumes of one series: any title resembles every other one.
SeriesTitles == [t \in Book |-> [b \in Book |-> IF t = b THEN 100 ELSE 90]]

\* The hook script of contrib/ sends a title; another caller adds the job id.
TitledHints == {{"title"}, {"title", "job"}}
TitleOnly == {{"title"}}

\* The operator uses either backend, deleting originals with the converter
\* that imports its result.
BackendSettings ==
  {[backend |-> "m4b-convertarr", deleteOriginals |-> TRUE],
   [backend |-> "command", deleteOriginals |-> FALSE]}

\* The operator may also switch conversion off.
OperatorSettings ==
  BackendSettings \cup {[backend |-> "disabled", deleteOriginals |-> TRUE]}

\* Both books play the same part in every instance.
BookSymmetry == Permutations(Book)
=============================================================================
