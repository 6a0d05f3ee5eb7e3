------------------------- MODULE MCBackgroundTasks -------------------------
(* Two of the five scheduler loops: one that runs at once and the backup's.*)
EXTENDS BackgroundTasks
MCStopOrder == <<"import_scan", "backup">>

(* The baseline, which may be run again, and a script that may not.        *)
MCStatements == <<1, 2>>
=============================================================================
