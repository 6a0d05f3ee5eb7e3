------------------------- MODULE OrganizerProperties -------------------------
(* What organizing the library promises.                                   *)
EXTENDS Organizer

\* Histories, read only by the properties.
VARIABLES
  excused,   \* files whose rows a named fault has cut loose
  appeared   \* paths other programs have written to during this apply

vars == <<organizerVars, excused, appeared>>

Init == OrganizerInit /\ excused = {} /\ appeared = {}

\* A step of another program: the disk changes, the apply does not.
ByOthers == work' = work /\ disk' # disk

\* What a step costs: a crash or a failed update the files of the apply, a
\* failed move back its file, another program what it removes.
CutLoose ==
  CASE ~Quiet /\ work' = NoWork /\ work.at = "moving" /\ files' = files ->
         MovedFiles
    [] ~Quiet /\ work' = NoWork /\ work.at = "rolling" /\ work.done # {}
         /\ events' > events -> MovedFiles
    [] work.at = "rolling" /\ work'.at = "rolling" /\ events' > events
         /\ work' # work -> work.done \ work'.done
    [] OTHER -> {}

Remembers ==
  /\ excused' = excused \cup CutLoose
       \cup IF ByOthers THEN {disk[p] : p \in DOMAIN disk \ DOMAIN disk'}
            ELSE {}
  /\ appeared' = IF work'.at = "idle" THEN {}
                 ELSE IF ByOthers
                      THEN appeared \cup (DOMAIN disk' \ DOMAIN disk)
                      ELSE appeared

Next == OrganizerNext /\ Remembers

Spec == Init /\ [][Next]_vars

(* Every variable keeps its type: a preferred root folder exists, rows are *)
(* of books that exist, no two rows share a path.                          *)
TypeOK ==
  /\ roots \subseteq Root /\ rename_files \in BOOLEAN /\ locked \in BOOLEAN
  /\ \A b \in DOMAIN books :
       books[b].title \in Title /\ books[b].root \in roots \cup {0}
  /\ \A f \in DOMAIN files : BookOf[f] \in DOMAIN books
  /\ \A f, g \in DOMAIN files : files[f] = files[g] => f = g
  /\ \A p \in DOMAIN disk : disk[p] \in File \cup {Torn, Other}
  /\ work.at \in {"idle", "moving", "rolling"}
  /\ work.done \subseteq MovedFiles

(* Between two requests the row of a file names the path that holds it,    *)
(* unless the process was killed during its apply, the update of the paths *)
(* failed (a held write lock, a path another row still names), a move back *)
(* failed, or another program removed the file.  A failed move alone, torn *)
(* or not, is undone.                                                      *)
RowsNameOwnFile ==
  Quiet => \A f \in DOMAIN files :
    \/ f \in excused
    \/ files[f] \in DOMAIN disk /\ disk[files[f]] = f

(* Organizing destroys nothing: what a file holds is still somewhere on    *)
(* disk after every step of this program, except for files other programs  *)
(* left in the way after the preview had looked, and torn copies.          *)
NothingDestroyed ==
  [][ByOthers \/
     \A p \in DOMAIN disk :
       \/ disk[p] = Torn \/ p \in appeared
       \/ p \in DOMAIN disk' /\ disk'[p] = disk[p]
       \/ \E q \in DOMAIN disk' \ {p} :
            disk'[q] = disk[p] /\ q \notin DOMAIN disk \ appeared]_vars
=============================================================================
