---------------------------- MODULE DownloadLedger ----------------------------
(***************************************************************************)
(* What the pollers promise about one finished download: it is settled     *)
(* once, only a torrent may be tried again, and it is called imported only *)
(* together with, or after, the entry of its book in the library.          *)
(***************************************************************************)
CONSTANTS Item, Retryable

VARIABLES
  phase,      \* what is recorded of each download
  registered  \* the downloads whose book is in the library

vars == <<phase, registered>>

Final == {"imported", "failed", "skipped"}

Init ==
  /\ phase = [i \in Item |-> "none"]
  /\ registered = {}

Register == registered \subseteq registered' /\ registered' \subseteq Item

Settle(i, p) ==
  /\ phase[i] \in {"none", "retry"}
  /\ phase' = [phase EXCEPT ![i] = p]
  /\ p = "retry" => i \in Retryable
  /\ p = "imported" => i \in registered'

Next ==
  /\ Register
  /\ \/ UNCHANGED phase
     \/ \E i \in Item, p \in Final \cup {"retry"} : Settle(i, p)

Spec == Init /\ [][Next]_vars
=============================================================================
