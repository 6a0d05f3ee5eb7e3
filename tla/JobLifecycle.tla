----------------------------- MODULE JobLifecycle -----------------------------
(***************************************************************************)
(* What the conversion queue promises about one row of conversion_jobs,    *)
(* whatever the worker, the webhook, the API and crashes do to it: a row   *)
(* moves only along the arrows below, and no row reaches an outcome before *)
(* the worker has claimed it at least once.                                *)
(*                                                                         *)
(*   absent -> queued -> running -> completed | failed                     *)
(*   queued -> cancelled, failed | cancelled -> queued, any -> purged      *)
(*   an outcome may overwrite whatever a claimed row has become            *)
(***************************************************************************)
CONSTANT JobId

VARIABLES
  phase,    \* the phase of each job
  claimed   \* the jobs the worker has claimed so far

vars == <<phase, claimed>>

Outcome == {"completed", "failed"}
Phase == Outcome \cup {"none", "queued", "running", "cancelled", "purged"}

Init ==
  /\ phase = [j \in JobId |-> "none"]
  /\ claimed = {}

Move(j, from, to) ==
  /\ phase[j] \in from
  /\ phase' = [phase EXCEPT ![j] = to]

Submit(j) == Move(j, {"none"}, "queued") /\ UNCHANGED claimed
Withdraw(j) == Move(j, {"queued"}, "cancelled") /\ UNCHANGED claimed
Requeue(j) == Move(j, {"failed", "cancelled"}, "queued") /\ UNCHANGED claimed
Claim(j) == Move(j, {"queued"}, "running") /\ claimed' = claimed \cup {j}

\* One answer, one callback, or one pass of the timeout reaper.
Settle(jobs) ==
  /\ jobs \subseteq claimed
  /\ \A j \in jobs : phase[j] # "purged"
  /\ \E outcome \in Outcome :
       phase' = [j \in JobId |-> IF j \in jobs THEN outcome ELSE phase[j]]
  /\ UNCHANGED claimed

Purge(jobs) ==
  /\ phase' = [j \in JobId |-> IF j \in jobs THEN "purged" ELSE phase[j]]
  /\ UNCHANGED claimed

Next ==
  \/ \E j \in JobId : Submit(j) \/ Withdraw(j) \/ Requeue(j) \/ Claim(j)
  \/ \E jobs \in SUBSET JobId : Settle(jobs) \/ Purge(jobs)

Spec == Init /\ [][Next]_vars
=============================================================================
