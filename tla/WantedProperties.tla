-------------------------- MODULE WantedProperties --------------------------
(* What the search for better releases promises.                           *)
EXTENDS WantedSearch

\* The jobs the scheduler was told of, for books that have been wanted
\* at every tick since: a history, read only by the properties.
VARIABLE told

vars == <<wantedVars, told>>

Init == WantedInit /\ told = {}

Written == {rows'[b].nzo : b \in {b \in Book : rows'[b] # rows[b]}} \ {0}

\* A tick that finds rows to drop or books to search.
Began ==
  /\ task["tick"].at = "idle" /\ jobs' = jobs
  /\ task'["tick"].at # "idle" \/ rows' # rows

Remembers ==
  told' = (told \cup Written)
            \ IF Began
              THEN {j \in told : ~IsCandidate(jobs[j].book, settings)} ELSE {}

Next == WantedNext /\ Remembers

Spec == Init /\ [][Next]_vars

JobStates == {"queued", "completed", "failed", "imported", "removed"}

(* Every variable keeps its type: a row says one of the two words the      *)
(* table allows, a task is at one of its awaits.                           *)
TypeOK ==
  /\ settings \in DOMAIN Settings
  /\ \A b \in Book :
       /\ books[b].monitored \in BOOLEAN
       /\ rows[b].status \in {"none", "no_release", "grabbed"}
       /\ rows[b].nzo \in 0 .. MaxJobs
  /\ \A j \in DOMAIN jobs :
       jobs[j].book \in Book /\ jobs[j].state \in JobStates
  /\ \A a \in Actor :
       /\ task[a].at \in {"idle", "search", "fetch", "taken"}
       /\ (task[a].at = "idle") = (task[a].todo = {})

Takes(a) == Len(jobs') > Len(jobs) /\ jobs'[Len(jobs')].by = a

(* The duplicate-grab guard: the scheduler hands over a second release for *)
(* a book only if it was never told that its first one was taken (the      *)
(* answer was lost, an exception, a crash), if the first one is no longer  *)
(* under way, if a user asked for the first one, or if the book was not    *)
(* wanted for the length of a tick.                                        *)
InFlightNotRepeated ==
  [][Takes("tick") =>
       \A j \in DOMAIN jobs :
         \/ jobs[j].book # jobs'[Len(jobs')].book
         \/ jobs[j].state \notin {"queued", "completed"}
         \/ jobs[j].by = "user"
         \/ j \notin told]_vars

(* A book is held back from later searches only for a release the download *)
(* client really took, and took for that book.                             *)
GrabbedIsTaken ==
  \A b \in Book : rows[b].status = "grabbed" =>
    /\ rows[b].nzo \in DOMAIN jobs
    /\ jobs[rows[b].nzo].book = b /\ jobs[rows[b].nzo].by = "tick"

\* The tiers of the profile of b that a name meets, as the profile lists
\* them; independent of the order of evaluation.
Meets(name, b, of) ==
  FittingTiers(infer_quality_from_name(Signals[name]),
               resolve_quality_profile(b, of), of.definitions)

Blocked(name, of) ==
  \E i \in DOMAIN of.preferences.blocked :
    /\ of.preferences.blocked[i].enabled
    /\ of.preferences.blocked[i].term \in Signals[name].terms

(* What is grabbed unattended carries no blocked term, and nothing else    *)
(* that was offered, could be grabbed and reaches the minimum score meets  *)
(* a better tier of the book's profile.                                    *)
GrabsTheBest ==
  [][Takes("tick") =>
       LET now == task["tick"]
           b == InWork("tick")
           of == Settings[now.of]
           got == jobs'[Len(jobs')].name
       IN  /\ ~Blocked(got, of)
           /\ \A i \in DOMAIN now.offered :
                LET other == now.offered[i].name
                IN  \/ Blocked(other, of)
                    \/ score_release(Signals[other], of.preferences).score
                         < of.preferences.minimum
                    \/ \A t \in Meets(other, b, of) :
                         \/ t > CutoffTier(resolve_quality_profile(b, of))
                         \/ \E u \in Meets(got, b, of) : u <= t]_vars

(* The hold of a book lasts as long as the book is wanted: the scheduler   *)
(* searches and grabs nothing for a book whose row says "grabbed", and     *)
(* only the start of a tick that finds it no longer below the cutoff,      *)
(* through a conversion, another profile or a deletion, drops the row.     *)
(* Neither a download that failed or was removed nor one that was imported *)
(* does: the importer attaches nothing to a book that is there.            *)
HeldWhileWanted ==
  [][\A b \in Book :
       /\ rows[b].status = "grabbed"
       /\ rows'[b] # rows[b] \/ (Takes("tick") /\ jobs'[Len(jobs')].book = b)
       => Began /\ ~IsCandidate(b, settings)]_vars
=============================================================================
