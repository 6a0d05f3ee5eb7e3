---------------------------- MODULE WantedSearch ----------------------------
(***************************************************************************)
(* The search for better releases: the periodic tick                       *)
(* (wanted_scheduler.py), the search and the grab a user asks for          *)
(* (api/routes_wanted.py, api/routes_releases.py), the download client     *)
(* they hand releases to, and what the user does with its queue and        *)
(* history.  "tick" and "user" are two coroutines of one event loop: a     *)
(* step is what one of them does between two awaits.                       *)
(*                                                                         *)
(* External: the indexer offers any of the lists Offers; the client takes  *)
(* or refuses a release, its answer may be lost, it ends a download well   *)
(* or badly.                                                               *)
(***************************************************************************)
EXTENDS Quality

CONSTANTS
  Book,         \* books, numbered in the order of their titles
  Settings,     \* Settings[d]: the documents a user may save, by an id
  FirstSettings,\* the id of the one at the start
  Signals,      \* Signals[n]: what the name n says
  ProfileOf,    \* ProfileOf[b]: the profile name on the row of b
  Paths,        \* the names the path of a file can have
  Files,        \* Files[b]: the names of the files of b at the start
  Offers,       \* the lists a search may yield
  MaxJobs,      \* bound: releases handed to a download client
  MaxEvents     \* bound: requests, failed downloads or writes, crashes

ASSUME BookAssumption == Book \subseteq Nat /\ Book # {}
ASSUME SettingsAssumption == FirstSettings \in DOMAIN Settings
ASSUME BoundAssumption == MaxJobs \in Nat /\ MaxEvents \in Nat
\* Every name is one that Signals judges.
ASSUME NamesAssumption ==
  /\ Paths \subseteq DOMAIN Signals
  /\ Files \in [Book -> SUBSET Paths]
  /\ \A offered \in Offers :
       offered \in Seq([name : DOMAIN Signals, protocol : STRING,
                        link : STRING, seeders : Int])
\* A profile lists its tiers, every definition has a container, and the
\* preferred terms have scores.
ASSUME DocumentsAssumption ==
  \A d \in DOMAIN Settings :
    LET profiles == Settings[d].profiles
        definitions == Settings[d].definitions
    IN  /\ profiles \in Seq({profiles[i] : i \in DOMAIN profiles})
        /\ \A i \in DOMAIN profiles : profiles[i].quality_ids \in Seq(STRING)
        /\ \A q \in DOMAIN definitions : definitions[q].container # NoSignal
        /\ Settings[d].preferences.preferred \in
             Seq([term : STRING, score : Int, enabled : BOOLEAN])

VARIABLES
  settings,  \* the saved settings, by their id
  books,     \* books[b]: [monitored, files], or Gone
  rows,      \* wanted_search_state: rows[b]: [status, nzo]
  jobs,      \* every job a client took, in order
  task,      \* the two coroutines
  events     \* how many of these so far, counted against MaxEvents

wantedVars == <<settings, books, rows, jobs, task, events>>

Actor == {"tick", "user"}
Gone == [monitored |-> FALSE, files |-> {}, gone |-> TRUE]
NoRow == [status |-> "none", nzo |-> 0]
NoRelease == [status |-> "no_release", nzo |-> 0]
Grabbed(nzo) == [status |-> "grabbed", nzo |-> nzo]

\* todo: the books left, the first is in work; of: the settings in use;
\* offered, release: what the indexer offered and what is to be grabbed;
\* nzo: the number of the job the client took.
Idle == [at |-> "idle", todo |-> {}, of |-> FirstSettings,
         offered |-> <<>>, release |-> <<>>, nzo |-> 0]

WantedInit ==
  /\ settings = FirstSettings
  /\ books = [b \in Book |->
                [monitored |-> TRUE, files |-> Files[b], gone |-> FALSE]]
  /\ rows = [b \in Book |-> NoRow]
  /\ jobs = <<>>
  /\ task = [a \in Actor |-> Idle]
  /\ events = 0

-----------------------------------------------------------------------------
(* Which books want a better file                                          *)

\* An empty or unknown profile name means the first profile.
resolve_quality_profile(b, of) ==
  LET named == {i \in DOMAIN of.profiles : of.profiles[i].name = ProfileOf[b]}
  IN  of.profiles[IF named = {} THEN 1 ELSE Min(named)]

\* Verdict[d][b][n]: what the profile of b in document d says of name n.
Verdict ==
  [d \in {d \in DOMAIN Settings : Settings[d].profiles # <<>>} |->
     [b \in Book |->
        [n \in DOMAIN Signals |->
           FitOf(Signals[n], resolve_quality_profile(b, Settings[d]),
                 Settings[d].definitions)]]]

\* The best tier among the files counts; files of no tier are never below
\* the cutoff.
best_current_fit(b, d) ==
  LET tiers == {Verdict[d][b][f].tier : f \in books[b].files} \ {0}
  IN  IF tiers = {} THEN "no_tier"
      ELSE TierStatus(Min(tiers), resolve_quality_profile(b, Settings[d]))

IsCandidate(b, d) ==
  /\ books[b].monitored /\ books[b].files # {}
  /\ Settings[d].profiles # <<>>
  /\ resolve_quality_profile(b, Settings[d]).upgrade_allowed
  /\ best_current_fit(b, d) = "below_cutoff"

list_cutoff_candidates(d) == {b \in Book : IsCandidate(b, d)}

Pruned(candidates) ==
  [b \in Book |-> IF b \in candidates THEN rows[b] ELSE NoRow]

-----------------------------------------------------------------------------
(* Which release is grabbed                                                *)

\* Scores[d][n]: what the preferences in document d say of name n.
Scores ==
  [d \in DOMAIN Settings |->
     [n \in DOMAIN Signals |->
        score_release(Signals[n], Settings[d].preferences)]]

Acceptable(release, b, d) ==
  /\ Verdict[d][b][release.name].status \in {"preferred", "accepted"}
  /\ Scores[d][release.name].status = "accepted"

\* The sort key: a release of no tier comes after every tier.
SortKey(release, b, d) ==
  LET tier == Verdict[d][b][release.name].tier
      quality_ids == resolve_quality_profile(b, Settings[d]).quality_ids
  IN  <<IF tier = 0 THEN Len(quality_ids) + 1 ELSE tier,
        -Scores[d][release.name].score, -release.seeders>>

Precedes(s, t) ==
  \/ s[1] < t[1]
  \/ s[1] = t[1] /\ s[2] < t[2]
  \/ s[1] = t[1] /\ s[2] = t[2] /\ s[3] < t[3]

\* Mutant of find_fitting_release: the first that fits is as good as any.
FindFirst(offered, b, d) ==
  LET fitting == {i \in DOMAIN offered : Acceptable(offered[i], b, d)}
  IN  IF fitting = {} THEN 0 ELSE Min(fitting)

\* The position of the release in the answer, 0 without one; the sort is
\* stable.
find_fitting_release(offered, b, d) ==
  LET fitting == {i \in DOMAIN offered : Acceptable(offered[i], b, d)}
      Key(i) == SortKey(offered[i], b, d)
  IN  IF fitting = {} THEN 0
      ELSE CHOOSE i \in fitting : \A j \in fitting :
             \/ Precedes(Key(i), Key(j))
             \/ ~Precedes(Key(j), Key(i)) /\ i <= j

is_torrent_request(release) ==
  \/ release.protocol = "torrent"
  \/ release.protocol \notin {"usenet", "torrent"} /\ release.link = "magnet"

Event == events < MaxEvents /\ events' = events + 1

-----------------------------------------------------------------------------
(* The tick                                                                *)

Resumed(todo, of, at) == [Idle EXCEPT !.at = at, !.todo = todo, !.of = of]

InWork(a) == Min(task[a].todo)
Rest == task["tick"].todo \ {InWork("tick")}

\* Mutant of Advanced: a book that is already grabbed is not passed over.
AdvancedToNext(todo, of, states) ==
  IF todo = {} THEN Idle ELSE Resumed(todo, of, "search")

\* On to the next book whose row does not say "grabbed".
Advanced(todo, of, states) ==
  LET open == {b \in todo : states[b].status # "grabbed"}
  IN  IF open = {} THEN Idle
      ELSE Resumed({b \in todo : b >= Min(open)}, of, "search")

\* run_once: not while an earlier run is in flight.
TickStarts ==
  /\ task["tick"].at = "idle" /\ Settings[settings].indexer
  /\ LET candidates == list_cutoff_candidates(settings)
     IN  /\ rows' = Pruned(candidates)
         /\ task' = [task EXCEPT !["tick"] =
                       Advanced(candidates, settings, rows')]
  /\ UNCHANGED <<settings, books, jobs, events>>

\* The book in work is done: its row is written and the tick goes on.
Recorded(row) ==
  /\ rows' = [rows EXCEPT ![InWork("tick")] = row]
  /\ task' = [task EXCEPT !["tick"] = Advanced(Rest, @.of, rows')]

\* Mutant of TickErrs: the error is not taken for the end of a book.
TickErrsAgain ==
  /\ task["tick"].at \in {"search", "fetch", "taken"}
  /\ task' = [task EXCEPT !["tick"] = Resumed(Rest, @.of, "search")]
  /\ UNCHANGED <<settings, books, rows, jobs, events>>

\* An exception is logged and the tick goes on, the row stays as it is.
TickErrs ==
  /\ task["tick"].at \in {"search", "fetch", "taken"}
  /\ task' = [task EXCEPT !["tick"] = Advanced(Rest, @.of, rows)]
  /\ UNCHANGED <<settings, books, rows, jobs, events>>

\* The row cannot be written while an import holds the write lock: what is
\* raised ends the tick.
RecordFails ==
  /\ Event /\ task["tick"].at # "idle"
  /\ task' = [task EXCEPT !["tick"] = Idle]
  /\ UNCHANGED <<settings, books, rows, jobs>>

\* search never raises: an indexer in trouble offers nothing.
search == Offers \cup {<<>>}

\* The client is the one that was enabled when the tick began.
TickSearched ==
  /\ task["tick"].at = "search"
  /\ \E offered \in search :
       LET now == task["tick"]
           picked == find_fitting_release(offered, InWork("tick"), now.of)
       IN  IF picked = 0 \/ ~Settings[now.of].sab
           THEN Recorded(NoRelease)
           ELSE /\ task' = [task EXCEPT !["tick"].at = "fetch",
                              !["tick"].offered = offered,
                              !["tick"].release = offered[picked]]
                /\ UNCHANGED rows
  /\ UNCHANGED <<settings, books, jobs, events>>

-----------------------------------------------------------------------------
(* The user's searches and grabs                                           *)

Handing(b, release) ==
  [Idle EXCEPT !.at = "fetch", !.todo = {b}, !.release = release]

\* search_cutoff_upgrade: any book, whatever its row or the list say.  Its
\* search reads and writes nothing others share: it is one step.
search_cutoff_upgrade(b) ==
  /\ Event /\ task["user"].at = "idle" /\ ~books[b].gone
  /\ Settings[settings].indexer /\ Settings[settings].profiles # <<>>
  /\ \E offered \in search :
       LET picked == find_fitting_release(offered, b, settings)
       IN  /\ picked # 0 /\ Settings[settings].sab
           /\ task' = [task EXCEPT !["user"] = Handing(b, offered[picked])]
  /\ UNCHANGED <<settings, books, rows, jobs>>

\* What the page shows: all that is offered, with its verdicts.
search_releases ==
  {offered \in search : Settings[settings].indexer /\ offered # <<>>}

\* A torrent is a magnet link or a file of the configured Prowlarr.
_select_torrent_url(release) == release.link \in {"magnet", "torrent"}

\* grab_release: a release the user picked for b, fitting or not.
grab_release(b) ==
  /\ Event /\ task["user"].at = "idle"
  /\ \E offered \in search_releases : \E i \in DOMAIN offered :
       /\ IF is_torrent_request(offered[i])
          THEN Settings[settings].qb /\ _select_torrent_url(offered[i])
          ELSE Settings[settings].sab
       /\ task' = [task EXCEPT !["user"] = Handing(b, offered[i])]
  /\ UNCHANGED <<settings, books, rows, jobs>>

-----------------------------------------------------------------------------
(* Both: fetch the NZB, hand it over                                       *)

\* A client takes the release of a.
Queued(a) ==
  /\ task[a].at = "fetch" /\ Len(jobs) < MaxJobs
  /\ jobs' = Append(jobs, [book |-> InWork(a), by |-> a,
                           name |-> task[a].release.name, state |-> "queued"])
  /\ UNCHANGED <<settings, books, rows, events>>

\* Any body is taken for an NZB, a torrent file too: only a magnet link
\* yields none.  Whether SABnzbd takes what it is sent is up to it.
download_nzb(release) == release.link # "magnet"

\* SABnzbd is sent the NZB.  The tick waits for the answer; what the user's
\* request does with it changes nothing that is modelled.
add_nzb(a) ==
  /\ Queued(a)
  /\ download_nzb(task[a].release)
  /\ a = "user" => ~is_torrent_request(task[a].release)
  /\ task' = [task EXCEPT ![a] =
                IF a = "tick" THEN [@ EXCEPT !.at = "taken", !.nzo = Len(jobs')]
                              ELSE Idle]

\* qBittorrent is sent the link of a torrent that the user grabs.
add_url ==
  /\ Queued("user")
  /\ is_torrent_request(task["user"].release)
  /\ task' = [task EXCEPT !["user"] = Idle]

\* Mutant of GrabFailed: what did not succeed is recorded as grabbed.
GrabFailedRecorded ==
  /\ task["tick"].at \in {"fetch", "taken"}
  /\ Recorded(Grabbed(Len(jobs)))
  /\ UNCHANGED <<settings, books, jobs, events>>

\* No NZB, a refusal, or an answer that is lost: None either way.
GrabFailed ==
  /\ task["tick"].at \in {"fetch", "taken"}
  /\ Recorded(NoRelease)
  /\ UNCHANGED <<settings, books, jobs, events>>

\* Only the tick remembers what it grabbed.
GrabAnswered ==
  /\ task["tick"].at = "taken"
  /\ Recorded(Grabbed(task["tick"].nzo))
  /\ UNCHANGED <<settings, books, jobs, events>>

UserDone ==
  /\ task["user"].at = "fetch"
  /\ task' = [task EXCEPT !["user"] = Idle]
  /\ UNCHANGED <<settings, books, rows, jobs, events>>

\* No NZB, or SABnzbd refuses it.
UserFails == UserDone /\ ~is_torrent_request(task["user"].release)

\* qBittorrent refuses the login, even the second one of an expired
\* session, or the torrent, or it does not answer.
_call == UserDone /\ is_torrent_request(task["user"].release)

-----------------------------------------------------------------------------
(* The client, the user and the rest of the system                         *)

JobMoves(from, to) ==
  /\ \E j \in DOMAIN jobs :
       jobs[j].state \in from /\ jobs' = [jobs EXCEPT ![j].state = to]
  /\ UNCHANGED <<settings, books, rows, task>>

DownloadEnds ==
  \/ JobMoves({"queued"}, "completed") /\ UNCHANGED events
  \/ JobMoves({"queued"}, "failed") /\ Event
activity_queue_remove == Event /\ JobMoves({"queued"}, "removed")
activity_history_remove ==
  Event /\ JobMoves({"completed", "failed"}, "removed")
activity_history_retry == Event /\ JobMoves({"failed"}, "queued")

\* _import_one of a finished download: a match that is in the library is
\* skipped as a duplicate, any other becomes a book of its own, which is
\* none of Book.  The book it was grabbed for keeps the files it has.
_import_one ==
  JobMoves({"completed"}, "imported") /\ UNCHANGED events

\* The converter reports an m4b: the book has one more file.
convertarr_webhook(b) ==
  /\ Event /\ ~books[b].gone
  /\ \E n \in Paths :
       /\ "m4b" \in Signals[n].words
       /\ books' = [books EXCEPT ![b].files = @ \cup {n}]
  /\ UNCHANGED <<settings, rows, jobs, task>>

\* apply_preview of the organizer: a file has another path, whose folders
\* may say anything.
apply_preview(b) ==
  /\ Event
  /\ \E f \in books[b].files, n \in Paths :
       books' = [books EXCEPT ![b].files = (@ \ {f}) \cup {n}]
  /\ UNCHANGED <<settings, rows, jobs, task>>

put_settings ==
  /\ Event /\ settings' \in DOMAIN Settings \ {settings}
  /\ UNCHANGED <<books, rows, jobs, task>>

set_monitored(b) ==
  /\ Event /\ ~books[b].gone
  /\ books' = [books EXCEPT ![b].monitored = ~@]
  /\ UNCHANGED <<settings, rows, jobs, task>>

\* The table has no foreign key: the row of the book stays.
delete_book(b) ==
  /\ Event /\ ~books[b].gone
  /\ books' = [books EXCEPT ![b] = Gone]
  /\ UNCHANGED <<settings, rows, jobs, task>>

Crash ==
  /\ Event /\ task["tick"] # Idle
  /\ task' = [a \in Actor |-> Idle]
  /\ UNCHANGED <<settings, books, rows, jobs>>

WantedNext ==
  \/ TickStarts \/ TickSearched \/ TickErrs \/ RecordFails
  \/ \E a \in Actor : add_nzb(a)
  \/ add_url
  \/ GrabFailed \/ GrabAnswered \/ UserFails \/ _call
  \/ \E b \in Book : \/ search_cutoff_upgrade(b) \/ grab_release(b)
                     \/ set_monitored(b) \/ delete_book(b)
                     \/ convertarr_webhook(b) \/ apply_preview(b)
  \/ DownloadEnds \/ activity_queue_remove \/ activity_history_remove
  \/ activity_history_retry \/ _import_one
  \/ put_settings \/ Crash
=============================================================================
