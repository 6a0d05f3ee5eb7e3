------------------------------- MODULE Follows -------------------------------
(***************************************************************************)
(* Followed authors and series (api/routes_follows.py): what a provider    *)
(* lists for them is kept as candidates; those of the future become books  *)
(* by themselves, the back catalogue only when a user adds them.  Each     *)
(* request writes in one transaction that takes the write lock first;      *)
(* refresh_follow awaits the provider before it and uses nothing it read   *)
(* earlier but the name, which never changes.                              *)
(***************************************************************************)
EXTENDS Catalogue

CONSTANTS
  Name,         \* the kinds and names a user may follow
  Hits,         \* Hits[n]: the hits [provider, id] a search for n may have
  ChainLocale,  \* the region of the provider chain
  LastDay       \* bound: the last day

ASSUME HitsAssumption ==
  Hits \in [Name -> SUBSET [provider : Provider, id : Id]]
ASSUME DayAssumption == LastDay \in Nat \ {0}

VARIABLES
  today,       \* the date, a day at a time
  follows,     \* the names that are followed
  candidates   \* candidates[c]: [status, date, book] of c: [follow,
               \* provider, id]; book 0 is NULL

followVars == <<today, follows, candidates>>

FollowsInit == today = 1 /\ follows = {} /\ candidates = [c \in {} |-> 0]

\* Mutant of _classify: the day of the release counts as the future.
ClassifyFromToday(date) == IF date >= today THEN "future" ELSE "backlog"

\* An unknown date is the back catalogue.
_classify(date) == IF date > today THEN "future" ELSE "backlog"

CandidatesOf(f) == {c \in DOMAIN candidates : c.follow = f}

\* A candidate whose book was deleted: its new owner, or its date decides.
Reconciled(candidate, c) ==
  LET owner == _owned_book_id(library, c.provider, c.id)
  IN  IF candidate.status # "added" \/ candidate.book # 0 THEN candidate
      ELSE IF owner # 0 THEN [candidate EXCEPT !.book = owner]
           ELSE [candidate EXCEPT !.status = _classify(candidate.date)]

_reconcile_added(F) ==
  [c \in DOMAIN candidates |->
     IF c.follow \in F THEN Reconciled(candidates[c], c) ELSE candidates[c]]

\* cands are the candidates as the request has written them so far; new[b]
\* is the one that becomes the book b.
_create_candidate_book(by, cands, new) ==
  /\ create_book(by, [b \in DOMAIN new |->
       Wanted(new[b].provider, new[b].id, ChainLocale, cands[new[b]].date)])
  /\ candidates' = [c \in DOMAIN cands |->
       IF c \in Range(new)
       THEN [cands[c] EXCEPT !.status = "added", !.book = AntiFunction(new)[c]]
       ELSE cands[c]]

\* The candidates C of one follow: two of them never have the same id, so
\* a book made from one leaves the others as they are.
CreateUnowned(by, cands, C) ==
  /\ \E new \in Numberings({c \in C :
               _owned_book_id(library, c.provider, c.id) = 0}) :
       _create_candidate_book(by, cands, new)
  /\ answer' = NoAnswer

\* Every "future" row of the follow, those no hit mentioned included.
_materialize_future(cands, f) ==
  CreateUnowned("future", cands,
    {c \in DOMAIN cands : c.follow = f /\ cands[c].status = "future"})

-----------------------------------------------------------------------------
(* Requests                                                                *)

create_follow(f) ==
  /\ f \notin follows
  /\ follows' = follows \cup {f}
  /\ answer' = NoAnswer
  /\ UNCHANGED <<library, today, candidates, events>>

\* The candidates go with it, the books stay.
delete_follow(f) ==
  /\ Event /\ f \in follows
  /\ follows' = follows \ {f}
  /\ candidates' = Without(candidates, CandidatesOf(f))
  /\ answer' = NoAnswer
  /\ UNCHANGED <<library, today>>

\* Both lists are reconciled before they are shown.
list_follows ==
  /\ candidates' = _reconcile_added(follows)
  /\ candidates' # candidates
  /\ answer' = NoAnswer
  /\ UNCHANGED <<library, today, follows, events>>

list_candidates(f) ==
  /\ candidates' = _reconcile_added({f})
  /\ candidates' # candidates
  /\ answer' = NoAnswer
  /\ UNCHANGED <<library, today, follows, events>>

\* Mutant of Undecided: what was added may be decided anew.
NotExcluded(candidate) == candidate.status # "excluded"

Undecided(candidate) == candidate.status \in {"future", "backlog"}

\* Known candidates get the new date; their status follows it only while
\* nobody has decided.
_upsert_candidate(cands, c, date) ==
  IF c \notin DOMAIN cands
  THEN [status |-> _classify(date), date |-> date, book |-> 0]
  ELSE [cands[c] EXCEPT !.date = date,
          !.status = IF Undecided(cands[c]) THEN _classify(date) ELSE @]

\* The answer of the first provider of the chain that has one: any part of
\* what it knows.
search(f) ==
  UNION {SUBSET {[follow |-> f, provider |-> h.provider, id |-> h.id] :
                   h \in {h \in Hits[f] : h.provider = p}} : p \in Provider}

\* An answer cut short counts like a whole one; a failed search writes only
\* the status of the follow.
refresh_follow(f) ==
  /\ Event /\ f \in follows
  /\ \E hits \in search(f) : \E date \in [hits -> Date] :
       LET now == _reconcile_added({f})
       IN  _materialize_future(
             [c \in DOMAIN now \cup hits |->
                IF c \in hits THEN _upsert_candidate(now, c, date[c])
                              ELSE now[c]], f)
  /\ UNCHANGED <<today, follows>>

exclude_candidates(f, C) ==
  LET now == _reconcile_added({f})
  IN  /\ Event /\ f \in follows
      /\ candidates' = [c \in DOMAIN now |->
           IF c \in C /\ Undecided(now[c])
           THEN [now[c] EXCEPT !.status = "excluded"] ELSE now[c]]
      /\ answer' = NoAnswer
      /\ UNCHANGED <<library, today, follows>>

Back(candidate) == [candidate EXCEPT !.status = _classify(candidate.date)]

\* A restored candidate of the future becomes a book at once.
restore_candidates(f, C) ==
  LET now == _reconcile_added({f})
      changed == {c \in C : now[c].status = "excluded"}
      back == [c \in DOMAIN now |->
                 IF c \in changed THEN Back(now[c]) ELSE now[c]]
  IN  /\ Event /\ f \in follows
      /\ IF changed = {}
         THEN candidates' = now /\ answer' = NoAnswer /\ UNCHANGED library
         ELSE _materialize_future(back, f)
      /\ UNCHANGED <<today, follows>>

add_candidates(f, C) ==
  LET now == _reconcile_added({f})
  IN  /\ Event /\ f \in follows
      /\ CreateUnowned("added", now, {c \in C : now[c].status = "backlog"})
      /\ UNCHANGED <<today, follows>>

\* The book goes, its candidates stay "added" with a NULL book.
remove_book(b) ==
  /\ Event /\ b \in Living(library)
  /\ library' = delete_book(library, b)
  /\ candidates' = [c \in DOMAIN candidates |->
       IF candidates[c].book = b THEN [candidates[c] EXCEPT !.book = 0]
                                 ELSE candidates[c]]
  /\ answer' = NoAnswer
  /\ UNCHANGED <<today, follows>>

DayPasses ==
  /\ today < LastDay /\ today' = today + 1
  /\ answer' = NoAnswer
  /\ UNCHANGED <<library, follows, candidates, events>>

FollowsNext ==
  \/ \E f \in Name :
       \/ create_follow(f) \/ delete_follow(f) \/ refresh_follow(f)
       \/ list_candidates(f)
       \/ \E C \in SUBSET CandidatesOf(f) \ {{}} :
            \/ exclude_candidates(f, C)
            \/ restore_candidates(f, C)
            \/ add_candidates(f, C)
  \/ list_follows
  \/ \E b \in Living(library) : remove_book(b)
  \/ DayPasses
=============================================================================
