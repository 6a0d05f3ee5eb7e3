--------------------------- MODULE MetadataBackfill ---------------------------
(***************************************************************************)
(* Looking up the ASIN and the release date of books that have neither     *)
(* (metadata/backfill.py): a batch is read at once and looked up book by   *)
(* book; the periodic task (metadata_scheduler.py) and a request, or the   *)
(* task of the start (main.py), may each have one under way.               *)
(***************************************************************************)
EXTENDS Catalogue

CONSTANT BatchSize   \* books of a batch

ASSUME BatchAssumption == BatchSize \in Nat \ {0}

VARIABLE backfill   \* backfill[w]: the books of w's batch still to look up

Runner == {"scheduler", "request"}

BackfillInit == backfill = [w \in Runner |-> {}]

Bare(lib) ==
  {b \in Living(lib) : lib.books[b].asin = 0 /\ lib.books[b].date = 0}

\* The oldest first: a book no provider knows is in every batch.
_candidate_books(lib) ==
  {b \in Bare(lib) : Cardinality({older \in Bare(lib) : older < b}) < BatchSize}

run_backfill_batch(w) ==
  /\ Event /\ backfill[w] = {}
  /\ backfill' = [backfill EXCEPT ![w] = _candidate_books(library)]
  /\ backfill' # backfill
  /\ answer' = NoAnswer
  /\ UNCHANGED library

\* The scheduler passes a tick over while its batch is under way.
run_once == run_backfill_batch("scheduler")
trigger_backfill == run_backfill_batch("request")

\* COALESCE(found, old): what is found replaces what is there by now.
Filled(book, asin, date) ==
  [book EXCEPT !.asin = IF asin # 0 THEN asin ELSE @,
               !.date = IF date # 0 THEN date ELSE @]

\* The first hit of the search is taken as it is.
LookedUp(w) ==
  /\ backfill[w] # {}
  /\ backfill' = [backfill EXCEPT ![w] = @ \ {Min(@)}]
  /\ \E asin \in Id : \E date \in Date :
       LET b == Min(backfill[w])
       IN  library' = IF b \in Living(library)
                      THEN [library EXCEPT !.books[b] = Filled(@, asin, date)]
                      ELSE library
  /\ answer' = NoAnswer
  /\ UNCHANGED events

\* A miss or an error; the book stays a candidate.
LookupFails(w) ==
  /\ backfill[w] # {}
  /\ backfill' = [backfill EXCEPT ![w] = @ \ {Min(@)}]
  /\ answer' = NoAnswer
  /\ UNCHANGED <<library, events>>

BackfillNext ==
  \/ run_once \/ trigger_backfill
  \/ \E w \in Runner : LookedUp(w) \/ LookupFails(w)
=============================================================================
