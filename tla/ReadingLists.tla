----------------------------- MODULE ReadingLists -----------------------------
(***************************************************************************)
(* The import of what a user selected from a reading list                  *)
(* (reading_list_import.py, api/routes_import_lists.py): one selection     *)
(* after the other, each confirmed by its provider between two looks at    *)
(* the library.                                                            *)
(***************************************************************************)
EXTENDS Catalogue, Sequences

CONSTANT Selections   \* the batches a user may send: sequences of [key,
                      \* provider, id, locale], id 0 without a selection

ASSUME SelectionsAssumption ==
  Selections \subseteq Seq([key : STRING, provider : STRING,
                           id : Id \cup {0}, locale : STRING]) \ {<<>>}

VARIABLE batch   \* [at, todo, seen]: the head of todo is in work

NoBatch == [at |-> "idle", todo |-> <<>>, seen |-> {}]

ReadingListsInit == batch = NoBatch

\* The batch goes on behind its head.
Rest(now) ==
  IF Len(now.todo) = 1 THEN NoBatch
  ELSE [at |-> "next", todo |-> Tail(now.todo),
        seen |-> now.seen \cup {Head(now.todo).key}]

import_selections(selections) ==
  /\ Event /\ batch = NoBatch
  /\ batch' = [at |-> "next", todo |-> selections, seen |-> {}]
  /\ answer' = NoAnswer
  /\ UNCHANGED library

\* From the feed of a saved source, or from a CSV file; the selections are
\* whatever the caller sends, nothing of the preview is kept.
import_goodreads_source == \E s \in Selections : import_selections(s)
import_csv_selection == \E s \in Selections : import_selections(s)

\* An entry sent twice counts once; without a selection there is nothing
\* to ask; a known book is reported; else the provider is asked.
_import_one ==
  /\ batch.at = "next"
  /\ LET sel == Head(batch.todo)
         known == find_existing_book(library, {sel.id})
     IN  IF sel.key \in batch.seen \/ sel.id = 0
         THEN batch' = Rest(batch) /\ answer' = NoAnswer
         ELSE IF known # 0
              THEN /\ batch' = Rest(batch)
                   /\ answer' = Exists(sel.provider, sel.id)
              ELSE batch' = [batch EXCEPT !.at = "await"] /\ answer' = NoAnswer
  /\ UNCHANGED <<library, events>>

\* Mutant of KnownByNow: the first look is good enough.
KnownBefore(sel, asin) == FALSE

\* The second look, in the transaction of the INSERT.
KnownByNow(sel, asin) == find_existing_book(library, {sel.id, asin}) # 0

\* The provider confirms the id, and names an ASIN of its own or none.
Confirmed ==
  /\ batch.at = "await"
  /\ \E detail \in get_detail :
       LET sel == Head(batch.todo)
       IN  IF KnownByNow(sel, detail.asin)
           THEN answer' = Exists(sel.provider, sel.id) /\ UNCHANGED library
           ELSE /\ Creates("list", {Wanted(sel.provider, sel.id, sel.locale,
                                           detail.date)})
                /\ answer' = NoAnswer
  /\ batch' = Rest(batch)
  /\ UNCHANGED events

\* No answer, another book's id, or a write that fails: the batch goes on.
NotCreated ==
  /\ batch.at = "await"
  /\ batch' = Rest(batch)
  /\ answer' = NoAnswer
  /\ UNCHANGED <<library, events>>

ReadingListsNext ==
  \/ import_goodreads_source \/ import_csv_selection
  \/ _import_one \/ Confirmed \/ NotCreated
=============================================================================
