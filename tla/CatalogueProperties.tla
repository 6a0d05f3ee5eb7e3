------------------------- MODULE CatalogueProperties -------------------------
(* How books come into the library from a user, imports, follows, reading  *)
(* lists and Liberatarr, while metadata is looked up; what that promises.  *)
EXTENDS Follows, ReadingLists, MetadataBackfill

vars == <<catalogueVars, followVars, batch, backfill>>

Init == CatalogueInit /\ FollowsInit /\ ReadingListsInit /\ BackfillInit

Requests ==
  \/ \E p \in Provider : \E i \in Id : \E l \in Locale :
       post_book(p, i, l, 0)
  \/ post_book("none", 0, "none", 0)
  \/ \E p \in Provider : \E i \in Id : import_book(p, i, ChainLocale)
  \/ \E b \in Living(library)  :
       refresh_book(b) \/ \E d \in Date : patch_book(b, d)
  \/ sync_source(ChainLocale) \/ sync_liberatarr(ChainLocale)

Next ==
  \/ Requests /\ UNCHANGED <<followVars, batch, backfill>>
  \/ FollowsNext /\ UNCHANGED <<batch, backfill>>
  \/ ReadingListsNext /\ UNCHANGED <<followVars, backfill>>
  \/ BackfillNext /\ UNCHANGED <<followVars, batch>>

Spec == Init /\ [][Next]_vars

RowsOf(b) == {r \in library.provider_ids : r.book = b}

(* Every variable keeps its type: a candidate is in one of its four states *)
(* and belongs to a follow, only an added one names a book, and the book   *)
(* it names exists.                                                        *)
TypeOK ==
  /\ \A b \in Living(library) :
       b < library.next_id /\ library.books[b].date \in Date
         /\ library.books[b].asin \in Id \cup {0}
  /\ \A r \in library.provider_ids : r.book < library.next_id
  /\ today \in 1 .. LastDay /\ follows \subseteq Name
  /\ \A c \in DOMAIN candidates :
       /\ c.follow \in follows
       /\ candidates[c].status \in {"future", "backlog", "excluded", "added"}
       /\ candidates[c].book # 0 =>
            candidates[c].status = "added"
              /\ candidates[c].book \in Living(library)
  /\ batch.at \in {"idle", "next", "await"}
  /\ (batch.at = "idle") = (batch.todo = <<>>)

Created == Living(library') \ Living(library)
By(b) == library'.books[b].by

(* No book is added while the library has one of the same provider and id, *)
(* unless a user adds it from another region.  Follows and reading lists   *)
(* count the looked-up ASIN of a book as its id too, and reading lists the *)
(* same id at another provider.                                            *)
NoDuplicateCreated ==
  [][\A n \in Created : \A r \in RowsOf(n)' : \A b \in Living(library') \ {n} :
       /\ \A q \in RowsOf(b)' :
            \/ q.id # r.id
            \/ q.provider # r.provider /\ By(n) # "list"
            \/ By(n) = "user" /\ q.locale # r.locale
       /\ By(n) \in {"list", "future", "added"} =>
            library'.books[b].asin # r.id]_vars

(* A book that nobody asked for comes from a candidate that is unreleased, *)
(* or that was classified "future" before its day and never since: nothing *)
(* of the back catalogue becomes a book by itself, not by restoring it and *)
(* not by deleting the book it had.  The second case is there because a    *)
(* candidate may stay "future" past its day, while the library has its     *)
(* book, or because its own book was deleted and list_candidates set it    *)
(* back to "future" without making another.                                *)
ByItselfOnlyAsFuture ==
  [][\A n \in Created : By(n) = "future" =>
       \E c \in DOMAIN candidates' :
         /\ candidates'[c].book = n
         /\ \/ candidates'[c].date > today
            \/ /\ c \in DOMAIN candidates
               /\ candidates[c].status = "future"
               /\ candidates[c].date <= today]_vars

OwnsId(b, c) ==
  \/ \E r \in RowsOf(b) : r.provider = c.provider /\ r.id = c.id
  \/ library.books[b].asin = c.id

(* An added candidate names a book of its own id: the one made from it or  *)
(* one that owned the id when the first was gone.  Only a lookup that      *)
(* replaces an ASIN another lookup had found meanwhile takes that away.    *)
AddedNamesItsBook ==
  [][\A c \in DOMAIN candidates' :
       \A b \in {candidates'[c].book} \ {0} :
         \/ OwnsId(b, c)'
         \/ /\ c \in DOMAIN candidates /\ candidates[c].book = b
            /\ OwnsId(b, c) =>
                 library.books[b].asin \notin {0, library'.books[b].asin}]_vars

(* routes_library.py:561 answers "Book with ... already exists" and        *)
(* reading_list_import.py:445 "This book is already in the library": what  *)
(* is said to exist does.                                                  *)
ExistsMeansExists ==
  [][answer'.said = "exists" =>
       \E b \in Living(library') :
         \/ \E r \in RowsOf(b)' : r.id = answer'.id
         \/ library'.books[b].asin = answer'.id]_vars
=============================================================================
