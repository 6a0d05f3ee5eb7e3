------------------------------ MODULE Catalogue ------------------------------
(***************************************************************************)
(* The books of the library and the ids metadata providers know them by    *)
(* (library/__init__.py and the book endpoints of api/routes_library.py).  *)
(* Every book that any part of the program adds goes through create_book;  *)
(* each of them has its own way to ask whether the book is there already.  *)
(***************************************************************************)
EXTENDS Integers, FiniteSetsExt, Rows

CONSTANTS
  Provider,   \* the metadata providers: two may use the same ids (ASINs)
  Id,         \* ids of books at a provider, natural numbers; 0 is NULL
  Locale,     \* regions of a provider
  Date,       \* release dates, natural numbers; 0 is unknown
  MaxBooks,   \* bound: books ever created
  MaxEvents   \* bound: requests about books and batches

ASSUME IdAssumption ==
  Id \subseteq Nat \ {0} /\ Date \subseteq Nat /\ 0 \in Date
ASSUME EventAssumption == MaxBooks \in Nat /\ MaxEvents \in Nat

VARIABLES
  library,  \* books[b]: [by, asin, date]; provider_ids: rows [book,
            \* provider, id, locale]; next_id: AUTOINCREMENT, never reused
  answer,   \* what the last step told its caller, if it spoke of a book
  events    \* how many of these so far, counted against MaxEvents

catalogueVars == <<library, answer, events>>

NoAnswer == [said |-> "nothing", provider |-> "", id |-> 0]
Exists(provider, id) == [said |-> "exists", provider |-> provider, id |-> id]

Living(lib) == DOMAIN lib.books
FirstOf(S) == IF S = {} THEN 0 ELSE Min(S)

Event == events < MaxEvents /\ events' = events + 1

CatalogueInit ==
  /\ library = [books |-> [b \in {} |-> 0], provider_ids |-> {}, next_id |-> 1]
  /\ answer = NoAnswer
  /\ events = 0

\* What a book is made from; id 0 leaves no row in provider_ids.
Wanted(provider, id, locale, date) ==
  [provider |-> provider, id |-> id, locale |-> locale, date |-> date]

\* The ways to number the books made from S, one after the other in any
\* order, within the bound on the books that are ever created.
Numberings(S) ==
  UNION {Bijection(library.next_id .. last, S) :
           last \in library.next_id - 1 .. MaxBooks}

\* create_book for each of the numbers in new; by: who asked, read only by
\* the properties.
create_book(by, new) ==
  library' =
    [books |-> [b \in Living(library) \cup DOMAIN new |->
       IF b \in DOMAIN new THEN [by |-> by, asin |-> 0, date |-> new[b].date]
                           ELSE library.books[b]],
     provider_ids |-> library.provider_ids \cup
       {[book |-> b, provider |-> new[b].provider, id |-> new[b].id,
         locale |-> new[b].locale] : b \in {b \in DOMAIN new : new[b].id # 0}},
     next_id |-> library.next_id + Cardinality(DOMAIN new)]

Creates(by, S) == \E new \in Numberings(S) : create_book(by, new)

-----------------------------------------------------------------------------
(* Is the book there already?                                              *)

\* post_book: one provider, one region; rows outlive their books.
find_book_by_provider_id(lib, provider, id, locale) ==
  FirstOf({r.book : r \in {r \in lib.provider_ids :
    r.provider = provider /\ r.id = id /\ r.locale = locale}})

\* The importer and the sync of Liberatarr: one provider, any region.
KnownTo(lib, provider, id) ==
  \E r \in lib.provider_ids : r.provider = provider /\ r.id = id

\* Reading lists: any provider, any region, and the asin of a book.
find_existing_book(lib, ids) ==
  LET known == {r.book : r \in {r \in lib.provider_ids : r.id \in ids}}
  IN  IF known # {} THEN Min(known)
      ELSE FirstOf({b \in Living(lib) : lib.books[b].asin \in ids \ {0}})

\* Mutant of _owned_book_id: the same id of any provider.
OwnedByAnyProvider(lib, provider, id) ==
  LET owners == {r.book : r \in {r \in lib.provider_ids :
        r.id = id /\ r.book \in Living(lib)}}
  IN  IF owners # {} THEN Min(owners)
      ELSE FirstOf({b \in Living(lib) : lib.books[b].asin = id})

\* Follows: one provider, any region, and the asin; of books that exist.
_owned_book_id(lib, provider, id) ==
  LET owners == {r.book : r \in {r \in lib.provider_ids :
        r.provider = provider /\ r.id = id /\ r.book \in Living(lib)}}
  IN  IF owners # {} THEN Min(owners)
      ELSE FirstOf({b \in Living(lib) : lib.books[b].asin = id})

-----------------------------------------------------------------------------
(* Requests about books                                                    *)

\* A book a user adds, from a hit of a search or by hand (id 0).
post_book(provider, id, locale, date) ==
  /\ Event
  /\ IF id # 0 /\ find_book_by_provider_id(library, provider, id, locale) # 0
     THEN answer' = Exists(provider, id) /\ UNCHANGED library
     ELSE /\ Creates("user", {Wanted(provider, id, locale, date)})
          /\ answer' = NoAnswer

\* What is not NULL is written.
update_book(lib, b, date) ==
  IF date = 0 THEN lib ELSE [lib EXCEPT !.books[b].date = date]

\* What the record of an id at its provider may say.
get_detail == [asin : Id \cup {0}, date : Date]

\* What a user enters.
patch_book(b, date) ==
  /\ Event /\ b \in Living(library)
  /\ library' = update_book(library, b, date)
  /\ answer' = NoAnswer

\* A book is asked for by its first id; one that is deleted while its
\* refresh waits for the provider is not written.
refresh_book(b) ==
  /\ Event /\ b \in Living(library)
  /\ \E r \in library.provider_ids : r.book = b
  /\ \E detail \in get_detail : library' = update_book(library, b, detail.date)
  /\ answer' = NoAnswer

\* provider_ids has no foreign key: the rows of the book stay.
delete_book(lib, b) == [lib EXCEPT !.books = Without(@, {b})]

\* The importer asks and writes without an await in between.
import_book(provider, id, locale) ==
  /\ Event /\ ~KnownTo(library, provider, id)
  /\ Creates("import", {Wanted(provider, id, locale, 0)})
  /\ answer' = NoAnswer

\* All rows of Liberatarr that name an ASIN and are not liberated; a row
\* that cannot be written is passed over.
sync_liberatarr_rows(asins, locale) ==
  Creates("sync", {Wanted("audible", asin, locale, 0) :
    asin \in {asin \in asins : ~KnownTo(library, "audible", asin)}})

\* The rows are fetched first and written in one transaction.
sync_source(locale) ==
  /\ Event
  /\ \E asins \in SUBSET Id \ {{}} :
       sync_liberatarr_rows(asins, locale)
  /\ answer' = NoAnswer

\* The older endpoint does the same.
sync_liberatarr(locale) == sync_source(locale)
=============================================================================
