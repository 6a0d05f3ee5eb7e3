--------------------------- MODULE CatalogueProofs ---------------------------
(***************************************************************************)
(* What is proved of the books that come into the library, for every set   *)
(* of providers, ids, follows and selections and any number of requests.   *)
(***************************************************************************)
EXTENDS CatalogueProperties, FiniteSetTheorems, WellFoundedInduction, TLAPS

(***************************************************************************)
(* The types.                                                              *)
(***************************************************************************)
Asker == {"user", "import", "list", "future", "added", "sync"}
BookRecord == [by : Asker, asin : Id \cup {0}, date : Date]
Status == {"future", "backlog", "excluded", "added"}
Candidate == [status : Status, date : Date, book : Nat]
CandidateKey == [follow : Name, provider : Provider, id : Id]
Selection == [key : STRING, provider : STRING, id : Id \cup {0},
              locale : STRING]

\* Ids of books are handed out in order and never twice; rows of
\* provider_ids may outlive their book.
LibraryTyped ==
  /\ library = [books |-> library.books, provider_ids |-> library.provider_ids,
                next_id |-> library.next_id]
  /\ library.next_id \in Nat \ {0}
  /\ Living(library) \subseteq 1 .. library.next_id - 1
  /\ library.books \in [Living(library) -> BookRecord]
  /\ \A r \in library.provider_ids : r.book \in 1 .. library.next_id - 1

GoodCandidate(x, L) ==
  x \in Candidate /\ (x.book # 0 => x.status = "added" /\ x.book \in L)

FollowsTyped ==
  /\ today \in 1 .. LastDay /\ follows \subseteq Name
  /\ \A c \in DOMAIN candidates :
       /\ c \in CandidateKey /\ c.follow \in follows
       /\ GoodCandidate(candidates[c], Living(library))

BatchTyped ==
  /\ batch \in [at : {"idle", "next", "await"}, todo : Seq(Selection),
                seen : SUBSET STRING]
  /\ (batch.at = "idle") = (batch.todo = <<>>)

Inv == LibraryTyped /\ FollowsTyped /\ BatchTyped

(***************************************************************************)
(* Is the book there already?                                              *)
(***************************************************************************)
Below == {ss \in Nat \X Nat : ss[1] < ss[2]}

LEMMA BelowWellFounded == IsWellFoundedOn(Below, Nat)
BY NatLessThanWellFounded, Zenon DEF OpToRel, Below

\* The book of the least number.
LEMMA LeastBook ==
  ASSUME NEW S \in SUBSET Nat, S # {}
  PROVE  Min(S) \in S
<1>1. \E m \in S : \A b \in S : ~(<<b, m>> \in Below)
  BY BelowWellFounded, WFMin, Zenon
<1>2. \E m \in S : \A b \in S : m <= b
  <2>1. \A b, m \in Nat : b < m => <<b, m>> \in Below
    BY DEF Below
  <2>2. PICK m \in S : \A b \in S : ~(<<b, m>> \in Below)
    BY <1>1
  <2>3. m \in Nat /\ \A b \in S : b \in Nat /\ ~(b < m)
    BY <2>1, <2>2, Zenon
  <2> QED BY <2>3
<1> QED BY <1>2 DEF Min

LEMMA FirstOfBooks ==
  ASSUME NEW S \in SUBSET (Nat \ {0})
  PROVE  (FirstOf(S) = 0 <=> S = {}) /\ (S # {} => FirstOf(S) \in S)
<1>1. S # {} => Min(S) \in S
  BY LeastBook
<1> QED BY <1>1 DEF FirstOf

\* The owner of a candidate's id, if any.
LEMMA Owner ==
  ASSUME LibraryTyped, NEW c \in CandidateKey
  PROVE  LET o == _owned_book_id(library, c.provider, c.id)
         IN  /\ o # 0 => o \in Living(library) /\ o \in Nat /\ OwnsId(o, c)
             /\ o = 0 => \A b \in Living(library) : ~OwnsId(b, c)
<1> DEFINE owners == {r.book : r \in {r \in library.provider_ids :
             r.provider = c.provider /\ r.id = c.id
               /\ r.book \in Living(library)}}
           same == {b \in Living(library) : library.books[b].asin = c.id}
           o == _owned_book_id(library, c.provider, c.id)
<1>1. Living(library) \subseteq Nat \ {0}
  BY DEF LibraryTyped
<1>2. o = IF owners # {} THEN Min(owners) ELSE FirstOf(same)
  BY DEF _owned_book_id
<1>3. owners \in SUBSET (Nat \ {0}) /\ same \in SUBSET (Nat \ {0})
  BY <1>1
<1>4. CASE owners # {}
  <2>1. o \in owners
    BY <1>2, <1>3, <1>4, LeastBook
  <2>2. PICK r \in library.provider_ids :
          /\ r.provider = c.provider /\ r.id = c.id
          /\ r.book \in Living(library) /\ r.book = o
    BY <2>1
  <2>3. r \in RowsOf(o)
    BY <2>2 DEF RowsOf
  <2> QED BY <1>1, <2>2, <2>3 DEF OwnsId
<1>5. CASE owners = {}
  <2>1. (o = 0 <=> same = {}) /\ (same # {} => o \in same)
    BY <1>2, <1>3, <1>5, FirstOfBooks
  <2>2. \A b \in Living(library) :
          ~ \E r \in RowsOf(b) : r.provider = c.provider /\ r.id = c.id
    BY <1>5 DEF RowsOf
  <2>3. o # 0 => o \in Living(library) /\ library.books[o].asin = c.id
    BY <2>1
  <2>4. o = 0 => \A b \in Living(library) : library.books[b].asin # c.id
    BY <2>1
  <2> HIDE DEF o, owners, same
  <2>5. o # 0 => o \in Living(library) /\ o \in Nat /\ OwnsId(o, c)
    BY <1>1, <2>3 DEF OwnsId
  <2>6. o = 0 => \A b \in Living(library) : ~OwnsId(b, c)
    BY <2>2, <2>4 DEF OwnsId
  <2> QED BY <2>5, <2>6 DEF o
<1> QED BY <1>4, <1>5

\* A reading list adds an id no row and no ASIN of a book knows.
LEMMA NobodyKnows ==
  ASSUME LibraryTyped, NEW ids, find_existing_book(library, ids) = 0
  PROVE  /\ \A r \in library.provider_ids : r.id \notin ids
         /\ \A b \in Living(library) : library.books[b].asin \notin ids \ {0}
<1> DEFINE known == {r.book : r \in {r \in library.provider_ids : r.id \in ids}}
           same == {b \in Living(library) :
                      library.books[b].asin \in ids \ {0}}
<1>1. known \in SUBSET (Nat \ {0}) /\ same \in SUBSET (Nat \ {0})
  BY DEF LibraryTyped
<1>2. (IF known # {} THEN Min(known) ELSE FirstOf(same)) = 0
  BY DEF find_existing_book
<1>3. known = {}
  BY <1>1, <1>2, LeastBook
<1>4. same = {}
  BY <1>1, <1>2, <1>3, FirstOfBooks
<1> QED BY <1>3, <1>4

LEMMA NotAddedYet ==
  ASSUME LibraryTyped, NEW provider, NEW id, NEW locale,
         find_book_by_provider_id(library, provider, id, locale) = 0
  PROVE  \A r \in library.provider_ids :
           r.provider # provider \/ r.id # id \/ r.locale # locale
<1> DEFINE known == {r.book : r \in {r \in library.provider_ids :
             r.provider = provider /\ r.id = id /\ r.locale = locale}}
<1>1. known \in SUBSET (Nat \ {0})
  BY DEF LibraryTyped
<1>2. known = {}
  BY <1>1, FirstOfBooks DEF find_book_by_provider_id
<1> QED BY <1>2

(***************************************************************************)
(* New books.                                                              *)
(***************************************************************************)
\* A numbering counts on from next_id.
LEMMA NumberingCounts ==
  ASSUME LibraryTyped, NEW S, NEW new \in Numberings(S)
  PROVE  \E last \in Int :
           /\ last >= library.next_id - 1
           /\ new \in [library.next_id .. last -> S]
           /\ \A a, b \in DOMAIN new : new[a] = new[b] => a = b
           /\ \A s \in S : \E b \in DOMAIN new : new[b] = s
<1>1. PICK last \in library.next_id - 1 .. MaxBooks :
        new \in Bijection(library.next_id .. last, S)
  BY DEF Numberings
<1>2. last \in Int /\ last >= library.next_id - 1
  BY EventAssumption DEF LibraryTyped
<1> QED BY <1>1, <1>2 DEF Bijection, Injection, Surjection, IsInjective

Counts(new) ==
  \E last \in Int : /\ last >= library.next_id - 1
                    /\ new = [b \in library.next_id .. last |-> new[b]]

\* What is asked for becomes books behind all others, and nothing else changes.
LEMMA NewBooks ==
  ASSUME LibraryTyped, NEW new, Counts(new),
         \A b \in DOMAIN new : new[b].date \in Date,
         NEW by \in Asker, create_book(by, new)
  PROVE  /\ LibraryTyped'
         /\ Living(library') = Living(library) \cup DOMAIN new
         /\ library.provider_ids \subseteq library'.provider_ids
         /\ \A b \in Living(library) :
              /\ b \notin DOMAIN new /\ library'.books[b] = library.books[b]
              /\ RowsOf(b)' = RowsOf(b)
         /\ \A b \in DOMAIN new :
              /\ library'.books[b].by = by /\ library'.books[b].asin = 0
              /\ RowsOf(b)' = IF new[b].id = 0 THEN {}
                   ELSE {[book |-> b, provider |-> new[b].provider,
                          id |-> new[b].id, locale |-> new[b].locale]}
<1> DEFINE first == library.next_id
           Row(b) == [book |-> b, provider |-> new[b].provider,
                      id |-> new[b].id, locale |-> new[b].locale]
           books == [b \in Living(library) \cup DOMAIN new |->
             IF b \in DOMAIN new
             THEN [by |-> by, asin |-> 0, date |-> new[b].date]
             ELSE library.books[b]]
           ids == library.provider_ids \cup
                    {Row(b) : b \in {b \in DOMAIN new : new[b].id # 0}}
<1>1. PICK last \in Int : /\ last >= first - 1
                          /\ DOMAIN new = first .. last
  BY DEF Counts
<1>2. first \in Nat \ {0} /\ last + 1 \in Nat \ {0}
  BY <1>1 DEF LibraryTyped
<1>3. Cardinality(DOMAIN new) = last + 1 - first
  <2>1. first \in Int
    BY <1>2
  <2>2. Cardinality(first .. last) = IF first > last THEN 0 ELSE last-first+1
    BY <2>1, FS_Interval
  <2> QED BY <1>1, <1>2, <2>2
<1>4. library' = [books |-> books, provider_ids |-> ids, next_id |-> last + 1]
  <2>1. first + Cardinality(DOMAIN new) = last + 1
    BY <1>1, <1>2, <1>3
  <2> QED BY <2>1, Zenon DEF create_book
<1>5. \A b \in Living(library) : b \in Nat /\ b < first
  BY <1>2 DEF LibraryTyped
<1>6. \A b \in DOMAIN new : b \in Nat /\ b \in 1 .. last /\ b >= first
  BY <1>1, <1>2
<1>7. Living(library') = Living(library) \cup DOMAIN new
  BY <1>4 DEF Living
<1>8. \A b \in Living(library) :
        b \notin DOMAIN new /\ library'.books[b] = library.books[b]
  <2>1. library'.books = books
    BY <1>4
  <2>2. \A b \in Living(library) : b \notin DOMAIN new
    BY <1>2, <1>5, <1>6
  <2> QED BY <2>1, <2>2
<1>9. \A b \in DOMAIN new :
        library'.books[b] = [by |-> by, asin |-> 0, date |-> new[b].date]
  <2>1. library'.books = books
    BY <1>4
  <2> QED BY <2>1
<1>10. library.provider_ids \subseteq library'.provider_ids
  BY <1>4
<1>11. \A r \in library.provider_ids : r.book \in Nat /\ r.book < first
  BY <1>2 DEF LibraryTyped
<1>12. \A b \in Living(library) : RowsOf(b)' = RowsOf(b)
  <2>1. \A r \in ids \ library.provider_ids : r.book \in DOMAIN new
    OBVIOUS
  <2>2. library'.provider_ids = ids
    BY <1>4
  <2> HIDE DEF ids
  <2> QED BY <1>8, <1>10, <2>1, <2>2 DEF RowsOf
<1>13. ASSUME NEW b \in DOMAIN new
       PROVE  RowsOf(b)' = IF new[b].id = 0 THEN {} ELSE {Row(b)}
  <2>1. \A r \in library.provider_ids : r.book # b
    BY <1>2, <1>6, <1>11
  <2>2. RowsOf(b)' = {r \in ids : r.book = b}
    BY <1>4 DEF RowsOf
  <2>3. \A r : r \in ids /\ r.book = b <=> r = Row(b) /\ new[b].id # 0
    BY <2>1
  <2> HIDE DEF ids, Row
  <2> QED BY <2>2, <2>3
<1>14. LibraryTyped'
  <2>1. /\ library' = [books |-> library'.books,
                       provider_ids |-> library'.provider_ids,
                       next_id |-> library'.next_id]
        /\ library'.next_id = last + 1
    BY <1>4
  <2>2. Living(library') \subseteq 1 .. last
    BY <1>1, <1>2, <1>5, <1>6, <1>7 DEF LibraryTyped
  <2>3. library'.books \in [Living(library') -> BookRecord]
    <3>1. ASSUME NEW b \in Living(library')
          PROVE  library'.books[b] \in BookRecord
      <4>1. CASE b \in DOMAIN new
        <5>1. new[b].date \in Date /\ 0 \in Id \cup {0}
          BY <4>1
        <5>2. [by |-> by, asin |-> 0, date |-> new[b].date] \in BookRecord
          BY <5>1 DEF BookRecord
        <5> QED BY <1>9, <4>1, <5>2
      <4>2. CASE b \in Living(library)
        BY <1>8, <4>2 DEF LibraryTyped
      <4> QED BY <1>7, <4>1, <4>2
    <3>2. library'.books = [b \in Living(library') |-> library'.books[b]]
      BY <1>4, <1>7
    <3> QED BY <3>1, <3>2
  <2>4. \A r \in library'.provider_ids : r.book \in 1 .. last
    <3>1. \A r \in ids \ library.provider_ids : r.book \in DOMAIN new
      OBVIOUS
    <3>2. library'.provider_ids = ids
      BY <1>4
    <3> HIDE DEF ids
    <3>3. \A r \in library.provider_ids : r.book \in 1 .. last
      BY <1>1, <1>2 DEF LibraryTyped
    <3> QED BY <1>6, <3>1, <3>2, <3>3
  <2>5. library'.next_id - 1 = last /\ library'.next_id \in Nat \ {0}
    BY <1>2, <2>1
  <2>6. /\ Living(library') \subseteq 1 .. library'.next_id - 1
        /\ \A r \in library'.provider_ids : r.book \in 1 .. library'.next_id - 1
    BY <2>2, <2>4, <2>5, Zenon
  <2> QED BY <2>1, <2>3, <2>5, <2>6, Zenon DEF LibraryTyped, Living
<1>15. \A b \in DOMAIN new :
         library'.books[b].by = by /\ library'.books[b].asin = 0
  <2>1. \A d : LET e == [by |-> by, asin |-> 0, date |-> d]
               IN  e.by = by /\ e.asin = 0
    OBVIOUS
  <2> QED BY <1>9, <2>1, Zenon
<1> HIDE DEF books, ids
<1>16. /\ LibraryTyped'
       /\ Living(library') = Living(library) \cup DOMAIN new
       /\ library.provider_ids \subseteq library'.provider_ids
  BY <1>7, <1>10, <1>14
<1>17. \A b \in Living(library) :
         /\ b \notin DOMAIN new /\ library'.books[b] = library.books[b]
         /\ RowsOf(b)' = RowsOf(b)
  BY <1>8, <1>12
<1>18. \A b \in DOMAIN new :
         /\ library'.books[b].by = by /\ library'.books[b].asin = 0
         /\ RowsOf(b)' = IF new[b].id = 0 THEN {}
              ELSE {[book |-> b, provider |-> new[b].provider,
                     id |-> new[b].id, locale |-> new[b].locale]}
  BY <1>13, <1>15
<1> QED BY <1>16, <1>17, <1>18

(***************************************************************************)
(* The properties of one step.                                             *)
(***************************************************************************)
NoDuplicateStep ==
  \A n \in Created : \A r \in RowsOf(n)' : \A b \in Living(library') \ {n} :
    /\ \A q \in RowsOf(b)' :
         \/ q.id # r.id
         \/ q.provider # r.provider /\ By(n) # "list"
         \/ By(n) = "user" /\ q.locale # r.locale
    /\ By(n) \in {"list", "future", "added"} => library'.books[b].asin # r.id

FutureStep ==
  \A n \in Created : By(n) = "future" =>
    \E c \in DOMAIN candidates' :
      /\ candidates'[c].book = n
      /\ \/ candidates'[c].date > today
         \/ /\ c \in DOMAIN candidates
            /\ candidates[c].status = "future"
            /\ candidates[c].date <= today

AddedStep ==
  \A c \in DOMAIN candidates' : \A b \in {candidates'[c].book} \ {0} :
    \/ OwnsId(b, c)'
    \/ /\ c \in DOMAIN candidates /\ candidates[c].book = b
       /\ OwnsId(b, c) =>
            library.books[b].asin \notin {0, library'.books[b].asin}

\* Nothing in the library has the id of the book asked for, as far as by asks.
Unknown(by, e) ==
  /\ \A b \in Living(library) : \A q \in RowsOf(b) :
       \/ q.id # e.id
       \/ q.provider # e.provider /\ by # "list"
       \/ by = "user" /\ q.locale # e.locale
  /\ by \in {"list", "future", "added"} =>
       \A b \in Living(library) : library.books[b].asin # e.id

\* Unknown books of different ids, or of one id each at its provider, are no
\* duplicates.
LEMMA NewBooksClean ==
  ASSUME LibraryTyped, NEW new, Counts(new),
         \A b \in DOMAIN new : new[b].date \in Date,
         NEW by \in Asker, create_book(by, new),
         \A b \in DOMAIN new : new[b].id # 0 => Unknown(by, new[b]),
         \A a, b \in DOMAIN new : a # b =>
           /\ new[a].id # new[b].id \/ new[a].provider # new[b].provider
           /\ by # "list"
  PROVE  NoDuplicateStep
<1>1. /\ Created = DOMAIN new
      /\ \A b \in DOMAIN new : By(b) = by
  BY NewBooks DEF Created, By
<1> SUFFICES ASSUME NEW n \in DOMAIN new, NEW r \in RowsOf(n)',
                    NEW b \in Living(library') \ {n}
             PROVE  /\ \A q \in RowsOf(b)' :
                         \/ q.id # r.id
                         \/ q.provider # r.provider /\ by # "list"
                         \/ by = "user" /\ q.locale # r.locale
                    /\ by \in {"list", "future", "added"} =>
                         library'.books[b].asin # r.id
  BY <1>1 DEF NoDuplicateStep
<1>2. /\ new[n].id # 0 /\ r.id = new[n].id /\ r.provider = new[n].provider
      /\ r.locale = new[n].locale
  BY NewBooks
<1>3. CASE b \in Living(library)
  BY <1>2, <1>3, NewBooks DEF Unknown
<1>4. CASE b \in DOMAIN new
  <2>1. \A q \in RowsOf(b)' : q.id = new[b].id /\ q.provider = new[b].provider
    BY <1>4, NewBooks
  <2>2. library'.books[b].asin = 0
    BY <1>4, NewBooks
  <2> QED BY <1>2, <1>4, <2>1, <2>2
<1> QED BY <1>3, <1>4, NewBooks

\* A step that makes no book.
LEMMA NothingMade ==
  ASSUME Living(library') \subseteq Living(library)
  PROVE  NoDuplicateStep /\ FutureStep
BY DEF NoDuplicateStep, FutureStep, Created

\* An added candidate keeps its book while rows are only added.
LEMMA LinksStay ==
  ASSUME library.provider_ids \subseteq library'.provider_ids,
         \A c \in DOMAIN candidates' : candidates'[c].book # 0 =>
           \/ OwnsId(candidates[c].book, c)'
           \/ /\ c \in DOMAIN candidates
              /\ candidates[c].book = candidates'[c].book,
         \A c \in DOMAIN candidates : c.id # 0
  PROVE  AddedStep
<1> SUFFICES ASSUME NEW c \in DOMAIN candidates,
                    NEW b, candidates[c].book = b, OwnsId(b, c), ~ OwnsId(b, c)'
             PROVE  library.books[b].asin \notin {0, library'.books[b].asin}
  BY DEF AddedStep
<1>1. RowsOf(b) \subseteq RowsOf(b)'
  BY DEF RowsOf
<1> QED BY <1>1 DEF OwnsId

(***************************************************************************)
(* The candidates a request works on.                                      *)
(***************************************************************************)
\* A candidate while a request is at it: the book it names owns its id or was
\* named before, and it waits for its day or has waited before.
Drawn(c, x) ==
  /\ c \in CandidateKey /\ c.follow \in follows
  /\ GoodCandidate(x, Living(library))
  /\ x.book # 0 =>
       \/ OwnsId(x.book, c)
       \/ c \in DOMAIN candidates /\ candidates[c].book = x.book
  /\ x.status = "future" =>
       \/ x.date > today
       \/ /\ c \in DOMAIN candidates /\ candidates[c].status = "future"
          /\ candidates[c].date <= today

Prepared(cands) == \A c \in DOMAIN cands : Drawn(c, cands[c])

LEMMA Days == /\ today \in 1 .. LastDay => today \in Nat
              /\ \A d \in Date : d \in Nat
BY IdAssumption, DayAssumption

LEMMA Classified ==
  ASSUME NEW d \in Date
  PROVE  /\ _classify(d) \in {"future", "backlog"}
         /\ _classify(d) = "future" => d > today
BY DEF _classify

LEMMA CandidatesDrawn ==
  ASSUME Inv
  PROVE  Prepared(candidates)
<1> SUFFICES ASSUME NEW c \in DOMAIN candidates
             PROVE  Drawn(c, candidates[c])
  BY DEF Prepared
<1>1. /\ c \in CandidateKey /\ c.follow \in follows
      /\ GoodCandidate(candidates[c], Living(library))
  BY DEF Inv, FollowsTyped
<1>2. candidates[c].date \in Nat /\ today \in Nat
  BY <1>1, Days DEF GoodCandidate, Candidate, Inv, FollowsTyped
<1> QED BY <1>1, <1>2 DEF Drawn

\* Reconciling names an owner of the id or goes back to the date.
LEMMA ReconciledDrawn ==
  ASSUME Inv, NEW c, NEW x, Drawn(c, x)
  PROVE  Drawn(c, Reconciled(x, c))
<1> DEFINE owner == _owned_book_id(library, c.provider, c.id)
           class == _classify(x.date)
<1>1. c \in CandidateKey /\ x \in Candidate
  BY DEF Drawn, GoodCandidate
<1>2. owner # 0 =>
        owner \in Living(library) /\ owner \in Nat /\ OwnsId(owner, c)
  BY <1>1, Owner DEF Inv
<1>3. class \in {"future", "backlog"} /\ (class = "future" => x.date > today)
  BY <1>1, Classified DEF Candidate
<1> HIDE DEF owner, class
<1>4. CASE x.status # "added" \/ x.book # 0
  BY <1>4 DEF Reconciled
<1>5. CASE x.status = "added" /\ x.book = 0 /\ owner # 0
  <2> DEFINE y == [x EXCEPT !.book = owner]
  <2>1. y \in Candidate /\ y.book = owner /\ y.status = "added"
    BY <1>1, <1>2, <1>5 DEF Candidate
  <2> HIDE DEF y
  <2>2. Drawn(c, y)
    BY <1>2, <1>5, <2>1 DEF Drawn, GoodCandidate
  <2>3. Reconciled(x, c) = y
    BY <1>5 DEF Reconciled, owner, y
  <2> QED BY <2>2, <2>3
<1>6. CASE x.status = "added" /\ x.book = 0 /\ owner = 0
  <2> DEFINE y == [x EXCEPT !.status = class]
  <2>1. y \in Candidate /\ y.book = 0 /\ y.status = class /\ y.date = x.date
    BY <1>1, <1>3, <1>6 DEF Candidate, Status
  <2> HIDE DEF y
  <2>2. Drawn(c, y)
    BY <1>3, <2>1 DEF Drawn, GoodCandidate
  <2>3. Reconciled(x, c) = y
    BY <1>6 DEF Reconciled, owner, class, y
  <2> QED BY <2>2, <2>3
<1> QED BY <1>4, <1>5, <1>6

LEMMA ReconciledPrepared ==
  ASSUME Inv, NEW F
  PROVE  /\ Prepared(_reconcile_added(F))
         /\ DOMAIN _reconcile_added(F) = DOMAIN candidates
<1>1. ASSUME NEW c \in DOMAIN candidates
      PROVE  Drawn(c, _reconcile_added(F)[c])
  <2>1. Drawn(c, candidates[c]) /\ Drawn(c, Reconciled(candidates[c], c))
    BY CandidatesDrawn, ReconciledDrawn DEF Prepared
  <2> QED BY <2>1 DEF _reconcile_added
<1>2. DOMAIN _reconcile_added(F) = DOMAIN candidates
  BY DEF _reconcile_added
<1> QED BY <1>1, <1>2 DEF Prepared

\* Setting the status of a candidate without a book: as its date says, or any
\* but "added" and "future".
LEMMA StatusDrawn ==
  ASSUME NEW c, NEW x, Drawn(c, x), x.book = 0, NEW d \in Date,
         NEW status \in Status,
         status = "future" => d > today
  PROVE  Drawn(c, [x EXCEPT !.date = d, !.status = status])
<1> DEFINE y == [x EXCEPT !.date = d, !.status = status]
<1>1. x \in Candidate
  BY DEF Drawn, GoodCandidate
<1>2. y \in Candidate /\ y.book = 0 /\ y.status = status /\ y.date = d
  BY <1>1 DEF Candidate
<1> HIDE DEF y
<1>3. Drawn(c, y)
  BY <1>2 DEF Drawn, GoodCandidate
<1> QED BY <1>3 DEF y

\* An undecided candidate has no book, nor has an excluded one.
LEMMA OnlyAddedNames ==
  ASSUME NEW c, NEW x, Drawn(c, x)
  PROVE  x.status # "added" => x.book = 0
BY DEF Drawn, GoodCandidate

LEMMA UpsertDrawn ==
  ASSUME Inv, NEW now, Prepared(now), NEW c \in CandidateKey,
         c.follow \in follows, NEW d \in Date
  PROVE  Drawn(c, _upsert_candidate(now, c, d))
<1> DEFINE class == _classify(d)
           x == now[c]
<1>1. class \in {"future", "backlog"} /\ (class = "future" => d > today)
  BY Classified
<1>2. CASE c \notin DOMAIN now
  <2> DEFINE y == [status |-> class, date |-> d, book |-> 0]
  <2>1. y \in Candidate /\ y.book = 0 /\ y.status = class /\ y.date = d
    BY <1>1 DEF Candidate, Status
  <2>2. _upsert_candidate(now, c, d) = y
    BY <1>2 DEF _upsert_candidate
  <2> HIDE DEF y, class
  <2>3. Drawn(c, y)
    BY <1>1, <2>1 DEF Drawn, GoodCandidate
  <2> QED BY <2>2, <2>3
<1>3. CASE c \in DOMAIN now /\ Undecided(x)
  <2>1. Drawn(c, x) /\ x.book = 0
    BY <1>3, OnlyAddedNames DEF Prepared, Undecided
  <2>2. class \in Status
    BY <1>1 DEF Status
  <2>3. _upsert_candidate(now, c, d) = [x EXCEPT !.date = d, !.status = class]
    BY <1>3 DEF _upsert_candidate
  <2> HIDE DEF class, x
  <2>4. Drawn(c, [x EXCEPT !.date = d, !.status = class])
    BY <1>1, <2>1, <2>2, StatusDrawn
  <2> QED BY <2>3, <2>4, Zenon
<1>4. CASE c \in DOMAIN now /\ ~ Undecided(x)
  <2> DEFINE y == [x EXCEPT !.date = d, !.status = @]
  <2>1. Drawn(c, x) /\ x \in Candidate /\ x.status # "future"
    BY <1>4 DEF Prepared, Drawn, GoodCandidate, Undecided
  <2>2. y \in Candidate /\ y.book = x.book /\ y.status = x.status
    BY <2>1 DEF Candidate
  <2>3. _upsert_candidate(now, c, d) = y
    BY <1>4 DEF _upsert_candidate
  <2> HIDE DEF y, x
  <2>4. Drawn(c, y)
    BY <2>1, <2>2 DEF Drawn, GoodCandidate
  <2> QED BY <2>3, <2>4
<1> QED BY <1>2, <1>3, <1>4

LEMMA BackDrawn ==
  ASSUME NEW c, NEW x, Drawn(c, x), x.status = "excluded"
  PROVE  Drawn(c, Back(x))
<1>1. x \in Candidate /\ x.book = 0
  BY OnlyAddedNames DEF Drawn, GoodCandidate
<1>2. /\ _classify(x.date) \in Status /\ x.date \in Date
      /\ _classify(x.date) = "future" => x.date > today
  BY <1>1, Classified DEF Candidate, Status
<1>3. Drawn(c, [x EXCEPT !.date = x.date, !.status = _classify(x.date)])
  BY <1>1, <1>2, StatusDrawn
<1>4. [x EXCEPT !.date = x.date, !.status = _classify(x.date)] = Back(x)
  BY <1>1 DEF Back, Candidate
<1> QED BY <1>3, <1>4

LEMMA ExcludedDrawn ==
  ASSUME NEW c, NEW x, Drawn(c, x), Undecided(x)
  PROVE  Drawn(c, [x EXCEPT !.status = "excluded"])
<1>1. x \in Candidate /\ x.book = 0 /\ x.date \in Date
  BY OnlyAddedNames DEF Drawn, GoodCandidate, Undecided, Candidate
<1>2. Drawn(c, [x EXCEPT !.date = x.date, !.status = "excluded"])
  BY <1>1, StatusDrawn DEF Status
<1>3. [x EXCEPT !.date = x.date, !.status = "excluded"]
        = [x EXCEPT !.status = "excluded"]
  BY <1>1 DEF Candidate
<1> QED BY <1>2, <1>3

(***************************************************************************)
(* What a request writes.                                                  *)
(***************************************************************************)
Sound == Inv' /\ NoDuplicateStep /\ FutureStep /\ AddedStep

LEMMA IdsNotNull ==
  ASSUME Inv
  PROVE  \A c \in DOMAIN candidates : c.id # 0
BY IdAssumption DEF Inv, FollowsTyped, CandidateKey

\* A request that only writes candidates.
LEMMA WritesSound ==
  ASSUME Inv, NEW cands, Prepared(cands), candidates' = cands,
         UNCHANGED <<library, today, follows>>, BatchTyped'
  PROVE  Sound
<1>1. Inv'
  BY DEF Inv, LibraryTyped, FollowsTyped, Prepared, Drawn, Living
<1>2. NoDuplicateStep /\ FutureStep
  BY NothingMade
<1>3. \A c \in DOMAIN candidates' : candidates'[c].book # 0 =>
        \/ OwnsId(candidates'[c].book, c)
        \/ c \in DOMAIN candidates /\ candidates[c].book = candidates'[c].book
  BY DEF Prepared, Drawn
<1>4. AddedStep
  BY <1>3 DEF AddedStep, OwnsId, RowsOf
<1> QED BY <1>1, <1>2, <1>4 DEF Sound

\* A request that only makes books.
LEMMA CreatesSound ==
  ASSUME Inv, NEW by \in Asker, NEW S, Creates(by, S), by # "future",
         \A e \in S : e.date \in Date /\ (e.id # 0 => Unknown(by, e)),
         \A e, g \in S : e # g =>
           (e.id # g.id \/ e.provider # g.provider) /\ by # "list",
         UNCHANGED followVars, BatchTyped'
  PROVE  Sound
<1>1. PICK new \in Numberings(S) : create_book(by, new)
  BY DEF Creates
<1>2. /\ Counts(new) /\ \A b \in DOMAIN new : new[b] \in S
      /\ \A a, b \in DOMAIN new : a # b => new[a] # new[b]
  <2>1. PICK last \in Int :
          /\ last >= library.next_id - 1
          /\ new \in [library.next_id .. last -> S]
          /\ \A a, b \in DOMAIN new : new[a] = new[b] => a = b
    BY <1>1, NumberingCounts DEF Inv
  <2>2. Counts(new)
    BY <2>1 DEF Counts
  <2> QED BY <2>1, <2>2
<1>3. NoDuplicateStep
  BY <1>1, <1>2, NewBooksClean DEF Inv
<1>4. /\ LibraryTyped' /\ Living(library) \subseteq Living(library')
      /\ library.provider_ids \subseteq library'.provider_ids
      /\ \A b \in Created : By(b) = by
  BY <1>1, <1>2, NewBooks DEF Inv, Created, By
<1>5. FollowsTyped'
  BY <1>4 DEF Inv, FollowsTyped, followVars, GoodCandidate
<1>6. AddedStep
  BY <1>4, LinksStay, IdsNotNull DEF followVars
<1>7. FutureStep
  BY <1>4 DEF FutureStep
<1> QED BY <1>3, <1>4, <1>5, <1>6, <1>7 DEF Sound, Inv

\* Where a candidate's book is found again.
LEMMA Inverted ==
  ASSUME NEW new, NEW c \in Range(new)
  PROVE  /\ AntiFunction(new)[c] \in DOMAIN new
         /\ new[AntiFunction(new)[c]] = c
<1>1. AntiFunction(new)[c] =
        CHOOSE s \in DOMAIN new : c \in Range(new) => new[s] = c
  BY DEF AntiFunction, Inverse
<1>2. \E s \in DOMAIN new : new[s] = c
  BY DEF Range
<1> QED BY <1>1, <1>2

\* A request that makes books of candidates of one follow.
LEMMA CreateUnownedSound ==
  ASSUME Inv, NEW cands, Prepared(cands), NEW f,
         NEW C \in SUBSET DOMAIN cands, \A c \in C : c.follow = f,
         NEW by \in {"future", "added"},
         by = "future" => \A c \in C : cands[c].status = "future",
         CreateUnowned(by, cands, C), UNCHANGED <<today, follows, batch>>
  PROVE  Sound
<1> DEFINE free == {c \in C : _owned_book_id(library, c.provider, c.id) = 0}
<1>1. PICK new \in Numberings(free) : _create_candidate_book(by, cands, new)
  BY DEF CreateUnowned
<1> DEFINE made == [b \in DOMAIN new |->
             Wanted(new[b].provider, new[b].id, ChainLocale,
                    cands[new[b]].date)]
           book == AntiFunction(new)
<1>2. /\ \A b \in DOMAIN new : new[b] \in free
      /\ \A a, b \in DOMAIN new : new[a] = new[b] => a = b
      /\ Range(new) = free /\ Counts(new)
  <2>1. PICK last \in Int :
          /\ last >= library.next_id - 1
          /\ new \in [library.next_id .. last -> free]
          /\ \A a, b \in DOMAIN new : new[a] = new[b] => a = b
          /\ \A c \in free : \E b \in DOMAIN new : new[b] = c
    BY <1>1, NumberingCounts DEF Inv
  <2>2. Counts(new)
    BY <2>1 DEF Counts
  <2>3. \A b \in DOMAIN new : new[b] \in free
    BY <2>1
  <2>4. Range(new) = free
    BY <2>1, <2>3 DEF Range
  <2> QED BY <2>1, <2>2, <2>3, <2>4
<1>3. /\ DOMAIN made = DOMAIN new
      /\ \A b \in DOMAIN made :
           /\ made[b].provider = new[b].provider /\ made[b].id = new[b].id
           /\ made[b].date = cands[new[b]].date
  BY DEF Wanted
<1>4. create_book(by, made)
  BY <1>1 DEF _create_candidate_book
<1>5. candidates' = [c \in DOMAIN cands |->
        IF c \in free
        THEN [cands[c] EXCEPT !.status = "added", !.book = book[c]]
        ELSE cands[c]]
  BY <1>1, <1>2 DEF _create_candidate_book
<1>6. Counts(made)
  BY <1>2 DEF Counts
<1>7. \A c \in free : book[c] \in DOMAIN made /\ new[book[c]] = c
  BY <1>2, <1>3, Inverted
<1>8. \A c \in free :
        /\ c \in DOMAIN cands /\ c \in CandidateKey /\ c.follow = f /\ c.id # 0
        /\ cands[c].date \in Date /\ cands[c] \in Candidate
        /\ \A b \in Living(library) : ~OwnsId(b, c)
  BY Owner, IdAssumption
  DEF Inv, Prepared, Drawn, GoodCandidate, Candidate, CandidateKey
<1> HIDE DEF made, book, free
<1>9. \A b \in DOMAIN made : made[b].date \in Date
  BY <1>2, <1>3, <1>8
<1>10. by \in Asker /\ by # "list" /\ by # "user"
  BY DEF Asker
<1>11. NoDuplicateStep
  <2>1. \A b \in DOMAIN made : Unknown(by, made[b])
    BY <1>2, <1>3, <1>8 DEF Unknown, OwnsId
  <2>2. ASSUME NEW a \in DOMAIN made, NEW b \in DOMAIN made, a # b
        PROVE  made[a].id # made[b].id \/ made[a].provider # made[b].provider
    <3>1. /\ new[a] # new[b]
          /\ new[a] \in CandidateKey /\ new[b] \in CandidateKey
          /\ new[a].follow = new[b].follow
      BY <1>2, <1>3, <1>8, <2>2
    <3>2. new[a].id # new[b].id \/ new[a].provider # new[b].provider
      BY <3>1 DEF CandidateKey
    <3> QED BY <1>3, <3>2
  <2> QED BY <1>4, <1>6, <1>9, <1>10, <2>1, <2>2, NewBooksClean DEF Inv
<1>12. /\ LibraryTyped' /\ Living(library') = Living(library) \cup DOMAIN made
       /\ library.provider_ids \subseteq library'.provider_ids
       /\ \A b \in Living(library) :
            library'.books[b] = library.books[b] /\ RowsOf(b)' = RowsOf(b)
       /\ \A b \in DOMAIN made :
            library'.books[b].by = by
              /\ (made[b].id # 0 => \E r \in RowsOf(b)' :
                    r.provider = made[b].provider /\ r.id = made[b].id)
  <2>1. ASSUME NEW b \in DOMAIN made, made[b].id # 0
        PROVE  \E r \in RowsOf(b)' :
                 r.provider = made[b].provider /\ r.id = made[b].id
    <3> DEFINE row == [book |-> b, provider |-> made[b].provider,
                       id |-> made[b].id, locale |-> made[b].locale]
    <3>1. RowsOf(b)' = {row}
      BY <1>4, <1>6, <1>9, <1>10, <2>1, NewBooks DEF Inv
    <3> QED BY <3>1
  <2>2. /\ LibraryTyped' /\ Living(library') = Living(library) \cup DOMAIN made
        /\ library.provider_ids \subseteq library'.provider_ids
        /\ \A b \in Living(library) :
             library'.books[b] = library.books[b] /\ RowsOf(b)' = RowsOf(b)
        /\ \A b \in DOMAIN made : library'.books[b].by = by
    BY <1>4, <1>6, <1>9, <1>10, NewBooks DEF Inv
  <2> QED BY <2>1, <2>2
<1>13. \A c \in free :
         /\ candidates'[c] \in
              [status : Status, date : Date, book : DOMAIN made]
         /\ candidates'[c].book = book[c] /\ candidates'[c].status = "added"
         /\ candidates'[c].date = cands[c].date
         /\ OwnsId(book[c], c)'
  <2> SUFFICES ASSUME NEW c \in free
               PROVE  /\ candidates'[c] \in
                           [status : Status, date : Date, book : DOMAIN made]
                      /\ candidates'[c].book = book[c]
                      /\ candidates'[c].status = "added"
                      /\ candidates'[c].date = cands[c].date
                      /\ OwnsId(book[c], c)'
    OBVIOUS
  <2>1. candidates'[c] = [cands[c] EXCEPT !.status = "added", !.book = book[c]]
    BY <1>5, <1>8
  <2>2. book[c] \in DOMAIN made /\ cands[c] \in Candidate
    BY <1>7, <1>8
  <2>3. OwnsId(book[c], c)'
    BY <1>3, <1>7, <1>8, <1>12 DEF OwnsId
  <2> QED BY <2>1, <2>2, <2>3 DEF Candidate, Status
<1>14. \A c \in DOMAIN cands \ free : candidates'[c] = cands[c]
  BY <1>5
<1>15. DOMAIN candidates' = DOMAIN cands
  BY <1>5
<1>16. Inv'
  <2>1. \A b \in DOMAIN made : b \in Nat
    BY <1>12 DEF LibraryTyped
  <2>2. ASSUME NEW c \in DOMAIN cands
        PROVE  GoodCandidate(candidates'[c], Living(library'))
    <3>1. CASE c \in free
      BY <1>12, <1>13, <2>1, <3>1 DEF GoodCandidate, Candidate
    <3>2. CASE c \notin free
      BY <1>12, <1>14, <3>2 DEF Prepared, Drawn, GoodCandidate
    <3> QED BY <3>1, <3>2
  <2>3. FollowsTyped'
    BY <1>15, <2>2 DEF Inv, FollowsTyped, Prepared, Drawn
  <2>4. BatchTyped'
    BY DEF Inv, BatchTyped
  <2> QED BY <1>12, <2>3, <2>4 DEF Inv
<1>17. FutureStep
  <2> SUFFICES ASSUME NEW n \in Created, by = "future"
               PROVE  \E c \in DOMAIN candidates' :
                        /\ candidates'[c].book = n
                        /\ \/ candidates'[c].date > today
                           \/ /\ c \in DOMAIN candidates
                              /\ candidates[c].status = "future"
                              /\ candidates[c].date <= today
    BY <1>12 DEF FutureStep, Created, By
  <2>1. n \in DOMAIN new
    BY <1>3, <1>12 DEF Created
  <2>2. new[n] \in free /\ book[new[n]] = n
    BY <1>2, <1>3, <1>7, <2>1
  <2>3. cands[new[n]].status = "future" /\ Drawn(new[n], cands[new[n]])
    BY <1>8, <2>2 DEF Prepared, free
  <2> QED BY <1>8, <1>13, <1>15, <2>2, <2>3 DEF Drawn
<1>18. AddedStep
  <2>1. ASSUME NEW c \in DOMAIN candidates', candidates'[c].book # 0
        PROVE  \/ OwnsId(candidates[c].book, c)'
               \/ c \in DOMAIN candidates
                    /\ candidates[c].book = candidates'[c].book
    <3>1. CASE c \in free
      BY <1>13, <3>1
    <3>2. CASE c \notin free
      <4>1. c \in DOMAIN cands /\ candidates'[c] = cands[c]
        BY <1>14, <1>15, <3>2
      <4>2. Drawn(c, cands[c]) /\ cands[c].book \in Living(library)
        BY <2>1, <4>1 DEF Prepared, Drawn, GoodCandidate
      <4>3. OwnsId(cands[c].book, c) => OwnsId(cands[c].book, c)'
        BY <1>12, <4>2 DEF OwnsId
      <4> QED BY <2>1, <4>1, <4>2, <4>3 DEF Drawn, OwnsId
    <3> QED BY <3>1, <3>2
  <2> QED BY <1>12, <2>1, LinksStay, IdsNotNull
<1> QED BY <1>11, <1>16, <1>17, <1>18 DEF Sound

(***************************************************************************)
(* Requests about books.                                                   *)
(***************************************************************************)
LEMMA IdleSound ==
  ASSUME Inv, UNCHANGED <<library, followVars>>, BatchTyped'
  PROVE  Sound
BY WritesSound, CandidatesDrawn DEF followVars

LEMMA BatchStays ==
  ASSUME Inv, UNCHANGED batch
  PROVE  BatchTyped'
BY DEF Inv, BatchTyped

\* Books are changed, and none is made or deleted.
LEMMA ChangesSound ==
  ASSUME Inv, UNCHANGED followVars, BatchTyped',
         NEW books, library' = [library EXCEPT !.books = books],
         books \in [Living(library) -> BookRecord]
  PROVE  Sound
<1>1. library' = [books |-> books, provider_ids |-> library.provider_ids,
                  next_id |-> library.next_id]
  BY DEF Inv, LibraryTyped
<1>2. /\ library'.books = books /\ library'.provider_ids = library.provider_ids
      /\ library'.next_id = library.next_id
      /\ Living(library') = Living(library)
  BY <1>1 DEF Living
<1>3. LibraryTyped'
  BY <1>1, <1>2 DEF Inv, LibraryTyped
<1>4. FollowsTyped'
  BY <1>2 DEF Inv, FollowsTyped, followVars
<1>5. NoDuplicateStep /\ FutureStep
  BY <1>2, NothingMade
<1>6. AddedStep
  BY <1>2, LinksStay, IdsNotNull DEF followVars
<1> QED BY <1>3, <1>4, <1>5, <1>6 DEF Sound, Inv

LEMMA PostSound ==
  ASSUME Inv, NEW provider, NEW id, NEW locale, NEW date \in Date,
         post_book(provider, id, locale, date), UNCHANGED <<followVars, batch>>
  PROVE  Sound
<1> DEFINE e == Wanted(provider, id, locale, date)
<1>1. BatchTyped'
  BY BatchStays
<1>2. CASE UNCHANGED library
  BY <1>1, <1>2, IdleSound
<1>3. CASE ~ UNCHANGED library
  <2>1. /\ Creates("user", {e})
        /\ id # 0 => find_book_by_provider_id(library, provider, id, locale) = 0
    BY <1>3 DEF post_book
  <2>2. e.id # 0 => Unknown("user", e)
    BY <2>1, NotAddedYet DEF Wanted, Unknown, Inv, RowsOf
  <2>3. e.date \in Date
    BY DEF Wanted
  <2> HIDE DEF e
  <2> QED BY <1>1, <2>1, <2>2, <2>3, CreatesSound DEF Asker
<1> QED BY <1>2, <1>3

LEMMA KnownToNobody ==
  ASSUME NEW provider, NEW id, ~ KnownTo(library, provider, id), NEW e,
         e.provider = provider, e.id = id
  PROVE  Unknown("import", e) /\ Unknown("sync", e)
BY DEF KnownTo, Unknown, RowsOf

LEMMA ImportBookSound ==
  ASSUME Inv, NEW provider, NEW id, NEW locale,
         import_book(provider, id, locale), UNCHANGED <<followVars, batch>>
  PROVE  Sound
<1> DEFINE e == Wanted(provider, id, locale, 0)
<1>1. Creates("import", {e}) /\ ~ KnownTo(library, provider, id)
  BY DEF import_book
<1>2. e.date \in Date /\ e.provider = provider /\ e.id = id
  BY IdAssumption DEF Wanted
<1>3. BatchTyped'
  BY BatchStays
<1> HIDE DEF e
<1> QED BY <1>1, <1>2, <1>3, KnownToNobody, CreatesSound DEF Asker

LEMMA SyncSound ==
  ASSUME Inv, NEW locale, sync_source(locale), UNCHANGED <<followVars, batch>>
  PROVE  Sound
<1>1. PICK asins \in SUBSET Id : sync_liberatarr_rows(asins, locale)
  BY DEF sync_source
<1> DEFINE E(asin) == Wanted("audible", asin, locale, 0)
           S == {E(asin) : asin \in
                   {asin \in asins : ~KnownTo(library, "audible", asin)}}
<1>2. Creates("sync", S)
  BY <1>1 DEF sync_liberatarr_rows
<1>3. \A asin : E(asin).date = 0 /\ E(asin).id = asin
                  /\ E(asin).provider = "audible"
  BY DEF Wanted
<1>4. \A e \in S : e.date \in Date /\ (e.id # 0 => Unknown("sync", e))
  <2> SUFFICES ASSUME NEW asin \in asins, ~KnownTo(library, "audible", asin)
               PROVE  /\ E(asin).date \in Date
                      /\ E(asin).id # 0 => Unknown("sync", E(asin))
    OBVIOUS
  <2> HIDE DEF E
  <2> QED BY <1>3, IdAssumption, KnownToNobody
<1>5. \A e, g \in S : e # g => e.id # g.id
  BY <1>3 DEF Wanted
<1>6. BatchTyped'
  BY BatchStays
<1> HIDE DEF S
<1> QED BY <1>2, <1>4, <1>5, <1>6, CreatesSound DEF Asker

LEMMA UpdateSound ==
  ASSUME Inv, NEW b \in Living(library), NEW date \in Date,
         library' = update_book(library, b, date),
         UNCHANGED <<followVars, batch>>
  PROVE  Sound
<1> DEFINE books == [library.books EXCEPT ![b].date = date]
<1>1. BatchTyped'
  BY BatchStays
<1>2. CASE date = 0
  BY <1>1, <1>2, IdleSound DEF update_book
<1>3. CASE date # 0
  <2>1. library' = [library EXCEPT !.books = books]
    BY <1>3 DEF update_book, Inv, LibraryTyped
  <2>2. books \in [Living(library) -> BookRecord]
    BY DEF Inv, LibraryTyped, BookRecord
  <2> HIDE DEF books
  <2> QED BY <1>1, <2>1, <2>2, ChangesSound
<1> QED BY <1>2, <1>3

LEMMA RequestsSound ==
  ASSUME Inv, Requests, UNCHANGED <<followVars, batch, backfill>>
  PROVE  Sound
<1>1. CASE \E p \in Provider : \E i \in Id : \E l \in Locale :
             post_book(p, i, l, 0)
  BY <1>1, IdAssumption, PostSound
<1>2. CASE post_book("none", 0, "none", 0)
  BY <1>2, IdAssumption, PostSound
<1>3. CASE \E p \in Provider : \E i \in Id : import_book(p, i, ChainLocale)
  BY <1>3, ImportBookSound
<1>4. ASSUME NEW b \in Living(library), refresh_book(b)
      PROVE  Sound
  BY <1>4, UpdateSound DEF refresh_book, get_detail
<1>5. ASSUME NEW b \in Living(library), NEW d \in Date, patch_book(b, d)
      PROVE  Sound
  BY <1>5, UpdateSound DEF patch_book
<1>6. CASE sync_source(ChainLocale) \/ sync_liberatarr(ChainLocale)
  BY <1>6, SyncSound DEF sync_liberatarr
<1> QED BY <1>1, <1>2, <1>3, <1>4, <1>5, <1>6 DEF Requests

(***************************************************************************)
(* Follows.                                                                *)
(***************************************************************************)
LEMMA RefreshFollowSound ==
  ASSUME Inv, NEW f \in Name, refresh_follow(f), UNCHANGED batch
  PROVE  Sound
<1> DEFINE now == _reconcile_added({f})
           After(hits, date) == [c \in DOMAIN now \cup hits |->
             IF c \in hits THEN _upsert_candidate(now, c, date[c]) ELSE now[c]]
<1>1. PICK hits \in search(f) : \E date \in [hits -> Date] :
        _materialize_future(After(hits, date), f)
  BY DEF refresh_follow
<1>2. PICK date \in [hits -> Date] : _materialize_future(After(hits, date), f)
  BY <1>1
<1>3. Prepared(now)
  BY ReconciledPrepared
<1>4. \A c \in hits : c \in CandidateKey /\ c.follow = f
  <2>1. PICK p \in Provider :
          hits \subseteq {[follow |-> f, provider |-> h.provider, id |-> h.id] :
                            h \in {h \in Hits[f] : h.provider = p}}
    BY DEF search
  <2>2. \A h \in Hits[f] : h.provider \in Provider /\ h.id \in Id
    BY HitsAssumption
  <2> QED BY <2>1, <2>2 DEF CandidateKey
<1> HIDE DEF now
<1> DEFINE cands == After(hits, date)
<1>5. Prepared(cands)
  <2> SUFFICES ASSUME NEW c \in DOMAIN now \cup hits
               PROVE  Drawn(c, cands[c])
    BY DEF Prepared
  <2>1. CASE c \in hits
    <3>1. c \in CandidateKey /\ c.follow \in follows /\ date[c] \in Date
      BY <1>4, <2>1 DEF refresh_follow
    <3>2. Drawn(c, _upsert_candidate(now, c, date[c]))
      BY <1>3, <3>1, UpsertDrawn
    <3> QED BY <2>1, <3>2
  <2>2. CASE c \notin hits
    BY <1>3, <2>2 DEF Prepared
  <2> QED BY <2>1, <2>2
<1> HIDE DEF cands
<1>6. CreateUnowned("future", cands,
        {c \in DOMAIN cands : c.follow = f /\ cands[c].status = "future"})
  BY <1>2 DEF _materialize_future, cands
<1> QED BY <1>5, <1>6, CreateUnownedSound DEF refresh_follow

LEMMA CreateFollowSound ==
  ASSUME Inv, NEW f \in Name, create_follow(f), UNCHANGED batch
  PROVE  Sound
<1>1. UNCHANGED <<library, candidates, today>> /\ follows' = follows \cup {f}
  BY DEF create_follow
<1>2. Inv'
  BY <1>1 DEF Inv, LibraryTyped, FollowsTyped, BatchTyped, Living
<1>3. NoDuplicateStep /\ FutureStep /\ AddedStep
  BY <1>1, NothingMade, LinksStay, IdsNotNull
<1> QED BY <1>2, <1>3 DEF Sound

LEMMA DeleteFollowSound ==
  ASSUME Inv, NEW f \in Name, delete_follow(f), UNCHANGED batch
  PROVE  Sound
<1>1. /\ UNCHANGED <<library, today>> /\ follows' = follows \ {f}
      /\ DOMAIN candidates' = DOMAIN candidates \ CandidatesOf(f)
      /\ \A c \in DOMAIN candidates' : candidates'[c] = candidates[c]
  BY DEF delete_follow, Without
<1>2. \A c \in DOMAIN candidates' : c \in DOMAIN candidates /\ c.follow # f
  BY <1>1 DEF CandidatesOf
<1>3. Inv'
  BY <1>1, <1>2 DEF Inv, LibraryTyped, FollowsTyped, BatchTyped, Living
<1>4. NoDuplicateStep /\ FutureStep /\ AddedStep
  BY <1>1, <1>2, NothingMade, LinksStay, IdsNotNull
<1> QED BY <1>3, <1>4 DEF Sound

LEMMA DayPassesSound ==
  ASSUME Inv, DayPasses, UNCHANGED batch
  PROVE  Sound
<1>1. /\ UNCHANGED <<library, candidates, follows>>
      /\ today < LastDay /\ today' = today + 1
  BY DEF DayPasses
<1>2. today' \in 1 .. LastDay
  BY <1>1, DayAssumption DEF Inv, FollowsTyped
<1>3. Inv'
  BY <1>1, <1>2 DEF Inv, LibraryTyped, FollowsTyped, BatchTyped, Living
<1>4. NoDuplicateStep /\ FutureStep /\ AddedStep
  BY <1>1, NothingMade, LinksStay, IdsNotNull
<1> QED BY <1>3, <1>4 DEF Sound

LEMMA ListSound ==
  ASSUME Inv, UNCHANGED batch,
         list_follows \/ \E f \in Name : list_candidates(f)
  PROVE  Sound
<1>1. PICK F : candidates' = _reconcile_added(F)
  BY DEF list_follows, list_candidates
<1>2. UNCHANGED <<library, today, follows>>
  BY DEF list_follows, list_candidates
<1> QED BY <1>1, <1>2, BatchStays, ReconciledPrepared, WritesSound

LEMMA ExcludeSound ==
  ASSUME Inv, NEW f \in Name, NEW C, exclude_candidates(f, C), UNCHANGED batch
  PROVE  Sound
<1> DEFINE now == _reconcile_added({f})
<1>1. Prepared(now)
  BY ReconciledPrepared
<1> HIDE DEF now
<1> DEFINE cands == [c \in DOMAIN now |->
             IF c \in C /\ Undecided(now[c])
             THEN [now[c] EXCEPT !.status = "excluded"] ELSE now[c]]
<1>2. candidates' = cands /\ UNCHANGED <<library, today, follows>>
  BY DEF exclude_candidates, now
<1>3. ASSUME NEW c \in DOMAIN now PROVE Drawn(c, cands[c])
  BY <1>1, ExcludedDrawn DEF Prepared
<1>4. Prepared(cands)
  BY <1>3 DEF Prepared
<1> HIDE DEF cands
<1> QED BY <1>2, <1>4, BatchStays, WritesSound

LEMMA RestoreSound ==
  ASSUME Inv, NEW f \in Name, NEW C \in SUBSET CandidatesOf(f),
         restore_candidates(f, C), UNCHANGED batch
  PROVE  Sound
<1> DEFINE now == _reconcile_added({f})
<1>1. Prepared(now)
  BY ReconciledPrepared
<1> DEFINE changed == {c \in C : now[c].status = "excluded"}
           back == [c \in DOMAIN now |->
                      IF c \in changed THEN Back(now[c]) ELSE now[c]]
<1>2. /\ IF changed = {}
         THEN candidates' = now /\ UNCHANGED library
         ELSE _materialize_future(back, f)
      /\ UNCHANGED <<today, follows>>
  BY DEF restore_candidates
<1> HIDE DEF now
<1>3. CASE changed = {}
  BY <1>1, <1>2, <1>3, BatchStays, WritesSound
<1>4. CASE changed # {}
  <2>1. ASSUME NEW c \in DOMAIN now PROVE Drawn(c, back[c])
    BY <1>1, BackDrawn DEF Prepared
  <2>2. Prepared(back)
    BY <2>1 DEF Prepared
  <2> HIDE DEF back
  <2>3. CreateUnowned("future", back,
          {c \in DOMAIN back : c.follow = f /\ back[c].status = "future"})
    BY <1>2, <1>4 DEF _materialize_future
  <2> QED BY <1>2, <2>2, <2>3, CreateUnownedSound
<1> QED BY <1>3, <1>4

LEMMA AddSound ==
  ASSUME Inv, NEW f \in Name, NEW C \in SUBSET CandidatesOf(f),
         add_candidates(f, C), UNCHANGED batch
  PROVE  Sound
<1> DEFINE now == _reconcile_added({f})
           chosen == {c \in C : now[c].status = "backlog"}
<1>1. Prepared(now) /\ DOMAIN now = DOMAIN candidates
  BY ReconciledPrepared
<1>2. CreateUnowned("added", now, chosen) /\ UNCHANGED <<today, follows>>
  BY DEF add_candidates
<1>3. chosen \in SUBSET DOMAIN now /\ \A c \in chosen : c.follow = f
  BY <1>1 DEF CandidatesOf
<1> HIDE DEF now, chosen
<1> QED BY <1>1, <1>2, <1>3, CreateUnownedSound

\* The rows of the book stay, and no candidate names it any more.
LEMMA RemoveSound ==
  ASSUME Inv, NEW b \in Living(library), remove_book(b), UNCHANGED batch
  PROVE  Sound
<1>1. library' = [books |-> Without(library.books, {b}),
                  provider_ids |-> library.provider_ids,
                  next_id |-> library.next_id]
  BY DEF remove_book, delete_book, Inv, LibraryTyped
<1>2. /\ Living(library') = Living(library) \ {b}
      /\ library'.provider_ids = library.provider_ids
      /\ library'.next_id = library.next_id
      /\ library'.books = [x \in Living(library) \ {b} |-> library.books[x]]
  BY <1>1 DEF Living, Without
<1>3. LibraryTyped'
  BY <1>1, <1>2 DEF Inv, LibraryTyped
<1>4. DOMAIN candidates' = DOMAIN candidates /\ UNCHANGED <<today, follows>>
  BY DEF remove_book
<1>5. ASSUME NEW c \in DOMAIN candidates
      PROVE  /\ GoodCandidate(candidates'[c], Living(library'))
             /\ candidates'[c].book # 0 =>
                  candidates'[c].book = candidates[c].book
  <2> DEFINE x == candidates[c]
  <2>1. GoodCandidate(x, Living(library))
    BY DEF Inv, FollowsTyped
  <2>2. candidates'[c] = IF x.book = b THEN [x EXCEPT !.book = 0] ELSE x
    BY DEF remove_book
  <2> HIDE DEF x
  <2>3. CASE x.book = b
    BY <2>1, <2>2, <2>3 DEF GoodCandidate, Candidate
  <2>4. CASE x.book # b
    BY <1>2, <2>1, <2>2, <2>4 DEF GoodCandidate, x
  <2> QED BY <2>3, <2>4
<1>6. Inv'
  BY <1>3, <1>4, <1>5, BatchStays DEF Inv, FollowsTyped
<1>7. NoDuplicateStep /\ FutureStep
  BY <1>2, NothingMade
<1>8. AddedStep
  BY <1>2, <1>4, <1>5, LinksStay, IdsNotNull
<1> QED BY <1>6, <1>7, <1>8 DEF Sound

LEMMA FollowsSound ==
  ASSUME Inv, FollowsNext, UNCHANGED <<batch, backfill>>
  PROVE  Sound
BY CreateFollowSound, DeleteFollowSound, RefreshFollowSound, ListSound,
   ExcludeSound, RestoreSound, AddSound, RemoveSound, DayPassesSound
DEF FollowsNext

(***************************************************************************)
(* Reading lists and the backfill.                                         *)
(***************************************************************************)
LEMMA RestTyped ==
  ASSUME BatchTyped, batch.at # "idle", batch' = Rest(batch)
  PROVE  BatchTyped'
<1> DEFINE todo == batch.todo
<1>1. todo \in Seq(Selection) /\ todo # <<>> /\ batch.seen \in SUBSET STRING
  BY DEF BatchTyped
<1>2. CASE Len(todo) = 1
  BY <1>2 DEF Rest, NoBatch, BatchTyped
<1>3. CASE Len(todo) # 1
  <2>1. /\ Tail(todo) \in Seq(Selection) /\ Tail(todo) # <<>>
        /\ Head(todo) \in Selection
    <3>1. Len(todo) \in Nat /\ Len(todo) # 0 /\ Len(todo) # 1
      BY <1>1, <1>3
    <3>2. /\ Tail(todo) \in Seq(Selection) /\ Len(Tail(todo)) = Len(todo) - 1
          /\ Head(todo) \in Selection
      BY <1>1
    <3>3. Len(<<>>) = 0
      OBVIOUS
    <3>4. Len(Tail(todo)) # 0
      BY <3>1, <3>2
    <3>5. Tail(todo) # <<>>
      BY <3>3, <3>4, Zenon
    <3> QED BY <3>2, <3>5
  <2>2. batch' = [at |-> "next", todo |-> Tail(todo),
                  seen |-> batch.seen \cup {Head(todo).key}]
    BY <1>3 DEF Rest
  <2> QED BY <1>1, <2>1, <2>2 DEF BatchTyped, Selection
<1> QED BY <1>2, <1>3

LEMMA ListsSound ==
  ASSUME Inv, ReadingListsNext, UNCHANGED <<followVars, backfill>>
  PROVE  Sound
<1>1. ASSUME NEW s \in Selections, import_selections(s)
      PROVE  Sound
  <2>1. s \in Seq(Selection) /\ s # <<>>
    BY SelectionsAssumption DEF Selection
  <2>2. /\ batch' = [at |-> "next", todo |-> s, seen |-> {}]
        /\ UNCHANGED library
    BY <1>1 DEF import_selections
  <2>3. BatchTyped'
    BY <2>1, <2>2 DEF BatchTyped
  <2> QED BY <2>2, <2>3, IdleSound
<1>2. CASE _import_one
  <2>1. /\ batch.at = "next" /\ UNCHANGED library
        /\ batch' = Rest(batch) \/ batch' = [batch EXCEPT !.at = "await"]
    BY <1>2 DEF _import_one
  <2>2. batch' = [batch EXCEPT !.at = "await"] => BatchTyped'
    BY <2>1 DEF Inv, BatchTyped
  <2>3. BatchTyped'
    BY <2>1, <2>2, RestTyped DEF Inv
  <2> QED BY <2>1, <2>3, IdleSound
<1>3. CASE NotCreated
  BY <1>3, RestTyped, IdleSound DEF NotCreated, Inv
<1>4. CASE Confirmed
  <2>1. BatchTyped'
    BY <1>4, RestTyped DEF Confirmed, Inv
  <2> DEFINE sel == Head(batch.todo)
  <2>2. PICK detail \in get_detail :
          IF KnownByNow(sel, detail.asin) THEN UNCHANGED library
          ELSE Creates("list", {Wanted(sel.provider, sel.id, sel.locale,
                                       detail.date)})
    BY <1>4 DEF Confirmed
  <2> DEFINE e == Wanted(sel.provider, sel.id, sel.locale, detail.date)
  <2>3. CASE KnownByNow(sel, detail.asin)
    BY <2>1, <2>2, <2>3, IdleSound
  <2>4. CASE ~ KnownByNow(sel, detail.asin)
    <3>1. e.id = sel.id /\ e.date \in Date
      BY DEF Wanted, get_detail
    <3>2. /\ \A r \in library.provider_ids : r.id # sel.id
          /\ sel.id # 0 =>
               \A b \in Living(library) : library.books[b].asin # sel.id
      BY <2>4, NobodyKnows DEF KnownByNow, Inv
    <3>3. Creates("list", {e})
      BY <2>2, <2>4
    <3> HIDE DEF e, sel
    <3>4. e.id # 0 => Unknown("list", e)
      BY <3>1, <3>2 DEF Unknown, RowsOf
    <3> QED BY <2>1, <3>1, <3>3, <3>4, CreatesSound DEF Asker
  <2> QED BY <2>3, <2>4
<1> QED BY <1>1, <1>2, <1>3, <1>4
        DEF ReadingListsNext, import_goodreads_source, import_csv_selection

LEMMA BackfillSound ==
  ASSUME Inv, BackfillNext, UNCHANGED <<followVars, batch>>
  PROVE  Sound
<1>1. CASE UNCHANGED library
  BY <1>1, BatchStays, IdleSound
<1>2. ASSUME NEW w, LookedUp(w), ~ UNCHANGED library
      PROVE  Sound
  <2> DEFINE b == Min(backfill[w])
  <2>1. PICK asin \in Id : \E date \in Date :
          library' = [library EXCEPT !.books[b] = Filled(@, asin, date)]
    BY <1>2 DEF LookedUp
  <2>2. PICK date \in Date :
          library' = [library EXCEPT !.books[b] = Filled(@, asin, date)]
    BY <2>1
  <2>3. b \in Living(library)
    BY <1>2 DEF LookedUp
  <2> HIDE DEF b
  <2> DEFINE books == [library.books EXCEPT ![b] = Filled(@, asin, date)]
  <2>4. Filled(library.books[b], asin, date) \in BookRecord
    BY <2>3 DEF Filled, BookRecord, Inv, LibraryTyped
  <2>5. books \in [Living(library) -> BookRecord]
    BY <2>4 DEF Inv, LibraryTyped
  <2>6. library' = [library EXCEPT !.books = books]
    BY <2>2 DEF Inv, LibraryTyped
  <2> HIDE DEF books
  <2> QED BY <2>5, <2>6, BatchStays, ChangesSound
<1> QED BY <1>1, <1>2 DEF BackfillNext, run_once, trigger_backfill,
                          run_backfill_batch, LookupFails

(***************************************************************************)
(* The theorems.                                                           *)
(***************************************************************************)
LEMMA InvInit == Init => Inv
<1> SUFFICES ASSUME Init PROVE Inv
  OBVIOUS
<1> USE DEF Init, CatalogueInit, FollowsInit, ReadingListsInit, BackfillInit
<1>1. LibraryTyped
  BY DEF LibraryTyped, Living
<1>2. FollowsTyped
  BY DayAssumption DEF FollowsTyped
<1>3. BatchTyped
  BY DEF BatchTyped, NoBatch
<1> QED BY <1>1, <1>2, <1>3 DEF Inv

LEMMA NextSound ==
  ASSUME Inv, Next
  PROVE  Sound
BY RequestsSound, FollowsSound, ListsSound, BackfillSound DEF Next

LEMMA InvStays ==
  ASSUME Inv, [Next]_vars
  PROVE  Inv'
<1>1. CASE UNCHANGED vars
  BY <1>1 DEF vars, catalogueVars, followVars, Inv, LibraryTyped, FollowsTyped,
              BatchTyped, Living
<1> QED BY <1>1, NextSound DEF Sound

LEMMA InvAlways == Spec => []Inv
BY InvInit, InvStays, PTL DEF Spec

\* Every variable keeps its type, and an added candidate names a book that
\* exists, whatever the order of requests, lookups and deletions.
THEOREM TypeCorrect == Spec => []TypeOK
<1>1. Inv => TypeOK
  <2> SUFFICES ASSUME Inv PROVE TypeOK
    OBVIOUS
  <2>1. \A b \in Living(library) :
          b < library.next_id /\ library.books[b].date \in Date
            /\ library.books[b].asin \in Id \cup {0}
    BY DEF Inv, LibraryTyped, BookRecord
  <2>2. \A r \in library.provider_ids : r.book < library.next_id
    BY DEF Inv, LibraryTyped
  <2>3. \A c \in DOMAIN candidates :
          /\ c.follow \in follows
          /\ candidates[c].status \in {"future", "backlog", "excluded", "added"}
          /\ candidates[c].book # 0 =>
               candidates[c].status = "added"
                 /\ candidates[c].book \in Living(library)
    BY DEF Inv, FollowsTyped, GoodCandidate, Candidate, Status
  <2>4. /\ today \in 1 .. LastDay /\ follows \subseteq Name
        /\ batch.at \in {"idle", "next", "await"}
        /\ (batch.at = "idle") = (batch.todo = <<>>)
    BY DEF Inv, FollowsTyped, BatchTyped
  <2> QED BY <2>1, <2>2, <2>3, <2>4 DEF TypeOK
<1> QED BY <1>1, InvAlways, PTL

\* No request, sync or import adds a book while the library has one of the
\* same provider and id, unless a user adds it from another region.
THEOREM NoDuplicates == Spec => NoDuplicateCreated
<1>1. Inv /\ [Next]_vars => [NoDuplicateStep]_vars
  BY NextSound DEF Sound
<1> QED BY <1>1, InvAlways, PTL DEF Spec, NoDuplicateCreated, NoDuplicateStep

\* What nobody asked for is not released yet, or was classified "future"
\* before its day and never since.
THEOREM OnlyAsFuture == Spec => ByItselfOnlyAsFuture
<1>1. Inv /\ [Next]_vars => [FutureStep]_vars
  BY NextSound DEF Sound
<1> QED BY <1>1, InvAlways, PTL DEF Spec, ByItselfOnlyAsFuture,
        FutureStep

\* An added candidate names a book of its own id, until a lookup replaces the
\* ASIN that another lookup had found.
THEOREM AddedNamesOwnBook == Spec => AddedNamesItsBook
<1>1. Inv /\ [Next]_vars => [AddedStep]_vars
  BY NextSound DEF Sound
<1> QED BY <1>1, InvAlways, PTL DEF Spec, AddedNamesItsBook, AddedStep
==============================================================================
