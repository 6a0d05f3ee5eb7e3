------------------------ MODULE ImportPipelineProofs ------------------------
(***************************************************************************)
(* What is proved of the import pipeline for every set of names, books and *)
(* downloads, every number of files and faults, and any of the callers.    *)
(***************************************************************************)
EXTENDS ImportProperties, TLAPS

(***************************************************************************)
(* Types of what the steps write.                                          *)
(***************************************************************************)
\* The states of a caller that has a new identity in hand, and those in which
\* its rows are uncommitted.
Handling == {"place", "undo", "persist"}
Writing == {"probe", "offer"}

GoodTask ==
  {t \in Task :
     /\ t.pc \in {"search", "event"} \cup Handling \cup Writing
          => t.folder \in Folder
     /\ t.pc \in {"event"} \cup Handling \cup Writing => t.book \in Book
     /\ t.pc = "take" => t.item \in Item
     /\ t.pc \notin Handling => t.done = {}}

TasksTyped == task \in [Actor -> GoodTask]
StoreTyped == lock \in Actor \cup {Nobody} /\ db \in Store /\ tx \in Store
DiskTyped == disk \in [Path -> Content] /\ faults \in 0 .. MaxFaults

\* A coroutine runs until its next await: no other one is between two.
OneRunning ==
  \A a, b \in Actor :
    task[a].pc \in Running /\ task[b].pc \in Running => a = b

\* What is uncommitted belongs to the holder of the lock, and a caller whose
\* rows are not complete holds it.
LockKept ==
  /\ lock = Nobody => tx = db
  /\ \A a \in Actor : task[a].pc \in Writing => lock = a

Inv == TasksTyped /\ StoreTyped /\ OneRunning /\ LockKept

(***************************************************************************)
(* Types of what the steps write.                                          *)
(***************************************************************************)
LEMMA IdleTyped == IdleTask \in GoodTask
<1>1. IdleTask \in Task
  BY DEF IdleTask, Task, Running, Waiting, Outcome, Strategy
<1> QED BY <1>1 DEF GoodTask, IdleTask, Handling, Writing

LEMMA LedgerTyped ==
  ASSUME NEW data \in Store, NEW i, NEW phase \in Phase
  PROVE  [data EXCEPT !.ledger[i] = phase] \in Store
BY DEF Store

LEMMA BooksTyped ==
  ASSUME NEW data \in Store, NEW b
  PROVE  [data EXCEPT !.books[b] = @ + 1] \in Store
BY DEF Store

LEMMA CatalogTyped ==
  ASSUME NEW data \in Store, NEW r, NEW b \in Book \cup {NoBook}
  PROVE  [data EXCEPT !.catalog[r] = b] \in Store
BY DEF Store

LEMMA ProblemsTyped ==
  ASSUME NEW data \in Store, NEW S, S \subseteq Folder
  PROVE  [data EXCEPT !.problems = S] \in Store
BY DEF Store

LEMMA FoundTyped ==
  /\ {<<c, FilesAt(c)>> : c \in Scanned} \subseteq Folder \X SUBSET File
  /\ \A c : FilesAt(c) \subseteq File
<1>1. \A c : FilesAt(c) \subseteq File
  BY DEF FilesAt
<1>2. Scanned \subseteq Folder
  BY DEF Scanned
<1> QED BY <1>1, <1>2

LEMMA RunTaskTyped ==
  ASSUME NEW t \in GoodTask, t.pc \notin Handling
  PROVE  RunTask(t) \in GoodTask /\ RunTask(t).pc = "next"
<1>1. "none" \in Outcome /\ "next" \in Running
  BY DEF Outcome, Running
<1>2. t \in Task /\ t.done = {}
  BY DEF GoodTask
<1>3. RunTask(t) \in Task
  BY <1>1, <1>2, FoundTyped DEF RunTask, Task
<1>4. RunTask(t).pc = "next" /\ RunTask(t).done = {}
  BY <1>2 DEF RunTask, Task
<1> QED BY <1>3, <1>4 DEF GoodTask, Handling, Writing

LEMMA SingleTaskTyped ==
  ASSUME NEW t \in GoodTask, t.pc \notin Handling,
         NEW c \in Folder, NEW b \in Book \cup {NoBook}
  PROVE  SingleTask(t, c, b) \in GoodTask /\ SingleTask(t, c, b).pc = "search"
<1>1. "none" \in Outcome /\ "search" \in Waiting
  BY DEF Outcome, Waiting
<1>2. t \in Task /\ t.done = {}
  BY DEF GoodTask
<1>3. SingleTask(t, c, b) \in Task
  BY <1>1, <1>2, FoundTyped DEF SingleTask, Task
<1>4. /\ SingleTask(t, c, b).pc = "search"
      /\ SingleTask(t, c, b).done = {}
      /\ SingleTask(t, c, b).folder = c
  BY <1>2 DEF SingleTask, Task
<1> QED BY <1>3, <1>4 DEF GoodTask, Handling, Writing

LEMMA FinishedTyped ==
  ASSUME NEW t \in GoodTask, NEW outcome \in Outcome
  PROVE  Finished(t, outcome) \in GoodTask /\ Finished(t, outcome).pc = "next"
<1>1. t \in Task
  BY DEF GoodTask
<1>2. Finished(t, outcome) \in Task
  BY <1>1 DEF Finished, Task, Running
<1>3. Finished(t, outcome).pc = "next" /\ Finished(t, outcome).done = {}
  BY <1>1 DEF Finished, Task
<1> QED BY <1>2, <1>3 DEF GoodTask, Handling, Writing

LEMMA ViewTyped ==
  ASSUME StoreTyped, NEW a
  PROVE  View(a) \in Store
BY DEF StoreTyped, View

(***************************************************************************)
(* What a step of one caller may do to the database, and where it leaves   *)
(* the coroutine when it ends an import or goes on to the next candidate.  *)
(***************************************************************************)
BooksKept ==
  db'.books \in {db.books, tx.books} /\ tx'.books \in {db.books, tx.books}

StoreMoves(a) ==
  /\ StoreTyped'
  /\ lock \notin {a, Nobody} => UNCHANGED store
  /\ lock' \in {lock, a, Nobody}
  /\ lock' = Nobody => tx' = db'

Ends(a) ==
  /\ StoreMoves(a)
  /\ BooksKept
  /\ \E t \in GoodTask : Become(a, t) /\ t.pc \notin Handling \cup Writing

\* Nothing is written: enough for the steps that leave the database alone.
LEMMA StoreStays ==
  ASSUME StoreTyped, LockKept, NEW a \in Actor, UNCHANGED store
  PROVE  StoreMoves(a) /\ BooksKept
BY DEF StoreMoves, StoreTyped, BooksKept, LockKept, store

\* What a writes is its view with changes.
LEMMA StoreWritten ==
  ASSUME StoreTyped, LockKept, NEW a \in Actor, CanWrite(a),
         NEW data \in Store, Write(a, data)
  PROVE  StoreMoves(a) /\ (data.books = View(a).books => BooksKept)
<1>1. a # Nobody
  BY DEF Actor, Nobody
<1> QED BY <1>1 DEF StoreMoves, StoreTyped, BooksKept, CanWrite, Write, View

LEMMA StoreCommitted ==
  ASSUME StoreTyped, LockKept, NEW a \in Actor, CanWrite(a),
         NEW data \in Store, Commit(data)
  PROVE  /\ StoreMoves(a)
         /\ data.books \in {db.books, tx.books} => BooksKept
BY DEF StoreMoves, StoreTyped, BooksKept, CanWrite, Commit

LEMMA SettleEnds ==
  ASSUME Inv, NEW phase \in Phase, NEW data \in Store,
         data.books \in {db.books, tx.books}, Settle(phase, data)
  PROVE  Ends("poll")
<1> DEFINE t == task["poll"]
           row == [data EXCEPT !.ledger[t.item] = phase]
           next == [IdleTask EXCEPT !.pc = "item", !.queue = t.queue,
                                    !.client = t.client]
           last == [IdleTask EXCEPT !.pc = IF t.client = "sab" THEN "dead"
                                                              ELSE "idle"]
<1>1. t \in Task /\ "poll" \in Actor /\ IdleTask \in Task
  BY IdleTyped DEF Inv, TasksTyped, GoodTask, Actor
<1>2. next \in GoodTask /\ next.pc \notin Handling \cup Writing
  <2>1. next \in Task
    BY <1>1 DEF Task, Running
  <2>2. next.pc = "item" /\ next.done = {}
    BY DEF IdleTask
  <2> QED BY <2>1, <2>2 DEF GoodTask, Handling, Writing
<1>3. last \in GoodTask /\ last.pc \notin Handling \cup Writing
  <2>1. last \in Task
    BY <1>1 DEF Task
  <2>2. last.pc \in {"dead", "idle"} /\ last.done = {}
    BY DEF IdleTask
  <2> QED BY <2>1, <2>2 DEF GoodTask, Handling, Writing
<1>4. CASE CanWrite("poll")
  <2>1. Commit(row) /\ Become("poll", next)
    BY <1>4 DEF Settle
  <2>2. row \in Store /\ row.books = data.books
    BY LedgerTyped DEF Store
  <2>3. StoreMoves("poll") /\ BooksKept
    BY <1>1, <1>4, <2>1, <2>2, StoreCommitted DEF Inv
  <2> QED BY <1>2, <2>1, <2>3 DEF Ends
<1>5. CASE ~ CanWrite("poll")
  <2>1. UNCHANGED store /\ Become("poll", last)
    BY <1>5 DEF Settle
  <2> QED BY <1>1, <1>3, <2>1, StoreStays DEF Ends, Inv
<1> QED BY <1>4, <1>5

LEMMA CommitOwnMoves ==
  ASSUME Inv, NEW a \in Actor, CommitOwn(a)
  PROVE  StoreMoves(a) /\ BooksKept
<1>1. CASE lock = a
  BY <1>1, StoreCommitted DEF CommitOwn, Inv, CanWrite, StoreTyped
<1>2. CASE lock # a
  BY <1>2, StoreStays DEF CommitOwn, Inv
<1> QED BY <1>1, <1>2

LEMMA RollbackMoves ==
  ASSUME Inv, NEW a \in Actor, Rollback(a)
  PROVE  StoreMoves(a) /\ BooksKept
BY DEF Inv, LockKept, Rollback, StoreMoves, BooksKept, StoreTyped, store

LEMMA RaiseEnds ==
  ASSUME Inv, NEW a \in Actor, Raise(a)
  PROVE  Ends(a)
<1>1. IdleTask \in GoodTask /\ IdleTask.pc \notin Handling \cup Writing
  BY IdleTyped DEF IdleTask, Handling, Writing
<1>2. CASE a = "scan"
  <2>1. Rollback(a) /\ Become(a, IdleTask)
    BY <1>2 DEF Raise
  <2> QED BY <1>1, <2>1, RollbackMoves DEF Ends
<1>3. CASE a = "api"
  <2>1. CommitOwn(a) /\ Become(a, IdleTask)
    BY <1>3 DEF Raise
  <2> QED BY <1>1, <2>1, CommitOwnMoves DEF Ends
<1>4. CASE a = "poll"
  <2>1. AfterError(task[a].client) \in Phase
    BY DEF AfterError, Phase
  <2>2. Settle(AfterError(task[a].client), db)
    BY <1>4 DEF Raise
  <2> QED BY <1>4, <2>1, <2>2, SettleEnds DEF Inv, StoreTyped
<1> QED BY <1>2, <1>3, <1>4 DEF Actor

LEMMA ReturnEnds ==
  ASSUME Inv, NEW a \in Actor, NEW outcome, NEW data \in Store,
         data.books \in {db.books, tx.books}, Return(a, outcome, data)
  PROVE  Ends(a)
<1>1. CASE a = "poll"
  <2>1. PhaseOf(outcome) \in Phase
    BY DEF PhaseOf, Phase
  <2>2. Settle(PhaseOf(outcome), data)
    BY <1>1 DEF Return
  <2> QED BY <1>1, <2>1, <2>2, SettleEnds
<1>2. CASE a # "poll"
  <2>1. IdleTask \in GoodTask /\ IdleTask.pc \notin Handling \cup Writing
    BY IdleTyped DEF IdleTask, Handling, Writing
  <2>2. /\ IF CanWrite(a) THEN Commit(data) ELSE UNCHANGED store
        /\ Become(a, IdleTask)
    BY <1>2 DEF Return
  <2>3. StoreMoves(a) /\ BooksKept
    BY <2>2, StoreCommitted, StoreStays DEF Inv
  <2> QED BY <2>1, <2>2, <2>3 DEF Ends
<1> QED BY <1>1, <1>2

LEMMA ViewBooks ==
  ASSUME NEW a
  PROVE  View(a).books \in {db.books, tx.books}
BY DEF View

LEMMA ConcludeEnds ==
  ASSUME Inv, NEW a \in Actor, NEW outcome \in Outcome, Conclude(a, outcome)
  PROVE  Ends(a)
<1>1. CASE task[a].mode = "run"
  <2>1. task[a] \in GoodTask
    BY DEF Inv, TasksTyped
  <2>2. /\ Finished(task[a], outcome) \in GoodTask
        /\ Finished(task[a], outcome).pc \notin Handling \cup Writing
    BY <2>1, FinishedTyped DEF Handling, Writing
  <2>3. Become(a, Finished(task[a], outcome)) /\ UNCHANGED store
    BY <1>1 DEF Conclude
  <2> QED BY <2>2, <2>3, StoreStays DEF Ends, Inv
<1>2. CASE task[a].mode # "run" /\ CanWrite(a)
  <2> DEFINE data == [View(a) EXCEPT !.problems = @ \ {task[a].folder}]
  <2>1. View(a) \in Store
    BY ViewTyped DEF Inv
  <2>2. View(a).problems \ {task[a].folder} \subseteq Folder
    BY <2>1 DEF Store
  <2>3. data \in Store /\ data.books = View(a).books
    BY <2>1, <2>2, ProblemsTyped DEF Store
  <2>4. Return(a, outcome, data)
    BY <1>2 DEF Conclude
  <2> QED BY <2>3, <2>4, ViewBooks, ReturnEnds
<1>3. CASE task[a].mode # "run" /\ ~ CanWrite(a)
  BY <1>3, RaiseEnds DEF Conclude
<1> QED BY <1>1, <1>2, <1>3

(***************************************************************************)
(* One step of one caller.                                                 *)
(***************************************************************************)
Turn(a) == LoopFree \/ task[a].pc \in Running

\* Only RecordFile leaves the state "probe"; only the API commits there.
Whole(a) == task[a].pc = "probe" /\ a # "api" => db'.books = db.books

\* The coroutine goes on: with the lock if its rows are not complete, and with
\* an identity the library does not know, and no file placed yet, if it is about
\* to import it.
Goes(a) ==
  \E t \in GoodTask :
    /\ Become(a, t)
    /\ t.pc \in Writing => lock' = a
    /\ t.pc \in Handling =>
         /\ UNCHANGED store
         /\ \/ View(a).books[t.book] = 0 /\ t.done = {}
            \/ task[a].pc \in {"place", "undo"} /\ t.book = task[a].book

Move(a) ==
  /\ Turn(a)
  /\ StoreMoves(a)
  /\ task[a].pc # "persist" => BooksKept
  /\ Whole(a)
  /\ Goes(a)

LEMMA EndsMove ==
  ASSUME NEW a \in Actor, Turn(a), Ends(a), Whole(a)
  PROVE  Move(a)
BY DEF Ends, Move, Goes

\* The database is left alone, and the coroutine does not handle a book.
LEMMA QuietMove ==
  ASSUME Inv, NEW a \in Actor, Turn(a), UNCHANGED store,
         NEW t \in GoodTask, Become(a, t), t.pc \notin Handling \cup Writing
  PROVE  Move(a)
<1>1. StoreMoves(a) /\ BooksKept
  BY StoreStays DEF Inv
<1>2. Whole(a)
  BY DEF Whole, store
<1> QED BY <1>1, <1>2 DEF Move, Goes

LEMMA TaskGood ==
  ASSUME Inv, NEW a \in Actor
  PROVE  task[a] \in GoodTask /\ task[a] \in Task
BY DEF Inv, TasksTyped, GoodTask

LEMMA StartRunMoves ==
  ASSUME Inv, NEW a \in Actor, StartRun(a)
  PROVE  Move(a)
<1>1. IdleTask.pc \notin Handling
  BY DEF IdleTask, Handling
<1>2. RunTask(IdleTask) \in GoodTask /\ RunTask(IdleTask).pc = "next"
  BY <1>1, IdleTyped, RunTaskTyped
<1>3. Turn(a) /\ Become(a, RunTask(IdleTask)) /\ UNCHANGED store
  BY DEF StartRun, Turn
<1> QED BY <1>2, <1>3, QuietMove DEF Handling, Writing

LEMMA StartMatchMoves ==
  ASSUME Inv, NEW c \in Folder, NEW b \in Book, StartMatch(c, b)
  PROVE  Move("api")
<1> DEFINE t == SingleTask(IdleTask, c, b)
<1>1. IdleTask.pc \notin Handling
  BY DEF IdleTask, Handling
<1>2. t \in GoodTask /\ t.pc = "search"
  BY <1>1, IdleTyped, SingleTaskTyped
<1>3. Turn("api") /\ Become("api", t) /\ UNCHANGED store /\ "api" \in Actor
  BY DEF StartMatch, Turn, Actor
<1>4. t.pc \notin Handling \cup Writing
  BY <1>2 DEF Handling, Writing
<1> HIDE DEF t
<1> QED BY <1>2, <1>3, <1>4, QuietMove

LEMMA StartTickMoves ==
  ASSUME Inv, StartTick
  PROVE  Move("poll")
<1> DEFINE t == [IdleTask EXCEPT !.pc = "item", !.queue = Reported("sab")]
<1>1. IdleTask \in Task /\ Reported("sab") \subseteq Item
  BY IdleTyped DEF GoodTask, Reported
<1>2. t \in Task
  BY <1>1 DEF Task, Running
<1>3. t.pc = "item" /\ t.done = {}
  BY DEF IdleTask
<1>4. t \in GoodTask /\ t.pc \notin Handling \cup Writing
  BY <1>2, <1>3 DEF GoodTask, Handling, Writing
<1>5. /\ Turn("poll") /\ Become("poll", t) /\ UNCHANGED store
      /\ "poll" \in Actor
  BY DEF StartTick, Turn, Actor
<1> HIDE DEF t
<1> QED BY <1>4, <1>5, QuietMove

LEMMA ListEndsMoves ==
  ASSUME Inv, ListEnds
  PROVE  Move("poll")
<1> DEFINE s == task["poll"]
           t == IF s.client = "sab" THEN [s EXCEPT !.pc = "list"] ELSE IdleTask
<1>1. "poll" \in Actor /\ s \in GoodTask /\ s \in Task /\ s.pc = "item"
  BY TaskGood DEF Actor, ListEnds
<1>2. s.done = {}
  BY <1>1 DEF GoodTask, Handling
<1>3. [s EXCEPT !.pc = "list"] \in Task
  BY <1>1 DEF Task, Waiting
<1>4. [s EXCEPT !.pc = "list"].pc = "list" /\ [s EXCEPT !.pc = "list"].done = {}
  BY <1>1, <1>2 DEF Task
<1>5. /\ [s EXCEPT !.pc = "list"] \in GoodTask
      /\ [s EXCEPT !.pc = "list"].pc \notin Handling \cup Writing
  BY <1>3, <1>4 DEF GoodTask, Handling, Writing
<1>6. IdleTask \in GoodTask /\ IdleTask.pc \notin Handling \cup Writing
  BY IdleTyped DEF IdleTask, Handling, Writing
<1>7. t \in GoodTask /\ t.pc \notin Handling \cup Writing
  BY <1>5, <1>6
<1>8. Turn("poll") /\ Become("poll", t) /\ UNCHANGED store
  BY <1>1 DEF ListEnds, Turn, Running
<1> HIDE DEF t
<1> QED BY <1>1, <1>7, <1>8, QuietMove

LEMMA ListedMoves ==
  ASSUME Inv, NEW ok \in BOOLEAN, Listed(ok)
  PROVE  Move("poll")
<1> DEFINE t == [IdleTask EXCEPT !.pc = "item", !.queue = Reported("qb"),
                                 !.client = "qb"]
<1>1. IdleTask \in Task /\ Reported("qb") \subseteq Item
  BY IdleTyped DEF GoodTask, Reported
<1>2. t \in Task
  BY <1>1 DEF Task, Running
<1>3. t.pc = "item" /\ t.done = {}
  BY DEF IdleTask
<1>4. t \in GoodTask /\ t.pc \notin Handling \cup Writing
  BY <1>2, <1>3 DEF GoodTask, Handling, Writing
<1>5. IdleTask \in GoodTask /\ IdleTask.pc \notin Handling \cup Writing
  BY IdleTyped DEF IdleTask, Handling, Writing
<1>6. Turn("poll") /\ UNCHANGED store /\ "poll" \in Actor
  BY DEF Listed, Turn, Actor
<1>7. Become("poll", t) \/ Become("poll", IdleTask)
  BY DEF Listed
<1> HIDE DEF t
<1> QED BY <1>4, <1>5, <1>6, <1>7, QuietMove

LEMMA PickItemMoves ==
  ASSUME Inv, NEW i \in Item, PickItem(i)
  PROVE  Move("poll")
<1> DEFINE s == task["poll"]
           skip == [s EXCEPT !.queue = @ \ {i}]
           take == [s EXCEPT !.queue = @ \ {i}, !.item = i, !.pc = "take"]
<1>1. "poll" \in Actor /\ s \in GoodTask /\ s \in Task /\ s.pc = "item"
  BY TaskGood DEF Actor, PickItem
<1>2. s.done = {}
  BY <1>1 DEF GoodTask, Handling
<1>3. skip \in Task /\ take \in Task
  BY <1>1 DEF Task, Running
<1>4. /\ skip.pc = "item" /\ skip.done = {}
      /\ take.pc = "take" /\ take.done = {} /\ take.item = i
  BY <1>1, <1>2 DEF Task
<1>5. /\ skip \in GoodTask /\ skip.pc \notin Handling \cup Writing
      /\ take \in GoodTask /\ take.pc \notin Handling \cup Writing
  BY <1>3, <1>4 DEF GoodTask, Handling, Writing
<1>6. Become("poll", skip) \/ Become("poll", take)
  BY DEF PickItem
<1>7. Turn("poll") /\ UNCHANGED store
  BY <1>1 DEF PickItem, Turn, Running
<1> HIDE DEF skip, take
<1> QED BY <1>1, <1>5, <1>6, <1>7, QuietMove

LEMMA PathMissingMoves ==
  ASSUME Inv, PathMissing
  PROVE  Move("poll")
<1> DEFINE phase == IF task["poll"].client = "sab" THEN "skipped" ELSE "retry"
<1>1. Settle(phase, db)
  BY DEF PathMissing
<1>2. phase \in Phase
  BY DEF Phase
<1>3. Ends("poll")
  BY <1>1, <1>2, SettleEnds DEF Inv, StoreTyped
<1>4. Turn("poll") /\ Whole("poll") /\ "poll" \in Actor
  BY DEF PathMissing, Turn, Running, Whole, Actor
<1> QED BY <1>3, <1>4, EndsMove

LEMMA PathOutsideMoves ==
  ASSUME Inv, PathOutside
  PROVE  Move("poll")
<1> DEFINE phase == AfterError(task["poll"].client)
<1>1. Settle(phase, db)
  BY DEF PathOutside
<1>2. phase \in Phase
  BY DEF AfterError, Phase
<1>3. Ends("poll")
  BY <1>1, <1>2, SettleEnds DEF Inv, StoreTyped
<1>4. Turn("poll") /\ Whole("poll") /\ "poll" \in Actor
  BY DEF PathOutside, Turn, Running, Whole, Actor
<1> QED BY <1>3, <1>4, EndsMove

LEMMA TakeByAsinMoves ==
  ASSUME Inv, TakeByAsin
  PROVE  Move("poll")
<1> DEFINE s == task["poll"]
           c == FolderOf[s.item]
           t == SingleTask(s, c, AsinOf[c[1]])
<1>1. "poll" \in Actor /\ s \in GoodTask /\ s.pc = "take"
  BY TaskGood DEF Actor, TakeByAsin
<1>2. s.pc \notin Handling /\ s.item \in Item
  BY <1>1 DEF GoodTask, Handling
<1>3. c \in Folder /\ AsinOf[c[1]] \in Book \cup {NoBook}
  BY <1>2, ItemAssumption, AsinAssumption DEF Folder
<1>4. t \in GoodTask /\ t.pc = "search"
  BY <1>1, <1>2, <1>3, SingleTaskTyped
<1>5. t.pc \notin Handling \cup Writing
  BY <1>4 DEF Handling, Writing
<1>6. Turn("poll") /\ Become("poll", t) /\ UNCHANGED store
  BY <1>1 DEF TakeByAsin, Turn, Running
<1> HIDE DEF t
<1> QED BY <1>1, <1>4, <1>5, <1>6, QuietMove

LEMMA TakeByRunMoves ==
  ASSUME Inv, TakeByRun
  PROVE  Move("poll")
<1> DEFINE s == task["poll"]
           t == RunTask(s)
<1>1. "poll" \in Actor /\ s \in GoodTask /\ s.pc = "take"
  BY TaskGood DEF Actor, TakeByRun
<1>2. t \in GoodTask /\ t.pc = "next"
  BY <1>1, RunTaskTyped DEF Handling
<1>3. t.pc \notin Handling \cup Writing
  BY <1>2 DEF Handling, Writing
<1>4. Turn("poll") /\ Become("poll", t) /\ UNCHANGED store
  BY <1>1 DEF TakeByRun, Turn, Running
<1> HIDE DEF t
<1> QED BY <1>1, <1>2, <1>3, <1>4, QuietMove

LEMMA NextCandidateMoves ==
  ASSUME Inv, NEW a \in Actor, NextCandidate(a)
  PROVE  Move(a)
<1> DEFINE s == task[a]
<1>1. s \in GoodTask /\ s \in Task /\ s.pc = "next"
  BY TaskGood DEF NextCandidate
<1>2. s.done = {}
  BY <1>1 DEF GoodTask, Handling
<1>3. PICK c \in s.todo :
        Become(a, [s EXCEPT !.pc = "search", !.todo = @ \ {c},
                            !.folder = c[1], !.listed = c[2]])
  BY DEF NextCandidate
<1> DEFINE t == [s EXCEPT !.pc = "search", !.todo = @ \ {c},
                          !.folder = c[1], !.listed = c[2]]
<1>4. c \in Folder \X SUBSET File
  BY <1>1 DEF Task
<1>5. c[1] \in Folder /\ c[2] \in SUBSET File
  BY <1>4
<1>6. "search" \in Waiting
  BY DEF Waiting
<1>7. t \in Task
  BY <1>1, <1>5, <1>6 DEF Task
<1>8. t.pc = "search" /\ t.done = {} /\ t.folder = c[1]
  BY <1>1, <1>2 DEF Task
<1>9. t \in GoodTask /\ t.pc \notin Handling \cup Writing
  BY <1>5, <1>7, <1>8 DEF GoodTask, Handling, Writing
<1>10. Turn(a) /\ Become(a, t) /\ UNCHANGED store
  BY <1>1, <1>3 DEF NextCandidate, Turn, Running
<1> HIDE DEF t
<1> QED BY <1>9, <1>10, QuietMove

LEMMA RunEndsMoves ==
  ASSUME Inv, NEW a \in Actor, RunEnds(a)
  PROVE  Move(a)
<1> DEFINE s == task[a]
           t == [s EXCEPT !.pc = "rescan"]
           data == [View(a) EXCEPT !.problems =
                      (@ \ Seen(a)) \cup Unmatched(a)]
<1>1. s \in GoodTask /\ s \in Task /\ s.pc = "next"
  BY TaskGood DEF RunEnds
<1>2. s.done = {}
  BY <1>1 DEF GoodTask, Handling
<1>3. t \in Task
  BY <1>1 DEF Task, Waiting
<1>4. t.pc = "rescan" /\ t.done = {}
  BY <1>1, <1>2 DEF Task
<1>5. t \in GoodTask /\ t.pc \notin Handling \cup Writing
  BY <1>3, <1>4 DEF GoodTask, Handling, Writing
<1>6. Turn(a) /\ Whole(a)
  BY <1>1 DEF Turn, Running, Whole
<1>7. CASE Seen(a) = {}
  <2>1. Become(a, t) /\ UNCHANGED store
    BY <1>7 DEF RunEnds
  <2> HIDE DEF t
  <2> QED BY <1>5, <1>6, <2>1, QuietMove
<1>8. CASE Seen(a) # {} /\ CanWrite(a)
  <2>1. Become(a, t) /\ Write(a, data)
    BY <1>8 DEF RunEnds
  <2>2. View(a) \in Store /\ Unmatched(a) \subseteq Folder
    BY ViewTyped DEF Inv, Unmatched
  <2>3. (View(a).problems \ Seen(a)) \cup Unmatched(a) \subseteq Folder
    BY <2>2 DEF Store
  <2>4. data \in Store /\ data.books = View(a).books
    BY <2>2, <2>3, ProblemsTyped DEF Store
  <2>5. StoreMoves(a) /\ BooksKept
    BY <1>8, <2>1, <2>4, StoreWritten DEF Inv
  <2> HIDE DEF t
  <2> QED BY <1>5, <1>6, <2>1, <2>5, EndsMove DEF Ends
<1>9. CASE Seen(a) # {} /\ ~ CanWrite(a)
  BY <1>6, <1>9, RaiseEnds, EndsMove DEF RunEnds
<1> QED BY <1>7, <1>8, <1>9

LEMMA RescannedMoves ==
  ASSUME Inv, NEW a \in Actor, Rescanned(a)
  PROVE  Move(a)
<1> DEFINE outcome == IF a = "poll" THEN task[a].out[FolderOf[task[a].item]]
                                    ELSE "none"
<1>1. Return(a, outcome, View(a))
  BY DEF Rescanned
<1>2. Turn(a) /\ Whole(a)
  BY DEF Rescanned, Turn, Whole
<1>3. View(a) \in Store
  BY ViewTyped DEF Inv
<1> QED BY <1>1, <1>2, <1>3, ViewBooks, ReturnEnds, EndsMove

LEMMA NoMatchMoves ==
  ASSUME Inv, NEW a \in Actor, NoMatch(a)
  PROVE  Move(a)
<1>1. "unmatched" \in Outcome /\ Turn(a) /\ Whole(a)
  BY DEF Outcome, NoMatch, Turn, Whole
<1>2. Conclude(a, "unmatched")
  BY DEF NoMatch
<1> QED BY <1>1, <1>2, ConcludeEnds, EndsMove

LEMMA AsinUnknownMoves ==
  ASSUME Inv, NEW a \in Actor, AsinUnknown(a)
  PROVE  Move(a)
<1>1. Turn(a) /\ Whole(a) /\ task[a] \in GoodTask /\ task[a].pc = "search"
  BY TaskGood DEF AsinUnknown, Turn, Whole
<1>2. CASE a = "poll" /\ task[a].folder[2] = "outside"
  <2>1. Settle("failed", View(a)) /\ "failed" \in Phase
    BY <1>2 DEF AsinUnknown, Phase
  <2>2. View(a) \in Store
    BY ViewTyped DEF Inv
  <2>3. Ends(a)
    BY <1>2, <2>1, <2>2, ViewBooks, SettleEnds
  <2> QED BY <1>1, <2>3, EndsMove
<1>3. CASE a = "poll" /\ task[a].folder[2] # "outside"
  <2>1. Become(a, RunTask(task[a])) /\ UNCHANGED store
    BY <1>3 DEF AsinUnknown
  <2>2. RunTask(task[a]) \in GoodTask /\ RunTask(task[a]).pc = "next"
    BY <1>1, RunTaskTyped DEF Handling
  <2>3. RunTask(task[a]).pc \notin Handling \cup Writing
    BY <2>2 DEF Handling, Writing
  <2> QED BY <1>1, <2>1, <2>2, <2>3, QuietMove
<1>4. CASE a # "poll"
  BY <1>1, <1>4, RaiseEnds, EndsMove DEF AsinUnknown
<1> QED BY <1>2, <1>3, <1>4

LEMMA LookupRaisesMoves ==
  ASSUME Inv, NEW a \in Actor, LookupRaises(a)
  PROVE  Move(a)
<1>1. Turn(a) /\ Whole(a) /\ Raise(a)
  BY DEF LookupRaises, Turn, Whole
<1> QED BY <1>1, RaiseEnds, EndsMove

LEMMA DuplicateMoves ==
  ASSUME Inv, NEW a \in Actor, NEW b, Duplicate(a, b)
  PROVE  Move(a)
<1>1. "duplicate" \in Outcome /\ Turn(a) /\ Whole(a)
  BY DEF Outcome, Duplicate, Turn, Whole
<1>2. Conclude(a, "duplicate")
  BY DEF Duplicate
<1> QED BY <1>1, <1>2, ConcludeEnds, EndsMove

LEMMA PlacementFailsMoves ==
  ASSUME Inv, NEW a \in Actor, PlacementFails(a)
  PROVE  Move(a)
<1>1. "error" \in Outcome /\ Turn(a) /\ Whole(a)
  BY DEF Outcome, PlacementFails, Turn, Whole, Running
<1>2. Conclude(a, "error")
  BY DEF PlacementFails
<1> QED BY <1>1, <1>2, ConcludeEnds, EndsMove

LEMMA DispatchedMoves ==
  ASSUME Inv, NEW a \in Actor, Dispatched(a)
  PROVE  Move(a)
<1>1. /\ "matched" \in Outcome /\ Turn(a) /\ Whole(a)
      /\ task[a] \in GoodTask
  BY TaskGood DEF Outcome, Dispatched, Turn, Whole
<1>2. CASE task[a].mode = "run"
  <2>1. Become(a, Finished(task[a], "matched")) /\ UNCHANGED store
    BY <1>2 DEF Dispatched
  <2>2. /\ Finished(task[a], "matched") \in GoodTask
        /\ Finished(task[a], "matched").pc \notin Handling \cup Writing
    BY <1>1, FinishedTyped DEF Handling, Writing
  <2> QED BY <1>1, <2>1, <2>2, QuietMove
<1>3. CASE task[a].mode # "run"
  <2>1. Return(a, "matched", View(a))
    BY <1>3 DEF Dispatched
  <2>2. View(a) \in Store
    BY ViewTyped DEF Inv
  <2> QED BY <1>1, <2>1, <2>2, ViewBooks, ReturnEnds, EndsMove
<1> QED BY <1>2, <1>3

\* The database is left alone, and a book is handled that is not in it.
LEMMA HandlingMove ==
  ASSUME Inv, NEW a \in Actor, Turn(a), UNCHANGED store, Whole(a),
         NEW t \in GoodTask, Become(a, t), t.pc \in Handling,
         \/ View(a).books[t.book] = 0 /\ t.done = {}
         \/ task[a].pc \in {"place", "undo"} /\ t.book = task[a].book
  PROVE  Move(a)
<1>1. StoreMoves(a) /\ BooksKept
  BY StoreStays DEF Inv
<1>2. t.pc \notin Writing
  BY DEF Handling, Writing
<1> QED BY <1>1, <1>2 DEF Move, Goes

\* A placement or its undoing goes on.
LEMMA PlacingMove ==
  ASSUME Inv, NEW a \in Actor, task[a].pc \in {"place", "undo"},
         NEW pc \in Handling,
         NEW left \in SUBSET File, NEW done \in SUBSET File,
         UNCHANGED store,
         Become(a, [task[a] EXCEPT !.pc = pc, !.left = left, !.done = done])
  PROVE  Move(a)
<1> DEFINE s == task[a]
           t == [s EXCEPT !.pc = pc, !.left = left, !.done = done]
<1>1. s \in GoodTask /\ s \in Task /\ pc \in Running /\ s.pc \in Running
  BY TaskGood DEF Running, Handling
<1>2. s.folder \in Folder /\ s.book \in Book
  BY <1>1 DEF GoodTask, Handling
<1>3. t \in Task
  BY <1>1 DEF Task
<1>4. t.pc = pc /\ t.folder = s.folder /\ t.book = s.book
  BY <1>1 DEF Task
<1>5. t \in GoodTask
  BY <1>2, <1>3, <1>4 DEF GoodTask, Handling, Writing
<1>6. Turn(a) /\ Whole(a)
  BY <1>1 DEF Turn, Whole
<1> HIDE DEF t
<1> QED BY <1>4, <1>5, <1>6, HandlingMove DEF t

LEMMA MatchedMoves ==
  ASSUME Inv, NEW a \in Actor, NEW b \in Book, NEW strategy \in Strategies,
         Matched(a, b, strategy)
  PROVE  Move(a)
<1> DEFINE s == task[a]
           placing == s.folder[2] = "away"
           left == IF placing THEN s.listed ELSE {}
           how == IF placing THEN strategy ELSE s.strategy
           pc == IF placing THEN "place" ELSE "persist"
           t == [s EXCEPT !.book = b, !.strategy = how, !.left = left,
                          !.pc = pc]
<1>1. s \in GoodTask /\ s \in Task /\ s.pc = "search"
  BY TaskGood DEF Matched
<1>2. s.folder \in Folder /\ s.done = {}
  BY <1>1 DEF GoodTask, Handling
<1>3. how \in Strategy /\ left \in SUBSET File
  BY <1>1, StrategiesAssumption DEF Task
<1>4. pc \in Handling /\ pc \in Running
  BY DEF Handling, Running
<1>5. Become(a, t)
  BY DEF Matched
<1> HIDE DEF how, left, pc
<1>6. t \in Task
  BY <1>1, <1>3, <1>4 DEF Task
<1>7. t.pc = pc /\ t.folder = s.folder /\ t.book = b /\ t.done = {}
  BY <1>1, <1>2 DEF Task
<1>8. t \in GoodTask
  BY <1>2, <1>4, <1>6, <1>7 DEF GoodTask, Handling, Writing
<1>9. Turn(a) /\ Whole(a) /\ UNCHANGED store /\ ~ Known(a, b)
  BY <1>1 DEF Matched, Turn, Whole
<1>10. View(a).books[b] = 0
  <2>1. View(a).books \in [Book -> Nat]
    BY ViewTyped DEF Inv, Store
  <2> QED BY <1>9, <2>1 DEF Known
<1> HIDE DEF t
<1> QED BY <1>4, <1>5, <1>7, <1>8, <1>9, <1>10, HandlingMove

LEMMA PlaceBlockedMoves ==
  ASSUME Inv, NEW a \in Actor, PlaceBlocked(a)
  PROVE  Move(a)
<1> DEFINE s == task[a]
<1>1. s \in Task
  BY TaskGood
<1>2. [s EXCEPT !.pc = "undo"]
        = [s EXCEPT !.pc = "undo", !.left = s.left, !.done = s.done]
  BY <1>1 DEF Task
<1>3. s.left \in SUBSET File /\ s.done \in SUBSET File /\ "undo" \in Handling
  BY <1>1 DEF Task, Handling
<1> QED BY <1>2, <1>3, PlacingMove DEF PlaceBlocked

LEMMA PlaceFileMoves ==
  ASSUME Inv, NEW a \in Actor, PlaceFile(a)
  PROVE  Move(a)
<1> DEFINE s == task[a]
<1>1. s \in Task /\ s.pc = "place" /\ UNCHANGED store
  BY TaskGood DEF PlaceFile
<1>2. PICK f \in File :
        Become(a, [s EXCEPT !.left = @ \ {f}, !.done = @ \cup {f},
                            !.pc = IF s.left = {f} THEN "persist" ELSE @])
  BY DEF PlaceFile
<1> DEFINE pc == IF s.left = {f} THEN "persist" ELSE "place"
<1>3. [s EXCEPT !.left = @ \ {f}, !.done = @ \cup {f},
                !.pc = IF s.left = {f} THEN "persist" ELSE @]
        = [s EXCEPT !.pc = pc, !.left = s.left \ {f}, !.done = s.done \cup {f}]
  BY <1>1 DEF Task
<1>4. pc \in Handling
  BY DEF Handling
<1>5. s.left \ {f} \in SUBSET File /\ s.done \cup {f} \in SUBSET File
  BY <1>1 DEF Task
<1> HIDE DEF pc
<1>6. Become(a, [s EXCEPT !.pc = pc, !.left = s.left \ {f},
                          !.done = s.done \cup {f}])
  BY <1>2, <1>3
<1> QED BY <1>1, <1>4, <1>5, <1>6, PlacingMove

LEMMA PlaceBreaksMoves ==
  ASSUME Inv, NEW a \in Actor, NEW torn, PlaceBreaks(a, torn)
  PROVE  Move(a)
<1> DEFINE s == task[a]
<1>1. s \in Task
  BY TaskGood
<1>2. [s EXCEPT !.pc = "undo"]
        = [s EXCEPT !.pc = "undo", !.left = s.left, !.done = s.done]
  BY <1>1 DEF Task
<1>3. s.left \in SUBSET File /\ s.done \in SUBSET File /\ "undo" \in Handling
  BY <1>1 DEF Task, Handling
<1> QED BY <1>2, <1>3, PlacingMove DEF PlaceBreaks

LEMMA UndoMoves ==
  ASSUME Inv, NEW a \in Actor, UndoFile(a) \/ UndoBreaks(a)
  PROVE  Move(a)
<1> DEFINE s == task[a]
<1>1. s \in Task /\ s.pc = "undo" /\ UNCHANGED store
  BY TaskGood DEF UndoFile, UndoBreaks
<1>2. PICK f \in File : Become(a, [s EXCEPT !.done = @ \ {f}])
  BY DEF UndoFile, UndoBreaks
<1>3. [s EXCEPT !.done = @ \ {f}]
        = [s EXCEPT !.pc = "undo", !.left = s.left, !.done = s.done \ {f}]
  BY <1>1 DEF Task
<1>4. /\ s.left \in SUBSET File /\ s.done \ {f} \in SUBSET File
      /\ "undo" \in Handling
  BY <1>1 DEF Task, Handling
<1> QED BY <1>1, <1>2, <1>3, <1>4, PlacingMove

LEMMA PersistBookMoves ==
  ASSUME Inv, NEW a \in Actor, PersistBook(a)
  PROVE  Move(a)
<1> DEFINE s == task[a]
           t == [s EXCEPT !.pc = "probe", !.done = {}, !.left = s.listed]
           data == [View(a) EXCEPT !.books[s.book] = @ + 1]
<1>1. s \in GoodTask /\ s \in Task /\ s.pc = "persist"
  BY TaskGood DEF PersistBook
<1>2. Turn(a) /\ Whole(a)
  BY <1>1 DEF Turn, Running, Whole
<1>3. CASE CanWrite(a)
  <2>1. Write(a, data) /\ Become(a, t)
    BY <1>3 DEF PersistBook
  <2>2. View(a) \in Store
    BY ViewTyped DEF Inv
  <2>3. data \in Store
    BY <2>2, BooksTyped
  <2>4. StoreMoves(a)
    BY <1>3, <2>1, <2>3, StoreWritten DEF Inv
  <2>5. s.folder \in Folder /\ s.book \in Book
    BY <1>1 DEF GoodTask, Handling
  <2>6. t \in Task
    BY <1>1 DEF Task, Waiting
  <2>7. /\ t.pc = "probe" /\ t.done = {}
        /\ t.folder = s.folder /\ t.book = s.book
    BY <1>1 DEF Task
  <2>8. t \in GoodTask
    BY <2>5, <2>6, <2>7 DEF GoodTask
  <2>9. lock' = a /\ t.pc \notin Handling
    BY <2>1, <2>7 DEF Write, Handling
  <2> HIDE DEF t
  <2> QED BY <1>1, <1>2, <2>1, <2>4, <2>8, <2>9 DEF Move, Goes
<1>4. CASE ~ CanWrite(a)
  BY <1>2, <1>4, RaiseEnds, EndsMove DEF PersistBook
<1> QED BY <1>3, <1>4

LEMMA RaiseKeepsWhole ==
  ASSUME Inv, NEW a \in Actor, Raise(a)
  PROVE  Whole(a)
<1>1. CASE a = "scan"
  BY <1>1 DEF Raise, Rollback, Whole
<1>2. CASE a = "poll"
  <2>1. Settle(AfterError(task[a].client), db)
    BY <1>2 DEF Raise
  <2>2. db \in Store
    BY DEF Inv, StoreTyped
  <2>3. db' = db \/ db' = [db EXCEPT !.ledger[task["poll"].item] =
                                       AfterError(task[a].client)]
    BY <2>1 DEF Settle, Commit, store
  <2> QED BY <2>2, <2>3 DEF Whole, Store
<1> QED BY <1>1, <1>2 DEF Whole, Actor

LEMMA RecordFileMoves ==
  ASSUME Inv, NEW a \in Actor, RecordFile(a)
  PROVE  Move(a)
<1> DEFINE s == task[a]
<1>1. s \in GoodTask /\ s \in Task /\ s.pc = "probe" /\ Turn(a)
  BY TaskGood DEF RecordFile, Turn
<1>2. PICK f \in File :
        IF tx.catalog[RowOf(s.folder, f)] # NoBook
          THEN Raise(a)
          ELSE /\ Write(a, [tx EXCEPT !.catalog[RowOf(s.folder, f)] = s.book])
               /\ Become(a, [s EXCEPT !.left = @ \ {f}, !.pc =
                               IF s.left = {f} THEN "offer" ELSE @])
  BY DEF RecordFile
<1>3. CASE Raise(a)
  BY <1>1, <1>3, RaiseEnds, RaiseKeepsWhole, EndsMove
<1>4. CASE ~ Raise(a)
  <2> DEFINE pc == IF s.left = {f} THEN "offer" ELSE "probe"
             t == [s EXCEPT !.left = @ \ {f}, !.pc =
                     IF s.left = {f} THEN "offer" ELSE @]
             data == [tx EXCEPT !.catalog[RowOf(s.folder, f)] = s.book]
  <2>1. Write(a, data) /\ Become(a, t)
    BY <1>2, <1>4
  <2>2. lock = a /\ CanWrite(a) /\ tx \in Store
    BY <1>1 DEF Inv, LockKept, Writing, CanWrite, StoreTyped
  <2>3. s.folder \in Folder /\ s.book \in Book /\ s.done = {}
    BY <1>1 DEF GoodTask, Writing, Handling
  <2>4. data \in Store /\ data.books = View(a).books
    BY <2>2, <2>3, CatalogTyped DEF Store, View
  <2>5. StoreMoves(a) /\ BooksKept
    BY <2>1, <2>2, <2>4, StoreWritten DEF Inv
  <2>6. t \in Task
    BY <1>1 DEF Task, Running
  <2>7. /\ t.pc \in Writing /\ t.done = s.done
        /\ t.folder = s.folder /\ t.book = s.book
    BY <1>1 DEF Task, Writing
  <2>8. t \in GoodTask /\ t.pc \notin Handling
    BY <2>3, <2>6, <2>7 DEF GoodTask, Handling, Writing
  <2>9. lock' = a /\ Whole(a)
    BY <2>1 DEF Write, Whole
  <2> HIDE DEF t
  <2> QED BY <1>1, <2>1, <2>5, <2>8, <2>9 DEF Move, Goes
<1> QED BY <1>3, <1>4

LEMMA OfferMoves ==
  ASSUME Inv, NEW a \in Actor, NEW enqueued \in BOOLEAN, Offer(a, enqueued)
  PROVE  Move(a)
<1> DEFINE s == task[a]
           t == [s EXCEPT !.pc = "event"]
           noted == [tx EXCEPT !.problems = @ \ {s.folder}]
<1>1. s \in GoodTask /\ s \in Task /\ s.pc = "offer"
  BY TaskGood DEF Offer
<1>2. Turn(a) /\ Whole(a) /\ lock = a
  BY <1>1 DEF Turn, Running, Whole, Inv, LockKept, Writing
<1>3. s.folder \in Folder /\ s.book \in Book /\ s.done = {}
  BY <1>1 DEF GoodTask, Writing, Handling
<1>4. t \in Task
  BY <1>1 DEF Task, Waiting
<1>5. /\ t.pc = "event" /\ t.done = s.done
      /\ t.folder = s.folder /\ t.book = s.book
  BY <1>1 DEF Task
<1>6. t \in GoodTask /\ t.pc \notin Handling \cup Writing
  BY <1>3, <1>4, <1>5 DEF GoodTask, Handling, Writing
<1>7. tx \in Store /\ db \in Store
  BY DEF Inv, StoreTyped
<1>8. noted \in Store /\ noted.books = tx.books
  <2>1. tx.problems \ {s.folder} \subseteq Folder
    BY <1>7 DEF Store
  <2> QED BY <1>7, <2>1, ProblemsTyped DEF Store
<1>9. /\ db' = IF enqueued THEN tx ELSE db
      /\ tx' = IF s.mode = "single" THEN noted ELSE tx
      /\ lock' = IF enqueued /\ s.mode = "run" THEN Nobody ELSE a
      /\ Become(a, t)
  BY DEF Offer
<1> HIDE DEF noted, t
<1>10. BooksKept
  BY <1>8, <1>9 DEF BooksKept
<1>11. StoreTyped'
  BY <1>7, <1>8, <1>9 DEF StoreTyped
<1>12. lock' = Nobody => tx' = db'
  BY <1>9 DEF Actor, Nobody
<1>13. StoreMoves(a)
  BY <1>2, <1>9, <1>11, <1>12 DEF StoreMoves
<1> QED BY <1>2, <1>6, <1>9, <1>10, <1>13, EndsMove DEF Ends

(***************************************************************************)
(* Every step is a move of one caller, or a crash.                         *)
(***************************************************************************)
LEMMA StepMoves ==
  ASSUME Inv, NEW a \in Actor, Step(a)
  PROVE  Move(a)
<1>1. ASSUME NextCandidate(a) \/ RunEnds(a) \/ Rescanned(a) PROVE Move(a)
  BY <1>1, NextCandidateMoves, RunEndsMoves, RescannedMoves
<1>2. ASSUME NoMatch(a) \/ AsinUnknown(a) \/ LookupRaises(a) PROVE Move(a)
  BY <1>2, NoMatchMoves, AsinUnknownMoves, LookupRaisesMoves
<1>3. ASSUME NEW b \in Book, Duplicate(a, b) PROVE Move(a)
  BY <1>3, DuplicateMoves
<1>4. ASSUME NEW b \in Book, NEW s \in Strategies, Matched(a, b, s)
      PROVE  Move(a)
  BY <1>4, MatchedMoves
<1>5. ASSUME PlaceBlocked(a) \/ PlaceFile(a) \/ UndoFile(a) \/ PlacementFails(a)
      PROVE  Move(a)
  BY <1>5, PlaceBlockedMoves, PlaceFileMoves, UndoMoves, PlacementFailsMoves
<1>6. ASSUME PersistBook(a) \/ RecordFile(a) \/ Dispatched(a) PROVE Move(a)
  BY <1>6, PersistBookMoves, RecordFileMoves, DispatchedMoves
<1>7. ASSUME NEW enqueued \in BOOLEAN, Offer(a, enqueued) PROVE Move(a)
  BY <1>7, OfferMoves
<1> QED BY <1>1, <1>2, <1>3, <1>4, <1>5, <1>6, <1>7 DEF Step

LEMMA PollMoves ==
  ASSUME Inv, Poll
  PROVE  Move("poll")
BY ListEndsMoves, ListedMoves, PickItemMoves, PathOutsideMoves,
   TakeByAsinMoves, TakeByRunMoves DEF Poll

LEMMA NextMoves ==
  ASSUME Inv, Next
  PROVE  Crash \/ \E a \in Actor : Move(a)
<1>1. ASSUME NEW a \in Actor, StartRun(a) \/ Step(a) \/ Trouble(a)
      PROVE  Move(a)
  BY <1>1, StartRunMoves, StepMoves, PlaceBreaksMoves, UndoMoves DEF Trouble
<1>2. ASSUME NEW c \in Folder, NEW b \in Book, StartMatch(c, b)
      PROVE  Move("api")
  BY <1>2, StartMatchMoves
<1>3. ASSUME StartTick \/ Poll \/ PathMissing PROVE Move("poll")
  BY <1>3, StartTickMoves, PollMoves, PathMissingMoves
<1> QED BY <1>1, <1>2, <1>3 DEF Next, Actor

\* A move keeps the invariant: only the holder of the lock can have rows that
\* are not complete, and only one coroutine runs.
LEMMA MoveKeepsInv ==
  ASSUME Inv, NEW a \in Actor, Move(a)
  PROVE  Inv'
<1>1. PICK t \in GoodTask : /\ Become(a, t)
                            /\ t.pc \in Writing => lock' = a
  BY DEF Move, Goes
<1>2. task' = [task EXCEPT ![a] = t] /\ task \in [Actor -> GoodTask]
  BY <1>1 DEF Become, Inv, TasksTyped
<1>3. TasksTyped'
  BY <1>2 DEF TasksTyped
<1>4. StoreTyped'
  BY DEF Move, StoreMoves
<1>5. OneRunning'
  <2> SUFFICES ASSUME NEW b \in Actor, NEW c \in Actor,
                      task'[b].pc \in Running, task'[c].pc \in Running
               PROVE  b = c
    BY DEF OneRunning
  <2>1. CASE LoopFree
    BY <1>2, <2>1 DEF LoopFree
  <2>2. CASE task[a].pc \in Running
    BY <1>2, <2>2 DEF Inv, OneRunning
  <2> QED BY <2>1, <2>2 DEF Move, Turn
<1>6. LockKept'
  <2>1. lock' = Nobody => tx' = db'
    BY DEF Move, StoreMoves
  <2>2. ASSUME NEW b \in Actor, task'[b].pc \in Writing
        PROVE  lock' = b
    <3>1. CASE b = a
      BY <1>1, <1>2, <2>2, <3>1
    <3>2. CASE b # a
      <4>1. lock = b
        BY <1>2, <2>2, <3>2 DEF Inv, LockKept
      <4>2. b # Nobody
        BY DEF Actor, Nobody
      <4> QED BY <3>2, <4>1, <4>2 DEF Move, StoreMoves, store
    <3> QED BY <3>1, <3>2
  <2> QED BY <2>1, <2>2 DEF LockKept
<1> QED BY <1>3, <1>4, <1>5, <1>6 DEF Inv

LEMMA CrashKeepsInv ==
  ASSUME Inv, Crash
  PROVE  Inv'
<1>1. task' = [a \in Actor |-> IdleTask] /\ Rollback(lock)
  BY DEF Crash
<1>2. TasksTyped'
  BY <1>1, IdleTyped DEF TasksTyped
<1>3. lock' = Nobody /\ tx' = db /\ db' = db
  BY <1>1 DEF Rollback, Nobody
<1>4. StoreTyped'
  BY <1>3 DEF Inv, StoreTyped
<1>5. IdleTask.pc = "idle"
  BY DEF IdleTask
<1>6. OneRunning' /\ LockKept'
  BY <1>1, <1>3, <1>5 DEF OneRunning, LockKept, Running, Writing
<1> QED BY <1>2, <1>4, <1>6 DEF Inv

\* What is proved of every state: types, one coroutine between two awaits, and
\* the write lock with the caller whose rows are incomplete.
LEMMA InvAlways == Spec => []Inv
<1>1. Init => Inv
  <2> SUFFICES ASSUME Init PROVE Inv
    OBVIOUS
  <2>1. IdleTask.pc = "idle"
    BY DEF IdleTask
  <2>2. TasksTyped /\ OneRunning /\ LockKept
    BY <2>1, IdleTyped
    DEF Init, TasksTyped, OneRunning, LockKept, Running, Writing
  <2>3. [b \in Book |-> 0] \in [Book -> Nat]
    OBVIOUS
  <2>4. StoreTyped
    BY <2>3 DEF Init, StoreTyped, Store, Phase
  <2> QED BY <2>2, <2>4 DEF Inv
<1>2. Inv /\ [Next]_vars => Inv'
  <2>1. ASSUME Inv, Next PROVE Inv'
    BY <2>1, NextMoves, MoveKeepsInv, CrashKeepsInv
  <2>2. ASSUME Inv, UNCHANGED vars PROVE Inv'
    BY <2>2 DEF Inv, vars, store, TasksTyped, StoreTyped, OneRunning, LockKept
  <2> QED BY <2>1, <2>2
<1> QED BY <1>1, <1>2, PTL DEF Spec

(***************************************************************************)
(* Types.                                                                  *)
(***************************************************************************)
OnDisk(a) ==
  PlaceFile(a) \/ UndoFile(a) \/ \E torn \in BOOLEAN : PlaceBreaks(a, torn)

\* Only the placement of files and its undoing touch the disk.
LEMMA DiskStays ==
  ASSUME Next
  PROVE  UNCHANGED disk \/ \E a \in Actor : OnDisk(a)
<1>1. ASSUME NEW a \in Actor, Trouble(a)
      PROVE  UNCHANGED disk \/ OnDisk(a)
  BY <1>1 DEF Trouble, OnDisk, UndoBreaks
<1>2. ASSUME NEW a \in Actor, Step(a)
      PROVE  UNCHANGED disk \/ OnDisk(a)
  BY <1>2 DEF Step, NextCandidate, RunEnds, Rescanned, NoMatch, AsinUnknown,
     LookupRaises, Duplicate, Matched, PlaceBlocked, PlacementFails,
     PersistBook, RecordFile, Dispatched, Offer, OnDisk
<1>3. (StartTick \/ Poll \/ PathMissing \/ Crash) => UNCHANGED disk
  BY DEF StartTick, Poll, PathMissing, Crash, ListEnds, Listed, PickItem,
     PathOutside, TakeByAsin, TakeByRun
<1>4. (\E a \in Actor : StartRun(a)) => UNCHANGED disk
  BY DEF StartRun
<1>5. (\E c \in Folder, b \in Book : StartMatch(c, b)) => UNCHANGED disk
  BY DEF StartMatch
<1> QED BY <1>1, <1>2, <1>3, <1>4, <1>5 DEF Next

LEMMA FaultsBounded ==
  ASSUME Next, faults \in 0 .. MaxFaults
  PROVE  faults' \in 0 .. MaxFaults
<1>1. Fault => faults' \in 0 .. MaxFaults
  BY FaultsAssumption DEF Fault
<1>2. ASSUME NEW a \in Actor, Trouble(a) PROVE Fault
  BY <1>2 DEF Trouble, PlaceBreaks, UndoBreaks
<1>3. ASSUME NEW a \in Actor, Step(a) PROVE UNCHANGED faults
  BY <1>3 DEF Step, NextCandidate, RunEnds, Rescanned, NoMatch, AsinUnknown,
     LookupRaises, Duplicate, Matched, PlaceBlocked, PlacementFails,
     PersistBook, RecordFile, Dispatched, Offer, PlaceFile, UndoFile
<1>4. (StartTick \/ Poll) => UNCHANGED faults
  BY DEF StartTick, Poll, ListEnds, Listed, PickItem, PathOutside, TakeByAsin,
     TakeByRun
<1>5. (PathMissing \/ Crash) => Fault
  BY DEF PathMissing, Crash
<1>6. (\E a \in Actor : StartRun(a)) => UNCHANGED faults
  BY DEF StartRun
<1>7. (\E c \in Folder, b \in Book : StartMatch(c, b)) => UNCHANGED faults
  BY DEF StartMatch
<1> QED BY <1>1, <1>2, <1>3, <1>4, <1>5, <1>6, <1>7 DEF Next

LEMMA PlacedTyped ==
  ASSUME disk \in [Path -> Content], NEW n \in Name, NEW f \in File,
         NEW strategy
  PROVE  /\ Transferred(n, f, strategy) \in [Path -> Content]
         /\ Returned(n, f, strategy) \in [Path -> Content]
         /\ [disk EXCEPT ![<<n, "home", f>>] = "torn"] \in [Path -> Content]
<1>1. <<n, "home", f>> \in Path /\ <<n, "away", f>> \in Path
  BY DEF Path, Place
<1>2. "absent" \in Content /\ "torn" \in Content
  BY DEF Content
<1> QED BY <1>1, <1>2 DEF Transferred, Returned

LEMMA DiskMoves ==
  ASSUME Inv, DiskTyped, Next
  PROVE  DiskTyped'
<1>1. ASSUME NEW a \in Actor, OnDisk(a)
      PROVE  disk' \in [Path -> Content]
  <2> DEFINE n == task[a].folder[1]
  <2>1. task[a].pc \in {"place", "undo"} /\ task[a] \in GoodTask
    BY <1>1, TaskGood DEF OnDisk, PlaceFile, UndoFile, PlaceBreaks
  <2>2. n \in Name
    BY <2>1 DEF GoodTask, Handling, Folder
  <2>3. \E f \in File, strategy \in Strategy :
          disk' \in {disk, Transferred(n, f, strategy),
                     Returned(n, f, strategy),
                     [disk EXCEPT ![<<n, "home", f>>] = "torn"]}
    <3>1. task[a].strategy \in Strategy
      BY TaskGood DEF Task
    <3> QED BY <1>1, <3>1 DEF OnDisk, PlaceFile, UndoFile, PlaceBreaks
  <2> QED BY <2>2, <2>3, PlacedTyped DEF DiskTyped
<1> QED BY <1>1, DiskStays, FaultsBounded DEF DiskTyped

\* Every variable keeps its type, in every state of the pipeline: what the
\* callers, the file placement and the database hold is what the code expects.
THEOREM TypeCorrect == Spec => []TypeOK
<1>1. Init => DiskTyped
  <2>1. \A p \in Path : p[2] \in Place
    BY DEF Path
  <2> QED BY <2>1, FaultsAssumption DEF Init, DiskTyped, Content
<1>2. Inv /\ DiskTyped /\ [Next]_vars => DiskTyped'
  <2>1. ASSUME Inv, DiskTyped, Next PROVE DiskTyped'
    BY <2>1, DiskMoves
  <2>2. ASSUME DiskTyped, UNCHANGED vars PROVE DiskTyped'
    BY <2>2 DEF DiskTyped, vars
  <2> QED BY <2>1, <2>2
<1>3. Inv /\ DiskTyped => TypeOK
  BY DEF Inv, TasksTyped, GoodTask, StoreTyped, DiskTyped, TypeOK
<1> QED BY <1>1, <1>2, <1>3, InvAlways, PTL DEF Spec

(***************************************************************************)
(* The library.                                                            *)
(***************************************************************************)
\* A book that is about to be imported is not in the library its caller sees.
HandledIsNew ==
  \A a \in Actor : task[a].pc \in Handling => View(a).books[task[a].book] = 0

LEMMA MoveKeepsNew ==
  ASSUME Inv, HandledIsNew, NEW a \in Actor, Move(a)
  PROVE  HandledIsNew'
<1> SUFFICES ASSUME NEW b \in Actor, task'[b].pc \in Handling
             PROVE  View(b)'.books[task'[b].book] = 0
  BY DEF HandledIsNew
<1>1. PICK t \in GoodTask :
        /\ Become(a, t)
        /\ t.pc \in Handling =>
             /\ UNCHANGED store
             /\ \/ View(a).books[t.book] = 0
                \/ task[a].pc \in {"place", "undo"} /\ t.book = task[a].book
  BY DEF Move, Goes
<1>2. task' = [task EXCEPT ![a] = t] /\ task \in [Actor -> GoodTask]
  BY <1>1 DEF Become, Inv, TasksTyped
<1>3. b = a
  <2>1. CASE b # a
    <3>1. task[b].pc \in Running
      BY <1>2, <2>1 DEF Handling, Running
    <3> QED BY <2>1, <3>1 DEF Move, Turn, LoopFree, Inv, OneRunning
  <2> QED BY <2>1
<1>4. task'[b] = t
  BY <1>2, <1>3
<1>5. View(b)' = View(a)
  BY <1>1, <1>3, <1>4 DEF View, store
<1>6. View(a).books[t.book] = 0
  BY <1>1, <1>4 DEF HandledIsNew, Handling
<1> QED BY <1>4, <1>5, <1>6

LEMMA MoveKeepsOne ==
  ASSUME Inv, HandledIsNew, OneBookPerIdentity, NEW a \in Actor, Move(a),
         task[a].pc = "persist" => PersistBook(a)
  PROVE  OneBookPerIdentity'
<1>1. CASE BooksKept
  BY <1>1 DEF BooksKept, OneBookPerIdentity
<1>2. CASE ~ BooksKept
  <2> DEFINE b == task[a].book
             data == [View(a) EXCEPT !.books[b] = @ + 1]
  <2>1. PersistBook(a) /\ task[a].pc = "persist"
    BY <1>2 DEF Move
  <2>2. ~ Raise(a)
    BY <1>2, RaiseEnds DEF Ends
  <2>3. Write(a, data)
    BY <2>1, <2>2 DEF PersistBook
  <2>4. View(a).books[b] = 0 /\ View(a) \in Store
    BY <2>1, ViewTyped DEF HandledIsNew, Handling, Inv
  <2>5. \A c \in Book : View(a).books[c] <= 1
    BY DEF OneBookPerIdentity, View
  <2>6. data.books = [View(a).books EXCEPT ![b] = 1]
    BY <2>4 DEF Store
  <2>7. \A c \in Book : data.books[c] <= 1
    BY <2>4, <2>5, <2>6 DEF Store
  <2> HIDE DEF data
  <2> QED BY <2>3, <2>7 DEF Write, OneBookPerIdentity
<1> QED BY <1>1, <1>2

\* From the match to the insertion of the book there is no await: the next step
\* is one of the placement, the insertion, or a crash.
HandlingStep(a) ==
  \/ PlaceBlocked(a) \/ PlaceFile(a) \/ UndoFile(a) \/ PlacementFails(a)
  \/ PersistBook(a) \/ Trouble(a)

LEMMA HandlingSteps ==
  ASSUME Inv, Next, NEW a \in Actor, task[a].pc \in Handling
  PROVE  Crash \/ HandlingStep(a)
<1>1. task[a].pc \in Running /\ ~ LoopFree
  BY DEF Handling, Running, LoopFree
<1>2. ASSUME NEW c \in Actor, c # a PROVE task[c].pc \notin Running
  BY <1>1, <1>2 DEF Inv, OneRunning
<1>3. ASSUME NEW c \in Actor, StartRun(c) \/ Step(c) \/ Trouble(c)
      PROVE  c = a /\ HandlingStep(a)
  <2>1. ~ StartRun(c)
    BY <1>1 DEF StartRun
  <2>2. Trouble(c) => task[c].pc \in Running
    BY DEF Trouble, PlaceBreaks, UndoBreaks, Running
  <2>3. Step(c) => task[c].pc \in Running
    BY <1>1 DEF Step, NextCandidate, RunEnds, Rescanned, NoMatch, AsinUnknown,
       LookupRaises, Duplicate, Matched, PlaceBlocked, PlaceFile, UndoFile,
       PlacementFails, PersistBook, RecordFile, Dispatched, Offer, Running
  <2>4. c = a
    BY <1>2, <1>3, <2>1, <2>2, <2>3
  <2>5. Step(a) => HandlingStep(a)
    BY <1>1 DEF Step, NextCandidate, RunEnds, Rescanned, NoMatch, AsinUnknown,
       LookupRaises, Duplicate, Matched, RecordFile, Dispatched, Offer,
       Handling, HandlingStep
  <2> QED BY <1>3, <2>1, <2>4, <2>5 DEF HandlingStep
<1>4. ASSUME NEW c \in Folder, NEW b \in Book PROVE ~ StartMatch(c, b)
  BY <1>1 DEF StartMatch
<1>5. ~ StartTick
  BY <1>1 DEF StartTick
<1>6. ~ Poll /\ ~ PathMissing
  <2>1. (Poll \/ PathMissing) => task["poll"].pc \in {"item", "take"}
    BY <1>1 DEF Poll, PathMissing, ListEnds, Listed, PickItem, PathOutside,
       TakeByAsin, TakeByRun
  <2>2. "poll" \in Actor
    BY DEF Actor
  <2> QED BY <1>2, <2>1, <2>2 DEF Handling, Running
<1> QED BY <1>3, <1>4, <1>5, <1>6 DEF Next

\* No identity is imported twice, whatever the callers do at the same time:
\* the duplicate check and the insertion are not separated by an await, and the
\* insertion fails while another caller's book is uncommitted.
THEOREM OneBookAlways == Spec => []OneBookPerIdentity
<1> DEFINE J == HandledIsNew /\ OneBookPerIdentity
<1>1. Init => J
  <2> SUFFICES ASSUME Init PROVE J
    OBVIOUS
  <2>1. HandledIsNew
    BY DEF Init, HandledIsNew, IdleTask, Handling
  <2>2. OneBookPerIdentity
    BY DEF Init, OneBookPerIdentity
  <2> QED BY <2>1, <2>2
<1>2. Inv /\ J /\ [Next]_vars => J'
  <2>1. ASSUME Inv, J, Crash PROVE J'
    <3>1. task' = [a \in Actor |-> IdleTask] /\ Rollback(lock)
      BY <2>1 DEF Crash
    <3>2. HandledIsNew'
      BY <3>1 DEF HandledIsNew, IdleTask, Handling
    <3>3. tx' = db /\ db' = db
      BY <3>1 DEF Rollback
    <3> QED BY <2>1, <3>2, <3>3 DEF OneBookPerIdentity
  <2>2. ASSUME Inv, J, NEW a \in Actor, Move(a), Next PROVE J'
    <3>1. CASE task[a].pc = "persist" => PersistBook(a)
      BY <2>2, <3>1, MoveKeepsNew, MoveKeepsOne
    <3>2. CASE task[a].pc = "persist" /\ ~ PersistBook(a)
      <4>1. Crash
        BY <2>2, <3>2, HandlingSteps DEF HandlingStep, Handling, PlaceBlocked,
           PlaceFile, UndoFile, PlacementFails, Trouble, PlaceBreaks, UndoBreaks
      <4> QED BY <2>2, <2>1, <4>1
    <3> QED BY <3>1, <3>2
  <2>3. ASSUME J, UNCHANGED vars PROVE J'
    BY <2>3 DEF vars, store, HandledIsNew, OneBookPerIdentity, View
  <2>4. ASSUME Inv, J, Next PROVE J'
    BY <2>1, <2>2, <2>4, NextMoves
  <2> QED BY <2>3, <2>4
<1>3. J => OneBookPerIdentity
  OBVIOUS
<1> QED BY <1>1, <1>2, <1>3, InvAlways, PTL DEF Spec

\* A caller other than the API never commits a book whose files are still being
\* recorded: whatever ends its import there rolls back, and no other caller
\* writes while it holds the lock.
THEOREM HalvesOnlyByApi == Spec => OnlyApiCommitsHalves
<1> DEFINE A == \A a \in Actor, b \in Book :
                  (/\ task[a].pc = "probe" /\ task[a].book = b
                   /\ db'.books[b] > db.books[b]) => a = "api"
<1>1. Inv /\ [Next]_vars => [A]_vars
  <2> SUFFICES ASSUME Inv, Next, NEW a \in Actor, task[a].pc = "probe",
                      NEW b \in Book, a # "api"
               PROVE  ~ (db'.books[b] > db.books[b])
    OBVIOUS
  <2>1. lock = a /\ db \in Store
    BY DEF Inv, LockKept, Writing, StoreTyped
  <2>2. db'.books = db.books
    <3>1. CASE Crash
      BY <3>1 DEF Crash, Rollback
    <3>2. ASSUME NEW c \in Actor, Move(c) PROVE db'.books = db.books
      <4>1. CASE c = a
        BY <3>2, <4>1 DEF Move, Whole
      <4>2. CASE c # a
        <5>1. lock \notin {c, Nobody}
          BY <2>1, <4>2 DEF Actor, Nobody
        <5> QED BY <3>2, <5>1 DEF Move, StoreMoves, store
      <4> QED BY <4>1, <4>2
    <3> QED BY <3>1, <3>2, NextMoves
  <2>3. db.books[b] \in Nat
    BY <2>1 DEF Store
  <2> QED BY <2>2, <2>3
<1> QED BY <1>1, InvAlways, PTL DEF Spec, OnlyApiCommitsHalves
=============================================================================
