--------------------------- MODULE ImportPipeline ---------------------------
(***************************************************************************)
(* The import pipeline of Audiarr (library/importer.py), the placement of  *)
(* files it does (library/import_strategy.py), and its three callers on    *)
(* one event loop: the scan of a root folder (import_scheduler.py), the    *)
(* API (api/routes_import.py) and the poller of finished downloads         *)
(* (sab_auto_import.py).                                                   *)
(*                                                                         *)
(* Each caller works on a SQLite connection of its own.  The first write   *)
(* takes the database's write lock until commit or rollback; the pipeline  *)
(* keeps it across its awaits.  A write of another caller blocks the loop  *)
(* and with it the holder, so it always ends in OperationalError.          *)
(*                                                                         *)
(* A folder is a name and a place: "home" is root/name, where a placed     *)
(* file lands; "away" is elsewhere beneath the root, "outside" beneath no  *)
(* root.  A copy of a file is known by the place it came from.             *)
(***************************************************************************)
EXTENDS Naturals, FiniteSets

CONSTANTS
  Name,      \* folder names
  Book,      \* provider identities (provider, ASIN)
  NoBook,    \* no identity
  NoItem,    \* no download
  NumFiles,  \* audio files of a folder
  Start,     \* the folders that hold audio at the start
  Loose,     \* names whose "away" folder is the root itself
  Hits,      \* Hits[n]: identities a search for n may yield
  AsinOf,    \* AsinOf[n]: the ASIN in the name n, or NoBook
  Item,      \* finished downloads
  ClientOf,  \* ClientOf[i]: the client that reports i, "sab" or "qb"
  FolderOf,  \* FolderOf[i]: the folder of i
  Strategies,\* the import strategies the operator may configure
  Callers,   \* the callers in use: the API, and the loops switched on
  MaxFaults  \* bound: crashes, disk errors, missing mounts together

Place == {"home", "away", "outside"}
RowPlace == Place \cup {"relative"}
Folder == Name \X Place
File == 1 .. NumFiles
Actor == {"scan", "api", "poll"}
Nobody == "nobody"
NoFolder == <<>>

ASSUME BookAssumption == NoBook \notin Book
ASSUME FilesAssumption == NumFiles \in Nat \ {0}
ASSUME StartAssumption == Start \subseteq Folder
ASSUME LooseAssumption == Loose \subseteq Name
ASSUME HitsAssumption == Hits \in [Name -> SUBSET Book]
ASSUME AsinAssumption == AsinOf \in [Name -> Book \cup {NoBook}]
ASSUME ItemAssumption ==
  /\ NoItem \notin Item
  /\ ClientOf \in [Item -> {"sab", "qb"}]
  /\ FolderOf \in [Item -> Folder]
  \* a download is a folder of its own, never the root itself
  /\ \A i \in Item : FolderOf[i][2] = "away" => FolderOf[i][1] \notin Loose
Strategy == {"move", "copy", "hardlink"}
ASSUME StrategiesAssumption == Strategies \subseteq Strategy
ASSUME CallersAssumption == Callers \subseteq Actor
ASSUME FaultsAssumption == MaxFaults \in Nat

VARIABLES
  disk,   \* disk[<<n, p, f>>]: the file f of folder <<n, p>>
  lock,   \* the caller that holds the write lock, or Nobody
  db,     \* the committed database
  tx,     \* the database as the holder of the lock sees it
  task,   \* task[a]: the coroutine of caller a
  faults  \* faults so far, counted against MaxFaults

store == <<lock, db, tx>>
vars == <<disk, store, task, faults>>

Path == Name \X Place \X File
RowPath == Name \X RowPlace \X File
Content == Place \cup {"absent", "torn"}

Phase == {"none", "retry", "imported", "failed", "skipped"}
Outcome == {"none", "matched", "duplicate", "unmatched", "error"}

\* books[b]: rows of books with identity b; catalog: library_files, with the
\* book each path is recorded under; ledger: the state rows of the downloads;
\* problems: folders whose newest import_jobs row says "unmatched".
Store == [books: [Book -> Nat], catalog: [RowPath -> Book \cup {NoBook}],
          ledger: [Item -> Phase], problems: SUBSET Folder]

\* Running: between two awaits.  Waiting: in an await.  "dead": the poller's
\* loop has ended with an exception.
Running == {"next", "place", "undo", "persist", "offer", "item", "take"}
Waiting == {"search", "probe", "event", "rescan", "list"}

Task == [pc: Running \cup Waiting \cup {"idle", "dead"},
         mode: {"run", "single"},
         todo: SUBSET (Folder \X SUBSET File),  \* candidates still to do
         out: [Folder -> Outcome],              \* results of the run
         folder: Folder \cup {NoFolder},        \* the candidate in hand
         listed: SUBSET File,                   \* its files as scanned
         book: Book \cup {NoBook},              \* the identity it matched
         strategy: Strategy,
         left: SUBSET File,                     \* files still to handle
         done: SUBSET File,                     \* files placed so far
         queue: SUBSET Item,                    \* downloads left in the tick
         item: Item \cup {NoItem},              \* the download in hand
         client: {"sab", "qb"}]

IdleTask ==
  [pc |-> "idle", mode |-> "run", todo |-> {},
   out |-> [c \in Folder |-> "none"], folder |-> NoFolder, listed |-> {},
   book |-> NoBook, strategy |-> "hardlink", left |-> {}, done |-> {},
   queue |-> {}, item |-> NoItem, client |-> "sab"]

Init ==
  /\ disk = [p \in Path |-> IF <<p[1], p[2]>> \in Start THEN p[2]
                                                       ELSE "absent"]
  /\ lock = Nobody
  /\ db = [books |-> [b \in Book |-> 0],
           catalog |-> [r \in RowPath |-> NoBook],
           ledger |-> [i \in Item |-> "none"], problems |-> {}]
  /\ tx = db
  /\ task = [a \in Actor |-> IdleTask]
  /\ faults = 0

-----------------------------------------------------------------------------
(***************************************************************************)
(* The loop, the disk and the database.                                    *)
(***************************************************************************)

\* No coroutine is between two awaits: any of them may be resumed.
LoopFree == \A a \in Actor : task[a].pc \notin Running

Fault == faults < MaxFaults /\ faults' = faults + 1

\* scan_folder: the audio files of one folder.
FilesAt(c) == {f \in File : disk[<<c[1], c[2], f>>] # "absent"}

\* scan_folder(root): the direct children of the root, and the root itself.
\* A folder further down is dropped before the walk reaches it.
Scanned == {c \in Folder : /\ FilesAt(c) # {}
                           /\ \/ c[2] = "home"
                              \/ c[2] = "away" /\ c[1] \in Loose}

\* A caller reads its own writes; every other one reads what is committed.
View(a) == IF lock = a THEN tx ELSE db
CanWrite(a) == lock \in {Nobody, a}

Write(a, data) ==
  /\ lock' = a
  /\ tx' = data
  /\ UNCHANGED db

\* The rows of a, with further writes, become the committed database.
Commit(data) ==
  /\ lock' = Nobody
  /\ tx' = data
  /\ db' = data

\* What is uncommitted and belongs to a is dropped.
Rollback(a) ==
  /\ lock' = IF lock = a THEN Nobody ELSE lock
  /\ tx' = IF lock = a THEN db ELSE tx
  /\ UNCHANGED db

\* conn.commit() with nothing more to write: it cannot fail.
CommitOwn(a) == IF lock = a THEN Commit(tx) ELSE UNCHANGED store

Become(a, t) == task' = [task EXCEPT ![a] = t]

RunTask(t) ==
  [t EXCEPT !.pc = "next", !.mode = "run", !.folder = NoFolder,
            !.listed = {}, !.book = NoBook,
            !.todo = {<<c, FilesAt(c)>> : c \in Scanned},
            !.out = [c \in Folder |-> "none"]]

SingleTask(t, c, b) ==
  [t EXCEPT !.pc = "search", !.mode = "single", !.folder = c,
            !.listed = FilesAt(c), !.book = b, !.todo = {},
            !.out = [d \in Folder |-> "none"]]

-----------------------------------------------------------------------------
(***************************************************************************)
(* How an import ends for its caller.                                      *)
(***************************************************************************)

\* The poller is done with its download: the state row joins the writes in
\* data and all are committed.  If another caller holds the lock the row
\* cannot be written: for a torrent that ends the tick, for a SABnzbd item
\* the handler that records the failure fails too, and the loop ends.
Settle(phase, data) ==
  LET t == task["poll"]
  IN IF CanWrite("poll")
       THEN /\ Commit([data EXCEPT !.ledger[t.item] = phase])
            /\ Become("poll", [IdleTask EXCEPT !.pc = "item",
                                 !.queue = t.queue, !.client = t.client])
       ELSE /\ UNCHANGED store
            /\ Become("poll", [IdleTask EXCEPT !.pc =
                                 IF t.client = "sab" THEN "dead" ELSE "idle"])

\* The handlers of run_once: a torrent is tried again, a SABnzbd item is not.
AfterError(client) == IF client = "sab" THEN "failed" ELSE "retry"

\* Mutant of Raise: the scan commits like the API.
RaiseCommitting(a) ==
  CASE a \in {"scan", "api"} -> CommitOwn(a) /\ Become(a, IdleTask)
    [] a = "poll" -> Settle(AfterError(task[a].client), db)

\* Mutant of Raise: the poller goes on without a state row.
RaiseUnrecorded(a) ==
  CASE a = "scan" -> Rollback(a) /\ Become(a, IdleTask)
    [] a = "api"  -> CommitOwn(a) /\ Become(a, IdleTask)
    [] a = "poll" -> Rollback(a) /\ Become(a, [task[a] EXCEPT !.pc = "item"])

\* An exception leaves the import: the scan closes its connection, the API
\* commits whatever was written, the poller rolls back and records it.
Raise(a) ==
  CASE a = "scan" -> Rollback(a) /\ Become(a, IdleTask)
    [] a = "api"  -> CommitOwn(a) /\ Become(a, IdleTask)
    [] a = "poll" -> Settle(AfterError(task[a].client), db)

\* The run t is done with its candidate and goes on to the next one.
Finished(t, outcome) ==
  [t EXCEPT !.pc = "next", !.out[t.folder] = outcome, !.folder = NoFolder,
            !.listed = {}, !.book = NoBook, !.left = {}, !.done = {}]

\* Mutant of PhaseOf: the outcome of the import is stored as it is.
PhaseAsIs(outcome) == outcome

PhaseOf(outcome) ==
  IF outcome \in {"matched", "duplicate"} THEN "imported" ELSE "failed"

\* Mutant of Return: the commit is forgotten and the connection left open.
ReturnUncommitted(a, outcome, data) ==
  IF a = "poll" THEN Settle(PhaseOf(outcome), data)
                ELSE UNCHANGED store /\ Become(a, IdleTask)

\* import_single_folder returns with its import_jobs row in data, or
\* run_import with its rows committed or not: the caller commits.
Return(a, outcome, data) ==
  IF a = "poll"
    THEN Settle(PhaseOf(outcome), data)
    ELSE /\ IF CanWrite(a) THEN Commit(data) ELSE UNCHANGED store
         /\ Become(a, IdleTask)

\* A candidate is done without a placed file: a run goes on to the next one,
\* a single import records the outcome, which needs the write lock.
Conclude(a, outcome) ==
  IF task[a].mode = "run"
    THEN Become(a, Finished(task[a], outcome)) /\ UNCHANGED store
    ELSE IF CanWrite(a)
           THEN Return(a, outcome, [View(a) EXCEPT !.problems =
                                      @ \ {task[a].folder}])
           ELSE Raise(a)

-----------------------------------------------------------------------------
(***************************************************************************)
(* The callers.                                                            *)
(***************************************************************************)

\* ImportScheduler.run_once, or POST /run.
StartRun(a) ==
  /\ LoopFree
  /\ a \in Callers \cap {"scan", "api"}
  /\ task[a].pc = "idle"
  /\ Become(a, RunTask(IdleTask))
  /\ UNCHANGED <<disk, store, faults>>

\* POST /match: the operator names a folder and an ASIN.
StartMatch(c, b) ==
  /\ LoopFree
  /\ "api" \in Callers
  /\ task["api"].pc = "idle"
  /\ FilesAt(c) # {}
  /\ Become("api", SingleTask(IdleTask, c, b))
  /\ UNCHANGED <<disk, store, faults>>

Reported(client) == {i \in Item : ClientOf[i] = client}

\* A tick of the poller: the history of SABnzbd comes first.
StartTick ==
  /\ LoopFree
  /\ "poll" \in Callers
  /\ task["poll"].pc = "idle"
  /\ Become("poll",
            [IdleTask EXCEPT !.pc = "item", !.queue = Reported("sab")])
  /\ UNCHANGED <<disk, store, faults>>

\* The list of one client is done; the torrents are asked for next.
ListEnds ==
  LET t == task["poll"]
  IN /\ t.pc = "item" /\ t.queue = {}
     /\ Become("poll", IF t.client = "sab" THEN [t EXCEPT !.pc = "list"]
                                           ELSE IdleTask)
     /\ UNCHANGED <<disk, store, faults>>

\* list_completed returned, or failed: then there is nothing to do.
Listed(ok) ==
  /\ LoopFree
  /\ task["poll"].pc = "list"
  /\ Become("poll", IF ok THEN [IdleTask EXCEPT !.pc = "item",
                                  !.queue = Reported("qb"), !.client = "qb"]
                          ELSE IdleTask)
  /\ UNCHANGED <<disk, store, faults>>

\* Mutant of Decided: a download that failed for good is taken up again.
DecidedIfImported(i) == db.ledger[i] \in {"imported", "skipped"}

\* A SABnzbd item with any row is done, a torrent unless it may be retried.
Decided(i) == \/ db.ledger[i] \in {"imported", "failed", "skipped"}
              \/ db.ledger[i] # "none" /\ ClientOf[i] = "sab"

PickItem(i) ==
  LET t == task["poll"]
  IN /\ t.pc = "item" /\ i \in t.queue
     /\ Become("poll", IF Decided(i)
                         THEN [t EXCEPT !.queue = @ \ {i}]
                         ELSE [t EXCEPT !.queue = @ \ {i}, !.item = i,
                                        !.pc = "take"])
     /\ UNCHANGED <<disk, store, faults>>

\* The reported path does not exist here, or not yet.
PathMissing ==
  /\ task["poll"].pc = "take"
  /\ Fault
  /\ Settle(IF task["poll"].client = "sab" THEN "skipped" ELSE "retry", db)
  /\ UNCHANGED disk

\* An ASIN in the name of a folder with audio goes to import_single_folder,
\* any other folder beneath the root to a run over the root.
HasAsin(c) == FilesAt(c) # {} /\ AsinOf[c[1]] # NoBook

\* A torrent beneath no root may get one later; a SABnzbd item is decided.
PathOutside ==
  LET t == task["poll"]
      c == FolderOf[t.item]
  IN /\ t.pc = "take"
     /\ c[2] = "outside"
     /\ t.client = "qb" \/ ~ HasAsin(c)
     /\ Settle(AfterError(t.client), db)
     /\ UNCHANGED <<disk, faults>>

TakeByAsin ==
  LET t == task["poll"]
      c == FolderOf[t.item]
  IN /\ t.pc = "take"
     /\ HasAsin(c)
     /\ c[2] # "outside" \/ t.client = "sab"
     /\ Become("poll", SingleTask(t, c, AsinOf[c[1]]))
     /\ UNCHANGED <<disk, store, faults>>

TakeByRun ==
  LET t == task["poll"]
      c == FolderOf[t.item]
  IN /\ t.pc = "take"
     /\ ~ HasAsin(c)
     /\ c[2] # "outside"
     /\ Become("poll", RunTask(t))
     /\ UNCHANGED <<disk, store, faults>>

-----------------------------------------------------------------------------
(***************************************************************************)
(* run_import and import_single_folder up to the match.                    *)
(***************************************************************************)

\* The next candidate; scans sort by path, which the names do not model.
NextCandidate(a) ==
  /\ task[a].pc = "next"
  /\ \E c \in task[a].todo :
       Become(a, [task[a] EXCEPT !.pc = "search", !.todo = @ \ {c},
                                 !.folder = c[1], !.listed = c[2]])
  /\ UNCHANGED <<disk, store, faults>>

\* The folders a run saw, and those among them that stayed unmatched.
Seen(a) == {c \in Folder : task[a].out[c] # "none"}
Unmatched(a) == {c \in Folder : task[a].out[c] = "unmatched"}

\* The end of a run: one import_jobs row per candidate, then the rescan.
RunEnds(a) ==
  /\ task[a].pc = "next" /\ task[a].todo = {}
  /\ IF Seen(a) = {} \/ CanWrite(a)
       THEN /\ IF Seen(a) = {}
                 THEN UNCHANGED store
                 ELSE Write(a, [View(a) EXCEPT !.problems =
                                  (@ \ Seen(a)) \cup Unmatched(a)])
            /\ Become(a, [task[a] EXCEPT !.pc = "rescan"])
       ELSE Raise(a)
  /\ UNCHANGED <<disk, faults>>

\* notify_library_changed is over; the caller looks up its result.
Rescanned(a) ==
  /\ LoopFree
  /\ task[a].pc = "rescan"
  /\ Return(a, IF a = "poll" THEN task[a].out[FolderOf[task[a].item]]
                             ELSE "none", View(a))
  /\ UNCHANGED <<disk, faults>>

\* The providers yield nothing good enough, or fail, which a run ignores.
NoMatch(a) ==
  /\ LoopFree
  /\ task[a].pc = "search" /\ task[a].mode = "run"
  /\ Conclude(a, "unmatched")
  /\ UNCHANGED <<disk, faults>>

\* ImportMatchError: no provider knows the ASIN.  The API answers 502, the
\* poller tries a run over the root instead.
AsinUnknown(a) ==
  /\ LoopFree
  /\ task[a].pc = "search" /\ task[a].mode = "single"
  /\ IF a = "poll"
       THEN IF task[a].folder[2] = "outside"
              THEN Settle("failed", View(a))
              ELSE Become(a, RunTask(task[a])) /\ UNCHANGED store
       ELSE Raise(a)
  /\ UNCHANGED <<disk, faults>>

\* A provider raises while a single import waits for it.
LookupRaises(a) ==
  /\ LoopFree
  /\ task[a].pc = "search" /\ task[a].mode = "single"
  /\ Raise(a)
  /\ UNCHANGED <<disk, faults>>

\* The identity the search yields for the candidate in hand.
Found(a) == IF task[a].mode = "run" THEN Hits[task[a].folder[1]]
                                    ELSE {task[a].book}

\* Mutant of Known: the check asks the committed database.
KnownCommitted(a, b) == db.books[b] > 0

\* The duplicate check sees what is committed and the caller's own writes.
Known(a, b) == View(a).books[b] > 0

Duplicate(a, b) ==
  /\ LoopFree
  /\ task[a].pc = "search" /\ b \in Found(a)
  /\ Known(a, b)
  /\ Conclude(a, "duplicate")
  /\ UNCHANGED <<disk, faults>>

\* A new identity.  Files that lie where they belong, or beneath no root, stay
\* where they are; any other file is to be placed.
Matched(a, b, strategy) ==
  LET t == task[a]
      placing == t.folder[2] = "away"
  IN /\ LoopFree
     /\ t.pc = "search" /\ b \in Found(a)
     /\ ~ Known(a, b)
     /\ Become(a, [t EXCEPT !.book = b,
                            !.strategy = IF placing THEN strategy ELSE @,
                            !.left = IF placing THEN t.listed ELSE {},
                            !.pc = IF placing THEN "place" ELSE "persist"])
     /\ UNCHANGED <<disk, store, faults>>

-----------------------------------------------------------------------------
(***************************************************************************)
(* place_candidate_files: file after file into root/name, all undone in    *)
(* reverse order if one of them fails.                                     *)
(***************************************************************************)
First(a, f) == f \in task[a].left /\ \A g \in task[a].left : f <= g

\* The path is taken, or the file has gone since the scan.
Blocked(n, f) == \/ disk[<<n, "home", f>>] # "absent"
                 \/ disk[<<n, "away", f>>] = "absent"

PlaceBlocked(a) ==
  /\ task[a].pc = "place"
  /\ \E f \in File : First(a, f) /\ Blocked(task[a].folder[1], f)
  /\ Become(a, [task[a] EXCEPT !.pc = "undo"])
  /\ UNCHANGED <<disk, store, faults>>

\* The content of away/f is at home/f now, and only there after a move.
Transferred(n, f, strategy) ==
  LET from == <<n, "away", f>>
      to == <<n, "home", f>>
  IN [disk EXCEPT ![to] = disk[from],
                  ![from] = IF strategy = "move" THEN "absent" ELSE @]

PlaceFile(a) ==
  LET t == task[a]
      n == t.folder[1]
  IN /\ t.pc = "place"
     /\ \E f \in File :
          /\ First(a, f)
          /\ ~ Blocked(n, f)
          /\ disk' = Transferred(n, f, t.strategy)
          /\ Become(a, [t EXCEPT !.left = @ \ {f}, !.done = @ \cup {f},
                          !.pc = IF t.left = {f} THEN "persist" ELSE @])
     /\ UNCHANGED <<store, faults>>

\* No space, or a disk error.  Any strategy may be copying at that moment (a
\* refused hard link, a move to another volume): what was written stays.
PlaceBreaks(a, torn) ==
  LET n == task[a].folder[1]
  IN /\ task[a].pc = "place"
     /\ Fault
     /\ \E f \in File :
          /\ First(a, f)
          /\ ~ Blocked(n, f)
          /\ disk' = IF torn THEN [disk EXCEPT ![<<n, "home", f>>] = "torn"]
                             ELSE disk
     /\ Become(a, [task[a] EXCEPT !.pc = "undo"])
     /\ UNCHANGED store

Last(a, f) == f \in task[a].done /\ \A g \in task[a].done : g <= f

\* Mutant of Returned: a moved file is removed like a copy.
ReturnedRemoved(n, f, strategy) ==
  [disk EXCEPT ![<<n, "home", f>>] = "absent"]

\* A moved file is moved back, a copy or a link is removed.
Returned(n, f, strategy) ==
  LET from == <<n, "away", f>>
      to == <<n, "home", f>>
  IN [disk EXCEPT ![from] = IF strategy = "move" THEN disk[to] ELSE @,
                  ![to] = "absent"]

UndoFile(a) ==
  LET t == task[a]
  IN /\ t.pc = "undo"
     /\ \E f \in File :
          /\ Last(a, f)
          /\ disk' = Returned(t.folder[1], f, t.strategy)
          /\ Become(a, [t EXCEPT !.done = @ \ {f}])
     /\ UNCHANGED <<store, faults>>

\* "best-effort rollback, report don't hide".
UndoBreaks(a) ==
  /\ task[a].pc = "undo"
  /\ Fault
  /\ \E f \in File : /\ Last(a, f)
                     /\ Become(a, [task[a] EXCEPT !.done = @ \ {f}])
  /\ UNCHANGED <<disk, store>>

\* ImportStrategyError reaches the import: the candidate is not imported.
PlacementFails(a) ==
  /\ task[a].pc = "undo" /\ task[a].done = {}
  /\ Conclude(a, "error")
  /\ UNCHANGED <<disk, faults>>

-----------------------------------------------------------------------------
(***************************************************************************)
(* _persist_book, _persist_files, _maybe_enqueue_conversion.               *)
(***************************************************************************)

\* The book, its identity and its edition.
PersistBook(a) ==
  /\ task[a].pc = "persist"
  /\ IF CanWrite(a)
       THEN /\ Write(a, [View(a) EXCEPT !.books[task[a].book] = @ + 1])
            /\ Become(a, [task[a] EXCEPT !.pc = "probe", !.done = {},
                                         !.left = task[a].listed])
       ELSE Raise(a)
  /\ UNCHANGED <<disk, faults>>

\* Mutant of RowOf: the source path is recorded instead of the final one.
RowOfSource(c, f) ==
  <<c[1], IF c[2] = "outside" THEN "relative" ELSE c[2], f>>

\* Where the rows say the files are: placed files are at home, files beneath
\* no root are recorded relative to the folder that was scanned.
RowOf(c, f) == <<c[1], IF c[2] = "outside" THEN "relative" ELSE "home", f>>

\* ffprobe is done with a file; its row violates UNIQUE(path) if the path is
\* catalogued already.
RecordFile(a) ==
  LET t == task[a]
  IN /\ LoopFree
     /\ t.pc = "probe"
     /\ \E f \in File :
          /\ First(a, f)
          /\ IF tx.catalog[RowOf(t.folder, f)] # NoBook
               THEN Raise(a)
               ELSE /\ Write(a, [tx EXCEPT !.catalog[RowOf(t.folder, f)] =
                                             t.book])
                    /\ Become(a, [t EXCEPT !.left = @ \ {f}, !.pc =
                                    IF t.left = {f} THEN "offer" ELSE @])
     /\ UNCHANGED <<disk, faults>>

\* If a conversion job is enqueued, enqueue_for_book commits the connection.
\* A single import then records its import_jobs row.
Offer(a, enqueued) ==
  LET t == task[a]
      noted == [tx EXCEPT !.problems = @ \ {t.folder}]
  IN /\ t.pc = "offer"
     /\ db' = IF enqueued THEN tx ELSE db
     /\ tx' = IF t.mode = "single" THEN noted ELSE tx
     /\ lock' = IF enqueued /\ t.mode = "run" THEN Nobody ELSE a
     /\ Become(a, [t EXCEPT !.pc = "event"])
     /\ UNCHANGED <<disk, faults>>

\* dispatch_event is over.
Dispatched(a) ==
  /\ LoopFree
  /\ task[a].pc = "event"
  /\ IF task[a].mode = "run"
       THEN Become(a, Finished(task[a], "matched")) /\ UNCHANGED store
       ELSE Return(a, "matched", View(a))
  /\ UNCHANGED <<disk, faults>>

-----------------------------------------------------------------------------
\* The process dies and starts again: SQLite drops what was uncommitted.
Crash ==
  /\ Fault
  /\ Rollback(lock)
  /\ task' = [a \in Actor |-> IdleTask]
  /\ UNCHANGED disk

Step(a) ==
  \/ NextCandidate(a) \/ RunEnds(a) \/ Rescanned(a)
  \/ NoMatch(a) \/ AsinUnknown(a) \/ LookupRaises(a)
  \/ \E b \in Book : Duplicate(a, b)
  \/ \E b \in Book, s \in Strategies : Matched(a, b, s)
  \/ PlaceBlocked(a) \/ PlaceFile(a) \/ UndoFile(a) \/ PlacementFails(a)
  \/ PersistBook(a) \/ RecordFile(a) \/ Dispatched(a)
  \/ \E enqueued \in BOOLEAN : Offer(a, enqueued)

Trouble(a) ==
  \/ \E torn \in BOOLEAN : PlaceBreaks(a, torn)
  \/ UndoBreaks(a)

Poll ==
  \/ ListEnds
  \/ \E ok \in BOOLEAN : Listed(ok)
  \/ \E i \in Item : PickItem(i)
  \/ PathOutside \/ TakeByAsin \/ TakeByRun

Next ==
  \/ \E a \in Actor : StartRun(a) \/ Step(a) \/ Trouble(a)
  \/ \E c \in Folder, b \in Book : StartMatch(c, b)
  \/ StartTick \/ Poll \/ PathMissing
  \/ Crash

Spec == Init /\ [][Next]_vars

\* The event loop takes turns: a coroutine whose await is over is resumed,
\* even if others have run in between, and every await is over some time, for
\* providers, ffprobe, webhooks and the rescan have timeouts.  The poller's
\* ticks come round.  Nothing obliges an operator, a scan or a fault.
Fairness ==
  /\ \A a \in Actor : SF_vars(Step(a))
  /\ SF_vars(StartTick) /\ SF_vars(Poll)

FairSpec == Spec /\ Fairness
=============================================================================
