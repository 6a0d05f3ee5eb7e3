------------------------- MODULE WantedSearchProofs -------------------------
(***************************************************************************)
(* What is proved of the search for better releases for every set of       *)
(* books, documents, offers and profiles, and any number of releases.      *)
(***************************************************************************)
EXTENDS WantedProperties, SequenceTheorems, FiniteSetTheorems,
        WellFoundedInduction, TLAPS

Row == [status : {"none", "no_release", "grabbed"}, nzo : 0 .. MaxJobs]

\* What a search offers is any list: what a release or a file is called
\* stays open.
IsTask(t) ==
  /\ t \in [at : {"idle", "search", "fetch", "taken"}, todo : SUBSET Book,
            of : DOMAIN Settings, offered : {t.offered},
            release : {t.release}, nzo : 0 .. MaxJobs]
  /\ t.at = "idle" <=> t.todo = {}

IsBook(r) ==
  r \in [monitored : BOOLEAN, files : {r.files}, gone : {r.gone}]

IsJob(r) ==
  r \in [book : Book, by : Actor, name : {r.name}, state : JobStates]

IsSequence(s) == s \in Seq({s[j] : j \in DOMAIN s})

Typed ==
  /\ settings \in DOMAIN Settings
  /\ books = [b \in Book |-> books[b]] /\ \A b \in Book : IsBook(books[b])
  /\ rows \in [Book -> Row]
  /\ IsSequence(jobs) /\ Len(jobs) <= MaxJobs
  /\ \A j \in DOMAIN jobs : IsJob(jobs[j])
  /\ task = [a \in Actor |-> task[a]] /\ \A a \in Actor : IsTask(task[a])
  /\ task["user"].at \in {"idle", "fetch"}

\* The book in work is not one that is held back.
Working ==
  task["tick"].at # "idle" => rows[InWork("tick")].status # "grabbed"

\* The number in the tick's hands is that of a job it handed over for the
\* book in work.
Taken ==
  task["tick"].at = "taken" =>
    /\ task["tick"].nzo \in DOMAIN jobs
    /\ jobs[task["tick"].nzo].book = InWork("tick")
    /\ jobs[task["tick"].nzo].by = "tick"

\* What the scheduler was told of still holds its book back.
ToldHeld ==
  \A j \in told : j \in DOMAIN jobs /\ rows[jobs[j].book] = Grabbed(j)

Inv == Typed /\ Working /\ Taken /\ GrabbedIsTaken /\ ToldHeld

(***************************************************************************)
(* Books and tasks.                                                        *)
(***************************************************************************)
Below == {ss \in Nat \X Nat : ss[1] < ss[2]}

LEMMA BelowWellFounded == IsWellFoundedOn(Below, Nat)
BY NatLessThanWellFounded, Zenon DEF OpToRel, Below

LEMMA Least ==
  ASSUME NEW S \in SUBSET Nat, S # {}
  PROVE  Min(S) \in S /\ \A b \in S : Min(S) <= b
<1>1. \E m \in S : \A b \in S : ~(<<b, m>> \in Below)
  BY BelowWellFounded, WFMin, Zenon
<1>2. \E m \in S : \A b \in S : m <= b
  <2>1. \A b, m \in Nat : b < m => <<b, m>> \in Below
    BY DEF Below
  <2>2. PICK m \in S : \A b \in S : ~(<<b, m>> \in Below)
    BY <1>1
  <2>3. m \in Nat /\ \A b \in S : b \in Nat /\ ~(b < m)
    BY <2>1, <2>2, Zenon
  <2> QED BY <2>3
<1> QED BY <1>2 DEF Min

\* The first book of those left.
LEMMA FirstBook ==
  ASSUME NEW S \in SUBSET Book, S # {}
  PROVE  Min(S) \in S /\ \A b \in S : Min(S) <= b
BY Least, BookAssumption

LEMMA IdleTyped == IsTask(Idle) /\ Idle.at = "idle" /\ Idle.todo = {}
BY SettingsAssumption, BoundAssumption DEF Idle, IsTask

LEMMA ResumedTyped ==
  ASSUME NEW todo \in SUBSET Book, todo # {}, NEW of \in DOMAIN Settings
  PROVE  /\ IsTask(Resumed(todo, of, "search"))
         /\ Resumed(todo, of, "search").at = "search"
         /\ Resumed(todo, of, "search").todo = todo
<1> DEFINE t == Resumed(todo, of, "search")
<1>1. Idle \in [at : {"idle", "search", "fetch", "taken"}, todo : SUBSET Book,
               of : DOMAIN Settings, offered : {<<>>}, release : {<<>>},
               nzo : 0 .. MaxJobs]
  BY IdleTyped DEF IsTask, Idle
<1>2. /\ t \in [at : {"idle", "search", "fetch", "taken"}, todo : SUBSET Book,
               of : DOMAIN Settings, offered : {<<>>}, release : {<<>>},
               nzo : 0 .. MaxJobs]
      /\ t.at = "search" /\ t.todo = todo
  BY <1>1 DEF Resumed
<1>3. IsTask(t)
  <2> HIDE DEF t
  <2> QED BY <1>2 DEF IsTask
<1> QED BY <1>2, <1>3

\* On to a book that is not held back, or to the end.
LEMMA AdvancedTyped ==
  ASSUME NEW todo \in SUBSET Book, NEW of \in DOMAIN Settings, NEW states
  PROVE  LET next == Advanced(todo, of, states)
         IN  /\ IsTask(next) /\ next.at \in {"idle", "search"}
             /\ next.todo # {} => states[Min(next.todo)].status # "grabbed"
<1> DEFINE open == {b \in todo : states[b].status # "grabbed"}
           left == {b \in todo : b >= Min(open)}
<1>1. CASE open = {}
  BY <1>1, IdleTyped DEF Advanced
<1>2. CASE open # {}
  <2>1. Min(open) \in open
    BY <1>2, FirstBook
  <2>a. Min(open) \in Nat
    BY <2>1, BookAssumption
  <2>2. left \in SUBSET Book /\ Min(open) \in left
    BY <2>1, <2>a
  <2>3. Min(left) \in left /\ Min(left) <= Min(open)
    BY <2>2, FirstBook
  <2>4. Min(left) = Min(open)
    <3>1. Min(left) \in Nat /\ Min(left) >= Min(open)
      BY <2>2, <2>3, BookAssumption
    <3> QED BY <2>a, <2>3, <3>1
  <2>5. Advanced(todo, of, states) = Resumed(left, of, "search")
    BY <1>2 DEF Advanced
  <2> HIDE DEF left
  <2> QED BY <2>1, <2>2, <2>4, <2>5, ResumedTyped
<1> QED BY <1>1, <1>2

\* The book in work is a book.
LEMMA InWorkTyped ==
  ASSUME Typed, NEW a \in Actor, task[a].at # "idle"
  PROVE  InWork(a) \in task[a].todo /\ InWork(a) \in Book
BY FirstBook DEF Typed, IsTask, InWork

(***************************************************************************)
(* Jobs.                                                                   *)
(***************************************************************************)
LEMMA Appended ==
  ASSUME NEW s, IsSequence(s), NEW e
  PROVE  /\ IsSequence(Append(s, e)) /\ Len(Append(s, e)) = Len(s) + 1
         /\ DOMAIN Append(s, e) = 1 .. Len(s) + 1 /\ DOMAIN s = 1 .. Len(s)
         /\ \A j \in DOMAIN s : Append(s, e)[j] = s[j]
         /\ Append(s, e)[Len(s) + 1] = e
<1> DEFINE S == {s[j] : j \in DOMAIN s} \cup {e}
           t == Append(s, e)
<1>1. s \in Seq(S) /\ e \in S
  BY SeqMonotonic DEF IsSequence
<1>2. t \in Seq(S) /\ Len(t) = Len(s) + 1 /\ Len(s) \in Nat
      /\ DOMAIN t = 1 .. Len(s) + 1 /\ DOMAIN s = 1 .. Len(s)
      /\ (\A j \in 1 .. Len(s) : t[j] = s[j]) /\ t[Len(s) + 1] = e
  <2> HIDE DEF S
  <2> QED BY <1>1
<1>3. t \in [1 .. Len(s) + 1 -> {t[j] : j \in DOMAIN t}]
  <2> HIDE DEF t
  <2> QED BY <1>2
<1> QED BY <1>2, <1>3 DEF IsSequence

LEMMA Moved ==
  ASSUME NEW s, IsSequence(s), NEW k \in DOMAIN s, NEW e
  PROVE  /\ IsSequence([s EXCEPT ![k] = e])
         /\ Len([s EXCEPT ![k] = e]) = Len(s)
         /\ DOMAIN [s EXCEPT ![k] = e] = DOMAIN s
         /\ \A j \in DOMAIN s :
              [s EXCEPT ![k] = e][j] = IF j = k THEN e ELSE s[j]
<1> DEFINE S == {s[j] : j \in DOMAIN s}
           t == [s EXCEPT ![k] = e]
<1>1. s \in Seq(S) /\ Len(s) \in Nat /\ DOMAIN s = 1 .. Len(s)
  BY DEF IsSequence
<1>2. DOMAIN t = 1 .. Len(s)
      /\ \A j \in 1 .. Len(s) : t[j] = IF j = k THEN e ELSE s[j]
  <2> HIDE DEF S
  <2> QED BY <1>1
<1> DEFINE T == {t[j] : j \in DOMAIN t}
<1>3. t \in [1 .. Len(s) -> T]
  <2>1. t = [j \in 1 .. Len(s) |-> t[j]]
    BY <1>1
  <2> HIDE DEF t
  <2> QED BY <1>2, <2>1
<1>4. IsSequence(t) /\ Len(t) = Len(s)
  <2> HIDE DEF t
  <2>1. IsSequence(t)
    <3>1. t \in Seq(T)
      <4> HIDE DEF T
      <4> QED BY <1>1, <1>3
    <3> QED BY <3>1 DEF IsSequence
  <2> QED BY <1>1, <1>2, <2>1 DEF IsSequence
<1> QED BY <1>1, <1>2, <1>4

(***************************************************************************)
(* The history: nothing is remembered but what is written.                 *)
(***************************************************************************)
LEMMA ToldGrows ==
  ASSUME Remembers
  PROVE  told' \subseteq told \cup Written
BY DEF Remembers

LEMMA NothingTold ==
  ASSUME Remembers, rows' = rows
  PROVE  told' \subseteq told
BY ToldGrows DEF Written

(***************************************************************************)
(* Kinds of steps.                                                         *)
(***************************************************************************)
\* No job is forgotten, and whose it is stays.
JobsKept ==
  \A j \in DOMAIN jobs :
    /\ j \in DOMAIN jobs'
    /\ jobs'[j].book = jobs[j].book /\ jobs'[j].by = jobs[j].by

\* A step that leaves the rows alone.
LEMMA RowsKept ==
  ASSUME Inv, Remembers, rows' = rows, JobsKept
  PROVE  GrabbedIsTaken' /\ ToldHeld'
<1>1. GrabbedIsTaken'
  BY DEF Inv, GrabbedIsTaken, JobsKept
<1>2. ToldHeld'
  BY NothingTold DEF Inv, ToldHeld, JobsKept
<1> QED BY <1>1, <1>2

\* A step that leaves the tick alone too.
LEMMA TickKept ==
  ASSUME Inv, Remembers, rows' = rows, JobsKept, Typed',
         task'["tick"] = task["tick"]
  PROVE  Inv'
<1>1. Working' /\ Taken'
  BY DEF Inv, Working, Taken, JobsKept, InWork
<1> QED BY <1>1, RowsKept DEF Inv

\* A step of one coroutine that reads only.
LEMMA TaskTyped ==
  ASSUME Typed, NEW a \in Actor, NEW next, IsTask(next),
         a = "user" => next.at \in {"idle", "fetch"},
         task' = [task EXCEPT ![a] = next], UNCHANGED <<settings, books, jobs>>,
         rows' \in [Book -> Row]
  PROVE  Typed' /\ task'[a] = next /\ \A c \in Actor \ {a} : task'[c] = task[c]
<1>1. task'[a] = next /\ \A c \in Actor \ {a} : task'[c] = task[c]
  BY DEF Typed
<1>2. task' = [c \in Actor |-> task'[c]]
  BY DEF Typed
<1>3. \A c \in Actor : IsTask(task'[c])
  BY <1>1 DEF Typed
<1>4. task'["user"].at \in {"idle", "fetch"}
  BY <1>1 DEF Typed, Actor
<1> QED BY <1>1, <1>2, <1>3, <1>4 DEF Typed

\* The tick goes on to a book that is not held back, or ends.
LEMMA TickGoesOn ==
  ASSUME Inv, Remembers, UNCHANGED <<settings, books, jobs, rows>>,
         NEW next, IsTask(next), next.at # "taken",
         next.todo # {} => rows[Min(next.todo)].status # "grabbed",
         task' = [task EXCEPT !["tick"] = next]
  PROVE  Inv'
<1>1. Typed' /\ task'["tick"] = next
  BY TaskTyped DEF Inv, Typed, Actor
<1>2. Working' /\ Taken'
  BY <1>1 DEF Working, Taken, InWork, IsTask
<1>3. JobsKept
  BY DEF JobsKept
<1> QED BY <1>1, <1>2, <1>3, RowsKept DEF Inv

LEMMA UserGoesOn ==
  ASSUME Inv, Remembers, UNCHANGED <<settings, books, jobs, rows>>,
         NEW next, IsTask(next), next.at \in {"idle", "fetch"},
         task' = [task EXCEPT !["user"] = next]
  PROVE  Inv'
<1>1. Typed' /\ task'["tick"] = task["tick"]
  BY TaskTyped DEF Inv, Typed, Actor
<1>2. JobsKept
  BY DEF JobsKept
<1> QED BY <1>1, <1>2, TickKept

\* The outcome of the book in work is written.
LEMMA RowRecorded ==
  ASSUME Inv, Remembers, task["tick"].at # "idle", NEW row \in Row,
         Recorded(row), UNCHANGED <<settings, books, jobs>>,
         \/ row = NoRelease
         \/ /\ row = Grabbed(row.nzo) /\ row.nzo \in DOMAIN jobs
            /\ jobs[row.nzo].book = InWork("tick") /\ jobs[row.nzo].by = "tick"
  PROVE  Inv'
<1> DEFINE b == InWork("tick")
           next == Advanced(Rest, task["tick"].of, rows')
<1>1. b \in Book /\ "tick" \in Actor
  BY InWorkTyped DEF Inv, Actor
<1>2. rows' \in [Book -> Row] /\ rows'[b] = row
      /\ \A c \in Book \ {b} : rows'[c] = rows[c]
  BY <1>1 DEF Recorded, Inv, Typed
<1>3. Rest \in SUBSET Book /\ task["tick"].of \in DOMAIN Settings
  BY <1>1 DEF Inv, Typed, IsTask, Rest
<1>4. /\ IsTask(next) /\ next.at \in {"idle", "search"}
      /\ next.todo # {} => rows'[Min(next.todo)].status # "grabbed"
  BY <1>3, AdvancedTyped
<1>5. task' = [task EXCEPT !["tick"] = next]
  BY DEF Recorded
<1> HIDE DEF next
<1>6. Typed' /\ task'["tick"] = next
  BY <1>1, <1>2, <1>4, <1>5, TaskTyped DEF Inv
<1>7. Working' /\ Taken'
  BY <1>4, <1>6 DEF Working, Taken, InWork, IsTask
<1>8. GrabbedIsTaken'
  BY <1>1, <1>2 DEF Inv, GrabbedIsTaken, NoRelease, Grabbed
<1>9. ToldHeld'
  <2>1. \A j \in told : jobs[j].book # b
    <3>1. rows[b].status # "grabbed"
      BY DEF Inv, Working
    <3>2. \A j \in told : rows[jobs[j].book] = Grabbed(j)
      BY Zenon DEF Inv, ToldHeld
    <3>3. \A j : Grabbed(j).status = "grabbed"
      BY DEF Grabbed
    <3> QED BY <3>1, <3>2, <3>3, Zenon
  <2>2. \A j \in told : j \in DOMAIN jobs /\ jobs[j].book \in Book
    BY DEF Inv, ToldHeld, Typed, IsJob
  <2>3. \A j \in Written : j = row.nzo /\ j # 0
    <3>1. \A j \in Written : j # 0 /\ \E c \in Book :
                              rows'[c] # rows[c] /\ j = rows'[c].nzo
      BY DEF Written
    <3> QED BY <1>2, <3>1
  <2>4. \A j \in Written : j \in DOMAIN jobs /\ jobs[j].book = b
                          /\ row = Grabbed(j)
    BY <2>3 DEF NoRelease
  <2>5. \A j \in told' : j \in told \/ j \in Written
    BY ToldGrows
  <2> QED BY <1>1, <1>2, <2>1, <2>2, <2>4, <2>5 DEF ToldHeld, Inv
<1> QED BY <1>6, <1>7, <1>8, <1>9 DEF Inv

\* A release is handed over: a job more, its number in the tick's hands.
LEMMA JobAdded ==
  ASSUME Inv, Remembers, NEW a \in Actor, Queued(a),
         a = "tick" => task' = [task EXCEPT ![a] = [@ EXCEPT !.at = "taken",
                                                      !.nzo = Len(jobs')]],
         a = "user" => task' = [task EXCEPT ![a] = Idle]
  PROVE  Inv'
<1> DEFINE e == [book |-> InWork(a), by |-> a, name |-> task[a].release.name,
                 state |-> "queued"]
<1>1. InWork(a) \in Book
  BY InWorkTyped DEF Inv, Queued
<1>2. IsJob(e)
  BY <1>1 DEF IsJob, JobStates
<1>3. /\ IsSequence(jobs') /\ Len(jobs') = Len(jobs) + 1
      /\ DOMAIN jobs' = 1 .. Len(jobs) + 1 /\ DOMAIN jobs = 1 .. Len(jobs)
      /\ \A j \in DOMAIN jobs : jobs'[j] = jobs[j]
      /\ jobs'[Len(jobs) + 1] = e
  BY Appended DEF Queued, Inv, Typed
<1>4. Len(jobs) \in Nat /\ Len(jobs) < MaxJobs /\ MaxJobs \in Nat
  BY BoundAssumption DEF Inv, Typed, IsSequence, Queued
<1> HIDE DEF e
<1>5. /\ \A j \in DOMAIN jobs' : IsJob(jobs'[j])
      /\ Len(jobs') <= MaxJobs
  BY <1>2, <1>3, <1>4 DEF Inv, Typed
<1>6. JobsKept
  BY <1>3, <1>4 DEF JobsKept
<1>7. CASE a = "user"
  <2>1. task'["tick"] = task["tick"] /\ task'["user"] = Idle
        /\ task' = [c \in Actor |-> task'[c]]
    BY <1>7 DEF Inv, Typed, Actor
  <2>2. Typed'
    BY <1>3, <1>5, <2>1, IdleTyped DEF Queued, Inv, Typed, Actor
  <2> QED BY <1>6, <2>1, <2>2, TickKept DEF Queued
<1>8. CASE a = "tick"
  <2> DEFINE next == [task["tick"] EXCEPT !.at = "taken", !.nzo = Len(jobs')]
  <2>1. task'["tick"] = next /\ task'["user"] = task["user"]
        /\ task' = [c \in Actor |-> task'[c]]
    BY <1>8 DEF Inv, Typed, Actor
  <2>2. IsTask(task["tick"]) /\ task["tick"].todo # {}
    BY <1>8 DEF Inv, Typed, Actor, Queued, IsTask
  <2>3. Len(jobs') \in 0 .. MaxJobs
    BY <1>3, <1>4
  <2>4. IsTask(next) /\ next.todo = task["tick"].todo /\ next.nzo = Len(jobs')
        /\ next.at = "taken"
    BY <2>2, <2>3 DEF IsTask
  <2> HIDE DEF next
  <2>5. Typed'
    BY <1>3, <1>5, <2>1, <2>4 DEF Queued, Inv, Typed, Actor
  <2>6. InWork("tick")' = InWork("tick")
    BY <2>1, <2>4 DEF InWork
  <2>7. Working'
    BY <1>8, <2>6 DEF Queued, Inv, Working
  <2>8. Taken'
    BY <1>3, <1>4, <1>8, <2>1, <2>4, <2>6 DEF Taken, e
  <2> QED BY <1>6, <2>5, <2>7, <2>8, RowsKept DEF Queued, Inv
<1> QED BY <1>7, <1>8 DEF Actor

LEMMA HandingTyped ==
  ASSUME NEW b \in Book, NEW release
  PROVE  IsTask(Handing(b, release)) /\ Handing(b, release).at = "fetch"
<1>1. Idle \in [at : {"idle", "search", "fetch", "taken"}, todo : SUBSET Book,
               of : DOMAIN Settings, offered : {<<>>},
               release : {<<>>, release}, nzo : 0 .. MaxJobs]
  BY IdleTyped DEF IsTask, Idle
<1>2. /\ Handing(b, release) \in
           [at : {"idle", "search", "fetch", "taken"}, todo : SUBSET Book,
            of : DOMAIN Settings, offered : {<<>>},
            release : {release}, nzo : 0 .. MaxJobs]
      /\ Handing(b, release).at = "fetch" /\ Handing(b, release).todo = {b}
  BY <1>1 DEF Handing
<1> HIDE DEF Handing
<1> QED BY <1>2 DEF IsTask

\* A book changes, and stays one.
LEMMA BooksChanged ==
  ASSUME Inv, Remembers, NEW b \in Book,
         UNCHANGED <<settings, rows, jobs, task>>,
         \/ books' = [books EXCEPT ![b].monitored = ~@]
         \/ books' = [books EXCEPT ![b] = Gone]
         \/ \E files : books' = [books EXCEPT ![b].files = files]
  PROVE  Inv'
<1>1. /\ IsBook([books[b] EXCEPT !.monitored = ~@]) /\ IsBook(Gone)
      /\ \A files : IsBook([books[b] EXCEPT !.files = files])
  BY DEF Inv, Typed, IsBook, Gone
<1>2. books' = [c \in Book |-> books'[c]] /\ \A c \in Book : IsBook(books'[c])
  <2>1. CASE \E files : books' = [books EXCEPT ![b].files = files]
    <3>1. PICK files : books' = [books EXCEPT ![b].files = files]
      BY <2>1
    <3> DEFINE e == [books[b] EXCEPT !.files = files]
    <3>2. books' = [books EXCEPT ![b] = e] /\ IsBook(e)
      BY <1>1, <3>1 DEF Inv, Typed
    <3> HIDE DEF e
    <3> QED BY <3>2 DEF Inv, Typed
  <2> QED BY <1>1, <2>1 DEF Inv, Typed
<1>3. Typed'
  BY <1>2 DEF Inv, Typed, IsSequence, IsJob, IsTask
<1>4. JobsKept
  BY DEF JobsKept
<1> QED BY <1>3, <1>4, TickKept

\* Jobs come from the two clients only.
LEMMA OnlyQueuedTakes ==
  ASSUME Inv, Next, Takes("tick")
  PROVE  Queued("tick")
<1>1. \A j \in DOMAIN jobs : \A e :
        Len([jobs EXCEPT ![j] = e]) = Len(jobs)
  BY Moved DEF Inv, Typed
<1>2. Len(jobs') # Len(jobs) /\ jobs' # jobs
  BY DEF Takes, Inv, Typed, IsSequence
<1>3. ~Queued("user")
  <2>1. SUFFICES ASSUME Queued("user") PROVE FALSE
    OBVIOUS
  <2>2. jobs'[Len(jobs')].by = "user"
    BY <2>1, Appended DEF Queued, Inv, Typed
  <2> QED BY <2>2 DEF Takes
<1>4. \A j \in DOMAIN jobs : \A to :
        jobs' # [jobs EXCEPT ![j].state = to]
  BY <1>1, <1>2
<1> QED BY <1>2, <1>3, <1>4
    DEF Next, WantedNext, Actor, TickStarts, TickSearched,
        TickErrs, RecordFails, add_nzb, add_url, GrabFailed, GrabAnswered,
        UserFails, _call, UserDone, search_cutoff_upgrade, grab_release,
        set_monitored, delete_book, DownloadEnds, activity_queue_remove,
        activity_history_remove, activity_history_retry, JobMoves, _import_one,
        convertarr_webhook, apply_preview, put_settings, Crash

\* A job changes its state.
LEMMA JobMoved ==
  ASSUME Inv, Remembers, UNCHANGED <<settings, rows, task>>,
         NEW j \in DOMAIN jobs, NEW to \in JobStates,
         jobs' = [jobs EXCEPT ![j].state = to],
         books' = [b \in Book |-> books'[b]],
         \A b \in Book : IsBook(books'[b])
  PROVE  Inv'
<1> DEFINE e == [jobs[j] EXCEPT !.state = to]
<1>1. IsSequence(jobs) /\ IsJob(jobs[j])
  BY DEF Inv, Typed
<1>2. IsJob(e) /\ e.book = jobs[j].book /\ e.by = jobs[j].by
  BY <1>1 DEF IsJob
<1>3. jobs' = [jobs EXCEPT ![j] = e]
  BY <1>1
<1> HIDE DEF e
<1>4. /\ IsSequence(jobs') /\ Len(jobs') = Len(jobs)
      /\ DOMAIN jobs' = DOMAIN jobs
      /\ \A k \in DOMAIN jobs : jobs'[k] = IF k = j THEN e ELSE jobs[k]
  <2>1. /\ IsSequence([jobs EXCEPT ![j] = e])
        /\ Len([jobs EXCEPT ![j] = e]) = Len(jobs)
        /\ DOMAIN [jobs EXCEPT ![j] = e] = DOMAIN jobs
        /\ \A k \in DOMAIN jobs :
             [jobs EXCEPT ![j] = e][k] = IF k = j THEN e ELSE jobs[k]
    BY <1>1, Moved, Zenon
  <2> QED BY <1>3, <2>1, Zenon
<1>5. /\ \A k \in DOMAIN jobs' : IsJob(jobs'[k])
      /\ Len(jobs') <= MaxJobs
  BY <1>2, <1>4 DEF Inv, Typed
<1>6. JobsKept
  BY <1>2, <1>4 DEF JobsKept
<1>7. Typed'
  BY <1>4, <1>5 DEF Inv, Typed
<1> QED BY <1>6, <1>7, TickKept

(***************************************************************************)
(* The invariant.                                                          *)
(***************************************************************************)
LEMMA InitInv == Init => Inv
<1> SUFFICES ASSUME Init PROVE Inv
  OBVIOUS
<1>1. NoRow \in Row
  BY BoundAssumption DEF NoRow, Row
<1>2. IsSequence(jobs) /\ Len(jobs) = 0 /\ DOMAIN jobs = {}
  BY DEF Init, WantedInit, IsSequence
<1>3. \A b \in Book : IsBook(books[b])
  BY DEF Init, WantedInit, IsBook
<1>4. Typed
  BY <1>1, <1>2, <1>3, IdleTyped, SettingsAssumption, BoundAssumption
  DEF Init, WantedInit, Typed, Actor
<1>5. task["tick"] = Idle
  BY DEF Init, WantedInit, Actor
<1>6. Working /\ Taken
  BY <1>5, IdleTyped DEF Working, Taken
<1>7. GrabbedIsTaken /\ ToldHeld
  BY DEF Init, WantedInit, NoRow, GrabbedIsTaken, ToldHeld
<1> QED BY <1>4, <1>6, <1>7 DEF Inv

\* A tick begins: the rows of books that are off the list are dropped, and
\* with them what was told of these books.
LEMMA TickStartsKeeps == Inv /\ TickStarts /\ Remembers => Inv'
<1> SUFFICES ASSUME Inv, TickStarts, Remembers PROVE Inv'
  OBVIOUS
<1> DEFINE listed == list_cutoff_candidates(settings)
           next == Advanced(listed, settings, rows')
<1>1. rows' = [b \in Book |-> IF b \in listed THEN rows[b] ELSE NoRow]
  BY DEF TickStarts, Pruned
<1>2. NoRow \in Row /\ NoRow.status = "none" /\ NoRow.nzo = 0
  BY BoundAssumption DEF NoRow, Row
<1>3. rows' \in [Book -> Row]
  BY <1>1, <1>2 DEF Inv, Typed
<1>4. listed \in SUBSET Book /\ settings \in DOMAIN Settings
  BY DEF list_cutoff_candidates, Inv, Typed
<1>5. /\ IsTask(next) /\ next.at \in {"idle", "search"}
      /\ next.todo # {} => rows'[Min(next.todo)].status # "grabbed"
  BY <1>4, AdvancedTyped
<1>6. task' = [task EXCEPT !["tick"] = next]
  BY DEF TickStarts
<1>7. ToldHeld'
  <2>1. Written \subseteq {}
    BY <1>1, <1>2 DEF Written
  <2>2. told' \subseteq told
    BY <2>1, ToldGrows
  <2>3. \A j \in told : j \in DOMAIN jobs /\ rows[jobs[j].book] = Grabbed(j)
                      /\ jobs[j].book \in Book
    BY DEF Inv, ToldHeld, Typed, IsJob
  <2>4. CASE Began
    <3>1. \A j \in told' : IsCandidate(jobs[j].book, settings)
      BY <2>1, <2>4 DEF Remembers
    <3>2. \A j \in told' : jobs[j].book \in listed
      BY <2>2, <2>3, <3>1 DEF list_cutoff_candidates
    <3> HIDE DEF listed
    <3> QED BY <1>1, <2>2, <2>3, <3>2 DEF ToldHeld, TickStarts
  <2>5. CASE ~Began
    <3>1. rows' = rows
      BY <2>5 DEF Began, TickStarts
    <3> QED BY <2>2, <2>3, <3>1 DEF ToldHeld, TickStarts
  <2> QED BY <2>4, <2>5
<1> HIDE DEF next, listed
<1>8. Typed' /\ task'["tick"] = next
  BY <1>3, <1>5, <1>6, TaskTyped DEF Inv, TickStarts, Actor
<1>9. Working' /\ Taken'
  BY <1>5, <1>8 DEF Working, Taken, InWork, IsTask
<1>10. GrabbedIsTaken'
  BY <1>1, <1>2 DEF Inv, GrabbedIsTaken, TickStarts
<1> QED BY <1>7, <1>8, <1>9, <1>10 DEF Inv

\* A book in work is left without a row of it.
LEMMA TickErrsKeeps == Inv /\ TickErrs /\ Remembers => Inv'
<1> SUFFICES ASSUME Inv, TickErrs, Remembers PROVE Inv'
  OBVIOUS
<1> DEFINE next == Advanced(Rest, task["tick"].of, rows)
<1>1. Rest \in SUBSET Book /\ task["tick"].of \in DOMAIN Settings
  BY DEF Inv, Typed, IsTask, Rest, Actor
<1>2. /\ IsTask(next) /\ next.at \in {"idle", "search"}
      /\ next.todo # {} => rows[Min(next.todo)].status # "grabbed"
  BY <1>1, AdvancedTyped
<1>3. task' = [task EXCEPT !["tick"] = next]
  BY DEF TickErrs
<1> HIDE DEF next
<1> QED BY <1>2, <1>3, TickGoesOn DEF TickErrs

LEMMA TickSearchedKeeps == Inv /\ TickSearched /\ Remembers => Inv'
<1> SUFFICES ASSUME Inv, TickSearched, Remembers PROVE Inv'
  OBVIOUS
<1>1. CASE Recorded(NoRelease)
  BY <1>1, RowRecorded, BoundAssumption DEF TickSearched, NoRelease, Row
<1>2. CASE ~Recorded(NoRelease)
  <2>0. PICK offered \in search : \E picked :
          /\ task' = [task EXCEPT !["tick"].at = "fetch",
                                  !["tick"].offered = offered,
                                  !["tick"].release = offered[picked]]
          /\ UNCHANGED rows
    BY <1>2 DEF TickSearched
  <2>1. PICK picked :
          /\ task' = [task EXCEPT !["tick"].at = "fetch",
                                  !["tick"].offered = offered,
                                  !["tick"].release = offered[picked]]
          /\ UNCHANGED rows
    BY <2>0
  <2> DEFINE next == [task["tick"] EXCEPT !.at = "fetch", !.offered = offered,
                                          !.release = offered[picked]]
  <2>2. task' = [task EXCEPT !["tick"] = next]
    BY <2>1 DEF Inv, Typed, Actor
  <2>3. IsTask(task["tick"]) /\ task["tick"].todo # {}
    BY DEF TickSearched, Inv, Typed, IsTask, Actor
  <2>4. IsTask(next) /\ next.todo = task["tick"].todo /\ next.at = "fetch"
    BY <2>3 DEF IsTask
  <2>5. rows[Min(task["tick"].todo)].status # "grabbed"
    BY DEF TickSearched, Inv, Working, InWork
  <2> HIDE DEF next
  <2> QED BY <2>1, <2>2, <2>4, <2>5, TickGoesOn DEF TickSearched
<1> QED BY <1>1, <1>2

LEMMA NextInv == Inv /\ [Next]_vars => Inv'
<1> SUFFICES ASSUME Inv, [Next]_vars PROVE Inv'
  OBVIOUS
<1>1. CASE UNCHANGED vars
  BY <1>1 DEF vars, wantedVars, Inv, Typed, IsSequence, IsBook, IsJob, IsTask,
  Working, Taken, InWork, GrabbedIsTaken, ToldHeld
<1>2. CASE Next
  <2> USE DEF Next
  <2>1. CASE TickStarts
    BY <1>2, <2>1, TickStartsKeeps
  <2>2. CASE TickSearched
    BY <1>2, <2>2, TickSearchedKeeps
  <2>3. CASE TickErrs
    BY <1>2, <2>3, TickErrsKeeps
  <2>4. CASE RecordFails
    BY <1>2, <2>4, TickGoesOn, IdleTyped DEF RecordFails
  <2>5. ASSUME NEW a \in Actor, add_nzb(a) PROVE Inv'
    BY <1>2, <2>5, JobAdded DEF add_nzb
  <2>6. CASE add_url
    BY <1>2, <2>6, JobAdded DEF add_url, Actor
  <2>7. CASE GrabFailed
    BY <1>2, <2>7, RowRecorded, BoundAssumption DEF GrabFailed, NoRelease, Row
  <2>8. CASE GrabAnswered
    <3>1. Grabbed(task["tick"].nzo) \in Row
      BY DEF Inv, Typed, IsTask, Actor, Grabbed, Row
    <3>2. /\ Grabbed(task["tick"].nzo).nzo = task["tick"].nzo
          /\ task["tick"].nzo \in DOMAIN jobs
          /\ jobs[task["tick"].nzo].book = InWork("tick")
          /\ jobs[task["tick"].nzo].by = "tick"
      BY <2>8 DEF GrabAnswered, Inv, Taken, Grabbed
    <3> QED BY <1>2, <2>8, <3>1, <3>2, RowRecorded DEF GrabAnswered
  <2>9. CASE UserFails \/ _call
    BY <1>2, <2>9, UserGoesOn, IdleTyped DEF UserFails, _call, UserDone
  <2>10. ASSUME NEW b \in Book,
                search_cutoff_upgrade(b) \/ grab_release(b)
         PROVE  Inv'
    <3>1. PICK release : task' = [task EXCEPT !["user"] = Handing(b, release)]
      BY <2>10 DEF search_cutoff_upgrade, grab_release
    <3>2. IsTask(Handing(b, release)) /\ Handing(b, release).at = "fetch"
      BY HandingTyped
    <3> QED BY <1>2, <2>10, <3>1, <3>2, UserGoesOn
            DEF search_cutoff_upgrade, grab_release
  <2>11. ASSUME NEW b \in Book, set_monitored(b) \/ delete_book(b) PROVE Inv'
    BY <1>2, <2>11, BooksChanged DEF set_monitored, delete_book
  <2>12. CASE DownloadEnds \/ activity_queue_remove \/ activity_history_remove
              \/ activity_history_retry \/ _import_one
    <3>1. PICK j \in DOMAIN jobs, to \in JobStates :
            jobs' = [jobs EXCEPT ![j].state = to]
      BY <2>12 DEF DownloadEnds, activity_queue_remove, JobMoves, JobStates,
         activity_history_remove, activity_history_retry, _import_one
    <3>2. UNCHANGED <<settings, books, rows, task>>
      BY <2>12 DEF DownloadEnds, activity_queue_remove, JobMoves,
         activity_history_remove, activity_history_retry, _import_one
    <3> QED BY <1>2, <3>1, <3>2, JobMoved DEF Inv, Typed
  <2>13. ASSUME NEW b \in Book, convertarr_webhook(b) \/ apply_preview(b)
         PROVE  Inv'
    <3>1. UNCHANGED <<settings, rows, jobs, task>>
      BY <2>13 DEF convertarr_webhook, apply_preview
    <3>2. \E files : books' = [books EXCEPT ![b].files = files]
      BY <2>13 DEF convertarr_webhook, apply_preview
    <3> QED BY <1>2, <3>1, <3>2, BooksChanged
  <2>14. CASE put_settings
    <3>1. JobsKept /\ Typed'
      BY <2>14 DEF put_settings, JobsKept, Inv, Typed, IsSequence, IsBook,
         IsJob, IsTask
    <3> QED BY <1>2, <2>14, <3>1, TickKept DEF put_settings
  <2>15. CASE Crash
    <3>1. /\ task' = [a \in Actor |-> Idle]
          /\ UNCHANGED <<settings, books, rows, jobs>>
      BY <2>15 DEF Crash
    <3>2. Typed'
      BY <3>1, IdleTyped DEF Inv, Typed, Actor
    <3>3. Working' /\ Taken' /\ JobsKept
      BY <3>1, IdleTyped DEF Working, Taken, Actor, JobsKept
    <3> QED BY <1>2, <3>1, <3>2, <3>3, RowsKept DEF Inv
  <2> QED BY <1>2, <2>1, <2>2, <2>3, <2>4, <2>5, <2>6, <2>7, <2>8, <2>9, <2>10,
          <2>11, <2>12, <2>13, <2>14, <2>15 DEF WantedNext
<1> QED BY <1>1, <1>2

LEMMA InvAlways == Spec => []Inv
BY InitInv, NextInv, PTL DEF Spec

(***************************************************************************)
(* The theorems.                                                           *)
(***************************************************************************)
(* Every variable of WantedSearch keeps its type.                          *)
THEOREM TypeCorrect == Spec => []TypeOK
<1>1. Inv => TypeOK
  BY DEF Inv, Typed, IsBook, IsJob, IsTask, Row, TypeOK
<1> QED BY <1>1, InvAlways, PTL

(* A book is held back only for a release that the download client took    *)
(* from the scheduler for this book, whatever is lost or fails.            *)
THEOREM GrabbedAlwaysTaken == Spec => []GrabbedIsTaken
<1>1. Inv => GrabbedIsTaken
  BY DEF Inv
<1> QED BY <1>1, InvAlways, PTL

(* The scheduler does not hand over a second release for a book while it   *)
(* knows of a first one, but for the cases the property names.             *)
THEOREM NeverRepeated == Spec => InFlightNotRepeated
<1>1. Inv /\ [Next]_vars
        => [Takes("tick") =>
              \A j \in DOMAIN jobs :
                \/ jobs[j].book # jobs'[Len(jobs')].book
                \/ jobs[j].state \notin {"queued", "completed"}
                \/ jobs[j].by = "user"
                \/ j \notin told]_vars
  <2> SUFFICES ASSUME Inv, Next, Takes("tick"),
                      NEW j \in DOMAIN jobs, j \in told
               PROVE  jobs[j].book # jobs'[Len(jobs')].book
    BY DEF Takes, vars, wantedVars
  <2>1. Queued("tick")
    BY OnlyQueuedTakes
  <2>2. jobs'[Len(jobs')].book = InWork("tick")
    BY <2>1, Appended DEF Queued, Inv, Typed
  <2>3. rows[InWork("tick")].status # "grabbed"
    BY <2>1 DEF Queued, Inv, Working
  <2>4. rows[jobs[j].book] = Grabbed(j)
    BY DEF Inv, ToldHeld
  <2> QED BY <2>2, <2>3, <2>4 DEF Grabbed
<1> QED BY <1>1, InvAlways, PTL DEF Spec, InFlightNotRepeated

(***************************************************************************)
(* What a profile says of a name.                                          *)
(***************************************************************************)
\* A document that holds a profile.
WithProfiles == {d \in DOMAIN Settings : Settings[d].profiles # <<>>}

LEMMA ProfileTyped ==
  ASSUME NEW d \in WithProfiles, NEW b \in Book
  PROVE  LET profile == resolve_quality_profile(b, Settings[d])
         IN  profile.quality_ids \in Seq(STRING) /\ CutoffTier(profile) \in Nat
<1> DEFINE profiles == Settings[d].profiles
           profile == resolve_quality_profile(b, Settings[d])
           named == {i \in DOMAIN profiles : profiles[i].name = ProfileOf[b]}
<1>1. profiles \in Seq({profiles[i] : i \in DOMAIN profiles})
      /\ \A i \in DOMAIN profiles : profiles[i].quality_ids \in Seq(STRING)
  BY DocumentsAssumption DEF WithProfiles
<1>2. 1 \in DOMAIN profiles /\ DOMAIN profiles \in SUBSET Nat
  BY <1>1 DEF WithProfiles
<1>3. (IF named = {} THEN 1 ELSE Min(named)) \in DOMAIN profiles
  <2>1. named \in SUBSET Nat /\ named \subseteq DOMAIN profiles
    BY <1>2
  <2> QED BY <1>2, <2>1, Least
<1>4. profile.quality_ids \in Seq(STRING)
  BY <1>1, <1>3 DEF resolve_quality_profile
<1> HIDE DEF profile
<1>5. CutoffTier(profile) \in Nat
  <2> DEFINE cut == {i \in DOMAIN profile.quality_ids :
                       profile.quality_ids[i] = profile.cutoff_quality_id}
  <2>1. cut \in SUBSET Nat /\ Len(profile.quality_ids) \in Nat
    BY <1>4
  <2>2. cut # {} => Min(cut) \in Nat
    BY <2>1, Least
  <2> QED BY <2>1, <2>2 DEF CutoffTier
<1> QED BY <1>4, <1>5 DEF profile

\* The verdict on a name is the first of the tiers it meets.
LEMMA FirstTierCounts ==
  ASSUME NEW name, NEW profile, NEW definitions,
         profile.quality_ids \in Seq(STRING),
         \A q \in DOMAIN definitions : definitions[q].container # NoSignal
  PROVE  LET fit == FitOf(name, profile, definitions)
             tiers == FittingTiers(infer_quality_from_name(name), profile,
                                   definitions)
         IN  /\ tiers \subseteq 1 .. Len(profile.quality_ids)
             /\ tiers = {} => fit.tier = 0
             /\ tiers # {} => /\ fit.tier \in tiers
                              /\ \A t \in tiers : fit.tier <= t
                              /\ fit.status = TierStatus(fit.tier, profile)
<1> DEFINE inferred == infer_quality_from_name(name)
           fit == FitOf(name, profile, definitions)
           tiers == FittingTiers(inferred, profile, definitions)
<1>1. tiers \subseteq 1 .. Len(profile.quality_ids) /\ tiers \in SUBSET Nat
  <2>1. tiers \subseteq DOMAIN profile.quality_ids
    BY DEF FittingTiers
  <2>2. DOMAIN profile.quality_ids = 1 .. Len(profile.quality_ids)
        /\ Len(profile.quality_ids) \in Nat
    OBVIOUS
  <2> QED BY <2>1, <2>2
<1>2. tiers # {} => inferred.container # NoSignal
  BY DEF FittingTiers, DefinitionFits
<1>3. fit = CASE inferred.container = NoSignal ->
                   [tier |-> 0, status |-> "unknown"]
              [] inferred.container # NoSignal /\ tiers # {} ->
                   [tier |-> Min(tiers),
                    status |-> TierStatus(Min(tiers), profile)]
              [] OTHER ->
                   [tier |-> 0,
                    status |-> IF inferred.container \in profile.allowed_formats
                               THEN "accepted" ELSE "rejected"]
  BY DEF FitOf, evaluate_quality_for_profile
<1> HIDE DEF inferred, tiers, fit
<1>4. tiers = {} => fit.tier = 0
  BY <1>3
<1>5. tiers # {} => fit = [tier |-> Min(tiers),
                           status |-> TierStatus(Min(tiers), profile)]
  BY <1>2, <1>3
<1>6. tiers # {} => Min(tiers) \in tiers /\ \A t \in tiers : Min(tiers) <= t
  BY <1>1, Least
<1> QED BY <1>1, <1>4, <1>5, <1>6 DEF inferred, tiers, fit

LEMMA Judged ==
  ASSUME NEW d \in WithProfiles, NEW b \in Book, NEW n \in DOMAIN Signals
  PROVE  LET tier == Verdict[d][b][n].tier
             profile == resolve_quality_profile(b, Settings[d])
             tiers == Meets(n, b, Settings[d])
         IN  /\ tiers \subseteq 1 .. Len(profile.quality_ids)
             /\ tiers = {} => tier = 0
             /\ tiers # {} => tier \in tiers /\ \A t \in tiers : tier <= t
             /\ \A t \in tiers : t <= CutoffTier(profile) =>
                  Verdict[d][b][n].status \in {"preferred", "accepted"}
<1> DEFINE profile == resolve_quality_profile(b, Settings[d])
           tiers == Meets(n, b, Settings[d])
           fit == FitOf(Signals[n], profile, Settings[d].definitions)
<1>1. Verdict[d][b][n] = fit
  BY DEF Verdict, WithProfiles
<1>2. profile.quality_ids \in Seq(STRING) /\ CutoffTier(profile) \in Nat
  BY ProfileTyped
<1>3. \A q \in DOMAIN Settings[d].definitions :
        Settings[d].definitions[q].container # NoSignal
  BY DocumentsAssumption DEF WithProfiles
<1> HIDE DEF profile
<1>4. /\ tiers \subseteq 1 .. Len(profile.quality_ids)
      /\ tiers = {} => fit.tier = 0
      /\ tiers # {} => /\ fit.tier \in tiers /\ \A t \in tiers : fit.tier <= t
                       /\ fit.status = TierStatus(fit.tier, profile)
  BY <1>2, <1>3, FirstTierCounts DEF Meets, profile
<1> HIDE DEF tiers, fit
<1>5. ASSUME NEW t \in tiers, t <= CutoffTier(profile)
      PROVE  fit.status \in {"preferred", "accepted"}
  <2>1. fit.tier <= CutoffTier(profile)
    <3>1. \A k \in 1 .. Len(profile.quality_ids) : k \in Nat
      OBVIOUS
    <3>2. fit.tier \in tiers /\ fit.tier <= t
      BY <1>4, Zenon
    <3>3. fit.tier \in Nat /\ t \in Nat
      BY <1>4, <3>1, <3>2, Zenon
    <3> QED BY <1>2, <1>5, <3>2, <3>3
  <2>2. fit.status = TierStatus(fit.tier, profile)
    BY <1>4, <1>5
  <2>3. \A k : k <= CutoffTier(profile)
                 => TierStatus(k, profile) \in {"preferred", "accepted"}
    BY Zenon DEF TierStatus
  <2> QED BY <2>1, <2>2, <2>3, Zenon
<1> QED BY <1>1, <1>4, <1>5 DEF profile, tiers

\* The sum of the scores of the terms S of p, with no operator for argument.
SumOf(p, S) ==
  LET iter[s \in SUBSET S] ==
        IF s = {} THEN 0
        ELSE LET x == CHOOSE x \in s : TRUE
             IN  p[x].score + iter[s \ {x}]
  IN  iter[S]

\* A sum of whole numbers is a whole number: the sums of the subsets of up
\* to k elements exist and are whole, for every k, since no k is the least
\* one without.
LEMMA SumIsWhole ==
  ASSUME NEW S, IsFiniteSet(S), NEW p, \A i \in S : p[i].score \in Int
  PROVE  SumOf(p, S) \in Int
<1> DEFINE Pick(s) == CHOOSE x \in s : TRUE
           Sum(g, s) == IF s = {} THEN 0
                        ELSE p[Pick(s)].score + g[s \ {Pick(s)}]
           Sums(g) == g = [s \in SUBSET S |-> Sum(g, s)]
           iter == CHOOSE g : Sums(g)
           Small(k) == {s \in SUBSET S : Cardinality(s) <= k}
           SumsUpTo(g, k) == /\ g = [s \in Small(k) |-> g[s]]
                             /\ \A s \in Small(k) :
                                  g[s] \in Int /\ g[s] = Sum(g, s)
<1>1. SumOf(p, S) = iter[S]
  BY Zenon DEF SumOf
<1>2. \A s \in SUBSET S :
        /\ Cardinality(s) \in Nat /\ (Cardinality(s) = 0 <=> s = {})
        /\ s # {} => /\ p[Pick(s)].score \in Int
                     /\ s \ {Pick(s)} \in SUBSET S
                     /\ Cardinality(s \ {Pick(s)}) = Cardinality(s) - 1
  <2> SUFFICES ASSUME NEW s \in SUBSET S
               PROVE  /\ Cardinality(s) \in Nat
                      /\ (Cardinality(s) = 0 <=> s = {})
                      /\ s # {} => /\ p[Pick(s)].score \in Int
                                   /\ s \ {Pick(s)} \in SUBSET S
                                   /\ Cardinality(s \ {Pick(s)})
                                        = Cardinality(s) - 1
    OBVIOUS
  <2>1. IsFiniteSet(s)
    BY FS_Subset
  <2>2. s # {} => Pick(s) \in s
    OBVIOUS
  <2> HIDE DEF Pick
  <2> QED BY <2>1, <2>2, FS_RemoveElement, FS_CardinalityType, FS_EmptySet
<1> HIDE DEF Pick
<1>a. \A s \in SUBSET S : Cardinality(s) \in Nat
                          /\ (Cardinality(s) = 0 <=> s = {})
  BY <1>2, Zenon
<1>3. \A k \in Nat : \E g : SumsUpTo(g, k)
  <2> DEFINE Without == {k \in Nat : ~\E g : SumsUpTo(g, k)}
  <2>1. SUFFICES ASSUME Without # {} PROVE FALSE
    OBVIOUS
  <2>2. PICK m \in Without : \A k \in Without : m <= k
    <3>1. Without \in SUBSET Nat
      OBVIOUS
    <3> HIDE DEF Without
    <3> QED BY <2>1, <3>1, Least
  <2>3. m \in Nat /\ ~\E g : SumsUpTo(g, m)
    OBVIOUS
  <2>4. CASE m = 0
    <3> DEFINE g == [s \in Small(0) |-> 0]
    <3>1. \A s \in Small(0) : s = {}
      BY <1>a
    <3>2. SumsUpTo(g, 0)
      BY <3>1
    <3> HIDE DEF g, SumsUpTo
    <3> QED BY <2>3, <2>4, <3>2
  <2>5. CASE m # 0
    <3>1. m - 1 \in Nat /\ m - 1 \notin Without
      <4> HIDE DEF Without
      <4> QED BY <2>2, <2>3, <2>5
    <3>2. PICK g : SumsUpTo(g, m - 1)
      <4> HIDE DEF SumsUpTo
      <4> QED BY <3>1
    <3> DEFINE h == [s \in Small(m) |->
                       IF s \in Small(m - 1) THEN g[s] ELSE Sum(g, s)]
    <3>3. \A s \in Small(m) : s # {} => s \ {Pick(s)} \in Small(m - 1)
      BY <1>2, <2>3
    <3>4. Small(m - 1) \subseteq Small(m)
      BY <1>a, <2>3
    <3>5. \A s \in Small(m) : h[s] \in Int /\ h[s] = Sum(g, s)
      <4> SUFFICES ASSUME NEW s \in Small(m)
                   PROVE  h[s] \in Int /\ h[s] = Sum(g, s)
        OBVIOUS
      <4>1. CASE s \in Small(m - 1)
        BY <3>2, <4>1
      <4>2. CASE s \notin Small(m - 1)
        <5>1. h[s] = Sum(g, s)
          BY <4>2
        <5>2. s # {} => g[s \ {Pick(s)}] \in Int /\ p[Pick(s)].score \in Int
          BY <1>2, <3>2, <3>3
        <5> QED BY <5>1, <5>2
      <4> QED BY <4>1, <4>2
    <3>6. \A s \in Small(m) : Sum(h, s) = Sum(g, s)
      <4>1. \A s \in Small(m) :
              s # {} => h[s \ {Pick(s)}] = g[s \ {Pick(s)}]
        BY <3>3, <3>4
      <4> HIDE DEF h
      <4> QED BY <4>1
    <3>7. SumsUpTo(h, m)
      <4>1. h = [s \in Small(m) |-> h[s]]
        OBVIOUS
      <4> HIDE DEF h, Sum, Small
      <4> QED BY <3>5, <3>6, <4>1
    <3> HIDE DEF h, SumsUpTo
    <3> QED BY <2>3, <3>7
  <2> QED BY <2>4, <2>5
<1>4. Sums(iter)
  <2>1. Cardinality(S) \in Nat /\ Small(Cardinality(S)) = SUBSET S
    BY FS_CardinalityType, FS_Subset
  <2>2. PICK g : SumsUpTo(g, Cardinality(S))
    <3> HIDE DEF SumsUpTo
    <3> QED BY <1>3, <2>1
  <2>3. Sums(g)
    <3> HIDE DEF Small, Sum
    <3> QED BY <2>1, <2>2
  <2> HIDE DEF Sums
  <2> QED BY <2>3
<1>5. \A s \in SUBSET S : iter[s] \in Int
  <2>1. \A s \in SUBSET S : iter[s] = Sum(iter, s)
    <3> HIDE DEF iter, Sum
    <3> QED BY <1>4
  <2> HIDE DEF iter
  <2> DEFINE Other == {Cardinality(s) :
                         s \in {s \in SUBSET S : iter[s] \notin Int}}
  <2>2. SUFFICES ASSUME Other # {} PROVE FALSE
    OBVIOUS
  <2>3. PICK m \in Other : \A k \in Other : m <= k
    <3>1. Other \in SUBSET Nat
      BY <1>2
    <3> HIDE DEF Other
    <3> QED BY <2>2, <3>1, Least
  <2>4. PICK s \in SUBSET S : iter[s] \notin Int /\ Cardinality(s) = m
    OBVIOUS
  <2>5. s # {}
    <3>1. iter[{}] = Sum(iter, {}) /\ Sum(iter, {}) = 0
      BY <2>1
    <3> QED BY <2>4, <3>1
  <2>6. iter[s \ {Pick(s)}] \in Int
    <3>1. /\ s \ {Pick(s)} \in SUBSET S /\ Cardinality(s) \in Nat
          /\ Cardinality(s \ {Pick(s)}) = Cardinality(s) - 1
      BY <1>2, <2>5
    <3>2. Cardinality(s \ {Pick(s)}) \notin Other
      <4> HIDE DEF Other
      <4> QED BY <2>3, <2>4, <3>1
    <3> QED BY <3>1, <3>2
  <2> QED BY <1>2, <2>1, <2>4, <2>5, <2>6
<1> HIDE DEF iter
<1> QED BY <1>1, <1>5

LEMMA ScoresAreWhole ==
  ASSUME NEW d \in DOMAIN Settings, NEW n \in DOMAIN Signals
  PROVE  Scores[d][n].score \in Int
<1> DEFINE p == Settings[d].preferences.preferred
           S == Matching(p, Signals[n])
           sum == MapThenSumSet(LAMBDA i : p[i].score, S)
<1>1. Len(p) \in Nat /\ DOMAIN p = 1 .. Len(p)
      /\ \A i \in DOMAIN p : p[i].score \in Int
  <2> DEFINE R == [term : STRING, score : Int, enabled : BOOLEAN]
  <2>1. p \in Seq(R)
    BY DocumentsAssumption, Zenon
  <2>2. \A r \in R : r.score \in Int
    OBVIOUS
  <2> HIDE DEF R, p
  <2> QED BY <2>1, <2>2
<1> HIDE DEF p
<1>2. IsFiniteSet(S) /\ S \subseteq DOMAIN p
  <2>1. S \subseteq 1 .. Len(p)
    BY <1>1 DEF Matching
  <2>2. \A k \in Nat : IsFiniteSet(1 .. k)
    BY FS_Interval
  <2> QED BY <1>1, <2>1, <2>2, FS_Subset
<1>3. sum \in Int
  <2>1. \A i \in S : p[i].score \in Int
    BY <1>1, <1>2
  <2>2. sum = SumOf(p, S)
    BY Zenon DEF MapThenSumSet, MapThenFoldSet, SumOf
  <2> HIDE DEF S, sum
  <2> QED BY <1>2, <2>1, <2>2, SumIsWhole
<1>4. Scores[d][n] =
        CASE Matching(Settings[d].preferences.blocked, Signals[n]) # {} ->
               [score |-> 0, status |-> "rejected"]
          [] OTHER ->
               [score |-> sum,
                status |-> IF sum < Settings[d].preferences.minimum
                           THEN "rejected" ELSE "accepted"]
  BY DEF Scores, score_release, p
<1> HIDE DEF sum
<1> QED BY <1>3, <1>4

(***************************************************************************)
(* The order of releases.                                                  *)
(***************************************************************************)
SortKeys == Int \X Int \X Int

LEMMA PrecedesIsAnOrder ==
  ASSUME NEW s \in SortKeys, NEW t \in SortKeys, NEW u \in SortKeys
  PROVE  /\ ~Precedes(s, s)
         /\ Precedes(s, t) /\ Precedes(t, u) => Precedes(s, u)
         /\ Precedes(s, t) /\ ~Precedes(u, t) => Precedes(s, u)
<1>1. /\ s[1] \in Int /\ s[2] \in Int /\ s[3] \in Int
      /\ t[1] \in Int /\ t[2] \in Int /\ t[3] \in Int
      /\ u[1] \in Int /\ u[2] \in Int /\ u[3] \in Int
  BY DEF SortKeys
<1>2. ~Precedes(s, s)
  BY <1>1 DEF Precedes
<1>3. Precedes(s, t) /\ Precedes(t, u) => Precedes(s, u)
  BY <1>1 DEF Precedes
<1>4. Precedes(s, t) /\ ~Precedes(u, t) => Precedes(s, u)
  BY <1>1 DEF Precedes
<1> QED BY <1>2, <1>3, <1>4

\* Some position comes first in the sort: up to each position, the first
\* of those before it or that position.
LEMMA SomeComesFirst ==
  ASSUME NEW n \in Nat, NEW Key \in [1 .. n -> SortKeys],
         NEW F \in SUBSET (1 .. n), F # {}
  PROVE  \E i \in F : \A j \in F :
           \/ Precedes(Key[i], Key[j])
           \/ ~Precedes(Key[j], Key[i]) /\ i <= j
<1> DEFINE UpTo(m) == F \cap 1 .. m
           First(i, j) == \/ Precedes(Key[i], Key[j])
                          \/ ~Precedes(Key[j], Key[i]) /\ i <= j
           Without == {m \in 1 .. n : /\ UpTo(m) # {}
                                      /\ ~\E i \in UpTo(m) :
                                            \A j \in UpTo(m) : First(i, j)}
<1>1. Without = {}
  <2>1. SUFFICES ASSUME Without # {} PROVE FALSE
    OBVIOUS
  <2>2. PICK m \in Without : \A k \in Without : m <= k
    <3>1. Without \in SUBSET Nat
      OBVIOUS
    <3> HIDE DEF Without
    <3> QED BY <2>1, <3>1, Least
  <2>3. m \in 1 .. n /\ UpTo(m) # {}
        /\ ~\E i \in UpTo(m) : \A j \in UpTo(m) : First(i, j)
    OBVIOUS
  <2>4. \A j \in UpTo(m) : j = m \/ j \in UpTo(m - 1)
    BY <2>3
  <2>5. UpTo(m - 1) \subseteq UpTo(m)
    BY <2>3
  <2>6. \A i \in F : Key[i] \in SortKeys
    OBVIOUS
  <2>7. CASE UpTo(m - 1) = {}
    <3>1. m \in UpTo(m) /\ \A j \in UpTo(m) : j = m
      BY <2>3, <2>4, <2>7
    <3>2. First(m, m)
      BY <2>6, <3>1, PrecedesIsAnOrder
    <3> HIDE DEF UpTo, First
    <3> QED BY <2>3, <3>1, <3>2
  <2>8. CASE UpTo(m - 1) # {}
    <3>1. m - 1 \in 1 .. n
      BY <2>3, <2>8
    <3>2. m - 1 \notin Without
      <4> HIDE DEF Without
      <4> QED BY <2>2, <2>3
    <3>3. \E p \in UpTo(m - 1) : \A j \in UpTo(m - 1) : First(p, j)
      BY <2>8, <3>1, <3>2
    <3>4. PICK p \in UpTo(m - 1) : \A j \in UpTo(m - 1) : First(p, j)
      BY <3>3
    <3>5. p \in F /\ p \in UpTo(m) /\ p <= m
      BY <2>3, <2>5
    <3>6. CASE m \in F /\ Precedes(Key[m], Key[p])
      <4>1. \A j \in UpTo(m - 1) : Precedes(Key[m], Key[j])
        BY <2>6, <3>4, <3>5, <3>6, PrecedesIsAnOrder
      <4>2. First(m, m) /\ m \in UpTo(m)
        BY <2>3, <2>6, <3>6, PrecedesIsAnOrder
      <4>3. \A j \in UpTo(m) : First(m, j)
        BY <2>4, <4>1, <4>2
      <4> HIDE DEF UpTo, First
      <4> QED BY <2>3, <4>2, <4>3
    <3>7. CASE ~(m \in F /\ Precedes(Key[m], Key[p]))
      <4>1. \A j \in UpTo(m) : First(p, j)
        <5> SUFFICES ASSUME NEW j \in UpTo(m) PROVE First(p, j)
          OBVIOUS
        <5>1. CASE j = m
          BY <3>5, <3>7, <5>1
        <5>2. CASE j \in UpTo(m - 1)
          BY <3>4, <5>2
        <5> QED BY <2>4, <5>1, <5>2
      <4> HIDE DEF UpTo, First
      <4> QED BY <2>3, <3>5, <4>1
    <3> QED BY <3>6, <3>7
  <2> QED BY <2>7, <2>8
<1>2. UpTo(n) = F /\ n \in 1 .. n
  <2>1. UpTo(n) = F
    OBVIOUS
  <2>2. PICK i \in F : TRUE
    OBVIOUS
  <2>3. i \in 1 .. n
    OBVIOUS
  <2> QED BY <2>1, <2>3
<1>3. n \notin Without
  BY <1>1
<1>4. \E i \in UpTo(n) : \A j \in UpTo(n) : First(i, j)
  BY <1>2, <1>3
<1> QED BY <1>2, <1>4

LEMMA OfferedTyped ==
  ASSUME NEW offered \in search
  PROVE  /\ Len(offered) \in Nat /\ DOMAIN offered = 1 .. Len(offered)
         /\ \A i \in DOMAIN offered : /\ offered[i].name \in DOMAIN Signals
                                      /\ offered[i].seeders \in Int
<1> DEFINE R == [name : DOMAIN Signals, protocol : STRING, link : STRING,
                 seeders : Int]
<1>1. offered \in Seq(R)
  <2>1. CASE offered = <<>>
    <3> HIDE DEF R
    <3> QED BY <2>1
  <2>2. CASE offered \in Offers
    BY <2>2, NamesAssumption, Zenon
  <2> QED BY <2>1, <2>2 DEF search
<1>2. \A r \in R : r.name \in DOMAIN Signals /\ r.seeders \in Int
  OBVIOUS
<1> HIDE DEF R
<1> QED BY <1>1, <1>2

\* What is picked of an answer could be grabbed, and nothing that could
\* comes before it.
LEMMA BestIsFound ==
  ASSUME NEW offered \in search, NEW b \in Book, NEW d \in WithProfiles
  PROVE  LET p == find_fitting_release(offered, b, d)
             Fits(i) == Acceptable(offered[i], b, d)
         IN  /\ p # 0 => /\ p \in DOMAIN offered /\ Fits(p)
                         /\ offered[p].name \in DOMAIN Signals
                         /\ \A i \in DOMAIN offered : Fits(i) =>
                              ~Precedes(SortKey(offered[i], b, d),
                                        SortKey(offered[p], b, d))
             /\ \A i \in DOMAIN offered :
                  Fits(i) => p # 0
<1> DEFINE n == Len(offered)
           fitting == {i \in DOMAIN offered : Acceptable(offered[i], b, d)}
           Key == [i \in 1 .. n |-> SortKey(offered[i], b, d)]
           p == find_fitting_release(offered, b, d)
           KeyOf(i) == SortKey(offered[i], b, d)
           First(i) == \A j \in fitting :
                         \/ Precedes(KeyOf(i), KeyOf(j))
                         \/ ~Precedes(KeyOf(j), KeyOf(i)) /\ i <= j
<1>1. n \in Nat /\ DOMAIN offered = 1 .. n
      /\ \A i \in 1 .. n : /\ offered[i].name \in DOMAIN Signals
                           /\ offered[i].seeders \in Int
  BY OfferedTyped
<1>2. Key \in [1 .. n -> SortKeys]
  <2> SUFFICES ASSUME NEW i \in 1 .. n
               PROVE  SortKey(offered[i], b, d) \in SortKeys
    OBVIOUS
  <2> DEFINE name == offered[i].name
             tier == Verdict[d][b][name].tier
             last == Len(resolve_quality_profile(b, Settings[d]).quality_ids)
  <2>1. name \in DOMAIN Signals /\ offered[i].seeders \in Int
    BY <1>1
  <2>2. last \in Nat
    BY ProfileTyped
  <2>3. tier = 0 \/ tier \in 1 .. last
    BY <2>1, Judged
  <2>4. Scores[d][name].score \in Int
    BY <2>1, ScoresAreWhole DEF WithProfiles
  <2>5. SortKey(offered[i], b, d)
          = <<IF tier = 0 THEN last + 1 ELSE tier,
              -Scores[d][name].score, -offered[i].seeders>>
    BY DEF SortKey
  <2> HIDE DEF tier, last, name
  <2> QED BY <2>1, <2>2, <2>3, <2>4, <2>5 DEF SortKeys
<1>3. fitting # {} => \E i \in fitting : First(i)
  <2>1. fitting \in SUBSET (1 .. n)
    BY <1>1
  <2>2. \A i \in 1 .. n : Key[i] = KeyOf(i)
    OBVIOUS
  <2> HIDE DEF Key, KeyOf, fitting, n
  <2>3. fitting # {} => \E i \in fitting : \A j \in fitting :
                          \/ Precedes(Key[i], Key[j])
                          \/ ~Precedes(Key[j], Key[i]) /\ i <= j
    BY <1>1, <1>2, <2>1, SomeComesFirst
  <2> QED BY <2>1, <2>2, <2>3
<1>4. p = IF fitting = {} THEN 0 ELSE CHOOSE i \in fitting : First(i)
  BY Zenon DEF find_fitting_release
<1>5. fitting # {} => p \in fitting /\ First(p)
  <2> HIDE DEF fitting, First, p
  <2> QED BY <1>3, <1>4
<1>6. fitting = {} => p = 0
  <2> HIDE DEF fitting
  <2> QED BY <1>4
<1>7. p # 0 => /\ p \in DOMAIN offered /\ Acceptable(offered[p], b, d)
               /\ offered[p].name \in DOMAIN Signals
  <2> HIDE DEF p
  <2> QED BY <1>1, <1>5, <1>6
<1>8. ASSUME p # 0, NEW i \in DOMAIN offered, Acceptable(offered[i], b, d)
      PROVE  ~Precedes(SortKey(offered[i], b, d), SortKey(offered[p], b, d))
  <2> HIDE DEF p
  <2>1. i \in fitting /\ p \in fitting /\ i \in 1 .. n /\ p \in 1 .. n
    BY <1>1, <1>5, <1>8
  <2>2. Precedes(KeyOf(p), KeyOf(i)) \/ ~Precedes(KeyOf(i), KeyOf(p))
    <3> HIDE DEF KeyOf, fitting
    <3> QED BY <1>5, <2>1
  <2>3. KeyOf(i) \in SortKeys /\ KeyOf(p) \in SortKeys
    BY <1>2, <2>1
  <2> HIDE DEF KeyOf
  <2>4. ~Precedes(KeyOf(i), KeyOf(p))
    BY <2>2, <2>3, PrecedesIsAnOrder
  <2> QED BY <2>4 DEF KeyOf
<1>9. ASSUME NEW i \in DOMAIN offered, Acceptable(offered[i], b, d)
      PROVE  p # 0
  <2>1. i \in fitting
    BY <1>9
  <2>2. p \in fitting
    <3> HIDE DEF fitting, p
    <3> QED BY <1>5, <2>1
  <2> QED BY <1>1, <2>2
<1> QED BY <1>7, <1>8, <1>9

(***************************************************************************)
(* What the tick has in its hands.                                         *)
(***************************************************************************)
\* Names of files and releases are names that Signals judges.
Known ==
  /\ \A b \in Book : books[b].files \subseteq DOMAIN Signals
  /\ \A j \in DOMAIN jobs : jobs[j].name \in DOMAIN Signals
  /\ \A a \in Actor :
       task[a].at = "fetch" => task[a].release.name \in DOMAIN Signals

\* A tick at work has a profile to go by, and grabs what it found.
IsPicked(t) ==
  /\ t.at # "idle" => t.of \in WithProfiles
  /\ t.at = "fetch" =>
       LET p == find_fitting_release(t.offered, Min(t.todo), t.of)
       IN  p # 0 /\ t.offered \in search /\ t.release = t.offered[p]

Found == Known /\ IsPicked(task["tick"])

LEMMA AdvancedPicked ==
  ASSUME NEW todo, NEW of, NEW states,
         todo # {} => of \in WithProfiles
  PROVE  /\ IsPicked(Advanced(todo, of, states))
         /\ Advanced(todo, of, states).at # "fetch"
<1> DEFINE open == {b \in todo : states[b].status # "grabbed"}
           left == {b \in todo : b >= Min(open)}
<1>1. Idle.at = "idle"
  BY DEF Idle
<1>2. \A S : Resumed(S, of, "search").at = "search"
             /\ Resumed(S, of, "search").of = of
  BY DEF Resumed, Idle
<1>3. CASE open = {}
  BY <1>1, <1>3 DEF Advanced, IsPicked
<1>4. CASE open # {}
  <2>1. todo # {}
    BY <1>4
  <2>2. Advanced(todo, of, states) = Resumed(left, of, "search")
    BY <1>4 DEF Advanced
  <2> HIDE DEF left, open
  <2> QED BY <1>2, <2>1, <2>2 DEF IsPicked
<1> QED BY <1>3, <1>4

\* A coroutine goes on, and leaves books and jobs alone.
LEMMA TaskFound ==
  ASSUME Typed, Found, NEW a \in Actor, NEW next,
         task' = [task EXCEPT ![a] = next], UNCHANGED <<books, jobs>>,
         next.at = "fetch" => next.release.name \in DOMAIN Signals,
         a = "tick" => IsPicked(next)
  PROVE  Found'
<1>1. task'[a] = next /\ \A c \in Actor \ {a} : task'[c] = task[c]
  BY DEF Typed
<1>2. Known'
  BY <1>1 DEF Found, Known
<1>3. IsPicked(task'["tick"])
  BY <1>1 DEF Found, Actor
<1> QED BY <1>2, <1>3 DEF Found, IsPicked

\* The book in work is done.
LEMMA RecordedFound ==
  ASSUME Inv, Found, task["tick"].at # "idle", NEW states,
         task' = [task EXCEPT !["tick"] =
                    Advanced(Rest, task["tick"].of, states)],
         UNCHANGED <<books, jobs>>
  PROVE  Found'
<1> DEFINE next == Advanced(Rest, task["tick"].of, states)
<1>1. IsPicked(next) /\ next.at # "fetch"
  BY AdvancedPicked DEF Found, IsPicked
<1> HIDE DEF next
<1>2. task' = [task EXCEPT !["tick"] = next]
  BY DEF next
<1> QED BY <1>1, <1>2, TaskFound DEF Inv, Actor

\* A search finds a release for the book in work.
LEMMA SearchedFound ==
  ASSUME Inv, Found, TickSearched
  PROVE  Found'
<1> DEFINE now == task["tick"]
<1>1. CASE Recorded(NoRelease)
  BY <1>1, RecordedFound DEF TickSearched, Recorded
<1>2. CASE ~Recorded(NoRelease)
  <2>1. PICK offered \in search :
          LET picked == find_fitting_release(offered, InWork("tick"), now.of)
          IN  /\ picked # 0
              /\ task' = [task EXCEPT !["tick"].at = "fetch",
                                      !["tick"].offered = offered,
                                      !["tick"].release = offered[picked]]
    BY <1>2 DEF TickSearched
  <2> DEFINE picked == find_fitting_release(offered, InWork("tick"), now.of)
             next == [now EXCEPT !.at = "fetch", !.offered = offered,
                                 !.release = offered[picked]]
  <2>2. task' = [task EXCEPT !["tick"] = next] /\ picked # 0
    BY <2>1 DEF Inv, Typed, Actor
  <2>3. now.of \in WithProfiles /\ InWork("tick") \in Book
    BY InWorkTyped DEF Found, IsPicked, TickSearched, Inv, Actor
  <2>4. offered[picked].name \in DOMAIN Signals
    BY <2>2, <2>3, BestIsFound
  <2> DEFINE release == offered[picked]
  <2>5. IsTask(now)
    BY DEF Inv, Typed, Actor
  <2>6. /\ next.at = "fetch" /\ next.offered = offered
        /\ next.release = release /\ next.todo = now.todo /\ next.of = now.of
    <3> HIDE DEF release, picked
    <3> QED BY <2>5 DEF IsTask, release
  <2> HIDE DEF next, release
  <2>7. IsPicked(next)
    BY <2>2, <2>3, <2>6 DEF IsPicked, InWork, release
  <2>8. next.release.name \in DOMAIN Signals
    BY <2>4, <2>6 DEF release
  <2> QED BY <2>2, <2>7, <2>8, TaskFound DEF TickSearched, Inv, Actor
<1> QED BY <1>1, <1>2

\* The user asks for a release.
LEMMA HandingFound ==
  ASSUME Inv, Found, NEW b \in Book, search_cutoff_upgrade(b) \/ grab_release(b)
  PROVE  Found'
<1>1. PICK release :
        /\ task' = [task EXCEPT !["user"] = Handing(b, release)]
        /\ release.name \in DOMAIN Signals
  <2>1. \A offered \in search : \A i \in DOMAIN offered :
          offered[i].name \in DOMAIN Signals
    BY OfferedTyped
  <2>2. CASE search_cutoff_upgrade(b)
    <3>1. PICK offered \in search :
            LET picked == find_fitting_release(offered, b, settings)
            IN  /\ picked # 0
                /\ task' = [task EXCEPT !["user"] = Handing(b, offered[picked])]
      BY <2>2 DEF search_cutoff_upgrade
    <3>2. settings \in WithProfiles
      BY <2>2 DEF search_cutoff_upgrade, Inv, Typed, WithProfiles
    <3>3. find_fitting_release(offered, b, settings) \in DOMAIN offered
      BY <3>1, <3>2, BestIsFound
    <3> QED BY <2>1, <3>1, <3>3
  <2>3. CASE grab_release(b)
    BY <2>1, <2>3 DEF grab_release, search_releases
  <2> QED BY <2>2, <2>3
<1>2. Handing(b, release).release = release
  BY DEF Handing, Idle
<1>3. UNCHANGED <<books, jobs>>
  BY DEF search_cutoff_upgrade, grab_release
<1> QED BY <1>1, <1>2, <1>3, TaskFound DEF Inv, Actor

\* A release is handed over under the name it was found by.
LEMMA QueuedFound ==
  ASSUME Inv, Found, NEW a \in Actor, Queued(a),
         task' = [task EXCEPT ![a] = task'[a]], task'[a].at # "fetch",
         a = "tick" => task'[a].of = task[a].of
  PROVE  Found'
<1>1. /\ DOMAIN jobs' = 1 .. Len(jobs) + 1 /\ DOMAIN jobs = 1 .. Len(jobs)
      /\ \A j \in DOMAIN jobs : jobs'[j] = jobs[j]
      /\ jobs'[Len(jobs) + 1] =
           [book |-> InWork(a), by |-> a, name |-> task[a].release.name,
            state |-> "queued"]
      /\ Len(jobs) \in Nat
  BY Appended DEF Queued, Inv, Typed, IsSequence
<1>2. task[a].release.name \in DOMAIN Signals
  BY DEF Queued, Found, Known
<1>3. \A c \in Actor \ {a} : task'[c] = task[c]
  BY DEF Inv, Typed
<1>4. \A j \in DOMAIN jobs' : j \in DOMAIN jobs \/ j = Len(jobs) + 1
  BY <1>1
<1>5. Known'
  BY <1>1, <1>2, <1>3, <1>4 DEF Queued, Found, Known
<1>6. IsPicked(task'["tick"])
  BY <1>3 DEF Queued, Found, IsPicked, Actor
<1> QED BY <1>5, <1>6 DEF Found, IsPicked

LEMMA InitFound == Init => Found
<1> SUFFICES ASSUME Init PROVE Found
  OBVIOUS
<1>1. \A a \in Actor : task[a].at = "idle"
  BY DEF Init, WantedInit, Idle
<1>2. DOMAIN jobs = {}
  BY DEF Init, WantedInit
<1>3. \A b \in Book : books[b].files \subseteq DOMAIN Signals
  BY NamesAssumption DEF Init, WantedInit
<1> QED BY <1>1, <1>2, <1>3 DEF Found, Known, IsPicked, Actor

LEMMA NextFound == Inv /\ Found /\ [Next]_vars => Found'
<1> SUFFICES ASSUME Inv, Found, [Next]_vars PROVE Found'
  OBVIOUS
<1>a. "tick" \in Actor /\ "user" \in Actor
  BY DEF Actor
<1>b. Idle.at = "idle" /\ IsPicked(Idle)
  BY DEF Idle, IsPicked
<1>1. CASE UNCHANGED vars
  BY <1>1 DEF vars, wantedVars, Found, Known, IsPicked
<1>2. CASE TickStarts
  <2> DEFINE listed == list_cutoff_candidates(settings)
             next == Advanced(listed, settings, rows')
  <2>1. listed # {} => settings \in WithProfiles
    BY DEF list_cutoff_candidates, IsCandidate, Inv, Typed, WithProfiles
  <2> HIDE DEF listed
  <2>2. IsPicked(next) /\ next.at # "fetch"
    BY <2>1, AdvancedPicked
  <2>3. task' = [task EXCEPT !["tick"] = next]
    BY <1>2 DEF TickStarts, listed
  <2> HIDE DEF next
  <2> QED BY <1>2, <1>a, <2>2, <2>3, TaskFound DEF TickStarts, Inv
<1>3. CASE TickSearched
  BY <1>3, SearchedFound
<1>4. CASE TickErrs
  BY <1>4, RecordedFound DEF TickErrs
<1>5. CASE RecordFails
  BY <1>5, <1>a, <1>b, TaskFound DEF RecordFails, Inv
<1>6. ASSUME NEW a \in Actor, add_nzb(a) PROVE Found'
  <2>1. CASE a = "user"
    <3>1. task' = [task EXCEPT ![a] = Idle]
      BY <1>6, <2>1 DEF add_nzb
    <3>2. task'[a] = Idle
      BY <3>1 DEF Inv, Typed
    <3> QED BY <1>6, <1>b, <2>1, <3>1, <3>2, QueuedFound DEF add_nzb
  <2>2. CASE a = "tick"
    <3> DEFINE next == [task[a] EXCEPT !.at = "taken", !.nzo = Len(jobs')]
    <3>1. task' = [task EXCEPT ![a] = next]
      BY <1>6, <2>2 DEF add_nzb
    <3>2. IsTask(task[a])
      BY DEF Inv, Typed
    <3>3. next.at = "taken" /\ next.of = task[a].of
      BY <3>2 DEF IsTask
    <3> HIDE DEF next
    <3>4. task'[a] = next
      BY <3>1 DEF Inv, Typed
    <3> QED BY <1>6, <3>1, <3>3, <3>4, QueuedFound DEF add_nzb
  <2> QED BY <2>1, <2>2 DEF Actor
<1>7. CASE add_url
  <2>1. task' = [task EXCEPT !["user"] = Idle]
    BY <1>7 DEF add_url
  <2>2. task'["user"] = Idle
    BY <1>a, <2>1 DEF Inv, Typed
  <2> QED BY <1>7, <1>a, <1>b, <2>1, <2>2, QueuedFound DEF add_url
<1>8. CASE GrabFailed \/ GrabAnswered
  BY <1>8, RecordedFound DEF GrabFailed, GrabAnswered, Recorded
<1>9. CASE UserFails \/ _call
  BY <1>9, <1>a, <1>b, TaskFound DEF UserFails, _call, UserDone, Inv
<1>10. ASSUME NEW b \in Book, search_cutoff_upgrade(b) \/ grab_release(b)
       PROVE  Found'
  BY <1>10, HandingFound
<1>11. ASSUME NEW b \in Book, set_monitored(b) \/ delete_book(b)
       PROVE  Found'
  <2>1. \A c \in Book : books'[c].files \in {books[c].files, {}}
    BY <1>11 DEF set_monitored, delete_book, Inv, Typed, IsBook, Gone
  <2>2. UNCHANGED <<jobs, task>>
    BY <1>11 DEF set_monitored, delete_book
  <2>3. Known'
    BY <2>1, <2>2 DEF Found, Known
  <2> QED BY <2>2, <2>3 DEF Found, IsPicked
<1>12. CASE DownloadEnds \/ activity_queue_remove \/ activity_history_remove
            \/ activity_history_retry \/ _import_one
  <2>1. PICK j \in DOMAIN jobs, to \in JobStates :
          jobs' = [jobs EXCEPT ![j].state = to]
    BY <1>12 DEF DownloadEnds, activity_queue_remove, JobMoves, JobStates,
       activity_history_remove, activity_history_retry, _import_one
  <2>2. UNCHANGED <<books, task>>
    BY <1>12 DEF DownloadEnds, activity_queue_remove, JobMoves,
       activity_history_remove, activity_history_retry, _import_one
  <2>3. /\ DOMAIN jobs' = DOMAIN jobs
        /\ \A k \in DOMAIN jobs : jobs'[k].name = jobs[k].name
    BY <2>1 DEF Inv, Typed, IsJob
  <2> QED BY <2>2, <2>3 DEF Found, Known, IsPicked
<1>13. ASSUME NEW b \in Book, convertarr_webhook(b) \/ apply_preview(b)
       PROVE  Found'
  <2>1. PICK files \in SUBSET DOMAIN Signals :
          books' = [books EXCEPT ![b].files = files]
    <3>1. books[b].files \subseteq DOMAIN Signals
      BY DEF Found, Known
    <3>2. \A n \in Paths : \A f :
            /\ books[b].files \cup {n} \in SUBSET DOMAIN Signals
            /\ (books[b].files \ {f}) \cup {n} \in SUBSET DOMAIN Signals
      BY <3>1, NamesAssumption
    <3> QED BY <1>13, <3>2 DEF convertarr_webhook, apply_preview
  <2>2. \A c \in Book : books'[c].files \in {books[c].files, files}
    BY <2>1 DEF Inv, Typed, IsBook
  <2>3. UNCHANGED <<jobs, task>>
    BY <1>13 DEF convertarr_webhook, apply_preview
  <2> QED BY <2>2, <2>3 DEF Found, Known, IsPicked
<1>14. CASE put_settings
  BY <1>14 DEF put_settings, Found, Known, IsPicked
<1>15. CASE Crash
  <2>1. \A a \in Actor : task'[a] = Idle
    BY <1>15 DEF Crash
  <2>2. UNCHANGED <<books, jobs>>
    BY <1>15 DEF Crash
  <2> QED BY <1>a, <1>b, <2>1, <2>2 DEF Found, Known, IsPicked
<1> QED BY <1>1, <1>2, <1>3, <1>4, <1>5, <1>6, <1>7, <1>8, <1>9, <1>10, <1>11,
        <1>12, <1>13, <1>14, <1>15 DEF Next, WantedNext

LEMMA FoundAlways == Spec => []Found
BY InitInv, InitFound, NextInv, NextFound, PTL DEF Spec

(* What the scheduler grabs carries no blocked term, and nothing that was  *)
(* offered, could be grabbed and reaches the minimum score is of a better  *)
(* tier.                                                                   *)
THEOREM AlwaysGrabsTheBest == Spec => GrabsTheBest
<1>1. Inv /\ Found /\ [Next]_vars
        => [Takes("tick") =>
              LET now == task["tick"]
                  b == InWork("tick")
                  of == Settings[now.of]
                  got == jobs'[Len(jobs')].name
              IN  /\ ~Blocked(got, of)
                  /\ \A i \in DOMAIN now.offered :
                       LET other == now.offered[i].name
                       IN  \/ Blocked(other, of)
                           \/ score_release(Signals[other],
                                            of.preferences).score
                                < of.preferences.minimum
                           \/ \A t \in Meets(other, b, of) :
                                \/ t > CutoffTier(
                                         resolve_quality_profile(b, of))
                                \/ \E u \in Meets(got, b, of) : u <= t]_vars
  <2> DEFINE d == task["tick"].of
             offered == task["tick"].offered
             b == InWork("tick")
             p == find_fitting_release(offered, b, d)
             got == jobs'[Len(jobs')].name
             profile == resolve_quality_profile(b, Settings[d])
             prefs == Settings[d].preferences
  <2> SUFFICES ASSUME Inv, Found, Next, Takes("tick")
               PROVE  /\ ~Blocked(got, Settings[d])
                      /\ \A i \in DOMAIN offered :
                           LET other == offered[i].name
                           IN  \/ Blocked(other, Settings[d])
                               \/ score_release(Signals[other], prefs).score
                                    < prefs.minimum
                               \/ \A t \in Meets(other, b, Settings[d]) :
                                    \/ t > CutoffTier(profile)
                                    \/ \E u \in Meets(got, b, Settings[d]) :
                                         u <= t
    BY DEF Takes, vars, wantedVars
  <2>1. Queued("tick")
    BY OnlyQueuedTakes
  <2>2. got = task["tick"].release.name
    BY <2>1, Appended DEF Queued, Inv, Typed
  <2>3. d \in WithProfiles /\ b \in Book /\ p # 0 /\ offered \in search
        /\ task["tick"].release = offered[p]
    BY <2>1, InWorkTyped DEF Queued, Found, IsPicked, InWork, Inv, Actor
  <2> HIDE DEF d, offered, b, p, got
  <2>4. /\ p \in DOMAIN offered /\ Acceptable(offered[p], b, d)
        /\ offered[p].name = got /\ got \in DOMAIN Signals
        /\ \A i \in DOMAIN offered : Acceptable(offered[i], b, d) =>
             ~Precedes(SortKey(offered[i], b, d), SortKey(offered[p], b, d))
    BY <2>2, <2>3, BestIsFound DEF p
  <2>5. \A n \in DOMAIN Signals :
          /\ Blocked(n, Settings[d])
               <=> Matching(prefs.blocked, Signals[n]) # {}
          /\ Scores[d][n] = score_release(Signals[n], prefs)
    BY <2>3 DEF Blocked, Matching, Scores, WithProfiles
  <2>6. \A n \in DOMAIN Signals :
          Scores[d][n].status = "accepted"
            <=> /\ ~Blocked(n, Settings[d])
                /\ ~(Scores[d][n].score < prefs.minimum)
    <3> SUFFICES ASSUME NEW n \in DOMAIN Signals
                 PROVE  Scores[d][n].status = "accepted"
                          <=> /\ ~Blocked(n, Settings[d])
                              /\ ~(Scores[d][n].score < prefs.minimum)
      OBVIOUS
    <3> DEFINE sum == MapThenSumSet(LAMBDA i : prefs.preferred[i].score,
                                    Matching(prefs.preferred, Signals[n]))
    <3>1. score_release(Signals[n], prefs)
            = CASE Matching(prefs.blocked, Signals[n]) # {} ->
                     [score |-> 0, status |-> "rejected"]
                [] OTHER ->
                     [score |-> sum,
                      status |-> IF sum < prefs.minimum
                                 THEN "rejected" ELSE "accepted"]
      BY DEF score_release
    <3> HIDE DEF sum
    <3> QED BY <2>5, <3>1
  <2>7. ~Blocked(got, Settings[d])
    BY <2>4, <2>6 DEF Acceptable
  <2>8. ASSUME NEW i \in DOMAIN offered,
               ~Blocked(offered[i].name, Settings[d]),
               ~(score_release(Signals[offered[i].name], prefs).score
                   < prefs.minimum),
               NEW t \in Meets(offered[i].name, b, Settings[d]),
               ~(t > CutoffTier(profile))
        PROVE  \E u \in Meets(got, b, Settings[d]) : u <= t
    <3> DEFINE other == offered[i].name
               last == Len(profile.quality_ids)
               tier(n) == Verdict[d][b][n].tier
    <3>1. other \in DOMAIN Signals
      BY <2>3, OfferedTyped
    <3>2. last \in Nat /\ CutoffTier(profile) \in Nat
      BY <2>3, ProfileTyped
    <3>3. \A n \in DOMAIN Signals :
            LET tiers == Meets(n, b, Settings[d])
            IN  /\ tiers \subseteq 1 .. last
                /\ tiers = {} => tier(n) = 0
                /\ tiers # {} => tier(n) \in tiers
                                 /\ \A k \in tiers : tier(n) <= k
                /\ \A k \in tiers : k <= CutoffTier(profile) =>
                     Verdict[d][b][n].status \in {"preferred", "accepted"}
      BY <2>3, Judged
    <3>4. t \in 1 .. last /\ tier(other) \in 1 .. last /\ tier(other) <= t
      BY <3>1, <3>3
    <3>5. t <= CutoffTier(profile)
      BY <2>8, <3>2, <3>4
    <3>6. Acceptable(offered[i], b, d)
      BY <2>5, <2>6, <2>8, <3>1, <3>3, <3>5 DEF Acceptable
    <3>7. ~Precedes(SortKey(offered[i], b, d), SortKey(offered[p], b, d))
      BY <2>4, <3>6
    <3>8. /\ SortKey(offered[i], b, d)[1] = tier(other)
          /\ SortKey(offered[p], b, d)[1] =
               IF tier(got) = 0 THEN last + 1 ELSE tier(got)
      BY <2>4, <3>2, <3>4 DEF SortKey
    <3>9. tier(got) = 0 \/ tier(got) \in 1 .. last
      BY <2>4, <3>3
    <3>10. tier(got) # 0 /\ tier(got) <= t
      <4>1. ~(tier(other) < IF tier(got) = 0 THEN last + 1 ELSE tier(got))
        BY <3>7, <3>8 DEF Precedes
      <4> HIDE DEF tier, last
      <4> QED BY <3>2, <3>4, <3>9, <4>1
    <3>11. tier(got) \in Meets(got, b, Settings[d])
      BY <2>4, <3>3, <3>10
    <3> QED BY <3>10, <3>11
  <2> QED BY <2>7, <2>8
<1> QED BY <1>1, InvAlways, FoundAlways, PTL DEF Spec, GrabsTheBest

\* A row changes only at the start of a tick, and for the book in work.
LEMMA RowChanged ==
  ASSUME Inv, Next, NEW b \in Book, rows'[b] # rows[b]
  PROVE  \/ TickStarts
         \/ task["tick"].at # "idle" /\ b = InWork("tick")
<1>1. ASSUME NEW row, Recorded(row)
      PROVE  b = InWork("tick")
  BY <1>1 DEF Recorded, Inv, Typed
<1>2. CASE TickSearched \/ GrabFailed \/ GrabAnswered
  <2>1. task["tick"].at # "idle"
    BY <1>2 DEF TickSearched, GrabFailed, GrabAnswered
  <2>2. \E row : Recorded(row)
    BY <1>2 DEF TickSearched, GrabFailed, GrabAnswered
  <2> QED BY <1>1, <2>1, <2>2
<1> QED BY <1>2 DEF Next, WantedNext, TickErrs, RecordFails, add_nzb, add_url,
        Queued, UserFails, _call, UserDone, search_cutoff_upgrade,
        grab_release, set_monitored, delete_book, DownloadEnds,
        activity_queue_remove, activity_history_remove, JobMoves, _import_one,
        activity_history_retry, convertarr_webhook, apply_preview,
        put_settings, Crash

(* A book is held as long as it is wanted: nothing is grabbed for it, and  *)
(* its row goes only at the start of a tick that does not list it.         *)
THEOREM AlwaysHeldWhileWanted == Spec => HeldWhileWanted
<1>1. Inv /\ [Next]_vars
        => [\A b \in Book :
              /\ rows[b].status = "grabbed"
              /\ rows'[b] # rows[b]
                 \/ (Takes("tick") /\ jobs'[Len(jobs')].book = b)
              => Began /\ ~IsCandidate(b, settings)]_vars
  <2> SUFFICES ASSUME Inv, Next, NEW b \in Book, rows[b].status = "grabbed",
                      \/ rows'[b] # rows[b]
                      \/ Takes("tick") /\ jobs'[Len(jobs')].book = b
               PROVE  Began /\ ~IsCandidate(b, settings)
    OBVIOUS
  <2>1. ~(task["tick"].at # "idle" /\ b = InWork("tick"))
    BY DEF Inv, Working
  <2>2. ~(Takes("tick") /\ jobs'[Len(jobs')].book = b)
    <3> SUFFICES ASSUME Takes("tick"), jobs'[Len(jobs')].book = b PROVE FALSE
      OBVIOUS
    <3>1. Queued("tick")
      BY OnlyQueuedTakes
    <3>2. jobs'[Len(jobs')].book = InWork("tick")
      BY <3>1, Appended DEF Queued, Inv, Typed
    <3> QED BY <2>1, <3>1, <3>2 DEF Queued
  <2>3. rows'[b] # rows[b] /\ TickStarts
    BY <2>1, <2>2, RowChanged
  <2>4. Began
    BY <2>3 DEF TickStarts, Began
  <2>5. b \notin list_cutoff_candidates(settings)
    BY <2>3 DEF TickStarts, Pruned
  <2> QED BY <2>4, <2>5 DEF list_cutoff_candidates
<1> QED BY <1>1, InvAlways, PTL DEF Spec, HeldWhileWanted
=============================================================================
