------------------------- MODULE ImportSafetyProofs -------------------------
(***************************************************************************)
(* The placement of files against disk errors and crashes, the rows of the *)
(* files against the disk, and the state rows of the downloads against     *)
(* what they promise.                                                      *)
(***************************************************************************)
EXTENDS ImportPipelineProofs

(***************************************************************************)
(* The disk.                                                               *)
(***************************************************************************)
Placing == {"place", "undo"}

\* What is known of a placed file, so that undoing it loses nothing: after a
\* move its old place is free, otherwise the old place holds the same.
Returnable(d, n, f, strategy) ==
  IF strategy = "move" THEN d[<<n, "away", f>>] = "absent"
                       ELSE d[<<n, "home", f>>] = d[<<n, "away", f>>]

DoneReturnable ==
  \A a \in Actor : task[a].pc \in Placing =>
    \A f \in task[a].done :
      Returnable(disk, task[a].folder[1], f, task[a].strategy)

DiskInv == DiskTyped /\ DoneReturnable /\ AudioConserved

\* Placing a file keeps what was there and can be undone.
LEMMA TransferKeepsAudio ==
  ASSUME DiskTyped, AudioConserved, NEW n \in Name, NEW f \in File,
         ~ Blocked(n, f), NEW strategy, disk' = Transferred(n, f, strategy)
  PROVE  AudioConserved' /\ Returnable(disk', n, f, strategy)
<1> DEFINE from == <<n, "away", f>>
           to == <<n, "home", f>>
<1>1. from \in Path /\ to \in Path /\ from # to
  BY DEF Path, Place
<1>2. disk[to] = "absent" /\ disk[from] # "absent"
  BY DEF Blocked
<1>3. disk' = [disk EXCEPT ![to] = disk[from],
                           ![from] = IF strategy = "move" THEN "absent" ELSE @]
  BY DEF Transferred
<1>4. /\ disk'[to] = disk[from]
      /\ disk'[from] = IF strategy = "move" THEN "absent" ELSE disk[from]
      /\ \A p \in Path : p # from /\ p # to => disk'[p] = disk[p]
  BY <1>1, <1>3 DEF DiskTyped
<1>5. Returnable(disk', n, f, strategy)
  BY <1>4 DEF Returnable
<1>6. ASSUME NEW c \in Start, NEW g \in File
      PROVE  \E p \in Place : disk'[<<c[1], p, g>>] = c[2]
  <2>1. c[1] \in Name /\ c[2] \in Place
    BY StartAssumption DEF Folder
  <2>2. PICK p \in Place : disk[<<c[1], p, g>>] = c[2]
    BY DEF AudioConserved
  <2>3. <<c[1], p, g>> \in Path
    BY <2>1 DEF Path
  <2>4. CASE <<c[1], p, g>> = from
    <3>1. <<c[1], "home", g>> = to
      BY <2>4
    <3> QED BY <1>4, <2>2, <2>4, <3>1 DEF Place
  <2>5. CASE <<c[1], p, g>> = to
    BY <1>2, <2>1, <2>2, <2>5 DEF Place
  <2>6. CASE <<c[1], p, g>> # from /\ <<c[1], p, g>> # to
    BY <1>4, <2>2, <2>3, <2>6
  <2> QED BY <2>4, <2>5, <2>6
<1> QED BY <1>5, <1>6 DEF AudioConserved

\* Undoing a placement loses nothing.
LEMMA ReturnKeepsAudio ==
  ASSUME DiskTyped, AudioConserved, NEW n \in Name, NEW f \in File,
         NEW strategy, Returnable(disk, n, f, strategy),
         disk' = Returned(n, f, strategy)
  PROVE  AudioConserved'
<1> DEFINE from == <<n, "away", f>>
           to == <<n, "home", f>>
<1>1. from \in Path /\ to \in Path /\ from # to
  BY DEF Path, Place
<1>2. disk' = [disk EXCEPT ![from] = IF strategy = "move" THEN disk[to] ELSE @,
                           ![to] = "absent"]
  BY DEF Returned
<1>3. /\ disk'[from] = IF strategy = "move" THEN disk[to] ELSE disk[from]
      /\ \A p \in Path : p # from /\ p # to => disk'[p] = disk[p]
  BY <1>1, <1>2 DEF DiskTyped
<1>4. IF strategy = "move" THEN disk[from] = "absent" ELSE disk[to] = disk[from]
  BY DEF Returnable
<1>5. disk'[from] = disk[to] /\ disk[from] \in {"absent", disk[to]}
  BY <1>3, <1>4
<1>6. ASSUME NEW c \in Start, NEW g \in File
      PROVE  \E p \in Place : disk'[<<c[1], p, g>>] = c[2]
  <2>1. c[1] \in Name /\ c[2] \in Place
    BY StartAssumption DEF Folder
  <2>2. PICK p \in Place : disk[<<c[1], p, g>>] = c[2]
    BY DEF AudioConserved
  <2>3. <<c[1], p, g>> \in Path /\ c[2] # "absent"
    BY <2>1 DEF Path, Place
  <2>4. CASE <<c[1], p, g>> = from
    BY <1>5, <2>2, <2>3, <2>4
  <2>5. CASE <<c[1], p, g>> = to
    <3>1. <<c[1], "away", g>> = from
      BY <2>5
    <3> QED BY <1>5, <2>2, <2>5, <3>1 DEF Place
  <2>6. CASE <<c[1], p, g>> # from /\ <<c[1], p, g>> # to
    BY <1>3, <2>2, <2>3, <2>6
  <2> QED BY <2>4, <2>5, <2>6
<1> QED BY <1>6 DEF AudioConserved

\* The beginning of a copy appears where nothing was.
LEMMA TearKeepsAudio ==
  ASSUME DiskTyped, AudioConserved, NEW n \in Name, NEW f \in File,
         ~ Blocked(n, f), disk' = [disk EXCEPT ![<<n, "home", f>>] = "torn"]
  PROVE  AudioConserved'
<1> DEFINE to == <<n, "home", f>>
<1>1. to \in Path /\ disk[to] = "absent"
  BY DEF Path, Place, Blocked
<1>2. \A p \in Path : p # to => disk'[p] = disk[p]
  BY <1>1 DEF DiskTyped
<1>3. ASSUME NEW c \in Start, NEW g \in File
      PROVE  \E p \in Place : disk'[<<c[1], p, g>>] = c[2]
  <2>1. c[1] \in Name /\ c[2] \in Place
    BY StartAssumption DEF Folder
  <2>2. PICK p \in Place : disk[<<c[1], p, g>>] = c[2]
    BY DEF AudioConserved
  <2>3. <<c[1], p, g>> \in Path /\ <<c[1], p, g>> # to
    BY <1>1, <2>1, <2>2 DEF Path, Place
  <2> QED BY <1>2, <2>2, <2>3
<1> QED BY <1>3 DEF AudioConserved

\* A step that changes the coroutine of a and the file f leaves the other placed
\* files as they are.
LEMMA OthersReturnable ==
  ASSUME DiskTyped, NEW n \in Name, NEW f \in File, NEW g \in File, g # f,
         NEW strategy, Returnable(disk, n, g, strategy),
         \A p \in Path : p[3] # f => disk'[p] = disk[p]
  PROVE  Returnable(disk', n, g, strategy)
<1>1. <<n, "home", g>> \in Path /\ <<n, "away", g>> \in Path
  BY DEF Path, Place
<1>2. disk'[<<n, "home", g>>] = disk[<<n, "home", g>>]
  BY <1>1
<1>3. disk'[<<n, "away", g>>] = disk[<<n, "away", g>>]
  BY <1>1
<1> QED BY <1>2, <1>3 DEF Returnable

LEMMA OneFileChanges ==
  ASSUME DiskTyped, NEW n, NEW f, NEW strategy
  PROVE  /\ \A p \in Path : p[3] # f => Transferred(n, f, strategy)[p] = disk[p]
         /\ \A p \in Path : p[3] # f => Returned(n, f, strategy)[p] = disk[p]
         /\ \A p \in Path : p[3] # f =>
              [disk EXCEPT ![<<n, "home", f>>] = "torn"][p] = disk[p]
<1>1. \A p \in Path : p[3] # f => p # <<n, "home", f>> /\ p # <<n, "away", f>>
  OBVIOUS
<1> QED BY <1>1 DEF Transferred, Returned, DiskTyped

\* Only one coroutine is between two awaits, so whoever is there after a move
\* of a is a.
LEMMA OnlyMover ==
  ASSUME Inv, NEW a \in Actor, Move(a), NEW b \in Actor,
         task[b].pc \in Running \/ task'[b].pc \in Running
  PROVE  b = a
<1>1. PICK t \in GoodTask : Become(a, t)
  BY DEF Move, Goes
<1>2. b # a => task'[b] = task[b]
  BY <1>1 DEF Become, Inv, TasksTyped
<1> QED BY <1>2 DEF Move, Turn, LoopFree, Inv, OneRunning

\* The step of a caller that places a file, breaks off or undoes one.
LEMMA PlacingKeepsDisk ==
  ASSUME Inv, DiskInv, NEW a \in Actor, task[a].pc \in Placing,
         PlaceBlocked(a) \/ PlaceFile(a) \/ UndoFile(a) \/ Trouble(a)
  PROVE  /\ AudioConserved'
         /\ \A f \in task'[a].done :
              Returnable(disk', task'[a].folder[1], f, task'[a].strategy)
<1> DEFINE s == task[a]
           n == s.folder[1]
<1>1. s \in GoodTask /\ s \in Task /\ task \in [Actor -> GoodTask]
  BY TaskGood DEF Inv, TasksTyped
<1>2. n \in Name /\ s.done \subseteq File
  BY <1>1 DEF GoodTask, Task, Handling, Placing, Folder
<1>3. \A f \in s.done : Returnable(disk, n, f, s.strategy)
  BY DEF DiskInv, DoneReturnable
<1>4. ASSUME UNCHANGED disk
      PROVE  /\ AudioConserved'
             /\ \A f \in s.done : Returnable(disk', n, f, s.strategy)
  BY <1>3, <1>4 DEF DiskInv, AudioConserved, Returnable
<1>5. CASE PlaceBlocked(a)
  <2>1. task'[a] = [s EXCEPT !.pc = "undo"] /\ UNCHANGED disk
    BY <1>1, <1>5 DEF PlaceBlocked, Become
  <2>2. /\ task'[a].done = s.done /\ task'[a].folder = s.folder
        /\ task'[a].strategy = s.strategy
    BY <1>1, <2>1 DEF Task
  <2> QED BY <1>4, <2>1, <2>2
<1>6. CASE PlaceFile(a)
  <2>1. PICK f \in File :
          /\ ~ Blocked(n, f)
          /\ disk' = Transferred(n, f, s.strategy)
          /\ Become(a, [s EXCEPT !.left = @ \ {f}, !.done = @ \cup {f},
                          !.pc = IF s.left = {f} THEN "persist" ELSE @])
    BY <1>6 DEF PlaceFile
  <2>2. /\ task'[a].done = s.done \cup {f} /\ task'[a].folder = s.folder
        /\ task'[a].strategy = s.strategy
    BY <1>1, <2>1 DEF Become, Task
  <2>3. AudioConserved' /\ Returnable(disk', n, f, s.strategy)
    BY <1>2, <2>1, TransferKeepsAudio DEF DiskInv
  <2>4. ASSUME NEW g \in s.done, g # f PROVE Returnable(disk', n, g, s.strategy)
    BY <1>2, <1>3, <2>1, <2>4, OneFileChanges, OthersReturnable DEF DiskInv
  <2> QED BY <2>2, <2>3, <2>4
<1>7. CASE UndoFile(a)
  <2>1. PICK f \in File :
          /\ Last(a, f)
          /\ disk' = Returned(n, f, s.strategy)
          /\ Become(a, [s EXCEPT !.done = @ \ {f}])
    BY <1>7 DEF UndoFile
  <2>2. /\ task'[a].done = s.done \ {f} /\ task'[a].folder = s.folder
        /\ task'[a].strategy = s.strategy
    BY <1>1, <2>1 DEF Become, Task
  <2>3. Returnable(disk, n, f, s.strategy)
    BY <1>3, <2>1 DEF Last
  <2>4. AudioConserved'
    BY <1>2, <2>1, <2>3, ReturnKeepsAudio DEF DiskInv
  <2>5. ASSUME NEW g \in s.done, g # f PROVE Returnable(disk', n, g, s.strategy)
    BY <1>2, <1>3, <2>1, <2>5, OneFileChanges, OthersReturnable DEF DiskInv
  <2> QED BY <2>2, <2>4, <2>5
<1>8. CASE UndoBreaks(a)
  <2>1. PICK f \in File : Become(a, [s EXCEPT !.done = @ \ {f}])
    BY <1>8 DEF UndoBreaks
  <2>2. /\ task'[a].done \subseteq s.done /\ task'[a].folder = s.folder
        /\ task'[a].strategy = s.strategy
    BY <1>1, <2>1 DEF Become, Task
  <2>3. UNCHANGED disk
    BY <1>8 DEF UndoBreaks
  <2> QED BY <1>4, <2>2, <2>3
<1>9. ASSUME NEW torn \in BOOLEAN, PlaceBreaks(a, torn)
      PROVE  /\ AudioConserved'
             /\ \A f \in task'[a].done :
                  Returnable(disk', task'[a].folder[1], f, task'[a].strategy)
  <2>1. /\ task'[a].done = s.done /\ task'[a].folder = s.folder
        /\ task'[a].strategy = s.strategy
    BY <1>1, <1>9 DEF PlaceBreaks, Become, Task
  <2>2. PICK f \in File :
          /\ ~ Blocked(n, f)
          /\ disk' = IF torn THEN [disk EXCEPT ![<<n, "home", f>>] = "torn"]
                             ELSE disk
    BY <1>9 DEF PlaceBreaks
  <2>3. CASE torn
    <3>1. AudioConserved'
      BY <1>2, <2>2, <2>3, TearKeepsAudio DEF DiskInv
    <3>2. f \notin s.done
      BY <1>3, <2>2 DEF Blocked, Returnable
    <3>3. \A p \in Path : p[3] # f => disk'[p] = disk[p]
      BY <2>2, <2>3, OneFileChanges DEF DiskInv
    <3>4. ASSUME NEW g \in s.done PROVE Returnable(disk', n, g, s.strategy)
      <4>1. g # f
        BY <3>2, <3>4
      <4> QED BY <1>2, <1>3, <3>3, <4>1, OthersReturnable DEF DiskInv
    <3> QED BY <2>1, <3>1, <3>4
  <2>4. CASE ~ torn
    BY <1>4, <2>1, <2>2, <2>4
  <2> QED BY <2>3, <2>4
<1> QED BY <1>5, <1>6, <1>7, <1>8, <1>9 DEF Trouble

LEMMA MoveKeepsDisk ==
  ASSUME Inv, DiskInv, Next, NEW a \in Actor, Move(a)
  PROVE  DiskInv'
<1>1. DiskTyped'
  BY DiskMoves DEF DiskInv
<1>2. PICK t \in GoodTask :
        /\ Become(a, t)
        /\ t.pc \in Handling => \/ t.done = {}
                                \/ task[a].pc \in {"place", "undo"}
  BY DEF Move, Goes
<1>3. task'[a] = t
  BY <1>2 DEF Become, Inv, TasksTyped
<1>4. \A b \in Actor : task'[b].pc \in Placing => b = a
  BY OnlyMover DEF Placing, Running
<1>5. CASE task[a].pc \notin Placing
  <2>1. UNCHANGED disk
    <3>1. ASSUME NEW b \in Actor, OnDisk(b) PROVE FALSE
      <4>1. task[b].pc \in Placing
        BY <3>1 DEF OnDisk, PlaceFile, UndoFile, PlaceBreaks, Placing
      <4> QED BY <1>5, <4>1, OnlyMover DEF Placing, Running
    <3> QED BY <3>1, DiskStays
  <2>2. AudioConserved'
    BY <2>1 DEF DiskInv, AudioConserved
  <2>3. DoneReturnable'
    BY <1>2, <1>3, <1>4, <1>5 DEF DoneReturnable, Placing, Handling
  <2> QED BY <1>1, <2>2, <2>3 DEF DiskInv
<1>6. CASE task[a].pc \in Placing
  <2>1. CASE PlaceBlocked(a) \/ PlaceFile(a) \/ UndoFile(a) \/ Trouble(a)
    <3>1. /\ AudioConserved'
          /\ \A f \in task'[a].done :
               Returnable(disk', task'[a].folder[1], f, task'[a].strategy)
      BY <1>6, <2>1, PlacingKeepsDisk
    <3> QED BY <1>1, <1>4, <3>1 DEF DiskInv, DoneReturnable
  <2>2. CASE PlacementFails(a)
    <3>1. UNCHANGED disk /\ Conclude(a, "error")
      BY <2>2 DEF PlacementFails
    <3>2. Ends(a)
      BY <3>1, ConcludeEnds DEF Outcome
    <3>3. task'[a].pc \notin Placing
      <4>1. PICK u \in GoodTask :
              Become(a, u) /\ u.pc \notin Handling \cup Writing
        BY <3>2 DEF Ends
      <4> QED BY <4>1 DEF Become, Inv, TasksTyped, Placing, Handling
    <3> QED BY <1>1, <1>4, <3>1, <3>3
        DEF DiskInv, DoneReturnable, AudioConserved
  <2>3. CASE Crash
    <3>1. UNCHANGED disk /\ task' = [b \in Actor |-> IdleTask]
      BY <2>3 DEF Crash
    <3> QED BY <1>1, <3>1 DEF DiskInv, DoneReturnable, AudioConserved, IdleTask,
                              Placing
  <2>4. ~ PersistBook(a)
    BY <1>6 DEF PersistBook, Placing
  <2> QED BY <1>6, <2>1, <2>2, <2>3, <2>4, HandlingSteps
          DEF HandlingStep, Handling, Placing
<1> QED BY <1>5, <1>6

\* An intact copy of every audio file is left, whatever fails in the middle of
\* a placement: a file is only ever moved onto a free path, and undoing finds
\* its old place as the placement left it.
THEOREM AudioNeverLost == Spec => []AudioConserved
<1>1. Init => DiskInv
  <2> SUFFICES ASSUME Init PROVE DiskInv
    OBVIOUS
  <2>1. \A p \in Path : p[2] \in Place
    BY DEF Path
  <2>2. DiskTyped
    BY <2>1, FaultsAssumption DEF Init, DiskTyped, Content
  <2>3. DoneReturnable
    BY DEF Init, DoneReturnable, IdleTask, Placing
  <2>4. ASSUME NEW c \in Start, NEW f \in File
        PROVE  disk[<<c[1], c[2], f>>] = c[2] /\ c[2] \in Place
    <3>1. c[1] \in Name /\ c[2] \in Place /\ c = <<c[1], c[2]>>
      BY StartAssumption DEF Folder
    <3>2. <<c[1], c[2], f>> \in Path
      BY <3>1 DEF Path
    <3> QED BY <3>1, <3>2 DEF Init
  <2> QED BY <2>2, <2>3, <2>4 DEF DiskInv, AudioConserved
<1>2. Inv /\ DiskInv /\ [Next]_vars => DiskInv'
  <2>1. ASSUME Inv, DiskInv, Crash, Next PROVE DiskInv'
    <3>1. UNCHANGED disk /\ task' = [b \in Actor |-> IdleTask]
      BY <2>1 DEF Crash
    <3>2. DiskTyped'
      BY <2>1, DiskMoves DEF DiskInv
    <3> QED BY <2>1, <3>1, <3>2 DEF DiskInv, DoneReturnable, AudioConserved,
                                    IdleTask, Placing
  <2>2. ASSUME Inv, DiskInv, Next PROVE DiskInv'
    BY <2>1, <2>2, NextMoves, MoveKeepsDisk
  <2>3. ASSUME DiskInv, UNCHANGED vars PROVE DiskInv'
    BY <2>3 DEF vars, DiskInv, DiskTyped, DoneReturnable, AudioConserved,
                Returnable
  <2> QED BY <2>2, <2>3
<1>3. DiskInv => AudioConserved
  BY DEF DiskInv
<1> QED BY <1>1, <1>2, <1>3, InvAlways, PTL DEF Spec

(***************************************************************************)
(* The rows of the files.                                                  *)
(***************************************************************************)
\* The scan of the caller with the coroutine t holds the file f of folder c:
\* among the candidates it has still to do, or as the one in hand.
Holds(t, c, f) == \/ \E L : <<c, L>> \in t.todo /\ f \in L
                  \/ t.folder = c /\ f \in t.listed

\* The states in which a matched candidate is placed, inserted or recorded.
Handed == {"place", "persist", "probe"}

\* The coroutine leaves a candidate, or takes one up: what it holds then it
\* held before, or it is there now and nobody is placing files.
Passes(t, u) ==
  /\ u.pc \notin Handed
  /\ \A c \in Folder, f \in File :
       Holds(u, c, f) => \/ Holds(t, c, f)
                         \/ f \in FilesAt(c) /\ t.pc \notin Placing

Leaves(a) == \E u : Become(a, u) /\ Passes(task[a], u)

\* The steps that take a candidate through placement and its rows.
HandsOn(a) == \/ \E b \in Book, s \in Strategies : Matched(a, b, s)
              \/ PlaceFile(a) \/ PersistBook(a) \/ RecordFile(a)

\* The ways to leave a candidate: for nothing, for what the scan still holds,
\* for a new scan, for one folder, for the next candidate.
LEMMA PassesEmpty ==
  ASSUME NEW t, NEW u, u.todo = {}, u.listed = {}, u.pc \notin Handed
  PROVE  Passes(t, u)
BY DEF Passes, Holds

LEMMA PassesSame ==
  ASSUME NEW t, NEW u, u.todo = t.todo, u.folder = t.folder,
         u.listed = t.listed, u.pc \notin Handed
  PROVE  Passes(t, u)
BY DEF Passes, Holds

LEMMA PassesRun ==
  ASSUME NEW t, t.pc \notin Placing, NEW v \in Task
  PROVE  Passes(t, RunTask(v))
<1>1. /\ RunTask(v).todo = {<<c, FilesAt(c)>> : c \in Scanned}
      /\ RunTask(v).listed = {} /\ RunTask(v).pc = "next"
  BY DEF RunTask, Task
<1>2. ASSUME NEW c \in Folder, NEW f \in File, Holds(RunTask(v), c, f)
      PROVE  f \in FilesAt(c)
  BY <1>1, <1>2 DEF Holds
<1> QED BY <1>1, <1>2 DEF Passes, Handed

LEMMA PassesSingle ==
  ASSUME NEW t, t.pc \notin Placing, NEW v \in Task, NEW c, NEW b
  PROVE  Passes(t, SingleTask(v, c, b))
<1> DEFINE u == SingleTask(v, c, b)
<1>1. u.todo = {} /\ u.listed = FilesAt(c) /\ u.folder = c /\ u.pc = "search"
  BY DEF SingleTask, Task
<1> HIDE DEF u
<1>2. Passes(t, u)
  BY <1>1 DEF Passes, Holds, Handed
<1> QED BY <1>2 DEF u

LEMMA PassesFinished ==
  ASSUME NEW t \in Task, NEW outcome
  PROVE  Passes(t, Finished(t, outcome))
<1> DEFINE u == Finished(t, outcome)
<1>1. u.todo = t.todo /\ u.listed = {} /\ u.pc = "next"
  BY DEF Finished, Task
<1> HIDE DEF u
<1>2. Passes(t, u)
  BY <1>1 DEF Passes, Holds, Handed
<1> QED BY <1>2 DEF u

\* Ending, failing and concluding leave the candidate, and so does every step
\* that neither places nor records.
LEMMA LeavesIdle ==
  ASSUME NEW a, Become(a, IdleTask)
  PROVE  Leaves(a)
<1>1. Passes(task[a], IdleTask)
  BY PassesEmpty DEF IdleTask, Handed
<1> QED BY <1>1 DEF Leaves

LEMMA SettleLeaves ==
  ASSUME NEW phase, NEW data, Settle(phase, data)
  PROVE  Leaves("poll")
<1> DEFINE t == task["poll"]
           next == [IdleTask EXCEPT !.pc = "item", !.queue = t.queue,
                                    !.client = t.client]
           last == [IdleTask EXCEPT !.pc = IF t.client = "sab" THEN "dead"
                                                              ELSE "idle"]
<1>1. /\ next.pc = "item" /\ next.todo = {} /\ next.listed = {}
      /\ last.pc \in {"dead", "idle"} /\ last.todo = {} /\ last.listed = {}
  BY DEF IdleTask
<1>2. Become("poll", next) \/ Become("poll", last)
  BY DEF Settle
<1> HIDE DEF next, last
<1>3. Passes(t, next) /\ Passes(t, last)
  BY <1>1, PassesEmpty DEF Handed
<1> QED BY <1>2, <1>3 DEF Leaves

LEMMA RaiseLeaves ==
  ASSUME NEW a \in Actor, Raise(a)
  PROVE  Leaves(a)
BY LeavesIdle, SettleLeaves DEF Raise, Actor

LEMMA ReturnLeaves ==
  ASSUME NEW a \in Actor, NEW outcome, NEW data, Return(a, outcome, data)
  PROVE  Leaves(a)
BY LeavesIdle, SettleLeaves DEF Return

LEMMA ConcludeLeaves ==
  ASSUME Inv, NEW a \in Actor, NEW outcome, Conclude(a, outcome)
  PROVE  Leaves(a)
<1>1. Passes(task[a], Finished(task[a], outcome))
  BY TaskGood, PassesFinished
<1> QED BY <1>1, RaiseLeaves, ReturnLeaves DEF Conclude, Leaves

\* Every step of a caller takes leave of a candidate, or takes one up, or is
\* one of the four that work on the files of the candidate in hand.
LEMMA NextCandidateLeaves ==
  ASSUME Inv, NEW a \in Actor, NextCandidate(a)
  PROVE  Leaves(a)
<1> DEFINE s == task[a]
<1>1. s \in Task
  BY TaskGood
<1>2. PICK e \in s.todo :
        Become(a, [s EXCEPT !.pc = "search", !.todo = @ \ {e},
                            !.folder = e[1], !.listed = e[2]])
  BY DEF NextCandidate
<1> DEFINE u == [s EXCEPT !.pc = "search", !.todo = @ \ {e},
                          !.folder = e[1], !.listed = e[2]]
<1>3. /\ u.pc = "search" /\ u.todo = s.todo \ {e}
      /\ u.folder = e[1] /\ u.listed = e[2]
  BY <1>1 DEF Task
<1>4. e = <<e[1], e[2]>>
  BY <1>1 DEF Task
<1>5. Become(a, u)
  BY <1>2
<1> HIDE DEF u
<1>6. Passes(s, u)
  BY <1>3, <1>4 DEF Passes, Holds, Handed
<1> QED BY <1>5, <1>6 DEF Leaves

\* The coroutine only moves on to another state.
LEMMA QuietLeaves ==
  ASSUME Inv, NEW a \in Actor, NEW pc, pc \notin Handed,
         Become(a, [task[a] EXCEPT !.pc = pc])
  PROVE  Leaves(a)
<1> DEFINE s == task[a]
           u == [s EXCEPT !.pc = pc]
<1>1. s \in Task
  BY TaskGood
<1>2. u.todo = s.todo /\ u.folder = s.folder /\ u.listed = s.listed /\ u.pc = pc
  BY <1>1 DEF Task
<1> HIDE DEF u
<1>3. Passes(s, u)
  BY <1>2, PassesSame
<1> QED BY <1>3 DEF Leaves, u

LEMMA UndoLeaves ==
  ASSUME Inv, NEW a \in Actor, UndoFile(a) \/ UndoBreaks(a)
  PROVE  Leaves(a)
<1> DEFINE s == task[a]
<1>1. PICK f \in File : Become(a, [s EXCEPT !.done = @ \ {f}])
  BY DEF UndoFile, UndoBreaks
<1> DEFINE u == [s EXCEPT !.done = @ \ {f}]
<1>2. s \in Task /\ s.pc = "undo"
  BY TaskGood DEF UndoFile, UndoBreaks
<1>3. /\ u.todo = s.todo /\ u.folder = s.folder /\ u.listed = s.listed
      /\ u.pc = "undo"
  BY <1>2 DEF Task
<1>4. Become(a, u)
  BY <1>1
<1> HIDE DEF u
<1>5. Passes(s, u)
  BY <1>3, PassesSame DEF Handed
<1> QED BY <1>4, <1>5 DEF Leaves

LEMMA StepLeaves ==
  ASSUME Inv, NEW a \in Actor, StartRun(a) \/ Step(a) \/ Trouble(a)
  PROVE  Leaves(a) \/ HandsOn(a)
<1>1. task[a] \in Task /\ IdleTask \in Task
  BY TaskGood, IdleTyped DEF GoodTask
<1>2. CASE StartRun(a)
  <2>1. task[a].pc \notin Placing
    BY <1>2 DEF StartRun, Placing
  <2>2. Passes(task[a], RunTask(IdleTask)) /\ Become(a, RunTask(IdleTask))
    BY <1>1, <1>2, <2>1, PassesRun DEF StartRun
  <2> QED BY <2>2 DEF Leaves
<1>3. CASE RunEnds(a) \/ Rescanned(a)
  <2>1. RunEnds(a) => Raise(a) \/ Become(a, [task[a] EXCEPT !.pc = "rescan"])
    BY DEF RunEnds
  <2> QED BY <1>3, <2>1, RaiseLeaves, QuietLeaves, ReturnLeaves
          DEF Rescanned, Handed
<1>4. CASE AsinUnknown(a)
  <2>1. task[a].pc \notin Placing
    BY <1>4 DEF AsinUnknown, Placing
  <2>2. Passes(task[a], RunTask(task[a]))
    BY <1>1, <2>1, PassesRun
  <2> QED BY <1>4, <2>2, SettleLeaves, RaiseLeaves DEF AsinUnknown, Leaves
<1>5. CASE NoMatch(a) \/ LookupRaises(a) \/ \E b \in Book : Duplicate(a, b)
  BY <1>5, ConcludeLeaves, RaiseLeaves DEF NoMatch, LookupRaises, Duplicate
<1>6. CASE PlaceBlocked(a) \/ PlacementFails(a)
  BY <1>6, QuietLeaves, ConcludeLeaves
  DEF PlaceBlocked, PlacementFails, Handed
<1>7. CASE Dispatched(a)
  <2>1. Passes(task[a], Finished(task[a], "matched"))
    BY <1>1, PassesFinished
  <2> QED BY <1>7, <2>1, ReturnLeaves DEF Dispatched, Leaves
<1>8. CASE \E enqueued \in BOOLEAN : Offer(a, enqueued)
  BY <1>8, QuietLeaves DEF Offer, Handed
<1>9. CASE Trouble(a)
  BY <1>9, QuietLeaves, UndoLeaves DEF Trouble, PlaceBreaks, Handed
<1>10. CASE NextCandidate(a) \/ UndoFile(a)
  BY <1>10, NextCandidateLeaves, UndoLeaves
<1> QED BY <1>2, <1>3, <1>4, <1>5, <1>6, <1>7, <1>8, <1>9, <1>10
        DEF Step, HandsOn

LEMMA PollLeaves ==
  ASSUME Inv, StartTick \/ Poll \/ PathMissing
  PROVE  Leaves("poll")
<1> DEFINE s == task["poll"]
<1>1. s \in Task /\ "poll" \in Actor
  BY TaskGood DEF Actor
<1>2. CASE StartTick \/ \E ok \in BOOLEAN : Listed(ok)
  <2> DEFINE first == [IdleTask EXCEPT !.pc = "item", !.queue = Reported("sab")]
             next == [IdleTask EXCEPT !.pc = "item", !.queue = Reported("qb"),
                                      !.client = "qb"]
  <2>1. /\ first.todo = {} /\ first.listed = {} /\ first.pc = "item"
        /\ next.todo = {} /\ next.listed = {} /\ next.pc = "item"
    BY DEF IdleTask
  <2>2. \/ Become("poll", first) \/ Become("poll", next)
        \/ Become("poll", IdleTask)
    BY <1>2 DEF StartTick, Listed
  <2> HIDE DEF first, next
  <2>3. Passes(s, first) /\ Passes(s, next)
    BY <2>1, PassesEmpty DEF Handed
  <2> QED BY <2>2, <2>3, LeavesIdle DEF Leaves
<1>3. CASE ListEnds
  BY <1>1, <1>3, LeavesIdle, QuietLeaves DEF ListEnds, Handed
<1>4. ASSUME NEW i \in Item, PickItem(i) PROVE Leaves("poll")
  <2> DEFINE skip == [s EXCEPT !.queue = @ \ {i}]
             take == [s EXCEPT !.queue = @ \ {i}, !.item = i, !.pc = "take"]
  <2>1. s.pc = "item" /\ (Become("poll", skip) \/ Become("poll", take))
    BY <1>4 DEF PickItem
  <2>2. /\ skip.todo = s.todo /\ skip.folder = s.folder
        /\ skip.listed = s.listed /\ skip.pc = "item"
    BY <1>1, <2>1 DEF Task
  <2>3. /\ take.todo = s.todo /\ take.folder = s.folder
        /\ take.listed = s.listed /\ take.pc = "take"
    BY <1>1 DEF Task
  <2> HIDE DEF skip, take
  <2>4. Passes(s, skip) /\ Passes(s, take)
    BY <2>2, <2>3, PassesSame DEF Handed
  <2> QED BY <2>1, <2>4 DEF Leaves
<1>5. CASE PathOutside \/ PathMissing
  BY <1>5, SettleLeaves DEF PathOutside, PathMissing
<1>6. CASE TakeByAsin \/ TakeByRun
  <2>1. s.pc \notin Placing
    BY <1>6 DEF TakeByAsin, TakeByRun, Placing
  <2>2. Passes(s, RunTask(s))
    BY <1>1, <2>1, PassesRun
  <2>3. \A c, b : Passes(s, SingleTask(s, c, b))
    BY <1>1, <2>1, PassesSingle
  <2> QED BY <1>6, <2>2, <2>3 DEF TakeByAsin, TakeByRun, Leaves
<1> QED BY <1>2, <1>3, <1>4, <1>5, <1>6 DEF Poll

LEMMA NextLeaves ==
  ASSUME Inv, Next
  PROVE  Crash \/ \E a \in Actor : Move(a) /\ (Leaves(a) \/ HandsOn(a))
<1>1. ASSUME NEW a \in Actor, StartRun(a) \/ Step(a) \/ Trouble(a)
      PROVE  Move(a) /\ (Leaves(a) \/ HandsOn(a))
  <2>1. Move(a)
    BY <1>1, StartRunMoves, StepMoves, PlaceBreaksMoves, UndoMoves DEF Trouble
  <2> QED BY <1>1, <2>1, StepLeaves
<1>2. ASSUME NEW c \in Folder, NEW b \in Book, StartMatch(c, b)
      PROVE  Move("api") /\ Leaves("api")
  <2>1. task["api"].pc \notin Placing /\ IdleTask \in Task
    BY <1>2, IdleTyped DEF StartMatch, Placing, GoodTask
  <2>2. Passes(task["api"], SingleTask(IdleTask, c, b))
    BY <2>1, PassesSingle
  <2> QED BY <1>2, <2>2, StartMatchMoves DEF StartMatch, Leaves
<1>3. ASSUME StartTick \/ Poll \/ PathMissing
      PROVE  Move("poll") /\ Leaves("poll")
  BY <1>3, PollLeaves, StartTickMoves, PollMoves, PathMissingMoves
<1> QED BY <1>1, <1>2, <1>3 DEF Next, Actor

\* A file in root/n that no placement may still take back.
Kept(n, f) ==
  /\ disk[<<n, "home", f>>] # "absent"
  /\ \A a \in Actor :
       task[a].pc \in Placing /\ task[a].folder[1] = n => f \notin task[a].done

\* Whoever is between the match and the last row of a candidate.
Recording == {"persist", "probe"}

\* What a caller will record is there: files in place when its scan saw them,
\* files it has placed, files beneath no root in a folder of the start.
ScanHolds(a) ==
  /\ \A n \in Name, f \in File :
       /\ Holds(task[a], <<n, "home">>, f) => Kept(n, f)
       /\ Holds(task[a], <<n, "outside">>, f) => <<n, "outside">> \in Start
  /\ task[a].pc = "place" =>
       /\ task[a].listed \subseteq task[a].left \cup task[a].done
       /\ \A f \in task[a].done :
            disk[<<task[a].folder[1], "home", f>>] # "absent"
  /\ task[a].pc \in Recording =>
       \A n \in Name : task[a].folder = <<n, "away">> =>
         \A f \in task[a].listed : Kept(n, f)
  /\ task[a].pc = "probe" => task[a].left \subseteq task[a].listed

\* A file beneath no root is in a folder that was there at the start.
OutsideStays ==
  \A n \in Name, f \in File :
    disk[<<n, "outside", f>>] # "absent" => <<n, "outside">> \in Start

\* A row names a file nobody takes back, by its place or relative to a root.
RowKept(r) == IF r[2] = "relative" THEN <<r[1], "outside">> \in Start
                                   ELSE r[2] = "home" /\ Kept(r[1], r[3])

RowsKept ==
  \A r \in RowPath :
    db.catalog[r] # NoBook \/ tx.catalog[r] # NoBook => RowKept(r)

\* The inductive invariant of the rows.
RowsInv == /\ OutsideStays /\ RowsKept
           /\ \A a \in Actor : ScanHolds(a)

\* The disk of a caller that is placing files changes in one file of one folder,
\* and no file of the library that the caller did not place itself is lost.
LEMMA PlacingKeeps ==
  ASSUME Inv, DiskTyped, NEW a \in Actor, task[a].pc \in Placing,
         PlaceBlocked(a) \/ PlaceFile(a) \/ UndoFile(a) \/ Trouble(a),
         NEW n \in Name, NEW f \in File, Kept(n, f)
  PROVE  /\ disk'[<<n, "home", f>>] # "absent"
         /\ task'[a].folder[1] = n => f \notin task'[a].done
<1> DEFINE s == task[a]
           m == s.folder[1]
           at == <<n, "home", f>>
<1>1. s \in GoodTask /\ s \in Task /\ task \in [Actor -> GoodTask]
  BY TaskGood DEF Inv, TasksTyped
<1>2. at \in Path /\ disk[at] # "absent" /\ (m = n => f \notin s.done)
  BY DEF Path, Place, Kept
<1>3. CASE PlaceBlocked(a)
  <2>1. task'[a] = [s EXCEPT !.pc = "undo"] /\ UNCHANGED disk
    BY <1>1, <1>3 DEF PlaceBlocked, Become
  <2>2. task'[a].done = s.done /\ task'[a].folder = s.folder
    BY <1>1, <2>1 DEF Task
  <2> QED BY <1>2, <2>1, <2>2
<1>4. CASE PlaceFile(a)
  <2>1. PICK g \in File :
          /\ ~ Blocked(m, g)
          /\ disk' = Transferred(m, g, s.strategy)
          /\ Become(a, [s EXCEPT !.left = @ \ {g}, !.done = @ \cup {g},
                          !.pc = IF s.left = {g} THEN "persist" ELSE @])
    BY <1>4 DEF PlaceFile
  <2>2. task'[a].done = s.done \cup {g} /\ task'[a].folder = s.folder
    BY <1>1, <2>1 DEF Become, Task
  <2>3. at # <<m, "home", g>> /\ at # <<m, "away", g>>
    BY <1>2, <2>1 DEF Blocked
  <2>4. disk'[at] = disk[at]
    BY <1>2, <2>1, <2>3 DEF Transferred, DiskTyped
  <2> QED BY <1>2, <2>2, <2>3, <2>4
<1>5. CASE UndoFile(a)
  <2>1. PICK g \in File :
          /\ Last(a, g)
          /\ disk' = Returned(m, g, s.strategy)
          /\ Become(a, [s EXCEPT !.done = @ \ {g}])
    BY <1>5 DEF UndoFile
  <2>2. task'[a].done = s.done \ {g} /\ task'[a].folder = s.folder
    BY <1>1, <2>1 DEF Become, Task
  <2>3. at # <<m, "home", g>> /\ at # <<m, "away", g>>
    BY <1>2, <2>1 DEF Last
  <2>4. disk'[at] = disk[at]
    BY <1>2, <2>1, <2>3 DEF Returned, DiskTyped
  <2> QED BY <1>2, <2>2, <2>4
<1>6. CASE UndoBreaks(a)
  <2>1. PICK g \in File : Become(a, [s EXCEPT !.done = @ \ {g}])
    BY <1>6 DEF UndoBreaks
  <2>2. task'[a].done \subseteq s.done /\ task'[a].folder = s.folder
    BY <1>1, <2>1 DEF Become, Task
  <2>3. UNCHANGED disk
    BY <1>6 DEF UndoBreaks
  <2> QED BY <1>2, <2>2, <2>3
<1>7. ASSUME NEW torn \in BOOLEAN, PlaceBreaks(a, torn)
      PROVE  /\ disk'[at] # "absent"
             /\ task'[a].folder[1] = n => f \notin task'[a].done
  <2>1. task'[a].done = s.done /\ task'[a].folder = s.folder
    BY <1>1, <1>7 DEF PlaceBreaks, Become, Task
  <2>2. PICK g \in File :
          disk' = IF torn THEN [disk EXCEPT ![<<m, "home", g>>] = "torn"]
                          ELSE disk
    BY <1>7 DEF PlaceBreaks
  <2>3. disk'[at] \in {disk[at], "torn"}
    BY <1>2, <2>2 DEF DiskTyped
  <2> QED BY <1>2, <2>1, <2>3
<1> QED BY <1>3, <1>4, <1>5, <1>6, <1>7 DEF Trouble

\* A caller that leaves its candidate while placing it has undone everything.
LEMMA FailureLeaves ==
  ASSUME Inv, NEW a \in Actor, PlacementFails(a)
  PROVE  UNCHANGED disk /\ task'[a].pc \notin Placing
<1>1. UNCHANGED disk /\ Conclude(a, "error")
  BY DEF PlacementFails
<1>2. Ends(a)
  BY <1>1, ConcludeEnds DEF Outcome
<1>3. PICK u \in GoodTask : Become(a, u) /\ u.pc \notin Handling \cup Writing
  BY <1>2 DEF Ends
<1> QED BY <1>1, <1>3 DEF Become, Inv, TasksTyped, Placing, Handling

\* The disk stays while nobody is placing files.
LEMMA NobodyPlacing ==
  ASSUME Inv, Next, NEW a \in Actor, Move(a), task[a].pc \notin Placing
  PROVE  /\ UNCHANGED disk
         /\ \A b \in Actor : task[b].pc \notin Placing
         /\ \A b \in Actor : task'[b].pc \in Placing => task'[b].done = {}
<1>1. ASSUME NEW b \in Actor PROVE task[b].pc \notin Placing
  BY <1>1, OnlyMover DEF Placing, Running
<1>2. UNCHANGED disk
  BY <1>1, DiskStays DEF OnDisk, PlaceFile, UndoFile, PlaceBreaks, Placing
<1>3. PICK t \in GoodTask :
        /\ Become(a, t)
        /\ t.pc \in Handling => \/ t.done = {}
                                \/ task[a].pc \in {"place", "undo"}
  BY DEF Move, Goes
<1>4. task'[a] = t
  BY <1>3 DEF Become, Inv, TasksTyped
<1>5. ASSUME NEW b \in Actor, task'[b].pc \in Placing PROVE task'[b].done = {}
  <2>1. b = a
    BY <1>5, OnlyMover DEF Placing, Running
  <2> QED BY <1>3, <1>4, <1>5, <2>1 DEF Placing, Handling
<1> QED BY <1>1, <1>2, <1>5

\* A kept file stays kept: only its own placement could take it back, and that
\* placement is over.
LEMMA KeptStays ==
  ASSUME Inv, DiskTyped, Next, NEW n \in Name, NEW f \in File, Kept(n, f)
  PROVE  Kept(n, f)'
<1>1. CASE Crash
  BY <1>1 DEF Crash, Kept, IdleTask, Placing
<1>2. ASSUME NEW a \in Actor, Move(a), ~ Crash PROVE Kept(n, f)'
  <2>1. CASE task[a].pc \notin Placing
    BY <1>2, <2>1, NobodyPlacing DEF Kept
  <2>2. CASE task[a].pc \in Placing
    <3>1. \A b \in Actor : task'[b].pc \in Placing => b = a
      BY <1>2, OnlyMover DEF Placing, Running
    <3>2. CASE PlacementFails(a)
      BY <3>1, <3>2, FailureLeaves DEF Kept
    <3>3. CASE PlaceBlocked(a) \/ PlaceFile(a) \/ UndoFile(a) \/ Trouble(a)
      BY <2>2, <3>1, <3>3, PlacingKeeps DEF Kept
    <3>4. ~ PersistBook(a)
      BY <2>2 DEF PersistBook, Placing
    <3> QED BY <1>2, <2>2, <3>2, <3>3, <3>4, HandlingSteps
            DEF HandlingStep, Handling, Placing
  <2> QED BY <2>1, <2>2
<1> QED BY <1>1, <1>2, NextMoves

\* Nothing is placed outside the root, and nothing moves there.
LEMMA OutsideKept ==
  ASSUME Inv, DiskTyped, OutsideStays, Next
  PROVE  OutsideStays'
<1> SUFFICES ASSUME NEW n \in Name, NEW f \in File
             PROVE  disk'[<<n, "outside", f>>] = disk[<<n, "outside", f>>]
  BY DEF OutsideStays
<1> DEFINE at == <<n, "outside", f>>
<1>1. at \in Path
  BY DEF Path, Place
<1>2. \A m, g, p : at # <<m, "home", g>> /\ at # <<m, "away", g>>
  OBVIOUS
<1>3. \A m, g, strategy : /\ Transferred(m, g, strategy)[at] = disk[at]
                          /\ Returned(m, g, strategy)[at] = disk[at]
                          /\ [disk EXCEPT ![<<m, "home", g>>] = "torn"][at]
                               = disk[at]
  BY <1>1, <1>2 DEF Transferred, Returned, DiskTyped
<1>4. ASSUME NEW a \in Actor, OnDisk(a) PROVE disk'[at] = disk[at]
  <2>1. CASE PlaceFile(a)
    BY <1>3, <2>1 DEF PlaceFile
  <2>2. CASE UndoFile(a)
    BY <1>3, <2>2 DEF UndoFile
  <2>3. ASSUME NEW torn \in BOOLEAN, PlaceBreaks(a, torn)
        PROVE  disk'[at] = disk[at]
    BY <1>3, <2>3 DEF PlaceBreaks
  <2> QED BY <1>4, <2>1, <2>2, <2>3 DEF OnDisk
<1> QED BY <1>4, DiskStays

\* What is on the disk while nobody is placing files may be relied on.
LEMMA FoundKept ==
  ASSUME OutsideStays, \A b \in Actor : task[b].pc \notin Placing,
         NEW n \in Name, NEW f \in File
  PROVE  /\ f \in FilesAt(<<n, "home">>) => Kept(n, f)
         /\ f \in FilesAt(<<n, "outside">>) => <<n, "outside">> \in Start
BY DEF FilesAt, Kept, OutsideStays

LEMMA IdleHolds == \A c, f : ~ Holds(IdleTask, c, f)
BY DEF IdleTask, Holds, NoFolder

\* What a caller holds is there after each of its own steps.
LEMMA LeavesKeepsScan ==
  ASSUME Inv, DiskTyped, OutsideStays, Next, NEW a \in Actor, Move(a),
         Leaves(a), ScanHolds(a)
  PROVE  ScanHolds(a)'
<1>1. PICK u : Become(a, u) /\ Passes(task[a], u)
  BY DEF Leaves
<1>2. task'[a] = u
  BY <1>1 DEF Become, Inv, TasksTyped
<1>3. u.pc \notin {"place", "probe"} \cup Recording
  BY <1>1 DEF Passes, Handed, Recording
<1>4. ASSUME NEW n \in Name, NEW f \in File
      PROVE  /\ Holds(u, <<n, "home">>, f) => Kept(n, f)'
             /\ Holds(u, <<n, "outside">>, f) => <<n, "outside">> \in Start
  <2>1. <<n, "home">> \in Folder /\ <<n, "outside">> \in Folder
    BY DEF Folder, Place
  <2>2. CASE task[a].pc \in Placing
    <3>1. Holds(u, <<n, "home">>, f) => Holds(task[a], <<n, "home">>, f)
      BY <1>1, <2>1, <2>2 DEF Passes
    <3>2. Holds(u, <<n, "outside">>, f) => Holds(task[a], <<n, "outside">>, f)
      BY <1>1, <2>1, <2>2 DEF Passes
    <3> QED BY <3>1, <3>2, KeptStays DEF ScanHolds
  <2>3. CASE task[a].pc \notin Placing
    <3>1. \A b \in Actor : task[b].pc \notin Placing
      BY <2>3, NobodyPlacing
    <3>2. /\ f \in FilesAt(<<n, "home">>) => Kept(n, f)
          /\ f \in FilesAt(<<n, "outside">>) => <<n, "outside">> \in Start
      BY <3>1, FoundKept
    <3>3. Holds(u, <<n, "home">>, f) =>
            \/ Holds(task[a], <<n, "home">>, f)
            \/ f \in FilesAt(<<n, "home">>)
      BY <1>1, <2>1 DEF Passes
    <3>4. Holds(u, <<n, "outside">>, f) =>
            \/ Holds(task[a], <<n, "outside">>, f)
            \/ f \in FilesAt(<<n, "outside">>)
      BY <1>1, <2>1 DEF Passes
    <3> QED BY <3>2, <3>3, <3>4, KeptStays DEF ScanHolds
  <2> QED BY <2>2, <2>3
<1> QED BY <1>2, <1>3, <1>4 DEF ScanHolds

\* One of the four steps on a candidate in hand: its files stay listed.
SameFiles(t, u) == /\ u.todo = t.todo /\ u.folder = t.folder
                   /\ u.listed = t.listed

LEMMA MatchedKeepsScan ==
  ASSUME Inv, DiskTyped, Next, NEW a \in Actor, ScanHolds(a),
         NEW b \in Book, NEW strategy \in Strategies, Matched(a, b, strategy)
  PROVE  ScanHolds(a)'
<1> DEFINE t == task[a]
           u == task'[a]
<1>1. t \in GoodTask /\ t \in Task /\ task \in [Actor -> GoodTask]
  BY TaskGood DEF Inv, TasksTyped
<1> DEFINE placing == t.folder[2] = "away"
<1>2. u = [t EXCEPT !.book = b,
                    !.strategy = IF placing THEN strategy ELSE @,
                    !.left = IF placing THEN t.listed ELSE {},
                    !.pc = IF placing THEN "place" ELSE "persist"]
  BY <1>1 DEF Matched, Become
<1>3. /\ SameFiles(t, u)
      /\ u.left = IF placing THEN t.listed ELSE {}
      /\ u.pc = IF placing THEN "place" ELSE "persist"
      /\ u.done = t.done
  BY <1>1, <1>2 DEF SameFiles, Task
<1>4. t.done = {}
  BY <1>1 DEF Matched, GoodTask, Handling
<1>5. ASSUME NEW n \in Name, NEW f \in File
      PROVE  /\ Holds(u, <<n, "home">>, f) => Kept(n, f)'
             /\ Holds(u, <<n, "outside">>, f) => <<n, "outside">> \in Start
  BY <1>3, KeptStays DEF ScanHolds, SameFiles, Holds
<1>6. u.pc = "place" => u.listed \subseteq u.left \cup u.done /\ u.done = {}
  BY <1>3, <1>4 DEF SameFiles
<1>7. u.pc \in Recording => \A n \in Name : u.folder # <<n, "away">>
  BY <1>3 DEF SameFiles, Recording
<1>8. u.pc # "probe"
  BY <1>3
<1> HIDE DEF u
<1> QED BY <1>5, <1>6, <1>7, <1>8 DEF ScanHolds, u

LEMMA PlaceFileKeepsScan ==
  ASSUME Inv, DiskTyped, Next, NEW a \in Actor, ScanHolds(a), Move(a),
         PlaceFile(a)
  PROVE  ScanHolds(a)'
<1> DEFINE t == task[a]
           u == task'[a]
           m == t.folder[1]
<1>1. /\ t \in GoodTask /\ t \in Task /\ task \in [Actor -> GoodTask]
      /\ t.pc = "place"
  BY TaskGood DEF Inv, TasksTyped, PlaceFile
<1>2. PICK g \in File :
        /\ First(a, g)
        /\ ~ Blocked(m, g)
        /\ disk' = Transferred(m, g, t.strategy)
        /\ Become(a, [t EXCEPT !.left = @ \ {g}, !.done = @ \cup {g},
                        !.pc = IF t.left = {g} THEN "persist" ELSE @])
  BY DEF PlaceFile
<1>3. u = [t EXCEPT !.left = @ \ {g}, !.done = @ \cup {g},
                    !.pc = IF t.left = {g} THEN "persist" ELSE @]
  BY <1>1, <1>2 DEF Become
<1>4. /\ SameFiles(t, u)
      /\ u.left = t.left \ {g} /\ u.done = t.done \cup {g}
      /\ u.pc = IF t.left = {g} THEN "persist" ELSE "place"
  BY <1>1, <1>3 DEF SameFiles, Task
<1>5. m \in Name
  BY <1>1 DEF GoodTask, Handling, Folder
<1>6. ASSUME NEW f \in u.done PROVE disk'[<<m, "home", f>>] # "absent"
  <2>1. f \in File /\ <<m, "home", f>> \in Path /\ <<m, "home", g>> \in Path
    BY <1>1, <1>2, <1>4, <1>5, <1>6 DEF Path, Place, Task
  <2>2. CASE f = g
    BY <1>2, <2>1, <2>2 DEF Transferred, Blocked, DiskTyped
  <2>3. CASE f # g
    <3>1. f \in t.done
      BY <1>4, <1>6, <2>3
    <3>2. disk[<<m, "home", f>>] # "absent"
      BY <1>1, <3>1 DEF ScanHolds
    <3> QED BY <1>2, <2>1, <2>3, <3>2 DEF Transferred, DiskTyped
  <2> QED BY <2>2, <2>3
<1>7. u.listed \subseteq u.left \cup u.done
  <2>1. t.listed \subseteq t.left \cup t.done
    BY <1>1 DEF ScanHolds
  <2> QED BY <1>4, <2>1 DEF SameFiles
<1>8. ASSUME NEW n \in Name, NEW f \in File
      PROVE  /\ Holds(u, <<n, "home">>, f) => Kept(n, f)'
             /\ Holds(u, <<n, "outside">>, f) => <<n, "outside">> \in Start
  BY <1>4, KeptStays DEF ScanHolds, SameFiles, Holds
<1>9. ASSUME u.pc = "persist", NEW n \in Name, u.folder = <<n, "away">>,
             NEW f \in u.listed
      PROVE  Kept(n, f)'
  <2>1. u.left = {}
    BY <1>4, <1>9
  <2>2. f \in u.done /\ n = m
    BY <1>4, <1>7, <1>9, <2>1 DEF SameFiles
  <2>3. \A b \in Actor : task'[b].pc \notin Placing
    <3>1. u.pc \notin Placing
      BY <1>9 DEF Placing
    <3> QED BY <3>1, OnlyMover DEF Placing, Running
  <2> QED BY <1>6, <2>2, <2>3 DEF Kept
<1>10. u.pc \in {"place", "persist"}
  BY <1>4
<1>11. u.folder = t.folder
  BY <1>4 DEF SameFiles
<1> HIDE DEF u
<1> QED BY <1>6, <1>7, <1>8, <1>9, <1>10, <1>11 DEF ScanHolds, Recording, u

\* A caller whose candidate is inserted and recorded, or abandoned.
LEMMA RecordingKeepsScan ==
  ASSUME Inv, DiskTyped, OutsideStays, Next, NEW a \in Actor, ScanHolds(a),
         Move(a), PersistBook(a) \/ RecordFile(a)
  PROVE  ScanHolds(a)'
<1> DEFINE t == task[a]
           u == task'[a]
<1>1. /\ t \in GoodTask /\ t \in Task /\ task \in [Actor -> GoodTask]
      /\ t.pc \in Recording
  BY TaskGood DEF Inv, TasksTyped, PersistBook, RecordFile, Recording
<1>2. CASE Raise(a)
  BY <1>2, RaiseLeaves, LeavesKeepsScan
<1>3. CASE ~ Raise(a)
  <2>1. /\ SameFiles(t, u) /\ u.left \subseteq u.listed
        /\ u.pc \in {"probe", "offer"}
    <3>1. CASE PersistBook(a)
      <4>1. u = [t EXCEPT !.pc = "probe", !.done = {}, !.left = t.listed]
        BY <1>1, <1>3, <3>1 DEF PersistBook, Become
      <4> QED BY <1>1, <4>1 DEF SameFiles, Task
    <3>2. CASE RecordFile(a)
      <4>1. PICK f \in File : 
              u = [t EXCEPT !.left = @ \ {f}, !.pc =
                     IF t.left = {f} THEN "offer" ELSE @]
        BY <1>1, <1>3, <3>2 DEF RecordFile, Become
      <4>2. t.pc = "probe" /\ t.left \subseteq t.listed
        BY <3>2 DEF RecordFile, ScanHolds
      <4> QED BY <1>1, <4>1, <4>2 DEF SameFiles, Task
    <3> QED BY <3>1, <3>2
  <2>2. ASSUME NEW n \in Name, NEW f \in File
        PROVE  /\ Holds(u, <<n, "home">>, f) => Kept(n, f)'
               /\ Holds(u, <<n, "outside">>, f) => <<n, "outside">> \in Start
    BY <2>1, KeptStays DEF ScanHolds, SameFiles, Holds
  <2>3. ASSUME NEW n \in Name, u.folder = <<n, "away">>, NEW f \in u.listed
        PROVE  Kept(n, f)'
    <3>1. f \in File /\ Kept(n, f)
      BY <1>1, <2>1, <2>3 DEF ScanHolds, SameFiles, Task
    <3> QED BY <3>1, KeptStays
  <2> HIDE DEF u
  <2> QED BY <2>1, <2>2, <2>3 DEF ScanHolds, u
<1> QED BY <1>2, <1>3

\* What every caller holds is there after every step.
LEMMA ScanKept ==
  ASSUME Inv, DiskTyped, OutsideStays, Next, \A a \in Actor : ScanHolds(a)
  PROVE  \A a \in Actor : ScanHolds(a)'
<1>1. CASE Crash
  <2>1. task' = [a \in Actor |-> IdleTask]
    BY <1>1 DEF Crash
  <2>2. IdleTask.pc = "idle"
    BY DEF IdleTask
  <2> QED BY <2>1, <2>2, IdleHolds DEF ScanHolds, Recording
<1>2. ASSUME NEW m \in Actor, Move(m), Leaves(m) \/ HandsOn(m), NEW a \in Actor
      PROVE  ScanHolds(a)'
  <2>1. CASE a = m
    BY <1>2, <2>1, LeavesKeepsScan, MatchedKeepsScan, PlaceFileKeepsScan,
       RecordingKeepsScan DEF HandsOn
  <2>2. CASE a # m
    <3>1. task'[a] = task[a]
      BY <1>2, <2>2 DEF Move, Goes, Become, Inv, TasksTyped
    <3>2. task[a].pc \notin {"place", "persist"}
      BY <1>2, <2>2, OnlyMover DEF Running
    <3>3. task[a] \in Task
      BY TaskGood
    <3>4. ASSUME NEW n \in Name, NEW f \in File
          PROVE  /\ Holds(task[a], <<n, "home">>, f) => Kept(n, f)'
                 /\ Holds(task[a], <<n, "outside">>, f) =>
                      <<n, "outside">> \in Start
      BY KeptStays DEF ScanHolds
    <3>5. ASSUME task[a].pc \in Recording, NEW n \in Name,
                 task[a].folder = <<n, "away">>, NEW f \in task[a].listed
          PROVE  Kept(n, f)'
      <4>1. f \in File /\ Kept(n, f)
        BY <3>3, <3>5 DEF ScanHolds, Task
      <4> QED BY <4>1, KeptStays
    <3>6. task[a].pc = "probe" => task[a].left \subseteq task[a].listed
      BY DEF ScanHolds
    <3> QED BY <3>1, <3>2, <3>4, <3>5, <3>6 DEF ScanHolds
  <2> QED BY <2>1, <2>2
<1> QED BY <1>1, <1>2, NextLeaves

(***************************************************************************)
(* What a step does to the rows of the database.                           *)
(***************************************************************************)
\* The same books, rows and download states, whatever the problems.
Alike(x, y) ==
  x.books = y.books /\ x.catalog = y.catalog /\ x.ledger = y.ledger

\* A commit, or a note among the problems of the imports.
Carried == Alike(tx', tx) /\ (Alike(db', db) \/ Alike(db', tx))

\* What is uncommitted is dropped.
Dropped == Rollback("scan") \/ Crash

\* The poller has a download in hand.
Busy == {"take", "next", "search", "place", "undo", "persist", "probe",
         "offer", "event", "rescan"}

\* A download is called imported after a run that saw its folder as one of the
\* library, or when the single import of it finds, or has inserted, its book.
Good == {"matched", "duplicate"}
Grounded(phase, data) ==
  LET t == task["poll"]
  IN /\ t.pc \in Busy
     /\ phase \in {"imported", "failed", "skipped", "retry"}
     /\ phase = "retry" => t.client # "sab"
     /\ phase = "imported" =>
          /\ Alike(data, View("poll"))
          /\ \/ t.pc = "rescan" /\ t.out[FolderOf[t.item]] \in Good
             \/ /\ t.mode # "run" /\ t.book \in Book
                /\ t.pc = "event" \/ View("poll").books[t.book] > 0

\* The poller records how its download ended, with its other rows or alone.
PollSettles ==
  \E phase, data :
    /\ Settle(phase, data) /\ Grounded(phase, data) /\ data \in Store
    /\ Alike(data, db) \/ Alike(data, View("poll"))

Records(phase, data) ==
  /\ db'.books = data.books /\ db'.catalog = data.catalog
  /\ db'.ledger = [data.ledger EXCEPT ![task["poll"].item] = phase]
  /\ tx' = db'

\* The two steps that write rows of a book.
Inserts(a) ==
  PersistBook(a) /\ Write(a, [View(a) EXCEPT !.books[task[a].book] = @ + 1])

Catalogues(a) ==
  /\ RecordFile(a)
  /\ \E f \in task[a].left :
       Write(a, [tx EXCEPT !.catalog[RowOf(task[a].folder, f)] = task[a].book])

StoreStep ==
  \/ Carried \/ Dropped
  \/ PollSettles
  \/ \E a \in Actor : Inserts(a) \/ Catalogues(a)

\* Writing what is seen, committing it, and writing nothing carry the rows over.
LEMMA StaysCarried ==
  ASSUME UNCHANGED store
  PROVE  Carried
BY DEF Carried, Alike, store

LEMMA WriteCarried ==
  ASSUME NEW a \in Actor, CanWrite(a), LockKept, NEW data,
         Alike(data, View(a)), Write(a, data)
  PROVE  Carried
BY DEF Write, Carried, Alike, View, CanWrite, LockKept, Actor, Nobody

LEMMA CommitCarried ==
  ASSUME NEW a \in Actor, CanWrite(a), LockKept, NEW data,
         Alike(data, View(a)), Commit(data)
  PROVE  Carried
BY DEF Commit, Carried, Alike, View, CanWrite, LockKept, Actor, Nobody

LEMMA CommitOwnCarried ==
  ASSUME NEW a, CommitOwn(a)
  PROVE  Carried
BY StaysCarried DEF CommitOwn, Commit, Carried, Alike

\* How the ends of a candidate and of a download touch the rows.
LEMMA SettleRecords ==
  ASSUME NEW phase, NEW data \in Store, Settle(phase, data)
  PROVE  UNCHANGED store \/ Records(phase, data)
<1> DEFINE i == task["poll"].item
           row == [data EXCEPT !.ledger[i] = phase]
<1>1. CASE CanWrite("poll")
  <2>1. Commit(row)
    BY <1>1 DEF Settle
  <2>2. /\ row.books = data.books /\ row.catalog = data.catalog
        /\ row.ledger = [data.ledger EXCEPT ![i] = phase]
    BY DEF Store
  <2> HIDE DEF row
  <2> QED BY <2>1, <2>2 DEF Commit, Records
<1>2. CASE ~ CanWrite("poll")
  BY <1>2 DEF Settle
<1> QED BY <1>1, <1>2

LEMMA ErrorSettles ==
  ASSUME Inv, task["poll"].pc \in Busy,
         NEW phase \in {"failed", "skipped", "retry"},
         phase = "retry" => task["poll"].client # "sab",
         NEW data \in {db, View("poll")}, Settle(phase, data)
  PROVE  PollSettles
<1>1. /\ data \in Store
      /\ Alike(data, db) \/ Alike(data, View("poll"))
  BY ViewTyped DEF Inv, StoreTyped, Alike
<1>2. Grounded(phase, data)
  BY DEF Grounded
<1> QED BY <1>1, <1>2 DEF PollSettles

LEMMA RaiseStore ==
  ASSUME Inv, NEW a \in Actor, task[a].pc \in Busy, Raise(a)
  PROVE  StoreStep
<1>1. CASE a = "poll"
  <2>1. Settle(AfterError(task[a].client), db)
    BY <1>1 DEF Raise
  <2>2. PollSettles
    BY <1>1, <2>1, ErrorSettles DEF AfterError
  <2> QED BY <2>2 DEF StoreStep
<1>2. CASE a # "poll"
  BY <1>2, CommitOwnCarried DEF Raise, Actor, StoreStep, Dropped
<1> QED BY <1>1, <1>2

LEMMA ReturnStore ==
  ASSUME Inv, NEW a \in Actor, NEW outcome, NEW data \in Store,
         Alike(data, View(a)), Return(a, outcome, data),
         a = "poll" => Grounded(PhaseOf(outcome), data)
  PROVE  StoreStep
<1>1. a = "poll" => Settle(PhaseOf(outcome), data)
  BY DEF Return
<1>2. a # "poll" => (CanWrite(a) /\ Commit(data)) \/ UNCHANGED store
  BY DEF Return
<1>3. a # "poll" => Carried
  BY <1>2, CommitCarried, StaysCarried DEF Inv
<1> QED BY <1>1, <1>3 DEF StoreStep, PollSettles

LEMMA NotedAlike ==
  ASSUME NEW data \in Store, NEW S
  PROVE  Alike([data EXCEPT !.problems = S], data)
BY DEF Alike, Store

LEMMA ConcludeStore ==
  ASSUME Inv, NEW a \in Actor, task[a].pc \in Busy,
         NEW outcome, Conclude(a, outcome),
         outcome \in Good => /\ task[a].mode # "run" => task[a].book \in Book
                             /\ View(a).books[task[a].book] > 0
  PROVE  StoreStep
<1> DEFINE data == [View(a) EXCEPT !.problems = @ \ {task[a].folder}]
<1>1. View(a) \in Store
  BY ViewTyped DEF Inv
<1>2. View(a).problems \ {task[a].folder} \subseteq Folder
  BY <1>1 DEF Store
<1>3. data \in Store /\ Alike(data, View(a))
  BY <1>1, <1>2, ProblemsTyped, NotedAlike
<1>4. \/ UNCHANGED store \/ Raise(a)
      \/ task[a].mode # "run" /\ Return(a, outcome, data)
  BY DEF Conclude
<1> HIDE DEF data
<1>5. a = "poll" /\ task[a].mode # "run" => Grounded(PhaseOf(outcome), data)
  BY <1>3 DEF Grounded, PhaseOf, Good
<1> QED BY <1>3, <1>4, <1>5, StaysCarried, ReturnStore, RaiseStore DEF StoreStep

LEMMA OfferStore ==
  ASSUME Inv, NEW a \in Actor, NEW enqueued \in BOOLEAN, Offer(a, enqueued)
  PROVE  Carried
<1> DEFINE noted == [tx EXCEPT !.problems = @ \ {task[a].folder}]
<1>1. /\ db' = IF enqueued THEN tx ELSE db
      /\ tx' = IF task[a].mode = "single" THEN noted ELSE tx
  BY DEF Offer
<1>2. Alike(noted, tx)
  BY NotedAlike DEF Inv, StoreTyped
<1> HIDE DEF noted
<1> QED BY <1>1, <1>2 DEF Carried, Alike

LEMMA RunEndsStore ==
  ASSUME Inv, NEW a \in Actor, RunEnds(a)
  PROVE  StoreStep
<1> DEFINE data == [View(a) EXCEPT !.problems =
                      (@ \ Seen(a)) \cup Unmatched(a)]
<1>1. UNCHANGED store \/ (CanWrite(a) /\ Write(a, data)) \/ Raise(a)
  BY DEF RunEnds
<1>2. Alike(data, View(a))
  BY ViewTyped, NotedAlike DEF Inv
<1>3. task[a].pc \in Busy
  BY DEF RunEnds, Busy
<1> HIDE DEF data
<1> QED BY <1>1, <1>2, <1>3, StaysCarried, WriteCarried, RaiseStore
        DEF StoreStep, Inv

LEMMA ViewOfStore ==
  ASSUME Inv, NEW a \in Actor
  PROVE  View(a) \in Store /\ View(a) \in {db, tx} /\ Alike(View(a), View(a))
BY ViewTyped DEF Inv, View, Alike

\* Every step carries the rows over, drops what is uncommitted, settles a
\* download or inserts for a candidate.
LEMMA StepStore ==
  ASSUME Inv, NEW a \in Actor, Step(a)
  PROVE  StoreStep
<1>1. CASE NextCandidate(a) \/ PlaceBlocked(a) \/ PlaceFile(a) \/ UndoFile(a)
  BY <1>1, StaysCarried
  DEF NextCandidate, PlaceBlocked, PlaceFile, UndoFile, StoreStep
<1>2. CASE RunEnds(a) \/ \E enqueued \in BOOLEAN : Offer(a, enqueued)
  BY <1>2, RunEndsStore, OfferStore DEF StoreStep
<1>3. CASE Rescanned(a)
  <2> DEFINE outcome == IF a = "poll" THEN task[a].out[FolderOf[task[a].item]]
                                      ELSE "none"
  <2>1. Return(a, outcome, View(a)) /\ task[a].pc = "rescan"
    BY <1>3 DEF Rescanned
  <2>2. a = "poll" => Grounded(PhaseOf(outcome), View(a))
    BY <2>1, ViewOfStore DEF Grounded, PhaseOf, Good, Busy
  <2> HIDE DEF outcome
  <2> QED BY <2>1, <2>2, ViewOfStore, ReturnStore
<1>4. CASE NoMatch(a) \/ PlacementFails(a)
  BY <1>4, ConcludeStore DEF NoMatch, PlacementFails, Busy, Good
<1>5. ASSUME NEW b \in Book, Duplicate(a, b) PROVE StoreStep
  <2>1. task[a].mode # "run" => task[a].book = b
    BY <1>5 DEF Duplicate, Found
  <2>2. CASE task[a].mode = "run"
    BY <1>5, <2>2, StaysCarried DEF Duplicate, Conclude, StoreStep
  <2>3. CASE task[a].mode # "run"
    BY <1>5, <2>1, <2>3, ConcludeStore DEF Duplicate, Busy, Known
  <2> QED BY <2>2, <2>3
<1>6. CASE AsinUnknown(a)
  <2>1. task[a].pc \in Busy
    BY <1>6 DEF AsinUnknown, Busy
  <2>2. \/ a = "poll" /\ Settle("failed", View(a))
        \/ UNCHANGED store \/ Raise(a)
    BY <1>6 DEF AsinUnknown
  <2> QED BY <2>1, <2>2, ErrorSettles, StaysCarried, RaiseStore DEF StoreStep
<1>7. CASE LookupRaises(a)
  BY <1>7, RaiseStore DEF LookupRaises, Busy
<1>8. CASE \E b \in Book, s \in Strategies : Matched(a, b, s)
  BY <1>8, StaysCarried DEF Matched, StoreStep
<1>9. CASE PersistBook(a)
  BY <1>9, RaiseStore DEF PersistBook, StoreStep, Inserts, Busy
<1>10. CASE RecordFile(a)
  BY <1>10, RaiseStore DEF RecordFile, StoreStep, Catalogues, First, Busy
<1>11. CASE Dispatched(a)
  <2>1. CASE task[a].mode = "run"
    BY <1>11, <2>1, StaysCarried DEF Dispatched, StoreStep
  <2>2. CASE task[a].mode # "run"
    <3>1. task[a].pc = "event" /\ Return(a, "matched", View(a))
      BY <1>11, <2>2 DEF Dispatched
    <3>2. task[a].book \in Book
      BY <3>1, TaskGood DEF GoodTask
    <3>3. a = "poll" => Grounded(PhaseOf("matched"), View(a))
      BY <2>2, <3>1, <3>2, ViewOfStore DEF Grounded, PhaseOf, Busy
    <3> QED BY <3>1, <3>3, ViewOfStore, ReturnStore
  <2> QED BY <2>1, <2>2
<1> QED BY <1>1, <1>2, <1>3, <1>4, <1>5, <1>6, <1>7, <1>8, <1>9, <1>10, <1>11
        DEF Step

LEMMA NextStore ==
  ASSUME Inv, Next
  PROVE  StoreStep
<1>1. ASSUME NEW a \in Actor, StartRun(a) \/ Trouble(a) PROVE StoreStep
  BY <1>1, StaysCarried
  DEF StartRun, Trouble, PlaceBreaks, UndoBreaks, store, StoreStep
<1>2. ASSUME NEW c \in Folder, NEW b \in Book, StartMatch(c, b) PROVE StoreStep
  BY <1>2, StaysCarried DEF StartMatch, StoreStep
<1>3. CASE StartTick \/ ListEnds \/ (\E ok \in BOOLEAN : Listed(ok))
             \/ (\E i \in Item : PickItem(i)) \/ TakeByAsin \/ TakeByRun
  BY <1>3, StaysCarried
  DEF StartTick, ListEnds, Listed, PickItem, TakeByAsin, TakeByRun, StoreStep
<1>4. CASE PathOutside
  <2>1. /\ Settle(AfterError(task["poll"].client), db)
        /\ task["poll"].pc \in Busy
    BY <1>4 DEF PathOutside, Busy
  <2> QED BY <2>1, ErrorSettles DEF AfterError, StoreStep
<1>5. CASE PathMissing
  <2>1. /\ \/ Settle("skipped", db)
           \/ task["poll"].client # "sab" /\ Settle("retry", db)
        /\ task["poll"].pc \in Busy
    BY <1>5 DEF PathMissing, Busy
  <2> QED BY <2>1, ErrorSettles DEF StoreStep
<1>6. CASE Crash
  BY <1>6 DEF StoreStep, Dropped
<1> QED BY <1>1, <1>2, <1>3, <1>6, <1>4, <1>5, StepStore DEF Next, Poll

\* A new row is the row of a file that is there to stay.
LEMMA RowsStay ==
  ASSUME Inv, DiskTyped, RowsInv, Next
  PROVE  RowsKept'
<1> SUFFICES ASSUME NEW r \in RowPath,
                    db'.catalog[r] # NoBook \/ tx'.catalog[r] # NoBook
             PROVE  RowKept(r)'
  BY DEF RowsKept
<1>1. r[1] \in Name /\ r[3] \in File
  BY DEF RowPath
<1>2. CASE db.catalog[r] # NoBook \/ tx.catalog[r] # NoBook
  <2>1. RowKept(r)
    BY <1>2 DEF RowsInv, RowsKept
  <2> QED BY <1>1, <2>1, KeptStays DEF RowKept
<1>3. CASE db.catalog[r] = NoBook /\ tx.catalog[r] = NoBook
  <2>1. PICK a \in Actor : Catalogues(a)
    <3>1. ~ Carried /\ ~ Dropped
      BY <1>3 DEF Carried, Alike, Dropped, Rollback, Crash
    <3>2. ~ PollSettles
      BY <1>3, SettleRecords
      DEF PollSettles, Records, Alike, View, store
    <3>3. ASSUME NEW b \in Actor PROVE ~ Inserts(b)
      <4>1. View(b) \in Store /\ View(b) \in {db, tx}
        BY ViewOfStore
      <4>2. Inserts(b) => db' = db /\ tx'.catalog = View(b).catalog
        BY <4>1 DEF Inserts, Write, Store
      <4> QED BY <1>3, <4>1, <4>2
    <3> QED BY <3>1, <3>3, <3>2, NextStore DEF StoreStep
  <2> DEFINE t == task[a]
  <2>2. PICK f \in t.left :
          Write(a, [tx EXCEPT !.catalog[RowOf(t.folder, f)] = t.book])
    BY <2>1 DEF Catalogues
  <2>3. tx \in Store /\ t.pc = "probe" /\ t \in GoodTask /\ t \in Task
    BY <2>1, TaskGood DEF Inv, StoreTyped, Catalogues, RecordFile
  <2>4. r = RowOf(t.folder, f)
    BY <1>3, <2>2, <2>3 DEF Write, Store
  <2>5. f \in File /\ f \in t.listed /\ t.folder \in Folder
    BY <2>3 DEF RowsInv, ScanHolds, GoodTask, Task, Writing
  <2>6. PICK n \in Name, p \in Place : t.folder = <<n, p>>
    BY <2>5 DEF Folder
  <2>7. ScanHolds(a)
    BY DEF RowsInv
  <2>8. CASE p = "outside"
    <3>1. Holds(t, <<n, "outside">>, f)
      BY <2>5, <2>6, <2>8 DEF Holds
    <3>2. <<n, "outside">> \in Start
      BY <2>5, <2>7, <3>1 DEF ScanHolds
    <3>3. r = <<n, "relative", f>>
      BY <2>4, <2>6, <2>8 DEF RowOf
    <3> QED BY <3>2, <3>3 DEF RowKept
  <2>9. CASE p # "outside"
    <3>1. r = <<n, "home", f>>
      BY <2>4, <2>6, <2>9 DEF RowOf
    <3>2. Kept(n, f)
      <4>1. CASE p = "home"
        <5>1. Holds(t, <<n, "home">>, f)
          BY <2>5, <2>6, <4>1 DEF Holds
        <5> QED BY <2>5, <2>6, <2>7, <5>1 DEF ScanHolds
      <4>2. CASE p = "away"
        BY <2>3, <2>5, <2>6, <2>7, <4>2 DEF ScanHolds, Recording
      <4> QED BY <2>9, <4>1, <4>2 DEF Place
    <3>3. Kept(n, f)'
      BY <2>5, <3>2, KeptStays
    <3> QED BY <3>1, <3>3 DEF RowKept
  <2> QED BY <2>8, <2>9
<1> QED BY <1>2, <1>3

\* Every committed row names a file that is there: what a scan finds in place
\* stays, what a placement has put there is recorded only when nothing can take
\* it back, and a placement never takes over a path that was taken.
THEOREM RowsAlwaysNameFiles == Spec => []RowsNameFiles
<1>1. Init => RowsInv
  <2> SUFFICES ASSUME Init PROVE RowsInv
    OBVIOUS
  <2>1. OutsideStays
    <3>1. ASSUME NEW n \in Name, NEW f \in File,
                 disk[<<n, "outside", f>>] # "absent"
          PROVE  <<n, "outside">> \in Start
      <4>1. <<n, "outside", f>> \in Path
        BY DEF Path, Place
      <4> QED BY <3>1, <4>1 DEF Init
    <3> QED BY <3>1 DEF OutsideStays
  <2>2. RowsKept
    BY DEF Init, RowsKept
  <2>3. ASSUME NEW a \in Actor PROVE ScanHolds(a)
    <3>1. task[a] = IdleTask
      BY DEF Init
    <3>2. IdleTask.pc = "idle"
      BY DEF IdleTask
    <3> QED BY <3>1, <3>2, IdleHolds DEF ScanHolds, Recording
  <2> QED BY <2>1, <2>2, <2>3 DEF RowsInv
<1>2. Inv /\ TypeOK /\ RowsInv /\ [Next]_vars => RowsInv'
  <2>1. ASSUME Inv, TypeOK, RowsInv, Next PROVE RowsInv'
    <3>1. DiskTyped
      BY <2>1 DEF TypeOK, DiskTyped
    <3> QED BY <2>1, <3>1, RowsStay, ScanKept, OutsideKept DEF RowsInv
  <2>2. ASSUME RowsInv, UNCHANGED vars PROVE RowsInv'
    BY <2>2 DEF vars, store, RowsInv, OutsideStays, RowsKept, RowKept, Kept,
                ScanHolds
  <2> QED BY <2>1, <2>2
<1>3. RowsInv => RowsNameFiles
  <2> SUFFICES ASSUME RowsInv, NEW r \in RowPath, db.catalog[r] # NoBook,
                      r[2] # "relative"
               PROVE  disk[r] # "absent"
    BY DEF RowsInv, RowsNameFiles, RowsKept, RowKept
  <2>1. r[2] = "home" /\ Kept(r[1], r[3])
    BY DEF RowsInv, RowsKept, RowKept
  <2>2. r = <<r[1], r[2], r[3]>>
    BY DEF RowPath
  <2> QED BY <2>1, <2>2 DEF Kept
<1> QED BY <1>1, <1>2, <1>3, InvAlways, TypeCorrect, PTL DEF Spec

(***************************************************************************)
(* The state rows of the downloads.                                        *)
(***************************************************************************)
\* No book of V is missing in W.
Grown(V, W) == \A b \in Book : V[b] <= W[b]

\* The coroutine t of the poller, with the state rows led and the library V
\* that it sees: the download in hand is not settled, a single import is the
\* import of its folder under the ASIN in the name, and what the poller counts
\* as imported is in the library.
PollSound(t, led, V) ==
  /\ t.queue \subseteq Reported(t.client)
  /\ t.pc \in Busy => /\ t.item \in Item /\ t.client = ClientOf[t.item]
                      /\ led[t.item] \in {"none", "retry"}
  /\ t.mode = "single" => /\ t.folder = FolderOf[t.item]
                          /\ t.book = AsinOf[t.folder[1]]
  /\ t.pc \in {"item", "next", "rescan"} => t.mode = "run"
  /\ t.mode = "run" /\ t.pc \in {"event"} \cup Handling \cup Writing =>
       t.book \in Hits[t.folder[1]]
  /\ t.pc \in {"event"} \cup Writing => V[t.book] > 0
  /\ \A c \in Folder : t.out[c] \in Good => \E b \in Hits[c[1]] : V[b] > 0

\* The inductive invariant of the state rows.
LedgerInv ==
  /\ tx.ledger = db.ledger
  /\ Grown(db.books, tx.books)
  /\ PollSound(task["poll"], db.ledger, View("poll").books)

LEMMA HitsAreBooks ==
  ASSUME NEW c \in Folder
  PROVE  Hits[c[1]] \subseteq Book
BY HitsAssumption DEF Folder

\* What is sound stays so in a larger library, and for an idle coroutine, a
\* new run, a single import and the next candidate.
LEMMA SoundGrows ==
  ASSUME NEW t \in GoodTask, NEW led, NEW V \in [Book -> Nat],
         NEW W \in [Book -> Nat], Grown(V, W), PollSound(t, led, V)
  PROVE  PollSound(t, led, W)
<1>1. \A b \in Book : V[b] > 0 => W[b] > 0
  BY DEF Grown
<1>2. t.pc \in {"event"} \cup Writing => W[t.book] > 0
  BY <1>1 DEF PollSound, GoodTask
<1>3. ASSUME NEW c \in Folder, t.out[c] \in Good
      PROVE  \E b \in Hits[c[1]] : W[b] > 0
  <2>1. PICK b \in Hits[c[1]] : V[b] > 0
    BY <1>3 DEF PollSound
  <2> QED BY <1>1, <2>1, HitsAreBooks
<1> QED BY <1>2, <1>3 DEF PollSound

LEMMA IdleSound ==
  ASSUME NEW t, t.pc \notin Busy, t.mode = "run",
         t.queue \subseteq Reported(t.client),
         \A c \in Folder : t.out[c] = "none", NEW led, NEW V
  PROVE  PollSound(t, led, V)
BY DEF PollSound, Busy, Handling, Writing, Good

LEMMA RunSound ==
  ASSUME NEW t \in Task, t.pc \in Busy, NEW led, NEW V, PollSound(t, led, V)
  PROVE  PollSound(RunTask(t), led, V)
<1> DEFINE u == RunTask(t)
<1>1. /\ u.pc = "next" /\ u.mode = "run" /\ u.item = t.item
      /\ u.client = t.client /\ u.queue = t.queue
      /\ u.out = [c \in Folder |-> "none"]
  BY DEF RunTask, Task
<1> HIDE DEF u
<1>2. PollSound(u, led, V)
  BY <1>1 DEF PollSound, Busy, Handling, Writing, Good
<1> QED BY <1>2 DEF u

LEMMA SingleSound ==
  ASSUME NEW t \in Task, t.pc \in Busy, NEW led, NEW V, PollSound(t, led, V)
  PROVE  PollSound(SingleTask(t, FolderOf[t.item], AsinOf[FolderOf[t.item][1]]),
                   led, V)
<1> DEFINE d == FolderOf[t.item]
           u == SingleTask(t, d, AsinOf[d[1]])
<1>1. /\ u.pc = "search" /\ u.mode = "single" /\ u.item = t.item
      /\ u.client = t.client /\ u.queue = t.queue
      /\ u.folder = d /\ u.book = AsinOf[d[1]]
      /\ u.out = [c \in Folder |-> "none"]
  BY DEF SingleTask, Task
<1> HIDE DEF u
<1>2. PollSound(u, led, V)
  BY <1>1 DEF PollSound, Busy, Handling, Writing, Good
<1> QED BY <1>2 DEF u

LEMMA FinishedSound ==
  ASSUME NEW t \in Task, t.pc \in Busy, t.mode = "run", NEW led, NEW V,
         PollSound(t, led, V), NEW outcome,
         outcome \in Good => \E b \in Hits[t.folder[1]] : V[b] > 0
  PROVE  PollSound(Finished(t, outcome), led, V)
<1> DEFINE u == Finished(t, outcome)
<1>1. /\ u.pc = "next" /\ u.mode = "run" /\ u.item = t.item
      /\ u.client = t.client /\ u.queue = t.queue
      /\ u.out = [t.out EXCEPT ![t.folder] = outcome]
  BY DEF Finished, Task
<1>2. t.out \in [Folder -> Outcome]
  BY DEF Task
<1> HIDE DEF u
<1>3. \A c \in Folder : u.out[c] \in Good => \E b \in Hits[c[1]] : V[b] > 0
  BY <1>1, <1>2 DEF PollSound
<1>4. PollSound(u, led, V)
  BY <1>1, <1>3 DEF PollSound, Busy, Handling, Writing
<1> QED BY <1>4 DEF u

\* The coroutine goes on with the download and the candidate in hand.
LEMMA SameSound ==
  ASSUME NEW t, NEW u, NEW led, NEW V, PollSound(t, led, V), t.pc \in Busy,
         u.queue = t.queue, u.client = t.client, u.item = t.item,
         u.mode = t.mode, u.folder = t.folder, u.out = t.out,
         u.pc \in {"event", "search"} \cup Handling \cup Writing,
         \/ u.book = t.book /\ t.pc \in {"event"} \cup Handling \cup Writing
         \/ /\ t.mode = "run" => u.book \in Hits[t.folder[1]]
            /\ t.mode # "run" => u.book = t.book,
         u.pc \in {"event"} \cup Writing => V[u.book] > 0
  PROVE  PollSound(u, led, V)
BY DEF PollSound, Busy, Handling, Writing

\* An import that ends settles the download or drops it.
LEMMA SettleSound ==
  ASSUME Inv, NEW phase, NEW data, Settle(phase, data), NEW led, NEW V,
         task["poll"].queue \subseteq Reported(task["poll"].client)
  PROVE  PollSound(task'["poll"], led, V) /\ task'["poll"].pc \notin Busy
<1> DEFINE t == task["poll"]
           next == [IdleTask EXCEPT !.pc = "item", !.queue = t.queue,
                                    !.client = t.client]
           last == [IdleTask EXCEPT !.pc = IF t.client = "sab" THEN "dead"
                                                              ELSE "idle"]
<1>1. /\ next.pc = "item" /\ next.mode = "run" /\ next.queue = t.queue
      /\ next.client = t.client
      /\ \A c \in Folder : next.out[c] = "none"
  BY DEF IdleTask
<1>2. /\ last.pc \in {"dead", "idle"} /\ last.mode = "run" /\ last.queue = {}
      /\ \A c \in Folder : last.out[c] = "none"
  BY DEF IdleTask
<1>3. task'["poll"] = next \/ task'["poll"] = last
  BY DEF Settle, Become, Inv, TasksTyped, Actor
<1> HIDE DEF next, last
<1> QED BY <1>1, <1>2, <1>3, IdleSound DEF Busy

LEMMA PollTask ==
  ASSUME Inv
  PROVE  /\ task["poll"] \in GoodTask /\ task["poll"] \in Task
         /\ "poll" \in Actor
         /\ \A u : Become("poll", u) => task'["poll"] = u
<1>1. "poll" \in Actor
  BY DEF Actor
<1> QED BY <1>1, TaskGood DEF Become, Inv, TasksTyped

LEMMA EndSound ==
  ASSUME Inv, NEW led, NEW W, PollSound(task["poll"], led, W),
         \/ Raise("poll")
         \/ \E outcome, data : Return("poll", outcome, data)
         \/ \E phase, data : Settle(phase, data)
  PROVE  PollSound(task'["poll"], led, W)
BY SettleSound DEF Raise, Return, PollSound

LEMMA ConcludeSound ==
  ASSUME Inv, NEW led, NEW W, PollSound(task["poll"], led, W),
         task["poll"].pc \in Busy, NEW outcome, Conclude("poll", outcome),
         outcome \in Good /\ task["poll"].mode = "run" =>
           \E b \in Hits[task["poll"].folder[1]] : W[b] > 0
  PROVE  PollSound(task'["poll"], led, W)
<1>1. \/ task["poll"].mode = "run"
         /\ Become("poll", Finished(task["poll"], outcome))
      \/ Raise("poll")
      \/ \E data : Return("poll", outcome, data)
  BY DEF Conclude
<1>2. ASSUME task["poll"].mode = "run",
             Become("poll", Finished(task["poll"], outcome))
      PROVE  PollSound(task'["poll"], led, W)
  <2>1. PollSound(Finished(task["poll"], outcome), led, W)
    BY <1>2, PollTask, FinishedSound
  <2> QED BY <1>2, <2>1, PollTask
<1> QED BY <1>1, <1>2, EndSound

\* The steps of the poller outside of an import.
LEMMA TickSound ==
  ASSUME Inv, NEW W, PollSound(task["poll"], db.ledger, W),
         StartTick \/ Poll \/ PathMissing
  PROVE  PollSound(task'["poll"], db.ledger, W)
<1> DEFINE t == task["poll"]
           u == task'["poll"]
           led == db.ledger
<1>1. t \in Task /\ t \in GoodTask
  BY PollTask
<1>2. PollSound(IdleTask, led, W)
  <2>1. /\ IdleTask.pc \notin Busy /\ IdleTask.mode = "run"
        /\ IdleTask.queue = {} /\ \A c \in Folder : IdleTask.out[c] = "none"
    BY DEF IdleTask, Busy
  <2> QED BY <2>1, IdleSound
<1>3. CASE StartTick \/ \E ok \in BOOLEAN : Listed(ok)
  <2> DEFINE first == [IdleTask EXCEPT !.pc = "item", !.queue = Reported("sab")]
             next == [IdleTask EXCEPT !.pc = "item", !.queue = Reported("qb"),
                                      !.client = "qb"]
  <2>1. /\ first.pc = "item" /\ first.mode = "run" /\ first.client = "sab"
        /\ first.queue = Reported("sab")
        /\ \A c \in Folder : first.out[c] = "none"
    BY DEF IdleTask
  <2>2. /\ next.pc = "item" /\ next.mode = "run" /\ next.client = "qb"
        /\ next.queue = Reported("qb")
        /\ \A c \in Folder : next.out[c] = "none"
    BY DEF IdleTask
  <2>3. u = first \/ u = next \/ u = IdleTask
    BY <1>3, PollTask DEF StartTick, Listed
  <2> HIDE DEF first, next
  <2>4. PollSound(first, led, W) /\ PollSound(next, led, W)
    BY <2>1, <2>2, IdleSound DEF Busy
  <2> QED BY <2>3, <2>4, <1>2
<1>4. CASE ListEnds
  <2>1. u = [t EXCEPT !.pc = "list"] \/ u = IdleTask
    BY <1>4, PollTask DEF ListEnds
  <2>2. CASE u = [t EXCEPT !.pc = "list"]
    <3>1. /\ u.pc = "list" /\ u.queue = t.queue /\ u.client = t.client
          /\ u.mode = t.mode /\ u.folder = t.folder /\ u.book = t.book
          /\ u.item = t.item /\ u.out = t.out
      BY <1>1, <2>2 DEF Task
    <3> QED BY <3>1 DEF PollSound, Busy, Handling, Writing
  <2> QED BY <1>2, <2>1, <2>2
<1>5. ASSUME NEW i \in Item, PickItem(i) PROVE PollSound(u, led, W)
  <2> DEFINE skip == [t EXCEPT !.queue = @ \ {i}]
             take == [t EXCEPT !.queue = @ \ {i}, !.item = i, !.pc = "take"]
  <2>1. t.pc = "item" /\ i \in t.queue /\ t.mode = "run"
    BY <1>5 DEF PickItem, PollSound
  <2>2. IF Decided(i) THEN u = skip ELSE u = take
    BY <1>5, PollTask DEF PickItem
  <2>3. CASE u = skip
    <3>1. /\ u.pc = "item" /\ u.queue = t.queue \ {i} /\ u.client = t.client
          /\ u.mode = t.mode /\ u.folder = t.folder /\ u.book = t.book
          /\ u.item = t.item /\ u.out = t.out
      BY <1>1, <2>1, <2>3 DEF Task
    <3> QED BY <2>1, <3>1 DEF PollSound, Busy, Handling, Writing
  <2>4. CASE u = take /\ ~ Decided(i)
    <3>1. /\ u.pc = "take" /\ u.queue = t.queue \ {i} /\ u.client = t.client
          /\ u.mode = t.mode /\ u.item = i /\ u.out = t.out
      BY <1>1, <2>4 DEF Task
    <3>2. i \in Reported(t.client)
      BY <2>1 DEF PollSound
    <3>3. led[i] \in {"none", "retry"}
      <4>1. led[i] \in Phase
        BY DEF Inv, StoreTyped, Store
      <4> QED BY <2>4, <4>1 DEF Decided, Phase
    <3>4. u.item \in Item /\ u.client = ClientOf[u.item]
      BY <3>1, <3>2 DEF Reported
    <3>5. u.queue \subseteq Reported(u.client)
      BY <3>1 DEF PollSound
    <3>6. \A c \in Folder : u.out[c] \in Good => \E b \in Hits[c[1]] : W[b] > 0
      BY <3>1 DEF PollSound
    <3> HIDE DEF u
    <3> QED BY <2>1, <3>1, <3>3, <3>4, <3>5, <3>6
            DEF PollSound, Handling, Writing
  <2> QED BY <2>2, <2>3, <2>4
<1>6. CASE PathOutside \/ PathMissing
  BY <1>6, EndSound DEF PathOutside, PathMissing
<1>7. CASE TakeByAsin
  <2>1. /\ t.pc \in Busy
        /\ u = SingleTask(t, FolderOf[t.item], AsinOf[FolderOf[t.item][1]])
    BY <1>7, PollTask DEF TakeByAsin, Busy
  <2> QED BY <1>1, <2>1, SingleSound
<1>8. CASE TakeByRun
  <2>1. t.pc \in Busy /\ u = RunTask(t)
    BY <1>8, PollTask DEF TakeByRun, Busy
  <2> QED BY <1>1, <2>1, RunSound
<1> QED BY <1>3, <1>4, <1>5, <1>6, <1>7, <1>8 DEF Poll

\* The steps of the poller in an import, up to the insertion of the book.
LEMMA SearchSound ==
  ASSUME Inv, NEW led, PollSound(task["poll"], led, View("poll").books),
         \/ NextCandidate("poll") \/ RunEnds("poll") \/ Rescanned("poll")
         \/ NoMatch("poll") \/ AsinUnknown("poll") \/ LookupRaises("poll")
         \/ \E b \in Book : Duplicate("poll", b)
  PROVE  PollSound(task'["poll"], led, View("poll").books)
<1> DEFINE t == task["poll"]
           u == task'["poll"]
           V == View("poll").books
<1>1. t \in Task /\ t \in GoodTask
  BY PollTask
<1>2. CASE NextCandidate("poll")
  <2>1. t.pc = "next" /\ t.mode = "run"
    BY <1>2 DEF NextCandidate, PollSound
  <2>2. PICK e \in t.todo :
          u = [t EXCEPT !.pc = "search", !.todo = @ \ {e},
                        !.folder = e[1], !.listed = e[2]]
    BY <1>2, PollTask DEF NextCandidate
  <2>3. /\ u.pc = "search" /\ u.queue = t.queue /\ u.client = t.client
        /\ u.mode = t.mode /\ u.item = t.item /\ u.out = t.out
    BY <1>1, <2>2 DEF Task
  <2> QED BY <2>1, <2>3 DEF PollSound, Busy, Handling, Writing
<1>3. CASE RunEnds("poll")
  <2>1. t.pc = "next" /\ t.mode = "run"
    BY <1>3 DEF RunEnds, PollSound
  <2>2. Raise("poll") \/ u = [t EXCEPT !.pc = "rescan"]
    BY <1>3, PollTask DEF RunEnds
  <2>3. CASE u = [t EXCEPT !.pc = "rescan"]
    <3>1. /\ u.pc = "rescan" /\ u.queue = t.queue /\ u.client = t.client
          /\ u.mode = t.mode /\ u.item = t.item /\ u.out = t.out
      BY <1>1, <2>3 DEF Task
    <3> QED BY <2>1, <3>1 DEF PollSound, Busy, Handling, Writing
  <2> QED BY <2>2, <2>3, EndSound
<1>4. CASE Rescanned("poll") \/ LookupRaises("poll")
  BY <1>4, EndSound DEF Rescanned, LookupRaises
<1>5. CASE NoMatch("poll")
  BY <1>5, ConcludeSound DEF NoMatch, Busy, Good
<1>6. CASE AsinUnknown("poll")
  <2>1. t.pc \in Busy
    BY <1>6 DEF AsinUnknown, Busy
  <2>2. \/ Raise("poll") \/ Settle("failed", View("poll"))
        \/ u = RunTask(t)
    BY <1>6, PollTask DEF AsinUnknown
  <2> QED BY <1>1, <2>1, <2>2, EndSound, RunSound
<1>7. ASSUME NEW b \in Book, Duplicate("poll", b) PROVE PollSound(u, led, V)
  <2>1. t.pc \in Busy /\ Conclude("poll", "duplicate") /\ b \in Found("poll")
    BY <1>7 DEF Duplicate, Busy
  <2>2. V[b] > 0
    BY <1>7 DEF Duplicate, Known
  <2>3. t.mode = "run" => b \in Hits[t.folder[1]]
    BY <2>1 DEF Found
  <2> QED BY <2>1, <2>2, <2>3, ConcludeSound
<1> QED BY <1>2, <1>3, <1>4, <1>5, <1>6, <1>7

LEMMA ImportSound ==
  ASSUME Inv, NEW led, NEW W, PollSound(task["poll"], led, W),
         \/ \E b \in Book, s \in Strategies : Matched("poll", b, s)
         \/ PlaceBlocked("poll") \/ PlaceFile("poll") \/ UndoFile("poll")
         \/ PlacementFails("poll") \/ Trouble("poll")
         \/ PersistBook("poll") /\ (Raise("poll") \/ W[task["poll"].book] > 0)
         \/ RecordFile("poll") \/ Dispatched("poll")
         \/ \E enqueued \in BOOLEAN : Offer("poll", enqueued)
  PROVE  PollSound(task'["poll"], led, W)
<1> DEFINE t == task["poll"]
           u == task'["poll"]
           Same == /\ u.queue = t.queue /\ u.client = t.client
                   /\ u.item = t.item /\ u.mode = t.mode
                   /\ u.folder = t.folder /\ u.out = t.out
<1>1. t \in Task /\ t \in GoodTask
  BY PollTask
<1>2. ASSUME NEW b \in Book, NEW s \in Strategies, Matched("poll", b, s)
      PROVE  PollSound(u, led, W)
  <2> DEFINE placing == t.folder[2] = "away"
  <2>1. u = [t EXCEPT !.book = b,
                      !.strategy = IF placing THEN s ELSE @,
                      !.left = IF placing THEN t.listed ELSE {},
                      !.pc = IF placing THEN "place" ELSE "persist"]
    BY <1>2, PollTask DEF Matched
  <2>2. Same /\ u.book = b /\ u.pc \in {"place", "persist"}
    BY <1>1, <2>1 DEF Task
  <2>3. /\ t.pc = "search"
        /\ t.mode = "run" => b \in Hits[t.folder[1]]
        /\ t.mode # "run" => b = t.book
    BY <1>2 DEF Matched, Found
  <2>4. t.pc \in Busy /\ u.pc \in Handling /\ u.pc \notin {"event"} \cup Writing
    BY <2>2, <2>3 DEF Busy, Handling, Writing
  <2> HIDE DEF u
  <2> QED BY <2>2, <2>3, <2>4, SameSound
<1>3. ASSUME t.pc \in Handling, Same, u.book = t.book, u.pc \in Handling
      PROVE  PollSound(u, led, W)
  <2>1. t.pc \in Busy /\ u.pc \notin {"event"} \cup Writing
    BY <1>3 DEF Busy, Handling, Writing
  <2> HIDE DEF u
  <2> QED BY <1>3, <2>1, SameSound
<1>4. CASE \/ PlaceBlocked("poll")
           \/ \E torn \in BOOLEAN : PlaceBreaks("poll", torn)
  <2>1. u = [t EXCEPT !.pc = "undo"] /\ t.pc = "place"
    BY <1>4, PollTask DEF PlaceBlocked, PlaceBreaks
  <2>2. Same /\ u.book = t.book /\ u.pc = "undo"
    BY <1>1, <2>1 DEF Task
  <2> QED BY <1>3, <2>1, <2>2 DEF Handling
<1>5. CASE PlaceFile("poll")
  <2>1. PICK f \in File :
          u = [t EXCEPT !.left = @ \ {f}, !.done = @ \cup {f},
                        !.pc = IF t.left = {f} THEN "persist" ELSE @]
    BY <1>5, PollTask DEF PlaceFile
  <2>2. t.pc = "place"
    BY <1>5 DEF PlaceFile
  <2>3. Same /\ u.book = t.book /\ u.pc \in {"place", "persist"}
    BY <1>1, <2>1, <2>2 DEF Task
  <2> QED BY <1>3, <2>2, <2>3 DEF Handling
<1>6. CASE UndoFile("poll") \/ UndoBreaks("poll")
  <2>1. PICK f \in File : u = [t EXCEPT !.done = @ \ {f}]
    BY <1>6, PollTask DEF UndoFile, UndoBreaks
  <2>2. t.pc = "undo"
    BY <1>6 DEF UndoFile, UndoBreaks
  <2>3. Same /\ u.book = t.book /\ u.pc = "undo"
    BY <1>1, <2>1, <2>2 DEF Task
  <2> QED BY <1>3, <2>2, <2>3 DEF Handling
<1>7. CASE PlacementFails("poll")
  BY <1>7, ConcludeSound DEF PlacementFails, Busy, Good
<1>8. ASSUME t.pc \in Handling, Same, u.book = t.book, u.pc \in Writing,
              W[t.book] > 0
       PROVE  PollSound(u, led, W)
  <2>1. t.pc \in Busy
    BY <1>8 DEF Busy, Handling
  <2> HIDE DEF u
  <2> QED BY <1>8, <2>1, SameSound
<1>9. CASE PersistBook("poll") /\ (Raise("poll") \/ W[t.book] > 0)
  <2>1. CASE Raise("poll")
    BY <2>1, EndSound
  <2>2. CASE ~ Raise("poll")
    <3>1. t.pc = "persist"
          /\ u = [t EXCEPT !.pc = "probe", !.done = {}, !.left = t.listed]
      BY <1>9, <2>2, PollTask DEF PersistBook
    <3>2. Same /\ u.book = t.book /\ u.pc = "probe"
      BY <1>1, <3>1 DEF Task
    <3> QED BY <1>9, <1>8, <2>2, <3>1, <3>2 DEF Handling, Writing
  <2> QED BY <2>1, <2>2
<1>10. ASSUME t.pc \in Writing, Same, u.book = t.book,
             u.pc \in {"event"} \cup Writing
      PROVE  PollSound(u, led, W)
  <2>1. t.pc \in Busy /\ W[t.book] > 0
    BY <1>10 DEF Busy, Writing, PollSound
  <2> HIDE DEF u
  <2> QED BY <1>10, <2>1, SameSound
<1>11. CASE RecordFile("poll")
  <2>1. CASE Raise("poll")
    BY <2>1, EndSound
  <2>2. CASE ~ Raise("poll")
    <3>1. PICK f \in File :
            u = [t EXCEPT !.left = @ \ {f}, !.pc =
                   IF t.left = {f} THEN "offer" ELSE @]
      BY <1>11, <2>2, PollTask DEF RecordFile
    <3>2. t.pc = "probe"
      BY <1>11 DEF RecordFile
    <3>3. Same /\ u.book = t.book /\ u.pc \in {"probe", "offer"}
      BY <1>1, <3>1, <3>2 DEF Task
    <3> QED BY <1>10, <3>2, <3>3 DEF Writing
  <2> QED BY <2>1, <2>2
<1>12. CASE \E enqueued \in BOOLEAN : Offer("poll", enqueued)
  <2>1. t.pc = "offer" /\ u = [t EXCEPT !.pc = "event"]
    BY <1>12, PollTask DEF Offer
  <2>2. Same /\ u.book = t.book /\ u.pc = "event"
    BY <1>1, <2>1 DEF Task
  <2> QED BY <1>10, <2>1, <2>2 DEF Writing
<1>13. CASE Dispatched("poll")
  <2>1. CASE t.mode = "run"
    <3>1. t.pc = "event" /\ u = Finished(t, "matched")
      BY <1>13, <2>1, PollTask DEF Dispatched
    <3>2. t.book \in Hits[t.folder[1]] /\ W[t.book] > 0 /\ t.pc \in Busy
      BY <2>1, <3>1 DEF PollSound, Busy
    <3> QED BY <1>1, <2>1, <3>1, <3>2, FinishedSound
  <2>2. CASE t.mode # "run"
    BY <1>13, <2>2, EndSound DEF Dispatched
  <2> QED BY <2>1, <2>2
<1> QED BY <1>2, <1>4, <1>5, <1>6, <1>7, <1>9, <1>11, <1>12, <1>13 DEF Trouble

\* The committed library only grows, and what is uncommitted only adds to it;
\* a state row is written only when the poller lets go of its download.
LEMMA StoreGrows ==
  ASSUME Inv, LedgerInv, Next
  PROVE  /\ tx'.ledger = db'.ledger
         /\ Grown(db'.books, tx'.books)
         /\ Grown(db.books, db'.books)
         /\ db'.ledger = db.ledger \/ PollSettles
<1>1. /\ tx.ledger = db.ledger /\ \A b \in Book : db.books[b] <= tx.books[b]
      /\ db.books \in [Book -> Nat] /\ tx.books \in [Book -> Nat]
      /\ db \in Store /\ tx \in Store
  BY DEF LedgerInv, Grown, Inv, StoreTyped, Store
<1>2. CASE Carried \/ Dropped
  BY <1>1, <1>2 DEF Carried, Dropped, Rollback, Crash, Alike, Grown
<1>3. CASE PollSettles
  <2>1. PICK phase, data :
          /\ Settle(phase, data) /\ data \in Store
          /\ Alike(data, db) \/ Alike(data, View("poll"))
    BY <1>3 DEF PollSettles
  <2>2. UNCHANGED store \/ Records(phase, data)
    BY <2>1, SettleRecords
  <2>3. data.books \in {db.books, tx.books}
    BY <2>1 DEF Alike, View
  <2>4. CASE UNCHANGED store
    BY <1>1, <2>4 DEF store, Grown
  <2>5. CASE Records(phase, data)
    BY <1>1, <1>3, <2>3, <2>5 DEF Records, Grown
  <2> QED BY <2>2, <2>4, <2>5
<1>4. ASSUME NEW a \in Actor, Inserts(a)
      PROVE  /\ tx'.ledger = db'.ledger /\ Grown(db'.books, tx'.books)
             /\ Grown(db.books, db'.books) /\ db'.ledger = db.ledger
  <2>1. View(a) \in {db, tx} /\ View(a) \in Store
    BY ViewOfStore
  <2>2. /\ db' = db
        /\ tx'.ledger = View(a).ledger
        /\ tx'.books = [View(a).books EXCEPT ![task[a].book] = @ + 1]
    BY <1>4, <2>1 DEF Inserts, Write, Store
  <2>3. View(a).books \in [Book -> Nat]
    BY <2>1 DEF Store
  <2>4. \A b \in Book : View(a).books[b] <= tx'.books[b]
    BY <2>2, <2>3
  <2>5. \A b \in Book : db.books[b] <= View(a).books[b]
    BY <1>1, <2>1
  <2>6. tx'.books \in [Book -> Nat]
    <3>1. tx' \in Store
      BY <1>4, <2>1, BooksTyped DEF Inserts, Write
    <3> QED BY <3>1 DEF Store
  <2>7. \A b \in Book : db.books[b] <= tx'.books[b]
    BY <1>1, <2>3, <2>4, <2>5, <2>6
  <2>8. Grown(db'.books, tx'.books) /\ Grown(db.books, db'.books)
    BY <1>1, <2>2, <2>7 DEF Grown
  <2>9. tx'.ledger = db'.ledger /\ db'.ledger = db.ledger
    BY <1>1, <2>1, <2>2
  <2> QED BY <2>8, <2>9
<1>5. ASSUME NEW a \in Actor, Catalogues(a)
      PROVE  /\ tx'.ledger = db'.ledger /\ Grown(db'.books, tx'.books)
             /\ Grown(db.books, db'.books) /\ db'.ledger = db.ledger
  <2>1. db' = db /\ tx'.ledger = tx.ledger /\ tx'.books = tx.books
    BY <1>1, <1>5 DEF Catalogues, Write, Store
  <2> QED BY <1>1, <2>1 DEF Grown
<1> QED BY <1>2, <1>3, <1>4, <1>5, NextStore DEF StoreStep

\* The library as the poller sees it only grows while it has a download in hand.
LEMMA PollViewGrows ==
  ASSUME Inv, LedgerInv, Next, NEW a \in Actor, Move(a),
         a = "poll" => task'["poll"].pc \in Busy
  PROVE  Grown(View("poll").books, View("poll")'.books)
<1>1. /\ db.books \in [Book -> Nat] /\ tx.books \in [Book -> Nat]
      /\ db \in Store /\ tx \in Store
  BY DEF Inv, StoreTyped, Store
<1>2. Grown(db.books, db'.books) /\ "poll" # Nobody
  BY StoreGrows DEF Nobody
<1>3. CASE UNCHANGED store
  BY <1>1, <1>3 DEF store, View, Grown
<1>4. CASE a # "poll"
  <2>1. CASE lock \notin {a, Nobody}
    BY <1>3, <2>1 DEF Move, StoreMoves
  <2>2. CASE lock \in {a, Nobody}
    <3>1. lock # "poll" /\ lock' # "poll"
      BY <1>2, <1>4, <2>2 DEF Move, StoreMoves
    <3> QED BY <1>2, <3>1 DEF View
  <2> QED BY <2>1, <2>2
<1>5. CASE a = "poll" /\ ~ UNCHANGED store
  <2>1. StoreTyped' /\ lock \in {a, Nobody}
    BY <1>5 DEF Move, StoreMoves
  <2>2. ~ PollSettles
    <3>1. task["poll"].queue \subseteq Reported(task["poll"].client)
      BY DEF LedgerInv, PollSound
    <3> QED BY <1>5, <3>1, SettleSound DEF PollSettles
  <2>3. ASSUME NEW b \in Actor, Inserts(b)
        PROVE  Grown(View("poll").books, View("poll")'.books)
    <3>1. b = "poll"
      BY <1>5, <2>3, OnlyMover DEF Inserts, PersistBook, Running
    <3>2. View("poll") \in Store
      BY <3>1, ViewOfStore
    <3>3. /\ lock' = "poll"
          /\ tx'.books = [View("poll").books EXCEPT ![task[b].book] = @ + 1]
      BY <2>3, <3>1, <3>2 DEF Inserts, Write, Store
    <3>4. View("poll")' = tx' /\ View("poll").books \in [Book -> Nat]
      BY <3>2, <3>3 DEF View, Store
    <3> QED BY <3>3, <3>4 DEF Grown
  <2>4. ASSUME NEW b \in Actor, Catalogues(b)
        PROVE  Grown(View("poll").books, View("poll")'.books)
    <3>1. lock = b
      BY <2>4 DEF Catalogues, RecordFile, Inv, LockKept, Writing
    <3>2. lock = "poll" /\ lock' = "poll" /\ tx'.books = tx.books
      BY <1>1, <1>5, <2>1, <2>4, <3>1
      DEF Catalogues, Write, Store, Actor, Nobody
    <3> QED BY <1>1, <3>2 DEF View, Grown
  <2>5. CASE Carried
    <3>1. Alike(tx', tx) /\ Alike(View("poll"), tx)
      BY <1>2, <1>5, <2>1, <2>5 DEF Carried, Alike, View, Inv, LockKept
    <3>2. Alike(View("poll")', tx')
      BY <1>5, <2>1 DEF Move, StoreMoves, Alike, View
    <3> QED BY <1>1, <3>1, <3>2 DEF Alike, Grown
  <2>6. ~ Dropped
    <3>1. ~ Crash
      BY <1>5 DEF Crash, IdleTask, Busy, Actor
    <3>2. lock # "scan"
      BY <1>5, <2>1 DEF Nobody
    <3> QED BY <1>5, <3>1, <3>2 DEF Dropped, Rollback, store
  <2> QED BY <2>2, <2>3, <2>4, <2>5, <2>6, NextStore DEF StoreStep
<1> QED BY <1>3, <1>4, <1>5

\* The poller settles the entry it works on.
PollEnds == \E phase, data : Settle(phase, data)

\* A step of the poller that writes leaves it with its download, or settles it.
LEMMA PollWrites ==
  ASSUME Inv, Step("poll")
  PROVE  \/ UNCHANGED store
         \/ task'["poll"].pc \in Busy
         \/ PollEnds
<1> DEFINE t == task["poll"]
<1>1. t \in Task /\ \A u : Become("poll", u) => task'["poll"] = u
  BY PollTask
<1>2. Raise("poll") => PollEnds
  BY DEF Raise, PollEnds
<1>3. \A outcome, data : Return("poll", outcome, data) => PollEnds
  BY DEF Return, PollEnds
<1>4. \A outcome : Conclude("poll", outcome) => UNCHANGED store \/ PollEnds
  BY <1>2, <1>3 DEF Conclude
<1>5. CASE NextCandidate("poll") \/ PlaceBlocked("poll") \/ PlaceFile("poll")
           \/ UndoFile("poll")
           \/ \E b \in Book, s \in Strategies : Matched("poll", b, s)
  BY <1>5 DEF NextCandidate, PlaceBlocked, PlaceFile, UndoFile, Matched
<1>6. CASE RunEnds("poll")
  <2>1. Raise("poll") \/ task'["poll"] = [t EXCEPT !.pc = "rescan"]
    BY <1>1, <1>6 DEF RunEnds
  <2>2. [t EXCEPT !.pc = "rescan"].pc \in Busy
    BY <1>1 DEF Task, Busy
  <2> QED BY <1>2, <2>1, <2>2
<1>7. CASE Rescanned("poll") \/ NoMatch("poll") \/ LookupRaises("poll")
           \/ PlacementFails("poll") \/ \E b \in Book : Duplicate("poll", b)
  BY <1>2, <1>3, <1>4, <1>7
  DEF Rescanned, NoMatch, LookupRaises, PlacementFails, Duplicate
<1>8. CASE AsinUnknown("poll")
  BY <1>2, <1>8 DEF AsinUnknown, PollEnds
<1>9. CASE PersistBook("poll")
  <2>1. \/ Raise("poll")
        \/ task'["poll"] = [t EXCEPT !.pc = "probe", !.done = {},
                                     !.left = t.listed]
    BY <1>1, <1>9 DEF PersistBook
  <2>2. [t EXCEPT !.pc = "probe", !.done = {}, !.left = t.listed].pc \in Busy
    BY <1>1 DEF Task, Busy
  <2> QED BY <1>2, <2>1, <2>2
<1>10. CASE RecordFile("poll")
  <2>1. PICK f : \/ Raise("poll")
                 \/ task'["poll"] = [t EXCEPT !.left = @ \ {f}, !.pc =
                                       IF t.left = {f} THEN "offer" ELSE @]
    BY <1>1, <1>10 DEF RecordFile
  <2>2. t.pc = "probe"
    BY <1>10 DEF RecordFile
  <2>3. [t EXCEPT !.left = @ \ {f}, !.pc =
           IF t.left = {f} THEN "offer" ELSE @].pc \in Busy
    BY <1>1, <2>2 DEF Task, Busy
  <2> QED BY <1>2, <2>1, <2>3
<1>11. CASE \E enqueued \in BOOLEAN : Offer("poll", enqueued)
  <2>1. task'["poll"] = [t EXCEPT !.pc = "event"]
    BY <1>1, <1>11 DEF Offer
  <2>2. [t EXCEPT !.pc = "event"].pc \in Busy
    BY <1>1 DEF Task, Busy
  <2> QED BY <2>1, <2>2
<1>12. CASE Dispatched("poll")
  BY <1>3, <1>12 DEF Dispatched
<1> QED BY <1>5, <1>6, <1>7, <1>8, <1>9, <1>10, <1>11, <1>12 DEF Step

LEMMA PollStepSound ==
  ASSUME Inv, LedgerInv, Next,
         StartRun("poll") \/ Step("poll") \/ Trouble("poll")
           \/ StartTick \/ Poll \/ PathMissing
  PROVE  \/ \E phase, data : Settle(phase, data)
         \/ PollSound(task'["poll"], db.ledger, View("poll")'.books)
<1> DEFINE t == task["poll"]
           V == View("poll").books
           W == View("poll")'.books
<1>1. t \in GoodTask /\ "poll" \in Actor
  BY PollTask
<1>2. Move("poll")
  BY <1>1, StartRunMoves, StepMoves, PlaceBreaksMoves, UndoMoves,
     StartTickMoves, PollMoves, PathMissingMoves DEF Trouble
<1>3. V \in [Book -> Nat] /\ W \in [Book -> Nat]
  <2>1. StoreTyped /\ StoreTyped'
    BY <1>2 DEF Inv, Move, StoreMoves
  <2> QED BY <2>1 DEF StoreTyped, Store, View
<1>4. PollSound(t, db.ledger, V)
  BY DEF LedgerInv
<1>5. CASE \E phase, data : Settle(phase, data)
  BY <1>5
<1>6. CASE ~ \E phase, data : Settle(phase, data)
  <2>1. Grown(V, W)
    <3>1. CASE UNCHANGED store
      BY <1>3, <3>1 DEF store, View, Grown
    <3>2. CASE task'["poll"].pc \in Busy
      BY <1>1, <1>2, <3>2, PollViewGrows
    <3>3. StartRun("poll") \/ Trouble("poll") \/ StartTick \/ Poll
            \/ PathMissing => UNCHANGED store
      BY <1>6 DEF StartRun, Trouble, PlaceBreaks, UndoBreaks, StartTick, Poll,
         PathMissing, ListEnds, Listed, PickItem, PathOutside, TakeByAsin,
         TakeByRun, store
    <3> QED BY <1>6, <3>1, <3>2, <3>3, PollWrites DEF PollEnds
  <2>2. PollSound(t, db.ledger, W)
    BY <1>1, <1>3, <1>4, <2>1, SoundGrows
  <2>3. CASE StartTick \/ Poll \/ PathMissing
    BY <2>2, <2>3, TickSound
  <2>4. CASE \/ NextCandidate("poll") \/ RunEnds("poll") \/ Rescanned("poll")
             \/ NoMatch("poll") \/ AsinUnknown("poll") \/ LookupRaises("poll")
             \/ \E b \in Book : Duplicate("poll", b)
    <3>1. PollSound(task'["poll"], db.ledger, V)
      BY <1>4, <2>4, SearchSound
    <3>2. task'["poll"] \in GoodTask
      BY <1>1, <1>2, PollTask DEF Move, Goes
    <3> QED BY <1>3, <2>1, <3>1, <3>2, SoundGrows
  <2>5. PersistBook("poll") => Raise("poll") \/ W[t.book] > 0
    <3> SUFFICES ASSUME PersistBook("poll"), ~ Raise("poll")
                 PROVE  W[t.book] > 0
      OBVIOUS
    <3>1. Write("poll", [View("poll") EXCEPT !.books[t.book] = @ + 1])
      BY DEF PersistBook
    <3>2. t.book \in Book
      BY <1>1 DEF PersistBook, GoodTask, Handling
    <3>3. W = [V EXCEPT ![t.book] = @ + 1]
      <4>1. View("poll") \in Store
        BY <1>1, ViewOfStore
      <4> QED BY <3>1, <4>1 DEF Write, View, Store
    <3>4. W[t.book] = V[t.book] + 1
      BY <1>3, <3>2, <3>3
    <3> QED BY <1>3, <3>2, <3>4
  <2>6. ~ StartRun("poll")
    BY DEF StartRun
  <2> QED BY <2>2, <2>3, <2>4, <2>5, <2>6, ImportSound DEF Step
<1> QED BY <1>5, <1>6

\* The invariant of the state rows.
LEMMA LedgerKept ==
  ASSUME Inv, LedgerInv, Next
  PROVE  LedgerInv'
<1>1. tx'.ledger = db'.ledger /\ Grown(db'.books, tx'.books)
  BY StoreGrows
<1> DEFINE led == db'.ledger
           W == View("poll")'.books
<1>2. ASSUME \E phase, data : Settle(phase, data)
      PROVE  PollSound(task'["poll"], led, W)
  BY <1>2, SettleSound DEF LedgerInv, PollSound
<1>3. CASE Crash
  <2>1. task'["poll"] = IdleTask
    BY <1>3 DEF Crash, Actor
  <2>2. /\ IdleTask.pc \notin Busy /\ IdleTask.mode = "run"
        /\ IdleTask.queue = {} /\ \A c \in Folder : IdleTask.out[c] = "none"
    BY DEF IdleTask, Busy
  <2>3. PollSound(task'["poll"], led, W)
    BY <2>1, <2>2, IdleSound
  <2> QED BY <1>1, <2>3 DEF LedgerInv
<1>4. CASE ~ \E phase, data : Settle(phase, data)
  <2>1. led = db.ledger
    BY <1>4, StoreGrows DEF PollSettles
  <2>2. CASE StartRun("poll") \/ Step("poll") \/ Trouble("poll")
               \/ StartTick \/ Poll \/ PathMissing
    <3>1. PollSound(task'["poll"], db.ledger, W)
      BY <1>4, <2>2, PollStepSound
    <3> QED BY <1>1, <2>1, <3>1 DEF LedgerInv
  <2>3. ASSUME NEW a \in Actor, a # "poll", Move(a)
        PROVE  LedgerInv'
    <3>1. task'["poll"] = task["poll"] /\ task["poll"] \in GoodTask
      BY <2>3, PollTask DEF Move, Goes, Become, Inv, TasksTyped
    <3>2. Grown(View("poll").books, W)
      BY <2>3, PollViewGrows
    <3>3. View("poll").books \in [Book -> Nat] /\ W \in [Book -> Nat]
      <4>1. StoreTyped /\ StoreTyped'
        BY <2>3 DEF Inv, Move, StoreMoves
      <4> QED BY <4>1 DEF StoreTyped, Store, View
    <3>4. PollSound(task["poll"], db.ledger, W)
      BY <3>1, <3>2, <3>3, SoundGrows DEF LedgerInv
    <3> QED BY <1>1, <2>1, <3>1, <3>4 DEF LedgerInv
  <2>4. ASSUME NEW a \in Actor, StartRun(a) \/ Step(a) \/ Trouble(a)
        PROVE  LedgerInv'
    <3>1. Move(a)
      BY <2>4, StartRunMoves, StepMoves, PlaceBreaksMoves, UndoMoves DEF Trouble
    <3> QED BY <2>2, <2>3, <2>4, <3>1
  <2>5. ASSUME NEW c \in Folder, NEW b \in Book, StartMatch(c, b)
        PROVE  LedgerInv'
    BY <2>3, <2>5, StartMatchMoves DEF Actor
  <2> QED BY <1>3, <2>2, <2>4, <2>5 DEF Next
<1>5. CASE \E phase, data : Settle(phase, data)
  BY <1>1, <1>2, <1>5 DEF LedgerInv
<1> QED BY <1>4, <1>5

\* A download is called imported when its book is in the committed library.
LEMMA ImportedRegistered ==
  ASSUME Inv, LedgerInv, Next, NEW phase, NEW data \in Store,
         Grounded(phase, data), Records(phase, data), phase = "imported"
  PROVE  task["poll"].item \in Registered'
<1> DEFINE t == task["poll"]
           i == t.item
           V == View("poll").books
<1>1. t \in GoodTask /\ PollSound(t, db.ledger, V) /\ t.pc \in Busy
  BY PollTask DEF LedgerInv, Grounded
<1>2. i \in Item /\ FolderOf[i] \in Folder
  BY <1>1, ItemAssumption DEF PollSound
<1>3. db'.books = V
  BY DEF Grounded, Records, Alike
<1>4. \E b \in Identities(i) : V[b] > 0
  <2>1. CASE t.pc = "rescan" /\ t.out[FolderOf[i]] \in Good
    <3>1. PICK b \in Hits[FolderOf[i][1]] : V[b] > 0
      BY <1>1, <1>2, <2>1 DEF PollSound
    <3>2. b \in Book
      BY <1>2, HitsAreBooks
    <3> QED BY <3>1, <3>2, BookAssumption DEF Identities
  <2>2. CASE /\ t.mode # "run" /\ t.book \in Book
             /\ t.pc = "event" \/ V[t.book] > 0
    <3>1. t.mode = "single"
      BY <1>1, <2>2 DEF GoodTask, Task
    <3>2. t.book = AsinOf[FolderOf[i][1]]
      BY <1>1, <3>1 DEF PollSound
    <3>3. V[t.book] > 0
      BY <1>1, <2>2 DEF PollSound
    <3> QED BY <2>2, <3>2, <3>3, BookAssumption DEF Identities
  <2> QED BY <2>1, <2>2 DEF Grounded
<1> QED BY <1>2, <1>3, <1>4 DEF Registered

LEMMA RegisteredGrows ==
  ASSUME Inv, LedgerInv, Next
  PROVE  Registered \subseteq Registered' /\ Registered' \subseteq Item
<1>1. Grown(db.books, db'.books) /\ db.books \in [Book -> Nat]
  BY StoreGrows DEF Inv, StoreTyped, Store
<1>2. db'.books \in [Book -> Nat]
  <2>1. CASE Crash
    BY <1>1, <2>1 DEF Crash, Rollback
  <2>2. ASSUME NEW a \in Actor, Move(a) PROVE db'.books \in [Book -> Nat]
    BY <2>2 DEF Move, StoreMoves, StoreTyped, Store
  <2> QED BY <2>1, <2>2, NextMoves
<1>3. ASSUME NEW i \in Item PROVE Identities(i) \subseteq Book
  <2>1. FolderOf[i][1] \in Name
    BY ItemAssumption DEF Folder
  <2> QED BY <2>1, HitsAssumption, AsinAssumption DEF Identities
<1>4. ASSUME NEW i \in Registered PROVE i \in Registered'
  <2>1. i \in Item
    BY DEF Registered
  <2>2. PICK b \in Identities(i) : db.books[b] > 0
    BY DEF Registered
  <2>3. b \in Book
    BY <1>3, <2>1
  <2>4. db'.books[b] > 0
    BY <1>1, <1>2, <2>2, <2>3 DEF Grown
  <2>5. Identities(i)' = Identities(i)
    BY DEF Identities
  <2> QED BY <2>1, <2>2, <2>4 DEF Registered
<1> QED BY <1>4 DEF Registered

\* The state rows of the downloads keep the promise of the ledger: each step
\* settles at most the download in hand, which was not settled before, and calls
\* it imported no earlier than the book is committed; rollbacks and crashes take
\* back no state row and no committed book.
THEOREM LedgerRefined == Spec => ImplementsLedger
<1>1. Init => Ledger!Init
  <2> SUFFICES ASSUME Init PROVE Ledger!Init
    OBVIOUS
  <2>1. \A b \in Book : db.books[b] = 0
    BY DEF Init
  <2>2. ASSUME NEW i \in Item PROVE i \notin Registered
    <3>1. FolderOf[i][1] \in Name
      BY ItemAssumption DEF Folder
    <3>2. Identities(i) \subseteq Book
      BY <3>1, HitsAssumption, AsinAssumption DEF Identities
    <3> QED BY <2>1, <3>2 DEF Registered
  <2>3. Registered = {}
    BY <2>2 DEF Registered
  <2>4. db.ledger = [i \in Item |-> "none"]
    BY DEF Init
  <2> QED BY <2>3, <2>4 DEF Ledger!Init
<1>2. Init => LedgerInv
  <2> SUFFICES ASSUME Init PROVE LedgerInv
    OBVIOUS
  <2>1. /\ IdleTask.pc \notin Busy /\ IdleTask.mode = "run"
        /\ IdleTask.queue = {} /\ \A c \in Folder : IdleTask.out[c] = "none"
    BY DEF IdleTask, Busy
  <2>2. task["poll"] = IdleTask
    BY DEF Init, Actor
  <2>3. PollSound(task["poll"], db.ledger, View("poll").books)
    BY <2>1, <2>2, IdleSound
  <2> QED BY <2>3 DEF Init, LedgerInv, Grown
<1>3. Inv /\ LedgerInv /\ [Next]_vars => LedgerInv'
  <2>1. ASSUME LedgerInv, UNCHANGED vars PROVE LedgerInv'
    BY <2>1 DEF vars, store, LedgerInv, View
  <2> QED BY <2>1, LedgerKept
<1>4. Inv /\ LedgerInv /\ [Next]_vars => [Ledger!Next]_(Ledger!vars)
  <2>1. ASSUME UNCHANGED vars PROVE UNCHANGED Ledger!vars
    BY <2>1 DEF vars, store, Ledger!vars, Registered, Identities
  <2>2. ASSUME Inv, LedgerInv, Next PROVE Ledger!Next
    <3>1. Ledger!Register
      BY <2>2, RegisteredGrows DEF Ledger!Register
    <3>2. CASE db'.ledger = db.ledger
      BY <3>1, <3>2 DEF Ledger!Next
    <3>3. CASE db'.ledger # db.ledger
      <4>1. PollSettles
        BY <2>2, <3>3, StoreGrows
      <4>2. PICK phase, data :
              /\ Settle(phase, data) /\ Grounded(phase, data)
              /\ data \in Store
              /\ Alike(data, db) \/ Alike(data, View("poll"))
        BY <4>1 DEF PollSettles
      <4>3. Records(phase, data)
        BY <3>3, <4>2, SettleRecords DEF store
      <4> DEFINE t == task["poll"]
                 i == t.item
      <4>4. /\ PollSound(t, db.ledger, View("poll").books) /\ t.pc \in Busy
            /\ tx.ledger = db.ledger
        BY <2>2, <4>2 DEF LedgerInv, Grounded
      <4>5. /\ i \in Item /\ t.client = ClientOf[i]
            /\ db.ledger[i] \in {"none", "retry"}
        BY <4>4 DEF PollSound
      <4>6. db'.ledger = [db.ledger EXCEPT ![i] = phase]
        BY <4>2, <4>3, <4>4 DEF Records, Alike, View
      <4>7. phase = "imported" => i \in Registered'
        BY <2>2, <4>2, <4>3, ImportedRegistered
      <4>8. phase = "retry" => i \in Torrents
        BY <4>2, <4>5, ItemAssumption DEF Grounded, Torrents
      <4>9. phase \in Ledger!Final \cup {"retry"}
        BY <4>2 DEF Grounded, Ledger!Final
      <4> HIDE DEF i
      <4>10. Ledger!Settle(i, phase)
        BY <4>5, <4>6, <4>7, <4>8 DEF Ledger!Settle
      <4> QED BY <3>1, <4>5, <4>9, <4>10 DEF Ledger!Next
    <3> QED BY <3>2, <3>3
  <2> QED BY <2>1, <2>2
<1> QED BY <1>1, <1>2, <1>3, <1>4, InvAlways, PTL
        DEF Spec, ImplementsLedger, Ledger!Spec
=============================================================================
