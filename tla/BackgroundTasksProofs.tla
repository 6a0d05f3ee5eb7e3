----------------------- MODULE BackgroundTasksProofs -----------------------
(***************************************************************************)
(* What is proved of the background tasks and backups for every list of    *)
(* tasks, interval, number of migrations and starts, length of time and    *)
(* number of archives to keep.                                             *)
(***************************************************************************)
EXTENDS BackgroundTasks, FiniteSetTheorems, TLAPS

(***************************************************************************)
(* The threads of backups.                                                 *)
(***************************************************************************)
\* A backup whose name no other one has chosen: its archive is its own, and
\* another thread can only remove it.
Own(w) ==
  /\ \A v \in Worker \ {w} : Busy(v) => thread[v].path # thread[w].path
  /\ thread[w].at = "writing" => archives[thread[w].path] \in {"open", "none"}
  /\ thread[w].at \in {"written", "pruned"}
       => archives[thread[w].path] \in {"whole", "none"}

\* A backup no other one ran next to, whose name was the last one when it was
\* chosen.
Latest(w) ==
  /\ \A v \in Worker \ {w} : ~Busy(v)
  /\ thread[w].at = "writing" => archives[thread[w].path] = "open"
  /\ thread[w].at = "written" => archives[thread[w].path] = "whole"
  /\ \A t \in Second : t > thread[w].path => archives[t] = "none"
  /\ thread[w].at = "pruned" => archives[thread[w].path] = "whole"

ThreadsInv ==
  \A w \in Worker :
    /\ Busy(w) /\ ~thread[w].shared => Own(w)
    /\ Busy(w) /\ ~thread[w].met => \A v \in Worker \ {w} : ~Busy(v)
    /\ Busy(w) /\ ~thread[w].met /\ ~thread[w].behind => Latest(w)
    /\ thread[w].at = "vanished" => thread[w].met \/ thread[w].behind

\* A new process has no threads.
Forgotten ==
  /\ thread' = [w \in Worker |-> Idle]
  /\ UNCHANGED <<now, lost, archives>>

BackupStep ==
  \/ \E w \in Worker : Choose(w) \/ create_backup(w)
  \/ ClockTicks \/ ClockJumps \/ Forgotten
  \/ UNCHANGED backupVars

\* Every step of the process is at most one of the backups.
LEMMA StepsOfBackups == [Next]_vars => BackupStep
BY DEF Next, vars, BackupStep, RunStarted, Gone, Tick, Forgotten, Worker,
   backupVars

\* The first free second, as Choose makes it the name of w.
ChosenName(w, t) ==
  /\ Free(t)
  /\ thread' = [v \in Worker |->
       IF v = w
         THEN [at |-> "chosen", path |-> t,
               met |-> \E x \in Worker \ {w} : Busy(x),
               shared |-> \E x \in Worker \ {w} :
                            Busy(x) /\ thread[x].path = t,
               behind |-> \E u \in Second : u > t /\ ~Free(u)]
         ELSE [thread[v] EXCEPT
                 !.met = @ \/ Busy(v),
                 !.shared = @ \/ (Busy(v) /\ thread[v].path = t)]]

LEMMA ChooseMoves ==
  ASSUME BackupTypeOK, NEW w \in Worker, Choose(w)
  PROVE  /\ thread'[w].at \in {"chosen", "raised"}
         /\ \A v \in Worker \ {w} : thread'[v].at = thread[v].at
<1>1. CASE Finish(w, "raised")
  BY <1>1 DEF Finish, Idle, BackupTypeOK
<1>2. CASE ~Finish(w, "raised")
  <2>1. PICK t \in now .. MaxTime : ChosenName(w, t)
    BY <1>2 DEF Choose, ChosenName
  <2> QED BY <2>1 DEF ChosenName, BackupTypeOK
<1> QED BY <1>1, <1>2

LEMMA BackupTyped == BackupTypeOK /\ BackupStep => BackupTypeOK'
<1> SUFFICES ASSUME BackupTypeOK, BackupStep PROVE BackupTypeOK'
  OBVIOUS
<1> USE BackupBounds
<1> DEFINE Thread == [at : At, path : Second, met : BOOLEAN,
                      shared : BOOLEAN, behind : BOOLEAN]
<1>a. ASSUME NEW w \in Worker, NEW at \in At
      PROVE  Goto(w, at) \/ Finish(w, at) => thread' \in [Worker -> Thread]
  <2>1. thread \in [Worker -> Thread]
    BY DEF BackupTypeOK
  <2>2. [thread[w] EXCEPT !.at = at] \in Thread
    BY <2>1
  <2>3. [Idle EXCEPT !.at = at] \in Thread
    <3>1. Idle \in Thread
      BY DEF Idle, Second, At
    <3> QED BY <3>1
  <2> HIDE DEF Thread
  <2> QED BY <2>1, <2>2, <2>3 DEF Goto, Finish
<1>1. ASSUME NEW w \in Worker, Choose(w) PROVE BackupTypeOK'
  <2>1. CASE Finish(w, "raised")
    <3>1. thread' \in [Worker -> Thread]
      BY <2>1, <1>a DEF At
    <3> QED BY <1>1, <3>1 DEF Choose, BackupTypeOK
  <2>2. CASE ~Finish(w, "raised")
    <3>1. PICK t \in now .. MaxTime : ChosenName(w, t)
      BY <1>1, <2>2 DEF Choose, ChosenName
    <3>2. t \in Second
      BY DEF BackupTypeOK, Second
    <3>3. thread' \in [Worker -> Thread]
      BY <3>1, <3>2 DEF BackupTypeOK, At, ChosenName
    <3> QED BY <1>1, <3>3 DEF Choose, BackupTypeOK
  <2> QED BY <2>1, <2>2
<1>2. ASSUME NEW w \in Worker, create_backup(w) PROVE BackupTypeOK'
  <2>1. thread[w].path \in Second
    BY DEF BackupTypeOK
  <2>2. \A c \in Content :
          [archives EXCEPT ![thread[w].path] = c] \in [Second -> Content]
    BY <2>1 DEF BackupTypeOK
  <2>3. {"none", "open", "whole", "mixed"} \subseteq Content
    BY DEF Content
  <2>4. archives[thread[w].path] \in Content
    BY <2>1 DEF BackupTypeOK
  <2>5. archives' \in [Second -> Content]
    <3>1. CASE SnapshotFails(w) \/ WriteFails(w)
      BY <3>1, <2>2, <2>3 DEF SnapshotFails, WriteFails, Fail, BackupTypeOK
    <3>2. CASE Open(w)
      BY <3>2, <2>2, <2>3 DEF Open
    <3>3. CASE Close(w)
      BY <3>3, <2>2, <2>3, <2>4 DEF Close, Fail, BackupTypeOK
    <3>4. CASE Prune(w)
      <4>1. \A S : Removed(S) => archives' \in [Second -> Content]
        BY <2>3 DEF Removed, BackupTypeOK
      <4> QED BY <3>4, <4>1 DEF Prune
    <3>5. CASE Stat(w)
      BY <3>5 DEF Stat, BackupTypeOK
    <3> QED BY <1>2, <3>1, <3>2, <3>3, <3>4, <3>5 DEF create_backup
  <2>6. \A at \in At :
          Goto(w, at) \/ Finish(w, at) => thread' \in [Worker -> Thread]
    BY <1>a
  <2>7. \E at \in At : Goto(w, at) \/ Finish(w, at)
    BY <1>2 DEF create_backup, SnapshotFails, Open, WriteFails, Close, Prune,
       Stat, Fail, At
  <2>8. now' = now /\ lost' = lost
    BY <1>2 DEF create_backup, SnapshotFails, Open, WriteFails, Close, Prune,
       Stat, Fail
  <2> QED BY <2>5, <2>6, <2>7, <2>8 DEF BackupTypeOK
<1>3. CASE ClockTicks
  BY <1>3 DEF ClockTicks, BackupTypeOK, Second
<1>4. CASE ClockJumps
  BY <1>4 DEF ClockJumps, BackupTypeOK, Second
<1>5. CASE Forgotten
  BY <1>5 DEF Forgotten, BackupTypeOK, Idle, At, Second
<1>6. CASE UNCHANGED backupVars
  BY <1>6 DEF backupVars, BackupTypeOK
<1> QED BY <1>1, <1>2, <1>3, <1>4, <1>5, <1>6 DEF BackupStep

\* The archive with the last name is not pruned.
LEMMA LastKept ==
  ASSUME BackupTypeOK, NEW p \in Second,
         \A t \in Second : t > p => archives[t] = "none"
  PROVE  p \notin Excess
<1>1. {u \in Candidates : u > p} = {}
  BY DEF Candidates
<1>2. Cardinality({u \in Candidates : u > p}) = 0
  BY <1>1, FS_EmptySet
<1>3. retention_copies # 0 => ~(0 >= retention_copies)
  BY BackupBounds
<1> QED BY <1>2, <1>3 DEF Excess

\* Steps of one thread, as the other ones and the archives see them.
LEMMA StepOfOne ==
  ASSUME BackupTypeOK, NEW w \in Worker, create_backup(w)
  PROVE  /\ Busy(w) /\ thread[w].path \in Second
         /\ \A v \in Worker \ {w} : thread'[v] = thread[v]
         /\ \A t \in Second : t # thread[w].path
              => archives'[t] = archives[t] \/ archives'[t] = "none"
         /\ \/ /\ thread'[w].at \in {"writing", "written", "pruned", "vanished"}
               /\ thread'[w].path = thread[w].path
               /\ thread'[w].met = thread[w].met
               /\ thread'[w].shared = thread[w].shared
               /\ thread'[w].behind = thread[w].behind
            \/ thread'[w].at \in {"done", "failed", "raised"}
<1>1. Busy(w) /\ thread[w].path \in Second
  BY DEF create_backup, SnapshotFails, Open, WriteFails, Close, Prune, Stat,
     Busy, BackupTypeOK
<1>2. \A at \in At : Goto(w, at) =>
        /\ \A v \in Worker \ {w} : thread'[v] = thread[v]
        /\ thread'[w].at = at /\ thread'[w].path = thread[w].path
        /\ thread'[w].met = thread[w].met
        /\ thread'[w].shared = thread[w].shared
        /\ thread'[w].behind = thread[w].behind
  BY DEF Goto, BackupTypeOK
<1>3. \A at \in At : Finish(w, at) =>
        /\ \A v \in Worker \ {w} : thread'[v] = thread[v]
        /\ thread'[w].at = at
  BY DEF Finish, Idle, BackupTypeOK
<1>4. \A S : Removed(S) => \A t \in Second :
        archives'[t] = archives[t] \/ archives'[t] = "none"
  BY DEF Removed
<1>5. CASE SnapshotFails(w) \/ WriteFails(w)
  BY <1>1, <1>3, <1>5 DEF SnapshotFails, WriteFails, Fail, At, BackupTypeOK
<1>6. CASE Open(w)
  BY <1>1, <1>2, <1>6 DEF Open, At, BackupTypeOK
<1>7. CASE Close(w)
  BY <1>1, <1>2, <1>3, <1>7 DEF Close, Fail, At, BackupTypeOK
<1>8. CASE Prune(w)
  BY <1>1, <1>2, <1>3, <1>4, <1>8 DEF Prune, At
<1>9. CASE Stat(w)
  BY <1>1, <1>2, <1>3, <1>9 DEF Stat, At, BackupTypeOK
<1> QED BY <1>5, <1>6, <1>7, <1>8, <1>9 DEF create_backup

\* What the step of a thread makes of its own archive.
LEMMA OwnArchive ==
  ASSUME BackupTypeOK, NEW w \in Worker, create_backup(w)
  PROVE  LET p == thread[w].path IN
         /\ thread'[w].at = "writing"
              => /\ thread[w].at = "chosen"
                 /\ \/ archives'[p] = "open"
                    \/ \E v \in Worker \ {w} :
                         Busy(v) /\ thread[v].path = p
         /\ thread'[w].at = "written"
              => /\ thread[w].at = "writing"
                 /\ archives[p] = "open" => archives'[p] = "whole"
                 /\ archives[p] # "none"
         /\ thread'[w].at = "pruned"
              => /\ thread[w].at = "written"
                 /\ archives'[p] \in {archives[p], "none"}
                 /\ p \notin Excess => archives'[p] = archives[p]
         /\ thread'[w].at = "vanished"
              => thread[w].at = "pruned" /\ archives[p] = "none"
         /\ thread'[w].at = "done"
              => thread[w].at = "pruned" /\ archives[p] # "none"
<1> DEFINE p == thread[w].path
<1>1. p \in Second
  BY StepOfOne
<1>2. \A at \in At : Goto(w, at) \/ Finish(w, at) => thread'[w].at = at
  BY DEF Goto, Finish, Idle, BackupTypeOK
<1>3. CASE SnapshotFails(w) \/ WriteFails(w)
  BY <1>2, <1>3 DEF SnapshotFails, WriteFails, Fail, At
<1>4. CASE Open(w)
  BY <1>1, <1>2, <1>4 DEF Open, At, BackupTypeOK, Busy
<1>5. CASE Close(w)
  BY <1>1, <1>2, <1>5 DEF Close, Fail, At, BackupTypeOK
<1>6. CASE Prune(w)
  <2>1. thread[w].at = "written"
    BY <1>6 DEF Prune
  <2>2. CASE Removed(Excess) /\ Goto(w, "pruned")
    <3>1. archives'[p] = IF p \in Excess THEN "none" ELSE archives[p]
      BY <1>1, <2>2 DEF Removed
    <3>2. thread'[w].at = "pruned"
      BY <1>2, <2>2 DEF At
    <3> QED BY <2>1, <3>1, <3>2
  <2>3. CASE Finish(w, "raised")
    BY <1>2, <2>3 DEF At
  <2> QED BY <1>6, <2>2, <2>3 DEF Prune
<1>7. CASE Stat(w)
  BY <1>2, <1>7 DEF Stat, At
<1> QED BY <1>3, <1>4, <1>5, <1>6, <1>7 DEF create_backup

LEMMA ThreadsKept == BackupTypeOK /\ ThreadsInv /\ BackupStep => ThreadsInv'
<1> SUFFICES ASSUME BackupTypeOK, ThreadsInv, BackupStep PROVE ThreadsInv'
  OBVIOUS
<1> USE BackupBounds
<1>1. ASSUME NEW w \in Worker, Choose(w) PROVE ThreadsInv'
  <2>1. archives' = archives
    BY <1>1 DEF Choose
  <2>2. CASE Finish(w, "raised")
    <3>1. /\ thread'[w].at = "raised"
          /\ \A v \in Worker \ {w} : thread'[v] = thread[v]
      BY <2>2 DEF Finish, Idle, BackupTypeOK
    <3>2. /\ ~Busy(w) /\ ~Busy(w)'
          /\ \A v \in Worker \ {w} : Busy(v)' = Busy(v)
      BY <1>1, <3>1 DEF Busy, Choose
    <3> QED BY <2>1, <3>1, <3>2 DEF ThreadsInv, Own, Latest
  <2>3. CASE ~Finish(w, "raised")
    <3>1. PICK t \in now .. MaxTime : ChosenName(w, t)
      BY <1>1, <2>3 DEF Choose, ChosenName
    <3>2. \A v \in Worker \ {w} :
            /\ thread'[v].at = thread[v].at /\ thread'[v].path = thread[v].path
            /\ thread'[v].behind = thread[v].behind
            /\ thread'[v].met = (thread[v].met \/ Busy(v))
            /\ thread'[v].shared
                 = (thread[v].shared \/ (Busy(v) /\ thread[v].path = t))
      BY <3>1 DEF BackupTypeOK, ChosenName
    <3>3. /\ thread'[w].at = "chosen" /\ thread'[w].path = t
          /\ thread'[w].met = \E x \in Worker \ {w} : Busy(x)
          /\ thread'[w].shared = \E x \in Worker \ {w} :
                                  Busy(x) /\ thread[x].path = t
          /\ thread'[w].behind = \E u \in Second : u > t /\ ~Free(u)
      BY <3>1 DEF ChosenName
    <3>4. ~Busy(w) /\ \A v \in Worker \ {w} : Busy(v)' = Busy(v)
      BY <1>1, <3>2 DEF Busy, Choose
    <3>5. \A v \in Worker \ {w} :
            /\ (Busy(v) /\ ~thread[v].shared => Own(v))'
            /\ (Busy(v) => thread[v].met)'
            /\ (thread[v].at = "vanished"
                   => thread[v].met \/ thread[v].behind)'
      <4> SUFFICES ASSUME NEW v \in Worker \ {w}
                   PROVE  /\ (Busy(v) /\ ~thread[v].shared => Own(v))'
                          /\ (Busy(v) => thread[v].met)'
                          /\ (thread[v].at = "vanished"
                                 => thread[v].met \/ thread[v].behind)'
        OBVIOUS
      <4>1. ASSUME Busy(v)', ~thread'[v].shared PROVE Own(v)'
        <5>1. Busy(v) /\ ~thread[v].shared /\ thread[v].path # t
          BY <3>2, <3>4, <4>1
        <5>2. Own(v)
          BY <5>1 DEF ThreadsInv
        <5>3. \A x \in Worker \ {v} :
                Busy(x)' => thread'[x].path # thread'[v].path
          <6>1. \A x \in Worker \ {v} : x # w =>
                  Busy(x)' = Busy(x) /\ thread'[x].path = thread[x].path
            BY <3>2, <3>4
          <6> QED BY <3>2, <3>3, <5>1, <5>2, <6>1 DEF Own
        <5> QED BY <2>1, <3>2, <5>2, <5>3 DEF Own
      <4>2. (Busy(v) => thread[v].met)'
        BY <3>2, <3>4
      <4>3. (thread[v].at = "vanished" => thread[v].met \/ thread[v].behind)'
        BY <3>2 DEF ThreadsInv
      <4> QED BY <4>1, <4>2, <4>3
    <3>6. /\ (Busy(w) /\ ~thread[w].shared => Own(w))'
          /\ (Busy(w) /\ ~thread[w].met => \A v \in Worker \ {w} : ~Busy(v))'
          /\ (Busy(w) /\ ~thread[w].met /\ ~thread[w].behind => Latest(w))'
          /\ thread'[w].at # "vanished"
      BY <2>1, <3>1, <3>2, <3>3, <3>4 DEF Own, Latest, Free
    <3> QED BY <3>5, <3>6 DEF ThreadsInv
  <2> QED BY <2>2, <2>3
<1>2. ASSUME NEW w \in Worker, create_backup(w) PROVE ThreadsInv'
  <2> DEFINE p == thread[w].path
  <2>1. /\ Busy(w) /\ p \in Second
        /\ \A v \in Worker \ {w} : thread'[v] = thread[v]
        /\ \A t \in Second : t # p
             => archives'[t] = archives[t] \/ archives'[t] = "none"
    BY <1>2, StepOfOne
  <2>2. \A v \in Worker \ {w} : Busy(v)' = Busy(v) /\ (Busy(v) => thread[v].met)
    BY <2>1 DEF ThreadsInv, Busy
  <2>3. \A v \in Worker \ {w} :
          /\ (Busy(v) /\ ~thread[v].shared => Own(v))'
          /\ (Busy(v) => thread[v].met)'
          /\ (thread[v].at = "vanished" => thread[v].met \/ thread[v].behind)'
    <3> SUFFICES ASSUME NEW v \in Worker \ {w}
                 PROVE  /\ (Busy(v) /\ ~thread[v].shared => Own(v))'
                        /\ (Busy(v) => thread[v].met)'
                        /\ (thread[v].at = "vanished"
                               => thread[v].met \/ thread[v].behind)'
      OBVIOUS
    <3>1. ASSUME Busy(v), ~thread[v].shared PROVE Own(v)'
      <4>1. Own(v) /\ thread[v].path # p /\ thread[v].path \in Second
        BY <2>1, <3>1 DEF ThreadsInv, Own, BackupTypeOK
      <4>2. archives'[thread[v].path] \in {archives[thread[v].path], "none"}
        BY <2>1, <4>1
      <4>3. \A x \in Worker \ {v} :
              Busy(x)' => thread'[x].path # thread[v].path
        <5>1. \A x \in Worker \ {v} : x # w => thread'[x] = thread[x]
          BY <2>1
        <5>2. Busy(w)' => thread'[w].path = p
          BY <1>2, StepOfOne DEF Busy
        <5> QED BY <4>1, <5>1, <5>2 DEF Own, Busy
      <4> QED BY <2>1, <4>1, <4>2, <4>3 DEF Own
    <3> QED BY <2>1, <2>2, <3>1 DEF ThreadsInv
  <2>4. CASE thread'[w].at \in {"done", "failed", "raised"}
    <3>1. ~Busy(w)' /\ thread'[w].at # "vanished"
      BY <2>4 DEF Busy
    <3> QED BY <2>3, <3>1 DEF ThreadsInv
  <2>5. CASE thread'[w].at \notin {"done", "failed", "raised"}
    <3>1. /\ thread'[w].at \in {"writing", "written", "pruned", "vanished"}
          /\ thread'[w].path = p /\ thread'[w].met = thread[w].met
          /\ thread'[w].shared = thread[w].shared
          /\ thread'[w].behind = thread[w].behind
      BY <1>2, <2>5, StepOfOne
    <3>2. /\ thread'[w].at = "writing"
               => /\ thread[w].at = "chosen"
                  /\ \/ archives'[p] = "open"
                     \/ \E v \in Worker \ {w} :
                          Busy(v) /\ thread[v].path = p
          /\ thread'[w].at = "written"
               => /\ thread[w].at = "writing"
                  /\ archives[p] = "open" => archives'[p] = "whole"
                  /\ archives[p] # "none"
          /\ thread'[w].at = "pruned"
               => /\ thread[w].at = "written"
                  /\ archives'[p] \in {archives[p], "none"}
                  /\ p \notin Excess => archives'[p] = archives[p]
          /\ thread'[w].at = "vanished"
               => thread[w].at = "pruned" /\ archives[p] = "none"
      BY <1>2, OwnArchive
    <3>3. (Busy(w) /\ ~thread[w].shared => Own(w))'
      BY <2>1, <2>2, <3>1, <3>2 DEF ThreadsInv, Own
    <3>4. (Busy(w) /\ ~thread[w].met => \A v \in Worker \ {w} : ~Busy(v))'
      BY <2>1, <2>2, <3>1 DEF ThreadsInv
    <3>5. ASSUME ~thread[w].met, ~thread[w].behind
          PROVE  Latest(w)' /\ thread'[w].at # "vanished"
      <4>1. Latest(w)
        BY <2>1, <3>5 DEF ThreadsInv
      <4>2. p \notin Excess
        BY <2>1, <4>1, LastKept DEF Latest
      <4>3. \A t \in Second : t > p => archives'[t] = "none"
        <5>1. \A t \in Second : t > p => t # p
          BY <2>1 DEF Second
        <5> QED BY <2>1, <4>1, <5>1 DEF Latest
      <4> QED BY <2>1, <2>2, <3>1, <3>2, <4>1, <4>2, <4>3 DEF Latest
    <3>6. (Busy(w) /\ ~thread[w].met /\ ~thread[w].behind => Latest(w))'
      BY <3>1, <3>5
    <3>7. (thread[w].at = "vanished" => thread[w].met \/ thread[w].behind)'
      BY <3>1, <3>5
    <3> QED BY <2>3, <3>3, <3>4, <3>6, <3>7 DEF ThreadsInv
  <2> QED BY <2>4, <2>5
<1>3. CASE ClockTicks \/ ClockJumps \/ UNCHANGED backupVars
  BY <1>3 DEF ClockTicks, ClockJumps, backupVars, ThreadsInv, Own, Latest, Busy
<1>4. CASE Forgotten
  BY <1>4 DEF Forgotten, ThreadsInv, Idle, Busy
<1> QED BY <1>1, <1>2, <1>3, <1>4 DEF BackupStep

(***************************************************************************)
(* The process.                                                            *)
(***************************************************************************)
\* While the database is migrated, and after a start that could not.
MigrationInv ==
  /\ \A v \in Script :
       /\ applied[v] <= Statements[v]
       /\ v <= recorded => applied[v] = Statements[v]
       /\ v > NextScript => applied[v] = 0
       /\ applied[v] > 0 => starts > 0
  /\ proc = "migrating" =>
       /\ starts > 0
       /\ NextScript \in Script => ran <= applied[NextScript]
       /\ NextScript \in Script /\ applied[NextScript] > ran => starts > 1
  /\ proc \in {"up", "stopping", "stopped", "aborted"}
       => recorded = SCHEMA_VERSION

\* The loops before the one being stopped have ended.
ShutdownInv ==
  /\ proc = "stopping" =>
       /\ turn >= 1
       /\ \A i \in DOMAIN StopOrder :
            i < turn => loop[StopOrder[i]].at \in {"off", "ended"}
  /\ proc = "aborted" => turn \in DOMAIN StopOrder

\* The loop of the backup task has raised because its tick did.
BackupLoopInv ==
  TASK_BACKUP \in Task /\ loop[TASK_BACKUP].at = "raised"
    => thread["scheduled"].at \in Raised

Inv ==
  /\ TypeOK /\ RegistryTruthful /\ OrderlyEnd
  /\ ThreadsInv /\ MigrationInv /\ ShutdownInv /\ BackupLoopInv

LEMMA Tasks ==
  /\ Len(StopOrder) \in Nat /\ DOMAIN StopOrder = 1 .. Len(StopOrder)
  /\ \A i \in DOMAIN StopOrder : StopOrder[i] \in Task
  /\ Task \subseteq STRING
BY TaskBounds DEF Task

LEMMA Times ==
  /\ NoTime \in Time
  /\ \A t \in Second : t \in Time /\ t + Interval \in Time
BY TaskBounds, BackupBounds DEF Time, NoTime, Second

LEMMA InitInv == Init => Inv
<1> SUFFICES ASSUME Init PROVE Inv
  OBVIOUS
<1> USE Tasks, Times, TaskBounds, BackupBounds
<1>1. BackupTypeOK
  <2>1. 0 \in Second /\ "none" \in Content
    BY DEF Second, Content
  <2>2. Idle \in [at : At, path : Second, met : BOOLEAN, shared : BOOLEAN,
                  behind : BOOLEAN]
    BY <2>1 DEF Idle, At
  <2> QED BY <2>1, <2>2 DEF Init, BackupInit, BackupTypeOK
<1>2. TypeOK
  <2>1. registry \in [Task -> TaskRuntime]
    BY DEF Init, NotStarted, TaskRuntime
  <2>2. loop \in [Task -> [at : LoopAt, wait : 0 .. Interval, since : Int]]
    BY DEF Init, Off, At0, LoopAt
  <2> QED BY <1>1, <2>1, <2>2 DEF Init, TypeOK
<1>3. RegistryTruthful /\ OrderlyEnd /\ BackupLoopInv
  BY DEF Init, RegistryTruthful, OrderlyEnd, BackupLoopInv, Off, At0, NotStarted
<1>4. ThreadsInv
  BY DEF Init, BackupInit, ThreadsInv, Idle, Busy
<1>5. MigrationInv /\ ShutdownInv
  BY DEF Init, MigrationInv, ShutdownInv, NextScript, Script
<1> QED BY <1>2, <1>3, <1>4, <1>5 DEF Inv

\* The steps of the process that are not of a loop, those of lifespan that
\* wait for a loop, and those that move a loop and its row.
ProcessMoves ==
  \/ Start \/ migrate \/ BeginShutdown \/ AllStopped \/ Gone
  \/ \E configured \in SUBSET Task : StartLoops(configured)

LoopMoves(t) ==
  \/ RunStarted(t) \/ RunFinished(t) \/ RunRaises(t) \/ StopSeen(t)
  \/ LoopTimesOut(t)

LifespanMoves(t) == SetStopEvent(t) \/ LoopGone(t) \/ LoopHadRaised(t)

SameClocks == now' = now /\ lost' = lost

LEMMA Moves ==
  [Next]_vars =>
    \/ Tick
    \/ ProcessMoves /\ SameClocks
    \/ \E t \in Task : (LoopMoves(t) \/ LifespanMoves(t)) /\ SameClocks
    \/ UNCHANGED processVars /\ (ClockJumps \/ SameClocks)
<1>1. \A w \in Worker : Choose(w) \/ create_backup(w) => SameClocks
  BY DEF Choose, create_backup, SnapshotFails, Open, WriteFails, Close, Prune,
     Stat, Fail, SameClocks
<1>2. UNCHANGED backupVars => SameClocks
  BY DEF backupVars, SameClocks
<1>3. \A t \in Task : RunStarted(t) => SameClocks
  BY <1>1, <1>2 DEF RunStarted, Worker
<1>4. Gone => SameClocks
  BY DEF Gone, SameClocks
<1> QED BY <1>1, <1>2, <1>3, <1>4
        DEF Next, vars, ProcessMoves, LoopMoves, LifespanMoves, LoopStep,
            Worker

\* A second that passes leaves the loops where they are.
LEMMA TickMoves ==
  ASSUME Inv, Tick
  PROVE  /\ \A u \in Task :
              /\ loop'[u].at = loop[u].at /\ loop'[u].since = loop[u].since
              /\ loop'[u].wait = IF loop[u].wait > 0 THEN loop[u].wait - 1
                                 ELSE 0
         /\ UNCHANGED <<proc, dbVars, stopSet, registry, turn, starts, thread>>
         /\ now' = now + 1 /\ lost' = lost
BY DEF Tick, ClockTicks, Inv, TypeOK

LoopType == [at : LoopAt, wait : 0 .. Interval, since : Int]

LEMMA TypesKept == Inv /\ [Next]_vars => TypeOK'
<1> SUFFICES ASSUME Inv, [Next]_vars PROVE TypeOK'
  OBVIOUS
<1> USE Tasks, Times, TaskBounds, BackupBounds
<1>1. BackupTypeOK'
  BY StepsOfBackups, BackupTyped DEF Inv, TypeOK
<1>2. CASE ProcessMoves
  <2>1. CASE Start \/ migrate \/ BeginShutdown \/ AllStopped
    <3> USE DEF Inv, TypeOK, dbVars
    <3>1. CASE Start
      BY <1>1, <3>1 DEF Start
    <3>2. CASE MigrationStatement
      <4>1. applied' \in [Script -> Nat]
        BY <3>2 DEF MigrationStatement
      <4> QED BY <1>1, <3>2, <4>1 DEF MigrationStatement
    <3>6. CASE MigrationFails
      BY <1>1, <3>6 DEF MigrationFails
    <3>3. CASE MigrationRecord
      BY <1>1, <3>3 DEF MigrationRecord, NextScript, Script
    <3>4. CASE BeginShutdown
      BY <1>1, <3>4 DEF BeginShutdown
    <3>5. CASE AllStopped
      BY <1>1, <3>5 DEF AllStopped
    <3> QED BY <2>1, <3>1, <3>2, <3>3, <3>4, <3>5, <3>6 DEF migrate
  <2>2. CASE Gone
    <3>1. registry' \in [Task -> TaskRuntime]
      BY <2>2 DEF Gone, NotStarted, TaskRuntime
    <3>2. loop' \in [Task -> LoopType]
      BY <2>2 DEF Gone, Off, At0, LoopAt, LoopType
    <3> QED BY <1>1, <2>2, <3>1, <3>2 DEF Gone, Inv, TypeOK, LoopType
  <2>3. ASSUME NEW configured \in SUBSET Task, StartLoops(configured)
        PROVE  TypeOK'
    <3>1. now \in Time /\ now + Interval \in Time
      BY DEF Inv, TypeOK, BackupTypeOK
    <3>2. registry' \in [Task -> TaskRuntime]
      BY <2>3, <3>1 DEF StartLoops, register, NotStarted, TaskRuntime
    <3>3. loop' \in [Task -> LoopType]
      <4>1. Off \in LoopType
        BY DEF Off, At0, LoopAt, LoopType
      <4>2. Waiting(Interval) \in LoopType /\ Waiting(0) \in LoopType
        BY DEF Waiting, LoopAt, LoopType, Inv, TypeOK, BackupTypeOK
      <4> QED BY <2>3, <4>1, <4>2 DEF StartLoops
    <3> QED BY <1>1, <2>3, <3>2, <3>3 DEF StartLoops, Inv, TypeOK, LoopType,
            dbVars
  <2> QED BY <1>2, <2>1, <2>2, <2>3 DEF ProcessMoves
<1>3. ASSUME NEW t \in Task, LoopMoves(t) PROVE TypeOK'
  <2>1. now \in Time /\ now + Interval \in Time
    BY DEF Inv, TypeOK, BackupTypeOK
  <2>2. \A l \in LoopType : [loop EXCEPT ![t] = l] \in [Task -> LoopType]
    BY DEF Inv, TypeOK, LoopType
  <2>3. loop' \in [Task -> LoopType]
    <3>1. Waiting(Interval) \in LoopType
      BY DEF Waiting, LoopAt, LoopType, Inv, TypeOK, BackupTypeOK
    <3>2. \A at \in LoopAt : At0(at) \in LoopType
      BY DEF At0, LoopType
    <3>3. {"running", "raised", "ended", "cancelled"} \subseteq LoopAt
      BY DEF LoopAt
    <3> QED BY <1>3, <2>2, <3>1, <3>2, <3>3 DEF LoopMoves, RunStarted,
            RunFinished, RunRaises, StopSeen, LoopTimesOut
  <2>4. registry' \in [Task -> TaskRuntime]
    <3>1. CASE run_started(t) \/ stopped(t)
      <4>1. registry[t] \in TaskRuntime
        BY DEF Inv, TypeOK
      <4>2. \A st \in {"running", "stopped"} :
              [registry[t] EXCEPT !.state = st, !.next_due_at = NoTime]
                \in TaskRuntime
        BY <4>1 DEF TaskRuntime
      <4>3. \E st \in {"running", "stopped"} :
              registry' = [registry EXCEPT ![t] =
                [registry[t] EXCEPT !.state = st, !.next_due_at = NoTime]]
        <5>1. CASE run_started(t)
          BY <5>1 DEF run_started, Inv, TypeOK, TaskRuntime
        <5>2. CASE stopped(t)
          BY <5>2 DEF stopped, Inv, TypeOK, TaskRuntime
        <5> QED BY <3>1, <5>1, <5>2
      <4> QED BY <4>2, <4>3 DEF Inv, TypeOK
    <3>2. CASE run_finished(t)
      BY <3>2, <2>1 DEF run_finished, Inv, TypeOK, TaskRuntime
    <3> QED BY <1>3, <3>1, <3>2 DEF LoopMoves, RunStarted, RunFinished,
            RunRaises, StopSeen, LoopTimesOut
  <2>5. UNCHANGED <<dbVars, stopSet, turn, starts>>
        /\ proc' \in {proc, "aborted"}
    BY <1>3 DEF LoopMoves, RunStarted, RunFinished, RunRaises, StopSeen,
       LoopTimesOut
  <2> QED BY <1>1, <2>3, <2>4, <2>5 DEF Inv, TypeOK, LoopType, dbVars
<1>4. ASSUME NEW t \in Task, LifespanMoves(t) PROVE TypeOK'
  <2> USE DEF Inv, TypeOK, Stopping, dbVars
  <2>1. CASE SetStopEvent(t)
    BY <1>1, <2>1 DEF SetStopEvent
  <2>2. CASE LoopGone(t)
    BY <1>1, <2>2 DEF LoopGone
  <2>3. CASE LoopHadRaised(t)
    BY <1>1, <2>3 DEF LoopHadRaised
  <2> QED BY <1>4, <2>1, <2>2, <2>3 DEF LifespanMoves
<1>5. CASE UNCHANGED processVars
  BY <1>1, <1>5 DEF processVars, dbVars, Inv, TypeOK
<1>6. CASE Tick
  <2>1. loop' \in [Task -> LoopType]
    <3>1. loop \in [Task -> LoopType]
      BY DEF Inv, TypeOK, LoopType
    <3>2. \A l \in LoopType :
            [l EXCEPT !.wait = IF @ > 0 THEN @ - 1 ELSE 0] \in LoopType
      BY DEF LoopType
    <3> QED BY <1>6, <3>1, <3>2 DEF Tick
  <2> QED BY <1>1, <1>6, <2>1 DEF Tick, dbVars, Inv, TypeOK, LoopType
<1> QED BY <1>2, <1>3, <1>4, <1>5, <1>6, Moves

LEMMA ClockSums ==
  ASSUME now \in Int, lost \in Int, now' \in Int, lost' \in Int,
         now' + lost' = now + lost, NEW a \in Int, NEW b \in Int
  PROVE  now' + a + (lost' - b) = now + a + (lost - b)
<1>1. PICK m \in Int : m = now'
  OBVIOUS
<1>2. PICK k \in Int : k = lost'
  OBVIOUS
<1>3. PICK n \in Int : n = now
  OBVIOUS
<1>4. PICK l \in Int : l = lost
  OBVIOUS
<1>5. m + k = n + l
  BY <1>1, <1>2, <1>3, <1>4
<1>6. m + a + (k - b) = n + a + (l - b)
  BY <1>5
<1> QED BY <1>1, <1>2, <1>3, <1>4, <1>6

LEMMA RegistryKept == Inv /\ [Next]_vars => RegistryTruthful'
<1> SUFFICES ASSUME Inv, [Next]_vars PROVE RegistryTruthful'
  OBVIOUS
<1>i. Interval \in Nat
  BY TaskBounds
<1>t. /\ now \in Nat /\ lost \in Int
      /\ \A u \in Task : loop[u].wait \in Nat /\ loop[u].since \in Int
      /\ \A u \in Task : registry[u].next_due_at \in Nat
  BY <1>i, BackupBounds DEF Inv, TypeOK, BackupTypeOK, Second, TaskRuntime,
     Time, NoTime
<1>1. CASE ProcessMoves /\ SameClocks
  <2>1. CASE Start \/ migrate \/ BeginShutdown \/ AllStopped
    BY <1>1, <2>1 DEF Start, migrate, MigrationStatement, MigrationFails,
       MigrationRecord, BeginShutdown, AllStopped, SameClocks, Inv,
       RegistryTruthful, Due
  <2>2. CASE Gone
    BY <2>2 DEF Gone, RegistryTruthful, Off, At0, NotStarted
  <2>3. ASSUME NEW configured \in SUBSET Task, StartLoops(configured)
        PROVE  RegistryTruthful'
    <3>1. \A u \in Task :
            /\ registry'[u] = IF u \in configured
                 THEN register(u, u = TASK_BACKUP) ELSE NotStarted
            /\ loop'[u] = IF u \in configured
                 THEN Waiting(IF u = TASK_BACKUP THEN Interval ELSE 0)
                 ELSE Off
      BY <2>3 DEF StartLoops
    <3>2. \A u \in Task : u \notin configured =>
            /\ registry'[u].state = "not_started"
            /\ registry'[u].next_due_at = NoTime /\ loop'[u].at = "off"
      BY <3>1 DEF NotStarted, Off, At0
    <3>3. \A u \in Task : u \in configured =>
            /\ registry'[u].state = "scheduled" /\ loop'[u].at = "waiting"
            /\ registry'[u].next_due_at = now + loop'[u].wait
            /\ loop'[u].wait \in Nat /\ loop'[u].since = lost
      <4>1. \A d \in BOOLEAN :
              /\ register(TASK_BACKUP, d).state = "scheduled"
              /\ register(TASK_BACKUP, d).next_due_at
                   = now + (IF d THEN Interval ELSE 0)
        BY <1>i, <1>t DEF register
      <4>2. \A u \in Task : u \in configured =>
              /\ registry'[u] = register(TASK_BACKUP, u = TASK_BACKUP)
              /\ loop'[u] = Waiting(IF u = TASK_BACKUP THEN Interval ELSE 0)
        BY <3>1 DEF register
      <4>3. \A n \in Nat : /\ Waiting(n).at = "waiting"
                           /\ Waiting(n).wait = n /\ Waiting(n).since = lost
        BY DEF Waiting
      <4> SUFFICES ASSUME NEW u \in Task, u \in configured
                   PROVE  /\ registry'[u].state = "scheduled"
                          /\ loop'[u].at = "waiting"
                          /\ registry'[u].next_due_at = now + loop'[u].wait
                          /\ loop'[u].wait \in Nat /\ loop'[u].since = lost
        OBVIOUS
      <4>4. CASE u = TASK_BACKUP
        <5>1. registry'[u] = register(TASK_BACKUP, TRUE)
              /\ loop'[u] = Waiting(Interval)
          BY <4>2, <4>4
        <5> QED BY <1>i, <4>1, <4>3, <5>1
      <4>5. CASE u # TASK_BACKUP
        <5>1. registry'[u] = register(TASK_BACKUP, FALSE)
              /\ loop'[u] = Waiting(0)
          BY <4>2, <4>5
        <5>2. now = now + 0 /\ 0 \in Nat
          BY <1>t
        <5> QED BY <4>1, <4>3, <5>1, <5>2
      <4> QED BY <4>4, <4>5
    <3>4. \A u \in Task : u \in configured =>
            registry'[u].next_due_at = Due(u)'
      BY <1>1, <1>t, <3>3 DEF Due, SameClocks
    <3>5. \A u \in Task : u \in configured => Due(u)' <= Due(u)'
      BY <1>1, <1>t, <3>3 DEF Due, SameClocks
    <3> QED BY <3>2, <3>3, <3>4, <3>5 DEF RegistryTruthful
  <2> QED BY <1>1, <2>1, <2>2, <2>3 DEF ProcessMoves
<1>2. ASSUME NEW t \in Task, LoopMoves(t), SameClocks PROVE RegistryTruthful'
  <2>1. \A u \in Task \ {t} :
          loop'[u] = loop[u] /\ registry'[u] = registry[u]
    BY <1>2 DEF LoopMoves, RunStarted, RunFinished, RunRaises, StopSeen,
       LoopTimesOut, run_started, run_finished, stopped, Inv, TypeOK
  <2>2. \/ /\ loop'[t].at = "running" /\ registry'[t].state = "running"
           /\ registry'[t].next_due_at = NoTime
        \/ /\ loop'[t] = Waiting(Interval)
           /\ registry'[t].state = "scheduled"
           /\ registry'[t].next_due_at = now + Interval
        \/ /\ loop'[t].at \in {"ended", "raised", "cancelled"}
           /\ registry'[t].state = "stopped"
           /\ registry'[t].next_due_at = NoTime
    BY <1>2 DEF LoopMoves, RunStarted, RunFinished, RunRaises, StopSeen,
       LoopTimesOut, run_started, run_finished, stopped, Inv, TypeOK,
       TaskRuntime, At0
  <2>3. /\ registry'[t].state = CASE loop'[t].at = "off" -> "not_started"
                                  [] loop'[t].at = "waiting" -> "scheduled"
                                  [] loop'[t].at = "running" -> "running"
                                  [] OTHER -> "stopped"
        /\ IF loop'[t].at # "waiting" THEN registry'[t].next_due_at = NoTime
           ELSE IF loop'[t].wait > 0 THEN registry'[t].next_due_at = Due(t)'
           ELSE registry'[t].next_due_at <= Due(t)'
    BY <1>2, <1>i, <1>t, <2>2 DEF Waiting, Due, SameClocks
  <2> QED BY <1>2, <2>1, <2>3 DEF Inv, RegistryTruthful, Due, SameClocks
<1>3. ASSUME NEW t \in Task, LifespanMoves(t), SameClocks
      PROVE  RegistryTruthful'
  BY <1>3 DEF LifespanMoves, SetStopEvent, LoopGone, LoopHadRaised, Inv,
     RegistryTruthful, Due, SameClocks
<1>4. CASE UNCHANGED processVars /\ (ClockJumps \/ SameClocks)
  <2>1. now' + lost' = now + lost /\ now' \in Int /\ lost' \in Int
    <3>1. CASE ClockJumps
      <4>1. PICK t \in Second : lost = 0 /\ now' = t /\ lost' = now - t
        BY <3>1 DEF ClockJumps
      <4>2. t \in Int
        BY BackupBounds DEF Second
      <4> QED BY <1>t, <4>1, <4>2
    <3>2. CASE SameClocks
      BY <1>t, <3>2 DEF SameClocks
    <3> QED BY <1>4, <3>1, <3>2
  <2>2. \A u \in Task : Due(u)' = Due(u)
    <3>1. loop' = loop
      BY <1>4 DEF processVars
    <3> SUFFICES ASSUME NEW u \in Task PROVE Due(u)' = Due(u)
      OBVIOUS
    <3> DEFINE a == loop[u].wait
               b == loop[u].since
    <3>2. a \in Int /\ b \in Int /\ now \in Int /\ lost \in Int
      BY <1>t
    <3>4. now' + a + (lost' - b) = now + a + (lost - b)
      <4> HIDE DEF a, b
      <4> QED BY <2>1, <3>2, ClockSums
    <3> QED BY <3>1, <3>4 DEF Due
  <2> QED BY <1>4, <2>2 DEF processVars, Inv, RegistryTruthful
<1>5. CASE Tick
  <2>1. \A u \in Task :
          Due(u)' = IF loop[u].wait > 0 THEN Due(u) ELSE Due(u) + 1
    <3>1. now' = now + 1 /\ lost' = lost
      BY <1>5, TickMoves
    <3>2. \A a \in Nat, b \in Int :
            /\ a > 0 => now' + (a - 1) + (lost' - b) = now + a + (lost - b)
            /\ now' + 0 + (lost' - b) = now + 0 + (lost - b) + 1
      BY <1>t, <3>1
    <3>3. \A u \in Task :
            /\ loop'[u].since = loop[u].since
            /\ loop'[u].wait = IF loop[u].wait > 0 THEN loop[u].wait - 1 ELSE 0
      BY <1>5, TickMoves
    <3>4. \A u \in Task : loop[u].wait > 0 \/ loop[u].wait = 0
      BY <1>t
    <3> QED BY <1>t, <3>2, <3>3, <3>4 DEF Due
  <2>2. \A u \in Task : Due(u) \in Int
    BY <1>t DEF Due
  <2> QED BY <1>5, <1>t, <2>1, <2>2, TickMoves DEF Inv, RegistryTruthful
<1> QED BY <1>1, <1>2, <1>3, <1>4, <1>5, Moves

LEMMA MigrationsKept == Inv /\ [Next]_vars => MigrationInv'
<1> SUFFICES ASSUME Inv, [Next]_vars PROVE MigrationInv'
  OBVIOUS
<1> USE TaskBounds DEF Inv, TypeOK, dbVars, NextScript, Script
<1>1. CASE ProcessMoves
  <2>1. CASE Start
    BY <2>1 DEF Start, MigrationInv
  <2>2. CASE MigrationStatement
    <3> DEFINE n == recorded + 1
    <3>1. /\ proc = "migrating" /\ n \in Script /\ ran < Statements[n]
          /\ ran' = ran + 1 /\ UNCHANGED <<proc, recorded, starts>>
          /\ applied' = [applied EXCEPT ![n] = IF @ = ran THEN @ + 1 ELSE @]
      BY <2>2 DEF MigrationStatement
    <3>2. \A v \in Script : v # n => applied'[v] = applied[v]
      BY <3>1
    <3>3. applied'[n] = IF applied[n] = ran THEN ran + 1 ELSE applied[n]
      BY <3>1
    <3>4. /\ ran' <= applied'[n] /\ applied'[n] <= Statements[n]
          /\ applied'[n] > ran' => starts > 1
      BY <3>1, <3>3 DEF MigrationInv
    <3> QED BY <3>1, <3>2, <3>4 DEF MigrationInv
  <2>3. CASE MigrationRecord
    BY <2>3 DEF MigrationRecord, MigrationInv
  <2>4. CASE BeginShutdown \/ AllStopped \/ MigrationFails
    BY <2>4 DEF BeginShutdown, AllStopped, MigrationFails, MigrationInv
  <2>5. CASE Gone
    BY <2>5 DEF Gone, MigrationInv
  <2>6. ASSUME NEW configured \in SUBSET Task, StartLoops(configured)
        PROVE  MigrationInv'
    BY <2>6 DEF StartLoops, MigrationInv
  <2> QED BY <1>1, <2>1, <2>2, <2>3, <2>4, <2>5, <2>6
          DEF ProcessMoves, migrate
<1>2. ASSUME NEW t \in Task, LoopMoves(t) PROVE MigrationInv'
  BY <1>2 DEF LoopMoves, RunStarted, RunFinished, RunRaises, StopSeen,
     LoopTimesOut, Stopping, Alive, MigrationInv
<1>3. ASSUME NEW t \in Task, LifespanMoves(t) PROVE MigrationInv'
  BY <1>3 DEF LifespanMoves, SetStopEvent, LoopGone, LoopHadRaised, Stopping,
     MigrationInv
<1>4. CASE UNCHANGED processVars
  BY <1>4 DEF processVars, MigrationInv
<1>5. CASE Tick
  BY <1>5 DEF Tick, MigrationInv
<1> QED BY <1>1, <1>2, <1>3, <1>4, <1>5, Moves

\* A loop that has not started or has ended stays so while the process lives,
\* and so does one that was cut or has raised.
LEMMA EndsStay ==
  ASSUME Inv, NEW t \in Task, LoopMoves(t), NEW u \in Task,
         loop[u].at \in {"off", "ended", "raised", "cancelled"}
  PROVE  loop'[u] = loop[u]
BY DEF LoopMoves, RunStarted, RunFinished, RunRaises, StopSeen, LoopTimesOut,
   Inv, TypeOK

LEMMA ShutdownKept == Inv /\ [Next]_vars => (OrderlyEnd /\ ShutdownInv)'
<1> SUFFICES ASSUME Inv, [Next]_vars PROVE (OrderlyEnd /\ ShutdownInv)'
  OBVIOUS
<1> USE Tasks
<1>1. CASE Start \/ migrate \/ BeginShutdown \/ Gone
           \/ \E configured \in SUBSET Task : StartLoops(configured)
  BY <1>1 DEF Start, migrate, MigrationStatement, MigrationFails,
     MigrationRecord, BeginShutdown, Gone, StartLoops, OrderlyEnd, ShutdownInv, Inv
<1>2. CASE AllStopped
  <2>1. \A i \in DOMAIN StopOrder : loop[StopOrder[i]].at \in {"off", "ended"}
    BY <1>2 DEF AllStopped, ShutdownInv, Inv, TypeOK
  <2>2. \A t \in Task : loop[t].at \in {"off", "ended"}
    BY <2>1 DEF Task
  <2> QED BY <1>2, <2>2 DEF AllStopped, OrderlyEnd, ShutdownInv
<1>3. ASSUME NEW t \in Task, LoopMoves(t) PROVE (OrderlyEnd /\ ShutdownInv)'
  <2>1. CASE LoopTimesOut(t)
    <3>1. /\ proc' = "aborted" /\ turn' = turn /\ turn \in DOMAIN StopOrder
          /\ StopOrder[turn] = t
      BY <2>1 DEF LoopTimesOut, Stopping
    <3>2. loop'[t].at = "cancelled"
      BY <2>1 DEF LoopTimesOut, At0, Inv, TypeOK
    <3> QED BY <3>1, <3>2 DEF OrderlyEnd, ShutdownInv
  <2>2. CASE ~LoopTimesOut(t)
    <3>1. proc' = proc /\ turn' = turn
      BY <1>3, <2>2 DEF LoopMoves, RunStarted, RunFinished, RunRaises,
         StopSeen
    <3> QED BY <1>3, <3>1, EndsStay DEF OrderlyEnd, ShutdownInv, Inv
  <2> QED BY <2>1, <2>2
<1>4. ASSUME NEW t \in Task, LifespanMoves(t)
      PROVE  (OrderlyEnd /\ ShutdownInv)'
  BY <1>4 DEF LifespanMoves, SetStopEvent, LoopGone, LoopHadRaised, Stopping,
     OrderlyEnd, ShutdownInv, Inv, TypeOK
<1>5. CASE UNCHANGED processVars
  BY <1>5 DEF processVars, OrderlyEnd, ShutdownInv, Inv
<1>6. CASE Tick
  BY <1>6, TickMoves DEF OrderlyEnd, ShutdownInv, Inv
<1> QED BY <1>1, <1>2, <1>3, <1>4, <1>5, <1>6, Moves DEF ProcessMoves

LEMMA BackupLoopKept == Inv /\ [Next]_vars => BackupLoopInv'
<1> SUFFICES ASSUME Inv, [Next]_vars,
                    TASK_BACKUP \in Task, loop'[TASK_BACKUP].at = "raised"
             PROVE  thread'["scheduled"].at \in Raised
  BY DEF BackupLoopInv
<1>1. ASSUME loop' = loop, thread'["scheduled"].at = thread["scheduled"].at
      PROVE  thread'["scheduled"].at \in Raised
  BY <1>1 DEF Inv, BackupLoopInv
<1>2. CASE UNCHANGED backupVars
  <2>1. loop[TASK_BACKUP].at = "raised" \/ RunRaises(TASK_BACKUP)
    <3>1. CASE ProcessMoves
      BY <3>1 DEF ProcessMoves, Start, migrate, MigrationStatement,
         MigrationFails, MigrationRecord, BeginShutdown, AllStopped, Gone,
         StartLoops, Waiting, Off, At0
    <3>2. ASSUME NEW t \in Task, LoopMoves(t), ~RunRaises(TASK_BACKUP)
          PROVE  loop[TASK_BACKUP].at = "raised"
      <4>1. CASE t # TASK_BACKUP
        BY <3>2, <4>1 DEF LoopMoves, RunStarted, RunFinished, RunRaises,
           StopSeen, LoopTimesOut, Inv, TypeOK
      <4>2. CASE t = TASK_BACKUP
        <5>1. loop'[t].at \in {"running", "waiting", "ended", "cancelled"}
          BY <3>2, <4>2 DEF LoopMoves, RunStarted, RunFinished, StopSeen,
             LoopTimesOut, Waiting, At0, Inv, TypeOK
        <5> QED BY <4>2, <5>1
      <4> QED BY <4>1, <4>2
    <3>3. ASSUME NEW t \in Task, LifespanMoves(t)
          PROVE  loop[TASK_BACKUP].at = "raised"
      BY <3>3 DEF LifespanMoves, SetStopEvent, LoopGone, LoopHadRaised
    <3>4. CASE UNCHANGED processVars
      BY <3>4 DEF processVars
    <3>5. CASE Tick
      BY <3>5, TickMoves
    <3> QED BY <3>1, <3>2, <3>3, <3>4, <3>5, Moves
  <2> QED BY <1>2, <2>1 DEF RunRaises, backupVars, Inv, BackupLoopInv
<1>3. ASSUME NEW t \in Task, RunStarted(t)
      PROVE  thread'["scheduled"].at \in Raised
  <2>1. t # TASK_BACKUP
    BY <1>3 DEF RunStarted, At0, Inv, TypeOK
  <2> QED BY <1>2, <1>3, <2>1 DEF RunStarted
<1>4. CASE Gone
  BY <1>4 DEF Gone, Off, At0
<1>5. CASE UNCHANGED processVars /\ Choose("manual")
  <2>1. thread'["scheduled"].at = thread["scheduled"].at
    BY <1>5, ChooseMoves DEF Inv, TypeOK, Worker
  <2> QED BY <1>1, <1>5, <2>1 DEF processVars
<1>6. ASSUME UNCHANGED processVars, NEW w \in Worker, create_backup(w)
      PROVE  thread'["scheduled"].at \in Raised
  <2>1. thread["scheduled"].at \in Raised
    BY <1>6 DEF processVars, Inv, BackupLoopInv
  <2>2. w # "scheduled"
    BY <1>6, <2>1 DEF create_backup, SnapshotFails, Open, WriteFails, Close,
       Prune, Stat, Raised
  <2>3. thread'["scheduled"] = thread["scheduled"]
    BY <1>6, <2>2, StepOfOne DEF Inv, TypeOK, Worker
  <2> QED BY <2>1, <2>3
<1>7. CASE UNCHANGED processVars /\ ClockJumps
  BY <1>1, <1>7 DEF processVars, ClockJumps
<1>9. CASE Tick
  BY <1>9, TickMoves DEF Inv, BackupLoopInv
<1>8. CASE UNCHANGED vars
  BY <1>1, <1>8 DEF vars, processVars, backupVars
<1> QED BY <1>2, <1>3, <1>4, <1>5, <1>6, <1>7, <1>8, <1>9 DEF Next

LEMMA NextInv == Inv /\ [Next]_vars => Inv'
<1> SUFFICES ASSUME Inv, [Next]_vars PROVE Inv'
  OBVIOUS
<1>1. ThreadsInv'
  BY StepsOfBackups, ThreadsKept DEF Inv, TypeOK
<1> QED BY <1>1, TypesKept, RegistryKept, MigrationsKept, ShutdownKept,
        BackupLoopKept DEF Inv

LEMMA InvAlways == Spec => []Inv
BY InitInv, NextInv, PTL DEF Spec

(***************************************************************************)
(* The theorems.                                                           *)
(***************************************************************************)
(* Every variable of BackgroundTasks and Backups keeps its type.           *)
THEOREM TypeCorrect == Spec => []TypeOK
<1>1. Inv => TypeOK
  BY DEF Inv
<1> QED BY <1>1, InvAlways, PTL

(* The row a loop keeps in SchedulerRegistry says where it is, and its due *)
(* time is wrong by what the wall clock was moved during the wait, and by  *)
(* nothing else.                                                           *)
THEOREM RegistryAlwaysTruthful == Spec => []RegistryTruthful
<1>1. Inv => RegistryTruthful
  BY DEF Inv
<1> QED BY <1>1, InvAlways, PTL

(* lifespan serves requests only on a database that has every statement of *)
(* every migration, and a start finds statements without their version row *)
(* only after one that was cut or failed between them.                     *)
THEOREM AlwaysServedOnMigrated == Spec => []ServedOnMigrated
<1>1. Inv => ServedOnMigrated
  <2> SUFFICES ASSUME Inv PROVE ServedOnMigrated
    OBVIOUS
  <2>1. (\A v \in Script : applied[v] = Statements[v]) => applied = Statements
    BY TaskBounds DEF Inv, TypeOK
  <2>2. recorded = SCHEMA_VERSION => applied = Statements
    BY <2>1, TaskBounds DEF Inv, MigrationInv, Script
  <2> QED BY <2>2 DEF Inv, MigrationInv, ServedOnMigrated
<1> QED BY <1>1, InvAlways, PTL

(* The end of lifespan leaves no loop behind, unless a loop had died or a  *)
(* tick took too long.                                                     *)
THEOREM AlwaysOrderlyEnd == Spec => []OrderlyEnd
<1>1. Inv => OrderlyEnd
  BY DEF Inv
<1> QED BY <1>1, InvAlways, PTL

(* The backup loop dies of an OSError outside the try of create_backup, or *)
(* of an archive pruned by another backup or because its name was not the  *)
(* latest; of nothing else, for every number of archives to keep.          *)
THEOREM BackupLoopDiesOnlySo == Spec => []BackupLoopDies
<1>1. Inv => BackupLoopDies
  BY DEF Inv, ThreadsInv, BackupLoopInv, BackupLoopDies, Raised, Worker
<1> QED BY <1>1, InvAlways, PTL

(* A backup that create_backup reports is whole, whatever other backups do *)
(* at the same time, unless one of them has chosen the same name.          *)
THEOREM ReportedAlwaysWhole == Spec => ReportedIsWhole
<1>1. Inv /\ [Next]_vars
        => [\A w \in Worker : thread[w].at # "done" /\ thread'[w].at = "done"
              => thread[w].shared \/ archives[thread[w].path] = "whole"]_vars
  <2> SUFFICES ASSUME Inv, [Next]_vars, NEW w \in Worker,
                      thread[w].at # "done", thread'[w].at = "done",
                      ~thread[w].shared
               PROVE  archives[thread[w].path] = "whole"
    OBVIOUS
  <2>1. BackupStep /\ BackupTypeOK
    BY StepsOfBackups DEF Inv, TypeOK
  <2>2. create_backup(w)
    <3>1. ASSUME NEW v \in Worker, Choose(v)
          PROVE  thread'[w].at \in {thread[w].at, "chosen", "raised"}
      BY <2>1, <3>1, ChooseMoves
    <3>2. ASSUME NEW v \in Worker, create_backup(v), v # w
          PROVE  FALSE
      BY <2>1, <3>2, StepOfOne
    <3>3. CASE ClockTicks \/ ClockJumps \/ Forgotten \/ UNCHANGED backupVars
      BY <3>3 DEF ClockTicks, ClockJumps, Forgotten, backupVars, Idle
    <3> QED BY <2>1, <3>1, <3>2, <3>3 DEF BackupStep
  <2>3. Busy(w) /\ thread[w].at = "pruned" /\ archives[thread[w].path] # "none"
    BY <2>1, <2>2, OwnArchive, StepOfOne
  <2> QED BY <2>3 DEF Inv, ThreadsInv, Own
<1> QED BY <1>1, InvAlways, PTL DEF Spec, ReportedIsWhole
=============================================================================
