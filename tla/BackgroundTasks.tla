-------------------------- MODULE BackgroundTasks --------------------------
(***************************************************************************)
(* The life of the process: lifespan migrates the database, starts a loop  *)
(* for each task whose interval is set at that time, and stops the loops   *)
(* one after the other at the end.  A loop reports to the registry the     *)
(* tasks page reads.  The tick of the backup task is a thread of Backups.  *)
(***************************************************************************)
EXTENDS Backups, Sequences

CONSTANTS
  StopOrder,       \* the tasks, in the order in which lifespan stops them
  Interval,        \* the interval of every loop
  SCHEMA_VERSION,  \* the number of migrations
  Statements,      \* [script -> the number of its statements]
  Repeatable,      \* the scripts whose statements may be run again
  MaxStarts        \* bound: starts of the process

Script == 1 .. SCHEMA_VERSION

ASSUME TaskBounds ==
  /\ StopOrder \in Seq(STRING)
  /\ Interval \in Nat \ {0} /\ SCHEMA_VERSION \in Nat /\ MaxStarts \in Nat
  /\ Statements \in [Script -> Nat \ {0}] /\ Repeatable \subseteq Script

TASK_BACKUP == "backup"
Task == {StopOrder[i] : i \in DOMAIN StopOrder}
NoTime == MaxTime + Interval + 1
Time == 0 .. NoTime

(* The task's own state; "raised" is an exception out of run_once.         *)
LoopAt == {"off", "waiting", "running", "ended", "raised", "cancelled"}
TaskRuntime == [state : {"not_started", "scheduled", "running", "stopped"},
                last_run_at : Time, next_due_at : Time]

VARIABLES
  proc,      \* down, migrating, up, stopping, or how the process ended
  applied,   \* [Script -> the statements of it the database has]
  recorded,  \* the version in schema_version
  ran,       \* the statements of the next script this start has run
  loop,      \* [Task -> where the loop is, what is left of its wait, and
             \*  history: lost when the wait began]
  stopSet,   \* the tasks whose stop event is set
  registry,  \* [Task -> TaskRuntime]
  turn,      \* the task lifespan is stopping
  starts     \* bound

dbVars == <<applied, recorded, ran>>
processVars ==
  <<proc, dbVars, loop, stopSet, registry, turn, starts>>
vars == <<processVars, backupVars>>

NotStarted == [state |-> "not_started", last_run_at |-> NoTime,
               next_due_at |-> NoTime]
At0(at) == [at |-> at, wait |-> 0, since |-> 0]
Off == At0("off")

(* Mutant of Waiting: the minutes of the setting are converted twice.      *)
WaitingTwice(seconds) ==
  [at |-> "waiting", wait |-> 60 * seconds, since |-> lost]

(* wait_for of the interval, measured by the monotonic clock of the event  *)
(* loop; the registry keeps times of the wall clock.                       *)
Waiting(seconds) == [at |-> "waiting", wait |-> seconds, since |-> lost]

(***************************************************************************)
(* scheduler_status.py                                                     *)
(***************************************************************************)
register(row, delay_first) ==
  [state |-> "scheduled", last_run_at |-> NoTime,
   next_due_at |-> IF delay_first THEN now + Interval ELSE now]

run_started(t) == registry' =
  [registry EXCEPT ![t].state = "running", ![t].next_due_at = NoTime]

run_finished(t) == registry' =
  [registry EXCEPT ![t] = [state |-> "scheduled", last_run_at |-> now,
                           next_due_at |-> now + Interval]]

(* Mutant of stopped: the next due time is left in the row.                *)
stoppedStillDue(t) == registry' = [registry EXCEPT ![t].state = "stopped"]

stopped(t) == registry' =
  [registry EXCEPT ![t].state = "stopped", ![t].next_due_at = NoTime]

(***************************************************************************)
(* db.py: executescript commits each statement of the script; the version  *)
(* row is inserted afterwards.                                             *)
(***************************************************************************)
NextScript == recorded + 1

(* Mutant of MigrationStatement: a statement that fails is passed over.    *)
MigrationStatementLenient ==
  /\ proc = "migrating" /\ NextScript \in Script
  /\ ran < Statements[NextScript]
  /\ ran' = ran + 1
  /\ \/ applied' = [applied EXCEPT ![NextScript] = @ + 1]
     \/ UNCHANGED applied
  /\ UNCHANGED <<proc, recorded, loop, stopSet, registry, turn, starts>>

(* A statement the database has already, of a script whose version row it  *)
(* has not, can be run again only if the script is written for it.         *)
MigrationStatement ==
  /\ proc = "migrating" /\ NextScript \in Script
  /\ ran < Statements[NextScript]
  /\ ran < applied[NextScript] => NextScript \in Repeatable
  /\ ran' = ran + 1
  /\ applied' = [applied EXCEPT ![NextScript] = IF @ = ran THEN @ + 1 ELSE @]
  /\ UNCHANGED <<proc, recorded, loop, stopSet, registry, turn, starts>>

(* Any statement may fail (a locked database, a full disk), and so may the *)
(* insertion of the version row: lifespan ends.                            *)
MigrationFails ==
  /\ proc = "migrating" /\ NextScript \in Script
  /\ proc' = "failed"
  /\ UNCHANGED <<dbVars, loop, stopSet, registry, turn, starts>>

MigrationRecord ==
  /\ proc = "migrating" /\ NextScript \in Script
  /\ ran = Statements[NextScript]
  /\ recorded' = NextScript /\ ran' = 0
  /\ UNCHANGED <<proc, applied, loop, stopSet, registry, turn, starts>>

migrate == MigrationStatement \/ MigrationFails \/ MigrationRecord

(***************************************************************************)
(* main.py: lifespan                                                       *)
(***************************************************************************)
Start ==
  /\ proc = "down" /\ starts < MaxStarts
  /\ proc' = "migrating"
  /\ starts' = starts + 1
  /\ ran' = 0
  /\ UNCHANGED <<applied, recorded, loop, stopSet, registry, turn>>

(* A loop for every task that is configured now; a task whose interval is  *)
(* set later has none until the next start.                                *)
StartLoops(configured) ==
  /\ proc = "migrating" /\ recorded = SCHEMA_VERSION
  /\ proc' = "up"
  /\ registry' = [t \in Task |->
       IF t \in configured THEN register(t, t = TASK_BACKUP) ELSE NotStarted]
  /\ loop' = [t \in Task |->
       IF t \in configured
         THEN Waiting(IF t = TASK_BACKUP THEN Interval ELSE 0)
         ELSE Off]
  /\ UNCHANGED <<dbVars, stopSet, turn, starts>>

BeginShutdown ==
  /\ proc = "up"
  /\ proc' = "stopping" /\ turn' = 1
  /\ UNCHANGED <<dbVars, loop, stopSet, registry, starts>>

Stopping(t) == proc = "stopping" /\ turn \in DOMAIN StopOrder
               /\ StopOrder[turn] = t

(* The stop event of a task that has a loop is set.                        *)
SetStopEvent(t) ==
  /\ Stopping(t) /\ t \notin stopSet /\ loop[t].at # "off"
  /\ stopSet' = stopSet \cup {t}
  /\ UNCHANGED <<proc, dbVars, loop, registry, turn, starts>>

(* Mutant of LoopGone: the loop is not waited for.                         *)
LoopGoneUnawaited(t) ==
  /\ Stopping(t)
  /\ loop[t].at = "off" \/ t \in stopSet
  /\ turn' = turn + 1
  /\ UNCHANGED <<proc, dbVars, loop, stopSet, registry, starts>>

(* wait_for of a loop that has ended, or that never started.               *)
LoopGone(t) ==
  /\ Stopping(t)
  /\ loop[t].at = "off" \/ (t \in stopSet /\ loop[t].at = "ended")
  /\ turn' = turn + 1
  /\ UNCHANGED <<proc, dbVars, loop, stopSet, registry, starts>>

(* wait_for hands the exception of a loop that died on: only Cancelled     *)
(* is suppressed, and the loops after it are not told to stop.             *)
LoopHadRaised(t) ==
  /\ Stopping(t) /\ t \in stopSet /\ loop[t].at = "raised"
  /\ proc' = "aborted"
  /\ UNCHANGED <<dbVars, loop, stopSet, registry, turn, starts>>

(* A tick that goes on for five seconds is cancelled, and the TimeoutError *)
(* leaves lifespan.  A backup's thread cannot be cancelled.                *)
LoopTimesOut(t) ==
  /\ Stopping(t) /\ t \in stopSet /\ loop[t].at = "running"
  /\ loop' = [loop EXCEPT ![t] = At0("cancelled")]
  /\ stopped(t)
  /\ proc' = "aborted"
  /\ UNCHANGED <<dbVars, stopSet, turn, starts>>

AllStopped ==
  /\ proc = "stopping" /\ turn > Len(StopOrder)
  /\ proc' = "stopped"
  /\ UNCHANGED <<dbVars, loop, stopSet, registry, turn, starts>>

(***************************************************************************)
(* import_scheduler.py: scheduler_loop                                     *)
(***************************************************************************)
Alive == proc \in {"up", "stopping", "aborted"}

(* The wait is over and the stop event is not set.                         *)
RunStarted(t) ==
  /\ Alive /\ loop[t].at = "waiting" /\ loop[t].wait = 0
  /\ t \notin stopSet
  /\ loop' = [loop EXCEPT ![t] = At0("running")]
  /\ run_started(t)
  /\ IF t = TASK_BACKUP THEN Choose("scheduled") ELSE UNCHANGED backupVars
  /\ UNCHANGED <<proc, dbVars, stopSet, turn, starts>>

(* run_once returned; a BackupError is caught in the tick.                 *)
RunFinished(t) ==
  /\ Alive /\ loop[t].at = "running"
  /\ t = TASK_BACKUP => thread["scheduled"].at \in {"done", "failed"}
  /\ loop' = [loop EXCEPT ![t] = Waiting(Interval)]
  /\ run_finished(t)
  /\ UNCHANGED <<proc, dbVars, stopSet, turn, starts>>

Raised == {"raised", "vanished"}

(* Mutant of RunRaises: a backup that failed ends the loop as well.        *)
RunRaisesOnFailure(t) ==
  /\ Alive /\ loop[t].at = "running"
  /\ t = TASK_BACKUP => thread["scheduled"].at \in Raised \cup {"failed"}
  /\ loop' = [loop EXCEPT ![t] = At0("raised")]
  /\ stopped(t)
  /\ UNCHANGED <<proc, dbVars, stopSet, turn, starts>>

(* An exception out of run_once ends the loop; no last run is recorded.    *)
RunRaises(t) ==
  /\ Alive /\ loop[t].at = "running"
  /\ t = TASK_BACKUP => thread["scheduled"].at \in Raised
  /\ loop' = [loop EXCEPT ![t] = At0("raised")]
  /\ stopped(t)
  /\ UNCHANGED <<proc, dbVars, stopSet, turn, starts>>

(* The stop event ends the wait, and the loop.                             *)
StopSeen(t) ==
  /\ Alive /\ loop[t].at = "waiting" /\ t \in stopSet
  /\ loop' = [loop EXCEPT ![t] = At0("ended")]
  /\ stopped(t)
  /\ UNCHANGED <<proc, dbVars, stopSet, turn, starts>>

(* The process is gone: after its end once the threads have finished, or   *)
(* by a crash.  The archives stay as they are.                             *)
Gone ==
  /\ \/ proc \in {"stopped", "aborted", "failed"}
        /\ \A w \in Worker : ~Busy(w)
     \/ proc \in {"migrating", "up", "stopping"} /\ starts < MaxStarts
  /\ proc' = "down" /\ turn' = 0 /\ ran' = 0
  /\ loop' = [t \in Task |-> Off]
  /\ stopSet' = {}
  /\ registry' = [t \in Task |-> NotStarted]
  /\ thread' = [w \in Worker |-> Idle]
  /\ UNCHANGED <<applied, recorded, starts, now, lost, archives>>

(* A second passes: on the wall clock, and off every wait.                 *)
Tick ==
  /\ ClockTicks
  /\ loop' = [t \in Task |->
       [loop[t] EXCEPT !.wait = IF @ > 0 THEN @ - 1 ELSE 0]]
  /\ UNCHANGED <<proc, dbVars, stopSet, registry, turn, starts>>

(***************************************************************************)
Init ==
  /\ BackupInit
  /\ proc = "down"
  /\ applied = [v \in Script |-> 0] /\ recorded = 0 /\ ran = 0
  /\ loop = [t \in Task |-> Off]
  /\ stopSet = {} /\ turn = 0 /\ starts = 0
  /\ registry = [t \in Task |-> NotStarted]

LoopStep(t) ==
  \/ SetStopEvent(t) \/ LoopGone(t) \/ LoopHadRaised(t) \/ LoopTimesOut(t)
  \/ RunFinished(t) \/ RunRaises(t) \/ StopSeen(t)

Next ==
  \/ /\ Start \/ migrate \/ BeginShutdown \/ AllStopped
        \/ (\E configured \in SUBSET Task : StartLoops(configured))
        \/ (\E t \in Task : LoopStep(t))
     /\ UNCHANGED backupVars
  \/ \E t \in Task : RunStarted(t)
  \/ Gone \/ Tick
  \/ /\ \/ proc = "up" /\ Choose("manual")
        \/ proc # "down" /\ (\E w \in Worker : create_backup(w))
        \/ ClockJumps
     /\ UNCHANGED processVars

Spec == Init /\ [][Next]_vars

(***************************************************************************)
(* Every variable keeps its type.                                          *)
TypeOK ==
  /\ BackupTypeOK
  /\ proc \in {"down", "migrating", "up", "stopping", "stopped", "aborted",
               "failed"}
  /\ recorded \in 0 .. SCHEMA_VERSION
  /\ applied \in [Script -> Nat] /\ ran \in Nat
  /\ loop \in [Task -> [at : LoopAt, wait : 0 .. Interval, since : Int]]
  /\ stopSet \subseteq Task
  /\ registry \in [Task -> TaskRuntime]
  /\ turn \in 0 .. Len(StopOrder) + 1 /\ starts \in 0 .. MaxStarts

(* The tasks page against the live schedule: the row a loop keeps in the   *)
(* registry says where the loop is, and its due time is the end of the     *)
(* wait on the wall clock, off by exactly what that clock was moved while  *)
(* the loop was waiting.                                                   *)
Due(t) == now + loop[t].wait + (lost - loop[t].since)

RegistryTruthful ==
  \A t \in Task :
    /\ registry[t].state = CASE loop[t].at = "off" -> "not_started"
                             [] loop[t].at = "waiting" -> "scheduled"
                             [] loop[t].at = "running" -> "running"
                             [] OTHER -> "stopped"
    /\ IF loop[t].at # "waiting" THEN registry[t].next_due_at = NoTime
       ELSE IF loop[t].wait > 0 THEN registry[t].next_due_at = Due(t)
       ELSE registry[t].next_due_at <= Due(t)

(* Requests are only served on a database that has every statement of      *)
(* every migration; and a start finds statements of a script without its   *)
(* version row only when an earlier start was cut, or failed, between them.*)
ServedOnMigrated ==
  /\ proc \in {"up", "stopping", "stopped", "aborted"}
       => recorded = SCHEMA_VERSION /\ applied = Statements
  /\ proc = "migrating" /\ NextScript \in Script /\ applied[NextScript] > ran
       => starts > 1

(* An orderly end leaves no loop behind: every one has seen its own stop   *)
(* event, and no tick is cut.  When the end is cut off instead, a loop had *)
(* died or a tick took too long.                                           *)
OrderlyEnd ==
  /\ proc = "stopped" => \A t \in Task : loop[t].at \in {"off", "ended"}
  /\ proc = "aborted" =>
       loop[StopOrder[turn]].at \in {"raised", "cancelled"}

(* A backup that fails as create_backup says it does, with a BackupError,  *)
(* never ends the loop of the backup task.  What ends it is an OSError of  *)
(* a call outside the try; and while those calls succeed, only an archive  *)
(* pruned before its own thread looked at it: because its name was not the *)
(* latest (the clock was set back, or the names ran ahead of it), or by    *)
(* another backup running at the same time.                                *)
BackupLoopDies ==
  TASK_BACKUP \in Task /\ loop[TASK_BACKUP].at = "raised"
    => \/ thread["scheduled"].at = "raised"
       \/ /\ thread["scheduled"].at = "vanished"
          /\ thread["scheduled"].behind \/ thread["scheduled"].met

(* A backup that create_backup reports as made is a whole archive in the   *)
(* folder, whatever other backups made, pruned or removed meanwhile,       *)
(* unless one of them had chosen the same name.                            *)
ReportedIsWhole ==
  [][\A w \in Worker : thread[w].at # "done" /\ thread'[w].at = "done"
       => thread[w].shared \/ archives[thread[w].path] = "whole"]_vars
=============================================================================
