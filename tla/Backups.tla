------------------------------ MODULE Backups ------------------------------
(***************************************************************************)
(* create_backup as threads run it next to each other: the manual backup   *)
(* of the API and the tick of the backup scheduler both go through         *)
(* asyncio.to_thread.  An archive is named by the second it was begun in;  *)
(* the model keeps, for every second, what the file of that name holds.    *)
(***************************************************************************)
EXTENDS Integers, FiniteSets, FiniteSetsExt

CONSTANTS
  MaxTime,            \* bound: the last second a name can have
  retention_copies    \* archives that pruning keeps; 0 disables it

ASSUME BackupBounds == MaxTime \in Nat /\ retention_copies \in Nat

Second == 0 .. MaxTime
Worker == {"manual", "scheduled"}

(* "open" is an archive whose writer has not closed it, "mixed" one that   *)
(* two writers wrote to at the same time.                                  *)
Content == {"none", "open", "whole", "mixed"}

(* Where a thread is in create_backup; "failed" is a BackupError.  The     *)
(* calls before the try, after it and in its handler raise OSErrors of     *)
(* their own: "vanished" is the archive that stat() does not find,         *)
(* "raised" any other one.                                                 *)
At == {"idle", "chosen", "writing", "written", "pruned", "done", "failed",
       "vanished", "raised"}

VARIABLES
  now,       \* the wall clock
  lost,      \* history: the seconds by which it was set back, or forward
             \*  when negative
  archives,  \* [Second -> Content]
  thread     \* [Worker -> where it is and the name it chose; history:
             \*  whether another backup ran while it did (met), one of the
             \*  same name (shared), and whether an archive had a later
             \*  name when it chose (behind)]

backupVars == <<now, lost, archives, thread>>

Idle == [at |-> "idle", path |-> 0, met |-> FALSE, shared |-> FALSE,
         behind |-> FALSE]

Busy(w) == thread[w].at \notin {"idle", "done", "failed", "vanished", "raised"}

Goto(w, at) == thread' = [thread EXCEPT ![w].at = at]
Finish(w, at) == thread' = [thread EXCEPT ![w] = [Idle EXCEPT !.at = at]]

(* exists() in the loop that looks for a free second.                      *)
Free(t) == archives[t] = "none"

(* The name is chosen, but no file is made: the first free second from now *)
(* on.  load_settings and exists() may raise.                              *)
Choose(w) ==
  /\ ~Busy(w)
  /\ \/ Finish(w, "raised")
     \/ \E t \in now .. MaxTime :
          /\ Free(t) /\ \A u \in now .. t - 1 : ~Free(u)
          /\ LET same(v) == Busy(v) /\ thread[v].path = t
             IN  thread' = [v \in Worker |->
                   IF v = w
                     THEN [at |-> "chosen", path |-> t,
                           met |-> \E x \in Worker \ {w} : Busy(x),
                           shared |-> \E x \in Worker \ {w} : same(x),
                           behind |-> \E u \in Second : u > t /\ ~Free(u)]
                     ELSE [thread[v] EXCEPT !.met = @ \/ Busy(v),
                                            !.shared = @ \/ same(v)]]
  /\ UNCHANGED <<now, lost, archives>>

(* The handler of every failure removes the archive of that name, whoever  *)
(* made it; its own exists() and unlink may raise and leave it there.      *)
Fail(w) ==
  /\ \/ /\ archives' = [archives EXCEPT ![thread[w].path] = "none"]
        /\ Finish(w, "failed")
     \/ UNCHANGED archives /\ Finish(w, "raised")
  /\ UNCHANGED <<now, lost>>

(* The folder or the snapshot of the database cannot be made.              *)
SnapshotFails(w) == thread[w].at = "chosen" /\ Fail(w)

(* ZipFile(path, "w"): a file of that name is truncated; one another       *)
(* thread is writing ends up with the data of both.                        *)
Open(w) ==
  /\ thread[w].at = "chosen"
  /\ archives' = [archives EXCEPT ![thread[w].path] =
       IF \E v \in Worker \ {w} : thread[v].at = "writing"
                                  /\ thread[v].path = thread[w].path
         THEN "mixed" ELSE "open"]
  /\ Goto(w, "writing")
  /\ UNCHANGED <<now, lost>>

WriteFails(w) == thread[w].at = "writing" /\ Fail(w)

(* The archive is closed and chmod finds it, or finds it removed by        *)
(* another thread, which is a failure.                                     *)
Close(w) ==
  /\ thread[w].at = "writing"
  /\ IF archives[thread[w].path] = "none"
       THEN Fail(w)
       ELSE /\ archives' = [archives EXCEPT ![thread[w].path] =
                              IF @ = "open" THEN "whole" ELSE @]
            /\ Goto(w, "written")
            /\ UNCHANGED <<now, lost>>

(* _prune_backups: the archives with the smallest names beyond the ones to *)
(* keep.                                                                   *)
Candidates == {t \in Second : archives[t] # "none"}

Excess ==
  IF retention_copies = 0 THEN {}
  ELSE {t \in Candidates :
          Cardinality({u \in Candidates : u > t}) >= retention_copies}

Removed(S) ==
  archives' = [t \in Second |-> IF t \in S THEN "none" ELSE archives[t]]

(* glob, or the unlink of the archive t, may raise: the smaller names are  *)
(* gone by then.                                                           *)
Prune(w) ==
  /\ thread[w].at = "written"
  /\ \/ Removed(Excess) /\ Goto(w, "pruned")
     \/ /\ retention_copies > 0
        /\ \E t \in Excess \cup {0} : Removed({u \in Excess : u < t})
        /\ Finish(w, "raised")
  /\ UNCHANGED <<now, lost>>

(* Mutant of Stat: a missing file is passed over.                          *)
StatTolerant(w) ==
  /\ thread[w].at = "pruned"
  /\ Finish(w, "done")
  /\ UNCHANGED <<now, lost, archives>>

(* backup_path.stat() is outside the try: a missing file raises.           *)
Stat(w) ==
  /\ thread[w].at = "pruned"
  /\ \/ IF archives[thread[w].path] = "none"
          THEN Goto(w, "vanished") ELSE Finish(w, "done")
     \/ Finish(w, "raised")
  /\ UNCHANGED <<now, lost, archives>>

create_backup(w) ==
  SnapshotFails(w) \/ Open(w) \/ WriteFails(w) \/ Close(w) \/ Prune(w)
  \/ Stat(w)

ClockTicks ==
  /\ now < MaxTime
  /\ now' = now + 1
  /\ UNCHANGED <<lost, archives, thread>>

(* The wall clock is set to another time, once.                            *)
ClockJumps ==
  /\ lost = 0
  /\ \E t \in Second \ {now} : now' = t /\ lost' = now - t
  /\ UNCHANGED <<archives, thread>>

BackupInit ==
  /\ now = 0 /\ lost = 0
  /\ archives = [t \in Second |-> "none"]
  /\ thread = [w \in Worker |-> Idle]

BackupTypeOK ==
  /\ now \in Second /\ lost \in Int
  /\ archives \in [Second -> Content]
  /\ thread \in [Worker -> [at : At, path : Second, met : BOOLEAN,
                          shared : BOOLEAN, behind : BOOLEAN]]
=============================================================================
