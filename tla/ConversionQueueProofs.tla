------------------------ MODULE ConversionQueueProofs ------------------------
(***************************************************************************)
(* The type invariant, the safety properties and the refinement of the     *)
(* conversion queue, proved for every set of books, every similarity of    *)
(* titles and every bound.  TypeOK is not inductive: the types of what the *)
(* webhook and the converter write depend on the row they hold being a row *)
(* of the table, which WellFormed adds.                                    *)
(***************************************************************************)
EXTENDS ConversionProperties, TLAPS

USE BookAssumption, OriginalsAssumption, BoundsAssumption

-----------------------------------------------------------------------------
(***************************************************************************)
(* Which steps write what.                                                 *)
(***************************************************************************)
\* The steps that write a row of conversion_jobs.
RowWrite ==
  \/ \E b \in Book : \E w \in BOOLEAN : ImportBook(b, w)
  \/ \E b \in Book : EnqueueJob(b) \/ RemoveBook(b)
  \/ \E j \in JobId : RetryJob(j) \/ CancelJob(j) \/ ClaimJob(j) \/ Expire(j)
  \/ HttpFailed \/ ProcessTimeouts \/ RecordDeletion
  \/ \E ok \in BOOLEAN : CommandExited(ok)
  \/ \E m \in callbacks : \E j \in JobId :
       WebhookCompleted(m, j) \/ WebhookFailed(m, j)

\* Every other step leaves the table alone.
LEMMA RowsWrittenBy == [Next]_vars => RowWrite \/ UNCHANGED jobVars
<1>1. (\E s \in Settings : PutSettings(s)) => UNCHANGED jobVars
  BY DEF PutSettings
<1>2. Start \/ Wake \/ FindNoWork \/ TickFails \/ HttpAccepted
      => UNCHANGED jobVars
  BY DEF Start, Wake, FindNoWork, TickFails, HttpAccepted
<1>3. (\E m \in callbacks : CallbackLost(m)) => UNCHANGED jobVars
  BY DEF CallbackLost
<1>4. KeepOriginals \/ UnlinkOriginals \/ RecordDeletionFails
      => UNCHANGED jobVars
  BY DEF KeepOriginals, UnlinkOriginals, RecordDeletionFails
<1>5. (\E left \in 1 .. NumOriginals : UnlinkFails(left)) => UNCHANGED jobVars
  BY DEF UnlinkFails
<1>6. (\E j \in JobId : \E h \in Hints :
         \/ ConverterFails(j, h)
         \/ \E v \in BOOLEAN : ConverterFinishes(j, h, v))
      => UNCHANGED jobVars
  BY DEF ConverterFails, ConverterFinishes
<1>7. ConverterAccepts \/ Crash => UNCHANGED jobVars
  BY DEF ConverterAccepts, Crash
<1>8. UNCHANGED vars => UNCHANGED jobVars
  BY DEF vars
<1>9. Api => RowWrite \/ UNCHANGED jobVars
  BY <1>1 DEF Api, RowWrite
<1>10. WorkerStep => RowWrite \/ UNCHANGED jobVars
  BY <1>2 DEF WorkerStep, RowWrite
<1>11. Webhook => RowWrite \/ UNCHANGED jobVars
  BY <1>3, <1>4, <1>5 DEF Webhook, RowWrite
<1>12. Environment => RowWrite \/ UNCHANGED jobVars
  BY <1>6, <1>7 DEF Environment, RowWrite
<1> QED
  BY <1>8, <1>9, <1>10, <1>11, <1>12 DEF Next


-----------------------------------------------------------------------------
(***************************************************************************)
(* The rows in the table are 1 .. lastId, and each belongs to a book.      *)
(***************************************************************************)
RowsAllocated ==
  \A j \in JobId :
    IF j > lastId THEN status[j] = "none" /\ bookOf[j] = None
                  ELSE status[j] # "none" /\ bookOf[j] \in Book

\* A row that runs or has an outcome was claimed, and only a row of the table
\* was.
ClaimedFirst ==
  \A j \in JobId :
    /\ status[j] \in {"running", "completed", "failed"} => attempts[j] > 0
    /\ attempts[j] > 0 => j <= lastId

\* A row the worker, the webhook or the converter holds has been claimed.
HeldJobsClaimed ==
  /\ worker.pc = "convert" => worker.job # NoJob /\ attempts[worker.job] > 0
  /\ hook.pc # "idle" => hook.job # NoJob /\ attempts[hook.job] > 0
  /\ \A j \in inbox : attempts[j] > 0

WellFormed == TypeOK /\ RowsAllocated /\ ClaimedFirst /\ HeldJobsClaimed

\* The empty table is well-formed.
LEMMA InitWellFormed == Init => WellFormed
BY DEF Init, WellFormed, TypeOK, RowsTypeOK, CoroutinesTypeOK, WorldTypeOK,
       RowsAllocated, ClaimedFirst, HeldJobsClaimed, Status, JobId, NoJob,
       WorkerAt, Worker, NoHook, Hook, Backend

\* The rows held by the worker and by the webhook are rows of the table.
LEMMA HeldRows ==
  ASSUME WellFormed
  PROVE  /\ worker.pc = "convert" => worker.job \in JobId
         /\ hook.pc # "idle" => hook.job \in JobId /\ bookOf[hook.job] \in Book
         /\ \A j \in inbox : j \in JobId /\ bookOf[j] \in Book
<1>1. worker.pc = "convert" => worker.job \in JobId
  BY DEF WellFormed, TypeOK, CoroutinesTypeOK, Worker, HeldJobsClaimed
<1>2. hook.pc # "idle" => hook.job \in JobId
  BY DEF WellFormed, TypeOK, CoroutinesTypeOK, Hook, HeldJobsClaimed
<1>3. inbox \subseteq JobId
  BY DEF WellFormed, TypeOK, WorldTypeOK
<1>4. \A j \in JobId : attempts[j] > 0 => bookOf[j] \in Book
  BY DEF WellFormed, TypeOK, RowsTypeOK, RowsAllocated, ClaimedFirst, JobId
<1> QED
  BY <1>1, <1>2, <1>3, <1>4 DEF WellFormed, HeldJobsClaimed

\* A callback is matched to a running row, or to none.
LEMMA MatchedRuns ==
  ASSUME NEW m, NEW j \in JobId, MatchRunningJob(m, j)
  PROVE  status[j] = "running"
BY DEF MatchRunningJob, BestTitle, Running

\* The statements of the handlers write values of the columns' types.
LEMMA SetStatusType ==
  ASSUME RowsTypeOK, NEW j \in JobId, NEW s \in Status, SetStatus(j, s)
  PROVE  status' \in [JobId -> Status] /\ overdue' \in SUBSET JobId
BY DEF SetStatus, RowsTypeOK

\* An insert keeps the types of the columns.
LEMMA InsertJobType ==
  ASSUME RowsTypeOK, NEW b \in Book, InsertJob(b)
  PROVE  RowsTypeOK'
<1>1. lastId' \in 0 .. MaxJobs /\ lastId + 1 \in JobId
  BY DEF InsertJob, RowsTypeOK, JobId
<1>2. status' \in [JobId -> Status] /\ bookOf' \in [JobId -> Book \cup {None}]
  BY <1>1 DEF InsertJob, RowsTypeOK, Status
<1> QED
  BY <1>1, <1>2 DEF InsertJob, RowsTypeOK, history

\* _finish_job keeps the types of the columns it writes.
LEMMA FinishJobType ==
  ASSUME RowsTypeOK, NEW j \in JobId, NEW ok \in BOOLEAN, FinishJob(j, ok)
  PROVE  /\ status' \in [JobId -> Status]
         /\ overdue' \in SUBSET JobId
         /\ completedPath' \in [JobId -> Book \cup {None}]
<1>1. CASE status[j] = "purged"
  BY <1>1 DEF FinishJob, RowsTypeOK
<1>2. CASE status[j] # "purged"
  <2>1. (IF ok THEN "completed" ELSE "failed") \in Status
    BY DEF Status
  <2> QED
    BY <1>2, <2>1, SetStatusType DEF FinishJob, RowsTypeOK
<1> QED
  BY <1>1, <1>2

\* Every step keeps the types of the columns.
LEMMA StepRowsType == WellFormed /\ [Next]_vars => RowsTypeOK'
<1> SUFFICES ASSUME WellFormed, [Next]_vars PROVE RowsTypeOK'
  OBVIOUS
<1>0. RowsTypeOK
  BY DEF WellFormed, TypeOK
<1>1. CASE UNCHANGED jobVars
  BY <1>0, <1>1 DEF RowsTypeOK, jobVars
<1>2. ASSUME NEW b \in Book, NEW w \in BOOLEAN, ImportBook(b, w)
      PROVE  RowsTypeOK'
  BY <1>0, <1>1, <1>2, InsertJobType DEF ImportBook
<1>3. ASSUME NEW b \in Book, EnqueueJob(b) PROVE RowsTypeOK'
  BY <1>0, <1>3, InsertJobType DEF EnqueueJob
<1>4. ASSUME NEW b \in Book, RemoveBook(b) PROVE RowsTypeOK'
  BY <1>0, <1>4 DEF RemoveBook, RowsTypeOK, Status, history
<1>5. ASSUME NEW j \in JobId, RetryJob(j) PROVE RowsTypeOK'
  <2>1. "queued" \in Status /\ retries' \in 0 .. MaxRetries
    BY <1>0, <1>5 DEF RetryJob, RowsTypeOK, Status
  <2> QED
    BY <1>0, <1>5, <2>1, SetStatusType DEF RetryJob, RowsTypeOK
<1>6. ASSUME NEW j \in JobId, CancelJob(j) PROVE RowsTypeOK'
  <2>1. "cancelled" \in Status
    BY DEF Status
  <2> QED
    BY <1>0, <1>6, <2>1, SetStatusType DEF CancelJob, RowsTypeOK, history
<1>7. ASSUME NEW j \in JobId, ClaimJob(j) PROVE RowsTypeOK'
  <2>1. "running" \in Status
    BY DEF Status
  <2>2. attempts' \in [JobId -> Nat]
    BY <1>0, <1>7 DEF ClaimJob, RowsTypeOK
  <2> QED
    BY <1>0, <1>7, <2>1, <2>2, SetStatusType
       DEF ClaimJob, RowsTypeOK, history
<1>8. ASSUME NEW j \in JobId, Expire(j) PROVE RowsTypeOK'
  BY <1>0, <1>8 DEF Expire, RowsTypeOK, history
<1>9. ASSUME NEW ok \in BOOLEAN, worker.pc = "convert",
             FinishJob(worker.job, ok),
             UNCHANGED <<lastId, bookOf, attempts, originalsDeleted, history>>
      PROVE  RowsTypeOK'
  BY <1>0, <1>9, HeldRows, FinishJobType DEF RowsTypeOK, history
<1>10. CASE HttpFailed
  BY <1>9, <1>10 DEF HttpFailed
<1>11. ASSUME NEW ok \in BOOLEAN, CommandExited(ok) PROVE RowsTypeOK'
  BY <1>9, <1>11 DEF CommandExited
<1>12. CASE ProcessTimeouts
  BY <1>0, <1>12 DEF ProcessTimeouts, RowsTypeOK, Status, history
<1>13. CASE RecordDeletion
  BY <1>0, <1>13
     DEF RecordDeletion, RowsTypeOK, history, WellFormed, TypeOK,
         CoroutinesTypeOK, Hook
<1>14. ASSUME NEW m \in callbacks, NEW j \in JobId, WebhookCompleted(m, j)
       PROVE  RowsTypeOK'
  <2>1. "completed" \in Status /\ m.path \in Book
    BY DEF Status, WellFormed, TypeOK, WorldTypeOK, Callback
  <2> QED
    BY <1>0, <1>14, <2>1, SetStatusType
       DEF WebhookCompleted, RowsTypeOK, history
<1>15. ASSUME NEW m \in callbacks, NEW j \in JobId, WebhookFailed(m, j)
       PROVE  RowsTypeOK'
  <2>1. "failed" \in Status
    BY DEF Status
  <2> QED
    BY <1>0, <1>15, <2>1, SetStatusType DEF WebhookFailed, RowsTypeOK, history
<1> QED
  BY RowsWrittenBy, <1>1, <1>2, <1>3, <1>4, <1>5, <1>6, <1>7, <1>8, <1>10,
     <1>11, <1>12, <1>13, <1>14, <1>15 DEF RowWrite

\* The value of a worker that holds no row, and of the webhook at rest.
LEMMA WorkerAtType ==
  ASSUME NEW pc \in {"down", "off", "idle", "poll", "timeouts"}
  PROVE  /\ WorkerAt(pc) \in Worker
         /\ WorkerAt(pc).pc = pc
BY DEF WorkerAt, Worker, NoJob, Backend

\* The webhook at rest is a hook that is idle.
LEMMA NoHookType == NoHook \in Hook /\ NoHook.pc = "idle"
BY DEF NoHook, Hook, NoJob

\* After its convert call the worker goes on to the timeouts.
LEMMA ConvertedType ==
  ASSUME worker \in Worker, Converted
  PROVE  worker' \in Worker /\ worker'.pc = "timeouts"
BY DEF Converted, Worker

\* The steps that move a coroutine.
CoroutineStep ==
  \/ Start \/ Wake \/ FindNoWork \/ ProcessTimeouts \/ TickFails
  \/ \E j \in JobId : ClaimJob(j)
  \/ HttpAccepted \/ HttpFailed \/ \E ok \in BOOLEAN : CommandExited(ok)
  \/ \E m \in callbacks : \E j \in JobId : WebhookCompleted(m, j)
  \/ KeepOriginals \/ UnlinkOriginals
  \/ \E left \in 1 .. NumOriginals : UnlinkFails(left)
  \/ RecordDeletion \/ RecordDeletionFails \/ ConverterAccepts \/ Crash

\* Every other step leaves the worker and the webhook alone.
LEMMA CoroutinesMovedBy ==
  [Next]_vars => CoroutineStep \/ UNCHANGED <<worker, hook>>
<1>1. Api => UNCHANGED <<worker, hook>>
  BY DEF Api, PutSettings, ImportBook, EnqueueJob, RemoveBook, RetryJob,
         CancelJob
<1>2. (\E m \in callbacks : \/ CallbackLost(m)
                             \/ \E j \in JobId : WebhookFailed(m, j))
      => UNCHANGED <<worker, hook>>
  BY DEF CallbackLost, WebhookFailed
<1>3. (\E j \in JobId : \E h \in Hints :
         \/ ConverterFails(j, h)
         \/ \E v \in BOOLEAN : ConverterFinishes(j, h, v))
      => UNCHANGED <<worker, hook>>
  BY DEF ConverterFails, ConverterFinishes
<1>4. (\E j \in JobId : Expire(j)) => UNCHANGED <<worker, hook>>
  BY DEF Expire
<1>5. WorkerStep => CoroutineStep
  BY DEF WorkerStep, CoroutineStep
<1>6. Webhook => CoroutineStep \/ UNCHANGED <<worker, hook>>
  BY <1>2 DEF Webhook, CoroutineStep
<1>7. Environment => CoroutineStep \/ UNCHANGED <<worker, hook>>
  BY <1>3, <1>4 DEF Environment, CoroutineStep
<1> QED
  BY <1>1, <1>5, <1>6, <1>7 DEF Next, vars

\* Every step keeps the types of the coroutines.
LEMMA StepCoroutinesType == WellFormed /\ [Next]_vars => CoroutinesTypeOK'
<1> SUFFICES ASSUME WellFormed, [Next]_vars PROVE CoroutinesTypeOK'
  OBVIOUS
<1>0. worker \in Worker /\ hook \in Hook
  BY DEF WellFormed, TypeOK, CoroutinesTypeOK
<1> USE DEF CoroutinesTypeOK
<1>1. CASE UNCHANGED <<worker, hook>>
  BY <1>0, <1>1
<1>2. CASE Start \/ Wake \/ FindNoWork
  BY <1>0, <1>2, WorkerAtType DEF Start, Wake, FindNoWork
<1>3. CASE ProcessTimeouts \/ TickFails
  BY <1>0, <1>3, WorkerAtType DEF ProcessTimeouts, TickFails
<1>4. ASSUME NEW j \in JobId, ClaimJob(j) PROVE CoroutinesTypeOK'
  <2>1. settings.backend \in Backend
    BY SettingsAssumption DEF WellFormed, TypeOK, WorldTypeOK
  <2> QED
    BY <1>0, <1>4, <2>1 DEF ClaimJob, Worker
<1>5. CASE HttpAccepted \/ HttpFailed \/ \E ok \in BOOLEAN : CommandExited(ok)
  BY <1>0, <1>5, ConvertedType DEF HttpAccepted, HttpFailed, CommandExited
<1>6. ASSUME NEW m \in callbacks, NEW j \in JobId, WebhookCompleted(m, j)
      PROVE  CoroutinesTypeOK'
  <2>1. m.visible \in BOOLEAN
    BY DEF WellFormed, TypeOK, WorldTypeOK, Callback
  <2> QED
    BY <1>0, <1>6, <2>1 DEF WebhookCompleted, Hook
<1>7. CASE KeepOriginals \/ RecordDeletion \/ RecordDeletionFails
  BY <1>0, <1>7, NoHookType
     DEF KeepOriginals, RecordDeletion, RecordDeletionFails
<1>8. ASSUME NEW left \in 1 .. NumOriginals, UnlinkFails(left)
      PROVE  CoroutinesTypeOK'
  BY <1>0, <1>8, NoHookType DEF UnlinkFails
<1>9. CASE UnlinkOriginals
  <2>1. originals[bookOf[hook.job]] \in 0 .. NumOriginals
    BY <1>9, HeldRows
       DEF UnlinkOriginals, WellFormed, TypeOK, WorldTypeOK
  <2> QED
    BY <1>0, <1>9, <2>1 DEF UnlinkOriginals, Hook
<1>10. CASE ConverterAccepts
  BY <1>0, <1>10 DEF ConverterAccepts, Worker
<1>11. CASE Crash
  BY <1>0, <1>11, WorkerAtType, NoHookType DEF Crash
<1> QED
  BY CoroutinesMovedBy, <1>1, <1>2, <1>3, <1>4, <1>5, <1>6, <1>7, <1>8, <1>9,
     <1>10, <1>11 DEF CoroutineStep

\* The converter's callbacks have the type of a callback.
LEMMA CallbackForType ==
  ASSUME NEW j \in JobId, bookOf[j] \in Book, NEW h \in Hints,
         NEW kind \in {"completed", "failed"}, NEW v \in BOOLEAN
  PROVE  CallbackFor(j, kind, h, v) \in Callback
BY DEF CallbackFor, Callback, NoJob

\* The steps that write a setting, a book, a file, or the converter's state.
WorldWrite ==
  \/ \E s \in Settings : PutSettings(s)
  \/ \E b \in Book : RemoveBook(b) \/ \E w \in BOOLEAN : ImportBook(b, w)
  \/ TickFails \/ Crash \/ ConverterAccepts
  \/ \E m \in callbacks :
       \/ \E j \in JobId : WebhookCompleted(m, j) \/ WebhookFailed(m, j)
       \/ CallbackLost(m)
  \/ UnlinkOriginals \/ RecordDeletionFails
  \/ \E left \in 1 .. NumOriginals : UnlinkFails(left)
  \/ \E j \in JobId : \E h \in Hints :
       \/ ConverterFails(j, h)
       \/ \E v \in BOOLEAN : ConverterFinishes(j, h, v)

worldVars == <<settings, library, fileVars, externalVars, faults>>

\* Every other step leaves the settings, books, files and converter alone.
LEMMA WorldWrittenBy == [Next]_vars => WorldWrite \/ UNCHANGED worldVars
<1> USE DEF worldVars
<1>1. (\E b \in Book : EnqueueJob(b)) => UNCHANGED worldVars
  BY DEF EnqueueJob
<1>2. (\E j \in JobId : RetryJob(j) \/ CancelJob(j)) => UNCHANGED worldVars
  BY DEF RetryJob, CancelJob
<1>3. Start \/ Wake \/ FindNoWork \/ ProcessTimeouts => UNCHANGED worldVars
  BY DEF Start, Wake, FindNoWork, ProcessTimeouts
<1>4. (\E j \in JobId : ClaimJob(j) \/ Expire(j)) => UNCHANGED worldVars
  BY DEF ClaimJob, Expire
<1>5. HttpAccepted \/ HttpFailed \/ (\E ok \in BOOLEAN : CommandExited(ok))
      => UNCHANGED worldVars
  BY DEF HttpAccepted, HttpFailed, CommandExited
<1>6. KeepOriginals \/ RecordDeletion => UNCHANGED worldVars
  BY DEF KeepOriginals, RecordDeletion
<1>7. UNCHANGED vars => UNCHANGED worldVars
  BY DEF vars
<1>8. Api => WorldWrite \/ UNCHANGED worldVars
  BY <1>1, <1>2 DEF Api, WorldWrite
<1>9. WorkerStep => WorldWrite \/ UNCHANGED worldVars
  BY <1>3, <1>4, <1>5 DEF WorkerStep, WorldWrite
<1>10. Webhook => WorldWrite \/ UNCHANGED worldVars
  BY <1>6 DEF Webhook, WorldWrite
<1>11. Environment => WorldWrite \/ UNCHANGED worldVars
  BY <1>4 DEF Environment, WorldWrite
<1> QED
  BY <1>7, <1>8, <1>9, <1>10, <1>11 DEF Next

\* A fault is counted within its bound.
LEMMA FaultType == ASSUME WorldTypeOK, Fault PROVE faults' \in 0 .. MaxFaults
BY DEF Fault, WorldTypeOK

\* Every step keeps the types of what surrounds the table.
LEMMA StepWorldType == WellFormed /\ [Next]_vars => WorldTypeOK'
<1> SUFFICES ASSUME WellFormed, [Next]_vars PROVE WorldTypeOK'
  OBVIOUS
<1>0. WorldTypeOK
  BY DEF WellFormed, TypeOK
<1> USE DEF fileVars, externalVars
<1>1. CASE UNCHANGED worldVars
  BY <1>0, <1>1 DEF WorldTypeOK, worldVars
<1>2. ASSUME NEW s \in Settings, PutSettings(s) PROVE WorldTypeOK'
  BY <1>0, <1>2 DEF PutSettings, WorldTypeOK
<1>3. ASSUME NEW b \in Book, RemoveBook(b) PROVE WorldTypeOK'
  BY <1>0, <1>3 DEF RemoveBook, WorldTypeOK
<1>4. ASSUME NEW b \in Book, NEW w \in BOOLEAN, ImportBook(b, w)
      PROVE  WorldTypeOK'
  BY <1>0, <1>4 DEF ImportBook, WorldTypeOK
<1>5. CASE TickFails \/ Crash \/ RecordDeletionFails
  BY <1>0, <1>5, FaultType
     DEF TickFails, Crash, RecordDeletionFails, WorldTypeOK
<1>6. CASE ConverterAccepts
  BY <1>0, <1>6, HeldRows DEF ConverterAccepts, WorldTypeOK
<1>7. ASSUME NEW m \in callbacks, NEW j \in JobId, WebhookCompleted(m, j)
      PROVE  WorldTypeOK'
  <2>1. bookOf[j] \in Book \cup {None}
    BY DEF WellFormed, TypeOK, RowsTypeOK
  <2> QED
    BY <1>0, <1>7, <2>1 DEF WebhookCompleted, WorldTypeOK
<1>8. ASSUME NEW m \in callbacks, NEW j \in JobId, WebhookFailed(m, j)
      PROVE  WorldTypeOK'
  BY <1>0, <1>8 DEF WebhookFailed, WorldTypeOK
<1>9. ASSUME NEW m \in callbacks, CallbackLost(m) PROVE WorldTypeOK'
  BY <1>0, <1>9 DEF CallbackLost, WorldTypeOK
<1>10. CASE UnlinkOriginals
  <2>1. /\ originals' = [originals EXCEPT ![bookOf[hook.job]] = 0]
        /\ outputs' \in SUBSET outputs
    BY <1>10 DEF UnlinkOriginals
  <2>2. 0 \in 0 .. NumOriginals
    OBVIOUS
  <2>3. originals' \in [Book -> 0 .. NumOriginals]
    BY <1>0, <2>1, <2>2 DEF WorldTypeOK
  <2>4. UNCHANGED <<settings, library, fileOwner, inbox, callbacks, faults>>
    BY <1>10 DEF UnlinkOriginals
  <2> QED
    BY <1>0, <2>1, <2>3, <2>4 DEF WorldTypeOK
<1>11. ASSUME NEW left \in 1 .. NumOriginals, UnlinkFails(left)
       PROVE  WorldTypeOK'
  <2>0. left \in 0 .. NumOriginals
    OBVIOUS
  <2>1. originals' \in [Book -> 0 .. NumOriginals]
    BY <1>0, <1>11, <2>0 DEF UnlinkFails, WorldTypeOK
  <2>2. outputs' \in SUBSET Book
    BY <1>0, <1>11 DEF UnlinkFails, WorldTypeOK
  <2> QED
    BY <1>0, <1>11, <2>1, <2>2, FaultType DEF UnlinkFails, WorldTypeOK
<1>12. ASSUME NEW j \in JobId, NEW h \in Hints, ConverterFails(j, h)
       PROVE  WorldTypeOK'
  <2>1. CallbackFor(j, "failed", h, FALSE) \in Callback
    BY <1>12, HeldRows, CallbackForType DEF ConverterFails
  <2> QED
    BY <1>0, <1>12, <2>1 DEF ConverterFails, WorldTypeOK
<1>13. ASSUME NEW j \in JobId, NEW h \in Hints, NEW v \in BOOLEAN,
              ConverterFinishes(j, h, v)
       PROVE  WorldTypeOK'
  <2>1. CallbackFor(j, "completed", h, v) \in Callback /\ bookOf[j] \in Book
    BY <1>13, HeldRows, CallbackForType DEF ConverterFinishes
  <2> QED
    BY <1>0, <1>13, <2>1 DEF ConverterFinishes, WorldTypeOK
<1> QED
  BY WorldWrittenBy, <1>1, <1>2, <1>3, <1>4, <1>5, <1>6, <1>7, <1>8, <1>9,
     <1>10, <1>11, <1>12, <1>13 DEF WorldWrite

-----------------------------------------------------------------------------
(***************************************************************************)
(* The three facts about rows that the types rest on.                      *)
(***************************************************************************)
LEMMA StepRowsAllocated == WellFormed /\ [Next]_vars => RowsAllocated'
<1> SUFFICES ASSUME WellFormed, [Next]_vars PROVE RowsAllocated'
  OBVIOUS
<1>0. RowsTypeOK /\ RowsAllocated /\ ClaimedFirst
  BY DEF WellFormed, TypeOK
<1> USE DEF JobId
<1>1. CASE UNCHANGED jobVars
  BY <1>0, <1>1 DEF RowsAllocated, jobVars
<1>2. ASSUME NEW b \in Book, InsertJob(b) PROVE RowsAllocated'
  <2>1. lastId \in Nat /\ lastId' = lastId + 1
    BY <1>0, <1>2 DEF InsertJob, RowsTypeOK
  <2>2. \A i \in JobId : i # lastId + 1 =>
          status'[i] = status[i] /\ bookOf'[i] = bookOf[i]
    BY <1>0, <1>2 DEF InsertJob, RowsTypeOK
  <2>3. lastId + 1 \in JobId =>
          status'[lastId + 1] = "queued" /\ bookOf'[lastId + 1] = b
    BY <1>0, <1>2 DEF InsertJob, RowsTypeOK
  <2> QED
    BY <1>0, <2>1, <2>2, <2>3 DEF RowsAllocated
\* A step that only overwrites the status of rows of the table.
<1>3. /\ lastId' = lastId /\ bookOf' = bookOf
      /\ \A i \in JobId : \/ status'[i] = status[i]
                          \/ i <= lastId /\ status'[i] # "none"
      => RowsAllocated'
  BY <1>0 DEF RowsAllocated, RowsTypeOK
<1>4. ASSUME NEW j \in JobId, NEW s \in Status \ {"none"}, SetStatus(j, s),
             status[j] # "none", lastId' = lastId, bookOf' = bookOf
      PROVE  RowsAllocated'
  <2>1. j <= lastId
    BY <1>0, <1>4 DEF RowsAllocated, RowsTypeOK
  <2> QED
    BY <1>0, <1>3, <1>4, <2>1 DEF SetStatus, RowsTypeOK
<1>5. ASSUME NEW b \in Book, NEW w \in BOOLEAN, ImportBook(b, w)
      PROVE  RowsAllocated'
  BY <1>1, <1>2, <1>5 DEF ImportBook
<1>6. ASSUME NEW b \in Book, EnqueueJob(b) PROVE RowsAllocated'
  BY <1>2, <1>6 DEF EnqueueJob
<1>7. ASSUME NEW b \in Book, RemoveBook(b) PROVE RowsAllocated'
  <2>1. \A i \in JobId : bookOf[i] = b => i <= lastId
    BY <1>0 DEF RowsAllocated, RowsTypeOK
  <2> QED
    BY <1>0, <1>3, <1>7, <2>1 DEF RemoveBook
<1>8. ASSUME NEW j \in JobId, RetryJob(j) PROVE RowsAllocated'
  BY <1>4, <1>8 DEF RetryJob, Status
<1>9. ASSUME NEW j \in JobId, CancelJob(j) PROVE RowsAllocated'
  BY <1>4, <1>9 DEF CancelJob, Status
<1>10. ASSUME NEW j \in JobId, ClaimJob(j) PROVE RowsAllocated'
  BY <1>4, <1>10 DEF ClaimJob, Queued, Status
<1>11. ASSUME NEW j \in JobId, Expire(j) PROVE RowsAllocated'
  BY <1>3, <1>11 DEF Expire
<1>12. ASSUME NEW ok \in BOOLEAN, worker.pc = "convert",
              FinishJob(worker.job, ok), lastId' = lastId, bookOf' = bookOf
       PROVE  RowsAllocated'
  <2>1. worker.job \in JobId /\ status[worker.job] # "none"
    BY <1>0, <1>12, HeldRows
       DEF WellFormed, HeldJobsClaimed, ClaimedFirst, RowsAllocated, RowsTypeOK
  <2>2. CASE status[worker.job] = "purged"
    BY <1>3, <1>12, <2>2 DEF FinishJob
  <2>3. CASE status[worker.job] # "purged"
    BY <1>4, <1>12, <2>1, <2>3 DEF FinishJob, Status
  <2> QED
    BY <2>2, <2>3
<1>13. CASE HttpFailed
  BY <1>12, <1>13 DEF HttpFailed
<1>14. ASSUME NEW ok \in BOOLEAN, CommandExited(ok) PROVE RowsAllocated'
  BY <1>12, <1>14 DEF CommandExited
<1>15. CASE ProcessTimeouts
  BY <1>0, <1>3, <1>15
     DEF ProcessTimeouts, Running, RowsAllocated, RowsTypeOK
<1>16. CASE RecordDeletion
  BY <1>3, <1>16 DEF RecordDeletion
<1>17. ASSUME NEW m \in callbacks, NEW j \in JobId, WebhookCompleted(m, j)
       PROVE  RowsAllocated'
  BY <1>4, <1>17, MatchedRuns DEF WebhookCompleted, Status
<1>18. ASSUME NEW m \in callbacks, NEW j \in JobId, WebhookFailed(m, j)
       PROVE  RowsAllocated'
  BY <1>4, <1>18, MatchedRuns DEF WebhookFailed, Status
<1> QED
  BY RowsWrittenBy, <1>1, <1>5, <1>6, <1>7, <1>8, <1>9, <1>10, <1>11, <1>13,
     <1>14, <1>15, <1>16, <1>17, <1>18 DEF RowWrite

\* process_one_job alone makes a row run, and it counts the attempt.
LEMMA StepClaimedFirst == WellFormed /\ [Next]_vars => ClaimedFirst'
<1> SUFFICES ASSUME WellFormed, [Next]_vars PROVE ClaimedFirst'
  OBVIOUS
<1>0. RowsTypeOK /\ RowsAllocated /\ ClaimedFirst
  BY DEF WellFormed, TypeOK
<1>1. CASE UNCHANGED jobVars
  BY <1>0, <1>1 DEF ClaimedFirst, jobVars
<1>2. ASSUME NEW b \in Book, InsertJob(b) PROVE ClaimedFirst'
  BY <1>0, <1>2 DEF InsertJob, ClaimedFirst, RowsAllocated, RowsTypeOK, JobId
\* A step that gives an outcome, or "running", to claimed rows only.
<1>3. /\ lastId' = lastId /\ attempts' = attempts
      /\ \A i \in JobId :
           \/ status'[i] = status[i]
           \/ status'[i] \notin {"running", "completed", "failed"}
           \/ attempts[i] > 0
      => ClaimedFirst'
  BY <1>0 DEF ClaimedFirst
<1>4. ASSUME NEW b \in Book, NEW w \in BOOLEAN, ImportBook(b, w)
      PROVE  ClaimedFirst'
  BY <1>1, <1>2, <1>4 DEF ImportBook
<1>5. ASSUME NEW b \in Book, EnqueueJob(b) PROVE ClaimedFirst'
  BY <1>2, <1>5 DEF EnqueueJob
<1>6. ASSUME NEW b \in Book, RemoveBook(b) PROVE ClaimedFirst'
  BY <1>3, <1>6 DEF RemoveBook
<1>7. ASSUME NEW j \in JobId, RetryJob(j) \/ CancelJob(j)
      PROVE  ClaimedFirst'
  BY <1>0, <1>3, <1>7 DEF RetryJob, CancelJob, SetStatus, RowsTypeOK
<1>8. ASSUME NEW j \in JobId, ClaimJob(j) PROVE ClaimedFirst'
  <2>1. \A i \in JobId \ {j} : /\ status'[i] = status[i]
                               /\ attempts'[i] = attempts[i]
    BY <1>0, <1>8 DEF ClaimJob, SetStatus, RowsTypeOK
  <2>2. j <= lastId /\ lastId' = lastId
    BY <1>0, <1>8 DEF ClaimJob, Queued, RowsAllocated, RowsTypeOK, JobId
  <2>3. attempts'[j] > 0
    BY <1>0, <1>8 DEF ClaimJob, RowsTypeOK
  <2> QED
    BY <1>0, <2>1, <2>2, <2>3 DEF ClaimedFirst
<1>9. ASSUME NEW j \in JobId, Expire(j) PROVE ClaimedFirst'
  BY <1>3, <1>9 DEF Expire
<1>10. ASSUME NEW ok \in BOOLEAN, worker.pc = "convert",
              FinishJob(worker.job, ok), lastId' = lastId, attempts' = attempts
       PROVE  ClaimedFirst'
  BY <1>0, <1>3, <1>10, HeldRows
     DEF FinishJob, SetStatus, RowsTypeOK, WellFormed, HeldJobsClaimed
<1>11. CASE HttpFailed
  BY <1>10, <1>11 DEF HttpFailed
<1>12. ASSUME NEW ok \in BOOLEAN, CommandExited(ok) PROVE ClaimedFirst'
  BY <1>10, <1>12 DEF CommandExited
<1>13. CASE ProcessTimeouts
  BY <1>0, <1>3, <1>13 DEF ProcessTimeouts, Running, ClaimedFirst
<1>14. CASE RecordDeletion
  BY <1>3, <1>14 DEF RecordDeletion
<1>15. ASSUME NEW m \in callbacks, NEW j \in JobId,
              WebhookCompleted(m, j) \/ WebhookFailed(m, j)
       PROVE  ClaimedFirst'
  <2>1. status[j] = "running"
    BY <1>15, MatchedRuns DEF WebhookCompleted, WebhookFailed
  <2> QED
    BY <1>0, <1>3, <1>15, <2>1
       DEF WebhookCompleted, WebhookFailed, SetStatus, RowsTypeOK, ClaimedFirst
<1> QED
  BY RowsWrittenBy, <1>1, <1>4, <1>5, <1>6, <1>7, <1>8, <1>9, <1>11, <1>12,
     <1>13, <1>14, <1>15 DEF RowWrite

\* A claim is never forgotten.
LEMMA ClaimsOnlyGrow ==
  ASSUME WellFormed, [Next]_vars
  PROVE  \A j \in JobId : attempts[j] > 0 => attempts'[j] > 0
<1>0. RowsTypeOK
  BY DEF WellFormed, TypeOK
<1>1. CASE UNCHANGED attempts
  BY <1>0, <1>1
<1>2. ASSUME NEW b \in Book, NEW w \in BOOLEAN,
             ImportBook(b, w) \/ EnqueueJob(b) \/ RemoveBook(b)
      PROVE  UNCHANGED attempts
  BY <1>2 DEF ImportBook, EnqueueJob, RemoveBook, InsertJob, jobVars
<1>3. ASSUME NEW j \in JobId, RetryJob(j) \/ CancelJob(j) \/ Expire(j)
      PROVE  UNCHANGED attempts
  BY <1>3 DEF RetryJob, CancelJob, Expire
<1>4. ASSUME NEW ok \in BOOLEAN,
             \/ HttpFailed \/ ProcessTimeouts \/ RecordDeletion
             \/ CommandExited(ok)
      PROVE  UNCHANGED attempts
  BY <1>4 DEF HttpFailed, ProcessTimeouts, RecordDeletion, CommandExited
<1>5. ASSUME NEW m \in callbacks, NEW j \in JobId,
             WebhookCompleted(m, j) \/ WebhookFailed(m, j)
      PROVE  UNCHANGED attempts
  BY <1>5 DEF WebhookCompleted, WebhookFailed
<1>6. ASSUME NEW j \in JobId, ClaimJob(j)
      PROVE  \A i \in JobId : attempts[i] > 0 => attempts'[i] > 0
  BY <1>0, <1>6 DEF ClaimJob, RowsTypeOK
<1>7. CASE UNCHANGED jobVars
  BY <1>1, <1>7 DEF jobVars
<1> QED
  BY RowsWrittenBy, <1>1, <1>2, <1>3, <1>4, <1>5, <1>6, <1>7 DEF RowWrite

\* The worker, the webhook and the converter hold claimed rows only.
LEMMA StepHeldJobsClaimed == WellFormed /\ [Next]_vars => HeldJobsClaimed'
<1> SUFFICES ASSUME WellFormed, [Next]_vars PROVE HeldJobsClaimed'
  OBVIOUS
<1>0. RowsTypeOK /\ HeldJobsClaimed /\ ClaimedFirst
  BY DEF WellFormed, TypeOK
<1>1. worker'.pc = "convert"
        => worker'.job # NoJob /\ attempts'[worker'.job] > 0
  <2>1. CASE worker'.job = worker.job /\ worker.pc = "convert"
    BY <1>0, <2>1, HeldRows, ClaimsOnlyGrow DEF HeldJobsClaimed
  <2>2. ASSUME NEW j \in JobId, ClaimJob(j)
        PROVE  worker'.job = j /\ j # NoJob /\ attempts'[j] > 0
    BY <1>0, <2>2 DEF ClaimJob, RowsTypeOK, JobId, NoJob
  <2>3. CASE UNCHANGED <<worker, hook>>
    BY <2>1, <2>3
  <2>4. ASSUME \/ Start \/ Wake \/ FindNoWork
               \/ ProcessTimeouts \/ TickFails \/ Crash
        PROVE  worker'.pc # "convert"
    BY <2>4, WorkerAtType
       DEF Start, Wake, FindNoWork, ProcessTimeouts, TickFails, Crash
  <2>5. ASSUME \/ HttpAccepted \/ HttpFailed
               \/ \E ok \in BOOLEAN : CommandExited(ok)
        PROVE  worker'.pc # "convert"
    BY <2>5, ConvertedType
       DEF HttpAccepted, HttpFailed, CommandExited, WellFormed, TypeOK,
           CoroutinesTypeOK
  <2>6. ASSUME \/ \E m \in callbacks : \E j \in JobId : WebhookCompleted(m, j)
               \/ KeepOriginals \/ UnlinkOriginals
               \/ \E left \in 1 .. NumOriginals : UnlinkFails(left)
               \/ RecordDeletion \/ RecordDeletionFails
        PROVE  UNCHANGED worker
    BY <2>6 DEF WebhookCompleted, KeepOriginals, UnlinkOriginals, UnlinkFails,
                RecordDeletion, RecordDeletionFails
  <2>7. ASSUME ConverterAccepts
        PROVE  worker'.job = worker.job /\ worker.pc = "convert"
    BY <2>7 DEF ConverterAccepts, WellFormed, TypeOK, CoroutinesTypeOK, Worker
  <2> QED
    BY CoroutinesMovedBy, <2>1, <2>2, <2>3, <2>4, <2>5, <2>6, <2>7
       DEF CoroutineStep
<1>2. hook'.pc # "idle" => hook'.job # NoJob /\ attempts'[hook'.job] > 0
  <2>1. CASE hook'.job = hook.job /\ hook.pc # "idle"
    BY <1>0, <2>1, HeldRows, ClaimsOnlyGrow DEF HeldJobsClaimed
  <2>2. ASSUME NEW m \in callbacks, NEW j \in JobId, WebhookCompleted(m, j)
        PROVE  hook'.job = j /\ j # NoJob /\ attempts'[j] > 0
    BY <1>0, <2>2, MatchedRuns DEF WebhookCompleted, ClaimedFirst, JobId, NoJob
  <2>3. CASE UNCHANGED hook
    BY <2>1, <2>3
  <2>4. ASSUME \/ Start \/ Wake \/ FindNoWork \/ ProcessTimeouts \/ TickFails
               \/ \E j \in JobId : ClaimJob(j)
               \/ HttpAccepted \/ HttpFailed
               \/ \E ok \in BOOLEAN : CommandExited(ok)
               \/ ConverterAccepts
        PROVE  UNCHANGED hook
    BY <2>4 DEF Start, Wake, FindNoWork, ProcessTimeouts, TickFails, ClaimJob,
                HttpAccepted, HttpFailed, CommandExited, ConverterAccepts
  <2>5. ASSUME \/ KeepOriginals \/ RecordDeletion
               \/ RecordDeletionFails \/ Crash
               \/ \E left \in 1 .. NumOriginals : UnlinkFails(left)
        PROVE  hook'.pc = "idle"
    BY <2>5, NoHookType DEF KeepOriginals, RecordDeletion, RecordDeletionFails,
                            Crash, UnlinkFails
  <2>6. ASSUME UnlinkOriginals
        PROVE  hook'.job = hook.job /\ hook.pc # "idle"
    BY <2>6 DEF UnlinkOriginals, WellFormed, TypeOK, CoroutinesTypeOK, Hook
  <2> QED
    BY CoroutinesMovedBy, <2>1, <2>2, <2>3, <2>4, <2>5, <2>6
       DEF CoroutineStep
<1>3. \A j \in inbox' : attempts'[j] > 0
  <2>1. CASE inbox' \subseteq inbox
    BY <1>0, <2>1, HeldRows, ClaimsOnlyGrow DEF HeldJobsClaimed
  <2>2. CASE ConverterAccepts
    BY <1>0, <2>2, HeldRows, ClaimsOnlyGrow
       DEF ConverterAccepts, HeldJobsClaimed
  <2>3. (\E s \in Settings : PutSettings(s)) => inbox' \subseteq inbox
    BY DEF PutSettings, externalVars
  <2>4. (\E b \in Book : RemoveBook(b) \/ \E w \in BOOLEAN : ImportBook(b, w))
        => inbox' \subseteq inbox
    BY DEF RemoveBook, ImportBook, externalVars
  <2>5. TickFails \/ Crash \/ UnlinkOriginals \/ RecordDeletionFails
        => inbox' \subseteq inbox
    BY DEF TickFails, Crash, UnlinkOriginals, RecordDeletionFails,
           externalVars
  <2>6. (\E m \in callbacks :
           \/ \E j \in JobId : WebhookCompleted(m, j) \/ WebhookFailed(m, j)
           \/ CallbackLost(m))
        => inbox' \subseteq inbox
    BY DEF WebhookCompleted, WebhookFailed, CallbackLost
  <2>7. (\E left \in 1 .. NumOriginals : UnlinkFails(left))
        => inbox' \subseteq inbox
    BY DEF UnlinkFails
  <2>8. (\E j \in JobId : \E h \in Hints :
           \/ ConverterFails(j, h)
           \/ \E v \in BOOLEAN : ConverterFinishes(j, h, v))
        => inbox' \subseteq inbox
    BY DEF ConverterFails, ConverterFinishes
  <2>9. UNCHANGED worldVars => inbox' \subseteq inbox
    BY DEF worldVars, externalVars
  <2>10. WorldWrite => ConverterAccepts \/ inbox' \subseteq inbox
    BY <2>3, <2>4, <2>5, <2>6, <2>7, <2>8 DEF WorldWrite
  <2> QED
    BY WorldWrittenBy, <2>1, <2>2, <2>9, <2>10
<1> QED
  BY <1>1, <1>2, <1>3 DEF HeldJobsClaimed

\* The invariant is inductive.
LEMMA StepWellFormed == WellFormed /\ [Next]_vars => WellFormed'
BY StepRowsType, StepCoroutinesType, StepWorldType, StepRowsAllocated,
   StepClaimedFirst, StepHeldJobsClaimed DEF WellFormed, TypeOK

\* In every reachable state each variable has its type, the table holds the
\* rows 1 .. lastId, and every row that runs, has an outcome, or is held by the
\* worker, the webhook or the converter was claimed by process_one_job.
THEOREM WellFormedAlways == Spec => []WellFormed
BY InitWellFormed, StepWellFormed, PTL DEF Spec

\* Every variable of the queue always has its type.
THEOREM TypeCorrect == Spec => []TypeOK
<1>1. WellFormed => TypeOK
  BY DEF WellFormed
<1> QED
  BY <1>1, WellFormedAlways, PTL

-----------------------------------------------------------------------------
(***************************************************************************)
(* One active row per book, up to retries.                                 *)
(***************************************************************************)
\* A row of a book becomes active by an insert, which looks for active rows,
\* or by retry_job, which is remembered.
LEMMA StepOlderActive ==
  WellFormed /\ OlderActiveWasRetried /\ [Next]_vars => OlderActiveWasRetried'
<1> SUFFICES ASSUME WellFormed, OlderActiveWasRetried, [Next]_vars
             PROVE  OlderActiveWasRetried'
  OBVIOUS
<1>0. RowsTypeOK /\ RowsAllocated /\ OlderActiveWasRetried
  BY DEF WellFormed, TypeOK
<1>1. CASE UNCHANGED jobVars
  BY <1>0, <1>1 DEF OlderActiveWasRetried, jobVars
\* A new row of a book without an active row: the older rows are not active.
<1>2. ASSUME NEW b \in Book, ActiveOf(b) = {}, InsertJob(b)
      PROVE  OlderActiveWasRetried'
  <2>1. lastId \in 0 .. MaxJobs /\ lastId + 1 \in JobId
    BY <1>0, <1>2 DEF InsertJob, RowsTypeOK, JobId
  <2>2. \A i \in JobId : i # lastId + 1 =>
          status'[i] = status[i] /\ bookOf'[i] = bookOf[i]
    BY <1>0, <1>2 DEF InsertJob, RowsTypeOK
  <2>3. bookOf'[lastId + 1] = b /\ status'[lastId + 1] = "queued"
    BY <1>0, <1>2, <2>1 DEF InsertJob, RowsTypeOK
  <2>4. retried' = retried
    BY <1>2 DEF InsertJob, history
  <2>5. ASSUME NEW i \in JobId, NEW j \in JobId, i < j,
               bookOf'[i] = bookOf'[j], status'[j] # "none",
               status'[i] \in Active
        PROVE  i \in retried'
    <3>1. CASE j = lastId + 1
      BY <1>2, <2>2, <2>3, <2>5, <3>1 DEF ActiveOf, JobId
    <3>2. CASE i = lastId + 1
      BY <1>0, <2>1, <2>2, <2>5, <3>2 DEF RowsAllocated, JobId
    <3>3. CASE i # lastId + 1 /\ j # lastId + 1
      BY <1>0, <2>2, <2>4, <2>5, <3>3 DEF OlderActiveWasRetried
    <3> QED
      BY <3>1, <3>2, <3>3
  <2> QED
    BY <2>5 DEF OlderActiveWasRetried
\* A step that makes no row active that was not, and creates none.
<1>3. /\ bookOf' = bookOf /\ retried \subseteq retried'
      /\ \A i \in JobId : status'[i] # "none" => status[i] # "none"
      /\ \A i \in JobId :
           status'[i] \in Active => status[i] \in Active \/ i \in retried'
      => OlderActiveWasRetried'
  BY <1>0 DEF OlderActiveWasRetried
<1>4. ASSUME NEW j \in JobId, NEW s, SetStatus(j, s), status[j] # "none",
             s \in Active => status[j] \in Active \/ j \in retried',
             bookOf' = bookOf, retried \subseteq retried'
      PROVE  OlderActiveWasRetried'
  BY <1>0, <1>3, <1>4 DEF SetStatus, RowsTypeOK
<1>5. ASSUME NEW b \in Book, NEW w \in BOOLEAN, ImportBook(b, w)
      PROVE  OlderActiveWasRetried'
  BY <1>1, <1>2, <1>5 DEF ImportBook
<1>6. ASSUME NEW b \in Book, EnqueueJob(b) PROVE OlderActiveWasRetried'
  BY <1>2, <1>6 DEF EnqueueJob
<1>7. ASSUME NEW b \in Book, RemoveBook(b) PROVE OlderActiveWasRetried'
  <2>1. \A i \in JobId : bookOf[i] = b => status[i] # "none"
    BY <1>0 DEF RowsAllocated
  <2>2. "purged" \notin Active
    BY DEF Active
  <2> QED
    BY <1>3, <1>7, <2>1, <2>2 DEF RemoveBook, history
<1>8. ASSUME NEW j \in JobId, RetryJob(j) PROVE OlderActiveWasRetried'
  BY <1>4, <1>8 DEF RetryJob
<1>9. ASSUME NEW j \in JobId, CancelJob(j) PROVE OlderActiveWasRetried'
  BY <1>4, <1>9 DEF CancelJob, Active, history
<1>10. ASSUME NEW j \in JobId, ClaimJob(j) PROVE OlderActiveWasRetried'
  BY <1>4, <1>10 DEF ClaimJob, Queued, Active, history
<1>11. ASSUME NEW j \in JobId, Expire(j) PROVE OlderActiveWasRetried'
  BY <1>3, <1>11 DEF Expire, history
<1>12. ASSUME NEW ok \in BOOLEAN, worker.pc = "convert",
              FinishJob(worker.job, ok), bookOf' = bookOf, retried' = retried
       PROVE  OlderActiveWasRetried'
  <2>1. worker.job \in JobId /\ status[worker.job] # "none"
    BY <1>0, <1>12, HeldRows
       DEF WellFormed, HeldJobsClaimed, ClaimedFirst, RowsAllocated,
           RowsTypeOK, JobId
  <2>2. CASE status[worker.job] = "purged"
    BY <1>3, <1>12, <2>2 DEF FinishJob
  <2>3. CASE status[worker.job] # "purged"
    BY <1>4, <1>12, <2>1, <2>3 DEF FinishJob, Active
  <2> QED
    BY <2>2, <2>3
<1>13. CASE HttpFailed
  BY <1>12, <1>13 DEF HttpFailed, history
<1>14. ASSUME NEW ok \in BOOLEAN, CommandExited(ok)
       PROVE  OlderActiveWasRetried'
  BY <1>12, <1>14 DEF CommandExited, history
<1>15. CASE ProcessTimeouts
  BY <1>3, <1>15 DEF ProcessTimeouts, Running, Active, history
<1>16. CASE RecordDeletion
  BY <1>3, <1>16 DEF RecordDeletion, history
<1>17. ASSUME NEW m \in callbacks, NEW j \in JobId,
              WebhookCompleted(m, j) \/ WebhookFailed(m, j)
       PROVE  OlderActiveWasRetried'
  BY <1>4, <1>17, MatchedRuns
     DEF WebhookCompleted, WebhookFailed, Active, history
<1> QED
  BY RowsWrittenBy, <1>1, <1>5, <1>6, <1>7, <1>8, <1>9, <1>10, <1>11, <1>13,
     <1>14, <1>15, <1>16, <1>17 DEF RowWrite

\* Of the rows of one book only the newest is queued or running, unless
\* retry_job requeued an older one.
THEOREM OneActiveUnlessRetried == Spec => []OlderActiveWasRetried
<1>1. Init => OlderActiveWasRetried
  BY DEF Init, OlderActiveWasRetried, Active
<1> QED
  BY <1>1, WellFormedAlways, StepOlderActive, PTL DEF Spec

-----------------------------------------------------------------------------
(***************************************************************************)
(* Attribution: a callback reaches a row of the book it is about.          *)
(***************************************************************************)
\* What is true of a callback on its way when titles are distinguishable.
CallbacksAttributed ==
  \A m \in callbacks :
    /\ m.title = m.path
    /\ m.job \in JobId => bookOf[m.job] = m.path
    /\ m.kind = "completed" => m.path \in outputs

\* A file is recorded under no book but its own.
FilesAttributed == \A p \in Book : fileOwner[p] \in {p, None}

Attributed ==
  /\ CallbacksAttributed
  /\ FilesAttributed
  /\ CompletedMeansCatalogued

\* With distinguishable titles _match_running_job finds a row of the book the
\* callback is about.
LEMMA MatchedBook ==
  ASSUME Distinguishable, WellFormed, CallbacksAttributed,
         NEW m \in callbacks, NEW j \in JobId, MatchRunningJob(m, j)
  PROVE  m.path \in Book /\ bookOf[j] = m.path
<1>1. m \in Callback
  BY DEF WellFormed, TypeOK, WorldTypeOK
<1>2. m.path \in Book /\ m.title = m.path /\ m.path # None
  BY <1>1 DEF CallbacksAttributed, Callback
<1>3. CASE m.job \in Running
  BY <1>2, <1>3 DEF MatchRunningJob, CallbacksAttributed, Running
<1>4. CASE m.job \notin Running
  <2>1. BestTitle(m.path, j)
    BY <1>2, <1>4 DEF MatchRunningJob
  <2>2. bookOf[j] \in Book
    BY <2>1 DEF BestTitle, Running, WellFormed, RowsAllocated
  <2> QED
    BY <1>2, <2>1, <2>2 DEF BestTitle, Distinguishable
<1> QED
  BY <1>2, <1>3, <1>4

\* The book of a row of the table never changes.
LEMMA BooksOfRowsStay ==
  ASSUME WellFormed, [Next]_vars
  PROVE  \A j \in JobId : bookOf[j] # None => bookOf'[j] = bookOf[j]
<1>0. RowsTypeOK /\ RowsAllocated
  BY DEF WellFormed, TypeOK
<1>1. ASSUME NEW b \in Book, InsertJob(b)
      PROVE  \A j \in JobId : bookOf[j] # None => bookOf'[j] = bookOf[j]
  <2>1. lastId \in Nat
    BY <1>0 DEF RowsTypeOK
  <2>2. \A j \in JobId : bookOf[j] # None => j # lastId + 1
    BY <1>0, <2>1 DEF RowsAllocated, JobId
  <2> QED
    BY <1>0, <1>1, <2>2 DEF InsertJob, RowsTypeOK
<1>2. (\E b \in Book : \E w \in BOOLEAN : ImportBook(b, w))
      => (\E b \in Book : InsertJob(b)) \/ UNCHANGED bookOf
  BY DEF ImportBook, jobVars
<1>3. (\E b \in Book : EnqueueJob(b) \/ RemoveBook(b))
      => (\E b \in Book : InsertJob(b)) \/ UNCHANGED bookOf
  BY DEF EnqueueJob, RemoveBook
<1>4. (\E j \in JobId :
         RetryJob(j) \/ CancelJob(j) \/ ClaimJob(j) \/ Expire(j))
      => UNCHANGED bookOf
  BY DEF RetryJob, CancelJob, ClaimJob, Expire
<1>5. HttpFailed \/ ProcessTimeouts \/ RecordDeletion => UNCHANGED bookOf
  BY DEF HttpFailed, ProcessTimeouts, RecordDeletion
<1>6. (\E ok \in BOOLEAN : CommandExited(ok)) => UNCHANGED bookOf
  BY DEF CommandExited
<1>7. (\E m \in callbacks : \E j \in JobId :
         WebhookCompleted(m, j) \/ WebhookFailed(m, j)) => UNCHANGED bookOf
  BY DEF WebhookCompleted, WebhookFailed
<1>8. UNCHANGED jobVars => UNCHANGED bookOf
  BY DEF jobVars
<1>9. (\E b \in Book : InsertJob(b)) \/ UNCHANGED bookOf
  BY RowsWrittenBy, <1>2, <1>3, <1>4, <1>5, <1>6, <1>7, <1>8 DEF RowWrite
<1> QED
  BY <1>1, <1>9

\* With the converter writing outside the source folders, its files stay.
LEMMA OutputsStay ==
  ASSUME InPlace = {}, [Next]_vars
  PROVE  outputs \subseteq outputs'
<1>1. UNCHANGED worldVars => outputs \subseteq outputs'
  BY DEF worldVars, externalVars
<1>2. (\E s \in Settings : PutSettings(s)) => outputs \subseteq outputs'
  BY DEF PutSettings, externalVars
<1>3. (\E b \in Book : RemoveBook(b) \/ \E w \in BOOLEAN : ImportBook(b, w))
      => outputs \subseteq outputs'
  BY DEF RemoveBook, ImportBook, externalVars
<1>4. TickFails \/ Crash \/ RecordDeletionFails => outputs \subseteq outputs'
  BY DEF TickFails, Crash, RecordDeletionFails, externalVars
<1>5. ConverterAccepts => outputs \subseteq outputs'
  BY DEF ConverterAccepts
<1>6. (\E m \in callbacks :
         \/ \E j \in JobId : WebhookCompleted(m, j) \/ WebhookFailed(m, j)
         \/ CallbackLost(m))
      => outputs \subseteq outputs'
  BY DEF WebhookCompleted, WebhookFailed, CallbackLost
<1>7. UnlinkOriginals => outputs \subseteq outputs'
  BY DEF UnlinkOriginals
<1>8. (\E left \in 1 .. NumOriginals : UnlinkFails(left))
      => outputs \subseteq outputs'
  BY DEF UnlinkFails
<1>9. (\E j \in JobId : \E h \in Hints :
         \/ ConverterFails(j, h)
         \/ \E v \in BOOLEAN : ConverterFinishes(j, h, v))
      => outputs \subseteq outputs'
  BY DEF ConverterFails, ConverterFinishes
<1>10. WorldWrite => outputs \subseteq outputs'
  BY <1>2, <1>3, <1>4, <1>5, <1>6, <1>7, <1>8, <1>9 DEF WorldWrite
<1> QED
  BY WorldWrittenBy, <1>1, <1>10

\* A purged row is gone for good: no statement finds it any more.
LEMMA PurgedStays ==
  ASSUME WellFormed, [Next]_vars
  PROVE  \A j \in JobId : status[j] = "purged" => status'[j] = "purged"
<1>0. RowsTypeOK /\ RowsAllocated
  BY DEF WellFormed, TypeOK
<1> DEFINE Stays ==
             \A j \in JobId : status[j] = "purged" => status'[j] = "purged"
<1>1. ASSUME NEW j \in JobId, NEW s, SetStatus(j, s), status[j] # "purged"
      PROVE  Stays
  BY <1>0, <1>1 DEF SetStatus, RowsTypeOK
<1>2. ASSUME NEW b \in Book, InsertJob(b) PROVE Stays
  <2>1. lastId + 1 \in JobId => status[lastId + 1] # "purged"
    <3>1. lastId \in Nat
      BY <1>0 DEF RowsTypeOK
    <3> QED
      BY <1>0, <3>1 DEF RowsAllocated
  <2> QED
    BY <1>0, <1>2, <2>1 DEF InsertJob, RowsTypeOK
<1>3. ASSUME NEW b \in Book, NEW w \in BOOLEAN, ImportBook(b, w) PROVE Stays
  BY <1>2, <1>3 DEF ImportBook, jobVars
<1>4. ASSUME NEW b \in Book, EnqueueJob(b) \/ RemoveBook(b) PROVE Stays
  BY <1>0, <1>2, <1>4 DEF EnqueueJob, RemoveBook
<1>5. ASSUME NEW j \in JobId, RetryJob(j) \/ CancelJob(j) \/ ClaimJob(j)
      PROVE  Stays
  BY <1>1, <1>5 DEF RetryJob, CancelJob, ClaimJob, Queued
<1>6. ASSUME NEW j \in JobId, Expire(j) PROVE Stays
  BY <1>6 DEF Expire
<1>7. ASSUME NEW ok \in BOOLEAN, worker.pc = "convert",
             FinishJob(worker.job, ok)
      PROVE  Stays
  BY <1>1, <1>7, HeldRows DEF FinishJob
<1>8. ASSUME NEW ok \in BOOLEAN, HttpFailed \/ CommandExited(ok) PROVE Stays
  BY <1>7, <1>8 DEF HttpFailed, CommandExited
<1>9. CASE ProcessTimeouts \/ RecordDeletion
  BY <1>9 DEF ProcessTimeouts, RecordDeletion, Running
<1>10. ASSUME NEW m \in callbacks, NEW j \in JobId,
              WebhookCompleted(m, j) \/ WebhookFailed(m, j)
       PROVE  Stays
  BY <1>1, <1>10, MatchedRuns DEF WebhookCompleted, WebhookFailed
<1>11. CASE UNCHANGED jobVars
  BY <1>11 DEF jobVars
<1> QED
  BY RowsWrittenBy, <1>3, <1>4, <1>5, <1>6, <1>8, <1>9, <1>10, <1>11
     DEF RowWrite

\* Only the webhook writes a path into a row.
LEMMA PathsWrittenByWebhook ==
  ASSUME WellFormed, [Next]_vars
  PROVE  \/ \E m \in callbacks : \E j \in JobId : WebhookCompleted(m, j)
         \/ \A j \in JobId : completedPath'[j] \in {completedPath[j], None}
<1>0. RowsTypeOK
  BY DEF WellFormed, TypeOK
<1> DEFINE Kept ==
             \A j \in JobId : completedPath'[j] \in {completedPath[j], None}
<1>1. (\E b \in Book : \E w \in BOOLEAN : ImportBook(b, w)) => Kept
  BY DEF ImportBook, InsertJob, jobVars
<1>2. (\E b \in Book : EnqueueJob(b) \/ RemoveBook(b)) => Kept
  BY DEF EnqueueJob, RemoveBook, InsertJob
<1>3. (\E j \in JobId :
         RetryJob(j) \/ CancelJob(j) \/ ClaimJob(j) \/ Expire(j))
      => Kept
  BY DEF RetryJob, CancelJob, ClaimJob, Expire
<1>4. ASSUME NEW ok \in BOOLEAN, FinishJob(worker.job, ok) PROVE Kept
  BY <1>0, <1>4 DEF FinishJob, RowsTypeOK
<1>5. HttpFailed \/ (\E ok \in BOOLEAN : CommandExited(ok)) => Kept
  BY <1>4 DEF HttpFailed, CommandExited
<1>6. ProcessTimeouts \/ RecordDeletion => Kept
  BY DEF ProcessTimeouts, RecordDeletion
<1>7. (\E m \in callbacks : \E j \in JobId : WebhookFailed(m, j)) => Kept
  BY DEF WebhookFailed
<1>8. UNCHANGED jobVars => Kept
  BY DEF jobVars
<1> QED
  BY RowsWrittenBy, <1>1, <1>2, <1>3, <1>5, <1>6, <1>7, <1>8 DEF RowWrite

\* A recorded file keeps its owner until the owner is removed.
LEMMA OwnersStay ==
  ASSUME WellFormed, [Next]_vars, NEW p \in Book, fileOwner[p] # None
  PROVE  fileOwner'[p] = fileOwner[p] \/ RemoveBook(fileOwner[p])
<1>0. fileOwner \in [Book -> Book \cup {None}]
  BY DEF WellFormed, TypeOK, WorldTypeOK
<1> DEFINE Kept == fileOwner'[p] = fileOwner[p]
<1>1. UNCHANGED worldVars => Kept
  BY DEF worldVars, fileVars
<1>2. (\E s \in Settings : PutSettings(s)) => Kept
  BY DEF PutSettings, fileVars
<1>3. (\E b \in Book : \E w \in BOOLEAN : ImportBook(b, w)) => Kept
  BY DEF ImportBook, fileVars
<1>4. ASSUME NEW b \in Book, RemoveBook(b)
      PROVE  Kept \/ RemoveBook(fileOwner[p])
  <2>1. CASE fileOwner[p] = b
    BY <1>4, <2>1
  <2>2. CASE fileOwner[p] # b
    BY <1>0, <1>4, <2>2 DEF RemoveBook
  <2> QED
    BY <2>1, <2>2
<1>5. TickFails \/ Crash \/ RecordDeletionFails \/ ConverterAccepts => Kept
  BY DEF TickFails, Crash, RecordDeletionFails, ConverterAccepts, fileVars
<1>6. (\E m \in callbacks : \E j \in JobId : WebhookCompleted(m, j)) => Kept
  BY <1>0 DEF WebhookCompleted
<1>7. (\E m \in callbacks : \/ CallbackLost(m)
                            \/ \E j \in JobId : WebhookFailed(m, j)) => Kept
  BY DEF CallbackLost, WebhookFailed, fileVars
<1>8. UnlinkOriginals => Kept
  BY DEF UnlinkOriginals
<1>9. (\E left \in 1 .. NumOriginals : UnlinkFails(left)) => Kept
  BY DEF UnlinkFails
<1>10. (\E j \in JobId : \E h \in Hints :
          \/ ConverterFails(j, h)
          \/ \E v \in BOOLEAN : ConverterFinishes(j, h, v)) => Kept
  BY DEF ConverterFails, ConverterFinishes, fileVars
<1> QED
  BY WorldWrittenBy, <1>1, <1>2, <1>3, <1>4, <1>5, <1>6, <1>7, <1>8, <1>9,
     <1>10 DEF WorldWrite

\* A callback keeps naming the book of its path, and its file stays on disk.
LEMMA StepCallbacksAttributed ==
  ASSUME Distinguishable, InPlace = {}, WellFormed, Attributed, [Next]_vars
  PROVE  CallbacksAttributed'
<1>0. CallbacksAttributed /\ callbacks \subseteq Callback
  BY DEF Attributed, WellFormed, TypeOK, WorldTypeOK
<1>1. CASE callbacks' \subseteq callbacks
  <2>1. \A m \in callbacks : m.path # None
    BY <1>0 DEF Callback
  <2> QED
    BY <1>0, <1>1, <2>1, BooksOfRowsStay, OutputsStay DEF CallbacksAttributed
<1>2. ASSUME NEW j \in JobId, NEW h \in Hints, NEW v \in BOOLEAN,
             NEW kind \in {"completed", "failed"}, bookOf[j] \in Book,
             bookOf' = bookOf, kind = "completed" => bookOf[j] \in outputs',
             callbacks' = {CallbackFor(j, kind, h, v)}
      PROVE  CallbacksAttributed'
  <2>1. "title" \in h /\ NoJob \notin JobId
    BY DEF Distinguishable, NoJob, JobId
  <2> QED
    BY <1>2, <2>1 DEF CallbacksAttributed, CallbackFor
<1>3. ASSUME NEW j \in JobId, NEW h \in Hints, NEW v \in BOOLEAN,
             ConverterFails(j, h) \/ ConverterFinishes(j, h, v)
      PROVE  CallbacksAttributed'
  <2>1. bookOf[j] \in Book /\ bookOf' = bookOf
    BY <1>3, HeldRows DEF ConverterFails, ConverterFinishes, jobVars
  <2>2. CASE ConverterFails(j, h)
    BY <1>2, <2>1, <2>2 DEF ConverterFails
  <2>3. CASE ConverterFinishes(j, h, v)
    BY <1>2, <2>1, <2>3 DEF ConverterFinishes
  <2> QED
    BY <1>3, <2>2, <2>3
<1>4. (\E s \in Settings : PutSettings(s)) => callbacks' \subseteq callbacks
  BY DEF PutSettings, externalVars
<1>5. (\E b \in Book : RemoveBook(b) \/ \E w \in BOOLEAN : ImportBook(b, w))
      => callbacks' \subseteq callbacks
  BY DEF RemoveBook, ImportBook, externalVars
<1>6. TickFails \/ Crash \/ RecordDeletionFails
      => callbacks' \subseteq callbacks
  BY DEF TickFails, Crash, RecordDeletionFails, externalVars
<1>7. ConverterAccepts \/ UnlinkOriginals => callbacks' \subseteq callbacks
  BY DEF ConverterAccepts, UnlinkOriginals
<1>8. (\E m \in callbacks :
         \/ \E j \in JobId : WebhookCompleted(m, j) \/ WebhookFailed(m, j)
         \/ CallbackLost(m))
      => callbacks' \subseteq callbacks
  BY DEF WebhookCompleted, WebhookFailed, CallbackLost
<1>9. (\E left \in 1 .. NumOriginals : UnlinkFails(left))
      => callbacks' \subseteq callbacks
  BY DEF UnlinkFails
<1>10. UNCHANGED worldVars => callbacks' \subseteq callbacks
  BY DEF worldVars, externalVars
<1>11. (\E j \in JobId : \E h \in Hints :
          \/ ConverterFails(j, h)
          \/ \E v \in BOOLEAN : ConverterFinishes(j, h, v))
       => CallbacksAttributed'
  BY <1>3
<1>12. WorldWrite => CallbacksAttributed' \/ callbacks' \subseteq callbacks
  BY <1>4, <1>5, <1>6, <1>7, <1>8, <1>9, <1>11 DEF WorldWrite
<1> QED
  BY WorldWrittenBy, <1>1, <1>10, <1>12

\* The import records a file under its own book.
LEMMA StepFilesAttributed ==
  ASSUME Distinguishable, WellFormed, Attributed, [Next]_vars
  PROVE  FilesAttributed'
<1>0. CallbacksAttributed /\ FilesAttributed
  BY DEF Attributed
<1>1. fileOwner \in [Book -> Book \cup {None}]
  BY DEF WellFormed, TypeOK, WorldTypeOK
<1>2. CASE UNCHANGED fileOwner
  BY <1>0, <1>2 DEF FilesAttributed
<1>3. ASSUME NEW b \in Book, RemoveBook(b) PROVE FilesAttributed'
  BY <1>0, <1>1, <1>3 DEF RemoveBook, FilesAttributed
<1>4. ASSUME NEW m \in callbacks, NEW j \in JobId, WebhookCompleted(m, j)
      PROVE  FilesAttributed'
  <2>1. m.path \in Book /\ bookOf[j] = m.path
    BY <1>0, <1>4, MatchedBook DEF WebhookCompleted
  <2> QED
    BY <1>0, <1>1, <1>4, <2>1 DEF WebhookCompleted, FilesAttributed
<1>5. UNCHANGED worldVars => UNCHANGED fileOwner
  BY DEF worldVars, fileVars
<1>6. (\E s \in Settings : PutSettings(s)) => UNCHANGED fileOwner
  BY DEF PutSettings, fileVars
<1>7. (\E b \in Book : \E w \in BOOLEAN : ImportBook(b, w))
      => UNCHANGED fileOwner
  BY DEF ImportBook, fileVars
<1>8. TickFails \/ Crash \/ RecordDeletionFails \/ ConverterAccepts
      => UNCHANGED fileOwner
  BY DEF TickFails, Crash, RecordDeletionFails, ConverterAccepts, fileVars
<1>9. (\E m \in callbacks : \/ CallbackLost(m)
                            \/ \E j \in JobId : WebhookFailed(m, j))
      => UNCHANGED fileOwner
  BY DEF CallbackLost, WebhookFailed, fileVars
<1>10. UnlinkOriginals => UNCHANGED fileOwner
  BY DEF UnlinkOriginals
<1>11. (\E left \in 1 .. NumOriginals : UnlinkFails(left))
       => UNCHANGED fileOwner
  BY DEF UnlinkFails
<1>12. (\E j \in JobId : \E h \in Hints :
          \/ ConverterFails(j, h)
          \/ \E v \in BOOLEAN : ConverterFinishes(j, h, v))
       => UNCHANGED fileOwner
  BY DEF ConverterFails, ConverterFinishes, fileVars
<1> QED
  BY WorldWrittenBy, <1>2, <1>3, <1>4, <1>5, <1>6, <1>7, <1>8, <1>9, <1>10,
     <1>11, <1>12 DEF WorldWrite

\* A completed row keeps its path, its file and its entry in the catalogue.
LEMMA StepCatalogued ==
  ASSUME Distinguishable, InPlace = {}, WellFormed, Attributed, [Next]_vars
  PROVE  CompletedMeansCatalogued'
<1>0. /\ RowsTypeOK /\ RowsAllocated
      /\ fileOwner \in [Book -> Book \cup {None}]
      /\ CallbacksAttributed /\ FilesAttributed /\ CompletedMeansCatalogued
  BY DEF Attributed, WellFormed, TypeOK, WorldTypeOK
<1>1. SUFFICES ASSUME NEW j \in JobId, completedPath'[j] # None
               PROVE  /\ completedPath'[j] = bookOf'[j]
                      /\ bookOf'[j] \in outputs'
                      /\ status'[j] # "purged"
                           => fileOwner'[bookOf'[j]] = bookOf'[j]
  BY DEF CompletedMeansCatalogued
\* A row that had its path already.
<1>2. CASE completedPath'[j] = completedPath[j]
  <2>1. /\ completedPath[j] = bookOf[j] /\ bookOf[j] \in outputs
        /\ bookOf[j] \in Book /\ bookOf[j] # None
        /\ status[j] # "purged" => fileOwner[bookOf[j]] = bookOf[j]
    BY <1>0, <1>1, <1>2 DEF CompletedMeansCatalogued, RowsTypeOK
  <2>2. bookOf'[j] = bookOf[j] /\ bookOf[j] \in outputs'
    BY <2>1, BooksOfRowsStay, OutputsStay
  <2>3. ASSUME status'[j] # "purged" PROVE fileOwner'[bookOf[j]] = bookOf[j]
    <3>1. fileOwner[bookOf[j]] = bookOf[j]
      BY <2>1, <2>3, PurgedStays
    <3>2. ~ RemoveBook(bookOf[j])
      BY <2>3 DEF RemoveBook
    <3> QED
      BY <2>1, <3>1, <3>2, OwnersStay
  <2> QED
    BY <1>2, <2>1, <2>2, <2>3
\* The row the webhook completes.
<1>3. ASSUME NEW m \in callbacks, NEW i \in JobId, WebhookCompleted(m, i),
             completedPath'[j] # completedPath[j]
      PROVE  /\ completedPath'[j] = bookOf'[j]
             /\ bookOf'[j] \in outputs'
             /\ fileOwner'[bookOf'[j]] = bookOf'[j]
  <2>1. i = j
    BY <1>0, <1>3 DEF WebhookCompleted, RowsTypeOK
  <2>2. m.path \in Book /\ bookOf[j] = m.path
    BY <1>0, <1>3, <2>1, MatchedBook DEF WebhookCompleted
  <2>3. completedPath'[j] = m.path /\ bookOf'[j] = bookOf[j]
    BY <1>0, <1>3, <2>1 DEF WebhookCompleted, RowsTypeOK
  <2>4. m.path \in outputs'
    BY <1>0, <1>3 DEF WebhookCompleted, CallbacksAttributed
  <2>5. fileOwner'[m.path] = m.path
    BY <1>0, <1>3, <2>1, <2>2 DEF WebhookCompleted, FilesAttributed
  <2> QED
    BY <2>2, <2>3, <2>4, <2>5
<1> QED
  BY <1>1, <1>2, <1>3, PathsWrittenByWebhook

\* The attribution is inductive.
LEMMA StepAttributed ==
  ASSUME Distinguishable, InPlace = {}, WellFormed, Attributed, [Next]_vars
  PROVE  Attributed'
BY StepCallbacksAttributed, StepFilesAttributed, StepCatalogued DEF Attributed

\* The originals that are deleted are those of the book whose file exists.
LEMMA StepOriginalsReplaced ==
  ASSUME InPlace = {}, WellFormed, Attributed, OriginalsReplaced, [Next]_vars
  PROVE  OriginalsReplaced'
<1>0. /\ OriginalsReplaced /\ outputs \subseteq outputs'
      /\ originals \in [Book -> 0 .. NumOriginals]
  BY OutputsStay DEF WellFormed, TypeOK, WorldTypeOK
<1>1. CASE UNCHANGED originals
  BY <1>0, <1>1 DEF OriginalsReplaced
<1>2. ASSUME NEW left, hook.pc = "cleanup", MayDelete,
             originals' = [originals EXCEPT ![bookOf[hook.job]] = left]
      PROVE  OriginalsReplaced'
  <2>1. hook.job \in JobId /\ outputs \subseteq Book
    BY <1>2, HeldRows DEF WellFormed, TypeOK, WorldTypeOK
  <2>2. bookOf[hook.job] \in outputs
    BY <1>2, <2>1 DEF MayDelete, Attributed, CompletedMeansCatalogued
  <2> QED
    BY <1>0, <1>2, <2>2 DEF OriginalsReplaced
<1>3. UnlinkOriginals => OriginalsReplaced'
  BY <1>2 DEF UnlinkOriginals
<1>4. (\E left \in 1 .. NumOriginals : UnlinkFails(left))
      => OriginalsReplaced'
  BY <1>2 DEF UnlinkFails
<1>5. UNCHANGED worldVars => UNCHANGED originals
  BY DEF worldVars, fileVars
<1>6. (\E s \in Settings : PutSettings(s)) => UNCHANGED originals
  BY DEF PutSettings, fileVars
<1>7. (\E b \in Book : RemoveBook(b) \/ \E w \in BOOLEAN : ImportBook(b, w))
      => UNCHANGED originals
  BY DEF RemoveBook, ImportBook, fileVars
<1>8. TickFails \/ Crash \/ RecordDeletionFails \/ ConverterAccepts
      => UNCHANGED originals
  BY DEF TickFails, Crash, RecordDeletionFails, ConverterAccepts, fileVars
<1>9. (\E m \in callbacks :
         \/ \E j \in JobId : WebhookCompleted(m, j) \/ WebhookFailed(m, j)
         \/ CallbackLost(m))
      => UNCHANGED originals
  BY DEF WebhookCompleted, WebhookFailed, CallbackLost, fileVars
<1>10. (\E j \in JobId : \E h \in Hints :
          \/ ConverterFails(j, h)
          \/ \E v \in BOOLEAN : ConverterFinishes(j, h, v))
       => UNCHANGED originals
  BY DEF ConverterFails, ConverterFinishes, fileVars
<1> QED
  BY WorldWrittenBy, <1>1, <1>3, <1>4, <1>5, <1>6, <1>7, <1>8, <1>9, <1>10
     DEF WorldWrite

\* Nothing is on its way, recorded or deleted at first.
LEMMA InitAttributed == Init => Attributed /\ OriginalsReplaced
BY DEF Init, Attributed, CallbacksAttributed, FilesAttributed,
       CompletedMeansCatalogued, OriginalsReplaced

\* When every callback carries a title and titles tell books apart, and the
\* converter writes outside the source folders, a completed row names its own
\* book's file, which exists and is catalogued under the book.
THEOREM CompletionsCatalogued ==
  ASSUME Distinguishable, InPlace = {}
  PROVE  Spec => []CompletedMeansCatalogued
<1>1. WellFormed /\ Attributed /\ [Next]_vars => Attributed'
  BY StepAttributed
<1>2. Init => Attributed
  BY InitAttributed
<1>3. Attributed => CompletedMeansCatalogued
  BY DEF Attributed
<1> QED
  BY <1>1, <1>2, <1>3, WellFormedAlways, PTL DEF Spec

\* Under the same assumptions no original is deleted unless the converted file
\* of that very book is on disk, whatever crashes, retries, lost callbacks and
\* late replies come between.
THEOREM OriginalsNeverLost ==
  ASSUME Distinguishable, InPlace = {}
  PROVE  Spec => []OriginalsReplaced
<1>1. /\ WellFormed /\ Attributed /\ OriginalsReplaced /\ [Next]_vars
      => Attributed' /\ OriginalsReplaced'
  BY StepAttributed, StepOriginalsReplaced
<1>2. Init => Attributed /\ OriginalsReplaced
  BY InitAttributed
<1> QED
  BY <1>1, <1>2, WellFormedAlways, PTL DEF Spec

-----------------------------------------------------------------------------
(***************************************************************************)
(* The audit of what was deleted.                                          *)
(***************************************************************************)
\* The webhook counts into a row whose originals_deleted is still zero.
AuditOnce == hook.pc = "audit" => originalsDeleted[hook.job] = 0

\* A row's originals_deleted is written by RecordDeletion alone.
LEMMA AuditWrittenOnce ==
  [Next]_vars => RecordDeletion \/ UNCHANGED originalsDeleted
<1>1. (\E b \in Book : \E w \in BOOLEAN : ImportBook(b, w))
      => UNCHANGED originalsDeleted
  BY DEF ImportBook, InsertJob, jobVars
<1>2. (\E b \in Book : EnqueueJob(b) \/ RemoveBook(b))
      => UNCHANGED originalsDeleted
  BY DEF EnqueueJob, RemoveBook, InsertJob
<1>3. (\E j \in JobId :
         RetryJob(j) \/ CancelJob(j) \/ ClaimJob(j) \/ Expire(j))
      => UNCHANGED originalsDeleted
  BY DEF RetryJob, CancelJob, ClaimJob, Expire
<1>4. HttpFailed \/ ProcessTimeouts \/ (\E ok \in BOOLEAN : CommandExited(ok))
      => UNCHANGED originalsDeleted
  BY DEF HttpFailed, ProcessTimeouts, CommandExited
<1>5. (\E m \in callbacks : \E j \in JobId :
         WebhookCompleted(m, j) \/ WebhookFailed(m, j))
      => UNCHANGED originalsDeleted
  BY DEF WebhookCompleted, WebhookFailed
<1>6. UNCHANGED jobVars => UNCHANGED originalsDeleted
  BY DEF jobVars
<1> QED
  BY RowsWrittenBy, <1>1, <1>2, <1>3, <1>4, <1>5, <1>6 DEF RowWrite

\* While the webhook stays between the unlinks and their record, its row does.
LEMMA AuditStays ==
  ASSUME WellFormed, [Next]_vars, hook.pc = "audit"
  PROVE  \/ hook' = hook
         \/ RecordDeletion /\ hook'.pc = "idle"
         \/ Fault /\ hook'.pc = "idle"
<1>1. Start \/ Wake \/ FindNoWork \/ ProcessTimeouts \/ TickFails
      => hook' = hook
  BY DEF Start, Wake, FindNoWork, ProcessTimeouts, TickFails
<1>2. (\E j \in JobId : ClaimJob(j)) => hook' = hook
  BY DEF ClaimJob
<1>3. HttpAccepted \/ HttpFailed \/ (\E ok \in BOOLEAN : CommandExited(ok))
      => hook' = hook
  BY DEF HttpAccepted, HttpFailed, CommandExited
<1>4. ~ \E m \in callbacks : \E j \in JobId : WebhookCompleted(m, j)
  BY DEF WebhookCompleted, LoopFree
<1>5. ~ (KeepOriginals \/ UnlinkOriginals
         \/ \E left \in 1 .. NumOriginals : UnlinkFails(left))
  BY DEF KeepOriginals, UnlinkOriginals, UnlinkFails
<1>6. RecordDeletion => hook'.pc = "idle"
  BY NoHookType DEF RecordDeletion
<1>7. RecordDeletionFails \/ Crash => Fault /\ hook'.pc = "idle"
  BY NoHookType DEF RecordDeletionFails, Crash
<1>8. ConverterAccepts => hook' = hook
  BY DEF ConverterAccepts
<1> QED
  BY CoroutinesMovedBy, <1>1, <1>2, <1>3, <1>4, <1>5, <1>6, <1>7, <1>8
     DEF CoroutineStep

\* Only the two cleanup steps touch the originals.
LEMMA OriginalsTouchedBy ==
  [Next]_vars => \/ UnlinkOriginals
                 \/ \E left \in 1 .. NumOriginals : UnlinkFails(left)
                 \/ UNCHANGED originals
<1>1. UNCHANGED worldVars => UNCHANGED originals
  BY DEF worldVars, fileVars
<1>2. (\E s \in Settings : PutSettings(s)) => UNCHANGED originals
  BY DEF PutSettings, fileVars
<1>3. (\E b \in Book : RemoveBook(b) \/ \E w \in BOOLEAN : ImportBook(b, w))
      => UNCHANGED originals
  BY DEF RemoveBook, ImportBook, fileVars
<1>4. TickFails \/ Crash \/ RecordDeletionFails \/ ConverterAccepts
      => UNCHANGED originals
  BY DEF TickFails, Crash, RecordDeletionFails, ConverterAccepts, fileVars
<1>5. (\E m \in callbacks :
         \/ \E j \in JobId : WebhookCompleted(m, j) \/ WebhookFailed(m, j)
         \/ CallbackLost(m))
      => UNCHANGED originals
  BY DEF WebhookCompleted, WebhookFailed, CallbackLost, fileVars
<1>6. (\E j \in JobId : \E h \in Hints :
         \/ ConverterFails(j, h)
         \/ \E v \in BOOLEAN : ConverterFinishes(j, h, v))
      => UNCHANGED originals
  BY DEF ConverterFails, ConverterFinishes, fileVars
<1> QED
  BY WorldWrittenBy, <1>1, <1>2, <1>3, <1>4, <1>5, <1>6 DEF WorldWrite

\* A fault is counted for good, and a removed book stays removed.
LEMMA FaultsAndRemovalsStay ==
  ASSUME WellFormed, [Next]_vars
  PROVE  /\ faults > 0 => faults' > 0
         /\ \A b \in Book : library[b] = "deleted" => library'[b] = "deleted"
<1>0. WorldTypeOK
  BY DEF WellFormed, TypeOK
<1> DEFINE Stay == /\ faults > 0 => faults' > 0
                   /\ \A b \in Book :
                        library[b] = "deleted" => library'[b] = "deleted"
<1>1. CASE library' = library /\ (faults' = faults \/ Fault)
  BY <1>0, <1>1 DEF Fault, WorldTypeOK
<1>2. ASSUME NEW b \in Book, faults' = faults,
             \/ library' = [library EXCEPT ![b] = "deleted"]
             \/ library[b] = "new" /\ library' = [library EXCEPT ![b] = "live"]
      PROVE  Stay
  BY <1>0, <1>2 DEF WorldTypeOK
<1>3. (\E s \in Settings : PutSettings(s)) => Stay
  BY <1>1 DEF PutSettings
<1>4. (\E b \in Book : RemoveBook(b) \/ \E w \in BOOLEAN : ImportBook(b, w))
      => Stay
  BY <1>2 DEF RemoveBook, ImportBook
<1>5. TickFails \/ Crash \/ RecordDeletionFails \/ ConverterAccepts => Stay
  BY <1>1 DEF TickFails, Crash, RecordDeletionFails, ConverterAccepts
<1>6. (\E m \in callbacks :
         \/ \E j \in JobId : WebhookCompleted(m, j) \/ WebhookFailed(m, j)
         \/ CallbackLost(m))
      => Stay
  BY <1>1 DEF WebhookCompleted, WebhookFailed, CallbackLost
<1>7. UnlinkOriginals => Stay
  BY <1>1 DEF UnlinkOriginals
<1>8. (\E left \in 1 .. NumOriginals : UnlinkFails(left)) => Stay
  BY <1>1 DEF UnlinkFails
<1>9. (\E j \in JobId : \E h \in Hints :
         \/ ConverterFails(j, h)
         \/ \E v \in BOOLEAN : ConverterFinishes(j, h, v)) => Stay
  BY <1>1 DEF ConverterFails, ConverterFinishes
<1>10. UNCHANGED worldVars => Stay
  BY <1>1 DEF worldVars
<1> QED
  BY WorldWrittenBy, <1>3, <1>4, <1>5, <1>6, <1>7, <1>8, <1>9, <1>10
     DEF WorldWrite

\* The webhook reaches the audit only past the check that nothing is recorded.
LEMMA StepAuditOnce == WellFormed /\ AuditOnce /\ [Next]_vars => AuditOnce'
<1> SUFFICES ASSUME WellFormed, AuditOnce, [Next]_vars, hook'.pc = "audit"
             PROVE  originalsDeleted'[hook'.job] = 0
  BY DEF AuditOnce
<1>1. CASE hook.pc = "audit"
  <2>1. hook' = hook /\ ~ RecordDeletion
    BY <1>1, AuditStays, NoHookType DEF RecordDeletion
  <2> QED
    BY <1>1, <2>1, AuditWrittenOnce DEF AuditOnce
<1>2. CASE hook.pc # "audit"
  <2>1. UnlinkOriginals
    <3>1. Start \/ Wake \/ FindNoWork \/ ProcessTimeouts \/ TickFails
          => hook' = hook
      BY DEF Start, Wake, FindNoWork, ProcessTimeouts, TickFails
    <3>2. (\E j \in JobId : ClaimJob(j)) => hook' = hook
      BY DEF ClaimJob
    <3>3. HttpAccepted \/ HttpFailed \/ (\E ok \in BOOLEAN : CommandExited(ok))
          => hook' = hook
      BY DEF HttpAccepted, HttpFailed, CommandExited
    <3>4. (\E m \in callbacks : \E j \in JobId : WebhookCompleted(m, j))
          => hook'.pc = "cleanup"
      BY DEF WebhookCompleted
    <3>5. KeepOriginals \/ RecordDeletion \/ RecordDeletionFails \/ Crash
          => hook'.pc = "idle"
      BY NoHookType
         DEF KeepOriginals, RecordDeletion, RecordDeletionFails, Crash
    <3>6. (\E left \in 1 .. NumOriginals : UnlinkFails(left))
          => hook'.pc = "idle"
      BY NoHookType DEF UnlinkFails
    <3>7. ConverterAccepts => hook' = hook
      BY DEF ConverterAccepts
    <3> QED
      BY CoroutinesMovedBy, <1>2, <3>1, <3>2, <3>3, <3>4, <3>5, <3>6, <3>7
         DEF CoroutineStep
  <2>2. hook'.job = hook.job /\ originalsDeleted' = originalsDeleted
    BY <2>1 DEF UnlinkOriginals, jobVars, WellFormed, TypeOK,
                CoroutinesTypeOK, Hook
  <2> QED
    BY <2>1, <2>2 DEF UnlinkOriginals, MayDelete
<1> QED
  BY <1>1, <1>2

\* The account of the deleted originals is inductive, next to AuditOnce.
LEMMA StepDeletionsAudited ==
  WellFormed /\ AuditOnce /\ DeletionsAudited /\ [Next]_vars
    => DeletionsAudited'
<1>1. SUFFICES ASSUME WellFormed, AuditOnce, DeletionsAudited, [Next]_vars,
                      NEW b \in Book, originals'[b] < NumOriginals
               PROVE  \/ faults' > 0
                      \/ library'[b] = "deleted"
                      \/ hook'.pc = "audit" /\ bookOf'[hook'.job] = b
                                            /\ hook'.removed = NumOriginals
                      \/ \E j \in JobId :
                           /\ bookOf'[j] = b
                           /\ originalsDeleted'[j] = NumOriginals
  BY DEF DeletionsAudited
<1> USE <1>1
<1>0. /\ originals \in [Book -> 0 .. NumOriginals]
      /\ originalsDeleted \in [JobId -> 0 .. NumOriginals]
      /\ faults \in Nat
  BY DEF WellFormed, TypeOK, WorldTypeOK, RowsTypeOK
\* The step that deletes the originals of b.
<1>2. CASE originals[b] = NumOriginals
  <2>1. CASE UnlinkOriginals
    <3>1. bookOf[hook.job] = b
      BY <1>0, <1>2, <2>1 DEF UnlinkOriginals
    <3>2. hook' = [hook EXCEPT !.pc = "audit", !.removed = NumOriginals]
      BY <1>2, <2>1, <3>1 DEF UnlinkOriginals
    <3> QED
      BY <2>1, <3>1, <3>2
         DEF UnlinkOriginals, jobVars, WellFormed, TypeOK, CoroutinesTypeOK,
             Hook
  <2>2. (\E left \in 1 .. NumOriginals : UnlinkFails(left)) => faults' > 0
    BY <1>0 DEF UnlinkFails, Fault
  <2> QED
    BY <1>0, <1>2, <2>1, <2>2, OriginalsTouchedBy
\* A step after they were deleted.
<1>3. CASE originals[b] < NumOriginals
  <2>1. CASE faults > 0 \/ library[b] = "deleted"
    BY <2>1, FaultsAndRemovalsStay
  <2>2. CASE hook.pc = "audit" /\ bookOf[hook.job] = b
             /\ hook.removed = NumOriginals
    <3>1. hook.job \in JobId /\ bookOf'[hook.job] = b
      BY <2>2, HeldRows, BooksOfRowsStay
    <3>2. CASE hook' = hook
      BY <2>2, <3>1, <3>2
    <3>3. CASE RecordDeletion
      BY <1>0, <2>2, <3>1, <3>3 DEF RecordDeletion
    <3>4. CASE Fault
      BY <1>0, <3>4 DEF Fault
    <3> QED
      BY <2>2, <3>2, <3>3, <3>4, AuditStays
  <2>3. ASSUME NEW j \in JobId, bookOf[j] = b,
               originalsDeleted[j] = NumOriginals
        PROVE  bookOf'[j] = b /\ originalsDeleted'[j] = NumOriginals
    <3>1. bookOf'[j] = b
      BY <2>3, BooksOfRowsStay
    <3>2. RecordDeletion => hook.job # j
      BY <2>3 DEF RecordDeletion, AuditOnce
    <3> QED
      BY <1>0, <2>3, <3>1, <3>2, AuditWrittenOnce DEF RecordDeletion
  <2> QED
    BY <1>3, <2>1, <2>2, <2>3 DEF DeletionsAudited
<1> QED
  BY <1>0, <1>2, <1>3

\* Originals that are gone are recorded in originals_deleted of a row of their
\* book, or about to be, unless the book was removed or a fault (a crash, a
\* lock timeout, an unlink error) has occurred.
THEOREM DeletionsAlwaysAudited == Spec => []DeletionsAudited
<1>1. Init => AuditOnce /\ DeletionsAudited
  BY DEF Init, AuditOnce, DeletionsAudited, NoHook
<1>2. WellFormed /\ AuditOnce /\ DeletionsAudited /\ [Next]_vars
        => AuditOnce' /\ DeletionsAudited'
  BY StepAuditOnce, StepDeletionsAudited
<1> QED
  BY <1>1, <1>2, WellFormedAlways, PTL DEF Spec

-----------------------------------------------------------------------------
(***************************************************************************)
(* What can undo a completion.                                             *)
(***************************************************************************)
\* The step property of CompletionUndoneOnlyByLateReply, for one row.
Undone(j) == status[j] = "completed" /\ status'[j] # "completed"
UndoneByLateReply(j) == \/ status'[j] = "purged"
                        \/ worker.pc = "convert" /\ worker.job = j

\* Every way to overwrite a completed row, step by step.
LEMMA StepUndone ==
  ASSUME WellFormed, [Next]_vars, NEW j \in JobId, Undone(j)
  PROVE  UndoneByLateReply(j)
<1>0. RowsTypeOK /\ RowsAllocated
  BY DEF WellFormed, TypeOK
<1> USE DEF Undone, UndoneByLateReply
<1>1. ASSUME NEW b \in Book, InsertJob(b) PROVE UndoneByLateReply(j)
  <2>1. j # lastId + 1
    BY <1>0 DEF RowsAllocated, RowsTypeOK, JobId
  <2> QED
    BY <1>0, <1>1, <2>1 DEF InsertJob, RowsTypeOK
<1>2. ASSUME NEW b \in Book, NEW w \in BOOLEAN, ImportBook(b, w)
      PROVE  UndoneByLateReply(j)
  BY <1>1, <1>2 DEF ImportBook, jobVars
<1>3. ASSUME NEW b \in Book, EnqueueJob(b) PROVE UndoneByLateReply(j)
  BY <1>1, <1>3 DEF EnqueueJob
<1>4. ASSUME NEW b \in Book, RemoveBook(b) PROVE UndoneByLateReply(j)
  BY <1>4 DEF RemoveBook
<1>5. ASSUME NEW i \in JobId, NEW s, SetStatus(i, s), status[i] # "completed"
      PROVE  UndoneByLateReply(j)
  BY <1>0, <1>5 DEF SetStatus, RowsTypeOK
<1>6. ASSUME NEW i \in JobId, RetryJob(i) \/ CancelJob(i) \/ ClaimJob(i)
      PROVE  UndoneByLateReply(j)
  BY <1>5, <1>6 DEF RetryJob, CancelJob, ClaimJob, Queued
<1>7. ASSUME NEW i \in JobId, Expire(i) PROVE UndoneByLateReply(j)
  BY <1>7 DEF Expire
<1>8. ASSUME NEW ok \in BOOLEAN, worker.pc = "convert",
             FinishJob(worker.job, ok)
      PROVE  UndoneByLateReply(j)
  BY <1>0, <1>8, HeldRows DEF FinishJob, SetStatus, RowsTypeOK
<1>9. ASSUME NEW ok \in BOOLEAN, HttpFailed \/ CommandExited(ok)
      PROVE  UndoneByLateReply(j)
  BY <1>8, <1>9 DEF HttpFailed, CommandExited
<1>10. CASE ProcessTimeouts
  BY <1>10 DEF ProcessTimeouts, Running
<1>11. CASE RecordDeletion
  BY <1>11 DEF RecordDeletion
<1>12. ASSUME NEW m \in callbacks, NEW i \in JobId,
              WebhookCompleted(m, i) \/ WebhookFailed(m, i)
       PROVE  UndoneByLateReply(j)
  BY <1>5, <1>12, MatchedRuns DEF WebhookCompleted, WebhookFailed
<1>13. CASE UNCHANGED jobVars
  BY <1>13 DEF jobVars
<1> QED
  BY RowsWrittenBy, <1>2, <1>3, <1>4, <1>6, <1>7, <1>9, <1>10, <1>11, <1>12,
     <1>13 DEF RowWrite

\* A completed row leaves "completed" only with its book, or by the answer to
\* its own convert call that arrives after the callback.
THEOREM CompletionsUndoneOnlyLate == Spec => CompletionUndoneOnlyByLateReply
<1>1. WellFormed /\ [Next]_vars
        => [\A j \in JobId :
              (status[j] = "completed" /\ status'[j] # "completed")
                => \/ status'[j] = "purged"
                   \/ worker.pc = "convert" /\ worker.job = j]_vars
  BY StepUndone DEF Undone, UndoneByLateReply
<1> QED
  BY <1>1, WellFormedAlways, PTL DEF Spec, CompletionUndoneOnlyByLateReply

-----------------------------------------------------------------------------
(***************************************************************************)
(* The lifecycle: each step moves the rows as JobLifecycle allows.         *)
(***************************************************************************)
claimedJobs == {j \in JobId : attempts[j] > 0}

\* A statement on one row is a move of the lifecycle.
LEMMA SetStatusSettles ==
  ASSUME WellFormed, NEW j \in JobId, attempts[j] > 0, status[j] # "purged",
         NEW s \in {"completed", "failed"}, SetStatus(j, s),
         attempts' = attempts
  PROVE  Lifecycle!Next
<1>0. status \in [JobId -> Status]
  BY DEF WellFormed, TypeOK, RowsTypeOK
<1>1. status' = [i \in JobId |-> IF i \in {j} THEN s ELSE status[i]]
  BY <1>0 DEF SetStatus
<1>2. Lifecycle!Settle({j})
  BY <1>1 DEF Lifecycle!Settle, Lifecycle!Outcome
<1> QED
  BY <1>2 DEF Lifecycle!Next

\* An insert submits the row after the last one.
LEMMA InsertSubmits ==
  ASSUME WellFormed, NEW b \in Book, InsertJob(b)
  PROVE  Lifecycle!Next
<1>0. lastId \in 0 .. MaxJobs /\ RowsAllocated
  BY DEF WellFormed, TypeOK, RowsTypeOK
<1>1. lastId + 1 \in JobId /\ status[lastId + 1] = "none"
  BY <1>0 DEF InsertJob, RowsAllocated, JobId
<1>2. Lifecycle!Submit(lastId + 1)
  BY <1>1 DEF InsertJob, Lifecycle!Submit, Lifecycle!Move
<1> QED
  BY <1>1, <1>2 DEF Lifecycle!Next

\* Each step of the queue is a step of the lifecycle or a stutter.
LEMMA StepLifecycle ==
  WellFormed /\ [Next]_vars => [Lifecycle!Next]_(Lifecycle!vars)
<1> SUFFICES ASSUME WellFormed, [Next]_vars
             PROVE  Lifecycle!Next \/ UNCHANGED Lifecycle!vars
  OBVIOUS
<1>0. RowsTypeOK
  BY DEF WellFormed, TypeOK
<1> DEFINE Step == Lifecycle!Next \/ UNCHANGED Lifecycle!vars
<1>1. CASE UNCHANGED <<status, attempts>>
  BY <1>1 DEF Lifecycle!vars
<1>2. ASSUME NEW b \in Book, NEW w \in BOOLEAN, ImportBook(b, w) PROVE Step
  BY <1>1, <1>2, InsertSubmits DEF ImportBook, jobVars
<1>3. ASSUME NEW b \in Book, EnqueueJob(b) PROVE Step
  BY <1>3, InsertSubmits DEF EnqueueJob
<1>4. ASSUME NEW b \in Book, RemoveBook(b) PROVE Step
  <2>1. /\ attempts' = attempts
        /\ status' = [i \in JobId |-> IF bookOf[i] = b THEN "purged"
                                                       ELSE status[i]]
    BY <1>4 DEF RemoveBook
  <2> DEFINE rows == {i \in JobId : bookOf[i] = b}
  <2>2. Lifecycle!Purge(rows)
    BY <2>1 DEF Lifecycle!Purge
  <2> QED
    BY <2>2 DEF Lifecycle!Next
<1>5. ASSUME NEW j \in JobId, RetryJob(j) PROVE Step
  BY <1>5 DEF RetryJob, SetStatus, Lifecycle!Next, Lifecycle!Requeue,
              Lifecycle!Move
<1>6. ASSUME NEW j \in JobId, CancelJob(j) PROVE Step
  BY <1>6 DEF CancelJob, SetStatus, Lifecycle!Next, Lifecycle!Withdraw,
              Lifecycle!Move
<1>7. ASSUME NEW j \in JobId, ClaimJob(j) PROVE Step
  <2>1. status[j] = "queued" /\ status' = [status EXCEPT ![j] = "running"]
    BY <1>7 DEF ClaimJob, Queued, SetStatus
  <2>2. claimedJobs' = claimedJobs \cup {j}
    BY <1>0, <1>7 DEF ClaimJob, RowsTypeOK, claimedJobs
  <2>3. Lifecycle!Claim(j)
    BY <2>1, <2>2 DEF Lifecycle!Claim, Lifecycle!Move, claimedJobs
  <2> QED
    BY <2>3 DEF Lifecycle!Next
<1>8. ASSUME NEW j \in JobId, Expire(j) PROVE Step
  BY <1>1, <1>8 DEF Expire
<1>9. ASSUME NEW ok \in BOOLEAN, worker.pc = "convert",
             FinishJob(worker.job, ok), attempts' = attempts
      PROVE  Step
  <2>1. worker.job \in JobId /\ attempts[worker.job] > 0
    BY <1>9, HeldRows DEF WellFormed, HeldJobsClaimed
  <2>2. CASE status[worker.job] = "purged"
    BY <1>1, <1>9, <2>2 DEF FinishJob
  <2>3. CASE status[worker.job] # "purged"
    BY <1>9, <2>1, <2>3, SetStatusSettles DEF FinishJob
  <2> QED
    BY <2>2, <2>3
<1>10. CASE HttpFailed
  BY <1>9, <1>10 DEF HttpFailed
<1>11. ASSUME NEW ok \in BOOLEAN, CommandExited(ok) PROVE Step
  BY <1>9, <1>11 DEF CommandExited
<1>12. CASE ProcessTimeouts
  <2> DEFINE reaped == Running \cap overdue
  <2>1. /\ attempts' = attempts
        /\ status' = [j \in JobId |-> IF j \in reaped THEN "failed"
                                                      ELSE status[j]]
    BY <1>12 DEF ProcessTimeouts
  <2>2. reaped \subseteq claimedJobs /\ \A j \in reaped : status[j] = "running"
    BY DEF Running, claimedJobs, WellFormed, ClaimedFirst
  <2>3. Lifecycle!Settle(reaped)
    BY <2>1, <2>2 DEF Lifecycle!Settle, Lifecycle!Outcome, claimedJobs
  <2>4. reaped \subseteq JobId
    BY DEF Running
  <2> QED
    BY <2>3, <2>4 DEF Lifecycle!Next
<1>13. CASE RecordDeletion
  BY <1>1, <1>13 DEF RecordDeletion
<1>14. ASSUME NEW m \in callbacks, NEW j \in JobId,
              WebhookCompleted(m, j) \/ WebhookFailed(m, j)
       PROVE  Step
  <2>1. status[j] = "running" /\ attempts[j] > 0
    BY <1>14, MatchedRuns
       DEF WebhookCompleted, WebhookFailed, WellFormed, ClaimedFirst
  <2> QED
    BY <1>14, <2>1, SetStatusSettles DEF WebhookCompleted, WebhookFailed
<1>15. CASE UNCHANGED jobVars
  BY <1>1, <1>15 DEF jobVars
<1> QED
  BY RowsWrittenBy, <1>2, <1>3, <1>4, <1>5, <1>6, <1>7, <1>8, <1>10, <1>11,
     <1>12, <1>13, <1>14, <1>15 DEF RowWrite

\* The queue implements the lifecycle of JobLifecycle: the status of a row
\* moves only along its arrows, and only a claimed row gets an outcome.
THEOREM QueueImplementsLifecycle == Spec => ImplementsLifecycle
<1>1. Init => Lifecycle!Init
  BY DEF Init, Lifecycle!Init
<1> QED
  BY <1>1, StepLifecycle, WellFormedAlways, PTL
     DEF Spec, ImplementsLifecycle, Lifecycle!Spec
=============================================================================
