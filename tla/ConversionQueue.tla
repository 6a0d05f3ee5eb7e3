--------------------------- MODULE ConversionQueue ---------------------------
(***************************************************************************)
(* The MP3 -> M4B conversion queue of Audiarr: the conversion_jobs table   *)
(* shared by the jobs API (api/routes_conversion.py), the import pipeline  *)
(* (enqueue_for_book), the background worker (conversion/worker.py), the   *)
(* completion webhook (api/routes_webhooks.py) and the cleanup of the      *)
(* original files, next to the external converter that does the work.      *)
(*                                                                         *)
(* Everything in Audiarr runs on one asyncio event loop.  A coroutine runs *)
(* until its next suspending await, so a handler with no await is one      *)
(* step; the worker and the webhook, which a crash can cut in two, are     *)
(* several steps, and LoopFree keeps every other handler out until the     *)
(* running coroutine suspends.                                             *)
(***************************************************************************)
EXTENDS Naturals, FiniteSets

CONSTANTS
  Book,         \* the books an import may bring into the library
  None,         \* no book: an empty title, an empty path, no owner
  Settings,     \* the conversion settings the operator switches between
  NumOriginals, \* audio files in the source folder of a book
  Score,        \* Score[t][b]: percent similarity of t's title to b's title
  Hints,        \* the combinations of "title" and "job" a callback carries
  InPlace,      \* books whose converted file lands in their source folder
  MaxJobs,      \* bound: rows ever inserted in conversion_jobs
  MaxRetries,   \* bound: calls of retry_job that requeue a job
  MaxFaults     \* bound: crashes, lock timeouts and unlink errors together

NoJob == 0
JobId == 1 .. MaxJobs
Backend == {"disabled", "m4b-convertarr", "command"}

ASSUME BookAssumption == None \notin Book
ASSUME SettingsAssumption ==
  Settings \subseteq [backend: Backend, deleteOriginals: BOOLEAN]
ASSUME OriginalsAssumption == NumOriginals \in Nat \ {0}
ASSUME ScoreAssumption == Score \in [Book -> [Book -> Nat]]
ASSUME HintsAssumption == Hints \subseteq SUBSET {"title", "job"}
ASSUME BoundsAssumption ==
  MaxJobs \in Nat /\ MaxRetries \in Nat /\ MaxFaults \in Nat

VARIABLES
  settings,         \* conversion.backend and conversion.delete_originals
  library,          \* library[b]: "new", "live" or "deleted"
  lastId,           \* the AUTOINCREMENT counter of conversion_jobs
  status,           \* conversion_jobs.status; "none" before, "purged" after
  bookOf,           \* conversion_jobs.book_id
  attempts,         \* conversion_jobs.attempts
  completedPath,    \* completed_path: the book whose file it is, or None
  originalsDeleted, \* conversion_jobs.originals_deleted
  overdue,          \* rows whose updated_at is older than job_timeout_hours
  worker,           \* the coroutine worker_loop
  hook,             \* the coroutine convertarr_webhook after its commit
  originals,        \* audio files left in the source folder of each book
  fileOwner,        \* library_files: under which book a file is recorded
  inbox,            \* external: requests the converter has accepted
  outputs,          \* external: books whose converted file is on disk
  callbacks,        \* external: callbacks on their way to the webhook
  faults,           \* faults so far, counted against MaxFaults
  retries,          \* calls of retry_job so far, counted against MaxRetries
  retried           \* history: the jobs retry_job has requeued

jobVars == <<lastId, status, bookOf, attempts, completedPath,
             originalsDeleted, overdue, retries, retried>>
history == <<retries, retried>>
fileVars == <<originals, fileOwner>>
externalVars == <<inbox, outputs, callbacks>>
vars == <<settings, library, jobVars, worker, hook, fileVars, externalVars,
          faults>>

Status == {"none", "queued", "running", "completed", "failed", "cancelled",
           "purged"}
Active == {"queued", "running"}

Callback == [kind: {"completed", "failed"}, title: Book \cup {None},
             job: JobId \cup {NoJob}, path: Book, visible: BOOLEAN]

Worker == [pc: {"down", "off", "idle", "poll", "convert", "timeouts"},
           job: JobId \cup {NoJob}, backend: Backend, accepted: BOOLEAN]
Hook == [pc: {"idle", "cleanup", "audit"}, job: JobId \cup {NoJob},
         visible: BOOLEAN, removed: 0 .. NumOriginals]

NoHook == [pc |-> "idle", job |-> NoJob, visible |-> FALSE, removed |-> 0]
WorkerAt(pc) == [pc |-> pc, job |-> NoJob, backend |-> "disabled",
                 accepted |-> FALSE]

(***************************************************************************)
(* No coroutine is between two awaits: any handler may be scheduled.       *)
(***************************************************************************)
LoopFree == worker.pc \in {"off", "idle", "convert"} /\ hook.pc = "idle"

Running == {j \in JobId : status[j] = "running"}
ActiveOf(b) == {j \in JobId : bookOf[j] = b /\ status[j] \in Active}

Init ==
  /\ settings \in Settings
  /\ library = [b \in Book |-> "new"]
  /\ lastId = 0
  /\ status = [j \in JobId |-> "none"]
  /\ bookOf = [j \in JobId |-> None]
  /\ attempts = [j \in JobId |-> 0]
  /\ completedPath = [j \in JobId |-> None]
  /\ originalsDeleted = [j \in JobId |-> 0]
  /\ overdue = {}
  /\ retries = 0
  /\ retried = {}
  /\ worker = WorkerAt("down")
  /\ hook = NoHook
  /\ originals = [b \in Book |-> NumOriginals]
  /\ fileOwner = [b \in Book |-> None]
  /\ inbox = {} /\ outputs = {} /\ callbacks = {}
  /\ faults = 0

-----------------------------------------------------------------------------
(***************************************************************************)
(* Helpers: the statements the handlers are made of.                       *)
(***************************************************************************)
Fault == faults < MaxFaults /\ faults' = faults + 1

\* UPDATE conversion_jobs SET status = s, updated_at = now WHERE id = j.
SetStatus(j, s) ==
  /\ status' = [status EXCEPT ![j] = s]
  /\ overdue' = overdue \ {j}

\* INSERT INTO conversion_jobs (book_id, ...) with the column defaults.
InsertJob(b) ==
  /\ lastId < MaxJobs
  /\ lastId' = lastId + 1
  /\ status' = [status EXCEPT ![lastId + 1] = "queued"]
  /\ bookOf' = [bookOf EXCEPT ![lastId + 1] = b]
  /\ UNCHANGED <<attempts, completedPath, originalsDeleted, overdue, history>>

\* _finish_job: the UPDATE has no condition on the status it overwrites, and
\* a success without a path clears completed_path.  A purged row matches none.
FinishJob(j, ok) ==
  IF status[j] = "purged"
    THEN UNCHANGED <<status, overdue, completedPath>>
    ELSE /\ SetStatus(j, IF ok THEN "completed" ELSE "failed")
         /\ completedPath' = IF ok THEN [completedPath EXCEPT ![j] = None]
                                   ELSE completedPath

-----------------------------------------------------------------------------
(***************************************************************************)
(* The API handlers.                                                       *)
(***************************************************************************)

\* PUT settings: each handler and each tick of the worker reads them afresh.
PutSettings(s) ==
  /\ LoopFree
  /\ settings' = s
  /\ UNCHANGED <<library, jobVars, worker, hook, fileVars, externalVars,
                 faults>>

\* An import commits a new book; _maybe_enqueue_conversion offers it to the
\* backend when the quality profile of the book wants another format.
ImportBook(b, wantsConversion) ==
  /\ LoopFree
  /\ library[b] = "new"
  /\ library' = [library EXCEPT ![b] = "live"]
  /\ IF wantsConversion /\ settings.backend # "disabled" /\ ActiveOf(b) = {}
       THEN InsertJob(b)
       ELSE UNCHANGED jobVars
  /\ UNCHANGED <<settings, worker, hook, fileVars, externalVars, faults>>

\* Mutant of EnqueueJob: the look for an active row of the book is missing.
EnqueueJobUnchecked(b) ==
  /\ LoopFree
  /\ settings.backend # "disabled"
  /\ library[b] = "live"
  /\ InsertJob(b)
  /\ UNCHANGED <<settings, library, worker, hook, fileVars, externalVars,
                 faults>>

EnqueueJob(b) ==
  /\ LoopFree
  /\ settings.backend # "disabled"
  /\ library[b] = "live"
  /\ ActiveOf(b) = {}
  /\ InsertJob(b)
  /\ UNCHANGED <<settings, library, worker, hook, fileVars, externalVars,
                 faults>>

RetryJob(j) ==
  /\ LoopFree
  /\ status[j] \in {"failed", "cancelled"}
  /\ retries < MaxRetries
  /\ SetStatus(j, "queued")
  /\ retries' = retries + 1
  /\ retried' = retried \cup {j}
  /\ UNCHANGED <<settings, library, lastId, bookOf, attempts, completedPath,
                 originalsDeleted, worker, hook, fileVars, externalVars,
                 faults>>

\* Mutant of CancelJob: a running job can be cancelled too.
CancelJobRunning(j) ==
  /\ LoopFree
  /\ status[j] \in Active
  /\ SetStatus(j, "cancelled")
  /\ UNCHANGED <<settings, library, lastId, bookOf, attempts, completedPath,
                 originalsDeleted, history, worker, hook, fileVars,
                 externalVars, faults>>

CancelJob(j) ==
  /\ LoopFree
  /\ status[j] = "queued"
  /\ SetStatus(j, "cancelled")
  /\ UNCHANGED <<settings, library, lastId, bookOf, attempts, completedPath,
                 originalsDeleted, history, worker, hook, fileVars,
                 externalVars, faults>>

\* DELETE FROM books: the foreign keys take the jobs, the editions and the
\* library_files of the book with it; no file is touched.
RemoveBook(b) ==
  /\ LoopFree
  /\ library[b] = "live"
  /\ library' = [library EXCEPT ![b] = "deleted"]
  /\ status' = [j \in JobId |-> IF bookOf[j] = b THEN "purged" ELSE status[j]]
  /\ fileOwner' = [p \in Book |-> IF fileOwner[p] = b THEN None
                                                      ELSE fileOwner[p]]
  /\ UNCHANGED <<settings, lastId, bookOf, attempts, completedPath,
                 originalsDeleted, overdue, history, worker, hook, originals,
                 externalVars, faults>>

-----------------------------------------------------------------------------
(***************************************************************************)
(* The worker.  worker.pc is "down" with the process, "off" when the       *)
(* process started with the backend disabled, "idle" between two ticks,    *)
(* "poll" at the head of process_one_job, "convert" inside the await of    *)
(* backend.convert and "timeouts" at the head of process_timeouts.         *)
(***************************************************************************)
Start ==
  /\ worker.pc = "down"
  /\ worker' = WorkerAt(IF settings.backend = "disabled" THEN "off"
                                                         ELSE "idle")
  /\ UNCHANGED <<settings, library, jobVars, hook, fileVars, externalVars,
                 faults>>

Wake ==
  /\ LoopFree
  /\ worker.pc = "idle"
  /\ worker' = WorkerAt("poll")
  /\ UNCHANGED <<settings, library, jobVars, hook, fileVars, externalVars,
                 faults>>

\* Mutant of Queued: a job that was dispatched once is not picked up again.
QueuedFirstAttempt == {j \in JobId : status[j] = "queued" /\ attempts[j] = 0}

Queued == {j \in JobId : status[j] = "queued"}
HasWork == settings.backend # "disabled" /\ Queued # {}

FindNoWork ==
  /\ worker.pc = "poll"
  /\ ~ HasWork
  /\ worker' = WorkerAt("timeouts")
  /\ UNCHANGED <<settings, library, jobVars, hook, fileVars, externalVars,
                 faults>>

\* The oldest queued job becomes running and the request is sent.
ClaimJob(j) ==
  /\ worker.pc = "poll"
  /\ HasWork
  /\ j \in Queued
  /\ \A i \in Queued : j <= i
  /\ SetStatus(j, "running")
  /\ attempts' = [attempts EXCEPT ![j] = @ + 1]
  /\ worker' = [pc |-> "convert", job |-> j, backend |-> settings.backend,
                accepted |-> FALSE]
  /\ UNCHANGED <<settings, library, lastId, bookOf, completedPath,
                 originalsDeleted, history, hook, fileVars, externalVars,
                 faults>>

\* What the loop does once convert has returned: process_timeouts next.
Converted == worker' = [worker EXCEPT !.pc = "timeouts"]

\* The HTTP backend answered 200, 201 or 202: the row stays running.
HttpAccepted ==
  /\ LoopFree
  /\ worker.pc = "convert" /\ worker.backend = "m4b-convertarr"
  /\ worker.accepted
  /\ Converted
  /\ UNCHANGED <<settings, library, jobVars, hook, fileVars, externalVars,
                 faults>>

\* Another status, an unreachable host, or no answer within 30 seconds,
\* which says nothing about whether the converter took the request.
HttpFailed ==
  /\ LoopFree
  /\ worker.pc = "convert" /\ worker.backend = "m4b-convertarr"
  /\ FinishJob(worker.job, FALSE)
  /\ Converted
  /\ UNCHANGED <<settings, library, lastId, bookOf, attempts,
                 originalsDeleted, history, hook, fileVars, externalVars,
                 faults>>

\* The local command exits; nothing bounds how long it may take.
CommandExited(ok) ==
  /\ LoopFree
  /\ worker.pc = "convert" /\ worker.backend = "command"
  /\ FinishJob(worker.job, ok)
  /\ Converted
  /\ UNCHANGED <<settings, library, lastId, bookOf, attempts,
                 originalsDeleted, history, hook, fileVars, externalVars,
                 faults>>

\* Mutant of ProcessTimeouts: like process_one_job, it does nothing while the
\* backend is disabled.
ProcessTimeoutsIfEnabled ==
  /\ worker.pc = "timeouts"
  /\ LET reaped == IF settings.backend = "disabled" THEN {}
                                                    ELSE Running \cap overdue
     IN /\ status' = [j \in JobId |-> IF j \in reaped THEN "failed"
                                                     ELSE status[j]]
        /\ overdue' = overdue \ reaped
  /\ worker' = WorkerAt(IF worker.job = NoJob THEN "idle" ELSE "poll")
  /\ UNCHANGED <<settings, library, lastId, bookOf, attempts, completedPath,
                 originalsDeleted, history, hook, fileVars, externalVars,
                 faults>>

\* Every running row past the limit is failed; the loop polls again at once
\* if this tick did work, else it waits.  Each row is committed on its own: a
\* pass cut short after some rows looks like one before the others expired.
ProcessTimeouts ==
  /\ worker.pc = "timeouts"
  /\ status' = [j \in JobId |-> IF j \in Running \cap overdue THEN "failed"
                                                             ELSE status[j]]
  /\ overdue' = overdue \ Running
  /\ worker' = WorkerAt(IF worker.job = NoJob THEN "idle" ELSE "poll")
  /\ UNCHANGED <<settings, library, lastId, bookOf, attempts, completedPath,
                 originalsDeleted, history, hook, fileVars, externalVars,
                 faults>>

\* A statement of the tick waited in vain for the write lock: the exception
\* is logged and the loop waits for its next tick.
TickFails ==
  /\ \/ worker.pc \in {"poll", "timeouts"}
     \/ LoopFree /\ worker.pc = "convert"
  /\ Fault
  /\ worker' = WorkerAt("idle")
  /\ UNCHANGED <<settings, library, jobVars, hook, fileVars, externalVars>>

-----------------------------------------------------------------------------
(***************************************************************************)
(* The webhook: matching a callback to a running job, the import of the    *)
(* converted file and the completion in one transaction, then the cleanup. *)
(***************************************************************************)
MatchThreshold == 50

\* Mutant of BestTitle: the best title is taken however bad it is.
BestTitleAnyScore(t, j) ==
  /\ j \in Running
  /\ \A i \in Running :
       \/ Score[t][bookOf[i]] < Score[t][bookOf[j]]
       \/ Score[t][bookOf[i]] = Score[t][bookOf[j]] /\ j <= i

\* The best title among the running jobs, the oldest of equals.
BestTitle(t, j) ==
  /\ j \in Running
  /\ Score[t][bookOf[j]] >= MatchThreshold
  /\ \A i \in Running :
       \/ Score[t][bookOf[i]] < Score[t][bookOf[j]]
       \/ Score[t][bookOf[i]] = Score[t][bookOf[j]] /\ j <= i

\* Mutant of MatchRunningJob: the only running job is taken when the title
\* matches nothing.
MatchOnlyRunningJob(m, j) ==
  IF m.job \in Running
    THEN j = m.job
    ELSE Running = {j} \/ BestTitle(m.title, j)

\* Mutant of MatchRunningJob: an explicit id wins whatever its job's status.
MatchAnyStatus(m, j) ==
  IF m.job # NoJob
    THEN j = m.job
    ELSE IF m.title = None THEN Running = {j}
                           ELSE BestTitle(m.title, j)

\* An explicit id wins while it is running; otherwise the title decides, and
\* without a title the only running job is taken.
MatchRunningJob(m, j) ==
  IF m.job \in Running
    THEN j = m.job
    ELSE IF m.title = None THEN Running = {j}
                           ELSE BestTitle(m.title, j)

WebhookCompleted(m, j) ==
  /\ LoopFree
  /\ m \in callbacks /\ m.kind = "completed"
  /\ MatchRunningJob(m, j)
  /\ fileOwner' = IF fileOwner[m.path] = None
                    THEN [fileOwner EXCEPT ![m.path] = bookOf[j]]
                    ELSE fileOwner
  /\ SetStatus(j, "completed")
  /\ completedPath' = [completedPath EXCEPT ![j] = m.path]
  /\ callbacks' = callbacks \ {m}
  /\ hook' = [pc |-> "cleanup", job |-> j, visible |-> m.visible,
              removed |-> 0]
  /\ UNCHANGED <<settings, library, lastId, bookOf, attempts,
                 originalsDeleted, history, worker, originals, inbox, outputs,
                 faults>>

WebhookFailed(m, j) ==
  /\ LoopFree
  /\ m \in callbacks /\ m.kind = "failed"
  /\ MatchRunningJob(m, j)
  /\ SetStatus(j, "failed")
  /\ callbacks' = callbacks \ {m}
  /\ UNCHANGED <<settings, library, lastId, bookOf, attempts, completedPath,
                 originalsDeleted, history, worker, hook, fileVars, inbox,
                 outputs, faults>>

\* No running job matched, a wrong key, a lock timeout, or Audiarr was down:
\* the hook script never sends a callback twice.
CallbackLost(m) ==
  /\ m \in callbacks
  /\ callbacks' = callbacks \ {m}
  /\ UNCHANGED <<settings, library, jobVars, worker, hook, fileVars, inbox,
                 outputs, faults>>

\* The guards of delete_originals_for_job; is_file is the last of them.
MayDelete ==
  /\ settings.deleteOriginals
  /\ status[hook.job] = "completed"
  /\ originalsDeleted[hook.job] = 0
  /\ hook.visible /\ completedPath[hook.job] \in outputs

KeepOriginals ==
  /\ hook.pc = "cleanup"
  /\ ~ MayDelete
  /\ hook' = NoHook
  /\ UNCHANGED <<settings, library, jobVars, worker, fileVars, externalVars,
                 faults>>

\* Mutant of UnlinkOriginals: the source folder counts as a removed file.
UnlinkOriginalsAndFolder ==
  /\ hook.pc = "cleanup"
  /\ MayDelete
  /\ LET b == bookOf[hook.job] IN
       /\ originals' = [originals EXCEPT ![b] = 0]
       /\ hook' = [hook EXCEPT !.pc = "audit", !.removed = originals[b] + 1]
       /\ outputs' = outputs \ ({b} \cap InPlace)
  /\ UNCHANGED <<settings, library, jobVars, worker, fileOwner, inbox,
                 callbacks, faults>>

\* Mutant of UnlinkOriginals: what was deleted is not recorded.
UnlinkOriginalsUnrecorded ==
  /\ hook.pc = "cleanup"
  /\ MayDelete
  /\ LET b == bookOf[hook.job] IN
       /\ originals' = [originals EXCEPT ![b] = 0]
       /\ outputs' = outputs \ ({b} \cap InPlace)
  /\ hook' = NoHook
  /\ UNCHANGED <<settings, library, jobVars, worker, fileOwner, inbox,
                 callbacks, faults>>

\* rglob("*") takes every file of the source folder, whatever it holds.
UnlinkOriginals ==
  /\ hook.pc = "cleanup"
  /\ MayDelete
  /\ LET b == bookOf[hook.job] IN
       /\ originals' = [originals EXCEPT ![b] = 0]
       /\ hook' = [hook EXCEPT !.pc = "audit", !.removed = originals[b]]
       /\ outputs' = outputs \ ({b} \cap InPlace)
  /\ UNCHANGED <<settings, library, jobVars, worker, fileOwner, inbox,
                 callbacks, faults>>

\* An unlink raises: the request ends with some files gone, nothing recorded.
UnlinkFails(left) ==
  /\ hook.pc = "cleanup"
  /\ MayDelete
  /\ left <= originals[bookOf[hook.job]]
  /\ Fault
  /\ originals' = [originals EXCEPT ![bookOf[hook.job]] = left]
  /\ \E gone \in SUBSET ({bookOf[hook.job]} \cap InPlace) :
       outputs' = outputs \ gone
  /\ hook' = NoHook
  /\ UNCHANGED <<settings, library, jobVars, worker, fileOwner, inbox,
                 callbacks>>

RecordDeletion ==
  /\ hook.pc = "audit"
  /\ originalsDeleted' =
       [originalsDeleted EXCEPT ![hook.job] = hook.removed]
  /\ hook' = NoHook
  /\ UNCHANGED <<settings, library, lastId, status, bookOf, attempts,
                 completedPath, overdue, history, worker, fileVars,
                 externalVars, faults>>

RecordDeletionFails ==
  /\ hook.pc = "audit"
  /\ Fault
  /\ hook' = NoHook
  /\ UNCHANGED <<settings, library, jobVars, worker, fileVars, externalVars>>

-----------------------------------------------------------------------------
(***************************************************************************)
(* The converter (external), time, and the process.                        *)
(***************************************************************************)
ConverterAccepts ==
  /\ worker.pc = "convert" /\ worker.backend = "m4b-convertarr"
  /\ ~ worker.accepted
  /\ worker' = [worker EXCEPT !.accepted = TRUE]
  /\ inbox' = inbox \cup {worker.job}
  /\ UNCHANGED <<settings, library, jobVars, hook, fileVars, outputs,
                 callbacks, faults>>

CallbackFor(j, kind, hint, visible) ==
  [kind |-> kind, path |-> bookOf[j], visible |-> visible,
   title |-> IF "title" \in hint THEN bookOf[j] ELSE None,
   job |-> IF "job" \in hint THEN j ELSE NoJob]

\* The converter drains its inbox one request at a time and runs the hook
\* script before the next: one callback is on its way at most.
ConverterFinishes(j, hint, visible) ==
  /\ j \in inbox
  /\ callbacks = {}
  /\ originals[bookOf[j]] > 0
  /\ inbox' = inbox \ {j}
  /\ outputs' = outputs \cup {bookOf[j]}
  /\ callbacks' = {CallbackFor(j, "completed", hint, visible)}
  /\ UNCHANGED <<settings, library, jobVars, worker, hook, fileVars, faults>>

ConverterFails(j, hint) ==
  /\ j \in inbox
  /\ callbacks = {}
  /\ inbox' = inbox \ {j}
  /\ callbacks' = {CallbackFor(j, "failed", hint, FALSE)}
  /\ UNCHANGED <<settings, library, jobVars, worker, hook, fileVars, outputs,
                 faults>>

\* job_timeout_hours (at least one) pass over a running row.  The HTTP call
\* in flight is over in half a minute; a command may run for ever.
Expire(j) ==
  /\ status[j] = "running" /\ j \notin overdue
  /\ ~ (worker.pc = "convert" /\ worker.job = j
        /\ worker.backend = "m4b-convertarr")
  /\ overdue' = overdue \cup {j}
  /\ UNCHANGED <<settings, library, lastId, status, bookOf, attempts,
                 completedPath, originalsDeleted, history, worker, hook,
                 fileVars, externalVars, faults>>

\* The process dies, or is stopped and its tasks cancelled, at any point.
Crash ==
  /\ worker.pc # "down"
  /\ Fault
  /\ worker' = WorkerAt("down")
  /\ hook' = NoHook
  /\ UNCHANGED <<settings, library, jobVars, fileVars, externalVars>>

-----------------------------------------------------------------------------
Api ==
  \/ \E s \in Settings : PutSettings(s)
  \/ \E b \in Book : \E w \in BOOLEAN : ImportBook(b, w)
  \/ \E b \in Book : EnqueueJob(b) \/ RemoveBook(b)
  \/ \E j \in JobId : RetryJob(j) \/ CancelJob(j)

WorkerStep ==
  \/ Start \/ Wake \/ FindNoWork \/ ProcessTimeouts \/ TickFails
  \/ \E j \in JobId : ClaimJob(j)
  \/ HttpAccepted \/ HttpFailed
  \/ \E ok \in BOOLEAN : CommandExited(ok)

Webhook ==
  \/ \E m \in callbacks :
       \/ \E j \in JobId : WebhookCompleted(m, j) \/ WebhookFailed(m, j)
       \/ CallbackLost(m)
  \/ KeepOriginals \/ UnlinkOriginals
  \/ \E left \in 1 .. NumOriginals : UnlinkFails(left)
  \/ RecordDeletion \/ RecordDeletionFails

Environment ==
  \/ ConverterAccepts
  \/ \E j \in JobId : \E h \in Hints :
       \/ ConverterFails(j, h)
       \/ \E v \in BOOLEAN : ConverterFinishes(j, h, v)
  \/ \E j \in JobId : Expire(j)
  \/ Crash

Next == Api \/ WorkerStep \/ Webhook \/ Environment

(***************************************************************************)
(* The event loop schedules every ready coroutine, the process is started  *)
(* again after it dies, an HTTP call ends (its timeout is 30 seconds) and  *)
(* time passes.  Nothing makes a local command exit, an operator act or    *)
(* the converter answer.                                                   *)
(***************************************************************************)
Fairness ==
  /\ WF_vars(Start)
  /\ WF_vars(Wake)
  /\ WF_vars(FindNoWork \/ \E j \in JobId : ClaimJob(j))
  /\ WF_vars(HttpAccepted \/ HttpFailed)
  /\ WF_vars(ProcessTimeouts)
  /\ WF_vars(KeepOriginals \/ UnlinkOriginals)
  /\ WF_vars(RecordDeletion)
  /\ \A j \in JobId : WF_vars(Expire(j))

Spec == Init /\ [][Next]_vars
FairSpec == Spec /\ Fairness
=============================================================================
