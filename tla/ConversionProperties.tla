------------------------ MODULE ConversionProperties ------------------------
(***************************************************************************)
(* What must hold of the conversion queue.                                 *)
(***************************************************************************)
EXTENDS ConversionQueue

\* The types of the columns of conversion_jobs.
RowsTypeOK ==
  /\ lastId \in 0 .. MaxJobs
  /\ status \in [JobId -> Status]
  /\ bookOf \in [JobId -> Book \cup {None}]
  /\ attempts \in [JobId -> Nat]
  /\ completedPath \in [JobId -> Book \cup {None}]
  /\ originalsDeleted \in [JobId -> 0 .. NumOriginals]
  /\ overdue \in SUBSET JobId
  /\ retries \in 0 .. MaxRetries
  /\ retried \in SUBSET JobId

\* The types of the two coroutines.
CoroutinesTypeOK == worker \in Worker /\ hook \in Hook

\* The types of what surrounds the table: settings, books, files, converter.
WorldTypeOK ==
  /\ settings \in Settings
  /\ library \in [Book -> {"new", "live", "deleted"}]
  /\ originals \in [Book -> 0 .. NumOriginals]
  /\ fileOwner \in [Book -> Book \cup {None}]
  /\ inbox \in SUBSET JobId
  /\ outputs \in SUBSET Book
  /\ callbacks \in SUBSET Callback
  /\ faults \in 0 .. MaxFaults

\* The type invariant of every variable of the queue.
TypeOK == RowsTypeOK /\ CoroutinesTypeOK /\ WorldTypeOK

(***************************************************************************)
(* Assumption on the library and the hook under which callbacks cannot be  *)
(* attributed to another book: every callback carries a title, and a title *)
(* resembles no other book's title by MatchThreshold or more.              *)
(***************************************************************************)
Distinguishable ==
  /\ \A h \in Hints : "title" \in h
  /\ \A t, b \in Book : Score[t][b] >= MatchThreshold => t = b

\* Only the newest row of a book is queued or running, unless an older one was
\* requeued by retry_job, the one handler that does not look for an active
\* row (enqueue_job, enqueue_for_book and retry_job together).
OlderActiveWasRetried ==
  \A i, j \in JobId :
    (i < j /\ bookOf[i] = bookOf[j] /\ status[j] # "none"
     /\ status[i] \in Active) => i \in retried

\* A row that carries a converted file's path names its own book's file, that
\* file exists, and while the row is there the file is catalogued under the
\* book: the import, the completion and the attribution agree
\* (convertarr_webhook, _match_running_job, _import_converted_file).
CompletedMeansCatalogued ==
  \A j \in JobId :
    completedPath[j] # None =>
      /\ completedPath[j] = bookOf[j]
      /\ bookOf[j] \in outputs
      /\ status[j] # "purged" => fileOwner[bookOf[j]] = bookOf[j]

\* No audio file of a book is deleted unless the converted file of that very
\* book is on disk (delete_originals_for_job: "never delete originals we
\* cannot verify were successfully replaced").
OriginalsReplaced ==
  \A b \in Book : originals[b] < NumOriginals => b \in outputs

\* Originals that are gone are accounted for: originals_deleted of some row
\* of the book has their number, or the request is about to write it, or the
\* book is gone with its rows, or a fault cut the cleanup short.
DeletionsAudited ==
  \A b \in Book :
    originals[b] < NumOriginals =>
      \/ faults > 0
      \/ library[b] = "deleted"
      \/ hook.pc = "audit" /\ bookOf[hook.job] = b
                           /\ hook.removed = NumOriginals
      \/ \E j \in JobId : bookOf[j] = b /\ originalsDeleted[j] = NumOriginals

\* The callbacks, replies, timeouts and API calls move a row only as the
\* lifecycle allows, and settle only rows the worker has claimed.
Lifecycle == INSTANCE JobLifecycle
  WITH phase <- status, claimed <- {j \in JobId : attempts[j] > 0}
ImplementsLifecycle == Lifecycle!Spec

\* A completed row changes its status only when its book is removed, or when
\* it is the row whose own convert call is still in flight: no other handler
\* can undo a completion.
CompletionUndoneOnlyByLateReply ==
  [][\A j \in JobId :
       (status[j] = "completed" /\ status'[j] # "completed")
         => \/ status'[j] = "purged"
            \/ worker.pc = "convert" /\ worker.job = j]_vars

-----------------------------------------------------------------------------
WorkerOff == worker.pc = "off"
CommandHangs == worker.pc = "convert" /\ worker.backend = "command"

\* A queued job does not wait for ever, unless the process runs without a
\* worker, a local command never exits or the operator disables the backend.
QueuedIsServed ==
  \A j \in JobId :
    status[j] = "queued" ~> \/ status[j] # "queued"
                            \/ WorkerOff \/ CommandHangs
                            \/ settings.backend = "disabled"

\* A job does not stay running for ever when its callback is lost or the
\* process crashed under it, unless there is no worker or a local command
\* never exits: process_timeouts reaps it.
RunningIsReaped ==
  \A j \in JobId :
    status[j] = "running" ~> status[j] # "running" \/ WorkerOff \/ CommandHangs
=============================================================================
