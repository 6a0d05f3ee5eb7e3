# Audiarr: TLA+ models, checks and proofs

Audiarr manages an audiobook library: it scans folders, matches books against
Audible and Audnexus, imports files, follows authors and series, searches
indexers for better releases, polls SABnzbd and qBittorrent for finished
downloads, and converts MP3 books to M4B through an external converter.  This
directory holds TLA+ modules translated from the code in `src/app`, the TLC
configurations that check them, and theorems checked by TLAPS.

    tlc -workers 2 -config MCConversionSafety.cfg MCConversionQueue.tla
    tlc -workers 2 -config MCImportSafety.cfg MCImportPipeline.tla
    tlc -workers 2 -config MCWanted.cfg MCWanted.tla
    tlapm ConversionQueueProofs.tla

`PROJECT.json` lists components, runs, mutants, the map from definitions to
source lines, findings, hazards and theorems.

## 1. How the system runs

One process, one asyncio event loop (FastAPI and uvicorn), one SQLite file.

* A coroutine runs until an `await` suspends it.  A handler without a
  suspending await is atomic with respect to every other coroutine, but not
  with respect to a crash.
* Each handler opens its own SQLite connection.  The first INSERT or UPDATE of
  a connection takes the write lock until commit; another writer waits five
  seconds *inside the loop* and then raises `OperationalError`.
* `settings.json` is one document, read afresh wherever it is needed and
  written whole.
* Backups are written in worker threads (`asyncio.to_thread`); that is the only
  threading.
* Background loops started by `lifespan` in `main.py`: conversion worker,
  import scan, SAB/qBittorrent import, metadata refresh, wanted search, backup,
  and a one-shot metadata backfill.

## 2. Inventory

| component | state | operations | interacts with | hard part | what makes it correct |
|---|---|---|---|---|---|
| conversion queue and worker (`conversion/`, `api/routes_conversion.py`) | `conversion_jobs` rows | enqueue, auto-enqueue, retry, cancel, claim, finish, time out | settings, importer, converter, webhook | outcome written after an await to a row others have changed; hanging command; crash after claim | one active row per book, rows follow a life cycle, every row ends |
| conversion webhook and cleanup (`api/routes_webhooks.py`, `delete_originals_for_job`) | `editions`, `library_files`, the audio files | match a callback, import the result, complete, delete originals | converter, hook script in `contrib/` | callbacks lost, late, or matched to another job; unlink error or crash in the middle | originals disappear only once replaced, and the row says so |
| scheduler loops and lifespan (`import_scheduler.py`, `metadata_scheduler.py`, `backup_scheduler.py`, `scheduler_status.py`, `main.py`) | a registry row, stop events | tick, start, stop | all background jobs | an exception from `run_once` ends a loop; a task over its five seconds aborts the rest of the shutdown | the tasks page tells the truth; an orderly end leaves no loop behind |
| import pipeline (`library/importer.py`, `library/import_strategy.py`, `api/routes_import.py`) | books, authors, editions, files, import jobs; the file system | place files, roll back, persist, enqueue, notify | scanner, providers, conversion, pollers | write lock held across awaits; placed files against a failed INSERT; a commit by the callee | no file lost, no row without a file |
| scanner and matcher (`library/scanner.py`, `library/matcher.py`) | none | group files into candidates, score hits | importer, webhook | bounds, ties | determinism, the documented thresholds |
| download pollers (`sab_auto_import.py`) | state row per download | tick, record state, retry | SABnzbd, qBittorrent, importer | a crash between import and state row; an error while recording an error | each download imported once, one bad item does not stop a tick |
| wanted search (`wanted_scheduler.py`, `api/routes_wanted.py`, `api/routes_releases.py`) | `wanted_search_state`, the queues of the download clients | search, grab, record, remove, retry | indexers, SABnzbd, qBittorrent | answer lost after the grab; commit lost after the grab; books and settings change during the await | no second grab of what is known to be under way; only the best acceptable release; a grabbed book is left alone while it is wanted |
| follows (`api/routes_follows.py`) | `follows`, `follow_candidates` | follow, refresh, add, exclude, restore | providers, library | a candidate decided on during the provider's search; a book deleted under its candidate; days passing | future-only; an added candidate names its book |
| reading and import lists (`reading_lists.py`, `reading_list_import.py`, `import_lists.py`) | sources in the settings | import of selections, sync | providers, library | deduplication across an await | no duplicate book |
| settings store (`config.py`, `api/routes_settings.py`) | `settings.json` | load, save, PUT | everyone | a document loaded before an await, or shown on a page, and saved after others; blank secrets on a page; a write cut short | no save undone by an unrelated one; a replaced API key stays replaced; secrets stay |
| migrations (`db.py`) | `schema_version` | migrate | everyone | `executescript` commits each statement before the version row | only a migrated database is served |
| backups (`backup_service.py`) | archives | create, prune | settings, scheduler | two threads choosing one name; pruning by name; errors outside the `try`; a wall clock that is moved | a reported archive is whole |
| organizer (`library/organizer.py`) | `library_files.path`, the files | preview, apply, move back | library, other programs | files moved before paths are updated; a move back that fails; a held lock | a row names its own file; nothing is destroyed |
| metadata backfill (`metadata/backfill.py`) | `books.asin`, `release_date` | batch lookup | providers, library | starvation by unmatched books; overwriting user edits; two batches | candidates keep naming books of their id |
| authentication (`auth.py`) | failures per client | check, record, prune | login route | instant at which an attempt ages out | at most N failures per window |
| quality, release preferences, path mapping, update check | none | pure functions | importer, wanted search | boundaries | agreement with a reference definition |
| library store and API (`library/__init__.py`, `api/routes_library.py`) | all library tables | CRUD | everyone | cascades | as seen by the other components |
| connections, providers, OPDS, calendar, web pages, logging, i18n | none, or a ring buffer | HTTP clients, rendering | | | not state machines |

## 3. Plan

Most important first: the conversion queue and the import are the parts that
delete, move and catalogue the user's audio files; what decides about downloads
and books comes next; then the stores and loops everything else runs on.

| order | module | composes | abstract specification | state |
|---|---|---|---|---|
| 1 | `ConversionQueue` | API, importer, worker, webhook, cleanup, converter | `JobLifecycle` | checked, safety proved |
| 2 | `ImportPipeline` | placement, write lock, scan, API, pollers of downloads | `DownloadLedger` | checked, safety proved |
| 3 | `WantedSearch` over `Quality` | scheduler, a user's grabs, download clients, settings | | checked and proved |
| 4 | `Catalogue`, composed with `Follows`, `ReadingLists`, `MetadataBackfill` in `CatalogueProperties` | user, imports, lists, two batches | | checked and proved |
| 5 | `Organizer` | apply, edits, root folders, a held lock, other programs | | checked and proved |
| 6 | `SettingsStore` | page, recorders, update check, list sync | | checked and proved |
| 7 | `BackgroundTasks` over `Backups` | lifespan, loops, registry, migrations, backup threads | | checked and proved |

Runs: one passing safety run per group of components and, where something must
eventually happen, one liveness run; bounds of two of everything that competes
(books, jobs, downloads, ticks), and as many faults as one disturbance needs to
meet another.  Every invariant and every action property of the passing runs has
a theorem; the liveness properties stay with TLC (section 7).  Further work: the
ignore list and several roots in the import, two requests of an operator at the
same time.

## 4. What is modelled

`ConversionQueue.tla` — the queue and everything that touches it.

| model | code |
|---|---|
| `status`, `bookOf`, `attempts`, `completedPath`, `originalsDeleted` | columns of `conversion_jobs`; `"none"` before the INSERT, `"purged"` after the foreign key removed the row |
| `lastId` | the AUTOINCREMENT counter |
| `overdue` | rows whose `updated_at` is older than `job_timeout_hours` |
| `worker` | the coroutine `worker_loop`: `"off"` when the process started with conversion disabled, `"poll"` / `"timeouts"` at the head of its two calls, `"convert"` inside `await backend.convert`, with the row and the backend it holds |
| `hook` | `convertarr_webhook` between the commit of a completion and the end of the request |
| `originals`, `fileOwner` | the files of a book's source folder, and the `library_files` row of a converted file |
| `inbox`, `outputs`, `callbacks` | the external converter: accepted requests, files written, callbacks under way |
| `settings`, `library` | backend and delete_originals; books not yet imported, live, deleted |
| `EnqueueJob`, `RetryJob`, `CancelJob`, `RemoveBook`, `PutSettings`, `ImportBook` | the handlers, and an import with `_maybe_enqueue_conversion` |
| `Start`, `Wake`, `FindNoWork`, `ClaimJob`, `HttpAccepted`, `HttpFailed`, `CommandExited`, `ProcessTimeouts`, `TickFails` | `lifespan`, `worker_loop`, `process_one_job`, the backends, `process_timeouts` |
| `WebhookCompleted`, `WebhookFailed`, `CallbackLost`, `KeepOriginals`, `UnlinkOriginals`, `UnlinkFails`, `RecordDeletion`, `RecordDeletionFails` | the webhook and `delete_originals_for_job` |
| `ConverterAccepts`, `ConverterFinishes`, `ConverterFails`, `Expire`, `Crash` | the environment |

*Atomicity.*  A handler without a suspending await is one action.  `LoopFree`
says that no coroutine is between two awaits; every handler requires it.  The
worker's path from the end of `convert` through `process_timeouts` to the next
claim never suspends, so its steps exclude the handlers, but a crash can fall
between them, because each commits on its own.

*Data.*  A path is the book whose file it names; a title is the book it
belongs to, and `Score` is the result of `SequenceMatcher.ratio` in percent.
`Hints` are the fields a callback carries: the script in `contrib/` sends a
title and no id, another caller may send an id.  `visible` is whether the
converter's path exists under the same name in Audiarr's mounts.  `InPlace` is
the set of books whose converted file is written into the source folder, where
`rglob("*")` deletes it along with the originals.

*Simplifications.*  The `source_path` of an enqueue request is taken to be the
folder of its book.  `process_timeouts` commits row by row; a pass cut short
looks like a pass before the other rows expired, so it is one action.  The
list, status and health endpoints only read.  `complete_job_from_webhook` has
no caller.  `notify_library_changed` writes nothing here.  The import is
reduced to the commit of the book and the offer to the queue; its own
transaction belongs to `ImportPipeline` of the plan.  The edition row inserted
with a converted file is not kept: nothing here reads it.  The converter works
through its inbox one request at a time and waits for its hook script, as the
comment in `worker.py` says, so one callback is under way at most.

`JobLifecycle.tla` — the promise to whoever reads the table: the arrows along
which one row may move, and that no outcome precedes a claim.

`ConversionProperties.tla` — the properties.  `MCConversionQueue.tla` — values
of the constants for TLC.  `ConversionQueueProofs.tla` — the theorems.

`ImportPipeline.tla` — an import and its three callers.

| model | code |
|---|---|
| `disk` | the audio files of a folder `<<name, place>>`: `"home"` is root/name, where `resolve_target_path` puts a file, `"away"` another folder beneath the root, `"outside"` a folder beneath no root; the content of a file is the place it came from, or `"torn"` |
| `db`, `tx`, `lock` | the committed SQLite database, what the holder of the write lock sees, and who holds it |
| `books`, `catalog`, `ledger`, `problems` in a store | rows of `books` with their `provider_ids`; paths in `library_files`; `sab_import_state` and `download_client_import_state`; folders whose newest `import_jobs` row says "unmatched" |
| `task[a]` | the coroutine of the scan, the API or the poller: where it is, the candidates of its run, the one in hand, the files left and placed, the downloads of its tick |
| `StartRun`, `StartMatch`, `StartTick` | `ImportScheduler.run_once` and `POST /run`; `POST /match`; `SabAutoImportScheduler.run_once` |
| `ListEnds`, `Listed`, `PickItem`, `PathMissing`, `PathOutside`, `TakeByAsin`, `TakeByRun` | `_process_sab`, `_import_qbittorrent`, `_process_item`, `_process_qb_item`, `_import_folder` |
| `NextCandidate`, `RunEnds`, `Rescanned` | the loop of `run_import`, `_persist_import_jobs`, `notify_library_changed` |
| `NoMatch`, `AsinUnknown`, `LookupRaises`, `Duplicate`, `Matched` | the search or lookup and the duplicate check of `_import_one` and `import_single_folder` |
| `PlaceBlocked`, `PlaceFile`, `PlaceBreaks`, `UndoFile`, `UndoBreaks`, `PlacementFails` | `place_candidate_files`, file by file, and its rollback |
| `PersistBook`, `RecordFile`, `Offer`, `Dispatched` | `_persist_book`, `_persist_files` with ffprobe, `_maybe_enqueue_conversion`, `dispatch_event` |
| `Raise`, `Return`, `Settle` | what each caller does with an exception or a result: the scan commits a result only, the API commits in its `finally`, the poller records a state row or rolls back and records the failure |
| `Crash` | the process dies; SQLite drops what was uncommitted, the disk stays as it is |

*The write lock.*  The pipeline inserts a book and then awaits `ffprobe` for
each file, the webhook dispatch and the rescan, with its transaction open.
Another caller that writes meanwhile waits *inside the loop*, which keeps the
holder from going on, so its wait always ends in `OperationalError`:
`CanWrite` is the condition, and each write has its error path.

*Atomicity.*  `LoopFree` again: only one coroutine is between two awaits, and
the steps from one await to the next are separate actions, so that a crash or a
disk error can fall between two files, or between the files and the book.

*Simplifications.*  One root folder.  The strategy of a folder is chosen when
its files are placed; within one placement it is fixed.  `scan_folder` sorts
its candidates, the model takes them in any order.  A folder further down than
a child of the root is never returned by a scan (`_walk_sorted` drops it before
the walk reaches it), but a poller that names it scans its parent.  Rows for
files beneath no root carry a path relative to the folder that was scanned;
they are told apart by `"relative"`.  The API is one coroutine: two requests of
an operator at the same time are not modelled.  The other components that
write the database between two awaits of an import (library edits, wanted
search, conversion worker) are not callers here; they would meet the same lock.

`DownloadLedger.tla` — the promise about a finished download: settled once,
only a torrent is tried again, "imported" only with its book in the library.

`ImportProperties.tla` — the properties, and what the repository says and the
code does not keep.  `MCImportPipeline.tla` — values of the constants.
`ImportPipelineProofs.tla`, `ImportSafetyProofs.tla` — the theorems.

`WantedSearch.tla`, `Quality.tla` — the search for better releases.

| model | code |
|---|---|
| `rows` | `wanted_search_state`: status and the job a "grabbed" row names |
| `books`, `settings` | monitored books with the names of their files; which of the documents of `Settings` is saved |
| `jobs` | the download clients: per job its book, release, who handed it over, and what became of it; a history of all jobs |
| `task["tick"]`, `task["user"]` | the scheduler's tick and a request: the set of books left, taken in the order of their ids, the document it loaded, the releases offered, and which await it is at: the search, the fetch of the NZB, the download client |
| `TickStarts`, `TickSearched`, `GrabAnswered`, `GrabFailed`, `TickErrs`, `RecordFails` | `_process_all`, each path with its own row and commit; a row that cannot be written (a held lock) ends the tick |
| `search_cutoff_upgrade`, `search_releases`, `grab_release`, `UserDone`, `UserFails` | `POST /wanted/cutoff/{id}/search`, `/releases/search`, `/releases/grab` |
| `search`, `download_nzb`, `add_nzb`, `add_url` | the answers of Prowlarr and of the clients; a client may take a job and its answer be lost |
| `activity_queue_remove`, `activity_history_remove`, `activity_history_retry`, `DownloadEnds`, `_import_one` | what ends a job; `_import_one` of `importer.py` skips the download of a book in the library as a duplicate, or makes another book of it: the book it was grabbed for gains no file |
| `convertarr_webhook`, `apply_preview`, `put_settings`, `set_monitored`, `delete_book` | what changes the names of a book's files, or what is wanted |
| `evaluate_quality_for_profile`, `score_release`, `find_fitting_release`, `list_cutoff_candidates` | the same functions of `quality.py`, `release_preferences.py`, `routes_wanted.py`, over names reduced to the signals they carry |

`WantedProperties.tla` — the properties.  `WantedSearchProofs.tla` — the
theorems.

`Catalogue.tla`, `Follows.tla`, `ReadingLists.tla`, `MetadataBackfill.tla` — how
books come into the library, composed in `CatalogueProperties.tla`.

| model | code |
|---|---|
| `library` | `books` (ASIN, date, who made it: a history), `provider_ids`, whose rows outlive their book, and the AUTOINCREMENT counter |
| `follows`, `candidates`, `today` | `follows`, `follow_candidates`, the date |
| `batch`, `backfill` | a request that imports selections, and the two runners of a backfill, at their awaits |
| `post_book`, `patch_book`, `refresh_book`, `import_book`, `sync_source`, `sync_liberatarr` | the handlers; `post_book` says what it found in `answer` |
| `refresh_follow`, `add_candidates`, `exclude_candidates`, `restore_candidates`, `list_candidates`, ... | the handlers of `routes_follows.py`, each with `_reconcile_added` where the code calls it |
| `Confirmed`, `NotCreated` | `_import_one` of `reading_list_import.py` after its lookup |
| `LookedUp`, `LookupFails` | one book of a batch in `run_backfill_batch` |

A title and an author are not kept: whether two results are the same book is
decided by provider, id and ASIN alone, as the code does (`find_existing_book`
of `reading_list_import.py` looks the ids up in `provider_ids`, then among the
ASINs).  What one request adds is a set of books, numbered onward from
the counter in every order: no property depends on which of them comes first.
`create_book` is the only way into the library.  A refresh decides on each
candidate by its own id, so it leaves one function of candidates, whatever the
order.  The selections of an import are taken in their order, as each has its
own await.

`CatalogueProofs.tla` — the theorems.

`Organizer.tla` — preview and apply.

| model | code |
|---|---|
| `books`, `files`, `roots`, `rename_files` | titles and preferred roots; `library_files.path`; `root_folders`; the setting |
| `disk` | which file lies at which path; `Torn` a copy cut short, `Other` a stranger's file |
| `work` | the apply under way: the move of each file, which files are moved, moving or rolling back |
| `locked` | an import's open transaction, which makes the update of the paths fail |
| `build_preview`, `post_organize_apply`, `Move`, `MoveFails`, `RollBack`, `RollBackFails`, `PathsUpdated`, `UpdateFails` | `build_preview` and `apply_preview` |
| `OtherRemoves`, `OtherLeaves`, `Crash` | the surroundings |

The apply runs in one handler without an await, so no request interleaves with
it; its steps are apart because a crash or another program may come in between.
`disk` records files and no directories; a pattern is a list of the variables it
names, a name is the class of strings that are cleaned to one, `Links` are names
that resolve to a place outside the root.

`OrganizerProperties.tla` — the properties.  `OrganizerProofs.tla` — the
theorems.

`SettingsStore.tla` — `settings.json`.

| model | code |
|---|---|
| `file`, `pending`, `cut` | what is on disk, the document a save is about to write, whether a write was cut short |
| `kept` | the document a coroutine loaded before its await: the update check or a Liberatarr sync |
| `form[page]` | what each open settings page was shown: the answer of its last GET |
| `keys` | how many API keys were drawn; a key is its number, 0 is none |
| `put_settings`, `Preserved`, `Match` | PUT with the stored secrets put back for blank ones, by name, or when a single client is renamed; the API key is the one in the request |
| `regenerateApiKey` | the page's button (`settings.js:1159`): the same PUT with a newly drawn key |
| `RecordScan`, `RecordRefresh`, `RecordSearch`, `RecordDelivery`, `RecordSource` | load, change, save without an await between: schedulers, webhooks, reading lists |

A document keeps one field per group of fields that are saved together:
`choice` counts what a user saved, `source` is a reading-list source, `key` the
API key, `clients` the download clients with their secrets.

`SettingsProperties.tla` — the properties.  `SettingsStoreProofs.tla` — the
theorems.

`BackgroundTasks.tla`, `Backups.tla` — the process.

| model | code |
|---|---|
| `proc`, `applied`, `recorded`, `ran` | the process; per script the statements the database has, the scripts with a version row, and the statements this start has run of the next one |
| `loop[t]`, `registry[t]`, `stopSet`, `turn` | `scheduler_loop` of a task with what is left of its `wait_for` (monotonic time), its row in `SchedulerRegistry` (wall-clock time), the stop events set, which task the shutdown waits for |
| `thread[w]`, `archives` | `create_backup` of the scheduled and of a manual run in their threads; the folder |
| `now`, `lost`, `ClockTicks`, `ClockJumps` | the wall clock, and how far it was set back (negative: forward); only a tick takes from the waits of the loops |
| `MigrationStatement`, `MigrationFails`, `MigrationRecord`, `StartLoops`, `RunStarted`, `RunFinished`, `RunRaises`, `StopSeen` | `migrate`, `lifespan`, `scheduler_loop` |
| `SetStopEvent`, `LoopGone`, `LoopHadRaised`, `LoopTimesOut` | the tail of `lifespan`: set, `wait_for` five seconds, next |
| `Choose`, `Open`, `Close`, `Prune`, `Stat` and their failures | `create_backup` and `_prune_backups`: a failure inside the `try` is a `BackupError` (`"failed"`), one before it, in its handler or after it an `OSError` (`"raised"`, or `"vanished"` for the archive that is gone) |

A statement of a script is applied or not; `Repeatable` are the scripts whose
statements may be run again (`IF NOT EXISTS`, idempotent updates: 001, 005, 009,
010, 011, 013, 016, 017); any statement, and the insertion of the version row,
may fail.

The properties are stated in the two modules.  `BackgroundTasksProofs.tla` — the
theorems.

Variables such as `told`, `excused` and `appeared` are histories: the
properties read them, no action of the model does.

Definitions whose comment starts with "Mutant of" are altered versions of the
definition that follows: substituted for it, each makes one property fail.

## 5. Runs

| run | instance | asks | result |
|---|---|---|---|
| `conversion_safety` | 2 books with distinct titles, 2 rows, folders of 2 files, either backend, 1 retry, 1 fault | type invariant; one active row per book unless retried; a completed row's file is its own book's and catalogued; originals are deleted only once replaced; deletions are recorded; only the late answer to a row's own call can undo its completion; `JobLifecycle` is implemented | holds, 1.3 million states |
| `conversion_liveness` | 1 book, 2 rows, 1 retry, 1 fault | a queued row leaves the queue and a running row ends | holds, with the exceptions named in the property |
| `conversion_series` | 2 books with similar titles | originals deleted only once replaced (`worker.py:245`) | violated: the callback of one volume completes the job of another, whose originals go |
| `import_safety` | an API import and the poller; a nested folder, which is a torrent, and a library folder of 2 files each, both with the same book for a search, 2 identities, `move`, 2 faults | type invariant; no identity imported twice; an intact copy of every audio file is left; committed rows name files; `DownloadLedger` is implemented | holds, 1.6 million states |
| `import_callers` | all three callers, 1 folder, 2 identities, 2 SABnzbd downloads, one of them beneath no root | only the API commits an unfinished book; the write lock is always released; downloads are settled unless the poller's loop has ended; `DownloadLedger` for SABnzbd | holds, 14 thousand states |
| `import_torn` | API and scan, loose files in the root, 1 fault | "All-or-nothing per candidate" (`import_strategy.py:171`) | violated: the file whose copy failed is not in `done`, stays in the library folder and is catalogued by the next scan |
| `wanted` | 2 books below the cutoffs of 2 profiles, 4 releases (a blocked term, a torrent, a bitrate out of every band), paths of 2 tiers for the files, 2 jobs, 2 requests, failures or crashes | no second grab of what the scheduler was told is under way; a row "grabbed" names a job of its book; what is grabbed is the best acceptable offer; a book whose row is "grabbed" is left alone until it is no longer wanted | holds, 756 thousand states |
| `catalogue` | 2 books ever, 2 ids known to 2 providers, 1 follow, 2 dates, 4 writing requests | no second book of an id; a book made by itself comes from a candidate that is, or was recorded and left as, "future"; an added candidate names a book of its id but for one named case | holds, 459 thousand states |
| `catalogue_conflict` | the same | "already exists" (`routes_library.py:563`, `reading_list_import.py:445`) | violated: `provider_ids` rows outlive their book |
| `organizer` | 2 books, 5 files, 2 roots, 2 patterns, titles that are cleaned to one folder, a symbolic link, 4 requests or faults | between requests rows name their own files unless a named fault came in between; no file is destroyed | holds, 198 thousand states |
| `settings` | 2 pages, 2 saves or regenerations of the key, 2 client names, 1 cut write or restart | saves are undone only by a coroutine that kept an old document; a key is replaced only by a new one, and comes back only from a page or a coroutine that loaded it before; secrets are kept | holds, 2.7 million states |
| `background` | 2 loops, one of them the backup, 2 backups at a time, 1 archive kept, 2 migrations of 1 and 2 statements, the first repeatable, 2 starts, 2 seconds of wall clock moved once | the registry agrees with the loops, its due times off by what the clock was moved; only a migrated database is served; an orderly end leaves no loop; no `BackupError` ends the backup loop; a reported backup is whole | holds, 870 thousand states |

Between them the passing runs fire every action and disjunct of the next-state
relations.

*Exceptions in the liveness properties*, each the code's own behaviour: without
a backend at start there is no worker until the next start; a local command has
no time limit; a disabled backend leaves queued rows alone (but running rows
are still reaped); a download is not settled once the loop of the poller has
ended, which a held write lock brings about (section 6).

*Bounds and why they suffice.*  Two books are the least for a callback to be
attributed to the wrong one, two rows the least for an old and a new row of a
book to compete or for a late answer to race a newer claim; two files make a
partial unlink different from none and from all.  One retry and one fault are
enough for each single disturbance at every point.  A second row for either
book and a switch of the settings remain possible at every step.  Only the
safety run leaves out the disabled backend, to stay small: disabling conversion
removes steps of the worker and the API and adds none, the other two runs
include it, and the theorems cover every set of settings.
`SYMMETRY` permutes the books in the safety run: distinct titles treat them
alike, and the properties of that run are safety properties.  The liveness run uses
no symmetry.

For the import: two folders are the least for one caller to move what another
has scanned, or for a run to import a folder the poller was given; two files
make a placement that fails halfway different from none and all; a torrent
in one run and SABnzbd items in the other meet either handler; the second of two
faults is what breaks the rollback of a placement the first has broken.  `move`
is the only strategy that takes a file away, so the safety run uses it; the
theorems cover every set of strategies.  The safety run has the API and the poller, whose error
paths differ most; the scan, whose only difference is to commit nothing on an
error, joins in `import_callers`.  The scan (interval 0) and the poller
(`sab_auto_import_enabled`) are off until an operator switches them on, hence
`Callers`.

For the other groups: two books are the least for one book's release, row or
candidate to be taken for another's; two jobs the least for a repeated grab, and
two events the least for a lost answer to meet a failure or a change of the
settings.  Four requests make a book, its deletion, a second book and a
refresh between them possible.  Lookups of lists, the day and the creation of
the follow are not counted, as each can happen once or changes nothing.  Five
files give a book whose apply fails in the middle of three moves and another
whose names collide; four events let a torn copy meet a failing move back and a
later apply.  Two starts are the least for a cut migration to be met again; two
threads and one archive kept the least for one backup to prune the other's; two
seconds let the clock go back behind an archive, or a backup take the next free
name.  Two pages are the least for one to save what it was shown before the
other replaced the key; a key is drawn per start and per regeneration.

*Fairness.*  Weak fairness on each worker step, on the cleanup and on `Expire`:
the event loop schedules a ready coroutine, `httpx` ends a call after 30
seconds, the supervisor restarts the process, time passes.  No fairness on
`CommandExited`, on operators, on the converter or on delivery of callbacks:
nothing in the code makes them happen.

For the import: strong fairness on the steps of each caller.  A step is
disabled while another coroutine is between two awaits, again and again, so
weak fairness would say nothing; the event loop takes turns and does resume a
coroutine whose await is over.  Every await is over some time, as providers,
`ffprobe`, webhooks and the rescan have timeouts.  Strong fairness on the ticks
and steps of the poller, whose loop comes round after each interval.  None on
the start of a scan, on operators, or on faults.

The other modules state safety only, so they assume no fairness.

## 6. Findings

Three runs refute what the repository says; `PROJECT.json` has them in detail.

* `conversion_series`: a callback is attributed by a title that is 0.5 similar;
  for volumes of a series the originals of the wrong book are deleted.
* `import_torn`: the target of a copy that failed is not rolled back and is
  catalogued by the next scan.
* `catalogue_conflict`: a deleted book cannot be added or imported again; it is
  said to exist.

The models show more of it, which the exceptions named in the properties and
their comments keep:

* *Conversion.*  `retry_job` requeues an old row next to an active one
  (`routes_conversion.py:135`, against line 99).  The late answer of a convert
  call overwrites a completion (`worker.py:108`).  A local command that never
  exits keeps `process_timeouts` from running (`settings.py:475`).
* *Import.*  A write lock held across an await makes the poller's write fail,
  and the handler's too, so that its loop ends (`sab_auto_import.py:267`,
  `import_scheduler.py:150`, against `sab_auto_import.py:262`).  A scan without a
  hit puts a folder matched by hand back on the list of unmatched ones
  (`importer.py:620`, `routes_import.py:181`).
* *Wanted search.*  A best release that is a torrent is treated as an NZB on each
  tick, although a usenet release would fit (`routes_wanted.py:334`): a magnet
  link yields nothing, the body of a .torrent goes to SABnzbd.  A grabbed upgrade
  never reaches its book: the importer skips a download of a book in the library
  as a duplicate (`importer.py:243-253`), so the row stays "grabbed" for as long
  as the book is below its cutoff, against `wanted_scheduler.py:15-19`.  Nor
  does a download that failed or was removed free the book.  `HeldWhileWanted`
  states just this: only a conversion, another profile, another path or a
  deletion ends the hold.  A lost answer of the
  client, or a crash before the commit, leads to a second grab.  A manual search
  neither reads nor writes `wanted_search_state`.  The release grabbed need not
  reach the cutoff, only be acceptable (against `routes_wanted.py:387`).
* *Catalogue.*  A book from the past is made by itself of a candidate with a stale
  status "future", against `016_follows.sql:3`, on two routes.  The candidate is
  left "future" while the library has its book, and that book is deleted after
  its day.  Or the user deletes the book that a refresh made of the candidate,
  `list_candidates` sets it back to "future" without making another
  (`routes_follows.py:183-186`), the day passes, and a refresh without that hit,
  or restoring any candidate, makes it (`:260`, `:527`).  `catalogue` reaches
  both.  A future book a user deletes is made again by the next
  refresh.  A backfill takes the first hit as it comes: a wrong ASIN makes
  another book "owned"; two batches overwrite each other's ASIN, and what a user
  enters during the await (`backfill.py:114`).  Books without a hit stay at the
  head of the batch and starve the rest (`backfill.py:45`).  The same ASIN at two
  providers is a duplicate for reading lists only.
* *Organizer.*  An `UPDATE` that fails after the moves (a held lock, or the path
  of a stale row) leaves rows that name no file, or another book's.  A torn
  copy at a target makes every later preview a conflict.  A root folder in use
  cannot be deleted: the foreign key raises.
* *Settings.*  The update check and a Liberatarr sync save a document loaded
  before their request, so that what a user saved meanwhile is undone, an API
  key that was regenerated included; so does a page that was open before.  The
  old key is valid again, against `settings.js:1159` ("invalidates sessions + API
  clients").  A write
  cut short leaves a torn file: the next start takes the defaults and draws a
  new key.
* *Process.*  A loop that has raised, or a tick longer than five seconds, ends
  the shutdown early, and the loops after it are not stopped.  `create_backup`
  says it raises `BackupError` on any failure (`backup_service.py:71`), but an
  `OSError` of the calls before the `try` (74, 82), in its handler (124-125) or
  after it (128-129, 153-160) is none: it ends the backup loop, an archive pruned
  before it was looked at among them.  Two backups that choose one name write
  one archive, against lines 79-81 ("never overwrite an existing archive").  The
  loops wait on the monotonic clock (`import_scheduler.py:144,154`), the tasks
  page shows wall-clock times (`scheduler_status.py:68-69,84-92`): after that
  clock is moved the due times are off by the same amount until the next tick.
  A migration cut, or failing, between two statements or before the version row
  makes later starts fail, unless the script is repeatable.

## 7. Proofs

TLAPS checks the following for every number of books, rows, files, retries and
faults, every table of scores and every set of hints, and for the import for
every set of folders, identities, downloads and strategies, under the named
assumptions of each module on its constants.

* `WellFormedAlways`, `TypeCorrect`: the inductive invariant `WellFormed` adds
  to the types that exactly the rows up to `lastId` exist, that existing rows
  have a book, and that rows held by worker, webhook or converter exist and
  were claimed.  Types alone are not inductive: the webhook's
  step needs that a running row has a book.
* `OneActiveUnlessRetried`: from `WellFormed`, as a new row gets the highest id
  only when no row of its book is active, and only a retry reactivates.
* `CompletionsCatalogued`, `OriginalsNeverLost`: under `Distinguishable` (every
  callback carries a title, and no title resembles another book's by the
  threshold) and `InPlace = {}`.  The strengthening says that a
  callback under way names a file that exists and carries the title of that
  file's book, so the match returns a row of the same book.  `conversion_series`
  shows that the first assumption is needed; `InPlace = {}` is needed because
  `rglob` deletes a converted file that lies in the source folder.
* `DeletionsAlwaysAudited`: the strengthening `AuditOnce` says that the row
  whose deletion is about to be recorded has no recorded number yet, so the
  UPDATE never overwrites the number of an earlier cleanup.
* `CompletionsUndoneOnlyLate`: an action property, action by action.
* `QueueImplementsLifecycle`: refinement with `phase <- status` and
  `claimed <- {j : attempts[j] > 0}`; every step maps to a step of
  `JobLifecycle` or to a stutter.

For the import pipeline:

* `TypeCorrect` (of `ImportPipelineProofs`): types are not inductive by
  themselves.  `Inv` adds that at most one coroutine is between two awaits
  (`OneRunning`), that a task in hand has a folder, an identity or a download
  where its next step needs one (`TasksTyped`), and that a caller whose rows are
  incomplete holds the lock (`LockKept`).  `NextMoves` reduces `Next` to a crash
  or a move of one caller, so that the invariant is proved once per kind of
  move.
* `OneBookAlways`: from the duplicate check to the insertion no coroutine
  yields, and an insertion needs the lock; with the lock free the committed
  books are all there are.  `HandledIsNew` says that the identity in hand is not
  in the library its caller sees until then.
* `HalvesOnlyByApi`: an action property; a poller or scan in the middle of
  recording files leaves by a rollback.
* `AudioNeverLost`: the strengthening `DoneReturnable` says of the files placed
  so far that after a move the old place is free and otherwise holds the same
  as the target, so that undoing them, in whatever order and however far,
  loses nothing.
* `RowsAlwaysNameFiles`: that a row names a file is not inductive, as a caller
  may record files it saw long before, and another may undo a placement in the
  same folder.  `RowsInv` adds which files are `Kept` (there, and not among those
  a placement may still take back), and that every file a caller saw in its
  scan, and is going to record, is kept (`ScanHolds`): a placement blocked by a
  file never counts it as its own, and between a match and the last row of a
  candidate nobody else runs.
* `LedgerRefined`: refinement of `DownloadLedger`.  `LedgerInv` says that state
  rows are never left uncommitted across a step, that the library the writer
  sees contains the committed one, and that the poller is sound (`PollSound`):
  the download in hand is not settled, and whatever its run counts as imported
  has a book in the library it sees.  A step either carries the tables over,
  drops what is uncommitted, settles one download, inserts a book or writes
  paths only; each of them is a step of the ledger or a stutter.

The frame lemmas (`RowsWrittenBy`, `CoroutinesMovedBy`, `WorldWrittenBy`) state
once which actions write which variables, so that each invariant is proved only
for the actions that can disturb it.

For the background tasks (`BackgroundTasksProofs`), for every list of tasks, any
number of scripts and statements, whichever of them are repeatable, any number
of archives to keep and of seconds:

* `TypeCorrect`, `RegistryAlwaysTruthful`, `AlwaysServedOnMigrated`,
  `AlwaysOrderlyEnd`, `BackupLoopDiesOnlySo`, `ReportedAlwaysWhole`: one
  invariant, `Inv`.  `RegistryTruthful` is inductive with the types: a step
  writes the row where it moves the loop, a second goes to the wall clock and off
  every wait, and a move of the wall clock alone is what `lost` counts
  (`ClockSums`).  `MigrationInv` says that scripts with a version row are
  complete and later ones untouched, and that a script further on than this
  start has run it was begun by an earlier one.  `ShutdownInv` says that the
  loops whose turn is over have ended.  `ThreadsInv` says what a backup at each
  step has in the folder: whose name nobody shares, its own archive or none
  (`Own`); alone, and under the last name, the newest archive (`Latest`), so that
  pruning spares it.  `BackupLoopInv` ties the death of the loop to what its
  thread raised.

For the settings (`SettingsStoreProofs`), for every set of client names and of
pages and any number of saves, crashes and failed writes:

* `TypeCorrect`, `ReplacedKeyAlwaysStaysReplaced`, `ChoicesAlwaysKept`:
  `WritesInv` says that a torn file means a write in progress or a cut one,
  `KeysInv` that whatever was loaded holds a key, so that no save empties it and
  no start draws another, `KeysDrawn` bounds the keys, `ChoicesInv` says that no
  document is newer than the last save.  `Moves` reduces the recorders to one
  kind of step, a save of the document as it is but for its source.
* `SecretsAlwaysKept`: an action property of the PUT.  Of the two passes of
  `Match`, the first pairs clients by name, so with distinct names it pairs no
  two with one stored client; the second pairs what is left only when it is one
  on either side.  Hence a stored secret is dropped only for one that was
  entered, or with its client.

For the wanted search (`WantedSearchProofs`), for every set of books, names,
settings and offers and any number of jobs, failures and crashes:

* `TypeCorrect`, `GrabbedAlwaysTaken`, `NeverRepeated`: one invariant, `Inv`.
  `Working` says that the book a tick has in hand is not one that is held back:
  the tick skips grabbed rows when it moves on, and no other path marks a row.
  `Taken` says that the number the client answered is that of a job of this
  book and this tick, also while other jobs come and go during the await.
  `ToldHeld` says that every job the scheduler was told of still holds its book
  back; so a second release would need a book that is both in hand and held.
  Which release is chosen plays no part in these three.
* `AlwaysGrabsTheBest`: a second invariant, `Found`, says that between the search
  and the fetch the tick holds the release `find_fitting_release` found in what
  it was offered, under a document that has profiles (`IsPicked`); the settings
  may change meanwhile.  The lemmas `PrecedesIsAnOrder` and `SomeComesFirst` say
  that the offers are totally ordered by tier, score and place, and
  `BestIsFound` that the first of them is what the function returns.
* `AlwaysHeldWhileWanted`: from `Inv`: a row says "grabbed" only of a book the
  tick has not in hand (`Working`), so no path of the tick but its start writes
  it, and the start keeps the rows of all candidates.

  Two assumptions say what names and documents are: `Signals` judges every name
  of a file or a release, tiers and preferences are lists, each definition has a
  container (`models/settings.py:107`), preferences have whole scores.
  `AlwaysGrabsTheBest` needs the last, as scores are compared.  That a sum of
  them is a whole number is induction over data, done by hand (`SumIsWhole`): if
  the sums did not exist for sets of every size, there would be a least size
  (numbers are well-founded) and the sums of the next smaller size would
  give those of this one.

For the catalogue (`CatalogueProofs`), for every set of providers, ids, regions,
dates, follows and selections and any number of books and requests:

* `TypeCorrect`, `NoDuplicates`, `OnlyAsFuture`, `AddedNamesOwnBook`: one invariant,
  `Inv`, and three action properties.  `LibraryTyped` says that books and rows of
  `provider_ids` have numbers below the counter, so a new book has neither rows
  nor candidates of an older one.  `FollowsTyped` says that a candidate names a
  living book only once it is added, and `BatchTyped` that an import of
  selections is under way exactly while some are left.  `Sound` puts the
  invariant and the three properties of one step together and is proved per
  handler.  A request that reads, reconciles and classifies its candidates
  before it writes them is followed by `Drawn`: at every stage the book a
  candidate names owns its id or was named before, and it is waiting for its
  day or was left waiting before.

For the organizer (`OrganizerProofs`), for every set of books, files, root
folders and patterns, every way names are cleaned and any number of faults; of
the constants only that the paths of the rows are unique at the start:

* `TypeCorrect`, `RowsAlwaysNameOwnFile`, `NothingEverDestroyed`: one invariant,
  `Inv`.  `Apart` says that no two places an apply moves from and to are the
  same: for the sources because paths are unique, for the targets because the
  preview makes every collision a conflict, between them because a target did
  not exist and a source did.  `Clear` says that nothing lies where the next
  move or move back goes but what other programs left since the preview, hence
  nothing is overwritten.  `Owned` follows each file from its row's path to its
  target and back, and `Strange` keeps the targets apart from the files of all
  other rows, so that the update of the paths keeps them unique.

Only model-checked: the four liveness properties (`QueuedIsServed`,
`RunningIsReaped`, `LockReleased`, `DownloadsSettled`), as TLAPS has no proof rule
here for fairness and ENABLED, and the three counterexamples, which are
behaviours of their instances.

## 8. Not modelled

Everything marked `not_modelled` in `PROJECT.json`: authentication (tokens and
passwords are cryptography, the limiter of logins is synchronous code over one
list), and parts without behaviour of their own (HTTP clients, parsers of
remote answers, rendering, logging, translation).

Of the conversion component: the wording of errors, the API's authentication,
the duration of waits, the contents of audio files.  Of the import pipeline: the
ignore list, the dry run, several root folders, the removal of a book, category
filters, path mapping, torrents whose path is a single file or not absolute, and
the chapters, durations and metadata recorded with a file.  Of the wanted
search: the lists of missing books and of cutoffs as pages, category filters,
and downloads the user starts outside Audiarr.  Of the catalogue: titles,
authors, series, tags, covers and editions, the parsing of feeds and CSV files,
previews.  Of the organizer: directories, and the characters of names.  Of the
background tasks: the bodies of the ticks other than the backup, which are the
other modules' actions, and the conversion worker, which is in
`ConversionQueue`.
