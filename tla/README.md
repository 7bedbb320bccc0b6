# Verification of SD Image Sorter

SD Image Sorter is a local application: a FastAPI server (`src/backend`) over an SQLite
library of pictures, with web pages in front of it, models that run on the GPU, and long
jobs that move, tag, export and delete files. This directory holds TLA+ models of the
parts of the server where requests, background workers, other processes and crashes
meet, the TLC runs that check them, and TLAPS proofs of the most important results. The
models are written from the code under `src/`; where a document, comment or test of the
repository says something the code does not do, a run shows the difference (see
*Findings*).

1. [The system](#1-the-system)
2. [Modules and how they correspond to the code](#2-modules-and-how-they-correspond-to-the-code)
3. [Runs](#3-runs)
4. [Findings](#4-findings)
5. [Fairness](#5-fairness)
6. [Proofs](#6-proofs)
7. [What is abstracted or left out](#7-what-is-abstracted-or-left-out)
8. [Plan](#8-plan)

## 1. The system

### How it runs

One server process. `async def` routes run one at a time on the event loop; `def` routes
run on pool threads beside it; `BackgroundTasks` run after the answer was sent, on pool
threads or on threads of their own. Services are singletons in memory with a lock each.
A few of them have a file that lets them go on after a restart: the sort session, the
move journal, the AI job queue, the tag edit journal. Gallery tagging runs in a second
process. Other programs share the disk with the server, and the user may unplug it.

### Components

*Modelled components.*

| Component | State it keeps | Operations | What makes it correct | What is hard |
|---|---|---|---|---|
| Bulk job registry (`services/bulk_job_service.py`; workers in `routers/`, `services/`) | records of jobs (status, result, stamps), a cancel event and a completion gate per job | create, create single-flight, cancel, run, begin/commit/complete, prune | one worker per single-flight kind; cancel and completion decided once; a settled report never changes; every job settles | request threads cancel while workers publish; pruning while ids are in use |
| Manual sort session (`services/sorting/session.py`, `session_state.py`, `sorting_session_store.py`) | list, cursor, history, redo stack, key folders; the session file | start, read current, move, collect, skip, undo, redo, set folders, clear, restore | no picture decided twice; files and collections agree with the history; a restart resumes from the last save | the lock is let go of inside a read and a start; the file operation precedes the save |
| Bracket and cull sorting (`services/sorting/workbench.py`, `session_state.py`) | champion and cursor in the same session record; history and redo of places | choose, keep, reject, undo, redo, read the current pair, restore | the champion has lost to nobody; no picture is passed over; a restart keeps the decisions | the read writes the places it had read before it let go of the lock; entries name places of a list that a restart shortens |
| Batch move, copy and undo (`services/sorting/batch_move.py`, `batch_move_undo.py`, `move_journal.py`, `state.py`, `move.py`) | the slot (status, run id, cancel event); the journal of a run | start, cancel, reset, undo | a busy slot has the worker that frees it; every moved file can be found by undo; no file of someone else is touched; library and disk agree | check and claim in two sections; a power cut between intent, move, row and done line |
| Folder scan (`services/sorting/scan.py`, `state.py`, `library.py`) | one slot of shared progress, a run id, the worker thread, a cancel event per run, the library roots | scan, refresh, cancel, acknowledge, reset, remove a root, clear the gallery | one scan walks at a time; a removed root stays removed; a result the user has not seen survives | the slot is claimed before its thread exists; cancel and reset in that gap; late threads |
| Tagging worker process (`services/tagging/jobs.py`, `progress.py`) | progress, run ids, the handle of a process, its queue and event | start, spawn, relay, drain, cancel and its wait, reset | a live worker is the one the service holds; a stopped run does not spawn; a run ends | the wait of a cancel, the relay and the process run without the lock |
| AI job queue (`services/tagging_pipeline_service.py`, `_tagging_pipeline_persistence.py`, `ai_job_queue_store.py`) | the queue, the running entry, both in a file; three runtimes | start now or queue, dispatch, cancel by kind, by entry and by run, restore | one AI job at a time; what was promised is on file; what was cancelled is not; the queue drains | the path check outside the lock; cancels in two halves; a crash between a start and its save |
| Gallery transition gate (`gallery_job_gate.py`, clearing in `sorting/library.py`) | a lock, and the states of the jobs it looks at | claim a job, clear | the library is never cleared under a job | every job has to claim under the gate |
| Bulk tag edits (`routers/tags_bulk.py`, `tags_bulk_journal_ops.py`, `services/tag_bulk_journal.py`) | tags; a bounded journal of operations with rows before and after; the run lock | find/replace, add, remove, clean up, undo, redo, forced undo, prune | an offered undo is whole and leads back; later edits survive; the lock is given back | reads outside the transaction, an undo in a transaction per picture, taggers and imports beside it |
| AI runtime lease (`ai_runtime_guard.py`) | gate owner, depth, tickets; a lock file | acquire with priority and timeout, nest, release | model work excludes model work; no waiter sleeps for ever | lost wake-ups, timeouts, overtaking, another process with the file |
| GPU models (`csd_encoder.py`, `tagger.py`, `tagger_inference.py`, `model_residency.py`, the refresh in `smart_tag/tagging.py`) | what is loaded where, the residency registry, the tagger's `_loaded`, the encoder's load lock | load, evict, use, release, sweep, forget, refresh a session | a model in use is loaded; requests end | two locks in two orders; releases and a rebuild outside the lease |

*Components that are not modelled.*

| Component | State and operations | Correct when | Why not |
|---|---|---|---|
| Gallery move (`sorting/move.py`) | a slot as that of batch moves, under another lock | as `BatchSlot` | next: an instance of `BatchSlot` |
| Duplicate scan registration (`duplicate_group_service.py`, `routers/duplicates.py`) | the id of the current scan, a shared result file | two scans never write one result file | next: over `BulkJobs` |
| Annotation revisions (`annotation_revision_service.py`, `db_annotation_revisions.py`) | heads and revisions | compare-and-set: no edit is overwritten unseen | next; single SQL transactions |
| Updater (`update_service.py`, `update_worker.py`) | program files, backup, manifest | an update stopped anywhere can be repeated or rolled back | next; a second program |
| Folder watching (`folder_watch.py`) | a worker per root, files that still grow | a finished file is imported in the end | its core is operating-system events |
| Dataset export engine, readiness, integrity | files of a package, proofs of readiness | a marked package is complete | cancel and publication are the protocols `gated` and `plain` of `BulkJobs`; the contents are not modelled |
| Image lifecycle (delete, remove, reconnect, repair) | rows and files | row and file go together | the chunked job is a protocol of `BulkJobs`; the file operations are single steps of it |
| Smart Tag, captions, prompt models, masks, censoring, similarity, aesthetics, style map | vectors, pictures, remote calls | numerical results | their use of the GPU has the pattern of `GpuModels`, their place in the queue is in `AiQueue` |
| Dataset sessions and projects, tag export, thumbnails, metadata parsers, model downloads, collecting from the web | one request or transaction each | - | no behaviour over several steps, or pure input and output |
| Database, libraries, migrations | SQLite | - | a transaction is one step of the models |
| Desktop shell, web interface, browser extension, scripts | - | - | their requests are the inputs of the models |

The models cover the concurrent core of the server, which is a few per cent of the
repository's lines; most of the rest is user interface, image and metadata processing,
model code, and request handlers of one transaction.

### How the modelled parts interact

* Requests reach a service on some thread; the service's lock makes its sections atomic,
  and everything between two sections interleaves with everything else.
* Callers hand `run_job` a worker function. The worker talks to the registry only
  through its handle (poll the flag, report progress, close the gate, complete).
* A batch move and its undo use one slot (`BatchSlot`) and meet again in the journal,
  the library rows and the files (`BatchMove`).
* The three modes of manual sorting share one session record and one file; a session has
  one mode for its life (`SortSession`, `Workbench`).
* The gallery tagging run, Smart Tag and the caption batch start through one queue
  (`AiQueue`); the tagging run is a process of its own (`TaggingRun`). Scans and AI jobs
  claim under the gate that clearing the gallery takes (`GalleryGate`).
* Every model takes the lease (`AiRuntime`) before it works; a model that loads on the
  GPU claims residency, which calls the release callbacks of the other models on the
  claiming thread (`GpuModels`).

The hazards the properties are about are in `PROJECT.json` under `hazards`, each at its
line. Hazards that no property covers:

* the check and the claim of a session start and of a batch move are two sections
  (`session.py:192`, `batch_move.py:286`): both are modelled, and the other properties
  hold in spite of the second claim;
* clear removes the session file outside the lock (`session.py:803`);
* an undo that leaves the cursor past the end of the list returns without saving
  (`session.py:413`): modelled; only the step over broken pictures brings the cursor
  there, and after a restart the runs that have broken pictures make no claim;
* the list of files an undo of a batch move works on is read before the slot is claimed
  (`batch_move_undo.py:182`): modelled, and exempted as `early` (section 4);
* Smart Tag's refresh takes the session from a thread that tags
  (`smart_tag/tagging.py:206`): modelled; `ForwardFindsItsModel` says how far it reaches
  (section 4);
* a mask batch that a cancel cut short is reported done (`routers/masks.py:159`);
* `move_image` puts a file back with `os.replace` when the library refuses the new path
  (`image_manager.py:1222`);
* the idle sweep picks its models before it waits for the lease
  (`model_residency.py:166`): in the model it may release any model it finds;
* the fingerprint that merges equal queue entries leaves out the library
  (`tagging_pipeline_service.py:253`);
* a cancel of the caption batch while it still counts its pictures is forgotten when it
  starts (`routers/vlm.py:536`; modelled as `resolving`, judged by no property);
* the duplicate scan's slot (`duplicate_group_service.py:101`) and the updater's copy in
  place (`update_worker.py:402`) belong to components without a model.

## 2. Modules and how they correspond to the code

`PROJECT.json` maps each definition to its lines. In outline:

| Module | What it is | State and actions |
|---|---|---|
| `CancelContract` | abstract: what the registry promises about a guarded result | `decision` is taken once, `report` follows it |
| `BulkJobs` | `BulkJobService` and five shapes of worker | `status`, `result`, `finished`, `cancel`, `closed` are the record's fields; an action is a section under `_lock` or what a worker does between two of them. A worker's protocol is a constant of the job: `chunked` (file deletion and other `chunked_worker` jobs), `commit` (duplicate scan, readiness), `gated` (verified package), `plain` (other exports), `batch` (mask batch). A plain export that a cancel stops still writes its manifest (`PublishStopped`) |
| `UndoLog` | abstract: a durable undo log over a list | `log` in memory, `stable` on disk, `saved` as the page shows it |
| `SortSession` | the slot (WASD) mode of manual sorting | `ids`, `index`, `history`, `redo`, `slots` are the fields of `_sort_session`; GET is `BeginGet`, `GetRead`, `GetLook`, `GetAdvance` because it drops the lock; a start is `BeginStart`, `CommitStart`; a sort action is `Begin...` (its file or database effect) and `Finish...` (the entry, the index, the save), which hold the lock together and are apart for the crash; `CrashAndRestart` is `load_session_from_disk` |
| `Workbench` | the bracket and cull modes | `session` with `index`, `champion`, `history`, `redo`; `Choose`, `UndoChoice`, `RedoChoice` hold the lock and save; the read is `ReadPlaces`, `LookAt...` without the lock, and `CrownNext` or `PassNext`, which write the places in `seen`; `CrashAndReopen` is the restore: `Left` counts the pictures that are left in front of a place, `Rebased` moves the entries, `Sound` is the test whether they still form one chain, `Past` and `Ahead` are what a cull keeps. `shelf` is the library as this module sees it, `Spoil` what happens to it. `adrift` records that a late write, or the restore of a cull, has left the places beside the entries |
| `BatchSlot` | the slot protocol of move, copy and undo | `status`, `epoch` (`_batch_move_run_id`), `event` (the published cancel event), `stopped`; `PassOver` is the sort worker's way past a picture without a row, which does not look whether the run is still current; `late` and `tooLate` only record what happened |
| `BatchMove` | what a move and its undos do to files, rows and journal, over `BatchSlot` (`INSTANCE`) | each thing the disk can keep is a step: intent line, file, row, done line; file back, row back, marker. `early` records that an undo was asked for while the run was at work, `dropped` the pictures whose file a crash left ahead of their row |
| `GalleryGate` | abstract: what the gallery gate promises | `live` jobs, `clearing` |
| `AiQueue` | the queue of AI jobs | `queue`, `marker` (`_running_entry`), `file`, `slot` (the job in each runtime), `disp` and `checked` (the dispatcher between its sections), `cancels` (cancels between their halves); `fate` follows each request |
| `TaggingRun` | the gallery tagging run and its worker process | `status`, `active`, `pending`, `handle`, `flag` are the fields of `TaggingService`; `task`, `proc`, `mail`, `event` belong to each run; `waits` are cancels between their two sections. `StartFails` and `MonitorFails` are the errors of `process.start()` and of the monitor itself |
| `ScanSlot` | the folder scan | `status`, `shown`, `suppress`, `current`, `holder` are the scan's progress record, run id and worker; `thread` is where the background thread of each run is |
| `TagBulkJournal` | bulk tag edits and their undo journal | `tags`, `alive`, `journal` are tables; `pc` and `todo`, `at`, `seen`, `written`, `buffer` the operation that has the run lock; `author`, `prior`, `raced` record who wrote a picture last |
| `AiRuntime` | the exclusive lease: `_VramGate` and the lock file | `owner`, `depth`, the tickets (`rank`, `ahead`), `asleep` (who waits on the condition and has not been notified), `lockFile` |
| `GpuModels` | an encoder, a tagger, Smart Tag's refresh and the sweep under the lease, extending `AiRuntime` | `place` (of the tagger: of its session), `residents` (`_gpu_residents`), `hasLoaded` (the tagger's `_loaded`), `loadLock` (`_load_lock`), `pc`: the step of each thread; `lost` records that a loaded tagger is without a session |
| `MC...` | instances for TLC: model values, who does what, symmetry; `MCSortModes` extends `SortSession` and `Workbench`, which share no variable, and lets a behaviour belong to one of them | |
| `Subsequences` | `Pick(s, P)`: the entries of a sequence at the places in a set | the filters of the session restore and of the queue, by place because the prover has no definition of `SelectSeq` |
| `BulkJobsProofs`, `BatchSlotProofs`, `BatchMoveProofs`, `ScanSlotProofs`, `TagBulkJournalProofs` | theorems and proofs about the module of that name | |
| `SortingProofs` | theorems and proofs about `SortSession` and `Workbench` | |
| `AiProofs` | theorems and proofs about `AiQueue`, `TaggingRun`, `AiRuntime` and `GpuModels` | |
| `SubsequenceProofs` | lemmas on `Pick`, on counting, and on a history and its redo stack laid out as one line | |

Sets instead of flags (`cancel`, `closed`, `stopped`, `residents`), and one function per
field instead of a record per job, keep the definitions short and the proof obligations
small. Variables marked *history* in their comments record what has happened for a
property; no guard reads them.

## 3. Runs

Numbers are distinct states.

| Run | Instance | Shows |
|---|---|---|
| `bulk_jobs` (716 928) | a duplicate scan and two exports of one single-flight kind; or a chunked delete, a mask batch and a gated export; two chunks each, one terminal record retained | `WorkerOwnsItsJob`, `OneWorkerPerSingleFlightKind`, `CancelReplyIsKept`, `EveryJobSettles`; `ImplementsContract`: refinement of `CancelContract` |
| `sort_session_log` (2 707 020) | slot mode: two pictures, move, collect and skip, one start in flight, one crash, one failed save. Bracket and cull: four pictures or one, three entries, two damages, one crash | `ImplementsUndoLog`: refinement of `UndoLog`; `EffectsAreRecorded`: files and collections differ from the recorded history by at most one effect per crash. `ChampionIsUnbeaten`, `NobodyIsPassedOver`, `RestartKeepsDecisions` |
| `sort_session_answers` (1 509 471) | slot mode: two pictures whose files vanish and return and whose rows go, clears, starts, one crash | `DecidedOnceBehindCursor` (no picture is decided twice before a restart), `GetAnswers` (the read's loop ends) |
| `batch_slot` (749 775) | two starts, one undo, two files each, cancels, resets | `BusySlotHasItsWorker` with the event that stops it; `AbandonedSortStops`, `ReportsAreNotOverwritten`; `BusySlotIsFreed` |
| `batch_move` (7 980 183; pictures are symmetric) | two pictures, a move and an undo that may be asked for at any time and again, one crash, other people moving, removing and saving files | `MovedFilesCanBeUndone`, `ForeignFilesStay`, `LibraryFindsItsFiles`: a picture that no run has in hand is where the library says, unless a crash came between its file and its row |
| `ai_queue` (346 369) | a gallery request, two equal Smart Tag requests, a caption batch; one cancel under way at a time, one crash | `AtMostOneJob`, `PromisedIsOnFile`, `AnsweredStaysDown`, `QueueDrains`; `ImplementsGate`: refinement of `GalleryGate` |
| `tagging_run` (1 945 073) | three runs, each worker one report before its last; the start or the monitor of the first may fail | `LiveWorkerIsHeld`, `StoppedStaysStopped`, `RunEnds` |
| `scan_slot` (88 778) | two folders, three scans | `AtMostOneScanner`, `RemovedRootStaysRemoved`, `ManualResultSurvives`, `ScanEnds`; `ImplementsGate` |
| `tag_journal` (1 594 696) | two pictures, two names, five operations, three runs, two retained operations, a journal of two pictures, one write by others, one failure | `AvailableUndoIsWhole`, `LastWriterCanBeUndone`, `EditsSurviveUndo`, `RunEnds` |
| `gpu_models` (1 067 708) | two threads of the style index, one thread that tags with either of two priorities and frees its tagger, Smart Tag's refresh, the sweep, another process | `LeaseIsExclusive`, `ForwardFindsItsModel`, `BusyEnds`: once requests pause everything ends or two threads stand off |
| `tagging_two_workers`, `gpu_standoff` | small instances | the findings below |

Why the bounds are enough for these questions. Three jobs give two of one kind and one
of another, so every pair of jobs that share a kind, the prune bound (one retained
record) or nothing is present; two chunks give a cancel before, in and after the last
one. The two groups of `bulk_jobs` would only multiply each other (no job of one
competes with one of the other except for the retained record), so the constraint
`Together` lets a behaviour create jobs of one group. It hides no violation of
`EveryJobSettles`: what it cuts off creates a job, which no fairness asks for. In the
same way `MCSortModes` lets a behaviour of `sort_session_log` use the slot mode or the
other two, which share no variable.

Two pictures let the cursor, the history and the redo stack each be empty, partly and
completely filled. In a bracket a fourth picture lets the champion change, fall and be
crowned without a comparison, with one entry on each stack. In the slot, a second claim
needs two starts that have both passed the check, and a third party to reset or undo
between them. Two pictures of a move let one be finished while the other is at each
step, and one crash at each step of it is what the journal is for. In the queue, four
requests are of all kinds, leave one waiting behind another and let two be merged; three
tagging runs or scans give the one that is late, the one that is current and the next.
Three runs of the journal are an operation, its undo and the undo of that, or three
operations of which the first is pruned. With the lease, three waiters of different
priority behind an owner are needed for overtaking, and the four threads that ask for it
give them; the refresh is a fifth that does not ask. The proofs below remove the bounds
from every property but the liveness properties.

`CHECK_DEADLOCK FALSE`: jobs, runs, scans and undos are asked for a bounded number of
times in an instance, and a bracket may lose all its pictures, so the models stop when
all has been done; `GpuModels` may really stop (see `gpu_standoff`).

Each property has a mutant: a fault of the kind a change to the code could bring in
(`Mut...`, defined in front of the definition it stands for), which makes TLC find the
property violated in the same run.

## 4. Findings

Each is a run that is expected to be violated, with the line that says otherwise.

* `tagging_two_workers` (`AtMostOneWorker`). A start is allowed as soon as the worker
  process of the run before is dead, although that run's monitor has not cleaned up and
  its process is still the handle. A cancel of the new run then takes the dead process
  for the new run's, finds nothing to stop, and its last section (`progress.py:222`)
  clears the handle of the worker spawned meanwhile; the next start finds no worker and
  spawns a second one beside it. `tagging_pipeline_service.py:5`: "the app cannot run
  two heavyweight tagging jobs at the same time".
* `gpu_standoff` (`JobKeepsGoing`). `load()` takes `_load_lock` and then the lease; a
  batch that finds its model evicted has the lease and calls `load()`. Two threads can
  wait for each other for ever, and nobody else gets the lease.
  `tests/test_csd_encoder.py:330` expects the job to keep going.

Behaviour that is in the models, differs from what a comment or test says or from what a
reader would expect, and has no run of its own:

* Undo of a sort action whose moved file cannot be found returns without an error
  (`move.py:226`), so undo answers "undone" and the file is still in the slot folder
  when its drive is back. `session.py:366` describes this as the former behaviour.
* In slot mode undo goes back one place although GET stepped over a broken picture in
  between; restore then drops the redo entry at or before the cursor and keeps the one
  after it (`session_state.py:565`), so redo decides a picture the cursor is not on.
  `tests/test_routers/test_sorting.py:2366` says redo stays aligned. It takes three
  pictures and a restart; `DecidedOnceBehindCursor` therefore says nothing after one.
* A read of a bracket or cull writes the places it had read
  (`workbench.py:110,118,281`). If two actions came in between, a champion can meet
  itself, a picture be shown twice or be passed over. `adrift` marks these behaviours,
  and `ChampionIsUnbeaten` and `NobodyIsPassedOver` exempt them: every other order is
  free of them.
* A cull restored without some of its pictures keeps `prev_index` as it was in the
  longer list (`session_state.py:544-572`), so undo goes to another picture than the one
  it reports (`workbench.py:329`). The docstring of `_cull_action` says that undo and
  redo restore the cursor. `adrift` again.
* A picture that a read marked unreadable while its drive was away, and that was shown
  and decided later, is missing from the bracket after a restart (`is_readable` is still
  0), and the bracket starts again; `RestartKeepsDecisions` speaks of pictures that
  remain.
* `undo_batch_move` reads the journal before it claims the slot
  (`batch_move_undo.py:182`). If the run ends in between, the undo works on a part of
  the files and marks the whole run undone, against `batch_move_undo.py:261`, "Undone
  only when everything is back". `MovedFilesCanBeUndone` exempts a run with such an
  `early` undo.
* An undo stopped between putting a file back and updating its row leaves a row that
  names the destination. The next undo keeps the picture as one "moved again since"
  (`batch_move_undo.py:63`), so the row stays wrong: it is one of the pictures that
  `LibraryFindsItsFiles` excepts (`dropped`).
* A tagger can be on the GPU without being registered, so that the next claim does not
  release it and two models share the GPU; `ai_runtime_guard.py:591`: "the claim
  releases the others". It takes one of three steps, and `UnlistedWays` proves that
  there is no fourth: `release_session` forgets the registration after its lease
  (`tagger_inference.py:97`), when another thread may have loaded the tagger again;
  Smart Tag's refresh rebuilds the session on the GPU without a claim (`tagger.py:828`),
  also of a tagger that has been evicted; or a load fails after it forgot itself
  (`tagger.py:402`) and leaves the session such a refresh had made.
  `OnlyTheTaggerGoesUnlisted`: it is never the encoder.
* Smart Tag's check of the video memory runs before each window, outside every lease
  (`smart_tag/pipeline.py:252,384`), and drops and rebuilds the session of the shared
  tagger (`smart_tag/tagging.py:206-208`, `tagger.py:804-833`). A thread inside `tag()`,
  such as that of `POST /api/tag/single`, can find its session gone: the assertion at
  `tagger_inference.py:38` fails and with it the picture. Neither the lease nor the
  registry excludes it. When the rebuild fails, here or after a batch
  (`tagger_inference.py:67-70`, where the error is swallowed), the tagger has no session
  and `_loaded` is still True: the next `tag()` does not load, and the sweep does not
  take the tagger for loaded. `ForwardFindsItsModel` therefore promises a tagging thread
  that nobody has released its tagger, not that the session is there, and says that
  nothing but a refresh or a failed rebuild (`lost`) parts the two.
* The monitor of a tagging run reports an error of its own and lets go of the handle
  whether or not the worker lives (`jobs.py:291-308`). A worker left like that works on,
  unknown to the service, and another can start beside it; `LiveWorkerIsHeld` and
  `AtMostOneWorker` are about workers whose monitor is at work (`Watched`).
* A plain folder export that was cancelled still writes its `export_manifest.json`
  (`engine.py:1605-1620`), and what it wrote before, a trainer's configuration among it,
  stays. Its job is reported cancelled with a result that counts the files.
* A forced undo of tag edits that reaches a deleted picture fails on the foreign key and
  leaves what it restored before without a journal of its own (`RestoreFails`), so those
  pictures cannot be redone; `tag_bulk_journal.py:6` says that an undo is itself
  journalled.
* A start of a sort session and a start of a batch move check first, let go of the lock,
  and claim without checking again: two starts both pass (`session.py:192`,
  `batch_move.py:286`).
* GET in slot mode steps the cursor by one from wherever it is by then, so after an
  overlapping action it can step over a good picture (`session.py:279`).
* Clear removes the session file outside the lock and can remove that of a new session
  (`session.py:803`). `sort_session_log` therefore runs without clears.
* A mask batch that a cancel cut short reports done (`routers/masks.py:159`):
  `CancelReplyIsKept` promises nothing for the `plain` and `batch` protocols.
* In the queue: a request that finds everything idle overtakes those that wait; a
  finished job's marker stays on file while another job that started at once occupies
  the runtimes, so a crash there runs the finished job again; a cancel of one Smart Tag
  run can, in its last section, clear the marker of a newer one (`CancelRunForgets`).
* A late progress report can turn "cancelling" of the tagging run back into "running";
  the run still stops.

## 5. Fairness

* `BulkJobs`, `BatchSlot`: weak fairness of each worker's steps. A `BackgroundTask` that
  was scheduled runs, and nothing in a worker waits for another request. No request is
  fair.
* `SortSession`: weak fairness of a read or clear under way, of a sort action that holds
  the lock, and of a start under way; they are plain code on a thread. `GetAnswers` is
  about behaviours in which requests pause (`<>[][~Request]_vars`), because a Python
  lock is not fair: a read could wait for as long as others keep taking the lock.
* `AiQueue`: weak fairness of the dispatcher thread, of the end of each job and of a
  clearing, and of the restart after a crash. No request and no cancel is fair. Each
  request of an instance is made once: a user who keeps starting jobs the moment
  everything is idle can keep the queue waiting, and `QueueDrains` does not say
  otherwise.
* `TaggingRun`: weak fairness of each background task and of the exit of each worker
  process (its work is finite). A cancel that waits for a process is not fair: `RunEnds`
  holds even if it waits for ever.
* `ScanSlot`: weak fairness of each thread's steps and of the end of a clearing, and
  strong fairness of the end of the walk: a folder is finite, and reports interrupt the
  walk any number of times.
* `TagBulkJournal`: weak fairness of the operation that has the run lock.
* `GpuModels`: weak fairness of each thread's steps, and of the other process giving
  back the lock file (`ChildLeaves`). Starting a request or a refresh, a job's next
  batch, and the other process taking the file are not fair. `BusyEnds` is about
  behaviours in which requests and next batches pause, for the same reason. A wait for
  the lock file ends by itself (`FileBusy` is always possible: the poll has a deadline).
* `BatchMove` and `Workbench` are checked for safety only: that the runs of the one end
  is a property of the slot, and the actions of the other are single sections.

## 6. Proofs

`tlapm` proves the following for every value of the constants that meets the named
assumptions. Every invariant, action property and refinement that a run checks is stated
by a theorem; only the liveness properties are not.

The assumptions are: `JobsAssumption` (each job has a kind and a protocol);
`RunsAssumption`, `FilesAssumption`, `ResetsAssumption` (moves and undos are different
runs, a natural bound on files, a Boolean); `PicturesAssumption` and
`RequestsAssumption` (finitely many pictures, the move is not an undo, "nobody" is
neither); `NamesAssumption`, `TimedAssumption`, `KindAssumption` (threads, the other
process and "nobody" are different; each thread has a kind, and the sweep is what asks
with a timeout); `QueueAssumption` (three kinds, each request has one);
`BoundsAssumption`, `ScanAssumption`, `JournalAssumption` (bounds are natural numbers,
there is a folder, requests and foreign rows are of the shapes the code accepts);
`ListsAssumption` and `BenchListsAssumption` (a list is a sequence of library ids
without repeats, as a query over a primary key returns it), `EffectsAssumption`,
`FailuresAssumption`, `ModesAssumption`, `AnswersAssumption` (keys, failures, modes and
answers are those the code knows), `NoneAssumption` and `NoBenchAssumption` ("no file",
"no session" are not one). Sets of jobs, runs, requests, lists, folders and threads need
not be finite.

Two theorems, `EffectsRecorded` and `SessionImplementsLog`, have hypotheses of their
own: `Failures = {}` and `Clears = FALSE`, that is, pictures keep their files and rows
and nobody clears the session. They are the values the run `sort_session_log` checks the
two properties with, and the code does not keep the properties without them: an undo
whose file cannot be found is reported done, an undo goes back one place although GET
has stepped over a broken picture, and a clear may remove the file of a newer session
(all in section 4). What remains free is everything else: any lists, keys, threads and
interleavings of reads, starts and actions, any number of crashes and of failed saves
(after which `EffectsAreRecorded` itself promises nothing).

**`BulkJobsProofs`.** `TypeCorrect`, `Invariance`, and from it `WorkersOwnTheirJobs`,
`SingleFlightWorkers`, `CancelRepliesAreKept`, `PublishedJobsAreNotCancelled`,
`LateChunksAreBounded`, `Refinement`. None of these properties is inductive:
`WorkerOwnsItsJob` needs that a queued job's task has not started, that pruning takes
terminal records only, and that a task that has not ended either is in the worker or has
its job settled. `IInv` therefore relates, job by job, the task, the record, the gate,
the flag, the output and the reply (`JobInv`), and states separately the only fact about
two jobs, `OneActivePerKind`. A step of job `i` is treated once for `i` (`StepOfOne`),
once for every other job (`StepOfOthers`, where creation may prune), once for the pairs
(`StepOfKinds`). `Refinement` maps the flag, the gate and the output to the decision,
and the status to the report.

**`BatchSlotProofs`.** `TypeCorrect`, `Invariance`, `SlotIsHeld`, `CancelIsDelivered`,
`LateSortsAreBounded`, `ReportsStay`. `IInv` is who may write the status next: a busy
status names an alive, current run with its event published (`BusySlotHasItsWorker`); an
alive current run is shown as busy (`HoldersAreShown`); ids are not shared
(`IdsAreFresh`), so at most one run is current; a sort that worked once after it lost
the slot is in the file in hand or past it and cannot become current again
(`LateSortIsOut`). That a second claim takes the slot without looking is no exception:
it makes the first run not current in the same step.

**`BatchMoveProofs`.** `Invariance`, `TypeCorrect`, `MovesCanBeUndone`,
`ForeignFilesAreSafe`, `LibraryAgrees`. A moved file is in the journal because its
intent line was written first; the invariant follows that through the run, the crash and
the undos. A run that has a picture in hand is busy with it (`HandsAreBusy`) and its
list has as many pictures as the slot has files left (`ListIsCounted`), so the slot's
last file is also the move's last; a picture's place and row determine what the journal
must say about it while it is moved (`MoveIsTraced`) and while it is put back
(`UndoIsTraced`), and the lines of one picture do not contradict each other
(`TracesAgree`); what an undo has read is still what the journal says, unless it was
`early` (`UndosKnow`), and the marker is set only when everything it knew is back
(`MarkerIsTrue`). The slot's actions are used through `BatchSlot`'s own definitions,
with one lemma each. `LibraryAgrees` needs one invariant more, `AwayInv`: a row that has
lost its file has a run that has just changed the file and is about to change the row,
or that run was stopped by a crash. With `IInv`, a run that puts a picture down has made
the two agree (`SortFinds`, `UndoFinds`), and no other step parts them (`RestFinds`).

**`ScanSlotProofs`.** `Invariance`, `TypeCorrect`, `OneScanner`, `RemovalIsFinal`,
`ResultStays`, `Refinement`. A thread that walks holds the slot under its run id
(`WalkerHoldsTheSlot`), claims are shown (`ClaimIsShown`), ids are not used before they
are handed out (`IdsAreFresh`), an active status is that of the current run
(`ActiveIsCurrent`), a removal during a scan is still known when its walk ends
(`RemovalIsKnown`), and nobody walks while the gallery is cleared (`ClearingIsAlone`).

**`AiProofs`, the queue.** `JobsInvariance`, `OneJob`, `Refinement`; `LedgerHolds`,
`QueueTypeCorrect`, `NoneIsLost`, `NoneReturns`. `JobsInv` is about the runtimes alone:
every step that starts a job finds all of them idle and the gallery not cleared.
`QueueInv` is the ledger of requests: the file is what memory holds, or held when the
process went (`FileIsSaved`); a request waits exactly as long as it stands in the queue
(`WaitingIsQueued`) and works exactly as long as a runtime has it (`WorkIsInSlots`); a
dispatched job is the marker and, killed, is on file (`DispatchedIsMarked`); what a
cancel is about has begun, and what it has forgotten is not on file
(`CancelledHasBegun`). `PromisedIsOnFile` alone is not inductive: that a save keeps a
request needs that it stands in the queue or is the marker, and a restart, which merges
equal neighbours, needs that no request is on file twice. Cancels and the restart filter
the queue, so these proofs rest on what `Pick` takes (`PickHolds`).

**`AiProofs`, the worker process.** `RunInvariance`, `RunTypeCorrect`, `WorkerIsHeld`,
`OneWorker`, `StoppedForGood`. The two properties about workers are about those whose
monitor is at work, and hold until a cancel has met the process of an earlier run
(`crossed`), which is the finding; the invariant is that ids are fresh, that a process
is where its task has brought it and the handle is of a run whose task has got as far as
the start of its process (`ProcessFollowsTask`, `HasBegun`), that a waiting cancel waits
for the process of its own run (`WaitsForItsOwn`), and that a stopped run is past its
start or has been left behind (`StoppedIsPast`). The start, not the process, has to be
the mark: a start that fails leaves a handle without a process, and a task never goes
back (`BegunStays`).

**`AiProofs`, the lease and the models.** About the lease: `LeaseInvariance`,
`LeaseTypeCorrect`, `LeaseExcludes`, `WakeUpsAreKept`. Exclusion comes from the gate
within the process and from the lock file between processes. `HeadIsAwake` needs
`TicketsFormALine`: a thread goes to sleep only when it has just seen that it may not
pass, so it becomes admissible only by a step that lets go of the gate or takes a ticket
out; the first wakes everybody, and so does the ticket of a waiter that gave up. About
the models: `LeaseIsUsedProperly` (every behaviour of `GpuModels` is one of `AiRuntime`,
so the lease's theorems hold of it), `GpuTypeCorrect`, `WorkFindsItsModel`,
`OnlyTheTaggerGoesUnlisted` and `UnlistedWays`. Whoever works with a model is inside the
lease (`WorkersAreInside`), and models are released inside the lease, with two
exceptions. A failed load releases the encoder after its lease; it is harmless because
the thread still has `_load_lock` (`LoadersHoldTheLock`), and while someone loads, has
failed to, or is about to reload, there is no encoder to take away
(`NothingWhileLoading`). Smart Tag's refresh takes the tagger's session without any
lease; it is not harmless (section 4), and what the theorem keeps is that no release
does the same: a tagger that says it is loaded has its session, or a refresh or a
rebuild in the middle of the work has taken it (`OnlyARefreshLoses`).

**`TagBulkJournalProofs`.** `RewritingIsTyped`, `TypeCorrect`, `UndoIsWhole`,
`EditsAreSpared`, `UndoLeadsBack`. The first invariant, `IInv`, has the types and what
makes an undo whole and cautious: the buffer has what the run has written or is marked
truncated (`BufferIsWhole`), so has the journal (`JournalIsWhole`), an undo works on a
row that is there (`UndoHasItsRow`), and what it is about to write over is what the
operation left, or the picture is `raced` (`RestoreHasLooked`). On top of it `LInv`
follows the last writer of each picture: runs are journalled in order (`RunsInOrder`), a
picture is handled once (`PicturesOnce`), a look is what is committed or the picture is
`raced` (`LookIsFresh`), and for a picture's last writer the buffer (`BulkIsBuffered`,
`RunIsBuffered`), later the journal (`JournalTells`), has what it held before and holds
now.

**`SortingProofs`, slot mode.** `SessionTyped` holds of every behaviour. So does
`DecidedOnce`: `OrderInv` lays the places of the history and of the redo stack in the
list side by side and says that the first go up, the second go on from them, and both
leave room for each other around the cursor: the n-th entry from the end of the history
lies at least n places behind the cursor. The room is what makes it inductive, because
undo takes the cursor back by one place only, while the entry it takes may lie further
back when GET has stepped over broken pictures. The invariant, like the property, ends
with the first crash: restore filters the stacks by other conditions (section 4).

In a library without losses the two stacks are the list itself: the history its first
entries, the redo stack those that follow, in memory and on file (`AlignedInv`).
`SavedInv` says that the file is the session unless a save has failed. For
`EffectsRecorded`, `LedgerInv` says which effects of keys are there: those from before
the session, and those the history records once the action at work has ended, up to a
set that has at most one element per crash (`Gap`). A crash loses at most the action at
work, and a key pressed twice on a picture that already has its effect is told apart by
`prior` (`EntrySound`), so that undo takes back only what the key did.
`SessionImplementsLog` maps history and redo stack to one trail with the cursor in it
(`TrailOf`); undo and redo leave the trail as it is, a decision cuts and extends it, and
each of `SortSession`'s steps is a step of `UndoLog` or leaves log, file and answer
alone.

**`SortingProofs`, bracket and cull.** `BenchFits`, `UnbeatenChampion`,
`NobodyPassedOver`, `DecisionsOutliveRestarts`, for any lists, answers, damage and
crashes. `ReadIsOfAPair` says what a read has seen, and that what it is about to pass or
dethrone is marked broken in its row. `PlacesFit` lays history and redo stack out as one
line and says of each entry of it what the property says of the present: its champion
and its place follow from the entries before it (`Follows`; `Covers` for a cull). Undo
and redo then only move along the line, and a read moves the cursor only past pictures
whose rows say they are broken, which stays so. For the restart one more lemma is
needed: exactly k of the pictures that are left stand in front of the k-th entry's
place, for those passed over are not left (`LineCounts`), so the places
`_build_index_rebase` computes are again 1, 2, 3 and the test for one chain passes; if
some picture of the line is gone the chain may break, and `ChainFits` shows that a chain
that passes the test fits, whatever was dropped.

**`SubsequenceProofs`.** What `Pick` takes, keeps in order and counts; how a line of a
history and a redo stack changes with undo, redo and a new entry. `Pick` is a recursive
function over 0..Len(s); that it exists, and each fact about it, is by induction. The
library's induction theorem takes an operator and cannot be used, so induction is stated
here for a set (`Induction`: a set with 0 and with each number the next holds all
numbers), from the least number of a non-empty set (`LeastNumber`), and that from the
library's `WFMin` and `NatLessThanWellFounded`. What is to be shown for each number is
made a set of numbers.

Checked by TLC and not proved: the liveness properties `EveryJobSettles`,
`BusySlotIsFreed`, `GetAnswers`, `QueueDrains`, `ScanEnds`, `BusyEnds`, and `RunEnds` of
the tagging run and of the tag journal. They rest on fairness, hence on ENABLED, which
the prover does not have. The two findings are behaviours TLC has found; `OneWorker` and
the exemption in `BusyEnds` say how far they reach.

## 7. What is abstracted or left out

* *All models.* Message texts, counters for display, logging and paging. A SQL
  transaction is one step. A crash loses memory and keeps what a step has put on disk;
  torn writes are left out where the code writes a temporary file and replaces.
* *`BulkJobs`.* Error samples and result contents: a payload is one of six kinds. Job
  ids are never drawn twice (uuid4).
* *`SortSession`.* Copy mode has the effects of a move on the session. A readable file
  and an unreadable one are told apart, the reasons are not. `applied` records the
  effect of a key on a picture, not the path. The drive coming back is `Damage(i)` with
  "return".
* *`Workbench`.* All sessions of a behaviour have one mode: a session of another mode
  replaces the record whole. Clearing, folders and failed saves are those of
  `SortSession`; a later scan that sets `is_readable` back to 1 is left out. The checked
  instance answers with "champion", "challenger" and "keep": "skip" and "reject" differ
  from them only in the name in the entry.
* *`BatchSlot`.* The `message_key` and counters; the run token. Files are a number left.
* *`BatchMove`.* Moves only: the copy branches of the journal and of undo, the pruning
  of old journals, and splits and groups of the destination are not modelled. A move
  between drives is one step. Two different files of one name are taken to differ in
  size, which is what undo compares. Other people do not take a picture's home in the
  moment in which a run has that picture in hand (the library refusing the new path
  makes `move_image` put the file back with `os.replace`), and that this way back fails
  too is left out.
* *`AiQueue`.* Probes of a runtime that fail and writes of the file that fail. What a
  job does. Queue ids, which are used again after a restart, are not modelled: requests
  are told apart.
* *`GalleryGate`.* The bounded activities of routes, aesthetic scoring and the style
  index, whose start does not take the gate, are not clients in these models.
* *`TaggingRun`.* What the worker does to pictures. What a worker without a monitor
  reports is not modelled, for nobody reads it.
* *`ScanSlot`.* What the walk imports, and pictures of the gallery.
* *`TagBulkJournal`.* Dry runs change nothing and are no action. A picture stands for a
  chunk and pictures are taken in any order; matching by case or regular expression,
  provenance columns and progress counters are left out. A write by others between the
  look and the write of an operation is in the model (`raced`): the code reads on
  another connection before it takes the write lock, and undo compares and restores in
  two transactions.
* *`AiRuntime`.* The CPU tier's semaphore, and environment switches that turn the guard
  off. Polling the lock file is one step when the file is free.
* *`GpuModels`.* One encoder and one tagger stand for the models: other taggers and
  encoders follow their patterns. No switch of device by the user, and the `use_gpu`
  that a failed GPU turns off is not kept: a later rebuild may end on either device. The
  refresh is a thread of its own, although in the code it is one that also tags, between
  its windows: more interleavings than the code has when there is one Smart Tag run. The
  sweep may release either model whenever it has the lease: how long a model was idle is
  abstracted, so a release of a model used a moment ago is among the behaviours.
  `BusyEnds` exempts the stand-off, which `gpu_standoff` shows to be there.

## 8. Plan

The order was: first the protocol everything else reuses, then what touches the user's
files, then what shares the GPU, then queues and gates that compose them. What is done
is in sections 2 to 6. What is next:

| Step | Module | Composes | Question | Proofs |
|---|---|---|---|---|
| 1 | the gallery move as an instance of `BatchSlot` | `BatchSlot` | two claims after one check | by instance |
| 2 | the duplicate scan's slot | `BulkJobs` | does a cancelled scan whose worker still writes share its temporary file with the next one | one writer |
| 3 | annotation revisions | - | no edit is overwritten unseen; a batch of edits is one transaction or none | compare-and-set, for any writers |
| 4 | the updater | - | an update stopped between backup, removal and copy | rollback restores |
| 5 | copy mode of `BatchMove`; the bounded route activities at the gate; idle times of the sweep; folder watching | | | |
