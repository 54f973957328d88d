# Verification of the YLX transfer client

This directory holds TLA+ models of the desktop client that copies recording
sessions from capture devices and removable cards, keeps them in a local library and
uploads them to an object store. TLC checks the models on small instances, and
TLAPS proves the safety of the store, the coordinator, the registry, the device connection,
uploads, the library, the download, the import, the derivation and the pipelines for every
instance.

Sources are under `src/src-tauri/crates/ylx-transfer-core/src/` ("core")
unless another path is given; `composition.rs`, `state.rs`, `library_delete.rs` and
`application/` are under `src/src-tauri/src/`. `PROJECT.json` maps every definition to
its lines.

## 1. The system

| Part | State | Operations | Talks to |
|---|---|---|---|
| job aggregate (`transfer/aggregate.rs`) | none; a pure reducer over (state, version, intent, last observation) | `decide`, `route`, the legal-edge table | called by the coordinator, returns an outcome and a list of effects |
| transfer store (`persistence/transfer_store.rs`) | SQLite: job rows, per-file evidence ledger, completion outbox, retry lineage | create, transition, set intent, update ledger, complete, acknowledge, spawn retry, dismiss, delete, retarget | written by the coordinator and the completion delivery |
| coordinator (`transfer/coordinator.rs`, `queue.rs`, `scheduler.rs`, `recovery.rs`) | map of jobs, a serial lock and a version per job, lock-free interrupt block, ready queue, directory leases | `apply_checked`, worker loop, `tick`, pause / resume / cancel, shutdown, startup recovery; enqueue, retry, dismiss | store, device facts, download source, staging |
| uploads (`persistence/upload_store.rs`, `composition.rs`) | upload rows, parts, receipts, operations in memory, an entry's lease | start, retry, repeat, worker, cancel, reconcile | object store, library |
| local library (`persistence/app_store.rs`, `state.rs`, `library_delete.rs`) | library rows with one revision, a copy in memory, session directories, trash, markers, delete intents, leases | revision-checked writes, delete protocol, delivery of outcomes | everything that shows or changes an entry |
| download and staging (`library/download.rs`, `artifact.rs`, `staging.rs`) | part file and journal, staging tree, published tree | resume, checkpoint, verify, seal, publish, supersede | device, file system |
| device actor and fleet (`device/`, `composition.rs`) | connection, pairing secret, session, epoch | pair, poll, heartbeat, fetch, cancel, disconnect | device over HTTP; read by the coordinator |
| media import (`recording_ingestor/`, `media_store/import_jobs.rs`, `ingest/job.rs`, `media/ubuntu_ingestor.rs`) | import row with checkpoints, staging, writer lock and stop flag | preflight, copy, verify, commit; pause, resume, retry, cancel; rescan | card, library |
| derivation (`normalization/job.rs`, `media_normalizer/`, adapters' `media_normalizer.rs`) | derivation row with its checkpointed pairs, staging, stop request and active operation, encoder processes | probe, plan, encode, measure, validate, publish a pair, commit; pause, resume, cancel, retry | source revision, library, FFmpeg |
| media pipeline (`media_pipeline/`, `media/ubuntu_pipeline.rs`, `ubuntu_uploader.rs`, `ubuntu_projector.rs`, `derived_upload_store.rs`) | pipeline rows, derived upload rows, the operation gate, wake queues of the lanes, outboxes | start, reconcile, approve, retry, cancel; the lanes' turns; the projector's drain; recovery at startup | import, derivation, object store, library |
| adapters (`ylx-transfer-adapters`) | sockets, files, processes | HTTP, S3, mDNS, mounts | ports of the core |
| frontend (`src/src/`) | snapshot cache by revision, reducer | commands, snapshots, events | the desktop application |

What makes it hard:

- **Concurrency.** Workers, dispatcher, poll loop and command threads share each job.
  The coordinator's serial lock is dropped while a command waits for a worker, and
  the interrupt block is two atomics outside the lock. The library has one revision and
  several writers. Answers of the device and of the object store arrive later than the
  state they were asked from.
- **Failure.** Every durable write may fail; the process may stop between two
  commits, two renames, or a swap and its effects; a worker may panic; an answer may be
  lost after its effect; a card may be pulled and another one inserted.
- **Ordering.** A reading of the device takes its version before it looks; outcomes are
  delivered by several threads; a heartbeat may come back in a later connection.
- **Bounds.** The ready queue refuses notifications; a directory has one lease.

## 2. Modules

| Module | Models | Notes |
|---|---|---|
| `JobAggregate` | `transfer/aggregate.rs` | pure operators, no state: edges, `route`, one `decide_*` per command |
| `JobLifecycle` | what a job promises its readers | abstract specification: one legal edge and one version per step, the outcome announced in the last |
| `TransferStore` | `persistence/transfer_store.rs` | four tables as functions of the job id; one action per method |
| `TransferCoordinator` | coordinator, queue, scheduler, recovery | composes store and reducer; refines `JobLifecycle` |
| `JobRegistry` | enqueue, retry, dismiss, clear, rehydrate | which jobs exist: rows against the coordinator's three maps |
| `UploadWorkflow` | upload store, upload worker, cancel, delivery, reconciliation, object store | one record per command thread, worker and deliverer |
| `LibraryStore` | application store, its copy in memory, `library_delete.rs`, delivery of downloads | rows, files, markers and intents as sets |
| `SessionDownload` | `library/download.rs`, `artifact.rs`, `staging.rs` | files as sequences of blocks |
| `DeviceConnection` | `device/actor.rs`, `fleet.rs`, pairing in `composition.rs` | one device, its actor and every caller |
| `MediaImport` | `recording_ingestor/`, `ingest/job.rs`, `media/ubuntu_ingestor.rs`, `ubuntu_workers.rs` | one job, its worker, users and the card |
| `Derivation` | `normalization/job.rs`, `media_normalizer/`, the process supervision of the adapters, `media/ubuntu_derivation.rs` | one job, its lane, users, processes and files |
| `MediaPipeline` | `media_pipeline/`, `media/ubuntu_pipeline.rs`, `ubuntu_uploader.rs`, `ubuntu_projector.rs`, `persistence/derived_upload_store.rs`, the lanes of `lib.rs` | imports and derivations appear as their outcomes |
| `StoreProofs` | — | the theorems about `TransferStore` and `LibraryStore` (section 6) |
| `MediaProofs` | — | the theorems about `MediaImport` and `MediaPipeline` |
| `TransferCoordinatorProofs`, `JobRegistryProofs`, `DeviceConnectionProofs`, `UploadWorkflowProofs`, `SessionDownloadProofs`, `DerivationProofs` | — | the theorems about the module each is named after |
| `MC...` | — | budgets and symmetry of the instances |

`TransferCoordinator` sees the download as a label `reading`, the device as a reading that
changes by itself, and the maps that hold a job as one; `SessionDownload`, `DeviceConnection`
and `JobRegistry` open these three.

### Correspondence

*States.* A state is its snake-case name; `Failed { code, retryable }` becomes
`failed_retryable` or `failed_final`, since only `retryable` is branched on.

*Effects.* `decide` returns a sequence of records `[op, arg, version]`. The
coordinator performs its head, then goes on, one action per effect, so every
interleaving point inside `apply_checked` exists in the model.

*Stores.* A public method is one SQLite `IMMEDIATE` transaction, so it is one
action. A refused call writes nothing and is a negated guard. The callers of `StoreSpec`
are arbitrary: what holds there does not rest on the coordinator. The lineage's attempt
number and the row's version are bounded columns (`MaxAttempt`, `MaxVersion`), and both
checks against the bound are modelled. Foreign keys appear as guards (`HasNoChildren`) and
as what `delete_job` clears.

*Coordinator threads.* `pc[t]` is a thread's place. `lock`, `perform`, `await`, `relock`, ...
belong to `apply_checked` and are shared by all threads; `frame[t]` is the call's
record: command, effects left, and the label to return to on success or error.
Worker labels follow `worker_loop`, `process_job` and `run_transfer`; ticker
labels follow `tick` for one job; client labels follow `pause`, `resume`, `cancel`.

*Requests.* `request[r]` is the place of an enqueue or a retry. Each takes a row from the store in
one transaction, looks for the job in the map, installs it and offers it to the queue, in four
steps, since no lock spans them: an enqueue holds `library_root_gate`, a retry holds nothing.
`Install` replaces the map's entry by what was taken and keeps a cell that is there, with its
version, as `rehydrate` does. `NoLateInstall` says that whoever is about to install still
finds the job absent; the code does not ensure it (finding 26).

*Interrupt block.* `flag` and `reason` are written and read in separate steps, in
the code's order: reason before flag when raising, flag before reason when clearing.
Shutdown's walk over the controls takes the same two steps per job; only a worker
that gives its job back because of the shutdown raises both at once, since every later
worker of the job does the same and reads neither.

*Device observations.* The code numbers snapshots from a counter. The model keeps
only their order: `minted` lists the snapshots in flight, and `stale` holds those
whose job has recorded a newer one, which is all the fence compares.

*Restart.* A crash at any point drops every thread and lock, and the startup code
rebuilds memory from the rows: `recover_on_startup` in the coordinator,
`reconcile_interrupted_uploads` and the orphan sweep for uploads,
`recover_pending_deletes` for the library, `should_resume_on_worker` for imports. An
orderly shutdown of the coordinator is `BeginShutdown`, then `TellShutdown` and
`RaiseShutdown` for each job, `StopQueue`, and the same restart.

*Registry.* Every map of the coordinator has a mutex of its own, so a command that
touches three maps takes three steps. What a worker does in between is one claim and
one end.

*Uploads.* One entry with `NumObjects` objects. The worker's steps are the calls that
touch shared state: the store, the operation token, the object store. Each call to the
object store may fail before or after its effect. `dv` are the threads that
deliver outcomes: the poll loop and every command that delivers before it answers.
`remote` says what became of a multipart, `objects` what each key holds: the revision of the last
completion under it, and whether the library showed another one by then (`late`). The key
is the destination and the file, as in the code. `Versioned` says whether the bucket keeps
versions, which decides what the worker reads back after completing.

*Library.* Two contents of an entry, `old` and `new`, are enough to tell a stale copy
from a current one. A delete is one thread with a step per file-system call and per
transaction. A step that moves, marks or restores files may fail before or after its effect
(the rename worked, the directory could not be synced). `recover_orphan_markers` stops at the
first entry it cannot decide and has then restored any of the others, in the directory's order.
The legacy rows and settings that the same save writes are left out.

*Download.* A block is named by the revision its bytes belong to, so a digest is
equality of sequences. A crash keeps of a part file any prefix that was not yet
synced, and of a rename all or nothing. An error between the two renames of a replacement is one of
two: the second rename fails and is rolled back (`InstallFails`, `SwapFails`), or the flush after
the first, or the rollback, fails and nothing is put back (`RollbackLost`). `shown` and `scar` (the
holes that a crash or `RollbackLost` left) are history.

*Device.* A ticket is the state it was issued in; every request is two steps, so
anything may happen before its answer is applied. The device's own view (attempts, tokens
it honours, key) is the environment.

*Import.* Reading the row, deciding and swapping it under its version is one step,
since `apply_external` repeats a lost swap; the effects of a swap are steps of their own,
and a crash may fall before each.

*Derivation.* A reduction (`reduce_inner` up to the end of its guard) is one step, since every
writer of the row takes the job's command mutex. What follows it (settling, awaiting the
operation, enqueueing) are steps of the caller. A stage of a pair stands for all its processes.
`final` and `work` are the directories of a pair after and before its rename; a pair that was
renamed and not checkpointed is taken back. The stored plan and probe report are constants.

*Pipeline.* Commands, lane turns and the startup's reconciliation run under one gate
(`gate`); every statement that commits is a step under it, so that a failure or a crash may
fall between any two. What `import` and `derive` do is their outcome appearing in the outbox. An
object of a bundle is sent in one step; its multipart parts, the version of its checkpoint and
the dismissal of uploads are left out. Comparing the storage with the row and starting the
transfer is one step. The id of a new upload is the first free one, since no code compares ids.
A store that fails once the attachment is durable, before the wake-up, after the id was taken from
the queue or while a failure is recorded, is a trouble of its own (`lose`). The requeue of an upload
that met a newer version (ubuntu_uploader.rs:443) has no action: the version of the row is read
under the lock its write holds, and only the one lane writes a checkpoint.

## 3. Runs

All runs but `download` say `CHECK_DEADLOCK FALSE`: the system stops for good once every job
is terminal and the bounds on commands, faults and crashes are used up.

| Run | Instance | Checks |
|---|---|---|
| `lifecycle` | 3 jobs, 2 sessions, 2 digests, one 2-byte file with 2 hashes, versions to 3, 2 attempts, arbitrary callers | `StoreTypeOK`, `OutboxMatchesRow`, `LineageIsSound`, `OneLiveChild`, `UndeliveredOutcomeSurvives`, `TerminalIsFinal`, `EvidenceIsMonotonic` |
| `commands` | 1 job and worker with 2 commands of any kind, or 1 and a failed write; or with a device that changes and either a failed write and a crash, or a shutdown; or 2 jobs in one directory and 2 workers; or 2 threads that enqueue or retry, for a job that has failed or one that is not there yet, or 1 and a crash (`CONSTRAINT NoLateInstall`) | `OneWriterPerTarget`, `PausedIsQuiet`, `TerminalIsQuiet`, `CancelAcked`, `MemoryMatchesStore`, `ImplementsLifecycle` |
| `live_commands` | 1 job on a ready or an absent device, 1 cancel, 1 crash, fair | `CommandReturns`, `CancellingEnds` |
| `live_queue` | 2 jobs and a queue of one slot; or 1 job and a device that goes away or captures and comes back; fair, no user | `NoUnrequestedCancel`, `JobFinishes` |
| `registry` | 2 threads and the poll loop, 3 rows of 1 session, 2 plans, 3 commands, a fault, a crash, fair | `LiveIsRegistered`, `EveryJobEnds`, `FinishedStaysFinished` |
| `uploads` | 2 upload jobs of one entry with one object, 2 multiparts, 2 starts, and 2 of: cancel, lost or failed call, crash, changed entry | `RetiredMultipartIsGone`, `DoneIsBackedUp` |
| `library` | 2 entries, 2 deletes, 2 deliverers, 4 events of any kind, of which 1 failure or crash | `RowKeepsFiles`, `FilesOutliveRow`, `DeletedStaysDeleted` |
| `download` | 2 files of 3 blocks, 2 revisions, whole and selected requests, 3 crashes, failures or republications | `JournalIsHonest`, `NoNeedlessHole`, `PublishedIsExact` |
| `device` | 2 pairing attempts, 2 keys, 3 requests, cancellations or failures | `SessionIsConnection`, `ExpiredIsTrue` |
| `media` | 2 files of 2 blocks, 2 cards, 2 users with 2 commands, 2 crashes or failures | `PausedImportIsQuiet`, `VerifiedIsOnDisk`, `OneRecording` |
| `derivation` | 2 pairs, 2 users with 4 commands, and 2 of: a failing process, a missed deadline, a stuck child, a busy source, a shutdown, a crash; fair | `StoppedIsQuiet`, `CheckpointedIsOnDisk`, `DerivationEnds` |
| `pipeline` | 2 pipelines (one uploads and needs approval, one only imports), 3 uploads of 2 objects, 2 retries, and 1 of: a crash, a failed step, a lost wake-up or record, a failed or deferred drain, a cancel, a change of the settings, a second start; fair | `OneLiveAttempt`, `AttachmentsKept`, `UploadsSettle`, `CompletionsProjected` |

One further configuration passes and is no run of its own: `MCUploadWorkflow_live_uploads`
(`OutcomeIsDelivered`: with 1 trouble and fairness every outcome is delivered). The
pipeline's safety, with `ManifestIsLast` and `RemoteIsProven`, was also checked on a wider
instance (2 troubles and 2 failures; 9.6 million states, 5 minutes).

The type invariants of the other modules (`TypeOK`, `RegistryTypeOK`, ...) and the inductive
invariants of section 6 hold in the instances of these runs as well and are not part of them.

Further configurations reproduce findings of section 5. Each of them is violated:
`MCTransferCoordinator_pause_cancels`, `_panic_cancels` and `_late_install`,
`MCUploadWorkflow_upload_stuck` and `_overwritten`,
`MCLibraryStore_stale_copy`, `_import_blocks`, `_stranded` and `_half_restored`,
`MCSessionDownload_seal_refused`, `_marker_stale` and `_flush_hole`, `MCDeviceConnection_pairing_stuck`,
`MCMediaImport_import_cancel`, `MCMediaPipeline_queue_full`. The other findings name
a property of the module and a run: the property is violated with the constants of that run,
or with one more trouble where the finding says so.

Why the bounds are enough:

- *Store.* Three rows are a parent and two siblings, the smallest lineage with an
  earlier and a later retry, or a parent, a child and a grandchild. Version 3 is
  create, one transition, complete, and the limit of the column is reached. The
  theorems of section 6 remove these bounds.
- *Coordinator.* Every job-level race is between one job's worker, one
  command and one tick, since commands of one job are serialised by its lock; two
  commands one after the other cover pause/resume and pause/cancel. Jobs meet only in
  the ready queue and in the leases, which two jobs and the smallest queue that refuses
  fill. `MaxVersion` = 24 is never reached. `live_commands` leaves pauses out because
  findings 1 and 2 together break `CancellingEnds`, and `live_queue` has no user because
  finding 1 breaks `NoUnrequestedCancel`; `OnlyCancelsCancel` (section 6) covers the other users.
  Two requesters are enough, since a third can only repeat what the second does; the
  constraint of `commands` cuts the behaviours that `_late_install` explores.
- *Registry.* Three rows of one session are a job, its retry and the retry's retry, or
  two requests with different plans.
- *Uploads.* A second attempt needs a first, and each attempt at most one multipart;
  a third adds no new kind of neighbour. Two troubles are, for example, a lost answer
  followed by a crash.
- *Library.* Two entries are needed for a batch and for a stale copy of *another* row;
  the theorems of section 6 remove these bounds. A failure and a crash break `RowKeepsFiles`
  (finding 8).
- *Download.* Three blocks and a checkpoint every two give a checkpoint, a
  remainder and a file that is longer than its journal; two revisions give a
  republication in the middle. Four troubles pass as well (6.1 million states).
- *Device, import.* Two attempts, keys, epochs or cards are a current and an earlier
  one, which is all any fence compares.
- *Derivation.* Two pairs are a checkpointed and an interrupted one, or a first and the last.
  Four commands are start, pause, resume and cancel; two users let a command be decided while
  another one waits.
- *Pipeline.* Of two pipelines, one's lane wakes the projector while the other's import ends;
  three uploads are an attempt, its retry and the retry's retry. One trouble besides the
  retries reaches every branch but the retry of an older parent, which the wider instance reaches.
  A queue of three never refuses; `_queue_full` has one of a single slot.

### Fairness

`FairSpec` (coordinator) assumes weak fairness of every thread's own steps (the operating
system schedules it) and strong fairness of entering a job's serial lock (a thread that
keeps finding it free now and then gets in; nobody holds it for ever). `RegistryFairSpec`,
`UploadFairSpec`, `ImportFairSpec` and `DerivationFairSpec` assume weak fairness of each thread that has work,
of the poll loop and of the startup thread; `DerivationFairSpec` also that a process
ends or is stopped by its supervisor. `PipelineFairSpec` assumes the same of the holder of
the gate, the lanes, the projector and the recovery of uploads, and nothing of an import, a
derivation or a restart; its properties except a process that is down or whose recovery was
halted, and `CompletionsProjected` a drain that failed. Nothing is assumed of the device, the card, faults,
crashes, shutdowns, or of a user to issue a command. A ticker's choice of the next job
is not assumed to be fair either. `JobFinishes` is conditional on the device staying ready
and the intent to run.

## 4. What the properties mean

- `PausedIsQuiet`, `TerminalIsQuiet`: after the answer to a pause, or once the row
  is terminal, no worker reads bytes for the job. They rest on the wait for the
  worker, which happens outside the lock. `PausedImportIsQuiet` is the same of imports
  and rests on the writer lock.
- `CancelAcked`: `Ok` from cancel means durably cancelled, although the worker,
  another cancel or a failure may end the job between its two phases.
- `OneWriterPerTarget`: also while one of two workers unwinds from a panic.
- `MemoryMatchesStore`: outside the critical section the published job is its row,
  also after a failed write in the middle of a two-commit route, and when an enqueue or a retry
  brings a job into memory. A retry that comes late breaks it (finding 26).
- `ImplementsLifecycle`: the store accepts any non-terminal state a caller commits.
  It is the reducer, the lock and the version check together that keep every durable
  step on a legal edge, and a restart adds no step of its own; a retry starts a new row and
  leaves the failed one alone. It needs `NoLateInstall` too.
- `LiveIsRegistered`, `EveryJobEnds`, `FinishedStaysFinished`: the maps may be out of step with
  the rows for a while (a second retry installs a child again over its worker), but no job
  is lost by it and none that ended runs again. What the stale entry does to the row
  of a job that has not ended is finding 26.
- `RetiredMultipartIsGone`: the row of a multipart is the client's only memory of it. It is
  deleted only once the object store cannot hold the multipart open, although the answer to
  an abort or a completion may be lost.
- `DoneIsBackedUp`: an entry shown as uploaded names a job that succeeded for the
  revision that is shown, and the key of each object holds the bytes of that revision, unless
  the last completion under the key came after its own revision was replaced (finding 27).
  Earlier revisions, repeats, other destinations and lost answers of completions do no harm.
- `RowKeepsFiles`, `FilesOutliveRow`: the delete protocol moves files aside before the row goes
  and destroys them after it. What a failed delete could not put back is still where the next start
  looks for it. The stronger `RowHasFiles`, that it is back in its place, does not hold (finding 24).
- `DeletedStaysDeleted`: the revision protects against a stale copy, except after finding 6.
- `JournalIsHonest`, `PublishedIsExact`: what a resumed request skips is on disk and belongs
  to the revision; what a job leaves behind is exactly what it was asked for.
- `NoNeedlessHole`: a file once shown is missing only when a crash fell between the two
  renames of its replacement, or when the flush between them or the rollback failed; a failed
  rename is rolled back. That every error return is, `ErrorLeavesNoHole`, does not hold (finding 28).
- `SessionIsConnection`, `ExpiredIsTrue`: no late answer opens, ends or
  feeds a connection it was not asked for.
- `VerifiedIsOnDisk`, `OneRecording`: a replaced card never mixes with the one before it.
- `StoppedIsQuiet`: the derivation's counterpart of `PausedIsQuiet`; it rests on `begin` and the
  settling reduction, which both take the command mutex. It excepts an operation whose row was
  settled under it by a pause that a resume had taken back (`crossed`, finding 23).
- `CheckpointedIsOnDisk`: discarding, taking back and publishing pairs never loses one that was
  checkpointed.
- `DerivationEnds`: excepts exactly the interruptions of findings 14 and 16.
- `AttachmentsKept`: `start` refreshes a row from a copy it read before reconciling; the
  store's replacement keeps what was attached in between.
- `OneLiveAttempt`: starting a pipeline again, or retrying one attempt twice, finds the live
  attempt rather than create another for the same bundle and storage.
- `UploadsSettle`: the row, its attachment and its wake-up are three commits, and no failure
  up to the attachment, of the object store or of the projector strands an upload while the lanes
  run. A store that fails later does (finding 29).
- `CompletionsProjected`: a derivation that is drained before its import stays in the outbox
  and is shown by a later drain; every lane's turn owes one.

## 5. Findings

Each is reproduced by the configuration named, or by checking the property named with the
constants of the run named.

1. **A pause can cancel the job** (`MCTransferCoordinator_pause_cancels`).
   `interrupt_outcome` (coordinator.rs:1861) reads a missing reason as a cancel. A pause that
   finds no active worker clears the interrupt at once; a worker that claims the job
   in between may have seen the flag and then finds no reason. The job ends in
   `cancelled`; docs/ARCHITECTURE.md:237 promises `retry_wait`.
2. **A cancel of a paused job can hang.** `tick` (coordinator.rs:1029) and `rehydrate`
   skip jobs whose intent is paused, whatever their state. When the second
   phase of the cancel is cut off, the job stays `cancelling`.
3. **The version fence orders tickets, not readings** (coordinator.rs:805). The number
   is taken before the reading, so a later number may carry an older fact and park a
   job again, which docs/ARCHITECTURE.md:241 excludes. The next reading repairs it.
   **Committing cannot be cancelled** (aggregate.rs:853), unlike the documented
   "any non-terminal state".
4. **A cleared job still blocks its session** (`ClearedMakesRoom`, `registry`). A request whose plan
   differs from an earlier one of the same session is refused with the advice to clear the
   earlier job first (composition.rs:1660), but clearing keeps the row that
   `read_latest_job_by_identity` finds (transfer_store.rs:2005, 2331). For the same reason
   a download of a session that has already ended is answered with success and starts
   nothing (coordinator.rs:861).
5. **An upload can stay "uploading"** (`MCUploadWorkflow_upload_stuck`). composition.rs:5263
   says the cancel "converges the row here so nothing can stay "上传中" forever". A
   cancel that comes between the start of the operation and the marking of the row ends the job
   and has its outcome delivered; the starting command then marks the row as uploading, and
   the worker finds the job already ended. The row stays that way with nobody at work.
   Nothing serialises the two deliverers, so an
   older outcome may overwrite a newer one. A crash between initiating a multipart
   and recording it leaks the multipart.
6. **A delivery adopts the revision without the rows** (`MCLibraryStore_stale_copy`).
   composition.rs:3587 and 3975 set the copy's revision to the store's after updating
   one entry. The copy is then stale with a current revision, and the next whole save writes a
   deleted row back; state.rs:58 says a stale copy cannot overwrite silently.
7. **A media import blocks later deliveries** (`MCLibraryStore_import_blocks`).
   `replace_media_library_entry_if_revision` (app_store.rs:480) moves the shared revision and
   nothing reloads the copy in memory, so every later save and delivery is refused until a
   restart; composition.rs:1839 says delivery converges on the next tick.
8. **A failed delete can strand another one** (`MCLibraryStore_stranded`). Its
   `recover_orphan_markers` removes the marker of a delete that is between marker and
   rename. When the process then dies, the moved directory has neither marker nor
   intent and is never put back; library_delete.rs:8 says the marker closes this window.
9. **A seal can refuse its own staging directory** (`MCSessionDownload_seal_refused`). A
   crash leaves a journal's temporary file beside the part; the finished file does not
   take it away, and the seal rejects unexpected files (staging.rs:768).
   Files left by a cancelled whole-session job make a selected-file job of the same
   revision refuse for the same reason.
10. **The completeness marker can be stale** (`MCSessionDownload_marker_stale`). A
    selected-file download of another revision replaces a file of a published session and
    keeps the marker that staging.rs:249 calls the session-completeness claim.
11. **A pairing can stay pending** (`MCDeviceConnection_pairing_stuck`). `connect_device` aborts
    the previous attempt's task before the new attempt exists (composition.rs:4363). When
    creating it fails, nobody polls the old attempt, and the actor keeps pairing;
    composition.rs:4341 says every outcome is emitted.
12. **An import cannot be cancelled** (`MCMediaImport_import_cancel`). The store refuses every terminal
    snapshot that is not a verified one (media_store/import_jobs.rs:92), so a cancelled
    import stays in `cancelling` and a permanent failure leaves it where it was. The design
    document (docs/REMOVABLE_MEDIA_IMPORT_AND_VIDEO_NORMALIZATION.md:453) has any non-terminal
    state end in `cancelled`.
13. **A receipt can describe another card** (`ReceiptIsTrue`, `media`). A pause accepted
    after publishing and before the commit is recorded, a resume, and a second card with the
    same weak claim: the second card is copied, found already published, and its
    digests go into the receipt of the first.
14. **An interrupted pair is never continued** (`InterruptedDerivationEnds` and
    `ResumedDerivationEnds`, `derivation`). A pair that
    is stopped, fails or meets a crash stays the row's current pair: no effect but its own
    checkpoint clears `current_pair` (normalization/job.rs:587), and `SetCurrentPair` is refused
    while one is set. Every later turn ends in that refusal. The design document (section 6.5)
    has the partial pair deleted and done again.
15. **A derivation can neither fail nor be cancelled** (`CancelledDerivationEnds`,
    `derivation`). As for imports,
    `compare_and_swap` refuses terminal snapshots (media_store/derivation_jobs.rs:110) and only a
    verified derivation has another way. Hence `retry`, which needs a failed row, is unreachable.
16. **A derivative can be published without its row.** A pause, a cancel or a crash between the
    rename of `commit_derivative` and the row leaves a derivative in the library, and the
    checkpoints' files gone from the staging directory, so that every later turn fails its checks.
    A pause in `validating` or `committing` sends the job back to `encoding` with every pair
    checkpointed, where no next pair is a failure. Both are exceptions of `DerivationEnds`.
17. **A cancel can be undone** (`CancelIsFinal`, `derivation`). A worker that saw a pause or a shutdown
    before the cancel overwrote the request reports that reason; `process_stopped`
    (job.rs:1003) sends a `cancelling` row to `retry_wait`, and the job runs again after the
    restart.
18. **A stuck child is acknowledged as stopped** (`StoppedIsReaped`, `derivation`). When a child outlives
    its kill grace, the failure cannot be stored (finding 15), so that `command`'s check for it
    (engine.rs:993) never fires, and the pause is answered Ok with the process alive; the design
    document (section 12) wants a typed failure there.

19. **A derived upload's outcome can be acknowledged unseen** (`AckedIsShown`, `pipeline`). The
    delivery of LAN uploads polls every unacknowledged outcome and acknowledges one whose entry
    it does not own (composition.rs:3852), so the projector does not find it;
    ubuntu_projector.rs:16 says acknowledging happens only after the library committed.
20. **A crash after `prepare` halts the media recovery** (`RecoveryCompletes`, `pipeline`).
    ubuntu_pipeline.rs:967 calls the prepared row harmless, "replay will attach it". At the next
    start the reconciliation of interrupted uploads has already cancelled it (composition.rs:5322),
    its natural key is unique (schema.rs), so the replay is refused, the first error ends
    `reconcile_all`, and the lanes are not started, at this and every later start. Changed
    storage settings stop `reconcile_all` in the same way.
21. **An interrupted derived upload is cancelled** (`CancelledWasAsked`, `pipeline`). The same
    startup step cancels every live derived upload, and a cancelled one is not
    retryable. `recover_pending_uploads` (ubuntu_uploader.rs:291) hence never finds one.
22. **A full wake queue strands an upload** (`MCMediaPipeline_queue_full`). ubuntu_uploader.rs:1422
    says startup or the next reconciliation discovers the row again. A reconciliation does not wake
    an upload that is attached, and the startup cancels it.
23. **A pause that was taken back can settle a running derivation.** media_normalizer/engine.rs:889
    says "settle a stop under the same job mutex. A worker racing to begin must observe the
    resulting RetryWait/Cancelled state and cannot spawn after acknowledgement", but the mutex is
    dropped before the settling reduction (engine.rs:894). Between the two, a resume takes the
    pause back and a worker begins an operation; a second pause makes the row `pausing` again, and
    the first pause's settling moves it to `retry_wait` under the running process. After a
    further resume, a pause is answered Ok at once although the process runs. The proof of
    `StopIsQuiet` found it: it takes six commands of two users, and `StoppedIsQuiet` without its
    exception is violated with that many.
24. **A failed delete can leave its entries in the trash** (`MCLibraryStore_half_restored`). When staging
    fails, `delete_entries` scans the markers "to restore any entries staged before the failure"
    (library_delete.rs:135). A download that published one of the entries again meanwhile
    makes the scan stop there (library_delete.rs:648); the leases are released, and the entries that the
    scan had not reached stay in the trash while their rows are shown. The next start
    meets the same ambiguity and does not come up (state.rs:418).
25. **A panic that is not stored can cancel the job** (`MCTransferCoordinator_panic_cancels`). When
    the write of a panicked worker's failure fails, the job stays `transferring`, and the
    worker still clears the interrupt, outside the critical section (coordinator.rs:761). A tick that
    finds the device gone in between may raise its flag after the flag was cleared and before the
    reason is: the next worker finds the flag without a reason and, as in finding 1, cancels.
26. **A second retry can put an old snapshot over a job** (`MCTransferCoordinator_late_install`).
    `retry_download` takes no gate (composition.rs:2090). Of two retries of one failed job the second
    is given the first's child (transfer_store.rs:1588); both may find it absent from the map
    (coordinator.rs:1998), and the later `jobs.insert` (2118) replaces an entry that a worker has
    moved on since, while the cell keeps its version. Memory then differs from the row with nobody
    inside the critical section, which `cells` is there to exclude, and a tick that finds the device
    ready commits `preparing` over a row that is `transferring`, an edge that
    `is_legal_transition` (aggregate.rs:66) does not have. An enqueue of the same session may
    cross a retry in the same way.
27. **A replaced revision can overwrite an upload shown as done** (`MCUploadWorkflow_overwritten`). The
    object key has neither the job nor the revision (composition.rs:6122), "kept stable so re-uploading
    the same file after a retry lands on the same key". A worker checks for a cancel before it completes
    its multipart (line 7856) and not after. When its job is cancelled in between, its
    entry replaced by a new revision, and the new revision uploaded and shown as done, the old
    worker's completion puts the old bytes under the key. A bucket that keeps versions still has the
    new ones, under the version the receipt names; one that does not has lost them.
28. **A failed flush leaves a hole** (`MCSessionDownload_flush_hole`). staging.rs:996 says that
    "callers never observe a needless hole in the visible library after an ordinary error return".
    When the directory cannot be flushed after the old tree was moved aside, `fsync_dir(..)?`
    (staging.rs:989; 1180 and 1182 for a selected file) returns before the new one is renamed
    and puts nothing back; so does a rollback whose own rename fails (1001, 1188). The next attempt
    at the same revision repairs it.
29. **A failure after the attachment strands an upload** (`LostIsFound`, `pipeline`). Reading the
    projection (ubuntu_pipeline.rs:568) or the attached uploads (ubuntu_uploader.rs:424) may fail
    before the wake-up, the same reading after the id was taken from the queue (434), and
    `complete_failed` when the failure of a transfer is recorded (456). The upload is then attached,
    live and in no queue. ubuntu_pipeline.rs:565 knows of the first case and calls the child
    dormant; ubuntu_uploader.rs:1421 says that startup recovery and "the next reconciliation will
    discover the row again", but a reconciliation does not wake an upload that is attached, and the
    startup cancels it (finding 21).

Smaller observations on the pipeline: a cancel does not stop the worker, and
`start_or_resume_transfer` accepts a terminal row; retrying an older parent leaves a retry row
that nobody runs until the newest attempt is retried; a failed drain is repeated only at a
lane's next turn.

Smaller observations on derivations: nothing wakes a job that waits for its source; a repeated
pause or cancel, and a pause of a job that is being cancelled, are answered Ok while a process
is still active; a stop requested before the first process of an operation is spawned is
reported as a failure (adapters' media_normalizer.rs:1253).

Smaller observations on imports: a retryable failure of the worker overwrites `pausing` and
`cancelling`; a crash between a pause and its acknowledgement leaves `pausing`, which
recovery skips and a repeated pause does not repair (ubuntu_ingestor.rs:659); the worker's
stop request after its own `retry_wait` may land after the user's retry cleared it, and the
job then waits for another command. recovery.rs:15 says every retryable failed job is
rehydrated; the query selects only live rows (transfer_store.rs:1090).

## 6. Proofs

Eight modules hold theorems. Each follows one pattern: `Init => Inv`,
`Inv /\ [Next]_vars => Inv'` and `Inv =>` the property, where `Inv` is the inductive invariant
named below. TLC checked every `Inv` on the instance of the module's run before it was proved. The
theorems hold for every value of the constants, so for any number of threads, jobs, files and
crashes; what the bounds of section 3 cut off is covered here.

### The store

`StoreProofs` proves, for every set of jobs, identities, digests and files,
every file size and every bound, and for arbitrary callers:

| Theorem | States |
|---|---|
| `StoreTypeCorrect` | `StoreSpec => []StoreTypeOK` |
| `OutboxAgrees` | `StoreSpec => []OutboxMatchesRow` |
| `DismissedDelivered` | `StoreSpec => []DismissedIsDelivered` |
| `LineageSound` | `StoreSpec => []LineageIsSound` |
| `AtMostOneLiveChild` | `StoreSpec => []OneLiveChild` |
| `OneDigest` | `StoreSpec => []OneDigestPerIdentity` |
| `UndeliveredSurvives` | `StoreSpec => UndeliveredOutcomeSurvives` |
| `TerminalFinal` | `StoreSpec => TerminalIsFinal` |
| `EvidenceMonotonic` | `StoreSpec => EvidenceIsMonotonic` |

*Assumptions.* `StoreConstants` only: sentinels differ from real values, committed
states are non-terminal states of the graph, the bounds are positive. TLC evaluates
it in every run.

*Argument.* `StoreInv` is the conjunction of the six invariants, all of which the
`lifecycle` run checks as well. Every part rests on the type invariant. `OneLiveChild`
is not inductive by itself: it needs `LineageIsSound` (a row that is not there has no
link, so a new child does not overwrite one) and its own ordering of attempts (the latest
has ended and all earlier ones are below it, so all have ended). The action properties are
not consequences of the methods' guards alone: they need `OutboxMatchesRow`, by which a row
with an undelivered outcome is terminal, so that `complete_job` and `transition_job` refuse
it and `delete_job` and `retarget_job` see the outcome.
One *effect lemma* per method states what it does to each job; the invariants are then
proved method by method from those lemmas, without opening the methods again.
`MostKeepRows` gathers the methods that neither remove a row nor write the lineage, so
that the two lineage invariants need one argument for all of them. The three action
properties follow from `StoreInv` and the effect lemmas.

### The library

`StoreProofs`, for every set of entries, deletes and deliverers, any number of saves, downloads,
imports and uploads:

| Theorem | States |
|---|---|
| `LibraryInvariant`, `LibraryTypes` | `LibrarySpec => []LibraryInv`, `[]LibraryTypeOK` |
| `FilesOutlive` | `LibrarySpec => FilesOutliveRow` |
| `DeletedRowsStay` | `LibrarySpec => DeletedStaysDeleted` |
| `RowsKeepFiles` | `FewMishaps` implies `LibrarySpec => []RowKeepsFiles` |

*Argument.* `LibraryInv` follows each delete: which intents its step has recorded (`IntentsFollow`) and
what may lie in the trash under its name (`TrashFollows`), which is why only a committed
delete destroys anything. `DeletedStaysDeleted` is about the copy in memory: a copy of the current
revision is the library, a delete that is yet to commit saw its entries, and one that has committed
is alone and leaves memory without its entries (`CopyIsCurrent`); all of it ends with finding 6,
where memory takes over a revision without its rows (`adopted`). `RowKeepsFiles` needs `FilesInv`
on top: every payload whose row is there, *or is about to be written by a delivery that read the
current revision*, has a staged intent, a marker without an intent, or a delete that will go on or
undo it. Until something fails, every payload in the trash has its marker while its delete
stages (`StagingMarked`).

*Assumptions.* `LibraryConstants`; and `FewMishaps` for `RowsKeepFiles`: no step fails (any number of
crashes), or at most one failure or crash in all. Finding 8 shows that a failure followed by a
crash breaks it.

### The coordinator

`TransferCoordinatorProofs`, for any number of workers, tickers, clients, requesters, jobs and
directories, in every behaviour in which no install is late (finding 26):

| Theorem | States |
|---|---|
| `CoordinatorInvariant` | `Spec /\ []NoLateInstall => [](CoordinatorInv /\ RequestInv)` |
| `WritersAreApart` | `Spec /\ []NoLateInstall => []OneWriterPerTarget` |
| `MemoryIsTheStore` | `Spec /\ []NoLateInstall => []MemoryMatchesStore` |
| `PausedJobIsQuiet` | `Spec /\ []NoLateInstall => []PausedIsQuiet` |
| `FinishedJobIsQuiet` | `Spec /\ []NoLateInstall => []TerminalIsQuiet` |
| `CancelIsDurable` | `Spec /\ []NoLateInstall => []CancelAcked` |
| `CoordinatorRefinesLifecycle` | `Spec /\ []NoLateInstall => ImplementsLifecycle` |
| `OnlyCancelsCancel` | `Spec /\ []NoLateInstall /\ []NobodyPauses /\ [][PanicsAreStored]_vars => []NoUnrequestedCancel` |

*Invariant.* Each property depends on what threads are in the middle of. `CoordinatorInv` says
of every thread what its place in the code lets it rely on: inside a job's critical section it
holds the lock and the rest of its decision still fits the job (`Plan`, `Held`: the
commits follow the graph from the state the job has now, at the versions it will have);
a worker owns its job, and its directory while its guard lives (`Owns`, `Apart`); a cancel past
a step left the job cancelling or ended (`Cancels`), a pause past a step left the intent paused
unless a resume took it back (`Pauses`); a client that has waited finds no worker reading for its
job (`Quiet`). A job in the map agrees with its row at every step, not only when the lock is free.
`RequestInv` is about enqueues and retries: what one took from the store is still the row as long as
the job is not in the map (`Fresh`), since only a thread that finds a job in the map
changes its row. With `NoLateInstall` this makes what `Install` writes the row.

*Argument.* First the graph and the reducer: which effects a decision may hold, one lemma per
command. Then what a step of one thread leaves to the others, since a thread changes a job only
inside its critical section or as its worker, and a requester only one that is not in the map.
Then the steps of workers, tickers and clients, those of `apply_checked`, those of requesters, and
the restart, which leaves only rows. `PausedIsQuiet` concerns a
client that was answered after its lock was released: a resume that enters meanwhile marks
the pauses it takes back (`Overtaken`), the ones not yet answered too, so that a late
answer does not count as a pause in force.

*Refinement.* `JobLifecycle`'s variables are mapped to the rows and the outbox. A commit
of `apply_checked` maps to one edge because the plan says so, a completion to the edge that
announces, a row that an enqueue or a retry writes to `Create`, every other step to a stutter,
restarts included. The second half of a
two-commit route is a step of its own, and its version fits because the lock is held from
the first to the last effect.

*Only a cancel cancels.* The flag and the reason of an interrupt are written and cleared one after
the other, and a worker that finds a flag without a reason cancels. `OnlyCancelsCancel` says when that
cannot happen unasked. Besides `NoLateInstall`, its hypotheses rule out the commands of findings 1 and 25:
`NobodyPauses` says that no pause is under way, `PanicsAreStored` that the write of a
panicked worker's failure succeeds; cancels of other jobs, resumes, every other failed write, shutdowns
and restarts stay. The proof needs a second invariant, `InterruptInv`, beside `CoordinatorInv`. A job
nobody cancels has no reason that says cancel, no thread holds an effect that would commit one, and every
raised flag is `Explained`: it has a reason; or the job has ended; or a worker that
wiped the reason has still to clear the flag inside the critical section (`Clears`); or the process is
stopping and no worker of the job will look at a flag again (`Past`). The hard steps are `ClearReason`,
which runs outside the lock while a tick may be between the reason and the flag, and `WipeReason`,
where no other thread can be.

*Assumptions.* `CoordinatorConstants`: threads of different kinds differ, the set of jobs is finite
(the restart counts the ones it queues), the queue holds at least one job.

### The registry

`JobRegistryProofs`, for any number of threads, rows, sessions and plans: `RegistryInvariant`,
`NoJobIsForgotten` (`[]LiveIsRegistered`) and `FinishedIsFinal` (`FinishedStaysFinished`). The property
says nothing of a job that a command is bringing into memory or clearing. `RegistryInv` adds
that a command which brings a running job brings its row's version and that what it has put
in memory is still there (`BringsTruth`), that one which clears or repeats a job holds one that
has ended (`ClearsEnded`), and that a running job is in all three maps or about to be
(`Registered`, `HasWorker`). *Assumptions:* `RegistryConstants`, the poll loop is no caller.

### The device connection

`DeviceConnectionProofs`, for any number of callers, attempts, keys and events:
`SessionMatchesConnection` (`[]SessionIsConnection`) and `ExpiryIsTrue` (`[]ExpiredIsTrue`). The second is
about a heartbeat asked in one state and answered in another. `DeviceInv` adds that a number is
given to one attempt only (`NumberedOnce`), that an attempt is decided once (`AnswerIsTrue`,
`RefusalIsTrue`) and that an epoch belongs to one session (`EpochIsSession`): an answer that
passes the epoch fence is about the token in use. *Assumptions:* finitely many callers, since
the numbering counts them; a session is not the absent one.

### Uploads

`UploadWorkflowProofs`, for any number of jobs, command threads, multiparts and objects, and any number of
lost answers, crashes and edits: `UploadInvariant`, `NoMultipartIsLeaked`
(`[]RetiredMultipartIsGone`), `ContentInvariant` and `UploadedIsBackedUp` (`[]DoneIsBackedUp`).
`UploadInv` adds what a worker holds of its multipart at each place (`WorkerOk`: an object once it is completed, not open
once its abort was answered), that a multipart without a row belongs to one worker (`TracksApart`;
without it the abort that answers a refused row could take away another worker's object), that a
deliverer's list has ended jobs only and that what it writes fits the entry while its snapshot is
current (`DeliveryOk`), and that a receipt names an object (`ReceiptsAreObjects`). The proof states
once what a step may change (`Forward`) and what is owed for what it does change (`Accounted`); each
action is then shown to do both. What the keys hold is a second invariant, `ContentInv`: an object that
a job of the revision shown now has completed, from its verification on, lies under its key unless
the last completion there was late (`BackedIsShown`). Two jobs share a key, so this is a
statement about every pair of them: a completion of another revision marks the key, one of the
same revision writes the same bytes, and a new revision leaves no job that relies on a
key. Nothing is assumed of the bucket. *Assumptions:* `UploadConstants`, that the kinds of threads and
the absent values differ from the rest. The leak of finding 5, a multipart that a crash leaves
before it has a row, is outside `RetiredMultipartIsGone`, which is about rows that were deleted.

### The download

`SessionDownloadProofs`, for every number of files, blocks and revisions, every checkpoint
interval, every set of requests, and any number of crashes, failures and republications:

| Theorem | States |
|---|---|
| `DownloadInvariant`, `DownloadTypes` | `DownloadSpec => []DownloadInv`, `[]DownloadTypeOK` |
| `ResumeIsSafe` | `DownloadSpec => []JournalIsHonest` |
| `RollbackIsWhole` | `DownloadSpec => []NoNeedlessHole` |
| `PublicationIsExact` | `DownloadSpec => []PublishedIsExact` |

`DownloadInv` adds what the steps between two durable writes rely on: finished files are
verified, and the staging area's markers true of them (`CopyIsVerified`); the part file under a
body, the checkpoint about to be written and the offset of a resumed request agree (`BodyIsOne`,
`PendIsHonest`, `OffsetIsTrue`), which is why a crash that cuts the unsynced tail cuts nothing the
journal confirms; what the rollback of a replacement would put back (`HolesAreKnown`); which
files are in place already (`PublishedSoFar`). *Assumptions:* `DownloadAssumption`, that
requests name each file once and a whole-session request all of them, and that the absent
value is none of the values it stands beside.

### The import

`MediaProofs`, for any number of files, blocks, recordings, users, cards, commands and
failures: `PausedIsQuiet` (`[]PausedImportIsQuiet`), `VerifiedFilesExist` (`[]VerifiedIsOnDisk`) and
`NothingIsMixed` (`[]OneRecording`). `ImportInv` adds who holds the writer (`WriterIsHeld`), which card
is behind the fence (`FenceFollows`), what the open source is (`CopiesFromActive`, `FileInHand`), what an
offered card may find (`OfferIsSafe`) and what a commit begins with (`CommitIsWhole`); the last two
properties are stated for the digests of the turn as well as for those of the row, because a
turn may end before it has recorded what it saw. *Assumptions:* `ImportAssumption`, `NoneIsNone`.

### The derivation

`DerivationProofs`, for any number of pairs, users, commands and troubles: `DerivationInvariant`,
`DerivationTypes`, `StopIsQuiet` (`[]StoppedIsQuiet`) and `CheckpointsKept` (`[]CheckpointedIsOnDisk`).
`DerivationInv` adds that the control of the process follows the lane (`Supervised`), that the lane
works only on a row that is active or being cancelled (`OnActiveRow`), that a pause yet to be
settled keeps the lane out as long as nobody took it back (`Settles`), that the current
pair is the next one, which is why a discard never removes a checkpointed pair (`RowKept`), and
that what is about to be checkpointed or committed is there (`LaneKept`). Without the exception
`crossed`, `StoppedIsQuiet` is false for six commands (finding 23); the smaller instance of the run
does not reach that. *Assumptions:* `DerivationAssumption`.

### The pipelines

`MediaProofs`, for any number of pipelines, upload rows, objects and storages, any policies and
queue, and any number of crashes, failures, retries and commands:

| Theorem | States |
|---|---|
| `PipelineInvariant`, `PipelineTypes` | `PipelineSpec => []PipelineInv`, `[]PipelineTypeOK` |
| `OneLive` | `PipelineSpec => []OneLiveAttempt` |
| `KeepsAttachments` | `PipelineSpec => AttachmentsKept` |
| `ManifestComesLast` | `PipelineSpec => []ManifestIsLast` |
| `RemoteProven` | `PipelineSpec => []RemoteIsProven` |

*Argument.* The pipeline rows and the upload rows are in two stores, and an operation commits to one at a
time. `PipelineInv` says what holds between any two commits: a row names an upload of its
own pipeline and storage (`RowsOwn`), a retry is of its parent's (`Lineage`), what a
checkpoint counts is in the bucket and a success counted everything (`Verified`). `GateHolds` is
about the copy of a row that an operation carries: before an attachment it is the row, since
only the holder of the gate replaces rows; for the refresh of a start it is the row or has an
older version, because the start's own reconciliation may have replaced the row, so a refresh never
takes anything back. The retry in hand is of a parent that failed and may be retried, which
is what lets `AttachRetry` exchange the row's upload. `LaneHolds` and `ProjHolds` keep what the lane
and the projector hold in the upload store. `OneLive` rests on the lookup of the active attempt in
`prepare_for_derivation` and `prepare_retry`: a row is created only where none is live.
*Assumptions:* `PipelineAssumption`.

### Only model-checked

All liveness, which is out of the prover's reach. Every invariant and action property of the runs
is stated by a theorem; `RowKeepsFiles` and those of the coordinator under the hypotheses their
theorems name, without which findings 8, 1, 25 and 26 break them.

## 7. Not modelled

Logging, progress counters, fault diagnostics and error texts; JSON columns, schema
migrations and the one-off legacy import; signature checks; the adapters' I/O, which
is the environment of the models; views and styles. `PROJECT.json` lists every part
with its reason. In particular:

- `drain_completions` (completion_consumer.rs) has no caller outside tests;
- parts and checkpoint versions of derived uploads, their dismissal, and the retention and
  deduplication of the media library;
- the recognition of cards (`ingest/detector.rs`), a parser with no state;
- several devices at once: they share nothing but the map that finds them.

Branches that modelled code has and the models do not:

- `JobCommand::Transition` (aggregate.rs:548), which only the upload store uses;
- a torn delete marker (library_delete.rs:886), downloads that end without success (their delivery
  shows a failure and keeps the entry, composition.rs:3579), and the check for live upload rows in
  `entry_busy_reason` beside the lease (library_delete.rs:495);
- a device that refuses the range of a part which is not whole (download.rs:1143): the part is
  discarded and the file fails; and a selected-file marker that could not be replaced, which
  leaves the old one;
- answers to a pairing that are malformed or name another key (actor.rs:872, 905, 932;
  composition.rs:4404, 4438): they end the attempt like a rejection, with another error;
- a copy whose truncation or final rename fails (recording_ingestor, lines 885 and 903): its
  effect on disk is that of a crash at the same place;
- the dismissal of a derivation, and a lease of the source that is lost between two of its pairs;
- a pipeline started on an import that exists already, and commands to a pipeline whose import
  has ended, other than approvals and retries.

## 8. Plan

The frontend's merge by revision; parts and dismissal of derived uploads.
