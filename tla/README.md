# FrameNest in TLA+

FrameNest is a household media server: one Python process (one Uvicorn worker)
over one SQLite catalogue and a few directories.  Clients upload media, or have
them fetched from YouTube and X; the server validates, deduplicates, publishes,
catalogues and analyses them; administrators edit, review, publish and remove
them; research requests run at an external provider under a budget.  A second
package, `kronika_capture`, is a bridge with a journal of its own through which
prompts are sent on a browser page.  Around the server work timers that back the
catalogue up, workstations that deploy releases and credentials, and the web
client.  This directory models the parts whose correctness depends on order: of
coroutines, threads, processes, transactions, file-system effects, lost replies,
stops and power losses.

Contents: [1 inventory](#1-inventory), [2 plan](#2-plan),
[3 modules](#3-what-the-modules-model), [4 runs](#4-runs),
[5 fairness](#5-fairness), [6 findings](#6-where-code-and-documents-disagree),
[7 proofs](#7-proofs), [8 not modelled](#8-what-is-not-modelled-and-why).

To repeat the checks: `tlc -config X.cfg M` for a run of section 4 (the module of
each is in the table) and `tlapm X_proofs.tla` for the theorems of section 7.

## 1. Inventory

| Component | State | Operations | Interacts with | What is hard |
|---|---|---|---|---|
| Session locks (`UploadSessionLockRegistry`) | key → (lock, references) | lease, wait, hold, release, cancelled wait | every upload handler and coordinator | entry dropped under a waiter, cancelled wake-ups |
| Upload transport (`upload_transport.py`, quarantine storage) | `upload_sessions` row, quarantine file | create, PATCH, complete, cancel, discard/keep, expire | repository, quarantine, locks | file and row are two stores; crash, unknown commit, repeated requests |
| Validation coordinator | wake event, startup flag, page | discover, lease, claim, examine, record | session rows, quarantine | abandoned claims, stale pages, identical uploads |
| Publication coordinator | wake event, reservation row, temporary and final names | reserve, copy, flush, link, fsync, unlink, commit, clean | quarantine, published root | durability order over two stores |
| Catalog coordinator | wake event | catalogue a clean publication | catalogue rows, analysis notifier | only after cleanup |
| Media analysis | run rows (pending, analyzing, analyzed, failed) | schedule, request, claim, requeue, record, reset | coordinator, preview and movie handlers on threads, provider | one table for two kinds of run, reset of runs that are not interrupted, three limits of attempts |
| X and YouTube acquisition | claim and asset rows, queue order, staging files | submit, inspect, download, hand off, project, retry, fail, clean | upload transport, downloaders | restarts in every state, partial success, a medium removed while its claim is resolved, limits per requester |
| Research | request rows, active slot, budget holds, remote responses | admit, submit, poll, cancel, complete, release, reconcile | provider, records | whole-row saves by concurrent threads, two transactions per finish, no blind resubmission |
| Capture bridge (`kronika_capture/bridge`, headless runner) | journal: jobs, service record with its epoch; each manager's copy; the runner's place in its loop | create, cancel, watchdog; hello, next, events, result; resume; restart | clients, administrator, browser page | lost replies, unknown commits, two managers over one journal, a runner that was replaced, a resume that comes late |
| Records, publication, review | metadata, receipts, sources of tags, publication, record and approved snapshot | save, review, publish, bind, prepare, approve, withdraw, read | analysis runs, covers | the same rule in SQL and in Python, approval in two transactions, versions |
| Covers, previews, catalog removal | rows, content-addressed files, receipts of removals | accept, regenerate, generate; preview, remove, clean up, retry | file system, publication | files replaced under a reader, a preview that is stale, cleanups that overlap |
| Backup and recovery | backup root, `status.json`, off-device volume, workstation's store | daily attempt, retention, verification, copy, pull | timers, operators | a process killed between two links, damaged copies, a clock set back, parts of bundles |
| Deployment (`deploy/ubuntu`) | release trees, link, record for rollback, credential, drop-in, configuration, service | deploy, rollback, install credentials | ssh, systemd | a lost answer at any command, two workstations, undo of an undo |
| Web client (`app.js`, upload cockpit) | page state, local storage, coroutines in flight | select, start, pause, resume, cancel, resolve, poll, reload | the server's upload API | late answers, cancel against a PATCH in flight |
| AI settings | one JSON file, revision, lock file of the connection test | list, edit, apply; shell commands; test | research, analysis | read, change and replace by pages and processes |
| Start and shutdown | coordinators, deadline, tool's process group | SIGTERM, grace period, reverse shutdown, kill | systemd, ffprobe, threads | a stop against a running tool, threads that cannot be stopped |

`PROJECT.json` lists all components with their sources, what each model leaves
out, and, line by line, the hazards: what a test would hardly reach.

What makes each part correct:

* **Locks** – at most one user per session; every waiter gets in or leaves;
  first come, first served; nothing left behind.
* **Transport** – an acknowledged byte is never lost; only a whole file is
  received; nothing is written after the end; a client can always carry on.
* **Pipeline** – the bytes exist in quarantine or the library at all times;
  one canonical upload per content; every upload settles; every state change is
  one the domain's table allows.
* **Acquisition** – what succeeded has its medium, what reached the library is
  known to its claim, nobody gets at another's private medium, every claim ends.
* **Research** – one active request; no generation is issued twice; a cancelled
  request stays cancelled unless a handler still holds an older row; a hold is reconciled once; no remote response is
  forgotten.
* **Capture bridge** – a prompt is sent at most once; an acknowledged job or
  result is durable; one job in flight; after an end that nobody saw, the service
  opens only when an administrator has seen it.
* **Analysis** – bounded attempts; results are not overwritten by a recovery
  that took a live run for a dead one; no wake-up is lost.
* **Records and removal** – lists and pages decide alike; the family sees the
  content of the version an administrator named; nobody's words are ascribed to a
  model; covers and previews show the file they are filed under; a receipt of a
  removal that says complete is true.
* **Backup** – retention keeps a floor of restorable bundles; ready means
  restored; a copy is a proved bundle.
* **Deployment, client, settings, shutdown** – a report is true; keys are changed
  whole or not at all; a confirmed cancel silences the page; a write to the
  settings is one person's edit; the shutdown ends and leaves no tool behind.

## 2. Plan

One module per component, the components that share a row or a file in one
module.

| Module | Component | Role |
|---|---|---|
| `UploadSessionLock` | lock registry | the mutual exclusion the two upload modules rely on |
| `UploadTransport` | one session up to validation's claim | row against file |
| `UploadLifecycle` | the state graph of `domain/uploads.py` | abstract specification |
| `UploadPipeline` | validation, publication, cataloguing | detailed; implements `UploadLifecycle` |
| `XAcquisition`, `YouTubeAcquisition` | acquisition | claims from submission to the catalogued medium |
| `Research` | research coordinator, budget, provider | threads with stale rows |
| `MediaAnalysis` | run rows, coordinator, handlers | compare-and-set rows, two kinds of user |
| `CaptureBridge` | job manager over its journal, runner, administrator | lost replies, fenced epochs |
| `MediaRecords` | metadata, review, publication, approval, reading | two implementations of one visibility rule |
| `CatalogRemoval` | covers, previews, removal | rows against content-addressed files |
| `CatalogBackup` | bundles, ledger, retention, copies | effects cut off at any point |
| `Deployment` | release and credential helpers | scripts of remote commands with undo |
| `UploadClient` | upload cockpit of the web client | coroutines under generations |
| `AiConfiguration` | settings file | read, change and replace |
| `Shutdown` | end of the process | event loop, threads and a tool's process group |
| `MC…` | | instances for TLC |
| `…_proofs` (8) | transport (with its locks), pipeline, acquisition (of posts and videos, with the end of the process), research (and the settings), analysis, bridge, library (records and removal), outside (backup, deployment and web client) | theorems |

The modules of the upload part fit together by what each leaves to the next:
`UploadSessionLock` shows that one coroutine at a time runs the leased body of a
session, so `UploadTransport` has a single `holder` and `UploadPipeline` lets a
worker take a session only when no other is `on` it (`Free`).  `UploadTransport`
shows that a session is received only with a whole file; `UploadPipeline` starts
with sessions whose bytes are whole and whose client is about to complete them.
The acquisitions hand a staged file to the transport and see the upload as an
environment that goes through the states `UploadLifecycle` allows; `UploadClient`
sees the server in the same way.  `MediaAnalysis` starts at the notification that
a catalogued upload sends, `MediaRecords` at its result.  `CatalogRemoval` shares
with `MediaRecords` the publication, the binding and the cover, each reduced to
what the other needs.  `Shutdown` shows what a stop does to the coordinators, which the other
modules take as "a stop may come at any step".  `CaptureBridge` stands alone: it
has its own database and process.

Left for the next step: **the queue of `YouTubeAcquisition`** (the second conjunct
of `YouTubeTypeOK`), which a theorem in `Acquisition_proofs` would show to list
exactly the active claims.

## 3. What the modules model

Each definition is mapped to its lines in `PROJECT.json` ("map").  A coroutine's
code between two awaits, an executor call and a SQLite transaction are one step
each; between steps anything may happen that the code allows.  Definitions that
a comment calls a *mutant* are not part of a specification: each is a plausible
bug that the property beside it in `PROJECT.json` is known to catch.

### UploadSessionLock

`registry`, `references` and `locked`/`waiters`/`woken` are the dictionary, the
counts and the `asyncio.Lock`s of `UploadSessionLockRegistry`; `session`,
`entry` and `pc` are the leases.  `EnterNew`/`EnterExisting` create or find an
entry and take the lock if nobody queues; `Granted` is the wake-up of the first
waiter; `Exit` releases and forgets; `CancelWaiting` is a cancelled wait,
including the one that was woken but has not run, whose wake-up
`asyncio.Lock.acquire` passes on.  The lock is asyncio's, external to the
repository, modelled from its use (FIFO queue, wake on release and on cancel).

### UploadTransport

`row` (state, offset, version) and `file` (bytes, how many are fsynced) are the
two stores; `holder` is the lock; `req` holds what each request has read so far
(`seen`) and where it is; `acked` remembers the bytes acknowledged to the
client.  A PATCH is `Acquire`, `StartReceiving`, `Prepare` (reconcile file and
offset), `WriteByte`/`AbortBody`, `Fsync`, `Advance`, with `Recover` for the
rollback after an error whose commit may or may not have happened; `CheckStaged`
and `Accept` complete, `CancelRow` and `RemoveFile` cancel, `Expire` expires,
`Claim` is validation's compare-and-set.  `ProcessStops` forgets the requests,
`PowerLoss` also the bytes that were not flushed (any prefix may survive),
`Damage` truncates the file between requests.

Left out: the free-space check, a removed root, session reads, several clients'
identities.  Committed rows are durable (SQLite, default journal); a file's name
is durable with its first fsync (the directory is not fsynced), and an unlink
does not come back after a power loss.  Files of expired, failed or rejected
sessions are never removed, by the code's design.

### UploadPipeline and UploadLifecycle

`upload` and `publication` are the rows, `staged` and `target` the quarantined
file and the temporary and final names of the library, `worker` the three
coordinators with the page each has listed, `wake` their events.  `StartPass`
lists candidates; `LeaseValidation`, `LeasePublication`, `LeaseCatalog` take a
session's lock and read the row again; `Examine`, `Reject`, `FailValidation`,
`RecordSuccess` validate (`CanonicalExists` is the duplicate check made in the
transaction that records); `Reserve`, `LookAtTarget`, `OpenTemporary`,
`CopySource`, `FlushTemporary`, `LinkFinal`, `FsyncDirectory`,
`UnlinkTemporary`, `CommitPublished`, `RemoveSource`, `MarkClean` publish, each
effect a step; `CommitCataloged` catalogues.  Clients `Complete`, `Cancel`,
`KeepSeparate` and `Discard` under the lock; sessions `Expire`.

A page is a snapshot of all candidates (the code pages with a cursor), a retry
delay is an arbitrary wait, content is a value per session.  Errors occur before
a commit, not after it (the transport models the unknown commit).  The second
directory fsync, foreign files at a target's name, and a shutdown that leaves an
executor thread running (the same as a stop at that point) are left out.  After
a power loss names without a directory fsync may or may not survive, and data
without fsync is partial.

`UploadLifecycle` has one variable and the moves of
`ALLOWED_UPLOAD_SESSION_TRANSITIONS` with the two edges that only the
specialised commits take.  The repositories' UPDATE statements do not consult
that table, so that they keep to it is a result: `ImplementsLifecycle`, with the
states of the upload rows as refinement mapping.

### XAcquisition

`postClaim` and `asset` are the rows of a post and of its media, `folder` the
artifacts in the staging on disk, `transfer` the upload session each asset was
handed to.  `SubmitPost` admits under the limits; the drain (`Process`) runs a claim's chain of
transactions: `Queue`, `StartExtraction`, `Extract`, then `StartAssetDownload`
and `DownloadAsset` asset by asset, `AdvanceToHandoff`, `HandoffAsset` (create, PATCH and
complete an upload session), `ProjectAsset` (what became of it) and `FinishPost`.
`Trouble` breaks the chain where a call raises or the process stops; the next
drain goes on from the rows.  `RetryExtraction` and `RetryAssets` are the
requester's retries with the conflict rules of the repository,
`ReconcileCleanup` is the cleanup at a start.  The upload itself is an
environment: it goes on (`Progress`) or is given up (`GiveUp`).

### YouTubeAcquisition

`claim` and `upload` are the rows, `queue` the active claims by `updated_at`,
`busy` what the coordinator awaits something for.  One coordinator works on the
claim that was saved longest ago, so that a claim which saves itself goes to the
back (`Drain`): `StartInspection`, `Inspect`, `StartDownload`, `Download`,
`StartHandoff`, `Handoff`, `ProjectUpload` and `ResolveDuplicate`, where every
wait separates what was read from what is written.  Operators and ordinary
requesters `Submit` and `Retry` by the two code paths there are (reuse of an own
success, of a public medium, or a fresh acquisition under three limits).
`Publish`, `RemoveMedia`, `Answer` and `Cancel` happen meanwhile, `Restart`
recovers claims.

### Research

Nothing runs in the background: handlers on threads drive the coordinator.
`row`, `slot`, `hold` and `answers` are what the database stores, `remote` is
the provider, `thread` the handlers with the **copy** of the row each works on.
`Save` writes the whole copy back, with no version, which is what the code does
and where the interleavings come from.  `Admit` writes row, hold and slot in one
transaction; `Claim` is the atomic `ADMITTED -> SUBMITTING`; `Submit`, `Poll`,
`CompleteAnswer`, `Reload`, `Reconcile`, `StartCancel`, `CancelRemote`, `List`,
`Delete`, `Recover` follow `research.py` call by call.

Merged: `refused` and `incomplete` into `failed`; a step whose only outcome is
to go on into the next.  Dropped: accounting state, error codes, timestamps.
One budget period.  A replay is a request with the same `client_request_id`, so
the key is that identity.  The adapter reports every transport error as FAILED.
A recovery that itself fails (the runtime then stays away) is not modelled.

### MediaAnalysis

`rows` are the runs of one medium, of the two definitions (generic and movie),
numbered in creation order.  Every change is a compare-and-set on state and
version against a copy read earlier (`Holds`).  The coordinator `co` drains:
`Wake`, `List`, `Take`, then `Reset` (with `Reread` after a conflict) or `Claim`,
`Prepare`, `Answered`, `Record`; `Finish` and `Backoff` end a drain.  Handlers
`Begin`, `HandlerClaim`, `HandlerPrepare`, `HandlerAnswered`, `HandlerRecord`:
the imported preview, which has its answer before it claims, and movie
identification, which asks the provider after it.  `calls` and `returned` count
submissions and answers, for the properties only.

Rows of different media, and of the two definitions, do not touch each other
except through the listing, so one medium with both definitions shows every
conflict; `NotifyOther` is everybody else's wake-up.  A page is all unfinished
runs behind the cursor (the code's batch is 32).  The wake-up from a handler's
thread is atomic with the insertion.  Left out: the record's pointer to its
result, the `supersedes` chain, the partial unique index beyond what the code
checks itself, the preview's own provider call, a limit of attempts lowered
between two starts (a pending row at the new limit would be retried for ever).
Rows are never deleted here; catalog removal is another component.  A provider's
time-out counts as "busy" and may be retried, as in `_classify_failure`.

### CaptureBridge

`journal` is the database, `manager` the processes that run a `JobManager`, each
with its own copy of the ledger, `runner` the headless runners, `admin` what the
administrator read before posting a resume.  A handler of the manager is one
step, because it runs under the manager's lock and ends in the one transaction
of `_commit`; `Call` gives every such step its three ends (committed and
answered, committed and the reply lost, failed before or after it was durable),
and `CommitFails` marks the manager unusable as the code does.  `Start` is
`JobManager.__init__` with its recovery; `Create`, `Cancel`, `Watchdog`,
`ReadStatus`, `PostResume` are clients, clock and administrator; `Hello`,
`NextOffer`, `Accept`, `Pause`, `Resume`, `Intend`, `Click`, `Confirm`, `Answer`,
`GiveUp`, `Deliver` follow the runner through `runJobLoop` and `executeOffer`,
each with the manager's side of the call.  `clicks`, `promised` and `reviewed`
are history.

Merged: `browser_unavailable` and the states of an intervention into `blocked`,
`cancelled` into `failed`; the identity of an offer is its job, as a job is
offered once.  The uuids of interventions and resumes are drawn from the counter
`ids`, a manager's epoch (a uuid as well) is one more than the journal's.
Deadlines, the stall limit and the connected window are "may pass at any step".
Left out: pruning after 24 hours, the page scripts inside the engine, tokens and
loopback checks.

### MediaRecords

One medium: `meta`, `cover`, `located`, `published`, `done`, `record`, `receipt`,
`tagSource` and `opened` are its rows, `screen` is the version the panel of the
administrator was given, `looked` what the medium's page has shown since and
`candidate` what an approval has prepared.  The panel and the page read apart, as
in `app.js`: `ReadVersion` gets a version and a summary without content,
`OpenDetails` the content without a version.  `screen.held`, what the medium was
when the version was given, and `looked` are history: no guard reads them.  Every
operation is one transaction – `Save`, `AcceptCover`, `AddLocation`,
`FinishAnalysis`, `ApplyReview`, `MarkOpened`, `Publish`, `Unpublish`, `Bind`,
`ReadVersion`, `OpenDetails`, `Withdraw` – except the approval, whose request is `Prepare` and, later, `Approve`, which
compares versions and digest.  Whatever changes the content of a bound medium
moves the record's version (`Bump`).  The reading side is written twice, as the
code has it: `BoundDecision`, `ReadDecision`, `Shown` after `domain/record_access.py`
and the repository's predicates, `InScope`, `Listed`, `Found` after the SQL of
the lists.  `PreserveAppend` is the merge of chosen tags into those there are,
under `MAX_MEDIA_TAGS`.

Left out: records of documents, cursors, fields that behave like the ones
modelled, clock conflicts, the movie section of the inbox, the picker.

### CatalogRemoval

`alive`, `linked`, `origin`, `detached`, `publications`, `described` (the title
and the other texts, tags, genres and aliases), `bound` and `covers` are the rows
around a medium, `source` the version of the file at a location,
`artifacts`, `thumbnails` and `previews` the derived files, `receipts` the
removals.  Requests run in a thread pool, so each is a sequence of steps:
acceptors (`Covering`) probe, extract, probe again, publish the artifact and set
the cover; generators (`Previewing`) prepare and publish previews; administrators
(`Removing`) preview, confirm (`RemoveCatalogMedia` compares the fingerprint,
which leaves the texts out, and removes every row in one transaction), and clean up tree, thumbnail and previews, where
every step may fail and two cleanups may overlap.  `ReplaceFile`, `FindLocation`,
`PublishMedium`, `SaveMetadata` and `BindRecord` go on around them, `Stop` forgets the requests.
`late` marks files that were written after their medium was removed.

Left out: image encoding, identity and audit checks; the analysis runs in the
fingerprint behave as the publication does.

### CatalogBackup

`has` gives the parts of a bundle in the backup root, `content` and `made` its
manifest, `damaged` what a disk has done to it; `status` is `status.json`,
replaced as a whole; `op` is the operation that holds the lock, with its place.
`Pipeline` is the daily attempt (snapshot, directory, manifest and catalogue
linked one by one, restore, one write of the status file), `Retention` plans,
plans again before every deletion, and unlinks manifest, catalogue and directory
one by one, `Verification` is an operator's, `Copying` the off-device copy,
`Pulling` the workstation's snapshot with its stream.  `Surroundings` write the
catalogue, set the clock back, kill either side, damage a disk, unmount the
volume.  A version of the catalogue stands for its bytes and their digest.
`known` and `proved` are history.

Left out: staleness by age, evidence that no operation reads again, initialising
a store or a destination, the operator's manual create and restore.

### Deployment

`doing` is each workstation's command and its step; `installed`, `staging`,
`current`, `next`, `stray`, `lock`, `previous` are directories and links on the
host, `service` is `framenest.service`, `keys`, `unit` and `saved` the
credential, the drop-in systemd has loaded, and the recovery material.  `Deploy`,
`Rollback` and `Credential` start a fixed list of remote commands (`DeploySteps`,
`RollbackSteps`, `KeySteps`, and those of the undo); `Call` gives each of them its ends: refused,
done, or, as a fault, never arrived or done with the answer lost.  The switch of
the link may stop between its halves.  `Interrupt` takes a workstation away,
`Crash`, `Come` and `ComeAgain` are systemd, `Tidy` is an operator who removes
what a release command left.  `MaxCommands` and `MaxBreaks` bound the commands
that are given and the faults; the proofs hold for any.

Left out: the capture transition, the gates on the local source tree, the
schema-jump annex, the content of archives.

### UploadClient

`page` is `uploadState`, `stored` the upload remembered across reloads, `task`
the coroutines in flight, each with the generation it was started in, `srv` the
server reduced to what the requests do to a session.  `Handle` takes an answer
(`Created`, `Resumed`, `Patched`, `Completed`, `Deleted`, `Resolved`, `Polled`,
… or `Stale`), `TimerFires` polls, `Serve` and `Lose` are the network;
`Select`, `Start`, `Pause`, `Resume`, `Cancel`, `Resolve`, the dialog and
`RestoreUpload` and `ReloadPage` are the user.  `fenced` is history.

Left out: the rest of the page, several tabs, files whose size has changed.

### AiConfiguration

`file` is the configuration, whose revision is its content; `page` is what each
of an administrator's sections holds, `call` what each request or shell is
doing (`NoCall` is idle), `lock` the lock file of the connection test.
`ListProviders`, `Study`, `Ask`, `Apply`, `Answer` are the requests of the pages,
`Command`, `Build`, `Store` the command line, `Test` and `Tested` the connection
test, `Stop` ends the server or a shell without unwinding.  `Edited`, `Written`, `Loads`, `Refused` are the
mutators, the normalisation and the checks, `RevisionFits` the comparison under
the guard.

### Shutdown

`app`, `next`, `phase`, `late` are the event loop's way through the lifespan,
`coord` the coordinators, `run` the validation thread, `child` the tool's process
group, `flag` and `stopFlag` the two events, `content` and `verdict` the upload
that is validated.  `Ending` shuts the coordinators
down in reverse order under one deadline (`DeadlinePasses`), `ToolSteps` are the thread's
(spawn, watch, poll, terminate, kill, finalise, hash again), `LeaderEnds` and
`HelperEnds` the group's, `Stop`, `KillService`, `ProcessExits` and `Start`
systemd's, `Work`, `FinishWork` and `RunnerResumes` what other threads do.

## 4. Runs

A component's instance is small, and independent components share no state.  So
most runs work several of them: the MC module extends or instantiates their
modules, the variable `works` picks one at the start, and the others rest in
their initial states.  The state space is the sum of theirs,
and each property is checked in the part it speaks of.

| Run | Module | Instance | States | Shows |
|---|---|---|---|---|
| `arrivals` | `MCArrivals` | locks: 3 coroutines, 2 sessions; transport: 2 requests, 2 bytes; YouTube: 2 claims, 2 faults; X: one post with 2 faults or two with 1, 2 assets; shutdown: 1 stop | 299 431 | media on their way into the library: one holder, acknowledged bytes survive, an ended session is left alone, claims end and are true, nothing of a tool survives its run |
| `waiting` | `MCWaiting` | locks; analysis: 2 runs, 1 handler, 1 fault; research: 1 handler, 2 faults | 105 568 | who waits gets a turn, and nothing ambiguous is repeated |
| `pipeline` | `MCUploadPipeline` | 2 uploads of the same bytes, every fault any number of times | 1 539 975 | bytes kept, one canonical upload, discards only with an original, catalogued means clean |
| `pipeline_liveness` | `MCUploadPipeline` | the same, errors and stops until a calm start | 254 456 | every upload settles; every step is a move of the graph |
| `pipeline_adoption` | `MCUploadPipeline` | 1 upload, stops | short | **violated**: published names are durable |
| `research` | `MCSettings` | 2 priced requests, 2 threads, 1 fault; settings: 1 page, 1 shell, 3 writes, 1 stop | 2 948 987 | submitted once, budget, accounting, a cancellation prevents the answer unless another handler holds an older row; a write of the settings is one edit |
| `research_cancelling` | `MCResearch` | 1 request, 1 thread, 1 stop | short | **violated**: a cancelling request advances |
| `media_analysis_movie` | `MCMediaAnalysis` | 1 run, no faults | short | **violated**: a movie run is submitted once |
| `capture` | `MCCaptureBridge` | 2 prompts, 2 managers, 2 runners, 1 fault | 746 841 | sent once, copies agree with the journal, the service opens after a review only, ends are final |
| `library` | `MCLibrary` | records: 2 runs of 1 medium, 1 text, 1 tag, version 5; removal: 1 medium, 2 administrators | 1 278 876 | lists and pages agree, the family sees the version that was named, receipts of reviews and of removals are true, images are of their source |
| `outside` | `MCOutside` | backup: 3 attempts, 2 faults; deployment: 2 workstations, 2 commands, 2 faults; client: 2 uploads, 1 fault | 2 756 192 | the floor of the retention, readiness, copies, reports, keys, cancels |
| `shutdown_verdict` | `Shutdown` | 1 upload, 1 stop | short | **violated**: a stop is no verdict |

Why these bounds are enough.

* *Lock*: two waiters behind a holder are the least in which overtaking and a
  lost wake-up differ; a second session makes entries come and go.
* *Transport*: one lock serialises the bodies, so a second request adds every
  stale `seen`, and a third nothing new.  Two bytes with up to two per PATCH give
  a short, a full and a last PATCH, a file that is ahead, level or behind, and a
  lost byte beside a kept one.  The safety properties are proved for any.
* *Acquisition*: two claims for one video, of an operator and of an ordinary
  requester, use every path of reuse and every order of the queue; limits of 1
  and 2 are reached.  Two faults let something break while what broke before is
  repaired.  With two posts one fault (two make no new kind of conflict, since
  claims for different posts meet in the limits only).
* *Pipeline*: identity of content matters in pairs, so two sessions of the same
  bytes; one of them is `Silent` (kept without asking), the other asks.  Faults
  are unbounded.
* *Research*: one slot is contended by two requests; stale writes need two
  threads.  With a reservation of 2 and a limit of 3, two holds do not fit and
  one hold beside a reconciled cost does.  Two threads are also what a
  cancellation is contested by.  In `waiting` one handler works at a time: what
  is asked there is whether a request ends, over two faults.
* *MediaAnalysis*: two runs let a new run follow an ended one of its definition
  or stand beside one of the other; two attempts give a first, a last and a
  refused one; the preview's limit (3) differs from the coordinator's (2).
* *Capture*: two managers are what the epoch separates, two runners what the
  registration separates, and a second prompt shows that the end of the first
  does not carry over.  One fault is enough for each of: a lost reply, a commit of
  unknown outcome, a second manager beside the first, a runner that dies, a page
  in trouble; administrators, cancels, time and restarts of a manager that
  serves no more are free.
* *Records*: two runs disagree about a text, one tag is suggested, typed, removed
  and suggested again; version 5 leaves room for an approval that is prepared,
  overtaken, prepared again and withdrawn.
  What the page showed and a second location, whose checks do not depend on one
  another, are varied in separate behaviours.
* *Removal*: two versions of the file and two revisions of the cover make every
  copy stale; with previews the two administrators do not overlap, without them
  they do.
* *Backup*: three attempts leave one bundle to delete above a floor of one, with
  another one that may be damaged; the clock goes back once, which turns the
  order of two bundles round.
* *Deployment*: two workstations and two commands collide at every step; r1
  fits, r2 does not come up, r3 has a newer schema.
* *Client*: one chunk, four generations: start, cancel, start again, cancel.
* *Settings and shutdown*: a page and a shell with three writes between them; a
  stop at any step of the thread, of the tool and of the loop.

Bounds in guards are the constants `Max…` of the modules, named where they are
declared; `Declared`, `MaxPatch`, `MaxTags`, `MinKeep`, `KeepAuto` and the limits
of requesters are configured limits of the code, small here.  Runs have
`CHECK_DEADLOCK FALSE` where an idle system may stop for good: nobody is obliged
to upload, to ask, to deploy, or to stop the process once more.

## 5. Fairness

* *Lock*: a coroutine that was woken runs, and a body that holds the lock ends
  (weak fairness of `Granted` and `Exit`): the event loop runs what is ready and
  every leased body has bounded work.  Nothing obliges anybody to be cancelled.
* *Transport*: whichever request holds the lock is served (weak); the client asks
  again, at the reported offset or to complete (strong); a request that would
  carry on is granted the lock (strong, justified by `NoOvertaking`).  Each is
  one condition for all requests together: which of them it is stays open.  The
  property only speaks of the time after the last fault (`calm`).
* *Pipeline*: each coordinator, taken as a whole, keeps making steps (weak): it
  is a task of the loop with an executor of its own.  Liveness is claimed after
  a start from which on nothing fails, because the code retries a failed
  validation only when something wakes the coordinator again.
* *Acquisition*: a coordinator drains (weak): it runs again when it has made
  progress or a quarter of a second has passed, and its tools have timeouts.
  Uploads go on (weak), which is what the pipeline's own run shows.  Nothing
  obliges a claim to succeed or a requester to retry.
* *Research*: a handler that began goes on (weak), the deadline passes (weak),
  and a waiting client reads again (strong).  Nothing obliges the provider to
  finish: the deadline does.
* *MediaAnalysis*: the coordinator goes on, a handler that began goes on (its
  calls time out), a stopped service is started again (all weak).
* *Shutdown*: the event loop takes its steps and the deadline passes (weak).
  Nothing is assumed of threads and tools: that is the point of the property.
* *CaptureBridge, MediaRecords, CatalogRemoval, CatalogBackup, Deployment,
  UploadClient, AiConfiguration*: none; only safety is checked.

In `MCArrivals` the conditions of modules that never work in the same behaviour
are joined: `works` never changes, so a condition over a disjunction is the
condition of the one disjunct that is ever enabled.

## 6. Where code and documents disagree

Four disagreements have a run each; `PROJECT.json` "findings" quotes the lines.

* `pipeline_adoption`: a stop between `os.link` and the directory fsync makes the
  retry adopt the target without that fsync and commit `published`
  (ADR-0042, steps 7 and 8).
* `research_cancelling`: a request cancelled after admission and before
  submission stays `cancel_requested`, and keeps the only slot, for ever.
* `media_analysis_movie`: the generic coordinator lists movie runs as well, takes
  a pending one from its handler, and may submit it twice (ADR-0045).
* `shutdown_verdict`: `systemctl stop` sends SIGTERM to ffprobe too, so that it
  may end before the validation thread is told of the stop, and a good upload is
  rejected (`ffprobe.py:171`).

The others have no run of their own.  The models contain the steps, so the
properties are stated beside them rather than against them.

* *Research*: a cancellation that commits while a read waits for the provider is
  overwritten by that read's copy, and the answer is saved (`research.py:488`),
  against the comment at `research.py:473`.  `UncontestedCancelPreventsResult`
  says with two handlers what does hold: a cancellation that commits while no
  other handler has a copy from before it (`Contested`) is not undone, by a stop,
  a restart or a handler that reads the row later.
* *Research*: a stop between the save that ends a request and its reconciliation
  leaves the hold reserved (`research.py:704`): nothing reconciles a request that
  has ended.  `Accounted` says so of the faults it excepts.
* *X*: a stop between the save of a claim as acquiring (`x_acquisition.py:877`)
  and the insertion of its assets (`:893`) makes the next run find none, and as
  none is left to acquire the claim ends as completed.  The model has the stop;
  `EveryAcquisitionEnds` and `LibraryIsAccounted` are true of that end as well and
  do not object to it.
* *Records*: an approval names the version of the panel, and after a conflict the
  panel reloads the version alone (`app.js:14804`).  What the administrator read
  before that reload may differ from what is approved;
  `FamilySeesTheNamedVersion` speaks of the version named and of what was read
  since.
* *Removal*: the fingerprint that a confirmation repeats is over locations,
  cover, publication, analysis runs and the medium's own row
  (`catalog_removal.py:184`); the removal also deletes title, description, tags,
  genres and aliases (`catalog_removal_repository.py:124`, `:482`), so texts that
  somebody saves between the preview and the confirmation are removed unseen.
  `SaveMetadata` and `RemoveCatalogMedia` have the steps, and no property says
  otherwise.
* *Transport*: `complete()` fails a session whose file was *ahead* of its offset,
  although the surplus has just been cut off (`upload_transport.py:716`;
  ADR-0037:88-91 keeps such a session).  `CheckStaged` has the step.
* *Analysis*: a run that is put back after a transient failure counts as progress
  (`media_analysis_coordinator.py:275`, `:349`), the drain ends idle, and the run
  waits for an unrelated wake-up or a restart, although
  `test_media_analysis_lifecycle.py:481` is named for a retry.  `Record` has the
  step; `EveryWakeUpTries` says what does hold: each wake-up tries it.
* *Analysis*: `reset_interrupted_analyzing` takes runs for interrupted that a live
  handler holds (`media_analysis_lifecycle.py:403`), and the handler's answer is
  then lost.  `Reset` has the step; `EndedRunsAreEvidence` says that the late
  answer at least does not revive the run.
* *Capture*: `resumed` past the limit of waiting ends a job without blocking the
  service (`jobs.py:463`), unlike every other end of a job in flight, and the
  pending resume survives it; `test_capture_journal.py:244` is named for a
  service that stays blocked until the stop was checked.  `Resume` has the step;
  `OpenIsReviewed` speaks of the ends that nobody saw.
* *X*: `_retry_eligible` (`x_acquisition.py:1428`), whose docstring says that it
  mirrors the retry's eligibility, offers a retry that `retry()` refuses: where
  an asset is active and has not failed (after the resets of the assets before it
  were committed), or another active claim of the requester conflicts
  (`RetryAssets`, `Resettable`, `Conflicts`).
* *Removal*: the cleanup computes one thumbnail key, from the cover the medium
  had when it was removed (`derived_artifact_cleanup.py:58`), so that thumbnails
  of earlier covers stay, although ADR-0051 cleans up what was derived from the
  medium.
* *Backup*: bundles are ordered by `created_at_utc` (`catalog_backup_ops.py:1816`).
  After the clock was set back the point that is newest in fact is deleted first,
  although ADR-0052:71 never deletes the newest verified automatic one.
  `FloorIsKept` counts, and therefore holds.  An attempt that is cut off stays
  recorded as running with a later number than the failure before it, which hides
  that failure; `ReadinessIsHonest` excepts it.
* *Deployment*: a switch that is cut between its two halves leaves `current.next`
  or a stray link, which the automatic rollback of ADR-0060 does not put right.
* *Settings*: the page reads the revision again after its guard
  (`ai_admin_api.py:983`; `app.js:13258` says "Never silently adopt a new
  revision", ADR-0084:126 the same), so that an edit may replace what its author
  has not seen.  `NothingUnseenIsReplaced` states the rule and no run checks it,
  as the code breaks it.  The lock file of a connection test that a stop cut off
  blocks connection tests until somebody removes it.
* *Shutdown*: `log_unresolved` is never reached after the deadline has passed,
  because the `wait_for` that times out cancels the very task it asks about
  (`in_process_lifecycle.py`).  The downloader of X, ended by systemd before the
  flag is set, is recorded as `X_EXTRACTOR_FAILED`.

## 7. Proofs

All theorems hold for every value of the constants, from the modules'
assumptions alone: finitely many coroutines and a `NoEntry` that is no entry
(`LockAssumption`), bounds that are natural numbers, limits of attempts of at
least 1, a `None` that is no prompt and no runner, and the like, each named in
the module that declares the constants.  They are about the actions and the
specifications that TLC runs.  For each component an invariant is inductive (`IInv`, or a
name of its own where modules are proved together): the initial states satisfy it
and every step keeps it, with one step of the proof per action, and the listed
theorems follow from it.  TLC has checked each one on an instance
like that of the run before it was proved (`Research`: to depth 28).

**`UploadTransport_proofs`**, about the locks: `LockTypeCorrect`,
`LockMutualExclusion`, `LockNoResidue`, `LockNoOvertaking`.  Mutual exclusion is not inductive: it fails
one step after an entry is dropped while somebody still uses it.  `IInv` says why
that cannot happen: the count of an entry is exactly the number of its users
(`Counted`), the users of a session share its one registered entry
(`LeaseShape`, `EntriesUnshared`), at most one user of an entry holds it
(`OneHolder`), and the queue consists of exactly the waiters, each once
(`QueueShape`, `WokenShape`).  The arithmetic of the counts rests on
`UsersJoin`/`UsersLeave`, that of the queue on `WithoutFacts`/`AppendMembers`.

About the transport (`TransportInv`): `TransportTypesAreKept`,
`AcknowledgedIsKept`, `EndIsFinal`, for any number of requests, bytes and faults.  What was
acknowledged is at most what the row says, and what the row says is at most what
is flushed (`Durable`, byte by byte).  That survives a request only if nobody
else writes meanwhile: a request in the leased body is the holder, and the only
one.  And it survives a request that works with what it read earlier only if that
still fits: `Served(req[r])` says for each place in the body what is known of row
and file there.

**`UploadPipeline_proofs`**: `TypesAreKept`, `BytesAreKept`, `CanonicalIsOne`,
`DuplicatesAreReal`, `CatalogIsClean` and `PipelineImplementsLifecycle`, each for
`Spec` and for the calming specification of the liveness run.  The invariant
describes a session by its state: what its row says (`RowFits`), which of its
files exist (`FilesFit`, with `PublicationAt` for the place of a publication in
the middle) and what the worker that holds it has established (`TasksFit`);
together `Sound(s)`, beside `Exclusive`, that at most one worker is on a session.
`OneCanonical` is kept because the check for a canonical upload is made in the
transaction that records.  A step concerns one session: `LeavesAlone` and
`ClaimsNothingNew` carry the others along, and what is left is `Along(s)` for the
one.  The refinement is the same case distinction once more: every step moves the
state of one session along an edge of `ALLOWED_UPLOAD_SESSION_TRANSITIONS`, or
leaves all as they are.

**`Acquisition_proofs`**, about posts (`XInv`): `XTypesAreKept`,
`XLibraryIsAccounted`.  That the library's media are accounted for is not
inductive: a retry sets assets back, and only because an asset whose upload is
complete is staged, handed over or catalogued (`WholeUploadsKnown`) is it never
among those.  That an inspection does not overwrite
assets rests on a claim that was not inspected since it was queued having none
(`NothingDiscovered`).  Nearly every action saves one asset with what its upload
and its artifact become (`AssetSaved`) or one claim (`ClaimSaved`, `ClaimMoved`).

About videos (`YInv`): `YouTubeSuccessHasMedia`, `YouTubeOnlyOwnOrPublished`.  A
claim keeps its medium because whoever removes the medium from the library turns
the claims that name it in the same transaction, and because the coordinator
looks the canonical medium up again after the awaited discard of a duplicate.
Only an operator's claim ever waits there, with the upload discarded already
(`ResolutionIsOperated`), so that no ordinary requester is handed somebody else's
private medium by that way.  `OneClaimSaved` does the work common to the steps.

About the end of the process (`ShutdownInv`): `ShutdownRunLeavesNothing`, for any
set of working coordinators and any number of stops.  That a run has returned with
nothing of its tool left is a statement about one moment; what is kept is that a
process of the group exists only while the run is between its start and the end
of its cleaning (`ToolIsOwned`).  A service that is killed and started again keeps
it because systemd ends the whole unit, and a service that ends by itself because
the interpreter joins the threads: a thread is back only when its run is over, and
the validator's runner waits for a candidate only when its thread is back
(`RunnerFits`).

**`Research_proofs`**: `ResearchTypesAreKept`, `ResearchSubmittedOnce`,
`ResearchAccounted`, `ResearchBudget`.  Whole rows are saved from copies that may be old, so the
invariant has to say how old a copy can be.  `RowFits(q)` relates state, answers
and remote responses of a request; `Fits(thread[t])` says for each place of a
handler what its copy still has in common with the row; `OneSubmitter` says that
at most one copy, that of the handler whose `ADMITTED -> SUBMITTING` was
committed, may lead to a submission.  The sum over the holds is the number of the
units of the budget that are taken, each by one request (`Taken`), so that the
library's facts about cardinalities do for sums: an admission takes units that
nobody had (`AdmissionTakes`), since only who was never admitted has no hold, and
settling gives some back (`SettlingGivesBack`).

About the settings (`SettingsInv`): `SettingsFileLoads`, `SettingsWriteIsOneEdit`,
for any number of pages, shells, providers, models and writes.  A page applies its
edit to what it reads under the guard, so that its write is an edit of the file is
plain.  A shell writes the whole configuration it built earlier: it is an edit of
the file as long as the file is the one whose revision the shell read, and
afterwards that revision is older than the file (`CallFits`, by the time of the
write, which every write advances: `WriteLeaves`), so that the comparison under
the guard refuses it.

**`MediaAnalysis_proofs`**: `AnalysisTypeCorrect`, `AnalysisHistoryIsOver`,
`AnalysisKeepsRun`, `AnalysisNoBlindReplay`, `AnalysisEvidence`.  To see that a
claim stays within the limit one must know that pending rows have an attempt left
(`RowShape`, where the version counts the attempts), to see that a
compare-and-set compares what it should one must know that a copy of the same
version is the row (`Faithful`), and to see that a requeued run has no request in
flight one must know that a run is in work at one place at most
(`WorkIsExclusive`) and what each place says of its submissions (`CallsCounted`).
The steps fall into four groups, each with a lemma that does the common work:
quiet steps (`QuietStep`), insertions (`InsertStep`), phases of the work
(`CoordinatorWorks`, `ThreadWorks`), and transactions on a row
(`CoordinatorRewrites`, `ThreadRewrites`).  `AnalysisEvidence`, an action
property, follows from the same invariant with `EndedRowsStay`.

**`CaptureBridge_proofs`**: `CaptureTypeCorrect`, `CaptureCopyIsJournal`,
`CaptureSentOnce`, `CaptureOneFlight`, `CaptureAcknowledgedKept`,
`CaptureEndsAreFinal`, `CaptureOpenIsReviewed`.  The argument is about ledgers.
`Continues(L, K)` says that `K` forgets nothing of `L`: ends stay, jobs stay,
permissions stay.  Every handler turns the ledger it works on into one that
continues it (`Grown`; the lemmas `...Grows`), whatever became of the reply
(`CallKept`, `FailureKept`).  That this makes the *journal* continue needs to
know that a commit which succeeds was computed from the journal
(`CopyIsJournal`), and that needs epochs: no running manager is ahead of the
journal, no two share an epoch, and what each one knows the journal continues
(`ManagersFenced`).  From there, an acknowledgement by a manager that has been
replaced is still true, and a permission is committed once, to one runner
(`ClicksOnce`).  For `OpenIsReviewed` one has to know what an administrator who
posts a resume has seen: `Told(View)` says that whoever read a view knows of every
uncertain end, as long as the view still names what is active or blocked now, and
`Informed` says it of the administrator and of every manager's possibly stale
copy.

**`Library_proofs`**, about records: `RecordsTypeCorrect`, `SurfacesAlwaysAgree`,
`ReceiptsAreAlwaysHonest`, `FamilyAlwaysSeesTheNamedVersion`.  That the SQL of the
lists and the Python of the pages decide alike is a fact about all rows that fit
together (`RecordFits`), not about reachable ones only.  What the family sees is the
version that was named: whatever changes the content of a bound medium moves the
version, so as long as that is the one the panel was given, the medium is what it
was then and what its page has shown since (`ScreenFits`).  The same holds of what
an approval has prepared (`CandidateFits`), whose version may be older than a
panel that was read again, and therefore of what is approved.  The list of tags that `PreserveAppend` merges is
handled by induction over the sets of numbers that occur in it (`SetInduction`,
`LeastNumber`), which needs no operator as a parameter.

About removal: `RemovalTypeCorrect`, `CompleteAlwaysMeansGone`,
`ImagesAreAlwaysOfTheirSource`.  What is gone from a medium that was removed stays gone,
or is noted in `late` (`StaysGone`): a step adds a file only with that note, and no
step removes the medium twice, since a receipt is there exactly when the medium is
not.  So a cleanup may count on what it has seen (`AdminFits`), however many other
cleanups run beside it, and may overwrite their outcome with its own, which is
just as true (`ReceiptFits`).  Images have an invariant of their own
(`ImagesFit`).  A file's version is read first and its content later, and versions
only grow, so a frame or a preview is never older than the version it was begun
with; that a cover's frame is exactly of that version comes from the second probe
(`AcceptorFits`), that a preview under the *current* key shows the current file
from its being squeezed between the key and the file (`PreviewFits`).  An artifact
is never deleted before its medium is removed (`CoverFits`), and a cover is never
set after.  `ImagesGoOn` carries all this over a step for whatever it left alone.

**`Outside_proofs`**, about the backup: `BackupTypeCorrect`, `FloorIsAlwaysKept`,
`ReadinessIsAlwaysHonest`, `CopiesAreAlwaysProved`.  Each operation that holds the
lock has a conjunct that says what it has established where it is (`MakingFits`,
`KeepingFits`, `CopyingFits`, `DeletingFits`, `PullFits`, over `StepsFit`), beside
what holds of bundles and of `status.json` at rest (`BundlesFit`, `StatusFits`).
The floor rests on two facts: nothing but retention unlinks a part of a bundle
(`OnlyRetentionUnlinks`), and when it begins to delete a bundle, the plan it has
just made again leaves enough others (`EnoughAreLeft`, a statement about
cardinalities for every number of bundles).

About deployment (`DeploymentInv`): `DeploymentReportsAreTrue`,
`DeploymentKeysAllOrNothing`, for any number of workstations, releases,
providers, commands and broken connections.  A report is about the end of a
command, so the invariant says for each step of each command what the earlier
steps left in place: of the release trees (`Placed`, `ReleaseFits`), of the
credential, the drop-in and the configuration (`KeysFit`).  That this outlasts the
other workstation's commands is because at most one release command is past the
creation of the deploy directory (`OneDeploys`) and at most one credential
command past that of the recovery material (`OneChanges`): `mkdir` refuses the
second.  `Cleanup` is the only step that removes the material, so that
`KeysAllOrNothing` is what `KeysFit` says there.  The steps of the lists
(`DeploySteps`, `KeySteps`, …) are reduced to a map from a step to its successor
(`AfterDeploy` and the like), so that a step of a command has one lemma.

About the web client (`ClientInv`): `ClientFencedAfterCancel`, for any number of
uploads, files and coroutines and any answers that come late.  A confirmed cancel
opens a generation of the page that only its own coroutine has; what has to be
known is that no coroutine that sends, or comes to it (`Sends`), is of the
generation of a confirmed cancel, and that none is ahead of the page.
A step that begins a request is of the page's own generation, which is therefore
above the cancelled one (`FencedAfterCancel`).

Proved, though no run checks it by name: the types in each of these modules,
`TheFileLoads`, `NoResidue`, `NoOvertaking`, `HistoryIsOver`, `CoordinatorKeepsItsRun`,
`EndedRunsAreEvidence`, `OneFlight`, `AcknowledgedKept`.

Only model-checked:

* all liveness, since the prover reasons neither about `ENABLED` nor about
  fairness: `ResumesAfterFaults`, `EveryAcquisitionEnds`, `LifespanEnds`,
  `EveryWakeUpTries`, `EveryWaiterLeaves`, `EveryRequestFinishes`,
  `EveryUploadSettles`;
* `UncontestedCancelPreventsResult`;
* that the queue of `YouTubeAcquisition` lists exactly the active claims, which
  is a matter of fairness between them and of no safety property here.

## 8. What is not modelled, and why

`PROJECT.json` lists every component, and in its note what the model of a
modelled one leaves out.  Not modelled:

* *metadata, aliases, sidecars, imports and scans*: one transaction each, under
  an optimistic version or idempotent;
* *catalogue reads*, *the API's parsing, identity, routing and ingress*: no state
  between requests;
* *the persistence engine, schema and migrations*: taken as serialisable and
  durable at commit, which is what SQLite is configured for;
* *media tools and providers' adapters*: they appear as nondeterministic outcomes;
* *X's status bridge, the capture tooling (command line, login view, page
  scripts), the command line and the browser extension*: thin shells around
  operations that are modelled, or code that runs inside somebody else's page;
* *start-up checks and the development runtime*: they refuse to start, and change
  nothing.
