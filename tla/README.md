# Jotist: a verification project in TLA+

This directory holds TLA+ models of Jotist's server, the TLC configurations that
check them on small instances, and theorems that TLAPS proves for every instance.
The source is the reference: each definition translates the lines that
`PROJECT.json` ("map") names for it.

Run a check with `tlc -config queue.cfg MCTaskQueue.tla` and the proofs of a component with
`tlapm TaskQueueProofs.tla`, or `StoryProofs`, `CheckpointProofs`, `LadderProofs`,
`LearningProofs`, `ModelProofs`, `ServerProofs`; the first two rest on `RowLemmas`.

## 1. The system

Jotist is one Go process with one SQLite database. A recording
(`TranscriptionJob`) has queued runs (`TranscriptionQueueItem`), of which at most
one is active, and executions (`TranscriptionJobExecution`), each the durable record
of one attempt to carry out a run. Paths below are under `src/internal`.

| Component | State | Operations | Correct when |
|---|---|---|---|
| Task queue (`queue/*.go`, `execution/binding.go`) | channel, reservations, running jobs, deletions, protected jobs, worker count | add, start, stop, resume, reserve deletion, set workers, claim, release, reconcile, recover, stop | one owner per recording; each entry dispatched once; stops hit what they name; every accepted run ends |
| Sequential run queue (`repository/transcription_queue_repository.go`) | item rows: status, position, execution | append, reorder, cancel, clear, promote, claim, bind, finalize, fail interrupted | one active run; a dense order; ends are final |
| Execution lifecycle (`repository/execution_lifecycle.go`, `transcription/recoverable_execution.go`) | execution rows: state, status, owner generation, deadline | begin, claim resume, request resume, cancel, expire, finish, interrupt | one live execution; a fenced owner publishes nothing |
| Server process (`cmd/server/main.go`) | startup barrier, shutdown context | start, drain, halt, crash | startup repairs before it dispatches; shutdown ends |
| Handlers that write rows the queue reads (`api/handlers.go`, `api/upload_finalize.go`) | none of their own | kill, delete, rename, automatic start | they do not undo what the queue wrote |
| Recovery stages and checkpoints (`repository/recovery_*.go`, `transcription/recoverable_stage.go`) | stages, attempts, checkpoints, artifact directories, deletions | ensure, reuse, claim, wait, start, fail, commit, delete, collect | seven attempts at most; a stale owner commits nothing; what is selected can be read down to its last upstream; a completed deletion leaves nothing |
| Adaptive candidates (`transcription/adaptive_candidates.go`, `recoverable_stage.go`, `worker_recovery.go`) | the admitted plan, attempts, the loop of the owner | start, claim, fail, next candidate, give up, resume | the ladder only gives up what its plan permits, in its order, within one budget |
| Adaptive learning (`transcription/adaptive_learning.go`, `repository/adaptive_learning*.go`, `api/adaptive_policy_*.go`) | profile revision and generation, observations, plans, selections, saved revisions | admit, observe, promote, edit, reset, freeze, restore | a selection is earned by enough clean evidence; what the owner discards never returns, the rest is not lost |
| GPU stage admission (`transcription/recovery_policy.go`) | one slot | acquire, release, expire | one holder; never kept after a refusal |
| Model storage (`modelstorage/*.go`) | barrier, uses, revisions, inventory, keep preferences | begin use, admit, view, remove, keep, preview, collect | no file in use or kept is removed; a cleanup does what was agreed; a wrong inventory is marked |
| Model downloads (`modeldownloads/service.go`) | download rows, the active download | enqueue, cancel, claim, download, keep, finish, recover | a confirmed cancellation stands |
| Resumable uploads (`api/upload_*.go`, `repository/upload_result.go`) | sessions, chunks, result | create, chunk, complete, cancel, expire | one recording per session; a completed session keeps its result |
| Refresh tokens (`repository/implementations.go`) and login limiter (`auth/login_limiter.go`) | token families; failure buckets | rotate, revoke; check, record | a replay ends the family; a lockout lasts |
| SSE broadcaster (`sse/broadcaster.go`) | subscribers, listener | connect, register, broadcast, unregister, shut down | no channel is closed twice; nobody blocks for ever |
| Server lock (`serverlock/*.go`) | lease and clean marker | acquire, truncate, mark, leave | a server that trusts its predecessors is right |
| Quick transcription (`transcription/quick_transcription.go`) | temporary jobs and files | submit, process, expire | nothing expires under its reader |
| Multi-track, adapters, dropzone, webhook, CLI, LLM, remaining API, web frontend | | | not modelled: see section 8 |

How they interact: handlers call the task queue; the queue's workers claim items in
the database and call the processor, which begins an execution, binds it to the
running job through `execution.RegisterExecution`, runs adapters stage by stage and
publishes. Each stage takes the shared GPU slot, registers its model files with the
storage gate, runs an adapter in a child process and commits a checkpoint. Processors
tell the broadcaster what they did and wait until its listener has taken it. An upload
ends in a recording, which the queue may start, or in a quick job, which runs beside
the queue. `main` starts these in one order and ends them in another; the lock file
tells the next server how that went. `jobsMutex` orders claims, stops, deletions, resumes, reconciliation and
releases. The database orders everything else, including the three edits of the
waiting line and the publication of an outcome, which do not take that mutex.

What is hard: the queue's memory, the job row, the item row and the execution row
tell one story in four places and are written in separate steps; entries in the
channel go stale; a stop races the end of the run it is for; the database is all
that survives a crash; a resume passes ownership to a new generation while the old
owner may still return; a checkpoint's directory and its row are written apart, and
later stages depend on both; a removal decides on files that runs and children of dead
servers may be using; chunks arrive without the lock that completion holds; a
shutdown ends the parties of a rendezvous one after another. `PROJECT.json`
("hazards") lists these at their lines, each with the property that covers it or the
reason why none does.

## 2. Modules

| Module | Models |
|---|---|
| `QueueRows` | the three tables and each transaction of the run queue repository, as operators from rows to rows with their conditions (`Can...`) |
| `ExecutionRows` | the transactions of the execution lifecycle, startup interruption and deletion, on the same rows |
| `TaskQueue` | the state machine: the process memory, API requests, workers with the processor they run, reconciler, startup, shutdown, crash, fairness |
| `QueueProperties` | the properties of `TaskQueue` |
| `SequentialRuns` | the abstract promise of one recording's run queue: a line, an active run, an outcome for each run |
| `QueueRefinement` | the mapping from the item rows to `SequentialRuns` |
| `Checkpoints` | the stages of an execution, their attempts and checkpoints, the GPU slot, deletion, collection, startup recovery |
| `StageResults` | the abstract promise: a stage of a run gets at most one result, from its owner |
| `CheckpointProperties` | the properties of `Checkpoints`, and its mapping to `StageResults` |
| `RecoveryLadder` | the settings one stage is tried with: what a plan permits, the ladder, the retry budget, the loop over failures, crashes and resumes |
| `LadderProperties` | its properties |
| `AdaptiveLearning` | a profile, what its runs observe, what is promoted from it, and what the owner keeps or discards |
| `LearningProperties` | its properties |
| `ServerLease` | the lock file and its marker, the boundary of processes |
| `ModelStorage` | the files, the gate, uses and admissions of runs, the inventory; extends `ServerLease` |
| `ModelRemoval` | removal, keep preference, preview and cleanup, inside the barrier |
| `ModelDownloads` | the download service and the life of the server around the files: the state machine of the run `models` |
| `ModelProperties` | its properties |
| `Broadcaster` | event streams: connections, listener, shutdown |
| `QuickJobs` | quick transcriptions and their files |
| `Uploads` | upload sessions, and their results as recordings or quick jobs |
| `ServerExit` | these three with the queue's workers as the broadcaster sees them, under `main`'s shutdown: the state machine of the run `server` |
| `ServerProperties` | its properties |
| `MCTaskQueue`, `MCCheckpoints`, `MCLadder`, `MCLearning`, `MCModels`, `MCServer` | constants for TLC |
| `RowLemmas` | lemmas: what each transaction of the run queue preserves |
| `TaskQueueProofs` | the inductive invariants of `TaskQueue` and the theorems about it |
| `StoryProofs` | continues them: memory, runs and executions tell one story, the rows are one queue, no execution is forgotten |
| `CheckpointProofs` | the same for `Checkpoints`, and that it implements `StageResults` |
| `LadderProofs` | the same for `RecoveryLadder` |
| `LearningProofs` | the same for `AdaptiveLearning` |
| `ModelProofs` | the same for `ModelDownloads` |
| `ServerProofs` | the same for `ServerExit` |

State and code: `rows` is the database and survives `Crash`. `channel` is
`jobChannel`; `scheduled` is `scheduledTasks`; `running` is `runningJobs`;
`deleting`, `protected` and `limit` are `deletingJobs`, `protectedJobs` and
`workerCount`. A record of `worker` is one worker goroutine with its local
variables: the task it received, the row it read before the claim (`seen`), the
execution its processor began and generation it holds, whether a stop cancelled its
context, and the result of the adapters. `phase` is the process: `down`,
`recovered` and `repaired` are the steps of `Start`, `blocked` is the startup
barrier of `readiness.go`, `draining` is shutdown.

Actions: an action is what the code does between taking `jobsMutex` and giving it
up, or one transaction outside it. Two places are split on purpose. Ending a run is
`Close` (the worker writes the job row) and `Release` (`finalizeAndAdvance`): both
hold the mutex (`lock`), but a crash may fall between them. The stop handler reads
the row and calls `killJob` later (`RequestStop`, `Stop`); likewise a title update
(`RenameRead`, `RenameSave`) and an automatic start (`AutoStartSave`,
`AutoStartEnqueue`). A worker reads the row at `Receive`, and claims at `Claim`,
when the wait for capacity is over.

Abstractions: an execution's parameters, transcript, stages and log are left out; of
its stages only the fact stays that they may use up the attempt budget
(`SpendBudget`). Time is the passing of a deadline. What ended a run's context is
computed from what happened (`CtxErrors`), with both answers where Go's order is not
determined. Failing database accesses are counted faults, injected in the life of a
worker: the checks before an execution begins (`Refuse`), publication (`Publish`), the
worker's own write of the job row (`Close`, which logs the failure and goes on) and
finalization (`Release`). Elsewhere accesses succeed: the reads (`FindExecution` after the
processor's return among them), the writes of a stop that finds no owner
(`queue.go:838-878`, `queue.go:930-950`), and promotion, whose failure the
reconciler makes good. Status and message of the job row are written together, though the
code writes them one after the other. The reconciler's pass is one action per recording, because it treats
recordings independently and everything it could interfere with needs the same
mutex. `Crash` also stands for the exit of `main.go` when shutdown takes too long.
When the finite set of fresh executions is used up, a Begin is refused like any
other error before ownership.

`Checkpoints`: `exec`, `exists`, `stage`, `attempts`, `rows` and `tomb` are the
database, `dirs` the artifact directories; `worker` is the goroutine that runs one
stage after another, `mutex` is `RecoveryRepository.mu`, `slot` the GPU slot. A
checkpoint is named by the attempt and the try that made it, so that the same
result persisted twice is two checkpoints. Its provenance is that of the stage
that produced it (`UpOf`, `Lineage`). `CommitCheckpoint` is two actions: the
rename, then the transaction under the same mutex; a stop, a deadline and a crash
come between them. A stage also holds the GPU slot while its environment is prepared
(`recoverable_stage.go:54-59`), before it has a row or an attempt and on no condition of
theirs; that holding is left out, and what it adds for others is a longer wait, which
may expire anyway. Whether an error may be retried, what settings come next and
whether quota or retention bite are choices. The execution's lifecycle is that of
`ExecutionRows`, reduced to what a stage sees.

`RecoveryLadder`: `plan` is what admission froze for a stage, `attempts` its rows of
`recovery_attempts`, `run` the variables of `runRecoverableStage` (`used` is
`automaticRetries`, `blind` is `recoveryEvidenceUnavailable`). Each attempt also has
`inner`, the retries its worker made on its own; nobody reads it but the properties,
and what the saved measurements say is `counted`. `NextCandidate` is
`nextAdaptiveCandidate`; the code asks it twice after a failure, to classify the
attempt (`RunFails`) and to go on (`Descend`), and so does the model. `Stop` stands for
a client, the deadline and the shutdown. `Checkpoints` has the rows, owners and results
around the attempts with the settings as a choice; `RecoveryLadder` has the settings
with one stage and no dependencies. Memory limits and the backoff are waits that end
in `Admit` or `WaitExpires`.

`AdaptiveLearning`: `profile` is one profile's row, `saved` its immutable revisions,
`selections` the rows that say which plan is selected at each revision and generation,
also past ones; `runs` and `stages` are executions with the snapshot of their admission.
A reset or edit sent with an old revision changes nothing, so the owner's requests are
one step each; an admission reads the profile (`ReadProfile`) before its snapshot, and a
promotion comes after the transaction that stored the observation. A candidate is an
opaque setting on a ladder, a context everything else that a scope's fingerprints tell
apart, and a measurement is clean, contended, unclear or lost (a contended success is no
evidence, but asks for a promotion as a clean one does). A profile that does not learn is one
whose learning is off, or whose recovery policy is the user's default, which switches it off
at admission (`execution_policy.go:22-52`). Whether memory permits a
learned start, and whether a plan improves on the selected one, are choices. `epoch`
is a history variable: it counts how often the owner discarded what was learned.

`ModelDownloads` with the modules below it: `files` is what is on disk under a
model's name and under a removal name, with a number for the content; `uses`,
`barrier` and `marks` are the gate, where `barrier` is a Go read-write lock whose
waiting writers hold back new readers; `marks` is the comparison of
`filesChanged` with the revision of the last scan, and distinguishes a mark that the
scan under way has seen. `runs` is what the rows say of a run: a stop writes "stopped" when
nobody owns the run, in a server whose startup was refused as well (`StopRun`), and a worker
"done" when it has returned (`FinishRun`). `request` holds the one removal or preference each writer is
carrying out; `orphans` are children that outlived their server. A removal takes the
barrier, checks, renames and purges in separate actions, since runs are claimed and
children fetch between them.

`ServerExit` with the modules below it: a send on one of the broadcaster's unbuffered
channels and its receipt are one action, possible only while the listener listens
(`Register`, `Broadcast`). `holder` is the handler that holds `sessionMu` and how far
it is; `chunk` are chunk uploads, which hold nothing. `panicked` records a channel
closed twice or sent to after its close. `main` follows `cmd/server/main.go:228-256`.

## 3. Runs

Deadlock is not checked: the inputs are bounded, so a behaviour may use them up
and stop.

| Run | Instance | Shows |
|---|---|---|
| `queue` | 1 recording, 3 runs, 2 executions of which 1 has a deadline, 1 worker, 2 slots, 1 restart, 1 failed write, exact stops; symmetric | the type invariant, 3 invariants, 4 action properties and the refinement of `SequentialRuns` |
| `recordings` | 2 recordings, 2 workers; one recording starts immediately, automatically and has its title saved, the other has a queued run | ownership, dispatch, deletion and the limit, which need competition and stale rows |
| `progress` | 2 recordings, 1 worker, 1 slot, 1 restart, fairness | liveness with a channel that is full most of the time |
| `checkpoints` | 2 runs of 1 recording, 2 stages, 2 attempts a stage, 2 tries a result, 1 resume, 1 restart, 1 failed write; the first run can be stopped, time out and retry, the second reuses | the type invariant, 4 invariants and the refinement of `StageResults` |
| `ladder` | 23 plans of every mode with and without saved rules, learned starts and budgets; 2 owners, so a resume after a crash, an expired wait or a used-up ladder; 1 retry inside a worker, 1 unread log; 7 attempts | 5 invariants over all attempts of a stage |
| `learning` | 2 earlier runs that taught one context a plan, 2 runs at work in another with 2 attempts each, 1 to be admitted; 2 clean successes make a plan; 1 new revision, 2 new generations, 1 stop, 1 resume | 2 invariants, 1 action property |
| `models` | 1 run, 1 download and 1 model they share, 2 owner requests, 1 fetch of new content, 1 crash or reboot, any number of shutdowns | the type invariant, 2 invariants, 4 action properties |
| `server` | 1 connection, 1 upload session of 2 chunks, 1 chunk upload at a time, 1 quick job, 1 worker; any number of shutdowns and crashes | the type invariant and 3 invariants |
| `resume_twice`, `stale_entry`, `exit_hangs`, `unread_evidence` | the smallest instances of the findings in section 6 | each finds its one property violated |

Why these bounds are enough for the questions: three runs make a successor of a
successor, so reordering, promotion over a cancelled run and a stop whose target has
been replaced all occur; two executions make a live one compete with an interrupted
one, which resumes; a failed write is what the guard against a second active run
(`Promotable`) and the second write of `finalizeAndAdvance` are for; two workers make
a double claim possible; one slot makes the channel overflow with two recordings.
`StopTargets` chooses whether stops name runs (`queue`) or whatever runs (`AnyRun`,
elsewhere). `MaxRuns` stands for the code's limit of runs per recording and does not
bind beyond the number of items. Symmetry over runs is sound: the model chooses among them only where
`OneActiveRun` or the dense order of positions (which `RunQueueImplemented` needs) leave
a single candidate, and no liveness is checked under it.

In `checkpoints` the second stage depends on the first, so a checkpoint can lose
what it was computed from; the second run can take over checkpoints of the first, so a
lineage can cross runs; two attempts are a retry and an exhausted budget, two tries a
result persisted twice; the resume is a second owner while rows and directories of
the first remain. Only the first run can be stopped or time out: what a stop does to a
run does not depend on whether it may reuse. In `models` one fetch of new content is
what makes a version stale; two requests let the owner's removal meet a cleanup or a
preference; one crash with `orphans` followed by shutdowns is what the marker is
about.

In `ladder` the seven attempts are the code's own limit; batches of 1, 2 and 8 and windows
of 6, 10 and 20 seconds give every rung a first, a second and a refused candidate; one
retry inside a worker is enough to exceed a budget, because a budget is exceeded one retry
at a time; two owners suffice because an owner reads only the rows, whoever wrote them. In
`learning` a plan needs two clean successes instead of the code's three (`Measurements`),
which with the two recordings it needs anyway makes each run's evidence decisive; two
candidates, one of which keeps the window, are a ladder with an exhaustion to prove; the
plan already learned gives a promotion something to keep. The run at work with all kinds of
measurements and the one that may be resumed are different, as are their failures. In
`server` two chunks make a set that can be incomplete, `MaxActive` 1 makes
creation depend on expiry, `MaxSlots` 1 makes quick jobs be refused; the chunks
are interchangeable.

What the properties say (the comments in the `...Properties` modules name the code):

* ownership: `OneOwner`, `OneActiveRun`, and `OneStory`: the memory, the job row, the
  item and the execution of a recording agree on which run is live and how it ended;
* dispatch: `NoDoubleDispatch`, `WorkerLimit`;
* outcomes: `OutcomesAreFinal`, `ReleaseTerminates`;
* control: `StopIsExact`, `DeletingIsQuiet`, `ProtectedIsLeftAlone`,
  `UnownedIsAccountedFor`;
* progress: `AcceptedRunSettles`, `StopsEnd`;
* the whole queue: `RunQueueImplemented`;
* checkpoints: `SelectedIsReadable`, `LineageIsOwnChain`, `DeletionIsComplete`,
  `AttemptsAddUp`, and as a whole `ResultsImplemented`;
* settings: `OnlyPermittedSettings`, `LadderDescends`, `RetriesWithinBudget`,
  `NothingRepeatedInVain`, `EnumerationIsTheLadder`;
* learning: `SelectionsAreEarned`, `RunsUseTheirOwnEvidence`, `LearningIsKept`;
* model files: `UsedFilesStay`, `KeptFilesStay`, `CleanupAsAgreed`,
  `StaleEntriesAreMarked`, `CancellationWins`, `ProvenMeansAlone`;
* requests: `NoPanic`, `OneResult`, `NeededFilesStay`.

Some of them state their limits. `UnownedIsAccountedFor` leaves out a failed
publication and a deadline that passes just before it: then the execution stays
running, without an owner, until a restart, and the code has no other repair.
Both it and `ReleaseTerminates` are about clients that start runs through the run queue and
edit no title, as in `queue`; section 5 says which case each of these hypotheses excludes,
and `stale_entry` shows one of them. `CleanupAsAgreed` asks that what is removed as expired was
expired, or left alone, when its request was behind the barrier and was checked, and not at the
renaming: a run that is not cached-only is dispatched outside the gate, which makes its models
recently used, and may end without a stage in between. The part of `StopsEnd` about the shutdown
is about the queue alone, where announcing a run never blocks; `exit_hangs` shows what
becomes of it with the broadcaster. `RetriesWithinBudget` is about stages whose worker logs
could all be read; `unread_evidence` shows that one unread log is enough to break it.
`OnlyPermittedSettings` asks that what ran may be learned (`Learnable`) only if the plan's
own settings may (section 6). `EnumerationIsTheLadder` says what the enumeration is, not that it
has every permitted setting: it is the ladder up to its first shorter window, plus the smaller
batches where the plan may not reduce its batch, and without the CPU in aggressive mode (section 6
for both). `UsedFilesStay`, `StaleEntriesAreMarked` and `CleanupAsAgreed` are about every use of
this server and about the children of dead ones, except those of a run that was stopped in a
server whose startup was refused: no row and no use tells of such a child any more (section 6).
`ReleaseTerminates` allows a run to be left processing only if two writes about it fail, of which
the second is its finalization, or if it has lost one and has no queue item to finalize; `queue`
injects one failure, so there the property is that every release ends the run. Each property of a passing run has a mutant in `PROJECT.json`: a
plausible slip in the code (a dropped guard, an unwritten row) with which TLC finds it
violated. Mutated definitions are marked in the modules.

## 4. Fairness

`FairSpec` assumes strong fairness for each worker, for reconciliation of each
recording, for a stop already in its handler and for the release of a deletion,
and weak fairness for the startup steps, the end of shutdown and the two
half-done handlers. The code justifies it so: these are live goroutines that wait
only for `jobsMutex`, which Go's `sync.Mutex` does not withhold for ever (a waiter
of a millisecond is handed the mutex), for a channel, or for a ticker. That
adapters return at all (`Work`) is the activity watchdog of
`processutil/supervision.go`, which ends a silent child process. No client request is
assumed, no crash and no deadline is fair, and a stage need not exhaust its budget.

`exit_hangs` assumes of `ServerExit` (its `FairSpec`) that every goroutine that can go
on does: handlers, quick jobs, workers, the listener and `main`; that a closed
channel ends the connection that reads it, and that adapters return, since their
context is cancelled. Even so the shutdown may not end: what hangs is a send that
nobody is left to receive.

## 5. Proofs

TLAPS proves in `TaskQueueProofs` from the assumptions `IdAssumption`,
`MaxRunsAssumption`, `QueueAssumption` and `TaskAssumption`: finite sets of
recordings, runs and executions of any size, any number of workers, slots,
restarts, faults and generations.

* `TypeCorrect`: `Spec => []TypeOK`. `TypeOK` alone is not inductive: a worker between
  claim and publication writes rows of its task and execution, so `TypeInv` adds that
  a worker with a task has a real one (`CommittedRow`).
* `ActiveRunIsSingle`: `Spec => []OneActiveRun`. The argument is `RowsKept`: no
  transaction makes a run active except promotion, which asks for an idle recording,
  and resume, whose recording's active run, if there is one, is the resumed one.
* `OwnerIsSingle`: `Spec => []OneOwner`, from `OwnerInv`, which adds that there are no
  workers and no owners while the process is not serving (`Quiet`); without it the
  startup step that creates workers could forget an owner.
* `DeletionIsExclusive`: `Spec => []DeletingIsQuiet`, by the same induction with the
  question which steps can give a reserved recording a run or an owner.
* `ClaimsRespectLimit`: `Spec => WorkerLimit`; the step from holding to claimed is a
  claim by that worker, and it waited for room in the same step.
* `EntriesAreSingle`: `Spec => []NoDoubleDispatch`, from `DispatchInv`, which adds that an
  idle worker holds no task: an entry that is received leaves the channel in the same
  step, and a recording is entered again only after `scheduled` has let go of it.
* `OutcomesKeepTheirAuthor` and `ProtectionHolds`: `Spec => OutcomesAreFinal` and
  `Spec => ProtectedIsLeftAlone`. A worker decides which row to end from what it read some
  steps earlier, so both need `BindInv`: a finished execution says so in both of its
  columns, an entry, a worker and a run name only runs and executions of their own
  recording, and a stop that reached a worker has fenced its execution. `ProtInv` adds that a
  protected recording has neither owner nor deletion reservation, and that nothing is
  being deleted while the process is down. Every step is then shown `Rightful`: what is over
  stays as it is, runs of protected recordings are left alone, and whoever publishes is the
  owner.
* `StopsAreExact`: `Spec => StopIsExact`. Only the stop itself uses up its request, and either
  way to stop, through the worker or in the rows, ends the run it was asked to and no other.

`StoryProofs` goes on from these, with the same assumptions:

* `LiveExecutionIsSingle`, `OwnersHoldTheirRuns` and `RunsAndExecutionsAgree`: `Spec => []...`
  of `OneLiveExecution`, `OwnerHoldsItsRun` and `OutcomesAgree`, the parts of `OneStory` that
  hold whatever handlers write over the recording's row. They need one invariant,
  `StoryInv`: in the rows, an execution's two columns fit, and a run names the execution
  that names it (`Tidy`); an entry names a run that has not begun, or the execution's own
  (`TidyTasks`); and of each owner (`Story`), from claim to release, what the queue, the
  processor and the rows know of its execution at that point, until the outcome it is about
  to write is that execution's. A transaction is shown to keep `Tidy`
  and to leave alone what other owners have in hand (`Rests`); then a step either moves no
  worker (`Calm`) or moves one.
* `OneStoryIsTold`: `Spec => []OneStory` when `Renames` and `AutoStarts` are empty, as in the run
  `queue`; with them the model shows, as the code does, a stale status written back.
  `SightInv` says it per recording: the status of an owned recording that no such
  handler writes stays `processing` until a stop or an outcome. `OnlyJob` says of each
  transaction whose status it writes, and the requests that write one ask first
  whether the recording is owned.
* `RowsAreOneQueue`: `Spec => RunQueueImplemented`, with `RecordingAssumption` (the client
  watches one of the recordings). The mapping needs one invariant of its own, `OrderInv`:
  the positions of a recording's waiting runs are 1..n, so that they are one sequence
  (`IsLine`). What each transaction does to that sequence is a lemma of `RowLemmas`:
  renumbering after a promotion or a cancellation is the one sequence without the run that
  left (`LeaveLine`), which rests on counting the waiting runs up to a position (`Rank`).
  A step of `TaskQueue` then ends at most one active run (`AtMostEnds`) and moves the line
  up at most once (`Lifts`), which is one step of `SequentialRuns` (`EndTold`) although the
  code does it in one transaction here and in several there; requests are the abstract
  action they ask for.

* `UnownedAreAccountedFor` and `ReleasesTerminate`: `Spec => []UnownedIsAccountedFor` and
  `Spec => ReleaseTerminates`, for any number of recordings, runs, executions, workers and
  failures, when `Immediate`, `Renames` and `AutoStarts` are empty (`OnlyQueuedRuns`).
  Neither property is inductive, since an execution can lose its owner in one step, its run in
  another and its row in a third. `FollowInv` therefore says of every recording (`Following`)
  who is going to end what it has begun: a pending recording has a run that is to be dispatched
  (`Waits`), and an execution that counts as an owner was begun for a run of the recording
  (`Born`), whatever has failed; an owner has a run, and once that has ended so has the
  recording, unless the worker has lost the write of its row (`HoldsRun`); and as long as no write has failed (`Counts`), what competes for an
  owned recording is what its worker began or is about to begin (`HeldBy`), and for an unowned
  one is expired or admitted and about to be dispatched (`Unheld`). Between recovery and the start
  of the workers nothing competes (`Starting`). One lemma per transaction says how
  it takes a recording from one of these situations to the next; a step that leaves a recording's
  rows as they are, or changes only its waiting line (`Alike`), keeps them. TLC has a
  counterexample without each of the three hypotheses: the entry of a stopped immediate run outlives
  its run and claims the next one (`stale_entry`), a title update writes back
  `pending` or `processing` after the run has ended, and an automatic start is pending before
  it has an entry.

`RowLemmas` states once what each transaction keeps: types, statuses, the sets
of unfinished and active runs, the rows that are over, and that a transaction about one
recording changes nothing of another. TLC checked the strengthened invariants before
they were proved.

`ModelProofs` proves of `ModelDownloads`, from `StorageAssumption`, `DownloadAssumption` and
nothing about the sets but that writers, runs and downloads are distinct, and that no
writer is called `view` or `preview`, the scans that a client asks for, which `scan.by` tells
from those of the writers:

* `TypeCorrect`: `Spec => []TypeOK`, by `TypeInv`, which adds that a finished scan has an
  entry for every model, that a request is for a model, and that a worker with work to
  do has a download (`Engaged`).
* `ProvenServerIsAlone`: `Spec => []ProvenMeansAlone`. `LeaseInv` says what the marker
  promises at each step of its two writes: as long as a child is at work that its server
  left behind, the marker is torn, or names the present boundary and says unclean.
* `UsedFilesAreSafe` and `KeptFilesAreSafe`: `Spec => UsedFilesStay` and
  `Spec => KeptFilesStay`. Only the renaming of a checked removal takes files
  (`LossIsARemoval`), and what was checked stays so (`CheckedIsFree`), because no use and
  no preference begins while a request is behind the barrier (`BarrierIsOwned`). The
  check looks at the gate and the rows, and that these list every child, of dead servers
  too, is `UsesAreListed`, with the one exception the code makes: a stop ends the rows of a run
  nobody owns also in a server that is not alone. Apart from stops only a server that is alone
  settles rows, which is where `LeaseInv` is needed (`WorkerIsTrusted`).
* `CancellationIsFinal`: `Spec => CancellationWins`.
* `CachedInventoryIsHonest`: `Spec => []StaleEntriesAreMarked`. `CacheInv` adds to the above what
  a scan under way knows: no removal is between its check and its end (`ScanIsAlone`), a mark
  counts as seen only while the scan runs (`MarksAreRead`), a model is as the scan found it, marked
  again, in use, or, in a server that is not alone, of a stopped run (`LookIsFresh`; `CacheIsFresh` for what the scan leaves behind), and a server
  that is starting has looked at nothing (`NothingSeenYet`). That whoever changes files holds them until it has marked them is
  `FetchIsUse` for downloads, and the stage's and the removal's own order of steps.
* `CleanupsAreAgreed`: `Spec => CleanupAsAgreed`. A cleanup is planned, confirmed, queued behind
  the barrier, checked and carried out in steps of their own; `CleanupInv` carries the
  agreement along: the request names what the owner confirmed, in that version
  (`CleanupIsNamed`, `PreviewIsAlone`, `ClearsWhatWasShown`), and what was checked stays as it was
  because no use begins and no run is admitted while the barrier is held, so that no cached-only
  run can start to wait for it (`AdmissionsRead`, `CheckedIsAgreed`). The proof attempt found an
  earlier form of the property false, which asked for an expired model at the renaming itself
  (section 3).

`CheckpointProofs` proves of `Checkpoints`, from `CheckpointAssumption`, `IdAssumption` and `RecordingAssumption` (ranges
of the constants, and that placeholders are none of what they stand for), for any number of
recordings, runs, dependent stages, attempts, tries, resumes, restarts and failed writes:

* `CheckpointTypes`, `SelectionsStayReadable`, `RunsKeepTheirChains`,
  `AttemptsAreAccountedFor` and `DeletionsAreComplete`: `Spec => []...` of `TypeOK`,
  `SelectedIsReadable`, `LineageIsOwnChain`, `AttemptsAddUp` and `DeletionIsComplete`. None
  is inductive without the others, so there is one invariant, `IInv`. `ChainInv` says that
  a run has its stages in order, each on the result it selected before, from which the
  lineages follow by induction over stages; `StoreInv` that a row is the selection of the
  stage that made it and that selections of an undeleted recording have row and directory;
  `WorkerInv` that a worker is the owner in the database or its run was cancelled, and that
  its stage and attempts are where its program counter says; `AccountInv` and
  `DeletionInv` are the properties with what ended runs and an unfinished deletion
  leave behind.
* `StoreKeepsItsPromise`: `Spec => ResultsImplemented`. Every step is classified by what
  it does to stages (`Marks`, `Commits`, ...), and of these only the transaction that
  commits and the one that takes over add a result, the next of its run, by an owner
  whose run is running and undeleted (`StepImplemented`); all others stutter.

`LadderProofs` proves of `RecoveryLadder`, from `LadderAssumption` (every plan is a record of
its type with finitely many windows), for any set of
plans, any number of attempts, owners and unread logs:

* `LadderInvariant`: `Spec => []IInv`, with one conjunct for each question. `LoopInv` ties the
  variables of the running loop to the last row; `PermittedInv` says that every attempt and
  the candidate in hand is permitted; `DescentInv` that each leads down from the whole
  history before it, since a rung is chosen by what was tried and not only by what came
  last; `ReasonInv` and `RepeatInv` bound how often a reason and a setting recur;
  `BudgetInv` that the owner's count is what the rows have spent, or is full. The choice of
  the next candidate is isolated in lemmas: what `Largest` and `Least` return, what each
  rung proposes, and that counts and sums over the history grow by what is appended.
* from it `PermittedSettingsOnly`, `AttemptsLeadDown`, `RepeatsAreEarned` and `BudgetIsShared`:
  `Spec => []...` of `OnlyPermittedSettings`, `LadderDescends`, `NothingRepeatedInVain` and
  `RetriesWithinBudget`.

`LearningProofs` proves of `AdaptiveLearning`, from `LearningAssumption`, for any number of
runs, stages, contexts, candidates, revisions and generations:

* `LearningInvariant`: `Spec => []IInv`. What a promotion compares was read in an earlier
  transaction, so the invariant says of each row by whom and under which revision and
  generation it was written: `ObservedInv` of measurements, `PlansInv` of plans (whose
  generation has passed, so that none can be promoted twice), `SelectedInv` of what is selected
  at present, `SavedInv` of revisions, `RunsInv` and `StartsInv` of snapshots. The proof is from
  `Init`; the run `learning` starts in a later state, `MCInit`, in which `IInv` was seen to hold too.
* `SelectionsAreAlwaysEarned` and `RunsUseTheirEvidence`: `Spec => []...` of
  `SelectionsAreEarned` and `RunsUseTheirOwnEvidence`; `LearningStays`:
  `Spec => LearningIsKept`, an action property, for which `IInv` supplies that a promoted
  plan is new.

`ServerProofs` proves of `ServerExit`, from `QuickAssumption` and `UploadAssumption`, for any
number of connections, sessions, chunks, quick jobs, workers and slots:

* `StreamsDoNotPanic`: `Spec => []NoPanic` by `StreamInv`: while the listener listens it is
  the only one to close channels, and each registered connection is a subscriber until it
  has left.
* `ResultIsBoundOnce`: `Spec => []OneResult` by `UploadInv`: the one handler with the mutex
  completes a session that has no result, and an ended session never lives again.
* `TypeCorrect` and `NeededFilesAreKept`: `Spec => []...` of `TypeOK` and `NeededFilesStay`, by
  these two with `QuickInv`, that a job has no entry before it is launched and then its audio.

Induction over numbers, which some of these need, is stated for a set in place of a
predicate (`SetInduct`): a set of naturals with 0 and the successor of each member is all
of them; it follows from the least element of a set of naturals (`NatMinimum`), and the
modules that need these each prove them. Each inductive invariant was an invariant of the component's run in TLC before it
was proved; where one turned out not to be inductive it was strengthened, and in two cases
the property was wrong (the saved rule of section 6, and `CleanupAsAgreed`).

Only model-checked:

* `EnumerationIsTheLadder`, which compares a bounded recursion with the ladder: an induction
  over data;
* all liveness, since TLAPS reasons about neither fairness nor `ENABLED`.


## 6. Where the code and its documents disagree

1. `resume_twice`: an execution that was interrupted, resumed, and interrupted again
   before a worker claimed it cannot be resumed: its item is pending, and
   `RequestResume` accepts only a failed or processing one
   (`repository/execution_lifecycle.go:172`, against
   `docs/recoverable-transcription.md:163`).
2. `stale_entry`: the entry of a stopped resume of an immediate run can claim the next
   immediate run and leave the recording processing with no owner
   (`queue/queue.go:747`).
3. `exit_hangs`: `main` shuts the broadcaster down first. A worker that announces its
   run after that sends to a listener that has returned, without the `select` that
   unregistration has, and blocks for ever; `taskQueue.Stop` waits for it, so the
   process has to be killed, and as the clean marker is not written the next server
   cannot trust that the workers have stopped (`cmd/server/main.go:239`, against
   `cmd/server/main.go:242` and `sse/broadcaster.go:151`). A connection that registers
   in that moment blocks likewise, and makes the drain of the HTTP server time out.
4. `unread_evidence`: when a worker's log cannot be read, its measurements are saved with
   no retries. That no more may be made is a flag of the running loop; a resume counts from
   the rows and gets the whole remaining budget
   (`transcription/recoverable_stage.go:355`, against `worker_recovery.go:104`).

Seen while modelling, not the subject of a run:

* The run an orderly shutdown interrupts is recorded as cancelled by the user
  (`transcription/recoverable_execution.go:226`), where the queue's test and message
  expect it failed.
* Saving a title writes the status it read back (`api/handlers.go:1169`), over what the
  queue wrote in between. `OneOwner` in `recordings` holds all the same.
* An automatic start that the full queue refuses writes the recording back to uploaded
  (`api/upload_finalize.go:466`); a run appended in between is then not dispatched
  before a restart.
* A server whose startup was refused because workers of its predecessor may still be at work
  keeps its HTTP side up (`cmd/server/main.go:153`). A stop there writes the run, the
  execution and the item as ended at once (`queue/execution_recovery.go:119`,
  `queue/queue.go:841-854`), although the child goes on: a removal then finds no use and may take
  its files, and what the child changes is marked by nobody. `modelstorage/gate.go:22` says that a
  stage "registers before touching files and releases only after its child has exited".
* In aggressive mode a shorter window comes before the CPU, so the enumeration a learned
  shorter window must have exhausted stops before the CPU
  (`transcription/adaptive_learning.go:181`, against the comment at
  `transcription/adaptive_learning.go:166`, "the complete permitted full-window ladder", and
  `docs/recoverable-transcription.md:182`, "every permitted full-window candidate, including CPU
  when allowed").
* With `ReduceBatchSize` off the loop drops the adapter's smaller batches
  (`transcription/recoverable_stage.go:267`), the enumeration does not
  (`transcription/adaptive_learning.go:116`): it demands failures of settings that are never
  tried, so such a profile cannot learn a shorter window.
* A saved rule may ask for more than the configured batch; the ladder then proposes
  settings that its own check rejects (`transcription/adaptive_candidates.go:275`,
  against `adaptive_candidates_test.go:115`). The attempt to prove that whatever ran may
  be learned failed on this case, which no plan of the run contained until then.
* Runs of one generation can earn plans in several scopes, but the first promotion moves
  the generation on: the others' evidence is refused and has to be measured again
  (`repository/adaptive_learning.go:232`).
* An execution whose deadline or budget is used up stays interrupted and keeps its
  recording protected until a stop, although `docs/recoverable-transcription.md:90`
  points to a new run.
* A keep request for a download that arrives after the worker has read its row again
  (`modeldownloads/service.go:217`) is recorded and not carried out: the row completes
  with `keep` set and the model is not kept.
* A download that shutdown interrupts while it saves the preference ends `failed`
  although its files are there.
* Cancelling an upload session does not look at its status and marks a completed
  session cancelled (`api/upload_handlers.go:405`); the recording stays. A chunk that
  was under way makes the removed staging directory again.

## 7. What is left

In the order of what matters most:

1. To model: GPU admission with quick jobs and tracks as actors; several files and
   disk reservations in `Uploads`; models that share files in `ModelStorage`.
2. Two stages beyond the present bounds: three dependent stages with reuse across three
   runs in `Checkpoints`, two models in `ModelDownloads`; both are beyond what TLC can
   explore exhaustively here.

## 8. Not modelled

Python adapters, audio conversion, LLM calls, rendering, configuration, the command
line client and the web frontend exchange data without state that interacts.
Authentication (token rotation, the login limiter) is outside this development.
Of learning, several profiles, the deletion of one, and the arithmetic of measured memory
and time are left out. Multi-track runs are one worker call to the queue. Executions of version 0,
which only older releases wrote, and the embedder's job timeout are left out of the
lifecycle. The mode without a run queue repository is left out: the server always has
one. The dropzone starts recordings as an upload does. Process supervision samples
counters of the operating system; its effect, that a silent child ends, is an
assumption of fairness.
