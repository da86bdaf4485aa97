# A verification project for FlipThisVideoMaker

TLA+ models of the concurrent core of FlipThisVideoMaker, model-checked with TLC and, for
safety, proved with TLAPS. Paths below are relative to the repository; `jobs.py` and the like
stand for files under `src/flipthis_video_maker/`.

## 1. The system

FlipThisVideoMaker is a FastAPI service, a set of worker processes and a SQLite database. A user
plans a project into scenes and shots, approves the shots and enqueues a render; a worker claims
the job, drives every shot through its generation stages with providers and ffmpeg, assembles the
film and finalises the job. Everything the processes share lies in the database (and on disk);
each worker process also has a heartbeat thread of its own.

| Component | State | Operations | Interacts with | Hard part |
|---|---|---|---|---|
| Job queue (`services/jobs.py`, `api/router.py`, `api/resources.py`) | `jobs` rows: state, attempt number, timestamps, outputs, error | submit, claim, request cancellation, mark succeeded / cancelled / failed, retry, delete with project | HTTP requests and workers write the same rows | interleaved requests, cancellation racing completion, retry deciding on a loaded copy |
| Worker process (`workers/main.py`) | stop flag, claimed job, session | loop, process_next, finalisation in the `except` blocks | claims from the queue, runs the pipeline, reports to the heartbeat reporter | signals, supersession, crash between two steps, errors after cancellation |
| Worker registration, heartbeats (`services/workers.py`) | `workers` row; lock, two events, thread | register, set_state, stop, the thread's loop | main thread and heartbeat thread; older and newer processes on one row | two threads without a common step, boot generations, failing writes |
| GPU admission (`scheduler/gpu.py`, `config/workers.py`) | lock file per device | probe, admit, lock | wraps claim and execution | lock held over a whole job, denial before the claim |
| Render pipeline, shot life cycle (`pipeline/mock_pipeline.py`, `domain/state_machine.py`) | shot status, candidates, assets, render | run, transitions, failure handler | writes shots while the API reads and edits them | statuses committed in the middle, cancellation and crash at each stage, rerun |
| Shot regeneration (`pipeline/shot_regeneration.py`) | shot status, pending candidate | run | may run for a shot a render also works on | checks outside the failure handlers |
| Candidate selection (`api/router.py`, `api/resources.py`) | `disposition`, `selected_candidate_id` | select, reject, pipeline selection | API against pipeline | read-modify-write on several rows |
| Render profiles, OOM fallback (`config/render_profiles.py`, `pipeline/provider_execution.py`) | profile snapshot in the job payload | resolve, advance, persist, clean up provider | worker, pipelines, providers | several steps of which each may fail; retry resumes |
| Post-processing (`pipeline/postprocessing.py`) | shot status | lip-sync, interpolation decisions | render and regeneration | skipped stages |
| Media runner (`media/ffmpeg.py`) | child process | run, stop | cancellation callback | timeout, exit and cancellation at once |
| Assembly, finalisation (`media/render.py`, `media/finalization.py`) | partial and final files | overlap plan, publish | asset registration | boundary arithmetic, check-then-replace |
| Assets, uploads (`storage/`) | files, `assets` rows | register, store | pipelines, API | check-then-create |
| Planning (`services/planning.py`, `providers/planning/`) | scenes, shots | apply_story_plan | API | two plans of one project at once |
| API for ordering, resources, events (`api/`) | sequence numbers, SSE stream | move, patch, poll | UI | terminal event must be delivered |
| Providers, clients, quality, packets, schemas, settings, UI, scripts | - | - | - | data, declarations, external I/O |

What makes each correct, in one line each: a job is executed by one process at a time, ends in
exactly one outcome and that outcome is the one its row describes; a cancellation that is
committed first is the outcome; attempts are bounded; a process that was superseded writes
nothing over its successor and stops claiming; a shot is always in a status from which something
can go on; one selected candidate per shot, and the render uses it; a retry after an
out-of-memory error starts from the profile that was persisted; a media process never outlives
its call.

`PROJECT.json` lists the components with what is modelled of each, and the hazards with the line
where they bite and the properties that watch them.

## 2. Plan

| Step | Modules | Question | Status |
|---|---|---|---|
| 1 | `JobLifecycle` (abstract), `JobQueue`, `MCJobQueue`, `JobQueueProofs` | Is the queue consistent under every interleaving, and does every attempt end? | done, proved |
| 2 | `WorkerHeartbeat`, `MCWorkerHeartbeat`, `WorkerHeartbeatProofs` | Is the published status right, and do superseded processes stop? | done, safety proved |
| 3 | `RenderPipeline`, `MCRenderPipeline`, `RenderPipelineProofs` | Do concurrent renders, failures and cancellations leave the shots, selections and renders consistent? Can a failed render be retried? | done, safety proved |
| 4 | `CandidateSelection`, `ShotRegeneration`, `MCShotRegeneration`, `CandidateSelectionProofs`, `ShotRegenerationProofs` | What do regenerations, renders and the selection requests leave of one shot when they meet? | done, proved |
| 5 | `RenderProfiles`, `MediaCalls`, `WorkerExecution`, `MCWorkerExecution`, `MediaCallsProofs`, `RecursionProofs`, `WorkerExecutionProofs` | Is a device used under its lock only, does a fallback survive interruption, does every media call clean up, publish whole files and end? | done, safety proved |
| 6 | `Timeline` (in `MCWorkerExecution`), `RecursionProofs` | Do the two computations of the film's timeline agree? | done, proved |
| 7 | replanning (`apply_story_plan`) during a render; `_move_ordered` | rows that vanish or are renumbered under a run | open |

The modules meet in two ways. `JobLifecycle` is the interface of the queue: `RenderPipeline`,
`ShotRegeneration` and `WorkerExecution` move their job records by its actions only, without
retries at the same time (no `Overwrite`), and `JobQueue` is proved to implement it. `ShotStates` holds
what the pipelines share (the transition table, the stages after the video). `CandidateSelection`
is extended by `ShotRegeneration`, `MediaCalls` and `RenderProfiles` by `WorkerExecution`: their actions speak of their own variables, and the module
that composes them says what else stands still.

## 3. The job queue

### 3.1 `JobLifecycle`: the promise

State and attempt counter of every job, and the moves they may make: a job starts only from
`queued`, a cancellation requested while it runs can only be followed by `cancelled`, `succeeded`
leads nowhere (but deletion), and it starts at most `MaxRetries + 1` times. One move breaks this:
`Overwrite`, a retry decided on an earlier row of the job, which queues it whatever became of it.
It is in the life cycle because the code has it, and it marks the job for good (`overwritten`, a
history variable), so that the promise for every other job stays what it was.

### 3.2 `JobQueue`: the code

| Variable | Code |
|---|---|
| `job[j]` | the `jobs` row: `state`, `attempt_number`, `created_at`, whether `completed_at` is set, whether `output_asset_ids` and `error_info` are non-empty; `absent` before the INSERT, `deleted` after the cascade |
| `clock` | order of `created_at` |
| `retrying[c]`, `copy[c]` | the job an HTTP retry is about and the ORM copy of its row it holds between loading and committing |
| `overwritten[j]` | history: a retry wrote over a row of `j` that was no longer the one it had loaded |
| `row[w]` | `workers.instance_id` |
| `pc[p]`, `running[p]` | where a process stands in `loop` / `process_next` / `_process_claimed_job`, and its job |
| `stopped[p]`, `lost[p]` | `loop`'s flag, `reporter.generation_lost` |

Each function of `jobs.py` but `retry` is one conditional UPDATE in one transaction, so one
action; the read-back after the commit (`db.refresh`, `db.get`) reads what the UPDATE wrote
unless another step came in between, and the code uses only the state the transaction returned,
so it is fused with the UPDATE. `retry` is two actions (`RetryLoad`, `RetryCommit`): the request
loads the row, decides on that copy and writes `UPDATE ... WHERE id`, whose SET list holds only
the columns that differ from the copy. SQLite's driver opens no transaction for a SELECT
(`database/session.py` installs no BEGIN hook), so the later UPDATE neither fails nor sees a
conflict. A row that is gone makes the flush raise, which changes nothing. Any number of clients may
do this to the same job at once, as in the code: the check of the state and of the attempt counter
is made on the copy. `RetryCommit` sets `overwritten` when the row is neither the copy nor what the
retry would write anyway.

`register_worker` is split where other processes can come in: UPDATE (`Boot`), INSERT or the
UPDATE after an IntegrityError (`InsertRow`), and the ownership check (`VerifyRow`). After a clean
INSERT the check reads the session's identity map and cannot see a later rotation; the model
goes straight to `top`.

The pipeline is abstracted to its three outcomes: it notices a cancellation or the stop flag
(`NoticeCancel`), or it returns or raises (`PipelineEnds`). The finalisers follow with the code's
case distinctions: a completion that finds `cancel_requested` raises `PipelineCancelled`, one
that finds `succeeded` (another executor's, after an outdated retry) counts as done, one that finds
anything else raises and is handled as a failure, a failure that finds
`cancel_requested` calls `mark_cancelled`, and a finaliser that finds no row raises out of the
handler and ends the process.

Left out: priorities (the API always uses the default) and queue names (always `cpu`), so
`Candidates` orders by `created_at`; progress, stage, log path, timestamps other than
`completed_at`; GPU lock and admission (`WorkerExecution`); `--once`.

### 3.3 Runs

All runs have `MaxRetries = 1`, so a job has two attempts: a first one, a retry, and the refused
third. `NoJob`, `NoProc`, jobs, processes and clients are model values.

* `job_queue` (`MCJobQueue.cfg`; one job, two generations of one worker, two clients that may both
  retry it at any time): the type invariant, four safety invariants, the refinement of `JobLifecycle`
  (`ImplementsLifecycle`), and the liveness of the queue.
  `ActiveJobHeld` holds without exception. `ExclusiveExecution` holds of every job but an
  overwritten one. `AttemptsBounded` says `MaxRetries + 1` attempts for a job that is not
  overwritten, and `MaxRetries + Cardinality(Clients)` for any: each of the retries that overlap may
  pass the check before the others count. `RecordMatchesState` says of every row that `completed_at`
  is set exactly in the terminal states and that a success has its outputs and a failure its error,
  and of a row that is not overwritten that it has nothing else, left of an earlier attempt.
  `AttemptsSettle` and `QueueServed` hold with outdated retries too.
  Two generations are needed for supersession during execution and for two executors, two
  clients for an outdated retry. A second job adds no new pair of actors: jobs meet only in the
  order of the claim. The proofs cover any number of each.
* `job_queue_stale_retry` (`MCJobQueueStaleRetry.cfg`; the same instance): `SuccessIsFinal` fails,
  see 9.
* `job_queue_orphan` (`MCJobQueueOrphan.cfg`): an operator who for ever cancels and retries.
  `OrphanRecoverable` fails, see 9.

Deadlock is not checked: when every process has stopped and nobody sends requests the system
rests.

Fairness: `WF` on `Advance(p)`, the steps a living process takes by itself, and on
`LoseGeneration(p)`, its heartbeat thread. The operating system schedules both, the poll loop has
no condition to wait for, and a pipeline either returns or raises (the media runner has
timeouts; a provider that hangs for ever is outside this assumption). `Submit`, cancellation,
retry, `Boot`, `Signal` and `Crash` have none: no user or operator has to act. The orphan run adds
weak fairness on cancelling and retrying, to show that not even a persistent operator helps.

### 3.4 Proofs

`JobQueueProofs` proves for every set of jobs, projects, workers, processes and clients and every
`MaxRetries`:

* `TypeCorrect` (`Spec => []TypeOK`) and `ConsistentInvariant` (`Spec => []Consistent`);
* from the latter `ExclusiveExecutionHolds`, `ActiveJobHeldHolds`, `AttemptsBoundedHolds`,
  `RecordMatchesStateHolds` and the refinement `Refinement` (`Spec => ImplementsLifecycle`);
* `OneClientNeverOverwrites`: with one client `overwritten` stays false, so all of the above holds
  without the exceptions; and `OneClientSuccessFinal` (then `SuccessIsFinal` holds too).

None of them but the last assumes anything about who retries what. (`JobQueueAssumption` types the
constants and says that clients are finitely many, since the bound on the attempts counts them.)

None of the four safety invariants is inductive. `Consistent` adds: a process remembers a job
exactly while it executes it or since it crashed (`HolderExecutes`); two processes never remember
the same job, crashed ones included (`HolderUnique`), and a remembered job is active or deleted
(`HeldIsActive`), so nobody else can claim it: both for jobs that are not overwritten; a copy in the
hands of a client is one `retry` accepted (`CopyAccepted`); and `AttemptsReserved`: the attempts
made, the one a waiting job is about to make and the retries already permitted by a copy together
stay within the bound. `ActiveJobHeld` needs no exception, because what an outdated retry leaves is
`queued`, and a claim gives it a holder again. The induction step first sorts the actions
(`StepKinds`) into requests, claims, a process letting go of its job (`LetGo`) and steps that touch
no job (`QuietStep`), and the retries by what they do to their job (`RetryKinds`: nothing, a
legitimate step, or a mark in `overwritten`); each conjunct has a lemma with one step per
kind. What the UPDATEs write is stated once per column group (`RowsTyped`, `RowStates`,
`RowAttempts`, `RowsMatch`).

## 4. Worker registration and heartbeats

`WorkerHeartbeat` models one worker id: its row, and for each process the main thread (`main[p]`)
and the heartbeat thread (`beat[p]`) with what they share: `_state` and `_current_job_id`
(`shared`, under the lock), `_wake`, `_stop_requested`, `_generation_lost`, `_last_error`. Every
access to one of them is a step of its own, except that waiting and clearing the event are one:
a wakeup between the two has the same effect as one before both. `set_state` is `SetState` then
`Wake`; `stop` is `StopStatus`, `StopFlag`, `Wake`, `Join`; `_run` is `BeatWait`, `BeatRead`,
`BeatCheck`, then `BeatWrite` or `BeatFail`. `BeatWait` has no condition: `wait` also returns
after `heartbeat_seconds`. Variables of a process that are never read again are reset
(`NextRound`, `Forget`) to keep the state space small.

* `worker_heartbeat` (two generations, up to two failing writes): `NoLostUpdate`,
  `StoppedByOwner`, `HeartbeatAlive` and the type invariant. Two generations are the old and
  the new process; two failures let a write fail, recover, and fail again.
* `worker_heartbeat_liveness` (two generations, no failing writes): `SupersededStops` under weak
  fairness of each thread. A failing write only sends the thread round its loop once more
  (`HeartbeatAlive` covers it), so the run leaves failures out.
* `worker_heartbeat_stop`: `StopPublishesStopped` fails, see 9.

Not modelled: the age test of `worker_is_online` (time), heartbeat timestamps.

`WorkerHeartbeatProofs` proves the type invariant, `NoLostUpdate`, `StoppedByOwner` and
`HeartbeatAlive` for any number of generations and failing writes, from `HeartbeatAssumption`
alone. `NoLostUpdate` speaks of one moment, the thread asleep without an event; the inductive
`ThreadInv` follows the update on its way there. `InTransit`: while the row is the process's own,
what was published last is in the row, in the hand of the thread, or announced by the event.
`Local`: what the labels of the two threads say of each other; the heartbeat thread has ended only
after the stop event or the loss of the generation, and nothing is published after `stopped`.
`StopHeeded`: the row says stopped only if its owner said so, or is dead.

## 5. The render pipeline

### 5.1 `RenderPipeline`

A run is one `mock_project_render` job of one project and its attempts. Runs of the same project
may overlap: `enqueue_render` looks at the shots only, and nothing keeps two workers (or an old and
a new generation of one) from executing two jobs of a project.

| Variable | Code |
|---|---|
| `job[r]`, `attempt[r]` | the `jobs` row, moved by the actions of `JobLifecycle` |
| `status[s]`, `chosen[s]` | `shots.status`, `shots.selected_candidate_id` as committed; the candidate stands for its last frame (`actual_end_frame_id`) too, written in the same commit |
| `selected[s]` | the candidates of `s` whose `disposition` is `selected` |
| `renders` | `Render` rows: the attempt that made the clips, and what each clip starts from |
| `pc[r]`, `at[r]` | where `run` stands: label and loop index |
| `copy[r]`, `ending[r]` | the session's copy of `status` and `actual_end_frame_id`, loaded by the first pass over `scene.shots` and never refreshed (`expire_on_commit=False`) |
| `input[r]` | the clip whose last frame each of the attempt's clips starts from |
| `late[r]` | history: commits since the cancellation request |

A candidate is identified by run and attempt, since an attempt makes one per shot. One action is one
commit, one cancellation check, or one point where control may leave. A commit writes the
session's status over the row, whoever wrote it last. A write transaction starts at the first
flush and holds SQLite's writer lock up to the commit, so what is read after that flush
(`shot.candidates`) is what the commit replaces: `SelectClip` is one action. The stages inside the
`try` are the table `NextStatus`: a status with media work (`Working`) is left only through a check
(`CheckStage`), the others go on directly. `Raise` may happen at every label. Inside the `try` the
handler follows in two steps: `Raise` re-reads the committed status and decides (`Interrupted`),
`MarkFailedShot` commits `FAILED` over whatever the row says by then, and that commit may raise in
its turn (`HandlerRaises`; `unmarked` remembers the shot). A cancellable media call that notices
a request early, a failing check and any other error are all `Raise`: they differ only in the
outcome of the job, which `MarkEnded` chooses as the worker does. A worker shutting down cancels
too; the flag is no variable, so a model run may also pass checks after a shutdown.

Left out: assets and files, the regeneration job and the selection handlers (section 6), replanning
and deleting a project during a render, the profile itself (section 7; a fallback is only its
commit), project status (complete once `renders` is not empty).

### 5.2 Runs

Two shots: the first has dialogue and lip-sync, so all stages occur; the second has neither and
starts from the end of the first.

* `render_pipeline` (two runs, one attempt each, the first with fallbacks, the second may be
  killed and its handler may fail): `InProgressOwned`, `SingleSelection`, `ContinuousRenders`, `PromptCancellation`,
  `SucceededPublished`, type invariant. Two runs give every pair of concurrent steps; a shot with
  a predecessor is needed for continuity, and the proofs cover the rest. `InProgressOwned` allows
  three marks to stay: that of a killed run, that of a shot whose handler failed itself
  (`unmarked`), and `QA_PENDING`, which the code after the `try` leaves behind on every error.
* `render_pipeline_liveness` (one run, a retry, approvals at any time): `CancellationEnds` under
  weak fairness of the steps a process takes by itself. Provider and ffmpeg calls end or
  raise; fallbacks are not counted on.
* `render_pipeline_retry`: `RetryableAfterEnd` fails, see 9.

### 5.3 Proofs

`RenderPipelineProofs` proves type correctness and all five safety invariants for any number of
runs and shots, from `RenderPipelineAssumption` alone. `IInv` consists of

* `Local(r)`: label, loop index and the stage in the session's copy fit together;
* `InProgressOwned` itself, inductive because it names the run whose copy agrees with the row:
  another run's write replaces the witness, another run's handler removes the mark, and a handler
  that removes it still stands at the shot;
* `SingleSelection`;
* `Continuity(r)`: behind the loop index, the session's end frames and the inputs are the
  attempt's own;
* `Lateness(r)`: a bound on `late` for each label, zero wherever a check has just passed;
* `PublishedInv`: a run at `completing` has its render.

`Frame` says that a step of one run leaves the local state of the others alone, so that the
per-run conjuncts need one lemma each, about the run that steps.

`EveryRunEnds` is the part of `CancellationEnds` that is no question of fairness: `RunLeft` (shots,
labels and stages before the run) descends at every step of the run's process but `TryFallback`,
which a requested cancellation disables, and nobody else's step changes it. So a run has at most
23 steps for each shot and for the assembly, further profiles aside. The module moves its jobs by the
actions of `JobLifecycle`, the promise `JobQueue` is proved to keep; so do those of chapters 6 and 7.

## 6. Editing one shot: regenerations and selections

### 6.1 `CandidateSelection`

One shot, its candidates, and the shots connected to it. A SELECT opens no transaction on SQLite,
and the unit of work writes only columns that differ from the copy it loaded, so the two handlers
are split where another commit can come between:

* `select_candidate`: the shot (`BeginSelect`), the candidate (`LoadCandidate`), its siblings
  (`LoadSiblings`), then flush, query of the connected shots and commit (`CommitSelect`). `Written`
  is the unit of work: a column whose copy already has the new value is not in the UPDATE.
* `reject_candidate`: a changed disposition is flushed by the query for the shot, which therefore
  reads inside the write transaction (`RejectAtOnce`); a candidate that was rejected before
  changes nothing, and the shot is read outside (`LoadShot`, `CommitReject`).

`SelectClip` and `ConnectClip` are what a project render does to these rows, `AddPending` what a
regeneration does. A candidate stands for its last frame too; the first frame is written with it.
`stale` is history: a request committed what it had derived from copies that were no longer the
rows. `MaxEdits` bounds the number of requests.

### 6.2 `ShotRegeneration`

`run` of `MockShotRegenerator` for any number of jobs of one shot. It reads the shot once and
derives three things from that copy: whether it follows the shot's status at all (`tracked`), the
status it puts back (`Finish`) and the retry count it writes. `Begin`, `CommitStage` and `Publish`
are its commits; `CheckInputs`, `Generate`, `CheckGenerated`, `CheckStage`, `CheckQuality` and
`CheckCandidate` its cancellation checks. The work has two `try` blocks with the same handler and
three places outside of them: `Handled` says which, `Raise` runs the handler (`MarkFailed`) or not,
and the handler's own commit may raise (`HandlerRaises`). At every label the worker may be killed
(`Crash`), which leaves the row and the job as they are. Of a project render of the same shot only
the steps that touch it are kept (`RenderLoads` .. `RenderCrashes`): it commits all the stages of
its work over the row (`RenderWorks`), fails inside its `try`, with the handler (`RenderRaises`),
or before or behind it, without (`RenderFails`; `mock_pipeline.py:435-501` is outside), is killed,
or selects its clip and, in a later commit, connects the next shot.

Five history variables relate this to what the properties say: `author` is the run or render that
marked the shot as in work, or how it left the mark behind; `verdict` is the last quality check's
answer, `outdated` the runs in flight that loaded the shot before that check, `reverted` that one
of them put the status back it had loaded; `overtaken` that the present selection was made while a
render had still to connect an earlier one.

Run `shot_editing` (two regenerations, a render, two clients; the constraint `LightLoad` bounds what
happens together: one regeneration beside two edits, or killed, cancelled or retried beside one edit,
with a render at any time; or two regenerations that may overlap, with a render before or after them). The
run has no lip-sync stage; the proofs cover both values of `LipSync`.

* `MarksExplained`: a shot that is marked as in work is at that stage of the work of whoever marked
  it. Otherwise that worker was killed, or its handler failed, which may leave any of the four marks;
  or it ended where no handler is, which leaves `VIDEO_GENERATING` or `QA_PENDING` of a regeneration
  and `QA_PENDING` of a render. No operation but another approval or attempt takes the mark away.
* `VerdictShown`: a rendered shot shows the last verdict of a quality check. An isolated regeneration
  does not judge a shot again that was judged before, but puts the status back it loaded; if a render
  or another regeneration judged the shot meanwhile, that is an older verdict (`reverted`, reached
  only by a run in `outdated`).
* `SelectionAgrees`: the shot names the one selected candidate and shows its frame, unless a commit
  from outdated copies intervened. That the guard `stale` is needed is the race of two selections: the
  run reaches it, and one undisturbed selection repairs it.
* `ConnectedFollow`: the connected shots start from the end of the selected candidate
  (`SelectionConnected`), unless the selection was made between the two commits of a render that had
  selected another. `SelectionConnected` says it only where it can be meant: of a selection not
  written from outdated copies, and once the render that selected the candidate has come to the
  connected shot.
* `RejectionsKept`: only a request that read the list before it forgets a rejection.
* `RetriesCounted`: the retry count never exceeds the number of candidates the regenerations
  published, and is that number unless two of them overlapped; with overlap an increment may be
  lost (the states of the run contain it), and the next different seed is one used before.
* `PromptCancellation`: as for renders.

Run `shot_editing_connect` (the same instance): `SelectionConnected` without the exception fails,
see 9.

These loads give every pair of writers (two regenerations, a regeneration or the render and an
edit, two edits), which is what the races need; an approval may come at any time.

### 6.3 Proofs

`ShotRegenerationProofs` proves all eight properties of `shot_editing` for any number of regenerations,
renders, clients and clips, with both settings of lip-sync and without `LightLoad`, from
`RegenerationAssumption` and `SelectionAssumption`. `CandidateSelectionProofs` holds the lemmas
about the rows of the shot, one per commit. `IInv` consists of

* the types, `LocalInv` (label, stage, `tracked` and job of a run fit together) and `RequestsInv`
  (what a request has loaded are candidates of the shot);
* `FreshInv`: the candidate of an attempt does not exist before its publication and exists from
  then on, so no publication counts twice;
* `SelectionAgrees`, which is inductive with them: `stale` is set by exactly the commits that
  write from copies that are no longer the rows.

`MarksExplained` is inductive on top of `IInv` (`RunMarks`, `RenderMarks`: whoever does not move the
mark does not move its author's stage) and `RejectionsKept` is one step. `ConnectedFollow` needs
`ConnectingInv`: while a render has still to connect its clip, that clip is the selected one, or
`overtaken` says otherwise. `VerdictShown` needs `VerdictInv`: a run that knows the last verdict has
it in its copy.
`PromptCancellation` needs a bound on `late` for each label (`PromptInv`), as in the render
pipeline. `RetriesCounted` needs `Counted`: as long as no two runs overlapped, the copy of the
count that the working run loaded is the number of published candidates. `EveryRunEnds` bounds the
steps of an attempt by 22, whatever renders and requests do to the shot meanwhile: `RunLeft` has no
case in which it rises, because `run` has no loop.

## 7. What a worker runs: device, profile, media, timeline

### 7.1 `MediaCalls`

A media call is a sequence of child processes (`Commands`), of which one writes the partial file,
then publication. One machine stands for `ffmpeg.run` and for `execute` of the CLI providers: start
after a check, poll, cancel or give up with SIGTERM, after the grace SIGKILL, reap, raise; or collect
the exit. The kinds differ in what the code makes different: finalizations check their output
path before they start and before they publish, look for a cancellation once more, and unlink the
partial file and the private copy of the subtitles on the way out; assemblies and providers write
into the directory of their run and do not; a CLI provider is not told of cancellations, and only
it can report a lack of memory. `output`, `raced` and the moment in `asked` are history.

`CheckPublication` and `Replace` are two steps, as `os.path.lexists` and `replace` are: `OutputKept`
holds unless two calls were past the check at once (`raced`).

### 7.2 `RenderProfiles`

Pure operators: the validation of the profile graph, the fallback chain, the snapshot (`Resolve`),
`Advance`, and `ValidSnapshot`, the validator that runs on every snapshot read from a payload. The
walk along the fallbacks is a function on `0 .. NumProfiles`; the chain is the walk up to where it
ends. `Configuration` is what the schema guarantees of a file before its graph is validated:
finitely many profiles with a bound on their number, figures in `Nat`, and "no fallback" is not the
name of a profile. `WorkerAssumption` asks it of every content the file may have; a content may
still be invalid (unknown fallback, cycle, a fallback that is more demanding).

### 7.3 `WorkerExecution`

| Variable | Code |
|---|---|
| `lock` | the flock of the device, `GPULock` |
| `pc[p]`, `stopped[p]` | where `loop`, `process_next` and `execute_with_oom_fallback` stand; the flag of the signal handler |
| `holding[p]`, `probed[p]`, `current[p]` | the claimed job, the last probe, the execution snapshot in memory |
| `job[j]`, `attempt[j]`, `payload[j]` | the `jobs` row, with the snapshot in its payload |
| `role[p]` | worker, or a tool that calls one finalization utility |

The handlers of this repository queue every job for `cpu` and the pipelines run the mock providers;
lock, admission and fallback are written, and tested, for the queue of a device and for a provider
that recovers from a lack of memory. The model composes them as `process_next` does; `Providers`
says whether a process has such a provider.

Run `worker_execution` (one job with a retry; two processes on one device, one with each kind of
provider, or two tools on one output path; four contents of the profile file, two of them invalid;
four probes) checks

* `DeviceOwned`: a live worker has a job or a child only under the lock and after a probe of this
  very device under this lock (ADR 0006);
* `SnapshotsLoadable`, `ExecutedAsRecorded`, `NeverMoreDemanding`: whatever is interrupted and
  however the file is edited, the snapshot in the payload loads again, tells the attempts in
  order, is the one that is executed, and only ever gets cheaper (ADR 0007);
* `ExecutionEnds`: every move of a process that executes a job makes `WorkLeft` smaller, a number
  that counts the profiles it may still fall back to and the labels it has before it, and every step
  of the media call it waits for makes `CallLeft` smaller, which counts the commands and steps of
  the call and what its child may still do. The `while True` of `execute_with_oom_fallback` has no
  other bound, so this is why the loop ends: no profile is tried twice, whatever happens to the
  job's row meanwhile;
* `NothingLeft`, `OutputWhole`, `OutputKept`, `CancelledUnpublished`: of every call;
* `ProcessesEnd`: a worker that was asked to stop ends, and so does the call of a tool.

Fairness: weak on what a live process does by itself, which includes its timeouts and the death
of a child after SIGKILL, but not the end of a child in any other way: a child may hang and ignore
SIGTERM. Strong on `AcquireLock`: a blocked flock is granted in the order of waiting, so a process
does not wait for ever while another takes the lock again and again. No signal, request or crash is
fair.

Two processes are the successor and the predecessor of a restart; chains of three profiles are
the shortest in which a fallback can skip one. Left out: what becomes of the child of a crashed
worker (the lock is released while it may still use the device; listed as a hazard), the standalone
`measure_loudness`, which publishes nothing, and why metadata is refused.

### 7.4 Proofs

`MediaCallsProofs`, `RecursionProofs` and `WorkerExecutionProofs` prove the type invariant, every
safety invariant and both action properties of the run for any number of processes, jobs, profiles,
configurations and probes, from `WorkerAssumption` and `CallerAssumption`. The invariant has three
layers.

* `CallInv(c)` is about one media call: at which steps there is a child and a private copy of the
  subtitles, that the partial file is whole from the successful exit of the command that writes it
  up to its publication (`WriteIndex` names this command), that an error has set the outcome by the
  time it is raised, and that a call past its last look was not asked before. `OutputInv` is about
  the shared path: without a race the call about to replace it is the only one, and found it free;
  this is what makes `OutputKept` inductive. `ChangesInv` reduces a step that publishes nothing to
  the caller that makes it.
* `ProcInv(p)` is about one process: its label decides whether it has the lock, a job, an
  admission, and whether its call may be under way; the job it holds is running, so that no request
  replaces its payload, and the recorded profile is the one it executes. `Alone` (the lock has one
  holder) is what keeps the other processes from disturbing any of it; `Frame` says what that is.

* `SnapshotInv` is about the payloads. `Recorded(snapshot, started)`: the chain is `Captured` (no
  name twice, each profile names the next as its fallback, and none asks for more than the one
  before), the snapshot passes `ValidSnapshot`, the fallback records are the steps made along the
  chain so far, and their attempts are in order and none is later than `started`. A job that has no
  row yet has no snapshot, and a process that executes one has it recorded. `SnapshotsLoadable`
  alone is not inductive: `Advance` appends the attempt of now, and only the bound on the attempts
  already there keeps them in order.

`NextWrites` says that three actions touch a snapshot. `Submit` and `ResolveProfile` write a resolved
one, which is valid because the configuration was (`ResolvedSnapshotLoads`); `FallBack` writes the
next profile of the one in memory, which `ProcInv` identifies with the one in the row. From this
follow `SnapshotsLoad`, `NeverDemandsMore` and `EveryExecutionEnds`: `FallBack` takes one profile off
what is left, every other move leads to a label with less before it (`Onward`, `OnwardDescends`),
nobody else moves the labels or the call of a process (`OwnMoves`, `OwnCall`), and a call descends at
every step (`CallStepDescends`).

`RecursionProofs` has the two facts that need induction over data. The induction theorems of the
library are not usable with these provers (they take an operator), so each proof takes the *least*
counterexample (`LeastNatural`, from the well-foundedness of `<` on `Nat`) and derives a smaller one.
That a recursive function satisfies its equation is proved the same way: for every length a function
that does exists (`WalkExists`, `AssembledExists`, `ElapsedExists`), so the CHOOSE by which it is defined
is one (`WalkSteps`, `TimelineSteps`).

* The walk along the fallbacks of a valid configuration ends within as many steps as there are
  profiles (`WalkEnds`): otherwise it would be an injection of more names into the names there are.
  So the chain has no gap and no repetition (`ChainCaptured`), the snapshot made from it loads
  (`ResolvedSnapshotLoads`), and no profile of it asks for more than any before it
  (`ChainDescends`), although the validation only compares neighbours.
* The timeline, see 7.5.

### 7.5 `Timeline`

Two places compute where the shots of a film lie: `assemble_with_transitions` from the lengths of
the clips, `_subtitle_entries` again from the shots. Times are counted in quarters of a frame.
`SubtitlesFollowClips` compares them for every film of three shots of two or four frames with each
transition and an overlap of none or two frames; they are initial states of `MCWorkerExecution`,
since nothing changes them. The property assumes `Fits`: where a crossfade is longer than half of a
clip, the assembly shortens it and the subtitles do not, and they drift apart from there on.

`SubtitlesAgree` proves the property of `TimelineSpec` (a film that stands still) for any number of
shots of any lengths, overlaps and transitions, from `TimelineAssumption`, which types the shots.
The argument is `SameLength`: after every shot the film is as long as the subtitles take it to be.
`Fits` speaks of the film under construction; `RoomSuffices` gives a condition on the shots alone
under which it holds: no transition is longer than half of either shot it joins, and every shot has
the two frames a provider makes at least. Then the film before a transition is never shorter than
its last clip (`FilmHoldsClip`), and the transition is applied as it is configured.

## 8. What only TLC checks, and what is not modelled

The five liveness properties (`AttemptsSettle`, `QueueServed`, `SupersededStops`, `CancellationEnds`,
`ProcessesEnd`) are model-checked only: liveness under fairness and ENABLED are out of the provers'
reach. The parts of `ProcessesEnd` and `CancellationEnds` that are no question of fairness are proved
(`EveryExecutionEnds`, `EveryRunEnds`). Every other property of a passing run is proved.

Not modelled: planning and replanning, moving scenes and shots, uploads, the events stream, the
remote provider clients, quality analysis, continuity packets, schemas, UI and scripts;
`PROJECT.json` says of each why.

Every property is paired in `PROJECT.json` with a faulty variant of one modelled definition
(`..._...` operators, marked in the modules) under which TLC finds it violated. No specification
uses the variants.

## 9. Disagreements between code and documentation

1. **A retry may requeue a succeeded job** (`jobs.py:192`, run `job_queue_stale_retry`). Clients
   A and B load the failed job; A's retry commits, a worker runs the job to success, B's retry
   commits: `succeeded` becomes `queued`. `docs/current-status.md:89` says a stale API session
   cannot overwrite successful completion. That holds for cancellation and completion, which
   are conditional, not for retry. The same write breaks more, which is why the properties of 3.3
   except overwritten jobs:
   * it puts a `running` row back to `queued`, a second worker claims it, and the two execute one
     job at the same time (`ExclusiveExecution`; both then finalise one row);
   * the check of `attempt_number` is made on the copy as well (`jobs.py:190`), so a job at its
     bound is attempted once more, `MaxRetries + 2` times with two clients (`AttemptsBounded`);
   * `error_info` of a failure committed after the load is not in the UPDATE and stays on the
     queued row, as do the outputs of a success (`RecordMatchesState`).
   With one client none of this can happen (`OneClientNeverOverwrites`).
2. **The job of a crashed worker cannot be retried** (`jobs.py:188`, run `job_queue_orphan`). It
   stays `running`, or `cancel_requested` after a cancellation; retry accepts only `failed` and
   `cancelled`, and only the dead process would finalise it. `docs/troubleshooting.md:22` and
   ADR 0005 send the operator to the explicit retry action.
3. **stop may leave the row idle or busy** (`workers.py:225`, run `worker_heartbeat_stop`). The
   thread reads the status, `stop` sets STOPPED and the stop event, the thread reads the event,
   writes the old status and ends. `tests/test_workers.py:135` asserts `stopped`; reading the
   event before the status would make it true.
4. **A failed render may not be retryable** (`mock_pipeline.py:426`, run `render_pipeline_retry`).
   An error while the committed status is `VIDEO_READY`, `LIPSYNC_READY` or `CONTINUITY_READY`, or
   `QA_PENDING` after the `try`, is not turned into `FAILED`; the retry of the job then fails with
   "Invalid shot state transition", and enqueueing answers 409. `docs/architecture.md:44` promises
   a retryable shot state before long media work. Approving the shot again is the way out.
5. **A connected shot may start from a candidate that is not selected** (`mock_pipeline.py:153`, run
   `shot_editing_connect`). A render selects its clip in one commit and points the connected shot at
   its last frame in a later one, when it comes to that shot. If `select_candidate` promotes another
   candidate in between, the render's write comes last: the shot names one candidate, the connected
   shot starts from the other, and nothing corrects it until the next selection. So it does if a
   later render overtakes an earlier one there. `docs/continuity.md:4` says that connected shots
   reference the last frame of the selected candidate.
