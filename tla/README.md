# YTPipe in TLA+

YTPipe watches YouTube channels for one user, fetches the transcript of a new
video, has it summarised by a language model (directly, or through an external
inference *broker*), and reports by e-mail, mobile push and Telegram. A Telegram
bot takes `/summary <url>` commands. It is a FastAPI process with PostgreSQL; a
timer calls `POST /polling/run`, a listener process polls Telegram. Whatever does
work holds one PostgreSQL advisory lock.

This directory specifies the parts whose correctness rests on an order of
commits, calls and crashes that tests hardly produce. Paths below are under
`src/`; `S/` stands for `app/services/`.

## 1. Inventory

| Component | State it keeps | Operations | Who it talks to |
|---|---|---|---|
| Broker submission `S/broker_submission.py` | in `pipeline_stages`: `broker_reconciliation_state`, `broker_task_id`, `idempotency_key`, `submission_epoch`, quarantine, history | `attempt`, `_classify`, `_quarantine`, `_apply_outcome`, `_complete` | gateway (POST, GET), pipeline |
| Failure policy `S/summary_failure_policy.py`, `S/broker_safe_retry.py` | none | `classify_summary_failure`, `can_advance_submission_epoch` | submission, reconciliation |
| Gateway, traffic `S/broker_gateway.py`, `S/broker_traffic.py` | pacing clock | submit, poll | the broker over HTTP |
| Chunking `S/broker_chunking.py` | plan in `broker_chunk_plan` | `split_transcript`, `build_plan`, `validate_plan` | broker stage |
| Pipeline `S/pipeline.py` | one row per (video, stage) | create stages, process, drain, reconcile, skip Shorts | submission, transcript, Telegram |
| Telegram command queue `S/telegram_command_queue.py` | `telegram_command_requests`: status, reply status, attempts, lease | `process_next` | metadata, pipeline, Telegram |
| Telegram routes `api/routes/telegram_commands.py` | the same table | accept, acknowledgment, process-next | listener, queue |
| Listener `S/telegram_command_listener.py` | offset in memory, wake-up and stop events, two threads | `handle_update`, batch, `_intake_loop`, `_worker_loop`, acknowledge | Telegram, the routes |
| Polling `S/polling.py` | channel marker and baseline, deliveries, quota and incident metadata | `run_poll`, `reconcile_missing_uploads`, delivery retries, alerts | YouTube, pipeline, e-mail, push |
| Mobile push `S/mobile_push.py` | installations, preferences, deliveries | register, send | push service |
| Execution lock `S/execution_lock.py` | a session-level advisory lock on a connection of its own | acquire, release | every worker |
| Video metadata `S/youtube_video_metadata.py` | `videos`, quota | resolve and upsert | YouTube, queue |
| Llama recovery, summary routes, probe, profile, auth, subscriptions, read models | small or none | see PROJECT.json `components` | |

Hard behaviours, and what makes each component correct:

* **Broker submission.** The broker may have a task although the POST failed; the
  process may die between any two commits. Correct: a transcript step is never
  inferred twice at once nor after it has a usable result; a new generation only
  over a failure that is confirmed safe; what is published is the final result.
* **Command queue.** Calls crash, outlive their lease, or run side by side when
  the lock is lost; Telegram's answer may be lost. Correct: a command is decided
  once, a reply is never sent more often than it was claimed, stale claims come
  back, siblings of one video wait for the oldest.
* **Listener.** At-least-once delivery with an offset in memory; a lost wake-up;
  threads that stop each other; calls that are served after their client has given
  up. Correct: Telegram forgets only what is settled, no command overtakes another,
  only committed commands are acknowledged, wake-ups and stops arrive.
* **Polling.** Effects (e-mail, push) precede the commit of what they are recorded
  in; the drain commits half-way what the channel loop has flushed; an upload may be
  withdrawn, or two may come between two polls. Correct: a marker moves only with
  the record of what it passes, an e-mail is repeated only if its record was lost,
  units are counted, what is owed is settled.
* **Pipeline.** Four stages that fail, wait and are held independently of each
  other, through polls, startups and manual commands. Correct: a message is repeated only
  if its record was lost, no video is dropped in silence, what the user was told stands.
* **Chunking.** A plan is made once and validated before each step, perhaps under other
  settings. Correct: the cut ends, and a plan that was built is never refused.
* **Mobile push.** Sessions that read a row and write it later, beside a poll that keeps
  its rows until it commits. Correct: an event is announced to an installation once, a
  verdict is true, a withdrawal is respected, every request ends.

The full list of hazards, each at its line, is in `PROJECT.json`.

## 2. Modules

| Module | Models | Kind |
|---|---|---|
| `SummaryInference` | what the broker submission promises: at most one inference at a time, steps in order, none repeated after a usable result, one publication | abstract specification |
| `SummaryFailurePolicy` | classification of failures, the safe-retry rule | operators |
| `BrokerSubmission` | the life of one summary stage on the broker route | component |
| `MCBrokerSubmission` | symmetry of workers | TLC |
| `BrokerSubmissionProofs` | theorems | TLAPS |
| `CommandLedger` | what the command queue promises: decided once, answered only then and a bounded number of times, never after closing | abstract specification |
| `TelegramCommandQueue` | the command table, one `process_next` per worker | component |
| `MCTelegramCommandQueue` | symmetry of workers and videos | TLC |
| `TelegramCommandQueueProofs` | theorems | TLAPS |
| `TelegramListener` | the listener process with its threads, the intake routes, Telegram's update queue | component |
| `MCTelegramListener` | sets of updates | TLC |
| `TelegramListenerProofs` | theorems | TLAPS |
| `BrokerChunking` | cutting a transcript into pieces, the plan, its validation | component |
| `MCBrokerChunking` | small settings | TLC |
| `BrokerChunkingProofs` | theorems | TLAPS |
| `VideoOutcome` | what the pipeline promises the user: told once, and what was told stands | abstract specification |
| `PipelineStages` | transcript, summary, message and notice of several videos, one run at a time | component |
| `MCPipelineStages` | sets of videos | TLC |
| `PipelineStagesProofs` | theorems | TLAPS |
| `Polling` | the channel loop, e-mail deliveries, quota, reconciliation of missed uploads | component |
| `MCPolling` | channels and Shorts | TLC |
| `PollingProofs` | theorems: markers and records | TLAPS |
| `PollingBooksProofs` | theorems: types, e-mails, quota | TLAPS |
| `MobilePush` | installations, preferences, the announcements of a poll | component |
| `MCMobilePush` | one device | TLC |
| `MobilePushProofs` | theorems | TLAPS |

`BrokerSubmission` is one summary stage seen closely; `PipelineStages` has the four stages
of all videos and keeps of the broker only its commits and the row it leaves.
`Polling` has what creates those stages, and reduces the work on them to "open" and
"done". `TelegramCommandQueue` reduces a video's stages to `content`, and
`TelegramListener` reduces `process-next` to its answer. So each boundary is modelled on
both sides, each time with the other side's outcomes as free choices; the modules are
not composed further.

### 2.1 BrokerSubmission

`row` is the committed row of the stage; a crash loses everything else of a
worker. Its fields: `status`, `attempts` (`attempt_count`), `recon`
(`broker_reconciliation_state`), `quarantined`, `task` (`broker_task_id`), `key`
(`idempotency_key`), `epoch` (`submission_epoch`), `history`
(`broker_submission_history`), `planned` and `next` (the chunk plan and its
`next_step`). A key is a pair of plan step and generation, since nothing else
varies in `broker_idempotency_key` for one stage. `task` is the broker's side: one
task per key, in a state the worker cannot see. `sess[w].pc` is where a worker is
between two commits or external calls.

An execution reads the stage without a row lock, then fetches a transcript or waits
for the inference lock of its process, and writes later. So `Take` reads the row into
`sess[w].read` (`pipeline.py:862-869`, and again at each turn of the plan's loop) and decides
where it leads: to the marker (`taken`), to a plan (`planning`), to the quarantine of a
residue (`residue`). What is then written is what the code makes of the row it *read*:
`Flush` overwrites, without asking, the columns whose value differs from the one that was read, and
leaves the others as they are by then. Only `_apply_outcome` looks at the row again, under a
row lock and for a confirmed failure (`Settle`).

A transaction is one step. `attempt` is: `Prepare` (marker, key and
attempt committed, `broker_submission.py:112-125`), `Post` or `GiveUpBeforePost`,
`RecordAccepted` (`:151-156`) or `Settle` (`_classify` with `_quarantine` or
`_apply_outcome`), `Poll`, then `CompletePartial`/`CompleteFinal` or `Settle`.
`QuarantineResidue`, `PersistPlan`, `FailLocally`, `LeaveLoop` are the broker
branch of the summary stage around it; `ReconcileLater`, `ReconcileFailure`,
`ReconcilePartial`, `ReconcileFinal` are the GET-only reconciliation of a released
stage and `MakeQuarantineGetEligible` the operator's release. `Crash` is possible
wherever a worker works. `BackoffElapses` is the clock, `TaskEnds` and `ResolveTask` the
broker and its operator. `Spec` is the program under the execution lock; `UnreliableSpec` adds
`DropLock`, the death of the connection that holds it, which the worker does not notice.

An error is a record of class and code, reduced to the values that
`classify_summary_failure` tells apart.

### 2.2 TelegramCommandQueue

`req` is the table. Identifiers grow with acceptance, so the order by
`created_at, id` is the order of numbers. `waits` stands for a
`next_attempt_at` (or `reply_next_attempt_at`) in the future, `token` for the call
that holds the lease, `expired` for a lease that has run out, `resolved` for a set
`video_id`. `content` is what the transcript and summary stages of a video
amount to: `open`, `held` (quarantined), `failed`, `done`. `sends` counts, as
history, the replies that arrived.

One `process_next` is: housekeeping (`_recover_stale_claims`,
`_terminalize_exhausted_requests`) and selection in the same transaction as one of
`NothingDue`, `SuppressUnauthorized`, `WaitForLeader`, `Claim`; then, for
processing, the lookup (`CountMetadataAttempt`, committed before the call;
`LookupPaused`, `LookupFails`, `LookupSucceeds`), the content (`ShortIsDisabled`,
`SummaryExists`, `AdvanceContent`, or on the broker route `PipelineCommits` and
`FinishAdvanced`); for a reply `CheckOwnership`, `SendReply`, `RecordReply`.
`ConditionalUpdate` is the update under the token that every result goes through.
`Abort` is a crash or an exception that leaves `process_next`; the settings that
name the allowed identity change only between calls (`Reconfigure`: they are
read at start-up). `AutomaticPipeline` is polling's work on the same content.

The broker route commits its markers with the session of the queue. What it flushed
before (the resolved video) is committed with them; that is `PipelineCommits`,
and the reason why it does not look at the token.

### 2.3 TelegramListener

Three parties. *Telegram*: `arrived` and `confirmed`; `getUpdates` with an offset
forgets what lies before it and answers with at most `POLL_LIMIT` updates. *The
API*: `row` (the table, as far as intake writes it), `policy` (what its settings make
of a command: accept, 409, 403), `call` (what the intake thread waits for) and
`orphans` (calls whose client has given up and which go on). A handler reads in
one step and writes in another (`Look` and `Insert`, the two steps of `Record`), as
its session does; the unique `update_id` decides between two. *The listener*: `intake` (where the
thread is, its offset, what is left of its batch), `worker`, `main`, and the
events `stop` and `wake`. `stop()` is two steps, `BeginStop` and `FinishStop`,
because another thread may run between the two `set` calls; `stopping` holds the
threads in between. `life` is the process; `Start` is systemd or the operator.

The steps of `handle_update` are `PassOver`, `Submit`, then one of `HearDisabled`,
`HearForbidden`, `HearAccepted` and `SubmitFails`, then `WakeWorker` and the
acknowledgment: `SendAck`, `AckRecorded`, `RecordFails`, `RecordAgain`.
`HandledCurrent` and `LeaveBatch` are its results `True` and `False`.
`_worker_loop` and `_drain_worker` are `WorkerLoops` to `ProcessNextReturns`; what the
call does is `TelegramCommandQueue`. `fresh`, `ignored` and `acks` are history.

### 2.4 PipelineStages

`db` is what is committed, `mem` what the run's session sees; a `Crash` makes `mem`
the former. A video's rows are `at` (the status of each stage row), `tries`, `text`
(transcript and summary on the video row), `delayed` (`next_attempt_at` lies ahead),
`residue` (`prepared` or `accepted` in the broker columns), `held` (quarantined:
without a task, awaiting the operator, eligible for a GET) and `alerted`. `run` is the
poll, startup or manual command in progress, its phase and the videos it has selected.

A run is `Reconcile` (polls only), `Select` (with `skip_pending_disabled_shorts_globally`),
then for each video `TakeVideo` or `TakeManual`, `Transcript`, one of `SummaryStays`,
`SummariseDirectly` and the broker route `Prepare`, `QuarantineResidue`, `Accept`, `Conclude`
(which commit), `SendTelegram` or `NoTelegram`, `SendNotice` or `NoNotice`, `Commit`; and
`EndRun`. The order of the steps of `process_new_video_stages` is the order of the
phases, and nothing is optional: `Transcript` decides what follows from the row it leaves.
Which route a stage takes is a choice, as the profile may change between runs.
`copies` and `doubts` are history: messages that reached the chat, and those of them the
program cannot know of.

### 2.5 Polling

The same division: `db`, `mem` and one `run`. `Tables` holds the channel's marker
(`last_seen_video_id`, as the number of an upload) and whether there is one, a row per
video (known, Short or not, stages, the status of its e-mail delivery) and the units counted for
the day. `ctx` is `QuotaContext`: built at the start, written over the row at the end, worth nothing
once midnight has passed (`stale`). `playlist` is what YouTube shows.

`run_poll` is `StartPoll` (skipped Shorts, safety stop), `DrainVideo`, `DrainEnds`,
`SendMail`, `MailsEnd`, per channel `Baseline`, `NothingNew`, `NewUpload`, `FetchFails` or
`MailBreaks`, `ChannelsEnd`, again `DrainVideo`, and `EndPoll`. `DrainVideo` commits the whole
session, which is how half of a poll becomes durable. `reconcile_missing_uploads` is
`StartReconcile`, per channel `MissingBaseline`, `MarkerNotFound`, `PageFails` or `Recover`,
then `WindowsEnd`, drain and `EndReconcile`. `Recover` takes a channel's
pages in one step: nothing is committed between them, and the operators `Wanted`,
`Affordable` and `Window` say how many are requested and what is on them. `Lookup` is a
manual command's metadata request, which shares the quota, `LookupLost` a crash between that
request and the worker's commit. `LoseRun` is a crash or an
exception that reaches the route. `Existing` uploads are older than the monitoring of the channel.

### 2.6 MobilePush

`inst` and `delivery` are the committed rows, `poll` and `request[c]` sessions. A request
reads its row in `Ask` and writes it in its second step, with `Merged`: an UPDATE carries the
columns whose value the session changed, and leaves what another session has committed in the
others. A session that has flushed a row holds it (`FreeForPoll`, `FreeForRequest`).
A poll's session is `FanOut` (preferences and installations read anew for each channel),
`Attempt` (skip, or the flushed attempt before the HTTP call), one of `ExpoAccepts`,
`ExpoRefuses`, `AnswerIsLost`, `EndFanOut`, and `CommitPoll` after the last channel.
`LosePoll` rolls all of it back. A channel stands for the upload a poll takes for the newest, so
that a second poll may announce the same one. `accepted`, `doubted`, `forgotten` and `late` are
history.

### 2.7 BrokerChunking

A text is its length and the places where a newline or a full stop begins. `Cut` is one
turn of the loop of `split_transcript`, `IsBoundary` is `_find_boundary`, `PlanIsValid` is
`validate_plan`, written from its own lines and not from the cut. `Restart` changes the
settings; the plan keeps those it was made with.

`chars_per_token` is a float between 1 and 8. A float is a rational number, `num / den`, so the exact
product and quotient are integer arithmetic. The computed ones are rounded to a neighbouring float,
which `math.floor` and `math.ceil` only notice when the rounding reaches a whole number: `up` holds the token counts
whose product does, `down` the lengths whose quotient does. Both are part of a setting, so the
theorems hold for whatever rounding a float has; `Tokens` and `Characters` are the two conversions.

## 3. Runs

| Run | Question | Instance | States |
|---|---|---|---|
| `broker_plan` | partial summaries: one at a time, in order, generations, what is published, refinement; residues are settled, released stages leave quarantine | 2 workers, 2 partial steps + final, 3 attempts, 1 crash, fairness | 96 k |
| `broker_lock_loss` | *violated*: a failure opens one generation, however many executions learn of it | 2 workers, 3 attempts, no plan, the lock may be lost | until the violation |
| `broker_repost` | *violated*: each key is POSTed at most once | 1 worker, 1 partial step, no lost lock | until the violation |
| `broker_chunking` | a plan that was built is never refused, requests fit up to the rounding, the cut advances | all texts of up to 6 characters, 10 settings | 268 k |
| `queue_exclusive` | leader, completion, implements `CommandLedger`; every decision is closed | 1 worker, 2 commands, a video and a Short, 2 attempts, fairness | 144 k |
| `queue_lock_loss` | the lease as a fence when the lock is lost or a call outlives its lease | 2 workers, 2 commands of one video, 2 replies | 1.7 M |
| `listener` | nothing forgotten, no wake-up lost; every command is settled, a stop ends the listener | 3 updates (2 commands, one malformed), batches of 2, 1 orphan, 1 fault, fairness | 122 k |
| `pipeline_videos` | repeated messages are explained, no silent failure, implements `VideoOutcome` | 2 videos, the second a Short, 1 attempt, 1 fault | 802 k |
| `pipeline_retries` | no notice of failure beside a summary; every video settles, every failure is reported | 1 Short, 2 attempts, 2 faults, fairness | 95 k |
| `polling` | markers move with their records, mails are explained, the quota is counted, no gap; everything settles | 1 channel, 3 uploads, one from before and one a disabled Short, budget 2, 2 pages of 2, 1 command, 1 fault, fairness | 990 k |
| `polling_interrupted` | *violated*: an interrupted second drain is resumable | 1 upload, 1 fault | until the violation |
| `mobile_push` | announced once, verdicts are true, one late announcement; requests end | 1 device, 2 channels, 2 polls, 2 requests, 1 fault, fairness | 333 k |

Why these bounds are enough for the questions:

* **Broker.** Two partial steps are the least for which "the wrong step" and "the next
  step" differ; three attempts allow two generations after the first, so that an epoch can
  be skipped, repeated or exceed its limit; two workers show every race for one row, since
  the lock and the row lock are pairwise. Under the lock executions do not overlap, so the race of two
  readings of one stage is the question of `broker_lock_loss`.
* **Queue.** Two commands make a leader and a sibling, two attempts one retry and one
  exhaustion. With the lock, workers never overlap, so one shows all of `queue_exclusive`;
  `queue_lock_loss` has two, and there a call may outlive its lease (`CallMayOverrun`).
  `Abort` is not bounded.
* **Listener.** Three updates with batches of two give a batch that is left half-way, a
  command behind an update that is none, and a poll that confirms what an earlier one handed
  over; one orphan is enough for a race with the call of a redelivery. Failures of single calls
  and lost answers are not bounded. `AckAttempts` is 4 in the code and 2 here: one attempt
  repeated, and the last one.
* **Pipeline.** Two videos show that one's failure leaves the other alone and that a run
  continues with the next; retries and a second fault concern one video, so the second run has one.
  The Short is affected by everything a video is, and by the setting in addition.
* **Polling.** A reconciliation needs a marker, so something must have been uploaded before: the marker is
  at the first upload, and when two more appear between two polls the poll would pass the second. A
  reconciliation then finds both in front of the marker, recovers the second with the third, and moves the
  marker over it. The pages of two hold the window and the marker on two pages, of which the budget of
  two pays for one or both. A channel's rows are its own; what
  channels share, the quota, is a sum, and `QuotaIsKept` states the bound with their number.
* **Push.** One device: rows of different devices never meet. Two channels let a fan-out follow
  another in one transaction, two requests race for the row, two polls announce an upload again.
* **Chunking.** Six characters make up to six pieces with and without overlap; the settings let
  the context, the chunk size, the halved overlap and the number of pieces each be the limit once, and have
  whole and fractional characters per token, with a product and a quotient that are rounded to a whole number.

The constants named `Max...` are bounds, except `MaxAttempts` and `MaxPages`, which are the
code's own limits, and `PlanLength`. `posts` counts to two.

Deadlock is checked in all runs except the queue's, where every command may be settled, and
`mobile_push`, where every request and poll may have been made.

### The violated properties

1. `broker_lock_loss`. `_apply_outcome` is meant for a stage that more than one process drains
   (`S/broker_submission.py:299-311`): it compares the task the row names with the one that failed.
   The commits before it compare nothing. A second worker that read the stage before the first one
   had written it commits key and marker again, POSTs the same key, is told of the same task, and writes
   its id over the row in which the first has just opened a generation. The comparison then succeeds, and the failure
   of one task opens two generations. It takes a lost connection of the execution lock.
2. `broker_repost`. The partial branch of `reconcile_quarantined_summaries`
   (`S/pipeline.py:404-421`) changes the plan in place and assigns the same object
   to a plain JSON column. SQLAlchemy sees no change of that attribute and stores the rest:
   task, key and quarantine are cleared, `next_step` is not advanced. The step is posted again
   under its key. The forward path avoids this and says why
   (`S/pipeline.py:1151-1153`); the test of the branch looks at the object in memory.
3. `polling_interrupted`. The comment at `S/polling.py:243` says that what was detected is
   persisted before the second drain. It is flushed, and the drain's first commit comes after its
   first video. A process that ends before that, or an exception that reaches the route, forgets
   markers, videos, stages and the deliveries of e-mails that have left. The next poll detects the
   newest upload again and mails it again; an older one it had recorded, it passes.

### Observations

What the models show of the code, no property asks for:

* An incomplete or invalid output has no failure class, which reconciliation takes as
  indeterminate (`S/pipeline.py:391`): the released stage is read every 60 seconds until an
  operator resolves it. `ReleasedStageLeavesQuarantine` speaks of the other outcomes.
* A live poll that is answered with a cancelled or expired task carries the class `terminal` and
  the code `task_cancelled`, so it is quarantined, although `_BROKER_TERMINAL_CODES` has
  `broker_task_cancelled`. It errs on the safe side.
* `_terminalize_exhausted_requests` (`S/telegram_command_queue.py:196`) applies the limit of
  metadata attempts to requests whose metadata is known: a request whose last lookup succeeded and
  whose content waits for a retry is failed by the next call.
* `record_telegram_acknowledgment` (`api/routes/telegram_commands.py:225`) reads without a lock and
  then writes: of two overlapping calls the second overwrites the first. It takes a listener that
  is killed while it records, and a redelivery before that call ends.
* A quarantine's notice whose sending failed stays pending for good once the summary is released
  and delivered (`S/pipeline.py:1393`, `:1622`): nothing reports any more, nothing closes the row,
  and every later poll takes the video up for it. `FailureIsReported` excuses a failure that passed.
* A registration that read its row before a poll found the old token invalid, and writes it after the
  poll has committed, leaves the new token disabled (`S/mobile_push.py:153`, `:546`): both had the
  column enabled in their view, so the registration does not write it.
* The markers of a submission do not replace the lock. Under `UnreliableSpec`, with a stage that is one
  operation and no crash, TLC finds a key POSTed by two workers that had read the same row, two
  unresolved tasks of one stage (a worker that read an old generation commits and POSTs it beside a
  newer one), and a completed stage put into quarantine by a worker that had read it as a residue. The
  lock is the fence between two executions, the markers are the fence between an execution and a crashed
  predecessor.
* A piece of full capacity may be estimated at one token more than there is room for, when the float product
  of `_chunk_capacity` is rounded up to a whole number: with a context of 16384, an answer of 1024 and
  2.3 characters per token, 14660 tokens are available and 33718 characters, which are
  14661 tokens, are let through (`S/broker_chunking.py:46-53`). The requests for pieces are not measured
  again, only the final one is (`S/pipeline.py:1122`).

## 4. Fairness

* **Broker.** `WF` of a worker's steps: a process that is not killed runs on.
  `SF` of starting a poll: the timer fires again and again and finds the lock free
  infinitely often. `SF` of an answered reconciliation: a GET of an ended task may
  fail, but not for ever (the one assumption about the network). `WF` of the clock and of the
  broker's tasks. Crashes are bounded; the operator owes nothing.
* **Queue.** `WF` of a call's steps; `SF` of a request being selected and of an
  expired lease being seen: the listener calls at least every 30 seconds, a retry
  waits at least 30 seconds, and the drain goes on at once, so the oldest due
  request cannot be passed for ever. `WF` of clocks. Calls may crash for ever. The fair run has
  calls shorter than their lease of an hour (`CallMayOverrun` is FALSE; the route's own timeout is
  420 seconds); the run without the lock has them longer.
* **Listener.** `WF` of each thread's steps. `SF` of a poll that brings updates, of a
  call being served and answered, and of the answer being heard: Telegram and the
  API are polled and called again for ever, and neither fails every time. `WF` of the
  process being started again (systemd after a failure, the operator after a stop) and
  of settings of the API that contradict the listener's being corrected. Faults
  are bounded; a failed call is not a fault.
* **Pipeline.** `SF` of a poll being started (the timer; the lock is free between runs),
  `WF` of a run's steps and of a delay ending, `SF` of a notice being answered: Telegram does not fail
  retryably for ever, which `_attempt_single_fallback` has no limit for. The other messages need no such
  assumption, their attempts are limited. Manual commands and startups need not happen.
* **Polling.** `WF` of a poll being started, of a run's steps, of the next day. Nothing is assumed of
  YouTube or the mail server but that faults are finitely many.
* **Push.** `WF` of a poll's steps and of a request's. No new request or poll is owed.

## 5. Proofs

### 5.1 Broker submission

`BrokerSubmissionProofs` proves, for any set of workers, any `MaxAttempts`,
`PlanLength` and `MaxCrashes`, under the lock (`Spec`):

| Theorem | States |
|---|---|
| `InductiveInvariant` | `IInv` always holds |
| `TypeCorrectness` | `TypeOK` |
| `AloneAtTheBroker` | `SubmissionIsAlone` |
| `OneTaskAtATime` | `AtMostOneUnresolvedTask` |
| `CorrelationStaysCurrent` | `CorrelationIsCurrent` |
| `GenerationsAreBounded` | `EpochWithinAttempts` |
| `OnlyFinalResultsArePublished` | `PublishedIsFinalResult` |
| `PostsArePrepared` | `PostOnlyOfPreparedKey` |
| `HeldStagesStayHeld` | `HeldWithoutTaskStaysHeld` |
| `GenerationsFollowSafeFailures` | `NewGenerationOnlyAfterSafeFailure` |
| `Implementation` | `Spec` implements `SummaryInference` |

The assumptions are `ConstantsAssumption` (bounds are naturals, at least one
attempt, `None` is neither a key nor a worker). None of the properties is inductive:
that a POST is alone depends on what an earlier, crashed worker left in the row.
`IInv` adds who may execute (`Exclusive`), which combinations of status, marker
and quarantine exist (`RowShape`), that a marked row carries the key of its
next step and a counted attempt (`CorrelationShape`), that the memory of a
working session agrees with the row and with the task it asked about, and that what it
has read is still the row when it writes (`SessionShape`), that the only unresolved task of an open stage is the one
the marked row stands for (`Alone`), and that steps before the next have
usable results (`StepsInOrder`). TLC evaluated `IInv` on the
instances of the runs before it was proved. Each action has a
lemma; the refinement needs `StepsInOrder` because
`SummaryInference` starts an inference only after the steps before it. The action
properties rest on what a step may do to the row (`EveryRowStep`).

One more theorem is about a stage that is one operation (`PlanLength = 0`): `EachKeyOnce` states
`SubmittedOnce`, for any workers, attempts and crashes. `IInv` does not say it, because it forgets
which keys were posted; `KeysSpent` adds that a posted key belongs to an earlier generation, or to the
current one when nothing can prepare it any more (`Fresh` is over). With a plan the statement is false:
`broker_repost` shows a key posted twice. Without the lock it is false as well (observations).

### 5.2 Command queue

`TelegramCommandQueueProofs` proves, for any finite set of workers, any videos and
any bounds, and whether or not the lock can be lost:

| Theorem | States |
|---|---|
| `InductiveInvariant` | `IInv` always holds |
| `TypeCorrectness` | `TypeOK` |
| `Leases` | `ClaimsAreLeased` |
| `RepliesArePaid` | `RepliesAreCounted` |
| `Leader` | `LeaderWorksAlone` |
| `Completion` | `CompletedHasSummary` |
| `Settlement` | `SettledStaysSettled` |
| `Fencing` | `LeaseIsRespected` |

and, under `~LockMayDrop`, `Implementation`: `Spec` implements `CommandLedger`.
The assumption is `QueueAssumption`; calls may outlive their leases.

The argument: every step but two changes a row only as `Evolves` allows (a lease is
kept or given up, a decision and a closed reply stay) and a session only as
`SessionMove` allows; such a `Move` keeps the invariant (`MoveInvariant`), so a
lemma per action shows that it is one. `Accept` and `Claim` are done by
themselves: `Accept` touches a row no session and no younger command knows, `Claim`
a row nobody holds. What makes the properties inductive is, per row, `RowShape`
(a lease exactly while claimed); per session `SessionAgrees` (a call that still holds
its token finds its row as it claimed it, and a session that has read "completed"
has a summary); and `Counted`: replies sent, plus calls that have claimed one and
not sent it, are within the count, so that a call that outlived its lease is paid
for as well. The ledger needs one more invariant, `Exclusive`: the call that runs
holds the lock and its lease. Without it a late call may still send a reply after
the books are closed. It stays within the count.

### 5.3 Listener

`TelegramListenerProofs` proves, for any number of updates, any set of commands among
them and any bounds:

| Theorem | States |
|---|---|
| `InductiveInvariant` | `IInv` always holds |
| `TypeCorrectness` | `TypeOK` |
| `AtLeastOnce` | `NothingIsForgotten` |
| `InOrder` | `NoCommandIsSkipped` |
| `Durable` | `AckIsDurable` |
| `Wakeups` | `NoLostWakeup` |
| `StopReachesWorker` | `StopWakesWorker` |

The assumption is `ListenerAssumption`. That the offset confirms only what is settled
depends on what the batch, the call and the table were when the update was handled, so
`IInv` adds `IntakeInOrder` (what lies before the offset, or before an update of the
batch and outside it, is settled; an update at hand that was accepted has its row),
`CallOfIntake` (the thread waits for the call it made) and `CallsAreTruthful`: a
call, orphaned or not, was made when everything before its command was settled, and an
answer says what is in the table. The last one is what makes a call that is
served late harmless. The table only `Grows`, so an action answers for what it
writes itself; one lemma per action or group of actions says so. The first update
of a batch exists because `<` is well-founded on the naturals.

### 5.4 Chunking

`BrokerChunkingProofs` proves, for any length of the text and any set of settings
(`ChunkingAssumption`: sizes are naturals, characters per token a rational number, roundings any):

| Theorem | States |
|---|---|
| `TypeCorrect` | `TypeOK` |
| `BuiltPlansAreValid` | `PlanIsNeverRefused` |
| `CutAdvances` | `EveryPieceAdvances` |
| `RequestsAlwaysFit` | `RequestsFit` |

`IInv` says of a cut in progress that its pieces are the beginning of a valid plan and that the next
piece begins one overlap before the end of the last (`CutSoFar`). The lemma the rest hangs on
is `BoundaryAdvances`: a boundary lies in the second half of a piece, an overlap is
at most half of one, so a piece ends behind its overlap. `validate_plan` and
`split_transcript` state these rules apart, and the theorem says that they agree. That requests fit
follows from a valid plan: a piece within what so many tokens make in characters needs, rounded up, no more
tokens than those if neither conversion was rounded to a whole number, and one more if the product was
(`CapacityFits`, from `TimesDivisor` and `CapacityInTokens`; at least one character per token is what
`validate` asks for, so the whole number that was reached is less than a token away). TLC
refutes `RequestsFit` without that token.

### 5.5 Mobile push

`MobilePushProofs` proves, for any devices, channels and clients and any bounds
(`PushAssumption`: devices are positive numbers, in the order of their rows; bounds are naturals):

| Theorem | States |
|---|---|
| `InductiveInvariant` | `IInv` always holds |
| `TypeCorrectness` | `TypeOK` |
| `OncePerDevice` | `AnnouncedOnce` |
| `Truth` | `VerdictsAreTrue` |
| `Withdrawal` | `OneLateAnnouncement` |

A step belongs to the owner and the requests, and then the poll and the books rest (`OwnerStep`), or to the
poll, and then the requests do (`PollSide`). The books relate what is committed to what the poll's session
sees: a request is on its way for exactly one row (`OneOnItsWay`), a committed verdict is the session's as
well (`VerdictsStand`), what Expo accepted is within the verdicts and the rolled back polls (`Counted`),
and the session's verdicts are true before they are committed (`ViewIsTrue`). An announcement
is late when push has been turned off, the device unregistered or its token found invalid by then (`Welcome`); a
token that was replaced is not a withdrawal, the next request goes to the new one. A device for which a late
announcement was made is no target of the fan-out any more (`LateOnce`).

### 5.6 Pipeline

`PipelineStagesProofs` proves, for any finite set of videos, any Shorts, any number of attempts and of faults
(`PipelineAssumption`):

| Theorem | States |
|---|---|
| `InductiveInvariant` | `IInv` always holds |
| `OneMessage` | `RepeatsAreExplained` |
| `NothingDropped` | `NoSilentFailure` |
| `OneVerdict` | `NoFailureNoticeOfSummary` |
| `Implementation` | `Spec` implements `VideoOutcome` |
| `AttemptsInvariant` | `IInv` and `Attempts` always hold |
| `TypeCorrectness` | `TypeOK`, with its bound on attempts |

The properties are about the database, the steps are the session's. So `IInv` says of every row, committed
or not, that its stages came in order (`RowOK`: a summary rests on its transcript, a message on its summary,
a notice on a message that was given up or on a quarantine), and that the session knows more of messages
than the database only of the video at hand, only at the end of its work (`Unsaid`), and then only what the
user may hear after what he was told. Where the run is says how far that video has come (`AtHand`), which is
what a step's lemma starts from; `Counted` is the account of messages, `Silent` the notice in the same
commit. Every step but a commit leaves what the committed rows say; a commit makes one video's
verdict known, which is the one step of `VideoOutcome`.

`IInv` counts attempts without a bound; the second invariant, `Attempts`, gives them theirs. A transcript or a
message that is still to be tried has an attempt left, and its count is within `max_attempts` (`Spends`). A
summary's attempt is committed with its marker before the broker is asked, and its end after: a crash
between the two takes the end, so the bound is `max_attempts` and one more per fault, and a
summary that may be tried again has one left (`Rested`) except while it is being made. Each step leaves the
counts and the statuses that open a stage alone (`NoDearer`), or it is one of the attempts themselves.
That the run's queue is a sequence of videos is where the finite set is needed: the ranks of `OldestFirst` are a
bijection with the videos.

### 5.7 Polling

`PollingProofs` and `PollingBooksProofs` prove, for any finite set of channels, any uploads, Shorts, page sizes,
budgets and numbers of faults (`PollingAssumption`):

| Theorem | States |
|---|---|
| `InductiveInvariant` | `IInv` always holds |
| `Recording` | `MarkedIsRecorded` |
| `NoUploadIsSkipped` | `ReconcileLeavesNoGap` |
| `BooksInvariant` | `IInv` and `BInv` always hold |
| `TypeCorrectness` | `TypeOK` |
| `MailsExplained` | `MailsAreExplained` |
| `Quota` | `QuotaIsKept` |

A row only grows while a session works on it (`Grows`: known, with stages, known to be a Short), so a video
that was recorded when the marker moved to it is recorded ever after (`Marks`, of the database and of the
session). That a reconciliation leaves no gap is arithmetic first: if the marker is found, the pages that
were requested hold every upload in front of it (`WindowIsInFront`, from `PagesHold`: rounding up, a page
more than the marker needs is never left out); then `NoGap` says that the session has recorded what it moved
a marker past, also while uploads appear and disappear, and `MarkerSteps` that a reconciliation commits a
marker only with its whole session.

The books need a second invariant, `BInv`. A run's queue is made once, in the order of the rows, and holds each row
once: the i-th has i - 1 before it, and as many ranks as rows leave none out (`RanksAreTaken`). So a delivery
that waits is tried once by a run (`QueueOK`), and an e-mail is either on the record of its video or in doubt
(`MailBook`). `UnitBook` says of every unit that it is in the committed row, in the run's context or lost, also
when midnight makes the context stale. `Budgeted` bounds the counter by what the channels already visited
may have cost (`Room`), which is where the number of channels, and so their being finitely many, comes in.

### 5.8 Model-checked only

* Everything about liveness, and the deadlock check: fairness and ENABLED are beyond the prover.
* `ResiduesAreSettled`, `ReleasedStageLeavesQuarantine`, `DecisionsAreClosed`, `EveryCommandIsSettled`,
  `StopEndsListener`, `EveryVideoSettles`, `FailureIsReported`, `EverythingSettles` and `EveryRequestEnds` are the
  properties this leaves to TLC. Every invariant, action property and refinement of the passing runs has a theorem.

## 6. Not modelled

* **Queue.** The claim transaction is one step: losing the lock between its reads and its
  commit is not considered. A disabled queue does nothing; disabling it is not a state.
* **Listener.** Start-up (`validate_bot`, `delete_webhook`, `--configure`), the wait for its threads running
  out (`run` gives up after 430 seconds), and a signal in the middle of the main thread's own stop
  (`scripts/ytpipe-telegram-command-listener.py:56`): a handler that sets an event whose lock the
  interrupted thread holds would wait for itself; systemd kills the process after its stop timeout.
* **Pipeline.** `process_pending_stages` and `process_pending_stages_with_throttling`, which nothing calls;
  the summary circuit and llama recovery, which delay a run; changes of a transcript under a stage.
* **Polling.** The broker and backend watchdogs (`S/polling.py:618-638`) and the alerts about quota and
  reauthorisation, each an e-mail or message limited by a timestamp; error records.
* **Push.** Read-only routes, and the settings row being created by two first requests at once
  (`S/mobile_push.py:67`).
* **Everywhere.** The wording and layout of messages, parsing of HTTP bodies, URLs, durations and titles,
  the text of errors.
* The components with status `not_modelled` in PROJECT.json: authentication and subscriptions (an OAuth
  exchange and an upsert in one transaction), read models and settings (queries, single-row updates), the
  broker's probe and profile (read-only), llama recovery (an external command behind one timestamp),
  summary routes (a single request), the poll monitor (a shell script over systemd).

## 7. What is left

* A composition of the poll's three parts, `Polling`, `PipelineStages` and `MobilePush`, in one session. They
  share its commits; each is modelled with every commit the others can make, so what is missing is only
  what relates a push or an e-mail to a summary of the same video.
* A composition of the listener with the queue, for "a command sent is a command answered".
