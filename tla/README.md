# Telegraph Center: models, checks and proofs

Telegraph Center takes audio Recordings from Clients over HTTP, has a provider
transcribe them, selects a Sink by Routing Rules and delivers the Transcript to
it by webhook. An Operator watches through monitor pages and can route
backlogged Recordings and retry failed ones. One process does all of it: an HTTP
server and three worker loops over one SQLite database and a directory of audio
files. This directory holds TLA+ modules translated from that code, TLC
configurations that check them on small instances, and TLAPS proofs that hold
for instances of any size.

Paths below are relative to the root of the repository.

## Inventory

| Part | State | Operations | What makes it correct |
|---|---|---|---|
| Lifecycle (`src/domain.rs`) | a Recording's status, Sink, Transcript | ten status transitions | only listed transitions; one Sink; Delivered is final |
| Processing tables (`src/storage/sqlite.rs`) | recordings, transcripts, two attempts tables, deliveries, audit events | one transaction per claim, attempt start, outcome, routing, Operator action, recovery | tables agree after every commit; an attempt is open only while its worker lives |
| Transcription, Routing, Delivery workers (`src/workers/`) | what a tick carries across its awaits | `tick_once`, polled for ever by `run_worker_loop` | nothing is stranded, nothing stale is written, everything comes to rest |
| Retry policy (`src/workers/retry.rs`) | none | backoff, window, deadline | no attempt before its backoff, no giving up before its window |
| Uploads (`src/http/api.rs`, `src/blob.rs`) | temp files, blobs, the new row | stream, check, rename, insert, read back, clean up | a row has its audio; one row per idempotency key; no file is left without a try to remove it |
| WAV header (`src/wav.rs`) | none | parse | right duration for every well-formed header |
| Process (`src/runtime.rs`) | up or down, shutdown flag | recovery before anything else, orderly shutdown, end on a worker's error | recovery restores what a crash interrupted |
| Operator actions (`src/monitor/handlers.rs`) | none of their own | manual routing, two manual retries | each takes effect once, from the status it is for, with one audit event |
| Operator sessions (`src/monitor/auth.rs`, `session.rs`, `throttle.rs`, `csrf.rs`) | sessions, login failures | login, authenticate, logout, throttle | a revoked or expired session stays dead; the throttle bounds failures |
| Routing rules (`src/routing.rs`, `src/config.rs`) | configuration | first matching Sink | deterministic; Backlog iff no rule matches |
| Webhook client (`src/delivery/`) | none | POST, map the response | a 2xx is a success and nothing else is |
| Soniox client (`src/soniox/`) | provider files and jobs | upload, create, poll, fetch, delete | no provider resource is leaked where the code can help it |
| Monitor read model (`sqlite.rs`, `templates.rs`) | none | list, detail | shows states that exist |

How they interact: a handler inserts a `received` row and returns; from then on
the workers and the Operator meet only in the database. No row is locked between
two transactions of a worker, and the workers hold what they read over calls that
may take minutes. The rows are therefore the only protocol: a status says whose
turn it is, an attempt row with `finished_at` NULL says that a worker is at it,
and `retry_window_started_at` carries an Operator's wish to the next tick.

What is hard here is the timing of independent steps: crashes between two
transactions, answers that are lost after the Sink accepted them, Operator
requests sent from stale pages or repeated, clock readings that are older than
the transaction that stores them, and files and rows that no common transaction
spans. `PROJECT.json` lists each such hazard at the line where it bites, with the
properties that cover it or the reason why none does.

## Modules

| Module | Models | Used by |
|---|---|---|
| `Retry` | `src/workers/retry.rs` as operators over scaled durations | `Pipeline` |
| `RecordingLifecycle` | what the pipeline promises about a Recording: an abstract specification | `Pipeline`, as a refinement |
| `Pipeline` | the processing tables, the three workers, Operator requests, Sink answers, recovery, crash, clock | `MCPipeline`, `PipelineProofs`, `PipelineSafety`, `PipelineRefinement` |
| `Intake` | the upload handler's files and rows, with disconnects, crashes, loss of power | `MCIntake`, `IntakeProofs` |
| `Configuration` | tags, the validation of the configuration file, Routing Rules, as operators | `Submission` |
| `WavHeader` | the walk over the chunks of an audio file, as operators | `Submission` |
| `Submission` | one request body: the multipart loop, the byte budget, the checks, the routing decision | `MCSubmission`, `SubmissionProofs` |
| `SessionGate` | what the Operator's sessions promise: an abstract specification | `OperatorSessions`, as a refinement |
| `OperatorSessions` | login, authentication, CSRF, logout and expiry as handlers that race | `MCOperatorSessions`, `SessionProofs` |
| `LoginThrottle` | the count, the wait and the record of failed logins | `ThrottleProofs` |
| `SonioxJob` | the provider job of one attempt and what it leaves at the provider | `Service` |
| `Service` | the process: startup, worker loops, HTTP server, shutdown, composed with `SonioxJob` | `ServiceProofs` |
| `MCPipeline`, `MCIntake`, `MCSubmission`, `MCOperatorSessions` | instances for TLC | the `.cfg` files |
| `PipelineProofs`, `PipelineSafety`, `PipelineRefinement`, `IntakeProofs`, `SubmissionProofs`, `SessionProofs`, `ThrottleProofs`, `ServiceProofs` | the theorems | |

How the modules meet:

- `Intake!InsertRow` is the commit that `Pipeline!Upload` shows: a `received` row
  whose `received_at` was read earlier. `Submission` decides whether `Intake` gets
  that far: what it answers other than `created` is a body that `Intake` refuses
  as a whole.
- `Submission!Route` is the decision that `Pipeline` leaves open (any Sink or the
  Backlog), since the configuration may change between two starts.
- `Pipeline`'s call to the provider, one answer of success, retryable or terminal
  failure, is a whole run of `SonioxJob` inside a tick of `Service`. `Service` has
  the loops around the ticks and leaves what a tick reads and writes to
  `Pipeline`. `Pipeline!Crash` and recovery are `Service`'s `Exit` and `Serve`.
- An Operator's request of `Pipeline` is an `action` that `OperatorSessions` has
  admitted; a login of `OperatorSessions` has passed `LoginThrottle`.

### Pipeline

The variables `recordings`, `transcripts`, `transcription_attempts`,
`deliveries`, `delivery_attempts` and `audit_events` are the tables; since a
Delivery is unique per Recording, deliveries and their attempts are indexed by
Recording. A row keeps the columns that steer the program: statuses, times, the
selected Sink, whether `latest_error` is set, the retry window. Texts, names and
provider identifiers are left out. NULL times are `NoTime`. `accepted` counts
the POSTs a Sink has accepted: it belongs to the Sink, not to the program.

`transcriber`, `routers`, `deliverer` and `requests` are what the tasks hold in
memory; `pc` names the await a task is at. One action is one transaction, one
remote answer, or one read that is carried over an await, and every transaction
of `storage/sqlite.rs` that touches these tables is an action of its own with
the guards and early returns of its code. The candidate lists are read in
several statements by the code and in one step by the model; the rows they read
can be changed between two of these statements only by an Operator action on a
resting Recording, which is not in the list. A transaction that fails rolls back
and ends the process, which is `Crash` at that point; an Operator's request that
is refused, fails or is dropped is `EndRequest`.

A tick reads the clock and then awaits its query, so the time it goes by is older
than the rows it reads. `RecentTimes` is what it may have read, up to `MaxReadLag`
ticks of the clock ago. A reading of the Transcription or the Delivery worker
follows every end of an attempt in its table (`Readings`), since the tick before
had written it, or recovery before the first tick; a Routing worker writes no
attempts, and there may be several, so its reading is bound by nothing else. The clock
itself does not step back in the model, while `SystemClock` is the wall clock:
`AttemptsInOrder`, `BackoffRespected` and `NoEarlyGiveUp` are claimed for a clock
that does not (see *Not modelled*).

A call to the provider returns any of success, retryable failure and terminal
failure. A call to the Sink returns any of them too, and a failure may come back
for a payload the Sink accepted (a lost answer). The Routing decision is any Sink
or the Backlog: configuration may change at a restart.

### Intake

One action is one file operation, one SQL statement or one read of
`upload_recording` and `ingest`. An upload is named by the `recording_id` its
handler generates. The body is stored or refused as a whole; `Submission` takes
it apart. `Disconnect` drops the handler at any await, as the
server does when a connection closes; a process crash drops all of them;
`PowerLoss` also takes what `WriteBack` has not put on disk, while the directory
keeps its renames and removals.

Every removal of a file is best-effort in the code: `remove_temp`, `remove_blob`
and the loop of `clean_stale_temp` drop the error and go on. `Remove` lets any of
them fail, the answer of the request staying the same, and the history variable
`stuck` keeps the uploads whose file was last tried in vain. A handler whose
process is gone is `"ended"`. So `LitterWasTried` can say of each file left over
that its owner is alive, or was cut off, or that its removal was tried and failed,
and that no temp file outlives the process that follows its own but for a failed
removal. It does not say that no file is left: a blob whose removal failed stays
for ever.

### Submission, Configuration and WavHeader

A behaviour of `Submission` is one start of the process and one request. The
configuration file and the request are chosen at the start and stay; the body is
a sequence of parts, read in pieces of any size, and may break off at its end.
A part is a record of what its bytes would parse to, a raw tag the pair of its
normal form and its spelling, an audio file the sequence of its chunks.
`Configuration` and `WavHeader` follow the loops of the code as recursive
functions: `Normalizing`, `AcceptingClients`, `AcceptingSinks` and `Scanning`
give, for each number of turns, what the loop has computed after them.
`SpecifiedAnswer`, `SpecifiedSink` and `SpecifiedDuration` say the same of the
whole body at once, without the loops: the smallest position at which something
is wrong, the first rule that shares a tag, the place at which a chunk lies.

### OperatorSessions and LoginThrottle

`sessions` is the table `operator_sessions`, indexed by token; a token stands for
its hash and for the CSRF token derived from it. `requests` is where each handler
stands and what it has read: it reads the clock once, then awaits a `SELECT`, then
an `UPDATE` that bears that reading, so its writes are as old as its slowest wait.
`activity` is a history variable. A handler may be dropped at any await. Rows are
never deleted, in the model as in the code.

`SessionGate` has neither rows nor deadlines: a gate per token that opens once and
closes for good, and that admits in one indivisible step. `ImplementsGate` maps an
unrevoked row to an open gate and a handler past `touch_session` to an admitted
request.

In `LoginThrottle` rows and handlers carry their age instead of a time, so that
time may go on for ever on a finite state space, as `LockLifts` needs. All attempts share the
address `unknown`, as in the code, so each statement's `username = ? OR
remote_ip = ?` selects every row. Rows too old to be counted by anyone are
forgotten; the code keeps them.

### SonioxJob and Service

A request to the provider is in `calls` from when it is sent until the provider
carries it out or it is lost, and the answer the job sees comes separately: an error
says nothing about whether the resource was created or deleted, and a late request
may still be carried out after the job, or the process, has ended. `held` is what
exists at the provider, `unaccounted` the resources of which no later step will
know. Every await of `SonioxTranscriber::run` is a `stage`.

`Service` composes the job with the process. The loops, the server and the signal
are futures of one task, so reading the flag and starting a tick is one step. When
one of them fails, or the grace period is over, all of them are dropped at whatever
await they stand (`Exit`). A tick of another loop is its outcome only. The history
variable `admitted` keeps what was under way when the shutdown was requested: the
loops in a tick, and the number of the last job their ticks may come to. A
Transcription tick that has only begun does go on to send its Recording.

### Seeded definitions

A definition named `Seeded...` is not the code's. It is a faulty form of the
definition after it, the kind of slip an edit could make, and `PROJECT.json`
names for each property the one that breaks it, as evidence that the property can
fail on these instances.

## Runs

| Run | Instance | Shows |
|---|---|---|
| `pipeline_crash` | 1 Recording, 1 Sink, 1 request, clock to 4, 1 crash, 1 Operator action | no crash point strands work, loses an attempt or a Delivery; every retry waits its backoff and gives up only after its window, also after a manual retry; attempts stand in the order of time |
| `pipeline_race` | 1 Recording, 2 Sinks, 2 Routing workers, 2 requests, 2 Operator actions, clock to 1 | tables agree, what a worker read still holds when it writes, no request or worker takes effect twice |
| `pipeline_pair` | 2 Recordings, late uploads, 1 crash, clock to 1 | `Pipeline` implements `RecordingLifecycle` while Recordings compete for the workers |
| `pipeline_live` | 1 Recording, 1 crash, 1 Operator action, clock to 16 | every Recording comes to rest |
| `intake_faults` | 3 uploads, 2 keys, each fault once, failing removals twice | rows, files and answers agree but for the two findings below; a file is left over only if its removal failed |
| `intake_fetch_failure` | 2 uploads, 1 key | finding: the blob of a committed row is removed |
| `intake_power_loss` | 2 uploads, 1 key | finding: an acknowledged upload's audio is lost with the power |
| `operator_sessions` | 1 token, 3 handlers, idle 2, absolute 3, clock to 4 | sessions implement `SessionGate`; idle and absolute expiry and logout hold whatever order late writes land in |
| `login_throttle` | 3 attempts, delay from 1 failure, lock from 2, window 1, hold 1, 8 rows | the lock is overshot by no more than the attempts that run at once, and it lifts |
| `service` | 2 polls, 2 jobs, 1 other loop, 1 connection, 2 starts | what can be left at the provider, that a shutdown lets only the ticks under way go on, and that it ends the process |
| `submission` | bodies of up to 3 parts, 13 configurations | the byte budget holds, and nothing depends on the pieces the body came in |

The durations are scaled: a schedule `<<1, 2>>` and windows of 2 keep what
matters about minutes and hours, that a first retry fits into the window and
that the last backoff is as long as the window. In `pipeline_crash` a clock to 4
allows three attempts, a failure past the deadline and a manual retry with a
fresh window after it. In `pipeline_live` the clock runs to 16, past the last
moment at which anything uploaded or retried by time 1 can still be pending, so
that the bound on the clock never keeps work from settling. `MaxArrival` bounds
uploads and requests, `MaxUploadLag` how much older than its commit an upload's
`received_at` may be, `MaxReadLag` how much older than its query a tick's reading of
the clock may be, `MaxActions` the Operator actions per Recording, and `MaxCrashes`,
`MaxFetchFailures`, `MaxPowerLosses` and `MaxRemovalFailures` the faults; each bound
is a constant in a guard. `MaxReadLag` is 1 in the runs about times, so that a reading
may fall before any change of the clock, and 0 in `pipeline_pair`, whose property has
no times, and in `pipeline_live`, where a tick of the model stands for minutes: a
worker whose readings are that late at every tick for ever would never find a
retry due, and no query of the code waits so long. Recordings, Sinks, Routing workers, requests, uploads and
keys are interchangeable, and the runs without liveness use that symmetry.

In `operator_sessions` one token is enough because no statement touches the row
of another; three handlers are a login or logout and two requests that overlap it;
a clock to 4 goes past the absolute deadline of the first session, with the idle
one shorter. In `login_throttle` three attempts overshoot a threshold of 2, a window
and a hold of 1 let rows age out while attempts that began before are still about
to record, and 8 rows are more than ever count at once, so `MaxRows` never blocks.
In `service` two polls are a first and a last one, the second job and the second
start come after leftovers of the first, and one connection and one other loop each
hold up a join; the third loop of the code is like the other one. The theorems
remove these bounds. In `submission` the lengths are scaled so that a marker, a chunk
head and a `fmt` chunk fit into the header scan with room for one more chunk, and
the parts have sizes at, one below and one above each limit: the byte budget, the
text cap, the scan length, the tag count and the skew. Pairs and triples of
parts cover repeated fields and a budget spent on ignored ones.

`Intake`, `Service` and `Submission` check no deadlock because their behaviours
really end: all uploads are answered, the last allowed process has exited, the one
request has its answer. The others check it.

### Fairness

*Pipeline.* `FairSpec` assumes weak fairness of each worker, of recovery and of the answer to
a request. The code justifies it: `run_worker_loop` polls for ever, a service
manager restarts a process that ended, and a task that can run is run. Two
assumptions go beyond the code. A remote call returns (within `MaxCall`): the
HTTP clients set no timeout, so a peer that keeps a connection open for ever does
stop its worker. And time passes a worker by only when it has nothing to do
(`WorkWaits`): a tick of the model stands for a minute or more, a poll happens
every five seconds. The strong fairness of `Tick` says that time goes on.

*LoginThrottle.* Weak fairness of `Tick` and of each handler that has begun:
time passes, statements answer and the sleep ends. Nobody has to try to log in, and
anybody may for ever.

*Service.* Weak fairness of the grace timer, of what the job does by itself and of
the transaction that records its result. Nothing is assumed of the provider, of a
Sink or of the HTTP clients: `ShutdownEnds` holds although none of them ever
answers. `JobEnds` is conditional: *if* the provider answers, a job ends.

## Findings

1. *A row can point at a missing file* (`intake_fetch_failure`).
   `create_recording` inserts and reads back in two statements; if the second
   fails, `ingest` removes the blob of a committed row, which the comment at
   `src/http/api.rs:152-154` rules out. A client that tries again is told
   "duplicate".
2. *An acknowledged upload can lose its audio with the power*
   (`intake_power_loss`). ADR 0002 speaks of durable local storage; the file is
   never synced.

## Observations

What follows contradicts no document, and the models have it as the code does.

- The transcript is stored only after the provider's clean-up. A delete that never
  answers (the clients set no timeout) holds it back, and the end of the process
  in that time loses it: the next attempt transcribes again. `TranscriptKept`
  says that this end of the process is the only way to lose it.
- The code cannot but leave a file or a transcription at the provider when the
  answer to its creation or deletion is an error or never comes, or when the process
  ends during a job. `NoSilentLeak` says that nothing else stays.
- A request that was admitted before a logout commits its action after it.
  `SessionGate` allows that, and only that: nobody is admitted after the logout.
- All login failures count for everyone, for every attempt has the same remote
  address (`src/monitor/handlers.rs:35-37`): a lock is a lock of the login page.
- The configuration's `require_non_empty` trims only to test, while the upload's
  header is trimmed: a configured fingerprint with blanks around it matches nobody.
- A commit that is not the last of a login leaves a session's row without a cookie
  when `clear_login_failures` fails.
- A manual retry bypasses the backoff only if its window is strictly later than the
  end of the last attempt (`src/workers/transcription.rs:108-110`), and a request
  reads the clock before its transaction. One that is sent during the attempt that
  then fails for good opens a window older than that failure, so the work waits
  for the backoff.

## Proofs

The theorems hold for any sets of Recordings, Sinks, Routing workers, requests,
uploads, keys, tokens, handlers and worker loops, any retry schedule, thresholds,
limits and bounds. They rest on `RetryAssumption` (the schedule is a non-empty sequence of natural numbers, the
windows are natural numbers and the cap fits the integer type),
`PipelineAssumption` and `IntakeAssumption` (the values that stand for "none" are
none of the others, audio durations are integers, the bounds natural numbers),
`SessionAssumption` (the idle lifetime is positive and no longer than the absolute
one), `ThrottleAssumption` (finitely many attempts at once, a lock threshold of at
least 1 and no lower than the delay's), `JobAssumption` and `ServiceAssumption` (at
least one poll and one start), `TagsAssumption`, `WavAssumption` and
`SubmissionAssumption` (limits and lengths are natural numbers, the markers and a
chunk head not empty), `InputAssumption` (a configuration file is lists of Clients
and Sinks, a body a list of parts, of the types the parsers produce), and on
nothing else; TLC evaluates all of them in the runs.

**Types** (`PipelineProofs!TypeCorrect`). `TypeOK` is inductive by itself: one
step of the proof per action, over lemmas on what appending, finishing and
closing do to a sequence of attempts. That the deadline anchor is a time and
never NULL is part of it.

**Retry policy** (`PipelineProofs`). `WindowIsClampedDouble`: the saturating
multiplication never shows in a window, for the cap is met first, and a longer
recording never has a shorter window. `BackoffInSchedule`: the lookup is in bounds
for every attempt number.

**Safety of the pipeline** (`PipelineSafety`). No invariant of the runs is
inductive alone. The tables agree (`RowsAgree`) because a worker that finishes
finds its Recording as it left it (`WorkersKeepTheirClaim`). It does because
nobody moves a claimed row, and a Delivery is claimed from the `deliveries` table,
whose status is the Recording's only because the tables agree. That no attempt is
lost from the count needs what the worker holds to be the last attempt
(`HandsMatchRows`), and that no second one is opened needs `OpenAttemptsAreHeld`.
After a crash nothing is held, so `HandsMatchRows` also says which rows a crash
can leave behind: a claim without an attempt was in the transcriber's hands.
`Safe` is the conjunction, and each conjunct has its own lemma, one step per
action. From `Safe` follow:

| Theorem | Property | Further argument |
|---|---|---|
| `TablesAgree`, `ClaimsAreKept`, `HandsAlwaysMatch`, `AttemptsAreHeld` | the conjuncts | |
| `NothingIsStranded` | `NothingStranded` | an active Recording that nobody holds has no open attempt, so the candidate query returns it |
| `SelectionIsFinal` | `SinkChosenOnce` | `insert_delivery` needs an absent row |
| `DeliveredForGood` | `DeliveredIsFinal` | only a claimed Recording is sent, and a claimed one is in `delivering` |
| `DeliveriesLeaveATrace` | `DeliveriesAreRecorded` | with `DeliveredWasAccepted` as a further invariant |
| `OperatorAloneWakes` | `WokenOnlyByOperator` | by the guards of the actions and the claims |
| `RetriesWait` | `BackoffRespected` | `Timed`, below |
| `GivesUpOnlyLate` | `NoEarlyGiveUp` | `AnchorsAndDeadlines`, below |
| `AttemptsNeverOverlap` | `AttemptsInOrder` | `TablesInOrder`, below |

**Timing of retries** (`PipelineSafety`, second half). A worker decides that a retry
is due, and starts it later with the clock it read then. `Timed` is why that is
safe: a window newer than the last failure exists only where that failure was
final (`Paced`), so an attempt that is due without an Operator waited for its
backoff, and what is claimed stays `Ready` until it starts. It needs that no
window lies in the future (`WindowsArePast`), or the window that a manual retry
opened could be newer than the failure of the attempt it led to. `AnchorsAndDeadlines` is why no one gives
up early: attempts start in the order of their rows, so the minimum that the code
takes is the first row's start (`AnchorsHold`), a Delivery's deadline is written
with its window (`Deadlines`), and while a worker is in a call no Operator can
move either.

**Order of attempts** (`PipelineSafety`, at the end). `Chronological` adds to
`AttemptsInOrder` what makes it inductive: nothing in a list is later than the
clock, what a worker has claimed starts after everything in any list, and what it
has an answer for ends after its start. Both workers write their tables in the
same four ways (append, finish, close at recovery, leave alone), so one lemma,
`ChronologicalStep`, over a list and a worker serves both. With `RetriesWait` it gives
`CallsAreSpread`: even from start to start, a peer is not called again before the
backoff is over.

**Refinement** (`PipelineRefinement!PipelineImplementsLifecycle`). Every step of
`Pipeline` is one action of `RecordingLifecycle` for one Recording, or leaves its
variables alone. Recovery is the one action that writes all rows at once; it is a
single `Unclaim` because at most one Recording is in `transcribing` without an
attempt (`OneUnattempted`): there is one transcriber, and the process that follows
a crash recovers before it claims.

**Uploads** (`IntakeProofs`). The invariant is `TypeOK`, that a handler's position
matches the file and the row it has made so far (`HandlersMatchStores`), that rows
have audio unless their handler ended in an error or the power was lost
(`RowsHaveAudio`), that a file has an owner or its removal failed (`FilesHaveOwners`),
and that a handler tries a removal only as its last step, on a file that is in one
place (`RemovalsComeLast`): without it the successful removal of a temp file could
take away the mark of a blob. `AudioKept`, `LitterTried` and `AnswersRight` follow.

**Request bodies** (`SubmissionProofs`). `BudgetHeld` needs only that
the counters are natural numbers and that a handler that has answered stays so.

`EveryBodyDecidedAsSpecified` holds for files, bodies, tag lists and audio of any
length, in any pieces. Half of its proof is about the pure functions, one theorem
for each loop of the code:

| Theorem | The loop | Agrees with |
|---|---|---|
| `TagsNormalized` | `Tags::new` | the set of the distinct normal forms |
| `ConfigurationValidated` | `validate_clients`, `validate_sinks` | `WellFormed`, and what is kept of the file |
| `FirstSharingSink` | `ConfigRouter::route` over those rules | `SpecifiedSink` |
| `AudioParsed` | `parse_header` | `AcceptableAudio`, `SpecifiedDuration` |

For each of them the state after `i` turns is described in terms of the first `i`
items: which texts are kept, whether every item so far is acceptable, which chunks
the walk has met and where it stands (`NormalizedSet`, `ClientsExact`,
`SinksExact`, `WalkedThrough`). For the walk that is more than its last value: it
may stop short, at a `data` chunk, at a cut `fmt` chunk or at the end of the
leading bytes, and what lies behind must not be `Seen` either, which holds because
the ends of the chunks only grow (`EndsGrow`). These descriptions are proved by
induction. The library's induction rules take the formula as a parameter, which
the provers cannot instantiate; so `LeastElement` (every non-empty set of natural
numbers has a least one) is derived from the library's well-founded order of the
finite sets, `InductionUpTo` states induction over a segment for a *set*, and
`Recursion` and `RecursionType` say of a function given as data that the recursive
definition of a loop has a value, step by step and of the right type.

The other half is the handler. `DecidedInv` says what it knows between two fields
(`BetweenInv`: the budget is what the parts read so far have left, each kind of
field holds the last part of its name, none of these parts is one to refuse),
within a field (`InFieldInv`: of that field, what has come is paid for and
kept), and after a success (`StoredInv`). It is inductive, one lemma per action. Two steps
carry the argument. A piece that breaks a limit makes its part the smallest
refused one (`RefusedAnswer`), although the handler answers before it has seen the
part's end, where another error may wait: the earlier answer is the one
specified. At the end of the body the first failing check of the code is the first
failing condition of `SpecifiedAnswer` (`BodyDecided`). TLC checked `DecidedInv`
on the bodies of the run `submission` before it was proved.

**Sessions** (`SessionProofs`). `RowsCohere` and `NoIdleGap` rest on what handlers
carry: a handler that is about to touch a row read its clock when the row, as it
then stood, was alive, and holds that row's absolute deadline; the deadline of that
row came from an arrival in `activity`, which never shrinks. So a late write may
move the deadline back, but never past an arrival that an earlier one does not
explain. The refinement follows: what `touch_session` decides on, with `revoked_at
IS NULL` in its `WHERE`, is what an indivisible check would decide.

**Throttle** (`ThrottleProofs`). `OvershootBounded` is a counting argument: an
attempt passes the check only with fewer than `LockThreshold` failures counted, which
are at least the recent ones; from then on it is either among those that passed
or its failure is among the recent ones. The invariant is stated with
cardinalities of the two sets and preserved by each action.

**Process and provider job** (`ServiceProofs`). The invariant adds to `TypeOK` and
`NoSilentLeak` that a request in flight is one of the current job's or is for a
resource that is already unaccounted for (a late creation would leak otherwise),
that a creation whose answer gave an id is not on its way any more, and that a
service has returned only after the flag was set, with nothing left running.
`GracefulExit` and `TranscriptKept` follow from the actions under it.
`ShutdownAdmitsNoTick` (`OnlyTicksUnderWay`) needs one fact more, `TicksInv`: while a
Transcription tick stands before its attempt, the one job it may begin is not
yet used up.

Left to TLC: liveness under fairness (`EveryRecordingSettles`, `LockLifts`,
`ShutdownEnds`, `JobEnds`), which is out of the prover's reach. Every invariant,
action property and refinement of a passing run has a theorem.

## Not modelled

- *Hashing, signing, rendering, formatting* (`tokens.rs`, `hmac.rs`, `payload.rs`,
  `templates.rs`, header syntax of `cookies.rs`): no state and no order of steps to
  get wrong.
- *The monitor's queries.* The list and the detail page are read-only; each action
  checks its status again in its own transaction. That a page reads in several
  statements is a hazard listed without a property.
- *SQLite itself*: that a transaction is atomic and isolated is taken for granted.
  A deferred transaction whose upgrade to a write fails ends the worker and so the
  process; that is `Crash` at this transaction.
- *The order of timestamps as text*, which differs from the order of times only
  within one second.
- *A clock that steps back.* `SystemClock` reads the wall clock, which an
  administrator or a time service may set back; the code takes no measure
  against it, and the order of attempts and the waiting times would suffer.
- *Starvation of retries by an endless stream of uploads*: claims of received
  Recordings come first, no document promises otherwise, and `MaxArrival` bounds it
  in `pipeline_live`.
- *HTTP routing, argument parsing, packaging.*

## Plan

Done: `Pipeline`, `Retry`, `RecordingLifecycle` and `Intake`, with safety and
refinement proved; `OperatorSessions`, `SessionGate` and `LoginThrottle`;
`SonioxJob` and `Service`; `Configuration`, `WavHeader` and `Submission`; a theorem
for every safety property, action property and refinement of the runs.

Left, in this order:

1. `SqliteTx`: deferred transactions under WAL, the failed upgrade of a stale
   snapshot, the busy timeout; an abstract atomic store that it implements.
2. `RetryTimeline`: the schedule in real minutes, how late work can be given up,
   how many attempts a manual retry buys.
3. The detail page as a sequence of reads beside `Pipeline`, with what a mixture of
   states can and cannot show.
