# A verification project for PeeBot

PeeBot follows the urine tank of the International Space Station.  A long-running
process subscribes to NASA's Lightstreamer feed and stores readings; a Celery task looks
for fills of the tank every 30 seconds; a fill becomes a `DetectedEvent` row and, unless a
cooldown is running, a post on Bluesky.  This directory holds TLA+ specifications of that
pipeline, the TLC configurations that check them and TLAPS proofs about them.

Lines are quoted as `file:line` of the source tree; `PROJECT.json` maps every definition to
the lines it stands for.

## 1. Inventory

### 1.1 Components

| Component | Source | State | Operations |
|---|---|---|---|
| Lightstreamer client | `telemetry_ingestion/services/lightstreamer_client.py` | connection, subscription | connect, disconnect, `onItemUpdate` (on the SDK's thread) |
| Ingestion process | `telemetry_ingestion/management/commands/run_lightstreamer.py` | queue with its unfinished count, buffer, pending count, worker task, shutdown event | producer callback, worker loop, `flush_buffer`, connect loop, drain, cancellation |
| Validator, enricher | `telemetry_ingestion/services/` | none | accept or reject an update; feed item to reading |
| Telemetry store | `telemetry_storage/`, `core/models.py` | channels (soft-deleted), readings, unique (channel, timestamp) | `abulk_create(ignore_conflicts)`, `create_reading`, queries |
| Channel seeding | `telemetry_storage/management/commands/seed_channels.py` | none; writes the channels | one upsert per symbol of the list, whenever the web container starts |
| Injection API | `telemetry_ingestion/views.py`, `services/injection.py` | the same readings table | insert one reading or answer 409 |
| Fill detector | `event_processors/processors/pee_bot.py` | none between calls | `analyze`, `get_confidence` |
| PeeBot task | `event_processors/tasks.py`, `processors/base.py`, `config/celery.py` | `ProcessorState` row, `DetectedEvent` rows, messages in the broker | one run: load, query, analyze, create, post, save; retry, redelivery |
| Bluesky client | `event_processors/services/bluesky_client.py` | `SocialPost` rows, the account | cooldown check, login, send, record |
| Joke generator | `event_processors/services/joke_generator.py` | none | bounded retries of an LLM call |
| Seq log handler | `core/logging.py` | bounded queue, sender thread | emit, send, close |
| Health, REST views, dashboards, serializers | `core/health.py`, `*/views.py` | none | read |
| Settings, Sentry filter, deployment | `config/`, `docker/` | none | constants of the above |

### 1.2 Interactions

    feed --thread--> onItemUpdate --run_coroutine_threadsafe--> producer callback
         --asyncio.Queue--> ingestion_worker --executor thread--> readings table
    Beat --broker--> run_peebot_processor --query--> readings table
         --> analyze --> DetectedEvent --> joke generator, Bluesky client --> SocialPost, account
         --> ProcessorState.cursor

The ingestion process and the Celery workers share only the database.  Celery workers share
the `ProcessorState`, `DetectedEvent` and `SocialPost` tables and the Bluesky account, and
lock none of them.

### 1.3 What is hard here, and what makes each component correct

`PROJECT.json` lists the hazards one by one with their lines; in short:

- **Ingestion.** Callbacks of another thread, a bounded queue that drops its oldest message, a
  worker that may be cancelled in the middle of a flush, a drain that waits for a count.
  *Correct when* nothing taken into the queue disappears without a log line, an orderly stop
  stores what was queued, and a signal always ends the process.
- **Detector.** Two indices, of which one never goes back, over windows with inclusive bounds.
  *Correct when* it returns the earliest window that rises enough, if the level then holds,
  for every input.
- **Task.** Runs overlap, fail between two commits, are retried and redelivered; readings may be
  stored after the run that should have seen them; the state row is written back whole.
  *Correct when* no two neighbouring readings fall between two runs, no event found is lost,
  and the cursor goes back only where a run was overtaken, never behind what that run loaded.
- **Posting.** Check, then act, with seconds of LLM and network in between; the record that
  closes the cooldown is written after the post.  *Correct when* one worker keeps the
  cooldown, only a race or a torn post breaks it, records tell the truth, a dry run posts nothing, and an
  attempt ends.
- **Enricher, store, injection, seeding.** A feed that counts hours from the start of a year it does not
  name, and sends only the fields that changed; two writers for one unique key; a seeding without
  a transaction beside a process that reads its table once.  *Correct when* rows carry the time of
  their measurement, a key has one row, the store catches up with the feed after any loss
  that a snapshot follows, and the ingestion process ends up on the target channel.
- **Seq handler.** A bounded queue that a thread and `close()` empty together, and a join with a
  deadline.  *Correct when* nothing is posted twice, `close()` ends, and it loses at most what the
  thread still has in its hand.

## 2. Modules

| Module | What it is |
|---|---|
| `FillDetector` | the detector as definitions: what a qualifying window is, stability, confidence, `Analyze` |
| `FillScan` | the loop of `analyze()` step by step |
| `FillDetector_proofs`, `FillScan_proofs` | lemmas about the detector's definitions; theorems about `FillScan` |
| `IngestionPipeline` | SDK thread, producer callback, worker, `run_async` |
| `ReadingLedger` | abstract specification of what the ingestion process promises about a reading |
| `IngestionPipeline_proofs` | theorems about the queue, its count and the flushes of `IngestionPipeline` |
| `IngestionLedger_proofs` | theorems about the order of readings, what a stop leaves behind and the refinement of `ReadingLedger` |
| `PeeBotTask` | Beat, broker, overlapping runs over the database; uses `FillDetector` for the analysis |
| `SocialPosting` | the posting attempts of several workers |
| `CooldownGate` | abstract specification of posting: who may announce when |
| `SocialPosting_proofs` | theorems about `SocialPosting`, with the refinement of `CooldownGate` |
| `PeeBotSystem` | `PeeBotTask` composed with `CooldownGate` and Celery's time limit |
| `PeeBotTask_proofs` | theorems about `PeeBotTask` and `PeeBotSystem` |
| `Enricher` | the conversion of the feed's hours |
| `TelemetryStore` | feed deltas, snapshots, dated rows, injection, seeding; uses `Enricher` |
| `TelemetryStore_proofs` | theorems about `Enricher` and `TelemetryStore` |
| `SeqHandler` | logging threads, worker thread and `close()` |
| `SeqHandler_proofs` | theorems about `SeqHandler` |
| `MC*` | the instances TLC checks |

    PeeBotSystem --EXTENDS--> PeeBotTask --EXTENDS--> FillDetector <--EXTENDS-- FillScan
         |                                                           (FillScan computes Analyze)
         +--INSTANCE--> CooldownGate <--implements-- SocialPosting
    ReadingLedger <--implements-- IngestionPipeline        TelemetryStore --EXTENDS--> Enricher

A name starting with `Mutant` is a deliberately wrong variant of the definition that follows
it.  It is used by no specification; replacing the definition by it must make the property
it is paired with fail.

### 2.1 FillDetector and FillScan

`FillDetector` is the abstract specification, `FillScan` the program.  `IsFill` is the window
test of `_detect_fill_event` (pee_bot.py:103), `IsStable` is `_check_stability` (:141),
`Confidence` is `get_confidence` (:225) in hundredths, without floating point.  In `FillScan` the
actions are the statements of the loop: `SortReadings`, `NextStart` (the `for` with
`end_idx = max(...)`), `Slide` (one round of the `while`), `Reject` (the two `continue`s), `Accept`,
`Exhausted`, `CheckStability`.  `sorted` is Python's stable sort (`Orderings`).  Tank levels are
integers because the channel is an integer percentage.  The texts of the metadata and
`peak_value` are left out.

### 2.2 IngestionPipeline

| Code | Model |
|---|---|
| `SubListener.onItemUpdate` | `ReceiveUpdate` (the thread enters), `HandOver` (`run_coroutine_threadsafe`) |
| `on_data_received` | `OnDataReceived`, including the drop of the oldest message |
| `queue`, `_unfinished_tasks` | `queue`, `unfinished` |
| worker, `wait_for(queue.get(), 0.1)` | `GetItem`, `GetTimesOut`; `FlushOrGet` is the end of the loop body |
| `flush_buffer` | `FlushWritten`, `FlushRefused`, `FlushLosesConnection` followed by `ConnectionClosed` or `ConnectionCloseFails` |
| its `finally` | `Acknowledge` |
| `CancelledError` in `get` or in a flush | `CancelledInGet`, `CancelledInFlush` |
| `run_async` | `Start`, `NoChannels`, `Connect`, `ConnectFails`, `BackoffExpires`, `Signal`, `Disconnect`, `DrainTimesOut`, `CancelWorker`, `Stop` |

A step is what one task does between two awaits; callbacks may run in each gap.  The insert runs in
an executor thread, so a cancelled flush may or may not have committed (`MaybeInserted`).
`evicted`, `failed`, `promised` and `closeFailed` are history variables.  What validator and enricher make of an
update is the constant `Kind` and the constant `RowKey`.  Time is not modelled: the
flush interval, the back-off and the drain timeout are timers that may fire whenever
they are armed, which covers every duration.

`ReadingLedger` says the same without queue, buffer and tasks: `Take`, `Settle` (a row, or given up),
`Drain`, `Stop`.  The refinement mapping `Ledger` takes `promised` for the readings taken over,
`Persisted` for stored, `Lost` for given up, and a drain that timed out, or a raising
`close_old_connections`, for `hurried`.

### 2.3 PeeBotTask

`Beat` publishes without waiting; `Take` receives a message, which with `acks_late` is in effect
acknowledged at the end of the run.  A run is `LoadState`, `QueryReadings` (query and
`analyze`, with no await between them that matters), `CreateEvent`, `TryPost`, `SaveState`, each
a commit of its own.  `OperationalFault`, `CreateThenFault`, `SaveThenFault` (the connection
breaks after the commit), `OtherError` and `Killed` are what may go wrong; the first three
publish a retry, `Killed` may redeliver.  `UsesCursor`/`QueryFrom` are tasks.py:220-226.
`StoreReading` is the ingestion process seen from here: a reading is stored at
most `MaxLag` after its timestamp, so readings may arrive out of order.  Posting is one step,
because `_try_post_to_bluesky` raises nothing; `SocialPosting` opens it up.  The jitter at the
start of a task and the countdown of a retry are delays before `Take` and `LoadState`.

`PeeBotSystem` puts the posting back: in place of `TryPost` a worker may announce what it found if
`CooldownGate` lets it (`PostAnnounces`), or be killed between the post and its record
(`KilledUnrecorded`).  A run ends by the time limit at the latest (`SystemTick`): the deployed
worker is started with `--time-limit=300 --soft-time-limit=270` (docker-compose.yml:263-264), which override the
30 and 25 minutes of settings/base.py:203-204.  The soft limit raises an exception in the
run, which is an `OtherError`, or a posting that failed.  It is also started with
`--concurrency=2` (docker-compose.yml:261), so two runs, of one message or of two, go on side by side.

### 2.4 SocialPosting

One attempt is `Begin`, then either `DryRunRecord` or the first cooldown check (`CooldownOver`,
`CooldownActive`, `CannotCheck`), the joke (`JokeArrives`, `JokeCallFails`, `NoJoke`), `Login`, the second
check (`Recheck`), `Send`, `RecordSuccess`, and the failures of each.  `SendReplyLost` is a
post that went out although the client saw an error.  The clock ticks between any two
steps.  `RecordSuccessFails` assumes that an INSERT that raised was not committed.
`known` and `published` carry history: which events had a SUCCESS record when the attempt passed
its second check.

`CooldownGate` keeps of all this one log.  A publication *counts* when its SUCCESS record exists or is
the worker's next step (`Counts`); an author announces only when none of its own that counts is
within the cooldown; with faults an announcement may be torn, once, while it is the author's last.

### 2.5 Enricher and TelemetryStore

`Enrich` is the whole of `TelemetryEnricher.enrich` (enricher.py:52-79) over a calendar given by the
constant `YearStart`, so years may differ in length.  `Hours` is the feed: what its `TimeStamp` field
counts from (ADR-007).  `Datable` says in terms of the calendar which measurements can come out
right: those of the clock's year, and those of the year before unless they are older than that year
less a day.

| Code | Model |
|---|---|
| the item in MERGE mode, `getChangedFields()` | `Measure`, `Delta`, `Receive` (measurements may be merged on the way) |
| `setRequestedSnapshot("yes")` | `sent' = None` in `Start` and `Reconnect` |
| `load_channel_map` | `Start`; with an empty table the process exits and is started again, a stutter here |
| queue with drop of the oldest | `Enqueue` |
| `validate_payload`, `enrich`, insert | `Process`; `FlushFails` is a flush that is only logged |
| `seed_channels` | `BeginSeed`, `SeedOne`, `SeedFails` |
| `InjectTelemetryView.post` | `Lookup`, `Create` |
| the unique constraint, either way of meeting it | `Insert` |

One channel is fed, the target; the others matter for seeding and for the channel map.  `by`, `src`, `valued`,
`gap` and `misdated` are history.  The feed is modelled from how the code uses it: a
(channel, timestamp) pair is one measurement (ADR-011) and measurements are in order of time.  Because of
that an update always carries its `TimeStamp`; the enricher's fallback to the clock is in `Enrich`, and
not reached here.

### 2.6 SeqHandler

`Emit` is `put_nowait` or a drop; `CheckStop`, `Get`, `GetTimesOut`, `WorkerSends` are the thread's loop;
`Close`, `DrainOne`, `CloserSends`, `DrainEnds`, `WorkerJoined`, `JoinTimesOut` are `close()`; `Exit` takes the daemon
thread down.  The logging module calls `emit` and, at shutdown, `close` under the handler's lock, so `Emit` is
one step.  `worker = "absent"` is a process forked after the handler was made.  Used in development only.

## 3. Runs

State counts are distinct states.

| Run | Instance | Properties | Result |
|---|---|---|---|
| `fill_scan` | all sequences of up to 4 readings at times 0..6, levels 0..3, those of 3 reversed too, and a steep dense one | `TypeOK`, `ScanInvariant`, `ReportsEarliestFill`, `Terminates` | hold, 149,674 |
| `fill_scan_later` | the same | `AnyStableFillIsReported` | violated |
| `ingestion` | 4 updates (one invalid, one the database refuses, one repeated key), queue 2, buffer 2, one lost connection whose closing may raise | `TypeOK`, `NoUnexplainedLoss`, `OrderlyStop`, `AckBalance`, `OnlyOverflowStallsDrain`, `FreshestSurvive`, `ShutdownCompletes`, `UpdatesSettle`, `ImplementsLedger` | hold, 33,886 |
| `ingestion_drain_stuck` | queue 1 | `DrainNotStuck` | violated |
| `peebot_task` | 2 workers, late readings, a gap in the feed, 1 fault of any kind | `TypeOK`, `NoSplitWindow` | hold, 1,473,339 (with symmetry) |
| `peebot_system` | 2 workers, 1 fault of any kind, time limit 1, cooldown 4 | `SystemTypeOK`, `OwnRepeatsAreTorn`, `DetectionNotLost`, `OnlyOvertakenRunsRewind` | hold, 474,059 (with symmetry) |
| `peebot_task_twice` | 1 worker, no errors | `NoFillDetectedTwice` | violated |
| `social_posting` | 2 workers, 3 events, time 0..6, cooldown 2 | `TypeOK`, `CooldownPerWorker`, `RecordsAreTrue`, `ImplementsGate` | hold, 325,720 |
| `social_posting_faults` | 2 workers, 2 events, time 0..4, lost replies, failing records, crashes | `OnlyRacesAndTornPostsBreakCooldown`, `AttemptsEnd`, `ImplementsGate` | hold, 15,172 |
| `social_posting_race` | 2 workers, no faults | `CooldownBetweenPosts` | violated |
| `seq_handler` | 6 events, queue 3 | `TypeOK`, `NothingLostAtClose`, `PostedOnceInOrder`, `EventsShipped`, `CloseEnds` | hold, 4,056 |
| `telemetry_store` | 3 years of 6 units, a day of 2, now 11..12 (New Year is 12), measurements at 7, 11, 12, a clock up to 1 late, queue 2, one client, 2 channels in any state | `TypeOK`, `TimestampsAreTrue`, `OneRowPerKey`, `StoreCatchesUp`, `IngestionComesUp` | hold, 447,488 |

Why the bounds are enough:

- *Detector.* Four readings are the smallest input with two competing windows of two readings each
  and with a window followed by a stability reading; six instants around a window of three put
  readings before, on and after each inclusive bound; levels 0..3 around a threshold of 2 and a
  tolerance of 1 give every outcome of the comparisons.  The scan itself is proved for every
  input (section 5).
- *Ingestion.* With a queue of 2 and a buffer of 2, four updates overflow the queue, fill a
  buffer, leave a partial one, repeat a key across two batches and within one, and still leave
  callbacks pending when the signal comes.  Their order is chosen so that a raising
  `close_old_connections` can acknowledge two of them twice while the last is still queued: without
  `AckedTwice` in `NoUnexplainedLoss` the run finds that loss.
- *Task.* The clock is cut so that a fill lies on the seam of two runs, the overlap equals the
  detection window as in the code (30 s both), the observation window is larger than
  overlap and period, and two runs of different age are in flight at once, as many as the deployed worker
  runs.
- *Task and posting together.* Two workers, one message that may be redelivered or retried and one published
  by Beat let a run overtake another and write back an older cursor.  Window, overlap and time limit are
  just within the cooldown, so the hypothesis of `OwnRepeatsAreTorn` is met with nothing to spare; a
  fill is still in the query of a later run when its post is torn.
- *Store.* 7 measured in the old year and processed in the new one is past what the heuristic can
  date, 11 is not; 12 processed by a late clock falls into a year the clock does not know yet.  Three
  measurements with two values give updates without a `Value`, and with reconnections
  overflow a queue of 2.
- *Seq handler.* Six events and a queue of 3 fill it while the thread and `close()` each hold one.
- *Posting.* Three events and a cooldown of 2 allow a post, one refused by the cooldown and one
  after it; the race needs two workers.

Deadlock is checked for `telemetry_store` only: the scan returns, the ingestion process and the process
that logs stop, and the clocks of the other models are bounded.  Where the system must go on, a liveness
property says so.

### Fairness

- `FillScan`: weak fairness of `Next`; `analyze()` is a synchronous function.
- `IngestionPipeline`: the event loop runs every task that can run and timers fire:
  `OnDataReceived`, the worker, the stopping steps, the flush interval and the drain
  timeout are weakly fair.  Calls of the database return or raise.  Nothing makes the feed
  send, the connection succeed or a signal arrive.
- `PeeBotTask`, `PeeBotSystem`: none, for they have no liveness property.  Whether the backlog is ever worked
  off depends on how long runs take against Beat's 30 seconds, which nothing in the code settles.
- `TelemetryStore`: `Start`, `BeginSeed` and `SeedOne`: Docker restarts both containers (`restart:
  unless-stopped`) and the web container's entrypoint seeds; a bounded number of
  seedings may be interrupted, any number of processes may crash.
- `SeqHandler`: both threads are scheduled, and a post returns or fails within its 2 seconds.  Nothing makes
  anybody log or close.
- `SocialPosting`: each external call returns or raises, as the client libraries' timeouts
  and the task's time limit see to.

## 4. Where code and words disagree

1. `AnyStableFillIsReported` (`fill_scan_later`).  FR-PROC-003 asks for any 30-second sub-window
   that rises and stays stable; `analyze()` (pee_bot.py:191) returns None at the first
   window that rises and does not hold.  A later stable fill in the batch goes unreported.
2. `DrainNotStuck` (`ingestion_drain_stuck`).  `on_data_received` drops the oldest message
   without `task_done()` (run_lightstreamer.py:120), so after one overflow the count never gets
   back to zero, and a shutdown with items in the queue always waits for the whole 10 seconds.
   `OnlyOverflowStallsDrain` shows that nothing else makes it wait in vain.
3. `NoFillDetectedTwice` (`peebot_task_twice`).  ADR-010 says the cursor prevents re-detection; the
   30 seconds of overlap (tasks.py:222) put the fill into the next query again, and
   `CreateEvent` always inserts.
4. `CooldownBetweenPosts` (`social_posting_race`).  Two workers pass the second check before
   either has recorded its post (bluesky_client.py:188).  Without faults that is the only way.  With them there is
   a second, for which one worker suffices: a post is *torn* when it is out but its reply was lost or empty
   (:213), its SUCCESS record failed (:259) or its worker was killed, and then no record holds the next
   one back.  `OnlyRacesAndTornPostsBreakCooldown` shows that there is no third.

Also seen while modelling, without a run of their own: a fill is confirmed when no reading of its
stability window has arrived yet (pee_bot.py:156) and the cursor moves on; callbacks that run after
`client.disconnect()` put readings nobody flushes (run_lightstreamer.py:190; `promised` leaves
them out, and `OrderlyStop` promises nothing for them); after a pause longer
than the window the cursor is ignored and what lies between is never analyzed (tasks.py:220;
`Together` excepts it); a post that went out but whose record failed counts as FAILED and starts no
cooldown (bluesky_client.py:225; `CooldownPerWorker` is stated without such faults).

When `close_old_connections` raises (run_lightstreamer.py:353), the `finally` block acknowledges the batch, but buffer
and count survive, and the next flush acknowledges it a second time.  The docstring of `flush_buffer` says the
items "must be ``task_done``'d exactly this many times".  The count then reaches zero early, `join()` returns,
the worker is cancelled, and readings still in the queue are gone.  The log has the exception, nothing about
them.  `NoUnexplainedLoss` excepts this case by name (`AckedTwice`), and a drain whose timeout was
logged, and shows that no other interleaving loses a reading without a log line.

`OwnRepeatsAreTorn` speaks of one worker's own announcements, and holds when the observation window, the overlap
and the longest run fit into the cooldown.  As deployed they do: 10 minutes, 30 seconds and a time limit of 5
minutes (docker-compose.yml:263) against a cooldown of 30 minutes; a worker started without these options
would have the 30 minutes of settings/base.py:203, and would not meet it.  Two workers may announce one fill with
no torn post: the overlap lets both find it, nothing locks the state row, and the race of point 4 does the
rest.  The abstract gate of `PeeBotSystem` allows it, and the property leaves it out.

A measurement whose value did not change arrives
without `Value` and is dropped with a warning (validator.py:34, lightstreamer_client.py:73), so the table
has a row per change of value, not per measurement.  An injected reading keeps its key for good: the
feed's reading of that time is dropped silently.  A debugging log event emitted after `close()` is queued for
nobody.

## 5. What is proved

Every theorem holds for all values of the constants that satisfy the module's `ASSUME`s; TLC
evaluates these on every run.  Every safety invariant, action property and refinement of a passing run
is stated by a theorem; liveness is model-checked (see the end of the section).

**FillScan_proofs** (on `FillDetector_proofs`).  `TypeCorrect`, `ScanCorrect` (`ScanInvariant`), `DetectorCorrect`
(`ReportsEarliestFill`).  The inductive invariant is
`TypeOK /\ NotStarted /\ ScanInvariant /\ ReportsEarliestFill`: before the call nothing is set, during
the scan the loop invariant holds, afterwards the answer is right.  The point of
`ScanInvariant` is that `end_idx` carries over from one window to the next: all readings up to it lie in
the new window because timestamps are in order, so when `CanSlide` fails, `end_idx` *is* the last
reading of the window, and a window rejected stays rejected.  Uniqueness of the
earliest fill then identifies the scan's answer with `Analyze`'s `CHOOSE`.

**IngestionPipeline_proofs.**
- `TypeCorrect`, `AckBalanceHolds`, `DrainStallsOnlyAfterOverflow`: `DrainInv` adds to `TypeOK` and `AckBalance`
  what the control states imply - `Cancelling` (who may be cancelled when) and
  `JoinWaits` (in `join` the count is positive).  `AckBalance` alone is not inductive: a final flush
  acknowledges a second time, and only `Cancelling` keeps that out of the states it
  speaks of.
- `LossInvariant`, a lemma for the next module: `LossInv` says that a promised reading is queued, with a live worker,
  given up or stored (`OnItsWay`), and that a worker that lost its connection or was refused has its
  batch in `failed` already (`GivenUp`).  The step that inserts a batch rests on
  `InsertPersists`: after `ignore_conflicts` every key of the batch has a row, because either the table
  had one or the first reading of the batch with that key got in; the existence of a first one is
  `LeastNatural`, from the well-founded order of the naturals.

**IngestionLedger_proofs.**
- `FreshestSurviveHolds`: what was dropped is older than what is queued.  Inductive is `InOrder`: everything
  that has been in the queue is older than what the loop has been handed and not yet run, that is older
  than what the SDK thread holds, and that than the next update.
- `OrderlyStopHolds`: `OrderlyInv` adds `Starting` (nothing is taken over before the worker exists) and
  `Drained` (after a drain that was not cut short no promised reading is queued; late callbacks may still
  add others).  A worker that is gone left nothing in its hands by `OnItsWay`.
- `NothingElseLoses` (`NoUnexplainedLoss`): what `OnItsWay` leaves open is the queue of a worker that is gone.  `Drained`
  says that after a drain that logged no timeout a promised reading is queued only if a double acknowledgement
  brought the count below what is queued or was dropped, and that it stays below: a late
  callback raises both by one (`CallbackCounts`).
- `LedgerImplemented` (`ImplementsLedger`): a step of the pipeline is a `Take` (the callback promises its
  reading), a `Settle` (a flush, a drop), a `Drain` or a `Stop` of `ReadingLedger`, or does not show.  The guard of
  `Stop` is `OrderlyStop`.

**SocialPosting_proofs.**
- `TypeCorrect`; `CooldownHolds` (`CooldownPerWorker`) from `CooldownInv`:
  `NoneFromTheFuture`, `PublicationsCovered` (every publication of a worker that is not about to record
  it has a SUCCESS record at least as late), `ClearedToSend` (a worker about to send had no publication
  of its own within the cooldown when it checked, and the clock only moves on).
- `RecordsTrue` (`RecordsAreTrue`): `RecordInv` says that an event is the matter of one attempt (`TriedOnce`), that
  a worker about to record has published just that event (`Recording`), that without faults one that failed
  has not (`Refused`), and that a dry run has no other records (`DryRuns`).
- `CooldownExcuses` (`OnlyRacesAndTornPostsBreakCooldown`): `ClearedOf`, whatever a worker knew to be recorded at its second
  check, and whatever it has on record itself, was older than the cooldown then and is so when it sends.  The
  property is inductive with it because a post that does not count never counts again
  (`StandingNeverReturns`): nobody writes a record for another attempt's event, and no event is tried twice.
- `GateImplemented` (`ImplementsGate`): only `Send` and `SendReplyLost` show in the gate's log, as `Announce`; an attempt
  that ends without its record is the gate's `Tear` of the author's last announcement; a SUCCESS record changes
  nothing, since a post about to be recorded counts already (`RecordingIsQuiet`).

**PeeBotTask_proofs.**
- `InOrderLists`: the query's result lists each reading of the window once, in order; by rank, since
  `InOrder` is defined with cardinalities.
- `TypeCorrect`; the set of workers is assumed finite, for the number of messages has a bound.
- `DetectionKept` (`DetectionNotLost`): a run past `create` has its event in the table, and events are never removed.
- `SeamsClosed` (`NoSplitWindow`): `SeamInv` says that a reading older than the lag is stored (`InTime`), that every
  cursor a run holds, the row's included, covers what lies before it (`Covered`), and that a batch
  about to be saved covers what the cursor it started from does not (`Complete`).  The last is where the
  overlap is needed, and why only what it has beyond the lag counts: the query reaches back `Overlap` from the
  cursor, and the cursor may have passed a reading that was stored up to `MaxLag` late.  A stale
  cursor written back by a second worker is harmless because every cursor ever held is covered, and
  `analysed` only grows.
- `RewindsBounded` (`OnlyOvertakenRunsRewind`), for any number of workers: the latest reading of a batch is not before the
  cursor its run loaded (`Onward`), because the reading the cursor names is still in the store (`FromStore`) and
  the query includes it, or the query starts after it.  So a save puts the cursor back only if another run's
  save has meanwhile moved the row beyond what this one loaded.
- `SystemRunsTask`: `PeeBotSystem` implements `PeeBotTask`, so `SystemKeepsTask` carries these over.
  `SystemTypeCorrect` (`SystemTypeOK`); `RepeatsAreTorn` (`OwnRepeatsAreTorn`): a run about to announce has a
  fill not older than window, overlap and its own age (`Recent`), and nothing was announced before it happened (`Timely`);
  if these fit into the cooldown, the gate refuses the fill its author has announced and recorded.
  `SystemKeepsCooldown` needs no such hypothesis and no run states it: after an announcement that is on record its author
  announces nothing within the cooldown.

**TelemetryStore_proofs.**  The calendar is any sequence of increasing year starts.  It is assumed to reach back
to every measurement, and its second year to before any clock (`CalendarCovers`): `datetime`'s years begin with 1.
- `RolloverExact`: a measurement of the clock's year or the year before is given its own time exactly
  when it is `Datable`; `RebroadcastKeepsKey`: a measurement dated before and after New Year gets one timestamp,
  which is what the unique constraint relies on to recognise a repeated snapshot.  `YearUnique` and `YearExists`
  make `Year`'s `CHOOSE` the year the time lies in.
- `TypeCorrect`; `TimestampsTrue` (`TimestampsAreTrue`) from `UpdatesTrue`, an update in the queue has the hours of its
  measurement, and `MisdatedWasNotDatable`.
- `OneRowHolds` (`OneRowPerKey`): one row per time by the constraint; one row per measurement because rows of one
  measurement that was never misdated have one time.
- `CatchesUp` (`StoreCatchesUp`): `StoreInv`.  An update without a value comes after one with the same value
  (`ValueKnown`), so the measurement that *brought* the current value, `valued`, is the one that matters; as long as
  nothing was lost since the snapshot its row is in the table or its update in the queue (`Held`).  When it is
  written and its time is taken by a row of the feed, that row is about the same measurement, for measurements are
  ordered by time (`Ordered`) and none was misdated.

**SeqHandler_proofs.**  `TypeCorrect`; `PostedInOrder` (`PostedOnceInOrder`): an event is in one place, the queue, one of the
two hands or posted (`OnePlace`), and until `close()` joins in these are in order (`OldestFirst`).
`CloseLosesNothing` (`NothingLostAtClose`): what was accepted is in one of these places (`Kept`), no longer in the queue once
`close()` has drained it (`Drained`), and not in the worker's hand when the join ends, unless it timed out
(`JoinEnds`).

**Only model-checked.**  Liveness under fairness, which is out of the prover's reach together with `ENABLED`: `Terminates`,
`ShutdownCompletes`, `UpdatesSettle`, `AttemptsEnd`, `EventsShipped`, `CloseEnds`, `IngestionComesUp`.  The four
counterexamples of section 4 are TLC's.

## 6. Not modelled

Contents of messages, posts, prompts and log lines; the length limits of a post; durations in the
ingestion process; the validator's field types; TimescaleDB's retention and compression; the XML of the
channel list.  `soft_delete()` and `restore()` of channels have no caller outside the tests.  Views, serializers,
dashboards and the health probes only read (`readyz` runs `SELECT 1` and pings Redis): they keep no state a
property could be about.  The Sentry filter is a predicate on one event.  More than one fed channel: the deployed
processor reads one.  The wrong metadata key of the joke prompt (joke_generator.py:187 reads `delta`,
pee_bot.py:208 writes `net_delta`) is a defect of wording without state.

## 7. Plan

Done: all components with state of their own are modelled, and section 5 states every safety property of the
runs as a theorem.  What could still be added:

1. How far the confidence score, and with it the detector's answer, depends on the order of readings with equal
   timestamps.
2. A second fed channel in `TelemetryStore`, once the deployed processors read one.
