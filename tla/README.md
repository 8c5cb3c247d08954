# mailflow in TLA+

A verification project for mailflow, the library that turns a mailbox into a stream of
typed events: TLA+ modules translated from the code under `src/src/mailflow` (and, for the
consumer it ships with, `src/scripts/inbox_app.py`), TLC configurations that check them on
small instances, and theorems checked by TLAPS. Paths below are relative to
`src/mailflow/` of the repository.

The promise of the program is short (repository `README.md` 203-206): at-least-once
delivery, effectively once through a dedupe claim, with a cursor that never passes mail
nobody has dealt with. It is kept by four stores and an orchestrator that call each other
in a fixed order, by adapters that run the orchestrator from callback threads, timers and
restarts, and by a consumer behind a queue or a topic. What can go wrong is in the orders
no test walks through, and that is what is modelled.

Contents: 1 inventory, 2 modules, 3 runs, 4 proofs, 5 where code and documents disagree,
6 what is left out, 7 plan.

## 1. Inventory

| part | state it keeps | operations | talks to | module |
|---|---|---|---|---|
| orchestrator `core/pipeline.py` | per run: position, `blocked`, attempt count, report | `run_once`, `_run_stream`, `_process`, `_do_work`, auth/transient/permanent handlers | everything below, by calls | `Pipeline` |
| dedupe store `stores/{memory,sqlite,postgres}.py` | a row per message: claimed, done, attempts, stamp of the claim | `try_claim`, `record_attempt`, `mark_done`, `release`, `purge_expired` | orchestrator, facade | `DedupeStore` |
| cursor store (same files) | one order per (tenant, stream) | `get`, `commit_if_ahead` | orchestrator, Gmail bootstrap, providers | `CursorStore` |
| dead-letter store (same files) and `core/redrive.py` | a record per message | `put`, `list_pending`, `delete`; `redrive` | orchestrator, `cli.py` | `Redrive` |
| report `core/observability.py` | counters of a run | `record`, `add_dead_letter`, `all_terminal` | transports acknowledge on it | `Pipeline` |
| Gmail ingestion `adapters/gmail/` | `_pending` watermarks, watch handles, threads | `process_messages`, `sweep_once`, `bootstrap_watches`, `fetch`, `_reseed` | orchestrator, cursor store, Gmail, Pub/Sub | `GmailIngest` |
| Graph ingestion `adapters/graph/`, `adapters/servicebus/` | `_pending` notes, sweep requests, the synthetic order, checkpoint or message locks | `process_batch`, `process_messages`, `fetch`, `sweep` | orchestrator, Event Hubs, Service Bus | `GraphIngest` |
| Graph subscriptions | `_stream_by_handle`, `_handles` | `reconcile`, `renew_all`, `renew_watch`, `ensure_watch`, lifecycle signals | Graph | `GraphSubscriptions` |
| HTTP clients and tokens, `gmail/{client,live,rotation}.py`, `graph/{client,delegated_auth}.py` | semaphore, credentials, token file | `_request`, `get_token`, `force_refresh`, `on_refresh` | HTTP | `ApiClients` |
| facade `facade.py`, `emit/` | queue, live threads | `connect`, `fetch_new`, `stream`, `run` | orchestrator, application | `Facade` |
| archive `persistence/sqlite_store.py`, `scripts/inbox_app.py` | a table, a page | `save`, `thread`, `mark_read`, poll | topic, reader | `MailArchive`, `Delivery` |
| extraction `extract/`, blob store `stores/local_blob.py` | files | `extract_bytes`, `put_stream` | orchestrator | `Extraction` |
| filters, identity, envelope, classification | none | pure functions of a message | orchestrator | `Screening` |
| configuration, wiring, CLI, logging | none over time | | | (6) |

Hard behaviours, by part:

* **Orchestrator.** Six to nine calls to shared stores per message, any of which can
  raise; a crash between any two; overlapping runs (push and sweep, or two schedulers);
  leases that end while work goes on; a cursor that must wait for a message in the middle
  of a batch. Correct means: done implies an outcome, the cursor covers only what is
  finished, retries are bounded over all runs, one outcome per message unless a fault
  accounts for a second, and everything gets an outcome in the end.
* **Dedupe store.** A claim has no owner: anyone's `release` or `mark_done` works. Correct
  means at most one worker per message within a lease, and attempts that survive release.
* **Cursor store.** `commit_if_ahead` is read-compare-write in two of three stores.
  Correct means a monotonic compare-and-set whoever calls it.
* **Redrive.** Works on a listing that gets old, deletes what it believes delivered.
  Correct would mean that no record is deleted undelivered;
  the code allows one way.
* **Gmail.** A notification carries only a watermark; all messages of a diff carry the
  same cursor; `_pending` is shared by all threads and popped without looking; restarts
  must not move the cursor. Correct means the cursor passes no mail that was not listed,
  at rest no mail that is not settled, and every mail is listed in the end.
* **Graph.** Notes wait in memory while the event that brought them waits for the run's
  report; a checkpoint is a position and not a set; a sweep's mails all carry its new
  deltaLink, guarded by an order that restarts with the process. Correct means that what
  was acknowledged is settled, that no deltaLink stands past unsettled mail, and that all
  Graph told of is settled in the end.
* **Subscriptions.** Three places know of one, and two threads change them, each over
  calls that can fail halfway. Correct means that beliefs stay true, folders are not
  watched twice for nothing, and none stays unwatched.
* **Clients and tokens.** One attempt counter for every reason to retry, a semaphore that
  must be given back on every path, a refresh token that the authority may revoke while
  its successor is in memory only or half written. Correct means bounded calls, no leaked
  slot, and a usable token at the next start.
* **Facade and archive.** Every `stream()` starts one more live thread over the same
  queue; the in-memory claim is a look and a write; done is durable while the queue is not;
  the consumer acknowledges in a `finally`. Correct means that done mail reaches the reader,
  once but for faults.
* **Extraction.** Four headers decide whether a part is body, inline or attachment; checks
  must fail closed; an attached mail looks like a multipart; a blob is written in place under
  the hash of its content. Correct means whole files, nothing forbidden stored or delivered,
  and nothing marked gone missing.

`PROJECT.json` lists every hazard with its line and the properties that would catch it.
Some have none: there the code does what the hazard says, the properties exempt exactly
that, and the note and section 5 say so.

## 2. Modules

| module | models | used by |
|---|---|---|
| `DedupeStore` | operations on one row | `Pipeline`, `GmailIngest`, `GraphIngest` (EXTENDS) |
| `DeliveryContract` | what the pipeline promises, no mechanism | `Pipeline` (INSTANCE, refinement) |
| `Pipeline` | the orchestrator over the three stores | `MCPipeline`, `PipelineProofs` |
| `CursorStore` | the inside of `commit_if_ahead` | `MCCursorStore`, `StoreProofs` |
| `Redrive` | `redrive()` against a live dead-letter store | `MCRedrive`, `StoreProofs` |
| `GmailIngest` | the Gmail push path, sweep and restarts, for one mailbox | `MCGmailIngest`, `GmailIngestProofs` |
| `GraphIngest` | Graph notifications and sweeps over Event Hubs or Service Bus | `MCGraphIngest`, `GraphIngestProofs` |
| `GraphSubscriptions` | manager, reconciler and lifecycle handler | `MCGraphSubscriptions`, `GraphSubscriptionsProofs` |
| `ApiClients` | both REST clients, their token providers, the rotation file | `MCApiClients`, `ApiClientsProofs` |
| `Facade` | `connect()` and the handle over live threads and a queue | `Delivery` (EXTENDS) |
| `MailArchive` | the consuming application: table, callbacks, page | `Delivery` (INSTANCE) |
| `Delivery` | the two composed over one topic | `MCDelivery`, `DeliveryProofs` |
| `Screening` | what is decided from a mail's data alone, as pure definitions | `Extraction` (EXTENDS) |
| `Extraction` | workers, the walk over the parts, the blob store | `MCExtraction`, `ExtractionProofs` |

**DedupeStore.** A row is `[claimed, done, attempts, fresh]`. Time is one bit: `fresh` is
TRUE from the stamp of the last claim until `lease_seconds` have passed. A row that is
absent and one that was never touched behave alike in every operation, so `NoRow` stands
for both. The three implementations differ only in `Claimable`: the in-memory store has
no lease (`HasLease = FALSE`). `mark_done` leaves `claimed` as it is, `release` keeps
`attempts` and does nothing to a done row, as in the code.

**Pipeline.** A worker is a caller of `run_once`. Its program counter names the call it is
about to make: `fetch`, `claim`, `attempt`, `work`, `emit`, `markEmitted`, `markDropped`,
`refresh`, `release`, `dlqEmit`, `dlqPut`, `dlqMark`, `commit`, `report`. Each is one
action, so other workers, a crash, an exception or the end of a lease can fall between any
two. `pos`, `blocked`, `tries`, `retried` and `rep` are the run's locals and die with it
(`EndOfRun`). What is done to the message's body is a choice among the results: emit, drop,
or raise one of the three error classes (`WorkRaises`; any other exception is handled as
transient by the code). `HandlerOf` is the `except` ladder of `_process` with the one-shot
retry of `_handle_auth_error`. A drop leaves no trace but the row and the report, so
`dropped` is set where `mark_done` is called. The environment adds four kinds of fault,
counted in `faults`: a crash, a call outside the `try` that raises out of `run_once`, an
emitter that raises after it has delivered, `mark_done` raising inside the `try`.
`skipped`, `attempted`, `leaseLive`, `faults` and `purges` are history: no step reads them
to decide what to do, except for the bounds and for `leaseLive`'s own upkeep.

Every store call is one atomic step. For `commit_if_ahead` that is the subject of
`CursorStore`; for the dedupe store it is one SQL statement or one locked section, but in
the in-memory one, which looks and writes without a lock. There the step is atomic only while
one thread runs the pipeline. So where several threads or workers do, the model is about the
durable stores (`HasLease = TRUE` in `PipelineWorkers` and `GmailRaces`); `Facade` has both, and
takes the in-memory claim in two steps.

**DeliveryContract.** Each message goes from `pending` to one final outcome, in any
order; the bookmark moves forward only over messages that have theirs; both happen in the
end. `Pipeline!ImplementsContract` maps `outcome` to the effects visible outside and
`bookmark` to the cursor.

**CursorStore.** `commit_if_ahead` at the granularity of its statements: postgres is one
conditional upsert; sqlite is lock, SELECT, compare, upsert; memory the same with no lock.
The lock belongs to the store object, so it orders the threads of one process only
(`ProcessOf`). `backend` is chosen in `Init` and never changes.

**Redrive.** Each record runs through a pipeline of its own over a fresh in-memory dedupe
store and a throwaway cursor, so the claim always succeeds and the attempt is always the
first; `Emit`, `FilterDrop`, `DeadLetterAgain`, `Glitch` are the four ways that run can
end, and `Settle` is the decision to delete. `released` is history: the records whose run
ended with a release. `DeadLetter` is the live pipeline adding records meanwhile. Records are listed in insertion order, as sqlite and memory do;
postgres orders by `record_id`, which changes which records a limit hides, and nothing
else that is stated here.

**GmailIngest.** Mail `m` is the change that takes the mailbox's historyId from `m` to
`m+1`. Callback threads (`Receive`, `Ack`) and the sweep thread (`Sweep`) run the same
`run_once`: `Streams` reads `_pending` and the cursor, `ListHistory` diffs, each message
is claimed, settled or released, `Commit` moves the cursor to the end of the whole diff,
`Pop` drops the watermark. `Boot` is `bootstrap_watches` with `start_watch` on or off.
The life of one message inside the pipeline is condensed to settled or released, as
`Pipeline` tells it in full.

**GraphIngest.** One consumer thread; the transport is chosen in `Init`. `Receive` is the
head of `process_batch` and `process_messages`: notes are submitted and `run_once` follows
(`todo` is what `sync_streams` returned), a `missed` signal queues a sweep and runs it, all
else is only acknowledged. `OpenStream` to `SweptMessage` are the generator `fetch()`, one
step for each pull the pipeline makes; `Claim` to `Commit` are the pipeline on the mail in
hand. `HeldBack` is the look at `all_terminal`. On Event Hubs `acked` is a prefix (the
checkpoint) and `read` goes back to it when the handler raises; on Service Bus it is a set,
and an error ends the process. A cursor is a pair of the synthetic order and a deltaLink, a
deltaLink the number of mails that had arrived when it was handed out, and 0 the value of a
notification's cursor, from which a sweep starts over. A process may be started again at any
time, within the lease of a claim the last one left behind too: durable stores keep that
claim, and the in-memory ones (`HasLease = FALSE`) go with the process (`ForgetStores`).
`released`, `skipped` and `cut` are history and make three exemptions exact: mail a run
released that its transport will not repeat, mail refused because the claim of a dead run was
still held, and mail of a sweep that an error or a crash cut short. `HasLifecycle` wires a
lifecycle handler, which both runtimes accept; what `src/` itself wires is told in 5.

**GraphSubscriptions.** A timer thread runs `reconcile` (`StartReconcile`, then `Track` or
`Place` per folder) and `renew_all` (`StartRenewAll`, then `Patch` per handle); the consumer
answers lifecycle signals (`Handle`). Both go through the manager: `Patch`, `Missing` (404)
and `Create`, one call each. `known` is `_stream_by_handle`, `handles` is `_handles` and is
replaced when a pass is through; `fresh` is what the pass has gathered. A failed call
(`CallFails`), a created subscription whose answer is lost (`CreateUnheard`) and a 404 for
an unknown handle (`Unknown`) end the pass (`Raise`).

**ApiClients.** A thread's request is a record of where it is in `_request_inner`: take a
slot, ask for a token, call. A token is the number under which it was minted. `Cached` and
the actions from `NeedToken` to `Write` are `get_token` and `force_refresh`, without a lock
as in the code: POST, the credentials, the comparison with the refresh token read before,
and the file, truncated (`Persist`) before it is written (`Write`). `Denied` is a 401,
`Busy` what is retried, `Fails` what the Graph client does not retry. `setup` chooses the
provider, which threads belong to the fetcher of `get_email()`, whether the authority
revokes the old refresh token, and the size of the semaphore. `harm` is history.

**Facade.** `config` is how `connect()` was called: provider, output (queue, callback,
topic), `on_filtered`, durable state or memory, stages, the live threads the application
comes to start, and which mails fail for good. `WiredDrop` and `WiredDeadLetters` are what of it reaches the pipeline. Application threads
take mail with `fetch_new` or `stream` (`StartPass`, `EndPass`, `Stream`, `Yield`, `Take`,
`Leave`); `Run` blocks in the live loop. A runner claims, puts out and marks. `Claim` is the
one statement of a durable store; `Look` and `Set` are the two steps of the in-memory one, of
which another thread may come between. A durable claim has a lease (`LeaseElapses`), which may
run out under its holder, at the price of a fault; a restart within it is refused the mail
(`Refuse`) and passes it. What is fetched again after a pass broke off depends on the provider
(`ListsAgain`): the memory provider and Service Bus offer again what is not done, Gmail's
diff and a hub's checkpoint may be beyond it, and any part of it may be left behind
(`Unlisted`). `passed` is what no later pass lists; `shared`, history, is the mail two threads
were at work on. A crash forgets the queue, and with in-memory stores every claim.

**MailArchive** and **Delivery.** Pub/Sub callback threads save and acknowledge; the page
opens a conversation in three steps (GET, render, POST read) and polls. `topic`, the copies
published and not acknowledged, is the only variable the two processes share: `Facade`
increments it, the archive's `Ack` decrements it, and `Delivery` interleaves their steps.

**Screening** and **Extraction.** Key, envelope, every filter and the chain, and the
classification of a MIME part are pure definitions over small sets of addresses, domains and
contents; `Drops` says for each of the twelve kinds of filter what it drops. A part may be a
container: a multipart, or an attached mail, of which `is_multipart()` is true as well; the
parts in it follow it, as in the code's walk. `Extraction` runs them: `Take` claims and screens
a mail, one `Walk` step handles one part (`Skip` a container, `BodyPart`, `Strip`, `Block`,
`Keep`; `GraphPart` for the Graph extractor, which has attachments only where Graph's
`hasAttachments` is true), `Open` and `Write` are the two halves of `put_stream`. `setup` is everything configured and
everything in the mailbox.

## 3. Runs

`MC*` modules give the constants their values. Twelve runs with two TLC workers each.

| run | instance | properties | states |
|---|---|---|---|
| `PipelineWorkers` | 2 workers (symmetric), 2 messages, max_attempts 2, leases, 1 fault of any kind anywhere | `DoneImpliesDisposed`, `CursorCoversFinished`, `ClaimExclusive`, `RetriesBounded`, `OutcomesPaidFor`, `AllTerminalSound` | 670 000 |
| `PipelineRestart` | 1 worker, a normal and an oversized message, filters that drop, 2 faults, 1 purge, restart after the lease | `TypeOK`, `LowWaterMark`, `EventuallyDisposed`, `CursorCatchesUp` | 40 000 |
| `PipelineLive` | 1 worker, 3 messages, max_attempts 3, in-memory store, no DLQ store, no faults | `ImplementsContract` | 12 000 |
| `CursorStores` | 3 threads of one process, orders 1..3, postgres or sqlite | `AnsweredSoundly`, `NeverBackwards` | 118 000 |
| `RedriveOperators` | 2 operators, 3 records (the first hopeless), limit 2, max_attempts 3, 1 failure, 1 abort | `LostOnlyByRelease`, `DeliveriesPaidFor`, `HealthyResubmitted` | 513 000 |
| `GmailRaces` | a callback thread and the sweep, 2 mails, the first may be poison, 2 faults among crash, lost notification, API failure, stale historyId; `start_watch` either way at each start | `NothingPassedUnseen`, `SettledAtRest`, `EventuallySeen` | 1.2 million |
| `GraphTransports` | hub or bus, 2 folders, 3 mails, the last may have moved, 1 lost notification, a restart at any time, 2 faults among crash, Graph error, release | `AckedIsSettled`, `DeltaLinkCovers`, `ToldIsSettled` | 1.7 million |
| `GraphSubscriptions` | 2 folders, up to 9 subscriptions, 2 removals, 2 signals, 1 failed call or crash | `BeliefsTrue`, `SparesPaidFor`, `EventuallyWatched` | 740 000 |
| `Deliveries` | 9 calls of `connect()`, 2 application threads, 2 live threads, 2 mails, 1 fault; for the topic 1 live thread, 1 callback thread, 1 conversation, 1 fault downstream | `DoneReachesReader`, `HandedOutOnce`, `ReadWasShown`, `RedeliveryHarmless`, `EventuallyReached` | 233 000 |
| `ApiClients` | 2 threads, 5 setups, max_retries 1, 2 faults | `NextStartSurvives`, `RequestsBounded`, `FreshTokenRefused`, `KeepsAnswering` | 1.1 million |
| `Extraction` | 2 workers, 2 mails with a shared content, every part with at most one flaw under 5 rule sets, every chain of 2 of 13 filters for 24 kinds of header, tagging or dropping, 1 failed write or crash | `RefsWhole`, `FailsClosed`, `NothingVanishes`, `BlockedStaysOut` | 2.9 million |
| `FindRedriveLoss` | 1 operator, 2 records, max_attempts 3 | `NothingLost`, violated (5) | |

**What they show.**

* `PipelineWorkers`: two overlapping runs and any single fault do not set `done` early, do
  not attempt or deliver more often than faults account for, and do not put two workers on
  a message within a lease; and the cursor passes an unfinished message only over a
  `duplicate` verdict on a row somebody else holds.
* `PipelineRestart`: with one worker at a time that never restarts before an interrupted
  run's lease is over, even that does not happen: nothing is lost and the stream never gets
  stuck, with two faults at any calls.
* `PipelineLive`: without faults the pipeline refines the contract, liveness included.
* `CursorStores`: the compare-and-set the pipeline relies on is one.
* `RedriveOperators`: at the default of three attempts a record is lost in exactly one way, a
  resubmission that a transient failure released; all else is delivered, dropped or kept, and
  every second delivery is paid for.
* `GmailRaces`: restarts, races and lost notifications never move the cursor over mail
  that was not listed, and unless an API call failed or the process died none that is not
  settled; and the sweep is the safety net it claims to be.
* `GraphTransports`: holding the event back on `all_terminal` works through crashes, Graph
  errors, redelivery and releases, with two exceptions. On either transport, mail a process
  died on is taken for a duplicate when its event comes back within the lease, and the event
  is acknowledged. On Event Hubs, mail is left behind that was released while a later event of
  the partition was checkpointed. Sweeps lose mail for the same reasons and when they are cut
  short.
* `GraphSubscriptions`: whatever is recreated behind whose back, the manager never takes a
  foreign subscription for ours nor a handle for the wrong folder; each spare subscription
  goes back to one signal or one failed call; if reconcile is called again and again, every
  folder is watched again and again.
* `Deliveries`: a mail marked done has reached the application or one of the holes named in
  the property: a drained batch that was left, a durable mark beside a dead queue, a
  dead letter with no record, a save that raised before its acknowledgement. It is handed out
  once but for faults, unless two threads were at work on it, for which two live threads on the
  in-memory store are enough. What its provider lists again is dealt with in the end, down to
  the reader's table, where a second copy of an event changes nothing.
* `ApiClients`: budgets and slots hold under every mix of throttling and refusal; a
  refresh alone never loses the rotated token, and the three things that do are the ones
  `NextStartSurvives` names; a client that stops answering is locked out for one of them.
* `Extraction`: a forbidden leaf part, inline ones too, is never stored for a mail and never
  delivered; a blob in an event is whole but for contents whose write was once cut off; every
  leaf part with a name, a Content-ID or a disposition `attachment` is in the event, where its
  mail's attachments are fetched at all; what any kind of filter drops is not delivered as
  clean, unless a whitelist before it keeps it.

**Bounds, and why they are enough.**
* Two workers, operators, threads or ingesting threads: every claim, row, watermark, blob
  and credential is about one message, mailbox, file or account, and each race in the code
  is between a thread that has read and one that writes. Three callers in `CursorStores`
  give a third one to be overtaken.
* Two messages are the smallest stream with a prefix and a rest, so that one can be held
  back while the other goes on; three in `PipelineLive` add a middle, in
  `RedriveOperators` make the limit hide a record, and in `GraphTransports` give one folder
  two mails around one of the other.
* `RedriveOperators` has the default of `max_attempts`; elsewhere `max_attempts` 2 has a retry
  that succeeds, one that does not, and a refresh in each.
  `max_retries` 1 has a last try; the forced refresh falls before or after it.
* One fault with two workers, two with one worker or one process: the second fault falls
  into the recovery from the first. `Deliveries` has one on each side
  of the topic, and where mail is handed out one more live thread than faults, so that one is
  left.
  `MaxPurges` 1: a done row vanishes once.
* `MaxSubs` 9 is never reached with two removals, two signals and one failure: the guard
  `next \in Ids` is there to keep the state space finite.
* `MaxMessageBytes` 8 with sizes 5 and 9: within and over the limit. The guard sends an
  unknown size (0) down the oversized message's path.
* Each of the 13 filters is configured so that it matches some header and misses another, but
  for an `only_domain` with nothing configured, which must drop nothing.
  Chains of two have one before and one after; a longer chain is decided by its
  first decisive filter, so a pair of them tells the order apart. Every field that a
  classification of parts reads takes all its values.

**Fairness.** `Pipeline!Fairness`: a worker goes on stepping (a scheduler calls `run_once`
again, a call runs until it returns or raises) and leases elapse because time passes. No
fairness on faults, on which way the work goes, or on purges. `Redrive!Fairness`: an
operator keeps calling `redrive`. `GmailIngest`: the process is restarted by its supervisor,
its threads run, the interval scheduler fires, leases elapse. `GraphIngest`: the process is
restarted (on either transport) and the one consumer thread takes its steps; nothing is
assumed of leases. In both, mail need not arrive, and neither need a notification nor a
`missed`. `GraphSubscriptions`: calls that are under way go on, and signals need not be
answered in order. Nothing in `src/` calls `reconcile()`, so no fairness of it is assumed:
that it is called again and again is the premise of `EventuallyWatched`. `Delivery`: threads
that run go on, an application goes on consuming and keeps a live thread, the lease of a claim
that nobody is at work on runs out; what happens on the page is up to the reader. `ApiClients`: threads begin and carry on requests, tokens
come to their expiry, the process is restarted.

**Deadlock** is checked in every run but these, where the system may stop:
`GraphTransports` (all mail has arrived and all events are acknowledged), `Deliveries` (all
mail is read and every live thread is dead or idle), `ApiClients` (a torn token file stops
every start, and that is told in 5), `Extraction` (all mails are done).

**Stated with a condition.** `ClaimExclusive` holds while no worker is slower than its
lease (`LeaseOutlastsWork`; 5). `LowWaterMark` holds for one worker at a time.
`SettledAtRest` holds until an API call fails or the process dies. `HealthyResubmitted`
holds for records that are not behind `limit` hopeless ones. In `GmailIngest` three sets of
mail are never due, and kept as history so that the exemption is exact: `before` (older
than the seed of the first cursor), `fallback` (older than the watermark a diff without a
cursor starts at), `skipped` (in the gap of a stale historyId). In `GraphIngest`, `gone` is
mail that Graph answers 404 for, which the code passes over; `released`, `skipped` and `cut`
are above. `LostOnlyByRelease` exempts the `released` records, `NextStartSurvives` `harm`,
`DoneReachesReader` its four holes, `HandedOutOnce` the `shared` mail, `EventuallyReached` the
mail in `passed`, `RefsWhole` the contents in `cut`: each a set of exactly what the named line
lost. `NothingVanishes` is about leaf parts, of Graph mail only where `hasAttachments` is true.
A hazard whose own case is exempt is listed without the property.

**Mutants.** Each property of each passing run has a one-edit mutation of a mapped
definition that violates it. They stand next to the definitions they mutate
(`ReleaseUnblocked`, `SettleAlwaysDeleting`, `NotesDoneForAll`, `KeyUnseparated`, ...).

## 4. Proofs

Each theorem holds for all values of the constants: any number of workers, threads, mails,
folders, retries and faults. The hypotheses in the third column are not assumptions of the
modules but part of the theorem, because the code does not ensure them.

| theorem | states | when |
|---|---|---|
| `PipelineProofs!TypeCorrect` | `TypeOK` | |
| `PipelineProofs!DoneIsDisposed` | `DoneImpliesDisposed` | |
| `PipelineProofs!CursorIsCovered` | `CursorCoversFinished` | |
| `PipelineProofs!AllTerminalIsSound` | `AllTerminalSound` | |
| `PipelineProofs!ClaimIsExclusive` | `ClaimExclusive` | no lease is outlived |
| `PipelineProofs!RetriesAreBounded` | `RetriesBounded` | no lease is outlived, nothing is purged, `MaxAttempts > 0` |
| `PipelineProofs!OutcomesArePaidFor` | `OutcomesPaidFor` | no lease is outlived, nothing is purged |
| `PipelineProofs!LowWaterMarkHolds` | `LowWaterMark` | one worker, and a restart after the lease or no fault |
| `PipelineProofs!ImplementsContractSafely` | `Contract!Init /\ [][Contract!Next]_Contract!vars` | one worker, no lease is outlived, no purge, no fault |
| `StoreProofs!SerialisedInvariant`, `SerialisedNeverBackwards`, `SerialisedAnswers` | `CursorInv`, `NeverBackwards`, `AnsweredSoundly` | the store is serialised |
| `StoreProofs!SerialisedIsAtomic` | `[][EffectAtReturn]_cursorVars`: the call is one compare-and-set | the store is serialised |
| `StoreProofs!LossesAreReleases` | `LostOnlyByRelease` | |
| `StoreProofs!EveryEmissionIsPaidFor` | `DeliveriesPaidFor` | |
| `GmailIngestProofs!TypeCorrect` | `TypeOK /\ BatchInv` | |
| `GmailIngestProofs!NothingIsPassedUnseen` | `NothingPassedUnseen` | |
| `GmailIngestProofs!NothingIsLeftBehind` | `SettledAtRest` | |
| `GraphIngestProofs!GraphInvariant` | `Inv`, and with it `TypeOK` | |
| `GraphIngestProofs!AckedEventsAreSettled` | `AckedIsSettled` | |
| `GraphIngestProofs!StoredLinksCover` | `DeltaLinkCovers` | |
| `GraphIngestProofs!OnlyEarlyRestartsSkip` | `[](skipped = {})` | no restart within a lease (`RestartsWait`) |
| `GraphSubscriptionsProofs!BeliefsAreTrue` | `BeliefsTrue` | |
| `GraphSubscriptionsProofs!SparesArePaidFor` | `SparesPaidFor` | |
| `ApiClientsProofs!BudgetHolds` | `RequestsBounded` | |
| `ApiClientsProofs!TwoTokensRefused` | `FreshTokenRefused` | |
| `ApiClientsProofs!RotationIsPersisted` | `NextStartSurvives` | |
| `DeliveryProofs!AllIsInOrder` | `DeliveryInv`, and with it `DeliveryTypeOK` | |
| `DeliveryProofs!DoneHasReached` | `DoneReachesReader` | |
| `DeliveryProofs!HandedOutPaidFor` | `HandedOutOnce` | |
| `DeliveryProofs!ReadHasBeenShown` | `ReadWasShown` | |
| `DeliveryProofs!RedeliveryIsHarmless` | `RedeliveryHarmless` | |
| `ExtractionProofs!RefsAreWhole` | `RefsWhole` | |
| `ExtractionProofs!ChecksFailClosed` | `FailsClosed` | |
| `ExtractionProofs!WhatIsBlockedIsTagged` | `BlockedStaysOut` | |
| `ExtractionProofs!NothingGoesMissing` | `NothingVanishes` | keys tell mails apart (`Separable`) |

**Assumptions.** The named `ASSUME`s of the modules: types of the constants, and that
operators, threads, callback threads and Graph streams are finitely many, that the folders to
be watched come as a list, and that application threads are not live ones.

**Hypotheses.**

* *No lease is outlived* (`HasLease => LeaseOutlastsWork`): `try_claim` has no heartbeat and
  `release` no owner, so a worker slower than `lease_seconds` loses its exclusiveness (5).
* *Nothing is purged* (`MaxPurges = 0`): `purge_expired` forgets done rows, and what is
  forgotten is claimed, attempted and put out again when it is fetched again.
* `MaxAttempts > 0`: with 0 the first attempt is one too many already.
* *One worker* (`SoleWorker`) and *a restart after the lease* (`RestartAfterLease`): otherwise
  a refused claim counts as terminal, and the cursor passes a message nobody finishes (5).
* *The store is serialised* (`Serialised`): postgres, or sqlite used by one process.
* *No restart within a lease* (`RestartsWait`): only `OnlyEarlyRestartsSkip` has it. Nothing in
  `src/` sees to it; the theorem says that it is the one thing which empties `skipped`, the
  exemption of the other two.
* *Keys tell mails apart* (`Separable`): no two mails of a mailbox have one id, and no id
  has the key's separator in it. The mailbox's name may: the last separator counts.

`MaxFaults = 0` and one worker in `ImplementsContractSafely` say what the contract is about:
one outcome for each message. With faults `OutcomesArePaidFor` says how many more there can be.

**Arguments.** Every inductive invariant was checked by TLC on the instance of its run
before it was proved. There is one step for each action and under it one for each conjunct
the action can disturb; most components have a frame lemma for the actions that leave a
conjunct's variables alone.

*Pipeline.* `DoneImpliesDisposed` is not inductive: `mark_done` is a step after the
outcome, so `InductiveInv` adds `InHand`, what has been put out for the message whose
`mark_done` is next. `CursorCoversFinished` needs `PrefixFinished`: until a run is
blocked, everything up to the message in hand is finished, and a run about to commit is
not blocked. It survives other workers because outcomes and `skipped` only grow, and it
starts true because a run starts at a cursor that is covered already. `AllTerminalSound`
needs `ReportOwes`: the four counters lag `fetched` by one for the message in hand and by
at least one for ever once the run is blocked, so equality means nothing was held back,
and an unblocked run that is between messages has committed everything behind it. Leases
play no part: these theorems hold for workers that outlive them.

`ClaimExclusive` needs `ClaimsInv`: who holds a message has its row claimed, not done and
fresh, and nobody else holds it; then nobody can claim it, and nobody's `release` can be for
it. On top of that `RetriesInv` says that a holder's `tries` is the row's count, and that a
message nobody is at work on is below the limit, by one for each fault. `OutcomesInv` says
that a message has no more outcomes than faults, but for one that is recorded or about to
be. `NoOrphans` is what `LowWaterMark` adds to `InductiveInv`: no claim without a holder
stands ahead of a run, so a refusal always means done, and `skipped` stays empty. For the
refinement, `NoFaultsNext` shows that with one worker and no fault each action resolves a
pending message, moves the bookmark over resolved ones (by `LowWaterMark`), or stutters.

*CursorStore.* What a thread has SELECTed is still the row when it compares, which follows
from mutual exclusion, which the lock gives to one process. So comparing with what was SELECTed
is comparing with the row: `SerialisedIsAtomic` is why `Pipeline`, `GmailIngest` and
`GraphIngest` may take `commit_if_ahead` as one step.

*Redrive.* An operator about to settle has a dead letter in hand, a message that was delivered
or dropped, or one that was released (`Dealt`); so what it deletes is one of the last three.
For `DeliveriesPaidFor`, `PaidInv` keeps accounts: while a record is in the store, its emissions but for those about to delete it were paid for by aborts and
glitches; once it is gone only the operators who still hold it can emit it, each once.

*GmailIngest.* `NothingPassedUnseen` is about the cursor, and runs carry historyIds they
read earlier: `SeenInv` says the same of the start and the end of every run's diff, however
old. For `SettledAtRest`, `CalmInv` says it of settled mail or mail in some run's hands, and
that a claim that is refused is of mail that is settled or worked on, which fails as soon
as a call raises.

*GraphIngest.* `AckedIsSettled` says nothing of the event in work. `KeptInv` does: each of its
notes is dealt with, in hand, or pending for a stream the run has yet to open, unless the event
is going to be held back; `ControlInv` says which of hand, streams and link a run has at each
step. A note leaves the hand when it is done or refused; a refused mail is settled, or it is
in `skipped` from that step on, and by `RowsInv` a row says done of settled mail only. That is
all that holds when a process may start at any time. `OwnClaims` is what waiting would add: the
one claim that bars others is then that of the mail in work, so `skipped` stays empty. `BehindInv` makes it add up on Event Hubs: the checkpoint is a prefix, and everything
read before the event in work is dealt with or released. `LinksInv` says of three links what `DeltaLinkCovers` says of the
stored one: of the stored one, of the one the sweep started from (the other folder's commits do
not touch it, and all it passes was dealt with when the stream was opened), and of the one in
hand, whose mails are in hand until they are settled. What a sweep releases counts as released
because nothing repeats it: on Service Bus only if the run is not one for notes, which would be
held back; by `SweepsInv` such a run never meets a sweep somebody asked for earlier.

Under these are facts on lists: what joining and filtering keep, and that the streams of a run
are those of the notes and sweeps, no more and no less. The library's folds are choices of a
recursive function, so each is proved to exist and to be unique up to position n, by an
induction on n that comes from the well-foundedness of `<` (`LastPosition`, `FoldExists`). The lists are
filtered with a fold (`Among`), as the code's loops do; `SelectSeq` cannot be expanded in a proof.

*GraphSubscriptions.* `Beliefs` carries `BeliefsTrue` through lists, listings and creations
that are under way, some of which are old. `Spared` keeps accounts: subscriptions of a
folder and unanswered signals are together no more than signals sent, failures and one; and
wherever the timer could create one more (a creation under way, a listing without a live
one, a handle that is gone but known) there is room for it.

*ApiClients.* `CallsInv` relates the calls made to the tries used up and the forced refresh.
`RefusedInv` says that a refused token returns neither to the thread nor to the credentials,
for which a token just minted must be nobody's (`UnusedInv`). `FileInv` says, while nothing
named has befallen the file, that at most one refresh is under way, and at each of its steps
which of file, credentials and endpoint already have the new token.

*Facade and MailArchive, as Delivery.* `ThreadsInv`: a mail between claim and mark belongs to
one thread, unless it is in `shared`; a thread that has only looked owns nothing. Of the
mail that is not shared, `BuffersInv` says that it is at one place of one buffer at most
(`Single`), and in none while the pipeline is still to put it out; so what leaves them is handed
out for the last time, and `HandedInv` follows by counting: mail that is still due was handed
out no more often than there were faults. `ReachInv`: `DoneReachesReader` also holds of the mail
whose mark is next, shared or not. `SaversInv`: an event a callback thread holds is on the topic (the holders are
no more than the copies), and it is acknowledged when saved or given up; the table has no two
rows of a mail. `PageInv` follows the conversation being opened through its three steps: its
rows are in the answer, then on the page, or were saved since.

*Extraction.* `JobsInv` says of a worker at part n what `EventsInv` says of an event, for the
parts before n: nothing forbidden kept, no marked part missing that the walk sees at all
(`Seen`: leaf parts, and of Graph mail fetched ones), what is kept stored. `BlobsInv`:
a file that is not whole has a writer or was cut off. For `BlockedStaysOut` the first decisive
filter of a chain exists by well-foundedness, for chains of any length; only a whitelist
keeps (`OnlyWhitelistKeeps`), so if another filter drops and nothing was kept, the chain drops. For
`NothingVanishes`, `KeysInv`: a key that is taken is that of a mail that was taken.

**Only model-checked.**

* The liveness properties (`EventuallyDisposed`, `CursorCatchesUp`,
  `HealthyResubmitted`, `EventuallySeen`, `ToldIsSettled`, `EventuallyWatched`,
  `EventuallyReached`, `KeepsAnswering`) and the fairness in `ImplementsContract`: liveness
  under fairness is out of this prover's reach. Every invariant and every action property of
  the runs is a theorem.

## 5. Where the code and its documents disagree

`FindRedriveLoss` is expected to be violated: with `max_attempts` above 1, a transient
failure during redrive releases the message; `dead_lettered` is 0 and the record is deleted
undelivered (`core/redrive.py` 130), although 5-6 say that only a record that reached a
terminal disposition is deleted. `LostOnlyByRelease` says that this is the only way.

The other disagreements are kept as the conditions and exemptions of properties that pass;
removing one makes TLC show it:

* *Crash within the lease.* A process dies between `try_claim` and `mark_done`, and a restart
  or a redelivery falls within the lease (Service Bus delivers again when its own lock is over,
  a hub as soon as the process is back): the refused claim counts as `duplicate`, a terminal
  disposition (`core/pipeline.py` 184), so the cursor is committed past the message and the event
  is acknowledged. `stores/sqlite.py` 109-111 says that the stale claim is honored "until the
  lease expires, then reprocessed"; by then nothing fetches the mail. (`skipped` in `AckedIsSettled`
  and `ToldIsSettled`, `passed` in `EventuallyReached`; `PipelineRestart` with
  `RestartAfterLease = FALSE` violates `EventuallyDisposed`.)
* *Overlap.* The same without a fault, from two overlapping runs, which
  `adapters/gmail/bootstrap.py` 54-55 calls harmless. (`LowWaterMark` with two workers.)
* *`put()` of the dead-letter store raises* and nobody releases the claim: with the
  in-memory dedupe store the "later run" of `core/pipeline.py` 350-352 refuses the message
  for ever. (`EventuallyDisposed` with `HasLease = FALSE`.)
* *`release` is not fenced* (`stores/sqlite.py` 180-185): a worker slower than its lease
  frees the claim of the one that took over. (`ClaimExclusive` with
  `LeaseOutlastsWork = FALSE`.)
* *The in-memory `try_claim` has no lock* (`stores/memory.py` 63-71): of two live threads,
  which two calls of `stream()` start, both may find no record and both process the mail.
  (`shared` in `HandedOutOnce`, to which a lease that is outlived adds as well.)
* *Two processes on one sqlite file* can move the cursor back (`stores/sqlite.py` 73-87);
  two stores in `ProcessOf` make `NeverBackwards` fail.
* *A Gmail diff is committed by its first message* (`adapters/gmail/provider.py` 69): when
  fetching the next one raises, the rest is never listed again, against 75-77; nor is mail
  of the diff that is released after an earlier one was committed. (The condition of
  `SettledAtRest`; `passed` in `EventuallyReached`.)
* *A Gmail message that does not decode* is skipped without a dead letter or a counter
  (`adapters/gmail/provider.py` 74-78; 26 says "DLQ"). *A stale historyId* skips the gap
  (63-68); `docs/google-setup-step-by-step.md` 87 speaks of a full resync.
* *`start_watch` off and no stored cursor:* every diff starts at the watermark just
  submitted and is empty, so the sweep never lists anything
  (`adapters/gmail/provider.py` 57). (`fallback`.)
* *The checkpoint of a later event* passes the event that `adapters/graph/runtime.py` 89-92
  holds back so that Event Hubs redelivers it. (`released` in `AckedIsSettled`.)
* *The first commit of a sweep* stores the deltaLink of the whole sweep
  (`adapters/graph/provider.py` 113): a sweep that is cut short leaves its rest behind it;
  and the request for a sweep is removed before the query is made (84). (`cut`.)
* *The report of a run for a lifecycle signal* is not looked at
  (`adapters/graph/composition.py` 91-93): what it released is acknowledged. (`released`.)
* *Nothing in `src/` builds the reconciler* or calls it, and neither live entry point
  passes a subscription manager: a running service answers no lifecycle signal and takes
  every note's folder for the inbox (`adapters/graph/provider.py` 47-55). `build_servicebus_graph_runtime` takes no
  lifecycle handler at all.
* *Spare subscriptions.* The consumer recreates a subscription the reconciler does not know
  of, and an answer that is lost leaves one nobody knows of; `_handles` keeps handles whose
  stream the manager has forgotten. (`SparesPaidFor`, `TrackedIsKnown`.)
* *The token file is truncated before it is written* (`adapters/gmail/rotation.py` 28), and
  one that does not parse stops every later start. Two refreshes at once can persist the
  older token. The fetcher of `get_email()` (`facade.py` 390) has no sink. (`harm`.)
* *The delegated Graph provider* keeps a rotated refresh token in memory only. The Graph
  client retries 429 but neither 5xx nor a broken connection, and does not refresh on 401.
* *`stream()` waits for ever* when its live thread has died (`facade.py` 202).
  (`Stranded`.)
* *What `connect()` does not wire:* `on_filtered` for Event Hubs, the dead-letter store for
  both Graph transports, attachment downloads for Graph. (`WiredDrop`, `WiredDeadLetters`.)
* *A queued mail is marked done while it is only in memory* (`emit/callback.py` 44), and a
  drained batch goes with the generator the application leaves. (`lost`, `abandoned`.)
* *The inbox application acknowledges in a `finally`* (`scripts/inbox_app.py` 241): a save
  that raises loses the event. (`unsaved`.)
* *A blob cut short* stays and is taken for stored (`stores/local_blob.py` 22-26 says so of
  a crash; a failing write does the same). (`cut` in `RefsWhole`.)
* *A policy's class is not the event's `is_inline`* (`extract/mime.py` 257-261): a named
  part with a Content-ID and no disposition is an attachment in the event and follows the
  inline rule. Attachments of Graph mail pass no safety check.
* *An attached mail is no attachment* (`extract/mime.py` 224-225): `is_multipart()` is true of
  `message/rfc822`, so it is neither checked nor stored nor in the event, and the walk goes on
  with the parts in it as if they were the mail's own. (Containers in `NothingVanishes`.)
* *Graph media without `hasAttachments`* (`adapters/graph/provider.py` 143-149, `facade.py`
  642-644): Graph leaves the flag false for mail with inline media alone, and they are never
  fetched. (`hasAttachments` in `NothingVanishes`.)

## 6. Not modelled

* *Gmail webhook:* the verification of one signed request, no state.
* *Connection retry, configuration, registry, secrets, logging:* read once at start-up.
* *CLI* but for redrive and purge: interactive I/O over the same calls.
* *Several Gmail mailboxes* at once: claims and cursors are per stream; what mailboxes share
  is the `_pending` dictionary, whose iteration under concurrent change is a listed hazard.
* *Gmail watch renewal:* one call per mailbox, whose result replaces a handle.
* *Event Hubs with several partitions:* each has a checkpoint of its own; they share the
  provider in the way the folders here do. A checkpoint call that fails is not modelled.
* *Conversions:* decoding, header unfolding, dates, HTML to text, quoting, file names, JSON
  documents, size estimates, `canonical_id` and `thread_key`.
* *The interactive consent* of the delegated flow, MSAL's own cache, the Service Bus emitter
  (one send).
* *Traces, counters, observers, health:* write-only, or probes.
* *Isolation inside the SQL servers,* and connection loss in the middle of a statement.

## 7. Plan

The model covers every part of section 1, and every safety property of the runs is a theorem.
What stays with TLC are the liveness properties and the fairness of the refinement. A change in
the code starts at the definition that `map` names for its lines: the run's mutants say which
property ought to notice, and the step lemma of the action is where a proof breaks.
