# Verification of the message deduplication framework

TLA+ models of the deduplication stores, the consumer group, the idempotency
guard, the transactional outbox and the consumer process, checked with TLC on
small instances; every safety property the runs check, and both refinements, are
also theorems, proved with TLAPS for every size. Paths below are relative to the
repository root; `src/...` is the Python package.

## The system

| Part | State it keeps | Operations | Modelled by |
|---|---|---|---|
| Record and configuration, `src/dedup/models.py` | status, attempts, result, error, lease of one message id; ttl, retries, lease length | – | `DedupRecord` |
| Store contract, `src/dedup/store.py` | a status and a result per id | `claim`, `mark_completed`, `mark_failed`, `delete` | `StoreContract` |
| Redis store, `src/dedup/redis_store.py` | one JSON value with a TTL per id | the same, each an atomic Lua script | `RedisStore` |
| In-memory store, `src/dedup/memory_store.py` | a dict under one `asyncio.Lock` | the same and `clear` | `MemoryStore`, `StoreParity` |
| Consumer, `src/consumer/dedup_consumer.py` | the record at hand, its attempt counter; in Kafka the assignment and the committed offsets | `start`, `stop`, `run` and the steps of `_process_record` | `DedupConsumer` |
| Entry point, `src/consumer/__main__.py` | three consumer tasks, the stop event, the exit code | start all, wait, cancel all, stop all | `ConsumerMain`; its effect on messages is `Abort` of `DedupConsumer` |
| Guard and decorator, `src/idempotency/guard.py` | flags of one call | `__aenter__`, `__aexit__`, the wrapper's retry loop | `IdempotencyGuard` |
| Outbox, `src/idempotency/outbox.py`, `scripts/init_db.sql` | rows PENDING, PUBLISHED, FAILED | `write`, `_process_batch`, `start`, `stop` | `Outbox`, `OutboxContract` |
| Outbox in front of the consumer | the topic | publish, deliver | `Pipeline` |
| Metrics, `src/metrics/` | counters read by nothing in the program | `record_*`, `measure_*` | no |
| Handlers, HTTP API, settings, logging, `k8s/`, Grafana, Prometheus | none of their own | – | no |

How they meet: a consumer is a coroutine that awaits Kafka, the store, the
user's `handle()` and the dead-letter producer in turn. Consumers of one group
share the store and divide the partitions; they never talk to each other. The
store does not know who calls it: neither `claim()` nor the updates carry an
owner or a fencing token, so everything rests on the lease and on the status
check inside the scripts. Kafka redelivers from the committed offset when a
partition changes hands. The guard is a second client of the store; the outbox
relay is the producer in front of the consumer.

What is hard about it, and therefore what the properties are about:

* **Interleaving**: copies of one id in two partitions; a consumer that gave its
  claim up with `mark_failed()` and asks for it back after a backoff during
  which anybody may have taken it.
* **Lease and retention**: a handler slower than its lease, updates that arrive
  after somebody else re-claimed, a key whose TTL ends inside a lease.
* **Crashes**: between claim and update, between `handle()` and
  `mark_completed()`, between the last failure and the dead-letter send.
* **Partial failure**: `mark_completed()` raising after the side effects, because
  the connection fails or because the result cannot be encoded.
* **Offsets**: `commit()` without arguments, after a rebalance.
* **Progress**: a message that always fails, or a claim nobody will ever settle.
* **Staleness**: the guard decides on a status read before its claim; attempts
  are counted by the store and by every caller.
* **Transactions**: two open transactions with one `message_id`, relays that
  fetch at the same time, a publish that a rollback cannot take back.
* **Shutdown**: signals and crashes that meet in one turn of the event loop.

The `hazards` of `PROJECT.json` list these with their lines and with the
properties that would catch them going wrong.

Correct means, per component: *stores* – one winner per claim, COMPLETED
terminal, records consistent and always expiring, both backends deciding alike;
*consumer* – one processor per id at a time, side effects repeated only where
they could not be recorded, no offset committed over an unprocessed record, no
message lost, every partition consumed; *guard* – one runner per key, work
repeated only where it could not be recorded, every call ends and no key stays
blocked; *outbox* – published if and only if committed, twice only after a
fault, and deduplicated downstream; *process* – it always exits, and its exit
code tells a crash.

## Modules

`DedupRecord` is the record and the decisions of `claim()`: `Retryable`,
`Orphaned`. The lease is the number of ticks left instead of an instant; the
code only compares the instant with now, so no bound on the clock is needed.
An exhausted lease stays at 0. `error` is None (`NoError`), the empty text or a
text: `str(exc)` may be empty, and the update script then leaves the field alone
where the in-memory store writes it. `SKIPPED` is never written by the code and
left out.

`RedisStore` has one action per script. `Updated` keeps the three "empty
argument leaves the field" rules; an update that is refused is a step that
changes nothing, as in the code, where only a log line differs. `Tick` is Redis'
clock (external): leases and TTLs count down, a key whose TTL ends is gone.
`StoreSpec` lets anybody call anything at any time. The write of a re-claim and
of an update keeps the TTL (`KEEPTTL`). A result passes through `json.dumps`,
Lua's `cjson` and `json.loads`: the constant `Recoded` says what comes back of it
(an empty list is read back as an empty dictionary), and `Refused` which results
make `mark_completed()` raise before anything is written. In the runs of
the consumers and the guard no result is refused; there `mark_completed()` may
raise for any reason (`StoreMayFail`), with the same outcome.

`StoreContract` is the abstract status machine. `RedisStore` instantiates it
with the status and the result of each record.

`MemoryStore` is the in-memory backend. It differs from Redis in what the code
differs in: no TTL, a re-claim builds a new record, `mark_failed()` asks only
that the record exists and always overwrites error and attempts.

`StoreParity` makes the same calls to both backends, in any order. `AsRedis` is
the in-memory record as Redis would hold it, the result converted and an empty
error text not stored. Two calls have different effects: a `mark_failed()` of a
settled record, which only the in-memory store carries out, and a
`mark_completed()` with a refused result (`CompleteRefused`), which raises in Redis
and leaves the record PROCESSING but completes it in memory. `apart` collects the
keys that have seen one of them; `delete()` takes a key out again.

`DedupConsumer` is the group: `RedisStore` plus, for each consumer, the await it
has reached (`pc`), its record, its attempt counter and the lease it was given
(`grant`, a ghost); for each partition its owner, position and committed offset;
and ghosts that count returns and failures of `handle()`. Actions and code:

| Action | Code |
|---|---|
| `Start` | `start()` |
| `Receive` | the `async for` of `run()`, and the branch on the id in `_process_record` |
| `ReceiveUndecodable` | a header that is not UTF-8: `_extract_message_id` raises and `run()` ends |
| `ClaimWon`, `ClaimLost` | `_process_record`; a lost claim leads to `commit` whatever `get_status()` says |
| `HandleReturns`, `HandleRaises` | the `try` of `_execute_and_commit` |
| `RecordFailure` | `mark_failed()` with the local counter |
| `RetryWon`, `RetryLost` | the re-claim after the backoff; lost means `break` into the dead-letter code |
| `Complete`, `CompleteRaises` | `_complete()`, whose `except` commits all the same |
| `SendToDlq` | `_send_to_dlq()`, which drops the message when no topic is set |
| `Commit` | `_commit()`: the position of every partition owned at that moment |
| `Abort` | a kill, the cancellation in `main()`, or any exception that leaves `run()` |
| `Assign` | the group coordinator (external) |
| `Elapse` | the clock |

Consumer steps between two awaits are atomic because asyncio does not preempt;
different consumers are different processes. A call that raises after taking
effect is `Abort` after the step, one that raises before is `Abort` before it.
`Id` stands for `_extract_message_id`: the log says which id each record has,
none, or one that cannot be decoded. The consumer's `max_retries`
(`CallerRetries`) and the store's (`MaxRetries`) are two constants, because two
`DeduplicationConfig` objects are.

`IdempotencyGuard` is a second client of `RedisStore`. `Guards` use the context
manager, `Decorated` are callers of an `@idempotent` function; both read the
status, claim, run the work and settle. What differs is kept: a guard runs its
block once and records a failure with the default `attempts = 1`, also on
cancellation (`CancelBlock`); the wrapper has its own retry loop and lets a
cancellation through (`Cut`). `already_processed` is the end of a call: the
documented use returns there.

`Outbox` numbers the business transactions by the row id their INSERT draws from
the sequence; the INSERTs may be carried out in any order. `Write` waits for a rival's open
transaction, as Postgres does on a unique conflict. A relay's batch is one
transaction: the fetched rows are locked (`Locked`), its UPDATEs are collected in
`marked` and become visible in `CommitBatch`; `BatchRaises` and `CrashRelay` lose
them and the locks, but not what was sent. A send that raises may have reached
the broker. `OutboxContract` is the abstract specification: a message is
announced only after it was recorded. `Outbox` instantiates it with the messages
of the committed transactions and those sent at least once.

`Pipeline` joins the outbox to the consumer group. A relay publishes a row with
its `message_id` as the Kafka key, so all copies of a row fall into one
partition, and the consumer finds an id only if the payload has one
(`PayloadId`). `OnlyPublished` keeps a consumer's position behind what was sent.

`ConsumerMain` is the process: the start loop, `asyncio.wait`, the cancellation
of all tasks, the stop loop and the exit code.

| Action | Code in `main()` |
|---|---|
| `Signal` | the signal handler, installed before the first `start()` |
| `StartReturns`, `LifecycleRaises` | the start loop; an exception of `start()` or `stop()` ends `main()` |
| `Crash` | a `run()` task ends with an exception |
| `Wake` | from `asyncio.wait` to the `gather`: exit code, `cancel()` of every task |
| `Cancelled`, `Gathered` | the tasks end, by `CancelledError` or by an exception of their own, and `gather` returns |
| `StopReturns` | the stop loop and the return |

`MCDedupConsumer`, `MCOutbox` and `MCPipeline` hold the topic and table contents
of the runs, `MCRedisStore`, `MCStoreParity` and `MCIdempotencyGuard` what JSON
makes of their results.

The theorems are in modules of their own, each extending what it is about:
`RedisStoreProofs`, `StoreParityProofs`, `DedupConsumerProofs` (types, offsets
and exclusion), `DedupConsumerLossProofs` (losses and retries, which need no
assumption on time), `IdempotencyGuardProofs`, `OutboxProofs`, `PipelineProofs`
and `ConsumerMainProofs`.

## Runs

| Run | Instance | Shows |
|---|---|---|
| `redis_store` | 2 keys, results `[]`, `{}` and one that cannot be encoded, lease 1, TTL 3, attempts to 3 | record shape, expiry, COMPLETED terminal, the contract implemented, under any caller |
| `store_parity` | the same calls to both, TTL not running out | both backends hold the same records, up to the JSON conversion, unless a late `mark_failed()` or a refused result set them apart; a new attempt in memory starts clean |
| `consumer_leased` | 2 consumers, 2 partitions holding a duplicate, a record without id and one with an undecodable header, 2 retries, lease 2, 1 death, 1 rebalance, failing `mark_completed` | exclusive processing, no recorded effect repeated, offsets, no message lost that no consumer died with, failures per delivery |
| `consumer_progress` | 2 consumers, a duplicate, handlers slower than a lease of 1, TTL 2 running out, failing `mark_completed`, 1 death | every partition committed to its end, every message resolved, unless a consumer died with its id in hand |
| `idempotency_guard` | 2 guards and 1 decorated caller of one key, 2 calls each, 2 retries, lease 2, failing `mark_completed`, 1 call cut short | one runner per key, work repeated only if unrecorded, every call ends, no key blocked beyond its lease |
| `outbox` | 3 transactions, two with the same `message_id`, 2 relays, batches of 2, 2 faults, 1 `stop()` | the contract, no row missing or marked without a send, no double publish without a fault, delivery unless FAILED |
| `pipeline` | 2 rows, one with an id in its payload, 1 relay, 1 fault (a failing send, an aborted batch or a crash), 1 consumer, 1 attempt, 1 death | committed rows only, identified rows handled once, all resolved but a FAILED row and one whose consumer died |
| `consumer_main` | 3 consumers | exit code, clean exit, termination |

Why the bounds are enough: each mechanism needs two actors and one fault. Two
consumers suffice for every race on one key; two copies of an id give the
duplicate; two retries give a first, a middle (backoff, re-claim) and a last
attempt; a lease of 2 has a tick inside it and one at its end, a lease of 1 ends
at once. One key in the consumer runs: keys are independent in the store, and
records of different ids meet only in the order of a partition, for which the
record without id stands in. `MaxAttempts` bounds the counter of the two store
runs only; the consumers bound themselves by `max_retries`. The guard run needs
two calls of one caller for a key that is met again after it was settled, and a
third caller so that two can race for a claim that another has lost. In the
outbox run the second transaction repeats the first one's message and the third
fills a batch; two relays race for rows, and of two faults one can abort a batch
and the other fail a send of the repetition. In the pipeline one fault publishes
one batch twice, which is as often as the topic of the instance allows, or leaves
a row FAILED, and one death leaves a claim nobody settles; a rebalance and a
retry, like the interleavings of several consumers, are the business of the
consumer runs. The three results of the store runs are an empty list, the empty
dictionary it comes back as, and an object that cannot be encoded.
Deadlock is checked in all runs but `consumer_main`, whose process is meant to
end: elsewhere the clock or an idle relay always has a step. Symmetry of the
consumers is used only in
`consumer_leased`, which checks no liveness.

**Fairness**. Consumers: weak fairness of each consumer's own steps (asyncio
resumes a coroutine whose await is ready, and `handle()` ends), of its restart
(the deployment restarts a failed process), and of assigning a partition that has
no owner (the group coordinator). None for the clock, for a death or a
rebalance, and none that favours success over failure of `handle()`: an always
failing handler is among the behaviours. Guard: weak fairness of the steps of
each call and of the clock, which leases need to run out. Outbox: weak fairness
of the relay's loop and of starting a relay that ended; a business transaction
may stay open for ever. Process: weak fairness of what the event loop has ready,
none of signals or crashes. The pipeline has the fairness of its two parts.

### Where the documents and the code differ

Each is a run that TLC ends with a counterexample.

* `finding_lost_after_crash` – a consumer dies in `handle()`; the other is
  redelivered the record, loses the claim to the dead consumer's lease and
  commits the offset. The README promises redelivery and recovery once the lease
  expires. `LossOnlyIfAbandoned` bounds the hole: a message is lost only if a
  consumer ended while it was responsible for its id. That is any death or
  exception between the claim and the commit, a dead-letter send that raises after
  the last `mark_failed()` included: its record is FAILED for good, and the
  redelivered copy is skipped as a duplicate.
* `finding_early_dead_letter` – while a consumer sleeps before its second attempt
  the consumer of a duplicate claims the message; the first then dead-letters it
  after one failure.
* `finding_guard_exhausted` – `claim()` also refuses a key whose record is FAILED
  without attempts left; the guard then reports `already_processed`, although the
  work was never done and nobody is doing it.
* `finding_outbox_failed_row` – one send that raises marks the row FAILED, which
  no query asks for again: the transaction is committed, its message never
  published. `CommittedIsSettled` shows that nothing else keeps a message back.

Further differences, met while modelling and visible in the actions named:

* The attempts in a record are overwritten by each caller's own count
  (`RecordFailure`), so copies of a message are tried `max_retries` times each;
  `FailuresPerDelivery` is the bound that does hold. A guarded block always
  writes 1 (`GuardRecordsFailure`), and no number of failures ends its retries.
* A re-claim does not renew the TTL (`Claim`), so a key can vanish inside its
  lease: `SoleProcessor` fails when `TtlElapses` is TRUE in `ConsumerLeased.cfg`.
* With `retry_failed` off, or a store whose `max_retries` is smaller than the
  consumer's, a consumer is refused its own re-claim (`RetryLost`) and
  dead-letters the message early: `DeadLetterMeansExhausted` fails without any
  second consumer.
* A record with an undecodable id header ends `run()` each time it is delivered
  (`ReceiveUndecodable`); its partition is not consumed past it, and the other
  consumers of the process go down with it.
* A guard that loses its claim to a caller that has meanwhile completed reports
  `already_processed` without the stored result (`ReadStatus`, `ClaimRefused`).
* A relay sends the `message_id` only as the Kafka key, which the consumer does
  not read: a republished row without an id in its payload is handled twice.
  `IdentifiedRowHandledOnce` has that proviso.
* The in-memory `mark_failed()` overwrites COMPLETED (`MemoryMarkFailed`), and
  `get_status()` hands out the live record, which no caller in `src` writes to.
* A result that cannot be encoded makes the Redis `mark_completed()` raise: the
  consumer commits, the record stays PROCESSING, and a duplicate that comes after
  the lease repeats the work; the in-memory store completes the record
  (`CompleteRefused`). The README and `test_retry_and_lease.py` know of the first
  half. A result of `[]` is read back from Redis as `{}` (`Stored`), and a failure
  with an empty text leaves `error` None in Redis and `""` in memory.
* An exception that `run()` raises while it is being cancelled is dropped by
  `gather()` after the exit code is settled (`Cancelled`): the process exits with
  0 though `__main__.py` says that "if any consumer crashes, the process exits
  non-zero". `CrashExitsNonZero` is about crashes that `asyncio.wait()` reports.
* Shutdown cancels a message inside `handle()` (`Wake`), where `base.py` says
  that in-flight messages are drained.

## Proofs

All are for arbitrary sets of keys, results, consumers, callers, relays and
transactions, any log, and any value of the numeric constants, from the named
assumptions in the modules: the types of the constants, a TTL of at least one
tick and a batch of at least one row, finitely many partitions
(`ConsumerAssumption`), and for the pipeline that its partitions and its log are
the rows and what the topic can hold of them (`PipelineAssumption`). Where a
theorem assumes more it says so with `ASSUME ... PROVE`, and the item below
names it. Each safety invariant is proved from an inductive one; these are the
arguments.

**Redis store.** `StoreTypeCorrect`, `RecordsKeepShape`, `RecordsExpire`,
`CompletedStays`, `StoreImplementsContract`. The inductive invariant is
`StoreInv`, the conjunction of the type, `RecordShape` and `EveryRecordExpires`;
no part is inductive alone (without the shape a re-claim could carry a result
into PROCESSING, and without the correspondence of records and TTLs the expiry
of one could miss the other). The refinement shows that each script is a step of
the contract or a stutter; a re-claim is allowed by it because `RecordShape`
says a claimable record has no result.

**Both stores.** `MemoryStartsClean` rests on the shape of the in-memory records
alone (`MemInv`): a lease belongs to PROCESSING, and a PROCESSING record has
neither result nor error. `StoresAgree` assumes `~TtlElapses`, because the
in-memory store keeps no retention; it holds for every conversion `Recoded` and
every set `Refused`. Its invariant `ParityInv` is `SameRecords` with `StoreInv` and
`MemInv`: the two re-claims write different records in general, and only the shape
of what each store can hold makes them equal up to the conversion. The lemmas
`AsRedisFields`, `AsRedisClean` and `AsRedisAged` say what the conversion leaves
alone: status, count and lease, a record without result and error, and the
passing of time.

**Consumer group, offsets and exclusion.**

* `ConsumerTypeCorrect`: `TypeInv` adds to the types what each `pc` says about
  the record at hand (`LabelsOK`).
* `CommitCoversOneRecord`, `CommittedMonotone`: the position of a partition is at
  most one past the committed offset, and then that one record is what its owner
  is working on. It holds with deaths and rebalances at any moment and says why
  `commit()` without offsets is safe here.
* `ProcessingIsExclusive`, `EffectsAreRecordedOnce` assume `PromptRegime`: a
  positive lease, handlers that end within it (what `models.py` asks of the
  user), and a horizon within the retention period. `HolderInv` says that the
  record of every holder is PROCESSING with exactly the lease the holder counts
  on, hence not claimable. `EffectBalance` says that every return of `handle()`
  is recorded as COMPLETED, about to be, or counted as unrecorded. Outside the
  regime the first is false: see the TTL above.

**Consumer group, losses and retries.** No assumption on leases or retention.

* `LostOnlyWithItsClaim` assumes `HasDlq`; without a dead-letter topic an
  exhausted message is dropped, as the code says. Three things lead past a
  record: its own commit, a refused claim, and a commit that covers it.
  `LossInv` says for all three that the message is safe (resolved, in a live
  consumer's hands, or abandoned): a record is in the store only for a safe
  message, a consumer is at its commit only with a safe record, and only safe
  records are passed.
* `FailuresAreBounded` counts. `FailureInv` bounds the failures of a message
  plus the attempts its consumers have ahead of them (`OpenAttempts`) by
  `max_retries` for each copy handed out and each death or rebalance (`Budget`).
  A delivery opens `max_retries` attempts and is paid for by the copy it hands
  out; a copy that a death or a rebalance takes back is replaced in the budget
  by that death or rebalance.

**Guard and decorator.** `GuardTypeCorrect`, in whose type the wrapper's counter
stays within `max_retries`, needs that the retry loop sleeps only with attempts to spare (`AttemptsLeft`). `WorkIsExclusive` and
`WorkIsRecordedOnce` assume `PromptBodies`, the regime above for blocks and
functions, and follow the consumer's argument: `RunnerInv` ties the record of
every runner to its lease, `WorkBalance` accounts for every return of the work,
with the cancellations and cuts at each await.

**Outbox.** `OutboxTypeCorrect`, `CommittedRowKept`, `PublishedWasSent`,
`RelaysRepublishOnlyAfterFault`, `OutboxImplementsContract`, from `OutboxInv`:
a row is in the table only with its transaction and a skipped INSERT found a row
that is there to stay (`RowByTxn`, `CopyInv`); a locked row is PENDING and one
relay has it once (`LockInv`); what is marked, or about to be marked, as published
was sent, and only committed rows are sent (`SentInv`); every send of a row but
the last was followed by a fault (`CountInv`, where `DoneWith` says that the last
one is marked or still in its relay's hands). The refinement shows that every
step commits one transaction, sends the message of one that is committed, or
leaves both sets alone.

**Pipeline.** `PipelineImplementsComponents` shows that a step of the composition
is a step of the consumer group, of the outbox, or of neither, so the theorems
above hold of it. `HandledWasCommitted`: a record is delivered only after it was
published, and what was published stays so and is committed by `OutboxInv`
(`PublishedInv`). `RepublishedRowHandledOnce` assumes `PromptRegime`: the copies
of an id that were handled are no more than its side effects (`CopiesInv`), which
`EffectsAreRecordedOnce` bounds. The module instantiates `OutboxProofs`; its
first lemmas say that this copy of `Outbox` and the one in `Pipeline` are the
same.

**Process.** `MainTypeCorrect`, `CrashIsTold`, `ZeroMeansClean`. `MainInv` says
for each phase of `main()` what the tasks, the open connections and the exit code
can be.

Only model-checked: the liveness properties (`EventuallyCommitted`,
`EventuallyResolved`, `EveryCallReturns`, `NoKeyWedged`, `CommittedIsSettled`,
`CommittedIsResolved`, `AlwaysExits`), because fairness and ENABLED are out of
the prover's reach, and the four counterexamples, which are TLC's.

## Not modelled

Message contents and which field the id is found in; JSON beyond what it makes of
a result (`Recoded`, `Refused`); timestamps; the words of an error; log lines; connection management. `is_duplicate()`,
`get_status()` and `size()` only read. `stop()` of a consumer is its end
(`Abort`): it commits nothing. How `@idempotent` derives a key from the
arguments. Metrics are write-only: two of their texts differ from the code (a
message without id is counted in `dedup_messages_total` as `no_id` and again by
its outcome; `record_dlq()` counts a message that is dropped because no
dead-letter topic is set), but no step of the program depends on a counter.
Handlers, the HTTP endpoints, settings and deployment files carry no logic of
the protocol. Two topics with equal ids share a key: the models take equal ids to
be the same message, which is what the code does.

## Plan

Every safety property of the runs is proved. What remains is to carry the
theorems further than the runs ask: the steps a late update may take outside
`PromptRegime` (that a COMPLETED record survives a consumer whose lease ran out,
now a theorem of the store alone, stated for the consumers and the guard), and
that the in-memory store without late `mark_failed()` implements `StoreContract`
as the Redis store does.
