# Verification of the fraud lake

TLA+ models of the fraud-intelligence system in this repository, TLC configurations that
model-check them on small instances, and proofs, checked by TLAPS, that the main properties hold
for every value of the constants. `PROJECT.json` is the index: components, runs, mutants, the
source lines each definition stands for, findings, hazards, theorems.

    tlc -workers 2 -config PipelineOverlap.cfg MCPipeline     # any run
    tlapm PipelineProofs.tla                                  # any proof module

1. [The system](#1-the-system) · 2. [Modules](#2-modules-and-how-they-correspond-to-the-code) ·
3. [Runs, bounds, fairness](#3-runs-bounds-fairness) · 4. [Proofs](#4-proofs) ·
5. [Findings](#5-where-documents-and-code-disagree) · 6. [Limits](#6-what-is-not-modelled) ·
7. [Plan](#7-plan)

## 1. The system

Transactions are produced to Kinesis. Firehose lands them in S3 (`raw/`), and a Lambda keeps a
rolling window of each customer's events in DynamoDB. A Step Functions state machine runs Glue jobs
that take raw rows through bronze, silver and gold Iceberg tables, with a data-quality gate after
bronze and another after silver, and a model job at the end that scores transactions and uploads
fitted models. A FastAPI service scores single events with those models and answers questions with
an LLM agent whose tools query the lake.

| component | state | operations | hard behaviours | what makes it correct |
|---|---|---|---|---|
| Pipeline state machine (`orchestration/pipeline.asl.json`) | state, retry counts and failure of each execution | Glue tasks with retriers and Catch, verdict lambdas, choices, failure report, global timeout | executions overlap (S3 trigger, schedule, by hand) and share every table; tasks retried; Glue runs outlive a timed-out execution | a promoted execution's rows were judged; a succeeded execution's rows are served; every execution ends |
| Glue jobs (`glue/*.py`) | Iceberg tables, quarantine prefix | one or more commits per run, MERGE, append, partition overwrite | a run dies between two commits; a run works on the snapshot it started from | no row is lost between bronze and quarantine; an aggregate never regresses |
| Data-quality gate (`quality/`) | one latest report per layer in S3 | evaluate the ruleset on the whole table, write the report | executions overwrite each other's report | a verdict covers the rows it releases; what fails goes no further |
| Failure report, KB refresh (`orchestration/lambdas/`) | reports, SNS messages | publish, retried and caught | duplicates | what the message says is true |
| Trigger (`s3_trigger.py`, EventBridge schedule) | execution names | start, or find already started | redelivery; objects on both sides of a 15-minute bucket | every landed object is read some day |
| Producer (`ingestion/producer.py`) | buffer, batch, counters | write, flush with retries, close | partial failures, answers lost, exceptions | summary and exit code tell the truth |
| Feature store (`ingestion/feature_updater.py`) | checkpoint per shard, item per customer | batch invocation, read-modify-write per customer, expiry | redelivered batches, shards in parallel, out-of-order timestamps, reads that are not consistent | the item shows what all delivered events would show, again once a stale read is past; nothing skipped |
| Model job (`glue/ml_job.py`, `ml/`) | scores, metrics and value tables, model objects, manifest | read, train, three table writes, uploads, manifest | stops between any two writes while its inputs change | ledger and scores agree; what is served is on record |
| Scoring service (`api/scoring.py`) | a service object made without a lock; in it one cached bundle, a lock | create, load, use, score | several requests, the first of which may make two objects; slow loads, a release half-way | a bundle is of one run, fresh, and never steps back |
| Agent supervisor (`agents/supervisor.py`) | channels per conversation in a MemorySaver | route, call a tool, synthesize | turns in a thread pool, failing model calls, state kept between turns | the tool cap holds per turn; history kept; conversations apart |
| SQL tool, validator, schema cache (`agents/`) | a call's attempt and polling state; schemas with a TTL behind a lock, in an object made without one | prompt, generate, validate, repair, run, poll, stop | the deadline races a query that ends; partial refreshes; a slow refresh blocks others | no truncation in silence, no orphaned query, nothing proper refused, every question ends |
| Dashboards (`api/dashboards.py`) | one cache entry per query | lookup, query, store, shape | two misses at once; slow queries stored late | what is shown is at most a TTL old |
| Generator (`ingestion/generator.py`) | pending burst | four archetypes of events, seven kinds of damage | timestamps ahead of the clock and out of order; amounts at the bounds | each archetype is caught by the feature it is meant for; each damage by its rule |
| Features (`glue/transforms.py`, `feature_updater.py`, `scoring.py`, `ensemble.py`) | the rows in bronze; the item of a customer | windows and flags over rows; counts and scores from an item | an item compacted earlier, capped, and fed with events bronze rejects; ties in time | online and offline agree |

Interactions: the pipeline's executions meet only in the tables, the Glue jobs' limit of one
concurrent run, and the report keys. Producer and updater share the stream. Model job and scoring
service share the bucket. The turns of the agent share the saver, and with the dashboards
the process, its caches and Athena, over tables the pipeline commits to. Generator, bronze validator,
gates and both computations of the features share what a transaction means, and nothing but the
code's constants keeps them alike. Each of these shared states is a
set of variables which several actors' actions read and write; that is where the properties are
aimed. The hazards, with their lines, are in `PROJECT.json`.

## 2. Modules and how they correspond to the code

Actions carry the names of the code's handlers and states. One action is one step after which
another actor may act: one Iceberg commit, one AWS call, one graph node, one section under a lock.
Where an operator comes in a second form (`NextStateDangling` before `NextState`), the second form
is a plausible bug, used by the mutants that show that each property can fail; the specifications
never use it.

**Pipeline** - `pipeline.asl.json` and what its tasks do to the lake. `pc[e]` is the state of an
execution, `tries` its retries, `runs` the Glue runs in flight, each with the snapshot (`view`)
it read when it started. `StartJobRun`, `StartRejected`, `RunSucceeds`, `RunFails` are a
`startJobRun.sync` task with its two retriers and its Catch; `JobFree` is `max_concurrent_runs = 1`.
Then one action per commit of each job (`MergeBronze`, `AppendQuarantine`, `CreateDimension`, ...,
`MergeScores`), `EvaluateRules` and `WriteReport` of the gate, `ReadVerdict` with the Choice behind
it, the failure branch, and `TimeOut`, which may leave a Glue run behind (`Orphans`). A table is the
set of rows it holds or was computed from; the classes of rows (`Malformed`, `Unfit`, `Unscored`)
are what the rules tell apart. `quarantine` counts copies, since it is appended to. `Start` takes
either one partition (S3 trigger) or all of raw (schedule, empty `process_date`).

**GatedLake** - what the pipeline promises, without executions: silver only takes rows of certified
bronze, gold only aggregates certified silver, and nothing shrinks. `Pipeline!Lake` instantiates it
with `gold` read off `metrics` and `risk` and with `certified` the rows some passing report covered.

**KinesisSink, FeatureUpdater, Ingest** - the producer's loop and batching sink; the consumer Lambda
of each shard with its checkpoint; and both around one stream. In the sink, `PutRecords` is one
`put_records` call and what `flush` makes of its answer; `AnswerLost` is the client library
repeating a call that was stored; `PutRaises` the exception that ends the process with the buffer
already emptied. In the updater, `Poll` is an invocation, `GetItem` and `PutItem` the read and the
write of an item (other shards act between them), `Return`/`InvocationFails` the two ends, and
`Expire` DynamoDB's TTL. `get_item` asks for no consistent read, so `GetItem` returns the item or an
earlier version of it (`older`, left by any write); the history variable `mended` says when all that
such reads have lost would have been dropped by then anyway. `compact_events` is the code's function
on sequences.

**Conversation** - `ask` and the graph of `build_supervisor`. `local[t]` are the channels a turn
works on, `saved` the checkpoints. `CheckMemory`, `CreateMemory`, `BindMemory` are the three thread
steps around the module variable `_MEMORY`. LangGraph is external, modelled as used: a turn loads
the latest checkpoint of its thread, every node saves one, and `RecursionLimit` ends a turn.

**ModelJob, ScoringService, Serving** - `main` of the model job, one action per table write or
upload, in the order `After`, with `RunFails` between any two; the service's `bundle()` under
`_lock`, one action per S3 read; and both around the bucket. `Ask`, `Create` and `Bind` are
`get_scoring_service`, which checks `_service`, assigns it and returns it without a lock: two first
requests may work with two objects, each with its own lock and bundle, named after who created it. A run's number stands for its
`run_stamp` and for all it computed, so two pieces of one run are recognised as such. `Land`,
`Confirm` and `NextDay` change what the job reads while it works.

**Trigger, Medallion** - what starts executions, and what they do to rows over days. `StartExecution`
is one call of `s3_trigger.py`: the name is the partition and the bucket of 15 minutes of the call,
and a name that was used is swallowed. `Schedule` is the hourly rule, whose execution reads all
partitions. Medallion adds versions of a row (`ingest_timestamp`), the partition of its arrival (in
`raw`) against that of its event (`EventDay`), and the three windows: `BronzeJob` merges the latest
version *among the partitions it reads*, `SilverJob` recomputes everything in `Lookback` with the
history it finds there, `GoldJob` replaces the days present in `Recompute`. A silver row is its
version and the set of rows in its baseline; a day of `metrics` is what it was computed from. Each
job is one step here: Pipeline takes them apart.

**Transactions, Generator** - a transaction, and `TransactionGenerator` with its random draws as
choices: `_legit_transaction`, `_velocity_burst` (the rest of a burst waits in `pending`),
`_impossible_geo_transaction`, `_amount_outlier_transaction`, and `corrupt` at the producer.
**BronzeRules** - `_rejection_reasons` of the validator, and the rules of the bronze gate on the
values of a row (`ValuesRefused`). The gate's rule on merchants is a join with a dimension that the
silver job builds afterwards, and is left out while there is none; it is in Pipeline, where tables
have a history. **SilverFeatures** - the windows of `transforms.py` over a set of rows: velocity,
z-score against the 30-day baseline, implied speed along any order of the `lag` window that the
timestamps allow (`Orders`). Time is in ticks, `Second` of them to a second: silver casts timestamps
to whole seconds (`_seconds`) before it takes its windows, the service compares fractional ones. The
z-score is compared in integers (`Spread`, `ScoreReaches`), without root or division; silver rounds
it first, to a multiple of `1 / Precision` (`RoundsToOutlier`), the service does not. `SpeedLimit` is
the least speed that silver, which rounds it to two decimals, flags. **OnlineFeatures** - the same
from an item: `IsCompaction` is what `compact_events` may keep, `txn_count`, `OnlineOutlier`, and
`MissingIndicators`, the layering of caller, store and defaults in `score` down to the columns
`prepare_features` adds. **Detection**
composes them: a stream is generated, damaged and consumed while the clock moves.

**AgentConfig, AthenaQuery, SqlValidator, SchemaCache, SqlTool, Dashboards, Analytics** -
`query_lakehouse` and the dashboards in one process. `run[c]` is a call of `run_athena_query` with
what Athena knows of its query; `PollLate` and `StopQuery` are two steps, since the query may end
between them. A statement is what the parser yields of it (roots, branches, references, names bound
by WITH, LIMIT), and `Accepted`, `ApplyLimit` are `validate_sql` on that. `SchemaCache` is
`get_tables` with one step per `GetTable` under the lock of a cache object; `SqlTool` the prompt, the
attempts and the query. `get_schema_cache` is unlocked, like `get_scoring_service`: `FindNoCache`,
`NewCache` and `TakeCache` are its three steps, and a cache object is named after the thread that
made it. `Dashboards` has the two critical sections of `_query` with the query between; what it
stores is what `run_athena_query` returns to any caller, the first rows up to the cap. A gold table is
its number of rows, in the order the statements ask for. `Analytics` puts them on one clock.

**Enumeration** - what a list comprehension and a stable sort make of a list (`Pick`, `Only`,
`Ascending`), as functions of positions rather than recursion on lists, so that KinesisSink and
FeatureUpdater can be reasoned about. **LeastElement** - well-ordering of the naturals, for the
proofs. **MC\*** give the constants values for TLC. **\*Proofs** hold the proofs.

## 3. Runs, bounds, fairness

| run | what it asks | bounds, and why they are enough |
|---|---|---|
| `pipeline_overlap` | what each execution can rely on when two overlap freely, tasks are retried, runs die between commits and outlive timeouts | 2 executions (a report or table has one writer and one other); 3 rows, one of each class; two partitions; 1 task retry. The same properties are proved for any number |
| `pipeline_sequential` | stale, never wrong: no bad row past bronze; and the gated lake is implemented | 2 executions one after the other, all retriers used once, freshness rule free |
| `pipeline_liveness` | every execution ends, without the timeout | 2 executions, 1 row, 1 retry of a throttled start and of a task, none of a Lambda: contention for a job needs two |
| `pipeline_overlap_leak` | a statement of the state machine and the documents that fails | smallest instance that shows it |
| `ingest` | summary honest; item current; nothing skipped | 3 records of 2 customers, one of them out of order and one without a timestamp; 2 shards; batches of 2; 1 lost answer, 1 failed invocation; the clock at 1 to 4, so that items expire (`Retention` 2) and a stale read is outlived (`Horizon` 1); any read may be stale |
| `ingest_liveness` | exit code 0 means delivered in the end | as above, no lost answer, the clock at 1 to 3 |
| `conversation` | cap, budget, history, isolation | 5 turns: two sequential ones, two that overlap, one alone; cap 1, limit 4 (the code's 5 and LangGraph's 25 only need `limit >= 2 cap + 2`, the assumption of the proofs) |
| `conversation_stale_reason` | a statement of `api/models.py` that fails | 4 turns |
| `serving` | ledger, bundles, freshness, records, no step back | 2 runs (an old and a new one), 2 requests, so that both may create a service object, 2 models, 2 transactions of the second of 2 days, so that a run on the first finds none (Medallion has the windows); TTL 1, loads of at most 1, 2 ticks: the least with which a bundle can go stale |
| `detection` | the matched pair of generator and rules; features computed twice | 2 customers; 3 events: a whole burst, one longer than `HighHour`, or rows to travel between with one in their midst; 2 ticks to a second and windows of 2, 3 and 3 seconds; the moments 2, 5 and 11, so that 2 and 5 are within an hour, 5 and 11 a month apart, 2 and 11 more, and a row of a burst at 6 is within silver's hour at 11 and not within the service's; 1 damaged event of any kind; outliers of exactly the maximum amount and above it; scores rounded to whole numbers, and a requested amount (7) whose score only rounds up to the limit; a caller that gives the z-score or nothing, which leaves most features missing; item cap 2, below the number of events. 2.2 million states |
| `medallion` | late rows, swallowed and repeated notifications, re-runs of old partitions, failures | 2 rows on consecutive days, 2 versions, 2 objects, 4 buckets of a day each; windows 2/1/2 days, so a day leaves the windows before the clock stops; 2 triggered executions besides the scheduled one; 1 failure. 1.0 million states |
| `analytics` | questions and viewers over caches, locks and an Athena that owes nothing | two at once: two questions, which may create two caches or wait for one lock; two viewers of the same dashboard, who miss at once; or one of each. Cap 1 and up to 2 rows, so results are cut; TTL 1; 1 table, which appears; 1 repair attempt; 4 statements, 3 within the prompt's rules. 1.05 million states |

Deadlock checking is off in all of them: executions, turns and the producer come to an end, and
the bounds end the rest. The symmetry sets are of runs without temporal properties that look at
more than one step.

What the properties are about:

- `VerdictCoversOwnRows` - both gates publish under one key per layer, so an execution may branch on
  a report some other execution's gate wrote. It still covers every row the execution ingested. This
  rests on `max_concurrent_runs = 1` of the one quality job: with 2 (the mutant `JobFreeForTwo`) a
  slower gate overwrites the report with that of an older snapshot.
- `EveryRowAccounted` - a bronze run that died between its two commits is made good by the retry.
- `SucceededIsServed`, `NoServedRowLost` - downstream tables contain what a succeeded execution
  admitted, and late overwrites of gold never go back to fewer rows.
- `NeverWrong`, `GatedLakeImplemented` - hold when executions do not overlap, and only then.
- `SummaryHonest`, `ExitZeroDelivers` - the producer's counters against the stream and the store.
- `StoreIsCurrent` - the item, kept incrementally and compacted at different times, shows what
  compacting everything ever delivered would show. It rests on the partition key. A stale read loses
  the events of the writes it did not see, so the property is claimed from `mended` on: the item
  recovers once those events are past the horizon, and nothing else is ever wrong with it.
- `CapHolds`, `BudgetPerTurn` - the tool cap under channels that survive turns.
- `HistoryKept` - a follow-up sees the results of the turns before it, failed ones included.
- `LedgerAgrees` - a day of the value table that was priced by the run which last scored it agrees
  with the scores table transaction by transaction.
- `BundleWhole`, `FreshEnough`, `NoStepBack`, `ServedRunRecorded` - the model in service. A service
  object never goes back to an older run; with two objects the process may, from one request to the
  next, so `NoStepBack` is said of each object, and the others of every request.
- `BoundaryExact` - each kind of damage is rejected for its own reason and no other, an undamaged
  event only above the maximum, and on the values of a row bronze and its gate differ on nothing but
  the maximum amount itself (between is exclusive in DQDL).
- `BurstCaught`, `TravelCaught` - the features catch the archetypes they were built for, whatever
  order the timestamps come in, whatever else the customer does, and however the `lag` window breaks
  ties. The second depends on the sentinel for rows of one second.
- `VelocityParity`, `ServedAsTrained` - flags and missing-indicators of an event scored online
  against those of the same event in silver, as far as they agree. Velocity: what silver flags with
  windows a second shorter, the service flags, since a row 3600.5 seconds old may be in silver's hour
  and not in the service's; and what the service flags, silver flags, unless the item holds events
  bronze rejected or of the future. It needs the cap of an item to leave enough events
  (`OnlineAssumption`). Amounts: a z-score exists on one side when it does on the other, over the same
  events; silver's flag is that of the rounded score, so it covers the service's and a score that
  only rounds up to the limit besides. It is claimed where the months of both sides hold the same
  events, which the fraction of a second may prevent.
- `NoStepLoses` - no run shortens the history of a row that is young enough, or takes a row out of
  the daily metrics. Its precondition is what the code supports: `Lookback - Baseline`, one day.
- `LandedRowCounted` - a row is counted in its newest version in the end, although the notification
  of its object was swallowed, its execution failed, or a re-run of an older partition merged over it.
- `TruncationVisible` - the cap of `_fetch_results` never cuts below the LIMIT in force: they are the
  same setting, in two modules. `PromptedAccepted` - the validator refuses nothing the prompt asks
  for. `SchemaSurvives` - a failed refresh does not empty a cache object. (The first threads may
  still replace a filled object by an empty one of theirs.)
- `NoOrphanQuery` - the deadline, the stop and a query that ends meanwhile. `EveryQuestionEnds` - or
  other questions overtake it at the schema lock for ever, each of them leaving the lock: `threading.Lock`
  is not fair, and the second disjunct says that this is the only way.
- `FreshEnough` (Dashboards) - the entry carries the time before its query, so that a late store of an
  old result does not live longer. What is shown is the oldest rows up to the cap, so the property
  compares with the cap as well.

Fairness. `pipeline_liveness` assumes that Step Functions goes on with each execution and Glue with
each run (`WF` of an execution's own steps and of its runs' steps). Nothing is assumed of landing,
of starting executions, nor of the timeout. The retriers are bounded, so weak fairness is enough.
`ingest_liveness` assumes that Lambda goes on polling and running each shard's handler; an
invocation may fail up to the bound. The producer is under no obligation.
`medallion` assumes that the hourly schedule is enabled and fires, and that its executions go on
(`WF` of `Schedule` and of the steps of the scheduled execution); nothing of notifications, and the
failures are bounded. The schedule is the reason the property holds: it is off by default
(`enable_schedule`), and without it a swallowed object may stay unread (section 5). `analytics`
assumes that time passes and that the threads of the process run (`WF` of each thread's steps, so a
lock that stays free is taken, and one that comes and goes need not be); nothing of Athena's queries. A call to Glue or to the model ends, with an answer or an error, by its client's timeout.
The other runs are of safety.

## 4. Proofs

| module | theorem | states |
|---|---|---|
| PipelineProofs | `InductiveInvariant`, `TypeCorrect`, `VerdictCoverage`, `RowsAccounted`, `SuccessServes`, `GoldGrows` | types, `IInv`, and the four safety properties of `pipeline_overlap`, for any executions, rows, retries, and whatever `Overlap` and `Orphans` |
| | `SequentialInvariant`, `StaleNeverWrong`, `Refinement` | `NeverWrong` and `GatedLakeImplemented` from `Sequential`: no overlap, no orphans |
| | `StepsRunOut` | every step of an execution or of its runs lowers a triple of naturals |
| IngestProofs | `InductiveInvariant`, `TypeCorrect`, `Honest`, `Current`, `NoneSkipped` | all safety properties of the run `ingest`, for any records, customers, shards, hash, timestamps, batch sizes, retries and caps, whichever reads are stale |
| | `ReadMeansDelivered`, `ShardStepsRunOut` | a shard read to its end has delivered what it holds; each step of its invocations lowers a tuple of naturals, once the producer has stopped |
| ConversationProofs | `InductiveInvariant`, `TypeCorrect`, `CapAlwaysHolds`, `EachTurnOwnBudget`, `NeverMixed`, `HistoryStays` | all properties of the run `conversation`, for any turns, conversations, tools, cap, and recursion limit of at least twice the cap and two |
| ServingProofs | `InductiveInvariant`, `TypeCorrect`, `LedgerAlwaysAgrees`, `BundleAlwaysWhole`, `AlwaysFreshEnough`, `ServedOnRecord`, `NeverBack` | all properties of the run `serving`, for any transactions, days, lookback, models, requests and the service objects they make, TTL and bounds |
| DetectionProofs | `InductiveInvariant`, `TypeCorrect`, `BoundaryAlwaysExact`, `BurstsCaught`, `TravelsCaught`, `Parity`, `AmountParity` | all properties of the run `detection`, for any customers, amounts, bursts, windows, thresholds, ticks to the second, rounding, caps and any length of the stream |
| MedallionProofs | `InductiveInvariant`, `TypeCorrect`, `NothingLost`, `FullRunCounts` | the safety of the run `medallion`, and what an undisturbed full execution carries to gold, for any rows, days, versions, windows, and any executions side by side |
| AnalyticsProofs | `InductiveInvariant`, `TypeCorrect`, `NoQueryOrphaned`, `AlwaysFreshEnough`, `TruncationAlwaysVisible`, `PromptedAlwaysAccepted`, `SchemasSurvive` | all safety properties of the run `analytics`, for any clients, cache objects, statements, tables, caps, deadlines and TTLs |
| | `QuestionStepsRunOut`, `NobodyStuck` | every step of a question lowers a triple of naturals; the lock of a cache is only ever held by a thread that is refreshing that one |
| LeastElement | `Least`, `Greatest` (lemmas) | a set of naturals has a least element, a bounded one a greatest |

The only assumptions are the named ASSUMEs on the constants in the specifications, which TLC
evaluates in each run, and `Sequential` where said.

*Pipeline.* No property is inductive by itself. `IInv` adds that a job has at most one run
(`JobsExclusive`), that a run's owner waits for it or has timed out (`OwnersWait`), and, for every
control state, what the steps so far have done for the execution: which tables hold its rows
(`ExecInv`) and what the snapshot of its run contains (`RunInv`). `VerdictCoversOwnRows` follows
because gate runs are exclusive and tables only grow: whoever writes the report after an
execution's gate has run has read at least what that gate read. The lemmas `Move` and `Stay` say
once what entering a state or staying in it needs; each action then cites them.

*Refinement.* `SInv` adds that one execution at most is active and waits for the only run. So bronze
does not change between the gate's snapshot, its report, and the silver job's snapshot, which is
the step at which the abstract `Promote` is allowed. Every other step is `Ingest`, `Certify`,
`Summarise` or a stutter.

*Ingest.* `IInv` has a part per actor. `ProducerInv` counts: what is buffered, in the batch, sent and
failed adds up to what was emitted, and the records that are in none of stream, buffer and batch
(`Missing`) are no more than `failed`, which a retry keeps because it is of exactly the refused ones
(`Honest`). `StreamInv` says that all records of a customer are on one shard, so of the invocations
side by side only one can hold a customer's item. `InvocationInv` says that each usable record of a
batch in flight is either still to be written or delivered, which gives `NoneSkipped` at the moment
the checkpoint moves. `Current` compares an item with everything ever delivered to it: the two are
the `Same` if compacting them gives one result now and after whatever comes in later. That relation
survives appending, compacting early (`CompactAbsorbs`: what compaction drops, a later compaction
would drop anyway) and forgetting an expired item (`CompactForgets`). A stale read breaks it; from
then on the two agree once everything delivered up to that write is past the horizon (`SameBeyond`),
which every later write keeps, unless it rests on a stale read itself and moves `mended` on.

*Conversation.* `Budget` ties the channel `iterations` to the tools a turn has called itself,
and both to its graph steps, state by state; the cap, the budget and the recursion limit follow
together. `Isolated` says of every checkpoint in every saver whose results it holds. For
`HistoryKept`, `Orderly` says that a turn no other of its conversation overlaps works with all its
checkpoint holds, and leaves there what it gathered.

*Serving.* `Whole` says that a run's frame contains every scored row of its days, although rows keep
landing: it is what makes the ledger agree after a crash between the scores and the value MERGE.
`Keyed` says that a key names its run for good, so a loader that reads key by key gets one run's
models. `LoaderInv` bounds the age of what a loader has read and says it is at least as new as the
bundle of its object, which only holds because the object's lock has one holder.

*Detection.* The invariant says where each event came from: it is as its archetype made it, damaged
in at most one way (`BoundaryAlwaysExact` then goes by cases on the damage); the rows of one burst
have one customer and lie within an hour of each other, in the stream and in `pending` together; and
each item holds what compaction may have kept of what was consumed. `Parity` counts: the recent rows
of silver inject into the item, or the item is at its cap, which is enough for high velocity. The lemma
`Seconds` relates the two clocks: what is within `w` ticks' worth of seconds is within `w` whole ones,
and what is within `w - 1` whole seconds is within `w` exact ones. `RoundedUp` and `OutlierRounds` say
that a score at the limit is also one that rounds to it, for any precision.
`TravelsCaught` takes the first row, between two that are too far apart, at another place than the
first: it follows a row at that place and no more time has passed. `AmountParity` compares sums over
sets that are folds: the item's events and the silver rows of the same past are in bijection, and a
sum is carried over a bijection one element at a time, by the least set for which it would not be.

*Medallion.* Bronze never loses a row, silver's rows are founded in bronze and the metrics' in
silver; the windows are monotone in `today`, so a recomputation finds at least what an earlier one
found as long as nothing has left the lookback. `FullRunCounts` follows the objects in the raw zone
through the three jobs of a scheduled execution; it holds from any moment of a behaviour on, and of
the other executions asks only that their merges replace no version by an older one.

*Analytics.* A call that has answered is not running, and its limit is at most the cap; rows aged `k`
ticks are at least those of `k` ticks ago, for each cache entry and each query on its way, which
with the stamp taken before the query gives freshness, up to the cap that every fetch applies. A
step of one thread changes neither the cache another uses, nor what it has described, nor the lock it
holds (`OneLock`).

*Steps run out.* A liveness property says that something ends, which is two things: that its steps
cannot go on for ever, and that the scheduler goes on taking them. The first is a fact of the code's
bounds on retries, attempts and deadlines, and is proved. `StepsRunOut` orders (states ahead, retries
left, work left of the run), `ShardStepsRunOut` (records unread, failures left, not invoked, items to
write), `QuestionStepsRunOut` (attempts left, phases left, tables or polls left) lexicographically:
they are natural numbers, each step of one's own lowers them, and nobody else's raises them. A start
that is refused because the job has its run costs a retry; a thread that waits for the cache's lock
takes no step. `NobodyStuck` adds for questions that there is always somebody who can take one: the
lock's holder is refreshing, and a question that waits for Athena has a call. What is left to TLC is
`ENABLED` as such, and fairness.

*Induction.* The provers cannot use the library's induction theorems, which take an operator. Where
an argument needs one over positions or counts, `LeastElement` supplies the least counterexample:
the lemma `Least` follows from the library's theorem that the strict subset ordering on finite sets
is well-founded.

Model-checked only: the four liveness properties (`EveryExecutionEnds`, `ExitZeroDelivers`,
`LandedRowCounted`, `EveryQuestionEnds`). The provers know neither `ENABLED` nor fairness; what of
them is safety is proved, as said above. Every other property of a passing run is a theorem.

## 5. Where documents and code disagree

Each is a run that TLC ends with a counterexample; `PROJECT.json` quotes the lines.

- `pipeline_overlap_leak`: "downstream stays stale, never wrong" does not hold between overlapping
  executions. A silver job reads bronze when it starts, and takes rows another execution has merged
  since the gate.
- `conversation_stale_reason`: `stopped_reason` survives in the checkpoint and is reported by turns
  which finish by themselves.

Known from the models and the reading they took, and not given a run of their own. Where a definition
states the claim it is named.

*Ingest and features*

- `IdempotentPerEvent` (FeatureUpdater) states `feature_updater.py:13`, "idempotent per event": a
  redelivered batch counts twice.
- `CustomerInOrder` (KinesisSink): a partial retry puts an earlier event behind a later one.
- `transforms.py:50-53` wants validator and gate never to disagree. DQDL's `between` excludes its
  bounds, and the generator clips outliers at exactly the maximum amount; `BoundaryExact` states what
  remains.
- `producer.py:50`: each corruption mode maps to a bronze rejection reason. `unknown_merchant` does
  not. The gate finds it if the dimension exists, and then refuses all of bronze. That dimension is
  built from bronze by the silver job after the gate (`silver_job.py:84-86`): on a first run unknown
  merchants pass, and later a proper merchant that is new is refused.
- Undamaged outliers and hits above 25 000 are quarantined, so an archetype that was to be caught
  downstream does not get there.
- `generator.py:70-72, 174-181`: the state behind "minutes apart" is never read; an impossible
  journey needs an earlier transaction that nothing ensures. A burst of 4 cannot reach the threshold
  of 5. A burst "inside ~6 minutes" may take 9.
- Online counts include events of the future and events bronze rejects (`VelocityParity` is one-way
  then); `amount_sum_1h/24h` leave the scored amount out where silver has it in, although the counts
  have it in; the baseline may hold events older than 30 days until the next compaction; a caller's
  1h count can exceed the store's 24h count.
- `scoring.py:167` derives the flags "EXACTLY as the silver job does". Silver takes its windows over
  whole seconds, the service over exact times, so a row up to a second older counts only in silver;
  and silver rounds the z-score to 4 decimals before it compares, the service does not.
  `VelocityParity` and `ServedAsTrained` state what remains.
- `feature_updater.py:72` reads without `ConsistentRead` and writes unconditionally: an invocation soon
  after another may drop the events that one wrote. The item then shows too few for up to the horizon
  (`StoreIsCurrent` from `mended` on).
- `merchant_risk` is called a full-population snapshot and is of the last 7 days (`gold_job.py:87`).

*Pipeline and medallion*

- `GateLeavesSilverGood` (Pipeline) states `failure_report.py:94`, that silver still holds the last
  good data. The silver job has merged before the silver gate runs.
- A repeated bronze run leaves several copies of a row in quarantine (`quarantine` > 1).
- A row the bronze gate rejects stays in bronze, so all later gates fail too, whatever they ingest.
- The trigger's "a burst collapses into one execution" holds within a bucket of time; one across its
  boundary starts two.
- With triggers alone an object whose notification was swallowed after the running execution had read,
  or whose execution failed, is read only when another object lands in its partition.
- A re-run of an older partition merges an older version over a newer one, although
  `generator.py:10-11` wants repeated ids deduplicated to the latest; a full run repairs it.
- `silver_job.py:42-44` wants no truncated baseline: rows older than `Lookback - Baseline` (a day) are
  recomputed with less history on every run and written back.
- Rows that arrive more than 7 days late never reach gold, more than 31 days late never silver.

*Model and scoring*

- `get_scoring_service` and `get_schema_cache` check and set a module variable without a lock, so the
  first requests may make two objects. Each behaves (`NoStepBack`, `SchemaSurvives`), but the
  bundle is then not loaded "once" (`scoring.py:5`), and a filled schema cache may be replaced by an
  empty one.
- `ConfirmationsStick` (ModelJob): an unreadable feedback prefix counts as an empty one, and the
  retrain takes back labels that were confirmed before.

*Agent and dashboards*

- `OneMemory` (Conversation) states `supervisor.py:330-335`: two first requests may each make a
  MemorySaver, and a conversation started in the first loses its history.
- Overlapping turns of one conversation overwrite each other's checkpoint (`HistoryKept` leaves
  them out, by `Concurrent`).
- `dashboards.py:86`, one round-trip per query per 5 minutes: not under concurrent misses. Results are
  cut at 200 rows in ascending order, so a growing table shows its oldest rows only (`FreshEnough`
  compares with the cap for that reason). The parts of one dashboard may be of different snapshots.
- The MCP server's `check_sql` validates with the default cap of 1000, the query tool with 200.
- A LIMIT that is an expression beginning with a literal is read as that literal
  (`sql_validator.py:245`) and left in place. Athena's grammar refuses such a LIMIT, so statements with
  one are left out.
- A `ClientError` of Athena leaves the query running (`CallFails`; `NoOrphanQuery` says so).

## 6. What is not modelled

- Random data, model fitting, prompts, answers, the text of SQL and of messages, HTML: there is
  nothing to interleave, and the properties do not tell them apart. So the arithmetic of
  `ml/ensemble.py` (fitting, threshold search, value figures) is only present where its columns are
  (`MissingIndicators`).
- Windows in Pipeline, commits in Medallion: each keeps one and leaves out the other. In Pipeline all
  rows lie inside the windows, and in Medallion each job is one step. Rows of one day are not in each
  other's history in Medallion.
- In Generator and the features: devices and their flag, channel, currency, the choice of merchant and
  its risk score; distances within a metro are 0, so no speed comes of them. In ServedAsTrained only whether a z-score exists and
  reaches the outlier limit, not its digits.
- In Detection the updater handles events once and in order, and bronze is what all emitted events come
  to; redelivery, expiry and retries are Ingest's, commits and gates Pipeline's.
- A stop of an Athena query takes effect at once; the code does not wait for it either.
- In Medallion the schedule starts no execution before the last scheduled one ended; scheduled and
  triggered ones overlap. Any overlap is in Pipeline, and in the proofs of Medallion's safety.
- A name bound by a WITH clause hides a table of the name anywhere in the statement, as in
  `_referenced_tables`; scopes inside a statement are not told apart. Rejections by the parser itself
  count as statements not equal to one.
- `clear_cache` of the dashboards and the shaping of their tiles; the report objects of a failure;
  the file and standard-output sinks.
- The metrics, alarms and notifications beyond `notices`; Terraform and Kubernetes beyond the
  settings the models quote (concurrency, retries, batch sizes, TTLs, replicas).
- Kinesis retention: retries of a batch are taken to end within the stream's 24 hours.
- More than one process of the API: the code keeps conversations, bundles and caches per process, so
  a follow-up that lands on the other replica has no history.
- The Bedrock client, the pipeline and policy tools, the counters of the API: they pass calls on or
  format what they read. Of the MCP server only its query tool, one more asker.

## 7. Plan

Done: Pipeline with GatedLake, Ingest, Conversation, Serving, Detection, Analytics, Trigger and
Medallion, all checked, and all their safety properties proved.

What could follow:

1. **Progress** - what `NobodyStuck` says of questions, for executions and shards too: the guard of
   some own step holds, written out.
2. **Pipeline over Medallion** - one commit per step over versions and windows, for two executions; the
   product is too large for TLC, but both invariants are proved for any constants and may be joined.
3. **Figures** - the threshold search and the ledger's sums of `ensemble.py` over small integers,
   against their definitions; the gold aggregates likewise.
4. **Redelivery in Detection** - what repeated and expired events do to the parity of features.
