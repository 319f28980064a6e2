# Scam2Market: TLA+ models, model checking and proofs

Scam2Market watches social posts and market data for coordinated promotion of
assets. Events flow through topics of a Kafka-compatible broker (Redpanda)
between small worker processes; each worker keeps its state in PostgreSQL or
Redis, commits its topic offset after its work, and is restarted by its
supervisor when it raises. This directory models the parts whose correctness
depends on interleavings, crashes, redelivery and order, checks them with TLC
and proves the main results with TLAPS.

Paths below are relative to `src/src/scam2market/`.

## Inventory

| Component | State it keeps | Operations | Hard behaviour | What makes it correct |
|---|---|---|---|---|
| Ingestion (`ingestion/market.py`, `social.py`, `quality.py`, `live_providers.py`, `state.py`) | dedupe keys and latest values in Redis, cursor, page and source quality in the process | poll, claim, normalise, publish, release | crash between claim and publish, bounded pages, gaps and reordering of sequences | losses and copies only by a fault, nothing passed over |
| Persistence and archive (`workers/telemetry_persistence_worker.py`, `archive_worker.py`, `ingestion/archive.py`) | telemetry tables, Parquet files, checkpoints | cache a half, persist, write a file, commit | halves of a post on two topics, files cut off by a crash | what is checkpointed is durable |
| Features (`features/engine.py`, `workers/stream_worker.py`) | event-time windows, watermarks, revisions, checkpoint | ingest, finalize, restore | late events, idle and degraded sources, restart in the middle of a batch | revisions reflect all signals, final means final, nothing committed is lost |
| Detection (`intelligence/fusion.py`, `workers/intelligence_worker.py`) | model scores | score, persist, cache, publish | threat context that changes, crash between persist and publish | one score and one event per input |
| Narratives and graph (`narratives/`, `workers/graph_worker.py`) | narratives, revisions, graph snapshots | cluster, persist | windows of two lengths, posts not stored yet, revisions under reordering | a committed snapshot is graphed, narratives match their revisions |
| Threat feed (`intelligence/otx_client.py`, `workers/threat_feed_worker.py`) | observations, matches, watermark | poll, ingest, backfill | truncated polls, posts before and after their indicator, a bounded backfill | nothing passed over, no match missed unless newer pulses came |
| Campaigns and alerts (`campaigns/`, `workers/campaign_worker.py`) | campaigns, evidence, stage history, alerts, outbox rows | apply, acknowledge | concurrent workers, redelivery, stale evidence, lock timeouts | one active campaign per key, each evidence applied once, audit trail |
| Outbox (`ingestion/repositories.py`, `streaming/outbox.py`, `workers/outbox_worker.py`) | outbox_events | pending, publish, mark | slow or dead workers, lost answers | nothing lost, copies bounded |
| Notifications (`notifications/service.py`, `workers/notification_worker.py`) | subscriptions, deliveries | enqueue, claim, send, finalize | dead workers, failing channels, duplicates | the delivery ledger tells the truth, every delivery ends |
| Evidence ledger (`evidence/`, `workers/evidence_worker.py`) | snapshots per alert version, hash chain | capture | events out of order, alert updated since the event, two workers | each event evidenced, chain in order |
| Desk (`api/routes/evidence.py`, `operations.py`) | investigations, feedback, proposals | update, adjudicate, decide | two analysts at once | no update lost, one decision |
| Verification (`verification/`, connector workers, `resilience/circuit_breaker.py`) | disclosures, connector runs, verdicts, circuit | fetch, persist versions, verify | partial runs, conditional requests, documents observed late | a version history, verdicts without hindsight, source caught up |
| Source policies (`api/routes/verification.py`) | policies with intervals of validity | create, patch | policies in a row, requests that wait between clock and commit | one gives way to the next, past fixed |
| Realtime (`realtime.py`, `workers/realtime_worker.py`) | bounded Redis stream | publish, subscribe | trimming under a slow subscriber, reconnection | no silent gap |
| Rate limiter (`security/rate_limiter.py`) | token bucket in Redis | admit | clocks of several hosts, expiry | admission bounded |
| Replay (`workers/replay_scheduler.py`, `api/routes/evaluation.py`) | replay sessions, claims, evaluation | queue, pause, run, finish | two workers, failures on both sides of the run, pause of a running session | each session ends or is seen to be abandoned, completed is whole |
| Model governance (`api/routes/model_governance.py`, `evaluation.py`) | artifacts, calibrations, champion alias | register, calibrate, promote | overlapping promotions | no unnoticed regression |

Components interact only through topics and tables: ingestors publish market
and social topics, which the persistence, archive and feature workers read;
feature revisions go to the graph and intelligence workers; detection publishes
`model.fusion.score.v1`; the campaign worker reads it and writes campaigns,
alerts and outbox rows in one transaction; the outbox worker publishes these as
`campaign.events.v1` and `alerts.events.v1`; the notification, evidence and
realtime workers read the alert events. Narrative revisions go through the same
outbox to the verification worker, whose verdicts return to detection.

`PROJECT.json` lists the components with their status and the hazards of the
code, each at its line with the properties that would catch it.

## Modules

| Module | Models | Composes |
|---|---|---|
| `CampaignPolicy` | thresholds, transition table, `_next_stage`, `_alerts`, `max_risk` as operators | |
| `CampaignLifecycle` | one campaign under any sequence of scores | `CampaignPolicy` |
| `CampaignLedger` | **abstract specification**: the tables when evidence is applied by one atomic step at a time | `CampaignPolicy` |
| `CampaignEngine` | the campaign workers: partitions, offsets, advisory lock, transaction, crashes, rebalances; **implements `CampaignLedger`** | `CampaignLedger` |
| `Outbox` | outbox rows and dispatchers | |
| `Notifications` | subscriptions, deliveries and both tasks of the notification worker | |
| `FeatureEngine` | `FeatureWindowEngine` as operators: windows, watermarks, revisions, restore | |
| `FeatureWindows` | one engine that ingests signals in any order | `FeatureEngine` |
| `FeatureWorker` | the stream worker: batches, signals, persist, cache, publish, checkpoints, commits, crashes | `FeatureWindows` |
| `Ingestion` | an ingestor: provider, guardrails, claim, quality, publication | |
| `Persistence` | persistence and archive workers | |
| `VersionHistory` | **abstract specification**: the versions of a document and which is current | |
| `Verification` | connector with circuit breaker, disclosure versions, verdicts; **implements `VersionHistory`** | `VersionHistory` (INSTANCE) |
| `ReplaySessions` | a replay session, its operator and its control workers | |
| `Narratives` | graph workers on two topics, narratives and their revisions | |
| `Detection` | the intelligence worker from input to commit | |
| `ThreatFeed` | polls, observations, matches, watermark | |
| `EvidenceLedger` | alert events and evidence workers of one alert | |
| `Investigations` | the analysts' desk: versioned updates and decisions | |
| `SourcePolicies` | the policies of one source over time | |
| `Realtime` | gateway, bounded stream and one client | |
| `RateLimiter` | the bucket of one client, called by several hosts | |
| `ModelGovernance` | calibrations, champion and promotion requests | |
| `MCFeeds`, `MCServices` | parts checked side by side (below) | the modules above |
| `CampaignProofs` | theorems about `CampaignLedger` and `CampaignEngine` | TLAPS |
| `FeedsProofs` | theorems about `Ingestion`, `Persistence`, `Verification`, `ReplaySessions` | TLAPS, `SetLemmas` |
| `IntelligenceProofs` | theorems about `Detection`, `Narratives`, `ThreatFeed`, `EvidenceLedger` | TLAPS, `SetLemmas` |
| `ServicesProofs` | theorems about `CampaignLifecycle`, `Investigations`, `SourcePolicies`, `Realtime`, `RateLimiter`, `ModelGovernance` | TLAPS, `SetLemmas` |
| `FeatureProofs` | theorems about `FeatureWindows` and `FeatureWorker` | TLAPS, `SetLemmas` |
| `OutboxProofs`, `NotificationsProofs` | theorems about the module they extend | TLAPS |
| `SetLemmas` | least and greatest elements of sets of numbers | TLAPS |
| other `MC*` | instances for TLC | |

### CampaignPolicy and CampaignLifecycle

Scores are integers in thousandths, so a threshold of the code (0.35) is an
exact comparison (350). A detector output that is absent is `None`, and
Python's `x or 0.0` is `OrZero`. `FusionResult` keeps the one relation between
its fields the stage rules depend on: `fuse()` caps the severity at WATCH
without a market score of 0.35. The 0.30/0.70 mean of the social risk is an
integer division, which rounds down and so never changes a comparison with a
threshold. `Assess` is the whole of `assess()`: next stage, validation, alerts;
a rejected score sets `rejected`, the exception that would make the worker read
the same record for ever.

### CampaignLedger

A table is a function from row identities to rows or `None`. Campaign and alert
ids are UUIDv5 of the creating evidence, so campaigns are indexed by the id of
that evidence and alerts by campaign and alert type, which is also their unique
key. The three branches of `apply()` after the SELECT are `RecordStale`,
`UpdateCampaign` and `CreateCampaign` (which closes the campaign whose merge gap
has elapsed in the same transaction); each writes campaign, evidence, stage
history, alerts and the batch of outbox events. Event time and evidence cutoff
are both the window end, as the detection service sets them. `AcknowledgeAlert`
is the analyst's route: it raises the version and enqueues nothing. Left out
because nothing in the model reads them: `alert_state_history`, alert actions,
the audit log, fingerprints, stage confidence and reasons.

### CampaignEngine

`apply()` is split where another process can come between: the lock attempts
(`TryLock`, `LockBusy`, `LockTimeout`), the SELECT (`SelectDuplicate`,
`SelectCampaign`) and the write with its commit (`CommitTransaction`), then the
offset (`CommitOffset`). The advisory lock belongs to the transaction, so a
commit, a rollback or a crash frees it. The broker is external: records of a
partition in order, a committed offset, an owner; a rebalance gives a partition
to another worker while the old one still holds a record, and the coordinator
rejects the commit of a worker that is no longer the owner (a worker that lost
the partition and got it back may commit late). The partial unique index on
active campaigns is deliberately not in the model: the lock alone must suffice.

### Outbox

`Claim` is `pending()`: one transaction over the oldest claimable rows, at most
`Limit`. `Publish` and `PublishFails` are the Kafka transaction, which may be
committed although the call raised. Marks are unconditional updates by id, as in
the code, so a late worker may overwrite the mark of another. Time is the flag
`expired`: a claim nobody holds expires by itself, a claim somebody holds
expires at the cost of one of the bounded failures.

### Notifications

`Enqueue` and `CommitOffset` are the consumer task, `ClaimDue`, `Send` or
`SendFails`, `Finalize` or `FinalizeRaises` the delivery task. `since` remembers
the subscriptions at the time an event was published, which is what
`CommittedIsEnqueued` is about; `sent` counts what reached the channel. The
backoff is the flag `due`. A crash ends both tasks, as a raising task of the
`TaskGroup` does; nothing of what was claimed is given back.

### FeatureEngine and FeatureWindows

Every table of the engine is keyed by scope and asset and no operation reads
across keys, so the model has one of each. The state is what `export_state`
writes (the signal log) and what is rebuilt from it: newest event time and state
per source, revisions per window. The numbers that `_compute_features` returns
are replaced by what they are computed from: the signals of the window, the
signals before it (trailing volumes, count of prior windows, first posts of the
authors) and the states of the sources. Two revisions with equal inputs have
equal features. `Ingest` is the whole of `ingest()` for a new signal: event time,
source state, the idle marks that `watermarks()` sets as a side effect, the
revision of the window of the signal in each interval, the rebuilt later windows
and the windows that the watermark has passed. No window is revised twice in one
call (`Eligible` excludes `Touched`), because a rebuilt window past the watermark
is final already. `Returned` is the list that is returned, in its order (`ReturnedBefore`),
which decides what Redis shows last. What is true of an engine is an operator on its
state (`RevisionsAreCurrent`, `FinalWhenPassed`, ...), because there is one engine in
`FeatureWindows` and in `FeatureWorker` there are two: the one in memory and the one a
restore of the checkpoint would build.

### FeatureWorker

The worker is single-threaded, so its steps end at the effects that outlive a
crash: reading a batch, the social halves in Redis, each row, cache entry and
event of each revision, each checkpoint and each commit. A batch is any set of
next records that fits `BatchSize`, sorted by event time as `batches()` does. A sorted
list is written as the element of a set of lists with that property (`Sorted`, `Returned`):
a theorem can then use the property without an induction over a sorting function.
`LatestByPartition` is the dictionary of `run()`: its record for a partition is the
last one in that order, which may have a lower offset than another of the batch.
`ProcessEvent` reads the source health when it makes the signals, and
whatever the health is then goes into the quality signal; the second and third
reading of one record may differ. The newest checkpoint row is the only one that
`latest()` returns, so the table is one variable. The row `asset_baselines` is
left out (no code of the worker reads it back), and so are checksums.

### Ingestion

One process polls a source (`source` is chosen at the start: the market and the
social ingestor differ in the page they take, newest or oldest items above the
cursor). Cursor, page and quality tracker are process memory and are lost in a
crash; claims, stream and latest value are not. `Ingest` is split where the code
awaits: `Claim`, `Observe`, `PublishItem`, `SetLatest`, `SetHealth`; a refused item
(`Skip`) is dropped before it is claimed. `IngestFails` is the handler that
releases the claim. The failure count of the live providers' circuit breaker
never reaches its threshold, because a failed poll raises out of `stream()` and
ends the process; so the breaker never opens there and is not in this module.
A poll of Mastodon by `since_id` returns the newest forty items: with more than
that since the last poll, the older ones are passed over, which is what `full`
in `PassedOverNeedsAFullPage` stands for. `bounded_batches` keeps the order and
what it buffers dies with the process as the page does, so items are taken one
by one. `IngestionInv` is `LossNeedsACrash`, `CopiesNeedAFault` and
`BookNeedsTwoCleanUpdates`.

### Persistence

The halves of a post are on two topics under one key. The worker of a half
caches it and stores the post only if it finds the other; checkpoint and commit
follow. Archive files are written in place and an existing file is never written
again, so a crash in the middle leaves a cut off file: `CheckpointedIsStored`
counts those against the crashes.

### Verification and VersionHistory

`StartRun` to `FinishRun` are `_run_policy` for one policy: the request under the previous
checkpoint (answered 304 when its etag still matches; etags are hashes of the content
here, so a source that goes back to an old content gets its old etag), one transaction per
document (`BeginPersist` samples the time and reads the latest version under the
document's lock, `CommitPersist` writes), and the run row with the next checkpoint, which
keeps the previous one after any error. The circuit breaker is a variable of this module:
it lives in the worker, opens after `FailureThreshold` failures and lets a probe through
when its recovery time has elapsed. The connectors modelled are those with an etag (feeds,
GitHub releases): a failed request ends the run as FAILED or, after the retries of a 429,
RATE_LIMITED; both keep the checkpoint. `SecEdgarConnector` is left out: its checkpoint is
also a list of the documents it has seen, and it ends a run at `max_documents_per_run`.
`Verdict` is the decision of `TimeBoundedClaimVerifier` for an alert time: documents
available by then, conflict before support, coverage by fresh complete runs, and the
verdicts that a later document gives (`SUPPORTED_AFTER_ALERT` is returned also if the
later document only contradicts). Similarity of texts is the relation `Content`.
Disclosures that arrive on the topic `disclosures.documents.v1` are left out: no code
under `src/` publishes to it. `ImplementsHistory` is the refinement to `VersionHistory`;
`DisclosuresInv` is `CheckpointIsStored` and `NoHindsight`. One connector worker writes
the history here; the advisory lock, held from the read to the commit, is folded into the
transaction, so nothing is shown about two workers of one source.

### ReplaySessions

The operator's routes lock the row; the control worker finds a QUEUED session,
looks again under the lock (`Startable`), and then runs without looking at the
row until `FinishSession`. A pause of a running session therefore does not stop
it, and a restart adds a second run that shares the dedupe claims of the first.
`BeginRun` commits RUNNING, `Connect` is the connection to the broker after it, outside the
`try` block: `ConnectFails`, `FinishFails` (the last status cannot be written) and
`RunnerDies` leave the session RUNNING and are remembered in `abandoned`; `BeginFails` rolls
back to QUEUED, and `RunFails` is the handler that writes FAILED.

### Narratives

Snapshots of two window lengths arrive on two topics, and a worker per topic clusters the
posts stored by then. `PersistGraph` is the whole transaction of
`SqlNarrativeRepository.persist`; a broken unique constraint rolls it back and ends the
worker; `unaccepted` keeps the names of the constraints that were broken. Two can be:
`uq_narrative_revision_number` (other members under a number the narrative has) and
`uq_outbox_event_topic` (the same members under the same number, which give the same event
id: both windows cluster the same posts at the same feature revision). Embeddings and
coherence gates are abstracted to themes: posts of one theme form one cluster.
`dominant_narrative_id` of the campaign is left out. `NarrativesInv` is
`CommittedIsGraphed` and `NarrativeIsItsRevision`.

### Detection

A score is identified by its input and by the threat context at the moment of
the first read; `PersistScore` inserts it unless the row exists, and only a new row
is published. The context may change between two attempts. `DetectionInv` is
`LostScoreNeedsACrash` and `SecondScoreNeedsBoth`.

### ThreatFeed

`FetchPulses`, `IngestPulses`, `Backfill`, `UpdateFeedStatus` are `poll_once`. That
the provider returns the newest pulses first is assumed of it (external). A
quiet poll stores no watermark, so the next one asks for everything again.
The newest pulse of an empty poll does not exist; `NewestModified` is only asked of
a poll that fetched something. `Backfilled` is the query of `backfill_recent_matches`: the
newest fetched observations since the watermark, at most `MaxBackfill` (1000 in the code);
among those of one poll, which are fetched in one instant here, any may be left out.
`ThreatFeedInv` is `PassedOverNeedsTruncation` and `MissedMatchNeedsNewerPulses`.

### EvidenceLedger, Investigations, SourcePolicies

`capture_alert` is split into reading the alert, linking to the newest snapshot,
and storing; alert events may be published late, twice and out of order, which
is how a failed outbox event behaves. Updates of an investigation are one
transaction under its row lock; decisions on feedback and proposals are split
between the unlocked read and the write. Only the decision on a proposal writes an audit
record. A request on source policies is split at its awaits: a creation reads the clock
(`AskForPolicy`), waits for the advisory lock and runs the overlap query (`CheckOverlap`),
and commits (`CreatePolicy`); a patch reads the clock behind its row lock (`LockForPatch`) and
commits later (`PatchPolicy`); each may fail in between (`RollBack`). Time passes at every
await, and neither lock excludes the other.

### Realtime, RateLimiter

An entry's identifier is its position. `Subscribe` makes the only comparison
with the oldest entry, `ReadStream` and `SendEntry` follow. `overrun` and `unread`
record why an entry was passed over without a reset. The bucket's script is one
atomic step with the caller's clock, true time minus `Lag[h]`. `admitted[t]` counts
what was admitted by the end of tick `t`, so an interval is a difference of two.
`AdmissionIsBounded` holds if `ForgettingIsSafe`: Redis deletes an idle bucket after
`TimeToLive`, about twice the time that fills it, and a new bucket is full. Two requests of
hosts whose clocks differ can take a bucket down by the skew before that. With a capacity
of 2, a refill of 3 and a skew of 1 the time to live is 1 and twelve requests are admitted
by tick 2, one more than the bound; the shipped settings (300 tokens, 5 per second) keep
a bucket for 120 seconds and are safe up to a skew of 60 seconds.

### ModelGovernance

A promotion request reads candidate, calibration, champion and evidence in
statements of their own and writes at the end; the alias may also be set by hand,
without any check. A tolerated Brier difference may add up over a chain of
promotions, and the two calibrations that are compared may be of different
segments: the property only compares what the code compares.

### MCFeeds and MCServices

The parts share no state in these instances, so the initial state chooses one
part and only it moves (`Step(p, A)`); each is explored exactly as if it were
alone, by one run. Choices that another part makes in its initial state are
fixed. Fairness is that of the part's own steps.

## Runs

| Run | Instance | Checks |
|---|---|---|
| `ledger` | 3 evidence events of one key, 4 times around a gap of 3 and a suppression of 2, 2 feature revisions, 3 scores | `LedgerInv`, `OneActiveCampaign`, `NotifiedSeverityIsCurrent`, `AppliedForward` |
| `engine` | 2 workers, 2 partitions, 2 keys, 2 events, 2 failures, 1 lock retry | `CommittedIsRecorded`, `ImplementsLedger`, `EveryScoreRecorded` |
| `outbox` | 3 dispatchers, 2 events, 3 attempts, 2 failures | `OutboxInv`, `EventuallyOnTopic` |
| `notifications` | 2 workers, 2 channels, 2 attempts, 2 failures, 1 crash | `CommittedIsEnqueued`, `OneSender`, `LedgerIsTrue`, `OnlyTheStrandedWait` |
| `notifications_crash` | one crash | `EveryDeliveryEnds` is **violated** |
| `feature_windows` | 7 signals of both sources in all orders, event times 0 to 7, intervals 2 and 4, lateness 1, idle after 5 | `LatestIsCurrent`, `FinalityInv` |
| `feature_worker` | 2 market records out of order on their partition, a social pair on two topics, healthy and degraded readings, batches up to 2, 1 crash | `StoreInv`, `CommittedIsCheckpointed`, `CaughtUpInv` |
| `feature_worker_identity` | the same, batches up to 4, 1 crash | `RevisionIdentityIsStable` is **violated** |
| `feeds` | ingestion: 5 items, pages of 3, 2 faults; persistence: 3 records, 2 crashes; verification: 1 document, times 0 to 2, 1 trouble; replay: 2 workers, 2 events, 4 commands, 2 failures | `IngestionInv`, `PassedOverNeedsAFullPage`, `CheckpointedIsStored`, `DisclosuresInv`, `VerdictsAreReproducible`, `CompletedIsWhole`, `ImplementsHistory`, `SourceIsCaughtUp`, `QueuedReplayEnds` |
| `services` | lifecycle: all scores at both sides of each threshold; narratives: 2 posts, 2 windows, 2 revisions; detection: 3 inputs, 2 context changes, 2 crashes; threat feed: 2 pulses, polls of 1, backfills of 1; evidence: 2 workers, 3 versions, 2 upsets; desk: 2 analysts; policies: 2 requests at a time, 3 policies over times 0 to 2; realtime: 5 alerts, stream of 2; bucket: 2 hosts, skew 1; governance: 2 artifacts, 2 approvers | `StagesInv`, `StagesAreAlerted`, `NarrativesInv`, `DetectionInv`, `ThreatFeedInv`, `EventsAreEvidenced`, `ChainIsInOrder`, `NoUpdateIsLost`, `SecondDecisionNeedsARace`, `SilentGapNeedsAnOverrun`, `AdmissionIsBounded`, `PastPoliciesAreFixed`, `RegressionNeedsAnOverlap` |
| `source_policies` | 1 request at a time, 4 policies over times 0 to 3 | `PoliciesGiveWay` is **violated** |
| `narrative_revisions` | 2 posts of one theme, 2 windows | `RevisionsAreAccepted` is **violated** |

Several properties are conjunctions of named parts, so that one run can check them
together: `LedgerInv` (types, campaigns separated, stage history a path, cooldown
respected, alert versions increasing), `OutboxInv` (published is on the topic, copies are
paid, claims are exclusive), `FinalityInv` (passed is final, final never reopens, lateness
honoured), `StoreInv` (no gaps, published is stored), `CaughtUpInv` (rows cover every
signal, the cache shows what was last computed), `StagesInv` (never rejected, a dump has
its build-up). Type invariants that only a proof uses are in the proof modules.

**Bounds.** Three evidence events are enough for a campaign to be created,
updated or found stale, and replaced; times 0, 1, 3, 7 lie below, at and above
both the suppression window and the merge gap. Two failures allow a rebalance
away from a worker and back, which is the case in which a late commit is
accepted, and a claim that is taken over twice. Two attempts are the least that
have both a retry and a terminal failure. The signals of `feature_windows`
include a late one for a final window, a degraded and a recovered source and a
source more than the idle limit behind the other. In `feature_worker` a batch
holds the two market records out of order or records of two topics, the social
pair is of an older window, which the later market record makes final or, if that record was
taken while the source was degraded, the quality signal after it: in that case an older window
is what Redis shows in the end. The crash hits records that were published and not
checkpointed; sources have reported their health once (`Reporting`), and every later reading
is healthy or degraded. The proofs remove the bounds of the modules they are about.

In `feeds`, five items and pages of three give a full page and one after it; two faults
allow a release of a claim after a crash; three times give a document before, at and after
the alert and a run that has become stale; four commands give a start, a pause, a second
start and a second pause; two failures let both workers leave a session. In `services`,
one record per poll truncates a poll of two pulses, and a backfill of one leaves out an
observation when two are due; two requests on source policies are the least that overlap,
and two ticks pass between a clock reading and its commit; a stream of two entries is
overrun by five alerts while a client holds one read; two approvers are the least that can
overlap, and two artifacts the least with a champion to compare with; a skew of one tick
with two hosts makes the refill negative; two context changes let the same input be scored
without the feed, with it, and with one more match, and two crashes make it be read three
times.

`CHECK_DEADLOCK FALSE` is set where a finite set of events is used up and the
system then waits.

**Symmetry** of event ids is used in the safety run `ledger` only: no definition
compares them in any other way than for equality, and `CHOOSE` is applied to a set
of at most one element (`OneActiveCampaign`).

**Fairness.** A worker that can take a step eventually takes one: workers are
loops around awaits and are restarted when they end. Time passes: claims nobody
holds expire, backoffs end and a circuit's recovery time elapses. Nothing is
assumed about publications of new scores, subscriptions, acknowledgements,
operators, sources, crashes or failures; failures are bounded by named
constants, because a system that fails for ever makes no progress. `outbox` takes
fewer failures than attempts: ten failures of one row exhaust it, and the code
then leaves it alone. `SourceIsCaughtUp` is about a source that stops changing,
which the bounded clock forces; `QueuedReplayEnds` excludes sessions that a worker has
abandoned: it died, could not connect to the broker or could not write the last status. They
stay RUNNING until an operator pauses and restarts them.

**Findings.** `notifications_crash`: the claim is committed as PROCESSING before
the network call, and `_claim_due` looks only at PENDING and RETRY. A worker that
dies in between strands the delivery, while the checkpoint document says that
every outcome is recorded and that failures become terminal after five attempts.
`OnlyTheStrandedWait` shows that nothing else keeps a delivery from its end.

`feature_worker_identity`: a feature event is identified by window and revision
number. Revisions are published before the checkpoint, and after a crash the
engine counts them again from the checkpoint while the records come in batches of
another composition; the same identity is then published with other features.
`docs/implementation/phases-2-5.md` calls derived-event identities stable. What
does hold is `DurableCatchesUp`, a part of `CaughtUpInv`: the durable history ends with
a revision that covers every signal (`DurableCatchesUpTheorem`). That needs the source health
to be in Redis, because the quality signal that follows each record lifts the replayed
revision above the stored ones; with `Reporting = {}` TLC finds a last row that lacks a signal.

`source_policies`: `create_source_policy` refuses a policy that overlaps another
and refers the caller to PATCH; `patch_source_policy` inserts the replacement
without that query. TLC's shortest run creates the policies [0,1) and [1,2) and patches the
first at time 0: the first becomes [0,0), and its replacement, which starts at 0, runs to 2 or
beyond and is still in force when the second begins. `PastPoliciesAreFixed` holds
nevertheless.

`narrative_revisions`: the number of a narrative revision is the revision of the
feature window, which windows of 60 and 300 seconds count separately, and its
identity is its members. TLC's run stores two posts of one theme; revision 1 of the
300-second window stores the members {1, 2} as revision 1, and revision 1 of the 60-second
window then brings the members {1} under the same number, which breaks
`uq_narrative_revision_number`; the worker that reads the snapshot again fails again. (If both
windows hold the same posts, it is the event id that is taken, and `uq_outbox_event_topic`
refuses the transaction; the property is only about the first constraint.)

Other behaviours the models show without contradicting a document: a score
whose worker dies between insert and publication is never published
(`DetectionInv` counts them), an item whose ingestor dies after the claim is refused
for a day (`IngestionInv`), a threat feed poll that was cut off never asks for the
rest, and a backfill of more observations than its limit leaves matches out
(`ThreatFeedInv`), a clock that is behind takes tokens away and the next host
refills the same seconds again (`AdmissionIsBounded` has the skew in its bound). A policy that
is committed late was not in force for what was judged since its request read the clock
(`PastPoliciesAreFixed` speaks of the times before that). A replay session whose worker cannot
connect to the broker stays RUNNING (`QueuedReplayEnds`). Redis may end at an older window that
became final (`CaughtUpInv`). Two decisions on one piece of feedback leave no trace of the first
(`SecondDecisionNeedsARace`). An older snapshot that is stored behind a newer one leaves a
narrative with the members of the one and the revision of the other (`NarrativesInv` excludes
that order). Seen in the code and not modelled: the SEC connector stores the new etag also when
`max_documents_per_run` cut the run off, so the rest waits until the list changes.

## Proofs

All theorems hold for every value of the constants under the named assumptions
of the modules: bounds are naturals, sets of items are finite where they are counted,
`PartitionOf` is a function, and the values that stand for nothing (`None`, `Nothing`,
`Missing`, `Nobody`) are not rows (in the code they are `None`, which is no row by its type).

Every safety invariant and every action property of a passing run is a theorem; so are
both refinements. Each inductive invariant was an invariant of a TLC run before it was
proved. One theorem has hypotheses besides the assumptions of its module: `CaughtUpInv`
needs two about the inputs, which `FeatureWorker` names and `MCFeatureWorker` states as
an `ASSUME`, so that the run shows they can be met; the health readings are not restricted.

### CampaignProofs

`LedgerInvTheorem`, `NotifiedSeverityIsCurrentTheorem` and `AppliedForwardTheorem` rest
on `LInv`. That campaigns of a key lie more than the merge gap apart is not inductive:
`RowInv` adds that a campaign's evidence is not older than the row that created it and
that its two clocks (`last_evidence_at` and the first component of `last_applied`, which
the code keeps apart) agree; `ActiveInv` that a key with a campaign has an active
one, and that this one began more than the gap after the last evidence of every closed
one. `AlertRowInv` bounds the notification time of an alert by its campaign's
clock and `EventInv` bounds the outbox events by the alert's row; so evidence is newer than
everything notified before it, which is what the cooldown and the growing versions need.

For the workers the inductive invariant `EInv` is the conjunction of `TypeInv`;
`TopicInv` (what is on a topic was published under its id); `RecordInv` (a busy worker
holds a record of its partition); `LockInv` (the lock of a key is held exactly by the
worker inside the transaction of that key); `CampaignInv` (a campaign exists only if the
evidence it is named after is recorded); `OneActiveCampaign` and `SelectionIsFresh`. One
active campaign is not inductive alone: that the create branch adds the only active
one needs the selection to be fresh, which needs that nobody else writes the key between
the SELECT and the commit, which is the lock. From `EInv` follow
`OneActiveCampaignTheorem`, `SelectionIsFreshTheorem`, `EvidenceRowsAreFinalTheorem` and
the refinement `ImplementsLedgerTheorem`: `CommitTransaction` is an `Apply` step because
`active[w]` equals `SelectActive`; every other step leaves the tables alone or is
`PublishScore` or `AcknowledgeAlert`. Through the refinement the theorems of the ledger
hold of the tables the workers share: `EngineNotifiedSeverity`.
`CommittedIsRecordedTheorem` needs `OffsetInv` besides: a record in flight has every earlier
record of its partition behind it, and of what the owner of a partition has read only
the record it works on may lack its row. The committed offset may be ahead of the position
after a late commit, so the two are not ordered by the invariant.

### FeedsProofs

*Ingestion.* `IngestionInvTheorem` counts the copies of one item (`CopiesInv`): a copy
needs a free claim, and only a failure or an expiry frees one that was used.
`ItemInv` holds the claim from the claim on, `BookInv` ties the state of the book to
the number of clean updates. `PassedOverTheorem` needs that the ranks of the items are a
numbering of them (`RankGrows` and what follows it): a page that is not full
holds everything above the cursor.

*Persistence.* `CheckpointedIsStoredTheorem`: `HalvesInv` keeps each half in the cache from
its record on, and `PostInv` says which of the two workers still will store a post that is
complete, namely the one that came second. `ArchiveInv` pays for each torn file with a
crash; it needs that a torn file's record is behind the open one or is read again.

*Verification.* `DisclosuresInvTheorem` and `VerdictsAreReproducibleTheorem` from `VInv`:
`PublishedInv` follows a content from the site through the batch and the transaction to
the versions, `BatchInv` says where a document that was served is until the checkpoint,
and `VerdictInv` that what is still to be stored is available only after the alert of a
verdict that raced with no transaction. `ImplementsHistoryTheorem` is the refinement of
`VersionHistory`: `CommitPersist` is an append or a stutter, because a content that equals
the latest version is not written (`TransactionInv`).

*ReplaySessions.* `CompletedIsWholeTheorem` from `BehindRunner` (the claims of the events a
run has passed are held) and `OneRun` (without a pause of a running session there is one
run, and the session is RUNNING while it works).

### IntelligenceProofs

*Detection.* `DetectionInvTheorem`: the scores that were made, not published and are not in
the worker's hand are at most the crashes (`LossInv`); the rows are at most the consumed
inputs, the crashes and the new row in hand (`RowsInv`); a second score of an
input needs a context that changed, so a score names a state the feed has been in
(`ContextInv`), and the states are counted.

*Narratives.* `NarrativesInvTheorem`: `ReaderInv` (what a worker is about to commit is
graphed, or had no post), `GraphInv` and `CurrentInv` (a narrative cites a revision whose
graph is stored, so a snapshot in order has no lower revision than any it overwrites).

*ThreatFeed.* `ThreatFeedInvTheorem`: a pulse nobody observed is newer than the watermark
unless a poll was cut off (`UnobservedInv`); a pulse that is modified during a poll
is modified after everything the poll saw (`WatermarkInv`); and a match that a backfill leaves
out belongs to an observation that at least `MaxBackfill` others are as new as, which stays so
because pulses are only observed later (`CrowdedOut`).

*EvidenceLedger.* `EventsAreEvidencedTheorem` and `ChainIsInOrderTheorem`: a worker reads the
alert after its event was raised, so it captures no older version (`CaptureInv`); until
two workers overlap, the snapshot about to be stored is newer than all there are and is
linked to the newest (`LinkInv`).

### ServicesProofs

*CampaignLifecycle.* The stage rules never leave the transition table
(`NeverRejectedTheorem`), by cases over the current stage; the story of the stages
(`DumpHasBuildUpTheorem`, `StagesAreAlertedTheorem`) by an invariant that ties the current
stage to the visited stages and the raised alerts; and `NeverRewoundTheorem`.
`StagesInvTheorem` puts the first two together as the run checks them.

*Investigations.* `NoUpdateIsLost` needs `SeenIsPast`, that a copy an analyst holds is of an
earlier version or is the row itself; then a request whose version matches is based
on the row. `SecondDecisionNeedsARace` needs `RequestsInv`: while nobody raced, at most one
request is open and the review is undecided.

*SourcePolicies.* `PastPoliciesAreFixed` from `PoliciesIInv`: what a request will write starts
no earlier than the clock it read, and the policy it is to end was in force or to come then and
is in no other request's hands, which is what the row lock is for (`RequestsHoldInv`). A
creation (`CreateEffect`) and a patch (`PatchEffect`) then change nothing at earlier times. That
policies give way to the next one is not a theorem, see the finding.

*Realtime.* `SilentGapTheorem`: each entry up to the last one sent is received,
announced, unread, or between two things the client compared (`CursorInv`, `FromNowInv`);
the entries of a read follow on each other (`BatchInv`), and those between the last one in
hand and the oldest of the stream are the overrun (`OverrunInv`).

*RateLimiter.* `AdmissionIsBoundedTheorem`: `BalanceInv` bounds what was admitted since a
tick together with what the bucket holds, by the clock of the last request. Across a
deletion the bucket must have refilled what it admitted, which is `ForgettingIsSafe`; the
first attempt to prove the bound without it failed and TLC then gave the counterexample
quoted above. A client that comes back through a slow clock takes tokens away, which the
`MaxSkew` of the bound repays.

*ModelGovernance.* `RegressionNeedsAnOverlapTheorem`: what a request has read is still so
when it decides, for every approver outside `disturbed` (`StillSo`).

### OutboxProofs, NotificationsProofs

`OutboxProofs`: `MarkInv` ties a dispatcher's phase to its batch (one about to
mark an event published has published it); `PaidInv` says that the copies of an
event and the dispatchers that may still add one are together at most its
attempts, which is what makes `CopiesArePaid` inductive.
`OutboxInvTheorem` is the conjunction the run checks.

`NotificationsProofs`: `ClaimInv` (claims are disjoint and PROCESSING),
`AttemptInv` (a claimed delivery that was not sent yet has an attempt to spare;
DELIVERED was sent) and `ConsumerInv` (an event that was enqueued or committed
has all its deliveries), from which the four theorems follow.

### FeatureProofs

*The engine.* `EngineTypeOK`, `LatestIsCurrent`, `PassedIsFinal`,
`FinalNeverReopens` and `LatenessHonoured` for any signals, intervals, lateness
and idle limit. Their conjunction `EInv` is inductive. `WindowStep` says what `Ingest`
does to a single window: one more revision, which is `NewSnapshot`, if the window is
`Touched` or `Eligible`, and nothing otherwise; each invariant has a lemma for its
step, window by window. For `LatestIsCurrent` the window that is left alone must not
start after the one of the signal, hence the signal is neither in it nor before it
(`FloorBounds`). `PassedIsFinal` holds although watermarks may move back, because a revised
window past the watermark is final by `NewSnapshot` and any other one is `Eligible`.

*The worker.* `StoreInvTheorem` and `CommittedIsCheckpointedTheorem` from `WInv`, for any
records and partitions, batches of any composition, changing readings of the health
and any number of crashes. `RestoreInv` says that a restore of the engine's own log would
give the engine (`RestartLosesNoRevision`) and that the engine restored from the checkpoint
has the checkpoint as its log; a crash therefore returns to a state the engine was in. It is
inductive by one fact about `restore_state`, that a log with one signal more is replayed as
the log and then that signal (`RestoredAppend`); that a replay exists and that two replays
agree are shown at the shortest prefix where they would not. `RowsInv` says that only a
window with a snapshot in hand is ahead of its rows, by one, and that the engine of the
checkpoint never is: hence rows without gaps, and announcements of rows that are stored.
`LogInv` says that a record taken from the batch is in the engine or about to be, and that
its half is in Redis, so whichever half of a pair comes last completes it
(`PairCompleted`). The proof uses of the batch only that its lists are listings of their
sets (`ListOfASet`, an injection between sets of one size), so neither the order by event
time nor the offset that stands for a partition matters to it. `RestartKeepsFinality` carries
`LatestIsCurrent` and `FinalityInv` to the engine inside the worker.

*The caught-up worker, rows.* `DurableCatchesUpTheorem` assumes that a key names one event
(`KeysIdentifyEvents`; a mention and its post share it by design) and that every domain
has reported its health (`EverySourceReports`). It is a counting argument, because
`Persist` ignores a number that is stored already, and a replay numbers again. `CountInv`
says how many revisions a window got since the checkpoint: one for each new signal of it,
one for each new earlier signal once it exists, and at most one more, the one that made it
final. There is no second, since the batch is in the order of event times (`OrderInv`) and
what is left of it is then past the window. `LastRowInv` says the same of the last row, whose
engine may be gone: its number is at most what its own signals account for, and one more
only if it has whole records. Records enter the log whole (`OriginInv`), each with a
quality signal, so a row that lacks something lacks at least two ids; a caught-up
engine would then have counted further than the row, and `RowsInv` says it has not.

*The caught-up worker, Redis.* `CaughtUpTheorem` needs nothing more. What `Ingest` returns
ends, for each interval, with the newest window or with an older one that it made final
(`ShownLast`): rebuilt windows follow the window of a late signal in their order, and windows
the watermark has passed come after both. `ShowInv` says that for each interval the last entry
of `pending`, or Redis if none is pending, is the last revision of such a window
(`EndsCurrent`), unless part of a record is still missing from the log (`Behind`); and that an
engine ahead of its checkpoint or a pending write means the checkpoint misses something, so no
crash takes the last writes away: the record is read again. That Redis ends at the newest
window is not true: a quality signal that lifts a degradation advances the watermark and
writes an older, now final, window over the newest one, and without the last conjunct's second
disjunct TLC finds that run.

Some invariants are proved and no longer part of a run, which has a bounded
number of properties: `NeverRewound`, `SelectionIsFresh`, `EvidenceRowsAreFinal`,
`OutcomeIsFinal` and the type invariants.

### What stays with TLC

Liveness under fairness (`EveryScoreRecorded`, `EventuallyOnTopic`,
`OnlyTheStrandedWait`, `SourceIsCaughtUp`, `QueuedReplayEnds`), which is outside the prover's
reach. The properties of the runs that expect a violation are false.

Where an argument needed induction over numbers, the least or the greatest element of a set
took its place (`SetLemmas`, from well-founded orders and finite sets): pages, cursors,
chains, replays.

## Next

1. Theorems of the parts carried to their compositions.
2. Composition through shared topics: `Ingestion` with `FeatureWorker` through the
   source health, `Detection` with `CampaignLedger` through score events,
   `EvidenceLedger` with `Outbox`.
3. Service keys: `rotate_service_key` locks account and then key, while
   `revoke_service_key` locks both through a join; PostgreSQL breaks a deadlock with an
   error to one caller.

## Not modelled

Authentication (`security/auth.py`, `api/routes/auth.py`): token cryptography is a
library and permission checks are pure. Formatting of notifications and
explanations, signatures and hashing, network clients, the dashboard and
read-only routes have no state of their own. Detector arithmetic, evaluation
statistics, calibration curves and clustering work on floating-point vectors;
what the rest of the system reads of them is an input. Shadow scores, watchlists,
the projections to Neo4j and Qdrant, the explainability worker, migrations and
the path of the rate limiter without Redis are left out: nothing modelled reads
what they write. The in-memory repositories are test doubles.
