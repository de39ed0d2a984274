# Verification of EquityEval

EquityEval (the Equity Valuation Workbench) collects SEC filings and market
data, keeps every byte it relied on, and publishes analyses that can be traced
back to that evidence. Its state lives in PostgreSQL; the functions that change
it are defined in `src/infra/migrations/versions/*.py` and called through thin
wrappers in `src/packages/schema`. Workers (operator scripts, there is no
background service) run the pipelines of `src/packages/ingest` and call those
functions under a lease; the calculations of `src/packages/core` turn the saved
evidence into figures. This directory models that system in TLA+, checks it with
TLC on small instances; with TLAPS it proves what matters most of ten parts, for
all instances: the queue, the scheduler, the polls it asks for, the fetch attempts, the
limiter, the watchlist, publication, the market data's accounts, the pipelines and the
evidence store with its reads.

## 1. Inventory

| component | state | operations | talks to | hard behaviours |
|---|---|---|---|---|
| **Workflow queue** (`0002`, `0006`-`0009`, `schema/workflow.py`) | `analysis_request_state`, `analysis_executions`, `analysis_stage_attempts` | enqueue, claim, renew, start/finish stage, typed completions, finish, retry, cancel | every pipeline holds one of its leases | leases expire under a live worker; workers die anywhere; cancellation at any moment; late calls with an old lease |
| **Filing scheduler** (`0010`, `schema/filing_scheduler.py`, `ingest/filing_scheduler.py`) | schedule revisions, slots, `filing_schedule_state`, events | create, revise, tick, the gates on claim and dispatch, the snapshot | enqueues monitor requests, reads their outcome, gates their claims and fetches | clock read before the lock; missed slots; jitter; pause and resume; rolling budget; back-off |
| **Source fetch attempts** (`0003`, `0008`, `schema/ingestion.py`, `ingest/transport.py`) | `source_fetch_attempts`, captures, payloads | prepare, dispatch, headers, payload, finalize, recover; the transport's fetch loop | needs the queue's lease and the limiter's permit, writes the archive | a lease lost between any two steps; recovery racing a late worker; unknown remote outcome |
| **Request limiter** (`ingest/limiter.py`) | one Redis hash and one sorted set | reserve, confirm, cooldown | every transport | permits that expire; lost replies; loss of Redis state |
| **Local archive** (`ingest/archive.py`) | blob files | write, read | transports | crash between write, verification and publication |
| **Watchlist** (`0002`, `0004`) | workspaces, memberships, operation keys | add, remove, idempotent enqueue | creates requests of the queue | two sessions with one key; a lookup that is stale at the commit |
| **Market data** (`0004`, `provider_transport.py`, `provider_store.py`, `market_pipeline.py`, `market_publisher.py`) | policies, the account's attempts, batches | activate, disable, reserve, dispatch, resolve, publish, replay | queue, limiter | a quota counted in concurrent transactions; a policy that ends while a fetch is on its way |
| **Pipelines** (`pipeline.py`, `analysis_pipeline.py`, `publisher.py`) | none of their own | run the stages of one execution, publish a batch | all of the above | a lease that lapses between two stages; one stage of several failing; transactions that wait for each other's rows |
| **Filing monitor** (`monitor_pipeline.py`, `sec_inventory.py`, `filing_monitor.py`) | results of polls, the baseline | assemble an inventory, compare, report | fetches, queue, scheduler | the source changes between two reads of one poll |
| **Publication** (`0011`, `0012`, stores and their pipelines) | reviews, intents, snapshots, results, latest rows | approve, enqueue, freeze, publish, read | runs under the queue's lease | an older publication committing last; a membership removed in between |
| **Evidence store** (`0001`, `schema/pit.py`) | batches, coverage, resolutions, events, revisions | integrity triggers, point-in-time reads | written by publication, read by the calculations | rows added beside the publication of their batch; disowned and superseded filings |
| **Selection** (`market_selection.py`, `vintage.py`) | none | what was known at a cutoff | evidence store | answers out of order, corrections, hindsight |
| **Algorithms** (`packages/core`) | none | periods, metrics, trends, multiples, statuses, history bands, sectors, the reverse solver | fed by the selection | boundaries, gaps, rounding errors, budgets |
| **Normalisers, scripts, API, web** | none | parsing, wiring and display | | |

What makes the components correct:

- *Queue*: one live lease per running execution; history is final; attempts are
  made in order and no more than `max_attempts`; a success rests on the typed
  result of the execution that reports it; every request ends.
- *Scheduler*: every slot index is polled once or recorded as missed; the
  baseline only moves to eligible results and never back; the fetch budget of
  any rolling day holds; back-off cannot be shortened; what the operator is
  shown is what a tick would do; a finished check is reconciled.
- *Fetch attempts*: nothing is sent that is not on record first; an attempt has
  one outcome for ever; a capture is backed by archived bytes.
- *Limiter*: starts keep their distance, whatever is lost.
- *Watchlist*: one request per key, one active membership per stock, and no
  commit on a reading that no longer holds.
- *Market data*: quota and dispatch budget are kept; what was sent is resolved
  and published once; a replay finds the live run's batch.
- *Pipelines*: nobody waits for ever; a batch stands or falls with its stage and
  is called complete only when everything was fetched.
- *Monitor*: every filing is reported once; a poll run again reports the same.
- *Publication*: the latest row shows the newest request's result and never goes
  back; a removed membership gets no result.
- *Evidence and selection*: what is published does not change; what is presented
  as usable is; a read as of an instant uses nothing known later.
- *Algorithms*: an amount measures the period it is named for; no figure hides
  that its sign, its cohort or its freshness is uncertain.

`PROJECT.json` lists the hazards line by line.

## 2. Plan

The modules, most important behaviour first. All are written and checked by TLC;
those with a `...Proofs` module are also proved about (section 5).

1. `RequestLifecycle` (abstract), `Workflow`, `WorkflowProofs`.
2. `FilingScheduler`, on top of `RequestLifecycle`, `FilingProofs`.
3. `RequestLimiter` (proved about in `IngestionProofs`); `SourceFetch`, which uses its
   permits, `SourceFetchProofs`.
4. `Watchlist` (proved about in `TransactionProofs`); `LatestPointer` (abstract) and `Publication`, which
   implements it, `PublicationProofs`.
5. `MarketData`, `MarketDataProofs`; `SourcePipeline`, `IngestionProofs`;
   `FilingMonitor` (proved about in `FilingProofs`): what the pipelines do with the above.
6. `Evidence`, `TransactionProofs`: the store and the reads made from it.
7. The pure calculations on top of `Cases`, composed by `Calculations`:
   `MarketSelection`, `CaptureManifest`, `PeriodAmounts`, `SourceMetrics`,
   `CompanyEvidence`, `HistoryBand`, `Sectors`, `ReverseSolver`; `CalculationProofs`
   about the solver, the reads and two of the others.

Nothing of this plan is left to do. The modules without proofs stay with TLC, for the
reasons in section 5.

## 3. Modules and the code

### `RequestLifecycle`
What the queue promises about one request: absent, queued at attempt 1, running,
possibly the next attempt, finished or cancelled. It has no leases, epochs,
tokens, stages or clocks. `Workflow` implements it (`ImplementsLifecycle`,
theorem `Refinement`), and `FilingScheduler` is built on it
(`RequestsFollowLifecycle`).

### `Workflow`
One action per SECURITY DEFINER function, named as in the SQL. A function is one
transaction on the locked `analysis_request_state` row; a call that raises rolls
back, so the conditions under which it raises are conjuncts of the action.

- `request_state[r]`, `executions[r][n]`, `stage_attempts[r]` are the three
  tables. An execution id is the pair of request and attempt number.
- `issued[r]` keeps every lease ever returned by a claim. The database does not
  store it; it stands for the workers' memory, and lets any old lease be used at
  any later time.
- `lease_left` and `wait` are the time until `lease_expires_at` and
  `available_at`. Only these differences are ever compared.
- `Triggers`: `watchlist_add` and `manual_refresh` are treated alike by the
  queue and are one kind, "analysis".
- The claim loop orders by availability and skips locked rows; in the model any
  due request may come next, which includes every order. The optional request
  argument of a claim is the same choice made by the caller.
- `workflow_complete_bootstrap_stage` and `workflow_complete_monitor` check a
  large amount of evidence (captures, manifests, plans). The model keeps the
  verdict (typed, eligible, incomplete, error) as an input and every check on
  the queue's own rows.
- Left out: the event log (`analysis_events`), `current_stage` (a display copy),
  error texts, and result references other than the verdict.

### `FilingScheduler`
One schedule. `revisions`, `slots`, `state` and `missed` are its tables (the
`missed_range` events are the only events kept); `requests[k]` is the monitor
request of slot `k` as far as the schedule looks at it. A tick is two steps,
`call_tick` and `scheduler_tick`, because it reads the clock before it waits for
the lock. The plan, the anchor, the cadence and `max_attempts` cannot change
between revisions (`scheduler_revise` refuses), so they are constants. The jitter
hash is a constant function: nothing depends on its values. `now` moves through
a finite set of instants; `set_back` counts how often it went back, at most
`MaxSetBacks` times. The budget of a rolling day and the back-off are promised
only while it did not, since both are differences of clock readings.

### `RequestLimiter`
`hash` and `starts` are the two Redis keys; `RESERVE`, `CONFIRM` and `COOLDOWN`
are the three Lua scripts as functions of them, run atomically by `_eval`. A call
is in `calls` from the moment a worker makes it until the server runs it; a worker
that times out stops waiting and the script may still run. `StateLoss` drops
either key. Time is counted in ticks, `Second` of them to a second; only
differences matter. `started`, `cooled` and `lost` record what was promised.
Left out: the answer's remaining wait (a refused worker may ask again at any
time) and the worker's deadline, which only decides whether it asks at all.

### `SourceFetch`
Executions of one request fetch one resource, one after the other; the worker of
an execution that lost its lease may still be running. `pipeline` is which of the
`Pipelines` makes the fetch (the monitor or another, its cache modes) and never
changes. `rows`, `captures` and
`archive` are the attempt table (with the payload table), the capture table and
the files; `worker[e]` holds the local variables of the pipeline step and of
`SecTransport.fetch`, with a program counter that stops before every call to the
database, the limiter, the server or the file system.

- `finish` is one action for `ingestion_finalize` and
  `ingestion_monitor_unchanged`: the branches of `fetch` only decide which outcome
  it is called with and where the fetch goes on. Its guard contains the table's
  CHECKs and triggers (`accepted`); that they never refuse is `NothingRefused`.
- `LeaseLost` is the handler at the end of `fetch`; `dispatch_blocked` the errors
  it does not handle (the schedule's gate).
- The archive writes a temporary file, links it and syncs the directory; a crash
  may lose a link that was not synced.
- Deadlines are a choice at every place where the code looks at the clock. Bodies
  are compared as a whole; a response is its status, its body, whether its
  `Location` is acceptable, whether its headers are, and what
  `retry_after_seconds` makes of `Retry-After`.
- The lease is taken from `Workflow`: at most one execution holds it and a lost
  one never comes back (theorems `OneHolder` and `LostLeases`).
- Left out: timestamps, URL and policy fields, quarantine columns (no caller sets
  them), failures while closing a response, and a second `fetch` with the same
  logical id (no pipeline makes one).

### `Watchlist`
Sessions call `workflow_enqueue` (add, refresh, a second key for the same
content, a replay of a key), `workflow_remove_membership` and the closure of a
quote interval. A transaction is cut where another session can come between: at
the workspace's row lock, at the reads, and at the writes with the commit. A
connection may be lost before or after the commit, and the client calls again.

### `LatestPointer` and `Publication`
`LatestPointer` is a register with a newest request and a displayed one, which
only ever becomes the newest at that moment. `Publication` has the reviews,
intents, frozen snapshots, results and latest rows of fundamentals and of
valuations: the two kinds go through the same functions over their own tables, so
an action carries the kind. Workers stop anywhere, leases lapse, requests are
cancelled and memberships removed between freeze and publish; a key may be
replayed, also to label an ordinary request that was not started. Payloads are
left out. Assumption sets are made before a review and never change, so they are
part of it.

### `MarketData`
Policy revisions that are activated, disabled and run out, the reservation of
dispatches (`account` is the open transaction of the worker that counts), the
dispatch loop, the outcome of each answer, `_fetch_history`'s recovery of the
attempts behind a capture, publication of batches (a bag, so that a duplicate
would show) and replays. The clock is the hour's and the review's. Left out: the
conditional and cached modes, which the market pipeline never asks for.

### `SourcePipeline`
The stages of `run_source_stages` as a bootstrap, alone, as a replay of an archive
and inside an analysis run, each opened in one transaction and closed in a later
one, and `publish_bundle` as one transaction that takes the issuer's lock and then,
row by row and in the code's order, the periods and units which all issuers share.
What a fetch or a parse yields is an input.

### `FilingMonitor`
Polls against an SEC that accepts filings, lists them later, moves them from the
root document to an older one and revises metadata in between. `inventory` and
`comparison` are `sec_inventory.py` and `filing_monitor.py`. A poll's executions
crash anywhere; a saved result is found again by the next.

### `Evidence`
The rows of a batch, its coverage, resolutions, flags, events, scopes and revision
links are inserted by READ COMMITTED sessions; a trigger's checks are the guard of
`Insert` and the row locks it takes are held until the commit. Becoming published
or failed is a row of its own. `read_statement` and
`read_statements` are `pit.py` over one snapshot: which captures
are pinned and fresh, which filings are disowned, which statement is selected and
with which reasons against it.

### The calculations
`Cases` takes up one case (a record of inputs) at a time; the properties are
invariants of the case in hand and compare the translated operator with another
definition of what its result must be: a window of months against the months each
operand covers, a quartile against counts, a sector against its companies, a read
as of an instant against the read with all later evidence removed. Numbers are
integers, ratios pairs, dates months or ticks; decimal contexts and their range
errors are not modelled. `ReverseSolver` runs step by step: regions, the bracket
and the counters of a solve in progress are its state, and an evaluation is any
enclosure within the given slack. The checks by which the code rejects arguments of
the wrong type are preconditions of the cases.

## 4. Runs

`CHECK_DEADLOCK FALSE` is set where the system may stop: when all requests are
terminal and the bounds are used up. A property named below is a conjunction of
the named parts before it in its module, where one is given in brackets; each has
its own comment there. The conjunctions with `TypeOK` hold the module's type
invariant.

| run | instance | question |
|---|---|---|
| `queue` | a bootstrap (2 attempts), a scheduled monitor request (1) and an analysis request (1), leases of a tick, one renewal | `LeaseHasOneHolder`, `LostLeaseStaysLost`, `HistoryIsFinal`, `NoOrphanedStage`: is one lease live, does a lost one stay lost and history stay as it was; `SuccessIsBacked`; `ImplementsLifecycle`; `EveryRequestEnds` although workers die |
| `schedule` | 2 slots, 2 operators, 3 configurations, 2 revisions, a request of 2 attempts, a clock that may go back once | `ScheduleHistory` (slots accounted for, baseline lineage, back-off), `HealthAgreesWithTick`, `StepsAllowed` (latest due slot only, rolling budget, a finished check is reconciled by one tick), `RequestsFollowLifecycle` |
| `limiter` | 3 workers, one with another rate, cooldowns of a second and more, either Redis key lost at any time | `SharedBudgetKept` (starts keep their distance), `WaitsKept` (cooldowns, a quiet second after a loss) |
| `limiter_short` (violation) | a cooldown shorter than a second, state loss | see *Findings* |
| `fetch` | five pipelines: every cache mode with 9 kinds of answers and a damaged earlier file; all three attempts with 4; a monitor whose first execution is lost and taken over, with three answers, with a second attempt, and with a file that is damaged | `EvidenceBacked` (captures have bytes, the result claims no more than the rows), `AttemptsOnRecord` (sent is on record, one observation, none abandoned), `DecisionsAgree` (no call of the holder refused, waits respected), `OutcomeIsFinal` |
| `watchlist` | 2 sessions, 3 keys, 2 quotes, 3 requests | `OneOfEach` (no unique violation, a replay gives the same answer, one active generation), `CommitsAreCurrent` (active membership and open quote at the commit) |
| `publication` | 2 reviews, 3 requests of which one ordinary, 2 workers, 2 attempts | `LatestIsRight` (newest, in its context), `ResultsAreRight` (published once, a valuation has its fundamentals), `RemovedMembershipGetsNoResult`, `LatestRowsImplementPointer` |
| `market` | 2 requests and 2 workers of one account, 2 dispatches, a quota of 3 an hour | `BudgetsKept` (quota, dispatch budget), `FetchesAccounted` (resolved, found by a replay, published once), `SentUnderActivePolicy` |
| `pipelines` | two replays of one issuer, a live run beside another issuer's replay, an analysis beside a bootstrap; one of them disturbed | `NeverStuck` (`NoCircularWait`: no publications wait for each other in a circle; `SomeoneMoves`: some worker can go on), `BatchesWhole` (batch with its stage, complete means whole, no orphan rows, nothing left running) |
| `monitor` | 2 filings, one an amendment, 2 polls of 2 executions, one metadata revision | `ReportsExact` (each reported once, none missed), `PollIsOneRead` (inventory whole, the same result again) |
| `evidence` | 2 sessions that insert 19 kinds of rows of 2 batches in any order, 6 queries | `StoreIsWhole` (published is complete, revisions acyclic), `UsableIsUsable` (not disowned, fresh, of one edition), `PinnedReadsRepeat` |
| `calculations` | about a million cases built from each calculation's boundary values | `ReadsInTime`, `PeriodsMeasure`, `QuotientsCertain`, `StatusesHonest`, `HistoryHonest`, `SectorsHonest`, `SolverSound` |

Why the bounds are enough: a worker's old leases stay in use after it lost them
(`issued`), so one worker id covers any pair of old and new lease; two attempts
give a first, a next and a last one; a lease of one tick expires between any two
calls. Two slots are a failed check and the slot its back-off must delay, or a jump
over one. Three callers of the limiter are two that compete and one with another
rate. Two executions are an old worker and its successor, three attempts a first, a
middle and a last one. Two sessions, workers or issuers are any pair that can come
between one another; three requests of a context are an older, a newer and one that
is not its kind. Two polls are a baseline and a comparison. A day, an hour and a
review are as many ticks as make a boundary fall before, at and after an event.

Besides the constants, these bounds are in the models and not in the code:
`MCWorkflow!TwoRequests` (bootstrap and analysis are not made in one behaviour),
`MCFilingScheduler!OneDisturbance` (concurrent ticks and a clock that goes back are
looked at in the first revision), `MCPublication!FewRequests` (two workers at once,
with at most two requests), `MCRequestLimiter!OneLate`, `AsksAlone` and `EarlyLoss`
(at most one call under way that its worker no longer waits for, the worker that
only asks does so alone, and keys are lost early), and `MaxDisturbed` in `Publication`, `MarketData` and
`SourcePipeline` (how many requests lose a worker or a lease). None of these bounds
limits what section 5 proves: those theorems are about the modules as they are, without
the constraints of the MC modules and for every value of the constants. Symmetry is used only
in runs without liveness properties.

Each property has at least one seeded fault in the module it is about, one for each
part where the parts can be broken apart; with the fault in place TLC finds the
property violated.

### Fairness
Only `Workflow` assumes any: time passes, and someone keeps polling (`TakeUp`), as
the operator scripts do. Nothing is assumed of a worker that holds a lease: it may
die there. Scheduled requests get no fairness, since their schedule may be paused
for ever. Renewals are bounded (`MaxRenewals`) because each pipeline renews a fixed
number of times (`publisher.py:165`, `monitor_pipeline.py:157`,
`valuation_pipeline.py:58`). That a finished check is reconciled is stated of a
single tick and needs no fairness; that pipelines do not wait for each other for
ever is stated as `NeverStuck`: someone who is at work can always take a step.
All other properties are safety properties: a call may stay in flight, and a worker
may stop, for ever.

### Findings
`limiter_short`: the comment at `limiter.py:41` promises a full second without
grants after Redis lost its state. `COOLDOWN` re-creates a lost hash with its own
delay only (`limiter.py:77`), so a cooldown of less than a second (a 503 whose
`Retry-After` date is that close) that arrives before the next reservation ends
the quiet period early. With cooldowns of a second or more the promise holds
(`limiter`).

## 5. Proofs

Each `...Proofs` module extends the module it is about (`FilingProofs`,
`TransactionProofs` and `IngestionProofs` two each, with one invariant per module) and assumes nothing but that
module's ASSUME on its constants: sets, types, positive bounds, and what is named
below. No theorem depends on a bound's value. The argument is the same everywhere: an
inductive invariant `IndInv`, found with TLC's help; one lemma per action that the
action preserves it; `Invariance`, which puts them together; and from it, the
properties the runs check. Action properties follow from `IndInv` in the state
before the step.

| module | theorem: property |
|---|---|
| `WorkflowProofs` | `TypeCorrect`, `StagesEndWithTheirExecution`: `NoOrphanedStage`, `AttemptsInOrder`: `AttemptHistory`, `SuccessBacked`, `OneHolder`: `LeaseHasOneHolder`, `LostLeases`: `LostLeaseStaysLost`, `FinalHistory`: `HistoryIsFinal`, `Refinement`: `ImplementsLifecycle` |
| `FilingProofs` | `HistoryIsTold`: `ScheduleHistory`, `HealthIsTrue`: `HealthAgreesWithTick`, `StepsAreAllowed`: `StepsAllowed`, `Refinement`: `RequestsFollowLifecycle`; of the polls, `ReportsAreExact`: `ReportsExact`, `PollReadsOnce`: `PollIsOneRead` |
| `SourceFetchProofs` | `EvidenceIsBacked`: `EvidenceBacked`, `AttemptsKept`: `AttemptsOnRecord`, `DecisionsRight`: `DecisionsAgree`, `FinalOutcomes`: `OutcomeIsFinal` |
| `TransactionProofs` | of the watchlist, `EachIsOne`: `OneOfEach`, `CommitsCurrent`: `CommitsAreCurrent`; of the evidence, `WhatIsSealed`: `StoreIsWhole`, `UsableIsRight`: `UsableIsUsable`, `ReadsAreRepeatable`: `PinnedReadsRepeat` |
| `PublicationProofs` | `LatestRight`: `LatestIsRight`, `ResultsRight`: `ResultsAreRight`, `RemovedGetsNothing`: `RemovedMembershipGetsNoResult`, `Refinement`: `LatestRowsImplementPointer` |
| `MarketDataProofs` | `BudgetsRight`: `BudgetsKept`, `FetchesRight`: `FetchesAccounted`, `SentRight`: `SentUnderActivePolicy` |
| `IngestionProofs` | of the limiter, `CooldownKept`: `CooldownHonoured`; under `QuietKept`, `BudgetKept`: `SharedBudgetKept`, `WaitsAreKept`: `WaitsKept`; of the pipelines, `WholeBatches`: `BatchesWhole`, `NoDeadlock`: `NoCircularWait` |
| `CalculationProofs` | of the solver, `CertificatesAreTrue`: `SolverSound`; of the reads of evidence, `ReadsAreInTime`: `ReadsInTime`; `StaleForGood` and `ClassifiedAsKnown`: `StaleStays` of `StatusesHonest` and `NoHindsight` of `HistoryHonest` |

### The queue (`WorkflowProofs`)

The properties are not inductive: whether an old lease is refused depends on
what tokens and epochs were handed out before. The inductive invariant `IndInv`
adds to `TypeOK`, per request (`RowsOK`):

- `BlankRows`: nothing exists of a request that was not enqueued;
- `AttemptRows`: the executions before the current one failed, those after it are
  untouched, the current one matches the outcome, and the epoch of an open
  request is the number of its attempt (so an old lease also has an old epoch);
- `TimerRows`: only a running execution has lease time, only a queued one waits,
  only a cancelled one was asked to stop;
- `LeaseRows`: no lease was handed out on an execution no worker claimed, and the
  lease of the running execution was (so the current token is never in an old
  worker's hands);
- `StageRows`, `SuccessRows`: running stages belong to the running execution;
  success is backed.

`NextStep` shows per action that a step from `IndInv` is a `StepOK` step: no lost
lease comes back, finished rows stay, and the step is one of `RequestLifecycle`'s.
The temporal theorems follow with PTL.

### The scheduler (`FilingProofs`)

Assumed: a positive cadence, instants before the end of the last slot, configurations
of their type, finitely many operators' keys. The state row holds a cursor, one
unresolved slot, a baseline and a count of failures, and a tick trusts them. So the
invariant says that they sum up all of the past: `History` (every slot up to the cursor
has a row or is in exactly one range of missed ones; every slot but the one at the
cursor is resolved if it was made; the baseline is the last completed check and each
row names the one it was compared with; the failures are the slots since) and, only
while the clock was never set back, `Timely` (nothing recorded lies in the future, and
each slot waited out the back-off before it). `History` is stated over the four tables as arguments because one
tick makes two changes, first reconciling and then materializing: `Reconciles` and
`Materializes` are proved one after the other within a step. The rolling budget is
a property of the step: a dispatch counts the units of the slots in the window, and
the proof is the arithmetic of that count.

### The polls (`FilingProofs`)

Assumed: finitely many filings, and that `"none"` is no accession. A poll counts what
the SEC says the older document holds, so the argument needs cardinalities.
`MonitorIndInv`: whatever the SEC listed when the root was captured is in the root, or
was in the older document, which loses nothing and so still has it when it is captured
(`Foreseen`); a poll that compares has captured all it asks for (`PollFits`); a saved
result without an error is the one that the captures in hand give (`ResultsAgree`); and
each poll of the chain has a root, beginning with the seed (`ChainGrows`). With these,
an eligible poll selects what the one before it did plus what it reports, and that
gives `ReportedOnce`, `NothingMissed` and `InventoryWhole`. That an execution which
finds a result saved by a crashed one computes the same again (`SameResultAgain`)
follows from `ResultsAgree`.

### The limiter (`IngestionProofs`)

Assumed: a worker's interval is from a tick to a second, and its `MaxStarts` intervals
fill a second. `LimiterInv`: nothing recorded lies in the future (`InThePast`); a hash keeps
every promised cooldown, and lives until its pending permit is confirmed or expired
(`HashHolds`); the starts it did not see lie a second before the end of its block
(`HashQuiet`); if it cannot be lost, it was there before any dispatch
(`DispatchedUnderHash`); starts are spaced (`Spaced`). That a second never holds more
than its share is not part of the invariant: `SpacedAreFew` derives it by counting.

`QuietKept` is the proviso that every cooldown lasts a second or more, or that Redis
never loses the hash. The code keeps it wherever it chooses the cooldown itself
(`provider_transport.py:375`, and `transport.py:652` for a 403 or 429) and not for a
503 with a `Retry-After` of less than a second: this is the finding of
`limiter_short`, and why the proviso cannot be dropped.

### Fetch attempts (`SourceFetchProofs`)

Assumed: what a pipeline may be (a monitor only asks conditionally), and that only a
redirect's `Location` is looked at. The lease and the order of claims carry the
argument: an open attempt is worked on by the execution that prepared it and by no
other as long as that one holds the lease; without the lease its worker can still send,
receive and archive, but no longer record. `IndInv` says of the tables that executions
are claimed in order, a capture belongs to the row that names it, and what was sent is
on record; of each worker (`WorkerFits`), that at the place where it is, its variables
agree with its newest row and its newest file: earlier rows are ones after which a
fetch may go on (`RowsGoOn`), the outcomes it has in mind are those on
record (`Reported`), the row in hand is open and as far as the worker thinks
(`RowInHand`, `HeadersInHand`), the outcome it is about to record is one the triggers
take (`Concluded`), the row behind it allows another attempt (`RowBehind`), and what it
returned leaves out only attempts that are open or were recovered (`Returned`). Of a
monitor it says that the first successful attempt is the only one (`OnePrior`) and that
earlier attempts were closed before a new one is opened (`NoneLeft`). A step of one
worker leaves what is said of the others alone (`OthersFit`): this is proved once and
not per action.

### The watchlist (`TransactionProofs`)

Assumed: `"nobody"` is no session. `IndInv`: who holds a workspace's lock is the one
transaction in its middle (`LockHeld`), the tables are whole, each key is bound to a
request of its content (`KeysBound`), and what a transaction read still holds when it
writes (`ReadHolds`). `ReadHolds` is what the properties need: the uniqueness of a
request and of a membership rests on readings that are older than the commit.

### The evidence store (`TransactionProofs`)

Assumed: finitely many rows may be inserted, and in the tables with an id of their own
no two share it (the primary keys of `0001`); a query pins finitely many batches,
events and flags, names a concept (`pit.py:61` refuses one that does not), and no batch
is NULL; statements read together are finitely many.

`StoreIndInv` is about what sessions see: the committed rows, and these with the rows
of any one open transaction, are each `Consistent`: rows refer to rows that are there,
a batch is published once and is whole, and the revision links have no cycle. An
insert keeps that, because its triggers see the same rows. A commit shows every other
session two sets of new rows at once, and that these can be joined needs the locks: a
transaction holds exactly the locks of the batches it adds to (`LocksHeld`), and none
of them has ended in the committed rows (`StillOpen`), so of a published batch all rows
are on one side (`PublishedUntouched`); and links are on one side, because both would
hold the lock of the issuer's graph. `AcyclicGrows` is the lemma on graphs.

`UsableIsRight` takes a usable statement back through the four stages of the read.
`ReadsAreRepeatable` compares two reads around a commit: as many published batches as
pinned ones means each has ended, so nothing that the commit adds is theirs (`Sealed`);
as many events and flags as pinned ones means that they are the same afterwards; and
scopes come only with their event (`ScopesWithEvent`).

### Publication (`PublicationProofs`)

Assumed: an execution's outcomes are none of the states a request has besides. `IndInv`:
reviews, intents, frozen inputs, results and latest rows refer to one another as the
triggers demand (`ReviewsWhole`, `IntentsWhole`, `PipelineWhole`, `RowsWhole`), a request's
parent is older (`HistoryWhole`) and a worker's job is one that was issued
(`WorkersInformed`). The refinement follows from `RowsWhole`: the row of a context shows
a result only of a request it once held as the newest.

### Market data (`MarketDataProofs`)

Assumed: positive limits. `IndInv` rests on the account's lock, which makes counting and
inserting one step for everyone else (`CountsHold`), and on attempts that stop at the
first success (`AttemptsInOrder`); besides, a fetch has one worker (`OneWorkerEach`), that
worker remembers its attempts truly (`WorkersFit`), only a fetch that began has rows
(`OnlyBegunFetch`), and a batch rests on a resolved fetch (`BatchesSettled`). The
quota and the dispatch budget are then themselves inductive.

### Pipelines (`IngestionProofs`)

Assumed: `"none"` is no request. That a batch stands or falls with its stage
(`BatchWithStage`), claims to be complete only over evidence without a gap
(`CompleteMeansWhole`) and leaves no row behind if it is rolled back (`NoOrphanRows`)
is inductive together with three facts. `RequestsFit`: the rows of a request and its
worker's memory agree, and until the batch is committed the execution has none and
every source stage that did not end well is remembered as a gap. `Opened`: only a
worker who publishes has a transaction, and it holds a prefix of the shared rows.
`BatchesOwned`: a batch is of an execution that has begun, or of a replay. Steps that
touch one request and no batch are proved once (`LocalStep`), steps of a publication
each on their own.

`NoDeadlock` follows from `Opened`: a publication that waits for another, for the
issuer's lock or for a row, holds fewer rows than that one (`WaitsForFurther`); so of
any set of publications the one that holds the most waits for none of them. Nothing is
assumed of how many there are; that every bundle lists its rows in one order is what
carries it.

### The solver (`CalculationProofs`)

Assumed: a domain has a lower bound below its upper one (`SolveSpec`), a curve has a
value at each of its points, kinks lie in it, error bounds and budgets are not negative,
a solve starts with nothing examined, and each calculation's cases are of its own kind. Nothing is assumed of the curve's shape, and nothing of how tight an
enclosure is.

`SearchOK` is the invariant of a search under way. `Sweep`: proofs, the region in hand
and the stack follow one another from left to right, each region properly inside the
domain; this is why the stack takes the cuts in reverse and the right half first.
`Tiled`: together they leave out no place. `Justified`: an excluded region has no root, a
proved one has a single root, which its bracket encloses and which is not at an end of
it. `Refining`: the curve is steep in the region in hand, and has certified opposite
signs at the ends of it and of the bracket. The lemmas below speak of curves only: one of
one sign has no root (`OneSignNoRoot`), a steep one none between ends of one sign
(`SteepNoRoot`) and just one between ends of opposite signs, in whatever bracket has
such ends too (`SteepOneRoot`); and a signed enclosure says what it seems to
(`SignedValue`, `SignedPoint`, `SignedSlope`).

A spent budget keeps the step's region in hand (`SpendOK`) and a failure that of the
next step (`FailOK`), so nothing is lost whenever it comes. At the end, a root lies in
one of the proved regions (`RootSomewhere`), and two of them cannot share one, as their
common end is no root: this makes one proof a unique root and two proofs two roots
(`Verdict`).

### The reads of evidence (`CalculationProofs`)

A calculation is a function of the case in hand, so the invariant is short: a case is one
of its kind (`Kept`), through the solver's steps too, which leave a case of the solver
(`SearchStaysSearch`). The properties are then lemmas about the operators, for every case.

Assumed of market cases: dates and instants are natural numbers, batches and their inputs
finite sets, and a batch's observations lie in its window (the database refuses others,
`0004_market_data_contract.py:690`, as do the parsers). A backward read is a
selection on the last date that may be carried among the batches that reach it
(`Backward`), and a selection is usable only by a batch that answered no earlier than any
other of them (`SelectFacts`, `LatestExists`). So an empty response that is newer and
reaches the date is the one selected, and is not usable (`NewerEmptyBlocksOK`); a batch that
ends before the date is not among those asked (`BackfillIgnoredOK`), and as its
observations lie in its window, it did not set the date either: this is where the
assumption is needed.

Assumed of manifest cases: captures and attempts are finite sets, instants natural
numbers, and every attempt was prepared at one (`prepared_at` is not null). The freshness
boundary is the instant of the success selected or of a 304 about it (`BoundaryIs`): this is
the success that follows each failure in `UnflaggedIsFresh`. An attempt that ended after the
cutoff is of unknown outcome at it, as it was while it ran (`CutoffIsFinalOK`).

Assumed of status cases: dates are integers, sources finite; with no source nothing is
stale. Time takes problems away from an evaluation and adds none, the rest of the status
does not depend on it, and the newest period only grows older, so a stale status is not
left by waiting (`StaleStaysOK`).
Assumed of memberships: an assignment has a sector, and dates are natural numbers.

### Only model-checked

- `EveryRequestEnds`: the prover handles neither fairness nor ENABLED.
- `SourcePipeline`: `SomeoneMoves`, the part of `NeverStuck` that speaks of ENABLED.
- `PeriodsMeasure`, `QuotientsCertain`, `SectorsHonest`, and what `StatusesHonest` says of
  coverage and the review: they speak of sums and counts over sequences, folds whose value
  can be known for every length by induction only.
- `MiddleHalf`, `BandOfOwnPast` and `ChartShowsGaps` of `HistoryHonest`: counting in a
  sorted history, not attempted.
- That the solver ends: its counters are bounded, but an end is liveness.

## 6. Not modelled

- The normalisers (`sec_normalize.py`, `market_normalize.py`, `filing.py`):
  conversions of documents field by field, without state.
- The forward valuation (`evaluate` in `valuation.py`) and decimal rounding: their
  content is the numbers themselves. What the solver makes of evaluations is
  modelled.
- The payload of `fundamentals.py`, `metric_from_calculation`, labels and texts.
- Identifiers of issuers and securities in `0001` and `0004`, and the candidates kept
  beside a resolution: inserted once, referred to by key.
- Clock differences between a worker and the database: `requested_at` is the
  worker's, `prepared_at` the database's, and a worker whose clock is behind is
  refused at dispatch (`0003_source_ingestion.py:73`). Timestamps of attempts are
  not in `SourceFetch`.
- A schedule whose filed window ends while a slot's request is queued
  (`0010_filing_scheduler.py:293`): the request can then never be claimed and only a
  cancellation ends it. `FilingScheduler` has this state; no property forbids it,
  since the code documents the gate and the operator can cancel.
- Scripts, the read API and the web client: wiring and display.
