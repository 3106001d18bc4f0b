# TailView: a verification development

TailView is a FastAPI backend with an APScheduler, a PostgreSQL database and a
React client. It copies a tailnet's inventory, policy and flow logs into its
own tables, derives findings from them, delivers notifications, evaluates the
policy, and produces reports. Several backend instances may share one database.
What is hard in it is seldom one computation but the way its tasks and requests
meet in the database: advisory locks that are only tried, sessions that hold
stale rows, several commits per task, and processes that stop between two of
them. This directory models those parts in TLA+, checks them with TLC and proves
with TLAPS what matters most.

All paths below are relative to `src/`; `app/` stands for `backend/app/`.

## Inventory

| Component | Code | State it keeps | Operations | What is hard | Modules |
|---|---|---|---|---|---|
| Synchronization engine | `app/sync.py`, `app/operations.py` (`instrument_job`), `app/main.py` | `sync_jobs`, `capabilities`, `operational_job_runs`, `operational_job_states`, advisory locks | scheduled, manual and start-up execution of a source; record of its result | try-locks held by pinned connections; cancellation, crashes, leaked connections; results attributed by "the newest row" | `JobLedger`, `SourceSync` |
| Durable findings | `app/findings.py`, `app/api.py` | `findings`, `finding_transitions`, queued deliveries | evaluate; acknowledge, reopen, suppress, unsuppress, assign | requests overlap an evaluation without a lock; only changed columns are written; incomplete sources | `FindingLifecycle` |
| Notification outbox | `app/findings.py` (`deliver_notifications`), `app/api.py` | `notification_deliveries`, `notification_endpoints` | queue, deliver, retry, give up, enable, disable | crash between answer and commit; rows marked but not committed; the identity map keeps old endpoints | `NotificationOutbox` |
| Report runs and schedules | `app/reporting.py`, `app/api.py` | `report_runs`, `report_schedules`, artifacts | enqueue, generate, recover, retry, clean up | one cycle per fleet; recovery by timeout; requests that overlap a cycle | `ReportRuns` |
| Saved views, local metadata | `app/saved_views.py`, `app/api.py` | `saved_views`, defaults, `local_metadata`, its events | create, clone, update, delete with an expected revision | check and write are not atomic; reports cite revisions | `SharedEdits` |
| Flow aggregation and raw-flow cleanup | `app/reporting.py` | `flow_aggregates`, coverage, `flows` | rebuild overlapping buckets, delete raw rows | coverage claimed against coverage built; unaligned cutoffs | `FlowAggregation` |
| Flow and audit ingestion | `app/sync.py` (`sync_logs`), `app/addresses.py` | `flows`, `audit_events` | fetch a window, insert what is new | fixed window, late records | `UpstreamMirror`, `FlowAggregation` |
| Inventory workers | `app/sync.py` | users, devices, routes, posture, invites; services, streams, listings | one worker per source | joins between sources refreshed at different times; two workers write one row; partial failures | `DeviceInventory`, `UpstreamMirror` |
| Policy snapshots and evaluation | `app/sync.py`, `app/policy.py`, `app/api.py` | `policy_snapshots` | store a snapshot; relationships, exposure review, duplicates, posture | snapshots identified by content; the same rule read by three evaluators | `UpstreamMirror`, `PolicySelectors`, `PolicyDuplicates`, `PostureEvaluation`, `PolicyEvaluation` |
| Operations cleanup | `app/operations.py`, `app/ops_cli.py`, `app/findings.py` | `cleanup_runs`, every table with a retention | delete what is older than its retention | count before and after; a second job without the lock; a crash leaves a running row | `CleanupRuns` |
| Telemetry ingestion | `app/api.py` | `telemetry_observations`, payloads | accept an observation once | deliveries that race each other and the cleanup | `CleanupRuns` |
| Identity and sessions | `app/auth.py`, `app/security.py`, `app/api.py` | accounts, sessions, factors, codes, policy | sign in, enrol, revoke, administer | every request checks, waits, and commits | `Accounts` |
| API lists | `app/api.py` | none | fourteen lists, page by page | the table changes between two pages | `KeysetPages` |
| Tailscale client | `app/tailscale.py` | token cache | GET with retries, concurrent calls | a token that ends during the retries | `TailscaleClient` |
| Demo data, client, deployment, schema | `app/demo.py`, `frontend/`, `deploy/`, `app/models.py`, ... | none of their own | | not modelled | |

How they interact: the scheduler of each backend starts the synchronization
jobs, the evaluator, the delivery worker, the reporting cycle and the cleanups;
each takes its own advisory lock (the findings cleanup takes none) and
communicates with the others only through committed rows. The engine writes
`sync_jobs` and `capabilities`; the workers it runs write the inventory, the
policy and the flows; the evaluator reads all of these (a failed source makes
its findings stale) and writes findings and outbox rows in one transaction; the
delivery worker posts the rows; the reporting cycle reads views, schedules and
aggregates; users and administrators change rows at any time. That is why each
component has a module of its own, and what one reads of another enters its
module as an input: the outcome of a worker in the engine, the evaluator's
signals and complete sources, the outbox's new rows, the coverage in the
cleanup. Where the interaction itself is the hazard the modules are composed:
`ReportRuns` extends `SharedEdits`, `FlowAggregation` has ingestion, aggregation
and cleanup, `CleanupRuns` all jobs that delete, `DeviceInventory` the workers
that meet on one device.

The hazards that follow from this, each at its line and with the properties that
cover it, are listed in `PROJECT.json`.

## Modules

A common form: a task or a request is a sequence of steps, each what it does
between two commits, or between a commit and an upstream call. A session is the
rows it has loaded; a commit writes the columns that differ from what was
loaded, which is how two sessions can each overwrite a part of a row. Some
modules choose one of several scenarios in their initial state, a set of
operations and a starting table that can meet, instead of a run for each.

### JobLedger, SourceSync (MCSourceSync, MCSourceSyncFleet)

`JobLedger` is the abstract specification of the engine: per source a list of
executions that only grows. An execution opens when no other one of its source
is open, and ends once: closed (its result is recorded) or abandoned (its task
is gone).

| State of `SourceSync` | Code |
|---|---|
| `lock[s]` | the advisory lock of a source, held by a task's pinned connection |
| `jobs[s]` | the `sync_jobs` rows of the kind; the last one is the newest by `started_at` |
| `capability[s]` | `capabilities.status` and `last_success`, the latter as the job that set it |
| `opRuns[s]`, `opState[s]` | what `instrument_job` records |
| `live`, `stops` | the processes; a stopping one has left the lifespan's `yield` and cancels its tasks |
| `pc`, `plan`, `previous`, `run`, `job`, `pending`, `raised`, `verdict` | a task's locals: where it is, the sources it still has, and what its session will commit |

`Launch`, `Shutdown` and `Stop` are the lifespan and the end of a process.
`Begin`, `FinalRead` and `FinalCommit` are `instrument_job`, split where other
tasks can come between. `TryLock`, `InsertJob`, `OpenClient`, `WorkerSucceeds`,
`WorkerEnds`, `Close` and `Unlock` are `_run_source`, `sync_policy` and
`sync_logs`; where the three differ (which exceptions are handled, whether the
capability is committed with the result, whether the client is opened inside the
`try`) the difference is a disjunct. `CancelWork`, `CancelElsewhere` and
`CancelInstrument` are a cancellation at each kind of `await`. `Reclaim` is
SQLAlchemy's pool closing a connection whose task left it behind.

### FindingLifecycle (MCFindingLifecycle)

The evaluator and the administrators as sessions over READ COMMITTED
transactions: `loaded` is a row as it was read, `flushed` what a transaction
has written and not committed, `Update` the UPDATE of the changed columns.
`collect_findings` is abstracted to a severity per fingerprint and a set of
complete sources. A finding's transitions (`trail`) are abstracted to the status the
last one ended in, whether each one started where the one before it ended, and whether
the finding `raced`: a session wrote a transition after another one had changed the
status it had loaded. `FindingInv` excepts findings that raced and no others: requests,
lapsed suppressions and escalations before, between and even during evaluations are
checked as long as none of them writes over a status it has not seen.

### NotificationOutbox (MCNotificationOutbox)

The delivery worker, the queue and the endpoints. Time is the wait of a row,
`next_attempt - now`, which `Tick` lets shrink; overdue rows keep their order.
`cached` is the session's identity map (an endpoint is not read again while the
session holds it), `cancelled` the rows that are marked in memory only.
`accepted` and `doubt` are what the receivers know: posts they answered 2xx, and
those of them whose answer the worker never recorded.

### FlowAggregation (MCFlowAggregation)

The hourly and daily aggregates, the ingestion they follow and the cleanup that
deletes raw flows. Time is counted in hours; a flow is the hour it starts in and a
bucket the flows it counts, so `stored[g]` is what the aggregates of granularity `g`
count. An aggregation is one transaction of many statements: `Begin` takes the lock
and reads the clock and the earliest flow, `Build` is the INSERT of one hour,
`NextGranularity` goes on to the daily buckets, `Commit` replaces the range and
moves the coverage. A cleanup reads the clock and the coverage (`CleanBegin`) and
deletes later (`CleanCommit`); it holds another lock, so both overlap.

`RetentionInv` and `CountedIsKept` hold under the conditions of `Margins`, which the
constants of `FlowRetention` meet: lateness and pauses together stay within the
overlap, and the raw retention spans the overlap, one more bucket and the time an
aggregation takes. The first is not guaranteed by the code (`FlowGap`, whose
constants violate it); the second holds by default (7 days against 2), but `flow_retention_days` has no lower bound (`app/config.py:40`), and with 1
or 2 days a daily bucket is rebuilt from what is left of its raw rows.

### DeviceInventory (MCDeviceInventory)

The workers of users, devices, routes, posture and device invites. Each is one
task (the engine sees to that), but devices and routes write the same row and
every worker joins with what another one stored. `node`, `account`, `attribute`
and `invites` are upstream; `device`, `user`, `posture`, `invite` the tables;
`loaded`, `listed`, `answer` and `todo` what a worker holds. A worker loads, asks, and
commits: posture and invites device by device, the others once. `WorkerFails` is a
request that fails, an exception or the end of the process.

`history[d]` is what the `inventory_changed` events say of each tracked field, read as
the API reads them, by `occurred_at`. A worker stamps its events before it flushes. The
devices worker does so under the row locks of its bulk UPDATE, so its stamp and its
commit are one step; the routes worker stamps with its last answer (`FetchRoutes`) and
may then wait for those locks. `newer[d]` has the fields that a devices worker changed
in between: their events have later stamps, so an event of the routes worker that
commits after them (`RecordChanges`) is not the newest, and the field is `misdated`
until another event changes it. `overtaken` has the devices whose row a routes worker
committed over a newer listing.

### UpstreamMirror (MCUpstreamMirror)

The sources whose rows only their own worker writes: services and their
endpoints (from two requests that may disagree), log streaming (a commit per
type), the policy and its snapshots, the logs, and the listings that replace a
table. A behaviour has one source; upstream changes at any time.

### SharedEdits and ReportRuns (MCReportRuns)

`SharedEdits` has the requests over saved views, the default view and the local
metadata of a device: a request loads what it checks (`request[c]`), then
commits. `seen[c]` is the revision the browser was shown last, which it sends
back. `raced` names the views on which two updates of one revision were both
committed: the code's check is not atomic, and only two requests inside each
other's window pass it.

`ReportRuns` extends it with schedules over those views, the cycle (lock,
recovery of stale runs, schedules, queue, at most `MaxConcurrent` generations
that the cycle waits for), manual runs, retries, the cleanup of old runs and
crashes. `task` holds the generations, which go on after their cycle has lost
its lock to a failed read (`GetFails`). `since` and `occurrences` are the history of a
schedule.

### Accounts (MCAccounts)

Requests over accounts, sessions, factors, codes and the policy. A request
authenticates (`auth.py`, which commits `last_seen` and leaves the user and the
session as loaded), loads what else it needs, and commits what it changed.
`miscounted` marks an administrator who went by a count that was out of date,
`crossed` the users whose factor two overlapping requests changed.

### CleanupRuns (MCCleanupRuns)

`run_cleanup` of the scheduled jobs and of administrators under one lock, the
findings job without it, and telemetry. `rows` maps `<<kind, id>>` to the time its retention
counts from; a run counts what is due, deletes table by table, counts again and
records the difference. `covered`, whether aggregates cover the cutoff, is free
here and defined in `FlowAggregation`.

### PolicySelectors, PolicyEvaluation, PostureEvaluation, PolicyDuplicates (MCPolicyEvaluation)

Pure algorithms as operators, each with a small specification in which an input is
chosen and evaluated once. `PolicySelectors` has the expansion of selectors,
`evaluate_policy` and the exposure review; `PolicyEvaluation` states what a rule means
without the order of evaluation (`Stands`; `Reached`, the smallest set that has the
members of its groups; `Meaning`) and compares relationships against meaning and the
review against the relationships. `PostureEvaluation` has postures with their
conditions, defaults and expiries, and compares what a device is told with what its
evidence allows. `PolicyDuplicates` removes the duplicates of a whole policy: values are
scalars, lists and objects nested at most `Depth` deep, keys are in the order of the
canonical JSON (so equal values are equal JSON), and a finding is the index of the entry
that is removed. It compares a candidate with itself, cleaned a second time, and with its
source: `Content` reads the lists of a value as sets and its objects as they are.

`expand_selector` calls itself for the members of a group and would not return for a
group that contains itself: `GroupsEnd`, a part of `PolicyAssumption`, excludes it.
The same assumption says that no login, tag, group or host is written with a wildcard
port at its end (`"with :*"` stands for such a name, see `Glued`).

### KeysetPages

The fourteen lists of the API that hand out cursors: how each is sorted, what its cursor
remembers, how it compares, and how rows of it come, go and move while a client reads
page after page.

### TailscaleClient

The client of one run: the cached token, the retry loop of each call, calls that
run at the same time and the closing of the client. It signs in with OAuth; a client
with a static `api_token` sends that and fetches no token, and is left out. Time is in steps of thirty
seconds. `MCReads` joins it to the modules above: five independent parts, of which
the one that `part` names runs in a behaviour.

### Mutated operators

Next to an operator stands, where a property needs it, a mutated form of it
(`TryLockIgnored`, `ReclaimUnpinned`, `DueDelivered`, ...): a bug that could
plausibly be made in that code. `PROJECT.json` pairs each with the property that
breaks when it takes the operator's place, which shows that no property holds by
the shape of its model. No specification uses them.

## Runs

| Run | What it shows |
|---|---|
| `SourceSyncFleet` | one backend schedules `devices`, a request to the other runs it too, with failures, a shutdown, a crash and a process that primes the database anew; or both prime an empty database at once while tasks and requests run. Executions never overlap, history is final, the records say what happened (`RecordsAreTrue`: finished jobs have results, the capability shows the newest verdict, a `lock_skipped` run did no work), and `SourceSync` implements `JobLedger` |
| `SourceSyncSingle` | one backend without manual requests runs `sync_policy` and `sync_logs`: operational runs name their own jobs and count their failures (`HistoryIsOwn`); locks are released and jobs closed (`EngineRecovers`) |
| `OutboxDelivery` | two workers, two endpoints, an administrator, a crash: one sender, bounded retries, staleness limited to a batch (`OutboxInv`), at-least-once delivery, final answers and an end for every row while a batch covers the due rows (`DeliveriesSettle`) |
| `Findings` | two evaluators without administrators, or one with overlapping requests: one evaluation at a time, transitions that form a chain and a `resolved_at` that agrees with the status, unless the finding raced (`FindingInv`), only a complete evaluation resolves, notifications are transactional, and evaluation converges |
| `FlowRetention` | late flows, overlapping and failing aggregations and cleanups: no raw flow is deleted before both granularities count it, coverage says what is counted (`RetentionInv`), no rebuild loses a flow |
| `FlowGap` (violation) | after a pause longer than the overlap the hours between are never aggregated, and their raw flows are deleted all the same |
| `Devices` | the workers of one device in four families: roles agree with the listing and routes they were computed from, the history shows the device but for misdated fields (`DeviceInv`) and is a chain until a row is overtaken, a fresh invite was confirmed, and the inventory catches up |
| `Mirror` | every other worker against an upstream that changes and fails: the current snapshot is the newest policy until it returns to an earlier text, no gap in the logs within the window (`MirrorInv`), and the rows catch up |
| `Reports` | eleven scenarios of editors, schedules, cycles, retries, cleanup and a crash: metadata events form a chain, the limit holds, a revision cited by a run pins its filters (`EditInv`); a generation is not disturbed and no occurrence is lost or doubled (`RunsInv`); no edit is overwritten unseen; finished runs are immutable; the cycles catch up |
| `Accounts` | nine scenarios of overlapping requests: an administrator remains and nobody is asked for a credential he lacks (`AccountInv`), a revoked session stays revoked, a new policy reaches the sessions that exist |
| `Reads` | policies and posture inputs against their reference definitions; a cleaned candidate has no duplicates left, was counted as changed if it was, and loses nothing (`CandidateInv`); every list read page by page; two concurrent calls with a token that ends (`ClientInv`: a first attempt never uses a dead token, a source is shown as denied only if it is, a gather that returned is whole) |
| `Cleanup` | three cleaners, the findings job and telemetry, one stop halfway: one cleanup at a time, a success claims no more than it deleted, a body is stored once (`CleanupInv`), only what is due goes, and it goes in the end |

Several invariants are conjunctions of named parts, each with its own comment in
the module; a conjunction is one check of one run.

**Bounds.**

- `SourceSync`: `FleetInit` separates the fleet whose processes stop from the one in
  which both start at once, for together they are too many states. `MaxJobs` and `MaxRuns` are 2: an execution that meets the
  remains of an earlier one; the properties relate a job to at most its
  predecessor. `MaxStops` 1: one process that dies (with its locks) or shuts
  down. Three tasks on one source are enough for a holder, a task that is
  refused and one that takes over.
- `NotificationOutbox`: one endpoint is enabled at first, which one makes no
  difference (`OneEnabled`); two rows per batch and two rows let one row be committed
  with, or behind, another; `Retries` 1 has all three kinds of attempt (first,
  retry, last); `MaxWait` 1 and `MaxLate` 1 give due, overdue and not yet due
  rows, and the assumption on `MaxDeliveries` makes `MaxLate` large enough to keep
  every order of overdue rows.
- `FindingLifecycle`: two findings of two sources let one source be incomplete
  while the other is complete; two changes of signals, two administrator actions
  and one crash let each meet an evaluation.
- `FlowAggregation`: a day has two hours, the overlap is two hours and the raw
  retention four, the least that satisfies the conditions above; six hours
  (`Horizon`) let the first flows be deleted, and hourly buckets expire, while
  late ones are still aggregated. `Delay`, `Pause` and `Length` bound how late a
  flow is, how long no aggregation succeeds and how long one takes; `FlowGap` has
  no late flow and a pause of three hours.
- `DeviceInventory`: one device, for devices do not interact; two users with one
  login, which is what a re-created user looks like; one change upstream and one
  failure, each of which can fall between any two steps of two workers. Four
  families of workers, the pairs that share rows or join.
- `UpstreamMirror`: `Window` 3 and `Horizon` 5 let a pause stay within the window
  and exceed it; `Delay` 1; three changes bring a policy back to its first text;
  two failures. Two ports and two hosts of one service, two log types, two items.
- `ReportRuns`: three view ids, two browsers; one schedule of `Period` 2 over at
  most four time units, so two occurrences and a late cycle; `Timeout` 1 is
  shorter than a generation can last and `Retention` 1 shorter than the horizon;
  two generations at once; one fault. `Limit` 1 puts every creation at the limit.
- `Accounts`: two users, two browsers and three to five requests, the least in
  which two requests overlap and a third sees what they left.
- `CleanupRuns`: two scheduled cleaners and a manual one, one findings job, two
  deliveries of one body, three days with a retention of one, one stop. What a
  successful run deleted is forgotten when it unlocks.
- Policies: three devices, rules with one or two selectors on each side out of
  every kind, groups that name groups; `FindingLimit` 4 stands for 500, `Large` 2
  and `Larger` 4 for 10 and 25 pairs.
- Documents: two scalars, lists of up to two entries out of scalars, lists and objects,
  and lists of two such lists: equal entries at once, entries that are equal only once
  they are cleaned, and duplicates inside of an entry that is dropped. One documented
  section, one that is not.
- Pages: one row per page, three rows with keys that tie, two changes. One key stands for
  a name that `casefold()` and `lower()` treat differently.
- Client: two calls, tokens of one and two minutes, three attempts for four, two
  minutes.

**Fairness.** `SourceSync`: every await of a task ends (HTTP requests have
timeouts, advisory locks are only tried, PostgreSQL answers) and the pool
reclaims connections that were left behind; no fairness of starting
anything is assumed. `NotificationOutbox`: time passes, the 30-second schedule
keeps firing, every await ends. `FindingLifecycle`: the five-minute schedule keeps
firing, its queries end, and a request that was begun is committed.
`DeviceInventory` and `UpstreamMirror`: every source stays scheduled and its
requests end. `ReportRuns`: the thirty-second cycle keeps firing, generations end,
time passes. `CleanupRuns`: the daily jobs keep firing, what runs goes on, time passes.
Nothing is assumed of signals, users, administrators, crashes, endpoints or
upstream; failures are bounded where a liveness property is checked, since with an
endless series of them nothing catches up. `FlowAggregation`, `Accounts` and the
parts of `Reads` state safety only and assume no fairness.

Deadlock is checked in every run but three. In `SourceSync`, `Rest` is the only
step that does nothing, taken when no task runs; elsewhere a worker can always be
scheduled. `Reports` and `Accounts` end when their requests are spent, and a
behaviour of `Reads` ends with its one evaluation, list or gather.

## Disagreements with the documentation, and exceptions

`FlowGap` states what `docs/ARCHITECTURE.md` says and shows a behaviour of the code
that does otherwise; `PROJECT.json` quotes the lines.

Where a property needed an exception to hold, the exception is named in it. They
are behaviours of the code a maintainer should know of:

- `app/operations.py:141`: `instrument_job` takes the newest job of its kind for
  its own. With two backends, a run that only found the lock held can be recorded as the
  success of the other's job; `HistoryIsOwn` is therefore checked for one backend.
- `app/sync.py:1344`: `sync_policy` may finish a job whose result still says
  "running".
- `app/findings.py:926`: rows of a disabled endpoint are marked in memory and not
  committed when nothing else in the batch is sent; a hundred of them fill the
  batch for good. `DeliveriesSettle` is checked where a batch covers the due rows.
- `app/api.py:4186`: a request that loaded an open finding can
  acknowledge it after an evaluation has resolved it. The finding has then raced: its
  transitions no longer form a chain, and it keeps the `resolved_at` of the resolution.
- `app/findings.py:1010`: `cleanup_findings_job` deletes by the ids it found; a
  finding reopened meanwhile is deleted.
- `app/sync.py:1321`: a policy that returns to an earlier text adds no snapshot,
  so an older policy is shown as current.
- `app/sync.py:747`: routes can compute roles from a listing that devices has
  replaced; the next devices run repairs them.
- `app/sync.py:748`: the routes worker stamps its events before its flush waits for the
  row locks of a devices worker (`app/sync.py:441`), and the history is sorted by these
  stamps (`app/api.py:2448`). Of a field both changed it then ends in the devices
  worker's event, though the row has the routes worker's value, until another event
  changes the field.
- `app/policy.py:721` against `314`: for an ACL destination `x:*` the relationships
  treat the port as a part of the name, the exposure review does not. For a grant to
  `x:443` it is the other way round: the relationships split the port off
  (`app/policy.py:721`), the review expands the whole text (`app/policy.py:402`).
  `ReviewInv` excepts these rules.
- `evaluate_policy` does not read `defaultSrcPosture`; the posture page does.
- `app/api.py:882`: two administrators removed at once can each count the other.
- `app/api.py:725`: a factor disabled and confirmed at once leaves an account
  that must send codes nobody can check.
- `app/api.py:2380`: two updates of one revision inside each other's window are
  both accepted; reports that cite the revision may show two contents.
- `app/operations.py:450`, `app/reporting.py:1142`: the failure handlers read an
  id that their own rollback has expired, so "failed" is seldom written; recovery by
  timeout (reports) or by retention (cleanups) ends the row.
- `app/api.py:1757`: an update of a schedule writes the columns that differ from what
  it loaded. Of two that overlap on a schedule disabled for a lost view (which keeps
  its next time) one can enable it and the other clear the time: it is enabled and
  never due (`app/reporting.py:1242`).
- `app/operations.py:439`: for findings and flows a cleanup may count what another
  job deleted.
- Lists by name (`app/api.py:828`, `2071`, `2795`, `4891`) sort by SQL `lower()` and
  compare by `casefold()`: names where they differ may be skipped or repeated.
- `app/tailscale.py:82`: the token is taken once before the attempts, so a call that
  waits can end as 401, shown as permission denied. The request for the token is
  not retried, and its transport errors are not wrapped; `int()` fails on a
  `Retry-After` that is a date.

## Proofs

Every theorem speaks of all values of the constants that the named assumptions of
the module allow; TLC evaluates these assumptions in the runs. An invariant that a
run checks is proved from an inductive one, `IInv`, that TLC checked before. What
`IInv` adds is the argument, so it is what is described here.

### The engine

`SourceSyncProofs` proves, for any numbers of instances, tasks and sources, any
plans and any bounds:

- `TypeCorrect`: `Spec => []TypeOK`;
- `Invariance`: `Spec => []IInv`;
- `MutualExclusion`: `Spec => []OneTaskPerSource`;
- `NewestJob`: `Spec => []OpenJobIsNewest`;
- `FinalHistory`: `Spec => HistoryIsFinal`.

They rest on `ConstantsAssumption` and `NobodyAssumption`, which TLC evaluates in
both runs of the engine. `OneTaskPerSource` is not inductive: it says nothing of who holds the
lock, so a second task could take it. `IInv` adds `LockIsHeld` (a task between
`lock_job` and `unlock_job` holds the lock of its source) and `OpenJobIsNewest`,
which needs it: only because no other task is critical for the source does its
newest row stay the task's own. The proof has one step per action. `StepAlone` says
that a step leaves the other tasks alone, `LockSteps` and `CriticalSteps` what it
does to the locks and where critical tasks come from, `HistorySteps`, `InsertRows`
and `ResultRows` what it does to the history.

The module also proves `Refinement`, `Spec => LedgerSpec`: the engine
implements `JobLedger` with `Phases` in the place of its ledger (a job is open while
a task works on it, closed when its result is recorded, abandoned otherwise). It
rests on `IInv`: a new job is opened by the holder of the lock, so no other one of
its source is open (`Opens`), and a result goes to the newest job (`Results`).
`Abandons` says that a step that writes no job opens none: a task that works on a
job after it worked on that job before (`NothingOpens`), so executions can only be
abandoned. `OthersKeep` keeps the phases of the other sources.

It proves `TrueRecords`, `Spec => []RecordsAreTrue`. That a
run recorded as `lock_skipped` did no work is a matter of attribution:
`instrument_job` takes the newest job for its own if it is another one than before.
`RunInv` says that a task holds a run of its own that is still "running", that the
runs of two tasks differ, that what it remembers as the previous job is not newer
than the newest one, and that no job names a run that has not begun; so a run that
inserted a job finds it, or a newer one. `ResultInv` says that a job being worked on
has no result before its `finally` block, which of the endings of the code a task is
in afterwards, and that `last_success` names a job with a result. It is what makes
the capability the verdict of the newest job that reached one: the capability
changes together with a result, and a result goes to the newest job. Both rest on
`IInv`. The theorem is about `Init`; the two fleets of `FleetInit` differ from it
only in where a behaviour begins.

`OwnHistory` is `Spec => []HistoryIsOwn` where a source has one task
(`OneTaskOfASource`, as on a single backend after its first start and without manual
requests; with two tasks it is false, see "Disagreements with the documentation, and exceptions"). `instrument_job` takes the
newest job for its own, so the proof follows whose job that is: while a run is under
way it is the newest run of its source and the newest job is either the one it saw
when it began or the next one, its own (`NewestRun`); what its finally block has read
stays true until it commits (`VerdictIsTrue`), for nobody else writes the source.
That a success keeps naming a successful job is `FinalHistory`, step by step
(`KeepsHistory`). `consecutive_failures` is the number of failing runs since the last
success: `CountBegun` and `CountEnded` say what one more run does to that set.

### The outbox

`NotificationOutboxProofs`: `OutboxIsSafe` (`OutboxInv`), `DeliveredAtLeastOnce`
(`AtLeastOnce`) and `FinalAnswersStay`, the first conjunct of `DeliveriesSettle`. A
worker that does anything holds the lock (`LockIsHeld`), so nobody else changes what
it has read. That makes the rows of its batch stay active and different from each
other and from those it has marked (`BatchIsActive`), and so no row is attempted
twice for one answer. Attempts stay within the schedule because only a row with a
retry left is given one (`DraftIsBounded`). For delivery at least once, what
receivers have accepted is counted against what the worker never heard of: an active
row was accepted as often as its answer was lost, and once more while a worker holds
the answer uncommitted (`PostsAreCounted`); a crash turns that once into a doubt. An
endpoint that a session takes for enabled is, or was switched off after its batch
was read (`CacheIsOfBatch`).

### The findings

`FindingLifecycleProofs`: `FindingsAreSound` (`FindingInv`), `OnlyCompleteResolves`
(`ResolvedOnlyWhenComplete`), `OutboxIsExact` (`OutboxIsTransactional`). The
evaluator holds a lock that the administrators do not take, so the argument is what
one session may still believe of a row that another one has changed. What is flushed
belongs to a transaction that is open (`FlushedIsOpen`), whose row locks keep
requests off it. Between the load of a candidate and its flush a request may change
the row, but neither create it, resolve it nor rate it (`LoadedIsNear`). What is
flushed already has the notification its commit will need (`FlushedIsAnnounced`),
and what is flushed as resolved comes from a complete source without a candidate,
which is the second theorem. The loop over the existing findings meets what was
flushed before only as seen (`HandledOnce`). As long as a finding has not raced,
its row, its chain of transitions, and what is loaded and flushed of it agree
(`ChainsAgree`): what a session loaded has the status that is stored when it writes, or
the write is recorded as a race.

### Flows

`FlowAggregationProofs`: `FlowsAreRetained` (`RetentionInv`) and
`RebuildsLoseNothing` (`CountedIsKept`), for any steps, overlaps, retentions and
horizons, assuming `Margins`. The assumption is the condition above, not one the
code guarantees: the theorems say that no interleaving, failure or late record loses
a flow while it is met, and `FlowGap` that one does when it is not. The invariant
follows an aggregation through its transaction: it has built all flows that were
there when it began, from the start of its rebuild to the hour it is at
(`BuildIsComplete`), and what came in since is no older than `Delay`
(`FlowsHaveTheirAge`), so it lies in the overlap of the next one, at most a `Pause`
later (`ClocksAreRecent`). What a cleanup deletes is older than the retention; by
`Margins` that is before the start of every rebuild at work. Both granularities
succeed together (`SuccessIsCommon`), so a cleanup that found one covered found
both. Arithmetic of buckets is in lemmas of its own (`FloorBounds`,
`FloorMonotone`).

### Cleanups

`CleanupRunsProofs`: `CleanupIsSafe` (`CleanupInv`) and `NothingElseGoes`
(`OnlyDueGoes`). That a run reports no more than it deleted is about counts taken at
two times while other jobs insert and delete: what was due at the first and is due
no more, the run has deleted (`DueIsAccounted`), for the kinds whose rows only age.
That a body is stored once needs that as long as it is accepted its observation is
there (`StoredIsThere`): the window of acceptance is no longer than the retention,
an assumption that the code's constants meet. `FoundWasDue` says what the ids of the
findings job still mean when it deletes. A cleanup inserts a record under an id that
is free; that there is one follows from `RecordsAreFew`, a record for each fault and
one for the cleanup at work.

### Accounts

`ApiProofs`: `NobodyIsLockedOut` (`AccountInv`), `RevokedForGood`
(`RevocationIsFinal`), `PolicyReaches` (`PolicyReachesSessions`), for any users,
browsers, sessions and numbers of overlapping requests. `RequestsOK` says what a
request of each kind has loaded, which stays meaningful because accounts and
sessions are never deleted. An administrator remains: of the requests only an update
takes rights away, and where what it loaded is up to date its count says that there
is another one; where it is not, `miscounted` records it. That an account that asks
for a code has a secret is not inductive, for a request that removes the factor
writes only columns that differ from what it loaded: had it loaded an account
without a factor, it would delete the secret and leave `mfa_enabled` alone.
`FactorIsKnown` says that it has loaded the factor if there is one, unless another
request changed it meanwhile (`crossed`). That a revoked session stays revoked holds
because a step touches a session only by an UPDATE of one column (`SessionStep`) and
a new session has an id that none had. The assumption on the scenarios says that an
installation without an administrator has no accounts, which is what `setup_admin`
leaves.

### The client

`UpstreamProofs` proves `ClientCorrect`, `ClientSpec => []ClientInv`, for any
number of calls, attempts and token lifetimes. The property that a first attempt
uses a living token needs three facts of where a token comes from: what the cache
holds may be used for less long than it lives (`CacheIsShort`), an answer arrives
within one step of its question (`FetchIsShort`), and the token of a first attempt
lives now (`FirstIsAlive`, kept by `Pass` because time does not pass during a
request). `ClientAssumption`, that a token lives for a minute at least, is what
makes `CachedFor` shorter than a life. `MovedCall` is the argument for all the steps
of a call, `OtherSteps` for the rest.

### The mirror

`UpstreamProofs` proves `MirrorIsTrue`, `Spec => []MirrorInv`. A known text adds
no snapshot, so that the current one is the newest answer rests on the order of the
snapshots (`SnapshotsAreInOrder`): as long as the policy has not returned, every
snapshot but the last, and every one but an answer not yet stored, is an earlier text,
so an answer that is known can only be the last one. That no log is missed rests on
what a run was told (`ToldLogs`): upstream publishes late, but never later than
`Delay`, so all that was logged before `until - Delay` and within the window is in the
answer, and a run that is not paused reaches back over what the one before it could
not see yet. `ConstantsAssumption` says that `Delay` is within the `Window`, and that
services, log types and items are finitely many, which counts their failed requests.

### The inventory of devices

`UpstreamProofs` proves `DevicesAgree` (`DeviceInv`), `HistoryIsChained`
(`HistoryIsAChain`) and `NoInviteIsInvented` (`FreshInviteIsConfirmed`), for any
devices, nodes, users, attributes and invites, whatever the workers overlap and
wherever they fail. `DeviceIInv` adds that a row that was loaded is still there, for
rows are never deleted (`LoadedIsThere`), and that a routes worker knows only routes
of rows it has loaded and is told nothing but by its own requests (`AnswersOK`). The
argument is in how a commit writes: only columns that differ from what was loaded,
and an event for what changed. A devices worker writes roles and listing at once, a
routes worker roles and routes, so the roles agree with one of the two unless a
listing was committed between the load and the commit, which is what `overtaken`
records; and the history ends in the row because both are written in one commit, but
for the fields in `newer`, whose events have the later stamps. `HistoryIsChained` says
nothing of a row that was overtaken: the routes worker's event then starts from the
values it had loaded. An
invite turns fresh only in `StoreInvites`, from the answer for its device.

### The lists

`ApiProofs` proves `NothingIsSkipped`, `PagesSpec => []PagesAreComplete`, for any
rows, names, page limits and numbers of changes between two pages. `WholeIsShown`
says that of the rows that did not change exactly those were shown that the cursor
has passed, and `ShownIsPassed` that in a list by time a row that was shown stays
passed until it is removed, for it only moves to the top. A page shows the first rows
behind the cursor, so its last row has passed nothing that was not shown: that there
is a last row is the least element of a set of places, and that a short page is the
end is a count of them (`PagesAssumption`: entries are finitely many).

### Policies

`ApiProofs` proves `RulesAreMeant` (`PermitsWhatTheRuleMeans`) and `ReviewIsTrue`
(`ReviewInv`), for any devices, groups, hosts, rules and limits (`PolicyAssumption`:
devices and groups are finitely many, groups end, and of SSH rules and authorities
only that they are sequences). `Expand` is a recursive function, of which nothing is
known before it is shown to exist: groups have a depth (`RankOf`), functions that are
right up to a depth exist for every depth (`ExpansionExists`), and what is right up to
the greatest is right. That an expansion `Says` what the selector means, all of it when
it is complete, then holds for the members of a group before the group (`MembersSay`,
`ExpandSays`): where it failed first it would not fail. Both arguments are inductions
that take the least counterexample (`LeastOf`, from the order of the naturals), since
the library's induction theorems cannot be instantiated here. The same argument gives
what `FlattenSeq` keeps (`ElementsOfAll`), so a review that is not cut has the findings
of every rule (`ReviewHasAll`), and one that permits many pairs is among them, because
the pairs of the relationships are pairs of the review (`PermittedIsReviewed`), unless
the rule is a grant with a port (`Ported`), which the two read differently.

### Duplicates

`ApiProofs` proves `CandidatesAreSound`, `DuplicatesSpec => []CandidateInv`, for any
scalars, keys, documented sections and policies, nested however deep (`DuplicatesAssumption`: a policy is an object
of values that are nested at most `Depth` deep, for any `Depth`). `Nested`,
`Deduplicated` and `Content` are recursive functions; that each exists is proved level by
level (`NestedIs`, `CleaningExists`, `ReadingExists`), with the least counterexample as
above. `IsDeduplicated` is the induction hypothesis (`AllAreDeduplicated`): a cleaned
value is of the same level, cleaning it again copies it, it has a finding exactly when
it differs from the value, and its content is that of the value. Each part needs the
others: that nothing is found in a cleaned list needs that its entries differ and are
clean themselves, and that a list without findings is unchanged needs the same of its
entries. For a list this rests on what `Kept` returns, a flattening: its elements are
those at the kept places, it is the whole list exactly when every place is kept, and it
has no element twice if the kept places have not (`KeptElements`, `KeptWhole`); and on
every value having a first occurrence (`FirstsAre`).

### Posture

`ApiProofs` proves `PostureIsJudged`, `PostureSpec => []PostureInv`, for any postures,
rules, attributes and instants. The parts of a payload are functions of the statuses
of single conditions (`PayloadParts`), and a condition looks at an attribute only if
it is `Usable`, which is what `ShownExpired` denies: the two comparisons with the
clock, in different files, are each other's complement.

### Reports and shared edits

`ReportRunsProofs` proves for any backends, schedules, clients, faults, periods and
scenarios (`EditsAssumption` and `ReportsAssumption`, evaluated by `Reports`):

- `RunsAreSound` (`RunsInv`) and `EndedIsForGood` (`FinishedIsImmutable`). `IInv` says
  that a cycle holds the lock wherever it is (`CyclesOK`), that a generation belongs
  to the cycle that waits for it until a failed read orphans one (`TasksOK`), and that
  the next time of an enabled schedule is a multiple of the period (`RequestsOK`,
  `PlansOK`). The lock is what keeps a run to one worker; that an occurrence is
  neither lost nor doubled is arithmetic (`NextOccurrence`) and what a cycle has
  loaded being what is stored, except for a schedule in `overtaken`.
- `NothingIsOverwrittenBlindly` (`NoBlindOverwrite`). `Edits` says that a revision
  stands for one row: what a client was shown, and what its request has loaded, is
  what is stored or has a lower revision, except for a view in `raced`
  (`ViewsAreRevised`, `MetadataIsRevised`). A commit raises the revision, so a row
  at the revision that was shown is the row that was shown.
- `EditsAreSound` (`EditInv`). The limit holds up to the requests at work since each
  of them counted before it inserted: owned rows and requests that will create are
  counted together (`CountsOK`), and so are the ids that are left and the events.
  `Reports` has the rows and foreign keys, what requests and cycles are about to
  insert (`RequestsWait`, `CyclesWait`), one worker to a run even when orphaned
  (`WorkersOK`), and `CitationsOK`: whatever cites a view, in the table, in a request
  or in a cycle, agrees with the view at its revision and with every other citation.
  It is proved by where a step takes its citations from (`CitationsFrom`): from one
  that was there, or from the view as it is.

**Only model-checked.** Liveness (`EngineRecovers`, `EnabledDeliveryEnds`,
`Converges`, `CatchesUp`, `MirrorCatchesUp`, `CyclesCatchUp`, `DueIsDeleted`), for
TLAPS does not reason about fairness or ENABLED here.

## Plan for later

Every safety invariant and action property that a run checks is a theorem. What remains
is to state, and prove, what single findings of the exposure review say, and to model the
parts that are listed below.

## Not modelled

- What only reads: the summaries, topology and flow graphs, metrics, exports and
  searches of `app/api.py` and `app/operations.py`, and the rendering of reports to CSV
  and PDF in `app/reporting.py`. Each is one query or one pure function of it.
- What a rule of `collect_findings` looks for, the fields of a flow record, of a
  device or of a notification's payload, signatures, and the validation of
  destinations: data that no property tells apart.
- The throttling of sign-in attempts, and the expiry of sessions and challenges by
  time: each is a comparison with the clock inside one request.
- HuJSON is parsed by a library; the diff of two policy texts is presentation.
- SQLite, which the tests use and which has no advisory locks (`lock_job` grants
  every request there).
- `cleanup_reporting_job` is not scheduled by `app/main.py`; `run_cleanup`
  deletes both the raw flows and the old runs.
- `app/demo.py` is static seed data; `app/config.py`, `app/models.py` and `app/db.py`
  are declarations, whose constraints appear in the modules that depend on them;
  the client under `frontend/` renders what the API answers; the scripts under
  `deploy/` back up, restore and validate an installation from outside.
