# Verification of ghes-actions-monitor

TLA+ models of the GitHub Actions monitor in this repository, the TLC runs that
check them and the TLAPS proofs about them. The program keeps a table of the
workflow runs of an organisation, fed by webhook deliveries and by sweeps over
the REST API that overlap them; what makes it hard is that all writers observe
GitHub at different times and write in any order.

## The system

| component | code | state | operations | models |
|---|---|---|---|---|
| workflow_runs table | `internal/store` | one row per run: status, conclusion, updated_at | UpsertWorkflowRun, CloseStaleActiveRuns, QueueDepth, RecentlyActiveRepos, ZombieRuns | `WorkflowRun`, `WorkflowRow`, `RunStore`, `RunBoard` |
| webhook handler | `internal/webhook` | `lastSnapshotMinute` | handleWorkflowRun, maybeSnapshotQueueDepth | `Webhook`, `QueueDepthTrend` |
| poller | `internal/poller/poller.go` | `bootstrapped`; each sweep's locals | Run, RefreshNow, pollWorkflowRuns, pollHistory, pollStaleRuns | `Poller` |
| GitHub REST adapter | `internal/poller/adapter.go` | none | lists, page by page, and single fetches | `GitHubOrg`, `Poller`, `ActiveRunList`, `RunnerSnapshots` |
| queue-depth trend | `internal/store`, `internal/webhook`, `internal/poller` | queue_depth_snapshots | RecordQueueDepthSnapshot | `TrendSeries`, `QueueDepthTrend` |
| runner snapshots | `internal/store`, `internal/poller` | runner_snapshots | pollRunners, LatestRunnerSnapshots | `RunnerSnapshots` |
| rate-limit tracker | `internal/ghclient` | budget, reset, backoff | RoundTrip, wait, RateLimited | `RateLimit` |
| App token transport | `internal/ghclient` | token, expiry, a mutex | installationToken | `AppTransport` |
| database file | `internal/store`, `cmd/server` | the tables and their shape | Open, migrate, collapseLegacyWorkflowRuns, Close | `RunLedger`, `StoreLifecycle` |
| process | `cmd/server` | none | start, signal, drain, exit | `StoreLifecycle`, `Monitor` (restart) |
| GitHub itself | external | runs, deliveries, groups, budgets | trigger, approve, begin, finish, re-run, delete; answer, refuse | `GitHubOrg`, and the external part of each other module |
| JSON API | `internal/api` | none | reads; handleRefresh; handleCancelRun | handleRefresh only |
| configuration, dashboard | `internal/config`, `web/static` | none | read once, render | no |

How they interact. GitHub sends a delivery for most changes of a run; the handler
upserts the row in one SQL statement, and perhaps takes a queue-depth snapshot.
The goroutine of `Run` sweeps on tickers: `pollWorkflowRuns` lists the active
runs of recently active repositories, upserts them one by one, then closes as
"unknown" every active row of those repositories it did not see; `pollStaleRuns`
fetches rows that have been active for long. `POST /api/refresh` runs the same
sweeps, and `pollHistory`, in the request's own goroutine, beside the loop and
beside other refreshes. SQLite makes each statement atomic and nothing else does:
every REST answer a sweep holds may be stale by the time it is written.

Every call to GitHub goes through a `RateLimitTracker`, which learns the budget
from the answers and makes requests wait when it is spent; the App client puts
its installation token on each request first, minting a new one through the same
tracker, under a mutex, when the cached one is about to expire. Restarts find
the database where it was left, and migrate it if it is of the old shape.

What makes each part correct:

* the table: a completed row is an outcome GitHub gave, the last one unless the run was
  re-run, and stays; a settled row is not
  counted as active again; an upsert is never partial;
* the sweeps: a run is closed only on evidence, of both lists of its repository
  in this sweep; a lost completion, a failed call or a restart does not leave a
  finished run in the queue depth for ever;
* the trend: one scan and one point per minute, or as close to it as the gate gets;
* the adapter: a run that is active throughout a list is in it, or it is known
  why not;
* runner capacity: what is shown of a group was true of that group, and a group
  that stays is shown as it is in the end, whatever fails for the others;
* the tracker and the token: what is reported agrees with what a request would
  meet; pauses are kept; no token is minted before it is due; a credential is sent
  expired only after a wait for all the time it had when it was taken; every request ends;
* the database file: a migration is all or nothing and keeps the latest row of
  each run; a run of which a delivery was acknowledged has a row, and its last
  completion, once acknowledged, stays; every process can open the file in the end.

The hazards, each at its line with the properties that look at it, are the
`hazards` of `PROJECT.json`.

## The modules

* `WorkflowRun` - vocabulary: runs, repositories, statuses, observations, time.
* `WorkflowRow` - a row, and what the upsert with its guard and a close make of it.
* `RunStore` - the table and its statements, one operator each.
* `GitHubOrg` - the environment. A run is triggered, may wait for an approval
  (which no delivery tells of), is queued, runs, finishes, may be re-run under
  its id and may be deleted. `events` holds the payload of every delivery ever
  sent and is never emptied, so that deliveries may be lost, late, repeated and
  overtaken. `listed` is the status REST reports, which may trail a finish: the
  case `UpsertWorkflowRun`'s normalisation is there for (store.go:219-225).
* `Webhook` - what an accepted delivery does to the table.
* `Poller` - the sweeps. A step is one REST call or one SQL statement; each has a
  failing variant that does what the code does after logging the error.
* `Monitor` - the composition, with the correctness properties, the fairness and
  two history variables, which no step of the code reads: `steady`, the runs active
  on GitHub ever since a sweep began, and `seedings`, how often the process has
  begun to seed its store since it started.
* `RunBoard` - abstract specification of what the table promises its readers: the
  outcome shown of a run is one GitHub gave it, is not taken back unless the run was
  re-run or deleted (or no payload tells its time), and a run with one is not counted.
* `MonitorInvariant`, `MonitorProofs`, `RunBoardProofs` - the inductive invariants, the
  theorems, and the refinement of `RunBoard`.
* `TrendSeries` - abstract specification of the trend: at most one point per
  minute, recording a reading sets it.
* `QueueDepthTrend`, `QueueDepthTrendProofs` - gate, scan and recording
  transaction; the properties, the invariant, the theorems.
* `RateLimit` - the tracker: what answers teach it, what it reports, how long a
  request waits. Operators over its three variables, and no specification.
* `AppTransport`, `AppTransportProofs` - extends it with concurrent callers, the
  token behind its mutex, and GitHub's budgets, refusals and expiries.
* `RunLedger` - abstract specification of the database: one current row per run,
  changed only by recording an observation or by closing the run; a power failure
  takes it back, no further than the last sync.
* `StoreLifecycle`, `StoreLifecycleProofs` - processes that open, migrate, serve
  and close one file, and the refinement.
* `ActiveRunList`, `ActiveRunListProofs` - ListActiveWorkflowRuns page by page:
  what `Poller`, where each list is one answer, leaves out.
* `RunnerSnapshots`, `RunnerSnapshotsProofs` - the runner sweeps.
* `MCMonitor`, `MCStoreLifecycle`, `MCRunners` - values for TLC. The other runs
  name their module directly.

Operators named `Wrong...` are plausible mistakes in the definition they precede.
Nothing uses them; each, put in that definition's place, makes a property fail.

### How state and actions correspond to the code

| model | code |
|---|---|
| `rows[r]` | the row of run `r`; `NoRow` where there is none |
| `Upserted`, `UpsertGuard`, `Normalize` | the upsert statement, its WHERE clause, the rewrite of the status |
| `Stamped` | the fallback to the local clock of `handleWorkflowRun` and `toStoreRun` |
| `pc[s]` | where sweeper `s` is: `Loop` is the goroutine of `Run`, each refresher a request in `RefreshNow` |
| `agenda[s]` | the sweeps it still runs, the current one first |
| `StartWorkflowSweep`, `Bootstraps` | rate-limit test, `since`, RecentlyActiveRepos, the compare-and-swap of the bootstrap |
| `Announced`, `Reopened`; `ShownOutcome`, `ActiveRows` | what `RunBoard`'s variables are here: the conclusions sent so far, the runs re-run or deleted; the outcomes in the table, the runs QueueDepth counts |
| `Seed`, `ListRecent`, `Requery` | `pollHistory` as the bootstrap and the second query |
| `ListQueued`, `ListInProgress` | the two lists of ListActiveWorkflowRuns, in this order; only the second counts the repository as scanned |
| `StoreFound`, `StoreFails` | one iteration of an upsert loop |
| `SelectStale`, `CloseOne`, `CloseFails` | CloseStaleActiveRuns: the SELECT, the UPDATEs, the early return on an error |
| `FetchZombie`, `UnknownMarker` | one iteration of `pollStaleRuns`; the marker for a 404 |
| `Restart` | the process ends at any point and starts on the same database |
| `lastSnapshotMinute`, `LoadGate`, `Claim`, `LoseClaim` | the atomic integer, its Load and its CompareAndSwap |
| `UpdatePoint`, `CommitPoint`, `RecordFails`, `writer` | the transaction of RecordQueueDepthSnapshot and SQLite's write lock, which its first statement takes |
| `remaining`, `resetIn`, `backoff` | `status.Remaining`, `status.ResetAt`, `backoffUntil`; instants as the time left until them |
| `ApplyHeaders`, `AsksForPause`, `Pause`, `PauseTime` | the locked part of the tracker's RoundTrip, `retryAfter`, `retryAfterTime` |
| `Until`, `Send`, `Sleep`, `Wake` | `wait`: one look, then a timer |
| `Limited`, `RetryIn` | `rateLimitedLocked` |
| `TakeToken`, `SignJwt`, `ReadToken`, `Fail` | `installationToken`: the cached token; lock and `mintAppJWT`; the new token; an error, and the deferred unlock |
| `commits`, `writer`, `work` | the file after each commit since the last sync; the open write transaction and what it sees |
| `Inspect`, `CreateScratch`, `Copy`, `Drop`, `Rename`, `Commit`, `Schema` | Open: the look at pragma_table_info, each statement of `rebuild`, the commit, each statement of `schema` |
| `credential[r]` | what the request carries: the token or JWT, the time it has left, and `had`, what it had when it was taken (history) |
| `Store`, `Refuse`, `Acknowledge` | a delivery: the upsert, the 500, the 200 |
| `SweepWrites` | the writes of sweeps on the same file: an upsert, or the UPDATE of a close |
| `Signal`, `Drained`, `DrainTimesOut`, `ListenerFails`, `Exit` | the two ways out of `run`'s select, srv.Shutdown, the deferred Close |
| `Call`, `GetPage`, `PageFails` | ListActiveWorkflowRuns: one page of one status is a step |
| `ListRunnerGroups`, `ListRunnerGroupRunners`, `RunnersFail`, `RecordRunnerSnapshot` | pollRunners: the two calls, the `continue`, the INSERT |
| `latest[g]` | the row LatestRunnerSnapshots answers for the group |

### Abstractions

* Time is counted in ticks. GitHub stamps whole seconds and the monitor
  fractions, so a local stamp of a tick is later than GitHub's of the same tick;
  the two clocks are otherwise taken to agree. Text comparison of the stored UTC
  times is comparison of the times.
* In `Poller` a list is one snapshot per status. `ActiveRunList` shows when that is
  so: `ShortListsAreComplete`, for no more runs than a page (100) has room for.
  With longer lists a run that shifted past the reader is missing from the answer
  and can be closed as "unknown" while it is active: `ClosesOnlyWithEvidence` is
  about lists of one page, `MissedOnlyIfShifted` about what is left of it
  beyond. ListRepos is the same walk and has no model of its own. `pollHistory`'s page
  is any subset of a repository's runs, so its date filter needs no model.
* Zombies are fetched, and found runs stored, in any order; the code has one.
* A 404 is answered only for a deleted run. Rows whose repository has no slash
  (skipped with a log line) are left out, as are the columns nothing decides on.
* The fallback time of a payload without updated_at is read at the upsert; in the
  handler it is read just before.
* Runner snapshots and queue-depth points are tables of their own that no action
  of `Monitor` reads.
* `AppTransport` takes steps of the callers for instantaneous and lets time pass
  only when none is due; requests and answers are under way for any time. Mints
  and API calls draw on one budget; go-github's own check of the budget before a
  request is left out, so more requests reach GitHub here than there. The
  Limit, and the access log, decide nothing. The admin client is the tracker
  alone, with a token that does not expire.
* `StoreLifecycle` writes rows by the guard and the close of `WorkflowRow`, as `Monitor`
  does, but of any observation (`Arrivals`) at any time, whatever GitHub did: what a sweep
  may bring is `Poller`'s. Payloads are stamped on arrival. Two tables stand
  for the rest of the schema. SQLite is taken at its word: statements and
  commits are atomic, one writer at a time, and a power failure under
  synchronous(NORMAL) loses the latest commits and no others (store.go:33-36).
* `RunnerSnapshots` keeps only the latest row of a group; a reading is of one
  page, so of a larger group it is any hundred of its runners.
* A minute of `QueueDepthTrend` is a step of its clock; a reading is any member
  of `Depths`, as no decision depends on it.

## The runs

All bounds are constants of the cfg files: `MaxClock` and `LastEvent` (ticks),
`MaxAttempts`, `MaxMinute`, and the sets of runs, repositories, refreshers,
deliveries and sweeps.

| run | what varies | shows |
|---|---|---|
| `race` | one run; the loop and one refresh; 3 ticks; lagging lists | `TypeOK`, `CompletedRowsAreTrue`, `ClosesOnlyWithEvidence`, `CompletedIsFinal`, `NoResurrection`, `OneBootstrap` |
| `repos` | two runs in two repositories, lists failing independently, one run without updated_at; 2 ticks | the inductive invariant `Inv`, `CompletionsHappened`, `ClosesOnlyWithEvidence`, `CompletedIsFinal`, `NoResurrection` |
| `lifecycle` | one run with either of two conclusions: approval, re-run, lag, deletion; 3 ticks, of which GitHub changes in the first two | `Inv`, `OutcomesOK`, `CompletedIsFinal`, `NoResurrection`, `ImplementsBoard` |
| `live` | one run; 3 ticks; lost deliveries, failures, restarts | `FinishedRunsLeaveTheQueue` |
| `trend` | three deliveries and a sweep, two minutes, two readings, restarts | `TrendInv`, `RescansOnlyAfterStragglers`, `ImplementsTrend` |
| `transport` | two callers, one request per window of two units; a token lives two, its margin is one, a JWT lives one; secondary limits with and without a time | `TransportInv`, `ReportIsTrue`, `KnowsTheBudget`, `PauseIsKept`, `MintsWhenStale`, `ExpiresOnlyAsleep`, `EveryRequestEnds` |
| `storage` | two processes, two runs, legacy tables of three rows; one run in progress, completed and closed between the two, in any order; two deliveries at a time (`MaxJobs`), one commit to lose (`MaxCommits`); kills, power failures | `StoreInv`, `ServesTheSchema`, `AckedIsStored`, `ImplementsLedger`, `EventuallyServes` |
| `pages` | five runs on pages of two | `ListInv`, `MissedOnlyIfShifted` |
| `runners` | three groups, of one runner or of three, on pages of two (groups and runners), one change (`MaxChanges`); the loop and one refresh, restarts | `RunnersInv`, `ShownWasTrue`, `ShownWasExact`, `ShowsWhatStays` |

Why these bounds are enough for what they look for: the row of a run depends on
that run's observations and on its repository's lists, so one run reaches every
row-level race, and a second is needed only where one run's presence keeps a
sweep busy with (or its repository active for) another, which `repos` has. The races need an observation, a change and a write in three
different ticks at most. Two sweepers reach every pairing of stale answers, as
each holds at most one list at a time; the theorems have no such bound. A run that
may be re-run has two conclusions in `lifecycle`, so that the outcome of one attempt can
be told from the other's; it needs no change in the last tick, as nothing would be late.
In `transport` a wait can outlast both the margin of a token and a JWT, the second
caller meets the first's mutex, and answers overtake each other; longer windows
add waits that differ in length only. In `storage` two processes are what a
replacement takes, and a third row makes the latest row of a run differ from its
first and from its newest; the three writes of one run take every disjunct of the
guard, the older write that replaces an active row and the older completion that
replaces a close included; one commit that can be lost is lost at every step
of a migration. Five runs make three pages, so that a run can be shifted from
the last page to one already read. In `runners` a reading may be late, of another
group, of a part of the group, or of one that has gone; the third group is beyond the
page until one before it goes, or from when one comes.

Runs that end in a violation, each refuting one sentence of the repository; the
`findings` of `PROJECT.json` quote it:

| run | sentence | what happens |
|---|---|---|
| `uncounted` | sweeps record the current active-run state (poller.go:186) | a run that began after its repository was listed is closed though it is not "definitely no longer active" (store.go:275), and the local stamp of that close outranks what GitHub says of it until its updated_at passes that stamp, so a run on which nothing changes while it is active is never counted; no failure is needed |
| `forgotten` | the guard drops writes that would move a run backwards (store.go:212) | the marker for a deleted run overwrites a completion stored meanwhile |
| `waiting` | a lost completion is closed out by the next sweep (poller.go:189) | rows in status waiting are looked for by no sweep |

Four more sentences hold only with a reservation, which the passing properties
state:

* the guard drops writes that would move a run backwards (store.go:212): not the
  late repeat of a first attempt's completion, which replaces a re-run's. That a completion is the last word, and final,
  is said of runs that are not re-run; of all others only that the outcome shown is
  one GitHub gave that run (`CompletionsHappened`, `ImplementsBoard`).
* a snapshot at most once per minute (webhook.go:145): `RescansOnlyAfterStragglers`
  allows one more for each straggler that takes the gate back.
* every request carries a valid, auto-refreshed token (ghclient.go:290): a request
  takes its token, and a mint signs its JWT, before it waits for the rate limit,
  and a wait longer than two, or nine, minutes is longer than they may last; a token
  just minted is handed on without a look at its expiry, however long the answer that
  brought it was under way (`ExpiresOnlyAsleep`: the wait is at least as long as what the
  credential had when it was taken, which for a minted one may be nothing).
* every runner group, every runner (adapter.go:175, 186): the first hundred
  (`FirstGroups`, `FirstPage`); `ShownWasExact` says of which groups that is all.

What holds instead is stated by the passing properties: a close comes with
evidence that the run was inactive at some time during the sweep; completions
stay but for re-runs and deletions, and each was given by GitHub; a minute is scanned at most once more than
the gate went back.

### Fairness

`FairSpec` is used for `FinishedRunsLeaveTheQueue`. The goroutine of `Run` is
scheduled by the Go runtime (weak fairness of its steps) and its two tickers go
on firing; when both are due at once `select` takes either, hence strong
fairness of each. Calls may fail, but not for ever: each call the loop goes on
making succeeds in the end (strong fairness of each list, fetch, upsert and
close), and the budget is not exhausted for ever. The process may restart any
number of times but not for ever, since nothing makes a process that is always
restarted get to the end of a sweep. No fairness is assumed of GitHub, of
deliveries or of refreshes. `SmoothSpec`, for two of the violations, leaves out
failures and restarts altogether, so that what they show is nobody's fault.

`AppTransport`: the callers' own steps are taken, time passes, and every call to
GitHub ends, in an answer or an error. The last is an assumption about the
network: the clients have no Timeout. Go's mutex hands itself to a waiter that has
waited for a millisecond, hence strong fairness of the step that takes it.

`StoreLifecycle`: a supervisor starts a process that has ended; its steps are
taken; the ten seconds of a drain pass; the write-ahead log is checkpointed.
A step that waits for the write lock gets it in the end (busy_timeout): strong
fairness of the steps of Open. Kills, signals, power and disk failures do not
happen for ever, as nothing that is always killed gets done.

`RunnerSnapshots`: the loop's ticker goes on firing and the budget is not spent for
ever; its steps are taken; the groups can be listed, and a reading of each group
recorded, now and then. That a group's own runners can be listed is a premise of
`ShowsWhatStays`, group by group, for the point of it is that the failure of one
does not starve the others. Nothing is assumed of refreshes, which may even stop
for ever between reading and recording.

## What is proved

TLAPS checks the theorems below for every value of the constants that satisfies
the named assumptions: `RunsAssumption`, `OrgAssumption`, `PollerAssumption` and
`GateAssumption` (finitely many runs, each in a repository; bounds that are
numbers; the empty string is no conclusion).

`MonitorProofs` - any number of runs, repositories and overlapping sweeps.

* `Invariance`: `Inv` always holds. `CompletedRowsAreTrue` is not inductive, for a
  row can be completed by any answer under way; the invariant therefore says of
  every delivery and every answer a sweep holds that it does not run ahead of
  GitHub and tells of a finish only as it was (`ObservationsOK`). It does so only
  for runs never re-run: the payloads of two attempts cannot be told apart, which
  is also why a re-run's completion can be replaced by the first one's. `EvidenceOK`
  is the argument for closing: a run active since the sweep began is in the queued
  list, or was in progress already by the time the second list was asked for - the
  order of the two lists matters.
* `TypeCorrectness`, `CompletedTruth`, `EvidenceBeforeClosing` follow from it.
* `CompletionIsFinal`, `SettledStaysSettled`: the action properties. `RowSteps`
  reduces every step to one upsert of a credible observation or one close, and
  `UpsertKeepsCompletion` and `UpsertKeepsSettled` are the case analysis of the guard.
* `BootstrapsOnce`: `seedings`, the number of times a process has begun to seed, stays at
  one. `SeedingsOK` says that it is zero as long as `bootstrapped` is unset and one from
  then on: only a sweep that finds the flag unset adds to it, and sets the flag in the same
  step; a restart sets both back.

`RunBoardProofs` - the runs `Inv` says little of: re-run, deleted, untimed.

* `OutcomesInvariance`: `OutcomesOK`. `CompletionsHappened` is not inductive either, and
  what `Inv` says of the answers under way does not help, being about first attempts.
  `OutcomesOK` asks less of them, and of all of them: a finish they tell of was announced
  with that conclusion and time, however long ago. `AnswersAreBacked` is why a list or
  a fetch brings nothing else, `RunChangeAnnounces` why no finish goes unannounced;
  `UpsertCompletes` is the only way a row gets completed.
* `CompletionsWereGiven` follows from it.
* `BoardImplemented`: every step is a step of `RunBoard` or a stutter. A step changes one
  run, so it maps to one of the board's actions: GitHub's by `EnvironmentMaps`, the
  table's by `WritesMap`. The outcome a completion shows is backed (`OutcomesOK`); that a row
  goes back to unfinished only for re-run or untimed runs is `CompletionStands`, which
  `CompletionIsFinal` rests on too; that a run never re-run
  is concluded once is `UnfinishedIsUnannounced`.

`QueueDepthTrendProofs` - any number of deliveries, sweeps and minutes.

* `TrendInvariance`: `TrendInv`. The gate stands at or after every claimed minute
  but for the times it was taken back (`GateOK`, which needs that no delivery is
  about to claim the minute it loaded); a transaction past its UPDATE is alone
  and its count of rows still holds (`LockOK`).
* `ScansAreBounded` and `TrendImplemented`: the bound on scans, and that every
  step is a step of `TrendSeries` with the table as its series, or a stutter.

`AppTransportProofs` - any number of callers, any budget, window, lifetimes and
pauses (`TransportAssumption`).

* `TransportInvariance`: `TransportInv`. `OneMinter` says that the mutex is held
  exactly by the caller with a JWT and only while the token is stale, which is
  `OneMintPerToken`. `Waits` relates each sleeper to what it knew: unless an answer
  has shortened the wait, the tracker holds requests up for as long as any pause
  named so far, and so does a sleeper that has not missed news; and what is left of a credential
  plus the time waited is no less than what it had when it was taken, which was more than
  the margin for a cached token and a whole life for a JWT. `PausesAreKept` and
  `ExpiryTakesAWait` read these two off at the step that sends. `LatestAnswers` makes
  `BudgetIsKnown` inductive: GitHub's latest answer, while unread, says what is left.
* `ReportAgrees` follows from the definitions of `wait` and `rateLimitedLocked`, and
  from no invariant: the two differ in form and in where the reset matters.

`StoreLifecycleProofs` - any number of processes, runs, deliveries, legacy tables
and commits to lose (`StoreAssumption`).

* `StoreInvariance`: `StoreInv`. Every commit leaves no half-built table (`FileOK`);
  what an open transaction has so far is a function of the file it started from
  and of how far it is (`TransactionOK`), so its commit is the collapse of that
  very table; nobody is past a migration while the table is of the old shape
  (`OpenOK`); a delivery is stored before it is answered (`JobsOK`). The guard is not a
  maximum: it lets an older observation replace an active row, so what an acknowledged
  delivery said may be overwritten. What no write takes back is that the run has a
  row, and its last completion (`LastWord`: the only completion, and nothing else of
  the run is newer): `UpsertTells` and `CloseTells`
  go through the guard and the close for it.
* `SchemaIsServed`, `AckedStaysStored` follow from it.
* `LedgerImplemented`: every step is a step of `RunLedger` or a stutter, where the
  state of a legacy table is the latest row of each run; it rests on the lemma
  that `Collapsed` and `Latest` agree, without induction over the table.

`ActiveRunListProofs` - any finite number of runs, any page size (`ListAssumption`).

* `ListInvariance`: a run active throughout that is neither found nor shifted is still
  to come: it has at least as many runs ahead of it as the pages read hold, or is
  in the list read second (`StillToCome`). The counting is `FiniteSetTheorems`'.
* `LastingRunsAreFound`, and `ShortListsAreComplete`, which is why `Poller` may
  take a list of one page for a single answer.

`RunnerSnapshotsProofs` - any number of groups, refreshes and changes
(`RunnersAssumption`): `RunnersInvariance`, that a reading under way is of a capacity
the current group has had since its turn came. `RecordedIsRead` says that what changes
in the table is such a reading; `ShownIsTrue` is that, and `ShownIsExact` adds what a
page keeps of a capacity (`FirstPageIsExact`). `ShownWasExact` does not speak of
`FirstPage`, so it holds the definition of a page to account as well.

Only model-checked: the liveness properties `FinishedRunsLeaveTheQueue`,
`EveryRequestEnds`, `EventuallyServes` and `ShowsWhatStays` (liveness under fairness is
out of the prover's reach), and all violations.

## Not modelled

* RecentRuns and its paging (store.go:518, api.go:170): a count and a page read in
  two statements, and the arithmetic of a page number. They change nothing, and a
  wrong answer is replaced by the dashboard's next request.
* handleCancelRun forwards a request to GitHub and keeps nothing of it; its effect
  is that of a run that finishes in `GitHubOrg`. The request itself is one of
  the callers of `AppTransport`.
* Configuration has no state; its intervals and windows are constants here, which
  the theorems leave open.
* HTTP middleware and the dashboard (rendering), signature checks and JSON decoding:
  no state depends on how they fail.
* Long calls: nothing bounds a call that GitHub neither answers nor breaks off
  (`EveryRequestEnds` assumes it ends). A deleted runner group stays shown, as
  nothing removes its rows; a reading recorded late by a refresh is shown until
  the loop's next one.

What could follow: `Poller` on top of `ActiveRunList`, with evidence counted in pages; and
the total and the pages of RecentRuns as operators over a table that grows between them.
