# Verification of mxzz-bi (a fork of Redash)

TLA+ models of the parts of this repository in which several processes touch the same state (the
jobs that execute queries, the scheduler that enqueues them, the users who edit the documents, the
alerts that are checked afterwards), and of the pages of the client, where one user's actions, timers
and late answers do. TLC checks every model on small instances, TLAPS proves the
most important results for all instances. Paths are relative to the repository root.

## 1. Inventory

### The system

Gunicorn web processes, RQ workers and an rq-scheduler share a Redis (RQ's queues and job hashes, locks,
pause keys, trackers, caches) and a Postgres (queries, results, dashboards, alerts, users). Nothing else
connects them. Since each handler and each job has a database session
of its own, an object read early in a handler is a copy that may be old when it is written.

Browsers send requests and poll. A page of the client is a React tree whose handlers close over the copy of a
document they were rendered with: what an answer does to a page is decided by the copy of then, not by that of
now. Nothing numbers requests or cancels them, except where a component compares an answer with a reference it kept.

| Component | State | Operations | Interaction | What is hard | What makes it correct |
|---|---|---|---|---|---|
| Query jobs (`redash/tasks/queries/execution.py`) | lock key per (data source, hash), job hashes, queues, results | `enqueue_query`, `QueryExecutor.run` | called by web processes, scheduler; ends in alerts | WATCH/MULTI races, expiries, signals in every step | every call gets a job; one worker per job; nothing lost; only committed results announced; calls and jobs end |
| Workers, cancellation (`redash/tasks/worker.py`) | status and meta of a job, the work horse | `cancel`, `monitor_work_horse`, hard and soft limit | user, worker and horse race on one job | crashes, kills at any point, a driver that never returns | workers come free; a job runs at most once |
| Scheduled refresh (`redash/tasks/queries/maintenance.py`, `models`) | schedules, failure counters, tracker of executions, pause key | `refresh_queries`, `outdated_queries`, `empty_schedules`, `track_failure` | enqueues query jobs, reads what they track | snapshots that grow old, lost counts, one bad query among many | results stay fresh; no query starts too often; pausing stops |
| Times of schedules (`should_schedule_next`) | previous execution, schedule | one pure function, in a polling loop | used by refresh | midnight, days of the week, late starts | no day skipped, none twice |
| Saving queries and dashboards (`handlers/queries.py`, `handlers/dashboards.py`, the editors' hooks) | row with version, one copy per session and page | load, save, archive | pages of several users, one row | lost updates | no save goes over changes its page does not show |
| Alerts (`tasks/alerts.py`, `handlers/alerts.py`) | state and age of an alert, options | check, notify, edit, mute, delete | started by each committed result | overlapping checks, a death between commit and mail | the state is that of the latest result; subscribers know it |
| Failure reports (`tasks/failure_report.py`) | Redis list per user | push, read-mail-delete | fed by failing jobs | the read and the delete are apart | each failure reported |
| Data sources, schema cache (`models`, `handlers/data_sources.py`) | row, schema key, pause key | delete, pause, refresh schema | executions and schema jobs of a source that goes | writes after deletion | no orphaned results or keys |
| Query results (`handlers/query_results.py`) | cached rows, latest pointer | lookup by age, run, clean-up | pages, dashboards | a result deleted while it is being referred to | a referenced result exists |
| Client polling (`client/app/services/query-result.js`, `useQueryExecute.js`) | a QueryResult per execution, the one in the ref, the page's status | execute, poll, load, retry, cancel, leave | `JobResource`, `serialize_job`, expiring jobs | executions overlap; a job vanishes between polls | the page shows the last execution; each ends |
| Query page (`useUpdateQuery.jsx`, `useQuery.js`) | copy of the query, the text that counts as saved, requests | type, save, rename, tag, publish, format... | `QueryResource` | answers applied to old copies | clean means stored |
| Parameters (`services/query.js`, `services/parameters`, `Parameters.jsx`) | shared Parameter objects, pending values, URL, dirty flag | type, enter, apply, edit settings, save | query page, URL | clones read the URL again over shared objects | flag, URL and values agree |
| Dashboard page (`useDashboard.js`, `widget.js`, `useEditModeHandler.js`, `AutoHeightController.js`) | loads of widgets, parameter, layout with timers and batches, measuring timer | refresh, apply, load, move, save, retry, resize | query executions, `WidgetResource` | overlapping loads and saves | spinners end; the shown value is the parameter's; Done is heard |
| Lists (`components/items-list`) | paginator, sorter, search, tags, items | page, sort, search, fetch | list handlers | answers out of order, counts that shrink | what is shown is what the controls say |
| Alert page (`pages/alert/Alert.jsx`) | copy of the alert, result of its query | select, change, save, mute, delete | `AlertResource`, query results | results and answers that cross | column of the selected query; view shows the stored alert |
| Data screens (`pages/screen/Screen.jsx`, `handlers/screens.py`) | charts, settings, drawer, row without version | add, copy, delete, configure, save, load | data sources, queries | ids by the second, drawers that open late | a stored screen can be loaded |
| Datasets (`pages/dataset/Dataset.jsx`) | nodes, edges, joins, text | drop, confirm, cancel, save, execute | query page's hooks | four copies of one graph | they describe the same tables |
| Sharing, permissions (`handlers/permissions.py`, `models`) | API keys, grants, groups | share, unshare, grant, revoke | every handler | none: one row per handler | revoked access is gone |

The rest (drivers, destinations' output, authentication, command line, settings, metrics, client
components, visualization library) keeps no shared state of its own or only formats; `PROJECT.json` lists
it with the reasons.

### Hazards

`PROJECT.json` lists what is hard to test, each at its line and with the properties that would show it going
wrong. They come down to six patterns: a lock that is deleted or overwritten by somebody whose view of it is
old; a copy loaded before something slow and written after it; a failure between two commits; one bad member
of a set that is handled in a loop; an answer that is applied to a page which has moved on; one flag or timer
that several overlapping operations set and clear.

## 2. Modules

| Module | Models | Extends/instances |
|---|---|---|
| `QueryJobs` | `enqueue_query`, the executor, the worker's monitor, cancellation, expiries | |
| `JobLifecycle` | abstract: what all of this promises of a job | `QueryJobs` implements it |
| `QueryJobsProofs` | proofs | `QueryJobs` |
| `ScheduledRefresh` | `refresh_queries`, `outdated_queries`, `empty_schedules`, failure counting, pausing | |
| `ScheduledRefreshProofs` | proofs | `ScheduledRefresh` |
| `ScheduleTimes` | `should_schedule_next` with times and days | |
| `ScheduleTimesProofs` | proofs | `ScheduleTimes` |
| `DocumentEditing` | concurrent saves of a query or a dashboard | |
| `DocumentEditingProofs` | proofs | `DocumentEditing` |
| `AlertChecks` | the checks of one query's alerts | |
| `AlertChecksProofs` | proofs | `AlertChecks` |
| `QueryExecution` | one page's executions: POST, polls, loading, retries, cancellation | |
| `QueryPage` | the saves of one query page | |
| `QueryParameters` | parameters, pending values, URL and flag of a query being edited | |
| `DashboardLoading` | loads and refreshes of a dashboard's widgets | |
| `DashboardLayout` | edits of its layout and their saves | |
| `WidgetHeights` | the timer that measures widgets | |
| `ScreenEditor` | the editor of a data screen | |
| `DashboardProofs` | proofs of the pages that show charts | `DashboardLoading`, `DashboardLayout`, `WidgetHeights`, `ScreenEditor` |
| `ItemsLists` | the lists with their paging, sorting and search | |
| `AlertPage` | the page of an alert | |
| `DatasetJoins` | the graph of a dataset | |
| `QueryPageProofs` | proofs of the pages of queries | `QueryExecution`, `QueryPage`, `QueryParameters`, `DatasetJoins` |
| `MCClient` | composes the ten modules of pages | all of them |
| `ClientProofs` | proofs of lists, of the alert page, and of the composition | `MCClient`, `QueryPageProofs`, `DashboardProofs` |
| other `MC...` | symmetry and values for the configurations | the module of the same name |

Each definition is headed by the function it stands for; `PROJECT.json`, "map", has the lines. Definitions
headed "Mutant" are not used by any specification: each is one plausible mistake that, put in place of the
definition below it, violates the property it is paired with in `PROJECT.json`, which shows that the
property depends on that part of the code.

### QueryJobs

One (data source, query hash) pair; the state of others is disjoint. Redis is `lock` (the key
`query_hash_job:...`), `status` (the hash of a job, "absent" once expired), `waiting` (the queues) and
`marked` (the `cancelled` flag in meta). `watch` is per caller what EXEC will find: WATCH sets it "clean", any
write of the key by any connection "dirty". A caller's `cpc`, `tries`, `job` and `found` are program counter
and local variables of `enqueue_query`; `wpc` and `wjob` are those of a work horse. An action is one Redis
command, one RQ call, one commit or one signal:

- `Watch`, `Get`, `Fetch`, `GetStatus`, `Drop`, `Create`, `Exec` are the loop of `enqueue_query` in order. `Create` takes
  effect at once, because `queue.enqueue` uses a connection of its own; only the SET of the lock is in the
  transaction. `Drop` deletes over another connection than the one that watches.
- `Dequeue` to `Finish` are RQ and `execute_query`: run, unlock, commit, alert checks, in the order of the code.
- `Interrupt`, `SoftLimit`, `HardLimit`, `HorseDies`, `WorkerDies` can come at any step at which the code is exposed to
  them. An exception around `run_query` is caught, elsewhere it fails the job.
- `LockExpires`, `JobExpires`, `RegistryCleanup` are Redis and RQ. Whether an expiry aborts a transaction depends on the Redis
  version, so both happen.

`Phase` maps this state to `JobLifecycle`: a job waits at most once, is executed at most once, and publishes at most one
result, while it is executed.

### ScheduledRefresh

Time is kept as ages, in units of the intervals. `Refresh` is one call of `outdated_queries` (its dictionary keyed by
text keeps one query per text; a schedule that cannot be parsed is disabled, and the commit expires what the
session has loaded, hence `loaded`). `Skip`, `Enqueue` and `TrackInvalid` are the loop of `refresh_queries` over the report, so
that executions, edits and pauses come in between. `Start`, `Unlock`, `Succeed` and `Fail` are the executor in the detail
that counts here: the copy of the query that it loads (`seen`), the tracker it writes, and the lock that it
releases before it stores anything. `EmptyRead` and `EmptyWrite` are the two halves of `empty_schedules`. `enqueue_query` is
one step here, but its `lock` is as weak as the code's: it names one job per text and parameters, a job may be queued
without it (`QueueUnlocked`, the failed transaction of `QueryJobs`), an execution deletes whatever lock its key names
(`Unlock`), and it expires (`LockExpires`). `unguarded` is a history variable: the queries a job of which waits, or has waited
since time last passed with none waiting, without the lock that would have kept a second one out. A query whose text is edited is one of
them, because its next job looks for another lock. `ThirdStartWaits` is about the others.

### ScheduleTimes

`NextIteration` is `should_schedule_next` line by line, over a day of `Minutes` minutes of `Minute` seconds. Around it, `Poll` is
`refresh_queries`, and `Start` makes the start of an execution the new previous iteration. Jobs start up to
`MaxWait` after they were enqueued, which may be after midnight.

### DocumentEditing

`row` is the committed row, `session[r]` the copy the handler of request r loaded, `view[p]` what page p shows. A page may send a
save before the last one is answered, so what happens is kept per request (`pc`, `request`), and answers are merged in any order. The value of a
field is the request that wrote it, so that equality of data is equality of history. `kind` chooses between the two mappings of
SQLAlchemy: a dashboard's version is generated by every UPDATE, a query's never changes. `Assigned` is `update_model` and the UPDATE
together: what was sent and differs from the loaded copy. `Received` is what a page merges from the response: a dashboard's page into what it
shows by then, a query's into what it showed when it sent. `commits`, and `base` and `after` of a request, are history.

### AlertChecks

The alerts of one query. `Begin` loads the query and its alerts into the session of a worker (`copies`, `value`); `Write` commits,
which expires both; `Evaluate`, `Write` and `Notify` are the steps of the loop, between which results arrive, users save,
mute and delete, and workers are killed. The executor commits a result (`NewResult`) and enqueues its check afterwards (`Delay`), or is killed in
between (`ExecutorKilled`); `owed` counts the executors between the two. A page that saves the query stores the result it shows as the latest one and
enqueues nothing (`SaveQuery`). `Raise` is an exception that leaves the loop: a null in the column
(`float(None)`), or an alert that is gone. `told`, `disturbed`, `overlap` and `unchecked` are history variables for the properties.

### QueryExecution

`res[e]` is the QueryResult of the e-th execution; its `net` says what it waits for (an answer, or a timer), which makes "nothing is
forgotten" a statement about states. `Network(e)` is one answer or timer: a poll takes two steps, `PollFetched` and `PollAnswered`,
because `JobResource` fetches the job and `serialize_job` asks for its status again; the job may finish or expire in between. `inExecution` is the ref
that the callbacks `OnStatusChange` and `OnSettled` compare themselves with. An error answer of the start either rejects or, for a 403 without a job,
changes nothing but the shown status (`HandleErrorResponse`, `Forbid`). `JobRuns` and `JobExpires` stand for what `QueryJobs` details. A
widget of a dashboard runs the same class; `DashboardLoading` has each of its loads as one step.

### QueryPage

`query` is the page's copy, `row` the stored query, and a value is the number of the edit that made it. A request has the fields it
sends and the copy its handler closed over (`base`); `Merged` is what the page becomes with its answer: the sent fields from the answer, all
others from the old copy. The server carries a request out (`CarryOut`) before it is answered, and either may fail. Other users are in
`DocumentEditing`, not here.

### QueryParameters

The Parameter objects are shared by all copies of a query, so `value` and `pending` exist once. `SetQuery` is a clone that becomes the page's
query: the constructor of `Parameters` reads the URL again and so overwrites what is pending, `UpdateUrl` and `FlagOf` are the two effects that
follow. `settingsEdited` is a history variable: between an edit of settings and the next clone, flag and URL may be behind.

### DashboardLoading, DashboardLayout, WidgetHeights

Loads of a widget are numbered; `latest` is `widget.queryResult`, `data` the one whose end came last. `Load` is `Widget.load` for the widgets an
operation affects, `LoadEnds` its promise. `awaited` and `footer` are what the dashboard's refresh and a widget's button wait for. `dropped` and
`overtaken` are history variables for the two cases in which an old value stays.
`DashboardLayout` keeps a set of timers, because `debounce` is called anew for every change and so delays without joining them, and a set of batches,
each a `Promise.all`: the first failure decides its status, the last answer otherwise. In a narrow window (`gridDisabled`) editing is hidden, while its
saves go on. The early return for a page that cannot be edited (`useEditModeHandler.js:39`) is not a step: whoever could reach it is hidden with the mode.
`WidgetHeights` is the controller with its entries that are `false` instead of gone.

### ScreenEditor, ItemsLists, AlertPage, DatasetJoins

`ScreenEditor`: a chart is its id (the second it was added in) and its z-index, a setting the id of its chart; `opening` are drawers that
wait for the data sources. `ItemsLists`: a fetch carries the state of the controls at its start; items are counted, and what is shown is
described by the state it was made for; a plain list pages the items it has in the order they were sorted by (`allItemsOrder`). `AlertPage`: each query has
one column, named like it, so that a column tells the query it is of; requests cross, and a save carries the whole alert. The selector's clear icon leaves the
alert without a query (`OnQueryCleared`), which its result, or viewing, then reads in vain (`Rendered`: the page is "broken").
`DatasetJoins`: `nodes`, `edges`, `dataSetJoin` and `sql` are the four copies of the graph; the form of the dialog
outlives it and keeps its left table (`leftTable`).

### MCClient

A browser has one page open, so `MCClient` chooses one (`visit`) and lets the others rest: the ten state spaces are added, not multiplied.

## 3. Runs

| Run | Instance | What it shows |
|---|---|---|
| `jobs_safe` | 2 callers, 2 jobs, 1 worker; expiries, cancellation, time limits | Types; `enqueue_query` always returns an existing job, so its "Failed adding job" branch is dead code; no job that is not complete is outside queues and workers unless its user cancelled it; results are committed before they are announced; the lock never passes from one job to another |
| `jobs_lifecycle` | 1 caller, 2 jobs, 2 workers; every event, dying workers too | A job is on one worker and in no queue then; `QueryJobs` implements `JobLifecycle` |
| `jobs_live` | 2 callers, 2 jobs, 1 worker; fairness, time limits | Calls return, also those whose transaction fails (excepted is a caller that has no id left for a new job), the lock of a complete job goes at the next call, a query that never returns keeps neither its worker nor the jobs behind it |
| `dup_serial` | 1 caller, 3 jobs, no events | Violation: one caller, calling again and again, gets two jobs for one query in the queue (section 5) |
| `edit` | 2 pages, 2 fields, 3 requests that may overlap, both kinds | A version of a dashboard names one content, whatever answers a page merged and in which order; no save of a dashboard that carries a version goes over changes its page does not show; none is refused over a save of its own page whose answer, with the version, the page had |
| `query_conflict` | 2 pages, 2 fields, 2 requests, a query | Violation: the same for queries fails |
| `refresh_safe` | 2 queries with one text, one with invalid parameters, failing executions, 2 jobs, manual runs, edited texts, locks that are lost | A query whose jobs wait with their lock starts at most twice within its interval |
| `refresh_live` | 2 queries with one text, one possibly with invalid parameters, malformed and past schedules, pauses | Working queries get fresh results again and again; a data source that stays paused gets idle; past schedules go |
| `times` | daily, three-daily and weekly schedules, every slot and every previous execution of a week | No day is skipped, none comes twice, executions at or after their time keep the day of the week |
| `weekday` | a weekly schedule | Violation: it becomes due a day early |
| `alerts` | 1 alert, 2 workers, values 0 and 1, null and no rows, 1 check that waits or is about to | The state becomes that of the latest result that is checked; subscribers know it; they hear it again only if the alert rearms |
| `client` | one page at a time: 2 executions, 2 edits and 2 requests of a query page, 2 parameters, 2 widgets with 2 loads and 2 moves each, 3 charts, 3 items, 2 queries of an alert, 3 tables | The page shows the last execution and each that the server admits ends; a text without changes is stored; parameters, URL and flag agree; spinners are backed by loads, a quiet dashboard shows its parameter's value, Done is heard, heights are measured while there is something to measure; settings have their charts and new charts are on top; a list shows what its controls say, on a page that exists; an alert page that is not broken shows what is stored, with a column of its query; a dataset's graph and text agree |

### Bounds, and why they are enough

- Two callers are a race on the lock; two jobs are a lock left by one and wanted for another. A third job is needed for the
  finding of `dup_serial`: a job that is complete, and two that wait. `MaxTries` is 5 in the code; 2 and 3 let a call end by its
  counter and retry after a failure (the proofs are for every number).
- `created # Jobs` bounds calls to the ids there are; that is the only reason the runs of `QueryJobs` may stop
  (`CHECK_DEADLOCK FALSE`). In all other runs deadlock is checked.
- Two queries with one text are the smallest case in which the report drops one. `MaxAge` is just over the longest interval
  plus backoff, and larger ages behave alike. An interval of 0 units means that a query is due one unit after its start. Locks are lost in
  `refresh_safe` alone: what `refresh_live` asks is that jobs come, and a lost lock makes more of them.
- `Overflow` (about 41 failures in the code, when 2^n minutes are no timedelta) is 1, so that queries reach it with their first failure.
- `ScheduleTimes` has a day of 6 instants with a minute of 2: there is a slot at, before and after midnight, and seconds within a
  minute. `Horizon` is a little over three weeks.
- One alert suffices for what the properties of `AlertChecks` relate, a state and what was told of it; two workers make the
  checks overlap; `MaxPending` 1 counts only checks that no worker has begun, so that a result may be committed, lose its check or wait while two others are checked.
  `Rearm` 0 means that one tick passes it. That alerts of one check affect each other (a commit for one expires the others) takes two alerts, which the run
  does not have; the theorems are for any number.
- `edit` allows three requests: enough for A to save, for A or B to save or publish on top before or after the answer, and for A to save again with what it
  then has.

- `client`: two overlapping executions, loads, batches, fetches or requests are what its properties are about; a third would repeat the second,
  since every handler compares or overwrites pairwise. `MaxTryCount` is 3 in the code; 1 lets a load be retried twice and give up. `MaxSeconds` 2 lets two
  charts have one second, and two have different ones; 5 operations suffice to add, configure, copy, delete and add again. Three items
  with page sizes 1 and 2 give a last page that is full, one that is not, and one that vanishes. Three tables are a chain and a star. One edit of an alert's form
  suffices because a stored alert starts with a query selected; clearing the query is not counted. A page may be left or deleted, hence `CHECK_DEADLOCK FALSE`.
- Bounds on edits, requests and loads are in the guards, so that runs with liveness need no constraint.

### Fairness

- `QueryJobs`: a web process finishes its request. Queues are FIFO, so a job that waits is not overtaken for ever, even though
  others come (strong fairness of `Dequeue` per job). A horse executes its code, except that `run_query` may block for ever;
  then only the monitor in the parent, which runs on a timer, ends it (weak fairness of `HardLimit` while running). Nothing is
  assumed of users, expiries and crashes. `jobs_live` has no dying workers.
- `ScheduledRefresh`: rq-scheduler keeps enqueueing `refresh_queries` and `empty_schedules`, workers take jobs and finish them (what
  `jobs_live` shows of jobs with a time limit), and time passes. Nothing is assumed of users or of which outcome a job has.

- `MCClient`: the browser settles every request, with an answer or an error; timers fire; workers finish their jobs (`jobs_live`). Nothing is
  assumed of users, not even that they stay on a page, nor of the order in which answers come.

## 4. Proofs

All are for every value of the constants that satisfies the named assumptions of the module. Each follows the same plan: a
strengthened invariant, one lemma that every step preserves it with one step per action, and the temporal conclusion.

- `TypeCorrect`: `TypeOK`, the types of `QueryJobs`, with two facts they need: a caller at the head of the loop has a try left (or the counter would
  exceed its bound), and exactly the busy workers have a job.
- `EnqueueIsSafe`: `CallerGetsAJob` and `NoTakeover`. That the job is in RQ needs that everything a caller or the lock ever names was created.
  That the lock never changes hands rests on what WATCH means: if a caller between the read of an absent key and EXEC is
  "clean", the key is still absent. Only three kinds of step touch the lock (`OtherStepsKeepLock`), so the rest is
  dismissed at once.
- `JobsAreSafe`: `OneWorkerPerJob`, `NoJobLost`, `ResultsAreCommitted`. No job is in two places, because `Dequeue` removes it and ids are never used
  again; a worker whose program counter is past the commit has committed.
- `JobsImplementLifecycle`: `ImplementsLifecycle`, safety and refinement for every instance. `Phase` is a function of `waiting`, `created` and `wjob`, so every
  step that leaves these and the results alone stutters (`LifecycleStutters`); the others move one job (`OneJobMoves`), and the
  two invariants above say from which phase: a job that is waiting is on no worker, a job about to be committed has not been.
- `DashboardsAreNotOverwritten`: `VersionNamesContent` and `NoBlindDashboard`. Versions count the commits, pages and sessions are never ahead of the row, and what has the
  row's version has the row's data. A save that passed the handler's comparison and SQLAlchemy's has three equal versions, hence equal data.
- `RefusalsHaveACause`: `ConflictsAreReal`. The version a page shows is at least that after each save it made with a version and had the answer of; so a
  request that is behind the row is behind a commit it had not heard of.
- `StartsAreSpaced`: `ThirdStartWaits`. After a start within an interval a query can wait in
  the snapshot or in the queue, not in both; after a second one in neither (`OnePending`, `NonePending`). What keeps the
  queue from holding it twice is the lock, so the invariant says of every query that is not `unguarded` that the lock of each of its waiting jobs names that
  job, under the text the query would be enqueued with (`Guarded`). A report cannot bring the query back,
  because a young entry of the tracker is not due (`ReportedIsDue`). `BackoffAssumption` states what 2^n needs: that it is a number.

- `SubscribersAreTold`: `SubscribersKnow`. A check that runs alone sees in its session the state the database has, up to the commit, and then
  tells what it committed (`Synced`); that it runs alone is what `overlap` records (`Sole`), and while checks overlap nothing is
  claimed (`Voided`). Alerts that are created or deleted during a check are handled by `Untold` and `Created`.
  `MarkersAssumption` says that the markers of absent rows are not rows.
- `ChecksGoByTheLatest`: `StateIsCurrent` and `RepeatsOnlyRearmed`, on top of the invariant of `SubscribersAreTold`. A check that began after the latest result goes by it, and every
  alert it has passed has that result's state (`GoesByLatest`), while no later result waits for its check or goes without one (`Quiet`);
  what its session holds of an alert has the alert's options unless these were edited (`SameOptions`).
  When a repetition is sent, the reason for it was found two steps earlier, so it has to survive them (`ReasonToRepeat`).
- `SchedulesKeepTheirTime`: `NotTooLate` and `NotTooEarly`, for minutes, days, intervals, polls and waits of any length, and without a bound on the clock (`Horizon` is not
  used). The next iteration lies on the n-th slot after the one that belongs to the previous start (`NextIsOnDueDay`, whatever the minute was rounded
  to); a query that does not wait was not due at the last poll, and one that waits has become due since the poll before it (`DueWhenPolled`).
  The rest is integer division, in three lemmas (`Division`, `DayOf`, `FromDay`).
- `WeekDaysAreKept`: `LateRunsKeepWeekDay`, from the same invariant, with one hypothesis: a minute and the time between polls make at most a day. The scheduler
  polls every 30 seconds; with polls more than a day apart the query could be enqueued on any day.
- `LastExecutionIsShown`: `OnlyTheLastIsShown` and `WaitingIsBacked`. The ref names the execution started last as long as the page is mounted
  (`RefIsLast`), every execution that has a request has not settled, and a settled one that is the ref's has cleared `isExecuting` in the same step; so an older
  one cannot touch the page. A start that is forbidden has neither a request nor an outcome, and is excepted by name.
  The types need that tries are below the bound while a load is retried (`TriesLeft`).
- `WhatIsCleanIsSaved`: `CleanMeansSaved`. The text that counts as saved is the stored one until a full save is carried out; from then to its answer it is
  the save's text that is stored (`OriginalIsStored`). For this a full save must be the only one (`OneFullSave`), and what the other requests change must
  not be the text (`RequestsAsMade`). The number of requests under way is a cardinality, hence the finiteness.
- `ParametersStayInStep`: `ParametersAgree` is inductive with the types, once what a request to save carries is typed (`SavingTypeOK`). One lemma says
  that every clone ends with flag and URL by its own parameters (`ClonesAgree`); the other actions change one of them and restore the relation.
- `DashboardsSettle`: `SpinnersAreBacked` and `ParameterIsShown`. Loads are numbered as they start (`Numbered`), and no load that has ended is younger than
  the one shown unless one was overtaken (`ShowsYoungest`): without running loads the one shown is the last, and the last has the parameter's value
  (`LatestHasParam`), because a new value forces loads of all the widgets that depend on it.
- `SavingEndsSomehow`: `SavingIsBacked`, the safety half of `DoneIsHeard`: "saving" is shown only while something will end it. A failed batch may go
  without a word, because it said so when it failed. `LayoutTypeOK` needs more than itself: a request's position is read from the layout of its batch, so
  a batch sends only positions its layout has, and stores only what it sends (`LayoutTypes`).
- `HeightsStayWatched`: `HeightsAreWatched` is inductive; the case to see is an update that adds and removes at once.
- `DatasetsAreJoined`: `GraphIsJoined`. The dialog is open exactly while there is a node without a join (`Lengths`), a left table that was chosen stays
  a position before the new node (`ChoiceIsOld`), and the text is that of the graph unless an answer reverted it (`TextOfGraph`). The types of the
  texts follow from those of the graph for a text that was made of it, and from those of the texts before for one that an answer brought back (`TextTypes`).
- `ScreensKeepTheirSettings`: `SettingsHaveCharts` and `NewChartIsOnTop`. The first is not inductive: two settings may have one id (charts made within one
  second), and a deletion takes the first setting and the first chart with it, which would leave the other setting alone if there were one chart for both.
  What is kept is that the settings can be assigned charts of their own (`Fits`: an injective function); `FitsMore`, `FitsOneMore` and `FitsOneLess` say
  what adding, copying and deleting do to such an assignment. For the second, z-indexes must leave room for the number a new chart gets, which is the
  number of charts: no z-index exceeds it, and each is at least one less while a chart is active, because an active chart can be deleted (`Lower`).
  That there is a first chart with an id is the least element of a set of naturals (`LeastOfSet`), from the well-foundedness the library proves.
- `ListsShowWhatIsAsked`: `ShownIsAsked` and `PageInRange`. A paginated list that never had two requests waits for one with its present controls (`OneFetch`);
  a plain list that waits for none is sorted by them (`OrderIsKept`);
  what an answer makes of the page is a lemma about the paginator (a page is one of the pages, or the first), where the division into pages is arithmetic.
- `AlertPageAgrees`: `AlertIsAsStored` and `ColumnIsOfQuery`. While a request is under way the page's copy, changed as its answer will change it, is the stored
  alert once the request was carried out (`CopyIsStored`, `Expected`); results are awaited for the query that is selected, or was before it was cleared, and none during a save
  (`ResultsAreOfQuery`). That the ids of stored alerts stay below their bound takes counting the creations that are still under way (`RowsAreCounted`).
  `AlertPageAssumption` bounds edits and requests by numbers, and says that "none" is no query.
- `PagesKeepTheirSpecs`: a browser with any page open (`ClientSpec`) behaves as the specification of each page allows, with the page's fairness. So the theorems about the
  pages hold in the composition that the run `client` checks: `ClientKeepsItsTypes` (`ClientTypeOK`) and `ClientIsCorrect` (its twelve other invariants and
  `NewChartIsOnTop`).

Every invariant and every action property that a passing run checks is stated by one of these theorems. Only model-checked are the liveness properties
(`CallsReturn`, `StaleLockGoes`, `WorkersNotStuck`, `JobsComplete`, `ResultsRefreshed`, `PauseStops`, `PastSchedulesGo`, `ExecutionsEnd`, `DoneIsHeard`): fairness and ENABLED are
beyond the prover. The three violations are counterexamples, which TLC finds and nothing has to prove.

## 5. Where the code and its documents disagree

- `dup_serial`: `redis_connection.delete` in `enqueue_query` touches the key that the pipeline of the same call watches. So once a call finds the lock
  of a complete job its transaction fails, the retry finds no lock and returns the new job without one, and the next call
  enqueues another. `tests/tasks/test_queries.py` asserts one enqueue per query.
- `query_conflict`: nothing ever assigns a query's version. Both version checks succeed always, and the conflict that the
  handler documents does not occur.
- `weekday`: for a previous execution before the time of its day the previous iteration is moved a day back, but the day of the week
  is taken from the date before that; the query is due a day early.

Observed while the code was modelled, and kept in the models as the code has it; where a property would fail it names the exception, in most cases by a
history variable:

- A lock that is lost while its job waits, or a text that is edited, lets a query start a third time within its interval (`unguarded`, `execution.py:63`, `:104`, `:195`).
- The latest result of a query may be one that no check of its alerts has seen: the page of a query stores the id of the result it shows with every full save
  (`useUpdateQuery.jsx:95`, `handlers/queries.py:351`), and a horse may be killed after its commit and before it enqueues the check (`unchecked`, `execution.py:226`).
- A dashboard's page that publishes (a save without a version, whose answer's version it does not take over), or saves again before it has the answer, gets a later save
  refused as "modified by another user" over its own (`ConflictsAreReal` names both, `useDashboard.js:77`).
- A start of an execution that is answered 403 without a job neither resolves nor rejects: the page executes until another execution is started
  (`forbidden`, `query-result.js:70`, `:171`).

- Every clone of a query drops the pending values of parameters that the URL has a value for, while the inputs still show them. An edit of settings drops a pending value
  and leaves the flag that blocks execution until the next change of the query (`settingsEdited`). Values applied during a save are reverted by its answer.
- A parameter applied while a dashboard refreshes changes the value and the URL and loads nothing (`dropped`, `useDashboard.js:132`). A load that ends after a later one
  of its widget is shown (`overtaken`, `widget.js:148`).
- Two full saves of a query page that overlap, or an answer that is lost, leave a text that counts as saved and is not the stored one (`overlapped`, `lost`).
- `saveDashboardLayoutDebounced` debounces nothing: it makes a new debounced function for every call.
- A list whose answer moves the page (fewer items than before) shows the old page's items under the new number (`pageMoved`); answers of a paginated list are
  shown in the order they come (`crossed`). A plain list that is paged while a new order is being fetched shows the old order as loaded, until the answer comes
  (`allItemsOrder`, `ItemsFetcher.js:52`).
- The alert page shows whichever result comes last, also of a query that is no longer selected (`resultsCrossed`); a failed result leaves "Loading query data".
- The clear icon takes the query of an alert away and nothing checks for that. If its result is awaited, the render after the result throws
  (`NotificationTemplate.jsx:25`), and so does viewing after the edit is cancelled (`Query.jsx:40`); Save Changes throws in `transformRequest`, sends nothing and leaves
  its spinner; and the answer of a save that was under way brings the query back without its result, as "Loading query data".
- The dataset page: a text whose first condition is empty has no " on ", one whose last is empty ends in " and "; the default left table is the node before the new one,
  while the columns offered are those of the first; an answer of a save or a rename brings the text of its sending back (`reverted`); the wizard's schedule
  is never used. `reloadSchema` of `useDataSourceSchema.js` does not pass its `refresh` flag on, so that a refresh reads the cache.
- A stored failure counter is reset only if the copy loaded at the start of the execution had failures; a failure of an earlier execution that is stored later
  survives the success (`execution.py:206`).

## 6. Not modelled, and why

Abstracted on purpose: texts, the contents of values, rows of results, mails, log lines, metrics, permission checks at the head of
handlers (a request that fails them changes nothing). Redis and Postgres do not lose data. RQ is modelled from how the code uses
it. `PROJECT.json` has a reason for each component; in short:

- Most of the repository by size is data and presentation: chart options and themes of screens, about sixty query runners, about ten destinations, the visualization
  library, inputs, dialogs and tables. They have no state that outlives a call, or only that of an input field.
- Failure reports, deletion of data sources, the schema cache, sharing and grants are a few statements each. Their races are listed as hazards where they exist; the code
  and its documents promise nothing that they would break, and a property would restate the statements.
- Two users on one screen: there is no version and no merge, so nothing could be claimed.
- Several pages of one user on one document are `DocumentEditing` (queries and dashboards); the pages' own modules have one page and the server.
- The composition of `QueryExecution` with `QueryJobs`: the page sees a job only through its status and result, which `JobRuns` and `JobExpires` change in every order
  that `JobLifecycle` allows; the product would multiply the states and add no order.
- Cypress and unit tests, migrations, command line, build scripts.
