-------------------------- MODULE ScheduledRefresh --------------------------
(***************************************************************************)
(* How scheduled queries get executed: the periodic job refresh_queries    *)
(* (redash/tasks/queries/maintenance.py) asks Query.outdated_queries for   *)
(* the queries that are due and enqueues them one by one, workers execute  *)
(* the jobs (redash/tasks/queries/execution.py), the periodic job          *)
(* empty_schedules removes schedules that are over, and users edit, pause  *)
(* and run queries meanwhile.                                              *)
(*                                                                         *)
(* Time is kept as ages: how long ago an execution started or a result was *)
(* retrieved, in the unit of the intervals, up to MaxAge.  Schedules have  *)
(* an interval here; a time of the day is the subject of ScheduleTimes.    *)
(* enqueue_query is one step: QueryJobs has its details, and what of them  *)
(* reaches this module is that a job may be queued without the lock of its *)
(* query, or lose it.                                                      *)
(***************************************************************************)
EXTENDS Naturals

CONSTANTS Queries,       \* ids of scheduled queries, in the order the database returns them
          Texts,         \* query texts; the texts of two data sources count as different
          InitialText,   \* [Queries -> Texts]
          Params,        \* the values params may have
          Interval,      \* [Queries -> Nat]
          Jobs,          \* jobs that can exist at a time
          FailingTexts,  \* texts whose execution may fail
          Overflow,      \* failures from which the backoff is no timedelta any more (41 minutes' powers of two)
          MaxFailures,   \* bound on the failures that are counted
          MaxAge,        \* bound on ages, beyond every interval and backoff
          Events,        \* what users, the calendar and empty_schedules do in this instance
          Never

\* What the default values of a query's parameters are: there are no parameters, they fit or they do not.
Defaults == {"none", "valid", "invalid"}

ASSUME RefreshAssumption ==
  /\ Queries \subseteq Nat \ {0}
  /\ Overflow \in Nat /\ MaxFailures \in Nat /\ MaxAge \in Nat
  /\ InitialText \in [Queries -> Texts] /\ FailingTexts \subseteq Texts
  /\ Params \subseteq [Queries -> Defaults]
  /\ Interval \in [Queries -> Nat]
  /\ Never \notin Nat \cup Jobs

VARIABLES schedule,   \* Query.schedule
          text,       \* Query.query_text (and query_hash)
          params,     \* Query.options: the default values of its parameters
          failures,   \* Query.schedule_failures
          result,     \* age of Query.latest_query_data
          executed,   \* age of the entry in scheduled_queries_executions
          before,     \* age of the entry it replaced (history variable)
          paused,     \* the pause key of the data source
          todo,       \* refresh_queries: reported queries it has not handled
          loaded,     \* refresh_queries: schedule_failures in its session, Never once expired
          emptying,   \* empty_schedules: the queries it is about to change
          jobs,
          lock,       \* Redis: the job that the lock of each sql names
          unguarded   \* queries a job of which waits, or waited lately, without their lock (history variable)

query  == <<schedule, text, params, failures>>
ages   == <<result, executed, before>>
locks  == <<lock, unguarded>>
vars   == <<query, ages, paused, todo, loaded, emptying, jobs, locks>>

Ages == 0 .. MaxAge \cup {Never}
NoQuery == 0        \* scheduled_query_id None: a job some user asked for
NoSchedule == [until |-> "none", disabled |-> FALSE]
Schedules == [until : {"none", "open", "past", "bad"}, disabled : BOOLEAN]
Sqls == Texts \X (Queries \cup {NoQuery})
JobStates == {"free", "queued", "started", "succeeded", "failed"}
Job == [state : JobStates, query : Queries \cup {NoQuery}, sql : Sqls \cup {Never}, seen : Nat]
Free == [state |-> "free", query |-> NoQuery, sql |-> Never, seen |-> 0]

TypeOK ==
  /\ schedule \in [Queries -> Schedules]
  /\ text \in [Queries -> Texts] /\ params \in [Queries -> Defaults]
  /\ failures \in [Queries -> Nat]
  /\ result \in [Queries -> Ages]
  /\ executed \in [Queries -> Ages] /\ before \in [Queries -> Ages]
  /\ paused \in BOOLEAN
  /\ todo \subseteq Queries /\ emptying \subseteq Queries
  /\ loaded \in [Queries -> Nat \cup {Never}]
  /\ jobs \in [Jobs -> Job]
  /\ lock \in [Sqls -> Jobs \cup {Never}] /\ unguarded \subseteq Queries

Init ==
  /\ schedule = [q \in Queries |-> [until |-> "open", disabled |-> FALSE]]
  /\ text = InitialText /\ params \in Params
  /\ failures = [q \in Queries |-> 0]
  /\ result \in [Queries -> {0, Never}]
  /\ executed = [q \in Queries |-> Never] /\ before = executed
  /\ paused = FALSE
  /\ todo = {} /\ emptying = {}
  /\ loaded = [q \in Queries |-> Never]
  /\ jobs = [j \in Jobs |-> Free]
  /\ lock = [sql \in Sqls |-> Never] /\ unguarded = {}

(***************************************************************************)
(* Time.                                                                   *)
(***************************************************************************)
Older(a) == IF a = Never \/ a = MaxAge THEN a ELSE a + 1

Waits(j, q) == jobs[j].state = "queued" /\ jobs[j].query = q

\* No job of the query waits and none is about to be enqueued.
Settled(q) == q \notin todo /\ \A j \in Jobs : ~Waits(j, q)

Tick ==
  /\ result' = [q \in Queries |-> Older(result[q])]
  /\ executed' = [q \in Queries |-> Older(executed[q])]
  /\ before' = [q \in Queries |-> Older(before[q])]
  /\ unguarded' = {q \in unguarded : ~Settled(q)}
  /\ UNCHANGED <<query, paused, todo, loaded, emptying, jobs, lock>>

(***************************************************************************)
(* Query.outdated_queries and should_schedule_next, for plain intervals.   *)
(***************************************************************************)
Backoff(f) == IF f = 0 THEN 0 ELSE 2 ^ f

ASSUME BackoffAssumption == \A f \in 0 .. Overflow : Backoff(f) \in Nat

\* Mutant: executions are not tracked.
SinceResult(q) == IF result[q] # Never THEN result[q] ELSE 0

\* The tracker's entry, or else the latest result; a query with neither counts as executed just now.
Since(q) == IF executed[q] # Never THEN executed[q] ELSE IF result[q] # Never THEN result[q] ELSE 0

Due(q) == failures[q] < Overflow /\ Since(q) > Interval[q] + Backoff(failures[q])

\* strptime raises on such a schedule: it is disabled and the loop goes on.
Faulty(q) == schedule[q].until = "bad" /\ ~schedule[q].disabled

Outdated == {q \in Queries : schedule[q].until = "open" /\ ~schedule[q].disabled /\ Due(q)}

\* A dictionary keyed by text keeps the last query of each.
Reported == {q \in Outdated : \A r \in Outdated : text[r] = text[q] => r <= q}

\* Disabling commits, and a commit expires what the session has loaded.
Refresh ==
  /\ todo = {}
  /\ todo' = Reported
  /\ schedule' = [q \in Queries |->
       IF Faulty(q) THEN [until |-> "bad", disabled |-> TRUE] ELSE schedule[q]]
  /\ loaded' = [q \in Queries |->
       IF q \notin Reported \/ \E f \in Queries : Faulty(f) /\ f > q THEN Never ELSE failures[q]]
  /\ UNCHANGED <<text, params, failures, ages, paused, emptying, jobs, locks>>

(***************************************************************************)
(* The rest of refresh_queries, query by query.                            *)
(***************************************************************************)
\* Default values are filled in for the query; a text without parameters is executed as it is.
Sql(q) == <<text[q], IF params[q] = "valid" THEN q ELSE NoQuery>>

\* enqueue_query finds the job the lock names; the lock of a complete job counts as none.
Locked(sql) == lock[sql] # Never

Queue(j, sql, q) ==
  /\ jobs[j] = Free
  /\ jobs' = [jobs EXCEPT ![j] = [state |-> "queued", query |-> q, sql |-> sql, seen |-> 0]]

\* The transaction fails when the call has removed the lock of a complete job itself, or another call
\* was faster: the job is queued all the same, and the lock is what it was (QueryJobs).  Here it may
\* fail at any call, for neither complete jobs' locks nor the overlap of calls is kept.
QueueUnlocked(sql, q) ==
  /\ "LockLoss" \in Events
  /\ \E j \in Jobs : Queue(j, sql, q)
  /\ unguarded' = unguarded \cup ({q} \cap Queries)
  /\ UNCHANGED lock

EnqueueQuery(sql, q) ==
  \/ Locked(sql) /\ UNCHANGED <<jobs, locks>>
  \/ /\ ~Locked(sql)
     /\ \E j \in Jobs : Queue(j, sql, q) /\ lock' = [lock EXCEPT ![sql] = j]
     /\ UNCHANGED unguarded
  \/ QueueUnlocked(sql, q)

Handled(q) == todo' = todo \ {q} /\ UNCHANGED <<schedule, text, params, ages, paused, emptying>>

Skip(q) ==
  /\ q \in todo /\ paused /\ Handled(q)
  /\ UNCHANGED <<failures, loaded, jobs, locks>>

\* Mutant: the data source is not asked.
EnqueuePaused(q) ==
  /\ q \in todo /\ params[q] # "invalid"
  /\ EnqueueQuery(Sql(q), q) /\ Handled(q)
  /\ UNCHANGED <<failures, loaded>>

Enqueue(q) ==
  /\ q \in todo /\ ~paused /\ params[q] # "invalid"
  /\ EnqueueQuery(Sql(q), q) /\ Handled(q)
  /\ UNCHANGED <<failures, loaded>>

Counted(n) == n + 1

\* Mutant: the query is only skipped.
SkipInvalid(q) ==
  /\ q \in todo /\ ~paused /\ params[q] = "invalid" /\ Handled(q)
  /\ UNCHANGED <<failures, loaded, jobs, locks>>

\* track_failure of a query whose default parameters do not apply.
TrackInvalid(q) ==
  /\ q \in todo /\ ~paused /\ params[q] = "invalid" /\ Handled(q)
  /\ failures' = [failures EXCEPT ![q] = Counted(IF loaded[q] = Never THEN failures[q] ELSE loaded[q])]
  /\ loaded' = [r \in Queries |-> Never]
  /\ UNCHANGED <<jobs, locks>>

(***************************************************************************)
(* execute_query.                                                          *)
(***************************************************************************)
\* The scheduled query is loaded, the session closed and the execution tracked.
Start(j) ==
  LET q == jobs[j].query IN
  /\ jobs[j].state = "queued"
  /\ jobs' = [jobs EXCEPT ![j] = [state |-> "started", query |-> q, sql |-> jobs[j].sql,
                                  seen |-> IF q = NoQuery THEN 0 ELSE failures[q]]]
  /\ executed' = [r \in Queries |-> IF r = q THEN 0 ELSE executed[r]]
  /\ before' = [r \in Queries |-> IF r = q THEN executed[r] ELSE before[r]]
  /\ UNCHANGED <<query, result, paused, todo, loaded, emptying, locks>>

\* The jobs that wait with the lock of the sql, whose queries are unguarded when it goes.
Exposed(sql) == {q \in Queries : \E j \in Jobs : lock[sql] = j /\ Waits(j, q)}

DropLock(sql) ==
  /\ lock' = [lock EXCEPT ![sql] = Never]
  /\ unguarded' = unguarded \cup Exposed(sql)

\* The data source has answered; the lock goes before anything is stored, whichever job it names.
Unlock(j, outcome) ==
  /\ jobs[j].state = "started"
  /\ outcome = "failed" => jobs[j].sql[1] \in FailingTexts
  /\ jobs' = [jobs EXCEPT ![j].state = outcome]
  /\ DropLock(jobs[j].sql)
  /\ UNCHANGED <<query, ages, paused, todo, loaded, emptying>>

\* JOB_EXPIRY_TIME after it was set, whether or not its job is done.
LockExpires(sql) ==
  /\ "LockLoss" \in Events /\ Locked(sql)
  /\ DropLock(sql)
  /\ UNCHANGED <<query, ages, paused, todo, loaded, emptying, jobs>>

\* update_latest_result: every query with the hash of the executed sql gets the result.
GetsResult(q, j) == Sql(q)[1] = jobs[j].sql[1] /\ jobs[j].sql[2] = NoQuery

Succeed(j) ==
  /\ jobs[j].state = "succeeded"
  /\ failures' = [q \in Queries |-> IF q = jobs[j].query /\ jobs[j].seen > 0 THEN 0 ELSE failures[q]]
  /\ result' = [q \in Queries |-> IF GetsResult(q, j) THEN 0 ELSE result[q]]
  /\ jobs' = [jobs EXCEPT ![j] = Free]
  /\ UNCHANGED <<schedule, text, params, executed, before, paused, todo, loaded, emptying, locks>>

\* track_failure counts from the copy the job loaded (merge with load=False).
Fail(j) ==
  /\ jobs[j].state = "failed" /\ jobs[j].seen < MaxFailures
  /\ failures' = [q \in Queries |-> IF q = jobs[j].query THEN Counted(jobs[j].seen) ELSE failures[q]]
  /\ jobs' = [jobs EXCEPT ![j] = Free]
  /\ UNCHANGED <<schedule, text, params, ages, paused, todo, loaded, emptying, locks>>

(***************************************************************************)
(* empty_schedules.                                                        *)
(***************************************************************************)
\* past_scheduled_queries reads them all; one malformed date makes the job fail.
EmptyRead ==
  /\ "Empty" \in Events /\ emptying = {} /\ \A q \in Queries : schedule[q].until # "bad"
  /\ emptying' = {q \in Queries : schedule[q].until = "past"}
  /\ UNCHANGED <<query, ages, paused, todo, loaded, jobs, locks>>

\* Mutant: the commit is forgotten.
EmptyNotCommitted ==
  /\ emptying # {} /\ emptying' = {}
  /\ UNCHANGED <<query, ages, paused, todo, loaded, jobs, locks>>

EmptyWrite ==
  /\ emptying # {} /\ emptying' = {}
  /\ schedule' = [q \in Queries |-> IF q \in emptying THEN NoSchedule ELSE schedule[q]]
  /\ UNCHANGED <<text, params, failures, ages, paused, todo, loaded, jobs, locks>>

(***************************************************************************)
(* Users, the administrator and the calendar.                              *)
(***************************************************************************)
\* QueryResource.post, or Query.archive.
EditSchedule(q, until) ==
  /\ schedule' = [schedule EXCEPT ![q] = [until |-> until, disabled |-> FALSE]]
  /\ UNCHANGED <<text, params, failures, ages, paused, todo, loaded, emptying, jobs, locks>>

\* The date of the schedule passes.
Pass(q) ==
  /\ schedule[q].until = "open"
  /\ schedule' = [schedule EXCEPT ![q].until = "past"]
  /\ UNCHANGED <<text, params, failures, ages, paused, todo, loaded, emptying, jobs, locks>>

\* QueryResource.post with another text: gen_query_hash resets the failures, and the lock is another one.
EditText(q, t) ==
  /\ text' = [text EXCEPT ![q] = t] /\ unguarded' = unguarded \cup {q}
  /\ failures' = [failures EXCEPT ![q] = 0]
  /\ UNCHANGED <<schedule, params, ages, paused, todo, loaded, emptying, jobs, lock>>

\* DataSourcePauseResource.
SetPaused(on) ==
  /\ paused' = on
  /\ UNCHANGED <<query, ages, todo, loaded, emptying, jobs, locks>>

\* run_query refuses on a paused data source and else enqueues without a scheduled query.
RunManually(q) ==
  /\ ~paused
  /\ EnqueueQuery(Sql(q), NoQuery)
  /\ UNCHANGED <<query, ages, paused, todo, loaded, emptying>>

User ==
  \/ "EditSchedule" \in Events /\ \E q \in Queries, u \in {"none", "open"} : EditSchedule(q, u)
  \/ "Malformed" \in Events /\ \E q \in Queries : EditSchedule(q, "bad")
  \/ "Pass" \in Events /\ \E q \in Queries : Pass(q)
  \/ "EditText" \in Events /\ \E q \in Queries, t \in Texts : EditText(q, t)
  \/ "Pause" \in Events /\ \E on \in BOOLEAN : SetPaused(on)
  \/ "RunManually" \in Events /\ \E q \in Queries : RunManually(q)

Refresher == Refresh \/ \E q \in Queries : Skip(q) \/ Enqueue(q) \/ TrackInvalid(q)
Emptier == EmptyRead \/ EmptyWrite
Finish(j) == Unlock(j, "succeeded") \/ Unlock(j, "failed") \/ Succeed(j) \/ Fail(j)

Next ==
  \/ Tick \/ User \/ Refresher \/ Emptier
  \/ \E j \in Jobs : Start(j) \/ Finish(j)
  \/ \E sql \in Sqls : LockExpires(sql)

Spec == Init /\ [][Next]_vars

\* rq-scheduler keeps enqueueing the periodic jobs, their worker and the workers of the queries run
\* (QueryJobs: no job keeps a worker), and time passes.  Nothing is assumed of users.
Fairness ==
  /\ WF_vars(Tick) /\ WF_vars(Refresher) /\ WF_vars(Emptier)
  /\ \A j \in Jobs : WF_vars(Start(j)) /\ WF_vars(Finish(j))

FairSpec == Spec /\ Fairness

(***************************************************************************)
(* Properties.                                                             *)
(***************************************************************************)
\* A query can start once more right after it started, for refresh_queries may have read the tracker
\* before the start; but the start after that waits for the interval.  Excepted is a query that has been
\* given another text, or a job of which was queued without the lock or lost it while it waited, until
\* time passes with none of its jobs waiting.
ThirdStartWaits ==
  [][\A j \in Jobs, q \in Queries \ unguarded :
       Start(j) /\ jobs[j].query = q /\ before[q] # Never => before[q] > Interval[q]]_vars

Active(q) ==
  /\ schedule[q] = [until |-> "open", disabled |-> FALSE]
  /\ params[q] = "none" /\ text[q] \notin FailingTexts
  /\ Since(q) # 0 \/ executed[q] # Never \/ result[q] # Never
  /\ ~paused

\* The result of every query with a working schedule is refreshed again and again, although only one
\* query of each text is reported, and whatever the others' schedules and parameters are.
ResultsRefreshed == \A q \in Queries : <>[]Active(q) => []<>(result[q] = 0)

\* A data source that stays paused gets idle, whatever is scheduled.
PauseStops == <>[]paused => <>[](\A j \in Jobs : jobs[j].state = "free")

\* The schedule of a query goes some time after its date; a malformed date of any query prevents it.
PastSchedulesGo ==
  \A q \in Queries :
    schedule[q].until = "past" ~> schedule[q].until # "past" \/ \E r \in Queries : schedule[r].until = "bad"
==============================================================================
